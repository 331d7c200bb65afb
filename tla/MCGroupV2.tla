----------------------------- MODULE MCGroupV2 -----------------------------
(***************************************************************************)
(* GroupV2 as seen by saro, with two others to add, to remove or to be      *)
(* removed by.                                                              *)
(***************************************************************************)
EXTENDS GroupV2

CONSTANTS saro, raya, pax
=============================================================================
