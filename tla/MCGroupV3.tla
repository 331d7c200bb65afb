----------------------------- MODULE MCGroupV3 -----------------------------
(***************************************************************************)
(* GroupV3 with a creator and two others, all of whom may add members.     *)
(***************************************************************************)
EXTENDS GroupV3, TLC
=============================================================================
