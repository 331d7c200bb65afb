----------------------------- MODULE MCGroupV1 -----------------------------
(***************************************************************************)
(* GroupV1 with a creator and two others who are added and removed.        *)
(***************************************************************************)
EXTENDS GroupV1, TLC

CONSTANTS saro, raya, pax

MCSymmetry == Permutations({raya, pax})
=============================================================================
