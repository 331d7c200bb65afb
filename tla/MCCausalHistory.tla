-------------------------- MODULE MCCausalHistory --------------------------
(***************************************************************************)
(* CausalHistory with three signers: one ordinary, one whose history       *)
(* entries the others cannot parse, one whose sender id they cannot.       *)
(***************************************************************************)
EXTENDS CausalHistory

CONSTANTS s1, s2, s3

MCSigners == {s1, s2, s3}
MCMixed == [s \in MCSigners |-> IF s = s1 THEN "ok" ELSE IF s = s2 THEN "badEntries" ELSE "badSender"]
=============================================================================
