-------------------------- MODULE MCWakeupService --------------------------
(***************************************************************************)
(* WakeupService with a few registrations over a few instants.             *)
(***************************************************************************)
EXTENDS WakeupService
=============================================================================
