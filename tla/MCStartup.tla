----------------------------- MODULE MCStartup -----------------------------
EXTENDS Startup, TLC

CONSTANTS p1, p2, saro1, saro2

\* Two processes on one database, two installations of one account started
\* together, and each kind of client by itself, with more going wrong.
MCPlans ==
  {[way |-> p1 :> Database @@ p2 :> Database, faults |-> 1],
   [way |-> p1 :> saro1 @@ p2 :> saro2, faults |-> 1],
   [way |-> p1 :> Database, faults |-> 3],
   [way |-> p1 :> saro1, faults |-> 3],
   [way |-> p1 :> Ephemeral, faults |-> 2]}
============================================================================
