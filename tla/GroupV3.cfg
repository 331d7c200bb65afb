SPECIFICATION Spec
CONSTANTS
  Signers = {saro, raya, pax}
  Creator = saro
  NoCommit = NoCommit
  MaxCommits = 3
  MaxContents = 1
  MaxFaults = 1
INVARIANTS
  ForkNeedsRace
  NeverWedged
PROPERTY Converges
CHECK_DEADLOCK FALSE
