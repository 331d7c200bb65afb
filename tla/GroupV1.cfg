SPECIFICATION SafeSpec
CONSTANTS
  saro = saro
  raya = raya
  pax = pax
  Signers = {saro, raya, pax}
  Creator = saro
  Ordered = FALSE
  MaxCommits = 4
  MaxContents = 1
  MaxRestarts = 1
  MaxFailures = 1
SYMMETRY MCSymmetry
INVARIANTS
  OneHistory
  RemovedReadsNothingLater
CHECK_DEADLOCK FALSE
