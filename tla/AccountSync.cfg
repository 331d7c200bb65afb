SPECIFICATION Spec
CONSTANTS
  k1 = k1
  d1 = d1
  d2 = d2
  r1 = r1
  r2 = r2
  ValidKeys = {k1}
  Devices = {d1, d2}
  Resolvers = {r1, r2}
  Batches <- MCBatches
  ForeignEntries <- MCForeign
  NoLog = NoLog
  Unsigned = Unsigned
  MaxEntries = 3
  MaxLosses = 1
SYMMETRY MCSymmetry
INVARIANTS
  NoFork
  DraftsAreSound
  RevokingIsEnough
  RevocationSticks
PROPERTIES
  HeldOnlyExtends
CHECK_DEADLOCK FALSE
