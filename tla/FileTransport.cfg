SPECIFICATION Spec
CONSTANTS
  f1 = f1
  f2 = f2
  w1 = w1
  w2 = w2
  Paths <- MCPaths
  Writers <- MCWriters
  Idle = Idle
  Garbage = Garbage
  Capacity = 2
  MaxEnvelopes = 3
  MaxFailures = 1
INVARIANTS
  WholeFramesOnly
PROPERTIES
  KeepsUp
