SPECIFICATION Spec
CONSTANTS
  s1 = s1
  s2 = s2
  s3 = s3
  Signers <- MCSigners
  NoSigner = NoSigner
  Contents = {c1}
  CausalHistoryLen = 2
  Dialect <- MCMixed
  MaxLamport = 4
  MaxMessages = 4
INVARIANTS
  AckImpliesHeld
  ClockCondition
  NoSilentGap
  GapSurfacedOnce
CHECK_DEADLOCK FALSE
