SPECIFICATION SafeSpec
CONSTANTS
  saro = saro
  raya = raya
  pax = pax
  Signers = {saro, raya, pax}
  Creator = saro
  Ordered = TRUE
  MaxCommits = 4
  MaxContents = 1
  MaxRestarts = 0
  MaxFailures = 0
INVARIANTS
  MembershipReflected
CHECK_DEADLOCK FALSE
