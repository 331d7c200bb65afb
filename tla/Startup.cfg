SPECIFICATION Spec
CONSTANTS
  p1 = p1
  p2 = p2
  saro1 = saro1
  saro2 = saro2
  Procs = {p1, p2}
  Plans <- MCPlans
  Aliases = {saro1, saro2}
  Database = database
  Ephemeral = ephemeral
  Missing = missing
  Torn = torn
  MaxRetries = 1
INVARIANTS
  OnDiskIsEndorsed
  OneInstallationPerStore
  ListensBeforeInvited
  RegisteredIsServed
PROPERTY EventuallyRuns
CHECK_DEADLOCK FALSE
