SPECIFICATION Spec
CONSTANTS
  saro = saro
  raya = raya
  pax = pax
  Signers = {saro, raya, pax}
  Me = saro
  Vacant = Vacant
  NotFrozen = NotFrozen
  VoteTime = 2
  FreezeTime = 1
  MaxRounds = 2
  MaxFailures = 1
INVARIANTS
  EjectedIsNotMember
