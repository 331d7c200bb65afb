SPECIFICATION Spec
CONSTANTS
  Convos = {c1}
  Durations = {0, 1, 2}
  MaxTime = 4
  MaxArmed = 3
INVARIANTS
  NeverOversleeps
PROPERTIES
  EventuallySent
  DropEndsWhenArmed
CHECK_DEADLOCK FALSE
