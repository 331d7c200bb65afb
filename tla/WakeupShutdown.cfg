SPECIFICATION Spec
CONSTANTS
  Convos = {c1}
  Durations = {1}
  MaxTime = 2
  MaxArmed = 1
PROPERTIES
  ShutdownWakes
CHECK_DEADLOCK FALSE
