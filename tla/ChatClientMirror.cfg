SPECIFICATION Spec
CONSTANTS
  x = x
  y = y
  Convos = {x, y}
  Mine = {x}
  Restored = {y}
  NoChat = NoChat
  MaxFrames = 2
  MaxWakeups = 1
INVARIANT FlagMirrors
CHECK_DEADLOCK FALSE
