SPECIFICATION Spec
CONSTANTS
  Scripts <- HoldScript
  Refused = {}
  Threads = 2
INVARIANT HoldSettles
CHECK_DEADLOCK FALSE
