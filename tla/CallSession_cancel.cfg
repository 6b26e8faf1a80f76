SPECIFICATION Spec
CONSTANTS
  Scripts <- CancelScript
  Refused = {}
  Threads = 1
INVARIANT BuilderCancelAfterProvisional
CHECK_DEADLOCK FALSE
