SPECIFICATION FairSpec
CONSTANTS
  Scripts <- MCScripts
  Refused = {"200"}
  Threads = 1
INVARIANTS ByeAfterAck CancelAfterProvisional HoldSettles
PROPERTIES EndReported AnsweringBounded
CHECK_DEADLOCK FALSE
