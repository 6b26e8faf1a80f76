SPECIFICATION FairSpec
CONSTANTS
  Capacity = 6
  MaxArrivals = 1
  TuTasks = {"session"}
  MaxResponses = 1
  MaxRepeats = 0
  MaxEvents = 1
  Requests = {"INVITE", "ACK"}
PROPERTIES CompletedEnds SuccessEnds
CHECK_DEADLOCK FALSE
