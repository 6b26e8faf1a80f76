SPECIFICATION FairSpec
CONSTANTS
  Capacity = 2
  MaxArrivals = 2
  TuTasks = {"handler"}
  MaxResponses = 3
  MaxRepeats = 0
INVARIANT RetransmitsFinal
PROPERTIES RepeatsOnlyFinal AnsweredEnds
CHECK_DEADLOCK FALSE
