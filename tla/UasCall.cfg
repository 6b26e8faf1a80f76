SPECIFICATION FairSpec
CONSTANTS
  MaxCancels = 1
  MaxAcks = 1
  MaxByes = 2
  MaxWaiting = 2
  MaxRefusals = 1
INVARIANTS ByeHonoured AckMeansAccepted
PROPERTIES DialogAdvances ByeSettles CancelSettles AckReaches
CHECK_DEADLOCK FALSE
