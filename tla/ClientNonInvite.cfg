SPECIFICATION FairSpec
CONSTANTS
  Capacity = 8
  MaxArrivals = 2
  Responses = {"1xx", "failure"}
PROPERTIES KeepsContract TryingEnds RunnerExits
CHECK_DEADLOCK FALSE
