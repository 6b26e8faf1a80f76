SPECIFICATION Spec
CONSTANTS
  Capacity = 2
  MaxArrivals = 3
  Responses = {"1xx", "2xx", "failure"}
INVARIANTS TypeOK EndingSettled NeverStranded NoOrphanTimer
PROPERTIES StatesAdvance WireDiscipline KeepsContract
CHECK_DEADLOCK FALSE
