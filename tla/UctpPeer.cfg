SPECIFICATION FairSpec
CONSTANTS
  s1 = s1
  s2 = s2
  c1 = c1
  w1 = w1
  Sids = {s1, s2}
  Connids = {c1}
  Waiters = {w1}
  MaxSessions = 1
  MaxHandle = 3
  OfferSizes = {2}
  EventCap = 1
  MaxEnvelopes = 5
INVARIANTS RoutesAgree InboundIdentified HandlesUnique NoPendingLeak
PROPERTIES SessionsAdvance ShutdownReports
CHECK_DEADLOCK FALSE
