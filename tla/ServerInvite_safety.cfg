SPECIFICATION Spec
CONSTANTS
  session = session
  dialog = dialog
  Capacity = 2
  MaxArrivals = 1
  TuTasks = {session, dialog}
  MaxResponses = 2
  MaxRepeats = 1
  MaxEvents = 1
  Requests = {"INVITE", "ACK"}
SYMMETRY TaskSymmetry
INVARIANTS RetransmitsAnswer RefusalSettled
PROPERTY QuietAfterAck
CHECK_DEADLOCK FALSE
