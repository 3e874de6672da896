\* Standalone mode: connections are dialed without timeouts.
SPECIFICATION Spec
CONSTANTS
  Requests = {q1, q2}
  MaxActive = 1
  Timeouts = FALSE
PROPERTIES
  RepliesTimeOut
CHECK_DEADLOCK FALSE
