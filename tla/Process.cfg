\* The whole life of a process: two requests, and one connection with timeouts to
\* a Redis that hangs. It stops when it has exited.
SPECIFICATION Spec
CONSTANTS
  Requests = {q1, q2}
  MaxActive = 1
  Timeouts = TRUE
INVARIANTS
  TypeOK
  HandlersKeepTheirPools
  ConnectionsAreConserved
PROPERTIES
  ShutdownCompletes
  RequestsAreAnswered
  ImplementsRequestService
  UpdatesReturn
CHECK_DEADLOCK FALSE
