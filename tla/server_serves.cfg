SPECIFICATION FairSpec
CONSTANTS
  Clients = {c1}
  Nobody = Nobody
  Kinds = {"op", "enable", "disable", "ready", "garbage", "unsupported"}
  Pipelining = FALSE
  Parts = FALSE
  Failures = TRUE
  BusSize = 1
  MaxRequests = 3
  MaxEvents = 2
INVARIANT
  NoEventMissed
PROPERTIES
  AnsweredOrClosed
  EventsArrive
  StopEnds
  DisableForgotten
CHECK_DEADLOCK FALSE
