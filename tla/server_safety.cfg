SPECIFICATION Spec
CONSTANTS
  Clients = {c1, c2}
  Nobody = Nobody
  Kinds = {"op", "disable"}
  Pipelining = TRUE
  Parts = TRUE
  Failures = FALSE
  BusSize = 1
  MaxRequests = 2
  MaxEvents = 0
SYMMETRY Interchangeable
INVARIANTS
  HandleFollowsRound
  AnswersInOrder
  ClosedForAReason
CHECK_DEADLOCK FALSE
