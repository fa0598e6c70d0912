SPECIFICATION Spec
CONSTANTS
  Pollers = {p1, p2}
  Clients = {c1}
  NoThread = NoThread
  Values = {1}
  Ops = {"stack", "reject", "command", "poll", "dispense", "reset", "fullReset", "setKey"}
  Disciplined = FALSE
  Faults = TRUE
  MaxQueue = 1
  MaxNotes = 1
  MaxJams = 1
  MaxResets = 1
SYMMETRY Interchangeable
INVARIANTS
  TypeOK
  LocksFollowLabels
  PollerRespectsFlags
