SPECIFICATION FairSpec
CONSTANTS
  Pollers = {p1, p2}
  Clients = {c1, c2}
  NoThread = NoThread
  Values = {1, 2}
  Ops = {"stack", "reject", "command", "dispense", "setKey"}
  Disciplined = TRUE
  Faults = FALSE
  MaxQueue = 2
  MaxNotes = 2
  MaxJams = 0
  MaxResets = 0
INVARIANTS
  EscrowMirrorsDevice
  StackTellsTruth
PROPERTIES
  NoteLeavesByDecision
  KeepsContract
