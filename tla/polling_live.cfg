SPECIFICATION FairSpec
CONSTANTS
  Pollers = {p1}
  Clients = {c1, c2}
  NoThread = NoThread
  Values = {1}
  Ops = {"stack", "reject", "dispense", "fullReset", "setKey"}
  Disciplined = TRUE
  Faults = FALSE
  MaxQueue = 1
  MaxNotes = 2
  MaxJams = 1
  MaxResets = 1
PROPERTIES
  NotesAnnounced
  JamsEnd
  OperationsReturn
  ResetsEnd
