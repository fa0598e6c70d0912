SPECIFICATION FairSpec
CONSTANTS
  Callers = {c1}
  Threads = {t1, t2}
  Modes = {"auto", "queue"}
  Values = {1}
  Faults = TRUE
  MaxNotes = 2
  MaxJams = 1
INVARIANTS
  EscrowMirrorsDevice
PROPERTIES
  NoteLeavesByDecision
  ThreadsEndWhenStopped
  AutoTakesNotes
CHECK_DEADLOCK FALSE
