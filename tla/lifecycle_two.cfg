SPECIFICATION Spec
CONSTANTS
  Callers = {c1}
  Threads = {t1, t2}
  Modes = {"auto", "queue"}
  Values = {1}
  Faults = FALSE
  MaxNotes = 1
  MaxJams = 0
INVARIANT
  OneThreadAtATime
