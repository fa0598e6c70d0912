SPECIFICATION FairSpec
CONSTANTS
  Kinds = {"command", "sync", "reset", "restart", "fullReset"}
  MaxCommands = 6
  FaultKinds = {"write", "command", "reply", "late", "cut"}
  MaxFaults = 3
INVARIANTS
  AnswerMeansDone
  NextIsNew
PROPERTY
  CallsReturn
CHECK_DEADLOCK FALSE
