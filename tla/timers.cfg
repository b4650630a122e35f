SPECIFICATION Spec
CONSTANTS
  Signals = {"CP", "CS"}
  Kind <- KindDef
  OutboundDelay = 1
  RemoteQtime = 1
  ReturnDelay = 1
  MaxTimeouts = 1
  MaxTime = 7
INVARIANTS
  NeverForgotten
  OneTimeout
  NoPrematureTimeout
CHECK_DEADLOCK FALSE
