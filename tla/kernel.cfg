CONSTANTS
  MaxThread = 4
  MaxTime = 2
  TimeMod = 8
  KStack = {k1, k2, k3, k4}
  IdleStack = IdleStack
  Null = Null
  Boots <- OneOrTwoShells
  Sie = {"timer", "external"}
  UserStackMapped = TRUE
  MaxBuf = 3
SPECIFICATION Spec
SYMMETRY StackSymmetry
INVARIANTS
  TypeOK
  ReadyQueueExact
  SleepersHaveOneWaker
  NoLostWakeup
  ContextsLive
  ForegroundOnly
PROPERTIES
  FifoDiscipline
  WokenReaderFindsChar
