CONSTANTS
  MaxThread = 3
  MaxTime = 1
  TimeMod = 8
  KStack = {k1, k2, k3}
  IdleStack = IdleStack
  Null = Null
  Boots <- TwoShells
  Sie = {"timer", "external"}
  UserStackMapped = TRUE
  MaxBuf = 1
SPECIFICATION FairSpec
PROPERTIES
  ReadyRuns
  HostResumes
