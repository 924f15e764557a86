CONSTANTS
  MaxThread = 2
  MaxTime = 1
  TimeMod = 8
  KStack = {k1, k2}
  IdleStack = IdleStack
  Null = Null
  Boots <- OneShell
  Sie = {"timer"}
  UserStackMapped = FALSE
  MaxBuf = 0
SPECIFICATION Spec
SYMMETRY StackSymmetry
INVARIANTS
  PreemptedGoesOn
