CONSTANTS
  MaxThread = 4
  MaxTime = 2
  TimeMod = 8
SPECIFICATION Spec
INVARIANTS
  TypeOK
  Linked
  NoStaleLinks
PROPERTIES
  FifoSpec
  CallResults
