CONSTANTS
  Size = 8
  Unit = 2
  MaxBytes = 9
SPECIFICATION Spec
INVARIANTS
  TypeOK
  BlocksApart
  LongestExact
  KeepsLarge
