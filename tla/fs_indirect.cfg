CONSTANTS
  BlockNum = 18
  BlockSize = 2
  Direct = 4
  Word = 256
  Mapped <- MappedNumbers
  Inputs <- BuiltInputs
SPECIFICATION Spec
INVARIANTS
  IndirectAllocated
