CONSTANTS
  Size = 4
  Letter = {"a"}
  StackLines <- SomeStackLines
  Node = {n1, n2, n3}
  Null = Null
SPECIFICATION Spec
SYMMETRY NodeSymmetry
INVARIANTS
  QueuesLinked
  LineHolds
PROPERTIES
  ExecutesTyped
