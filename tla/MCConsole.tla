------------------------------ MODULE MCConsole ------------------------------
(***************************************************************************)
(* A buffer of four bytes, clean or with what an interrupt may leave in    *)
(* it, and a few nodes for characters and the reader.                      *)
(***************************************************************************)
EXTENDS Console, TLC

SomeStackLines ==
  {Cleared, [i \in 0 .. Size - 1 |-> IF i = 1 THEN Nul ELSE "a"]}

\* Which node kalloc returns makes no difference.
NodeSymmetry == Permutations(Node)
==============================================================================
