------------------------------ MODULE MCKernel ------------------------------
(***************************************************************************)
(* Instances of Kernel.tla: which programs the boot threads run, and which *)
(* slots of the pool cannot be used.                                       *)
(***************************************************************************)
EXTENDS Kernel, TLC

Shells(n, rubbish) == [adds |-> [i \in 1 .. n |-> "sh"], rubbish |-> rubbish]

OneShell == {Shells(1, {})}   \* initThread, thread.c:281-286
TwoShells == {Shells(2, {})}  \* two independent lines of programs

\* In the build the last slots lie where earlier calls had their frames; where
\* memory is not 0 at power on, any slot may be lost.
OneOrTwoShells ==
  {Shells(n, r) : n \in {1, 2}, r \in {{}, {MaxThread - 1}, {0, 2}, Tid}}

\* Kernel stacks are interchangeable; used by runs without liveness only.
StackSymmetry == Permutations(KStack)
==============================================================================
