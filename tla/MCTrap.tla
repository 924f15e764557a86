------------------------------- MODULE MCTrap -------------------------------
(***************************************************************************)
(* Two user threads next to the boot and idle contexts: enough for one to  *)
(* be created, switched and ended while the other is inside a trap.        *)
(***************************************************************************)
EXTENDS Trap

==============================================================================
