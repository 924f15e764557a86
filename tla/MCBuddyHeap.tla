----------------------------- MODULE MCBuddyHeap -----------------------------
(***************************************************************************)
(* Both heaps with eight units of two bytes and requests of up to nine     *)
(* bytes: blocks of one, two, four and eight units.                        *)
(***************************************************************************)
EXTENDS BuddyHeap
==============================================================================
