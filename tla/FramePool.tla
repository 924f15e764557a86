------------------------------ MODULE FramePool ------------------------------
(***************************************************************************)
(* What a page frame allocator promises (the Allocator of memory.h):       *)
(* alloc hands out a frame that nobody has, as long as there is one, and   *)
(* dealloc takes it back.  FrameAllocator.tla is the segment tree of       *)
(* memory.c that has to keep this promise.                                 *)
(***************************************************************************)
CONSTANTS Frame  \* the frames to be handed out

VARIABLES taken,    \* frames handed out and not given back
          depleted  \* alloc has found no frame and stopped the system

Init == taken = {} /\ depleted = FALSE

Alloc ==
  /\ ~depleted
  /\ \E f \in Frame \ taken : taken' = taken \union {f}
  /\ UNCHANGED depleted

Deplete ==
  /\ taken = Frame
  /\ depleted' = TRUE
  /\ UNCHANGED taken

Dealloc ==
  /\ ~depleted
  /\ \E f \in taken : taken' = taken \ {f}
  /\ UNCHANGED depleted

Next == Alloc \/ Deplete \/ Dealloc

Spec == Init /\ [][Next]_<<taken, depleted>>
==============================================================================
