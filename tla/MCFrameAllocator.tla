--------------------------- MODULE MCFrameAllocator ---------------------------
(***************************************************************************)
(* A range of seven pages, of which the last is never handed out: a tree   *)
(* with sixteen leaves, of which the first and those behind the six frames *)
(* must stay taken.                                                        *)
(***************************************************************************)
EXTENDS FrameAllocator
==============================================================================
