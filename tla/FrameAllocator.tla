---------------------------- MODULE FrameAllocator ----------------------------
(***************************************************************************)
(* kernel/memory.c: page frames are handed out by a segment tree in an     *)
(* array.  Node 1 is the root, i has the children 2i and 2i + 1, and the   *)
(* leaves begin at FirstSingle.  A node is 0 when there is a free frame    *)
(* below it.  A call is several steps here, one for each round of its      *)
(* loops: nothing else runs in between, and what the loops keep true is    *)
(* what the proofs rest on.                                                *)
(*                                                                         *)
(* A definition named ..._Slip is its neighbour below with one plausible   *)
(* mistake in it, to show that the properties notice the mistake.          *)
(***************************************************************************)
EXTENDS Integers

CONSTANTS StartPpn, EndPpn,  \* arguments of newAllocator
          FirstSingle        \* sta.firstSingle, the first leaf

Length == EndPpn - StartPpn  \* sta.length
Origin == StartPpn - 1       \* sta.startPpn

\* newAllocator doubles firstSingle from 1 until it reaches length + 2; that it
\* is a power of two matters to no definition below.
ASSUME FrameAssumption ==
  /\ StartPpn \in Nat \ {0} /\ EndPpn \in Nat /\ Length >= 2
  /\ FirstSingle \in Nat /\ FirstSingle >= Length + 2

Inner == 1 .. FirstSingle - 1
Node == 1 .. 2 * FirstSingle - 1
Frame == Origin + 1 .. Origin + Length - 1  \* the frames whose leaves start free
Leaf(ppn) == ppn - Origin + FirstSingle

VARIABLES node,   \* sta.node
          p,      \* the node a loop is at
          pc,     \* the loop that runs, or "ready"
          taken   \* history: frames handed out and not given back

vars == <<node, p, pc, taken>>

\* A parent is taken when both of its children are.
And(i) == IF node[2 * i] = 1 /\ node[2 * i + 1] = 1 THEN 1 ELSE 0
------------------------------------------------------------------------------
\* newAllocator up to its last loop: the leaves are set, the rest is 1.
Init ==
  /\ node = [i \in Node |-> IF i - FirstSingle \in 1 .. Length - 1 THEN 0 ELSE 1]
  /\ p = FirstSingle - 1
  /\ pc = "build"
  /\ taken = {}

\* The last loop of newAllocator, from the last inner node to the root.
Build ==
  /\ pc = "build"
  /\ IF p >= 1
     THEN node' = [node EXCEPT ![p] = And(p)] /\ p' = p - 1 /\ UNCHANGED pc
     ELSE pc' = "ready" /\ UNCHANGED <<node, p>>
  /\ UNCHANGED taken

\* alloc: the root tells whether there is a frame.
Alloc ==
  /\ pc = "ready" /\ node[1] # 1
  /\ p' = 1
  /\ pc' = "descend"
  /\ UNCHANGED <<node, taken>>

AllocPanic ==
  /\ pc = "ready" /\ node[1] = 1
  /\ pc' = "panicked"
  /\ UNCHANGED <<node, p, taken>>

\* The left child is tested for the wrong value.
Descend_Slip ==
  /\ pc = "descend" /\ p < FirstSingle
  /\ p' = IF node[2 * p] = 1 THEN 2 * p ELSE 2 * p + 1
  /\ UNCHANGED <<node, pc, taken>>

\* alloc, the way down: left when there is a frame on the left.
Descend ==
  /\ pc = "descend" /\ p < FirstSingle
  /\ p' = IF node[2 * p] = 0 THEN 2 * p ELSE 2 * p + 1
  /\ UNCHANGED <<node, pc, taken>>

\* The frame number is counted from startPpn instead of startPpn - 1.
Take_Slip ==
  /\ pc = "descend" /\ p >= FirstSingle
  /\ node' = [node EXCEPT ![p] = 1]
  /\ taken' = taken \union {p - FirstSingle + StartPpn}
  /\ p' = p \div 2
  /\ pc' = "climb"

\* alloc, at a leaf: this is the frame to return.
Take ==
  /\ pc = "descend" /\ p >= FirstSingle
  /\ node' = [node EXCEPT ![p] = 1]
  /\ taken' = taken \union {p - FirstSingle + Origin}
  /\ p' = p \div 2
  /\ pc' = "climb"

\* dealloc of a frame; one that is free already is left alone.
Dealloc(ppn) ==
  /\ pc = "ready" /\ node[Leaf(ppn)] = 1
  /\ node' = [node EXCEPT ![Leaf(ppn)] = 0]
  /\ taken' = taken \ {ppn}
  /\ p' = Leaf(ppn) \div 2
  /\ pc' = "climb"

\* The way up stops below the root.
Climb_Slip ==
  /\ pc = "climb"
  /\ IF p > 1
     THEN node' = [node EXCEPT ![p] = And(p)] /\ p' = p \div 2 /\ UNCHANGED pc
     ELSE pc' = "ready" /\ UNCHANGED <<node, p>>
  /\ UNCHANGED taken

\* alloc and dealloc, the way up: the ancestors of the leaf are renewed.
Climb ==
  /\ pc = "climb"
  /\ IF p > 0
     THEN node' = [node EXCEPT ![p] = And(p)] /\ p' = p \div 2 /\ UNCHANGED pc
     ELSE pc' = "ready" /\ UNCHANGED <<node, p>>
  /\ UNCHANGED taken

\* panic does not return.
Stuck == pc = "panicked" /\ UNCHANGED vars

Next ==
  \/ Build \/ Alloc \/ AllocPanic \/ Descend \/ Take \/ Climb \/ Stuck
  \/ \E ppn \in Frame : Dealloc(ppn)

Spec == Init /\ [][Next]_vars
------------------------------------------------------------------------------
\* A loop never leaves the tree.
TypeOK ==
  /\ node \in [Node -> {0, 1}]
  /\ p \in Node \union {0}
  /\ pc \in {"build", "ready", "descend", "climb", "panicked"}
  /\ taken \subseteq Frame
  /\ pc = "build" => p < FirstSingle
  /\ pc = "climb" => p < FirstSingle
  /\ pc = "descend" => p # 0

\* Between calls every inner node says whether there is a free frame below
\* it; in a loop all do but the ones it has not reached yet, of which the
\* climbing loop of alloc and dealloc leaves only one (memory.c:138-140,
\* 169-173 and 194-198).
TreeExact ==
  \A i \in Inner : (pc = "build" => i > p) /\ (pc = "climb" => i # p) => node[i] = And(i)

\* The leaves are the frames: one is free when it is inside the range and
\* not handed out.  The leaves before and behind the range are never free.
LeavesExact ==
  \A i \in 0 .. FirstSingle - 1 :
    node[FirstSingle + i] = 0 <=> Origin + i \in Frame \ taken

\* The way down never reaches a node without a free frame (memory.c:158-164
\* tests the left child only).
DescentFree == pc = "descend" => node[p] = 0

\* The tree hands out a frame that nobody has, and gives up only when all
\* of them are taken.
Pool == INSTANCE FramePool WITH depleted <- pc = "panicked"
FramePoolSpec == Pool!Spec
==============================================================================
