------------------------------ MODULE BuddyHeap ------------------------------
(***************************************************************************)
(* The heaps of the kernel (kernel/heap.c) and of the programs             *)
(* (user/malloc.c): buddy allocation over a complete binary tree in an     *)
(* array.  Node 0 is the root, i has the children 2i + 1 and 2i + 2, and   *)
(* longest[i] is the size of the largest free block below i, in units of   *)
(* MIN_BLOCK_SIZE bytes.  The two files differ only in how many units a    *)
(* request takes.  A call is several steps, one for each round of its      *)
(* loops.                                                                  *)
(*                                                                         *)
(* A definition named ..._Slip is its neighbour below with one plausible   *)
(* mistake in it, to show that the properties notice the mistake.          *)
(***************************************************************************)
EXTENDS Integers, FiniteSetsExt

CONSTANTS Size,      \* HEAP_BLOCK_NUM, the units of the heap
          Unit,      \* MIN_BLOCK_SIZE
          MaxBytes   \* bound: the largest request of a caller

\* IS_POWER_OF_2: no divisor is odd but 1.
PowerOfTwo(n) == \A d \in 2 .. n : n % d = 0 => d % 2 = 0

\* The tree is complete only when its size is a power of two.
ASSUME HeapAssumption ==
  /\ Size \in Nat \ {0} /\ PowerOfTwo(Size)
  /\ Unit \in Nat \ {0} /\ MaxBytes \in Nat

Node == 0 .. 2 * Size - 2
Left(i) == 2 * i + 1
Right(i) == 2 * i + 2
Parent(i) == (i + 1) \div 2 - 1
Larger(a, b) == IF a > b THEN a ELSE b

\* The units that the node i stands for.
Width[i \in Node] == IF i = 0 THEN Size ELSE Width[Parent(i)] \div 2
Units(i) == (i + 1) * Width[i] - Size .. (i + 2) * Width[i] - Size - 1

\* The least power of two that is not below n.
FixSize(n) == CHOOSE w \in n .. 2 * n - 1 : PowerOfTwo(w)

VARIABLES heap,      \* whose heap it is: "kernel" or "user"
          longest,   \* buddyTree.longest
          index,     \* index and nodeSize of the loops
          nodeSize,
          size,      \* argument of buddyAlloc, fixed to a power of two
          want,      \* argument of kalloc; both arguments are reset after use
          pc,        \* the loop that runs, or "ready"
          blocks     \* history: the blocks handed out

vars == <<heap, longest, index, nodeSize, size, want, pc, blocks>>

\* kalloc tests size && (MIN_BLOCK_SIZE - 1) and always adds a unit.
KallocUnits(bytes) == bytes \div Unit + 1
MallocUnits(bytes) == (bytes - 1) \div Unit + 1
UnitsFor(bytes) == IF heap = "kernel" THEN KallocUnits(bytes) ELSE MallocUnits(bytes)
------------------------------------------------------------------------------
\* buddyInit: every node is free.
Init ==
  /\ heap \in {"kernel", "user"}
  /\ longest = Width
  /\ index = 0 /\ nodeSize = Size /\ size = 1 /\ want = 0
  /\ pc = "ready"
  /\ blocks = {}

\* kalloc and malloc: nothing to do for no bytes.
Kalloc(bytes) ==
  /\ pc = "ready" /\ bytes > 0
  /\ longest[0] >= FixSize(UnitsFor(bytes))
  /\ want' = bytes /\ size' = FixSize(UnitsFor(bytes))
  /\ index' = 0 /\ nodeSize' = Size
  /\ pc' = "descend"
  /\ UNCHANGED <<heap, longest, blocks>>

KallocPanic(bytes) ==
  /\ pc = "ready" /\ bytes > 0
  /\ longest[0] < FixSize(UnitsFor(bytes))
  /\ want' = bytes /\ size' = FixSize(UnitsFor(bytes))
  /\ pc' = "panicked"
  /\ UNCHANGED <<heap, longest, index, nodeSize, blocks>>

\* The left child is taken whenever it has room.
Descend_Slip ==
  /\ pc = "descend" /\ nodeSize # size
  /\ index' = IF longest[Left(index)] >= size THEN Left(index) ELSE Right(index)
  /\ nodeSize' = nodeSize \div 2
  /\ UNCHANGED <<heap, longest, size, want, pc, blocks>>

\* buddyAlloc, the way down: the child with less to offer, if it has room.
Descend ==
  /\ pc = "descend" /\ nodeSize # size
  /\ LET l == Left(index)
         r == Right(index)
         small == IF longest[l] <= longest[r] THEN l ELSE r
     IN  index' = IF longest[small] >= size THEN small ELSE l + r - small
  /\ nodeSize' = nodeSize \div 2
  /\ UNCHANGED <<heap, longest, size, want, pc, blocks>>

\* The offset is counted in leaves instead of in blocks of nodeSize.
Occupy_Slip ==
  /\ pc = "descend" /\ nodeSize = size
  /\ longest' = [longest EXCEPT ![index] = 0]
  /\ blocks' = blocks \union {[at |-> index + 1 - Size \div nodeSize, units |-> size]}
  /\ pc' = "climb" /\ size' = 1 /\ want' = 0
  /\ UNCHANGED <<heap, index, nodeSize>>

\* buddyAlloc: the node is taken, its children are left as they are.  kalloc
\* clears all the units of it.
Occupy ==
  /\ pc = "descend" /\ nodeSize = size
  /\ longest' = [longest EXCEPT ![index] = 0]
  /\ blocks' = blocks \union {[at |-> (index + 1) * nodeSize - Size, units |-> size]}
  /\ pc' = "climb" /\ size' = 1 /\ want' = 0
  /\ UNCHANGED <<heap, index, nodeSize>>

\* buddyAlloc, the way up.
Climb ==
  /\ pc = "climb"
  /\ IF index = 0
     THEN pc' = "ready" /\ UNCHANGED <<longest, index>>
     ELSE /\ index' = Parent(index)
          /\ longest' = [longest EXCEPT ![index'] =
               Larger(longest[Left(index')], longest[Right(index')])]
          /\ UNCHANGED pc
  /\ UNCHANGED <<heap, nodeSize, size, want, blocks>>

\* kfree and free, called with what kalloc and malloc have returned.
Kfree(b) ==
  /\ pc = "ready"
  /\ index' = b.at + Size - 1 /\ nodeSize' = 1
  /\ blocks' = blocks \ {b}
  /\ pc' = "seek"
  /\ UNCHANGED <<heap, longest, size, want>>

\* buddyFree, up to the first node that is taken: the one that was handed out.
Seek ==
  /\ pc = "seek" /\ longest[index] # 0
  /\ nodeSize' = 2 * nodeSize
  /\ IF index = 0
     THEN pc' = "ready" /\ UNCHANGED index
     ELSE index' = Parent(index) /\ UNCHANGED pc
  /\ UNCHANGED <<heap, longest, size, want, blocks>>

Restore ==
  /\ pc = "seek" /\ longest[index] = 0
  /\ longest' = [longest EXCEPT ![index] = nodeSize]
  /\ pc' = "merge"
  /\ UNCHANGED <<heap, index, nodeSize, size, want, blocks>>

\* Buddies are never joined again.
Merge_JoinSlip ==
  /\ pc = "merge"
  /\ IF index = 0
     THEN pc' = "ready" /\ UNCHANGED <<longest, index, nodeSize>>
     ELSE /\ index' = Parent(index) /\ nodeSize' = 2 * nodeSize
          /\ longest' = [longest EXCEPT ![index'] =
               Larger(longest[Left(index')], longest[Right(index')])]
          /\ UNCHANGED pc
  /\ UNCHANGED <<heap, size, want, blocks>>

\* A parent is taken to have the sum of its children.
Merge_SumSlip ==
  /\ pc = "merge"
  /\ IF index = 0
     THEN pc' = "ready" /\ UNCHANGED <<longest, index, nodeSize>>
     ELSE /\ index' = Parent(index) /\ nodeSize' = 2 * nodeSize
          /\ longest' = [longest EXCEPT ![index'] =
               longest[Left(index')] + longest[Right(index')]]
          /\ UNCHANGED pc
  /\ UNCHANGED <<heap, size, want, blocks>>

\* buddyFree, the way up: two children that are free together join.
Merge ==
  /\ pc = "merge"
  /\ IF index = 0
     THEN pc' = "ready" /\ UNCHANGED <<longest, index, nodeSize>>
     ELSE /\ index' = Parent(index) /\ nodeSize' = 2 * nodeSize
          /\ LET l == longest[Left(index')]
                 r == longest[Right(index')]
             IN  longest' = [longest EXCEPT ![index'] =
                   IF l + r = nodeSize' THEN nodeSize' ELSE Larger(l, r)]
          /\ UNCHANGED pc
  /\ UNCHANGED <<heap, size, want, blocks>>

\* panic does not return.
Stuck == pc = "panicked" /\ UNCHANGED vars

Next ==
  \/ \E bytes \in 0 .. MaxBytes : Kalloc(bytes) \/ KallocPanic(bytes)
  \/ \E b \in blocks : Kfree(b)
  \/ Descend \/ Occupy \/ Climb \/ Seek \/ Restore \/ Merge \/ Stuck

Spec == Init /\ [][Next]_vars
------------------------------------------------------------------------------
UnitsOf(b) == b.at .. b.at + b.units - 1
Free(i) == \A b \in blocks : Units(i) \intersect UnitsOf(b) = {}
Within(i, j) == Units(i) \subseteq Units(j)
\* The blocks that could be handed out and are part of no larger one.
MaximalFree == {i \in Node : Free(i) /\ \A j \in Node : Free(j) /\ Within(i, j) => j = i}

\* A node never claims more than its width, and no loop leaves the tree.
TypeOK ==
  /\ \A i \in Node : longest[i] = 0 \/ \E j \in Node : Within(j, i) /\ longest[i] = Width[j]
  /\ DOMAIN longest = Node
  /\ index \in Node
  /\ nodeSize \in {Width[i] : i \in Node}
  /\ pc \in {"ready", "descend", "climb", "seek", "merge", "panicked"}
  /\ pc \in {"descend", "seek", "merge"} => nodeSize = Width[index]

\* A block is as large as its caller wants it, the blocks handed out lie in
\* the heap and do not overlap, although kalloc clears every unit of the block
\* it returns (heap.c:69-75).
BlocksApart ==
  /\ want <= size * Unit
  /\ \A b \in blocks :
       /\ UnitsOf(b) \subseteq 0 .. Size - 1
       /\ \A c \in blocks \ {b} : UnitsOf(b) \intersect UnitsOf(c) = {}

\* Between calls the tree tells the truth: longest is the size of the largest
\* free block below a node, and whole again below and inside a block that
\* comes back (heap.c:163 marks only one node of a block).  So a request is
\* refused only when there is no free block of its size (heap.c:134).
LongestExact ==
  /\ pc \in {"ready", "panicked"} =>
       \A i \in Node :
         longest[i] =
           IF \E b \in blocks : Units(i) \subseteq UnitsOf(b) /\ Units(i) # UnitsOf(b)
           THEN Width[i]
           ELSE Max({Width[j] : j \in {k \in Node : Within(k, i) /\ Free(k)}} \union {0})
  /\ pc = "panicked" => \A i \in Node : Free(i) => Width[i] < size

\* heap.c:148: small blocks first.  When the block chosen is cut from the
\* largest one there is, no other free block had room for it, or there is
\* another one as large.
KeepsLarge ==
  pc = "descend" /\ nodeSize = size =>
    LET others == {Width[i] : i \in {j \in MaximalFree : ~Within(index, j)}}
    IN  (\E w \in others : w >= size) => longest[0] \in others
==============================================================================
