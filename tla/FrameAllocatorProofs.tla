------------------------- MODULE FrameAllocatorProofs -------------------------
(***************************************************************************)
(* Proofs about FrameAllocator: for every range of frames the segment tree *)
(* hands out a frame that nobody has, and panics only when none is left.   *)
(***************************************************************************)
EXTENDS FrameAllocator, WellFoundedInduction, TLAPS

\* The loops need each other: the way down relies on the exact tree that
\* the way up of the call before has left.
Inv == TypeOK /\ TreeExact /\ LeavesExact /\ DescentFree
------------------------------------------------------------------------------
\* The tree and its array.
LEMMA NodeFacts ==
  /\ Inner \subseteq Node
  /\ \A i \in Inner : 2 * i \in Node /\ 2 * i + 1 \in Node
  /\ \A i \in Node : i \in Inner <=> i < FirstSingle
  /\ \A i \in Node : i \div 2 \in Nat /\ i \div 2 < FirstSingle
  /\ \A i \in Node, j \in Inner : (i = 2 * j \/ i = 2 * j + 1) <=> j = i \div 2
BY FrameAssumption DEF Inner, Node

\* A frame of the range has a leaf of its own inside the tree.
LEMMA LeafFacts ==
  ASSUME NEW ppn \in Frame
  PROVE  /\ Leaf(ppn) \in Node \ Inner
         /\ ppn - Origin \in 0 .. FirstSingle - 1
         /\ Leaf(ppn) = FirstSingle + (ppn - Origin)
         /\ ppn = Origin + (ppn - Origin)
BY FrameAssumption DEF Frame, Leaf, Node, Inner, Origin, Length

\* Writing one node disturbs no other inner node than its parent.
LEMMA WriteExact ==
  ASSUME TypeOK, NEW i \in Node, NEW b \in {0, 1}, node' = [node EXCEPT ![i] = b],
         NEW j \in Inner, j # i \div 2
  PROVE  /\ And(j)' = And(j)
         /\ j # i => node'[j] = node[j]
<1>1. 2 * j \in Node /\ 2 * j + 1 \in Node /\ j \in Node /\ 2 * j # i /\ 2 * j + 1 # i
  BY NodeFacts
<1> QED
  BY <1>1 DEF And, TypeOK

\* A tree that is exact everywhere has a taken root only when every node is:
\* the smallest free node cannot have a parent.
LEMMA RootExact ==
  ASSUME TypeOK, \A i \in Inner : node[i] = And(i), node[1] = 1
  PROVE  \A i \in Node : node[i] = 1
<1> DEFINE Free == {i \in Node : node[i] = 0}
<1> SUFFICES ASSUME Free # {} PROVE FALSE
  BY DEF TypeOK
<1>1. Free \subseteq Nat
  BY DEF Node
<1>2. PICK x \in Free : \A y \in Free : ~(<<y, x>> \in OpToRel(<, Nat))
  BY <1>1, WFMin, NatLessThanWellFounded
<1>3. \A y \in Free : ~(y < x)
  BY <1>1, <1>2 DEF OpToRel
<1>4. x \in Node /\ x # 1 /\ node[x] = 0
  BY DEF TypeOK
<1>5. x \div 2 \in Inner /\ x \div 2 < x /\ (x = 2 * (x \div 2) \/ x = 2 * (x \div 2) + 1)
  BY <1>4, FrameAssumption DEF Node, Inner
<1>6. node[x \div 2] = 0
  BY <1>4, <1>5 DEF And
<1> QED
  BY <1>3, <1>5, <1>6, NodeFacts
------------------------------------------------------------------------------
\* newAllocator, before its last loop.
THEOREM InitInv == Init => Inv
<1> SUFFICES ASSUME Init PROVE Inv
  OBVIOUS
<1>1. TypeOK
  <2>1. node \in [Node -> {0, 1}]
    BY DEF Init
  <2>2. p \in Node \union {0} /\ p < FirstSingle
    BY FrameAssumption DEF Init, Node, Length
  <2> QED
    BY <2>1, <2>2 DEF Init, TypeOK
<1>2. TreeExact
  BY FrameAssumption DEF Init, TreeExact, Inner
<1>3. LeavesExact
  BY FrameAssumption DEF Init, LeavesExact, Node, Frame, Origin, Length
<1>4. DescentFree
  BY DEF Init, DescentFree
<1> QED
  BY <1>1, <1>2, <1>3, <1>4 DEF Inv

\* One round of the loops that renew an inner node.
LEMMA RenewInv ==
  ASSUME Inv, Build \/ Climb
  PROVE  Inv'
<1>1. TypeOK /\ TreeExact /\ LeavesExact
  BY DEF Inv
<1>2. CASE pc' = "ready"
  <2>1. UNCHANGED <<node, p, taken>> /\ pc \in {"build", "climb"}
    BY <1>2 DEF Build, Climb
  <2>2. p \notin Inner /\ (pc = "build" => \A i \in Inner : i > p)
    <3>1. p = 0 \/ (pc = "build" /\ p < 1)
      BY <1>1, <1>2, FrameAssumption DEF Build, Climb, TypeOK, Node
    <3> QED
      BY <1>1, <3>1 DEF Inner, TypeOK, Node
  <2> QED
    BY <1>1, <1>2, <2>1, <2>2 DEF Inv, TypeOK, TreeExact, And, LeavesExact, DescentFree
<1>3. CASE pc' # "ready"
  <2>1. /\ p \in Inner /\ pc' = pc /\ pc \in {"build", "climb"}
        /\ node' = [node EXCEPT ![p] = And(p)]
        /\ p' = IF pc = "build" THEN p - 1 ELSE p \div 2
        /\ UNCHANGED taken
    <3>1. CASE Build
      <4>1. pc = "build" /\ p >= 1 /\ p < FirstSingle
        BY <1>1, <1>3, <3>1 DEF Build, TypeOK
      <4> QED
        BY <1>1, <3>1, <4>1, FrameAssumption DEF Build, TypeOK, Inner, Node
    <3>2. CASE Climb
      <4>1. pc = "climb" /\ p > 0 /\ p < FirstSingle
        BY <1>1, <1>3, <3>2 DEF Climb, TypeOK
      <4> QED
        BY <1>1, <3>2, <4>1, FrameAssumption DEF Climb, TypeOK, Inner, Node
    <3> QED
      BY <3>1, <3>2
  <2>2. p \in Node /\ And(p) \in {0, 1} /\ p' \in Node \union {0} /\ p' < FirstSingle /\ p' < p
    BY <2>1, FrameAssumption DEF And, Inner, Node
  <2>3. TypeOK'
    BY <1>1, <2>1, <2>2 DEF TypeOK
  <2>4. TreeExact'
    <3> SUFFICES ASSUME NEW i \in Inner, (pc = "build" => i > p') /\ (pc = "climb" => i # p')
                 PROVE  node'[i] = And(i)'
      BY <2>1 DEF TreeExact
    <3>1. i # p \div 2
      BY <2>1, <2>2 DEF Inner
    <3>2. And(i)' = And(i)
      BY <1>1, <2>1, <2>2, <3>1, WriteExact
    <3>3. CASE i = p
      BY <1>1, <2>1, <2>2, <3>2, <3>3 DEF TypeOK
    <3>4. CASE i # p
      <4>1. (pc = "build" => i > p) /\ (pc = "climb" => i # p)
        BY <2>1, <3>4 DEF Inner
      <4> QED
        BY <1>1, <2>1, <2>2, <3>1, <3>2, <3>4, <4>1, WriteExact DEF TreeExact
    <3> QED
      BY <3>3, <3>4
  <2>5. LeavesExact'
    <3>1. \A i \in 0 .. FirstSingle - 1 : FirstSingle + i \in Node /\ FirstSingle + i # p
      BY <2>1, FrameAssumption DEF Node, Inner
    <3> QED
      BY <1>1, <2>1, <2>2, <3>1 DEF LeavesExact, TypeOK
  <2> QED
    BY <2>1, <2>3, <2>4, <2>5 DEF Inv, DescentFree
<1> QED
  BY <1>2, <1>3

\* The way down of alloc, and its leaf.
LEMMA DescendInv ==
  ASSUME Inv, Descend
  PROVE  Inv'
<1>1. TypeOK /\ TreeExact /\ pc = "descend" /\ node[p] = 0
  BY DEF Inv, Descend, DescentFree
<1>2. p \in Inner /\ node[p] = And(p)
  <2>1. p \in Inner
    BY <1>1, FrameAssumption DEF TypeOK, Descend, Node, Inner
  <2> QED
    BY <1>1, <2>1 DEF TreeExact
<1> QED
  <2>1. 2 * p \in Node /\ 2 * p + 1 \in Node
    BY <1>2, NodeFacts
  <2>2. p' \in Node /\ node[p'] = 0
    BY <1>1, <1>2, <2>1 DEF Descend, And, TypeOK
  <2>3. p' # 0
    BY <1>2, FrameAssumption DEF Descend, Inner
  <2> QED
    BY <1>1, <2>2, <2>3 DEF Inv, Descend, TypeOK, TreeExact, And, LeavesExact, DescentFree

\* A leaf is written and the climb starts at its parent.
LEMMA WriteLeafInv ==
  ASSUME Inv, pc \in {"ready", "descend"}, pc' = "climb",
         NEW k \in 0 .. FirstSingle - 1, NEW b \in {0, 1},
         node' = [node EXCEPT ![FirstSingle + k] = b],
         p' = (FirstSingle + k) \div 2,
         taken' \subseteq Frame,
         b = 0 <=> Origin + k \in Frame \ taken',
         \A i \in 0 .. FirstSingle - 1 : i # k => (Origin + i \in taken' <=> Origin + i \in taken)
  PROVE  Inv'
<1> DEFINE leaf == FirstSingle + k
<1>1. TypeOK /\ TreeExact /\ LeavesExact
  BY DEF Inv
<1>2. leaf \in Node /\ leaf \notin Inner
  BY FrameAssumption DEF Node, Inner
<1>3. p' \in Node \union {0} /\ p' < FirstSingle
  BY FrameAssumption DEF Node
<1>4. TypeOK'
  BY <1>1, <1>2, <1>3 DEF TypeOK
<1>5. TreeExact'
  <2> SUFFICES ASSUME NEW i \in Inner, i # p' PROVE node'[i] = And(i)'
    BY DEF TreeExact
  <2>1. And(i)' = And(i) /\ node'[i] = node[i]
    BY <1>1, <1>2, WriteExact
  <2> QED
    BY <1>1, <2>1 DEF TreeExact
<1>6. LeavesExact'
  <2> SUFFICES ASSUME NEW i \in 0 .. FirstSingle - 1
               PROVE  node'[FirstSingle + i] = 0 <=> Origin + i \in Frame \ taken'
    BY DEF LeavesExact
  <2>1. FirstSingle + i \in Node
    BY FrameAssumption DEF Node
  <2>2. CASE i = k
    BY <1>1, <1>2, <2>2 DEF TypeOK
  <2>3. CASE i # k
    <3>1. node'[FirstSingle + i] = node[FirstSingle + i]
      BY <1>1, <1>2, <2>1, <2>3, FrameAssumption DEF TypeOK
    <3> QED
      BY <1>1, <2>3, <3>1 DEF LeavesExact
  <2> QED
    BY <2>2, <2>3
<1> QED
  BY <1>4, <1>5, <1>6 DEF Inv, DescentFree

\* The leaf that the way down of alloc ends at is a free frame of the range.
LEMMA TakeFacts ==
  ASSUME Inv, Take
  PROVE  /\ p - FirstSingle \in 0 .. FirstSingle - 1
         /\ FirstSingle + (p - FirstSingle) = p
         /\ p - FirstSingle + Origin \in Frame \ taken
<1>1. p - FirstSingle \in 0 .. FirstSingle - 1 /\ FirstSingle + (p - FirstSingle) = p
  BY FrameAssumption DEF Inv, TypeOK, Take, Node
<1>2. Origin + (p - FirstSingle) \in Frame \ taken
  BY <1>1 DEF Inv, Take, DescentFree, LeavesExact
<1>3. Origin + (p - FirstSingle) = p - FirstSingle + Origin
  BY FrameAssumption DEF Inv, TypeOK, Take, Node, Origin
<1> QED
  BY <1>1, <1>2, <1>3

\* alloc, at the leaf.
LEMMA TakeInv ==
  ASSUME Inv, Take
  PROVE  Inv'
<1> DEFINE k == p - FirstSingle
<1>1. k \in 0 .. FirstSingle - 1 /\ FirstSingle + k = p /\ k + Origin \in Frame \ taken
  BY TakeFacts
<1>2. k + Origin = Origin + k
  BY <1>1, FrameAssumption DEF Origin
<1>3. /\ pc = "descend" /\ pc' = "climb" /\ node' = [node EXCEPT ![FirstSingle + k] = 1]
      /\ p' = (FirstSingle + k) \div 2
      /\ taken' = taken \union {Origin + k}
  BY <1>1, <1>2 DEF Take
<1>4. taken' \subseteq Frame
  BY <1>1, <1>2, <1>3 DEF Inv, TypeOK
<1>5. \A i \in 0 .. FirstSingle - 1 : i # k => Origin + i # Origin + k
  BY <1>1, FrameAssumption DEF Origin
<1> QED
  <2>1. \A i \in 0 .. FirstSingle - 1 :
          i # k => (Origin + i \in taken' <=> Origin + i \in taken)
    BY <1>3, <1>5
  <2>2. (1 = 0) <=> Origin + k \in Frame \ taken'
    BY <1>3
  <2> QED
    BY <1>1, <1>3, <1>4, <2>1, <2>2, WriteLeafInv

\* dealloc, at the leaf.
LEMMA DeallocInv ==
  ASSUME Inv, NEW ppn \in Frame, Dealloc(ppn)
  PROVE  Inv' /\ ppn \in taken
<1> DEFINE k == ppn - Origin
<1>1. k \in 0 .. FirstSingle - 1 /\ Leaf(ppn) = FirstSingle + k /\ ppn = Origin + k
  BY LeafFacts
<1>2. ppn \in taken
  BY <1>1 DEF Inv, LeavesExact, Dealloc
<1>3. \A i \in 0 .. FirstSingle - 1 : i # k => Origin + i # Origin + k
  BY <1>1, FrameAssumption DEF Origin
<1>4. taken' \subseteq Frame /\ ppn \notin taken'
  BY DEF Inv, TypeOK, Dealloc
<1>5. /\ pc = "ready" /\ pc' = "climb" /\ node' = [node EXCEPT ![FirstSingle + k] = 0]
      /\ p' = (FirstSingle + k) \div 2 /\ taken' = taken \ {Origin + k}
  BY <1>1 DEF Dealloc
<1>6. Inv'
  BY <1>1, <1>3, <1>4, <1>5, WriteLeafInv
<1> QED
  BY <1>2, <1>6

\* Every step keeps the invariant.
THEOREM StepInv == Inv /\ [Next]_vars => Inv'
<1> SUFFICES ASSUME Inv, [Next]_vars PROVE Inv'
  OBVIOUS
<1>1. CASE Build
  BY <1>1, RenewInv
<1>2. CASE Alloc
  <2>1. 1 \in Node
    BY FrameAssumption DEF Node, Length
  <2>2. node[1] = 0
    BY <1>2, <2>1 DEF Inv, TypeOK, Alloc
  <2> QED
    BY <1>2, <2>1, <2>2 DEF Alloc, Inv, TypeOK, TreeExact, And, LeavesExact, DescentFree
<1>3. CASE AllocPanic
  BY <1>3 DEF AllocPanic, Inv, TypeOK, TreeExact, And, LeavesExact, DescentFree
<1>4. CASE Descend
  BY <1>4, DescendInv
<1>5. CASE Take
  BY <1>5, TakeInv
<1>6. CASE Climb
  BY <1>6, RenewInv
<1>7. CASE \E ppn \in Frame : Dealloc(ppn)
  BY <1>7, DeallocInv
<1>8. CASE Stuck \/ UNCHANGED vars
  BY <1>8 DEF Stuck, vars, Inv, TypeOK, TreeExact, And, LeavesExact, DescentFree
<1> QED
  BY <1>1, <1>2, <1>3, <1>4, <1>5, <1>6, <1>7, <1>8 DEF Next

\* The segment tree is exact in every state of every run: its loops stay
\* inside it, an inner node says whether there is a free frame below it, the
\* leaves are the frames, and the way down of alloc never goes astray.
THEOREM SpecInv == Spec => []Inv
<1> QED
  BY InitInv, StepInv, PTL DEF Spec

\* A loop never leaves the array of the tree.
THEOREM TypeCorrect == Spec => []TypeOK
<1>1. Inv => TypeOK
  BY DEF Inv
<1> QED
  BY <1>1, SpecInv, PTL

\* Between calls every inner node says whether there is a free frame below.
THEOREM AncestorsExact == Spec => []TreeExact
<1>1. Inv => TreeExact
  BY DEF Inv
<1> QED
  BY <1>1, SpecInv, PTL

\* A leaf is free when its frame is inside the range and not handed out.
THEOREM LeavesAreFrames == Spec => []LeavesExact
<1>1. Inv => LeavesExact
  BY DEF Inv
<1> QED
  BY <1>1, SpecInv, PTL

\* The way down of alloc is never at a node without a free frame.
THEOREM DescentStaysFree == Spec => []DescentFree
<1>1. Inv => DescentFree
  BY DEF Inv
<1> QED
  BY <1>1, SpecInv, PTL
------------------------------------------------------------------------------
\* alloc gives up only when every frame is handed out: the root is taken, so
\* is every leaf, and the leaves are the frames.
LEMMA PanicFacts ==
  ASSUME Inv, AllocPanic
  PROVE  taken = Frame
<1>1. \A i \in Node : node[i] = 1
  BY RootExact DEF Inv, AllocPanic, TreeExact
<1>2. ASSUME NEW f \in Frame PROVE f \in taken
  BY <1>1, LeafFacts DEF Inv, LeavesExact
<1> QED
  BY <1>2 DEF Inv, TypeOK

\* A round of a loop is a step or a stutter of the promised allocator.
LEMMA StepPool ==
  ASSUME Inv, [Next]_vars
  PROVE  [Pool!Next]_<<taken, pc = "panicked">>
<1> USE DEF Pool!Next, Pool!Alloc, Pool!Deplete, Pool!Dealloc
<1>1. CASE Build \/ Climb
  BY <1>1 DEF Build, Climb
<1>2. CASE Alloc \/ Descend
  BY <1>2 DEF Alloc, Descend
<1>3. CASE AllocPanic
  BY <1>3, PanicFacts DEF AllocPanic
<1>4. CASE Take
  BY <1>4, TakeFacts DEF Take
<1>5. CASE \E ppn \in Frame : Dealloc(ppn)
  BY <1>5, DeallocInv DEF Dealloc
<1>6. CASE Stuck \/ UNCHANGED vars
  BY <1>6 DEF Stuck, vars
<1> QED
  BY <1>1, <1>2, <1>3, <1>4, <1>5, <1>6 DEF Next

\* For every range of frames the segment tree keeps the allocator's promise:
\* a frame handed out is one that nobody has, and the panic of alloc comes
\* only when all of them are handed out.
THEOREM TreeImplementsPool == Spec => FramePoolSpec
<1>1. Init => Pool!Init
  BY DEF Init, Pool!Init
<1>2. Inv /\ [Next]_vars => [Pool!Next]_<<taken, pc = "panicked">>
  BY StepPool
<1> QED
  BY <1>1, <1>2, SpecInv, PTL DEF Spec, FramePoolSpec, Pool!Spec
==============================================================================
