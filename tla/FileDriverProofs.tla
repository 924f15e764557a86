-------------------------- MODULE FileDriverProofs --------------------------
(***************************************************************************)
(* Proofs about SimpleFS and FileDriver, for every size of the disk, of    *)
(* its blocks and of direct, and every tree of the host.                   *)
(*                                                                         *)
(* First the blocks: which part of the tree has which (BaseInv), whatever  *)
(* the stack held.  Then the image: what is in those blocks (ImageInv),    *)
(* where the field indirect does no harm, and what that field may hold     *)
(* wherever it does (FieldsKnown).  Then what fs.c finds in the image.     *)
(***************************************************************************)
EXTENDS FileDriver, SequenceTheorems, FiniteSetTheorems, WellFoundedInduction, TLAPS

\* What inodes, calls of walk and files are; no prover knows "/" as a STRING.
InodeRec ==
  [kind : {"inode"}, dir : BOOLEAN, name : STRING \union {"/"}, size : Nat, blocks : Nat, direct : Seq(Nat),
   indirect : Nat]
FrameRec ==
  [node : Seq(STRING), num : Nat, inode : InodeRec, next : Nat, todo : SUBSET Seq(STRING),
   left : [file : Nat, dir : Nat]]
FileRec == [node : Seq(STRING), num : Nat, rest : Nat, index : Nat, inode : InodeRec]

\* blk is the block of each part of the tree that has one: part x gets block b.
Extended(blk, x, b) == [y \in DOMAIN blk \union {x} |-> IF y = x THEN b ELSE blk[y]]

\* No two parts have the same block, and no other block is marked as used.
BlocksKnown(h, blk, taken) ==
  /\ taken \subseteq Block /\ 0 \in taken /\ 1 \in taken
  /\ DOMAIN blk \subseteq Needs(h)
  /\ <<<<>>, -1>> \in DOMAIN blk /\ blk[<<<<>>, -1>>] = RootNum
  /\ \A x \in DOMAIN blk : blk[x] \in taken /\ blk[x] # 0 /\ blk[x] # 1 /\ <<x[1], -1>> \in DOMAIN blk
  /\ \A x \in DOMAIN blk : x[1] # <<>> => <<Front(x[1]), -1>> \in DOMAIN blk
  /\ \A x, y \in DOMAIN blk : blk[x] = blk[y] => x = y
  /\ \A b \in taken : b # 0 /\ b # 1 => \E x \in DOMAIN blk : b = blk[x]

\* A call of walk: what it has yet to look at has no block, and the indirect
\* block of its directory is where its inode says.
FrameKnown(h, blk, f) ==
  /\ f.node \in DOMAIN h /\ h[f.node].dir
  /\ <<f.node, -1>> \in DOMAIN blk /\ f.num = blk[<<f.node, -1>>]
  /\ f.todo \subseteq Below(h, f.node)
  /\ \A q \in f.todo : <<q, -1>> \notin DOMAIN blk
  /\ f.next >= 2
  /\ <<f.node, -2>> \in DOMAIN blk => f.inode.indirect # 0

FramesKnown(h, blk, calls) ==
  /\ calls \in Seq(FrameRec) /\ Len(calls) >= 1
  /\ \A k \in 1 .. Len(calls) : FrameKnown(h, blk, calls[k]) /\ Len(calls[k].node) = k - 1
  /\ \A k \in 1 .. Len(calls) - 1 : calls[k + 1].node \in Below(h, calls[k].node)

\* Each entry of a directory is counted in next, to do, or being worked at.
Counted(h, calls, busy) ==
  \A k \in 1 .. Len(calls) :
    calls[k].next + Cardinality(calls[k].todo) + (IF k < Len(calls) \/ busy THEN 1 ELSE 0)
      = Count(h, calls[k].node)

\* The file that is being copied.
FileKnown(h, blk, f) ==
  /\ f \in FileRec /\ f.node \in DOMAIN h /\ ~h[f.node].dir
  /\ <<f.node, -1>> \in DOMAIN blk /\ f.num = blk[<<f.node, -1>>]
  /\ \A i \in Nat : <<f.node, i>> \in DOMAIN blk => i < f.index
  /\ <<f.node, -2>> \in DOMAIN blk => f.inode.indirect # 0
  /\ f.index <= Count(h, f.node)
  /\ f.rest = IF f.index < Count(h, f.node) THEN h[f.node].size - f.index * BlockSize ELSE 0

Base(h, blk, taken, free, calls, f) ==
  /\ IsTree(h)
  /\ BlocksKnown(h, blk, taken) /\ free = BlockNum - Cardinality(taken)
  /\ FramesKnown(h, blk, calls) /\ Counted(h, calls, f # NoFile)
  /\ f # NoFile => FileKnown(h, blk, f) /\ f.node \in Below(h, calls[Len(calls)].node)
------------------------------------------------------------------------------
(* Numbers, blocks and trees.                                              *)

\* The assumption on the constants, without the inputs.
LEMMA Sizes ==
  /\ BlockNum \in Nat /\ BlockNum > 3 /\ BlockSize \in Nat /\ BlockSize > 0
  /\ Direct \in Nat /\ Direct >= 2 /\ Word \in Nat
BY SimpleFSAssumption

\* A set of numbers has a least one.
LEMMA LeastNat ==
  ASSUME NEW T, T \subseteq Nat, T # {}
  PROVE  \E x \in T : \A y \in T : x <= y
<1>1. PICK x \in T : \A y \in T : ~(<<y, x>> \in OpToRel(<, Nat))
  BY WFMin, NatLessThanWellFounded
<1>2. \A y \in T : ~(y < x)
  BY <1>1 DEF OpToRel
<1> QED
  BY <1>2

\* getFreeBlock gives a block that is not taken.
LEMMA FirstFacts ==
  ASSUME NEW taken, taken # Block, taken \subseteq Block
  PROVE  First(taken) \in Block /\ First(taken) \notin taken /\ First(taken) \in Nat
<1>1. Block \subseteq Nat
  BY Sizes DEF Block
<1>2. Block \ taken \subseteq Nat /\ Block \ taken # {}
  BY <1>1
<1>3. \E x \in Block \ taken : \A y \in Block \ taken : x <= y
  BY <1>2, LeastNat
<1> QED
  BY <1>1, <1>3 DEF First

\* The i-th block of a file begins within it, and no other does.
LEMMA CountFacts ==
  ASSUME NEW size \in Nat
  PROVE  /\ (size + BlockSize - 1) \div BlockSize \in Nat
         /\ \A i \in Nat : i < (size + BlockSize - 1) \div BlockSize <=> i * BlockSize < size
<1> DEFINE d == (size + BlockSize - 1) \div BlockSize
<1>1. BlockSize \in Nat /\ BlockSize > 0
  BY Sizes
<1>2. d \in Nat /\ d * BlockSize <= size + BlockSize - 1 /\ size + BlockSize - 1 < d * BlockSize + BlockSize
  BY <1>1
<1> HIDE DEF d
<1>3. ASSUME NEW i \in Nat PROVE i < d <=> i * BlockSize < size
  <2>1. i * BlockSize \in Nat /\ d * BlockSize \in Nat
    BY <1>1, <1>2
  <2>2. i < d => (i + 1) * BlockSize <= d * BlockSize
    BY ONLY <1>1, <1>2, i \in Nat
  <2>3. ~(i < d) => d * BlockSize <= i * BlockSize
    BY ONLY <1>1, <1>2, i \in Nat
  <2>4. (i + 1) * BlockSize = i * BlockSize + BlockSize
    BY ONLY <1>1, i \in Nat
  <2> QED
    BY <1>1, <1>2, <2>1, <2>2, <2>3, <2>4
<1> QED
  BY <1>2, <1>3 DEF d

\* The nodes of a tree and the parts that need a block.
LEMMA TreeFacts ==
  ASSUME NEW h, IsTree(h)
  PROVE  /\ <<>> \in DOMAIN h /\ h[<<>>].dir /\ IsFiniteSet(DOMAIN h)
         /\ \A p \in DOMAIN h :
              /\ p \in Seq(STRING) /\ Len(p) \in Nat
              /\ h[p].dir \in BOOLEAN /\ h[p].size \in Nat /\ h[p].size < Word
              /\ IsFiniteSet(Below(h, p)) /\ Below(h, p) \subseteq DOMAIN h /\ Count(h, p) \in Nat
              /\ h[p].dir => Count(h, p) = Cardinality(Below(h, p)) + 2
<1>1. ASSUME NEW p \in DOMAIN h
      PROVE  /\ p \in Seq(STRING) /\ Len(p) \in Nat
             /\ h[p].dir \in BOOLEAN /\ h[p].size \in Nat /\ h[p].size < Word
             /\ IsFiniteSet(Below(h, p)) /\ Below(h, p) \subseteq DOMAIN h /\ Count(h, p) \in Nat
             /\ h[p].dir => Count(h, p) = Cardinality(Below(h, p)) + 2
  <2>1. p \in Seq(STRING) /\ h[p] \in [dir : BOOLEAN, size : 0 .. Word - 1]
    BY DEF IsTree
  <2>2. h[p].dir \in BOOLEAN /\ h[p].size \in Nat /\ h[p].size < Word
    BY <2>1, Sizes
  <2>3. Below(h, p) \subseteq DOMAIN h
    BY DEF Below
  <2>4. IsFiniteSet(DOMAIN h)
    BY DEF IsTree
  <2>5. IsFiniteSet(Below(h, p)) /\ Cardinality(Below(h, p)) \in Nat
    BY <2>3, <2>4, FS_Subset, FS_CardinalityType
  <2>6. Count(h, p) \in Nat
    BY <2>2, <2>5, CountFacts DEF Count
  <2>7. Len(p) \in Nat
    BY <2>1, LenProperties
  <2> QED
    BY <2>1, <2>2, <2>3, <2>5, <2>6, <2>7 DEF Count
<1> QED
  BY <1>1 DEF IsTree

\* A file has a block behind the i-th if there is something left.
LEMMA FileCount ==
  ASSUME NEW h, IsTree(h), NEW p \in DOMAIN h, ~h[p].dir, NEW i \in Nat
  PROVE  i < Count(h, p) <=> i * BlockSize < h[p].size
<1>1. h[p].size \in Nat
  BY TreeFacts
<1> QED
  BY <1>1, CountFacts DEF Count

\* A node below p is named by p and its last name.
LEMMA NodesBelow ==
  ASSUME NEW h, IsTree(h), NEW q \in DOMAIN h, NEW p, q \in Below(h, p)
  PROVE  /\ q # <<>> /\ p = Front(q) /\ p \in DOMAIN h /\ h[p].dir
         /\ Len(q) = Len(p) + 1 /\ Last(q) = q[Len(q)] /\ Last(q) \in STRING
         /\ Last(q) \notin {".", ".."} /\ q = Append(p, Last(q))
<1>1. q # <<>> /\ p = Front(q) /\ q \in Seq(STRING) /\ p \in DOMAIN h /\ h[p].dir /\ Last(q) \notin {".", ".."}
  BY DEF Below, IsTree
<1>2. Len(q) \in Nat /\ Len(q) # 0 /\ \A i \in 1 .. Len(q) : q[i] \in STRING
  BY <1>1, EmptySeq, LenProperties
<1>3. p \in Seq(STRING) /\ Len(p) = Len(q) - 1 /\ \A i \in 1 .. Len(q) - 1 : p[i] = q[i]
  <2> DEFINE n == Len(q) - 1
  <2>1. n \in Nat /\ n \in Int /\ 1 \in Int /\ \A i \in 1 .. n : q[i] \in STRING
    BY <1>2
  <2>2. p = SubSeq(q, 1, n)
    BY <1>1 DEF Front
  <2> HIDE DEF n
  <2>3. /\ SubSeq(q, 1, n) \in Seq(STRING) /\ Len(SubSeq(q, 1, n)) = IF 1 <= n THEN n - 1 + 1 ELSE 0
        /\ \A i \in 1 .. n - 1 + 1 : SubSeq(q, 1, n)[i] = q[1 + i - 1]
    BY <2>1, SubSeqProperties
  <2>4. p \in Seq(STRING) /\ Len(p) = n /\ \A i \in 1 .. n : p[i] = q[i]
    BY <2>1, <2>2, <2>3
  <2> QED
    BY <2>4 DEF n
<1>4. Last(q) = q[Len(q)] /\ Last(q) \in STRING
  BY <1>2 DEF Last
<1>5. q = Append(p, Last(q))
  <2>1. /\ Append(p, Last(q)) \in Seq(STRING) /\ Len(Append(p, Last(q))) = Len(q)
        /\ \A i \in 1 .. Len(p) : Append(p, Last(q))[i] = p[i]
        /\ Append(p, Last(q))[Len(p) + 1] = Last(q)
    BY <1>2, <1>3, <1>4, AppendProperties
  <2>2. \A i \in 1 .. Len(q) : Append(p, Last(q))[i] = q[i]
    BY <1>2, <1>3, <1>4, <2>1
  <2> QED
    BY <1>1, <2>1, <2>2, SeqEqual
<1> QED
  BY <1>1, <1>2, <1>3, <1>4, <1>5

\* Two entries of a directory do not have the same name.
LEMMA NamesDiffer ==
  ASSUME NEW h, IsTree(h), NEW p, NEW q \in Below(h, p), NEW r \in Below(h, p), Last(q) = Last(r)
  PROVE  q = r
<1>1. q \in DOMAIN h /\ r \in DOMAIN h
  BY DEF Below
<1>2. q = Append(p, Last(q)) /\ r = Append(p, Last(r))
  BY <1>1, NodesBelow
<1> QED
  BY <1>2

\* The parts of a tree that need a block are finitely many and of three kinds.
LEMMA NeedFacts ==
  ASSUME NEW h, IsTree(h)
  PROVE  /\ IsFiniteSet(Needs(h))
         /\ \A p \in DOMAIN h :
              /\ <<p, -1>> \in Needs(h)
              /\ Count(h, p) > Direct => <<p, -2>> \in Needs(h)
              /\ ~h[p].dir => \A i \in 0 .. Count(h, p) - 1 : <<p, i>> \in Needs(h)
         /\ \A x \in Needs(h) :
              /\ x = <<x[1], x[2]>> /\ x[1] \in DOMAIN h
              /\ \/ x[2] = -1
                 \/ x[2] = -2 /\ Count(h, x[1]) > Direct
                 \/ ~h[x[1]].dir /\ x[2] \in 0 .. Count(h, x[1]) - 1
<1>1. ASSUME NEW p \in DOMAIN h PROVE IsFiniteSet({p} \X Parts(h, p))
  <2>1. Count(h, p) \in Nat
    BY TreeFacts
  <2>2. Parts(h, p) \subseteq -2 .. Count(h, p)
    BY <2>1 DEF Parts
  <2>3. IsFiniteSet(-2 .. Count(h, p))
    <3>1. -2 \in Int /\ Count(h, p) \in Int
      BY <2>1
    <3> QED
      BY <3>1, FS_Interval
  <2>4. IsFiniteSet(Parts(h, p)) /\ IsFiniteSet({p})
    BY <2>2, <2>3, FS_Subset, FS_Singleton
  <2> QED
    BY <2>4, FS_Product
<1>2. IsFiniteSet(Needs(h))
  <2> DEFINE f == [p \in DOMAIN h |-> {p} \X Parts(h, p)]
             S == {{p} \X Parts(h, p) : p \in DOMAIN h}
  <2>1. f \in Surjection(DOMAIN h, S)
    BY DEF Surjection
  <2>2. IsFiniteSet(S)
    BY <2>1, FS_Surjection DEF IsTree
  <2>3. \A T \in S : IsFiniteSet(T)
    BY <1>1
  <2> QED
    BY <2>2, <2>3, FS_UNION DEF Needs
<1>3. ASSUME NEW p \in DOMAIN h
      PROVE  /\ <<p, -1>> \in Needs(h)
             /\ Count(h, p) > Direct => <<p, -2>> \in Needs(h)
             /\ ~h[p].dir => \A i \in 0 .. Count(h, p) - 1 : <<p, i>> \in Needs(h)
  BY DEF Needs, Parts
<1>4. ASSUME NEW x \in Needs(h)
      PROVE  /\ x = <<x[1], x[2]>> /\ x[1] \in DOMAIN h
             /\ \/ x[2] = -1
                \/ x[2] = -2 /\ Count(h, x[1]) > Direct
                \/ ~h[x[1]].dir /\ x[2] \in 0 .. Count(h, x[1]) - 1
  <2>1. PICK p \in DOMAIN h : x \in {p} \X Parts(h, p)
    BY DEF Needs
  <2>2. x = <<x[1], x[2]>> /\ x[1] = p /\ x[2] \in Parts(h, p)
    BY <2>1
  <2> QED
    BY <2>2 DEF Parts
<1> QED
  BY <1>2, <1>3, <1>4
------------------------------------------------------------------------------
(* Blocks that are taken.                                                  *)

\* Every part that had a block has it still.
Grows(blk, blk2) == DOMAIN blk \subseteq DOMAIN blk2 /\ \A x \in DOMAIN blk : blk2[x] = blk[x]

\* Attaching the n-th block of p takes another block if NeedsIndirect says so.
WithIndirect(blk, p, ino, n, taken) ==
  IF NeedsIndirect(ino, n) THEN Extended(blk, <<p, -2>>, First(taken)) ELSE blk

\* Giving one more part a block leaves the others theirs.
LEMMA ExtendedFacts ==
  ASSUME NEW blk, NEW x, NEW b
  PROVE  /\ DOMAIN Extended(blk, x, b) = DOMAIN blk \union {x} /\ Extended(blk, x, b)[x] = b
         /\ \A y \in DOMAIN blk : y # x => Extended(blk, x, b)[y] = blk[y]
         /\ x \notin DOMAIN blk => Grows(blk, Extended(blk, x, b))
BY DEF Extended, Grows

\* A free block for a part that had none keeps the blocks apart.
LEMMA ExtendedKnown ==
  ASSUME NEW h, NEW blk, NEW taken, BlocksKnown(h, blk, taken), NEW b \in Block, b \notin taken,
         NEW p, NEW i, <<p, i>> \in Needs(h), <<p, i>> \notin DOMAIN blk, i = -1 \/ <<p, -1>> \in DOMAIN blk,
         p # <<>> => <<Front(p), -1>> \in DOMAIN blk
  PROVE  BlocksKnown(h, Extended(blk, <<p, i>>, b), taken \union {b})
<1> DEFINE x == <<p, i>>
           new == Extended(blk, x, b)
<1>1. /\ DOMAIN new = DOMAIN blk \union {x} /\ new[x] = b /\ x \notin DOMAIN blk
      /\ \A y \in DOMAIN blk : new[y] = blk[y]
  BY DEF Extended
<1>2. x[1] = p /\ x \in Needs(h) /\ (<<p, -1>> = x \/ <<p, -1>> \in DOMAIN blk)
  OBVIOUS
<1> HIDE DEF x, new
<1>3. b # 0 /\ b # 1 /\ \A y \in DOMAIN blk : blk[y] # b
  <2>1. 0 \in taken /\ 1 \in taken
    BY DEF BlocksKnown
  <2>2. \A y \in DOMAIN blk : blk[y] \in taken
    BY DEF BlocksKnown
  <2> QED
    BY <2>1, <2>2
<1>4. \A y \in DOMAIN new :
        new[y] \in taken \union {b} /\ new[y] # 0 /\ new[y] # 1 /\ <<y[1], -1>> \in DOMAIN new
  BY <1>1, <1>2, <1>3 DEF BlocksKnown
<1>5. \A y, z \in DOMAIN new : new[y] = new[z] => y = z
  BY <1>1, <1>3 DEF BlocksKnown
<1>6. \A c \in taken \union {b} : c # 0 /\ c # 1 => \E y \in DOMAIN new : c = new[y]
  BY <1>1 DEF BlocksKnown
<1>7. <<<<>>, -1>> \in DOMAIN new /\ new[<<<<>>, -1>>] = RootNum
  BY <1>1 DEF BlocksKnown
<1>8. taken \union {b} \subseteq Block /\ DOMAIN new \subseteq Needs(h)
  BY <1>1, <1>2 DEF BlocksKnown
<1>9. \A y \in DOMAIN new : y[1] # <<>> => <<Front(y[1]), -1>> \in DOMAIN new
  BY <1>1, <1>2 DEF BlocksKnown
<1>10. BlocksKnown(h, new, taken \union {b})
  BY <1>4, <1>5, <1>6, <1>7, <1>8, <1>9 DEF BlocksKnown
<1> QED
  BY <1>10 DEF new, x

\* The blocks of the image and the three that are reserved.
LEMMA BlockFacts ==
  /\ IsFiniteSet(Block) /\ Cardinality(Block) = BlockNum /\ Block \subseteq Nat
  /\ 0 \in Block /\ 1 \in Block /\ RootNum \in Block /\ Cardinality(Reserved) = 3
<1>1. BlockNum \in Nat /\ BlockNum > 3 /\ 0 \in Int /\ BlockNum - 1 \in Int
  BY Sizes
<1>2. IsFiniteSet(Block) /\ Cardinality(Block) = BlockNum
  BY <1>1, FS_Interval DEF Block
<1>3. Cardinality({0}) = 1 /\ IsFiniteSet({0})
  BY FS_Singleton
<1>4. Cardinality({0} \union {1}) = 2 /\ IsFiniteSet({0} \union {1})
  BY <1>3, FS_AddElement
<1>5. Cardinality(({0} \union {1}) \union {2}) = 3
  BY <1>4, FS_AddElement
<1>6. Reserved = ({0} \union {1}) \union {2}
  BY DEF Reserved, RootNum
<1>7. Block \subseteq Nat /\ 0 \in Block /\ 1 \in Block /\ RootNum \in Block
  BY <1>1 DEF Block, RootNum
<1> QED
  BY <1>2, <1>5, <1>6, <1>7

\* As many blocks are taken as parts have one, and the first two.
LEMMA TakenCount ==
  ASSUME NEW h, IsTree(h), NEW blk, NEW taken, BlocksKnown(h, blk, taken)
  PROVE  /\ IsFiniteSet(DOMAIN blk) /\ IsFiniteSet(taken) /\ Cardinality(DOMAIN blk) \in Nat
         /\ Cardinality(taken) = Cardinality(DOMAIN blk) + 2
         /\ Cardinality(Block \ taken) = BlockNum - Cardinality(taken)
<1> DEFINE f == [x \in DOMAIN blk |-> blk[x]]
           rest == (taken \ {0}) \ {1}
<1>1. IsFiniteSet(DOMAIN blk) /\ Cardinality(DOMAIN blk) \in Nat
  BY NeedFacts, FS_Subset, FS_CardinalityType DEF BlocksKnown
<1>2. IsFiniteSet(taken) /\ Cardinality(taken) \in Nat
  BY BlockFacts, FS_Subset, FS_CardinalityType DEF BlocksKnown
<1>3. f \in Bijection(DOMAIN blk, rest)
  <2>1. f \in [DOMAIN blk -> rest] /\ \A x, y \in DOMAIN f : f[x] = f[y] => x = y
    BY DEF BlocksKnown
  <2>2. \A b \in rest : \E x \in DOMAIN blk : f[x] = b
    BY DEF BlocksKnown
  <2> QED
    BY <2>1, <2>2 DEF Bijection, Injection, Surjection, IsInjective
<1>4. Cardinality(rest) = Cardinality(DOMAIN blk)
  BY <1>1, <1>3, FS_Bijection DEF ExistsBijection
<1>5. IsFiniteSet(taken \ {0}) /\ Cardinality(taken \ {0}) = Cardinality(taken) - 1 /\ 1 \in taken \ {0}
  BY <1>2, FS_RemoveElement DEF BlocksKnown
<1>6. Cardinality(rest) = Cardinality(taken \ {0}) - 1
  BY <1>5, FS_RemoveElement
<1>7. Cardinality(Block \ taken) = BlockNum - Cardinality(taken)
  <2>1. Block \intersect taken = taken
    BY DEF BlocksKnown
  <2> QED
    BY <2>1, BlockFacts, FS_Difference
<1> QED
  BY <1>1, <1>2, <1>4, <1>5, <1>6, <1>7

\* freenum goes on counting the free blocks, when more are taken.
LEMMA TakesFacts ==
  ASSUME NEW h, IsTree(h), NEW blk, NEW taken, BlocksKnown(h, blk, taken), NEW more, taken \subseteq more, more \subseteq Block
  PROVE  BlockNum - Cardinality(taken) - Cardinality(more \ taken) = BlockNum - Cardinality(more)
<1>1. IsFiniteSet(more) /\ IsFiniteSet(taken) /\ Cardinality(more) \in Nat /\ Cardinality(taken) \in Nat
  BY BlockFacts, TakenCount, FS_Subset, FS_CardinalityType
<1>2. more \intersect taken = taken
  OBVIOUS
<1>3. Cardinality(more \ taken) = Cardinality(more) - Cardinality(taken)
  BY <1>1, <1>2, FS_Difference
<1> QED
  BY <1>1, <1>3, Sizes

\* Parts that have no block yet, more of them than there are blocks left.
LEMMA TooLarge ==
  ASSUME NEW h, IsTree(h), NEW blk, NEW taken, BlocksKnown(h, blk, taken),
         NEW X, X \subseteq Needs(h), X \intersect DOMAIN blk = {}, Cardinality(Block \ taken) < Cardinality(X)
  PROVE  Cardinality(Needs(h)) - 1 > BlockNum - Cardinality(Reserved)
<1>1. /\ IsFiniteSet(Needs(h)) /\ IsFiniteSet(X) /\ IsFiniteSet(DOMAIN blk)
      /\ DOMAIN blk \union X \subseteq Needs(h)
  BY NeedFacts, TakenCount, FS_Subset DEF BlocksKnown
<1>2. /\ Cardinality(Needs(h)) \in Nat /\ Cardinality(X) \in Nat /\ Cardinality(DOMAIN blk) \in Nat
      /\ Cardinality(DOMAIN blk \union X) <= Cardinality(Needs(h))
  BY <1>1, FS_Subset, FS_CardinalityType
<1>3. Cardinality(DOMAIN blk \union X) = Cardinality(DOMAIN blk) + Cardinality(X)
  <2>1. DOMAIN blk \intersect X = {}
    OBVIOUS
  <2>2. Cardinality(DOMAIN blk \union X) =
          Cardinality(DOMAIN blk) + Cardinality(X) - Cardinality(DOMAIN blk \intersect X)
    BY <1>1, FS_Union
  <2>3. Cardinality(DOMAIN blk \intersect X) = 0
    BY <2>1, FS_EmptySet
  <2> QED
    BY <1>2, <2>2, <2>3
<1>4. Cardinality(Block \ taken) = BlockNum - (Cardinality(DOMAIN blk) + 2)
  BY TakenCount
<1> QED
  BY <1>2, <1>3, <1>4, BlockFacts, Sizes

Written(img, ind, i, b) == [img EXCEPT ![ind] = Put(@, i, b)]
Attached(a, ino, n, b, taken, img) == Room(taken, ino, n) /\ a = Attach(ino, n, b, taken, img)

\* What attaching does: the inode keeps what it was made with, and is given
\* an indirect block when it needs one.
AttachEffect(a, ino, n, b, taken, img) ==
  /\ a.inode \in InodeRec /\ taken \subseteq a.used /\ a.used \subseteq Block
  /\ a.inode.dir = ino.dir /\ a.inode.name = ino.name /\ a.inode.size = ino.size
  /\ a.inode.blocks = ino.blocks
  /\ n < Direct => a.inode.indirect = ino.indirect /\ a.used = taken /\ a.image = img
  /\ ~(n < Direct) =>
       /\ a.inode.direct = ino.direct
       /\ a.image = Written(img, a.inode.indirect, n - Direct, b)
  /\ ~(n < Direct) /\ ino.indirect # 0 => a.inode.indirect = ino.indirect /\ a.used = taken
  /\ NeedsIndirect(ino, n) =>
       /\ a.inode.indirect = First(taken) /\ a.used = taken \union {First(taken)}
       /\ First(taken) \in Block /\ First(taken) \notin taken

\* Attach does what AttachEffect says, into direct and into the indirect block.
LEMMA AttachFacts ==
  ASSUME NEW ino \in InodeRec, NEW n \in Nat, NEW b \in Nat, NEW taken, taken \subseteq Block, NEW img,
         NEW a, Attached(a, ino, n, b, taken, img)
  PROVE  AttachEffect(a, ino, n, b, taken, img)
<1>0. /\ NeedsIndirect(ino, n) <=> ~(n < Direct) /\ ino.indirect = 0
      /\ NeedsIndirect(ino, n) => taken # Block
  BY Sizes DEF NeedsIndirect, Room, Attached
<1>1. CASE n < Direct
  <2>1. a = [inode |-> [ino EXCEPT !.direct = Append(@, b)], used |-> taken, image |-> img]
    BY <1>1 DEF Attach, Attached
  <2>2. a.inode = [ino EXCEPT !.direct = Append(@, b)] /\ a.used = taken /\ a.image = img
    BY <2>1
  <2>3. Append(ino.direct, b) \in Seq(Nat)
    BY AppendProperties DEF InodeRec
  <2>4. /\ a.inode \in InodeRec /\ a.inode.dir = ino.dir /\ a.inode.name = ino.name /\ a.inode.size = ino.size
        /\ a.inode.blocks = ino.blocks /\ a.inode.direct = Append(ino.direct, b)
        /\ a.inode.indirect = ino.indirect
    BY <2>2, <2>3 DEF InodeRec
  <2> QED
    BY <1>0, <1>1, <2>2, <2>4 DEF AttachEffect
<1>2. CASE ~(n < Direct)
  <2> DEFINE ind == IF NeedsIndirect(ino, n) THEN First(taken) ELSE ino.indirect
  <2>1. a = [inode |-> [ino EXCEPT !.indirect = ind],
             used |-> IF NeedsIndirect(ino, n) THEN taken \union {ind} ELSE taken,
             image |-> [img EXCEPT ![ind] = Put(@, n - Direct, b)]]
    BY <1>2 DEF Attach, Attached
  <2>2. ind \in Nat
    BY <1>0, FirstFacts DEF InodeRec
  <2>3. NeedsIndirect(ino, n) => ind = First(taken) /\ First(taken) \in Block /\ First(taken) \notin taken
    BY <1>0, FirstFacts
  <2>4. ~NeedsIndirect(ino, n) => ind = ino.indirect
    OBVIOUS
  <2> HIDE DEF ind
  <2>5. /\ a.inode = [ino EXCEPT !.indirect = ind] /\ a.image = [img EXCEPT ![ind] = Put(@, n - Direct, b)]
        /\ a.used = IF NeedsIndirect(ino, n) THEN taken \union {ind} ELSE taken
    BY <2>1
  <2>6. /\ a.inode \in InodeRec /\ a.inode.dir = ino.dir /\ a.inode.name = ino.name /\ a.inode.size = ino.size
        /\ a.inode.blocks = ino.blocks /\ a.inode.direct = ino.direct /\ a.inode.indirect = ind
    BY <2>2, <2>5 DEF InodeRec
  <2>7. a.image = Written(img, a.inode.indirect, n - Direct, b)
    BY <2>5, <2>6 DEF Written
  <2> QED
    BY <1>0, <1>2, <2>3, <2>4, <2>5, <2>6, <2>7 DEF AttachEffect
<1> QED
  BY <1>1, <1>2

\* Attaching marks the indirect block as taken, if there is a new one.
AttachBlocks(h, blk, p, ino, n, taken, a) ==
  /\ BlocksKnown(h, WithIndirect(blk, p, ino, n, taken), a.used)
  /\ Grows(blk, WithIndirect(blk, p, ino, n, taken))
  /\ DOMAIN WithIndirect(blk, p, ino, n, taken) \subseteq DOMAIN blk \union {<<p, -2>>}
  /\ <<p, -2>> \in DOMAIN WithIndirect(blk, p, ino, n, taken) => a.inode.indirect # 0

\* Attach keeps the blocks apart, with one more part if it takes an indirect
\* block.
LEMMA AttachKnown ==
  ASSUME NEW h, IsTree(h), NEW blk, NEW taken, BlocksKnown(h, blk, taken),
         NEW p \in DOMAIN h, <<p, -1>> \in DOMAIN blk,
         NEW ino \in InodeRec, NEW n \in Nat, NEW b \in Nat, NEW img,
         NEW a, Attached(a, ino, n, b, taken, img),
         n < Count(h, p), <<p, -2>> \in DOMAIN blk => ino.indirect # 0
  PROVE  AttachBlocks(h, blk, p, ino, n, taken, a)
<1>1. taken \subseteq Block /\ 0 \in taken
  BY DEF BlocksKnown
<1>2. CASE NeedsIndirect(ino, n)
  <2>1. /\ a.inode.indirect = First(taken) /\ a.used = taken \union {First(taken)}
        /\ First(taken) \in Block /\ First(taken) \notin taken
    BY <1>1, <1>2, AttachFacts DEF AttachEffect
  <2>2. WithIndirect(blk, p, ino, n, taken) = Extended(blk, <<p, -2>>, First(taken))
    BY <1>2 DEF WithIndirect
  <2>3. <<p, -2>> \notin DOMAIN blk
    BY <1>2 DEF NeedsIndirect
  <2>4. <<p, -2>> \in Needs(h)
    <3>1. Count(h, p) \in Nat /\ Count(h, p) > Direct
      BY <1>2, TreeFacts, Sizes DEF NeedsIndirect
    <3> QED
      BY <3>1, NeedFacts
  <2>5. BlocksKnown(h, Extended(blk, <<p, -2>>, First(taken)), taken \union {First(taken)})
    <3>1. p # <<>> => <<Front(p), -1>> \in DOMAIN blk
      BY DEF BlocksKnown
    <3> QED
      BY <2>1, <2>3, <2>4, <3>1, ExtendedKnown
  <2>6. /\ Grows(blk, Extended(blk, <<p, -2>>, First(taken)))
        /\ DOMAIN Extended(blk, <<p, -2>>, First(taken)) = DOMAIN blk \union {<<p, -2>>}
    BY <2>3 DEF Extended, Grows
  <2>7. a.inode.indirect # 0
    BY <1>1, <2>1
  <2> QED
    BY <2>1, <2>2, <2>5, <2>6, <2>7 DEF AttachBlocks
<1>3. CASE ~NeedsIndirect(ino, n)
  <2>1. WithIndirect(blk, p, ino, n, taken) = blk
    BY <1>3 DEF WithIndirect
  <2>2. n < Direct \/ (~(n < Direct) /\ ino.indirect # 0)
    BY <1>3, Sizes DEF NeedsIndirect
  <2>3. a.used = taken /\ a.inode.indirect = ino.indirect
    <3>1. AttachEffect(a, ino, n, b, taken, img)
      BY <1>1, AttachFacts
    <3> QED
      BY <2>2, <3>1 DEF AttachEffect
  <2> QED
    BY <2>1, <2>3 DEF Grows, AttachBlocks
<1> QED
  BY <1>2, <1>3

\* Two extensions are one.
LEMMA GrowsOn ==
  ASSUME NEW blk, NEW blk2, NEW blk3, Grows(blk, blk2), Grows(blk2, blk3)
  PROVE  Grows(blk, blk3)
BY DEF Grows

\* A call of walk is not disturbed by blocks for other parts.
LEMMA FrameKeeps ==
  ASSUME NEW h, NEW blk, NEW f, FrameKnown(h, blk, f), NEW blk2, Grows(blk, blk2),
         \A q \in f.todo : <<q, -1>> \notin DOMAIN blk2,
         <<f.node, -2>> \in DOMAIN blk2 => <<f.node, -2>> \in DOMAIN blk
  PROVE  FrameKnown(h, blk2, f)
BY DEF FrameKnown, Grows
------------------------------------------------------------------------------
(* The calls of walk: what each action makes of them.                      *)

\* Field by field, what one entry of frames has and what changes in it.
SameCall(f, g) ==
  f.node = g.node /\ f.num = g.num /\ f.inode = g.inode /\ f.next = g.next /\ f.left = g.left

NewCall(h, g, p, num, parent, ind, left) ==
  /\ g \in FrameRec /\ g.node = p /\ g.num = num /\ g.next = 2 /\ g.todo = Below(h, p) /\ g.left = left
  /\ g.inode = [NewInode(p, ind) EXCEPT !.direct = <<num, parent>>]

\* A new inode is a record of numbers, whatever was on the stack.
LEMMA NewInodeFacts ==
  ASSUME IsTree(host), NEW p \in DOMAIN host, NEW ind \in Nat, NEW direct \in Seq(Nat), NEW blocks \in Nat
  PROVE  /\ [NewInode(p, ind) EXCEPT !.direct = direct] \in InodeRec
         /\ [NewInode(p, ind) EXCEPT !.blocks = blocks] \in InodeRec
<1>1. host[p].dir \in BOOLEAN /\ host[p].size \in Nat /\ p \in Seq(STRING)
  BY TreeFacts
<1>2. (IF p = <<>> THEN "/" ELSE Last(p)) \in STRING \union {"/"}
  <2>1. CASE p = <<>>
    BY <2>1
  <2>2. CASE p # <<>>
    <3>1. Len(p) \in 1 .. Len(p) /\ \A i \in 1 .. Len(p) : p[i] \in STRING
      BY <1>1, <2>2, EmptySeq, LenProperties
    <3>2. Last(p) \in STRING
      BY <3>1 DEF Last
    <3> QED
      BY <2>2, <3>2
  <2> QED
    BY <2>1, <2>2
<1>3. <<>> \in Seq(Nat)
  BY EmptySeq
<1> QED
  BY <1>1, <1>2, <1>3 DEF NewInode, InodeRec

\* A new call of walk knows . and .., and has all entries to look at.
LEMMA NewFrameFacts ==
  ASSUME IsTree(host), NEW p \in DOMAIN host, NEW num \in Nat, NEW parent \in Nat, NEW ind \in Nat,
         NEW left \in [file : Nat, dir : Nat]
  PROVE  NewCall(host, NewFrame(p, num, parent, ind, left), p, num, parent, ind, left)
<1> DEFINE g == NewFrame(p, num, parent, ind, left)
           ino == [NewInode(p, ind) EXCEPT !.direct = <<num, parent>>]
<1>1. g = [node |-> p, num |-> num, inode |-> ino, next |-> 2, todo |-> Below(host, p), left |-> left]
  BY DEF NewFrame, Children
<1>2. ino \in InodeRec
  <2>1. <<num, parent>> \in Seq(Nat) /\ 0 \in Nat
    OBVIOUS
  <2> QED
    BY <2>1, NewInodeFacts
<1>3. p \in Seq(STRING) /\ Below(host, p) \subseteq Seq(STRING)
  BY TreeFacts
<1> HIDE DEF ino
<1>4. g \in FrameRec
  BY <1>1, <1>2, <1>3 DEF FrameRec
<1>5. g.node = p /\ g.num = num /\ g.next = 2 /\ g.todo = Below(host, p) /\ g.left = left /\ g.inode = ino
  BY <1>1
<1> QED
  BY <1>4, <1>5 DEF NewCall, ino

\* One call goes on with another inode and entry, the others do not change.
LEMMA GoOn ==
  ASSUME NEW calls \in Seq(FrameRec), NEW m \in 1 .. Len(calls), NEW g \in FrameRec
  PROVE  /\ [calls EXCEPT ![m] = g] \in Seq(FrameRec) /\ Len([calls EXCEPT ![m] = g]) = Len(calls)
         /\ [calls EXCEPT ![m] = g][m] = g
         /\ \A k \in 1 .. Len(calls) : k # m => [calls EXCEPT ![m] = g][k] = calls[k]
BY ExceptSeq

\* The last call crosses p out.
CrossedOut(calls, p) == [calls EXCEPT ![Len(calls)].todo = @ \ {p}]

\* What crossing an entry out of the innermost call changes.
LEMMA CrossOut ==
  ASSUME NEW calls \in Seq(FrameRec), Len(calls) >= 1, NEW p
  PROVE  /\ CrossedOut(calls, p) \in Seq(FrameRec) /\ Len(CrossedOut(calls, p)) = Len(calls)
         /\ \A k \in 1 .. Len(calls) - 1 : CrossedOut(calls, p)[k] = calls[k]
         /\ SameCall(CrossedOut(calls, p)[Len(calls)], calls[Len(calls)])
         /\ CrossedOut(calls, p)[Len(calls)].todo = calls[Len(calls)].todo \ {p}
<1> DEFINE g == [calls[Len(calls)] EXCEPT !.todo = @ \ {p}]
<1>1. Len(calls) \in Nat /\ Len(calls) \in 1 .. Len(calls) /\ calls[Len(calls)] \in FrameRec
  BY LenProperties
<1>2. g \in FrameRec /\ SameCall(g, calls[Len(calls)]) /\ g.todo = calls[Len(calls)].todo \ {p}
  BY <1>1 DEF FrameRec, SameCall
<1>3. CrossedOut(calls, p) = [calls EXCEPT ![Len(calls)] = g]
  BY DEF CrossedOut
<1> HIDE DEF g
<1>4. /\ CrossedOut(calls, p) \in Seq(FrameRec) /\ Len(CrossedOut(calls, p)) = Len(calls)
      /\ CrossedOut(calls, p)[Len(calls)] = g
      /\ \A k \in 1 .. Len(calls) : k # Len(calls) => CrossedOut(calls, p)[k] = calls[k]
  BY <1>1, <1>2, <1>3, GoOn
<1>5. \A k \in 1 .. Len(calls) - 1 : k \in 1 .. Len(calls) /\ k # Len(calls)
  BY <1>1
<1> QED
  BY <1>1, <1>2, <1>4, <1>5

\* A call of walk returns.
LEMMA FrontFrames ==
  ASSUME NEW calls \in Seq(FrameRec), Len(calls) > 1
  PROVE  /\ Front(calls) \in Seq(FrameRec) /\ Len(Front(calls)) = Len(calls) - 1
         /\ \A k \in 1 .. Len(calls) - 1 : Front(calls)[k] = calls[k]
<1> DEFINE n == Len(calls) - 1
<1>1. n \in Nat /\ n >= 1 /\ n \in Int /\ 1 \in Int /\ \A i \in 1 .. n : calls[i] \in FrameRec
  BY LenProperties
<1>2. Front(calls) = SubSeq(calls, 1, n)
  BY DEF Front
<1> HIDE DEF n
<1>3. /\ SubSeq(calls, 1, n) \in Seq(FrameRec)
      /\ Len(SubSeq(calls, 1, n)) = IF 1 <= n THEN n - 1 + 1 ELSE 0
      /\ \A i \in 1 .. n - 1 + 1 : SubSeq(calls, 1, n)[i] = calls[1 + i - 1]
  BY <1>1, SubSeqProperties
<1>4. Front(calls) \in Seq(FrameRec) /\ Len(Front(calls)) = n /\ \A k \in 1 .. n : Front(calls)[k] = calls[k]
  BY <1>1, <1>2, <1>3
<1> QED
  BY <1>4 DEF n
\* An entry that the innermost call has yet to look at.
LEMMA FreshNode ==
  ASSUME NEW h, IsTree(h), NEW blk, NEW taken, BlocksKnown(h, blk, taken),
         NEW calls, FramesKnown(h, blk, calls), NEW p \in calls[Len(calls)].todo
  PROVE  /\ p \in DOMAIN h /\ p # <<>> /\ <<Front(p), -1>> \in DOMAIN blk
         /\ p \in Below(h, calls[Len(calls)].node) /\ Len(p) = Len(calls)
         /\ \A i : <<p, i>> \notin DOMAIN blk
         /\ \A q \in Below(h, p) : \A i : <<q, i>> \notin DOMAIN blk
         /\ \A k \in 1 .. Len(calls) - 1 : p \notin calls[k].todo
         /\ IsFiniteSet(calls[Len(calls)].todo)
         /\ Cardinality(calls[Len(calls)].todo \ {p}) = Cardinality(calls[Len(calls)].todo) - 1
<1> DEFINE n == Len(calls)
<1>1. n \in Nat /\ n >= 1 /\ FrameKnown(h, blk, calls[n]) /\ Len(calls[n].node) = n - 1
  BY LenProperties DEF FramesKnown
<1>2. p \in Below(h, calls[n].node) /\ <<p, -1>> \notin DOMAIN blk /\ <<calls[n].node, -1>> \in DOMAIN blk
  BY <1>1 DEF FrameKnown
<1>3. p \in DOMAIN h
  BY <1>2 DEF Below
<1>4. p # <<>> /\ Front(p) = calls[n].node /\ Len(p) = n
  BY <1>1, <1>2, <1>3, NodesBelow
<1>5. \A i : <<p, i>> \notin DOMAIN blk
  BY <1>2 DEF BlocksKnown
<1>6. ASSUME NEW q \in Below(h, p), NEW i, <<q, i>> \in DOMAIN blk PROVE FALSE
  <2>1. q # <<>> /\ Front(q) = p
    BY DEF Below
  <2> QED
    BY <1>2, <1>6, <2>1 DEF BlocksKnown
<1>7. ASSUME NEW k \in 1 .. n - 1, p \in calls[k].todo PROVE FALSE
  <2>0. k \in 1 .. n
    BY <1>1
  <2>1. p \in Below(h, calls[k].node) /\ Len(calls[k].node) = k - 1
    BY <1>7, <2>0 DEF FramesKnown, FrameKnown
  <2>2. Front(p) = calls[k].node
    BY <2>1 DEF Below
  <2> QED
    BY <1>1, <1>4, <2>1, <2>2
<1>8. IsFiniteSet(calls[n].todo)
  <2>1. calls[n].todo \subseteq DOMAIN h
    BY <1>1 DEF FrameKnown, Below
  <2> QED
    BY <2>1, TreeFacts, FS_Subset
<1>9. Cardinality(calls[n].todo \ {p}) = Cardinality(calls[n].todo) - 1
  BY <1>8, FS_RemoveElement
<1> QED
  BY <1>2, <1>3, <1>4, <1>5, <1>6, <1>7, <1>8, <1>9

\* The calls of walk are not disturbed by blocks for other parts.
LEMMA FramesKeep ==
  ASSUME NEW h, NEW blk, NEW calls, FramesKnown(h, blk, calls), NEW blk2, Grows(blk, blk2),
         \A k \in 1 .. Len(calls) :
           /\ \A q \in calls[k].todo : <<q, -1>> \notin DOMAIN blk2
           /\ <<calls[k].node, -2>> \in DOMAIN blk2 => <<calls[k].node, -2>> \in DOMAIN blk
  PROVE  FramesKnown(h, blk2, calls)
<1>1. ASSUME NEW k \in 1 .. Len(calls) PROVE FrameKnown(h, blk2, calls[k])
  <2>1. FrameKnown(h, blk, calls[k])
    BY DEF FramesKnown
  <2> QED
    BY <2>1, FrameKeeps
<1> QED
  BY <1>1 DEF FramesKnown

\* The innermost call goes on with g: everything else about it is as before.
LEMMA ReplacedKnown ==
  ASSUME NEW h, NEW blk, NEW calls, FramesKnown(h, blk, calls), NEW g \in FrameRec,
         FrameKnown(h, blk, g), g.node = calls[Len(calls)].node
  PROVE  FramesKnown(h, blk, [calls EXCEPT ![Len(calls)] = g])
<1> DEFINE n == Len(calls)
           new == [calls EXCEPT ![n] = g]
<1>1. n \in Nat /\ n >= 1 /\ n \in 1 .. n /\ calls \in Seq(FrameRec)
  BY LenProperties DEF FramesKnown
<1>2. new \in Seq(FrameRec) /\ Len(new) = n /\ new[n] = g /\ \A k \in 1 .. n : k # n => new[k] = calls[k]
  BY <1>1, GoOn
<1> HIDE DEF new
<1>3. \A k \in 1 .. n : FrameKnown(h, blk, new[k]) /\ new[k].node = calls[k].node
  BY <1>2 DEF FramesKnown
<1>4. \A k \in 1 .. n : Len(new[k].node) = k - 1
  BY <1>3 DEF FramesKnown
<1>5. \A k \in 1 .. n - 1 : new[k + 1].node \in Below(h, new[k].node)
  <2>1. \A k \in 1 .. n - 1 : k \in 1 .. n /\ k + 1 \in 1 .. n
    BY <1>1
  <2> QED
    BY <1>3, <2>1 DEF FramesKnown
<1>6. FramesKnown(h, blk, new)
  BY <1>1, <1>2, <1>3, <1>4, <1>5 DEF FramesKnown
<1> QED
  BY <1>6 DEF new

\* walk meets p, which gets block b.
LEMMA CrossedKnown ==
  ASSUME NEW h, IsTree(h), NEW blk, NEW taken, BlocksKnown(h, blk, taken),
         NEW calls, FramesKnown(h, blk, calls), Counted(h, calls, FALSE),
         NEW p \in calls[Len(calls)].todo, NEW b
  PROVE  /\ FramesKnown(h, Extended(blk, <<p, -1>>, b), CrossedOut(calls, p))
         /\ Counted(h, CrossedOut(calls, p), TRUE)
<1> DEFINE n == Len(calls)
           new == CrossedOut(calls, p)
           blk2 == Extended(blk, <<p, -1>>, b)
<1>1. n \in Nat /\ n >= 1 /\ n \in 1 .. n /\ calls \in Seq(FrameRec)
  BY LenProperties DEF FramesKnown
<1>2. /\ new \in Seq(FrameRec) /\ Len(new) = n /\ \A k \in 1 .. n - 1 : new[k] = calls[k]
      /\ SameCall(new[n], calls[n]) /\ new[n].todo = calls[n].todo \ {p}
  BY <1>1, CrossOut
<1>3. DOMAIN blk2 = DOMAIN blk \union {<<p, -1>>} /\ Grows(blk, blk2)
  <2>1. <<p, -1>> \notin DOMAIN blk
    BY FreshNode
  <2> QED
    BY <2>1, ExtendedFacts
<1>4. /\ \A k \in 1 .. n - 1 : p \notin calls[k].todo
      /\ IsFiniteSet(calls[n].todo)
      /\ Cardinality(calls[n].todo \ {p}) = Cardinality(calls[n].todo) - 1
  BY FreshNode
<1> HIDE DEF new, blk2
<1>5. ASSUME NEW k \in 1 .. n
      PROVE  /\ FrameKnown(h, blk2, new[k]) /\ new[k].node = calls[k].node /\ new[k].next = calls[k].next
             /\ new[k].todo = IF k = n THEN calls[k].todo \ {p} ELSE calls[k].todo
  <2>0. FrameKnown(h, blk, calls[k])
    BY DEF FramesKnown
  <2>1. CASE k = n
    <3>1. SameCall(new[k], calls[k]) /\ new[k].todo = calls[k].todo \ {p}
      BY <1>2, <2>1
    <3>2. FrameKnown(h, blk, new[k])
      BY <2>0, <3>1 DEF FrameKnown, SameCall
    <3>3. \A q \in new[k].todo : <<q, -1>> \notin DOMAIN blk2
      BY <1>3, <2>0, <3>1 DEF FrameKnown
    <3>4. <<new[k].node, -2>> \in DOMAIN blk2 => <<new[k].node, -2>> \in DOMAIN blk
      BY <1>3
    <3>5. FrameKnown(h, blk2, new[k])
      BY <1>3, <3>2, <3>3, <3>4, FrameKeeps
    <3> QED
      BY <2>1, <3>1, <3>5 DEF SameCall
  <2>2. CASE k # n
    <3>1. k \in 1 .. n - 1
      BY <1>1, <2>2
    <3>2. new[k] = calls[k] /\ p \notin calls[k].todo
      BY <1>2, <1>4, <3>1
    <3>3. \A q \in new[k].todo : <<q, -1>> \notin DOMAIN blk2
      BY <1>3, <2>0, <3>2 DEF FrameKnown
    <3>4. <<new[k].node, -2>> \in DOMAIN blk2 => <<new[k].node, -2>> \in DOMAIN blk
      BY <1>3
    <3>5. FrameKnown(h, blk2, new[k])
      BY <1>3, <2>0, <3>2, <3>3, <3>4, FrameKeeps
    <3> QED
      BY <2>2, <3>2, <3>5
  <2> QED
    BY <2>1, <2>2
<1>6. FramesKnown(h, blk2, new)
  <2>1. \A k \in 1 .. n : Len(new[k].node) = k - 1
    BY <1>5 DEF FramesKnown
  <2>2. \A k \in 1 .. n - 1 : k \in 1 .. n /\ k + 1 \in 1 .. n
    BY <1>1
  <2>3. \A k \in 1 .. n - 1 : new[k + 1].node \in Below(h, new[k].node)
    BY <1>5, <2>2 DEF FramesKnown
  <2>4. \A k \in 1 .. n : FrameKnown(h, blk2, new[k])
    BY <1>5
  <2> QED
    BY <1>1, <1>2, <2>1, <2>3, <2>4 DEF FramesKnown
<1>7. Counted(h, new, TRUE)
  <2>1. ASSUME NEW k \in 1 .. n
        PROVE  new[k].next + Cardinality(new[k].todo) + 1 = Count(h, new[k].node)
    <3>1. calls[k].next + Cardinality(calls[k].todo) + (IF k < n THEN 1 ELSE 0) = Count(h, calls[k].node)
      BY DEF Counted
    <3>2. calls[k].next \in Nat
      <4>1. calls[k] \in FrameRec
        BY <1>1
      <4> QED
        BY <4>1 DEF FrameRec
    <3>3. CASE k = n
      <4>1. Cardinality(calls[k].todo) \in Nat
        BY <1>4, <3>3, FS_CardinalityType
      <4>2. calls[k].next + Cardinality(calls[k].todo) + 0 = Count(h, calls[k].node)
        BY <1>1, <3>1, <3>3
      <4>3. /\ new[k].next = calls[k].next /\ new[k].node = calls[k].node
            /\ Cardinality(new[k].todo) = Cardinality(calls[k].todo) - 1
        <5>1. new[k].todo = calls[k].todo \ {p}
          BY <1>5, <3>3
        <5> QED
          BY <1>4, <1>5, <3>3, <5>1
      <4> QED
        BY <3>2, <4>1, <4>2, <4>3
    <3>4. CASE k # n
      <4>1. k < n
        BY <1>1, <3>4
      <4>2. new[k].next = calls[k].next /\ new[k].node = calls[k].node /\ new[k].todo = calls[k].todo
        BY <1>5, <3>4
      <4>3. calls[k].next + Cardinality(calls[k].todo) + 1 = Count(h, calls[k].node)
        BY <3>1, <4>1
      <4> QED
        BY <4>2, <4>3
    <3> QED
      BY <3>3, <3>4
  <2> QED
    BY <1>2, <2>1 DEF Counted
<1> QED
  BY <1>6, <1>7 DEF new, blk2
\* The innermost of the calls calls itself for a directory below it.
LEMMA AppendedKnown ==
  ASSUME NEW h, IsTree(h), NEW blk, NEW calls, FramesKnown(h, blk, calls), Counted(h, calls, TRUE),
         NEW g \in FrameRec, FrameKnown(h, blk, g), g.node \in Below(h, calls[Len(calls)].node),
         g.next = 2, g.todo = Below(h, g.node)
  PROVE  FramesKnown(h, blk, Append(calls, g)) /\ Counted(h, Append(calls, g), FALSE)
<1> DEFINE n == Len(calls)
           new == Append(calls, g)
<1>1. n \in Nat /\ n >= 1 /\ n \in 1 .. n /\ calls \in Seq(FrameRec)
  BY LenProperties DEF FramesKnown
<1>2. new \in Seq(FrameRec) /\ Len(new) = n + 1 /\ new[n + 1] = g /\ \A k \in 1 .. n : new[k] = calls[k]
  BY <1>1, AppendProperties
<1> HIDE DEF new
<1>3. Len(g.node) = n
  <2>1. g.node \in DOMAIN h /\ Len(calls[n].node) = n - 1
    BY <1>1 DEF FramesKnown, FrameKnown
  <2> QED
    BY <1>1, <2>1, NodesBelow
<1>4. \A k \in 1 .. n + 1 : FrameKnown(h, blk, new[k]) /\ Len(new[k].node) = k - 1
  <2>1. \A k \in 1 .. n + 1 : k \in 1 .. n \/ k = n + 1
    BY <1>1
  <2>2. \A k \in 1 .. n : FrameKnown(h, blk, new[k]) /\ Len(new[k].node) = k - 1
    BY <1>2 DEF FramesKnown
  <2>3. FrameKnown(h, blk, new[n + 1]) /\ Len(new[n + 1].node) = (n + 1) - 1
    BY <1>1, <1>2, <1>3
  <2> QED
    BY <2>1, <2>2, <2>3
<1>5. \A k \in 1 .. (n + 1) - 1 : new[k + 1].node \in Below(h, new[k].node)
  <2>1. \A k \in 1 .. (n + 1) - 1 : k \in 1 .. n /\ (k = n \/ (k \in 1 .. n - 1 /\ k + 1 \in 1 .. n))
    BY <1>1
  <2>2. \A k \in 1 .. n - 1 : calls[k + 1].node \in Below(h, calls[k].node)
    BY DEF FramesKnown
  <2> QED
    BY <1>2, <2>1, <2>2
<1>6. FramesKnown(h, blk, new)
  BY <1>1, <1>2, <1>4, <1>5 DEF FramesKnown
<1>7. ASSUME NEW k \in 1 .. n + 1
      PROVE  new[k].next + Cardinality(new[k].todo) + (IF k < n + 1 \/ FALSE THEN 1 ELSE 0)
               = Count(h, new[k].node)
  <2>1. CASE k \in 1 .. n
    <3>1. new[k] = calls[k] /\ k < n + 1
      BY <1>1, <1>2, <2>1
    <3>2. calls[k].next + Cardinality(calls[k].todo) + 1 = Count(h, calls[k].node)
      BY <2>1 DEF Counted
    <3> QED
      BY <3>1, <3>2
  <2>2. CASE k = n + 1
    <3>1. new[k] = g /\ ~(k < n + 1)
      BY <1>1, <1>2, <2>2
    <3>2. g.node \in DOMAIN h /\ h[g.node].dir
      BY DEF FrameKnown
    <3>3. Count(h, g.node) = Cardinality(g.todo) + 2 /\ Cardinality(g.todo) \in Nat
      BY <3>2, TreeFacts, FS_CardinalityType
    <3> QED
      BY <3>1, <3>3
  <2> QED
    BY <1>1, <2>1, <2>2
<1>8. Counted(h, new, FALSE)
  BY <1>2, <1>7 DEF Counted
<1> QED
  BY <1>6, <1>8 DEF new

\* The call that begins.
LEMMA BegunKnown ==
  ASSUME NEW h, IsTree(h), NEW blk, NEW taken, BlocksKnown(h, blk, taken),
         NEW calls, FramesKnown(h, blk, calls), NEW p \in calls[Len(calls)].todo, h[p].dir, NEW b,
         NEW parent, NEW ind, NEW left, NEW g, NewCall(h, g, p, b, parent, ind, left)
  PROVE  FrameKnown(h, Extended(blk, <<p, -1>>, b), g)
<1> DEFINE new == Extended(blk, <<p, -1>>, b)
<1>1. DOMAIN new = DOMAIN blk \union {<<p, -1>>} /\ new[<<p, -1>>] = b
  BY DEF Extended
<1>2. p \in DOMAIN h /\ <<p, -2>> \notin DOMAIN blk /\ \A q \in Below(h, p) : <<q, -1>> \notin DOMAIN blk
  BY FreshNode
<1> HIDE DEF new
<1>3. \A q \in Below(h, p) : <<q, -1>> # <<p, -1>>
  <2>1. \A q \in Below(h, p) : Len(q) = Len(p) + 1 /\ Len(p) \in Nat
    BY <1>2, NodesBelow, TreeFacts DEF Below
  <2> QED
    BY <2>1
<1>4. FrameKnown(h, new, g)
  BY <1>1, <1>2, <1>3 DEF FrameKnown, NewCall
<1> QED
  BY <1>4 DEF new

\* The innermost call, in every state of walk.
LEMMA BaseTop ==
  ASSUME NEW blk, Base(host, blk, used, freenum, frames, file)
  PROVE  /\ IsTree(host) /\ BlocksKnown(host, blk, used) /\ FramesKnown(host, blk, frames)
         /\ Counted(host, frames, file # NoFile) /\ freenum = BlockNum - Cardinality(used)
         /\ Len(frames) \in Nat /\ Len(frames) >= 1 /\ frames \in Seq(FrameRec) /\ Top \in FrameRec
         /\ FrameKnown(host, blk, Top) /\ used \subseteq Block
         /\ Top.next \in Nat /\ Top.num \in Nat /\ Top.inode \in InodeRec
         /\ Top.left.file \in Nat /\ Top.left.dir \in Nat
<1>1. /\ IsTree(host) /\ BlocksKnown(host, blk, used) /\ FramesKnown(host, blk, frames)
      /\ Counted(host, frames, file # NoFile) /\ freenum = BlockNum - Cardinality(used)
  BY DEF Base
<1>2. Len(frames) \in Nat /\ Len(frames) >= 1 /\ frames \in Seq(FrameRec)
  BY <1>1, LenProperties DEF FramesKnown
<1>3. Top \in FrameRec /\ FrameKnown(host, blk, Top)
  BY <1>1, <1>2 DEF FramesKnown, Top
<1>4. /\ Top.next \in Nat /\ Top.num \in Nat /\ Top.inode \in InodeRec
      /\ Top.left.file \in Nat /\ Top.left.dir \in Nat
  BY <1>3 DEF FrameRec
<1> QED
  BY <1>1, <1>2, <1>3, <1>4 DEF BlocksKnown

\* Enter gives the inode of a directory a block and begins a call that is in
\* order.
LEMMA EnterBase ==
  ASSUME NEW blk, Base(host, blk, used, freenum, frames, file), words \subseteq Nat,
         NEW p \in DOMAIN host, Enter(p)
  PROVE  Base(host', Extended(blk, <<p, -1>>, First(used)), used', freenum', frames', file')
<1> DEFINE b == First(used)
           new == Extended(blk, <<p, -1>>, b)
<1>1. /\ IsTree(host) /\ BlocksKnown(host, blk, used) /\ FramesKnown(host, blk, frames)
      /\ file = NoFile /\ Counted(host, frames, FALSE) /\ freenum = BlockNum - Cardinality(used)
      /\ p \in frames[Len(frames)].todo /\ host[p].dir /\ used # Block
      /\ Takes(used \union {b}) /\ host' = host /\ file' = file
  <2>1. file = NoFile /\ p \in Top.todo
    BY DEF Enter
  <2>2. Counted(host, frames, FALSE)
    BY <2>1, BaseTop
  <2> QED
    BY <2>1, <2>2, BaseTop DEF Enter, Top
<1>2. PICK f \in words, d \in words, ind \in words \union {Top.left.dir} :
        frames' = Append(CrossedOut(frames, p), NewFrame(p, b, Top.num, ind, [file |-> f, dir |-> d]))
  BY DEF Enter, CrossedOut
<1>3. b \in Block /\ b \notin used /\ b \in Nat
  BY <1>1, BaseTop, FirstFacts
<1> HIDE DEF b
<1> DEFINE g == NewFrame(p, b, Top.num, ind, [file |-> f, dir |-> d])
<1>4. f \in Nat /\ d \in Nat /\ ind \in Nat /\ Top.num \in Nat
  BY BaseTop
<1>5. /\ g \in FrameRec /\ g.node = p /\ g.num = b /\ g.next = 2 /\ g.todo = Below(host, p)
      /\ NewCall(host, g, p, b, Top.num, ind, [file |-> f, dir |-> d])
  <2>1. [file |-> f, dir |-> d] \in [file : Nat, dir : Nat]
    BY <1>4
  <2>2. NewCall(host, g, p, b, Top.num, ind, [file |-> f, dir |-> d])
    BY <1>1, <1>3, <1>4, <2>1, NewFrameFacts
  <2> QED
    BY <2>2 DEF NewCall
<1> HIDE DEF g
<1>6. /\ p # <<>> /\ <<Front(p), -1>> \in DOMAIN blk /\ <<p, -1>> \notin DOMAIN blk
      /\ p \in Below(host, frames[Len(frames)].node)
  BY <1>1, FreshNode
<1>7. BlocksKnown(host, new, used \union {b})
  BY <1>1, <1>3, <1>6, NeedFacts, ExtendedKnown
<1>8. FramesKnown(host, new, CrossedOut(frames, p)) /\ Counted(host, CrossedOut(frames, p), TRUE)
  BY <1>1, CrossedKnown
<1>9. FrameKnown(host, new, g)
  BY <1>1, <1>5, BegunKnown
<1> HIDE DEF new
<1>10. FramesKnown(host, new, frames') /\ Counted(host, frames', FALSE)
  <2>1. /\ Len(CrossedOut(frames, p)) = Len(frames)
        /\ SameCall(CrossedOut(frames, p)[Len(frames)], frames[Len(frames)])
    BY BaseTop, CrossOut
  <2>2. CrossedOut(frames, p)[Len(CrossedOut(frames, p))].node = frames[Len(frames)].node
    BY <2>1 DEF SameCall
  <2>3. g.node \in Below(host, CrossedOut(frames, p)[Len(CrossedOut(frames, p))].node)
    BY <1>5, <1>6, <2>2
  <2>4. /\ FramesKnown(host, new, Append(CrossedOut(frames, p), g))
        /\ Counted(host, Append(CrossedOut(frames, p), g), FALSE)
    BY <1>1, <1>5, <1>8, <1>9, <2>3, AppendedKnown
  <2> QED
    BY <1>2, <2>4 DEF g
<1>11. used' = used \union {b} /\ freenum' = BlockNum - Cardinality(used')
  <2>1. used' = used \union {b} /\ freenum' = freenum - Cardinality(used' \ used)
    BY <1>1 DEF Takes
  <2>2. used \subseteq used' /\ used' \subseteq Block
    BY <1>3, <2>1, BaseTop
  <2> QED
    BY <1>1, <2>1, <2>2, TakesFacts
<1>12. BlocksKnown(host, new, used')
  BY <1>7, <1>11 DEF new
<1>13. Base(host, new, used', freenum', frames', NoFile)
  BY <1>1, <1>10, <1>11, <1>12 DEF Base
<1> QED
  BY <1>1, <1>13 DEF new, b

\* Open gives the inode of a file a block and begins a file of which nothing is
\* copied.
LEMMA OpenBase ==
  ASSUME NEW blk, Base(host, blk, used, freenum, frames, file), words \subseteq Nat,
         NEW p \in DOMAIN host, Open(p)
  PROVE  Base(host', Extended(blk, <<p, -1>>, First(used)), used', freenum', frames', file')
<1> DEFINE b == First(used)
           new == Extended(blk, <<p, -1>>, b)
<1>1. /\ IsTree(host) /\ BlocksKnown(host, blk, used) /\ FramesKnown(host, blk, frames)
      /\ file = NoFile /\ Counted(host, frames, FALSE) /\ freenum = BlockNum - Cardinality(used)
      /\ p \in frames[Len(frames)].todo /\ ~host[p].dir /\ used # Block
      /\ Takes(used \union {b}) /\ host' = host
  <2>1. file = NoFile /\ p \in Top.todo
    BY DEF Open
  <2>2. Counted(host, frames, FALSE)
    BY <2>1, BaseTop
  <2> QED
    BY <2>1, <2>2, BaseTop DEF Open, Top
<1>2. frames' = CrossedOut(frames, p)
  BY DEF Open, CrossedOut
<1>3. b \in Block /\ b \notin used /\ b \in Nat
  BY <1>1, BaseTop, FirstFacts
<1>4. PICK ind \in words \union {Top.left.file} :
        file' = [node |-> p, num |-> b, rest |-> host[p].size, index |-> 0,
                 inode |-> [NewInode(p, ind) EXCEPT !.blocks = Blocks(host[p].size)]]
  BY DEF Open
<1> HIDE DEF b
<1> DEFINE ino == [NewInode(p, ind) EXCEPT !.blocks = Blocks(host[p].size)]
<1>5. ino \in InodeRec
  <2>1. ind \in Nat
    BY BaseTop
  <2>2. Blocks(host[p].size) \in Nat
    <3>1. host[p].size \in Nat /\ host[p].size < Word /\ Word \in Nat /\ BlockSize \in Nat /\ BlockSize > 0
      BY <1>1, TreeFacts, Sizes
    <3>2. (host[p].size - 1) % Word \in Nat
      BY <3>1
    <3>3. ((host[p].size - 1) % Word) \div BlockSize \in Nat
      BY <3>1, <3>2
    <3> QED
      BY <3>3 DEF Blocks
  <2>3. <<>> \in Seq(Nat)
    BY EmptySeq
  <2> QED
    BY <1>1, <2>1, <2>2, <2>3, NewInodeFacts
<1>6. /\ p # <<>> /\ <<Front(p), -1>> \in DOMAIN blk /\ \A i : <<p, i>> \notin DOMAIN blk
      /\ p \in Below(host, frames[Len(frames)].node)
  BY <1>1, FreshNode
<1> HIDE DEF ino
<1>7. /\ file'.node = p /\ file'.num = b /\ file'.rest = host[p].size /\ file'.index = 0
      /\ file'.inode = ino
  BY <1>4 DEF ino
<1>8. file' # NoFile
  BY <1>6, <1>7 DEF NoFile
<1>9. FileKnown(host, new, file')
  <2>1. file' = [node |-> p, num |-> b, rest |-> host[p].size, index |-> 0, inode |-> ino]
    BY <1>4 DEF ino
  <2>2. p \in Seq(STRING) /\ host[p].size \in Nat /\ Count(host, p) \in Nat
    BY <1>1, TreeFacts
  <2>3. file' \in FileRec
    BY <1>3, <1>5, <2>1, <2>2 DEF FileRec
  <2>4. DOMAIN new = DOMAIN blk \union {<<p, -1>>} /\ new[<<p, -1>>] = b
    BY DEF Extended
  <2> HIDE DEF new
  <2>5. \A i : i # -1 => <<p, i>> \notin DOMAIN new
    BY <1>6, <2>4
  <2>6. host[p].size = IF 0 < Count(host, p) THEN host[p].size - 0 * BlockSize ELSE 0
    <3>1. 0 \in Nat /\ BlockSize \in Nat /\ 0 * BlockSize = 0
      BY Sizes
    <3>2. 0 < Count(host, p) <=> 0 * BlockSize < host[p].size
      BY <1>1, <3>1, FileCount
    <3> QED
      BY <2>2, <3>1, <3>2
  <2>7. \A i \in Nat : i # -1
    OBVIOUS
  <2> QED
    BY <1>1, <1>7, <2>2, <2>3, <2>4, <2>5, <2>6, <2>7 DEF FileKnown
<1>10. BlocksKnown(host, new, used \union {b})
  BY <1>1, <1>3, <1>6, NeedFacts, ExtendedKnown
<1>11. FramesKnown(host, new, frames') /\ Counted(host, frames', TRUE)
  BY <1>1, <1>2, CrossedKnown
<1>12. file'.node \in Below(host, frames'[Len(frames')].node)
  <2>1. /\ Len(frames') = Len(frames) /\ SameCall(frames'[Len(frames)], frames[Len(frames)])
    BY <1>2, BaseTop, CrossOut
  <2> QED
    BY <1>6, <1>7, <2>1 DEF SameCall
<1> HIDE DEF new
<1>13. used' = used \union {b} /\ freenum' = BlockNum - Cardinality(used')
  <2>1. used' = used \union {b} /\ freenum' = freenum - Cardinality(used' \ used)
    BY <1>1 DEF Takes
  <2>2. used \subseteq used' /\ used' \subseteq Block
    BY <1>3, <2>1, BaseTop
  <2> QED
    BY <1>1, <2>1, <2>2, TakesFacts
<1>14. BlocksKnown(host, new, used')
  BY <1>10, <1>13
<1>15. Base(host, new, used', freenum', frames', file')
  BY <1>1, <1>8, <1>9, <1>11, <1>12, <1>13, <1>14 DEF Base
<1> QED
  BY <1>1, <1>15 DEF new, b

\* The calls of walk do not look at the blocks of a file.
LEMMA FileBlocks ==
  ASSUME NEW h, NEW blk, NEW calls, FramesKnown(h, blk, calls), NEW p, p \in DOMAIN h, ~h[p].dir,
         NEW blk2, Grows(blk, blk2), \A x \in DOMAIN blk2 : x \in DOMAIN blk \/ (x[1] = p /\ x[2] # -1)
  PROVE  FramesKnown(h, blk2, calls)
<1>1. ASSUME NEW k \in 1 .. Len(calls)
      PROVE  /\ \A q \in calls[k].todo : <<q, -1>> \notin DOMAIN blk2
             /\ <<calls[k].node, -2>> \in DOMAIN blk2 => <<calls[k].node, -2>> \in DOMAIN blk
  <2>1. /\ \A q \in calls[k].todo : <<q, -1>> \notin DOMAIN blk
        /\ h[calls[k].node].dir
    BY DEF FramesKnown, FrameKnown
  <2> QED
    BY <2>1
<1> QED
  BY <1>1, FramesKeep

\* The file f, one piece later.
NextPart(f, g, ino, size) == g = [f EXCEPT !.inode = ino, !.rest = @ - size, !.index = @ + 1]

\* The file behind a round of the loop.
LEMMA NextPartFacts ==
  ASSUME NEW f \in FileRec, NEW ino \in InodeRec, NEW size \in Nat, f.rest - size \in Nat,
         NEW g, NextPart(f, g, ino, size)
  PROVE  /\ g.node = f.node /\ g.num = f.num /\ g.rest = f.rest - size /\ g.index = f.index + 1
         /\ g.inode = ino /\ g \in FileRec
<1>1. f = [node |-> f.node, num |-> f.num, rest |-> f.rest, index |-> f.index, inode |-> f.inode]
  BY DEF FileRec
<1>2. /\ f.node \in Seq(STRING) /\ f.num \in Nat /\ f.rest \in Nat /\ f.index \in Nat /\ f.index + 1 \in Nat
  BY DEF FileRec
<1>3. g = [node |-> f.node, num |-> f.num, rest |-> f.rest - size, index |-> f.index + 1, inode |-> ino]
  BY <1>1 DEF NextPart
<1>4. g \in FileRec
  BY <1>2, <1>3 DEF FileRec
<1> QED
  BY <1>3, <1>4

\* What is left of a file when another block of it has been copied.
LEMMA RestAfter ==
  ASSUME NEW s \in Nat, NEW c \in Nat, NEW size \in Nat, size > 0, NEW more \in BOOLEAN, more <=> c + size < s,
         NEW rest, rest = s - c, rest > 0
  PROVE  rest - (IF rest > size THEN size ELSE rest) = IF more THEN s - (c + size) ELSE 0
OBVIOUS

CopyBlk(blk) ==
  LET b == First(used)
  IN  WithIndirect(Extended(blk, <<file.node, file.index>>, b), file.node, file.inode, file.index,
                   used \union {b})

\* CopyBlock gives the next part of the file a block, and at times an indirect
\* block to the file.
LEMMA CopyBase ==
  ASSUME NEW blk, Base(host, blk, used, freenum, frames, file), CopyBlock
  PROVE  Base(host', CopyBlk(blk), used', freenum', frames', file')
<1> DEFINE b == First(used)
           p == file.node
           n == file.index
           new == Extended(blk, <<p, n>>, b)
           size == IF file.rest > BlockSize THEN BlockSize ELSE file.rest
           data == [kind |-> "data", of |-> file.node, part |-> file.index, bytes |-> size]
           img == [image EXCEPT ![b] = data]
           a == Attach(file.inode, file.index, b, used \union {b}, img)
<1>1. /\ IsTree(host) /\ BlocksKnown(host, blk, used) /\ FramesKnown(host, blk, frames)
      /\ file # NoFile /\ Counted(host, frames, TRUE) /\ freenum = BlockNum - Cardinality(used)
      /\ FileKnown(host, blk, file) /\ p \in Below(host, frames[Len(frames)].node)
  <2>1. file # NoFile
    BY DEF CopyBlock
  <2>2. Counted(host, frames, TRUE)
    BY <2>1, BaseTop
  <2> QED
    BY <2>1, <2>2, BaseTop DEF Base
<1>2. /\ file.rest > 0 /\ used # Block /\ Room(used \union {b}, file.inode, file.index) /\ Takes(a.used)
      /\ file' = [file EXCEPT !.inode = a.inode, !.rest = @ - size, !.index = @ + 1]
      /\ host' = host /\ frames' = frames
  BY DEF CopyBlock
<1>3. b \in Block /\ b \notin used /\ b \in Nat
  BY <1>2, BaseTop, FirstFacts
<1>4. Attached(a, file.inode, n, b, used \union {b}, img)
  BY <1>2 DEF Attached
<1> HIDE DEF b, a, img
<1>5. /\ p \in DOMAIN host /\ ~host[p].dir /\ <<p, -1>> \in DOMAIN blk /\ file \in FileRec
      /\ n \in Nat /\ file.inode \in InodeRec /\ p \in Seq(STRING) /\ file.num \in Nat /\ file.rest \in Nat
  BY <1>1 DEF FileKnown, FileRec
<1>6. Count(host, p) \in Nat /\ n < Count(host, p) /\ file.rest = host[p].size - n * BlockSize
  <2>1. file.rest = IF n < Count(host, p) THEN host[p].size - n * BlockSize ELSE 0
    BY <1>1 DEF FileKnown
  <2>2. Count(host, p) \in Nat
    BY <1>1, <1>5, TreeFacts
  <2> QED
    BY <1>2, <1>5, <2>1, <2>2
<1>7. <<p, n>> \notin DOMAIN blk /\ <<p, n>> \in Needs(host)
  <2>1. <<p, n>> \notin DOMAIN blk
    BY <1>1, <1>5 DEF FileKnown
  <2>2. n \in 0 .. Count(host, p) - 1
    BY <1>5, <1>6
  <2> QED
    BY <1>1, <1>5, <2>1, <2>2, NeedFacts
<1>8. BlocksKnown(host, new, used \union {b})
  <2>1. p # <<>> => <<Front(p), -1>> \in DOMAIN blk
    BY <1>1, <1>5 DEF BlocksKnown
  <2> QED
    BY <1>1, <1>3, <1>5, <1>7, <2>1, ExtendedKnown
<1>9. DOMAIN new = DOMAIN blk \union {<<p, n>>} /\ Grows(blk, new)
  BY <1>7, ExtendedFacts
<1> HIDE DEF new
<1>10. <<p, -2>> \in DOMAIN new => file.inode.indirect # 0
  BY <1>1, <1>5, <1>9 DEF FileKnown
<1> DEFINE new2 == WithIndirect(new, p, file.inode, n, used \union {b})
<1>11. /\ BlocksKnown(host, new2, a.used) /\ Grows(new, new2)
       /\ DOMAIN new2 \subseteq DOMAIN new \union {<<p, -2>>}
       /\ <<p, -2>> \in DOMAIN new2 => a.inode.indirect # 0
  <2>1. <<p, -1>> \in DOMAIN new
    BY <1>5, <1>9
  <2>2. AttachBlocks(host, new, p, file.inode, n, used \union {b}, a)
    BY <1>1, <1>3, <1>4, <1>5, <1>6, <1>8, <1>10, <2>1, AttachKnown
  <2> QED
    BY <2>2 DEF AttachBlocks
<1>12. a.inode \in InodeRec /\ used \union {b} \subseteq a.used /\ a.used \subseteq Block
  <2>1. used \union {b} \subseteq Block
    BY <1>3, BaseTop
  <2>2. AttachEffect(a, file.inode, n, b, used \union {b}, img)
    BY <1>3, <1>4, <1>5, <2>1, AttachFacts
  <2> QED
    BY <2>2 DEF AttachEffect
<1> HIDE DEF new2
<1>13. Grows(blk, new2) /\ \A x \in DOMAIN new2 : x \in DOMAIN blk \/ (x[1] = p /\ x[2] # -1)
  <2>1. Grows(blk, new2)
    BY <1>9, <1>11, GrowsOn
  <2> QED
    BY <1>5, <1>9, <1>11, <2>1
<1>14. FramesKnown(host, new2, frames)
  BY <1>1, <1>5, <1>13, FileBlocks
<1>15. /\ file'.node = p /\ file'.num = file.num /\ file'.rest = file.rest - size /\ file'.index = n + 1
       /\ file'.inode = a.inode /\ file' \in FileRec /\ file' # NoFile
  <2>1. size \in Nat /\ file.rest - size \in Nat
    BY <1>5, Sizes
  <2> HIDE DEF size
  <2>2. /\ file'.node = p /\ file'.num = file.num /\ file'.rest = file.rest - size /\ file'.index = n + 1
        /\ file'.inode = a.inode /\ file' \in FileRec
    <3>1. NextPart(file, file', a.inode, size)
      BY <1>2 DEF NextPart
    <3> QED
      BY <1>5, <1>12, <2>1, <3>1, NextPartFacts
  <2>3. p # <<>>
    BY <1>1 DEF Below
  <2> QED
    BY <2>2, <2>3 DEF NoFile
<1>16. file.rest - size = IF n + 1 < Count(host, p) THEN host[p].size - (n + 1) * BlockSize ELSE 0
  <2>1. n + 1 \in Nat /\ BlockSize \in Nat /\ host[p].size \in Nat /\ n * BlockSize \in Nat
    <3>1. n + 1 \in Nat /\ BlockSize \in Nat /\ host[p].size \in Nat
      BY <1>1, <1>5, TreeFacts, Sizes
    <3>2. n * BlockSize \in Nat
      BY ONLY <1>5, <3>1
    <3> QED
      BY <3>1, <3>2
  <2>2. (n + 1) * BlockSize = n * BlockSize + BlockSize
    BY ONLY <1>5, <2>1
  <2>3. n + 1 < Count(host, p) <=> (n + 1) * BlockSize < host[p].size
    BY <1>1, <1>5, <2>1, FileCount
  <2> DEFINE c == n * BlockSize
             c2 == (n + 1) * BlockSize
             s == host[p].size
             more == n + 1 < Count(host, p)
  <2>4. s \in Nat /\ c \in Nat /\ c2 = c + BlockSize /\ BlockSize > 0 /\ more \in BOOLEAN
    BY <2>1, <2>2, Sizes
  <2>5. (more <=> c + BlockSize < s) /\ file.rest = s - c /\ file.rest > 0
    BY <1>2, <1>6, <2>2, <2>3
  <2> HIDE DEF c, c2, s, more
  <2>6. file.rest - (IF file.rest > BlockSize THEN BlockSize ELSE file.rest)
          = IF more THEN s - (c + BlockSize) ELSE 0
    BY <2>1, <2>4, <2>5, RestAfter
  <2>7. file.rest - size = IF more THEN s - c2 ELSE 0
    BY <2>4, <2>6
  <2> QED
    BY <2>7 DEF c2, s, more
<1> HIDE DEF size
<1>17. FileKnown(host, new2, file')
  <2>1. <<p, -1>> \in DOMAIN new2 /\ file.num = new2[<<p, -1>>]
    BY <1>1, <1>13 DEF FileKnown, Grows
  <2>2. \A i \in Nat : <<p, i>> \in DOMAIN new2 => i < n + 1
    <3> SUFFICES ASSUME NEW i \in Nat, <<p, i>> \in DOMAIN new2 PROVE i < n + 1
      OBVIOUS
    <3>1. <<p, i>> \in DOMAIN blk \/ i = n
      BY <1>5, <1>9, <1>11
    <3>2. <<p, i>> \in DOMAIN blk => i < n
      BY <1>1 DEF FileKnown
    <3> QED
      BY <1>5, <3>1, <3>2
  <2>3. n + 1 <= Count(host, p)
    BY <1>5, <1>6
  <2> QED
    BY <1>5, <1>11, <1>15, <1>16, <2>1, <2>2, <2>3 DEF FileKnown
<1>18. used' = a.used /\ freenum' = BlockNum - Cardinality(used')
  <2>1. used' = a.used /\ freenum' = freenum - Cardinality(used' \ used)
    BY <1>2 DEF Takes
  <2>2. used \subseteq used' /\ used' \subseteq Block
    BY <1>12, <2>1
  <2> QED
    BY <1>1, <2>1, <2>2, TakesFacts
<1>19. Base(host, new2, used', freenum', frames, file')
  BY <1>1, <1>11, <1>14, <1>15, <1>17, <1>18 DEF Base
<1> QED
  BY <1>2, <1>19 DEF new2, new, b, CopyBlk

\* The call f of walk has got an entry, and goes on as g.
WentOn(f, g, ino) ==
  /\ g \in FrameRec /\ g.node = f.node /\ g.num = f.num /\ g.todo = f.todo
  /\ g.inode = ino /\ g.next = f.next + 1
AfterFile(f, g, ino, x) == g = [f EXCEPT !.inode = ino, !.next = @ + 1, !.left.file = x]
AfterDir(f, g, ino, x) == g = [f EXCEPT !.inode = ino, !.next = @ + 1, !.left.dir = x]

\* The call that has attached an entry differs in its inode and its count.
LEMMA WentOnFacts ==
  ASSUME NEW f \in FrameRec, NEW ino \in InodeRec, NEW x \in Nat, NEW g
  PROVE  /\ AfterFile(f, g, ino, x) => WentOn(f, g, ino) /\ g.left.file = x /\ g.left.dir = f.left.dir
         /\ AfterDir(f, g, ino, x) => WentOn(f, g, ino) /\ g.left.dir = x /\ g.left.file = f.left.file
<1>1. /\ f = [node |-> f.node, num |-> f.num, inode |-> f.inode, next |-> f.next, todo |-> f.todo, left |-> f.left]
      /\ f.left = [file |-> f.left.file, dir |-> f.left.dir]
  BY DEF FrameRec
<1>2. /\ f.node \in Seq(STRING) /\ f.num \in Nat /\ f.next \in Nat /\ f.next + 1 \in Nat
      /\ f.todo \in SUBSET Seq(STRING) /\ f.left.file \in Nat /\ f.left.dir \in Nat
  BY DEF FrameRec
<1>3. ASSUME AfterFile(f, g, ino, x)
      PROVE  WentOn(f, g, ino) /\ g.left.file = x /\ g.left.dir = f.left.dir
  <2>1. g = [node |-> f.node, num |-> f.num, inode |-> ino, next |-> f.next + 1, todo |-> f.todo,
             left |-> [file |-> x, dir |-> f.left.dir]]
    BY <1>1, <1>3 DEF AfterFile
  <2>2. g \in FrameRec
    BY <1>2, <2>1 DEF FrameRec
  <2> QED
    BY <2>1, <2>2 DEF WentOn
<1>4. ASSUME AfterDir(f, g, ino, x)
      PROVE  WentOn(f, g, ino) /\ g.left.dir = x /\ g.left.file = f.left.file
  <2>1. g = [node |-> f.node, num |-> f.num, inode |-> ino, next |-> f.next + 1, todo |-> f.todo,
             left |-> [file |-> f.left.file, dir |-> x]]
    BY <1>1, <1>4 DEF AfterDir
  <2>2. g \in FrameRec
    BY <1>2, <2>1 DEF FrameRec
  <2> QED
    BY <2>1, <2>2 DEF WentOn
<1> QED
  BY <1>3, <1>4

\* The innermost of the calls has attached a block to its directory.
EntryBlocks(h, blk, calls, taken, a, g) ==
  LET top == calls[Len(calls)]
  IN  /\ AttachBlocks(h, blk, top.node, top.inode, top.next, taken, a)
      /\ a.inode \in InodeRec /\ taken \subseteq a.used /\ a.used \subseteq Block
      /\ FramesKnown(h, WithIndirect(blk, top.node, top.inode, top.next, taken), [calls EXCEPT ![Len(calls)] = g])
      /\ Counted(h, [calls EXCEPT ![Len(calls)] = g], FALSE)

\* A directory that has attached an entry stays in order (CloseFile and Leave).
LEMMA EntryAttached ==
  ASSUME NEW h, IsTree(h), NEW blk, NEW taken, BlocksKnown(h, blk, taken),
         NEW calls, FramesKnown(h, blk, calls), Counted(h, calls, TRUE),
         NEW b \in Nat, NEW img, NEW a,
         Attached(a, calls[Len(calls)].inode, calls[Len(calls)].next, b, taken, img),
         NEW g, WentOn(calls[Len(calls)], g, a.inode)
  PROVE  EntryBlocks(h, blk, calls, taken, a, g)
<1> DEFINE n == Len(calls)
           top == calls[n]
           blk2 == WithIndirect(blk, top.node, top.inode, top.next, taken)
           new == [calls EXCEPT ![n] = g]
<1>1. n \in Nat /\ n >= 1 /\ n \in 1 .. n /\ calls \in Seq(FrameRec) /\ top \in FrameRec
  BY LenProperties DEF FramesKnown
<1>2. FrameKnown(h, blk, top) /\ taken \subseteq Block
  BY <1>1 DEF FramesKnown, BlocksKnown
<1>3. top.inode \in InodeRec /\ top.next \in Nat
  BY <1>1 DEF FrameRec
<1>4. Cardinality(top.todo) \in Nat /\ top.next < Count(h, top.node) /\ top.node \in DOMAIN h
  <2>1. top.next + Cardinality(top.todo) + 1 = Count(h, top.node)
    BY <1>1 DEF Counted
  <2>2. top.todo \subseteq DOMAIN h
    BY <1>2 DEF FrameKnown, Below
  <2>3. Cardinality(top.todo) \in Nat
    BY <2>2, TreeFacts, FS_Subset, FS_CardinalityType
  <2> QED
    BY <1>2, <1>3, <2>1, <2>3 DEF FrameKnown
<1>5. AttachBlocks(h, blk, top.node, top.inode, top.next, taken, a)
  <2>1. <<top.node, -1>> \in DOMAIN blk /\ (<<top.node, -2>> \in DOMAIN blk => top.inode.indirect # 0)
    BY <1>2 DEF FrameKnown
  <2> QED
    BY <1>3, <1>4, <2>1, AttachKnown
<1>6. a.inode \in InodeRec /\ taken \subseteq a.used /\ a.used \subseteq Block
  <2>1. AttachEffect(a, top.inode, top.next, b, taken, img)
    BY <1>2, <1>3, AttachFacts
  <2> QED
    BY <2>1 DEF AttachEffect
<1>7. /\ Grows(blk, blk2) /\ DOMAIN blk2 \subseteq DOMAIN blk \union {<<top.node, -2>>}
      /\ <<top.node, -2>> \in DOMAIN blk2 => a.inode.indirect # 0
  BY <1>5 DEF AttachBlocks
<1>8. /\ g \in FrameRec /\ g.node = top.node /\ g.num = top.num /\ g.todo = top.todo
      /\ g.inode = a.inode /\ g.next = top.next + 1
  BY DEF WentOn
<1>9. new \in Seq(FrameRec) /\ Len(new) = n /\ new[n] = g /\ \A k \in 1 .. n : k # n => new[k] = calls[k]
  BY <1>1, <1>8, GoOn
<1> HIDE DEF blk2, new
<1>10. FrameKnown(h, blk2, g)
  BY <1>2, <1>3, <1>7, <1>8 DEF FrameKnown, Grows
<1>11. ASSUME NEW k \in 1 .. n - 1 PROVE FrameKnown(h, blk2, new[k]) /\ new[k] = calls[k] /\ k \in 1 .. n
  <2>1. k \in 1 .. n /\ k # n
    BY <1>1
  <2>2. new[k] = calls[k] /\ FrameKnown(h, blk, calls[k])
    BY <1>9, <2>1 DEF FramesKnown
  <2>3. calls[k].node # top.node
    <3>1. Len(calls[k].node) = k - 1 /\ Len(top.node) = n - 1
      BY <1>1, <2>1 DEF FramesKnown
    <3> QED
      BY <1>1, <3>1
  <2>4. <<calls[k].node, -2>> \in DOMAIN blk2 => <<calls[k].node, -2>> \in DOMAIN blk
    BY <1>7, <2>3
  <2>5. \A q \in calls[k].todo : <<q, -1>> \notin DOMAIN blk2
    <3>1. \A q \in calls[k].todo : <<q, -1>> \notin DOMAIN blk
      BY <2>2 DEF FrameKnown
    <3> SUFFICES ASSUME NEW q \in calls[k].todo, <<q, -1>> \in DOMAIN blk2 PROVE FALSE
      OBVIOUS
    <3>2. <<q, -1>> # <<top.node, -2>>
      OBVIOUS
    <3> QED
      BY <1>7, <3>1, <3>2
  <2> QED
    BY <1>7, <2>1, <2>2, <2>4, <2>5, FrameKeeps
<1>12. FramesKnown(h, blk2, new)
  <2>1. \A k \in 1 .. n : k = n \/ k \in 1 .. n - 1
    BY <1>1
  <2>2. \A k \in 1 .. n : FrameKnown(h, blk2, new[k]) /\ new[k].node = calls[k].node
    BY <1>8, <1>9, <1>10, <1>11, <2>1
  <2>3. \A k \in 1 .. n : Len(new[k].node) = k - 1
    BY <2>2 DEF FramesKnown
  <2>4. \A k \in 1 .. n - 1 : k \in 1 .. n /\ k + 1 \in 1 .. n
    BY <1>1
  <2>5. \A k \in 1 .. n - 1 : new[k + 1].node \in Below(h, new[k].node)
    BY <2>2, <2>4 DEF FramesKnown
  <2> QED
    BY <1>1, <1>9, <2>2, <2>3, <2>5 DEF FramesKnown
<1>13. ASSUME NEW k \in 1 .. n
       PROVE  new[k].next + Cardinality(new[k].todo) + (IF k < n \/ FALSE THEN 1 ELSE 0) = Count(h, new[k].node)
  <2>1. CASE k = n
    <3>1. top.next + Cardinality(top.todo) + 1 = Count(h, top.node)
      BY <1>1 DEF Counted
    <3>2. new[k].next = top.next + 1 /\ new[k].todo = top.todo /\ new[k].node = top.node /\ ~(k < n)
      BY <1>1, <1>8, <1>9, <2>1
    <3> QED
      BY <1>3, <1>4, <3>1, <3>2
  <2>2. CASE k # n
    <3>1. k < n /\ new[k] = calls[k]
      BY <1>1, <1>9, <2>2
    <3>2. calls[k].next + Cardinality(calls[k].todo) + 1 = Count(h, calls[k].node)
      BY DEF Counted
    <3> QED
      BY <3>1, <3>2
  <2> QED
    BY <2>1, <2>2
<1>14. Counted(h, new, FALSE)
  BY <1>9, <1>13 DEF Counted
<1> QED
  BY <1>5, <1>6, <1>12, <1>14 DEF EntryBlocks, blk2, new

CloseBlk(blk) == WithIndirect(blk, Top.node, Top.inode, Top.next, used)

\* CloseFile takes no block but an indirect one for the directory.
LEMMA CloseBase ==
  ASSUME NEW blk, Base(host, blk, used, freenum, frames, file), CloseFile
  PROVE  /\ Base(host', CloseBlk(blk), used', freenum', frames', file')
         /\ Grows(blk, CloseBlk(blk)) /\ DOMAIN CloseBlk(blk) \subseteq DOMAIN blk \union {<<Top.node, -2>>}
<1> DEFINE n == Len(frames)
           img == [image EXCEPT ![file.num] = file.inode]
           a == Attach(Top.inode, Top.next, file.num, used, img)
           g == [Top EXCEPT !.inode = a.inode, !.next = @ + 1, !.left.file = file.inode.indirect]
<1>1. /\ IsTree(host) /\ BlocksKnown(host, blk, used) /\ FramesKnown(host, blk, frames)
      /\ file # NoFile /\ Counted(host, frames, TRUE) /\ freenum = BlockNum - Cardinality(used)
      /\ FileKnown(host, blk, file)
  <2>1. file # NoFile
    BY DEF CloseFile
  <2>2. Counted(host, frames, TRUE)
    BY <2>1, BaseTop
  <2> QED
    BY <2>1, <2>2, BaseTop DEF Base
<1>2. /\ Room(used, Top.inode, Top.next) /\ Takes(a.used) /\ frames' = [frames EXCEPT ![n] = g]
      /\ host' = host /\ file' = NoFile
  BY DEF CloseFile
<1>3. Attached(a, Top.inode, Top.next, file.num, used, img)
  BY <1>2 DEF Attached
<1>4. AfterFile(Top, g, a.inode, file.inode.indirect)
  BY DEF AfterFile
<1> HIDE DEF a, img, g
<1>5. file.num \in Nat /\ file.inode.indirect \in Nat /\ Top = frames[n] /\ Top \in FrameRec
  BY <1>1, BaseTop DEF FileKnown, FileRec, InodeRec, Top
<1>6. a.inode \in InodeRec
  <2>1. AttachEffect(a, Top.inode, Top.next, file.num, used, img)
    BY <1>3, <1>5, BaseTop, AttachFacts
  <2> QED
    BY <2>1 DEF AttachEffect
<1>7. WentOn(Top, g, a.inode)
  BY <1>4, <1>5, <1>6, WentOnFacts
<1>8. EntryBlocks(host, blk, frames, used, a, g)
  BY <1>1, <1>3, <1>5, <1>7, EntryAttached
<1>9. /\ BlocksKnown(host, CloseBlk(blk), a.used) /\ FramesKnown(host, CloseBlk(blk), frames')
      /\ Counted(host, frames', FALSE) /\ Grows(blk, CloseBlk(blk)) /\ used \subseteq a.used /\ a.used \subseteq Block
      /\ DOMAIN CloseBlk(blk) \subseteq DOMAIN blk \union {<<Top.node, -2>>}
  BY <1>2, <1>5, <1>8 DEF EntryBlocks, AttachBlocks, CloseBlk
<1>10. used' = a.used /\ freenum' = BlockNum - Cardinality(used')
  <2>1. used' = a.used /\ freenum' = freenum - Cardinality(used' \ used)
    BY <1>2 DEF Takes
  <2> QED
    BY <1>1, <1>9, <2>1, TakesFacts
<1>11. BlocksKnown(host, CloseBlk(blk), used')
  BY <1>9, <1>10
<1>12. Base(host, CloseBlk(blk), used', freenum', frames', NoFile)
  BY <1>1, <1>9, <1>10, <1>11 DEF Base
<1> QED
  BY <1>2, <1>9, <1>12

Up == frames[Len(frames) - 1]
LeaveBlk(blk) == WithIndirect(blk, Up.node, Up.inode, Up.next, used)

\* Leave takes no block but an indirect one for the directory above.
LEMMA LeaveBase ==
  ASSUME NEW blk, Base(host, blk, used, freenum, frames, file), Leave
  PROVE  /\ Base(host', LeaveBlk(blk), used', freenum', frames', file')
         /\ Grows(blk, LeaveBlk(blk)) /\ DOMAIN LeaveBlk(blk) \subseteq DOMAIN blk \union {<<Up.node, -2>>}
<1> DEFINE n == Len(frames) - 1
           calls == Front(frames)
           ino == [Top.inode EXCEPT !.blocks = Top.next]
           img == [image EXCEPT ![Top.num] = ino]
           a == Attach(Up.inode, Up.next, Top.num, used, img)
           g == [Up EXCEPT !.inode = a.inode, !.next = @ + 1, !.left.dir = ino.indirect]
<1>1. /\ IsTree(host) /\ BlocksKnown(host, blk, used) /\ FramesKnown(host, blk, frames)
      /\ file = NoFile /\ Counted(host, frames, FALSE) /\ freenum = BlockNum - Cardinality(used)
      /\ Len(frames) \in Nat /\ Len(frames) > 1
  <2>1. file = NoFile /\ Len(frames) > 1
    BY DEF Leave
  <2>2. Counted(host, frames, FALSE)
    BY <2>1, BaseTop
  <2> QED
    BY <2>1, <2>2, BaseTop
<1>2. /\ Room(used, Up.inode, Up.next) /\ Takes(a.used) /\ frames' = [calls EXCEPT ![n] = g]
      /\ host' = host /\ file' = file
  BY DEF Leave, Up
<1>3. Attached(a, Up.inode, Up.next, Top.num, used, img)
  BY <1>2 DEF Attached
<1>4. AfterDir(Up, g, a.inode, ino.indirect)
  BY DEF AfterDir
<1>5. Top.num \in Nat /\ ino.indirect \in Nat
  BY BaseTop DEF InodeRec
<1> HIDE DEF a, img, g, ino
<1>6. /\ calls \in Seq(FrameRec) /\ Len(calls) = n /\ \A k \in 1 .. n : calls[k] = frames[k]
      /\ n \in Nat /\ n >= 1 /\ n \in 1 .. n /\ calls[n] = Up /\ Up \in FrameRec
  <2>1. calls \in Seq(FrameRec) /\ Len(calls) = n /\ \A k \in 1 .. n : calls[k] = frames[k]
    BY <1>1, BaseTop, FrontFrames
  <2>2. n \in Nat /\ n >= 1 /\ n \in 1 .. n
    BY <1>1
  <2>3. calls[n] = Up /\ Up \in FrameRec
    BY <2>1, <2>2 DEF Up
  <2> QED
    BY <2>1, <2>2, <2>3
<1> HIDE DEF calls
<1>7. FramesKnown(host, blk, calls)
  <2>1. \A k \in 1 .. n : k \in 1 .. Len(frames)
    BY <1>1
  <2>2. \A k \in 1 .. n - 1 : k \in 1 .. Len(frames) - 1 /\ k \in 1 .. n /\ k + 1 \in 1 .. n
    BY <1>1
  <2>3. \A k \in 1 .. n : FrameKnown(host, blk, calls[k]) /\ Len(calls[k].node) = k - 1
    BY <1>1, <1>6, <2>1 DEF FramesKnown
  <2>4. \A k \in 1 .. n - 1 : calls[k + 1].node \in Below(host, calls[k].node)
    BY <1>1, <1>6, <2>2 DEF FramesKnown
  <2> QED
    BY <1>6, <2>3, <2>4 DEF FramesKnown
<1>8. Counted(host, calls, TRUE)
  <2>1. \A k \in 1 .. n : k \in 1 .. Len(frames) /\ k < Len(frames)
    BY <1>1
  <2>2. \A k \in 1 .. n : calls[k].next + Cardinality(calls[k].todo) + 1 = Count(host, calls[k].node)
    BY <1>1, <1>6, <2>1 DEF Counted
  <2> QED
    BY <1>6, <2>2 DEF Counted
<1> HIDE DEF n
<1>9. a.inode \in InodeRec
  <2>1. Up.inode \in InodeRec /\ Up.next \in Nat
    BY <1>6 DEF FrameRec
  <2>2. AttachEffect(a, Up.inode, Up.next, Top.num, used, img)
    BY <1>3, <1>5, <2>1, BaseTop, AttachFacts
  <2> QED
    BY <2>2 DEF AttachEffect
<1>10. WentOn(Up, g, a.inode)
  BY <1>4, <1>5, <1>6, <1>9, WentOnFacts
<1>11. EntryBlocks(host, blk, calls, used, a, g)
  BY <1>1, <1>3, <1>5, <1>6, <1>7, <1>8, <1>10, EntryAttached
<1>12. /\ BlocksKnown(host, LeaveBlk(blk), a.used) /\ FramesKnown(host, LeaveBlk(blk), frames')
       /\ Counted(host, frames', FALSE) /\ Grows(blk, LeaveBlk(blk)) /\ used \subseteq a.used /\ a.used \subseteq Block
       /\ DOMAIN LeaveBlk(blk) \subseteq DOMAIN blk \union {<<Up.node, -2>>}
  BY <1>2, <1>6, <1>11 DEF EntryBlocks, AttachBlocks, LeaveBlk
<1>13. used' = a.used /\ freenum' = BlockNum - Cardinality(used')
  <2>1. used' = a.used /\ freenum' = freenum - Cardinality(used' \ used)
    BY <1>2 DEF Takes
  <2> QED
    BY <1>1, <1>12, <2>1, TakesFacts
<1>14. BlocksKnown(host, LeaveBlk(blk), used')
  BY <1>12, <1>13
<1>15. Base(host, LeaveBlk(blk), used', freenum', frames', NoFile)
  BY <1>1, <1>12, <1>13, <1>14 DEF Base
<1> QED
  BY <1>1, <1>2, <1>12, <1>15

\* Before walk begins only the root has a block.
RootBlk == [x \in {<<<<>>, -1>>} |-> RootNum]

\* At the beginning the root alone has a block.
LEMMA InitBase ==
  ASSUME Init
  PROVE  /\ Base(host, RootBlk, used, freenum, frames, file)
         /\ \E in \in Inputs : host = in.host /\ words = in.stack
         /\ words \subseteq Nat
<1>1. PICK in \in Inputs : host = in.host /\ words = in.stack
  BY DEF Init
<1>2. IsTree(host) /\ words \subseteq 0 .. Word - 1
  BY <1>1, SimpleFSAssumption
<1>3. words \subseteq Nat
  BY <1>2, Sizes
<1>4. PICK root \in words, f \in words, d \in words :
        frames = <<NewFrame(<<>>, RootNum, RootNum, root, [file |-> f, dir |-> d])>>
  BY DEF Init
<1> DEFINE g == NewFrame(<<>>, RootNum, RootNum, root, [file |-> f, dir |-> d])
<1>5. used = Reserved /\ freenum = BlockNum - Cardinality(used) /\ file = NoFile
  BY DEF Init
<1>6. NewCall(host, g, <<>>, RootNum, RootNum, root, [file |-> f, dir |-> d])
  <2>1. [file |-> f, dir |-> d] \in [file : Nat, dir : Nat] /\ root \in Nat
    BY <1>3
  <2>2. <<>> \in DOMAIN host /\ RootNum \in Nat
    BY <1>2, TreeFacts DEF RootNum
  <2> QED
    BY <1>2, <2>1, <2>2, NewFrameFacts
<1> HIDE DEF g
<1>7. /\ g \in FrameRec /\ g.node = <<>> /\ g.num = RootNum /\ g.next = 2 /\ g.todo = Below(host, <<>>)
  BY <1>6 DEF NewCall
<1>8. frames \in Seq(FrameRec) /\ Len(frames) = 1 /\ frames[1] = g
  BY <1>4, <1>7 DEF g
<1>9. <<>> \in DOMAIN host /\ host[<<>>].dir /\ <<<<>>, -1>> \in Needs(host)
  BY <1>2, TreeFacts, NeedFacts
<1>10. DOMAIN RootBlk = {<<<<>>, -1>>} /\ RootBlk[<<<<>>, -1>>] = RootNum
  BY DEF RootBlk
<1>11. BlocksKnown(host, RootBlk, used)
  BY <1>5, <1>9, <1>10, BlockFacts DEF BlocksKnown, Reserved, RootNum
<1>12. FrameKnown(host, RootBlk, g)
  <2>1. \A q \in Below(host, <<>>) : q # <<>>
    BY DEF Below
  <2> QED
    BY <1>7, <1>9, <1>10, <2>1 DEF FrameKnown
<1>13. FramesKnown(host, RootBlk, frames)
  BY <1>7, <1>8, <1>12 DEF FramesKnown
<1>14. Counted(host, frames, FALSE)
  <2>1. Count(host, <<>>) = Cardinality(Below(host, <<>>)) + 2 /\ Cardinality(Below(host, <<>>)) \in Nat
    BY <1>2, <1>9, TreeFacts, FS_CardinalityType
  <2>2. g.next + Cardinality(g.todo) + 0 = Count(host, g.node)
    BY <1>7, <2>1
  <2> QED
    BY <1>8, <2>2 DEF Counted
<1>15. Base(host, RootBlk, used, freenum, frames, file)
  BY <1>2, <1>5, <1>11, <1>13, <1>14 DEF Base
<1> QED
  BY <1>1, <1>3, <1>15
------------------------------------------------------------------------------
(* The disk is full only when the directory does not fit.                  *)

\* An indirect block that is asked for is one the tree needs.
LEMMA IndirectNeeded ==
  ASSUME NEW h, IsTree(h), NEW blk, NEW p \in DOMAIN h, NEW ino \in InodeRec, NEW n \in Nat, n < Count(h, p),
         <<p, -2>> \in DOMAIN blk => ino.indirect # 0, NeedsIndirect(ino, n)
  PROVE  <<p, -2>> \in Needs(h) /\ <<p, -2>> \notin DOMAIN blk
<1>1. n >= Direct /\ ino.indirect = 0
  BY DEF NeedsIndirect
<1>2. Count(h, p) \in Nat /\ Count(h, p) > Direct
  BY <1>1, TreeFacts, Sizes
<1> QED
  BY <1>1, <1>2, NeedFacts

\* The entry that a call of walk is about to attach.
LEMMA EntryNeeded ==
  ASSUME NEW h, IsTree(h), NEW blk, NEW calls, FramesKnown(h, blk, calls), NEW busy, Counted(h, calls, busy),
         NEW k \in 1 .. Len(calls), k < Len(calls) \/ busy
  PROVE  /\ calls[k].inode \in InodeRec /\ calls[k].next \in Nat /\ calls[k].node \in DOMAIN h
         /\ calls[k].next < Count(h, calls[k].node)
         /\ <<calls[k].node, -2>> \in DOMAIN blk => calls[k].inode.indirect # 0
<1>1. FrameKnown(h, blk, calls[k]) /\ calls[k] \in FrameRec
  BY DEF FramesKnown
<1>2. calls[k].inode \in InodeRec /\ calls[k].next \in Nat
  BY <1>1 DEF FrameRec
<1>3. calls[k].next + Cardinality(calls[k].todo) + 1 = Count(h, calls[k].node)
  BY DEF Counted
<1>4. Cardinality(calls[k].todo) \in Nat
  <2>1. calls[k].todo \subseteq DOMAIN h
    BY <1>1 DEF FrameKnown, Below
  <2> QED
    BY <2>1, TreeFacts, FS_Subset, FS_CardinalityType
<1> QED
  BY <1>1, <1>2, <1>3, <1>4 DEF FrameKnown

\* Two elements are two, if they differ.
LEMMA TwoElements ==
  ASSUME NEW x, NEW y, y # x
  PROVE  Cardinality({x} \union {y}) = 2
<1>1. IsFiniteSet({x}) /\ Cardinality({x}) = 1 /\ y \notin {x}
  BY FS_Singleton
<1> QED
  BY <1>1, FS_AddElement

\* When getFreeBlock gives up, the parts that have a block and those the step
\* asks for exceed the disk.
LEMMA FullFacts ==
  ASSUME NEW blk, Base(host, blk, used, freenum, frames, file), DiskFull
  PROVE  Cardinality(Needs(host)) - 1 > BlockNum - Cardinality(Reserved)
<1> DEFINE left == Cardinality(Block \ used)
           extra == IF NeedsIndirect(Step.inode, Step.at) THEN 1 ELSE 0
<1>1. /\ IsTree(host) /\ BlocksKnown(host, blk, used) /\ FramesKnown(host, blk, frames)
      /\ Counted(host, frames, file # NoFile)
      /\ Len(frames) \in Nat /\ Len(frames) >= 1 /\ Top = frames[Len(frames)]
  BY BaseTop DEF Top
<1>2. left < Step.blocks + extra
  BY DEF DiskFull
<1>3. left \in Nat
  BY BlockFacts, FS_Subset, FS_CardinalityType
<1> HIDE DEF left
<1>4. ASSUME NEW x \in Needs(host), x \notin DOMAIN blk, left < 1
      PROVE  Cardinality(Needs(host)) - 1 > BlockNum - Cardinality(Reserved)
  <2>1. Cardinality({x}) = 1 /\ {x} \subseteq Needs(host) /\ {x} \intersect DOMAIN blk = {}
    BY <1>4, FS_Singleton
  <2>2. Cardinality(Block \ used) < Cardinality({x})
    BY <1>4, <2>1 DEF left
  <2> QED
    BY <1>1, <2>1, <2>2, TooLarge
<1>5. CASE file # NoFile /\ file.rest > 0
  <2> DEFINE p == file.node
             n == file.index
  <2>1. Step.blocks = 1 /\ Step.inode = file.inode /\ Step.at = n
    BY <1>5 DEF Step
  <2>2. FileKnown(host, blk, file)
    BY <1>5 DEF Base
  <2>3. /\ p \in DOMAIN host /\ ~host[p].dir /\ n \in Nat /\ file.inode \in InodeRec
        /\ <<p, -2>> \in DOMAIN blk => file.inode.indirect # 0
    BY <2>2 DEF FileKnown, FileRec
  <2>4. Count(host, p) \in Nat /\ n < Count(host, p)
    <3>1. Count(host, p) \in Nat
      BY <1>1, <2>3, TreeFacts
    <3>2. n <= Count(host, p) /\ (file.rest = IF n < Count(host, p) THEN host[p].size - n * BlockSize ELSE 0)
      BY <2>2 DEF FileKnown
    <3> QED
      BY <1>5, <3>1, <3>2
  <2>5. <<p, n>> \in Needs(host) /\ <<p, n>> \notin DOMAIN blk
    <3>1. n \in 0 .. Count(host, p) - 1
      BY <2>3, <2>4
    <3>2. <<p, n>> \notin DOMAIN blk
      BY <2>2, <2>3 DEF FileKnown
    <3> QED
      BY <1>1, <2>3, <3>1, <3>2, NeedFacts
  <2>6. CASE NeedsIndirect(file.inode, n)
    <3>1. <<p, -2>> \in Needs(host) /\ <<p, -2>> \notin DOMAIN blk
      BY <1>1, <2>3, <2>4, <2>6, IndirectNeeded
    <3> DEFINE X == {<<p, n>>} \union {<<p, -2>>}
    <3>2. Cardinality(X) = 2
      <4>1. <<p, -2>> # <<p, n>>
        BY <2>3
      <4> QED
        BY <4>1, TwoElements
    <3>3. X \subseteq Needs(host) /\ X \intersect DOMAIN blk = {}
      BY <2>5, <3>1
    <3>4. left < 2
      BY <1>2, <2>1, <2>6
    <3> HIDE DEF X
    <3>5. Cardinality(Block \ used) < Cardinality(X)
      BY <3>2, <3>4 DEF left
    <3> QED
      BY <1>1, <3>3, <3>5, TooLarge
  <2>7. CASE ~NeedsIndirect(file.inode, n)
    <3>1. left < 1
      BY <1>2, <2>1, <2>7
    <3> QED
      BY <1>4, <2>5, <3>1
  <2> QED
    BY <2>6, <2>7
<1>6. CASE file = NoFile /\ Top.todo # {}
  <2>1. Step.blocks = 1 /\ Step.at = 0
    BY <1>6 DEF Step
  <2>2. extra = 0
    BY <2>1, Sizes DEF NeedsIndirect
  <2>3. left < 1
    BY <1>2, <1>3, <2>1, <2>2
  <2>4. PICK q \in frames[Len(frames)].todo : TRUE
    BY <1>1, <1>6
  <2>5. q \in DOMAIN host /\ <<q, -1>> \notin DOMAIN blk
    BY <1>1, FreshNode
  <2>6. <<q, -1>> \in Needs(host)
    BY <1>1, <2>5, NeedFacts
  <2> QED
    BY <1>4, <2>3, <2>5, <2>6
<1>7. ASSUME NEW k \in 1 .. Len(frames), k < Len(frames) \/ file # NoFile,
             Step.blocks = 0, Step.inode = frames[k].inode, Step.at = frames[k].next
      PROVE  Cardinality(Needs(host)) - 1 > BlockNum - Cardinality(Reserved)
  <2>1. extra \in {0, 1} /\ left < extra
    BY <1>2, <1>7
  <2>2. NeedsIndirect(frames[k].inode, frames[k].next) /\ left < 1
    BY <1>3, <1>7, <2>1
  <2>3. <<frames[k].node, -2>> \in Needs(host) /\ <<frames[k].node, -2>> \notin DOMAIN blk
    <3>1. /\ frames[k].inode \in InodeRec /\ frames[k].next \in Nat /\ frames[k].node \in DOMAIN host
          /\ frames[k].next < Count(host, frames[k].node)
          /\ <<frames[k].node, -2>> \in DOMAIN blk => frames[k].inode.indirect # 0
      BY <1>1, <1>7, EntryNeeded
    <3> QED
      BY <1>1, <2>2, <3>1, IndirectNeeded
  <2> QED
    BY <1>4, <2>2, <2>3
<1>8. CASE file # NoFile /\ ~(file.rest > 0)
  <2>1. Step.blocks = 0 /\ Step.inode = frames[Len(frames)].inode /\ Step.at = frames[Len(frames)].next
    BY <1>1, <1>8 DEF Step
  <2>2. Len(frames) \in 1 .. Len(frames)
    BY <1>1
  <2> QED
    BY <1>7, <1>8, <2>1, <2>2
<1>9. CASE file = NoFile /\ Top.todo = {} /\ Len(frames) > 1
  <2>1. /\ Step.blocks = 0 /\ Step.inode = frames[Len(frames) - 1].inode
        /\ Step.at = frames[Len(frames) - 1].next
    BY <1>9 DEF Step
  <2>2. Len(frames) - 1 \in 1 .. Len(frames) /\ Len(frames) - 1 < Len(frames)
    BY <1>1, <1>9
  <2> QED
    BY <1>7, <2>1, <2>2
<1>10. CASE file = NoFile /\ Top.todo = {} /\ ~(Len(frames) > 1)
  <2>1. Step.blocks = 0 /\ Step.at = 0
    BY <1>10 DEF Step
  <2>2. extra = 0
    BY <2>1, Sizes DEF NeedsIndirect
  <2> QED
    BY <1>2, <1>3, <2>1, <2>2
<1> QED
  BY <1>5, <1>6, <1>8, <1>9, <1>10

HostKnown == \E in \in Inputs : host = in.host /\ words = in.stack

\* Where each part of the host's directory has its block so far.
BaseInv ==
  /\ HostKnown /\ words \subseteq Nat
  /\ \E blk : Base(host, blk, used, freenum, frames, file)
  /\ FullOnlyWhenTooLarge

\* The host's directory stays as it is, the free blocks are always counted,
\* and only the parts of the tree that are written have a block.
THEOREM BaseInvariant == Spec => []BaseInv
<1>1. Init => BaseInv
  <2> SUFFICES ASSUME Init PROVE BaseInv
    OBVIOUS
  <2>1. HostKnown /\ words \subseteq Nat /\ Base(host, RootBlk, used, freenum, frames, file)
    BY InitBase DEF HostKnown
  <2>2. FullOnlyWhenTooLarge
    BY DEF Init, FullOnlyWhenTooLarge
  <2> QED
    BY <2>1, <2>2 DEF BaseInv
<1>2. BaseInv /\ [Next]_vars => BaseInv'
  <2> SUFFICES ASSUME BaseInv, [Next]_vars PROVE BaseInv'
    OBVIOUS
  <2>1. PICK blk : Base(host, blk, used, freenum, frames, file)
    BY DEF BaseInv
  <2>2. ASSUME host' = host, words' = words, pc' # "full",
               \E new : Base(host', new, used', freenum', frames', file')
        PROVE  BaseInv'
    BY <2>2 DEF BaseInv, HostKnown, FullOnlyWhenTooLarge
  <2>3. words \subseteq Nat
    BY DEF BaseInv
  <2>4. ASSUME NEW p \in DOMAIN host, Enter(p) PROVE BaseInv'
    <3>1. Base(host', Extended(blk, <<p, -1>>, First(used)), used', freenum', frames', file')
      BY <2>1, <2>3, <2>4, EnterBase
    <3>2. host' = host /\ words' = words /\ pc' # "full"
      BY <2>4 DEF Enter
    <3> QED
      BY <2>2, <3>1, <3>2
  <2>5. ASSUME NEW p \in DOMAIN host, Open(p) PROVE BaseInv'
    <3>1. Base(host', Extended(blk, <<p, -1>>, First(used)), used', freenum', frames', file')
      BY <2>1, <2>3, <2>5, OpenBase
    <3>2. host' = host /\ words' = words /\ pc' # "full"
      BY <2>5 DEF Open
    <3> QED
      BY <2>2, <3>1, <3>2
  <2>6. CASE CopyBlock
    <3>1. Base(host', CopyBlk(blk), used', freenum', frames', file')
      BY <2>1, <2>6, CopyBase
    <3>2. host' = host /\ words' = words /\ pc' # "full"
      BY <2>6 DEF CopyBlock
    <3> QED
      BY <2>2, <3>1, <3>2
  <2>7. CASE CloseFile
    <3>1. Base(host', CloseBlk(blk), used', freenum', frames', file')
      BY <2>1, <2>7, CloseBase
    <3>2. host' = host /\ words' = words /\ pc' # "full"
      BY <2>7 DEF CloseFile
    <3> QED
      BY <2>2, <3>1, <3>2
  <2>8. CASE Leave
    <3>1. Base(host', LeaveBlk(blk), used', freenum', frames', file')
      BY <2>1, <2>8, LeaveBase
    <3>2. host' = host /\ words' = words /\ pc' # "full"
      BY <2>8 DEF Leave
    <3> QED
      BY <2>2, <3>1, <3>2
  <2>9. CASE Finish
    <3>1. /\ host' = host /\ words' = words /\ pc' # "full" /\ used' = used /\ freenum' = freenum
          /\ frames' = frames /\ file' = file
      BY <2>9 DEF Finish
    <3> QED
      BY <2>1, <2>2, <3>1
  <2>10. CASE DiskFull
    <3>1. /\ host' = host /\ words' = words /\ used' = used /\ freenum' = freenum
          /\ frames' = frames /\ file' = file
      BY <2>10 DEF DiskFull
    <3>2. Cardinality(Needs(host)) - 1 > BlockNum - Cardinality(Reserved)
      BY <2>1, <2>10, FullFacts
    <3> QED
      BY <2>1, <3>1, <3>2 DEF BaseInv, HostKnown, FullOnlyWhenTooLarge
  <2>11. CASE WriteOutOfImage
    <3>1. /\ host' = host /\ words' = words /\ pc' # "full" /\ used' = used /\ freenum' = freenum
          /\ frames' = frames /\ file' = file
      BY <2>11 DEF WriteOutOfImage
    <3> QED
      BY <2>1, <2>2, <3>1
  <2>12. CASE UNCHANGED vars
    <3>1. /\ host' = host /\ words' = words /\ pc' = pc /\ used' = used /\ freenum' = freenum
          /\ frames' = frames /\ file' = file
      BY <2>12 DEF vars
    <3> QED
      BY <2>1, <3>1 DEF BaseInv, HostKnown, FullOnlyWhenTooLarge
  <2> QED
    BY <2>4, <2>5, <2>6, <2>7, <2>8, <2>9, <2>10, <2>11, <2>12 DEF Next, Ended
<1> QED
  BY <1>1, <1>2, PTL DEF Spec

\* mksfs.c gives up only when the host's directory does not fit, whatever the
\* stack holds.
THEOREM OnlyTooLargeRefused == Spec => []FullOnlyWhenTooLarge
<1>1. BaseInv => FullOnlyWhenTooLarge
  BY DEF BaseInv
<1> QED
  BY <1>1, BaseInvariant, PTL
------------------------------------------------------------------------------
(* The image: what is in the blocks of the parts.                          *)

IsLarge(h, p) == Count(h, p) > Direct
Safe(x) == x = 0 \/ x \notin Block
Parent(p) == IF p = <<>> THEN p ELSE Front(p)
EntryAt(img, ino, i) == IF i < Direct THEN ino.direct[i + 1] ELSE img[ino.indirect].at[i - Direct]
Data(h, p, i) ==
  [kind |-> "data", of |-> p, part |-> i,
   bytes |-> IF h[p].size - i * BlockSize > BlockSize THEN BlockSize ELSE h[p].size - i * BlockSize]

\* The inode of p, when n entries have been attached.
Shape(h, blk, img, p, ino, n) ==
  /\ ino \in InodeRec /\ ino.dir = h[p].dir /\ ino.size = h[p].size
  /\ ino.name = IF p = <<>> THEN "/" ELSE Last(p)
  /\ Len(ino.direct) = IF n < Direct THEN n ELSE Direct
  /\ <<p, -2>> \in DOMAIN blk <=> n > Direct
  /\ n > Direct => /\ ino.indirect = blk[<<p, -2>>] /\ img[ino.indirect].kind = "indirect"
                   /\ DOMAIN img[ino.indirect].at = 0 .. n - Direct - 1

\* The entries of a file are its data, those of a directory the nodes below
\* it that are done, behind . and ..
FileEntries(blk, img, p, ino, n) ==
  \A i \in 0 .. n - 1 : <<p, i>> \in DOMAIN blk /\ EntryAt(img, ino, i) = blk[<<p, i>>]
DirEntries(h, blk, done, img, p, ino, n) ==
  /\ EntryAt(img, ino, 0) = blk[<<p, -1>>] /\ EntryAt(img, ino, 1) = blk[<<Parent(p), -1>>]
  /\ \A i \in 2 .. n - 1 : \E q \in Below(h, p) \intersect done : EntryAt(img, ino, i) = blk[<<q, -1>>]
  /\ \A q \in Below(h, p) \intersect done : \E i \in 2 .. n - 1 : EntryAt(img, ino, i) = blk[<<q, -1>>]
  /\ \A i, j \in 2 .. n - 1 : EntryAt(img, ino, i) = EntryAt(img, ino, j) => i = j

Finished(h, blk, done, img, p, ino) ==
  /\ Shape(h, blk, img, p, ino, Count(h, p))
  /\ h[p].dir => /\ DirEntries(h, blk, done, img, p, ino, Count(h, p))
                 /\ ino.blocks = Count(h, p) /\ Below(h, p) \subseteq done
  /\ ~h[p].dir => FileEntries(blk, img, p, ino, Count(h, p)) /\ ino.blocks = Blocks(h[p].size)

\* The number x in the field indirect does no harm to p, nor to one that
\* finds it there after p.
OpenSafe(h, blk, p, x) ==
  /\ IsLarge(h, p) /\ <<p, -2>> \notin DOMAIN blk => Safe(x)
  /\ p # <<>> =>
       \A q \in Below(h, Front(p)) :
         IsLarge(h, q) /\ h[q].dir = h[p].dir /\ <<q, -1>> \notin DOMAIN blk => Safe(x)
LeftSafe(h, blk, f) ==
  \A q \in Below(h, f.node) :
    IsLarge(h, q) /\ <<q, -1>> \notin DOMAIN blk => Safe(IF h[q].dir THEN f.left.dir ELSE f.left.file)

CallFilled(h, blk, done, img, f) ==
  /\ Shape(h, blk, img, f.node, f.inode, f.next)
  /\ DirEntries(h, blk, done, img, f.node, f.inode, f.next)
  /\ \A q \in Below(h, f.node) : q \in f.todo \/ <<q, -1>> \in DOMAIN blk
  /\ OpenSafe(h, blk, f.node, f.inode.indirect) /\ LeftSafe(h, blk, f)
FileFilled(h, blk, img, f) ==
  /\ Shape(h, blk, img, f.node, f.inode, f.index)
  /\ FileEntries(blk, img, f.node, f.inode, f.index)
  /\ f.inode.blocks = Blocks(h[f.node].size)
  /\ OpenSafe(h, blk, f.node, f.inode.indirect)

OnStack(calls, f, p) == (\E k \in 1 .. Len(calls) : p = calls[k].node) \/ (f # NoFile /\ p = f.node)

\* done are the nodes whose inodes are in the image.
DoneKnown(h, blk, done, calls, f) ==
  /\ done \subseteq DOMAIN h
  /\ \A p \in DOMAIN h : <<p, -1>> \in DOMAIN blk <=> p \in done \/ OnStack(calls, f, p)
  /\ \A p \in done : ~OnStack(calls, f, p)
ImageKnown(h, blk, taken, img) ==
  /\ DOMAIN img = Block
  /\ \A b \in Block \ taken : img[b].kind = "blank"
  /\ \A x \in DOMAIN blk : x[2] # -1 /\ x[2] # -2 => img[blk[x]] = Data(h, x[1], x[2])

Content(h, blk, done, taken, img, calls, f) ==
  /\ DoneKnown(h, blk, done, calls, f) /\ ImageKnown(h, blk, taken, img)
  /\ \A p \in done : Finished(h, blk, done, img, p, img[blk[<<p, -1>>]])
  /\ \A k \in 1 .. Len(calls) : CallFilled(h, blk, done, img, calls[k])
  /\ f # NoFile => FileFilled(h, blk, img, f)

\* The whole tree is in the image.
Final(h, blk, taken, img) ==
  /\ DOMAIN img = Block
  /\ \A b \in Block \ taken : img[b].kind = "blank"
  /\ img[0] = [kind |-> "super", unusedBlocks |-> BlockNum - Cardinality(taken)]
  /\ img[1] = [kind |-> "freemap", used |-> taken]
  /\ \A x \in DOMAIN blk : x[2] # -1 /\ x[2] # -2 => img[blk[x]] = Data(h, x[1], x[2])
  /\ \A p \in DOMAIN h : <<p, -1>> \in DOMAIN blk /\ Finished(h, blk, DOMAIN h, img, p, img[blk[<<p, -1>>]])

PutEffect(content, i, b, new) ==
  /\ new.kind = "indirect" /\ new.at[i] = b
  /\ content.kind = "blank" => DOMAIN new.at = {i}
  /\ content.kind = "indirect" =>
       /\ DOMAIN new.at = DOMAIN content.at \union {i}
       /\ \A j \in DOMAIN content.at : j # i => new.at[j] = content.at[j]

\* An entry written behind the last one of an indirect block.
LEMMA PutFacts ==
  ASSUME NEW content, NEW i, NEW b
  PROVE  PutEffect(content, i, b, Put(content, i, b))
<1> DEFINE old == IF content.kind = "indirect" THEN content.at ELSE <<>>
           at == [j \in DOMAIN old \union {i} |-> IF j = i THEN b ELSE old[j]]
<1>1. Put(content, i, b) = [kind |-> "indirect", at |-> at]
  BY DEF Put
<1>2. Put(content, i, b).kind = "indirect" /\ Put(content, i, b).at = at
  BY <1>1
<1>3. DOMAIN at = DOMAIN old \union {i} /\ at[i] = b /\ \A j \in DOMAIN old : j # i => at[j] = old[j]
  OBVIOUS
<1>4. content.kind = "blank" => DOMAIN old = {}
  <2>1. content.kind = "blank" => old = <<>>
    OBVIOUS
  <2>2. DOMAIN <<>> = {}
    OBVIOUS
  <2> QED
    BY <2>1, <2>2
<1>5. content.kind = "indirect" => old = content.at
  OBVIOUS
<1> HIDE DEF at, old
<1> QED
  BY <1>2, <1>3, <1>4, <1>5 DEF PutEffect

\* An entry written into an indirect block changes no other block.
LEMMA WrittenFacts ==
  ASSUME NEW img, NEW ind \in DOMAIN img, NEW i, NEW b
  PROVE  /\ DOMAIN Written(img, ind, i, b) = DOMAIN img /\ Written(img, ind, i, b)[ind] = Put(img[ind], i, b)
         /\ \A c \in DOMAIN img : c # ind => Written(img, ind, i, b)[c] = img[c]
BY DEF Written

\* The inode has the entries it had, and b is the next of them.
AttachContent(h, blk, p, ino, n, b, img, a, blk2) ==
  /\ Shape(h, blk2, a.image, p, a.inode, n + 1) /\ a.inode.blocks = ino.blocks
  /\ \A i \in 0 .. n - 1 : EntryAt(a.image, a.inode, i) = EntryAt(img, ino, i)
  /\ EntryAt(a.image, a.inode, n) = b
  /\ DOMAIN a.image = Block
  /\ \A c \in Block : a.image[c] = img[c] \/ (<<p, -2>> \in DOMAIN blk2 /\ c = blk2[<<p, -2>>])
  /\ a.inode.indirect = ino.indirect \/ (IsLarge(h, p) /\ <<p, -2>> \in DOMAIN blk2)

\* What Shape says of an inode, one by one.
LEMMA ShapeTypes ==
  ASSUME NEW h, NEW blk, NEW img, NEW p, NEW ino, NEW n \in Nat, Shape(h, blk, img, p, ino, n)
  PROVE  /\ ino \in InodeRec /\ ino.direct \in Seq(Nat) /\ ino.indirect \in Nat
         /\ Len(ino.direct) = IF n < Direct THEN n ELSE Direct
         /\ n > Direct <=> <<p, -2>> \in DOMAIN blk
         /\ n > Direct => /\ ino.indirect = blk[<<p, -2>>] /\ img[ino.indirect].kind = "indirect"
                          /\ DOMAIN img[ino.indirect].at = 0 .. n - Direct - 1
BY DEF Shape, InodeRec

\* Attach appends an entry: those before stay, and the shape is that of one
\* entry more.
LEMMA AttachFills ==
  ASSUME NEW h, IsTree(h), NEW blk, NEW taken, BlocksKnown(h, blk, taken), NEW p \in DOMAIN h,
         NEW img, DOMAIN img = Block, \A c \in Block \ taken : img[c].kind = "blank",
         NEW ino, NEW n \in Nat, Shape(h, blk, img, p, ino, n), n < Count(h, p),
         OpenSafe(h, blk, p, ino.indirect), ~OutOfImage(ino, n),
         NEW b \in Nat, NEW a, Attached(a, ino, n, b, taken, img)
  PROVE  AttachContent(h, blk, p, ino, n, b, img, a, WithIndirect(blk, p, ino, n, taken))
<1> DEFINE blk2 == WithIndirect(blk, p, ino, n, taken)
<1>1. /\ ino \in InodeRec /\ ino.direct \in Seq(Nat) /\ ino.indirect \in Nat
      /\ Len(ino.direct) = IF n < Direct THEN n ELSE Direct
      /\ n > Direct <=> <<p, -2>> \in DOMAIN blk
      /\ n > Direct => /\ ino.indirect = blk[<<p, -2>>] /\ img[ino.indirect].kind = "indirect"
                       /\ DOMAIN img[ino.indirect].at = 0 .. n - Direct - 1
  BY ShapeTypes
<1>2. /\ Direct \in Nat /\ Direct >= 2 /\ taken \subseteq Block /\ 0 \in taken
      /\ Count(h, p) \in Nat
  BY Sizes, TreeFacts DEF BlocksKnown
<1>3. AttachEffect(a, ino, n, b, taken, img)
  BY <1>1, <1>2, AttachFacts
<1>4. /\ a.inode \in InodeRec /\ a.inode.dir = h[p].dir /\ a.inode.size = h[p].size
      /\ a.inode.name = (IF p = <<>> THEN "/" ELSE Last(p)) /\ a.inode.blocks = ino.blocks
  BY <1>3 DEF AttachEffect, Shape
<1>5. CASE n < Direct
  <2>1. a.inode.indirect = ino.indirect /\ a.image = img
    BY <1>3, <1>5 DEF AttachEffect
  <2>2. a.inode.direct = Append(ino.direct, b)
    <3>1. a.inode = [ino EXCEPT !.direct = Append(@, b)]
      BY <1>5 DEF Attach, Attached
    <3> QED
      BY <1>1, <3>1 DEF InodeRec
  <2>3. blk2 = blk
    BY <1>2, <1>5 DEF WithIndirect, NeedsIndirect
  <2>4. /\ Len(a.inode.direct) = n + 1 /\ a.inode.direct[n + 1] = b
        /\ \A i \in 1 .. n : a.inode.direct[i] = ino.direct[i]
    BY <1>1, <1>5, <2>2, AppendProperties
  <2>5. ~(n > Direct) /\ ~(n + 1 > Direct) /\ (IF n + 1 < Direct THEN n + 1 ELSE Direct) = n + 1
    BY <1>2, <1>5
  <2>6. Shape(h, blk2, a.image, p, a.inode, n + 1)
    BY <1>1, <1>4, <2>3, <2>4, <2>5 DEF Shape
  <2>7. \A i \in 0 .. n - 1 : EntryAt(a.image, a.inode, i) = EntryAt(img, ino, i)
    <3>1. \A i \in 0 .. n - 1 : i < Direct /\ i + 1 \in 1 .. n
      BY <1>2, <1>5
    <3> QED
      BY <2>4, <3>1 DEF EntryAt
  <2>8. EntryAt(a.image, a.inode, n) = b
    BY <1>5, <2>4 DEF EntryAt
  <2> QED
    BY <1>4, <2>1, <2>6, <2>7, <2>8 DEF AttachContent
<1>6. CASE ~(n < Direct)
  <2> DEFINE ind == a.inode.indirect
  <2>1. IsLarge(h, p)
    BY <1>2, <1>6 DEF IsLarge
  <2>2. a.inode.direct = ino.direct /\ a.image = Written(img, ind, n - Direct, b)
    BY <1>3, <1>6 DEF AttachEffect
  <2>3. \/ /\ n = Direct /\ ind \in Block /\ img[ind].kind = "blank"
           /\ <<p, -2>> \in DOMAIN blk2 /\ blk2[<<p, -2>>] = ind
        \/ /\ n > Direct /\ ind \in Block /\ ind = ino.indirect
           /\ <<p, -2>> \in DOMAIN blk2 /\ blk2[<<p, -2>>] = ind
    <3>1. CASE NeedsIndirect(ino, n)
      <4>1. ind = First(taken) /\ First(taken) \in Block /\ First(taken) \notin taken
        BY <1>3, <3>1 DEF AttachEffect
      <4>2. ino.indirect = 0
        BY <3>1 DEF NeedsIndirect
      <4>3. <<p, -2>> \notin DOMAIN blk
        BY <1>1, <4>2 DEF BlocksKnown
      <4>4. n = Direct
        BY <1>1, <1>2, <1>6, <4>3
      <4>5. <<p, -2>> \in DOMAIN blk2 /\ blk2[<<p, -2>>] = First(taken)
        BY <3>1 DEF WithIndirect, Extended
      <4> QED
        BY <4>1, <4>4, <4>5
    <3>2. CASE ~NeedsIndirect(ino, n)
      <4>1. ino.indirect # 0 /\ ino.indirect \in Block
        BY <1>2, <1>6, <3>2 DEF NeedsIndirect, OutOfImage
      <4>2. <<p, -2>> \in DOMAIN blk
        BY <2>1, <4>1 DEF OpenSafe, Safe
      <4>3. ind = ino.indirect
        BY <1>3, <1>6, <4>1 DEF AttachEffect
      <4>4. blk2 = blk
        BY <3>2 DEF WithIndirect
      <4> QED
        BY <1>1, <4>1, <4>2, <4>3, <4>4
    <3> QED
      BY <3>1, <3>2
  <2>4. n >= Direct /\ n - Direct \in Nat
    BY <1>2, <1>6
  <2> HIDE DEF blk2, ind
  <2>5. /\ DOMAIN a.image = Block /\ a.image[ind] = Put(img[ind], n - Direct, b)
        /\ \A c \in Block : c # ind => a.image[c] = img[c]
    BY <2>2, <2>3, WrittenFacts
  <2>6. /\ a.image[ind].kind = "indirect" /\ a.image[ind].at[n - Direct] = b
        /\ DOMAIN a.image[ind].at = 0 .. (n + 1) - Direct - 1
        /\ n > Direct => \A j \in 0 .. n - Direct - 1 : a.image[ind].at[j] = img[ind].at[j]
    <3>1. CASE n = Direct
      <4>1. /\ a.image[ind].kind = "indirect" /\ a.image[ind].at[n - Direct] = b
            /\ DOMAIN a.image[ind].at = {n - Direct}
        <5>1. PutEffect(img[ind], n - Direct, b, a.image[ind])
          BY <2>5, PutFacts
        <5>2. img[ind].kind = "blank"
          BY <1>2, <2>3, <3>1
        <5> QED
          BY <5>1, <5>2 DEF PutEffect
      <4>2. {n - Direct} = 0 .. (n + 1) - Direct - 1
        BY <1>2, <3>1
      <4> QED
        BY <1>2, <3>1, <4>1, <4>2
    <3>2. CASE n > Direct
      <4>1. img[ind].kind = "indirect" /\ DOMAIN img[ind].at = 0 .. n - Direct - 1
        BY <1>1, <1>2, <2>3, <3>2
      <4>2. /\ a.image[ind].kind = "indirect" /\ a.image[ind].at[n - Direct] = b
            /\ DOMAIN a.image[ind].at = (0 .. n - Direct - 1) \union {n - Direct}
            /\ \A j \in 0 .. n - Direct - 1 : j # n - Direct => a.image[ind].at[j] = img[ind].at[j]
        <5>1. PutEffect(img[ind], n - Direct, b, a.image[ind])
          BY <2>5, PutFacts
        <5>2. /\ a.image[ind].kind = "indirect" /\ a.image[ind].at[n - Direct] = b
              /\ DOMAIN a.image[ind].at = DOMAIN img[ind].at \union {n - Direct}
              /\ \A j \in DOMAIN img[ind].at : j # n - Direct => a.image[ind].at[j] = img[ind].at[j]
          BY <4>1, <5>1 DEF PutEffect
        <5> QED
          BY <4>1, <5>2
      <4>3. (0 .. n - Direct - 1) \union {n - Direct} = 0 .. (n + 1) - Direct - 1
        BY <1>2, <3>2
      <4>4. \A j \in 0 .. n - Direct - 1 : j # n - Direct
        BY <1>2, <2>4
      <4> QED
        BY <4>2, <4>3, <4>4
    <3> QED
      BY <1>2, <2>4, <3>1, <3>2
  <2>7. Shape(h, blk2, a.image, p, a.inode, n + 1)
    <3>1. n + 1 > Direct /\ ~(n + 1 < Direct)
      BY <1>2, <2>4
    <3>2. Len(a.inode.direct) = Direct
      BY <1>1, <1>6, <2>2
    <3> QED
      BY <1>4, <2>3, <2>6, <3>1, <3>2 DEF Shape, ind
  <2>8. \A i \in 0 .. n - 1 : EntryAt(a.image, a.inode, i) = EntryAt(img, ino, i)
    <3> SUFFICES ASSUME NEW i \in 0 .. n - 1 PROVE EntryAt(a.image, a.inode, i) = EntryAt(img, ino, i)
      OBVIOUS
    <3>1. CASE i < Direct
      BY <2>2, <3>1 DEF EntryAt
    <3>2. CASE ~(i < Direct)
      <4>1. n > Direct /\ i - Direct \in 0 .. n - Direct - 1
        BY <1>2, <3>2
      <4>2. a.image[ind].at[i - Direct] = img[ind].at[i - Direct] /\ ind = ino.indirect
        BY <1>2, <2>3, <2>6, <4>1
      <4> QED
        BY <3>2, <4>2 DEF EntryAt, ind
    <3> QED
      BY <3>1, <3>2
  <2>9. EntryAt(a.image, a.inode, n) = b
    BY <1>6, <2>6 DEF EntryAt, ind
  <2>10. AttachContent(h, blk, p, ino, n, b, img, a, blk2)
    BY <1>4, <2>1, <2>3, <2>5, <2>7, <2>8, <2>9 DEF AttachContent
  <2> QED
    BY <2>10 DEF blk2
<1> QED
  BY <1>5, <1>6
------------------------------------------------------------------------------
(* What other steps leave as it is.                                        *)

\* p's indirect block is where it was, with what it had.
Unmoved(blk, img, blk2, img2, p) ==
  /\ Grows(blk, blk2)
  /\ <<p, -2>> \in DOMAIN blk2 => <<p, -2>> \in DOMAIN blk
  /\ <<p, -2>> \in DOMAIN blk => img2[blk[<<p, -2>>]] = img[blk[<<p, -2>>]]
EntriesSame(img, ino, img2, ino2, n) == \A i \in 0 .. n - 1 : EntryAt(img2, ino2, i) = EntryAt(img, ino, i)

\* The shape of an inode stays while its indirect block does.
LEMMA ShapeKeeps ==
  ASSUME NEW h, NEW blk, NEW img, NEW p, NEW ino, NEW n \in Nat, Shape(h, blk, img, p, ino, n),
         NEW blk2, NEW img2, Unmoved(blk, img, blk2, img2, p)
  PROVE  Shape(h, blk2, img2, p, ino, n) /\ EntriesSame(img, ino, img2, ino, n)
<1>1. /\ Len(ino.direct) = IF n < Direct THEN n ELSE Direct
      /\ n > Direct <=> <<p, -2>> \in DOMAIN blk
      /\ n > Direct => /\ ino.indirect = blk[<<p, -2>>] /\ img[ino.indirect].kind = "indirect"
                       /\ DOMAIN img[ino.indirect].at = 0 .. n - Direct - 1
  BY ShapeTypes
<1>2. /\ <<p, -2>> \in DOMAIN blk2 <=> <<p, -2>> \in DOMAIN blk
      /\ n > Direct => img2[ino.indirect] = img[ino.indirect] /\ blk2[<<p, -2>>] = blk[<<p, -2>>]
  BY <1>1 DEF Unmoved, Grows
<1>3. Shape(h, blk2, img2, p, ino, n)
  BY <1>1, <1>2 DEF Shape
<1>4. ASSUME NEW i \in 0 .. n - 1 PROVE EntryAt(img2, ino, i) = EntryAt(img, ino, i)
  <2>1. CASE i < Direct
    BY <2>1 DEF EntryAt
  <2>2. CASE ~(i < Direct)
    <3>1. n > Direct
      BY <2>2, Sizes
    <3> QED
      BY <1>2, <2>2, <3>1 DEF EntryAt
  <2> QED
    BY <2>1, <2>2
<1> QED
  BY <1>3, <1>4 DEF EntriesSame

\* So do the entries of a file
LEMMA FileEntriesKeep ==
  ASSUME NEW blk, NEW img, NEW p, NEW ino, NEW n \in Nat, FileEntries(blk, img, p, ino, n),
         NEW blk2, Grows(blk, blk2), NEW img2, NEW ino2, EntriesSame(img, ino, img2, ino2, n)
  PROVE  FileEntries(blk2, img2, p, ino2, n)
BY DEF FileEntries, EntriesSame, Grows

\* and those of a directory.
LEMMA DirEntriesKeep ==
  ASSUME NEW h, NEW blk, NEW done, NEW img, NEW p, NEW ino, NEW n \in Nat, n >= 2,
         DirEntries(h, blk, done, img, p, ino, n),
         <<p, -1>> \in DOMAIN blk, <<Parent(p), -1>> \in DOMAIN blk, \A q \in done : <<q, -1>> \in DOMAIN blk,
         NEW blk2, Grows(blk, blk2), NEW done2, Below(h, p) \intersect done2 = Below(h, p) \intersect done,
         NEW img2, NEW ino2, EntriesSame(img, ino, img2, ino2, n)
  PROVE  DirEntries(h, blk2, done2, img2, p, ino2, n)
<1>1. /\ \A i \in 0 .. n - 1 : EntryAt(img2, ino2, i) = EntryAt(img, ino, i)
      /\ 0 \in 0 .. n - 1 /\ 1 \in 0 .. n - 1 /\ \A i \in 2 .. n - 1 : i \in 0 .. n - 1
  BY DEF EntriesSame
<1>2. /\ blk2[<<p, -1>>] = blk[<<p, -1>>] /\ blk2[<<Parent(p), -1>>] = blk[<<Parent(p), -1>>]
      /\ \A q \in done : blk2[<<q, -1>>] = blk[<<q, -1>>]
  BY DEF Grows
<1>3. EntryAt(img2, ino2, 0) = blk2[<<p, -1>>] /\ EntryAt(img2, ino2, 1) = blk2[<<Parent(p), -1>>]
  BY <1>1, <1>2 DEF DirEntries
<1>4. \A i \in 2 .. n - 1 : \E q \in Below(h, p) \intersect done2 : EntryAt(img2, ino2, i) = blk2[<<q, -1>>]
  <2> SUFFICES ASSUME NEW i \in 2 .. n - 1
               PROVE  \E q \in Below(h, p) \intersect done2 : EntryAt(img2, ino2, i) = blk2[<<q, -1>>]
    OBVIOUS
  <2>1. PICK q \in Below(h, p) \intersect done : EntryAt(img, ino, i) = blk[<<q, -1>>]
    BY DEF DirEntries
  <2>2. q \in Below(h, p) \intersect done2 /\ EntryAt(img2, ino2, i) = blk2[<<q, -1>>]
    BY <1>1, <1>2, <2>1
  <2> QED
    BY <2>2
<1>5. \A q \in Below(h, p) \intersect done2 : \E i \in 2 .. n - 1 : EntryAt(img2, ino2, i) = blk2[<<q, -1>>]
  <2> SUFFICES ASSUME NEW q \in Below(h, p) \intersect done2
               PROVE  \E i \in 2 .. n - 1 : EntryAt(img2, ino2, i) = blk2[<<q, -1>>]
    OBVIOUS
  <2>1. q \in Below(h, p) \intersect done
    OBVIOUS
  <2>2. PICK i \in 2 .. n - 1 : EntryAt(img, ino, i) = blk[<<q, -1>>]
    BY <2>1 DEF DirEntries
  <2>3. EntryAt(img2, ino2, i) = blk2[<<q, -1>>]
    BY <1>1, <1>2, <2>1, <2>2
  <2> QED
    BY <2>3
<1>6. \A i, j \in 2 .. n - 1 : EntryAt(img2, ino2, i) = EntryAt(img2, ino2, j) => i = j
  BY <1>1 DEF DirEntries
<1> QED
  BY <1>3, <1>4, <1>5, <1>6 DEF DirEntries

\* The inode of c has been attached to the directory p.
LEMMA DirEntriesMore ==
  ASSUME NEW h, NEW blk, NEW done, NEW img, NEW p, NEW ino, NEW n \in Nat, n >= 2,
         DirEntries(h, blk, done, img, p, ino, n), NEW c \in Below(h, p), c \notin done,
         <<c, -1>> \in DOMAIN blk, \A q \in done : <<q, -1>> \in DOMAIN blk,
         \A x, y \in DOMAIN blk : blk[x] = blk[y] => x = y,
         EntryAt(img, ino, n) = blk[<<c, -1>>]
  PROVE  DirEntries(h, blk, done \union {c}, img, p, ino, n + 1)
<1> DEFINE new == done \union {c}
<1>1. /\ \A i \in 2 .. (n + 1) - 1 : i \in 2 .. n - 1 \/ i = n
      /\ \A i \in 2 .. n - 1 : i \in 2 .. (n + 1) - 1 /\ i # n
      /\ n \in 2 .. (n + 1) - 1
  OBVIOUS
<1>2. \A i \in 2 .. n - 1 : EntryAt(img, ino, i) # EntryAt(img, ino, n)
  <2> SUFFICES ASSUME NEW i \in 2 .. n - 1, EntryAt(img, ino, i) = EntryAt(img, ino, n) PROVE FALSE
    OBVIOUS
  <2>1. PICK q \in Below(h, p) \intersect done : EntryAt(img, ino, i) = blk[<<q, -1>>]
    BY DEF DirEntries
  <2>2. blk[<<q, -1>>] = blk[<<c, -1>>] /\ <<q, -1>> \in DOMAIN blk
    BY <2>1
  <2>3. <<q, -1>> = <<c, -1>>
    BY <2>2
  <2>4. q = c
    BY <2>3
  <2> QED
    BY <2>4
<1>3. \A i \in 2 .. (n + 1) - 1 : \E q \in Below(h, p) \intersect new : EntryAt(img, ino, i) = blk[<<q, -1>>]
  <2> SUFFICES ASSUME NEW i \in 2 .. (n + 1) - 1
               PROVE  \E q \in Below(h, p) \intersect new : EntryAt(img, ino, i) = blk[<<q, -1>>]
    OBVIOUS
  <2>1. CASE i = n
    BY <2>1
  <2>2. CASE i # n
    <3>1. PICK q \in Below(h, p) \intersect done : EntryAt(img, ino, i) = blk[<<q, -1>>]
      BY <1>1, <2>2 DEF DirEntries
    <3> QED
      BY <3>1
  <2> QED
    BY <2>1, <2>2
<1>4. \A q \in Below(h, p) \intersect new : \E i \in 2 .. (n + 1) - 1 : EntryAt(img, ino, i) = blk[<<q, -1>>]
  <2> SUFFICES ASSUME NEW q \in Below(h, p) \intersect new
               PROVE  \E i \in 2 .. (n + 1) - 1 : EntryAt(img, ino, i) = blk[<<q, -1>>]
    OBVIOUS
  <2>1. CASE q = c
    BY <1>1, <2>1
  <2>2. CASE q # c
    <3>1. PICK i \in 2 .. n - 1 : EntryAt(img, ino, i) = blk[<<q, -1>>]
      BY <2>2 DEF DirEntries
    <3> QED
      BY <1>1, <3>1
  <2> QED
    BY <2>1, <2>2
<1>5. \A i, j \in 2 .. (n + 1) - 1 : EntryAt(img, ino, i) = EntryAt(img, ino, j) => i = j
  <2> SUFFICES ASSUME NEW i \in 2 .. (n + 1) - 1, NEW j \in 2 .. (n + 1) - 1,
                      EntryAt(img, ino, i) = EntryAt(img, ino, j)
               PROVE  i = j
    OBVIOUS
  <2>1. CASE i # n /\ j # n
    BY <1>1, <2>1 DEF DirEntries
  <2>2. CASE i = n \/ j = n
    BY <1>1, <1>2, <2>2
  <2> QED
    BY <2>1, <2>2
<1> HIDE DEF new
<1>6. DirEntries(h, blk, new, img, p, ino, n + 1)
  BY <1>3, <1>4, <1>5 DEF DirEntries
<1> QED
  BY <1>6 DEF new

\* What is known of the blocks of the nodes that are done.
DoneBlocks(h, blk, done) ==
  done \subseteq DOMAIN h /\ \A q \in done : <<q, -1>> \in DOMAIN blk /\ <<Parent(q), -1>> \in DOMAIN blk

\* A node whose blocks are not touched stays finished.
LEMMA FinishedKeeps ==
  ASSUME NEW h, IsTree(h), NEW blk, NEW done, DoneBlocks(h, blk, done), NEW img, NEW p \in done, NEW ino,
         Finished(h, blk, done, img, p, ino),
         NEW blk2, NEW img2, Unmoved(blk, img, blk2, img2, p), NEW done2, done \subseteq done2
  PROVE  Finished(h, blk2, done2, img2, p, ino)
<1> DEFINE n == Count(h, p)
<1>1. /\ p \in DOMAIN h /\ n \in Nat /\ <<p, -1>> \in DOMAIN blk /\ <<Parent(p), -1>> \in DOMAIN blk
      /\ Shape(h, blk, img, p, ino, n) /\ \A q \in done : <<q, -1>> \in DOMAIN blk
      /\ Grows(blk, blk2)
  BY TreeFacts DEF DoneBlocks, Finished, Unmoved
<1>2. h[p].dir => n >= 2
  <2>1. h[p].dir => n = Cardinality(Below(h, p)) + 2
    BY <1>1, TreeFacts
  <2>2. Cardinality(Below(h, p)) \in Nat
    BY <1>1, TreeFacts, FS_CardinalityType
  <2> QED
    BY <2>1, <2>2
<1> HIDE DEF n
<1>3. Shape(h, blk2, img2, p, ino, n) /\ EntriesSame(img, ino, img2, ino, n)
  BY <1>1, ShapeKeeps
<1>4. ASSUME h[p].dir
      PROVE  DirEntries(h, blk2, done2, img2, p, ino, n) /\ ino.blocks = n /\ Below(h, p) \subseteq done2
  <2>1. DirEntries(h, blk, done, img, p, ino, n) /\ ino.blocks = n /\ Below(h, p) \subseteq done
    BY <1>4 DEF Finished, n
  <2>2. Below(h, p) \intersect done2 = Below(h, p) \intersect done
    BY <2>1
  <2>3. DirEntries(h, blk2, done2, img2, p, ino, n)
    BY <1>1, <1>2, <1>3, <1>4, <2>1, <2>2, DirEntriesKeep
  <2> QED
    BY <2>1, <2>3
<1>5. ASSUME ~h[p].dir
      PROVE  FileEntries(blk2, img2, p, ino, n) /\ ino.blocks = Blocks(h[p].size)
  <2>1. FileEntries(blk, img, p, ino, n) /\ ino.blocks = Blocks(h[p].size)
    BY <1>5 DEF Finished, n
  <2>2. FileEntries(blk2, img2, p, ino, n)
    BY <1>1, <1>3, <2>1, FileEntriesKeep
  <2> QED
    BY <2>1, <2>2
<1> QED
  BY <1>3, <1>4, <1>5 DEF Finished, n

\* A number that is harmless stays so when more parts get blocks.
LEMMA OpenSafeKeeps ==
  ASSUME NEW h, NEW blk, NEW p, NEW x, OpenSafe(h, blk, p, x), NEW blk2, Grows(blk, blk2)
  PROVE  OpenSafe(h, blk2, p, x)
BY DEF OpenSafe, Grows

\* So does what a call has left on the stack.
LEMMA LeftSafeKeeps ==
  ASSUME NEW h, NEW blk, NEW f, LeftSafe(h, blk, f), NEW blk2, Grows(blk, blk2),
         NEW g, g.node = f.node, g.left = f.left
  PROVE  LeftSafe(h, blk2, g)
BY DEF LeftSafe, Grows

\* The same for a call of walk that may have crossed an entry out.
LEMMA CallFilledKeeps ==
  ASSUME NEW h, NEW blk, NEW done, DoneBlocks(h, blk, done), NEW img,
         NEW f \in FrameRec, FrameKnown(h, blk, f), <<Parent(f.node), -1>> \in DOMAIN blk,
         CallFilled(h, blk, done, img, f),
         NEW blk2, NEW img2, Unmoved(blk, img, blk2, img2, f.node),
         NEW done2, Below(h, f.node) \intersect done2 = Below(h, f.node) \intersect done,
         NEW g, SameCall(g, f), \A q \in f.todo : q \in g.todo \/ <<q, -1>> \in DOMAIN blk2
  PROVE  CallFilled(h, blk2, done2, img2, g)
<1>1. /\ g.node = f.node /\ g.inode = f.inode /\ g.next = f.next /\ g.left = f.left
      /\ f.next \in Nat /\ f.next >= 2 /\ <<f.node, -1>> \in DOMAIN blk /\ Grows(blk, blk2)
      /\ \A q \in done : <<q, -1>> \in DOMAIN blk
  BY DEF SameCall, FrameRec, FrameKnown, Unmoved, DoneBlocks
<1>2. /\ Shape(h, blk, img, f.node, f.inode, f.next)
      /\ DirEntries(h, blk, done, img, f.node, f.inode, f.next)
      /\ OpenSafe(h, blk, f.node, f.inode.indirect) /\ LeftSafe(h, blk, f)
      /\ \A q \in Below(h, f.node) : q \in f.todo \/ <<q, -1>> \in DOMAIN blk
  BY DEF CallFilled
<1>3. Shape(h, blk2, img2, f.node, f.inode, f.next) /\ EntriesSame(img, f.inode, img2, f.inode, f.next)
  BY <1>1, <1>2, ShapeKeeps
<1>4. DirEntries(h, blk2, done2, img2, f.node, f.inode, f.next)
  BY <1>1, <1>2, <1>3, DirEntriesKeep
<1>5. OpenSafe(h, blk2, f.node, f.inode.indirect)
  BY <1>1, <1>2, OpenSafeKeeps
<1>6. LeftSafe(h, blk2, g)
  BY <1>1, <1>2, LeftSafeKeeps
<1>7. \A q \in Below(h, f.node) : q \in g.todo \/ <<q, -1>> \in DOMAIN blk2
  BY <1>1, <1>2 DEF Grows
<1> QED
  BY <1>1, <1>3, <1>4, <1>5, <1>6, <1>7 DEF CallFilled

\* A file whose blocks are not touched stays filled as far as it was.
LEMMA FileFilledKeeps ==
  ASSUME NEW h, NEW blk, NEW img, NEW f \in FileRec, FileFilled(h, blk, img, f),
         NEW blk2, NEW img2, Unmoved(blk, img, blk2, img2, f.node)
  PROVE  FileFilled(h, blk2, img2, f)
<1>1. f.index \in Nat /\ Grows(blk, blk2)
  BY DEF FileRec, Unmoved
<1>2. /\ Shape(h, blk, img, f.node, f.inode, f.index) /\ FileEntries(blk, img, f.node, f.inode, f.index)
      /\ f.inode.blocks = Blocks(h[f.node].size) /\ OpenSafe(h, blk, f.node, f.inode.indirect)
  BY DEF FileFilled
<1>3. Shape(h, blk2, img2, f.node, f.inode, f.index) /\ EntriesSame(img, f.inode, img2, f.inode, f.index)
  BY <1>1, <1>2, ShapeKeeps
<1>4. FileEntries(blk2, img2, f.node, f.inode, f.index)
  BY <1>1, <1>2, <1>3, FileEntriesKeep
<1>5. OpenSafe(h, blk2, f.node, f.inode.indirect)
  BY <1>1, <1>2, OpenSafeKeeps
<1> QED
  BY <1>2, <1>3, <1>4, <1>5 DEF FileFilled
------------------------------------------------------------------------------
(* Each action and what is in the blocks.                                  *)

\* StackHarmless, for one tree h and what is on the stack.
Harmless(h, stack) ==
  /\ \A p \in DOMAIN h : IsLarge(h, p) => \A x \in stack : Safe(x)
  /\ \A p, q \in DOMAIN h :
       p # <<>> /\ q # <<>> /\ IsLarge(h, p) /\ IsLarge(h, q) /\ Front(p) = Front(q) /\ h[p].dir = h[q].dir
         => p = q

\* The inode above a node that has a block has one.
LEMMA ParentBlock ==
  ASSUME NEW h, NEW blk, NEW taken, BlocksKnown(h, blk, taken), NEW p, <<p, -1>> \in DOMAIN blk
  PROVE  <<Parent(p), -1>> \in DOMAIN blk
BY DEF BlocksKnown, Parent

\* A node that is done has a block and is in the tree.
LEMMA DoneFacts ==
  ASSUME NEW h, NEW blk, NEW taken, BlocksKnown(h, blk, taken),
         NEW done, NEW calls, NEW f, DoneKnown(h, blk, done, calls, f)
  PROVE  DoneBlocks(h, blk, done)
BY ParentBlock DEF DoneKnown, DoneBlocks

\* The nodes that are done, before a step and after it.
DoneFinished(h, blk, done, img) == \A p \in done : Finished(h, blk, done, img, p, img[blk[<<p, -1>>]])
DoneUnmoved(blk, img, blk2, img2, done) ==
  \A p \in done : Unmoved(blk, img, blk2, img2, p) /\ img2[blk[<<p, -1>>]] = img[blk[<<p, -1>>]]
FinishedAll(h, blk, done, img, nodes) ==
  \A p \in nodes : Finished(h, blk, done, img, p, img[blk[<<p, -1>>]])

\* All nodes that are done stay so when their blocks are not touched.
LEMMA DoneKeeps ==
  ASSUME NEW h, IsTree(h), NEW blk, NEW done, DoneBlocks(h, blk, done), NEW img, DoneFinished(h, blk, done, img),
         NEW blk2, NEW img2, NEW done2, done \subseteq done2, DoneUnmoved(blk, img, blk2, img2, done)
  PROVE  FinishedAll(h, blk2, done2, img2, done)
<1> SUFFICES ASSUME NEW p \in done PROVE Finished(h, blk2, done2, img2, p, img2[blk2[<<p, -1>>]])
  BY DEF FinishedAll
<1> DEFINE ino == img[blk[<<p, -1>>]]
<1>1. Unmoved(blk, img, blk2, img2, p) /\ img2[blk2[<<p, -1>>]] = ino
  BY DEF Unmoved, Grows, DoneBlocks, DoneUnmoved
<1>2. Finished(h, blk, done, img, p, ino)
  BY DEF DoneFinished
<1> HIDE DEF ino
<1>3. Finished(h, blk2, done2, img2, p, ino)
  BY <1>1, <1>2, FinishedKeeps
<1> QED
  BY <1>1, <1>3

\* A number that is found on the stack where p gets its inode.
LEMMA NewSafe ==
  ASSUME NEW h, IsTree(h), NEW blk, NEW f, LeftSafe(h, blk, f), NEW stack, Harmless(h, stack),
         NEW p \in Below(h, f.node), <<p, -1>> \notin DOMAIN blk,
         NEW x, x \in stack \/ x = IF h[p].dir THEN f.left.dir ELSE f.left.file
  PROVE  OpenSafe(h, blk, p, x)
<1>1. p \in DOMAIN h /\ Front(p) = f.node
  BY DEF Below
<1>2. ASSUME NEW q \in Below(h, f.node), IsLarge(h, q), h[q].dir = h[p].dir, <<q, -1>> \notin DOMAIN blk
      PROVE  Safe(x)
  <2>1. q \in DOMAIN h
    BY DEF Below
  <2>2. CASE x \in stack
    BY <1>2, <2>1, <2>2 DEF Harmless
  <2>3. CASE x = IF h[q].dir THEN f.left.dir ELSE f.left.file
    BY <1>2, <2>3 DEF LeftSafe
  <2> QED
    BY <1>2, <2>2, <2>3
<1>3. IsLarge(h, p) => Safe(x)
  BY <1>2
<1> QED
  BY <1>1, <1>2, <1>3 DEF OpenSafe

\* The inode of p, before anything but . and .. is attached.
DirInode(p, ind, direct) == [NewInode(p, ind) EXCEPT !.direct = direct]
FileInode(p, ind, blocks) == [NewInode(p, ind) EXCEPT !.blocks = blocks]

\* A new directory holds . and .. and nothing else.
LEMMA NewDirShape ==
  ASSUME IsTree(host), NEW p \in DOMAIN host, NEW blk, <<p, -2>> \notin DOMAIN blk, NEW img, NEW ind \in Nat,
         NEW direct \in Seq(Nat), Len(direct) = 2
  PROVE  /\ Shape(host, blk, img, p, DirInode(p, ind, direct), 2)
         /\ DirInode(p, ind, direct).direct = direct /\ DirInode(p, ind, direct).indirect = ind
<1> DEFINE ino == DirInode(p, ind, direct)
<1>1. /\ ino.dir = host[p].dir /\ ino.size = host[p].size /\ ino.name = (IF p = <<>> THEN "/" ELSE Last(p))
      /\ ino.direct = direct /\ ino.indirect = ind
  BY DEF NewInode, DirInode
<1>2. ino \in InodeRec
  <2>1. 0 \in Nat
    OBVIOUS
  <2> QED
    BY <2>1, NewInodeFacts DEF DirInode
<1> HIDE DEF ino
<1>3. Shape(host, blk, img, p, ino, 2)
  BY <1>1, <1>2, Sizes DEF Shape
<1> QED
  BY <1>1, <1>3 DEF ino

\* A new file holds nothing.
LEMMA NewFileShape ==
  ASSUME IsTree(host), NEW p \in DOMAIN host, NEW blk, <<p, -2>> \notin DOMAIN blk, NEW img, NEW ind \in Nat,
         NEW blocks \in Nat
  PROVE  /\ Shape(host, blk, img, p, FileInode(p, ind, blocks), 0)
         /\ FileInode(p, ind, blocks).blocks = blocks /\ FileInode(p, ind, blocks).indirect = ind
<1> DEFINE ino == FileInode(p, ind, blocks)
<1>0. <<>> \in Seq(Nat) /\ Len(<<>>) = 0
  BY EmptySeq
<1>1. /\ ino.dir = host[p].dir /\ ino.size = host[p].size /\ ino.name = (IF p = <<>> THEN "/" ELSE Last(p))
      /\ ino.direct = <<>> /\ ino.indirect = ind /\ ino.blocks = blocks
  BY DEF NewInode, FileInode
<1>2. ino \in InodeRec
  BY <1>0, NewInodeFacts DEF FileInode
<1> HIDE DEF ino
<1>3. Shape(host, blk, img, p, ino, 0)
  BY <1>0, <1>1, <1>2, Sizes DEF Shape
<1> QED
  BY <1>1, <1>3 DEF ino

\* A call of walk that has just begun.
LEMMA NewCallFilled ==
  ASSUME IsTree(host), NEW blk, NEW taken, BlocksKnown(host, blk, taken), NEW p \in DOMAIN host, host[p].dir,
         <<p, -2>> \notin DOMAIN blk, NEW img, NEW done, \A q \in Below(host, p) : q \notin done,
         NEW ind, OpenSafe(host, blk, p, ind), NEW left,
         NEW stack, stack \subseteq Nat, Harmless(host, stack),
         left.file \in stack, left.dir \in stack,
         NEW num, NEW parent, num = blk[<<p, -1>>], parent = blk[<<Parent(p), -1>>], num \in Nat, parent \in Nat,
         ind \in Nat, NEW g, NewCall(host, g, p, num, parent, ind, left)
  PROVE  CallFilled(host, blk, done, img, g)
<1> DEFINE direct == <<num, parent>>
           ino == DirInode(p, ind, direct)
<1>1. direct \in Seq(Nat) /\ Len(direct) = 2 /\ direct[1] = num /\ direct[2] = parent
  OBVIOUS
<1>2. g.node = p /\ g.inode = ino /\ g.next = 2 /\ g.todo = Below(host, p) /\ g.left = left
  BY DEF NewCall, DirInode
<1> HIDE DEF direct
<1>3. Shape(host, blk, img, p, ino, 2) /\ ino.direct = direct /\ ino.indirect = ind
  BY <1>1, NewDirShape
<1> HIDE DEF ino
<1>4. DirEntries(host, blk, done, img, p, ino, 2)
  <2>1. 0 < Direct /\ 1 < Direct
    BY Sizes
  <2>2. EntryAt(img, ino, 0) = num /\ EntryAt(img, ino, 1) = parent
    BY <1>1, <1>3, <2>1 DEF EntryAt
  <2>3. 2 .. 2 - 1 = {}
    OBVIOUS
  <2> QED
    BY <2>2, <2>3 DEF DirEntries
<1>5. LeftSafe(host, blk, g)
  <2> SUFFICES ASSUME NEW q \in Below(host, p), IsLarge(host, q)
               PROVE  Safe(left.file) /\ Safe(left.dir)
    BY <1>2 DEF LeftSafe
  <2>1. q \in DOMAIN host
    BY DEF Below
  <2> QED
    BY <2>1 DEF Harmless
<1> QED
  BY <1>2, <1>3, <1>4, <1>5 DEF CallFilled

\* Crossing an entry out leaves every call as it was but for that entry.
LEMMA CrossedCalls ==
  ASSUME NEW calls \in Seq(FrameRec), Len(calls) >= 1, NEW p, NEW k \in 1 .. Len(calls)
  PROVE  /\ SameCall(CrossedOut(calls, p)[k], calls[k])
         /\ \A q \in calls[k].todo : q \in CrossedOut(calls, p)[k].todo \/ q = p
<1>1. Len(calls) \in Nat
  BY LenProperties
<1>2. CASE k = Len(calls)
  BY <1>2, CrossOut
<1>3. CASE k # Len(calls)
  <2>1. k \in 1 .. Len(calls) - 1
    BY <1>1, <1>3
  <2>2. CrossedOut(calls, p)[k] = calls[k]
    BY <2>1, CrossOut
  <2> QED
    BY <2>2 DEF SameCall
<1> QED
  BY <1>2, <1>3

\* walk has met p, whose inode will go to block b.
Met(h, new, done, img, more, calls, p) ==
  /\ ImageKnown(h, new, more, img)
  /\ \A q \in done : Finished(h, new, done, img, q, img[new[<<q, -1>>]])
  /\ \A k \in 1 .. Len(calls) : CallFilled(h, new, done, img, CrossedOut(calls, p)[k])
  /\ \A q \in Below(h, p) : q \notin done
  /\ done \subseteq DOMAIN h
  /\ \A q \in DOMAIN h :
       <<q, -1>> \in DOMAIN new <=> q \in done \/ q = p \/ \E k \in 1 .. Len(calls) : q = CrossedOut(calls, p)[k].node
  /\ \A q \in done : q # p /\ \A k \in 1 .. Len(calls) : q # CrossedOut(calls, p)[k].node

\* What Enter and Open have in common: an entry is met and gets a block for its
\* inode.
LEMMA MetContent ==
  ASSUME NEW h, IsTree(h), NEW blk, NEW taken, BlocksKnown(h, blk, taken),
         NEW calls, FramesKnown(h, blk, calls), NEW done, NEW img,
         Content(h, blk, done, taken, img, calls, NoFile), NEW p \in calls[Len(calls)].todo, NEW b
  PROVE  Met(h, Extended(blk, <<p, -1>>, b), done, img, taken \union {b}, calls, p)
<1> DEFINE new == Extended(blk, <<p, -1>>, b)
<1>1. /\ p \in DOMAIN h /\ \A i : <<p, i>> \notin DOMAIN blk
      /\ \A q \in Below(h, p) : \A i : <<q, i>> \notin DOMAIN blk
  BY FreshNode
<1>2. DOMAIN new = DOMAIN blk \union {<<p, -1>>} /\ Grows(blk, new)
  BY <1>1, ExtendedFacts
<1>3. /\ DoneKnown(h, blk, done, calls, NoFile) /\ ImageKnown(h, blk, taken, img)
      /\ \A q \in done : Finished(h, blk, done, img, q, img[blk[<<q, -1>>]])
      /\ \A k \in 1 .. Len(calls) : CallFilled(h, blk, done, img, calls[k])
  BY DEF Content
<1>4. DoneBlocks(h, blk, done)
  BY <1>3, DoneFacts
<1>5. calls \in Seq(FrameRec) /\ Len(calls) >= 1
  BY DEF FramesKnown
<1> HIDE DEF new
<1>6. \A q : Unmoved(blk, img, new, img, q)
  BY <1>2 DEF Unmoved
<1>7. ImageKnown(h, new, taken \union {b}, img)
  <2>1. \A x \in DOMAIN new : x[2] # -1 /\ x[2] # -2 => x \in DOMAIN blk /\ new[x] = blk[x]
    BY <1>2 DEF Grows
  <2> QED
    BY <1>3, <2>1 DEF ImageKnown
<1>8. \A q \in done : Finished(h, new, done, img, q, img[new[<<q, -1>>]])
  <2>1. DoneFinished(h, blk, done, img) /\ DoneUnmoved(blk, img, new, img, done)
    BY <1>3, <1>6 DEF DoneFinished, DoneUnmoved
  <2>2. FinishedAll(h, new, done, img, done)
    BY <1>4, <2>1, DoneKeeps
  <2> QED
    BY <2>2 DEF FinishedAll
<1>9. ASSUME NEW k \in 1 .. Len(calls) PROVE CallFilled(h, new, done, img, CrossedOut(calls, p)[k])
  <2>1. /\ SameCall(CrossedOut(calls, p)[k], calls[k])
        /\ \A q \in calls[k].todo : q \in CrossedOut(calls, p)[k].todo \/ q = p
    BY <1>5, CrossedCalls
  <2>2. calls[k] \in FrameRec /\ FrameKnown(h, blk, calls[k])
    BY <1>5 DEF FramesKnown
  <2>3. <<Parent(calls[k].node), -1>> \in DOMAIN blk
    BY <2>2, ParentBlock DEF FrameKnown
  <2>4. \A q \in calls[k].todo : q \in CrossedOut(calls, p)[k].todo \/ <<q, -1>> \in DOMAIN new
    BY <1>2, <2>1
  <2> QED
    BY <1>3, <1>4, <1>6, <2>1, <2>2, <2>3, <2>4, CallFilledKeeps
<1>10. \A q \in Below(h, p) : q \notin done
  BY <1>1, <1>4 DEF DoneBlocks
<1>11. \A k \in 1 .. Len(calls) : CrossedOut(calls, p)[k].node = calls[k].node
  BY <1>5, CrossedCalls DEF SameCall
<1>12. \A q \in DOMAIN h : <<q, -1>> \in DOMAIN blk <=> q \in done \/ \E k \in 1 .. Len(calls) : q = calls[k].node
  BY <1>3 DEF DoneKnown, OnStack
<1>13. \A q \in DOMAIN h : <<q, -1>> \in DOMAIN new <=> <<q, -1>> \in DOMAIN blk \/ q = p
  BY <1>2
<1>14. \A q \in DOMAIN h :
         <<q, -1>> \in DOMAIN new <=> q \in done \/ q = p \/ \E k \in 1 .. Len(calls) : q = CrossedOut(calls, p)[k].node
  BY <1>11, <1>12, <1>13
<1>15. \A q \in done : q # p /\ \A k \in 1 .. Len(calls) : q # CrossedOut(calls, p)[k].node
  <2>1. \A q \in done : <<q, -1>> \in DOMAIN blk
    BY <1>4 DEF DoneBlocks
  <2>2. \A q \in done : q # p
    BY <1>1, <2>1
  <2>3. \A q \in done : \A k \in 1 .. Len(calls) : q # calls[k].node
    BY <1>3 DEF DoneKnown, OnStack
  <2> QED
    BY <1>11, <2>2, <2>3
<1>16. done \subseteq DOMAIN h
  BY <1>4 DEF DoneBlocks
<1>17. Met(h, new, done, img, taken \union {b}, calls, p)
  BY <1>7, <1>8, <1>9, <1>10, <1>14, <1>15, <1>16 DEF Met
<1> QED
  BY <1>17 DEF new

\* Enter: a new call, in which . and .. lead where they should.
LEMMA EnterContent ==
  ASSUME NEW blk, Base(host, blk, used, freenum, frames, file), words \subseteq Nat, Harmless(host, words),
         NEW done, Content(host, blk, done, used, image, frames, file),
         NEW p \in DOMAIN host, Enter(p)
  PROVE  Content(host', Extended(blk, <<p, -1>>, First(used)), done, used', image', frames', file')
<1> DEFINE b == First(used)
           new == Extended(blk, <<p, -1>>, b)
           n == Len(frames)
<1>1. /\ IsTree(host) /\ BlocksKnown(host, blk, used) /\ FramesKnown(host, blk, frames)
      /\ file = NoFile /\ p \in frames[n].todo /\ host[p].dir /\ used # Block
      /\ host' = host /\ file' = NoFile /\ image' = image /\ used' = used \union {b}
      /\ n \in Nat /\ n >= 1 /\ frames \in Seq(FrameRec) /\ Top = frames[n]
  <2>1. file = NoFile /\ p \in Top.todo /\ host[p].dir /\ used # Block
        /\ host' = host /\ file' = file /\ image' = image /\ Takes(used \union {b})
    BY DEF Enter
  <2> QED
    BY <2>1, BaseTop DEF Top, Takes
<1>2. PICK f \in words, d \in words, ind \in words \union {Top.left.dir} :
        frames' = Append(CrossedOut(frames, p), NewFrame(p, b, Top.num, ind, [file |-> f, dir |-> d]))
  BY DEF Enter, CrossedOut
<1>3. b \in Block /\ b \notin used /\ b \in Nat
  BY <1>1, BaseTop, FirstFacts
<1>4. Content(host, blk, done, used, image, frames, NoFile)
  BY <1>1
<1> HIDE DEF b
<1>5. Met(host, new, done, image, used \union {b}, frames, p)
  BY <1>1, <1>4, MetContent
<1>6. DOMAIN new = DOMAIN blk \union {<<p, -1>>} /\ new[<<p, -1>>] = b
  BY DEF Extended
<1>7. /\ p # <<>> /\ <<Front(p), -1>> \in DOMAIN blk /\ \A i : <<p, i>> \notin DOMAIN blk
      /\ p \in Below(host, frames[n].node)
  BY <1>1, FreshNode
<1>8. Grows(blk, new)
  BY <1>7, ExtendedFacts
<1>9. BlocksKnown(host, new, used \union {b})
  BY <1>1, <1>3, <1>7, NeedFacts, ExtendedKnown
<1> HIDE DEF new
<1> DEFINE left == [file |-> f, dir |-> d]
           g == NewFrame(p, b, Top.num, ind, left)
<1>10. f \in Nat /\ d \in Nat /\ ind \in Nat /\ Top.num \in Nat
  BY BaseTop
<1>11. NewCall(host, g, p, b, Top.num, ind, left) /\ g.node = p
  <2>1. left \in [file : Nat, dir : Nat]
    BY <1>10
  <2>2. NewCall(host, g, p, b, Top.num, ind, left)
    BY <1>1, <1>3, <1>10, <2>1, NewFrameFacts
  <2> QED
    BY <2>2 DEF NewCall
<1>12. left.file \in words /\ left.dir \in words
  OBVIOUS
<1> HIDE DEF g, left
<1>13. OpenSafe(host, new, p, ind)
  <2>1. n \in 1 .. n
    BY <1>1
  <2>2. LeftSafe(host, blk, frames[n])
    BY <1>4, <2>1 DEF Content, CallFilled
  <2>3. ind \in words \/ ind = IF host[p].dir THEN frames[n].left.dir ELSE frames[n].left.file
    BY <1>1
  <2>4. <<p, -1>> \notin DOMAIN blk
    BY <1>7
  <2>5. OpenSafe(host, blk, p, ind)
    BY <1>1, <1>7, <2>2, <2>3, <2>4, NewSafe
  <2> QED
    BY <1>8, <2>5, OpenSafeKeeps
<1>14. Top.num = new[<<Parent(p), -1>>]
  <2>1. n \in 1 .. n
    BY <1>1
  <2>2. <<Top.node, -1>> \in DOMAIN blk /\ Top.num = blk[<<Top.node, -1>>]
    BY <1>1, <2>1 DEF FramesKnown, FrameKnown
  <2>3. Top.node = Front(p)
    BY <1>1, <1>7 DEF Below
  <2> QED
    BY <1>7, <1>8, <2>2, <2>3 DEF Parent, Grows
<1>15. CallFilled(host, new, done, image, g)
  <2>1. <<p, -2>> \notin DOMAIN new
    BY <1>6, <1>7
  <2>2. \A q \in Below(host, p) : q \notin done
    BY <1>5 DEF Met
  <2> QED
    BY <1>1, <1>3, <1>6, <1>9, <1>10, <1>11, <1>12, <1>13, <1>14, <2>1, <2>2, NewCallFilled
<1>16. /\ Len(frames') = n + 1 /\ frames'[n + 1] = g
       /\ \A k \in 1 .. n : frames'[k] = CrossedOut(frames, p)[k]
  <2>1. CrossedOut(frames, p) \in Seq(FrameRec) /\ Len(CrossedOut(frames, p)) = n
    BY <1>1, CrossOut
  <2>2. g \in FrameRec
    BY <1>11 DEF NewCall
  <2>3. frames' = Append(CrossedOut(frames, p), g)
    BY <1>2 DEF g, left
  <2> QED
    BY <2>1, <2>2, <2>3, AppendProperties
<1>17. \A k \in 1 .. n + 1 : k \in 1 .. n \/ k = n + 1
  BY <1>1
<1>18. \A k \in 1 .. Len(frames') : CallFilled(host, new, done, image, frames'[k])
  BY <1>5, <1>15, <1>16, <1>17 DEF Met
<1>19. \A q : OnStack(frames', NoFile, q) <=> q = p \/ \E k \in 1 .. n : q = CrossedOut(frames, p)[k].node
  <2>1. \A k \in 1 .. n : k \in 1 .. n + 1
    BY <1>1
  <2>2. n + 1 \in 1 .. n + 1
    BY <1>1
  <2> QED
    BY <1>11, <1>16, <1>17, <2>1, <2>2 DEF OnStack
<1>20. DoneKnown(host, new, done, frames', NoFile)
  BY <1>5, <1>19 DEF DoneKnown, Met
<1>21. Content(host, new, done, used', image, frames', NoFile)
  BY <1>1, <1>5, <1>18, <1>20 DEF Content, Met
<1> QED
  BY <1>1, <1>21 DEF new, b

\* Open: a new file, with no entries yet.
LEMMA OpenContent ==
  ASSUME NEW blk, Base(host, blk, used, freenum, frames, file), words \subseteq Nat, Harmless(host, words),
         NEW done, Content(host, blk, done, used, image, frames, file),
         NEW p \in DOMAIN host, Open(p)
  PROVE  Content(host', Extended(blk, <<p, -1>>, First(used)), done, used', image', frames', file')
<1> DEFINE b == First(used)
           new == Extended(blk, <<p, -1>>, b)
           n == Len(frames)
<1>1. /\ IsTree(host) /\ BlocksKnown(host, blk, used) /\ FramesKnown(host, blk, frames)
      /\ file = NoFile /\ p \in frames[n].todo /\ ~host[p].dir /\ used # Block
      /\ host' = host /\ image' = image /\ used' = used \union {b} /\ frames' = CrossedOut(frames, p)
      /\ n \in Nat /\ n >= 1 /\ frames \in Seq(FrameRec) /\ Top = frames[n]
  <2>1. file = NoFile /\ p \in Top.todo /\ ~host[p].dir /\ used # Block
        /\ host' = host /\ image' = image /\ Takes(used \union {b}) /\ frames' = CrossedOut(frames, p)
    BY DEF Open, CrossedOut
  <2> QED
    BY <2>1, BaseTop DEF Top, Takes
<1>2. PICK ind \in words \union {Top.left.file} :
        file' = [node |-> p, num |-> b, rest |-> host[p].size, index |-> 0,
                 inode |-> FileInode(p, ind, Blocks(host[p].size))]
  BY DEF Open, FileInode
<1>3. b \in Block /\ b \notin used /\ b \in Nat
  BY <1>1, BaseTop, FirstFacts
<1>4. Content(host, blk, done, used, image, frames, NoFile)
  BY <1>1
<1>5. Met(host, new, done, image, used \union {b}, frames, p)
  BY <1>1, <1>4, MetContent
<1>6. DOMAIN new = DOMAIN blk \union {<<p, -1>>}
  BY DEF Extended
<1>7. /\ p # <<>> /\ \A i : <<p, i>> \notin DOMAIN blk
      /\ p \in Below(host, frames[n].node)
  BY <1>1, FreshNode
<1>8. Grows(blk, new)
  BY <1>7, ExtendedFacts
<1> HIDE DEF new, b
<1> DEFINE ino == FileInode(p, ind, Blocks(host[p].size))
<1>9. ind \in Nat /\ Blocks(host[p].size) \in Nat
  <2>1. file' \in FileRec
    <3>1. Base(host', new, used', freenum', frames', file')
      BY OpenBase DEF new, b
    <3>2. file' # NoFile
      BY <1>2, <1>7 DEF NoFile
    <3> QED
      BY <3>1, <3>2 DEF Base, FileKnown
  <2>2. file'.inode \in InodeRec /\ file'.inode = ino
    BY <1>2, <2>1 DEF FileRec
  <2>3. ino.blocks = Blocks(host[p].size)
    BY DEF FileInode, NewInode
  <2> QED
    BY <2>2, <2>3, BaseTop DEF InodeRec
<1>10. OpenSafe(host, new, p, ind)
  <2>1. n \in 1 .. n
    BY <1>1
  <2>2. LeftSafe(host, blk, frames[n])
    BY <1>4, <2>1 DEF Content, CallFilled
  <2>3. ind \in words \/ ind = IF host[p].dir THEN frames[n].left.dir ELSE frames[n].left.file
    BY <1>1
  <2>4. <<p, -1>> \notin DOMAIN blk
    BY <1>7
  <2>5. OpenSafe(host, blk, p, ind)
    BY <1>1, <1>7, <2>2, <2>3, <2>4, NewSafe
  <2> QED
    BY <1>8, <2>5, OpenSafeKeeps
<1>11. Shape(host, new, image, p, ino, 0) /\ ino.blocks = Blocks(host[p].size) /\ ino.indirect = ind
  <2>1. <<p, -2>> \notin DOMAIN new
    BY <1>6, <1>7
  <2> DEFINE s == Blocks(host[p].size)
  <2>2. s \in Nat
    BY <1>9
  <2> HIDE DEF s
  <2>3. /\ Shape(host, new, image, p, FileInode(p, ind, s), 0)
        /\ FileInode(p, ind, s).blocks = s /\ FileInode(p, ind, s).indirect = ind
    BY <1>1, <1>9, <2>1, <2>2, NewFileShape
  <2> QED
    BY <2>3 DEF s
<1> HIDE DEF ino
<1>12. file'.node = p /\ file'.index = 0 /\ file'.inode = ino /\ file' # NoFile
  <2>1. file'.node = p /\ file'.index = 0 /\ file'.inode = ino
    BY <1>2 DEF ino
  <2> QED
    BY <1>7, <2>1 DEF NoFile
<1>13. FileFilled(host, new, image, file')
  <2>1. 0 .. 0 - 1 = {}
    OBVIOUS
  <2>2. FileEntries(new, image, p, ino, 0)
    BY <2>1 DEF FileEntries
  <2> QED
    BY <1>10, <1>11, <1>12, <2>2 DEF FileFilled
<1>14. Len(frames') = n
  BY <1>1, CrossOut
<1>15. \A k \in 1 .. Len(frames') : CallFilled(host, new, done, image, frames'[k])
  BY <1>1, <1>5, <1>14 DEF Met
<1>16. \A q : OnStack(frames', file', q) <=> q = p \/ \E k \in 1 .. n : q = CrossedOut(frames, p)[k].node
  BY <1>1, <1>12, <1>14 DEF OnStack
<1>17. DoneKnown(host, new, done, frames', file')
  BY <1>5, <1>16 DEF DoneKnown, Met
<1>18. Content(host, new, done, used', image, frames', file')
  BY <1>1, <1>5, <1>13, <1>15, <1>17 DEF Content, Met
<1> QED
  BY <1>1, <1>18 DEF new, b

\* The blocks of an image that change: what is in block b, the block of the
\* indirect entries of p, and no other.
Touched(img, img2, blk2, p, b) ==
  \A c \in Block : c # b => img2[c] = img[c] \/ (<<p, -2>> \in DOMAIN blk2 /\ c = blk2[<<p, -2>>])

\* Part y has been written, and p has got an entry.
Rewritten(h, blk, taken, blk2, taken2, p, y, img, img2) ==
  /\ BlocksKnown(h, blk, taken) /\ BlocksKnown(h, blk2, taken2) /\ Grows(blk, blk2)
  /\ \A x \in DOMAIN blk2 : x \in DOMAIN blk \/ x = y \/ x = <<p, -2>>
  /\ y \in DOMAIN blk2 /\ y[2] # -2 /\ Touched(img, img2, blk2, p, blk2[y])
ElsewhereSame(blk, img, blk2, img2, p, y) ==
  /\ \A q : q # p => Unmoved(blk, img, blk2, img2, q)
  /\ \A x \in DOMAIN blk : x # y /\ x # <<p, -2>> => img2[blk[x]] = img[blk[x]]

\* Attaching for p moves nothing of a node that is not p.
LEMMA UnmovedBy ==
  ASSUME NEW h, NEW blk, NEW taken, NEW blk2, NEW taken2, NEW p, NEW y, NEW img, NEW img2,
         Rewritten(h, blk, taken, blk2, taken2, p, y, img, img2)
  PROVE  ElsewhereSame(blk, img, blk2, img2, p, y)
<1>0. /\ BlocksKnown(h, blk, taken) /\ BlocksKnown(h, blk2, taken2) /\ Grows(blk, blk2)
      /\ \A x \in DOMAIN blk2 : x \in DOMAIN blk \/ x = y \/ x = <<p, -2>>
      /\ y \in DOMAIN blk2 /\ y[2] # -2 /\ Touched(img, img2, blk2, p, blk2[y])
  BY DEF Rewritten
<1>1. ASSUME NEW x \in DOMAIN blk, x # y, x # <<p, -2>> PROVE img2[blk[x]] = img[blk[x]]
  <2>1. x \in DOMAIN blk2 /\ blk2[x] = blk[x]
    BY <1>0 DEF Grows
  <2>2. blk[x] \in Block
    BY <1>0 DEF BlocksKnown
  <2>3. blk[x] # blk2[y] /\ (<<p, -2>> \in DOMAIN blk2 => blk[x] # blk2[<<p, -2>>])
    BY <1>0, <1>1, <2>1 DEF BlocksKnown
  <2> QED
    BY <1>0, <2>2, <2>3 DEF Touched
<1>2. ASSUME NEW q, q # p PROVE Unmoved(blk, img, blk2, img2, q)
  <2>1. <<q, -2>> # y /\ <<q, -2>> # <<p, -2>>
    BY <1>0, <1>2
  <2>2. <<q, -2>> \in DOMAIN blk2 => <<q, -2>> \in DOMAIN blk
    BY <1>0, <2>1
  <2> QED
    BY <1>0, <1>1, <2>1, <2>2 DEF Unmoved
<1> QED
  BY <1>1, <1>2 DEF ElsewhereSame

\* The field indirect of p does as little harm behind an attached block.
LEMMA OpenSafeAttached ==
  ASSUME NEW h, IsTree(h), NEW stack, Harmless(h, stack), NEW blk, NEW p \in DOMAIN h, NEW x, OpenSafe(h, blk, p, x),
         NEW blk2, Grows(blk, blk2), <<p, -1>> \in DOMAIN blk2,
         NEW x2, x2 = x \/ (IsLarge(h, p) /\ <<p, -2>> \in DOMAIN blk2)
  PROVE  OpenSafe(h, blk2, p, x2)
<1>1. CASE x2 = x
  BY <1>1, OpenSafeKeeps
<1>2. CASE IsLarge(h, p) /\ <<p, -2>> \in DOMAIN blk2
  <2>1. ASSUME p # <<>>, NEW q \in Below(h, Front(p)), IsLarge(h, q), h[q].dir = h[p].dir, <<q, -1>> \notin DOMAIN blk2
        PROVE  FALSE
    <3>1. q \in DOMAIN h /\ q # <<>> /\ Front(q) = Front(p)
      BY DEF Below
    <3>2. q = p
      BY <1>2, <2>1, <3>1 DEF Harmless
    <3> QED
      BY <2>1, <3>2
  <2> QED
    BY <1>2, <2>1 DEF OpenSafe
<1> QED
  BY <1>1, <1>2

\* An indirect block more leaves the other parts theirs.
LEMMA WithIndirectGrows ==
  ASSUME NEW blk, NEW p, NEW ino, NEW n, NEW taken, <<p, -2>> \in DOMAIN blk => ino.indirect # 0
  PROVE  /\ Grows(blk, WithIndirect(blk, p, ino, n, taken))
         /\ \A x \in DOMAIN WithIndirect(blk, p, ino, n, taken) : x \in DOMAIN blk \/ x = <<p, -2>>
<1>1. CASE NeedsIndirect(ino, n)
  <2>1. <<p, -2>> \notin DOMAIN blk
    BY <1>1 DEF NeedsIndirect
  <2> QED
    BY <1>1, <2>1 DEF WithIndirect, Extended, Grows
<1>2. CASE ~NeedsIndirect(ino, n)
  BY <1>2 DEF WithIndirect, Grows
<1> QED
  BY <1>1, <1>2

\* The calls of walk, when p is a node that none of them is about.
LEMMA CallsKeep ==
  ASSUME NEW h, NEW blk, NEW taken, BlocksKnown(h, blk, taken), NEW calls, FramesKnown(h, blk, calls),
         NEW done, DoneBlocks(h, blk, done), NEW img, NEW m \in 0 .. Len(calls),
         \A k \in 1 .. Len(calls) : CallFilled(h, blk, done, img, calls[k]),
         NEW blk2, NEW img2, \A k \in 1 .. m : Unmoved(blk, img, blk2, img2, calls[k].node),
         NEW done2, \A k \in 1 .. m : Below(h, calls[k].node) \intersect done2 = Below(h, calls[k].node) \intersect done
  PROVE  \A k \in 1 .. m : CallFilled(h, blk2, done2, img2, calls[k])
<1> SUFFICES ASSUME NEW k \in 1 .. m PROVE CallFilled(h, blk2, done2, img2, calls[k])
  OBVIOUS
<1>1. k \in 1 .. Len(calls)
  BY LenProperties DEF FramesKnown
<1>2. calls[k] \in FrameRec /\ FrameKnown(h, blk, calls[k]) /\ CallFilled(h, blk, done, img, calls[k])
  BY <1>1 DEF FramesKnown
<1>3. <<Parent(calls[k].node), -1>> \in DOMAIN blk
  BY <1>2, ParentBlock DEF FrameKnown
<1>4. SameCall(calls[k], calls[k]) /\ \A q \in calls[k].todo : q \in calls[k].todo \/ <<q, -1>> \in DOMAIN blk2
  BY DEF SameCall
<1>5. Unmoved(blk, img, blk2, img2, calls[k].node)
  OBVIOUS
<1>6. Below(h, calls[k].node) \intersect done2 = Below(h, calls[k].node) \intersect done
  OBVIOUS
<1> QED
  BY <1>2, <1>3, <1>4, <1>5, <1>6, CallFilledKeeps

\* CopyBlock: the data is in its block and the inode leads to it.
LEMMA CopyContent ==
  ASSUME NEW blk, Base(host, blk, used, freenum, frames, file), Harmless(host, words),
         NEW done, Content(host, blk, done, used, image, frames, file), CopyBlock
  PROVE  Content(host', CopyBlk(blk), done, used', image', frames', file')
<1> DEFINE b == First(used)
           p == file.node
           n == file.index
           ino == file.inode
           new == Extended(blk, <<p, n>>, b)
           size == IF file.rest > BlockSize THEN BlockSize ELSE file.rest
           data == [kind |-> "data", of |-> file.node, part |-> file.index, bytes |-> size]
           img == [image EXCEPT ![b] = data]
           a == Attach(file.inode, file.index, b, used \union {b}, img)
           new2 == WithIndirect(new, p, ino, n, used \union {b})
<1>1. /\ IsTree(host) /\ BlocksKnown(host, blk, used) /\ FramesKnown(host, blk, frames)
      /\ file # NoFile /\ FileKnown(host, blk, file) /\ file \in FileRec /\ used \subseteq Block
      /\ p \in DOMAIN host /\ ~host[p].dir /\ <<p, -1>> \in DOMAIN blk
      /\ n \in Nat /\ ino \in InodeRec /\ file.rest \in Nat
  <2>1. file # NoFile
    BY DEF CopyBlock
  <2>2. FileKnown(host, blk, file)
    BY <2>1, BaseTop DEF Base
  <2> QED
    BY <2>1, <2>2, BaseTop DEF FileKnown, FileRec
<1>2. /\ file.rest > 0 /\ used # Block /\ Room(used \union {b}, ino, n) /\ Takes(a.used)
      /\ file' = [file EXCEPT !.inode = a.inode, !.rest = @ - size, !.index = @ + 1]
      /\ image' = a.image /\ host' = host /\ frames' = frames /\ ~OutOfImage(ino, n)
  BY DEF CopyBlock
<1>3. b \in Block /\ b \notin used /\ b \in Nat
  BY <1>1, <1>2, FirstFacts
<1>4. /\ DoneKnown(host, blk, done, frames, file) /\ ImageKnown(host, blk, used, image)
      /\ \A q \in done : Finished(host, blk, done, image, q, image[blk[<<q, -1>>]])
      /\ \A k \in 1 .. Len(frames) : CallFilled(host, blk, done, image, frames[k])
      /\ FileFilled(host, blk, image, file)
  BY <1>1 DEF Content
<1>5. /\ Shape(host, blk, image, p, ino, n) /\ FileEntries(blk, image, p, ino, n)
      /\ ino.blocks = Blocks(host[p].size) /\ OpenSafe(host, blk, p, ino.indirect)
  BY <1>4 DEF FileFilled
<1>6. Attached(a, ino, n, b, used \union {b}, img)
  BY <1>2 DEF Attached
<1>7. /\ DOMAIN image = Block /\ DOMAIN img = Block /\ img[b] = data
      /\ \A c \in Block : c # b => img[c] = image[c]
  BY <1>3, <1>4 DEF ImageKnown
<1> HIDE DEF b, img, a
<1>8. Count(host, p) \in Nat /\ n < Count(host, p) /\ file.rest = host[p].size - n * BlockSize
  <2>1. file.rest = (IF n < Count(host, p) THEN host[p].size - n * BlockSize ELSE 0) /\ n <= Count(host, p)
    BY <1>1 DEF FileKnown
  <2>2. Count(host, p) \in Nat
    BY <1>1, TreeFacts
  <2> QED
    BY <1>1, <1>2, <2>1, <2>2
<1>9. data = Data(host, p, n)
  BY <1>8 DEF Data
<1> HIDE DEF data, size
<1>10. <<p, n>> \notin DOMAIN blk
  BY <1>1 DEF FileKnown
<1>11. BlocksKnown(host, new, used \union {b})
  <2>1. <<p, n>> \in Needs(host)
    <3>1. n \in 0 .. Count(host, p) - 1
      BY <1>1, <1>8
    <3> QED
      BY <1>1, <3>1, NeedFacts
  <2>2. p # <<>> => <<Front(p), -1>> \in DOMAIN blk
    BY <1>1 DEF BlocksKnown
  <2> QED
    BY <1>1, <1>3, <1>10, <2>1, <2>2, ExtendedKnown
<1>12. DOMAIN new = DOMAIN blk \union {<<p, n>>} /\ new[<<p, n>>] = b /\ Grows(blk, new)
  BY <1>10 DEF Extended, Grows
<1> HIDE DEF new
<1>13. Unmoved(blk, image, new, img, p)
  <2>1. <<p, -2>> \in DOMAIN new => <<p, -2>> \in DOMAIN blk
    BY <1>1, <1>12
  <2>2. \A x \in DOMAIN blk : blk[x] \in used
    BY <1>1 DEF BlocksKnown
  <2>3. \A x \in DOMAIN blk : blk[x] \in Block /\ blk[x] # b
    BY <1>1, <1>3, <2>2
  <2>4. <<p, -2>> \in DOMAIN blk => img[blk[<<p, -2>>]] = image[blk[<<p, -2>>]]
    BY <1>7, <2>3
  <2> QED
    BY <1>12, <2>1, <2>4 DEF Unmoved
<1>14. Shape(host, new, img, p, ino, n) /\ EntriesSame(image, ino, img, ino, n)
  BY <1>1, <1>5, <1>13, ShapeKeeps
<1>15. AttachContent(host, new, p, ino, n, b, img, a, new2)
  <2>1. \A c \in Block \ (used \union {b}) : img[c].kind = "blank"
    BY <1>4, <1>7 DEF ImageKnown
  <2>2. OpenSafe(host, new, p, ino.indirect)
    BY <1>5, <1>12, OpenSafeKeeps
  <2> QED
    BY <1>1, <1>2, <1>3, <1>6, <1>7, <1>8, <1>11, <1>14, <2>1, <2>2, AttachFills
<1>16. /\ Grows(new, new2) /\ Grows(blk, new2) /\ \A x \in DOMAIN new2 : x \in DOMAIN blk \/ x = <<p, n>> \/ x = <<p, -2>>
  <2>1. <<p, -2>> \in DOMAIN new => ino.indirect # 0
    BY <1>1, <1>12 DEF FileKnown
  <2>2. Grows(new, new2) /\ \A x \in DOMAIN new2 : x \in DOMAIN new \/ x = <<p, -2>>
    BY <2>1, WithIndirectGrows
  <2> QED
    BY <1>12, <2>2, GrowsOn
<1>17. CopyBlk(blk) = new2
  BY DEF CopyBlk, new2, new, b
<1>18. BlocksKnown(host, new2, used') /\ used \subseteq used' /\ FileKnown(host, new2, file') /\ file' # NoFile
       /\ file' \in FileRec /\ file'.node = p /\ file'.index = n + 1 /\ file'.inode = a.inode
  <2>1. Base(host', new2, used', freenum', frames', file')
    BY <1>17, CopyBase
  <2>2. file'.node = p /\ file'.index = n + 1 /\ file'.inode = a.inode
    BY <1>1, <1>2 DEF FileRec
  <2>3. p # <<>>
    BY <1>1 DEF Base, Below
  <2>4. file' # NoFile
    BY <2>2, <2>3 DEF NoFile
  <2>5. used' = a.used /\ used \union {b} \subseteq a.used
    <3>1. AttachEffect(a, ino, n, b, used \union {b}, img)
      BY <1>1, <1>3, <1>6, AttachFacts
    <3> QED
      BY <1>2, <3>1 DEF AttachEffect, Takes
  <2> HIDE DEF new2
  <2>6. BlocksKnown(host', new2, used') /\ FileKnown(host', new2, file')
    BY <2>1, <2>4 DEF Base
  <2>7. file' \in FileRec
    BY <2>6 DEF FileKnown
  <2>8. used \subseteq used'
    BY <2>5
  <2> QED
    BY <1>2, <2>2, <2>4, <2>6, <2>7, <2>8
<1> HIDE DEF new2
<1>19. /\ Shape(host, new2, image', p, a.inode, n + 1) /\ a.inode.blocks = ino.blocks
       /\ \A i \in 0 .. n - 1 : EntryAt(image', a.inode, i) = EntryAt(img, ino, i)
       /\ EntryAt(image', a.inode, n) = b
       /\ DOMAIN image' = Block
       /\ \A c \in Block : image'[c] = img[c] \/ (<<p, -2>> \in DOMAIN new2 /\ c = new2[<<p, -2>>])
       /\ a.inode.indirect = ino.indirect \/ (IsLarge(host, p) /\ <<p, -2>> \in DOMAIN new2)
  BY <1>2, <1>15 DEF AttachContent
<1>20. new2[<<p, n>>] = b /\ <<p, n>> \in DOMAIN new2 /\ <<p, -1>> \in DOMAIN new2
  BY <1>1, <1>12, <1>16 DEF Grows
<1>21. /\ \A q : q # p => Unmoved(blk, image, new2, image', q)
       /\ \A x \in DOMAIN blk : x # <<p, n>> /\ x # <<p, -2>> => image'[blk[x]] = image[blk[x]]
  <2>1. Touched(image, image', new2, p, new2[<<p, n>>])
    BY <1>7, <1>19, <1>20 DEF Touched
  <2>2. <<p, n>>[2] # -2
    BY <1>1
  <2> DEFINE y == <<p, n>>
  <2>3. Rewritten(host, blk, used, new2, used', p, y, image, image')
    BY <1>1, <1>16, <1>18, <1>20, <2>1, <2>2 DEF Rewritten
  <2>4. ElsewhereSame(blk, image, new2, image', p, y)
    BY <2>3, UnmovedBy
  <2> QED
    BY <2>4 DEF y, ElsewhereSame
<1>22. ImageKnown(host, new2, used', image')
  <2>1. \A c \in Block \ used' : image'[c].kind = "blank"
    <3> SUFFICES ASSUME NEW c \in Block \ used' PROVE image'[c].kind = "blank"
      OBVIOUS
    <3>1. c # b /\ c \notin used /\ ~(<<p, -2>> \in DOMAIN new2 /\ c = new2[<<p, -2>>])
      BY <1>18, <1>20 DEF BlocksKnown
    <3> QED
      BY <1>4, <1>7, <1>19, <3>1 DEF ImageKnown
  <2>2. \A x \in DOMAIN new2 : x[2] # -1 /\ x[2] # -2 => image'[new2[x]] = Data(host, x[1], x[2])
    <3> SUFFICES ASSUME NEW x \in DOMAIN new2, x[2] # -1, x[2] # -2 PROVE image'[new2[x]] = Data(host, x[1], x[2])
      OBVIOUS
    <3>1. CASE x \in DOMAIN blk
      <4>1. image'[blk[x]] = image[blk[x]] /\ new2[x] = blk[x]
        BY <1>10, <1>16, <1>21, <3>1 DEF Grows
      <4> QED
        BY <1>4, <3>1, <4>1 DEF ImageKnown
    <3>2. CASE x = <<p, n>>
      <4>1. ~(<<p, -2>> \in DOMAIN new2 /\ b = new2[<<p, -2>>])
        <5>1. <<p, -2>> # <<p, n>>
          BY <1>1
        <5> QED
          BY <1>18, <1>20, <5>1 DEF BlocksKnown
      <4>2. image'[b] = data
        BY <1>3, <1>7, <1>19, <4>1
      <4> QED
        BY <1>9, <1>20, <3>2, <4>2
    <3> QED
      BY <1>16, <3>1, <3>2
  <2> QED
    BY <1>19, <2>1, <2>2 DEF ImageKnown
<1>23. DoneBlocks(host, blk, done) /\ p \notin done
  BY <1>1, <1>4, DoneFacts DEF DoneKnown, OnStack
<1>24. \A q \in done : Finished(host, new2, done, image', q, image'[new2[<<q, -1>>]])
  <2>1. \A q \in done : Unmoved(blk, image, new2, image', q) /\ image'[blk[<<q, -1>>]] = image[blk[<<q, -1>>]]
    <3> SUFFICES ASSUME NEW q \in done
                 PROVE  Unmoved(blk, image, new2, image', q) /\ image'[blk[<<q, -1>>]] = image[blk[<<q, -1>>]]
      OBVIOUS
    <3>1. q # p /\ <<q, -1>> \in DOMAIN blk /\ <<q, -1>> # <<p, n>> /\ <<q, -1>> # <<p, -2>>
      BY <1>23 DEF DoneBlocks
    <3> QED
      BY <1>21, <3>1
  <2> QED
    <3>1. DoneFinished(host, blk, done, image) /\ DoneUnmoved(blk, image, new2, image', done)
      BY <1>4, <2>1 DEF DoneFinished, DoneUnmoved
    <3>2. FinishedAll(host, new2, done, image', done)
      BY <1>1, <1>23, <3>1, DoneKeeps
    <3> QED
      BY <3>2 DEF FinishedAll
<1>25. \A k \in 1 .. Len(frames) : CallFilled(host, new2, done, image', frames[k])
  <2>1. \A k \in 1 .. Len(frames) : Unmoved(blk, image, new2, image', frames[k].node)
    <3>1. \A k \in 1 .. Len(frames) : frames[k].node # p
      BY <1>1 DEF FramesKnown, FrameKnown
    <3> QED
      BY <1>21, <3>1
  <2>2. Len(frames) \in 0 .. Len(frames)
    BY BaseTop
  <2> QED
    BY <1>1, <1>4, <1>23, <2>1, <2>2, CallsKeep
<1>26. FileFilled(host, new2, image', file')
  <2>1. FileEntries(new2, image', p, a.inode, n + 1)
    <3> SUFFICES ASSUME NEW i \in 0 .. (n + 1) - 1
                 PROVE  <<p, i>> \in DOMAIN new2 /\ EntryAt(image', a.inode, i) = new2[<<p, i>>]
      BY DEF FileEntries
    <3>1. CASE i = n
      BY <1>19, <1>20, <3>1
    <3>2. CASE i # n
      <4>1. i \in 0 .. n - 1
        BY <1>1, <3>2
      <4>2. <<p, i>> \in DOMAIN blk /\ EntryAt(image, ino, i) = blk[<<p, i>>]
        BY <1>5, <4>1 DEF FileEntries
      <4>3. EntryAt(image', a.inode, i) = EntryAt(image, ino, i)
        BY <1>14, <1>19, <4>1 DEF EntriesSame
      <4> QED
        BY <1>16, <4>2, <4>3 DEF Grows
    <3> QED
      BY <3>1, <3>2
  <2>2. OpenSafe(host, new2, p, a.inode.indirect)
    BY <1>1, <1>5, <1>16, <1>19, <1>20, OpenSafeAttached
  <2> QED
    BY <1>5, <1>18, <1>19, <2>1, <2>2 DEF FileFilled
<1>27. DoneKnown(host, new2, done, frames, file')
  <2>1. \A q : OnStack(frames, file', q) <=> OnStack(frames, file, q)
    BY <1>1, <1>18 DEF OnStack
  <2>2. \A q \in DOMAIN host : <<q, -1>> \in DOMAIN new2 <=> <<q, -1>> \in DOMAIN blk
    <3>1. \A q : <<q, -1>> # <<p, n>> /\ <<q, -1>> # <<p, -2>>
      BY <1>1
    <3> QED
      BY <1>16, <3>1 DEF Grows
  <2> QED
    BY <1>4, <2>1, <2>2 DEF DoneKnown
<1>28. Content(host, new2, done, used', image', frames, file')
  BY <1>22, <1>24, <1>25, <1>26, <1>27 DEF Content
<1> QED
  BY <1>2, <1>17, <1>28

\* The inode cino of c is ready, and goes into the directory of the innermost
\* call; that call finds its indirect field on the stack later.
Ready(h, blk, done, img, calls, c, cino) ==
  /\ c \in Below(h, calls[Len(calls)].node) /\ <<c, -1>> \in DOMAIN blk
  /\ Finished(h, blk, done \union {c}, img, c, cino) /\ OpenSafe(h, blk, c, cino.indirect)
  /\ done \subseteq DOMAIN h /\ c \notin done
  /\ \A q \in DOMAIN h :
       <<q, -1>> \in DOMAIN blk <=> q \in done \/ q = c \/ \E k \in 1 .. Len(calls) : q = calls[k].node
  /\ \A q \in done : \A k \in 1 .. Len(calls) : q # calls[k].node
  /\ \A k \in 1 .. Len(calls) : c # calls[k].node
LeftAfter(h, f, g, c, x) ==
  /\ h[c].dir => g.left.dir = x /\ g.left.file = f.left.file
  /\ ~h[c].dir => g.left.file = x /\ g.left.dir = f.left.dir

\* What an inode that is finished leaves on the stack is harmless to the next.
LEMMA LeftSafeAfter ==
  ASSUME NEW h, NEW blk, NEW f, LeftSafe(h, blk, f), NEW c \in Below(h, f.node), NEW x, OpenSafe(h, blk, c, x),
         NEW g, g.node = f.node, LeftAfter(h, f, g, c, x), NEW blk2, Grows(blk, blk2),
         \A q \in DOMAIN h : h[q].dir \in BOOLEAN
  PROVE  LeftSafe(h, blk2, g)
<1> SUFFICES ASSUME NEW q \in Below(h, f.node), IsLarge(h, q), <<q, -1>> \notin DOMAIN blk2
             PROVE  Safe(IF h[q].dir THEN g.left.dir ELSE g.left.file)
  BY DEF LeftSafe
<1>1. c # <<>> /\ Front(c) = f.node /\ <<q, -1>> \notin DOMAIN blk /\ q \in DOMAIN h /\ c \in DOMAIN h
  BY DEF Below, Grows
<1>2. CASE h[q].dir = h[c].dir
  <2>1. Safe(x)
    BY <1>1, <1>2 DEF OpenSafe
  <2> QED
    BY <1>1, <1>2, <2>1 DEF LeftAfter
<1>3. CASE h[q].dir # h[c].dir
  <2>1. Safe(IF h[q].dir THEN f.left.dir ELSE f.left.file)
    BY <1>1 DEF LeftSafe
  <2>2. h[q].dir => ~h[c].dir
    BY <1>1, <1>3
  <2>3. ~h[q].dir => h[c].dir
    BY <1>1, <1>3
  <2> QED
    BY <2>1, <2>2, <2>3 DEF LeftAfter
<1> QED
  BY <1>2, <1>3

\* What the innermost call has done then.
Entered(calls, blk, taken, c, cino, img, img1, g, blk2, new) ==
  /\ img1 = [img EXCEPT ![blk[<<c, -1>>]] = cino]
  /\ new = [calls EXCEPT ![Len(calls)] = g]
  /\ LET top == calls[Len(calls)]
     IN  blk2 = WithIndirect(blk, top.node, top.inode, top.next, taken)

\* What CloseFile and Leave have in common: an inode goes to its block and the
\* block into its directory.
LEMMA EntryContent ==
  ASSUME NEW h, IsTree(h), NEW stack, Harmless(h, stack),
         NEW blk, NEW taken, BlocksKnown(h, blk, taken),
         NEW calls, FramesKnown(h, blk, calls), Counted(h, calls, TRUE), NEW done, NEW img,
         ImageKnown(h, blk, taken, img),
         \A q \in done : Finished(h, blk, done, img, q, img[blk[<<q, -1>>]]),
         \A k \in 1 .. Len(calls) : CallFilled(h, blk, done, img, calls[k]),
         NEW c, NEW cino, Ready(h, blk, done, img, calls, c, cino),
         NEW a, NEW img1, Attached(a, calls[Len(calls)].inode, calls[Len(calls)].next, blk[<<c, -1>>], taken, img1),
         ~OutOfImage(calls[Len(calls)].inode, calls[Len(calls)].next),
         NEW g, WentOn(calls[Len(calls)], g, a.inode), LeftAfter(h, calls[Len(calls)], g, c, cino.indirect),
         NEW blk2, NEW new, Entered(calls, blk, taken, c, cino, img, img1, g, blk2, new)
  PROVE  Content(h, blk2, done \union {c}, a.used, a.image, new, NoFile)
<1> DEFINE m == Len(calls)
           top == calls[m]
           p == top.node
           n == top.next
           ino == top.inode
           b == blk[<<c, -1>>]
           done2 == done \union {c}
           img2 == a.image
<1>1. m \in Nat /\ m >= 1 /\ m \in 1 .. m /\ calls \in Seq(FrameRec) /\ top \in FrameRec
  BY LenProperties DEF FramesKnown
<1>2. /\ FrameKnown(h, blk, top) /\ taken \subseteq Block /\ CallFilled(h, blk, done, img, top)
      /\ ino \in InodeRec /\ n \in Nat /\ n >= 2 /\ p \in DOMAIN h /\ <<p, -1>> \in DOMAIN blk
  <2>1. FrameKnown(h, blk, top) /\ CallFilled(h, blk, done, img, top)
    BY <1>1 DEF FramesKnown
  <2>2. ino \in InodeRec /\ n \in Nat
    BY <1>1 DEF FrameRec
  <2> QED
    BY <2>1, <2>2 DEF FrameKnown, BlocksKnown
<1>3. /\ c \in Below(h, p) /\ c \in DOMAIN h /\ c # <<>> /\ Front(c) = p /\ <<c, -1>> \in DOMAIN blk /\ c \notin done
      /\ Finished(h, blk, done2, img, c, cino) /\ OpenSafe(h, blk, c, cino.indirect)
      /\ done \subseteq DOMAIN h
  BY DEF Ready, Below
<1>4. DoneBlocks(h, blk, done) /\ DoneBlocks(h, blk, done2)
  <2>1. \A q \in done2 : q \in DOMAIN h /\ <<q, -1>> \in DOMAIN blk
    BY <1>3 DEF Ready
  <2> QED
    BY <2>1, ParentBlock DEF DoneBlocks
<1>5. EntryBlocks(h, blk, calls, taken, a, g)
  <2>1. b \in taken
    BY <1>3 DEF BlocksKnown
  <2>2. b \in Nat
    BY <1>2, <2>1 DEF Block
  <2> QED
    BY <2>2, EntryAttached
<1>6. /\ BlocksKnown(h, blk2, a.used) /\ Grows(blk, blk2) /\ \A x \in DOMAIN blk2 : x \in DOMAIN blk \/ x = <<p, -2>>
      /\ taken \subseteq a.used /\ a.used \subseteq Block
  <2>1. blk2 = WithIndirect(blk, p, ino, n, taken)
    BY DEF Entered
  <2>2. /\ AttachBlocks(h, blk, p, ino, n, taken, a) /\ taken \subseteq a.used /\ a.used \subseteq Block
    BY <1>5 DEF EntryBlocks
  <2>3. /\ BlocksKnown(h, blk2, a.used) /\ Grows(blk, blk2)
        /\ DOMAIN blk2 \subseteq DOMAIN blk \union {<<p, -2>>}
    BY <2>1, <2>2 DEF AttachBlocks
  <2> QED
    BY <2>2, <2>3
<1>7. b \in Block /\ b \in taken /\ b \in Nat /\ \A x \in DOMAIN blk : x # <<c, -1>> => blk[x] # b
  <2>1. b \in taken /\ \A x \in DOMAIN blk : x # <<c, -1>> => blk[x] # b
    BY <1>3 DEF BlocksKnown
  <2>2. b \in Block
    BY <1>2, <2>1
  <2> QED
    BY <2>1, <2>2 DEF Block
<1>8. /\ DOMAIN img = Block /\ DOMAIN img1 = Block /\ img1[b] = cino
      /\ \A d \in Block : d # b => img1[d] = img[d]
  BY <1>7 DEF ImageKnown, Entered
<1> HIDE DEF b
<1>9. \A x \in DOMAIN blk : blk[x] \in Block
  BY DEF BlocksKnown
<1>10. Unmoved(blk, img, blk, img1, p)
  <2>1. <<p, -2>> # <<c, -1>>
    OBVIOUS
  <2>2. <<p, -2>> \in DOMAIN blk => img1[blk[<<p, -2>>]] = img[blk[<<p, -2>>]]
    BY <1>7, <1>8, <1>9, <2>1
  <2> QED
    BY <2>2 DEF Unmoved, Grows
<1>11. /\ Shape(h, blk, img, p, ino, n) /\ DirEntries(h, blk, done, img, p, ino, n)
       /\ \A q \in Below(h, p) : q \in top.todo \/ <<q, -1>> \in DOMAIN blk
       /\ OpenSafe(h, blk, p, ino.indirect) /\ LeftSafe(h, blk, top)
  BY <1>2 DEF CallFilled
<1>12. Shape(h, blk, img1, p, ino, n) /\ EntriesSame(img, ino, img1, ino, n)
  BY <1>2, <1>10, <1>11, ShapeKeeps
<1>13. n < Count(h, p) /\ Count(h, p) \in Nat
  <2>1. n + Cardinality(top.todo) + 1 = Count(h, p)
    BY <1>1 DEF Counted
  <2>2. top.todo \subseteq DOMAIN h
    BY <1>2 DEF FrameKnown, Below
  <2>3. Cardinality(top.todo) \in Nat
    BY <2>2, TreeFacts, FS_Subset, FS_CardinalityType
  <2> QED
    BY <1>2, <2>1, <2>3
<1>14. AttachContent(h, blk, p, ino, n, b, img1, a, blk2)
  <2>1. \A d \in Block \ taken : img1[d].kind = "blank"
    BY <1>7, <1>8 DEF ImageKnown
  <2>2. Attached(a, ino, n, b, taken, img1)
    BY DEF b
  <2>3. AttachContent(h, blk, p, ino, n, b, img1, a, WithIndirect(blk, p, ino, n, taken))
    BY <1>2, <1>7, <1>8, <1>11, <1>12, <1>13, <2>1, <2>2, AttachFills
  <2> QED
    BY <2>3 DEF Entered
<1>15. /\ Shape(h, blk2, img2, p, a.inode, n + 1)
       /\ \A i \in 0 .. n - 1 : EntryAt(img2, a.inode, i) = EntryAt(img1, ino, i)
       /\ EntryAt(img2, a.inode, n) = b
       /\ DOMAIN img2 = Block
       /\ \A d \in Block : img2[d] = img1[d] \/ (<<p, -2>> \in DOMAIN blk2 /\ d = blk2[<<p, -2>>])
       /\ a.inode.indirect = ino.indirect \/ (IsLarge(h, p) /\ <<p, -2>> \in DOMAIN blk2)
  BY <1>14 DEF AttachContent
<1>16. <<c, -1>> \in DOMAIN blk2 /\ blk2[<<c, -1>>] = b /\ <<p, -1>> \in DOMAIN blk2
  BY <1>2, <1>3, <1>6 DEF Grows, b
<1>a. p = calls[m].node /\ p = top.node /\ \A x \in DOMAIN blk2 : blk2[x] \in a.used
  BY <1>6 DEF BlocksKnown
<1>b. \A q : q \in done2 <=> q \in done \/ q = c
  OBVIOUS
<1> HIDE DEF p, n, ino, img2, done2
<1>17. /\ \A q : q # p => Unmoved(blk, img, blk2, img2, q)
       /\ \A x \in DOMAIN blk : x # <<c, -1>> /\ x # <<p, -2>> => img2[blk[x]] = img[blk[x]]
  <2>1. Touched(img, img2, blk2, p, blk2[<<c, -1>>])
    BY <1>8, <1>15, <1>16 DEF Touched
  <2> DEFINE y == <<c, -1>>
  <2>2. y[2] # -2
    OBVIOUS
  <2>3. Rewritten(h, blk, taken, blk2, a.used, p, y, img, img2)
    BY <1>6, <1>16, <2>1, <2>2 DEF Rewritten
  <2>4. ElsewhereSame(blk, img, blk2, img2, p, y)
    BY <2>3, UnmovedBy
  <2> QED
    BY <2>4 DEF y, ElsewhereSame
<1>18. img2[b] = cino
  <2>1. <<p, -2>> # <<c, -1>>
    OBVIOUS
  <2>2. ~(<<p, -2>> \in DOMAIN blk2 /\ b = blk2[<<p, -2>>])
    BY <1>6, <1>16, <2>1 DEF BlocksKnown
  <2> QED
    BY <1>7, <1>8, <1>15, <2>2
<1>19. ImageKnown(h, blk2, a.used, img2)
  <2>1. \A d \in Block \ a.used : img2[d].kind = "blank"
    <3> SUFFICES ASSUME NEW d \in Block \ a.used PROVE img2[d].kind = "blank"
      OBVIOUS
    <3>1. d \notin taken /\ d # b /\ ~(<<p, -2>> \in DOMAIN blk2 /\ d = blk2[<<p, -2>>])
      BY <1>6, <1>7, <1>a
    <3>2. img2[d] = img1[d] /\ img1[d] = img[d]
      BY <1>8, <1>15, <3>1
    <3> QED
      BY <3>1, <3>2 DEF ImageKnown
  <2>2. \A x \in DOMAIN blk2 : x[2] # -1 /\ x[2] # -2 => img2[blk2[x]] = Data(h, x[1], x[2])
    <3> SUFFICES ASSUME NEW x \in DOMAIN blk2, x[2] # -1, x[2] # -2 PROVE img2[blk2[x]] = Data(h, x[1], x[2])
      OBVIOUS
    <3>1. x # <<p, -2>> /\ x # <<c, -1>>
      OBVIOUS
    <3>2. x \in DOMAIN blk /\ blk2[x] = blk[x]
      BY <1>6, <3>1 DEF Grows
    <3>3. img2[blk[x]] = img[blk[x]]
      BY <1>17, <3>1, <3>2
    <3> QED
      BY <3>2, <3>3 DEF ImageKnown
  <2> QED
    BY <1>15, <2>1, <2>2 DEF ImageKnown
<1>20. ASSUME NEW q \in done2 PROVE q # p
  <2>1. q \in done => q # p
    BY <1>1, <1>a DEF Ready
  <2>2. c # p
    BY <1>1, <1>a DEF Ready
  <2> QED
    BY <1>b, <2>1, <2>2
<1>21. \A q \in done : Finished(h, blk2, done2, img2, q, img2[blk2[<<q, -1>>]])
  <2>1. ASSUME NEW q \in done
        PROVE  Unmoved(blk, img, blk2, img2, q) /\ img2[blk[<<q, -1>>]] = img[blk[<<q, -1>>]]
    <3>1. q # p /\ q # c /\ <<q, -1>> \in DOMAIN blk
      BY <1>3, <1>4, <1>20, <1>b DEF DoneBlocks
    <3>2. <<q, -1>> # <<c, -1>> /\ <<q, -1>> # <<p, -2>>
      BY <3>1
    <3> QED
      BY <1>17, <3>1, <3>2
  <2>2. done \subseteq done2 /\ DoneBlocks(h, blk, done) /\ IsTree(h)
    BY <1>4, <1>b
  <2>3. DoneFinished(h, blk, done, img) /\ DoneUnmoved(blk, img, blk2, img2, done)
    BY <2>1 DEF DoneFinished, DoneUnmoved
  <2>4. FinishedAll(h, blk2, done2, img2, done)
    BY <2>2, <2>3, DoneKeeps
  <2> QED
    BY <2>4 DEF FinishedAll
<1>22. Finished(h, blk2, done2, img2, c, img2[blk2[<<c, -1>>]])
  <2>1. c \in done2 /\ done2 \subseteq done2 /\ c # p
    BY <1>20, <1>b
  <2>2. Unmoved(blk, img, blk2, img2, c)
    BY <1>17, <2>1
  <2>3. Finished(h, blk2, done2, img2, c, cino)
    BY <1>3, <1>4, <2>1, <2>2, FinishedKeeps
  <2> QED
    BY <1>16, <1>18, <2>3
<1>23. \A q \in done2 : Finished(h, blk2, done2, img2, q, img2[blk2[<<q, -1>>]])
  BY <1>21, <1>22, <1>b
<1>24. new \in Seq(FrameRec) /\ Len(new) = m /\ new[m] = g /\ \A k \in 1 .. m : k # m => new[k] = calls[k]
  <2>1. g \in FrameRec
    BY DEF WentOn
  <2> QED
    BY <1>1, <2>1, GoOn DEF Entered
<1>25. \A k \in 1 .. m - 1 : CallFilled(h, blk2, done2, img2, calls[k])
  <2>1. ASSUME NEW k \in 1 .. m - 1
        PROVE  /\ Unmoved(blk, img, blk2, img2, calls[k].node)
               /\ Below(h, calls[k].node) \intersect done2 = Below(h, calls[k].node) \intersect done
    <3>1. k \in 1 .. m
      BY <1>1
    <3>2. calls[k].node # p
      <4>1. Len(calls[k].node) = k - 1 /\ Len(p) = m - 1
        BY <1>1, <1>a, <3>1 DEF FramesKnown
      <4> QED
        BY <1>1, <4>1
    <3>3. c \notin Below(h, calls[k].node)
      BY <1>3, <3>2 DEF Below
    <3> QED
      BY <1>17, <1>b, <3>2, <3>3
  <2>2. m - 1 \in 0 .. Len(calls)
    BY <1>1
  <2> QED
    BY <1>4, <2>1, <2>2, CallsKeep
<1>26. /\ g \in FrameRec /\ g.node = p /\ g.todo = top.todo /\ g.inode = a.inode /\ g.next = n + 1
  BY DEF WentOn, p, n
<1>27. DirEntries(h, blk2, done2, img2, p, a.inode, n + 1)
  <2>1. EntriesSame(img, ino, img2, a.inode, n)
    BY <1>12, <1>15 DEF EntriesSame
  <2>2. <<Parent(p), -1>> \in DOMAIN blk /\ \A q \in done : <<q, -1>> \in DOMAIN blk
    BY <1>2, <1>4, ParentBlock DEF DoneBlocks
  <2>3. DirEntries(h, blk2, done, img2, p, a.inode, n)
    BY <1>2, <1>6, <1>11, <2>1, <2>2, DirEntriesKeep
  <2>4. \A q \in done : <<q, -1>> \in DOMAIN blk2
    BY <1>6, <2>2 DEF Grows
  <2>5. \A x, y \in DOMAIN blk2 : blk2[x] = blk2[y] => x = y
    BY <1>6 DEF BlocksKnown
  <2> QED
    BY <1>2, <1>3, <1>15, <1>16, <2>3, <2>4, <2>5, DirEntriesMore DEF done2
<1>28. CallFilled(h, blk2, done2, img2, g)
  <2>1. \A q \in Below(h, p) : q \in g.todo \/ <<q, -1>> \in DOMAIN blk2
    BY <1>6, <1>11, <1>26 DEF Grows
  <2>2. OpenSafe(h, blk2, p, a.inode.indirect)
    <3> DEFINE x2 == a.inode.indirect
               x == ino.indirect
    <3>1. OpenSafe(h, blk, p, x) /\ (x2 = x \/ (IsLarge(h, p) /\ <<p, -2>> \in DOMAIN blk2))
      BY <1>11, <1>15
    <3> HIDE DEF x, x2
    <3>2. OpenSafe(h, blk2, p, x2)
      BY <1>2, <1>6, <1>16, <3>1, OpenSafeAttached
    <3> QED
      BY <3>2 DEF x2
  <2>3. LeftSafe(h, blk2, g)
    <3>1. \A q \in DOMAIN h : h[q].dir \in BOOLEAN
      BY TreeFacts DEF IsTree
    <3> QED
      BY <1>3, <1>6, <1>11, <1>26, <1>a, <3>1, LeftSafeAfter
  <2> QED
    BY <1>15, <1>26, <1>27, <2>1, <2>2, <2>3 DEF CallFilled
<1>29. \A k \in 1 .. Len(new) : CallFilled(h, blk2, done2, img2, new[k])
  <2>1. \A k \in 1 .. m : k = m \/ k \in 1 .. m - 1
    BY <1>1
  <2> QED
    BY <1>24, <1>25, <1>28, <2>1
<1>30. DoneKnown(h, blk2, done2, new, NoFile)
  <2>1. \A k \in 1 .. m : new[k].node = calls[k].node
    BY <1>24, <1>26, <1>a
  <2>2. \A q : OnStack(new, NoFile, q) <=> \E k \in 1 .. m : q = calls[k].node
    BY <1>24, <2>1 DEF OnStack
  <2>3. \A q \in DOMAIN h : <<q, -1>> \in DOMAIN blk2 <=> <<q, -1>> \in DOMAIN blk
    <3>1. \A q : <<q, -1>> # <<p, -2>>
      OBVIOUS
    <3> QED
      BY <1>6, <3>1 DEF Grows
  <2> QED
    BY <1>3, <1>b, <2>2, <2>3 DEF DoneKnown, Ready
<1> QED
  BY <1>19, <1>23, <1>29, <1>30 DEF Content, img2, done2

\* CloseFile: the file is done.
LEMMA CloseContent ==
  ASSUME NEW blk, Base(host, blk, used, freenum, frames, file), Harmless(host, words),
         NEW done, Content(host, blk, done, used, image, frames, file), CloseFile
  PROVE  Content(host', CloseBlk(blk), done \union {file.node}, used', image', frames', file')
<1> DEFINE c == file.node
           cino == file.inode
           img == [image EXCEPT ![file.num] = file.inode]
           a == Attach(Top.inode, Top.next, file.num, used, img)
           g == [Top EXCEPT !.inode = a.inode, !.next = @ + 1, !.left.file = file.inode.indirect]
<1>1. /\ IsTree(host) /\ BlocksKnown(host, blk, used) /\ FramesKnown(host, blk, frames)
      /\ file # NoFile /\ Counted(host, frames, TRUE) /\ FileKnown(host, blk, file) /\ file \in FileRec
      /\ c \in Below(host, Top.node) /\ ~host[c].dir /\ Top = frames[Len(frames)] /\ Top \in FrameRec
  <2>1. file # NoFile
    BY DEF CloseFile
  <2>2. Counted(host, frames, TRUE) /\ FileKnown(host, blk, file) /\ c \in Below(host, Top.node)
    BY <2>1, BaseTop DEF Base, Top
  <2> QED
    BY <2>1, <2>2, BaseTop DEF FileKnown, Top
<1>2. /\ Room(used, Top.inode, Top.next) /\ Takes(a.used) /\ frames' = [frames EXCEPT ![Len(frames)] = g]
      /\ host' = host /\ file' = NoFile /\ image' = a.image /\ ~OutOfImage(Top.inode, Top.next) /\ file.rest = 0
  BY DEF CloseFile
<1>3. Attached(a, Top.inode, Top.next, file.num, used, img)
  BY <1>2 DEF Attached
<1>4. AfterFile(Top, g, a.inode, file.inode.indirect)
  BY DEF AfterFile
<1> HIDE DEF a, g
<1>5. file.num = blk[<<c, -1>>] /\ <<c, -1>> \in DOMAIN blk /\ c \in DOMAIN host /\ file.num \in Nat
      /\ file.inode.indirect \in Nat
  BY <1>1 DEF FileKnown, FileRec, InodeRec
<1>6. /\ DoneKnown(host, blk, done, frames, file) /\ ImageKnown(host, blk, used, image)
      /\ \A q \in done : Finished(host, blk, done, image, q, image[blk[<<q, -1>>]])
      /\ \A k \in 1 .. Len(frames) : CallFilled(host, blk, done, image, frames[k])
      /\ FileFilled(host, blk, image, file)
  BY <1>1 DEF Content
<1>7. a.inode \in InodeRec
  <2>1. AttachEffect(a, Top.inode, Top.next, file.num, used, img)
    BY <1>3, <1>5, BaseTop, AttachFacts
  <2> QED
    BY <2>1 DEF AttachEffect
<1>8. WentOn(Top, g, a.inode) /\ LeftAfter(host, Top, g, c, cino.indirect)
  BY <1>1, <1>4, <1>5, <1>7, WentOnFacts DEF LeftAfter
<1>9. file.index = Count(host, c)
  <2>1. /\ file.rest = (IF file.index < Count(host, c) THEN host[c].size - file.index * BlockSize ELSE 0)
        /\ file.index <= Count(host, c) /\ file.index \in Nat
    BY <1>1 DEF FileKnown, FileRec
  <2>2. Count(host, c) \in Nat
    BY <1>1, <1>5, TreeFacts
  <2>3. file.index < Count(host, c) => host[c].size - file.index * BlockSize > 0
    <3> DEFINE i == file.index
               m == i * BlockSize
    <3>1. i \in Nat /\ BlockSize \in Nat /\ host[c].size \in Nat
      BY <1>1, <1>5, <2>1, TreeFacts, Sizes
    <3>2. m \in Nat
      BY <3>1
    <3>3. i < Count(host, c) => m < host[c].size
      BY <1>1, <1>5, <3>1, FileCount
    <3> HIDE DEF m
    <3>4. i < Count(host, c) => host[c].size - m > 0
      BY <3>1, <3>2, <3>3
    <3> QED
      BY <3>4 DEF m
  <2> QED
    BY <1>2, <2>1, <2>2, <2>3
<1>10. Ready(host, blk, done, image, frames, c, cino)
  <2>1. Finished(host, blk, done \union {c}, image, c, cino) /\ OpenSafe(host, blk, c, cino.indirect)
    BY <1>1, <1>6, <1>9 DEF FileFilled, Finished
  <2>2. \A q : OnStack(frames, file, q) <=> q = c \/ \E k \in 1 .. Len(frames) : q = frames[k].node
    BY <1>1 DEF OnStack
  <2>3. \A k \in 1 .. Len(frames) : c # frames[k].node
    BY <1>1 DEF FramesKnown, FrameKnown
  <2>4. c \in Below(host, frames[Len(frames)].node)
    BY <1>1
  <2> QED
    BY <1>5, <1>6, <2>1, <2>2, <2>3, <2>4 DEF Ready, DoneKnown
<1>11. Entered(frames, blk, used, c, cino, image, img, g, CloseBlk(blk), frames')
  BY <1>1, <1>2, <1>5 DEF Entered, CloseBlk
<1> HIDE DEF img, c, cino
<1>12. Content(host, CloseBlk(blk), done \union {c}, a.used, a.image, frames', NoFile)
  BY <1>1, <1>2, <1>3, <1>5, <1>6, <1>8, <1>10, <1>11, EntryContent
<1>13. used' = a.used
  BY <1>2 DEF Takes
<1> QED
  BY <1>2, <1>12, <1>13 DEF c

\* The calls that stay when the innermost one returns.
LEMMA FrontKnown ==
  ASSUME NEW h, NEW blk, NEW calls, FramesKnown(h, blk, calls), Counted(h, calls, FALSE), Len(calls) > 1
  PROVE  FramesKnown(h, blk, Front(calls)) /\ Counted(h, Front(calls), TRUE)
<1> DEFINE n == Len(calls) - 1
           up == Front(calls)
<1>1. /\ up \in Seq(FrameRec) /\ Len(up) = n /\ \A k \in 1 .. n : up[k] = calls[k]
      /\ n \in Nat /\ n >= 1 /\ Len(calls) \in Nat
  <2>1. calls \in Seq(FrameRec)
    BY DEF FramesKnown
  <2> QED
    BY <2>1, LenProperties, FrontFrames
<1> HIDE DEF up
<1>2. \A k \in 1 .. n : k \in 1 .. Len(calls) /\ k < Len(calls)
  BY <1>1
<1>3. \A k \in 1 .. n - 1 : k \in 1 .. Len(calls) - 1 /\ k \in 1 .. n /\ k + 1 \in 1 .. n
  BY <1>1
<1>4. \A k \in 1 .. n : FrameKnown(h, blk, up[k]) /\ Len(up[k].node) = k - 1
  BY <1>1, <1>2 DEF FramesKnown
<1>5. \A k \in 1 .. n - 1 : up[k + 1].node \in Below(h, up[k].node)
  BY <1>1, <1>3 DEF FramesKnown
<1>6. \A k \in 1 .. n : up[k].next + Cardinality(up[k].todo) + 1 = Count(h, up[k].node)
  BY <1>1, <1>2 DEF Counted
<1> QED
  BY <1>1, <1>4, <1>5, <1>6 DEF FramesKnown, Counted, up

\* When a call has nothing left to do, all nodes below its directory are done.
LEMMA BelowDone ==
  ASSUME NEW h, IsTree(h), NEW blk, NEW calls, FramesKnown(h, blk, calls), NEW done, NEW img,
         DoneKnown(h, blk, done, calls, NoFile), CallFilled(h, blk, done, img, calls[Len(calls)]),
         calls[Len(calls)].todo = {}
  PROVE  Below(h, calls[Len(calls)].node) \subseteq done
<1> DEFINE m == Len(calls)
<1>1. m \in Nat /\ m \in 1 .. m /\ FrameKnown(h, blk, calls[m]) /\ Len(calls[m].node) = m - 1
  BY LenProperties DEF FramesKnown
<1> SUFFICES ASSUME NEW q \in Below(h, calls[m].node), q \notin done PROVE FALSE
  OBVIOUS
<1>2. <<q, -1>> \in DOMAIN blk /\ q \in DOMAIN h
  BY DEF CallFilled, Below
<1>3. PICK k \in 1 .. m : q = calls[k].node
  BY <1>2 DEF DoneKnown, OnStack
<1>4. Len(q) = k - 1
  BY <1>3 DEF FramesKnown
<1>5. Len(q) = Len(calls[m].node) + 1
  BY <1>2, NodesBelow
<1> QED
  BY <1>1, <1>4, <1>5

SameInode(ino, ino2) ==
  /\ ino2.dir = ino.dir /\ ino2.size = ino.size /\ ino2.name = ino.name
  /\ ino2.direct = ino.direct /\ ino2.indirect = ino.indirect

\* The directory that is left has all of its entries.
LEMMA LeftFinished ==
  ASSUME NEW h, IsTree(h), NEW blk, NEW taken, BlocksKnown(h, blk, taken), NEW done, DoneBlocks(h, blk, done),
         NEW img, NEW p \in DOMAIN h, h[p].dir, <<p, -1>> \in DOMAIN blk,
         NEW ino, Shape(h, blk, img, p, ino, Count(h, p)), DirEntries(h, blk, done, img, p, ino, Count(h, p)),
         Below(h, p) \subseteq done, NEW done2, done \subseteq done2,
         NEW cino \in InodeRec, SameInode(ino, cino), cino.blocks = Count(h, p)
  PROVE  Finished(h, blk, done2, img, p, cino)
<1> DEFINE n == Count(h, p)
<1>1. n \in Nat /\ n >= 2
  <2>1. Count(h, p) = Cardinality(Below(h, p)) + 2
    BY DEF Count
  <2>2. Cardinality(Below(h, p)) \in Nat
    BY TreeFacts, FS_CardinalityType
  <2> QED
    BY <2>1, <2>2
<1> HIDE DEF n
<1>2. Shape(h, blk, img, p, cino, n)
  BY DEF Shape, SameInode, n
<1>3. EntriesSame(img, ino, img, cino, n)
  BY DEF EntriesSame, EntryAt, SameInode
<1>4. <<Parent(p), -1>> \in DOMAIN blk /\ \A q \in done : <<q, -1>> \in DOMAIN blk
  BY ParentBlock DEF DoneBlocks
<1>5. Grows(blk, blk) /\ Below(h, p) \intersect done2 = Below(h, p) \intersect done /\ Below(h, p) \subseteq done2
  BY DEF Grows
<1>6. DirEntries(h, blk, done, img, p, ino, n)
  BY DEF n
<1>7. DirEntries(h, blk, done2, img, p, cino, n)
  BY <1>1, <1>3, <1>4, <1>5, <1>6, DirEntriesKeep
<1> QED
  BY <1>2, <1>5, <1>7 DEF Finished, n

\* Leave: the directory is done.
LEMMA LeaveContent ==
  ASSUME NEW blk, Base(host, blk, used, freenum, frames, file), Harmless(host, words),
         NEW done, Content(host, blk, done, used, image, frames, file), Leave
  PROVE  Content(host', LeaveBlk(blk), done \union {Top.node}, used', image', frames', file')
<1> DEFINE n == Len(frames) - 1
           calls == Front(frames)
           c == Top.node
           cino == [Top.inode EXCEPT !.blocks = Top.next]
           img == [image EXCEPT ![Top.num] = cino]
           a == Attach(Up.inode, Up.next, Top.num, used, img)
           g == [Up EXCEPT !.inode = a.inode, !.next = @ + 1, !.left.dir = cino.indirect]
<1>1. /\ IsTree(host) /\ BlocksKnown(host, blk, used) /\ FramesKnown(host, blk, frames)
      /\ file = NoFile /\ Counted(host, frames, FALSE) /\ Top.todo = {}
      /\ Len(frames) \in Nat /\ Len(frames) > 1
  <2>1. file = NoFile /\ Len(frames) > 1 /\ Top.todo = {}
    BY DEF Leave
  <2>2. Counted(host, frames, FALSE)
    BY <2>1, BaseTop
  <2> QED
    BY <2>1, <2>2, BaseTop
<1>2. /\ Room(used, Up.inode, Up.next) /\ Takes(a.used) /\ frames' = [calls EXCEPT ![n] = g]
      /\ host' = host /\ file' = NoFile /\ image' = a.image /\ ~OutOfImage(Up.inode, Up.next)
  BY <1>1 DEF Leave, Up
<1>3. Attached(a, Up.inode, Up.next, Top.num, used, img)
  BY <1>2 DEF Attached
<1>4. AfterDir(Up, g, a.inode, cino.indirect)
  BY DEF AfterDir
<1>5. /\ Top.num \in Nat /\ Top.inode \in InodeRec /\ Top.next \in Nat /\ Top = frames[Len(frames)] /\ FrameKnown(host, blk, Top)
      /\ Top \in FrameRec
  BY BaseTop DEF Top
<1>6. /\ cino \in InodeRec /\ cino.indirect = Top.inode.indirect /\ cino.indirect \in Nat /\ cino.direct = Top.inode.direct
      /\ cino.dir = Top.inode.dir /\ cino.size = Top.inode.size /\ cino.name = Top.inode.name /\ cino.blocks = Top.next
  BY <1>5 DEF InodeRec
<1> HIDE DEF a, g, cino
<1>7. /\ calls \in Seq(FrameRec) /\ Len(calls) = n /\ \A k \in 1 .. n : calls[k] = frames[k]
      /\ n \in Nat /\ n >= 1 /\ n \in 1 .. n /\ calls[n] = Up /\ Up \in FrameRec
  <2>1. calls \in Seq(FrameRec) /\ Len(calls) = n /\ \A k \in 1 .. n : calls[k] = frames[k]
    BY <1>1, BaseTop, FrontFrames
  <2>2. n \in Nat /\ n >= 1 /\ n \in 1 .. n
    BY <1>1
  <2>3. calls[n] = Up /\ Up \in FrameRec
    BY <2>1, <2>2 DEF Up
  <2> QED
    BY <2>1, <2>2, <2>3
<1> HIDE DEF calls
<1>8. FramesKnown(host, blk, calls) /\ Counted(host, calls, TRUE)
  BY <1>1, FrontKnown DEF calls
<1>9. /\ c \in Below(host, Up.node) /\ c \in DOMAIN host /\ host[c].dir /\ <<c, -1>> \in DOMAIN blk
      /\ Top.num = blk[<<c, -1>>]
  <2>1. n \in 1 .. Len(frames) - 1 /\ n + 1 = Len(frames) /\ frames[n] = Up
    BY <1>1, <1>7
  <2>2. frames[n + 1].node \in Below(host, frames[n].node)
    BY <1>1, <2>1 DEF FramesKnown
  <2> QED
    BY <1>5, <2>1, <2>2 DEF FrameKnown, Below
<1>10. /\ DoneKnown(host, blk, done, frames, NoFile) /\ ImageKnown(host, blk, used, image)
       /\ \A q \in done : Finished(host, blk, done, image, q, image[blk[<<q, -1>>]])
       /\ \A k \in 1 .. Len(frames) : CallFilled(host, blk, done, image, frames[k])
  BY <1>1 DEF Content
<1>11. a.inode \in InodeRec
  <2>1. Up.inode \in InodeRec /\ Up.next \in Nat
    BY <1>7 DEF FrameRec
  <2>2. AttachEffect(a, Up.inode, Up.next, Top.num, used, img)
    BY <1>3, <1>5, <2>1, BaseTop, AttachFacts
  <2> QED
    BY <2>2 DEF AttachEffect
<1>12. WentOn(Up, g, a.inode) /\ LeftAfter(host, Up, g, c, cino.indirect)
  BY <1>4, <1>6, <1>7, <1>9, <1>11, WentOnFacts DEF LeftAfter
<1> HIDE DEF n
<1>13. Top.next = Count(host, c)
  <2>1. Len(frames) \in 1 .. Len(frames)
    BY <1>1
  <2>2. Top.next + Cardinality(Top.todo) + (IF Len(frames) < Len(frames) \/ FALSE THEN 1 ELSE 0) = Count(host, c)
    BY <1>1, <1>5, <2>1 DEF Counted
  <2>3. Cardinality(Top.todo) = 0 /\ ~(Len(frames) < Len(frames))
    BY <1>1, FS_EmptySet
  <2> QED
    BY <1>5, <2>2, <2>3
<1>14. Top.next >= 2 /\ CallFilled(host, blk, done, image, Top)
  <2>1. Len(frames) \in 1 .. Len(frames)
    BY <1>1
  <2> QED
    BY <1>5, <1>10, <2>1 DEF FrameKnown
<1>15. \A k \in 1 .. Len(calls) : calls[k].node # c
  <2>1. ASSUME NEW k \in 1 .. Len(calls) PROVE calls[k].node # c
    <3>1. k \in 1 .. Len(frames) /\ Len(frames) \in 1 .. Len(frames) /\ k # Len(frames) /\ calls[k] = frames[k]
      BY <1>1, <1>7 DEF n
    <3>2. Len(frames[k].node) = k - 1 /\ Len(c) = Len(frames) - 1
      BY <1>1, <1>5, <3>1 DEF FramesKnown
    <3> QED
      BY <1>1, <3>1, <3>2
  <2> QED
    BY <2>1
<1>16. \A q : OnStack(frames, NoFile, q) <=> q = c \/ \E k \in 1 .. Len(calls) : q = calls[k].node
  <2>1. \A k : k \in 1 .. Len(frames) <=> k = Len(frames) \/ k \in 1 .. Len(calls)
    BY <1>1, <1>7 DEF n
  <2>2. \A k \in 1 .. Len(calls) : calls[k] = frames[k]
    BY <1>7
  <2> QED
    BY <1>5, <2>1, <2>2 DEF OnStack
<1>17. Finished(host, blk, done \union {c}, image, c, cino) /\ OpenSafe(host, blk, c, cino.indirect)
  <2>1. /\ Shape(host, blk, image, c, Top.inode, Count(host, c))
        /\ DirEntries(host, blk, done, image, c, Top.inode, Count(host, c))
        /\ OpenSafe(host, blk, c, cino.indirect)
    BY <1>6, <1>13, <1>14 DEF CallFilled
  <2>2. Below(host, c) \subseteq done
    BY <1>1, <1>5, <1>10, <1>14, BelowDone
  <2>3. DoneBlocks(host, blk, done) /\ SameInode(Top.inode, cino) /\ cino.blocks = Count(host, c)
    BY <1>1, <1>6, <1>10, <1>13, DoneFacts DEF SameInode
  <2> DEFINE done2 == done \union {c}
             ino == Top.inode
  <2>4. done \subseteq done2
    OBVIOUS
  <2>5. /\ Shape(host, blk, image, c, ino, Count(host, c)) /\ SameInode(ino, cino)
        /\ DirEntries(host, blk, done, image, c, ino, Count(host, c))
    BY <2>1, <2>3
  <2> HIDE DEF done2, ino, c
  <2>6. Finished(host, blk, done2, image, c, cino)
    BY <1>1, <1>6, <1>9, <2>2, <2>3, <2>4, <2>5, LeftFinished
  <2> QED
    BY <2>1, <2>6 DEF done2
<1>18. Ready(host, blk, done, image, calls, c, cino)
  BY <1>7, <1>9, <1>10, <1>15, <1>16, <1>17 DEF Ready, DoneKnown
<1>19. Entered(calls, blk, used, c, cino, image, img, g, LeaveBlk(blk), frames')
  BY <1>2, <1>7, <1>9 DEF Entered, LeaveBlk
<1> HIDE DEF img, c
<1>20. \A k \in 1 .. Len(calls) : CallFilled(host, blk, done, image, calls[k])
  BY <1>1, <1>7, <1>10 DEF n
<1>21. Content(host, LeaveBlk(blk), done \union {c}, a.used, a.image, frames', NoFile)
  BY <1>1, <1>2, <1>3, <1>7, <1>8, <1>9, <1>10, <1>12, <1>18, <1>19, <1>20, EntryContent
<1>22. used' = a.used
  BY <1>2 DEF Takes
<1> QED
  BY <1>2, <1>21, <1>22 DEF c

\* At the beginning nothing is done and the root holds . and ..
LEMMA InitContent ==
  ASSUME Init, Harmless(host, words)
  PROVE  Content(host, RootBlk, {}, used, image, frames, file)
<1>1. Base(host, RootBlk, used, freenum, frames, file) /\ words \subseteq Nat
  BY InitBase
<1>2. IsTree(host) /\ BlocksKnown(host, RootBlk, used)
  BY <1>1 DEF Base
<1>3. PICK root \in words, f \in words, d \in words :
        frames = <<NewFrame(<<>>, RootNum, RootNum, root, [file |-> f, dir |-> d])>>
  BY DEF Init
<1> DEFINE left == [file |-> f, dir |-> d]
           g == NewFrame(<<>>, RootNum, RootNum, root, left)
<1>4. used = Reserved /\ file = NoFile /\ image = [b \in Block |-> [kind |-> "blank"]]
  BY DEF Init
<1>5. left.file = f /\ left.dir = d /\ left \in [file : Nat, dir : Nat] /\ root \in Nat
  BY <1>1
<1> HIDE DEF left
<1>6. <<>> \in DOMAIN host /\ host[<<>>].dir /\ RootNum \in Nat
  BY <1>2, TreeFacts DEF RootNum
<1>7. NewCall(host, g, <<>>, RootNum, RootNum, root, left)
  BY <1>2, <1>5, <1>6, NewFrameFacts
<1>8. frames = <<g>>
  BY <1>3 DEF left
<1> HIDE DEF g
<1>9. g.node = <<>>
  BY <1>7 DEF NewCall
<1>10. DOMAIN RootBlk = {<<<<>>, -1>>} /\ RootBlk[<<<<>>, -1>>] = RootNum
  BY DEF RootBlk
<1>11. \A p : <<p, -1>> \in DOMAIN RootBlk <=> p = <<>>
  BY <1>10
<1>12. \A p : <<p, -2>> \notin DOMAIN RootBlk
  <2>1. \A p : <<p, -2>> # <<<<>>, -1>>
    OBVIOUS
  <2> QED
    BY <1>10, <2>1
<1>13. OpenSafe(host, RootBlk, <<>>, root)
  BY <1>6 DEF OpenSafe, Harmless
<1>14. CallFilled(host, RootBlk, {}, image, g)
  <2> DEFINE p == <<>>
             num == RootNum
             done == {}
  <2>1. /\ p \in DOMAIN host /\ host[p].dir /\ <<p, -2>> \notin DOMAIN RootBlk /\ OpenSafe(host, RootBlk, p, root)
        /\ num = RootBlk[<<p, -1>>] /\ num = RootBlk[<<Parent(p), -1>>] /\ num \in Nat
        /\ NewCall(host, g, p, num, num, root, left) /\ \A q \in Below(host, p) : q \notin done
    BY <1>6, <1>7, <1>10, <1>12, <1>13 DEF Parent
  <2>2. left.file \in words /\ left.dir \in words
    BY <1>5
  <2> HIDE DEF p, num, done
  <2>3. CallFilled(host, RootBlk, done, image, g)
    BY <1>1, <1>2, <1>5, <2>1, <2>2, NewCallFilled
  <2> QED
    BY <2>3 DEF done
<1>15. ImageKnown(host, RootBlk, used, image)
  <2>1. \A x \in DOMAIN RootBlk : x[2] = -1
    BY <1>10
  <2> QED
    BY <1>4, <2>1 DEF ImageKnown
<1>16. Len(frames) = 1 /\ frames[1] = g
  BY <1>8
<1>17. \A q : OnStack(frames, file, q) <=> q = <<>>
  BY <1>4, <1>9, <1>16 DEF OnStack
<1>18. DoneKnown(host, RootBlk, {}, frames, file)
  BY <1>11, <1>17 DEF DoneKnown
<1>19. \A k \in 1 .. Len(frames) : CallFilled(host, RootBlk, {}, image, frames[k])
  <2>1. \A k \in 1 .. Len(frames) : k = 1
    BY <1>16
  <2> QED
    BY <1>14, <1>16, <2>1
<1> QED
  BY <1>4, <1>15, <1>18, <1>19 DEF Content

\* At the end of walk every node is done but the root.
LEMMA AllDone ==
  ASSUME NEW h, IsTree(h), NEW done, done \subseteq DOMAIN h, Below(h, <<>>) \subseteq done,
         \A p \in done : h[p].dir => Below(h, p) \subseteq done
  PROVE  \A p \in DOMAIN h : p = <<>> \/ p \in done
<1> DEFINE Bad(k) == \E p \in DOMAIN h : Len(p) = k /\ p # <<>> /\ p \notin done
<1> SUFFICES ASSUME \E k \in Nat : Bad(k) PROVE FALSE
  BY TreeFacts
<1>1. PICK k \in Nat : Bad(k) /\ \A i \in 0 .. k - 1 : ~Bad(i)
  <2> HIDE DEF Bad
  <2> DEFINE S == {k \in Nat : Bad(k)}
  <2>1. S \subseteq Nat /\ S # {}
    OBVIOUS
  <2>2. PICK k \in S : \A i \in S : k <= i
    BY <2>1, LeastNat
  <2> QED
    BY <2>2
<1>2. PICK p \in DOMAIN h : Len(p) = k /\ p # <<>> /\ p \notin done
  BY <1>1
<1>3. p \in Below(h, Front(p))
  BY <1>2 DEF Below
<1>4. Front(p) \in DOMAIN h /\ h[Front(p)].dir /\ Len(p) = Len(Front(p)) + 1 /\ Len(Front(p)) \in Nat
  BY <1>3, NodesBelow, TreeFacts
<1>5. Len(Front(p)) \in 0 .. k - 1
  BY <1>2, <1>4
<1>6. Front(p) = <<>> \/ Front(p) \in done
  BY <1>1, <1>4, <1>5
<1> QED
  BY <1>2, <1>3, <1>4, <1>6

\* Finish: the root is done, and the first blocks say what is used.
LEMMA FinishContent ==
  ASSUME NEW blk, Base(host, blk, used, freenum, frames, file),
         NEW done, Content(host, blk, done, used, image, frames, file), Finish
  PROVE  Final(host', blk, used', image')
<1> DEFINE p == Top.node
           cino == [Top.inode EXCEPT !.blocks = Top.next]
           super == [kind |-> "super", unusedBlocks |-> freenum]
           map == [kind |-> "freemap", used |-> used]
           all == DOMAIN host
<1>1. /\ IsTree(host) /\ BlocksKnown(host, blk, used) /\ FramesKnown(host, blk, frames)
      /\ file = NoFile /\ Counted(host, frames, FALSE) /\ Top.todo = {} /\ Len(frames) = 1
      /\ freenum = BlockNum - Cardinality(used)
  <2>1. file = NoFile /\ Len(frames) = 1 /\ Top.todo = {}
    BY DEF Finish
  <2>2. Counted(host, frames, FALSE)
    BY <2>1, BaseTop
  <2> QED
    BY <2>1, <2>2, BaseTop DEF Base
<1>2. image' = [image EXCEPT ![0] = super, ![1] = map, ![RootNum] = cino] /\ host' = host /\ used' = used
  BY DEF Finish
<1>3. /\ Top.inode \in InodeRec /\ Top.next \in Nat /\ Top = frames[Len(frames)] /\ FrameKnown(host, blk, Top)
      /\ 1 \in 1 .. Len(frames) /\ Top = frames[1]
  BY <1>1, BaseTop DEF Top
<1>4. /\ cino \in InodeRec /\ SameInode(Top.inode, cino) /\ cino.blocks = Top.next
  BY <1>3 DEF InodeRec, SameInode
<1> HIDE DEF cino
<1>5. p = <<>> /\ p \in DOMAIN host /\ host[p].dir /\ <<p, -1>> \in DOMAIN blk /\ RootNum = blk[<<p, -1>>]
  <2>1. Len(p) = 0 /\ p \in DOMAIN host /\ host[p].dir /\ <<p, -1>> \in DOMAIN blk
    BY <1>1, <1>3 DEF FramesKnown, FrameKnown
  <2>2. p = <<>>
    BY <1>1, <2>1, TreeFacts, EmptySeq
  <2> QED
    BY <1>1, <2>1, <2>2 DEF BlocksKnown
<1>6. /\ DoneKnown(host, blk, done, frames, NoFile) /\ ImageKnown(host, blk, used, image)
      /\ \A q \in done : Finished(host, blk, done, image, q, image[blk[<<q, -1>>]])
      /\ CallFilled(host, blk, done, image, Top)
  BY <1>1, <1>3 DEF Content
<1>7. Top.next = Count(host, p)
  <2>1. Top.next + Cardinality(Top.todo) + (IF 1 < Len(frames) \/ FALSE THEN 1 ELSE 0) = Count(host, p)
    BY <1>1, <1>3 DEF Counted
  <2>2. Cardinality(Top.todo) = 0 /\ ~(1 < Len(frames))
    BY <1>1, FS_EmptySet
  <2> QED
    BY <1>3, <2>1, <2>2
<1>8. Below(host, p) \subseteq done
  BY <1>1, <1>3, <1>6, BelowDone
<1>9. DoneBlocks(host, blk, done) /\ done \subseteq DOMAIN host
  BY <1>1, <1>6, DoneFacts DEF DoneBlocks
<1>10. \A q \in DOMAIN host : q = p \/ q \in done
  <2>1. \A q \in done : host[q].dir => Below(host, q) \subseteq done
    BY <1>6 DEF Finished
  <2> QED
    BY <1>1, <1>5, <1>8, <1>9, <2>1, AllDone
<1>11. p \notin done
  BY <1>3, <1>6 DEF DoneKnown, OnStack
<1>12. DoneBlocks(host, blk, all) /\ done \subseteq all
  <2>1. \A q \in all : <<q, -1>> \in DOMAIN blk
    BY <1>5, <1>9, <1>10 DEF DoneBlocks
  <2> QED
    BY <1>1, <1>9, <2>1, ParentBlock DEF DoneBlocks
<1>13. DOMAIN image = Block /\ 0 \in Block /\ 1 \in Block /\ RootNum \in Block
  BY <1>6, BlockFacts DEF ImageKnown
<1>14. /\ DOMAIN image' = Block /\ image'[0] = super /\ image'[1] = map /\ image'[RootNum] = cino
       /\ \A c \in Block : c # 0 /\ c # 1 /\ c # RootNum => image'[c] = image[c]
  BY <1>2, <1>13 DEF RootNum
<1> HIDE DEF super, map, all, p
<1>15. \A x \in DOMAIN blk : x # <<p, -1>> => image'[blk[x]] = image[blk[x]]
  <2> SUFFICES ASSUME NEW x \in DOMAIN blk, x # <<p, -1>> PROVE image'[blk[x]] = image[blk[x]]
    OBVIOUS
  <2>1. blk[x] \in used /\ blk[x] # 0 /\ blk[x] # 1 /\ blk[x] # RootNum
    BY <1>1, <1>5 DEF BlocksKnown
  <2>2. blk[x] \in Block
    BY <1>1, <2>1 DEF BlocksKnown
  <2> QED
    BY <1>14, <2>1, <2>2
<1>16. \A q : Unmoved(blk, image, blk, image', q)
  <2>1. \A q : <<q, -2>> # <<p, -1>>
    OBVIOUS
  <2> QED
    BY <1>15, <2>1 DEF Unmoved, Grows
<1>17. FinishedAll(host, blk, all, image', done)
  <2>1. DoneFinished(host, blk, done, image)
    BY <1>6 DEF DoneFinished
  <2>2. DoneUnmoved(blk, image, blk, image', done)
    <3>1. ASSUME NEW q \in done PROVE image'[blk[<<q, -1>>]] = image[blk[<<q, -1>>]]
      <4>1. <<q, -1>> \in DOMAIN blk /\ <<q, -1>> # <<p, -1>>
        BY <1>9, <1>11 DEF DoneBlocks
      <4> QED
        BY <1>15, <4>1
    <3> QED
      BY <1>16, <3>1 DEF DoneUnmoved
  <2> QED
    BY <1>1, <1>9, <1>12, <2>1, <2>2, DoneKeeps
<1>18. Finished(host, blk, all, image', p, cino)
  <2> DEFINE ino == Top.inode
  <2>1. /\ Shape(host, blk, image, p, ino, Count(host, p)) /\ DirEntries(host, blk, done, image, p, ino, Count(host, p))
        /\ SameInode(ino, cino) /\ cino.blocks = Count(host, p)
    BY <1>4, <1>6, <1>7 DEF CallFilled, p
  <2> HIDE DEF ino
  <2>2. Finished(host, blk, all, image, p, cino)
    BY <1>1, <1>4, <1>5, <1>8, <1>9, <1>12, <2>1, LeftFinished
  <2>3. p \in all
    BY <1>5 DEF all
  <2> QED
    BY <1>1, <1>12, <1>16, <2>2, <2>3, FinishedKeeps
<1>19. \A q \in DOMAIN host : <<q, -1>> \in DOMAIN blk /\ Finished(host, blk, all, image', q, image'[blk[<<q, -1>>]])
  <2> SUFFICES ASSUME NEW q \in DOMAIN host
               PROVE  <<q, -1>> \in DOMAIN blk /\ Finished(host, blk, all, image', q, image'[blk[<<q, -1>>]])
    OBVIOUS
  <2>1. CASE q = p
    BY <1>5, <1>14, <1>18, <2>1
  <2>2. CASE q \in done
    BY <1>9, <1>17, <2>2 DEF FinishedAll, DoneBlocks
  <2> QED
    BY <1>10, <2>1, <2>2
<1>20. \A c \in Block \ used : image'[c].kind = "blank"
  <2> SUFFICES ASSUME NEW c \in Block \ used PROVE image'[c].kind = "blank"
    OBVIOUS
  <2>1. c # 0 /\ c # 1 /\ c # RootNum
    BY <1>1, <1>5 DEF BlocksKnown
  <2> QED
    BY <1>6, <1>14, <2>1 DEF ImageKnown
<1>21. \A x \in DOMAIN blk : x[2] # -1 /\ x[2] # -2 => image'[blk[x]] = Data(host, x[1], x[2])
  BY <1>6, <1>15 DEF ImageKnown
<1> QED
  BY <1>1, <1>2, <1>14, <1>19, <1>20, <1>21 DEF Final, super, map, all

\* StackHarmless speaks of the tree that is packed.
LEMMA HarmlessFacts ==
  ASSUME StackHarmless, HostKnown
  PROVE  Harmless(host, words)
<1>1. PICK in \in Inputs : host = in.host /\ words = in.stack
  BY DEF HostKnown
<1> DEFINE large == {p \in DOMAIN in.host : Count(in.host, p) > Direct}
<1>2. /\ large # {} => in.stack \intersect Block \subseteq {0}
      /\ \A p, q \in large \ {<<>>} : Front(p) = Front(q) /\ in.host[p].dir = in.host[q].dir => p = q
  BY DEF StackHarmless
<1>3. \A p : p \in large <=> p \in DOMAIN host /\ IsLarge(host, p)
  BY <1>1 DEF IsLarge
<1> HIDE DEF large
<1>4. \A p \in DOMAIN host : IsLarge(host, p) => \A x \in words : Safe(x)
  BY <1>1, <1>2, <1>3 DEF Safe
<1> QED
  BY <1>1, <1>2, <1>3, <1>4 DEF Harmless

\* What is in the image, while walk goes on and when the image is written.
ImageInv ==
  /\ HostKnown /\ words \subseteq Nat
  /\ \E blk, done :
       /\ Base(host, blk, used, freenum, frames, file)
       /\ pc = "walk" => Content(host, blk, done, used, image, frames, file)
       /\ pc = "done" => Final(host, blk, used, image)

\* Whatever the order in which readdir gives the entries, each inode and each
\* block in the image holds what belongs there, as far as walk has got.
THEOREM ImageInvariant == ASSUME StackHarmless PROVE Spec => []ImageInv
<1>1. Init => ImageInv
  <2> SUFFICES ASSUME Init PROVE ImageInv
    OBVIOUS
  <2>1. HostKnown /\ words \subseteq Nat /\ Base(host, RootBlk, used, freenum, frames, file)
    BY InitBase DEF HostKnown
  <2>2. Content(host, RootBlk, {}, used, image, frames, file)
    BY <2>1, HarmlessFacts, InitContent
  <2>3. pc # "done"
    BY DEF Init
  <2> QED
    BY <2>1, <2>2, <2>3 DEF ImageInv
<1>2. ImageInv /\ [Next]_vars => ImageInv'
  <2> SUFFICES ASSUME ImageInv, [Next]_vars PROVE ImageInv'
    OBVIOUS
  <2>1. PICK blk, done :
          /\ Base(host, blk, used, freenum, frames, file)
          /\ pc = "walk" => Content(host, blk, done, used, image, frames, file)
          /\ pc = "done" => Final(host, blk, used, image)
    BY DEF ImageInv
  <2>2. words \subseteq Nat /\ HostKnown /\ Harmless(host, words)
    BY HarmlessFacts DEF ImageInv
  <2>3. ASSUME host' = host, words' = words, pc' # "done", NEW new, NEW done2,
               Base(host', new, used', freenum', frames', file'),
               Content(host', new, done2, used', image', frames', file')
        PROVE  ImageInv'
    BY <2>2, <2>3 DEF ImageInv, HostKnown
  <2>4. pc = "walk" => Content(host, blk, done, used, image, frames, file)
    BY <2>1
  <2>5. ASSUME NEW p \in DOMAIN host, Enter(p) PROVE ImageInv'
    <3> DEFINE new == Extended(blk, <<p, -1>>, First(used))
    <3>1. host' = host /\ words' = words /\ pc' # "done" /\ pc = "walk"
      BY <2>5 DEF Enter
    <3>2. Base(host', new, used', freenum', frames', file')
      BY <2>1, <2>2, <2>5, EnterBase
    <3>3. Content(host', new, done, used', image', frames', file')
      BY <2>1, <2>2, <2>5, <3>1, EnterContent
    <3> HIDE DEF new
    <3> QED
      BY <2>3, <3>1, <3>2, <3>3
  <2>6. ASSUME NEW p \in DOMAIN host, Open(p) PROVE ImageInv'
    <3> DEFINE new == Extended(blk, <<p, -1>>, First(used))
    <3>1. host' = host /\ words' = words /\ pc' # "done" /\ pc = "walk"
      BY <2>6 DEF Open
    <3>2. Base(host', new, used', freenum', frames', file')
      BY <2>1, <2>2, <2>6, OpenBase
    <3>3. Content(host', new, done, used', image', frames', file')
      BY <2>1, <2>2, <2>6, <3>1, OpenContent
    <3> HIDE DEF new
    <3> QED
      BY <2>3, <3>1, <3>2, <3>3
  <2>7. CASE CopyBlock
    <3>1. host' = host /\ words' = words /\ pc' # "done" /\ pc = "walk"
      BY <2>7 DEF CopyBlock
    <3>2. Base(host', CopyBlk(blk), used', freenum', frames', file')
      BY <2>1, <2>7, CopyBase
    <3>3. Content(host', CopyBlk(blk), done, used', image', frames', file')
      BY <2>1, <2>2, <2>7, <3>1, CopyContent
    <3> QED
      BY <2>3, <3>1, <3>2, <3>3
  <2>8. CASE CloseFile
    <3> DEFINE done2 == done \union {file.node}
    <3>1. host' = host /\ words' = words /\ pc' # "done" /\ pc = "walk"
      BY <2>8 DEF CloseFile
    <3>2. Base(host', CloseBlk(blk), used', freenum', frames', file')
      BY <2>1, <2>8, CloseBase
    <3>3. Content(host', CloseBlk(blk), done2, used', image', frames', file')
      BY <2>1, <2>2, <2>8, <3>1, CloseContent
    <3> HIDE DEF done2
    <3> QED
      BY <2>3, <3>1, <3>2, <3>3
  <2>9. CASE Leave
    <3> DEFINE done2 == done \union {Top.node}
    <3>1. host' = host /\ words' = words /\ pc' # "done" /\ pc = "walk"
      BY <2>9 DEF Leave
    <3>2. Base(host', LeaveBlk(blk), used', freenum', frames', file')
      BY <2>1, <2>9, LeaveBase
    <3>3. Content(host', LeaveBlk(blk), done2, used', image', frames', file')
      BY <2>1, <2>2, <2>9, <3>1, LeaveContent
    <3> HIDE DEF done2
    <3> QED
      BY <2>3, <3>1, <3>2, <3>3
  <2>10. CASE Finish
    <3>1. /\ host' = host /\ words' = words /\ pc' # "walk" /\ pc = "walk" /\ used' = used /\ freenum' = freenum
          /\ frames' = frames /\ file' = file
      BY <2>10 DEF Finish
    <3>2. Final(host', blk, used', image')
      BY <2>1, <2>10, <3>1, FinishContent
    <3> QED
      BY <2>1, <2>2, <3>1, <3>2 DEF ImageInv, HostKnown
  <2>11. CASE DiskFull \/ WriteOutOfImage
    <3>1. /\ host' = host /\ words' = words /\ pc' # "walk" /\ pc' # "done" /\ used' = used /\ freenum' = freenum
          /\ frames' = frames /\ file' = file
      BY <2>11 DEF DiskFull, WriteOutOfImage
    <3> QED
      BY <2>1, <2>2, <3>1 DEF ImageInv, HostKnown
  <2>12. CASE UNCHANGED vars
    <3>1. /\ host' = host /\ words' = words /\ pc' = pc /\ used' = used /\ freenum' = freenum
          /\ frames' = frames /\ file' = file /\ image' = image
      BY <2>12 DEF vars
    <3> QED
      BY <2>1, <2>2, <3>1 DEF ImageInv, HostKnown
  <2> QED
    BY <2>5, <2>6, <2>7, <2>8, <2>9, <2>10, <2>11, <2>12 DEF Next, Ended
<1> QED
  BY <1>1, <1>2, PTL DEF Spec
------------------------------------------------------------------------------
(* The field that is never set, without StackHarmless.                     *)

\* The numbers in a set of calls, and in the inodes of an image.
CallFields(fields, f) ==
  f.inode.indirect \in fields /\ f.left.file \in fields /\ f.left.dir \in fields
CallsFields(fields, calls) == \A k \in 1 .. Len(calls) : CallFields(fields, calls[k])
FileFields(fields, f) == f # NoFile => f.inode.indirect \in fields
ImageFields(fields, img) ==
  DOMAIN img = Block /\ \A b \in Block : img[b].kind = "inode" => img[b].indirect \in fields

\* Every indirect field holds a word of the stack or the number of a block.
Fields == words \union Block
FieldsKnown ==
  CallsFields(Fields, frames) /\ FileFields(Fields, file) /\ ImageFields(Fields, image)

\* Block b of an image is written.
Stored(img, b, x) == [img EXCEPT ![b] = x]

\* A block that is written to the image leaves the other blocks as they are.
LEMMA WrittenFields ==
  ASSUME NEW fields, NEW img, ImageFields(fields, img), NEW b, NEW x,
         x.kind = "inode" => x.indirect \in fields
  PROVE  ImageFields(fields, Stored(img, b, x))
BY DEF ImageFields, Stored

\* Attaching a block gives an inode no field but its own or that of a block.
LEMMA AttachedFields ==
  ASSUME NEW fields, Block \subseteq fields, NEW ino \in InodeRec, NEW n \in Nat, NEW b \in Nat,
         NEW taken, taken \subseteq Block, NEW img, NEW a, Attached(a, ino, n, b, taken, img),
         ino.indirect \in fields, ImageFields(fields, img)
  PROVE  a.inode \in InodeRec /\ a.inode.indirect \in fields /\ ImageFields(fields, a.image)
<1>1. AttachEffect(a, ino, n, b, taken, img)
  BY AttachFacts
<1>2. CASE n < Direct
  BY <1>1, <1>2 DEF AttachEffect
<1>3. CASE ~(n < Direct)
  <2>1. a.inode \in InodeRec /\ a.image = Written(img, a.inode.indirect, n - Direct, b)
    BY <1>1, <1>3 DEF AttachEffect
  <2>2. a.inode.indirect \in fields
    <3>1. CASE ino.indirect # 0
      BY <1>1, <1>3, <3>1 DEF AttachEffect
    <3>2. CASE ino.indirect = 0
      <4>1. NeedsIndirect(ino, n)
        BY <1>3, <3>2, Sizes DEF NeedsIndirect
      <4> QED
        BY <1>1, <4>1 DEF AttachEffect
    <3> QED
      BY <3>1, <3>2
  <2> DEFINE x == Put(img[a.inode.indirect], n - Direct, b)
  <2>3. x.kind # "inode" /\ a.image = Stored(img, a.inode.indirect, x)
    BY <2>1 DEF Put, Written, Stored
  <2> HIDE DEF x
  <2>4. ImageFields(fields, a.image)
    BY <2>3, WrittenFields
  <2> QED
    BY <2>1, <2>2, <2>4
<1> QED
  BY <1>2, <1>3

\* One call goes on with another inode and other words on the stack.
LEMMA CallsGoOn ==
  ASSUME NEW fields, NEW calls \in Seq(FrameRec), CallsFields(fields, calls), NEW m \in 1 .. Len(calls),
         NEW g \in FrameRec, CallFields(fields, g)
  PROVE  CallsFields(fields, [calls EXCEPT ![m] = g])
<1>1. /\ Len([calls EXCEPT ![m] = g]) = Len(calls) /\ [calls EXCEPT ![m] = g][m] = g
      /\ \A k \in 1 .. Len(calls) : k # m => [calls EXCEPT ![m] = g][k] = calls[k]
  BY GoOn
<1> QED
  BY <1>1 DEF CallsFields

\* Crossing an entry out changes no field.
LEMMA CrossedFields ==
  ASSUME NEW fields, NEW calls \in Seq(FrameRec), Len(calls) >= 1, CallsFields(fields, calls), NEW p
  PROVE  /\ CrossedOut(calls, p) \in Seq(FrameRec) /\ Len(CrossedOut(calls, p)) = Len(calls)
         /\ CallsFields(fields, CrossedOut(calls, p))
<1> DEFINE new == CrossedOut(calls, p)
<1>1. /\ new \in Seq(FrameRec) /\ Len(new) = Len(calls) /\ \A k \in 1 .. Len(calls) - 1 : new[k] = calls[k]
      /\ SameCall(new[Len(calls)], calls[Len(calls)])
  BY CrossOut
<1>2. Len(calls) \in Nat
  BY LenProperties
<1> HIDE DEF new
<1>3. ASSUME NEW k \in 1 .. Len(calls) PROVE CallFields(fields, new[k])
  <2>1. CallFields(fields, calls[k])
    BY DEF CallsFields
  <2>2. CASE k = Len(calls)
    BY <1>1, <2>1, <2>2 DEF CallFields, SameCall
  <2>3. CASE k # Len(calls)
    <3>1. new[k] = calls[k]
      BY <1>1, <1>2, <2>3
    <3> QED
      BY <2>1, <3>1
  <2> QED
    BY <2>2, <2>3
<1>4. CallsFields(fields, new)
  BY <1>1, <1>3 DEF CallsFields
<1> QED
  BY <1>1, <1>4 DEF new

\* The words on the stack where the next inodes will be.
LEMMA LeftFields ==
  ASSUME NEW blk, Base(host, blk, used, freenum, frames, file), words \subseteq Nat, FieldsKnown
  PROVE  CallFields(Fields, Top) /\ Block \subseteq Fields /\ Fields \subseteq Nat /\ words \subseteq Fields
<1>1. Len(frames) \in 1 .. Len(frames)
  BY BaseTop
<1>2. Block \subseteq Nat
  BY Sizes DEF Block
<1> QED
  BY <1>1, <1>2 DEF FieldsKnown, CallsFields, Top, Fields

\* A new inode has its field from the stack.
LEMMA EnterFields ==
  ASSUME NEW blk, Base(host, blk, used, freenum, frames, file), words \subseteq Nat, FieldsKnown,
         NEW p \in DOMAIN host, Enter(p)
  PROVE  FieldsKnown'
<1> DEFINE b == First(used)
<1>1. PICK f \in words, d \in words, ind \in words \union {Top.left.dir} :
        frames' = Append(CrossedOut(frames, p), NewFrame(p, b, Top.num, ind, [file |-> f, dir |-> d]))
  BY DEF Enter, CrossedOut
<1>2. used # Block /\ file' = file /\ image' = image /\ words' = words
  BY DEF Enter
<1>3. b \in Nat
  BY <1>2, BaseTop, FirstFacts
<1>4. IsTree(host) /\ Top.num \in Nat /\ frames \in Seq(FrameRec) /\ Len(frames) >= 1
  BY BaseTop
<1>5. CallFields(Fields, Top) /\ words \subseteq Fields /\ Fields \subseteq Nat
  BY LeftFields
<1>6. f \in Fields /\ d \in Fields /\ ind \in Fields /\ f \in Nat /\ d \in Nat /\ ind \in Nat
  BY <1>5 DEF CallFields
<1> HIDE DEF b
<1> DEFINE left == [file |-> f, dir |-> d]
           g == NewFrame(p, b, Top.num, ind, left)
<1>7. left \in [file : Nat, dir : Nat] /\ left.file = f /\ left.dir = d
  BY <1>6
<1> HIDE DEF left
<1>8. NewCall(host, g, p, b, Top.num, ind, left)
  BY <1>3, <1>4, <1>6, <1>7, NewFrameFacts
<1> HIDE DEF g
<1>9. g.inode.indirect = ind
  BY <1>8 DEF NewCall, NewInode
<1>10. g \in FrameRec /\ CallFields(Fields, g)
  BY <1>6, <1>7, <1>8, <1>9 DEF NewCall, CallFields
<1> DEFINE calls == CrossedOut(frames, p)
<1>11. calls \in Seq(FrameRec) /\ CallsFields(Fields, calls)
  BY <1>4, CrossedFields DEF FieldsKnown
<1>12. frames' = Append(calls, g)
  BY <1>1 DEF g, left
<1> HIDE DEF calls
<1>13. /\ Len(Append(calls, g)) = Len(calls) + 1 /\ Len(calls) \in Nat
       /\ \A k \in 1 .. Len(calls) : Append(calls, g)[k] = calls[k]
       /\ Append(calls, g)[Len(calls) + 1] = g
  BY <1>10, <1>11, AppendProperties, LenProperties
<1>14. ASSUME NEW k \in 1 .. Len(frames') PROVE CallFields(Fields, frames'[k])
  <2>1. CASE k \in 1 .. Len(calls)
    BY <1>11, <1>12, <1>13, <2>1 DEF CallsFields
  <2>2. CASE k \notin 1 .. Len(calls)
    <3>1. k = Len(calls) + 1
      BY <1>12, <1>13, <2>2
    <3> QED
      BY <1>10, <1>12, <1>13, <3>1
  <2> QED
    BY <2>1, <2>2
<1>15. Fields' = Fields
  BY <1>2 DEF Fields
<1>16. CallsFields(Fields, frames') /\ FileFields(Fields, file') /\ ImageFields(Fields, image')
  BY <1>2, <1>14 DEF FieldsKnown, CallsFields
<1> QED
  BY <1>15, <1>16 DEF FieldsKnown

\* The inode of a file has its field from the stack as well.
LEMMA OpenFields ==
  ASSUME NEW blk, Base(host, blk, used, freenum, frames, file), words \subseteq Nat, FieldsKnown,
         NEW p \in DOMAIN host, Open(p)
  PROVE  FieldsKnown'
<1>1. PICK ind \in words \union {Top.left.file} :
        file' = [node |-> p, num |-> First(used), rest |-> host[p].size, index |-> 0,
                 inode |-> [NewInode(p, ind) EXCEPT !.blocks = Blocks(host[p].size)]]
  BY DEF Open
<1>2. frames' = CrossedOut(frames, p) /\ image' = image /\ words' = words
  BY DEF Open, CrossedOut
<1>3. ind \in Fields
  BY LeftFields DEF CallFields
<1>4. file'.inode.indirect = ind
  BY <1>1 DEF NewInode
<1>5. CallsFields(Fields, CrossedOut(frames, p))
  BY BaseTop, CrossedFields DEF FieldsKnown
<1>6. Fields' = Fields
  BY <1>2 DEF Fields
<1>7. FileFields(Fields, file')
  BY <1>3, <1>4 DEF FileFields
<1>8. CallsFields(Fields, frames') /\ ImageFields(Fields, image')
  BY <1>2, <1>5 DEF FieldsKnown
<1> QED
  BY <1>6, <1>7, <1>8 DEF FieldsKnown

\* The file keeps its field, or is given a block for it.
LEMMA CopyFields ==
  ASSUME NEW blk, Base(host, blk, used, freenum, frames, file), words \subseteq Nat, FieldsKnown, CopyBlock
  PROVE  FieldsKnown'
<1> DEFINE b == First(used)
           size == IF file.rest > BlockSize THEN BlockSize ELSE file.rest
           data == [kind |-> "data", of |-> file.node, part |-> file.index, bytes |-> size]
           img == Stored(image, b, data)
           a == Attach(file.inode, file.index, b, used \union {b}, img)
<1>1. /\ file # NoFile /\ used # Block /\ Room(used \union {b}, file.inode, file.index)
      /\ file' = [file EXCEPT !.inode = a.inode, !.rest = @ - size, !.index = @ + 1]
      /\ image' = a.image /\ frames' = frames /\ words' = words
  BY DEF CopyBlock, Stored
<1>2. Attached(a, file.inode, file.index, b, used \union {b}, img)
  BY <1>1 DEF Attached
<1>3. b \in Block /\ b \in Nat /\ used \union {b} \subseteq Block
  BY <1>1, BaseTop, FirstFacts
<1>4. FileKnown(host, blk, file)
  BY <1>1 DEF Base
<1>5. file \in FileRec /\ file.inode \in InodeRec /\ file.index \in Nat
  BY <1>4 DEF FileKnown, FileRec
<1>6. file.inode.indirect \in Fields /\ ImageFields(Fields, image) /\ CallsFields(Fields, frames)
  BY <1>1 DEF FieldsKnown, FileFields
<1>7. data.kind # "inode"
  OBVIOUS
<1> HIDE DEF data
<1>8. ImageFields(Fields, img)
  BY <1>6, <1>7, WrittenFields
<1>9. Block \subseteq Fields
  BY LeftFields
<1> HIDE DEF b, img, a
<1>10. a.inode.indirect \in Fields /\ ImageFields(Fields, a.image)
  BY <1>2, <1>3, <1>5, <1>6, <1>8, <1>9, AttachedFields
<1>11. file'.inode = a.inode
  BY <1>1, <1>5 DEF FileRec
<1>12. FileFields(Fields, file')
  BY <1>10, <1>11 DEF FileFields
<1>13. Fields' = Fields
  BY <1>1 DEF Fields
<1>14. CallsFields(Fields, frames') /\ ImageFields(Fields, image')
  BY <1>1, <1>6, <1>10
<1> QED
  BY <1>12, <1>13, <1>14 DEF FieldsKnown

\* An inode goes to its block and the block into a directory (CloseFile and
\* Leave).
LEMMA ClosedFields ==
  ASSUME NEW fields, Block \subseteq fields, NEW ino, ino.indirect \in fields, NEW num \in Nat,
         NEW f \in FrameRec, CallFields(fields, f), used \subseteq Block, ImageFields(fields, image),
         NEW a, Attached(a, f.inode, f.next, num, used, Stored(image, num, ino))
  PROVE  a.inode \in InodeRec /\ a.inode.indirect \in fields /\ ImageFields(fields, a.image)
<1>1. f.inode \in InodeRec /\ f.next \in Nat /\ f.inode.indirect \in fields
  BY DEF FrameRec, CallFields
<1>2. ImageFields(fields, Stored(image, num, ino))
  BY WrittenFields
<1> QED
  BY <1>1, <1>2, AttachedFields

\* CloseFile leaves the field of the file's inode on the stack.
LEMMA CloseFields ==
  ASSUME NEW blk, Base(host, blk, used, freenum, frames, file), words \subseteq Nat, FieldsKnown, CloseFile
  PROVE  FieldsKnown'
<1> DEFINE img == Stored(image, file.num, file.inode)
           a == Attach(Top.inode, Top.next, file.num, used, img)
           x == file.inode.indirect
           g == [Top EXCEPT !.inode = a.inode, !.next = @ + 1, !.left.file = x]
<1>1. /\ file # NoFile /\ Room(used, Top.inode, Top.next) /\ image' = a.image /\ file' = NoFile
      /\ frames' = [frames EXCEPT ![Len(frames)] = g] /\ words' = words
  BY DEF CloseFile, Stored
<1>2. Attached(a, Top.inode, Top.next, file.num, used, img)
  BY <1>1 DEF Attached
<1>3. /\ Top \in FrameRec /\ frames \in Seq(FrameRec) /\ Len(frames) \in 1 .. Len(frames) /\ used \subseteq Block
  BY BaseTop
<1>4. FileKnown(host, blk, file)
  BY <1>1 DEF Base
<1>5. file.num \in Nat /\ x \in Nat
  BY <1>4 DEF FileKnown, FileRec, InodeRec
<1>6. /\ x \in Fields /\ ImageFields(Fields, image) /\ CallsFields(Fields, frames)
      /\ CallFields(Fields, Top) /\ Block \subseteq Fields
  BY <1>1, LeftFields DEF FieldsKnown, FileFields
<1>7. AfterFile(Top, g, a.inode, x)
  BY DEF AfterFile
<1> HIDE DEF a, g
<1>8. a.inode \in InodeRec /\ a.inode.indirect \in Fields /\ ImageFields(Fields, a.image)
  BY <1>2, <1>3, <1>5, <1>6, ClosedFields
<1> HIDE DEF x
<1>9. WentOn(Top, g, a.inode) /\ g.left.file = x /\ g.left.dir = Top.left.dir
  BY <1>3, <1>5, <1>7, <1>8, WentOnFacts
<1>10. g \in FrameRec /\ CallFields(Fields, g)
  BY <1>6, <1>8, <1>9 DEF WentOn, CallFields
<1>11. CallsFields(Fields, frames')
  BY <1>1, <1>3, <1>6, <1>10, CallsGoOn
<1>12. Fields' = Fields
  BY <1>1 DEF Fields
<1>13. FileFields(Fields, file') /\ ImageFields(Fields, image')
  BY <1>1, <1>8 DEF FileFields
<1> QED
  BY <1>11, <1>12, <1>13 DEF FieldsKnown

\* Leave leaves the field of the directory's inode on the stack.
LEMMA LeaveFields ==
  ASSUME NEW blk, Base(host, blk, used, freenum, frames, file), words \subseteq Nat, FieldsKnown, Leave
  PROVE  FieldsKnown'
<1> DEFINE ino == [Top.inode EXCEPT !.blocks = Top.next]
           img == Stored(image, Top.num, ino)
           a == Attach(Up.inode, Up.next, Top.num, used, img)
           g == [Up EXCEPT !.inode = a.inode, !.next = @ + 1, !.left.dir = ino.indirect]
           m == Len(frames) - 1
           calls == Front(frames)
<1>1. /\ Len(frames) > 1 /\ Room(used, Up.inode, Up.next) /\ image' = a.image /\ file' = file
      /\ frames' = [calls EXCEPT ![m] = g] /\ words' = words
  BY DEF Leave, Stored, Up
<1>2. Attached(a, Up.inode, Up.next, Top.num, used, img)
  BY <1>1 DEF Attached
<1>3. /\ Top.num \in Nat /\ Top.inode \in InodeRec /\ frames \in Seq(FrameRec) /\ Len(frames) \in Nat
      /\ used \subseteq Block
  BY BaseTop
<1>4. calls \in Seq(FrameRec) /\ Len(calls) = m /\ \A k \in 1 .. m : calls[k] = frames[k]
  BY <1>1, <1>3, FrontFrames
<1>5. m \in 1 .. m /\ m \in 1 .. Len(frames) /\ \A k \in 1 .. m : k \in 1 .. Len(frames)
  BY <1>1, <1>3
<1>6. /\ ImageFields(Fields, image) /\ CallsFields(Fields, frames) /\ FileFields(Fields, file)
      /\ CallFields(Fields, Top) /\ Block \subseteq Fields
  BY LeftFields DEF FieldsKnown
<1>7. Up \in FrameRec /\ CallFields(Fields, Up) /\ CallsFields(Fields, calls)
  <2>1. CallsFields(Fields, calls)
    BY <1>4, <1>5, <1>6 DEF CallsFields
  <2>2. Up = frames[m]
    BY DEF Up
  <2> HIDE DEF m
  <2> QED
    BY <1>3, <1>5, <1>6, <2>1, <2>2 DEF CallsFields
<1>8. ino.indirect = Top.inode.indirect /\ ino.indirect \in Fields /\ ino.indirect \in Nat
  BY <1>3, <1>6 DEF CallFields, InodeRec
<1>9. AfterDir(Up, g, a.inode, ino.indirect)
  BY DEF AfterDir
<1> HIDE DEF a, g, ino
<1>10. a.inode \in InodeRec /\ a.inode.indirect \in Fields /\ ImageFields(Fields, a.image)
  BY <1>2, <1>3, <1>6, <1>7, <1>8, ClosedFields
<1>11. WentOn(Up, g, a.inode) /\ g.left.dir = ino.indirect /\ g.left.file = Up.left.file
  BY <1>7, <1>8, <1>9, <1>10, WentOnFacts
<1>12. g \in FrameRec /\ CallFields(Fields, g)
  BY <1>7, <1>8, <1>10, <1>11 DEF WentOn, CallFields
<1> HIDE DEF calls, m
<1>13. CallsFields(Fields, frames')
  BY <1>1, <1>4, <1>5, <1>7, <1>12, CallsGoOn
<1>14. Fields' = Fields
  BY <1>1 DEF Fields
<1>15. FileFields(Fields, file') /\ ImageFields(Fields, image')
  BY <1>1, <1>6, <1>10
<1> QED
  BY <1>13, <1>14, <1>15 DEF FieldsKnown

\* The root's inode is written with its field.
LEMMA FinishFields ==
  ASSUME NEW blk, Base(host, blk, used, freenum, frames, file), words \subseteq Nat, FieldsKnown, Finish
  PROVE  FieldsKnown'
<1> DEFINE super == [kind |-> "super", unusedBlocks |-> freenum]
           freemap == [kind |-> "freemap", used |-> used]
           ino == [Top.inode EXCEPT !.blocks = Top.next]
<1>1. /\ image' = Stored(Stored(Stored(image, 0, super), 1, freemap), RootNum, ino)
      /\ words' = words /\ frames' = frames /\ file' = file
  BY DEF Finish, Stored
<1>2. Top.inode \in InodeRec /\ CallFields(Fields, Top)
  BY BaseTop, LeftFields
<1>3. super.kind # "inode" /\ freemap.kind # "inode" /\ ino.indirect \in Fields
  BY <1>2 DEF CallFields, InodeRec
<1> HIDE DEF super, freemap, ino
<1>4. ImageFields(Fields, Stored(image, 0, super))
  BY <1>3, WrittenFields DEF FieldsKnown
<1>5. ImageFields(Fields, Stored(Stored(image, 0, super), 1, freemap))
  BY <1>3, <1>4, WrittenFields
<1>6. ImageFields(Fields, image')
  BY <1>1, <1>3, <1>5, WrittenFields
<1>7. Fields' = Fields
  BY <1>1 DEF Fields
<1>8. CallsFields(Fields, frames') /\ FileFields(Fields, file')
  BY <1>1 DEF FieldsKnown
<1> QED
  BY <1>6, <1>7, <1>8 DEF FieldsKnown

\* The root's inode and the first call have their fields from the stack.
LEMMA InitFields ==
  ASSUME Init
  PROVE  FieldsKnown
<1>1. PICK root \in words, f \in words, d \in words :
        frames = <<NewFrame(<<>>, RootNum, RootNum, root, [file |-> f, dir |-> d])>>
  BY DEF Init
<1> DEFINE g == NewFrame(<<>>, RootNum, RootNum, root, [file |-> f, dir |-> d])
<1>2. g.inode.indirect = root /\ g.left.file = f /\ g.left.dir = d
  BY DEF NewFrame, NewInode
<1>3. CallFields(Fields, g)
  BY <1>2 DEF CallFields, Fields
<1>4. frames = <<g>>
  BY <1>1
<1> HIDE DEF g
<1>5. Len(frames) = 1 /\ frames[1] = g
  BY <1>4
<1>6. CallsFields(Fields, frames)
  BY <1>3, <1>5 DEF CallsFields
<1>7. FileFields(Fields, file) /\ ImageFields(Fields, image)
  BY DEF Init, FileFields, ImageFields
<1> QED
  BY <1>6, <1>7 DEF FieldsKnown

\* Whatever walk does, an indirect field holds a word of the stack or the
\* number of a block.
THEOREM FieldsInvariant == Spec => []FieldsKnown
<1>1. Init => FieldsKnown
  BY InitFields
<1>2. FieldsKnown /\ BaseInv /\ [Next]_vars => FieldsKnown'
  <2> SUFFICES ASSUME FieldsKnown, BaseInv, [Next]_vars PROVE FieldsKnown'
    OBVIOUS
  <2>1. PICK blk : Base(host, blk, used, freenum, frames, file)
    BY DEF BaseInv
  <2>2. words \subseteq Nat
    BY DEF BaseInv
  <2>3. ASSUME NEW p \in DOMAIN host, Enter(p) PROVE FieldsKnown'
    BY <2>1, <2>2, <2>3, EnterFields
  <2>4. ASSUME NEW p \in DOMAIN host, Open(p) PROVE FieldsKnown'
    BY <2>1, <2>2, <2>4, OpenFields
  <2>5. CASE CopyBlock
    BY <2>1, <2>2, <2>5, CopyFields
  <2>6. CASE CloseFile
    BY <2>1, <2>2, <2>6, CloseFields
  <2>7. CASE Leave
    BY <2>1, <2>2, <2>7, LeaveFields
  <2>8. CASE Finish
    BY <2>1, <2>2, <2>8, FinishFields
  <2>9. ASSUME words' = words, image' = image, frames' = frames, file' = file PROVE FieldsKnown'
    BY <2>9 DEF FieldsKnown, Fields
  <2>10. CASE DiskFull \/ WriteOutOfImage
    BY <2>9, <2>10 DEF DiskFull, WriteOutOfImage
  <2>11. CASE UNCHANGED vars
    BY <2>9, <2>11 DEF vars
  <2> QED
    BY <2>3, <2>4, <2>5, <2>6, <2>7, <2>8, <2>10, <2>11 DEF Next, Ended
<1>3. Spec => []BaseInv
  BY BaseInvariant
<1> QED
  BY <1>1, <1>2, <1>3, PTL DEF Spec
------------------------------------------------------------------------------
(* What the driver finds in the image.                                     *)

\* blk is where the parts of the host's tree are in the image that is written.
Packed(blk) == IsTree(host) /\ BlocksKnown(host, blk, used) /\ Final(host, blk, used, image)

\* An image that is written holds the whole tree.
LEMMA DonePacked ==
  ASSUME ImageInv, pc = "done"
  PROVE  \E blk : Packed(blk)
BY DEF ImageInv, Packed, Base

\* The inode of p, at number num.
InodeOf(blk, p, num, ino) ==
  /\ <<p, -1>> \in DOMAIN blk /\ num = blk[<<p, -1>>] /\ num \in Block /\ num \in Nat /\ num # NoInode
  /\ ino = image[num] /\ ino \in InodeRec /\ ino.kind = "inode" /\ ino.direct \in Seq(Nat)
  /\ ino.dir = host[p].dir /\ ino.size = host[p].size
  /\ ino.name = IF p = <<>> THEN "/" ELSE Last(p)
  /\ Finished(host, blk, DOMAIN host, image, p, ino)

\* What is in the inode of a node.
LEMMA PackedNode ==
  ASSUME NEW blk, Packed(blk), NEW p \in DOMAIN host
  PROVE  InodeOf(blk, p, blk[<<p, -1>>], image[blk[<<p, -1>>]])
<1> DEFINE num == blk[<<p, -1>>]
           ino == image[num]
<1>1. <<p, -1>> \in DOMAIN blk /\ Finished(host, blk, DOMAIN host, image, p, ino)
  BY DEF Packed, Final
<1>2. num \in used /\ used \subseteq Block
  BY <1>1 DEF Packed, BlocksKnown
<1> HIDE DEF num
<1>3. num \in Block /\ num \in Nat /\ num # NoInode
  <2>1. num \in Block
    BY <1>2
  <2> QED
    BY <2>1 DEF Block, NoInode
<1> HIDE DEF ino
<1>4. /\ ino \in InodeRec /\ ino.dir = host[p].dir /\ ino.size = host[p].size
      /\ ino.name = IF p = <<>> THEN "/" ELSE Last(p)
  BY <1>1 DEF Finished, Shape
<1>5. ino.kind = "inode" /\ ino.direct \in Seq(Nat)
  BY <1>4 DEF InodeRec
<1>6. InodeOf(blk, p, num, ino)
  BY <1>1, <1>3, <1>4, <1>5 DEF InodeOf, ino, num
<1> QED
  BY <1>6 DEF ino, num

\* The list of a directory: its entries behind . and ..
ListOf(p, ino, list) ==
  /\ Len(list) = Cardinality(Below(host, p)) /\ Len(list) \in Nat /\ DOMAIN list = 1 .. Len(list)
  /\ \A i \in 1 .. Len(list) : list[i] = EntryAt(image, ino, i + 1)

\* A function on 1 .. k is a sequence.
LEMMA FunctionSeq ==
  ASSUME NEW k \in Nat, NEW S, NEW f, f \in [1 .. k -> S]
  PROVE  f \in Seq(S) /\ Len(f) = k
OBVIOUS

\* Entries lists what is attached behind . and .., in direct and behind it.
LEMMA ListFacts ==
  ASSUME NEW blk, Packed(blk), NEW p \in DOMAIN host, host[p].dir, NEW num, NEW ino, InodeOf(blk, p, num, ino)
  PROVE  ListOf(p, ino, Entries(ino))
<1> DEFINE n == Count(host, p)
           last == IF ino.blocks <= Direct THEN ino.blocks ELSE Direct
           rest == IF ino.blocks <= Direct THEN 0 ELSE ino.blocks - Direct
           head == SubSeq(ino.direct, 3, last)
           tail == [i \in 1 .. rest |-> image[ino.indirect].at[i - 1]]
           list == Entries(ino)
<1>1. n = Cardinality(Below(host, p)) + 2 /\ Cardinality(Below(host, p)) \in Nat /\ n \in Nat
  BY TreeFacts, FS_CardinalityType DEF Packed
<1>2. Shape(host, blk, image, p, ino, n) /\ ino.blocks = n
  BY DEF InodeOf, Finished
<1>3. ino.direct \in Seq(Nat) /\ Len(ino.direct) = IF n < Direct THEN n ELSE Direct
  BY <1>2 DEF InodeOf, Shape
<1>4. list = head \o tail
  BY DEF Entries
<1>5. Direct \in Nat /\ Direct >= 2
  BY Sizes
<1>6. last \in Nat /\ last <= Direct /\ last >= 2 /\ last = Len(ino.direct) /\ rest \in Nat /\ last + rest = n
  BY <1>1, <1>2, <1>3, <1>5
<1> HIDE DEF n, last, rest
<1>7. /\ head \in Seq(Nat) /\ Len(head) = last - 2 /\ \A i \in 1 .. last - 2 : head[i] = ino.direct[i + 2]
  <2>1. \A i \in 3 .. last : ino.direct[i] \in Nat
    <3>1. \A i \in 3 .. last : i \in 1 .. Len(ino.direct)
      BY <1>6
    <3> QED
      BY <1>3, <3>1, ElementOfSeq
  <2>2. /\ head \in Seq(Nat) /\ Len(head) = (IF 3 <= last THEN last - 3 + 1 ELSE 0)
        /\ \A i \in 1 .. last - 3 + 1 : head[i] = ino.direct[3 + i - 1]
    <3>1. 3 \in Int /\ last \in Int
      BY <1>6
    <3> QED
      BY <2>1, <3>1, SubSeqProperties
  <2>3. Len(head) = last - 2
    BY <1>6, <2>2
  <2>4. ASSUME NEW i \in 1 .. last - 2 PROVE head[i] = ino.direct[i + 2]
    <3>1. i \in 1 .. last - 3 + 1 /\ 3 + i - 1 = i + 2
      BY <1>6
    <3> QED
      BY <2>2, <3>1
  <2> QED
    BY <2>2, <2>3, <2>4
<1> DEFINE V == Nat \union {tail[i] : i \in 1 .. rest}
<1>8. tail \in Seq(V) /\ head \in Seq(V) /\ Len(tail) = rest
  <2>1. \A i \in 1 .. rest : tail[i] \in V
    OBVIOUS
  <2>2. tail \in [1 .. rest -> V]
    BY <2>1
  <2>9. \A x \in Nat : x \in V
    OBVIOUS
  <2> HIDE DEF tail, head, V
  <2>3. tail \in Seq(V) /\ Len(tail) = rest
    BY <1>6, <2>2, FunctionSeq
  <2>4. \A i \in 1 .. Len(head) : head[i] \in V
    <3>1. \A i \in 1 .. Len(head) : head[i] \in Nat
      BY <1>7, ElementOfSeq
    <3> QED
      BY <2>9, <3>1
  <2>5. DOMAIN head = 1 .. Len(head) /\ Len(head) \in Nat
    BY <1>7, LenProperties
  <2>6. head = [i \in 1 .. Len(head) |-> head[i]]
    BY <1>7, <2>5
  <2>7. head \in [1 .. Len(head) -> V]
    BY <2>4, <2>6
  <2>8. head \in Seq(V)
    BY <2>5, <2>7, FunctionSeq
  <2> QED
    BY <2>3, <2>8
<1>9. \A i \in 1 .. rest : tail[i] = image[ino.indirect].at[i - 1]
  OBVIOUS
<1> HIDE DEF head, tail, V
<1>10. /\ list \in Seq(V) /\ Len(list) = Len(head) + Len(tail)
       /\ \A i \in 1 .. Len(head) + Len(tail) : list[i] = IF i <= Len(head) THEN head[i] ELSE tail[i - Len(head)]
  <2>1. /\ head \o tail \in Seq(V) /\ Len(head \o tail) = Len(head) + Len(tail)
        /\ \A i \in 1 .. Len(head) + Len(tail) : (head \o tail)[i] = IF i <= Len(head) THEN head[i] ELSE tail[i - Len(head)]
    BY <1>8, ConcatProperties
  <2> QED
    BY <1>4, <2>1
<1> HIDE DEF list
<1>11. Len(list) = Cardinality(Below(host, p)) /\ DOMAIN list = 1 .. Len(list)
  <2>1. DOMAIN list = 1 .. Len(list)
    BY <1>10, LenProperties
  <2>2. Len(head) + Len(tail) = n - 2
    BY <1>1, <1>6, <1>7, <1>8
  <2> QED
    BY <1>1, <1>10, <2>1, <2>2
<1>12. ASSUME NEW i \in 1 .. Len(list) PROVE list[i] = EntryAt(image, ino, i + 1)
  <2>1. i \in Nat /\ i >= 1 /\ i <= n - 2 /\ Len(list) = n - 2 /\ i \in 1 .. Len(head) + Len(tail)
    BY <1>1, <1>6, <1>7, <1>8, <1>10, <1>11
  <2>2. CASE i <= last - 2
    <3>1. i \in 1 .. last - 2 /\ i + 1 < Direct /\ (i + 1) + 1 = i + 2 /\ i <= Len(head)
      BY <1>5, <1>6, <1>7, <2>1, <2>2
    <3>2. list[i] = ino.direct[i + 2]
      BY <1>7, <1>10, <2>1, <3>1
    <3> QED
      BY <3>1, <3>2 DEF EntryAt
  <2>3. CASE ~(i <= last - 2)
    <3>1. ~(i <= Len(head)) /\ i - Len(head) = i - last + 2 /\ i - last + 2 \in 1 .. rest
      BY <1>6, <1>7, <2>1, <2>3
    <3>2. last = Direct
      BY <1>2, <1>5, <1>6, <3>1 DEF last, rest
    <3>3. list[i] = tail[i - last + 2]
      BY <1>10, <2>1, <3>1
    <3>4. tail[i - last + 2] = image[ino.indirect].at[(i - last + 2) - 1]
      BY <1>9, <3>1
    <3>5. (i - last + 2) - 1 = (i + 1) - Direct /\ ~(i + 1 < Direct)
      BY <1>5, <2>1, <2>3, <3>2
    <3> QED
      BY <3>3, <3>4, <3>5 DEF EntryAt
  <2> QED
    BY <2>2, <2>3
<1>13. ListOf(p, ino, list)
  BY <1>1, <1>11, <1>12 DEF ListOf
<1> QED
  BY <1>13 DEF list

\* The entries of a directory lead to the nodes below it and have their names.
EntriesOf(blk, p, list) ==
  /\ Len(list) = Cardinality(Below(host, p)) /\ Len(list) \in Nat /\ DOMAIN list = 1 .. Len(list)
  /\ \A i \in DOMAIN list : \E q \in Below(host, p) : list[i] = blk[<<q, -1>>] /\ image[list[i]].name = Last(q)
  /\ \A q \in Below(host, p) : \E i \in DOMAIN list : list[i] = blk[<<q, -1>>] /\ image[list[i]].name = Last(q)

\* The list of a directory, in the words of the tree.
LEMMA EntryNames ==
  ASSUME NEW blk, Packed(blk), NEW p \in DOMAIN host, host[p].dir
  PROVE  EntriesOf(blk, p, Entries(image[blk[<<p, -1>>]]))
<1> DEFINE num == blk[<<p, -1>>]
           ino == image[num]
           list == Entries(ino)
           n == Count(host, p)
<1>1. IsTree(host)
  BY DEF Packed
<1>2. InodeOf(blk, p, num, ino)
  BY PackedNode
<1> HIDE DEF ino
<1>3. ListOf(p, ino, list)
  BY <1>2, ListFacts
<1> HIDE DEF num, list
<1>4. n = Cardinality(Below(host, p)) + 2
  BY <1>1, TreeFacts
<1>5. DirEntries(host, blk, DOMAIN host, image, p, ino, n)
  BY <1>2 DEF InodeOf, Finished
<1>6. Below(host, p) \intersect DOMAIN host = Below(host, p)
  BY DEF Below
<1>7. /\ \A j \in 2 .. n - 1 : \E q \in Below(host, p) : EntryAt(image, ino, j) = blk[<<q, -1>>]
      /\ \A q \in Below(host, p) : \E j \in 2 .. n - 1 : EntryAt(image, ino, j) = blk[<<q, -1>>]
  BY <1>5, <1>6 DEF DirEntries
<1> HIDE DEF n
<1>8. \A i \in 1 .. Len(list) : i \in DOMAIN list /\ i + 1 \in 2 .. n - 1 /\ list[i] = EntryAt(image, ino, i + 1)
  BY <1>3, <1>4 DEF ListOf
<1>9. ASSUME NEW q \in Below(host, p)
      PROVE  image[blk[<<q, -1>>]].name = Last(q)
  <2>1. q \in DOMAIN host /\ q # <<>>
    BY DEF Below
  <2> QED
    BY <2>1, PackedNode DEF InodeOf
<1>10. ASSUME NEW i \in DOMAIN list
       PROVE  \E q \in Below(host, p) : list[i] = blk[<<q, -1>>] /\ image[list[i]].name = Last(q)
  <2>1. i \in 1 .. Len(list)
    BY <1>3 DEF ListOf
  <2>2. i + 1 \in 2 .. n - 1 /\ list[i] = EntryAt(image, ino, i + 1)
    BY <1>8, <2>1
  <2>3. PICK q \in Below(host, p) : list[i] = blk[<<q, -1>>]
    BY <1>7, <2>2
  <2> QED
    BY <1>9, <2>3
<1>11. ASSUME NEW q \in Below(host, p)
       PROVE  \E i \in DOMAIN list : list[i] = blk[<<q, -1>>] /\ image[list[i]].name = Last(q)
  <2>1. PICK j \in 2 .. n - 1 : EntryAt(image, ino, j) = blk[<<q, -1>>]
    BY <1>7
  <2>2. j - 1 \in 1 .. Len(list) /\ (j - 1) + 1 = j
    BY <1>3, <1>4 DEF ListOf
  <2>3. j - 1 \in DOMAIN list /\ list[j - 1] = blk[<<q, -1>>]
    BY <1>8, <2>1, <2>2
  <2> QED
    BY <1>9, <2>3
<1>12. EntriesOf(blk, p, list)
  BY <1>3, <1>10, <1>11 DEF EntriesOf, ListOf
<1> QED
  BY <1>12 DEF list, ino, num

\* lookup finds each entry of a directory, and goes up with ..
LEMMA NameFound ==
  ASSUME NEW blk, Packed(blk), NEW p \in DOMAIN host, NEW q \in Below(host, p)
  PROVE  LookupName(blk[<<p, -1>>], Last(q)) = blk[<<q, -1>>]
<1> DEFINE num == blk[<<p, -1>>]
           list == Entries(image[num])
           found == {i \in DOMAIN list : image[list[i]].name = Last(q)}
<1>1. IsTree(host) /\ q \in DOMAIN host /\ host[p].dir /\ Last(q) # "." /\ Last(q) # ".." /\ q # <<>>
  <2>1. IsTree(host) /\ q \in DOMAIN host
    BY DEF Packed, Below
  <2> QED
    BY <2>1, NodesBelow
<1>2. EntriesOf(blk, p, list)
  BY <1>1, EntryNames
<1>3. num # NoInode /\ image[num].dir
  BY <1>1, PackedNode DEF InodeOf
<1>4. LookupName(num, Last(q)) = IF found = {} THEN NoInode ELSE list[Min(found)]
  BY <1>1, <1>3 DEF LookupName
<1> HIDE DEF num, list
<1>5. found # {} /\ \A i \in found : list[i] = blk[<<q, -1>>]
  <2>1. ASSUME NEW i \in found PROVE list[i] = blk[<<q, -1>>]
    <3>1. PICK r \in Below(host, p) : list[i] = blk[<<r, -1>>] /\ image[list[i]].name = Last(r)
      BY <1>2 DEF EntriesOf
    <3>2. Last(r) = Last(q)
      BY <3>1
    <3>3. r = q
      BY <1>1, <3>2, NamesDiffer
    <3> QED
      BY <3>1, <3>3
  <2> QED
    BY <1>2, <2>1 DEF EntriesOf
<1>6. found \subseteq Nat
  BY <1>2 DEF EntriesOf
<1> HIDE DEF found
<1>7. Min(found) \in found
  <2>1. \E x \in found : \A y \in found : x <= y
    BY <1>5, <1>6, LeastNat
  <2> QED
    BY <2>1 DEF Min
<1> QED
  BY <1>4, <1>5, <1>7 DEF num

\* The second entry of a directory leads up.
LEMMA ParentFound ==
  ASSUME NEW blk, Packed(blk), NEW p \in DOMAIN host, host[p].dir
  PROVE  LookupName(blk[<<p, -1>>], "..") = blk[<<Parent(p), -1>>]
<1> DEFINE num == blk[<<p, -1>>]
           ino == image[num]
<1>1. InodeOf(blk, p, num, ino)
  BY PackedNode
<1> HIDE DEF ino
<1>2. num # NoInode /\ ino.dir /\ ino = image[num] /\ EntryAt(image, ino, 1) = blk[<<Parent(p), -1>>]
  BY <1>1 DEF InodeOf, Finished, DirEntries
<1>3. EntryAt(image, ino, 1) = ino.direct[2]
  BY Sizes DEF EntryAt
<1> HIDE DEF num
<1>4. LookupName(num, "..") = image[num].direct[2]
  BY <1>2 DEF LookupName
<1> QED
  BY <1>2, <1>3, <1>4 DEF num
\* What lookup finds after each name of a path.
Trail(node, absolute, names, g) ==
  g = [k \in 0 .. Len(names) |->
         IF k > 0 THEN LookupName(g[k - 1], names[k])
         ELSE IF absolute \/ node = NoInode THEN RootInode ELSE node]

\* lookup ends where its trail does: no other function satisfies its recursion.
LEMMA LookupTrail ==
  ASSUME NEW node, NEW absolute, NEW names, Len(names) \in Nat, NEW g, Trail(node, absolute, names, g)
  PROVE  Lookup(node, absolute, names) = g[Len(names)]
<1> DEFINE n == Len(names)
           start == IF absolute \/ node = NoInode THEN RootInode ELSE node
           Next1(f, k) == IF k > 0 THEN LookupName(f[k - 1], names[k]) ELSE start
           at == CHOOSE f : f = [k \in 0 .. n |-> IF k > 0 THEN LookupName(f[k - 1], names[k]) ELSE start]
           Wrong == {k \in 0 .. n : at[k] # g[k]}
<1>1. n \in Nat
  OBVIOUS
<1>2. Lookup(node, absolute, names) = at[n]
  BY DEF Lookup
<1>3. g = [k \in 0 .. n |-> Next1(g, k)]
  BY DEF Trail
<1> HIDE DEF n, start
<1>4. at = [k \in 0 .. n |-> Next1(at, k)]
  <2>1. \E f : f = [k \in 0 .. n |-> IF k > 0 THEN LookupName(f[k - 1], names[k]) ELSE start]
    BY <1>3
  <2>2. at = [k \in 0 .. n |-> IF k > 0 THEN LookupName(at[k - 1], names[k]) ELSE start]
    BY <2>1
  <2> QED
    BY <2>2
<1> HIDE DEF at
<1>5. \A k \in 0 .. n : at[k] = Next1(at, k) /\ g[k] = Next1(g, k)
  <2>1. \A k \in 0 .. n : at[k] = Next1(at, k)
    BY <1>4
  <2>2. \A k \in 0 .. n : g[k] = Next1(g, k)
    BY <1>3
  <2> QED
    BY <2>1, <2>2
<1>6. Wrong = {}
  <2> SUFFICES ASSUME Wrong # {} PROVE FALSE
    OBVIOUS
  <2>1. PICK k \in Wrong : \A i \in Wrong : k <= i
    <3>1. Wrong \subseteq Nat
      BY <1>1
    <3> HIDE DEF Wrong
    <3> QED
      BY <3>1, LeastNat
  <2>2. k \in 0 .. n /\ at[k] # g[k] /\ at[k] = Next1(at, k) /\ g[k] = Next1(g, k)
    BY <1>5
  <2>3. k > 0
    BY <1>1, <2>2
  <2>4. k - 1 \in 0 .. n /\ k - 1 \notin Wrong
    BY <1>1, <2>1, <2>2, <2>3
  <2>5. at[k - 1] = g[k - 1]
    BY <2>4
  <2> QED
    BY <2>2, <2>3, <2>5
<1>7. n \in 0 .. n
  BY <1>1
<1> QED
  BY <1>2, <1>6, <1>7 DEF n

\* The names lead from path[0] to the last element of path.
PathOf(names, path) ==
  /\ Len(names) \in Nat /\ path[0] \in DOMAIN host
  /\ \A i \in 1 .. Len(names) : path[i] \in Below(host, path[i - 1]) /\ Last(path[i]) = names[i]

\* lookup follows the nodes of a path.
LEMMA PathFound ==
  ASSUME NEW blk, Packed(blk), NEW names, NEW path, PathOf(names, path),
         NEW node, NEW absolute, (IF absolute \/ node = NoInode THEN RootInode ELSE node) = blk[<<path[0], -1>>]
  PROVE  Lookup(node, absolute, names) = blk[<<path[Len(names)], -1>>]
<1> DEFINE n == Len(names)
           start == IF absolute \/ node = NoInode THEN RootInode ELSE node
           Next1(f, k) == IF k > 0 THEN LookupName(f[k - 1], names[k]) ELSE start
           g == [k \in 0 .. n |-> blk[<<path[k], -1>>]]
<1>1. n \in Nat /\ \A i \in 1 .. n : path[i] \in Below(host, path[i - 1]) /\ Last(path[i]) = names[i]
  BY DEF PathOf
<1>2. ASSUME NEW k \in 0 .. n PROVE path[k] \in DOMAIN host
  <2>1. CASE k = 0
    BY <2>1 DEF PathOf
  <2>2. CASE k # 0
    <3>1. k \in 1 .. n
      BY <1>1, <2>2
    <3> QED
      BY <1>1, <3>1 DEF Below
  <2> QED
    BY <2>1, <2>2
<1>3. start = blk[<<path[0], -1>>]
  OBVIOUS
<1> HIDE DEF start
<1>4. ASSUME NEW k \in 0 .. n, k > 0
      PROVE  LookupName(blk[<<path[k - 1], -1>>], names[k]) = blk[<<path[k], -1>>]
  <2>1. k \in 1 .. n /\ k - 1 \in 0 .. n
    BY <1>1, <1>4
  <2>2. path[k - 1] \in DOMAIN host /\ path[k] \in Below(host, path[k - 1]) /\ names[k] = Last(path[k])
    BY <1>1, <1>2, <2>1
  <2> QED
    BY <2>2, NameFound
<1>6. \A k \in 0 .. n : g[k] = Next1(g, k)
  <2> SUFFICES ASSUME NEW k \in 0 .. n PROVE g[k] = Next1(g, k)
    OBVIOUS
  <2>1. CASE k > 0
    <3>1. k - 1 \in 0 .. n
      BY <1>1, <2>1
    <3> QED
      BY <1>4, <2>1, <3>1
  <2>2. CASE ~(k > 0)
    <3>1. k = 0
      BY <1>1, <2>2
    <3> QED
      BY <1>3, <2>2, <3>1
  <2> QED
    BY <2>1, <2>2
<1>7. g = [k \in 0 .. n |-> Next1(g, k)]
  BY <1>6
<1>8. n \in 0 .. n
  BY <1>1
<1>9. g[n] = blk[<<path[n], -1>>]
  BY <1>8
<1> HIDE DEF g
<1>10. Trail(node, absolute, names, g)
  BY <1>7 DEF Trail, start
<1>11. Lookup(node, absolute, names) = g[n]
  BY <1>1, <1>10, LookupTrail
<1> QED
  BY <1>9, <1>11

\* What is above a node of the tree is in the tree.
LEMMA PrefixFacts ==
  ASSUME NEW h, IsTree(h), NEW p \in DOMAIN h
  PROVE  \A m \in 0 .. Len(p) :
           /\ SubSeq(p, 1, m) \in DOMAIN h
           /\ m > 0 => SubSeq(p, 1, m) \in Below(h, SubSeq(p, 1, m - 1)) /\ Last(SubSeq(p, 1, m)) = p[m]
<1> DEFINE n == Len(p)
           pre(m) == SubSeq(p, 1, m)
<1>1. p \in Seq(STRING) /\ n \in Nat /\ \A i \in 1 .. n : p[i] \in STRING
  BY TreeFacts, LenProperties
<1> HIDE DEF n
<1>2. ASSUME NEW m \in 0 .. n
      PROVE  pre(m) \in Seq(STRING) /\ Len(pre(m)) = m /\ \A i \in 1 .. m : pre(m)[i] = p[i]
  <2>1. m \in Nat /\ 1 \in Int /\ m \in Int /\ \A i \in 1 .. m : p[i] \in STRING
    BY <1>1
  <2>2. /\ SubSeq(p, 1, m) \in Seq(STRING) /\ Len(SubSeq(p, 1, m)) = IF 1 <= m THEN m - 1 + 1 ELSE 0
        /\ \A i \in 1 .. m - 1 + 1 : SubSeq(p, 1, m)[i] = p[1 + i - 1]
    BY <2>1, SubSeqProperties
  <2> QED
    BY <2>1, <2>2
<1>3. pre(n) = p
  <2>1. n \in 0 .. n
    BY <1>1
  <2> QED
    BY <1>1, <1>2, <2>1, SeqEqual DEF n
<1> HIDE DEF pre
<1>4. ASSUME NEW m \in 1 .. n
      PROVE  pre(m) # <<>> /\ Front(pre(m)) = pre(m - 1) /\ Last(pre(m)) = p[m]
  <2>1. m \in 0 .. n /\ m - 1 \in 0 .. n /\ m \in Nat /\ m >= 1 /\ m \in 1 .. m
    BY <1>1
  <2>2. pre(m) \in Seq(STRING) /\ Len(pre(m)) = m /\ \A i \in 1 .. m : pre(m)[i] = p[i]
    BY <1>2, <2>1
  <2>3. pre(m - 1) \in Seq(STRING) /\ Len(pre(m - 1)) = m - 1 /\ \A i \in 1 .. m - 1 : pre(m - 1)[i] = p[i]
    BY <1>2, <2>1
  <2>4. pre(m) # <<>>
    BY <2>1, <2>2, EmptySeq
  <2>5. Last(pre(m)) = p[m]
    BY <2>1, <2>2 DEF Last
  <2>6. Front(pre(m)) \in Seq(STRING) /\ Len(Front(pre(m))) = m - 1 /\ \A i \in 1 .. m - 1 : Front(pre(m))[i] = p[i]
    <3> DEFINE u == m - 1
               s == pre(m)
    <3>1. u \in Nat /\ 1 \in Int /\ u \in Int /\ \A i \in 1 .. u : s[i] \in STRING
      BY <1>1, <2>1, <2>2
    <3>2. Front(s) = SubSeq(s, 1, u)
      BY <2>2 DEF Front
    <3>3. \A i \in 1 .. u : s[i] = p[i]
      BY <2>1, <2>2
    <3> HIDE DEF u, s
    <3>4. /\ SubSeq(s, 1, u) \in Seq(STRING) /\ Len(SubSeq(s, 1, u)) = IF 1 <= u THEN u - 1 + 1 ELSE 0
          /\ \A i \in 1 .. u - 1 + 1 : SubSeq(s, 1, u)[i] = s[1 + i - 1]
      BY <3>1, SubSeqProperties
    <3>5. Front(s) \in Seq(STRING) /\ Len(Front(s)) = u /\ \A i \in 1 .. u : Front(s)[i] = p[i]
      BY <3>1, <3>2, <3>3, <3>4
    <3> QED
      BY <3>5 DEF u, s
  <2>7. Front(pre(m)) = pre(m - 1)
    <3> DEFINE s == Front(pre(m))
               t == pre(m - 1)
    <3>1. s \in Seq(STRING) /\ t \in Seq(STRING) /\ Len(s) = Len(t) /\ \A i \in 1 .. Len(s) : s[i] = t[i]
      BY <2>3, <2>6
    <3> HIDE DEF s, t
    <3>2. s = t
      BY <3>1, SeqEqual
    <3> QED
      BY <3>2 DEF s, t
  <2> QED
    BY <2>4, <2>5, <2>7
<1> DEFINE Wrong == {j \in 0 .. n : pre(n - j) \notin DOMAIN h}
<1>5. Wrong = {}
  <2> SUFFICES ASSUME Wrong # {} PROVE FALSE
    OBVIOUS
  <2>1. PICK j \in Wrong : \A i \in Wrong : j <= i
    <3>1. Wrong \subseteq Nat
      BY <1>1
    <3> HIDE DEF Wrong
    <3> QED
      BY <3>1, LeastNat
  <2>2. j # 0
    <3>1. n - 0 = n
      BY <1>1
    <3> QED
      BY <1>3, <2>1, <3>1
  <2>3. j - 1 \in 0 .. n /\ j - 1 \notin Wrong /\ n - (j - 1) = n - j + 1
    <3>1. j \in Nat /\ j >= 1 /\ j <= n
      BY <1>1, <2>1, <2>2
    <3>2. j - 1 \notin Wrong
      <4> HIDE DEF Wrong
      <4>1. ~(j <= j - 1)
        BY <3>1
      <4> QED
        BY <2>1, <4>1
    <3> QED
      BY <1>1, <3>1, <3>2
  <2>4. n - j + 1 \in 1 .. n /\ (n - j + 1) - 1 = n - j
    BY <1>1, <2>1, <2>2
  <2>5. pre(n - j + 1) \in DOMAIN h
    BY <2>3
  <2>6. pre(n - j + 1) # <<>> /\ Front(pre(n - j + 1)) = pre(n - j)
    BY <1>4, <2>4
  <2>7. pre(n - j) \in DOMAIN h
    BY <2>5, <2>6 DEF IsTree
  <2> QED
    BY <2>1, <2>7
<1>6. ASSUME NEW m \in 0 .. n PROVE pre(m) \in DOMAIN h
  <2>1. n - m \in 0 .. n /\ n - (n - m) = m
    BY <1>1
  <2> QED
    BY <1>5, <2>1
<1>7. ASSUME NEW m \in 0 .. n, m > 0 PROVE pre(m) \in Below(h, pre(m - 1)) /\ Last(pre(m)) = p[m]
  <2>1. m \in 1 .. n
    BY <1>1, <1>7
  <2> QED
    BY <1>4, <1>6, <2>1 DEF Below
<1> QED
  BY <1>6, <1>7 DEF pre, n

\* From any node above p (up to its k-th name) the rest of the names leads to p.
LEMMA RestFound ==
  ASSUME NEW blk, Packed(blk), NEW p \in DOMAIN host, NEW k \in 0 .. Len(p), NEW m \in k .. Len(p),
         NEW node, NEW absolute,
         (IF absolute \/ node = NoInode THEN RootInode ELSE node) = blk[<<SubSeq(p, 1, k), -1>>]
  PROVE  Lookup(node, absolute, SubSeq(p, k + 1, m)) = blk[<<SubSeq(p, 1, m), -1>>]
<1> DEFINE names == SubSeq(p, k + 1, m)
           path == [i \in 0 .. m - k |-> SubSeq(p, 1, k + i)]
<1>1. IsTree(host) /\ p \in Seq(STRING) /\ Len(p) \in Nat
  <2>1. IsTree(host)
    BY DEF Packed
  <2> QED
    BY <2>1, TreeFacts
<1>2. k \in Nat /\ m \in Nat /\ k <= m /\ m <= Len(p) /\ m - k \in Nat
  BY <1>1
<1>3. Len(names) = m - k /\ \A i \in 1 .. m - k : names[i] = p[k + i]
  <2> DEFINE a == k + 1
  <2>1. a \in Int /\ m \in Int
    BY <1>2
  <2>2. \A i \in a .. m : p[i] \in STRING
    <3>1. \A i \in a .. m : i \in 1 .. Len(p)
      BY <1>1, <1>2
    <3> QED
      BY <1>1, <3>1, ElementOfSeq
  <2>3. a = k + 1
    OBVIOUS
  <2> HIDE DEF a
  <2>4. /\ Len(SubSeq(p, a, m)) = IF a <= m THEN m - a + 1 ELSE 0
        /\ \A i \in 1 .. m - a + 1 : SubSeq(p, a, m)[i] = p[a + i - 1]
    BY <2>1, <2>2, SubSeqProperties
  <2>5. Len(SubSeq(p, a, m)) = m - k
    BY <1>2, <2>3, <2>4
  <2>6. ASSUME NEW i \in 1 .. m - k PROVE SubSeq(p, a, m)[i] = p[k + i]
    <3>1. i \in 1 .. m - a + 1 /\ a + i - 1 = k + i
      BY <1>2, <2>3
    <3> QED
      BY <2>4, <3>1
  <2> QED
    BY <2>3, <2>5, <2>6
<1> HIDE DEF names
<1>4. \A i \in 0 .. m - k : path[i] = SubSeq(p, 1, k + i)
  OBVIOUS
<1> HIDE DEF path
<1>5. 0 \in 0 .. m - k /\ k + 0 = k /\ m - k \in 0 .. m - k /\ k + (m - k) = m
  BY <1>2
<1>6. path[0] = SubSeq(p, 1, k) /\ path[m - k] = SubSeq(p, 1, m)
  BY <1>4, <1>5
<1>7. ASSUME NEW i \in 1 .. m - k PROVE path[i] \in Below(host, path[i - 1]) /\ Last(path[i]) = names[i]
  <2>1. k + i \in 0 .. Len(p) /\ k + i > 0 /\ i \in 0 .. m - k /\ i - 1 \in 0 .. m - k /\ (k + i) - 1 = k + (i - 1)
    BY <1>1, <1>2
  <2>2. path[i] = SubSeq(p, 1, k + i) /\ path[i - 1] = SubSeq(p, 1, (k + i) - 1)
    BY <1>4, <2>1
  <2> DEFINE e == k + i
  <2>3. e \in 0 .. Len(p) /\ e > 0 /\ e = k + i
    BY <2>1
  <2> HIDE DEF e
  <2>4. SubSeq(p, 1, e) \in Below(host, SubSeq(p, 1, e - 1)) /\ Last(SubSeq(p, 1, e)) = p[e]
    BY <1>1, <2>3, PrefixFacts
  <2> QED
    BY <1>3, <2>2, <2>3, <2>4
<1>8. path[0] \in DOMAIN host
  BY <1>1, <1>6, PrefixFacts
<1>9. PathOf(names, path)
  BY <1>2, <1>3, <1>7, <1>8 DEF PathOf
<1>10. Lookup(node, absolute, names) = blk[<<path[Len(names)], -1>>]
  <2>1. (IF absolute \/ node = NoInode THEN RootInode ELSE node) = blk[<<path[0], -1>>]
    BY <1>6
  <2> QED
    BY <1>9, <2>1, PathFound
<1> QED
  BY <1>3, <1>6, <1>10 DEF names
\* readall copies as often as the file has blocks: finode.blocks wraps for an
\* empty file, but then nothing is left to copy.
LEMMA Rounds ==
  ASSUME NEW size \in Nat, size < Word
  PROVE  LET c == (size + BlockSize - 1) \div BlockSize
         IN  Cardinality({i \in 0 .. Blocks(size) - 1 : size - i * BlockSize > 0}) = c
<1> DEFINE c == (size + BlockSize - 1) \div BlockSize
           b == Blocks(size)
           w == (size - 1) % Word
           d == w \div BlockSize
<1>1. BlockSize \in Nat /\ BlockSize > 0 /\ Word \in Nat /\ Word > 0
  BY Sizes
<1>2. c \in Nat /\ \A i \in Nat : i < c <=> i * BlockSize < size
  BY CountFacts
<1>3. w \in Nat /\ (size > 0 => w = size - 1)
  BY <1>1
<1>4. b = d + 1
  BY DEF Blocks
<1> HIDE DEF c, b, w
<1>5. d \in Nat /\ d * BlockSize <= w /\ w < d * BlockSize + BlockSize
  BY ONLY <1>1, <1>3
<1> HIDE DEF d
<1>6. ASSUME NEW i \in Nat PROVE i * BlockSize \in Nat
  BY <1>1
<1>7. ASSUME NEW i \in Nat, i < c PROVE i \in 0 .. b - 1
  <2>1. i * BlockSize < size /\ size > 0 /\ w = size - 1
    BY <1>2, <1>3, <1>6, <1>7
  <2>2. ~(i <= d) => (d + 1) * BlockSize <= i * BlockSize
    BY ONLY <1>1, <1>5, i \in Nat
  <2>3. (d + 1) * BlockSize = d * BlockSize + BlockSize
    BY ONLY <1>1, <1>5
  <2>4. d * BlockSize \in Nat
    BY <1>5, <1>6
  <2>5. i <= d
    BY <1>1, <1>5, <1>6, <2>1, <2>2, <2>3, <2>4
  <2> QED
    BY <1>4, <1>5, <2>5
<1> DEFINE R == {i \in 0 .. b - 1 : size - i * BlockSize > 0}
<1>8. R = 0 .. c - 1
  <2>1. ASSUME NEW i \in R PROVE i \in 0 .. c - 1
    <3>1. i \in Nat /\ i * BlockSize < size
      <4>1. i \in Nat /\ size - i * BlockSize > 0
        BY <1>4, <1>5
      <4> QED
        BY <1>6, <4>1
    <3>2. i < c
      BY <1>2, <3>1
    <3> QED
      BY <1>2, <3>1, <3>2
  <2>2. ASSUME NEW i \in 0 .. c - 1 PROVE i \in R
    <3>1. i \in Nat /\ i < c
      BY <1>2
    <3>2. i \in 0 .. b - 1 /\ i * BlockSize < size /\ i * BlockSize \in Nat
      BY <1>2, <1>6, <1>7, <3>1
    <3> QED
      BY <3>2
  <2> QED
    BY <2>1, <2>2
<1> HIDE DEF R
<1>9. Cardinality(0 .. c - 1) = c
  <2>1. 0 \in Int /\ c - 1 \in Int
    BY <1>2
  <2>2. Cardinality(0 .. c - 1) = IF 0 > c - 1 THEN 0 ELSE (c - 1) - 0 + 1
    BY <2>1, FS_Interval
  <2> QED
    BY <1>2, <2>2
<1> QED
  BY <1>8, <1>9 DEF R, b, c

\* The count of an empty file wraps, to more blocks than direct has room for.
LEMMA EmptyBlocks == Blocks(0) > Direct
<1> DEFINE w == (0 - 1) % Word
           d == w \div BlockSize
<1>1. Word \in Nat /\ Word > 0 /\ BlockSize \in Nat /\ BlockSize > 0 /\ Direct \in Nat
  <2>1. Direct * BlockSize \in Nat /\ Direct * BlockSize < Word
    BY Sizes, FileDriverAssumption
  <2> QED
    BY <2>1, Sizes
<1>2. w = Word - 1 /\ w \in Nat
  BY ONLY <1>1
<1>3. Blocks(0) = d + 1
  BY DEF Blocks
<1>4. Direct * BlockSize <= w /\ Direct * BlockSize \in Nat
  BY <1>1, <1>2, FileDriverAssumption
<1> HIDE DEF w
<1>5. d \in Nat /\ w < d * BlockSize + BlockSize /\ d * BlockSize + BlockSize = (d + 1) * BlockSize
  BY ONLY <1>1, <1>2
<1> HIDE DEF d
<1>6. Direct * BlockSize < (d + 1) * BlockSize
  BY ONLY <1>1, <1>2, <1>4, <1>5
<1>7. ~(d + 1 <= Direct)
  BY ONLY <1>1, <1>5, <1>6
<1> QED
  BY <1>1, <1>3, <1>5, <1>7

\* The count of any other file is that of its blocks.
LEMMA FullBlocks ==
  ASSUME NEW size \in Nat, size < Word, size # 0
  PROVE  Blocks(size) = (size + BlockSize - 1) \div BlockSize
<1>1. Word \in Nat /\ BlockSize \in Nat /\ BlockSize > 0
  BY Sizes
<1>2. (size - 1) % Word = size - 1
  BY ONLY <1>1, size \in Nat, size < Word, size # 0
<1>3. Blocks(size) = (size - 1) \div BlockSize + 1
  BY <1>2 DEF Blocks
<1>4. (size - 1) \div BlockSize + 1 = (size + BlockSize - 1) \div BlockSize
  BY ONLY <1>1, size \in Nat, size # 0
<1> QED
  BY <1>3, <1>4

\* The bytes of the first pieces.
Sums(pieces, g) == g = [k \in 0 .. Len(pieces) |-> IF k = 0 THEN 0 ELSE g[k - 1] + pieces[k].bytes]

\* The sum of all pieces, from its partial sums.
LEMMA TotalSums ==
  ASSUME NEW pieces, Len(pieces) \in Nat, NEW g, Sums(pieces, g)
  PROVE  Total(pieces) = g[Len(pieces)]
<1> DEFINE n == Len(pieces)
           Next1(f, k) == IF k = 0 THEN 0 ELSE f[k - 1] + pieces[k].bytes
           sum == CHOOSE f : f = [k \in 0 .. n |-> IF k = 0 THEN 0 ELSE f[k - 1] + pieces[k].bytes]
           Wrong == {k \in 0 .. n : sum[k] # g[k]}
<1>1. n \in Nat
  OBVIOUS
<1>2. Total(pieces) = sum[n]
  BY DEF Total
<1>3. g = [k \in 0 .. n |-> Next1(g, k)]
  BY DEF Sums
<1> HIDE DEF n
<1>4. sum = [k \in 0 .. n |-> Next1(sum, k)]
  <2>1. \E f : f = [k \in 0 .. n |-> IF k = 0 THEN 0 ELSE f[k - 1] + pieces[k].bytes]
    BY <1>3
  <2>2. sum = [k \in 0 .. n |-> IF k = 0 THEN 0 ELSE sum[k - 1] + pieces[k].bytes]
    BY <2>1
  <2> QED
    BY <2>2
<1> HIDE DEF sum
<1>5. \A k \in 0 .. n : sum[k] = Next1(sum, k) /\ g[k] = Next1(g, k)
  <2>1. \A k \in 0 .. n : sum[k] = Next1(sum, k)
    BY <1>4
  <2>2. \A k \in 0 .. n : g[k] = Next1(g, k)
    BY <1>3
  <2> QED
    BY <2>1, <2>2
<1>6. Wrong = {}
  <2> SUFFICES ASSUME Wrong # {} PROVE FALSE
    OBVIOUS
  <2>1. PICK k \in Wrong : \A i \in Wrong : k <= i
    <3>1. Wrong \subseteq Nat
      BY <1>1
    <3> HIDE DEF Wrong
    <3> QED
      BY <3>1, LeastNat
  <2>2. k \in 0 .. n /\ sum[k] # g[k] /\ sum[k] = Next1(sum, k) /\ g[k] = Next1(g, k)
    BY <1>5
  <2>3. k > 0
    BY <1>1, <2>2
  <2>4. k - 1 \in 0 .. n /\ k - 1 \notin Wrong
    BY <1>1, <2>1, <2>2, <2>3
  <2>5. sum[k - 1] = g[k - 1]
    BY <2>4
  <2> QED
    BY <2>2, <2>3, <2>5
<1>7. n \in 0 .. n
  BY <1>1
<1> QED
  BY <1>2, <1>6, <1>7 DEF n

\* A file is read back, or it is empty and cannot be read.
LEMMA FileRead ==
  ASSUME NEW blk, Packed(blk), NEW p \in DOMAIN host, ~host[p].dir, ImageFields(Fields, image)
  PROVE  IsHosts(p, blk[<<p, -1>>])
<1> DEFINE num == blk[<<p, -1>>]
           ino == image[num]
           size == host[p].size
           c == Count(host, p)
           pieces == ReadAll(num).pieces
<1>1. IsTree(host)
  BY DEF Packed
<1>2. InodeOf(blk, p, num, ino)
  BY PackedNode
<1>3. c = (size + BlockSize - 1) \div BlockSize
  BY DEF Count
<1>4. size \in Nat /\ size < Word /\ c \in Nat
  BY <1>1, TreeFacts
<1> HIDE DEF num, ino, c, size
<1>5. /\ num # NoInode /\ ino = image[num] /\ ino.dir = host[p].dir /\ ino.size = size
      /\ ino.blocks = Blocks(size) /\ FileEntries(blk, image, p, ino, c)
  BY <1>2 DEF InodeOf, Finished, size, c, ino
<1>6. Cardinality({i \in 0 .. ino.blocks - 1 : ino.size - i * BlockSize > 0}) = c
  BY <1>3, <1>4, <1>5, Rounds
<1>7. pieces = [i \in 1 .. c |->
                  [from |-> image[BlockAt(ino, i - 1)],
                   bytes |-> IF ino.size - (i - 1) * BlockSize >= BlockSize THEN BlockSize
                             ELSE ino.size - (i - 1) * BlockSize]]
  BY <1>5, <1>6 DEF ReadAll
<1> HIDE DEF pieces
<1>8. DOMAIN pieces = 1 .. c /\ Len(pieces) = c
  <2>1. DOMAIN pieces = 1 .. c
    BY <1>7
  <2> QED
    BY <1>4, <2>1
<1>9. ASSUME NEW i \in 1 .. c
      PROVE  /\ i - 1 \in 0 .. c - 1 /\ (i - 1) * BlockSize \in Nat /\ (i - 1) * BlockSize < size
             /\ pieces[i].from = Data(host, p, i - 1)
             /\ pieces[i].bytes = IF size - (i - 1) * BlockSize >= BlockSize THEN BlockSize
                                  ELSE size - (i - 1) * BlockSize
  <2> DEFINE j == i - 1
  <2>1. j \in 0 .. c - 1 /\ j \in Nat /\ j < c
    BY <1>4
  <2>2. pieces[i].from = image[BlockAt(ino, j)]
    BY <1>7
  <2>3. pieces[i].bytes = IF size - j * BlockSize >= BlockSize THEN BlockSize ELSE size - j * BlockSize
    BY <1>5, <1>7
  <2> HIDE DEF j
  <2>4. j * BlockSize < size
    BY <1>1, <2>1, FileCount DEF c, size
  <2>5. <<p, j>> \in DOMAIN blk /\ EntryAt(image, ino, j) = blk[<<p, j>>]
    BY <1>5, <2>1 DEF FileEntries
  <2>6. image[blk[<<p, j>>]] = Data(host, p, j)
    <3>1. <<p, j>>[2] # -1 /\ <<p, j>>[2] # -2
      BY <2>1
    <3> QED
      BY <2>5, <3>1 DEF Packed, Final
  <2>7. BlockAt(ino, j) = EntryAt(image, ino, j)
    BY DEF BlockAt, EntryAt
  <2>8. j * BlockSize \in Nat
    BY <2>1, Sizes
  <2> QED
    BY <2>1, <2>2, <2>3, <2>4, <2>5, <2>6, <2>7, <2>8 DEF j
<1>10. ASSUME NEW i \in DOMAIN pieces
       PROVE  pieces[i].from = [kind |-> "data", of |-> p, part |-> i - 1, bytes |-> pieces[i].bytes]
  <2>1. i \in 1 .. c
    BY <1>8
  <2> DEFINE t == (i - 1) * BlockSize
  <2>2. t \in Nat /\ t < size /\ pieces[i].bytes = IF size - t >= BlockSize THEN BlockSize ELSE size - t
    BY <1>9, <2>1
  <2>3. pieces[i].from = [kind |-> "data", of |-> p, part |-> i - 1,
                          bytes |-> IF size - t > BlockSize THEN BlockSize ELSE size - t]
    BY <1>9, <2>1 DEF Data, size
  <2> HIDE DEF t
  <2>4. pieces[i].bytes = IF size - t > BlockSize THEN BlockSize ELSE size - t
    BY <1>4, <2>2, Sizes
  <2> QED
    BY <2>3, <2>4
<1>11. Total(pieces) = size
  <2> DEFINE f(k) == IF k * BlockSize <= size THEN k * BlockSize ELSE size
             g == [k \in 0 .. c |-> f(k)]
  <2>1. ASSUME NEW k \in 0 .. c PROVE f(k) = IF k = 0 THEN 0 ELSE g[k - 1] + pieces[k].bytes
    <3>1. CASE k = 0
      BY <1>4, <3>1, Sizes
    <3>2. CASE k # 0
      <4> DEFINE t == (k - 1) * BlockSize
      <4>1. k \in 1 .. c /\ k - 1 \in 0 .. c
        BY <1>4, <3>2
      <4>2. t \in Nat /\ t < size /\ pieces[k].bytes = IF size - t >= BlockSize THEN BlockSize ELSE size - t
        BY <1>9, <4>1
      <4>3. k * BlockSize = t + BlockSize
        BY <4>1, <1>4, Sizes
      <4>4. g[k - 1] = IF t <= size THEN t ELSE size
        BY <4>1
      <4> HIDE DEF t, g
      <4>5. g[k - 1] = t
        BY <1>4, <4>2, <4>4
      <4>6. f(k) = t + pieces[k].bytes
        BY <1>4, <4>2, <4>3, Sizes
      <4> QED
        BY <3>2, <4>5, <4>6
    <3> QED
      BY <3>1, <3>2
  <2>2. g = [k \in 0 .. c |-> IF k = 0 THEN 0 ELSE g[k - 1] + pieces[k].bytes]
    BY <2>1
  <2>3. g[c] = f(c)
    BY <1>4
  <2> HIDE DEF g
  <2>4. Sums(pieces, g)
    BY <1>8, <2>2 DEF Sums
  <2>5. Total(pieces) = g[c]
    BY <1>4, <1>8, <2>4, TotalSums
  <2>6. c * BlockSize \in Nat /\ ~(c * BlockSize < size)
    <3>1. ~(c < c) /\ c * BlockSize \in Nat
      BY <1>4, Sizes
    <3>2. c \in Nat
      BY <1>4
    <3>3. c < c <=> c * BlockSize < size
      BY <1>1, <3>2, FileCount DEF c, size
    <3> QED
      BY <3>1, <3>3
  <2> QED
    BY <1>4, <2>3, <2>5, <2>6
<1>12. ReadAll(num).panics <=> LoadFaults(ino)
  BY <1>5 DEF ReadAll
<1>13. ReadAll(num).panics <=> Unreadable(p, num)
  <2>1. ino.kind = "inode" /\ num \in Block /\ IsTree(host) /\ BlocksKnown(host, blk, used)
    BY <1>2 DEF Packed, InodeOf
  <2>2. ino.indirect \in Fields /\ Block \subseteq Mapped
    BY <1>5, <2>1, FileDriverAssumption DEF ImageFields
  <2>3. CASE size = 0
    <3>1. ino.blocks > Direct
      BY <1>5, <2>3, EmptyBlocks
    <3>2. ino.indirect \notin Mapped <=> ino.indirect \in words \ Mapped
      BY <2>2 DEF Fields
    <3> QED
      BY <1>5, <1>12, <2>3, <3>1, <3>2 DEF LoadFaults, Unreadable, size
  <2>4. CASE size # 0
    <3>1. ino.blocks = c
      BY <1>3, <1>4, <1>5, <2>4, FullBlocks
    <3>2. c > Direct => ino.indirect \in Mapped
      <4>1. Shape(host, blk, image, p, ino, c)
        BY <1>2 DEF InodeOf, Finished, c
      <4>2. c > Direct => <<p, -2>> \in DOMAIN blk /\ ino.indirect = blk[<<p, -2>>]
        BY <4>1 DEF Shape
      <4>3. \A x \in DOMAIN blk : blk[x] \in Block
        BY <2>1 DEF BlocksKnown
      <4> QED
        BY <2>2, <4>2, <4>3
    <3> QED
      BY <1>12, <2>4, <3>1, <3>2 DEF LoadFaults, Unreadable, size
  <2> QED
    BY <2>3, <2>4
<1> QED
  BY <1>5, <1>10, <1>11, <1>13 DEF IsHosts, pieces, size, num, ino
\* The kernel begins at the root.
LEMMA RootFacts ==
  ASSUME NEW blk, Packed(blk)
  PROVE  RootInode = blk[<<<<>>, -1>>] /\ <<>> \in DOMAIN host
<1>1. IsTree(host) /\ blk[<<<<>>, -1>>] = RootNum
  BY DEF Packed, BlocksKnown
<1>2. RootInode = RootNum
  BY DEF RootInode, RootNum
<1> QED
  BY <1>1, <1>2, TreeFacts

\* The first m names of p, looked up from the root.
LEMMA PrefixFound ==
  ASSUME NEW blk, Packed(blk), NEW p \in DOMAIN host, NEW m \in 0 .. Len(p), NEW absolute
  PROVE  Lookup(NoInode, absolute, SubSeq(p, 1, m)) = blk[<<SubSeq(p, 1, m), -1>>]
<1>1. IsTree(host)
  BY DEF Packed
<1>2. p \in Seq(STRING) /\ Len(p) \in Nat
  BY <1>1, TreeFacts
<1>3. 0 \in 0 .. Len(p) /\ m \in 0 .. Len(p) /\ 0 + 1 = 1
  BY <1>2
<1>4. SubSeq(p, 1, 0) = <<>>
  BY SubSeqEmpty
<1>5. (IF absolute \/ NoInode = NoInode THEN RootInode ELSE NoInode) = blk[<<SubSeq(p, 1, 0), -1>>]
  BY <1>4, RootFacts
<1>6. Lookup(NoInode, absolute, SubSeq(p, 0 + 1, m)) = blk[<<SubSeq(p, 1, m), -1>>]
  BY <1>3, <1>5, RestFound
<1> QED
  BY <1>3, <1>6

\* All names of a path are the path.
LEMMA WholeSeq ==
  ASSUME NEW p \in Seq(STRING)
  PROVE  SubSeq(p, 1, Len(p)) = p
<1>1. Len(p) \in Nat /\ \A i \in 1 .. Len(p) : p[i] \in STRING
  BY LenProperties
<1> DEFINE n == Len(p)
<1>2. n \in Int /\ 1 \in Int
  BY <1>1
<1>3. /\ SubSeq(p, 1, n) \in Seq(STRING) /\ Len(SubSeq(p, 1, n)) = IF 1 <= n THEN n - 1 + 1 ELSE 0
      /\ \A i \in 1 .. n - 1 + 1 : SubSeq(p, 1, n)[i] = p[1 + i - 1]
  BY <1>1, <1>2, SubSeqProperties
<1>4. Len(SubSeq(p, 1, n)) = n /\ \A i \in 1 .. n : SubSeq(p, 1, n)[i] = p[i]
  BY <1>1, <1>3
<1> QED
  BY <1>3, <1>4, SeqEqual

\* Every node is found under its path from the root.
LEMMA NodeFound ==
  ASSUME NEW blk, Packed(blk), NEW p \in DOMAIN host
  PROVE  Lookup(NoInode, TRUE, p) = blk[<<p, -1>>]
<1>1. p \in Seq(STRING) /\ Len(p) \in Nat
  BY TreeFacts DEF Packed
<1>2. SubSeq(p, 1, Len(p)) = p /\ Len(p) \in 0 .. Len(p)
  BY <1>1, WholeSeq
<1> QED
  BY <1>2, PrefixFound

\* What HostReadBack says of one node.
LEMMA NodeReadBack ==
  ASSUME NEW blk, Packed(blk), NEW p \in DOMAIN host, ImageFields(Fields, image)
  PROVE  LET num == Lookup(NoInode, TRUE, p)
         IN  /\ IsHosts(p, num)
             /\ \A k \in 0 .. Len(p) :
                  LET dir == Lookup(NoInode, FALSE, SubSeq(p, 1, k))
                  IN  Lookup(dir, FALSE, SubSeq(p, k + 1, Len(p))) = num
             /\ host[p].dir =>
                  Lookup(num, FALSE, <<"..">>) = Lookup(NoInode, TRUE, IF p = <<>> THEN p ELSE Front(p))
<1> DEFINE num == blk[<<p, -1>>]
<1>1. Lookup(NoInode, TRUE, p) = num
  BY NodeFound
<1>2. IsTree(host)
  BY DEF Packed
<1>3. p \in Seq(STRING) /\ Len(p) \in Nat /\ host[p].dir \in BOOLEAN
  BY <1>2, TreeFacts
<1>4. InodeOf(blk, p, num, image[num])
  BY PackedNode
<1>5. IsHosts(p, num)
  <2>1. CASE host[p].dir
    BY <1>4, <2>1 DEF IsHosts, InodeOf, ReadAll, Unreadable
  <2>2. CASE ~host[p].dir
    BY <2>2, FileRead
  <2> QED
    BY <2>1, <2>2
<1>6. ASSUME NEW k \in 0 .. Len(p)
      PROVE  Lookup(Lookup(NoInode, FALSE, SubSeq(p, 1, k)), FALSE, SubSeq(p, k + 1, Len(p))) = num
  <2> DEFINE above == SubSeq(p, 1, k)
             dir == blk[<<above, -1>>]
  <2>1. Lookup(NoInode, FALSE, above) = dir
    BY PrefixFound
  <2>2. above \in DOMAIN host
    BY <1>2, PrefixFacts
  <2>3. dir # NoInode
    BY <2>2, PackedNode DEF InodeOf
  <2>4. Len(p) \in k .. Len(p) /\ SubSeq(p, 1, Len(p)) = p
    BY <1>3, WholeSeq
  <2>5. (IF FALSE \/ dir = NoInode THEN RootInode ELSE dir) = blk[<<SubSeq(p, 1, k), -1>>]
    BY <2>3
  <2> HIDE DEF dir
  <2>6. Lookup(dir, FALSE, SubSeq(p, k + 1, Len(p))) = blk[<<SubSeq(p, 1, Len(p)), -1>>]
    BY <2>4, <2>5, RestFound
  <2> QED
    BY <2>1, <2>4, <2>6
<1>7. ASSUME host[p].dir
      PROVE  Lookup(num, FALSE, <<"..">>) = Lookup(NoInode, TRUE, IF p = <<>> THEN p ELSE Front(p))
  <2> DEFINE up == Parent(p)
             names == <<"..">>
             g == [k \in 0 .. 1 |-> IF k = 0 THEN num ELSE blk[<<up, -1>>]]
  <2>1. up \in DOMAIN host
    BY <1>2 DEF Parent, IsTree
  <2>2. LookupName(num, "..") = blk[<<up, -1>>]
    BY <1>7, ParentFound
  <2>3. Lookup(NoInode, TRUE, up) = blk[<<up, -1>>]
    BY <2>1, NodeFound
  <2>4. num # NoInode
    BY <1>4 DEF InodeOf
  <2>5. Len(names) = 1 /\ names[1] = ".."
    OBVIOUS
  <2> HIDE DEF names, num
  <2>6. \A k \in 0 .. 1 : g[k] = IF k > 0 THEN LookupName(g[k - 1], names[k])
                                 ELSE IF FALSE \/ num = NoInode THEN RootInode ELSE num
    <3> SUFFICES ASSUME NEW k \in 0 .. 1
                 PROVE  g[k] = IF k > 0 THEN LookupName(g[k - 1], names[k])
                               ELSE IF FALSE \/ num = NoInode THEN RootInode ELSE num
      OBVIOUS
    <3>1. k = 0 \/ k = 1
      OBVIOUS
    <3>2. g[0] = num /\ g[1] = blk[<<up, -1>>] /\ 1 - 1 = 0
      OBVIOUS
    <3> HIDE DEF g
    <3> QED
      BY <2>2, <2>4, <2>5, <3>1, <3>2
  <2>7. g = [k \in 0 .. 1 |-> IF k > 0 THEN LookupName(g[k - 1], names[k])
                              ELSE IF FALSE \/ num = NoInode THEN RootInode ELSE num]
    BY <2>6
  <2>8. g[1] = blk[<<up, -1>>]
    OBVIOUS
  <2> HIDE DEF g
  <2>9. Trail(num, FALSE, names, g)
    BY <2>5, <2>7 DEF Trail
  <2>10. Lookup(num, FALSE, names) = g[1]
    <3>1. Len(names) \in Nat
      BY <2>5
    <3>2. Lookup(num, FALSE, names) = g[Len(names)]
      BY <2>9, <3>1, LookupTrail
    <3> QED
      BY <2>5, <3>2
  <2> QED
    BY <2>3, <2>8, <2>10 DEF names, Parent
<1> HIDE DEF num
<1> QED
  BY <1>1, <1>5, <1>6, <1>7

\* HostReadBack, where no indirect block goes where the field that is never
\* set leads: what can be read is read, and what cannot be read is named.
THEOREM HostIsReadBack == ASSUME StackHarmless PROVE Spec => []HostReadBack
<1>1. ImageInv /\ FieldsKnown => HostReadBack
  <2> SUFFICES ASSUME ImageInv, FieldsKnown, pc = "done" PROVE HostReadBack
    BY DEF HostReadBack
  <2>1. PICK blk : Packed(blk)
    BY DonePacked
  <2>2. ImageFields(Fields, image)
    BY DEF FieldsKnown
  <2> QED
    BY <2>1, <2>2, NodeReadBack DEF HostReadBack
<1>2. Spec => []ImageInv /\ []FieldsKnown
  BY ImageInvariant, FieldsInvariant
<1> QED
  BY <1>1, <1>2, PTL
\* NothingElse, where the field indirect that is never set does no harm.
THEOREM NothingElseFound == ASSUME StackHarmless PROVE Spec => []NothingElse
<1>1. ImageInv => NothingElse
  <2> SUFFICES ASSUME ImageInv, pc = "done", NEW p \in DOMAIN host, host[p].dir
               PROVE  LET list == Entries(image[Lookup(NoInode, TRUE, p)])
                      IN  /\ Len(list) = Cardinality(Children(p))
                          /\ {image[list[i]].name : i \in DOMAIN list} = {Last(q) : q \in Children(p)}
    BY DEF NothingElse
  <2> DEFINE list == Entries(image[Lookup(NoInode, TRUE, p)])
  <2>1. PICK blk : Packed(blk)
    BY DonePacked
  <2>2. EntriesOf(blk, p, list)
    BY <2>1, NodeFound, EntryNames
  <2>3. Children(p) = Below(host, p)
    BY DEF Children
  <2> HIDE DEF list
  <2>4. {image[list[i]].name : i \in DOMAIN list} = {Last(q) : q \in Below(host, p)}
    <3>1. ASSUME NEW i \in DOMAIN list PROVE \E q \in Below(host, p) : image[list[i]].name = Last(q)
      BY <2>2 DEF EntriesOf
    <3>2. ASSUME NEW q \in Below(host, p) PROVE \E i \in DOMAIN list : image[list[i]].name = Last(q)
      BY <2>2 DEF EntriesOf
    <3> QED
      BY <3>1, <3>2
  <2> QED
    BY <2>2, <2>3, <2>4 DEF EntriesOf, list
<1>2. Spec => []ImageInv
  BY ImageInvariant
<1> QED
  BY <1>1, <1>2, PTL
\* The inodes in the image are those of the nodes of the tree.
LEMMA InodesFacts ==
  ASSUME NEW blk, Packed(blk)
  PROVE  /\ \A p \in DOMAIN host : blk[<<p, -1>>] \in Inodes
         /\ \A b \in Inodes : \E p \in DOMAIN host : b = blk[<<p, -1>>]
<1>1. ASSUME NEW p \in DOMAIN host PROVE blk[<<p, -1>>] \in Inodes
  BY PackedNode DEF InodeOf, Inodes
<1>2. ASSUME NEW b \in Inodes PROVE \E p \in DOMAIN host : b = blk[<<p, -1>>]
  <2>1. b \in Block /\ image[b].kind = "inode"
    BY DEF Inodes
  <2>2. b \in used /\ b # 0 /\ b # 1
    BY <2>1 DEF Packed, Final
  <2>3. PICK x \in DOMAIN blk : b = blk[x]
    BY <2>2 DEF Packed, BlocksKnown
  <2>4. x \in Needs(host)
    BY DEF Packed, BlocksKnown
  <2>5. x = <<x[1], x[2]>> /\ x[1] \in DOMAIN host
    BY <2>4, NeedFacts DEF Packed
  <2>6. x[2] # -2
    <3> SUFFICES ASSUME x[2] = -2 PROVE FALSE
      OBVIOUS
    <3> DEFINE p == x[1]
               ino == image[blk[<<p, -1>>]]
    <3>1. <<p, -2>> \in DOMAIN blk /\ b = blk[<<p, -2>>]
      BY <2>3, <2>5
    <3>2. Finished(host, blk, DOMAIN host, image, p, ino)
      BY <2>5, PackedNode DEF InodeOf
    <3> HIDE DEF ino, p
    <3>3. Shape(host, blk, image, p, ino, Count(host, p))
      BY <3>2 DEF Finished
    <3>4. ino.indirect = b /\ image[ino.indirect].kind = "indirect"
      BY <3>1, <3>3 DEF Shape
    <3> QED
      BY <2>1, <3>4
  <2>7. x[2] = -1
    <3> SUFFICES ASSUME x[2] # -1 PROVE FALSE
      OBVIOUS
    <3>1. image[b] = Data(host, x[1], x[2])
      BY <2>3, <2>6 DEF Packed, Final
    <3> QED
      BY <2>1, <3>1 DEF Data
  <2> QED
    BY <2>3, <2>5, <2>7
<1> QED
  BY <1>1, <1>2

\* The i-th of the blocks that p holds is the block of part y; a directory
\* holds the inodes of its entries.
Holds(blk, p, i, y) ==
  \/ i = -1 /\ Count(host, p) > Direct /\ y = <<p, -2>>
  \/ ~host[p].dir /\ i \in 0 .. Count(host, p) - 1 /\ y = <<p, i>>
  \/ /\ host[p].dir /\ i \in 2 .. Count(host, p) - 1 /\ y = <<y[1], -1>> /\ y[1] \in Below(host, p)
     /\ EntryAt(image, image[blk[<<p, -1>>]], i) = blk[y]

\* No part is held twice.
LEMMA OneHolder ==
  ASSUME NEW blk, Packed(blk), NEW p \in DOMAIN host, NEW q \in DOMAIN host, NEW i, NEW j, NEW y,
         Holds(blk, p, i, y), Holds(blk, q, j, y)
  PROVE  p = q /\ i = j
<1>1. Count(host, p) \in Nat /\ Count(host, q) \in Nat
  BY TreeFacts DEF Packed
<1>2. CASE y[2] = -2
  <2>1. i = -1 /\ y = <<p, -2>>
    BY <1>1, <1>2 DEF Holds
  <2>2. j = -1 /\ y = <<q, -2>>
    BY <1>1, <1>2 DEF Holds
  <2> QED
    BY <2>1, <2>2
<1>3. CASE y[2] = -1
  <2>1. host[p].dir /\ i \in 2 .. Count(host, p) - 1 /\ y[1] \in Below(host, p) /\ EntryAt(image, image[blk[<<p, -1>>]], i) = blk[y]
    BY <1>1, <1>3 DEF Holds
  <2>2. j \in 2 .. Count(host, q) - 1 /\ y[1] \in Below(host, q) /\ EntryAt(image, image[blk[<<q, -1>>]], j) = blk[y]
    BY <1>1, <1>3 DEF Holds
  <2>3. p = q
    BY <2>1, <2>2 DEF Below
  <2>4. DirEntries(host, blk, DOMAIN host, image, p, image[blk[<<p, -1>>]], Count(host, p))
    BY <2>1, PackedNode DEF InodeOf, Finished
  <2> QED
    BY <2>1, <2>2, <2>3, <2>4 DEF DirEntries
<1>4. CASE y[2] # -2 /\ y[2] # -1
  <2>1. y = <<p, i>>
    BY <1>1, <1>4 DEF Holds
  <2>2. y = <<q, j>>
    BY <1>1, <1>4 DEF Holds
  <2> QED
    BY <2>1, <2>2
<1> QED
  BY <1>2, <1>3, <1>4

\* The blocks that an inode holds, in the words of the tree.
LEMMA BlocksOfFacts ==
  ASSUME NEW blk, Packed(blk), NEW p \in DOMAIN host
  PROVE  LET ino == image[blk[<<p, -1>>]]
             first == IF host[p].dir THEN 2 ELSE 0
         IN  BlocksOf(blk[<<p, -1>>]) =
               {<<i, EntryAt(image, ino, i)>> : i \in first .. Count(host, p) - 1}
                 \union (IF Count(host, p) > Direct THEN {<<-1, ino.indirect>>} ELSE {})
<1> DEFINE num == blk[<<p, -1>>]
           ino == image[num]
           c == Count(host, p)
           first == IF host[p].dir THEN 2 ELSE 0
           count == IF ino.dir THEN ino.blocks ELSE (ino.size + BlockSize - 1) \div BlockSize
           firstOf == IF ino.dir THEN 2 ELSE 0
<1>1. InodeOf(blk, p, num, ino)
  BY PackedNode
<1> HIDE DEF num, ino
<1>2. ino = image[num] /\ ino.dir = host[p].dir /\ ino.size = host[p].size /\ (host[p].dir => ino.blocks = c)
  BY <1>1 DEF InodeOf, Finished
<1>3. firstOf = first
  BY <1>2
<1>4. count = c
  <2>1. CASE host[p].dir
    BY <1>2, <2>1
  <2>2. CASE ~host[p].dir
    BY <1>2, <2>2 DEF Count
  <2> QED
    BY <2>1, <2>2
<1>5. BlocksOf(num) = {<<i, BlockAt(ino, i)>> : i \in firstOf .. count - 1}
                        \union (IF count > Direct THEN {<<-1, ino.indirect>>} ELSE {})
  BY <1>2 DEF BlocksOf
<1>6. \A i : BlockAt(ino, i) = EntryAt(image, ino, i)
  BY DEF BlockAt, EntryAt
<1> HIDE DEF c, count, first, firstOf
<1>7. BlocksOf(num) = {<<i, EntryAt(image, ino, i)>> : i \in first .. c - 1}
                        \union (IF c > Direct THEN {<<-1, ino.indirect>>} ELSE {})
  BY <1>3, <1>4, <1>5, <1>6
<1> QED
  BY <1>7 DEF num, ino, first, c

\* Every block that is held is that of a part, and not the root.
LEMMA HeldPart ==
  ASSUME NEW blk, Packed(blk), NEW p \in DOMAIN host, NEW x \in BlocksOf(blk[<<p, -1>>])
  PROVE  /\ x = <<x[1], x[2]>>
         /\ \E y \in DOMAIN blk : y # <<<<>>, -1>> /\ x[2] = blk[y] /\ Holds(blk, p, x[1], y)
<1> DEFINE ino == image[blk[<<p, -1>>]]
           c == Count(host, p)
           first == IF host[p].dir THEN 2 ELSE 0
<1>1. Finished(host, blk, DOMAIN host, image, p, ino)
  BY PackedNode DEF InodeOf
<1>2. IsTree(host) /\ \A q \in DOMAIN host : <<q, -1>> \in DOMAIN blk
  BY DEF Packed, Final
<1>3. c \in Nat /\ host[p].dir \in BOOLEAN
  BY <1>2, TreeFacts
<1>4. x \in {<<i, EntryAt(image, ino, i)>> : i \in first .. c - 1}
            \union (IF c > Direct THEN {<<-1, ino.indirect>>} ELSE {})
  BY BlocksOfFacts
<1>5. CASE x \in {<<i, EntryAt(image, ino, i)>> : i \in first .. c - 1}
  <2>1. PICK i \in first .. c - 1 : x = <<i, EntryAt(image, ino, i)>>
    BY <1>5
  <2>2. x[1] = i /\ x[2] = EntryAt(image, ino, i) /\ x = <<x[1], x[2]>>
    BY <2>1
  <2>3. CASE host[p].dir
    <3>1. i \in 2 .. c - 1
      BY <2>3
    <3>2. DirEntries(host, blk, DOMAIN host, image, p, ino, c)
      BY <1>1, <2>3 DEF Finished
    <3>3. PICK q \in Below(host, p) : EntryAt(image, ino, i) = blk[<<q, -1>>]
      BY <3>1, <3>2 DEF DirEntries
    <3> DEFINE y == <<q, -1>>
    <3>4. q \in DOMAIN host /\ q # <<>>
      BY DEF Below
    <3>5. y \in DOMAIN blk /\ y[1] = q /\ y = <<y[1], -1>> /\ y # <<<<>>, -1>>
      BY <1>2, <3>4
    <3> HIDE DEF y
    <3>6. EntryAt(image, ino, i) = blk[y]
      BY <3>3 DEF y
    <3>7. Holds(blk, p, i, y)
      BY <2>3, <3>1, <3>5, <3>6 DEF Holds
    <3> QED
      BY <2>2, <3>5, <3>6, <3>7
  <2>4. CASE ~host[p].dir
    <3>1. i \in 0 .. c - 1
      BY <2>4
    <3>2. FileEntries(blk, image, p, ino, c)
      BY <1>1, <2>4 DEF Finished
    <3> DEFINE y == <<p, i>>
    <3>3. y \in DOMAIN blk /\ EntryAt(image, ino, i) = blk[y]
      BY <3>1, <3>2 DEF FileEntries
    <3>4. y # <<<<>>, -1>>
      <4>1. i # -1
        BY <1>3, <3>1
      <4> QED
        BY <4>1
    <3>5. Holds(blk, p, i, y)
      BY <2>4, <3>1 DEF Holds
    <3> QED
      BY <2>2, <3>3, <3>4, <3>5
  <2> QED
    BY <2>3, <2>4
<1>6. CASE ~(x \in {<<i, EntryAt(image, ino, i)>> : i \in first .. c - 1})
  <2>1. c > Direct /\ x = <<-1, ino.indirect>>
    BY <1>4, <1>6
  <2>2. x[1] = -1 /\ x[2] = ino.indirect /\ x = <<x[1], x[2]>>
    BY <2>1
  <2>3. Shape(host, blk, image, p, ino, c)
    BY <1>1 DEF Finished
  <2> DEFINE y == <<p, -2>>
  <2>4. y \in DOMAIN blk /\ ino.indirect = blk[y]
    BY <2>1, <2>3 DEF Shape
  <2>5. y # <<<<>>, -1>>
    OBVIOUS
  <2>6. Holds(blk, p, -1, y)
    BY <2>1 DEF Holds
  <2> QED
    BY <2>2, <2>4, <2>5, <2>6
<1> QED
  BY <1>5, <1>6

\* Every part but the root is held by an inode.
LEMMA PartHeld ==
  ASSUME NEW blk, Packed(blk), NEW y \in DOMAIN blk, y # <<<<>>, -1>>
  PROVE  \E p \in DOMAIN host : \E x \in BlocksOf(blk[<<p, -1>>]) : x[2] = blk[y]
<1>1. IsTree(host) /\ y \in Needs(host)
  BY DEF Packed, BlocksKnown
<1>2. /\ y = <<y[1], y[2]>> /\ y[1] \in DOMAIN host
      /\ \/ y[2] = -1
         \/ y[2] = -2 /\ Count(host, y[1]) > Direct
         \/ ~host[y[1]].dir /\ y[2] \in 0 .. Count(host, y[1]) - 1
  BY <1>1, NeedFacts
<1> DEFINE p == y[1]
           ino == image[blk[<<p, -1>>]]
           c == Count(host, p)
<1>3. Finished(host, blk, DOMAIN host, image, p, ino)
  BY <1>2, PackedNode DEF InodeOf
<1>4. CASE y[2] = -1
  <2> DEFINE d == Front(p)
             dino == image[blk[<<d, -1>>]]
             n == Count(host, d)
  <2>1. p # <<>>
    BY <1>2, <1>4
  <2>2. d \in DOMAIN host /\ host[d].dir /\ p \in Below(host, d)
    BY <1>1, <1>2, <2>1 DEF IsTree, Below
  <2>3. DirEntries(host, blk, DOMAIN host, image, d, dino, n)
    BY <2>2, PackedNode DEF InodeOf, Finished
  <2>4. PICK i \in 2 .. n - 1 : EntryAt(image, dino, i) = blk[<<p, -1>>]
    BY <1>2, <2>2, <2>3 DEF DirEntries
  <2> DEFINE x == <<i, EntryAt(image, dino, i)>>
  <2>5. x \in BlocksOf(blk[<<d, -1>>])
    BY <2>2, BlocksOfFacts
  <2>6. x[2] = blk[y]
    BY <1>2, <1>4, <2>4
  <2> QED
    BY <2>2, <2>5, <2>6
<1>5. CASE y[2] = -2 /\ c > Direct
  <2>1. Shape(host, blk, image, p, ino, c)
    BY <1>3 DEF Finished
  <2>2. ino.indirect = blk[<<p, -2>>]
    BY <1>5, <2>1 DEF Shape
  <2> DEFINE x == <<-1, ino.indirect>>
  <2>3. x \in BlocksOf(blk[<<p, -1>>])
    BY <1>2, <1>5, BlocksOfFacts
  <2>4. x[2] = blk[y]
    BY <1>2, <1>5, <2>2
  <2> QED
    BY <1>2, <2>3, <2>4
<1>6. CASE ~host[p].dir /\ y[2] \in 0 .. c - 1
  <2> DEFINE i == y[2]
             x == <<i, EntryAt(image, ino, i)>>
  <2>1. FileEntries(blk, image, p, ino, c)
    BY <1>3, <1>6 DEF Finished
  <2>2. EntryAt(image, ino, i) = blk[<<p, i>>]
    BY <1>6, <2>1 DEF FileEntries
  <2>3. x \in BlocksOf(blk[<<p, -1>>])
    BY <1>2, <1>6, BlocksOfFacts
  <2>4. x[2] = blk[y]
    BY <1>2, <2>2
  <2> QED
    BY <1>2, <2>3, <2>4
<1> QED
  BY <1>2, <1>4, <1>5, <1>6
\* All blocks that are held, with the inode that holds them.
Held == UNION {{<<b, x[1], x[2]>> : x \in BlocksOf(b)} : b \in Inodes}

\* The blocks held and the parts of the tree are the same, and no block is held
\* twice.
LEMMA HeldFacts ==
  ASSUME NEW blk, Packed(blk)
  PROVE  /\ \A h \in Held : \E y \in DOMAIN blk : y # <<<<>>, -1>> /\ h[3] = blk[y]
         /\ \A y \in DOMAIN blk : y # <<<<>>, -1>> => \E h \in Held : h[3] = blk[y]
         /\ \A h, g \in Held : h[3] = g[3] => h = g
<1>1. ASSUME NEW h \in Held
      PROVE  \E p \in DOMAIN host : \E y \in DOMAIN blk :
               /\ h = <<blk[<<p, -1>>], h[2], blk[y]>> /\ h[3] = blk[y] /\ y # <<<<>>, -1>>
               /\ Holds(blk, p, h[2], y)
  <2>1. PICK b \in Inodes : h \in {<<b, x[1], x[2]>> : x \in BlocksOf(b)}
    BY DEF Held
  <2>2. PICK x \in BlocksOf(b) : h = <<b, x[1], x[2]>>
    BY <2>1
  <2>3. PICK p \in DOMAIN host : b = blk[<<p, -1>>]
    BY InodesFacts
  <2>4. PICK y \in DOMAIN blk : y # <<<<>>, -1>> /\ x[2] = blk[y] /\ Holds(blk, p, x[1], y)
    BY <2>2, <2>3, HeldPart
  <2>5. h[2] = x[1] /\ h[3] = x[2]
    BY <2>2
  <2> QED
    BY <2>2, <2>3, <2>4, <2>5
<1>2. ASSUME NEW y \in DOMAIN blk, y # <<<<>>, -1>> PROVE \E h \in Held : h[3] = blk[y]
  <2>1. PICK p \in DOMAIN host : \E x \in BlocksOf(blk[<<p, -1>>]) : x[2] = blk[y]
    BY <1>2, PartHeld
  <2>2. PICK x \in BlocksOf(blk[<<p, -1>>]) : x[2] = blk[y]
    BY <2>1
  <2> DEFINE b == blk[<<p, -1>>]
             h == <<b, x[1], x[2]>>
  <2>3. b \in Inodes
    BY InodesFacts
  <2>4. h \in Held
    BY <2>3 DEF Held
  <2>5. h[3] = blk[y]
    BY <2>2
  <2> QED
    BY <2>4, <2>5
<1>3. ASSUME NEW h \in Held, NEW g \in Held, h[3] = g[3] PROVE h = g
  <2>1. PICK p \in DOMAIN host : \E y \in DOMAIN blk :
               /\ h = <<blk[<<p, -1>>], h[2], blk[y]>> /\ h[3] = blk[y] /\ Holds(blk, p, h[2], y)
    BY <1>1
  <2>2. PICK y \in DOMAIN blk :
               /\ h = <<blk[<<p, -1>>], h[2], blk[y]>> /\ h[3] = blk[y] /\ Holds(blk, p, h[2], y)
    BY <2>1
  <2>3. PICK q \in DOMAIN host : \E z \in DOMAIN blk :
               /\ g = <<blk[<<q, -1>>], g[2], blk[z]>> /\ g[3] = blk[z] /\ Holds(blk, q, g[2], z)
    BY <1>1
  <2>4. PICK z \in DOMAIN blk :
               /\ g = <<blk[<<q, -1>>], g[2], blk[z]>> /\ g[3] = blk[z] /\ Holds(blk, q, g[2], z)
    BY <2>3
  <2>5. y = z
    <3>1. blk[y] = blk[z]
      BY <1>3, <2>2, <2>4
    <3> QED
      BY <3>1 DEF Packed, BlocksKnown
  <2>6. Holds(blk, p, h[2], y) /\ Holds(blk, q, g[2], y)
    BY <2>2, <2>4, <2>5
  <2>7. p = q /\ h[2] = g[2]
    BY <2>6, OneHolder
  <2> QED
    BY <2>2, <2>4, <2>5, <2>7
<1>4. ASSUME NEW h \in Held PROVE \E y \in DOMAIN blk : y # <<<<>>, -1>> /\ h[3] = blk[y]
  BY <1>1
<1> QED
  BY <1>2, <1>3, <1>4

\* What BlocksExclusive says.
LEMMA HeldExclusive ==
  ASSUME NEW blk, Packed(blk)
  PROVE  LET blocks == {h[3] : h \in Held}
         IN  /\ Cardinality(Held) = Cardinality(blocks)
             /\ blocks \intersect Reserved = {}
             /\ image[1].used = blocks \union Reserved
             /\ image[0].unusedBlocks = BlockNum - Cardinality(image[1].used)
<1> DEFINE blocks == {h[3] : h \in Held}
           root == <<<<>>, -1>>
<1>1. /\ used \subseteq Block /\ 0 \in used /\ 1 \in used /\ root \in DOMAIN blk /\ blk[root] = RootNum
      /\ \A x \in DOMAIN blk : blk[x] \in used /\ blk[x] # 0 /\ blk[x] # 1
      /\ \A x, y \in DOMAIN blk : blk[x] = blk[y] => x = y
      /\ \A b \in used : b # 0 /\ b # 1 => \E x \in DOMAIN blk : b = blk[x]
  BY DEF Packed, BlocksKnown
<1>2. image[1].used = used /\ image[0].unusedBlocks = BlockNum - Cardinality(used)
  BY DEF Packed, Final
<1>3. Reserved = {0, 1, RootNum}
  BY DEF Reserved
<1>4. ASSUME NEW b \in blocks PROVE b \in used /\ b \notin Reserved
  <2>1. PICK h \in Held : b = h[3]
    OBVIOUS
  <2>2. PICK y \in DOMAIN blk : y # root /\ b = blk[y]
    BY <2>1, HeldFacts
  <2> HIDE DEF root
  <2> QED
    BY <1>1, <1>3, <2>2
<1>5. ASSUME NEW b \in used, b \notin Reserved PROVE b \in blocks
  <2>1. PICK y \in DOMAIN blk : b = blk[y]
    BY <1>1, <1>3, <1>5
  <2>2. y # root
    <3> HIDE DEF root
    <3> QED
      BY <1>1, <1>3, <1>5, <2>1
  <2>3. PICK h \in Held : h[3] = blk[y]
    BY <2>2, HeldFacts
  <2> QED
    BY <2>1, <2>3
<1>6. RootNum \in used
  BY <1>1
<1>7. used = blocks \union Reserved /\ blocks \intersect Reserved = {}
  <2> HIDE DEF blocks
  <2>1. Reserved \subseteq used
    BY <1>1, <1>3, <1>6
  <2> QED
    BY <1>4, <1>5, <2>1
<1>8. Cardinality(Held) = Cardinality(blocks)
  <2> DEFINE g == [e \in blocks |-> CHOOSE h \in Held : h[3] = e]
  <2>1. ASSUME NEW e \in blocks PROVE g[e] \in Held /\ g[e][3] = e
    <3>1. \E h \in Held : h[3] = e
      OBVIOUS
    <3> QED
      BY <3>1
  <2>2. ASSUME NEW h \in Held PROVE h[3] \in blocks /\ g[h[3]] = h
    <3>1. h[3] \in blocks
      OBVIOUS
    <3> DEFINE e == h[3]
    <3>2. g[e] \in Held /\ g[e][3] = e
      BY <2>1, <3>1
    <3> HIDE DEF g
    <3>3. g[e] = h
      BY <3>2, HeldFacts
    <3> QED
      BY <3>1, <3>3
  <2>3. g = [e \in blocks |-> g[e]]
    OBVIOUS
  <2>4. IsFiniteSet(blocks)
    <3>1. blocks \subseteq Block
      BY <1>1, <1>4
    <3> QED
      BY <3>1, BlockFacts, FS_Subset
  <2> HIDE DEF g, blocks
  <2>5. g \in [blocks -> Held]
    BY <2>1, <2>3
  <2>6. g \in Injection(blocks, Held)
    BY <2>1, <2>5 DEF Injection, IsInjective
  <2>7. g \in Surjection(blocks, Held)
    BY <2>2, <2>5 DEF Surjection
  <2>8. ExistsBijection(blocks, Held)
    BY <2>6, <2>7 DEF ExistsBijection, Bijection
  <2> QED
    BY <2>4, <2>8, FS_Bijection
<1> HIDE DEF blocks
<1>9. /\ Cardinality(Held) = Cardinality(blocks) /\ blocks \intersect Reserved = {}
      /\ image[1].used = blocks \union Reserved
      /\ image[0].unusedBlocks = BlockNum - Cardinality(image[1].used)
  BY <1>2, <1>7, <1>8
<1> QED
  BY <1>9 DEF blocks

\* BlocksExclusive, where the field indirect that is never set does no harm.
THEOREM BlocksHaveOneOwner == ASSUME StackHarmless PROVE Spec => []BlocksExclusive
<1>1. ImageInv => BlocksExclusive
  <2> SUFFICES ASSUME ImageInv, pc = "done" PROVE BlocksExclusive
    BY DEF BlocksExclusive
  <2>1. PICK blk : Packed(blk)
    BY DonePacked
  <2> QED
    BY <2>1, HeldExclusive DEF BlocksExclusive, Held
<1>2. Spec => []ImageInv
  BY ImageInvariant
<1> QED
  BY <1>1, <1>2, PTL
==============================================================================
