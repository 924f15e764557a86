--------------------------- MODULE BuddyHeapProofs ---------------------------
(***************************************************************************)
(* Proofs about BuddyHeap, for every number of units that is a power of    *)
(* two, every unit and every largest request.                              *)
(***************************************************************************)
EXTENDS BuddyHeap, WellFoundedInduction, TLAPS

(* Numbers.                                                                *)

LEMMA LeastNat ==
  ASSUME NEW B, B \subseteq Nat, B # {}
  PROVE  \E k \in B : \A j \in B : k <= j
<1>1. PICK k \in B : \A j \in B : ~(<<j, k>> \in OpToRel(<, Nat))
  BY WFMin, NatLessThanWellFounded
<1>2. \A j \in B : ~(j < k)
  BY <1>1 DEF OpToRel
<1> QED
  BY <1>2

LEMMA GreatestNat ==
  ASSUME NEW n \in Nat, NEW B, B \subseteq 0 .. n, B # {}
  PROVE  \E k \in B : \A j \in B : j <= k
<1> DEFINE C == {n - j : j \in B}
<1>1. C \subseteq Nat /\ C # {}
  <2>1. \A j \in B : n - j \in Nat
    OBVIOUS
  <2> QED
    BY <2>1
<1>2. PICK c \in C : \A d \in C : c <= d
  <2> HIDE DEF C
  <2> QED
    BY <1>1, LeastNat
<1>3. PICK k \in B : c = n - k
  OBVIOUS
<1>4. \A j \in B : n - k <= n - j
  BY <1>2, <1>3
<1> QED
  BY <1>4

LEMMA DivFacts ==
  ASSUME NEW a \in Nat, NEW n \in Nat, n > 0
  PROVE  /\ a \div n \in Nat /\ a % n \in 0 .. n - 1
         /\ a = n * (a \div n) + (a % n)
<1>1. a % n \in 0 .. n - 1
  OBVIOUS
<1>2. a \div n \in Nat
  OBVIOUS
<1>3. a = n * (a \div n) + (a % n)
  OBVIOUS
<1> QED
  BY <1>1, <1>2, <1>3

LEMMA QuotientIsUnique ==
  ASSUME NEW n \in Nat, n > 0, NEW q \in Int, NEW r \in 0 .. n - 1, NEW p \in Int, NEW s \in 0 .. n - 1,
         n * q + r = n * p + s
  PROVE  q = p /\ r = s
  OBVIOUS

\* n is a multiple of d.
LEMMA Divides ==
  ASSUME NEW n \in Nat, NEW d \in Nat \ {0}
  PROVE  n % d = 0 <=> \E q \in Nat : n = d * q
<1>1. n \div d \in Nat /\ n % d \in 0 .. d - 1 /\ n = d * (n \div d) + (n % d)
  BY DivFacts
<1>2. ASSUME n % d = 0 PROVE \E q \in Nat : n = d * q
  <2>1. n = d * (n \div d)
    BY <1>1, <1>2
  <2> QED
    BY <1>1, <2>1
<1>3. ASSUME NEW q \in Nat, n = d * q PROVE n % d = 0
  <2> DEFINE p == n \div d
             r == n % d
  <2>1. d * p + r = d * q + 0
    BY <1>1, <1>3
  <2>2. p \in Int /\ r \in 0 .. d - 1 /\ 0 \in 0 .. d - 1 /\ q \in Int
    BY <1>1
  <2> HIDE DEF p, r
  <2>3. r = 0
    BY <2>1, <2>2, QuotientIsUnique
  <2> QED
    BY <2>3 DEF r
<1> QED
  BY <1>2, <1>3

LEMMA EvenFacts ==
  ASSUME NEW n \in Nat
  PROVE  /\ n % 2 = 0 <=> \E h \in Nat : n = 2 * h
         /\ n % 2 # 0 <=> \E h \in Nat : n = 2 * h + 1
<1> DEFINE q == n \div 2
           r == n % 2
<1>1. q \in Nat /\ r \in 0 .. 1 /\ n = 2 * q + r
  BY DivFacts
<1> HIDE DEF q, r
<1>2. r = 0 <=> \E h \in Nat : n = 2 * h
  BY <1>1
<1>3. r # 0 <=> \E h \in Nat : n = 2 * h + 1
  BY <1>1
<1> QED
  BY <1>2, <1>3 DEF r

LEMMA OneIsPower == PowerOfTwo(1)
  BY DEF PowerOfTwo

\* A power of two but 1 has a half, which is one as well.
LEMMA HalfOfPower ==
  ASSUME NEW n \in Nat, n > 1, PowerOfTwo(n)
  PROVE  \E h \in Nat \ {0} : n = 2 * h /\ n \div 2 = h /\ PowerOfTwo(h)
<1>1. n % n = 0
  <2>1. n = n * 1
    OBVIOUS
  <2> QED
    BY <2>1, Divides
<1>2. n % 2 = 0
  BY <1>1 DEF PowerOfTwo
<1>3. PICK h \in Nat : n = 2 * h
  BY <1>2, EvenFacts
<1>4. h > 0 /\ n \div 2 = h
  BY <1>3
<1>5. ASSUME NEW d \in 2 .. h, h % d = 0
      PROVE  d % 2 = 0
  <2>1. PICK q \in Nat : h = d * q
    BY <1>5, Divides
  <2>2. n = d * (2 * q) /\ 2 * q \in Nat
    BY <1>3, <2>1
  <2>3. n % d = 0
    BY <2>2, Divides
  <2>4. d \in 2 .. n
    BY <1>3
  <2> QED
    BY <2>3, <2>4 DEF PowerOfTwo
<1> QED
  BY <1>3, <1>4, <1>5 DEF PowerOfTwo

LEMMA DoubleOfPower ==
  ASSUME NEW h \in Nat \ {0}, PowerOfTwo(h)
  PROVE  PowerOfTwo(2 * h)
<1> SUFFICES ASSUME NEW d \in 2 .. 2 * h, (2 * h) % d = 0, d % 2 # 0
             PROVE  FALSE
  BY DEF PowerOfTwo
<1>1. PICK q \in Nat : 2 * h = d * q
  <2>1. 2 * h \in Nat /\ d \in Nat \ {0}
    OBVIOUS
  <2> QED
    BY <2>1, Divides
<1>2. PICK e \in Nat : d = 2 * e + 1
  BY EvenFacts
<1>3. q % 2 = 0
  <2> SUFFICES ASSUME q % 2 # 0 PROVE FALSE
    OBVIOUS
  <2>1. PICK f \in Nat : q = 2 * f + 1
    BY EvenFacts
  <2>2. d * q = 2 * (2 * (e * f) + e + f) + 1
    BY <1>2, <2>1
  <2>3. e * f \in Nat
    OBVIOUS
  <2> DEFINE g == 2 * (e * f) + e + f
  <2>4. g \in Nat
    BY <2>3
  <2>5. 2 * h = 2 * g + 1
    BY <1>1, <2>2
  <2> HIDE DEF g
  <2> QED
    BY <2>4, <2>5
<1>4. PICK f \in Nat : q = 2 * f
  BY <1>3, EvenFacts
<1>5. h = d * f
  <2>1. d * q = 2 * (d * f)
    BY <1>4
  <2>2. d * f \in Nat
    OBVIOUS
  <2> QED
    BY <1>1, <2>1, <2>2
<1>6. h % d = 0
  BY <1>5, Divides
<1>7. d <= h
  <2>1. f # 0
    BY <1>5
  <2>2. d * f >= d * 1
    BY <2>1
  <2> QED
    BY <1>5, <2>2
<1> QED
  BY <1>6, <1>7 DEF PowerOfTwo

\* Between a power of two and its double there is none.
LEMMA PowersApart ==
  ASSUME NEW a \in Nat \ {0}, NEW b \in Nat, PowerOfTwo(a), PowerOfTwo(b), a < b
  PROVE  2 * a <= b
<1> DEFINE Bad == {n \in Nat \ {0} : PowerOfTwo(n) /\ \E m \in Nat : PowerOfTwo(m) /\ n < m /\ m < 2 * n}
<1> SUFFICES ASSUME Bad # {} PROVE FALSE
  <2>1. a \notin Bad
    OBVIOUS
  <2> QED
    BY <2>1
<1>1. PICK n \in Bad : \A j \in Bad : n <= j
  <2>1. Bad \subseteq Nat
    OBVIOUS
  <2> HIDE DEF Bad
  <2> QED
    BY <2>1, LeastNat
<1>2. PICK m \in Nat : PowerOfTwo(m) /\ n < m /\ m < 2 * n
  BY <1>1
<1>3. n \in Nat \ {0} /\ PowerOfTwo(n) /\ n # 1
  BY <1>1, <1>2
<1>4. PICK h \in Nat \ {0} : n = 2 * h /\ PowerOfTwo(h)
  BY <1>3, HalfOfPower
<1>5. PICK k \in Nat \ {0} : m = 2 * k /\ PowerOfTwo(k)
  BY <1>2, <1>3, HalfOfPower
<1>6. h \in Bad
  BY <1>2, <1>4, <1>5
<1>7. n <= h
  <2> HIDE DEF Bad
  <2> QED
    BY <1>1, <1>6
<1> QED
  BY <1>4, <1>7

\* There is a power of two for every request (heap.c:37-46).
LEMMA FixSizeFacts ==
  ASSUME NEW n \in Nat \ {0}
  PROVE  FixSize(n) \in n .. 2 * n - 1 /\ PowerOfTwo(FixSize(n))
<1> DEFINE Bad == {m \in Nat \ {0} : ~\E w \in m .. 2 * m - 1 : PowerOfTwo(w)}
<1> SUFFICES ASSUME Bad # {} PROVE FALSE
  <2>1. n \notin Bad
    OBVIOUS
  <2>2. \E w \in n .. 2 * n - 1 : PowerOfTwo(w)
    BY <2>1
  <2> QED
    BY <2>2 DEF FixSize
<1>1. PICK m \in Bad : \A j \in Bad : m <= j
  <2>1. Bad \subseteq Nat
    OBVIOUS
  <2> HIDE DEF Bad
  <2> QED
    BY <2>1, LeastNat
<1>2. m # 1
  <2>1. 1 \in 1 .. 2 * 1 - 1
    OBVIOUS
  <2>2. 1 \notin Bad
    BY <2>1, OneIsPower
  <2> HIDE DEF Bad
  <2> QED
    BY <1>1, <2>2
<1>3. PICK h \in Nat \ {0} : m = 2 * h \/ m = 2 * h - 1
  <2>1. m \in Nat
    OBVIOUS
  <2>2. (\E h \in Nat : m = 2 * h) \/ (\E h \in Nat : m = 2 * h + 1)
    BY <2>1, EvenFacts
  <2>3. CASE \E h \in Nat : m = 2 * h
    BY <2>3, <1>1
  <2>4. ASSUME NEW h \in Nat, m = 2 * h + 1
        PROVE  h + 1 \in Nat \ {0} /\ m = 2 * (h + 1) - 1
    BY <2>4
  <2> QED
    BY <2>2, <2>3, <2>4
<1>4. h < m /\ h \notin Bad
  <2>1. m \in Nat \ {0} /\ h < m
    BY <1>2, <1>3
  <2> HIDE DEF Bad
  <2> QED
    BY <1>1, <2>1
<1>5. PICK w \in h .. 2 * h - 1 : PowerOfTwo(w)
  BY <1>4
<1>6. CASE w >= m
  <2>1. w \in m .. 2 * m - 1
    BY <1>3, <1>6
  <2> QED
    BY <1>5, <2>1
<1>7. CASE w < m
  <2>1. 2 * w \in m .. 2 * m - 1
    BY <1>3, <1>7
  <2>2. PowerOfTwo(2 * w)
    BY <1>5, DoubleOfPower
  <2> QED
    BY <2>1, <2>2
<1> QED
  BY <1>6, <1>7
------------------------------------------------------------------------------
(* The tree.                                                               *)

LEMMA ParentFacts ==
  ASSUME NEW i \in Nat \ {0}
  PROVE  /\ Parent(i) \in Nat /\ Parent(i) < i
         /\ i = Left(Parent(i)) \/ i = Right(Parent(i))
<1> DEFINE q == (i + 1) \div 2
           r == (i + 1) % 2
<1>1. q \in Nat /\ r \in 0 .. 1 /\ i + 1 = 2 * q + r
  <2>1. i + 1 \in Nat
    OBVIOUS
  <2> QED
    BY <2>1, DivFacts
<1> HIDE DEF q, r
<1>2. q - 1 \in Nat /\ q - 1 < i /\ (i = 2 * (q - 1) + 1 \/ i = 2 * (q - 1) + 2)
  BY <1>1
<1> QED
  BY <1>2 DEF q, Parent, Left, Right

LEMMA ChildFacts ==
  ASSUME NEW i \in Nat
  PROVE  /\ Left(i) \in Nat \ {0} /\ Right(i) \in Nat \ {0} /\ Left(i) # Right(i)
         /\ i < Left(i) /\ i < Right(i)
         /\ Parent(Left(i)) = i /\ Parent(Right(i)) = i
<1>1. /\ Left(i) \in Nat \ {0} /\ Right(i) \in Nat \ {0} /\ Left(i) # Right(i)
      /\ i < Left(i) /\ i < Right(i)
  BY DEF Left, Right
<1>2. /\ Left(i) = Left(Parent(Left(i))) \/ Left(i) = Right(Parent(Left(i)))
      /\ Right(i) = Left(Parent(Right(i))) \/ Right(i) = Right(Parent(Right(i)))
      /\ Parent(Left(i)) \in Nat /\ Parent(Right(i)) \in Nat
  BY <1>1, ParentFacts
<1>3. \A j, k \in Nat : /\ Left(j) = Left(k) => j = k
                        /\ Right(j) = Right(k) => j = k
                        /\ Left(j) # Right(k)
  BY DEF Left, Right
<1> QED
  BY <1>1, <1>2, <1>3

LEMMA WidthEquation ==
  /\ Width \in [Node -> {Width[i] : i \in Node}]
  /\ \A i \in Node : Width[i] = IF i = 0 THEN Size ELSE Width[Parent(i)] \div 2
<1> DEFINE Step(f, i) == IF i = 0 THEN Size ELSE f[Parent(i)] \div 2
           Bad == {k \in Nat : ~\E f : f = [i \in 0 .. k |-> Step(f, i)]}
<1>1. Bad = {}
  <2> SUFFICES ASSUME Bad # {} PROVE FALSE
    OBVIOUS
  <2>1. PICK k \in Bad : k \in Nat /\ \A j \in Bad : k <= j
    <3> HIDE DEF Step
    <3>1. Bad \subseteq Nat
      OBVIOUS
    <3> HIDE DEF Bad
    <3> QED
      BY <3>1, LeastNat
  <2>2. k # 0
    <3> SUFFICES ASSUME k = 0 PROVE FALSE
      OBVIOUS
    <3> DEFINE g == [i \in 0 .. 0 |-> Size]
    <3>1. \A i \in 0 .. 0 : i = 0
      OBVIOUS
    <3>2. g = [i \in 0 .. 0 |-> Step(g, i)]
      BY <3>1
    <3> QED
      BY <2>1, <3>2
  <2>3. k - 1 \in Nat /\ k - 1 \notin Bad
    <3> HIDE DEF Bad
    <3> QED
      BY <2>1, <2>2
  <2>4. PICK g : g = [i \in 0 .. k - 1 |-> Step(g, i)]
    BY <2>3
  <2> DEFINE f == [i \in 0 .. k |-> Step(g, i)]
  <2>5. \A i \in 0 .. k : i # 0 => Parent(i) \in 0 .. k - 1
    BY <2>1, ParentFacts
  <2>6. \A i \in 0 .. k - 1 : f[i] = g[i]
    <3> TAKE i \in 0 .. k - 1
    <3>1. g[i] = Step(g, i)
      BY <2>4
    <3>2. i \in 0 .. k
      BY <2>1
    <3> QED
      BY <3>1, <3>2
  <2>7. \A i \in 0 .. k : Step(g, i) = Step(f, i)
    <3> HIDE DEF f
    <3> QED
      BY <2>5, <2>6
  <2>8. f = [i \in 0 .. k |-> Step(f, i)]
    <3> HIDE DEF Step
    <3> QED
      BY <2>7
  <2> QED
    BY <2>1, <2>8
<1>2. 2 * Size - 2 \in Nat
  BY HeapAssumption
<1>3. \E f : f = [i \in Node |-> IF i = 0 THEN Size ELSE f[Parent(i)] \div 2]
  BY <1>1, <1>2 DEF Node
<1>4. Width = [i \in Node |-> IF i = 0 THEN Size ELSE Width[Parent(i)] \div 2]
  BY <1>3 DEF Width
<1>5. \A i \in Node : Width[i] = IF i = 0 THEN Size ELSE Width[Parent(i)] \div 2
  BY <1>4
<1>6. DOMAIN Width = Node /\ Width = [i \in Node |-> Width[i]]
  BY <1>4
<1> QED
  BY <1>5, <1>6

\* The place of a node in the heap: Units(i) is Start(i) .. Start(i) + Width[i] - 1.
Start(i) == (i + 1) * Width[i] - Size

Placed(i) ==
  /\ Width[i] \in Nat \ {0} /\ PowerOfTwo(Width[i])
  /\ Start(i) \in Nat /\ Start(i) + Width[i] <= Size

LEMMA HalfPlaces ==
  ASSUME NEW p \in Nat, NEW h \in Nat
  PROVE  /\ (2 * p + 1 + 1) * h = (p + 1) * (2 * h)
         /\ (2 * p + 2 + 1) * h = (p + 1) * (2 * h) + h
         /\ (p + 1) * (2 * h) \in Nat
  OBVIOUS

LEMMA PlacedChild ==
  ASSUME NEW i \in Node, i # 0, Placed(Parent(i))
  PROVE  /\ Parent(i) \in Node /\ Placed(i) /\ Width[Parent(i)] = 2 * Width[i]
         /\ Start(i) = IF i = Left(Parent(i)) THEN Start(Parent(i)) ELSE Start(Parent(i)) + Width[i]
<1> DEFINE p == Parent(i)
           w == Width[p]
<1>1. p \in Nat /\ p < i /\ (i = 2 * p + 1 \/ i = 2 * p + 2) /\ p \in Node
  BY ParentFacts, HeapAssumption DEF Node, Left, Right
<1>2. w \in Nat \ {0} /\ PowerOfTwo(w) /\ (p + 1) * w - Size \in Nat /\ (p + 1) * w - Size + w <= Size
  BY DEF Placed, Start
<1>3. w # 1
  <2> SUFFICES ASSUME w = 1 PROVE FALSE
    OBVIOUS
  <2>1. (p + 1) * w = p + 1
    BY <1>1
  <2> HIDE DEF p, w
  <2>2. i <= 2 * Size - 2 /\ p + 1 >= Size
    BY <1>1, <1>2, <2>1, HeapAssumption DEF Node
  <2> QED
    BY <1>1, <2>2, HeapAssumption
<1>4. PICK h \in Nat \ {0} : w = 2 * h /\ w \div 2 = h /\ PowerOfTwo(h)
  BY <1>2, <1>3, HalfOfPower
<1>5. Width[i] = h
  BY <1>4, WidthEquation
<1>6. CASE i = 2 * p + 1
  <2>1. (i + 1) * h = (p + 1) * w
    <3>1. p \in Nat /\ h \in Nat /\ w = 2 * h /\ i = 2 * p + 1
      BY <1>1, <1>4, <1>6
    <3>2. (2 * p + 1 + 1) * h = (p + 1) * (2 * h)
      BY ONLY <3>1, HalfPlaces
    <3> QED
      BY ONLY <3>1, <3>2
  <2>2. Start(i) = Start(p) /\ i = Left(p)
    BY <1>5, <1>6, <2>1 DEF Start, Left
  <2>3. Start(p) \in Nat /\ Start(p) + w <= Size /\ w = Width[p]
    BY <1>2 DEF Start
  <2> HIDE DEF p, w
  <2>4. Placed(i)
    BY <1>4, <1>5, <2>2, <2>3, HeapAssumption DEF Placed
  <2> QED
    BY <1>1, <1>4, <1>5, <2>2, <2>3, <2>4 DEF p
<1>7. CASE i = 2 * p + 2
  <2>1. (i + 1) * h = (p + 1) * w + h
    <3>1. p \in Nat /\ h \in Nat /\ w = 2 * h /\ i = 2 * p + 2
      BY <1>1, <1>4, <1>7
    <3>2. (2 * p + 2 + 1) * h = (p + 1) * (2 * h) + h
      BY ONLY <3>1, HalfPlaces
    <3> QED
      BY ONLY <3>1, <3>2
  <2>2. Start(i) = Start(p) + h /\ i # Left(p)
    <3>1. (p + 1) * w \in Nat
      BY ONLY <1>1, <1>4, h \in Nat, HalfPlaces
    <3> QED
      BY <1>1, <1>5, <1>7, <2>1, <3>1, HeapAssumption DEF Start, Left
  <2>3. Start(p) \in Nat /\ Start(p) + w <= Size /\ w = Width[p]
    BY <1>2 DEF Start
  <2> HIDE DEF p, w
  <2>4. Placed(i)
    BY <1>4, <1>5, <2>2, <2>3, HeapAssumption DEF Placed
  <2> QED
    BY <1>1, <1>4, <1>5, <2>2, <2>3, <2>4 DEF p
<1> QED
  BY <1>1, <1>6, <1>7

LEMMA PlaceFacts ==
  /\ \A i \in Node : Placed(i)
  /\ 0 \in Node /\ Width[0] = Size /\ Start(0) = 0
<1> DEFINE Bad == {i \in Node : ~Placed(i)}
<1>1. 0 \in Node /\ Width[0] = Size /\ Start(0) = 0 /\ Placed(0)
  <2>1. 0 \in Node
    BY HeapAssumption DEF Node
  <2>2. Width[0] = Size
    BY <2>1, WidthEquation
  <2> QED
    BY <2>1, <2>2, HeapAssumption DEF Start, Placed
<1> SUFFICES ASSUME Bad # {} PROVE FALSE
  BY <1>1
<1>2. PICK i \in Bad : \A j \in Bad : i <= j
  <2>1. Bad \subseteq Nat
    BY DEF Node
  <2> HIDE DEF Bad
  <2> QED
    BY <2>1, LeastNat
<1>3. i # 0 /\ i \in Node /\ i \in Nat
  BY <1>1, <1>2 DEF Node
<1>4. Parent(i) \in Nat /\ Parent(i) < i
  BY <1>3, ParentFacts
<1>5. Parent(i) \in Node
  BY <1>3, <1>4, HeapAssumption DEF Node
<1>6. Placed(Parent(i))
  BY <1>2, <1>3, <1>4, <1>5
<1> QED
  BY <1>2, <1>3, <1>6, PlacedChild

LEMMA UnitsFacts ==
  ASSUME NEW i \in Node
  PROVE  /\ Start(i) \in Nat /\ Width[i] \in Nat \ {0} /\ Start(i) + Width[i] <= Size
         /\ Units(i) = Start(i) .. Start(i) + Width[i] - 1
<1>1. /\ Start(i) \in Nat /\ Width[i] \in Nat \ {0} /\ Start(i) + Width[i] <= Size
  BY PlaceFacts DEF Placed
<1>2. i \in Nat
  BY DEF Node
<1> DEFINE w == Width[i]
<1>3. (i + 2) * w = (i + 1) * w + w
  <2> HIDE DEF w
  <2>1. \A n \in Nat : (i + 2) * n = (i + 1) * n + n
    BY <1>2
  <2> QED
    BY <1>1, <2>1 DEF w
<1>4. (i + 1) * w \in Int
  <2>1. \A n \in Nat : (i + 1) * n \in Int
    BY <1>2
  <2> QED
    BY <1>1, <2>1
<1>5. (i + 2) * w - Size - 1 = Start(i) + w - 1
  <2>1. Size \in Int /\ w \in Int
    BY <1>1, HeapAssumption
  <2> DEFINE a == (i + 1) * w
  <2>2. (a + w) - Size - 1 = (a - Size) + w - 1
    <3> HIDE DEF a, w
    <3> QED
      BY <1>4, <2>1 DEF a
  <2> QED
    BY <1>3, <2>2 DEF Start
<1> QED
  BY <1>1, <1>5 DEF Units, Start

\* Containment and overlap by the ends of the intervals.
LEMMA EndsFacts ==
  ASSUME NEW i \in Node, NEW j \in Node
  PROVE  /\ Within(i, j) <=> Start(j) <= Start(i) /\ Start(i) + Width[i] <= Start(j) + Width[j]
         /\ Units(i) \intersect Units(j) = {} <=>
              Start(i) + Width[i] <= Start(j) \/ Start(j) + Width[j] <= Start(i)
         /\ Units(i) # {}
<1> DEFINE a == Start(i)
           b == Start(i) + Width[i] - 1
           c == Start(j)
           d == Start(j) + Width[j] - 1
<1>1. /\ a \in Int /\ b \in Int /\ c \in Int /\ d \in Int /\ a <= b /\ c <= d
      /\ Units(i) = a .. b /\ Units(j) = c .. d
  BY UnitsFacts
<1>2. Start(i) + Width[i] = b + 1 /\ Start(j) + Width[j] = d + 1
  BY UnitsFacts
<1> HIDE DEF a, b, c, d
<1>3. a \in a .. b /\ b \in a .. b
  BY <1>1
<1>4. a .. b \subseteq c .. d <=> c <= a /\ b <= d
  BY <1>1, <1>3
<1>5. c <= a /\ a <= d => a \in (a .. b) \intersect (c .. d)
  BY <1>1
<1>6. a <= c /\ c <= b => c \in (a .. b) \intersect (c .. d)
  BY <1>1
<1>7. (a .. b) \intersect (c .. d) = {} <=> b < c \/ d < a
  BY <1>1, <1>5, <1>6
<1>8. /\ Start(j) <= Start(i) <=> c <= a
      /\ Start(i) + Width[i] <= Start(j) + Width[j] <=> b <= d
      /\ Start(i) + Width[i] <= Start(j) <=> b < c
      /\ Start(j) + Width[j] <= Start(i) <=> d < a
  <2>1. Start(i) = a /\ Start(j) = c
    BY DEF a, c
  <2> QED
    BY ONLY <1>1, <1>2, <2>1
<1> QED
  BY <1>1, <1>3, <1>4, <1>7, <1>8 DEF Within

\* A node with more than one unit has two halves, and only such a node.
LEMMA HalvesFacts ==
  ASSUME NEW i \in Node
  PROVE  /\ Left(i) \in Node <=> Width[i] # 1
         /\ Right(i) \in Node <=> Width[i] # 1
         /\ Width[i] # 1 =>
              /\ Width[i] = 2 * Width[Left(i)] /\ Width[Right(i)] = Width[Left(i)]
              /\ Start(Left(i)) = Start(i) /\ Start(Right(i)) = Start(i) + Width[Left(i)]
<1>1. i \in Nat
  BY DEF Node
<1>2. ASSUME Width[i] # 1 PROVE Left(i) \in Node /\ Right(i) \in Node
  <2> DEFINE w == Width[i]
  <2>1. w \in Nat /\ w >= 2 /\ (i + 1) * w - Size + w <= Size
    BY <1>2, UnitsFacts DEF Start
  <2> HIDE DEF w
  <2>2. (i + 1) * w >= (i + 1) * 2
    BY <1>1, <2>1
  <2>3. (i + 1) * w \in Nat /\ Size \in Nat
    BY <1>1, <2>1, HeapAssumption
  <2>4. i + 2 <= Size
    BY <1>1, <2>1, <2>2, <2>3
  <2> QED
    BY <1>1, <2>4, HeapAssumption DEF Left, Right, Node
<1>3. ASSUME NEW c \in {Left(i), Right(i)}, c \in Node
      PROVE  /\ Width[i] = 2 * Width[c] /\ Width[i] # 1
             /\ Start(c) = IF c = Left(i) THEN Start(i) ELSE Start(i) + Width[c]
  <2>1. c # 0 /\ Parent(c) = i
    BY <1>1, <1>3, ChildFacts
  <2>2. Placed(i)
    BY PlaceFacts
  <2>3. Placed(c) /\ Width[i] = 2 * Width[c]
        /\ Start(c) = IF c = Left(i) THEN Start(i) ELSE Start(i) + Width[c]
    BY <1>3, <2>1, <2>2, PlacedChild
  <2>4. Width[c] \in Nat
    BY <2>3 DEF Placed
  <2> QED
    BY <2>3, <2>4
<1>4. ASSUME Width[i] # 1
      PROVE  /\ Width[i] = 2 * Width[Left(i)] /\ Width[Right(i)] = Width[Left(i)]
             /\ Start(Left(i)) = Start(i) /\ Start(Right(i)) = Start(i) + Width[Left(i)]
  <2>1. Width[i] = 2 * Width[Left(i)] /\ Width[i] = 2 * Width[Right(i)]
    BY <1>2, <1>3, <1>4
  <2>2. Width[Left(i)] \in Nat /\ Width[Right(i)] \in Nat
    BY <1>2, <1>4, UnitsFacts
  <2>3. Width[Right(i)] = Width[Left(i)]
    BY <2>1, <2>2
  <2> QED
    BY <1>1, <1>2, <1>3, <1>4, <2>1, <2>3, ChildFacts
<1> QED
  BY <1>2, <1>3, <1>4

LEMMA SamePlace ==
  ASSUME NEW i \in Node, NEW j \in Node, Width[i] = Width[j], Units(i) \intersect Units(j) # {}
  PROVE  i = j
<1> DEFINE w == Width[i]
<1>1. i \in Nat /\ j \in Nat /\ w \in Nat /\ w > 0 /\ Size \in Nat
  BY UnitsFacts, HeapAssumption DEF Node
<1>2. ~(Start(i) + w <= Start(j)) /\ ~(Start(j) + w <= Start(i))
  BY EndsFacts
<1>3. Start(i) = (i + 1) * w - Size /\ Start(j) = (j + 1) * w - Size
  BY DEF Start
<1> HIDE DEF w
<1>4. ASSUME NEW a \in Nat, NEW b \in Nat, a < b
      PROVE  (a + 1) * w - Size + w <= (b + 1) * w - Size
  <2>1. PICK c \in Nat : b = a + 1 + c
    <3>1. b - a - 1 \in Nat /\ b = a + 1 + (b - a - 1)
      BY <1>4
    <3> QED
      BY <3>1
  <2>2. (b + 1) * w = (a + 1) * w + w + c * w
    BY <1>1, <2>1
  <2>3. c * w \in Nat /\ (a + 1) * w \in Nat
    BY <1>1
  <2> QED
    BY <1>1, <2>2, <2>3
<1> QED
  BY <1>1, <1>2, <1>3, <1>4

\* Of two nodes that have a unit in common the smaller one is inside.
LEMMA Nested ==
  ASSUME NEW i \in Node, NEW j \in Node, Width[i] <= Width[j], Units(i) \intersect Units(j) # {}
  PROVE  Within(i, j)
<1> DEFINE Bad == {k \in Node : Width[k] <= Width[j] /\ Units(k) \intersect Units(j) # {} /\ ~Within(k, j)}
<1> SUFFICES ASSUME Bad # {} PROVE FALSE
  <2>1. i \notin Bad
    OBVIOUS
  <2> QED
    BY <2>1
<1>1. PICK k \in Bad : \A m \in Bad : k <= m
  <2>1. Bad \subseteq Nat
    BY DEF Node
  <2> HIDE DEF Bad
  <2> QED
    BY <2>1, LeastNat
<1>2. Width[k] # Width[j]
  <2> SUFFICES ASSUME Width[k] = Width[j] PROVE FALSE
    OBVIOUS
  <2>1. k = j
    BY <1>1, SamePlace
  <2> QED
    BY <1>1, <2>1 DEF Within
<1>3. /\ Placed(k) /\ Placed(j) /\ Width[0] = Size
  BY <1>1, PlaceFacts
<1>4. 2 * Width[k] <= Width[j]
  <2>1. Width[k] \in Nat \ {0} /\ Width[j] \in Nat /\ PowerOfTwo(Width[k]) /\ PowerOfTwo(Width[j])
    BY <1>3 DEF Placed
  <2>2. Width[k] < Width[j]
    BY <1>1, <1>2, <2>1
  <2> QED
    BY <2>1, <2>2, PowersApart
<1>5. k # 0
  BY <1>3, <1>4, HeapAssumption DEF Placed
<1> DEFINE p == Parent(k)
<1>6. p \in Node /\ Width[p] = 2 * Width[k] /\ p < k
      /\ Start(k) = IF k = Left(p) THEN Start(p) ELSE Start(p) + Width[k]
  <2>1. k \in Nat \ {0}
    BY <1>1, <1>5 DEF Node
  <2>2. p \in Nat /\ p < k
    BY <2>1, ParentFacts
  <2>3. p \in Node
    BY <1>1, <2>2, HeapAssumption DEF Node
  <2>4. Placed(p)
    BY <2>3, PlaceFacts
  <2> QED
    BY <1>1, <1>5, <2>2, <2>4, PlacedChild
<1>7. Within(k, p)
  <2>1. Start(p) <= Start(k) /\ Start(k) + Width[k] <= Start(p) + Width[p]
    <3>1. Start(p) \in Nat /\ Width[k] \in Nat
      BY <1>1, <1>6, UnitsFacts
    <3> QED
      BY <1>6, <3>1
  <2> QED
    BY <1>1, <1>6, <2>1, EndsFacts
<1>8. Units(p) \intersect Units(j) # {} /\ ~Within(p, j)
  BY <1>1, <1>7 DEF Within
<1>9. p \in Bad
  BY <1>4, <1>6, <1>8
<1>10. ~(k <= p) /\ k \in Nat /\ p \in Nat
  BY <1>1, <1>6 DEF Node
<1> QED
  <2> HIDE DEF Bad, p
  <2> QED
    BY <1>1, <1>9, <1>10

(* The same without numbers.                                               *)

Inside(i, j) == Within(i, j) /\ i # j
Apart(i, j) == Units(i) \intersect Units(j) = {}

LEMMA OrderFacts ==
  ASSUME NEW i \in Node, NEW j \in Node
  PROVE  /\ Within(i, j) \/ Within(j, i) \/ Apart(i, j)
         /\ Within(i, j) => ~Apart(i, j)
         /\ Within(i, j) /\ Within(j, i) => i = j
         /\ Within(i, j) => Width[i] <= Width[j] /\ (Width[i] = Width[j] => i = j)
<1>1. Width[i] \in Nat /\ Width[j] \in Nat /\ Start(i) \in Nat /\ Start(j) \in Nat
  BY UnitsFacts
<1>2. Within(i, j) \/ Within(j, i) \/ Apart(i, j)
  <2>1. Width[i] <= Width[j] \/ Width[j] <= Width[i]
    BY <1>1
  <2>2. Units(i) \intersect Units(j) = Units(j) \intersect Units(i)
    OBVIOUS
  <2> QED
    BY <2>1, <2>2, Nested DEF Apart
<1>3. Within(i, j) => ~Apart(i, j)
  <2>1. Units(i) # {}
    BY EndsFacts
  <2> QED
    BY <2>1 DEF Within, Apart
<1>4. Within(i, j) => Width[i] <= Width[j]
  BY <1>1, EndsFacts
<1>5. Within(j, i) => Width[j] <= Width[i]
  BY <1>1, EndsFacts
<1>6. Within(i, j) /\ Width[i] = Width[j] => i = j
  BY <1>3, SamePlace DEF Apart
<1>7. Within(i, j) /\ Within(j, i) => Width[i] = Width[j]
  BY <1>1, <1>4, <1>5
<1> QED
  BY <1>2, <1>3, <1>4, <1>6, <1>7

LEMMA SplitFacts ==
  ASSUME NEW i \in Node, Left(i) \in Node \/ Right(i) \in Node \/ Width[i] # 1
  PROVE  /\ Left(i) \in Node /\ Right(i) \in Node /\ Left(i) # Right(i)
         /\ Width[i] = 2 * Width[Left(i)] /\ Width[Right(i)] = Width[Left(i)]
         /\ Inside(Left(i), i) /\ Inside(Right(i), i)
         /\ Apart(Left(i), Right(i))
         /\ \A k \in Node : Inside(k, i) => Within(k, Left(i)) \/ Within(k, Right(i))
<1> DEFINE l == Left(i)
           r == Right(i)
           h == Width[Left(i)]
<1>1. /\ l \in Node /\ r \in Node /\ l # r /\ l # i /\ r # i
      /\ Width[i] = 2 * h /\ Width[r] = h
      /\ Start(l) = Start(i) /\ Start(r) = Start(i) + h
  <2>1. i \in Nat
    BY DEF Node
  <2> QED
    BY <2>1, HalvesFacts, ChildFacts
<1>2. h \in Nat \ {0} /\ Start(i) \in Nat
  BY <1>1, UnitsFacts
<1> HIDE DEF l, r
<1>3. Within(l, i) /\ Within(r, i) /\ Apart(l, r)
  <2>1. Width[l] = h
    BY DEF l
  <2> HIDE DEF h
  <2>2. Start(i) <= Start(l) /\ Start(l) + Width[l] <= Start(i) + Width[i]
    BY <1>1, <1>2, <2>1
  <2>3. Start(i) <= Start(r) /\ Start(r) + Width[r] <= Start(i) + Width[i]
    BY <1>1, <1>2, <2>1
  <2>4. Start(l) + Width[l] <= Start(r)
    BY <1>1, <1>2, <2>1
  <2> QED
    BY <1>1, <2>2, <2>3, <2>4, EndsFacts DEF Apart
<1>4. ASSUME NEW k \in Node, Inside(k, i)
      PROVE  Within(k, l) \/ Within(k, r)
  <2>1. Width[k] < Width[i] /\ Width[k] \in Nat /\ Width[i] \in Nat
    <3>1. Width[k] <= Width[i] /\ Width[k] # Width[i]
      BY <1>4, OrderFacts DEF Inside
    <3> QED
      BY <3>1, UnitsFacts
  <2>2. 2 * Width[k] <= Width[i]
    <3>1. Placed(k) /\ Placed(i)
      BY PlaceFacts
    <3> QED
      BY <2>1, <3>1, PowersApart DEF Placed
  <2>3. Width[k] <= Width[l] /\ Width[k] <= Width[r]
    <3>1. Width[l] = h
      BY DEF l
    <3> HIDE DEF h
    <3> QED
      BY <1>1, <1>2, <2>1, <2>2, <3>1
  <2>4. ~Apart(k, l) \/ ~Apart(k, r)
    <3> SUFFICES ASSUME Apart(k, l), Apart(k, r) PROVE FALSE
      OBVIOUS
    <3>1. /\ Start(k) + Width[k] <= Start(l) \/ Start(l) + Width[l] <= Start(k)
          /\ Start(k) + Width[k] <= Start(r) \/ Start(r) + Width[r] <= Start(k)
      BY <1>1, EndsFacts DEF Apart
    <3>2. Start(i) <= Start(k) /\ Start(k) + Width[k] <= Start(i) + Width[i]
      BY <1>4, EndsFacts DEF Inside
    <3>3. Width[l] = h
      BY DEF l
    <3>4. Start(k) \in Nat /\ Width[k] \in Nat \ {0}
      BY UnitsFacts
    <3> HIDE DEF h
    <3> QED
      BY <1>1, <1>2, <3>1, <3>2, <3>3, <3>4
  <2> QED
    BY <1>1, <2>3, <2>4, Nested DEF Apart
<1> QED
  BY <1>1, <1>3, <1>4 DEF Inside, l, r

LEMMA UpFacts ==
  ASSUME NEW i \in Node, i # 0
  PROVE  /\ Parent(i) \in Node /\ i \in {Left(Parent(i)), Right(Parent(i))}
         /\ Left(Parent(i)) \in Node /\ Right(Parent(i)) \in Node
         /\ Inside(i, Parent(i)) /\ Width[Parent(i)] = 2 * Width[i]
         /\ \A c \in Node : Inside(i, c) => Within(Parent(i), c)
<1> DEFINE p == Parent(i)
<1>1. p \in Node /\ Width[p] = 2 * Width[i] /\ (i = Left(p) \/ i = Right(p))
  <2>1. i \in Nat \ {0}
    BY DEF Node
  <2>2. p \in Nat /\ p < i /\ (i = Left(p) \/ i = Right(p))
    BY <2>1, ParentFacts
  <2>3. p \in Node
    BY <2>2, HeapAssumption DEF Node
  <2>4. Placed(p)
    BY <2>3, PlaceFacts
  <2> QED
    BY <2>2, <2>3, <2>4, PlacedChild
<1>2. /\ Left(p) \in Node /\ Right(p) \in Node /\ Inside(i, p) /\ Apart(Left(p), Right(p))
      /\ \A k \in Node : Inside(k, p) => Within(k, Left(p)) \/ Within(k, Right(p))
  BY <1>1, SplitFacts
<1>3. ASSUME NEW c \in Node, Inside(i, c)
      PROVE  Within(p, c)
  <2> SUFFICES ASSUME ~Within(p, c) PROVE FALSE
    OBVIOUS
  <2>1. ~Apart(p, c)
    <3>1. Units(i) # {} /\ Units(i) \subseteq Units(p) /\ Units(i) \subseteq Units(c)
      BY <1>2, <1>3, EndsFacts DEF Inside, Within
    <3> QED
      BY <3>1 DEF Apart
  <2>2. Inside(c, p)
    BY <1>1, <2>1, OrderFacts DEF Inside, Within
  <2>3. Within(c, Left(p)) \/ Within(c, Right(p))
    BY <1>2, <2>2
  <2>4. Within(c, i)
    <3>1. Units(i) # {}
      BY EndsFacts
    <3> QED
      BY <1>1, <1>2, <1>3, <2>3, <3>1 DEF Apart, Inside, Within
  <2> QED
    BY <1>3, <2>4, OrderFacts DEF Inside
<1> QED
  BY <1>1, <1>2, <1>3

LEMMA RootFacts ==
  ASSUME NEW i \in Node
  PROVE  /\ 0 \in Node /\ Width[0] = Size /\ Within(i, 0)
         /\ Within(0, i) => i = 0
<1>1. 0 \in Node /\ Width[0] = Size /\ Start(0) = 0
  BY PlaceFacts
<1>2. Within(i, 0)
  BY <1>1, UnitsFacts, EndsFacts, HeapAssumption
<1> QED
  BY <1>1, <1>2, OrderFacts

\* The unit a block begins with is a leaf (heap.c:191).
LEMMA LeafFacts ==
  ASSUME NEW n \in Node
  PROVE  LET l == Start(n) + Size - 1 IN l \in Node /\ Width[l] = 1 /\ Within(l, n)
<1> DEFINE l == Start(n) + Size - 1
<1>1. Start(n) \in Nat /\ Width[n] \in Nat \ {0} /\ Start(n) + Width[n] <= Size /\ Size \in Nat \ {0}
  BY UnitsFacts, HeapAssumption
<1>2. l \in Node /\ l \in Nat /\ l + 1 = Start(n) + Size
  BY <1>1 DEF Node
<1> HIDE DEF l
<1>3. Start(l) \in Nat /\ Width[l] \in Nat \ {0} /\ Start(l) + Width[l] <= Size
  BY <1>2, UnitsFacts
<1>4. Width[l] = 1
  <2> SUFFICES ASSUME Width[l] >= 2 PROVE FALSE
    BY <1>3
  <2> DEFINE w == Width[l]
  <2>1. w \in Nat /\ w >= 2 /\ (l + 1) * w - Size + w <= Size
    BY <1>3 DEF Start
  <2> HIDE DEF w
  <2>2. (l + 1) * w >= (l + 1) * 2 /\ (l + 1) * w \in Nat
    BY <1>2, <2>1
  <2> QED
    BY <1>1, <1>2, <2>1, <2>2
<1>5. Start(l) = Start(n)
  BY <1>1, <1>2, <1>4 DEF Start
<1>6. Within(l, n)
  BY <1>1, <1>2, <1>4, <1>5, EndsFacts
<1> QED
  BY <1>2, <1>4, <1>6 DEF l
------------------------------------------------------------------------------
(* What the tree says, and what one store makes of it.  T are the nodes    *)
(* that are taken, stale those a loop has still to renew.                  *)

Off(i, T) == \A t \in T : Apart(i, t)
Above(i) == {a \in Node : Inside(i, a)}

Filled(lon) ==
  /\ lon \in [Node -> Nat]
  /\ \A i \in Node : lon[i] = 0 \/ \E j \in Node : Within(j, i) /\ lon[i] = Width[j]

Known(lon, T, stale) ==
  /\ T \subseteq Node
  /\ \A t, u \in T : t # u => Apart(t, u)
  /\ \A i \in Node :
       /\ i \in T => lon[i] = 0
       /\ (\E t \in T : Inside(i, t)) => lon[i] = Width[i]
       /\ i \notin stale /\ Off(i, T) => lon[i] = Width[i]
       /\ i \notin stale /\ (\E t \in T : Inside(t, i)) =>
            lon[i] = Larger(lon[Left(i)], lon[Right(i)])

LEMMA FilledFacts ==
  ASSUME NEW lon, Filled(lon), NEW i \in Node
  PROVE  lon[i] \in Nat /\ lon[i] <= Width[i]
<1>1. lon[i] \in Nat /\ Width[i] \in Nat
  BY UnitsFacts DEF Filled
<1>2. CASE lon[i] = 0
  BY <1>1, <1>2
<1>3. CASE lon[i] # 0
  <2>1. PICK j \in Node : Within(j, i) /\ lon[i] = Width[j]
    BY <1>3 DEF Filled
  <2> QED
    BY <1>1, <2>1, OrderFacts
<1> QED
  BY <1>2, <1>3

LEMMA FilledStore ==
  ASSUME NEW lon, Filled(lon), NEW n \in Node, NEW v,
         v = 0 \/ (\E j \in Node : Within(j, n) /\ v = Width[j])
  PROVE  Filled([lon EXCEPT ![n] = v])
<1>1. v \in Nat
  BY UnitsFacts
<1>2. [lon EXCEPT ![n] = v] \in [Node -> Nat]
  BY <1>1 DEF Filled
<1>3. \A i \in Node : [lon EXCEPT ![n] = v][i] = IF i = n THEN v ELSE lon[i]
  BY DEF Filled
<1> QED
  BY <1>2, <1>3 DEF Filled

\* The larger of two children is the width of a node below, or 0.
LEMMA LargerFilled ==
  ASSUME NEW lon, Filled(lon), NEW p \in Node, Left(p) \in Node, Right(p) \in Node
  PROVE  LET v == Larger(lon[Left(p)], lon[Right(p)])
         IN  v = 0 \/ \E j \in Node : Within(j, p) /\ v = Width[j]
<1>1. \A c \in {Left(p), Right(p)} : lon[c] = 0 \/ \E j \in Node : Within(j, p) /\ lon[c] = Width[j]
  <2>1. Within(Left(p), p) /\ Within(Right(p), p)
    BY SplitFacts DEF Inside
  <2> QED
    BY <2>1 DEF Filled, Within
<1> QED
  BY <1>1 DEF Larger

\* A node is taken, in a node that is, around one, or off them all.
LEMMA FourCases ==
  ASSUME NEW lon, NEW T, NEW stale, Known(lon, T, stale), NEW i \in Node
  PROVE  /\ i \in T \/ (\E t \in T : Inside(i, t)) \/ (\E t \in T : Inside(t, i)) \/ Off(i, T)
         /\ (\E t \in T : Inside(t, i)) => ~Off(i, T) /\ i \notin T /\ ~\E t \in T : Inside(i, t)
         /\ Off(i, T) => i \notin T /\ ~\E t \in T : Inside(i, t)
<1>1. T \subseteq Node /\ \A t, u \in T : t # u => Apart(t, u)
  BY DEF Known
<1>2. i \in T \/ (\E t \in T : Inside(i, t)) \/ (\E t \in T : Inside(t, i)) \/ Off(i, T)
  <2>1. \A t \in T : i = t \/ Inside(i, t) \/ Inside(t, i) \/ Apart(i, t)
    BY <1>1, OrderFacts DEF Inside
  <2> QED
    BY <2>1 DEF Off
<1>3. ASSUME NEW t \in T, Inside(t, i)
      PROVE  ~Off(i, T) /\ i \notin T /\ ~\E u \in T : Inside(i, u)
  <2>1. ~Apart(t, i) /\ ~Apart(i, t)
    BY <1>1, <1>3, OrderFacts DEF Inside, Apart
  <2>2. i \notin T
    BY <1>1, <1>3, <2>1 DEF Inside
  <2>3. ASSUME NEW u \in T, Inside(i, u)
        PROVE  FALSE
    <3>1. Within(t, u)
      BY <1>3, <2>3 DEF Inside, Within
    <3>2. t = u
      BY <1>1, <3>1, OrderFacts
    <3> QED
      BY <1>1, <1>3, <2>3, <3>2, OrderFacts DEF Inside
  <2> QED
    BY <2>1, <2>2, <2>3 DEF Off
<1>4. ASSUME Off(i, T)
      PROVE  i \notin T /\ ~\E t \in T : Inside(i, t)
  <2>1. ~Apart(i, i)
    BY OrderFacts DEF Within
  <2> QED
    BY <1>1, <1>4, <2>1, OrderFacts DEF Off, Inside
<1> QED
  BY <1>2, <1>3, <1>4

\* Only a node that is whole, or in a block, has all of its width.
LEMMA WholeIsOff ==
  ASSUME NEW lon, NEW T, NEW stale, Filled(lon), Known(lon, T, stale),
         NEW i \in Node, i \notin stale, lon[i] = Width[i]
  PROVE  Off(i, T) \/ \E t \in T : Inside(i, t)
<1>1. Width[i] \in Nat \ {0}
  BY UnitsFacts
<1>2. i \notin T
  BY <1>1 DEF Known
<1>3. ASSUME NEW t \in T, Inside(t, i)
      PROVE  FALSE
  <2>1. t \in Node
    BY DEF Known
  <2>2. Width[i] # 1
    <3>1. Width[t] <= Width[i] /\ Width[t] # Width[i] /\ Width[t] \in Nat \ {0}
      BY <1>3, <2>1, OrderFacts, UnitsFacts DEF Inside
    <3> QED
      BY <1>1, <3>1
  <2>3. /\ Left(i) \in Node /\ Right(i) \in Node
        /\ Width[i] = 2 * Width[Left(i)] /\ Width[Right(i)] = Width[Left(i)]
    BY <2>2, SplitFacts
  <2>4. /\ lon[Left(i)] \in Nat /\ lon[Left(i)] <= Width[Left(i)]
        /\ lon[Right(i)] \in Nat /\ lon[Right(i)] <= Width[Right(i)]
        /\ Width[Left(i)] \in Nat
    BY <2>3, FilledFacts, UnitsFacts
  <2>5. lon[i] = Larger(lon[Left(i)], lon[Right(i)])
    BY <1>3 DEF Known
  <2>6. lon[i] <= Width[Left(i)]
    BY <2>3, <2>4, <2>5 DEF Larger
  <2> QED
    BY <1>1, <2>3, <2>4, <2>6
<1> QED
  BY <1>2, <1>3, FourCases

\* A node that is off the others is taken (heap.c:163).
LEMMA TakeNode ==
  ASSUME NEW lon, NEW T, Filled(lon), Known(lon, T, {}), NEW n \in Node, Off(n, T)
  PROVE  LET new == [lon EXCEPT ![n] = 0]
         IN  Filled(new) /\ Known(new, T \union {n}, Above(n))
<1> DEFINE new == [lon EXCEPT ![n] = 0]
<1>1. Filled(new)
  BY FilledStore
<1>2. \A i \in Node : new[i] = IF i = n THEN 0 ELSE lon[i]
  BY DEF Filled
<1>3. T \union {n} \subseteq Node /\ \A t, u \in T \union {n} : t # u => Apart(t, u)
  <2>1. \A t \in T : Apart(n, t) /\ Apart(t, n)
    BY DEF Off, Apart
  <2> QED
    BY <2>1 DEF Known
<1> HIDE DEF new
<1>4. ASSUME NEW i \in Node
      PROVE  /\ i \in T \union {n} => new[i] = 0
             /\ (\E t \in T \union {n} : Inside(i, t)) => new[i] = Width[i]
             /\ i \notin Above(n) /\ Off(i, T \union {n}) => new[i] = Width[i]
             /\ i \notin Above(n) /\ (\E t \in T \union {n} : Inside(t, i)) =>
                  new[i] = Larger(new[Left(i)], new[Right(i)])
  <2>1. i \in T \union {n} => new[i] = 0
    BY <1>2 DEF Known
  <2>2. ASSUME NEW t \in T, Inside(i, t) PROVE new[i] = Width[i]
    <3>1. i # n
      BY <1>3, <2>2, OrderFacts DEF Off, Inside
    <3> QED
      BY <1>2, <2>2, <3>1 DEF Known
  <2>3. ASSUME Inside(i, n) PROVE new[i] = Width[i]
    <3>1. Off(i, T)
      BY <2>3 DEF Off, Apart, Inside, Within
    <3> QED
      BY <1>2, <2>3, <3>1 DEF Known, Inside
  <2>4. ASSUME Off(i, T \union {n}) PROVE new[i] = Width[i]
    <3>1. Off(i, T) /\ Apart(i, n)
      BY <2>4 DEF Off
    <3>2. i # n
      BY <3>1, OrderFacts DEF Within
    <3> QED
      BY <1>2, <3>1, <3>2 DEF Known
  <2>5. ASSUME i \notin Above(n), NEW t \in T \union {n}, Inside(t, i)
        PROVE  new[i] = Larger(new[Left(i)], new[Right(i)])
    <3>1. t \in T /\ t \in Node /\ t # n
      BY <1>3, <2>5 DEF Above
    <3>2. i # n
      <4>1. Apart(n, t)
        BY <3>1 DEF Off
      <4> QED
        BY <2>5, <3>1, <4>1, OrderFacts DEF Inside, Apart
    <3>3. Width[i] # 1
      <4>1. Width[t] <= Width[i] /\ Width[t] # Width[i] /\ Width[t] \in Nat \ {0} /\ Width[i] \in Nat
        BY <2>5, <3>1, OrderFacts, UnitsFacts DEF Inside
      <4> QED
        BY <4>1
    <3>4. Left(i) \in Node /\ Right(i) \in Node /\ Left(i) # n /\ Right(i) # n
      BY <2>5, <3>3, SplitFacts DEF Above
    <3> QED
      BY <1>2, <2>5, <3>1, <3>2, <3>4 DEF Known
  <2> QED
    BY <2>1, <2>2, <2>3, <2>4, <2>5
<1>5. Known(new, T \union {n}, Above(n))
  BY <1>3, <1>4 DEF Known
<1> QED
  BY <1>1, <1>5 DEF new

\* A block comes back: its node is whole (heap.c:203).
LEMMA ReleaseNode ==
  ASSUME NEW lon, NEW T, NEW n \in Node, n \notin T, Filled(lon), Known(lon, T \union {n}, {})
  PROVE  LET new == [lon EXCEPT ![n] = Width[n]]
         IN  Filled(new) /\ Known(new, T, Above(n)) /\ Off(n, T)
<1> DEFINE new == [lon EXCEPT ![n] = Width[n]]
<1>1. Filled(new)
  BY FilledStore DEF Within
<1>2. \A i \in Node : new[i] = IF i = n THEN Width[n] ELSE lon[i]
  BY DEF Filled
<1>3. T \subseteq Node /\ (\A t, u \in T : t # u => Apart(t, u)) /\ \A t \in T : Apart(t, n) /\ Apart(n, t)
  BY DEF Known, Apart
<1> HIDE DEF new
<1>4. ASSUME NEW i \in Node
      PROVE  /\ i \in T => new[i] = 0
             /\ (\E t \in T : Inside(i, t)) => new[i] = Width[i]
             /\ i \notin Above(n) /\ Off(i, T) => new[i] = Width[i]
             /\ i \notin Above(n) /\ (\E t \in T : Inside(t, i)) =>
                  new[i] = Larger(new[Left(i)], new[Right(i)])
  <2>1. i \in T => new[i] = 0
    BY <1>2 DEF Known
  <2>2. (\E t \in T : Inside(i, t)) => new[i] = Width[i]
    BY <1>2 DEF Known
  <2>3. ASSUME i \notin Above(n), Off(i, T) PROVE new[i] = Width[i]
    <3>1. i = n \/ Inside(i, n) \/ Apart(i, n)
      BY <2>3, OrderFacts DEF Above, Inside
    <3>2. Apart(i, n) => Off(i, T \union {n})
      BY <2>3 DEF Off
    <3> QED
      BY <1>2, <3>1, <3>2 DEF Known
  <2>4. ASSUME i \notin Above(n), NEW t \in T, Inside(t, i)
        PROVE  new[i] = Larger(new[Left(i)], new[Right(i)])
    <3>1. t \in Node
      BY <1>3
    <3>2. i # n
      BY <1>3, <2>4, <3>1, OrderFacts DEF Inside
    <3>3. Width[i] # 1
      <4>1. Width[t] <= Width[i] /\ Width[t] # Width[i] /\ Width[t] \in Nat \ {0} /\ Width[i] \in Nat
        BY <2>4, <3>1, OrderFacts, UnitsFacts DEF Inside
      <4> QED
        BY <4>1
    <3>4. Left(i) \in Node /\ Right(i) \in Node /\ Left(i) # n /\ Right(i) # n
      BY <2>4, <3>3, SplitFacts DEF Above
    <3> QED
      BY <1>2, <2>4, <3>2, <3>4 DEF Known
  <2> QED
    BY <2>1, <2>2, <2>3, <2>4
<1>5. Known(new, T, Above(n))
  BY <1>3, <1>4 DEF Known
<1> QED
  BY <1>1, <1>3, <1>5 DEF new, Off

\* A loop on its way up renews the parent of the node it is at.
LEMMA RenewParent ==
  ASSUME NEW lon, NEW T, NEW i \in Node, i # 0, Filled(lon), Known(lon, T, Above(i)), NEW v,
         \/ Off(Parent(i), T) /\ v = Width[Parent(i)]
         \/ /\ \E t \in T : Inside(t, Parent(i))
            /\ v = Larger(lon[Left(Parent(i))], lon[Right(Parent(i))])
  PROVE  LET new == [lon EXCEPT ![Parent(i)] = v]
         IN  Filled(new) /\ Known(new, T, Above(Parent(i)))
<1> DEFINE p == Parent(i)
           new == [lon EXCEPT ![Parent(i)] = v]
<1>1. /\ p \in Node /\ Left(p) \in Node /\ Right(p) \in Node /\ Inside(i, p)
      /\ \A c \in Node : Inside(i, c) => Within(p, c)
  BY UpFacts
<1>2. /\ Off(p, T) => v = Width[p]
      /\ (\E t \in T : Inside(t, p)) => v = Larger(lon[Left(p)], lon[Right(p)])
      /\ p \notin T /\ ~\E t \in T : Inside(p, t)
  BY <1>1, FourCases
<1>3. Filled(new)
  <2>1. v = 0 \/ \E j \in Node : Within(j, p) /\ v = Width[j]
    BY <1>1, LargerFilled DEF Within
  <2> QED
    BY <1>1, <2>1, FilledStore
<1>4. \A a \in Node : new[a] = IF a = p THEN v ELSE lon[a]
  BY DEF Filled
<1>5. \A a \in Node : a \notin Above(p) /\ a # p => a \notin Above(i)
  BY <1>1 DEF Above, Inside
<1> HIDE DEF new, p
<1>6. T \subseteq Node /\ \A t, u \in T : t # u => Apart(t, u)
  BY DEF Known
<1>7. ASSUME NEW a \in Node
      PROVE  /\ a \in T => new[a] = 0
             /\ (\E t \in T : Inside(a, t)) => new[a] = Width[a]
             /\ a \notin Above(p) /\ Off(a, T) => new[a] = Width[a]
             /\ a \notin Above(p) /\ (\E t \in T : Inside(t, a)) =>
                  new[a] = Larger(new[Left(a)], new[Right(a)])
  <2>1. a \in T => new[a] = 0
    BY <1>2, <1>4 DEF Known
  <2>2. (\E t \in T : Inside(a, t)) => new[a] = Width[a]
    BY <1>2, <1>4 DEF Known
  <2>3. ASSUME a \notin Above(p), Off(a, T) PROVE new[a] = Width[a]
    BY <1>2, <1>4, <1>5, <2>3 DEF Known
  <2>4. ASSUME a \notin Above(p), NEW t \in T, Inside(t, a)
        PROVE  new[a] = Larger(new[Left(a)], new[Right(a)])
    <3>1. t \in Node
      BY <1>6
    <3>2. Width[a] # 1
      <4>1. Width[t] <= Width[a] /\ Width[t] # Width[a] /\ Width[t] \in Nat \ {0} /\ Width[a] \in Nat
        BY <2>4, <3>1, OrderFacts, UnitsFacts DEF Inside
      <4> QED
        BY <4>1
    <3>3. Left(a) \in Node /\ Right(a) \in Node /\ Left(a) # p /\ Right(a) # p
      BY <2>4, <3>2, SplitFacts DEF Above
    <3>4. CASE a = p
      BY <1>2, <1>4, <2>4, <3>3, <3>4
    <3>5. CASE a # p
      <4>1. lon[a] = Larger(lon[Left(a)], lon[Right(a)])
        BY <1>5, <2>4, <3>5 DEF Known
      <4> QED
        BY <1>4, <3>3, <3>5, <4>1
    <3> QED
      BY <3>4, <3>5
  <2> QED
    BY <2>1, <2>2, <2>3, <2>4
<1>8. Known(new, T, Above(p))
  BY <1>6, <1>7 DEF Known
<1> QED
  BY <1>3, <1>8 DEF new, p

\* The node below which a release goes on up: both halves whole, or not
\* (heap.c:215).
LEMMA MergedValue ==
  ASSUME NEW lon, NEW T, NEW i \in Node, i # 0, Filled(lon), Known(lon, T, Above(i)),
         \A t \in T : ~Within(i, t)
  PROVE  LET p == Parent(i)
             l == lon[Left(p)]
             r == lon[Right(p)]
         IN  \/ Off(p, T) /\ l + r = Width[p]
             \/ (\E t \in T : Inside(t, p)) /\ l + r # Width[p]
<1> DEFINE p == Parent(i)
           l == Left(p)
           r == Right(p)
<1>1. /\ p \in Node /\ l \in Node /\ r \in Node /\ Inside(i, p) /\ i \in {l, r}
  BY UpFacts
<1>2. /\ Width[p] = 2 * Width[l] /\ Width[r] = Width[l]
      /\ Inside(l, p) /\ Inside(r, p) /\ Apart(l, r)
      /\ \A k \in Node : Inside(k, p) => Within(k, l) \/ Within(k, r)
  BY <1>1, SplitFacts
<1> HIDE DEF p, l, r
<1>3. l \notin Above(i) /\ r \notin Above(i)
  <2>1. ~Inside(l, r) /\ ~Inside(r, l)
    BY <1>1, <1>2, OrderFacts DEF Inside, Apart
  <2> QED
    BY <1>1, <2>1 DEF Above, Inside
<1>4. /\ lon[l] \in Nat /\ lon[l] <= Width[l] /\ lon[r] \in Nat /\ lon[r] <= Width[l]
      /\ Width[l] \in Nat
  BY <1>1, <1>2, FilledFacts, UnitsFacts
<1>5. lon[l] + lon[r] = Width[p] <=> lon[l] = Width[l] /\ lon[r] = Width[r]
  BY <1>2, <1>4
<1>6. ASSUME Off(p, T) PROVE lon[l] + lon[r] = Width[p]
  <2>1. Off(l, T) /\ Off(r, T)
    BY <1>2, <1>6 DEF Off, Apart, Inside, Within
  <2> QED
    BY <1>1, <1>3, <1>5, <2>1 DEF Known
<1>7. ASSUME NEW t \in T, Inside(t, p) PROVE lon[l] + lon[r] # Width[p]
  <2> SUFFICES ASSUME lon[l] = Width[l], lon[r] = Width[r] PROVE FALSE
    BY <1>5
  <2>1. t \in Node
    BY DEF Known
  <2>2. PICK c \in {l, r} : Within(t, c)
    BY <1>2, <1>7, <2>1
  <2>3. Off(c, T) \/ \E u \in T : Inside(c, u)
    BY <1>1, <1>3, WholeIsOff
  <2>4. ~Off(c, T)
    <3>1. ~Apart(t, c)
      BY <1>1, <2>1, <2>2, OrderFacts
    <3> QED
      BY <3>1 DEF Off, Apart
  <2>5. PICK u \in T : Inside(c, u)
    BY <2>3, <2>4
  <2>6. Within(t, u) /\ u \in Node
    BY <2>2, <2>5 DEF Inside, Within, Known
  <2>7. t = u
    BY <2>1, <2>6, OrderFacts DEF Known
  <2> QED
    BY <1>1, <2>1, <2>2, <2>5, <2>7, OrderFacts DEF Inside
<1>8. p \notin T /\ ~\E t \in T : Inside(p, t)
  BY <1>1 DEF Inside, Within
<1>9. Off(p, T) \/ \E t \in T : Inside(t, p)
  BY <1>1, <1>8, FourCases
<1> QED
  BY <1>6, <1>7, <1>9 DEF p, l, r
------------------------------------------------------------------------------
(* The inductive invariant.                                                *)

BlockOf(i) == [at |-> Start(i), units |-> Width[i]]
Taken == {i \in Node : BlockOf(i) \in blocks}

BlocksKnown == \A b \in blocks : \E i \in Node : b = BlockOf(i)

\* The way up renews one node after the other.
Stale == IF pc \in {"climb", "merge"} THEN Above(index) ELSE {}

\* The nodes that are 0 for a block: those of all blocks but in the search for
\* the node of a block that comes back.
TreeKnown ==
  /\ pc # "seek" => Known(longest, Taken, Stale)
  /\ pc = "seek" => \E n \in Node \ Taken :
                      Known(longest, Taken \union {n}, {}) /\ Within(index, n)

\* Wherever the way down went, it went to the smaller half that has room.
SmallFirst(i, n) ==
  \A a \in Node : Left(a) \in Node =>
    /\ Within(i, Left(a)) /\ longest[Right(a)] >= n => longest[Left(a)] <= longest[Right(a)]
    /\ Within(i, Right(a)) /\ longest[Left(a)] >= n => longest[Right(a)] <= longest[Left(a)]

LoopKnown ==
  /\ pc = "descend" => /\ longest[index] >= size /\ SmallFirst(index, size)
                       /\ \A t \in Taken : ~Within(index, t)
  /\ pc = "climb" => \E t \in Taken : Within(t, index)
  /\ pc = "merge" => \A t \in Taken : ~Within(index, t)
  /\ pc = "panicked" => longest[0] < size

Placement ==
  /\ index \in Node /\ heap \in {"kernel", "user"}
  /\ nodeSize \in {Width[i] : i \in Node}
  /\ pc \in {"ready", "descend", "climb", "seek", "merge", "panicked"}
  /\ pc \in {"descend", "seek", "merge"} => nodeSize = Width[index]

SizesKnown ==
  size \in Nat \ {0} /\ PowerOfTwo(size) /\ want \in Nat /\ want <= size * Unit

Inv == Filled(longest) /\ BlocksKnown /\ TreeKnown /\ LoopKnown /\ Placement /\ SizesKnown

LEMMA BlockFacts ==
  ASSUME NEW i \in Node
  PROVE  /\ UnitsOf(BlockOf(i)) = Units(i)
         /\ \A j \in Node : BlockOf(i) = BlockOf(j) => i = j
<1>1. UnitsOf(BlockOf(i)) = Units(i)
  BY UnitsFacts DEF UnitsOf, BlockOf
<1>2. ASSUME NEW j \in Node, BlockOf(i) = BlockOf(j)
      PROVE  i = j
  <2>1. Start(i) = Start(j) /\ Width[i] = Width[j]
    BY <1>2 DEF BlockOf
  <2>2. Units(i) = Units(j) /\ Units(i) # {}
    BY <2>1, UnitsFacts, EndsFacts
  <2> QED
    BY <2>1, <2>2, SamePlace
<1> QED
  BY <1>1, <1>2

LEMMA TakenAdds ==
  ASSUME NEW n \in Node, blocks' = blocks \union {BlockOf(n)}
  PROVE  Taken' = Taken \union {n}
  BY BlockFacts DEF Taken

LEMMA TakenLoses ==
  ASSUME NEW n \in Node, blocks' = blocks \ {BlockOf(n)}
  PROVE  Taken' = Taken \ {n}
  BY BlockFacts DEF Taken

LEMMA SameBlocks ==
  ASSUME BlocksKnown, UNCHANGED blocks
  PROVE  BlocksKnown' /\ Taken' = Taken
  BY DEF BlocksKnown, Taken

LEMMA RequestFacts ==
  ASSUME NEW bytes \in Nat, bytes > 0, heap \in {"kernel", "user"}
  PROVE  LET n == FixSize(UnitsFor(bytes))
         IN  n \in Nat \ {0} /\ PowerOfTwo(n) /\ bytes <= n * Unit
<1> DEFINE u == UnitsFor(bytes)
           n == FixSize(u)
<1>1. Unit \in Nat /\ Unit > 0
  BY HeapAssumption
<1>2. u \in Nat \ {0} /\ bytes <= u * Unit
  <2>1. ASSUME NEW a \in Nat
        PROVE  a \div Unit \in Nat /\ a < (a \div Unit + 1) * Unit
    <3> DEFINE q == a \div Unit
               r == a % Unit
    <3>1. q \in Nat /\ r \in 0 .. Unit - 1 /\ a = Unit * q + r
      BY <1>1, DivFacts
    <3> HIDE DEF q, r
    <3>2. (q + 1) * Unit = Unit * q + Unit
      BY <1>1, <3>1
    <3>3. Unit * q \in Nat
      BY <1>1, <3>1
    <3> QED
      BY <1>1, <3>1, <3>2, <3>3 DEF q
  <2>2. CASE heap = "kernel"
    <3>1. u = bytes \div Unit + 1
      BY <2>2 DEF UnitsFor, KallocUnits
    <3>2. bytes \div Unit \in Nat /\ bytes < (bytes \div Unit + 1) * Unit
      BY <2>1
    <3> HIDE DEF u
    <3>3. u \in Nat \ {0} /\ bytes < u * Unit
      BY <3>1, <3>2
    <3>4. u * Unit \in Nat
      BY <1>1, <3>3
    <3> QED
      BY <3>3, <3>4
  <2>3. CASE heap # "kernel"
    <3>1. u = (bytes - 1) \div Unit + 1 /\ bytes - 1 \in Nat
      BY <2>3 DEF UnitsFor, MallocUnits
    <3>2. (bytes - 1) \div Unit \in Nat /\ bytes - 1 < ((bytes - 1) \div Unit + 1) * Unit
      BY <2>1, <3>1
    <3> HIDE DEF u
    <3>3. u \in Nat \ {0} /\ bytes - 1 < u * Unit
      BY <3>1, <3>2
    <3>4. u * Unit \in Nat
      BY <1>1, <3>3
    <3> QED
      BY <3>3, <3>4
  <2> QED
    BY <2>2, <2>3
<1> HIDE DEF u
<1>3. n \in u .. 2 * u - 1 /\ PowerOfTwo(n)
  BY <1>2, FixSizeFacts
<1> HIDE DEF n
<1>4. n \in Nat \ {0} /\ u <= n
  BY <1>2, <1>3
<1>5. u * Unit <= n * Unit
  BY <1>1, <1>2, <1>4
<1>6. u * Unit \in Nat /\ n * Unit \in Nat
  BY <1>1, <1>2, <1>4
<1>7. bytes <= n * Unit
  BY <1>2, <1>5, <1>6
<1> QED
  BY <1>3, <1>4, <1>7 DEF n, u

LEMMA InitInv == Init => Inv
<1> SUFFICES ASSUME Init PROVE Inv
  OBVIOUS
<1>1. 0 \in Node /\ Width[0] = Size
  BY PlaceFacts
<1>2. Width \in [Node -> Nat]
  BY WidthEquation, UnitsFacts
<1>3. Filled(longest)
  BY <1>2 DEF Init, Filled, Within
<1>4. Taken = {} /\ BlocksKnown
  BY DEF Init, Taken, BlocksKnown
<1>5. Known(longest, Taken, Stale)
  BY <1>4 DEF Init, Known
<1>6. SizesKnown
  BY OneIsPower, HeapAssumption DEF Init, SizesKnown
<1> QED
  BY <1>1, <1>3, <1>4, <1>5, <1>6 DEF Init, Inv, TreeKnown, LoopKnown, Placement

LEMMA KallocInv ==
  ASSUME Inv, NEW bytes \in Nat, Kalloc(bytes) \/ KallocPanic(bytes)
  PROVE  Inv'
<1> DEFINE n == FixSize(UnitsFor(bytes))
<1>1. bytes > 0 /\ pc = "ready" /\ size' = n /\ want' = bytes /\ UNCHANGED <<heap, longest, blocks>>
  BY DEF Kalloc, KallocPanic
<1>2. n \in Nat \ {0} /\ PowerOfTwo(n) /\ bytes <= n * Unit
  BY <1>1, RequestFacts DEF Inv, Placement
<1> HIDE DEF n
<1>3. SizesKnown'
  BY <1>1, <1>2 DEF SizesKnown
<1>4. BlocksKnown' /\ Taken' = Taken /\ Filled(longest)'
  BY <1>1, SameBlocks DEF Inv
<1>5. pc' \in {"descend", "panicked"}
  BY DEF Kalloc, KallocPanic
<1>6. TreeKnown'
  BY <1>1, <1>4, <1>5 DEF Inv, TreeKnown, Stale
<1>7. LoopKnown' /\ Placement'
  <2>1. CASE Kalloc(bytes)
    <3>1. longest[0] >= n /\ index' = 0 /\ nodeSize' = Size /\ pc' = "descend"
      BY <2>1 DEF Kalloc, n
    <3>2. 0 \in Node /\ Width[0] = Size
      BY PlaceFacts
    <3>3. Known(longest, Taken, {}) /\ longest[0] \in Nat
      BY <1>1, <3>2, FilledFacts DEF Inv, TreeKnown, Stale
    <3>4. \A t \in Taken : ~Within(0, t)
      <4> SUFFICES ASSUME NEW t \in Taken, Within(0, t) PROVE FALSE
        OBVIOUS
      <4>1. t = 0 /\ longest[t] = 0
        BY <3>3, RootFacts DEF Taken, Known
      <4> QED
        BY <1>2, <3>1, <4>1
    <3>5. SmallFirst(0, n)
      <4>1. \A a \in Node : Left(a) \in Node =>
              Right(a) \in Node /\ ~Within(0, Left(a)) /\ ~Within(0, Right(a))
        <5> SUFFICES ASSUME NEW a \in Node, Left(a) \in Node, NEW c \in {Left(a), Right(a)}, Within(0, c)
                     PROVE  FALSE
          BY SplitFacts
        <5>1. c \in Node /\ Inside(c, a) /\ c = 0
          BY SplitFacts, RootFacts
        <5> QED
          BY <5>1, RootFacts DEF Inside
      <4> QED
        BY <4>1 DEF SmallFirst
    <3>6. SmallFirst(index, size)'
      BY <1>1, <3>1, <3>5 DEF SmallFirst
    <3> QED
      BY <1>1, <1>4, <3>1, <3>2, <3>4, <3>6 DEF Inv, LoopKnown, Placement
  <2>2. CASE KallocPanic(bytes)
    <3>1. longest[0] < n /\ UNCHANGED <<index, nodeSize>> /\ pc' = "panicked"
      BY <2>2 DEF KallocPanic, n
    <3> QED
      BY <1>1, <3>1 DEF Inv, LoopKnown, Placement
  <2> QED
    BY <2>1, <2>2
<1> QED
  BY <1>3, <1>4, <1>6, <1>7 DEF Inv

LEMMA DescendInv == ASSUME Inv, Descend PROVE Inv'
<1> DEFINE l == Left(index)
           r == Right(index)
           c == index'
           s == l + r - c
<1>1. /\ pc = "descend" /\ nodeSize # size /\ nodeSize' = nodeSize \div 2
      /\ UNCHANGED <<heap, longest, size, want, pc, blocks>>
  BY DEF Descend
<1>2. /\ index \in Node /\ nodeSize = Width[index] /\ Filled(longest) /\ Known(longest, Taken, {})
      /\ longest[index] >= size /\ SmallFirst(index, size) /\ \A t \in Taken : ~Within(index, t)
      /\ size \in Nat \ {0} /\ PowerOfTwo(size)
  BY <1>1 DEF Inv, Placement, TreeKnown, Stale, LoopKnown, SizesKnown
<1>3. /\ longest[index] \in Nat /\ longest[index] <= Width[index]
      /\ Width[index] \in Nat \ {0} /\ PowerOfTwo(Width[index])
  BY <1>2, FilledFacts, PlaceFacts DEF Placed
<1>4. 2 * size <= Width[index]
  <2>1. size < Width[index]
    BY <1>1, <1>2, <1>3
  <2> QED
    BY <1>2, <1>3, <2>1, PowersApart
<1>5. /\ l \in Node /\ r \in Node /\ l # r /\ Width[index] = 2 * Width[l] /\ Width[r] = Width[l]
      /\ Inside(l, index) /\ Inside(r, index) /\ Apart(l, r) /\ Apart(r, l)
  <2>1. Width[index] # 1
    BY <1>2, <1>4
  <2> QED
    BY <1>2, <2>1, SplitFacts DEF Apart
<1>6. /\ longest[l] \in Nat /\ longest[r] \in Nat /\ Width[l] \in Nat /\ l \in Nat /\ r \in Nat
  <2>1. longest[l] \in Nat /\ longest[r] \in Nat /\ Width[l] \in Nat
    BY <1>2, <1>5, FilledFacts, UnitsFacts
  <2>2. l \in Nat /\ r \in Nat
    BY <1>5 DEF Node
  <2> QED
    BY <2>1, <2>2
<1>7. Width[index] \div 2 = Width[l]
  BY <1>5, <1>6
<1>8. \E k \in {l, r} : longest[k] >= size
  <2>1. CASE Off(index, Taken)
    <3>1. Off(l, Taken)
      BY <1>5, <2>1 DEF Off, Apart, Inside, Within
    <3>2. longest[l] = Width[l]
      BY <1>2, <1>5, <3>1 DEF Known
    <3> QED
      BY <1>2, <1>4, <1>5, <1>6, <3>2
  <2>2. CASE \E t \in Taken : Inside(t, index)
    <3>1. longest[index] = Larger(longest[l], longest[r])
      BY <1>2, <2>2 DEF Known
    <3> QED
      BY <1>2, <3>1 DEF Larger
  <2>3. CASE index \in Taken
    BY <1>2, <2>3 DEF Within
  <2> QED
    BY <1>2, <2>1, <2>2, <2>3, FourCases DEF Inside
<1>9. /\ c \in {l, r} /\ s \in {l, r} /\ c # s /\ longest[c] >= size
      /\ longest[s] >= size => longest[c] <= longest[s]
  <2> DEFINE small == IF longest[l] <= longest[r] THEN l ELSE r
             other == l + r - small
  <2>1. c = IF longest[small] >= size THEN small ELSE other
    BY DEF Descend
  <2>2. small \in {l, r} /\ other \in {l, r} /\ small # other /\ longest[small] <= longest[other]
    <3> HIDE DEF l, r
    <3> QED
      BY <1>5, <1>6
  <2>3. l + r - other = small
    <3> HIDE DEF l, r
    <3> QED
      BY <1>6
  <2> HIDE DEF small, l, r
  <2>4. CASE longest[small] >= size
    <3>1. c = small /\ s = other
      BY <2>1, <2>4
    <3> QED
      BY <2>2, <2>4, <3>1
  <2>5. CASE ~(longest[small] >= size)
    <3>1. c = other /\ s = small
      BY <2>1, <2>3, <2>5
    <3>2. longest[other] >= size
      BY <1>8, <2>2, <2>5
    <3> QED
      BY <2>2, <2>5, <3>1, <3>2
  <2> QED
    BY <2>4, <2>5
<1> HIDE DEF l, r, c, s
<1>10. c \in Node /\ Inside(c, index) /\ Width[c] = Width[l]
  BY <1>5, <1>9
<1>11. \A t \in Taken : ~Within(c, t)
  <2> SUFFICES ASSUME NEW t \in Taken, Within(c, t) PROVE FALSE
    OBVIOUS
  <2>1. t \in Node /\ longest[t] = 0
    BY <1>2 DEF Known, Taken
  <2>2. c # t
    BY <1>2, <1>9, <2>1
  <2>3. c # 0 /\ Parent(c) = index
    <3>1. index \in Nat
      BY <1>2 DEF Node
    <3> QED
      BY <1>9, <3>1, ChildFacts DEF l, r
  <2>4. Within(index, t)
    BY <1>10, <2>1, <2>2, <2>3, UpFacts DEF Inside
  <2> QED
    BY <1>2, <2>4
<1>12. SmallFirst(c, size)
  <2> SUFFICES ASSUME NEW a \in Node, Left(a) \in Node
               PROVE  /\ Within(c, Left(a)) /\ longest[Right(a)] >= size => longest[Left(a)] <= longest[Right(a)]
                      /\ Within(c, Right(a)) /\ longest[Left(a)] >= size => longest[Right(a)] <= longest[Left(a)]
    BY DEF SmallFirst
  <2>1. Right(a) \in Node
    BY SplitFacts
  <2>2. c # 0 /\ Parent(c) = index /\ index \in Nat /\ a \in Nat
    <3>1. index \in Nat /\ a \in Nat
      BY <1>2 DEF Node
    <3> QED
      BY <1>9, <3>1, ChildFacts DEF l, r
  <2>3. ASSUME NEW k \in Node, Within(c, k), k # c PROVE Within(index, k)
    BY <1>10, <2>2, <2>3, UpFacts DEF Inside
  <2>4. c = Left(a) \/ c = Right(a) => a = index
    BY <2>2, ChildFacts
  <2>5. CASE a = index
    <3>1. Left(a) = l /\ Right(a) = r
      BY <2>5 DEF l, r
    <3>2. ~Within(c, s)
      BY <1>5, <1>9, OrderFacts
    <3> QED
      BY <1>9, <3>1, <3>2
  <2>6. CASE a # index
    BY <1>2, <2>1, <2>3, <2>4, <2>6 DEF SmallFirst
  <2> QED
    BY <2>5, <2>6
<1>13. nodeSize' = Width[c]
  BY <1>1, <1>2, <1>7, <1>10
<1>14. SmallFirst(index, size)'
  BY <1>1, <1>12 DEF SmallFirst, c
<1>15. BlocksKnown' /\ Taken' = Taken
  BY <1>1, SameBlocks DEF Inv
<1>16. LoopKnown'
  BY <1>1, <1>9, <1>11, <1>14, <1>15 DEF LoopKnown, c
<1>17. Placement'
  BY <1>1, <1>10, <1>13 DEF Inv, Placement, c
<1>18. TreeKnown'
  BY <1>1, <1>2, <1>15 DEF TreeKnown, Stale
<1> QED
  BY <1>1, <1>15, <1>16, <1>17, <1>18 DEF Inv, SizesKnown, Filled

LEMMA OccupyInv == ASSUME Inv, Occupy PROVE Inv'
<1>1. /\ pc = "descend" /\ nodeSize = size /\ longest' = [longest EXCEPT ![index] = 0]
      /\ blocks' = blocks \union {[at |-> (index + 1) * nodeSize - Size, units |-> size]}
      /\ pc' = "climb" /\ size' = 1 /\ want' = 0 /\ UNCHANGED <<heap, index, nodeSize>>
  BY DEF Occupy
<1>2. /\ index \in Node /\ nodeSize = Width[index] /\ Filled(longest) /\ Known(longest, Taken, {})
      /\ longest[index] >= size /\ \A t \in Taken : ~Within(index, t)
  BY <1>1 DEF Inv, Placement, TreeKnown, Stale, LoopKnown
<1>3. longest[index] = Width[index]
  <2>1. longest[index] \in Nat /\ longest[index] <= Width[index] /\ Width[index] \in Nat
    BY <1>2, FilledFacts, UnitsFacts
  <2> QED
    BY <1>1, <1>2, <2>1
<1>4. Off(index, Taken)
  BY <1>2, <1>3, WholeIsOff DEF Inside
<1>5. Filled(longest') /\ Known(longest', Taken \union {index}, Above(index))
  BY <1>1, <1>2, <1>4, TakeNode
<1>6. blocks' = blocks \union {BlockOf(index)}
  BY <1>1, <1>2 DEF BlockOf, Start
<1>7. Taken' = Taken \union {index}
  BY <1>2, <1>6, TakenAdds
<1>8. BlocksKnown'
  BY <1>2, <1>6 DEF Inv, BlocksKnown
<1>9. TreeKnown'
  BY <1>1, <1>5, <1>7 DEF TreeKnown, Stale
<1>10. LoopKnown'
  BY <1>1, <1>7 DEF LoopKnown, Within
<1>11. SizesKnown'
  BY <1>1, OneIsPower, HeapAssumption DEF SizesKnown
<1> QED
  BY <1>1, <1>5, <1>8, <1>9, <1>10, <1>11 DEF Inv, Placement, Filled

LEMMA NoneAboveRoot == Above(0) = {}
  BY RootFacts DEF Above, Inside

LEMMA ClimbInv == ASSUME Inv, Climb PROVE Inv'
<1>1. pc = "climb" /\ UNCHANGED <<heap, nodeSize, size, want, blocks>>
  BY DEF Climb
<1>2. /\ index \in Node /\ Filled(longest) /\ Known(longest, Taken, Above(index))
      /\ \E t \in Taken : Within(t, index)
  BY <1>1 DEF Inv, Placement, TreeKnown, Stale, LoopKnown
<1>3. BlocksKnown' /\ Taken' = Taken
  BY <1>1, SameBlocks DEF Inv
<1>4. CASE index = 0
  <2>1. pc' = "ready" /\ UNCHANGED <<longest, index>>
    BY <1>4 DEF Climb
  <2>2. TreeKnown'
    BY <1>2, <1>3, <1>4, <2>1, NoneAboveRoot DEF TreeKnown, Stale
  <2> QED
    BY <1>1, <1>3, <2>1, <2>2 DEF Inv, LoopKnown, Placement, SizesKnown
<1>5. CASE index # 0
  <2> DEFINE p == Parent(index)
             v == Larger(longest[Left(p)], longest[Right(p)])
  <2>1. index' = p /\ pc' = pc /\ longest' = [longest EXCEPT ![p] = v]
    BY <1>5 DEF Climb
  <2>2. PICK t \in Taken : Within(t, index)
    BY <1>2
  <2>3. p \in Node /\ Inside(index, p) /\ t \in Node
    BY <1>2, <1>5, UpFacts DEF Taken
  <2>4. Inside(t, p)
    BY <1>2, <2>2, <2>3, OrderFacts DEF Inside, Within
  <2>5. Filled(longest') /\ Known(longest', Taken, Above(p))
    BY <1>2, <1>5, <2>1, <2>4, RenewParent
  <2>6. TreeKnown'
    BY <1>1, <1>3, <2>1, <2>5 DEF TreeKnown, Stale
  <2>7. LoopKnown'
    BY <1>1, <1>3, <2>1, <2>4 DEF LoopKnown, Inside
  <2> QED
    BY <1>1, <1>3, <2>1, <2>3, <2>5, <2>6, <2>7 DEF Inv, Placement, SizesKnown, Filled
<1> QED
  BY <1>4, <1>5

LEMMA KfreeInv == ASSUME Inv, NEW b \in blocks, Kfree(b) PROVE Inv'
<1>1. /\ pc = "ready" /\ index' = b.at + Size - 1 /\ nodeSize' = 1 /\ blocks' = blocks \ {b}
      /\ pc' = "seek" /\ UNCHANGED <<heap, longest, size, want>>
  BY DEF Kfree
<1>2. PICK n \in Node : b = BlockOf(n)
  BY DEF Inv, BlocksKnown
<1>3. index' = Start(n) + Size - 1 /\ n \in Taken
  BY <1>1, <1>2 DEF BlockOf, Taken
<1>4. index' \in Node /\ Width[index'] = 1 /\ Within(index', n)
  BY <1>3, LeafFacts
<1>5. Taken' = Taken \ {n} /\ BlocksKnown'
  BY <1>1, <1>2, TakenLoses DEF Inv, BlocksKnown
<1>6. Known(longest, Taken' \union {n}, {})
  <2>1. Taken' \union {n} = Taken
    BY <1>3, <1>5
  <2> QED
    BY <1>1, <2>1 DEF Inv, TreeKnown, Stale
<1>7. TreeKnown'
  BY <1>1, <1>4, <1>5, <1>6 DEF TreeKnown
<1> QED
  BY <1>1, <1>4, <1>5, <1>7 DEF Inv, LoopKnown, Placement, SizesKnown, Filled

\* The search never leaves the node that was handed out.
LEMMA SeekInv == ASSUME Inv, Seek PROVE Inv' /\ index # 0
<1>1. /\ pc = "seek" /\ longest[index] # 0 /\ nodeSize' = 2 * nodeSize
      /\ UNCHANGED <<heap, longest, size, want, blocks>>
  BY DEF Seek
<1>2. PICK n \in Node \ Taken : Known(longest, Taken \union {n}, {}) /\ Within(index, n)
  BY <1>1 DEF Inv, TreeKnown
<1>3. index \in Node /\ nodeSize = Width[index]
  BY <1>1 DEF Inv, Placement
<1>4. Inside(index, n)
  <2>1. longest[n] = 0
    BY <1>2 DEF Known
  <2> QED
    BY <1>1, <1>2, <2>1 DEF Inside
<1>5. index # 0
  BY <1>4, RootFacts DEF Inside
<1>6. index' = Parent(index) /\ UNCHANGED pc
  BY <1>5 DEF Seek
<1>7. index' \in Node /\ Within(index', n) /\ nodeSize' = Width[index']
  BY <1>1, <1>3, <1>4, <1>5, <1>6, UpFacts
<1>8. BlocksKnown' /\ Taken' = Taken
  BY <1>1, SameBlocks DEF Inv
<1>9. TreeKnown'
  BY <1>1, <1>2, <1>6, <1>7, <1>8 DEF TreeKnown
<1> QED
  BY <1>1, <1>5, <1>6, <1>7, <1>8, <1>9 DEF Inv, LoopKnown, Placement, SizesKnown, Filled

LEMMA RestoreInv == ASSUME Inv, Restore PROVE Inv'
<1>1. /\ pc = "seek" /\ longest[index] = 0 /\ longest' = [longest EXCEPT ![index] = nodeSize]
      /\ pc' = "merge" /\ UNCHANGED <<heap, index, nodeSize, size, want, blocks>>
  BY DEF Restore
<1>2. PICK n \in Node \ Taken : Known(longest, Taken \union {n}, {}) /\ Within(index, n)
  BY <1>1 DEF Inv, TreeKnown
<1>3. index \in Node /\ nodeSize = Width[index] /\ Filled(longest)
  BY <1>1 DEF Inv, Placement
<1>4. index = n
  <2>1. Inside(index, n) => longest[index] = Width[index]
    BY <1>2, <1>3 DEF Known
  <2>2. Width[index] # 0
    BY <1>3, UnitsFacts
  <2> QED
    BY <1>1, <1>2, <2>1, <2>2 DEF Inside
<1>5. Filled(longest') /\ Known(longest', Taken, Above(index)) /\ Off(index, Taken)
  BY <1>1, <1>2, <1>3, <1>4, ReleaseNode
<1>6. BlocksKnown' /\ Taken' = Taken
  BY <1>1, SameBlocks DEF Inv
<1>7. TreeKnown'
  BY <1>1, <1>5, <1>6 DEF TreeKnown, Stale
<1>8. LoopKnown'
  <2>1. \A t \in Taken : ~Within(index, t)
    BY <1>3, <1>5, OrderFacts DEF Off, Taken
  <2> QED
    BY <1>1, <1>6, <2>1 DEF LoopKnown
<1> QED
  BY <1>1, <1>3, <1>5, <1>6, <1>7, <1>8 DEF Inv, Placement, SizesKnown, Filled

LEMMA MergeInv == ASSUME Inv, Merge PROVE Inv'
<1>1. pc = "merge" /\ UNCHANGED <<heap, size, want, blocks>>
  BY DEF Merge
<1>2. /\ index \in Node /\ nodeSize = Width[index] /\ Filled(longest)
      /\ Known(longest, Taken, Above(index)) /\ \A t \in Taken : ~Within(index, t)
  BY <1>1 DEF Inv, Placement, TreeKnown, Stale, LoopKnown
<1>3. BlocksKnown' /\ Taken' = Taken
  BY <1>1, SameBlocks DEF Inv
<1>4. CASE index = 0
  <2>1. pc' = "ready" /\ UNCHANGED <<longest, index, nodeSize>>
    BY <1>4 DEF Merge
  <2>2. TreeKnown'
    BY <1>2, <1>3, <1>4, <2>1, NoneAboveRoot DEF TreeKnown, Stale
  <2> QED
    BY <1>1, <1>3, <2>1, <2>2 DEF Inv, LoopKnown, Placement, SizesKnown
<1>5. CASE index # 0
  <2> DEFINE p == Parent(index)
             l == longest[Left(p)]
             r == longest[Right(p)]
             v == IF l + r = Width[p] THEN Width[p] ELSE Larger(l, r)
  <2>1. p \in Node /\ Inside(index, p) /\ Width[p] = 2 * Width[index]
    BY <1>2, <1>5, UpFacts
  <2>2. index' = p /\ nodeSize' = Width[p] /\ pc' = pc /\ longest' = [longest EXCEPT ![p] = v]
    BY <1>2, <1>5, <2>1 DEF Merge
  <2>3. \/ Off(p, Taken) /\ v = Width[p]
        \/ (\E t \in Taken : Inside(t, p)) /\ v = Larger(l, r)
    BY <1>2, <1>5, MergedValue
  <2>4. Filled(longest') /\ Known(longest', Taken, Above(p))
    BY <1>2, <1>5, <2>2, <2>3, RenewParent
  <2>5. TreeKnown'
    BY <1>1, <1>3, <2>2, <2>4 DEF TreeKnown, Stale
  <2>6. \A t \in Taken : ~Within(p, t)
    BY <1>2, <2>1 DEF Inside, Within
  <2>7. LoopKnown'
    BY <1>1, <1>3, <2>2, <2>6 DEF LoopKnown
  <2> QED
    BY <1>1, <1>3, <2>1, <2>2, <2>4, <2>5, <2>7 DEF Inv, Placement, SizesKnown, Filled
<1> QED
  BY <1>4, <1>5

\* Every step keeps the invariant.
THEOREM StepInv == Inv /\ [Next]_vars => Inv'
<1> SUFFICES ASSUME Inv, [Next]_vars PROVE Inv'
  OBVIOUS
<1>1. CASE UNCHANGED vars
  <2>1. Taken' = Taken /\ Stale' = Stale
    BY <1>1 DEF vars, Taken, Stale
  <2> QED
    BY <1>1, <2>1 DEF vars, Inv, BlocksKnown, TreeKnown, LoopKnown, SmallFirst, Placement, SizesKnown
<1>2. ASSUME NEW bytes \in 0 .. MaxBytes, Kalloc(bytes) \/ KallocPanic(bytes) PROVE Inv'
  BY <1>2, KallocInv, HeapAssumption
<1>3. ASSUME NEW b \in blocks, Kfree(b) PROVE Inv'
  BY <1>3, KfreeInv
<1>4. CASE Descend
  BY <1>4, DescendInv
<1>5. CASE Occupy
  BY <1>5, OccupyInv
<1>6. CASE Climb
  BY <1>6, ClimbInv
<1>7. CASE Seek
  BY <1>7, SeekInv
<1>8. CASE Restore
  BY <1>8, RestoreInv
<1>9. CASE Merge
  BY <1>9, MergeInv
<1> QED
  BY <1>1, <1>2, <1>3, <1>4, <1>5, <1>6, <1>7, <1>8, <1>9 DEF Next, Stuck

THEOREM SpecInv == Spec => []Inv
  BY InitInv, StepInv, PTL DEF Spec
------------------------------------------------------------------------------
(* What follows for the heap.                                              *)

LEMMA FreeIsOff ==
  ASSUME BlocksKnown, NEW i \in Node
  PROVE  /\ Free(i) <=> Off(i, Taken)
         /\ (\E b \in blocks : Units(i) \subseteq UnitsOf(b) /\ Units(i) # UnitsOf(b))
              <=> \E t \in Taken : Inside(i, t)
<1>1. \A t \in Taken : t \in Node /\ BlockOf(t) \in blocks /\ UnitsOf(BlockOf(t)) = Units(t)
  BY BlockFacts DEF Taken
<1>2. \A b \in blocks : \E t \in Taken : b = BlockOf(t) /\ UnitsOf(b) = Units(t)
  BY BlockFacts DEF BlocksKnown, Taken
<1>3. Free(i) <=> Off(i, Taken)
  BY <1>1, <1>2 DEF Free, Off, Apart
<1>4. ASSUME NEW t \in Node
      PROVE  Units(i) \subseteq Units(t) /\ Units(i) # Units(t) <=> Inside(i, t)
  BY OrderFacts DEF Inside, Within
<1>5. (\E b \in blocks : Units(i) \subseteq UnitsOf(b) /\ Units(i) # UnitsOf(b))
        <=> \E t \in Taken : Units(i) \subseteq Units(t) /\ Units(i) # Units(t)
  BY <1>1, <1>2
<1> QED
  BY <1>1, <1>3, <1>4, <1>5

\* Between calls a node that is no part of a block has the width of the
\* largest node below that is off them all.
LEMMA LongestIsLargest ==
  ASSUME NEW lon, NEW T, Filled(lon), Known(lon, T, {}), NEW i \in Node,
         ~\E t \in T : Inside(i, t)
  PROVE  /\ \A k \in Node : Within(k, i) /\ Off(k, T) => Width[k] <= lon[i]
         /\ lon[i] = 0 \/ \E k \in Node : Within(k, i) /\ Off(k, T) /\ Width[k] = lon[i]
<1> DEFINE Largest(a) == /\ \A k \in Node : Within(k, a) /\ Off(k, T) => Width[k] <= lon[a]
                         /\ lon[a] = 0 \/ \E k \in Node : Within(k, a) /\ Off(k, T) /\ Width[k] = lon[a]
           Bad == {a \in Node : ~(\E t \in T : Inside(a, t)) /\ ~Largest(a)}
<1> SUFFICES ASSUME Bad # {} PROVE FALSE
  <2>1. i \notin Bad
    OBVIOUS
  <2> QED
    BY <2>1
<1>1. PICK a \in Bad : \A c \in Bad : c <= a
  <2>1. 2 * Size - 2 \in Nat /\ Bad \subseteq 0 .. 2 * Size - 2
    BY HeapAssumption DEF Node
  <2> HIDE DEF Bad
  <2> QED
    BY <2>1, GreatestNat
<1>2. a \in Node /\ a \in Nat /\ ~(\E t \in T : Inside(a, t)) /\ ~Largest(a) /\ T \subseteq Node
  BY <1>1 DEF Node, Known
<1> HIDE DEF Largest
<1>3. CASE a \in T
  <2>1. lon[a] = 0
    BY <1>2, <1>3 DEF Known
  <2>2. \A k \in Node : Within(k, a) => ~Off(k, T)
    BY <1>2, <1>3, OrderFacts DEF Off
  <2> QED
    BY <1>2, <2>1, <2>2 DEF Largest
<1>4. CASE Off(a, T)
  <2>1. lon[a] = Width[a]
    BY <1>2, <1>4 DEF Known
  <2>2. \A k \in Node : Within(k, a) => Width[k] <= Width[a]
    BY <1>2, OrderFacts
  <2> QED
    BY <1>2, <1>4, <2>1, <2>2 DEF Largest, Within
<1>5. ASSUME NEW t \in T, Inside(t, a) PROVE FALSE
  <2> DEFINE l == Left(a)
             r == Right(a)
  <2>1. t \in Node /\ a < l /\ a < r
    BY <1>2, ChildFacts
  <2>2. Width[a] # 1
    <3>1. Width[t] <= Width[a] /\ Width[t] # Width[a] /\ Width[t] \in Nat \ {0} /\ Width[a] \in Nat
      BY <1>2, <1>5, <2>1, OrderFacts, UnitsFacts DEF Inside
    <3> QED
      BY <3>1
  <2>3. /\ l \in Node /\ r \in Node /\ Inside(l, a) /\ Inside(r, a) /\ Apart(l, r)
        /\ \A k \in Node : Inside(k, a) => Within(k, l) \/ Within(k, r)
    BY <1>2, <2>2, SplitFacts
  <2>4. lon[a] = Larger(lon[l], lon[r])
    BY <1>2, <1>5 DEF Known
  <2> HIDE DEF l, r
  <2>5. ASSUME NEW c \in {l, r} PROVE Largest(c)
    <3>1. c \in Node /\ a < c /\ c \in Nat
      BY <2>1, <2>3 DEF Node
    <3>2. c \notin Bad
      <4> HIDE DEF Bad
      <4> QED
        BY <1>1, <1>2, <3>1
    <3>3. ASSUME NEW u \in T, Inside(c, u) PROVE FALSE
      <4>1. u \in Node /\ Inside(c, a) /\ ~Inside(a, u)
        BY <1>2, <2>3
      <4>2. Within(a, u) \/ Within(u, a) \/ Apart(a, u)
        BY <1>2, <4>1, OrderFacts
      <4>3. ~Apart(a, u)
        <5>1. Units(c) # {} /\ Units(c) \subseteq Units(a) /\ Units(c) \subseteq Units(u)
          BY <3>1, <3>3, <4>1, EndsFacts DEF Inside, Within
        <5> QED
          BY <5>1 DEF Apart
      <4>4. u # a
        BY <1>2, <1>5, FourCases
      <4>5. Inside(u, a)
        BY <4>1, <4>2, <4>3, <4>4 DEF Inside
      <4>6. Within(u, l) \/ Within(u, r)
        BY <2>3, <4>1, <4>5
      <4>7. Within(u, c)
        <5>1. Units(c) # {} /\ Units(c) \subseteq Units(u)
          BY <3>1, <3>3, EndsFacts DEF Inside, Within
        <5> QED
          BY <2>3, <4>6, <5>1 DEF Apart, Within
      <4> QED
        BY <3>1, <3>3, <4>1, <4>7, OrderFacts DEF Inside
    <3> QED
      BY <3>1, <3>2, <3>3
  <2>6. lon[l] \in Nat /\ lon[r] \in Nat
    BY <2>3, FilledFacts
  <2>7. lon[a] \in {lon[l], lon[r]} /\ lon[l] <= lon[a] /\ lon[r] <= lon[a] /\ lon[a] \in Nat
    BY <2>4, <2>6 DEF Larger
  <2>8. ASSUME NEW k \in Node, Within(k, a), Off(k, T) PROVE Width[k] <= lon[a]
    <3>1. k # a
      BY <1>2, <1>5, <2>8, FourCases
    <3>2. PICK c \in {l, r} : Within(k, c)
      BY <2>3, <2>8, <3>1 DEF Inside
    <3>3. Width[k] <= lon[c] /\ Width[k] \in Nat
      BY <2>5, <2>8, <3>2, UnitsFacts DEF Largest
    <3> QED
      BY <2>6, <2>7, <3>2, <3>3
  <2>9. lon[a] = 0 \/ \E k \in Node : Within(k, a) /\ Off(k, T) /\ Width[k] = lon[a]
    <3>1. PICK c \in {l, r} : lon[a] = lon[c]
      BY <2>7
    <3>2. Within(c, a)
      BY <2>3 DEF Inside
    <3> QED
      BY <2>5, <3>1, <3>2 DEF Largest, Within
  <2> QED
    BY <1>2, <2>8, <2>9 DEF Largest
<1> QED
  BY <1>2, <1>3, <1>4, <1>5, FourCases

\* Types and places: no loop leaves the tree, and no node claims more than it
\* has (heap.c:145, 172 and 197).
THEOREM TypeCorrect == Spec => []TypeOK
<1>1. Inv => TypeOK
  BY DEF Inv, TypeOK, Filled, Placement
<1> QED
  BY <1>1, SpecInv, PTL

LEMMA TakenApart == Inv => \A t, u \in Taken : t # u => Apart(t, u)
  BY DEF Inv, TreeKnown, Known

\* Blocks do not overlap, whatever was allocated and released before, and are
\* as large as asked for: kalloc may clear all units of its block
\* (heap.c:69-75).
THEOREM BlocksDisjoint == Spec => []BlocksApart
<1>1. Inv => BlocksApart
  <2> SUFFICES ASSUME Inv PROVE BlocksApart
    OBVIOUS
  <2>1. want <= size * Unit
    BY DEF Inv, SizesKnown
  <2>2. ASSUME NEW b \in blocks
        PROVE  \E t \in Taken : b = BlockOf(t) /\ UnitsOf(b) = Units(t)
    BY BlockFacts DEF Inv, BlocksKnown, Taken
  <2>3. \A t \in Taken : Units(t) \subseteq 0 .. Size - 1
    <3> TAKE t \in Taken
    <3>1. t \in Node
      BY DEF Taken
    <3> QED
      BY <3>1, UnitsFacts, HeapAssumption
  <2>4. ASSUME NEW b \in blocks, NEW c \in blocks \ {b}
        PROVE  UnitsOf(b) \intersect UnitsOf(c) = {}
    BY <2>2, TakenApart DEF Apart
  <2> QED
    BY <2>1, <2>2, <2>3, <2>4 DEF BlocksApart
<1> QED
  BY <1>1, SpecInv, PTL

\* Between calls longest is exact at every node, and a request is refused only
\* when no free block is large enough (heap.c:134, 174 and 215).
THEOREM LongestIsExact == Spec => []LongestExact
<1>1. Inv => LongestExact
  <2> SUFFICES ASSUME Inv, pc \in {"ready", "panicked"} PROVE LongestExact
    BY DEF LongestExact
  <2>1. Filled(longest) /\ Known(longest, Taken, {}) /\ BlocksKnown
    BY DEF Inv, TreeKnown, Stale
  <2>2. ASSUME NEW i \in Node, \E t \in Taken : Inside(i, t)
        PROVE  longest[i] = Width[i]
    BY <2>1, <2>2 DEF Known
  <2>3. ASSUME NEW i \in Node, ~\E t \in Taken : Inside(i, t)
        PROVE  longest[i] = Max({Width[j] : j \in {k \in Node : Within(k, i) /\ Free(k)}} \union {0})
    <3> DEFINE S == {Width[j] : j \in {k \in Node : Within(k, i) /\ Free(k)}} \union {0}
               x == longest[i]
    <3>1. x \in Nat
      BY <2>1, FilledFacts
    <3>2. x \in S
      BY <2>1, <2>3, LongestIsLargest, FreeIsOff
    <3>3. \A y \in S : y \in Nat /\ x >= y
      <4>1. \A k \in Node : Within(k, i) /\ Free(k) => Width[k] <= x
        BY <2>1, <2>3, LongestIsLargest, FreeIsOff
      <4> QED
        BY <3>1, <4>1, UnitsFacts
    <3>4. Max(S) = CHOOSE z \in S : \A y \in S : z >= y
      BY DEF Max
    <3> HIDE DEF S, x
    <3>5. Max(S) \in S /\ \A y \in S : Max(S) >= y
      BY <3>2, <3>3, <3>4
    <3>6. Max(S) = x
      <4>1. Max(S) \in Nat /\ x >= Max(S) /\ Max(S) >= x
        BY <3>2, <3>3, <3>5
      <4>2. \A m, n \in Nat : m >= n /\ n >= m => m = n
        BY ONLY SMT
      <4> QED
        BY <3>1, <4>1, <4>2
    <3> QED
      BY <3>6 DEF S, x
  <2>4. ASSUME pc = "panicked", NEW i \in Node, Free(i)
        PROVE  Width[i] < size
    <3>1. longest[0] < size /\ size \in Nat
      BY <2>4 DEF Inv, LoopKnown, SizesKnown
    <3>2. 0 \in Node /\ Within(i, 0) /\ \A t \in Taken : ~Inside(0, t)
      BY RootFacts DEF Inside, Taken
    <3>3. Off(i, Taken)
      BY <2>1, <2>4, FreeIsOff
    <3>4. Width[i] <= longest[0] /\ longest[0] \in Nat
      BY <2>1, <3>2, <3>3, LongestIsLargest, FilledFacts
    <3> QED
      BY <3>1, <3>4, UnitsFacts
  <2> QED
    BY <2>1, <2>2, <2>3, <2>4, FreeIsOff DEF LongestExact
<1> QED
  BY <1>1, SpecInv, PTL

\* Two nodes that are apart lie on different sides of some node.
LEMMA PartingFacts ==
  ASSUME NEW k \in Node, NEW j \in Node, Apart(k, j)
  PROVE  \E a \in Node :
           /\ Left(a) \in Node /\ Right(a) \in Node
           /\ \/ Within(k, Left(a)) /\ Within(j, Right(a))
              \/ Within(k, Right(a)) /\ Within(j, Left(a))
<1> DEFINE Both == {a \in Node : Within(k, a) /\ Within(j, a)}
<1>1. PICK a \in Both : \A c \in Both : c <= a
  <2>1. 2 * Size - 2 \in Nat /\ Both \subseteq 0 .. 2 * Size - 2 /\ 0 \in Both
    BY RootFacts, HeapAssumption DEF Node
  <2> HIDE DEF Both
  <2> QED
    BY <2>1, GreatestNat
<1>2. a \in Node /\ a \in Nat /\ Within(k, a) /\ Within(j, a)
  BY <1>1 DEF Node
<1>3. a # k /\ a # j
  <2>1. a = k => ~Apart(j, k)
    BY <1>2, OrderFacts
  <2>2. a = j => ~Apart(k, j)
    BY <1>2, OrderFacts
  <2>3. Apart(j, k)
    BY DEF Apart
  <2> QED
    BY <2>1, <2>2, <2>3
<1>4. Width[a] # 1
  <2>1. Width[k] <= Width[a] /\ Width[k] # Width[a] /\ Width[k] \in Nat \ {0} /\ Width[a] \in Nat
    BY <1>2, <1>3, OrderFacts, UnitsFacts
  <2> QED
    BY <2>1
<1>5. /\ Left(a) \in Node /\ Right(a) \in Node
      /\ Within(k, Left(a)) \/ Within(k, Right(a))
      /\ Within(j, Left(a)) \/ Within(j, Right(a))
  BY <1>2, <1>3, <1>4, SplitFacts DEF Inside
<1>6. ASSUME NEW c \in {Left(a), Right(a)} PROVE ~(Within(k, c) /\ Within(j, c))
  <2>1. c \in Node /\ a < c /\ c \in Nat
    BY <1>2, <1>5, ChildFacts DEF Node
  <2>2. c \notin Both
    <3> HIDE DEF Both
    <3> QED
      BY <1>1, <1>2, <2>1
  <2> QED
    BY <2>1, <2>2
<1> QED
  BY <1>2, <1>5, <1>6

\* Large blocks are cut last: a block is cut from the largest one only when no
\* other has room for it, or another one is as large (heap.c:148).
THEOREM LargeBlocksLast == Spec => []KeepsLarge
<1>1. Inv => KeepsLarge
  <2> DEFINE others == {Width[i] : i \in {j \in MaximalFree : ~Within(index, j)}}
             top == longest[0]
  <2> SUFFICES ASSUME Inv, pc = "descend", NEW j \in MaximalFree, ~Within(index, j), Width[j] >= size
               PROVE  top \in others
    BY DEF KeepsLarge
  <2>1. /\ Filled(longest) /\ Known(longest, Taken, {}) /\ BlocksKnown /\ SmallFirst(index, size)
        /\ size \in Nat \ {0} /\ index \in Node
    BY DEF Inv, TreeKnown, Stale, LoopKnown, SizesKnown, Placement
  <2>2. \A i \in Node : Free(i) <=> Off(i, Taken)
    BY <2>1, FreeIsOff
  <2>3. 0 \in Node /\ (\A i \in Node : Within(i, 0)) /\ ~\E t \in Taken : Inside(0, t)
    <3>1. j \in Node
      BY DEF MaximalFree
    <3>2. 0 \in Node
      BY <3>1, RootFacts
    <3>3. \A i \in Node : Within(i, 0)
      BY RootFacts
    <3>4. \A i \in Node : ~Inside(0, i)
      BY RootFacts DEF Inside
    <3> QED
      BY <3>2, <3>3, <3>4 DEF Taken
  <2>4. /\ \A k \in Node : Free(k) => Width[k] <= top
        /\ top = 0 \/ \E k \in Node : Free(k) /\ Width[k] = top
        /\ top \in Nat
    BY <2>1, <2>2, <2>3, LongestIsLargest, FilledFacts
  <2>5. /\ j \in Node /\ Free(j) /\ Width[j] \in Nat
        /\ \A k \in Node : Free(k) /\ Within(j, k) => k = j
    BY UnitsFacts DEF MaximalFree
  <2>6. \A k \in Node : Free(k) /\ Width[k] = top => k \in MaximalFree
    <3> SUFFICES ASSUME NEW k \in Node, Free(k), Width[k] = top, NEW m \in Node, Free(m), Within(k, m)
                 PROVE  m = k
      BY DEF MaximalFree
    <3>1. Width[k] <= Width[m] /\ Width[m] <= top /\ Width[m] \in Nat
      BY <2>4, OrderFacts, UnitsFacts
    <3>2. Width[k] = Width[m]
      BY <2>4, <3>1
    <3> QED
      BY <3>2, OrderFacts
  <2>7. PICK k \in Node : Free(k) /\ Width[k] = top
    <3>1. top # 0
      <4>1. Width[j] <= top
        BY <2>4, <2>5
      <4> HIDE DEF top
      <4> QED
        BY <2>1, <2>4, <2>5, <4>1
    <3> QED
      BY <2>4, <3>1
  <2>8. CASE ~Within(index, k)
    BY <2>6, <2>7, <2>8
  <2>9. CASE Within(index, k)
    <3>1. Apart(k, j)
      <4>1. k # j
        BY <2>9
      <4>2. ~Within(j, k)
        BY <2>5, <2>7, <4>1
      <4>3. ~Within(k, j)
        BY <2>9 DEF Within
      <4> QED
        BY <2>5, <2>7, <4>2, <4>3, OrderFacts
    <3>2. PICK a \in Node :
            /\ Left(a) \in Node /\ Right(a) \in Node
            /\ \/ Within(k, Left(a)) /\ Within(j, Right(a))
               \/ Within(k, Right(a)) /\ Within(j, Left(a))
      BY <2>5, <2>7, <3>1, PartingFacts
    <3>3. PICK c \in Node, s \in Node :
            /\ {c, s} = {Left(a), Right(a)} /\ Within(k, c) /\ Within(j, s)
            /\ longest[s] >= size => longest[c] <= longest[s]
      <4>1. ASSUME NEW c \in {Left(a), Right(a)}, Within(k, c) PROVE Within(index, c)
        BY <2>9, <4>1 DEF Within
      <4>2. CASE Within(k, Left(a)) /\ Within(j, Right(a))
        BY <2>1, <3>2, <4>1, <4>2 DEF SmallFirst
      <4>3. CASE Within(k, Right(a)) /\ Within(j, Left(a))
        BY <2>1, <3>2, <4>1, <4>3 DEF SmallFirst
      <4> QED
        BY <3>2, <4>2, <4>3
    <3>4. ASSUME NEW m \in Node, Free(m), NEW n \in Node, Within(m, n)
          PROVE  ~\E t \in Taken : Inside(n, t)
      <4> SUFFICES ASSUME NEW t \in Taken, Inside(n, t) PROVE FALSE
        OBVIOUS
      <4>1. Within(m, t) /\ t \in Node
        BY <3>4 DEF Inside, Within, Taken
      <4>2. ~Apart(m, t)
        BY <4>1, OrderFacts
      <4> QED
        BY <2>2, <3>4, <4>2 DEF Off
    <3>5. Width[j] <= longest[s] /\ top <= longest[c]
      BY <2>1, <2>2, <2>5, <2>7, <3>3, <3>4, LongestIsLargest
    <3>6. longest[s] \in Nat /\ longest[c] \in Nat
      BY <2>1, <3>3, FilledFacts
    <3>7. PICK m \in Node : Within(m, s) /\ Free(m) /\ Width[m] = longest[s]
      <4>1. longest[s] # 0
        BY <2>1, <2>5, <3>5, <3>6
      <4> QED
        BY <2>1, <2>2, <2>5, <3>3, <3>4, <4>1, LongestIsLargest
    <3>8. Width[m] = top
      <4>1. Width[m] <= top /\ longest[c] <= longest[s]
        BY <2>1, <2>4, <2>5, <3>3, <3>5, <3>6, <3>7
      <4> HIDE DEF top
      <4> QED
        BY <2>4, <3>5, <3>6, <3>7, <4>1
    <3>9. ~Within(index, m)
      <4> SUFFICES ASSUME Within(index, m) PROVE FALSE
        OBVIOUS
      <4>1. Within(index, c) /\ Within(index, s)
        BY <2>9, <3>3, <3>7 DEF Within
      <4>2. Apart(Left(a), Right(a)) /\ Units(index) # {}
        BY <2>1, <3>2, SplitFacts, EndsFacts
      <4>3. Apart(c, s)
        BY <2>5, <3>3, <4>2, OrderFacts DEF Apart
      <4> QED
        BY <4>1, <4>2, <4>3 DEF Apart, Within
    <3> QED
      BY <2>6, <3>7, <3>8, <3>9
  <2> QED
    BY <2>8, <2>9
<1> QED
  BY <1>1, SpecInv, PTL
==============================================================================
