---------------------------- MODULE MappingProofs ----------------------------
(***************************************************************************)
(* Proofs about Mapping, for page tables of any size, any memory, any      *)
(* layout of the kernel and any set of ELF files.                          *)
(***************************************************************************)
EXTENDS Mapping, SequenceTheorems, WellFoundedInduction, TLAPS

(* Numbers and sequences.                                                  *)

LEMMA LeastNat ==
  ASSUME NEW B, B \subseteq Nat, B # {}
  PROVE  \E k \in B : \A j \in B : k <= j
<1>1. PICK k \in B : \A j \in B : ~(<<j, k>> \in OpToRel(<, Nat))
  BY WFMin, NatLessThanWellFounded
<1>2. \A j \in B : ~(j < k)
  BY <1>1 DEF OpToRel
<1> QED
  BY <1>2

LEMMA DivFacts ==
  ASSUME NEW a \in Nat, NEW n \in Nat, n > 0
  PROVE  /\ a \div n \in Nat /\ a % n \in 0 .. n - 1
         /\ a = n * (a \div n) + (a % n)
<1>1. a % n \in 0 .. n - 1
  OBVIOUS
<1>2. a \div n \in Nat
  OBVIOUS
<1>3. a = n * (a \div n) + (a % n)
  OBVIOUS
<1> QED
  BY <1>1, <1>2, <1>3

LEMMA QuotientIsUnique ==
  ASSUME NEW n \in Nat, n > 0, NEW q \in Int, NEW r \in 0 .. n - 1, NEW p \in Int, NEW s \in 0 .. n - 1,
         n * q + r = n * p + s
  PROVE  q = p /\ r = s
  OBVIOUS

LEMMA ConcatFacts ==
  ASSUME NEW S, NEW a \in Seq(S), NEW b \in Seq(S)
  PROVE  /\ a \o b \in Seq(S)
         /\ \A x : x \in Range(a \o b) <=> x \in Range(a) \/ x \in Range(b)
<1> DEFINE m == Len(a)
           n == Len(b)
           ab == a \o b
<1>1. /\ m \in Nat /\ DOMAIN a = 1 .. m
      /\ n \in Nat /\ DOMAIN b = 1 .. n
  BY LenProperties
<1>2. /\ ab \in Seq(S) /\ Len(ab) = m + n
      /\ \A i \in 1 .. m + n : ab[i] = IF i <= m THEN a[i] ELSE b[i - m]
  BY ConcatProperties
<1>3. DOMAIN ab = 1 .. m + n
  BY <1>2, LenProperties
<1> HIDE DEF m, n, ab
<1>4. \A i \in 1 .. m : i \in 1 .. m + n /\ ab[i] = a[i]
  BY <1>1, <1>2
<1>5. \A i \in 1 .. n : m + i \in 1 .. m + n /\ ab[m + i] = b[i]
  BY <1>1, <1>2
<1>6. ASSUME NEW i \in 1 .. m + n
      PROVE  ab[i] \in Range(a) \union Range(b)
  <2>1. CASE i <= m
    <3>1. i \in 1 .. m /\ ab[i] = a[i]
      BY <1>1, <1>2, <2>1
    <3> QED
      BY <1>1, <3>1 DEF Range
  <2>2. CASE ~(i <= m)
    <3>1. i - m \in 1 .. n /\ ab[i] = b[i - m]
      BY <1>1, <1>2, <2>2
    <3> QED
      BY <1>1, <3>1 DEF Range
  <2> QED
    BY <2>1, <2>2
<1>7. Range(ab) \subseteq Range(a) \union Range(b)
  BY <1>3, <1>6 DEF Range
<1>8. Range(a) \subseteq Range(ab) /\ Range(b) \subseteq Range(ab)
  BY <1>1, <1>3, <1>4, <1>5 DEF Range
<1> QED
  BY <1>2, <1>7, <1>8 DEF ab

\* FlattenSeq is defined by recursion: there is a function that solves the
\* equation, and it collects the elements of all sequences.
LEMMA FlattenFacts ==
  ASSUME NEW S, NEW ss \in Seq(Seq(S))
  PROVE  /\ FlattenSeq(ss) \in Seq(S)
         /\ \A x : x \in Range(FlattenSeq(ss)) <=> \E i \in DOMAIN ss : x \in Range(ss[i])
<1> DEFINE n == Len(ss)
           Step(f, i) == IF i = 1 THEN ss[i] ELSE f[i-1] \o ss[i]
           Flat == CHOOSE f : f = [i \in 1 .. n |-> IF i = 1 THEN ss[i] ELSE f[i-1] \o ss[i]]
           Bad == {k \in Nat : ~\E f : f = [i \in 1 .. k |-> Step(f, i)]}
           Wrong == {k \in 1 .. n : ~(/\ Flat[k] \in Seq(S)
                                     /\ \A x : x \in Range(Flat[k]) <=> \E i \in 1 .. k : x \in Range(ss[i]))}
<1>1. FlattenSeq(ss) = IF n = 0 THEN ss ELSE Flat[n]
  BY DEF FlattenSeq
<1>2. n \in Nat /\ DOMAIN ss = 1 .. n /\ \A i \in 1 .. n : ss[i] \in Seq(S)
  BY LenProperties, ElementOfSeq
<1>3. Bad = {}
  <2> SUFFICES ASSUME Bad # {} PROVE FALSE
    OBVIOUS
  <2>1. PICK k \in Bad : k \in Nat /\ \A j \in Bad : k <= j
    <3> HIDE DEF Step
    <3>1. Bad \subseteq Nat
      OBVIOUS
    <3> HIDE DEF Bad
    <3> QED
      BY <3>1, LeastNat
  <2>2. k # 0
    <3> SUFFICES ASSUME k = 0 PROVE FALSE
      OBVIOUS
    <3> DEFINE g == [i \in {} |-> i]
    <3>1. 1 .. 0 = {}
      OBVIOUS
    <3>2. g = [i \in 1 .. 0 |-> Step(g, i)]
      BY <3>1
    <3> QED
      BY <2>1, <3>2
  <2>3. k - 1 \in Nat /\ k - 1 \notin Bad
    <3> HIDE DEF Bad
    <3> QED
      BY <2>1, <2>2
  <2>4. PICK g : g = [i \in 1 .. k - 1 |-> Step(g, i)]
    BY <2>3
  <2> DEFINE h == [i \in 1 .. k |-> IF i = k THEN Step(g, k) ELSE g[i]]
  <2>5. \A i \in 1 .. k : h[i] = Step(h, i)
    <3> SUFFICES ASSUME NEW i \in 1 .. k PROVE h[i] = Step(h, i)
      OBVIOUS
    <3>1. i # 1 => i - 1 \in 1 .. k - 1
      BY <2>1
    <3>2. i # 1 => h[i - 1] = g[i - 1]
      BY <3>1
    <3>3. i # k => g[i] = Step(g, i)
      <4>1. i # k => i \in 1 .. k - 1
        BY <2>1
      <4> QED
        BY <2>4, <4>1
    <3> QED
      BY <3>2, <3>3
  <2>6. h = [i \in 1 .. k |-> Step(h, i)]
    <3> HIDE DEF Step
    <3> QED
      BY <2>5
  <2> QED
    BY <2>1, <2>6
<1>4. Flat = [i \in 1 .. n |-> Step(Flat, i)]
  BY <1>2, <1>3
<1>5. Wrong = {}
  <2> SUFFICES ASSUME Wrong # {} PROVE FALSE
    OBVIOUS
  <2> HIDE DEF Flat
  <2>1. PICK k \in Wrong : \A j \in Wrong : k <= j
    <3>1. Wrong \subseteq Nat
      BY <1>2
    <3> HIDE DEF Wrong
    <3> QED
      BY <3>1, LeastNat
  <2>2. k \in 1 .. n /\ Flat[k] = Step(Flat, k) /\ ss[k] \in Seq(S)
    BY <1>2, <1>4, <2>1
  <2>3. CASE k = 1
    BY <1>2, <2>1, <2>2, <2>3
  <2>4. CASE k # 1
    <3>1. k - 1 \in 1 .. n /\ k - 1 \notin Wrong
      <4> HIDE DEF n, Wrong
      <4> QED
        BY <1>2, <2>1, <2>2, <2>4
    <3>2. /\ Flat[k-1] \in Seq(S)
          /\ \A x : x \in Range(Flat[k-1]) <=> \E i \in 1 .. k-1 : x \in Range(ss[i])
      BY <3>1
    <3>3. /\ Flat[k] \in Seq(S)
          /\ \A x : x \in Range(Flat[k]) <=> x \in Range(Flat[k-1]) \/ x \in Range(ss[k])
      BY <2>2, <2>4, <3>2, ConcatFacts
    <3>4. 1 .. k = (1 .. k-1) \union {k}
      BY <1>2, <2>2
    <3> QED
      BY <2>1, <3>2, <3>3, <3>4
  <2> QED
    BY <2>3, <2>4
<1> HIDE DEF Flat
<1>6. CASE n = 0
  <2>1. ss = << >>
    BY <1>6, EmptySeq
  <2> QED
    BY <1>1, <1>2, <1>6, <2>1, EmptySeq DEF Range
<1>7. CASE n # 0
  <2>1. n \in 1 .. n /\ n \notin Wrong
    <3> HIDE DEF n, Wrong
    <3> QED
      BY <1>2, <1>5, <1>7
  <2> QED
    BY <1>1, <1>2, <1>7, <2>1
<1> QED
  BY <1>6, <1>7

LEMMA SeqOfFunction ==
  ASSUME NEW S, NEW n \in Int, NEW f \in [1 .. n -> S]
  PROVE  f \in Seq(S) /\ DOMAIN f = 1 .. n
<1>1. CASE n \in Nat
  BY <1>1
<1>2. CASE n \notin Nat
  <2>1. 1 .. n = 1 .. 0
    BY <1>2
  <2> QED
    BY <2>1
<1> QED
  BY <1>1, <1>2
------------------------------------------------------------------------------
(* Pages of segments.                                                      *)

LEMMA ConstantFacts ==
  /\ PageSize \in Nat /\ PageSize > 0 /\ KernelOffset \in Nat /\ MemoryEnd \in Nat
  /\ Fan[0] \in 1 .. PageSize /\ Fan[1] \in 1 .. PageSize /\ Fan[2] \in 1 .. PageSize
  /\ Zero \in Word /\ Zero \notin Pte /\ Frame \subseteq Ppn /\ Ppn \subseteq Nat
<1>1. 0 \in Level /\ 1 \in Level /\ 2 \in Level
  BY DEF Level
<1>2. PageSize \in Nat /\ Fan[0] \in 1 .. PageSize /\ Fan[1] \in 1 .. PageSize /\ Fan[2] \in 1 .. PageSize
  BY <1>1, MappingAssumption
<1>3. PageSize > 0
  BY <1>2
<1> QED
  BY <1>2, <1>3, MappingAssumption DEF Ppn

LEMMA IndexFacts ==
  ASSUME NEW v \in Nat
  PROVE  GetVpnLevels(v) \in Cell \X Cell \X Cell
<1> DEFINE f0 == Fan[0]
           f1 == Fan[1]
           f2 == Fan[2]
<1>1. /\ f0 \in Nat /\ f0 > 0 /\ f0 <= PageSize
      /\ f1 \in Nat /\ f1 > 0 /\ f1 <= PageSize
      /\ f2 \in Nat /\ f2 > 0 /\ f2 <= PageSize
      /\ PageSize \in Nat
  BY ConstantFacts
<1>2. GetVpnLevels(v) = <<(v \div (f1 * f2)) % f0, (v \div f2) % f1, v % f2>>
  BY DEF GetVpnLevels
<1> HIDE DEF f0, f1, f2
<1>3. f1 * f2 \in Nat /\ f1 * f2 > 0
  BY <1>1
<1>4. v \div (f1 * f2) \in Nat /\ v \div f2 \in Nat
  BY <1>1, <1>3, DivFacts
<1>5. /\ (v \div (f1 * f2)) % f0 \in 0 .. f0 - 1
      /\ (v \div f2) % f1 \in 0 .. f1 - 1
      /\ v % f2 \in 0 .. f2 - 1
  BY <1>1, <1>4, DivFacts
<1>6. 0 .. f0 - 1 \subseteq Cell /\ 0 .. f1 - 1 \subseteq Cell /\ 0 .. f2 - 1 \subseteq Cell
  BY <1>1 DEF Cell
<1> QED
  BY <1>2, <1>5, <1>6

LinearPage ==
  [kind : {"linear"}, vpn : KernelOffset .. KernelOffset + MemoryEnd - 1,
   flags : {flags \in SUBSET Rights : Usable(flags)}]
UserFlags == {flags \in SUBSET Flag : "U" \in flags}
CopiedPage == [kind : {"copied"}, vpn : Nat, flags : UserFlags, words : [Cell -> Word]]
FramedPage == [kind : {"framed"}, vpn : Nat, flags : UserFlags]
UserPage == CopiedPage \union FramedPage

LEMMA SegmentFacts ==
  ASSUME NEW seg \in Segment
  PROVE  First(seg) \in Nat /\ Count(seg) \in Int
<1>1. seg.start \in Nat /\ seg.end - 1 \in Int /\ PageSize \in Nat /\ PageSize > 0
  BY ConstantFacts DEF Segment
<1> QED
  BY <1>1, DivFacts DEF First, Count

LEMMA LinearPagesFacts ==
  ASSUME NEW seg \in LinearSegment
  PROVE  LinearPages(seg) \in Seq(LinearPage)
<1>1. seg \in Segment /\ seg.flags \in {flags \in SUBSET Rights : Usable(flags)}
  BY DEF LinearSegment
<1>2. First(seg) \in Nat /\ Count(seg) \in Int
  BY <1>1, SegmentFacts
<1>3. /\ seg.start \in Nat /\ seg.end \in Nat
      /\ KernelOffset * PageSize <= seg.start /\ seg.end <= (KernelOffset + MemoryEnd) * PageSize
  BY DEF LinearSegment, Segment
<1>4. ASSUME NEW i \in 1 .. Count(seg)
      PROVE  First(seg) + i - 1 \in KernelOffset .. KernelOffset + MemoryEnd - 1
  <2> DEFINE last == (seg.end - 1) \div PageSize
  <2>1. seg.end > 0
    <3> SUFFICES ASSUME seg.end = 0 PROVE FALSE
      BY <1>3
    <3>1. (0 - 1) \div PageSize = 0 - 1
      BY ConstantFacts
    <3> QED
      BY <1>2, <3>1 DEF Count
  <2>2. last \in Nat /\ PageSize * last <= seg.end - 1
    <3>1. seg.end - 1 \in Nat
      BY <1>3, <2>1
    <3> QED
      BY <3>1, ConstantFacts, DivFacts
  <2>3. last < KernelOffset + MemoryEnd
    <3> SUFFICES ASSUME last >= KernelOffset + MemoryEnd PROVE FALSE
      BY <2>2, ConstantFacts
    <3>1. PageSize * last >= PageSize * (KernelOffset + MemoryEnd)
      BY <2>2, ConstantFacts
    <3> QED
      BY <1>3, <2>2, <3>1, ConstantFacts
  <2>4. First(seg) >= KernelOffset
    <3> DEFINE a == seg.start
               q == a \div PageSize
    <3>1. q \in Nat /\ a = PageSize * q + (a % PageSize) /\ a % PageSize \in 0 .. PageSize - 1
      BY <1>3, ConstantFacts, DivFacts
    <3>2. q >= KernelOffset
      <4> SUFFICES ASSUME q + 1 <= KernelOffset PROVE FALSE
        BY <3>1, ConstantFacts
      <4>1. PageSize * (q + 1) <= PageSize * KernelOffset
        BY <3>1, ConstantFacts
      <4>2. a < PageSize * (q + 1)
        BY <3>1, ConstantFacts
      <4> QED
        BY <1>3, <4>1, <4>2, ConstantFacts
    <3> QED
      BY <3>2 DEF First
  <2>5. i <= last + 1 - First(seg)
    BY DEF Count
  <2> HIDE DEF last
  <2> QED
    BY <1>2, <2>2, <2>3, <2>4, <2>5, ConstantFacts
<1>5. LinearPages(seg) \in [1 .. Count(seg) -> LinearPage]
  BY <1>1, <1>4 DEF LinearPages, LinearPage
<1> QED
  BY <1>2, <1>5, SeqOfFunction

LEMMA UserPagesFacts ==
  ASSUME NEW seg \in Segment, "U" \in seg.flags
  PROVE  /\ FramedPages(seg) \in Seq(UserPage)
         /\ \A data \in Seq(Word) : CopiedPages(seg, data) \in Seq(UserPage)
<1>1. First(seg) \in Nat /\ Count(seg) \in Int /\ seg.flags \in UserFlags
  BY SegmentFacts DEF Segment, UserFlags
<1>2. \A i \in 1 .. Count(seg) : First(seg) + i - 1 \in Nat
  BY <1>1
<1>3. FramedPages(seg) \in [1 .. Count(seg) -> UserPage]
  BY <1>1, <1>2 DEF FramedPages, UserPage, FramedPage
<1>4. ASSUME NEW data \in Seq(Word)
      PROVE  CopiedPages(seg, data) \in [1 .. Count(seg) -> UserPage]
  <2> DEFINE word(i, c) == IF (i - 1) * PageSize + c + 1 <= Len(data)
                           THEN data[(i - 1) * PageSize + c + 1] ELSE Zero
  <2>1. ASSUME NEW i \in 1 .. Count(seg), NEW c \in Cell
        PROVE  word(i, c) \in Word
    <3>1. (i - 1) * PageSize + c + 1 \in Nat /\ (i - 1) * PageSize + c + 1 > 0
      <4>1. i - 1 \in Nat /\ c \in Nat
        BY <1>1 DEF Cell
      <4>2. (i - 1) * PageSize \in Nat
        BY <4>1, ConstantFacts
      <4> QED
        BY <4>1, <4>2
    <3>2. Len(data) \in Nat /\ DOMAIN data = 1 .. Len(data)
      BY LenProperties
    <3> QED
      BY <3>1, <3>2, ElementOfSeq, ConstantFacts
  <2>2. CopiedPages(seg, data) =
          [i \in 1 .. Count(seg) |->
             [kind |-> "copied", vpn |-> First(seg) + i - 1, flags |-> seg.flags,
              words |-> [c \in Cell |-> word(i, c)]]]
    BY DEF CopiedPages
  <2> HIDE DEF word
  <2>3. \A i \in 1 .. Count(seg) : [c \in Cell |-> word(i, c)] \in [Cell -> Word]
    BY <2>1
  <2>4. \A i \in 1 .. Count(seg) :
          [kind |-> "copied", vpn |-> First(seg) + i - 1, flags |-> seg.flags,
           words |-> [c \in Cell |-> word(i, c)]] \in UserPage
    BY <1>1, <1>2, <2>3 DEF UserPage, CopiedPage
  <2> QED
    BY <2>2, <2>4
<1> QED
  BY <1>1, <1>3, <1>4, SeqOfFunction

LEMMA PagesFacts ==
  /\ KernelPages \in Seq(LinearPage) /\ DevicePages \in Seq(LinearPage)
  /\ \A p : p \in Range(KernelPages) <=>
       \E i \in DOMAIN KernelSegs : p \in Range(LinearPages(KernelSegs[i]))
<1>1. ASSUME NEW segs \in Seq(LinearSegment)
      PROVE  /\ FlattenSeq([i \in DOMAIN segs |-> LinearPages(segs[i])]) \in Seq(LinearPage)
             /\ \A p : p \in Range(FlattenSeq([i \in DOMAIN segs |-> LinearPages(segs[i])])) <=>
                  \E i \in DOMAIN segs : p \in Range(LinearPages(segs[i]))
  <2> DEFINE pages == [i \in DOMAIN segs |-> LinearPages(segs[i])]
  <2>1. Len(segs) \in Nat /\ DOMAIN segs = 1 .. Len(segs)
    BY LenProperties
  <2>2. \A i \in DOMAIN segs : LinearPages(segs[i]) \in Seq(LinearPage)
    BY <2>1, ElementOfSeq, LinearPagesFacts
  <2>3. pages \in Seq(Seq(LinearPage))
    <3>1. pages \in [1 .. Len(segs) -> Seq(LinearPage)]
      BY <2>1, <2>2
    <3> QED
      BY <2>1, <3>1, SeqOfFunction
  <2>4. DOMAIN pages = DOMAIN segs /\ \A i \in DOMAIN segs : pages[i] = LinearPages(segs[i])
    OBVIOUS
  <2> HIDE DEF pages
  <2>5. /\ FlattenSeq(pages) \in Seq(LinearPage)
        /\ \A p : p \in Range(FlattenSeq(pages)) <=> \E i \in DOMAIN pages : p \in Range(pages[i])
    BY <2>3, FlattenFacts
  <2> QED
    BY <2>4, <2>5 DEF pages
<1> QED
  BY <1>1, MappingAssumption DEF KernelPages, DevicePages

LEMMA ProgramPagesFacts ==
  ASSUME NEW e \in Program
  PROVE  /\ e.headers \in Seq(ProgHeader) /\ ProgramPages(e) \in Seq(UserPage)
         /\ \A p : p \in Range(ProgramPages(e)) <=>
              \/ \E h \in Range(e.headers) : p \in Range(HeaderPages(h))
              \/ p \in Range(FramedPages(StackSeg))
<1> DEFINE hs == e.headers
           pages == [i \in DOMAIN hs |-> HeaderPages(hs[i])]
<1>1. hs \in Seq(ProgHeader)
  BY MappingAssumption
<1>2. Len(hs) \in Nat /\ DOMAIN hs = 1 .. Len(hs) /\ \A i \in DOMAIN hs : hs[i] \in ProgHeader
  BY <1>1, LenProperties, ElementOfSeq
<1>3. ASSUME NEW h \in ProgHeader
      PROVE  HeaderPages(h) \in Seq(UserPage)
  <2>1. LoadSegment(h) \in Segment /\ "U" \in LoadSegment(h).flags /\ h.data \in Seq(Word)
    BY DEF LoadSegment, Segment, ProgHeader, ConvertElfFlags, Flag
  <2> QED
    BY <2>1, UserPagesFacts, EmptySeq DEF HeaderPages
<1>4. pages \in Seq(Seq(UserPage))
  <2>1. pages \in [1 .. Len(hs) -> Seq(UserPage)]
    BY <1>2, <1>3
  <2> QED
    BY <1>2, <2>1, SeqOfFunction
<1>5. ProgramPages(e) = FlattenSeq(pages) \o FramedPages(StackSeg)
  BY DEF ProgramPages
<1>6. DOMAIN pages = DOMAIN hs /\ \A i \in DOMAIN hs : pages[i] = HeaderPages(hs[i])
  OBVIOUS
<1> HIDE DEF pages
<1>7. /\ FlattenSeq(pages) \in Seq(UserPage)
      /\ \A p : p \in Range(FlattenSeq(pages)) <=> \E i \in DOMAIN pages : p \in Range(pages[i])
  BY <1>4, FlattenFacts
<1>8. FramedPages(StackSeg) \in Seq(UserPage)
  BY UserPagesFacts, MappingAssumption
<1>9. /\ ProgramPages(e) \in Seq(UserPage)
      /\ \A p : p \in Range(ProgramPages(e)) <=>
           p \in Range(FlattenSeq(pages)) \/ p \in Range(FramedPages(StackSeg))
  BY <1>5, <1>7, <1>8, ConcatFacts
<1>10. \A p : (\E i \in DOMAIN pages : p \in Range(pages[i])) <=>
              \E h \in Range(hs) : p \in Range(HeaderPages(h))
  BY <1>6 DEF Range
<1> QED
  BY <1>1, <1>7, <1>9, <1>10
------------------------------------------------------------------------------
(* The inductive invariant.                                                *)

\* TypeOK, but for the place of findEntry.
Typed ==
  /\ mem \in [Frame -> [Cell -> Word \union Pte]]
  /\ taken \subseteq Frame
  /\ spaces \in Seq([root : taken, program : Program \union {KernelOnly}])
  /\ level \in Level
  /\ pc \in {"ready", "kernel", "program", "panicked", "depleted"}

\* A mapping is under construction, or was when the kernel panicked.
Building == ~(pc = "ready" \/ (pc = "depleted" /\ todo = << >>))

\* What the loops are about to enter.
PagesKnown ==
  /\ program \in Program \union {KernelOnly}
  /\ todo \in Seq(LinearPage \union UserPage)
  /\ pc = "ready" => todo = << >>
  /\ Building => root \in Frame

\* Frames by what they are for.  No table says which of them it is: a frame
\* is what the entries on the way to it make of it.
Points(t, c, f) == IsTable(mem[t][c]) /\ mem[t][c].ppn = f
Lends(t, c, f) == mem[t][c] \in Pte /\ "U" \in mem[t][c].flags /\ mem[t][c].ppn = f

Tops == {f \in Frame : \E i \in DOMAIN Roots : Roots[i] = f}
Middles == {f \in Frame : \E t \in Tops, c \in Cell : Points(t, c, f)}
Leaves == {f \in Frame : \E t \in Middles, c \in Cell : Points(t, c, f)}
Owned == {f \in Frame : \E t \in Leaves, c \in Cell : Lends(t, c, f)}

\* A frame has one use.
RolesApart ==
  /\ Tops \union Middles \union Leaves \union Owned \subseteq taken
  /\ Tops \intersect (Middles \union Leaves \union Owned) = {}
  /\ Middles \intersect (Leaves \union Owned) = {}
  /\ Leaves \intersect Owned = {}

\* Entries of the upper tables are 0 or for a table of the next level, those
\* of a leaf table 0 or for a page.
EntriesKnown ==
  /\ \A t \in Tops \union Middles, c \in Cell :
       mem[t][c] = Zero \/ (IsTable(mem[t][c]) /\ mem[t][c].ppn \in Frame)
  /\ \A t \in Leaves, c \in Cell :
       mem[t][c] = Zero \/ (/\ mem[t][c] \in Pte /\ mem[t][c].flags # {}
                            /\ "U" \in mem[t][c].flags => mem[t][c].ppn \in Frame)

\* There is one way to every table and to every page of a program.
OneWay ==
  /\ \A i, j \in DOMAIN Roots : Roots[i] = Roots[j] => i = j
  /\ \A t, u \in Tops \union Middles, c, d \in Cell, f \in Frame :
       Points(t, c, f) /\ Points(u, d, f) => t = u /\ c = d
  /\ \A t, u \in Leaves, c, d \in Cell, f \in Frame :
       Lends(t, c, f) /\ Lends(u, d, f) => t = u /\ c = d

Structure == RolesApart /\ EntriesKnown /\ OneWay

\* findEntry has come down the way to its page.
WalkKnown ==
  pc \in {"kernel", "program"} =>
    \/ level = 0 /\ table = root
    \/ /\ todo # << >>
       /\ \/ level = 1 /\ Points(root, GetVpnLevels(Page.vpn)[1], table)
          \/ level = 2 /\ \E f \in Frame : /\ Points(root, GetVpnLevels(Page.vpn)[1], f)
                                          /\ Points(f, GetVpnLevels(Page.vpn)[2], table)

Inv == Typed /\ PagesKnown /\ Structure /\ WalkKnown
------------------------------------------------------------------------------
\* The roots, one by one.
RootsKnown ==
  /\ Roots \in Seq(Frame) /\ Len(spaces) \in Nat
  /\ DOMAIN Roots = 1 .. Len(Roots)
  /\ Len(Roots) = IF Building THEN Len(spaces) + 1 ELSE Len(spaces)
  /\ \A i \in 1 .. Len(spaces) : Roots[i] = spaces[i].root
  /\ Building => Roots[Len(spaces) + 1] = root

LEMMA RootsFacts == Typed /\ PagesKnown => RootsKnown
<1> SUFFICES ASSUME Typed, PagesKnown PROVE RootsKnown
  OBVIOUS
<1> DEFINE n == Len(spaces)
           a == [i \in DOMAIN spaces |-> spaces[i].root]
           b == IF Building THEN <<root>> ELSE << >>
<1>1. /\ n \in Nat /\ DOMAIN spaces = 1 .. n
      /\ \A i \in 1 .. n : spaces[i] \in [root : taken, program : Program \union {KernelOnly}]
  BY LenProperties, ElementOfSeq DEF Typed
<1>2. a \in Seq(Frame) /\ Len(a) = n /\ \A i \in 1 .. n : a[i] = spaces[i].root
  <2>1. a \in [1 .. n -> Frame]
    BY <1>1 DEF Typed
  <2>2. a \in Seq(Frame) /\ DOMAIN a = 1 .. n
    BY <1>1, <2>1, SeqOfFunction
  <2>3. Len(a) = n
    BY <1>1, <2>2, LenProperties
  <2> QED
    BY <1>1, <2>2, <2>3
<1>3. b \in Seq(Frame) /\ Len(b) = (IF Building THEN 1 ELSE 0) /\ (Building => b[1] = root)
  BY DEF PagesKnown
<1>4. Roots = a \o b
  BY DEF Roots, Building
<1> HIDE DEF a, b, n
<1>5. /\ Roots \in Seq(Frame) /\ Len(Roots) = n + Len(b)
      /\ \A i \in 1 .. n + Len(b) : Roots[i] = IF i <= n THEN a[i] ELSE b[i - n]
  BY <1>2, <1>3, <1>4, ConcatProperties
<1>6. DOMAIN Roots = 1 .. Len(Roots)
  BY <1>5, LenProperties
<1>7. \A i \in 1 .. n : Roots[i] = spaces[i].root
  BY <1>1, <1>2, <1>3, <1>5
<1>8. Building => Roots[n + 1] = root
  <2> SUFFICES ASSUME Building PROVE Roots[n + 1] = root
    OBVIOUS
  <2>1. ASSUME NEW k, k = n + 1
        PROVE  Roots[k] = root
    <3>1. k \in 1 .. n + Len(b) /\ ~(k <= n) /\ k - n = 1
      BY <1>1, <1>3, <2>1
    <3>2. Roots[k] = b[k - n]
      BY <1>5, <3>1
    <3> QED
      BY <1>3, <3>1, <3>2
  <2> QED
    BY <2>1
<1> QED
  BY <1>1, <1>3, <1>5, <1>6, <1>7, <1>8 DEF RootsKnown, n

LEMMA SameRoots ==
  ASSUME UNCHANGED spaces, Building' <=> Building, Building => UNCHANGED root
  PROVE  Roots' = Roots
  BY DEF Roots, Building

LEMMA SameStructure ==
  ASSUME Structure, UNCHANGED mem, Roots' = Roots, taken \subseteq taken'
  PROVE  Structure' /\ Tops' = Tops /\ Middles' = Middles /\ Leaves' = Leaves
<1>1. \A t, c, f : (Points(t, c, f)' <=> Points(t, c, f)) /\ (Lends(t, c, f)' <=> Lends(t, c, f))
  BY DEF Points, Lends, IsTable
<1>2. Tops' = Tops
  BY DEF Tops
<1>3. Middles' = Middles
  BY <1>1, <1>2 DEF Middles
<1>4. Leaves' = Leaves
  BY <1>1, <1>3 DEF Leaves
<1>5. Owned' = Owned
  BY <1>1, <1>4 DEF Owned
<1>6. RolesApart'
  BY <1>2, <1>3, <1>4, <1>5 DEF Structure, RolesApart
<1>7. EntriesKnown'
  BY <1>2, <1>3, <1>4 DEF Structure, EntriesKnown, IsTable
<1>8. OneWay'
  BY <1>1, <1>2, <1>3, <1>4 DEF Structure, OneWay
<1> QED
  BY <1>2, <1>3, <1>4, <1>6, <1>7, <1>8 DEF Structure

LEMMA ExceptFacts ==
  ASSUME NEW V, NEW m \in [Frame -> [Cell -> V]], NEW t \in Frame, NEW i \in Cell, NEW e \in V
  PROVE  /\ [m EXCEPT ![t][i] = e] \in [Frame -> [Cell -> V]]
         /\ [m EXCEPT ![t][i] = e][t][i] = e
         /\ \A u \in Frame, c \in Cell : u # t \/ c # i => [m EXCEPT ![t][i] = e][u][c] = m[u][c]
  OBVIOUS

LEMMA ClearedFacts ==
  ASSUME Typed, NEW f \in Frame, f \notin taken
  PROVE  /\ Cleared(f) \in [Frame -> [Cell -> Word \union Pte]]
         /\ \A u \in taken : u # f /\ Cleared(f)[u] = mem[u]
         /\ \A c \in Cell : Cleared(f)[f][c] = Zero
  BY ConstantFacts DEF Cleared, Typed

\* A new root, on a frame that has been cleared.
LEMMA NewRoot ==
  ASSUME Typed, Structure, RootsKnown, RootsKnown',
         NEW f \in Frame, f \notin taken, taken' = taken \union {f}, mem' = Cleared(f),
         UNCHANGED spaces, ~Building, Building', root' = f
  PROVE  Structure'
<1>1. /\ \A t \in Frame, c \in Cell : t # f => mem'[t][c] = mem[t][c]
      /\ \A c \in Cell : mem'[f][c] = Zero
  BY DEF Cleared, Typed
<1>2. /\ Len(spaces) \in Nat /\ DOMAIN Roots = 1 .. Len(spaces) /\ DOMAIN Roots' = 1 .. Len(spaces) + 1
      /\ \A i \in 1 .. Len(spaces) : Roots'[i] = Roots[i]
      /\ Roots'[Len(spaces) + 1] = f
  BY DEF RootsKnown
<1>3. Tops' = Tops \union {f}
  <2>1. \A i \in 1 .. Len(spaces) + 1 : i \in 1 .. Len(spaces) \/ i = Len(spaces) + 1
    BY <1>2
  <2>2. Tops' \subseteq Tops \union {f}
    BY <1>2, <2>1 DEF Tops
  <2>3. \A i \in 1 .. Len(spaces) : i \in 1 .. Len(spaces) + 1
    BY <1>2
  <2>4. Tops \subseteq Tops'
    BY <1>2, <2>3 DEF Tops
  <2>5. f \in Tops'
    BY <1>2 DEF Tops
  <2> QED
    BY <2>2, <2>4, <2>5
<1>4. Tops \union Middles \union Leaves \union Owned \subseteq taken /\ Zero \notin Pte
  BY ConstantFacts DEF Structure, RolesApart
<1>5. \A c, g : \A t \in taken : /\ c \in Cell => (Points(t, c, g)' <=> Points(t, c, g))
                                 /\ c \in Cell => (Lends(t, c, g)' <=> Lends(t, c, g))
  BY <1>1 DEF Points, Lends, IsTable, Typed
<1>6. \A c \in Cell : \A g : ~Points(f, c, g)' /\ ~Lends(f, c, g)'
  BY <1>1, <1>4 DEF Points, Lends, IsTable
<1>7. Middles' = Middles
  BY <1>3, <1>4, <1>5, <1>6 DEF Middles
<1>8. Leaves' = Leaves
  BY <1>4, <1>5, <1>7 DEF Leaves
<1>9. Owned' = Owned
  BY <1>4, <1>5, <1>8 DEF Owned
<1>10. RolesApart'
  BY <1>3, <1>4, <1>7, <1>8, <1>9 DEF Structure, RolesApart
<1>11. EntriesKnown'
  BY <1>1, <1>3, <1>4, <1>7, <1>8 DEF Structure, EntriesKnown, IsTable, Typed
<1>12. OneWay'
  <2>1. \A i, j \in DOMAIN Roots' : Roots'[i] = Roots'[j] => i = j
    <3>1. \A i \in 1 .. Len(spaces) : Roots[i] # f
      BY <1>2, <1>4 DEF Tops, RootsKnown
    <3>2. \A i, j \in 1 .. Len(spaces) : Roots[i] = Roots[j] => i = j
      BY <1>2 DEF Structure, OneWay
    <3>3. \A i \in 1 .. Len(spaces) + 1 : i \in 1 .. Len(spaces) \/ i = Len(spaces) + 1
      BY <1>2
    <3> QED
      BY <1>2, <3>1, <3>2, <3>3
  <2>2. \A t, u \in Tops' \union Middles', c, d \in Cell, g \in Frame :
          Points(t, c, g)' /\ Points(u, d, g)' => t = u /\ c = d
    BY <1>3, <1>4, <1>5, <1>6, <1>7 DEF Structure, OneWay
  <2>3. \A t, u \in Leaves', c, d \in Cell, g \in Frame :
          Lends(t, c, g)' /\ Lends(u, d, g)' => t = u /\ c = d
    BY <1>4, <1>5, <1>8 DEF Structure, OneWay
  <2> QED
    BY <2>1, <2>2, <2>3 DEF OneWay
<1> QED
  BY <1>10, <1>11, <1>12 DEF Structure

\* An entry is made at cell i of table t, in a place that was 0; what the
\* frame that was taken for it holds is another matter.
LEMMA EntryMade ==
  ASSUME NEW t \in taken, NEW i \in Cell, mem[t][i] = Zero,
         \A u \in taken, c \in Cell : u # t \/ c # i => mem'[u][c] = mem[u][c]
  PROVE  /\ \A u \in taken, c \in Cell : \A g : u # t \/ c # i =>
              /\ Points(u, c, g)' <=> Points(u, c, g)
              /\ Lends(u, c, g)' <=> Lends(u, c, g)
         /\ \A g : ~Points(t, i, g) /\ ~Lends(t, i, g)
<1>1. \A u \in taken, c \in Cell : \A g : u # t \/ c # i =>
        /\ Points(u, c, g)' <=> Points(u, c, g)
        /\ Lends(u, c, g)' <=> Lends(u, c, g)
  BY DEF Points, Lends, IsTable
<1>2. \A g : ~Points(t, i, g) /\ ~Lends(t, i, g)
  BY ConstantFacts DEF Points, Lends, IsTable
<1> QED
  BY <1>1, <1>2

\* An empty table is hung up in one of the upper levels.
HangUp(f, t, i) == mem' = [Cleared(f) EXCEPT ![t][i] = [ppn |-> f, flags |-> {}]]

LEMMA NewTable ==
  ASSUME Typed, Structure, Roots' = Roots,
         NEW f \in Frame, f \notin taken, taken' = taken \union {f},
         NEW t \in Tops \union Middles, NEW i \in Cell, mem[t][i] = Zero,
         HangUp(f, t, i)
  PROVE  /\ Structure' /\ mem' \in [Frame -> [Cell -> Word \union Pte]]
         /\ \A u \in taken, c \in Cell : u # t \/ c # i => mem'[u][c] = mem[u][c]
         /\ \A c \in Cell : mem'[f][c] = Zero
         /\ mem'[t][i] = [ppn |-> f, flags |-> {}]
<1> DEFINE e == [ppn |-> f, flags |-> {}]
<1>1. Tops \union Middles \union Leaves \union Owned \subseteq taken /\ Zero \notin Pte
  BY ConstantFacts DEF Structure, RolesApart
<1>2. e \in Pte /\ e.flags = {} /\ e.ppn = f /\ t \in taken
  BY <1>1, ConstantFacts DEF Pte
<1> HIDE DEF e
<1>3. /\ mem' \in [Frame -> [Cell -> Word \union Pte]]
      /\ mem'[t][i] = e
      /\ \A u \in taken, c \in Cell : u # t \/ c # i => mem'[u][c] = mem[u][c]
      /\ \A u \in taken, c \in Cell : \A g : u # t \/ c # i =>
           /\ Points(u, c, g)' <=> Points(u, c, g)
           /\ Lends(u, c, g)' <=> Lends(u, c, g)
      /\ \A g : ~Points(t, i, g) /\ ~Lends(t, i, g)
  <2>1. mem' = [Cleared(f) EXCEPT ![t][i] = e]
    BY DEF HangUp, e
  <2>2. /\ mem' \in [Frame -> [Cell -> Word \union Pte]]
        /\ mem'[t][i] = e
        /\ \A u \in taken, c \in Cell : u # t \/ c # i => mem'[u][c] = mem[u][c]
    <3> DEFINE m == Cleared(f)
    <3>1. /\ m \in [Frame -> [Cell -> Word \union Pte]]
          /\ \A u \in taken : u \in Frame /\ u # f /\ m[u] = mem[u]
      BY ClearedFacts DEF Typed
    <3>2. mem' = [m EXCEPT ![t][i] = e]
      BY <2>1
    <3> HIDE DEF m
    <3>3. t \in Frame /\ e \in Word \union Pte
      BY <1>2, <3>1
    <3> DEFINE n == [m EXCEPT ![t][i] = e]
    <3>4. /\ n \in [Frame -> [Cell -> Word \union Pte]] /\ n[t][i] = e
          /\ \A u \in Frame, c \in Cell : u # t \/ c # i => n[u][c] = m[u][c]
      BY ONLY <3>1, <3>3, ExceptFacts, i \in Cell
    <3>5. mem' = n
      BY <3>2
    <3> HIDE DEF n
    <3>6. n[t][i] = e /\ \A u \in taken, c \in Cell : u # t \/ c # i => n[u][c] = mem[u][c]
      BY <3>1, <3>4
    <3> QED
      BY ONLY <3>4, <3>5, <3>6
  <2> QED
    BY <1>2, <2>2, EntryMade
<1>4. \A g : Points(t, i, g)' <=> g = f
  BY <1>2, <1>3 DEF Points, IsTable
<1>5. \A c \in Cell : mem'[f][c] = Zero
  BY <1>1, <1>2, <1>3 DEF Typed, Cleared, HangUp
<1>6. \A c \in Cell : \A g : ~Points(f, c, g)' /\ ~Lends(f, c, g)'
  BY <1>1, <1>5 DEF Points, Lends, IsTable
<1>7. Tops' = Tops
  BY DEF Tops
<1>8. Tops \intersect (Middles \union Leaves) = {} /\ Middles \intersect Leaves = {}
  BY DEF Structure, RolesApart
<1>9. /\ t \in Tops => Middles' = Middles \union {f} /\ Leaves' = Leaves
      /\ t \in Middles => Middles' = Middles /\ Leaves' = Leaves \union {f}
  <2>1. CASE t \in Tops
    <3>1. Middles' = Middles \union {f}
      <4>1. Middles' \subseteq Middles \union {f}
        BY <1>1, <1>3, <1>4, <1>7 DEF Middles
      <4>2. Middles \subseteq Middles'
        BY <1>1, <1>3, <1>7 DEF Middles
      <4>3. f \in Middles'
        BY <1>4, <1>7, <2>1 DEF Middles
      <4> QED
        BY <4>1, <4>2, <4>3
    <3>2. \A u \in Middles, c \in Cell : \A g : Points(u, c, g)' <=> Points(u, c, g)
      BY <1>1, <1>3, <1>8, <2>1
    <3>3. Leaves' = Leaves
      BY <1>6, <3>1, <3>2 DEF Leaves
    <3> QED
      BY <1>8, <2>1, <3>1, <3>3
  <2>2. CASE t \in Middles
    <3>1. \A u \in Tops, c \in Cell : \A g : Points(u, c, g)' <=> Points(u, c, g)
      BY <1>1, <1>3, <1>8, <2>2
    <3>2. Middles' = Middles
      BY <1>7, <3>1 DEF Middles
    <3>3. Leaves' = Leaves \union {f}
      <4>1. Leaves' \subseteq Leaves \union {f}
        BY <1>1, <1>3, <1>4, <3>2 DEF Leaves
      <4>2. Leaves \subseteq Leaves'
        BY <1>1, <1>3, <3>2 DEF Leaves
      <4>3. f \in Leaves'
        BY <1>4, <3>2, <2>2 DEF Leaves
      <4> QED
        BY <4>1, <4>2, <4>3
    <3> QED
      BY <1>8, <2>2, <3>2, <3>3
  <2> QED
    BY <2>1, <2>2
<1>10. t \notin Leaves /\ f \notin taken /\ t \in Tops \union Middles
  BY <1>8
<1>11. Owned' = Owned
  <2>1. \A u \in Leaves, c \in Cell : \A g : Lends(u, c, g)' <=> Lends(u, c, g)
    BY <1>1, <1>3, <1>10
  <2> QED
    BY <1>6, <1>9, <1>10, <2>1 DEF Owned
<1>12. RolesApart'
  BY <1>1, <1>7, <1>9, <1>10, <1>11 DEF Structure, RolesApart
<1>13. EntriesKnown'
  <2>1. ASSUME NEW u \in Tops' \union Middles', NEW c \in Cell
        PROVE  mem'[u][c] = Zero \/ (IsTable(mem'[u][c]) /\ mem'[u][c].ppn \in Frame)
    <3>1. CASE u = f
      BY <1>5, <3>1
    <3>2. CASE u = t /\ c = i
      BY <1>2, <1>3, <3>2 DEF IsTable
    <3>3. CASE u # f /\ ~(u = t /\ c = i)
      <4>1. u \in Tops \union Middles
        BY <1>7, <1>9, <1>10, <2>1, <3>3
      <4> QED
        BY <1>1, <1>3, <3>3, <4>1 DEF Structure, EntriesKnown
    <3> QED
      BY <3>1, <3>2, <3>3
  <2>2. ASSUME NEW u \in Leaves', NEW c \in Cell
        PROVE  mem'[u][c] = Zero \/ (/\ mem'[u][c] \in Pte /\ mem'[u][c].flags # {}
                                     /\ "U" \in mem'[u][c].flags => mem'[u][c].ppn \in Frame)
    <3>1. CASE u = f
      BY <1>5, <3>1
    <3>2. CASE u # f
      <4>1. u \in Leaves /\ u # t
        BY <1>9, <1>10, <2>2, <3>2
      <4> QED
        BY <1>1, <1>3, <4>1 DEF Structure, EntriesKnown
    <3> QED
      BY <3>1, <3>2
  <2> QED
    BY <2>1, <2>2 DEF EntriesKnown, IsTable
<1>14. OneWay'
  <2>1. \A i1, j1 \in DOMAIN Roots' : Roots'[i1] = Roots'[j1] => i1 = j1
    BY DEF Structure, OneWay
  <2>2. \A u \in Tops' \union Middles', c \in Cell : \A g :
          Points(u, c, g)' => \/ u = t /\ c = i /\ g = f
                              \/ u \in Tops \union Middles /\ Points(u, c, g)
    BY <1>1, <1>3, <1>4, <1>6, <1>7, <1>9, <1>10
  <2>3. \A u \in Tops \union Middles, c \in Cell : ~Points(u, c, f)
    BY <1>1, <1>10 DEF Middles, Leaves
  <2>4. \A u, w \in Tops' \union Middles', c, d \in Cell, g \in Frame :
          Points(u, c, g)' /\ Points(w, d, g)' => u = w /\ c = d
    BY <2>2, <2>3 DEF Structure, OneWay
  <2>5. \A u \in Leaves', c \in Cell : \A g :
          Lends(u, c, g)' => u \in Leaves /\ Lends(u, c, g)
    BY <1>1, <1>3, <1>6, <1>9, <1>10
  <2>6. \A u, w \in Leaves', c, d \in Cell, g \in Frame :
          Lends(u, c, g)' /\ Lends(w, d, g)' => u = w /\ c = d
    BY <2>5 DEF Structure, OneWay
  <2> QED
    BY <2>1, <2>4, <2>6 DEF OneWay
<1> QED
  BY <1>3, <1>5, <1>12, <1>13, <1>14 DEF Structure, e

\* A page is entered in a table of the last level: one of the kernel, or one
\* of a program on a frame that has been taken for it.
LEMMA NewPage ==
  ASSUME Typed, Structure, Roots' = Roots,
         taken \subseteq taken', NEW t \in Leaves, NEW i \in Cell, mem[t][i] = Zero,
         NEW e \in Pte, e.flags # {},
         "U" \in e.flags => e.ppn \in Frame /\ e.ppn \in taken' /\ e.ppn \notin taken,
         mem'[t][i] = e,
         \A u \in taken, c \in Cell : u # t \/ c # i => mem'[u][c] = mem[u][c]
  PROVE  Structure'
<1>1. Tops \union Middles \union Leaves \union Owned \subseteq taken /\ Zero \notin Pte /\ t \in taken
  BY ConstantFacts DEF Structure, RolesApart
<1>2. /\ \A u \in taken, c \in Cell : \A g : u # t \/ c # i =>
           /\ Points(u, c, g)' <=> Points(u, c, g)
           /\ Lends(u, c, g)' <=> Lends(u, c, g)
      /\ \A g : ~Points(t, i, g) /\ ~Lends(t, i, g)
  BY <1>1, EntryMade
<1>3. \A g : ~Points(t, i, g)' /\ (Lends(t, i, g)' <=> "U" \in e.flags /\ g = e.ppn)
  BY DEF Points, Lends, IsTable
<1>4. \A u \in taken, c \in Cell : \A g : Points(u, c, g)' <=> Points(u, c, g)
  BY <1>2, <1>3
<1>5. t \notin Tops \union Middles
  BY DEF Structure, RolesApart
<1>6. Tops' = Tops
  BY DEF Tops
<1>7. Middles' = Middles
  BY <1>1, <1>4, <1>6 DEF Middles
<1>8. Leaves' = Leaves
  BY <1>1, <1>4, <1>7 DEF Leaves
<1>9. \A u \in Leaves, c \in Cell : \A g :
        Lends(u, c, g)' <=> Lends(u, c, g) \/ (u = t /\ c = i /\ "U" \in e.flags /\ g = e.ppn)
  BY <1>1, <1>2, <1>3
<1>10. \A g \in Owned' : g \in Owned \/ ("U" \in e.flags /\ g = e.ppn)
  BY <1>8, <1>9 DEF Owned
<1>11. RolesApart'
  BY <1>1, <1>6, <1>7, <1>8, <1>10 DEF Structure, RolesApart
<1>12. EntriesKnown'
  <2>1. \A u \in Tops \union Middles, c \in Cell : mem'[u][c] = mem[u][c]
    BY <1>1, <1>5
  <2>2. \A u \in Leaves, c \in Cell : mem'[u][c] = mem[u][c] \/ mem'[u][c] = e
    BY <1>1
  <2> QED
    BY <1>6, <1>7, <1>8, <2>1, <2>2 DEF Structure, EntriesKnown, IsTable
<1>13. OneWay'
  <2>1. \A i1, j1 \in DOMAIN Roots' : Roots'[i1] = Roots'[j1] => i1 = j1
    BY DEF Structure, OneWay
  <2>2. \A u, w \in Tops' \union Middles', c, d \in Cell, g \in Frame :
          Points(u, c, g)' /\ Points(w, d, g)' => u = w /\ c = d
    BY <1>1, <1>4, <1>6, <1>7 DEF Structure, OneWay
  <2>3. \A u \in Leaves, c \in Cell : "U" \in e.flags => ~Lends(u, c, e.ppn)
    BY <1>1 DEF Owned
  <2>4. \A u, w \in Leaves', c, d \in Cell, g \in Frame :
          Lends(u, c, g)' /\ Lends(w, d, g)' => u = w /\ c = d
    BY <1>8, <1>9, <2>3 DEF Structure, OneWay
  <2> QED
    BY <2>1, <2>2, <2>4 DEF OneWay
<1> QED
  BY <1>11, <1>12, <1>13 DEF Structure
------------------------------------------------------------------------------
(* The steps.                                                              *)

LEMMA SeqWidens ==
  ASSUME NEW S, NEW T, S \subseteq T, NEW s \in Seq(S)
  PROVE  s \in Seq(T)
<1>1. DOMAIN s = 1 .. Len(s) /\ Len(s) \in Nat
  BY LenProperties
<1>2. \A i \in 1 .. Len(s) : s[i] \in T
  BY <1>1, ElementOfSeq
<1>3. s \in [1 .. Len(s) -> T]
  BY <1>1, <1>2, ElementOfSeq, s \in [1 .. Len(s) -> S], LenProperties
<1> QED
  BY <1>1, <1>3, SeqOfFunction

LEMMA SpacesGrow ==
  ASSUME Typed, taken \subseteq taken', UNCHANGED spaces
  PROVE  spaces' \in Seq([root : taken', program : Program \union {KernelOnly}])
<1> DEFINE S == [root : taken, program : Program \union {KernelOnly}]
           T == [root : taken', program : Program \union {KernelOnly}]
<1>1. S \subseteq T /\ spaces \in Seq(S)
  BY DEF Typed
<1> HIDE DEF S, T
<1>2. spaces \in Seq(T)
  BY <1>1, SeqWidens
<1> QED
  BY <1>2 DEF T

\* Where findEntry is, and with which page.
LEMMA PlaceFacts ==
  ASSUME Inv, Walking
  PROVE  /\ Building /\ root \in Tops /\ root \in Frame
         /\ Page \in LinearPage \union UserPage /\ Index \in Cell
         /\ GetVpnLevels(Page.vpn) \in Cell \X Cell \X Cell
         /\ Tail(todo) \in Seq(LinearPage \union UserPage)
         /\ level = 0 => table \in Tops
         /\ level = 1 => table \in Middles
         /\ level = 2 => table \in Leaves
<1>1. Building /\ Typed /\ PagesKnown /\ RootsKnown /\ EntriesKnown /\ WalkKnown
  BY RootsFacts DEF Inv, Walking, Building, Structure
<1>2. root \in Frame /\ root \in Tops
  BY <1>1 DEF RootsKnown, PagesKnown, Tops
<1>3. Page \in LinearPage \union UserPage /\ Tail(todo) \in Seq(LinearPage \union UserPage)
  BY <1>1, HeadTailProperties DEF Walking, PagesKnown, Page
<1>4. Page.vpn \in Nat
  BY <1>3, ConstantFacts DEF LinearPage, UserPage, CopiedPage, FramedPage
<1>5. GetVpnLevels(Page.vpn) \in Cell \X Cell \X Cell
  BY <1>4, IndexFacts
<1>6. Index \in Cell
  BY <1>1, <1>5 DEF Index, Typed, Level
<1>7. level = 0 => table \in Tops
  BY <1>1, <1>2 DEF WalkKnown, Walking
<1>8. ASSUME NEW t \in Tops \union Middles, NEW c \in Cell, NEW g, Points(t, c, g)
      PROVE  g \in Frame
  BY <1>1, <1>8, ConstantFacts DEF EntriesKnown, Points, IsTable
<1>9. level = 1 => table \in Middles
  BY <1>1, <1>2, <1>5, <1>8 DEF WalkKnown, Walking, Middles
<1>10. level = 2 => table \in Leaves
  <2> SUFFICES ASSUME level = 2 PROVE table \in Leaves
    OBVIOUS
  <2>1. PICK f \in Frame : /\ Points(root, GetVpnLevels(Page.vpn)[1], f)
                           /\ Points(f, GetVpnLevels(Page.vpn)[2], table)
    BY <1>1 DEF WalkKnown, Walking
  <2>2. f \in Middles
    BY <1>2, <1>5, <2>1 DEF Middles
  <2> QED
    BY <1>5, <1>8, <2>1, <2>2 DEF Leaves
<1> QED
  BY <1>1, <1>2, <1>3, <1>5, <1>6, <1>7, <1>9, <1>10

LEMMA RootsFactsNext == Typed' /\ PagesKnown' => RootsKnown'
  BY RootsFacts, PTL

LEMMA InitInv == Init => Inv
<1> SUFFICES ASSUME Init PROVE Inv
  OBVIOUS
<1>1. Typed
  <2>1. mem \in [Frame -> [Cell -> Word \union Pte]]
    BY MappingAssumption DEF Init
  <2>2. spaces \in Seq([root : taken, program : Program \union {KernelOnly}])
    BY EmptySeq DEF Init
  <2> QED
    BY <2>1, <2>2 DEF Init, Typed, Level
<1>2. PagesKnown
  BY EmptySeq DEF Init, PagesKnown, Building
<1>3. Tops = {}
  BY DEF Init, Tops, Roots
<1>4. Middles = {} /\ Leaves = {} /\ Owned = {}
  BY <1>3 DEF Middles, Leaves, Owned
<1>5. Structure
  BY <1>3, <1>4 DEF Structure, RolesApart, EntriesKnown, OneWay, Init, Roots
<1> QED
  BY <1>1, <1>2, <1>5 DEF Inv, WalkKnown, Init

\* Steps that write no table.
LEMMA QuietStep ==
  ASSUME Inv, UNCHANGED <<mem, taken, program>>, Roots' = Roots,
         spaces' \in Seq([root : taken, program : Program \union {KernelOnly}]),
         level' \in Level, pc' \in {"ready", "kernel", "program", "panicked", "depleted"},
         todo' \in Seq(LinearPage \union UserPage), pc' = "ready" => todo' = << >>,
         Building' => root' \in Frame, WalkKnown'
  PROVE  Inv'
<1>1. Typed'
  BY DEF Inv, Typed
<1>2. PagesKnown'
  BY DEF Inv, PagesKnown
<1>3. Structure'
  BY SameStructure DEF Inv
<1> QED
  BY <1>1, <1>2, <1>3 DEF Inv

LEMMA NewKernelMappingInv ==
  ASSUME Inv, NEW x \in Program \union {KernelOnly}, NewKernelMapping(x)
  PROVE  Inv'
<1> PICK f \in Frame : Take(f) /\ mem' = Cleared(f) /\ root' = f /\ table' = f
  BY DEF NewKernelMapping
<1>1. f \notin taken /\ taken' = taken \union {f}
  BY DEF Take
<1>2. Typed /\ PagesKnown /\ Structure /\ RootsKnown
  BY RootsFacts DEF Inv
<1>3. ~Building /\ Building' /\ UNCHANGED spaces
  BY <1>2 DEF NewKernelMapping, Building, PagesKnown
<1>4. Typed'
  <2>1. mem' \in [Frame -> [Cell -> Word \union Pte]]
    BY <1>1, <1>2, ClearedFacts
  <2>2. spaces' \in Seq([root : taken', program : Program \union {KernelOnly}])
    BY <1>1, <1>2, <1>3, SpacesGrow
  <2> QED
    BY <1>1, <1>2, <2>1, <2>2 DEF Typed, NewKernelMapping, Level
<1>5. PagesKnown'
  <2>1. todo' \in Seq(LinearPage \union UserPage)
    BY PagesFacts, SeqWidens DEF NewKernelMapping
  <2> QED
    BY <2>1 DEF NewKernelMapping, PagesKnown
<1>6. RootsKnown'
  BY <1>4, <1>5, RootsFactsNext
<1>7. Structure'
  BY <1>1, <1>2, <1>3, <1>6, NewRoot
<1>8. WalkKnown'
  BY DEF WalkKnown, NewKernelMapping
<1> QED
  BY <1>4, <1>5, <1>7, <1>8 DEF Inv

LEMMA DescendInv == ASSUME Inv, Descend PROVE Inv' /\ Roots' = Roots
<1>1. Walking /\ Typed /\ PagesKnown /\ WalkKnown /\ EntriesKnown
  BY DEF Inv, Descend, Structure
<1>2. Building /\ Building'
  BY <1>1 DEF Descend, Building, Walking
<1>3. Roots' = Roots
  BY <1>2, SameRoots DEF Descend
<1>4. Entry # Zero /\ level \in {0, 1} /\ table \in Tops \union Middles /\ Index \in Cell
  BY <1>1, PlaceFacts DEF Descend, Typed, Level
<1>5. IsTable(Entry) /\ Entry.ppn \in Frame
  BY <1>4 , <1>1 DEF EntriesKnown, Entry
<1>6. Points(table, Index, table')
  BY <1>5 DEF Points, Entry, Descend
<1>7. WalkKnown'
  <2>1. UNCHANGED <<mem, root, todo>> /\ level' = level + 1 /\ todo # << >>
    BY <1>1 DEF Descend, Walking
  <2>2. CASE level = 0
    <3>1. table = root /\ Index = GetVpnLevels(Page.vpn)[1]
      BY <1>1, <2>2 DEF WalkKnown, Walking, Index
    <3>2. Points(root, GetVpnLevels(Page.vpn)[1], table')
      BY <1>6, <3>1
    <3> QED
      BY <2>1, <2>2, <3>2 DEF WalkKnown, Points, IsTable, Page, GetVpnLevels
  <2>3. CASE level = 1
    <3>1. Points(root, GetVpnLevels(Page.vpn)[1], table) /\ Index = GetVpnLevels(Page.vpn)[2]
      BY <1>1, <2>3 DEF WalkKnown, Walking, Index
    <3>2. Points(table, GetVpnLevels(Page.vpn)[2], table') /\ table \in Frame
      BY <1>4, <1>6, <3>1 DEF Tops, Middles
    <3> QED
      BY <2>1, <2>3, <3>1, <3>2 DEF WalkKnown, Points, IsTable, Page, GetVpnLevels
  <2> QED
    BY <1>4, <2>2, <2>3
<1>8. level' \in Level
  BY <1>4 DEF Descend, Level
<1> QED
  BY <1>1, <1>2, <1>3, <1>7, <1>8, QuietStep DEF Descend, Typed, PagesKnown

LEMMA AddTableInv == ASSUME Inv, AddTable PROVE Inv'
<1> PICK f \in Frame :
      Take(f) /\ mem' = [Cleared(f) EXCEPT ![table][Index] = [ppn |-> f, flags |-> {}]]
  BY DEF AddTable
<1>1. f \notin taken /\ taken' = taken \union {f}
  BY DEF Take
<1>2. Walking /\ Typed /\ PagesKnown /\ WalkKnown /\ Structure
  BY DEF Inv, AddTable
<1>3. UNCHANGED <<spaces, root, program, todo, table, level, pc>>
  BY DEF AddTable, walkVars
<1>4. Roots' = Roots /\ Building' = Building
  BY <1>3 DEF Roots, Building
<1>5. /\ table \in Tops \union Middles /\ Index \in Cell /\ mem[table][Index] = Zero
      /\ root \in Tops /\ GetVpnLevels(Page.vpn) \in Cell \X Cell \X Cell
  BY <1>2, PlaceFacts DEF AddTable, Typed, Level, Entry
<1>6. /\ Structure' /\ mem' \in [Frame -> [Cell -> Word \union Pte]]
      /\ \A u \in taken, c \in Cell : u # table \/ c # Index => mem'[u][c] = mem[u][c]
  <2>1. HangUp(f, table, Index)
    BY DEF HangUp
  <2>2. Typed /\ Structure /\ Roots' = Roots
    BY <1>2, <1>4
  <2>3. table \in Tops \union Middles /\ Index \in Cell /\ mem[table][Index] = Zero
    BY <1>5
  <2> QED
    BY ONLY <1>1, <2>1, <2>2, <2>3, NewTable, f \in Frame
<1>7. Typed'
  <2>1. spaces' \in Seq([root : taken', program : Program \union {KernelOnly}])
    BY <1>1, <1>2, <1>3, SpacesGrow
  <2> QED
    BY <1>1, <1>2, <1>3, <1>6, <2>1 DEF Typed
<1>8. PagesKnown'
  BY <1>2, <1>3, <1>4 DEF PagesKnown
<1>9. WalkKnown'
  <2>1. root \in taken
    BY <1>2, <1>5 DEF Structure, RolesApart
  <2>2. \A g : Points(root, GetVpnLevels(Page.vpn)[1], g) =>
               Points(root, GetVpnLevels(Page.vpn)[1], g)'
    <3> DEFINE c == GetVpnLevels(Page.vpn)[1]
    <3>1. c \in Cell
      BY <1>5
    <3>2. c' = c
      BY <1>3 DEF Page, GetVpnLevels
    <3> HIDE DEF c
    <3>3. mem[root][c] \in Pte => mem'[root][c] = mem[root][c]
      BY <1>5, <1>6, <2>1, <3>1, ConstantFacts
    <3> SUFFICES \A g : Points(root, c, g) => Points(root, c, g)'
      BY DEF c
    <3> QED
      BY <1>3, <3>2, <3>3 DEF Points, IsTable
  <2>3. level \in {0, 1}
    BY <1>2 DEF AddTable, Typed, Level
  <2> QED
    BY <1>2, <1>3, <2>2, <2>3 DEF WalkKnown, Walking, Page, GetVpnLevels
<1> QED
  BY <1>6, <1>7, <1>8, <1>9 DEF Inv

LEMMA NextPageFacts ==
  ASSUME Inv, Walking, NextPage, UNCHANGED <<root, program, pc>>
  PROVE  /\ todo' \in Seq(LinearPage \union UserPage) /\ level' \in Level
         /\ Building /\ Building' /\ PagesKnown' /\ WalkKnown'
<1>1. todo' \in Seq(LinearPage \union UserPage) /\ root \in Frame /\ Building
  BY PlaceFacts DEF NextPage
<1>2. Building' /\ pc' # "ready" /\ level' = 0 /\ table' = root'
  BY DEF Walking, Building, NextPage
<1> QED
  BY <1>1, <1>2 DEF Inv, PagesKnown, WalkKnown, Level

\* findEntry's page is entered, as e.
Entered(e) ==
  /\ e \in Pte /\ e.flags = Page.flags /\ e.flags # {}
  /\ mem' \in [Frame -> [Cell -> Word \union Pte]] /\ mem'[table][Index] = e
  /\ \A u \in taken, c \in Cell : u # table \/ c # Index => mem'[u][c] = mem[u][c]
  /\ \/ /\ Page \in LinearPage /\ e.ppn = Page.vpn - KernelOffset
        /\ "U" \notin e.flags /\ taken' = taken
     \/ /\ Page \in UserPage /\ e.ppn \in Frame \ taken /\ taken' = taken \union {e.ppn}
        /\ Page.kind = "copied" => mem'[e.ppn] = Page.words

LEMMA MapLinearEnters == ASSUME Inv, MapLinear PROVE \E e : Entered(e)
<1> DEFINE e == [ppn |-> Page.vpn - KernelOffset, flags |-> Page.flags]
<1>1. Walking /\ level = 2 /\ Typed /\ Structure /\ taken' = taken
  BY DEF Inv, MapLinear, AtEntry
<1>2. table \in Leaves /\ Index \in Cell
  BY <1>1, PlaceFacts
<1>3. Page \in LinearPage
  BY <1>1, PlaceFacts DEF MapLinear, UserPage, CopiedPage, FramedPage
<1>4. e \in Pte /\ e.flags = Page.flags /\ e.flags # {} /\ "U" \notin e.flags /\ e.ppn = Page.vpn - KernelOffset
  <2>1. Page.vpn - KernelOffset \in Ppn
    BY <1>3, ConstantFacts DEF LinearPage, Ppn
  <2>2. Page.flags \in SUBSET Flag /\ Page.flags # {} /\ "U" \notin Page.flags
    BY <1>3 DEF LinearPage, Flag, Rights, Usable
  <2> QED
    BY <2>1, <2>2 DEF Pte
<1>5. mem' = [mem EXCEPT ![table][Index] = e]
  BY DEF MapLinear
<1> HIDE DEF e
<1>6. table \in Frame /\ taken \subseteq Frame
  BY <1>1, <1>2 DEF Leaves, Typed
<1>7. /\ mem' \in [Frame -> [Cell -> Word \union Pte]] /\ mem'[table][Index] = e
      /\ \A u \in Frame, c \in Cell : u # table \/ c # Index => mem'[u][c] = mem[u][c]
  <2>1. e \in Word \union Pte /\ mem \in [Frame -> [Cell -> Word \union Pte]]
    BY <1>1, <1>4 DEF Typed
  <2> QED
    BY ONLY <1>2, <1>5, <1>6, <2>1, ExceptFacts
<1>8. \A u \in taken, c \in Cell : u # table \/ c # Index => mem'[u][c] = mem[u][c]
  BY <1>6, <1>7
<1> QED
  BY <1>1, <1>3, <1>4, <1>7, <1>8 DEF Entered

LEMMA MapFramedEnters == ASSUME Inv, MapFramed PROVE \E e : Entered(e)
<1> PICK f \in Frame :
      /\ Take(f)
      /\ mem' = [Cleared(f) EXCEPT
                   ![table][Index] = [ppn |-> f, flags |-> Page.flags],
                   ![f] = IF Page.kind = "copied" THEN Page.words ELSE @]
  BY DEF MapFramed
<1> DEFINE e == [ppn |-> f, flags |-> Page.flags]
           m == Cleared(f)
           n == [m EXCEPT ![table][Index] = e]
           words == IF Page.kind = "copied" THEN Page.words ELSE m[f]
<1>1. Walking /\ level = 2 /\ Typed /\ Structure
  BY DEF Inv, MapFramed, AtEntry
<1>2. table \in Leaves /\ Index \in Cell
  BY <1>1, PlaceFacts
<1>3. Page \in UserPage
  BY <1>1, PlaceFacts DEF MapFramed, LinearPage
<1>4. e \in Pte /\ e.flags = Page.flags /\ e.flags # {} /\ e.ppn = f
  BY <1>3, ConstantFacts DEF UserPage, CopiedPage, FramedPage, UserFlags, Pte
<1>5. Page.kind = "copied" => Page.words \in [Cell -> Word]
  BY <1>3 DEF UserPage, CopiedPage, FramedPage
<1>6. mem' = [n EXCEPT ![f] = words]
  OBVIOUS
<1>7. f \notin taken /\ taken' = taken \union {f} /\ taken \subseteq Frame
  BY <1>1 DEF Take, Typed
<1>8. table \in taken
  BY <1>1, <1>2 DEF Structure, RolesApart
<1>9. m \in [Frame -> [Cell -> Word \union Pte]] /\ \A u \in taken : u # f /\ m[u] = mem[u]
  BY <1>1, <1>7, ClearedFacts
<1> HIDE DEF e, m
<1>10. /\ n \in [Frame -> [Cell -> Word \union Pte]] /\ n[table][Index] = e
       /\ \A u \in Frame, c \in Cell : u # table \/ c # Index => n[u][c] = m[u][c]
  <2>1. e \in Word \union Pte /\ table \in Frame
    BY <1>4, <1>7, <1>8
  <2> QED
    BY ONLY <1>2, <1>9, <2>1, ExceptFacts
<1> HIDE DEF n
<1>11. words \in [Cell -> Word \union Pte] /\ (Page.kind = "copied" => words = Page.words)
  BY <1>5, <1>9
<1> HIDE DEF words
<1>12. /\ mem' \in [Frame -> [Cell -> Word \union Pte]] /\ mem'[table][Index] = e
       /\ \A u \in taken, c \in Cell : u # table \/ c # Index => mem'[u][c] = mem[u][c]
       /\ mem'[f] = words
  <2>1. mem' \in [Frame -> [Cell -> Word \union Pte]]
    BY ONLY <1>6, <1>10, <1>11
  <2>2. mem'[f] = words /\ \A u \in taken : mem'[u] = n[u]
    BY <1>6, <1>7, <1>10
  <2> QED
    BY ONLY <1>7, <1>8, <1>9, <1>10, <2>1, <2>2
<1> QED
  BY <1>3, <1>4, <1>7, <1>11, <1>12 DEF Entered

LEMMA MapPageInv == ASSUME Inv, MapLinear \/ MapFramed PROVE Inv' /\ Roots' = Roots
<1>1. PICK e : Entered(e)
  BY MapLinearEnters, MapFramedEnters
<1>2. /\ Walking /\ NextPage /\ UNCHANGED <<spaces, root, program, pc>> /\ level = 2
      /\ mem[table][Index] = Zero
  BY DEF MapLinear, MapFramed, AtEntry, Entry
<1>3. Typed /\ Structure /\ PagesKnown' /\ level' \in Level /\ WalkKnown' /\ Building /\ Building'
  BY <1>2, NextPageFacts DEF Inv
<1>4. Roots' = Roots
  BY <1>2, <1>3, SameRoots
<1>5. table \in Leaves /\ Index \in Cell
  BY <1>2, PlaceFacts
<1>6. taken \subseteq taken' /\ taken' \subseteq Frame
  BY <1>1, <1>3 DEF Entered, Typed
<1>7. Structure'
  BY <1>1, <1>2, <1>3, <1>4, <1>5, <1>6, NewPage DEF Entered
<1>8. spaces' \in Seq([root : taken', program : Program \union {KernelOnly}])
  BY <1>2, <1>3, <1>6, SpacesGrow
<1>9. Typed'
  BY <1>1, <1>2, <1>3, <1>6, <1>8 DEF Typed, Entered
<1> QED
  BY <1>3, <1>4, <1>7, <1>9 DEF Inv

LEMMA AlreadyMappedInv == ASSUME Inv, AlreadyMapped PROVE Inv' /\ Roots' = Roots
<1>1. Building /\ Building' /\ Typed /\ PagesKnown
  BY DEF Inv, AlreadyMapped, AtEntry, Walking, Building
<1>2. Roots' = Roots
  BY <1>1, SameRoots DEF AlreadyMapped
<1>3. WalkKnown'
  BY DEF AlreadyMapped, WalkKnown
<1> QED
  BY <1>1, <1>2, <1>3, QuietStep DEF AlreadyMapped, walkVars, Typed, PagesKnown

LEMMA MapExtInterruptAreaInv == ASSUME Inv, MapExtInterruptArea PROVE Inv' /\ Roots' = Roots
<1>1. Building /\ Building' /\ Typed /\ PagesKnown
  BY DEF Inv, MapExtInterruptArea, Building
<1>2. Roots' = Roots
  BY <1>1, SameRoots DEF MapExtInterruptArea
<1>3. WalkKnown'
  BY DEF MapExtInterruptArea, WalkKnown, Inv
<1>4. todo' \in Seq(LinearPage \union UserPage)
  BY PagesFacts, SeqWidens DEF MapExtInterruptArea
<1> QED
  BY <1>1, <1>2, <1>3, <1>4, QuietStep DEF MapExtInterruptArea, Typed, PagesKnown

LEMMA NewUserMappingInv == ASSUME Inv, NewUserMapping PROVE Inv' /\ Roots' = Roots
<1>1. Building /\ Building' /\ Typed /\ PagesKnown /\ pc' # "ready"
  BY DEF Inv, NewUserMapping, Building
<1>2. Roots' = Roots
  BY <1>1, SameRoots DEF NewUserMapping
<1>3. WalkKnown'
  BY DEF NewUserMapping, WalkKnown, Inv
<1>4. todo' \in Seq(LinearPage \union UserPage)
  <2>1. program \in Program
    BY <1>1 DEF NewUserMapping, PagesKnown
  <2>2. ProgramPages(program) \in Seq(LinearPage \union UserPage)
    BY <2>1, ProgramPagesFacts, SeqWidens
  <2> QED
    BY <1>1, <2>2 DEF NewUserMapping, PagesKnown
<1>5. pc' \in {"program", "panicked"}
  BY DEF NewUserMapping
<1> QED
  BY <1>1, <1>2, <1>3, <1>4, <1>5, QuietStep DEF NewUserMapping, Typed, PagesKnown

LEMMA FinishInv == ASSUME Inv, Finish PROVE Inv' /\ Roots' = Roots
<1> DEFINE space == [root |-> root, program |-> program]
<1>1. Building /\ ~Building' /\ Typed /\ PagesKnown /\ RootsKnown /\ RolesApart
  BY RootsFacts DEF Inv, Finish, Building, Structure
<1>2. root \in taken
  BY <1>1 DEF RootsKnown, Tops, RolesApart, PagesKnown
<1>3. space \in [root : taken, program : Program \union {KernelOnly}]
  BY <1>1, <1>2 DEF PagesKnown
<1>4. UNCHANGED <<mem, taken, root, program, todo, table, level>> /\ spaces' = Append(spaces, space)
  BY DEF Finish, walkVars
<1> HIDE DEF space
<1>5. /\ spaces' \in Seq([root : taken, program : Program \union {KernelOnly}])
      /\ Len(spaces') = Len(spaces) + 1
      /\ \A i \in 1 .. Len(spaces) : spaces'[i] = spaces[i]
      /\ spaces'[Len(spaces) + 1] = space
  BY <1>1, <1>3, <1>4, AppendProperties DEF Typed
<1>6. Typed'
  BY <1>1, <1>4, <1>5 DEF Typed, Finish
<1>7. PagesKnown'
  BY <1>1, <1>4 DEF PagesKnown, Finish
<1>8. RootsKnown'
  BY <1>6, <1>7, RootsFactsNext
<1>9. Roots' = Roots
  <2>1. Roots \in Seq(Frame) /\ Roots' \in Seq(Frame) /\ Len(Roots) = Len(Roots')
    BY <1>1, <1>5, <1>8 DEF RootsKnown
  <2>2. \A i \in 1 .. Len(Roots) : Roots'[i] = Roots[i]
    <3> TAKE i \in 1 .. Len(Roots)
    <3>1. Len(Roots) = Len(spaces) + 1 /\ Len(spaces) \in Nat
      BY <1>1 DEF RootsKnown
    <3>2. CASE i \in 1 .. Len(spaces)
      BY <1>1, <1>5, <1>8, <3>1, <3>2 DEF RootsKnown
    <3>3. CASE i = Len(spaces) + 1
      <4>1. Roots'[i] = spaces'[i].root
        BY <1>5, <1>8, <3>1 DEF RootsKnown
      <4>2. Roots[i] = root
        BY <1>1, <3>3 DEF RootsKnown
      <4> QED
        BY <1>5, <3>3, <4>1, <4>2 DEF space
    <3> QED
      BY <3>1, <3>2, <3>3
  <2> QED
    BY <2>1, <2>2, SeqEqual
<1>10. Structure'
  BY <1>4, <1>9, SameStructure DEF Inv
<1>11. WalkKnown'
  BY DEF Finish, WalkKnown
<1> QED
  BY <1>6, <1>7, <1>9, <1>10, <1>11 DEF Inv

LEMMA DepletedInv == ASSUME Inv, Depleted PROVE Inv' /\ Roots' = Roots
<1>1. Typed /\ PagesKnown
  BY DEF Inv
<1>2. UNCHANGED <<mem, taken, spaces, root, program, todo, table, level>> /\ pc' = "depleted"
  BY DEF Depleted, walkVars
<1>3. pc = "ready" \/ Walking
  BY DEF Depleted
<1>4. Building' <=> Building
  BY <1>1, <1>2, <1>3 DEF Building, Walking, PagesKnown
<1>5. Roots' = Roots
  BY <1>2, <1>4, SameRoots
<1> QED
  BY <1>1, <1>2, <1>4, <1>5, QuietStep DEF Typed, PagesKnown, WalkKnown

LEMMA UnchangedInv == ASSUME Inv, UNCHANGED vars PROVE Inv' /\ Roots' = Roots
<1>1. UNCHANGED <<mem, taken, spaces, root, program, todo, table, level, pc>>
  BY DEF vars, walkVars
<1>2. Roots' = Roots /\ (Building' <=> Building)
  BY <1>1 DEF Roots, Building
<1>3. Typed /\ PagesKnown /\ WalkKnown
  BY DEF Inv
<1>4. WalkKnown'
  BY <1>1, <1>3 DEF WalkKnown, Points, IsTable, Page, GetVpnLevels
<1> QED
  BY <1>1, <1>2, <1>3, <1>4, QuietStep DEF Typed, PagesKnown

\* Steps that write no table and make no new one the root of a space.
Quiet ==
  \/ Descend \/ AlreadyMapped \/ MapExtInterruptArea \/ NewUserMapping \/ Finish \/ Depleted
  \/ UNCHANGED vars

LEMMA QuietInv == ASSUME Inv, Quiet PROVE Inv' /\ Roots' = Roots /\ UNCHANGED mem
<1>1. Inv' /\ Roots' = Roots
  BY DescendInv, AlreadyMappedInv, MapExtInterruptAreaInv, NewUserMappingInv, FinishInv,
     DepletedInv, UnchangedInv DEF Quiet
<1>2. UNCHANGED mem
  BY DEF Quiet, Descend, AlreadyMapped, MapExtInterruptArea, NewUserMapping, Finish, Depleted, vars
<1> QED
  BY <1>1, <1>2

\* The invariant is inductive.
THEOREM StepInv == Inv /\ [Next]_vars => Inv'
<1> SUFFICES ASSUME Inv, [Next]_vars PROVE Inv'
  OBVIOUS
<1>1. CASE \E x \in Program \union {KernelOnly} : NewKernelMapping(x)
  BY <1>1, NewKernelMappingInv
<1>2. CASE AddTable
  BY <1>2, AddTableInv
<1>3. CASE MapLinear \/ MapFramed
  BY <1>3, MapPageInv
<1>4. CASE Quiet
  BY <1>4, QuietInv
<1> QED
  BY <1>1, <1>2, <1>3, <1>4 DEF Next, Stuck, Quiet

\* The invariant: types, one use for every frame, one way to every table and
\* to every page of a program, and findEntry on the way to its page.
THEOREM SpecInv == Spec => []Inv
  BY InitInv, StepInv, PTL DEF Spec
------------------------------------------------------------------------------
(* What the hardware reads.                                                *)

LEMMA BelowFacts ==
  ASSUME Typed, NEW ts \in SUBSET Frame
  PROVE  \A x : x \in Below(ts) <=> \E t \in ts, c \in Cell : Points(t, c, x)
<1>1. \A t \in ts : Range(mem[t]) = {mem[t][c] : c \in Cell}
  BY DEF Range, Typed
<1>2. ASSUME NEW x \in Below(ts)
      PROVE  \E t \in ts, c \in Cell : Points(t, c, x)
  <2>1. PICK e : e \in UNION {Range(mem[t]) : t \in ts} /\ IsTable(e) /\ x = e.ppn
    BY DEF Below
  <2>2. PICK t \in ts : e \in Range(mem[t])
    BY <2>1
  <2>3. PICK c \in Cell : e = mem[t][c]
    BY <1>1, <2>2
  <2> QED
    BY <2>1, <2>3 DEF Points
<1>3. ASSUME NEW t \in ts, NEW c \in Cell, NEW x, Points(t, c, x)
      PROVE  x \in Below(ts)
  <2>1. mem[t][c] \in UNION {Range(mem[u]) : u \in ts} /\ IsTable(mem[t][c]) /\ mem[t][c].ppn = x
    BY <1>1, <1>3 DEF Points
  <2> QED
    BY <2>1 DEF Below
<1> QED
  BY <1>2, <1>3

LEMMA TablesFacts ==
  ASSUME Typed, Structure, NEW r \in Tops
  PROVE  Tables(r) \subseteq Tops \union Middles \union Leaves
<1>1. r \in Frame
  BY DEF Tops
<1>2. ASSUME NEW t \in Tops \union Middles, NEW c \in Cell, NEW x, Points(t, c, x)
      PROVE  x \in Frame
  BY <1>2, ConstantFacts DEF Structure, EntriesKnown, Points, IsTable
<1>3. \A x : x \in Below({r}) <=> \E c \in Cell : Points(r, c, x)
  BY <1>1, BelowFacts
<1>4. Below({r}) \subseteq Middles
  BY <1>2, <1>3 DEF Middles
<1>5. Below({r}) \in SUBSET Frame
  BY <1>4 DEF Middles
<1>6. \A x : x \in Below(Below({r})) <=> \E t \in Below({r}), c \in Cell : Points(t, c, x)
  BY <1>5, BelowFacts
<1>7. Below(Below({r})) \subseteq Leaves
  BY <1>2, <1>4, <1>6 DEF Leaves
<1> QED
  BY <1>4, <1>7 DEF Tables

\* The place of findEntry is in the mapping under construction.
LEMMA PlaceInTables == Inv => TypeOK
<1> SUFFICES ASSUME Inv PROVE TypeOK
  OBVIOUS
<1>1. Typed /\ Structure /\ WalkKnown
  BY DEF Inv
<1>2. ASSUME Walking
      PROVE  root \in taken /\ table \in Tables(root)
  <2>1. root \in Tops /\ root \in Frame /\ GetVpnLevels(Page.vpn) \in Cell \X Cell \X Cell
    BY <1>2, PlaceFacts
  <2>2. root \in taken
    BY <1>1, <2>1 DEF Structure, RolesApart
  <2>3. \A x : x \in Below({root}) <=> \E c \in Cell : Points(root, c, x)
    BY <1>1, <2>1, BelowFacts
  <2>4. Below({root}) \in SUBSET Frame
    <3>1. ASSUME NEW c \in Cell, NEW x, Points(root, c, x)
          PROVE  x \in Frame
      BY <1>1, <2>1, <3>1, ConstantFacts DEF Structure, EntriesKnown, Points, IsTable
    <3> QED
      BY <2>3, <3>1
  <2>5. \A x : x \in Below(Below({root})) <=> \E t \in Below({root}), c \in Cell : Points(t, c, x)
    BY <1>1, <2>4, BelowFacts
  <2>6. table = root \/ table \in Below({root}) \/ table \in Below(Below({root}))
    BY <1>1, <1>2, <2>1, <2>3, <2>5 DEF WalkKnown, Walking
  <2> QED
    BY <2>2, <2>6 DEF Tables
<1> QED
  BY <1>1, <1>2 DEF TypeOK, Typed

\* Entries stay in the range of physical pages, no frame is used that the
\* allocator has not handed out, and findEntry is at a table of the mapping
\* under construction: it never walks into the page of a program
\* (mapping.c:41-65).
THEOREM TypeCorrect == Spec => []TypeOK
  BY SpecInv, PlaceInTables, PTL

LEMMA SplitFacts ==
  ASSUME NEW v \in VPage
  PROVE  Split(v) \in Cell \X Cell \X Cell /\ Split(v) = GetVpnLevels(v)
<1> DEFINE f0 == Fan[0]
           f1 == Fan[1]
           f2 == Fan[2]
           q == v \div (f1 * f2)
<1>1. /\ f0 \in Nat /\ f0 > 0 /\ f1 \in Nat /\ f1 > 0 /\ f2 \in Nat /\ f2 > 0
  BY ConstantFacts
<1>2. v \in Nat /\ v <= f0 * f1 * f2 - 1
  BY DEF VPage, VPages
<1>3. Split(v) = <<q, (v \div f2) % f1, v % f2>>
  BY DEF Split
<1>4. GetVpnLevels(v) = <<q % f0, (v \div f2) % f1, v % f2>>
  BY DEF GetVpnLevels
<1> HIDE DEF f0, f1, f2
<1>5. f1 * f2 \in Nat /\ f1 * f2 > 0
  BY <1>1
<1>6. q \in Nat /\ (f1 * f2) * q <= v
  BY <1>2, <1>5, DivFacts
<1> HIDE DEF q
<1>7. q < f0
  <2> SUFFICES ASSUME q >= f0 PROVE FALSE
    BY <1>1, <1>6
  <2> DEFINE n == f1 * f2
  <2>1. n \in Nat /\ n * q <= v /\ v <= f0 * n - 1
    <3>1. f0 * f1 * f2 = f0 * n
      BY <1>1
    <3> QED
      BY <1>2, <1>5, <1>6, <3>1
  <2> HIDE DEF n
  <2>2. n * f0 <= n * q
    BY <1>1, <1>6, <2>1
  <2> QED
    BY <1>1, <1>2, <1>6, <2>1, <2>2
<1>8. q % f0 = q
  BY <1>1, <1>6, <1>7
<1>9. Split(v) = GetVpnLevels(v)
  BY <1>3, <1>4, <1>8
<1> QED
  BY <1>2, <1>9, IndexFacts

\* The tables on the way from a root to a page.
Way(r, v, m, l) == Points(r, Split(v)[1], m) /\ Points(m, Split(v)[2], l)

LEMMA WayFacts ==
  ASSUME Typed, Structure, NEW r \in Tops, NEW v \in VPage, NEW m, NEW l, Way(r, v, m, l)
  PROVE  /\ m \in Middles /\ l \in Leaves
         /\ Translate(r, v) = IF IsLeaf(mem[l][Split(v)[3]]) THEN mem[l][Split(v)[3]] ELSE Unmapped
<1>1. Split(v) \in Cell \X Cell \X Cell /\ r \in Frame
  BY SplitFacts DEF Tops
<1>2. ASSUME NEW t \in Tops \union Middles, NEW c \in Cell, NEW x, Points(t, c, x)
      PROVE  x \in Frame
  BY <1>2, ConstantFacts DEF Structure, EntriesKnown, Points, IsTable
<1>3. m \in Middles
  BY <1>1, <1>2 DEF Way, Middles
<1>4. l \in Leaves
  BY <1>1, <1>2, <1>3 DEF Way, Leaves
<1>5. m \in Frame /\ l \in Frame
  BY <1>3, <1>4 DEF Middles, Leaves
<1>6. /\ IsTable(Fetch(r, Split(v)[1])) /\ Fetch(r, Split(v)[1]).ppn = m
      /\ IsTable(Fetch(m, Split(v)[2])) /\ Fetch(m, Split(v)[2]).ppn = l
      /\ Fetch(l, Split(v)[3]) = mem[l][Split(v)[3]]
  BY <1>1, <1>5 DEF Way, Points, Fetch
<1>7. Translate(r, v) = IF IsLeaf(Fetch(l, Split(v)[3])) THEN Fetch(l, Split(v)[3]) ELSE Unmapped
  BY <1>6 DEF Translate
<1> QED
  BY <1>3, <1>4, <1>6, <1>7

LEMMA NoWayFacts ==
  ASSUME Typed, NEW r \in Tops, NEW v \in VPage, \A m, l : ~Way(r, v, m, l)
  PROVE  Translate(r, v) = Unmapped
<1> DEFINE i == Split(v)
           m == Fetch(r, i[1]).ppn
           l == Fetch(m, i[2]).ppn
<1>1. ~(IsTable(Fetch(r, i[1])) /\ IsTable(Fetch(m, i[2])))
  <2> SUFFICES ASSUME IsTable(Fetch(r, i[1])), IsTable(Fetch(m, i[2])) PROVE FALSE
    OBVIOUS
  <2>1. Fetch(r, i[1]) = mem[r][i[1]] /\ Fetch(m, i[2]) = mem[m][i[2]]
    BY ConstantFacts DEF Fetch, IsTable
  <2>2. Way(r, v, m, l)
    BY <2>1 DEF Way, Points
  <2> QED
    BY <2>2
<1> QED
  BY <1>1 DEF Translate

\* A page of a program comes from a leaf entry that lends it a frame.
LEMMA UserPageFacts ==
  ASSUME Typed, Structure, NEW r \in Tops, NEW v \in UserPages(r)
  PROVE  \E m \in Middles, l \in Leaves :
           /\ Way(r, v, m, l) /\ Translate(r, v) = mem[l][Split(v)[3]]
           /\ Translate(r, v).ppn \in Frame /\ Lends(l, Split(v)[3], Translate(r, v).ppn)
<1>1. v \in VPage /\ "U" \in Translate(r, v).flags /\ Translate(r, v) # Unmapped
  BY DEF UserPages, Unmapped
<1>2. PICK m, l : Way(r, v, m, l)
  BY <1>1, NoWayFacts
<1>3. m \in Middles /\ l \in Leaves /\ Translate(r, v) = mem[l][Split(v)[3]]
  BY <1>1, <1>2, WayFacts
<1>4. Split(v)[3] \in Cell /\ IsLeaf(mem[l][Split(v)[3]])
  BY <1>1, <1>2, WayFacts, SplitFacts
<1> DEFINE e == mem[l][Split(v)[3]]
<1>5. e \in Pte /\ "U" \in e.flags /\ Translate(r, v) = e
  BY <1>1, <1>3, <1>4 DEF IsLeaf, Usable
<1>6. e.ppn \in Frame
  BY <1>3, <1>4, <1>5, ConstantFacts DEF Structure, EntriesKnown
<1>7. Lends(l, Split(v)[3], e.ppn)
  BY <1>5 DEF Lends
<1> HIDE DEF e
<1> QED
  BY <1>2, <1>3, <1>5, <1>6, <1>7

LEMMA UserFramesOwned ==
  ASSUME Typed, Structure, NEW r \in Tops
  PROVE  UserFrames(r) \subseteq Owned
<1>1. ASSUME NEW v \in UserPages(r) PROVE Translate(r, v).ppn \in Owned
  BY UserPageFacts, SplitFacts DEF Owned, UserPages
<1> QED
  BY <1>1 DEF UserFrames

LEMMA Isolation == Inv => UserIsolated
<1> SUFFICES ASSUME Inv PROVE UserIsolated
  OBVIOUS
<1>1. Typed /\ Structure /\ RootsKnown
  BY RootsFacts DEF Inv
<1>2. \A r \in Range(Roots) : r \in Tops
  BY <1>1, ElementOfSeq DEF RootsKnown, Range, Tops
<1>3. ASSUME NEW r \in Tops
      PROVE  UserFrames(r) \subseteq Owned /\ UserFrames(r) \subseteq taken
  BY <1>1, UserFramesOwned DEF Structure, RolesApart
<1>4. ASSUME NEW r \in Tops, NEW s \in Tops
      PROVE  UserFrames(r) \intersect Tables(s) = {}
  BY <1>1, <1>3, TablesFacts DEF Structure, RolesApart
<1>5. ASSUME NEW r \in Tops, NEW s \in Tops, NEW g \in UserFrames(r) \intersect UserFrames(s)
      PROVE  r = s
  <2>1. PICK v \in UserPages(r), w \in UserPages(s) : g = Translate(r, v).ppn /\ g = Translate(s, w).ppn
    BY DEF UserFrames
  <2>2. PICK m \in Middles, l \in Leaves :
          Way(r, v, m, l) /\ g \in Frame /\ Lends(l, Split(v)[3], g)
    BY <1>1, <2>1, UserPageFacts
  <2>3. PICK n \in Middles, k \in Leaves :
          Way(s, w, n, k) /\ Lends(k, Split(w)[3], g)
    BY <1>1, <2>1, UserPageFacts
  <2>4. Split(v) \in Cell \X Cell \X Cell /\ Split(w) \in Cell \X Cell \X Cell
    BY SplitFacts DEF UserPages
  <2>5. l = k
    BY <1>1, <2>2, <2>3, <2>4 DEF Structure, OneWay
  <2>6. m = n
    BY <1>1, <2>2, <2>3, <2>4, <2>5 DEF Structure, OneWay, Way, Leaves
  <2> QED
    BY <1>1, <2>2, <2>3, <2>4, <2>6 DEF Structure, OneWay, Way, Middles
<1> QED
  BY <1>2, <1>3, <1>4, <1>5 DEF UserIsolated

\* What a user program can reach is its own, whatever the ELF files ask for:
\* frames that are in use, that no other program can reach, and of which
\* none holds a page table of anyone (mapping.c:55 and 105, thread.c:164).
THEOREM ProgramsApart == Spec => []UserIsolated
  BY SpecInv, Isolation, PTL
------------------------------------------------------------------------------
(* How the steps change what the hardware reads.                           *)

LEMMA DigitsFacts ==
  ASSUME NEW v \in Nat, NEW f1 \in Nat, NEW f2 \in Nat, f1 > 0, f2 > 0
  PROVE  v = (f1 * f2) * (v \div (f1 * f2)) + f2 * ((v \div f2) % f1) + (v % f2)
<1> DEFINE n == f1 * f2
           a == v \div f2
           b == a \div f1
           c == a % f1
           d == v % f2
<1>1. a \in Nat /\ v = f2 * a + d /\ d \in 0 .. f2 - 1
  BY DivFacts
<1> HIDE DEF a, d
<1>2. b \in Nat /\ a = f1 * b + c /\ c \in 0 .. f1 - 1
  BY <1>1, DivFacts
<1> HIDE DEF b, c
<1>3. n \in Nat /\ n > 0
  OBVIOUS
<1>4. f2 * a = n * b + f2 * c
  <2>1. f2 * (f1 * b + c) = f2 * (f1 * b) + f2 * c
    BY <1>2
  <2>2. f2 * (f1 * b) = (f1 * f2) * b
    BY <1>2
  <2> QED
    BY <1>2, <2>1, <2>2
<1>5. f2 * c + d \in 0 .. n - 1
  <2>1. f2 * c <= f2 * (f1 - 1) /\ f2 * c \in Nat
    BY <1>2
  <2>2. f2 * (f1 - 1) = n - f2
    OBVIOUS
  <2> HIDE DEF n
  <2> QED
    BY <1>1, <1>3, <2>1, <2>2
<1> HIDE DEF n
<1>6. v = n * b + (f2 * c + d)
  <2>1. n * b \in Nat /\ f2 * c \in Nat
    BY <1>2, <1>3
  <2> QED
    BY <1>1, <1>4, <2>1
<1>7. v \div n \in Nat /\ v % n \in 0 .. n - 1 /\ v = n * (v \div n) + (v % n)
  BY <1>3, DivFacts
<1>8. v \div n = b
  <2> DEFINE r == f2 * c + d
             q == v \div n
             s == v % n
  <2>1. /\ b \in Int /\ r \in 0 .. n - 1 /\ q \in Int /\ s \in 0 .. n - 1
        /\ n * b + r = n * q + s
    BY <1>2, <1>5, <1>6, <1>7
  <2> HIDE DEF q, r, s
  <2>2. b = q
    BY ONLY <1>3, <2>1, QuotientIsUnique
  <2> QED
    BY <2>2 DEF q
<1>9. v = n * (v \div n) + f2 * c + d
  <2>1. n * b \in Nat /\ f2 * c \in Nat
    BY <1>2, <1>3
  <2> QED
    BY <1>1, <1>6, <1>8, <2>1
<1> QED
  BY <1>9 DEF n, a, c, d

\* No two virtual pages are looked up at the same place.
LEMMA SplitInjective ==
  ASSUME NEW v \in VPage, NEW u \in VPage, Split(v) = Split(u)
  PROVE  v = u
<1> DEFINE f1 == Fan[1]
           f2 == Fan[2]
<1>1. v \in Nat /\ u \in Nat /\ f1 \in Nat /\ f1 > 0 /\ f2 \in Nat /\ f2 > 0
  BY ConstantFacts DEF VPage
<1>2. /\ v \div (f1 * f2) = u \div (f1 * f2)
      /\ (v \div f2) % f1 = (u \div f2) % f1
      /\ v % f2 = u % f2
  BY DEF Split
<1> HIDE DEF f1, f2
<1>3. /\ v = (f1 * f2) * (v \div (f1 * f2)) + f2 * ((v \div f2) % f1) + (v % f2)
      /\ u = (f1 * f2) * (u \div (f1 * f2)) + f2 * ((u \div f2) % f1) + (u % f2)
  BY <1>1, DigitsFacts
<1> QED
  BY <1>2, <1>3

\* What Translate finds, by the way to it.
WaysKnown ==
  \A r \in Tops, v \in VPage :
    /\ \A m, l : Way(r, v, m, l) =>
         /\ m \in Middles /\ l \in Leaves
         /\ Translate(r, v) = IF IsLeaf(mem[l][Split(v)[3]]) THEN mem[l][Split(v)[3]] ELSE Unmapped
    /\ (\A m, l : ~Way(r, v, m, l)) => Translate(r, v) = Unmapped

LEMMA WaysFacts == Typed /\ Structure => WaysKnown
  BY WayFacts, NoWayFacts DEF WaysKnown

LEMMA WaysFactsNext == Typed' /\ Structure' => WaysKnown'
  BY WaysFacts, PTL
\* The upper tables stay as they are.
LEMMA SameWays ==
  ASSUME WaysKnown, WaysKnown', EntriesKnown,
         \A u \in Tops \union Middles, c \in Cell : \A g : Points(u, c, g)' <=> Points(u, c, g),
         NEW r \in Tops, r \in Tops', NEW v \in VPage
  PROVE  \/ Translate(r, v) = Unmapped /\ Translate(r, v)' = Unmapped
         \/ \E m \in Middles, l \in Leaves :
              /\ Way(r, v, m, l)
              /\ Translate(r, v) =
                   IF IsLeaf(mem[l][Split(v)[3]]) THEN mem[l][Split(v)[3]] ELSE Unmapped
              /\ Translate(r, v)' =
                   IF IsLeaf(mem'[l][Split(v)[3]]) THEN mem'[l][Split(v)[3]] ELSE Unmapped
<1>1. Split(v) \in Cell \X Cell \X Cell
  BY SplitFacts
<1>2. \A m : Points(r, Split(v)[1], m) => m \in Middles
  BY <1>1, ConstantFacts DEF EntriesKnown, Points, IsTable, Middles
<1>3. \A m, l : Way(r, v, m, l)' <=> Way(r, v, m, l)
  <2> TAKE m, l
  <2>1. Points(r, Split(v)[1], m)' <=> Points(r, Split(v)[1], m)
    BY <1>1
  <2>2. m \in Middles => (Points(m, Split(v)[2], l)' <=> Points(m, Split(v)[2], l))
    BY <1>1
  <2> QED
    BY <1>2, <2>1, <2>2 DEF Way
<1>4. CASE \A m, l : ~Way(r, v, m, l)
  BY <1>3, <1>4 DEF WaysKnown
<1>5. CASE \E m, l : Way(r, v, m, l)
  <2>1. PICK m, l : Way(r, v, m, l)
    BY <1>5
  <2>2. Way(r, v, m, l)'
    BY <1>3, <2>1
  <2>3. /\ m \in Middles /\ l \in Leaves
        /\ Translate(r, v) = IF IsLeaf(mem[l][Split(v)[3]]) THEN mem[l][Split(v)[3]] ELSE Unmapped
    BY <2>1 DEF WaysKnown
  <2>4. Translate(r, v)' = IF IsLeaf(mem'[l][Split(v)[3]]) THEN mem'[l][Split(v)[3]] ELSE Unmapped
    BY <2>2 DEF WaysKnown, IsLeaf
  <2> QED
    BY <2>1, <2>3, <2>4
<1> QED
  BY <1>4, <1>5

\* Nothing is written in a frame that is in use.
LEMMA SameTranslate ==
  ASSUME Inv, Inv', \A u \in taken : mem'[u] = mem[u],
         NEW r \in Tops, r \in Tops', NEW v \in VPage
  PROVE  Translate(r, v)' = Translate(r, v)
<1>1. WaysKnown /\ WaysKnown' /\ EntriesKnown
  BY WaysFacts, WaysFactsNext DEF Inv, Structure
<1>2. Tops \union Middles \union Leaves \subseteq taken
  BY DEF Inv, Structure, RolesApart
<1>3. \A u \in Tops \union Middles, c \in Cell : \A g : Points(u, c, g)' <=> Points(u, c, g)
  BY <1>2 DEF Points, IsTable
<1>4. \A l \in Leaves : mem'[l] = mem[l]
  BY <1>2
<1> QED
  BY <1>1, <1>3, <1>4, SameWays

\* A table that is empty is as good as none.
LEMMA TableAdded ==
  ASSUME Inv, Inv', AddTable, NEW r \in Tops, NEW v \in VPage
  PROVE  Translate(r, v)' = Translate(r, v) /\ Roots' = Roots
<1> PICK f \in Frame :
      Take(f) /\ mem' = [Cleared(f) EXCEPT ![table][Index] = [ppn |-> f, flags |-> {}]]
  BY DEF AddTable
<1> DEFINE i == Split(v)
<1>1. f \notin taken /\ taken' = taken \union {f}
  BY DEF Take
<1>2. Walking /\ Typed /\ Structure /\ WaysKnown /\ WaysKnown'
  BY WaysFacts, WaysFactsNext DEF Inv, AddTable
<1>3. table \in Tops \union Middles /\ Index \in Cell /\ mem[table][Index] = Zero
  BY <1>2, PlaceFacts DEF AddTable, Typed, Level, Entry
<1>4. Roots' = Roots /\ Tops' = Tops
  BY DEF AddTable, walkVars, Roots, Tops
<1>5. /\ \A u \in taken, c \in Cell : u # table \/ c # Index => mem'[u][c] = mem[u][c]
      /\ \A c \in Cell : mem'[f][c] = Zero
      /\ mem'[table][Index] = [ppn |-> f, flags |-> {}]
  <2>1. HangUp(f, table, Index)
    BY DEF HangUp
  <2> QED
    BY ONLY <1>1, <1>2, <1>3, <1>4, <2>1, NewTable, f \in Frame
<1>6. /\ Tops \union Middles \union Leaves \subseteq taken /\ table \notin Leaves
      /\ Tops \subseteq Frame /\ Middles \subseteq Frame
  BY <1>2, <1>3 DEF Structure, RolesApart, Tops, Middles
<1>7. i \in Cell \X Cell \X Cell
  BY SplitFacts
<1>8. /\ \A u \in taken, c \in Cell : \A g : Points(u, c, g) => Points(u, c, g)'
      /\ \A u \in taken, c \in Cell : \A g : Points(u, c, g)' => Points(u, c, g) \/ g = f
      /\ \A c \in Cell : \A g : ~Points(f, c, g)'
  BY <1>3, <1>5, ConstantFacts DEF Points, IsTable
<1>9. CASE \E m, l : Way(r, v, m, l)
  <2>1. PICK m, l : Way(r, v, m, l)
    BY <1>9
  <2>2. /\ m \in Middles /\ l \in Leaves
        /\ Translate(r, v) = IF IsLeaf(mem[l][i[3]]) THEN mem[l][i[3]] ELSE Unmapped
    BY <1>2, <2>1 DEF WaysKnown
  <2>3. Way(r, v, m, l)'
    BY <1>6, <1>7, <1>8, <2>1, <2>2 DEF Way
  <2>4. Translate(r, v)' = IF IsLeaf(mem'[l][i[3]]) THEN mem'[l][i[3]] ELSE Unmapped
    BY <1>2, <1>4, <2>3 DEF WaysKnown, IsLeaf
  <2>5. mem'[l][i[3]] = mem[l][i[3]]
    BY <1>5, <1>6, <1>7, <2>2
  <2> QED
    BY <1>4, <2>2, <2>4, <2>5
<1>10. CASE \A m, l : ~Way(r, v, m, l)
  <2>1. Translate(r, v) = Unmapped
    BY <1>2, <1>10 DEF WaysKnown
  <2>2. ASSUME NEW m, NEW l, Way(r, v, m, l)'
        PROVE  Translate(r, v)' = Unmapped
    <3>1. /\ m \in Middles' /\ l \in Leaves'
          /\ Translate(r, v)' = IF IsLeaf(mem'[l][i[3]]) THEN mem'[l][i[3]] ELSE Unmapped
      BY <1>2, <1>4, <2>2 DEF WaysKnown, IsLeaf
    <3>2. Points(r, i[1], m)' /\ Points(m, i[2], l)'
      BY <2>2 DEF Way
    <3>3. m # f
      BY <1>7, <1>8, <3>2
    <3>4. Points(r, i[1], m)
      BY <1>6, <1>7, <1>8, <3>2, <3>3
    <3>5. m \in Middles
      BY <1>2, <1>7, <3>4, ConstantFacts DEF Structure, EntriesKnown, Points, IsTable, Middles
    <3>6. l = f
      BY <1>6, <1>7, <1>8, <1>10, <3>2, <3>4, <3>5 DEF Way
    <3>7. ~IsLeaf(mem'[l][i[3]])
      BY <1>5, <1>7, <3>6, ConstantFacts DEF IsLeaf, Usable
    <3> QED
      BY <3>1, <3>7
  <2>3. CASE \A m, l : ~Way(r, v, m, l)'
    <3>1. Translate(r, v)' = Unmapped'
      BY <1>2, <1>4, <2>3 DEF WaysKnown
    <3> QED
      BY <1>4, <2>1, <3>1 DEF Unmapped
  <2> QED
    BY <1>4, <2>1, <2>2, <2>3
<1> QED
  BY <1>9, <1>10

\* A page is entered where the way to it ends, and for no other page.
LEMMA PageEntered ==
  ASSUME Inv, Inv', Roots' = Roots,
         NEW top \in Tops, NEW middle \in Frame, NEW leaf \in Leaves, NEW s \in Cell \X Cell \X Cell,
         Points(top, s[1], middle), Points(middle, s[2], leaf), mem[leaf][s[3]] = Zero,
         NEW e \in Pte, e.flags # {}, mem'[leaf][s[3]] = e,
         \A u \in taken, c \in Cell : u # leaf \/ c # s[3] => mem'[u][c] = mem[u][c]
  PROVE  \A r \in Tops, v \in VPage :
           IF r = top /\ Split(v) = s
           THEN Translate(r, v) = Unmapped /\ Translate(r, v)' = IF IsLeaf(e) THEN e ELSE Unmapped
           ELSE Translate(r, v)' = Translate(r, v)
<1>1. Typed /\ Structure /\ WaysKnown /\ WaysKnown'
  BY WaysFacts, WaysFactsNext DEF Inv
<1>2. middle \in Middles
  BY DEF Middles
<1>3. Tops' = Tops
  BY DEF Tops
<1>4. /\ Tops \union Middles \union Leaves \subseteq taken /\ leaf \notin Tops \union Middles
      /\ Leaves \subseteq Frame
  BY <1>1 DEF Structure, RolesApart, Leaves
<1>5. \A u \in Tops \union Middles, c \in Cell : \A g : Points(u, c, g)' <=> Points(u, c, g)
  BY <1>4 DEF Points, IsTable
<1>6. ~IsLeaf(mem[leaf][s[3]])
  BY ConstantFacts DEF IsLeaf, Usable
<1>7. ASSUME NEW r \in Tops, NEW v \in VPage, r = top, Split(v) = s
      PROVE  Translate(r, v) = Unmapped /\ Translate(r, v)' = IF IsLeaf(e) THEN e ELSE Unmapped
  <2>1. Points(top, s[1], middle)' /\ Points(middle, s[2], leaf)'
    BY <1>2, <1>5
  <2>2. Way(r, v, middle, leaf) /\ Way(r, v, middle, leaf)'
    BY <1>7, <2>1 DEF Way
  <2>3. Translate(r, v) = IF IsLeaf(mem[leaf][s[3]]) THEN mem[leaf][s[3]] ELSE Unmapped
    BY <1>1, <1>7, <2>2 DEF WaysKnown
  <2>4. Translate(r, v)' = IF IsLeaf(mem'[leaf][s[3]]) THEN mem'[leaf][s[3]] ELSE Unmapped
    BY <1>1, <1>3, <1>7, <2>2 DEF WaysKnown, IsLeaf, Usable, Unmapped
  <2> QED
    BY <1>6, <2>3, <2>4
<1>8. ASSUME NEW r \in Tops, NEW v \in VPage, ~(r = top /\ Split(v) = s)
      PROVE  Translate(r, v)' = Translate(r, v)
  <2>1. Split(v) \in Cell \X Cell \X Cell
    BY SplitFacts
  <2>2. CASE Translate(r, v) = Unmapped /\ Translate(r, v)' = Unmapped
    BY <2>2
  <2>3. ASSUME NEW m \in Middles, NEW l \in Leaves, Way(r, v, m, l)
        PROVE  mem'[l][Split(v)[3]] = mem[l][Split(v)[3]]
    <3> SUFFICES ASSUME l = leaf, Split(v)[3] = s[3] PROVE FALSE
      BY <1>4, <2>1
    <3>1. Points(m, Split(v)[2], leaf) /\ Points(r, Split(v)[1], m)
      BY <2>3 DEF Way
    <3>2. m = middle /\ Split(v)[2] = s[2]
      BY <1>1, <1>2, <1>4, <2>1, <3>1 DEF Structure, OneWay
    <3>3. r = top /\ Split(v)[1] = s[1]
      BY <1>1, <2>1, <3>1, <3>2 DEF Structure, OneWay
    <3> QED
      BY <1>8, <2>1, <3>2, <3>3
  <2> QED
    BY <1>1, <1>3, <1>5, <2>2, <2>3, SameWays DEF Structure
<1> QED
  BY <1>7, <1>8

\* What the hardware reads after a page has been entered as e.
TranslatesTo(e) ==
  \A r \in Tops, v \in VPage :
    IF r = root /\ Split(v) = GetVpnLevels(Page.vpn)
    THEN Translate(r, v) = Unmapped /\ Translate(r, v)' = IF IsLeaf(e) THEN e ELSE Unmapped
    ELSE Translate(r, v)' = Translate(r, v)

LEMMA MapPageTranslates ==
  ASSUME Inv, MapLinear \/ MapFramed
  PROVE  \E e : Entered(e) /\ TranslatesTo(e)
<1>1. PICK e : Entered(e)
  BY MapLinearEnters, MapFramedEnters
<1>2. Inv' /\ Roots' = Roots
  BY MapPageInv
<1>3. Walking /\ level = 2 /\ mem[table][Index] = Zero
  BY DEF MapLinear, MapFramed, AtEntry, Entry
<1>4. /\ root \in Tops /\ table \in Leaves /\ Index = GetVpnLevels(Page.vpn)[3]
      /\ GetVpnLevels(Page.vpn) \in Cell \X Cell \X Cell
  BY <1>3, PlaceFacts DEF Index
<1>5. PICK f \in Frame : /\ Points(root, GetVpnLevels(Page.vpn)[1], f)
                         /\ Points(f, GetVpnLevels(Page.vpn)[2], table)
  BY <1>3 DEF Inv, WalkKnown, Walking
<1>6. TranslatesTo(e)
  <2> DEFINE s == GetVpnLevels(Page.vpn)
  <2> HIDE DEF s
  <2>1. /\ e \in Pte /\ e.flags # {} /\ mem[table][s[3]] = Zero /\ mem'[table][s[3]] = e
        /\ \A u \in taken, c \in Cell : u # table \/ c # s[3] => mem'[u][c] = mem[u][c]
    BY <1>1, <1>3, <1>4 DEF Entered, s
  <2>2. /\ root \in Tops /\ table \in Leaves /\ s \in Cell \X Cell \X Cell
        /\ f \in Frame /\ Points(root, s[1], f) /\ Points(f, s[2], table)
    BY <1>4, <1>5 DEF s
  <2>3. \A r \in Tops, v \in VPage :
          IF r = root /\ Split(v) = s
          THEN Translate(r, v) = Unmapped /\ Translate(r, v)' = IF IsLeaf(e) THEN e ELSE Unmapped
          ELSE Translate(r, v)' = Translate(r, v)
    BY ONLY Inv, <1>2, <2>1, <2>2, PageEntered
  <2> QED
    BY <2>3 DEF TranslatesTo, s
<1> QED
  BY <1>1, <1>6

\* No step takes a page away, or writes in one of a program.
Kept ==
  /\ \A r \in Tops : r \in Tops'
  /\ \A r \in Tops, v \in VPage :
       Translate(r, v) # Unmapped => Translate(r, v)' = Translate(r, v)
  /\ \A g \in Owned : mem'[g] = mem[g]

LEMMA StepKeeps == Inv /\ [Next]_vars => Kept
<1> SUFFICES ASSUME Inv, [Next]_vars PROVE Kept
  OBVIOUS
<1>1. Inv' /\ Typed /\ Structure
  BY StepInv DEF Inv
<1>2. /\ Owned \subseteq taken /\ Tops \union Middles \union Leaves \subseteq taken
      /\ Owned \intersect (Tops \union Middles \union Leaves) = {}
  BY <1>1 DEF Structure, RolesApart
<1>3. ASSUME \A r \in Tops : r \in Tops', \A u \in taken : mem'[u] = mem[u]
      PROVE  Kept
  BY <1>1, <1>2, <1>3, SameTranslate DEF Kept
<1>4. ASSUME UNCHANGED mem, Roots' = Roots
      PROVE  Kept
  BY <1>3, <1>4 DEF Tops
<1>5. CASE \E x \in Program \union {KernelOnly} : NewKernelMapping(x)
  <2>1. PICK f \in Frame : Take(f) /\ mem' = Cleared(f)
    BY <1>5 DEF NewKernelMapping
  <2>2. \A u \in taken : mem'[u] = mem[u]
    BY <1>1, <2>1, ClearedFacts DEF Take
  <2>3. RootsKnown /\ RootsKnown' /\ Len(spaces') = Len(spaces) /\ UNCHANGED spaces
    BY <1>1, <1>5, RootsFacts, RootsFactsNext DEF Inv, NewKernelMapping
  <2>4. ~Building
    BY <1>5 DEF NewKernelMapping, Building
  <2>5. \A i \in DOMAIN Roots : i \in DOMAIN Roots' /\ Roots'[i] = Roots[i]
    BY <2>3, <2>4 DEF RootsKnown
  <2>6. \A r \in Tops : r \in Tops'
    BY <2>5 DEF Tops
  <2> QED
    BY <1>3, <2>2, <2>6
<1>6. CASE AddTable
  <2>1. Roots' = Roots
    BY <1>6 DEF AddTable, walkVars, Roots
  <2>2. PICK f \in Frame : Take(f) /\ HangUp(f, table, Index)
    BY <1>6 DEF AddTable, HangUp
  <2>3. Walking /\ table \in Tops \union Middles /\ Index \in Cell /\ mem[table][Index] = Zero
    BY <1>1, <1>6, PlaceFacts DEF AddTable, Typed, Level, Entry
  <2>4. ASSUME NEW g \in Owned PROVE mem'[g] = mem[g]
    <3>1. g \in Frame /\ g # f /\ g # table
      BY <1>2, <2>2, <2>3, <2>4 DEF Owned, Take
    <3> QED
      BY <1>1, <2>2, <2>3, <3>1 DEF HangUp, Cleared, Typed
  <2> QED
    BY <1>1, <1>6, <2>1, <2>4, TableAdded DEF Kept, Tops
<1>7. CASE MapLinear \/ MapFramed
  <2>1. PICK e : Entered(e) /\ TranslatesTo(e)
    BY <1>7, MapPageTranslates
  <2>2. Roots' = Roots /\ table \in Leaves
    BY <1>7, MapPageInv, PlaceFacts DEF MapLinear, MapFramed, AtEntry
  <2>3. ASSUME NEW g \in Owned PROVE mem'[g] = mem[g]
    <3>1. g \in taken /\ g \in Frame /\ g # table
      BY <1>2, <2>2, <2>3 DEF Owned
    <3>2. \A c \in Cell : mem'[g][c] = mem[g][c]
      BY <2>1, <3>1 DEF Entered
    <3>3. mem[g] \in [Cell -> Word \union Pte] /\ mem'[g] \in [Cell -> Word \union Pte]
      BY <1>1, <2>1, <3>1 DEF Typed, Entered
    <3> QED
      BY <3>2, <3>3
  <2>4. \A r \in Tops, v \in VPage :
          Translate(r, v) # Unmapped => Translate(r, v)' = Translate(r, v)
    BY <2>1 DEF TranslatesTo
  <2> QED
    BY <2>2, <2>3, <2>4 DEF Kept, Tops
<1>8. CASE Quiet
  BY <1>4, <1>8, QuietInv
<1> QED
  BY <1>5, <1>6, <1>7, <1>8 DEF Next, Stuck, Quiet
------------------------------------------------------------------------------
(* What has been entered is there.                                         *)

\* Page p is mapped from root r, as it was asked for.
Mapped(r, p) ==
  IF p.kind = "linear"
  THEN Translate(r, p.vpn) = [ppn |-> p.vpn - KernelOffset, flags |-> p.flags]
  ELSE /\ Translate(r, p.vpn).flags = p.flags
       /\ p.kind = "copied" => mem[Translate(r, p.vpn).ppn] = p.words

\* Within reach of the tables and with rights a page can have: no line of the loader
\* makes sure of it for the pages of a program.
FitPage(p) == p.vpn \in VPage /\ Usable(p.flags)

KernelDone(r) == \A p \in Range(KernelPages) : Mapped(r, p)

\* The kernel is in every space that has got so far, and alone in the first.
KernelKnown ==
  /\ \A i \in 1 .. Len(spaces) : KernelDone(spaces[i].root)
  /\ pc = "kernel" => \A p \in Range(KernelPages) : p \in Range(todo) \/ Mapped(root, p)
  /\ pc = "program" => KernelDone(root)
  /\ \A i \in DOMAIN Roots : i = 1 => UserPages(Roots[i]) = {}
  /\ Building /\ Len(spaces) = 0 => program = KernelOnly /\ todo \in Seq(LinearPage)

LEMMA LinearFits ==
  ASSUME NEW p \in LinearPage
  PROVE  FitPage(p)
<1>1. p.vpn \in VPage
  <2>1. VPages \in Nat /\ KernelOffset + MemoryEnd <= VPages
    BY ConstantFacts, MappingAssumption DEF VPages
  <2> QED
    BY <2>1, ConstantFacts DEF LinearPage, VPage
<1>2. Usable(p.flags)
  BY DEF LinearPage
<1> QED
  BY <1>1, <1>2 DEF FitPage

LEMMA RangeFacts ==
  /\ \A S : \A s \in Seq(S) : Range(s) \subseteq S
  /\ \A S : \A s \in Seq(S) : s # << >> => Range(s) \subseteq {Head(s)} \union Range(Tail(s))
<1>1. ASSUME NEW S, NEW s \in Seq(S)
      PROVE  Range(s) \subseteq S
  BY ElementOfSeq, LenProperties DEF Range
<1>2. ASSUME NEW S, NEW s \in Seq(S), s # << >>
      PROVE  Range(s) \subseteq {Head(s)} \union Range(Tail(s))
  <2>1. /\ Len(s) \in Nat /\ DOMAIN s = 1 .. Len(s)
        /\ Tail(s) \in Seq(S) /\ Len(Tail(s)) = Len(s) - 1
        /\ \A i \in 1 .. Len(Tail(s)) : Tail(s)[i] = s[i + 1]
        /\ Head(s) = s[1]
    BY <1>2, HeadTailProperties, LenProperties
  <2>2. DOMAIN Tail(s) = 1 .. Len(s) - 1
    BY <2>1, LenProperties
  <2> SUFFICES ASSUME NEW i \in 1 .. Len(s), i # 1
               PROVE  s[i] \in Range(Tail(s))
    BY <2>1 DEF Range
  <2>3. i - 1 \in 1 .. Len(s) - 1 /\ (i - 1) + 1 = i
    BY <2>1
  <2>4. Tail(s)[i - 1] = s[i]
    BY <2>1, <2>3
  <2> QED
    BY <2>2, <2>3, <2>4 DEF Range
<1> QED
  BY <1>1, <1>2

LEMMA MappedKept ==
  ASSUME Inv, [Next]_vars, NEW r \in Tops, NEW p \in LinearPage \union UserPage,
         p.vpn \in VPage, Mapped(r, p)
  PROVE  Mapped(r, p)'
<1>1. Kept /\ Typed /\ Structure
  BY StepKeeps DEF Inv
<1>2. Translate(r, p.vpn) # Unmapped
  BY DEF Mapped, Unmapped, LinearPage, UserPage, CopiedPage, FramedPage, UserFlags, Usable
<1>3. Translate(r, p.vpn)' = Translate(r, p.vpn)
  BY <1>1, <1>2 DEF Kept
<1>4. CASE p \in LinearPage
  BY <1>3, <1>4 DEF Mapped, LinearPage
<1>5. CASE p \in UserPage
  <2>1. p.kind # "linear" /\ "U" \in p.flags
    BY <1>5 DEF UserPage, CopiedPage, FramedPage, UserFlags
  <2>2. Translate(r, p.vpn).ppn \in UserFrames(r)
    BY <2>1 DEF Mapped, UserFrames, UserPages
  <2>3. Translate(r, p.vpn).ppn \in Owned
    BY <1>1, <2>2, UserFramesOwned
  <2>4. \A g : g = Translate(r, p.vpn).ppn => mem'[g] = mem[g]
    BY <1>1, <2>3 DEF Kept
  <2> QED
    BY <1>3, <2>1, <2>4 DEF Mapped
<1> QED
  BY <1>4, <1>5

LEMMA PageMapped ==
  ASSUME Inv, MapLinear \/ MapFramed, FitPage(Page), NEW r, NEW p, r = root, p = Page
  PROVE  Mapped(r, p)'
<1>1. PICK e : Entered(e) /\ TranslatesTo(e)
  BY MapPageTranslates
<1>2. r \in Tops /\ p \in LinearPage \union UserPage
  BY PlaceFacts DEF MapLinear, MapFramed, AtEntry
<1>3. p.vpn \in VPage /\ Split(p.vpn) = GetVpnLevels(Page.vpn)
  BY SplitFacts DEF FitPage
<1>4. IsLeaf(e)
  BY <1>1 DEF Entered, FitPage, IsLeaf
<1>5. Translate(r, p.vpn)' = e
  BY <1>1, <1>2, <1>3, <1>4 DEF TranslatesTo
<1>6. CASE p \in LinearPage
  <2>1. p.kind = "linear" /\ p \notin UserPage
    BY <1>6 DEF LinearPage, UserPage, CopiedPage, FramedPage
  <2>2. e \in Pte /\ e.ppn = p.vpn - KernelOffset /\ e.flags = p.flags
    BY <1>1, <2>1 DEF Entered
  <2>3. e = [ppn |-> p.vpn - KernelOffset, flags |-> p.flags]
    BY <2>2 DEF Pte
  <2> QED
    BY <1>5, <2>1, <2>3 DEF Mapped
<1>7. CASE p \in UserPage
  <2>1. p.kind # "linear" /\ p \notin LinearPage
    BY <1>7 DEF LinearPage, UserPage, CopiedPage, FramedPage
  <2>2. e.flags = p.flags /\ (p.kind = "copied" => mem'[e.ppn] = p.words)
    BY <1>1, <2>1 DEF Entered
  <2> QED
    BY <1>5, <2>1, <2>2 DEF Mapped
<1> QED
  BY <1>2, <1>6, <1>7

LEMMA SpacesRoots ==
  ASSUME Inv, NEW i \in 1 .. Len(spaces)
  PROVE  i \in DOMAIN Roots /\ Roots[i] = spaces[i].root /\ spaces[i].root \in Tops
<1>1. RootsKnown
  BY RootsFacts DEF Inv
<1>2. i \in DOMAIN Roots /\ Roots[i] = spaces[i].root
  BY <1>1 DEF RootsKnown
<1>3. Roots[i] \in Frame
  BY <1>1, <1>2, ElementOfSeq DEF RootsKnown
<1> QED
  BY <1>2, <1>3 DEF Tops

LEMMA KernelDoneKept ==
  ASSUME Inv, [Next]_vars, NEW r \in Tops, KernelDone(r)
  PROVE  KernelDone(r)'
<1>1. \A p \in Range(KernelPages) : p \in LinearPage
  BY PagesFacts, RangeFacts
<1>2. \A p \in Range(KernelPages) : Mapped(r, p)'
  BY <1>1, LinearFits, MappedKept DEF KernelDone, FitPage
<1> QED
  BY <1>2 DEF KernelDone

\* A root table that is empty maps nothing.
LEMMA EmptyRoot ==
  ASSUME Inv', NEW f, f \in Tops', \A c \in Cell : mem'[f][c] = Zero
  PROVE  UserPages(f)' = {} /\ \A v \in VPage : Translate(f, v)' = Unmapped
<1>1. WaysKnown'
  BY WaysFactsNext DEF Inv
<1>2. ASSUME NEW v \in VPage
      PROVE  Translate(f, v)' = Unmapped
  <2>1. ASSUME NEW m, NEW l PROVE ~Way(f, v, m, l)'
    BY SplitFacts, ConstantFacts DEF Way, Points, IsTable
  <2>2. Translate(f, v)' = Unmapped'
    BY <1>1, <2>1 DEF WaysKnown
  <2> QED
    BY <2>2 DEF Unmapped
<1>3. \A v \in VPage : "U" \notin Translate(f, v)'.flags
  BY <1>2 DEF Unmapped
<1> QED
  BY <1>2, <1>3 DEF UserPages

\* The first space, if the step starts no other.
LEMMA FirstSpace ==
  ASSUME Inv, KernelKnown, [Next]_vars, Roots' = Roots, NEW r, 1 \in DOMAIN Roots, r = Roots[1]
  PROVE  UserPages(r)' = {}
<1>1. Inv' /\ RootsKnown /\ Typed /\ Structure
  BY RootsFacts, StepInv DEF Inv
<1>2. r \in Tops /\ Tops' = Tops /\ UserPages(r) = {}
  BY <1>1, ElementOfSeq DEF RootsKnown, Tops, KernelKnown
<1>3. ASSUME \A v \in VPage : Translate(r, v)' = Translate(r, v)
      PROVE  UserPages(r)' = {}
  BY <1>2, <1>3 DEF UserPages
<1>4. CASE \E x \in Program \union {KernelOnly} : NewKernelMapping(x)
  <2>1. PICK f \in Frame : Take(f) /\ mem' = Cleared(f)
    BY <1>4 DEF NewKernelMapping
  <2>2. \A u \in taken : mem'[u] = mem[u]
    BY <1>1, <2>1, ClearedFacts DEF Take
  <2> QED
    BY <1>1, <1>2, <1>3, <2>2, SameTranslate
<1>5. CASE AddTable
  BY <1>1, <1>2, <1>3, <1>5, TableAdded
<1>6. CASE MapLinear \/ MapFramed
  <2>1. PICK e : Entered(e) /\ TranslatesTo(e)
    BY <1>6, MapPageTranslates
  <2>2. CASE r # root
    BY <1>2, <1>3, <2>1, <2>2 DEF TranslatesTo
  <2>3. CASE r = root
    <3>1. Building
      BY <1>6, PlaceFacts DEF MapLinear, MapFramed, AtEntry
    <3>2. Len(spaces) = 0
      <4>1. Len(spaces) + 1 \in DOMAIN Roots /\ Roots[Len(spaces) + 1] = Roots[1]
        BY <1>1, <2>3, <3>1 DEF RootsKnown
      <4>2. Len(spaces) + 1 = 1
        BY <1>1, <4>1 DEF Structure, OneWay
      <4> QED
        BY <1>1, <4>2 DEF RootsKnown
    <3>3. Page \in LinearPage
      <4>1. todo \in Seq(LinearPage) /\ todo # << >>
        BY <1>6, <3>1, <3>2 DEF KernelKnown, MapLinear, MapFramed, AtEntry, Walking
      <4> QED
        BY <4>1, HeadTailProperties DEF Page
    <3>4. "U" \notin e.flags
      BY <2>1, <3>3 DEF Entered, LinearPage, Rights
    <3>5. \A v \in VPage : Translate(r, v)' = Translate(r, v) \/ Translate(r, v)' \in {e, Unmapped}
      BY <1>2, <2>1 DEF TranslatesTo
    <3>6. \A v \in VPage : "U" \notin Translate(r, v).flags
      BY <1>2 DEF UserPages
    <3>7. \A v \in VPage : "U" \notin Translate(r, v)'.flags
      BY <3>4, <3>5, <3>6 DEF Unmapped
    <3> QED
      BY <3>7 DEF UserPages
  <2> QED
    BY <2>2, <2>3
<1>7. CASE Quiet
  <2>1. UNCHANGED mem
    BY <1>7, QuietInv
  <2> QED
    BY <1>1, <1>2, <1>3, <2>1, SameTranslate
<1> QED
  BY <1>4, <1>5, <1>6, <1>7 DEF Next, Stuck, Quiet

LEMMA InitKernelKnown == Init => KernelKnown
<1> SUFFICES ASSUME Init PROVE KernelKnown
  OBVIOUS
<1>1. Len(spaces) = 0 /\ Roots = << >> /\ ~Building
  BY EmptySeq DEF Init, Roots, Building
<1> QED
  BY <1>1 DEF Init, KernelKnown

LEMMA StepKernelKnown == Inv /\ KernelKnown /\ [Next]_vars => KernelKnown'
<1> SUFFICES ASSUME Inv, KernelKnown, [Next]_vars PROVE KernelKnown'
  OBVIOUS
<1>1. Inv' /\ Typed /\ RootsKnown /\ RootsKnown' /\ PagesKnown
  BY StepInv, RootsFacts, RootsFactsNext DEF Inv
<1>2. \A i \in 1 .. Len(spaces) : \A r : r = spaces[i].root => KernelDone(r)'
  BY SpacesRoots, KernelDoneKept DEF KernelKnown
<1>3. ASSUME UNCHANGED spaces
      PROVE  \A i \in 1 .. Len(spaces') : KernelDone(spaces[i].root)'
  <2> TAKE i \in 1 .. Len(spaces')
  <2>1. \A r : r = spaces'[i].root => KernelDone(r)'
    BY <1>2, <1>3
  <2> QED
    BY <2>1
<1>4. ASSUME Building, NEW r, r = root
      PROVE  /\ r \in Tops
             /\ KernelDone(r) => KernelDone(r)'
             /\ \A p \in Range(KernelPages) : Mapped(r, p) => Mapped(r, p)'
  <2>1. r \in Tops
    BY <1>1, <1>4 DEF RootsKnown, Tops, PagesKnown
  <2>2. \A p \in Range(KernelPages) : p \in LinearPage
    BY PagesFacts, RangeFacts
  <2> QED
    BY <2>1, <2>2, KernelDoneKept, MappedKept, LinearFits DEF FitPage
<1>5. ASSUME Roots' = Roots
      PROVE  \A i \in DOMAIN Roots' : i = 1 => UserPages(Roots[i])' = {}
  <2> TAKE i \in DOMAIN Roots'
  <2> SUFFICES ASSUME i = 1 PROVE UserPages(Roots[i])' = {}
    OBVIOUS
  <2>1. \A r : r = Roots[1] => UserPages(r)' = {}
    BY <1>5, FirstSpace
  <2>2. \A r : r = Roots'[i] => UserPages(r)' = {}
    BY <1>5, <2>1
  <2> QED
    BY <2>2
<1>6. CASE \E x \in Program \union {KernelOnly} : NewKernelMapping(x)
  <2>1. PICK x \in Program \union {KernelOnly} : NewKernelMapping(x)
    BY <1>6
  <2>2. PICK f \in Frame : Take(f) /\ mem' = Cleared(f) /\ root' = f
    BY <2>1 DEF NewKernelMapping
  <2>3. /\ UNCHANGED spaces /\ pc' = "kernel" /\ todo' = KernelPages /\ program' = x
        /\ (x = KernelOnly <=> spaces = << >>) /\ ~Building /\ Building'
    BY <2>1 DEF NewKernelMapping, Building
  <2>4. \A i \in DOMAIN Roots' : i = 1 => UserPages(Roots[i])' = {}
    <3> TAKE i \in DOMAIN Roots'
    <3> SUFFICES ASSUME i = 1 PROVE UserPages(Roots[i])' = {}
      OBVIOUS
    <3>1. \A r : r = Roots'[i] => UserPages(r)' = {}
      <4> TAKE r
      <4> SUFFICES ASSUME r = Roots'[i] PROVE UserPages(r)' = {}
        OBVIOUS
      <4>1. r \in Tops'
        BY <1>1, ElementOfSeq DEF RootsKnown, Tops
      <4>2. CASE Len(spaces) = 0
        <5>1. r = f
          BY <1>1, <2>2, <2>3, <4>2 DEF RootsKnown
        <5>2. \A c \in Cell : mem'[f][c] = Zero
          BY <1>1, <2>2, ClearedFacts DEF Take
        <5> QED
          BY <1>1, <4>1, <5>1, <5>2, EmptyRoot
      <4>3. CASE Len(spaces) # 0
        <5>1. 1 \in DOMAIN Roots /\ r = Roots[1] /\ r \in Tops
          BY <1>1, <2>3, <4>3, ElementOfSeq DEF RootsKnown, Tops
        <5>2. UserPages(r) = {}
          BY <5>1 DEF KernelKnown
        <5>3. \A u \in taken : mem'[u] = mem[u]
          BY <1>1, <2>2, ClearedFacts DEF Take
        <5>4. \A v \in VPage : Translate(r, v)' = Translate(r, v)
          BY <1>1, <4>1, <5>1, <5>3, SameTranslate
        <5> QED
          BY <5>2, <5>4 DEF UserPages
      <4> QED
        BY <4>2, <4>3
    <3> QED
      BY <3>1
  <2>5. Len(spaces') = 0 => program' = KernelOnly /\ todo' \in Seq(LinearPage)
    BY <1>1, <2>3, PagesFacts, EmptySeq DEF Typed
  <2> QED
    BY <1>3, <2>3, <2>4, <2>5 DEF KernelKnown
<1>7. ASSUME UNCHANGED <<spaces, root, todo, program>>, Roots' = Roots, Building' => Building,
             pc' \in {"kernel", "program"} => pc' = pc
      PROVE  KernelKnown'
  <2>1. pc' = "kernel" => \A p \in Range(KernelPages) : p \in Range(todo') \/ Mapped(root, p)'
    <3> SUFFICES ASSUME pc' = "kernel", NEW p \in Range(KernelPages), p \notin Range(todo')
                 PROVE  Mapped(root, p)'
      OBVIOUS
    <3>1. Building /\ Mapped(root, p)
      BY <1>7 DEF KernelKnown, Building
    <3>2. \A r : r = root' => Mapped(r, p)'
      BY <1>4, <1>7, <3>1
    <3> QED
      BY <3>2
  <2>2. pc' = "program" => KernelDone(root)'
    <3> SUFFICES ASSUME pc' = "program" PROVE KernelDone(root)'
      OBVIOUS
    <3>1. \A r : r = root' => KernelDone(r)'
      BY <1>4, <1>7 DEF KernelKnown, Building
    <3> QED
      BY <3>1
  <2> QED
    BY <1>3, <1>5, <1>7, <2>1, <2>2 DEF KernelKnown
<1>8. CASE AddTable
  <2>1. UNCHANGED <<spaces, root, todo, program, pc>>
    BY <1>8 DEF AddTable, walkVars
  <2> QED
    BY <1>7, <2>1 DEF Roots, Building
<1>9. CASE MapLinear \/ MapFramed
  <2>1. /\ Roots' = Roots /\ Building /\ UNCHANGED <<spaces, root, program, pc>>
        /\ todo' = Tail(todo) /\ todo # << >> /\ pc \in {"kernel", "program"}
    BY <1>9, MapPageInv, PlaceFacts DEF MapLinear, MapFramed, AtEntry, Walking, NextPage
  <2>2. pc' = "kernel" => \A p \in Range(KernelPages) : p \in Range(todo') \/ Mapped(root, p)'
    <3> SUFFICES ASSUME pc' = "kernel", NEW p \in Range(KernelPages), p \notin Range(todo')
                 PROVE  Mapped(root, p)'
      OBVIOUS
    <3>1. p = Page \/ Mapped(root, p)
      BY <1>1, <2>1, RangeFacts DEF KernelKnown, Page, PagesKnown
    <3>2. ASSUME NEW r, r = root, p = Page PROVE Mapped(r, p)'
      <4>1. p \in LinearPage
        BY PagesFacts, RangeFacts
      <4> QED
        BY <1>9, <3>2, <4>1, LinearFits, PageMapped
    <3>3. \A r : r = root' => Mapped(r, p)'
      BY <1>4, <2>1, <3>1, <3>2
    <3> QED
      BY <3>3
  <2>3. pc' = "program" => KernelDone(root)'
    <3> SUFFICES ASSUME pc' = "program" PROVE KernelDone(root)'
      OBVIOUS
    <3>1. \A r : r = root' => KernelDone(r)'
      BY <1>4, <2>1 DEF KernelKnown
    <3> QED
      BY <3>1
  <2>4. Len(spaces) = 0 => program = KernelOnly /\ todo' \in Seq(LinearPage)
    BY <2>1, HeadTailProperties DEF KernelKnown
  <2> QED
    BY <1>3, <1>5, <2>1, <2>2, <2>3, <2>4 DEF KernelKnown
<1>10. CASE Quiet
  <2>1. Roots' = Roots
    BY <1>10, QuietInv
  <2>2. CASE Descend
    BY <1>7, <2>1, <2>2 DEF Descend, Building
  <2>3. CASE AlreadyMapped \/ Depleted
    <3>1. Building' => Building
      BY <1>1, <2>3 DEF AlreadyMapped, Depleted, AtEntry, Walking, Building, walkVars, PagesKnown
    <3> QED
      BY <1>7, <2>1, <2>3, <3>1 DEF AlreadyMapped, Depleted, walkVars
  <2>4. CASE UNCHANGED vars
    BY <1>7, <2>1, <2>4 DEF vars, walkVars, Building
  <2>5. CASE MapExtInterruptArea \/ NewUserMapping
    <3>1. UNCHANGED <<spaces, root, program>> /\ pc = "kernel" /\ todo = << >> /\ pc' # "kernel"
      BY <2>5 DEF MapExtInterruptArea, NewUserMapping
    <3>2. KernelDone(root)'
      <4>1. Range(todo) = {}
        BY <3>1, EmptySeq DEF Range
      <4>2. KernelDone(root)
        BY <3>1, <4>1 DEF KernelKnown, KernelDone
      <4>3. \A r : r = root' => KernelDone(r)'
        BY <1>4, <3>1, <4>2 DEF Building
      <4> QED
        BY <4>3
    <3>3. Len(spaces) = 0 => program = KernelOnly /\ todo' \in Seq(LinearPage)
      BY <2>5, <3>1, PagesFacts DEF KernelKnown, Building, MapExtInterruptArea, NewUserMapping
    <3> QED
      BY <1>3, <1>5, <2>1, <3>1, <3>2, <3>3 DEF KernelKnown
  <2>6. CASE Finish
    <3>1. pc' = "ready" /\ ~Building' /\ pc = "program" /\ Building
      BY <2>6 DEF Finish, Building
    <3>2. /\ Len(spaces') = Len(spaces) + 1 /\ Len(spaces) \in Nat
          /\ \A i \in 1 .. Len(spaces) : spaces'[i] = spaces[i]
          /\ spaces'[Len(spaces) + 1].root = root
      BY <1>1, <2>6, AppendProperties DEF Finish, Typed, RootsKnown, PagesKnown
    <3>3. \A i \in 1 .. Len(spaces') : KernelDone(spaces[i].root)'
      <4> TAKE i \in 1 .. Len(spaces')
      <4>1. \A r : r = spaces'[i].root => KernelDone(r)'
        <5>1. CASE i \in 1 .. Len(spaces)
          BY <1>2, <3>2, <5>1
        <5>2. CASE i = Len(spaces) + 1
          BY <1>4, <3>1, <3>2, <5>2 DEF KernelKnown
        <5> QED
          BY <3>2, <5>1, <5>2
      <4> QED
        BY <4>1
    <3> QED
      BY <1>5, <2>1, <3>1, <3>3 DEF KernelKnown
  <2> QED
    BY <1>10, <2>2, <2>3, <2>4, <2>5, <2>6 DEF Quiet
<1> QED
  BY <1>6, <1>8, <1>9, <1>10 DEF Next, Stuck, Quiet

LEMMA SpecKernelKnown == Spec => [](Inv /\ KernelKnown)
<1>1. Init => Inv /\ KernelKnown
  BY InitInv, InitKernelKnown
<1>2. Inv /\ KernelKnown /\ [Next]_vars => (Inv /\ KernelKnown)'
  BY StepInv, StepKernelKnown
<1> QED
  BY <1>1, <1>2, PTL DEF Spec

LEMMA QuotientBounds ==
  ASSUME NEW a \in Nat, NEW n \in Nat, n > 0, NEW k \in Nat
  PROVE  /\ k * n <= a => k <= a \div n
         /\ a < (k + 1) * n => a \div n <= k
<1> DEFINE q == a \div n
           r == a % n
<1>1. q \in Nat /\ r \in 0 .. n - 1 /\ a = n * q + r
  BY DivFacts
<1> HIDE DEF q, r
<1>2. ASSUME k * n <= a, q < k PROVE FALSE
  <2>1. n * (q + 1) <= n * k
    BY <1>1, <1>2
  <2>2. n * (q + 1) = n * q + n
    BY <1>1
  <2> QED
    BY <1>1, <1>2, <2>1, <2>2
<1>3. ASSUME a < (k + 1) * n, q > k PROVE FALSE
  <2>1. n * (k + 1) <= n * q
    BY <1>1, <1>3
  <2> QED
    BY <1>1, <1>3, <2>1
<1> QED
  BY <1>1, <1>2, <1>3 DEF q

\* The pages of a segment are those that have a byte of it.
LEMMA SegmentCovers ==
  ASSUME NEW seg \in Segment, NEW k \in Nat,
         seg.start < (k + 1) * PageSize, k * PageSize < seg.end
  PROVE  k + 1 - First(seg) \in 1 .. Count(seg)
<1> DEFINE last == (seg.end - 1) \div PageSize
<1>1. /\ seg.start \in Nat /\ seg.end \in Nat /\ PageSize \in Nat /\ PageSize > 0
      /\ k * PageSize \in Nat
  BY ConstantFacts DEF Segment
<1>2. First(seg) \in Nat /\ First(seg) <= k
  BY <1>1, SegmentFacts, QuotientBounds DEF First
<1>3. last \in Nat /\ k <= last
  <2>1. seg.end - 1 \in Nat /\ k * PageSize <= seg.end - 1
    BY <1>1
  <2> QED
    BY <1>1, <2>1, QuotientBounds, DivFacts
<1>4. Count(seg) = last + 1 - First(seg)
  BY DEF Count
<1> HIDE DEF last
<1> QED
  BY <1>2, <1>3, <1>4

LEMMA SwitchIsSafe == Inv /\ KernelKnown => SwitchSafe
<1> SUFFICES ASSUME Inv, KernelKnown PROVE SwitchSafe
  OBVIOUS
<1>1. ASSUME NEW i \in 1 .. Len(spaces), NEW seg \in Range(KernelSegs), NEW v \in SegPages(seg)
      PROVE  Translate(spaces[i].root, v) = [ppn |-> v - KernelOffset, flags |-> seg.flags]
  <2>1. PICK p \in Range(LinearPages(seg)) : v = p.vpn
    BY DEF SegPages
  <2>2. p \in Range(KernelPages)
    BY <2>1, PagesFacts DEF Range
  <2>3. p.kind = "linear" /\ p.flags = seg.flags
    BY <2>1 DEF LinearPages, Range
  <2>4. Mapped(spaces[i].root, p)
    BY <2>2 DEF KernelKnown, KernelDone
  <2> QED
    BY <2>1, <2>3, <2>4 DEF Mapped
<1>2. ASSUME NEW i \in 1 .. Len(spaces), NEW f \in Frame
      PROVE  Translate(spaces[i].root, KernelOffset + f) = [ppn |-> f, flags |-> {"R", "W"}]
  <2> DEFINE k == KernelOffset + f
  <2>1. PICK seg \in Range(KernelSegs) :
          /\ seg.flags = {"R", "W"}
          /\ seg.start <= k * PageSize /\ k * PageSize < seg.end
    BY MappingAssumption
  <2>2. seg \in Segment
    BY RangeFacts, MappingAssumption DEF LinearSegment
  <2>3. f \in Nat /\ k \in Nat /\ k - KernelOffset = f
    BY ConstantFacts
  <2> HIDE DEF k
  <2>4. seg.start < (k + 1) * PageSize
    <3>1. (k + 1) * PageSize = k * PageSize + PageSize /\ k * PageSize \in Nat
      BY <2>3, ConstantFacts
    <3> QED
      BY <2>1, <2>2, <3>1, ConstantFacts DEF Segment
  <2>5. k + 1 - First(seg) \in 1 .. Count(seg) /\ First(seg) \in Nat
    BY <2>1, <2>2, <2>3, <2>4, SegmentCovers, SegmentFacts
  <2>6. k \in SegPages(seg)
    <3> DEFINE j == k + 1 - First(seg)
    <3>1. First(seg) + j - 1 = k
      BY <2>3, <2>5
    <3> HIDE DEF j
    <3>2. j \in DOMAIN LinearPages(seg) /\ LinearPages(seg)[j].vpn = k
      BY <2>5, <3>1 DEF LinearPages, j
    <3> QED
      BY <3>2 DEF SegPages, Range
  <2>7. Translate(spaces[i].root, k) = [ppn |-> k - KernelOffset, flags |-> seg.flags]
    BY <1>1, <2>6
  <2> QED
    BY <2>1, <2>3, <2>7 DEF k
<1>3. spaces # << >> => UserPages(spaces[1].root) = {}
  <2> SUFFICES ASSUME spaces # << >> PROVE UserPages(spaces[1].root) = {}
    OBVIOUS
  <2>1. 1 \in 1 .. Len(spaces)
    BY EmptySeq, LenProperties DEF Inv, Typed
  <2> QED
    BY <2>1, SpacesRoots DEF KernelKnown
<1>4. \A space \in Range(spaces) : \E i \in 1 .. Len(spaces) : space = spaces[i]
  BY LenProperties DEF Range, Inv, Typed
<1> QED
  BY <1>1, <1>2, <1>3, <1>4 DEF SwitchSafe

\* The kernel runs on through a change of satp, to the space of any program:
\* each of its pages and each frame is where it was (switch.S:28,
\* mapping.c:143 and 150-192).  The first space has no page of a user.
THEOREM KernelEverywhere == Spec => []SwitchSafe
  BY SpecKernelKnown, SwitchIsSafe, PTL

\* The pages of a program are there.
ProgramKnown ==
  /\ \A p \in Range(todo) : FitPage(p)
  /\ \A i \in 1 .. Len(spaces) : spaces[i].program # KernelOnly =>
       \A p \in Range(ProgramPages(spaces[i].program)) : Mapped(spaces[i].root, p)
  /\ pc = "program" /\ program # KernelOnly =>
       \A p \in Range(ProgramPages(program)) : p \in Range(todo) \/ Mapped(root, p)

LEMMA SegmentInReach ==
  ASSUME NEW seg \in Segment, seg.end <= VPages * PageSize, NEW i \in 1 .. Count(seg)
  PROVE  First(seg) + i - 1 \in VPage
<1> DEFINE last == (seg.end - 1) \div PageSize
<1>1. VPages \in Nat /\ seg.end \in Nat /\ First(seg) \in Nat /\ Count(seg) \in Int
  BY SegmentFacts, ConstantFacts DEF VPages, Segment
<1>2. seg.end > 0
  <2> SUFFICES ASSUME seg.end = 0 PROVE FALSE
    BY <1>1
  <2>1. (0 - 1) \div PageSize = 0 - 1
    BY ConstantFacts
  <2> QED
    BY <1>1, <2>1 DEF Count
<1>3. last \in Nat /\ last <= VPages - 1
  <2>1. seg.end - 1 \in Nat /\ seg.end - 1 < VPages * PageSize
    BY <1>1, <1>2, ConstantFacts
  <2>2. VPages > 0
    <3> SUFFICES ASSUME VPages = 0 PROVE FALSE
      BY <1>1
    <3>1. VPages * PageSize = 0
      BY ConstantFacts
    <3> QED
      BY <2>1, <3>1
  <2>3. VPages - 1 \in Nat /\ (VPages - 1) + 1 = VPages
    BY <1>1, <2>2
  <2> DEFINE k == VPages - 1
             b == seg.end - 1
  <2>4. b < (k + 1) * PageSize
    BY <2>1, <2>3
  <2>5. k \in Nat /\ b \in Nat
    BY <2>1, <2>3
  <2> HIDE DEF k, b
  <2>6. b \div PageSize \in Nat /\ b \div PageSize <= k
    BY <2>4, <2>5, ConstantFacts, QuotientBounds, DivFacts
  <2> QED
    BY <2>6 DEF k, b
<1>4. i <= last + 1 - First(seg)
  BY DEF Count
<1> HIDE DEF last
<1> QED
  BY <1>1, <1>3, <1>4 DEF VPage

LEMMA ProgramPagesFit ==
  ASSUME ProgramsFit, NEW e \in Program, NEW p \in Range(ProgramPages(e))
  PROVE  FitPage(p)
<1>1. CASE p \in Range(FramedPages(StackSeg))
  <2>1. StackSeg \in Segment /\ StackSeg.end <= VPages * PageSize /\ StackSeg.flags = {"U", "R", "W"}
    BY MappingAssumption
  <2>2. \E i \in 1 .. Count(StackSeg) : p.vpn = First(StackSeg) + i - 1 /\ p.flags = StackSeg.flags
    BY <1>1 DEF FramedPages, Range
  <2> QED
    BY <2>1, <2>2, SegmentInReach DEF FitPage, Usable
<1>2. ASSUME NEW h \in Range(e.headers), p \in Range(HeaderPages(h))
      PROVE  FitPage(p)
  <2>1. h \in ProgHeader
    BY ProgramPagesFacts, RangeFacts
  <2>2. h.load
    BY <1>2 DEF HeaderPages, Range
  <2>3. LoadSegment(h) \in Segment /\ LoadSegment(h).end <= VPages * PageSize
    BY <2>1, <2>2 DEF LoadSegment, Segment, ProgHeader, ConvertElfFlags, Flag, ProgramsFit
  <2>4. Usable(LoadSegment(h).flags)
    BY <2>1, <2>2 DEF LoadSegment, ProgHeader, ConvertElfFlags, ProgramsFit, Usable
  <2>5. p \in Range(CopiedPages(LoadSegment(h), h.data))
    BY <1>2, <2>2 DEF HeaderPages
  <2>6. \E i \in 1 .. Count(LoadSegment(h)) :
          p.vpn = First(LoadSegment(h)) + i - 1 /\ p.flags = LoadSegment(h).flags
    BY <2>5 DEF CopiedPages, Range
  <2> QED
    BY <2>3, <2>4, <2>6, SegmentInReach DEF FitPage
<1> QED
  BY <1>1, <1>2, ProgramPagesFacts

LEMMA InitProgramKnown == Init => ProgramKnown
<1> SUFFICES ASSUME Init PROVE ProgramKnown
  OBVIOUS
<1>1. Len(spaces) = 0 /\ Range(todo) = {}
  BY EmptySeq DEF Init, Range
<1> QED
  BY <1>1 DEF Init, ProgramKnown

LEMMA StepProgramKnown ==
  ASSUME ProgramsFit, Inv, ProgramKnown, [Next]_vars
  PROVE  ProgramKnown'
<1>1. Inv' /\ Typed /\ RootsKnown /\ PagesKnown
  BY StepInv, RootsFacts DEF Inv
<1>2. ASSUME NEW e \in Program, NEW p \in Range(ProgramPages(e))
      PROVE  p \in UserPage /\ FitPage(p)
  BY ProgramPagesFacts, RangeFacts, ProgramPagesFit
<1>3. \A e \in Program : \A p \in Range(ProgramPages(e)) : \A r \in Tops : Mapped(r, p) => Mapped(r, p)'
  BY <1>2, MappedKept DEF FitPage
<1>4. \A i \in 1 .. Len(spaces) : \A r, x : r = spaces[i].root /\ x = spaces[i].program /\ x # KernelOnly =>
        \A p \in Range(ProgramPages(x)) : Mapped(r, p)'
  <2>1. ASSUME NEW i \in 1 .. Len(spaces) PROVE spaces[i].program \in Program \union {KernelOnly}
    <3> DEFINE S == [root : taken, program : Program \union {KernelOnly}]
    <3>1. spaces \in Seq(S)
      BY <1>1 DEF Typed
    <3> HIDE DEF S
    <3>2. spaces[i] \in S
      BY <3>1, ElementOfSeq
    <3> QED
      BY <3>2 DEF S
  <2> QED
    BY <1>3, <2>1, SpacesRoots DEF ProgramKnown
<1>5. ASSUME UNCHANGED spaces
      PROVE  \A i \in 1 .. Len(spaces') : spaces'[i].program # KernelOnly =>
               \A p \in Range(ProgramPages(spaces'[i].program)) : Mapped(spaces[i].root, p)'
  <2> TAKE i \in 1 .. Len(spaces')
  <2>1. \A r : r = spaces'[i].root => (spaces'[i].program # KernelOnly =>
                                        \A p \in Range(ProgramPages(spaces'[i].program)) : Mapped(r, p)')
    BY <1>4, <1>5
  <2> QED
    BY <2>1
<1>6. ASSUME Building, program # KernelOnly, NEW r, r = root, NEW p \in Range(ProgramPages(program)), Mapped(r, p)
      PROVE  Mapped(r, p)'
  <2>1. r \in Tops /\ program \in Program
    BY <1>1, <1>6 DEF RootsKnown, Tops, PagesKnown
  <2> QED
    BY <1>3, <1>6, <2>1
<1>7. \A p \in Range(KernelPages) \union Range(DevicePages) : FitPage(p)
  BY PagesFacts, RangeFacts, LinearFits
<1>8. ASSUME UNCHANGED <<spaces, root, todo, program>>, pc' = "program" => pc = "program"
      PROVE  ProgramKnown'
  <2>1. \A p \in Range(todo') : FitPage(p)
    BY <1>8 DEF ProgramKnown
  <2>2. pc' = "program" /\ program' # KernelOnly =>
          \A p \in Range(ProgramPages(program')) : p \in Range(todo') \/ Mapped(root, p)'
    <3> SUFFICES ASSUME pc' = "program", program # KernelOnly,
                        NEW p \in Range(ProgramPages(program)), p \notin Range(todo)
                 PROVE  Mapped(root, p)'
      BY <1>8
    <3>1. Building /\ Mapped(root, p)
      BY <1>8 DEF ProgramKnown, Building
    <3>2. \A r : r = root' => Mapped(r, p)'
      BY <1>6, <1>8, <3>1
    <3> QED
      BY <3>2
  <2> QED
    BY <1>5, <1>8, <2>1, <2>2 DEF ProgramKnown
<1>9. CASE \E x \in Program \union {KernelOnly} : NewKernelMapping(x)
  <2>1. UNCHANGED spaces /\ pc' = "kernel" /\ todo' = KernelPages
    BY <1>9 DEF NewKernelMapping
  <2> QED
    BY <1>5, <1>7, <2>1 DEF ProgramKnown
<1>10. CASE AddTable
  BY <1>8, <1>10 DEF AddTable, walkVars
<1>11. CASE MapLinear \/ MapFramed
  <2>1. /\ Building /\ UNCHANGED <<spaces, root, program, pc>>
        /\ todo' = Tail(todo) /\ todo # << >> /\ FitPage(Page)
    <3>1. todo' = Tail(todo) /\ todo # << >> /\ UNCHANGED <<spaces, root, program, pc>> /\ Building
      BY <1>11, PlaceFacts DEF MapLinear, MapFramed, AtEntry, Walking, NextPage
    <3>2. Page \in Range(todo)
      BY <1>1, <3>1, HeadTailProperties, LenProperties, EmptySeq DEF Page, Range, PagesKnown
    <3> QED
      BY <3>1, <3>2 DEF ProgramKnown
  <2>2. Range(todo) \subseteq {Page} \union Range(todo')
    BY <1>1, <2>1, RangeFacts DEF Page, PagesKnown
  <2>3. \A p \in Range(todo') : FitPage(p)
    <3>1. Range(todo') \subseteq Range(todo)
      <4>1. /\ DOMAIN todo' = 1 .. Len(todo) - 1 /\ DOMAIN todo = 1 .. Len(todo) /\ Len(todo) \in Nat
            /\ \A i \in 1 .. Len(todo) - 1 : todo'[i] = todo[i + 1]
        BY <1>1, <2>1, HeadTailProperties, LenProperties DEF PagesKnown
      <4> QED
        BY <4>1 DEF Range
    <3> QED
      BY <3>1 DEF ProgramKnown
  <2>4. pc' = "program" /\ program' # KernelOnly =>
          \A p \in Range(ProgramPages(program')) : p \in Range(todo') \/ Mapped(root, p)'
    <3> SUFFICES ASSUME pc = "program", program # KernelOnly,
                        NEW p \in Range(ProgramPages(program)), p \notin Range(todo')
                 PROVE  Mapped(root, p)'
      BY <2>1
    <3>1. p = Page \/ Mapped(root, p)
      BY <2>2 DEF ProgramKnown
    <3>2. \A r : r = root => Mapped(r, p)'
      BY <1>6, <1>11, <2>1, <3>1, PageMapped
    <3>3. \A r : r = root' => Mapped(r, p)'
      BY <2>1, <3>2
    <3> QED
      BY <3>3
  <2> QED
    BY <1>5, <2>1, <2>3, <2>4 DEF ProgramKnown
<1>12. CASE Descend \/ AlreadyMapped \/ Depleted \/ UNCHANGED vars
  BY <1>8, <1>12 DEF Descend, AlreadyMapped, Depleted, vars, walkVars
<1>13. CASE MapExtInterruptArea
  BY <1>5, <1>7, <1>13 DEF MapExtInterruptArea, ProgramKnown
<1>14. CASE NewUserMapping
  <2>1. UNCHANGED <<spaces, root, program>> /\ program \in Program /\ Range(todo) = {}
    BY <1>1, <1>14, EmptySeq DEF NewUserMapping, PagesKnown, Range
  <2>2. \/ todo' = ProgramPages(program)
        \/ pc' = "panicked" /\ UNCHANGED todo
    BY <1>14 DEF NewUserMapping
  <2> QED
    BY <1>2, <1>5, <2>1, <2>2 DEF ProgramKnown
<1>15. CASE Finish
  <2>1. pc' = "ready" /\ UNCHANGED todo /\ pc = "program" /\ Building /\ Range(todo) = {}
    BY <1>15, EmptySeq DEF Finish, Building, walkVars, Range
  <2>2. /\ Len(spaces') = Len(spaces) + 1 /\ Len(spaces) \in Nat
        /\ \A i \in 1 .. Len(spaces) : spaces'[i] = spaces[i]
        /\ spaces'[Len(spaces) + 1] = [root |-> root, program |-> program]
    <3>1. root \in taken
      BY <1>1, <2>1 DEF RootsKnown, Tops, PagesKnown, Inv, Structure, RolesApart
    <3>2. [root |-> root, program |-> program] \in [root : taken, program : Program \union {KernelOnly}]
      BY <1>1, <3>1 DEF PagesKnown
    <3> QED
      BY <1>1, <1>15, <3>2, AppendProperties DEF Finish, Typed, RootsKnown
  <2>3. \A i \in 1 .. Len(spaces') : spaces'[i].program # KernelOnly =>
          \A p \in Range(ProgramPages(spaces'[i].program)) : Mapped(spaces[i].root, p)'
    <3> TAKE i \in 1 .. Len(spaces')
    <3>1. \A r : r = spaces'[i].root => (spaces'[i].program # KernelOnly =>
                                          \A p \in Range(ProgramPages(spaces'[i].program)) : Mapped(r, p)')
      <4>1. CASE i \in 1 .. Len(spaces)
        BY <1>4, <2>2, <4>1
      <4>2. CASE i = Len(spaces) + 1
        BY <1>6, <2>1, <2>2, <4>2 DEF ProgramKnown
      <4> QED
        BY <2>2, <4>1, <4>2
    <3> QED
      BY <3>1
  <2> QED
    BY <2>1, <2>3 DEF ProgramKnown
<1> QED
  BY <1>9, <1>10, <1>11, <1>12, <1>13, <1>14, <1>15 DEF Next, Stuck

LEMMA SpecProgramKnown ==
  ASSUME ProgramsFit PROVE Spec => [](Inv /\ ProgramKnown)
<1>1. Init => Inv /\ ProgramKnown
  BY InitInv, InitProgramKnown
<1>2. Inv /\ ProgramKnown /\ [Next]_vars => (Inv /\ ProgramKnown)'
  BY ProgramsFit, StepInv, StepProgramKnown
<1> QED
  BY <1>1, <1>2, PTL DEF Spec

\* The word of the file at byte i of a segment that starts with a page.
LEMMA CopiedWord ==
  ASSUME NEW h \in ProgHeader, InPlace(h), NEW i \in 1 .. h.memsz
  PROVE  LET a == h.vaddr + i - 1
         IN \E p \in Range(CopiedPages(LoadSegment(h), h.data)) :
              /\ p.kind = "copied" /\ p.vpn = a \div PageSize
              /\ p.flags = ConvertElfFlags(h.flags)
              /\ p.words[a % PageSize] = IF i <= Len(h.data) THEN h.data[i] ELSE Zero
<1> DEFINE a == h.vaddr + i - 1
           k == a \div PageSize
           c == a % PageSize
           seg == LoadSegment(h)
           j == k + 1 - First(seg)
           pages == CopiedPages(seg, h.data)
<1>1. h.vaddr \in Nat /\ h.memsz \in Nat /\ h.data \in Seq(Word) /\ i \in Nat /\ i >= 1 /\ i <= h.memsz
  BY DEF ProgHeader
<1>2. seg \in Segment /\ seg.start = h.vaddr /\ seg.end = h.vaddr + h.memsz
      /\ seg.flags = ConvertElfFlags(h.flags)
  BY DEF LoadSegment, Segment, ProgHeader, ConvertElfFlags, Flag
<1>3. PageSize \in Nat /\ PageSize > 0
  BY ConstantFacts
<1> HIDE DEF seg
<1>4. a \in Nat /\ seg.start <= a /\ a < seg.end
  BY <1>1, <1>2
<1> HIDE DEF a
<1>5. k \in Nat /\ c \in 0 .. PageSize - 1 /\ a = PageSize * k + c
  BY <1>3, <1>4, DivFacts
<1> HIDE DEF k, c
<1>6. j \in 1 .. Count(seg) /\ First(seg) \in Nat
  <2>1. (k + 1) * PageSize = PageSize * k + PageSize /\ k * PageSize = PageSize * k /\ PageSize * k \in Nat
    BY <1>3, <1>5
  <2>2. seg.start < (k + 1) * PageSize
    BY <1>2, <1>1, <1>3, <1>4, <1>5, <2>1
  <2>3. k * PageSize < seg.end
    BY <1>2, <1>1, <1>3, <1>4, <1>5, <2>1
  <2> QED
    BY <1>2, <1>5, <2>2, <2>3, SegmentCovers, SegmentFacts
<1>7. First(seg) + j - 1 = k
  BY <1>5, <1>6
<1>8. /\ j \in DOMAIN pages /\ pages[j].kind = "copied" /\ pages[j].flags = seg.flags
      /\ pages[j].vpn = First(seg) + j - 1
      /\ pages[j].words = [d \in Cell |-> LET at == (j - 1) * PageSize + d + 1
                                          IN IF at <= Len(h.data) THEN h.data[at] ELSE Zero]
  <2> HIDE DEF j
  <2> QED
    BY <1>6 DEF CopiedPages
<1>9. pages[j].words[c] = LET at == (j - 1) * PageSize + c + 1
                          IN IF at <= Len(h.data) THEN h.data[at] ELSE Zero
  BY <1>5, <1>8 DEF Cell
<1>10. pages[j].words[c] = IF i <= Len(h.data) THEN h.data[i] ELSE Zero
  <2>1. CASE h.vaddr % PageSize = 0
    <3>1. (j - 1) * PageSize + c + 1 = i
      <4> DEFINE q == First(seg)
      <4>1. q \in Nat /\ h.vaddr = PageSize * q
        BY <1>1, <1>2, <1>3, <2>1, DivFacts DEF First
      <4>2. j - 1 = k - q
        BY <1>5, <4>1
      <4> HIDE DEF q, j
      <4>3. (k - q) * PageSize = PageSize * k - PageSize * q
        BY <1>3, <1>5, <4>1
      <4>4. a = h.vaddr + i - 1
        BY DEF a
      <4>5. PageSize * k \in Nat /\ PageSize * q \in Nat
        BY <1>3, <1>5, <4>1
      <4> QED
        BY <1>1, <1>3, <1>5, <4>1, <4>2, <4>3, <4>4, <4>5
    <3> QED
      BY <1>9, <3>1
  <2>2. CASE h.data = << >>
    <3>1. Len(h.data) = 0
      BY <2>2, EmptySeq
    <3>2. (j - 1) * PageSize + c + 1 > 0
      <4>1. j - 1 \in Nat
        BY <1>6
      <4>2. (j - 1) * PageSize \in Nat
        BY <1>3, <4>1
      <4> QED
        BY <1>5, <4>2
    <3>3. ~(i <= Len(h.data))
      BY <1>1, <3>1
    <3> HIDE DEF pages
    <3> DEFINE at == (j - 1) * PageSize + c + 1
    <3>4. at \in Int /\ at > 0
      <4>1. j - 1 \in Int /\ (j - 1) * PageSize \in Int
        BY <1>3, <1>6
      <4> QED
        BY <1>5, <3>2, <4>1
    <3>5. pages[j].words[c] = IF at <= Len(h.data) THEN h.data[at] ELSE Zero
      BY <1>9
    <3> HIDE DEF at
    <3>6. ~(at <= Len(h.data))
      BY <3>1, <3>4
    <3> QED
      BY <3>3, <3>5, <3>6
  <2> QED
    BY <2>1, <2>2 DEF InPlace
<1>11. pages[j] \in Range(pages)
  BY <1>8 DEF Range
<1> QED
  BY <1>2, <1>7, <1>8, <1>10, <1>11 DEF a, k, c, seg

LEMMA LoadedIsLoaded == Inv /\ ProgramKnown => SegmentsLoaded
<1> SUFFICES ASSUME Inv, ProgramKnown PROVE SegmentsLoaded
  OBVIOUS
<1>1. ASSUME NEW n \in 1 .. Len(spaces), spaces[n].program # KernelOnly,
             NEW h \in Range(spaces[n].program.headers), h.load, InPlace(h), NEW i \in 1 .. h.memsz
      PROVE  LET a == h.vaddr + i - 1
             IN /\ Translate(spaces[n].root, a \div PageSize).flags = ConvertElfFlags(h.flags)
                /\ WordAt(spaces[n].root, a) = IF i <= Len(h.data) THEN h.data[i] ELSE Zero
  <2> DEFINE e == spaces[n].program
             r == spaces[n].root
             a == h.vaddr + i - 1
  <2>1. e \in Program
    <3> DEFINE S == [root : taken, program : Program \union {KernelOnly}]
    <3>1. spaces \in Seq(S)
      BY DEF Inv, Typed
    <3> HIDE DEF S
    <3>2. spaces[n] \in S
      BY <3>1, ElementOfSeq
    <3> QED
      BY <1>1, <3>2 DEF S
  <2>2. h \in ProgHeader
    BY <2>1, ProgramPagesFacts, RangeFacts
  <2>3. PICK p \in Range(CopiedPages(LoadSegment(h), h.data)) :
          /\ p.kind = "copied" /\ p.vpn = a \div PageSize
          /\ p.flags = ConvertElfFlags(h.flags)
          /\ p.words[a % PageSize] = IF i <= Len(h.data) THEN h.data[i] ELSE Zero
    BY <1>1, <2>2, CopiedWord
  <2>4. p \in Range(ProgramPages(e))
    BY <1>1, <2>1, <2>3, ProgramPagesFacts DEF HeaderPages
  <2>5. Mapped(r, p)
    BY <1>1, <2>4 DEF ProgramKnown
  <2>6. Translate(r, p.vpn).flags = p.flags /\ mem[Translate(r, p.vpn).ppn] = p.words
    BY <2>3, <2>5 DEF Mapped
  <2> QED
    BY <2>3, <2>6 DEF WordAt
<1>2. \A space \in Range(spaces) : \E n \in 1 .. Len(spaces) : space = spaces[n]
  BY LenProperties DEF Range, Inv, Typed
<1> QED
  BY <1>1, <1>2 DEF SegmentsLoaded

\* A program finds its file at the addresses the file asks for, zeros behind
\* it, and the rights it asks for, if its segments are within reach of the
\* tables and start with a page (elf.c:47-63, mapping.c:98-132).
THEOREM ProgramsLoaded == ASSUME ProgramsFit PROVE Spec => []SegmentsLoaded
<1>1. Spec => [](Inv /\ ProgramKnown)
  BY ProgramsFit, SpecProgramKnown
<1> QED
  BY <1>1, LoadedIsLoaded, PTL
------------------------------------------------------------------------------
(* Page tables implement address spaces.                                   *)

Maps == [i \in DOMAIN Roots |-> [v \in VPage |-> Translate(Roots[i], v)]]
View(p) == [vpn |-> p.vpn, flags |-> p.flags, framed |-> p.kind # "linear"]
AskedPages == [i \in DOMAIN todo |-> View(todo[i])]

MapOf == [VPage -> Pte \union {Unmapped}]

\* The two sequences, place by place.
ViewKnown ==
  /\ Maps \in Seq(MapOf) /\ Len(Maps) = Len(Roots) /\ Len(Maps) \in Nat
  /\ \A i \in 1 .. Len(Maps) : Roots[i] \in Tops /\ \A v \in VPage : Maps[i][v] = Translate(Roots[i], v)
  /\ AskedPages \in Seq(Spaces!Asked) /\ Len(AskedPages) = Len(todo)
  /\ \A i \in 1 .. Len(todo) : AskedPages[i] = View(todo[i])

LEMMA ViewFacts == Inv /\ ProgramKnown => ViewKnown
<1> SUFFICES ASSUME Inv, ProgramKnown PROVE ViewKnown
  OBVIOUS
<1>1. RootsKnown /\ WaysKnown /\ PagesKnown
  BY RootsFacts, WaysFacts DEF Inv
<1>2. Len(Roots) \in Nat /\ DOMAIN Roots = 1 .. Len(Roots)
  BY <1>1, LenProperties DEF RootsKnown
<1>3. \A i \in 1 .. Len(Roots) : Roots[i] \in Tops
  BY <1>1, <1>2, ElementOfSeq DEF RootsKnown, Tops
<1>4. \A r \in Tops, v \in VPage : Translate(r, v) \in Pte \union {Unmapped}
  BY <1>1 DEF WaysKnown, IsLeaf
<1>5. Maps \in [1 .. Len(Roots) -> MapOf]
  BY <1>2, <1>3, <1>4 DEF Maps, MapOf
<1>6. Maps \in Seq(MapOf) /\ Len(Maps) = Len(Roots)
  <2>1. Maps \in Seq(MapOf) /\ DOMAIN Maps = 1 .. Len(Roots)
    BY <1>2, <1>5, SeqOfFunction
  <2> QED
    BY <1>2, <2>1, LenProperties
<1>7. \A i \in 1 .. Len(Maps) : Roots[i] \in Tops /\ \A v \in VPage : Maps[i][v] = Translate(Roots[i], v)
  BY <1>2, <1>3, <1>6 DEF Maps
<1>8. Len(todo) \in Nat /\ DOMAIN todo = 1 .. Len(todo) /\ \A i \in 1 .. Len(todo) : todo[i] \in Range(todo)
  BY <1>1, LenProperties DEF PagesKnown, Range
<1>9. ASSUME NEW p \in Range(todo)
      PROVE  View(p) \in Spaces!Asked
  <2>1. p \in LinearPage \union UserPage /\ FitPage(p)
    BY <1>1, RangeFacts DEF PagesKnown, ProgramKnown
  <2>2. p.flags \in SUBSET {"R", "W", "X", "U"} /\ (p.kind # "linear" <=> "U" \in p.flags)
    BY <2>1 DEF LinearPage, UserPage, CopiedPage, FramedPage, UserFlags, Flag, Rights
  <2> QED
    BY <2>1, <2>2 DEF View, FitPage, Spaces!Asked
<1>10. AskedPages \in [1 .. Len(todo) -> Spaces!Asked]
  BY <1>8, <1>9 DEF AskedPages
<1>11. AskedPages \in Seq(Spaces!Asked) /\ Len(AskedPages) = Len(todo)
  <2>1. AskedPages \in Seq(Spaces!Asked) /\ DOMAIN AskedPages = 1 .. Len(todo)
    BY <1>8, <1>10, SeqOfFunction
  <2> QED
    BY <1>8, <2>1, LenProperties
<1>12. \A i \in 1 .. Len(todo) : AskedPages[i] = View(todo[i])
  BY <1>8 DEF AskedPages
<1> QED
  BY <1>2, <1>6, <1>7, <1>11, <1>12 DEF ViewKnown

LEMMA ViewFactsNext == Inv' /\ ProgramKnown' => ViewKnown'
  BY ViewFacts, PTL

LEMMA SameMaps ==
  ASSUME ViewKnown, ViewKnown', Roots' = Roots,
         \A r \in Tops, v \in VPage : Translate(r, v)' = Translate(r, v)
  PROVE  Maps' = Maps
<1>1. ASSUME NEW i \in 1 .. Len(Maps)
      PROVE  Maps'[i] = Maps[i]
  <2>1. Maps[i] \in MapOf /\ Maps'[i] \in MapOf
    BY ElementOfSeq DEF ViewKnown
  <2>2. \A v \in VPage : Maps'[i][v] = Maps[i][v]
    <3> TAKE v \in VPage
    <3>1. \A r : r = Roots'[i] => Translate(r, v)' = Maps[i][v]
      BY DEF ViewKnown
    <3>2. Translate(Roots[i], v)' = Maps[i][v]
      BY <3>1
    <3> QED
      BY <3>2 DEF ViewKnown
  <2> QED
    BY <2>1, <2>2 DEF MapOf
<1> QED
  BY <1>1, SeqEqual DEF ViewKnown

LEMMA SameAsked == ASSUME UNCHANGED todo PROVE AskedPages' = AskedPages
  BY DEF AskedPages, View

\* Frames that a program can reach are in use.
LEMMA SpacesUserFrames ==
  ASSUME Inv, ViewKnown
  PROVE  Spaces!UserFrames \subseteq taken
<1>1. Spaces!UserFrames =
        UNION {{Maps[i][v].ppn : v \in {u \in VPage : "U" \in Maps[i][u].flags}} : i \in 1 .. Len(Maps)}
  BY DEF Spaces!UserFrames, Spaces!Newest, Maps
<1>2. ASSUME NEW i \in 1 .. Len(Maps), NEW v \in VPage, "U" \in Maps[i][v].flags
      PROVE  Maps[i][v].ppn \in taken
  <2>1. Roots[i] \in Tops /\ Maps[i][v] = Translate(Roots[i], v)
    BY DEF ViewKnown
  <2>2. Maps[i][v].ppn \in UserFrames(Roots[i])
    BY <1>2, <2>1 DEF UserFrames, UserPages
  <2> QED
    BY <2>1, <2>2, UserFramesOwned DEF Inv, Structure, RolesApart
<1> QED
  BY <1>1, <1>2

\* The new space is behind the others, with nothing in it.
LEMMA NewRefines ==
  ASSUME Inv, Inv', ViewKnown, ViewKnown', NEW x, NewKernelMapping(x)
  PROVE  Spaces!New
<1> PICK f \in Frame : Take(f) /\ mem' = Cleared(f) /\ root' = f
  BY DEF NewKernelMapping
<1> DEFINE empty == [v \in VPage |-> Unmapped]
           n == Len(Roots)
<1>1. /\ RootsKnown /\ RootsKnown' /\ ~Building /\ Building'
      /\ UNCHANGED spaces /\ todo = << >> /\ Typed
  BY RootsFacts, RootsFactsNext DEF Inv, NewKernelMapping, Building, PagesKnown
<1>2. \A u \in taken : mem'[u] = mem[u]
  BY <1>1, ClearedFacts DEF Take
<1>3. /\ n \in Nat /\ Len(Roots') = n + 1 /\ Roots'[n + 1] = f
      /\ \A i \in 1 .. n : Roots'[i] = Roots[i]
  BY <1>1 DEF RootsKnown
<1>4. f \in Tops'
  BY <1>1, <1>3 DEF RootsKnown, Tops
<1>5. \A v \in VPage : Translate(f, v)' = Unmapped
  BY <1>1, <1>4, EmptyRoot, ClearedFacts DEF Take
<1>6. empty \in MapOf /\ \A v \in VPage : empty[v] = Unmapped
  BY DEF MapOf
<1> HIDE DEF empty, n
<1>7. /\ Append(Maps, empty) \in Seq(MapOf) /\ Len(Append(Maps, empty)) = Len(Maps) + 1
      /\ \A i \in 1 .. Len(Maps) : Append(Maps, empty)[i] = Maps[i]
      /\ Append(Maps, empty)[Len(Maps) + 1] = empty
  BY <1>6, AppendProperties DEF ViewKnown
<1>8. Len(Maps) = n /\ Len(Maps') = n + 1 /\ Maps' \in Seq(MapOf) /\ Maps \in Seq(MapOf)
  BY <1>3 DEF ViewKnown, n
<1>9. ASSUME NEW i \in 1 .. n + 1
      PROVE  Maps'[i] = Append(Maps, empty)[i]
  <2>1. Maps'[i] \in MapOf /\ Append(Maps, empty)[i] \in MapOf
    BY <1>3, <1>7, <1>8, ElementOfSeq
  <2>2. ASSUME NEW v \in VPage
        PROVE  Maps'[i][v] = Append(Maps, empty)[i][v]
    <3>1. \A r : r = Roots'[i] => r \in Tops' /\ Maps'[i][v] = Translate(r, v)'
      BY <1>8 DEF ViewKnown
    <3>2. CASE i \in 1 .. n
      <4>1. Roots[i] \in Tops /\ Roots[i] \in Tops' /\ Maps[i][v] = Translate(Roots[i], v)
        BY <1>3, <1>8, <3>1, <3>2 DEF ViewKnown
      <4>2. \A r : r = Roots[i] => Translate(r, v)' = Translate(r, v)
        BY <1>2, <4>1, SameTranslate
      <4> QED
        BY <1>3, <1>7, <1>8, <3>1, <3>2, <4>1, <4>2
    <3>3. CASE i = n + 1
      BY <1>3, <1>5, <1>6, <1>7, <1>8, <3>1, <3>3
    <3>4. i \in 1 .. n \/ i = n + 1
      BY <1>3
    <3> QED
      BY ONLY <3>2, <3>3, <3>4
  <2>3. \A a, b \in MapOf : (\A v \in VPage : a[v] = b[v]) => a = b
    BY DEF MapOf
  <2> QED
    BY ONLY <2>1, <2>2, <2>3
<1>10. Maps' = Append(Maps, empty)
  BY <1>7, <1>8, <1>9, SeqEqual
<1>11. AskedPages = << >> /\ AskedPages' \in Seq(Spaces!Asked)
  BY <1>1 DEF AskedPages, ViewKnown
<1> QED
  BY <1>10, <1>11 DEF Spaces!New, Maps, AskedPages, View, empty

\* Entering a page takes it from the list.
LEMMA AskedTail ==
  ASSUME Inv, ViewKnown, ViewKnown', Walking, NextPage
  PROVE  AskedPages # << >> /\ Head(AskedPages) = View(Page) /\ AskedPages' = Tail(AskedPages)
<1>1. todo \in Seq(LinearPage \union UserPage) /\ todo # << >> /\ todo' = Tail(todo)
  BY DEF Inv, PagesKnown, Walking, NextPage
<1>2. /\ Len(todo) \in Nat /\ Len(todo) # 0 /\ Head(todo) = todo[1]
      /\ Len(todo') = Len(todo) - 1 /\ \A i \in 1 .. Len(todo) - 1 : todo'[i] = todo[i + 1]
  BY <1>1, HeadTailProperties, LenProperties, EmptySeq
<1>3. AskedPages \in Seq(Spaces!Asked) /\ Len(AskedPages) = Len(todo) /\ AskedPages # << >>
  BY <1>2, EmptySeq DEF ViewKnown
<1>4. /\ Head(AskedPages) = AskedPages[1] /\ Tail(AskedPages) \in Seq(Spaces!Asked)
      /\ Len(Tail(AskedPages)) = Len(todo) - 1
      /\ \A i \in 1 .. Len(todo) - 1 : Tail(AskedPages)[i] = AskedPages[i + 1]
  BY ONLY <1>3, HeadTailProperties
<1>5. Head(AskedPages) = View(Page)
  BY <1>2, <1>4 DEF ViewKnown, Page
<1>6. /\ AskedPages' \in Seq(Spaces!Asked) /\ Len(AskedPages') = Len(todo) - 1
      /\ \A i \in 1 .. Len(todo) - 1 : AskedPages'[i] = View(todo'[i])
  BY <1>2 DEF ViewKnown, View, Spaces!Asked
<1>7. \A i \in 1 .. Len(todo) - 1 : AskedPages'[i] = Tail(AskedPages)[i]
  BY <1>2, <1>4, <1>6 DEF ViewKnown
<1>8. AskedPages' = Tail(AskedPages)
  BY ONLY <1>2, <1>4, <1>6, <1>7, SeqEqual
<1> QED
  BY <1>3, <1>5, <1>8

\* The page goes where the abstract step may put it.
LEMMA TargetKnown ==
  ASSUME Inv, ViewKnown, NEW e, Entered(e), Page \in LinearPage \union UserPage
  PROVE  e.ppn \in Spaces!Targets(View(Page)) /\ e.flags = View(Page).flags
<1>1. View(Page).vpn = Page.vpn /\ View(Page).flags = Page.flags /\ View(Page).framed = (Page.kind # "linear")
  BY DEF View
<1>2. CASE Page \in LinearPage
  <2>1. Page.kind = "linear" /\ Page \notin UserPage
    BY <1>2 DEF LinearPage, UserPage, CopiedPage, FramedPage
  <2>2. e.ppn = Page.vpn - KernelOffset /\ e.flags = Page.flags
    BY <2>1 DEF Entered
  <2> QED
    BY <1>1, <2>1, <2>2 DEF Spaces!Targets
<1>3. CASE Page \in UserPage
  <2>1. Page.kind # "linear" /\ Page \notin LinearPage
    BY <1>3 DEF LinearPage, UserPage, CopiedPage, FramedPage
  <2>2. e.ppn \in Frame \ taken /\ e.flags = Page.flags
    BY <2>1 DEF Entered
  <2>3. e.ppn \in Frame \ Spaces!UserFrames
    BY <2>2, SpacesUserFrames
  <2> QED
    BY <1>1, <2>1, <2>2, <2>3 DEF Spaces!Targets
<1> QED
  BY <1>2, <1>3

\* Only the newest space changes, and there only the page.
LEMMA MapsWithPage ==
  ASSUME Inv, Inv', ViewKnown, ViewKnown', FitPage(Page), MapLinear \/ MapFramed,
         NEW e, Entered(e), TranslatesTo(e)
  PROVE  /\ Len(Maps) \in 1 .. Len(Maps) /\ Maps[Len(Maps)][Page.vpn] = Unmapped
         /\ Maps' = [Maps EXCEPT ![Len(Maps)][Page.vpn] = e]
<1> DEFINE n == Len(Maps)
           v == Page.vpn
<1>1. Walking /\ Roots' = Roots /\ Tops' = Tops
  BY MapPageInv DEF MapLinear, MapFramed, AtEntry, Tops
<1>2. Building /\ root \in Tops /\ RootsKnown /\ OneWay
  BY <1>1, PlaceFacts, RootsFacts DEF Inv, Structure
<1>3. n \in 1 .. n /\ n \in Nat /\ DOMAIN Roots = 1 .. n /\ Roots[n] = root
  BY <1>2 DEF RootsKnown, ViewKnown
<1>4. \A i \in 1 .. n : Roots[i] = root <=> i = n
  BY <1>2, <1>3 DEF OneWay
<1>5. v \in VPage /\ IsLeaf(e) /\ e \in Pte /\ Split(v) = GetVpnLevels(v)
  BY SplitFacts DEF FitPage, Entered, IsLeaf
<1> HIDE DEF n, v
<1>6. \A i \in 1 .. n, u \in VPage : Maps'[i][u] = IF i = n /\ u = v THEN e ELSE Maps[i][u]
  <2> TAKE i \in 1 .. n, u \in VPage
  <2>1. PICK r : r = Roots[i]
    OBVIOUS
  <2>2. r \in Tops /\ Maps[i][u] = Translate(r, u)
    BY <2>1 DEF ViewKnown, n
  <2>3. Maps'[i][u] = Translate(r, u)'
    BY <1>1, <1>3, <2>1 DEF ViewKnown, n
  <2>4. r = root /\ Split(u) = GetVpnLevels(v) <=> i = n /\ u = v
    BY <1>4, <1>5, <2>1, SplitInjective
  <2>5. IF r = root /\ Split(u) = GetVpnLevels(v)
        THEN Translate(r, u)' = e
        ELSE Translate(r, u)' = Translate(r, u)
    BY <1>5, <2>2 DEF TranslatesTo, v
  <2> QED
    BY <2>2, <2>3, <2>4, <2>5
<1>7. Maps[n][v] = Unmapped
  BY <1>3, <1>5 DEF ViewKnown, TranslatesTo, n, v
<1> DEFINE m == [Maps[n] EXCEPT ![v] = e]
<1>8. Maps \in Seq(MapOf) /\ Len(Maps) = n /\ Maps' \in Seq(MapOf) /\ Len(Maps') = n
  BY <1>1 DEF ViewKnown, n
<1>9. Maps[n] \in MapOf /\ m \in MapOf /\ \A u \in VPage : m[u] = IF u = v THEN e ELSE Maps[n][u]
  <2>1. Maps[n] \in MapOf
    BY ONLY <1>3, <1>8, ElementOfSeq
  <2> QED
    BY ONLY <1>5, <2>1 DEF MapOf
<1> HIDE DEF m
<1>10. /\ [Maps EXCEPT ![n] = m] \in Seq(MapOf) /\ Len([Maps EXCEPT ![n] = m]) = n
       /\ \A i \in 1 .. n : [Maps EXCEPT ![n] = m][i] = IF i = n THEN m ELSE Maps[i]
  BY ONLY <1>3, <1>8, <1>9, ExceptSeq
<1>11. ASSUME NEW i \in 1 .. n
       PROVE  Maps'[i] = [Maps EXCEPT ![n] = m][i]
  <2>1. Maps'[i] \in MapOf /\ [Maps EXCEPT ![n] = m][i] \in MapOf
    BY <1>8, <1>10, ElementOfSeq
  <2>2. \A u \in VPage : Maps'[i][u] = [Maps EXCEPT ![n] = m][i][u]
    BY <1>6, <1>9, <1>10
  <2>3. \A a, b \in MapOf : (\A u \in VPage : a[u] = b[u]) => a = b
    BY DEF MapOf
  <2> QED
    BY ONLY <2>1, <2>2, <2>3
<1>12. Maps' = [Maps EXCEPT ![n] = m]
  BY ONLY <1>8, <1>10, <1>11, SeqEqual
<1> QED
  BY <1>3, <1>7, <1>12 DEF m, n, v

LEMMA MapRefines ==
  ASSUME Inv, Inv', ProgramKnown, ViewKnown, ViewKnown', MapLinear \/ MapFramed
  PROVE  Spaces!Map
<1> DEFINE n == Len(Maps)
<1>1. Walking /\ NextPage /\ Page \in LinearPage \union UserPage
  BY PlaceFacts DEF MapLinear, MapFramed, AtEntry
<1>2. FitPage(Page)
  <2>1. todo \in Seq(LinearPage \union UserPage) /\ todo # << >>
    BY <1>1 DEF Inv, PagesKnown, Walking
  <2>2. Page \in Range(todo)
    BY <2>1, HeadTailProperties, LenProperties, EmptySeq DEF Range, Page
  <2> QED
    BY <2>2 DEF ProgramKnown
<1>3. PICK e : Entered(e) /\ TranslatesTo(e)
  BY MapPageTranslates
<1>4. AskedPages # << >> /\ Head(AskedPages) = View(Page) /\ AskedPages' = Tail(AskedPages)
  BY <1>1, AskedTail
<1>5. /\ n \in 1 .. n /\ Maps[n][Page.vpn] = Unmapped
      /\ Maps' = [Maps EXCEPT ![n][Page.vpn] = e]
  BY <1>2, <1>3, MapsWithPage
<1>6. e.ppn \in Spaces!Targets(View(Page)) /\ e.flags = View(Page).flags
  BY <1>1, <1>3, TargetKnown
<1>7. Maps'[n][Page.vpn] = e
  <2>1. Maps \in Seq(MapOf) /\ Maps[n] \in MapOf /\ DOMAIN Maps = 1 .. n
    BY <1>5, ElementOfSeq, LenProperties DEF ViewKnown
  <2> HIDE DEF n
  <2> QED
    BY <1>2, <1>5, <2>1 DEF MapOf, FitPage
<1>8. View(Page).vpn = Page.vpn
  BY DEF View
<1>9. /\ AskedPages # << >> /\ AskedPages' = Tail(AskedPages)
      /\ Maps[n][Head(AskedPages).vpn] = Unmapped
      /\ Maps'[n][Head(AskedPages).vpn].ppn \in Spaces!Targets(Head(AskedPages))
      /\ Maps'[n][Head(AskedPages).vpn].flags = Head(AskedPages).flags
      /\ Maps' = [Maps EXCEPT ![n][Head(AskedPages).vpn] = Maps'[n][Head(AskedPages).vpn]]
  BY <1>4, <1>5, <1>6, <1>7, <1>8
<1>10. n = Spaces!Newest
  BY DEF Spaces!Newest, Maps, n
<1> QED
  BY <1>9, <1>10, Zenon DEF Spaces!Map, Maps, AskedPages, View

LEMMA InitRefines == Init => Spaces!Init
<1> SUFFICES ASSUME Init PROVE Spaces!Init
  OBVIOUS
<1>1. RootsKnown /\ Len(spaces) = 0 /\ ~Building /\ todo = << >>
  BY InitInv, RootsFacts DEF Init, Inv, Building
<1>2. Roots = << >>
  BY <1>1, EmptySeq DEF RootsKnown
<1> QED
  BY <1>1, <1>2 DEF Spaces!Init

\* Steps that write no table enter nothing, and some ask for pages.
LEMMA QuietRefines ==
  ASSUME Inv, ViewKnown, ViewKnown', Quiet
  PROVE  Spaces!Ask \/ UNCHANGED <<Maps, AskedPages>>
<1>1. Inv' /\ Roots' = Roots /\ UNCHANGED mem
  BY QuietInv
<1>2. Maps' = Maps
  BY <1>1, SameTranslate, SameMaps DEF Tops
<1>3. CASE MapExtInterruptArea \/ NewUserMapping
  <2>1. todo = << >>
    BY <1>3 DEF MapExtInterruptArea, NewUserMapping
  <2>2. AskedPages = << >> /\ AskedPages' \in Seq(Spaces!Asked)
    BY <2>1 DEF AskedPages, ViewKnown
  <2> QED
    BY <1>2, <2>2, Zenon DEF Spaces!Ask, Maps, AskedPages, View
<1>4. CASE UNCHANGED todo
  BY <1>2, <1>4, SameAsked
<1> QED
  BY <1>3, <1>4 DEF Quiet, Descend, AlreadyMapped, Finish, Depleted, walkVars, vars

LEMMA StepRefines ==
  Inv /\ ProgramKnown /\ (Inv /\ ProgramKnown)' /\ [Next]_vars
    => Spaces!Next \/ UNCHANGED <<Maps, AskedPages>>
<1> SUFFICES ASSUME Inv, ProgramKnown, Inv', ProgramKnown', [Next]_vars
             PROVE  Spaces!Next \/ UNCHANGED <<Maps, AskedPages>>
  OBVIOUS
<1>1. ViewKnown /\ ViewKnown'
  BY ViewFacts, ViewFactsNext
<1>2. CASE \E x \in Program \union {KernelOnly} : NewKernelMapping(x)
  BY <1>1, <1>2, NewRefines DEF Spaces!Next
<1>3. CASE AddTable
  <2>1. Roots' = Roots /\ UNCHANGED todo
    BY <1>3 DEF AddTable, walkVars, Roots
  <2>2. Maps' = Maps
    BY <1>1, <1>3, <2>1, TableAdded, SameMaps
  <2> QED
    BY <2>1, <2>2, SameAsked
<1>4. CASE MapLinear \/ MapFramed
  BY <1>1, <1>4, MapRefines DEF Spaces!Next
<1>5. CASE Quiet
  BY <1>1, <1>5, QuietRefines DEF Spaces!Next
<1> QED
  BY <1>2, <1>3, <1>4, <1>5 DEF Next, Stuck, Quiet

\* The tables, read as the hardware reads them, are address spaces to which
\* pages are added one by one and from which nothing is taken: every step of
\* mapping.c is a step of AddressSpaces.tla or one the hardware cannot see.
THEOREM SpacesImplemented == ASSUME ProgramsFit PROVE Spec => SpacesSpec
<1>1. Spec => [](Inv /\ ProgramKnown)
  BY ProgramsFit, SpecProgramKnown
<1>2. Init => Spaces!Init
  BY InitRefines
<1>3. Inv /\ ProgramKnown /\ (Inv /\ ProgramKnown)' /\ [Next]_vars
        => Spaces!Next \/ UNCHANGED <<Maps, AskedPages>>
  BY StepRefines
<1> QED
  BY <1>1, <1>2, <1>3, PTL DEF Spec, SpacesSpec, Spaces!Spec, Maps, AskedPages, View
==============================================================================
