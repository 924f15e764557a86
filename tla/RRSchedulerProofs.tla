-------------------------- MODULE RRSchedulerProofs --------------------------
(***************************************************************************)
(* Proofs about RRScheduler: the ring represents the queue whatever the    *)
(* number of threads, and implements FifoScheduler.                        *)
(***************************************************************************)
EXTENDS RRScheduler, SequenceTheorems, TLAPS

\* The three parts support each other: the queue is not empty when the ring
\* is not, and only a clean node may be linked in.
Inv == TypeOK /\ Linked /\ NoStaleLinks
------------------------------------------------------------------------------
\* The queue is a sequence of threads, and Range is about its positions.
LEMMA QueueFacts ==
  ASSUME TypeOK
  PROVE  /\ Len(queue) \in Nat
         /\ DOMAIN queue = 1 .. Len(queue)
         /\ \A k \in 1 .. Len(queue) : queue[k] \in Tid
         /\ \A t \in Tid : t \in Range(queue) <=> \E k \in 1 .. Len(queue) : queue[k] = t
<1>1. queue \in Seq(Tid)
  BY DEF TypeOK
<1>2. /\ Len(queue) \in Nat
      /\ DOMAIN queue = 1 .. Len(queue)
      /\ \A k \in 1 .. Len(queue) : queue[k] \in Tid
  BY <1>1, LenProperties, ElementOfSeq
<1>3. \A t \in Tid : t \in Range(queue) <=> \E k \in 1 .. Len(queue) : queue[k] = t
  BY <1>2 DEF Range
<1> QED
  BY <1>2, <1>3

\* Different positions are different nodes of the ring.
LEMMA NodeFacts ==
  ASSUME TypeOK, Distinct
  PROVE  /\ Node(0) = Dummy
         /\ Node(Len(queue) + 1) = Dummy
         /\ \A k \in 1 .. Len(queue) : Node(k) = queue[k] + 1 /\ Node(k) \in Index \ {Dummy}
         /\ \A j, k \in 0 .. Len(queue) : Node(j) = Node(k) => j = k
         /\ \A j, k \in 1 .. Len(queue) + 1 : Node(j) = Node(k) => j = k
<1> USE RRAssumption
<1>1. /\ Len(queue) \in Nat
      /\ \A k \in 1 .. Len(queue) : queue[k] \in Tid
  BY QueueFacts
<1>2. /\ Node(0) = Dummy
      /\ Node(Len(queue) + 1) = Dummy
      /\ \A k \in 1 .. Len(queue) : Node(k) = queue[k] + 1 /\ Node(k) \in Index \ {Dummy}
  BY <1>1 DEF Node, Dummy, Index, Tid
<1>3. \A j, k \in 1 .. Len(queue) : Node(j) = Node(k) => j = k
  BY <1>1, <1>2 DEF Distinct, Tid
<1> QED
  BY <1>1, <1>2, <1>3

\* schedulerInit makes an empty ring.
THEOREM InitInv == SchedulerInit => Inv
<1> USE RRAssumption
<1> SUFFICES ASSUME SchedulerInit PROVE Inv
  OBVIOUS
<1>1. queue = << >> /\ Len(queue) = 0 /\ queue \in Seq(Tid)
  BY EmptySeq DEF SchedulerInit
<1>2. TypeOK
  BY <1>1 DEF SchedulerInit, TypeOK, Index, Dummy
<1>3. Linked
  BY <1>1 DEF SchedulerInit, Linked, Distinct, Node, Index, Dummy
<1>4. NoStaleLinks
  BY DEF SchedulerInit, NoStaleLinks, Index, Dummy
<1> QED
  BY <1>2, <1>3, <1>4 DEF Inv
------------------------------------------------------------------------------
\* Appending a clean node behind the newest one.
LEMMA PushInv ==
  ASSUME Inv, NEW t \in Tid, t \notin Range(queue), SchedulerPush(t)
  PROVE  Inv'
<1> USE RRAssumption
<1> DEFINE n == Len(queue)
           i == t + 1
<1>1. TypeOK /\ Linked /\ Distinct /\ NoStaleLinks
  BY DEF Inv, Linked
<1>2. n \in Nat /\ \A k \in 1 .. n : queue[k] \in Tid /\ queue[k] # t
  BY <1>1, QueueFacts
<1>3. /\ queue' \in Seq(Tid)
      /\ Len(queue') = n + 1
      /\ \A k \in 1 .. n : queue'[k] = queue[k]
      /\ queue'[n + 1] = t
  BY <1>1, AppendProperties DEF SchedulerPush, TypeOK
<1>4. i \in Index \ {Dummy}
  BY DEF Tid, Index, Dummy
<1>5. prev[Dummy] = Node(n)
  BY <1>1, <1>2, NodeFacts DEF Linked
<1>6. Node(n) \in Index
  BY <1>1, <1>2, NodeFacts DEF Index, Dummy
<1>7. TypeOK'
  <2>1. time' \in [Index -> 0 .. MaxTime]
    BY <1>1, <1>4 DEF SchedulerPush, TypeOK
  <2>2. Dummy \in Index /\ prev[Dummy] \in Index /\ t + 1 \in Index
    BY <1>4, <1>5, <1>6 DEF Dummy, Index
  <2>3. prev' \in [Index -> Index]
    BY <1>1, <2>2 DEF SchedulerPush, TypeOK
  <2>4. next' \in [Index -> Index]
    BY <1>1, <2>2 DEF SchedulerPush, TypeOK
  <2> QED
    BY <1>1, <1>3, <2>1, <2>3, <2>4 DEF SchedulerPush, TypeOK
<1>8. \A k \in 0 .. n + 2 : Node(k)' = IF k = n + 1 THEN i ELSE Node(k)
  BY <1>2, <1>3 DEF Node
<1>9. \A k \in 0 .. n + 1 : i # Node(k)
  BY <1>1, <1>2, <1>4, NodeFacts DEF Dummy, Tid
<1>10. /\ \A j \in Index : next'[j] = IF j = i THEN Dummy
                                      ELSE IF j = Node(n) THEN i ELSE next[j]
       /\ \A j \in Index : prev'[j] = IF j = Dummy THEN i
                                      ELSE IF j = i THEN Node(n) ELSE prev[j]
  BY <1>1, <1>4, <1>5, <1>6 DEF SchedulerPush, TypeOK, Dummy, Index
<1>11. Linked'
  <2>1. Distinct'
    BY <1>1, <1>2, <1>3 DEF Distinct
  <2>2. ASSUME NEW k \in 0 .. n + 1
        PROVE  next'[Node(k)'] = Node(k + 1)' /\ prev'[Node(k + 1)'] = Node(k)'
    <3>1. CASE k = n + 1
      <4>1. Node(k)' = i /\ Node(k + 1)' = Dummy
        BY <1>2, <1>3, <3>1, <1>8 DEF Node
      <4> QED
        BY <4>1, <1>4, <1>10 DEF Index, Dummy
    <3>2. CASE k = n
      <4>1. Node(k)' = Node(n) /\ Node(k + 1)' = i
        BY <1>2, <3>2, <1>8
      <4> QED
        BY <4>1, <1>2, <1>4, <1>6, <1>9, <1>10
    <3>3. CASE k \in 0 .. n - 1
      <4>1. /\ Node(k)' = Node(k) /\ Node(k + 1)' = Node(k + 1)
            /\ Node(k) \in Index /\ Node(k + 1) \in Index \ {Dummy}
            /\ Node(k) # Node(n)
            /\ Node(k) # i /\ Node(k + 1) # i
        BY <1>1, <1>2, <3>3, <1>8, <1>9, NodeFacts DEF Index, Dummy
      <4>2. next[Node(k)] = Node(k + 1) /\ prev[Node(k + 1)] = Node(k)
        BY <1>1, <1>2, <3>3 DEF Linked
      <4> QED
        BY <4>1, <4>2, <1>10
    <3> QED
      BY <1>2, <3>1, <3>2, <3>3
  <2> QED
    BY <1>3, <2>1, <2>2 DEF Linked
<1>12. NoStaleLinks'
  <2> SUFFICES ASSUME NEW j \in Index \ {Dummy}, j - 1 \notin Range(queue)'
               PROVE  next'[j] = Dummy /\ prev'[j] = Dummy
    BY DEF NoStaleLinks
  <2>1. \A k \in 1 .. n + 1 : queue'[k] # j - 1
    BY <1>2, <1>3, LenProperties DEF Range
  <2>2. j # i /\ j - 1 \notin Range(queue)
    BY <1>1, <1>2, <1>3, <2>1, QueueFacts DEF Tid, Index, Dummy
  <2>3. j # Node(n)
    <3>1. CASE n = 0
      BY <1>1, <3>1, NodeFacts
    <3>2. CASE n >= 1
      <4>1. Node(n) = queue[n] + 1 /\ queue'[n] = queue[n] /\ queue'[n] # j - 1
        BY <1>1, <1>2, <1>3, <2>1, <3>2, NodeFacts
      <4> QED
        BY <4>1, <1>2, <3>2 DEF Tid, Index
    <3> QED
      BY <1>2, <3>1, <3>2
  <2> QED
    BY <1>1, <1>10, <2>2, <2>3 DEF NoStaleLinks
<1> QED
  BY <1>7, <1>11, <1>12 DEF Inv

\* Unlinking the oldest node.
LEMMA PopInv ==
  ASSUME Inv, SchedulerPop
  PROVE  Inv' /\ queue # << >> /\ next[Dummy] = Head(queue) + 1
<1> USE RRAssumption
<1> DEFINE n == Len(queue)
           i == next[Dummy]
<1>1. TypeOK /\ Linked /\ Distinct /\ NoStaleLinks
  BY DEF Inv, Linked
<1>2. n \in Nat /\ \A k \in 1 .. n : queue[k] \in Tid
  BY <1>1, QueueFacts
<1>3. i = Node(1) /\ i # Dummy
  BY <1>1, <1>2, NodeFacts DEF Linked, SchedulerPop
<1>4. n >= 1 /\ queue # << >>
  BY <1>1, <1>2, <1>3, NodeFacts, EmptySeq DEF TypeOK
<1>5. i = queue[1] + 1 /\ Head(queue) = queue[1] /\ i \in Index \ {Dummy}
  BY <1>1, <1>2, <1>3, <1>4, NodeFacts
<1>6. next[i] = Node(2) /\ prev[i] = Dummy
  <2>1. 0 \in 0 .. n /\ 1 \in 0 .. n
    BY <1>2, <1>4
  <2>2. next[Node(1)] = Node(1 + 1) /\ prev[Node(0 + 1)] = Node(0)
    BY <1>1, <2>1 DEF Linked
  <2> QED
    BY <1>1, <1>3, <2>2, NodeFacts
<1>7. Node(2) \in Index
  BY <1>1, <1>2, <1>4, NodeFacts DEF Index, Dummy
<1>8. /\ \A j \in Index : next'[j] = IF j = i THEN Dummy
                                     ELSE IF j = Dummy THEN Node(2) ELSE next[j]
      /\ \A j \in Index : prev'[j] = IF j = i THEN Dummy
                                     ELSE IF j = Node(2) THEN Dummy ELSE prev[j]
  BY <1>1, <1>5, <1>6, <1>7 DEF SchedulerPop, TypeOK, Dummy, Index
<1>9. /\ queue' \in Seq(Tid)
      /\ Len(queue') = n - 1
      /\ \A k \in 1 .. n - 1 : queue'[k] = queue[k + 1]
  BY <1>1, <1>4, HeadTailProperties DEF SchedulerPop, TypeOK
<1>10. TypeOK'
  <2>1. prev' \in [Index -> Index] /\ next' \in [Index -> Index]
    BY <1>1, <1>5, <1>6, <1>7 DEF SchedulerPop, TypeOK, Dummy, Index
  <2>2. ret' \in -1 .. MaxThread
    BY <1>5 DEF SchedulerPop, Index, Dummy
  <2> QED
    BY <1>1, <1>5, <1>9, <2>1, <2>2 DEF SchedulerPop, TypeOK
<1>11. \A k \in 0 .. n : Node(k)' = IF k = 0 THEN Dummy ELSE Node(k + 1)
  BY <1>2, <1>4, <1>9 DEF Node
<1>12. Linked'
  <2>1. Distinct'
    BY <1>1, <1>2, <1>9 DEF Distinct
  <2>2. ASSUME NEW k \in 0 .. n - 1
        PROVE  next'[Node(k)'] = Node(k + 1)' /\ prev'[Node(k + 1)'] = Node(k)'
    <3>1. CASE k = 0
      <4>1. Node(k)' = Dummy /\ Node(k + 1)' = Node(2)
        BY <1>2, <1>4, <1>11, <3>1
      <4>2. Node(2) # i
        BY <1>1, <1>2, <1>3, <1>4, NodeFacts
      <4> QED
        BY <4>1, <4>2, <1>5, <1>7, <1>8 DEF Index, Dummy
    <3>2. CASE k \in 1 .. n - 1
      <4>1. Node(k)' = Node(k + 1) /\ Node(k + 1)' = Node(k + 2)
        BY <1>2, <1>4, <1>11, <3>2
      <4>2. /\ Node(k + 1) \in Index \ {Dummy} /\ Node(k + 1) # i
            /\ Node(k + 2) \in Index /\ Node(k + 2) # i /\ Node(k + 2) # Node(2)
        BY <1>1, <1>2, <1>3, <1>4, <3>2, NodeFacts DEF Index, Dummy
      <4>3. next[Node(k + 1)] = Node(k + 2) /\ prev[Node(k + 2)] = Node(k + 1)
        <5>1. k + 1 \in 0 .. n
          BY <1>2, <3>2
        <5>2. next[Node(k + 1)] = Node((k + 1) + 1) /\ prev[Node((k + 1) + 1)] = Node(k + 1)
          BY <1>1, <5>1 DEF Linked
        <5>3. (k + 1) + 1 = k + 2
          BY <3>2
        <5> QED
          BY <5>2, <5>3
      <4> QED
        BY <4>1, <4>2, <4>3, <1>8
    <3> QED
      BY <1>2, <1>4, <3>1, <3>2
  <2> QED
    BY <1>9, <2>1, <2>2 DEF Linked
<1>13. NoStaleLinks'
  <2> SUFFICES ASSUME NEW j \in Index \ {Dummy}, j - 1 \notin Range(queue)'
               PROVE  next'[j] = Dummy /\ prev'[j] = Dummy
    BY DEF NoStaleLinks
  <2>1. \A k \in 1 .. n - 1 : queue'[k] # j - 1
    BY <1>2, <1>9, LenProperties DEF Range
  <2>2. CASE j = i
    BY <1>5, <1>8, <2>2
  <2>3. CASE j # i
    <3>1. \A k \in 1 .. n : queue[k] # j - 1
      <4>1. \A k \in 2 .. n : queue'[k - 1] = queue[k] /\ k - 1 \in 1 .. n - 1
        BY <1>2, <1>9
      <4> QED
        BY <1>2, <1>5, <2>1, <2>3, <4>1 DEF Index, Tid
    <3>2. j - 1 \notin Range(queue)
      BY <1>1, <3>1, QueueFacts DEF Tid, Index, Dummy
    <3> QED
      BY <1>1, <1>8, <2>3, <3>2 DEF NoStaleLinks
  <2> QED
    BY <2>2, <2>3
<1> QED
  BY <1>4, <1>5, <1>10, <1>12, <1>13 DEF Inv
------------------------------------------------------------------------------
\* Ticks and exits leave the ring alone.
LEMMA TickInv ==
  ASSUME Inv, SchedulerTick, current # 0 => time[current] > 0
  PROVE  Inv'
<1> USE RRAssumption
<1>1. TypeOK'
  <2>1. time' \in [Index -> 0 .. MaxTime]
    <3>1. CASE current = 0
      BY <3>1 DEF Inv, TypeOK, SchedulerTick
    <3>2. CASE current # 0
      <4>1. time[current] \in 1 .. MaxTime
        BY <3>2 DEF Inv, TypeOK, Index
      <4>2. (time[current] - 1) % TimeMod = time[current] - 1
        BY <4>1
      <4> QED
        BY <3>2, <4>1, <4>2 DEF Inv, TypeOK, SchedulerTick
    <3> QED
      BY <3>1, <3>2
  <2> QED
    BY <2>1 DEF Inv, TypeOK, SchedulerTick
<1> QED
  BY <1>1 DEF Inv, SchedulerTick, Linked, Distinct, Node, NoStaleLinks

\* One step of any caller that keeps the calling discipline.
THEOREM StepInv == Inv /\ [Next]_vars => Inv'
<1> USE RRAssumption
<1> SUFFICES ASSUME Inv, [Next]_vars PROVE Inv'
  OBVIOUS
<1>1. ASSUME NEW t \in Tid, t \notin Range(queue), SchedulerPush(t) PROVE Inv'
  BY <1>1, PushInv
<1>2. CASE SchedulerPop
  BY <1>2, PopInv
<1>3. CASE SchedulerPopEmpty
  BY <1>3 DEF Inv, SchedulerPopEmpty, TypeOK, Linked, Distinct, Node, NoStaleLinks, Dummy
<1>4. ASSUME current # 0 => time[current] > 0, SchedulerTick PROVE Inv'
  BY <1>4, TickInv
<1>5. ASSUME NEW t \in Tid, SchedulerExit(t) PROVE Inv'
  <2>1. TypeOK'
    <3>1. current' \in Index
      BY <1>5 DEF Inv, SchedulerExit, TypeOK, Index
    <3> QED
      BY <1>5, <3>1 DEF Inv, SchedulerExit, TypeOK
  <2> QED
    BY <1>5, <2>1 DEF Inv, SchedulerExit, Linked, Distinct, Node, NoStaleLinks
<1>6. CASE UNCHANGED vars
  BY <1>6 DEF Inv, vars, TypeOK, Linked, Distinct, Node, NoStaleLinks
<1> QED
  BY <1>1, <1>2, <1>3, <1>4, <1>5, <1>6 DEF Next

\* The inductive invariant holds whatever the callers do.
THEOREM SpecInv == Spec => []Inv
  BY InitInv, StepInv, PTL DEF Spec

\* Indices stay in the array and no slice wraps around.
THEOREM TypeCorrect == Spec => []TypeOK
<1>1. Inv => TypeOK
  BY DEF Inv
<1> QED
  BY <1>1, SpecInv, PTL

\* Following the links is reading the queue, in both directions.
THEOREM RingIsQueue == Spec => []Linked
<1>1. Inv => Linked
  BY DEF Inv
<1> QED
  BY <1>1, SpecInv, PTL

\* A thread off the queue has no links.
THEOREM LinksCleared == Spec => []NoStaleLinks
<1>1. Inv => NoStaleLinks
  BY DEF Inv
<1> QED
  BY <1>1, SpecInv, PTL
------------------------------------------------------------------------------
\* The refinement: an empty ring starts as an empty queue ...
LEMMA InitRefines == SchedulerInit => Fifo!Init
  BY RRAssumption DEF SchedulerInit, Fifo!Init, Fifo!NoTid, Fifo!Tid, Tid, Index

\* ... and every call is the call of the same name, or changes nothing.
LEMMA StepRefines == Inv /\ [Next]_vars => [Fifo!Next]_(Fifo!schedulerVars)
<1> USE RRAssumption
<1> DEFINE Slice == [t \in Tid |-> time[t + 1]]
<1> SUFFICES ASSUME Inv, [Next]_vars
             PROVE  Fifo!Next \/ UNCHANGED Fifo!schedulerVars
  OBVIOUS
<1>1. TypeOK
  BY DEF Inv
<1>2. Fifo!Tid = Tid /\ Fifo!NoTid = -1 /\ Fifo!Range(queue) = Range(queue)
  BY DEF Fifo!Tid, Tid, Fifo!NoTid, Fifo!Range, Range
<1>3. ASSUME NEW t \in Tid, t \notin Range(queue), SchedulerPush(t) PROVE Fifo!Next
  <2>1. Slice' = [Slice EXCEPT ![t] = IF @ = 0 THEN MaxTime ELSE @]
    <3>1. \A u \in Tid : time'[u + 1] = IF u = t
                                        THEN IF time[t + 1] = 0 THEN MaxTime ELSE time[t + 1]
                                        ELSE time[u + 1]
      <4> TAKE u \in Tid
      <4>1. u + 1 \in Index /\ t + 1 \in Index /\ (u + 1 = t + 1 <=> u = t)
        BY DEF Tid, Index
      <4> QED
        BY <1>1, <1>3, <4>1 DEF SchedulerPush, TypeOK
    <3> QED
      BY <3>1
  <2>2. Fifo!Push(t) /\ UNCHANGED (current - 1)
    BY <1>3, <2>1 DEF SchedulerPush, Fifo!Push, Tid, Fifo!Tid
  <2> QED
    BY <1>2, <1>3, <2>2 DEF Fifo!Next, Fifo!Push
<1>4. CASE SchedulerPop
  <2>1. queue # << >> /\ next[Dummy] = Head(queue) + 1
    BY <1>4, PopInv
  <2>2. Head(queue) \in Tid
    BY <1>1, <2>1, HeadTailProperties DEF TypeOK
  <2>3. Fifo!Pop /\ UNCHANGED Slice
    BY <1>4, <2>1, <2>2 DEF SchedulerPop, Fifo!Pop, Tid
  <2> QED
    BY <2>3 DEF Fifo!Next, Fifo!Tid, Tid
<1>5. CASE SchedulerPopEmpty
  BY <1>5 DEF SchedulerPopEmpty, Fifo!schedulerVars
<1>6. ASSUME current # 0 => current - 1 \notin Range(queue) /\ time[current] > 0,
             SchedulerTick
      PROVE  Fifo!Next \/ UNCHANGED Fifo!schedulerVars
  <2>1. CASE current = 0
    BY <1>6, <2>1 DEF SchedulerTick, Fifo!schedulerVars
  <2>2. CASE current # 0
    <3>1. current - 1 \in Tid /\ (current - 1) + 1 = current
      BY <1>1, <2>2 DEF TypeOK, Tid, Index
    <3>2. Slice' = [Slice EXCEPT ![current - 1] = (@ - 1) % TimeMod]
      <4>1. \A u \in Tid : time'[u + 1] = IF u = current - 1
                                          THEN (time[current] - 1) % TimeMod
                                          ELSE time[u + 1]
        <5> TAKE u \in Tid
        <5>1. u + 1 \in Index /\ current \in Index /\ (u + 1 = current <=> u = current - 1)
          BY <1>1 DEF TypeOK, Tid, Index
        <5> QED
          BY <1>1, <1>6, <2>2, <5>1 DEF SchedulerTick, TypeOK
      <4> QED
        BY <3>1, <4>1
    <3>3. Slice[current - 1] > 0
      BY <1>6, <2>2, <3>1
    <3>4. current - 1 # Fifo!NoTid
      BY <1>2, <3>1 DEF Tid
    <3>5. Fifo!Tick /\ UNCHANGED <<queue, current - 1>>
      BY <1>2, <1>6, <3>2, <3>4 DEF SchedulerTick, Fifo!Tick, Tid, Fifo!Tid
    <3> QED
      BY <1>2, <1>6, <2>2, <3>3, <3>4, <3>5 DEF Fifo!Next
  <2> QED
    BY <2>1, <2>2
<1>7. ASSUME NEW t \in Tid, SchedulerExit(t)
      PROVE  Fifo!Next \/ UNCHANGED Fifo!schedulerVars
  <2>1. CASE current = t + 1
    <3>1. /\ current - 1 # Fifo!NoTid
          /\ Fifo!Exit(current - 1)
          /\ UNCHANGED <<queue, Slice>>
      BY <1>2, <1>7, <2>1 DEF SchedulerExit, Fifo!Exit, Tid
    <3> QED
      BY <3>1 DEF Fifo!Next, Fifo!Tid, Tid
  <2>2. CASE current # t + 1
    BY <1>7, <2>2 DEF SchedulerExit, Fifo!schedulerVars
  <2> QED
    BY <2>1, <2>2
<1>8. CASE UNCHANGED vars
  BY <1>8 DEF vars, Fifo!schedulerVars
<1> QED
  BY <1>3, <1>4, <1>5, <1>6, <1>7, <1>8 DEF Next

\* The ring implements the abstract scheduler: whatever the number of threads,
\* the length of a slice and the sequence of calls, pop returns the thread
\* that was pushed first.
THEOREM RingImplementsFifo == Spec => FifoSpec
<1>1. Spec => []Inv
  BY SpecInv
<1> QED
  BY <1>1, InitRefines, StepRefines, PTL DEF Spec, FifoSpec, Fifo!Spec

\* What a call returns.
LEMMA StepResults ==
  Inv /\ [Next]_vars =>
    [/\ Len(queue') < Len(queue) => ret' = Head(queue)
     /\ time' # time /\ queue' = queue => (ret' = 1 <=> Fifo!Expired)]_vars
<1> USE RRAssumption
<1> DEFINE Told == /\ Len(queue') < Len(queue) => ret' = Head(queue)
                   /\ time' # time /\ queue' = queue => (ret' = 1 <=> Fifo!Expired)
<1> SUFFICES ASSUME Inv, Next PROVE Told
  BY DEF Inv
<1>1. TypeOK /\ Len(queue) \in Nat
  BY QueueFacts DEF Inv
<1>2. ASSUME NEW t \in Tid, SchedulerPush(t) PROVE Told
  <2>1. queue' = Append(queue, t)
    BY <1>2 DEF SchedulerPush
  <2>2. Len(queue') = Len(queue) + 1
    BY <1>1, <2>1 DEF TypeOK
  <2> QED
    BY <1>1, <2>2
<1>3. CASE SchedulerPop
  <2>1. ret' = Head(queue) /\ UNCHANGED time
    <3>1. next[Dummy] = Head(queue) + 1 /\ queue # << >>
      BY <1>3, PopInv
    <3>2. Head(queue) \in Tid
      BY <1>1, <3>1 DEF TypeOK
    <3> QED
      BY <1>3, <3>1, <3>2 DEF SchedulerPop, Tid
  <2> QED
    BY <2>1
<1>4. CASE SchedulerPopEmpty
  BY <1>1, <1>4 DEF SchedulerPopEmpty
<1>5. ASSUME current # 0 => time[current] > 0, SchedulerTick PROVE Told
  <2>1. queue' = queue
    BY <1>5 DEF SchedulerTick
  <2>2. ASSUME time' # time PROVE ret' = 1 <=> Fifo!Expired
    <3>1. current # 0 /\ current \in Index /\ time[current] \in 1 .. MaxTime
      BY <1>1, <1>5, <2>2 DEF SchedulerTick, TypeOK
    <3>2. (time[current] - 1) % TimeMod = time[current] - 1
      BY <3>1
    <3>3. time'[current] = time[current] - 1
      BY <1>1, <1>5, <3>1, <3>2 DEF SchedulerTick, TypeOK
    <3>4. ret' = 1 <=> time[current] = 1
      BY <1>5, <3>1, <3>3 DEF SchedulerTick
    <3>5. current - 1 \in Tid /\ (current - 1) + 1 = current
      BY <3>1 DEF Tid, Index
    <3>6. Fifo!Expired <=> time[current] = 1
      BY <3>5 DEF Fifo!Expired, Fifo!NoTid, Tid
    <3> QED
      BY <3>4, <3>6
  <2> QED
    BY <1>1, <2>1, <2>2
<1>6. ASSUME NEW t \in Tid, SchedulerExit(t) PROVE Told
  BY <1>1, <1>6 DEF SchedulerExit
<1> QED
  BY <1>2, <1>3, <1>4, <1>5, <1>6 DEF Next

\* What the callers are told is what the abstract scheduler says: pop hands
\* out the oldest thread, and tick asks for a switch when the slice of the
\* current thread runs out (rrscheduler.c:79 and 90-95).
THEOREM CallersAreTold == Spec => CallResults
<1>1. Spec => []Inv
  BY SpecInv
<1> QED
  BY <1>1, StepResults, PTL DEF Spec, CallResults
==============================================================================
