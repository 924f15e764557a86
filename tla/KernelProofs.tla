---------------------------- MODULE KernelProofs ----------------------------
(***************************************************************************)
(* Proofs about Kernel, for every number of threads, stacks and characters, *)
(* every way to boot and whichever interrupts are enabled: the ready queue *)
(* and the pool agree, every sleeper has one waker, contexts and stacks    *)
(* are live as long as they are needed, and the scheduler is called as     *)
(* FifoScheduler demands.                                                  *)
(***************************************************************************)
EXTENDS Kernel, SequenceTheorems, FiniteSetTheorems, TLAPS

BootPc == {"initThread", "runCPU"}
IdlePc == {"idleEntry", "acquire", "enabled", "halted", "mask"}
UserPc == {"running", "popChar", "exiting"}

\* The idle thread runs exactly while no thread is on the hart, and what it
\* resumes at is known whenever a thread is about to leave.
HartPlaced ==
  /\ pc # "wild"
  /\ pc \in UserPc \union {"retrieve", "faultLoop"} => busy
  /\ pc \in BootPc \union IdlePc => ~busy
  /\ pc \in BootPc => idleCtx = IdleStack /\ saved[IdleStack] = "idleEntry"
  /\ pc \in UserPc => idleCtx = IdleStack /\ saved[IdleStack] = "retrieve"

\* The thread on the hart, its record and what the scheduler takes it for.
RunningKnown ==
  /\ boot.rubbish \subseteq {t \in Tid : occupied[t]}
  /\ busy =>
       /\ running \notin boot.rubbish
       /\ cur.kstack = thread[running].kstack /\ cur.wait = thread[running].wait
       /\ occupied[running] => current = running
       /\ pc = "exiting" => ~occupied[running]
       /\ pc \notin {"exiting", "retrieve"} => occupied[running] /\ status[running] = "Running"
       /\ pc = "retrieve" /\ occupied[running] => cur.ctx = running /\ status[running] # "Ready"

\* Threads whose kernel stack is allocated: one that exits keeps it until the
\* idle thread is back.
Held == Threads \union IF busy THEN {running} ELSE {}

\* A thread resumes on its own user stack, or on its kernel stack for the
\* first time.
StacksKnown ==
  /\ \A t \in Held : thread[t].kstack \in KStack
  /\ \A t, u \in Held : t # u => thread[t].kstack # thread[u].kstack
  /\ heap = {thread[t].kstack : t \in Held}
  /\ \A t \in Threads : thread[t].ctx \in {t, thread[t].kstack}
  /\ \A t \in Threads : ~(busy /\ running = t) => saved[thread[t].ctx] \in {"running", "popChar"}
  /\ pc = "retrieve" /\ occupied[running] => saved[running] \in {"running", "popChar"}

\* Whoever may be charged a tick has time left.
SlicesLeft ==
  /\ \A t \in Range(queue) : slice[t] > 0
  /\ pc \in {"running", "popChar"} => slice[running] > 0

\* initThread fills the lowest usable slots, and they stay filled.
BootKnown ==
  /\ pc = "initThread" =>
       /\ \A t \in Threads : status[t] = "Ready"
       /\ waitQueue = << >>
       /\ Booted <= Len(boot.adds)
       /\ \A t \in Threads, u \in Tid \ boot.rubbish : u < t => u \in Threads
       /\ Threads \subseteq BootThreads
  /\ pc \notin {"initThread", "panicked"} => BootThreads \subseteq Threads
  /\ \A t \in Threads \intersect BootThreads : prog[t] # "hello"

\* Where the context of a thread is: the pool learns of it when the idle
\* thread takes the thread back.
CtxOf(t) == IF busy /\ t = running THEN cur.ctx ELSE thread[t].ctx

\* Readers resume in popChar, hosts in their program.
ReadersKnown ==
  /\ \A t \in Range(waitQueue) : saved[CtxOf(t)] = "popChar"
  /\ \A u \in Executed : saved[CtxOf(thread[u].wait)] = "running"
  /\ pc = "retrieve" /\ occupied[running] /\ status[running] = "Running" =>
       saved[running] = "running"

Inv ==
  /\ TypeOK /\ ReadyQueueExact /\ SleepersHaveOneWaker
  /\ HartPlaced /\ RunningKnown /\ StacksKnown /\ SlicesLeft /\ BootKnown /\ ReadersKnown

\* Readers that were woken and wait for the hart.  Only a character adds to
\* them, and only a dispatch takes away.
ReadyReaders == {t \in Threads : status[t] = "Ready" /\ saved[thread[t].ctx] = "popChar"}

\* With a single line of programs a reader that was woken has its character.
CharForWoken == Len(boot.adds) = 1 /\ ReadyReaders # {} => buffered > 0
------------------------------------------------------------------------------
(* Sequences without repetitions: what a push and a pop do to the set of   *)
(* their elements.                                                         *)
LEMMA AppendFacts ==
  ASSUME NEW S, NEW q \in Seq(S), NEW t \in S
  PROVE  /\ Append(q, t) \in Seq(S)
         /\ Append(q, t) # << >>
         /\ Range(Append(q, t)) = Range(q) \union {t}
         /\ NoRepeats(q) /\ t \notin Range(q) => NoRepeats(Append(q, t))
<1> DEFINE n == Len(q)
           p == Append(q, t)
<1>1. /\ n \in Nat /\ DOMAIN q = 1 .. n
      /\ \A k \in 1 .. n : q[k] \in S
  BY LenProperties, ElementOfSeq
<1>2. /\ p \in Seq(S) /\ Len(p) = n + 1 /\ DOMAIN p = 1 .. n + 1
      /\ \A k \in 1 .. n : p[k] = q[k]
      /\ p[n + 1] = t
  BY <1>1, AppendProperties, LenProperties
<1>3. 1 .. n + 1 = (1 .. n) \union {n + 1}
  BY <1>1
<1>4. Range(p) = Range(q) \union {t}
  BY <1>1, <1>2, <1>3 DEF Range
<1>5. ASSUME NoRepeats(q), t \notin Range(q)
      PROVE  NoRepeats(p)
  BY <1>1, <1>2, <1>3, <1>5 DEF NoRepeats, Range
<1>6. p # << >>
  BY <1>1, <1>2, EmptySeq
<1> HIDE DEF n, p
<1> QED
  BY <1>2, <1>4, <1>5, <1>6 DEF p

LEMMA TailFacts ==
  ASSUME NEW S, NEW q \in Seq(S), q # << >>
  PROVE  /\ Tail(q) \in Seq(S)
         /\ Head(q) \in S /\ Head(q) \in Range(q)
         /\ Range(Tail(q)) \subseteq Range(q)
         /\ NoRepeats(q) => NoRepeats(Tail(q)) /\ Range(Tail(q)) = Range(q) \ {Head(q)}
<1> DEFINE n == Len(q)
           p == Tail(q)
<1>1. /\ n \in Nat /\ n > 0 /\ DOMAIN q = 1 .. n
      /\ \A k \in 1 .. n : q[k] \in S
  BY LenProperties, ElementOfSeq, EmptySeq
<1>2. /\ p \in Seq(S) /\ Len(p) = n - 1 /\ DOMAIN p = 1 .. n - 1
      /\ \A k \in 1 .. n - 1 : p[k] = q[k + 1]
      /\ Head(q) = q[1]
  BY <1>1, HeadTailProperties, LenProperties
<1>3. /\ \A k \in 1 .. n - 1 : k + 1 \in 1 .. n
      /\ \A k \in 1 .. n : k = 1 \/ k - 1 \in 1 .. n - 1
      /\ 1 \in 1 .. n
  BY <1>1
<1>4. Range(p) \subseteq Range(q)
  BY <1>1, <1>2, <1>3 DEF Range
<1>5. ASSUME NoRepeats(q)
      PROVE  NoRepeats(p) /\ Range(p) = Range(q) \ {Head(q)}
  <2>1. \A j, k \in 1 .. n : q[j] = q[k] => j = k
    BY <1>5 DEF NoRepeats
  <2>2. NoRepeats(p)
    <3> SUFFICES ASSUME NEW j \in 1 .. n - 1, NEW k \in 1 .. n - 1, p[j] = p[k]
                 PROVE  j = k
      BY <1>2 DEF NoRepeats
    <3>1. q[j + 1] = q[k + 1] /\ j + 1 \in 1 .. n /\ k + 1 \in 1 .. n
      BY <1>2, <1>3
    <3> QED
      BY <2>1, <3>1
  <2>3. Head(q) \notin Range(p)
    <3> SUFFICES ASSUME NEW j \in 1 .. n - 1, p[j] = q[1]
                 PROVE  FALSE
      BY <1>2 DEF Range
    <3>1. q[j + 1] = q[1] /\ j + 1 \in 1 .. n /\ j + 1 # 1
      BY <1>2, <1>3
    <3> QED
      BY <2>1, <3>1, <1>3
  <2>4. ASSUME NEW x \in Range(q), x # Head(q)
        PROVE  x \in Range(p)
    <3>1. PICK k \in 1 .. n : q[k] = x
      BY <1>1 DEF Range
    <3>2. k - 1 \in 1 .. n - 1 /\ p[k - 1] = q[k]
      BY <1>2, <1>3, <2>4, <3>1
    <3> QED
      BY <1>2, <3>1, <3>2 DEF Range
  <2> QED
    BY <1>4, <2>2, <2>3, <2>4
<1> HIDE DEF n, p
<1>6. Head(q) \in S /\ Head(q) \in Range(q)
  BY <1>1, <1>2, <1>3 DEF Range
<1> QED
  BY <1>2, <1>4, <1>5, <1>6 DEF p

\* The lowest slot that looks free.
LEMMA AllocTidFacts ==
  ASSUME TypeOK, \E t \in Tid : ~occupied[t]
  PROVE  /\ AllocTid \in Tid /\ ~occupied[AllocTid]
         /\ \A u \in Tid : u < AllocTid => occupied[u]
<1> DEFINE Free == {t \in Tid : ~occupied[t]}
<1>1. Free \subseteq Nat /\ Free # {}
  BY KernelAssumption DEF Tid
<1>2. PICK t \in Free : \A u \in Free : ~(<<u, t>> \in OpToRel(<, Nat))
  BY <1>1, WFMin, NatLessThanWellFounded
<1>3. \A u \in Free : ~(u < t)
  BY <1>1, <1>2 DEF OpToRel
<1>4. t \in Tid /\ ~occupied[t] /\ \A u \in 0 .. t - 1 : occupied[u]
  BY <1>3, KernelAssumption DEF Tid
<1>5. AllocTid \in Tid /\ ~occupied[AllocTid] /\ \A u \in 0 .. AllocTid - 1 : occupied[u]
  BY <1>4 DEF AllocTid
<1> QED
  BY <1>5, KernelAssumption DEF Tid

\* Where contexts and stacks can be.
LEMMA StackFacts ==
  ASSUME Inv
  PROVE  /\ IdleStack \in Stack /\ KStack \subseteq Stack /\ Tid \subseteq Stack
         /\ IdleStack \notin KStack /\ IdleStack \notin Tid /\ KStack \intersect Tid = {}
         /\ Null \notin Stack
         /\ Threads \subseteq Tid /\ Threads \subseteq Held /\ Held \subseteq Tid
         /\ \A t \in Threads : /\ occupied[t] /\ t \notin boot.rubbish
                               /\ thread[t].ctx \in {t, thread[t].kstack}
                               /\ thread[t].kstack \in KStack
         /\ \A t, u \in Threads : t # u => thread[t].ctx # thread[u].ctx
         /\ \A t, u \in Threads : t # u => thread[t].ctx # u
<1>1. /\ IdleStack \in Stack /\ KStack \subseteq Stack /\ Tid \subseteq Stack
      /\ IdleStack \notin KStack /\ IdleStack \notin Tid /\ KStack \intersect Tid = {}
      /\ Null \notin Stack
  BY KernelAssumption DEF Stack
<1>2. Threads \subseteq Tid /\ Threads \subseteq Held /\ Held \subseteq Tid
  BY DEF Inv, TypeOK, Threads, Held
<1>3. ASSUME NEW t \in Threads
      PROVE  /\ occupied[t] /\ t \notin boot.rubbish
             /\ thread[t].ctx \in {t, thread[t].kstack}
             /\ thread[t].kstack \in KStack
  BY <1>2 DEF Inv, StacksKnown, Threads
<1>4. ASSUME NEW t \in Threads, NEW u \in Threads, t # u
      PROVE  thread[t].ctx # thread[u].ctx /\ thread[t].ctx # u
  <2>1. thread[t].kstack # thread[u].kstack
    BY <1>2, <1>4 DEF Inv, StacksKnown
  <2> QED
    BY <1>1, <1>2, <1>3, <1>4, <2>1
<1> QED
  BY <1>1, <1>2, <1>3, <1>4

\* A step that only moves the hart within the same context.
LEMMA MoveInv ==
  ASSUME Inv, TypeOK',
         UNCHANGED <<poolVars, busy, running, cur, queue, current, waitQueue, heap, boot>>,
         \A s \in KStack \union Tid : saved'[s] = saved[s],
         pc \notin {"exiting", "retrieve"}, pc' \notin {"exiting", "retrieve"},
         HartPlaced', SlicesLeft', BootKnown'
  PROVE  Inv' /\ ReadyReaders' = ReadyReaders
<1>1. Threads' = Threads /\ Executed' = Executed /\ Held' = Held
  BY DEF poolVars, Threads, Executed, BootThreads, Held
<1>2. ReadyQueueExact'
  BY <1>1 DEF Inv, ReadyQueueExact, poolVars
<1>3. SleepersHaveOneWaker'
  BY <1>1 DEF Inv, SleepersHaveOneWaker, poolVars
<1>4. RunningKnown'
  BY DEF Inv, RunningKnown, poolVars
<1>5. StacksKnown'
  <2>1. \A t \in Threads : saved'[thread[t].ctx] = saved[thread[t].ctx]
    BY StackFacts
  <2> QED
    BY <1>1, <2>1 DEF Inv, StacksKnown, poolVars
<1>6. ReadersKnown'
  <2>1. \A t \in Threads : status[t] = "Sleeping" => ~(busy /\ t = running)
    BY DEF Inv, RunningKnown
  <2>2. \A t \in Threads : status[t] = "Sleeping" => saved'[CtxOf(t)'] = saved[CtxOf(t)]
    BY <2>1, StackFacts DEF CtxOf, poolVars
  <2>3. \A t \in Range(waitQueue) : t \in Threads /\ status[t] = "Sleeping"
    BY DEF Inv, SleepersHaveOneWaker
  <2>4. \A u \in Executed : thread[u].wait \in Threads /\ status[thread[u].wait] = "Sleeping"
    BY DEF Inv, SleepersHaveOneWaker
  <2> QED
    BY <1>1, <2>2, <2>3, <2>4 DEF Inv, ReadersKnown, poolVars
<1>7. ReadyReaders' = ReadyReaders
  BY <1>1, StackFacts DEF ReadyReaders, poolVars
<1> QED
  BY <1>7, <1>2, <1>3, <1>4, <1>5, <1>6 DEF Inv

\* The slots of the boot threads are the lowest usable ones.
LEMMA BootFacts ==
  ASSUME Inv
  PROVE  /\ Len(boot.adds) \in Nat
         /\ \A i \in 1 .. Len(boot.adds) : boot.adds[i] \in Prog \ {"hello"}
         /\ IsFiniteSet(Threads) /\ Booted \in Nat
         /\ pc = "initThread" /\ Booted = Len(boot.adds) => BootThreads \subseteq Threads
         /\ pc = "initThread" /\ Booted < Len(boot.adds) /\ Room => AllocTid \in BootThreads
<1> DEFINE Usable == Tid \ boot.rubbish
           Below(t) == {u \in Usable : u < t}
<1>1. /\ Len(boot.adds) \in Nat
      /\ \A i \in 1 .. Len(boot.adds) : boot.adds[i] \in Prog \ {"hello"}
  <2>1. boot.adds \in Seq(Prog \ {"hello"})
    BY KernelAssumption DEF Inv, TypeOK
  <2> QED
    BY <2>1, LenProperties, ElementOfSeq
<1>2. IsFiniteSet(Tid)
  BY FS_Interval, KernelAssumption DEF Tid
<1>3. /\ IsFiniteSet(Threads) /\ Booted \in Nat
      /\ \A t : IsFiniteSet(Below(t)) /\ Cardinality(Below(t)) \in Nat
  BY <1>2, FS_Subset, FS_CardinalityType DEF Threads, Booted
<1>4. BootThreads = {t \in Usable : Cardinality(Below(t)) < Len(boot.adds)}
  BY DEF BootThreads
<1>5. ASSUME pc = "initThread", Booted = Len(boot.adds),
             NEW t \in BootThreads, t \notin Threads
      PROVE  FALSE
  <2>1. Threads \subseteq Below(t)
    <3> SUFFICES ASSUME NEW u \in Threads
                 PROVE  u \in Below(t)
      OBVIOUS
    <3>1. u \in Usable /\ t \in Usable /\ u # t
      BY <1>4, <1>5 DEF Threads
    <3>2. ~(t < u)
      BY <1>5, <3>1 DEF Inv, BootKnown
    <3>3. u \in Nat /\ t \in Nat
      BY <3>1, KernelAssumption DEF Tid
    <3> QED
      BY <3>1, <3>2, <3>3
  <2>2. Booted <= Cardinality(Below(t))
    BY <1>3, <2>1, FS_Subset DEF Booted
  <2>3. Cardinality(Below(t)) < Len(boot.adds)
    BY <1>4, <1>5
  <2> HIDE DEF Below
  <2> QED
    BY <1>1, <1>3, <1>5, <2>2, <2>3
<1>6. ASSUME pc = "initThread", Booted < Len(boot.adds), Room
      PROVE  AllocTid \in BootThreads
  <2>1. /\ AllocTid \in Tid /\ ~occupied[AllocTid]
        /\ \A u \in Tid : u < AllocTid => occupied[u]
    BY <1>6, AllocTidFacts DEF Room, Inv
  <2>2. AllocTid \in Usable
    BY <2>1 DEF Inv, RunningKnown
  <2>3. Below(AllocTid) \subseteq Threads
    BY <2>1 DEF Threads
  <2>4. Cardinality(Below(AllocTid)) <= Booted
    BY <1>3, <2>3, FS_Subset DEF Booted
  <2>5. Cardinality(Below(AllocTid)) < Len(boot.adds)
    <3> HIDE DEF Below
    <3> QED
      BY <1>1, <1>3, <1>6, <2>4
  <2> QED
    BY <1>4, <2>2, <2>5
<1> QED
  BY <1>1, <1>3, <1>5, <1>6
------------------------------------------------------------------------------
\* initCPU leaves no thread, and the idle thread on its stack.
LEMMA InitInv ==
  ASSUME Init
  PROVE  Inv
<1>1. boot.rubbish \subseteq Tid /\ boot.adds \in Seq(Prog \ {"hello"})
  BY KernelAssumption DEF Init
<1>2. Threads = {} /\ Held = {} /\ Executed = {} /\ Booted = 0
  <2>1. Threads = {}
    BY <1>1 DEF Init, Threads
  <2> QED
    BY <2>1, FS_EmptySet DEF Init, Held, Executed, Booted
<1>3. Range(queue) = {} /\ Range(waitQueue) = {} /\ Len(queue) = 0 /\ Len(waitQueue) = 0
  BY EmptySeq DEF Init, Range
<1>4. TypeOK
  <2>1. queue \in Seq(Tid) /\ waitQueue \in Seq(Tid)
    BY EmptySeq DEF Init
  <2>2. NoThread \in Thread
    BY KernelAssumption DEF NoThread, Thread, Ctx, Tid
  <2>3. /\ occupied \in [Tid -> BOOLEAN]
        /\ status \in [Tid -> {"Ready", "Running", "Sleeping"}]
        /\ prog \in [Tid -> Prog]
        /\ saved \in [Stack -> ResumePc]
    BY DEF Init, Prog, ResumePc
  <2>4. thread \in [Tid -> Thread]
    BY <2>2 DEF Init
  <2>5. slice \in [Tid -> 0 .. MaxTime] /\ running \in Tid /\ buffered \in 0 .. MaxBuf
    BY KernelAssumption DEF Init, Tid
  <2> QED
    BY <2>1, <2>2, <2>3, <2>4, <2>5 DEF Init, TypeOK, Pc, ClosedPc
<1>5. ReadyQueueExact
  BY <1>2, <1>3 DEF ReadyQueueExact, NoRepeats
<1>6. SleepersHaveOneWaker
  BY <1>2, <1>3 DEF SleepersHaveOneWaker, NoRepeats
<1>7. HartPlaced
  BY KernelAssumption DEF Init, HartPlaced, Stack, BootPc, IdlePc, UserPc
<1>8. RunningKnown
  BY <1>1 DEF Init, RunningKnown
<1>9. StacksKnown
  BY <1>2 DEF Init, StacksKnown
<1>10. SlicesLeft
  BY <1>3 DEF Init, SlicesLeft
<1>11. BootKnown
  <2>1. Len(boot.adds) \in Nat
    BY <1>1, LenProperties
  <2> QED
    BY <1>2, <2>1 DEF Init, BootKnown
<1>12. ReadersKnown
  BY <1>2, <1>3 DEF Init, ReadersKnown
<1> QED
  BY <1>4, <1>5, <1>6, <1>7, <1>8, <1>9, <1>10, <1>11, <1>12 DEF Inv
------------------------------------------------------------------------------
\* A step that changes the place of the hart and nothing a thread relies on.
LEMMA PcInv ==
  ASSUME Inv,
         UNCHANGED <<poolVars, cpuVars, schedulerVars, waitQueue, heap, saved, boot>>,
         buffered' \in 0 .. MaxBuf, armed' \in BOOLEAN, pc' \in Pc,
         pc \notin {"exiting", "retrieve"}, pc' \notin {"exiting", "retrieve", "wild"},
         \/ pc' = pc
         \/ pc' = "panicked"
         \/ pc = "initThread" /\ pc' = "runCPU" /\ Booted = Len(boot.adds)
         \/ pc \in IdlePc /\ pc' \in IdlePc
         \/ pc \in UserPc /\ pc' \in UserPc
  PROVE  Inv' /\ ReadyReaders' = ReadyReaders
<1>1. TypeOK'
  BY DEF Inv, TypeOK, poolVars, cpuVars, schedulerVars
<1>2. HartPlaced'
  BY DEF Inv, HartPlaced, BootPc, IdlePc, UserPc, cpuVars
<1>3. SlicesLeft'
  BY DEF Inv, SlicesLeft, IdlePc, UserPc, cpuVars, schedulerVars
<1>4. BootKnown'
  <2>1. Threads' = Threads /\ BootThreads' = BootThreads /\ Booted' = Booted
    BY DEF poolVars, Threads, BootThreads, Booted
  <2>2. pc' \notin {"initThread", "panicked"} => BootThreads \subseteq Threads
    BY BootFacts DEF Inv, BootKnown, IdlePc, UserPc
  <2>3. pc' = "initThread" => pc = "initThread"
    BY DEF IdlePc, UserPc
  <2> QED
    BY <2>1, <2>2, <2>3 DEF Inv, BootKnown, poolVars
<1> QED
  BY <1>1, <1>2, <1>3, <1>4, MoveInv DEF cpuVars, schedulerVars

\* runCPU leaves the boot stack for the entry of the idle thread.
LEMMA RunCPUInv ==
  ASSUME Inv, RunCPU, UNCHANGED boot
  PROVE  Inv' /\ ReadyReaders' = ReadyReaders
<1>1. /\ pc = "runCPU" /\ ~busy
      /\ idleCtx = IdleStack /\ saved[IdleStack] = "idleEntry"
  BY DEF Inv, HartPlaced, BootPc, RunCPU
<1>2. pc' = "idleEntry"
  BY <1>1, StackFacts DEF RunCPU, Resume
<1>3. TypeOK'
  <2>1. saved' \in [Stack -> ResumePc]
    BY DEF Inv, TypeOK, RunCPU, ResumePc
  <2> QED
    BY <1>2, <2>1 DEF Inv, TypeOK, RunCPU, poolVars, schedulerVars, stdinVars, Pc, OpenPc
<1>4. \A s \in KStack \union Tid : saved'[s] = saved[s]
  BY StackFacts DEF Inv, TypeOK, RunCPU
<1>5. HartPlaced'
  BY <1>1, <1>2 DEF RunCPU, HartPlaced, BootPc, IdlePc, UserPc
<1>6. SlicesLeft'
  BY <1>2 DEF Inv, SlicesLeft, RunCPU, schedulerVars
<1>7. BootKnown'
  <2>1. Threads' = Threads /\ BootThreads' = BootThreads
    BY DEF RunCPU, poolVars, Threads, BootThreads
  <2> QED
    BY <1>1, <1>2, <2>1 DEF Inv, BootKnown, RunCPU, poolVars
<1> QED
  BY <1>1, <1>2, <1>3, <1>4, <1>5, <1>6, <1>7, MoveInv DEF RunCPU, schedulerVars, stdinVars

\* The steps of the boot and of the idle thread that only move on, timer
\* interrupts that find no thread, and calls that touch no thread.
LEMMA MovesInv ==
  ASSUME Inv, UNCHANGED boot,
         \/ InitThreadPanic \/ InitTimer
         \/ DisableInterrupts \/ EnableInterrupts \/ Wfi
         \/ TimerIdle \/ ExternalNothing
         \/ SysRead \/ PopChar \/ SysExecPanic
  PROVE  Inv' /\ ReadyReaders' = ReadyReaders
<1>1. pc \in Pc /\ buffered \in 0 .. MaxBuf /\ armed \in BOOLEAN
  BY DEF Inv, TypeOK
<1>2. CASE InitThreadPanic
  BY <1>1, <1>2, PcInv DEF InitThreadPanic, stdinVars, Pc, FinalPc
<1>3. CASE InitTimer
  BY <1>1, <1>3, PcInv DEF InitTimer, SetTimerout, stdinVars, Pc, OpenPc
<1>4. CASE DisableInterrupts
  BY <1>1, <1>4, PcInv DEF DisableInterrupts, stdinVars, Pc, ClosedPc, IdlePc
<1>5. CASE EnableInterrupts
  BY <1>1, <1>5, PcInv DEF EnableInterrupts, stdinVars, Pc, OpenPc, IdlePc
<1>6. CASE Wfi
  BY <1>1, <1>6, PcInv DEF Wfi, stdinVars, Pc, OpenPc, IdlePc
<1>7. CASE TimerIdle
  BY <1>1, <1>7, PcInv DEF TimerIdle, SetTimerout, AfterInterrupt, stdinVars, Pc, OpenPc, IdlePc
<1>8. CASE ExternalNothing
  BY <1>1, <1>8, PcInv DEF ExternalNothing, AfterInterrupt, stdinVars, Pc, OpenPc, IdlePc
<1>9. CASE SysRead
  BY <1>1, <1>9, PcInv DEF SysRead, stdinVars, Pc, ClosedPc, UserPc
<1>10. CASE PopChar
  <2>1. buffered' \in 0 .. MaxBuf
    BY <1>1, <1>10, KernelAssumption DEF PopChar
  <2> QED
    BY <1>1, <1>10, <2>1, PcInv DEF PopChar, Pc, OpenPc, UserPc
<1>11. CASE SysExecPanic
  BY <1>1, <1>11, PcInv DEF SysExecPanic, stdinVars, Pc, FinalPc
<1> QED
  BY <1>2, <1>3, <1>4, <1>5, <1>6, <1>7, <1>8, <1>9, <1>10, <1>11
------------------------------------------------------------------------------
\* schedulerPush of a thread that is not queued.
LEMMA PushFacts ==
  ASSUME Inv, NEW t \in Tid, t \notin Range(queue), Sched!Push(t)
  PROVE  /\ queue' \in Seq(Tid) /\ slice' \in [Tid -> 0 .. MaxTime]
         /\ Range(queue') = Range(queue) \union {t} /\ NoRepeats(queue')
         /\ \A u \in Range(queue') : slice'[u] > 0
         /\ \A u \in Tid \ {t} : slice'[u] = slice[u]
<1>1. queue \in Seq(Tid) /\ slice \in [Tid -> 0 .. MaxTime] /\ NoRepeats(queue)
  BY DEF Inv, TypeOK, ReadyQueueExact
<1>2. /\ queue' = Append(queue, t)
      /\ slice' = [slice EXCEPT ![t] = IF @ = 0 THEN MaxTime ELSE @]
  BY DEF Sched!Push
<1>3. queue' \in Seq(Tid) /\ Range(queue') = Range(queue) \union {t} /\ NoRepeats(queue')
  BY <1>1, <1>2, AppendFacts
<1>4. slice' \in [Tid -> 0 .. MaxTime] /\ slice'[t] > 0
  BY <1>1, <1>2, KernelAssumption
<1>5. ASSUME NEW u \in Range(queue)
      PROVE  slice'[u] > 0
  <2>1. u \in Tid /\ slice[u] > 0
    BY DEF Inv, ReadyQueueExact, SlicesLeft, TypeOK, Range
  <2> QED
    BY <1>1, <1>2, <1>4, <2>1
<1>6. \A u \in Tid \ {t} : slice'[u] = slice[u]
  BY <1>1, <1>2
<1> QED
  BY <1>3, <1>4, <1>5, <1>6

\* What is queued is a thread, and the threads of the pool are Tid.
LEMMA QueueFacts ==
  ASSUME Inv
  PROVE  /\ Range(queue) \subseteq Threads /\ Range(waitQueue) \subseteq Threads
         /\ \A t \in Range(queue) : status[t] = "Ready"
         /\ \A t \in Range(waitQueue) : status[t] = "Sleeping"
<1>1. Range(queue) \subseteq Tid /\ Range(waitQueue) \subseteq Tid
  BY LenProperties, ElementOfSeq DEF Inv, TypeOK, Range
<1> QED
  BY <1>1 DEF Inv, ReadyQueueExact, SleepersHaveOneWaker

\* A new thread in the slot of allocTid.
LEMMA AddFacts ==
  ASSUME Inv, NEW p \in Prog, NEW k \in KStack \ heap, NEW host \in Tid,
         Room, AddToPool(p, k, host), UNCHANGED boot
  PROVE  LET t == AllocTid
         IN /\ t \in Tid /\ t \notin Threads /\ t \notin boot.rubbish /\ ~occupied[t]
            /\ \A u \in Tid : u < t => occupied[u]
            /\ Threads' = Threads \union {t} /\ t \notin Range(queue)
            /\ \A u \in Tid \ {t} : /\ occupied'[u] = occupied[u]
                                    /\ thread'[u] = thread[u] /\ prog'[u] = prog[u]
            /\ thread'[t] = [ctx |-> k, kstack |-> k, wait |-> host] /\ prog'[t] = p
            /\ occupied'[t]
            /\ occupied' \in [Tid -> BOOLEAN] /\ thread' \in [Tid -> Thread]
            /\ prog' \in [Tid -> Prog]
            /\ heap' = heap \union {k}
            /\ Sched!Push(t)
<1> DEFINE t == AllocTid
<1>1. t \in Tid /\ ~occupied[t] /\ \A u \in Tid : u < t => occupied[u]
  BY AllocTidFacts DEF Room, Inv
<1>2. t \notin Threads /\ t \notin boot.rubbish
  BY <1>1 DEF Inv, RunningKnown, Threads
<1>3. t \notin Range(queue)
  BY <1>2, QueueFacts
<1>4. /\ heap' = heap \union {k}
      /\ occupied' = [occupied EXCEPT ![t] = TRUE]
      /\ thread' = [thread EXCEPT ![t] = [ctx |-> k, kstack |-> k, wait |-> host]]
      /\ prog' = [prog EXCEPT ![t] = p]
      /\ Sched!Push(t)
  BY DEF AddToPool, NewUserThread
<1>5. /\ occupied \in [Tid -> BOOLEAN] /\ thread \in [Tid -> Thread] /\ prog \in [Tid -> Prog]
  BY DEF Inv, TypeOK
<1> HIDE DEF t
<1>6. [ctx |-> k, kstack |-> k, wait |-> host] \in Thread
  BY DEF Thread, Ctx, Stack
<1>7. /\ occupied' \in [Tid -> BOOLEAN] /\ thread' \in [Tid -> Thread]
      /\ prog' \in [Tid -> Prog]
  BY <1>1, <1>4, <1>5, <1>6
<1>8. \A u \in Tid \ {t} : /\ occupied'[u] = occupied[u]
                           /\ thread'[u] = thread[u] /\ prog'[u] = prog[u]
  BY <1>4, <1>5
<1>9. thread'[t] = [ctx |-> k, kstack |-> k, wait |-> host] /\ prog'[t] = p /\ occupied'[t]
  BY <1>1, <1>4, <1>5
<1>10. Threads' = Threads \union {t}
  BY <1>1, <1>2, <1>8, <1>9 DEF Threads
<1> QED
  BY <1>1, <1>2, <1>3, <1>4, <1>7, <1>8, <1>9, <1>10 DEF t

\* initThread adds a shell.
LEMMA InitThreadInv ==
  ASSUME Inv, NEW k \in KStack, InitThread(k), UNCHANGED boot
  PROVE  Inv' /\ ReadyReaders' = ReadyReaders
<1> DEFINE t == AllocTid
           p == boot.adds[Booted + 1]
<1>1. /\ pc = "initThread" /\ pc' = pc /\ Booted < Len(boot.adds) /\ Room
      /\ k \in KStack \ heap /\ AddToPool(p, k, 0)
      /\ status' = [status EXCEPT ![t] = "Ready"]
      /\ saved' = [saved EXCEPT ![k] = "running", ![t] = "none"]
      /\ UNCHANGED <<cpuVars, current, stdinVars, armed>>
  BY DEF InitThread, Fresh
<1>2. p \in Prog \ {"hello"} /\ 0 \in Tid
  BY <1>1, BootFacts, KernelAssumption DEF Tid
<1>3. /\ t \in Tid /\ t \notin Threads /\ t \notin boot.rubbish /\ ~occupied[t]
      /\ \A u \in Tid : u < t => occupied[u]
      /\ Threads' = Threads \union {t} /\ t \notin Range(queue)
      /\ \A u \in Tid \ {t} : /\ occupied'[u] = occupied[u]
                              /\ thread'[u] = thread[u] /\ prog'[u] = prog[u]
      /\ thread'[t] = [ctx |-> k, kstack |-> k, wait |-> 0] /\ prog'[t] = p
      /\ occupied'[t]
      /\ occupied' \in [Tid -> BOOLEAN] /\ thread' \in [Tid -> Thread]
      /\ prog' \in [Tid -> Prog]
      /\ heap' = heap \union {k}
      /\ Sched!Push(t)
  BY <1>1, <1>2, AddFacts
<1>4. t \in BootThreads /\ BootThreads' = BootThreads
  BY <1>1, BootFacts DEF BootThreads
<1>5. ~busy /\ ~busy' /\ Held = Threads /\ Held' = Threads'
  BY <1>1 DEF Inv, HartPlaced, Held, cpuVars, BootPc
<1>6. /\ queue' \in Seq(Tid) /\ slice' \in [Tid -> 0 .. MaxTime]
      /\ Range(queue') = Range(queue) \union {t} /\ NoRepeats(queue')
      /\ \A u \in Range(queue') : slice'[u] > 0
  BY <1>3, PushFacts
<1>7. /\ Threads \subseteq BootThreads /\ Executed = {} /\ Executed' = {}
      /\ waitQueue = << >> /\ waitQueue' = << >> /\ Range(waitQueue) = {}
      /\ \A u \in Threads : status[u] = "Ready"
  BY <1>1, <1>3, <1>4 DEF Inv, BootKnown, Executed, stdinVars, Range
<1> HIDE DEF t, p
<1>8. /\ saved' \in [Stack -> ResumePc] /\ status' \in [Tid -> {"Ready", "Running", "Sleeping"}]
      /\ saved'[k] = "running"
      /\ \A s \in Stack \ {k, t} : saved'[s] = saved[s]
      /\ status'[t] = "Ready" /\ \A u \in Tid \ {t} : status'[u] = status[u]
  <2>1. k \in Stack /\ t \in Stack /\ k # t
    BY <1>1, <1>3, StackFacts
  <2>2. saved \in [Stack -> ResumePc] /\ status \in [Tid -> {"Ready", "Running", "Sleeping"}]
    BY DEF Inv, TypeOK
  <2>3. saved' \in [Stack -> ResumePc]
    BY <1>1, <2>1, <2>2 DEF ResumePc
  <2>4. saved'[k] = "running" /\ \A s \in Stack \ {k, t} : saved'[s] = saved[s]
    BY <1>1, <2>1, <2>2
  <2>5. /\ status' \in [Tid -> {"Ready", "Running", "Sleeping"}]
        /\ status'[t] = "Ready" /\ \A u \in Tid \ {t} : status'[u] = status[u]
    BY <1>1, <1>3, <2>2
  <2> QED
    BY <2>3, <2>4, <2>5
<1>9. TypeOK'
  BY <1>1, <1>3, <1>6, <1>8 DEF Inv, TypeOK, cpuVars, stdinVars
<1>10. \A u \in Threads' : status'[u] = "Ready"
  BY <1>3, <1>7, <1>8, StackFacts
<1>11. ReadyQueueExact'
  BY <1>3, <1>6, <1>8, <1>10, QueueFacts DEF Inv, ReadyQueueExact
<1>12. SleepersHaveOneWaker'
  BY <1>7, <1>10 DEF Inv, SleepersHaveOneWaker
<1>13. HartPlaced'
  BY <1>1, <1>3, <1>8, StackFacts DEF Inv, HartPlaced, cpuVars
<1>14. RunningKnown'
  BY <1>1, <1>3, <1>5 DEF Inv, RunningKnown
<1>15. StacksKnown'
  <2>1. \A u \in Threads : /\ thread'[u] = thread[u]
                           /\ thread[u].kstack \in KStack /\ thread[u].kstack # k
                           /\ thread[u].ctx # k /\ thread[u].ctx # t
    <3>1. \A u \in Threads : thread[u].kstack \in heap /\ u # t
      BY <1>3, <1>5 DEF Inv, StacksKnown
    <3> QED
      BY <1>1, <1>3, <3>1, StackFacts
  <2>2. \A u \in Threads : saved'[thread[u].ctx] = saved[thread[u].ctx]
    BY <1>8, <2>1, StackFacts
  <2>3. heap' = {thread'[u].kstack : u \in Threads'}
    BY <1>3, <1>5, <2>1 DEF Inv, StacksKnown
  <2>4. \A u \in Threads' : thread'[u].kstack \in KStack
    BY <1>3, <2>1
  <2>5. \A u, v \in Threads' : u # v => thread'[u].kstack # thread'[v].kstack
    BY <1>3, <1>5, <2>1 DEF Inv, StacksKnown
  <2>6. \A u \in Threads' : thread'[u].ctx \in {u, thread'[u].kstack}
    BY <1>3, <2>1, StackFacts
  <2>7. \A u \in Threads' : saved'[thread'[u].ctx] \in {"running", "popChar"}
    BY <1>3, <1>5, <1>8, <2>1, <2>2 DEF Inv, StacksKnown
  <2> QED
    BY <1>1, <1>5, <2>3, <2>4, <2>5, <2>6, <2>7 DEF StacksKnown
<1>16. SlicesLeft'
  BY <1>1, <1>6 DEF SlicesLeft
<1>17. BootKnown'
  <2>1. Booted' = Booted + 1
    BY <1>3, BootFacts, FS_AddElement DEF Booted
  <2>2. Booted' <= Len(boot.adds)
    BY <1>1, <2>1, BootFacts
  <2>3. \A u \in Threads', v \in Tid \ boot.rubbish : v < u => v \in Threads'
    BY <1>1, <1>3 DEF Inv, BootKnown, Threads
  <2>4. \A u \in Threads' : prog'[u] # "hello"
    BY <1>2, <1>3, <1>7, StackFacts DEF Inv, BootKnown
  <2>5. Threads' \subseteq BootThreads
    BY <1>3, <1>4, <1>7
  <2> QED
    BY <1>1, <1>4, <1>7, <1>10, <2>2, <2>3, <2>4, <2>5 DEF BootKnown
<1>18. ReadersKnown'
  BY <1>1, <1>7 DEF ReadersKnown, Range
<1>19. ReadyReaders' = ReadyReaders
  <2>1. \A u \in Threads : /\ status'[u] = status[u]
                           /\ saved'[thread'[u].ctx] = saved[thread[u].ctx]
    <3>1. \A u \in Threads : /\ thread'[u] = thread[u] /\ u \in Tid \ {t}
                             /\ thread[u].ctx \in Stack \ {k, t}
      BY <1>1, <1>3, <1>5, StackFacts DEF Inv, StacksKnown
    <3> QED
      BY <1>8, <3>1
  <2> QED
    BY <1>3, <1>8, <2>1 DEF ReadyReaders
<1> QED
  BY <1>19, <1>9, <1>11, <1>12, <1>13, <1>14, <1>15, <1>16, <1>17, <1>18 DEF Inv
------------------------------------------------------------------------------
\* A thread is popped from the ready queue and switched to.
LEMMA DispatchInv ==
  ASSUME Inv, Dispatch, UNCHANGED boot
  PROVE  /\ Inv' /\ ReadyReaders' = ReadyReaders \ {Head(queue)} /\ running' = Head(queue)
         /\ pc' = "popChar" => Head(queue) \in ReadyReaders
         /\ Head(queue) \in ReadyReaders => pc' \in {"popChar", "faultLoop"}
<1> DEFINE t == Head(queue)
           c == thread[t].ctx
<1>1. /\ pc = "acquire" /\ queue # << >> /\ queue' = Tail(queue) /\ current' = t
      /\ status' = [status EXCEPT ![t] = "Running"]
      /\ running' = t /\ busy' = TRUE
      /\ cur' = [thread[t] EXCEPT !.ctx = Null]
      /\ idleCtx' = IdleStack
      /\ saved' = [s \in Stack |-> IF s = IdleStack THEN "retrieve"
                                   ELSE IF s = c THEN "none" ELSE saved[s]]
      /\ pc' = Resume(c)
      /\ UNCHANGED <<occupied, thread, prog, slice, stdinVars, heap, armed>>
  BY DEF Dispatch, SwitchToThread, Sched!Pop
<1> HIDE DEF t, c
<1>2. ~busy
  BY <1>1 DEF Inv, HartPlaced, IdlePc
<1>3. /\ queue' \in Seq(Tid) /\ t \in Range(queue) /\ t \in Tid
      /\ NoRepeats(queue') /\ Range(queue') = Range(queue) \ {t}
  BY <1>1, TailFacts DEF Inv, TypeOK, ReadyQueueExact, t
<1>4. t \in Threads /\ status[t] = "Ready" /\ occupied[t] /\ t \notin boot.rubbish
  BY <1>3, QueueFacts, StackFacts
<1>5. /\ c \in {t, thread[t].kstack} /\ c \in Stack /\ c # Null /\ c # IdleStack
      /\ saved[c] \in {"running", "popChar"}
  BY <1>2, <1>4, StackFacts DEF Inv, StacksKnown, c
<1>6. pc' \in {"running", "popChar", "faultLoop"}
  BY <1>1, <1>5 DEF Resume
<1>7. /\ Threads' = Threads /\ BootThreads' = BootThreads /\ Executed' = Executed
      /\ Held = Threads /\ Held' = Threads
  BY <1>1, <1>2, <1>4, <1>6 DEF Threads, BootThreads, Executed, Held
<1>8. /\ thread[t] \in Thread /\ cur' \in Thread /\ cur'.kstack = thread[t].kstack
      /\ cur'.wait = thread[t].wait
  BY <1>1, <1>3 DEF Inv, TypeOK, Thread, Ctx
<1>9. /\ saved' \in [Stack -> ResumePc] /\ saved'[IdleStack] = "retrieve"
      /\ \A s \in Stack \ {IdleStack, c} : saved'[s] = saved[s]
  BY <1>1, StackFacts DEF Inv, TypeOK, ResumePc
<1>10. /\ status' \in [Tid -> {"Ready", "Running", "Sleeping"}] /\ status'[t] = "Running"
       /\ \A u \in Tid \ {t} : status'[u] = status[u]
  BY <1>1, <1>3 DEF Inv, TypeOK
<1>11. TypeOK'
  BY <1>1, <1>3, <1>6, <1>8, <1>9, <1>10 DEF Inv, TypeOK, stdinVars, Pc, OpenPc, ClosedPc, FinalPc
<1>12. ReadyQueueExact'
  <2>1. \A u \in Threads : status[u] # "Running"
    BY <1>2 DEF Inv, ReadyQueueExact
  <2>2. \A u \in Tid : u \in Range(queue') <=> u \in Threads /\ status'[u] = "Ready"
    BY <1>3, <1>10 DEF Inv, ReadyQueueExact
  <2>3. \A u \in Threads : status'[u] = "Running" => busy' /\ running' = u
    BY <1>1, <1>10, <2>1, StackFacts
  <2> QED
    BY <1>3, <1>7, <2>2, <2>3 DEF ReadyQueueExact
<1>13. \A u \in Threads : status'[u] = "Sleeping" <=> status[u] = "Sleeping"
  BY <1>4, <1>10, StackFacts
<1>14. SleepersHaveOneWaker'
  BY <1>1, <1>7, <1>13 DEF Inv, SleepersHaveOneWaker, stdinVars
<1>15. HartPlaced'
  BY <1>1, <1>6, <1>9 DEF HartPlaced, BootPc, IdlePc, UserPc
<1>16. RunningKnown'
  BY <1>1, <1>4, <1>6, <1>8, <1>10 DEF Inv, RunningKnown
<1>17. \A u \in Threads : u # t => saved'[thread[u].ctx] = saved[thread[u].ctx]
  <2> SUFFICES ASSUME NEW u \in Threads, u # t
               PROVE  saved'[thread[u].ctx] = saved[thread[u].ctx]
    OBVIOUS
  <2>1. thread[u].ctx \in Stack \ {IdleStack, c}
    BY <1>4, StackFacts DEF c
  <2> QED
    BY <1>9, <2>1
<1>18. StacksKnown'
  <2>1. \A u \in Threads : u # t => saved'[thread[u].ctx] \in {"running", "popChar"}
    BY <1>2, <1>17 DEF Inv, StacksKnown
  <2>2. heap' = {thread'[u].kstack : u \in Held'}
    BY <1>1, <1>7 DEF Inv, StacksKnown
  <2> QED
    BY <1>1, <1>4, <1>6, <1>7, <2>1, <2>2 DEF Inv, StacksKnown
<1>19. SlicesLeft'
  BY <1>1, <1>3 DEF Inv, SlicesLeft
<1>20. BootKnown'
  BY <1>1, <1>6, <1>7 DEF Inv, BootKnown
<1>21. ReadersKnown'
  <2>1. \A u \in Threads : status[u] = "Sleeping" => saved'[CtxOf(u)'] = saved[CtxOf(u)]
    BY <1>1, <1>2, <1>4, <1>17 DEF CtxOf
  <2>2. \A u \in Range(waitQueue) : saved'[CtxOf(u)'] = "popChar"
    BY <2>1, QueueFacts DEF Inv, ReadersKnown
  <2>3. ASSUME NEW u \in Executed
        PROVE  saved'[CtxOf(thread[u].wait)'] = "running"
    <3> DEFINE h == thread[u].wait
    <3>1. h \in Threads /\ status[h] = "Sleeping" /\ saved[CtxOf(h)] = "running"
      BY DEF Inv, ReadersKnown, SleepersHaveOneWaker
    <3>2. h' = h
      BY <1>1
    <3> QED
      BY <2>1, <3>1, <3>2
  <2> QED
    BY <1>1, <1>6, <1>7, <2>2, <2>3 DEF ReadersKnown, stdinVars
<1>22. /\ ReadyReaders' = ReadyReaders \ {t} /\ running' = t
       /\ pc' = "popChar" => t \in ReadyReaders
       /\ t \in ReadyReaders => pc' \in {"popChar", "faultLoop"}
  <2>1. ReadyReaders' = ReadyReaders \ {t}
    BY <1>1, <1>7, <1>10, <1>17, StackFacts DEF ReadyReaders
  <2>2. pc' = "popChar" => t \in ReadyReaders
    BY <1>1, <1>4, <1>5 DEF ReadyReaders, Resume, c
  <2>3. t \in ReadyReaders => pc' \in {"popChar", "faultLoop"}
    BY <1>1, <1>5 DEF ReadyReaders, Resume, c
  <2> QED
    BY <1>1, <2>1, <2>2, <2>3
<1> QED
  BY <1>22, <1>11, <1>12, <1>14, <1>15, <1>16, <1>18, <1>19, <1>20, <1>21 DEF Inv, t

\* The idle thread frees the kernel stack of a thread that has exited.
LEMMA RetrieveExitedInv ==
  ASSUME Inv, RetrieveExited, UNCHANGED boot
  PROVE  Inv' /\ ReadyReaders' = ReadyReaders
<1> DEFINE k == thread[running].kstack
<1>1. /\ pc = "retrieve" /\ ~occupied[running] /\ busy /\ busy' = FALSE
      /\ heap' = heap \ {k} /\ saved' = [saved EXCEPT ![k] = "none"]
      /\ pc' = "acquire"
      /\ UNCHANGED <<poolVars, running, cur, idleCtx, schedulerVars, stdinVars, armed>>
  BY DEF RetrieveExited, Inv, HartPlaced
<1>2. /\ Threads' = Threads /\ BootThreads' = BootThreads /\ Executed' = Executed
      /\ Held = Threads \union {running} /\ Held' = Threads /\ running \notin Threads
  BY <1>1 DEF Threads, BootThreads, Executed, Held, poolVars
<1>3. k \in KStack
  BY <1>2 DEF Inv, StacksKnown
<1>4. \A u \in Threads : thread[u].kstack # k
  BY <1>2 DEF Inv, StacksKnown
<1> HIDE DEF k
<1>5. saved' \in [Stack -> ResumePc] /\ \A s \in Stack \ {k} : saved'[s] = saved[s]
  BY <1>1, <1>3, StackFacts DEF Inv, TypeOK, ResumePc
<1>6. TypeOK'
  BY <1>1, <1>5 DEF Inv, TypeOK, poolVars, schedulerVars, stdinVars, Pc, ClosedPc
<1>7. ReadyQueueExact'
  BY <1>1, <1>2 DEF Inv, ReadyQueueExact, poolVars, schedulerVars
<1>8. SleepersHaveOneWaker'
  BY <1>1, <1>2 DEF Inv, SleepersHaveOneWaker, poolVars, stdinVars
<1>9. HartPlaced'
  BY <1>1 DEF HartPlaced, BootPc, IdlePc, UserPc
<1>10. RunningKnown'
  BY <1>1 DEF Inv, RunningKnown, poolVars
<1>11. \A u \in Threads : saved'[thread[u].ctx] = saved[thread[u].ctx]
  <2> SUFFICES ASSUME NEW u \in Threads
               PROVE  saved'[thread[u].ctx] = saved[thread[u].ctx]
    OBVIOUS
  <2>1. thread[u].ctx \in Stack \ {k}
    BY <1>3, <1>4, StackFacts
  <2> QED
    BY <1>5, <2>1
<1>12. StacksKnown'
  <2>1. \A u \in Threads : saved'[thread[u].ctx] \in {"running", "popChar"}
    BY <1>1, <1>2, <1>11 DEF Inv, StacksKnown
  <2>2. heap' = {thread[u].kstack : u \in Threads}
    BY <1>1, <1>2, <1>4 DEF Inv, StacksKnown, k
  <2> QED
    BY <1>1, <1>2, <2>1, <2>2 DEF Inv, StacksKnown, poolVars
<1>13. SlicesLeft'
  BY <1>1 DEF Inv, SlicesLeft, schedulerVars
<1>14. BootKnown'
  BY <1>1, <1>2 DEF Inv, BootKnown, poolVars
<1>15. ReadersKnown'
  <2>1. \A u \in Threads : saved'[CtxOf(u)'] = saved[CtxOf(u)]
    BY <1>1, <1>2, <1>11 DEF CtxOf, poolVars
  <2> QED
    BY <1>1, <1>2, <2>1, QueueFacts DEF Inv, ReadersKnown, SleepersHaveOneWaker, stdinVars, poolVars
<1>16. ReadyReaders' = ReadyReaders
  BY <1>1, <1>2, <1>11 DEF ReadyReaders, poolVars
<1> QED
  BY <1>16, <1>6, <1>7, <1>8, <1>9, <1>10, <1>12, <1>13, <1>14, <1>15 DEF Inv

\* The idle thread takes a thread back that lives on.
LEMMA RetrieveInv ==
  ASSUME Inv, Retrieve, UNCHANGED boot
  PROVE  Inv' /\ ReadyReaders' = ReadyReaders
<1> DEFINE r == running
<1>1. /\ pc = "retrieve" /\ occupied[r] /\ busy' = FALSE
      /\ thread' = [thread EXCEPT ![r] = cur]
      /\ IF status[r] = "Running" THEN WakeupCPU(r) ELSE UNCHANGED <<status, queue, slice>>
      /\ pc' = "acquire"
      /\ UNCHANGED <<occupied, prog, running, cur, idleCtx, current, stdinVars, heap, saved, armed>>
  BY DEF Retrieve
<1>2. /\ busy /\ r \in Tid /\ r \notin boot.rubbish /\ r \in Threads
      /\ cur.kstack = thread[r].kstack /\ cur.wait = thread[r].wait
      /\ cur.ctx = r /\ status[r] # "Ready" /\ r \notin Range(queue)
      /\ saved[r] \in {"running", "popChar"}
  <2>1. busy /\ r \in Tid
    BY <1>1 DEF Inv, HartPlaced, TypeOK
  <2>2. r \notin boot.rubbish /\ r \in Threads
    BY <1>1, <2>1 DEF Inv, RunningKnown, Threads
  <2>3. status[r] # "Ready" /\ r \notin Range(queue)
    BY <1>1, <2>1, QueueFacts DEF Inv, RunningKnown
  <2> QED
    BY <1>1, <2>1, <2>2, <2>3 DEF Inv, RunningKnown, StacksKnown
<1>3. /\ Threads' = Threads /\ BootThreads' = BootThreads /\ Executed' = Executed
      /\ Held = Threads /\ Held' = Threads
  BY <1>1, <1>2 DEF Threads, BootThreads, Executed, Held
<1>4. /\ thread' \in [Tid -> Thread] /\ thread'[r] = cur
      /\ \A u \in Tid \ {r} : thread'[u] = thread[u]
      /\ \A u \in Tid : thread'[u].kstack = thread[u].kstack /\ thread'[u].wait = thread[u].wait
      /\ \A u \in Tid : CtxOf(u)' = CtxOf(u)
  <2>1. thread \in [Tid -> Thread] /\ cur \in Thread
    BY DEF Inv, TypeOK
  <2>2. /\ thread' \in [Tid -> Thread] /\ thread'[r] = cur
        /\ \A u \in Tid \ {r} : thread'[u] = thread[u]
    BY <1>1, <1>2, <2>1
  <2>3. \A u \in Tid : thread'[u].kstack = thread[u].kstack /\ thread'[u].wait = thread[u].wait
    BY <1>2, <2>2
  <2>4. \A u \in Tid : CtxOf(u)' = CtxOf(u)
    BY <1>1, <1>2, <2>2 DEF CtxOf
  <2> QED
    BY <2>2, <2>3, <2>4
<1>5. /\ queue' \in Seq(Tid) /\ slice' \in [Tid -> 0 .. MaxTime]
      /\ status' \in [Tid -> {"Ready", "Running", "Sleeping"}]
      /\ NoRepeats(queue') /\ \A u \in Range(queue') : slice'[u] > 0
      /\ \A u \in Tid : u \in Range(queue') <=> u \in Threads /\ status'[u] = "Ready"
      /\ \A u \in Threads : status'[u] # "Running"
      /\ \A u \in Threads : status'[u] = "Sleeping" <=> status[u] = "Sleeping"
  <2>1. /\ \A u \in Threads : status[u] = "Running" => u = r
        /\ \A u \in Tid : u \in Range(queue) <=> u \in Threads /\ status[u] = "Ready"
        /\ status \in [Tid -> {"Ready", "Running", "Sleeping"}]
    BY DEF Inv, ReadyQueueExact, TypeOK
  <2>2. CASE status[r] = "Running"
    <3>1. status' = [status EXCEPT ![r] = "Ready"] /\ Sched!Push(r)
      BY <1>1, <2>2 DEF WakeupCPU
    <3>2. /\ queue' \in Seq(Tid) /\ slice' \in [Tid -> 0 .. MaxTime]
          /\ Range(queue') = Range(queue) \union {r} /\ NoRepeats(queue')
          /\ \A u \in Range(queue') : slice'[u] > 0
      BY <1>2, <3>1, PushFacts
    <3>3. /\ status' \in [Tid -> {"Ready", "Running", "Sleeping"}] /\ status'[r] = "Ready"
          /\ \A u \in Tid \ {r} : status'[u] = status[u]
      BY <1>2, <2>1, <3>1
    <3> QED
      BY <1>2, <2>1, <2>2, <3>2, <3>3, StackFacts
  <2>3. CASE status[r] # "Running"
    <3>1. UNCHANGED <<status, queue, slice>>
      BY <1>1, <2>3
    <3> QED
      BY <1>2, <2>1, <2>3, <3>1 DEF Inv, ReadyQueueExact, TypeOK, SlicesLeft
  <2> QED
    BY <2>2, <2>3
<1>6. TypeOK'
  BY <1>1, <1>4, <1>5 DEF Inv, TypeOK, stdinVars, Pc, ClosedPc
<1>7. ReadyQueueExact'
  BY <1>3, <1>5 DEF ReadyQueueExact
<1>8. SleepersHaveOneWaker'
  <2>1. \A u \in Executed : u \in Tid
    BY <1>2, StackFacts DEF Executed
  <2>2. waitQueue' = waitQueue /\ \A u \in Executed : thread'[u].wait = thread[u].wait
    BY <1>1, <1>4, <2>1 DEF stdinVars
  <2>3. \A u \in Range(waitQueue) : u \in Threads /\ status'[u] = "Sleeping"
    BY <1>5, QueueFacts
  <2>4. \A u \in Executed : LET h == thread[u].wait
                            IN h \in Threads /\ status'[h] = "Sleeping"
                                 /\ h \notin Range(waitQueue)
    BY <1>5 DEF Inv, SleepersHaveOneWaker
  <2>5. \A u \in Threads : status'[u] = "Sleeping" =>
          u \in Range(waitQueue) \/ \E v \in Executed : thread[v].wait = u
    BY <1>5 DEF Inv, SleepersHaveOneWaker
  <2> QED
    BY <1>3, <2>2, <2>3, <2>4, <2>5 DEF Inv, SleepersHaveOneWaker
<1>9. HartPlaced'
  BY <1>1 DEF HartPlaced, BootPc, IdlePc, UserPc
<1>10. RunningKnown'
  BY <1>1 DEF Inv, RunningKnown
<1>11. StacksKnown'
  <2>1. heap' = {thread'[u].kstack : u \in Threads}
    BY <1>1, <1>3, <1>4, StackFacts DEF Inv, StacksKnown
  <2>2. /\ \A u \in Threads : thread'[u].kstack \in KStack
        /\ \A u, v \in Threads : u # v => thread'[u].kstack # thread'[v].kstack
    BY <1>3, <1>4, StackFacts DEF Inv, StacksKnown
  <2>3. \A u \in Threads : thread'[u].ctx \in {u, thread'[u].kstack}
    BY <1>2, <1>4, StackFacts
  <2>4. \A u \in Threads : saved[thread'[u].ctx] \in {"running", "popChar"}
    BY <1>2, <1>4, StackFacts DEF Inv, StacksKnown
  <2> QED
    BY <1>1, <1>3, <2>1, <2>2, <2>3, <2>4 DEF StacksKnown
<1>12. SlicesLeft'
  BY <1>1, <1>5 DEF SlicesLeft
<1>13. BootKnown'
  BY <1>1, <1>3 DEF Inv, BootKnown
<1>14. ReadersKnown'
  <2>1. \A u \in Range(waitQueue) : saved[CtxOf(u)'] = "popChar"
    BY <1>4, QueueFacts, StackFacts DEF Inv, ReadersKnown
  <2>2. ASSUME NEW u \in Executed
        PROVE  saved[CtxOf(thread[u].wait)'] = "running"
    <3> DEFINE h == thread[u].wait
    <3>1. h \in Tid /\ saved[CtxOf(h)] = "running" /\ u \in Tid
      BY <1>2, StackFacts DEF Inv, ReadersKnown, SleepersHaveOneWaker, Executed
    <3>2. h' = h
      BY <1>4, <3>1
    <3> QED
      BY <1>4, <3>1, <3>2
  <2> QED
    BY <1>1, <1>3, <2>1, <2>2 DEF ReadersKnown, stdinVars
<1>15. ReadyReaders' = ReadyReaders
  <2>1. ASSUME NEW u \in Threads \ {r}
        PROVE  u \in ReadyReaders' <=> u \in ReadyReaders
    <3>1. thread'[u] = thread[u] /\ (status'[u] = "Ready" <=> status[u] = "Ready")
      BY <1>4, <1>5, StackFacts DEF Inv, ReadyQueueExact, TypeOK
    <3> QED
      BY <1>1, <1>3, <3>1 DEF ReadyReaders
  <2>2. r \notin ReadyReaders
    BY <1>2 DEF ReadyReaders
  <2>3. r \notin ReadyReaders'
    BY <1>1, <1>2, <1>4 DEF ReadyReaders, Inv, ReadersKnown
  <2> QED
    BY <1>3, <2>1, <2>2, <2>3 DEF ReadyReaders
<1> QED
  BY <1>15, <1>6, <1>7, <1>8, <1>9, <1>10, <1>11, <1>12, <1>13, <1>14 DEF Inv

\* A character: the reader that has waited longest is woken.
LEMMA ExternalCharInv ==
  ASSUME Inv, ExternalChar, UNCHANGED boot
  PROVE  /\ Inv'
         /\ waitQueue = << >> => UNCHANGED waitQueue
         /\ waitQueue # << >> => /\ Head(waitQueue) \notin ReadyReaders
                                /\ ReadyReaders' = ReadyReaders \union {Head(waitQueue)}
         /\ waitQueue = << >> => ReadyReaders' = ReadyReaders
<1>1. /\ pc \in OpenPc /\ pc' = AfterInterrupt /\ buffered < MaxBuf /\ buffered' = buffered + 1
      /\ NotifyCondition
      /\ UNCHANGED <<occupied, thread, prog, cpuVars, current, heap, saved, armed>>
  BY DEF ExternalChar, PushChar
<1>2. /\ buffered' \in 0 .. MaxBuf
      /\ pc \notin {"exiting", "retrieve", "initThread", "panicked", "popChar"} /\ pc \in Pc
      /\ pc' \in OpenPc /\ pc' \notin {"exiting", "retrieve", "initThread", "panicked", "popChar"}
      /\ pc' \in Pc /\ pc' # "wild"
      /\ pc' = pc \/ (pc \in IdlePc /\ pc' \in IdlePc)
  BY <1>1, KernelAssumption DEF Inv, TypeOK, OpenPc, Pc, AfterInterrupt, IdlePc
<1>3. CASE waitQueue = << >>
  <2>1. UNCHANGED <<poolVars, cpuVars, schedulerVars, waitQueue, heap, saved, boot>>
    BY <1>1, <1>3 DEF NotifyCondition, poolVars, schedulerVars
  <2>2. armed' \in BOOLEAN
    BY <1>1 DEF Inv, TypeOK
  <2> QED
    BY <1>2, <1>3, <2>1, <2>2, PcInv
<1>4. CASE waitQueue # << >>
  <2> DEFINE t == Head(waitQueue)
  <2>1. /\ status' = [status EXCEPT ![t] = "Ready"] /\ Sched!Push(t)
        /\ waitQueue' = Tail(waitQueue)
    BY <1>1, <1>4 DEF NotifyCondition, WakeupCPU
  <2>2. /\ waitQueue' \in Seq(Tid) /\ t \in Range(waitQueue) /\ t \in Tid
        /\ NoRepeats(waitQueue') /\ Range(waitQueue') = Range(waitQueue) \ {t}
    BY <1>4, <2>1, TailFacts DEF Inv, TypeOK, SleepersHaveOneWaker
  <2> HIDE DEF t
  <2>3. t \in Threads /\ status[t] = "Sleeping" /\ t \notin Range(queue)
    BY <2>2, QueueFacts
  <2>4. /\ queue' \in Seq(Tid) /\ slice' \in [Tid -> 0 .. MaxTime]
        /\ Range(queue') = Range(queue) \union {t} /\ NoRepeats(queue')
        /\ \A u \in Range(queue') : slice'[u] > 0
        /\ \A u \in Tid \ {t} : slice'[u] = slice[u]
    BY <2>1, <2>2, <2>3, PushFacts
  <2>5. /\ status' \in [Tid -> {"Ready", "Running", "Sleeping"}] /\ status'[t] = "Ready"
        /\ \A u \in Tid \ {t} : status'[u] = status[u]
    BY <2>1, <2>2 DEF Inv, TypeOK
  <2>6. /\ Threads' = Threads /\ BootThreads' = BootThreads /\ Executed' = Executed
        /\ Held' = Held
    BY <1>1, <1>2 DEF Threads, BootThreads, Executed, Held, cpuVars
  <2>7. busy => running # t
    BY <1>2, <2>3 DEF Inv, RunningKnown
  <2>8. TypeOK'
    BY <1>1, <1>2, <2>2, <2>4, <2>5 DEF Inv, TypeOK, cpuVars
  <2>9. ReadyQueueExact'
    <3>1. \A u \in Tid : u \in Range(queue') <=> u \in Threads /\ status'[u] = "Ready"
      BY <2>3, <2>4, <2>5 DEF Inv, ReadyQueueExact
    <3>2. \A u \in Threads : status'[u] = "Running" => busy /\ running = u
      BY <2>5, StackFacts DEF Inv, ReadyQueueExact
    <3> QED
      BY <1>1, <2>4, <2>6, <3>1, <3>2 DEF ReadyQueueExact, cpuVars
  <2>10. SleepersHaveOneWaker'
    <3>1. \A u \in Range(waitQueue') : u \in Threads /\ status'[u] = "Sleeping"
      BY <2>2, <2>5, QueueFacts, StackFacts
    <3>2. \A u \in Executed : /\ thread[u].wait \in Threads \ {t}
                              /\ status'[thread[u].wait] = "Sleeping"
                              /\ thread[u].wait \notin Range(waitQueue')
      BY <2>2, <2>5, StackFacts DEF Inv, SleepersHaveOneWaker
    <3>3. \A u \in Threads : status'[u] = "Sleeping" =>
            u \in Range(waitQueue') \/ \E v \in Executed : thread[v].wait = u
      BY <2>2, <2>5, StackFacts DEF Inv, SleepersHaveOneWaker
    <3> QED
      BY <1>1, <2>2, <2>6, <3>1, <3>2, <3>3 DEF Inv, SleepersHaveOneWaker
  <2>11. HartPlaced'
    BY <1>1, <1>2 DEF Inv, HartPlaced, BootPc, IdlePc, UserPc, cpuVars
  <2>12. RunningKnown'
    BY <1>1, <1>2, <2>5, <2>7 DEF Inv, RunningKnown, TypeOK, cpuVars
  <2>13. StacksKnown'
    BY <1>1, <1>2, <2>6 DEF Inv, StacksKnown, cpuVars
  <2>14. SlicesLeft'
    <3>1. pc' = "running" => pc = "running" /\ busy
      BY <1>2 DEF Inv, HartPlaced, UserPc, IdlePc
    <3> QED
      BY <1>1, <1>2, <2>4, <2>7, <3>1 DEF Inv, SlicesLeft, TypeOK, cpuVars
  <2>15. BootKnown'
    BY <1>1, <1>2, <2>6 DEF Inv, BootKnown
  <2>16. ReadersKnown'
    <3>1. \A u : CtxOf(u)' = CtxOf(u)
      BY <1>1 DEF CtxOf, cpuVars
    <3>2. \A u \in Range(waitQueue') : saved[CtxOf(u)'] = "popChar"
      BY <2>2, <3>1 DEF Inv, ReadersKnown
    <3>3. \A u \in Executed : saved[CtxOf(thread[u].wait)'] = "running"
      BY <1>1, <3>1 DEF Inv, ReadersKnown
    <3> QED
      BY <1>1, <1>2, <2>6, <3>2, <3>3 DEF ReadersKnown
  <2>17. t \notin ReadyReaders /\ ReadyReaders' = ReadyReaders \union {t}
    <3>1. saved[thread[t].ctx] = "popChar"
      BY <2>2, <2>7 DEF Inv, ReadersKnown, CtxOf
    <3> QED
      BY <1>1, <2>3, <2>5, <2>6, <3>1, StackFacts DEF ReadyReaders
  <2> QED
    BY <1>4, <2>17, <2>8, <2>9, <2>10, <2>11, <2>12, <2>13, <2>14, <2>15, <2>16 DEF Inv, t
<1> QED
  BY <1>3, <1>4
------------------------------------------------------------------------------
\* A thread that is on the hart and has not exited.
LEMMA RunningFacts ==
  ASSUME Inv, pc \in UserPc
  PROVE  /\ busy /\ running \in Tid /\ running \in Held /\ running \notin boot.rubbish
         /\ idleCtx = IdleStack /\ saved[IdleStack] = "retrieve"
         /\ cur.kstack = thread[running].kstack /\ cur.wait = thread[running].wait
         /\ BootThreads \subseteq Threads
         /\ pc \in {"running", "popChar"} =>
              /\ running \in Threads /\ occupied[running] /\ status[running] = "Running"
              /\ current = running /\ slice[running] > 0
              /\ running \notin Range(queue) /\ running \notin Range(waitQueue)
              /\ \A u \in Executed : thread[u].wait # running
              /\ Held = Threads
         /\ pc = "exiting" => running \notin Threads /\ Held = Threads \union {running}
<1>1. busy /\ running \in Tid /\ idleCtx = IdleStack /\ saved[IdleStack] = "retrieve"
  BY DEF Inv, HartPlaced, TypeOK
<1>2. BootThreads \subseteq Threads
  BY DEF Inv, BootKnown, UserPc
<1>3. ASSUME pc \in {"running", "popChar"}
      PROVE  /\ running \in Threads /\ occupied[running] /\ status[running] = "Running"
             /\ current = running /\ slice[running] > 0
             /\ running \notin Range(queue) /\ running \notin Range(waitQueue)
             /\ \A u \in Executed : thread[u].wait # running
             /\ Held = Threads
  <2>1. /\ occupied[running] /\ status[running] = "Running" /\ current = running
        /\ running \notin boot.rubbish /\ slice[running] > 0
    BY <1>1, <1>3 DEF Inv, RunningKnown, SlicesLeft
  <2>2. running \in Threads /\ Held = Threads
    BY <1>1, <2>1 DEF Threads, Held
  <2>3. \A u \in Executed : thread[u].wait # running
    BY <2>1 DEF Inv, SleepersHaveOneWaker
  <2> QED
    BY <2>1, <2>2, <2>3, QueueFacts
<1>4. ASSUME pc = "exiting"
      PROVE  running \notin Threads /\ Held = Threads \union {running}
  BY <1>1, <1>4 DEF Inv, RunningKnown, Threads, Held
<1> QED
  BY <1>1, <1>2, <1>3, <1>4 DEF Inv, RunningKnown, Held

\* Leaving for the idle thread.
LEMMA SwitchFacts ==
  ASSUME Inv, pc \in UserPc, NEW mem \in [Stack -> ResumePc], NEW at \in ResumePc,
         SwitchToIdle(mem, at)
  PROVE  /\ saved' \in [Stack -> ResumePc] /\ saved'[running] = at
         /\ \A s \in Stack \ {running, IdleStack} : saved'[s] = mem[s]
         /\ cur' \in Thread /\ cur'.ctx = running
         /\ cur'.kstack = cur.kstack /\ cur'.wait = cur.wait
         /\ idleCtx' = Null /\ pc' = "retrieve"
<1>1. /\ running \in Stack /\ running # IdleStack /\ IdleStack \in Stack
      /\ idleCtx = IdleStack /\ saved[IdleStack] = "retrieve" /\ cur \in Thread
      /\ IdleStack # Null /\ IdleStack \notin Tid
  BY StackFacts, RunningFacts DEF Inv, TypeOK
<1>2. /\ saved' = [mem EXCEPT ![running] = at, ![IdleStack] = "none"]
      /\ cur' = [cur EXCEPT !.ctx = running] /\ idleCtx' = Null /\ pc' = Resume(idleCtx)
  BY DEF SwitchToIdle, TrapStack
<1>3. /\ saved' \in [Stack -> ResumePc] /\ saved'[running] = at
      /\ \A s \in Stack \ {running, IdleStack} : saved'[s] = mem[s]
  BY <1>1, <1>2 DEF ResumePc
<1>4. /\ cur' \in Thread /\ cur'.ctx = running
      /\ cur'.kstack = cur.kstack /\ cur'.wait = cur.wait
  BY <1>1, <1>2 DEF Thread, Ctx
<1>5. pc' = "retrieve"
  BY <1>1, <1>2 DEF Resume
<1> QED
  BY <1>2, <1>3, <1>4, <1>5

\* The contexts of the threads that are not on the hart stay where they are.
LEMMA OthersKept ==
  ASSUME Inv, pc \in UserPc, NEW mem \in [Stack -> ResumePc],
         \A s \in Stack \ {running, IdleStack} : saved'[s] = mem[s],
         \A s \in Stack \ {running} : (\E u \in Threads : s = thread[u].ctx) => mem[s] = saved[s]
  PROVE  \A u \in Threads \ {running} : saved'[thread[u].ctx] = saved[thread[u].ctx]
<1> SUFFICES ASSUME NEW u \in Threads \ {running}
             PROVE  saved'[thread[u].ctx] = saved[thread[u].ctx]
  OBVIOUS
<1>1. thread[u].ctx \in Stack /\ thread[u].ctx # IdleStack
  BY StackFacts
<1>2. thread[u].ctx # running
  BY StackFacts, RunningFacts
<1> QED
  BY <1>1, <1>2

\* A tick for the thread on the hart; it is switched out with its last one.
LEMMA TimerBusyInv ==
  ASSUME Inv, TimerBusy, UNCHANGED boot
  PROVE  Inv' /\ ReadyReaders' = ReadyReaders
<1> DEFINE r == running
<1>1. /\ pc = "running" /\ armed' = TRUE /\ Sched!Tick
      /\ IF Sched!Expired THEN SwitchToIdle(saved, "running")
                          ELSE pc' = pc /\ UNCHANGED <<saved, cur, idleCtx>>
      /\ UNCHANGED <<poolVars, busy, running, queue, current, stdinVars, heap>>
  <2>1. pc \in OpenPc /\ busy
    BY DEF TimerBusy
  <2>2. pc = "running"
    BY <2>1 DEF Inv, HartPlaced, OpenPc, BootPc, IdlePc
  <2> QED
    BY <2>2 DEF TimerBusy, SetTimerout, AfterInterrupt
<1>2. /\ pc \in UserPc /\ busy /\ r \in Tid /\ r \in Threads /\ occupied[r] /\ r \notin boot.rubbish
      /\ status[r] = "Running" /\ current = r /\ slice[r] > 0 /\ r \notin Range(queue)
      /\ r \notin Range(waitQueue) /\ Held = Threads
      /\ cur.kstack = thread[r].kstack /\ cur.wait = thread[r].wait
  BY <1>1, RunningFacts DEF UserPc
<1>3. /\ slice \in [Tid -> 0 .. MaxTime] /\ slice[r] \in 1 .. MaxTime
      /\ (slice[r] - 1) % TimeMod = slice[r] - 1
  <2>1. slice \in [Tid -> 0 .. MaxTime] /\ slice[r] \in 1 .. MaxTime
    BY <1>2, KernelAssumption DEF Inv, TypeOK
  <2>2. slice[r] - 1 \in 0 .. TimeMod - 1
    BY <2>1, KernelAssumption
  <2> QED
    BY <2>1, <2>2, KernelAssumption
<1>4. /\ slice' = [slice EXCEPT ![r] = slice[r] - 1]
      /\ Sched!Expired <=> slice[r] = 1
  <2>1. current # Sched!NoTid
    BY <1>2, KernelAssumption DEF Sched!NoTid, Tid
  <2>2. slice' = [slice EXCEPT ![current] = (slice[current] - 1) % TimeMod]
    BY <1>1, <2>1 DEF Sched!Tick
  <2>3. slice' = [slice EXCEPT ![r] = slice[r] - 1]
    BY <1>2, <1>3, <2>2
  <2> QED
    BY <1>2, <2>1, <2>3 DEF Sched!Expired
<1>5. /\ slice' \in [Tid -> 0 .. MaxTime] /\ slice'[r] = slice[r] - 1
      /\ \A u \in Tid \ {r} : slice'[u] = slice[u]
  BY <1>2, <1>3, <1>4, KernelAssumption
<1>6. \A u \in Range(queue) : slice'[u] > 0
  BY <1>2, <1>5, QueueFacts, StackFacts DEF Inv, SlicesLeft
<1>7. Threads' = Threads /\ BootThreads' = BootThreads /\ Held' = Held
  BY <1>1, <1>2 DEF Threads, BootThreads, Held, poolVars
<1>8. CASE slice[r] # 1
  <2>1. pc' = pc /\ UNCHANGED <<saved, cur, idleCtx>>
    BY <1>1, <1>4, <1>8
  <2>2. TypeOK'
    BY <1>1, <1>5, <2>1 DEF Inv, TypeOK, poolVars, stdinVars
  <2>3. HartPlaced'
    BY <1>1, <2>1 DEF Inv, HartPlaced
  <2>4. SlicesLeft'
    BY <1>1, <1>3, <1>5, <1>6, <1>8, <2>1 DEF SlicesLeft
  <2>5. BootKnown'
    BY <1>1, <1>7, <2>1 DEF Inv, BootKnown, poolVars
  <2> QED
    BY <1>1, <2>1, <2>2, <2>3, <2>4, <2>5, MoveInv DEF stdinVars
<1>9. CASE slice[r] = 1
  <2>1. saved \in [Stack -> ResumePc] /\ SwitchToIdle(saved, "running")
    BY <1>1, <1>4, <1>9 DEF Inv, TypeOK
  <2>2. /\ saved' \in [Stack -> ResumePc] /\ saved'[r] = "running"
        /\ \A s \in Stack \ {r, IdleStack} : saved'[s] = saved[s]
        /\ cur' \in Thread /\ cur'.ctx = r
        /\ cur'.kstack = cur.kstack /\ cur'.wait = cur.wait
        /\ idleCtx' = Null /\ pc' = "retrieve"
    BY <1>2, <2>1, SwitchFacts DEF ResumePc
  <2>3. \A u \in Threads \ {r} : saved'[thread[u].ctx] = saved[thread[u].ctx]
    BY <1>2, <2>1, <2>2, OthersKept
  <2>4. Executed' = Executed
    BY <1>1, <1>7, <2>2 DEF Executed
  <2>5. TypeOK'
    BY <1>1, <1>5, <2>2 DEF Inv, TypeOK, poolVars, stdinVars, Pc, ClosedPc
  <2>6. ReadyQueueExact'
    BY <1>1, <1>7 DEF Inv, ReadyQueueExact, poolVars
  <2>7. SleepersHaveOneWaker'
    BY <1>1, <1>7, <2>4 DEF Inv, SleepersHaveOneWaker, poolVars, stdinVars
  <2>8. HartPlaced'
    BY <1>1, <1>2, <2>2 DEF HartPlaced, BootPc, IdlePc, UserPc
  <2>9. RunningKnown'
    BY <1>1, <1>2, <2>2 DEF Inv, RunningKnown, poolVars
  <2>10. StacksKnown'
    BY <1>1, <1>2, <1>7, <2>2, <2>3 DEF Inv, StacksKnown, poolVars
  <2>11. SlicesLeft'
    BY <1>1, <1>6, <2>2 DEF SlicesLeft
  <2>12. BootKnown'
    BY <1>1, <1>7, <2>2 DEF Inv, BootKnown, poolVars
  <2>13. ReadersKnown'
    <3>1. \A u \in Threads \ {r} : saved'[CtxOf(u)'] = saved[CtxOf(u)]
      BY <1>1, <2>3 DEF CtxOf, poolVars
    <3>2. \A u \in Range(waitQueue) : saved'[CtxOf(u)'] = "popChar"
      BY <1>2, <3>1, QueueFacts DEF Inv, ReadersKnown
    <3>3. ASSUME NEW u \in Executed
          PROVE  saved'[CtxOf(thread[u].wait)'] = "running"
      <4> DEFINE h == thread[u].wait
      <4>1. h \in Threads \ {r} /\ saved[CtxOf(h)] = "running"
        BY <1>1, RunningFacts DEF Inv, ReadersKnown, SleepersHaveOneWaker, UserPc
      <4>2. h' = h
        BY <1>1 DEF poolVars
      <4> QED
        BY <3>1, <4>1, <4>2
    <3> QED
      BY <1>1, <2>2, <2>4, <3>2, <3>3 DEF ReadersKnown, poolVars, stdinVars
  <2>14. ReadyReaders' = ReadyReaders
    BY <1>1, <1>2, <1>7, <2>3 DEF ReadyReaders, poolVars
  <2> QED
    BY <2>14, <2>5, <2>6, <2>7, <2>8, <2>9, <2>10, <2>11, <2>12, <2>13 DEF Inv
<1> QED
  BY <1>8, <1>9

\* A reader that finds no character goes to sleep in the wait queue.
LEMMA WaitConditionInv ==
  ASSUME Inv, WaitCondition, UNCHANGED boot
  PROVE  Inv' /\ ReadyReaders' = ReadyReaders
<1> DEFINE r == running
<1>1. /\ pc = "popChar" /\ busy
      /\ waitQueue' = Append(waitQueue, r)
      /\ status' = [status EXCEPT ![r] = "Sleeping"]
      /\ saved \in [Stack -> ResumePc] /\ SwitchToIdle(saved, "popChar")
      /\ UNCHANGED <<occupied, thread, prog, busy, running, schedulerVars, buffered, heap, armed>>
  BY RunningFacts DEF WaitCondition, Slept, YieldCPU, UserPc, Inv, TypeOK
<1>2. /\ pc \in UserPc /\ r \in Tid /\ r \in Threads /\ occupied[r] /\ r \notin boot.rubbish
      /\ status[r] = "Running" /\ current = r /\ r \notin Range(queue)
      /\ r \notin Range(waitQueue) /\ Held = Threads
      /\ cur.kstack = thread[r].kstack /\ cur.wait = thread[r].wait
      /\ BootThreads \subseteq Threads
      /\ \A u \in Executed : thread[u].wait # r
  BY <1>1, RunningFacts DEF UserPc
<1>3. /\ saved' \in [Stack -> ResumePc] /\ saved'[r] = "popChar"
      /\ \A s \in Stack \ {r, IdleStack} : saved'[s] = saved[s]
      /\ cur' \in Thread /\ cur'.ctx = r
      /\ cur'.kstack = cur.kstack /\ cur'.wait = cur.wait
      /\ idleCtx' = Null /\ pc' = "retrieve"
  BY <1>1, <1>2, SwitchFacts DEF ResumePc
<1>4. \A u \in Threads \ {r} : saved'[thread[u].ctx] = saved[thread[u].ctx]
  BY <1>1, <1>2, <1>3, OthersKept
<1>5. /\ Threads' = Threads /\ BootThreads' = BootThreads /\ Held' = Held
      /\ Executed' = Executed
  BY <1>1, <1>2, <1>3 DEF Threads, BootThreads, Held, Executed
<1>6. /\ waitQueue' \in Seq(Tid) /\ NoRepeats(waitQueue')
      /\ Range(waitQueue') = Range(waitQueue) \union {r}
  BY <1>1, <1>2, AppendFacts DEF Inv, TypeOK, SleepersHaveOneWaker
<1>7. /\ status' \in [Tid -> {"Ready", "Running", "Sleeping"}] /\ status'[r] = "Sleeping"
      /\ \A u \in Tid \ {r} : status'[u] = status[u]
  BY <1>1, <1>2 DEF Inv, TypeOK
<1>8. TypeOK'
  BY <1>1, <1>3, <1>6, <1>7 DEF Inv, TypeOK, schedulerVars, Pc, ClosedPc
<1>9. ReadyQueueExact'
  <2>1. \A u \in Tid : u \in Range(queue) <=> u \in Threads /\ status'[u] = "Ready"
    BY <1>2, <1>7 DEF Inv, ReadyQueueExact
  <2>2. \A u \in Threads : status'[u] = "Running" => busy /\ running = u
    BY <1>7, StackFacts DEF Inv, ReadyQueueExact
  <2> QED
    BY <1>1, <1>5, <2>1, <2>2 DEF Inv, ReadyQueueExact, schedulerVars
<1>10. SleepersHaveOneWaker'
  <2>1. \A u \in Range(waitQueue') : u \in Threads /\ status'[u] = "Sleeping"
    BY <1>2, <1>6, <1>7, QueueFacts, StackFacts
  <2>2. \A u \in Executed : /\ thread[u].wait \in Threads
                            /\ status'[thread[u].wait] = "Sleeping"
                            /\ thread[u].wait \notin Range(waitQueue')
    BY <1>2, <1>6, <1>7, StackFacts DEF Inv, SleepersHaveOneWaker
  <2>3. \A u \in Threads : status'[u] = "Sleeping" =>
          u \in Range(waitQueue') \/ \E v \in Executed : thread[v].wait = u
    BY <1>6, <1>7, StackFacts DEF Inv, SleepersHaveOneWaker
  <2> QED
    BY <1>1, <1>5, <1>6, <2>1, <2>2, <2>3 DEF Inv, SleepersHaveOneWaker
<1>11. HartPlaced'
  BY <1>1, <1>3 DEF HartPlaced, BootPc, IdlePc, UserPc
<1>12. RunningKnown'
  BY <1>1, <1>2, <1>3, <1>7 DEF Inv, RunningKnown, schedulerVars
<1>13. StacksKnown'
  BY <1>1, <1>2, <1>3, <1>4, <1>5 DEF Inv, StacksKnown
<1>14. SlicesLeft'
  BY <1>1, <1>3 DEF Inv, SlicesLeft, schedulerVars
<1>15. BootKnown'
  BY <1>1, <1>2, <1>3, <1>5 DEF Inv, BootKnown
<1>16. ReadersKnown'
  <2>1. \A u \in Threads \ {r} : saved'[CtxOf(u)'] = saved[CtxOf(u)]
    BY <1>1, <1>4 DEF CtxOf
  <2>2. \A u \in Threads : u = r => saved'[CtxOf(u)'] = "popChar"
    BY <1>1, <1>3 DEF CtxOf
  <2>3. \A u \in Range(waitQueue) : u \in Threads \ {r} /\ saved[CtxOf(u)] = "popChar"
    BY <1>2, QueueFacts DEF Inv, ReadersKnown
  <2>4. \A u \in Range(waitQueue') : saved'[CtxOf(u)'] = "popChar"
    BY <1>2, <1>6, <2>1, <2>2, <2>3
  <2>5. ASSUME NEW u \in Executed
        PROVE  saved'[CtxOf(thread[u].wait)'] = "running"
    <3> DEFINE h == thread[u].wait
    <3>1. h \in Threads \ {r} /\ saved[CtxOf(h)] = "running"
      BY <1>2 DEF Inv, ReadersKnown, SleepersHaveOneWaker
    <3>2. h' = h
      BY <1>1
    <3> QED
      BY <2>1, <3>1, <3>2
  <2>6. status'[running'] = "Sleeping"
    BY <1>1, <1>7
  <2> QED
    BY <1>5, <2>4, <2>5, <2>6 DEF ReadersKnown
<1>17. ReadyReaders' = ReadyReaders
  BY <1>1, <1>2, <1>4, <1>5, <1>7, StackFacts DEF ReadyReaders
<1> QED
  BY <1>17, <1>8, <1>9, <1>10, <1>11, <1>12, <1>13, <1>14, <1>15, <1>16 DEF Inv

\* A program ends: its slot is free, but the thread is still on its stack.
LEMMA ExitFromPoolInv ==
  ASSUME Inv, ExitFromPool, UNCHANGED boot
  PROVE  Inv' /\ ReadyReaders' = ReadyReaders
<1> DEFINE r == running
<1>1. /\ pc = "running" /\ pc' = "exiting" /\ prog[r] = "hello"
      /\ occupied' = [occupied EXCEPT ![r] = FALSE]
      /\ current' = IF current = r THEN Sched!NoTid ELSE current
      /\ UNCHANGED <<status, thread, prog, cpuVars, queue, slice, stdinVars, heap, saved, armed>>
  BY DEF ExitFromPool, Sched!Exit
<1>2. /\ busy /\ r \in Tid /\ r \in Threads /\ occupied[r] /\ r \notin boot.rubbish
      /\ status[r] = "Running" /\ r \notin Range(queue) /\ r \notin Range(waitQueue)
      /\ Held = Threads /\ BootThreads \subseteq Threads
      /\ idleCtx = IdleStack /\ saved[IdleStack] = "retrieve"
      /\ \A u \in Executed : thread[u].wait # r
  BY <1>1, RunningFacts DEF UserPc
<1>3. r \notin BootThreads
  BY <1>1, <1>2 DEF Inv, BootKnown
<1>4. occupied' \in [Tid -> BOOLEAN] /\ ~occupied'[r] /\ \A u \in Tid \ {r} : occupied'[u] = occupied[u]
  BY <1>1, <1>2 DEF Inv, TypeOK
<1>5. /\ Threads' = Threads \ {r} /\ BootThreads' = BootThreads /\ Held' = Held
      /\ Executed' = Executed
  <2>1. Threads' = Threads \ {r} /\ BootThreads' = BootThreads
    BY <1>2, <1>4 DEF Threads, BootThreads
  <2>2. Held' = Held
    BY <1>1, <1>2, <2>1 DEF Held, cpuVars
  <2>3. Executed' = Executed
    BY <1>1, <1>2, <2>1 DEF Executed, cpuVars
  <2> QED
    BY <2>1, <2>2, <2>3
<1>6. TypeOK'
  BY <1>1, <1>4 DEF Inv, TypeOK, cpuVars, stdinVars, Pc, ClosedPc, Sched!NoTid, NoTid
<1>7. ReadyQueueExact'
  BY <1>1, <1>2, <1>5 DEF Inv, ReadyQueueExact, cpuVars
<1>8. SleepersHaveOneWaker'
  BY <1>1, <1>2, <1>5 DEF Inv, SleepersHaveOneWaker, stdinVars
<1>9. HartPlaced'
  BY <1>1, <1>2 DEF HartPlaced, BootPc, IdlePc, UserPc, cpuVars
<1>10. RunningKnown'
  BY <1>1, <1>2, <1>4 DEF Inv, RunningKnown, cpuVars
<1>11. StacksKnown'
  BY <1>1, <1>5 DEF Inv, StacksKnown, cpuVars
<1>12. SlicesLeft'
  BY <1>1 DEF Inv, SlicesLeft
<1>13. BootKnown'
  BY <1>1, <1>2, <1>3, <1>5 DEF Inv, BootKnown
<1>14. ReadersKnown'
  <2>1. \A u : CtxOf(u)' = CtxOf(u)
    BY <1>1 DEF CtxOf, cpuVars
  <2>2. \A u \in Range(waitQueue) : saved[CtxOf(u)'] = "popChar"
    BY <2>1 DEF Inv, ReadersKnown
  <2>3. \A u \in Executed : saved[CtxOf(thread[u].wait)'] = "running"
    BY <1>1, <2>1 DEF Inv, ReadersKnown
  <2> QED
    BY <1>1, <1>5, <2>2, <2>3 DEF ReadersKnown, stdinVars
<1>15. ReadyReaders' = ReadyReaders
  BY <1>1, <1>2, <1>5 DEF ReadyReaders
<1> QED
  BY <1>15, <1>6, <1>7, <1>8, <1>9, <1>10, <1>11, <1>12, <1>13, <1>14 DEF Inv

\* The host of the program is woken, and the stack left for good.
LEMMA ExitFromCPUInv ==
  ASSUME Inv, ExitFromCPU, UNCHANGED boot
  PROVE  Inv' /\ ReadyReaders' = ReadyReaders
<1> DEFINE r == running
           h == cur.wait
<1>1. /\ pc = "exiting"
      /\ IF h # -1 THEN WakeupCPU(h) ELSE UNCHANGED <<status, queue, slice>>
      /\ saved \in [Stack -> ResumePc] /\ SwitchToIdle(saved, "none")
      /\ UNCHANGED <<occupied, thread, prog, busy, running, current, stdinVars, heap, armed>>
  BY DEF ExitFromCPU, Inv, TypeOK
<1>2. /\ pc \in UserPc /\ busy /\ r \in Tid /\ r \notin Threads /\ r \notin boot.rubbish
      /\ ~occupied[r] /\ Held = Threads \union {r} /\ h = thread[r].wait
      /\ cur.kstack = thread[r].kstack /\ BootThreads \subseteq Threads
  BY <1>1, RunningFacts DEF UserPc, Inv, RunningKnown
<1>3. /\ r \in Executed /\ Executed \ {r} = Threads \ BootThreads
      /\ h \in Threads /\ status[h] = "Sleeping" /\ h \notin Range(waitQueue)
      /\ \A u \in Executed \ {r} : thread[u].wait # h
  <2>1. r \in Executed /\ Executed \ {r} = Threads \ BootThreads
    BY <1>1, <1>2 DEF Executed
  <2> QED
    BY <1>2, <2>1 DEF Inv, SleepersHaveOneWaker
<1>4. h \in Tid /\ h # r /\ h # -1 /\ h \notin Range(queue)
  BY <1>2, <1>3, QueueFacts, StackFacts, KernelAssumption DEF Tid
<1>5. status' = [status EXCEPT ![h] = "Ready"] /\ Sched!Push(h)
  BY <1>1, <1>4 DEF WakeupCPU
<1> HIDE DEF h
<1>6. /\ queue' \in Seq(Tid) /\ slice' \in [Tid -> 0 .. MaxTime]
      /\ Range(queue') = Range(queue) \union {h} /\ NoRepeats(queue')
      /\ \A u \in Range(queue') : slice'[u] > 0
  BY <1>4, <1>5, PushFacts
<1>7. /\ status' \in [Tid -> {"Ready", "Running", "Sleeping"}] /\ status'[h] = "Ready"
      /\ \A u \in Tid \ {h} : status'[u] = status[u]
  BY <1>4, <1>5 DEF Inv, TypeOK
<1>8. /\ saved' \in [Stack -> ResumePc] /\ saved'[r] = "none"
      /\ \A s \in Stack \ {r, IdleStack} : saved'[s] = saved[s]
      /\ cur' \in Thread /\ cur'.ctx = r
      /\ cur'.kstack = cur.kstack /\ cur'.wait = cur.wait
      /\ idleCtx' = Null /\ pc' = "retrieve"
  BY <1>1, <1>2, SwitchFacts DEF ResumePc
<1>9. \A u \in Threads : saved'[thread[u].ctx] = saved[thread[u].ctx]
  BY <1>1, <1>2, <1>8, OthersKept
<1>10. /\ Threads' = Threads /\ BootThreads' = BootThreads /\ Held' = Held
       /\ Executed' = Executed \ {r}
  BY <1>1, <1>2, <1>3, <1>8 DEF Threads, BootThreads, Held, Executed
<1>11. TypeOK'
  BY <1>1, <1>6, <1>7, <1>8 DEF Inv, TypeOK, stdinVars, Pc, ClosedPc
<1>12. ReadyQueueExact'
  <2>1. \A u \in Tid : u \in Range(queue') <=> u \in Threads /\ status'[u] = "Ready"
    BY <1>3, <1>6, <1>7 DEF Inv, ReadyQueueExact
  <2>2. \A u \in Threads : status'[u] = "Running" => busy /\ running = u
    BY <1>7, StackFacts DEF Inv, ReadyQueueExact
  <2> QED
    BY <1>1, <1>6, <1>10, <2>1, <2>2 DEF ReadyQueueExact
<1>13. SleepersHaveOneWaker'
  <2>1. \A u \in Range(waitQueue) : u \in Threads /\ status'[u] = "Sleeping"
    BY <1>3, <1>7, QueueFacts, StackFacts
  <2>2. \A u \in Executed \ {r} : /\ thread[u].wait \in Threads
                                  /\ status'[thread[u].wait] = "Sleeping"
                                  /\ thread[u].wait \notin Range(waitQueue)
    BY <1>3, <1>7, StackFacts DEF Inv, SleepersHaveOneWaker
  <2>3. \A u \in Threads : status'[u] = "Sleeping" =>
          u \in Range(waitQueue) \/ \E v \in Executed \ {r} : thread[v].wait = u
    BY <1>2, <1>7, StackFacts DEF Inv, SleepersHaveOneWaker
  <2> QED
    BY <1>1, <1>10, <2>1, <2>2, <2>3 DEF Inv, SleepersHaveOneWaker, stdinVars
<1>14. HartPlaced'
  BY <1>1, <1>2, <1>8 DEF HartPlaced, BootPc, IdlePc, UserPc
<1>15. RunningKnown'
  BY <1>1, <1>2, <1>8 DEF Inv, RunningKnown, h
<1>16. StacksKnown'
  BY <1>1, <1>2, <1>8, <1>9, <1>10 DEF Inv, StacksKnown
<1>17. SlicesLeft'
  BY <1>6, <1>8 DEF SlicesLeft
<1>18. BootKnown'
  BY <1>1, <1>2, <1>8, <1>10 DEF Inv, BootKnown
<1>19. ReadersKnown'
  <2>1. \A u \in Threads : saved'[CtxOf(u)'] = saved[CtxOf(u)]
    BY <1>1, <1>2, <1>9 DEF CtxOf
  <2>2. \A u \in Range(waitQueue) : saved'[CtxOf(u)'] = "popChar"
    BY <2>1, QueueFacts DEF Inv, ReadersKnown
  <2>3. ASSUME NEW u \in Executed
        PROVE  saved'[CtxOf(thread[u].wait)'] = "running"
    <3> DEFINE g == thread[u].wait
    <3>1. g \in Threads /\ saved[CtxOf(g)] = "running"
      BY DEF Inv, ReadersKnown, SleepersHaveOneWaker
    <3>2. g' = g
      BY <1>1
    <3> QED
      BY <2>1, <3>1, <3>2
  <2> QED
    BY <1>1, <1>2, <1>8, <1>10, <2>2, <2>3 DEF ReadersKnown, stdinVars
<1>20. ReadyReaders' = ReadyReaders
  <2>1. saved[thread[h].ctx] = "running"
    BY <1>2, <1>3 DEF Inv, ReadersKnown, CtxOf
  <2> QED
    BY <1>1, <1>3, <1>7, <1>9, <1>10, <2>1, StackFacts DEF ReadyReaders
<1> QED
  BY <1>20, <1>11, <1>12, <1>13, <1>14, <1>15, <1>16, <1>17, <1>18, <1>19 DEF Inv

\* A shell starts a program and sleeps until it exits.
LEMMA SysExecInv ==
  ASSUME Inv, NEW p \in Prog, NEW k \in KStack, SysExec(p, k), UNCHANGED boot
  PROVE  Inv' /\ ReadyReaders' = ReadyReaders
<1> DEFINE r == running
           t == AllocTid
           mem == [saved EXCEPT ![k] = "running", ![t] = "none"]
<1>1. /\ pc = "running" /\ busy /\ Room /\ k \in KStack \ heap /\ AddToPool(p, k, r)
      /\ status' = [[status EXCEPT ![r] = "Sleeping"] EXCEPT ![t] = "Ready"]
      /\ SwitchToIdle(mem, "running")
      /\ UNCHANGED <<busy, running, current, stdinVars, armed>>
  BY RunningFacts DEF SysExec, Slept, YieldCPU, Fresh, UserPc
<1>2. /\ pc \in UserPc /\ r \in Tid /\ r \in Threads /\ occupied[r] /\ r \notin boot.rubbish
      /\ status[r] = "Running" /\ current = r /\ r \notin Range(queue)
      /\ r \notin Range(waitQueue) /\ Held = Threads
      /\ cur.kstack = thread[r].kstack /\ cur.wait = thread[r].wait
      /\ BootThreads \subseteq Threads
      /\ \A u \in Executed : thread[u].wait # r
  BY <1>1, RunningFacts DEF UserPc
<1>3. /\ t \in Tid /\ t \notin Threads /\ t # r /\ t \notin boot.rubbish
      /\ Threads' = Threads \union {t} /\ t \notin Range(queue)
      /\ \A u \in Tid \ {t} : /\ occupied'[u] = occupied[u]
                              /\ thread'[u] = thread[u] /\ prog'[u] = prog[u]
      /\ thread'[t] = [ctx |-> k, kstack |-> k, wait |-> r] /\ prog'[t] = p
      /\ occupied'[t]
      /\ occupied' \in [Tid -> BOOLEAN] /\ thread' \in [Tid -> Thread]
      /\ prog' \in [Tid -> Prog]
      /\ heap' = heap \union {k}
      /\ Sched!Push(t)
  BY <1>1, <1>2, AddFacts
<1>4. /\ queue' \in Seq(Tid) /\ slice' \in [Tid -> 0 .. MaxTime]
      /\ Range(queue') = Range(queue) \union {t} /\ NoRepeats(queue')
      /\ \A u \in Range(queue') : slice'[u] > 0
  BY <1>3, PushFacts
<1> HIDE DEF t
<1>5. /\ k \in Stack /\ t \in Stack /\ k # t /\ k # r /\ k # IdleStack /\ t # IdleStack
      /\ saved \in [Stack -> ResumePc]
      /\ status \in [Tid -> {"Ready", "Running", "Sleeping"}]
  BY <1>1, <1>2, <1>3, StackFacts DEF Inv, TypeOK
<1>6. /\ mem \in [Stack -> ResumePc] /\ mem[k] = "running"
      /\ \A s \in Stack \ {k, t} : mem[s] = saved[s]
  BY <1>5 DEF ResumePc
<1> HIDE DEF mem
<1>7. /\ saved' \in [Stack -> ResumePc] /\ saved'[r] = "running"
      /\ \A s \in Stack \ {r, IdleStack} : saved'[s] = mem[s]
      /\ cur' \in Thread /\ cur'.ctx = r
      /\ cur'.kstack = cur.kstack /\ cur'.wait = cur.wait
      /\ idleCtx' = Null /\ pc' = "retrieve"
  BY <1>1, <1>2, <1>6, SwitchFacts DEF ResumePc
<1>8. \A u \in Threads : /\ thread'[u] = thread[u] /\ prog'[u] = prog[u]
                         /\ thread[u].kstack \in KStack /\ thread[u].kstack # k
                         /\ thread[u].ctx # k /\ thread[u].ctx # t
                         /\ thread[u].ctx \in Stack /\ u # t /\ u \in Tid
  <2>1. \A u \in Threads : thread[u].kstack \in heap /\ u # t /\ u \in Tid
    BY <1>2, <1>3, StackFacts DEF Inv, StacksKnown
  <2> QED
    BY <1>1, <1>3, <2>1, StackFacts
<1>9. \A u \in Threads \ {r} : saved'[thread[u].ctx] = saved[thread[u].ctx]
  <2>1. \A s \in Stack \ {r} : (\E u \in Threads : s = thread[u].ctx) => mem[s] = saved[s]
    BY <1>6, <1>8
  <2> QED
    BY <1>2, <1>6, <1>7, <2>1, OthersKept
<1>10. saved'[k] = "running"
  BY <1>5, <1>6, <1>7
<1>11. /\ BootThreads' = BootThreads /\ t \notin BootThreads
       /\ Held' = Threads' /\ Executed' = Executed \union {t}
  <2>1. BootThreads' = BootThreads /\ t \notin BootThreads
    BY <1>2, <1>3 DEF BootThreads
  <2> QED
    BY <1>1, <1>2, <1>3, <1>7, <2>1 DEF Held, Executed
<1>12. /\ status' \in [Tid -> {"Ready", "Running", "Sleeping"}]
       /\ status'[r] = "Sleeping" /\ status'[t] = "Ready"
       /\ \A u \in Tid \ {r, t} : status'[u] = status[u]
  BY <1>1, <1>2, <1>3, <1>5
<1>13. \A u \in Executed : u \in Threads /\ u # t /\ u \in Tid
  BY <1>1, <1>8 DEF Executed
<1>14. TypeOK'
  BY <1>1, <1>3, <1>4, <1>7, <1>12 DEF Inv, TypeOK, stdinVars, Pc, ClosedPc
<1>15. ReadyQueueExact'
  <2>1. \A u \in Tid : u \in Range(queue') <=> u \in Threads' /\ status'[u] = "Ready"
    BY <1>2, <1>3, <1>4, <1>12 DEF Inv, ReadyQueueExact
  <2>2. \A u \in Threads' : status'[u] # "Running"
    BY <1>2, <1>3, <1>12, StackFacts DEF Inv, ReadyQueueExact
  <2> QED
    BY <1>4, <2>1, <2>2 DEF ReadyQueueExact
<1>16. SleepersHaveOneWaker'
  <2>1. waitQueue' = waitQueue
    BY <1>1 DEF stdinVars
  <2>2. \A u \in Range(waitQueue) : u \in Threads /\ status'[u] = "Sleeping"
    BY <1>2, <1>8, <1>12, QueueFacts
  <2>3. \A u \in Executed : /\ thread'[u].wait = thread[u].wait
                            /\ thread[u].wait \in Threads /\ thread[u].wait # r
                            /\ status'[thread[u].wait] = "Sleeping"
                            /\ thread[u].wait \notin Range(waitQueue)
    BY <1>2, <1>3, <1>8, <1>12, <1>13 DEF Inv, SleepersHaveOneWaker
  <2>4. thread'[t].wait = r
    BY <1>3
  <2>5. \A u \in Executed' : LET h == thread'[u].wait
                             IN h \in Threads' /\ status'[h] = "Sleeping"
                                  /\ h \notin Range(waitQueue)
    BY <1>2, <1>3, <1>11, <1>12, <2>3, <2>4
  <2>6. \A u, v \in Executed' : thread'[u].wait = thread'[v].wait => u = v
    BY <1>11, <2>3, <2>4 DEF Inv, SleepersHaveOneWaker
  <2>7. ASSUME NEW u \in Threads', status'[u] = "Sleeping"
        PROVE  u \in Range(waitQueue) \/ \E v \in Executed' : thread'[v].wait = u
    <3>1. CASE u = r
      BY <1>11, <2>4, <3>1
    <3>2. CASE u # r
      <4>1. u \in Threads /\ status[u] = "Sleeping"
        BY <1>3, <1>8, <1>12, <2>7, <3>2
      <4>2. u \in Range(waitQueue) \/ \E v \in Executed : thread[v].wait = u
        BY <4>1 DEF Inv, SleepersHaveOneWaker
      <4> QED
        BY <1>11, <2>3, <4>2
    <3> QED
      BY <3>1, <3>2
  <2> QED
    BY <1>3, <2>1, <2>2, <2>5, <2>6, <2>7 DEF Inv, SleepersHaveOneWaker
<1>17. HartPlaced'
  BY <1>1, <1>7 DEF HartPlaced, BootPc, IdlePc, UserPc
<1>18. RunningKnown'
  <2>1. boot.rubbish \subseteq {u \in Tid : occupied'[u]}
    BY <1>3 DEF Inv, RunningKnown
  <2> QED
    BY <1>1, <1>2, <1>3, <1>7, <1>12, <2>1 DEF RunningKnown
<1>19. StacksKnown'
  <2>1. \A u \in Threads' : thread'[u].kstack \in KStack
    BY <1>3, <1>8
  <2>2. \A u, v \in Threads' : u # v => thread'[u].kstack # thread'[v].kstack
    BY <1>2, <1>3, <1>8 DEF Inv, StacksKnown
  <2>3. heap' = {thread'[u].kstack : u \in Threads'}
    BY <1>2, <1>3, <1>8 DEF Inv, StacksKnown
  <2>4. \A u \in Threads' : thread'[u].ctx \in {u, thread'[u].kstack}
    BY <1>3, <1>8, StackFacts
  <2>5. \A u \in Threads' \ {r} : saved'[thread'[u].ctx] \in {"running", "popChar"}
    BY <1>3, <1>8, <1>9, <1>10 DEF Inv, StacksKnown
  <2> QED
    BY <1>1, <1>7, <1>11, <2>1, <2>2, <2>3, <2>4, <2>5 DEF StacksKnown
<1>20. SlicesLeft'
  BY <1>4, <1>7 DEF SlicesLeft
<1>21. BootKnown'
  <2>1. \A u \in Threads' \intersect BootThreads : prog'[u] # "hello"
    BY <1>3, <1>8, <1>11 DEF Inv, BootKnown
  <2> QED
    BY <1>2, <1>3, <1>7, <1>11, <2>1 DEF BootKnown
<1>22. ReadersKnown'
  <2>1. \A u \in Threads \ {r} : saved'[CtxOf(u)'] = saved[CtxOf(u)]
    BY <1>1, <1>8, <1>9 DEF CtxOf
  <2>2. \A u \in Threads : u = r => saved'[CtxOf(u)'] = "running"
    BY <1>1, <1>7 DEF CtxOf
  <2>3. \A u \in Range(waitQueue) : saved'[CtxOf(u)'] = "popChar"
    BY <1>2, <2>1, QueueFacts DEF Inv, ReadersKnown
  <2>4. ASSUME NEW u \in Executed
        PROVE  saved'[CtxOf(thread[u].wait)'] = "running"
    <3> DEFINE h == thread[u].wait
    <3>1. h \in Threads \ {r} /\ saved[CtxOf(h)] = "running" /\ u \in Threads
      BY <1>2, <1>13 DEF Inv, ReadersKnown, SleepersHaveOneWaker
    <3>2. h' = h
      BY <1>8, <3>1
    <3> QED
      BY <2>1, <3>1, <3>2
  <2>5. ASSUME NEW u, u = t
        PROVE  saved'[CtxOf(thread[u].wait)'] = "running"
    <3> DEFINE h == thread[u].wait
    <3>1. h' = r
      BY <1>3, <2>5
    <3> QED
      BY <1>2, <2>2, <3>1
  <2> QED
    BY <1>1, <1>7, <1>11, <1>12, <2>3, <2>4, <2>5 DEF ReadersKnown, stdinVars
<1>23. ReadyReaders' = ReadyReaders
  <2>1. \A u \in Threads \ {r} : u \in ReadyReaders' <=> u \in ReadyReaders
    BY <1>3, <1>8, <1>9, <1>12 DEF ReadyReaders
  <2>2. r \notin ReadyReaders /\ r \notin ReadyReaders' /\ t \notin ReadyReaders'
    BY <1>2, <1>3, <1>10, <1>12 DEF ReadyReaders
  <2> QED
    BY <1>3, <2>1, <2>2 DEF ReadyReaders
<1> QED
  BY <1>23, <1>14, <1>15, <1>16, <1>17, <1>18, <1>19, <1>20, <1>21, <1>22 DEF Inv
------------------------------------------------------------------------------
\* Every step of the kernel keeps the inductive invariant.
THEOREM StepInv == Inv /\ [Next]_vars => Inv'
<1> SUFFICES ASSUME Inv, [Next]_vars PROVE Inv'
  OBVIOUS
<1>1. CASE BootStep
  BY <1>1, InitThreadInv, MovesInv DEF BootStep
<1>2. CASE Idle
  BY <1>2, RunCPUInv, MovesInv, DispatchInv, RetrieveExitedInv, RetrieveInv DEF Idle
<1>3. CASE IdleTick
  BY <1>3, MovesInv DEF IdleTick
<1>4. CASE BusyTick
  BY <1>4, TimerBusyInv DEF BusyTick
<1>5. CASE External
  BY <1>5, ExternalCharInv, MovesInv DEF External
<1>6. CASE Program
  BY <1>6, SysExecInv, MovesInv, ExitFromPoolInv DEF Program
<1>7. CASE InCall
  BY <1>7, MovesInv, WaitConditionInv, ExitFromCPUInv DEF InCall
<1>8. CASE UNCHANGED vars
  <2>1. /\ Threads' = Threads /\ BootThreads' = BootThreads /\ Executed' = Executed
        /\ Held' = Held /\ Booted' = Booted /\ \A u : CtxOf(u)' = CtxOf(u)
    BY <1>8 DEF vars, poolVars, cpuVars, Threads, BootThreads, Executed, Held, Booted, CtxOf
  <2>2. TypeOK'
    BY <1>8 DEF Inv, TypeOK, vars, poolVars, cpuVars, schedulerVars, stdinVars
  <2>3. ReadyQueueExact' /\ SleepersHaveOneWaker'
    BY <1>8, <2>1 DEF Inv, ReadyQueueExact, SleepersHaveOneWaker, vars, poolVars, cpuVars,
                      schedulerVars, stdinVars
  <2>4. HartPlaced' /\ RunningKnown' /\ StacksKnown' /\ SlicesLeft'
    BY <1>8, <2>1 DEF Inv, HartPlaced, RunningKnown, StacksKnown, SlicesLeft, vars, poolVars,
                      cpuVars, schedulerVars
  <2>5. BootKnown'
    BY <1>8, <2>1 DEF Inv, BootKnown, vars, poolVars, stdinVars
  <2>6. ReadersKnown'
    <3>1. \A u \in Executed : saved[CtxOf(thread[u].wait)'] = "running"
      BY <1>8, <2>1 DEF Inv, ReadersKnown, vars, poolVars
    <3> QED
      BY <1>8, <2>1, <3>1 DEF Inv, ReadersKnown, vars, poolVars, cpuVars, stdinVars
  <2> QED
    BY <2>2, <2>3, <2>4, <2>5, <2>6 DEF Inv
<1> QED
  BY <1>1, <1>2, <1>3, <1>4, <1>5, <1>6, <1>7, <1>8 DEF Next, Stuck

\* The inductive invariant holds in every execution.
THEOREM SpecInv == Spec => []Inv
<1>1. Init => Inv
  BY InitInv
<1> QED
  BY <1>1, StepInv, PTL DEF Spec

\* Tables hold what their C types and ranges allow; a slice never wraps.
THEOREM TypeCorrect == Spec => []TypeOK
<1>1. Inv => TypeOK
  BY DEF Inv
<1> QED
  BY <1>1, SpecInv, PTL

\* The threads in the ready queue are exactly the ready ones, once each.
THEOREM QueueMatchesPool == Spec => []ReadyQueueExact
<1>1. Inv => ReadyQueueExact
  BY DEF Inv
<1> QED
  BY <1>1, SpecInv, PTL

\* Every sleeper waits for one event, and whoever is to be woken sleeps.
THEOREM OneWakerEach == Spec => []SleepersHaveOneWaker
<1>1. Inv => SleepersHaveOneWaker
  BY DEF Inv
<1> QED
  BY <1>1, SpecInv, PTL

\* No context is resumed twice or from a freed stack, and a kernel stack is
\* allocated exactly as long as its thread needs it.
THEOREM NoStaleContext == Spec => []ContextsLive
<1>1. ASSUME Inv
      PROVE  ContextsLive
  <2>1. pc # "wild"
    BY <1>1 DEF Inv, HartPlaced
  <2>2. ASSUME NEW t \in Threads, ~(busy /\ running = t)
        PROVE  Live(thread[t].ctx)
    <3>1. thread[t].ctx \in {t, thread[t].kstack} /\ t \in Tid /\ t \in Held
      BY <1>1, StackFacts
    <3>2. thread[t].kstack \in heap /\ saved[thread[t].ctx] \in {"running", "popChar"}
      BY <1>1, <2>2, <3>1 DEF Inv, StacksKnown
    <3> QED
      BY <3>1, <3>2 DEF Live
  <2>3. ASSUME pc = "retrieve", occupied[running]
        PROVE  Live(cur.ctx)
    BY <1>1, <2>3 DEF Inv, HartPlaced, RunningKnown, StacksKnown, TypeOK, Live
  <2>4. \A t, u \in Threads : t # u =>
          thread[t].kstack # thread[u].kstack /\ thread[t].ctx # thread[u].ctx
    BY <1>1, StackFacts DEF Inv, StacksKnown
  <2>5. heap = {thread[t].kstack : t \in Threads \union IF busy THEN {running} ELSE {}}
    BY <1>1 DEF Inv, StacksKnown, Held
  <2> QED
    BY <2>1, <2>2, <2>3, <2>4, <2>5 DEF ContextsLive
<1> QED
  BY <1>1, SpecInv, PTL
------------------------------------------------------------------------------
\* A step of the kernel is a call the scheduler may be relied upon to answer,
\* or none.
LEMMA StepIsCall ==
  ASSUME Inv, [Next]_vars
  PROVE  [Sched!Next]_(Sched!schedulerVars)
<1> DEFINE Call == [Sched!Next]_(Sched!schedulerVars)
<1>1. ASSUME UNCHANGED schedulerVars
      PROVE  Call
  BY <1>1 DEF schedulerVars, Sched!schedulerVars
<1>2. ASSUME NEW t \in Tid, t \notin Range(queue), Sched!Push(t), UNCHANGED current
      PROVE  Call
  BY <1>2 DEF Sched!Next, Sched!Tid, Tid, Sched!Range, Range
<1>3. CASE BootStep
  <2>1. ASSUME NEW k \in KStack, InitThread(k), UNCHANGED boot
        PROVE  Call
    <3>1. AllocTid \in Tid /\ AllocTid \notin Range(queue) /\ Sched!Push(AllocTid)
      <4>1. 0 \in Tid /\ boot.adds[Booted + 1] \in Prog
        BY <2>1, BootFacts, KernelAssumption DEF InitThread, Tid
      <4> QED
        BY <2>1, <4>1, AddFacts DEF InitThread
    <3> QED
      BY <1>2, <2>1, <3>1 DEF InitThread
  <2> QED
    BY <1>1, <1>3, <2>1 DEF BootStep, InitThreadPanic, InitTimer
<1>4. CASE Idle
  <2>1. CASE Dispatch
    BY <2>1 DEF Dispatch, Sched!Next
  <2>2. CASE Retrieve
    <3>1. running \in Tid /\ running \notin Range(queue)
      BY <2>2, QueueFacts DEF Inv, HartPlaced, RunningKnown, TypeOK, Retrieve
    <3> QED
      BY <1>1, <1>2, <2>2, <3>1 DEF Retrieve, WakeupCPU, schedulerVars
  <2> QED
    BY <1>1, <1>4, <2>1, <2>2 DEF Idle, RunCPU, DisableInterrupts, EnableInterrupts, Wfi, RetrieveExited
<1>5. CASE IdleTick
  BY <1>1, <1>5 DEF IdleTick, TimerIdle
<1>6. CASE BusyTick
  <2>1. pc = "running"
    BY <1>6 DEF BusyTick, TimerBusy, Inv, HartPlaced, OpenPc, BootPc, IdlePc
  <2>2. /\ running \in Tid /\ current = running /\ running \notin Range(queue)
        /\ slice[running] > 0
    BY <2>1, RunningFacts DEF UserPc
  <2>3. current # Sched!NoTid
    BY <2>2, KernelAssumption DEF Sched!NoTid, Tid
  <2> QED
    BY <1>6, <2>2, <2>3 DEF BusyTick, TimerBusy, Sched!Next, Sched!Range, Range
<1>7. CASE External
  <2>1. CASE ExternalChar
    <3>1. CASE waitQueue = << >>
      BY <1>1, <2>1, <3>1 DEF ExternalChar, PushChar, NotifyCondition, schedulerVars
    <3>2. CASE waitQueue # << >>
      <4>1. Head(waitQueue) \in Tid /\ Head(waitQueue) \in Range(waitQueue)
        BY <3>2, TailFacts DEF Inv, TypeOK
      <4>2. Head(waitQueue) \notin Range(queue)
        BY <4>1, QueueFacts
      <4>3. Sched!Push(Head(waitQueue)) /\ UNCHANGED current
        BY <2>1, <3>2 DEF ExternalChar, PushChar, NotifyCondition, WakeupCPU
      <4> QED
        BY <1>2, <4>1, <4>2, <4>3
    <3> QED
      BY <3>1, <3>2
  <2> QED
    BY <1>1, <1>7, <2>1 DEF External, ExternalNothing
<1>8. CASE Program
  <2>1. ASSUME NEW p \in Prog, NEW k \in KStack, SysExec(p, k), UNCHANGED boot
        PROVE  Call
    <3>1. AllocTid \in Tid /\ AllocTid \notin Range(queue) /\ Sched!Push(AllocTid)
      BY <2>1, AddFacts DEF SysExec, Inv, TypeOK
    <3> QED
      BY <1>2, <2>1, <3>1 DEF SysExec
  <2>2. CASE ExitFromPool
    <3>1. pc = "running" /\ Sched!Exit(running) /\ UNCHANGED <<queue, slice>>
      BY <2>2 DEF ExitFromPool
    <3>2. running \in Tid /\ current = running
      BY <3>1, RunningFacts DEF UserPc
    <3>3. current # Sched!NoTid
      BY <3>2, KernelAssumption DEF Sched!NoTid, Tid
    <3> QED
      BY <3>1, <3>2, <3>3 DEF Sched!Next
  <2> QED
    BY <1>1, <1>8, <2>1, <2>2 DEF Program, SysRead, SysExecPanic
<1>9. CASE InCall
  <2>1. CASE ExitFromCPU
    <3>1. /\ running \in Executed /\ cur.wait = thread[running].wait
      BY <2>1, RunningFacts DEF ExitFromCPU, Executed, UserPc
    <3>2. cur.wait \in Tid /\ cur.wait \notin Range(queue)
      BY <3>1, QueueFacts, StackFacts DEF Inv, SleepersHaveOneWaker
    <3>3. cur.wait # -1
      BY <3>2, KernelAssumption DEF Tid
    <3> QED
      BY <1>2, <2>1, <3>2, <3>3 DEF ExitFromCPU, WakeupCPU
  <2> QED
    BY <1>1, <1>9, <2>1 DEF InCall, PopChar, WaitCondition
<1>10. CASE UNCHANGED vars
  BY <1>1, <1>10 DEF vars
<1> QED
  BY <1>3, <1>4, <1>5, <1>6, <1>7, <1>8, <1>9, <1>10 DEF Next, Stuck

\* What the kernel does with its scheduler is an execution of FifoScheduler:
\* with RingImplementsFifo the ring may stand in for the queue.
THEOREM KernelCallsFifo == Spec => FifoDiscipline
<1>1. Init => Sched!Init
  BY DEF Init, Sched!Init, Sched!Tid, Sched!NoTid, Tid, NoTid
<1>2. Inv /\ [Next]_vars => [Sched!Next]_(Sched!schedulerVars)
  BY StepIsCall
<1> QED
  BY <1>1, <1>2, SpecInv, PTL DEF Spec, FifoDiscipline, Sched!Spec
------------------------------------------------------------------------------
\* With one boot thread all threads but one are hosts: as many programs run as
\* there are threads besides it, and no two of them have the same host.
LEMMA OneIsNoHost ==
  ASSUME Inv, Len(boot.adds) = 1, NEW a \in Threads, NEW b \in Threads,
         \A u \in Executed : thread[u].wait \notin {a, b}
  PROVE  a = b
<1> SUFFICES ASSUME a # b PROVE FALSE
  OBVIOUS
<1> DEFINE Usable == Tid \ boot.rubbish
           Below(t) == {u \in Usable : u < t}
           Rest == (Threads \ {a}) \ {b}
           host == [u \in Executed |-> thread[u].wait]
<1>1. IsFiniteSet(Tid) /\ Tid \subseteq Nat
  BY FS_Interval, KernelAssumption DEF Tid
<1>2. \A t, u \in BootThreads : t = u
  <2>1. \A t, u \in BootThreads : ~(t < u)
    <3> SUFFICES ASSUME NEW t \in BootThreads, NEW u \in BootThreads, t < u
                 PROVE  FALSE
      OBVIOUS
    <3>1. u \in Usable /\ t \in Below(u) /\ Cardinality(Below(u)) < 1
      BY DEF BootThreads
    <3>2. IsFiniteSet(Below(u)) /\ Cardinality(Below(u)) \in Nat
      BY <1>1, FS_Subset, FS_CardinalityType
    <3>3. Below(u) = {}
      <4> HIDE DEF Below
      <4>1. Cardinality(Below(u)) = 0
        BY <3>1, <3>2
      <4> QED
        BY <3>2, <4>1, FS_EmptySet
    <3> QED
      BY <3>1, <3>3
  <2>2. BootThreads \subseteq Nat
    BY <1>1 DEF BootThreads
  <2> QED
    BY <2>1, <2>2
<1>3. IsFiniteSet(Threads) /\ Cardinality(Threads) \in Nat
  BY <1>1, StackFacts, FS_Subset, FS_CardinalityType
<1>4. IsFiniteSet(Rest) /\ Cardinality(Rest) = Cardinality(Threads) - 2
  <2>1. IsFiniteSet(Threads \ {a}) /\ Cardinality(Threads \ {a}) = Cardinality(Threads) - 1
    BY <1>3, FS_RemoveElement
  <2> DEFINE S == Threads \ {a}
  <2>2. b \in S
    OBVIOUS
  <2>3. IsFiniteSet(S \ {b}) /\ Cardinality(S \ {b}) = Cardinality(S) - 1
    <3> HIDE DEF S
    <3> QED
      BY <2>1, <2>2, FS_RemoveElement DEF S
  <2> QED
    BY <1>3, <2>1, <2>3
<1>5. IsFiniteSet(Threads \ BootThreads) /\ Cardinality(Threads \ BootThreads) >= Cardinality(Threads) - 1
  <2>1. PICK x : Threads \intersect BootThreads \subseteq {x}
    BY <1>2
  <2>2. Threads \ {x} \subseteq Threads \ BootThreads
    BY <2>1
  <2>3. IsFiniteSet(Threads \ BootThreads) /\ Cardinality(Threads \ BootThreads) \in Nat
    BY <1>3, FS_Subset, FS_CardinalityType
  <2>4. /\ Cardinality(Threads \ {x}) <= Cardinality(Threads \ BootThreads)
        /\ Cardinality(Threads \ {x}) >= Cardinality(Threads) - 1
    BY <1>3, <2>2, <2>3, FS_Subset, FS_RemoveElement
  <2>5. Cardinality(Threads \ {x}) \in Nat
    BY <1>3, FS_RemoveElement, FS_CardinalityType
  <2> QED
    BY <1>3, <2>3, <2>4, <2>5
<1>6. /\ Threads \ BootThreads \subseteq Executed /\ IsFiniteSet(Executed)
      /\ Cardinality(Executed) >= Cardinality(Threads \ BootThreads)
      /\ Cardinality(Executed) \in Nat /\ Cardinality(Threads \ BootThreads) \in Nat
  <2>1. Executed \subseteq Tid /\ Threads \ BootThreads \subseteq Executed
    BY StackFacts DEF Executed, Inv, TypeOK
  <2>2. IsFiniteSet(Executed)
    BY <1>1, <2>1, FS_Subset
  <2> QED
    BY <2>1, <2>2, FS_Subset, FS_CardinalityType
<1>7. host \in [Executed -> Rest]
  BY DEF Inv, SleepersHaveOneWaker
<1>8. Cardinality(Rest) < Cardinality(Executed)
  <2> HIDE DEF Rest
  <2> QED
    BY <1>3, <1>4, <1>5, <1>6
<1>9. \E u, v \in Executed : u # v /\ host[u] = host[v]
  <2> HIDE DEF Rest, host
  <2> QED
    BY <1>4, <1>6, <1>7, <1>8, FS_PigeonHole
<1> QED
  BY <1>9 DEF Inv, SleepersHaveOneWaker

LEMMA OneIsAwake ==
  ASSUME Inv, Len(boot.adds) = 1, NEW a \in Threads, NEW b \in Threads,
         status[a] # "Sleeping", status[b] # "Sleeping"
  PROVE  a = b
<1>1. \A u \in Executed : thread[u].wait \notin {a, b}
  BY DEF Inv, SleepersHaveOneWaker
<1> QED
  BY <1>1, OneIsNoHost

\* With one shell at boot at most one thread is awake.
THEOREM OneLineOfPrograms == Spec => []ForegroundOnly
<1>1. ASSUME Inv, Len(boot.adds) = 1
      PROVE  Cardinality({t \in Threads : status[t] # "Sleeping"}) <= 1
  <2> DEFINE Awake == {t \in Threads : status[t] # "Sleeping"}
  <2>1. \A a, b \in Awake : a = b
    BY <1>1, OneIsAwake
  <2>2. CASE Awake = {}
    BY <2>2, FS_EmptySet
  <2>3. CASE Awake # {}
    <3>1. PICK a : a \in Awake
      BY <2>3
    <3>2. Awake = {a}
      BY <2>1, <3>1
    <3>3. Cardinality(Awake) = 1
      <4> HIDE DEF Awake
      <4> QED
        BY <3>2, FS_Singleton
    <3> QED
      BY <3>3
  <2> QED
    BY <2>2, <2>3
<1>2. Inv => ForegroundOnly
  BY <1>1 DEF ForegroundOnly
<1> QED
  BY <1>2, SpecInv, PTL
------------------------------------------------------------------------------
\* What a step does to the readers that are ready, to the characters and to
\* the place of the hart.
LEMMA ReadersStep ==
  ASSUME Inv, [Next]_vars, ~Dispatch, ~ExternalChar
  PROVE  /\ ReadyReaders' = ReadyReaders
         /\ UNCHANGED boot
         /\ \/ PopChar
            \/ WaitCondition
            \/ /\ UNCHANGED <<buffered, waitQueue>>
               /\ pc = "popChar" => pc' = "popChar" /\ running' = running
         /\ pc = "acquire" => pc' # "popChar"
<1>1. CASE BootStep
  BY <1>1, InitThreadInv, MovesInv DEF BootStep, InitThread, InitThreadPanic, InitTimer, stdinVars
<1>2. CASE Idle
  BY <1>2, RunCPUInv, MovesInv, RetrieveExitedInv, RetrieveInv
     DEF Idle, RunCPU, DisableInterrupts, EnableInterrupts, Wfi, RetrieveExited, Retrieve, stdinVars
<1>3. CASE IdleTick
  BY <1>3, MovesInv DEF IdleTick, TimerIdle, OpenPc, stdinVars
<1>4. CASE BusyTick
  BY <1>4, TimerBusyInv DEF BusyTick, TimerBusy, OpenPc, stdinVars
<1>5. CASE External
  BY <1>5, MovesInv DEF External, ExternalNothing, stdinVars
<1>6. CASE Program
  BY <1>6, SysExecInv, MovesInv, ExitFromPoolInv
     DEF Program, SysRead, SysExec, SysExecPanic, ExitFromPool, stdinVars
<1>7. CASE InCall
  BY <1>7, MovesInv, WaitConditionInv, ExitFromCPUInv
     DEF InCall, PopChar, WaitCondition, ExitFromCPU, stdinVars
<1>8. CASE UNCHANGED vars
  BY <1>8 DEF vars, poolVars, stdinVars, cpuVars, ReadyReaders, Threads
<1> QED
  BY <1>1, <1>2, <1>3, <1>4, <1>5, <1>6, <1>7, <1>8 DEF Next, Stuck

\* The woken readers are the ready ones and the one in popChar.
OnHart == IF pc = "popChar" THEN {running} ELSE {}
WokenKnown ==
  /\ Woken = ReadyReaders \union OnHart
  /\ OnHart \intersect ReadyReaders = {}
  /\ IsFiniteSet(Woken) /\ Cardinality(Woken) \in Nat

LEMMA WokenFacts == Inv => WokenKnown
<1> SUFFICES ASSUME Inv PROVE WokenKnown
  OBVIOUS
<1>1. pc = "popChar" => running \in Threads /\ status[running] = "Running"
  BY RunningFacts DEF UserPc
<1>2. Woken = ReadyReaders \union OnHart
  BY <1>1 DEF Woken, ReadyReaders, OnHart
<1>3. IsFiniteSet(Woken)
  BY BootFacts, FS_Subset DEF Woken
<1>4. OnHart \intersect ReadyReaders = {}
  BY <1>1 DEF OnHart, ReadyReaders
<1> QED
  BY <1>2, <1>3, <1>4, FS_CardinalityType DEF WokenKnown

\* Nothing leads out of the fault that repeats itself.
LEMMA LoopStays ==
  ASSUME pc = "faultLoop", [Next]_vars
  PROVE  pc' = "faultLoop"
<1>1. /\ ~BootStep /\ ~Idle /\ ~IdleTick /\ ~BusyTick
  BY DEF BootStep, InitThread, InitThreadPanic, InitTimer, Idle, RunCPU, DisableInterrupts, Dispatch,
         EnableInterrupts, Wfi, RetrieveExited, Retrieve, IdleTick, TimerIdle, BusyTick, TimerBusy, OpenPc
<1>2. ~External /\ ~Program /\ ~InCall
  BY DEF External, ExternalChar, ExternalNothing, Program, SysRead, SysExec, SysExecPanic, ExitFromPool,
         InCall, PopChar, WaitCondition, ExitFromCPU, OpenPc
<1> QED
  BY <1>1, <1>2 DEF Next, Stuck, vars

\* No step loses a wakeup.
LEMMA WakeupsStep ==
  ASSUME Inv, NoLostWakeup, [Next]_vars, WokenKnown, WokenKnown'
  PROVE  NoLostWakeup'
<1>1. /\ Woken = ReadyReaders \union OnHart /\ Woken' = ReadyReaders' \union OnHart'
      /\ OnHart \intersect ReadyReaders = {}
      /\ IsFiniteSet(Woken) /\ IsFiniteSet(Woken')
      /\ Cardinality(Woken) \in Nat /\ Cardinality(Woken') \in Nat
  BY DEF WokenKnown
<1>2. buffered \in Nat /\ (waitQueue # << >> /\ pc # "faultLoop" => buffered <= Cardinality(Woken))
  BY KernelAssumption DEF Inv, TypeOK, NoLostWakeup
<1>0. CASE pc = "faultLoop"
  <2>1. pc' = "faultLoop"
    BY <1>0, LoopStays
  <2> QED
    BY <2>1 DEF NoLostWakeup
<1>3. ASSUME pc # "faultLoop", Woken \subseteq Woken', UNCHANGED <<buffered, waitQueue>>
      PROVE  NoLostWakeup'
  <2>1. Cardinality(Woken) <= Cardinality(Woken')
    BY <1>1, <1>3, FS_Subset
  <2> QED
    BY <1>1, <1>2, <1>3, <2>1 DEF NoLostWakeup
<1>4. CASE Dispatch /\ UNCHANGED boot
  <2>1. /\ pc = "acquire" /\ UNCHANGED <<buffered, waitQueue>>
        /\ ReadyReaders' = ReadyReaders \ {Head(queue)} /\ running' = Head(queue)
        /\ Head(queue) \in ReadyReaders => pc' \in {"popChar", "faultLoop"}
    BY <1>4, DispatchInv DEF Dispatch, stdinVars
  <2>2. CASE pc' = "faultLoop"
    BY <2>2 DEF NoLostWakeup
  <2>3. CASE pc' # "faultLoop"
    <3>1. Woken \subseteq Woken'
      BY <1>1, <2>1, <2>3 DEF OnHart
    <3> QED
      BY <1>3, <2>1, <3>1
  <2> QED
    BY <2>2, <2>3
<1>5. CASE ExternalChar /\ UNCHANGED boot
  <2>1. /\ buffered' = buffered + 1 /\ pc # "popChar" /\ pc' # "popChar" /\ pc # "faultLoop"
        /\ waitQueue = << >> => waitQueue' = << >>
        /\ waitQueue # << >> => /\ Head(waitQueue) \notin ReadyReaders
                               /\ ReadyReaders' = ReadyReaders \union {Head(waitQueue)}
    BY <1>5, ExternalCharInv DEF ExternalChar, PushChar, OpenPc, AfterInterrupt
  <2>2. CASE waitQueue = << >>
    BY <2>1, <2>2 DEF NoLostWakeup
  <2>3. CASE waitQueue # << >>
    <3>1. Head(waitQueue) \notin Woken /\ Woken' = Woken \union {Head(waitQueue)}
      BY <1>1, <2>1, <2>3 DEF OnHart
    <3>2. Cardinality(Woken') = Cardinality(Woken) + 1
      BY <1>1, <3>1, FS_AddElement
    <3> QED
      BY <1>1, <1>2, <2>1, <2>3, <3>2 DEF NoLostWakeup
  <2> QED
    BY <2>2, <2>3
<1>6. CASE ~Dispatch /\ ~ExternalChar /\ pc # "faultLoop"
  <2>1. /\ ReadyReaders' = ReadyReaders
        /\ \/ PopChar
           \/ WaitCondition
           \/ /\ UNCHANGED <<buffered, waitQueue>>
              /\ pc = "popChar" => pc' = "popChar" /\ running' = running
    BY <1>6, ReadersStep
  <2>2. CASE PopChar
    <3>1. /\ buffered' = buffered - 1 /\ UNCHANGED waitQueue
          /\ running \in Woken /\ Woken' = Woken \ {running}
      BY <1>1, <2>1, <2>2 DEF PopChar, OnHart
    <3>2. Cardinality(Woken') = Cardinality(Woken) - 1
      BY <1>1, <3>1, FS_RemoveElement
    <3> QED
      BY <1>1, <1>2, <1>6, <3>1, <3>2 DEF NoLostWakeup
  <2>3. CASE WaitCondition
    BY <1>1, <2>3 DEF WaitCondition, NoLostWakeup
  <2>4. CASE /\ UNCHANGED <<buffered, waitQueue>>
             /\ pc = "popChar" => pc' = "popChar" /\ running' = running
    <3>1. Woken \subseteq Woken'
      BY <1>1, <2>1, <2>4 DEF OnHart
    <3> QED
      BY <1>3, <1>6, <2>4, <3>1
  <2> QED
    BY <2>1, <2>2, <2>3, <2>4
<1>7. UNCHANGED boot
  BY DEF Next, BootStep, Idle, IdleTick, BusyTick, External, Program, InCall, Stuck, vars
<1> QED
  BY <1>0, <1>4, <1>5, <1>6, <1>7

\* No wakeup is lost, whatever the interleaving of keyboard, timer and readers
\* and whether user stacks are mapped or not: where they are not, a reader that
\* is resumed in faultLoop is the only one not to arrive, and the last.
THEOREM WakeupsReachReaders == Spec => []NoLostWakeup
<1>1. Init => NoLostWakeup
  BY DEF Init, NoLostWakeup
<1>2. Inv /\ Inv' => WokenKnown /\ WokenKnown'
  BY WokenFacts, PTL
<1>3. Inv /\ Inv' /\ NoLostWakeup /\ [Next]_vars => NoLostWakeup'
  BY <1>2, WakeupsStep
<1> QED
  BY <1>1, <1>3, SpecInv, PTL DEF Spec

\* With a single line of programs nobody takes the character a reader was
\* woken for.
LEMMA CharsStep ==
  ASSUME Inv, CharForWoken, [Next]_vars
  PROVE  /\ CharForWoken'
         /\ Len(boot.adds) = 1 /\ pc = "acquire" /\ pc' = "popChar" => buffered > 0
<1>1. UNCHANGED boot /\ buffered \in Nat
  BY KernelAssumption DEF Inv, TypeOK,
     Next, BootStep, Idle, IdleTick, BusyTick, External, Program, InCall, Stuck, vars
<1>2. CASE Dispatch
  <2>1. /\ ReadyReaders' \subseteq ReadyReaders /\ UNCHANGED buffered
        /\ pc' = "popChar" => ReadyReaders # {}
    BY <1>1, <1>2, DispatchInv DEF Dispatch, stdinVars
  <2> QED
    BY <1>1, <2>1 DEF CharForWoken
<1>3. CASE ExternalChar
  <2>1. buffered' = buffered + 1 /\ pc # "acquire"
    BY <1>3 DEF ExternalChar, PushChar, OpenPc
  <2> QED
    BY <1>1, <2>1 DEF CharForWoken
<1>4. CASE ~Dispatch /\ ~ExternalChar
  <2>1. /\ ReadyReaders' = ReadyReaders
        /\ PopChar \/ WaitCondition \/ UNCHANGED buffered
        /\ pc = "acquire" => pc' # "popChar"
    BY <1>4, ReadersStep
  <2>2. ASSUME PopChar, Len(boot.adds) = 1, NEW r \in ReadyReaders
        PROVE  FALSE
    <3>1. running \in Threads /\ status[running] = "Running"
      BY <2>2, RunningFacts DEF PopChar, UserPc
    <3>2. r \in Threads /\ status[r] = "Ready"
      BY DEF ReadyReaders
    <3> QED
      BY <2>2, <3>1, <3>2, OneIsAwake
  <2>3. CharForWoken'
    BY <1>1, <2>1, <2>2 DEF CharForWoken, WaitCondition
  <2> QED
    BY <2>1, <2>3
<1> QED
  BY <1>2, <1>3, <1>4

\* Such a reader finds it there, in the first round of popChar's loop.
THEOREM WokenFindChar == Spec => WokenReaderFindsChar
<1>1. Init => CharForWoken
  <2> SUFFICES ASSUME Init PROVE ReadyReaders = {}
    BY DEF CharForWoken
  <2>1. Threads = {}
    BY DEF Init, Threads
  <2> QED
    BY <2>1 DEF ReadyReaders
<1>2. Inv /\ CharForWoken /\ [Next]_vars =>
        /\ CharForWoken'
        /\ [Len(boot.adds) = 1 /\ pc = "acquire" /\ pc' = "popChar" => buffered > 0]_vars
  BY CharsStep
<1> QED
  BY <1>1, <1>2, SpecInv, PTL DEF Spec, WokenReaderFindsChar
==============================================================================
