------------------------------- MODULE Kernel -------------------------------
(***************************************************************************)
(* The thread machinery of the kernel: the thread pool (thread.c), the     *)
(* idle thread and the switches to and from it (processor.c, switch.S),    *)
(* the keyboard buffer with its condition variable (stdin.c, condition.c), *)
(* the system calls (syscall.c) and the two interrupts that drive them     *)
(* (interrupt.c, timer.c).  The ready queue is the abstract FifoScheduler, *)
(* whose calling discipline this module has to respect; RRScheduler.tla is *)
(* its implementation.                                                     *)
(*                                                                         *)
(* A definition named ..._Slip is its neighbour below with one plausible   *)
(* mistake in it: it is no part of the model, and exists to show that the  *)
(* properties notice the mistake.                                          *)
(*                                                                         *)
(* There is one hart, and code that runs with interrupts disabled runs     *)
(* without interference: a step is such a stretch of code, up to the next  *)
(* switch or the next point where an interrupt can be taken.               *)
(***************************************************************************)
EXTENDS Integers, Sequences, FiniteSets, Functions

CONSTANTS
  MaxThread,        \* MAX_THREAD: slots of the thread pool
  MaxTime,          \* ticks in a time slice
  TimeMod,          \* usize arithmetic of a slice wraps here
  KStack,           \* kernel stacks the heap has room for
  IdleStack,        \* kernel stack of the idle thread, never freed
  Null,             \* address 0
  Boots,            \* what initThread may add, the programs of threads in order,
                    \* and the slots with rubbish in `occupied'
  Sie,              \* interrupt sources enabled in the sie register
  UserStackMapped,  \* do the page tables of the idle thread map user stacks?
  MaxBuf            \* bound: unread characters

(* Programs by what they ask of the kernel: sh reads and executes, echo    *)
(* reads, hello exits.                                                     *)
Prog == {"sh", "echo", "hello"}

Tid == 0 .. MaxThread - 1
NoTid == -1
Stack == KStack \union Tid \union {IdleStack}  \* t is the user stack of thread t

ASSUME KernelAssumption ==
  /\ MaxThread \in Nat \ {0}
  /\ MaxTime \in Nat \ {0}
  /\ TimeMod \in Nat /\ MaxTime < TimeMod
  /\ KStack \intersect Tid = {}
  /\ IdleStack \notin KStack \union Tid
  /\ Null \notin Stack
  \* Boot threads never exit: one would wake thread 0, whatever that does.
  /\ \A b \in Boots : b.adds \in Seq(Prog \ {"hello"}) /\ b.rubbish \subseteq Tid
  /\ IsFiniteSet(KStack)
  /\ Sie \subseteq {"timer", "external"}
  /\ UserStackMapped \in BOOLEAN
  /\ MaxBuf \in Nat

VARIABLES
  occupied, status, thread, prog,  \* CPU.pool.threads, and what each thread runs
  busy, running, cur, idleCtx,     \* CPU.occupied, .current.tid, .current.thread, .idle
  queue, slice, current,           \* the scheduler, as in FifoScheduler
  buffered, waitQueue,             \* STDIN.buf (its length) and STDIN.pushed
  heap,                            \* kernel stacks that are allocated
  saved,                           \* what the context saved on a stack resumes at
  armed,                           \* a timer interrupt has been requested
  boot,                            \* what this kernel's initThread adds and finds
  pc                               \* where the hart is

poolVars == <<occupied, status, thread, prog>>
cpuVars == <<busy, running, cur, idleCtx>>
schedulerVars == <<queue, slice, current>>
stdinVars == <<buffered, waitQueue>>
vars == <<poolVars, cpuVars, schedulerVars, stdinVars, heap, saved, armed, boot, pc>>

Sched == INSTANCE FifoScheduler

(* Points where the hart can be: with interrupts enabled, disabled, and    *)
(* for good.  "running" is a user program, "enabled" the gap between       *)
(* setting SIE and wfi, "mask" the one before it is cleared.               *)
OpenPc == {"runCPU", "idleEntry", "enabled", "halted", "mask", "running"}
ClosedPc == {"initThread", "acquire", "retrieve", "popChar", "exiting"}
FinalPc == {"panicked", "faultLoop", "wild"}
Pc == OpenPc \union ClosedPc \union FinalPc
ResumePc == {"none", "idleEntry", "retrieve", "running", "popChar"}
------------------------------------------------------------------------------
NoThread == [ctx |-> Null, kstack |-> Null, wait |-> 0]

\* After initCPU: the idle thread is made.  newThreadPool leaves the slots as
\* they are on the boot stack, and initCPU copies them: one that does not hold
\* a 0 in `occupied' by then is lost.
Init ==
  /\ boot \in Boots
  /\ occupied = [t \in Tid |-> t \in boot.rubbish]
  /\ status = [t \in Tid |-> "Ready"]
  /\ thread = [t \in Tid |-> NoThread]
  /\ prog = [t \in Tid |-> "hello"]
  /\ busy = FALSE /\ running = 0 /\ cur = NoThread /\ idleCtx = IdleStack
  /\ queue = << >> /\ slice = [t \in Tid |-> 0] /\ current = NoTid
  /\ buffered = 0 /\ waitQueue = << >>
  /\ heap = {}
  /\ saved = [s \in Stack |-> IF s = IdleStack THEN "idleEntry" ELSE "none"]
  /\ armed = FALSE
  /\ pc = "initThread"
------------------------------------------------------------------------------
(* Context switches.  A trap taken in a user program is handled on the     *)
(* user stack: interrupt.S moves the sp it finds and saves there.  The     *)
(* kernel stack of a thread holds its first context only.                  *)
TrapStack == running

(* switch.S reads the saved page table of the target from the target's     *)
(* stack before it installs it.  Switching from the idle thread to a       *)
(* context on a user stack therefore faults, and the handler faults again  *)
(* on the same stack, unless the idle thread's page tables map that stack. *)
Resume(ctx) ==
  IF ctx = Null THEN "wild"
  ELSE IF ctx \in Tid /\ ~UserStackMapped THEN "faultLoop"
  ELSE IF saved[ctx] = "none" THEN "wild" ELSE saved[ctx]

\* switchThread(&CPU.current.thread, &CPU.idle), to come back at `at'; mem
\* is what the stacks hold before the switch.
SwitchToIdle(mem, at) ==
  /\ saved' = [mem EXCEPT ![TrapStack] = at, ![IdleStack] = "none"]
  /\ cur' = [cur EXCEPT !.ctx = TrapStack]
  /\ idleCtx' = Null
  /\ pc' = Resume(idleCtx)

\* switchThread(&CPU.idle, &CPU.current.thread), current being t's record.
SwitchToThread(t) ==
  /\ cur' = [thread[t] EXCEPT !.ctx = Null]
  /\ idleCtx' = IdleStack
  /\ saved' = [s \in Stack |-> IF s = IdleStack THEN "retrieve"
                               ELSE IF s = thread[t].ctx THEN "none" ELSE saved[s]]
  /\ pc' = Resume(thread[t].ctx)

\* yieldCPU: nothing to do when no thread is running.
YieldCPU(mem, at) ==
  IF busy THEN SwitchToIdle(mem, at)
          ELSE saved' = mem /\ pc' = at /\ UNCHANGED <<cur, idleCtx>>
Slept_Slip == status  \* yieldCPU forgets to mark the thread
Slept == IF busy THEN [status EXCEPT ![running] = "Sleeping"] ELSE status

\* wakeupCPU: no look at what the thread was doing.
WakeupCPU(t) ==
  /\ status' = [status EXCEPT ![t] = "Ready"]
  /\ Sched!Push(t)
------------------------------------------------------------------------------
(* Creating threads.  newUserThread and newKernelThread put the first      *)
(* context on a new kernel stack; allocTid takes the lowest free slot.     *)
(* Both give up with a panic when there is nothing left.                   *)
Room == (\E t \in Tid : ~occupied[t]) /\ heap # KStack

AllocTid == CHOOSE t \in Tid : ~occupied[t] /\ \A u \in 0 .. t - 1 : occupied[u]

NewUserThread(k, host) == [ctx |-> k, kstack |-> k, wait |-> host]

AddToPool(p, k, host) ==
  LET t == AllocTid
  IN /\ heap' = heap \union {k}
     /\ occupied' = [occupied EXCEPT ![t] = TRUE]
     /\ thread' = [thread EXCEPT ![t] = NewUserThread(k, host)]
     /\ prog' = [prog EXCEPT ![t] = p]
     /\ Sched!Push(t)

Fresh(k) == [saved EXCEPT ![k] = "running", ![AllocTid] = "none"]

\* initThread: a boot thread's `wait' is left to the initialiser, which
\* zeroes it.
Threads == {t \in Tid : occupied[t]} \ boot.rubbish
Booted == Cardinality(Threads)

InitThread(k) ==
  /\ pc = "initThread" /\ Booted < Len(boot.adds)
  /\ Room /\ k \in KStack \ heap
  /\ AddToPool(boot.adds[Booted + 1], k, 0)
  /\ status' = [status EXCEPT ![AllocTid] = "Ready"]
  /\ saved' = Fresh(k)
  /\ UNCHANGED <<cpuVars, current, stdinVars, armed, pc>>

\* There is no slot that looks free, or no room for a stack.
InitThreadPanic ==
  /\ pc = "initThread" /\ Booted < Len(boot.adds)
  /\ ~Room
  /\ pc' = "panicked"
  /\ UNCHANGED <<poolVars, cpuVars, schedulerVars, stdinVars, heap, saved, armed>>

SetTimerout_Slip == armed' = (pc = "initThread")  \* the handler does not rearm
SetTimerout == armed' = TRUE

InitTimer ==
  /\ pc = "initThread" /\ Booted = Len(boot.adds)
  /\ SetTimerout
  /\ pc' = "runCPU"
  /\ UNCHANGED <<poolVars, cpuVars, schedulerVars, stdinVars, heap, saved>>

\* The boot stack is left for good.
RunCPU ==
  /\ pc = "runCPU"
  /\ idleCtx' = Null
  /\ saved' = [saved EXCEPT ![IdleStack] = "none"]
  /\ pc' = Resume(idleCtx)
  /\ UNCHANGED <<poolVars, busy, running, cur, schedulerVars, stdinVars, heap, armed>>
------------------------------------------------------------------------------
(* The idle thread.                                                        *)

\* disable_and_store, at the entry of idleMain and after wfi.
DisableInterrupts ==
  /\ pc \in {"idleEntry", "mask"}
  /\ pc' = "acquire"
  /\ UNCHANGED <<poolVars, cpuVars, schedulerVars, stdinVars, heap, saved, armed>>

\* acquireFromPool found a thread: switch to it.
Dispatch ==
  /\ pc = "acquire"
  /\ Sched!Pop
  /\ LET t == Head(queue)
     IN /\ status' = [status EXCEPT ![t] = "Running"]
        /\ running' = t
        /\ SwitchToThread(t)
  /\ busy' = TRUE
  /\ UNCHANGED <<occupied, thread, prog, slice, stdinVars, heap, armed>>

\* Nothing to run: enable_and_wfi sets SIE ...
EnableInterrupts ==
  /\ pc = "acquire" /\ queue = << >>
  /\ pc' = "enabled"
  /\ UNCHANGED <<poolVars, cpuVars, schedulerVars, stdinVars, heap, saved, armed>>

\* ... and waits.  An interrupt that came in between is over by now.
Wfi ==
  /\ pc = "enabled"
  /\ pc' = "halted"
  /\ UNCHANGED <<poolVars, cpuVars, schedulerVars, stdinVars, heap, saved, armed>>

\* retrieveToPool of a thread that has ended: its kernel stack is freed.
RetrieveExited ==
  /\ pc = "retrieve" /\ ~occupied[running]
  /\ busy' = FALSE
  /\ heap' = heap \ {thread[running].kstack}
  /\ saved' = [saved EXCEPT ![thread[running].kstack] = "none"]
  /\ pc' = "acquire"
  /\ UNCHANGED <<poolVars, running, cur, idleCtx, schedulerVars, stdinVars, armed>>

\* A thread that went to sleep is queued as well.
Retrieve_PushSlip ==
  /\ pc = "retrieve" /\ occupied[running]
  /\ busy' = FALSE
  /\ thread' = [thread EXCEPT ![running] = cur]
  /\ Sched!Push(running)
  /\ pc' = "acquire"
  /\ UNCHANGED <<occupied, status, prog, running, cur, idleCtx, current,
                 stdinVars, heap, saved, armed>>

\* The context that was just saved is not copied back to the pool.
Retrieve_CopySlip ==
  /\ pc = "retrieve" /\ occupied[running]
  /\ busy' = FALSE
  /\ IF status[running] = "Running"
     THEN WakeupCPU(running)
     ELSE UNCHANGED <<status, queue, slice>>
  /\ pc' = "acquire"
  /\ UNCHANGED <<occupied, thread, prog, running, cur, idleCtx, current,
                 stdinVars, heap, saved, armed>>

\* retrieveToPool of a thread that lives on: only a preempted one is queued.
Retrieve ==
  /\ pc = "retrieve" /\ occupied[running]
  /\ busy' = FALSE
  /\ thread' = [thread EXCEPT ![running] = cur]
  /\ IF status[running] = "Running"
     THEN WakeupCPU(running)
     ELSE UNCHANGED <<status, queue, slice>>
  /\ pc' = "acquire"
  /\ UNCHANGED <<occupied, prog, running, cur, idleCtx, current, stdinVars, heap, saved, armed>>
------------------------------------------------------------------------------
(* Interrupts.  The handler returns where it came from; a hart halted in   *)
(* wfi goes on behind it.                                                  *)
AfterInterrupt == IF pc = "halted" THEN "mask" ELSE pc

\* supervisorTimer with no thread on the hart.
TimerIdle ==
  /\ pc \in OpenPc /\ "timer" \in Sie /\ armed /\ ~busy
  /\ SetTimerout
  /\ pc' = AfterInterrupt
  /\ UNCHANGED <<poolVars, cpuVars, schedulerVars, stdinVars, heap, saved>>

\* supervisorTimer with one: it is switched out when its slice is used up.
TimerBusy ==
  /\ pc \in OpenPc /\ "timer" \in Sie /\ armed /\ busy
  /\ SetTimerout
  /\ Sched!Tick
  /\ IF Sched!Expired
     THEN SwitchToIdle(saved, "running")
     ELSE pc' = AfterInterrupt /\ UNCHANGED <<saved, cur, idleCtx>>
  /\ UNCHANGED <<poolVars, busy, running, queue, current, stdinVars, heap>>

\* The waiter stays in the wait queue.
NotifyCondition_PopSlip ==
  IF waitQueue # << >>
  THEN WakeupCPU(Head(waitQueue)) /\ UNCHANGED waitQueue
  ELSE UNCHANGED <<status, queue, slice, waitQueue>>

\* notifyCondition wakes the reader that has waited longest.
NotifyCondition ==
  IF waitQueue # << >>
  THEN WakeupCPU(Head(waitQueue)) /\ waitQueue' = Tail(waitQueue)
  ELSE UNCHANGED <<status, queue, slice, waitQueue>>

\* Notify only when the buffer was empty.
PushChar_Slip ==
  /\ buffered' = buffered + 1
  /\ IF buffered = 0 THEN NotifyCondition ELSE UNCHANGED <<status, queue, slice, waitQueue>>

PushChar == buffered' = buffered + 1 /\ NotifyCondition

\* A reader is woken although consoleGetchar returned no character.
ExternalNothing_Slip ==
  /\ pc = "halted" /\ "external" \in Sie
  /\ NotifyCondition
  /\ pc' = AfterInterrupt
  /\ UNCHANGED <<occupied, thread, prog, cpuVars, buffered, current, heap, saved, armed>>

\* external with a character.
ExternalChar ==
  /\ pc \in OpenPc /\ "external" \in Sie /\ buffered < MaxBuf
  /\ PushChar
  /\ pc' = AfterInterrupt
  /\ UNCHANGED <<occupied, thread, prog, cpuVars, current, heap, saved, armed>>

\* external without one: consoleGetchar returned -1.
ExternalNothing ==
  /\ pc = "halted" /\ "external" \in Sie
  /\ pc' = AfterInterrupt
  /\ UNCHANGED <<poolVars, cpuVars, schedulerVars, stdinVars, heap, saved, armed>>
------------------------------------------------------------------------------
(* System calls.  sysWrite changes no state of the kernel, nor does        *)
(* sysExec of a path that lookup does not find.                            *)

SysRead ==
  /\ pc = "running" /\ prog[running] \in {"sh", "echo"}
  /\ pc' = "popChar"
  /\ UNCHANGED <<poolVars, cpuVars, schedulerVars, stdinVars, heap, saved, armed>>

\* popChar, one round of its loop: take a character and return ...
PopChar ==
  /\ pc = "popChar" /\ buffered > 0
  /\ buffered' = buffered - 1
  /\ pc' = "running"
  /\ UNCHANGED <<poolVars, cpuVars, schedulerVars, waitQueue, heap, saved, armed>>

\* ... or waitCondition, and another round after that.
WaitCondition ==
  /\ pc = "popChar" /\ buffered = 0
  /\ waitQueue' = Append(waitQueue, running)
  /\ status' = Slept
  /\ YieldCPU(saved, "popChar")
  /\ UNCHANGED <<occupied, thread, prog, busy, running, schedulerVars, buffered, heap, armed>>

\* sysExec of an ELF file: the caller sleeps until the new thread wakes it.
SysExec(p, k) ==
  /\ pc = "running" /\ prog[running] = "sh"
  /\ Room /\ k \in KStack \ heap
  /\ AddToPool(p, k, running)
  /\ status' = [Slept EXCEPT ![AllocTid] = "Ready"]
  /\ YieldCPU(Fresh(k), "running")
  /\ UNCHANGED <<busy, running, current, stdinVars, armed>>

\* The file is a directory, an empty file that faults when it is read, or no ELF
\* file, or nothing is left for a thread.
SysExecPanic ==
  /\ pc = "running" /\ prog[running] = "sh"
  /\ pc' = "panicked"
  /\ UNCHANGED <<poolVars, cpuVars, schedulerVars, stdinVars, heap, saved, armed>>

\* exitFromCPU up to exitFromPool ...
ExitFromPool ==
  /\ pc = "running" /\ prog[running] = "hello"
  /\ occupied' = [occupied EXCEPT ![running] = FALSE]
  /\ Sched!Exit(running)
  /\ pc' = "exiting"
  /\ UNCHANGED <<status, thread, prog, cpuVars, queue, slice, stdinVars, heap, saved, armed>>

\* 0 is taken for "nobody waits".
ExitFromCPU_Slip ==
  /\ pc = "exiting"
  /\ IF cur.wait > 0 THEN WakeupCPU(cur.wait) ELSE UNCHANGED <<status, queue, slice>>
  /\ SwitchToIdle(saved, "none")
  /\ UNCHANGED <<occupied, thread, prog, busy, running, current, stdinVars, heap, armed>>

\* ... and from there: wake the thread that waits, if wait is not -1.  The
\* context saved by this switch never reaches the pool.
ExitFromCPU ==
  /\ pc = "exiting"
  /\ IF cur.wait # -1 THEN WakeupCPU(cur.wait) ELSE UNCHANGED <<status, queue, slice>>
  /\ SwitchToIdle(saved, "none")
  /\ UNCHANGED <<occupied, thread, prog, busy, running, current, stdinVars, heap, armed>>

\* panic ends in the endless loop of shutdown; a fault loop never ends either.
Stuck == pc \in FinalPc /\ UNCHANGED vars
------------------------------------------------------------------------------
Idle ==
  /\ RunCPU \/ DisableInterrupts \/ Dispatch \/ EnableInterrupts \/ Wfi
       \/ RetrieveExited \/ Retrieve
  /\ UNCHANGED boot
IdleTick == TimerIdle /\ UNCHANGED boot
BusyTick == TimerBusy /\ UNCHANGED boot
External == (ExternalChar \/ ExternalNothing) /\ UNCHANGED boot
Program ==
  /\ SysRead \/ (\E p \in Prog, k \in KStack : SysExec(p, k)) \/ SysExecPanic \/ ExitFromPool
  /\ UNCHANGED boot
InCall == (PopChar \/ WaitCondition \/ ExitFromCPU) /\ UNCHANGED boot
BootStep == ((\E k \in KStack : InitThread(k)) \/ InitThreadPanic \/ InitTimer) /\ UNCHANGED boot

Next == BootStep \/ Idle \/ IdleTick \/ BusyTick \/ External \/ Program \/ InCall \/ Stuck

Spec == Init /\ [][Next]_vars

(* The hart executes kernel code without stopping, so every step of it is  *)
(* taken.  A requested timer interrupt stays pending until it can be       *)
(* taken, and is taken before a program executes another instruction: it   *)
(* is not missed even if interrupts are enabled for short times only.      *)
(* Programs and the keyboard owe nothing.                                  *)
Fairness ==
  /\ WF_vars(BootStep) /\ WF_vars(Idle) /\ WF_vars(InCall)
  /\ WF_vars(IdleTick) /\ SF_vars(BusyTick)

FairSpec == Spec /\ Fairness
------------------------------------------------------------------------------
Ctx == Stack \union {Null}
Thread == [ctx : Ctx, kstack : KStack \union {Null}, wait : Tid \union {NoTid}]

\* Tables hold what their C types and ranges allow: tids index the pool,
\* slices stay within MaxTime (an unsigned slice below zero would not).
TypeOK ==
  /\ occupied \in [Tid -> BOOLEAN]
  /\ status \in [Tid -> {"Ready", "Running", "Sleeping"}]
  /\ thread \in [Tid -> Thread]
  /\ prog \in [Tid -> Prog]
  /\ busy \in BOOLEAN
  /\ running \in Tid
  /\ cur \in Thread
  /\ idleCtx \in {IdleStack, Null}
  /\ queue \in Seq(Tid)
  /\ slice \in [Tid -> 0 .. MaxTime]
  /\ current \in Tid \union {NoTid}
  /\ buffered \in 0 .. MaxBuf
  /\ waitQueue \in Seq(Tid)
  /\ heap \subseteq KStack
  /\ saved \in [Stack -> ResumePc]
  /\ armed \in BOOLEAN
  /\ boot \in Boots
  /\ pc \in Pc

NoRepeats(seq) == \A i, j \in 1 .. Len(seq) : seq[i] = seq[j] => i = j

\* The ready queue and the pool agree: the threads queued are exactly the
\* ready ones, each of them once, and at most one thread runs.  wakeupCPU
\* and schedulerPush look at neither (processor.c:88-93, rrscheduler.c:42).
ReadyQueueExact ==
  /\ NoRepeats(queue)
  /\ \A t \in Tid : t \in Range(queue) <=> t \in Threads /\ status[t] = "Ready"
  /\ \A t \in Threads : status[t] = "Running" => busy /\ running = t

\* Threads made by sysExec: the boot threads of the runs that use this
\* notion never exit, and keep the lowest slots that were free.
BootThreads ==
  {t \in Tid \ boot.rubbish :
     Cardinality({u \in Tid \ boot.rubbish : u < t}) < Len(boot.adds)}
Executed == (Threads \union IF pc = "exiting" THEN {running} ELSE {}) \ BootThreads

\* Whoever sleeps has exactly one event to wait for, and whoever is waited
\* for by a thread or by the keyboard sleeps: a reader in the wait queue is
\* no host of a program, and no two programs wake the same host
\* (condition.c:14-15, processor.c:45-47 and 159-162).
SleepersHaveOneWaker ==
  /\ NoRepeats(waitQueue)
  /\ \A t \in Range(waitQueue) : t \in Threads /\ status[t] = "Sleeping"
  /\ \A u \in Executed : LET h == thread[u].wait
                         IN h \in Threads /\ status[h] = "Sleeping"
                              /\ h \notin Range(waitQueue)
  /\ \A u, v \in Executed : thread[u].wait = thread[v].wait => u = v
  /\ \A t \in Threads : status[t] = "Sleeping" =>
       t \in Range(waitQueue) \/ \E u \in Executed : thread[u].wait = t

\* Readers that were woken and have not looked at the buffer again.
Woken == {t \in Threads : \/ status[t] = "Ready" /\ saved[thread[t].ctx] = "popChar"
                          \/ t = running /\ pc = "popChar"}

\* No wakeup is lost: while a reader waits, every unread character has a
\* woken reader on its way to it (stdin.c:20-45 and condition.c, whose test
\* and wait are two calls), until a dispatch ends in the fault that stops all.
NoLostWakeup ==
  waitQueue # << >> /\ pc # "faultLoop" => buffered <= Cardinality(Woken)

\* A context that can be resumed.
Live(ctx) == ctx \in heap \union Tid /\ saved[ctx] \in {"running", "popChar"}

\* The idle thread never resumes a context that was consumed or that lies on
\* a freed stack, every thread has a kernel stack of its own, and a kernel
\* stack is allocated exactly as long as its thread needs it (the copies of
\* contextAddr in thread.c:344 and 365, switch.S:9 and 45, kfree in
\* thread.c:360).
ContextsLive ==
  /\ pc # "wild"
  /\ \A t \in Threads : ~(busy /\ running = t) => Live(thread[t].ctx)
  /\ pc = "retrieve" /\ occupied[running] => Live(cur.ctx)
  /\ \A t, u \in Threads : t # u =>
       thread[t].kstack # thread[u].kstack /\ thread[t].ctx # thread[u].ctx
  /\ heap = {thread[t].kstack : t \in Threads \union IF busy THEN {running} ELSE {}}

\* The calls the kernel makes are ones the scheduler may be relied upon to
\* answer: no thread is pushed twice, no tick is charged to a thread without
\* time left.
FifoDiscipline == Sched!Spec

\* With one shell at boot (as initThread has it) the system has a single
\* line of programs, of which only the last is awake.
ForegroundOnly ==
  Len(boot.adds) = 1 => Cardinality({t \in Threads : status[t] # "Sleeping"}) <= 1

\* stdin.c:30: a reader that is woken finds a character in the buffer, as
\* long as there is a single line of programs and nobody to take it first.
WokenReaderFindsChar ==
  [][Len(boot.adds) = 1 /\ pc = "acquire" /\ pc' = "popChar" => buffered > 0]_vars

Final == pc \in FinalPc

\* A ready thread gets the hart, whatever the running programs do.
ReadyRuns ==
  \A t \in Tid : t \in Threads /\ status[t] = "Ready"
                    ~> status[t] = "Running" \/ Final

\* The shell comes back to its prompt when the program it executed exits.
HostResumes ==
  \A t \in Tid : pc = "exiting" /\ cur.wait = t
                    ~> (pc = "running" /\ running = t) \/ Final

\* processor.c:139: a thread switched out by the timer goes on from there.
PreemptedGoesOn == pc # "faultLoop"
==============================================================================
