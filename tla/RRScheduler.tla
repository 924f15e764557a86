----------------------------- MODULE RRScheduler -----------------------------
(***************************************************************************)
(* kernel/rrscheduler.c: the ready queue as a doubly linked ring threaded  *)
(* through an array.  Thread t lives at index t + 1; index 0 is the dummy  *)
(* head, whose next is the oldest queued thread and whose prev the newest. *)
(* The fields of RRInfo are functions of the index (valid is written and   *)
(* never read, and is left out).  `queue' is a history variable: the       *)
(* threads pushed and not yet popped, which the ring has to represent.     *)
(*                                                                         *)
(* A definition named ..._Slip is its neighbour below with one plausible   *)
(* mistake in it, to show that the properties notice the mistake.          *)
(***************************************************************************)
EXTENDS Integers, Sequences, Functions

CONSTANTS MaxThread,  \* MAX_THREAD
          MaxTime,    \* rrScheduler.maxTime
          TimeMod     \* usize arithmetic wraps here

ASSUME RRAssumption ==
  /\ MaxThread \in Nat \ {0}
  /\ MaxTime \in Nat \ {0}
  /\ TimeMod \in Nat
  /\ MaxTime < TimeMod

Tid == 0 .. MaxThread - 1
Index == 0 .. MaxThread
Dummy == 0

VARIABLES time,     \* remaining ticks, by index
          prev,     \* backward links
          next,     \* forward links
          current,  \* index of the thread popped last, 0 when there is none
          ret,      \* what the last pop or tick returned
          queue     \* history: the threads pushed and not yet popped

vars == <<time, prev, next, current, ret, queue>>
------------------------------------------------------------------------------
\* schedulerInit resets index 0; the other indices are zero in .bss.
SchedulerInit ==
  /\ time = [i \in Index |-> 0]
  /\ prev = [i \in Index |-> Dummy]
  /\ next = [i \in Index |-> Dummy]
  /\ current = 0
  /\ ret = 0
  /\ queue = << >>

\* A fresh slice is added to what is left of the old one.
SchedulerPush_RefillSlip(t) ==
  LET i == t + 1
      tail == prev[Dummy]
  IN /\ time' = [time EXCEPT ![i] = @ + MaxTime]
     /\ next' = [next EXCEPT ![tail] = i, ![i] = Dummy]
     /\ prev' = [prev EXCEPT ![i] = tail, ![Dummy] = i]
     /\ queue' = Append(queue, t)
     /\ UNCHANGED <<current, ret>>

\* Callers pass tids of the pool, below MAX_THREAD, so the range panic of
\* the function is out of reach.
SchedulerPush(t) ==
  LET i == t + 1
      tail == prev[Dummy]
  IN /\ time' = [time EXCEPT ![i] = IF @ = 0 THEN MaxTime ELSE @]
     /\ next' = [next EXCEPT ![tail] = i, ![i] = Dummy]
     /\ prev' = [prev EXCEPT ![i] = tail, ![Dummy] = i]
     /\ queue' = Append(queue, t)
     /\ UNCHANGED <<current, ret>>

\* The successor of the popped node keeps its backward link.
SchedulerPop_RelinkSlip ==
  LET i == next[Dummy]
  IN /\ i # Dummy
     /\ prev' = [prev EXCEPT ![i] = Dummy]
     /\ next' = [next EXCEPT ![prev[i]] = next[i], ![i] = Dummy]
     /\ current' = i
     /\ ret' = i - 1
     /\ queue' = Tail(queue)
     /\ UNCHANGED time

\* The popped node keeps its own links.
SchedulerPop_ClearSlip ==
  LET i == next[Dummy]
  IN /\ i # Dummy
     /\ prev' = [prev EXCEPT ![next[i]] = prev[i]]
     /\ next' = [next EXCEPT ![prev[i]] = next[i]]
     /\ current' = i
     /\ ret' = i - 1
     /\ queue' = Tail(queue)
     /\ UNCHANGED time

\* The node before the dummy head, the newest, is taken.
SchedulerPop_EndSlip ==
  LET i == prev[Dummy]
  IN /\ i # Dummy
     /\ prev' = [prev EXCEPT ![next[i]] = prev[i], ![i] = Dummy]
     /\ next' = [next EXCEPT ![prev[i]] = next[i], ![i] = Dummy]
     /\ current' = i
     /\ ret' = i - 1
     /\ queue' = SelectSeq(queue, LAMBDA t : t # i - 1)
     /\ UNCHANGED time

\* Unlink the node behind the dummy head.
SchedulerPop ==
  LET i == next[Dummy]
  IN /\ i # Dummy
     /\ prev' = [prev EXCEPT ![next[i]] = prev[i], ![i] = Dummy]
     /\ next' = [next EXCEPT ![prev[i]] = next[i], ![i] = Dummy]
     /\ current' = i
     /\ ret' = i - 1
     /\ queue' = Tail(queue)
     /\ UNCHANGED time

\* The dummy head points at itself: nothing to run.
SchedulerPopEmpty ==
  /\ next[Dummy] = Dummy
  /\ ret' = Dummy - 1
  /\ UNCHANGED <<time, prev, next, current, queue>>

\* The slice is compared before it is decremented.
SchedulerTick_Slip ==
  /\ time' = IF current = 0 THEN time
             ELSE [time EXCEPT ![current] = (@ - 1) % TimeMod]
  /\ ret' = IF current = 0 \/ time[current] = 0 THEN 1 ELSE 0
  /\ UNCHANGED <<prev, next, current, queue>>

SchedulerTick ==
  /\ time' = IF current = 0 THEN time
             ELSE [time EXCEPT ![current] = (@ - 1) % TimeMod]
  /\ ret' = IF current = 0 \/ time'[current] = 0 THEN 1 ELSE 0
  /\ UNCHANGED <<prev, next, current, queue>>

SchedulerExit(t) ==
  /\ current' = IF current = t + 1 THEN 0 ELSE current
  /\ UNCHANGED <<time, prev, next, ret, queue>>

\* The calling discipline of FifoScheduler, which Kernel.tla respects.
Next ==
  \/ \E t \in Tid : t \notin Range(queue) /\ SchedulerPush(t)
  \/ SchedulerPop
  \/ SchedulerPopEmpty
  \/ /\ current # 0 => current - 1 \notin Range(queue) /\ time[current] > 0
     /\ SchedulerTick
  \/ \E t \in Tid : SchedulerExit(t)

Spec == SchedulerInit /\ [][Next]_vars
------------------------------------------------------------------------------
\* Indices and links stay in the array, and no slice ever exceeds maxTime:
\* an unsigned slice that went below zero would.
TypeOK ==
  /\ time \in [Index -> 0 .. MaxTime]
  /\ prev \in [Index -> Index]
  /\ next \in [Index -> Index]
  /\ current \in Index
  /\ ret \in -1 .. MaxThread
  /\ queue \in Seq(Tid)

\* The array index of the k-th oldest queued thread; the dummy head stands
\* before the first and behind the last.
Node(k) == IF k \in 1 .. Len(queue) THEN queue[k] + 1 ELSE Dummy

\* No thread is in the queue twice.
Distinct == \A j, k \in 1 .. Len(queue) : queue[j] = queue[k] => j = k

\* The ring is the queue: following next from the dummy head meets the
\* queued threads oldest first and returns to the dummy head, following
\* prev meets them newest first (the relinking of schedulerPush and
\* schedulerPop, rrscheduler.c:52-59 and 67-75).
Linked ==
  /\ Distinct
  /\ \A k \in 0 .. Len(queue) : /\ next[Node(k)] = Node(k + 1)
                                /\ prev[Node(k + 1)] = Node(k)

\* A thread that is not queued keeps no link into the ring: its links were
\* cleared when it was popped (rrscheduler.c:74-75), so that no later push
\* or pop can follow a stale one.
NoStaleLinks ==
  \A i \in Index \ {Dummy} :
    i - 1 \notin Range(queue) => next[i] = Dummy /\ prev[i] = Dummy

\* The ring implements the first-in first-out scheduler with slices.
Fifo == INSTANCE FifoScheduler
          WITH slice <- [t \in Tid |-> time[t + 1]],
               current <- current - 1

\* Every call on the ring is a call on the abstract queue: pop returns the
\* thread that waited longest, and no thread is lost or duplicated.
FifoSpec == Fifo!Spec

\* What the callers read is what the abstract scheduler says: pop hands out
\* the oldest thread, and tick asks for a switch exactly when the slice of
\* the current thread runs out (rrscheduler.c:79 and 90-95).
CallResults ==
  [][/\ Len(queue') < Len(queue) => ret' = Head(queue)
     /\ time' # time /\ queue' = queue => (ret' = 1 <=> Fifo!Expired)]_vars
==============================================================================
