---------------------------- MODULE FifoScheduler ----------------------------
(***************************************************************************)
(* What the five scheduler entry points of thread.h (init, push, pop,      *)
(* tick, exit) promise to their caller: a first-in first-out queue of      *)
(* thread identifiers with a time slice each.  RRScheduler.tla is the      *)
(* linked ring of rrscheduler.c that has to keep this promise; Kernel.tla  *)
(* uses it and has to respect the calling discipline stated in Next.       *)
(***************************************************************************)
EXTENDS Integers, Sequences, Functions

CONSTANTS MaxThread,  \* MAX_THREAD: slots of the thread pool
          MaxTime,    \* rrScheduler.maxTime: ticks in a time slice
          TimeMod     \* 2^64 in the code: usize arithmetic of a slice wraps here

Tid == 0 .. MaxThread - 1
NoTid == -1

VARIABLES queue,    \* threads in the order they were pushed
          slice,    \* remaining ticks of every thread
          current   \* the thread popped last, NoTid once it has exited

schedulerVars == <<queue, slice, current>>
------------------------------------------------------------------------------
Init ==
  /\ queue = << >>
  /\ slice = [t \in Tid |-> 0]
  /\ current = NoTid

\* A mistaken variant, for comparison: a used-up slice is not refilled.
Push_Slip(t) == queue' = Append(queue, t) /\ UNCHANGED slice

\* A thread joins the tail; only a used-up slice is refilled.
Push(t) ==
  /\ queue' = Append(queue, t)
  /\ slice' = [slice EXCEPT ![t] = IF @ = 0 THEN MaxTime ELSE @]

\* The head leaves and becomes current.
Pop ==
  /\ queue # << >>
  /\ queue' = Tail(queue)
  /\ current' = Head(queue)

\* The current thread has used one more tick of its slice.
Tick == slice' = IF current = NoTid
                 THEN slice
                 ELSE [slice EXCEPT ![current] = (@ - 1) % TimeMod]

\* What Tick returns: whether the current thread must leave the processor.
Expired == current = NoTid \/ slice[current] = 1

\* Thread t has ended.
Exit(t) == current' = IF current = t THEN NoTid ELSE current
------------------------------------------------------------------------------
(***************************************************************************)
(* The calling discipline: a thread is pushed only while it is not queued, *)
(* ticks are counted only against a thread that is off the queue and has   *)
(* time left, and only the current thread exits.                           *)
(***************************************************************************)
Next ==
  \/ \E t \in Tid : t \notin Range(queue) /\ Push(t) /\ UNCHANGED current
  \/ Pop /\ UNCHANGED slice
  \/ /\ current # NoTid
     /\ current \notin Range(queue)
     /\ slice[current] > 0
     /\ Tick
     /\ UNCHANGED <<queue, current>>
  \/ current # NoTid /\ Exit(current) /\ UNCHANGED <<queue, slice>>

Spec == Init /\ [][Next]_schedulerVars
==============================================================================
