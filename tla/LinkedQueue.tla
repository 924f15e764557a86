----------------------------- MODULE LinkedQueue -----------------------------
(***************************************************************************)
(* kernel/queue.c: a queue as a list of nodes from the heap of the kernel. *)
(* Several queues may take their nodes from the same heap: item, next and  *)
(* heap are common to them, the rest is a queue's own.                     *)
(*                                                                         *)
(* A definition named ..._Slip is its neighbour below with one plausible   *)
(* mistake in it, to show that the properties notice the mistake.          *)
(***************************************************************************)
EXTENDS Integers, Sequences

CONSTANTS Node,  \* nodes the heap has room for
          Null   \* address 0

VARIABLES head, tail,  \* Queue
          item, next,  \* the fields of the nodes
          heap,        \* nodes that are allocated
          contents     \* history: what the queue holds, first in front

(* isEmpty.                                                                *)
IsEmpty == head = tail /\ head = Null

\* kalloc, which clears the node, and the assignment to item.
NewNode(n, data) ==
  /\ n \in Node \ heap
  /\ heap' = heap \union {n}
  /\ item' = [item EXCEPT ![n] = data]

PushBack(data) ==
  \E n \in Node :
    /\ NewNode(n, data)
    /\ contents' = Append(contents, data)
    /\ IF IsEmpty
       THEN head' = n /\ tail' = n /\ next' = [next EXCEPT ![n] = Null]
       ELSE /\ next' = [next EXCEPT ![n] = Null, ![tail] = n]
            /\ tail' = n /\ UNCHANGED head

\* The value popFront returns.
Front == item[head]

\* tail stays when the last node goes.
PopFront_Slip ==
  /\ head # Null
  /\ head' = next[head] /\ UNCHANGED tail
  /\ heap' = heap \ {head}
  /\ contents' = Tail(contents)
  /\ UNCHANGED <<item, next>>

\* popFront of a queue that is not empty, as its callers have made sure.
PopFront ==
  /\ head # Null
  /\ IF head = tail
     THEN head' = Null /\ tail' = Null
     ELSE head' = next[head] /\ UNCHANGED tail
  /\ heap' = heap \ {head}
  /\ contents' = Tail(contents)
  /\ UNCHANGED <<item, next>>
------------------------------------------------------------------------------
\* The nodes of the list in order, if it is one: as many different nodes as
\* there are values, all of them allocated, linked from head to tail, and each
\* with its value.
Lists ==
  {list \in [1 .. Len(contents) -> heap] :
     /\ contents = << >> => head = Null /\ tail = Null
     /\ contents # << >> => head = list[1] /\ tail = list[Len(contents)]
     /\ \A i, j \in 1 .. Len(contents) : list[i] = list[j] => i = j
     /\ \A i \in 1 .. Len(contents) - 1 : next[list[i]] = list[i + 1]
     /\ \A i \in 1 .. Len(contents) : item[list[i]] = contents[i]}
==============================================================================
