------------------------------- MODULE Console -------------------------------
(***************************************************************************)
(* From the keyboard to the program in the foreground: the external        *)
(* interrupt (interrupt.c), the two linked queues of stdin.c and           *)
(* condition.c (LinkedQueue.tla) on one heap, sysRead and getc, the shell  *)
(* (Shell.tla) and the program it has executed.  Kernel.tla counts         *)
(* characters and has all the threads; this module has one line of         *)
(* programs, and tells characters apart.                                   *)
(*                                                                         *)
(* The handler of the interrupt is two steps: it pushes the character,     *)
(* then notifies.  Nothing interrupts it (Trap.tla), and popChar is not    *)
(* interrupted between its test and what follows.                          *)
(***************************************************************************)
EXTENDS Shell

CONSTANTS Node, Null  \* of LinkedQueue

VARIABLES
  bufHead, bufTail, pending,    \* STDIN.buf, and the characters in it
  waitHead, waitTail, waiting,  \* STDIN.pushed, and the threads in it, by program
  item, next, heap,             \* the nodes of both
  foreground,                   \* the program that is not waiting for another
  pc                            \* "open", "notify", "asleep" or "panicked"

bufVars == <<bufHead, bufTail, pending>>
waitVars == <<waitHead, waitTail, waiting>>
vars == <<shellVars, bufVars, waitVars, item, next, heap, foreground, pc>>

Buf == INSTANCE LinkedQueue WITH head <- bufHead, tail <- bufTail, contents <- pending
Pushed == INSTANCE LinkedQueue WITH head <- waitHead, tail <- waitTail, contents <- waiting

Key == Char \union Control  \* what consoleGetchar may return

ASSUME ConsoleAssumption == Null \notin Node

Init ==
  /\ ShellInit
  /\ bufHead = Null /\ bufTail = Null /\ pending = << >>
  /\ waitHead = Null /\ waitTail = Null /\ waiting = << >>
  /\ item = [n \in Node |-> Nul] /\ next = [n \in Node |-> Null] /\ heap = {}
  /\ foreground = "sh" /\ pc = "open"

\* What a key stands for: external turns CR into LF.
Input(key) == IF key = "CR" THEN "LF" ELSE key

\* external and pushChar, up to notifyCondition.
ExternalChar(key) ==
  /\ pc \in {"open", "asleep"}
  /\ Buf!PushBack(Input(key))
  /\ pc' = "notify"
  /\ UNCHANGED <<shellVars, waitVars, foreground>>

\* notifyCondition: the reader goes on with another round in popChar.
NotifyCondition ==
  /\ pc = "notify"
  /\ IF Pushed!IsEmpty THEN UNCHANGED <<waitVars, item, next, heap>> ELSE Pushed!PopFront
  /\ pc' = "open"
  /\ UNCHANGED <<shellVars, bufVars, foreground>>

\* popChar finds nothing: waitCondition.
WaitCondition ==
  /\ pc = "open" /\ foreground # "hello"
  /\ Buf!IsEmpty
  /\ Pushed!PushBack(foreground)
  /\ pc' = "asleep"
  /\ UNCHANGED <<shellVars, bufVars, foreground>>

\* The shell gets a character.  What it executes may be no program.
ShellReads ==
  /\ pc = "open" /\ foreground = "sh" /\ ~Buf!IsEmpty
  /\ Handle(Buf!Front)
  /\ foreground' \in IF Buf!Front \in {"LF", "CR"} /\ ~IsBlank
                     THEN {"sh", "echo", "hello"} ELSE {"sh"}
  /\ Buf!PopFront
  /\ UNCHANGED <<waitVars, pc>>

\* echo gets one, for ever.
EchoReads ==
  /\ pc = "open" /\ foreground = "echo" /\ ~Buf!IsEmpty
  /\ Buf!PopFront
  /\ UNCHANGED <<shellVars, waitVars, foreground, pc>>

\* hello ends without reading, and the shell goes on.
HelloExits ==
  /\ pc = "open" /\ foreground = "hello"
  /\ foreground' = "sh"
  /\ UNCHANGED <<shellVars, bufVars, waitVars, item, next, heap, pc>>

\* kalloc panics when there is no node for a character or a reader.
HeapFull ==
  /\ heap = Node
  /\ pc \in {"open", "asleep"}
  /\ pc' = "panicked"
  /\ UNCHANGED <<shellVars, bufVars, waitVars, item, next, heap, foreground>>

Stuck == pc = "panicked" /\ UNCHANGED vars

Next ==
  \/ \E key \in Key : ExternalChar(key)
  \/ NotifyCondition \/ WaitCondition \/ ShellReads \/ EchoReads \/ HelloExits
  \/ HeapFull \/ Stuck

Spec == Init /\ [][Next]_vars
------------------------------------------------------------------------------
\* The two lists hold what was pushed and not popped, in order, on nodes of
\* their own, and every node that is allocated is in one of them: popFront
\* returns the oldest value, takes a node out before it is freed, and frees
\* it once (queue.c:17-26 and 32-43, whose tests compare head and tail).  A
\* reader is in the queue only while it sleeps, with nothing to read.
QueuesLinked ==
  /\ \E chars \in Buf!Lists, readers \in Pushed!Lists :
       /\ heap = Range(chars) \union Range(readers)
       /\ Range(chars) \intersect Range(readers) = {}
  /\ pc = "open" => Pushed!IsEmpty
  /\ pc = "asleep" => Buf!IsEmpty /\ waiting = <<foreground>>
==============================================================================
