-------------------------------- MODULE Shell --------------------------------
(***************************************************************************)
(* user/sh.c: the shell edits a line in a buffer of 256 bytes and executes *)
(* it.  Each round of its loop handles one character from getc: Handle.    *)
(* Where the characters come from is in Console.tla.  The buffer is a      *)
(* local variable without a value; the interrupt handler works on the      *)
(* stack of the program (interrupt.S:40), so that a timer tick before main *)
(* begins leaves anything in it.                                           *)
(*                                                                         *)
(* A definition named ..._Slip is its neighbour below with one plausible   *)
(* mistake in it, to show that the properties notice the mistake.          *)
(***************************************************************************)
EXTENDS Integers, SequencesExt

CONSTANTS Size,        \* 256, the bytes of line
          Letter,      \* characters that are neither blank nor handled by main
          StackLines   \* bound: what line may hold when main begins

Nul == "nul"
Blank == "blank"
Char == Letter \union {Nul, Blank}
Control == {"LF", "CR", "DL"}

ASSUME ShellAssumption ==
  /\ Size \in Nat /\ Size > 1 /\ ({Nul, Blank} \union Control) \intersect Letter = {}
  /\ StackLines \subseteq [0 .. Size - 1 -> Char]

Cleared == [i \in 0 .. Size - 1 |-> Nul]

VARIABLES line, lineCount,
          executed,  \* argument of sys_exec, <<>> if the last character led to none
          typed,     \* history: what is typed and still there on this line
          carried,   \* history: the same for the lines above, all not executed
          clean      \* history: line was cleared, by the build or by the shell

shellVars == <<line, lineCount, executed, typed, carried, clean>>

\* The text before the first Nul, as a string ends there; all of it if there
\* is none.
UpToNul(text) ==
  LET stop == SelectInSeq(text, LAMBDA c : c = Nul)
  IN  IF stop = 0 THEN text ELSE SubSeq(text, 1, stop - 1)

String == UpToNul([i \in 1 .. Size |-> line[i - 1]])

\* isEmpty of sh.c: nothing but blanks before the first Nul.
IsBlank == \A i \in DOMAIN String : String[i] = Blank
------------------------------------------------------------------------------
ShellInit ==
  /\ line \in StackLines /\ lineCount = 0
  /\ executed = <<>> /\ typed = <<>> /\ carried = <<>>
  /\ clean = (line = Cleared)

\* LF or CR on a line that is blank: only a new prompt.
NewPrompt ==
  /\ IsBlank
  /\ carried' = carried \o typed /\ typed' = <<>>
  /\ executed' = <<>>
  /\ UNCHANGED <<line, lineCount, clean>>

\* The line is executed but not cleared.
Execute_Slip ==
  /\ ~IsBlank
  /\ executed' = String
  /\ lineCount' = 0
  /\ typed' = <<>> /\ carried' = <<>>
  /\ UNCHANGED <<line, clean>>

\* LF or CR on any other line; sys_exec returns when the program has ended.
Execute ==
  /\ ~IsBlank
  /\ executed' = String
  /\ lineCount' = 0 /\ line' = Cleared
  /\ typed' = <<>> /\ carried' = <<>> /\ clean' = TRUE

\* DL takes the last character back, from a line above if this one has none.
Delete ==
  /\ lineCount > 0
  /\ line' = [line EXCEPT ![lineCount - 1] = Nul]
  /\ lineCount' = lineCount - 1
  /\ IF typed # <<>>
     THEN typed' = Front(typed) /\ UNCHANGED carried
     ELSE carried' = Front(carried) /\ UNCHANGED typed
  /\ executed' = <<>>
  /\ UNCHANGED clean

\* The last byte is used for a character too.
Insert_Slip(c) ==
  /\ lineCount < Size
  /\ line' = [line EXCEPT ![lineCount] = c]
  /\ lineCount' = lineCount + 1
  /\ typed' = Append(typed, c)
  /\ executed' = <<>>
  /\ UNCHANGED <<carried, clean>>

\* Any other character, as long as there is room.
Insert(c) ==
  /\ lineCount < Size - 1
  /\ line' = [line EXCEPT ![lineCount] = c]
  /\ lineCount' = lineCount + 1
  /\ typed' = Append(typed, c)
  /\ executed' = <<>>
  /\ UNCHANGED <<carried, clean>>

\* DL on an empty line and a character on a full one.
Ignored(c) ==
  /\ \/ c = "DL" /\ lineCount = 0
     \/ c \in Char /\ lineCount = Size - 1
  /\ executed' = <<>>
  /\ UNCHANGED <<line, lineCount, typed, carried, clean>>

Handle(c) ==
  \/ c \in {"LF", "CR"} /\ NewPrompt
  \/ c \in {"LF", "CR"} /\ Execute
  \/ c = "DL" /\ Delete
  \/ c \in Char /\ Insert(c)
  \/ Ignored(c)
------------------------------------------------------------------------------
\* A buffer that was clean holds what was typed, blank lines included, and
\* nothing behind it, whatever was deleted, dropped or executed: it is a
\* string at every moment (sh.c:42 does not initialise it, sh.c:55 does not
\* clear it after a blank line).
LineHolds ==
  /\ lineCount < Size
  /\ clean => \A i \in 0 .. Size - 1 :
                line[i] = IF i < lineCount THEN (carried \o typed)[i + 1] ELSE Nul

\* What is executed is what was typed since the last command, up to a Nul,
\* and never nothing or a blank line.
ExecutesTyped ==
  [][clean /\ executed' \notin {executed, <<>>} =>
       /\ executed' = UpToNul(carried \o typed)
       /\ \E i \in DOMAIN executed' : executed'[i] # Blank]_shellVars
==============================================================================
