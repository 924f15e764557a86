---------------------------- MODULE ConsoleProofs ----------------------------
(***************************************************************************)
(* Proofs about Console: the line of the shell is what was typed, for      *)
(* every size of the buffer, every set of letters and whatever else reads  *)
(* from the same queue; the two linked queues keep to their lists; and the *)
(* commands that run are the lines that were typed.                        *)
(***************************************************************************)
EXTENDS Console, SequenceTheorems, WellFoundedInduction, TLAPS

\* The histories are texts that fit into the line.
LineTyped ==
  /\ line \in [0 .. Size - 1 -> Char]
  /\ lineCount \in 0 .. Size - 1
  /\ typed \in Seq(Char) /\ carried \in Seq(Char)
  /\ Len(carried) + Len(typed) = lineCount

\* Inductive: what is behind the text has to be 0 for a character that is
\* deleted or inserted to be the last one.
Inv == LineTyped /\ LineHolds

\* A character at the end of a text, and one taken away there.
LEMMA ConcatAt ==
  ASSUME NEW S, NEW s \in Seq(S), NEW t \in Seq(S)
  PROVE  /\ s \o t \in Seq(S) /\ Len(s \o t) = Len(s) + Len(t)
         /\ \A i \in 1 .. Len(s) + Len(t) :
              (s \o t)[i] = IF i <= Len(s) THEN s[i] ELSE t[i - Len(s)]
OBVIOUS

LEMMA FrontAt ==
  ASSUME NEW S, NEW s \in Seq(S), s # <<>>
  PROVE  /\ Front(s) \in Seq(S) /\ Len(Front(s)) = Len(s) - 1
         /\ \A i \in 1 .. Len(s) - 1 : Front(s)[i] = s[i]
<1>1. Len(s) \in Nat /\ Len(s) > 0
  OBVIOUS
<1>2. \A n \in 0 .. Len(s) : /\ SubSeq(s, 1, n) \in Seq(S) /\ Len(SubSeq(s, 1, n)) = n
                            /\ \A i \in 1 .. n : SubSeq(s, 1, n)[i] = s[i]
  OBVIOUS
<1>3. Front(s) = SubSeq(s, 1, Len(s) - 1) /\ Len(s) - 1 \in 0 .. Len(s)
  BY <1>1 DEF Front
<1> QED  BY <1>2, <1>3

LEMMA ShellInitHolds ==
  ASSUME ShellInit
  PROVE  Inv
<1>1. LineTyped
  BY ShellAssumption DEF ShellInit, LineTyped
<1>2. LineHolds
  <2>1. \A i \in 0 .. Size - 1 : ~(i < lineCount)
    BY ShellAssumption DEF ShellInit
  <2>2. ASSUME clean
        PROVE  \A i \in 0 .. Size - 1 : line[i] = Nul
    BY <2>2 DEF ShellInit, Cleared
  <2>3. lineCount < Size
    BY ShellAssumption DEF ShellInit
  <2> QED  BY <2>1, <2>2, <2>3 DEF LineHolds
<1> QED  BY <1>1, <1>2 DEF Inv

LEMMA NewPromptKeeps ==
  ASSUME Inv, NewPrompt
  PROVE  Inv'
<1>1. /\ carried' \in Seq(Char) /\ Len(carried') = Len(carried) + Len(typed)
      /\ typed' = <<>> /\ carried' \o typed' = carried \o typed
  BY ConcatAt DEF Inv, LineTyped, NewPrompt
<1>2. LineTyped'
  BY <1>1 DEF Inv, LineTyped, NewPrompt
<1>3. LineHolds'
  BY <1>1 DEF Inv, LineHolds, NewPrompt
<1> QED  BY <1>2, <1>3 DEF Inv

LEMMA ExecuteKeeps ==
  ASSUME Inv, Execute
  PROVE  Inv'
<1>1. LineTyped'
  BY ShellAssumption DEF Inv, LineTyped, Execute, Cleared, Char
<1>2. LineHolds'
  BY ShellAssumption DEF Inv, LineHolds, Execute, Cleared
<1> QED  BY <1>1, <1>2 DEF Inv

LEMMA InsertKeeps ==
  ASSUME Inv, NEW c \in Char, Insert(c)
  PROVE  Inv'
<1> USE ShellAssumption
<1> DEFINE text == carried \o typed
<1>1. /\ typed' \in Seq(Char) /\ Len(typed') = Len(typed) + 1
      /\ carried' = carried /\ lineCount' = lineCount + 1
      /\ line' = [line EXCEPT ![lineCount] = c]
  BY DEF Inv, LineTyped, Insert
<1>2. LineTyped'
  BY <1>1 DEF Inv, LineTyped, Insert
<1>3. \A i \in 1 .. lineCount + 1 :
        (carried' \o typed')[i] = IF i <= lineCount THEN text[i] ELSE c
  BY <1>1, ConcatAt DEF Inv, LineTyped, Insert
<1>4. ASSUME clean'
      PROVE  \A i \in 0 .. Size - 1 :
               line'[i] = IF i < lineCount' THEN (carried' \o typed')[i + 1] ELSE Nul
  <2>1. \A i \in 0 .. Size - 1 : line[i] = IF i < lineCount THEN text[i + 1] ELSE Nul
    BY <1>4 DEF Inv, LineHolds, Insert
  <2> TAKE i \in 0 .. Size - 1
  <2>2. CASE i = lineCount
    BY <1>1, <1>3, <2>2 DEF Inv, LineTyped
  <2>3. CASE i # lineCount
    <3>1. line'[i] = line[i] /\ (i < lineCount' <=> i < lineCount)
      BY <1>1, <2>3 DEF Inv, LineTyped
    <3>2. i < lineCount => (carried' \o typed')[i + 1] = text[i + 1]
      <4>1. i < lineCount => i + 1 \in 1 .. lineCount + 1 /\ i + 1 <= lineCount
        BY DEF Inv, LineTyped
      <4> QED  BY <1>3, <4>1
    <3> QED  BY <2>1, <3>1, <3>2
  <2> QED  BY <2>2, <2>3
<1>5. LineHolds'
  BY <1>2, <1>4 DEF LineHolds, LineTyped
<1> QED  BY <1>2, <1>5 DEF Inv

LEMMA DeleteKeeps ==
  ASSUME Inv, Delete
  PROVE  Inv'
<1> USE ShellAssumption
<1> DEFINE text == carried \o typed
<1>1. /\ lineCount' = lineCount - 1 /\ lineCount > 0
      /\ line' = [line EXCEPT ![lineCount - 1] = Nul]
  BY DEF Delete
<1>2. /\ typed' \in Seq(Char) /\ carried' \in Seq(Char)
      /\ Len(carried') + Len(typed') = lineCount - 1
      /\ \A i \in 1 .. lineCount - 1 : (carried' \o typed')[i] = text[i]
  <2>1. CASE typed # <<>>
    <3>1. typed' = Front(typed) /\ carried' = carried
      BY <2>1 DEF Delete
    <3>2. typed' \in Seq(Char) /\ Len(typed') = Len(typed) - 1
          /\ \A i \in 1 .. Len(typed) - 1 : typed'[i] = typed[i]
      BY <2>1, <3>1, FrontAt DEF Inv, LineTyped
    <3>3. \A i \in 1 .. lineCount - 1 : (carried' \o typed')[i] = text[i]
      <4> TAKE i \in 1 .. lineCount - 1
      <4>1. text[i] = IF i <= Len(carried) THEN carried[i] ELSE typed[i - Len(carried)]
        BY ConcatAt DEF Inv, LineTyped
      <4>2. (carried' \o typed')[i] = IF i <= Len(carried) THEN carried[i] ELSE typed'[i - Len(carried)]
        BY <3>1, <3>2, ConcatAt DEF Inv, LineTyped
      <4>3. i > Len(carried) => typed'[i - Len(carried)] = typed[i - Len(carried)]
        <5>1. i > Len(carried) => i - Len(carried) \in 1 .. Len(typed) - 1
          BY DEF Inv, LineTyped
        <5> QED  BY <3>2, <5>1
      <4> QED  BY <4>1, <4>2, <4>3
    <3> QED  BY <3>1, <3>2, <3>3 DEF Inv, LineTyped
  <2>2. CASE typed = <<>>
    <3>1. carried' = Front(carried) /\ typed' = typed
      BY <2>2 DEF Delete
    <3>2. carried # <<>>
      BY <2>2, <1>1 DEF Inv, LineTyped
    <3>3. carried' \in Seq(Char) /\ Len(carried') = Len(carried) - 1
          /\ \A i \in 1 .. Len(carried) - 1 : carried'[i] = carried[i]
      BY <3>1, <3>2, FrontAt DEF Inv, LineTyped
    <3> QED  BY <2>2, <3>1, <3>3, ConcatAt DEF Inv, LineTyped
  <2> QED  BY <2>1, <2>2
<1>3. LineTyped'
  BY <1>1, <1>2 DEF Inv, LineTyped, Char
<1>4. ASSUME clean'
      PROVE  \A i \in 0 .. Size - 1 :
               line'[i] = IF i < lineCount' THEN (carried' \o typed')[i + 1] ELSE Nul
  <2>1. \A i \in 0 .. Size - 1 : line[i] = IF i < lineCount THEN text[i + 1] ELSE Nul
    BY <1>4 DEF Inv, LineHolds, Delete
  <2> TAKE i \in 0 .. Size - 1
  <2>2. CASE i = lineCount - 1
    BY <1>1, <2>2 DEF Inv, LineTyped
  <2>3. CASE i # lineCount - 1
    <3>1. line'[i] = line[i] /\ (i < lineCount' <=> i < lineCount)
      BY <1>1, <2>3 DEF Inv, LineTyped
    <3>2. i < lineCount' => (carried' \o typed')[i + 1] = text[i + 1]
      <4>1. i < lineCount' => i + 1 \in 1 .. lineCount - 1
        BY <1>1, <2>3 DEF Inv, LineTyped
      <4> QED  BY <1>2, <4>1
    <3> QED  BY <2>1, <3>1, <3>2
  <2> QED  BY <2>2, <2>3
<1>5. LineHolds'
  BY <1>3, <1>4 DEF LineHolds, LineTyped
<1> QED  BY <1>3, <1>5 DEF Inv

LEMMA UnchangedKeeps ==
  ASSUME Inv, UNCHANGED <<line, lineCount, typed, carried, clean>>
  PROVE  Inv'
BY DEF Inv, LineTyped, LineHolds

LEMMA HandleKeeps ==
  ASSUME Inv, NEW c, Handle(c)
  PROVE  Inv'
<1>1. CASE NewPrompt             BY <1>1, NewPromptKeeps
<1>2. CASE Execute               BY <1>2, ExecuteKeeps
<1>3. CASE Delete                BY <1>3, DeleteKeeps
<1>4. CASE c \in Char /\ Insert(c)  BY <1>4, InsertKeeps
<1>5. CASE Ignored(c)            BY <1>5, UnchangedKeeps DEF Ignored
<1> QED  BY <1>1, <1>2, <1>3, <1>4, <1>5 DEF Handle

LEMMA InvStep ==
  ASSUME Inv, [Next]_vars
  PROVE  Inv'
<1>1. ASSUME NEW key \in Key, ExternalChar(key) PROVE Inv'
  BY <1>1, UnchangedKeeps DEF ExternalChar, shellVars
<1>2. CASE NotifyCondition
  BY <1>2, UnchangedKeeps DEF NotifyCondition, shellVars
<1>3. CASE WaitCondition
  BY <1>3, UnchangedKeeps DEF WaitCondition, shellVars
<1>4. CASE ShellReads
  BY <1>4, HandleKeeps DEF ShellReads
<1>5. CASE EchoReads
  BY <1>5, UnchangedKeeps DEF EchoReads, shellVars
<1>6. CASE HelloExits
  BY <1>6, UnchangedKeeps DEF HelloExits, shellVars
<1>7. CASE HeapFull
  BY <1>7, UnchangedKeeps DEF HeapFull, shellVars
<1>8. CASE UNCHANGED vars
  BY <1>8, UnchangedKeeps DEF vars, shellVars
<1> QED  BY <1>1, <1>2, <1>3, <1>4, <1>5, <1>6, <1>7, <1>8 DEF Next, Stuck

\* A buffer that was clean holds what was typed and nothing behind it, for
\* every size of the buffer (sh.c:42-79).
THEOREM LineIsTyped == Spec => []LineHolds
<1>1. Init => Inv
  BY ShellInitHolds DEF Init
<1>2. Inv /\ [Next]_vars => Inv'
  BY InvStep
<1>3. Inv => LineHolds
  BY DEF Inv
<1> QED  BY <1>1, <1>2, <1>3, PTL DEF Spec
------------------------------------------------------------------------------
(* The two queues.                                                         *)

Program == {"sh", "echo", "hello"}
Item == Key \union Program

\* A queue as a record of its variables, and the definitions of LinkedQueue
\* about it, which are the same for both.
Fields(q) ==
  /\ q.item \in [Node -> Item] /\ q.next \in [Node -> Node \union {Null}]
  /\ q.heap \subseteq Node /\ Null \notin Node /\ q.contents \in Seq(Item)

IsEmpty(q) == q.head = q.tail /\ q.head = Null

ListsOf(q) ==
  {list \in [1 .. Len(q.contents) -> q.heap] :
     /\ q.contents = << >> => q.head = Null /\ q.tail = Null
     /\ q.contents # << >> => q.head = list[1] /\ q.tail = list[Len(q.contents)]
     /\ \A i, j \in 1 .. Len(q.contents) : list[i] = list[j] => i = j
     /\ \A i \in 1 .. Len(q.contents) - 1 : q.next[list[i]] = list[i + 1]
     /\ \A i \in 1 .. Len(q.contents) : q.item[list[i]] = q.contents[i]}

PushBack(n, data, q, r) ==
  /\ n \in Node \ q.heap
  /\ r.heap = q.heap \union {n} /\ r.item = [q.item EXCEPT ![n] = data]
  /\ r.contents = Append(q.contents, data)
  /\ IF IsEmpty(q)
     THEN r.head = n /\ r.tail = n /\ r.next = [q.next EXCEPT ![n] = Null]
     ELSE /\ r.next = [q.next EXCEPT ![n] = Null, ![q.tail] = n]
          /\ r.tail = n /\ r.head = q.head

PopFront(q, r) ==
  /\ q.head # Null
  /\ IF q.head = q.tail
     THEN r.head = Null /\ r.tail = Null
     ELSE r.head = q.next[q.head] /\ r.tail = q.tail
  /\ r.heap = q.heap \ {q.head}
  /\ r.contents = Tail(q.contents) /\ r.item = q.item /\ r.next = q.next

LEMMA ListFacts ==
  ASSUME NEW q, Fields(q), NEW list \in ListsOf(q)
  PROVE  /\ Len(q.contents) \in Nat /\ DOMAIN list = 1 .. Len(q.contents)
         /\ Range(list) = {list[i] : i \in 1 .. Len(q.contents)} /\ Range(list) \subseteq q.heap
         /\ IsEmpty(q) <=> q.contents = << >>
         /\ q.contents = << >> <=> Len(q.contents) = 0
         /\ q.head # Null <=> q.contents # << >>
<1>1. Len(q.contents) \in Nat /\ (q.contents = << >> <=> Len(q.contents) = 0)
  BY EmptySeq, LenProperties DEF Fields
<1>2. DOMAIN list = 1 .. Len(q.contents) /\ \A i \in 1 .. Len(q.contents) : list[i] \in q.heap
  BY DEF ListsOf
<1>3. Range(list) = {list[i] : i \in 1 .. Len(q.contents)} /\ Range(list) \subseteq q.heap
  BY <1>2 DEF Range
<1>4. q.contents # << >> => q.head # Null
  <2> SUFFICES ASSUME q.contents # << >> PROVE q.head # Null
    OBVIOUS
  <2>1. 1 \in 1 .. Len(q.contents) /\ q.head = list[1]
    BY <1>1 DEF ListsOf
  <2> QED
    BY <1>2, <2>1 DEF Fields
<1>5. q.contents = << >> => q.head = Null /\ q.tail = Null
  BY DEF ListsOf
<1> QED
  BY <1>1, <1>2, <1>3, <1>4, <1>5 DEF IsEmpty

\* A list on nodes that nobody touches.
LEMMA OtherKeeps ==
  ASSUME NEW q, NEW r, NEW list \in ListsOf(q),
         r.head = q.head, r.tail = q.tail, r.contents = q.contents,
         \A n \in Range(list) : n \in r.heap /\ r.item[n] = q.item[n] /\ r.next[n] = q.next[n]
  PROVE  list \in ListsOf(r)
<1>1. list \in [1 .. Len(q.contents) -> q.heap] /\ \A i \in 1 .. Len(q.contents) : list[i] \in Range(list)
  BY DEF ListsOf, Range
<1>2. list \in [1 .. Len(r.contents) -> r.heap]
  BY <1>1
<1>3. \A i \in 1 .. Len(q.contents) - 1 : i \in 1 .. Len(q.contents)
  OBVIOUS
<1>4. /\ \A i \in 1 .. Len(r.contents) - 1 : r.next[list[i]] = list[i + 1]
      /\ \A i \in 1 .. Len(r.contents) : r.item[list[i]] = r.contents[i]
  BY <1>1, <1>3 DEF ListsOf
<1>5. /\ r.contents = << >> => r.head = Null /\ r.tail = Null
      /\ r.contents # << >> => r.head = list[1] /\ r.tail = list[Len(r.contents)]
      /\ \A i, j \in 1 .. Len(r.contents) : list[i] = list[j] => i = j
  BY DEF ListsOf
<1> QED
  BY <1>2, <1>4, <1>5 DEF ListsOf

\* list with node n behind it; nothing else of the nodes has changed.
Longer(longer, list, n, q, r) ==
  /\ Range(longer) = Range(list) \union {n}
  /\ \A m \in Node : m # n /\ m \notin Range(list) => r.item[m] = q.item[m] /\ r.next[m] = q.next[m]

\* A push links a node that was free behind the last one.
LEMMA PushKeeps ==
  ASSUME NEW q, NEW r, Fields(q), NEW list \in ListsOf(q), NEW data \in Item, NEW n, PushBack(n, data, q, r)
  PROVE  /\ Fields(r)
         /\ \E longer \in ListsOf(r) : Longer(longer, list, n, q, r)
<1> DEFINE k == Len(q.contents)
           longer == [i \in 1 .. k + 1 |-> IF i = k + 1 THEN n ELSE list[i]]
<1>1. /\ n \in Node /\ n \notin q.heap /\ r.heap = q.heap \union {n} /\ r.item = [q.item EXCEPT ![n] = data]
      /\ k \in Nat /\ (IsEmpty(q) <=> k = 0) /\ (k = 0 <=> q.contents = << >>)
  BY ListFacts DEF PushBack
<1>2. /\ r.contents \in Seq(Item) /\ Len(r.contents) = k + 1 /\ r.contents # << >>
      /\ r.contents[k + 1] = data /\ \A i \in 1 .. k : r.contents[i] = q.contents[i]
  BY AppendProperties, EmptySeq DEF Fields, PushBack
<1>3. list \in [1 .. k -> q.heap] /\ \A i \in 1 .. k : list[i] \in Node /\ list[i] # n
  BY <1>1 DEF ListsOf, Fields
<1>4. k # 0 => q.tail = list[k] /\ q.head = list[1] /\ q.tail \in Node /\ q.tail # n /\ k \in 1 .. k
  BY <1>1, <1>3 DEF ListsOf
<1>5. Fields(r)
  BY <1>1, <1>2, <1>4 DEF Fields, PushBack
<1> HIDE DEF k
<1>6. /\ longer \in [1 .. k + 1 -> r.heap] /\ longer[k + 1] = n
      /\ \A i \in 1 .. k : longer[i] = list[i]
      /\ DOMAIN longer = 1 .. k + 1
  BY <1>1, <1>3
<1> HIDE DEF longer
<1>7. \A i, j \in 1 .. k + 1 : longer[i] = longer[j] => i = j
  <2>1. \A i \in 1 .. k + 1 : i = k + 1 \/ i \in 1 .. k
    BY <1>1
  <2>2. \A i, j \in 1 .. k : list[i] = list[j] => i = j
    BY DEF ListsOf, k
  <2> QED
    BY <1>3, <1>6, <2>1, <2>2
<1>8. r.head = longer[1] /\ r.tail = longer[k + 1]
  BY <1>1, <1>4, <1>6 DEF PushBack
<1>9. \A i \in 1 .. k : r.item[longer[i]] = r.contents[i]
  BY <1>1, <1>2, <1>3, <1>6 DEF ListsOf, Fields, k
<1>10. r.item[longer[k + 1]] = r.contents[k + 1]
  BY <1>1, <1>2, <1>6 DEF Fields
<1>11. ASSUME NEW i \in 1 .. k
       PROVE  r.next[longer[i]] = longer[i + 1]
  <2>1. ~IsEmpty(q) /\ r.next = [q.next EXCEPT ![n] = Null, ![q.tail] = n] /\ q.tail = list[k] /\ k \in 1 .. k
    BY <1>1, <1>4 DEF PushBack
  <2>2. CASE i = k
    BY <1>3, <1>4, <1>6, <2>1, <2>2 DEF Fields
  <2>3. CASE i # k
    <3>1. i \in 1 .. k - 1 /\ i + 1 \in 1 .. k
      BY <1>1, <2>3
    <3>2. list[i] # q.tail /\ q.next[list[i]] = list[i + 1]
      BY <2>1, <2>3, <3>1 DEF ListsOf, k
    <3>3. r.next[list[i]] = q.next[list[i]]
      BY <1>3, <2>1, <3>2 DEF Fields
    <3> QED
      BY <1>6, <3>1, <3>2, <3>3
  <2> QED
    BY <2>2, <2>3
<1>12. longer \in ListsOf(r)
  <2>1. \A i \in 1 .. k + 1 : i = k + 1 \/ i \in 1 .. k
    BY <1>1
  <2>2. \A i \in 1 .. k + 1 : r.item[longer[i]] = r.contents[i]
    BY ONLY <1>9, <1>10, <2>1
  <2>3. 1 .. Len(r.contents) - 1 = 1 .. k /\ 1 .. Len(r.contents) = 1 .. k + 1
    BY <1>1, <1>2
  <2>4. \A i \in 1 .. Len(r.contents) - 1 : r.next[longer[i]] = longer[i + 1]
    BY <1>11, <2>3
  <2> QED
    BY ONLY <1>2, <1>6, <1>7, <1>8, <2>2, <2>3, <2>4 DEF ListsOf
<1>13. Range(longer) = Range(list) \union {n}
  <2>1. Range(list) = {list[i] : i \in 1 .. k} /\ Range(longer) = {longer[i] : i \in 1 .. k + 1}
    BY <1>3, <1>6 DEF Range
  <2>2. 1 .. k + 1 = (1 .. k) \union {k + 1}
    BY <1>1
  <2> QED
    BY <1>6, <2>1, <2>2
<1>14. \A m \in Node : m # n /\ m \notin Range(list) => r.item[m] = q.item[m] /\ r.next[m] = q.next[m]
  <2>1. k # 0 => q.tail \in Range(list)
    BY <1>3, <1>4 DEF Range
  <2> QED
    BY <1>1, <2>1 DEF Fields, PushBack
<1> QED
  BY <1>5, <1>12, <1>13, <1>14 DEF Longer

\* A pop gives back the first node, and nothing else changes.
LEMMA PopKeeps ==
  ASSUME NEW q, NEW r, Fields(q), NEW list \in ListsOf(q), PopFront(q, r)
  PROVE  /\ Fields(r) /\ q.contents # << >>
         /\ q.item[q.head] = Head(q.contents) /\ q.head \in Range(list)
         /\ \E shorter \in ListsOf(r) : Range(shorter) = Range(list) \ {q.head}
<1> DEFINE k == Len(q.contents)
           shorter == [i \in 1 .. k - 1 |-> list[i + 1]]
<1>1. k \in Nat /\ k # 0 /\ q.contents # << >> /\ q.head = list[1] /\ q.tail = list[k]
  BY ListFacts DEF PopFront, ListsOf
<1>2. /\ r.contents = Tail(q.contents) /\ r.contents \in Seq(Item) /\ Len(r.contents) = k - 1
      /\ Head(q.contents) = q.contents[1] /\ \A i \in 1 .. k - 1 : r.contents[i] = q.contents[i + 1]
      /\ r.contents = << >> <=> k - 1 = 0
  <2>1. r.contents = Tail(q.contents)
    BY DEF PopFront
  <2>2. /\ Tail(q.contents) \in Seq(Item) /\ Len(Tail(q.contents)) = k - 1 /\ Head(q.contents) = q.contents[1]
        /\ \A i \in 1 .. k - 1 : Tail(q.contents)[i] = q.contents[i + 1]
    BY <1>1, HeadTailProperties DEF Fields
  <2>3. Tail(q.contents) = << >> <=> k - 1 = 0
    BY <2>2, EmptySeq
  <2> QED
    BY <2>1, <2>2, <2>3
<1>3. /\ list \in [1 .. k -> q.heap] /\ \A i, j \in 1 .. k : list[i] = list[j] => i = j
      /\ \A i \in 1 .. k - 1 : q.next[list[i]] = list[i + 1]
      /\ \A i \in 1 .. k : q.item[list[i]] = q.contents[i]
  BY DEF ListsOf
<1>4. r.heap = q.heap \ {q.head} /\ r.item = q.item /\ r.next = q.next
  BY DEF PopFront
<1> HIDE DEF k
<1>5. q.head = q.tail <=> k = 1
  BY <1>1, <1>3
<1>6. IF k = 1 THEN r.head = Null /\ r.tail = Null ELSE r.head = list[2] /\ r.tail = list[k]
  BY <1>1, <1>3, <1>5 DEF PopFront
<1>7. \A i \in 1 .. k - 1 : i \in 1 .. k /\ i + 1 \in 1 .. k /\ i + 1 # 1
  BY <1>1
<1>8. /\ shorter \in [1 .. k - 1 -> r.heap] /\ DOMAIN shorter = 1 .. k - 1
      /\ \A i \in 1 .. k - 1 : shorter[i] = list[i + 1]
  <2>1. \A i \in 1 .. k - 1 : list[i + 1] \in q.heap /\ list[i + 1] # list[1]
    BY <1>1, <1>3, <1>7
  <2> QED
    BY <1>1, <1>4, <2>1
<1> HIDE DEF shorter
<1>9. \A i, j \in 1 .. k - 1 : shorter[i] = shorter[j] => i = j
  <2> SUFFICES ASSUME NEW i \in 1 .. k - 1, NEW j \in 1 .. k - 1, shorter[i] = shorter[j] PROVE i = j
    OBVIOUS
  <2>1. i + 1 = j + 1
    BY <1>3, <1>7, <1>8
  <2> QED
    BY <2>1
<1>10. r.contents # << >> => r.head = shorter[1] /\ r.tail = shorter[k - 1]
  <2> SUFFICES ASSUME k # 1 PROVE r.head = shorter[1] /\ r.tail = shorter[k - 1]
    BY <1>1, <1>2
  <2>1. 1 \in 1 .. k - 1 /\ k - 1 \in 1 .. k - 1 /\ (k - 1) + 1 = k /\ 1 + 1 = 2
    BY <1>1
  <2> QED
    BY <1>6, <1>8, <2>1
<1>11. \A i \in 1 .. (k - 1) - 1 : q.next[shorter[i]] = shorter[i + 1]
  <2> TAKE i \in 1 .. (k - 1) - 1
  <2>1. i \in 1 .. k - 1 /\ i + 1 \in 1 .. k - 1
    BY <1>1
  <2> QED
    BY <1>3, <1>8, <2>1
<1>12. \A i \in 1 .. k - 1 : q.item[shorter[i]] = r.contents[i]
  BY ONLY <1>2, <1>3, <1>7, <1>8
<1>13. shorter \in ListsOf(r)
  BY <1>1, <1>2, <1>4, <1>6, <1>8, <1>9, <1>10, <1>11, <1>12 DEF ListsOf
<1>14. Range(shorter) = Range(list) \ {q.head} /\ q.head \in Range(list)
  <2>1. Range(list) = {list[i] : i \in 1 .. k} /\ Range(shorter) = {list[i + 1] : i \in 1 .. k - 1}
    BY <1>3, <1>8 DEF Range
  <2>2. \A i \in 1 .. k : i # 1 => i - 1 \in 1 .. k - 1 /\ (i - 1) + 1 = i
    BY <1>1
  <2>3. 1 \in 1 .. k
    BY <1>1
  <2>4. Range(list) \ {q.head} \subseteq Range(shorter)
    <3> SUFFICES ASSUME NEW i \in 1 .. k, list[i] # q.head PROVE \E j \in 1 .. k - 1 : list[i] = list[j + 1]
      BY <2>1
    <3>1. i - 1 \in 1 .. k - 1 /\ (i - 1) + 1 = i
      BY <1>1, <2>2
    <3> QED
      BY <3>1
  <2>5. Range(shorter) \subseteq Range(list) \ {q.head}
    BY <1>1, <1>3, <1>7, <2>1, <2>3
  <2> QED
    BY <1>1, <2>1, <2>3, <2>4, <2>5
<1>15. q.item[q.head] = Head(q.contents)
  BY <1>1, <1>2, <1>3
<1>16. Fields(r)
  BY <1>2, <1>4 DEF Fields
<1> QED
  BY <1>1, <1>13, <1>14, <1>15, <1>16

Chars ==
  [head |-> bufHead, tail |-> bufTail, contents |-> pending, item |-> item, next |-> next, heap |-> heap]
Readers ==
  [head |-> waitHead, tail |-> waitTail, contents |-> waiting, item |-> item, next |-> next, heap |-> heap]

LEMMA QueueFacts ==
  /\ Buf!Lists = ListsOf(Chars) /\ Buf!Lists' = ListsOf(Chars')
  /\ Pushed!Lists = ListsOf(Readers) /\ Pushed!Lists' = ListsOf(Readers')
  /\ (Buf!IsEmpty <=> IsEmpty(Chars)) /\ (Pushed!IsEmpty <=> IsEmpty(Readers))
  /\ \A data : Buf!PushBack(data) => \E n : PushBack(n, data, Chars, Chars')
  /\ \A data : Pushed!PushBack(data) => \E n : PushBack(n, data, Readers, Readers')
  /\ Buf!PopFront => PopFront(Chars, Chars')
  /\ Pushed!PopFront => PopFront(Readers, Readers')
<1>1. /\ Buf!Lists = ListsOf(Chars) /\ Buf!Lists' = ListsOf(Chars')
      /\ Pushed!Lists = ListsOf(Readers) /\ Pushed!Lists' = ListsOf(Readers')
  BY DEF Buf!Lists, Pushed!Lists, ListsOf, Chars, Readers
<1>2. (Buf!IsEmpty <=> IsEmpty(Chars)) /\ (Pushed!IsEmpty <=> IsEmpty(Readers))
  BY DEF Buf!IsEmpty, Pushed!IsEmpty, IsEmpty, Chars, Readers
<1>3. ASSUME NEW data, Buf!PushBack(data) PROVE \E n : PushBack(n, data, Chars, Chars')
  BY <1>2, <1>3 DEF Buf!PushBack, Buf!NewNode, PushBack, Chars
<1>4. ASSUME NEW data, Pushed!PushBack(data) PROVE \E n : PushBack(n, data, Readers, Readers')
  BY <1>2, <1>4 DEF Pushed!PushBack, Pushed!NewNode, PushBack, Readers
<1>5. Buf!PopFront => PopFront(Chars, Chars')
  BY DEF Buf!PopFront, PopFront, Chars
<1>6. Pushed!PopFront => PopFront(Readers, Readers')
  BY DEF Pushed!PopFront, PopFront, Readers
<1> QED
  BY <1>1, <1>2, <1>3, <1>4, <1>5, <1>6

Apart(chars, readers) ==
  /\ heap = Range(chars) \union Range(readers)
  /\ Range(chars) \intersect Range(readers) = {}

QueuesKnown ==
  /\ Fields(Chars) /\ Fields(Readers)
  /\ \E chars \in ListsOf(Chars), readers \in ListsOf(Readers) : Apart(chars, readers)

LEMMA EmptyFacts ==
  QueuesKnown => (Buf!IsEmpty <=> pending = << >>) /\ (Pushed!IsEmpty <=> waiting = << >>)
<1> SUFFICES ASSUME QueuesKnown
             PROVE  (Buf!IsEmpty <=> pending = << >>) /\ (Pushed!IsEmpty <=> waiting = << >>)
  OBVIOUS
<1>1. (IsEmpty(Chars) <=> Chars.contents = << >>) /\ (IsEmpty(Readers) <=> Readers.contents = << >>)
  BY ListFacts DEF QueuesKnown
<1> QED
  BY <1>1, QueueFacts DEF Chars, Readers

\* A push to one queue is nothing to the other.
LEMMA CharPushed ==
  ASSUME QueuesKnown, NEW data \in Item, Buf!PushBack(data), UNCHANGED waitVars
  PROVE  QueuesKnown' /\ pending' = Append(pending, data)
<1>1. PICK mine \in ListsOf(Chars), others \in ListsOf(Readers) :
        heap = Range(mine) \union Range(others) /\ Range(mine) \intersect Range(others) = {}
  BY DEF QueuesKnown, Apart
<1>2. PICK n : PushBack(n, data, Chars, Chars')
  BY QueueFacts
<1>3. n \in Node \ heap /\ heap' = heap \union {n} /\ pending' = Append(pending, data)
  BY <1>2 DEF PushBack, Chars
<1>4. PICK longer \in ListsOf(Chars') :
        /\ Range(longer) = Range(mine) \union {n}
        /\ \A m \in Node : m # n /\ m \notin Range(mine) => item'[m] = item[m] /\ next'[m] = next[m]
  <2>1. \E longer \in ListsOf(Chars') : Longer(longer, mine, n, Chars, Chars')
    BY <1>1, <1>2, PushKeeps DEF QueuesKnown
  <2> QED
    BY <2>1 DEF Longer, Chars
<1>5. Fields(Chars')
  BY <1>1, <1>2, PushKeeps DEF QueuesKnown
<1>6. Fields(Readers')
  BY <1>5 DEF QueuesKnown, Fields, Chars, Readers, waitVars
<1>7. others \in ListsOf(Readers')
  <2>1. \A m \in Range(others) :
          m \in Readers'.heap /\ Readers'.item[m] = Readers.item[m] /\ Readers'.next[m] = Readers.next[m]
    BY <1>1, <1>3, <1>4 DEF QueuesKnown, Fields, Readers
  <2>2. Readers'.head = Readers.head /\ Readers'.tail = Readers.tail /\ Readers'.contents = Readers.contents
    BY DEF Readers, waitVars
  <2> QED
    BY <2>1, <2>2, OtherKeeps
<1>8. heap' = Range(longer) \union Range(others) /\ Range(longer) \intersect Range(others) = {}
  BY <1>1, <1>3, <1>4
<1> QED
  BY <1>3, <1>4, <1>5, <1>6, <1>7, <1>8 DEF QueuesKnown, Apart

\* A push to one queue is nothing to the other.
LEMMA ReaderPushed ==
  ASSUME QueuesKnown, NEW data \in Item, Pushed!PushBack(data), UNCHANGED bufVars
  PROVE  QueuesKnown' /\ waiting' = Append(waiting, data)
<1>1. PICK mine \in ListsOf(Readers), others \in ListsOf(Chars) :
        heap = Range(mine) \union Range(others) /\ Range(mine) \intersect Range(others) = {}
  BY DEF QueuesKnown, Apart
<1>2. PICK n : PushBack(n, data, Readers, Readers')
  BY QueueFacts
<1>3. n \in Node \ heap /\ heap' = heap \union {n} /\ waiting' = Append(waiting, data)
  BY <1>2 DEF PushBack, Readers
<1>4. PICK longer \in ListsOf(Readers') :
        /\ Range(longer) = Range(mine) \union {n}
        /\ \A m \in Node : m # n /\ m \notin Range(mine) => item'[m] = item[m] /\ next'[m] = next[m]
  <2>1. \E longer \in ListsOf(Readers') : Longer(longer, mine, n, Readers, Readers')
    BY <1>1, <1>2, PushKeeps DEF QueuesKnown
  <2> QED
    BY <2>1 DEF Longer, Readers
<1>5. Fields(Readers')
  BY <1>1, <1>2, PushKeeps DEF QueuesKnown
<1>6. Fields(Chars')
  BY <1>5 DEF QueuesKnown, Fields, Chars, Readers, bufVars
<1>7. others \in ListsOf(Chars')
  <2>1. \A m \in Range(others) :
          m \in Chars'.heap /\ Chars'.item[m] = Chars.item[m] /\ Chars'.next[m] = Chars.next[m]
    BY <1>1, <1>3, <1>4 DEF QueuesKnown, Fields, Chars
  <2>2. Chars'.head = Chars.head /\ Chars'.tail = Chars.tail /\ Chars'.contents = Chars.contents
    BY DEF Chars, bufVars
  <2> QED
    BY <2>1, <2>2, OtherKeeps
<1>8. heap' = Range(longer) \union Range(others) /\ Range(longer) \intersect Range(others) = {}
  BY <1>1, <1>3, <1>4
<1> QED
  BY <1>3, <1>4, <1>5, <1>6, <1>7, <1>8 DEF QueuesKnown, Apart

\* And so is a pop.
LEMMA CharPopped ==
  ASSUME QueuesKnown, Buf!PopFront, UNCHANGED waitVars
  PROVE  QueuesKnown' /\ pending' = Tail(pending) /\ pending # << >> /\ Buf!Front = Head(pending)
<1>1. PICK mine \in ListsOf(Chars), others \in ListsOf(Readers) :
        heap = Range(mine) \union Range(others) /\ Range(mine) \intersect Range(others) = {}
  BY DEF QueuesKnown, Apart
<1>2. PopFront(Chars, Chars')
  BY QueueFacts
<1>3. heap' = heap \ {bufHead} /\ pending' = Tail(pending) /\ item' = item /\ next' = next
  BY <1>2 DEF PopFront, Chars
<1>4. /\ Fields(Chars') /\ Chars.contents # << >>
      /\ Chars.item[Chars.head] = Head(Chars.contents) /\ Chars.head \in Range(mine)
  BY <1>1, <1>2, PopKeeps DEF QueuesKnown
<1>5. PICK shorter \in ListsOf(Chars') : Range(shorter) = Range(mine) \ {Chars.head}
  BY <1>1, <1>2, PopKeeps DEF QueuesKnown
<1>6. Chars.head = bufHead /\ Chars.contents = pending /\ Chars.item = item
  BY DEF Chars
<1>7. Fields(Readers')
  BY <1>4 DEF QueuesKnown, Fields, Chars, Readers, waitVars
<1>8. others \in ListsOf(Readers')
  <2>1. \A m \in Range(others) :
          m \in Readers'.heap /\ Readers'.item[m] = Readers.item[m] /\ Readers'.next[m] = Readers.next[m]
    BY <1>1, <1>3, <1>4, <1>6 DEF Readers
  <2>2. Readers'.head = Readers.head /\ Readers'.tail = Readers.tail /\ Readers'.contents = Readers.contents
    BY DEF Readers, waitVars
  <2> QED
    BY <2>1, <2>2, OtherKeeps
<1>9. heap' = Range(shorter) \union Range(others) /\ Range(shorter) \intersect Range(others) = {}
  BY <1>1, <1>3, <1>4, <1>5, <1>6
<1>10. QueuesKnown'
  BY <1>4, <1>5, <1>7, <1>8, <1>9 DEF QueuesKnown, Apart
<1> QED
  BY <1>3, <1>4, <1>6, <1>10 DEF Buf!Front

\* And so is a pop.
LEMMA ReaderPopped ==
  ASSUME QueuesKnown, Pushed!PopFront, UNCHANGED bufVars
  PROVE  QueuesKnown' /\ waiting' = Tail(waiting) /\ waiting # << >> /\ Pushed!Front = Head(waiting)
<1>1. PICK mine \in ListsOf(Readers), others \in ListsOf(Chars) :
        heap = Range(mine) \union Range(others) /\ Range(mine) \intersect Range(others) = {}
  BY DEF QueuesKnown, Apart
<1>2. PopFront(Readers, Readers')
  BY QueueFacts
<1>3. heap' = heap \ {waitHead} /\ waiting' = Tail(waiting) /\ item' = item /\ next' = next
  BY <1>2 DEF PopFront, Readers
<1>4. /\ Fields(Readers') /\ Readers.contents # << >>
      /\ Readers.item[Readers.head] = Head(Readers.contents) /\ Readers.head \in Range(mine)
  BY <1>1, <1>2, PopKeeps DEF QueuesKnown
<1>5. PICK shorter \in ListsOf(Readers') : Range(shorter) = Range(mine) \ {Readers.head}
  BY <1>1, <1>2, PopKeeps DEF QueuesKnown
<1>6. Readers.head = waitHead /\ Readers.contents = waiting /\ Readers.item = item
  BY DEF Readers
<1>7. Fields(Chars')
  BY <1>4 DEF QueuesKnown, Fields, Chars, Readers, bufVars
<1>8. others \in ListsOf(Chars')
  <2>1. \A m \in Range(others) :
          m \in Chars'.heap /\ Chars'.item[m] = Chars.item[m] /\ Chars'.next[m] = Chars.next[m]
    BY <1>1, <1>3, <1>4, <1>6 DEF Chars
  <2>2. Chars'.head = Chars.head /\ Chars'.tail = Chars.tail /\ Chars'.contents = Chars.contents
    BY DEF Chars, bufVars
  <2> QED
    BY <2>1, <2>2, OtherKeeps
<1>9. heap' = Range(shorter) \union Range(others) /\ Range(shorter) \intersect Range(others) = {}
  BY <1>1, <1>3, <1>4, <1>5, <1>6
<1>10. QueuesKnown'
  BY <1>4, <1>5, <1>7, <1>8, <1>9 DEF QueuesKnown, Apart
<1> QED
  BY <1>3, <1>4, <1>6, <1>10 DEF Pushed!Front

\* A reader is in its queue from the test that finds no character until it
\* is notified.
ReadersKnown ==
  /\ foreground \in Program /\ pc \in {"open", "notify", "asleep", "panicked"}
  /\ pc = "open" => waiting = << >>
  /\ pc = "notify" => waiting \in {<< >>, <<foreground>>}
  /\ pc = "asleep" => pending = << >> /\ waiting = <<foreground>>

QueueInv == QueuesKnown /\ ReadersKnown

LEMMA SameQueues ==
  ASSUME QueuesKnown, UNCHANGED <<bufVars, waitVars, item, next, heap>>
  PROVE  QueuesKnown'
<1>1. Chars' = Chars /\ Readers' = Readers
  BY DEF Chars, Readers, bufVars, waitVars
<1> QED
  BY <1>1 DEF QueuesKnown, Apart

LEMMA QueueInit == Init => QueueInv
<1> SUFFICES ASSUME Init PROVE QueueInv
  OBVIOUS
<1>1. Fields(Chars) /\ Fields(Readers)
  BY ConsoleAssumption DEF Init, Fields, Chars, Readers, Item, Key, Char
<1>2. << >> \in ListsOf(Chars) /\ << >> \in ListsOf(Readers)
  BY DEF Init, ListsOf, Chars, Readers
<1>3. Apart(<< >>, << >>)
  BY DEF Init, Apart, Range
<1> QED
  BY <1>1, <1>2, <1>3 DEF Init, QueueInv, QueuesKnown, ReadersKnown, Program

LEMMA QueueStep == QueueInv /\ [Next]_vars => QueueInv'
<1> SUFFICES ASSUME QueueInv, [Next]_vars PROVE QueueInv'
  OBVIOUS
<1>1. /\ QueuesKnown /\ ReadersKnown
      /\ (Buf!IsEmpty <=> pending = << >>) /\ (Pushed!IsEmpty <=> waiting = << >>)
  BY EmptyFacts DEF QueueInv
<1>2. ASSUME NEW key \in Key, ExternalChar(key) PROVE QueueInv'
  <2>1. Input(key) \in Item
    BY DEF Input, Item, Key, Control
  <2>2. QueuesKnown'
    BY <1>1, <1>2, <2>1, CharPushed DEF ExternalChar
  <2> QED
    BY <1>1, <1>2, <2>2 DEF ExternalChar, ReadersKnown, QueueInv, waitVars
<1>3. CASE NotifyCondition
  <2>1. CASE Pushed!IsEmpty
    <3>1. QueuesKnown'
      BY <1>1, <1>3, <2>1, SameQueues DEF NotifyCondition
    <3> QED
      BY <1>1, <1>3, <2>1, <3>1 DEF NotifyCondition, ReadersKnown, QueueInv, waitVars
  <2>2. CASE ~Pushed!IsEmpty
    <3>1. QueuesKnown' /\ waiting' = Tail(waiting)
      BY <1>1, <1>3, <2>2, ReaderPopped DEF NotifyCondition
    <3>2. waiting = <<foreground>>
      BY <1>1, <1>3, <2>2 DEF NotifyCondition, ReadersKnown
    <3>3. waiting' = << >>
      BY <3>1, <3>2
    <3> QED
      BY <1>1, <1>3, <3>1, <3>3 DEF NotifyCondition, ReadersKnown, QueueInv
  <2> QED
    BY <2>1, <2>2
<1>4. CASE WaitCondition
  <2>1. foreground \in Item /\ Buf!IsEmpty /\ pc = "open"
    BY <1>1, <1>4 DEF WaitCondition, ReadersKnown, Item
  <2>2. QueuesKnown' /\ waiting' = Append(waiting, foreground)
    BY <1>1, <1>4, <2>1, ReaderPushed DEF WaitCondition
  <2>3. waiting' = <<foreground>> /\ pending' = << >>
    BY <1>1, <1>4, <2>1, <2>2 DEF WaitCondition, ReadersKnown, bufVars
  <2> QED
    BY <1>1, <1>4, <2>2, <2>3 DEF WaitCondition, ReadersKnown, QueueInv
<1>5. CASE ShellReads
  <2>1. QueuesKnown'
    BY <1>1, <1>5, CharPopped DEF ShellReads
  <2>2. foreground' \in Program
    BY <1>5 DEF ShellReads, Program
  <2> QED
    BY <1>1, <1>5, <2>1, <2>2 DEF ShellReads, ReadersKnown, QueueInv, waitVars
<1>6. CASE EchoReads
  <2>1. QueuesKnown'
    BY <1>1, <1>6, CharPopped DEF EchoReads
  <2> QED
    BY <1>1, <1>6, <2>1 DEF EchoReads, ReadersKnown, QueueInv, waitVars
<1>7. CASE HelloExits
  <2>1. QueuesKnown'
    BY <1>1, <1>7, SameQueues DEF HelloExits
  <2> QED
    BY <1>1, <1>7, <2>1 DEF HelloExits, ReadersKnown, QueueInv, waitVars, Program
<1>8. CASE HeapFull
  <2>1. QueuesKnown'
    BY <1>1, <1>8, SameQueues DEF HeapFull
  <2> QED
    BY <1>1, <1>8, <2>1 DEF HeapFull, ReadersKnown, QueueInv
<1>9. CASE UNCHANGED vars
  <2>1. QueuesKnown'
    BY <1>1, <1>9, SameQueues DEF vars
  <2> QED
    BY <1>1, <1>9, <2>1 DEF vars, ReadersKnown, QueueInv, bufVars, waitVars
<1> QED
  BY <1>2, <1>3, <1>4, <1>5, <1>6, <1>7, <1>8, <1>9 DEF Next, Stuck

\* The lists of characters and of readers are in order, on nodes of their
\* own, and no other node is allocated, for heaps of any size
\* (queue.c:17-26 and 32-43).
THEOREM ListsAreQueues == Spec => []QueuesLinked
<1>1. QueueInv => QueuesLinked
  <2> SUFFICES ASSUME QueueInv PROVE QueuesLinked
    OBVIOUS
  <2>1. QueuesKnown /\ ReadersKnown
    BY DEF QueueInv
  <2>2. \E chars \in Buf!Lists, readers \in Pushed!Lists : Apart(chars, readers)
    BY <2>1, QueueFacts DEF QueuesKnown
  <2> QED
    BY <2>1, <2>2, EmptyFacts DEF QueuesLinked, ReadersKnown, Apart
<1> QED
  BY <1>1, QueueInit, QueueStep, PTL DEF Spec
------------------------------------------------------------------------------
(* What the shell executes.                                                *)

LEMMA LeastNat ==
  ASSUME NEW T \in SUBSET Nat, T # {}
  PROVE  Min(T) \in T /\ \A m \in T : Min(T) <= m
<1>1. PICK n \in T : \A m \in T : ~(<<m, n>> \in OpToRel(<, Nat))
  BY NatLessThanWellFounded, WFMin
<1>2. \A m \in T : ~(m < n)
  BY <1>1 DEF OpToRel
<1>3. \A m \in T : n <= m
  BY <1>2
<1> QED
  BY <1>3 DEF Min

\* The text before the first Nul.
LEMMA UpToNulFacts ==
  ASSUME NEW S, NEW text \in Seq(S)
  PROVE  \/ (\A i \in 1 .. Len(text) : text[i] # Nul) /\ UpToNul(text) = text
         \/ \E k \in 1 .. Len(text) :
              /\ text[k] = Nul /\ \A i \in 1 .. k - 1 : text[i] # Nul
              /\ UpToNul(text) = SubSeq(text, 1, k - 1)
<1> DEFINE I == {i \in 1 .. Len(text) : text[i] = Nul}
<1>1. SelectInSeq(text, LAMBDA c : c = Nul) = IF I # {} THEN Min(I) ELSE 0
  BY DEF SelectInSeq
<1>2. CASE I = {}
  BY <1>1, <1>2 DEF UpToNul
<1>3. CASE I # {}
  <2>1. Len(text) \in Nat /\ I \in SUBSET Nat
    BY LenProperties
  <2>2. Min(I) \in I /\ \A i \in I : Min(I) <= i
    BY ONLY <1>3, <2>1, LeastNat
  <2>3. \A i \in 1 .. Min(I) - 1 : text[i] # Nul
    <3> SUFFICES ASSUME NEW i \in 1 .. Min(I) - 1, text[i] = Nul PROVE FALSE
      OBVIOUS
    <3>1. Min(I) \in 1 .. Len(text)
      BY <2>2
    <3>2. i \in 1 .. Len(text) /\ i < Min(I)
      BY <2>1, <3>1
    <3>3. i \in I
      BY <3>2
    <3> QED
      BY <2>1, <2>2, <3>1, <3>2, <3>3
  <2>4. Min(I) \in 1 .. Len(text) /\ text[Min(I)] = Nul /\ Min(I) # 0
    BY <2>2
  <2>5. UpToNul(text) = SubSeq(text, 1, Min(I) - 1)
    BY <1>1, <1>3, <2>4 DEF UpToNul
  <2> QED
    BY <2>3, <2>4, <2>5
<1> QED
  BY <1>2, <1>3

\* A text is the same up to its first Nul as with Nuls behind it.
LEMMA PaddedText ==
  ASSUME NEW S, NEW a \in Seq(S), NEW b \in Seq(S), Len(a) < Len(b),
         \A i \in 1 .. Len(b) : b[i] = IF i <= Len(a) THEN a[i] ELSE Nul
  PROVE  UpToNul(a) = UpToNul(b)
<1> DEFINE n == Len(a)
           m == Len(b)
<1>1. n \in Nat /\ m \in Nat /\ n < m
  BY LenProperties
<1> HIDE DEF n, m
<1>2. /\ \A i \in 1 .. n : i \in 1 .. m /\ b[i] = a[i]
      /\ n + 1 \in 1 .. m /\ b[n + 1] = Nul
  BY <1>1 DEF n, m
<1>3. PICK k \in 1 .. m : /\ b[k] = Nul /\ \A i \in 1 .. k - 1 : b[i] # Nul
                          /\ UpToNul(b) = SubSeq(b, 1, k - 1)
  BY <1>2, UpToNulFacts DEF m
<1>4. k <= n + 1
  BY <1>1, <1>2, <1>3
<1>5. SubSeq(b, 1, k - 1) = SubSeq(a, 1, k - 1)
  <2>1. k - 1 \in 0 .. n /\ k - 1 \in 0 .. m
    BY <1>1, <1>4
  <2>2. \A s \in Seq(S) : \A j \in 0 .. Len(s) :
          /\ SubSeq(s, 1, j) \in Seq(S) /\ Len(SubSeq(s, 1, j)) = j
          /\ \A i \in 1 .. j : SubSeq(s, 1, j)[i] = s[i]
    OBVIOUS
  <2>3. /\ SubSeq(a, 1, k - 1) \in Seq(S) /\ Len(SubSeq(a, 1, k - 1)) = k - 1
        /\ \A i \in 1 .. k - 1 : SubSeq(a, 1, k - 1)[i] = a[i]
    BY <2>1, <2>2 DEF n
  <2>4. /\ SubSeq(b, 1, k - 1) \in Seq(S) /\ Len(SubSeq(b, 1, k - 1)) = k - 1
        /\ \A i \in 1 .. k - 1 : SubSeq(b, 1, k - 1)[i] = b[i]
    BY <2>1, <2>2 DEF m
  <2>5. \A i \in 1 .. k - 1 : i \in 1 .. n
    BY <1>1, <2>1
  <2>6. \A i \in 1 .. k - 1 : SubSeq(b, 1, k - 1)[i] = SubSeq(a, 1, k - 1)[i]
    BY ONLY <1>2, <2>3, <2>4, <2>5
  <2> QED
    BY ONLY <2>3, <2>4, <2>6, SeqEqual
<1>6. CASE \A i \in 1 .. n : a[i] # Nul
  <2>1. k = n + 1
    <3>1. k \notin 1 .. n
      BY <1>2, <1>3, <1>6
    <3> QED
      BY <1>1, <1>4, <3>1
  <2>2. SubSeq(a, 1, n) = a
    BY DEF n
  <2>3. UpToNul(a) = a
    BY <1>6, UpToNulFacts DEF n
  <2> QED
    BY <1>1, <1>3, <1>5, <2>1, <2>2, <2>3
<1>7. CASE \E i \in 1 .. n : a[i] = Nul
  <2>1. PICK l \in 1 .. n : /\ a[l] = Nul /\ \A i \in 1 .. l - 1 : a[i] # Nul
                            /\ UpToNul(a) = SubSeq(a, 1, l - 1)
    BY <1>7, UpToNulFacts DEF n
  <2>2. b[l] = Nul /\ ~(l < k)
    <3>1. l < k => l \in 1 .. k - 1
      BY <1>1
    <3> QED
      BY <1>2, <1>3, <2>1, <3>1
  <2>3. ~(k < l)
    <3> SUFFICES ASSUME k < l PROVE FALSE
      OBVIOUS
    <3>1. k \in 1 .. l - 1 /\ k \in 1 .. n
      BY <1>1
    <3> QED
      BY <1>2, <1>3, <2>1, <3>1
  <2>4. k = l
    BY <1>1, <2>2, <2>3
  <2> QED
    BY <1>3, <1>5, <2>1, <2>4
<1> QED
  BY <1>6, <1>7

\* A clean buffer is the text and Nuls behind it.
LEMMA StringIsTyped ==
  ASSUME Inv, clean
  PROVE  String = UpToNul(carried \o typed)
<1> DEFINE a == carried \o typed
           b == [i \in 1 .. Size |-> line[i - 1]]
<1>1. /\ a \in Seq(Char) /\ Len(a) = lineCount /\ lineCount \in Nat /\ lineCount < Size /\ Size \in Nat
  BY ShellAssumption, ConcatAt DEF Inv, LineTyped
<1>2. \A i \in 1 .. Size : i - 1 \in 0 .. Size - 1 /\ (i - 1) + 1 = i
  BY <1>1
<1>3. b \in [1 .. Size -> Char]
  BY <1>2 DEF Inv, LineTyped
<1>4. b \in Seq(Char) /\ Len(b) = Size
  BY ONLY <1>1, <1>3
<1>5. \A i \in 1 .. Size : line[i - 1] = IF i <= Len(a) THEN a[i] ELSE Nul
  <2> TAKE i \in 1 .. Size
  <2>1. line[i - 1] = IF i - 1 < lineCount THEN a[(i - 1) + 1] ELSE Nul
    BY <1>2 DEF Inv, LineHolds
  <2>2. i - 1 < lineCount <=> i <= Len(a)
    BY <1>1
  <2> QED
    BY <1>2, <2>1, <2>2
<1>6. \A i \in 1 .. Len(b) : b[i] = IF i <= Len(a) THEN a[i] ELSE Nul
  BY <1>4, <1>5
<1>7. String = UpToNul(b)
  BY DEF String
<1> HIDE DEF a, b
<1>8. UpToNul(a) = UpToNul(b)
  BY <1>1, <1>4, <1>6, PaddedText
<1> QED
  BY <1>7, <1>8 DEF a

\* What is executed was typed since the last command, and is not blank, for
\* every size of the buffer (sh.c:42-79).
THEOREM CommandsAreTyped == Spec => ExecutesTyped
<1> DEFINE Typing ==
      clean /\ executed' \notin {executed, <<>>} =>
        /\ executed' = UpToNul(carried \o typed)
        /\ \E i \in DOMAIN executed' : executed'[i] # Blank
<1>1. ASSUME Inv, NEW c, Handle(c)
      PROVE  Typing
  <2>1. CASE Execute
    BY <1>1, <2>1, StringIsTyped DEF Execute, IsBlank
  <2>2. CASE NewPrompt \/ Delete \/ (c \in Char /\ Insert(c)) \/ Ignored(c)
    BY <2>2 DEF NewPrompt, Delete, Insert, Ignored
  <2> QED
    BY <1>1, <2>1, <2>2 DEF Handle
<1>2. Inv /\ [Next]_vars => [Typing]_shellVars
  <2> SUFFICES ASSUME Inv, [Next]_vars, shellVars' # shellVars PROVE Typing
    OBVIOUS
  <2>1. CASE ShellReads
    BY <1>1, <2>1 DEF ShellReads
  <2>2. CASE UNCHANGED shellVars
    BY <2>2
  <2> QED
    BY <2>1, <2>2
       DEF Next, ExternalChar, NotifyCondition, WaitCondition, EchoReads, HelloExits, HeapFull, Stuck, vars
<1>3. Init => Inv
  BY ShellInitHolds DEF Init
<1>4. Inv /\ [Next]_vars => Inv'
  BY InvStep
<1> QED
  BY <1>2, <1>3, <1>4, PTL DEF Spec, ExecutesTyped
==============================================================================
