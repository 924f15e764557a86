------------------------------ MODULE TrapProofs ------------------------------
(***************************************************************************)
(* Proofs about Trap: the privilege, the interrupt enable bits and the     *)
(* saved frames are right in every run, whatever the number of user        *)
(* threads.                                                                *)
(***************************************************************************)
EXTENDS Trap, TLAPS

\* Where the hart is decides whose context it runs.
Located ==
  /\ pc \in BootPc => who = "boot"
  /\ pc \in {"idleEntry", "acquire", "enabled", "mask"} => who = "idle"
  /\ pc = "user" => who \in User

\* SIE and SUM at the points where frames are made from sstatus.
BitsKnown ==
  /\ pc \in BootPc \ {"runCPU"} => "SIE" \notin sstatus
  /\ pc \in {"initInterrupt", "initThread", "initTimer"} => "SUM" \in sstatus
  /\ pc = "user" => "SIE" \in sstatus /\ "SUM" \in sstatus
  /\ pc \notin {"initMemory", "initInterrupt"} => stvec

\* What disable_and_store has returned on a thread that was switched out.
FlagsKnown ==
  \A u \in User :
    /\ at[u] \in {"nowhere", "restore", "trap", "user"}
    /\ at[u] = "trap" => "SIE" \notin flags[u] /\ "SUM" \in flags[u]

\* A trap returns to a point of the context it was taken in.
Trapped ==
  /\ pc = "trap" /\ who \in User => at[who] = "user"
  /\ pc = "trap" /\ who = "idle" =>
       at["idle"] \in {"idleEntry", "enabled", "mask"} /\ "SPP" \in frame["idle"]
  /\ pc = "trap" /\ who = "boot" => at["boot"] = "runCPU" /\ "SPP" \in frame["boot"]
  /\ pc \in {"initTimer", "runCPU"} \/ (pc = "trap" /\ who = "boot") => "SPP" \in frame["idle"]

\* None of these holds up without the others: a frame is right because of
\* the bits it was made from, and the bits because of the frame that was
\* restored before.
Inv ==
  /\ TypeOK /\ Located /\ BitsKnown /\ FlagsKnown /\ Trapped
  /\ PrivilegeSeparated /\ HandlerCanRun /\ NotInterrupted /\ FramesPreemptible
------------------------------------------------------------------------------
\* The hart as OpenSBI leaves it.
THEOREM InitInv == Init => Inv
<1> SUFFICES ASSUME Init PROVE Inv
  OBVIOUS
<1>1. TypeOK
  BY DEF Init, TypeOK, Context, Pc, BootPc
<1>2. Located /\ BitsKnown /\ FlagsKnown /\ Trapped
  BY UserAssumption DEF Init, Located, BitsKnown, FlagsKnown, Trapped, Context, BootPc
<1>3. PrivilegeSeparated /\ HandlerCanRun /\ NotInterrupted /\ FramesPreemptible
  BY UserAssumption DEF Init, PrivilegeSeparated, HandlerCanRun, NotInterrupted, FramesPreemptible, Context
<1> QED
  BY <1>1, <1>2, <1>3 DEF Inv

\* The steps of main before the first switch.
LEMMA BootInv ==
  ASSUME Inv, InitMemory \/ InitInterrupt \/ (\E u \in User : InitThread(u)) \/ InitTimer
  PROVE  Inv'
<1> USE DEF BootPc
<1>1. pc \in BootPc \ {"runCPU"} /\ pc' \in BootPc /\ who' = who /\ mode' = mode /\ flags' = flags
  BY DEF InitMemory, InitInterrupt, InitThread, InitTimer
<1>2. TypeOK'
  <2>1. CASE InitMemory \/ InitInterrupt \/ InitTimer
    BY <2>1 DEF Inv, TypeOK, Pc, Bits, Sources, InitMemory, InitInterrupt, InitTimer
  <2>2. CASE \E u \in User : InitThread(u)
    <3>1. UserFrame \in SUBSET Bits /\ KernelFrame \in SUBSET Bits
      BY DEF Inv, TypeOK, UserFrame, KernelFrame, Bits
    <3> QED
      BY <2>2, <3>1 DEF Inv, TypeOK, Pc, InitThread
  <2> QED
    BY <2>1, <2>2
<1>3. Located' /\ PrivilegeSeparated' /\ HandlerCanRun' /\ NotInterrupted'
  BY <1>1 DEF Inv, Located, PrivilegeSeparated, HandlerCanRun, NotInterrupted
<1>4. BitsKnown'
  BY <1>1 DEF Inv, BitsKnown, InitMemory, InitInterrupt, InitThread, InitTimer
<1>5. FlagsKnown' /\ FramesPreemptible' /\ Trapped'
  <2>1. CASE InitMemory \/ InitInterrupt
    BY <2>1 DEF Inv, FlagsKnown, FramesPreemptible, Trapped, InitMemory, InitInterrupt
  <2>2. CASE InitTimer
    BY <2>2 DEF Inv, FlagsKnown, FramesPreemptible, Trapped, InitTimer
  <2>3. CASE \E u \in User : InitThread(u)
    <3>1. PICK u \in User : InitThread(u)
      BY <2>3
    <3>2. u \in Context /\ "idle" \in Context /\ u # "idle" /\ \A v \in User : v # "idle" /\ v \in Context
      BY UserAssumption DEF Context
    <3>3. "SUM" \in UserFrame /\ "SPIE" \in UserFrame /\ "SPP" \notin UserFrame /\ "SPP" \in KernelFrame
      BY <3>1 DEF Inv, BitsKnown, InitThread, UserFrame, KernelFrame
    <3>4. frame'["idle"] = KernelFrame /\ \A v \in User : frame'[v] = IF v = u THEN UserFrame ELSE frame[v]
      BY <3>1, <3>2 DEF Inv, TypeOK, InitThread
    <3>5. \A v \in User : at'[v] = IF v = u THEN "restore" ELSE at[v]
      BY <3>1, <3>2 DEF Inv, TypeOK, InitThread
    <3>6. FlagsKnown'
      BY <1>1, <3>5 DEF Inv, FlagsKnown
    <3>7. FramesPreemptible'
      BY <3>3, <3>4, <3>5 DEF Inv, FramesPreemptible
    <3>8. Trapped'
      BY <1>1, <3>1, <3>3, <3>4 DEF Trapped, InitThread
    <3> QED
      BY <3>6, <3>7, <3>8
  <2> QED
    BY <2>1, <2>2, <2>3
<1> QED
  BY <1>2, <1>3, <1>4, <1>5 DEF Inv

\* A trap.
LEMMA EnterInv ==
  ASSUME Inv, Interrupt \/ Ecall
  PROVE  Inv'
<1>1. Enter /\ pc \in {"runCPU", "idleEntry", "enabled", "mask", "user"}
  BY DEF Inv, Interrupt, Ecall, TypeOK, Pc, BootPc, PrivilegeSeparated, BitsKnown, NotInterrupted
<1>2. /\ frame'[who] = Taken /\ at'[who] = pc /\ pc' = "trap" /\ mode' = "S"
      /\ sstatus' = Taken /\ UNCHANGED <<sie, stvec, who, flags>>
      /\ \A c \in Context : c # who => at'[c] = at[c] /\ frame'[c] = frame[c]
  BY <1>1 DEF Inv, Enter, TypeOK
<1>3. /\ "SIE" \notin Taken
      /\ pc = "user" => "SPIE" \in Taken /\ "SPP" \notin Taken /\ "SUM" \in Taken
      /\ pc # "user" => "SPP" \in Taken
  BY DEF Inv, TypeOK, Taken, PrivilegeSeparated, BitsKnown
<1>4. TypeOK'
  <2>1. Taken \in SUBSET Bits
    BY DEF Taken, Bits
  <2> QED
    BY <1>1, <2>1 DEF Inv, TypeOK, Enter, Pc, BootPc
<1>5. Located' /\ BitsKnown' /\ PrivilegeSeparated' /\ NotInterrupted'
  BY <1>1, <1>2, <1>3 DEF Inv, Located, BitsKnown, PrivilegeSeparated, NotInterrupted, BootPc
<1>6. who \in User <=> pc = "user"
  BY <1>1, UserAssumption DEF Inv, Located, BootPc
<1>7. HandlerCanRun'
  BY <1>1, <1>2, <1>3, <1>6 DEF Inv, HandlerCanRun, BitsKnown
<1>8. Trapped'
  BY <1>1, <1>2, <1>3, <1>6, UserAssumption DEF Inv, Trapped, Located, Context, BootPc
<1>9. FlagsKnown' /\ FramesPreemptible'
  BY <1>2, <1>3, <1>6 DEF Inv, FlagsKnown, FramesPreemptible, Context
<1> QED
  BY <1>4, <1>5, <1>7, <1>8, <1>9 DEF Inv

\* The sret at the end of a handler, to a point in S-mode or in U-mode.
LEMMA SretFacts ==
  ASSUME TypeOK, NEW saved \in SUBSET Bits, Sret(saved)
  PROVE  /\ sstatus' \in SUBSET Bits /\ mode' \in {"S", "U"}
         /\ "SPP" \in saved => mode' = "S"
         /\ "SPP" \notin saved => mode' = "U"
         /\ "SPIE" \in saved <=> "SIE" \in sstatus'
         /\ "SUM" \in saved <=> "SUM" \in sstatus'
BY DEF Sret, Bits

\* The first switch, and the ones to a new thread.
LEMMA RestoreInv ==
  ASSUME Inv, RunCPU \/ \E u \in User : SwitchToNew(u)
  PROVE  Inv'
<1>1. CASE RunCPU
  <2>1. /\ pc = "runCPU" /\ pc' = "idleEntry" /\ who' = "idle" /\ Sret(frame["idle"])
        /\ UNCHANGED <<sie, stvec, frame, flags>> /\ "SPP" \in frame["idle"]
        /\ at' = [at EXCEPT !["idle"] = "nowhere"]
    BY <1>1 DEF Inv, Trapped, RunCPU
  <2>2. "idle" \in Context /\ frame["idle"] \in SUBSET Bits
    BY DEF Inv, TypeOK, Context
  <2>3. \A u \in User : at'[u] = at[u]
    BY <2>1, <2>2, UserAssumption DEF Inv, TypeOK, Context
  <2>4. TypeOK'
    BY <2>1, <2>2, SretFacts DEF Inv, TypeOK, Pc
  <2>5. mode' = "S"
    BY <2>1, <2>2, SretFacts DEF Inv
  <2>6. Located' /\ BitsKnown' /\ PrivilegeSeparated' /\ HandlerCanRun' /\ NotInterrupted'
    BY <2>1, <2>5 DEF Inv, Located, BitsKnown, PrivilegeSeparated, HandlerCanRun, NotInterrupted, BootPc
  <2>7. FlagsKnown'
    BY <2>1, <2>3 DEF Inv, FlagsKnown
  <2>8. FramesPreemptible'
    BY <2>1, <2>3 DEF Inv, FramesPreemptible
  <2>9. Trapped'
    BY <2>1 DEF Trapped
  <2> QED
    BY <2>4, <2>6, <2>7, <2>8, <2>9 DEF Inv
<1>2. CASE \E u \in User : SwitchToNew(u)
  <2>1. PICK u \in User : SwitchToNew(u)
    BY <1>2
  <2>2. /\ pc = "acquire" /\ pc' = "user" /\ who' = u /\ Sret(frame[u])
        /\ UNCHANGED <<sie, stvec, frame, flags>> /\ at[u] = "restore"
        /\ at' = [at EXCEPT ![u] = "nowhere"]
    BY <2>1 DEF SwitchToNew
  <2>3. u \in Context /\ frame[u] \in SUBSET Bits
    BY DEF Inv, TypeOK, Context
  <2>4. \A v \in User : at'[v] = IF v = u THEN "nowhere" ELSE at[v]
    BY <2>2, <2>3 DEF Inv, TypeOK, Context
  <2>5. "SPP" \notin frame[u] /\ "SPIE" \in frame[u] /\ "SUM" \in frame[u]
    BY <2>2 DEF Inv, FramesPreemptible
  <2>6. TypeOK'
    BY <2>2, <2>3, SretFacts DEF Inv, TypeOK, Pc
  <2>7. mode' = "U" /\ "SIE" \in sstatus' /\ "SUM" \in sstatus'
    BY <2>2, <2>3, <2>5, SretFacts DEF Inv
  <2>8. Located' /\ BitsKnown' /\ PrivilegeSeparated' /\ HandlerCanRun' /\ NotInterrupted'
    BY <2>2, <2>7 DEF Inv, Located, BitsKnown, PrivilegeSeparated, HandlerCanRun, NotInterrupted, BootPc
  <2>9. FlagsKnown'
    BY <2>2, <2>4 DEF Inv, FlagsKnown
  <2>10. FramesPreemptible'
    BY <2>2, <2>4 DEF Inv, FramesPreemptible
  <2>11. Trapped'
    BY <2>2 DEF Trapped
  <2> QED
    BY <2>6, <2>8, <2>9, <2>10, <2>11 DEF Inv
<1> QED
  BY <1>1, <1>2

\* The return from a trap to where it was taken.
LEMMA ReturnInv ==
  ASSUME Inv, Return
  PROVE  Inv'
<1> DEFINE back == IF at[who] = "enabled" THEN "mask" ELSE at[who]
<1>1. /\ pc = "trap" /\ pc' = back /\ Sret(frame[who])
      /\ at' = [at EXCEPT ![who] = "nowhere"]
      /\ UNCHANGED <<sie, stvec, who, frame, flags>>
  BY DEF Return
<1>2. who \in Context /\ frame[who] \in SUBSET Bits
  BY DEF Inv, TypeOK
<1>3. /\ who \in User => back = "user"
      /\ who = "idle" => back \in {"idleEntry", "mask"}
      /\ who = "boot" => back = "runCPU"
  BY <1>1 DEF Inv, Trapped
<1>4. back = "user" <=> who \in User
  BY <1>2, <1>3, UserAssumption DEF Context
<1>5. who \notin User => "SPP" \in frame[who]
  BY <1>1, <1>2 DEF Inv, Trapped, Context
<1>6. who \in User => "SPP" \notin frame[who] /\ "SPIE" \in frame[who] /\ "SUM" \in frame[who]
  BY <1>1 DEF Inv, Trapped, FramesPreemptible
<1>7. TypeOK'
  <2>1. back \in Pc
    BY <1>2, <1>3 DEF Context, Pc, BootPc
  <2>2. sstatus' \in SUBSET Bits /\ mode' \in {"S", "U"}
    BY <1>1, <1>2, SretFacts DEF Inv
  <2> QED
    BY <1>1, <2>1, <2>2 DEF Inv, TypeOK
<1>8. mode' = "U" <=> who \in User
  BY <1>1, <1>2, <1>5, <1>6, SretFacts DEF Inv
<1>9. who \in User => "SIE" \in sstatus' /\ "SUM" \in sstatus'
  BY <1>1, <1>2, <1>6, SretFacts DEF Inv
<1>10. Located'
  BY <1>1, <1>2, <1>3, UserAssumption DEF Located, Context, BootPc
<1>11. BitsKnown'
  BY <1>1, <1>2, <1>3, <1>4, <1>9 DEF Inv, BitsKnown, Context, BootPc
<1>12. PrivilegeSeparated' /\ HandlerCanRun' /\ NotInterrupted'
  BY <1>1, <1>2, <1>3, <1>4, <1>8 DEF PrivilegeSeparated, HandlerCanRun, NotInterrupted, Context
<1>13. \A u \in User : at'[u] = IF u = who THEN "nowhere" ELSE at[u]
  BY <1>1, <1>2 DEF Inv, TypeOK, Context
<1>14. FlagsKnown'
  BY <1>1, <1>13 DEF Inv, FlagsKnown
<1>15. FramesPreemptible'
  BY <1>1, <1>13 DEF Inv, FramesPreemptible
<1>16. Trapped'
  BY <1>1, <1>2, <1>3 DEF Inv, Trapped, Context
<1> QED
  BY <1>7, <1>10, <1>11, <1>12, <1>14, <1>15, <1>16 DEF Inv

\* What a user thread keeps when it leaves the hart inside a trap.
LEMMA LeaveInv ==
  ASSUME Inv, SwitchOut \/ Exit
  PROVE  Inv'
<1>1. /\ pc = "trap" /\ pc' = "acquire" /\ who \in User /\ who' = "idle" /\ mode' = mode
      /\ sstatus' = sstatus \ {"SIE"} /\ UNCHANGED <<sie, stvec, frame>>
  BY DEF SwitchOut, Exit
<1>2. who \in Context /\ "idle" \in Context /\ "SIE" \notin sstatus /\ "SUM" \in sstatus
  BY <1>1 DEF Inv, Context, NotInterrupted, HandlerCanRun
<1>3. /\ \/ at'[who] = "trap" /\ flags'[who] = sstatus
         \/ at'[who] = "nowhere"
      /\ \A u \in User \ {who} : at'[u] = at[u] /\ flags'[u] = flags[u]
  BY <1>1, <1>2 DEF Inv, TypeOK, SwitchOut, Exit, Context
<1>4. TypeOK'
  <2>1. CASE SwitchOut
    BY <1>1, <1>2, <2>1 DEF Inv, TypeOK, SwitchOut, Pc
  <2>2. CASE Exit
    BY <1>1, <1>2, <2>2 DEF Inv, TypeOK, Exit, Pc
  <2> QED
    BY <2>1, <2>2
<1>5. Located' /\ BitsKnown' /\ PrivilegeSeparated' /\ HandlerCanRun' /\ NotInterrupted'
  BY <1>1 DEF Inv, Located, BitsKnown, PrivilegeSeparated, HandlerCanRun, NotInterrupted, BootPc
<1>6. FlagsKnown'
  BY <1>1, <1>2, <1>3 DEF Inv, FlagsKnown
<1>7. FramesPreemptible'
  BY <1>1, <1>3 DEF Inv, Trapped, FramesPreemptible
<1>8. Trapped'
  BY <1>1 DEF Trapped
<1> QED
  BY <1>4, <1>5, <1>6, <1>7, <1>8 DEF Inv

\* sysExec gives the new thread the bits its own trap came with.
LEMMA ExecInv ==
  ASSUME Inv, NEW u \in User, Exec(u)
  PROVE  Inv'
<1>1. /\ pc = "trap" /\ who \in User /\ u # who
      /\ frame' = [frame EXCEPT ![u] = UserFrame] /\ at' = [at EXCEPT ![u] = "restore"]
      /\ UNCHANGED <<sstatus, sie, stvec, mode, who, flags, pc>>
  BY DEF Exec
<1>2. u \in Context /\ UserFrame \in SUBSET Bits
  BY DEF Inv, TypeOK, Context, UserFrame, Bits
<1>3. "SUM" \in UserFrame /\ "SPIE" \in UserFrame /\ "SPP" \notin UserFrame
  BY <1>1 DEF Inv, HandlerCanRun, UserFrame
<1>4. \A c \in Context : /\ at'[c] = IF c = u THEN "restore" ELSE at[c]
                         /\ frame'[c] = IF c = u THEN UserFrame ELSE frame[c]
  BY <1>1, <1>2 DEF Inv, TypeOK
<1>5. \A v \in User : v \in Context /\ v # "idle" /\ v # "boot"
  BY UserAssumption DEF Context
<1>6. TypeOK'
  BY <1>1, <1>2 DEF Inv, TypeOK
<1>7. Located' /\ BitsKnown' /\ PrivilegeSeparated' /\ HandlerCanRun' /\ NotInterrupted'
  BY <1>1 DEF Inv, Located, BitsKnown, PrivilegeSeparated, HandlerCanRun, NotInterrupted
<1>8. FlagsKnown'
  BY <1>1, <1>4, <1>5 DEF Inv, FlagsKnown
<1>9. FramesPreemptible'
  BY <1>3, <1>4, <1>5 DEF Inv, FramesPreemptible
<1>10. Trapped'
  BY <1>1, <1>4, <1>5 DEF Inv, Trapped
<1> QED
  BY <1>6, <1>7, <1>8, <1>9, <1>10 DEF Inv

\* A thread comes back to its trap with the bits it left with.
LEMMA SwitchToTrapInv ==
  ASSUME Inv, NEW u \in User, SwitchToTrap(u)
  PROVE  Inv'
<1>1. /\ pc = "acquire" /\ pc' = "trap" /\ at[u] = "trap" /\ who' = u
      /\ at' = [at EXCEPT ![u] = "user"] /\ sstatus' = sstatus \union flags[u]
      /\ UNCHANGED <<sie, stvec, mode, frame, flags>>
  BY DEF SwitchToTrap
<1>2. u \in Context /\ u # "idle" /\ u # "boot"
  BY UserAssumption DEF Context
<1>3. "SIE" \notin sstatus' /\ "SUM" \in sstatus'
  BY <1>1 DEF Inv, NotInterrupted, FlagsKnown
<1>4. \A v \in User : at'[v] = IF v = u THEN "user" ELSE at[v]
  BY <1>1, <1>2 DEF Inv, TypeOK, Context
<1>5. TypeOK'
  BY <1>1, <1>2 DEF Inv, TypeOK, Pc
<1>6. Located' /\ BitsKnown' /\ PrivilegeSeparated' /\ HandlerCanRun' /\ NotInterrupted'
  BY <1>1, <1>3 DEF Inv, Located, BitsKnown, PrivilegeSeparated, HandlerCanRun, NotInterrupted, BootPc
<1>7. FlagsKnown'
  BY <1>1, <1>4 DEF Inv, FlagsKnown
<1>8. FramesPreemptible'
  BY <1>1, <1>4 DEF Inv, FramesPreemptible
<1>9. Trapped'
  BY <1>1, <1>2, <1>4 DEF Trapped
<1> QED
  BY <1>5, <1>6, <1>7, <1>8, <1>9 DEF Inv

\* The idle thread between its interrupts.
LEMMA IdleInv ==
  ASSUME Inv, DisableInterrupts \/ EnableAndWfi
  PROVE  Inv'
<1>1. /\ pc \in {"idleEntry", "mask", "acquire"} /\ pc' \in {"acquire", "enabled"}
      /\ pc' = "acquire" => "SIE" \notin sstatus'
      /\ UNCHANGED <<sie, stvec, mode, who, frame, at, flags>>
  BY DEF DisableInterrupts, EnableAndWfi
<1>2. TypeOK'
  BY DEF Inv, TypeOK, Pc, Bits, DisableInterrupts, EnableAndWfi
<1>3. Located' /\ BitsKnown' /\ PrivilegeSeparated' /\ HandlerCanRun' /\ NotInterrupted'
  BY <1>1 DEF Inv, Located, BitsKnown, PrivilegeSeparated, HandlerCanRun, NotInterrupted, BootPc
<1>4. FlagsKnown' /\ FramesPreemptible' /\ Trapped'
  BY <1>1 DEF Inv, FlagsKnown, FramesPreemptible, Trapped
<1> QED
  BY <1>2, <1>3, <1>4 DEF Inv
------------------------------------------------------------------------------
\* Every step of the kernel and of the hart.
THEOREM StepInv == Inv /\ [Next]_vars => Inv'
<1> SUFFICES ASSUME Inv, [Next]_vars PROVE Inv'
  OBVIOUS
<1>1. CASE InitMemory \/ InitInterrupt \/ (\E u \in User : InitThread(u)) \/ InitTimer
  BY <1>1, BootInv
<1>2. CASE RunCPU \/ \E u \in User : SwitchToNew(u)
  BY <1>2, RestoreInv
<1>3. CASE Interrupt \/ Ecall
  BY <1>3, EnterInv
<1>4. CASE Return
  BY <1>4, ReturnInv
<1>5. CASE SwitchOut \/ Exit
  BY <1>5, LeaveInv
<1>6. CASE \E u \in User : Exec(u)
  BY <1>6, ExecInv
<1>7. CASE \E u \in User : SwitchToTrap(u)
  BY <1>7, SwitchToTrapInv
<1>8. CASE DisableInterrupts \/ EnableAndWfi
  BY <1>8, IdleInv
<1>9. CASE UNCHANGED vars
  BY <1>9 DEF vars, Inv, TypeOK, Located, BitsKnown, FlagsKnown, Trapped,
              PrivilegeSeparated, HandlerCanRun, NotInterrupted, FramesPreemptible
<1> QED
  BY <1>1, <1>2, <1>3, <1>4, <1>5, <1>6, <1>7, <1>8, <1>9 DEF Next

\* The invariant holds in every run.
THEOREM SpecInv == Spec => []Inv
BY InitInv, StepInv, PTL DEF Spec

\* The registers hold known bits only (riscv.h, interrupt.c, timer.c).
THEOREM TypeCorrect == Spec => []TypeOK
BY SpecInv, PTL DEF Inv

\* Programs run in U-mode and the kernel in S-mode, through every order of
\* traps, switches and returns (interrupt.S, switch.S, thread.c:70 and 100).
THEOREM PrivilegesHold == Spec => []PrivilegeSeparated
BY SpecInv, PTL DEF Inv

\* Every trap finds the vector and, from a program, SUM (main.c:39-42,
\* memory.c:89, timer.c:21, interrupt.S).
THEOREM HandlersCanRun == Spec => []HandlerCanRun
BY SpecInv, PTL DEF Inv

\* No handler and no critical section of the idle thread is interrupted
\* (processor.c:54-96 and 119-165).
THEOREM KernelNotInterrupted == Spec => []NotInterrupted
BY SpecInv, PTL DEF Inv

\* Every frame the kernel may return to leads to an interruptible program.
THEOREM FramesStayPreemptible == Spec => []FramesPreemptible
BY SpecInv, PTL DEF Inv
==============================================================================
