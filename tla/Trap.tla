-------------------------------- MODULE Trap --------------------------------
(***************************************************************************)
(* Privilege and interrupt state: what the boot sequence of main.c, the    *)
(* trap entry and exit of interrupt.S, the context switch and the helpers  *)
(* of riscv.h do to sstatus and sie.  Both registers are sets of the bits  *)
(* that are set.  Which thread runs next is left open here (Kernel.tla has *)
(* the scheduler): any thread with a context may be switched to.  A switch *)
(* back into a trap is taken to succeed; Kernel.tla has the page tables    *)
(* it depends on (UserStackMapped).                                        *)
(*                                                                         *)
(* A definition named ..._Slip is its neighbour below with one plausible   *)
(* mistake in it, to show that the properties notice the mistake.          *)
(***************************************************************************)
EXTENDS FiniteSets

CONSTANTS User  \* slots for user threads

ASSUME UserAssumption == {"boot", "idle"} \intersect User = {}

Bits == {"SIE", "SPIE", "SPP", "SUM"}
Sources == {"timer", "external"}
Context == User \union {"boot", "idle"}

VARIABLES
  sstatus,  \* bits set in sstatus
  sie,      \* bits set in sie
  stvec,    \* is the trap vector set?
  mode,     \* privilege the hart runs with, "S" or "U"
  who,      \* whose context the hart runs
  frame,    \* the sstatus in the trap frame on the stack of each context
  at,       \* what a switch to the context leads to: restore, trap code or nothing
  flags,    \* sstatus as disable_and_store returned it on each context
  pc        \* where the hart is

vars == <<sstatus, sie, stvec, mode, who, frame, at, flags, pc>>

BootPc == {"initMemory", "initInterrupt", "initThread", "initTimer", "runCPU"}
Pc == BootPc \union {"idleEntry", "acquire", "enabled", "mask", "user", "trap"}
------------------------------------------------------------------------------
\* OpenSBI enters the kernel in S-mode with interrupts off.
Init ==
  /\ sstatus = {} /\ sie = {} /\ stvec = FALSE
  /\ mode = "S" /\ who = "boot" /\ pc = "initMemory"
  /\ frame = [c \in Context |-> {}]
  /\ flags = [c \in Context |-> {}]
  /\ at = [c \in Context |-> "nowhere"]

(* A trap clears SIE and keeps its old value in SPIE and the old mode in   *)
(* SPP.                                                                    *)
Taken == (IF "SIE" \in sstatus THEN {"SPIE"} ELSE {})
           \union (IF mode = "S" THEN {"SPP"} ELSE {})
           \union (sstatus \intersect {"SUM"})

\* csrw sstatus with a saved value, then sret.
Sret(saved) ==
  /\ mode' = IF "SPP" \in saved THEN "S" ELSE "U"
  /\ sstatus' = (IF "SPIE" \in saved THEN {"SIE"} ELSE {})
                  \union {"SPIE"} \union (saved \intersect {"SUM"})

(* The first frame of a thread is made from the sstatus of its maker.      *)
UserFrame_SppSlip == (sstatus \ {"SIE"}) \union {"SPIE", "SPP"}
UserFrame_SumSlip == {"SPIE"}
UserFrame_SpieSlip == sstatus \ {"SPP", "SIE"}
UserFrame == (sstatus \ {"SPP", "SIE"}) \union {"SPIE"}
KernelFrame == (sstatus \ {"SIE"}) \union {"SPIE", "SPP"}
------------------------------------------------------------------------------
(* main: the initialisation, in its order.                                 *)

InitMemory ==
  /\ pc = "initMemory"
  /\ sstatus' = sstatus \union {"SUM"}
  /\ pc' = "initInterrupt"
  /\ UNCHANGED <<sie, stvec, mode, who, frame, at, flags>>

InitInterrupt ==
  /\ pc = "initInterrupt"
  /\ stvec' = TRUE
  /\ sie' = sie \union {"external"}
  /\ pc' = "initThread"
  /\ UNCHANGED <<sstatus, mode, who, frame, at, flags>>

\* The idle thread and the shell.
InitThread(u) ==
  /\ pc = "initThread"
  /\ frame' = [frame EXCEPT !["idle"] = KernelFrame, ![u] = UserFrame]
  /\ at' = [at EXCEPT !["idle"] = "restore", ![u] = "restore"]
  /\ pc' = "initTimer"
  /\ UNCHANGED <<sstatus, sie, stvec, mode, who, flags>>

\* SIE_SSIE is written for SIE_STIE.
InitTimer_Slip ==
  /\ pc = "initTimer"
  /\ sie' = {"software"}
  /\ sstatus' = {"SIE"}
  /\ pc' = "runCPU"
  /\ UNCHANGED <<stvec, mode, who, frame, at, flags>>

\* Both registers are written, not updated.
InitTimer ==
  /\ pc = "initTimer"
  /\ sie' = {"timer"}
  /\ sstatus' = {"SIE"}
  /\ pc' = "runCPU"
  /\ UNCHANGED <<stvec, mode, who, frame, at, flags>>

\* The first switch to the idle thread goes through __restore.
RunCPU ==
  /\ pc = "runCPU"
  /\ who' = "idle"
  /\ at' = [at EXCEPT !["idle"] = "nowhere"]
  /\ Sret(frame["idle"])
  /\ pc' = "idleEntry"
  /\ UNCHANGED <<sie, stvec, frame, flags>>
------------------------------------------------------------------------------
(* Traps.  `at' of the trapped context remembers where to go on.           *)

Enter ==
  /\ frame' = [frame EXCEPT ![who] = Taken]
  /\ at' = [at EXCEPT ![who] = pc]
  /\ mode' = "S"
  /\ sstatus' = Taken
  /\ pc' = "trap"
  /\ UNCHANGED <<sie, stvec, who, flags>>

\* In U-mode S-mode interrupts are taken whatever SIE says.
Interrupt ==
  /\ sie # {}
  /\ mode = "U" \/ "SIE" \in sstatus
  /\ Enter

Ecall == pc = "user" /\ Enter

\* The handler returns through __restore.
Return ==
  /\ pc = "trap"
  /\ Sret(frame[who])
  /\ pc' = IF at[who] = "enabled" THEN "mask" ELSE at[who]
  /\ at' = [at EXCEPT ![who] = "nowhere"]
  /\ UNCHANGED <<sie, stvec, who, frame, flags>>
------------------------------------------------------------------------------
(* Switches.  switch.S leaves sstatus alone.                               *)

\* yieldCPU and tickCPU: disable_and_store, then to the idle thread.
SwitchOut ==
  /\ pc = "trap" /\ who \in User
  /\ flags' = [flags EXCEPT ![who] = sstatus]
  /\ sstatus' = sstatus \ {"SIE"}
  /\ at' = [at EXCEPT ![who] = "trap"]
  /\ who' = "idle"
  /\ pc' = "acquire"
  /\ UNCHANGED <<sie, stvec, mode, frame>>

\* exitFromCPU: nothing of the thread is left.
Exit ==
  /\ pc = "trap" /\ who \in User
  /\ sstatus' = sstatus \ {"SIE"}
  /\ at' = [at EXCEPT ![who] = "nowhere"]
  /\ who' = "idle"
  /\ pc' = "acquire"
  /\ UNCHANGED <<sie, stvec, mode, frame, flags>>

\* executeCPU: the new thread inherits from the sstatus of the trap.
Exec(u) ==
  /\ pc = "trap" /\ who \in User /\ u # who /\ at[u] = "nowhere"
  /\ frame' = [frame EXCEPT ![u] = UserFrame]
  /\ at' = [at EXCEPT ![u] = "restore"]
  /\ UNCHANGED <<sstatus, sie, stvec, mode, who, flags, pc>>

\* The idle thread switches to a new thread, which enters its program ...
SwitchToNew(u) ==
  /\ pc = "acquire" /\ at[u] = "restore"
  /\ who' = u
  /\ at' = [at EXCEPT ![u] = "nowhere"]
  /\ Sret(frame[u])
  /\ pc' = "user"
  /\ UNCHANGED <<sie, stvec, frame, flags>>

\* ... or to one that left in a trap, which sets the bits it saved.
SwitchToTrap(u) ==
  /\ pc = "acquire" /\ at[u] = "trap"
  /\ who' = u
  /\ at' = [at EXCEPT ![u] = "user"]
  /\ sstatus' = sstatus \union flags[u]
  /\ pc' = "trap"
  /\ UNCHANGED <<sie, stvec, mode, frame, flags>>
------------------------------------------------------------------------------
(* The idle thread: disable_and_store at the entry and after wfi,          *)
(* enable_and_wfi in between.                                              *)

DisableInterrupts_Slip ==
  /\ pc \in {"idleEntry", "mask"}
  /\ pc' = "acquire"
  /\ UNCHANGED <<sstatus, sie, stvec, mode, who, frame, at, flags>>

DisableInterrupts ==
  /\ pc \in {"idleEntry", "mask"}
  /\ sstatus' = sstatus \ {"SIE"}
  /\ pc' = "acquire"
  /\ UNCHANGED <<sie, stvec, mode, who, frame, at, flags>>

EnableAndWfi ==
  /\ pc = "acquire"
  /\ sstatus' = sstatus \union {"SIE"}
  /\ pc' = "enabled"
  /\ UNCHANGED <<sie, stvec, mode, who, frame, at, flags>>

Next ==
  \/ InitMemory \/ InitInterrupt \/ (\E u \in User : InitThread(u)) \/ InitTimer \/ RunCPU
  \/ Interrupt \/ Ecall \/ Return \/ SwitchOut \/ Exit
  \/ \E u \in User : Exec(u) \/ SwitchToNew(u) \/ SwitchToTrap(u)
  \/ DisableInterrupts \/ EnableAndWfi

Spec == Init /\ [][Next]_vars
------------------------------------------------------------------------------
\* The registers hold known bits only; sie never gets a source that the
\* kernel has no handler for.
TypeOK ==
  /\ sstatus \subseteq Bits
  /\ sie \subseteq Sources
  /\ stvec \in BOOLEAN
  /\ mode \in {"S", "U"}
  /\ who \in Context
  /\ frame \in [Context -> SUBSET Bits]
  /\ at \in [Context -> Pc \union {"restore", "nowhere"}]
  /\ flags \in [Context -> SUBSET Bits]
  /\ pc \in Pc

\* Programs run unprivileged and everything else privileged, through every
\* order of traps, switches and returns (the SPP bit set and cleared in
\* thread.c:70 and 100, interrupt.S:75 and 89).
PrivilegeSeparated == mode = "U" <=> pc = "user"

\* A trap finds the vector set, and when it comes from a user program SUM
\* as well, which the kernel needs to work on the user stack.  initTimer
\* clears SUM (timer.c:21) and no code sets it again: it survives in the
\* frames that initThread made before (main.c:39-41, memory.c:89).
HandlerCanRun ==
  pc = "trap" => stvec /\ (who \in User => "SUM" \in sstatus)

\* No interrupt is taken while the kernel works on the pool and the ready
\* queue: SIE is off in every handler and in the idle thread outside wfi.
NotInterrupted == pc \in {"trap", "acquire"} => "SIE" \notin sstatus

\* A program the kernel returns to can be interrupted again: every frame on
\* a user stack leads back to U-mode with interrupts enabled.
FramesPreemptible ==
  \A u \in User : at[u] \in {"restore", "trap", "user"} =>
    "SPIE" \in frame[u] /\ "SPP" \notin frame[u] /\ "SUM" \in frame[u]

\* interrupt.c:42: external interrupts are enabled (from initInterrupt on).
ExternalEnabled == pc \notin {"initMemory", "initInterrupt"} => "external" \in sie
==============================================================================
