------------------------------- MODULE Mapping -------------------------------
(***************************************************************************)
(* Page tables: kernel/mapping.c, the ELF loader (elf.c) and what          *)
(* newUserThread (thread.c) adds to the tables of a program.  The tables   *)
(* lie in frames of physical memory, beside the pages of the programs: mem *)
(* is that memory, a word at a time, and an entry of a table is a word.    *)
(* What the hardware makes of the tables is Translate, defined apart from  *)
(* the code that builds them.                                              *)
(*                                                                         *)
(* A step is one round of the loop in findEntry, or the entry of a page;   *)
(* todo is the list of pages the loops around it have still to enter.      *)
(* Nothing else runs in between: the tables are built at boot and in       *)
(* sysExec, with interrupts disabled.  No frame is ever given back.        *)
(*                                                                         *)
(* A definition named ..._Slip is its neighbour below with one plausible   *)
(* mistake in it, to show that the properties notice the mistake.          *)
(***************************************************************************)
EXTENDS Integers, SequencesExt

CONSTANTS
  Fan,           \* entries of the tables by level, 512 each
  PageSize,      \* in words
  Word, Zero,    \* words of programs and the word 0
  Garbage,       \* what the memory may be full of at power on
  MemoryEnd,     \* MEMORY_END_PADDR, as a page
  KernelOffset,  \* KERNEL_PAGE_OFFSET: the virtual page of physical page 0
  KernelSegs,    \* text, rodata, data, bss and the memory behind them
  DeviceSegs,    \* PLIC and UART
  Frame,         \* physical pages of the frame allocator
  StackSeg,      \* USER_STACK_OFFSET and USER_STACK_SIZE
  Program,       \* ELF files
  KernelOnly     \* instead of one: the mapping of mapKernel

Level == 0 .. 2
Cell == 0 .. PageSize - 1
VPages == Fan[0] * Fan[1] * Fan[2]
VPage == 0 .. VPages - 1
Rights == {"R", "W", "X"}
Flag == Rights \union {"U"}

\* What makes an entry that of a page; a page that can be written but not read
\* is reserved.
Usable(flags) == flags \intersect {"R", "X"} # {} /\ ("W" \in flags => "R" \in flags)

Ppn == 0 .. MemoryEnd - 1
Pte == [ppn : Ppn, flags : SUBSET Flag]  \* an entry that is not 0, so VALID is set

Segment == [start : Nat, end : Nat, flags : SUBSET Flag]

\* Segments of the kernel and of devices lie between KernelOffset and the
\* image of MemoryEnd, and each has some rights, USER not among them.  In a
\* file, nothing that is to be loaded ends at address 0, where Count would wrap.
LinearSegment ==
  {seg \in Segment : /\ seg.flags \subseteq Rights /\ Usable(seg.flags)
                     /\ KernelOffset * PageSize <= seg.start
                     /\ seg.end <= (KernelOffset + MemoryEnd) * PageSize}

ProgHeader ==
  {h \in [load : BOOLEAN, flags : SUBSET Rights, vaddr : Nat, memsz : Nat, data : Seq(Word)] :
     h.load => h.vaddr + h.memsz > 0}

\* The image of the memory and the user stack are within reach of the tables;
\* the allocator has none but pages behind the kernel (memory.c:90-96).
ASSUME MappingAssumption ==
  /\ Fan \in [Level -> 1 .. PageSize] /\ PageSize \in Nat
  /\ Zero \in Word /\ Word \intersect Pte = {} /\ Garbage \subseteq Word \union Pte
  /\ KernelOffset \in Nat /\ MemoryEnd \in Nat /\ KernelOffset + MemoryEnd <= VPages
  /\ KernelSegs \in Seq(LinearSegment) /\ DeviceSegs \in Seq(LinearSegment)
  /\ StackSeg \in Segment /\ StackSeg.flags = {"U", "R", "W"} /\ StackSeg.end <= VPages * PageSize
  /\ Frame \subseteq Ppn
  /\ \A f \in Frame : \E seg \in Range(KernelSegs) :
       /\ seg.flags = {"R", "W"}
       /\ seg.start <= (KernelOffset + f) * PageSize /\ (KernelOffset + f) * PageSize < seg.end
  /\ KernelOnly \notin Program
  /\ \A e \in Program : e.magic \in BOOLEAN /\ e.headers \in Seq(ProgHeader)

VARIABLES
  mem,      \* the frames, as words
  taken,    \* frames handed out
  spaces,   \* history: the mappings that are finished, and what they are for
  root,     \* the mapping under construction: rootPpn
  program,  \* ... and the ELF file it is for
  todo,     \* pages still to enter, the first being the one findEntry walks to
  table,    \* findEntry: the table it has come to
  level,    \* findEntry: how many levels it has gone down
  pc        \* "ready", "kernel", "program" or one of two panics

walkVars == <<todo, table, level>>
vars == <<mem, taken, spaces, root, program, walkVars, pc>>
------------------------------------------------------------------------------
(* Pages of a segment, in the order of the loops.                          *)

First(seg) == seg.start \div PageSize
Count(seg) == (seg.end - 1) \div PageSize + 1 - First(seg)

\* mapLinearSegment
LinearPages(seg) ==
  [i \in 1 .. Count(seg) |->
     [kind |-> "linear", vpn |-> First(seg) + i - 1, flags |-> seg.flags]]

\* mapFramedAndCopy: the source is not moved on with the pages.
CopiedPages_Slip(seg, data) ==
  [i \in 1 .. Count(seg) |->
     [kind |-> "copied", vpn |-> First(seg) + i - 1, flags |-> seg.flags,
      words |-> [c \in Cell |-> IF c < Len(data) THEN data[c + 1] ELSE Zero]]]

\* mapFramedAndCopy: the first word of data goes to the first one of a page,
\* wherever in the page the segment starts.
CopiedPages(seg, data) ==
  [i \in 1 .. Count(seg) |->
     [kind |-> "copied", vpn |-> First(seg) + i - 1, flags |-> seg.flags,
      words |-> [c \in Cell |-> LET at == (i - 1) * PageSize + c + 1
                                IN IF at <= Len(data) THEN data[at] ELSE Zero]]]

\* mapFramedSegment
FramedPages(seg) ==
  [i \in 1 .. Count(seg) |->
     [kind |-> "framed", vpn |-> First(seg) + i - 1, flags |-> seg.flags]]

KernelPages == FlattenSeq([i \in DOMAIN KernelSegs |-> LinearPages(KernelSegs[i])])
DevicePages == FlattenSeq([i \in DOMAIN DeviceSegs |-> LinearPages(DeviceSegs[i])])

ConvertElfFlags(flags) == flags \union {"U"}

LoadSegment(h) ==
  [start |-> h.vaddr, end |-> h.vaddr + h.memsz, flags |-> ConvertElfFlags(h.flags)]

\* The loop of newUserMapping, which passes over what is not to be loaded,
\* and the user stack of newUserThread.
HeaderPages(h) == IF h.load THEN CopiedPages(LoadSegment(h), h.data) ELSE << >>

ProgramPages(e) ==
  FlattenSeq([i \in DOMAIN e.headers |-> HeaderPages(e.headers[i])]) \o FramedPages(StackSeg)
------------------------------------------------------------------------------
\* alloc finds the first frame that is free (FrameAllocator.tla) ...
Take(f) ==
  /\ f \in Frame \ taken /\ \A g \in Frame \ taken : f <= g
  /\ taken' = taken \union {f}

\* ... and allocFrame clears it.
Cleared(f) == [mem EXCEPT ![f] = [c \in Cell |-> Zero]]

\* The index of the top level is not masked away at the next one.
GetVpnLevels_Slip(vpn) ==
  <<(vpn \div (Fan[1] * Fan[2])) % Fan[0], vpn \div Fan[2], vpn % Fan[2]>>

GetVpnLevels(vpn) ==
  <<(vpn \div (Fan[1] * Fan[2])) % Fan[0], (vpn \div Fan[2]) % Fan[1], vpn % Fan[2]>>

Page == Head(todo)
Index == GetVpnLevels(Page.vpn)[level + 1]
Entry == mem[table][Index]
Walking == pc \in {"kernel", "program"} /\ todo # << >>
AtEntry == Walking /\ level = 2

NextPage == todo' = Tail(todo) /\ table' = root /\ level' = 0
------------------------------------------------------------------------------
Init ==
  /\ \E g \in Garbage : mem = [f \in Frame |-> [c \in Cell |-> g]]
  /\ taken = {} /\ spaces = << >>
  /\ root = 0 /\ program = KernelOnly
  /\ todo = << >> /\ table = 0 /\ level = 0
  /\ pc = "ready"

\* Programs are entered in the tables that are there, the kernel's own.
NewKernelMapping_Slip(e) ==
  /\ pc = "ready" /\ (e = KernelOnly <=> spaces = << >>)
  /\ IF e = KernelOnly
     THEN /\ \E f \in Frame : Take(f) /\ mem' = Cleared(f) /\ root' = f /\ table' = f
          /\ todo' = KernelPages
     ELSE root' = spaces[1].root /\ table' = root' /\ todo' = << >> /\ UNCHANGED <<mem, taken>>
  /\ level' = 0 /\ program' = e
  /\ pc' = "kernel"
  /\ UNCHANGED spaces

\* newKernelMapping, for mapKernel first and then for programs.
NewKernelMapping(e) ==
  /\ pc = "ready" /\ (e = KernelOnly <=> spaces = << >>)
  /\ \E f \in Frame : Take(f) /\ mem' = Cleared(f) /\ root' = f /\ table' = f
  /\ level' = 0
  /\ program' = e /\ todo' = KernelPages
  /\ pc' = "kernel"
  /\ UNCHANGED spaces

\* findEntry, one round: there is a table ...
Descend ==
  /\ Walking /\ level < 2 /\ Entry # Zero
  /\ table' = Entry.ppn /\ level' = level + 1
  /\ UNCHANGED <<mem, taken, spaces, root, program, todo, pc>>

\* ... or there will be one.
AddTable ==
  /\ Walking /\ level < 2 /\ Entry = Zero
  /\ \E f \in Frame :
       Take(f) /\ mem' = [Cleared(f) EXCEPT ![table][Index] = [ppn |-> f, flags |-> {}]]
  /\ UNCHANGED <<spaces, root, program, walkVars, pc>>

\* KERNEL_PAGE_OFFSET is not subtracted.
MapLinear_Slip ==
  /\ AtEntry /\ Entry = Zero /\ Page.kind = "linear"
  /\ mem' = [mem EXCEPT ![table][Index] = [ppn |-> Page.vpn, flags |-> Page.flags]]
  /\ NextPage
  /\ UNCHANGED <<taken, spaces, root, program, pc>>

\* The body of mapLinearSegment.
MapLinear ==
  /\ AtEntry /\ Entry = Zero /\ Page.kind = "linear"
  /\ mem' = [mem EXCEPT ![table][Index] =
               [ppn |-> Page.vpn - KernelOffset, flags |-> Page.flags]]
  /\ NextPage
  /\ UNCHANGED <<taken, spaces, root, program, pc>>

\* The frame is given back when it has been filled.
MapFramed_Slip ==
  /\ AtEntry /\ Entry = Zero /\ Page.kind # "linear"
  /\ \E f \in Frame \ taken :
       /\ \A g \in Frame \ taken : f <= g
       /\ mem' = [Cleared(f) EXCEPT ![table][Index] = [ppn |-> f, flags |-> Page.flags]]
  /\ NextPage
  /\ UNCHANGED <<taken, spaces, root, program, pc>>

\* The bodies of mapFramedAndCopy and of mapFramedSegment, which leaves the
\* frame as allocFrame made it.
MapFramed ==
  /\ AtEntry /\ Entry = Zero /\ Page.kind # "linear"
  /\ \E f \in Frame :
       /\ Take(f)
       /\ mem' = [Cleared(f) EXCEPT
                    ![table][Index] = [ppn |-> f, flags |-> Page.flags],
                    ![f] = IF Page.kind = "copied" THEN Page.words ELSE @]
  /\ NextPage
  /\ UNCHANGED <<spaces, root, program, pc>>

\* panic("Virtual address already mapped!\n")
AlreadyMapped ==
  /\ AtEntry /\ Entry # Zero
  /\ pc' = "panicked"
  /\ UNCHANGED <<mem, taken, spaces, root, program, walkVars>>

\* mapKernel: mapExtInterruptArea.
MapExtInterruptArea ==
  /\ pc = "kernel" /\ todo = << >> /\ program = KernelOnly
  /\ todo' = DevicePages
  /\ pc' = "program"
  /\ UNCHANGED <<mem, taken, spaces, root, program, table, level>>

\* newUserMapping looks at the file only when the kernel is mapped.
NewUserMapping ==
  /\ pc = "kernel" /\ todo = << >> /\ program # KernelOnly
  /\ IF program.magic
     THEN todo' = ProgramPages(program) /\ pc' = "program"
     ELSE pc' = "panicked" /\ UNCHANGED todo
  /\ UNCHANGED <<mem, taken, spaces, root, program, table, level>>

\* The root goes to satp: in activateMapping, or with the thread's context.
Finish ==
  /\ pc = "program" /\ todo = << >>
  /\ spaces' = Append(spaces, [root |-> root, program |-> program])
  /\ pc' = "ready"
  /\ UNCHANGED <<mem, taken, root, program, walkVars>>

\* allocFrame, from any of the places above: panic in alloc.
Depleted ==
  /\ taken = Frame
  /\ \/ pc = "ready"
     \/ Walking /\ Entry = Zero /\ (level < 2 \/ Page.kind # "linear")
  /\ pc' = "depleted"
  /\ UNCHANGED <<mem, taken, spaces, root, program, walkVars>>

Stuck == pc \in {"panicked", "depleted"} /\ UNCHANGED vars

Next ==
  \/ \E e \in Program \union {KernelOnly} : NewKernelMapping(e)
  \/ Descend \/ AddTable \/ MapLinear \/ MapFramed \/ AlreadyMapped
  \/ MapExtInterruptArea \/ NewUserMapping \/ Finish \/ Depleted \/ Stuck

Spec == Init /\ [][Next]_vars
------------------------------------------------------------------------------
(* What the hardware does with a root table (Sv39).                        *)

Unmapped == [ppn |-> 0, flags |-> {}]

Split(v) == <<v \div (Fan[1] * Fan[2]), (v \div Fan[2]) % Fan[1], v % Fan[2]>>

IsTable(e) == e \in Pte /\ e.flags = {}
IsLeaf(e) == e \in Pte /\ Usable(e.flags)
Fetch(ppn, i) == IF ppn \in Frame THEN mem[ppn][i] ELSE Zero

Translate(r, v) ==
  LET i == Split(v)
      top == Fetch(r, i[1])
      middle == Fetch(top.ppn, i[2])
      last == Fetch(middle.ppn, i[3])
  IN IF IsTable(top) /\ IsTable(middle) /\ IsLeaf(last) THEN last ELSE Unmapped

\* Tables the hardware looks at, from root r.
Below(ts) == {e.ppn : e \in {x \in UNION {Range(mem[t]) : t \in ts} : IsTable(x)}}
Tables(r) ==
  LET middle == Below({r}) IN {r} \union middle \union Below(middle)

\* All mappings, with the one under construction at the end.
Roots ==
  [i \in DOMAIN spaces |-> spaces[i].root]
    \o (IF pc = "ready" \/ (pc = "depleted" /\ todo = << >>) THEN << >> ELSE <<root>>)

UserPages(r) == {v \in VPage : "U" \in Translate(r, v).flags}
UserFrames(r) == {Translate(r, v).ppn : v \in UserPages(r)}
------------------------------------------------------------------------------
\* Entries stay in the range of physical pages, and findEntry is at a table
\* of the mapping under construction.
TypeOK ==
  /\ mem \in [Frame -> [Cell -> Word \union Pte]]
  /\ taken \subseteq Frame
  /\ spaces \in Seq([root : taken, program : Program \union {KernelOnly}])
  /\ level \in Level
  /\ Walking => root \in taken /\ table \in Tables(root)
  /\ pc \in {"ready", "kernel", "program", "panicked", "depleted"}

Spaces == INSTANCE AddressSpaces WITH
  maps <- [i \in DOMAIN Roots |-> [v \in VPage |-> Translate(Roots[i], v)]],
  asked <- [i \in DOMAIN todo |-> [vpn |-> todo[i].vpn, flags |-> todo[i].flags,
                                   framed |-> todo[i].kind # "linear"]]

\* The tables translate exactly the pages that have been entered, each to
\* the physical page and with the rights it was asked for: no entry lands in
\* another table, another space or where the hardware does not look, and no
\* step changes or hides an older one (mapping.c:41-65 and the three loops
\* that call it).
SpacesSpec == Spaces!Spec

\* What a user program can reach is its own: frames that are in use, that no
\* other program can reach, and of which none holds a page table of anyone
\* (mapping.c:55 and 105, thread.c:164: one pool of frames for both).
UserIsolated ==
  \A r \in Range(Roots) :
    /\ UserFrames(r) \subseteq taken
    /\ \A s \in Range(Roots) : /\ UserFrames(r) \intersect Tables(s) = {}
                             /\ r # s => UserFrames(r) \intersect UserFrames(s) = {}

SegPages(seg) == {p.vpn : p \in Range(LinearPages(seg))}

\* The kernel runs on through a change of satp (switch.S:28, mapping.c:143):
\* every finished space has each page of the kernel at the same place with
\* the same rights, and each frame where accessVaViaPa expects it.  But the
\* space of the idle thread has no user page at all: a context on a user
\* stack is out of its reach (switch.S:26).
SwitchSafe ==
  /\ \A space \in Range(spaces) :
       /\ \A seg \in Range(KernelSegs) : \A v \in SegPages(seg) :
            Translate(space.root, v) = [ppn |-> v - KernelOffset, flags |-> seg.flags]
       /\ \A f \in Frame :
            Translate(space.root, KernelOffset + f) = [ppn |-> f, flags |-> {"R", "W"}]
  /\ spaces # << >> => UserPages(spaces[1].root) = {}

\* The word at address a of a space.
WordAt(r, a) == mem[Translate(r, a \div PageSize).ppn][a % PageSize]

\* Segments that start with a page, or have nothing in the file: the others
\* are loaded too low in memory.
InPlace(h) == h.vaddr % PageSize = 0 \/ h.data = << >>

\* What the loader takes for granted: every header that is to be loaded is
\* within reach of the tables and asks for rights that a page can have.
ProgramsFit ==
  \A e \in Program : \A h \in Range(e.headers) :
    h.load => Usable(h.flags) /\ h.vaddr + h.memsz <= VPages * PageSize

\* A program finds its file at the addresses the file asks for, zeros behind
\* it, and the rights it asks for (elf.c:47-63, mapping.c:98-132).
SegmentsLoaded ==
  \A space \in Range(spaces) : space.program # KernelOnly =>
    \A h \in Range(space.program.headers) : h.load /\ InPlace(h) =>
      \A i \in 1 .. h.memsz :
        LET a == h.vaddr + i - 1
        IN /\ Translate(space.root, a \div PageSize).flags = ConvertElfFlags(h.flags)
           /\ WordAt(space.root, a) = IF i <= Len(h.data) THEN h.data[i] ELSE Zero
==============================================================================
