------------------------------ MODULE MCMapping ------------------------------
(***************************************************************************)
(* Tables of 3, 2 and 19 entries, pages of 19 words, 38 physical pages.    *)
(* As in the machine, a program, its stack and the kernel hang on entries  *)
(* of their own in the root table, and the devices beside the stack.       *)
(***************************************************************************)
EXTENDS Mapping

CONSTANTS w, z  \* a word of a program, and 0

SomeFan == [l \in Level |-> <<3, 2, 19>>[l + 1]]

\* Root entry 1 begins with page 38, physical page 0; the memory is behind
\* root entry 2, from physical page 38 on.
Pages(a, n, rights) ==
  [start |-> (38 + a) * 19, end |-> (38 + a + n) * 19, flags |-> rights]

SomeKernelSegs ==
  <<Pages(38, 1, {"R", "X"}), Pages(39, 1, {"R"}), Pages(40, 1, {"R", "W"}),
    Pages(41, 1, {"R", "W"}), Pages(42, 34, {"R", "W"})>>
SomeDeviceSegs == <<Pages(4, 1, {"R", "W"}), Pages(6, 1, {"R", "W"})>>
SomeStackSeg == Pages(0, 2, {"U", "R", "W"})

\* One page behind the kernel and two at the end are never handed out
\* (memory.c:94-96 and 134).
SomeFrames == 43 .. 73

\* Memory that happens to look like an entry.
SomeGarbage == {z, [ppn |-> 44, flags |-> {"U", "R"}]}

Data(n) == [i \in 1 .. n |-> IF i % 3 = 0 THEN z ELSE w]
Load(rights, addr, size, n) ==
  [load |-> TRUE, flags |-> rights, vaddr |-> addr, memsz |-> size, data |-> Data(n)]

Elf(headers) == [magic |-> TRUE, headers |-> headers]

SomePrograms ==
  { \* as the linker makes them: code, then variables without values
    Elf(<<Load({"R", "X"}, 19, 12, 12), Load({"R", "W"}, 48, 20, 0)>>),
    \* more than a page, more memory than file, two leaf tables, a header
    \* that is not to be loaded
    Elf(<<[Load({}, 0, 19, 0) EXCEPT !.load = FALSE], Load({"R", "X"}, 17 * 19, 50, 25)>>),
    \* variables with values
    Elf(<<Load({"R", "W"}, 45, 5, 5)>>),
    \* two segments in a page
    Elf(<<Load({"R", "X"}, 19, 12, 12), Load({"R", "W"}, 33, 4, 0)>>),
    \* a segment in the kernel
    Elf(<<Load({"R", "W"}, 77 * 19, 1, 1)>>),
    \* no program
    [magic |-> FALSE, headers |-> << >>] }

\* What ProgramsLoaded and SpacesImplemented ask of programs is true of these.
ASSUME ProgramsFit
==============================================================================
