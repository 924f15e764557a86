----------------------------- MODULE MCFileDriver -----------------------------
(***************************************************************************)
(* Small host trees: direct has four entries here, so that two files fill  *)
(* a directory and five blocks of two bytes a file.                        *)
(***************************************************************************)
EXTENDS FileDriver

Dir == [dir |-> TRUE, size |-> 0]
File(n) == [dir |-> FALSE, size |-> n]

\* 22070 and 972765882, which fs.img shows to have been on the stack, both lead
\* out of the image: here 30, from which on there is memory, and 99.
MappedNumbers == 0 .. 40

\* What fits into direct: any rubbish may be on the stack.  An empty readme is
\* read, or not, through that rubbish.
Shallow(m, n) ==
  [p \in {<<>>, <<"bin">>, <<"bin", "sh">>, <<"bin", "echo">>, <<"readme">>} |->
     CASE p = <<"readme">> -> File(m)
       [] p = <<"bin", "sh">> -> File(n)
       [] p = <<"bin", "echo">> -> File(1)
       [] OTHER -> Dir]

\* A directory of four entries and, if n > 8, a file in it: both are too large
\* for direct, and read back if the stack holds 0.
Large(m, n) ==
  [p \in {<<>>, <<"bin">>, <<"bin", "sh">>, <<"bin", "echo">>, <<"bin", "a">>, <<"bin", "sub">>} |->
     CASE p = <<"bin", "sh">> -> File(n)
       [] p = <<"bin", "a">> -> File(m)
       [] p = <<"bin", "echo">> -> File(1)
       [] OTHER -> Dir]

SomeInputs ==
  {[host |-> Shallow(m, n), stack |-> s] : m \in 0 .. 3, n \in {2, 7, 8}, s \in {{0}, {30}, {5, 99}}}
    \union {[host |-> Large(m, n), stack |-> {0}] : m \in {0, 4}, n \in {9, 11}}
    \union {[host |-> Large(1, 9), stack |-> {99}]}

\* A large directory with a large program in it, and the stack of fs.img.
BuiltInputs == {[host |-> Large(1, 9), stack |-> {30, 99}]}

\* What the theorems about a finished image ask of the inputs is true of these.
ASSUME StackHarmless
==============================================================================
