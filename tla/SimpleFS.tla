------------------------------- MODULE SimpleFS -------------------------------
(***************************************************************************)
(* mkfs/mksfs.c: the program that packs a directory of the host into the   *)
(* image of a file system.  walk goes through the host's directories in    *)
(* whatever order readdir gives, takes free blocks as it goes and keeps    *)
(* the inodes it has begun on its stack.  The reader of the image is       *)
(* FileDriver.tla.                                                         *)
(*                                                                         *)
(* The indirect field of an inode is never initialised: it is whatever the *)
(* stack holds, either from an earlier inode of the same call of walk or   *)
(* from before (StackWords).                                               *)
(*                                                                         *)
(* A definition named ..._Slip is its neighbour below with one plausible   *)
(* mistake in it, to show that the properties notice the mistake.          *)
(***************************************************************************)
EXTENDS Integers, SequencesExt, FiniteSets

CONSTANTS BlockNum,   \* BLOCK_NUM
          BlockSize,  \* BLOCK_SIZE
          Direct,     \* entries of Inode.direct, 12 in simplefs.h
          Word,       \* 2^32, the range of uint32
          Inputs      \* bound: pairs of a host tree and what is on the stack

\* A host tree maps the paths below the root, as sequences of names, to a
\* directory or a file with a size in bytes.  walk skips . and .. (138-142).
IsTree(h) ==
  /\ IsFiniteSet(DOMAIN h) /\ <<>> \in DOMAIN h /\ h[<<>>].dir
  /\ \A p \in DOMAIN h :
       /\ p \in Seq(STRING) /\ h[p] \in [dir : BOOLEAN, size : 0 .. Word - 1]
       /\ p # <<>> => /\ Front(p) \in DOMAIN h /\ h[Front(p)].dir
                      /\ Last(p) \notin {".", ".."}

ASSUME SimpleFSAssumption ==
  /\ BlockNum \in Nat /\ BlockSize \in Nat /\ Direct \in Nat /\ Word \in Nat
  /\ BlockNum > 3 /\ BlockSize > 0 /\ Direct >= 2
  /\ \A in \in Inputs : IsTree(in.host) /\ in.stack \subseteq 0 .. Word - 1

Block == 0 .. BlockNum - 1
RootNum == 2  \* FREEMAP_NUM + 1, and FREEMAP_NUM is 1
Reserved == {0, 1, RootNum}

VARIABLES host,     \* the directory to be packed
          words,    \* what the stack may hold
          image,    \* Image, by blocks
          used,     \* freemap
          freenum,
          frames,   \* the calls of walk, innermost last
          file,     \* the file that is being copied, or NoFile
          pc        \* "walk", or how the program has ended

vars == <<host, words, image, used, freenum, frames, file, pc>>

NoFile == [node |-> <<>>]
Top == frames[Len(frames)]
Below(h, p) == {q \in DOMAIN h : q # <<>> /\ Front(q) = p}
Children(p) == Below(host, p)

NewInode(p, indirect) ==
  [kind |-> "inode", dir |-> host[p].dir, name |-> IF p = <<>> THEN "/" ELSE Last(p),
   size |-> host[p].size, blocks |-> 0, direct |-> <<>>, indirect |-> indirect]

\* A call of walk for the directory p, whose inode will go to block num.
\* left is what the stack holds where the next inodes will be.
NewFrame(p, num, parent, indirect, left) ==
  [node |-> p, num |-> num, inode |-> [NewInode(p, indirect) EXCEPT !.direct = <<num, parent>>],
   next |-> 2, todo |-> Children(p), left |-> left]

\* finode.blocks: in uint32, so that an empty file wraps.
Blocks(size) == ((size - 1) % Word) \div BlockSize + 1
------------------------------------------------------------------------------
\* getFreeBlock, when the blocks in taken are gone.
First(taken) == CHOOSE b \in Block \ taken : \A c \in Block \ taken : b <= c

\* An entry of an indirect block; what else was in the block is lost.  It has
\* room for 1024 numbers, more than there are blocks (BLOCK_NUM is 256).
Put(content, i, b) ==
  [kind |-> "indirect",
   at |-> LET old == IF content.kind = "indirect" THEN content.at ELSE <<>>
          IN  [j \in DOMAIN old \union {i} |-> IF j = i THEN b ELSE old[j]]]

\* Every entry behind direct gets an indirect block of its own.
NeedsIndirect_Slip(inode, i) == i >= Direct

\* The indirect block is asked for when the field is 0.
NeedsIndirect(inode, i) == i >= Direct /\ inode.indirect = 0

\* The field points beyond the image: the entry is written somewhere else.
OutOfImage(inode, i) == i >= Direct /\ inode.indirect \notin Block

\* Block b becomes the i-th block of the inode (both copies of this code, for
\* the blocks of a file and for the entries of a directory).
Attach(inode, i, b, taken, img) ==
  IF i < Direct
  THEN [inode |-> [inode EXCEPT !.direct = Append(@, b)], used |-> taken, image |-> img]
  ELSE LET ind == IF NeedsIndirect(inode, i) THEN First(taken) ELSE inode.indirect
       IN  [inode |-> [inode EXCEPT !.indirect = ind],
            used |-> IF NeedsIndirect(inode, i) THEN taken \union {ind} ELSE taken,
            image |-> [img EXCEPT ![ind] = Put(@, i - Direct, b)]]

\* There is a block left for the indirect block, if one is needed.
Room(taken, inode, i) == NeedsIndirect(inode, i) => taken # Block

\* getFreeBlock marks a block and counts it, once for each block taken.
Takes(taken) == used' = taken /\ freenum' = freenum - Cardinality(taken \ used)
------------------------------------------------------------------------------
\* main, up to its call of walk.
Init ==
  /\ \E in \in Inputs : host = in.host /\ words = in.stack
  /\ image = [b \in Block |-> [kind |-> "blank"]]
  /\ used = Reserved
  /\ freenum = BlockNum - Cardinality(Reserved)
  /\ \E root, f, d \in words :
       frames = <<NewFrame(<<>>, RootNum, RootNum, root, [file |-> f, dir |-> d])>>
  /\ file = NoFile
  /\ pc = "walk"

\* walk meets a directory and calls itself.
Enter(p) ==
  /\ pc = "walk" /\ file = NoFile
  /\ p \in Top.todo /\ host[p].dir
  /\ used # Block
  /\ LET b == First(used)
     IN  /\ Takes(used \union {b})
         /\ \E f, d \in words, ind \in words \union {Top.left.dir} :
              frames' = Append([frames EXCEPT ![Len(frames)].todo = @ \ {p}],
                               NewFrame(p, b, Top.num, ind, [file |-> f, dir |-> d]))
  /\ UNCHANGED <<host, words, image, file, pc>>

\* walk meets a file.
Open(p) ==
  /\ pc = "walk" /\ file = NoFile
  /\ p \in Top.todo /\ ~host[p].dir
  /\ used # Block
  /\ LET b == First(used)
     IN  /\ Takes(used \union {b})
         /\ \E ind \in words \union {Top.left.file} :
              file' = [node |-> p, num |-> b, rest |-> host[p].size, index |-> 0,
                       inode |-> [NewInode(p, ind) EXCEPT !.blocks = Blocks(host[p].size)]]
  /\ frames' = [frames EXCEPT ![Len(frames)].todo = @ \ {p}]
  /\ UNCHANGED <<host, words, image, pc>>

\* One round of the loop that copies the file.
CopyBlock ==
  /\ pc = "walk" /\ file # NoFile /\ file.rest > 0
  /\ used # Block /\ ~OutOfImage(file.inode, file.index)
  /\ LET b == First(used)
         size == IF file.rest > BlockSize THEN BlockSize ELSE file.rest
         data == [kind |-> "data", of |-> file.node, part |-> file.index, bytes |-> size]
         a == Attach(file.inode, file.index, b, used \union {b}, [image EXCEPT ![b] = data])
     IN  /\ Room(used \union {b}, file.inode, file.index)
         /\ Takes(a.used)
         /\ image' = a.image
         /\ file' = [file EXCEPT !.inode = a.inode, !.rest = @ - size, !.index = @ + 1]
  /\ UNCHANGED <<host, words, frames, pc>>

\* The inode of the file goes to its block and the block into the directory.
CloseFile ==
  /\ pc = "walk" /\ file # NoFile /\ file.rest = 0
  /\ ~OutOfImage(Top.inode, Top.next) /\ Room(used, Top.inode, Top.next)
  /\ LET a == Attach(Top.inode, Top.next, file.num, used, [image EXCEPT ![file.num] = file.inode])
     IN  /\ Takes(a.used)
         /\ image' = a.image
         /\ frames' = [frames EXCEPT ![Len(frames)] =
              [Top EXCEPT !.inode = a.inode, !.next = @ + 1, !.left.file = file.inode.indirect]]
  /\ file' = NoFile
  /\ UNCHANGED <<host, words, pc>>

\* . and .. are not counted.
Leave_Slip ==
  /\ pc = "walk" /\ file = NoFile /\ Top.todo = {} /\ Len(frames) > 1
  /\ LET up == frames[Len(frames) - 1]
         inode == [Top.inode EXCEPT !.blocks = Top.next - 2]
         a == Attach(up.inode, up.next, Top.num, used, [image EXCEPT ![Top.num] = inode])
     IN  /\ ~OutOfImage(up.inode, up.next) /\ Room(used, up.inode, up.next)
         /\ Takes(a.used)
         /\ image' = a.image
         /\ frames' = [Front(frames) EXCEPT ![Len(frames) - 1] =
              [up EXCEPT !.inode = a.inode, !.next = @ + 1, !.left.dir = inode.indirect]]
  /\ UNCHANGED <<host, words, file, pc>>

\* walk returns to itself: the same for the directory.
Leave ==
  /\ pc = "walk" /\ file = NoFile /\ Top.todo = {} /\ Len(frames) > 1
  /\ LET up == frames[Len(frames) - 1]
         inode == [Top.inode EXCEPT !.blocks = Top.next]
         a == Attach(up.inode, up.next, Top.num, used, [image EXCEPT ![Top.num] = inode])
     IN  /\ ~OutOfImage(up.inode, up.next) /\ Room(used, up.inode, up.next)
         /\ Takes(a.used)
         /\ image' = a.image
         /\ frames' = [Front(frames) EXCEPT ![Len(frames) - 1] =
              [up EXCEPT !.inode = a.inode, !.next = @ + 1, !.left.dir = inode.indirect]]
  /\ UNCHANGED <<host, words, file, pc>>

\* main fills the super block in before it calls walk.
Finish_Slip ==
  /\ pc = "walk" /\ file = NoFile /\ Top.todo = {} /\ Len(frames) = 1
  /\ image' = [image EXCEPT ![0] = 
                              [kind |-> "super", unusedBlocks |-> BlockNum - Cardinality(Reserved)],
                            ![1] = [kind |-> "freemap", used |-> used],
                            ![RootNum] = [Top.inode EXCEPT !.blocks = Top.next]]
  /\ pc' = "done"
  /\ UNCHANGED <<host, words, used, freenum, frames, file>>

\* walk returns to main, which writes the first blocks.
Finish ==
  /\ pc = "walk" /\ file = NoFile /\ Top.todo = {} /\ Len(frames) = 1
  /\ image' = [image EXCEPT ![0] = [kind |-> "super", unusedBlocks |-> freenum],
                            ![1] = [kind |-> "freemap", used |-> used],
                            ![RootNum] = [Top.inode EXCEPT !.blocks = Top.next]]
  /\ pc' = "done"
  /\ UNCHANGED <<host, words, used, freenum, frames, file>>

\* What the next step takes and where it attaches it.
Step ==
  IF file # NoFile
  THEN IF file.rest > 0
       THEN [blocks |-> 1, inode |-> file.inode, at |-> file.index]
       ELSE [blocks |-> 0, inode |-> Top.inode, at |-> Top.next]
  ELSE IF Top.todo # {}
  THEN [blocks |-> 1, inode |-> Top.inode, at |-> 0]
  ELSE IF Len(frames) > 1
  THEN [blocks |-> 0, inode |-> frames[Len(frames) - 1].inode, at |-> frames[Len(frames) - 1].next]
  ELSE [blocks |-> 0, inode |-> Top.inode, at |-> 0]

\* getFreeBlock finds nothing and ends the program; no image is written.
DiskFull ==
  /\ pc = "walk"
  /\ Cardinality(Block \ used) <
       Step.blocks + (IF NeedsIndirect(Step.inode, Step.at) THEN 1 ELSE 0)
  /\ pc' = "full"
  /\ UNCHANGED <<host, words, image, used, freenum, frames, file>>

\* A number from the stack is used as an indirect block.
WriteOutOfImage ==
  /\ pc = "walk" /\ Cardinality(Block \ used) >= Step.blocks
  /\ OutOfImage(Step.inode, Step.at)
  /\ pc' = "wild"
  /\ UNCHANGED <<host, words, image, used, freenum, frames, file>>

Ended == pc # "walk" /\ UNCHANGED vars

Next ==
  \/ \E p \in DOMAIN host : Enter(p) \/ Open(p)
  \/ CopyBlock \/ CloseFile \/ Leave \/ Finish \/ DiskFull \/ WriteOutOfImage \/ Ended

Spec == Init /\ [][Next]_vars
==============================================================================
