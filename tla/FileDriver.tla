------------------------------ MODULE FileDriver ------------------------------
(***************************************************************************)
(* kernel/fs.c: how the kernel finds a file in the image that mksfs.c has  *)
(* packed and reads it.  Both work on the finished image and change        *)
(* nothing, so they are operators here, and what is checked is that the    *)
(* two programs agree on the format: what the kernel reads is what was on  *)
(* the host.                                                               *)
(***************************************************************************)
EXTENDS SimpleFS, FiniteSetsExt

\* The numbers that getBlockAddr, an int product, turns into addresses from
\* which the kernel can read as many entries as a file can have blocks: 4 MB.
\* The image is in .data and most of the memory is behind it.
CONSTANT Mapped

ASSUME FileDriverAssumption == Block \subseteq Mapped /\ Word > Direct * BlockSize

\* A path is absolute or not, and a sequence of names between slashes.
NoInode == -1  \* 0, the null pointer

\* initFs: the root inode is behind the freemap.
RootInode == 1 + 1

\* The number of the i-th block of an inode, or of the inode of its i-th entry.
BlockAt(inode, i) ==
  IF i < Direct THEN inode.direct[i + 1] ELSE image[inode.indirect].at[i - Direct]

\* The numbers of the blocks that a directory lists, without . and ..;
\* lookup looks into direct first and then into the indirect block.
Entries(inode) ==
  LET last == IF inode.blocks <= Direct THEN inode.blocks ELSE Direct
      rest == IF inode.blocks <= Direct THEN 0 ELSE inode.blocks - Direct
  IN  SubSeq(inode.direct, 3, last) \o
        [i \in 1 .. rest |-> image[inode.indirect].at[i - 1]]

\* lookup, one name of the path: the first entry that has the name.
LookupName(num, name) ==
  IF num = NoInode THEN NoInode
  ELSE IF ~image[num].dir THEN NoInode
  ELSE IF name = "." THEN num
  ELSE IF name = ".." THEN image[num].direct[2]
  ELSE LET list == Entries(image[num])
           found == {i \in DOMAIN list : image[list[i]].name = name}
       IN  IF found = {} THEN NoInode ELSE list[Min(found)]

\* lookup: its calls to itself are the names of the path from the left.
Lookup(node, absolute, names) ==
  LET at[k \in 0 .. Len(names)] ==
        IF k > 0 THEN LookupName(at[k - 1], names[k])
        ELSE IF absolute \/ node = NoInode THEN RootInode ELSE node
  IN  at[Len(names)]

\* readall reads the entries behind direct one after the other, whether there
\* is something left to copy or not: an empty file has 2^20 blocks.
LoadFaults(inode) == inode.blocks > Direct /\ inode.indirect \notin Mapped

\* The last round copies a whole block.
ReadAll_Slip(num) ==
  LET inode == image[num]
      rounds == (inode.size + BlockSize - 1) \div BlockSize
  IN  [panics |-> inode.dir \/ LoadFaults(inode),
       pieces |-> [i \in 1 .. rounds |->
                     [from |-> image[BlockAt(inode, i - 1)], bytes |-> BlockSize]]]

\* readall: whether the kernel panics, for a directory or in fault, and
\* otherwise the pieces that go to the buffer, without those of no bytes.
ReadAll(num) ==
  LET inode == image[num]
      left(i) == inode.size - i * BlockSize
      rounds == Cardinality({i \in 0 .. inode.blocks - 1 : left(i) > 0})
  IN  [panics |-> inode.dir \/ LoadFaults(inode),
       pieces |-> [i \in 1 .. rounds |->
                     [from |-> image[BlockAt(inode, i - 1)],
                      bytes |-> IF left(i - 1) >= BlockSize THEN BlockSize ELSE left(i - 1)]]]
------------------------------------------------------------------------------
\* The bytes of all pieces.
Total(pieces) ==
  LET sum[k \in 0 .. Len(pieces)] == IF k = 0 THEN 0 ELSE sum[k - 1] + pieces[k].bytes
  IN  sum[Len(pieces)]

\* What cannot be read: a directory, and an empty file in whose inode mksfs.c
\* has left a number from its stack that leads to no memory of the kernel.
Unreadable(p, num) ==
  host[p].dir \/ (host[p].size = 0 /\ image[num].indirect \in words \ Mapped)

\* What the kernel finds under a path is what the host has there, and it reads
\* all of it or cannot read it at all.
IsHosts(p, num) ==
  /\ num # NoInode
  /\ image[num].dir = host[p].dir
  /\ LET read == ReadAll(num)
     IN  /\ read.panics <=> Unreadable(p, num)
         /\ ~read.panics =>
              /\ \A i \in DOMAIN read.pieces :
                   read.pieces[i].from =
                     [kind |-> "data", of |-> p, part |-> i - 1, bytes |-> read.pieces[i].bytes]
              /\ Total(read.pieces) = host[p].size

\* Every file of the host is found by the kernel, from the root and from any
\* directory above it, and .. leads back; it is read back whole, byte for byte,
\* or it is empty and the kernel panics over the field that mksfs.c never sets.
\* mksfs.c and fs.c meet only in simplefs.h and fs.h.
HostReadBack ==
  pc = "done" =>
    \A p \in DOMAIN host :
      LET num == Lookup(NoInode, TRUE, p)
      IN  /\ IsHosts(p, num)
          /\ \A k \in 0 .. Len(p) :
               LET dir == Lookup(NoInode, FALSE, SubSeq(p, 1, k))
               IN  Lookup(dir, FALSE, SubSeq(p, k + 1, Len(p))) = num
          /\ host[p].dir =>
               Lookup(num, FALSE, <<"..">>) = Lookup(NoInode, TRUE, IF p = <<>> THEN p ELSE Front(p))

\* And nothing else is found: a directory lists no name twice and none that
\* the host does not have there.
NothingElse ==
  pc = "done" =>
    \A p \in DOMAIN host :
      host[p].dir =>
        LET list == Entries(image[Lookup(NoInode, TRUE, p)])
        IN  /\ Len(list) = Cardinality(Children(p))
            /\ {image[list[i]].name : i \in DOMAIN list} = {Last(q) : q \in Children(p)}

\* The inodes in the image, and the blocks each of them holds.
Inodes == {b \in Block : image[b].kind = "inode"}
BlocksOf(b) ==
  LET inode == image[b]
      count == IF inode.dir THEN inode.blocks ELSE (inode.size + BlockSize - 1) \div BlockSize
      first == IF inode.dir THEN 2 ELSE 0
  IN  {<<i, BlockAt(inode, i)>> : i \in first .. count - 1}
        \union (IF count > Direct THEN {<<-1, inode.indirect>>} ELSE {})

\* No block has two owners, no block is lost, and the freemap and the count
\* in the super block say how many are left.
BlocksExclusive ==
  pc = "done" =>
    LET held == UNION {{<<b, x[1], x[2]>> : x \in BlocksOf(b)} : b \in Inodes}
        blocks == {h[3] : h \in held}
    IN  /\ Cardinality(held) = Cardinality(blocks)
        /\ blocks \intersect Reserved = {}
        /\ image[1].used = blocks \union Reserved
        /\ image[0].unusedBlocks = BlockNum - Cardinality(image[1].used)

\* The entries of a directory, with . and .., and the blocks of a file.
Count(h, p) ==
  IF h[p].dir THEN Cardinality(Below(h, p)) + 2
  ELSE (h[p].size + BlockSize - 1) \div BlockSize

\* What the tree h needs a block for: the inode of each p, written <<p, -1>>,
\* the data of a file, and what direct has no room for, written <<p, -2>>.
Parts(h, p) ==
  {-1} \union (IF h[p].dir THEN {} ELSE 0 .. Count(h, p) - 1)
       \union (IF Count(h, p) > Direct THEN {-2} ELSE {})
Needs(h) == UNION {{p} \X Parts(h, p) : p \in DOMAIN h}

\* mksfs.c gives up only when the host's directory does not fit; the root has
\* its block already.
FullOnlyWhenTooLarge ==
  pc = "full" => Cardinality(Needs(host)) - 1 > BlockNum - Cardinality(Reserved)

\* Where the field that is never set does no harm: a number that is found on
\* the stack is 0 or leads out of the image, and of the files of a directory
\* one at most needs an indirect block, and one of its directories: the next
\* would find the field as the first one has left it.
StackHarmless ==
  \A in \in Inputs :
    LET large == {p \in DOMAIN in.host : Count(in.host, p) > Direct}
    IN  /\ large # {} => in.stack \intersect Block \subseteq {0}
        /\ \A p, q \in large \ {<<>>} :
             Front(p) = Front(q) /\ in.host[p].dir = in.host[q].dir => p = q

\* mksfs.c:199: an indirect block that has not been allocated is allocated.
IndirectAllocated == pc # "wild"
==============================================================================
