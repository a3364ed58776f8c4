---------------------------------- MODULE Fs ----------------------------------
(***************************************************************************)
(* fs.c as operators on the state it works on: the disk as the cache shows *)
(* it to one operation (inodes, bitmap, data blocks), the inode cache, the *)
(* blocks log_written so far and the message of a panic.  An operator that *)
(* stands for a function with a result returns a record of the new state   *)
(* fs and the result v; Then and Let pass what one call returns to what    *)
(* the code does next.  0 is the null pointer, the free inode number and   *)
(* the missing block, as in the code.                                      *)
(*                                                                         *)
(* The unit of size is the cell: a directory entry, a block number in an   *)
(* indirect block, or a piece of a file.  A path is a sequence of          *)
(* characters, a name at most DIRSIZ of them.                              *)
(***************************************************************************)
EXTENDS Integers, Sequences, FiniteSets, FiniteSetsExt

CONSTANTS BSIZE,      \* cells in a block
          NDIRECT,    \* direct blocks of an inode
          IPB,        \* inodes in a block
          BPB,        \* bits in a bitmap block
          DIRSIZ,     \* characters in a name
          FSSIZE,     \* blocks of the file system
          NINODES,    \* inodes of the file system
          nlog,       \* log blocks
          NINODE,     \* slots of the inode cache
          UintSize    \* 2^32: sizes and offsets are uints

ASSUME FsAssumption ==
  /\ {BSIZE, NDIRECT, IPB, BPB, DIRSIZ, FSSIZE, NINODE, nlog} \subseteq Nat \ {0}
  /\ DIRSIZ >= 2 /\ NINODES > 1
  /\ UintSize > (NDIRECT + BSIZE) * BSIZE

T_DIR == "T_DIR"
T_FILE == "T_FILE"
T_DEV == "T_DEV"
CONSOLE == 1
ROOTINO == 1
NINDIRECT == BSIZE
MAXFILE == NDIRECT + NINDIRECT

inodestart == 2 + nlog
bmapstart == inodestart + NINODES \div IPB + 1
nmeta == bmapstart + FSSIZE \div BPB + 1

IBLOCK(i) == i \div IPB + inodestart
BBLOCK(b) == b \div BPB + bmapstart

Blocks == 0..(FSSIZE - 1)
Inums == 0..(NINODES - 1)
DataBlocks == nmeta..(FSSIZE - 1)
Slots == 1..NINODE

\* A cell: a number, and the name if it is a directory entry.
Cell(n, s) == [n |-> n, s |-> s]
Zero == Cell(0, <<>>)
ZeroBlock == [i \in 0..(BSIZE - 1) |-> Zero]

\* What is left in a free block: nothing may depend on it, so it is one value,
\* neither zero nor an impossible entry or block number.
Junk == [i \in 0..(BSIZE - 1) |-> Cell(1, <<"i">>)]

\* struct dinode; type 0 is written "free".
NoDinode == [type |-> "free", major |-> 0, nlink |-> 0, size |-> 0,
             addrs |-> [i \in 0..NDIRECT |-> 0]]

\* struct inode: the copy of the dinode and what only memory has.
NoInode == [inum |-> 0, ref |-> 0, valid |-> FALSE, d |-> NoDinode]
icache == [k \in 0..NINODE |-> NoInode]

Result(f, v) == [fs |-> f, v |-> v]
Then(r, Op(_, _)) == Op(r.fs, r.v)
Let(x, Op(_)) == Op(x)

\* The first panic stops the machine: later ones do not happen.
panic(f, msg) == IF f.panic = "" THEN [f EXCEPT !.panic = msg] ELSE f

log_write(f, b) == [f EXCEPT !.log = @ \cup {b}]

------------------------------------------------------------------------------
(* Blocks.                                                                 *)

bzero(f, b) == log_write([f EXCEPT !.data[b] = ZeroBlock], b)

balloc(f) ==
  IF Blocks \subseteq f.bitmap THEN Result(panic(f, "balloc: out of blocks"), 0)
  ELSE Let(Min(Blocks \ f.bitmap), LAMBDA b :
         Result(bzero(log_write([f EXCEPT !.bitmap = @ \cup {b}], BBLOCK(b)), b), b))

\* Mutant: a freed block is wiped, through the log.
bfreeWiping(f, b) == log_write(bzero([f EXCEPT !.bitmap = @ \ {b}], b), BBLOCK(b))

bfree(f, b) ==
  IF b \notin f.bitmap THEN panic(f, "freeing free block")
  ELSE log_write([f EXCEPT !.bitmap = @ \ {b}, !.data[b] = Junk], BBLOCK(b))

------------------------------------------------------------------------------
(* Inodes.                                                                 *)

iget(f, inum) ==
  LET cached == {k \in Slots : f.inode[k].ref > 0 /\ f.inode[k].inum = inum}
      empty == {k \in Slots : f.inode[k].ref = 0}
  IN  IF cached # {}
      THEN Let(Min(cached), LAMBDA k : Result([f EXCEPT !.inode[k].ref = @ + 1], k))
      ELSE IF empty = {} THEN Result(panic(f, "iget: no inodes"), 0)
      ELSE Let(Min(empty), LAMBDA k :
             Result([f EXCEPT !.inode[k] = [@ EXCEPT !.inum = inum, !.ref = 1, !.valid = FALSE]],
                    k))

ialloc(f, type) ==
  LET free == {i \in Inums \ {0} : f.dinode[i].type = "free"}
  IN  IF free = {} THEN Result(panic(f, "ialloc: no inodes"), 0)
      ELSE Let(Min(free), LAMBDA i :
             iget(log_write([f EXCEPT !.dinode[i] = [NoDinode EXCEPT !.type = type]], IBLOCK(i)),
                  i))

iupdate(f, ip) ==
  LET i == f.inode[ip].inum
  IN  log_write([f EXCEPT !.dinode[i] = f.inode[ip].d], IBLOCK(i))

iread(f, ip) ==
  LET d == f.dinode[f.inode[ip].inum]
  IN  IF ip = 0 \/ f.inode[ip].ref < 1 THEN panic(f, "iread")
      ELSE IF f.inode[ip].valid THEN f
      ELSE Let([f EXCEPT !.inode[ip] = [@ EXCEPT !.d = d, !.valid = TRUE]], LAMBDA g :
             IF d.type = "free" THEN panic(g, "iread: no type") ELSE g)

\* The disk block of ip's block bn; a missing one is allocated.
bmap(f, ip, bn) ==
  LET Address(k) ==
        IF f.inode[ip].d.addrs[k] # 0 THEN Result(f, f.inode[ip].d.addrs[k])
        ELSE Then(balloc(f), LAMBDA g, b :
               Result([g EXCEPT !.inode[ip].d.addrs[k] = b], b))
  IN  IF bn < NDIRECT THEN Address(bn)
      ELSE IF bn >= MAXFILE THEN Result(panic(f, "bmap: out of range"), 0)
      ELSE Then(Address(NDIRECT), LAMBDA g, top :
             IF g.data[top][bn - NDIRECT].n # 0 THEN Result(g, g.data[top][bn - NDIRECT].n)
             ELSE Then(balloc(g), LAMBDA h, b :
                    Result(log_write([h EXCEPT !.data[top][bn - NDIRECT] = Cell(b, <<>>)], top),
                           b)))

\* The blocks bs are freed, one after the other but for missing ones.
FreeBlocks(f, bs) ==
  LET loop[i \in 0..Len(bs)] ==
        IF i = 0 THEN f ELSE IF bs[i] = 0 THEN loop[i - 1] ELSE bfree(loop[i - 1], bs[i])
  IN  loop[Len(bs)]

\* Mutant: the indirect block itself is not freed.
itruncLeaking(f, ip) ==
  LET a == f.inode[ip].d.addrs
      direct == [i \in 1..NDIRECT |-> a[i - 1]]
      indirect == IF a[NDIRECT] = 0 THEN <<>>
                  ELSE [j \in 1..NINDIRECT |-> f.data[a[NDIRECT]][j - 1].n]
  IN  Let(FreeBlocks(f, direct \o indirect), LAMBDA g :
        iupdate([g EXCEPT !.inode[ip].d = [@ EXCEPT !.addrs = NoDinode.addrs, !.size = 0]], ip))

\* Frees the direct blocks, the blocks the indirect block names, and itself.
itrunc(f, ip) ==
  LET a == f.inode[ip].d.addrs
      direct == [i \in 1..NDIRECT |-> a[i - 1]]
      indirect == IF a[NDIRECT] = 0 THEN <<>>
                  ELSE [j \in 1..NINDIRECT |-> f.data[a[NDIRECT]][j - 1].n] \o <<a[NDIRECT]>>
  IN  Let(FreeBlocks(f, direct \o indirect), LAMBDA g :
        iupdate([g EXCEPT !.inode[ip].d = [@ EXCEPT !.addrs = NoDinode.addrs, !.size = 0]], ip))

\* Mutant: an inode without links is freed although it is in use.
iputEarly(f, ip) ==
  LET n == f.inode[ip]
  IN  Let(IF n.valid /\ n.d.nlink = 0 /\ n.d.type # "free"
          THEN iupdate([itrunc(f, ip) EXCEPT !.inode[ip].d.type = "free"], ip) ELSE f,
          LAMBDA g : [g EXCEPT !.inode[ip] = IF n.ref = 1 THEN NoInode ELSE [@ EXCEPT !.ref = n.ref - 1]])

\* The last reference to an inode without links frees it.  A slot without
\* references is NoInode: iget and iread set it before it is used again.
iput(f, ip) ==
  LET n == f.inode[ip]
  IN  IF n.ref # 1 THEN [f EXCEPT !.inode[ip].ref = @ - 1]
      ELSE Let(IF n.valid /\ n.d.nlink = 0
               THEN iupdate([itrunc(f, ip) EXCEPT !.inode[ip].d.type = "free"], ip) ELSE f,
               LAMBDA g : [g EXCEPT !.inode[ip] = NoInode])

------------------------------------------------------------------------------
(* Content.                                                                *)

\* The state after bmap of ip's blocks from..to, in this order.  At the first
\* block that a file cannot have bmap panics, and the rest makes no difference.
MapBlocks(f, ip, from, to) ==
  LET loop[n \in 0..(MAXFILE + 1)] ==
        IF n = 0 THEN f
        ELSE IF n - 1 \in from..to THEN bmap(loop[n - 1], ip, n - 1).fs ELSE loop[n - 1]
  IN  loop[MAXFILE + 1]

\* The cell at off of an inode whose block there exists; of a missing one, zero.
CellAt(f, d, off) ==
  LET bn == off \div BSIZE
      b == IF bn < NDIRECT THEN d.addrs[bn]
           ELSE IF d.addrs[NDIRECT] = 0 THEN 0
           ELSE f.data[d.addrs[NDIRECT]][bn - NDIRECT].n
  IN  IF b = 0 THEN Zero ELSE f.data[b][off % BSIZE]

\* devsw: only the console has read and write functions.
IsDevice(d) == d.major = CONSOLE

\* Mutant: an end of the range that wraps around is not noticed.
readiWrapping(f, ip, off, n, got) ==
  LET d == f.inode[ip].d
      end == (off + n) % UintSize
      m == IF end > d.size THEN d.size - off ELSE n
  IN  IF d.type = T_DEV THEN Result(f, IF IsDevice(d) THEN got ELSE -1)
      ELSE IF off > d.size \/ d.nlink < 1 THEN Result(f, -1)
      ELSE Result(MapBlocks(f, ip, off \div BSIZE, (off + m - 1) \div BSIZE), m)

\* The cells read are those of the mapped blocks; v is their number or -1.  The
\* console's read function returns got <= n characters.
readi(f, ip, off, n, got) ==
  LET d == f.inode[ip].d
      end == (off + n) % UintSize
      m == IF end > d.size THEN d.size - off ELSE n
  IN  IF d.type = T_DEV THEN Result(f, IF IsDevice(d) THEN got ELSE -1)
      ELSE IF off > d.size \/ end < off \/ d.nlink < 1 THEN Result(f, -1)
      ELSE Result(IF m = 0 THEN f
                  ELSE MapBlocks(f, ip, off \div BSIZE, (off + m - 1) \div BSIZE), m)

\* One iteration of writei's loop: a cell goes to its block.
PutCell(f, ip, off, c) ==
  Then(bmap(f, ip, off \div BSIZE), LAMBDA g, b :
    log_write([g EXCEPT !.data[b][off % BSIZE] = c], b))

\* All of them.
PutCells(f, ip, off, cells) ==
  LET loop[i \in 0..Len(cells)] ==
        IF i = 0 THEN f ELSE PutCell(loop[i - 1], ip, off + i - 1, cells[i])
  IN  loop[Len(cells)]

\* Mutant: the new size is not written to the disk.
writeiCached(f, ip, off, cells) ==
  LET d == f.inode[ip].d
      n == Len(cells)
      end == (off + n) % UintSize
  IN  IF d.type = T_DEV THEN Result(f, IF IsDevice(d) THEN n ELSE -1)
      ELSE IF off > d.size \/ end < off \/ end > MAXFILE * BSIZE THEN Result(f, -1)
      ELSE Let(PutCells(f, ip, off, cells), LAMBDA g :
             Result(IF end > d.size THEN [g EXCEPT !.inode[ip].d.size = end] ELSE g, n))

writei(f, ip, off, cells) ==
  LET d == f.inode[ip].d
      n == Len(cells)
      end == (off + n) % UintSize
  IN  IF d.type = T_DEV THEN Result(f, IF IsDevice(d) THEN n ELSE -1)
      ELSE IF off > d.size \/ end < off \/ end > MAXFILE * BSIZE THEN Result(f, -1)
      ELSE Let(PutCells(f, ip, off, cells), LAMBDA g :
             Result(IF n > 0 /\ end > d.size
                    THEN iupdate([g EXCEPT !.inode[ip].d.size = end], ip) ELSE g, n))

stati(f, ip) ==
  LET n == f.inode[ip] IN [ino |-> n.inum, type |-> n.d.type, nlink |-> n.d.nlink, size |-> n.d.size]

------------------------------------------------------------------------------
(* Directories.                                                            *)

\* The entries of dp for name, and the free ones, by their offsets.
EntriesFor(f, dp, name) ==
  {o \in 0..(f.inode[dp].d.size - 1) :
     CellAt(f, f.inode[dp].d, o).n # 0 /\ CellAt(f, f.inode[dp].d, o).s = name}

FreeEntries(f, dp) ==
  {o \in 0..(f.inode[dp].d.size - 1) : CellAt(f, f.inode[dp].d, o).n = 0}

UsedEntries(f, dp) ==
  {o \in 0..(f.inode[dp].d.size - 1) : CellAt(f, f.inode[dp].d, o).n # 0}

\* The first of these entries of dp, or its size: where the loops stop.
FirstEntry(f, dp, offs) == Min({f.inode[dp].d.size} \cup offs)

\* The loops read every entry from one on up to where they stop, which maps its blocks.
Scan(f, dp, from, off, msg) ==
  LET d == f.inode[dp].d
  IN  IF d.size <= from THEN f
      ELSE IF d.nlink < 1 THEN panic(f, msg)
      ELSE MapBlocks(f, dp, from \div BSIZE, (IF off < d.size THEN off ELSE d.size - 1) \div BSIZE)

\* v is the inode found and off its entry, or v = 0.
dirlookup(f, dp, name) ==
  IF f.inode[dp].d.type # T_DIR
  THEN [fs |-> panic(f, "dirlookup not DIR"), v |-> 0, off |-> 0]
  ELSE Let(FirstEntry(f, dp, EntriesFor(f, dp, name)), LAMBDA off :
       Let(Scan(f, dp, 0, off, "dirlookup read"), LAMBDA g :
         IF off = f.inode[dp].d.size THEN [fs |-> g, v |-> 0, off |-> off]
         ELSE Then(iget(g, CellAt(f, f.inode[dp].d, off).n), LAMBDA h, ip :
                [fs |-> h, v |-> ip, off |-> off])))

dirlink(f, dp, name, inum) ==
  Then(dirlookup(f, dp, name), LAMBDA g, ip :
    IF ip # 0 THEN Result(iput(g, ip), -1)
    ELSE Let(FirstEntry(g, dp, FreeEntries(g, dp)), LAMBDA off :
         Then(writei(Scan(g, dp, 0, off, "dirlink read"), dp, off, <<Cell(inum, name)>>),
              LAMBDA h, n : IF n # 1 THEN Result(panic(h, "dirlink"), -1) ELSE Result(h, 0))))

------------------------------------------------------------------------------
(* Paths.                                                                  *)

\* s from the first of these places on: where the loops over the path stop.
DropTo(s, places) == SubSeq(s, Min({Len(s) + 1} \cup places), Len(s))

DropSlashes(s) == DropTo(s, {i \in DOMAIN s : s[i] # "/"})
DropElement(s) == DropTo(s, {i \in DOMAIN s : s[i] = "/"})

\* The next element and what follows it; name = <<>> if there is none.
skipelem(path) ==
  Let(DropSlashes(path), LAMBDA s :
  Let(DropElement(s), LAMBDA rest :
    [name |-> SubSeq(s, 1, IF Len(s) - Len(rest) >= DIRSIZ THEN DIRSIZ ELSE Len(s) - Len(rest)),
     path |-> DropSlashes(rest)]))

\* namex's loop at inode ip with path to go; and its end, with the inode that it
\* returns, or 0, and the last element taken.
At(f, ip, path) == [fs |-> f, v |-> ip, name |-> <<>>, path |-> path, more |-> TRUE]
Found(f, ip, name) == [fs |-> f, v |-> ip, name |-> name, path |-> <<>>, more |-> FALSE]

\* An iteration of the loop.
WalkStep(w, parent) ==
  LET f == w.fs
      ip == w.v
  IN  Let(skipelem(w.path), LAMBDA e :
        IF ~w.more THEN w
        ELSE IF f.panic # "" THEN Found(f, 0, <<>>)
        ELSE IF e.name = <<>>
        THEN IF parent THEN Found(iput(f, ip), 0, <<>>) ELSE Found(f, ip, <<>>)
        ELSE Let(iread(f, ip), LAMBDA g :
          IF g.inode[ip].d.type # T_DIR THEN Found(iput(g, ip), 0, e.name)
          ELSE IF parent /\ e.path = <<>> THEN Found(g, ip, e.name)
          ELSE Then(dirlookup(g, ip, e.name), LAMBDA h, next :
            IF next = 0 THEN Found(iput(h, ip), 0, e.name)
            ELSE At(iput(h, ip), next, e.path))))

\* The loop from w on; an iteration takes at least one character of the path.
WalkFrom(w, parent) ==
  LET loop[n \in 0..(Len(w.path) + 1)] ==
        IF n = 0 THEN w ELSE WalkStep(loop[n - 1], parent)
  IN  loop[Len(w.path) + 1]

namex(f, path, parent) ==
  Then(iget(f, ROOTINO), LAMBDA g, ip : WalkFrom(At(g, ip, path), parent))

namei(f, path) == namex(f, path, FALSE)
nameiparent(f, path) == namex(f, path, TRUE)
==============================================================================
