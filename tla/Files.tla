--------------------------------- MODULE Files ---------------------------------
(***************************************************************************)
(* file.c and sysfile.c above fs.c: open files, descriptors, and the       *)
(* operations on names.  A transaction (begin_op ... end_op) is one step:  *)
(* module Log shows that it is atomic across a crash while one thread at a *)
(* time is in the file system.  filewrite is a transaction for each chunk, *)
(* fileclose drops the file first and the inode later: other threads, and  *)
(* crashes, come between.                                                  *)
(*                                                                         *)
(* Procs make the system calls of sysfile.c.  Client is kernel code that   *)
(* calls the interface of file.c, as main does for mknod and the lessons'  *)
(* main functions do for the rest; ofile[Client] are its local variables.  *)
(***************************************************************************)
EXTENDS Mkfs

CONSTANTS Procs, Client,
          NFILE,          \* open files of the system
          NOFILE,         \* descriptors of a process
          MAXOPBLOCKS,    \* the most blocks an operation may log
          Workloads       \* bound: what mkfs is given and what the callers ask for

\* MAXOPBLOCKS leaves a transaction of filewrite something to write, and what the
\* callers pass are strings and sequences of cells.
ASSUME FilesAssumption ==
  /\ IsFiniteSet(Procs) /\ NFILE \in Nat /\ NOFILE \in Nat
  /\ MAXOPBLOCKS \in Nat /\ MAXOPBLOCKS >= 4
  /\ \A w \in Workloads :
       /\ w.paths \cup w.nodes \subseteq Seq(STRING)
       /\ \A t \in Procs \cup {Client} : w.writes[t] \subseteq Seq([n : Int, s : Seq(STRING)])

VARIABLES fs,       \* the state of fs.c
          ftable,   \* the open files
          ofile,    \* the descriptors of each process
          job,      \* what is left of a filewrite or fileclose
          over,     \* an operation has logged more than MAXOPBLOCKS blocks
          lost,     \* inodes without a name that a crash has left allocated
          load      \* the workload of this behaviour

vars == <<fs, ftable, ofile, job, over, lost, load>>

Threads == Procs \cup {Client}
Fds == 0..(NOFILE - 1)

NoFile == [type |-> "FD_NONE", ref |-> 0, readable |-> FALSE, writable |-> FALSE,
           ip |-> 0, off |-> 0]
Idle == [op |-> "idle", file |-> 0, cells |-> <<>>, ip |-> 0]

------------------------------------------------------------------------------
(* Names.                                                                  *)

Dot == <<".">>
DotDot == <<".", ".">>

\* The new inode of type, named in dp; a directory gets its "." and "..".
MakeInode(f, dp, name, type, major) ==
  Then(ialloc(f, type), LAMBDA g, ip :
  Let(iupdate([iread(g, ip) EXCEPT !.inode[ip].d = [@ EXCEPT !.major = major, !.nlink = 1]], ip),
      LAMBDA h :
  Let(IF type # T_DIR THEN h
      ELSE Then(dirlink(iupdate([h EXCEPT !.inode[dp].d.nlink = @ + 1], dp),
                        ip, Dot, h.inode[ip].inum), LAMBDA i, v :
           Then(dirlink(i, ip, DotDot, h.inode[dp].inum), LAMBDA j, w :
             IF v < 0 \/ w < 0 THEN panic(j, "create dots") ELSE j)),
      LAMBDA made :
  Then(dirlink(made, dp, name, made.inode[ip].inum), LAMBDA l, v :
    IF v < 0 THEN Result(panic(l, "create: dirlink"), 0) ELSE Result(iput(l, dp), ip)))))

\* v is the inode, or 0.
create(f, path, type, major) ==
  Let(nameiparent(f, path), LAMBDA p :
    IF p.v = 0 THEN Result(p.fs, 0)
    ELSE Then(dirlookup(iread(p.fs, p.v), p.v, p.name), LAMBDA g, ip :
      IF ip = 0 THEN MakeInode(g, p.v, p.name, type, major)
      ELSE Let(iread(iput(g, p.v), ip), LAMBDA h :
             IF type = T_FILE /\ h.inode[ip].d.type = T_FILE THEN Result(h, ip)
             ELSE Result(iput(h, ip), 0))))

\* sysfile.c has a copy of create.
sysfile_create(f, path, type, major) == create(f, path, type, major)

\* Mutant: the first entry after ".." is not looked at.
isdiremptyOffByOne(f, dp) ==
  Let(FirstEntry(f, dp, UsedEntries(f, dp) \ 0..2), LAMBDA off :
    Result(Scan(f, dp, 3, off, "isdirempty: readi"), IF off < f.inode[dp].d.size THEN 0 ELSE 1))

\* The entries after "." and ".." are read up to the first in use; v is 1 if there is none.
isdirempty(f, dp) ==
  Let(FirstEntry(f, dp, UsedEntries(f, dp) \ 0..1), LAMBDA off :
    Result(Scan(f, dp, 2, off, "isdirempty: readi"), IF off < f.inode[dp].d.size THEN 0 ELSE 1))

\* The inode that open and sys_open work on, or 0.  created is what their create
\* returns.
OpenInode(f, path, omode, created) ==
  IF "O_CREATE" \in omode THEN created
  ELSE Then(namei(f, path), LAMBDA g, ip :
         IF ip = 0 THEN Result(g, 0)
         ELSE Let(iread(g, ip), LAMBDA h :
                IF h.inode[ip].d.type = T_DIR /\ omode # {} THEN Result(iput(h, ip), 0)
                ELSE Result(h, ip)))

------------------------------------------------------------------------------
(* The file table.                                                         *)

\* The first free element, or 0.
filealloc ==
  LET free == {k \in 1..NFILE : ftable[k].ref = 0} IN IF free = {} THEN 0 ELSE Min(free)

OpenFile(ip, omode) ==
  [type |-> "FD_INODE", ref |-> 1, ip |-> ip, off |-> 0,
   readable |-> "O_WRONLY" \notin omode,
   writable |-> "O_WRONLY" \in omode \/ "O_RDWR" \in omode]

\* The first free descriptor, or -1.
fdalloc(t) ==
  LET free == {fd \in Fds : ofile[t][fd] = 0} IN IF free = {} THEN -1 ELSE Min(free)

argfd(t, fd) == ofile[t][fd]

Disk(f) == [f EXCEPT !.inode = icache, !.log = {}]

\* Memory is lost, and with it the use of inodes without a name.
Fresh ==
  /\ lost' = {i \in Inums : fs.dinode[i].type # "free" /\ fs.dinode[i].nlink = 0}
  /\ ftable' = [k \in 1..NFILE |-> NoFile]
  /\ ofile' = [t \in Threads |-> [fd \in Fds |-> 0]]
  /\ job' = [t \in Threads |-> Idle]

\* The end of an operation that leaves g, ft, of and jb.  A panic stops the
\* machine before the commit: the disk is still that of fs, memory is of no use.
end_op(g, ft, of, jb) ==
  IF g.panic # ""
  THEN fs' = Disk([fs EXCEPT !.panic = g.panic]) /\ Fresh /\ UNCHANGED over
  ELSE /\ fs' = [g EXCEPT !.log = {}]
       /\ ftable' = ft
       /\ ofile' = of
       /\ job' = jb
       /\ over' = (over \/ Cardinality(g.log) > MAXOPBLOCKS)
       /\ UNCHANGED lost

Ready(t) == fs.panic = "" /\ job[t] = Idle

------------------------------------------------------------------------------
(* Opening and closing.                                                    *)

\* The file structure that open and sys_open fill is not seen by others, so
\* that it makes no difference that sys_open fills it after end_op.
OpenWith(t, path, omode, created) ==
  /\ Cardinality({j \in DOMAIN ftable : ftable[j].ref > 0}) < load.opens
  /\ Then(OpenInode(fs, path, omode, created), LAMBDA g, ip :
       IF ip = 0 THEN end_op(g, ftable, ofile, job)
       ELSE IF filealloc = 0 \/ fdalloc(t) < 0 THEN end_op(iput(g, ip), ftable, ofile, job)
       ELSE end_op(g, [ftable EXCEPT ![filealloc] = OpenFile(ip, omode)],
                   [ofile EXCEPT ![t][fdalloc(t)] = filealloc], job))
  /\ UNCHANGED load

sys_open(t, path, omode) ==
  t \in Procs /\ Ready(t) /\ OpenWith(t, path, omode, sysfile_create(fs, path, T_FILE, 0))

\* A caller of open has a variable for the file, if there is one.
open(t, path, omode) ==
  /\ t = Client /\ Ready(t) /\ (fdalloc(t) >= 0 \/ filealloc = 0)
  /\ OpenWith(t, path, omode, create(fs, path, T_FILE, 0))

\* The client takes a reference to a file that p has open.
filedup(t, p, fd) ==
  /\ t = Client /\ Ready(t) /\ argfd(p, fd) # 0 /\ fdalloc(t) >= 0
  /\ IF ftable[argfd(p, fd)].ref < 1
     THEN fs' = panic(fs, "filedup") /\ UNCHANGED <<ftable, ofile>>
     ELSE /\ ftable' = [ftable EXCEPT ![argfd(p, fd)].ref = @ + 1]
          /\ ofile' = [ofile EXCEPT ![t][fdalloc(t)] = argfd(p, fd)]
          /\ UNCHANGED fs
  /\ UNCHANGED <<job, over, lost, load>>

\* A reference to the file goes; one that is not open keeps nothing that is read again.
Release(file) == IF file.ref > 1 THEN [file EXCEPT !.ref = @ - 1] ELSE NoFile

\* Up to popcli.
fileclose(t, k) ==
  IF ftable[k].ref < 1 THEN fs' = panic(fs, "fileclose") /\ UNCHANGED <<ftable, job>>
  ELSE /\ ftable' = [ftable EXCEPT ![k] = Release(@)]
       /\ job' = IF ftable[k].ref = 1 /\ ftable[k].type = "FD_INODE"
                 THEN [job EXCEPT ![t] = [Idle EXCEPT !.op = "close", !.ip = ftable[k].ip]]
                 ELSE job
       /\ UNCHANGED fs

\* sys_close of a process; the client's call of fileclose is the same step.
sys_close(t, fd) ==
  /\ Ready(t) /\ argfd(t, fd) # 0
  /\ ofile' = [ofile EXCEPT ![t][fd] = 0]
  /\ fileclose(t, argfd(t, fd))
  /\ UNCHANGED <<over, lost, load>>

\* The rest of fileclose: the inode's reference goes, in a transaction.
CloseInode(t) ==
  /\ fs.panic = "" /\ job[t].op = "close"
  /\ end_op(iput(fs, job[t].ip), ftable, ofile, [job EXCEPT ![t] = Idle])
  /\ UNCHANGED load

------------------------------------------------------------------------------
(* Reading and writing.                                                    *)

\* Mutant: a failed call moves the offset too.
AdvanceAlways(k, r) == [ftable EXCEPT ![k].off = (@ + r) % UintSize]

\* f->off after r cells.  That of a device, which readi and writei do not look at,
\* moves too, and wraps around.
Advance(k, r) == IF r > 0 THEN [ftable EXCEPT ![k].off = (@ + r) % UintSize] ELSE ftable

fileread(t, fd, n, got) ==
  LET k == argfd(t, fd)
      ip == ftable[k].ip
  IN  /\ Ready(t) /\ k # 0 /\ ftable[k].readable
      /\ IF ftable[k].type # "FD_INODE"
         THEN fs' = panic(fs, "fileread") /\ UNCHANGED ftable
         ELSE Then(readi(iread(fs, ip), ip, ftable[k].off, n, got), LAMBDA g, r :
                fs' = g /\ ftable' = Advance(k, r))
      /\ UNCHANGED <<ofile, job, over, lost, load>>

\* What the caller of filestat gets.  The inode of an open file has been read, so
\* that the call changes nothing.
filestat(f, k) == stati(iread(f, ftable[k].ip), ftable[k].ip)

\* The most cells that one transaction of filewrite writes.
max == ((MAXOPBLOCKS - 1 - 1 - 2) \div 2) * BSIZE

\* sys_write, and filewrite up to its loop.
sys_write(t, fd, cells) ==
  LET k == argfd(t, fd)
  IN  /\ Ready(t) /\ k # 0 /\ ftable[k].writable
      /\ IF ftable[k].type # "FD_INODE"
         THEN fs' = panic(fs, "filewrite") /\ UNCHANGED job
         ELSE /\ job' = [job EXCEPT ![t] = [Idle EXCEPT !.op = "write", !.file = k,
                                                        !.cells = cells]]
              /\ UNCHANGED fs
      /\ UNCHANGED <<ftable, ofile, over, lost, load>>

\* An iteration of filewrite's loop.  writei returns n1 or -1: the panic, which the
\* code has behind end_op, is out of reach.
filewrite(t) ==
  LET k == job[t].file
      ip == ftable[k].ip
      n == Len(job[t].cells)
      n1 == IF n > max THEN max ELSE n
      rest == SubSeq(job[t].cells, n1 + 1, n)
  IN  /\ fs.panic = "" /\ job[t].op = "write"
      /\ Then(writei(iread(fs, ip), ip, ftable[k].off, SubSeq(job[t].cells, 1, n1)), LAMBDA g, r :
           end_op(IF r >= 0 /\ r # n1 THEN panic(g, "short filewrite") ELSE g,
                  Advance(k, r), ofile,
                  [job EXCEPT ![t] = IF r < 0 \/ n1 = n THEN Idle
                                     ELSE [job[t] EXCEPT !.cells = rest]]))
      /\ UNCHANGED load

------------------------------------------------------------------------------
(* Making and removing names.                                              *)

MakeNode(path, type, major) ==
  /\ Then(create(fs, path, type, major), LAMBDA g, ip :
       end_op(IF ip = 0 THEN g ELSE iput(g, ip), ftable, ofile, job))
  /\ UNCHANGED load

mknod(t, path) == t = Client /\ Ready(t) /\ MakeNode(path, T_DEV, CONSOLE)
mkdir(t, path) == t = Client /\ Ready(t) /\ MakeNode(path, T_DIR, 0)

\* The entry of ip at off in dp is cleared, and its link dropped.
RemoveEntry(f, dp, off, ip) ==
  LET isdir == f.inode[ip].d.type = T_DIR
  IN  Then(writei(f, dp, off, <<Zero>>), LAMBDA g, n :
      Let(IF n # 1 THEN panic(g, "unlink: writei")
          ELSE IF isdir THEN iupdate([g EXCEPT !.inode[dp].d.nlink = @ - 1], dp) ELSE g,
          LAMBDA h :
        iput(iupdate([iput(h, dp) EXCEPT !.inode[ip].d.nlink = @ - 1], ip), ip)))

\* Mutant: a directory that is not empty keeps the reference to it.
UnlinkInLeaking(f, dp, name) ==
  IF name \in {Dot, DotDot} THEN iput(f, dp)
  ELSE Let(dirlookup(f, dp, name), LAMBDA r :
    IF r.v = 0 THEN iput(r.fs, dp)
    ELSE Let(iread(r.fs, r.v), LAMBDA g :
    Then(IF g.inode[r.v].d.type = T_DIR THEN isdirempty(g, r.v) ELSE Result(g, 1),
         LAMBDA h, empty :
      IF empty = 0 THEN iput(h, dp) ELSE RemoveEntry(h, dp, r.off, r.v))))

\* unlink once dp, the parent, is found.
UnlinkIn(f, dp, name) ==
  IF name \in {Dot, DotDot} THEN iput(f, dp)
  ELSE Let(dirlookup(f, dp, name), LAMBDA r :
    IF r.v = 0 THEN iput(r.fs, dp)
    ELSE Let(iread(r.fs, r.v), LAMBDA g :
      IF g.inode[r.v].d.nlink < 1 THEN panic(g, "unlink: nlink < 1")
      ELSE Then(IF g.inode[r.v].d.type = T_DIR THEN isdirempty(g, r.v) ELSE Result(g, 1),
                LAMBDA h, empty :
             IF empty = 0 THEN iput(iput(h, r.v), dp) ELSE RemoveEntry(h, dp, r.off, r.v))))

unlink(t, path) ==
  /\ t = Client /\ Ready(t)
  /\ Let(nameiparent(fs, path), LAMBDA p :
       end_op(IF p.v = 0 THEN p.fs ELSE UnlinkIn(iread(p.fs, p.v), p.v, p.name),
              ftable, ofile, job))
  /\ UNCHANGED load

------------------------------------------------------------------------------
(* Boot and crashes.                                                       *)

\* p->cwd of each process is namei("/").
pinit(f) ==
  LET n == Cardinality(Procs)
      loop[i \in 0..n] == IF i = 0 THEN f ELSE namei(loop[i - 1], <<"/">>).fs
  IN  loop[n]

\* main: mknod("console"), and the processes.
Boot(f) ==
  Then(create(f, <<"c">>, T_DEV, CONSOLE), LAMBDA g, ip :
    IF g.panic # "" THEN [f EXCEPT !.panic = g.panic]
    ELSE pinit([(IF ip = 0 THEN g ELSE iput(g, ip)) EXCEPT !.log = {}]))

Init ==
  /\ load \in Workloads
  /\ fs = Boot(Image(load.files))
  /\ ftable = [k \in 1..NFILE |-> NoFile]
  /\ ofile = [t \in Threads |-> [fd \in Fds |-> 0]]
  /\ job = [t \in Threads |-> Idle]
  /\ over = FALSE
  /\ lost = {}

Crash ==
  /\ fs' = Boot(Disk([fs EXCEPT !.panic = ""]))
  /\ Fresh
  /\ UNCHANGED <<over, load>>

\* Bound: a read of the console returns no or one character.
Call(t) ==
  \/ \E path \in load.paths, omode \in load.omodes[t] :
       sys_open(t, path, omode) \/ open(t, path, omode)
  \/ \E fd \in Fds : sys_close(t, fd) \/ \E p \in Procs : filedup(t, p, fd)
  \/ \E fd \in Fds, n \in load.reads[t], got \in 0..1 : fileread(t, fd, n, got)
  \/ \E fd \in Fds, cells \in load.writes[t] : sys_write(t, fd, cells)
  \/ \E path \in load.nodes : mknod(t, path) \/ mkdir(t, path)
  \/ \E path \in load.paths : unlink(t, path)

Next == Crash \/ \E t \in Threads : Call(t) \/ CloseInode(t) \/ filewrite(t)

Spec == Init /\ [][Next]_vars

------------------------------------------------------------------------------
(* What the disk holds.                                                    *)

Live == {i \in Inums : fs.dinode[i].type # "free"}
Dirs == {i \in Inums : fs.dinode[i].type = T_DIR}

\* The blocks that inode i refers to: each with its number in the file, from 1,
\* the indirect block with number 0.
Uses(i) ==
  LET a == fs.dinode[i].addrs
      blocks == [k \in 0..MAXFILE |->
                   IF k = 0 THEN a[NDIRECT]
                   ELSE IF k <= NDIRECT THEN a[k - 1]
                   ELSE IF a[NDIRECT] = 0 THEN 0 ELSE fs.data[a[NDIRECT]][k - 1 - NDIRECT].n]
  IN  {<<i, k, blocks[k]>> : k \in {k \in 0..MAXFILE : blocks[k] # 0}}

CellsOf(i) == [k \in 1..fs.dinode[i].size |-> CellAt(fs, fs.dinode[i], k - 1)]

\* The entries in use of directory d: where they are, the name and the inode.
Entries(d) ==
  LET cells == CellsOf(d)
  IN  {[dir |-> d, at |-> k, name |-> cells[k].s, inum |-> cells[k].n] :
         k \in {k \in DOMAIN cells : cells[k].n # 0}}

\* The references to inode slot k: current directories, open files, and closes
\* that have still to drop theirs.
Holders(k) ==
  {<<"file", j>> : j \in {j \in DOMAIN ftable : ftable[j].ref > 0 /\ ftable[j].ip = k}}
    \cup {<<"close", t>> : t \in {t \in Threads : job[t].op = "close" /\ job[t].ip = k}}
    \cup {<<"cwd", p>> : p \in IF fs.inode[k].inum = ROOTINO THEN Procs ELSE {}}

\* The inodes that are open, or whose close is under way.
InUse ==
  {fs.inode[ftable[j].ip].inum : j \in {j \in DOMAIN ftable : ftable[j].ref > 0}}
    \cup {fs.inode[job[t].ip].inum : t \in {t \in Threads : job[t].op = "close"}}

------------------------------------------------------------------------------
(* Properties.                                                             *)

\* The types of what is on the disk and of the tables.  An offset lies in its file,
\* which does not shrink while it is open (fileread, filewrite), or is that of a device.
TypeOK ==
  /\ \A i \in Inums : /\ fs.dinode[i].type \in {"free", T_DIR, T_FILE, T_DEV}
                      /\ fs.dinode[i].size \in 0..(MAXFILE * BSIZE)
                      /\ fs.dinode[i].nlink \in Nat
  /\ fs.bitmap \subseteq Blocks
  /\ \A k \in 0..NINODE : fs.inode[k].inum \in Inums /\ fs.inode[k].ref \in Nat
  /\ fs.log = {}
  /\ \A j \in DOMAIN ftable :
       LET d == fs.dinode[fs.inode[ftable[j].ip].inum]
       IN  /\ ftable[j].ref \in Nat /\ ftable[j].off \in 0..(UintSize - 1)
           /\ ftable[j].ref > 0 /\ d.type # T_DEV => ftable[j].off <= d.size
  /\ \A t \in Threads : Range(ofile[t]) \subseteq 0..NFILE
  /\ lost \subseteq Inums

\* The bitmap marks exactly the blocks before the data area and those that an
\* inode refers to, no block is referred to twice, and an inode has the blocks
\* below its size and no other: after any mix of create, write, unlink, close
\* and crash, balloc, bfree, bmap and itrunc have lost and shared nothing.
BlocksSound ==
  LET uses == UNION {Uses(i) : i \in Live}
      used == {u[3] : u \in uses}
  IN  /\ Cardinality(uses) = Cardinality(used)
      /\ used \subseteq DataBlocks
      /\ fs.bitmap = 0..(nmeta - 1) \cup used
      /\ \A i \in Live : LET n == (fs.dinode[i].size + BSIZE - 1) \div BSIZE
                         IN  {u[2] : u \in {u \in uses : u[1] = i}}
                               = 1..n \cup (IF n > NDIRECT THEN {0} ELSE {})

\* nlink is the number of names (of a directory: and of the ".." of directories
\* that have a name), names in a directory differ, "." and ".." lead where they should, and
\* an inode without a name is in use or was when the machine crashed: what
\* create, dirlink and unlink keep between them.
NamesSound ==
  LET all == UNION {Entries(d) : d \in Dirs}
      names == {e \in all : e.name # Dot /\ fs.dinode[e.dir].nlink > 0}
  IN  /\ \A i \in Live :
           LET links == {e \in names : e.inum = i}
           IN  /\ fs.dinode[i].nlink = Cardinality(links)
               /\ links = {} => i \in InUse \cup lost
      /\ Cardinality(all) = Cardinality({<<e.dir, e.name>> : e \in all})
      /\ \A e \in all : e.name = Dot => e.inum = e.dir
      /\ \A e \in names :
           /\ e.inum \in Live
           /\ e.inum \in Dirs /\ e.name # DotDot =>
                \E up \in all : up.dir = e.inum /\ up.name = DotDot /\ up.inum = e.dir

\* The counts of the inode cache and of the file table are the numbers of those
\* who hold a reference, and no inode is cached twice: no path through open,
\* create, unlink, close or a failed call leaks a reference or drops one too many.
RefsExact ==
  fs.panic = "" =>
    /\ \A k \in Slots : fs.inode[k].ref = Cardinality(Holders(k))
    /\ \A k, l \in Slots : fs.inode[k].ref > 0 /\ fs.inode[l].ref > 0
                             /\ fs.inode[k].inum = fs.inode[l].inum => k = l
    /\ \A j \in DOMAIN ftable :
         ftable[j].ref = Cardinality({x \in Threads \X Fds : ofile[x[1]][x[2]] = j})

\* "i-node cache is write-through" (fs.c:174): between operations what the cache
\* has of an inode, and what filestat tells of an open file, is what the disk has.
WriteThrough ==
  /\ \A k \in Slots : fs.inode[k].valid => fs.inode[k].d = fs.dinode[fs.inode[k].inum]
  /\ \A j \in DOMAIN ftable :
       ftable[j].ref > 0 =>
         LET i == fs.inode[ftable[j].ip].inum
             d == fs.dinode[i]
         IN  filestat(fs, j) = [ino |-> i, type |-> d.type, nlink |-> d.nlink, size |-> d.size]

\* No operation logs more than MAXOPBLOCKS blocks (param.h:7): log_write's
\* "too big a transaction" is out of reach of create, unlink, close and write.
OpFits == ~over

\* The panics that can happen are those of a full disk or a full table; no
\* sequence of calls reaches one that checks the file system's own consistency.
OnlyExhaustion ==
  fs.panic \in {"", "balloc: out of blocks", "ialloc: no inodes", "iget: no inodes"}
==============================================================================
