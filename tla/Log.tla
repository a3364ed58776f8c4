--------------------------------- MODULE Log ---------------------------------
(***************************************************************************)
(* log.c above bio.c: a physical redo log, crashes and recovery.           *)
(*                                                                         *)
(* A thread is main (which runs initlog and one mknod before scheduler()   *)
(* starts the processes) or a process.  File system code is its callers:   *)
(* begin_op, then any number of "bread, change b->data, log_write, brelse" *)
(* (writei, bzero, bfree, ialloc, iupdate ...) and of plain reads, then    *)
(* end_op.  Every bwrite is one disk write, and a step of a thread makes   *)
(* at most one, so that Crash can fall between any two of them.  iderw is  *)
(* one step here (module BufIde takes it apart): the thread that calls it  *)
(* does nothing else until the disk has answered.                          *)
(***************************************************************************)
EXTENDS Bio

CONSTANTS Procs,          \* the processes that call the file system
          Main,           \* the boot thread
          Val,            \* what a block outside the log header can hold
          Zero,           \* ... a block of zeros among it
          LogStart,       \* sb.logstart
          nlog,           \* sb.nlog: the header block and nlog-1 log blocks
          LOGSIZE,        \* param.h
          MAXOPBLOCKS     \* param.h: the most blocks one operation writes

Threads == Procs \cup {Main}

SbBlock == 1
LogBlocks == (LogStart + 1)..(LogStart + nlog - 1)
Home == BlockNo \ ({SbBlock, LogStart} \cup LogBlocks)

ASSUME LayoutAssumption ==
  /\ LogStart \in Nat /\ nlog \in Nat /\ nlog > 1
  /\ LogStart > SbBlock
  /\ BlockNo \subseteq Nat
  /\ {SbBlock, LogStart} \cup LogBlocks \subseteq BlockNo

ASSUME LimitAssumption == LOGSIZE \in Nat /\ MAXOPBLOCKS \in Nat

ASSUME MainAssumption == Main \notin Procs

ASSUME ZeroAssumption == Zero \in Val

VARIABLES disk,       \* the content of every block
          bc,         \* the buffer cache
          lh,         \* log.lh: block[0..n-1]
          pc,         \* where each thread is
          tail,       \* its loop counter in write_log and install_trans
          held,       \* the buffer it has changed and not yet log_written
          wrote,      \* the blocks its operation has changed
          started,    \* scheduler() runs: main is done, the processes go
          panicked

vars == <<disk, bc, lh, pc, tail, held, wrote, started, panicked>>

\* A block holds data, or in the header block the numbers of the logged blocks.
Content == Val \cup Seq(Home)

NoBuf == 0

Elems(s) == {s[i] : i \in DOMAIN s}

------------------------------------------------------------------------------
(* bread and bwrite with the disk access done.                             *)

\* The cache after bread(b) returned buffer v: iderw fills it unless B_VALID.
bread(c, b, v) ==
  LET g == AfterBget(c, b, v)
  IN  IF Valid(g, v) THEN g
      ELSE Put(g, v, Buffer(b, {B_VALID}, g.buf[v].refcnt, disk[b]))

\* bwrite(v): what it leaves in the cache, and on the disk.
bwrite(c, v) == Put(c, v, [c.buf[v] EXCEPT !.flags = {B_VALID}])

Written(c, v) == [disk EXCEPT ![c.buf[v].blockno] = c.buf[v].data]

Running(t) == ~panicked /\ (t = Main) = ~started

Goto(t, label) == pc' = [pc EXCEPT ![t] = label]

panic ==
  /\ panicked' = TRUE
  /\ UNCHANGED <<disk, bc, lh, pc, tail, held, wrote, started>>

------------------------------------------------------------------------------
(* Boot.                                                                   *)

\* The disk mkfs made: an empty log, and any file system outside it.
Init ==
  /\ \E fs \in [Home -> Val] :
       disk = [b \in BlockNo |-> CASE b \in Home -> fs[b]
                                   [] b = LogStart -> <<>>
                                   [] OTHER -> Zero]
  /\ bc = binit
  /\ lh = <<>>
  /\ pc = [t \in Threads |-> IF t = Main THEN "initlog" ELSE "idle"]
  /\ tail = [t \in Threads |-> 0]
  /\ held = [t \in Threads |-> NoBuf]
  /\ wrote = [t \in Threads |-> {}]
  /\ started = FALSE
  /\ panicked = FALSE

\* The power goes, or the machine is reset after a panic: memory is lost, the
\* disk keeps the blocks written so far, and main runs again.
Crash ==
  /\ bc' = binit
  /\ lh' = <<>>
  /\ pc' = [t \in Threads |-> IF t = Main THEN "initlog" ELSE "idle"]
  /\ tail' = [t \in Threads |-> 0]
  /\ held' = [t \in Threads |-> NoBuf]
  /\ wrote' = [t \in Threads |-> {}]
  /\ started' = FALSE
  /\ panicked' = FALSE
  /\ UNCHANGED disk

\* A thread reads block b and releases it: readsb, readi, iread, dirlookup ...
ReadBlock(b) ==
  \E v \in Bufs : Bget(bc, b, v) /\ bc' = brelse(bread(bc, b, v), v)

initlog(t) ==
  /\ pc[t] = "initlog" /\ Running(t)
  /\ \/ /\ ReadBlock(SbBlock)
        /\ Goto(t, "read_head")
        /\ UNCHANGED <<disk, lh, tail, held, wrote, started, panicked>>
     \/ NoBuffers(bc, SbBlock) /\ panic

read_head(t) ==
  /\ pc[t] = "read_head" /\ Running(t)
  /\ \/ \E v \in Bufs :
          /\ Bget(bc, LogStart, v)
          /\ LET c == bread(bc, LogStart, v)
             IN  lh' = c.buf[v].data /\ bc' = brelse(c, v)
          /\ Goto(t, "install_trans")
          /\ tail' = [tail EXCEPT ![t] = 0]
          /\ UNCHANGED <<disk, held, wrote, started, panicked>>
     \/ NoBuffers(bc, LogStart) /\ panic

\* main calls scheduler().
scheduler ==
  /\ pc[Main] = "idle" /\ Running(Main)
  /\ started' = TRUE
  /\ UNCHANGED <<disk, bc, lh, pc, tail, held, wrote, panicked>>

------------------------------------------------------------------------------
(* A file system operation.                                                *)

\* begin_op does nothing: the step only marks where the operation starts.
begin_op(t) ==
  /\ pc[t] = "idle" /\ Running(t)
  /\ Goto(t, "op")
  /\ UNCHANGED <<disk, bc, lh, tail, held, wrote, started, panicked>>

readi(t, b) ==
  /\ pc[t] = "op" /\ Running(t)
  /\ \/ /\ ReadBlock(b)
        /\ UNCHANGED <<disk, lh, pc, tail, held, wrote, started, panicked>>
     \/ NoBuffers(bc, b) /\ panic

\* bp = bread(b); change bp->data.
modify(t, b, x) ==
  /\ pc[t] = "op" /\ Running(t)
  /\ Cardinality(wrote[t] \cup {b}) <= MAXOPBLOCKS
  /\ \/ \E v \in Bufs :
          /\ Bget(bc, b, v)
          /\ bc' = SetData(bread(bc, b, v), v, x)
          /\ held' = [held EXCEPT ![t] = v]
          /\ wrote' = [wrote EXCEPT ![t] = @ \cup {b}]
          /\ Goto(t, "log_write")
          /\ UNCHANGED <<disk, lh, tail, started, panicked>>
     \/ NoBuffers(bc, b) /\ panic

\* A log_write after which the caller releases the buffer twice.
log_writeReleasingTwice(t) ==
  /\ pc[t] = "log_write" /\ Running(t)
  /\ bc' = brelse(brelse(SetDirty(bc, held[t]), held[t]), held[t])
  /\ Goto(t, "op")
  /\ UNCHANGED <<disk, lh, tail, held, wrote, started, panicked>>

\* A log_write without absorption.
log_writeAppending(t) ==
  /\ pc[t] = "log_write" /\ Running(t)
  /\ IF Len(lh) >= LOGSIZE \/ Len(lh) >= nlog - 1
     THEN panic
     ELSE /\ lh' = Append(lh, bc.buf[held[t]].blockno)
          /\ bc' = brelse(SetDirty(bc, held[t]), held[t])
          /\ held' = [held EXCEPT ![t] = NoBuf]
          /\ Goto(t, "op")
          /\ UNCHANGED <<disk, tail, wrote, started, panicked>>

\* log_write(bp); brelse(bp).
log_write(t) ==
  /\ pc[t] = "log_write" /\ Running(t)
  /\ IF Len(lh) >= LOGSIZE \/ Len(lh) >= nlog - 1
     THEN panic
     ELSE LET v == held[t]
              b == bc.buf[v].blockno
          IN  /\ lh' = IF b \in Elems(lh) THEN lh ELSE Append(lh, b)
              /\ bc' = brelse(SetDirty(bc, v), v)
              /\ held' = [held EXCEPT ![t] = NoBuf]
              /\ Goto(t, "op")
              /\ UNCHANGED <<disk, tail, wrote, started, panicked>>

\* A commit that writes the header before the blocks.
end_opHeaderFirst(t) ==
  /\ pc[t] = "op" /\ Running(t)
  /\ Goto(t, IF Len(lh) > 0 THEN "write_head" ELSE "idle")
  /\ tail' = [tail EXCEPT ![t] = 0]
  /\ wrote' = [wrote EXCEPT ![t] = {}]
  /\ UNCHANGED <<disk, bc, lh, held, started, panicked>>

\* end_op calls commit, which has nothing to do when nothing is logged.
end_op(t) ==
  /\ pc[t] = "op" /\ Running(t)
  /\ Goto(t, IF Len(lh) > 0 THEN "write_log" ELSE "idle")
  /\ tail' = [tail EXCEPT ![t] = 0]
  /\ wrote' = [wrote EXCEPT ![t] = {}]
  /\ UNCHANGED <<disk, bc, lh, held, started, panicked>>

------------------------------------------------------------------------------
(* commit and recover_from_log.                                            *)

\* Mutant: the loop of install_trans forgets its tail++.
AdvanceForgotten(t) ==
  tail' = IF pc[t] = "install_trans" THEN tail ELSE [tail EXCEPT ![t] = @ + 1]

\* tail++
Advance(t) == tail' = [tail EXCEPT ![t] = @ + 1]

\* One pass of the loop of write_log: the cached block goes to its log block.
write_log(t) ==
  LET to_b == LogStart + tail[t] + 1
      from_b == lh[tail[t] + 1]
  IN
  /\ pc[t] = "write_log" /\ Running(t)
  /\ IF tail[t] < Len(lh)
     THEN \/ \E to, from \in Bufs :
               LET c1 == bread(bc, to_b, to)
                   c2 == bread(c1, from_b, from)
                   c3 == SetData(c2, to, c2.buf[from].data)
               IN  /\ Bget(bc, to_b, to)
                   /\ Bget(c1, from_b, from)
                   /\ disk' = Written(c3, to)
                   /\ bc' = brelse(brelse(bwrite(c3, to), from), to)
                   /\ Advance(t)
                   /\ UNCHANGED <<lh, pc, held, wrote, started, panicked>>
          \/ NoBuffers(bc, to_b) /\ panic
          \/ \E to \in Bufs :
               /\ Bget(bc, to_b, to)
               /\ NoBuffers(bread(bc, to_b, to), from_b)
               /\ panic
     ELSE /\ Goto(t, "write_head")
          /\ UNCHANGED <<disk, bc, lh, tail, held, wrote, started, panicked>>

\* write_head: the in-memory header goes to the header block.
HeadWritten ==
  \E v \in Bufs :
    LET c == SetData(bread(bc, LogStart, v), v, lh)
    IN  /\ Bget(bc, LogStart, v)
        /\ disk' = Written(c, v)
        /\ bc' = brelse(bwrite(c, v), v)

\* The write_head that commits.
write_head(t) ==
  /\ pc[t] = "write_head" /\ Running(t)
  /\ \/ /\ HeadWritten
        /\ Goto(t, "install_trans")
        /\ tail' = [tail EXCEPT ![t] = 0]
        /\ UNCHANGED <<lh, held, wrote, started, panicked>>
     \/ NoBuffers(bc, LogStart) /\ panic

\* One pass of the loop of install_trans: the log block goes to its home.
install_trans(t) ==
  LET l_b == LogStart + tail[t] + 1
      d_b == lh[tail[t] + 1]
  IN
  /\ pc[t] = "install_trans" /\ Running(t)
  /\ IF tail[t] < Len(lh)
     THEN \/ \E l, d \in Bufs :
               LET c1 == bread(bc, l_b, l)
                   c2 == bread(c1, d_b, d)
                   c3 == SetData(c2, d, c2.buf[l].data)
               IN  /\ Bget(bc, l_b, l)
                   /\ Bget(c1, d_b, d)
                   /\ disk' = Written(c3, d)
                   /\ bc' = brelse(brelse(bwrite(c3, d), l), d)
                   /\ Advance(t)
                   /\ UNCHANGED <<lh, pc, held, wrote, started, panicked>>
          \/ NoBuffers(bc, l_b) /\ panic
          \/ \E l \in Bufs :
               /\ Bget(bc, l_b, l)
               /\ NoBuffers(bread(bc, l_b, l), d_b)
               /\ panic
     ELSE /\ Goto(t, "clear")
          /\ UNCHANGED <<disk, bc, lh, tail, held, wrote, started, panicked>>

\* A commit that forgets log.lh.n = 0.
clearForgotten(t) ==
  /\ pc[t] = "clear" /\ Running(t)
  /\ Goto(t, "erase")
  /\ UNCHANGED <<disk, bc, lh, tail, held, wrote, started, panicked>>

\* log.lh.n = 0.
clear(t) ==
  /\ pc[t] = "clear" /\ Running(t)
  /\ lh' = <<>>
  /\ Goto(t, "erase")
  /\ UNCHANGED <<disk, bc, tail, held, wrote, started, panicked>>

\* The write_head that erases the transaction.
erase(t) ==
  /\ pc[t] = "erase" /\ Running(t)
  /\ \/ /\ HeadWritten
        /\ Goto(t, "idle")
        /\ UNCHANGED <<lh, tail, held, wrote, started, panicked>>
     \/ NoBuffers(bc, LogStart) /\ panic

\* What a thread does without a caller's choice: recovery and commit.
LogStep(t) ==
  \/ initlog(t) \/ read_head(t)
  \/ write_log(t) \/ write_head(t)
  \/ install_trans(t) \/ clear(t) \/ erase(t)

OpStep(t) ==
  \/ begin_op(t) \/ log_write(t) \/ end_op(t)
  \/ \E b \in Home : readi(t, b)
  \/ \E b \in Home, x \in Val : modify(t, b, x)

Next ==
  \/ \E t \in Threads : LogStep(t) \/ OpStep(t)
  \/ scheduler
  \/ Crash

Spec == Init /\ [][Next]_vars

\* A thread in the log keeps running: nothing in it waits for another thread,
\* and the scheduler gives every process its turn.
FairSpec == Spec /\ \A t \in Threads : WF_vars(LogStep(t))

------------------------------------------------------------------------------
(* Properties.                                                             *)

Labels ==
  {"initlog", "read_head", "idle", "op", "log_write", "write_log",
   "write_head", "install_trans", "clear", "erase"}

\* The type invariant.
TypeOK ==
  /\ disk \in [BlockNo -> Content]
  /\ bc \in BcacheType(Content)
  /\ lh \in Seq(Home)
  /\ pc \in [Threads -> Labels]
  /\ tail \in [Threads -> Nat]
  /\ held \in [Threads -> Bufs \cup {NoBuf}]
  /\ wrote \in [Threads -> SUBSET Home]
  /\ started \in BOOLEAN
  /\ panicked \in BOOLEAN

\* What recovery would make of the disk: the home blocks, overlaid with the
\* log blocks that the header names.
Recovered ==
  [b \in Home |->
     IF b \in Elems(disk[LogStart])
     THEN disk[LogStart + (CHOOSE i \in DOMAIN disk[LogStart] :
                             disk[LogStart][i] = b)]
     ELSE disk[b]]

\* What bread returns for each home block.
View ==
  [b \in Home |->
     IF Cached(bc, b)
     THEN bc.buf[CHOOSE v \in Bufs : bc.buf[v].blockno = b].data
     ELSE disk[b]]

Recovering == ~started /\ pc[Main] \in {"initlog", "read_head", "install_trans",
                                        "clear", "erase"}

Active == {t \in Threads : pc[t] \in {"op", "log_write", "write_log", "write_head"}}

\* The log implements atomic transactions: whatever the steps between which a
\* crash falls, during a commit, during a recovery or during the recovery of a
\* recovery, the disk recovers to the state of the last operation that
\* committed, with all of its writes and nothing of the next one; and outside
\* recovery bread returns the latest write although write_log and
\* install_trans go through the same small cache that holds the changes.
T == INSTANCE Transactions
       WITH durable <- Recovered,
            current <- IF Recovering THEN Recovered ELSE View,
            active <- Active

AtomicTransactions == T!Spec

\* The cache never has two buffers for a block, evicts no change that is not
\* committed, and a buffer it may recycle holds what the disk holds (bget's
\* second loop, log_write's B_DIRTY, and bwrite clearing it in install_trans).
CacheCoherent ==
  /\ \A u, v \in Bufs : /\ bc.buf[u].blockno = bc.buf[v].blockno
                        /\ bc.buf[u].blockno # NoBlock
                        => u = v
  /\ \A v \in Bufs : /\ Valid(bc, v)
                     /\ Unused(bc, v)
                     => bc.buf[v].data = disk[bc.buf[v].blockno]
  /\ \A t \in Threads : \A b \in wrote[t] : Cached(bc, b)

\* An operation within MAXOPBLOCKS never meets "bget: no buffers" nor "too big
\* a transaction": commit finds the buffer for the log block beside the pinned
\* ones, and log_write's test, made before absorption, still passes.
NoPanic == ~panicked

\* Once every thread is out of the file system, all that operations wrote is
\* durable: end_op "calls commit to write the blocks changed by the operation"
\* (p12-log.md:48).
DurableWhenIdle ==
  (~panicked /\ \A t \in Threads : pc[t] = "idle") => View = Recovered

\* Recovery ends, if the machine stays up long enough.
RecoveryEnds ==
  <>[][~Crash]_vars => (pc[Main] = "initlog" ~> pc[Main] = "idle")

\* A commit that has begun ends, unless a crash takes the thread away.
CommitEnds ==
  \A t \in Threads :
    pc[t] = "write_log" ~> (pc[t] = "idle" \/ pc[Main] = "initlog")

------------------------------------------------------------------------------
(* The inductive invariant behind AtomicTransactions, for one process.     *)

NoRepeat(s) == \A i, j \in DOMAIN s : s[i] = s[j] => i = j

\* The thread the CPU belongs to.
Current(t) == (t = Main) = ~started

Holds(v) == \E t \in Threads : pc[t] = "log_write" /\ held[t] = v

\* Every buffer but the one being changed is released; a buffer that is neither
\* pinned nor being changed agrees with the disk.
CacheInv ==
  /\ \A u, v \in Bufs : /\ bc.buf[u].blockno = bc.buf[v].blockno
                        /\ bc.buf[u].blockno # NoBlock
                        => u = v
  /\ \A v \in Bufs :
       LET x == bc.buf[v]
       IN  /\ x.blockno = NoBlock => x = EmptyBuf
           /\ x.blockno # NoBlock => Valid(bc, v)
           /\ x.refcnt = IF Holds(v) THEN 1 ELSE 0
           /\ Dirty(bc, v) \/ Holds(v) => x.blockno \in Home /\ x.data \in Val
           /\ x.blockno # NoBlock /\ ~Dirty(bc, v) /\ ~Holds(v) => x.data = disk[x.blockno]

DiskInv ==
  /\ disk[LogStart] \in Seq(Home)
  /\ NoRepeat(disk[LogStart])
  /\ Len(disk[LogStart]) <= nlog - 1
  /\ \A b \in BlockNo \ {LogStart} : disk[b] \in Val

LhInv ==
  /\ NoRepeat(lh)
  /\ Len(lh) <= nlog - 1

\* What is pinned is what is logged, and nothing is committed.
PinnedInv ==
  /\ disk[LogStart] = <<>>
  /\ \A v \in Bufs : Dirty(bc, v) => bc.buf[v].blockno \in Elems(lh)
  /\ \A b \in Elems(lh) : \E v \in Bufs : bc.buf[v].blockno = b /\ Dirty(bc, v)

\* The first k log blocks hold the changed blocks.
LoggedInv(k) ==
  \A i \in 1..k : \A v \in Bufs :
    bc.buf[v].blockno = lh[i] => bc.buf[v].data = disk[LogStart + i]

\* The first k blocks that the header names are installed.
InstalledInv(k) ==
  \A i \in 1..k : disk[disk[LogStart][i]] = disk[LogStart + i]

NothingPinned == \A v \in Bufs : ~Dirty(bc, v)

PhaseInv(t) ==
  /\ pc[t] \in {"initlog", "read_head"} => NothingPinned
  /\ pc[t] = "idle" => lh = <<>>
  /\ pc[t] \in {"idle", "op", "log_write"} => PinnedInv
  /\ pc[t] = "write_log" => PinnedInv /\ tail[t] <= Len(lh) /\ LoggedInv(tail[t])
  /\ pc[t] = "write_head" => PinnedInv /\ LoggedInv(Len(lh))
  /\ pc[t] = "install_trans" =>
       /\ disk[LogStart] = lh
       /\ tail[t] <= Len(lh)
       /\ InstalledInv(tail[t])
       /\ \A v \in Bufs : Dirty(bc, v) =>
            \E i \in (tail[t] + 1)..Len(lh) :
               bc.buf[v].blockno = lh[i] /\ bc.buf[v].data = disk[LogStart + i]
  /\ pc[t] = "clear" =>
       disk[LogStart] = lh /\ InstalledInv(Len(lh)) /\ NothingPinned
  /\ pc[t] = "erase" =>
       lh = <<>> /\ InstalledInv(Len(disk[LogStart])) /\ NothingPinned

\* The log block a commit copies is the one recovery installs: at each point of
\* the protocol, how the cache, the in-memory header, the header block, the log
\* blocks and the home blocks agree (commit, recover_from_log, log_write).
LogInv ==
  /\ CacheInv /\ DiskInv /\ LhInv
  /\ \A t \in Threads :
       /\ ~Current(t) => pc[t] = "idle"
       /\ pc[t] = "log_write" => held[t] \in Bufs
       /\ Current(t) => PhaseInv(t)
==============================================================================
