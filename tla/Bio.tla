--------------------------------- MODULE Bio ---------------------------------
(***************************************************************************)
(* The buffer cache of bio.c, as operators on a value bc that holds the    *)
(* whole of it:                                                            *)
(*   bc.buf[v]   struct buf number v: the block it caches, the flags       *)
(*               B_VALID and B_DIRTY that are set, refcnt and the data;    *)
(*   bc.mru[k]   the k-th buffer of the list bcache.head.next,             *)
(*               head.next->next, ...: mru[1] is the most recently used    *)
(*               buffer and mru[NBUF] is bcache.head.prev.                 *)
(* The disk has one device, so dev is left out.  A buffer that caches      *)
(* nothing yet has blockno = NoBlock (bcache is in .bss: its dev is 0,     *)
(* which no caller asks for).                                              *)
(*                                                                         *)
(* bget is a relation: Bget(bc, b, v) says that bget(b) returns buffer v.  *)
(* The modules that EXTEND this one run iderw in different ways: Log runs  *)
(* it as one step, BufIde interleaves it with the interrupt handler.       *)
(***************************************************************************)
EXTENDS Integers, Sequences, FiniteSets

CONSTANTS NBUF,        \* size of the cache (param.h)
          BlockNo,     \* the block numbers of the disk
          NoBlock,     \* the blockno of a buffer never used
          NoData       \* the data of a buffer never filled

ASSUME NBUFAssumption == NBUF \in Nat \ {0}

ASSUME NoBlockAssumption == NoBlock \notin BlockNo

Bufs == 1..NBUF

B_VALID == "B_VALID"
B_DIRTY == "B_DIRTY"

BufType(Content) ==
  [blockno : BlockNo \cup {NoBlock}, flags : SUBSET {B_VALID, B_DIRTY},
   refcnt : Nat, data : Content \cup {NoData}]

Buffer(b, flags, n, d) ==
  [blockno |-> b, flags |-> flags, refcnt |-> n, data |-> d]

BcacheType(Content) ==
  [buf : [Bufs -> BufType(Content)], mru : [Bufs -> Bufs]]

\* binit inserts every buffer at the head: the list runs from the last to the
\* first, and the first buffer is the first victim.
EmptyBuf == Buffer(NoBlock, {}, 0, NoData)

binit ==
  [buf |-> [v \in Bufs |-> EmptyBuf],
   mru |-> [k \in Bufs |-> NBUF + 1 - k]]

Valid(bc, v) == B_VALID \in bc.buf[v].flags
Dirty(bc, v) == B_DIRTY \in bc.buf[v].flags

Cached(bc, b) == \E v \in Bufs : bc.buf[v].blockno = b

\* Mutant: bget forgets that B_DIRTY marks a buffer in use.
UnusedIgnoringDirty(bc, v) == bc.buf[v].refcnt = 0

\* A buffer bget may recycle: no holder, and no uncommitted change.
Unused(bc, v) == bc.buf[v].refcnt = 0 /\ ~Dirty(bc, v)

\* The first buffer from the head of the list that caches b.
Hit(bc, b, v) ==
  \E k \in Bufs :
    /\ bc.mru[k] = v
    /\ bc.buf[v].blockno = b
    /\ \A j \in 1..(k-1) : bc.buf[bc.mru[j]].blockno # b

\* The first unused buffer from the tail of the list.
Victim(bc, v) ==
  \E k \in Bufs :
    /\ bc.mru[k] = v
    /\ Unused(bc, v)
    /\ \A j \in (k+1)..NBUF : ~Unused(bc, bc.mru[j])

\* bget(b) returns buffer v ...
Bget(bc, b, v) == IF Cached(bc, b) THEN Hit(bc, b, v) ELSE Victim(bc, v)

\* ... or panics.
NoBuffers(bc, b) == ~Cached(bc, b) /\ \A v \in Bufs : ~Unused(bc, v)

\* The cache with x for buffer v.
Put(bc, v, x) == [bc EXCEPT !.buf = [@ EXCEPT ![v] = x]]

\* Mutant: a recycled buffer keeps its flags, and so B_VALID.
AfterBgetKeepingFlags(bc, b, v) ==
  IF Cached(bc, b)
  THEN Put(bc, v, [bc.buf[v] EXCEPT !.refcnt = @ + 1])
  ELSE Put(bc, v, Buffer(b, bc.buf[v].flags, 1, NoData))

\* The cache after bget(b) returned v.  A recycled buffer keeps the old bytes
\* until iderw fills it; nobody reads them while it is not valid.
AfterBget(bc, b, v) ==
  IF Cached(bc, b)
  THEN Put(bc, v, [bc.buf[v] EXCEPT !.refcnt = @ + 1])
  ELSE Put(bc, v, Buffer(b, {}, 1, NoData))

\* v moved to the head of the list.
ToFront(mru, v) ==
  LET pos == CHOOSE k \in Bufs : mru[k] = v
  IN  [k \in Bufs |-> IF k = 1 THEN v
                      ELSE IF k <= pos THEN mru[k-1] ELSE mru[k]]

brelse(bc, v) ==
  LET released == Put(bc, v, [bc.buf[v] EXCEPT !.refcnt = @ - 1])
  IN  IF released.buf[v].refcnt = 0
      THEN [released EXCEPT !.mru = ToFront(@, v)]
      ELSE released

\* A caller's store into b->data.
SetData(bc, v, d) == Put(bc, v, [bc.buf[v] EXCEPT !.data = d])

\* log_write's or bwrite's b->flags |= B_DIRTY.
SetDirty(bc, v) == Put(bc, v, [bc.buf[v] EXCEPT !.flags = @ \cup {B_DIRTY}])
==============================================================================
