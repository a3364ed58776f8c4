--------------------------- MODULE LogCacheProofs ----------------------------
(*****************************************************************************)
(* What the operations of Log do to the buffer cache, for any number of      *)
(* buffers and blocks.                                                       *)
(*****************************************************************************)
EXTENDS Log, TLAPS

\* A cache with one buffer per block, in which a buffer that caches a block
\* is filled: what bget and iderw keep.
Sane(c) ==
  /\ c \in BcacheType(Content)
  /\ \A u, v \in Bufs : /\ c.buf[u].blockno = c.buf[v].blockno
                        /\ c.buf[u].blockno # NoBlock
                        => u = v
  /\ \A v \in Bufs : c.buf[v].blockno # NoBlock => Valid(c, v)

\* CacheInv, split into what it says of two buffers and what it says of one.
OneCopy == \A u, v \in Bufs : /\ bc.buf[u].blockno = bc.buf[v].blockno
                              /\ bc.buf[u].blockno # NoBlock
                              => u = v

CellInv(v) ==
  /\ bc.buf[v].blockno = NoBlock => bc.buf[v] = EmptyBuf
  /\ bc.buf[v].blockno # NoBlock => Valid(bc, v)
  /\ bc.buf[v].refcnt = IF Holds(v) THEN 1 ELSE 0
  /\ Dirty(bc, v) \/ Holds(v) => bc.buf[v].blockno \in Home /\ bc.buf[v].data \in Val
  /\ bc.buf[v].blockno # NoBlock /\ ~Dirty(bc, v) /\ ~Holds(v)
       => bc.buf[v].data = disk[bc.buf[v].blockno]

\* The cache invariant holds of the cache exactly when it holds buffer by buffer.
LEMMA CellLemma == CacheInv <=> OneCopy /\ \A v \in Bufs : CellInv(v)
  BY Zenon DEF CacheInv, OneCopy, CellInv

\* The same of the cache after a step.
LEMMA CellLemmaNext == CacheInv' <=> OneCopy' /\ \A v \in Bufs : CellInv(v)'
  BY Zenon DEF CacheInv, OneCopy, CellInv

\* Put changes one buffer and keeps the type of the cache.
LEMMA PutLemma ==
  ASSUME NEW c \in BcacheType(Content), NEW v \in Bufs,
         NEW x \in BufType(Content)
  PROVE  /\ Put(c, v, x) \in BcacheType(Content)
         /\ Put(c, v, x).mru = c.mru
         /\ Put(c, v, x).buf[v] = x
         /\ \A u \in Bufs : u # v => Put(c, v, x).buf[u] = c.buf[u]
<1> DEFINE f == [c.buf EXCEPT ![v] = x]
<1>1. c.buf \in [Bufs -> BufType(Content)] /\ c.mru \in [Bufs -> Bufs]
  BY DEF BcacheType
<1>2. /\ f \in [Bufs -> BufType(Content)]
      /\ f[v] = x
      /\ \A u \in Bufs : u # v => f[u] = c.buf[u]
  BY <1>1
<1>3. Put(c, v, x) = [c EXCEPT !.buf = f]
  BY DEF Put
<1>4. Put(c, v, x).buf = f /\ Put(c, v, x).mru = c.mru
  BY <1>3 DEF BcacheType
<1>5. Put(c, v, x) \in BcacheType(Content)
  BY <1>1, <1>2, <1>3 DEF BcacheType
<1>. QED
  BY <1>2, <1>4, <1>5

\* r is the cache after a bread of b that returned v.
BreadOf(c, b, v, r) ==
  /\ Sane(r)
  /\ r.buf[v].blockno = b
  /\ r.buf[v].refcnt > 0
  /\ \A u \in Bufs : u # v => r.buf[u] = c.buf[u]
  /\ \/ /\ c.buf[v].blockno = b
        /\ r.buf[v] = [c.buf[v] EXCEPT !.refcnt = @ + 1]
     \/ /\ ~Cached(c, b) /\ Unused(c, v)
        /\ r.buf[v] = Buffer(b, {B_VALID}, 1, disk[b])

\* bread returns a buffer that caches b, filled: the one that cached b
\* already, or a recycled one filled from the disk; no other buffer changes.
LEMMA BreadLemma ==
  ASSUME NEW c, Sane(c), disk \in [BlockNo -> Content],
         NEW b \in BlockNo, NEW v \in Bufs, Bget(c, b, v)
  PROVE  BreadOf(c, b, v, bread(c, b, v))
<1> DEFINE g == AfterBget(c, b, v)
           r == bread(c, b, v)
<1>0. b # NoBlock /\ c \in BcacheType(Content) /\ c.buf[v] \in BufType(Content)
  BY NoBlockAssumption DEF Sane, BcacheType
<1>1. CASE Cached(c, b)
  <2> DEFINE x == [c.buf[v] EXCEPT !.refcnt = @ + 1]
  <2>1. c.buf[v].blockno = b
    BY <1>1 DEF Bget, Hit
  <2>2. B_VALID \in c.buf[v].flags
    BY <1>0, <2>1 DEF Sane, Valid
  <2>3. /\ x \in BufType(Content)
        /\ x.blockno = b /\ B_VALID \in x.flags /\ x.refcnt > 0
    BY <1>0, <2>1, <2>2 DEF BufType
  <2>4. g = Put(c, v, x)
    BY <1>1 DEF AfterBget
  <2> HIDE DEF x, g
  <2>5. /\ g \in BcacheType(Content)
        /\ g.buf[v] = x
        /\ \A u \in Bufs : u # v => g.buf[u] = c.buf[u]
    BY <1>0, <2>3, <2>4, PutLemma, SMTT(60)
  <2>6. r = g
    BY <2>3, <2>5 DEF bread, g, Valid
  <2>7. Sane(g)
    BY <2>1, <2>3, <2>5 DEF Sane, Valid
  <2>. QED
    BY <2>1, <2>3, <2>5, <2>6, <2>7, Zenon DEF x, BreadOf
<1>2. CASE ~Cached(c, b)
  <2> DEFINE x == Buffer(b, {}, 1, NoData)
             y == Buffer(b, {B_VALID}, 1, disk[b])
  <2>1. Unused(c, v)
    BY <1>2 DEF Bget, Victim
  <2>2. x \in BufType(Content) /\ y \in BufType(Content)
    BY DEF BufType, Buffer
  <2>3. y.blockno = b /\ B_VALID \in y.flags /\ y.refcnt > 0
    BY DEF Buffer
  <2>4. g = Put(c, v, x)
    BY <1>2 DEF AfterBget
  <2>5. x.refcnt = 1 /\ B_VALID \notin x.flags
    BY DEF Buffer
  <2> HIDE DEF x, y, g
  <2>6. /\ g \in BcacheType(Content)
        /\ g.buf[v] = x
        /\ \A u \in Bufs : u # v => g.buf[u] = c.buf[u]
    BY <1>0, <2>2, <2>4, PutLemma, ZenonT(60)
  <2>7. r = Put(g, v, y)
    BY <2>5, <2>6 DEF bread, g, y, Valid
  <2> HIDE DEF r
  <2>8. /\ r \in BcacheType(Content)
        /\ r.buf[v] = y
        /\ \A u \in Bufs : u # v => r.buf[u] = c.buf[u]
    BY <2>2, <2>6, <2>7, PutLemma, SMTT(60)
  <2>9. Sane(r)
    BY <1>2, <2>3, <2>8 DEF Sane, Cached, Valid
  <2>. QED
    BY <1>2, <2>1, <2>3, <2>8, <2>9 DEF r, y, BreadOf
<1>. QED
  BY <1>1, <1>2

\* brelse drops one reference and changes nothing else of any buffer.
LEMMA BrelseLemma ==
  ASSUME NEW c \in BcacheType(Content), NEW v \in Bufs, c.buf[v].refcnt > 0
  PROVE  /\ brelse(c, v) \in BcacheType(Content)
         /\ brelse(c, v).buf[v] = [c.buf[v] EXCEPT !.refcnt = @ - 1]
         /\ \A u \in Bufs : u # v => brelse(c, v).buf[u] = c.buf[u]
<1> DEFINE x == [c.buf[v] EXCEPT !.refcnt = @ - 1]
           r == Put(c, v, x)
<1>1. x \in BufType(Content)
  BY DEF BcacheType, BufType
<1>2. /\ r \in BcacheType(Content)
      /\ r.buf[v] = x
      /\ \A u \in Bufs : u # v => r.buf[u] = c.buf[u]
  BY <1>1, PutLemma
<1>3. ToFront(r.mru, v) \in [Bufs -> Bufs]
  <2>1. r.mru \in [Bufs -> Bufs]
    BY <1>2 DEF BcacheType
  <2>. QED
    BY <2>1, NBUFAssumption, SMTT(60) DEF ToFront, Bufs
<1>4. brelse(c, v) \in {r, [r EXCEPT !.mru = ToFront(@, v)]}
  BY SMTT(60) DEF brelse
<1>5. /\ [r EXCEPT !.mru = ToFront(@, v)] \in BcacheType(Content)
      /\ [r EXCEPT !.mru = ToFront(@, v)].buf = r.buf
  BY <1>2, <1>3, ZenonT(60) DEF BcacheType
<1>. QED
  BY <1>2, <1>4, <1>5, Zenon

\* Buffer v cached b, or bget may recycle it.
Takes(v, b) == bc.buf[v].blockno = b \/ Unused(bc, v)

\* No thread is between bread and log_write.
NoneHeld == \A v \in Bufs : ~Holds(v)

\* A bread hit and its brelse cancel out.
LEMMA RefcntLemma ==
  ASSUME NEW r \in BufType(Content)
  PROVE  [[r EXCEPT !.refcnt = @ + 1] EXCEPT !.refcnt = @ - 1] = r
<1> DEFINE y == [r EXCEPT !.refcnt = @ + 1]
           z == [y EXCEPT !.refcnt = @ - 1]
<1>1. /\ y \in BufType(Content)
      /\ y.refcnt = r.refcnt + 1
      /\ y.blockno = r.blockno /\ y.flags = r.flags /\ y.data = r.data
  BY DEF BufType
<1> HIDE DEF y
<1>2. /\ z \in BufType(Content)
      /\ z.refcnt = r.refcnt
      /\ z.blockno = r.blockno /\ z.flags = r.flags /\ z.data = r.data
  BY <1>1 DEF BufType
<1> HIDE DEF z
<1>3. z = r
  BY <1>2 DEF BufType
<1>. QED
  BY <1>3 DEF y, z

\* The invariant gives what bread needs.
LEMMA SaneLemma ==
  ASSUME TypeOK, CacheInv
  PROVE  /\ Sane(bc) /\ disk \in [BlockNo -> Content]
         /\ \A v \in Bufs : bc.buf[v] \in BufType(Content)
BY DEF TypeOK, CacheInv, Sane, BcacheType

\* The header block and the log blocks are no home blocks.
LEMMA LayoutLemma ==
  /\ LogStart \in BlockNo /\ SbBlock \in BlockNo /\ Home \subseteq BlockNo
  /\ LogStart \notin Home
  /\ \A i \in 1..(nlog - 1) : /\ LogStart + i \in BlockNo
                              /\ LogStart + i \notin Home
                              /\ LogStart + i # LogStart
  /\ NoBlock \notin BlockNo
BY LayoutAssumption, NoBlockAssumption DEF Home, LogBlocks, SbBlock

\* A block read and released: the buffers stay as they were, or one recycled
\* buffer now caches the block with the content of the disk.
LEMMA ReadLemma ==
  ASSUME TypeOK, CacheInv, NEW b \in BlockNo, ReadBlock(b)
  PROVE  /\ bc' \in BcacheType(Content)
         /\ \/ \A u \in Bufs : bc'.buf[u] = bc.buf[u]
            \/ \E v \in Bufs :
                 /\ ~Cached(bc, b) /\ Unused(bc, v)
                 /\ bc'.buf[v] = Buffer(b, {B_VALID}, 0, disk[b])
                 /\ \A u \in Bufs : u # v => bc'.buf[u] = bc.buf[u]
<1>1. PICK v \in Bufs : Bget(bc, b, v) /\ bc' = brelse(bread(bc, b, v), v)
  BY DEF ReadBlock
<1> DEFINE c == bread(bc, b, v)
<1>2. /\ Sane(c) /\ c.buf[v].refcnt > 0
      /\ \A u \in Bufs : u # v => c.buf[u] = bc.buf[u]
      /\ \/ c.buf[v] = [bc.buf[v] EXCEPT !.refcnt = @ + 1]
         \/ /\ ~Cached(bc, b) /\ Unused(bc, v)
            /\ c.buf[v] = Buffer(b, {B_VALID}, 1, disk[b])
  <2>1. BreadOf(bc, b, v, bread(bc, b, v))
    BY <1>1, BreadLemma, SaneLemma
  <2>. QED
    BY <2>1 DEF BreadOf
<1> HIDE DEF c
<1>3. /\ bc' \in BcacheType(Content)
      /\ bc'.buf[v] = [c.buf[v] EXCEPT !.refcnt = @ - 1]
      /\ \A u \in Bufs : u # v => bc'.buf[u] = bc.buf[u]
  BY <1>1, <1>2, BrelseLemma DEF c, Sane
<1>4. CASE c.buf[v] = [bc.buf[v] EXCEPT !.refcnt = @ + 1]
  <2>1. bc'.buf[v] = bc.buf[v]
    BY <1>3, <1>4, RefcntLemma, SaneLemma, ZenonT(60)
  <2>. QED
    BY <1>3, <2>1, SMTT(60)
<1>5. CASE /\ ~Cached(bc, b) /\ Unused(bc, v)
           /\ c.buf[v] = Buffer(b, {B_VALID}, 1, disk[b])
  <2>1. bc'.buf[v] = Buffer(b, {B_VALID}, 0, disk[b])
    BY <1>3, <1>5 DEF Buffer
  <2>. QED
    BY <1>3, <1>5, <2>1
<1>. QED
  BY <1>2, <1>4, <1>5, SMTT(60)

\* A read that releases its buffer disturbs no pinned buffer.
LEMMA ReadCache ==
  ASSUME TypeOK, CacheInv, NoneHeld, NoneHeld', NEW b \in BlockNo, ReadBlock(b),
         disk' = disk
  PROVE  /\ bc' \in BcacheType(Content) /\ CacheInv'
         /\ \A v \in Bufs : /\ Dirty(bc', v) <=> Dirty(bc, v)
                            /\ Dirty(bc, v) => bc'.buf[v] = bc.buf[v]
<1>1. CASE \A u \in Bufs : bc'.buf[u] = bc.buf[u]
  BY <1>1, ReadLemma DEF CacheInv, NoneHeld, Dirty, Valid
<1>2. CASE \E v \in Bufs :
             /\ ~Cached(bc, b) /\ Unused(bc, v)
             /\ bc'.buf[v] = Buffer(b, {B_VALID}, 0, disk[b])
             /\ \A u \in Bufs : u # v => bc'.buf[u] = bc.buf[u]
  <2>1. PICK v \in Bufs :
             /\ ~Cached(bc, b) /\ Unused(bc, v)
             /\ bc'.buf[v] = Buffer(b, {B_VALID}, 0, disk[b])
             /\ \A u \in Bufs : u # v => bc'.buf[u] = bc.buf[u]
    BY <1>2
  <2>2. /\ bc'.buf[v].blockno = b /\ bc'.buf[v].refcnt = 0
        /\ bc'.buf[v].data = disk[b] /\ Valid(bc', v) /\ ~Dirty(bc', v)
    BY <2>1 DEF Buffer, Valid, Dirty, B_VALID, B_DIRTY
  <2>3. b # NoBlock
    BY NoBlockAssumption, SMTT(60)
  <2>4. CacheInv'
    BY <2>1, <2>2, <2>3 DEF CacheInv, NoneHeld, Cached, Dirty, Valid
  <2>. QED
    BY <2>1, <2>2, <2>4, ReadLemma DEF Unused, Dirty
<1>. QED
  BY <1>1, <1>2, ReadLemma, SMTT(60)

\* What modify leaves in the buffer it holds.
ModifyOf(b, x, v) ==
  /\ Sane(bc')
  /\ bc'.buf[v].blockno = b /\ bc'.buf[v].refcnt = 1 /\ bc'.buf[v].data = x
  /\ bc'.buf[v].flags = IF bc.buf[v].blockno = b THEN bc.buf[v].flags ELSE {B_VALID}
  /\ Takes(v, b)
  /\ \A u \in Bufs : u # v => bc'.buf[u] = bc.buf[u]

\* bread and a store into the data leave a held buffer with the new content.
LEMMA ModifyLemma ==
  ASSUME TypeOK, CacheInv, NoneHeld, NEW b \in Home, NEW x \in Val, NEW v \in Bufs,
         Bget(bc, b, v), bc' = SetData(bread(bc, b, v), v, x)
  PROVE  ModifyOf(b, x, v)
<1> DEFINE c == bread(bc, b, v)
           y == [c.buf[v] EXCEPT !.data = x]
<1>1. BreadOf(bc, b, v, c)
  BY BreadLemma, SaneLemma, LayoutLemma
<1>2. bc' = Put(c, v, y)
  BY DEF SetData
<1> HIDE DEF c
<1>3. c \in BcacheType(Content) /\ c.buf[v] \in BufType(Content)
  BY <1>1 DEF BreadOf, Sane, BcacheType
<1>4. /\ y \in BufType(Content)
      /\ y.blockno = c.buf[v].blockno /\ y.refcnt = c.buf[v].refcnt
      /\ y.flags = c.buf[v].flags /\ y.data = x
  BY <1>3 DEF BufType, Content
<1> HIDE DEF y
<1>5. /\ bc' \in BcacheType(Content)
      /\ bc'.buf[v] = y
      /\ \A u \in Bufs : u # v => bc'.buf[u] = c.buf[u]
  BY <1>2, <1>3, <1>4, PutLemma, SMTT(60)
<1>6. bc.buf[v] \in BufType(Content) /\ bc.buf[v].refcnt = 0
  BY SaneLemma, ZenonT(60) DEF CacheInv, NoneHeld
<1>7. /\ c.buf[v].blockno = b /\ c.buf[v].refcnt = 1 /\ Takes(v, b)
      /\ c.buf[v].flags = IF bc.buf[v].blockno = b THEN bc.buf[v].flags ELSE {B_VALID}
  <2>1. CASE bc.buf[v].blockno = b
    <3>1. c.buf[v] = [bc.buf[v] EXCEPT !.refcnt = @ + 1]
      BY <1>1, <2>1 DEF BreadOf, Cached
    <3>. QED
      BY <1>1, <1>6, <2>1, <3>1 DEF BreadOf, Takes, BufType
  <2>2. CASE bc.buf[v].blockno # b
    BY <1>1, <2>2, SMTT(60) DEF BreadOf, Takes, Buffer
  <2>. QED
    BY <2>1, <2>2
<1>8. Sane(bc')
  BY <1>1, <1>4, <1>5, SMTT(60) DEF Sane, BreadOf, Valid
<1>. QED
  BY <1>1, <1>4, <1>5, <1>7, <1>8 DEF ModifyOf, BreadOf

\* write_head writes log.lh to the header block, through the buffer of that
\* block or a recycled one.
LEMMA WriteHeadLemma ==
  ASSUME TypeOK, CacheInv, NoneHeld, HeadWritten
  PROVE  /\ bc' \in BcacheType(Content)
         /\ disk' = [disk EXCEPT ![LogStart] = lh]
         /\ \E v \in Bufs :
              /\ Takes(v, LogStart)
              /\ bc'.buf[v] = Buffer(LogStart, {B_VALID}, 0, lh)
              /\ \A u \in Bufs : u # v => /\ bc'.buf[u] = bc.buf[u]
                                         /\ bc.buf[u].blockno # LogStart
<1>1. PICK v \in Bufs :
        LET c == SetData(bread(bc, LogStart, v), v, lh)
        IN  /\ Bget(bc, LogStart, v)
            /\ disk' = Written(c, v)
            /\ bc' = brelse(bwrite(c, v), v)
  BY DEF HeadWritten
<1> DEFINE c1 == bread(bc, LogStart, v)
           c2 == SetData(c1, v, lh)
           c3 == bwrite(c2, v)
<1>2. LogStart \in BlockNo /\ lh \in Content
  BY LayoutAssumption DEF TypeOK, Content
<1>3. bc.buf[v].refcnt = 0
  BY DEF NoneHeld, CacheInv
<1>4. /\ c1 \in BcacheType(Content)
      /\ c1.buf[v].blockno = LogStart /\ c1.buf[v].refcnt = 1
      /\ Takes(v, LogStart)
      /\ \A u \in Bufs : u # v => /\ c1.buf[u] = bc.buf[u]
                                 /\ bc.buf[u].blockno # LogStart
  <2>0. BreadOf(bc, LogStart, v, bread(bc, LogStart, v))
    BY <1>1, <1>2, BreadLemma, SaneLemma
  <2>1. /\ Sane(c1) /\ c1.buf[v].blockno = LogStart
        /\ \A u \in Bufs : u # v => c1.buf[u] = bc.buf[u]
        /\ \/ /\ bc.buf[v].blockno = LogStart
              /\ c1.buf[v] = [bc.buf[v] EXCEPT !.refcnt = @ + 1]
           \/ /\ ~Cached(bc, LogStart) /\ Unused(bc, v)
              /\ c1.buf[v] = Buffer(LogStart, {B_VALID}, 1, disk[LogStart])
    BY <2>0 DEF BreadOf
  <2> HIDE DEF c1
  <2>2. c1.buf[v].refcnt = 1
    BY <1>3, <2>1, SaneLemma DEF Buffer, BufType
  <2>3. LogStart # NoBlock
    BY <1>2, NoBlockAssumption
  <2>. QED
    BY <2>1, <2>2, <2>3 DEF Sane, Takes
<1> HIDE DEF c1
<1> DEFINE x1 == [c1.buf[v] EXCEPT !.data = lh]
<1>5. /\ x1 \in BufType(Content)
      /\ x1.blockno = LogStart /\ x1.refcnt = 1 /\ x1.data = lh
  BY <1>2, <1>4 DEF BcacheType, BufType
<1>6. c2 = Put(c1, v, x1)
  BY DEF SetData
<1> HIDE DEF c2, x1
<1>7. /\ c2 \in BcacheType(Content)
      /\ c2.buf[v] = x1
      /\ \A u \in Bufs : u # v => c2.buf[u] = bc.buf[u]
  BY <1>4, <1>5, <1>6, PutLemma
<1> DEFINE x2 == [c2.buf[v] EXCEPT !.flags = {B_VALID}]
<1>8. /\ x2 \in BufType(Content)
      /\ x2 = Buffer(LogStart, {B_VALID}, 1, lh)
  BY <1>5, <1>7 DEF BufType, Buffer
<1>9. c3 = Put(c2, v, x2)
  BY DEF bwrite
<1> HIDE DEF c3, x2
<1>10. /\ c3 \in BcacheType(Content)
       /\ c3.buf[v] = Buffer(LogStart, {B_VALID}, 1, lh)
       /\ \A u \in Bufs : u # v => c3.buf[u] = bc.buf[u]
  BY <1>7, <1>8, <1>9, PutLemma, ZenonT(60)
<1>11. bc' = brelse(c3, v) /\ disk' = Written(c2, v)
  BY <1>1 DEF c3, c2, c1
<1>12. /\ bc' \in BcacheType(Content)
       /\ bc'.buf[v] = Buffer(LogStart, {B_VALID}, 0, lh)
       /\ \A u \in Bufs : u # v => bc'.buf[u] = bc.buf[u]
  <2>1. c3.buf[v].refcnt > 0
    BY <1>10 DEF Buffer
  <2>2. [c3.buf[v] EXCEPT !.refcnt = @ - 1] = Buffer(LogStart, {B_VALID}, 0, lh)
    BY <1>10 DEF Buffer
  <2>3. /\ brelse(c3, v) \in BcacheType(Content)
        /\ brelse(c3, v).buf[v] = [c3.buf[v] EXCEPT !.refcnt = @ - 1]
        /\ \A u \in Bufs : u # v => brelse(c3, v).buf[u] = c3.buf[u]
    BY <1>10, <2>1, BrelseLemma, Zenon
  <2>. QED
    BY <1>10, <1>11, <2>2, <2>3
<1>13. disk' = [disk EXCEPT ![LogStart] = lh]
  BY <1>5, <1>7, <1>11 DEF Written
<1>. QED
  BY <1>4, <1>12, <1>13

\* Writing the header block disturbs no pinned buffer and no home block.
LEMMA HeadCache ==
  ASSUME TypeOK, CacheInv, NoneHeld, NoneHeld', HeadWritten
  PROVE  /\ bc' \in BcacheType(Content) /\ CacheInv'
         /\ disk' = [disk EXCEPT ![LogStart] = lh]
         /\ \A u \in Bufs : /\ Dirty(bc', u) <=> Dirty(bc, u)
                            /\ bc'.buf[u].blockno \in Home => bc'.buf[u] = bc.buf[u]
                            /\ Dirty(bc, u) => bc'.buf[u] = bc.buf[u]
<1>1. /\ bc' \in BcacheType(Content)
      /\ disk' = [disk EXCEPT ![LogStart] = lh]
  BY WriteHeadLemma
<1>2. PICK v \in Bufs :
        /\ Takes(v, LogStart)
        /\ bc'.buf[v] = Buffer(LogStart, {B_VALID}, 0, lh)
        /\ \A u \in Bufs : u # v => /\ bc'.buf[u] = bc.buf[u]
                                   /\ bc.buf[u].blockno # LogStart
  BY WriteHeadLemma, Zenon
<1>3. /\ bc'.buf[v].blockno = LogStart /\ bc'.buf[v].refcnt = 0
      /\ bc'.buf[v].data = lh /\ Valid(bc', v) /\ ~Dirty(bc', v)
  BY <1>2 DEF Buffer, Valid, Dirty, B_VALID, B_DIRTY
<1>4. ~Dirty(bc, v)
  BY <1>2, LayoutLemma, ZenonT(60) DEF Takes, Unused, CacheInv
<1>5. /\ LogStart # NoBlock /\ LogStart \notin Home
      /\ disk'[LogStart] = lh
      /\ \A b \in BlockNo : b # LogStart => disk'[b] = disk[b]
  BY <1>1, LayoutLemma DEF TypeOK
<1>6. \A u \in Bufs : u # v => /\ bc'.buf[u] = bc.buf[u]
                               /\ Dirty(bc', u) <=> Dirty(bc, u)
                               /\ Valid(bc', u) <=> Valid(bc, u)
  BY <1>2, SMTT(60) DEF Dirty, Valid
<1>7. CacheInv'
  <2>1. \A u \in Bufs : ~Holds(u) /\ ~Holds(u)'
    BY DEF NoneHeld
  <2>2. \A u \in Bufs : bc.buf[u].blockno \in BlockNo \cup {NoBlock}
    BY SaneLemma DEF BufType
  <2>. QED
    BY <1>2, <1>3, <1>5, <1>6, <2>1, <2>2 DEF CacheInv
<1>. QED
  BY <1>1, <1>3, <1>4, <1>5, <1>6, <1>7

\* c is the cache after a bread of b1 and one of b2 returned l and d.
TwoReads(b1, l, b2, d, c) ==
  /\ Sane(c)
  /\ l # d
  /\ Takes(l, b1) /\ Takes(d, b2)
  /\ c.buf[l].blockno = b1 /\ c.buf[l].refcnt = 1
  /\ c.buf[d].blockno = b2 /\ c.buf[d].refcnt = 1
  /\ c.buf[l].flags = IF bc.buf[l].blockno = b1 THEN bc.buf[l].flags ELSE {B_VALID}
  /\ c.buf[d].flags = IF bc.buf[d].blockno = b2 THEN bc.buf[d].flags ELSE {B_VALID}
  /\ c.buf[l].data = IF bc.buf[l].blockno = b1 THEN bc.buf[l].data ELSE disk[b1]
  /\ c.buf[d].data = IF bc.buf[d].blockno = b2 THEN bc.buf[d].data ELSE disk[b2]
  /\ \A u \in Bufs : u # l /\ u # d => c.buf[u] = bc.buf[u]

\* Two breads of different blocks, as in write_log and install_trans, return
\* two different buffers, filled.
LEMMA TwoReadsLemma ==
  ASSUME TypeOK, CacheInv, NoneHeld,
         NEW b1 \in BlockNo, NEW b2 \in BlockNo, b1 # b2,
         NEW l \in Bufs, NEW d \in Bufs,
         Bget(bc, b1, l), Bget(bread(bc, b1, l), b2, d)
  PROVE  TwoReads(b1, l, b2, d, bread(bread(bc, b1, l), b2, d))
<1> DEFINE c1 == bread(bc, b1, l)
           c2 == bread(c1, b2, d)
<1>1. BreadOf(bc, b1, l, c1)
  BY BreadLemma, SaneLemma
<1>2. BreadOf(c1, b2, d, c2)
  <2>1. Sane(c1) /\ disk \in [BlockNo -> Content]
    BY <1>1, SaneLemma DEF BreadOf
  <2>2. Bget(c1, b2, d)
    BY SMTT(60)
  <2> HIDE DEF c1
  <2>. QED
    BY <2>1, <2>2, BreadLemma
<1> HIDE DEF c1, c2
<1>4. \A v \in Bufs : bc.buf[v] \in BufType(Content) /\ bc.buf[v].refcnt = 0
  BY SaneLemma, ZenonT(60) DEF CacheInv, NoneHeld
<1>5. /\ c1.buf[l].blockno = b1 /\ c1.buf[l].refcnt = 1 /\ Takes(l, b1)
      /\ c1.buf[l].flags = IF bc.buf[l].blockno = b1 THEN bc.buf[l].flags ELSE {B_VALID}
      /\ c1.buf[l].data = IF bc.buf[l].blockno = b1 THEN bc.buf[l].data ELSE disk[b1]
      /\ \A u \in Bufs : u # l => c1.buf[u] = bc.buf[u]
  <2>1. CASE bc.buf[l].blockno = b1
    <3>1. c1.buf[l] = [bc.buf[l] EXCEPT !.refcnt = @ + 1]
      BY <1>1, <2>1 DEF BreadOf, Cached
    <3>. QED
      BY <1>1, <1>4, <2>1, <3>1 DEF BreadOf, Takes, BufType
  <2>2. CASE bc.buf[l].blockno # b1
    <3>1. /\ c1.buf[l] = Buffer(b1, {B_VALID}, 1, disk[b1])
          /\ ~Cached(bc, b1) /\ Unused(bc, l)
      BY <1>1, <2>2 DEF BreadOf
    <3>. QED
      BY <1>1, <2>2, <3>1 DEF BreadOf, Takes, Buffer
  <2>. QED
    BY <2>1, <2>2, ZenonT(60)
<1>6. l # d
  BY <1>2, <1>5 DEF BreadOf, Unused
<1>7. c1.buf[d] = bc.buf[d]
  BY <1>5, <1>6, ZenonT(60)
<1>8. /\ c2.buf[d].blockno = b2 /\ c2.buf[d].refcnt = 1 /\ Takes(d, b2)
      /\ c2.buf[d].flags = IF bc.buf[d].blockno = b2 THEN bc.buf[d].flags ELSE {B_VALID}
      /\ c2.buf[d].data = IF bc.buf[d].blockno = b2 THEN bc.buf[d].data ELSE disk[b2]
  <2>1. CASE bc.buf[d].blockno = b2
    <3>1. c2.buf[d] = [bc.buf[d] EXCEPT !.refcnt = @ + 1]
      BY <1>2, <1>7, <2>1, SMTT(60) DEF BreadOf, Cached
    <3>. QED
      BY <1>2, <1>4, <2>1, <3>1 DEF BreadOf, Takes, BufType
  <2>2. CASE bc.buf[d].blockno # b2
    <3>1. /\ c2.buf[d] = Buffer(b2, {B_VALID}, 1, disk[b2])
          /\ ~Cached(c1, b2) /\ Unused(c1, d)
      BY <1>2, <1>7, <2>2, SMTT(60) DEF BreadOf
    <3>2. Unused(bc, d)
      BY <1>7, <3>1, ZenonT(60) DEF Unused, Dirty
    <3>. QED
      BY <2>2, <3>1, <3>2 DEF Takes, Buffer
  <2>. QED
    BY <2>1, <2>2, ZenonT(60)
<1>9. Sane(c2) /\ \A u \in Bufs : u # d => c2.buf[u] = c1.buf[u]
  BY <1>2, SMTT(60) DEF BreadOf
<1>10. TwoReads(b1, l, b2, d, c2)
  BY <1>5, <1>6, <1>8, <1>9, ZenonT(60) DEF TwoReads
<1>. QED
  BY <1>10 DEF c1, c2

\* r is the cache c after src was copied to dst, dst written, both released.
CopyOf(c, src, dst, r) ==
  /\ r \in BcacheType(Content)
  /\ r.buf[dst] = Buffer(c.buf[dst].blockno, {B_VALID}, 0, c.buf[src].data)
  /\ r.buf[src] = Buffer(c.buf[src].blockno, c.buf[src].flags, 0, c.buf[src].data)
  /\ \A u \in Bufs : u # src /\ u # dst => r.buf[u] = c.buf[u]

\* The memmove, bwrite and the two brelses of write_log and install_trans:
\* dst is written with the content of src, and both are released.
LEMMA CopyLemma ==
  ASSUME NEW c \in BcacheType(Content), NEW src \in Bufs, NEW dst \in Bufs,
         src # dst, c.buf[src].refcnt = 1, c.buf[dst].refcnt = 1
  PROVE  LET c3 == SetData(c, dst, c.buf[src].data)
         IN  /\ CopyOf(c, src, dst, brelse(brelse(bwrite(c3, dst), src), dst))
             /\ c3.buf[dst].blockno = c.buf[dst].blockno
             /\ c3.buf[dst].data = c.buf[src].data
<1> DEFINE s == c.buf[src]
           x3 == [c.buf[dst] EXCEPT !.data = s.data]
           c3 == SetData(c, dst, s.data)
           x4 == [c3.buf[dst] EXCEPT !.flags = {B_VALID}]
           c4 == bwrite(c3, dst)
           c5 == brelse(c4, src)
           c6 == brelse(c5, dst)
           b == c.buf[dst].blockno
<1>1. /\ s \in BufType(Content) /\ c.buf[dst] \in BufType(Content)
      /\ s = Buffer(s.blockno, s.flags, 1, s.data)
  BY DEF BcacheType, BufType, Buffer
<1>2. /\ x3 \in BufType(Content)
      /\ x3.blockno = b /\ x3.refcnt = 1 /\ x3.data = s.data
  BY <1>1 DEF BufType
<1>3. c3 = Put(c, dst, x3)
  BY DEF SetData
<1> HIDE DEF s, x3, c3, b
<1>4. /\ c3 \in BcacheType(Content)
      /\ c3.buf[dst] = x3
      /\ \A u \in Bufs : u # dst => c3.buf[u] = c.buf[u]
  BY <1>2, <1>3, PutLemma
<1>5. /\ x4 \in BufType(Content)
      /\ x4 = Buffer(b, {B_VALID}, 1, s.data)
  BY <1>2, <1>4, SMTT(60) DEF BufType, Buffer
<1>6. c4 = Put(c3, dst, x4)
  BY DEF bwrite
<1> HIDE DEF x4, c4
<1>7. /\ c4 \in BcacheType(Content)
      /\ c4.buf[dst] = Buffer(b, {B_VALID}, 1, s.data)
      /\ \A u \in Bufs : u # dst => c4.buf[u] = c.buf[u]
  <2>1. /\ c4 \in BcacheType(Content)
        /\ c4.buf[dst] = x4
        /\ \A u \in Bufs : u # dst => c4.buf[u] = c3.buf[u]
    <3>1. x4 \in BufType(Content)
      BY <1>5
    <3>. QED
      BY <1>4, <1>6, <3>1, PutLemma
  <2>. QED
    BY <1>4, <1>5, <2>1
<1>8. c4.buf[src] = Buffer(s.blockno, s.flags, 1, s.data)
  BY <1>1, <1>7 DEF s
<1>9. /\ c5 \in BcacheType(Content)
      /\ c5.buf[src] = [c4.buf[src] EXCEPT !.refcnt = @ - 1]
      /\ \A u \in Bufs : u # src => c5.buf[u] = c4.buf[u]
  <2>1. c4.buf[src].refcnt > 0
    BY <1>8 DEF Buffer
  <2>. QED
    BY <1>7, <2>1, BrelseLemma
<1>10. c5.buf[src] = Buffer(s.blockno, s.flags, 0, s.data)
  BY <1>8, <1>9 DEF Buffer
<1> HIDE DEF c5
<1>11. c5.buf[dst] = Buffer(b, {B_VALID}, 1, s.data)
  BY <1>7, <1>9
<1>12. /\ c6 \in BcacheType(Content)
       /\ c6.buf[dst] = [c5.buf[dst] EXCEPT !.refcnt = @ - 1]
       /\ \A u \in Bufs : u # dst => c6.buf[u] = c5.buf[u]
  <2>1. c5.buf[dst].refcnt > 0
    BY <1>11 DEF Buffer
  <2>. QED
    BY <1>9, <2>1, BrelseLemma
<1>13. c6.buf[dst] = Buffer(b, {B_VALID}, 0, s.data)
  BY <1>11, <1>12 DEF Buffer
<1> HIDE DEF c6
<1>14. CopyOf(c, src, dst, c6)
  BY <1>7, <1>9, <1>10, <1>12, <1>13, SMTT(60) DEF CopyOf, s, b
<1>15. c3.buf[dst].blockno = c.buf[dst].blockno /\ c3.buf[dst].data = s.data
  BY <1>2, <1>4, SMTT(60) DEF b
<1>. QED
  BY <1>14, <1>15, ZenonT(60) DEF c6, c5, c4, c3, s

\* A pass of write_log copies a pinned block to its log block and leaves the
\* pinned buffer as it is.
LogCopy(to_b, to, from_b, from) ==
  /\ bc' \in BcacheType(Content) /\ CacheInv'
  /\ bc.buf[from].blockno = from_b /\ Dirty(bc, from)
  /\ bc'.buf[from] = bc.buf[from]
  /\ disk' = [disk EXCEPT ![to_b] = bc.buf[from].data]
  /\ \A u \in Bufs : /\ Dirty(bc', u) <=> Dirty(bc, u)
                     /\ bc'.buf[u].blockno \in Home => bc'.buf[u] = bc.buf[u]
                     /\ Dirty(bc, u) => bc'.buf[u] = bc.buf[u]

\* A pass of write_log finds the block it copies pinned in the cache.
LEMMA LogCopyLemma ==
  ASSUME TypeOK, CacheInv, NoneHeld, NoneHeld',
         NEW to_b \in BlockNo \ Home, NEW from_b \in Home,
         NEW to \in Bufs, NEW from \in Bufs, NEW c,
         TwoReads(to_b, to, from_b, from, c), CopyOf(c, from, to, bc'),
         disk' = [disk EXCEPT ![to_b] = c.buf[from].data],
         \E v \in Bufs : bc.buf[v].blockno = from_b /\ Dirty(bc, v)
  PROVE  LogCopy(to_b, to, from_b, from)
<1>1. PICK w \in Bufs : bc.buf[w].blockno = from_b /\ Dirty(bc, w)
  BY SMTT(60)
<1>2. ~Dirty(bc, to)
  BY ZenonT(60) DEF TwoReads, Takes, Unused, CacheInv
<1>3. from_b # NoBlock /\ to_b # NoBlock /\ to_b # from_b
  BY LayoutLemma, ZenonT(60)
<1>4. w = from
  BY <1>1, <1>2, <1>3, SMTT(60) DEF TwoReads, Sane
<1>5. /\ bc.buf[from] \in BufType(Content) /\ bc.buf[from].refcnt = 0
      /\ c.buf[from].blockno = from_b /\ c.buf[from].flags = bc.buf[from].flags
      /\ c.buf[from].data = bc.buf[from].data
  BY <1>1, <1>4, SaneLemma, ZenonT(60) DEF TwoReads, CacheInv, NoneHeld
<1>6. bc'.buf[from] = bc.buf[from]
  <2>1. bc'.buf[from] = Buffer(from_b, bc.buf[from].flags, 0, bc.buf[from].data)
    BY <1>5, ZenonT(60) DEF CopyOf
  <2>. QED
    BY <1>1, <1>4, <1>5, <2>1, ZenonT(60) DEF Buffer, BufType
<1>7. /\ to # from
      /\ bc'.buf[to] = Buffer(to_b, {B_VALID}, 0, bc.buf[from].data)
      /\ \A u \in Bufs : u # to => bc'.buf[u] = bc.buf[u]
  <2>1. /\ to # from /\ c.buf[to].blockno = to_b
        /\ \A u \in Bufs : u # to /\ u # from => c.buf[u] = bc.buf[u]
    BY Zenon DEF TwoReads
  <2>2. /\ bc'.buf[to] = Buffer(c.buf[to].blockno, {B_VALID}, 0, c.buf[from].data)
        /\ \A u \in Bufs : u # from /\ u # to => bc'.buf[u] = c.buf[u]
    BY Zenon DEF CopyOf
  <2>. QED
    BY <1>5, <1>6, <2>1, <2>2, ZenonT(60)
<1>8. /\ bc'.buf[to].blockno = to_b /\ bc'.buf[to].refcnt = 0
      /\ bc'.buf[to].data = bc.buf[from].data
      /\ Valid(bc', to) /\ ~Dirty(bc', to)
  BY <1>7, SMTT(60) DEF Buffer, Valid, Dirty, B_VALID, B_DIRTY
<1>9. \A u \in Bufs : u # to => /\ Dirty(bc', u) <=> Dirty(bc, u)
                                /\ Valid(bc', u) <=> Valid(bc, u)
                                /\ bc.buf[u].blockno # to_b
                                /\ bc'.buf[u] = bc.buf[u]
  <2>1. \A u \in Bufs : u # to => bc.buf[u].blockno # to_b
    <3>1. /\ c.buf[to].blockno = to_b /\ Sane(c)
          /\ \A u \in Bufs : u # to /\ u # from => c.buf[u] = bc.buf[u]
      BY ZenonT(60) DEF TwoReads
    <3>. QED
      BY <1>1, <1>3, <1>4, <3>1, ZenonT(60) DEF Sane
  <2>. QED
    BY <1>7, <2>1, ZenonT(60) DEF Dirty, Valid
<1>10. /\ disk'[to_b] = bc.buf[from].data
       /\ disk' = [disk EXCEPT ![to_b] = bc.buf[from].data]
       /\ \A b \in BlockNo : b # to_b => disk'[b] = disk[b]
  BY <1>5, ZenonT(60) DEF TypeOK
<1>11. CacheInv'
  <2>1. \A u \in Bufs : ~Holds(u) /\ ~Holds(u)'
    BY ZenonT(60) DEF NoneHeld
  <2>2. \A u \in Bufs : bc.buf[u].blockno \in BlockNo \cup {NoBlock}
    BY SaneLemma, ZenonT(60) DEF BufType
  <2>3. OneCopy /\ \A u \in Bufs : CellInv(u)
    BY CellLemma, SMTT(60)
  <2>4. OneCopy'
    BY <1>8, <1>9, <2>3, SMTT(60) DEF OneCopy
  <2>5. CellInv(to)'
    BY <1>3, <1>8, <1>10, <2>1, ZenonT(60) DEF CellInv
  <2>6. \A u \in Bufs : u # to => CellInv(u)'
    <3> SUFFICES ASSUME NEW u \in Bufs, u # to PROVE CellInv(u)'
      BY ZenonT(60)
    <3>1. CellInv(u) /\ ~Holds(u) /\ ~Holds(u)'
      BY <2>1, <2>3, ZenonT(60)
    <3>2. bc.buf[u].blockno # NoBlock => disk'[bc.buf[u].blockno] = disk[bc.buf[u].blockno]
      BY <1>9, <1>10, <2>2, ZenonT(60)
    <3>. QED
      BY <1>9, <3>1, <3>2, ZenonT(60) DEF CellInv
  <2>. QED
    BY <2>4, <2>5, <2>6, CellLemmaNext, ZenonT(60)
<1>12. bc' \in BcacheType(Content)
  BY ZenonT(60) DEF CopyOf
<1>. QED
  BY <1>1, <1>2, <1>4, <1>6, <1>8, <1>9, <1>10, <1>11, <1>12, Zenon DEF LogCopy

\* A pass of install_trans leaves the log block's content at the home block, on
\* the disk and in a clean buffer, and touches no other pinned buffer.
HomeCopy(l_b, l, d_b, d) ==
  /\ bc' \in BcacheType(Content) /\ CacheInv'
  /\ disk' = [disk EXCEPT ![d_b] = disk[l_b]]
  /\ \A u \in Bufs : Dirty(bc', u) => /\ Dirty(bc, u)
                                      /\ bc'.buf[u] = bc.buf[u]
                                      /\ bc.buf[u].blockno # d_b
  /\ \A u \in Bufs : Dirty(bc, u) /\ bc.buf[u].blockno # d_b => Dirty(bc', u)

\* A pass of install_trans copies what the log block holds on the disk.
LEMMA HomeCopyLemma ==
  ASSUME TypeOK, CacheInv, NoneHeld, NoneHeld',
         NEW l_b \in BlockNo \ Home, NEW d_b \in Home,
         NEW l \in Bufs, NEW d \in Bufs, NEW c,
         TwoReads(l_b, l, d_b, d, c), CopyOf(c, l, d, bc'),
         disk' = [disk EXCEPT ![d_b] = c.buf[l].data]
  PROVE  HomeCopy(l_b, l, d_b, d)
<1>1. ~Dirty(bc, l)
  BY ZenonT(60) DEF TwoReads, Takes, Unused, CacheInv
<1>2. d_b # NoBlock /\ l_b # NoBlock /\ l_b # d_b /\ d_b \in BlockNo
  BY LayoutLemma, SMTT(60)
<1>3. c.buf[l].data = disk[l_b]
  <2>1. CellInv(l) /\ ~Holds(l)
    BY CellLemma DEF NoneHeld
  <2>2. bc.buf[l].blockno = l_b => bc.buf[l].data = disk[l_b]
    BY <1>1, <1>2, <2>1, Zenon DEF CellInv
  <2>3. c.buf[l].data = IF bc.buf[l].blockno = l_b THEN bc.buf[l].data ELSE disk[l_b]
    BY ZenonT(60) DEF TwoReads
  <2>. QED
    BY <2>2, <2>3, ZenonT(60)
<1>4. /\ c.buf[l].blockno = l_b /\ Valid(c, l) /\ ~Dirty(c, l)
      /\ c.buf[d].blockno = d_b /\ l # d
  <2>1. /\ c.buf[l].flags = IF bc.buf[l].blockno = l_b THEN bc.buf[l].flags ELSE {B_VALID}
        /\ c.buf[l].blockno = l_b /\ c.buf[d].blockno = d_b /\ l # d /\ Sane(c)
    BY Zenon DEF TwoReads
  <2>2. c.buf[l].flags = bc.buf[l].flags \/ c.buf[l].flags = {B_VALID}
    BY <2>1, ZenonT(60)
  <2>3. ~Dirty(c, l)
    BY <1>1, <2>2 DEF Dirty, B_VALID, B_DIRTY
  <2>4. Valid(c, l)
    BY <1>2, <2>1, ZenonT(60) DEF Sane
  <2>. QED
    BY <2>1, <2>3, <2>4, ZenonT(60)
<1>5. /\ bc'.buf[l].blockno = l_b /\ bc'.buf[l].refcnt = 0
      /\ bc'.buf[l].data = disk[l_b] /\ Valid(bc', l) /\ ~Dirty(bc', l)
  BY <1>3, <1>4, SMTT(60) DEF CopyOf, Buffer, Valid, Dirty
<1>6. /\ bc'.buf[d].blockno = d_b /\ bc'.buf[d].refcnt = 0
      /\ bc'.buf[d].data = disk[l_b] /\ Valid(bc', d) /\ ~Dirty(bc', d)
  BY <1>3, <1>4, SMTT(60) DEF CopyOf, Buffer, Valid, Dirty, B_VALID, B_DIRTY
<1>7. \A u \in Bufs : u # l /\ u # d =>
        /\ bc'.buf[u] = bc.buf[u]
        /\ Dirty(bc', u) <=> Dirty(bc, u)
        /\ Valid(bc', u) <=> Valid(bc, u)
        /\ bc.buf[u].blockno # d_b /\ bc.buf[u].blockno # l_b
  <2>1. \A u \in Bufs : u # l /\ u # d => bc'.buf[u] = bc.buf[u] /\ c.buf[u] = bc.buf[u]
    BY ZenonT(60) DEF TwoReads, CopyOf
  <2>2. \A u \in Bufs : u # l /\ u # d => /\ bc.buf[u].blockno # d_b
                                          /\ bc.buf[u].blockno # l_b
    BY <1>2, <1>4, <2>1 DEF TwoReads, Sane
  <2>. QED
    BY <2>1, <2>2, ZenonT(60) DEF Dirty, Valid
<1>8. /\ disk'[d_b] = disk[l_b]
      /\ disk' = [disk EXCEPT ![d_b] = disk[l_b]]
      /\ \A b \in BlockNo : b # d_b => disk'[b] = disk[b]
  BY <1>2, <1>3, SMTT(60) DEF TypeOK
<1>9. CacheInv'
  <2>1. \A u \in Bufs : ~Holds(u) /\ ~Holds(u)'
    BY SMTT(60) DEF NoneHeld
  <2>2. \A u \in Bufs : bc.buf[u].blockno \in BlockNo \cup {NoBlock}
    BY SaneLemma, ZenonT(60) DEF BufType
  <2>3. disk'[l_b] = disk[l_b]
    BY <1>2, <1>8, SMTT(60)
  <2>4. OneCopy /\ \A u \in Bufs : CellInv(u)
    BY CellLemma, SMTT(60)
  <2>5. OneCopy'
    <3>1. \A u \in Bufs : u # l /\ u # d => /\ bc'.buf[u].blockno = bc.buf[u].blockno
                                            /\ bc'.buf[u].blockno # d_b
                                            /\ bc'.buf[u].blockno # l_b
      BY <1>7, ZenonT(60)
    <3>. QED
      BY <1>2, <1>5, <1>6, <2>4, <3>1, SMTT(60) DEF OneCopy
  <2>6. CellInv(l)' /\ CellInv(d)'
    BY <1>2, <1>5, <1>6, <1>8, <2>1, <2>3, ZenonT(60) DEF CellInv
  <2>7. \A u \in Bufs : u # l /\ u # d => CellInv(u)'
    <3> SUFFICES ASSUME NEW u \in Bufs, u # l, u # d PROVE CellInv(u)'
      OBVIOUS
    <3>1. CellInv(u) /\ ~Holds(u) /\ ~Holds(u)'
      BY <2>1, <2>4, SMTT(60)
    <3>2. bc.buf[u].blockno # NoBlock => disk'[bc.buf[u].blockno] = disk[bc.buf[u].blockno]
      BY <1>7, <1>8, <2>2, ZenonT(60)
    <3>. QED
      BY <1>7, <3>1, <3>2, Zenon DEF CellInv
  <2>. QED
    BY <2>5, <2>6, <2>7, CellLemmaNext, Zenon
<1>10. bc' \in BcacheType(Content)
  BY ZenonT(60) DEF CopyOf
<1>11. Dirty(bc, d) => bc.buf[d].blockno = d_b
  BY ZenonT(60) DEF TwoReads, Takes, Unused
<1>. QED
  BY <1>1, <1>5, <1>6, <1>7, <1>8, <1>9, <1>10, <1>11, ZenonT(60) DEF HomeCopy
==============================================================================
