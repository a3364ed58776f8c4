---------------------------- MODULE LogStepProofs ----------------------------
(*****************************************************************************)
(* Boot, the operations, the steps of commit up to the installation and      *)
(* crashes preserve the invariant LogInv when at most one process is in the  *)
(* file system.                                                              *)
(*****************************************************************************)
EXTENDS LogCacheProofs

\* At most one process: main and it never run together.
SingleProc == \A p, q \in Procs : p = q

\* The inductive invariant.
IInv == TypeOK /\ LogInv

\* Main and the only process never run together.
LEMMA OneCurrent ==
  ASSUME SingleProc, NEW t \in Threads, NEW u \in Threads, Current(t), Current(u)
  PROVE  t = u
BY MainAssumption DEF SingleProc, Current, Threads

\* While the running thread is not about to log_write, no buffer is held.
LEMMA NoneHeldLemma ==
  ASSUME SingleProc, LogInv, NEW t \in Threads, Current(t), pc[t] # "log_write"
  PROVE  NoneHeld
BY OneCurrent DEF LogInv, NoneHeld, Holds

\* What LogInv says of the threads.
ThreadsInv ==
  \A t \in Threads :
    /\ ~Current(t) => pc[t] = "idle"
    /\ pc[t] = "log_write" => held[t] \in Bufs
    /\ Current(t) => PhaseInv(t)

\* A step of the current thread leaves the other threads alone.
LEMMA ThreadsLemma ==
  ASSUME SingleProc, TypeOK, LogInv, NEW t \in Threads, Current(t),
         NEW l \in Labels, pc' = [pc EXCEPT ![t] = l], started' = started,
         l = "log_write" => held'[t] \in Bufs,
         PhaseInv(t)'
  PROVE  ThreadsInv'
<1> SUFFICES ASSUME NEW u \in Threads
             PROVE  /\ ~Current(u)' => pc'[u] = "idle"
                    /\ pc'[u] = "log_write" => held'[u] \in Bufs
                    /\ Current(u)' => PhaseInv(u)'
  BY DEF ThreadsInv
<1>1. Current(u)' <=> Current(u)
  BY DEF Current
<1>2. CASE u = t
  BY <1>1, <1>2 DEF TypeOK
<1>3. CASE u # t
  <2>1. ~Current(u)
    BY <1>3, OneCurrent
  <2>2. pc'[u] = pc[u] /\ pc[u] = "idle"
    BY <1>3, <2>1 DEF TypeOK, LogInv
  <2>. QED
    BY <1>1, <2>1, <2>2
<1>. QED
  BY <1>2, <1>3

\* A step that leaves the disk, the cache, the header and the threads alone keeps
\* the invariant, whatever it does to panicked.
LEMMA UnchangedLemma ==
  ASSUME IInv, UNCHANGED <<disk, bc, lh, pc, tail, held, wrote, started>>,
         panicked' \in BOOLEAN
  PROVE  IInv'
<1>1. TypeOK'
  BY DEF IInv, TypeOK
<1>2. CacheInv' /\ DiskInv' /\ LhInv'
  BY ZenonT(60) DEF IInv, LogInv, CacheInv, Holds, DiskInv, LhInv
<1>3. PinnedInv' = PinnedInv /\ NothingPinned' = NothingPinned
  BY DEF PinnedInv, NothingPinned
<1>4. ASSUME NEW t \in Threads, PhaseInv(t) PROVE PhaseInv(t)'
  <2>1. /\ LoggedInv(tail[t])' = LoggedInv(tail[t])
        /\ LoggedInv(Len(lh))' = LoggedInv(Len(lh))
    BY DEF LoggedInv
  <2>2. /\ InstalledInv(tail[t])' = InstalledInv(tail[t])
        /\ InstalledInv(Len(lh))' = InstalledInv(Len(lh))
        /\ InstalledInv(Len(disk[LogStart]))' = InstalledInv(Len(disk[LogStart]))
    BY DEF InstalledInv
  <2>. QED
    BY <1>3, <1>4, <2>1, <2>2, ZenonT(60) DEF PhaseInv
<1>5. ThreadsInv'
  BY <1>4 DEF IInv, LogInv, ThreadsInv, Current
<1>. QED
  BY <1>1, <1>2, <1>5 DEF IInv, LogInv, ThreadsInv

\* A panic preserves the invariant: the machine only stops.
LEMMA PanicStep ==
  ASSUME IInv, panic
  PROVE  IInv'
BY UnchangedLemma DEF panic

\* The disk mkfs made, with empty memory, satisfies the invariant.
LEMMA InitIInv ==
  Init => IInv
<1> SUFFICES ASSUME Init PROVE IInv
  OBVIOUS
<1>0. PICK fs \in [Home -> Val] :
        disk = [b \in BlockNo |-> CASE b \in Home -> fs[b]
                                    [] b = LogStart -> <<>>
                                    [] OTHER -> Zero]
  BY DEF Init
<1>1. /\ disk[LogStart] = <<>>
      /\ \A b \in BlockNo \ {LogStart} : disk[b] \in Val
  BY <1>0, LayoutLemma, ZeroAssumption
<1>2. <<>> \in Seq(Home)
  OBVIOUS
<1>3. disk \in [BlockNo -> Content]
  BY <1>0, <1>1, <1>2 DEF Content
<1>4. /\ bc.buf = [v \in Bufs |-> EmptyBuf]
      /\ bc.mru \in [Bufs -> Bufs]
      /\ bc \in BcacheType(Content)
  <2>1. bc = binit
    BY DEF Init
  <2>2. EmptyBuf \in BufType(Content)
    BY DEF EmptyBuf, Buffer, BufType
  <2>3. \A k \in Bufs : NBUF + 1 - k \in Bufs
    BY NBUFAssumption DEF Bufs
  <2>. QED
    BY <2>1, <2>2, <2>3 DEF binit, BcacheType
<1>5. TypeOK
  BY <1>2, <1>3, <1>4, Zenon DEF Init, TypeOK, Labels
<1>6. \A v \in Bufs : bc.buf[v].blockno = NoBlock /\ bc.buf[v].refcnt = 0
                      /\ bc.buf[v] = EmptyBuf /\ ~Dirty(bc, v) /\ ~Holds(v)
  BY <1>4 DEF Init, EmptyBuf, Buffer, Dirty, Holds
<1>7. CacheInv
  BY <1>6, ZenonT(60) DEF CacheInv
<1>8. DiskInv /\ LhInv
  BY <1>1, <1>2, LayoutAssumption DEF DiskInv, LhInv, NoRepeat, Init
<1>9. \A t \in Threads : /\ ~Current(t) => pc[t] = "idle"
                         /\ pc[t] # "log_write"
                         /\ Current(t) => PhaseInv(t)
  <2>1. \A t \in Threads : Current(t) <=> t = Main
    BY DEF Current, Init
  <2>2. PhaseInv(Main)
    BY <1>6 DEF Init, PhaseInv, NothingPinned, Threads
  <2>. QED
    BY <2>1, <2>2 DEF Init
<1>. QED
  BY <1>5, <1>7, <1>8, <1>9 DEF IInv, LogInv

\* A crash at any point leaves a disk from which boot starts in the invariant.
LEMMA CrashStep ==
  ASSUME IInv, Crash
  PROVE  IInv'
<1>1. disk' = disk /\ bc' = binit
  BY DEF Crash
<1>2. <<>> \in Seq(Home)
  OBVIOUS
<1>3. /\ bc'.buf = [v \in Bufs |-> EmptyBuf]
      /\ bc' \in BcacheType(Content)
  <2>1. EmptyBuf \in BufType(Content)
    BY ZenonT(60) DEF EmptyBuf, Buffer, BufType
  <2>2. \A k \in Bufs : NBUF + 1 - k \in Bufs
    BY NBUFAssumption DEF Bufs
  <2>. QED
    BY <1>1, <2>1, <2>2, ZenonT(60) DEF binit, BcacheType
<1>4. TypeOK'
  BY <1>1, <1>2, <1>3, Zenon DEF IInv, TypeOK, Crash, Labels
<1>5. \A v \in Bufs : bc'.buf[v].blockno = NoBlock /\ bc'.buf[v].refcnt = 0
                      /\ bc'.buf[v] = EmptyBuf /\ ~Dirty(bc', v) /\ ~Holds(v)'
  BY <1>3 DEF Crash, EmptyBuf, Buffer, Dirty, Holds
<1>6. CacheInv'
  BY <1>5, ZenonT(60) DEF CacheInv
<1>7. DiskInv' /\ LhInv'
  BY <1>1, LayoutAssumption DEF IInv, LogInv, DiskInv, LhInv, NoRepeat, Crash
<1>8. \A t \in Threads : /\ ~Current(t)' => pc'[t] = "idle"
                         /\ pc'[t] # "log_write"
                         /\ Current(t)' => PhaseInv(t)'
  <2>1. \A t \in Threads : Current(t)' <=> t = Main
    BY DEF Current, Crash
  <2>2. PhaseInv(Main)'
    BY <1>5, ZenonT(60) DEF Crash, PhaseInv, NothingPinned, Threads
  <2>. QED
    BY <2>1, <2>2 DEF Crash
<1>. QED
  BY <1>4, <1>6, <1>7, <1>8 DEF IInv, LogInv

\* initlog, which reads the superblock, preserves the invariant.
LEMMA InitlogStep ==
  ASSUME SingleProc, IInv, NEW t \in Threads, initlog(t)
  PROVE  IInv'
<1>1. CASE panic
  BY <1>1, PanicStep, SMTT(60)
<1>2. CASE /\ ReadBlock(SbBlock)
           /\ Goto(t, "read_head")
           /\ UNCHANGED <<disk, lh, tail, held, wrote, started, panicked>>
  <2>1. Current(t) /\ pc[t] = "initlog" /\ TypeOK /\ LogInv
    BY DEF initlog, Running, Current, IInv
  <2>2. pc' = [pc EXCEPT ![t] = "read_head"]
    BY <1>2 DEF Goto
  <2>3. NoneHeld /\ NoneHeld'
    <3>1. NoneHeld
      BY <2>1, NoneHeldLemma
    <3>. QED
      BY <1>2, <2>1, <2>2, <3>1, ZenonT(60) DEF NoneHeld, Holds, TypeOK
  <2>4. /\ bc' \in BcacheType(Content) /\ CacheInv'
        /\ \A v \in Bufs : Dirty(bc', v) <=> Dirty(bc, v)
    BY <1>2, <2>1, <2>3, ReadCache, LayoutLemma, ZenonT(60) DEF LogInv
  <2>5. TypeOK'
    BY <1>2, <2>1, <2>2, <2>4, SMTT(60) DEF TypeOK, Labels
  <2>6. DiskInv' /\ LhInv'
    BY <1>2, <2>1, ZenonT(60) DEF LogInv, DiskInv, LhInv
  <2>7. PhaseInv(t)'
    BY <1>2, <2>1, <2>2, <2>4, ZenonT(60) DEF LogInv, PhaseInv, NothingPinned, TypeOK
  <2>8. ThreadsInv'
    BY <1>2, <2>1, <2>2, <2>7, ThreadsLemma, Zenon DEF Labels
  <2>. QED
    BY <2>4, <2>5, <2>6, <2>8, ZenonT(60) DEF IInv, LogInv, ThreadsInv
<1>. QED
  BY <1>1, <1>2 DEF initlog

\* read_head preserves the invariant: the header in memory is the one on disk.
LEMMA ReadHeadStep ==
  ASSUME SingleProc, IInv, NEW t \in Threads, read_head(t)
  PROVE  IInv'
<1>1. CASE panic
  BY <1>1, PanicStep, SMTT(60)
<1>2. CASE \E v \in Bufs :
             /\ Bget(bc, LogStart, v)
             /\ LET c == bread(bc, LogStart, v)
                IN  lh' = c.buf[v].data /\ bc' = brelse(c, v)
             /\ Goto(t, "install_trans")
             /\ tail' = [tail EXCEPT ![t] = 0]
             /\ UNCHANGED <<disk, held, wrote, started, panicked>>
  <2>0. PICK v \in Bufs :
             /\ Bget(bc, LogStart, v)
             /\ lh' = bread(bc, LogStart, v).buf[v].data
             /\ bc' = brelse(bread(bc, LogStart, v), v)
             /\ Goto(t, "install_trans")
             /\ tail' = [tail EXCEPT ![t] = 0]
             /\ UNCHANGED <<disk, held, wrote, started, panicked>>
    BY <1>2, ZenonT(60)
  <2>1. Current(t) /\ pc[t] = "read_head" /\ TypeOK /\ LogInv
    BY DEF read_head, Running, Current, IInv
  <2>2. pc' = [pc EXCEPT ![t] = "install_trans"]
    BY <2>0, ZenonT(60) DEF Goto
  <2>3. NoneHeld /\ NoneHeld'
    <3>1. NoneHeld
      BY <2>1, NoneHeldLemma, SMTT(60)
    <3>. QED
      BY <2>0, <2>1, <2>2, <3>1, ZenonT(60) DEF NoneHeld, Holds, TypeOK
  <2>4. /\ bc' \in BcacheType(Content) /\ CacheInv'
        /\ \A u \in Bufs : Dirty(bc', u) <=> Dirty(bc, u)
    <3>1. ReadBlock(LogStart)
      BY <2>0 DEF ReadBlock
    <3>. QED
      BY <2>0, <2>1, <2>3, <3>1, ReadCache, LayoutLemma, ZenonT(60) DEF LogInv
  <2>5. lh' = disk[LogStart]
    <3>1. BreadOf(bc, LogStart, v, bread(bc, LogStart, v))
      BY <2>0, <2>1, BreadLemma, SaneLemma, LayoutLemma, ZenonT(60) DEF LogInv
    <3>2. CASE bc.buf[v].blockno = LogStart
      <4>1. bread(bc, LogStart, v).buf[v].data = bc.buf[v].data
        <5>1. bc.buf[v] \in BufType(Content)
          BY <2>1, SaneLemma, ZenonT(60) DEF LogInv
        <5>2. bread(bc, LogStart, v).buf[v] = [bc.buf[v] EXCEPT !.refcnt = @ + 1]
          BY <3>1, <3>2, SMTT(60) DEF BreadOf, Cached
        <5>. QED
          BY <5>1, <5>2 DEF BufType
      <4>2. bc.buf[v].data = disk[LogStart]
        BY <2>1, <2>3, <3>2, LayoutLemma, ZenonT(60) DEF LogInv, CacheInv, NoneHeld
      <4>. QED
        BY <2>0, <4>1, <4>2, ZenonT(60)
    <3>3. CASE bc.buf[v].blockno # LogStart
      BY <2>0, <3>1, <3>3, SMTT(60) DEF BreadOf, Buffer
    <3>. QED
      BY <3>2, <3>3, ZenonT(60)
  <2>6. DiskInv' /\ LhInv' /\ lh' \in Seq(Home)
    BY <2>0, <2>1, <2>5, ZenonT(60) DEF LogInv, DiskInv, LhInv
  <2>7. TypeOK'
    BY <2>0, <2>1, <2>2, <2>4, <2>6, ZenonT(60) DEF TypeOK, Labels
  <2>8. PhaseInv(t)'
    <3>1. NothingPinned
      BY <2>1, ZenonT(60) DEF LogInv, PhaseInv
    <3>2. /\ disk'[LogStart] = lh' /\ tail'[t] = 0 /\ Len(lh') >= 0
          /\ pc'[t] = "install_trans"
          /\ \A u \in Bufs : ~Dirty(bc', u)
      BY <2>0, <2>1, <2>2, <2>4, <2>5, <2>6, <3>1, SMTT(60) DEF TypeOK, NothingPinned
    <3>. QED
      BY <3>2, SMTT(60) DEF PhaseInv, InstalledInv
  <2>9. ThreadsInv'
    BY <2>0, <2>1, <2>2, <2>8, ThreadsLemma, ZenonT(60) DEF Labels
  <2>. QED
    BY <2>4, <2>6, <2>7, <2>9, ZenonT(60) DEF IInv, LogInv, ThreadsInv
<1>. QED
  BY <1>1, <1>2, SMTT(60) DEF read_head

\* begin_op preserves the invariant.
LEMMA BeginOpStep ==
  ASSUME SingleProc, IInv, NEW t \in Threads, begin_op(t)
  PROVE  IInv'
<1>1. Current(t) /\ pc[t] = "idle" /\ TypeOK /\ LogInv
  BY DEF begin_op, Running, Current, IInv
<1>2. /\ pc' = [pc EXCEPT ![t] = "op"]
      /\ UNCHANGED <<disk, bc, lh, tail, held, wrote, started, panicked>>
  BY DEF begin_op, Goto
<1>3. TypeOK'
  BY <1>1, <1>2 DEF TypeOK, Labels
<1>4. NoneHeld /\ NoneHeld'
  <2>1. NoneHeld
    BY <1>1, NoneHeldLemma, SMTT(60)
  <2>. QED
    BY <1>1, <1>2, <2>1 DEF NoneHeld, Holds, TypeOK
<1>5. CacheInv' /\ DiskInv' /\ LhInv'
  BY <1>1, <1>2, <1>4, ZenonT(60) DEF LogInv, CacheInv, DiskInv, LhInv, NoneHeld
<1>6. PhaseInv(t)'
  BY <1>1, <1>2, ZenonT(60) DEF LogInv, PhaseInv, PinnedInv, TypeOK
<1>7. ThreadsInv'
  BY <1>1, <1>2, <1>6, ThreadsLemma, Zenon DEF Labels
<1>. QED
  BY <1>3, <1>5, <1>7, ZenonT(60) DEF IInv, LogInv, ThreadsInv

\* A read of a home block preserves the invariant.
LEMMA ReadiStep ==
  ASSUME SingleProc, IInv, NEW t \in Threads, NEW b \in Home, readi(t, b)
  PROVE  IInv'
<1>1. CASE panic
  BY <1>1, PanicStep, SMTT(60)
<1>2. CASE /\ ReadBlock(b)
           /\ UNCHANGED <<disk, lh, pc, tail, held, wrote, started, panicked>>
  <2>1. Current(t) /\ pc[t] = "op" /\ TypeOK /\ LogInv
    BY DEF readi, Running, Current, IInv
  <2>2. NoneHeld /\ NoneHeld'
    <3>1. NoneHeld
      BY <2>1, NoneHeldLemma, SMTT(60)
    <3>. QED
      BY <1>2, <3>1 DEF NoneHeld, Holds
  <2>3. /\ bc' \in BcacheType(Content) /\ CacheInv'
        /\ \A v \in Bufs : /\ Dirty(bc', v) <=> Dirty(bc, v)
                           /\ Dirty(bc, v) => bc'.buf[v] = bc.buf[v]
    BY <1>2, <2>1, <2>2, ReadCache, LayoutLemma, ZenonT(60) DEF LogInv
  <2>4. TypeOK'
    BY <1>2, <2>1, <2>3, ZenonT(60) DEF TypeOK
  <2>5. DiskInv' /\ LhInv'
    BY <1>2, <2>1, ZenonT(60) DEF LogInv, DiskInv, LhInv
  <2>6. PinnedInv'
    <3>1. PinnedInv
      BY <2>1, ZenonT(60) DEF LogInv, PhaseInv
    <3>. QED
      BY <1>2, <2>3, <3>1, ZenonT(60) DEF PinnedInv
  <2>7. PhaseInv(t)'
    BY <1>2, <2>1, <2>6, ZenonT(60) DEF PhaseInv
  <2>8. pc' = [pc EXCEPT ![t] = "op"]
    BY <1>2, <2>1, SMTT(60) DEF TypeOK
  <2>9. ThreadsInv'
    BY <1>2, <2>1, <2>7, <2>8, ThreadsLemma, Zenon DEF Labels
  <2>. QED
    BY <2>3, <2>4, <2>5, <2>9, ZenonT(60) DEF IInv, LogInv, ThreadsInv
<1>. QED
  BY <1>1, <1>2 DEF readi

\* bread and a store into the data preserve the invariant: the buffer is held,
\* so nothing can recycle it before log_write pins it.
LEMMA ModifyStep ==
  ASSUME SingleProc, IInv, NEW t \in Threads, NEW b \in Home, NEW x \in Val,
         modify(t, b, x)
  PROVE  IInv'
<1>1. CASE panic
  BY <1>1, PanicStep, SMTT(60)
<1>2. CASE \E v \in Bufs :
             /\ Bget(bc, b, v)
             /\ bc' = SetData(bread(bc, b, v), v, x)
             /\ held' = [held EXCEPT ![t] = v]
             /\ wrote' = [wrote EXCEPT ![t] = @ \cup {b}]
             /\ Goto(t, "log_write")
             /\ UNCHANGED <<disk, lh, tail, started, panicked>>
  <2>0. PICK v \in Bufs :
             /\ Bget(bc, b, v)
             /\ bc' = SetData(bread(bc, b, v), v, x)
             /\ held' = [held EXCEPT ![t] = v]
             /\ wrote' = [wrote EXCEPT ![t] = @ \cup {b}]
             /\ Goto(t, "log_write")
             /\ UNCHANGED <<disk, lh, tail, started, panicked>>
    BY <1>2, Zenon
  <2>1. Current(t) /\ pc[t] = "op" /\ TypeOK /\ LogInv
    BY Zenon DEF modify, Running, Current, IInv
  <2>2. pc' = [pc EXCEPT ![t] = "log_write"]
    BY <2>0 DEF Goto
  <2>3. NoneHeld /\ \A u \in Bufs : Holds(u)' <=> u = v
    <3>1. NoneHeld
      BY <2>1, NoneHeldLemma
    <3>. QED
      BY <2>0, <2>1, <2>2, <3>1, ZenonT(60) DEF NoneHeld, Holds, TypeOK
  <2>4. ModifyOf(b, x, v)
    BY <2>0, <2>1, <2>3, ModifyLemma, ZenonT(60) DEF LogInv
  <2>5. bc' \in BcacheType(Content)
    BY <2>4, ZenonT(60) DEF ModifyOf, Sane
  <2>6. TypeOK'
    BY <2>0, <2>1, <2>2, <2>5, ZenonT(60) DEF TypeOK, Labels
  <2>7. DiskInv' /\ LhInv'
    BY <2>0, <2>1, ZenonT(60) DEF LogInv, DiskInv, LhInv
  <2>8. CacheInv'
    <3>1. CacheInv /\ b # NoBlock /\ disk' = disk
      BY <2>0, <2>1, LayoutLemma, ZenonT(60) DEF LogInv
    <3>2. \A u \in Bufs : u # v => /\ bc'.buf[u] = bc.buf[u]
                                   /\ Valid(bc', u) <=> Valid(bc, u)
                                   /\ Dirty(bc', u) <=> Dirty(bc, u)
                                   /\ ~Holds(u) /\ ~Holds(u)'
      BY <2>3, <2>4, ZenonT(60) DEF ModifyOf, Valid, Dirty, NoneHeld
    <3>3. /\ bc'.buf[v].blockno = b /\ bc'.buf[v].refcnt = 1 /\ bc'.buf[v].data = x
          /\ Holds(v)'
      BY <2>3, <2>4, ZenonT(60) DEF ModifyOf
    <3>4. Sane(bc')
      BY <2>4, ZenonT(60) DEF ModifyOf
    <3>5. OneCopy' /\ Valid(bc', v)
      BY <3>1, <3>3, <3>4, ZenonT(60) DEF Sane, OneCopy
    <3>6. CellInv(v)'
      BY <3>1, <3>3, <3>5, ZenonT(60) DEF CellInv
    <3>7. \A u \in Bufs : u # v => CellInv(u)'
      BY <3>1, <3>2, CellLemma, Zenon DEF CellInv
    <3>. QED
      BY <3>5, <3>6, <3>7, CellLemmaNext, ZenonT(60)
  <2>9. PinnedInv'
    <3>1. PinnedInv
      BY <2>1, ZenonT(60) DEF LogInv, PhaseInv
    <3>2. \A u \in Bufs : u # v => /\ bc'.buf[u] = bc.buf[u]
                                   /\ Dirty(bc', u) <=> Dirty(bc, u)
      BY <2>4, ZenonT(60) DEF ModifyOf, Dirty
    <3>3. Dirty(bc', v) => Dirty(bc, v) /\ bc.buf[v].blockno = b
      BY <2>4, SMTT(60) DEF ModifyOf, Dirty, B_VALID, B_DIRTY
    <3>4. Dirty(bc, v) => Dirty(bc', v) /\ bc.buf[v].blockno = b
      BY <2>4, ZenonT(60) DEF ModifyOf, Takes, Unused, Dirty
    <3>5. bc'.buf[v].blockno = b
      BY <2>4, ZenonT(60) DEF ModifyOf
    <3>. QED
      BY <2>0, <3>1, <3>2, <3>3, <3>4, <3>5, ZenonT(60) DEF PinnedInv
  <2>10. PhaseInv(t)'
    BY <2>1, <2>2, <2>9, Zenon DEF PhaseInv, TypeOK
  <2>11. held'[t] \in Bufs
    BY <2>0, <2>1, ZenonT(60) DEF TypeOK
  <2>12. ThreadsInv'
    BY <2>0, <2>1, <2>2, <2>10, <2>11, ThreadsLemma, ZenonT(60) DEF Labels
  <2>. QED
    BY <2>6, <2>7, <2>8, <2>12, ZenonT(60) DEF IInv, LogInv, ThreadsInv
<1>. QED
  BY <1>1, <1>2, ZenonT(60) DEF modify

\* log_write preserves the invariant: the block is pinned and logged, once.
LEMMA LogWriteStep ==
  ASSUME SingleProc, IInv, NEW t \in Threads, log_write(t)
  PROVE  IInv'
<1>1. CASE panic
  BY <1>1, PanicStep, SMTT(60)
<1> DEFINE v == held[t]
           b == bc.buf[v].blockno
<1>2. CASE /\ ~(Len(lh) >= LOGSIZE \/ Len(lh) >= nlog - 1)
           /\ lh' = IF b \in Elems(lh) THEN lh ELSE Append(lh, b)
           /\ bc' = brelse(SetDirty(bc, v), v)
           /\ held' = [held EXCEPT ![t] = NoBuf]
           /\ Goto(t, "op")
           /\ UNCHANGED <<disk, tail, wrote, started, panicked>>
  <2>1. Current(t) /\ pc[t] = "log_write" /\ TypeOK /\ LogInv
    BY ZenonT(60) DEF log_write, Running, Current, IInv
  <2>2. pc' = [pc EXCEPT ![t] = "op"]
    BY <1>2, SMTT(60) DEF Goto
  <2>3. v \in Bufs /\ NoneHeld' /\ \A u \in Bufs : Holds(u) <=> u = v
    <3>1. v \in Bufs
      BY <2>1, ZenonT(60) DEF LogInv
    <3>2. \A u \in Threads : pc[u] = "log_write" => u = t
      BY <2>1, OneCurrent, ZenonT(60) DEF LogInv
    <3>. QED
      BY <2>1, <2>2, <3>1, <3>2, SMTT(60) DEF NoneHeld, Holds, TypeOK
  <2>4. /\ bc.buf[v] \in BufType(Content) /\ bc.buf[v].refcnt = 1
        /\ b \in Home /\ bc.buf[v].data \in Val /\ Valid(bc, v)
    BY <2>1, <2>3, SaneLemma, LayoutLemma, ZenonT(60) DEF LogInv, CacheInv
  <2> DEFINE y == [bc.buf[v] EXCEPT !.flags = @ \cup {B_DIRTY}]
             c == SetDirty(bc, v)
  <2>5. /\ y \in BufType(Content)
        /\ y.blockno = b /\ y.refcnt = 1 /\ y.data = bc.buf[v].data
        /\ y.flags = bc.buf[v].flags \cup {B_DIRTY}
    BY <2>4, ZenonT(60) DEF BufType
  <2>6. c = Put(bc, v, y)
    BY SMTT(60) DEF SetDirty
  <2> HIDE DEF y, c, v, b
  <2>7. /\ c \in BcacheType(Content)
        /\ c.buf[v] = y
        /\ \A u \in Bufs : u # v => c.buf[u] = bc.buf[u]
    BY <2>1, <2>3, <2>5, <2>6, PutLemma DEF TypeOK
  <2>8. /\ bc' \in BcacheType(Content)
        /\ bc'.buf[v] = [y EXCEPT !.refcnt = @ - 1]
        /\ \A u \in Bufs : u # v => bc'.buf[u] = bc.buf[u]
    <3>1. c.buf[v].refcnt > 0
      BY <2>5, <2>7, SMTT(60)
    <3>2. bc' = brelse(c, v)
      BY <1>2, Zenon DEF c, v
    <3>. QED
      BY <2>3, <2>7, <3>1, <3>2, BrelseLemma, SMTT(60)
  <2>9. /\ bc'.buf[v].blockno = b /\ bc'.buf[v].refcnt = 0
        /\ bc'.buf[v].data \in Val /\ Dirty(bc', v) /\ Valid(bc', v)
        /\ \A u \in Bufs : u # v => /\ Dirty(bc', u) <=> Dirty(bc, u)
                                    /\ Valid(bc', u) <=> Valid(bc, u)
    BY <2>4, <2>5, <2>8 DEF BufType, Dirty, Valid, v
  <2>10. /\ lh' \in Seq(Home) /\ NoRepeat(lh') /\ Len(lh') <= nlog - 1
         /\ Elems(lh') = Elems(lh) \cup {b}
    <3>1. lh \in Seq(Home) /\ NoRepeat(lh) /\ Len(lh) <= nlog - 1
      BY <2>1, SMTT(60) DEF LogInv, LhInv, TypeOK
    <3>2. CASE b \in Elems(lh)
      BY <1>2, <3>1, <3>2, ZenonT(60) DEF b, v
    <3>3. CASE b \notin Elems(lh)
      <4>1. lh' = Append(lh, b) /\ ~(Len(lh) >= nlog - 1)
        BY <1>2, <3>3, ZenonT(60) DEF b, v
      <4>2. b \in Home
        BY <2>4, ZenonT(60) DEF b, v
      <4>3. /\ lh' \in Seq(Home) /\ Len(lh') = Len(lh) + 1 /\ DOMAIN lh = 1..Len(lh)
            /\ DOMAIN lh' = 1..(Len(lh) + 1) /\ Len(lh) \in Nat
            /\ \A i \in 1..Len(lh) : lh'[i] = lh[i]
            /\ lh'[Len(lh) + 1] = b
        BY <3>1, <4>1, <4>2, SMTT(60)
      <4>4. NoRepeat(lh')
        BY <3>1, <3>3, <4>3, SMTT(60) DEF NoRepeat, Elems
      <4>5. Elems(lh') = Elems(lh) \cup {b}
        BY <4>3 DEF Elems
      <4>6. Len(lh') <= nlog - 1
        BY <4>1, <4>3, LayoutAssumption
      <4>. QED
        BY <4>3, <4>4, <4>5, <4>6, ZenonT(60)
    <3>. QED
      BY <3>2, <3>3, ZenonT(60)
  <2>11. TypeOK'
    BY <1>2, <2>1, <2>2, <2>8, <2>10, SMTT(60) DEF TypeOK, Labels
  <2>12. DiskInv' /\ LhInv'
    BY <1>2, <2>1, <2>10, ZenonT(60) DEF LogInv, DiskInv, LhInv
  <2>13. b \in Home /\ b # NoBlock
    BY <2>4, LayoutLemma, ZenonT(60) DEF b, v
  <2>14. CacheInv'
    <3>1. CacheInv /\ bc.buf[v].blockno = b
      BY <2>1, ZenonT(60) DEF LogInv, b
    <3>2. \A u \in Bufs : ~Holds(u)'
      BY <2>3 DEF NoneHeld
    <3>3. disk' = disk /\ \A u \in Bufs : bc'.buf[u].blockno = bc.buf[u].blockno
      BY <1>2, <2>8, <2>9, <3>1, Zenon
    <3>4. \A u \in Bufs : u # v => ~Holds(u) /\ bc'.buf[u] = bc.buf[u]
      BY <2>3, <2>8
    <3>5. OneCopy /\ \A u \in Bufs : CellInv(u)
      BY <3>1, CellLemma
    <3>6. OneCopy'
      BY <3>3, <3>5, Zenon DEF OneCopy
    <3>7. \A u \in Bufs : u = v => CellInv(u)'
      <4> SUFFICES ASSUME NEW u \in Bufs, u = v PROVE CellInv(u)'
        OBVIOUS
      <4>1. /\ bc'.buf[u].blockno = b /\ bc'.buf[u].refcnt = 0 /\ bc'.buf[u].data \in Val
            /\ Dirty(bc', u) /\ Valid(bc', u) /\ b \in Home /\ b # NoBlock /\ ~Holds(u)'
        BY <2>9, <2>13, <3>2, ZenonT(60)
      <4>. QED
        BY <4>1, Zenon DEF CellInv
    <3>8. \A u \in Bufs : u # v => CellInv(u)'
      <4> SUFFICES ASSUME NEW u \in Bufs, u # v PROVE CellInv(u)'
        OBVIOUS
      <4>1. CellInv(u) /\ ~Holds(u) /\ ~Holds(u)' /\ bc'.buf[u] = bc.buf[u] /\ disk' = disk
        BY <3>2, <3>3, <3>4, <3>5, ZenonT(60)
      <4>. QED
        BY <4>1, Zenon DEF CellInv, Valid, Dirty
    <3>. QED
      BY <3>6, <3>7, <3>8, CellLemmaNext, Zenon
  <2>15. PinnedInv'
    <3>1. PinnedInv /\ bc.buf[v].blockno = b
      BY <2>1, ZenonT(60) DEF LogInv, PhaseInv, b
    <3>. QED
      BY <1>2, <2>3, <2>8, <2>9, <2>10, <3>1, ZenonT(60) DEF PinnedInv
  <2>16. PhaseInv(t)'
    BY <2>1, <2>2, <2>15, ZenonT(60) DEF PhaseInv, TypeOK
  <2>17. ThreadsInv'
    BY <1>2, <2>1, <2>2, <2>16, ThreadsLemma, Zenon DEF Labels
  <2>. QED
    BY <2>11, <2>12, <2>14, <2>17, ZenonT(60) DEF IInv, LogInv, ThreadsInv
<1>. QED
  BY <1>1, <1>2, ZenonT(60) DEF log_write

\* log.lh.n = 0 preserves the invariant: by then everything is installed.
LEMMA ClearStep ==
  ASSUME SingleProc, IInv, NEW t \in Threads, clear(t)
  PROVE  IInv'
<1>1. Current(t) /\ pc[t] = "clear" /\ TypeOK /\ LogInv
  BY ZenonT(60) DEF clear, Running, Current, IInv
<1>2. /\ pc' = [pc EXCEPT ![t] = "erase"]
      /\ lh' = <<>>
      /\ UNCHANGED <<disk, bc, tail, held, wrote, started, panicked>>
  BY DEF clear, Goto
<1>3. TypeOK'
  BY <1>1, <1>2 DEF TypeOK, Labels
<1>4. NoneHeld /\ NoneHeld'
  <2>1. NoneHeld
    BY <1>1, NoneHeldLemma, SMTT(60)
  <2>. QED
    BY <1>1, <1>2, <2>1, ZenonT(60) DEF NoneHeld, Holds, TypeOK
<1>5. CacheInv' /\ DiskInv' /\ LhInv'
  BY <1>1, <1>2, <1>4, LayoutAssumption, SMTT(60)
  DEF LogInv, CacheInv, DiskInv, LhInv, NoRepeat, NoneHeld
<1>6. PhaseInv(t)'
  BY <1>1, <1>2, ZenonT(60) DEF LogInv, PhaseInv, InstalledInv, NothingPinned, TypeOK
<1>7. ThreadsInv'
  BY <1>1, <1>2, <1>6, ThreadsLemma, Zenon DEF Labels
<1>. QED
  BY <1>3, <1>5, <1>7 DEF IInv, LogInv, ThreadsInv

\* The write_head that commits preserves the invariant: every logged block is
\* already in its log block.
LEMMA WriteHeadStep ==
  ASSUME SingleProc, IInv, NEW t \in Threads, write_head(t)
  PROVE  IInv'
<1>1. CASE panic
  BY <1>1, PanicStep
<1>2. CASE /\ HeadWritten
           /\ Goto(t, "install_trans")
           /\ tail' = [tail EXCEPT ![t] = 0]
           /\ UNCHANGED <<lh, held, wrote, started, panicked>>
  <2>1. Current(t) /\ pc[t] = "write_head" /\ TypeOK /\ LogInv
    BY ZenonT(60) DEF write_head, Running, Current, IInv
  <2>2. pc' = [pc EXCEPT ![t] = "install_trans"]
    BY <1>2, ZenonT(60) DEF Goto
  <2>3. NoneHeld /\ NoneHeld'
    <3>1. NoneHeld
      BY <2>1, NoneHeldLemma
    <3>. QED
      BY <1>2, <2>1, <2>2, <3>1, ZenonT(60) DEF NoneHeld, Holds, TypeOK
  <2>4. /\ bc' \in BcacheType(Content) /\ CacheInv'
        /\ disk' = [disk EXCEPT ![LogStart] = lh]
        /\ \A u \in Bufs : /\ Dirty(bc', u) <=> Dirty(bc, u)
                           /\ Dirty(bc, u) => bc'.buf[u] = bc.buf[u]
    BY <1>2, <2>1, <2>3, HeadCache, ZenonT(60) DEF LogInv
  <2>5. /\ lh \in Seq(Home) /\ lh \in Content /\ Len(lh) \in Nat /\ Len(lh) <= nlog - 1
        /\ DOMAIN lh = 1..Len(lh)
    BY <2>1 DEF TypeOK, Content, LogInv, LhInv
  <2>6. /\ disk'[LogStart] = lh
        /\ \A b \in BlockNo \ {LogStart} : disk'[b] = disk[b]
        /\ disk' \in [BlockNo -> Content]
    BY <2>1, <2>4, <2>5, LayoutLemma, ZenonT(60) DEF TypeOK
  <2>7. TypeOK'
    BY <1>2, <2>1, <2>2, <2>4, <2>6, ZenonT(60) DEF TypeOK, Labels
  <2>8. DiskInv' /\ LhInv'
    BY <1>2, <2>1, <2>5, <2>6, ZenonT(60) DEF LogInv, DiskInv, LhInv
  <2>9. PhaseInv(t)'
    <3>1. PinnedInv /\ LoggedInv(Len(lh))
      BY <2>1, ZenonT(60) DEF LogInv, PhaseInv
    <3>2. \A v \in Bufs : Dirty(bc', v) =>
            \E i \in 1..Len(lh) :
               bc'.buf[v].blockno = lh[i] /\ bc'.buf[v].data = disk'[LogStart + i]
      <4> SUFFICES ASSUME NEW v \in Bufs, Dirty(bc', v)
                   PROVE  \E i \in 1..Len(lh) :
                            /\ bc'.buf[v].blockno = lh[i]
                            /\ bc'.buf[v].data = disk'[LogStart + i]
        BY ZenonT(60)
      <4>1. Dirty(bc, v) /\ bc'.buf[v] = bc.buf[v]
        BY <2>4, ZenonT(60)
      <4>2. PICK i \in 1..Len(lh) : bc.buf[v].blockno = lh[i]
        BY <2>5, <3>1, <4>1, ZenonT(60) DEF PinnedInv, Elems
      <4>3. bc.buf[v].data = disk[LogStart + i]
        BY <3>1, <4>2, ZenonT(60) DEF LoggedInv
      <4>4. disk'[LogStart + i] = disk[LogStart + i]
        <5>1. i \in 1..(nlog - 1)
          BY <2>5, LayoutAssumption
        <5>2. LogStart + i \in BlockNo \ {LogStart}
          BY <5>1, LayoutLemma, ZenonT(60)
        <5>. QED
          BY <2>6, <5>2, ZenonT(60)
      <4>. QED
        BY <4>1, <4>2, <4>3, <4>4, ZenonT(60)
    <3>3. pc'[t] = "install_trans" /\ tail'[t] = 0 /\ lh' = lh
      BY <1>2, <2>1, <2>2, ZenonT(60) DEF TypeOK
    <3>. QED
      BY <2>5, <2>6, <3>2, <3>3 DEF PhaseInv, InstalledInv
  <2>10. ThreadsInv'
    BY <1>2, <2>1, <2>2, <2>9, ThreadsLemma, Zenon DEF Labels
  <2>. QED
    BY <2>4, <2>7, <2>8, <2>10, ZenonT(60) DEF IInv, LogInv, ThreadsInv
<1>. QED
  BY <1>1, <1>2, ZenonT(60) DEF write_head

\* The write_head that erases the transaction preserves the invariant.
LEMMA EraseStep ==
  ASSUME SingleProc, IInv, NEW t \in Threads, erase(t)
  PROVE  IInv'
<1>1. CASE panic
  BY <1>1, PanicStep
<1>2. CASE /\ HeadWritten
           /\ Goto(t, "idle")
           /\ UNCHANGED <<lh, tail, held, wrote, started, panicked>>
  <2>1. Current(t) /\ pc[t] = "erase" /\ TypeOK /\ LogInv
    BY ZenonT(60) DEF erase, Running, Current, IInv
  <2>2. pc' = [pc EXCEPT ![t] = "idle"]
    BY <1>2, ZenonT(60) DEF Goto
  <2>3. NoneHeld /\ NoneHeld'
    <3>1. NoneHeld
      BY <2>1, NoneHeldLemma
    <3>. QED
      BY <1>2, <2>1, <2>2, <3>1, ZenonT(60) DEF NoneHeld, Holds, TypeOK
  <2>4. /\ bc' \in BcacheType(Content) /\ CacheInv'
        /\ disk' = [disk EXCEPT ![LogStart] = lh]
        /\ \A u \in Bufs : Dirty(bc', u) <=> Dirty(bc, u)
    BY <1>2, <2>1, <2>3, HeadCache, ZenonT(60) DEF LogInv
  <2>5. lh = <<>> /\ NothingPinned /\ lh \in Content
    BY <2>1, ZenonT(60) DEF LogInv, PhaseInv, TypeOK, Content
  <2>6. /\ disk'[LogStart] = <<>>
        /\ \A b \in BlockNo \ {LogStart} : disk'[b] = disk[b]
        /\ disk' \in [BlockNo -> Content]
    BY <2>1, <2>4, <2>5, LayoutLemma, ZenonT(60) DEF TypeOK
  <2>7. TypeOK'
    BY <1>2, <2>1, <2>2, <2>4, <2>6, ZenonT(60) DEF TypeOK, Labels
  <2>8. DiskInv' /\ LhInv'
    BY <1>2, <2>1, <2>5, <2>6, LayoutAssumption, SMTT(60) DEF LogInv, DiskInv, LhInv, NoRepeat
  <2>9. PhaseInv(t)'
    BY <1>2, <2>1, <2>2, <2>4, <2>5, <2>6, SMTT(60)
    DEF PhaseInv, PinnedInv, NothingPinned, Elems, TypeOK
  <2>10. ThreadsInv'
    BY <1>2, <2>1, <2>2, <2>9, ThreadsLemma, ZenonT(60) DEF Labels
  <2>. QED
    BY <2>4, <2>7, <2>8, <2>10, ZenonT(60) DEF IInv, LogInv, ThreadsInv
<1>. QED
  BY <1>1, <1>2, ZenonT(60) DEF erase

\* A pass of write_log copies the pinned block to its log block.
LEMMA WriteLogPass ==
  ASSUME SingleProc, IInv, NEW t \in Threads, write_log(t), ~panic, tail[t] < Len(lh)
  PROVE  /\ tail' = [tail EXCEPT ![t] = @ + 1]
         /\ UNCHANGED <<lh, pc, held, wrote, started, panicked>>
         /\ \E to, from \in Bufs :
              LogCopy(LogStart + tail[t] + 1, to, lh[tail[t] + 1], from)
<1> DEFINE k == tail[t] + 1
           to_b == LogStart + tail[t] + 1
           from_b == lh[k]
<1>2. Current(t) /\ pc[t] = "write_log" /\ TypeOK /\ LogInv
  BY ZenonT(60) DEF write_log, Running, Current, IInv
<1>3. /\ PinnedInv /\ tail[t] \in Nat /\ Len(lh) \in Nat /\ Len(lh) <= nlog - 1
      /\ lh \in Seq(Home) /\ DOMAIN lh = 1..Len(lh)
  <2>1. PinnedInv /\ LhInv
    BY <1>2, Zenon DEF LogInv, PhaseInv
  <2>2. lh \in Seq(Home) /\ tail[t] \in Nat
    BY <1>2, ZenonT(60) DEF TypeOK
  <2> QED  BY <2>1, <2>2 DEF LhInv
<1>4. NoneHeld
  BY <1>2, NoneHeldLemma, ZenonT(60)
<1>6.       /\ tail[t] < Len(lh)
           /\ \E to, from \in Bufs :
               LET c1 == bread(bc, to_b, to)
                   c2 == bread(c1, from_b, from)
                   c3 == SetData(c2, to, c2.buf[from].data)
               IN  /\ Bget(bc, to_b, to)
                   /\ Bget(c1, from_b, from)
                   /\ disk' = Written(c3, to)
                   /\ bc' = brelse(brelse(bwrite(c3, to), from), to)
                   /\ tail' = [tail EXCEPT ![t] = @ + 1]
                   /\ UNCHANGED <<lh, pc, held, wrote, started, panicked>>
  BY ZenonT(60) DEF write_log, Advance
<1> QED
  <2>0. PICK to \in Bufs, from \in Bufs :
               LET c1 == bread(bc, to_b, to)
                   c2 == bread(c1, from_b, from)
                   c3 == SetData(c2, to, c2.buf[from].data)
               IN  /\ Bget(bc, to_b, to)
                   /\ Bget(c1, from_b, from)
                   /\ disk' = Written(c3, to)
                   /\ bc' = brelse(brelse(bwrite(c3, to), from), to)
                   /\ tail' = [tail EXCEPT ![t] = @ + 1]
                   /\ UNCHANGED <<lh, pc, held, wrote, started, panicked>>
    BY <1>6, ZenonT(60)
  <2> DEFINE c2 == bread(bread(bc, to_b, to), from_b, from)
             c3 == SetData(c2, to, c2.buf[from].data)
  <2>1. /\ Bget(bc, to_b, to) /\ Bget(bread(bc, to_b, to), from_b, from)
        /\ disk' = Written(c3, to)
        /\ bc' = brelse(brelse(bwrite(c3, to), from), to)
        /\ tail' = [tail EXCEPT ![t] = @ + 1]
        /\ UNCHANGED <<lh, pc, held, wrote, started, panicked>>
    BY <2>0, ZenonT(60)
  <2>2. k \in 1..Len(lh) /\ k \in 1..(nlog - 1) /\ from_b \in Home /\ to_b = LogStart + k
    <3>0. /\ tail[t] \in Nat /\ Len(lh) \in Nat /\ nlog \in Nat /\ LogStart \in Nat
          /\ tail[t] < Len(lh) /\ Len(lh) <= nlog - 1
      BY <1>3, <1>6, LayoutAssumption, ZenonT(60)
    <3>1. k \in 1..Len(lh) /\ k \in 1..(nlog - 1) /\ to_b = LogStart + k
      BY <3>0, SMTT(60)
    <3> HIDE DEF k, to_b
    <3>. QED
      BY <1>3, <3>1, SMTT(60)
  <2>3. to_b \in BlockNo \ Home /\ to_b # LogStart /\ from_b \in BlockNo /\ to_b # from_b
    BY <2>2, LayoutLemma, ZenonT(60)
  <2> HIDE DEF to_b, from_b, k
  <2>4. TwoReads(to_b, to, from_b, from, c2)
    <3>1. TypeOK /\ CacheInv
      BY <1>2, Zenon DEF LogInv
    <3>2. to_b \in BlockNo /\ from_b \in BlockNo /\ to_b # from_b
      BY <2>2, <2>3, ZenonT(60)
    <3>. QED
      BY <1>4, <2>1, <3>1, <3>2, TwoReadsLemma, Zenon
  <2> HIDE DEF c2
  <2>5. /\ CopyOf(c2, from, to, bc')
        /\ disk' = [disk EXCEPT ![to_b] = c2.buf[from].data]
    <3>1. /\ c2 \in BcacheType(Content) /\ from # to
          /\ c2.buf[from].refcnt = 1 /\ c2.buf[to].refcnt = 1
          /\ c2.buf[to].blockno = to_b
      BY <2>4, ZenonT(60) DEF TwoReads, Sane
    <3>2. /\ CopyOf(c2, from, to, brelse(brelse(bwrite(c3, to), from), to))
          /\ c3.buf[to].blockno = c2.buf[to].blockno
          /\ c3.buf[to].data = c2.buf[from].data
      BY <3>1, CopyLemma, ZenonT(60)
    <3> HIDE DEF c3
    <3>. QED
      BY <2>1, <3>1, <3>2, ZenonT(60) DEF Written
  <2> HIDE DEF c3
  <2>6. NoneHeld'
    BY <1>4, <2>1, ZenonT(60) DEF NoneHeld, Holds
  <2>7. LogCopy(to_b, to, from_b, from)
    <3>1. \E v \in Bufs : bc.buf[v].blockno = from_b /\ Dirty(bc, v)
      BY <1>3, <2>2, ZenonT(60) DEF PinnedInv, Elems, from_b
    <3>. QED
      BY <1>2, <1>4, <2>2, <2>3, <2>4, <2>5, <2>6, <3>1, LogCopyLemma, Zenon DEF LogInv
  <2> QED
    BY <2>1, <2>7, ZenonT(60) DEF to_b, from_b, k

\* A pass of write_log preserves the invariant: one more log block holds the
\* content of its pinned buffer.
LEMMA WriteLogStep ==
  ASSUME SingleProc, IInv, NEW t \in Threads, write_log(t)
  PROVE  IInv'
<1> DEFINE k == tail[t] + 1
           to_b == LogStart + tail[t] + 1
           from_b == lh[k]
<1>1. CASE panic
  BY <1>1, PanicStep
<1>2. Current(t) /\ pc[t] = "write_log" /\ TypeOK /\ LogInv
  BY ZenonT(60) DEF write_log, Running, Current, IInv
<1>3. /\ PinnedInv /\ tail[t] <= Len(lh) /\ LoggedInv(tail[t])
      /\ tail[t] \in Nat /\ Len(lh) \in Nat /\ Len(lh) <= nlog - 1
      /\ lh \in Seq(Home) /\ DOMAIN lh = 1..Len(lh)
  BY <1>2 DEF LogInv, LhInv, PhaseInv, TypeOK
<1>4. NoneHeld
  BY <1>2, NoneHeldLemma
<1>5. CASE /\ ~(tail[t] < Len(lh))
           /\ Goto(t, "write_head")
           /\ UNCHANGED <<disk, bc, lh, tail, held, wrote, started, panicked>>
  <2>1. pc' = [pc EXCEPT ![t] = "write_head"]
    BY <1>5, ZenonT(60) DEF Goto
  <2>2. NoneHeld'
    BY <1>2, <1>4, <1>5, <2>1, ZenonT(60) DEF NoneHeld, Holds, TypeOK
  <2>3. TypeOK'
    BY <1>2, <1>5, <2>1, ZenonT(60) DEF TypeOK, Labels
  <2>4. CacheInv' /\ DiskInv' /\ LhInv'
    BY <1>2, <1>4, <1>5, <2>2, ZenonT(60) DEF LogInv, CacheInv, DiskInv, LhInv, NoneHeld
  <2>5. tail[t] = Len(lh)
    <3>1. tail[t] \in Nat /\ Len(lh) \in Nat /\ tail[t] <= Len(lh) /\ ~(tail[t] < Len(lh))
      BY <1>3, <1>5, ZenonT(60)
    <3>. QED
      BY <3>1, SMTT(60)
  <2>6. PhaseInv(t)'
    BY <1>2, <1>3, <1>5, <2>1, <2>5, ZenonT(60) DEF PhaseInv, PinnedInv, LoggedInv, TypeOK
  <2>7. ThreadsInv'
    BY <1>2, <1>5, <2>1, <2>6, ThreadsLemma, ZenonT(60) DEF Labels
  <2>. QED
    BY <2>3, <2>4, <2>7 DEF IInv, LogInv, ThreadsInv
<1>6. CASE tail[t] < Len(lh) /\ ~panic
  <2>0. PICK to \in Bufs, from \in Bufs : LogCopy(to_b, to, from_b, from)
    BY <1>6, WriteLogPass, Zenon
  <2>1. /\ tail' = [tail EXCEPT ![t] = @ + 1]
        /\ UNCHANGED <<lh, pc, held, wrote, started, panicked>>
    BY <1>6, WriteLogPass, Zenon
  <2>2. k \in 1..Len(lh) /\ k \in 1..(nlog - 1) /\ from_b \in Home /\ to_b = LogStart + k
    <3>0. /\ tail[t] \in Nat /\ Len(lh) \in Nat /\ nlog \in Nat /\ LogStart \in Nat
          /\ tail[t] < Len(lh) /\ Len(lh) <= nlog - 1
      BY <1>3, <1>6, LayoutAssumption, ZenonT(60)
    <3>1. k \in 1..Len(lh) /\ k \in 1..(nlog - 1) /\ to_b = LogStart + k
      BY <3>0, SMTT(60)
    <3> HIDE DEF k, to_b
    <3>. QED
      BY <1>3, <3>1, SMTT(60)
  <2>3. to_b \in BlockNo \ Home /\ to_b # LogStart /\ from_b \in BlockNo /\ to_b # from_b
    BY <2>2, LayoutLemma, ZenonT(60)
  <2> HIDE DEF to_b, from_b, k
  <2>7. LogCopy(to_b, to, from_b, from)
    BY <2>0, Zenon DEF to_b, from_b, k
  <2>8. bc.buf[from].data \in Val
    BY <1>2, <2>7, ZenonT(60) DEF LogCopy, LogInv, CacheInv
  <2>9. /\ disk' \in [BlockNo -> Content]
        /\ disk'[to_b] = bc.buf[from].data
        /\ \A b \in BlockNo : b # to_b => disk'[b] = disk[b]
    BY <1>2, <2>3, <2>7, <2>8, ZenonT(60) DEF LogCopy, TypeOK, Content
  <2>10. TypeOK'
    <3>1. bc' \in BcacheType(Content)
      BY <2>7, ZenonT(60) DEF LogCopy
    <3>. QED
      BY <1>2, <2>1, <2>9, <3>1, SMTT(60) DEF TypeOK
  <2>11. DiskInv' /\ LhInv'
    BY <1>2, <2>1, <2>3, <2>8, <2>9, LayoutLemma, ZenonT(60) DEF LogInv, DiskInv, LhInv
  <2>12. PinnedInv'
    <3>1. disk'[LogStart] = disk[LogStart]
      BY <2>3, <2>9, LayoutLemma, ZenonT(60)
    <3>. QED
      BY <1>3, <2>1, <2>7, <3>1, ZenonT(60) DEF LogCopy, PinnedInv
  <2>13. tail'[t] = k /\ pc'[t] = "write_log" /\ lh' = lh
    BY <1>2, <2>1, ZenonT(60) DEF TypeOK, k
  <2>14. LoggedInv(tail[t])'
    <3> SUFFICES ASSUME NEW i \in 1..k, NEW v \in Bufs, bc'.buf[v].blockno = lh[i]
                 PROVE  bc'.buf[v].data = disk'[LogStart + i]
      BY <2>13, ZenonT(60) DEF LoggedInv
    <3>1. i \in 1..Len(lh) /\ i \in 1..(nlog - 1) /\ lh[i] \in Home
      BY <1>3, <2>2, LayoutAssumption, SMTT(60)
    <3>2. bc'.buf[v] = bc.buf[v]
      BY <2>7, <3>1, ZenonT(60) DEF LogCopy
    <3>3. CASE i = k
      <4>1. bc.buf[v].blockno = from_b /\ from_b # NoBlock
        BY <2>3, <3>2, <3>3, LayoutLemma, ZenonT(60) DEF from_b
      <4>2. v = from
        <5>1. bc.buf[from].blockno = from_b
          BY <2>7, ZenonT(60) DEF LogCopy
        <5>. QED
          BY <1>2, <4>1, <5>1, SMTT(60) DEF LogInv, CacheInv
      <4>. QED
        BY <2>2, <2>9, <3>2, <3>3, <4>2, ZenonT(60)
    <3>4. CASE i # k
      <4>1. i \in 1..tail[t]
        BY <1>3, <3>4, SMTT(60) DEF k
      <4>2. LogStart + i \in BlockNo
        BY <3>1, LayoutLemma, ZenonT(60)
      <4>3. LogStart + i # to_b
        BY <2>2, <3>1, <3>4, LayoutAssumption, SMTT(60)
      <4>. QED
        BY <1>3, <2>9, <3>2, <4>1, <4>2, <4>3, ZenonT(60) DEF LoggedInv
    <3>. QED
      BY <3>3, <3>4, ZenonT(60)
  <2>15. PhaseInv(t)'
    <3>1. tail'[t] <= Len(lh')
      BY <1>3, <2>2, <2>13, SMTT(60)
    <3>. QED
      BY <2>12, <2>13, <2>14, <3>1, ZenonT(60) DEF PhaseInv
  <2>16. ThreadsInv'
    <3>1. pc' = [pc EXCEPT ![t] = "write_log"]
      BY <1>2, <2>1, ZenonT(60) DEF TypeOK
    <3>. QED
      BY <1>2, <2>1, <2>15, <3>1, ThreadsLemma, Zenon DEF Labels
  <2>. QED
    BY <2>7, <2>10, <2>11, <2>16, ZenonT(60) DEF LogCopy, IInv, LogInv, ThreadsInv
<1>. QED
  BY <1>1, <1>5, <1>6, ZenonT(60) DEF write_log, Advance
==============================================================================
