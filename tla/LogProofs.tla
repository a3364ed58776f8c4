------------------------------ MODULE LogProofs ------------------------------
(*****************************************************************************)
(* Commit and recovery preserve LogInv; the invariants of Log, and that it   *)
(* never panics.                                                             *)
(*****************************************************************************)
EXTENDS LogStepProofs, FiniteSetTheorems

\* end_op preserves the invariant.
LEMMA EndOpStep ==
  ASSUME SingleProc, IInv, NEW t \in Threads, end_op(t)
  PROVE  IInv'
<1> DEFINE l == IF Len(lh) > 0 THEN "write_log" ELSE "idle"
<1>1. Current(t) /\ pc[t] = "op" /\ TypeOK /\ LogInv
  BY DEF end_op, Running, Current, IInv
<1>2. /\ pc' = [pc EXCEPT ![t] = l]
      /\ tail' = [tail EXCEPT ![t] = 0]
      /\ wrote' = [wrote EXCEPT ![t] = {}]
      /\ UNCHANGED <<disk, bc, lh, held, started, panicked>>
  BY DEF end_op, Goto
<1>3. l \in {"write_log", "idle"}
  BY SMTT(60)
<1>4. TypeOK'
  BY <1>1, <1>2, <1>3, ZenonT(60) DEF TypeOK, Labels
<1>5. NoneHeld /\ NoneHeld'
  <2>1. NoneHeld
    BY <1>1, NoneHeldLemma
  <2> HIDE DEF l
  <2>. QED
    BY <1>1, <1>2, <1>3, <2>1, ZenonT(60) DEF NoneHeld, Holds, TypeOK
<1>6. CacheInv' /\ DiskInv' /\ LhInv'
  BY <1>1, <1>2, <1>5, ZenonT(60) DEF LogInv, CacheInv, DiskInv, LhInv, NoneHeld
<1>7. PhaseInv(t)'
  <2>1. PinnedInv'
    BY <1>1, <1>2, Zenon DEF LogInv, PhaseInv, PinnedInv
  <2>2. pc'[t] = l /\ tail'[t] = 0 /\ lh' = lh /\ lh \in Seq(Home)
    BY <1>1, <1>2, ZenonT(60) DEF TypeOK
  <2>3. Len(lh) = 0 => lh = <<>>
    BY <2>2, SMTT(60)
  <2>. QED
    BY <2>1, <2>2, <2>3, SMTT(60) DEF PhaseInv, LoggedInv
<1>8. ThreadsInv'
  <2> HIDE DEF l
  <2>. QED
    BY <1>1, <1>2, <1>3, <1>7, ThreadsLemma, Zenon DEF Labels
<1>. QED
  BY <1>4, <1>6, <1>8, ZenonT(60) DEF IInv, LogInv, ThreadsInv

\* The hand-over from main to the process preserves the invariant.
LEMMA SchedulerStep ==
  ASSUME SingleProc, IInv, scheduler
  PROVE  IInv'
<1>1. Current(Main) /\ pc[Main] = "idle" /\ TypeOK /\ LogInv /\ ~started
  BY MainAssumption DEF scheduler, Running, Current, IInv, TypeOK
<1>2. /\ started' = TRUE
      /\ UNCHANGED <<disk, bc, lh, pc, tail, held, wrote, panicked>>
  BY DEF scheduler
<1>3. TypeOK'
  BY <1>1, <1>2, SMTT(60) DEF TypeOK
<1>4. CacheInv' /\ DiskInv' /\ LhInv'
  <2>1. CacheInv /\ DiskInv /\ LhInv
    BY <1>1, ZenonT(60) DEF LogInv
  <2>2. \A v \in Bufs : Holds(v)' <=> Holds(v)
    BY <1>2, Zenon DEF Holds
  <2>3. \A v \in Bufs : CellInv(v) => CellInv(v)'
    BY <1>2, <2>2, Zenon DEF CellInv, Valid, Dirty
  <2>4. CacheInv'
    BY <1>2, <2>1, <2>3, CellLemma, CellLemmaNext, Zenon DEF OneCopy
  <2>. QED
    BY <1>2, <2>1, <2>4, Zenon DEF DiskInv, LhInv
<1>5. lh = <<>> /\ PinnedInv
  BY <1>1, ZenonT(60) DEF LogInv, PhaseInv, Threads
<1>6. \A t \in Threads : pc[t] = "idle"
  BY <1>1, ZenonT(60) DEF LogInv, Current, Threads
<1>7. \A t \in Threads : PhaseInv(t)'
  BY <1>2, <1>5, <1>6, ZenonT(60) DEF PhaseInv, PinnedInv
<1>8. ThreadsInv'
  BY <1>2, <1>6, <1>7, ZenonT(60) DEF ThreadsInv
<1>. QED
  BY <1>3, <1>4, <1>8, Zenon DEF IInv, LogInv, ThreadsInv

\* A pass of install_trans copies the log block to its home.
LEMMA InstallPass ==
  ASSUME SingleProc, IInv, NEW t \in Threads, install_trans(t), ~panic, tail[t] < Len(lh)
  PROVE  /\ tail' = [tail EXCEPT ![t] = @ + 1]
         /\ UNCHANGED <<lh, pc, held, wrote, started, panicked>>
         /\ \E l, d \in Bufs :
              HomeCopy(LogStart + tail[t] + 1, l, lh[tail[t] + 1], d)
<1> DEFINE k == tail[t] + 1
           l_b == LogStart + tail[t] + 1
           d_b == lh[k]
<1>2. Current(t) /\ pc[t] = "install_trans" /\ TypeOK /\ LogInv
  BY Zenon DEF install_trans, Running, Current, IInv
<1>3. /\ tail[t] \in Nat /\ Len(lh) \in Nat /\ Len(lh) <= nlog - 1
      /\ lh \in Seq(Home) /\ DOMAIN lh = 1..Len(lh)
  BY <1>2 DEF LogInv, LhInv, TypeOK
<1>4. NoneHeld
  BY <1>2, NoneHeldLemma, ZenonT(60)
<1>6.       /\ tail[t] < Len(lh)
           /\ \E l, d \in Bufs :
               LET c1 == bread(bc, l_b, l)
                   c2 == bread(c1, d_b, d)
                   c3 == SetData(c2, d, c2.buf[l].data)
               IN  /\ Bget(bc, l_b, l)
                   /\ Bget(c1, d_b, d)
                   /\ disk' = Written(c3, d)
                   /\ bc' = brelse(brelse(bwrite(c3, d), l), d)
                   /\ tail' = [tail EXCEPT ![t] = @ + 1]
                   /\ UNCHANGED <<lh, pc, held, wrote, started, panicked>>
  BY ZenonT(60) DEF install_trans, Advance
<1> QED
  <2>0. PICK l \in Bufs, d \in Bufs :
               LET c1 == bread(bc, l_b, l)
                   c2 == bread(c1, d_b, d)
                   c3 == SetData(c2, d, c2.buf[l].data)
               IN  /\ Bget(bc, l_b, l)
                   /\ Bget(c1, d_b, d)
                   /\ disk' = Written(c3, d)
                   /\ bc' = brelse(brelse(bwrite(c3, d), l), d)
                   /\ tail' = [tail EXCEPT ![t] = @ + 1]
                   /\ UNCHANGED <<lh, pc, held, wrote, started, panicked>>
    BY <1>6, ZenonT(60)
  <2> DEFINE c2 == bread(bread(bc, l_b, l), d_b, d)
             c3 == SetData(c2, d, c2.buf[l].data)
  <2>1. /\ Bget(bc, l_b, l) /\ Bget(bread(bc, l_b, l), d_b, d)
        /\ disk' = Written(c3, d)
        /\ bc' = brelse(brelse(bwrite(c3, d), l), d)
        /\ tail' = [tail EXCEPT ![t] = @ + 1]
        /\ UNCHANGED <<lh, pc, held, wrote, started, panicked>>
    BY <2>0, ZenonT(60)
  <2>2. k \in 1..Len(lh) /\ k \in 1..(nlog - 1) /\ d_b \in Home /\ l_b = LogStart + k
    <3>0. /\ tail[t] \in Nat /\ Len(lh) \in Nat /\ nlog \in Nat /\ LogStart \in Nat
          /\ tail[t] < Len(lh) /\ Len(lh) <= nlog - 1
      BY <1>3, <1>6, LayoutAssumption, Zenon
    <3>1. k \in 1..Len(lh) /\ k \in 1..(nlog - 1) /\ l_b = LogStart + k
      BY <3>0, SMTT(60)
    <3> HIDE DEF k, l_b
    <3>. QED
      BY <1>3, <3>1
  <2>3. l_b \in BlockNo \ Home /\ l_b # LogStart /\ d_b \in BlockNo /\ l_b # d_b
    BY <2>2, LayoutLemma, ZenonT(60)
  <2> HIDE DEF l_b, d_b, k
  <2>4. TwoReads(l_b, l, d_b, d, c2)
    <3>1. TypeOK /\ CacheInv
      BY <1>2, Zenon DEF LogInv
    <3>2. l_b \in BlockNo /\ d_b \in BlockNo /\ l_b # d_b
      BY <2>2, <2>3, ZenonT(60)
    <3>. QED
      BY <1>4, <2>1, <3>1, <3>2, TwoReadsLemma, Zenon
  <2> HIDE DEF c2
  <2>5. /\ CopyOf(c2, l, d, bc')
        /\ disk' = [disk EXCEPT ![d_b] = c2.buf[l].data]
    <3>1. /\ c2 \in BcacheType(Content) /\ l # d
          /\ c2.buf[l].refcnt = 1 /\ c2.buf[d].refcnt = 1
          /\ c2.buf[d].blockno = d_b
      BY <2>4, ZenonT(60) DEF TwoReads, Sane
    <3>2. /\ CopyOf(c2, l, d, brelse(brelse(bwrite(c3, d), l), d))
          /\ c3.buf[d].blockno = c2.buf[d].blockno
          /\ c3.buf[d].data = c2.buf[l].data
      BY <3>1, CopyLemma, ZenonT(60)
    <3> HIDE DEF c3
    <3>. QED
      BY <2>1, <3>1, <3>2, ZenonT(60) DEF Written
  <2> HIDE DEF c3
  <2>6. NoneHeld'
    BY <1>4, <2>1, ZenonT(60) DEF NoneHeld, Holds
  <2>7. HomeCopy(l_b, l, d_b, d)
    BY <1>2, <1>4, <2>2, <2>3, <2>4, <2>5, <2>6, HomeCopyLemma, Zenon DEF LogInv
  <2> QED
    BY <2>1, <2>7, ZenonT(60) DEF l_b, d_b, k

\* A pass of install_trans preserves the invariant: one more home block holds
\* the content of its log block, on the disk and in the cache.
LEMMA InstallStep ==
  ASSUME SingleProc, IInv, NEW t \in Threads, install_trans(t)
  PROVE  IInv'
<1> DEFINE k == tail[t] + 1
           l_b == LogStart + tail[t] + 1
           d_b == lh[k]
<1>1. CASE panic
  BY <1>1, PanicStep
<1>2. Current(t) /\ pc[t] = "install_trans" /\ TypeOK /\ LogInv
  BY Zenon DEF install_trans, Running, Current, IInv
<1>3. /\ disk[LogStart] = lh /\ tail[t] <= Len(lh) /\ InstalledInv(tail[t])
      /\ tail[t] \in Nat /\ Len(lh) \in Nat /\ Len(lh) <= nlog - 1
      /\ lh \in Seq(Home) /\ DOMAIN lh = 1..Len(lh) /\ NoRepeat(lh)
      /\ \A v \in Bufs : Dirty(bc, v) =>
           \E i \in (tail[t] + 1)..Len(lh) :
              bc.buf[v].blockno = lh[i] /\ bc.buf[v].data = disk[LogStart + i]
  <2>1. PhaseInv(t) /\ LhInv
    BY <1>2, Zenon DEF LogInv
  <2>2. lh \in Seq(Home) /\ tail[t] \in Nat
    BY <1>2, ZenonT(60) DEF TypeOK
  <2>3. Len(lh) \in Nat /\ DOMAIN lh = 1..Len(lh)
    BY <2>2, SMTT(60)
  <2>. QED
    BY <1>2, <2>1, <2>2, <2>3, Zenon DEF PhaseInv, LhInv
<1>4. NoneHeld
  BY <1>2, NoneHeldLemma
<1>5. CASE /\ ~(tail[t] < Len(lh))
           /\ Goto(t, "clear")
           /\ UNCHANGED <<disk, bc, lh, tail, held, wrote, started, panicked>>
  <2>1. pc' = [pc EXCEPT ![t] = "clear"]
    BY <1>5, ZenonT(60) DEF Goto
  <2>2. NoneHeld'
    BY <1>2, <1>4, <1>5, <2>1, ZenonT(60) DEF NoneHeld, Holds, TypeOK
  <2>3. TypeOK'
    BY <1>2, <1>5, <2>1, ZenonT(60) DEF TypeOK, Labels
  <2>4. CacheInv' /\ DiskInv' /\ LhInv'
    BY <1>2, <1>4, <1>5, <2>2, ZenonT(60) DEF LogInv, CacheInv, DiskInv, LhInv, NoneHeld
  <2>5. tail[t] = Len(lh)
    <3>1. tail[t] \in Nat /\ Len(lh) \in Nat /\ tail[t] <= Len(lh) /\ ~(tail[t] < Len(lh))
      BY <1>3, <1>5, Zenon
    <3>. QED
      BY <3>1, SMTT(60)
  <2>6. NothingPinned
    BY <1>3, <2>5, SMTT(60) DEF NothingPinned
  <2>7. PhaseInv(t)'
    BY <1>2, <1>3, <1>5, <2>1, <2>5, <2>6, ZenonT(60)
    DEF PhaseInv, InstalledInv, NothingPinned, TypeOK
  <2>8. ThreadsInv'
    BY <1>2, <1>5, <2>1, <2>7, ThreadsLemma, Zenon DEF Labels
  <2>. QED
    BY <2>3, <2>4, <2>8 DEF IInv, LogInv, ThreadsInv
<1>6. CASE tail[t] < Len(lh) /\ ~panic
  <2>0. PICK l \in Bufs, d \in Bufs : HomeCopy(l_b, l, d_b, d)
    BY <1>6, InstallPass, Zenon
  <2>1. /\ tail' = [tail EXCEPT ![t] = @ + 1]
        /\ UNCHANGED <<lh, pc, held, wrote, started, panicked>>
    BY <1>6, InstallPass, Zenon
  <2>2. k \in 1..Len(lh) /\ k \in 1..(nlog - 1) /\ d_b \in Home /\ l_b = LogStart + k
    <3>0. /\ tail[t] \in Nat /\ Len(lh) \in Nat /\ nlog \in Nat /\ LogStart \in Nat
          /\ tail[t] < Len(lh) /\ Len(lh) <= nlog - 1
      BY <1>3, <1>6, LayoutAssumption, Zenon
    <3>1. k \in 1..Len(lh) /\ k \in 1..(nlog - 1) /\ l_b = LogStart + k
      BY <3>0, SMTT(60)
    <3> HIDE DEF k, l_b
    <3>. QED
      BY <1>3, <3>1
  <2>3. l_b \in BlockNo \ Home /\ l_b # LogStart /\ d_b \in BlockNo /\ l_b # d_b
    BY <2>2, LayoutLemma, ZenonT(60)
  <2> HIDE DEF l_b, d_b, k
  <2>7. HomeCopy(l_b, l, d_b, d)
    BY <2>0, Zenon DEF l_b, d_b, k
  <2>8. disk[l_b] \in Val
    BY <1>2, <2>3, ZenonT(60) DEF LogInv, DiskInv
  <2>9. /\ disk' \in [BlockNo -> Content]
        /\ disk'[d_b] = disk[l_b]
        /\ \A b \in BlockNo : b # d_b => disk'[b] = disk[b]
    BY <1>2, <2>3, <2>7, <2>8, ZenonT(60) DEF HomeCopy, TypeOK, Content
  <2>10. TypeOK'
    <3>1. bc' \in BcacheType(Content)
      BY <2>7, SMTT(60) DEF HomeCopy
    <3>. QED
      BY <1>2, <2>1, <2>9, <3>1 DEF TypeOK
  <2>11. disk'[LogStart] = lh /\ lh' = lh
    BY <1>3, <2>1, <2>2, <2>9, LayoutLemma, ZenonT(60)
  <2>12. DiskInv' /\ LhInv'
    BY <1>2, <1>3, <2>3, <2>8, <2>9, <2>11, ZenonT(60) DEF LogInv, DiskInv, LhInv
  <2>13. tail'[t] = k /\ pc'[t] = "install_trans"
    BY <1>2, <2>1, ZenonT(60) DEF TypeOK, k
  <2>14. \A i \in 1..Len(lh) : disk'[LogStart + i] = disk[LogStart + i]
    <3> SUFFICES ASSUME NEW i \in 1..Len(lh)
                 PROVE  disk'[LogStart + i] = disk[LogStart + i]
      BY SMTT(60)
    <3>1. i \in 1..(nlog - 1)
      BY <1>3, LayoutAssumption
    <3>2. LogStart + i \in BlockNo /\ LogStart + i # d_b
      BY <2>2, <3>1, LayoutLemma, SMTT(60)
    <3>. QED
      BY <2>9, <3>2
  <2>15. InstalledInv(tail[t])'
    <3> SUFFICES ASSUME NEW i \in 1..k
                 PROVE  disk'[lh[i]] = disk'[LogStart + i]
      BY <2>11, <2>13, ZenonT(60) DEF InstalledInv
    <3>1. i \in 1..Len(lh) /\ lh[i] \in Home /\ lh[i] \in BlockNo
      BY <1>3, <2>2, LayoutLemma, SMTT(60)
    <3>2. CASE i = k
      BY <2>2, <2>9, <2>14, <3>1, <3>2, SMTT(60) DEF d_b
    <3>3. CASE i # k
      <4>1. i \in 1..tail[t]
        BY <1>3, <3>3 DEF k
      <4>2. lh[i] # d_b
        BY <1>3, <2>2, <3>1, <3>3, ZenonT(60) DEF NoRepeat, d_b
      <4>. QED
        BY <1>3, <2>9, <2>14, <3>1, <4>1, <4>2, SMTT(60) DEF InstalledInv
    <3>. QED
      BY <3>2, <3>3, SMTT(60)
  <2>16. \A v \in Bufs : Dirty(bc', v) =>
           \E i \in (k + 1)..Len(lh) :
              bc'.buf[v].blockno = lh[i] /\ bc'.buf[v].data = disk'[LogStart + i]
    <3> SUFFICES ASSUME NEW v \in Bufs, Dirty(bc', v)
                 PROVE  \E i \in (k + 1)..Len(lh) :
                          /\ bc'.buf[v].blockno = lh[i]
                          /\ bc'.buf[v].data = disk'[LogStart + i]
      BY ZenonT(60)
    <3>1. Dirty(bc, v) /\ bc'.buf[v] = bc.buf[v] /\ bc.buf[v].blockno # d_b
      BY <2>7, ZenonT(60) DEF HomeCopy
    <3>2. PICK i \in (tail[t] + 1)..Len(lh) :
            bc.buf[v].blockno = lh[i] /\ bc.buf[v].data = disk[LogStart + i]
      BY <1>3, <3>1, ZenonT(60)
    <3>3. i # k
      BY <3>1, <3>2, ZenonT(60) DEF d_b
    <3>4. i \in (k + 1)..Len(lh) /\ i \in 1..Len(lh)
      BY <1>3, <3>3, SMTT(60) DEF k
    <3>. QED
      BY <2>14, <3>1, <3>2, <3>4, ZenonT(60)
  <2>17. PhaseInv(t)'
    <3>1. tail'[t] <= Len(lh')
      BY <1>3, <2>2, <2>11, <2>13, SMTT(60)
    <3>. QED
      BY <2>11, <2>13, <2>15, <2>16, <3>1, ZenonT(60) DEF PhaseInv
  <2>18. ThreadsInv'
    <3>1. pc' = [pc EXCEPT ![t] = "install_trans"]
      BY <1>2, <2>1, ZenonT(60) DEF TypeOK
    <3>. QED
      BY <1>2, <2>1, <2>17, <3>1, ThreadsLemma, Zenon DEF Labels
  <2>. QED
    BY <2>7, <2>10, <2>12, <2>18, ZenonT(60) DEF HomeCopy, IInv, LogInv, ThreadsInv
<1>. QED
  BY <1>1, <1>5, <1>6, ZenonT(60) DEF install_trans, Advance

\* Every step preserves the invariant.
LEMMA NextIInv ==
  ASSUME SingleProc, IInv, [Next]_vars
  PROVE  IInv'
<1>1. CASE UNCHANGED vars
  <2>1. panicked' \in BOOLEAN
    BY <1>1, ZenonT(60) DEF vars, IInv, TypeOK
  <2>. QED
    BY <1>1, <2>1, UnchangedLemma DEF vars
<1>2. ASSUME NEW t \in Threads, LogStep(t) PROVE IInv'
  BY <1>2, InitlogStep, ReadHeadStep, WriteLogStep, WriteHeadStep, InstallStep,
     ClearStep, EraseStep, ZenonT(60) DEF LogStep
<1>3. ASSUME NEW t \in Threads, OpStep(t) PROVE IInv'
  BY <1>3, BeginOpStep, LogWriteStep, EndOpStep, ReadiStep, ModifyStep, ZenonT(60) DEF OpStep
<1>4. CASE scheduler
  BY <1>4, SchedulerStep, ZenonT(60)
<1>5. CASE Crash
  BY <1>5, CrashStep
<1>. QED
  BY <1>1, <1>2, <1>3, <1>4, <1>5, ZenonT(60) DEF Next

\* With one process at a time in the file system, the cache, the in-memory log
\* header, the header block, the log blocks and the home blocks agree as LogInv
\* says at each point of the protocol, for every size of cache, log and disk
\* and whatever the steps between which the machine crashes.
THEOREM LogCorrect ==
  ASSUME SingleProc
  PROVE  Spec => [](TypeOK /\ LogInv)
<1>1. Init => IInv
  BY InitIInv
<1>2. IInv /\ [Next]_vars => IInv'
  BY NextIInv, ZenonT(60)
<1>3. Spec => []IInv
  BY <1>1, <1>2, PTL DEF Spec
<1>. QED
  BY <1>3, PTL DEF IInv

\* The state keeps its types, whatever the thread or the crash that changes it.
THEOREM TypesCorrect ==
  ASSUME SingleProc
  PROVE  Spec => []TypeOK
BY LogCorrect, PTL

\* What a thread has changed is in the log header, or is about to be.
Logged(t, b) ==
  b \in Elems(lh) \/ (pc[t] = "log_write" /\ bc.buf[held[t]].blockno = b)

\* Only an operation has changed blocks, and they are logged.
WroteInv ==
  \A t \in Threads :
    /\ wrote[t] # {} => pc[t] \in {"op", "log_write"}
    /\ \A b \in wrote[t] : Logged(t, b)

\* modify notes the block of the buffer that log_write gets.
LEMMA ModifyWrote ==
  ASSUME SingleProc, IInv, WroteInv, NEW t \in Threads, NEW b \in Home, NEW x \in Val,
         modify(t, b, x)
  PROVE  WroteInv'
<1>1. CASE panic
  BY <1>1, ZenonT(60) DEF panic, WroteInv, Logged
<1>2. CASE \E v \in Bufs :
             /\ Bget(bc, b, v)
             /\ bc' = SetData(bread(bc, b, v), v, x)
             /\ held' = [held EXCEPT ![t] = v]
             /\ wrote' = [wrote EXCEPT ![t] = @ \cup {b}]
             /\ Goto(t, "log_write")
             /\ UNCHANGED <<disk, lh, tail, started, panicked>>
  <2>0. PICK v \in Bufs :
             /\ Bget(bc, b, v)
             /\ bc' = SetData(bread(bc, b, v), v, x)
             /\ held' = [held EXCEPT ![t] = v]
             /\ wrote' = [wrote EXCEPT ![t] = @ \cup {b}]
             /\ Goto(t, "log_write")
             /\ UNCHANGED <<disk, lh, tail, started, panicked>>
    BY <1>2, Zenon
  <2>1. Current(t) /\ pc[t] = "op" /\ TypeOK /\ LogInv
    BY Zenon DEF modify, Running, Current, IInv
  <2>2. pc' = [pc EXCEPT ![t] = "log_write"]
    BY <2>0, ZenonT(60) DEF Goto
  <2>3. bc'.buf[v].blockno = b
    BY <2>0, <2>1, NoneHeldLemma, ModifyLemma, SMTT(60) DEF LogInv, ModifyOf
  <2>4. \A u \in Threads : u # t => wrote[u] = {}
    BY <2>1, OneCurrent, ZenonT(60) DEF LogInv, WroteInv
  <2>5. \A c \in wrote[t] : c \in Elems(lh)
    BY <2>1, ZenonT(60) DEF WroteInv, Logged
  <2>6. ASSUME NEW u \in Threads
        PROVE  /\ wrote'[u] # {} => pc'[u] \in {"op", "log_write"}
               /\ \A c \in wrote'[u] : Logged(u, c)'
    <3>1. CASE u = t
      <4>1. /\ pc'[t] = "log_write" /\ held'[t] = v /\ lh' = lh
            /\ wrote'[t] = wrote[t] \cup {b}
        BY <2>0, <2>1, <2>2, ZenonT(60) DEF TypeOK
      <4> QED  BY <2>3, <2>5, <3>1, <4>1, SMTT(60) DEF Logged, Elems
    <3>2. CASE u # t
      <4>1. wrote'[u] = {}
        BY <2>0, <2>1, <2>4, <3>2, ZenonT(60) DEF TypeOK
      <4> QED  BY <4>1, ZenonT(60)
    <3> QED  BY <3>1, <3>2, ZenonT(60)
  <2> QED  BY <2>6, ZenonT(60) DEF WroteInv
<1> QED  BY <1>1, <1>2, ZenonT(60) DEF modify

\* log_write logs the block of its buffer.
LEMMA LogWriteWrote ==
  ASSUME SingleProc, IInv, WroteInv, NEW t \in Threads, log_write(t)
  PROVE  WroteInv'
<1>1. CASE panic
  BY <1>1, ZenonT(60) DEF panic, WroteInv, Logged
<1> DEFINE b == bc.buf[held[t]].blockno
<1>2. CASE /\ lh' = IF b \in Elems(lh) THEN lh ELSE Append(lh, b)
           /\ Goto(t, "op")
           /\ wrote' = wrote
  <2>1. Current(t) /\ pc[t] = "log_write" /\ TypeOK /\ LogInv
    BY ZenonT(60) DEF log_write, Running, Current, IInv
  <2>2. pc' = [pc EXCEPT ![t] = "op"]
    BY <1>2, ZenonT(60) DEF Goto
  <2>3. \A u \in Threads : u # t => wrote[u] = {}
    BY <2>1, OneCurrent, ZenonT(60) DEF LogInv, WroteInv
  <2>4. lh \in Seq(Home) /\ b \in Home
    <3>1. Holds(held[t]) /\ held[t] \in Bufs
      BY <2>1, ZenonT(60) DEF Holds, LogInv
    <3> QED  BY <2>1, <3>1, Zenon DEF TypeOK, LogInv, CacheInv
  <2> HIDE DEF b
  <2>5. Elems(lh) \cup {b} \subseteq Elems(lh')
    <3>1. CASE b \in Elems(lh)
      BY <1>2, <3>1, ZenonT(60)
    <3>2. CASE b \notin Elems(lh)
      <4>1. lh' = Append(lh, b)
        BY <1>2, <3>2, ZenonT(60)
      <4>2. /\ DOMAIN lh = 1..Len(lh) /\ DOMAIN lh' = 1..(Len(lh) + 1) /\ Len(lh) \in Nat
            /\ \A i \in 1..Len(lh) : lh'[i] = lh[i]
            /\ lh'[Len(lh) + 1] = b
        BY <2>4, <4>1, SMTT(60)
      <4> QED  BY <4>2 DEF Elems
    <3> QED  BY <3>1, <3>2, ZenonT(60)
  <2>6. \A c \in wrote[t] : c \in Elems(lh) \/ c = b
    BY <2>1, ZenonT(60) DEF WroteInv, Logged, b
  <2>7. \A u \in Threads : u # t => wrote'[u] = {}
    BY <1>2, <2>3, ZenonT(60)
  <2>8. pc'[t] = "op" /\ \A c \in wrote'[t] : c \in Elems(lh')
    BY <1>2, <2>1, <2>2, <2>5, <2>6, ZenonT(60) DEF TypeOK
  <2> QED  BY <2>7, <2>8, ZenonT(60) DEF WroteInv, Logged
<1> QED  BY <1>1, <1>2, ZenonT(60) DEF log_write

\* Every step keeps the blocks of an operation logged.
LEMMA NextWrote ==
  ASSUME SingleProc, IInv, WroteInv, [Next]_vars
  PROVE  WroteInv'
<1>0. TypeOK /\ LogInv
  BY ZenonT(60) DEF IInv
<1>1. CASE UNCHANGED vars
  BY <1>1, ZenonT(60) DEF vars, WroteInv, Logged
<1>2. ASSUME NEW t \in Threads, Current(t), pc[t] \notin {"op", "log_write"}, wrote' = wrote
      PROVE  WroteInv'
  <2>1. \A u \in Threads : wrote[u] = {}
    BY <1>0, <1>2, OneCurrent, ZenonT(60) DEF LogInv, WroteInv
  <2> QED  BY <1>2, <2>1, ZenonT(60) DEF WroteInv
<1>3. ASSUME NEW t \in Threads, LogStep(t) PROVE WroteInv'
  <2>1. pc[t] \notin {"op", "log_write"} /\ Running(t)
    <3>1. /\ Running(t)
          /\ pc[t] \in {"initlog", "read_head", "write_log", "write_head", "install_trans",
                       "clear", "erase"}
      BY <1>3, Zenon DEF LogStep, initlog, read_head, write_log, write_head, install_trans,
         clear, erase
    <3> QED  BY <3>1, ZenonT(60)
  <2>2. wrote' = wrote
    <3>1. CASE initlog(t) \/ read_head(t)
      BY <3>1, Zenon DEF initlog, read_head, panic
    <3>2. CASE write_log(t)
      BY <3>2, Zenon DEF write_log, panic
    <3>3. CASE install_trans(t)
      BY <3>3, Zenon DEF install_trans, panic
    <3>4. CASE write_head(t) \/ clear(t) \/ erase(t)
      BY <3>4, Zenon DEF write_head, clear, erase, panic
    <3> QED  BY <1>3, <3>1, <3>2, <3>3, <3>4, ZenonT(60) DEF LogStep
  <2> QED  BY <1>2, <2>1, <2>2, ZenonT(60) DEF Running, Current
<1>4. ASSUME NEW t \in Threads, begin_op(t) PROVE WroteInv'
  BY <1>2, <1>4, ZenonT(60) DEF begin_op, Running, Current
<1>5. ASSUME NEW t \in Threads, end_op(t) PROVE WroteInv'
  <2>1. Current(t) /\ pc[t] = "op" /\ wrote' = [wrote EXCEPT ![t] = {}]
    BY <1>5, ZenonT(60) DEF end_op, Running, Current
  <2>2. \A u \in Threads : u # t => wrote[u] = {}
    BY <1>0, <2>1, OneCurrent, ZenonT(60) DEF LogInv, WroteInv
  <2>3. \A u \in Threads : wrote'[u] = {}
    BY <1>0, <2>1, <2>2, ZenonT(60) DEF TypeOK
  <2> QED  BY <2>3, ZenonT(60) DEF WroteInv
<1>6. ASSUME NEW t \in Threads, NEW b \in Home, readi(t, b) PROVE WroteInv'
  <2>1. /\ Current(t) /\ pc[t] = "op"
        /\ UNCHANGED <<lh, pc, held, wrote>>
    BY <1>6, Zenon DEF readi, Running, Current, panic
  <2>2. \A u \in Threads : u # t => wrote[u] = {}
    BY <1>0, <2>1, OneCurrent, ZenonT(60) DEF LogInv, WroteInv
  <2> QED  BY <2>1, <2>2, ZenonT(60) DEF WroteInv, Logged
<1>7. ASSUME NEW t \in Threads, OpStep(t) PROVE WroteInv'
  BY <1>4, <1>5, <1>6, <1>7, ModifyWrote, LogWriteWrote, ZenonT(60) DEF OpStep
<1>8. CASE scheduler
  BY <1>8, ZenonT(60) DEF scheduler, WroteInv, Logged
<1>9. CASE Crash
  BY <1>9, ZenonT(60) DEF Crash, WroteInv
<1> QED  BY <1>1, <1>3, <1>7, <1>8, <1>9, ZenonT(60) DEF Next

\* The cache has one buffer for a block, a buffer that bget may recycle holds what
\* the disk holds, and a block that a running operation has changed stays cached.
THEOREM CacheCorrect ==
  ASSUME SingleProc
  PROVE  Spec => []CacheCoherent
<1>1. Init => IInv /\ WroteInv
  <2>1. Init => WroteInv
    BY ZenonT(60) DEF Init, WroteInv
  <2> QED  BY <2>1, InitIInv, ZenonT(60)
<1>2. IInv /\ WroteInv /\ [Next]_vars => (IInv /\ WroteInv)'
  BY NextIInv, NextWrote, ZenonT(60)
<1>3. IInv /\ WroteInv => CacheCoherent
  <2> SUFFICES ASSUME IInv, WroteInv PROVE CacheCoherent
    BY ZenonT(60)
  <2>1. TypeOK /\ LogInv /\ CacheInv
    BY ZenonT(60) DEF IInv, LogInv
  <2>2. ASSUME NEW v \in Bufs, Valid(bc, v), Unused(bc, v)
        PROVE  bc.buf[v].data = disk[bc.buf[v].blockno]
    <3>1. bc.buf[v].blockno # NoBlock
      BY <2>1, <2>2, SMTT(60) DEF CacheInv, Valid, EmptyBuf, Buffer
    <3>2. ~Holds(v) /\ ~Dirty(bc, v)
      BY <2>1, <2>2, SMTT(60) DEF CacheInv, Unused
    <3> QED  BY <2>1, <3>1, <3>2, ZenonT(60) DEF CacheInv
  <2>3. ASSUME NEW t \in Threads, NEW b \in wrote[t] PROVE Cached(bc, b)
    <3>1. pc[t] \in {"op", "log_write"} /\ Logged(t, b)
      BY <2>3, ZenonT(60) DEF WroteInv
    <3>2. PinnedInv
      BY <2>1, <3>1, ZenonT(60) DEF LogInv, PhaseInv
    <3>3. pc[t] = "log_write" => held[t] \in Bufs
      BY <2>1, ZenonT(60) DEF LogInv
    <3> QED  BY <3>1, <3>2, <3>3, ZenonT(60) DEF PinnedInv, Logged, Cached
  <2> QED  BY <2>1, <2>2, <2>3, Zenon DEF CacheCoherent, CacheInv
<1> QED  BY <1>1, <1>2, <1>3, PTL DEF Spec

------------------------------------------------------------------------------
(* No panic.                                                                 *)

\* What param.h and mkfs give: the cache and the log have room for more than one
\* operation writes (NBUF and LOGSIZE are MAXOPBLOCKS*3, nlog is LOGSIZE).
Roomy == MAXOPBLOCKS < NBUF /\ MAXOPBLOCKS < LOGSIZE /\ MAXOPBLOCKS < nlog - 1

\* A transaction never has more blocks than an operation may write: while the
\* operation runs, the logged blocks are among those it has changed.
SizeInv ==
  /\ Len(lh) <= MAXOPBLOCKS
  /\ Len(disk[LogStart]) <= MAXOPBLOCKS
  /\ \A t \in Threads :
       /\ IsFiniteSet(wrote[t]) /\ Cardinality(wrote[t]) <= MAXOPBLOCKS
       /\ pc[t] \in {"op", "log_write"} => Elems(lh) \subseteq wrote[t]
       /\ pc[t] = "log_write" => bc.buf[held[t]].blockno \in wrote[t]

\* There are n numbers from 1 to n.
LEMMA IntervalLemma ==
  ASSUME NEW n \in Nat
  PROVE  IsFiniteSet(1..n) /\ Cardinality(1..n) = n
BY FS_Interval

\* The buffers are more than the logged blocks, so no assignment of logged blocks
\* to all of them is one to one.
LEMMA TwoBuffers ==
  ASSUME Roomy, TypeOK, Len(lh) <= MAXOPBLOCKS, NEW f,
         \A v \in Bufs : f[v] \in Elems(lh)
  PROVE  \E u, v \in Bufs : u # v /\ f[u] = f[v]
<1> DEFINE h == [v \in Bufs |-> CHOOSE i \in 1..Len(lh) : lh[i] = f[v]]
<1>1. Len(lh) \in Nat /\ DOMAIN lh = 1..Len(lh)
  BY DEF TypeOK
<1>2. \A v \in Bufs : h[v] \in 1..Len(lh) /\ lh[h[v]] = f[v]
  BY <1>1, Zenon DEF Elems
<1>3. h \in [Bufs -> 1..Len(lh)]
  BY <1>2, Zenon
<1> HIDE DEF h
<1>4. IsFiniteSet(Bufs) /\ Cardinality(Bufs) = NBUF
  BY IntervalLemma, NBUFAssumption, ZenonT(60) DEF Bufs
<1>5. IsFiniteSet(1..Len(lh)) /\ Cardinality(1..Len(lh)) = Len(lh)
  BY <1>1, IntervalLemma, ZenonT(60)
<1>6. Len(lh) < NBUF
  BY <1>1, NBUFAssumption, LimitAssumption, SMTT(60) DEF Roomy
<1>7. \E u, v \in Bufs : u # v /\ h[u] = h[v]
  BY <1>3, <1>4, <1>5, <1>6, FS_PigeonHole, ZenonT(60)
<1> QED  BY <1>2, <1>7, Zenon

\* Outside log_write, what is pinned is what is logged.
LEMMA PinnedLogged ==
  ASSUME SingleProc, IInv, NEW t \in Threads, Current(t), pc[t] # "log_write"
  PROVE  \A v \in Bufs : Dirty(bc, v) => bc.buf[v].blockno \in Elems(lh)
<1>0. TypeOK /\ LogInv
  BY ZenonT(60) DEF IInv
<1>1. PhaseInv(t) /\ TypeOK
  BY <1>0, Zenon DEF LogInv
<1>2. pc[t] \in Labels /\ tail[t] \in Nat /\ DOMAIN lh = 1..Len(lh) /\ Len(lh) \in Nat
  BY <1>1 DEF TypeOK
<1>3. CASE pc[t] = "install_trans"
  <2>1. (tail[t] + 1)..Len(lh) \subseteq 1..Len(lh)
    BY <1>2, SMTT(60)
  <2>2. \A v \in Bufs : Dirty(bc, v) =>
          \E i \in (tail[t] + 1)..Len(lh) : bc.buf[v].blockno = lh[i]
    BY <1>1, <1>3, Zenon DEF PhaseInv
  <2> QED  BY <1>2, <2>1, <2>2, Zenon DEF Elems
<1>4. CASE pc[t] \in {"initlog", "read_head", "clear", "erase"}
  BY <1>1, <1>4, Zenon DEF PhaseInv, NothingPinned
<1>5. CASE pc[t] \in {"idle", "op", "write_log", "write_head"}
  BY <1>1, <1>5, Zenon DEF PhaseInv, PinnedInv
<1> QED  BY <1>2, <1>3, <1>4, <1>5, Zenon DEF Labels

\* bget finds a buffer when nothing but the log pins one.
LEMMA BufferLeft ==
  ASSUME SingleProc, Roomy, IInv, SizeInv, NEW t \in Threads, Current(t),
         pc[t] # "log_write", NEW b
  PROVE  ~NoBuffers(bc, b)
<1> SUFFICES ASSUME NoBuffers(bc, b) PROVE FALSE
  BY ZenonT(60)
<1> DEFINE f == [v \in Bufs |-> bc.buf[v].blockno]
<1>1. TypeOK /\ LogInv /\ CacheInv /\ NoneHeld
  BY NoneHeldLemma, Zenon DEF IInv, LogInv
<1>2. \A v \in Bufs : Dirty(bc, v)
  BY <1>1, Zenon DEF NoBuffers, Unused, CacheInv, NoneHeld
<1>3. \A v \in Bufs : f[v] \in Elems(lh)
  BY <1>2, PinnedLogged, Zenon
<1>4. \E u, v \in Bufs : u # v /\ f[u] = f[v]
  <2> HIDE DEF f
  <2> QED  BY <1>1, <1>3, TwoBuffers, Zenon DEF SizeInv
<1>5. \A v \in Bufs : bc.buf[v].blockno # NoBlock
  <2>1. \A v \in Bufs : bc.buf[v].blockno \in Home
    BY <1>1, <1>2, Zenon DEF CacheInv
  <2> QED  BY <2>1, LayoutLemma, Zenon
<1> QED  BY <1>1, <1>4, <1>5, Zenon DEF CacheInv

\* write_log finds the changed block in the cache: it is pinned.
LEMMA WriteLogFinds ==
  ASSUME SingleProc, IInv, NEW t \in Threads, Current(t), pc[t] = "write_log",
         tail[t] < Len(lh), NEW to \in Bufs, Bget(bc, LogStart + tail[t] + 1, to)
  PROVE  ~NoBuffers(bread(bc, LogStart + tail[t] + 1, to), lh[tail[t] + 1])
<1> DEFINE k == tail[t] + 1
           to_b == LogStart + tail[t] + 1
           c == bread(bc, to_b, to)
<1>1. TypeOK /\ LogInv /\ CacheInv /\ PinnedInv /\ LhInv
  BY Zenon DEF IInv, LogInv, PhaseInv
<1>2. /\ tail[t] \in Nat /\ Len(lh) \in Nat /\ DOMAIN lh = 1..Len(lh)
      /\ lh \in Seq(Home)
  BY <1>1 DEF TypeOK
<1>3. k \in 1..Len(lh) /\ k \in 1..(nlog - 1) /\ to_b = LogStart + k
  <2>1. Len(lh) <= nlog - 1
    BY <1>1, ZenonT(60) DEF LhInv
  <2> QED  BY <1>2, <2>1, LayoutAssumption, SMTT(60)
<1>4. lh[k] \in Elems(lh) /\ lh[k] \in Home
  <2> HIDE DEF k
  <2>1. lh[k] \in Home
    BY <1>2, <1>3, SMTT(60)
  <2> QED  BY <1>2, <1>3, <2>1, Zenon DEF Elems
<1>5. to_b \in BlockNo /\ to_b \notin Home
  <2> HIDE DEF k, to_b
  <2> QED  BY <1>3, LayoutLemma, Zenon
<1>6. PICK v \in Bufs : bc.buf[v].blockno = lh[k] /\ Dirty(bc, v)
  BY <1>1, <1>4, Zenon DEF PinnedInv
<1> HIDE DEF to_b
<1>7. BreadOf(bc, to_b, to, c)
  <2>1. Bget(bc, to_b, to)
    BY ZenonT(60) DEF to_b
  <2> QED  BY <1>1, <1>5, <2>1, BreadLemma, SaneLemma, Zenon
<1> HIDE DEF c
<1>8. v # to
  BY <1>4, <1>5, <1>6, <1>7, Zenon DEF BreadOf, Unused
<1>9. c.buf[v].blockno = lh[k]
  BY <1>6, <1>7, <1>8, Zenon DEF BreadOf
<1>10. ~NoBuffers(c, lh[k])
  BY <1>9, Zenon DEF NoBuffers, Cached
<1> QED  BY <1>10, Zenon DEF c, to_b, k

\* install_trans finds a buffer for the home block beside the one of the log block.
LEMMA InstallFinds ==
  ASSUME SingleProc, Roomy, IInv, SizeInv, NEW t \in Threads, Current(t),
         pc[t] = "install_trans", tail[t] < Len(lh), NEW l \in Bufs,
         Bget(bc, LogStart + tail[t] + 1, l)
  PROVE  ~NoBuffers(bread(bc, LogStart + tail[t] + 1, l), lh[tail[t] + 1])
<1> DEFINE k == tail[t] + 1
           l_b == LogStart + tail[t] + 1
           c == bread(bc, l_b, l)
           f == [v \in Bufs |-> IF v = l THEN lh[k] ELSE bc.buf[v].blockno]
<1>1. TypeOK /\ LogInv /\ CacheInv /\ LhInv /\ NoneHeld
  <2>1. pc[t] # "log_write"
    BY ZenonT(60)
  <2> QED  BY <2>1, NoneHeldLemma, Zenon DEF IInv, LogInv
<1>2. /\ tail[t] \in Nat /\ Len(lh) \in Nat /\ DOMAIN lh = 1..Len(lh)
      /\ lh \in Seq(Home)
  BY <1>1 DEF TypeOK
<1>3. k \in 1..Len(lh) /\ k \in 1..(nlog - 1) /\ l_b = LogStart + k
  <2>1. Len(lh) <= nlog - 1
    BY <1>1, ZenonT(60) DEF LhInv
  <2> QED  BY <1>2, <2>1, LayoutAssumption, SMTT(60)
<1>4. lh[k] \in Elems(lh)
  <2> HIDE DEF k
  <2> QED  BY <1>2, <1>3, Zenon DEF Elems
<1>5. l_b \in BlockNo
  <2> HIDE DEF k, l_b
  <2> QED  BY <1>3, LayoutLemma, Zenon
<1> HIDE DEF l_b
<1>6. BreadOf(bc, l_b, l, c)
  <2>1. Bget(bc, l_b, l)
    BY ZenonT(60) DEF l_b
  <2> QED  BY <1>1, <1>5, <2>1, BreadLemma, SaneLemma, Zenon
<1> HIDE DEF c, k
<1>7. ~NoBuffers(c, lh[k])
  <2> SUFFICES ASSUME NoBuffers(c, lh[k]) PROVE FALSE
    BY ZenonT(60)
  <2>1. \A v \in Bufs : v # l => c.buf[v] = bc.buf[v] /\ Dirty(bc, v)
                                 /\ bc.buf[v].blockno # lh[k]
    <3> SUFFICES ASSUME NEW v \in Bufs, v # l
                 PROVE  c.buf[v] = bc.buf[v] /\ Dirty(bc, v) /\ bc.buf[v].blockno # lh[k]
      BY ZenonT(60)
    <3>1. c.buf[v] = bc.buf[v]
      BY <1>6, Zenon DEF BreadOf
    <3>2. bc.buf[v].refcnt = 0
      BY <1>1, Zenon DEF CacheInv, NoneHeld
    <3> QED  BY <3>1, <3>2, Zenon DEF NoBuffers, Cached, Unused, Dirty
  <2>2. \A v \in Bufs : v # l => bc.buf[v].blockno \in Elems(lh) /\ bc.buf[v].blockno # NoBlock
    <3>1. pc[t] # "log_write"
      BY ZenonT(60)
    <3>2. \A v \in Bufs : v # l => bc.buf[v].blockno \in Elems(lh)
      BY <2>1, <3>1, PinnedLogged, Zenon
    <3>3. \A v \in Bufs : v # l => bc.buf[v].blockno \in Home
      BY <1>1, <2>1, Zenon DEF CacheInv
    <3> QED  BY <3>2, <3>3, LayoutLemma, Zenon
  <2>3. \A v \in Bufs : f[v] = IF v = l THEN lh[k] ELSE bc.buf[v].blockno
    BY Zenon
  <2> HIDE DEF f
  <2>4. \A v \in Bufs : f[v] \in Elems(lh)
    BY <1>4, <2>2, <2>3, Zenon
  <2>5. PICK u \in Bufs, v \in Bufs : u # v /\ f[u] = f[v]
    BY <1>1, <2>4, TwoBuffers, Zenon DEF SizeInv
  <2>6. u # l /\ v # l
    BY <2>1, <2>3, <2>5, Zenon
  <2>7. bc.buf[u].blockno = bc.buf[v].blockno
    BY <2>3, <2>5, <2>6, Zenon
  <2> QED  BY <1>1, <2>2, <2>5, <2>6, <2>7, Zenon DEF CacheInv
<1> QED  BY <1>7, Zenon DEF c, l_b, k
\* A sequence without repetition is no longer than a set that has its elements.
LEMMA LengthBound ==
  ASSUME NEW s \in Seq(Home), NoRepeat(s), NEW W, IsFiniteSet(W), Elems(s) \subseteq W
  PROVE  Len(s) <= Cardinality(W)
<1>1. Len(s) \in Nat /\ DOMAIN s = 1..Len(s) /\ s = [i \in 1..Len(s) |-> s[i]]
  OBVIOUS
<1>2. Cardinality(W) \in Nat
  BY FS_CardinalityType, ZenonT(60)
<1> SUFFICES ASSUME Cardinality(W) < Len(s) PROVE FALSE
  BY <1>1, <1>2, SMTT(60)
<1>3. \A i \in 1..Len(s) : s[i] \in W
  BY <1>1, Zenon DEF Elems
<1>4. s \in [1..Len(s) -> W]
  BY <1>1, <1>3, Zenon
<1>5. IsFiniteSet(1..Len(s)) /\ Cardinality(1..Len(s)) = Len(s)
  BY <1>1, IntervalLemma, ZenonT(60)
<1>6. \E i, j \in 1..Len(s) : i # j /\ s[i] = s[j]
  BY <1>4, <1>5, FS_PigeonHole, ZenonT(60)
<1> QED  BY <1>1, <1>6, Zenon DEF NoRepeat

\* Recovery and commit meet no panic.
LEMMA LogStepCalm ==
  ASSUME SingleProc, Roomy, IInv, SizeInv, NEW t \in Threads, LogStep(t)
  PROVE  ~panicked'
<1>1. Running(t) /\ Current(t) /\ pc[t] # "log_write" /\ ~panicked
  <2>1. /\ Running(t)
        /\ pc[t] \in {"initlog", "read_head", "write_log", "write_head", "install_trans",
                     "clear", "erase"}
    BY Zenon DEF LogStep, initlog, read_head, write_log, write_head, install_trans,
       clear, erase
  <2> QED  BY <2>1, ZenonT(60) DEF Running, Current
<1>2. \A b : ~NoBuffers(bc, b)
  BY <1>1, BufferLeft, Zenon
<1>3. CASE initlog(t) \/ read_head(t)
  BY <1>1, <1>2, <1>3, Zenon DEF initlog, read_head
<1>4. CASE write_log(t)
  <2>1. pc[t] = "write_log"
    BY <1>4, Zenon DEF write_log
  <2>2. \A to \in Bufs : tail[t] < Len(lh) /\ Bget(bc, LogStart + tail[t] + 1, to) =>
          ~NoBuffers(bread(bc, LogStart + tail[t] + 1, to), lh[tail[t] + 1])
    BY <1>1, <2>1, WriteLogFinds, Zenon
  <2> QED  BY <1>1, <1>2, <1>4, <2>2, Zenon DEF write_log
<1>5. CASE install_trans(t)
  <2>1. pc[t] = "install_trans"
    BY <1>5, Zenon DEF install_trans
  <2>2. \A l \in Bufs : tail[t] < Len(lh) /\ Bget(bc, LogStart + tail[t] + 1, l) =>
          ~NoBuffers(bread(bc, LogStart + tail[t] + 1, l), lh[tail[t] + 1])
    BY <1>1, <2>1, InstallFinds, Zenon
  <2> QED  BY <1>1, <1>2, <1>5, <2>2, Zenon DEF install_trans
<1>6. CASE write_head(t) \/ clear(t) \/ erase(t)
  BY <1>1, <1>2, <1>6, Zenon DEF write_head, clear, erase
<1> QED  BY <1>3, <1>4, <1>5, <1>6, Zenon DEF LogStep

\* The operation meets no panic either: its log has room for what it may write.
LEMMA OpStepCalm ==
  ASSUME SingleProc, Roomy, IInv, SizeInv, NEW t \in Threads, OpStep(t)
  PROVE  ~panicked'
<1>1. CASE begin_op(t) \/ end_op(t)
  BY <1>1, Zenon DEF begin_op, end_op, Running
<1>2. CASE log_write(t)
  <2>1. ~(Len(lh) >= LOGSIZE \/ Len(lh) >= nlog - 1)
    <3>1. Len(lh) \in Nat /\ Len(lh) <= MAXOPBLOCKS
      <4>1. lh \in Seq(Home)
        BY ZenonT(60) DEF IInv, TypeOK
      <4> QED  BY <4>1 DEF SizeInv
    <3> QED  BY <3>1, LimitAssumption, LayoutAssumption, SMTT(60) DEF Roomy
  <2> QED  BY <1>2, <2>1, Zenon DEF log_write, Running
<1>3. ASSUME NEW b, Running(t), pc[t] = "op" PROVE ~NoBuffers(bc, b)
  <2>1. pc[t] # "log_write" /\ Current(t)
    BY <1>3, ZenonT(60) DEF Running, Current
  <2> QED  BY <2>1, BufferLeft, Zenon
<1>4. ASSUME NEW b \in Home, readi(t, b) PROVE ~panicked'
  <2>1. ~NoBuffers(bc, b)
    BY <1>3, <1>4, Zenon DEF readi
  <2> QED  BY <1>4, <2>1, Zenon DEF readi, Running
<1>5. ASSUME NEW b \in Home, NEW x \in Val, modify(t, b, x) PROVE ~panicked'
  <2>1. ~NoBuffers(bc, b)
    BY <1>3, <1>5, Zenon DEF modify
  <2> QED  BY <1>5, <2>1, Zenon DEF modify, Running
<1> QED  BY <1>1, <1>2, <1>4, <1>5, Zenon DEF OpStep

\* A step that leaves no thread in an operation only has to keep the headers short.
LEMMA SizeQuiet ==
  ASSUME SingleProc, IInv, SizeInv, NEW t \in Threads, Current(t),
         pc'[t] \notin {"op", "log_write"},
         \A u \in Threads : u # t => pc'[u] = pc[u],
         \A u \in Threads : wrote'[u] = wrote[u] \/ wrote'[u] = {},
         Len(lh') <= MAXOPBLOCKS, Len(disk'[LogStart]) <= MAXOPBLOCKS
  PROVE  SizeInv'
<1>1. \A u \in Threads : pc'[u] \notin {"op", "log_write"}
  <2>1. \A u \in Threads : u # t => pc[u] = "idle"
    BY OneCurrent, Zenon DEF IInv, LogInv
  <2> QED  BY <2>1, ZenonT(60)
<1>2. IsFiniteSet({}) /\ Cardinality({}) <= MAXOPBLOCKS
  BY FS_EmptySet, LimitAssumption, SMTT(60)
<1>3. \A u \in Threads : IsFiniteSet(wrote'[u]) /\ Cardinality(wrote'[u]) <= MAXOPBLOCKS
  BY <1>2, Zenon DEF SizeInv
<1> QED  BY <1>1, <1>3, Zenon DEF SizeInv
\* What recovery and commit do to the header in memory and on the disk.
LEMMA LogStepHeads ==
  ASSUME SingleProc, Roomy, IInv, SizeInv, NEW t \in Threads, LogStep(t)
  PROVE  /\ \/ lh' = lh /\ disk'[LogStart] \in {disk[LogStart], lh, <<>>}
            \/ lh' = <<>> /\ disk' = disk
            \/ lh' = disk[LogStart] /\ disk' = disk
         /\ pc'[t] \notin {"op", "log_write"}
         /\ \A u \in Threads : u # t => pc'[u] = pc[u]
         /\ wrote' = wrote
<1>1. ~panic
  BY LogStepCalm, Zenon DEF panic
<1>2. Running(t) /\ Current(t) /\ TypeOK
  <2>1. Running(t)
    BY Zenon DEF LogStep, initlog, read_head, write_log, write_head, install_trans,
       clear, erase
  <2> QED  BY <2>1, ZenonT(60) DEF Running, Current, IInv
<1>3. IInv'
  <2>1. Next
    BY Zenon DEF Next
  <2> QED  BY <2>1, NextIInv, Zenon
<1>4. started' = started => PhaseInv(t)'
  <2>1. LogInv'
    BY <1>3, Zenon DEF IInv
  <2>2. started' = started => Current(t)'
    BY <1>2, SMTT(60) DEF Current
  <2> QED  BY <2>1, <2>2, Zenon DEF LogInv
<1>5. CASE initlog(t)
  <2>1. UNCHANGED <<lh, disk, wrote>> /\ pc' = [pc EXCEPT ![t] = "read_head"]
    BY <1>1, <1>5, Zenon DEF initlog, Goto
  <2> QED  BY <1>2, <2>1, ZenonT(60) DEF TypeOK
<1>6. CASE read_head(t)
  <2>1. UNCHANGED <<disk, wrote, started>> /\ pc' = [pc EXCEPT ![t] = "install_trans"]
    BY <1>1, <1>6, Zenon DEF read_head, Goto
  <2>2. pc'[t] = "install_trans" /\ \A u \in Threads : u # t => pc'[u] = pc[u]
    BY <1>2, <2>1, ZenonT(60) DEF TypeOK
  <2>3. lh' = disk[LogStart]
    BY <1>4, <2>1, <2>2, Zenon DEF PhaseInv
  <2> QED  BY <2>1, <2>2, <2>3, ZenonT(60)
<1>7. CASE write_log(t)
  <2>1. /\ UNCHANGED <<lh, wrote, started>>
        /\ pc[t] = "write_log"
        /\ pc' = pc \/ pc' = [pc EXCEPT ![t] = "write_head"]
    BY <1>1, <1>7, Zenon DEF write_log, Goto
  <2>2. /\ pc'[t] \in {"write_log", "write_head"}
        /\ \A u \in Threads : u # t => pc'[u] = pc[u]
    BY <1>2, <2>1, ZenonT(60) DEF TypeOK
  <2>3. disk'[LogStart] = <<>>
    BY <1>4, <2>1, <2>2, Zenon DEF PhaseInv, PinnedInv
  <2> QED  BY <2>1, <2>2, <2>3, ZenonT(60)
<1>8. CASE write_head(t)
  <2>1. UNCHANGED <<lh, wrote, started>> /\ pc' = [pc EXCEPT ![t] = "install_trans"]
    BY <1>1, <1>8, Zenon DEF write_head, Goto
  <2>2. pc'[t] = "install_trans" /\ \A u \in Threads : u # t => pc'[u] = pc[u]
    BY <1>2, <2>1, ZenonT(60) DEF TypeOK
  <2>3. disk'[LogStart] = lh
    BY <1>4, <2>1, <2>2, Zenon DEF PhaseInv
  <2> QED  BY <2>1, <2>2, <2>3, ZenonT(60)
<1>9. CASE install_trans(t)
  <2>1. /\ UNCHANGED <<lh, wrote, started>>
        /\ pc[t] = "install_trans"
        /\ pc' = pc \/ pc' = [pc EXCEPT ![t] = "clear"]
    BY <1>1, <1>9, Zenon DEF install_trans, Goto
  <2>2. /\ pc'[t] \in {"install_trans", "clear"}
        /\ \A u \in Threads : u # t => pc'[u] = pc[u]
    BY <1>2, <2>1, ZenonT(60) DEF TypeOK
  <2>3. disk'[LogStart] = lh
    BY <1>4, <2>1, <2>2, Zenon DEF PhaseInv
  <2> QED  BY <2>1, <2>2, <2>3, ZenonT(60)
<1>10. CASE clear(t)
  <2>1. lh' = <<>> /\ UNCHANGED <<disk, wrote>> /\ pc' = [pc EXCEPT ![t] = "erase"]
    BY <1>10, Zenon DEF clear, Goto
  <2> QED  BY <1>2, <2>1, ZenonT(60) DEF TypeOK
<1>11. CASE erase(t)
  <2>1. UNCHANGED <<lh, wrote, started>> /\ pc' = [pc EXCEPT ![t] = "idle"]
    BY <1>1, <1>11, Zenon DEF erase, Goto
  <2>2. pc'[t] = "idle" /\ \A u \in Threads : u # t => pc'[u] = pc[u]
    BY <1>2, <2>1, ZenonT(60) DEF TypeOK
  <2>3. disk'[LogStart] = <<>>
    BY <1>4, <2>1, <2>2, Zenon DEF PhaseInv, PinnedInv
  <2> QED  BY <2>1, <2>2, <2>3, ZenonT(60)
<1> QED
  BY <1>5, <1>6, <1>7, <1>8, <1>9, <1>10, <1>11, Zenon DEF LogStep

\* Recovery and commit keep the headers short.
LEMMA LogStepSize ==
  ASSUME SingleProc, Roomy, IInv, SizeInv, NEW t \in Threads, LogStep(t)
  PROVE  SizeInv'
<1>1. Len(<<>>) <= MAXOPBLOCKS
  BY LimitAssumption
<1>2. Len(lh') <= MAXOPBLOCKS /\ Len(disk'[LogStart]) <= MAXOPBLOCKS
  BY <1>1, LogStepHeads, Zenon DEF SizeInv
<1>3. Current(t)
  BY Zenon DEF LogStep, initlog, read_head, write_log, write_head, install_trans,
     clear, erase, Running, Current
<1>4. /\ pc'[t] \notin {"op", "log_write"}
      /\ \A u \in Threads : u # t => pc'[u] = pc[u]
      /\ wrote' = wrote
  BY LogStepHeads, Zenon
<1> QED  BY <1>2, <1>3, <1>4, SizeQuiet, Zenon

\* modify notes the block it changes, within the limit of its operation.
LEMMA ModifySize ==
  ASSUME SingleProc, Roomy, IInv, SizeInv, NEW t \in Threads, NEW b \in Home, NEW x \in Val,
         modify(t, b, x), ~panic
  PROVE  SizeInv'
<1>0. PICK v \in Bufs :
        /\ Bget(bc, b, v)
        /\ bc' = SetData(bread(bc, b, v), v, x)
        /\ held' = [held EXCEPT ![t] = v]
        /\ wrote' = [wrote EXCEPT ![t] = @ \cup {b}]
        /\ pc' = [pc EXCEPT ![t] = "log_write"]
        /\ UNCHANGED <<disk, lh, tail, started, panicked>>
  BY Zenon DEF modify, Goto
<1>1. /\ Current(t) /\ pc[t] = "op" /\ TypeOK /\ LogInv
      /\ Cardinality(wrote[t] \cup {b}) <= MAXOPBLOCKS
  BY Zenon DEF modify, Running, Current, IInv
<1>2. bc'.buf[v].blockno = b
  BY <1>0, <1>1, NoneHeldLemma, ModifyLemma, SMTT(60) DEF LogInv, ModifyOf
<1>3. /\ wrote'[t] = wrote[t] \cup {b} /\ held'[t] = v /\ lh' = lh /\ disk' = disk
      /\ \A u \in Threads : u # t => wrote'[u] = wrote[u] /\ pc'[u] = pc[u]
  BY <1>0, <1>1, ZenonT(60) DEF TypeOK
<1>4. IsFiniteSet(wrote[t] \cup {b}) /\ Elems(lh) \subseteq wrote[t]
  <2>1. IsFiniteSet(wrote[t]) /\ Elems(lh) \subseteq wrote[t]
    BY <1>1, Zenon DEF SizeInv
  <2> QED  BY <2>1, FS_AddElement, Zenon
<1>5. \A u \in Threads : u # t => pc'[u] = "idle"
  BY <1>1, <1>3, OneCurrent, Zenon DEF LogInv
<1>6. \A u \in Threads :
        /\ IsFiniteSet(wrote'[u]) /\ Cardinality(wrote'[u]) <= MAXOPBLOCKS
        /\ pc'[u] \in {"op", "log_write"} => Elems(lh') \subseteq wrote'[u]
        /\ pc'[u] = "log_write" => bc'.buf[held'[u]].blockno \in wrote'[u]
  <2> SUFFICES ASSUME NEW u \in Threads
               PROVE  /\ IsFiniteSet(wrote'[u]) /\ Cardinality(wrote'[u]) <= MAXOPBLOCKS
                      /\ pc'[u] \in {"op", "log_write"} => Elems(lh') \subseteq wrote'[u]
                      /\ pc'[u] = "log_write" => bc'.buf[held'[u]].blockno \in wrote'[u]
    BY ZenonT(60)
  <2>1. CASE u = t
    <3>1. Elems(lh) \subseteq wrote[t] \cup {b} /\ b \in wrote[t] \cup {b}
      BY <1>4, Zenon
    <3> QED  BY <1>1, <1>2, <1>3, <1>4, <2>1, <3>1, Zenon
  <2>2. CASE u # t
    <3>1. "idle" # "op" /\ "idle" # "log_write"
      BY ZenonT(60)
    <3> QED  BY <1>3, <1>5, <2>2, <3>1, Zenon DEF SizeInv
  <2> QED  BY <2>1, <2>2, Zenon
<1> QED  BY <1>3, <1>6, Zenon DEF SizeInv

\* log_write logs a block that its operation has changed, and none twice.
LEMMA LogWriteSize ==
  ASSUME SingleProc, Roomy, IInv, SizeInv, NEW t \in Threads, log_write(t), ~panic
  PROVE  SizeInv'
<1> DEFINE b == bc.buf[held[t]].blockno
<1>1. /\ Current(t) /\ pc[t] = "log_write" /\ TypeOK /\ LogInv
      /\ b \in wrote[t] /\ Elems(lh) \subseteq wrote[t] /\ IsFiniteSet(wrote[t])
      /\ Cardinality(wrote[t]) <= MAXOPBLOCKS
  BY Zenon DEF log_write, Running, Current, IInv, SizeInv
<1>2. /\ lh' = IF b \in Elems(lh) THEN lh ELSE Append(lh, b)
      /\ pc' = [pc EXCEPT ![t] = "op"]
      /\ wrote' = wrote /\ disk' = disk
  BY Zenon DEF log_write, Goto
<1> HIDE DEF b
<1>3. lh \in Seq(Home) /\ b \in Home
  <2>1. wrote[t] \subseteq Home /\ lh \in Seq(Home)
    BY <1>1, ZenonT(60) DEF TypeOK
  <2> QED  BY <1>1, <2>1, Zenon
<1>4. IInv'
  <2>1. Next
    BY Zenon DEF Next, OpStep
  <2> QED  BY <2>1, NextIInv, Zenon
<1>5. lh' \in Seq(Home) /\ NoRepeat(lh')
  BY <1>4, Zenon DEF IInv, TypeOK, LogInv, LhInv
<1>6. Elems(lh') \subseteq wrote[t]
  <2>1. CASE b \in Elems(lh)
    BY <1>1, <1>2, <2>1, Zenon
  <2>2. CASE b \notin Elems(lh)
    <3>1. lh' = Append(lh, b)
      BY <1>2, <2>2, Zenon
    <3>2. /\ DOMAIN lh = 1..Len(lh) /\ DOMAIN lh' = 1..(Len(lh) + 1) /\ Len(lh) \in Nat
          /\ \A i \in 1..Len(lh) : lh'[i] = lh[i]
          /\ lh'[Len(lh) + 1] = b
      BY <1>3, <3>1, SMTT(60)
    <3>3. Elems(lh') \subseteq Elems(lh) \cup {b}
      <4>1. \A i \in 1..(Len(lh) + 1) : i \in 1..Len(lh) \/ i = Len(lh) + 1
        BY <3>2, SMTT(60)
      <4> QED  BY <3>2, <4>1, Zenon DEF Elems
    <3> QED  BY <1>1, <3>3, Zenon
  <2> QED  BY <2>1, <2>2, ZenonT(60)
<1>7. Len(lh') <= MAXOPBLOCKS
  <2>1. Len(lh') <= Cardinality(wrote[t])
    BY <1>1, <1>5, <1>6, LengthBound, Zenon
  <2>2. Len(lh') \in Nat /\ Cardinality(wrote[t]) \in Nat
    <3>1. Cardinality(wrote[t]) \in Nat
      BY <1>1, FS_CardinalityType, Zenon
    <3> QED  BY <1>5, <3>1
  <2> QED  BY <1>1, <2>1, <2>2, LimitAssumption, SMTT(60)
<1>8. pc'[t] = "op" /\ \A u \in Threads : u # t => pc'[u] = pc[u]
  BY <1>1, <1>2, ZenonT(60) DEF TypeOK
<1>9. \A u \in Threads : u # t => pc'[u] = "idle"
  BY <1>1, <1>8, OneCurrent, Zenon DEF LogInv
<1>10. "idle" # "op" /\ "idle" # "log_write" /\ "op" # "log_write"
  BY ZenonT(60)
<1>11. \A u \in Threads :
         /\ pc'[u] \in {"op", "log_write"} => Elems(lh') \subseteq wrote'[u]
         /\ pc'[u] # "log_write"
  BY <1>2, <1>6, <1>8, <1>9, <1>10, Zenon
<1> QED  BY <1>2, <1>7, <1>11, Zenon DEF SizeInv
\* Every step keeps the transaction within what an operation may write.
LEMMA NextSize ==
  ASSUME SingleProc, Roomy, IInv, SizeInv, [Next]_vars
  PROVE  SizeInv'
<1>0. TypeOK /\ LogInv
  BY ZenonT(60) DEF IInv
<1>1. CASE UNCHANGED vars
  BY <1>1, Zenon DEF vars, SizeInv
<1>2. ASSUME NEW t \in Threads, begin_op(t) PROVE SizeInv'
  <2>1. /\ Current(t) /\ pc[t] = "idle" /\ pc' = [pc EXCEPT ![t] = "op"]
        /\ UNCHANGED <<disk, bc, lh, held, wrote>>
    BY <1>2, Zenon DEF begin_op, Running, Current, Goto
  <2>2. lh = <<>>
    BY <1>0, <2>1, Zenon DEF LogInv, PhaseInv
  <2>3. Elems(lh) = {}
    BY <2>2, SMTT(60) DEF Elems
  <2>4. \A u \in Threads : pc'[u] # "log_write" \/ pc[u] = "log_write"
    BY <1>0, <2>1, ZenonT(60) DEF TypeOK
  <2> QED  BY <2>1, <2>3, <2>4, Zenon DEF SizeInv
<1>3. ASSUME NEW t \in Threads, end_op(t) PROVE SizeInv'
  <2>1. /\ Current(t) /\ wrote' = [wrote EXCEPT ![t] = {}] /\ UNCHANGED <<disk, lh>>
        /\ pc' = [pc EXCEPT ![t] = IF Len(lh) > 0 THEN "write_log" ELSE "idle"]
    BY <1>3, Zenon DEF end_op, Running, Current, Goto
  <2>2. /\ pc'[t] \notin {"op", "log_write"}
        /\ \A u \in Threads : u # t => pc'[u] = pc[u]
        /\ \A u \in Threads : wrote'[u] = wrote[u] \/ wrote'[u] = {}
    BY <1>0, <2>1, ZenonT(60) DEF TypeOK
  <2>3. Len(lh') <= MAXOPBLOCKS /\ Len(disk'[LogStart]) <= MAXOPBLOCKS
    BY <2>1, Zenon DEF SizeInv
  <2> QED  BY <2>1, <2>2, <2>3, SizeQuiet, Zenon
<1>4. ASSUME NEW t \in Threads, NEW b \in Home, readi(t, b) PROVE SizeInv'
  <2>1. /\ Current(t) /\ pc[t] = "op" /\ UNCHANGED <<disk, lh, pc, wrote>>
    BY <1>4, Zenon DEF readi, Running, Current, panic
  <2>2. \A u \in Threads : pc[u] # "log_write"
    <3>1. \A u \in Threads : u # t => pc[u] = "idle"
      BY <1>0, <2>1, OneCurrent, Zenon DEF LogInv
    <3> QED  BY <2>1, <3>1, ZenonT(60)
  <2> QED  BY <2>1, <2>2, Zenon DEF SizeInv
<1>5. ASSUME NEW t \in Threads, OpStep(t) PROVE SizeInv'
  <2>1. ~panic
    BY <1>5, OpStepCalm, Zenon DEF panic
  <2> QED
    BY <1>2, <1>3, <1>4, <1>5, <2>1, ModifySize, LogWriteSize, Zenon DEF OpStep
<1>6. CASE scheduler
  BY <1>6, Zenon DEF scheduler, SizeInv
<1>7. CASE Crash
  <2>1. /\ lh' = <<>> /\ disk' = disk
        /\ pc' = [t \in Threads |-> IF t = Main THEN "initlog" ELSE "idle"]
        /\ wrote' = [t \in Threads |-> {}]
    BY <1>7, Zenon DEF Crash
  <2>2. \A u \in Threads : pc'[u] \notin {"op", "log_write"} /\ wrote'[u] = {}
    BY <2>1, ZenonT(60)
  <2>3. Len(<<>>) <= MAXOPBLOCKS
    BY LimitAssumption, SMTT(60)
  <2>4. IsFiniteSet({}) /\ Cardinality({}) <= MAXOPBLOCKS
    BY FS_EmptySet, LimitAssumption, SMTT(60)
  <2> QED  BY <2>1, <2>2, <2>3, <2>4, Zenon DEF SizeInv
<1> QED
  BY <1>1, <1>5, <1>6, <1>7, LogStepSize, Zenon DEF Next

\* The first boot finds an empty log.
LEMMA InitSize ==
  ASSUME Init
  PROVE  SizeInv
<1>1. lh = <<>> /\ disk[LogStart] = <<>>
  BY LayoutAssumption, LayoutLemma, ZenonT(60) DEF Init
<1>2. \A t \in Threads : pc[t] \notin {"op", "log_write"} /\ wrote[t] = {}
  BY ZenonT(60) DEF Init
<1>3. Len(<<>>) <= MAXOPBLOCKS
  BY LimitAssumption, SMTT(60)
<1>4. IsFiniteSet({}) /\ Cardinality({}) <= MAXOPBLOCKS
  BY FS_EmptySet, LimitAssumption, SMTT(60)
<1> QED  BY <1>1, <1>2, <1>3, <1>4, Zenon DEF SizeInv

\* With more buffers and more log blocks than an operation may change, neither an
\* operation, nor its commit, nor recovery after any crash panics with "bget: no
\* buffers" or "too big a transaction": the log pins at most MAXOPBLOCKS buffers,
\* write_log finds the changed blocks among them, and install_trans finds a buffer
\* for the home block beside the one of the log block.
THEOREM NoPanicCorrect ==
  ASSUME SingleProc, Roomy
  PROVE  Spec => []NoPanic
<1> DEFINE I == IInv /\ SizeInv /\ NoPanic
<1>1. Init => I
  BY InitIInv, InitSize, Zenon DEF Init, NoPanic
<1>2. I /\ [Next]_vars => I'
  <2> SUFFICES ASSUME I, [Next]_vars PROVE I'
    BY ZenonT(60)
  <2>1. IInv' /\ SizeInv'
    BY NextIInv, NextSize, Zenon
  <2>2. ~panicked'
    <3>1. CASE UNCHANGED vars
      BY <3>1, Zenon DEF vars, NoPanic
    <3>2. CASE scheduler
      BY <3>2, Zenon DEF scheduler, NoPanic
    <3>3. CASE Crash
      BY <3>3, Zenon DEF Crash
    <3> QED  BY <3>1, <3>2, <3>3, LogStepCalm, OpStepCalm, Zenon DEF Next
  <2> QED  BY <2>1, <2>2, Zenon DEF NoPanic
<1> QED  BY <1>1, <1>2, PTL DEF Spec
==============================================================================
