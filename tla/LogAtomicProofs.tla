--------------------------- MODULE LogAtomicProofs ---------------------------
(*****************************************************************************)
(* log.c implements atomic transactions (Log implements Transactions), when  *)
(* at most one process is in the file system: every step of the log is a     *)
(* step of the abstract specification, or changes nothing it can see.        *)
(*****************************************************************************)
EXTENDS LogProofs

\* What a bread returns, and where recovery will put it back.
Latest == IF Recovering THEN Recovered ELSE View

Operating == {"op", "log_write", "write_log", "write_head"}

Installing == {"install_trans", "clear", "erase"}

Booting == {"initlog", "read_head"}

\* Only main reads the header, and once the header is written, what a process
\* reads is what recovery would give.
RefInv ==
  \A t \in Threads :
    /\ pc[t] \in Booting => t = Main
    /\ started /\ pc[t] \in Installing => View = Recovered

\* NoneHeldLemma after a step.
LEMMA NoneHeldNext ==
  ASSUME SingleProc, IInv', NEW t \in Threads, Current(t)', pc'[t] # "log_write"
  PROVE  NoneHeld'
<1>1. \A u \in Threads : Current(u)' => u = t
  BY MainAssumption, ZenonT(60) DEF SingleProc, Current, Threads
<1>2. \A u \in Threads : ~Current(u)' => pc'[u] = "idle"
  BY ZenonT(60) DEF IInv, LogInv
<1> QED  BY <1>1, <1>2, ZenonT(60) DEF NoneHeld, Holds

\* What the current thread does is all that the abstract state depends on.
LEMMA PhaseLemma ==
  ASSUME SingleProc, IInv, NEW t \in Threads, Current(t)
  PROVE  /\ Recovering <=> ~started /\ pc[t] \in Booting \cup Installing
         /\ Active = IF pc[t] \in Operating THEN {t} ELSE {}
<1>1. \A u \in Threads : u # t => pc[u] = "idle"
  BY OneCurrent DEF IInv, LogInv
<1>2. ~started => t = Main
  BY DEF Current
<1>3. Recovering <=> ~started /\ pc[t] \in Booting \cup Installing
  BY <1>2, ZenonT(60) DEF Recovering, Booting, Installing
<1>4. Active = IF pc[t] \in Operating THEN {t} ELSE {}
  BY <1>1, ZenonT(60) DEF Active, Operating
<1> QED  BY <1>3, <1>4, ZenonT(60)

\* The same after a step.
LEMMA PhaseNext ==
  ASSUME SingleProc, IInv', NEW t \in Threads, Current(t)'
  PROVE  /\ Recovering' <=> ~started' /\ pc'[t] \in Booting \cup Installing
         /\ Active' = IF pc'[t] \in Operating THEN {t} ELSE {}
         /\ \A u \in Threads : u # t => pc'[u] = "idle"
<1>1. \A u \in Threads : u # t => pc'[u] = "idle"
  <2>1. \A u \in Threads : Current(u)' => u = t
    BY MainAssumption, ZenonT(60) DEF SingleProc, Current, Threads
  <2> QED  BY <2>1, ZenonT(60) DEF IInv, LogInv
<1>2. ~started' => t = Main
  BY ZenonT(60) DEF Current
<1>3. Recovering' <=> ~started' /\ pc'[t] \in Booting \cup Installing
  BY <1>2, ZenonT(60) DEF Recovering, Booting, Installing
<1>4. Active' = IF pc'[t] \in Operating THEN {t} ELSE {}
  BY <1>1, ZenonT(60) DEF Active, Operating
<1> QED  BY <1>1, <1>3, <1>4, ZenonT(60)

\* RefInv after a step needs to be shown of the current thread only.
LEMMA RefNext ==
  ASSUME SingleProc, IInv', NEW t \in Threads, Current(t)',
         pc'[t] \in Booting => t = Main,
         started' /\ pc'[t] \in Installing => View' = Recovered'
  PROVE  RefInv'
<1>1. \A u \in Threads : u # t => pc'[u] \notin Booting \cup Installing
  BY PhaseNext, ZenonT(60) DEF Booting, Installing
<1> QED  BY <1>1, ZenonT(60) DEF RefInv

\* A step that the abstract specification does not see.
LEMMA QuietLemma ==
  ASSUME SingleProc, IInv, IInv', RefInv, NEW t \in Threads, Current(t),
         started' = started,
         pc[t] \in Operating <=> pc'[t] \in Operating,
         pc[t] \in Booting \cup Installing <=> pc'[t] \in Booting \cup Installing,
         pc'[t] \in Booting => t = Main,
         Recovered' = Recovered,
         started \/ pc[t] \notin Booting \cup Installing => View' = View
  PROVE  RefInv' /\ T!vars' = T!vars
<1>1. Current(t)'
  BY ZenonT(60) DEF Current
<1>2. Active' = Active /\ (Recovering' <=> Recovering)
  BY <1>1, PhaseLemma, PhaseNext, ZenonT(60)
<1>3. Latest' = Latest
  BY <1>2, PhaseLemma, ZenonT(60) DEF Latest
<1>4. RefInv'
  <2>1. ASSUME started', pc'[t] \in Installing PROVE View' = Recovered'
    <3>1. started /\ t # Main
      BY <2>1, <1>1, ZenonT(60) DEF Current
    <3>2. pc[t] \in Installing
      BY <2>1, <3>1, ZenonT(60) DEF RefInv
    <3> QED  BY <3>1, <3>2, ZenonT(60) DEF RefInv
  <2> QED  BY <1>1, <2>1, RefNext, ZenonT(60)
<1> QED  BY <1>2, <1>3, <1>4, ZenonT(60) DEF T!vars, Latest

------------------------------------------------------------------------------
(* What recovery and bread make of a block.                                  *)

\* Recovered and View are functions of the home blocks.
LEMMA FunctionsLemma ==
  /\ Recovered = [b \in Home |-> Recovered[b]] /\ View = [b \in Home |-> View[b]]
  /\ Recovered' = [b \in Home |-> Recovered'[b]] /\ View' = [b \in Home |-> View'[b]]
<1>1. Recovered = [b \in Home |-> Recovered[b]]
  BY DEF Recovered
<1>2. View = [b \in Home |-> View[b]]
  BY DEF View
<1>3. Recovered' = [b \in Home |-> Recovered'[b]]
  BY DEF Recovered
<1>4. View' = [b \in Home |-> View'[b]]
  BY DEF View
<1> QED  BY <1>1, <1>2, <1>3, <1>4, Zenon

\* Two functions of the home blocks that agree everywhere are the same.
LEMMA SameFunction ==
  ASSUME NEW f, NEW g, f = [b \in Home |-> f[b]], g = [b \in Home |-> g[b]],
         \A b \in Home : f[b] = g[b]
  PROVE  f = g
<1>1. [b \in Home |-> f[b]] = [b \in Home |-> g[b]]
  BY ZenonT(60)
<1> QED  BY <1>1, Zenon

\* RecoveredLemma for any disk.
RecoveredOf(d, b) ==
  IF b \in Elems(d[LogStart])
  THEN d[LogStart + (CHOOSE i \in DOMAIN d[LogStart] : d[LogStart][i] = b)]
  ELSE d[b]

\* A step that leaves the disk alone leaves alone what is durable.
LEMMA SameDisk ==
  ASSUME disk' = disk
  PROVE  Recovered' = Recovered
<1>1. Recovered = [b \in Home |-> RecoveredOf(disk, b)]
  BY ZenonT(60) DEF Recovered, RecoveredOf
<1>2. Recovered' = [b \in Home |-> RecoveredOf(disk', b)]
  BY ZenonT(60) DEF Recovered, RecoveredOf
<1> QED  BY <1>1, <1>2, Zenon

\* No block is named twice in the header, so that its log block is the one the
\* header gives.
LEMMA RecoveredOfLemma ==
  ASSUME NEW d, NEW h, h = d[LogStart], h \in Seq(Home), NoRepeat(h)
  PROVE  /\ \A b \in Home \ Elems(h) : RecoveredOf(d, b) = d[b]
         /\ \A i \in 1..Len(h) : h[i] \in Home /\ RecoveredOf(d, h[i]) = d[LogStart + i]
<1>1. DOMAIN h = 1..Len(h)
  OBVIOUS
<1>2. ASSUME NEW i \in 1..Len(h)
      PROVE  h[i] \in Home /\ RecoveredOf(d, h[i]) = d[LogStart + i]
  <2>1. h[i] \in Elems(h)
    BY <1>1, ZenonT(60) DEF Elems
  <2>2. (CHOOSE j \in DOMAIN h : h[j] = h[i]) = i
    BY <1>1, ZenonT(60) DEF NoRepeat
  <2>3. RecoveredOf(d, h[i]) = d[LogStart + (CHOOSE j \in DOMAIN h : h[j] = h[i])]
    BY <2>1, Zenon DEF RecoveredOf
  <2>4. h[i] \in Home
    OBVIOUS
  <2> QED  BY <2>2, <2>3, <2>4, Zenon
<1> QED  BY <1>2, Zenon DEF RecoveredOf

\* What recovery makes of each home block.
LEMMA RecoveredLemma ==
  ASSUME DiskInv, NEW h, h = disk[LogStart]
  PROVE  /\ \A b \in Home \ Elems(h) : Recovered[b] = disk[b]
         /\ \A i \in 1..Len(h) : h[i] \in Home /\ Recovered[h[i]] = disk[LogStart + i]
<1>1. \A b \in Home : Recovered[b] = RecoveredOf(disk, b)
  BY Zenon DEF Recovered, RecoveredOf
<1>2. h \in Seq(Home) /\ NoRepeat(h)
  BY ZenonT(60) DEF DiskInv
<1>3. /\ \A b \in Home \ Elems(h) : RecoveredOf(disk, b) = disk[b]
      /\ \A i \in 1..Len(h) : h[i] \in Home /\ RecoveredOf(disk, h[i]) = disk[LogStart + i]
  BY <1>2, RecoveredOfLemma, Zenon
<1> QED  BY <1>1, <1>3, Zenon

\* The same after a step.
LEMMA RecoveredNext ==
  ASSUME DiskInv', NEW h, h = disk'[LogStart]
  PROVE  /\ \A b \in Home \ Elems(h) : Recovered'[b] = disk'[b]
         /\ \A i \in 1..Len(h) : h[i] \in Home /\ Recovered'[h[i]] = disk'[LogStart + i]
<1>1. \A b \in Home : Recovered'[b] = RecoveredOf(disk', b)
  BY Zenon DEF Recovered, RecoveredOf
<1>2. h \in Seq(Home) /\ NoRepeat(h)
  BY ZenonT(60) DEF DiskInv
<1>3. /\ \A b \in Home \ Elems(h) : RecoveredOf(disk', b) = disk'[b]
      /\ \A i \in 1..Len(h) : h[i] \in Home /\ RecoveredOf(disk', h[i]) = disk'[LogStart + i]
  BY <1>2, RecoveredOfLemma, Zenon
<1> QED  BY <1>1, <1>3, Zenon

\* With an empty header, recovery changes nothing.
LEMMA EmptyHeader ==
  ASSUME DiskInv, disk[LogStart] = <<>>
  PROVE  \A b \in Home : Recovered[b] = disk[b]
<1>1. Elems(<<>>) = {}
  BY DEF Elems
<1> QED  BY <1>1, RecoveredLemma, ZenonT(60)

\* What bread returns for b with the cache c and the disk d.
ViewOf(c, d, b) ==
  IF Cached(c, b) THEN c.buf[CHOOSE v \in Bufs : c.buf[v].blockno = b].data ELSE d[b]

\* A step that leaves the cache and the disk alone leaves alone what bread returns.
LEMMA SameCache ==
  ASSUME disk' = disk, bc' = bc
  PROVE  View' = View
<1>1. View = [b \in Home |-> ViewOf(bc, disk, b)]
  BY ZenonT(60) DEF View, ViewOf
<1>2. View' = [b \in Home |-> ViewOf(bc', disk', b)]
  BY ZenonT(60) DEF View, ViewOf
<1> QED  BY <1>1, <1>2, Zenon

\* What bread returns for a cached block is in its only buffer; a block with no
\* pinned and no held buffer is as on the disk.
LEMMA ViewLemma ==
  ASSUME CacheInv, NEW b \in Home
  PROVE  /\ \A v \in Bufs : bc.buf[v].blockno = b => View[b] = bc.buf[v].data
         /\ (\A v \in Bufs : bc.buf[v].blockno = b => ~Dirty(bc, v) /\ ~Holds(v))
              => View[b] = disk[b]
<1>1. b # NoBlock
  BY LayoutLemma, ZenonT(60)
<1>2. View[b] = IF Cached(bc, b) THEN bc.buf[CHOOSE v \in Bufs : bc.buf[v].blockno = b].data
                ELSE disk[b]
  BY Zenon DEF View
<1>3. OneCopy /\ \A v \in Bufs : CellInv(v)
  BY CellLemma, ZenonT(60)
<1>4. ASSUME NEW v \in Bufs, bc.buf[v].blockno = b PROVE View[b] = bc.buf[v].data
  <2>1. (CHOOSE u \in Bufs : bc.buf[u].blockno = b) = v
    BY <1>1, <1>3, <1>4, ZenonT(60) DEF OneCopy
  <2> QED  BY <1>2, <1>4, <2>1, Zenon DEF Cached
<1>5. ASSUME \A v \in Bufs : bc.buf[v].blockno = b => ~Dirty(bc, v) /\ ~Holds(v)
      PROVE  View[b] = disk[b]
  BY <1>1, <1>2, <1>3, <1>4, <1>5, Zenon DEF Cached, CellInv
<1> QED  BY <1>4, <1>5, ZenonT(60)

\* The same after a step.
LEMMA ViewNext ==
  ASSUME CacheInv', NEW b \in Home
  PROVE  /\ \A v \in Bufs : bc'.buf[v].blockno = b => View'[b] = bc'.buf[v].data
         /\ (\A v \in Bufs : bc'.buf[v].blockno = b => ~Dirty(bc', v) /\ ~Holds(v)')
              => View'[b] = disk'[b]
<1>1. b # NoBlock
  BY LayoutLemma, ZenonT(60)
<1>2. View'[b] = IF Cached(bc', b)
                 THEN bc'.buf[CHOOSE v \in Bufs : bc'.buf[v].blockno = b].data
                 ELSE disk'[b]
  BY Zenon DEF View
<1>3. OneCopy' /\ \A v \in Bufs : CellInv(v)'
  BY CellLemmaNext, ZenonT(60)
<1>4. ASSUME NEW v \in Bufs, bc'.buf[v].blockno = b PROVE View'[b] = bc'.buf[v].data
  <2>1. (CHOOSE u \in Bufs : bc'.buf[u].blockno = b) = v
    BY <1>1, <1>3, <1>4, ZenonT(60) DEF OneCopy
  <2> QED  BY <1>2, <1>4, <2>1, Zenon DEF Cached
<1>5. ASSUME \A v \in Bufs : bc'.buf[v].blockno = b => ~Dirty(bc', v) /\ ~Holds(v)'
      PROVE  View'[b] = disk'[b]
  BY <1>1, <1>2, <1>3, <1>4, <1>5, Zenon DEF Cached, CellInv
<1> QED  BY <1>4, <1>5, ZenonT(60)

\* A step that leaves the pinned buffers and the home blocks alone.
LEMMA SameView ==
  ASSUME CacheInv, CacheInv', NoneHeld, NoneHeld',
         \A v \in Bufs : /\ Dirty(bc', v) <=> Dirty(bc, v)
                         /\ Dirty(bc, v) => bc'.buf[v] = bc.buf[v],
         \A b \in Home : disk'[b] = disk[b]
  PROVE  View' = View
<1>1. ASSUME NEW b \in Home PROVE View'[b] = View[b]
  <2>1. CASE \E v \in Bufs : bc.buf[v].blockno = b /\ Dirty(bc, v)
    <3>1. PICK v \in Bufs : bc.buf[v].blockno = b /\ Dirty(bc, v)
      BY <2>1, ZenonT(60)
    <3>2. bc'.buf[v] = bc.buf[v]
      BY <3>1, ZenonT(60)
    <3>3. View[b] = bc.buf[v].data
      BY <3>1, ViewLemma, Zenon
    <3>4. bc'.buf[v].blockno = b
      BY <3>1, <3>2, ZenonT(60)
    <3>5. View'[b] = bc'.buf[v].data
      BY <3>4, ViewNext, Zenon
    <3> QED  BY <3>2, <3>3, <3>5, ZenonT(60)
  <2>2. CASE \A v \in Bufs : bc.buf[v].blockno = b => ~Dirty(bc, v)
    <3>1. View[b] = disk[b]
      BY <2>2, ViewLemma, Zenon DEF NoneHeld
    <3>2. \A v \in Bufs : bc'.buf[v].blockno = b => ~Dirty(bc', v)
      BY <2>2, Zenon
    <3>3. View'[b] = disk'[b]
      BY <3>2, ViewNext, Zenon DEF NoneHeld
    <3> QED  BY <3>1, <3>3, ZenonT(60)
  <2> QED  BY <2>1, <2>2, ZenonT(60)
<1> QED  BY <1>1, FunctionsLemma, SameFunction, Zenon

------------------------------------------------------------------------------
(* Boot, crashes and operations.                                             *)

\* A step that changes neither the disk, the cache nor the threads.
LEMMA UnchangedRef ==
  ASSUME RefInv, UNCHANGED <<disk, bc, pc, started>>
  PROVE  RefInv' /\ T!vars' = T!vars
<1>1. Recovered' = Recovered /\ View' = View
  BY SameDisk, SameCache
<1>2. Recovering' = Recovering /\ Active' = Active
  BY Zenon DEF Recovering, Active
<1> QED  BY <1>1, <1>2, Zenon DEF RefInv, T!vars

\* A crash at any point takes the callers back to what was durable.
LEMMA CrashRef ==
  ASSUME Crash
  PROVE  RefInv' /\ T!Crash
<1>1. /\ disk' = disk /\ started' = FALSE
      /\ pc' = [t \in Threads |-> IF t = Main THEN "initlog" ELSE "idle"]
  BY ZenonT(60) DEF Crash
<1>2. Recovered' = Recovered
  BY <1>1, SameDisk, ZenonT(60)
<1>3. Recovering' /\ Active' = {}
  BY <1>1, ZenonT(60) DEF Recovering, Active, Threads
<1>4. RefInv'
  BY <1>1 DEF RefInv, Booting, Installing
<1> QED  BY <1>2, <1>3, <1>4, Zenon DEF T!Crash

\* Reading the superblock and the header is part of recovery.
LEMMA BootRef ==
  ASSUME SingleProc, IInv, IInv', RefInv, NEW t \in Threads,
         initlog(t) \/ read_head(t)
  PROVE  RefInv' /\ T!vars' = T!vars
<1>1. CASE panic
  BY <1>1, UnchangedRef, ZenonT(60) DEF panic
<1>2. CASE ~panic
  <2>1. /\ pc[t] \in Booting /\ Current(t) /\ disk' = disk /\ started' = started
        /\ \/ pc' = [pc EXCEPT ![t] = "read_head"]
           \/ pc' = [pc EXCEPT ![t] = "install_trans"]
    BY <1>2, Zenon DEF initlog, read_head, Running, Current, Goto, Booting
  <2>2. pc'[t] \in {"read_head", "install_trans"}
    BY <2>1, ZenonT(60) DEF IInv, TypeOK
  <2>3. t = Main /\ ~started
    BY <2>1, ZenonT(60) DEF RefInv, Current, IInv, TypeOK
  <2>4. Recovered' = Recovered
    BY <2>1, SameDisk
  <2> QED  BY <2>1, <2>2, <2>3, <2>4, QuietLemma, ZenonT(60) DEF Booting, Installing, Operating
<1> QED  BY <1>1, <1>2

\* begin_op begins a transaction.
LEMMA BeginRef ==
  ASSUME SingleProc, IInv, IInv', NEW t \in Threads, begin_op(t)
  PROVE  RefInv' /\ T!Begin(t)
<1>1. /\ pc[t] = "idle" /\ Current(t) /\ pc' = [pc EXCEPT ![t] = "op"]
      /\ UNCHANGED <<disk, bc, started>>
  BY ZenonT(60) DEF begin_op, Running, Current, Goto
<1>2. pc'[t] = "op" /\ Current(t)'
  BY <1>1, ZenonT(60) DEF IInv, TypeOK, Current
<1>3. Recovered' = Recovered /\ View' = View
  BY <1>1, SameDisk, SameCache, ZenonT(60)
<1>4. ~Recovering /\ Active = {} /\ ~Recovering' /\ Active' = {t}
  BY <1>1, <1>2, PhaseLemma, PhaseNext, ZenonT(60) DEF Booting, Installing, Operating
<1>5. RefInv'
  BY <1>2, RefNext, ZenonT(60) DEF Booting, Installing
<1>6. T!Begin(t)
  BY <1>3, <1>4, Zenon DEF T!Begin
<1> QED  BY <1>5, <1>6

\* A read changes nothing that a caller can see.
LEMMA ReadiRef ==
  ASSUME SingleProc, IInv, IInv', RefInv, NEW t \in Threads, NEW b \in Home, readi(t, b)
  PROVE  RefInv' /\ T!vars' = T!vars
<1>1. CASE panic
  BY <1>1, UnchangedRef, ZenonT(60) DEF panic
<1>2. CASE ~panic
  <2>1. /\ pc[t] = "op" /\ Current(t) /\ ReadBlock(b)
        /\ UNCHANGED <<disk, pc, started>>
    BY <1>2, Zenon DEF readi, Running, Current
  <2>2. TypeOK /\ CacheInv /\ CacheInv' /\ LogInv
    BY ZenonT(60) DEF IInv, LogInv
  <2>3. NoneHeld
    BY <2>1, <2>2, NoneHeldLemma, ZenonT(60)
  <2>4. Current(t)' /\ pc'[t] = "op"
    BY <2>1, ZenonT(60) DEF Current
  <2>5. NoneHeld'
    BY <2>4, NoneHeldNext, ZenonT(60)
  <2>6. \A v \in Bufs : /\ Dirty(bc', v) <=> Dirty(bc, v)
                        /\ Dirty(bc, v) => bc'.buf[v] = bc.buf[v]
    BY <2>1, <2>2, <2>3, <2>5, ReadCache, LayoutLemma, Zenon
  <2>7. View' = View
    BY <2>1, <2>2, <2>3, <2>5, <2>6, SameView
  <2>8. Recovered' = Recovered
    BY <2>1, SameDisk, ZenonT(60)
  <2> QED  BY <2>1, <2>4, <2>7, <2>8, QuietLemma DEF Booting, Installing, Operating
<1> QED  BY <1>1, <1>2, ZenonT(60)

\* A change to a cached block is a write of the transaction.
LEMMA ModifyRef ==
  ASSUME SingleProc, IInv, IInv', RefInv, NEW t \in Threads, NEW b \in Home, NEW x \in Val,
         modify(t, b, x)
  PROVE  RefInv' /\ (T!Write(t, b, x) \/ T!vars' = T!vars)
<1>1. CASE panic
  BY <1>1, UnchangedRef, ZenonT(60) DEF panic
<1>2. CASE ~panic
  <2>0. PICK v \in Bufs :
          /\ Bget(bc, b, v) /\ bc' = SetData(bread(bc, b, v), v, x)
          /\ held' = [held EXCEPT ![t] = v]
          /\ pc' = [pc EXCEPT ![t] = "log_write"]
          /\ UNCHANGED <<disk, started>>
    BY <1>2, Zenon DEF modify, Goto
  <2>1. pc[t] = "op" /\ Current(t)
    BY Zenon DEF modify, Running, Current
  <2>2. TypeOK /\ CacheInv /\ CacheInv' /\ LogInv
    BY ZenonT(60) DEF IInv, LogInv
  <2>3. NoneHeld
    BY <2>1, <2>2, NoneHeldLemma, ZenonT(60)
  <2>4. ModifyOf(b, x, v)
    BY <2>0, <2>2, <2>3, ModifyLemma
  <2>5. pc'[t] = "log_write" /\ held'[t] = v /\ Current(t)'
    BY <2>0, <2>1, <2>2, ZenonT(60) DEF TypeOK, Current
  <2>6. \A u \in Bufs : Holds(u)' => u = v
    BY <2>5, PhaseNext, ZenonT(60) DEF Holds
  <2>7. ASSUME NEW c \in Home, c # b PROVE View'[c] = View[c]
    <3>1. CASE \E u \in Bufs : bc.buf[u].blockno = c /\ Dirty(bc, u)
      <4>1. PICK u \in Bufs : bc.buf[u].blockno = c /\ Dirty(bc, u)
        BY <3>1, ZenonT(60)
      <4>2. u # v
        BY <2>4, <2>7, <4>1, ZenonT(60) DEF ModifyOf, Takes, Unused
      <4>3. bc'.buf[u] = bc.buf[u]
        BY <2>4, <4>2, ZenonT(60) DEF ModifyOf
      <4>4. View[c] = bc.buf[u].data
        BY <2>2, <4>1, ViewLemma, Zenon
      <4>5. View'[c] = bc'.buf[u].data
        BY <2>2, <4>1, <4>3, ViewNext, Zenon
      <4> QED  BY <4>3, <4>4, <4>5, ZenonT(60)
    <3>2. CASE \A u \in Bufs : bc.buf[u].blockno = c => ~Dirty(bc, u)
      <4>1. View[c] = disk[c]
        BY <2>2, <2>3, <3>2, ViewLemma, Zenon DEF NoneHeld
      <4>2. \A u \in Bufs : bc'.buf[u].blockno = c => ~Dirty(bc', u) /\ ~Holds(u)'
        <5>1. bc'.buf[v].blockno # c
          BY <2>4, <2>7, ZenonT(60) DEF ModifyOf
        <5>2. \A u \in Bufs : u # v => bc'.buf[u] = bc.buf[u]
          BY <2>4, ZenonT(60) DEF ModifyOf
        <5> QED  BY <2>6, <3>2, <5>1, <5>2, Zenon DEF Dirty
      <4>3. View'[c] = disk'[c]
        BY <2>2, <4>2, ViewNext, Zenon
      <4> QED  BY <2>0, <4>1, <4>3, ZenonT(60)
    <3> QED  BY <3>1, <3>2, ZenonT(60)
  <2>8. View'[b] = x
    BY <2>2, <2>4, ViewNext, ZenonT(60) DEF ModifyOf
  <2>9. View' = [View EXCEPT ![b] = x]
    <3> DEFINE g == [View EXCEPT ![b] = x]
    <3>1. View = [c \in Home |-> View[c]] /\ View' = [c \in Home |-> View'[c]]
      BY FunctionsLemma, ZenonT(60)
    <3>2. g = [c \in Home |-> g[c]] /\ g[b] = x /\ \A c \in Home : c # b => g[c] = View[c]
      BY <3>1, ZenonT(60)
    <3> HIDE DEF g
    <3>3. \A c \in Home : View'[c] = g[c]
      BY <2>7, <2>8, <3>2, ZenonT(60)
    <3>4. View' = g
      BY <3>1, <3>2, <3>3, SameFunction, Zenon
    <3> QED  BY <3>4, ZenonT(60) DEF g
  <2>10. Recovered' = Recovered
    BY <2>0, SameDisk, ZenonT(60)
  <2>11. ~Recovering /\ Active = {t} /\ ~Recovering' /\ Active' = {t}
    BY <2>1, <2>5, PhaseLemma, PhaseNext, ZenonT(60) DEF Booting, Installing, Operating
  <2>12. RefInv'
    BY <2>5, RefNext, ZenonT(60) DEF Booting, Installing
  <2>13. T!Write(t, b, x)
    BY <2>9, <2>10, <2>11, Zenon DEF T!Write
  <2> QED  BY <2>12, <2>13, ZenonT(60)
<1> QED  BY <1>1, <1>2, ZenonT(60)

\* log_write and the caller's brelse change flags and counts only.
LEMMA LogWriteCache ==
  ASSUME TypeOK, NEW v \in Bufs, bc.buf[v].refcnt > 0, bc' = brelse(SetDirty(bc, v), v)
  PROVE  \A u \in Bufs : /\ bc'.buf[u].blockno = bc.buf[u].blockno
                         /\ bc'.buf[u].data = bc.buf[u].data
<1> DEFINE y == [bc.buf[v] EXCEPT !.flags = @ \cup {B_DIRTY}]
           c == SetDirty(bc, v)
<1>1. bc \in BcacheType(Content) /\ bc.buf[v] \in BufType(Content)
  BY ZenonT(60) DEF TypeOK, BcacheType
<1>2. /\ y \in BufType(Content)
      /\ y.blockno = bc.buf[v].blockno /\ y.data = bc.buf[v].data
      /\ y.refcnt = bc.buf[v].refcnt
  BY <1>1, ZenonT(60) DEF BufType
<1>3. c = Put(bc, v, y) /\ bc' = brelse(c, v)
  BY Zenon DEF SetDirty
<1> HIDE DEF y, c
<1>4. /\ c \in BcacheType(Content) /\ c.buf[v] = y
      /\ \A u \in Bufs : u # v => c.buf[u] = bc.buf[u]
  BY <1>1, <1>2, <1>3, PutLemma, Zenon
<1>5. c.buf[v].refcnt > 0
  BY <1>2, <1>4, ZenonT(60)
<1>6. /\ bc'.buf[v] = [c.buf[v] EXCEPT !.refcnt = @ - 1]
      /\ \A u \in Bufs : u # v => bc'.buf[u] = c.buf[u]
  <2>1. /\ brelse(c, v).buf[v] = [c.buf[v] EXCEPT !.refcnt = @ - 1]
        /\ \A u \in Bufs : u # v => brelse(c, v).buf[u] = c.buf[u]
    BY <1>4, <1>5, BrelseLemma, Zenon
  <2>2. bc' = brelse(c, v)
    BY <1>3, ZenonT(60)
  <2> QED  BY <2>1, <2>2, Zenon
<1>7. bc'.buf[v].blockno = y.blockno /\ bc'.buf[v].data = y.data
  BY <1>2, <1>4, <1>6, ZenonT(60) DEF BufType
<1> QED  BY <1>2, <1>4, <1>6, <1>7, Zenon

\* log_write changes nothing that a caller can see.
LEMMA LogWriteRef ==
  ASSUME SingleProc, IInv, IInv', RefInv, NEW t \in Threads, log_write(t)
  PROVE  RefInv' /\ T!vars' = T!vars
<1>1. CASE panic
  BY <1>1, UnchangedRef, ZenonT(60) DEF panic
<1>2. CASE ~panic
  <2>1. /\ pc[t] = "log_write" /\ Current(t) /\ bc' = brelse(SetDirty(bc, held[t]), held[t])
        /\ pc' = [pc EXCEPT ![t] = "op"] /\ disk' = disk /\ started' = started
    BY <1>2, Zenon DEF log_write, Running, Current, Goto
  <2>2. TypeOK /\ CacheInv /\ CacheInv' /\ held[t] \in Bufs
    BY <2>1, ZenonT(60) DEF IInv, LogInv
  <2>3. Holds(held[t])
    BY <2>1, ZenonT(60) DEF Holds
  <2>4. bc.buf[held[t]].refcnt = 1
    BY <2>2, <2>3, ZenonT(60) DEF CacheInv
  <2>5. bc.buf[held[t]].refcnt > 0
    BY <2>4
  <2>6. \A u \in Bufs : /\ bc'.buf[u].blockno = bc.buf[u].blockno
                        /\ bc'.buf[u].data = bc.buf[u].data
    BY <2>1, <2>2, <2>5, LogWriteCache, Zenon
  <2>7. ASSUME NEW b \in Home PROVE View'[b] = View[b]
    <3>1. CASE \E u \in Bufs : bc.buf[u].blockno = b
      <4>1. PICK u \in Bufs : bc.buf[u].blockno = b
        BY <3>1, ZenonT(60)
      <4>2. View[b] = bc.buf[u].data
        BY <2>2, <4>1, ViewLemma, Zenon
      <4>3. View'[b] = bc'.buf[u].data
        BY <2>2, <2>6, <4>1, ViewNext, Zenon
      <4> QED  BY <2>6, <4>2, <4>3, ZenonT(60)
    <3>2. CASE \A u \in Bufs : bc.buf[u].blockno # b
      <4>1. View[b] = disk[b]
        BY <2>2, <3>2, ViewLemma, Zenon
      <4>2. View'[b] = disk'[b]
        BY <2>2, <2>6, <3>2, ViewNext, Zenon
      <4> QED  BY <2>1, <4>1, <4>2, ZenonT(60)
    <3> QED  BY <3>1, <3>2, ZenonT(60)
  <2>8. View' = View
    BY <2>7, FunctionsLemma, SameFunction, Zenon
  <2>9. Recovered' = Recovered
    BY <2>1, SameDisk, ZenonT(60)
  <2>10. pc'[t] = "op"
    BY <2>1, <2>2, ZenonT(60) DEF TypeOK
  <2> QED  BY <2>1, <2>8, <2>9, <2>10, QuietLemma DEF Booting, Installing, Operating
<1> QED  BY <1>1, <1>2, ZenonT(60)

------------------------------------------------------------------------------
(* Commit.                                                                   *)

\* With nothing logged, what is durable is what bread returns.
LEMMA NothingLogged ==
  ASSUME TypeOK, CacheInv, DiskInv, PinnedInv, NoneHeld, lh = <<>>
  PROVE  View = Recovered
<1>1. Elems(lh) = {}
  BY DEF Elems
<1>2. \A v \in Bufs : ~Dirty(bc, v) /\ ~Holds(v)
  BY <1>1, ZenonT(60) DEF PinnedInv, NoneHeld
<1>3. \A b \in Home : View[b] = disk[b]
  BY <1>2, ViewLemma, Zenon
<1>4. \A b \in Home : Recovered[b] = disk[b]
  BY EmptyHeader, ZenonT(60) DEF PinnedInv
<1>5. \A b \in Home : View[b] = Recovered[b]
  BY <1>3, <1>4, ZenonT(60)
<1> QED  BY <1>5, FunctionsLemma, SameFunction, Zenon

\* end_op ends the transaction at once if nothing is logged, or begins to commit.
LEMMA EndOpRef ==
  ASSUME SingleProc, IInv, IInv', RefInv, NEW t \in Threads, end_op(t)
  PROVE  RefInv' /\ (T!End(t) \/ T!vars' = T!vars)
<1>1. /\ pc[t] = "op" /\ Current(t)
      /\ pc' = [pc EXCEPT ![t] = IF Len(lh) > 0 THEN "write_log" ELSE "idle"]
      /\ UNCHANGED <<disk, bc, started>>
  BY ZenonT(60) DEF end_op, Running, Current, Goto
<1>2. Recovered' = Recovered /\ View' = View
  BY <1>1, SameDisk, SameCache, ZenonT(60)
<1>3. pc'[t] = (IF Len(lh) > 0 THEN "write_log" ELSE "idle") /\ Current(t)'
  BY <1>1, ZenonT(60) DEF IInv, TypeOK, Current
<1>4. CASE Len(lh) > 0
  BY <1>1, <1>2, <1>3, <1>4, QuietLemma DEF Booting, Installing, Operating
<1>5. CASE ~(Len(lh) > 0)
  <2>1. TypeOK /\ CacheInv /\ DiskInv /\ PinnedInv /\ LogInv
    BY <1>1, ZenonT(60) DEF IInv, LogInv, PhaseInv
  <2>2. lh \in Seq(Home)
    BY <2>1, ZenonT(60) DEF TypeOK
  <2>3. lh = <<>>
    BY <1>5, <2>2
  <2>4. NoneHeld
    BY <1>1, <2>1, NoneHeldLemma, ZenonT(60)
  <2>5. View = Recovered
    BY <2>1, <2>3, <2>4, NothingLogged, ZenonT(60)
  <2>6. pc'[t] = "idle"
    BY <1>3, <1>5, ZenonT(60)
  <2>7. ~Recovering /\ Active = {t} /\ ~Recovering' /\ Active' = {}
    BY <1>1, <1>3, <2>6, PhaseLemma, PhaseNext DEF Booting, Installing, Operating
  <2>8. RefInv'
    BY <1>3, <2>6, RefNext, ZenonT(60) DEF Booting, Installing
  <2>9. Active' = Active \ {t}
    BY <2>7, ZenonT(60)
  <2>10. T!End(t)
    BY <1>2, <2>5, <2>7, <2>9, Zenon DEF T!End
  <2> QED  BY <2>8, <2>10, ZenonT(60)
<1> QED  BY <1>4, <1>5, ZenonT(60)

\* Writing log blocks changes nothing that a caller can see, nor what is durable.
LEMMA WriteLogRef ==
  ASSUME SingleProc, IInv, IInv', RefInv, NEW t \in Threads, write_log(t)
  PROVE  RefInv' /\ T!vars' = T!vars
<1>1. CASE panic
  BY <1>1, UnchangedRef DEF panic
<1>2. pc[t] = "write_log" /\ Current(t) /\ TypeOK /\ LogInv
  BY Zenon DEF write_log, Running, Current, IInv
<1>3. CASE ~panic /\ ~(tail[t] < Len(lh))
  <2>1. pc' = [pc EXCEPT ![t] = "write_head"] /\ UNCHANGED <<disk, bc, started>>
    BY <1>3, Zenon DEF write_log, Goto
  <2>2. Recovered' = Recovered /\ View' = View
    BY <2>1, SameDisk, SameCache, ZenonT(60)
  <2>3. pc'[t] = "write_head"
    BY <1>2, <2>1, ZenonT(60) DEF TypeOK
  <2> QED  BY <1>2, <2>1, <2>2, <2>3, QuietLemma DEF Booting, Installing, Operating
<1>4. CASE ~panic /\ tail[t] < Len(lh)
  <2> DEFINE to_b == LogStart + tail[t] + 1
             from_b == lh[tail[t] + 1]
  <2>1. UNCHANGED <<lh, pc, started>>
    BY <1>4, WriteLogPass, Zenon
  <2>2. PICK to, from \in Bufs : LogCopy(to_b, to, from_b, from)
    BY <1>4, WriteLogPass, Zenon
  <2>3. to_b \in BlockNo \ Home /\ to_b # LogStart
    <3>1. /\ tail[t] \in Nat /\ Len(lh) \in Nat /\ Len(lh) <= nlog - 1
          /\ LogStart \in Nat /\ nlog \in Nat
      BY <1>2, LayoutAssumption DEF TypeOK, LogInv, LhInv
    <3>2. tail[t] + 1 \in 1..(nlog - 1) /\ to_b = LogStart + (tail[t] + 1)
      BY <1>4, <3>1
    <3> HIDE DEF to_b
    <3> QED  BY <3>2, LayoutLemma, ZenonT(60)
  <2> HIDE DEF to_b, from_b
  <2>4. /\ disk \in [BlockNo -> Content] /\ disk' = [disk EXCEPT ![to_b] = bc.buf[from].data]
        /\ CacheInv /\ CacheInv' /\ DiskInv /\ DiskInv' /\ PinnedInv
    BY <1>2, <2>2 DEF LogCopy, LogInv, IInv, PhaseInv, TypeOK
  <2>5. disk'[LogStart] = disk[LogStart] /\ \A b \in Home : disk'[b] = disk[b]
    BY <2>3, <2>4, LayoutLemma, ZenonT(60)
  <2>6. Current(t)' /\ pc'[t] = "write_log"
    BY <1>2, <2>1, ZenonT(60) DEF Current
  <2>7. NoneHeld /\ NoneHeld'
    BY <1>2, <2>6, NoneHeldLemma, NoneHeldNext
  <2>8. View' = View
    <3>1. \A v \in Bufs : /\ Dirty(bc', v) <=> Dirty(bc, v)
                          /\ Dirty(bc, v) => bc'.buf[v] = bc.buf[v]
      BY <2>2, Zenon DEF LogCopy
    <3> QED  BY <2>4, <2>5, <2>7, <3>1, SameView
  <2>9. Recovered' = Recovered
    <3>1. Elems(<<>>) = {} /\ disk[LogStart] = <<>>
      BY <2>4 DEF Elems, PinnedInv
    <3>2. \A b \in Home : Recovered[b] = disk[b]
      BY <2>4, <3>1, EmptyHeader, ZenonT(60)
    <3>3. \A b \in Home : Recovered'[b] = disk'[b]
      BY <2>4, <2>5, <3>1, RecoveredNext, ZenonT(60)
    <3>4. \A b \in Home : Recovered'[b] = Recovered[b]
      BY <2>5, <3>2, <3>3, ZenonT(60)
    <3> QED  BY <3>4, FunctionsLemma, SameFunction, Zenon
  <2> QED  BY <1>2, <2>1, <2>6, <2>8, <2>9, QuietLemma DEF Booting, Installing, Operating
<1> QED  BY <1>1, <1>3, <1>4, ZenonT(60)

\* The write of the header ends the transaction: what recovery gives changes, in
\* one step, from what was durable to what bread returns.
LEMMA WriteHeadRef ==
  ASSUME SingleProc, IInv, IInv', RefInv, NEW t \in Threads, write_head(t)
  PROVE  RefInv' /\ (T!End(t) \/ T!vars' = T!vars)
<1>1. CASE panic
  BY <1>1, UnchangedRef, ZenonT(60) DEF panic
<1>2. CASE ~panic
  <2>1. /\ pc[t] = "write_head" /\ Current(t) /\ HeadWritten
        /\ pc' = [pc EXCEPT ![t] = "install_trans"] /\ lh' = lh /\ started' = started
    BY <1>2, Zenon DEF write_head, Running, Current, Goto
  <2>2. /\ TypeOK /\ CacheInv /\ CacheInv' /\ DiskInv /\ DiskInv' /\ LogInv
        /\ PinnedInv /\ LoggedInv(Len(lh)) /\ LhInv
    BY <2>1, ZenonT(60) DEF IInv, LogInv, PhaseInv
  <2>3. pc'[t] = "install_trans" /\ Current(t)'
    BY <2>1, <2>2, ZenonT(60) DEF TypeOK, Current
  <2>4. NoneHeld /\ NoneHeld'
    BY <2>1, <2>2, <2>3, NoneHeldLemma, NoneHeldNext
  <2>5. /\ disk' = [disk EXCEPT ![LogStart] = lh]
        /\ \A v \in Bufs : /\ Dirty(bc', v) <=> Dirty(bc, v)
                           /\ Dirty(bc, v) => bc'.buf[v] = bc.buf[v]
    BY <2>1, <2>2, <2>4, HeadCache, Zenon
  <2>6. /\ lh \in Seq(Home) /\ Len(lh) \in Nat /\ Len(lh) <= nlog - 1
        /\ DOMAIN lh = 1..Len(lh)
    BY <2>2 DEF TypeOK, LhInv
  <2>7. /\ disk'[LogStart] = lh
        /\ \A b \in BlockNo \ {LogStart} : disk'[b] = disk[b]
        /\ \A b \in Home : disk'[b] = disk[b]
    BY <2>2, <2>5, LayoutLemma, ZenonT(60) DEF TypeOK
  <2>8. View' = View
    BY <2>2, <2>4, <2>5, <2>7, SameView
  <2>9. ASSUME NEW b \in Home PROVE Recovered'[b] = View[b]
    <3>1. CASE b \in Elems(lh)
      <4>1. PICK i \in 1..Len(lh) : lh[i] = b
        BY <2>6, <3>1, ZenonT(60) DEF Elems
      <4>2. Recovered'[b] = disk'[LogStart + i]
        BY <2>2, <2>7, <4>1, RecoveredNext, ZenonT(60)
      <4>3. disk'[LogStart + i] = disk[LogStart + i]
        <5>1. i \in 1..(nlog - 1)
          BY <2>6, LayoutAssumption
        <5>2. LogStart + i \in BlockNo \ {LogStart}
          BY <5>1, LayoutLemma, ZenonT(60)
        <5> QED  BY <2>7, <5>2, ZenonT(60)
      <4>4. PICK v \in Bufs : bc.buf[v].blockno = b /\ Dirty(bc, v)
        BY <2>2, <3>1, ZenonT(60) DEF PinnedInv
      <4>5. bc.buf[v].data = disk[LogStart + i]
        BY <2>2, <4>1, <4>4, ZenonT(60) DEF LoggedInv
      <4>6. View[b] = bc.buf[v].data
        BY <2>2, <4>4, ViewLemma, Zenon
      <4> QED  BY <4>2, <4>3, <4>5, <4>6, ZenonT(60)
    <3>2. CASE b \notin Elems(lh)
      <4>1. Recovered'[b] = disk'[b]
        BY <2>2, <2>7, <3>2, RecoveredNext, ZenonT(60)
      <4>2. \A v \in Bufs : bc.buf[v].blockno = b => ~Dirty(bc, v) /\ ~Holds(v)
        BY <2>2, <2>4, <3>2, ZenonT(60) DEF PinnedInv, NoneHeld
      <4>3. View[b] = disk[b]
        BY <2>2, <4>2, ViewLemma, Zenon
      <4> QED  BY <2>7, <4>1, <4>3, ZenonT(60)
    <3> QED  BY <3>1, <3>2, ZenonT(60)
  <2>10. Recovered' = View
    BY <2>9, FunctionsLemma, SameFunction, Zenon
  <2>11. ~Recovering /\ Active = {t} /\ Active' = {}
    BY <2>1, <2>3, PhaseLemma, PhaseNext, ZenonT(60) DEF Booting, Installing, Operating
  <2>12. RefInv'
    BY <2>3, <2>8, <2>10, RefNext, ZenonT(60) DEF Booting
  <2>13. Active' = Active \ {t}
    BY <2>11, ZenonT(60)
  <2>14. T!End(t)
    BY <2>8, <2>10, <2>11, <2>13, Zenon DEF T!End
  <2> QED  BY <2>12, <2>14
<1> QED  BY <1>1, <1>2, ZenonT(60)

\* Installing a block changes neither what recovery gives nor, once committed,
\* what bread returns.
LEMMA InstallRef ==
  ASSUME SingleProc, IInv, IInv', RefInv, NEW t \in Threads, install_trans(t)
  PROVE  RefInv' /\ T!vars' = T!vars
<1>1. CASE panic
  BY <1>1, UnchangedRef DEF panic
<1>2. pc[t] = "install_trans" /\ Current(t) /\ TypeOK /\ LogInv
  BY Zenon DEF install_trans, Running, Current, IInv
<1>3. CASE ~panic /\ ~(tail[t] < Len(lh))
  <2>1. pc' = [pc EXCEPT ![t] = "clear"] /\ UNCHANGED <<disk, bc, started>>
    BY <1>3, Zenon DEF install_trans, Goto
  <2>2. Recovered' = Recovered /\ View' = View
    BY <2>1, SameDisk, SameCache, ZenonT(60)
  <2>3. pc'[t] = "clear"
    BY <1>2, <2>1, ZenonT(60) DEF TypeOK
  <2> QED  BY <1>2, <2>1, <2>2, <2>3, QuietLemma, ZenonT(60) DEF Booting, Installing, Operating
<1>4. CASE ~panic /\ tail[t] < Len(lh)
  <2> DEFINE k == tail[t] + 1
             l_b == LogStart + tail[t] + 1
             d_b == lh[k]
  <2>1. UNCHANGED <<lh, pc, started>>
    BY <1>4, InstallPass, Zenon
  <2>2. PICK l, d \in Bufs : HomeCopy(l_b, l, d_b, d)
    BY <1>4, InstallPass, Zenon
  <2>3. /\ disk[LogStart] = lh /\ lh \in Seq(Home) /\ NoRepeat(lh)
        /\ DOMAIN lh = 1..Len(lh) /\ Len(lh) \in Nat /\ Len(lh) <= nlog - 1
        /\ tail[t] \in Nat /\ LogStart \in Nat /\ nlog \in Nat
    BY <1>2, LayoutAssumption DEF TypeOK, LogInv, LhInv, PhaseInv
  <2>4. k \in 1..Len(lh) /\ k \in 1..(nlog - 1) /\ l_b = LogStart + k
    BY <1>4, <2>3
  <2>5. d_b \in Home /\ d_b \in BlockNo
    <3> HIDE DEF k
    <3>1. lh \in Seq(Home) /\ k \in 1..Len(lh)
      BY <2>3, <2>4, ZenonT(60)
    <3>2. lh[k] \in Home
      BY <3>1
    <3> QED  BY <3>2, LayoutLemma, ZenonT(60)
  <2> HIDE DEF k, l_b, d_b
  <2>6. /\ disk \in [BlockNo -> Content] /\ disk' = [disk EXCEPT ![d_b] = disk[l_b]]
        /\ CacheInv /\ CacheInv' /\ DiskInv /\ DiskInv'
    BY <1>2, <2>2, ZenonT(60) DEF HomeCopy, LogInv, IInv, TypeOK
  <2>7. /\ disk'[d_b] = disk[l_b] /\ disk'[LogStart] = lh
        /\ \A b \in BlockNo : b # d_b => disk'[b] = disk[b]
    BY <2>3, <2>5, <2>6, LayoutLemma, ZenonT(60)
  <2>8. \A i \in 1..Len(lh) : disk'[LogStart + i] = disk[LogStart + i]
    <3> SUFFICES ASSUME NEW i \in 1..Len(lh)
                 PROVE  disk'[LogStart + i] = disk[LogStart + i]
      BY ZenonT(60)
    <3>1. i \in 1..(nlog - 1)
      BY <2>3
    <3>2. LogStart + i \in BlockNo /\ LogStart + i # d_b
      BY <2>5, <3>1, LayoutLemma, ZenonT(60)
    <3> QED  BY <2>7, <3>2, ZenonT(60)
  <2>9. ASSUME NEW b \in Home PROVE Recovered'[b] = Recovered[b]
    <3>1. CASE b \in Elems(lh)
      <4>1. PICK i \in 1..Len(lh) : lh[i] = b
        BY <2>3, <3>1, ZenonT(60) DEF Elems
      <4>2. Recovered'[b] = disk'[LogStart + i]
        BY <2>6, <2>7, <4>1, RecoveredNext, ZenonT(60)
      <4>3. Recovered[b] = disk[LogStart + i]
        BY <2>3, <2>6, <4>1, RecoveredLemma, ZenonT(60)
      <4> QED  BY <2>8, <4>2, <4>3, ZenonT(60)
    <3>2. CASE b \notin Elems(lh)
      <4>1. b # d_b
        BY <2>3, <2>4, <3>2, ZenonT(60) DEF Elems, d_b
      <4>2. Recovered'[b] = disk'[b]
        BY <2>6, <2>7, <3>2, RecoveredNext, ZenonT(60)
      <4>3. Recovered[b] = disk[b]
        BY <2>3, <2>6, <3>2, RecoveredLemma, ZenonT(60)
      <4> QED  BY <2>7, <4>1, <4>2, <4>3, LayoutLemma, ZenonT(60)
    <3> QED  BY <3>1, <3>2, ZenonT(60)
  <2>10. Recovered' = Recovered
    BY <2>9, FunctionsLemma, SameFunction, Zenon
  <2>11. Current(t)' /\ pc'[t] = "install_trans"
    BY <1>2, <2>1, ZenonT(60) DEF Current
  <2>12. NoneHeld /\ NoneHeld'
    BY <1>2, <2>11, NoneHeldLemma, NoneHeldNext, ZenonT(60)
  <2>13. ASSUME started PROVE View' = View
    <3>1. View = Recovered
      BY <1>2, <2>13, ZenonT(60) DEF RefInv, Installing
    <3>2. ASSUME NEW b \in Home, \E v \in Bufs : bc'.buf[v].blockno = b /\ Dirty(bc', v)
          PROVE  View'[b] = View[b]
      <4>1. PICK v \in Bufs : bc'.buf[v].blockno = b /\ Dirty(bc', v)
        BY <3>2, ZenonT(60)
      <4>2. bc'.buf[v] = bc.buf[v]
        BY <2>2, <4>1, ZenonT(60) DEF HomeCopy
      <4>3. View'[b] = bc'.buf[v].data
        BY <2>6, <4>1, ViewNext, Zenon
      <4>4. View[b] = bc.buf[v].data
        BY <2>6, <4>1, <4>2, ViewLemma, Zenon
      <4> QED  BY <4>2, <4>3, <4>4, ZenonT(60)
    <3>3. ASSUME NEW b \in Home, \A v \in Bufs : bc'.buf[v].blockno = b => ~Dirty(bc', v)
          PROVE  View'[b] = View[b]
      <4>1. View'[b] = disk'[b]
        BY <2>6, <2>12, <3>3, ViewNext, Zenon DEF NoneHeld
      <4>2. CASE b = d_b
        <5>1. Recovered[d_b] = disk[LogStart + k]
          BY <2>3, <2>4, <2>6, RecoveredLemma DEF d_b
        <5> QED  BY <2>4, <2>7, <3>1, <4>1, <4>2, <5>1, Zenon
      <4>3. CASE b # d_b
        <5>1. \A v \in Bufs : bc.buf[v].blockno = b => ~Dirty(bc, v)
          <6>1. ASSUME NEW v \in Bufs, bc.buf[v].blockno = b, Dirty(bc, v) PROVE FALSE
            <7>1. Dirty(bc', v)
              BY <2>2, <4>3, <6>1, ZenonT(60) DEF HomeCopy
            <7>2. bc'.buf[v] = bc.buf[v]
              BY <2>2, <7>1, ZenonT(60) DEF HomeCopy
            <7> QED  BY <3>3, <6>1, <7>1, <7>2, ZenonT(60)
          <6> QED  BY <6>1, ZenonT(60)
        <5>2. View[b] = disk[b]
          BY <2>6, <2>12, <5>1, ViewLemma, Zenon DEF NoneHeld
        <5> QED  BY <2>7, <4>1, <4>3, <5>2, LayoutLemma, ZenonT(60)
      <4> QED  BY <4>2, <4>3, ZenonT(60)
    <3>4. \A b \in Home : View'[b] = View[b]
      BY <3>2, <3>3, Zenon
    <3> QED  BY <3>4, FunctionsLemma, SameFunction, Zenon
  <2> QED  BY <1>2, <2>1, <2>10, <2>11, <2>13, QuietLemma DEF Booting, Installing, Operating
<1> QED  BY <1>1, <1>3, <1>4

\* log.lh.n = 0 changes nothing that can be seen.
LEMMA ClearRef ==
  ASSUME SingleProc, IInv, IInv', RefInv, NEW t \in Threads, clear(t)
  PROVE  RefInv' /\ T!vars' = T!vars
<1>1. /\ pc[t] = "clear" /\ Current(t) /\ pc' = [pc EXCEPT ![t] = "erase"]
      /\ UNCHANGED <<disk, bc, started>>
  BY ZenonT(60) DEF clear, Running, Current, Goto
<1>2. Recovered' = Recovered /\ View' = View
  BY <1>1, SameDisk, SameCache, ZenonT(60)
<1>3. pc'[t] = "erase"
  BY <1>1, ZenonT(60) DEF IInv, TypeOK
<1> QED  BY <1>1, <1>2, <1>3, QuietLemma, ZenonT(60) DEF Booting, Installing, Operating

\* Erasing an installed transaction changes nothing that can be seen, and
\* recovery ends with bread returning what was durable.
LEMMA EraseRef ==
  ASSUME SingleProc, IInv, IInv', RefInv, NEW t \in Threads, erase(t)
  PROVE  RefInv' /\ T!vars' = T!vars
<1>1. CASE panic
  BY <1>1, UnchangedRef DEF panic
<1>2. CASE ~panic
  <2>1. /\ pc[t] = "erase" /\ Current(t) /\ HeadWritten
        /\ pc' = [pc EXCEPT ![t] = "idle"] /\ lh' = lh /\ started' = started
    BY <1>2, Zenon DEF erase, Running, Current, Goto
  <2>2. /\ TypeOK /\ CacheInv /\ CacheInv' /\ DiskInv /\ DiskInv' /\ LogInv
        /\ lh = <<>> /\ InstalledInv(Len(disk[LogStart])) /\ NothingPinned
    BY <2>1, ZenonT(60) DEF IInv, LogInv, PhaseInv
  <2>3. pc'[t] = "idle" /\ Current(t)'
    BY <2>1, <2>2, ZenonT(60) DEF TypeOK, Current
  <2>4. NoneHeld /\ NoneHeld'
    BY <2>1, <2>2, <2>3, NoneHeldLemma, NoneHeldNext, ZenonT(60)
  <2>5. /\ disk' = [disk EXCEPT ![LogStart] = lh]
        /\ \A v \in Bufs : Dirty(bc', v) <=> Dirty(bc, v)
    BY <2>1, <2>2, <2>4, HeadCache, Zenon
  <2>6. disk'[LogStart] = <<>> /\ \A b \in Home : disk'[b] = disk[b]
    BY <2>2, <2>5, LayoutLemma, ZenonT(60) DEF TypeOK
  <2>7. ASSUME NEW b \in Home PROVE View[b] = disk[b] /\ View'[b] = disk[b]
    <3>1. \A v \in Bufs : ~Dirty(bc, v) /\ ~Dirty(bc', v) /\ ~Holds(v) /\ ~Holds(v)'
      BY <2>2, <2>4, <2>5, ZenonT(60) DEF NothingPinned, NoneHeld
    <3> QED  BY <2>2, <2>6, <3>1, ViewLemma, ViewNext, Zenon
  <2>8. ASSUME NEW b \in Home PROVE Recovered[b] = disk[b] /\ Recovered'[b] = disk[b]
    <3>1. Elems(<<>>) = {}
      BY DEF Elems
    <3>2. Recovered'[b] = disk'[b]
      BY <2>2, <2>6, <3>1, RecoveredNext
    <3> DEFINE h == disk[LogStart]
    <3>3. h \in Seq(Home)
      BY <2>2, ZenonT(60) DEF DiskInv
    <3>4. h = disk[LogStart]
      BY ZenonT(60)
    <3> HIDE DEF h
    <3>5. CASE b \in Elems(h)
      <4>1. PICK i \in 1..Len(h) : h[i] = b
        BY <3>3, <3>5 DEF Elems
      <4>2. Recovered[b] = disk[LogStart + i]
        BY <2>2, <3>4, <4>1, RecoveredLemma, ZenonT(60)
      <4>3. disk[b] = disk[LogStart + i]
        BY <2>2, <3>4, <4>1, ZenonT(60) DEF InstalledInv
      <4> QED  BY <2>6, <3>2, <4>2, <4>3, ZenonT(60)
    <3>6. CASE b \notin Elems(h)
      BY <2>2, <2>6, <3>2, <3>4, <3>6, RecoveredLemma
    <3> QED  BY <3>5, <3>6, ZenonT(60)
  <2>9. \A b \in Home : /\ View'[b] = View[b] /\ Recovered'[b] = Recovered[b]
                        /\ View[b] = Recovered[b]
    BY <2>7, <2>8, ZenonT(60)
  <2>10. View' = View /\ Recovered' = Recovered /\ View = Recovered
    BY <2>9, FunctionsLemma, SameFunction, Zenon
  <2>11. Active = {} /\ Active' = {}
    BY <2>1, <2>3, PhaseLemma, PhaseNext, ZenonT(60) DEF Operating
  <2>12. RefInv'
    BY <2>3, RefNext, ZenonT(60) DEF Booting, Installing
  <2> QED  BY <2>10, <2>11, <2>12, Zenon DEF T!vars
<1> QED  BY <1>1, <1>2

\* main hands over to the processes with nothing under way.
LEMMA SchedulerRef ==
  ASSUME SingleProc, IInv, scheduler
  PROVE  RefInv' /\ T!vars' = T!vars
<1>1. /\ pc[Main] = "idle" /\ ~started /\ UNCHANGED <<disk, bc, pc>> /\ started'
  BY ZenonT(60) DEF scheduler, Running, IInv, TypeOK
<1>2. \A u \in Threads : pc'[u] = "idle"
  BY <1>1, ZenonT(60) DEF IInv, LogInv, Current
<1>3. Recovered' = Recovered /\ View' = View
  BY <1>1, SameDisk, SameCache, ZenonT(60)
<1>4. ~Recovering /\ ~Recovering' /\ Active' = Active
  BY <1>1, ZenonT(60) DEF Recovering, Active
<1>5. RefInv'
  BY <1>2, ZenonT(60) DEF RefInv, Booting, Installing
<1> QED  BY <1>3, <1>4, <1>5, Zenon DEF T!vars

------------------------------------------------------------------------------
(* The theorems.                                                             *)

\* Every step of the log is a step of the transactions, or none.
LEMMA NextRef ==
  ASSUME SingleProc, IInv, IInv', RefInv, [Next]_vars
  PROVE  RefInv' /\ [T!Next]_(T!vars)
<1>1. CASE UNCHANGED vars
  BY <1>1, UnchangedRef, ZenonT(60) DEF vars
<1>2. ASSUME NEW t \in Threads, LogStep(t) PROVE RefInv' /\ [T!Next]_(T!vars)
  <2>1. RefInv' /\ (T!End(t) \/ T!vars' = T!vars)
    BY <1>2, BootRef, WriteLogRef, WriteHeadRef, InstallRef, ClearRef, EraseRef, Zenon
    DEF LogStep
  <2> QED  BY <2>1, Zenon DEF T!Next
<1>3. ASSUME NEW t \in Threads, OpStep(t) PROVE RefInv' /\ [T!Next]_(T!vars)
  <2>1. RefInv' /\ \/ T!Begin(t) \/ T!End(t) \/ T!vars' = T!vars
                   \/ \E b \in Home, x \in Val : T!Write(t, b, x)
    BY <1>3, BeginRef, ReadiRef, ModifyRef, LogWriteRef, EndOpRef, Zenon DEF OpStep
  <2> QED  BY <2>1, Zenon DEF T!Next
<1>4. CASE scheduler
  BY <1>4, SchedulerRef, ZenonT(60)
<1>5. CASE Crash
  BY <1>5, CrashRef, Zenon DEF T!Next
<1> QED  BY <1>1, <1>2, <1>3, <1>4, <1>5, Zenon DEF Next

\* At boot, nothing is logged: the disk mkfs made is what is durable.
LEMMA InitRef ==
  Init => RefInv /\ T!Init
<1> SUFFICES ASSUME Init PROVE RefInv /\ T!Init
  BY ZenonT(60)
<1>1. IInv
  BY InitIInv, ZenonT(60)
<1>2. /\ pc = [t \in Threads |-> IF t = Main THEN "initlog" ELSE "idle"]
      /\ started = FALSE /\ disk[LogStart] = <<>>
  <2>1. LogStart \in BlockNo \ Home
    BY LayoutLemma, ZenonT(60)
  <2> QED  BY <2>1, ZenonT(60) DEF Init
<1>3. RefInv
  BY <1>2, ZenonT(60) DEF RefInv, Booting, Installing
<1>4. Recovering /\ Active = {}
  BY <1>2, ZenonT(60) DEF Recovering, Active, Threads
<1>5. Recovered \in [Home -> Val]
  <2>1. DiskInv
    BY <1>1, ZenonT(60) DEF IInv, LogInv
  <2>2. \A b \in Home : Recovered[b] \in Val
    BY <1>2, <2>1, EmptyHeader, LayoutLemma, ZenonT(60) DEF DiskInv
  <2>3. Recovered = [b \in Home |-> Recovered[b]]
    BY FunctionsLemma, ZenonT(60)
  <2> QED  BY <2>2, <2>3, ZenonT(60)
<1> QED  BY <1>3, <1>4, <1>5, Zenon DEF T!Init

\* log.c implements atomic transactions, for every size of cache, log and disk, with
\* one process at a time in the file system: whatever the steps between which the
\* machine crashes, the disk recovers to the last operation that committed, with all
\* of its writes and nothing of the next one, and bread returns the latest write.
THEOREM TransactionsCorrect ==
  ASSUME SingleProc
  PROVE  Spec => AtomicTransactions
<1>1. Init => IInv /\ RefInv /\ T!Init
  BY InitIInv, InitRef, ZenonT(60)
<1>2. IInv /\ RefInv /\ [Next]_vars => IInv' /\ RefInv' /\ [T!Next]_(T!vars)
  BY NextIInv, NextRef, ZenonT(60)
<1> QED  BY <1>1, <1>2, PTL DEF Spec, AtomicTransactions, T!Spec

\* With one process at a time in the file system, all that operations wrote is
\* durable whenever no thread is in it: end_op keeps the promise that it breaks when
\* two operations overlap.
THEOREM DurableAlone ==
  ASSUME SingleProc, NEW p \in Procs
  PROVE  Spec => []DurableWhenIdle
<1>1. ASSUME IInv PROVE DurableWhenIdle
  <2> SUFFICES ASSUME \A t \in Threads : pc[t] = "idle" PROVE View = Recovered
    BY ZenonT(60) DEF DurableWhenIdle
  <2>1. PICK t \in Threads : Current(t)
    <3>1. Main \in Threads /\ p \in Threads /\ p # Main
      BY MainAssumption, ZenonT(60) DEF Threads
    <3>2. started \in BOOLEAN
      BY <1>1, ZenonT(60) DEF IInv, TypeOK
    <3> QED  BY <3>1, <3>2, ZenonT(60) DEF Current
  <2>2. TypeOK /\ CacheInv /\ DiskInv /\ PinnedInv /\ lh = <<>> /\ LogInv
    BY <1>1, <2>1 DEF IInv, LogInv, PhaseInv
  <2>3. NoneHeld
    BY <2>1, <2>2, NoneHeldLemma, ZenonT(60)
  <2> QED  BY <2>2, <2>3, NothingLogged, ZenonT(60)
<1>2. IInv <=> TypeOK /\ LogInv
  BY ZenonT(60) DEF IInv
<1> QED  BY <1>1, <1>2, LogCorrect, PTL
==============================================================================
