---------------------------- MODULE BufIdeProofs -----------------------------
(*****************************************************************************)
(* The disk queue, the interrupt handler and the buffer cache, for any       *)
(* number of processes, buffers and blocks: proofs of the invariants of      *)
(* BufIde.                                                                   *)
(*                                                                           *)
(* The queue is a list in memory, and iderw walks along it.  The invariant   *)
(* names the list: a sequence of distinct buffers of which idequeue is the   *)
(* first and qnext leads from each to the next (IsQueue).  No sequence of    *)
(* distinct buffers is longer than the cache, so that the walk ends.         *)
(*****************************************************************************)
EXTENDS BufIde, FiniteSetTheorems, WellFoundedInduction, TLAPS

(* The walk along the queue.                                                 *)

\* A buffer is not the null pointer.
LEMMA NullLemma == Null \notin Bufs
BY DEF Bufs, Null

\* A set of naturals that is not empty has a least element.
LEMMA LeastLemma ==
  ASSUME NEW S \in SUBSET Nat, S # {}
  PROVE  \E n \in S : \A m \in S : n <= m
<1>1. IsWellFoundedOn(OpToRel(<, Nat), Nat)
  BY NatLessThanWellFounded, ZenonT(60)
<1>2. PICK n \in S : \A m \in S : ~(<<m, n>> \in OpToRel(<, Nat))
  BY <1>1, WFMin, Zenon
<1>3. ASSUME NEW m \in S PROVE ~(m < n)
  <2>1. m \in Nat /\ n \in Nat
    OBVIOUS
  <2>2. <<m, n>> \notin {rr \in Nat \X Nat : rr[1] < rr[2]}
    BY <1>2, Zenon DEF OpToRel
  <2> QED  BY <2>1, <2>2
<1> QED  BY <1>3

\* What the recursive function in Walk satisfies.
IsWalk(w, q, qn) ==
  w = [n \in 0..NBUF |->
         IF n = 0 THEN q ELSE IF w[n - 1] = Null THEN Null ELSE qn[w[n - 1]]]

\* Walk is such a function, if there is one.
LEMMA WalkDef ==
  ASSUME NEW q, NEW qn
  PROVE  Walk(q, qn) = CHOOSE w : IsWalk(w, q, qn)
BY DEF Walk, IsWalk

\* No two functions satisfy it: they would differ in a first place.
LEMMA WalkUnique ==
  ASSUME NEW q, NEW qn, NEW g, IsWalk(g, q, qn)
  PROVE  Walk(q, qn) = g
<1> DEFINE w == Walk(q, qn)
           D == {n \in 0..NBUF : w[n] # g[n]}
<1>1. IsWalk(w, q, qn)
  BY WalkDef, Zenon
<1> HIDE DEF w
<1>2. ASSUME D # {} PROVE FALSE
  <2>1. D \in SUBSET Nat
    OBVIOUS
  <2> HIDE DEF D
  <2>2. PICK n \in D : \A m \in D : n <= m
    BY <1>2, <2>1, LeastLemma
  <2> USE DEF D
  <2>3. n # 0
    <3>1. 0 \in 0..NBUF
      BY NBUFAssumption
    <3>2. w[0] = q
      BY <1>1, <3>1 DEF IsWalk
    <3>3. g[0] = q
      BY <3>1 DEF IsWalk
    <3> QED  BY <2>2, <3>2, <3>3
  <2>4. n - 1 \in 0..NBUF /\ w[n - 1] = g[n - 1]
    BY <2>2, <2>3, NBUFAssumption
  <2> QED  BY <2>2, <2>3, <2>4, <1>1 DEF IsWalk
<1>3. \A n \in 0..NBUF : w[n] = g[n]
  BY <1>2
<1> QED  BY <1>1, <1>3 DEF IsWalk, w

\* s is the list that starts at q and is linked by qn.
IsQueue(s, q, qn) ==
  /\ \A i, j \in 1..Len(s) : s[i] = s[j] => i = j
  /\ q = IF Len(s) = 0 THEN Null ELSE s[1]
  /\ \A i \in 1..Len(s) : qn[s[i]] = IF i = Len(s) THEN Null ELSE s[i + 1]

\* A list of distinct buffers is not longer than the cache.
LEMMA QueueLength ==
  ASSUME NEW s \in Seq(Bufs), NEW q, NEW qn, IsQueue(s, q, qn)
  PROVE  Len(s) \in 0..NBUF
<1>1. Len(s) \in Nat /\ s \in [1..Len(s) -> Bufs]
  OBVIOUS
<1>2. IsFiniteSet(1..Len(s)) /\ Cardinality(1..Len(s)) = Len(s)
  BY <1>1, FS_Interval
<1>3. IsFiniteSet(Bufs) /\ Cardinality(Bufs) = NBUF
  BY NBUFAssumption, FS_Interval DEF Bufs
<1>4. ASSUME NBUF < Len(s) PROVE FALSE
  <2>1. \E x, y \in 1..Len(s) : x # y /\ s[x] = s[y]
    BY <1>1, <1>2, <1>3, <1>4, FS_PigeonHole
  <2> QED  BY <2>1 DEF IsQueue
<1> QED  BY <1>1, <1>4, NBUFAssumption

\* The walk visits the list and ends.
LEMMA QueueWalk ==
  ASSUME NEW s \in Seq(Bufs), NEW q, NEW qn, IsQueue(s, q, qn)
  PROVE  Walk(q, qn) = [n \in 0..NBUF |-> IF n < Len(s) THEN s[n + 1] ELSE Null]
<1> DEFINE g == [n \in 0..NBUF |-> IF n < Len(s) THEN s[n + 1] ELSE Null]
<1>1. Len(s) \in 0..NBUF
  BY QueueLength
<1>2. \A i \in 1..Len(s) : s[i] # Null
  BY NullLemma
<1>3. ASSUME NEW n \in 0..NBUF
      PROVE  g[n] = IF n = 0 THEN q ELSE IF g[n - 1] = Null THEN Null ELSE qn[g[n - 1]]
  <2>1. CASE n = 0
    BY <1>1, <2>1, NBUFAssumption DEF IsQueue
  <2>2. CASE n # 0
    <3>1. n - 1 \in 0..NBUF /\ n \in 1..NBUF
      BY <2>2, NBUFAssumption
    <3>2. CASE n - 1 < Len(s)
      <4>1. n \in 1..Len(s) /\ g[n - 1] = s[n]
        BY <1>1, <3>1, <3>2
      <4>2. qn[s[n]] = IF n = Len(s) THEN Null ELSE s[n + 1]
        BY <4>1 DEF IsQueue
      <4>3. g[n] = IF n = Len(s) THEN Null ELSE s[n + 1]
        BY <1>1, <4>1
      <4> QED  BY <1>2, <2>2, <4>1, <4>2, <4>3, ZenonT(60)
    <3>3. CASE ~(n - 1 < Len(s))
      BY <1>1, <2>2, <3>1, <3>3
    <3> QED  BY <3>2, <3>3
  <2> QED  BY <2>1, <2>2, ZenonT(60)
<1>4. IsWalk(g, q, qn)
  <2> HIDE DEF g
  <2>1. g = [n \in 0..NBUF |-> g[n]]
    BY DEF g
  <2> QED  BY <1>3, <2>1, Zenon DEF IsWalk
<1> QED  BY <1>4, WalkUnique

\* The walk ends, its places are the list, and iderw's loop stops at the last.
LEMMA QueueWalkEnds ==
  ASSUME NEW s \in Seq(Bufs), NEW q, NEW qn, IsQueue(s, q, qn)
  PROVE  /\ Walk(q, qn)[NBUF] = Null
         /\ {Walk(q, qn)[n] : n \in 0..NBUF} \ {Null} = {s[i] : i \in 1..Len(s)}
         /\ Len(s) # 0 => Last(q, qn) = s[Len(s)]
<1> DEFINE w == Walk(q, qn)
<1>1. Len(s) \in 0..NBUF /\ Len(s) \in Nat
  BY QueueLength
<1>2. \A n \in 0..NBUF : w[n] = IF n < Len(s) THEN s[n + 1] ELSE Null
  <2>1. w = [n \in 0..NBUF |-> IF n < Len(s) THEN s[n + 1] ELSE Null]
    BY QueueWalk, Zenon
  <2> HIDE DEF w
  <2> QED  BY <2>1, Zenon
<1> HIDE DEF w
<1>3. \A i \in 1..Len(s) : s[i] \in Bufs /\ s[i] # Null
  BY NullLemma
<1>4. w[NBUF] = Null
  BY <1>1, <1>2, NBUFAssumption
<1>5. ASSUME NEW i \in 1..Len(s) PROVE i - 1 \in 0..NBUF /\ w[i - 1] = s[i]
  BY <1>1, <1>2, NBUFAssumption
<1>6. ASSUME NEW n \in 0..NBUF, w[n] # Null
      PROVE  n + 1 \in 1..Len(s) /\ w[n] = s[n + 1]
  BY <1>1, <1>2, <1>6
<1>7. {w[n] : n \in 0..NBUF} \ {Null} = {s[i] : i \in 1..Len(s)}
  <2>1. ASSUME NEW v \in {w[n] : n \in 0..NBUF} \ {Null} PROVE v \in {s[i] : i \in 1..Len(s)}
    BY <1>6
  <2>2. ASSUME NEW v \in {s[i] : i \in 1..Len(s)} PROVE v \in {w[n] : n \in 0..NBUF} \ {Null}
    BY <1>3, <1>5
  <2> QED  BY <2>1, <2>2, Zenon
<1>8. ASSUME Len(s) # 0 PROVE Last(q, qn) = s[Len(s)]
  <2> DEFINE P(v) == qn[v] = Null /\ \E n \in 0..NBUF : w[n] = v
  <2>1. Len(s) \in 1..Len(s)
    BY <1>1, <1>8
  <2>2. P(s[Len(s)])
    BY <1>5, <2>1 DEF IsQueue
  <2>3. ASSUME NEW v \in Bufs, P(v) PROVE v = s[Len(s)]
    <3>1. PICK n \in 0..NBUF : w[n] = v
      BY <2>3
    <3>2. v # Null
      BY NullLemma
    <3>3. n + 1 \in 1..Len(s) /\ v = s[n + 1]
      BY <1>6, <3>1, <3>2
    <3>4. qn[v] = IF n + 1 = Len(s) THEN Null ELSE s[(n + 1) + 1]
      BY <3>3 DEF IsQueue
    <3>5. n + 1 # Len(s) => (n + 1) + 1 \in 1..Len(s)
      BY <3>3, <1>1
    <3> QED  BY <1>3, <2>3, <3>3, <3>4, <3>5
  <2>4. s[Len(s)] \in Bufs
    BY <1>3, <2>1
  <2>5. Last(q, qn) = CHOOSE v \in Bufs : P(v)
    BY DEF Last, w
  <2> HIDE DEF P
  <2> QED  BY <2>2, <2>3, <2>4, <2>5, Zenon
<1> QED  BY <1>4, <1>7, <1>8, ZenonT(60) DEF w
------------------------------------------------------------------------------
(* The invariant.                                                            *)

\* The same of the driver's own queue.
LEMMA QueueMembers ==
  ASSUME NEW s \in Seq(Bufs), IsQueue(s, idequeue, qnext)
  PROVE  Walk(idequeue, qnext)[NBUF] = Null /\ Queued = {s[i] : i \in 1..Len(s)}
<1>1. /\ Walk(idequeue, qnext)[NBUF] = Null
      /\ {Walk(idequeue, qnext)[n] : n \in 0..NBUF} \ {Null} = {s[i] : i \in 1..Len(s)}
  BY QueueWalkEnds, SMTT(60)
<1> QED  BY <1>1, Zenon DEF Queued

\* The request of buffer v is done.
Done(v) == Valid(bc, v) /\ ~Dirty(bc, v)

\* The buffers whose requests are not done yet.
Waiting == {v \in Bufs : \E p \in Proc :
              buf[p] = v /\ pc[p] = "wait" /\ (~Valid(bc, v) \/ Dirty(bc, v))}

\* The queue is a list of them.
QueueInv ==
  \E s \in Seq(Bufs) :
    IsQueue(s, idequeue, qnext) /\ {s[i] : i \in 1..Len(s)} = Waiting

\* A process has a buffer of its own, in a state that fits where the process is.
ProcInv(p) ==
  /\ pc[p] = "idle" <=> buf[p] = Null
  /\ buf[p] # Null => bc.buf[buf[p]].blockno \in BlockNo
  /\ buf[p] # Null => \A q \in Proc : buf[q] = buf[p] => q = p
  /\ pc[p] \in {"have", "stored"} => Done(buf[p])
  /\ pc[p] = "bread" => ~Dirty(bc, buf[p])
  /\ pc[p] = "iderw" => ~Done(buf[p])
  /\ pc[p] = "stored" => bc.buf[buf[p]].data \in Val

\* refcnt counts the holder; a change that is not on the disk yet is being written.
BufInv(v) ==
  /\ bc.buf[v].refcnt = IF \E p \in Proc : buf[p] = v THEN 1 ELSE 0
  /\ Dirty(bc, v) => /\ bc.buf[v].data \in Val
                     /\ \E p \in Proc : buf[p] = v /\ pc[p] \in {"iderw", "wait"}
  /\ Valid(bc, v) => bc.buf[v].blockno \in BlockNo

OneCopy ==
  \A u, v \in Bufs : /\ bc.buf[u].blockno = bc.buf[v].blockno
                     /\ bc.buf[u].blockno # NoBlock
                     => u = v

\* The disk works for the head of the queue, or has raised its interrupt for it.
CmdInv ==
  /\ idequeue # Null =>
       /\ cmd.busy # irq
       /\ cmd.block = bc.buf[idequeue].blockno
       /\ IF Dirty(bc, idequeue)
          THEN /\ cmd.op = "write" /\ cmd.data = bc.buf[idequeue].data
               /\ irq => disk[bc.buf[idequeue].blockno] = bc.buf[idequeue].data
          ELSE cmd.op = "read"
  /\ idequeue = Null => ~cmd.busy /\ ~irq

\* A buffer that is filled, and into which nobody has stored since, holds what the
\* disk holds.
AgreeInv(v) ==
  Done(v) /\ (\A p \in Proc : buf[p] = v => pc[p] # "stored")
    => bc.buf[v].data = disk[bc.buf[v].blockno]

IInv ==
  /\ TypeOK /\ OneCopy /\ QueueInv /\ CmdInv
  /\ \A p \in Proc : ProcInv(p)
  /\ \A v \in Bufs : BufInv(v)
  /\ ~Errors => \A v \in Bufs : AgreeInv(v)

(* Facts about one state.                                                    *)

\* The head of a list is in it, and a list without a head is empty.
LEMMA QueueHead ==
  ASSUME NEW s \in Seq(Bufs), NEW q, NEW qn, IsQueue(s, q, qn)
  PROVE  /\ q # Null => q \in {s[i] : i \in 1..Len(s)} /\ Len(s) # 0
         /\ q = Null => {s[i] : i \in 1..Len(s)} = {} /\ Len(s) = 0
<1>1. ASSUME Len(s) = 0 PROVE q = Null /\ {s[i] : i \in 1..Len(s)} = {}
  BY <1>1 DEF IsQueue
<1>2. ASSUME Len(s) # 0 PROVE q \in {s[i] : i \in 1..Len(s)} /\ q # Null
  <2>1. 1 \in 1..Len(s) /\ q = s[1] /\ s[1] \in Bufs
    BY <1>2 DEF IsQueue
  <2> QED  BY <2>1, NullLemma
<1> QED  BY <1>1, <1>2

\* The head of the queue is waited for, and the queue is empty when there is none.
LEMMA HeadLemma ==
  ASSUME QueueInv
  PROVE  /\ idequeue # Null => idequeue \in Waiting
         /\ idequeue = Null => Waiting = {}
BY QueueHead, Zenon DEF QueueInv

\* The buffer of a process outside "idle" is a buffer, with its block.
LEMMA OwnLemma ==
  ASSUME IInv, NEW p \in Proc, pc[p] # "idle"
  PROVE  /\ buf[p] \in Bufs /\ buf[p] # Null
         /\ bc.buf[buf[p]].blockno \in BlockNo
         /\ bc.buf[buf[p]] \in BufType(Val)
         /\ bc.buf[buf[p]].refcnt = 1
         /\ \A q \in Proc : buf[q] = buf[p] => q = p
<1>1. buf[p] \in Bufs /\ buf[p] # Null
  BY ZenonT(60) DEF IInv, ProcInv, TypeOK
<1>2. bc.buf[buf[p]] \in BufType(Val)
  BY <1>1, ZenonT(60) DEF IInv, TypeOK, BcacheType
<1>3. bc.buf[buf[p]].refcnt = 1
  BY <1>1 DEF IInv, BufInv
<1> QED  BY <1>1, <1>2, <1>3, ZenonT(60) DEF IInv, ProcInv

\* A buffer that is waited for is held by a process that waits, and by no other.
LEMMA WaitingLemma ==
  ASSUME IInv, NEW v \in Waiting, NEW p \in Proc, buf[p] = v
  PROVE  pc[p] = "wait" /\ ~Done(v) /\ v \in Bufs
<1>1. PICK q \in Proc : buf[q] = v /\ pc[q] = "wait" /\ (~Valid(bc, v) \/ Dirty(bc, v))
  BY DEF Waiting
<1>2. q = p
  BY <1>1, OwnLemma
<1> QED  BY <1>1, <1>2 DEF Done, Waiting

(* What a step does to the cache.                                            *)

\* Put changes one buffer and keeps the type of the cache.
LEMMA PutLemma ==
  ASSUME NEW c \in BcacheType(Val), NEW v \in Bufs, NEW x \in BufType(Val)
  PROVE  /\ Put(c, v, x) \in BcacheType(Val)
         /\ Put(c, v, x).mru = c.mru
         /\ Put(c, v, x).buf[v] = x
         /\ \A u \in Bufs : u # v => Put(c, v, x).buf[u] = c.buf[u]
<1> DEFINE f == [c.buf EXCEPT ![v] = x]
<1>1. c.buf \in [Bufs -> BufType(Val)] /\ c.mru \in [Bufs -> Bufs]
  BY DEF BcacheType
<1>2. /\ f \in [Bufs -> BufType(Val)]
      /\ f[v] = x
      /\ \A u \in Bufs : u # v => f[u] = c.buf[u]
  BY <1>1, ZenonT(60)
<1>3. Put(c, v, x) = [c EXCEPT !.buf = f]
  BY DEF Put
<1>4. Put(c, v, x).buf = f /\ Put(c, v, x).mru = c.mru
  BY <1>3 DEF BcacheType
<1>5. Put(c, v, x) \in BcacheType(Val)
  BY <1>1, <1>2, <1>3 DEF BcacheType
<1> QED  BY <1>2, <1>4, <1>5, ZenonT(60)

\* brelse of a buffer with one holder.
LEMMA BrelseLemma ==
  ASSUME NEW c \in BcacheType(Val), NEW v \in Bufs, c.buf[v].refcnt = 1
  PROVE  /\ brelse(c, v) \in BcacheType(Val)
         /\ brelse(c, v).buf[v] = [c.buf[v] EXCEPT !.refcnt = 0]
         /\ \A u \in Bufs : u # v => brelse(c, v).buf[u] = c.buf[u]
<1> DEFINE x == [c.buf[v] EXCEPT !.refcnt = 0]
           r == Put(c, v, x)
<1>0. c.buf[v] \in BufType(Val)
  BY DEF BcacheType
<1>1. x \in BufType(Val) /\ x.refcnt = 0
  BY <1>0 DEF BufType
<1>2. [c.buf[v] EXCEPT !.refcnt = @ - 1] = x
  OBVIOUS
<1>3. /\ r \in BcacheType(Val)
      /\ r.buf[v] = x
      /\ \A u \in Bufs : u # v => r.buf[u] = c.buf[u]
  BY <1>1, PutLemma
<1>4. brelse(c, v) = [r EXCEPT !.mru = ToFront(@, v)]
  BY <1>1, <1>2, <1>3, ZenonT(60) DEF brelse
<1>5. ToFront(r.mru, v) \in [Bufs -> Bufs]
  <2>1. r.mru \in [Bufs -> Bufs]
    BY <1>3 DEF BcacheType
  <2> QED  BY <2>1, NBUFAssumption DEF ToFront, Bufs
<1>6. /\ [r EXCEPT !.mru = ToFront(@, v)] \in BcacheType(Val)
      /\ [r EXCEPT !.mru = ToFront(@, v)].buf = r.buf
  BY <1>3, <1>5, ZenonT(60) DEF BcacheType
<1> QED  BY <1>3, <1>4, <1>6, ZenonT(60)

\* The cache changes in buffer v only, which becomes x.
Changes(v, x) ==
  /\ bc' \in BcacheType(Val)
  /\ bc'.buf[v] = x
  /\ \A u \in Bufs : u # v => bc'.buf[u] = bc.buf[u]

\* A step that touches neither the disk nor a queued buffer, and lets nobody
\* begin or end waiting, keeps what the invariant says of the queue.
LEMMA QueueKept ==
  ASSUME QueueInv, CmdInv, Waiting' = Waiting,
         \A u \in Waiting : bc'.buf[u] = bc.buf[u],
         UNCHANGED <<disk, idequeue, qnext, cmd, irq>>
  PROVE  QueueInv' /\ CmdInv'
<1>1. QueueInv'
  BY Zenon DEF QueueInv
<1>2. idequeue # Null => bc'.buf[idequeue] = bc.buf[idequeue]
  BY HeadLemma
<1>3. CmdInv'
  BY <1>2, ZenonT(60) DEF CmdInv, Dirty
<1> QED  BY <1>1, <1>3

------------------------------------------------------------------------------
(* The steps.                                                                *)

\* A process goes from its label to l, outside the queue, and leaves x in its
\* buffer.
LEMMA OwnStep ==
  ASSUME IInv, NEW p \in Proc, NEW v \in Bufs, NEW x, NEW l,
         v = buf[p], pc[p] # "idle", v \notin Waiting,
         l \in {"iderw", "have", "stored"},
         pc' = [pc EXCEPT ![p] = l], Changes(v, x),
         UNCHANGED <<disk, idequeue, qnext, cmd, irq, buf, stopped>>,
         x.blockno = bc.buf[v].blockno, x.refcnt = bc.buf[v].refcnt,
         l = "iderw" <=> ~(B_VALID \in x.flags /\ B_DIRTY \notin x.flags),
         l = "stored" \/ B_DIRTY \in x.flags => x.data \in Val,
         ~Errors /\ l = "have" => x.data = disk[x.blockno]
  PROVE  IInv'
<1>0. /\ TypeOK /\ OneCopy /\ QueueInv /\ CmdInv
      /\ \A q \in Proc : ProcInv(q)
      /\ \A u \in Bufs : BufInv(u)
      /\ ~Errors => \A u \in Bufs : AgreeInv(u)
  BY ZenonT(60) DEF IInv
<1>1. /\ buf' = buf /\ pc'[p] = l /\ bc'.buf[v] = x
      /\ \A q \in Proc : q # p => pc'[q] = pc[q]
      /\ \A u \in Bufs : u # v => bc'.buf[u] = bc.buf[u]
      /\ \A q \in Proc : buf[q] = v <=> q = p
      /\ \A q \in Proc : buf[q] # Null => buf[q] \in Bufs
  <2>1. /\ pc \in [Proc -> {"idle", "bread", "iderw", "wait", "have", "stored"}]
        /\ buf \in [Proc -> Bufs \cup {Null}]
    BY <1>0, Zenon DEF TypeOK
  <2>2. \A q \in Proc : buf[q] = v <=> q = p
    BY OwnLemma, Zenon
  <2>3. \A q \in Proc : buf[q] # Null => buf[q] \in Bufs
    BY <2>1, ZenonT(60)
  <2>4. buf' = buf /\ pc'[p] = l /\ \A q \in Proc : q # p => pc'[q] = pc[q]
    BY <2>1, ZenonT(60)
  <2> QED  BY <2>2, <2>3, <2>4, Zenon DEF Changes
<1>2. TypeOK'
  BY <1>0, ZenonT(60) DEF TypeOK, Changes
<1>3. OneCopy'
  BY <1>0, <1>1 DEF OneCopy
<1>4. Waiting' = Waiting
  <2>1. ASSUME NEW u \in Waiting' PROVE u \in Waiting
    <3>1. PICK q \in Proc : /\ buf[q] = u /\ pc'[q] = "wait"
                            /\ (~Valid(bc', u) \/ Dirty(bc', u)) /\ u \in Bufs
      BY <1>1, ZenonT(60) DEF Waiting
    <3>2. q # p
      BY <1>1, <3>1, ZenonT(60)
    <3>3. u # v
      BY <1>1, <3>1, <3>2, ZenonT(60)
    <3> QED  BY <1>1, <3>1, <3>2, <3>3 DEF Waiting, Valid, Dirty
  <2>2. ASSUME NEW u \in Waiting PROVE u \in Waiting'
    <3>1. PICK q \in Proc : /\ buf[q] = u /\ pc[q] = "wait"
                            /\ (~Valid(bc, u) \/ Dirty(bc, u)) /\ u \in Bufs
      BY ZenonT(60) DEF Waiting
    <3>2. u # v
      BY ZenonT(60)
    <3>3. q # p
      BY <3>1, <3>2, ZenonT(60)
    <3> QED  BY <1>1, <3>1, <3>2, <3>3, ZenonT(60) DEF Waiting, Valid, Dirty
  <2> QED  BY <2>1, <2>2, Zenon
<1>5. QueueInv' /\ CmdInv'
  <2>1. \A u \in Waiting : bc'.buf[u] = bc.buf[u]
    BY <1>1, ZenonT(60) DEF Waiting
  <2> QED  BY <1>0, <1>4, <2>1, QueueKept, Zenon
<1>6. ASSUME NEW q \in Proc PROVE ProcInv(q)'
  <2>1. CASE q = p
    <3>1. buf[p] # Null /\ bc.buf[buf[p]].blockno \in BlockNo
      BY OwnLemma, Zenon
    <3>2. /\ pc'[p] # "idle" /\ buf'[p] = v /\ v # Null
          /\ bc'.buf[v].blockno \in BlockNo
          /\ \A r \in Proc : buf'[r] = v => r = p
      BY <1>1, <3>1, Zenon
    <3>3. /\ pc'[p] \in {"have", "stored"} => Done(v)'
          /\ pc'[p] = "iderw" => ~Done(v)'
          /\ pc'[p] # "bread"
          /\ pc'[p] = "stored" => bc'.buf[v].data \in Val
      BY <1>1, Zenon DEF Done, Valid, Dirty
    <3> QED  BY <2>1, <3>2, <3>3, Zenon DEF ProcInv, Done
  <2>2. CASE q # p
    <3>1. buf[q] # Null => bc'.buf[buf[q]] = bc.buf[buf[q]]
      BY <1>1, <2>2, ZenonT(60)
    <3>2. ProcInv(q) /\ pc'[q] = pc[q] /\ buf' = buf
      BY <1>0, <1>1, <2>2, ZenonT(60)
    <3>3. pc[q] # "idle" => buf[q] # Null
      BY <3>2, ZenonT(60) DEF ProcInv
    <3> QED  BY <3>1, <3>2, <3>3, Zenon DEF ProcInv, Done, Valid, Dirty
  <2> QED  BY <2>1, <2>2, ZenonT(60)
<1>7. ASSUME NEW u \in Bufs PROVE BufInv(u)'
  <2>1. CASE u = v
    <3>1. BufInv(v) /\ bc.buf[v].blockno \in BlockNo
      BY <1>0, OwnLemma, ZenonT(60)
    <3>2. bc'.buf[v].refcnt = IF \E q \in Proc : buf'[q] = v THEN 1 ELSE 0
      BY <1>1, <3>1, ZenonT(60) DEF BufInv
    <3>3. Dirty(bc', v) => /\ bc'.buf[v].data \in Val
                           /\ buf'[p] = v /\ pc'[p] \in {"iderw", "wait"}
      BY <1>1, ZenonT(60) DEF Dirty
    <3> QED  BY <1>1, <2>1, <3>1, <3>2, <3>3, Zenon DEF BufInv
  <2>2. CASE u # v
    <3>1. BufInv(u) /\ bc'.buf[u] = bc.buf[u] /\ buf' = buf
      BY <1>0, <1>1, <2>2, ZenonT(60)
    <3>2. \A q \in Proc : buf[q] = u => pc'[q] = pc[q]
      BY <1>1, <2>2, ZenonT(60)
    <3> QED  BY <3>1, <3>2, Zenon DEF BufInv, Valid, Dirty
  <2> QED  BY <2>1, <2>2, ZenonT(60)
<1>8. ASSUME ~Errors, NEW u \in Bufs PROVE AgreeInv(u)'
  <2>1. CASE u = v
    BY <1>1, <1>8, <2>1, ZenonT(60) DEF AgreeInv, Done, Valid, Dirty
  <2>2. CASE u # v
    <3>1. AgreeInv(u) /\ bc'.buf[u] = bc.buf[u] /\ buf' = buf /\ disk' = disk
      BY <1>0, <1>1, <1>8, <2>2, ZenonT(60)
    <3>2. \A q \in Proc : buf[q] = u => pc'[q] = pc[q]
      BY <1>1, <2>2
    <3> QED  BY <3>1, <3>2, Zenon DEF AgreeInv, Done, Valid, Dirty
  <2> QED  BY <2>1, <2>2
<1> QED  BY <1>2, <1>3, <1>5, <1>6, <1>7, <1>8, ZenonT(60) DEF IInv

\* bread: the process has its buffer, or asks the disk for it.
LEMMA BreadStep ==
  ASSUME IInv, NEW p \in Proc, bread(p)
  PROVE  IInv'
<1>1. PICK v \in Bufs : v = buf[p]
  BY OwnLemma, ZenonT(60) DEF bread, Here
<1> DEFINE l == IF Valid(bc, v) THEN "have" ELSE "iderw"
<1>2. /\ pc[p] = "bread" /\ pc' = [pc EXCEPT ![p] = l]
      /\ UNCHANGED <<bc, disk, idequeue, qnext, cmd, irq, buf, stopped>>
  BY <1>1, ZenonT(60) DEF bread, Here, Goto
<1>3. v \notin Waiting
  BY <1>1, <1>2, WaitingLemma
<1>4. ~Dirty(bc, v)
  BY <1>1, <1>2, ZenonT(60) DEF IInv, ProcInv
<1>5. Changes(v, bc.buf[v])
  BY <1>2, ZenonT(60) DEF IInv, TypeOK, Changes
<1>6. \A q \in Proc : buf[q] = v => q = p
  BY <1>1, <1>2, OwnLemma, ZenonT(60)
<1>7. ~Errors /\ l = "have" => bc.buf[v].data = disk[bc.buf[v].blockno]
  BY <1>2, <1>4, <1>6, ZenonT(60) DEF IInv, AgreeInv, Done
<1>8. /\ l \in {"iderw", "have", "stored"} /\ l # "stored"
      /\ l = "iderw" <=> ~(B_VALID \in bc.buf[v].flags /\ B_DIRTY \notin bc.buf[v].flags)
      /\ B_DIRTY \notin bc.buf[v].flags
  BY <1>4, ZenonT(60) DEF Valid, Dirty
<1> HIDE DEF l
<1> QED  BY <1>1, <1>2, <1>3, <1>5, <1>7, <1>8, OwnStep, Zenon

\* The end of the wait.
LEMMA WaitedStep ==
  ASSUME IInv, NEW p \in Proc, waited(p)
  PROVE  IInv'
<1>1. PICK v \in Bufs : v = buf[p]
  BY OwnLemma, ZenonT(60) DEF waited, Here
<1>2. /\ pc[p] = "wait" /\ pc' = [pc EXCEPT ![p] = "have"]
      /\ Valid(bc, v) /\ ~Dirty(bc, v)
      /\ UNCHANGED <<bc, disk, idequeue, qnext, cmd, irq, buf, stopped>>
  BY <1>1 DEF waited, Here, Goto
<1>3. v \notin Waiting
  BY <1>2 DEF Waiting
<1>4. Changes(v, bc.buf[v])
  BY <1>2, ZenonT(60) DEF IInv, TypeOK, Changes
<1>5. \A q \in Proc : buf[q] = v => q = p
  BY <1>1, <1>2, OwnLemma, ZenonT(60)
<1>6. ~Errors => bc.buf[v].data = disk[bc.buf[v].blockno]
  BY <1>2, <1>5, ZenonT(60) DEF IInv, AgreeInv, Done
<1>7. B_VALID \in bc.buf[v].flags /\ B_DIRTY \notin bc.buf[v].flags
  BY <1>2, ZenonT(60) DEF Valid, Dirty
<1> QED  BY <1>1, <1>2, <1>3, <1>4, <1>6, <1>7, OwnStep, Zenon

\* The caller's store.
LEMMA StoreStep ==
  ASSUME IInv, NEW p \in Proc, NEW d \in Val, store(p, d)
  PROVE  IInv'
<1>1. PICK v \in Bufs : v = buf[p]
  BY OwnLemma, ZenonT(60) DEF store, Here
<1> DEFINE x == [bc.buf[v] EXCEPT !.data = d]
<1>2. /\ pc[p] = "have" /\ pc' = [pc EXCEPT ![p] = "stored"]
      /\ bc' = Put(bc, v, x)
      /\ UNCHANGED <<disk, idequeue, qnext, cmd, irq, buf, stopped>>
  BY <1>1 DEF store, Here, Goto, SetData
<1>3. v \notin Waiting /\ Done(v)
  BY <1>1, <1>2, WaitingLemma, ZenonT(60) DEF IInv, ProcInv
<1>4. bc.buf[v] \in BufType(Val)
  BY <1>1, <1>2, OwnLemma
<1>5. /\ x \in BufType(Val) /\ x.data = d
      /\ x.blockno = bc.buf[v].blockno /\ x.refcnt = bc.buf[v].refcnt
      /\ x.flags = bc.buf[v].flags
  BY <1>4 DEF BufType
<1>6. B_VALID \in x.flags /\ B_DIRTY \notin x.flags
  BY <1>3, <1>5 DEF Done, Valid, Dirty
<1> HIDE DEF x
<1>7. Changes(v, x)
  <2>1. bc \in BcacheType(Val)
    BY ZenonT(60) DEF IInv, TypeOK
  <2> QED  BY <1>2, <1>5, <2>1, PutLemma, Zenon DEF Changes
<1> QED  BY <1>1, <1>2, <1>3, <1>5, <1>6, <1>7, OwnStep, Zenon

\* bwrite's B_DIRTY.
LEMMA BwriteStep ==
  ASSUME IInv, NEW p \in Proc, bwrite(p)
  PROVE  IInv'
<1>1. PICK v \in Bufs : v = buf[p]
  BY OwnLemma, ZenonT(60) DEF bwrite, Here
<1> DEFINE x == [bc.buf[v] EXCEPT !.flags = @ \cup {B_DIRTY}]
<1>2. /\ pc[p] = "stored" /\ pc' = [pc EXCEPT ![p] = "iderw"]
      /\ bc' = Put(bc, v, x)
      /\ UNCHANGED <<disk, idequeue, qnext, cmd, irq, buf, stopped>>
  BY <1>1, ZenonT(60) DEF bwrite, Here, Goto, SetDirty
<1>3. v \notin Waiting /\ bc.buf[v].data \in Val
  BY <1>1, <1>2, WaitingLemma, ZenonT(60) DEF IInv, ProcInv
<1>4. bc.buf[v] \in BufType(Val)
  BY <1>1, <1>2, OwnLemma, ZenonT(60)
<1>5. /\ x \in BufType(Val) /\ x.data = bc.buf[v].data
      /\ x.blockno = bc.buf[v].blockno /\ x.refcnt = bc.buf[v].refcnt
      /\ B_DIRTY \in x.flags
  BY <1>4 DEF BufType
<1> HIDE DEF x
<1>6. Changes(v, x)
  <2>1. bc \in BcacheType(Val)
    BY ZenonT(60) DEF IInv, TypeOK
  <2> QED  BY <1>2, <1>5, <2>1, PutLemma, Zenon DEF Changes
<1> QED  BY <1>1, <1>2, <1>3, <1>5, <1>6, OwnStep, Zenon

\* brelse.
LEMMA ReleaseStep ==
  ASSUME IInv, NEW p \in Proc, release(p)
  PROVE  IInv'
<1>0. /\ TypeOK /\ OneCopy /\ QueueInv /\ CmdInv
      /\ \A q \in Proc : ProcInv(q)
      /\ \A u \in Bufs : BufInv(u)
      /\ ~Errors => \A u \in Bufs : AgreeInv(u)
  BY DEF IInv
<1>1. PICK v \in Bufs : v = buf[p]
  BY OwnLemma, ZenonT(60) DEF release, Here
<1> DEFINE x == [bc.buf[v] EXCEPT !.refcnt = 0]
<1>2. /\ pc[p] = "have" /\ pc' = [pc EXCEPT ![p] = "idle"]
      /\ bc' = brelse(bc, v) /\ buf' = [buf EXCEPT ![p] = Null]
      /\ UNCHANGED <<disk, idequeue, qnext, cmd, irq, stopped>>
  BY <1>1 DEF release, Here, Goto
<1>3. v \notin Waiting /\ Done(v)
  BY <1>1, <1>2, WaitingLemma, ZenonT(60) DEF IInv, ProcInv
<1>4. bc.buf[v] \in BufType(Val) /\ bc.buf[v].refcnt = 1 /\ v # Null
  BY <1>1, <1>2, OwnLemma, ZenonT(60)
<1>5. /\ x.data = bc.buf[v].data /\ x.refcnt = 0
      /\ x.blockno = bc.buf[v].blockno /\ x.flags = bc.buf[v].flags
  BY <1>4 DEF BufType
<1> HIDE DEF x
<1>6. Changes(v, x)
  <2>1. bc \in BcacheType(Val)
    BY <1>0, ZenonT(60) DEF TypeOK
  <2> QED  BY <1>2, <1>4, <2>1, BrelseLemma, Zenon DEF Changes, x
<1>7. /\ pc'[p] = "idle" /\ buf'[p] = Null /\ bc'.buf[v] = x
      /\ \A q \in Proc : q # p => pc'[q] = pc[q] /\ buf'[q] = buf[q]
      /\ \A u \in Bufs : u # v => bc'.buf[u] = bc.buf[u]
      /\ \A q \in Proc : buf[q] = v <=> q = p
      /\ \A q \in Proc : buf[q] # Null => buf[q] \in Bufs
      /\ \A q \in Proc : buf'[q] # v
  BY <1>0, <1>1, <1>2, <1>4, <1>6, OwnLemma, ZenonT(60) DEF TypeOK, Changes
<1>8. TypeOK'
  BY <1>0, <1>2, <1>6, ZenonT(60) DEF TypeOK, Changes
<1>9. OneCopy'
  BY <1>0, <1>5, <1>7 DEF OneCopy
<1>10. Waiting' = Waiting
  <2>1. ASSUME NEW u \in Waiting' PROVE u \in Waiting
    <3>1. PICK q \in Proc : /\ buf'[q] = u /\ pc'[q] = "wait"
                            /\ (~Valid(bc', u) \/ Dirty(bc', u)) /\ u \in Bufs
      BY ZenonT(60) DEF Waiting
    <3>2. q # p /\ u # v
      BY <1>7, <3>1, ZenonT(60)
    <3> QED  BY <1>7, <3>1, <3>2, ZenonT(60) DEF Waiting, Valid, Dirty
  <2>2. ASSUME NEW u \in Waiting PROVE u \in Waiting'
    <3>1. PICK q \in Proc : /\ buf[q] = u /\ pc[q] = "wait"
                            /\ (~Valid(bc, u) \/ Dirty(bc, u)) /\ u \in Bufs
      BY DEF Waiting
    <3>2. q # p /\ u # v
      BY <1>2, <1>3, <3>1
    <3> QED  BY <1>7, <3>1, <3>2, ZenonT(60) DEF Waiting, Valid, Dirty
  <2> QED  BY <2>1, <2>2, Zenon
<1>11. QueueInv' /\ CmdInv'
  <2>1. \A u \in Waiting : bc'.buf[u] = bc.buf[u]
    BY <1>3, <1>7, ZenonT(60) DEF Waiting
  <2> QED  BY <1>0, <1>2, <1>10, <2>1, QueueKept, Zenon
<1>12. ASSUME NEW q \in Proc PROVE ProcInv(q)'
  <2>1. CASE q = p
    BY <1>7, <2>1, Zenon DEF ProcInv
  <2>2. CASE q # p
    <3>1. ProcInv(q) /\ pc'[q] = pc[q] /\ buf'[q] = buf[q]
      BY <1>0, <1>7, <2>2, ZenonT(60)
    <3>2. buf[q] # Null => bc'.buf[buf[q]] = bc.buf[buf[q]]
      BY <1>7, <2>2, ZenonT(60)
    <3>3. pc[q] # "idle" => buf[q] # Null
      BY <3>1, ZenonT(60) DEF ProcInv
    <3>4. buf[q] # Null => \A r \in Proc : buf'[r] = buf[q] => r = q
      BY <1>7, <3>1, ZenonT(60) DEF ProcInv
    <3> QED  BY <3>1, <3>2, <3>3, <3>4, Zenon DEF ProcInv, Done, Valid, Dirty
  <2> QED  BY <2>1, <2>2
<1>13. ASSUME NEW u \in Bufs PROVE BufInv(u)'
  <2>1. CASE u = v
    BY <1>0, <1>3, <1>5, <1>7, <2>1, ZenonT(60) DEF BufInv, Done, Valid, Dirty
  <2>2. CASE u # v
    <3>1. BufInv(u) /\ bc'.buf[u] = bc.buf[u]
      BY <1>0, <1>7, <2>2, ZenonT(60)
    <3>2. \A q \in Proc : buf[q] = u => pc'[q] = pc[q] /\ buf'[q] = u
      BY <1>7, <2>2, ZenonT(60)
    <3>3. \A q \in Proc : buf'[q] = u => buf[q] = u
      BY <1>7, <1>4, NullLemma, ZenonT(60)
    <3> QED  BY <3>1, <3>2, <3>3, Zenon DEF BufInv, Valid, Dirty
  <2> QED  BY <2>1, <2>2
<1>14. ASSUME ~Errors, NEW u \in Bufs PROVE AgreeInv(u)'
  <2>0. AgreeInv(u) /\ disk' = disk
    BY <1>0, <1>2, <1>14
  <2>1. CASE u = v
    <3>1. \A q \in Proc : buf[q] = v => pc[q] # "stored"
      BY <1>2, <1>7, ZenonT(60)
    <3> QED  BY <1>3, <1>5, <1>7, <2>0, <2>1, <3>1, ZenonT(60) DEF AgreeInv, Done, Valid, Dirty
  <2>2. CASE u # v
    <3>1. bc'.buf[u] = bc.buf[u]
      BY <1>7, <2>2
    <3>2. \A q \in Proc : buf[q] = u => pc'[q] = pc[q] /\ buf'[q] = u
      BY <1>7, <2>2
    <3> QED  BY <2>0, <3>1, <3>2, Zenon DEF AgreeInv, Done, Valid, Dirty
  <2> QED  BY <2>1, <2>2
<1> QED  BY <1>8, <1>9, <1>11, <1>12, <1>13, <1>14 DEF IInv

\* The buffer that bget returns: the block's buffer with its holder counted, or a
\* recycled one that is not valid.
LEMMA BgetCell ==
  ASSUME NEW r \in BufType(Val), NEW b \in BlockNo, NEW y,
         r.refcnt = 0, B_DIRTY \notin r.flags,
         \/ r.blockno = b /\ y = [r EXCEPT !.refcnt = @ + 1]
         \/ y = Buffer(b, {}, 1, NoData)
  PROVE  LET x == [y EXCEPT !.data = r.data]
         IN  /\ y \in BufType(Val) /\ x \in BufType(Val)
             /\ x.blockno = b /\ x.refcnt = 1 /\ x.data = r.data
             /\ B_DIRTY \notin x.flags
             /\ B_VALID \in x.flags => r.blockno = b /\ B_VALID \in r.flags
<1>1. /\ y \in BufType(Val) /\ y.blockno = b /\ y.refcnt = 1
      /\ y.flags = {} \/ (y.flags = r.flags /\ r.blockno = b)
  <2>1. CASE r.blockno = b /\ y = [r EXCEPT !.refcnt = @ + 1]
    BY <2>1 DEF BufType
  <2>2. CASE y = Buffer(b, {}, 1, NoData)
    BY <2>2 DEF BufType, Buffer
  <2> QED  BY <2>1, <2>2
<1> DEFINE x == [y EXCEPT !.data = r.data]
<1>2. /\ x \in BufType(Val)
      /\ x.blockno = y.blockno /\ x.refcnt = y.refcnt /\ x.flags = y.flags
      /\ x.data = r.data
  BY <1>1 DEF BufType
<1> QED  BY <1>1, <1>2

\* What bget does to the cache.
BgetOf(b, v, x) ==
  /\ Changes(v, x) /\ x.blockno = b /\ x.refcnt = 1
  /\ x.data = bc.buf[v].data /\ B_DIRTY \notin x.flags
  /\ B_VALID \in x.flags => bc.buf[v].blockno = b /\ Valid(bc, v)
  /\ \A u \in Bufs : u # v => bc.buf[u].blockno # b

\* bget changes the buffer it returns and no other.
LEMMA BgetLemma ==
  ASSUME bc \in BcacheType(Val), OneCopy, NEW b \in BlockNo, NEW v \in Bufs,
         Bget(bc, b, v), bc.buf[v].refcnt = 0, ~Dirty(bc, v),
         bc' = [AfterBget(bc, b, v) EXCEPT !.buf[v].data = bc.buf[v].data]
  PROVE  \E x : BgetOf(b, v, x)
<1> DEFINE c == AfterBget(bc, b, v)
           y == IF Cached(bc, b) THEN [bc.buf[v] EXCEPT !.refcnt = @ + 1]
                ELSE Buffer(b, {}, 1, NoData)
           x == [y EXCEPT !.data = bc.buf[v].data]
<1>1. bc.buf[v] \in BufType(Val) /\ B_DIRTY \notin bc.buf[v].flags
  BY DEF BcacheType, Dirty
<1>2. Cached(bc, b) => bc.buf[v].blockno = b
  BY DEF Bget, Hit
<1>3. c = Put(bc, v, y)
  BY ZenonT(60) DEF AfterBget
<1>4. bc' = Put(c, v, [c.buf[v] EXCEPT !.data = bc.buf[v].data])
  <2>1. bc' = [c EXCEPT !.buf[v].data = bc.buf[v].data]
    OBVIOUS
  <2> HIDE DEF c
  <2> QED  BY <2>1, ZenonT(60) DEF Put
<1>5. \/ bc.buf[v].blockno = b /\ y = [bc.buf[v] EXCEPT !.refcnt = @ + 1]
      \/ y = Buffer(b, {}, 1, NoData)
  BY <1>2
<1> HIDE DEF y, c
<1>6. /\ y \in BufType(Val) /\ x \in BufType(Val)
      /\ x.blockno = b /\ x.refcnt = 1 /\ x.data = bc.buf[v].data
      /\ B_DIRTY \notin x.flags
      /\ B_VALID \in x.flags => bc.buf[v].blockno = b /\ B_VALID \in bc.buf[v].flags
  BY <1>1, <1>5, BgetCell, Zenon
<1>7. /\ c \in BcacheType(Val) /\ c.buf[v] = y
      /\ \A u \in Bufs : u # v => c.buf[u] = bc.buf[u]
  <2>1. y \in BufType(Val)
    BY <1>6
  <2> QED  BY <1>3, <2>1, PutLemma, Zenon
<1>8. bc' = Put(c, v, x)
  BY <1>4, <1>7, Zenon
<1> HIDE DEF x
<1>9. /\ bc' \in BcacheType(Val) /\ bc'.buf[v] = x
      /\ \A u \in Bufs : u # v => bc'.buf[u] = c.buf[u]
  <2>1. x \in BufType(Val) /\ c \in BcacheType(Val)
    BY <1>6, <1>7
  <2>2. /\ Put(c, v, x) \in BcacheType(Val) /\ Put(c, v, x).buf[v] = x
        /\ \A u \in Bufs : u # v => Put(c, v, x).buf[u] = c.buf[u]
    BY <2>1, PutLemma, Zenon
  <2> QED  BY <1>8, <2>2, ZenonT(60)
<1>10. Changes(v, x)
  BY <1>7, <1>9, Zenon DEF Changes
<1>11. ASSUME NEW u \in Bufs, u # v PROVE bc.buf[u].blockno # b
  <2>1. b # NoBlock
    BY NoBlockAssumption
  <2> QED  BY <1>2, <1>11, <2>1, Zenon DEF OneCopy, Cached
<1> QED  BY <1>6, <1>10, <1>11, Zenon DEF BgetOf, Valid

\* A buffer that bget may return without a panic has no holder when nobody else
\* uses the block.
LEMMA BgetFree ==
  ASSUME IInv, NEW p \in Proc, NEW b \in BlockNo, NEW v \in Bufs,
         pc[p] = "idle", \A q \in Proc \ {p} : b \notin Uses(q), Bget(bc, b, v)
  PROVE  /\ \A q \in Proc : buf[q] # v
         /\ bc.buf[v].refcnt = 0 /\ ~Dirty(bc, v)
<1>0. BufInv(v) /\ buf[p] = Null
  BY ZenonT(60) DEF IInv, ProcInv
<1>1. \A q \in Proc : buf[q] # v
  <2>1. CASE Cached(bc, b)
    <3>1. bc.buf[v].blockno = b
      BY <2>1, ZenonT(60) DEF Bget, Hit
    <3> QED  BY <1>0, <3>1, NullLemma, ZenonT(60) DEF Uses
  <2>2. CASE ~Cached(bc, b)
    <3>1. bc.buf[v].refcnt = 0
      BY <2>2, ZenonT(60) DEF Bget, Victim, Unused
    <3> QED  BY <1>0, <3>1 DEF BufInv
  <2> QED  BY <2>1, <2>2, ZenonT(60)
<1> QED  BY <1>0, <1>1, ZenonT(60) DEF BufInv

\* bget without a panic: a buffer that nobody holds gets its holder.
LEMMA BgetStep ==
  ASSUME IInv, NEW p \in Proc, NEW b \in BlockNo, NEW v \in Bufs, NEW x,
         pc[p] = "idle", \A q \in Proc : buf[q] # v,
         bc.buf[v].refcnt = 0, ~Dirty(bc, v), BgetOf(b, v, x),
         buf' = [buf EXCEPT ![p] = v], pc' = [pc EXCEPT ![p] = "bread"],
         UNCHANGED <<disk, idequeue, qnext, cmd, irq, stopped>>
  PROVE  IInv'
<1>0. /\ TypeOK /\ OneCopy /\ QueueInv /\ CmdInv
      /\ \A q \in Proc : ProcInv(q)
      /\ \A u \in Bufs : BufInv(u)
      /\ ~Errors => \A u \in Bufs : AgreeInv(u)
  BY ZenonT(60) DEF IInv
<1>1. pc[p] = "idle" /\ buf[p] = Null /\ v # Null /\ b # NoBlock
  BY <1>0, NullLemma, NoBlockAssumption, ZenonT(60) DEF ProcInv
<1>2. \A q \in Proc : buf[q] # v
  BY ZenonT(60)
<1>3. v \notin Waiting /\ ~Dirty(bc, v)
  BY ZenonT(60) DEF Waiting
<1>4. /\ x.blockno = b /\ x.refcnt = 1
      /\ x.data = bc.buf[v].data /\ B_DIRTY \notin x.flags
      /\ B_VALID \in x.flags => bc.buf[v].blockno = b /\ Valid(bc, v)
  BY ZenonT(60) DEF BgetOf
<1>5. Changes(v, x)
  BY ZenonT(60) DEF BgetOf
<1>6. /\ pc'[p] = "bread" /\ buf'[p] = v /\ bc'.buf[v] = x
      /\ \A q \in Proc : q # p => pc'[q] = pc[q] /\ buf'[q] = buf[q]
      /\ \A u \in Bufs : u # v => bc'.buf[u] = bc.buf[u]
      /\ \A q \in Proc : buf'[q] = v <=> q = p
      /\ \A q \in Proc : buf[q] # Null => buf[q] \in Bufs /\ buf[q] # v
  BY <1>0, <1>2, <1>5, ZenonT(60) DEF TypeOK, Changes
<1>7. TypeOK'
  BY <1>0, <1>5, ZenonT(60) DEF TypeOK, Changes
<1>8. OneCopy'
  <2>1. \A u \in Bufs : u # v => bc.buf[u].blockno # b
    BY ZenonT(60) DEF BgetOf
  <2> QED  BY <1>0, <1>4, <1>6, <2>1 DEF OneCopy
<1>9. Waiting' = Waiting
  <2>1. ASSUME NEW u \in Waiting' PROVE u \in Waiting
    <3>1. PICK q \in Proc : /\ buf'[q] = u /\ pc'[q] = "wait"
                            /\ (~Valid(bc', u) \/ Dirty(bc', u)) /\ u \in Bufs
      BY ZenonT(60) DEF Waiting
    <3>2. q # p /\ u # v
      BY <1>6, <3>1, ZenonT(60)
    <3> QED  BY <1>6, <3>1, <3>2 DEF Waiting, Valid, Dirty
  <2>2. ASSUME NEW u \in Waiting PROVE u \in Waiting'
    <3>1. PICK q \in Proc : /\ buf[q] = u /\ pc[q] = "wait"
                            /\ (~Valid(bc, u) \/ Dirty(bc, u)) /\ u \in Bufs
      BY ZenonT(60) DEF Waiting
    <3>2. q # p /\ u # v
      BY <1>1, <1>3, <3>1, ZenonT(60)
    <3> QED  BY <1>6, <3>1, <3>2 DEF Waiting, Valid, Dirty
  <2> QED  BY <2>1, <2>2, Zenon
<1>10. QueueInv' /\ CmdInv'
  <2>1. \A u \in Waiting : bc'.buf[u] = bc.buf[u]
    BY <1>3, <1>6, ZenonT(60) DEF Waiting
  <2> QED  BY <1>0, <1>9, <2>1, QueueKept, Zenon
<1>11. ASSUME NEW q \in Proc PROVE ProcInv(q)'
  <2>1. CASE q = p
    BY <1>1, <1>4, <1>6, <2>1 DEF ProcInv, Done, Valid, Dirty
  <2>2. CASE q # p
    <3>1. ProcInv(q) /\ pc'[q] = pc[q] /\ buf'[q] = buf[q]
      BY <1>0, <1>6, <2>2, ZenonT(60)
    <3>2. buf[q] # Null => bc'.buf[buf[q]] = bc.buf[buf[q]]
      BY <1>6, ZenonT(60)
    <3>3. pc[q] # "idle" => buf[q] # Null
      BY <3>1, ZenonT(60) DEF ProcInv
    <3>4. buf[q] # Null => \A r \in Proc : buf'[r] = buf[q] => r = q
      BY <1>6, <3>1, ZenonT(60) DEF ProcInv
    <3> QED  BY <3>1, <3>2, <3>3, <3>4, Zenon DEF ProcInv, Done, Valid, Dirty
  <2> QED  BY <2>1, <2>2, ZenonT(60)
<1>12. ASSUME NEW u \in Bufs PROVE BufInv(u)'
  <2>1. CASE u = v
    BY <1>4, <1>6, <2>1, ZenonT(60) DEF BufInv, Dirty
  <2>2. CASE u # v
    <3>1. BufInv(u) /\ bc'.buf[u] = bc.buf[u]
      BY <1>0, <1>6, <2>2, ZenonT(60)
    <3>2. \A q \in Proc : buf[q] = u => pc'[q] = pc[q] /\ buf'[q] = u
      BY <1>1, <1>6, NullLemma, ZenonT(60)
    <3>3. \A q \in Proc : buf'[q] = u => buf[q] = u
      BY <1>6, <2>2, ZenonT(60)
    <3> QED  BY <3>1, <3>2, <3>3, Zenon DEF BufInv, Valid, Dirty
  <2> QED  BY <2>1, <2>2, ZenonT(60)
<1>13. ASSUME ~Errors, NEW u \in Bufs PROVE AgreeInv(u)'
  <2>0. AgreeInv(u) /\ disk' = disk
    BY <1>0, <1>13, ZenonT(60)
  <2>1. CASE u = v
    <3>1. \A q \in Proc : buf[q] = v => pc[q] # "stored"
      BY <1>2, ZenonT(60)
    <3> QED  BY <1>3, <1>4, <1>6, <2>0, <2>1, <3>1, ZenonT(60) DEF AgreeInv, Done, Valid, Dirty
  <2>2. CASE u # v
    <3>1. bc'.buf[u] = bc.buf[u]
      BY <1>6, <2>2, ZenonT(60)
    <3>2. \A q \in Proc : buf[q] = u => pc'[q] = pc[q] /\ buf'[q] = u
      BY <1>1, <1>6, NullLemma
    <3> QED  BY <2>0, <3>1, <3>2, Zenon DEF AgreeInv, Done, Valid, Dirty
  <2> QED  BY <2>1, <2>2
<1> QED  BY <1>7, <1>8, <1>10, <1>11, <1>12, <1>13, ZenonT(60) DEF IInv

\* The disk finishes the command of the head of the queue.
LEMMA DiskDoneStep ==
  ASSUME IInv, DiskDone
  PROVE  IInv'
<1>0. /\ TypeOK /\ OneCopy /\ QueueInv /\ CmdInv
      /\ \A q \in Proc : ProcInv(q)
      /\ \A u \in Bufs : BufInv(u)
      /\ ~Errors => \A u \in Bufs : AgreeInv(u)
  BY DEF IInv
<1>1. /\ cmd.busy /\ disk' = Finished(cmd)
      /\ cmd' = [cmd EXCEPT !.busy = FALSE] /\ irq' = TRUE
      /\ UNCHANGED <<bc, idequeue, qnext, pc, buf, stopped>>
  BY DEF DiskDone
<1>2. idequeue # Null /\ idequeue \in Waiting /\ idequeue \in Bufs
  BY <1>0, <1>1, HeadLemma DEF CmdInv, Waiting
<1>3. PICK v \in Bufs : v = idequeue
  BY <1>2
<1>4. PICK p \in Proc : buf[p] = v
  BY <1>2, <1>3, ZenonT(60) DEF Waiting
<1>5. bc.buf[v].blockno \in BlockNo
  BY <1>0, <1>2, <1>3, <1>4, ZenonT(60) DEF ProcInv
<1>6. ~irq /\ cmd.block = bc.buf[v].blockno
  BY <1>0, <1>1, <1>2, <1>3, ZenonT(60) DEF CmdInv, TypeOK
<1>7. disk' = IF Dirty(bc, v) THEN [disk EXCEPT ![bc.buf[v].blockno] = bc.buf[v].data]
              ELSE disk
  BY <1>0, <1>1, <1>2, <1>3, <1>6, ZenonT(60) DEF CmdInv, Finished
<1>8. Dirty(bc, v) => bc.buf[v].data \in Val
  BY <1>0, ZenonT(60) DEF BufInv
<1>9. disk' \in [BlockNo -> Val]
  BY <1>0, <1>7, <1>8, ZenonT(60) DEF TypeOK
<1>10. /\ cmd'.busy = FALSE /\ cmd'.op = cmd.op /\ cmd'.block = cmd.block
       /\ cmd'.data = cmd.data
       /\ cmd' \in [op : {"none", "read", "write"}, block : BlockNo \cup {NoBlock},
                    data : Val \cup {NoData}, busy : BOOLEAN]
  BY <1>0, <1>1, ZenonT(60) DEF TypeOK
<1>11. TypeOK'
  BY <1>0, <1>1, <1>9, <1>10, Zenon DEF TypeOK
<1>12. OneCopy' /\ QueueInv' /\ Waiting' = Waiting
  <2>1. Waiting' = Waiting
    BY <1>1, Zenon DEF Waiting
  <2>2. OneCopy'
    BY <1>0, <1>1, Zenon DEF OneCopy
  <2> QED  BY <1>0, <1>1, <2>1, <2>2, Zenon DEF QueueInv
<1>13. CmdInv'
  <2>1. Dirty(bc, v) => disk'[bc.buf[v].blockno] = bc.buf[v].data
    BY <1>0, <1>5, <1>7, ZenonT(60) DEF TypeOK
  <2>2. /\ cmd.block = bc.buf[v].blockno
        /\ Dirty(bc, v) => cmd.op = "write" /\ cmd.data = bc.buf[v].data
        /\ ~Dirty(bc, v) => cmd.op = "read"
    BY <1>0, <1>2, <1>3, ZenonT(60) DEF CmdInv
  <2> QED  BY <1>1, <1>2, <1>3, <1>10, <2>1, <2>2, Zenon DEF CmdInv
<1>14. ASSUME NEW q \in Proc PROVE ProcInv(q)'
  BY <1>0, <1>1, Zenon DEF ProcInv, Done
<1>15. ASSUME NEW u \in Bufs PROVE BufInv(u)'
  BY <1>0, <1>1, Zenon DEF BufInv
<1>16. ASSUME ~Errors, NEW u \in Bufs PROVE AgreeInv(u)'
  <2>1. AgreeInv(u) /\ BufInv(u)
    BY <1>0, <1>16, ZenonT(60)
  <2>2. ASSUME Done(u) PROVE disk'[bc.buf[u].blockno] = disk[bc.buf[u].blockno]
    <3>1. CASE ~Dirty(bc, v)
      BY <1>7, <3>1, ZenonT(60)
    <3>2. CASE Dirty(bc, v)
      <4>1. u # v /\ bc.buf[u].blockno \in BlockNo
        BY <2>1, <2>2, <3>2, ZenonT(60) DEF Done, BufInv
      <4>2. bc.buf[u].blockno # bc.buf[v].blockno
        BY <1>0, <4>1, NoBlockAssumption, ZenonT(60) DEF OneCopy
      <4> QED  BY <1>0, <1>7, <3>2, <4>1, <4>2, ZenonT(60) DEF TypeOK
    <3> QED  BY <3>1, <3>2, ZenonT(60)
  <2> QED  BY <1>1, <2>1, <2>2, Zenon DEF AgreeInv, Done
<1> QED  BY <1>11, <1>12, <1>13, <1>14, <1>15, <1>16, ZenonT(60) DEF IInv

\* The queue without its head.
LEMMA TailQueue ==
  ASSUME NEW s \in Seq(Bufs), NEW q, NEW qn, IsQueue(s, q, qn), Len(s) # 0
  PROVE  /\ Tail(s) \in Seq(Bufs) /\ IsQueue(Tail(s), qn[q], qn)
         /\ {Tail(s)[i] : i \in 1..Len(Tail(s))} = {s[i] : i \in 1..Len(s)} \ {q}
<1> DEFINE t == Tail(s)
<1>1. Len(s) \in Nat /\ 1 \in 1..Len(s) /\ q = s[1]
  BY DEF IsQueue
<1>2. /\ t \in Seq(Bufs) /\ Len(t) = Len(s) - 1
      /\ \A i \in 1..Len(t) : t[i] = s[i + 1] /\ i + 1 \in 1..Len(s)
  BY <1>1
<1> HIDE DEF t
<1>3. \A i, j \in 1..Len(t) : t[i] = t[j] => i = j
  <2> SUFFICES ASSUME NEW i \in 1..Len(t), NEW j \in 1..Len(t), t[i] = t[j] PROVE i = j
    BY ZenonT(60)
  <2>1. s[i + 1] = s[j + 1] /\ i + 1 \in 1..Len(s) /\ j + 1 \in 1..Len(s)
    BY <1>2, ZenonT(60)
  <2>2. i + 1 = j + 1
    BY <2>1, ZenonT(60) DEF IsQueue
  <2> QED  BY <2>2
<1>4. qn[q] = IF Len(t) = 0 THEN Null ELSE t[1]
  <2>1. qn[q] = IF 1 = Len(s) THEN Null ELSE s[1 + 1]
    BY <1>1, ZenonT(60) DEF IsQueue
  <2>2. Len(t) # 0 => 1 \in 1..Len(t)
    BY <1>1, <1>2
  <2> QED  BY <1>1, <1>2, <2>1, <2>2
<1>5. ASSUME NEW i \in 1..Len(t) PROVE qn[t[i]] = IF i = Len(t) THEN Null ELSE t[i + 1]
  <2>1. t[i] = s[i + 1] /\ i + 1 \in 1..Len(s)
    BY <1>2, ZenonT(60)
  <2>2. qn[s[i + 1]] = IF i + 1 = Len(s) THEN Null ELSE s[(i + 1) + 1]
    BY <2>1, ZenonT(60) DEF IsQueue
  <2>3. i # Len(t) => i + 1 \in 1..Len(t)
    BY <1>1, <1>2
  <2> QED  BY <1>1, <1>2, <2>1, <2>2, <2>3
<1>6. {t[i] : i \in 1..Len(t)} = {s[i] : i \in 1..Len(s)} \ {q}
  <2>1. ASSUME NEW i \in 1..Len(t) PROVE \E j \in 1..Len(s) : t[i] = s[j] /\ s[j] # q
    <3>1. t[i] = s[i + 1] /\ i + 1 \in 1..Len(s) /\ i + 1 # 1
      BY <1>2
    <3> QED  BY <1>1, <3>1, ZenonT(60) DEF IsQueue
  <2>2. ASSUME NEW j \in 1..Len(s), s[j] # q PROVE \E i \in 1..Len(t) : t[i] = s[j]
    <3>1. j # 1
      BY <1>1, <2>2, ZenonT(60)
    <3>2. j - 1 \in 1..Len(t) /\ s[(j - 1) + 1] = s[j]
      BY <1>1, <1>2, <3>1
    <3> QED  BY <1>2, <3>2, ZenonT(60)
  <2> QED  BY <2>1, <2>2
<1> QED  BY <1>2, <1>3, <1>4, <1>5, <1>6, ZenonT(60) DEF IsQueue, t

\* The queue with a buffer behind it.
LEMMA AppendQueue ==
  ASSUME NEW s \in Seq(Bufs), NEW q, NEW qn, IsQueue(s, q, qn),
         NEW v \in Bufs, \A i \in 1..Len(s) : s[i] # v,
         NEW m, m[v] = Null, Len(s) # 0 => m[s[Len(s)]] = v,
         \A i \in 1..Len(s) : i # Len(s) => m[s[i]] = qn[s[i]]
  PROVE  LET t == Append(s, v)
         IN  /\ t \in Seq(Bufs) /\ IsQueue(t, IF Len(s) = 0 THEN v ELSE q, m)
             /\ {t[i] : i \in 1..Len(t)} = {s[i] : i \in 1..Len(s)} \cup {v}
<1> DEFINE t == Append(s, v)
<1>1. Len(s) \in Nat
  OBVIOUS
<1>2. /\ t \in Seq(Bufs) /\ Len(t) = Len(s) + 1 /\ t[Len(t)] = v
      /\ \A i \in 1..Len(s) : t[i] = s[i] /\ i \in 1..Len(t)
      /\ \A i \in 1..Len(t) : i # Len(t) => i \in 1..Len(s) /\ i + 1 \in 1..Len(t)
  BY <1>1
<1> HIDE DEF t
<1>3. \A i, j \in 1..Len(t) : t[i] = t[j] => i = j
  BY <1>2 DEF IsQueue
<1>4. (IF Len(s) = 0 THEN v ELSE q) = IF Len(t) = 0 THEN Null ELSE t[1]
  <2>1. CASE Len(s) = 0
    BY <1>2, <2>1
  <2>2. CASE Len(s) # 0
    <3>1. 1 \in 1..Len(s) /\ q = s[1]
      BY <1>1, <2>2 DEF IsQueue
    <3> QED  BY <1>1, <1>2, <2>2, <3>1
  <2> QED  BY <2>1, <2>2, ZenonT(60)
<1>5. ASSUME NEW i \in 1..Len(t) PROVE m[t[i]] = IF i = Len(t) THEN Null ELSE t[i + 1]
  <2>1. CASE i = Len(t)
    BY <1>2, <2>1, ZenonT(60)
  <2>2. CASE i # Len(t)
    <3>1. i \in 1..Len(s) /\ t[i] = s[i]
      BY <1>2, <2>2, ZenonT(60)
    <3>2. CASE i = Len(s)
      BY <1>1, <1>2, <2>2, <3>1, <3>2
    <3>3. CASE i # Len(s)
      <4>1. m[s[i]] = s[i + 1]
        BY <3>1, <3>3, ZenonT(60) DEF IsQueue
      <4>2. i + 1 \in 1..Len(s)
        BY <1>1, <3>1, <3>3
      <4> QED  BY <1>2, <2>2, <3>1, <4>1, <4>2, ZenonT(60)
    <3> QED  BY <3>2, <3>3, ZenonT(60)
  <2> QED  BY <2>1, <2>2, ZenonT(60)
<1>6. {t[i] : i \in 1..Len(t)} = {s[i] : i \in 1..Len(s)} \cup {v}
  <2>1. ASSUME NEW i \in 1..Len(t) PROVE t[i] = v \/ \E j \in 1..Len(s) : t[i] = s[j]
    BY <1>2, ZenonT(60)
  <2>2. Len(t) \in 1..Len(t) /\ t[Len(t)] = v
    BY <1>1, <1>2
  <2>4. ASSUME NEW u \in {t[i] : i \in 1..Len(t)}
        PROVE  u \in {s[i] : i \in 1..Len(s)} \cup {v}
    BY <2>1
  <2>5. ASSUME NEW u \in {s[i] : i \in 1..Len(s)} \cup {v}
        PROVE  u \in {t[i] : i \in 1..Len(t)}
    <3>1. CASE u = v
      BY <2>2, <3>1, ZenonT(60)
    <3>2. CASE \E j \in 1..Len(s) : u = s[j]
      BY <1>2, <3>2
    <3> QED  BY <3>1, <3>2, ZenonT(60)
  <2> QED  BY <2>4, <2>5, Zenon
<1> QED  BY <1>2, <1>3, <1>4, <1>5, <1>6, ZenonT(60) DEF IsQueue, t

\* The interrupt comes for the head v of the queue, which becomes x.
IntrOf(v, x) ==
  /\ idequeue = v /\ irq /\ ~cmd.busy /\ Changes(v, x)
  /\ x.blockno = bc.buf[v].blockno /\ x.refcnt = 1
  /\ B_VALID \in x.flags /\ B_DIRTY \notin x.flags
  /\ ~Errors => x.data = disk[x.blockno]
  /\ idequeue' = qnext[v]
  /\ UNCHANGED <<disk, qnext, pc, buf, stopped>>
  /\ idequeue' = Null => cmd' = cmd /\ irq' = FALSE
  /\ idequeue' # Null =>
       /\ irq' = FALSE
       /\ cmd' = IF Dirty(bc', idequeue')
                 THEN Command("write", bc'.buf[idequeue'].blockno,
                              bc'.buf[idequeue'].data, TRUE)
                 ELSE Command("read", bc'.buf[idequeue'].blockno, NoData, TRUE)

\* The interrupt handler finds a request at the head of the queue and completes it.
LEMMA IntrLemma ==
  ASSUME IInv, ideintr
  PROVE  \E v \in Bufs : \E x : IntrOf(v, x)
<1>0. TypeOK /\ CmdInv /\ QueueInv /\ irq
  BY ZenonT(60) DEF IInv, ideintr
<1>1. idequeue # Null /\ idequeue \in Waiting /\ ~cmd.busy
  BY <1>0, HeadLemma, ZenonT(60) DEF CmdInv
<1>2. PICK v \in Bufs : v = idequeue
  BY <1>1, ZenonT(60) DEF Waiting
<1>3. PICK p \in Proc : buf[p] = v
  BY <1>1, <1>2, ZenonT(60) DEF Waiting
<1>4. /\ bc.buf[v] \in BufType(Val) /\ bc.buf[v].blockno \in BlockNo
      /\ bc.buf[v].refcnt = 1 /\ bc \in BcacheType(Val)
  <2>1. pc[p] # "idle"
    BY <1>1, <1>2, <1>3, WaitingLemma, ZenonT(60)
  <2> QED  BY <1>0, <1>3, <2>1, OwnLemma, ZenonT(60) DEF TypeOK
<1>5. cmd.block = bc.buf[v].blockno
  BY <1>0, <1>1, <1>2, ZenonT(60) DEF CmdInv
<1>6. PICK ok \in {TRUE} \cup {~Errors} :
        bc' = Put(bc, v, [bc.buf[v] EXCEPT
                    !.data = IF ~Dirty(bc, v) /\ ok THEN DataRead ELSE @,
                    !.flags = IntrFlags(v)])
  BY <1>1, <1>2, Zenon DEF ideintr
<1> DEFINE d == IF ~Dirty(bc, v) /\ ok THEN DataRead ELSE bc.buf[v].data
           x == [bc.buf[v] EXCEPT !.data = d, !.flags = IntrFlags(v)]
<1>7. bc' = Put(bc, v, x)
  BY <1>6, Zenon
<1>8. ~Dirty(bc, v) => DataRead = disk[bc.buf[v].blockno] /\ DataRead \in Val
  BY <1>0, <1>1, <1>2, <1>4, <1>5, ZenonT(60) DEF CmdInv, DataRead, TypeOK
<1>9. Dirty(bc, v) => bc.buf[v].data = disk[bc.buf[v].blockno]
  BY <1>0, <1>1, <1>2, ZenonT(60) DEF CmdInv
<1>10. d \in Val \cup {NoData} /\ (~Errors => d = disk[bc.buf[v].blockno])
  <2>1. bc.buf[v].data \in Val \cup {NoData}
    BY <1>4, ZenonT(60) DEF BufType
  <2>2. ~Errors => ok
    BY ZenonT(60)
  <2> QED  BY <1>8, <1>9, <2>1, <2>2, ZenonT(60)
<1>11. /\ IntrFlags(v) \in SUBSET {B_VALID, B_DIRTY}
       /\ B_VALID \in IntrFlags(v) /\ B_DIRTY \notin IntrFlags(v)
  BY <1>4, ZenonT(60) DEF IntrFlags, BufType, B_VALID, B_DIRTY
<1> HIDE DEF d
<1>12. /\ x \in BufType(Val) /\ x.data = d /\ x.flags = IntrFlags(v)
       /\ x.blockno = bc.buf[v].blockno /\ x.refcnt = bc.buf[v].refcnt
  <2>1. /\ bc.buf[v] \in BufType(Val) /\ d \in Val \cup {NoData}
        /\ IntrFlags(v) \in SUBSET {B_VALID, B_DIRTY}
    BY <1>4, <1>10, <1>11, ZenonT(60)
  <2>2. x = [bc.buf[v] EXCEPT !.data = d, !.flags = IntrFlags(v)]
    BY ZenonT(60)
  <2> HIDE DEF x
  <2> QED  BY <2>1, <2>2, ZenonT(60) DEF BufType
<1> HIDE DEF x
<1>13. Changes(v, x)
  <2>1. x \in BufType(Val) /\ bc \in BcacheType(Val)
    BY <1>4, <1>12, ZenonT(60)
  <2> QED  BY <1>7, <2>1, PutLemma, Zenon DEF Changes
<1>14. idequeue' = qnext[v] /\ UNCHANGED <<qnext, pc, buf, stopped>>
  BY <1>1, <1>2, Zenon DEF ideintr
<1>15. idequeue' = Null => cmd' = cmd /\ irq' = FALSE /\ disk' = disk
  BY <1>1, Zenon DEF ideintr
<1>16. idequeue' # Null =>
         /\ irq' = cmd.busy /\ disk' = Finished(cmd)
         /\ cmd' = IF Dirty(bc', idequeue')
                   THEN Command("write", bc'.buf[idequeue'].blockno,
                                bc'.buf[idequeue'].data, TRUE)
                   ELSE Command("read", bc'.buf[idequeue'].blockno, NoData, TRUE)
  BY <1>1, Zenon DEF ideintr, idestart
<1>17. Finished(cmd) = disk /\ cmd.busy = FALSE
  BY <1>0, <1>1, ZenonT(60) DEF Finished, TypeOK
<1>18. IntrOf(v, x)
  BY <1>0, <1>1, <1>2, <1>4, <1>10, <1>11, <1>12, <1>13, <1>14, <1>15, <1>16, <1>17,
     Zenon DEF IntrOf
<1> QED  BY <1>18, ZenonT(60)

\* The interrupt handler.
LEMMA IdeintrStep ==
  ASSUME IInv, NEW v \in Bufs, NEW x, IntrOf(v, x)
  PROVE  IInv'
<1>0. /\ TypeOK /\ OneCopy /\ QueueInv /\ CmdInv
      /\ \A q \in Proc : ProcInv(q)
      /\ \A u \in Bufs : BufInv(u)
      /\ ~Errors => \A u \in Bufs : AgreeInv(u)
  BY ZenonT(60) DEF IInv
<1>1. v # Null /\ v \in Waiting /\ idequeue = v
  BY <1>0, HeadLemma, NullLemma DEF IntrOf
<1>2. PICK p \in Proc : buf[p] = v /\ pc[p] = "wait"
  BY <1>1, ZenonT(60) DEF Waiting
<1>3. /\ bc'.buf[v] = x /\ pc' = pc /\ buf' = buf /\ disk' = disk /\ qnext' = qnext
      /\ stopped' = stopped
      /\ x.blockno = bc.buf[v].blockno /\ x.refcnt = 1
      /\ B_VALID \in x.flags /\ B_DIRTY \notin x.flags
      /\ bc' \in BcacheType(Val)
      /\ \A u \in Bufs : u # v => bc'.buf[u] = bc.buf[u]
      /\ \A q \in Proc : buf[q] = v <=> q = p
      /\ \A q \in Proc : buf[q] # Null => buf[q] \in Bufs
  <2>1. \A q \in Proc : buf[q] = v <=> q = p
    BY <1>2, OwnLemma, Zenon
  <2>2. \A q \in Proc : buf[q] # Null => buf[q] \in Bufs
    <3>1. buf \in [Proc -> Bufs \cup {Null}]
      BY <1>0, Zenon DEF TypeOK
    <3> QED  BY <3>1, Zenon
  <2> QED  BY <2>1, <2>2, Zenon DEF IntrOf, Changes
<1>4. PICK s \in Seq(Bufs) :
        IsQueue(s, idequeue, qnext) /\ {s[i] : i \in 1..Len(s)} = Waiting
  BY <1>0, ZenonT(60) DEF QueueInv
<1>5. Len(s) # 0
  BY <1>1, <1>4, ZenonT(60) DEF IsQueue
<1>6. Waiting' = Waiting \ {v}
  <2>1. ASSUME NEW u \in Waiting' PROVE u \in Waiting \ {v}
    <3>1. PICK q \in Proc : /\ buf[q] = u /\ pc[q] = "wait"
                            /\ (~Valid(bc', u) \/ Dirty(bc', u)) /\ u \in Bufs
      BY <1>3, ZenonT(60) DEF Waiting
    <3>2. u # v
      BY <1>3, <3>1, ZenonT(60) DEF Valid, Dirty
    <3> QED  BY <1>3, <3>1, <3>2 DEF Waiting, Valid, Dirty
  <2>2. ASSUME NEW u \in Waiting \ {v} PROVE u \in Waiting'
    BY <1>3, ZenonT(60) DEF Waiting, Valid, Dirty
  <2> QED  BY <2>1, <2>2, Zenon
<1>7. QueueInv'
  <2>1. /\ Tail(s) \in Seq(Bufs) /\ IsQueue(Tail(s), qnext[v], qnext)
        /\ {Tail(s)[i] : i \in 1..Len(Tail(s))} = {s[i] : i \in 1..Len(s)} \ {v}
    BY <1>1, <1>4, <1>5, TailQueue, Zenon
  <2>2. idequeue' = qnext[v]
    BY ZenonT(60) DEF IntrOf
  <2> QED  BY <1>3, <1>4, <1>6, <2>1, <2>2, Zenon DEF QueueInv
<1>8. idequeue' \in Bufs \cup {Null} /\ idequeue' # v
  <2>1. \E t \in Seq(Bufs) : /\ IsQueue(t, idequeue', qnext)
                             /\ {t[i] : i \in 1..Len(t)} = Waiting \ {v}
    BY <1>3, <1>6, <1>7, Zenon DEF QueueInv
  <2>2. idequeue' # Null => idequeue' \in Waiting \ {v}
    BY <2>1, QueueHead, Zenon
  <2> QED  BY <1>1, <2>2, ZenonT(60) DEF Waiting
<1>9. PICK w : w = idequeue'
  BY ZenonT(60)
<1>10. /\ irq' = FALSE
       /\ w = Null => cmd' = cmd /\ ~cmd.busy
       /\ w # Null => /\ bc'.buf[w] = bc.buf[w] /\ bc'.buf[w] \in BufType(Val)
                      /\ cmd' = IF Dirty(bc', w)
                                THEN Command("write", bc'.buf[w].blockno, bc'.buf[w].data, TRUE)
                                ELSE Command("read", bc'.buf[w].blockno, NoData, TRUE)
  <2>1. w # Null => bc'.buf[w] = bc.buf[w] /\ bc'.buf[w] \in BufType(Val)
    BY <1>3, <1>8, <1>9, ZenonT(60) DEF BcacheType
  <2> QED  BY <1>9, <2>1, Zenon DEF IntrOf
<1>11. w # Null =>
         /\ cmd' \in [op : {"none", "read", "write"}, block : BlockNo \cup {NoBlock},
                      data : Val \cup {NoData}, busy : BOOLEAN]
         /\ cmd'.busy = TRUE /\ cmd'.block = bc'.buf[w].blockno
         /\ Dirty(bc', w) => cmd'.op = "write" /\ cmd'.data = bc'.buf[w].data
         /\ ~Dirty(bc', w) => cmd'.op = "read"
  <2> SUFFICES ASSUME w # Null
               PROVE  /\ cmd' \in [op : {"none", "read", "write"},
                                   block : BlockNo \cup {NoBlock},
                                   data : Val \cup {NoData}, busy : BOOLEAN]
                      /\ cmd'.busy = TRUE /\ cmd'.block = bc'.buf[w].blockno
                      /\ Dirty(bc', w) => cmd'.op = "write" /\ cmd'.data = bc'.buf[w].data
                      /\ ~Dirty(bc', w) => cmd'.op = "read"
    BY ZenonT(60)
  <2>1. /\ bc'.buf[w].blockno \in BlockNo \cup {NoBlock}
        /\ bc'.buf[w].data \in Val \cup {NoData}
    BY <1>10, ZenonT(60) DEF BufType
  <2>2. CASE Dirty(bc', w)
    <3>1. cmd' = Command("write", bc'.buf[w].blockno, bc'.buf[w].data, TRUE)
      BY <1>10, <2>2, Zenon
    <3> QED  BY <2>1, <2>2, <3>1, ZenonT(60) DEF Command
  <2>3. CASE ~Dirty(bc', w)
    <3>1. cmd' = Command("read", bc'.buf[w].blockno, NoData, TRUE)
      BY <1>10, <2>3, Zenon
    <3> QED  BY <2>1, <2>3, <3>1, ZenonT(60) DEF Command
  <2> QED  BY <2>2, <2>3, ZenonT(60)
<1>12. TypeOK'
  <2>1. cmd' \in [op : {"none", "read", "write"}, block : BlockNo \cup {NoBlock},
                  data : Val \cup {NoData}, busy : BOOLEAN]
    BY <1>0, <1>10, <1>11, ZenonT(60) DEF TypeOK
  <2> QED  BY <1>0, <1>3, <1>8, <1>10, <2>1, Zenon DEF TypeOK
<1>13. OneCopy'
  BY <1>0, <1>3 DEF OneCopy
<1>14. CmdInv'
  BY <1>9, <1>10, <1>11, Zenon DEF CmdInv
<1>15. ASSUME NEW q \in Proc PROVE ProcInv(q)'
  <2>0. ProcInv(q) /\ pc[q] # "idle" => buf[q] # Null
    BY <1>0, ZenonT(60) DEF ProcInv
  <2>1. CASE q = p
    BY <1>0, <1>2, <1>3, <2>1, Zenon DEF ProcInv
  <2>2. CASE q # p
    <3>1. buf[q] # Null => bc'.buf[buf[q]] = bc.buf[buf[q]]
      BY <1>3, <2>2, ZenonT(60)
    <3> QED  BY <1>0, <1>3, <2>0, <3>1, Zenon DEF ProcInv, Done, Valid, Dirty
  <2> QED  BY <2>1, <2>2, ZenonT(60)
<1>16. ASSUME NEW u \in Bufs PROVE BufInv(u)'
  <2>1. CASE u = v
    <3>1. x.blockno \in BlockNo
      BY <1>0, <1>1, <1>2, <1>3, ZenonT(60) DEF ProcInv
    <3> QED  BY <1>2, <1>3, <2>1, <3>1, ZenonT(60) DEF BufInv, Dirty
  <2>2. CASE u # v
    BY <1>0, <1>3, <2>2, Zenon DEF BufInv, Valid, Dirty
  <2> QED  BY <2>1, <2>2, ZenonT(60)
<1>17. ASSUME ~Errors, NEW u \in Bufs PROVE AgreeInv(u)'
  <2>1. CASE u = v
    BY <1>3, <1>17, <2>1, Zenon DEF AgreeInv, IntrOf
  <2>2. CASE u # v
    BY <1>0, <1>3, <1>17, <2>2, Zenon DEF AgreeInv, Done, Valid, Dirty
  <2> QED  BY <2>1, <2>2
<1> QED  BY <1>7, <1>12, <1>13, <1>14, <1>15, <1>16, <1>17, ZenonT(60) DEF IInv

\* The request of p's buffer v goes behind the queue, and to the disk if the queue
\* was empty.
QueuedOf(p, v) ==
  /\ buf[p] = v /\ pc[p] = "iderw" /\ pc' = [pc EXCEPT ![p] = "wait"]
  /\ UNCHANGED <<bc, disk, buf, stopped>>
  /\ idequeue' = IF idequeue = Null THEN v ELSE idequeue
  /\ qnext' = IF idequeue = Null THEN [qnext EXCEPT ![v] = Null]
              ELSE [[qnext EXCEPT ![v] = Null] EXCEPT
                      ![Last(idequeue, [qnext EXCEPT ![v] = Null])] = v]
  /\ idequeue # Null => UNCHANGED <<cmd, irq>>
  /\ idequeue = Null =>
       /\ irq' = FALSE
       /\ cmd' = IF Dirty(bc, v)
                 THEN Command("write", bc.buf[v].blockno, bc.buf[v].data, TRUE)
                 ELSE Command("read", bc.buf[v].blockno, NoData, TRUE)

\* A list stays one when the next field of a buffer outside it changes.
LEMMA OtherQueue ==
  ASSUME TypeOK, NEW s \in Seq(Bufs), IsQueue(s, idequeue, qnext), NEW v \in Bufs,
         \A i \in 1..Len(s) : s[i] # v
  PROVE  IsQueue(s, idequeue, [qnext EXCEPT ![v] = Null])
<1>1. qnext \in [Bufs -> Bufs \cup {Null}] /\ \A i \in 1..Len(s) : s[i] \in Bufs
  <2>1. qnext \in [Bufs -> Bufs \cup {Null}]
    BY ZenonT(60) DEF TypeOK
  <2> QED  BY <2>1
<1>2. \A i \in 1..Len(s) : [qnext EXCEPT ![v] = Null][s[i]] = qnext[s[i]]
  BY <1>1, ZenonT(60)
<1> QED  BY <1>2, Zenon DEF IsQueue

\* iderw neither panics nor hangs, and queues its buffer.
LEMMA IderwLemma ==
  ASSUME IInv, NEW p \in Proc, iderw(p)
  PROVE  \E v \in Bufs : QueuedOf(p, v)
<1>0. TypeOK /\ CmdInv /\ QueueInv
  BY ZenonT(60) DEF IInv
<1>1. pc[p] = "iderw"
  BY ZenonT(60) DEF iderw, Here
<1>2. PICK v \in Bufs : v = buf[p]
  BY <1>1, OwnLemma, ZenonT(60)
<1>3. ~(Valid(bc, v) /\ ~Dirty(bc, v))
  BY <1>1, <1>2 DEF IInv, ProcInv, Done
<1>4. PICK s \in Seq(Bufs) :
        IsQueue(s, idequeue, qnext) /\ {s[i] : i \in 1..Len(s)} = Waiting
  BY <1>0, ZenonT(60) DEF QueueInv
<1>5. v \notin Waiting
  BY <1>1, <1>2, WaitingLemma, ZenonT(60)
<1> DEFINE qn == [qnext EXCEPT ![v] = Null]
<1>6. IsQueue(s, idequeue, qn)
  BY <1>0, <1>4, <1>5, OtherQueue
<1>7. Walk(idequeue, qn)[NBUF] = Null
  BY <1>6, QueueWalkEnds
<1>8. idequeue # v
  <2>1. idequeue # Null => idequeue \in Waiting
    BY <1>0, HeadLemma, ZenonT(60)
  <2> QED  BY <1>5, <2>1, NullLemma, ZenonT(60)
<1>9. /\ IF idequeue = Null
         THEN idequeue' = v /\ qnext' = qn
         ELSE /\ qnext' = [qn EXCEPT ![Last(idequeue, qn)] = v]
              /\ UNCHANGED idequeue
      /\ IF idequeue' = v
         THEN idestart(bc, v) /\ irq' = (irq \/ cmd.busy)
         ELSE UNCHANGED <<disk, cmd, irq>>
      /\ pc' = [pc EXCEPT ![p] = "wait"]
      /\ UNCHANGED <<bc, buf, stopped>>
  BY <1>2, <1>3, <1>7, Zenon DEF iderw, Goto
<1> HIDE DEF qn
<1>10. ASSUME idequeue = Null
       PROVE  /\ idequeue' = v /\ qnext' = qn /\ disk' = disk /\ irq' = FALSE
              /\ cmd' = IF Dirty(bc, v)
                        THEN Command("write", bc.buf[v].blockno, bc.buf[v].data, TRUE)
                        ELSE Command("read", bc.buf[v].blockno, NoData, TRUE)
  <2>1. ~irq /\ ~cmd.busy
    BY <1>0, <1>10, ZenonT(60) DEF CmdInv
  <2>2. idequeue' = v /\ qnext' = qn /\ idestart(bc, v) /\ irq' = (irq \/ cmd.busy)
    BY <1>9, <1>10, Zenon
  <2>3. Finished(cmd) = disk
    BY <2>1, Zenon DEF Finished
  <2>4. irq' = FALSE
    BY <2>1, <2>2, Zenon
  <2> QED  BY <2>2, <2>3, <2>4, Zenon DEF idestart
<1>11. ASSUME idequeue # Null
       PROVE  /\ idequeue' = idequeue /\ qnext' = [qn EXCEPT ![Last(idequeue, qn)] = v]
              /\ UNCHANGED <<disk, cmd, irq>>
  BY <1>8, <1>9, <1>11, Zenon
<1>12. QueuedOf(p, v)
  <2> USE DEF qn
  <2> QED  BY <1>1, <1>2, <1>9, <1>10, <1>11, Zenon DEF QueuedOf
<1> QED  BY <1>12, ZenonT(60)

\* The queue after iderw.
LEMMA QueuedQueue ==
  ASSUME IInv, NEW p \in Proc, NEW v \in Bufs, QueuedOf(p, v)
  PROVE  /\ QueueInv' /\ Waiting' = Waiting \cup {v} /\ v \notin Waiting
         /\ qnext' \in [Bufs -> Bufs \cup {Null}]
<1>0. TypeOK /\ QueueInv /\ pc[p] = "iderw" /\ buf[p] = v
  BY ZenonT(60) DEF IInv, QueuedOf
<1>1. PICK s \in Seq(Bufs) :
        IsQueue(s, idequeue, qnext) /\ {s[i] : i \in 1..Len(s)} = Waiting
  BY <1>0, ZenonT(60) DEF QueueInv
<1>2. v \notin Waiting /\ \A i \in 1..Len(s) : s[i] # v
  <2>1. v \notin Waiting
    BY <1>0, WaitingLemma, ZenonT(60)
  <2> QED  BY <1>1, <2>1, ZenonT(60)
<1> DEFINE qn == [qnext EXCEPT ![v] = Null]
<1>3. IsQueue(s, idequeue, qn)
  BY <1>0, <1>1, <1>2, OtherQueue, ZenonT(60)
<1>4. qn \in [Bufs -> Bufs \cup {Null}] /\ qn[v] = Null
  BY <1>0, ZenonT(60) DEF TypeOK
<1>5. /\ idequeue' = IF idequeue = Null THEN v ELSE idequeue
      /\ qnext' = IF idequeue = Null THEN qn ELSE [qn EXCEPT ![Last(idequeue, qn)] = v]
  BY ZenonT(60) DEF QueuedOf
<1> HIDE DEF qn
<1>6. Len(s) \in Nat /\ (Len(s) = 0 <=> idequeue = Null)
  BY <1>1, QueueHead
<1>7. Len(s) # 0 => Last(idequeue, qn) = s[Len(s)] /\ s[Len(s)] \in Bufs
  <2>1. Len(s) # 0 => Len(s) \in 1..Len(s)
    BY <1>6
  <2> QED  BY <1>3, <2>1, QueueWalkEnds
<1>8. /\ qnext' \in [Bufs -> Bufs \cup {Null}]
      /\ qnext'[v] = Null /\ (Len(s) # 0 => qnext'[s[Len(s)]] = v)
      /\ \A i \in 1..Len(s) : i # Len(s) => qnext'[s[i]] = qn[s[i]]
  <2>1. CASE Len(s) = 0
    BY <1>4, <1>5, <1>6, <2>1, ZenonT(60)
  <2>2. CASE Len(s) # 0
    <3>1. qnext' = [qn EXCEPT ![s[Len(s)]] = v] /\ s[Len(s)] \in Bufs /\ Len(s) \in 1..Len(s)
      <4>1. idequeue # Null /\ Last(idequeue, qn) = s[Len(s)] /\ s[Len(s)] \in Bufs
        BY <1>6, <1>7, <2>2, ZenonT(60)
      <4>2. Len(s) \in 1..Len(s)
        BY <1>6, <2>2
      <4> QED  BY <1>5, <4>1, <4>2, Zenon
    <3>2. s[Len(s)] # v
      BY <1>2, <3>1, ZenonT(60)
    <3>3. \A i \in 1..Len(s) : i # Len(s) => s[i] # s[Len(s)] /\ s[i] \in Bufs
      <4>1. \A i \in 1..Len(s) : s[i] \in Bufs
        OBVIOUS
      <4> QED  BY <1>3, <3>1, <4>1, Zenon DEF IsQueue
    <3> QED  BY <1>4, <3>1, <3>2, <3>3, ZenonT(60)
  <2> QED  BY <2>1, <2>2, ZenonT(60)
<1>9. idequeue' = IF Len(s) = 0 THEN v ELSE idequeue
  BY <1>5, <1>6, ZenonT(60)
<1> DEFINE t == Append(s, v)
<1>10. PICK m : m = qnext'
  BY ZenonT(60)
<1>11. /\ t \in Seq(Bufs) /\ IsQueue(t, IF Len(s) = 0 THEN v ELSE idequeue, m)
       /\ {t[i] : i \in 1..Len(t)} = {s[i] : i \in 1..Len(s)} \cup {v}
  <2>1. /\ m[v] = Null /\ (Len(s) # 0 => m[s[Len(s)]] = v)
        /\ \A i \in 1..Len(s) : i # Len(s) => m[s[i]] = qn[s[i]]
    BY <1>8, <1>10, ZenonT(60)
  <2> QED  BY <1>2, <1>3, <2>1, AppendQueue
<1>12. Waiting' = Waiting \cup {v}
  <2>1. /\ bc' = bc /\ buf' = buf /\ pc' = [pc EXCEPT ![p] = "wait"] /\ pc'[p] = "wait"
        /\ \A q \in Proc : q # p => pc'[q] = pc[q]
    BY <1>0, ZenonT(60) DEF QueuedOf, TypeOK
  <2>2. ~Valid(bc, v) \/ Dirty(bc, v)
    BY <1>0, ZenonT(60) DEF IInv, ProcInv, Done
  <2>3. \A q \in Proc : buf[q] = v => q = p
    BY <1>0, OwnLemma, ZenonT(60)
  <2>4. ASSUME NEW u \in Waiting' PROVE u \in Waiting \cup {v}
    <3>1. PICK q \in Proc : /\ buf[q] = u /\ pc'[q] = "wait"
                            /\ (~Valid(bc, u) \/ Dirty(bc, u)) /\ u \in Bufs
      BY <2>1, ZenonT(60) DEF Waiting
    <3> QED  BY <1>0, <2>1, <3>1, ZenonT(60) DEF Waiting
  <2>5. ASSUME NEW u \in Waiting \cup {v} PROVE u \in Waiting'
    <3>1. CASE u = v
      BY <1>0, <2>1, <2>2, <3>1, ZenonT(60) DEF Waiting
    <3>2. CASE u \in Waiting
      <4>1. PICK q \in Proc : /\ buf[q] = u /\ pc[q] = "wait"
                              /\ (~Valid(bc, u) \/ Dirty(bc, u)) /\ u \in Bufs
        BY <3>2, ZenonT(60) DEF Waiting
      <4>2. q # p
        BY <1>0, <4>1, ZenonT(60)
      <4> QED  BY <2>1, <4>1, <4>2, ZenonT(60) DEF Waiting
    <3> QED  BY <3>1, <3>2, ZenonT(60)
  <2> QED  BY <2>4, <2>5, Zenon
<1>13. QueueInv'
  <2> HIDE DEF t
  <2> QED  BY <1>1, <1>9, <1>10, <1>11, <1>12, Zenon DEF QueueInv
<1> QED  BY <1>2, <1>8, <1>12, <1>13, ZenonT(60)

\* iderw.
LEMMA IderwStep ==
  ASSUME IInv, NEW p \in Proc, NEW v \in Bufs, QueuedOf(p, v)
  PROVE  IInv'
<1>0. /\ TypeOK /\ OneCopy /\ QueueInv /\ CmdInv
      /\ \A q \in Proc : ProcInv(q)
      /\ \A u \in Bufs : BufInv(u)
      /\ ~Errors => \A u \in Bufs : AgreeInv(u)
  BY ZenonT(60) DEF IInv
<1>1. /\ pc[p] = "iderw" /\ buf[p] = v /\ bc' = bc /\ buf' = buf /\ disk' = disk
      /\ stopped' = stopped /\ pc' = [pc EXCEPT ![p] = "wait"] /\ pc'[p] = "wait"
      /\ \A q \in Proc : q # p => pc'[q] = pc[q]
  BY <1>0, ZenonT(60) DEF QueuedOf, TypeOK
<1>2. v # Null /\ bc.buf[v] \in BufType(Val) /\ \A q \in Proc : buf[q] = v => q = p
  BY <1>1, OwnLemma, ZenonT(60)
<1>3. QueueInv' /\ qnext' \in [Bufs -> Bufs \cup {Null}]
  BY QueuedQueue, ZenonT(60)
<1>4. idequeue = Null =>
        /\ irq' = FALSE /\ idequeue' = v
        /\ cmd' \in [op : {"none", "read", "write"}, block : BlockNo \cup {NoBlock},
                     data : Val \cup {NoData}, busy : BOOLEAN]
        /\ cmd'.busy = TRUE /\ cmd'.block = bc.buf[v].blockno
        /\ Dirty(bc, v) => cmd'.op = "write" /\ cmd'.data = bc.buf[v].data
        /\ ~Dirty(bc, v) => cmd'.op = "read"
  <2> SUFFICES ASSUME idequeue = Null
               PROVE  /\ irq' = FALSE /\ idequeue' = v
                      /\ cmd' \in [op : {"none", "read", "write"},
                                   block : BlockNo \cup {NoBlock},
                                   data : Val \cup {NoData}, busy : BOOLEAN]
                      /\ cmd'.busy = TRUE /\ cmd'.block = bc.buf[v].blockno
                      /\ Dirty(bc, v) => cmd'.op = "write" /\ cmd'.data = bc.buf[v].data
                      /\ ~Dirty(bc, v) => cmd'.op = "read"
    BY ZenonT(60)
  <2>1. bc.buf[v].blockno \in BlockNo \cup {NoBlock} /\ bc.buf[v].data \in Val \cup {NoData}
    BY <1>2, ZenonT(60) DEF BufType
  <2>2. CASE Dirty(bc, v)
    <3>1. /\ irq' = FALSE /\ idequeue' = v
          /\ cmd' = Command("write", bc.buf[v].blockno, bc.buf[v].data, TRUE)
      BY <2>2, Zenon DEF QueuedOf
    <3> QED  BY <2>1, <2>2, <3>1, ZenonT(60) DEF Command
  <2>3. CASE ~Dirty(bc, v)
    <3>1. /\ irq' = FALSE /\ idequeue' = v
          /\ cmd' = Command("read", bc.buf[v].blockno, NoData, TRUE)
      BY <2>3, Zenon DEF QueuedOf
    <3> QED  BY <2>1, <2>3, <3>1, ZenonT(60) DEF Command
  <2> QED  BY <2>2, <2>3, ZenonT(60)
<1>5. idequeue # Null => idequeue' = idequeue /\ cmd' = cmd /\ irq' = irq
  BY ZenonT(60) DEF QueuedOf
<1>6. TypeOK'
  <2>1. pc' \in [Proc -> {"idle", "bread", "iderw", "wait", "have", "stored"}]
    BY <1>0, <1>1, ZenonT(60) DEF TypeOK
  <2>2. /\ cmd' \in [op : {"none", "read", "write"}, block : BlockNo \cup {NoBlock},
                     data : Val \cup {NoData}, busy : BOOLEAN]
        /\ irq' \in BOOLEAN /\ idequeue' \in Bufs \cup {Null}
    BY <1>0, <1>4, <1>5, ZenonT(60) DEF TypeOK
  <2> QED  BY <1>0, <1>1, <1>3, <2>1, <2>2, Zenon DEF TypeOK
<1>7. OneCopy'
  BY <1>0, <1>1, Zenon DEF OneCopy
<1>8. CmdInv'
  <2>1. CASE idequeue = Null
    BY <1>1, <1>2, <1>4, <2>1, ZenonT(60) DEF CmdInv
  <2>2. CASE idequeue # Null
    <3>1. UNCHANGED <<bc, disk, idequeue, cmd, irq>>
      BY <1>1, <1>5, <2>2, ZenonT(60)
    <3>2. CmdInv
      BY <1>0, ZenonT(60)
    <3> QED  BY <3>1, <3>2, Zenon DEF CmdInv
  <2> QED  BY <2>1, <2>2, ZenonT(60)
<1>9. ASSUME NEW q \in Proc PROVE ProcInv(q)'
  <2>1. CASE q = p
    BY <1>0, <1>1, <1>2, <2>1, Zenon DEF ProcInv, Done
  <2>2. CASE q # p
    BY <1>0, <1>1, <2>2, Zenon DEF ProcInv, Done
  <2> QED  BY <2>1, <2>2, ZenonT(60)
<1>10. ASSUME NEW u \in Bufs PROVE BufInv(u)'
  <2>1. BufInv(u)
    BY <1>0, ZenonT(60)
  <2>2. \A q \in Proc : pc[q] \in {"iderw", "wait"} => pc'[q] \in {"iderw", "wait"}
    BY <1>1, ZenonT(60)
  <2> QED  BY <1>1, <2>1, <2>2, Zenon DEF BufInv
<1>11. ASSUME ~Errors, NEW u \in Bufs PROVE AgreeInv(u)'
  <2>1. \A q \in Proc : pc'[q] # "stored" => pc[q] # "stored"
    BY <1>1, ZenonT(60)
  <2> QED  BY <1>0, <1>1, <1>11, <2>1, Zenon DEF AgreeInv, Done
<1> QED  BY <1>3, <1>6, <1>7, <1>8, <1>9, <1>10, <1>11, ZenonT(60) DEF IInv

------------------------------------------------------------------------------
(* The theorems.                                                             *)

\* The initial state satisfies the invariant.
LEMMA InitIInv == Init => IInv
<1> SUFFICES ASSUME Init PROVE IInv
  BY ZenonT(60)
<1>1. /\ bc = binit /\ disk \in [BlockNo -> Val]
      /\ idequeue = Null /\ qnext = [v \in Bufs |-> Null]
      /\ cmd = Command("none", NoBlock, NoData, FALSE) /\ irq = FALSE
      /\ pc = [p \in Proc |-> "idle"] /\ buf = [p \in Proc |-> Null]
      /\ stopped = "no"
  BY ZenonT(60) DEF Init
<1>2. /\ EmptyBuf \in BufType(Val) /\ EmptyBuf.blockno = NoBlock
      /\ EmptyBuf.flags = {} /\ EmptyBuf.refcnt = 0
  BY ZenonT(60) DEF EmptyBuf, Buffer, BufType
<1>3. bc \in BcacheType(Val) /\ \A v \in Bufs : bc.buf[v] = EmptyBuf
  BY <1>1, <1>2, NBUFAssumption DEF binit, BcacheType, Bufs
<1>4. cmd \in [op : {"none", "read", "write"}, block : BlockNo \cup {NoBlock},
               data : Val \cup {NoData}, busy : BOOLEAN] /\ cmd.busy = FALSE
  BY <1>1, ZenonT(60) DEF Command
<1>5. TypeOK
  <2>1. /\ qnext \in [Bufs -> Bufs \cup {Null}] /\ buf \in [Proc -> Bufs \cup {Null}]
        /\ pc \in [Proc -> {"idle", "bread", "iderw", "wait", "have", "stored"}]
    BY <1>1, ZenonT(60)
  <2> QED  BY <1>1, <1>3, <1>4, <2>1, ZenonT(60) DEF TypeOK
<1>6. \A v \in Bufs : ~Valid(bc, v) /\ ~Dirty(bc, v)
  BY <1>2, <1>3, ZenonT(60) DEF Valid, Dirty
<1>7. \A p \in Proc : pc[p] = "idle" /\ buf[p] = Null
  BY <1>1, ZenonT(60)
<1>8. OneCopy /\ CmdInv
  BY <1>1, <1>2, <1>3, <1>4, ZenonT(60) DEF OneCopy, CmdInv
<1>9. QueueInv
  <2>1. Waiting = {}
    BY <1>7, ZenonT(60) DEF Waiting
  <2>2. << >> \in Seq(Bufs) /\ Len(<< >>) = 0 /\ 1..0 = {}
    OBVIOUS
  <2>3. IsQueue(<< >>, idequeue, qnext)
    BY <1>1, <2>2, ZenonT(60) DEF IsQueue
  <2>4. {<< >>[i] : i \in 1..Len(<< >>)} = {}
    BY <2>2, ZenonT(60)
  <2> QED  BY <2>1, <2>2, <2>3, <2>4, ZenonT(60) DEF QueueInv
<1>10. \A p \in Proc : ProcInv(p)
  BY <1>7, Zenon DEF ProcInv
<1>11. ASSUME NEW v \in Bufs PROVE BufInv(v) /\ AgreeInv(v)
  <2>1. \A p \in Proc : buf[p] # v
    BY <1>7, NullLemma, ZenonT(60)
  <2> QED  BY <1>2, <1>3, <1>6, <2>1, ZenonT(60) DEF BufInv, AgreeInv, Done
<1> QED  BY <1>5, <1>8, <1>9, <1>10, <1>11, ZenonT(60) DEF IInv

\* Every step preserves the invariant, when no two processes use a block at a time.
LEMMA NextIInv ==
  ASSUME ~Shared
  PROVE  IInv /\ [Next]_vars => IInv'
<1> SUFFICES ASSUME IInv, [Next]_vars PROVE IInv'
  BY ZenonT(60)
<1>1. ASSUME UNCHANGED <<bc, disk, idequeue, qnext, cmd, irq, pc, buf>>,
             stopped' \in {"no", "bget: no buffers", "iderw: nothing to do", "hung"}
      PROVE  IInv'
  <2>1. /\ TypeOK /\ OneCopy /\ QueueInv /\ CmdInv
        /\ \A q \in Proc : ProcInv(q)
        /\ \A u \in Bufs : BufInv(u)
        /\ ~Errors => \A u \in Bufs : AgreeInv(u)
    BY ZenonT(60) DEF IInv
  <2>2. TypeOK'
    BY <1>1, <2>1, Zenon DEF TypeOK
  <2>3. OneCopy' /\ QueueInv' /\ CmdInv'
    BY <1>1, <2>1, Zenon DEF OneCopy, QueueInv, Waiting, CmdInv
  <2>4. \A q \in Proc : ProcInv(q)'
    BY <1>1, <2>1, Zenon DEF ProcInv, Done
  <2>5. \A u \in Bufs : BufInv(u)'
    BY <1>1, <2>1, Zenon DEF BufInv
  <2>6. ~Errors => \A u \in Bufs : AgreeInv(u)'
    BY <1>1, <2>1, Zenon DEF AgreeInv, Done
  <2> QED  BY <2>2, <2>3, <2>4, <2>5, <2>6, ZenonT(60) DEF IInv
<1>2. CASE UNCHANGED vars
  <2>1. UNCHANGED <<bc, disk, idequeue, qnext, cmd, irq, pc, buf, stopped>>
    BY <1>2, ZenonT(60) DEF vars
  <2>2. stopped \in {"no", "bget: no buffers", "iderw: nothing to do", "hung"}
    BY ZenonT(60) DEF IInv, TypeOK
  <2> QED  BY <1>1, <2>1, <2>2, Zenon
<1>3. CASE DiskDone
  BY <1>3, DiskDoneStep, ZenonT(60)
<1>4. CASE ideintr
  BY <1>4, IntrLemma, IdeintrStep, Zenon
<1>5. ASSUME NEW p \in Proc, Progress(p) PROVE IInv'
  <2>1. CASE iderw(p)
    BY <2>1, IderwLemma, IderwStep, Zenon
  <2> QED  BY <1>5, <2>1, BreadStep, BwriteStep, WaitedStep, Zenon DEF Progress
<1>6. ASSUME NEW p \in Proc, release(p) PROVE IInv'
  BY <1>6, ReleaseStep, ZenonT(60)
<1>7. ASSUME NEW p \in Proc, NEW b \in BlockNo, bget(p, b) PROVE IInv'
  <2>1. pc[p] = "idle" /\ \A q \in Proc \ {p} : b \notin Uses(q)
    BY <1>7, ZenonT(60) DEF bget, Here
  <2>2. CASE stop("bget: no buffers")
    BY <1>1, <2>2, Zenon DEF stop
  <2>3. CASE ~stop("bget: no buffers")
    <3>1. PICK v \in Bufs :
            /\ Bget(bc, b, v)
            /\ bc' = [AfterBget(bc, b, v) EXCEPT !.buf[v].data = bc.buf[v].data]
            /\ buf' = [buf EXCEPT ![p] = v] /\ pc' = [pc EXCEPT ![p] = "bread"]
            /\ UNCHANGED <<disk, idequeue, qnext, cmd, irq, stopped>>
      BY <1>7, <2>3, Zenon DEF bget, Goto
    <3>2. (\A q \in Proc : buf[q] # v) /\ bc.buf[v].refcnt = 0 /\ ~Dirty(bc, v)
      BY <2>1, <3>1, BgetFree, Zenon
    <3>3. bc \in BcacheType(Val) /\ OneCopy
      BY ZenonT(60) DEF IInv, TypeOK
    <3>4. \E x : BgetOf(b, v, x)
      BY <3>1, <3>2, <3>3, BgetLemma, Zenon
    <3> QED  BY <2>1, <3>1, <3>2, <3>4, BgetStep, Zenon
  <2> QED  BY <2>2, <2>3, ZenonT(60)
<1>8. ASSUME NEW p \in Proc, NEW d \in Val, store(p, d) PROVE IInv'
  BY <1>8, StoreStep, ZenonT(60)
<1> QED  BY <1>2, <1>3, <1>4, <1>5, <1>6, <1>7, <1>8, Zenon DEF Next

\* The types of the cache, the queue, the disk and the processes, for every value of
\* the constants.
THEOREM TypesCorrect ==
  ASSUME ~Shared
  PROVE  Spec => []TypeOK
<1>1. IInv => TypeOK
  BY ZenonT(60) DEF IInv
<1> QED  BY <1>1, InitIInv, NextIInv, PTL DEF Spec

\* The disk queue of ide.c, for any number of processes and buffers: it is a list
\* that ends, it holds exactly the requests that are not done, and the disk works
\* for its head, however iderw, ideintr and the disk interleave.
THEOREM QueueCorrect ==
  ASSUME ~Shared
  PROVE  Spec => []QueueOK
<1>1. ASSUME IInv PROVE QueueOK
  <2>1. TypeOK /\ QueueInv /\ CmdInv
    BY <1>1, ZenonT(60) DEF IInv
  <2>2. PICK s \in Seq(Bufs) :
          IsQueue(s, idequeue, qnext) /\ {s[i] : i \in 1..Len(s)} = Waiting
    BY <2>1, ZenonT(60) DEF QueueInv
  <2>3. Walk(idequeue, qnext)[NBUF] = Null /\ Queued = {s[i] : i \in 1..Len(s)}
    BY <2>2, QueueMembers, Zenon
  <2>4. Queued = Waiting
    BY <2>2, <2>3, Zenon
  <2> QED  BY <2>1, <2>3, <2>4, Zenon DEF QueueOK, CmdInv, Waiting
<1> QED  BY <1>1, InitIInv, NextIInv, PTL DEF Spec

\* Whoever comes out of bread or bwrite holds what the disk holds, for any number of
\* processes, buffers and blocks, when the disk reports no error.
THEOREM HoldsCorrect ==
  ASSUME ~Shared, ~Errors
  PROVE  Spec => []HoldsDisk
<1>1. ASSUME IInv PROVE HoldsDisk
  <2>1. ASSUME NEW p \in Proc, pc[p] = "have"
        PROVE  bc.buf[buf[p]].data = disk[bc.buf[buf[p]].blockno]
    <3>1. buf[p] \in Bufs /\ \A q \in Proc : buf[q] = buf[p] => q = p
      BY <1>1, <2>1, OwnLemma, ZenonT(60)
    <3>2. Done(buf[p]) /\ AgreeInv(buf[p])
      BY <1>1, <2>1, <3>1, ZenonT(60) DEF IInv, ProcInv
    <3> QED  BY <2>1, <3>1, <3>2, ZenonT(60) DEF AgreeInv
  <2> QED  BY <2>1, ZenonT(60) DEF HoldsDisk
<1> QED  BY <1>1, InitIInv, NextIInv, PTL DEF Spec

\* bget always finds a buffer when there are no more processes than buffers: each
\* buffer in use has a holder of its own, and the caller holds none.
LEMMA BuffersLeft ==
  ASSUME IInv, IsFiniteSet(Proc), Cardinality(Proc) <= NBUF,
         NEW p \in Proc, pc[p] = "idle", NEW b
  PROVE  ~NoBuffers(bc, b)
<1> SUFFICES ASSUME \A v \in Bufs : ~Unused(bc, v) PROVE FALSE
  BY ZenonT(60) DEF NoBuffers
<1>1. ASSUME NEW v \in Bufs PROVE \E q \in Proc \ {p} : buf[q] = v
  <2>1. \E q \in Proc : buf[q] = v
    BY ZenonT(60) DEF IInv, BufInv, Unused
  <2>2. buf[p] # v
    BY NullLemma, ZenonT(60) DEF IInv, ProcInv
  <2> QED  BY <2>1, <2>2, ZenonT(60)
<1> DEFINE f == [v \in Bufs |-> CHOOSE q \in Proc \ {p} : buf[q] = v]
<1>2. \A v \in Bufs : f[v] \in Proc \ {p} /\ buf[f[v]] = v
  BY <1>1, ZenonT(60)
<1>3. f \in [Bufs -> Proc \ {p}]
  BY <1>2, ZenonT(60)
<1> HIDE DEF f
<1>4. IsFiniteSet(Bufs) /\ Cardinality(Bufs) = NBUF
  BY NBUFAssumption, FS_Interval DEF Bufs
<1>5. /\ IsFiniteSet(Proc \ {p}) /\ Cardinality(Proc) \in Nat
      /\ Cardinality(Proc \ {p}) = Cardinality(Proc) - 1
  BY FS_RemoveElement, FS_CardinalityType, ZenonT(60)
<1>6. Cardinality(Proc \ {p}) < Cardinality(Bufs)
  BY <1>4, <1>5, NBUFAssumption
<1>7. PICK u, v \in Bufs : u # v /\ f[u] = f[v]
  BY <1>3, <1>4, <1>5, <1>6, FS_PigeonHole
<1> QED  BY <1>2, <1>7, ZenonT(60)

\* The kernel neither panics nor hangs with interrupts off: iderw is always called
\* with something to do, its loop along the queue ends, and bget always finds a
\* buffer, if there are no more processes than buffers.
THEOREM NotStoppedCorrect ==
  ASSUME ~Shared, IsFiniteSet(Proc), Cardinality(Proc) <= NBUF
  PROVE  Spec => []NotStopped
<1>1. Init => IInv /\ NotStopped
  BY InitIInv, ZenonT(60) DEF Init, NotStopped
<1>2. IInv /\ NotStopped /\ [Next]_vars => IInv' /\ NotStopped'
  <2> SUFFICES ASSUME IInv, NotStopped, [Next]_vars PROVE NotStopped'
    BY NextIInv, ZenonT(60)
  <2>1. ASSUME NEW p \in Proc, iderw(p) PROVE NotStopped'
    BY <2>1, IderwLemma, Zenon DEF QueuedOf, NotStopped
  <2>2. ASSUME NEW p \in Proc, NEW b \in BlockNo, bget(p, b) PROVE NotStopped'
    <3>1. ~NoBuffers(bc, b)
      BY <2>2, BuffersLeft, ZenonT(60) DEF bget, Here
    <3> QED  BY <2>2, <3>1, Zenon DEF bget, NotStopped
  <2>3. CASE UNCHANGED vars
    BY <2>3, ZenonT(60) DEF vars, NotStopped
  <2>4. CASE DiskDone \/ ideintr
    BY <2>4, ZenonT(60) DEF DiskDone, ideintr, NotStopped
  <2>5. ASSUME NEW p \in Proc,
               \/ bread(p) \/ bwrite(p) \/ waited(p) \/ release(p)
               \/ \E d \in Val : store(p, d)
        PROVE  NotStopped'
    BY <2>5, ZenonT(60) DEF bread, bwrite, waited, release, store, NotStopped
  <2> QED  BY <2>1, <2>2, <2>3, <2>4, <2>5, Zenon DEF Next, Progress
<1> QED  BY <1>1, <1>2, PTL DEF Spec
==============================================================================
