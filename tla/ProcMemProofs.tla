----------------------------- MODULE ProcMemProofs -----------------------------
(***************************************************************************)
(* PagesSound and ArgsInside for any sizes of memory, page, kernel stack   *)
(* and process table, and Boots where memory is large enough.              *)
(***************************************************************************)
EXTENDS ProcMem, FiniteSetTheorems, TLAPS

MemType ==
  /\ stage \in {"kinit", "pinit", "run", "panic", "null"}
  /\ p \in Nat
  /\ freelist \in Seq(Nat)
  /\ proc \in [1..NPROC -> [state : {"UNUSED", "RUNNABLE"}, offset : Nat]]
  /\ caller \in 0..NPROC

\* While freerange runs the pages that it has freed lie below p, p plus a page is
\* still a uint, and no process has a page.
Freeing ==
  stage = "kinit" => /\ p + PGSIZE < Uint
                     /\ \A k \in 1..Len(freelist) : freelist[k] + PGSIZE <= p
                     /\ InUse = {}

\* Only a process that has a page is in a system call.
Calling ==
  /\ caller # 0 => stage = "run" /\ caller \in InUse
  /\ caller = 0 => touched = {}

MemInv == MemType /\ Freeing /\ Calling /\ PagesSound /\ ArgsInside

\* Memory, pages and the kernel have sizes that fit.
LEMMA Sizes ==
  /\ Uint \in Nat /\ PGSIZE \in Nat /\ KSTACKSIZE \in Nat /\ End \in Nat /\ PHYSTOP \in Nat
  /\ NPROC \in Nat
  /\ 0 < KSTACKSIZE /\ KSTACKSIZE < PGSIZE /\ 0 < End /\ End <= PHYSTOP
  /\ PHYSTOP + 2 * PGSIZE <= Uint
  /\ 12 < Uint /\ Words \subseteq 0..(Uint - 1)
BY MemAssumption

\* PGROUNDUP(End), with which kinit begins, is a uint to which a page can be added.
LEMMA FirstPage == PGROUNDUP(End) \in Nat /\ PGROUNDUP(End) + PGSIZE < Uint
<1> DEFINE y == Add(End, PGSIZE - 1)
<1>1. y \in Nat /\ y = End + PGSIZE - 1
  BY Sizes DEF Add
<1>2. y % PGSIZE \in 0..(PGSIZE - 1)
  BY <1>1, Sizes
<1>3. y % PGSIZE <= y
  BY <1>1, <1>2, Sizes
<1> QED BY <1>1, <1>2, <1>3, Sizes DEF PGROUNDUP

\* The kernel starts with no page free, none in use, and no system call.
LEMMA InitMem == Init => MemInv
<1> SUFFICES ASSUME Init PROVE MemInv
  OBVIOUS
<1>1. InUse = {}
  BY DEF Init, InUse, Unused
<1>2. MemType
  BY FirstPage, Sizes DEF Init, MemType, Unused
<1>3. Len(freelist) = 0
  BY DEF Init
<1>4. Freeing /\ Calling
  BY <1>1, <1>3, FirstPage DEF Init, Freeing, Calling
<1>5. PagesSound
  BY <1>1, <1>3 DEF PagesSound
<1>6. ArgsInside
  BY DEF Init, ArgsInside
<1> QED BY <1>2, <1>4, <1>5, <1>6 DEF MemInv

\* kfree of freerange adds a page that is behind the kernel, in memory, and above
\* all that are in the list.
LEMMA FreerangeStep == MemInv /\ freerange => MemInv'
<1> SUFFICES ASSUME MemInv, freerange PROVE MemInv'
  OBVIOUS
<1> USE Sizes
<1>0. MemType /\ Freeing /\ Calling /\ PagesSound /\ ArgsInside /\ stage = "kinit"
  BY DEF MemInv, freerange
<1>1. caller = 0 /\ touched = {} /\ proc' = proc /\ caller' = 0 /\ touched' = {}
  BY <1>0 DEF Calling, freerange
<1>2. InUse = {} /\ InUse' = {}
  BY <1>0, <1>1 DEF Freeing, InUse
<1>3. p \in Nat /\ Add(p, PGSIZE) = p + PGSIZE /\ freelist \in Seq(Nat)
  BY <1>0 DEF MemType, Freeing, Add
<1>4. Calling' /\ ArgsInside'
  BY <1>1 DEF Calling, ArgsInside
<1>5. CASE freelist' = freelist
  <2>1. stage' \in {"pinit", "panic"}
    <3>1. freelist' # Append(freelist, p)
      BY <1>3, <1>5
    <3> QED BY <1>0, <1>3, <3>1 DEF freerange, kfree
  <2>2. MemType' /\ Freeing'
    <3>1. p' \in Nat
      BY <1>0, <1>3 DEF freerange
    <3> QED BY <1>0, <1>1, <1>3, <1>5, <2>1, <3>1, Zenon DEF MemType, Freeing
  <2>3. PagesSound'
    BY <1>0, <1>1, <1>2, <1>5 DEF PagesSound
  <2> QED BY <1>4, <2>2, <2>3 DEF MemInv
<1>6. CASE freelist' # freelist
  <2>1. /\ p + PGSIZE <= PHYSTOP /\ End <= p
        /\ freelist' = Append(freelist, p) /\ p' = p + PGSIZE /\ stage' = stage
    BY <1>3, <1>6 DEF freerange, kfree
  <2>2. /\ Len(freelist') = Len(freelist) + 1 /\ freelist'[Len(freelist) + 1] = p
        /\ \A k \in 1..Len(freelist) : freelist'[k] = freelist[k]
    BY <1>3, <2>1
  <2>3. Len(freelist) \in Nat /\ \A k \in 1..Len(freelist) : freelist[k] \in Nat
    BY <1>3
  <2>4. MemType'
    BY <1>0, <1>1, <1>3, <2>1 DEF MemType
  <2>5. \A k \in 1..Len(freelist) : freelist[k] + PGSIZE <= p /\ InMemory(freelist[k])
    BY <1>0 DEF Freeing, PagesSound
  <2>6. Freeing'
    <3>1. \A k \in 1..Len(freelist') : freelist'[k] + PGSIZE <= p'
      BY <1>3, <2>1, <2>2, <2>3, <2>5
    <3> QED BY <1>2, <1>3, <2>1, <3>1 DEF Freeing
  <2>7. \A k \in 1..Len(freelist') : InMemory(freelist'[k])
    BY <1>3, <2>1, <2>2, <2>3, <2>5, SMTT(30) DEF InMemory
  <2>8. ASSUME NEW k \in 1..Len(freelist'), NEW l \in 1..Len(freelist'), k # l
        PROVE  Apart(freelist'[k], freelist'[l])
    <3>1. CASE k \in 1..Len(freelist) /\ l \in 1..Len(freelist)
      BY <1>0, <2>2, <2>8, <3>1 DEF PagesSound
    <3>2. CASE k = Len(freelist) + 1 /\ l \in 1..Len(freelist)
      BY <1>3, <2>2, <2>3, <2>5, <3>2, SMTT(30) DEF Apart
    <3>3. CASE l = Len(freelist) + 1 /\ k \in 1..Len(freelist)
      BY <1>3, <2>2, <2>3, <2>5, <3>3 DEF Apart
    <3>4. \A j \in 1..Len(freelist') : j \in 1..Len(freelist) \/ j = Len(freelist) + 1
      BY <2>2, <2>3
    <3> QED BY <2>8, <3>1, <3>2, <3>3, <3>4
  <2>9. PagesSound'
    BY <1>2, <2>7, <2>8 DEF PagesSound
  <2> QED BY <1>4, <2>4, <2>6, <2>9 DEF MemInv
<1> QED BY <1>5, <1>6

\* kalloc gives pinit the last page of the list, which is then no longer in it.
LEMMA PinitStep == MemInv /\ pinit => MemInv'
<1> SUFFICES ASSUME MemInv, pinit PROVE MemInv'
  OBVIOUS
<1> USE Sizes
<1>0. MemType /\ Calling /\ PagesSound /\ stage = "pinit"
  BY DEF MemInv, pinit
<1>1. caller = 0 /\ touched = {} /\ caller' = 0 /\ touched' = {} /\ p' = p
  BY <1>0 DEF Calling, pinit
<1>2. Calling' /\ ArgsInside'
  BY <1>1 DEF Calling, ArgsInside
<1>3. stage' \in {"pinit", "run", "null"}
  BY <1>0 DEF pinit
<1>4. Freeing'
  BY <1>3 DEF Freeing
<1>5. CASE kalloc = 0 \/ ~\E q \in 1..NPROC : FirstUnused(q)
  <2>1. freelist' = freelist /\ proc' = proc
    BY <1>5 DEF pinit
  <2>2. MemType' /\ PagesSound'
    BY <1>0, <1>1, <1>3, <2>1 DEF MemType, PagesSound, InUse
  <2> QED BY <1>2, <1>4, <2>2 DEF MemInv
<1>6. CASE kalloc # 0 /\ \E q \in 1..NPROC : FirstUnused(q)
  <2> DEFINE n == Len(freelist)
  <2>1. PICK q \in 1..NPROC :
          /\ proc[q].state = "UNUSED"
          /\ proc' = [proc EXCEPT ![q] = [state |-> "RUNNABLE", offset |-> kalloc]]
    BY <1>6 DEF pinit, FirstUnused
  <2>2. /\ freelist \in Seq(Nat) /\ n \in Nat /\ n > 0 /\ kalloc = freelist[n]
        /\ kalloc \in Nat
    BY <1>0, <1>6 DEF MemType, kalloc
  <2>3. freelist' = [k \in 1..(n - 1) |-> freelist[k]]
    BY <1>6, <2>2, SMTT(30) DEF pinit, AfterKalloc
  <2>4. /\ freelist' \in Seq(Nat) /\ Len(freelist') = n - 1
        /\ \A k \in 1..(n - 1) : freelist'[k] = freelist[k] /\ freelist[k] \in Nat
    BY <2>2, <2>3
  <2>5. /\ proc' \in [1..NPROC -> [state : {"UNUSED", "RUNNABLE"}, offset : Nat]]
        /\ proc'[q].offset = kalloc
        /\ \A r \in 1..NPROC : r # q => proc'[r] = proc[r]
    BY <1>0, <2>1, <2>2 DEF MemType
  <2>6. MemType'
    BY <1>0, <1>1, <1>3, <2>4, <2>5 DEF MemType
  <2>7. \A r \in InUse' : r = q \/ (r # q /\ r \in InUse /\ proc'[r] = proc[r])
    BY <2>5 DEF InUse
  <2>8. /\ \A k \in 1..n : InMemory(freelist[k])
        /\ \A k, l \in 1..n : k # l => Apart(freelist[k], freelist[l])
        /\ \A r \in InUse : InMemory(proc[r].offset)
        /\ \A r, s \in InUse : r # s => Apart(proc[r].offset, proc[s].offset)
        /\ \A r \in InUse, k \in 1..n : Apart(proc[r].offset, freelist[k])
    BY <1>0 DEF PagesSound
  <2>9. n \in 1..n /\ 1..(n - 1) \subseteq 1..n /\ \A k \in 1..(n - 1) : k # n
    BY <2>2
  <2>10. \A a, b \in Nat : Apart(a, b) => Apart(b, a)
    BY DEF Apart
  <2>11. \A r \in InUse : proc[r].offset \in Nat
    BY <1>0 DEF MemType, InUse
  <2>12. /\ \A k \in 1..(n - 1) : InMemory(freelist'[k])
         /\ \A k, l \in 1..(n - 1) : k # l => Apart(freelist'[k], freelist'[l])
    BY <2>4, <2>8, <2>9, Zenon
  <2>13. \A r \in InUse' : InMemory(proc'[r].offset)
    <3>1. InMemory(kalloc)
      BY <2>2, <2>8, <2>9, Zenon
    <3> QED BY <2>5, <2>7, <2>8, <3>1, Zenon
  <2>14. ASSUME NEW r \in InUse', NEW s \in InUse', r # s
         PROVE  Apart(proc'[r].offset, proc'[s].offset)
    <3>1. CASE r = q
      BY <2>2, <2>5, <2>7, <2>8, <2>9, <2>10, <2>11, <2>14, <3>1, SMTT(30)
    <3>2. CASE s = q
      <4>1. r \in InUse /\ proc'[r] = proc[r] /\ n \in 1..n
        BY <2>2, <2>7, <2>14, <3>2
      <4>2. Apart(proc[r].offset, freelist[n])
        BY <2>8, <4>1, Zenon
      <4> QED BY <2>2, <2>5, <3>2, <4>1, <4>2, Zenon
    <3>3. CASE r # q /\ s # q
      BY <2>7, <2>8, <2>14, <3>3
    <3> QED BY <3>1, <3>2, <3>3
  <2>15. ASSUME NEW r \in InUse', NEW k \in 1..(n - 1)
         PROVE  Apart(proc'[r].offset, freelist'[k])
    <3>1. k \in 1..n /\ n \in 1..n /\ n # k /\ freelist'[k] = freelist[k]
      BY <2>4, <2>9, <2>15, Zenon
    <3>2. CASE r = q
      <4>1. Apart(freelist[n], freelist[k])
        BY <2>8, <3>1, Zenon
      <4> QED BY <2>2, <2>5, <3>1, <3>2, <4>1, Zenon
    <3>3. CASE r # q
      <4>1. r \in InUse /\ proc'[r] = proc[r]
        BY <2>7, <2>15, <3>3, Zenon
      <4>2. Apart(proc[r].offset, freelist[k])
        BY <2>8, <3>1, <4>1, Zenon
      <4> QED BY <3>1, <4>1, <4>2, Zenon
    <3> QED BY <3>2, <3>3
  <2>16. PagesSound'
    BY <2>4, <2>12, <2>13, <2>14, <2>15 DEF PagesSound
  <2> QED BY <1>2, <1>4, <2>6, <2>16 DEF MemInv
<1> QED BY <1>5, <1>6

\* The bytes of process q.
Own(q, b) == proc[q].offset <= b.lo /\ b.hi <= proc[q].offset + sz

\* An address below sz, with a page of memory added, does not wrap around, and
\* bytes that end below sz are bytes of the process.
LEMMA OwnBytes ==
  ASSUME NEW offset \in Nat, InMemory(offset), NEW addr \in Nat, addr < sz,
         NEW n \in Nat, addr + n <= sz
  PROVE  LET b == Bytes(Add(addr, offset), n)
         IN  offset <= b.lo /\ b.hi <= offset + sz
<1>1. Add(addr, offset) = addr + offset
  BY Sizes DEF Add, sz, InMemory
<1> QED BY <1>1, Sizes DEF Bytes, sz

\* fetchint accepts only words of the process.
LEMMA FetchintOwn ==
  ASSUME NEW q, proc[q].offset \in Nat, InMemory(proc[q].offset), NEW addr \in 0..(Uint - 1)
  PROVE  \A b \in fetchint(q, addr) : Own(q, b)
<1>1. CASE addr >= sz \/ Add(addr, 4) > sz
  BY <1>1 DEF fetchint
<1>2. CASE addr < sz /\ Add(addr, 4) <= sz
  <2>1. addr + 4 <= sz
    BY <1>2, Sizes DEF Add, sz
  <2> DEFINE b == Bytes(Add(addr, proc[q].offset), 4)
  <2>2. Own(q, b)
    BY <1>2, <2>1, OwnBytes, Sizes DEF Own
  <2>3. fetchint(q, addr) = {b} \/ fetchint(q, addr) = {}
    BY DEF fetchint
  <2> QED BY <2>2, <2>3
<1>3. sz \in Int /\ Add(addr, 4) \in Int
  BY Sizes DEF sz, Add
<1> QED BY <1>1, <1>2, <1>3

\* The nth word behind the stack pointer, wherever that points, is one of the
\* process or is refused.
LEMMA ArgintOwn ==
  ASSUME NEW q, proc[q].offset \in Nat, InMemory(proc[q].offset),
         NEW esp \in Words, NEW n \in 0..2
  PROVE  \A b \in argint(q, esp, n) : Own(q, b)
<1>1. Add(esp, 4 + 4 * n) \in 0..(Uint - 1)
  BY Sizes DEF Add
<1> QED BY <1>1, FetchintOwn DEF argint

\* fetchstr looks at bytes of the process only, whether or not it finds a 0.
LEMMA FetchstrOwn ==
  ASSUME NEW q, proc[q].offset \in Nat, InMemory(proc[q].offset),
         NEW addr \in Words, NEW len \in Words
  PROVE  \A b \in fetchstr(q, addr, len) : Own(q, b)
<1> DEFINE n == IF addr + len < sz THEN len + 1 ELSE sz - addr
           b == Bytes(Add(addr, proc[q].offset), n)
<1>1. addr \in Nat /\ len \in Nat /\ sz \in Nat
  BY Sizes DEF sz
<1>2. CASE addr >= sz
  BY <1>2 DEF fetchstr
<1>3. CASE addr < sz
  <2>1. n \in Nat /\ addr + n <= sz
    BY <1>1, <1>3
  <2>2. Own(q, b)
    BY <1>1, <1>3, <2>1, OwnBytes DEF Own
  <2>3. fetchstr(q, addr, len) \subseteq {b}
    BY DEF fetchstr
  <2> QED BY <2>2, <2>3
<1> QED BY <1>1, <1>2, <1>3

\* argptr accepts a block of memory only if all of it belongs to the process: the
\* sum of address and size does not wrap around.
LEMMA ArgptrOwn ==
  ASSUME NEW q, proc[q].offset \in Nat, InMemory(proc[q].offset),
         NEW esp \in Words, NEW n \in 0..2, NEW i \in Words, NEW size \in Words
  PROVE  \A b \in argptr(q, esp, n, i, size) : Own(q, b)
<1> DEFINE b == Bytes(Add(i, proc[q].offset), size)
<1>1. i \in Nat /\ size \in Nat /\ sz \in Nat /\ Add(i, size) \in Int /\ Uint \div 2 \in Nat
  BY Sizes DEF sz, Add
<1>2. CASE size >= Uint \div 2 \/ i >= sz \/ Add(i, size) > sz
  <2>1. argptr(q, esp, n, i, size) = argint(q, esp, n)
    BY <1>2 DEF argptr
  <2> QED BY <2>1, ArgintOwn
<1>3. CASE size < Uint \div 2 /\ i < sz /\ Add(i, size) <= sz
  <2>1. 2 * (Uint \div 2) <= Uint /\ 2 * sz <= Uint
    BY Sizes DEF sz
  <2>2. i + size <= sz
    BY <1>1, <1>3, <2>1, Sizes DEF Add
  <2>3. Own(q, b)
    BY <1>1, <1>3, <2>2, OwnBytes DEF Own
  <2>4. argptr(q, esp, n, i, size) \subseteq argint(q, esp, n) \cup {b}
    BY DEF argptr
  <2> QED BY <2>3, <2>4, ArgintOwn
<1> QED BY <1>1, <1>2, <1>3

\* A system call touches only bytes of its caller.
LEMMA SyscallStep == ASSUME NEW q \in 1..NPROC PROVE MemInv /\ syscall(q) => MemInv'
<1> SUFFICES ASSUME MemInv, syscall(q) PROVE MemInv'
  OBVIOUS
<1>0. MemType /\ PagesSound /\ stage = "run" /\ q \in InUse
  BY DEF MemInv, syscall, InUse
<1>1. /\ stage' = stage /\ p' = p /\ freelist' = freelist /\ proc' = proc /\ caller' = q
      /\ InUse' = InUse
  BY DEF syscall, InUse
<1>2. proc[q].offset \in Nat /\ InMemory(proc[q].offset)
  BY <1>0 DEF MemType, PagesSound
<1>3. PICK esp \in Words, a \in Words, c \in Words, fdok \in BOOLEAN :
        touched' \in {{}, sys_write(q, esp, fdok, a, c), sys_open(q, esp, a, c), sys_close(q, esp)}
  BY DEF syscall
<1>4. \A n \in 0..2 : \A b \in argint(q, esp, n) : Own(q, b)
  BY <1>2, ArgintOwn
<1>5. \A b \in argptr(q, esp, 1, c, a) : Own(q, b)
  BY <1>2, ArgptrOwn
<1>6. \A b \in fetchstr(q, a, c) : Own(q, b)
  BY <1>2, FetchstrOwn
<1>7. 0 \in 0..2 /\ 1 \in 0..2 /\ 2 \in 0..2
  OBVIOUS
<1>8. \A b \in sys_write(q, esp, fdok, a, c) : Own(q, b)
  BY <1>4, <1>5, <1>7 DEF sys_write
<1>9. \A b \in sys_open(q, esp, a, c) : Own(q, b)
  BY <1>4, <1>6, <1>7 DEF sys_open, argstr
<1>10. \A b \in sys_close(q, esp) : Own(q, b)
  BY <1>4, <1>7 DEF sys_close
<1>11. \A b \in touched' : Own(q, b)
  BY <1>3, <1>8, <1>9, <1>10
<1>12. ArgsInside'
  BY <1>1, <1>11 DEF ArgsInside, Own
<1>13. q # 0 /\ q \in 0..NPROC
  BY Sizes
<1>14. MemType' /\ Freeing' /\ Calling'
  BY <1>0, <1>1, <1>13 DEF MemType, Freeing, Calling
<1>15. PagesSound'
  BY <1>0, <1>1 DEF PagesSound
<1> QED BY <1>12, <1>14, <1>15 DEF MemInv

\* The return from a system call, and a step that changes nothing, keep the invariant.
LEMMA TrapretStep == MemInv /\ (trapret \/ UNCHANGED vars) => MemInv'
<1>1. ASSUME MemInv, trapret PROVE MemInv'
  <2>1. /\ stage' = stage /\ p' = p /\ freelist' = freelist /\ proc' = proc
        /\ caller' = 0 /\ touched' = {} /\ InUse' = InUse
    BY <1>1 DEF trapret, InUse
  <2>2. MemType' /\ Freeing' /\ Calling' /\ ArgsInside'
    BY <1>1, <2>1, Sizes DEF MemInv, MemType, Freeing, Calling, ArgsInside
  <2>3. PagesSound'
    BY <1>1, <2>1 DEF MemInv, PagesSound
  <2> QED BY <2>2, <2>3 DEF MemInv
<1>2. ASSUME MemInv, UNCHANGED vars PROVE MemInv'
  <2>1. /\ stage' = stage /\ p' = p /\ freelist' = freelist /\ proc' = proc
        /\ caller' = caller /\ touched' = touched /\ InUse' = InUse
    BY <1>2 DEF vars, InUse
  <2> QED BY <1>2, <2>1 DEF MemInv, MemType, Freeing, Calling, ArgsInside, PagesSound
<1> QED BY <1>1, <1>2

\* Whatever the sizes: no byte of memory is handed out twice by the page allocator,
\* and the kernel touches, for a process, only bytes of this process.
THEOREM MemCorrect == Spec => [](PagesSound /\ ArgsInside)
<1>1. MemInv /\ [Next]_vars => MemInv'
  BY FreerangeStep, PinitStep, SyscallStep, TrapretStep DEF Next
<1>2. MemInv => PagesSound /\ ArgsInside
  BY DEF MemInv
<1> QED BY InitMem, <1>1, <1>2, PTL DEF Spec

\* The page allocator alone.
THEOREM PagesCorrect == Spec => []PagesSound
BY MemCorrect, PTL

\* The tests of syscall.c alone.
THEOREM ArgsCorrect == Spec => []ArgsInside
BY MemCorrect, PTL

------------------------------------------------------------------------------
(* The boot.                                                               *)

\* Memory has a page for each process of main, and the table an element.
Enough ==
  /\ 0 < Processes /\ Processes <= NPROC
  /\ PGROUNDUP(End) + Processes * PGSIZE <= PHYSTOP

\* A product with a positive number grows with its other factor.
LEMMA Product ==
  ASSUME NEW a \in Int, NEW b \in Int, NEW c \in Nat, 0 < c
  PROVE  a * c \in Int /\ (a * c < b * c => a < b)
<1>1. a * c \in Int /\ b * c \in Int
  OBVIOUS
<1>2. a >= b => a * c >= b * c
  <2> SUFFICES ASSUME a >= b PROVE a * c >= b * c
    OBVIOUS
  <2>1. (a - b) * c >= 0
    OBVIOUS
  <2>2. (a - b) * c = a * c - b * c
    OBVIOUS
  <2> QED BY <1>1, <2>1, <2>2
<1> QED BY <1>1, <1>2

\* A multiple of the page size passes kfree's test.
LEMMA Multiple ==
  ASSUME NEW m \in Nat, NEW c \in Nat, 0 < c
  PROVE  (m * c) % c = 0
<1> DEFINE x == m * c
           d == x \div c
           r == x % c
<1>1. x \in Nat /\ d \in Int /\ r \in 0..(c - 1) /\ x = c * d + r
  OBVIOUS
<1> HIDE DEF d, r
<1>2. (m - d) * c = r
  BY <1>1
<1>3. (m - d) * c < 1 * c /\ (-1) * c < (m - d) * c
  BY <1>1, <1>2
<1>4. m - d < 1 /\ -1 < m - d
  BY <1>1, <1>3, Product
<1>5. m - d = 0
  BY <1>1, <1>4
<1> QED BY <1>1, <1>2, <1>5 DEF r

\* PGROUNDUP(End) is a page boundary behind the kernel.
LEMMA FirstBoundary == PGROUNDUP(End) >= End /\ \E m \in Nat : PGROUNDUP(End) = m * PGSIZE
<1> DEFINE y == Add(End, PGSIZE - 1)
           d == y \div PGSIZE
           r == y % PGSIZE
<1>1. y \in Nat /\ y = End + PGSIZE - 1 /\ PGSIZE \in Nat /\ 0 < PGSIZE
  BY Sizes DEF Add
<1>2. PGROUNDUP(End) = y - r
  BY DEF PGROUNDUP
<1> HIDE DEF y
<1>3. d \in Nat /\ r \in 0..(PGSIZE - 1) /\ y = PGSIZE * d + r
  BY <1>1
<1> HIDE DEF d, r
<1>4. y - r = d * PGSIZE /\ y - r >= End
  BY <1>1, <1>3, Sizes
<1> QED BY <1>2, <1>3, <1>4
\* While freerange runs, it is at a page boundary and has freed every page below;
\* processes have the first elements of the table; and while main starts them,
\* those that are left have a page each.
BootInv ==
  /\ Boots
  /\ stage = "kinit" => /\ \E m \in Nat : p = m * PGSIZE
                        /\ p = PGROUNDUP(End) + Len(freelist) * PGSIZE
  /\ \E n \in 0..NPROC :
       /\ InUse = 1..n
       /\ stage = "kinit" => n = 0
       /\ stage = "pinit" => n < Processes /\ Processes <= n + Len(freelist)

\* kfree accepts the pages of freerange, which frees one for each process.
LEMMA FreerangeBoots ==
  ASSUME Enough, MemInv, BootInv, freerange
  PROVE  BootInv'
<1> USE Sizes
<1>0. MemType /\ Freeing /\ stage = "kinit" /\ Processes \in Nat
  BY MemAssumption DEF MemInv, freerange
<1>1. p \in Nat /\ Add(p, PGSIZE) = p + PGSIZE /\ freelist \in Seq(Nat) /\ Len(freelist) \in Nat
  BY <1>0 DEF MemType, Freeing, Add
<1>2. PICK m \in Nat : p = m * PGSIZE
  BY <1>0, Zenon DEF BootInv
<1>3. p = PGROUNDUP(End) + Len(freelist) * PGSIZE
  BY <1>0, Zenon DEF BootInv
<1>4. InUse = 1..0 /\ InUse' = 1..0
  <2>1. InUse = {} /\ proc' = proc
    BY <1>0 DEF Freeing, freerange
  <2> QED BY <2>1 DEF InUse
<1>5. PGROUNDUP(End) \in Nat /\ Len(freelist) * PGSIZE \in Nat /\ Processes * PGSIZE \in Nat
  BY <1>0, <1>1, FirstPage
<1>6. CASE p + PGSIZE <= PHYSTOP
  <2>1. p % PGSIZE = 0 /\ p >= End
    <3>1. p % PGSIZE = 0
      BY <1>2, Multiple
    <3> QED BY <1>3, <1>5, <3>1, FirstBoundary
  <2>2. stage' = "kinit" /\ freelist' = Append(freelist, p) /\ p' = p + PGSIZE
    BY <1>0, <1>1, <1>6, <2>1 DEF freerange, kfree
  <2>3. p' = (m + 1) * PGSIZE /\ m + 1 \in Nat
    BY <1>2, <2>2
  <2>4. Len(freelist') = Len(freelist) + 1
    BY <1>1, <2>2
  <2>5. (Len(freelist) + 1) * PGSIZE = Len(freelist) * PGSIZE + PGSIZE
    BY <1>1
  <2>6. p' = PGROUNDUP(End) + Len(freelist') * PGSIZE
    BY <1>3, <1>5, <2>2, <2>4, <2>5
  <2>7. 0 \in 0..NPROC /\ "kinit" # "pinit"
    OBVIOUS
  <2>8. Boots' /\ \E j \in Nat : p' = j * PGSIZE
    BY <2>2, <2>3, Zenon DEF Boots
  <2> QED BY <1>4, <2>2, <2>6, <2>7, <2>8, Zenon DEF BootInv
<1>7. CASE p + PGSIZE > PHYSTOP
  <2>1. stage' = "pinit" /\ freelist' = freelist
    BY <1>0, <1>1, <1>7 DEF freerange
  <2>2. Processes <= Len(freelist)
    <3>1. (Len(freelist) + 1) * PGSIZE = Len(freelist) * PGSIZE + PGSIZE
      BY <1>1
    <3>2. Processes * PGSIZE < (Len(freelist) + 1) * PGSIZE
      BY <1>1, <1>3, <1>5, <1>7, <3>1 DEF Enough
    <3>3. Processes < Len(freelist) + 1
      BY <1>0, <1>1, <3>2, Product
    <3> QED BY <1>0, <1>1, <3>3
  <2>3. 0 \in 0..NPROC /\ 0 < Processes /\ Processes <= 0 + Len(freelist)
    BY <1>0, <1>1, <2>2 DEF Enough
  <2>4. Boots' /\ stage' # "kinit"
    BY <2>1 DEF Boots
  <2> QED BY <1>4, <2>1, <2>3, <2>4, Zenon DEF BootInv
<1> QED BY <1>1, <1>6, <1>7

\* pinit finds a page and the element behind those in use.
LEMMA PinitBoots ==
  ASSUME Enough, MemInv, BootInv, pinit
  PROVE  BootInv'
<1> USE Sizes
<1>0. MemType /\ PagesSound /\ stage = "pinit" /\ Processes \in Nat
  BY MemAssumption DEF MemInv, pinit
<1>1. PICK n \in 0..NPROC : InUse = 1..n /\ n < Processes /\ Processes <= n + Len(freelist)
  BY <1>0, Zenon DEF BootInv
<1>2. /\ freelist \in Seq(Nat) /\ Len(freelist) \in Nat /\ Len(freelist) > 0
      /\ n + 1 \in 1..NPROC
  BY <1>0, <1>1 DEF MemType, Enough
<1>3. kalloc # 0
  <2>1. freelist # <<>> /\ Len(freelist) \in 1..Len(freelist)
    BY <1>2
  <2>2. InMemory(freelist[Len(freelist)])
    BY <1>0, <2>1, Zenon DEF PagesSound
  <2> QED BY <1>2, <2>1, <2>2 DEF kalloc, InMemory
<1>4. \A r \in 1..NPROC : proc[r].state # "UNUSED" <=> r \in 1..n
  BY <1>1 DEF InUse
<1>5. \A q \in 1..NPROC : FirstUnused(q) <=> q = n + 1
  <2>1. FirstUnused(n + 1)
    BY <1>2, <1>4 DEF FirstUnused
  <2>2. ASSUME NEW q \in 1..NPROC, FirstUnused(q) PROVE q = n + 1
    BY <1>2, <1>4, <2>2 DEF FirstUnused
  <2> QED BY <2>1, <2>2
<1>6. /\ proc' = [proc EXCEPT ![n + 1] = [state |-> "RUNNABLE", offset |-> kalloc]]
      /\ freelist' = AfterKalloc
      /\ stage' = IF Cardinality({q \in 1..NPROC : proc'[q].state = "RUNNABLE"}) = Processes
                  THEN "run" ELSE stage
  BY <1>2, <1>3, <1>5, Zenon DEF pinit
<1>7. /\ proc'[n + 1].state = "RUNNABLE"
      /\ \A r \in 1..NPROC : r # n + 1 => proc'[r] = proc[r]
      /\ \A r \in 1..NPROC : proc[r].state \in {"UNUSED", "RUNNABLE"}
  BY <1>0, <1>2, <1>6 DEF MemType
<1>8. \A r \in 1..NPROC : /\ proc'[r].state = "RUNNABLE" <=> r \in 1..(n + 1)
                          /\ proc'[r].state # "UNUSED" <=> r \in 1..(n + 1)
  <2> SUFFICES ASSUME NEW r \in 1..NPROC
               PROVE  /\ proc'[r].state = "RUNNABLE" <=> r \in 1..(n + 1)
                      /\ proc'[r].state # "UNUSED" <=> r \in 1..(n + 1)
    OBVIOUS
  <2>1. CASE r = n + 1
    BY <1>2, <1>7, <2>1
  <2>2. CASE r # n + 1
    BY <1>4, <1>7, <2>2
  <2> QED BY <2>1, <2>2
<1>9. InUse' = 1..(n + 1) /\ {q \in 1..NPROC : proc'[q].state = "RUNNABLE"} = 1..(n + 1)
  BY <1>2, <1>8 DEF InUse
<1>10. Cardinality(1..(n + 1)) = n + 1
  BY <1>1, FS_Interval
<1>11. Len(freelist') = Len(freelist) - 1
  <2>1. freelist' = [k \in 1..(Len(freelist) - 1) |-> freelist[k]]
    BY <1>2, <1>6 DEF AfterKalloc
  <2> QED BY <1>2, <2>1
<1>12. stage' = IF n + 1 = Processes THEN "run" ELSE "pinit"
  BY <1>0, <1>6, <1>9, <1>10, Zenon
<1>13. stage' = "pinit" => n + 1 < Processes /\ Processes <= (n + 1) + Len(freelist')
  BY <1>0, <1>1, <1>2, <1>11, <1>12
<1>14. Boots' /\ stage' # "kinit" /\ n + 1 \in 0..NPROC
  BY <1>1, <1>2, <1>12 DEF Boots
<1> QED BY <1>9, <1>13, <1>14, Zenon DEF BootInv

\* With a page and an element of the table for every process, kinit does not panic
\* on a page it frees, and no pinit uses the null pointer that allocproc may return.
THEOREM BootsCorrect ==
  ASSUME Enough
  PROVE  Spec => []Boots
<1>1. Init => MemInv /\ BootInv
  <2> SUFFICES ASSUME Init PROVE BootInv
    BY InitMem
  <2>1. InUse = 1..0 /\ 0 \in 0..NPROC
    BY Sizes DEF Init, InUse, Unused
  <2>2. stage = "kinit" /\ p = PGROUNDUP(End) /\ Len(freelist) = 0 /\ stage # "pinit"
    BY DEF Init
  <2>3. p = PGROUNDUP(End) + Len(freelist) * PGSIZE
    BY <2>2, FirstPage, Sizes
  <2> QED BY <2>1, <2>2, <2>3, FirstBoundary, Zenon DEF BootInv, Boots
<1>2. MemInv /\ BootInv /\ [Next]_vars => (MemInv /\ BootInv)'
  <2> SUFFICES ASSUME MemInv, BootInv, [Next]_vars PROVE MemInv' /\ BootInv'
    OBVIOUS
  <2>1. MemInv'
    BY FreerangeStep, PinitStep, SyscallStep, TrapretStep DEF Next
  <2>2. CASE UNCHANGED <<stage, p, freelist, proc>>
    BY <2>1, <2>2, Zenon DEF BootInv, Boots, InUse
  <2>3. CASE ~UNCHANGED <<stage, p, freelist, proc>>
    BY <2>1, <2>3, FreerangeBoots, PinitBoots, Zenon DEF Next, syscall, trapret, vars
  <2> QED BY <2>2, <2>3
<1>3. BootInv => Boots
  BY DEF BootInv
<1> QED BY <1>1, <1>2, <1>3, PTL DEF Spec
==============================================================================
