-------------------------------- MODULE ProcMem --------------------------------
(***************************************************************************)
(* The memory of processes: the page allocator of kalloc.c, the page that  *)
(* allocproc gives to a process, and the tests of syscall.c on the         *)
(* addresses that a process passes to the kernel.  Addresses are uints.    *)
(*                                                                         *)
(* A page holds a process: its own memory, sz bytes, and above it its      *)
(* kernel stack.  The contents of memory are not modelled: a word that is  *)
(* fetched has any value, a string any length.                             *)
(***************************************************************************)
EXTENDS Integers, Sequences, FiniteSets

CONSTANTS Uint,         \* the number of values of a uint
          PGSIZE, KSTACKSIZE,
          End,          \* the first address after the kernel
          PHYSTOP,      \* the end of memory
          NPROC,        \* the size of the process table
          Processes,    \* the calls of pinit in main
          Words         \* bound: the values that registers and words of memory have

ASSUME MemAssumption ==
  /\ {Uint, PGSIZE, KSTACKSIZE, End, PHYSTOP, NPROC, Processes} \subseteq Nat
  /\ 0 < KSTACKSIZE /\ KSTACKSIZE < PGSIZE /\ 0 < End /\ End <= PHYSTOP
  /\ PHYSTOP + 2 * PGSIZE <= Uint
  /\ 12 < Uint /\ Words \subseteq 0..(Uint - 1)

VARIABLES stage,      \* what main does: kinit, pinit, or run the processes; or how it stopped
          p,          \* freerange's p
          freelist,   \* free pages, the first one to be allocated last
          proc,       \* the process table
          caller,     \* the process that is in a system call, or 0
          touched     \* the bytes that its system call accesses

vars == <<stage, p, freelist, proc, caller, touched>>

------------------------------------------------------------------------------
(* Pages.                                                                  *)

\* The sum of two uints.
Add(x, y) == IF x + y >= Uint THEN x + y - Uint ELSE x + y

\* Mutant: to the page that x is in.
PGROUNDUPDown(x) == x - (x % PGSIZE)

PGROUNDUP(x) == Add(x, PGSIZE - 1) - (Add(x, PGSIZE - 1) % PGSIZE)

kfree(v) ==
  IF v % PGSIZE # 0 \/ v < End THEN stage' = "panic" /\ UNCHANGED freelist
  ELSE freelist' = Append(freelist, v) /\ UNCHANGED stage

\* Mutant: the last page may be only in part there.
freerangePartly ==
  /\ stage = "kinit"
  /\ IF p <= PHYSTOP THEN kfree(p) /\ p' = Add(p, PGSIZE)
     ELSE stage' = "pinit" /\ UNCHANGED <<freelist, p>>
  /\ UNCHANGED <<proc, caller, touched>>

\* An iteration of freerange's loop, or its end.
freerange ==
  /\ stage = "kinit"
  /\ IF Add(p, PGSIZE) <= PHYSTOP THEN kfree(p) /\ p' = Add(p, PGSIZE)
     ELSE stage' = "pinit" /\ UNCHANGED <<freelist, p>>
  /\ UNCHANGED <<proc, caller, touched>>

\* The page that kalloc returns, 0 for none, and the list that it leaves.
kalloc == IF freelist = <<>> THEN 0 ELSE freelist[Len(freelist)]
AfterKalloc ==
  IF freelist = <<>> THEN freelist ELSE [k \in 1..(Len(freelist) - 1) |-> freelist[k]]

Unused == [state |-> "UNUSED", offset |-> 0]

\* The element of the table that allocproc finds.
FirstUnused(q) ==
  proc[q].state = "UNUSED" /\ \A r \in 1..(q - 1) : proc[r].state # "UNUSED"

\* pinit uses what allocproc returns without a test.
pinit ==
  /\ stage = "pinit"
  /\ IF kalloc = 0 \/ ~\E q \in 1..NPROC : FirstUnused(q)
     THEN stage' = "null" /\ UNCHANGED <<freelist, proc>>
     ELSE /\ \E q \in 1..NPROC :
               /\ FirstUnused(q)
               /\ proc' = [proc EXCEPT ![q] = [state |-> "RUNNABLE", offset |-> kalloc]]
          /\ freelist' = AfterKalloc
          /\ stage' = IF Cardinality({q \in 1..NPROC : proc'[q].state = "RUNNABLE"}) = Processes
                      THEN "run" ELSE stage
  /\ UNCHANGED <<p, caller, touched>>

------------------------------------------------------------------------------
(* The arguments of system calls.  An argument that is refused touches     *)
(* nothing; one that is accepted touches the bytes it stands for.          *)

sz == PGSIZE - KSTACKSIZE
Bytes(lo, n) == [lo |-> lo, hi |-> lo + n]

\* Mutant: only the end of the word is tested.
fetchintEnd(q, addr) ==
  IF Add(addr, 4) > sz THEN {} ELSE {Bytes(Add(addr, proc[q].offset), 4)}

fetchint(q, addr) ==
  IF addr >= sz \/ Add(addr, 4) > sz THEN {} ELSE {Bytes(Add(addr, proc[q].offset), 4)}

\* The string at addr has its 0 after len bytes, or none before the end of memory.
fetchstr(q, addr, len) ==
  IF addr >= sz THEN {}
  ELSE {Bytes(Add(addr, proc[q].offset), IF addr + len < sz THEN len + 1 ELSE sz - addr)}

argint(q, esp, n) == fetchint(q, Add(esp, 4 + 4 * n))

\* i is the word, size an int: negative from Uint \div 2 on.
argptr(q, esp, n, i, size) ==
  IF argint(q, esp, n) = {} \/ size >= Uint \div 2 \/ i >= sz \/ Add(i, size) > sz
  THEN argint(q, esp, n)
  ELSE argint(q, esp, n) \cup {Bytes(Add(i, proc[q].offset), size)}

argstr(q, esp, n, addr, len) ==
  IF argint(q, esp, n) = {} THEN {} ELSE argint(q, esp, n) \cup fetchstr(q, addr, len)

\* What the calls touch: argfd's test of the descriptor may fail, too.
sys_write(q, esp, fdok, n, i) ==
  IF argint(q, esp, 0) = {} \/ ~fdok \/ argint(q, esp, 2) = {} THEN argint(q, esp, 0)
  ELSE argint(q, esp, 0) \cup argint(q, esp, 2) \cup argptr(q, esp, 1, i, n)
sys_open(q, esp, addr, len) ==
  IF argint(q, esp, 0) = {} \/ addr + len >= sz THEN argstr(q, esp, 0, addr, len)
  ELSE argstr(q, esp, 0, addr, len) \cup argint(q, esp, 1)
sys_close(q, esp) == argint(q, esp, 0)

\* A process traps into the kernel with the stack pointer esp, and makes a call
\* of the table, or one that touches nothing (uptime, or a number not in it).
syscall(q) ==
  /\ stage = "run" /\ caller = 0 /\ proc[q].state = "RUNNABLE"
  /\ caller' = q
  /\ \E esp, a, b \in Words, fdok \in BOOLEAN :
       touched' \in {{}, sys_write(q, esp, fdok, a, b), sys_open(q, esp, a, b), sys_close(q, esp)}
  /\ UNCHANGED <<stage, p, freelist, proc>>

trapret ==
  /\ caller # 0
  /\ caller' = 0 /\ touched' = {}
  /\ UNCHANGED <<stage, p, freelist, proc>>

------------------------------------------------------------------------------

Init ==
  /\ stage = "kinit" /\ p = PGROUNDUP(End) /\ freelist = <<>>
  /\ proc = [q \in 1..NPROC |-> Unused]
  /\ caller = 0 /\ touched = {}

Next == freerange \/ pinit \/ (\E q \in 1..NPROC : syscall(q)) \/ trapret

Spec == Init /\ [][Next]_vars

------------------------------------------------------------------------------
(* Properties.                                                             *)

InUse == {q \in 1..NPROC : proc[q].state # "UNUSED"}
Apart(a, b) == a + PGSIZE <= b \/ b + PGSIZE <= a
InMemory(a) == End <= a /\ a + PGSIZE <= PHYSTOP

\* Pages, free or given to a process, lie in memory behind the kernel, and no two
\* of them overlap: freerange, kfree, kalloc and allocproc never hand out a byte twice.
PagesSound ==
  /\ \A k \in 1..Len(freelist) : InMemory(freelist[k])
  /\ \A k, l \in 1..Len(freelist) : k # l => Apart(freelist[k], freelist[l])
  /\ \A q \in InUse : InMemory(proc[q].offset)
  /\ \A q, r \in InUse : q # r => Apart(proc[q].offset, proc[r].offset)
  /\ \A q \in InUse, k \in 1..Len(freelist) : Apart(proc[q].offset, freelist[k])

\* The bytes that a system call accesses on behalf of a process are bytes of this
\* process below its kernel stack, whatever its registers and its memory hold.
ArgsInside ==
  \A b \in touched : proc[caller].offset <= b.lo /\ b.hi <= proc[caller].offset + sz

\* kfree does not panic in kinit, and the processes of main find a page each.
Boots == stage \in {"kinit", "pinit", "run"}
==============================================================================
