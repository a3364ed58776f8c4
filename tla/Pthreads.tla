------------------------------- MODULE Pthreads -------------------------------
(***************************************************************************)
(* What the programs of 09/ use: threads on an x86, and the semaphores,    *)
(* mutexes, read-write locks and condition variables of the pthread        *)
(* library.  All of it is outside the repository.                          *)
(*                                                                         *)
(* A store waits in its thread's buffer before the others see it.  The     *)
(* calls of the library, and fences, wait until the buffer is empty.       *)
(***************************************************************************)
EXTENDS Integers, Sequences, SequencesExt

VARIABLES pc,         \* where each thread is: 0 when it has returned or does not run
          reg,        \* its local variables
          mem,        \* the shared variables
          buffer,     \* the stores of each thread that others do not see yet
          sem,        \* semaphores; a mutex is one of 1, a read-write lock one of many
          asleep,     \* <<c, t>>: thread t sleeps on condition variable c
          undefined   \* a thread was woken without a signal, or used what has no value yet

machine == <<mem, buffer, sem, asleep, undefined>>

\* An element of an array, and a variable that is not in an array.
Addr(x, k) == <<x, k>>
Var(x) == <<x, 0>>

\* The steps of a thread: from a to b; at the end of a loop of n rounds; and
\* one that changes local variables only.
Go(t, a, b) == pc[t] = a /\ pc' = [pc EXCEPT ![t] = b] /\ UNCHANGED reg
Again(t, a, b, n) ==
  /\ pc[t] = a
  /\ pc' = [pc EXCEPT ![t] = IF reg[t].k + 1 < n THEN b ELSE 0]
  /\ reg' = [reg EXCEPT ![t].k = @ + 1]
Local(t, a, b, r) ==
  pc[t] = a /\ pc' = [pc EXCEPT ![t] = b] /\ reg' = [reg EXCEPT ![t] = r] /\ UNCHANGED machine

Value(t, x) ==
  LET own == SelectSeq(buffer[t], LAMBDA w : w[1] = x)
  IN  IF own = <<>> THEN mem[x] ELSE Last(own)[2]

load(t, a, b, x) == Local(t, a, b, [reg[t] EXCEPT !.r = Value(t, x)])
test(t, a, P, b, c) == Go(t, a, IF P THEN b ELSE c) /\ UNCHANGED machine

store(t, x, v) ==
  buffer' = [buffer EXCEPT ![t] = Append(@, <<x, v>>)] /\ UNCHANGED <<mem, sem, asleep, undefined>>

\* The oldest store of t reaches the memory.
drain(t) ==
  /\ buffer[t] # <<>>
  /\ mem' = [mem EXCEPT ![Head(buffer[t])[1]] = Head(buffer[t])[2]]
  /\ buffer' = [buffer EXCEPT ![t] = Tail(@)]
  /\ UNCHANGED <<pc, reg, sem, asleep, undefined>>

Fenced(t) == buffer[t] = <<>>
fence(t) == Fenced(t) /\ UNCHANGED machine
atomic_inc(t, x) ==
  /\ Fenced(t)
  /\ mem' = [mem EXCEPT ![x] = @ + 1]
  /\ UNCHANGED <<buffer, sem, asleep, undefined>>

Take(t, s, n) ==
  /\ Fenced(t) /\ sem[s] >= n
  /\ sem' = [sem EXCEPT ![s] = @ - n]
  /\ UNCHANGED <<mem, buffer, asleep, undefined>>
Give(t, s, n) ==
  /\ Fenced(t)
  /\ sem' = [sem EXCEPT ![s] = @ + n]
  /\ UNCHANGED <<mem, buffer, asleep, undefined>>

sem_wait(t, s) == Take(t, s, 1)
sem_post(t, s) == Give(t, s, 1)
pthread_mutex_lock(t, m) == Take(t, Var(m), 1)
pthread_mutex_unlock(t, m) == Give(t, Var(m), 1)
pthread_rwlock_rdlock(t, l) == Take(t, Var(l), 1)
pthread_rwlock_wrlock(t, l, all) == Take(t, Var(l), all)

\* pthread_cond_wait(c, m): t gives up m and sleeps at b; awake, it takes m again.
pthread_cond_wait(t, a, b, next, c, m) ==
  \/ /\ Go(t, a, b) /\ Fenced(t)
     /\ sem' = [sem EXCEPT ![Var(m)] = @ + 1]
     /\ asleep' = asleep \cup {<<c, t>>}
     /\ UNCHANGED <<mem, buffer, undefined>>
  \/ Go(t, b, next) /\ <<c, t>> \notin asleep /\ pthread_mutex_lock(t, m)

Sleepers(c) == {w \in asleep : w[1] = c}

pthread_cond_signal(t, c) ==
  /\ Fenced(t)
  /\ IF Sleepers(c) = {} THEN UNCHANGED asleep
     ELSE \E w \in Sleepers(c) : asleep' = asleep \ {w}
  /\ UNCHANGED <<mem, buffer, sem, undefined>>

pthread_cond_broadcast(t, c) ==
  Fenced(t) /\ asleep' = asleep \ Sleepers(c) /\ UNCHANGED <<mem, buffer, sem, undefined>>

\* The library may let a wait return without a signal; bound: it does so once.
SpuriousWakeup ==
  /\ ~undefined
  /\ \E w \in asleep : asleep' = asleep \ {w}
  /\ undefined' = TRUE
  /\ UNCHANGED <<pc, reg, mem, buffer, sem>>

\* t, at a, starts the threads of new at their beginning; joins those of old.
pthread_create(t, a, b, new) ==
  /\ pc[t] = a /\ Fenced(t)
  /\ pc' = [u \in DOMAIN pc |-> IF u = t THEN b ELSE IF u \in new THEN 1 ELSE pc[u]]
  /\ UNCHANGED <<reg, machine>>
Joined(old) == \A u \in old : pc[u] = 0 /\ buffer[u] = <<>>
==============================================================================
