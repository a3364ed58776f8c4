--------------------------------- MODULE Demos ---------------------------------
(***************************************************************************)
(* The programs of 09/, which show how threads go wrong and how locks,     *)
(* condition variables and semaphores put them right.  A behaviour is one  *)
(* run of one program.  Threads are numbered as main creates them.         *)
(* Between two accesses of shared variables a thread is one step: its      *)
(* local work, printing and sleeping do not matter to the others.          *)
(***************************************************************************)
EXTENDS Pthreads

CONSTANTS PHIL,      \* philosophers, and forks
          SZ,        \* slots of a pipe; elements of rw-ctr's array
          LETTERS,   \* bound: the letters that a producer sends, over and over
          LOOPS,     \* bound: the rounds of a counting, adding or summing thread
          ROUNDS,    \* bound: the rounds of main in the wait programs
          READERS,   \* bound: the summing threads
          ACCS, TXNS, BALANCE, AMOUNT,
          NALLOC,    \* bound: the allocating threads
          Programs   \* the programs to run

VARIABLES demo,   \* the program
          sent    \* what is in its pipe: written, in this order, and not yet read

vars == <<demo, sent, pc, reg, machine>>

------------------------------------------------------------------------------
(* Counting: threads-safe.c, semlock.c, atomic.c.                          *)

\* counter++ is a load and a store.
Worker(t, Enter, Leave) ==
  \/ Go(t, 1, 2) /\ Enter
  \/ load(t, 2, 3, Var("counter"))
  \/ Go(t, 3, 4) /\ store(t, Var("counter"), reg[t].r + 1)
  \/ Again(t, 4, 1, LOOPS) /\ Leave

\* Mutant: the counter is not protected.
threads_safe_workerUnlocked(t) == Worker(t, UNCHANGED machine, UNCHANGED machine)

threads_safe_worker(t) ==
  Worker(t, pthread_mutex_lock(t, "lock"), pthread_mutex_unlock(t, "lock"))
semlock_worker(t) == Worker(t, sem_wait(t, Var("s")), sem_post(t, Var("s")))
atomic_worker(t) == Worker(t, UNCHANGED machine, atomic_inc(t, Var("acounter")))

Machine(n, vars0, sems0) == [threads |-> n, running |-> 0..(n - 1), mem |-> vars0, sem |-> sems0]
Vars(S) == [x \in {Var(s) : s \in S} |-> 0]
Sems(S, n) == [x \in {Var(s) : s \in S} |-> n]

threads_safe_main == Machine(2, Vars({"counter"}), Sems({"lock"}, 1))
semlock_main == Machine(2, Vars({"counter"}), Sems({"s"}, 1))
atomic_main == Machine(2, Vars({"counter", "acounter"}), <<>>)

------------------------------------------------------------------------------
(* Philosophers: dine.c, dine-dead.c.                                      *)

left(p) == Addr("forks", p)
right(p) == Addr("forks", (p + 1) % PHIL)

\* A fork that main has not initialised holds 0, and sem_init does not wake
\* who waits for it: the thread may wait for ever.
WaitFork(t, a, b, fork) ==
  \/ Go(t, a, b) /\ sem_wait(t, fork)
  \/ /\ fork[2] >= reg[PHIL].k
     /\ Go(t, a, 0) /\ undefined' = TRUE /\ UNCHANGED <<mem, buffer, sem, asleep>>

Dine(t, first, second) ==
  \/ WaitFork(t, 1, 2, first)
  \/ WaitFork(t, 2, 3, second)
  \/ Go(t, 3, 4) /\ sem_post(t, left(t))
  \/ Go(t, 4, 1) /\ sem_post(t, right(t))

dine_dead(t) == Dine(t, right(t), left(t))
dine(t) == IF t = 0 THEN Dine(t, left(t), right(t)) ELSE Dine(t, right(t), left(t))

\* main, which is thread PHIL: sem_init and pthread_create in turn; reg.k forks
\* have been initialised.
dine_main(t) ==
  \/ /\ pc[t] = 1 /\ pc' = [pc EXCEPT ![t] = 2]
     /\ reg' = [reg EXCEPT ![t].k = @ + 1]
     /\ sem' = [sem EXCEPT ![left(reg[t].k)] = 1]
     /\ UNCHANGED <<mem, buffer, asleep, undefined>>
  \/ pthread_create(t, 2, IF reg[t].k < PHIL THEN 1 ELSE 0, {reg[t].k - 1})

Forks == [Machine(PHIL + 1, <<>>, [f \in {left(p) : p \in 0..(PHIL - 1)} |-> 0])
            EXCEPT !.running = {PHIL}]

------------------------------------------------------------------------------
(* A parent that waits for its child: wait.c, wait-sem.c and               *)
(* sems-using-lock-cv.c.  main is thread 0, the parent 1, the child 2.     *)

WaitMain(t) ==
  \/ Go(t, 1, 2) /\ IF demo = "wait" THEN store(t, Var("done"), 0) ELSE UNCHANGED machine
  \/ pthread_create(t, 2, 3, {1})
  \/ Again(t, 3, 1, ROUNDS) /\ Joined({1}) /\ UNCHANGED machine

\* At 7 "parent end" is printed.
Parent(t, Wait) ==
  \/ pthread_create(t, 1, 2, {2})
  \/ Go(t, 1, 0) /\ UNCHANGED machine
  \/ Wait
  \/ Go(t, 7, 0) /\ Joined({2}) /\ UNCHANGED machine

\* Waits under m for x to be more than 0, and tests it `after' the wait again or not.
CondWait(t, x, m, c, after) ==
  \/ Go(t, 2, 3) /\ pthread_mutex_lock(t, m)
  \/ test(t, 3, Value(t, Var(x)) <= 0, 4, 6)
  \/ pthread_cond_wait(t, 4, 5, after, c, m)
  \/ Go(t, 6, 7) /\ pthread_mutex_unlock(t, m)

Signal(t, x, v, m, c) ==
  \/ Go(t, 1, 2) /\ pthread_mutex_lock(t, m)
  \/ Go(t, 2, 3) /\ store(t, Var(x), v)
  \/ Go(t, 3, 4) /\ pthread_cond_signal(t, c)
  \/ Go(t, 4, 0) /\ pthread_mutex_unlock(t, m)

wait_parent(t) == Parent(t, CondWait(t, "done", "m", "c", 6))
wait_child(t) == Signal(t, "done", 1, "m", "c")

wait_sem_parent(t) == Parent(t, Go(t, 2, 7) /\ sem_wait(t, Var("s")))
wait_sem_child(t) == Go(t, 1, 0) /\ sem_post(t, Var("s"))

\* Mutant: the value is not tested again.
zem_waitOnce(t) == CondWait(t, "value", "lock", "cond", 6)

\* The value stays as it is.
zem_wait(t) == CondWait(t, "value", "lock", "cond", 3)
zem_post(t) == Signal(t, "value", Value(t, Var("value")) + 1, "lock", "cond")
zem_parent(t) == Parent(t, zem_wait(t))
zem_child(t) == zem_post(t)

Family(x, sems) == [Machine(3, Vars({x}), sems) EXCEPT !.running = {0}]
wait_main == Family("done", Sems({"m"}, 1))
wait_sem_main == Family("done", Sems({"s"}, 0))
zem_init == Family("value", Sems({"lock"}, 1))

------------------------------------------------------------------------------
(* Pipes: sempipe.c, sem-mpmc.c, mypipe.c.                                 *)

\* buf[writer] = c; writer = (writer + 1) % SZ, and on to the next letter.  With
\* `sent' full, as after a wait of mypipe.c that ended too early, a letter is lost.
Put(t, a, b, c) ==
  \/ /\ Go(t, a, b) /\ store(t, Addr("buf", Value(t, Var("writer"))), reg[t].i + 1)
     /\ sent' = IF Len(sent) < SZ THEN Append(sent, reg[t].i + 1) ELSE sent
  \/ /\ pc[t] = b /\ pc' = [pc EXCEPT ![t] = c]
     /\ reg' = [reg EXCEPT ![t].i = (@ + 1) % LETTERS]
     /\ store(t, Var("writer"), (Value(t, Var("writer")) + 1) % SZ)
     /\ UNCHANGED sent

\* c = buf[reader]; reader = (reader + 1) % SZ.  r is c, i the oldest letter in the pipe.
Get(t, a, b, c) ==
  \/ /\ Local(t, a, b, [reg[t] EXCEPT !.r = Value(t, Addr("buf", Value(t, Var("reader")))),
                                      !.i = IF sent = <<>> THEN 0 ELSE Head(sent)])
     /\ sent' = IF sent = <<>> THEN sent ELSE Tail(sent)
  \/ /\ Go(t, b, c) /\ store(t, Var("reader"), (Value(t, Var("reader")) + 1) % SZ)
     /\ UNCHANGED sent

sempipe_write(t) ==
  \/ UNCHANGED sent /\ Go(t, 1, 2) /\ sem_wait(t, Var("write_slots"))
  \/ Put(t, 2, 3, 4)
  \/ UNCHANGED sent /\ Go(t, 4, 1) /\ sem_post(t, Var("read_slots"))
sempipe_read(t) ==
  \/ UNCHANGED sent /\ Go(t, 1, 2) /\ sem_wait(t, Var("read_slots"))
  \/ Get(t, 2, 3, 4)
  \/ UNCHANGED sent /\ Go(t, 4, 1) /\ sem_post(t, Var("write_slots"))

mpmc_write(t) ==
  \/ /\ UNCHANGED sent
     /\ \/ Go(t, 1, 2) /\ sem_wait(t, Var("write_slots"))
        \/ Go(t, 2, 3) /\ sem_wait(t, Var("write_lock"))
        \/ Go(t, 5, 6) /\ sem_post(t, Var("write_lock"))
        \/ Go(t, 6, 1) /\ sem_post(t, Var("read_slots"))
  \/ Put(t, 3, 4, 5)

\* Mutant: the slot is given back before the lock is taken.
mpmc_readEarly(t) ==
  \/ /\ UNCHANGED sent
     /\ \/ Go(t, 1, 2) /\ sem_wait(t, Var("read_slots"))
        \/ Go(t, 2, 6) /\ sem_post(t, Var("write_slots"))
        \/ Go(t, 6, 3) /\ sem_wait(t, Var("read_lock"))
        \/ Go(t, 5, 1) /\ sem_post(t, Var("read_lock"))
  \/ Get(t, 3, 4, 5)

mpmc_read(t) ==
  \/ /\ UNCHANGED sent
     /\ \/ Go(t, 1, 2) /\ sem_wait(t, Var("read_slots"))
        \/ Go(t, 2, 3) /\ sem_wait(t, Var("read_lock"))
        \/ Go(t, 5, 6) /\ sem_post(t, Var("read_lock"))
        \/ Go(t, 6, 1) /\ sem_post(t, Var("write_slots"))
  \/ Get(t, 3, 4, 5)

\* Unlike the others, mypipe.c leaves a slot free, and signals without the lock.
mypipe_write(t) ==
  \/ /\ UNCHANGED sent
     /\ \/ Go(t, 1, 2) /\ pthread_mutex_lock(t, "m")
        \/ test(t, 2, (Value(t, Var("writer")) + 1) % SZ = Value(t, Var("reader")), 3, 5)
        \/ pthread_cond_wait(t, 3, 4, 5, "full", "m")
        \/ Go(t, 7, 8) /\ pthread_mutex_unlock(t, "m")
        \/ Go(t, 8, 1) /\ pthread_cond_signal(t, "empty")
  \/ Put(t, 5, 6, 7)
mypipe_read(t) ==
  \/ /\ UNCHANGED sent
     /\ \/ Go(t, 1, 2) /\ pthread_mutex_lock(t, "m")
        \/ test(t, 2, Value(t, Var("reader")) = Value(t, Var("writer")), 3, 5)
        \/ pthread_cond_wait(t, 3, 4, 5, "empty", "m")
        \/ Go(t, 7, 8) /\ pthread_mutex_unlock(t, "m")
        \/ Go(t, 8, 1) /\ pthread_cond_signal(t, "full")
  \/ Get(t, 5, 6, 7)

PipeVars ==
  [x \in {Var("reader"), Var("writer")} \cup {Addr("buf", k) : k \in 0..(SZ - 1)} |-> 0]
PipeSems == [x \in {Var("write_slots"), Var("read_slots")} |->
               IF x = Var("write_slots") THEN SZ ELSE 0]
sempipe_main == Machine(2, PipeVars, PipeSems)
mpmc_main == Machine(4, PipeVars, [x \in {Var("write_lock"), Var("read_lock")} |-> 1] @@ PipeSems)
mypipe_main == Machine(2, PipeVars, Sems({"m"}, 1))

------------------------------------------------------------------------------
(* Readers and writers: rw-ctr.c, rw-using-sems.c.  Thread 0 writes.       *)

\* x[i] += 1 and x[j] -= 1, for any i and j; no other thread writes.
Move(t, a, b, c) ==
  \/ Go(t, a, b) /\ \E i \in 0..(SZ - 1) : store(t, Addr("x", i), Value(t, Addr("x", i)) + 1)
  \/ Go(t, b, c) /\ \E j \in 0..(SZ - 1) : store(t, Addr("x", j), Value(t, Addr("x", j)) - 1)

\* s += x[i], for each i.
Add(t, a, b) ==
  Local(t, a, IF reg[t].i + 1 < SZ THEN a ELSE b,
        [reg[t] EXCEPT !.i = (@ + 1) % SZ, !.r = @ + Value(t, Addr("x", reg[t].i))])

\* The sum is right, and the thread goes on; or the program ends.
CheckSum(t, a) ==
  /\ IF reg[t].r = 0 THEN Again(t, a, 1, LOOPS)
     ELSE pc[t] = a /\ pc' = [u \in DOMAIN pc |-> 0] /\ UNCHANGED reg
  /\ UNCHANGED machine

rw_ctr_inc(t) ==
  \/ Go(t, 1, 2) /\ pthread_rwlock_wrlock(t, "lock", READERS + 1)
  \/ Move(t, 2, 3, 4)
  \/ Again(t, 4, 1, LOOPS) /\ Give(t, Var("lock"), READERS + 1)
rw_ctr_sum(t) ==
  \/ Go(t, 1, 2) /\ pthread_rwlock_rdlock(t, "lock")
  \/ Add(t, 2, 3)
  \/ Go(t, 3, 4) /\ Give(t, Var("lock"), 1)
  \/ CheckSum(t, 4)

rwlock_acquire_readlock(t) ==
  \/ Go(t, 1, 2) /\ sem_wait(t, Var("lock"))
  \/ Go(t, 2, 3) /\ store(t, Var("readers"), Value(t, Var("readers")) + 1)
  \/ test(t, 3, Value(t, Var("readers")) = 1, 4, 5)
  \/ Go(t, 4, 5) /\ sem_wait(t, Var("writelock"))
  \/ Go(t, 5, 6) /\ sem_post(t, Var("lock"))

\* Mutant: any reader that leaves lets the writers in.
rwlock_release_readlockAny(t) ==
  \/ Go(t, 7, 8) /\ sem_wait(t, Var("lock"))
  \/ Go(t, 8, 10) /\ store(t, Var("readers"), Value(t, Var("readers")) - 1)
  \/ Go(t, 10, 11) /\ sem_post(t, Var("writelock"))
  \/ Go(t, 11, 12) /\ sem_post(t, Var("lock"))

rwlock_release_readlock(t) ==
  \/ Go(t, 7, 8) /\ sem_wait(t, Var("lock"))
  \/ Go(t, 8, 9) /\ store(t, Var("readers"), Value(t, Var("readers")) - 1)
  \/ test(t, 9, Value(t, Var("readers")) = 0, 10, 11)
  \/ Go(t, 10, 11) /\ sem_post(t, Var("writelock"))
  \/ Go(t, 11, 12) /\ sem_post(t, Var("lock"))

rw_sems_inc(t) ==
  \/ Go(t, 1, 2) /\ sem_wait(t, Var("writelock"))
  \/ Move(t, 2, 3, 4)
  \/ Again(t, 4, 1, LOOPS) /\ sem_post(t, Var("writelock"))
rw_sems_sum(t) ==
  rwlock_acquire_readlock(t) \/ Add(t, 6, 7) \/ rwlock_release_readlock(t) \/ CheckSum(t, 12)

Array == [x \in {Addr("x", k) : k \in 0..(SZ - 1)} |-> 0]
rw_ctr_main == Machine(READERS + 1, Array, Sems({"lock"}, READERS + 1))
rwlock_init == Machine(READERS + 1, Vars({"readers"}) @@ Array, Sems({"lock", "writelock"}, 1))

------------------------------------------------------------------------------
(* Waiting for memory: alloc.c.  main is thread NALLOC; it frees less than *)
(* thread 0 asks for.                                                      *)

size(t) == IF t = NALLOC THEN NALLOC - 1 ELSE NALLOC - t
bytes_left(t) == Value(t, Var("bytes_left"))

my_allocate(t) ==
  \/ Go(t, 1, 2) /\ pthread_mutex_lock(t, "m")
  \/ test(t, 2, bytes_left(t) < size(t), 3, 5)
  \/ pthread_cond_wait(t, 3, 4, 2, "c", "m")
  \/ Go(t, 5, 6) /\ store(t, Var("bytes_left"), bytes_left(t) - size(t))
  \/ Go(t, 6, 7) /\ pthread_mutex_unlock(t, "m")

\* Mutant: one thread is woken, as in the line that is commented out.
my_freeSignal(t) ==
  \/ Go(t, 7, 8) /\ pthread_mutex_lock(t, "m")
  \/ Go(t, 8, 9) /\ store(t, Var("bytes_left"), bytes_left(t) + size(t))
  \/ Go(t, 9, 10) /\ pthread_cond_signal(t, "c")
  \/ Go(t, 10, 0) /\ pthread_mutex_unlock(t, "m")

my_free(t) ==
  \/ Go(t, 7, 8) /\ pthread_mutex_lock(t, "m")
  \/ Go(t, 8, 9) /\ store(t, Var("bytes_left"), bytes_left(t) + size(t))
  \/ Go(t, 9, 10) /\ pthread_cond_broadcast(t, "c")
  \/ Go(t, 10, 0) /\ pthread_mutex_unlock(t, "m")

\* main goes on to my_free.
alloc(t) == (t # NALLOC /\ my_allocate(t)) \/ my_free(t) \/ (t = NALLOC /\ Go(t, 1, 7) /\ UNCHANGED machine)
alloc_main == Machine(NALLOC + 1, Vars({"bytes_left"}), Sems({"m"}, 1))

------------------------------------------------------------------------------
(* Transfers between accounts: dead.c, dead-fix.c.                         *)

\* main's choice of accounts for transaction t: i is the source.
src(t) == reg[t].i
dst(t) == IF src(t) = t % ACCS THEN (src(t) + 1) % ACCS ELSE t % ACCS
Choose(t) == \E s \in 0..(ACCS - 1) : Local(t, 1, 2, [reg[t] EXCEPT !.i = s])

Transfer(t, first, second) ==
  \/ Choose(t)
  \/ Go(t, 2, 3) /\ sem_wait(t, Addr("lock", first))
  \/ Go(t, 3, 4) /\ sem_wait(t, Addr("lock", second))
  \/ test(t, 4, Value(t, Addr("balance", src(t))) > AMOUNT, 5, 9)
  \/ load(t, 5, 6, Addr("balance", dst(t)))
  \/ Go(t, 6, 7) /\ store(t, Addr("balance", dst(t)), reg[t].r + AMOUNT)
  \/ load(t, 7, 8, Addr("balance", src(t)))
  \/ Go(t, 8, 9) /\ store(t, Addr("balance", src(t)), reg[t].r - AMOUNT)
  \/ Go(t, 9, 10) /\ sem_post(t, Addr("lock", src(t)))
  \/ Go(t, 10, 0) /\ sem_post(t, Addr("lock", dst(t)))

dead_transfer(t) == Transfer(t, src(t), dst(t))
fix_transfer(t) ==
  IF src(t) < dst(t) THEN Transfer(t, src(t), dst(t)) ELSE Transfer(t, dst(t), src(t))

accounts == Machine(TXNS, [x \in {Addr("balance", i) : i \in 0..(ACCS - 1)} |-> BALANCE],
                    [x \in {Addr("lock", i) : i \in 0..(ACCS - 1)} |-> 1])

------------------------------------------------------------------------------
(* Peterson's lock: peterson-breaks.c, peterson-fence.c.  The producer is  *)
(* thread 0, the consumer 1, main 2.                                       *)

Peterson(t, Barrier) ==
  LET other == 1 - t
  IN  \/ Go(t, 1, 2) /\ store(t, Addr("flag", t), 1)
      \/ Go(t, 2, 3) /\ store(t, Var("turn"), other)
      \/ Go(t, 3, 4) /\ Barrier
      \/ test(t, 4, Value(t, Addr("flag", other)) # 0, 5, 6)
      \/ test(t, 5, Value(t, Var("turn")) = other, 4, 6)
      \/ load(t, 6, 7, Var("counter"))
      \/ Go(t, 7, 8) /\ store(t, Var("counter"), reg[t].r + (IF t = 0 THEN 1 ELSE -1))
      \/ Go(t, 8, 0) /\ store(t, Addr("flag", t), 0)

breaks(t) == Peterson(t, UNCHANGED machine)
fenced(t) == Peterson(t, fence(t))

\* main is alone when it clears the variables; it goes on while the counter is 0.
peterson_main(t) ==
  \/ /\ pc[t] = 1
     /\ pc' = [u \in DOMAIN pc |-> IF u = t THEN 2 ELSE 1]
     /\ mem' = [x \in DOMAIN mem |-> 0]
     /\ UNCHANGED <<reg, buffer, sem, asleep, undefined>>
  \/ Joined({0, 1}) /\ test(t, 2, mem[Var("counter")] = 0, 1, 0)

Peterson_vars ==
  [Machine(3, Vars({"counter", "turn"}) @@ [x \in {Addr("flag", 0), Addr("flag", 1)} |-> 0], <<>>)
     EXCEPT !.running = {2}]

------------------------------------------------------------------------------

Start ==
  [threads_safe |-> threads_safe_main, semlock |-> semlock_main, atomic |-> atomic_main,
   dine |-> Forks, dine_dead |-> Forks,
   wait |-> wait_main, wait_sem |-> wait_sem_main, sems_using_lock_cv |-> zem_init,
   sempipe |-> sempipe_main, sem_mpmc |-> mpmc_main, mypipe |-> mypipe_main,
   rw_ctr |-> rw_ctr_main, rw_using_sems |-> rwlock_init,
   alloc |-> alloc_main, dead |-> accounts, dead_fix |-> accounts,
   peterson_breaks |-> Peterson_vars, peterson_fence |-> Peterson_vars]

\* The code of thread t of a program without and with a pipe.
Plain(t) ==
  \/ demo = "threads_safe" /\ threads_safe_worker(t)
  \/ demo = "semlock" /\ semlock_worker(t)
  \/ demo = "atomic" /\ atomic_worker(t)
  \/ demo \in {"dine", "dine_dead"} /\ t = PHIL /\ dine_main(t)
  \/ demo = "dine" /\ t # PHIL /\ dine(t)
  \/ demo = "dine_dead" /\ t # PHIL /\ dine_dead(t)
  \/ demo \in {"wait", "wait_sem", "sems_using_lock_cv"} /\ t = 0 /\ WaitMain(t)
  \/ demo = "wait" /\ ((t = 1 /\ wait_parent(t)) \/ (t = 2 /\ wait_child(t)))
  \/ demo = "wait_sem" /\ ((t = 1 /\ wait_sem_parent(t)) \/ (t = 2 /\ wait_sem_child(t)))
  \/ demo = "sems_using_lock_cv" /\ ((t = 1 /\ zem_parent(t)) \/ (t = 2 /\ zem_child(t)))
  \/ demo = "rw_ctr" /\ IF t = 0 THEN rw_ctr_inc(t) ELSE rw_ctr_sum(t)
  \/ demo = "rw_using_sems" /\ IF t = 0 THEN rw_sems_inc(t) ELSE rw_sems_sum(t)
  \/ demo = "alloc" /\ alloc(t)
  \/ demo = "dead" /\ dead_transfer(t)
  \/ demo = "dead_fix" /\ fix_transfer(t)
  \/ demo \in {"peterson_breaks", "peterson_fence"} /\ t = 2 /\ peterson_main(t)
  \/ demo = "peterson_breaks" /\ t # 2 /\ breaks(t)
  \/ demo = "peterson_fence" /\ t # 2 /\ fenced(t)

Piped(t) ==
  \/ demo = "sempipe" /\ IF t = 0 THEN sempipe_write(t) ELSE sempipe_read(t)
  \/ demo = "sem_mpmc" /\ IF t < 2 THEN mpmc_write(t) ELSE mpmc_read(t)
  \/ demo = "mypipe" /\ IF t = 0 THEN mypipe_write(t) ELSE mypipe_read(t)

Init ==
  /\ demo \in Programs
  /\ LET T == 0..(Start[demo].threads - 1)
     IN  /\ pc = [t \in T |-> IF t \in Start[demo].running THEN 1 ELSE 0]
         /\ reg = [t \in T |-> [r |-> 0, i |-> 0, k |-> 0]]
         /\ buffer = [t \in T |-> <<>>]
  /\ mem = Start[demo].mem
  /\ sem = Start[demo].sem
  /\ asleep = {} /\ undefined = FALSE /\ sent = <<>>

Thread(t) == t \in DOMAIN pc /\ ((Plain(t) /\ UNCHANGED sent) \/ Piped(t)) /\ UNCHANGED demo
Drain(t) == t \in DOMAIN pc /\ drain(t) /\ UNCHANGED <<demo, sent>>

Next == \/ \E t \in DOMAIN pc : Thread(t) \/ Drain(t)
        \/ SpuriousWakeup /\ UNCHANGED <<demo, sent>>

\* The numbers that a thread of any program may have.
Threads == 0..(Max({Start[d].threads : d \in Programs}) - 1)

\* The operating system runs every thread that can run, and a processor writes
\* its stores back.  Locks and semaphores are not fair.
Spec == Init /\ [][Next]_vars /\ \A t \in Threads : WF_vars(Thread(t)) /\ WF_vars(Drain(t))

------------------------------------------------------------------------------
(* Properties.                                                             *)

AllDone == Joined(DOMAIN pc)

\* No update is lost: the counters of threads-safe.c, semlock.c and (acounter)
\* atomic.c end with one for each round, money is neither made nor lost by
\* dead.c and dead-fix.c, alloc.c never gives out what it does not have, and
\* peterson-fence.c never finds a counter other than 0.
NoLostUpdate ==
  /\ demo \in {"threads_safe", "semlock"} /\ AllDone => mem[Var("counter")] = 2 * LOOPS
  /\ demo = "atomic" /\ AllDone => mem[Var("acounter")] = 2 * LOOPS
  /\ demo \in {"dead", "dead_fix"} /\ AllDone =>
       FoldFunction(LAMBDA b, n : b + n, 0, mem) = ACCS * BALANCE
  /\ demo = "alloc" => mem[Var("bytes_left")] >= 0
  /\ demo = "peterson_fence" => pc[2] # 0

\* A thread that adds up the array of rw-ctr.c or rw-using-sems.c finds 0: it has
\* never seen half of the writer's change.
SumZero ==
  /\ demo = "rw_ctr" => \A t \in 1..READERS : pc[t] = 4 => reg[t].r = 0
  /\ demo = "rw_using_sems" => \A t \in 1..READERS : pc[t] = 12 => reg[t].r = 0

\* "parent end" comes after the child has set done or posted.  wait.c tests done
\* with `if' (wait.c:31) and relies on a wake-up having a cause; zem_wait does not
\* take what zem_post gives (sems-using-lock-cv.c:19-24): only the first parent waits.
ChildFirst ==
  demo \in {"wait", "wait_sem", "sems_using_lock_cv"} /\ pc[1] = 7 =>
    \/ demo = "wait" /\ (undefined \/ pc[2] \notin {1, 2})
    \/ demo = "wait_sem" /\ pc[2] # 1
    \/ demo = "sems_using_lock_cv" /\ (reg[0].k > 0 \/ pc[2] \notin {1, 2})

\* The letter that a consumer takes is the oldest one in the pipe, with any number
\* of producers and consumers (sempipe.c, sem-mpmc.c).  mypipe.c promises less: a
\* signal is sent after the unlock (mypipe.c:22-23), may come when the letter is
\* already taken and the consumer waits for the next, and `if' does not look again.
PipeInOrder ==
  /\ demo = "sempipe" => reg[1].r = reg[1].i
  /\ demo = "sem_mpmc" => reg[2].r = reg[2].i /\ reg[3].r = reg[3].i

\* Nobody waits for ever for what the others could give: the programs that should
\* end do, letters are passed on, one or other philosopher eats unless one has
\* waited for a fork before main made it, and memory that can be had is had: of
\* alloc.c's threads only the first, which wants more than there is, hangs.
Served ==
  CASE demo \in {"threads_safe", "semlock", "atomic", "wait", "wait_sem", "sems_using_lock_cv",
                 "rw_ctr", "rw_using_sems", "dead_fix"} -> AllDone
    [] demo = "alloc" -> \A t \in 1..NALLOC : pc[t] = 0
    [] demo = "dine" -> undefined \/ \E p \in 0..(PHIL - 1) : pc[p] = 3
    [] demo = "sempipe" -> pc[1] = 3
    [] demo = "sem_mpmc" -> pc[2] = 4 \/ pc[3] = 4
    [] demo = "mypipe" -> pc[1] = 6
    [] demo \in {"peterson_fence", "peterson_breaks"} -> Joined({0, 1})
    [] OTHER -> TRUE

WaitsEnd == []<>Served
==============================================================================
