-------------------------------- MODULE Sched --------------------------------
(***************************************************************************)
(* The CPU: interrupts, pushcli/popcli, the scheduler and the processes'   *)
(* kernel threads (proc.c, spinlock.c, trap.c, trapasm.S, swtch.S, vm.c).  *)
(*                                                                         *)
(* There is one kernel stack for main, which becomes the scheduler, and    *)
(* one for each process; cur is the stack the CPU is on.  at[s] is the     *)
(* innermost activity on stack s: where it is (pc), how many pushcli       *)
(* sections it has open (nest), and the value it holds in a local variable *)
(* (val: the eflags that pushcli has read, or the intena that sched has    *)
(* saved).  frames[s] are the trap frames below it.  Code that runs with   *)
(* interrupts off is one step wherever nothing else can observe it.        *)
(*                                                                         *)
(* What the system calls and the device interrupts do is left out, but for *)
(* the critical sections they open and close: those may be nested, up to   *)
(* MaxNest deep.                                                           *)
(***************************************************************************)
EXTENDS Integers, Sequences, FiniteSets

CONSTANTS NPROC,      \* the size of ptable (param.h)
          NINIT,      \* how often main calls pinit
          MaxNest     \* bound: how deep pushcli sections nest

ASSUME NumAssumption ==
  /\ NPROC \in Nat /\ NINIT \in Nat /\ MaxNest \in Nat
  /\ NINIT <= NPROC

Procs == 1..NPROC
Main == 0             \* main's stack; as a struct proc pointer: null
Stacks == 0..NPROC

None == -1            \* no value in the local variable

VARIABLES iflag,      \* eflags.IF
          ncli, intena,
          proc,       \* c->proc
          esp0,       \* whose kernel stack the TSS names
          state,      \* p->state
          context,    \* the stack that p->context is on
          schedctx,   \* the stack that c->scheduler is on
          cur, at, frames,
          next,       \* the scheduler's loop variable
          panicked

vars == <<iflag, ncli, intena, proc, esp0, state, context, schedctx,
          cur, at, frames, next, panicked>>

Activity(pc, nest, val) == [pc |-> pc, nest |-> nest, val |-> val]

Point(pc) == Activity(pc, 0, None)

Goto(pc) == at' = [at EXCEPT ![cur] = Point(pc)]

Here(pc) == ~panicked /\ at[cur].pc = pc

\* The first of S that a loop over ptable comes to.
First(S) == {x \in S : \A y \in S : x <= y}

Init ==
  /\ iflag = 1 /\ ncli = 0 /\ intena = 0        \* after main's sti()
  /\ proc = Main /\ esp0 = Main
  /\ state = [p \in Procs |-> "UNUSED"]
  /\ context = [p \in Procs |-> Main]
  /\ schedctx = Main
  /\ cur = Main
  /\ at = [s \in Stacks |-> Point(IF s = Main THEN "pinit" ELSE "none")]
  /\ frames = [s \in Stacks |-> <<>>]
  /\ next = 1
  /\ panicked = FALSE

------------------------------------------------------------------------------
(* spinlock.c                                                              *)

\* pushcli from the cli() on; e is the eflags it has read.
pushcli(e) ==
  /\ iflag' = 0
  /\ intena' = IF ncli = 0 THEN e ELSE intena
  /\ ncli' = ncli + 1

PopcliPanics == iflag = 1 \/ ncli - 1 < 0

\* Mutant: popcli without the test of ncli.
popcliAtOnce(n) ==
  /\ ncli' = ncli - 1
  /\ iflag' = IF n = 1 THEN 1 ELSE iflag
  /\ intena' = n

\* popcli, with n for the intena it finds.
popcli(n) ==
  /\ ncli' = ncli - 1
  /\ iflag' = IF ncli - 1 = 0 /\ n = 1 THEN 1 ELSE iflag
  /\ intena' = n

panic ==
  /\ panicked' = TRUE
  /\ UNCHANGED <<iflag, ncli, intena, proc, esp0, state, context, schedctx,
                 cur, at, frames, next>>

\* A popcli after which the code goes on there.
PopcliThen(n, there) ==
  IF PopcliPanics
  THEN panic
  ELSE /\ popcli(n)
       /\ at' = [at EXCEPT ![cur] = there]
       /\ UNCHANGED <<proc, esp0, state, context, schedctx, cur, frames, next,
                      panicked>>

\* pushcli reads eflags; an interrupt may still come before its cli().
readeflags ==
  /\ ~panicked /\ at[cur].pc \in {"pinit", "embryo", "idle", "sys", "device"}
  /\ at[cur].val = None /\ at[cur].nest < MaxNest
  /\ at' = [at EXCEPT ![cur] = Activity(at[cur].pc, at[cur].nest, iflag)]
  /\ UNCHANGED <<iflag, ncli, intena, proc, esp0, state, context, schedctx, cur,
                 frames, next, panicked>>

\* A system call, a device interrupt or pinit's namei enters a critical section ...
OpenSection ==
  /\ ~panicked /\ at[cur].pc \in {"embryo", "sys", "device"} /\ at[cur].val # None
  /\ pushcli(at[cur].val)
  /\ at' = [at EXCEPT ![cur] = Activity(at[cur].pc, at[cur].nest + 1, None)]
  /\ UNCHANGED <<proc, esp0, state, context, schedctx, cur, frames, next, panicked>>

\* ... and leaves it.
CloseSection ==
  /\ ~panicked /\ at[cur].nest > 0 /\ at[cur].val = None
  /\ PopcliThen(intena, Activity(at[cur].pc, at[cur].nest - 1, None))

------------------------------------------------------------------------------
(* main: pinit and allocproc.                                              *)

\* The critical section of allocproc.  kalloc() is taken to succeed: main calls
\* pinit before anything else takes pages.
allocproc ==
  /\ Here("pinit") /\ at[Main].val # None
  /\ \E p \in First({q \in Procs : state[q] = "UNUSED"}) :
       state' = [state EXCEPT ![p] = "EMBRYO"]
  /\ intena' = IF ncli = 0 THEN at[cur].val ELSE intena
  /\ iflag' = IF ncli = 0 /\ intena' = 1 THEN 1 ELSE 0
  /\ Goto("embryo")
  /\ UNCHANGED <<ncli, proc, esp0, context, schedctx, cur, frames, next, panicked>>

\* How many processes there are.
Created == Cardinality({p \in Procs : state[p] = "RUNNABLE"})

AfterPinit == IF Created + 1 < NINIT THEN "pinit" ELSE "scheduler"

\* The rest of allocproc and pinit: a trap frame that returns to user mode with
\* interrupts on, below a context that starts at forkret.
pinit ==
  /\ Here("embryo") /\ at[cur].nest = 0 /\ at[cur].val = None
  /\ \E p \in Procs :
       /\ state[p] = "EMBRYO"
       /\ frames' = [frames EXCEPT ![p] = <<[to |-> Point("user"), iflag |-> 1]>>]
       /\ at' = [at EXCEPT ![p] = Point("forkret"),
                           ![cur] = Point(AfterPinit)]
       /\ context' = [context EXCEPT ![p] = p]
       /\ state' = [state EXCEPT ![p] = "RUNNABLE"]
  /\ UNCHANGED <<iflag, ncli, intena, proc, esp0, schedctx, cur, next, panicked>>

------------------------------------------------------------------------------
(* proc.c                                                                  *)

\* scheduler up to its loop.
scheduler ==
  /\ Here("scheduler")
  /\ proc' = Main
  /\ Goto("loop")
  /\ UNCHANGED <<iflag, ncli, intena, esp0, state, context, schedctx, cur, frames,
                 next, panicked>>

sti ==
  /\ Here("loop")
  /\ iflag' = 1
  /\ Goto("idle")
  /\ UNCHANGED <<ncli, intena, proc, esp0, state, context, schedctx, cur, frames,
                 next, panicked>>

\* pushcli(); p = ptable.proc
StartScan ==
  /\ Here("idle") /\ at[cur].val # None
  /\ pushcli(at[cur].val)
  /\ next' = 1
  /\ Goto("scan")
  /\ UNCHANGED <<proc, esp0, state, context, schedctx, cur, frames, panicked>>

Runnable == {p \in Procs : p >= next /\ state[p] = "RUNNABLE"}

\* The TSS names p's kernel stack.  The pushcli and popcli around this are inside the
\* scheduler's, so they cancel out.
switchuvm(p) == esp0' = p

\* swtch: the CPU goes on where the stack it is given was left.
swtch(to) == cur' = to

\* Mutant: the loop starts again at ptable.proc after every process.
DispatchRestarting ==
  /\ Here("scan")
  /\ \E p \in First(Runnable) :
       /\ proc' = p
       /\ state' = [state EXCEPT ![p] = "RUNNING"]
       /\ switchuvm(p)
       /\ schedctx' = cur
       /\ swtch(context[p])
       /\ next' = 1
  /\ UNCHANGED <<iflag, ncli, intena, context, at, frames, panicked>>

\* switchuvm and swtch to the next process.
Dispatch ==
  /\ Here("scan")
  /\ \E p \in First(Runnable) :
       /\ proc' = p
       /\ state' = [state EXCEPT ![p] = "RUNNING"]
       /\ switchuvm(p)
       /\ schedctx' = cur
       /\ swtch(context[p])
       /\ next' = p + 1
  /\ UNCHANGED <<iflag, ncli, intena, context, at, frames, panicked>>

\* The loop ends: popcli().
EndScan ==
  /\ Here("scan") /\ Runnable = {}
  /\ PopcliThen(intena, Point("loop"))

\* Mutant: yield without its pushcli.
yieldUnprotected ==
  /\ state' = [state EXCEPT ![proc] = "RUNNABLE"]
  /\ at' = [at EXCEPT ![cur] = Activity("sched", 0, intena)]
  /\ context' = [context EXCEPT ![proc] = cur]
  /\ swtch(schedctx)
  /\ UNCHANGED <<iflag, ncli, intena, proc, esp0, schedctx, frames, next, panicked>>

\* sched's tests: "sched running" and "sched interruptible", with st for p->state
\* and i for IF.
SchedPanics(st, i) == st = "RUNNING" \/ i = 1

\* yield up to sched's swtch.
yield ==
  /\ pushcli(iflag)
  /\ state' = [state EXCEPT ![proc] = "RUNNABLE"]
  /\ IF SchedPanics(state'[proc], iflag')
     THEN panicked' = TRUE /\ UNCHANGED <<at, context, cur>>
     ELSE /\ at' = [at EXCEPT ![cur] = Activity("sched", 0, intena')]
          /\ context' = [context EXCEPT ![proc] = cur]
          /\ swtch(schedctx)
          /\ UNCHANGED panicked
  /\ UNCHANGED <<proc, esp0, schedctx, frames, next>>

\* sched after swtch, and yield's popcli.
sched ==
  /\ Here("sched")
  /\ PopcliThen(at[cur].val, Point("trapret"))

\* Mutant: forkret does nothing.
forkretForgotten ==
  /\ Here("forkret")
  /\ Goto("trapret")
  /\ UNCHANGED <<iflag, ncli, intena, proc, esp0, state, context, schedctx, cur,
                 frames, next, panicked>>

\* Mutant: forkret leaves two sections, its own and one that is not there.
forkretTwice ==
  /\ Here("forkret")
  /\ ncli' = ncli - 2 /\ iflag' = intena
  /\ Goto("trapret")
  /\ UNCHANGED <<intena, proc, esp0, state, context, schedctx, cur, frames, next,
                 panicked>>

forkret ==
  /\ Here("forkret")
  /\ PopcliThen(intena, Point("trapret"))

------------------------------------------------------------------------------
(* Traps.                                                                  *)

\* The hardware pushes a trap frame: on the TSS's stack from user mode, on the
\* current one otherwise.
Enter(pc) ==
  LET s == IF at[cur].pc = "user" THEN esp0 ELSE cur
  IN  /\ frames' = [frames EXCEPT ![s] = Append(@, [to |-> at[cur], iflag |-> iflag])]
      /\ at' = [at EXCEPT ![s] = Point(pc)]
      /\ cur' = s

\* The system call gate is a trap gate: interrupts stay on.
syscall ==
  /\ Here("user")
  /\ Enter("sys")
  /\ UNCHANGED <<iflag, ncli, intena, proc, esp0, state, context, schedctx, next,
                 panicked>>

\* The other gates are interrupt gates.
Interrupt(pc) ==
  /\ ~panicked /\ iflag = 1
  /\ Enter(pc)
  /\ iflag' = 0
  /\ UNCHANGED <<ncli, intena, proc, esp0, state, context, schedctx, next, panicked>>

timer == Interrupt("timer")
device == Interrupt("device")

\* Mutant: trap() does not look at the state of the process.
TimerTrapStale ==
  /\ Here("timer")
  /\ IF proc # Main
     THEN yield
     ELSE /\ Goto("trapret")
          /\ UNCHANGED <<iflag, ncli, intena, proc, esp0, state, context, schedctx,
                         cur, frames, next, panicked>>

\* trap() for the timer.
TimerTrap ==
  /\ Here("timer")
  /\ IF proc # Main /\ state[proc] = "RUNNING"
     THEN yield
     ELSE /\ Goto("trapret")
          /\ UNCHANGED <<iflag, ncli, intena, proc, esp0, state, context, schedctx,
                         cur, frames, next, panicked>>

\* A system call or a device interrupt is done.
TrapDone ==
  /\ ~panicked /\ at[cur].pc \in {"sys", "device"}
  /\ at[cur].nest = 0 /\ at[cur].val = None
  /\ Goto("trapret")
  /\ UNCHANGED <<iflag, ncli, intena, proc, esp0, state, context, schedctx, cur,
                 frames, next, panicked>>

\* trapret: iret.
trapret ==
  /\ Here("trapret")
  /\ LET f == frames[cur][Len(frames[cur])]
     IN  /\ iflag' = f.iflag
         /\ at' = [at EXCEPT ![cur] = f.to]
  /\ frames' = [frames EXCEPT ![cur] = SubSeq(@, 1, Len(@) - 1)]
  /\ UNCHANGED <<ncli, intena, proc, esp0, state, context, schedctx, cur, next,
                 panicked>>

------------------------------------------------------------------------------

\* main and the scheduler's loop.
MainStep ==
  allocproc \/ pinit \/ scheduler \/ sti \/ StartScan \/ Dispatch \/ EndScan

\* The code that runs on the CPU.
Step ==
  \/ MainStep
  \/ readeflags \/ OpenSection \/ CloseSection
  \/ sched \/ forkret \/ TimerTrap \/ TrapDone \/ trapret \/ syscall

Next == Step \/ timer \/ device

Spec == Init /\ [][Next]_vars

\* The CPU goes on executing.  The timer's interrupt stays pending until interrupts
\* are on.  Every critical section and every device interrupt comes to its end (their
\* loops are bounded), and interrupts leave main and the scheduler time to go on.
Fairness ==
  /\ WF_vars(Step)
  /\ SF_vars(timer)
  /\ SF_vars(CloseSection /\ at[cur].nest = 1)
  /\ SF_vars(OpenSection /\ at[cur].pc = "embryo")
  /\ SF_vars(TrapDone /\ at[cur].pc = "device")
  /\ SF_vars(MainStep)
  /\ SF_vars(readeflags /\ at[cur].pc \in {"pinit", "idle"})

FairSpec == Spec /\ Fairness

------------------------------------------------------------------------------
(* Properties.                                                             *)

States == {"UNUSED", "EMBRYO", "RUNNABLE", "RUNNING"}

Pcs == {"none", "pinit", "embryo", "scheduler", "loop", "idle", "scan", "user", "sys",
        "timer", "device", "sched", "forkret", "trapret"}

Points == [pc : Pcs, nest : Nat, val : {None, 0, 1}]

Frame == [to : Points, iflag : {0, 1}]

\* The types of the fields of struct cpu and struct proc, and of the stacks.
TypeOK ==
  /\ iflag \in {0, 1} /\ ncli \in Nat /\ intena \in {0, 1}
  /\ proc \in Stacks /\ esp0 \in Stacks
  /\ state \in [Procs -> States]
  /\ context \in [Procs -> Stacks] /\ schedctx \in Stacks
  /\ cur \in Stacks
  /\ at \in [Stacks -> Points]
  /\ frames \in [Stacks -> Seq(Frame)]
  /\ next \in 1..(NPROC + 1)
  /\ panicked \in BOOLEAN

\* What pushcli is for (spinlock.c): a critical section is left neither by an
\* interrupt nor by a switch.  So whatever is below the innermost activity of the
\* current stack, and everything on another stack, is outside critical sections.
SectionsAtomic ==
  /\ \A s \in Stacks : s # cur => at[s].nest = 0
  /\ \A s \in Stacks : \A i \in 1..Len(frames[s]) : frames[s][i].to.nest = 0

\* myproc(), the TSS and p->state agree with the stack that the CPU is on: while a
\* process executes it is myproc(), it alone is RUNNING and traps from user mode
\* land on its own kernel stack; on main's stack no process is RUNNING, so that
\* trap() there never yields although c->proc is stale (trap.c, vm.c).
OneRunning ==
  /\ \A p \in Procs : state[p] = "RUNNING" <=> cur = p
  /\ cur # Main => proc = cur /\ esp0 = cur

\* popcli finds interrupts off and a count above zero, wherever it is called, and
\* sched a process that is not RUNNING, with interrupts off (spinlock.c, proc.c:166-169).
NoPanic == ~panicked

\* User code can be interrupted, whichever way the process was started or resumed:
\* a process cannot keep the CPU.
UserInterruptible == at[cur].pc = "user" => iflag = 1 /\ ncli = 0

\* The CPU, with IF = i, ncli = n and intena = e, while the activity a runs on it.
CpuInv(a, i, n, e) ==
  /\ i = 1 => n = 0
  /\ a.pc \in {"pinit", "embryo", "scheduler", "idle", "sys"} =>
       /\ n = a.nest
       /\ i = 1 <=> a.nest = 0
       /\ a.nest > 0 => e = 1
  /\ a.pc = "device" => i = 0 /\ n = a.nest /\ (a.nest > 0 => e = 0)
  /\ a.pc \in {"scan", "sched", "forkret"} => i = 0 /\ n = 1
  /\ a.pc = "user" => i = 1
  /\ a.pc = "timer" => i = 0
  /\ a.pc \in {"user", "loop", "timer", "trapret"} => n = 0
  /\ a.pc \in {"pinit", "embryo", "idle", "sys", "device"} => a.val \in {None, i}

\* Only these have sections of their own.
NestAt(a) == a.pc \notin {"embryo", "sys", "device"} => a.nest = 0

\* What may be interrupted: f is the i-th trap frame on stack s.
FrameInv(s, i, f) ==
  /\ f.iflag = 1 /\ f.to.nest = 0
  /\ f.to.pc \in {"pinit", "embryo", "idle", "sys"} => f.to.val \in {None, 1}
  /\ IF s = Main THEN i = 1 /\ f.to.pc \in {"pinit", "embryo", "scheduler", "loop", "idle"}
     ELSE \/ i = 1 /\ f.to.pc = "user"
          \/ i = 2 /\ f.to.pc \in {"sys", "trapret"}

\* The number of trap frames below an activity.
DepthInv(pc, n) ==
  /\ pc \in {"none", "user", "pinit", "embryo", "scheduler", "loop", "idle", "scan"} => n = 0
  /\ pc \in {"sys", "forkret"} => n = 1
  /\ pc \in {"timer", "device", "trapret", "sched"} => n >= 1

\* A stack s with the activity a above the trap frames fs; a thread in sched has saved
\* the intena of a timer interrupt.
StackInv(s, a, fs) ==
  /\ IF s = Main THEN a.pc \notin {"none", "user", "sys", "sched", "forkret"}
     ELSE a.pc \in {"none", "user", "sys", "timer", "device", "sched", "forkret", "trapret"}
  /\ NestAt(a)
  /\ a.pc = "sched" => a.val = 0
  /\ DepthInv(a.pc, Len(fs))
  /\ \A i \in 1..Len(fs) : FrameInv(s, i, fs[i])

\* A process that does not run was made by pinit or has called sched, on its own stack.
WaitInv(p) ==
  /\ state[p] = "RUNNABLE" =>
       /\ context[p] = p
       /\ at[p].pc \in {"forkret", "sched"}
  /\ state[p] \in {"UNUSED", "EMBRYO"} <=> at[p].pc = "none"

\* The inductive invariant: the CPU is in the state that the innermost activity of the
\* current stack expects, and all the others wait where they can be resumed.
SchedInv ==
  /\ ~panicked /\ schedctx = Main
  /\ CpuInv(at[cur], iflag, ncli, intena)
  /\ at[cur].pc = "trapret" /\ iflag = 1 => cur # Main /\ Len(frames[cur]) = 1
  /\ \A s \in Stacks : StackInv(s, at[s], frames[s])
  /\ \A p \in Procs : WaitInv(p)
  /\ \A p \in Procs : state[p] = "RUNNING" <=> cur = p
  /\ cur # Main => proc = cur /\ esp0 = cur /\ at[Main].pc = "scan"

\* Every process that waits for the CPU gets it.
NoStarvation == \A p \in Procs : state[p] = "RUNNABLE" ~> cur = p
==============================================================================
