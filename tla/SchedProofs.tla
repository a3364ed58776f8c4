----------------------------- MODULE SchedProofs -----------------------------
(***************************************************************************)
(* Proof that SchedInv is an invariant of Sched, for any number of         *)
(* processes and any nesting of critical sections, and that SectionsAtomic,*)
(* OneRunning, NoPanic and UserInterruptible follow from it.  The steps    *)
(* that stay on one stack come first (critical sections, the points of the *)
(* scheduler's loop, trap entry and trap return), then the ones that change*)
(* the current stack or the process table.  The last part proves that the  *)
(* scheduler is round robin.                                               *)
(***************************************************************************)
EXTENDS SchedTurns, TLAPS

IInv == TypeOK /\ SchedInv

Unswitched ==
  /\ UNCHANGED <<esp0, state, context, schedctx, cur, panicked>>
  /\ next' \in 1..(NPROC + 1)
  /\ proc' \in Stacks /\ (cur # Main => proc' = proc)

\* A step that only changes the CPU's flags and the current stack: it is enough to look
\* at that stack, with the activity a above the trap frames fs.
LEMMA LocalStep ==
  ASSUME IInv, NEW a \in Points, NEW fs \in Seq(Frame),
         at' = [at EXCEPT ![cur] = a], frames' = [frames EXCEPT ![cur] = fs],
         Unswitched,
         iflag' \in {0, 1}, ncli' \in Nat, intena' \in {0, 1},
         StackInv(cur, a, fs), CpuInv(a, iflag', ncli', intena'),
         a.pc = "trapret" /\ iflag' = 1 => cur # Main /\ Len(fs) = 1,
         a.pc # "none"
  PROVE  IInv'
<1>1. /\ at' \in [Stacks -> Points] /\ frames' \in [Stacks -> Seq(Frame)]
      /\ at'[cur] = a /\ frames'[cur] = fs
      /\ \A s \in Stacks : s # cur => at'[s] = at[s] /\ frames'[s] = frames[s]
  BY DEF IInv, TypeOK
<1>2. TypeOK'
  BY <1>1, SMTT(60) DEF IInv, TypeOK, Unswitched
<1>3. \A s \in Stacks : StackInv(s, at'[s], frames'[s])
  BY <1>1 DEF IInv, SchedInv
<1>4. \A p \in Procs : WaitInv(p)'
  <2> SUFFICES ASSUME NEW p \in Procs PROVE WaitInv(p)'
    OBVIOUS
  <2>1. CASE p = cur
    BY <1>1, <2>1 DEF IInv, SchedInv, WaitInv, Unswitched
  <2>2. CASE p # cur
    BY <1>1, <2>2 DEF IInv, SchedInv, WaitInv, Unswitched, Stacks, Procs
  <2> QED  BY <2>1, <2>2
<1>5. CpuInv(at[cur], iflag, ncli, intena)'
  BY <1>1 DEF Unswitched
<1>6. cur' # Main => at'[Main].pc = "scan"
  BY <1>1 DEF IInv, SchedInv, Unswitched, Main, Stacks, TypeOK
<1> QED
  BY <1>1, <1>2, <1>3, <1>4, <1>5, <1>6, SMTT(60) DEF IInv, SchedInv, Unswitched, TypeOK

\* Points and activities.
LEMMA PointLemma ==
  /\ \A pc \in Pcs, n \in Nat, v \in {None, 0, 1} :
       /\ Activity(pc, n, v) \in Points
       /\ Activity(pc, n, v).pc = pc /\ Activity(pc, n, v).nest = n
       /\ Activity(pc, n, v).val = v
  /\ \A pc \in Pcs :
       /\ Point(pc) \in Points
       /\ Point(pc).pc = pc /\ Point(pc).nest = 0 /\ Point(pc).val = None
BY DEF Activity, Point, Points

\* What IInv says of the current stack.
LEMMA CurLemma ==
  ASSUME IInv
  PROVE  /\ cur \in Stacks /\ at[cur] \in Points /\ frames[cur] \in Seq(Frame)
         /\ at[cur].pc \in Pcs /\ at[cur].nest \in Nat /\ at[cur].val \in {None, 0, 1}
         /\ iflag \in {0, 1} /\ ncli \in Nat /\ intena \in {0, 1} /\ ~panicked
         /\ StackInv(cur, at[cur], frames[cur])
         /\ CpuInv(at[cur], iflag, ncli, intena)
         /\ at[cur].pc # "none"
         /\ at[cur].pc \in {"user", "sys", "forkret", "sched"} => cur # Main
         /\ at[cur].pc \in {"pinit", "embryo", "scheduler", "loop", "idle", "scan"} => cur = Main
<1>1. /\ cur \in Stacks /\ at[cur] \in Points /\ frames[cur] \in Seq(Frame)
      /\ iflag \in {0, 1} /\ ncli \in Nat /\ intena \in {0, 1}
  BY DEF IInv, TypeOK
<1>2. at[cur].pc \in Pcs /\ at[cur].nest \in Nat /\ at[cur].val \in {None, 0, 1}
  BY <1>1 DEF Points
<1>3. StackInv(cur, at[cur], frames[cur]) /\ CpuInv(at[cur], iflag, ncli, intena) /\ ~panicked
  BY <1>1 DEF IInv, SchedInv
<1>4. /\ at[cur].pc \in {"user", "sys", "forkret", "sched"} => cur # Main
      /\ at[cur].pc \in {"pinit", "embryo", "scheduler", "loop", "idle", "scan"} => cur = Main
  BY <1>3 DEF StackInv
<1>5. at[cur].pc # "none"
  <2>1. CASE cur = Main
    BY <1>3, <2>1 DEF StackInv
  <2>2. CASE cur # Main
    <3>1. cur \in Procs
      BY <1>1, <2>2 DEF Stacks, Procs, Main
    <3>2. state[cur] = "RUNNING" /\ WaitInv(cur)
      BY <3>1 DEF IInv, SchedInv
    <3> QED  BY <3>2 DEF WaitInv
  <2> QED  BY <2>1, <2>2
<1> QED  BY <1>1, <1>2, <1>3, <1>4, <1>5

\* pushcli and popcli in a system call, a device interrupt or pinit.
LEMMA SectionStep ==
  ASSUME IInv, readeflags \/ OpenSection \/ CloseSection
  PROVE  IInv'
<1> USE CurLemma DEF None
<1>1. CASE readeflags
  <2> DEFINE a == Activity(at[cur].pc, at[cur].nest, iflag)
  <2>1. a \in Points /\ a.pc = at[cur].pc /\ a.nest = at[cur].nest /\ a.val = iflag
    BY PointLemma
  <2> HIDE DEF a
  <2>2. StackInv(cur, a, frames[cur])
    BY <1>1, <2>1, ZenonT(60) DEF readeflags, StackInv, NestAt
  <2>3. CpuInv(a, iflag', ncli', intena')
    BY <1>1, <2>1, ZenonT(60) DEF readeflags, CpuInv
  <2>4. at' = [at EXCEPT ![cur] = a] /\ frames' = [frames EXCEPT ![cur] = frames[cur]]
    BY <1>1 DEF readeflags, a, IInv, TypeOK
  <2>5. Unswitched /\ UNCHANGED <<iflag, ncli, intena>> /\ a.pc # "trapret"
    BY <1>1, <2>1, SMTT(60) DEF readeflags, Unswitched, IInv, TypeOK
  <2> QED  BY <2>1, <2>2, <2>3, <2>4, <2>5, LocalStep, Zenon
<1>2. CASE OpenSection
  <2> DEFINE a == Activity(at[cur].pc, at[cur].nest + 1, None)
  <2>1. a \in Points /\ a.pc = at[cur].pc /\ a.nest = at[cur].nest + 1 /\ a.val = None
    BY PointLemma, SMTT(60)
  <2> HIDE DEF a
  <2>2. StackInv(cur, a, frames[cur])
    BY <1>2, <2>1, ZenonT(60) DEF OpenSection, StackInv, NestAt
  <2>3. CpuInv(a, iflag', ncli', intena') /\ iflag' \in {0, 1} /\ ncli' \in Nat /\ intena' \in {0, 1}
    BY <1>2, <2>1 DEF OpenSection, CpuInv, pushcli
  <2>4. at' = [at EXCEPT ![cur] = a] /\ frames' = [frames EXCEPT ![cur] = frames[cur]]
    BY <1>2 DEF OpenSection, a, IInv, TypeOK
  <2>5. Unswitched /\ a.pc # "trapret"
    BY <1>2, <2>1, SMTT(60) DEF OpenSection, Unswitched, IInv, TypeOK
  <2> QED  BY <2>1, <2>2, <2>3, <2>4, <2>5, LocalStep, Zenon
<1>3. CASE CloseSection
  <2> DEFINE a == Activity(at[cur].pc, at[cur].nest - 1, None)
  <2>0. at[cur].pc \in {"embryo", "sys", "device"} /\ at[cur].nest > 0
    BY <1>3 DEF CloseSection, StackInv, NestAt
  <2>1. a \in Points /\ a.pc = at[cur].pc /\ a.nest = at[cur].nest - 1 /\ a.val = None
    BY <2>0, PointLemma
  <2> HIDE DEF a
  <2>2. ~PopcliPanics
    BY <2>0 DEF PopcliPanics, CpuInv
  <2>3. /\ popcli(intena) /\ at' = [at EXCEPT ![cur] = a]
        /\ UNCHANGED <<proc, esp0, state, context, schedctx, cur, frames, next, panicked>>
    BY <1>3, <2>2 DEF CloseSection, PopcliThen, a
  <2>4. StackInv(cur, a, frames[cur])
    BY <2>0, <2>1, ZenonT(60) DEF StackInv, NestAt
  <2>5. CpuInv(a, iflag', ncli', intena') /\ iflag' \in {0, 1} /\ ncli' \in Nat /\ intena' \in {0, 1}
    BY <2>0, <2>1, <2>3 DEF CpuInv, popcli
  <2>6. Unswitched /\ a.pc # "trapret" /\ frames' = [frames EXCEPT ![cur] = frames[cur]]
    BY <2>0, <2>1, <2>3, SMTT(60) DEF Unswitched, IInv, TypeOK
  <2> QED  BY <2>1, <2>3, <2>4, <2>5, <2>6, LocalStep, Zenon
<1> QED  BY <1>1, <1>2, <1>3

\* A step to another point of the same activity, with no section open.
LEMMA GotoStep ==
  ASSUME IInv, NEW pc \in Pcs, Goto(pc), UNCHANGED frames, Unswitched,
         iflag' \in {0, 1}, ncli' \in Nat, intena' \in {0, 1},
         StackInv(cur, Point(pc), frames[cur]),
         CpuInv(Point(pc), iflag', ncli', intena'),
         pc = "trapret" /\ iflag' = 1 => cur # Main /\ Len(frames[cur]) = 1,
         pc # "none"
  PROVE  IInv'
<1>1. Point(pc) \in Points /\ Point(pc).pc = pc
  BY PointLemma
<1>2. /\ at' = [at EXCEPT ![cur] = Point(pc)]
      /\ frames' = [frames EXCEPT ![cur] = frames[cur]]
      /\ frames[cur] \in Seq(Frame)
  BY DEF Goto, IInv, TypeOK
<1> QED  BY <1>1, <1>2, LocalStep, Zenon

\* The points of the scheduler's loop.
LEMMA LoopStep ==
  ASSUME IInv, scheduler \/ sti \/ StartScan \/ EndScan
  PROVE  IInv'
<1> USE CurLemma
<1> DEFINE P(pc) == /\ Point(pc).pc = pc /\ Point(pc).nest = 0 /\ Point(pc).val = None
<1>0. P("loop") /\ P("idle") /\ P("scan") /\ {"loop", "idle", "scan"} \subseteq Pcs
  BY PointLemma, ZenonT(60) DEF Pcs
<1> HIDE DEF P
<1>1. CASE scheduler
  <2>1. Goto("loop") /\ UNCHANGED <<frames, iflag, ncli, intena>> /\ cur = Main
    BY <1>1 DEF scheduler, Here
  <2>2. Unswitched
    BY <1>1, <2>1 DEF scheduler, Unswitched, IInv, TypeOK, Stacks, Main
  <2>3. StackInv(cur, Point("loop"), frames[cur])
    BY <1>0, <1>1, ZenonT(60) DEF P, StackInv, NestAt, DepthInv, scheduler, Here
  <2>4. CpuInv(Point("loop"), iflag', ncli', intena')
    BY <1>0, <1>1, <2>1, ZenonT(60) DEF P, CpuInv, scheduler, Here, StackInv, NestAt
  <2> QED  BY <1>0, <2>1, <2>2, <2>3, <2>4, GotoStep, ZenonT(60)
<1>2. CASE sti
  <2>1. Goto("idle") /\ UNCHANGED <<frames, ncli, intena>> /\ iflag' = 1
    BY <1>2, ZenonT(60) DEF sti, Here
  <2>2. Unswitched
    BY <1>2, SMTT(60) DEF sti, Unswitched, IInv, TypeOK
  <2>3. StackInv(cur, Point("idle"), frames[cur])
    BY <1>0, <1>2, ZenonT(60) DEF P, StackInv, NestAt, DepthInv, sti, Here
  <2>4. CpuInv(Point("idle"), iflag', ncli', intena')
    BY <1>0, <1>2, <2>1 DEF P, CpuInv, sti, Here
  <2> QED  BY <1>0, <2>1, <2>2, <2>3, <2>4, GotoStep, ZenonT(60)
<1>3. CASE StartScan
  <2>1. Goto("scan") /\ UNCHANGED frames /\ pushcli(at[cur].val) /\ at[cur].val # None
    BY <1>3, ZenonT(60) DEF StartScan, Here
  <2>2. Unswitched
    BY <1>3, NumAssumption, SMTT(60) DEF StartScan, Unswitched, IInv, TypeOK
  <2>3. StackInv(cur, Point("scan"), frames[cur])
    BY <1>0, <1>3, ZenonT(60) DEF P, StackInv, NestAt, DepthInv, StartScan, Here
  <2>4. /\ CpuInv(Point("scan"), iflag', ncli', intena')
        /\ iflag' \in {0, 1} /\ ncli' \in Nat /\ intena' \in {0, 1}
    BY <1>0, <1>3, <2>1, SMTT(60) DEF P, CpuInv, StartScan, Here, pushcli, StackInv, NestAt
  <2> QED  BY <1>0, <2>1, <2>2, <2>3, <2>4, GotoStep, ZenonT(60)
<1>4. CASE EndScan
  <2>0. ~PopcliPanics /\ at[cur].pc = "scan"
    BY <1>4, SMTT(60) DEF EndScan, Here, PopcliPanics, CpuInv
  <2>1. Goto("loop") /\ UNCHANGED frames /\ popcli(intena)
    BY <1>4, <2>0, ZenonT(60) DEF EndScan, PopcliThen, Goto
  <2>2. Unswitched
    BY <1>4, <2>0 DEF EndScan, PopcliThen, Unswitched, IInv, TypeOK
  <2>3. StackInv(cur, Point("loop"), frames[cur])
    BY <1>0, <2>0, ZenonT(60) DEF P, StackInv, NestAt, DepthInv
  <2>4. /\ CpuInv(Point("loop"), iflag', ncli', intena')
        /\ iflag' \in {0, 1} /\ ncli' \in Nat /\ intena' \in {0, 1}
    BY <1>0, <2>0, <2>1 DEF P, CpuInv, popcli
  <2> QED  BY <1>0, <2>1, <2>2, <2>3, <2>4, GotoStep, ZenonT(60)
<1> QED  BY <1>1, <1>2, <1>3, <1>4

\* The ends of traps, up to iret.
LEMMA TrapretStep ==
  ASSUME IInv,
         \/ sched \/ forkret \/ TrapDone
         \/ TimerTrap /\ ~(proc # Main /\ state[proc] = "RUNNING")
  PROVE  IInv'
<1> USE CurLemma
<1>0. /\ "trapret" \in Pcs /\ Point("trapret").pc = "trapret"
      /\ Point("trapret").nest = 0 /\ Point("trapret").val = None
  BY PointLemma, ZenonT(60) DEF Pcs
<1>1. ASSUME at[cur].pc \in {"sched", "forkret", "sys", "device", "timer"},
             Goto("trapret"), UNCHANGED frames, Unswitched,
             iflag' \in {0, 1}, ncli' = 0, intena' \in {0, 1},
             iflag' = 1 => at[cur].pc \in {"sys", "forkret"}
      PROVE  IInv'
  <2>1. StackInv(cur, Point("trapret"), frames[cur])
    <3>1. DepthInv("trapret", Len(frames[cur]))
      <4> DEFINE n == Len(frames[cur])
      <4>1. n \in Nat /\ DepthInv(at[cur].pc, n)
        BY DEF StackInv
      <4> HIDE DEF n
      <4>2. DepthInv("trapret", n)
        BY <1>1, <4>1, SMTT(60) DEF DepthInv
      <4> QED  BY <4>2, ZenonT(60) DEF n
    <3> QED  BY <1>0, <1>1, <3>1, ZenonT(60) DEF StackInv, NestAt
  <2>2. CpuInv(Point("trapret"), iflag', ncli', intena')
    BY <1>0, <1>1, ZenonT(60) DEF CpuInv
  <2>3. iflag' = 1 => cur # Main /\ Len(frames[cur]) = 1
    BY <1>1, ZenonT(60) DEF StackInv, DepthInv
  <2> QED  BY <1>0, <1>1, <2>1, <2>2, <2>3, GotoStep, ZenonT(60)
<1>2. CASE sched
  <2>1. at[cur].pc = "sched" /\ at[cur].val = 0 /\ ~PopcliPanics
    BY <1>2, SMTT(60) DEF sched, Here, PopcliPanics, CpuInv, StackInv
  <2>2. /\ popcli(at[cur].val) /\ Goto("trapret")
        /\ UNCHANGED <<proc, esp0, state, context, schedctx, cur, frames, next, panicked>>
    BY <1>2, <2>1, ZenonT(60) DEF sched, PopcliThen, Goto
  <2>3. Unswitched
    BY <2>2, SMTT(60) DEF Unswitched, IInv, TypeOK
  <2>4. iflag' = 0 /\ ncli' = 0 /\ intena' = 0
    BY <2>1, <2>2, SMTT(60) DEF popcli, CpuInv
  <2> QED  BY <1>1, <2>1, <2>2, <2>3, <2>4, SMTT(60)
<1>3. CASE forkret
  <2>1. at[cur].pc = "forkret" /\ ~PopcliPanics
    BY <1>3, SMTT(60) DEF forkret, Here, PopcliPanics, CpuInv
  <2>2. /\ popcli(intena) /\ Goto("trapret")
        /\ UNCHANGED <<proc, esp0, state, context, schedctx, cur, frames, next, panicked>>
    BY <1>3, <2>1, ZenonT(60) DEF forkret, PopcliThen, Goto
  <2>3. Unswitched
    BY <2>2, SMTT(60) DEF Unswitched, IInv, TypeOK
  <2>4. iflag' \in {0, 1} /\ ncli' = 0 /\ intena' \in {0, 1}
    BY <2>1, <2>2 DEF popcli, CpuInv
  <2> QED  BY <1>1, <2>1, <2>2, <2>3, <2>4, ZenonT(60)
<1>4. CASE TrapDone
  <2>1. /\ at[cur].pc \in {"sys", "device"} /\ at[cur].nest = 0 /\ Goto("trapret")
        /\ UNCHANGED <<iflag, ncli, intena, proc, esp0, state, context, schedctx, cur,
                       frames, next, panicked>>
    BY <1>4, ZenonT(60) DEF TrapDone
  <2>2. Unswitched
    BY <2>1, ZenonT(60) DEF Unswitched, IInv, TypeOK
  <2>3. ncli' = 0 /\ (iflag' = 1 => at[cur].pc = "sys")
    BY <2>1 DEF CpuInv
  <2> QED  BY <1>1, <2>1, <2>2, <2>3, ZenonT(60)
<1>5. CASE TimerTrap /\ ~(proc # Main /\ state[proc] = "RUNNING")
  <2>1. /\ at[cur].pc = "timer" /\ Goto("trapret")
        /\ UNCHANGED <<iflag, ncli, intena, proc, esp0, state, context, schedctx, cur,
                       frames, next, panicked>>
    BY <1>5, ZenonT(60) DEF TimerTrap, Here
  <2>2. Unswitched
    BY <2>1, SMTT(60) DEF Unswitched, IInv, TypeOK
  <2>3. ncli' = 0 /\ iflag' = 0
    BY <2>1, ZenonT(60) DEF CpuInv
  <2> QED  BY <1>1, <2>1, <2>2, <2>3
<1> QED  BY <1>2, <1>3, <1>4, <1>5, ZenonT(60)

\* Trap entry: the new trap frame is on the current stack.
LEMMA EnterStep ==
  ASSUME IInv, syscall \/ timer \/ device
  PROVE  IInv'
<1> USE CurLemma
<1>a. PICK pc \in {"sys", "timer", "device"} :
        /\ Enter(pc) /\ iflag = 1
        /\ pc = "sys" => at[cur].pc = "user" /\ iflag' = 1
        /\ pc # "sys" => iflag' = 0
        /\ UNCHANGED <<ncli, intena, proc, esp0, state, context, schedctx, next, panicked>>
  <2>1. CASE syscall
    BY <2>1, ZenonT(60) DEF syscall, Here, CpuInv
  <2>2. CASE timer
    BY <2>2, ZenonT(60) DEF timer, Interrupt
  <2>3. CASE device
    BY <2>3, ZenonT(60) DEF device, Interrupt
  <2> QED  BY <2>1, <2>2, <2>3, ZenonT(60)
<1> DEFINE f == [to |-> at[cur], iflag |-> iflag]
           fs == Append(frames[cur], f)
           n == Len(frames[cur])
<1>1. f \in Frame /\ f.to = at[cur] /\ f.iflag = 1
  BY <1>a, ZenonT(60) DEF Frame
<1>2. cur' = cur /\ at' = [at EXCEPT ![cur] = Point(pc)] /\ frames' = [frames EXCEPT ![cur] = fs]
  <2>1. at[cur].pc = "user" => esp0 = cur
    BY ZenonT(60) DEF IInv, SchedInv
  <2> QED  BY <1>a, <2>1, Zenon DEF Enter
<1> HIDE DEF f
<1>3. fs \in Seq(Frame) /\ Len(fs) = n + 1 /\ n \in Nat /\ fs[n + 1] = f
      /\ \A i \in 1..n : fs[i] = frames[cur][i]
  BY <1>1
<1>4. /\ Point(pc) \in Points /\ Point(pc).pc = pc
      /\ Point(pc).nest = 0 /\ Point(pc).val = None
  BY PointLemma, SMTT(60) DEF Pcs
<1> HIDE DEF fs, n
<1>5. DepthInv(at[cur].pc, n) /\ NestAt(at[cur])
  BY ZenonT(60) DEF StackInv, n
<1>6. /\ at[cur].nest = 0 /\ at[cur].pc \notin {"timer", "device", "scan", "forkret", "sched", "none"}
      /\ at[cur].pc \in {"pinit", "embryo", "idle", "sys"} => at[cur].val \in {None, 1}
  BY <1>a, <1>5, SMTT(60) DEF CpuInv, NestAt
<1>7. /\ at[cur].pc = "trapret" => cur # Main /\ n = 1
      /\ cur # Main => at[cur].pc \in {"user", "sys", "trapret"}
  BY <1>a, <1>6, ZenonT(60) DEF IInv, SchedInv, n, StackInv
<1>8. FrameInv(cur, n + 1, f)
  <2>1. CASE cur = Main
    <3>1. at[cur].pc \in {"pinit", "embryo", "scheduler", "loop", "idle"}
      BY <1>6, <1>7, <2>1, ZenonT(60) DEF Pcs
    <3>2. n = 0
      BY <1>5, <3>1, ZenonT(60) DEF DepthInv
    <3> QED  BY <1>1, <1>6, <2>1, <3>1, <3>2, SMTT(60) DEF FrameInv
  <2>2. CASE cur # Main
    <3>1. \/ at[cur].pc = "user" /\ n = 0
          \/ at[cur].pc \in {"sys", "trapret"} /\ n = 1
      BY <1>5, <1>7, <2>2, ZenonT(60) DEF DepthInv
    <3> QED  BY <1>1, <1>6, <2>2, <3>1, SMTT(60) DEF FrameInv
  <2> QED  BY <2>1, <2>2, ZenonT(60)
<1>9. StackInv(cur, Point(pc), fs)
  <2>1. pc = "sys" => n = 0 /\ cur # Main
    BY <1>a, <1>5, ZenonT(60) DEF DepthInv
  <2>2. DepthInv(pc, Len(fs))
    BY <1>3, <2>1, SMTT(60) DEF DepthInv
  <2>3. \A i \in 1..Len(fs) : FrameInv(cur, i, fs[i])
    <3> SUFFICES ASSUME NEW i \in 1..Len(fs) PROVE FrameInv(cur, i, fs[i])
      BY ZenonT(60)
    <3>1. CASE i \in 1..n
      BY <1>3, <3>1, ZenonT(60) DEF StackInv, n
    <3>2. CASE i = n + 1
      BY <1>3, <1>8, <3>2, ZenonT(60)
    <3> QED  BY <1>3, <3>1, <3>2
  <2> QED  BY <1>4, <2>1, <2>2, <2>3, ZenonT(60) DEF StackInv, NestAt
<1>10. /\ CpuInv(Point(pc), iflag', ncli', intena')
       /\ iflag' \in {0, 1} /\ ncli' \in Nat /\ intena' \in {0, 1}
  BY <1>a, <1>4 DEF CpuInv
<1>11. Unswitched
  BY <1>a, <1>2, ZenonT(60) DEF Unswitched, IInv, TypeOK
<1> QED  BY <1>2, <1>3, <1>4, <1>9, <1>10, <1>11, LocalStep, Zenon

\* iret goes back to what was interrupted, which had interrupts on.
LEMMA IretStep ==
  ASSUME IInv, trapret
  PROVE  IInv'
<1> USE CurLemma
<1> DEFINE n == Len(frames[cur])
           f == frames[cur][n]
           fs == SubSeq(frames[cur], 1, n - 1)
<1>1. n \in Nat /\ n >= 1 /\ at[cur].pc = "trapret" /\ ncli = 0
  BY SMTT(60) DEF trapret, Here, StackInv, DepthInv, CpuInv
<1>2. FrameInv(cur, n, f) /\ f \in Frame
  BY <1>1, SMTT(60) DEF StackInv
<1>3. fs \in Seq(Frame) /\ Len(fs) = n - 1 /\ \A i \in 1..(n - 1) : fs[i] = frames[cur][i]
  BY <1>1, SMTT(60)
<1>4. /\ iflag' = f.iflag /\ at' = [at EXCEPT ![cur] = f.to] /\ frames' = [frames EXCEPT ![cur] = fs]
      /\ UNCHANGED <<ncli, intena, proc, esp0, state, context, schedctx, cur, next, panicked>>
  BY ZenonT(60) DEF trapret, IInv, TypeOK
<1>5. \A i \in 1..(n - 1) : FrameInv(cur, i, fs[i])
  BY <1>1, <1>3, SMTT(60) DEF StackInv
<1> HIDE DEF n, f, fs
<1>6. f.to \in Points /\ f.iflag = 1 /\ f.to.nest = 0 /\ f.to.nest \in Nat
  BY <1>2, SMTT(60) DEF Frame, FrameInv
<1>7. StackInv(cur, f.to, fs)
  <2>1. DepthInv(f.to.pc, n - 1)
    BY <1>1, <1>2, SMTT(60) DEF FrameInv, DepthInv
  <2> QED  BY <1>2, <1>3, <1>5, <1>6, <2>1, ZenonT(60) DEF StackInv, NestAt, FrameInv
<1>8. CpuInv(f.to, iflag', ncli', intena')
  <2> HIDE CurLemma
  <2>1. /\ f.to.pc \in {"pinit", "embryo", "scheduler", "loop", "idle", "user", "sys", "trapret"}
        /\ f.to.pc \in {"pinit", "embryo", "idle", "sys"} => f.to.val \in {None, 1}
    BY <1>2, Zenon DEF FrameInv
  <2>2. iflag' = 1 /\ ncli' = 0
    BY <1>1, <1>4, <1>6, Zenon
  <2> QED  BY <1>6, <2>1, <2>2, SMTT(60) DEF CpuInv
<1>9. f.to.pc = "trapret" => cur # Main /\ Len(fs) = 1
  BY <1>1, <1>2, <1>3, SMTT(60) DEF FrameInv
<1>10. f.to.pc # "none"
  BY <1>2, ZenonT(60) DEF FrameInv
<1>11. Unswitched
  BY <1>4, ZenonT(60) DEF Unswitched, IInv, TypeOK
<1> QED  BY <1>3, <1>4, <1>6, <1>7, <1>8, <1>9, <1>10, <1>11, LocalStep, ZenonT(60)

------------------------------------------------------------------------------
(* The steps that change the stack or the process table.                     *)

\* yield hands the CPU back to the scheduler, in its loop.
LEMMA YieldStep ==
  ASSUME IInv, TimerTrap, proc # Main, state[proc] = "RUNNING"
  PROVE  IInv'
<1>1. cur \in Procs /\ proc = cur /\ schedctx = Main /\ at[cur].pc = "timer"
  BY CurLemma, SMTT(60) DEF IInv, SchedInv, TypeOK, Procs, Stacks, Main, TimerTrap, Here
<1>2. iflag = 0 /\ ncli = 0 /\ yield
  BY CurLemma, <1>1, ZenonT(60) DEF CpuInv, TimerTrap
<1> DEFINE a == Activity("sched", 0, 0)
<1>3. a \in Points /\ a.pc = "sched" /\ a.nest = 0 /\ a.val = 0
  BY PointLemma DEF Pcs
<1>4. /\ iflag' = 0 /\ ncli' = 1 /\ intena' = 0
      /\ state' = [state EXCEPT ![cur] = "RUNNABLE"] /\ at' = [at EXCEPT ![cur] = a]
      /\ context' = [context EXCEPT ![cur] = cur] /\ cur' = Main
      /\ UNCHANGED <<proc, esp0, schedctx, frames, next, panicked>>
  <2>1. iflag' = 0 /\ state' = [state EXCEPT ![cur] = "RUNNABLE"]
    BY <1>1, <1>2 DEF yield, pushcli
  <2>2. state'[cur] = "RUNNABLE"
    BY <1>1, <2>1 DEF IInv, TypeOK
  <2>3. ~SchedPanics(state'[proc], iflag')
    BY <1>1, <2>1, <2>2 DEF SchedPanics
  <2> QED  BY <1>1, <1>2, <2>3 DEF yield, pushcli, swtch
<1> HIDE DEF a
<1>5. Main \in Stacks /\ Main \notin Procs /\ Procs \subseteq Stacks
  BY NumAssumption DEF Stacks, Procs, Main
<1>6. /\ at'[cur] = a /\ at'[Main] = at[Main] /\ at' \in [Stacks -> Points]
      /\ \A s \in Stacks : s # cur => at'[s] = at[s]
      /\ state'[cur] = "RUNNABLE" /\ state' \in [Procs -> States]
      /\ \A p \in Procs : p # cur => state'[p] = state[p]
      /\ context'[cur] = cur /\ context' \in [Procs -> Stacks]
      /\ \A p \in Procs : p # cur => context'[p] = context[p]
  BY <1>1, <1>3, <1>4, <1>5, ZenonT(60) DEF IInv, TypeOK, States
<1>7. TypeOK'
  BY <1>4, <1>5, <1>6, ZenonT(60) DEF IInv, TypeOK
<1>8. \A s \in Stacks : StackInv(s, at'[s], frames'[s])
  <2>1. StackInv(cur, a, frames[cur])
    BY CurLemma, <1>1, <1>3, ZenonT(60) DEF StackInv, NestAt, DepthInv
  <2>2. \A s \in Stacks : s # cur => StackInv(s, at[s], frames[s])
    BY ZenonT(60) DEF IInv, SchedInv
  <2> QED  BY <1>4, <1>6, <2>1, <2>2, ZenonT(60)
<1>9. \A p \in Procs : WaitInv(p)'
  <2> SUFFICES ASSUME NEW p \in Procs PROVE WaitInv(p)'
    BY SMTT(60)
  <2>1. CASE p = cur
    BY <1>3, <1>6, <2>1, SMTT(60) DEF WaitInv
  <2>2. CASE p # cur
    BY <1>5, <1>6, <2>2, SMTT(60) DEF IInv, SchedInv, WaitInv
  <2> QED  BY <2>1, <2>2, SMTT(60)
<1>10. \A p \in Procs : state'[p] = "RUNNING" <=> cur' = p
  BY <1>4, <1>5, <1>6, ZenonT(60) DEF IInv, SchedInv
<1>11. at'[Main].pc = "scan" /\ CpuInv(at'[Main], iflag', ncli', intena')
  BY <1>1, <1>4, <1>5, <1>6, ZenonT(60) DEF IInv, SchedInv, CpuInv
<1> QED
  BY <1>1, <1>4, <1>7, <1>8, <1>9, <1>10, <1>11, ZenonT(60) DEF IInv, SchedInv

\* The scheduler hands the CPU to a process, which goes on at forkret or in sched.
LEMMA DispatchStep ==
  ASSUME IInv, Dispatch
  PROVE  IInv'
<1>1. cur = Main /\ at[cur].pc = "scan" /\ iflag = 0 /\ ncli = 1
  BY CurLemma, ZenonT(60) DEF Dispatch, Here, CpuInv
<1>2. PICK p \in Procs :
        /\ state[p] = "RUNNABLE"
        /\ proc' = p /\ state' = [state EXCEPT ![p] = "RUNNING"] /\ esp0' = p
        /\ schedctx' = cur /\ cur' = context[p] /\ next' = p + 1
  BY Zenon DEF Dispatch, Runnable, First, switchuvm, swtch
<1>3. UNCHANGED <<iflag, ncli, intena, context, at, frames, panicked>>
  BY DEF Dispatch
<1>4. Main \in Stacks /\ Main \notin Procs /\ Procs \subseteq Stacks
  BY NumAssumption DEF Stacks, Procs, Main
<1>5. cur' = p /\ at[p].pc \in {"forkret", "sched"}
  BY <1>2, ZenonT(60) DEF IInv, SchedInv, WaitInv
<1>6. /\ state'[p] = "RUNNING" /\ state' \in [Procs -> States]
      /\ \A q \in Procs : q # p => state'[q] = state[q]
  BY <1>2 DEF IInv, TypeOK, States
<1>7. TypeOK'
  <2>1. p + 1 \in 1..(NPROC + 1)
    BY NumAssumption DEF Procs
  <2> QED  BY <1>1, <1>2, <1>3, <1>4, <1>5, <1>6, <2>1, ZenonT(60) DEF IInv, TypeOK
<1>8. \A q \in Procs : WaitInv(q)'
  <2> SUFFICES ASSUME NEW q \in Procs PROVE WaitInv(q)'
    BY SMTT(60)
  <2>1. CASE q = p
    BY <1>3, <1>5, <1>6, <2>1, ZenonT(60) DEF WaitInv
  <2>2. CASE q # p
    BY <1>3, <1>6, <2>2, SMTT(60) DEF IInv, SchedInv, WaitInv
  <2> QED  BY <2>1, <2>2
<1>9. \A q \in Procs : state'[q] = "RUNNING" <=> cur' = q
  BY <1>1, <1>4, <1>5, <1>6, ZenonT(60) DEF IInv, SchedInv
<1>10. CpuInv(at[cur], iflag, ncli, intena)'
  BY <1>1, <1>3, <1>5, ZenonT(60) DEF CpuInv
<1>11. \A s \in Stacks : StackInv(s, at[s], frames[s])'
  BY <1>3, ZenonT(60) DEF IInv, SchedInv
<1> QED
  BY <1>1, <1>2, <1>3, <1>5, <1>7, <1>8, <1>9, <1>10, <1>11, ZenonT(60) DEF IInv, SchedInv

\* allocproc takes a slot; pinit makes it a process that can be dispatched.
LEMMA PinitStep ==
  ASSUME IInv, allocproc \/ pinit
  PROVE  IInv'
<1>0. Main \in Stacks /\ Main \notin Procs /\ Procs \subseteq Stacks
  BY NumAssumption, SMTT(60) DEF Stacks, Procs, Main
<1>1. CASE allocproc
  <2>1. cur = Main /\ at[cur].pc = "pinit" /\ at[cur].val # None
    BY CurLemma, <1>1, ZenonT(60) DEF allocproc, Here
  <2>2. iflag = 1 /\ ncli = 0 /\ at[cur].val = 1
    BY CurLemma, <2>1, ZenonT(60) DEF CpuInv, StackInv, NestAt
  <2>3. PICK p \in Procs : state[p] = "UNUSED" /\ state' = [state EXCEPT ![p] = "EMBRYO"]
    BY <1>1, Zenon DEF allocproc, First
  <2>4. /\ iflag' = 1 /\ ncli' = 0 /\ intena' = 1 /\ at' = [at EXCEPT ![cur] = Point("embryo")]
        /\ UNCHANGED <<proc, esp0, context, schedctx, cur, frames, next, panicked>>
    BY <1>1, <2>2, ZenonT(60) DEF allocproc, Goto
  <2>5. /\ Point("embryo") \in Points /\ Point("embryo").pc = "embryo"
        /\ Point("embryo").nest = 0 /\ Point("embryo").val = None
    BY PointLemma, ZenonT(60) DEF Pcs
  <2>6. /\ at'[Main] = Point("embryo") /\ at' \in [Stacks -> Points]
        /\ \A s \in Stacks : s # Main => at'[s] = at[s]
        /\ state'[p] = "EMBRYO" /\ state' \in [Procs -> States]
        /\ \A q \in Procs : q # p => state'[q] = state[q]
    BY <1>0, <2>1, <2>3, <2>4, <2>5, ZenonT(60) DEF IInv, TypeOK, States
  <2>7. TypeOK'
    BY <2>4, <2>6, ZenonT(60) DEF IInv, TypeOK
  <2>8. \A s \in Stacks : StackInv(s, at'[s], frames'[s])
    <3>1. StackInv(Main, Point("embryo"), frames[Main])
      BY CurLemma, <2>1, <2>5, ZenonT(60) DEF StackInv, NestAt, DepthInv
    <3>2. \A s \in Stacks : StackInv(s, at[s], frames[s])
      BY ZenonT(60) DEF IInv, SchedInv
    <3> QED  BY <2>4, <2>6, <3>1, <3>2, SMTT(60)
  <2>9. \A q \in Procs : WaitInv(q)'
    <3> SUFFICES ASSUME NEW q \in Procs PROVE WaitInv(q)'
      BY SMTT(60)
    <3>1. WaitInv(q) /\ at'[q] = at[q] /\ context'[q] = context[q]
      BY <1>0, <2>4, <2>6, ZenonT(60) DEF IInv, SchedInv
    <3> QED  BY <2>3, <2>6, <3>1, ZenonT(60) DEF WaitInv
  <2>10. \A q \in Procs : state'[q] = "RUNNING" <=> cur' = q
    BY <2>3, <2>4, <2>6, ZenonT(60) DEF IInv, SchedInv
  <2>11. CpuInv(at[cur], iflag, ncli, intena)'
    BY <2>1, <2>4, <2>5, <2>6, ZenonT(60) DEF CpuInv
  <2> QED
    BY <2>1, <2>4, <2>5, <2>6, <2>7, <2>8, <2>9, <2>10, <2>11, ZenonT(60) DEF IInv, SchedInv
<1>2. CASE pinit
  <2>1. /\ cur = Main /\ at[cur].pc = "embryo" /\ at[cur].nest = 0
        /\ UNCHANGED <<iflag, ncli, intena, proc, esp0, schedctx, cur, next, panicked>>
    BY CurLemma, <1>2, ZenonT(60) DEF pinit, Here
  <2> DEFINE a == Point(AfterPinit)
             fs == <<[to |-> Point("user"), iflag |-> 1]>>
  <2>2. PICK p \in Procs :
          /\ state[p] = "EMBRYO"
          /\ frames' = [frames EXCEPT ![p] = fs]
          /\ at' = [at EXCEPT ![p] = Point("forkret"), ![cur] = a]
          /\ context' = [context EXCEPT ![p] = p]
          /\ state' = [state EXCEPT ![p] = "RUNNABLE"]
    BY <1>2, Zenon DEF pinit
  <2>3. a \in Points /\ a.pc \in {"pinit", "scheduler"} /\ a.nest = 0 /\ a.val = None
    BY PointLemma DEF Pcs, AfterPinit
  <2>4. /\ Point("forkret") \in Points /\ Point("forkret").pc = "forkret"
        /\ Point("forkret").nest = 0 /\ Point("forkret").val = None
    BY PointLemma, ZenonT(60) DEF Pcs
  <2>5. fs \in Seq(Frame) /\ Len(fs) = 1 /\ FrameInv(p, 1, fs[1])
    <3>1. Point("user") \in Points /\ Point("user").pc = "user" /\ Point("user").nest = 0
      BY PointLemma, ZenonT(60) DEF Pcs
    <3>2. p # Main
      BY <1>0
    <3> QED  BY <3>1, <3>2, SMTT(60) DEF Frame, FrameInv
  <2> HIDE DEF a, fs
  <2>6. /\ at'[Main] = a /\ at'[p] = Point("forkret") /\ at' \in [Stacks -> Points]
        /\ \A s \in Stacks : s # Main /\ s # p => at'[s] = at[s]
    BY <1>0, <2>1, <2>2, <2>3, <2>4, Zenon DEF IInv, TypeOK
  <2>7. /\ frames'[p] = fs /\ frames' \in [Stacks -> Seq(Frame)]
        /\ \A s \in Stacks : s # p => frames'[s] = frames[s]
        /\ state'[p] = "RUNNABLE" /\ state' \in [Procs -> States]
        /\ \A q \in Procs : q # p => state'[q] = state[q]
        /\ context'[p] = p /\ context' \in [Procs -> Stacks]
        /\ \A q \in Procs : q # p => context'[q] = context[q]
    BY <1>0, <2>2, <2>5, ZenonT(60) DEF IInv, TypeOK, States
  <2>8. TypeOK'
    BY <2>1, <2>6, <2>7, ZenonT(60) DEF IInv, TypeOK
  <2>9. \A s \in Stacks : StackInv(s, at'[s], frames'[s])
    <3>1. StackInv(Main, a, frames[Main])
      BY CurLemma, <2>1, <2>3, ZenonT(60) DEF StackInv, NestAt, DepthInv
    <3>2. StackInv(p, Point("forkret"), fs)
      BY <1>0, <2>4, <2>5, SMTT(60) DEF StackInv, NestAt, DepthInv
    <3>3. \A s \in Stacks : StackInv(s, at[s], frames[s])
      BY DEF IInv, SchedInv
    <3> QED  BY <1>0, <2>6, <2>7, <3>1, <3>2, <3>3, ZenonT(60)
  <2>10. \A q \in Procs : WaitInv(q)'
    <3> SUFFICES ASSUME NEW q \in Procs PROVE WaitInv(q)'
      OBVIOUS
    <3>1. CASE q = p
      BY <2>4, <2>6, <2>7, <3>1, ZenonT(60) DEF WaitInv
    <3>2. CASE q # p
      <4>1. WaitInv(q) /\ at'[q] = at[q] /\ context'[q] = context[q] /\ state'[q] = state[q]
        BY <1>0, <2>6, <2>7, <3>2, ZenonT(60) DEF IInv, SchedInv
      <4> QED  BY <4>1, SMTT(60) DEF WaitInv
    <3> QED  BY <3>1, <3>2, SMTT(60)
  <2>11. \A q \in Procs : state'[q] = "RUNNING" <=> cur' = q
    BY <1>0, <2>1, <2>2, <2>7, ZenonT(60) DEF IInv, SchedInv
  <2>12. CpuInv(at[cur], iflag, ncli, intena)'
    BY CurLemma, <2>1, <2>3, <2>6, ZenonT(60) DEF CpuInv
  <2> QED
    BY <2>1, <2>3, <2>6, <2>8, <2>9, <2>10, <2>11, <2>12, ZenonT(60) DEF IInv, SchedInv
<1> QED  BY <1>1, <1>2, SMTT(60)

\* The initial states.
LEMMA InitIInv == Init => IInv
<1> SUFFICES ASSUME Init PROVE IInv
  OBVIOUS
<1>1. /\ Point("pinit") \in Points /\ Point("pinit").pc = "pinit"
      /\ Point("pinit").nest = 0 /\ Point("pinit").val = None
      /\ Point("none") \in Points /\ Point("none").pc = "none" /\ Point("none").nest = 0
  BY PointLemma, ZenonT(60) DEF Pcs
<1>2. Main \in Stacks /\ Main \notin Procs /\ Procs \subseteq Stacks
  BY NumAssumption DEF Stacks, Procs, Main
<1>3. at \in [Stacks -> Points] /\ frames \in [Stacks -> Seq(Frame)]
  BY <1>1 DEF Init
<1>4. TypeOK
  <2>1. next \in 1..(NPROC + 1) /\ ncli \in Nat
    BY NumAssumption DEF Init
  <2>2. state \in [Procs -> States] /\ context \in [Procs -> Stacks]
    BY <1>2 DEF Init, States
  <2>3. panicked \in BOOLEAN
    BY Zenon DEF Init
  <2> QED  BY <1>2, <1>3, <2>1, <2>2, <2>3 DEF Init, TypeOK
<1>5. \A s \in Stacks : StackInv(s, at[s], frames[s])
  BY <1>1 DEF Init, StackInv, NestAt, DepthInv
<1>6. CpuInv(at[cur], iflag, ncli, intena)
  BY <1>1, <1>2 DEF Init, CpuInv
<1>7. \A p \in Procs : WaitInv(p)
  BY <1>1, <1>2 DEF Init, WaitInv
<1>8. at[cur].pc = "pinit"
  BY <1>1, <1>2, ZenonT(60) DEF Init
<1> QED
  BY <1>2, <1>4, <1>5, <1>6, <1>7, <1>8, ZenonT(60) DEF IInv, SchedInv, Init

\* Every step preserves it.
LEMMA NextIInv == IInv /\ [Next]_vars => IInv'
<1> SUFFICES ASSUME IInv, [Next]_vars PROVE IInv'
  OBVIOUS
<1>1. CASE MainStep
  BY <1>1, PinitStep, LoopStep, DispatchStep DEF MainStep
<1>2. CASE readeflags \/ OpenSection \/ CloseSection
  BY <1>2, SectionStep
<1>3. CASE sched \/ forkret \/ TrapDone
  BY <1>3, TrapretStep
<1>4. CASE TimerTrap
  BY <1>4, TrapretStep, YieldStep
<1>5. CASE trapret
  BY <1>5, IretStep, SMTT(60)
<1>6. CASE syscall \/ timer \/ device
  BY <1>6, EnterStep
<1>7. CASE UNCHANGED vars
  BY <1>7, ZenonT(60) DEF vars, IInv, TypeOK, SchedInv, WaitInv
<1> QED
  BY <1>1, <1>2, <1>3, <1>4, <1>5, <1>6, <1>7 DEF Next, Step

\* Every activity below the innermost one, and on another stack, is outside critical
\* sections; the CPU, c->proc, the TSS and the process states agree; no popcli
\* panics; and user code can be interrupted.
THEOREM SchedCorrect ==
  Spec => [](TypeOK /\ SchedInv /\ SectionsAtomic /\ OneRunning /\ NoPanic /\ UserInterruptible)
<1>1. IInv => SectionsAtomic
  <2> SUFFICES ASSUME IInv PROVE SectionsAtomic
    BY SMTT(60)
  <2>1. \A s \in Stacks : \A i \in 1..Len(frames[s]) : frames[s][i].to.nest = 0
    BY ZenonT(60) DEF IInv, SchedInv, StackInv, FrameInv
  <2>2. ASSUME NEW s \in Stacks, s # cur PROVE at[s].nest = 0
    <3>1. CASE s = Main
      BY <2>2, <3>1, ZenonT(60) DEF IInv, SchedInv, StackInv, NestAt
    <3>2. CASE s # Main
      <4>1. s \in Procs
        BY <3>2, SMTT(60) DEF Stacks, Procs, Main
      <4>2. state[s] \in States /\ state[s] # "RUNNING"
        BY <2>2, <4>1, ZenonT(60) DEF IInv, SchedInv, TypeOK
      <4>3. at[s].pc \in {"none", "forkret", "sched"}
        BY <4>1, <4>2, ZenonT(60) DEF IInv, SchedInv, WaitInv, States
      <4> QED  BY <4>3, ZenonT(60) DEF IInv, SchedInv, StackInv, NestAt
    <3> QED  BY <3>1, <3>2, SMTT(60)
  <2> QED  BY <2>1, <2>2 DEF SectionsAtomic
<1>2. IInv => OneRunning /\ NoPanic /\ UserInterruptible
  BY ZenonT(60) DEF IInv, SchedInv, OneRunning, NoPanic, UserInterruptible, CpuInv
<1> QED
  BY <1>1, <1>2, InitIInv, NextIInv, PTL DEF Spec, IInv

\* The fields of struct cpu and struct proc and the stacks keep their types.
THEOREM TypesCorrect == Spec => []TypeOK
BY SchedCorrect, PTL

\* A section between pushcli and popcli is left neither by an interrupt nor by a switch.
THEOREM SectionsCorrect == Spec => []SectionsAtomic
BY SchedCorrect, PTL

\* The process that executes, and only it, is RUNNING; it is myproc(), and the TSS
\* names its kernel stack (scheduler, sched, switchuvm).
THEOREM RunningCorrect == Spec => []OneRunning
BY SchedCorrect, PTL

\* No popcli panics.
THEOREM PopcliCorrect == Spec => []NoPanic
BY SchedCorrect, PTL

\* User code runs with interrupts on and outside pushcli, so the timer gets the CPU back.
THEOREM UserCorrect == Spec => []UserInterruptible
BY SchedCorrect, PTL

------------------------------------------------------------------------------
(* Round robin.                                                            *)

BootPcs == {"pinit", "embryo", "scheduler"}

\* main has not come to the scheduler's loop, interrupted or not.
Booting ==
  \/ at[Main].pc \in BootPcs
  \/ Len(frames[Main]) > 0 /\ frames[Main][1].to.pc \in BootPcs

\* Where r may be that has had its turn since q had: behind q in the table when the
\* loop has come past q, or is not running; otherwise also where the loop has been.
Behind(q, r) ==
  IF at[Main].pc = "scan"
  THEN IF q < next THEN q < r /\ r < next ELSE r < next \/ q < r
  ELSE q < r

\* No process has had a turn before the loop starts, none but the running one since
\* that was dispatched, and since a waiting one had its turn only those of Behind.
TurnInv ==
  /\ passed \in [Procs -> SUBSET Procs]
  /\ Booting => \A q \in Procs : passed[q] = {}
  /\ \A q \in Procs : state[q] = "RUNNING" => q < next /\ passed[q] = {}
  /\ \A q \in Procs : state[q] = "RUNNABLE" => \A r \in passed[q] : Behind(q, r)

\* A step that is not about turns.
Quiet ==
  /\ UNCHANGED <<state, next, cur>>
  /\ at'[Main].pc = "scan" <=> at[Main].pc = "scan"
  /\ Booting' => Booting

\* A step of the code on the current stack that neither enters nor leaves the loop.
LEMMA QuietLocal ==
  ASSUME IInv, NEW a, at' = [at EXCEPT ![cur] = a], frames' = frames,
         UNCHANGED <<state, next, cur>>,
         a.pc = "scan" <=> at[cur].pc = "scan",
         a.pc \in BootPcs => at[cur].pc \in BootPcs
  PROVE  Quiet
<1>1. at \in [Stacks -> Points] /\ cur \in Stacks /\ Main \in Stacks
  BY NumAssumption DEF IInv, TypeOK, Stacks, Main
<1>2. CASE cur = Main
  <2>1. at'[Main] = a
    BY <1>1, <1>2, Zenon
  <2> QED  BY <1>2, <2>1, Zenon DEF Quiet, Booting
<1>3. CASE cur # Main
  <2>1. at'[Main] = at[Main]
    BY <1>1, <1>3, Zenon
  <2> QED  BY <2>1, Zenon DEF Quiet, Booting
<1> QED  BY <1>2, <1>3

\* Where an activity that has just started is.
LEMMA PointPc == \A pc : Point(pc).pc = pc
BY DEF Point, Activity

\* The steps within an activity.
LEMMA QuietSteps ==
  ASSUME IInv, Next,
         scheduler \/ sti \/ readeflags \/ OpenSection \/ CloseSection \/ sched \/ forkret
           \/ TrapDone \/ (TimerTrap /\ ~(proc # Main /\ state[proc] = "RUNNING"))
  PROVE  Quiet
<1>0. ~panic
  <2>1. IInv'
    BY NextIInv, Zenon
  <2> QED  BY <2>1, ZenonT(60) DEF IInv, SchedInv, panic
<1>1. CASE scheduler \/ sti
  <2>1. PICK pc \in {"loop", "idle"} : at' = [at EXCEPT ![cur] = Point(pc)]
    BY <1>1, Zenon DEF scheduler, sti, Goto
  <2>2. at[cur].pc # "scan" /\ frames' = frames /\ UNCHANGED <<state, next, cur>>
    BY <1>1, ZenonT(60) DEF scheduler, sti, Here
  <2>3. Point(pc).pc \notin BootPcs /\ Point(pc).pc # "scan"
    BY PointPc DEF BootPcs
  <2> QED  BY <2>1, <2>2, <2>3, QuietLocal, Zenon
<1>2. CASE readeflags \/ OpenSection \/ CloseSection
  <2>1. PICK n, v : at' = [at EXCEPT ![cur] = Activity(at[cur].pc, n, v)]
    BY <1>0, <1>2, Zenon DEF readeflags, OpenSection, CloseSection, PopcliThen
  <2>2. frames' = frames /\ UNCHANGED <<state, next, cur>>
    BY <1>0, <1>2, Zenon DEF readeflags, OpenSection, CloseSection, PopcliThen
  <2>3. Activity(at[cur].pc, n, v).pc = at[cur].pc
    BY DEF Activity
  <2> QED  BY <2>1, <2>2, <2>3, QuietLocal, Zenon
<1>3. CASE sched \/ forkret \/ TrapDone \/ (TimerTrap /\ ~(proc # Main /\ state[proc] = "RUNNING"))
  <2>1. at' = [at EXCEPT ![cur] = Point("trapret")]
    BY <1>0, <1>3, Zenon DEF sched, forkret, TrapDone, TimerTrap, PopcliThen, Goto
  <2>2. frames' = frames /\ UNCHANGED <<state, next, cur>>
    BY <1>0, <1>3, Zenon DEF sched, forkret, TrapDone, TimerTrap, PopcliThen
  <2>3. at[cur].pc # "scan"
    BY <1>3, ZenonT(60) DEF sched, forkret, TrapDone, TimerTrap, Here
  <2>4. Point("trapret").pc \notin BootPcs /\ Point("trapret").pc # "scan"
    BY PointPc DEF BootPcs
  <2> QED  BY <2>1, <2>2, <2>3, <2>4, QuietLocal, Zenon
<1> QED  BY <1>1, <1>2, <1>3, Zenon

\* main has at most one trap frame.
LEMMA MainFrames ==
  ASSUME IInv
  PROVE  /\ Main \in Stacks /\ frames[Main] \in Seq(Frame) /\ Len(frames[Main]) \in {0, 1}
         /\ Len(frames[Main]) = 1 => frames[Main][1].to.pc # "scan"
<1>1. Main \in Stacks
  BY NumAssumption DEF Stacks, Main
<1>2. frames[Main] \in Seq(Frame) /\ Len(frames[Main]) \in Nat
  BY <1>1 DEF IInv, TypeOK
<1>3. \A i \in 1..Len(frames[Main]) : FrameInv(Main, i, frames[Main][i])
  BY <1>1, Zenon DEF IInv, SchedInv, StackInv
<1>4. \A i \in 1..Len(frames[Main]) : i = 1 /\ frames[Main][i].to.pc # "scan"
  BY <1>3, ZenonT(60) DEF FrameInv
<1>5. Len(frames[Main]) \in 1..Len(frames[Main]) \/ Len(frames[Main]) = 0
  BY <1>2
<1>6. Len(frames[Main]) \in {0, 1}
  BY <1>4, <1>5, Zenon
<1>7. Len(frames[Main]) = 1 => 1 \in 1..Len(frames[Main])
  OBVIOUS
<1> QED  BY <1>1, <1>2, <1>4, <1>6, <1>7, Zenon

\* Trap entry and return keep what main was doing.
LEMMA QuietTraps ==
  ASSUME IInv, syscall \/ timer \/ device \/ trapret
  PROVE  Quiet
<1>0. /\ at \in [Stacks -> Points] /\ frames \in [Stacks -> Seq(Frame)] /\ cur \in Stacks
      /\ Main \in Stacks
  BY MainFrames, ZenonT(60) DEF IInv, TypeOK
<1>1. CASE syscall \/ timer \/ device
  <2>1. PICK pc \in {"sys", "timer", "device"} : Enter(pc)
    BY <1>1, Zenon DEF syscall, timer, device, Interrupt
  <2>2. UNCHANGED <<state, next>>
    BY <1>1, Zenon DEF syscall, timer, device, Interrupt
  <2>3. (IF at[cur].pc = "user" THEN esp0 ELSE cur) = cur
    BY CurLemma, Zenon DEF IInv, SchedInv
  <2>4. /\ frames' = [frames EXCEPT ![cur] = Append(@, [to |-> at[cur], iflag |-> iflag])]
        /\ at' = [at EXCEPT ![cur] = Point(pc)] /\ cur' = cur
    BY <2>1, <2>3, Zenon DEF Enter
  <2>5. Point(pc).pc \notin BootPcs /\ Point(pc).pc # "scan"
    BY PointPc DEF BootPcs
  <2>6. CASE cur # Main
    <3>1. at'[Main] = at[Main] /\ frames'[Main] = frames[Main]
      BY <1>0, <2>4, <2>6, Zenon
    <3> QED  BY <2>2, <2>4, <3>1, Zenon DEF Quiet, Booting
  <2>7. CASE cur = Main
    <3>1. at[Main].pc # "scan"
      <4>1. iflag = 1
        BY <1>1, <2>7, CurLemma DEF syscall, timer, device, Interrupt, Here
      <4> QED  BY <2>7, <4>1, CurLemma DEF CpuInv
    <3> DEFINE f == [to |-> at[Main], iflag |-> iflag]
    <3>2. at'[Main] = Point(pc) /\ frames'[Main] = Append(frames[Main], f)
      BY <1>0, <2>4, <2>7, Zenon
    <3>3. f.to = at[Main] /\ f \in Frame
      BY <1>0, CurLemma, ZenonT(60) DEF Frame
    <3> HIDE DEF f
    <3>4. frames'[Main][1] = IF Len(frames[Main]) > 0 THEN frames[Main][1] ELSE f
      BY <3>2, <3>3, MainFrames
    <3>5. Booting' => Booting
      BY <2>5, <3>2, <3>3, <3>4, Zenon DEF Booting
    <3> QED  BY <2>2, <2>4, <2>5, <3>1, <3>2, <3>5, Zenon DEF Quiet
  <2> QED  BY <2>6, <2>7
<1>2. CASE trapret
  <2> DEFINE fs == frames[cur]
  <2>1. /\ at' = [at EXCEPT ![cur] = fs[Len(fs)].to]
        /\ frames' = [frames EXCEPT ![cur] = SubSeq(@, 1, Len(@) - 1)]
        /\ UNCHANGED <<state, next, cur>> /\ at[cur].pc = "trapret"
    BY <1>2, Zenon DEF trapret, Here
  <2>2. CASE cur # Main
    <3>1. at'[Main] = at[Main] /\ frames'[Main] = frames[Main]
      BY <1>0, <2>1, <2>2, Zenon
    <3> QED  BY <2>1, <3>1, Zenon DEF Quiet, Booting
  <2>3. CASE cur = Main
    <3>1. Len(frames[Main]) = 1
      BY <2>1, <2>3, CurLemma, MainFrames DEF StackInv, DepthInv
    <3>2. at'[Main] = frames[Main][1].to
      BY <1>0, <2>1, <2>3, <3>1, Zenon
    <3>3. frames'[Main] = SubSeq(frames[Main], 1, 0)
      BY <1>0, <2>1, <2>3, <3>1
    <3>4. Len(frames'[Main]) = 0
      BY <3>1, <3>3, MainFrames
    <3>5. Len(frames[Main]) > 0 /\ ~(Len(frames'[Main]) > 0)
      BY <3>1, <3>4
    <3> QED  BY <2>1, <2>3, <3>1, <3>2, <3>5, MainFrames, ZenonT(60) DEF Quiet, Booting
  <2> QED  BY <2>2, <2>3
<1> QED  BY <1>1, <1>2

\* While the loop runs no process does, and while main waits for one it is in the loop.
LEMMA LoopLemma ==
  ASSUME IInv
  PROVE  /\ at[cur].pc \in BootPcs \cup {"idle", "scan"} => cur = Main /\ ~(Len(frames[Main]) > 0)
         /\ cur = Main => \A q \in Procs : state[q] # "RUNNING"
         /\ cur # Main => at[Main].pc = "scan" /\ proc = cur /\ cur \in Procs
<1>1. at[cur].pc \in BootPcs \cup {"idle", "scan"} => cur = Main /\ DepthInv(at[cur].pc, Len(frames[cur]))
  BY CurLemma, ZenonT(60) DEF StackInv, BootPcs
<1>2. at[cur].pc \in BootPcs \cup {"idle", "scan"} => Len(frames[cur]) = 0
  BY <1>1 DEF DepthInv, BootPcs
<1>3. Main \notin Procs /\ \A s \in Stacks : s # Main => s \in Procs
  BY NumAssumption DEF Stacks, Procs, Main
<1>4. ~(0 > 0)
  OBVIOUS
<1> QED  BY <1>1, <1>2, <1>3, <1>4, CurLemma, Zenon DEF IInv, SchedInv

\* Without a switch away from main nobody's turn is recorded.
LEMMA TurnKept ==
  ASSUME TurnInv, TurnsNext, ~(cur = Main /\ cur' # Main)
  PROVE  passed' = passed
<1>1. \A q : ~Dispatches(q)
  BY Zenon DEF Dispatches
<1>2. \A q \in Procs : passed[q] \cup {p \in Procs : Dispatches(p)} = passed[q]
  BY <1>1, Zenon
<1>3. passed' = [q \in Procs |-> passed[q]]
  BY <1>1, <1>2, Zenon DEF TurnsNext
<1> QED  BY <1>3, Zenon DEF TurnInv

\* A step that is not about turns keeps the invariant.
LEMMA QuietTurn ==
  ASSUME TurnInv, Quiet, passed' = passed
  PROVE  TurnInv'
<1>1. \A q, r : Behind(q, r)' <=> Behind(q, r)
  BY Zenon DEF Behind, Quiet
<1> QED  BY <1>1, Zenon DEF TurnInv, Quiet

\* pinit and allocproc run before anyone has had a turn.
LEMMA BootTurn ==
  ASSUME IInv, TurnInv, pinit \/ allocproc, passed' = passed
  PROVE  TurnInv'
<1>1. at[cur].pc \in BootPcs
  BY ZenonT(60) DEF pinit, allocproc, Here, BootPcs
<1>2. Booting
  BY <1>1, LoopLemma, Zenon DEF Booting
<1>3. \A q \in Procs : passed'[q] = {}
  BY <1>2, Zenon DEF TurnInv
<1>4. \A q \in Procs : state'[q] # "RUNNING"
  <2>1. state \in [Procs -> States] /\ \A q \in Procs : state[q] # "RUNNING"
    BY <1>1, LoopLemma, Zenon DEF IInv, TypeOK
  <2>2. \E p \in Procs, v \in {"EMBRYO", "RUNNABLE"} : state' = [state EXCEPT ![p] = v]
    BY ZenonT(60) DEF pinit, allocproc, First
  <2> QED  BY <2>1, <2>2
<1> QED  BY <1>3, <1>4, Zenon DEF TurnInv

\* The scan starts at ptable.proc: who is behind is behind in the table.
LEMMA StartTurn ==
  ASSUME IInv, TurnInv, StartScan, passed' = passed
  PROVE  TurnInv'
<1>1. /\ at[cur].pc = "idle" /\ at' = [at EXCEPT ![cur] = Point("scan")]
      /\ next' = 1 /\ UNCHANGED <<state, frames>>
  BY Zenon DEF StartScan, Here, Goto
<1>2. cur = Main /\ ~(Len(frames[Main]) > 0) /\ \A q \in Procs : state[q] # "RUNNING"
  BY <1>1, LoopLemma, Zenon
<1>3. at'[Main].pc = "scan"
  BY <1>1, <1>2, MainFrames, PointPc, ZenonT(60) DEF IInv, TypeOK
<1>4. ~Booting'
  BY <1>1, <1>2, <1>3, ZenonT(60) DEF Booting, BootPcs
<1>5. \A q \in Procs : \A r : Behind(q, r) => Behind(q, r)'
  BY <1>1, <1>2, <1>3 DEF Behind, Procs
<1> QED  BY <1>1, <1>2, <1>4, <1>5, Zenon DEF TurnInv

\* The scan ends when it has come past every RUNNABLE process.
LEMMA EndTurn ==
  ASSUME IInv, IInv', TurnInv, EndScan, passed' = passed
  PROVE  TurnInv'
<1>0. ~panic
  BY DEF IInv, SchedInv, panic
<1>1. /\ at[cur].pc = "scan" /\ at' = [at EXCEPT ![cur] = Point("loop")]
      /\ UNCHANGED <<state, next, frames>>
  BY <1>0, Zenon DEF EndScan, Here, PopcliThen
<1>2. cur = Main /\ ~(Len(frames[Main]) > 0) /\ \A q \in Procs : state[q] # "RUNNING"
  BY <1>1, LoopLemma, Zenon
<1>3. at'[Main].pc = "loop"
  BY <1>1, <1>2, MainFrames, PointPc DEF IInv, TypeOK
<1>4. ~Booting'
  BY <1>1, <1>2, <1>3, ZenonT(60) DEF Booting, BootPcs
<1>5. ASSUME NEW q \in Procs, state[q] = "RUNNABLE", NEW r, Behind(q, r)
      PROVE  Behind(q, r)'
  <2>1. ~(q >= next)
    BY <1>5, Zenon DEF EndScan, Runnable
  <2>2. q < next
    BY <2>1 DEF IInv, TypeOK, Procs
  <2>3. q < r
    BY <1>1, <1>2, <1>5, <2>2, Zenon DEF Behind
  <2> QED  BY <1>3, <2>3 DEF Behind
<1> QED  BY <1>1, <1>2, <1>4, <1>5, Zenon DEF TurnInv

\* Who yields waits behind the loop variable, with nobody dispatched since.
LEMMA YieldTurn ==
  ASSUME IInv, TurnInv, yield, proc # Main, state[proc] = "RUNNING", passed' = passed
  PROVE  TurnInv'
<1>1. cur # Main /\ cur = proc /\ proc \in Procs
  <2>1. proc \in Procs
    BY DEF IInv, TypeOK, Stacks, Procs, Main
  <2>2. \A p \in Procs : state[p] = "RUNNING" => cur = p
    BY DEF IInv, SchedInv
  <2> QED  BY <2>1, <2>2, Zenon
<1>2. /\ at'[Main] = at[Main] /\ UNCHANGED <<frames, next>>
      /\ state' = [state EXCEPT ![proc] = "RUNNABLE"] /\ state \in [Procs -> States]
  <2>1. at' = at \/ at' = [at EXCEPT ![cur] = Activity("sched", 0, intena')]
    BY Zenon DEF yield
  <2>2. at'[Main] = at[Main]
    BY <1>1, <2>1, MainFrames, Zenon DEF IInv, TypeOK
  <2> QED  BY <1>1, <2>2, Zenon DEF yield, IInv, TypeOK
<1>3. passed[proc] = {}
  BY <1>1, Zenon DEF TurnInv
<1>4. Booting' <=> Booting
  BY <1>2, Zenon DEF Booting
<1>5. \A q, r : Behind(q, r)' <=> Behind(q, r)
  BY <1>2, Zenon DEF Behind
<1>6. \A q \in Procs : q # proc => state'[q] = state[q]
  BY <1>2, Zenon
<1>7. state'[proc] = "RUNNABLE"
  BY <1>1, <1>2, Zenon
<1>8. \A q \in Procs : state'[q] = "RUNNING" => state[q] = "RUNNING"
  BY <1>6, <1>7
<1>9. ASSUME NEW q \in Procs, state'[q] = "RUNNABLE", NEW r \in passed[q]
      PROVE  Behind(q, r)
  <2>1. q # proc /\ state[q] = "RUNNABLE"
    BY <1>3, <1>6, <1>9, Zenon
  <2> QED  BY <2>1, <1>9, Zenon DEF TurnInv
<1> QED  BY <1>2, <1>4, <1>5, <1>8, <1>9, Zenon DEF TurnInv

\* The process that Dispatch finds is the first from the loop variable on.
LEMMA DispatchFacts ==
  ASSUME IInv, Dispatch
  PROVE  \E p \in Procs :
           /\ cur = Main /\ cur' = p /\ p # Main /\ proc' = p /\ next' = p + 1
           /\ at[Main].pc = "scan" /\ at' = at /\ frames' = frames /\ next <= p
           /\ state' = [state EXCEPT ![p] = "RUNNING"]
           /\ \A q \in Procs : state[q] = "RUNNABLE" /\ next <= q => p <= q
<1>1. /\ at[cur].pc = "scan" /\ UNCHANGED <<at, frames>>
  BY Zenon DEF Dispatch, Here
<1>2. PICK p \in First(Runnable) :
        /\ proc' = p /\ next' = p + 1 /\ cur' = context[p]
        /\ state' = [state EXCEPT ![p] = "RUNNING"]
  BY Zenon DEF Dispatch, swtch
<1>3. p \in Procs /\ p >= next /\ state[p] = "RUNNABLE"
  BY <1>2, Zenon DEF First, Runnable
<1>4. \A q \in Procs : q >= next /\ state[q] = "RUNNABLE" => p <= q
  BY <1>2, Zenon DEF First, Runnable
<1>5. context[p] = p
  BY <1>3, Zenon DEF IInv, SchedInv, WaitInv
<1>6. p # Main /\ next <= p /\ \A q \in Procs : next <= q => q >= next
  BY <1>3 DEF IInv, TypeOK, Procs, Main
<1>7. cur = Main
  BY <1>1, LoopLemma, ZenonT(60)
<1> QED  BY <1>1, <1>2, <1>3, <1>4, <1>5, <1>6, <1>7, Zenon

\* Arithmetic of the loop: what is behind q stays there, and so does p.
LEMMA BehindDispatch ==
  ASSUME IInv, at[Main].pc = "scan", at' = at,
         NEW p \in Procs, next <= p, next' = p + 1,
         NEW q \in Procs, q # p, next <= q => p <= q,
         NEW r \in Procs, r = p \/ Behind(q, r)
  PROVE  Behind(q, r)'
<1>1. p \in Int /\ q \in Int /\ r \in Int /\ next \in Int
  BY DEF IInv, TypeOK, Procs
<1>2. r = p \/ (IF q < next THEN q < r /\ r < next ELSE r < next \/ q < r)
  BY Zenon DEF Behind
<1>3. IF q < p + 1 THEN q < r /\ r < p + 1 ELSE r < p + 1 \/ q < r
  BY <1>1, <1>2
<1> QED  BY <1>3, Zenon DEF Behind

\* Dispatch moves the loop past the process that it runs.
LEMMA DispatchTurn ==
  ASSUME IInv, TurnInv, TurnsNext, Dispatch
  PROVE  TurnInv'
<1>1. PICK p \in Procs :
           /\ cur = Main /\ cur' = p /\ p # Main /\ proc' = p /\ next' = p + 1
           /\ at[Main].pc = "scan" /\ at' = at /\ frames' = frames /\ next <= p
           /\ state' = [state EXCEPT ![p] = "RUNNING"]
           /\ \A q \in Procs : state[q] = "RUNNABLE" /\ next <= q => p <= q
  BY DispatchFacts, Zenon
<1>2. \A q : Dispatches(q) <=> q = p
  BY <1>1, Zenon DEF Dispatches
<1>3. {q \in Procs : Dispatches(q)} = {p}
  BY <1>2, Zenon
<1>4. passed' = [q \in Procs |-> IF Dispatches(q) THEN {} ELSE passed[q] \cup {p}]
  BY <1>3, Zenon DEF TurnsNext
<1>5. passed'[p] = {} /\ \A q \in Procs : q # p => passed'[q] = passed[q] \cup {p}
  BY <1>2, <1>4, Zenon
<1>6. passed' \in [Procs -> SUBSET Procs]
  <2>1. \A q \in Procs : passed[q] \in SUBSET Procs
    BY Zenon DEF TurnInv
  <2>2. \A q \in Procs : (IF Dispatches(q) THEN {} ELSE passed[q] \cup {p}) \in SUBSET Procs
    BY <2>1, Zenon
  <2> QED  BY <1>4, <2>2, Zenon
<1>7. ~Booting'
  <2>1. ~(Len(frames[Main]) > 0)
    BY <1>1, LoopLemma, Zenon
  <2> QED  BY <1>1, <2>1, ZenonT(60) DEF Booting, BootPcs
<1>8. state \in [Procs -> States] /\ \A q \in Procs : state[q] # "RUNNING"
  BY <1>1, LoopLemma, Zenon DEF IInv, TypeOK
<1>9. ASSUME NEW q \in Procs, state'[q] = "RUNNING"
      PROVE  q < next' /\ passed'[q] = {}
  <2>1. q = p
    BY <1>1, <1>8, <1>9, Zenon
  <2> QED  BY <1>1, <1>5, <2>1 DEF Procs
<1>10. ASSUME NEW q \in Procs, state'[q] = "RUNNABLE", NEW r \in passed'[q]
       PROVE  Behind(q, r)'
  <2>1. q # p
    BY <1>5, <1>10, Zenon
  <2>2. state[q] = "RUNNABLE" /\ r \in passed[q] \cup {p} /\ r \in Procs
    BY <1>1, <1>5, <1>6, <1>8, <1>10, <2>1, Zenon
  <2>3. r = p \/ Behind(q, r)
    BY <2>2, Zenon DEF TurnInv
  <2>4. next <= q => p <= q
    BY <1>1, <2>2, Zenon
  <2> QED  BY <1>1, <2>1, <2>2, <2>3, <2>4, BehindDispatch, Zenon
<1> QED  BY <1>6, <1>7, <1>9, <1>10, Zenon DEF TurnInv

\* The steps by what they do to turns: only Dispatch switches away from main.
LEMMA TurnKinds ==
  ASSUME IInv, Next
  PROVE  \/ Dispatch
         \/ (StartScan \/ EndScan \/ pinit \/ allocproc) /\ cur' = cur
         \/ yield /\ proc # Main /\ state[proc] = "RUNNING" /\ cur # Main
         \/ Quiet
<1>1. CASE StartScan \/ pinit \/ allocproc
  BY <1>1, Zenon DEF StartScan, pinit, allocproc
<1>2. CASE EndScan
  BY <1>2, Zenon DEF EndScan, PopcliThen, panic
<1>3. CASE TimerTrap /\ proc # Main /\ state[proc] = "RUNNING"
  <2>1. yield
    BY <1>3, Zenon DEF TimerTrap
  <2>2. cur # Main
    <3>1. proc \in Procs /\ Main \notin Procs
      BY <1>3 DEF IInv, TypeOK, Stacks, Procs, Main
    <3>2. \A p \in Procs : state[p] = "RUNNING" => cur = p
      BY ZenonT(60) DEF IInv, SchedInv
    <3> QED  BY <1>3, <3>1, <3>2, Zenon
  <2> QED  BY <1>3, <2>1, <2>2, Zenon
<1>4. CASE syscall \/ timer \/ device \/ trapret
  BY <1>4, QuietTraps, Zenon
<1>5. CASE scheduler \/ sti \/ readeflags \/ OpenSection \/ CloseSection \/ sched \/ forkret
             \/ TrapDone \/ (TimerTrap /\ ~(proc # Main /\ state[proc] = "RUNNING"))
  BY <1>5, QuietSteps, Zenon
<1> QED  BY <1>1, <1>2, <1>3, <1>4, <1>5, Zenon DEF Next, Step, MainStep

\* The two invariants together, over Sched with its history of turns.
LEMMA TurnsInv == TurnsSpec => [](IInv /\ TurnInv)
<1>1. TurnsInit => IInv /\ TurnInv
  <2> SUFFICES ASSUME TurnsInit PROVE TurnInv
    BY InitIInv, Zenon DEF TurnsInit
  <2>1. passed = [p \in Procs |-> {}] /\ state = [p \in Procs |-> "UNUSED"]
    BY Zenon DEF TurnsInit, Init
  <2>2. \A q \in Procs : passed[q] = {} /\ state[q] # "RUNNING"
    BY <2>1
  <2>3. passed \in [Procs -> SUBSET Procs]
    BY <2>1, Zenon
  <2> QED  BY <2>2, <2>3, Zenon DEF TurnInv
<1>2. IInv /\ TurnInv /\ [TurnsNext]_<<vars, passed>> => (IInv /\ TurnInv)'
  <2> SUFFICES ASSUME IInv, TurnInv, [TurnsNext]_<<vars, passed>> PROVE IInv' /\ TurnInv'
    BY Zenon
  <2>1. CASE TurnsNext
    <3>1. Next
      BY <2>1, Zenon DEF TurnsNext
    <3>2. IInv'
      BY <3>1, NextIInv, Zenon
    <3>3. CASE Dispatch
      BY <2>1, <3>2, <3>3, DispatchTurn, Zenon
    <3>4. CASE ~Dispatch
      <4>1. passed' = passed
        BY <2>1, <3>1, <3>4, TurnKinds, TurnKept, Zenon DEF Quiet
      <4>2. TurnInv'
        BY <3>1, <3>2, <3>4, <4>1, TurnKinds, StartTurn, EndTurn, BootTurn, YieldTurn,
           QuietTurn, Zenon
      <4> QED  BY <3>2, <4>2, Zenon
    <3> QED  BY <3>3, <3>4, Zenon
  <2>2. CASE UNCHANGED <<vars, passed>>
    <3>1. UNCHANGED vars
      BY <2>2, Zenon
    <3>2. IInv'
      BY <3>1, NextIInv, Zenon
    <3>3. Quiet /\ passed' = passed
      BY <2>2, Zenon DEF Quiet, Booting, vars
    <3> QED  BY <3>2, <3>3, QuietTurn, Zenon
  <2> QED  BY <2>1, <2>2, Zenon
<1> QED  BY <1>1, <1>2, PTL DEF TurnsSpec

\* The step that RoundRobin speaks of.
Turn ==
  \A p \in Procs : Dispatches(p) =>
    \A q \in Procs \ {p} : state[q] = "RUNNABLE" => p \notin passed[q]

\* A step of the scheduler keeps to the round.
LEMMA TurnStep ==
  ASSUME IInv, TurnInv, TurnsNext
  PROVE  Turn
<1> SUFFICES ASSUME NEW p \in Procs, Dispatches(p),
                    NEW q \in Procs \ {p}, state[q] = "RUNNABLE", p \in passed[q]
             PROVE  FALSE
  BY Zenon DEF Turn
<1>1. Next
  BY Zenon DEF TurnsNext
<1>2. Dispatch
  BY <1>1, TurnKinds, Zenon DEF Dispatches, Quiet
<1>3. proc' = p
  BY Zenon DEF Dispatches
<1>4. at[Main].pc = "scan" /\ next <= p /\ (next <= q => p <= q)
  BY <1>2, <1>3, DispatchFacts, Zenon
<1>5. Behind(q, p)
  BY Zenon DEF TurnInv
<1>6. IF q < next THEN q < p /\ p < next ELSE p < next \/ q < p
  BY <1>4, <1>5, Zenon DEF Behind
<1>7. p \in Int /\ q \in Int /\ next \in Int
  BY DEF IInv, TypeOK, Procs
<1> QED  BY <1>4, <1>6, <1>7

\* Round robin for every size of the table: since a waiting process had its turn, none
\* that Dispatch comes to has had one.
THEOREM TurnsCorrect == TurnsSpec => RoundRobin
<1>1. IInv /\ TurnInv /\ [TurnsNext]_<<vars, passed>> => [Turn]_<<vars, passed>>
  BY TurnStep, Zenon
<1>2. RoundRobin <=> [][Turn]_<<vars, passed>>
  BY PTL DEF RoundRobin, Turn
<1> QED  BY <1>1, <1>2, TurnsInv, PTL DEF TurnsSpec
==============================================================================
