------------------------------ MODULE SchedTurns ------------------------------
(***************************************************************************)
(* Sched with a history variable that remembers whose turn it has been, to *)
(* state that the scheduler is round robin (p18-sched.md).                 *)
(***************************************************************************)
EXTENDS Sched

VARIABLE passed     \* passed[q]: the processes dispatched since q last was

TurnsInit ==
  /\ Init
  /\ passed = [p \in Procs |-> {}]

Dispatches(p) == proc' = p /\ cur = Main /\ cur' # Main

TurnsNext ==
  /\ Next
  /\ passed' = [q \in Procs |->
                  IF Dispatches(q) THEN {}
                  ELSE passed[q] \cup {p \in Procs : Dispatches(p)}]

TurnsSpec == TurnsInit /\ [][TurnsNext]_<<vars, passed>>

FairTurnsSpec == TurnsSpec /\ Fairness

\* The scheduler goes round: it never gives a process a second turn while another
\* one that has been RUNNABLE all the time is still waiting for its own.
RoundRobin ==
  [][\A p \in Procs : Dispatches(p) =>
       \A q \in Procs \ {p} : state[q] = "RUNNABLE" => p \notin passed[q]]_<<vars, passed>>
==============================================================================
