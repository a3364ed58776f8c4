---------------------------- MODULE Transactions ----------------------------
(***************************************************************************)
(* What log.c promises its callers, in the words of its header comment:    *)
(* the updates made between begin_op and end_op become durable all         *)
(* together, when the last outstanding operation ends, and a crash takes   *)
(* the disk back to what was durable.                                      *)
(*   durable[b]   what block b holds after a crash and a recovery;         *)
(*   current[b]   what a bread of block b returns now;                     *)
(*   active       the threads between begin_op and the end of end_op.      *)
(***************************************************************************)
CONSTANTS Home,     \* the blocks the file system keeps outside the log
          Val,      \* what such a block can hold
          Threads

VARIABLES durable, current, active

vars == <<durable, current, active>>

Init ==
  /\ durable \in [Home -> Val]
  /\ current = durable
  /\ active = {}

Begin(t) ==
  /\ t \notin active
  /\ active' = active \cup {t}
  /\ UNCHANGED <<durable, current>>

Write(t, b, v) ==
  /\ t \in active
  /\ current' = [current EXCEPT ![b] = v]
  /\ UNCHANGED <<durable, active>>

End(t) ==
  /\ t \in active
  /\ active' = active \ {t}
  /\ durable' = IF active' = {} THEN current ELSE durable
  /\ UNCHANGED current

Crash ==
  /\ current' = durable
  /\ active' = {}
  /\ UNCHANGED durable

Next ==
  \/ \E t \in Threads : Begin(t) \/ End(t)
  \/ \E t \in Threads, b \in Home, v \in Val : Write(t, b, v)
  \/ Crash

Spec == Init /\ [][Next]_vars
==============================================================================
