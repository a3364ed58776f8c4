------------------------------- MODULE BufIde -------------------------------
(***************************************************************************)
(* bread, bwrite and brelse called by several processes, over the disk     *)
(* queue and the interrupt handler of ide.c.                               *)
(*                                                                         *)
(* The sections between pushcli and popcli, and ideintr, are one step      *)
(* each (see Sched); everything else interleaves.  The queue is what it is *)
(* in the code: idequeue and the qnext fields, which a buffer that is      *)
(* queued twice can turn into a cycle.                                     *)
(*                                                                         *)
(* The disk itself is external: it executes one command at a time, then    *)
(* raises its interrupt; where Errors, a read may fail.                    *)
(***************************************************************************)
EXTENDS Bio

CONSTANTS Proc,
          Val,          \* what a block may hold
          Shared,       \* may two processes use the same block at a time?
          Errors        \* may the disk report an error?

ASSUME FlagsAssumption == Shared \in BOOLEAN /\ Errors \in BOOLEAN

Null == 0               \* no struct buf

VARIABLES bc, disk,
          idequeue, qnext,
          cmd,          \* the disk's command
          irq,          \* the disk's interrupt is pending
          pc, buf,      \* where each process is, and its buffer
          stopped       \* "no", or what the kernel panicked or hangs with

vars == <<bc, disk, idequeue, qnext, cmd, irq, pc, buf, stopped>>

Command(op, b, d, busy) == [op |-> op, block |-> b, data |-> d, busy |-> busy]

Init ==
  /\ bc = binit
  /\ disk \in [BlockNo -> Val]
  /\ idequeue = Null /\ qnext = [v \in Bufs |-> Null]
  /\ cmd = Command("none", NoBlock, NoData, FALSE) /\ irq = FALSE
  /\ pc = [p \in Proc |-> "idle"] /\ buf = [p \in Proc |-> Null]
  /\ stopped = "no"

Here(p, l) == stopped = "no" /\ pc[p] = l

Goto(p, l) == pc' = [pc EXCEPT ![p] = l]

------------------------------------------------------------------------------
(* The disk.                                                               *)

\* What is on the disk once the command c is done.
Finished(c) ==
  IF c.busy /\ c.op = "write" THEN [disk EXCEPT ![c.block] = c.data] ELSE disk

\* The disk is done with its command.
DiskDone ==
  /\ stopped = "no" /\ cmd.busy
  /\ disk' = Finished(cmd)
  /\ cmd' = [cmd EXCEPT !.busy = FALSE]
  /\ irq' = TRUE
  /\ UNCHANGED <<bc, idequeue, qnext, pc, buf, stopped>>

\* idestart(v), with c for the cache.  idewait lets a command that still runs
\* come to its end first.
idestart(c, v) ==
  /\ disk' = Finished(cmd)
  /\ cmd' = IF Dirty(c, v)
            THEN Command("write", c.buf[v].blockno, c.buf[v].data, TRUE)
            ELSE Command("read", c.buf[v].blockno, NoData, TRUE)

\* What insl finds in the disk's data register.
DataRead == IF cmd.op = "read" THEN disk[cmd.block] ELSE NoData

------------------------------------------------------------------------------
(* ide.c                                                                   *)

\* The flags of buffer v after ideintr.
IntrFlags(v) == (bc.buf[v].flags \cup {B_VALID}) \ {B_DIRTY}

\* Mutant: the pending request is completed but the next one not started.
ideintrNoRestart ==
  /\ stopped = "no" /\ irq
  /\ IF idequeue = Null
     THEN /\ irq' = FALSE
          /\ UNCHANGED <<bc, disk, idequeue, cmd>>
     ELSE LET v == idequeue IN
          /\ idequeue' = qnext[v]
          /\ \E ok \in {TRUE} \cup {~Errors} :
               bc' = Put(bc, v, [bc.buf[v] EXCEPT
                           !.data = IF ~Dirty(bc, v) /\ ok THEN DataRead ELSE @,
                           !.flags = IntrFlags(v)])
          /\ irq' = FALSE
          /\ UNCHANGED <<disk, cmd>>
  /\ UNCHANGED <<qnext, pc, buf, stopped>>

\* The interrupt handler.
ideintr ==
  /\ stopped = "no" /\ irq
  /\ IF idequeue = Null
     THEN /\ irq' = FALSE
          /\ UNCHANGED <<bc, disk, idequeue, cmd>>
     ELSE LET v == idequeue IN
          /\ idequeue' = qnext[v]
          /\ \E ok \in {TRUE} \cup {~Errors} :
               bc' = Put(bc, v, [bc.buf[v] EXCEPT
                           !.data = IF ~Dirty(bc, v) /\ ok THEN DataRead ELSE @,
                           !.flags = IntrFlags(v)])
          /\ IF idequeue' # Null
             THEN idestart(bc', idequeue') /\ irq' = cmd.busy
             ELSE irq' = FALSE /\ UNCHANGED <<disk, cmd>>
  /\ UNCHANGED <<qnext, pc, buf, stopped>>

\* The n-th pointer on the way from q along qn; the way does not end if the
\* one after all the buffers is not null.
Walk(q, qn) ==
  LET w[n \in 0..NBUF] ==
        IF n = 0 THEN q ELSE IF w[n - 1] = Null THEN Null ELSE qn[w[n - 1]]
  IN  w

\* Where the loop of iderw stops.
Last(q, qn) ==
  CHOOSE v \in Bufs : qn[v] = Null /\ \E n \in 0..NBUF : Walk(q, qn)[n] = v

stop(what) ==
  /\ stopped' = what
  /\ UNCHANGED <<bc, disk, idequeue, qnext, cmd, irq, pc, buf>>

\* iderw up to popcli.
iderw(p) ==
  LET v == buf[p]
      qn == [qnext EXCEPT ![v] = Null]
  IN  /\ Here(p, "iderw")
      /\ \/ /\ Valid(bc, v) /\ ~Dirty(bc, v)
            /\ stop("iderw: nothing to do")
         \/ /\ ~(Valid(bc, v) /\ ~Dirty(bc, v))
            /\ Walk(idequeue, qn)[NBUF] # Null     \* the loop never ends
            /\ stop("hung")
         \/ /\ ~(Valid(bc, v) /\ ~Dirty(bc, v))
            /\ Walk(idequeue, qn)[NBUF] = Null
            /\ IF idequeue = Null
               THEN idequeue' = v /\ qnext' = qn
               ELSE /\ qnext' = [qn EXCEPT ![Last(idequeue, qn)] = v]
                    /\ UNCHANGED idequeue
            /\ IF idequeue' = v
               THEN idestart(bc, v) /\ irq' = (irq \/ cmd.busy)
               ELSE UNCHANGED <<disk, cmd, irq>>
            /\ Goto(p, "wait")
            /\ UNCHANGED <<bc, buf, stopped>>

\* The end of iderw's busy wait.
waited(p) ==
  /\ Here(p, "wait")
  /\ Valid(bc, buf[p]) /\ ~Dirty(bc, buf[p])
  /\ Goto(p, "have")
  /\ UNCHANGED <<bc, disk, idequeue, qnext, cmd, irq, buf, stopped>>

------------------------------------------------------------------------------
(* bio.c                                                                   *)

\* The blocks that process p holds, or is about to.
Uses(p) == IF buf[p] = Null THEN {} ELSE {bc.buf[buf[p]].blockno}

\* bget, called by bread.
bget(p, b) ==
  /\ Here(p, "idle")
  /\ Shared \/ \A q \in Proc \ {p} : b \notin Uses(q)
  /\ \/ NoBuffers(bc, b) /\ stop("bget: no buffers")
     \/ \E v \in Bufs :
          /\ ~NoBuffers(bc, b) /\ Bget(bc, b, v)
          /\ bc' = [AfterBget(bc, b, v) EXCEPT !.buf[v].data = bc.buf[v].data]
          /\ buf' = [buf EXCEPT ![p] = v]
          /\ Goto(p, "bread")
          /\ UNCHANGED <<disk, idequeue, qnext, cmd, irq, stopped>>

\* bread looks at B_VALID.
bread(p) ==
  /\ Here(p, "bread")
  /\ Goto(p, IF Valid(bc, buf[p]) THEN "have" ELSE "iderw")
  /\ UNCHANGED <<bc, disk, idequeue, qnext, cmd, irq, buf, stopped>>

\* The caller stores into b->data ...
store(p, d) ==
  /\ Here(p, "have")
  /\ bc' = SetData(bc, buf[p], d)
  /\ Goto(p, "stored")
  /\ UNCHANGED <<disk, idequeue, qnext, cmd, irq, buf, stopped>>

\* Mutant: bwrite does not set B_DIRTY.
bwriteClean(p) ==
  /\ Here(p, "stored")
  /\ Goto(p, "iderw")
  /\ UNCHANGED <<bc, disk, idequeue, qnext, cmd, irq, buf, stopped>>

\* ... and calls bwrite.
bwrite(p) ==
  /\ Here(p, "stored")
  /\ bc' = SetDirty(bc, buf[p])
  /\ Goto(p, "iderw")
  /\ UNCHANGED <<disk, idequeue, qnext, cmd, irq, buf, stopped>>

\* Mutant: the caller releases the buffer twice.
releaseTwice(p) ==
  /\ Here(p, "have")
  /\ bc' = brelse(brelse(bc, buf[p]), buf[p])
  /\ buf' = [buf EXCEPT ![p] = Null]
  /\ Goto(p, "idle")
  /\ UNCHANGED <<disk, idequeue, qnext, cmd, irq, stopped>>

\* brelse.
release(p) ==
  /\ Here(p, "have")
  /\ bc' = brelse(bc, buf[p])
  /\ buf' = [buf EXCEPT ![p] = Null]
  /\ Goto(p, "idle")
  /\ UNCHANGED <<disk, idequeue, qnext, cmd, irq, stopped>>

------------------------------------------------------------------------------

Progress(p) == bread(p) \/ bwrite(p) \/ iderw(p) \/ waited(p)

Next ==
  \/ DiskDone \/ ideintr
  \/ \E p \in Proc :
       \/ Progress(p) \/ release(p)
       \/ \E b \in BlockNo : bget(p, b)
       \/ \E d \in Val : store(p, d)

Spec == Init /\ [][Next]_vars

\* The disk finishes its commands, its interrupt is delivered, and every process
\* gets the CPU again and again (NoStarvation of Sched).
FairSpec ==
  /\ Spec
  /\ WF_vars(DiskDone) /\ WF_vars(ideintr)
  /\ \A p \in Proc : WF_vars(Progress(p))

------------------------------------------------------------------------------
(* Properties.                                                             *)

Queued == {Walk(idequeue, qnext)[n] : n \in 0..NBUF} \ {Null}

\* The types of the variables.
TypeOK ==
  /\ bc \in BcacheType(Val) /\ disk \in [BlockNo -> Val]
  /\ idequeue \in Bufs \cup {Null} /\ qnext \in [Bufs -> Bufs \cup {Null}]
  /\ cmd \in [op : {"none", "read", "write"}, block : BlockNo \cup {NoBlock},
              data : Val \cup {NoData}, busy : BOOLEAN]
  /\ irq \in BOOLEAN
  /\ pc \in [Proc -> {"idle", "bread", "iderw", "wait", "have", "stored"}]
  /\ buf \in [Proc -> Bufs \cup {Null}]
  /\ stopped \in {"no", "bget: no buffers", "iderw: nothing to do", "hung"}

\* The disk queue is a list that holds exactly the buffers whose requests are not
\* done yet, and the disk works for its head: on its block, and with its data.
QueueOK ==
  /\ Walk(idequeue, qnext)[NBUF] = Null
  /\ Queued = {v \in Bufs : \E p \in Proc :
                 buf[p] = v /\ pc[p] = "wait" /\ (~Valid(bc, v) \/ Dirty(bc, v))}
  /\ idequeue # Null =>
       /\ cmd.busy # irq
       /\ cmd.block = bc.buf[idequeue].blockno
       /\ IF Dirty(bc, idequeue)
          THEN cmd.op = "write" /\ cmd.data = bc.buf[idequeue].data
          ELSE cmd.op = "read"
  /\ idequeue = Null => ~cmd.busy /\ ~irq

\* Whoever has come out of bread or bwrite holds the contents of the block on the
\* disk (bio.c:85), whichever buffer was recycled and however the requests of the
\* other processes interleaved.
HoldsDisk ==
  \A p \in Proc :
    pc[p] = "have" => bc.buf[buf[p]].data = disk[bc.buf[buf[p]].blockno]

\* No panic, and no endless loop with interrupts off.
NotStopped == stopped = "no"

\* Every request is finished: iderw's wait comes to an end (p20-locks.md).
RequestsEnd == \A p \in Proc : pc[p] \in {"iderw", "wait"} ~> pc[p] = "have"
==============================================================================
