------------------------------- MODULE NameSpace -------------------------------
(***************************************************************************)
(* What the file system promises to its callers: a tree of named nodes,    *)
(* and nodes that stay while they are in use.  Blocks, the bitmap, link    *)
(* counts and the caches do not appear.                                    *)
(***************************************************************************)
EXTENDS Integers, Sequences, FiniteSets, Functions

CONSTANTS Ids, Root,
          MaxChunk   \* the most cells that one step writes

VARIABLES type,      \* the type of each node, or "free"
          entries,   \* the names in a directory, and the nodes they stand for
          cells,     \* the content of a file
          held       \* the nodes that are in use

vars == <<type, entries, cells, held>>

Dirs == {i \in Ids : type[i] = "T_DIR"}

\* A node that the root or another directory leads to.
Named(i) == i = Root \/ \E d \in Dirs : i \in Range(entries[d])

Init ==
  /\ Root \in Dirs
  /\ \A i \in Ids : type[i] # "free" => Named(i)
  /\ held = {}

\* A new node under a new name, which its maker may go on to use.
Make(d, n, i) ==
  /\ type[i] = "free" /\ i \notin held /\ type'[i] \in {"T_DIR", "T_FILE", "T_DEV"}
  /\ held' \in {held, held \cup {i}}
  /\ d \in Dirs /\ Named(d) /\ n \notin DOMAIN entries[d]
  /\ type' = [type EXCEPT ![i] = type'[i]]
  /\ entries' = [entries EXCEPT ![d] = [m \in DOMAIN @ \cup {n} |-> IF m = n THEN i ELSE @[m]],
                                ![i] = <<>>]
  /\ cells' = [cells EXCEPT ![i] = <<>>]

\* The nodes of the set S are gone.
Gone(S) ==
  /\ type' = [i \in Ids |-> IF i \in S THEN "free" ELSE type[i]]
  /\ cells' = [i \in Ids |-> IF i \in S THEN <<>> ELSE cells[i]]

\* A name goes, but not that of a directory with entries.  The node goes with
\* it unless it is in use.
Remove(d, n) ==
  LET i == entries[d][n]
  IN  /\ entries[i] = <<>>
      /\ UNCHANGED held
      /\ entries' = [entries EXCEPT ![d] = Restrict(@, DOMAIN @ \ {n})]
      /\ Gone({i} \ held)

Hold(i) ==
  /\ held' = held \cup {i}
  /\ Named(i)
  /\ UNCHANGED <<type, entries, cells>>

\* The end of the use of a node: without a name it goes.
Drop(i) ==
  /\ held' = held \ {i}
  /\ UNCHANGED entries
  /\ Gone(IF Named(i) THEN {} ELSE {i})

\* At most MaxChunk cells go over the end or over what is there; nothing else
\* changes, in this file or another.
Write(i) ==
  LET old == cells[i]
      new == cells'[i]
      changed == {k \in DOMAIN new : k > Len(old) \/ new[k] # old[k]}
  IN  /\ type[i] = "T_FILE" /\ Len(new) >= Len(old)
      /\ \A k, l \in changed : k - l < MaxChunk
      /\ cells' = [cells EXCEPT ![i] = new]
      /\ UNCHANGED <<type, entries, held>>

\* A crash ends every use.  A node without a name is then out of reach.
Crash == held' = {} /\ UNCHANGED <<type, entries, cells>>

Next ==
  \/ \E i \in Ids : Hold(i)
  \/ \E i \in held : Drop(i) \/ Write(i)
  \/ \E d \in Dirs :
       \/ \E n \in DOMAIN entries'[d] \ DOMAIN entries[d] : Make(d, n, entries'[d][n])
       \/ \E n \in DOMAIN entries[d] \ DOMAIN entries'[d] : Remove(d, n)
  \/ Crash

Spec == Init /\ [][Next]_vars
==============================================================================
