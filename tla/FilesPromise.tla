----------------------------- MODULE FilesPromise -----------------------------
(***************************************************************************)
(* Module Files implements module NameSpace: the nodes are the inodes, and *)
(* names and contents are read from the blocks of the disk.                *)
(***************************************************************************)
EXTENDS Files

\* The names in a directory with these cells, and the inodes they stand for.
NameMap(cells) ==
  LET used == {k \in DOMAIN cells : cells[k].n # 0 /\ cells[k].s \notin {Dot, DotDot}}
  IN  [s \in {cells[k].s : k \in used} |-> cells[CHOOSE k \in used : cells[k].s = s].n]

NS == INSTANCE NameSpace WITH
        Ids <- Inums \ {0}, Root <- ROOTINO, MaxChunk <- max,
        type <- [i \in Inums \ {0} |-> fs.dinode[i].type],
        entries <- [i \in Inums \ {0} |-> IF i \in Dirs THEN NameMap(CellsOf(i)) ELSE <<>>],
        cells <- [i \in Inums \ {0} |-> IF fs.dinode[i].type = T_FILE THEN CellsOf(i) ELSE <<>>],
        held <- InUse

\* Callers see a tree of names and files that do not vanish or change under
\* them: every call, chunk of a write and crash is one step, or none, of NameSpace.
Promise == NS!Spec
==============================================================================
