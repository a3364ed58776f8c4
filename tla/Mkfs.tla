--------------------------------- MODULE Mkfs ---------------------------------
(***************************************************************************)
(* mkfs.c: the image that it makes of a list of files.  Blocks and inodes  *)
(* are handed out in order, freeblock and freeinode being the next ones.   *)
(***************************************************************************)
EXTENDS Fs, SequencesExt

\* The host's view of the image while it is built.
EmptyImage == [dinode |-> [i \in Inums |-> NoDinode],
               data |-> [b \in Blocks |-> ZeroBlock],
               freeinode |-> 1, freeblock |-> nmeta]

mkfs_ialloc(m, type) ==
  [m EXCEPT !.dinode[m.freeinode] = [NoDinode EXCEPT !.type = type, !.nlink = 1],
            !.freeinode = @ + 1]

\* A block number, or the next free block in place of a missing one.
Claim(m, b) ==
  IF b # 0 THEN Result(m, b) ELSE Result([m EXCEPT !.freeblock = @ + 1], m.freeblock)

\* One cell is added at the end of the file.
AppendCell(m, inum, c) ==
  LET d == m.dinode[inum]
      fbn == d.size \div BSIZE
      slot == IF fbn < NDIRECT THEN fbn ELSE NDIRECT
      Put(n, b) == [n EXCEPT !.data[b][d.size % BSIZE] = c, !.dinode[inum].size = @ + 1]
  IN  Then(Claim(m, d.addrs[slot]), LAMBDA n, a :
      Let([n EXCEPT !.dinode[inum].addrs[slot] = a], LAMBDA p :
        IF fbn < NDIRECT THEN Put(p, a)
        ELSE Then(Claim(p, p.data[a][fbn - NDIRECT].n), LAMBDA q, b :
               Put([q EXCEPT !.data[a][fbn - NDIRECT] = Cell(b, <<>>)], b))))

iappend(m, inum, cells) == FoldLeft(LAMBDA n, c : AppendCell(n, inum, c), m, cells)

\* argv[i]: an inode, its entry in the root, and its content.
AddFile(m, file) ==
  LET n == iappend(mkfs_ialloc(m, T_FILE), ROOTINO, <<Cell(m.freeinode, file.name)>>)
  IN  iappend(n, m.freeinode, file.cells)

\* "fix size of root inode dir": up to the end of the block after the last entry.
FixRootSize(m) == [m EXCEPT !.dinode[ROOTINO].size = (@ \div BSIZE + 1) * BSIZE]

\* The bits that the bitmap gets: the blocks below freeblock.
mkfs_balloc(m) == 0..(m.freeblock - 1)

\* main: the file system for the files, as fs.c finds it.
Image(files) ==
  Let(iappend(mkfs_ialloc(EmptyImage, T_DIR), ROOTINO,
              <<Cell(ROOTINO, <<".">>), Cell(ROOTINO, <<".", ".">>)>>), LAMBDA root :
  Let(FixRootSize(FoldLeft(AddFile, root, files)), LAMBDA m :
    [dinode |-> m.dinode, bitmap |-> mkfs_balloc(m),
     data |-> [b \in Blocks |-> IF b < m.freeblock THEN m.data[b] ELSE Junk],
     inode |-> icache, log |-> {}, panic |-> ""]))
==============================================================================
