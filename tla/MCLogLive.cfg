SPECIFICATION FairSpec
CONSTANTS
  NBUF = 3
  BlockNo <- MCBlockNo
  NoBlock = NoBlock
  NoData = NoData
  Procs = {p1}
  Main = main
  Val = {z}
  Zero = z
  LogStart = 2
  nlog = 4
  LOGSIZE = 3
  MAXOPBLOCKS = 2
PROPERTIES RecoveryEnds CommitEnds
