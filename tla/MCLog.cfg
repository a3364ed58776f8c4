SPECIFICATION Spec
CONSTANTS
  NBUF = 3
  BlockNo <- MCBlockNo
  NoBlock = NoBlock
  NoData = NoData
  Procs = {p1}
  Main = main
  Val = {z, v}
  Zero = z
  LogStart = 2
  nlog = 4
  LOGSIZE = 3
  MAXOPBLOCKS = 2
INVARIANTS TypeOK LogInv CacheCoherent NoPanic
PROPERTIES AtomicTransactions
