SPECIFICATION FairSpec
CONSTANTS
  p1 = p1
  p2 = p2
  NBUF = 2
  BlockNo <- MCBlockNo
  NoBlock <- MCNoBlock
  NoData = NoData
  Proc <- TwoProc
  Val = {x, y}
  Shared = FALSE
  Errors = FALSE
INVARIANTS
  TypeOK
  QueueOK
  HoldsDisk
  NotStopped
PROPERTIES RequestsEnd
