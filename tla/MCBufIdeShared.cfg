SPECIFICATION FairSpec
CONSTANTS
  p1 = p1
  p2 = p2
  NBUF = 2
  BlockNo <- MCBlockNo
  NoBlock <- MCNoBlock
  NoData = NoData
  Proc <- TwoProc
  Val = {z}
  Shared = TRUE
  Errors = FALSE
CHECK_DEADLOCK FALSE
PROPERTIES
  RequestsEnd
