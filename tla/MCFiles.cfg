SPECIFICATION Spec
CONSTANTS
  BSIZE = 2
  NDIRECT = 1
  IPB = 2
  BPB = 32
  DIRSIZ = 2
  FSSIZE = 14
  NINODES = 5
  nlog = 1
  NINODE = 4
  UintSize = 16
  Procs = {p}
  Client = c
  NFILE = 2
  NOFILE = 1
  MAXOPBLOCKS = 6
  Workloads <- MCWorkloads
INVARIANTS
  TypeOK
  BlocksSound
  NamesSound
  RefsExact
  WriteThrough
  OpFits
  OnlyExhaustion
PROPERTY Promise
