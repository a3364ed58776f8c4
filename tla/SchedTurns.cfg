SPECIFICATION FairTurnsSpec
CONSTANTS
  NPROC = 4
  NINIT = 3
  MaxNest = 2
INVARIANTS
  TypeOK
  SectionsAtomic
  OneRunning
  NoPanic
  UserInterruptible
  SchedInv
PROPERTIES
  RoundRobin
  NoStarvation
