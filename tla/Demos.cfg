CONSTANTS
  PHIL = 5
  SZ = 2
  LETTERS = 3
  LOOPS = 2
  ROUNDS = 2
  READERS = 2
  ACCS = 3
  TXNS = 3
  BALANCE = 2
  AMOUNT = 1
  NALLOC = 3
  Programs = {"threads_safe", "semlock", "atomic", "dine", "dine_dead", "wait", "wait_sem", "sems_using_lock_cv", "sempipe", "sem_mpmc", "mypipe", "rw_ctr", "rw_using_sems", "alloc", "dead", "dead_fix", "peterson_breaks", "peterson_fence"}

SPECIFICATION Spec
INVARIANTS NoLostUpdate SumZero ChildFirst PipeInOrder
PROPERTY WaitsEnd
CHECK_DEADLOCK FALSE
