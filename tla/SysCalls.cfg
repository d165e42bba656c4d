SPECIFICATION Spec
CONSTANTS
  Threads = {1, 2}
  Calls = {"gettime", "writefast", "read", "sbrk", "write", "getpid", "fork", "exit", "get_stats", "clone", "sem_init", "sem_wait", "sem_signal", "sem_destroy"}
  RawIds <- OddIds
INVARIANTS
  CallerUnharmed
  RoutineReached
  ResultConvention
  ThreadStarts
PROPERTIES
  ErrnoKept
CHECK_DEADLOCK FALSE
