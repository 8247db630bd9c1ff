CONSTANTS
  k = k  up = up  m = m  t1 = t1  t2 = t2  w1 = w1  w2 = w2
  KernelProc = k
  UserProc = up
  Main = m
  Threads <- MCThreads
  Waiters <- MCWaiters
  NoThread = NoThread
  NoProc = NoProc
SPECIFICATION TSpec
CHECK_DEADLOCK FALSE
INVARIANTS ThreadTypeOK NoLeakedThreadRecord DyingProcThreadsKilled NoThreadOfFreedProc WaitReturnsAfterExit
PROPERTY ThreadsRefinement
