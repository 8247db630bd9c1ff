CONSTANTS
  k = k  p1 = p1  p2 = p2  p3 = p3
  KernelProc = k
  UserProcs <- MCUserProcs2
  NoProc = NoProc
  AllocCanFail = FALSE
  SetpgidAnyPid = TRUE
SPECIFICATION PGSpec
CHECK_DEADLOCK FALSE
INVARIANT ProcLinksConsistent
