CONSTANTS
  e1 = e1  e2 = e2  i1 = i1  i2 = i2  r1 = r1  r2 = r2  p1 = p1
  Endpoints <- MCEndpoints
  Inputs <- MCInputs
  Receivers <- MCReceivers
  Ports = {p1}
  NoEndpoint = NoEndpoint
  MaxPackets = 3
  AllocCanFail = TRUE
SPECIFICATION USpec
CHECK_DEADLOCK FALSE
INVARIANTS TypeOK RefCountAccurate SemMatchesQueue
PROPERTIES RecvReturns
