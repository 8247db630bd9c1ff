CONSTANTS
  c1 = c1  c2 = c2  i1 = i1  i2 = i2  w1 = w1  w2 = w2
  CPUs <- MCCPUs
  Workers <- MCWorkers
  IdleThread <- MCIdleThread
  IdlePrio = 0
  MinPrio = 1
  MaxPrio = 2
  MinRTPrio = 3
  MaxRTPrio = 3
  MediumPrio = 1
  PrioInputs <- MCPrioInputs
SPECIFICATION Spec
PROPERTY RTDispatchedFirst
