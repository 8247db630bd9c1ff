CONSTANTS
  c1 = c1  c2 = c2  i1 = i1  i2 = i2  w1 = w1  w2 = w2  w3 = w3
  IdlePrio = 0
  MinPrio = 1
  MaxPrio = 2
  MinRTPrio = 3
  MaxRTPrio = 3
  MediumPrio = 1
  HighPrio = 2
  MaxDeathStacks = 2
  CPUs <- MCCPUs1
  Workers <- MCWorkers2
  IdleThread <- MCIdleThread1
  PrioInputs <- MCPrioInputsRegular
  BitmapWidth = 2
SPECIFICATION FairExitSpec
PROPERTY ExitCompletes
