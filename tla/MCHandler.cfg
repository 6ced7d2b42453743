\* A handler that does not start with a jump or halt, ideal caches.
SPECIFICATION Spec
CONSTANTS
  WordMod = 8
  NumRegs = 3
  MemSize = 4
  EXC_HANDLER = 7
  Programs <- OrdinaryHandler
  InitMem <- MCInitMem
  IMissLatency = 1
  DMissLatency = 1
  Oracles <- NeverMisses
INVARIANT HandlerAdvances
