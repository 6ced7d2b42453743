\* A load from outside the memory, ideal caches.
SPECIFICATION Spec
CONSTANTS
  WordMod = 8
  NumRegs = 3
  MemSize = 4
  EXC_HANDLER = 7
  Programs <- OutsideLoad
  InitMem <- MCInitMem
  IMissLatency = 1
  DMissLatency = 1
  Oracles <- NeverMisses
INVARIANT BadLoadsFault
