\* A taken branch over one word, ideal caches.
SPECIFICATION Spec
CONSTANTS
  WordMod = 8
  NumRegs = 3
  MemSize = 4
  EXC_HANDLER = 7
  Programs <- SkipOne
  InitMem <- MCInitMem
  IMissLatency = 1
  DMissLatency = 1
  Oracles <- NeverMisses
INVARIANT TakenBranchSquashes
