\* A load-use pair behind a data miss.
SPECIFICATION Spec
CONSTANTS
  WordMod = 8
  NumRegs = 3
  MemSize = 4
  EXC_HANDLER = 7
  Programs <- LoadUseBehindMiss
  InitMem <- MCInitMem
  IMissLatency = 1
  DMissLatency = 2
  Oracles <- DataMayMiss
PROPERTY CountedStallsDelay
