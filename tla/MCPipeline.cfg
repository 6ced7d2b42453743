\* Straight-line code, settled branches and interlocked ones under misses.
SPECIFICATION Spec
CONSTANTS
  WordMod = 8
  NumRegs = 3
  MemSize = 4
  EXC_HANDLER = 7
  Programs <- MCProgramSet
  InitMem <- MCInitMem
  IMissLatency = 2
  DMissLatency = 3
  Oracles <- MCOracles
INVARIANTS TypeOK ZeroReadsZero BranchesResolved
PROPERTIES ImplementsMachine Halts StalledConsumerWaits
