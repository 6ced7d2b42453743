\* A load-branch pair, data misses.
SPECIFICATION Spec
CONSTANTS
  WordMod = 8
  NumRegs = 3
  MemSize = 4
  EXC_HANDLER = 7
  Programs <- LoadBranch
  InitMem <- MCInitMem
  IMissLatency = 1
  DMissLatency = 1
  Oracles <- DataMayMiss
INVARIANT BranchesResolved
