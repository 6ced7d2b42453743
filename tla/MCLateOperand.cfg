\* An operand produced two instructions ahead of its branch, ideal caches.
SPECIFICATION Spec
CONSTANTS
  WordMod = 8
  NumRegs = 3
  MemSize = 4
  EXC_HANDLER = 7
  Programs <- LateOperand
  InitMem <- MCInitMem
  IMissLatency = 1
  DMissLatency = 1
  Oracles <- NeverMisses
INVARIANT BranchesResolved
