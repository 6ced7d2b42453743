\* The functional simulator on every program.
SPECIFICATION Spec
CONSTANTS
  WordMod = 8
  NumRegs = 3
  MemSize = 4
  EXC_HANDLER = 7
  Programs <- AllPrograms
  InitMem <- MCInitMem
INVARIANTS TypeOK
PROPERTIES ImplementsMachine
