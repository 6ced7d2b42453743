\* Every opcode and function code at eight and four bits.
SPECIFICATION Spec
CONSTANTS
  XLEN = 8
  WLEN = 4
  Words <- MCWords
  Operands <- MCOperands
  BitXor <- MCXor
  BitOr <- MCOr
  BitAnd <- MCAnd
INVARIANTS TypeOK DecodesByClass BitsMoved OrdersByBits IllegalShown ShowsWhatRuns
