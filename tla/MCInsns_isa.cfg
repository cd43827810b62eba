SPECIFICATION MCSpec
CONSTANTS
  B = 1
  Regs = {0, 6}
  Size = 10
  Programs <- MCPrograms
CHECK_DEADLOCK FALSE
INVARIANT TypeOK
PROPERTY Computes
