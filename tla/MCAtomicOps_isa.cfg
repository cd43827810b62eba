SPECIFICATION Spec
CONSTANTS
  Threads = {t1, t2}
  Regs = {0, 1}
  W = 1
  Promised <- Kept
  None = None
SYMMETRY Symmetry
INVARIANT TypeOK
PROPERTY Atomic
