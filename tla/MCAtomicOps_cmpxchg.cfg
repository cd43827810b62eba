SPECIFICATION Spec
CONSTANTS
  Threads = {t1, t2}
  Regs = {0, 1}
  W = 1
  Promised <- WithCmpxchg
  None = None
SYMMETRY Symmetry

PROPERTY Atomic
