SPECIFICATION Spec
CONSTANTS
  Points = {p, q}
  Start = p
  Vals = {0, 1}
  Scratch = {6, 7, 9}
  Offsets <- NearSlot
  STACK_SIZE = 64
  MAX_LOCAL_FUNC_DEPTH = 2
  CALL_STACK_SIZE = 2
  Halt = Halt
  Wild = Wild
  Undef = 0
CHECK_DEADLOCK FALSE
INVARIANTS TypeOK StackBalanced
PROPERTIES CallerLocalsKept KeepsPromise
