SPECIFICATION MCSpec
CONSTANTS
  Programs <- MCPrograms
  ExtFuncs = {6, 12}
  PcMod = 16
  UIntMod = 64
  WordBits = 64
  MaxBlocks = 20
  CALL_STACK_SIZE = 3
  Halt = Halt
  Wild = Wild
  MaxSize = 5
INVARIANT InBlock
PROPERTY RunsProgram
