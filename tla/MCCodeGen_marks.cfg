SPECIFICATION Spec
CONSTANTS
  Programs <- ExitProgram
  ExtFuncs = {6, 12}
  PcMod = 16
  UIntMod = 64
  WordBits = 4
  MaxBlocks = 20
  MaxSize = 3
INVARIANT MarksAreInstructions
