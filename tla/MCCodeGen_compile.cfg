SPECIFICATION Spec
CONSTANTS
  Programs <- MCPrograms
  ExtFuncs = {6, 12}
  PcMod = 16
  UIntMod = 64
  WordBits = 4
  MaxBlocks = 20
  MaxSize = 4
INVARIANTS TypeOK TerminatorLast EveryMarkHasBlock FlowPreserved ReturnsExact AssertOnly SizeLimit
PROPERTY Compiles
