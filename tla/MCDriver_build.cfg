SPECIFICATION Spec
CONSTANTS
  Names = {"n1", "n2", "n3"}
  Elfs <- AllElfs
  MAX_EXT_FUNCS = 8192
  Printk = 6
  MaxPrograms = 3
CHECK_DEADLOCK FALSE
INVARIANTS TypeOK BuiltPrefix OneMeansUnopened
PROPERTY Ended
