CONSTANTS
  Examples <- AllExamples
  Inputs <- MCInputs
  Base = 1000
  Below = {0, 8, 69}
  Garbage = {0, 990, 1040}
SPECIFICATION Spec
INVARIANTS
  TypeOK
  BoundsChecked
  Delimited
  VerdictOfPacket
PROPERTY
  Finishes
