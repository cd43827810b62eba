CONSTANTS
  Examples <- Examples02To05
  Inputs <- MCInputs
  Base = 1000
  Below = {0, 8, 69}
  Garbage = {0, 990, 1040}
SPECIFICATION Spec
INVARIANT EndBeforeOnes
