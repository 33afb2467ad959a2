\* Ratios above and below one, blocks up to the saturation of a narrow register.
CONSTANTS
  ClocksPerRev = 3
  Rates = {2, 5}
  Blocks <- MCBlocks
  MaxUint = 63
  Horizon = 250
SPECIFICATION Spec
INVARIANTS NoDrift DeadlineExact NeverBackwards
