CONSTANTS
  Totals <- MCTotals
  MaxUploads = 2
SPECIFICATION Spec
INVARIANT ConfigIntegrity
