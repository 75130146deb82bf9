SPECIFICATION Spec
CONSTANTS
  Caller = {c1, c2}
  Reader = {r1, r2}
  Batch <- Batches
  MaxBits = 4
  Timeout = 2
INVARIANTS ReturnsWithItsLastBit ReadersServed DsRule
PROPERTIES HeardAsDriven
