SPECIFICATION MCSpec
CONSTANTS
  HalfBits = 1
  MaxMagnitude = 17
  MaxExponent = 5
  NegativeHalves = FALSE
  Signed = FALSE
  Alloc = 3
INVARIANTS ArithmeticExact NumberTheoryExact BitwiseExact
