SPECIFICATION MCSpec
CONSTANTS
  HalfBits = 4
  MaxMagnitude = 1100
  MaxExponent = 0
  NegativeHalves = FALSE
  Signed = FALSE
  Radices = {2, 8, 10, 16, 36}
  Bases = {0, 2, 7, 254, 1000}
  Exponents = {0, 1, 5, 11, 40, 100, 418, 4095}
  Moduli = {1, 19, 16, 257, 4095}
  SafeSteps <- MCSafeSteps
  FastSteps <- MCFastSteps
  LineSizes = {64}
  MP_USING_MONT_MULF = TRUE
  MulfLens = {1, 2, 3, 16, 17, 35}
  MulfPatterns <- MCMulfPatterns
  CombaLens = {2, 4, 7, 8, 16, 32}
  CombaPatterns <- MCCombaPatterns
INVARIANTS TextExact FloatExact CombaExact
CHECK_DEADLOCK FALSE
