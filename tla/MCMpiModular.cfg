SPECIFICATION MCSpec
CONSTANTS
  HalfBits = 2
  MaxMagnitude = 127
  MaxExponent = 2
  NegativeHalves = FALSE
  Signed = FALSE
  MaxUsed = 3
  MaxTotal = 5
  Sample = {0, 8, 15}
  Bases = {0, 2, 254, 1000}
  Exponents = {0, 1, 5, 11, 100, 418, 4095}
  Moduli = {1, 19, 16, 257, 4095}
  SafeSteps <- MCSafeSteps
  FastSteps <- MCFastSteps
  LineSizes = {0, 8, 16, 32, 64}
  MP_USING_MONT_MULF = FALSE
  prime_tab <- MCPrimeTab
  MinBits = 3
  Lengths = {3, 4, 5, 7, 9}
  SIEVE_SIZE = 6
  num_tests = 2
  TableBits = 3
  SquareBits = 2
  Polynomials <- MCPolynomials
  MaxDegree = 8
  Operands = {6, 429}
INVARIANTS DigitsExact ModularExact PrimeSearchExact PolynomialsExact
PROPERTY SearchAdvances
CHECK_DEADLOCK FALSE
