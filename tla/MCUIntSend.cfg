CONSTANTS
    Modulus = 17
    Generator = 3
    Generator2Order = 4
    NumFields = 4
    Radix = 4
    PRG_SEED_LENGTH = 2
    IntRange = 8
    Prec = 2
    DigitBound = 8
    Inputs <- MCInputs
    Mask <- MCMask
    MaxClients = 1
SPECIFICATION Spec
INVARIANTS TotalReadable
