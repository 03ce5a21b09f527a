CONSTANTS
    Modulus = 17
    Generator = 2
    Generator2Order = 3
    NumFields = 0
    IntWidth = 6
    BBIT_PREC_MAX = 5
SPECIFICATION ConfigSpec
INVARIANTS UIntConfigSupports
