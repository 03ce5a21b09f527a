CONSTANTS
    Modulus = 17
    Generator = 2
    Generator2Order = 3
    NumFields = 3
    IntWidth = 6
    BBIT_PREC_MAX = 5
    PointVals = {0, 1, 11}
    EvalVals = {3, 8}
    DataVals = {0, 1, 2, 16}
    Rnd <- MCRnd
    Change = {0, 15}
SPECIFICATION MCSpec
INVARIANTS TransformsFit UIntBoundExact TransformsExact HonestValid CheatBound SharesAddUp
