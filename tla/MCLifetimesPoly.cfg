CONSTANTS
    Callees = {"poly_fft"}
SPECIFICATION LifeSpec
INVARIANTS ErrorsReported
