CONSTANTS
    Radix = 4
    OctetBits = 2
    CHUNK_SIZE = 2
    MaxBound = 18
    Callees <- MCCallees
SPECIFICATION MCSpec
INVARIANTS DrawsExact CleanupExact ErrorsReportedElsewhere
PROPERTIES Returns
