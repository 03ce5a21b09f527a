CONSTANTS
    Modulus = 17
    Generator = 2
    Generator2Order = 3
    NumFields = 2
    DigitBound = 4
    Submission <- MCSubmission
    Draw <- MCDraw
    Delivery <- LostAtB
SPECIFICATION Spec
INVARIANTS WellFormedCounted
