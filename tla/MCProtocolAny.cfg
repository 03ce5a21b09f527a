CONSTANTS
    Modulus = 17
    Generator = 2
    Generator2Order = 3
    NumFields = 2
    DigitBound = 4
    Submission <- MCSubmission
    Draw <- MCDraw
    Delivery <- EachItsOwn
SPECIFICATION FairSpec
INVARIANTS TypeOK Agreement PacketsMatch ChannelBound SharesExact OutputExact AlignedCounted
PROPERTIES BatchCompletes WellFormedServed ImplementsIdeal
