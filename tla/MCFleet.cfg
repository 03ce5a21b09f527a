CONSTANTS
    Modulus = 17
    Generator = 2
    Generator2Order = 3
    NumFields = 1
    Worker <- MCWorker
    Main = 0
    Config <- MCConfig
    Batch <- MCBatch
    CrashSets <- TogetherOrAlone
    MaxCrashes = 2
    CURVE25519_KEY_LEN = 3
SPECIFICATION FairSpec
INVARIANTS PairsExact HonestNotIgnored MergedSameConfig
PROPERTIES AllCollected
