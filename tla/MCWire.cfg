CONSTANTS
    Modulus = 17
    Generator = 3
    Generator2Order = 4
    NumFields = 4
    Radix = 4
    PRG_SEED_LENGTH = 2
    IntRange = 8
    MaxWrites = 2
    MaxReads = 2
    Sample <- MCSample
    BatchIds <- Distinct
    Servers = {"A", "B"}
    CURVE25519_KEY_LEN = 2
    GCM_IV_LEN_BYTES = 1
    GCM_TAG_LEN_BYTES = 2
    MAX_ENCRYPT_LEN = 3
    PrivateKeys <- MCPrivateKeys
    PublicOf <- MCPublicOf
    Messages <- MCMessages
    BufferLens = {1, 6, 7}
    Prec = 2
    DigitBound = 8
    MaxClients = 4
    Inputs <- MCInputs
    Mask <- MCMask
SPECIFICATION MCSpec
INVARIANTS RoundTrip SoundUnlessFailed SumsExact KeysSurvive DecryptExact
