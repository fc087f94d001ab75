CONSTANTS
    Sealed = FALSE
    H2 = FALSE
    BLOCK = 16
    KS_BATCH_N = 16
    kNumMasks = 1088
    kMaxPowers = 1088
    MAX_PLAIN = 16384
    MAX_ENCRYPTED = 16704
    kTagLen = 16
    PadBit = 1073741824
    SeqSpace = 1000000
    kMaxEmptyRecords = 32
    kMaxSurfRecords = 4096
    BodyLens = {15, 16, 17, 19, 32, 33, 272, 273, 16400, 16401, 16402, 16704, 16705}
    Pads = {0, 16384}
    MaxRecords = 3
    Faults = FALSE
SPECIFICATION MCSpec
INVARIANTS
    KeystreamExact
    LegalDelivered
    WholeDelivered
PROPERTIES
    Returns
