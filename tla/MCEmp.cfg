CONSTANTS
    N = 5
    Aligned = TRUE
    Faults = TRUE
    gcm_iters = 3
    vfy_iters = 2
    ks_iters = 2
    aes_enc_iters = 2
    tag_iters = 2
    rotate_iters = 2
    MaxOps = 4
SPECIFICATION MCSpec
INVARIANTS
    CircuitsInStep
    MaterialFresh
    NothingFromZeros
PROPERTIES
    StreamSpec
    Ends
