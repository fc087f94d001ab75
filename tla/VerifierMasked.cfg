CONSTANTS
    Mode = "Masked"
    Seq64 = {0, 1}
    Lens = {1, 2}
    ShouldAttest = TRUE
    RetainCt = TRUE
    MaxKey = 4
SPECIFICATION Spec
INVARIANTS
    KeystreamOnlyVerified
