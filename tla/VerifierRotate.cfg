CONSTANTS
    Mode = "Rotate"
    Seq64 = {0, 1}
    Lens = {1}
    ShouldAttest = FALSE
    RetainCt = TRUE
    MaxKey = 4
SPECIFICATION Spec
INVARIANTS
    TypeOK
    AttestedGenuine
    CommitmentBinds
    RotatedOutReleased
    NoNonceReuse
    TagsMatch
    RetainedRecords
PROPERTIES
    FrozenAfterRelease
    AttestsInOrder
