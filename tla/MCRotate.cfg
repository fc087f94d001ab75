CONSTANTS
    Mode = "Rotate"
    Seq64 = {0,1,2,3,4,5,6,7}
    Lens = {1}
    ShouldAttest = TRUE
    RetainCt = FALSE
    MaxKey = 6
    Flow = "epoch"
    NRequests = 3
    MaxResponse = 2
    Short = TRUE
    MaxTickets = 2
    LateTickets = TRUE
    MaxUpdates = 2
    Timeouts = TRUE
SPECIFICATION MCSpec
INVARIANTS
    NoSpuriousFailure
    NumbersAgree
    DeliveredRightly
    ReleasedInTime
PROPERTIES
    Terminates
