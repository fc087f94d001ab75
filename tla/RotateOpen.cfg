CONSTANTS
    Mode = "Rotate"
    Seq64 = {0,1,2,3,4,5,6,7}
    Lens = {1}
    ShouldAttest = TRUE
    RetainCt = FALSE
    MaxKey = 4
    Flow = "epoch"
    NRequests = 2
    MaxResponse = 2
    Short = TRUE
    MaxTickets = 1
    LateTickets = FALSE
    MaxUpdates = 0
    Timeouts = FALSE
SPECIFICATION RSpec
INVARIANTS
    ReleasedKeysClosed
