CONSTANTS
    Mode = "True"
    Kinds = {"app", "close"}
    Tamper = FALSE
    Padding = TRUE
    Offline = TRUE
    Crash = FALSE
    Carried = FALSE
    MaxRounds = 1
    MaxRecords = 2
SPECIFICATION Spec
INVARIANTS
    DeliveredComplete
