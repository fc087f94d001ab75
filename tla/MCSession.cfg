CONSTANTS
    Mode = "Masked"
    Kinds = {"app", "nst0", "nst1", "nst8", "nstX", "close"}
    Tamper = TRUE
    Padding = FALSE
    Offline = TRUE
    Crash = TRUE
    Carried = TRUE
    MaxRounds = 2
    MaxRecords = 3
SPECIFICATION MCSpec
INVARIANTS
    InLockStep
    SharesAgree
    TicketMatches
    NoSpuriousFailure
    PageComplete
PROPERTIES
    Finishes
