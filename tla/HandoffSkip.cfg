CONSTANTS
    FullOutcomes = {"fail", "skip", "psk"}
    ResumedOutcomes = {"fail", "skip", "psk"}
    Kills = {}
    NAssets = 2
    MaxRounds = 3
SPECIFICATION Spec
INVARIANTS
    SkipKeepsHandoff
