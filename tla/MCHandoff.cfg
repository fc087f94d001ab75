CONSTANTS
    FullOutcomes = {"fail", "skip", "psk"}
    ResumedOutcomes = {"fail", "skip", "psk"}
    Kills = {"prover", "verifier"}
    NAssets = 2
    MaxRounds = 5
SPECIFICATION MCSpec
INVARIANTS
    CleanHandoff
    NoAssetSkipped
    FullRepairs
