SPECIFICATION FairSpec
CONSTANTS
    Versions = {1, 2}
    MaxAttempts = 2
    MaxPushes = 1
    MaxMishaps = 3
    MaxTroubles = 2
    Meddling = {"edit", "close", "reopen", "dispute", "merge", "tag", "unprotect"}
    None = None
INVARIANTS
    ReleasedIsPrepared
    RecordedOnce
    OneOpenCandidate
PROPERTIES
    MergesWhatItChecked
    ClosesOnlyTheStale
    MergedIsFinished
CHECK_DEADLOCK FALSE
