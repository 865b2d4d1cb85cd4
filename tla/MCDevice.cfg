\* One locked file, one file handed over, three runs, one connection that fails.
SPECIFICATION Spec
CONSTANTS
    OsAuthenticator = TRUE
    Doc = {d}
    MaxKeys = 4
    MaxFaults = 1
    MaxFiles = 1
    MaxRuns = 3
INVARIANTS
    SettledOwnerAnswers
    SameOwnerKeys
    HandedFileIsShown
CHECK_DEADLOCK FALSE
