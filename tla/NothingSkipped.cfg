\* One restart, no failure, one loop.
SPECIFICATION Spec
CONSTANTS
    MaxFiles = 1
    MaxBlocks = 4
    MaxFaults = 0
    MaxRuns = 2
    MaxLoops = 1
INVARIANTS
    NothingSkipped
CHECK_DEADLOCK FALSE
