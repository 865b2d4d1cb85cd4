\* One restart, no failure, one loop.
SPECIFICATION Spec
CONSTANTS
    MaxFiles = 1
    MaxBlocks = 3
    MaxFaults = 0
    MaxRuns = 2
    MaxLoops = 1
INVARIANTS
    NothingRepeated
CHECK_DEADLOCK FALSE
