\* One run, no failure, two calls of ensure().
SPECIFICATION Spec
CONSTANTS
    MaxFiles = 1
    MaxBlocks = 3
    MaxFaults = 0
    MaxRuns = 1
    MaxLoops = 2
INVARIANTS
    NothingRepeated
CHECK_DEADLOCK FALSE
