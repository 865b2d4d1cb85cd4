\* One file, three blocks, two runs, two failures and two calls of ensure().
SPECIFICATION Spec
CONSTANTS
    MaxFiles = 1
    MaxBlocks = 3
    MaxFaults = 2
    MaxRuns = 2
    MaxLoops = 2
INVARIANTS
    RecordComplete
CHECK_DEADLOCK FALSE
