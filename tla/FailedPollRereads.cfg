\* One run and one loop; the only failure is the poll's.
SPECIFICATION Spec
CONSTANTS
    MaxFiles = 1
    MaxBlocks = 4
    MaxFaults = 1
    MaxRuns = 1
    MaxLoops = 1
PROPERTIES
    FailedPollRereads
CHECK_DEADLOCK FALSE
