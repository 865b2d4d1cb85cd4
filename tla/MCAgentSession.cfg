\* One opened file, every failure of the environment allowed.
SPECIFICATION Spec
CONSTANTS
    MaxTime = 2
    MaxWrites = 2
    Faults <- AllFaults
INVARIANTS
    TypeOK
    WipedUnlessFailed
    PlaintextOnlyWhileAllowed
    QuietMeansSealed
    ToldOrFailed
PROPERTIES
    EndsOnDemand
