\* AlwaysWipes, claimed in the comments of the code: no failure of the environment is needed.
SPECIFICATION Spec
CONSTANTS
    MaxTime = 2
    MaxWrites = 2
    Faults <- NoFaults
INVARIANTS
    AlwaysWipes
