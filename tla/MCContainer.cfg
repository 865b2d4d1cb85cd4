\* Two copies of one or two files, three versions, one accident (and the backup may be damaged).
SPECIFICATION Spec
CONSTANTS
    Copy = {c, d}
    Text <- MCText
    ChunkSize = 2
    OwnerKey = {k1, k2}
    NoKey = nokey
    None = none
    MaxSeals = 3
    MaxDamage = 1
INVARIANTS
    OpenIsWhole
    OldKeyOpensNothingNew
    OwnerReadsEveryVersion
    VersionsFormAChain
SYMMETRY Symmetry
CHECK_DEADLOCK FALSE
