SPECIFICATION Spec
CONSTANTS
    f1 = f1
    f2 = f2
    r1 = r1
    r2 = r2
    Watcher = Watcher
    NoGrant = NoGrant
    File <- MCFile
    Req <- MCReq
    Slot <- MCSlot
    Fid <- MCFid
    MaxVer = 3
    Lockable <- MCLockable
    MaxSaved <- MCMaxSaved
    MaxCrashes <- MCNoCrashes
    Modes = {"device", "passkey"}
SYMMETRY Symmetry
CHECK_DEADLOCK FALSE
INVARIANT WithheldMeansNoGrant
