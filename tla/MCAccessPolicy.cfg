\* The contracts: registry, validator and policy together.
SPECIFICATION Spec
CONSTANTS
    f1 = f1
    f2 = f2
    h1 = h1
    h2 = h2
    d1 = d1
    r1 = r1
    r2 = r2
    Account = {acct, eoa}
    Nobody = nobody
    FileId = {f1, f2}
    Hash = {h1, h2}
    ZeroHash = h0
    U32Max = 3
    SmartAccount = {acct}
    Key = {k1, k2, k3}
    OnCurve = {k1, k2}
    Device = {d1}
    ReqNonce = {r1, r2}
    U16Max = 2
    MaxTime = 2
    Submitted <- MCSubmitted
INVARIANTS
    TypeOK
    NonceCountsLandedGrants
    RequestAnsweredOnce
    GrantWithinTerms
    KeyListMatchesKeys
PROPERTIES
    DeadStaysDead
    ImplementsRights
