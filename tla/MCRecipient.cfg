\* Requests and open files of one device.
SPECIFICATION Spec
CONSTANTS
    Path = {p, q}
    NoPath = nopath
    MaxRequests = 2
    MaxOpens = 1
    MaxTime = 1
    Chain = TRUE
    Answers <- MCAnswers
INVARIANTS
    TypeOK
    GrantedByOwner
SYMMETRY Paths
