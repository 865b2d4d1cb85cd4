\* The open budget of a grant, one request and two calls of open_file.
SPECIFICATION Spec
CONSTANTS
    Path = {p}
    NoPath = nopath
    MaxRequests = 1
    MaxOpens = 2
    MaxTime = 1
    Chain = TRUE
    Answers <- OneAnswer
INVARIANTS
    OpensWithinBudget
