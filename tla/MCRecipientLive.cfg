\* One file: what must happen in the end.
SPECIFICATION Spec
CONSTANTS
    Path = {p}
    NoPath = nopath
    MaxRequests = 1
    MaxOpens = 2
    MaxTime = 1
    Chain = TRUE
    Answers <- LiveAnswers
PROPERTIES
    NeverStuckAsking
    RevokeEndsSession
