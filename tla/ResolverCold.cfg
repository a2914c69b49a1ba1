SPECIFICATION FairSpec

CONSTANTS
    Callers = {a, b}
    Requests <- UnchangingRequests
    History <- Unchanging
    Nothing = Nothing
    Name = "repo/chart"
    ScanLimit = 3
    Provenance = TRUE
    Signing = TRUE
    Rewrite = FALSE
    Faults = TRUE


INVARIANTS
    TypeOK
    NobodyIsStranded
    AnswersIgnoreCache

PROPERTIES
    EveryRequestEnds
