SPECIFICATION Spec

CONSTANTS
    Callers = {a, b}
    Requests <- ChangingRequests
    History <- Changing
    Nothing = Nothing
    Name = "repo/chart"
    ScanLimit = 2
    Provenance = FALSE
    Signing = FALSE
    Rewrite = TRUE
    Faults = TRUE

SYMMETRY Symmetry

INVARIANTS
    AnswersMatch
    OnlyPublishedIsServed
    NoDownloadWhileCached
    WorkIsBounded
