SPECIFICATION Spec

CONSTANTS
    Callers = {a}
    Requests <- PoisonedRequests
    History <- Poisoned
    Nothing = Nothing
    Name = "repo/chart"
    ScanLimit = 2
    Provenance = FALSE
    Signing = FALSE
    Rewrite = FALSE
    Faults = FALSE

INVARIANTS
    DefectsAreContained
