SPECIFICATION Spec

CONSTANTS
    Callers = {a}
    Requests <- RepublicationRequests
    History <- Republication
    Nothing = Nothing
    Name = "repo/chart"
    ScanLimit = 2
    Provenance = FALSE
    Signing = FALSE
    Rewrite = FALSE
    Faults = FALSE

INVARIANTS
    AnyReplicaAnswers
