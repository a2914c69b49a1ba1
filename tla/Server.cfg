SPECIFICATION FairSpec

CONSTANTS
    Configurations <- SomeConfigurations
    Connections = {c, d, e}

CHECK_DEADLOCK FALSE

INVARIANTS
    TypeOK
    DrainedStaysDrained
    StatusTellsTheTruth

PROPERTIES
    DrainIsGraceful
    EndsWhenAsked
