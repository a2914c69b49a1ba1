SPECIFICATION FairSpec

CONSTANTS
    Clients = {a}
    Replicas = {p, q}
    History <- SomeHistory
    PageSizes <- SomePageSizes
    NoLimit = NoLimit

INVARIANTS
    TypeOK
    StableVersionsAreListed
    ListedTagsResolve

PROPERTIES
    TagsComeInOrder
    EveryWalkEnds
