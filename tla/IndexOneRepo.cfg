SPECIFICATION FairSpec

CONSTANTS
    Callers = {a, b}
    Repos = {r}
    AllowedRepos = {}
    NoRepo = NoRepo
    IndexTTL = 1
    IndexStaleTTL = 2
    Timeout = 1
    maxIndexCacheEntries = 1
    MaxRev = 1

INVARIANTS
    TypeOK
    NobodyIsStranded

PROPERTIES
    CacheMovesForward
    AnswersAreRecent
    AuthorityIsFinal
    ReadsLikeARegister
    EveryCallReturns
