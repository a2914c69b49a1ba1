SPECIFICATION Spec

CONSTANTS
    Callers = {a, b}
    Repos = {r}
    AllowedRepos = {r}
    NoRepo = NoRepo
    IndexTTL = 1
    IndexStaleTTL = 1
    Timeout = 1
    maxIndexCacheEntries = 1
    MaxRev = 0

INVARIANTS
    CancellationIsHarmless
