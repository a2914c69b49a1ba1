SPECIFICATION Spec

CONSTANTS
    Callers = {a, b}
    Repos = {r, s, t, d}
    AllowedRepos = {r, s, t}
    NoRepo = NoRepo
    IndexTTL = 2
    IndexStaleTTL = 1
    Timeout = 1
    maxIndexCacheEntries = 2
    MaxRev = 0

SYMMETRY Symmetry

INVARIANTS
    CacheBounded

PROPERTIES
    YoungSurviveBelowTheCap
