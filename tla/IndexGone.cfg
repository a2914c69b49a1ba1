SPECIFICATION AuthoritySpec

CONSTANTS
    Callers = {a}
    Repos = {r}
    AllowedRepos = {r}
    NoRepo = NoRepo
    IndexTTL = 1
    IndexStaleTTL = 2
    Timeout = 1
    maxIndexCacheEntries = 1
    MaxRev = 0

PROPERTIES
    StaleNeverHidesGone
