SPECIFICATION FairCacheSpec
CONSTANTS
    twin = twin
    Names <- MCNames
    Keys = {k1, k2}
    KeyOf <- MCKeyOf
    c1 = c1
    c2 = c2
    c3 = c3
    c4 = c4
    Callers <- MCCallers
    Evictors = {}
    MaxSize = 1
    RamGuard = FALSE
    None = None
    Failed = Failed
INVARIANT CachedRuntimesIntact
ACTION_CONSTRAINT OneSegment
CHECK_DEADLOCK FALSE
