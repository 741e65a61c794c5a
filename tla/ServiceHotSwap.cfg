SPECIFICATION Spec
CONSTANTS
    Names <- MCNames
    Keys = {k1, k2}
    KeyOf <- MCKeyOf
    c1 = c1
    c2 = c2
    m1 = m1
    m2 = m2
    Callers <- MCCallers
    Evictors <- MCReloads
    Known = {k1}
    MaxSize = 2
    RamGuard = FALSE
    None = None
    Failed = Failed
INVARIANT NoPartialRuntime
ACTION_CONSTRAINT InOrder
CHECK_DEADLOCK FALSE
