\* Two requests and two reload events for two models, one of which fits in the
\* cache; any load may fail or be refused.
SPECIFICATION Spec
CONSTANTS
    Names <- MCNames
    Keys = {k1, k2}
    KeyOf <- MCKeyOf
    c1 = c1
    c2 = c2
    m1 = m1
    m2 = m2
    Callers <- MCCallers
    Evictors <- MCReloads
    Known = {k1}
    MaxSize = 1
    RamGuard = TRUE
    None = None
    Failed = Failed
INVARIANTS
    StaleIsTransient
PROPERTIES
    ReloadsHandled
    ReadinessRecovers
    CallsReturnUnlessRefused
ACTION_CONSTRAINT InOrder
CHECK_DEADLOCK FALSE
