\* Four requests for four models with three keys, two of which fit in the cache,
\* any load of which may fail or be refused; two jobs on two workers, one of
\* which may go back to the queue; two pods.
SPECIFICATION FairSpec
CONSTANTS
    twin = twin
    Names <- MCNames
    Keys = {k1, k2, k3}
    KeyOf <- MCKeyOf
    c1 = c1
    c2 = c2
    c3 = c3
    c4 = c4
    Callers <- MCCallers
    Evictors = {}
    MaxSize = 2
    RamGuard = TRUE
    None = None
    Failed = Failed
    Jobs = {j1, j2}
    Workers = {w1, w2}
    pod1 = pod1
    pod2 = pod2
    Pods = {pod1, pod2}
    NoJob = NoJob
    MinRecords = 1
    QueueMax = 2
    MaxPushed = 5
    MaxRequeues = 1
INVARIANTS
    TypeOK
    CapacityBound
    OwnModel
    SingleFlight
    WaiterHasLoader
    QueueKeepsNewest
    SuccessMeansStored
    SavesPerDelivery
PROPERTIES
    NewestSurvives
    CallsReturnUnlessRefused
    WeightsMoveForward
    JobsAtLeastOnce
    JobsSettle
