\* Two processes share a cache directory.
SPECIFICATION StorageSpec
CONSTANTS
    t1 = t1
    t2 = t2
    r = r
    p1 = p1
    p2 = p2
    pr = pr
    here = here
    there = there
    Threads = {t1, t2, r}
    Processes = {p1, p2, pr}
    Disks = {here, there}
    ProcessOf <- TwoProcessOf
    DiskOf <- TwoDiskOf
    Savers = {r}
    MaxVersion = 3
    Null = Null
INVARIANT ValidMeansCurrent
