SPECIFICATION Spec
CONSTANTS
    d1 = d1  d2 = d2
    Doers = {d1, d2}
    Benches = {"set"}
    Buckets = {0, 1}
    BucketOf <- MCBucketOf
    IntervalMerge = 1
    IntervalStat = 1
    ClockModulus = 64
    MaxClock = 2
    MaxRuns = 2
    MaxOps = 2
INVARIANT TypeOK
INVARIANT NoFatal
INVARIANT MergedIsContributed
PROPERTY RowsComplete
PROPERTY RefinesSharedHistogram
PROPERTY Termination
