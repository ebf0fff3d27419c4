SPECIFICATION Spec
CONSTANTS
    d1 = d1
    d2 = d2
    Doers = {d1, d2}
    Spaces = {0, 1, 2, 3, 4, 5}
    Jobs <- MCJobs
    Drivers = {"sqlite3", "vedisdb", "unqlite", "iowow"}
    Count = 3
    BatchLength = 2
    MaxFaults = 1
    MaxPasses = 1
INVARIANT ToldIsKept
INVARIANT OverlapNoticed
INVARIANT CursorsReleased
