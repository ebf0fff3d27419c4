SPECIFICATION Spec
CONSTANTS
    Benches = {"set", "crud", "get"}
    MinThreads = 0
    MaxReaders = 1
    MaxWriters = 2
INVARIANT TypeOK
INVARIANT NoFatal
INVARIANT ClosedWithoutContexts
INVARIANT ReportComplete
INVARIANT WritersApart
PROPERTY CompletesTogether
PROPERTY Terminates
