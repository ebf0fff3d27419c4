SPECIFICATION EmulatedSpec
CONSTANTS
    Benches = {"set", "crud", "get"}
    MinThreads = 0
    MaxReaders = 1
    MaxWriters = 1
INVARIANT NoFatal
