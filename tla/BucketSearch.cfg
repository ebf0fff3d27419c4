SPECIFICATION SearchSpec
CONSTANTS
    MaxCount = 7
    MaxLatency = 8
INVARIANT SearchTypeOK
INVARIANT FoundIsBucket
PROPERTY WindowShrinks
