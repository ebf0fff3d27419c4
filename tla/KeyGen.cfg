SPECIFICATION Spec
CONSTANTS
    MaxReaders = 3
    MaxWriters = 3
    MaxPeriod = 7
    BatchLength = 3
    Widths = {3, 4, 5, 6}
    MaxRuns = 3
INVARIANT RunCoversSpace
INVARIANT GeneratorsInStep
INVARIANT WrittenKeysDistinct
