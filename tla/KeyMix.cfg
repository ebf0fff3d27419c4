SPECIFICATION ShuffleSpec
CONSTANTS
    SboxSize = 4
    KeySize = 3
    ExOr <- BitXor
INVARIANT StaysPermutation
INVARIANT KeysDistinct
