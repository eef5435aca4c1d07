SPECIFICATION Spec
CONSTANTS
    BlockSize = 2
    MinKernelPage = 2
    SmallTile = 2
    LargeTile = 4
    ContextLens = {0, 2, 3}
    QueryLens = {1, 3, 5}
    MaxSeqs = 3
INVARIANTS
    AttendsToPrefix
    LoadsStoredOnly
    SamplesWholeSequence
