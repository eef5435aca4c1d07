SPECIFICATION Spec
CONSTANTS
    BlockSize = 2
    NumKVHeads = 1
    SMCounts = {4, 16}
    MinPartitionBlocks = 1
    BatchBuckets = {1, 2, 4}
    CtxBuckets = {4, 10}
    AutoMode = AutoMode
    Settings <- MCSettings
    Lengths = {1, 4, 7, 10}
    MaxRows = 3
INVARIANTS
    AttendsOnce
    EagerAndGraphCutAlike
PROPERTIES
    KernelSpec
