SPECIFICATION StepSpec
CONSTANTS
    NumLayers = 2
    NumHeads = 4
    NumKVHeads = 2
    IntermediateSize = 3
    SiluBlock = 4
    WordBits = 6
    NumSeqs = 2
    PromptLens = {1, 2}
    MaxLen = 2
    MaxNumBatchedTokens = 3
    ProfileTokens = 2
    GraphBuckets = {1, 3}
    WarmupSteps = 1
    VocabSize = 5
    ArgmaxBlock = 2
    MinLogit <- MCMinLogit
    LogitRows <- MCLogitRows
    TopPs = {0, 5, 10}
CHECK_DEADLOCK FALSE
INVARIANTS
    CacheAgreesInEveryLayer
    LogitsSeeWholePrefix
    GreedyIsFirstMaximum
    NucleusKept
