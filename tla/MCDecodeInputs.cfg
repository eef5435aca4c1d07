SPECIFICATION DecodeSpec
CONSTANTS
    a = a
    b = b
    s1 = s1
    s2 = s2
    s3 = s3
    NumBlocks = 3
    BlockSize = 2
    EnablePrefixCaching = FALSE
    SeqId = {s1, s2}
    Token = {a}
    Prompts <- MCPrompts
    MaxLen = 4
    BatchBuckets = {2}
    CtxBuckets = {2, 4}
    MaxBlocks = 3
    DummyBlock = 3
    PadToken = b
    MaxEpoch = 1
    StreamDepth = 2
    SideDepth = 2
    WarmupSteps = 2
SYMMETRY Symmetry
INVARIANTS
    StagingMatchesRebuild
    GraphReadsThisStep
    RowKeyNamesTable
