SPECIFICATION FairGenerateSpec
CONSTANTS
    a = a
    eos = eos
    s1 = s1
    s2 = s2
    s3 = s3
    Token = {a, eos}
    StopTokens = {eos}
    SeqId = {s1, s2, s3}
    NumBlocks = 2
    BlockSize = 2
    EnablePrefixCaching = TRUE
    Prompts <- MCPrompts
    MaxLen = 6
    MaxNumBatchedTokens = 5
    MaxNumSeqs = 2
    MaxTokens = 3
    ExecutionMayFail = TRUE
    MaxPrompts = 2
CHECK_DEADLOCK FALSE
INVARIANTS
    AnsweredInFull
    AnsweredInOrder
PROPERTIES
    CallEnds
