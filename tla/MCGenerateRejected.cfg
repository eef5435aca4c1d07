SPECIFICATION GenerateSpec
CONSTANTS
    a = a
    eos = eos
    s1 = s1
    s2 = s2
    s3 = s3
    Token = {a, eos}
    StopTokens = {eos}
    SeqId = {s1, s2}
    NumBlocks = 2
    BlockSize = 2
    EnablePrefixCaching = FALSE
    Prompts <- MCPrompts
    MaxLen = 6
    MaxNumBatchedTokens = 4
    MaxNumSeqs = 2
    MaxTokens = 3
    ExecutionMayFail = FALSE
    MaxPrompts = 2
CHECK_DEADLOCK FALSE
SYMMETRY Symmetry
INVARIANTS
    OneOutputPerPrompt
