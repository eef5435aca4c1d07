SPECIFICATION Spec
CONSTANTS
    a = a
    eos = eos
    s1 = s1
    s2 = s2
    s3 = s3
    Token = {a, eos}
    StopTokens = {eos}
    SeqId = {s1, s2}
    NumBlocks = 3
    BlockSize = 2
    EnablePrefixCaching = FALSE
    Prompts <- PromptShort
    MaxLen = 6
    MaxNumBatchedTokens = 2
    MaxNumSeqs = 2
    MaxTokens = 4
    ExecutionMayFail = FALSE
SYMMETRY Symmetry
INVARIANTS
    PreemptionIsTransparent
