SPECIFICATION Spec
CONSTANTS
    a = a
    eos = eos
    s1 = s1
    s2 = s2
    s3 = s3
    Token = {a, eos}
    StopTokens = {eos}
    SeqId = {s1, s2, s3}
    NumBlocks = 3
    BlockSize = 2
    EnablePrefixCaching = TRUE
    Prompts <- PromptsDiverge
    MaxLen = 6
    MaxNumBatchedTokens = 3
    MaxNumSeqs = 3
    MaxTokens = 3
    ExecutionMayFail = FALSE
SYMMETRY Symmetry
INVARIANTS
    TypeOK
    ScheduleStaysTrue
    NoSlotWrittenTwice
    ReadsOwnContext
    PreemptedWaitInFront
PROPERTIES
    PreemptionFreesBlocks
    ManagerSpec
