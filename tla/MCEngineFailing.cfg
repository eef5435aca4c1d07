SPECIFICATION Spec
CONSTANTS
    a = a
    eos = eos
    s1 = s1
    s2 = s2
    s3 = s3
    Token = {a, eos}
    StopTokens = {eos}
    SeqId = {s1, s2, s3}
    NumBlocks = 3
    BlockSize = 2
    EnablePrefixCaching = TRUE
    Prompts <- PromptsTooLong
    MaxLen = 9
    MaxNumBatchedTokens = 4
    MaxNumSeqs = 3
    MaxTokens = 4
    ExecutionMayFail = TRUE
SYMMETRY Symmetry
INVARIANTS
    QueuesAndBlocksAgree
    EveryRunningIsScheduled
    NeverStalls
    DeliveredIsGenerated
PROPERTIES
    OldestKeepsRunning
    ManagerSpec
