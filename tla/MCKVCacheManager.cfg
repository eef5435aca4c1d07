SPECIFICATION KVSpec
CONSTANTS
    a = a
    b = b
    s1 = s1
    s2 = s2
    s3 = s3
    NumBlocks = 3
    BlockSize = 2
    EnablePrefixCaching = TRUE
    SeqId = {s1, s2, s3}
    Token = {a, b}
    Prompts <- MCPrompts
    MaxLen = 4
SYMMETRY Symmetry
INVARIANTS
    KVTypeOK
    CheckInvariants
    SharersAgree
    OneWriterPerBlock
    HoldersWithinPool
    TableCoversTokens
    LoneSequenceFits
PROPERTIES
    TablesGrowAtTheEnd
