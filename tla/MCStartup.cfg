SPECIFICATION StartupSpec
CONSTANTS
    NumLayers = 2
    BlockSize = 2
    BytesPerBlock = 3
    TotalMemory = 40
    Reserve = 4
    Allocated = {10, 24, 36}
    FreeMemory = {4, 7, 14, 25}
    NumCpuBlocks = 5
    BatchBuckets = {1, 2, 4}
    QKVTails = {"weight", "bias"}
    GateTails = {"weight"}
    PlainNames <- MCPlain
    Configs <- MCConfigs
    KeyOrders <- MCKeyOrders
CHECK_DEADLOCK FALSE
INVARIANTS
    PaddingOffThePool
    PoolIsBacked
    EngineRunsLoadedModel
