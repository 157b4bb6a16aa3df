SPECIFICATION Spec
CONSTANTS
    U64Max = 105
    U64Digits = 3
    U31Max = 7
    NoValue = NoValue
    NoText = NoText
    KnownKeys = {"low", "max"}
    Tokens <- MCTokens
    Levels <- MCLevels
    CpuLists <- MCCpuLists
    CounterFiles <- MCCounterFiles
    Memberships <- MCMemberships
    Mountinfos <- MCMountinfos
    Paths <- MCPaths
    Commands <- MCCommands
CHECK_DEADLOCK FALSE
INVARIANT ValuesExact
INVARIANT MetadataUnambiguous
