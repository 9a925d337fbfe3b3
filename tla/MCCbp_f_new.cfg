SPECIFICATION BHSpec
CONSTANTS
    PCs <- MCPCs
    NoPC = NoPC
    NumBanks = 2
    HistLen <- MCHistLen
    MaxHistLen = 4
    LogTagged = 1
    TagBits = 2
    IntBits = 3
    SatLow <- MCSatLow
    SatHigh = 1
    MaxUseful = 3
    Indices = {0, 1}
    Tags = {0, 1, 2, 3}
    ZeroIndex = 0
    ZeroTag = 0
    BaseIndex <- MCBaseIndex
    PathBit <- MCPathBit
    IndexOf <- MCIndexOf
    TagOf <- MCTagOf
    MaxRecords = 7
CHECK_DEADLOCK FALSE
INVARIANT EstablishedProviderUsed
