SPECIFICATION CHSpec
CONSTANTS
    Blocks = {0, 1, 2, 4, 6}
    NoBlock = NoBlock
    NumSets <- MCNumSets
    TraceMod = 2
    Runs <- MCRuns
CHECK_DEADLOCK FALSE
INVARIANTS CacheTypeOK MissesAccounted PredictionsAccounted TraceKnown PrefetchesAccounted UsedIsMostRecent OneDemandEntry
PROPERTY LruImplemented
