SPECIFICATION CHSpec
CONSTANTS
    Blocks = {0, 1, 2, 4, 6}
    NoBlock = NoBlock
    NumSets <- MCNumSets
    TraceMod = 2
    Runs <- PairRuns
CHECK_DEADLOCK FALSE
INVARIANT PrefetchFollowsBoth
