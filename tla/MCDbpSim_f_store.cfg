SPECIFICATION DSpec
CONSTANTS
    Blocks = {0, 1, 2, 3}
    NoBlock = NoBlock
    NumSets <- MCNumSets
    TraceMod = 2
    Runs <- MCRuns
    Threads = {t1}
    Insts <- MCInsts
    MaxInsts = 3
CHECK_DEADLOCK FALSE
INVARIANT StoresRecorded
