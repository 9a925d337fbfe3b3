SPECIFICATION MCSpec
CONSTANTS
    Threads = {t1, t2, t3}
    Nobody = Nobody
    SpinIterations = 1
    MaxCalls = 4
CHECK_DEADLOCK FALSE
INVARIANTS RwTypeOK CountMeans LockSleepersRemembered WriterSleepRemembered
PROPERTIES RwImplemented EveryCallServed
