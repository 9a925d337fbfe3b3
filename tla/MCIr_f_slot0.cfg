SPECIFICATION MCSpec
CONSTANTS
    W = 3
    Windows <- NoWindows
    Caller = Caller
    MaxInsts = 3
    DNA = DNA
    r1 = r1
    r2 = r2
    f1 = f1
    a1 = a1
    a2 = a2
    b1 = b1
    b2 = b2
    t1 = t1
    t2 = t2
    Regs <- MCRegs
    FpRegs <- MCFpRegs
    Addrs <- MCAddrs
    Pcs <- MCPcs
    Programs <- ChainPrograms
    Instrs <- ChainInstrs
CHECK_DEADLOCK FALSE
INVARIANT DeadConsumersDiscounted
