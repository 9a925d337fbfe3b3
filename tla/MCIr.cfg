SPECIFICATION MCSpec
CONSTANTS
    W = 4
    Windows <- SmallWindows
    Caller = Caller
    MaxInsts = 7
    DNA = DNA
    r1 = r1
    r2 = r2
    f1 = f1
    a1 = a1
    a2 = a2
    b1 = b1
    b2 = b2
    t1 = t1
    t2 = t2
    Regs <- MCRegs
    FpRegs <- MCFpRegs
    Addrs <- MCAddrs
    Pcs <- MCPcs
    Instrs <- AllInstrs
    Programs <- AllPrograms
INVARIANTS TypeOK ProducersOccupied OrtLatestWriter ReferencedExact DiscountedBeyondSlot0 RemovalsAccounted BtbCountExact ConstTargetSound VisitIsFixedPoint
PROPERTIES VerdictsJustified EveryStepShrinks
