---------------------------- MODULE IrHistoryProofs ----------------------------
(***************************************************************************)
(* TypeOK of the detector, then the invariants of IrHistory as theorems,   *)
(* for every window size and instruction set, and the refinement of        *)
(* IrVerdicts.  TypeOK is inductive: each operator process_new_instr is    *)
(* built from returns what has the type.  The inductive invariant adds to  *)
(* it what ties the circular FIFO to its history: occupied slots are those *)
(* filled so far, and an occupied slot holds the operands of the           *)
(* instruction put there.                                                  *)
(***************************************************************************)
EXTENDS IrRefinement, FiniteSetTheorems, TLAPS

-----------------------------------------------------------------------------
(* Facts about the constants.                                              *)

LEMMA SlotsFacts ==
    /\ 0 \in Slots
    /\ \A s \in Slots : s \in Nat /\ s < W
    /\ \A s \in Slots : NextSlot(s) \in Slots
    /\ W \div 2 \in Slots
    /\ IsFiniteSet(Slots)
BY WAssumption, FS_Interval DEF Slots, NextSlot

LEMMA OperandIndices == IsFiniteSet(1..3) /\ IsFiniteSet(1..2)
<1>1. 1 \in Int /\ 2 \in Int /\ 3 \in Int
    OBVIOUS
<1> QED
    BY <1>1, FS_Interval, Zenon

LEMMA InstrFacts ==
    ASSUME NEW i \in Instrs
    PROVE  /\ i.kind \in Kinds
           /\ i.ins \in [1..3 -> Regs \cup {DNA}]
           /\ i.loads \in [1..2 -> Addrs \cup {DNA}]
           /\ i.outs \in [1..2 -> Locs]
           /\ i.pc \in Pcs
           /\ i.next \in Pcs
           /\ WellFormed(i)
BY InstrsAssumption DEF Instr

-----------------------------------------------------------------------------
(* The cascade.                                                            *)

(* The consumers an entry loses are a natural number. *)
LEMMA LossesType ==
    ASSUME NEW src, NEW ps, NEW F \in SUBSET Slots, NEW p \in Slots
    PROVE  Losses(src, ps, F, p) \in Nat
<1>1. IsFiniteSet(1..3)
    BY OperandIndices
<1>2. IsFiniteSet({k \in 1..3 : ps[k] = p})
    BY <1>1, FS_Subset
<1>3. Mentions(ps, p) \in Nat
    BY <1>2, FS_CardinalityType DEF Mentions
<1>4. IsFiniteSet(F)
    BY SlotsFacts, FS_Subset
<1>5. IsFiniteSet(F \X (1..3))
    BY <1>1, <1>4, FS_Product
<1>6. IsFiniteSet({e \in F \X (1..3) : src[e[1]][e[2]] = p})
    BY <1>5, FS_Subset
<1>7. Cardinality({e \in F \X (1..3) : src[e[1]][e[2]] = p}) \in Nat
    BY <1>6, FS_CardinalityType
<1> QED
    BY <1>3, <1>7 DEF Losses

LEMMA ExhaustedType ==
    ASSUME NEW count, NEW src, NEW live, NEW ps
    PROVE  Exhausted(count, src, live, ps) \in SUBSET Slots
BY DEF Exhausted

(* _decrement_consumer leaves natural numbers behind and raises none: the  *)
(* counts, signed in the code, never become negative.                      *)
LEMMA DecrementType ==
    ASSUME NEW count \in [Slots -> Nat], NEW src, NEW live, NEW ps
    PROVE  /\ Decrement(count, src, live, ps) \in [Slots -> Nat]
           /\ \A p \in Slots : Decrement(count, src, live, ps)[p] <= count[p]
<1> DEFINE F == Exhausted(count, src, live, ps)
<1>1. \A p \in Slots : Losses(src, ps, F, p) \in Nat
    BY LossesType, ExhaustedType
<1> HIDE DEF F
<1>2. Decrement(count, src, live, ps)
        = [p \in Slots |-> IF Losses(src, ps, F, p) >= count[p]
                           THEN 0 ELSE count[p] - Losses(src, ps, F, p)]
    BY DEF Decrement, F
<1> QED
    BY <1>1, <1>2

-----------------------------------------------------------------------------
(* The steps of process_new_instr.                                         *)

LEMMA IncomingType ==
    ASSUME TypeOK, NEW i \in Instrs
    PROVE  Incoming(i) \in FifoEntry
<1>1. \A k \in 1..3 :
        (IF i.ins[k] = DNA THEN -1 ELSE ort[i.ins[k]].producer_idx)
            \in Slots \cup {-1}
    BY InstrFacts DEF TypeOK, OrtEntry, Locs
<1>2. [k \in 1..3 |-> IF i.ins[k] = DNA
                      THEN -1 ELSE ort[i.ins[k]].producer_idx] \in Srcs
    BY <1>1 DEF Srcs
<1> QED
    BY <1>2, InstrFacts DEF Incoming, FifoEntry

LEMMA BranchSeenType ==
    ASSUME TypeOK, NEW i \in Instrs
    PROVE  BranchSeen(i) \in [Pcs -> BtbEntry]
BY InstrFacts DEF TypeOK, BranchSeen, BtbEntry, FreshBranch

LEMMA BranchGoneType ==
    ASSUME NEW b \in [Pcs -> BtbEntry], NEW pc \in Pcs \cup {DNA}
    PROVE  BranchGone(b, pc) \in [Pcs -> BtbEntry]
BY DEF BranchGone, BtbEntry

(* The rename tables, counts and finds on the way through one call. *)
Flow == [ort : [Locs -> OrtEntry], count : [Slots -> Nat], uref : Nat]

(* The detector calls _decrement_consumer on members of Window only: what  *)
(* IrDecrementDfsProofs proves of the recursion is about these calls.      *)
LEMMA DropsAreWindows ==
    ASSUME TypeOK, NEW d \in Flow, NEW s \in Slots
    PROVE  \E w \in Window : DropProducers(d.count, d.ort, s)
                                = Decrement(w.count, w.src, w.live, w.ps)
<1> DEFINE w == [count |-> d.count, src |-> Window_src,
                 live |-> CurrentProducers(d.ort), ps |-> window[s].src]
<1>1. window[s].src \in Srcs /\ Window_src \in [Slots -> Srcs]
    BY DEF TypeOK, FifoEntry, Window_src
<1>2. CurrentProducers(d.ort) \in SUBSET Slots /\ d.count \in [Slots -> Nat]
    BY DEF CurrentProducers, Flow
<1>3. w \in Window
    BY <1>1, <1>2 DEF Window
<1> QED
    BY <1>3 DEF DropProducers

LEMMA MarkType ==
    ASSUME NEW e \in OrtEntry, NEW mark \in BOOLEAN
    PROVE  [e EXCEPT !.referenced = mark] \in OrtEntry
BY DEF OrtEntry

LEMMA RefUpdateType ==
    ASSUME TypeOK, NEW i \in Instrs
    PROVE  RefUpdate(i) \in Flow
<1> DEFINE ref(l) == \/ ort[l].referenced
                     \/ \E k \in 1..3 : ReadReg(i, k) /\ i.ins[k] = l
                     \/ \E k \in 1..2 : ReadMem(i, k) /\ i.loads[k] = l
<1>a. \A l \in Locs : ref(l) \in BOOLEAN
    OBVIOUS
<1>b. RefUpdate(i).ort = [l \in Locs |-> [ort[l] EXCEPT !.referenced = ref(l)]]
    BY DEF RefUpdate
<1> HIDE DEF ref
<1>c. \A l \in Locs : [ort[l] EXCEPT !.referenced = ref(l)] \in OrtEntry
    BY <1>a, MarkType DEF TypeOK
<1>1. RefUpdate(i).ort \in [Locs -> OrtEntry]
    BY <1>b, <1>c
<1>2. IsFiniteSet(1..3) /\ IsFiniteSet(1..2)
    BY OperandIndices
<1>3. ASSUME NEW s \in Slots
      PROVE  /\ Cardinality({k \in 1..3 :
                    ReadReg(i, k) /\ ort[i.ins[k]].producer_idx = s}) \in Nat
             /\ Cardinality({k \in 1..2 :
                    ReadMem(i, k) /\ ort[i.loads[k]].producer_idx = s}) \in Nat
    <2>1. IsFiniteSet({k \in 1..3 :
                ReadReg(i, k) /\ ort[i.ins[k]].producer_idx = s})
        BY <1>2, FS_Subset
    <2>2. IsFiniteSet({k \in 1..2 :
                ReadMem(i, k) /\ ort[i.loads[k]].producer_idx = s})
        BY <1>2, FS_Subset
    <2> QED
        BY <2>1, <2>2, FS_CardinalityType
<1>4. RefUpdate(i).count \in [Slots -> Nat]
    BY <1>3 DEF RefUpdate, TypeOK
<1> QED
    BY <1>1, <1>4 DEF RefUpdate, Flow

LEMMA OverwriteType ==
    ASSUME TypeOK, NEW d \in Flow, NEW loc \in Locs, NEW pair \in Locs
    PROVE  Overwrite(d, loc, pair) \in Flow
<1>1. CASE loc = DNA
    BY <1>1 DEF Overwrite
<1>2. CASE loc # DNA
    <2> DEFINE dropped == DropProducers(d.count, d.ort, d.ort[loc].producer_idx)
    <2>1. dropped \in [Slots -> Nat]
        BY DecrementType DEF DropProducers, Flow
    <2>2. [d.ort EXCEPT ![loc] =
             [valid |-> TRUE, referenced |-> FALSE,
              producer_idx |-> fifo_head, ort_pair |-> pair]] \in [Locs -> OrtEntry]
        BY DEF TypeOK, Flow, OrtEntry
    <2> HIDE DEF dropped
    <2>3. Overwrite(d, loc, pair) =
            [ort |-> [d.ort EXCEPT ![loc] =
                        [valid |-> TRUE, referenced |-> FALSE,
                         producer_idx |-> fifo_head, ort_pair |-> pair]],
             count |-> IF Unreferenced(d.ort[loc]) THEN dropped ELSE d.count,
             uref |-> d.uref + (IF Unreferenced(d.ort[loc]) THEN 1 ELSE 0)]
        BY <1>2 DEF Overwrite, EnqueueSlot, dropped
    <2>4. d.uref + (IF Unreferenced(d.ort[loc]) THEN 1 ELSE 0) \in Nat
        BY DEF Flow
    <2>5. (IF Unreferenced(d.ort[loc]) THEN dropped ELSE d.count) \in [Slots -> Nat]
        BY <2>1 DEF Flow
    <2> QED
        BY <2>2, <2>3, <2>4, <2>5 DEF Flow
<1> QED
    BY <1>1, <1>2

LEMMA DataflowType ==
    ASSUME TypeOK, NEW i \in Instrs, NEW removed \in BOOLEAN
    PROVE  Dataflow(i, removed) \in Flow
<1>1. i.outs[1] \in Locs /\ i.outs[2] \in Locs
    BY InstrFacts
<1>2. Overwrite(RefUpdate(i), i.outs[1], i.outs[2]) \in Flow
    BY <1>1, RefUpdateType, OverwriteType
<1>3. Overwrite(Overwrite(RefUpdate(i), i.outs[1], i.outs[2]),
                i.outs[2], i.outs[1]) \in Flow
    BY <1>1, <1>2, OverwriteType
<1>4. [ort |-> ort, count |-> consumer_count, uref |-> 0] \in Flow
    BY DEF TypeOK, Flow
<1> QED
    BY <1>3, <1>4 DEF Dataflow

LEMMA MidCheckType ==
    ASSUME TypeOK, NEW d \in Flow, NEW b
    PROVE  MidCheck(d, b) \in [Slots -> Nat]
<1>1. DropProducers(d.count, d.ort, fifo_mid) \in [Slots -> Nat]
    BY DecrementType DEF DropProducers, Flow
<1> QED
    BY <1>1 DEF MidCheck, Flow

LEMMA EvictType ==
    ASSUME NEW o \in [Locs -> OrtEntry]
    PROVE  Evict(o) \in [Locs -> OrtEntry]
BY DEF Evict, OrtEntry

LEMMA RemovedOnEntryType ==
    ASSUME NEW i
    PROVE  RemovedOnEntry(i) \subseteq BOOLEAN
BY DEF RemovedOnEntry, KeepsAll

-----------------------------------------------------------------------------
(* The type invariant.                                                     *)

LEMMA TypeOKInit == Init => TypeOK
<1> SUFFICES ASSUME Init PROVE TypeOK
    OBVIOUS
<1>1. ort \in [Locs -> OrtEntry]
    BY SlotsFacts DEF Init, DefaultOrtEntry, OrtEntry, Locs
<1>2. window \in [Slots -> FifoEntry]
    BY SlotsFacts DEF Init, EmptyFifoEntry, FifoEntry, Srcs, Locs
<1>3. btb \in [Pcs -> BtbEntry]
    BY DEF Init, DefaultBtbEntry, BtbEntry
<1> QED
    BY <1>1, <1>2, <1>3, SlotsFacts, WAssumption DEF Init, TypeOK

LEMMA TypeOKStep ==
    ASSUME TypeOK, NEW i \in Instrs, NEW removed \in BOOLEAN,
           Retire(i, removed)
    PROVE  TypeOK'
<1> DEFINE b == BranchSeen(i)
           d == Dataflow(i, removed)
           c == MidCheck(d, b)
           br == window[fifo_head].branch_pc
<1>1. b \in [Pcs -> BtbEntry]
    BY BranchSeenType
<1>2. d \in Flow
    BY DataflowType
<1>3. c \in [Slots -> Nat]
    BY <1>2, MidCheckType
<1>4. br \in Pcs \cup {DNA}
    BY DEF TypeOK, FifoEntry
<1>5. (ort \in [Locs -> OrtEntry])'
    BY <1>2, EvictType DEF Retire, ProcessNewInstr, Flow
<1>6. (btb \in [Pcs -> BtbEntry])'
    BY <1>1, <1>4, BranchGoneType DEF Retire, ProcessNewInstr
<1>7. (removed_map \in [Pcs -> Nat])'
    BY DEF TypeOK, Retire, ProcessNewInstr, Removals, Add
<1>8. (window \in [Slots -> FifoEntry])'
    BY IncomingType DEF TypeOK, Retire, ProcessNewInstr
<1>9. (consumer_count \in [Slots -> Nat])'
    BY <1>3 DEF TypeOK, Retire, ProcessNewInstr
<1>10. (fifo_head \in Slots /\ fifo_mid \in Slots /\ w_instr_cnt \in 0..W)'
    BY SlotsFacts, WAssumption DEF TypeOK, Retire, ProcessNewInstr, Evicting
<1>11. (stats \in [Counters -> Nat])'
    <2>1. stats \in [Counters -> Nat] /\ d.uref \in Nat
        BY <1>2 DEF TypeOK, Flow
    <2> HIDE DEF d, c, b
    <2>2. stats' = [k \in Counters |->
                CASE k = "transitive" -> Add(stats[k], Evicting /\ c[fifo_head] = 0)
                  [] k = "inef_br" ->
                        Add(Add(stats[k], removed /\ EntryCounter(i) = k),
                            IneffectualBranch(b))
                  [] k \in {"reg_nmod", "mem_nmod"} ->
                        Add(stats[k], removed /\ EntryCounter(i) = k)
                  [] k = "mem_uref" -> stats[k] + (IF i.kind = "store" THEN d.uref ELSE 0)
                  [] k = "reg_uref" -> stats[k] + (IF i.kind # "store" THEN d.uref ELSE 0)]
        BY DEF Retire, ProcessNewInstr, b, c, d
    <2> QED
        BY <2>1, <2>2 DEF Counters, Add
<1>12. (sim_num_insn \in Nat)'
    BY DEF TypeOK, Retire
<1> QED
    BY <1>5, <1>6, <1>7, <1>8, <1>9, <1>10, <1>11, <1>12 DEF TypeOK

(* The tables, the window and the counters of the IR detector keep their   *)
(* types on every run: indices stay inside the window and no consumer      *)
(* count becomes negative (_decrement_consumer, lines 185-212).            *)
THEOREM TypeCorrect == Spec => []TypeOK
<1>1. Init => TypeOK
    BY TypeOKInit
<1>2. TypeOK /\ [Next]_vars => TypeOK'
    <2> SUFFICES ASSUME TypeOK, [Next]_vars PROVE TypeOK'
        OBVIOUS
    <2>1. CASE Next
        BY <2>1, TypeOKStep, RemovedOnEntryType DEF Next
    <2>2. CASE UNCHANGED vars
        BY <2>2 DEF TypeOK, vars
    <2> QED
        BY <2>1, <2>2
<1> QED
    BY <1>1, <1>2, PTL DEF Spec

-----------------------------------------------------------------------------
(* History. *)

(* The FIFO fills from slot 0 on, and stays full. *)
WindowShape ==
    /\ w_instr_cnt < W =>
          /\ fifo_head = w_instr_cnt
          /\ \A s \in Slots : window[s].valid <=> s < fifo_head
    /\ w_instr_cnt = W => \A s \in Slots : window[s].valid

(* An entry holds what its instruction gave it; an empty one is no branch. *)
PastMatches ==
    /\ past \in [Slots -> [instr : Instrs \cup {DNA}, removed : BOOLEAN]]
    /\ \A s \in Slots :
          IF window[s].valid
          THEN /\ past[s].instr \in Instrs
               /\ window[s].outs = past[s].instr.outs
               /\ window[s].branch_pc =
                    IF past[s].instr.kind = "cond" THEN past[s].instr.pc ELSE DNA
          ELSE window[s].branch_pc = DNA

HistoryInv == TypeOK /\ WindowShape /\ PastMatches

-----------------------------------------------------------------------------
(* The ring.                                                               *)

LEMMA HistoryInit == HInit => HistoryInv
<1> SUFFICES ASSUME HInit PROVE HistoryInv
    OBVIOUS
<1>1. TypeOK
    BY TypeOKInit DEF HInit
<1>2. WindowShape
    BY SlotsFacts, WAssumption DEF HInit, Init, WindowShape, EmptyFifoEntry
<1>3. PastMatches
    BY DEF HInit, Init, PastMatches, EmptyFifoEntry, Nothing
<1> QED
    BY <1>1, <1>2, <1>3 DEF HistoryInv

LEMMA HistoryStep ==
    ASSUME HistoryInv, NEW i \in Instrs, NEW removed \in BOOLEAN,
           HRetire(i, removed)
    PROVE  HistoryInv'
<1>1. TypeOK'
    BY TypeOKStep DEF HistoryInv, HRetire
<1> DEFINE e == Incoming(i)
<1>2. /\ window' = [window EXCEPT ![fifo_head] = e]
      /\ fifo_head' = NextSlot(fifo_head)
      /\ w_instr_cnt' = IF Evicting THEN W ELSE w_instr_cnt + 1
    BY DEF HRetire, Retire, ProcessNewInstr
<1>3. /\ e.valid
      /\ e.outs = i.outs
      /\ e.branch_pc = IF i.kind = "cond" THEN i.pc ELSE DNA
    BY DEF Incoming
<1>4. fifo_head \in Slots /\ window \in [Slots -> FifoEntry] /\ w_instr_cnt \in 0..W
    BY DEF HistoryInv, TypeOK
<1> HIDE DEF e
<1>5. WindowShape'
    <2>1. CASE Evicting
        BY <2>1, <1>2, <1>3, <1>4, WAssumption
           DEF HistoryInv, WindowShape, Evicting
    <2>2. CASE ~Evicting
        <3>1. w_instr_cnt < W /\ fifo_head = w_instr_cnt
            BY <2>2, <1>4, WAssumption DEF HistoryInv, WindowShape, Evicting
        <3>2. \A s \in Slots : window'[s].valid <=> s <= fifo_head
            BY <3>1, <1>2, <1>3, <1>4, SlotsFacts DEF HistoryInv, WindowShape
        <3> QED
            BY <3>1, <3>2, <2>2, <1>2, <1>4, SlotsFacts, WAssumption
               DEF WindowShape, NextSlot, Slots
    <2> QED
        BY <2>1, <2>2
<1>6. PastMatches'
    <2>1. past' = [past EXCEPT ![fifo_head] = [instr |-> i, removed |-> removed]]
        BY DEF HRetire
    <2> QED
        BY <2>1, <1>2, <1>3, <1>4 DEF HistoryInv, PastMatches
<1> QED
    BY <1>1, <1>5, <1>6 DEF HistoryInv

(* Retiring an instruction makes it the youngest and the others older.     *)
LEMMA AgeStep ==
    ASSUME HistoryInv, NEW i \in Instrs, NEW removed \in BOOLEAN,
           HRetire(i, removed)
    PROVE  \A s \in Slots :
              /\ Age(s) \in 0 .. W-1
              /\ Age(s)' = IF s = fifo_head THEN 0 ELSE Age(s) + 1
<1>1. fifo_head \in Slots /\ fifo_head' = NextSlot(fifo_head)
    BY DEF HistoryInv, TypeOK, HRetire, Retire, ProcessNewInstr
<1> SUFFICES ASSUME NEW s \in Slots
             PROVE  /\ Age(s) \in 0 .. W-1
                    /\ Age(s)' = IF s = fifo_head THEN 0 ELSE Age(s) + 1
    OBVIOUS
<1>2. Age(s)' = IF s < fifo_head' THEN fifo_head' - 1 - s ELSE fifo_head' - 1 - s + W
    BY DEF Age
<1> QED
    BY <1>1, <1>2, WAssumption DEF NextSlot, Slots, Age

(* Who accepted-writes or reads what after the step, in terms of before.   *)
LEMMA EffectStep ==
    ASSUME HistoryInv, NEW i \in Instrs, NEW removed \in BOOLEAN,
           HRetire(i, removed), NEW l, NEW s \in Slots
    PROVE  /\ Writes(s, l)' <=>
                IF s = fifo_head THEN ~removed /\ \E k \in 1..2 : i.outs[k] = l
                                 ELSE Writes(s, l)
           /\ Reads(s, l)' <=>
                IF s = fifo_head
                THEN /\ ~removed
                     /\ \/ \E k \in 1..3 : i.ins[k] = l
                        \/ \E k \in 1..2 : i.loads[k] = l
                ELSE Reads(s, l)
<1>1. /\ window' = [window EXCEPT ![fifo_head] = Incoming(i)]
      /\ past' = [past EXCEPT ![fifo_head] = [instr |-> i, removed |-> removed]]
    BY DEF HRetire, Retire, ProcessNewInstr
<1>2. Incoming(i).valid
    BY DEF Incoming
<1>3. /\ fifo_head \in Slots /\ window \in [Slots -> FifoEntry]
      /\ past \in [Slots -> [instr : Instrs \cup {DNA}, removed : BOOLEAN]]
    BY DEF HistoryInv, TypeOK, PastMatches
<1>4. CASE s = fifo_head
    <2>1. window'[s].valid /\ past'[s].instr = i /\ past'[s].removed = removed
        BY <1>1, <1>2, <1>3, <1>4
    <2> QED
        BY <2>1, <1>4 DEF Writes, Reads, Accepted
<1>5. CASE s # fifo_head
    <2>1. window'[s] = window[s] /\ past'[s] = past[s]
        BY <1>1, <1>3, <1>5
    <2> QED
        BY <2>1, <1>5 DEF Writes, Reads, Accepted
<1> QED
    BY <1>4, <1>5

-----------------------------------------------------------------------------
(* The rename tables.                                                      *)

WrittenBy(i, l) == \E k \in 1..2 : i.outs[k] = l

ReadBy(i, l) == \/ \E k \in 1..3 : i.ins[k] = l
                \/ \E k \in 1..2 : i.loads[k] = l

(* What the body of the call up to the window checks does to the entry of  *)
(* a location: write it, or mark it, or leave it alone.                    *)
LEMMA OverwriteOrt ==
    ASSUME TypeOK, NEW d \in Flow, NEW loc \in Locs, NEW pair \in Locs,
           NEW l \in Locs
    PROVE  Overwrite(d, loc, pair).ort[l] =
              IF l = loc /\ loc # DNA
              THEN [valid |-> TRUE, referenced |-> FALSE,
                    producer_idx |-> fifo_head, ort_pair |-> pair]
              ELSE d.ort[l]
BY DEF Overwrite, EnqueueSlot, Flow

LEMMA DataflowOrt ==
    ASSUME TypeOK, NEW i \in Instrs, NEW removed \in BOOLEAN,
           NEW l \in Regs \cup Addrs
    PROVE  LET e == Dataflow(i, removed).ort[l]
           IN  /\ removed => e = ort[l]
               /\ ~removed /\ WrittenBy(i, l) =>
                    e.valid /\ ~e.referenced /\ e.producer_idx = fifo_head
               /\ ~removed /\ ~WrittenBy(i, l) =>
                    /\ e.valid = ort[l].valid
                    /\ e.producer_idx = ort[l].producer_idx
                    /\ ort[l].valid =>
                          (e.referenced <=> ort[l].referenced \/ ReadBy(i, l))
<1> DEFINE d0 == RefUpdate(i)
           d1 == Overwrite(d0, i.outs[1], i.outs[2])
           d2 == Overwrite(d1, i.outs[2], i.outs[1])
<1>1. /\ i.outs[1] \in Locs /\ i.outs[2] \in Locs
      /\ l \in Locs /\ l # DNA
    BY InstrFacts, LocsAssumption DEF Locs
<1>2. d0 \in Flow /\ d1 \in Flow
    BY <1>1, RefUpdateType, OverwriteType
<1>3. Dataflow(i, removed).ort = IF removed THEN ort ELSE d2.ort
    BY DEF Dataflow
<1>4. /\ d0.ort[l].valid = ort[l].valid
      /\ d0.ort[l].producer_idx = ort[l].producer_idx
      /\ ort[l].valid => (d0.ort[l].referenced <=> ort[l].referenced \/ ReadBy(i, l))
    <2>1. d0.ort[l] = [ort[l] EXCEPT !.referenced =
                          \/ ort[l].referenced
                          \/ \E k \in 1..3 : ReadReg(i, k) /\ i.ins[k] = l
                          \/ \E k \in 1..2 : ReadMem(i, k) /\ i.loads[k] = l]
        BY <1>1 DEF RefUpdate
    <2>2. ort[l] \in OrtEntry
        BY <1>1 DEF TypeOK
    <2> QED
        BY <1>1, <2>1, <2>2 DEF OrtEntry, ReadReg, ReadMem, ReadBy
<1>5. d1.ort[l] = IF l = i.outs[1]
                  THEN [valid |-> TRUE, referenced |-> FALSE,
                        producer_idx |-> fifo_head, ort_pair |-> i.outs[2]]
                  ELSE d0.ort[l]
    BY <1>1, <1>2, OverwriteOrt
<1>6. d2.ort[l] = IF l = i.outs[2]
                  THEN [valid |-> TRUE, referenced |-> FALSE,
                        producer_idx |-> fifo_head, ort_pair |-> i.outs[1]]
                  ELSE d1.ort[l]
    BY <1>1, <1>2, OverwriteOrt
<1>7. WrittenBy(i, l) <=> l = i.outs[1] \/ l = i.outs[2]
    BY DEF WrittenBy
<1> HIDE DEF d0, d1, d2
<1> QED
    BY <1>3, <1>4, <1>5, <1>6, <1>7

(* No entry, valid or not, names another producer than before or the new   *)
(* instruction.                                                            *)
LEMMA DataflowProducer ==
    ASSUME TypeOK, NEW i \in Instrs, NEW removed \in BOOLEAN, NEW l \in Locs
    PROVE  Dataflow(i, removed).ort[l].producer_idx
              \in {fifo_head, ort[l].producer_idx}
<1> DEFINE d0 == RefUpdate(i)
           d1 == Overwrite(d0, i.outs[1], i.outs[2])
           d2 == Overwrite(d1, i.outs[2], i.outs[1])
<1>1. i.outs[1] \in Locs /\ i.outs[2] \in Locs
    BY InstrFacts
<1>2. d0 \in Flow /\ d1 \in Flow
    BY <1>1, RefUpdateType, OverwriteType
<1>3. d0.ort[l].producer_idx = ort[l].producer_idx
    BY DEF RefUpdate, TypeOK, OrtEntry
<1>4. d1.ort[l] = IF l = i.outs[1] /\ i.outs[1] # DNA
                  THEN [valid |-> TRUE, referenced |-> FALSE,
                        producer_idx |-> fifo_head, ort_pair |-> i.outs[2]]
                  ELSE d0.ort[l]
    BY <1>1, <1>2, OverwriteOrt
<1>5. d2.ort[l] = IF l = i.outs[2] /\ i.outs[2] # DNA
                  THEN [valid |-> TRUE, referenced |-> FALSE,
                        producer_idx |-> fifo_head, ort_pair |-> i.outs[1]]
                  ELSE d1.ort[l]
    BY <1>1, <1>2, OverwriteOrt
<1>6. Dataflow(i, removed).ort = IF removed THEN ort ELSE d2.ort
    BY DEF Dataflow
<1> HIDE DEF d0, d1, d2
<1> QED
    BY <1>3, <1>4, <1>5, <1>6

(* A valid entry after the step was written in it, or was valid before it, *)
(* by a producer that is not the one leaving.                              *)
LEMMA OrtStep ==
    ASSUME HistoryInv, NEW i \in Instrs, NEW removed \in BOOLEAN,
           HRetire(i, removed), NEW l \in Regs \cup Addrs, ort'[l].valid
    PROVE  IF ~removed /\ WrittenBy(i, l)
           THEN /\ ort'[l].producer_idx = fifo_head
                /\ ~ort'[l].referenced
           ELSE /\ ort[l].valid
                /\ ort'[l].producer_idx = ort[l].producer_idx
                /\ ~(/\ Evicting
                     /\ \E k \in 1..2 : window[fifo_head].outs[k] = l
                     /\ ort[l].producer_idx = fifo_head)
                /\ ort'[l].referenced <=>
                      ort[l].referenced \/ (~removed /\ ReadBy(i, l))
<1> DEFINE o == Dataflow(i, removed).ort
<1>1. ort' = Evict(o)
    BY DEF HRetire, Retire, ProcessNewInstr
<1>2. l \in Locs /\ TypeOK
    BY DEF Locs, HistoryInv
<1>3. o[l] \in OrtEntry
    BY <1>2, DataflowType DEF Flow
<1> HIDE DEF o
<1>4. /\ ort'[l].valid <=>
            o[l].valid /\ ~(/\ Evicting
                            /\ \E k \in 1..2 : window[fifo_head].outs[k] = l
                            /\ o[l].producer_idx = fifo_head)
      /\ ort'[l].producer_idx = o[l].producer_idx
      /\ ort'[l].referenced = o[l].referenced
    BY <1>1, <1>2, <1>3 DEF Evict, OrtEntry
<1> QED
    BY <1>2, <1>4, DataflowOrt DEF o

OrtInv == HistoryInv /\ OrtLatestWriter /\ ReferencedExact

LEMMA OrtInit == HInit => OrtInv
BY HistoryInit DEF OrtInv, OrtLatestWriter, ReferencedExact, HInit, Init,
                   DefaultOrtEntry, Locs

LEMMA OrtInvStep ==
    ASSUME OrtInv, NEW i \in Instrs, NEW removed \in BOOLEAN,
           HRetire(i, removed)
    PROVE  OrtInv'
<1>1. HistoryInv /\ HistoryInv'
    BY HistoryStep DEF OrtInv
<1>2. PICK h \in Slots : h = fifo_head
    BY <1>1 DEF HistoryInv, TypeOK
<1> SUFFICES ASSUME NEW l \in Regs \cup Addrs, NEW p \in Slots,
                    ort'[l].valid, ort'[l].producer_idx = p
             PROVE  /\ LatestWriter(p, l)'
                    /\ ort'[l].referenced <=>
                          \E q \in Slots : (Reads(q, l) /\ Younger(q, p))'
    BY <1>1 DEF OrtInv, OrtLatestWriter, ReferencedExact
<1>3. \A s \in Slots : /\ Age(s) \in 0 .. W-1
                       /\ Age(s)' = IF s = h THEN 0 ELSE Age(s) + 1
    BY <1>1, <1>2, AgeStep
<1>4. \A q, s \in Slots :
        Younger(q, s)' <=> s # h /\ (q = h \/ Younger(q, s))
    <2> SUFFICES ASSUME NEW q \in Slots, NEW s \in Slots
                 PROVE  Age(q)' < Age(s)' <=> s # h /\ (q = h \/ Age(q) < Age(s))
        BY DEF Younger
    <2>1. /\ Age(q) \in Nat /\ Age(s) \in Nat
          /\ Age(q)' = IF q = h THEN 0 ELSE Age(q) + 1
          /\ Age(s)' = IF s = h THEN 0 ELSE Age(s) + 1
        BY <1>3
    <2> QED
        BY <2>1
<1>5. \A s \in Slots :
        /\ Writes(s, l)' <=> IF s = h THEN ~removed /\ WrittenBy(i, l)
                                     ELSE Writes(s, l)
        /\ Reads(s, l)' <=> IF s = h THEN ~removed /\ ReadBy(i, l)
                                    ELSE Reads(s, l)
    BY <1>1, <1>2, EffectStep DEF WrittenBy, ReadBy
<1>6. CASE ~removed /\ WrittenBy(i, l)
    <2>1. p = h /\ ~ort'[l].referenced
        BY <1>1, <1>2, <1>6, OrtStep
    <2>2. LatestWriter(p, l)'
        <3>1. Writes(p, l)'
            BY <2>1, <1>5, <1>6
        <3>2. \A q \in Slots : q = p \/ Younger(p, q)'
            BY <2>1, <1>4
        <3> QED
            BY <3>1, <3>2 DEF LatestWriter
    <2> QED
        BY <2>1, <2>2, <1>4
<1>7. CASE ~(~removed /\ WrittenBy(i, l))
    <2>1. /\ ort[l].valid
          /\ ort[l].producer_idx = p
          /\ ~(/\ Evicting
               /\ \E k \in 1..2 : window[h].outs[k] = l
               /\ p = h)
          /\ ort'[l].referenced <=>
                ort[l].referenced \/ (~removed /\ ReadBy(i, l))
        BY <1>1, <1>2, <1>7, OrtStep
    <2>2. /\ LatestWriter(p, l)
          /\ ort[l].referenced <=> \E q \in Slots : Reads(q, l) /\ Younger(q, p)
        BY <2>1 DEF OrtInv, OrtLatestWriter, ReferencedExact
    <2>3. p # h
        <3>1. window[p].valid /\ \E k \in 1..2 : past[p].instr.outs[k] = l
            BY <2>2 DEF LatestWriter, Writes, Accepted
        <3>2. \E k \in 1..2 : window[p].outs[k] = l
            BY <1>1, <3>1 DEF HistoryInv, PastMatches
        <3>3. ~Evicting => ~window[h].valid
            <4>1. ~Evicting => w_instr_cnt < W
                BY <1>1, WAssumption DEF HistoryInv, TypeOK, Evicting
            <4>2. ~(h < fifo_head)
                BY <1>2 DEF Slots
            <4> QED
                BY <1>1, <4>1, <4>2 DEF HistoryInv, WindowShape
        <3> QED
            BY <2>1, <3>1, <3>2, <3>3
    <2>4. LatestWriter(p, l)'
        BY <2>2, <2>3, <1>4, <1>5, <1>7 DEF LatestWriter
    <2>5. (\E q \in Slots : (Reads(q, l) /\ Younger(q, p))')
            <=> (~removed /\ ReadBy(i, l))
                \/ \E q \in Slots : Reads(q, l) /\ Younger(q, p)
        <3>1. \A q \in Slots :
                 (Reads(q, l) /\ Younger(q, p))' <=>
                    IF q = h THEN ~removed /\ ReadBy(i, l)
                             ELSE Reads(q, l) /\ Younger(q, p)
            <4> SUFFICES ASSUME NEW q \in Slots
                         PROVE  Reads(q, l)' /\ Younger(q, p)' <=>
                                   IF q = h THEN ~removed /\ ReadBy(i, l)
                                            ELSE Reads(q, l) /\ Younger(q, p)
                OBVIOUS
            <4> QED
                BY <2>3, <1>4, <1>5
        <3>2. ~Younger(h, p)
            BY <1>1, <1>2, WAssumption DEF HistoryInv, TypeOK, Younger, Age, Slots
        <3> QED
            BY <3>1, <3>2
    <2> QED
        BY <2>1, <2>2, <2>4, <2>5
<1> QED
    BY <1>6, <1>7

LEMMA OrtInvariant == HSpec => []OrtInv
<1>1. OrtInv /\ [HNext]_hvars => OrtInv'
    <2> SUFFICES ASSUME OrtInv, [HNext]_hvars PROVE OrtInv'
        OBVIOUS
    <2>1. CASE HNext
        BY <2>1, OrtInvStep, RemovedOnEntryType DEF HNext
    <2>2. CASE UNCHANGED hvars
        BY <2>2 DEF hvars, vars, OrtInv, HistoryInv, TypeOK, WindowShape,
                    PastMatches, OrtLatestWriter, ReferencedExact, LatestWriter,
                    Writes, Reads, Accepted, Younger, Age
    <2> QED
        BY <2>1, <2>2
<1> QED
    BY <1>1, OrtInit, PTL DEF HSpec

(* Whatever instructions retire, a valid rename-table entry names the last *)
(* effective writer of its location in the window: evicting, overwriting   *)
(* and removing on entry never leave a dangling valid entry.               *)
THEOREM LatestWriterCorrect == HSpec => []OrtLatestWriter
BY OrtInvariant, PTL DEF OrtInv

(* Whatever instructions retire, the referenced flag of a valid entry is   *)
(* set if and only if an effective younger instruction reads the location. *)
THEOREM ReferencedCorrect == HSpec => []ReferencedExact
BY OrtInvariant, PTL DEF OrtInv

-----------------------------------------------------------------------------
(* The branch target buffer.                                               *)

Instances(pc) == {s \in Slots : window[s].branch_pc = pc}

BranchInv == HistoryInv /\ BtbCountExact /\ ConstTargetSound

LEMMA InstancesFinite ==
    ASSUME NEW pc
    PROVE  /\ IsFiniteSet(Instances(pc))
           /\ Cardinality(Instances(pc)) \in Nat
           /\ Cardinality(Instances(pc)) = 0 <=> Instances(pc) = {}
<1>1. IsFiniteSet(Instances(pc))
    BY SlotsFacts, FS_Subset DEF Instances
<1> QED
    BY <1>1, FS_CardinalityType, FS_EmptySet

LEMMA BranchInit == HInit => BranchInv
<1> SUFFICES ASSUME HInit PROVE BranchInv
    OBVIOUS
<1>1. HistoryInv
    BY HistoryInit
<1>2. \A s \in Slots : window[s].branch_pc = DNA
    BY DEF HInit, Init, EmptyFifoEntry
<1>3. \A pc \in Pcs : {s \in Slots : window[s].branch_pc = pc} = {}
    BY <1>2, LocsAssumption
<1>4. BtbCountExact
    BY <1>3, FS_EmptySet DEF HInit, Init, DefaultBtbEntry, BtbCountExact
<1>5. ConstTargetSound
    BY <1>2 DEF ConstTargetSound
<1> QED
    BY <1>1, <1>4, <1>5 DEF BranchInv

Seen(i, pc) == i.kind = "cond" /\ i.pc = pc

(* The entry of a branch after the step, when its count was right.         *)
LEMMA BtbStep ==
    ASSUME BranchInv, NEW i \in Instrs, NEW removed \in BOOLEAN,
           HRetire(i, removed), NEW pc \in Pcs
    PROVE  /\ btb'[pc].valid_cnt = btb[pc].valid_cnt
                  + (IF Seen(i, pc) THEN 1 ELSE 0)
                  - (IF window[fifo_head].branch_pc = pc THEN 1 ELSE 0)
           /\ ~Seen(i, pc) => /\ btb'[pc].const_tgt = btb[pc].const_tgt
                              /\ btb'[pc].tgt_addr = btb[pc].tgt_addr
           /\ Seen(i, pc) /\ btb[pc].valid_cnt = 0 => btb'[pc].tgt_addr = i.next
           /\ Seen(i, pc) /\ btb[pc].valid_cnt > 0 =>
                 /\ btb'[pc].tgt_addr = btb[pc].tgt_addr
                 /\ btb'[pc].const_tgt =>
                        btb[pc].const_tgt /\ btb[pc].tgt_addr = i.next
<1> DEFINE b == BranchSeen(i)
           br == window[fifo_head].branch_pc
<1>1. btb' = BranchGone(b, br)
    BY DEF HRetire, Retire, ProcessNewInstr
<1>2. b \in [Pcs -> BtbEntry] /\ btb \in [Pcs -> BtbEntry] /\ br \in Pcs \cup {DNA}
    BY BranchSeenType DEF BranchInv, HistoryInv, TypeOK, FifoEntry
<1>3. b[pc] = IF ~Seen(i, pc) THEN btb[pc]
              ELSE IF btb[pc].valid_cnt = 0
              THEN [tgt_addr |-> i.next, const_tgt |-> TRUE, valid_cnt |-> 1]
              ELSE [tgt_addr  |-> btb[pc].tgt_addr,
                    const_tgt |-> btb[pc].const_tgt /\ btb[pc].tgt_addr = i.next,
                    valid_cnt |-> btb[pc].valid_cnt + 1]
    BY <1>2, InstrFacts DEF BranchSeen, FreshBranch, Seen
<1>4. br = pc => btb[pc].valid_cnt > 0
    <2>1. br = pc => fifo_head \in Instances(pc)
        BY DEF BranchInv, HistoryInv, TypeOK, Instances
    <2>2. btb[pc].valid_cnt = Cardinality(Instances(pc))
        BY DEF BranchInv, BtbCountExact, Instances
    <2> QED
        BY <2>1, <2>2, InstancesFinite
<1> HIDE DEF b, br
<1>5. btb'[pc] = IF br = pc
                 THEN [b[pc] EXCEPT !.valid_cnt =
                          IF b[pc].valid_cnt > 0 THEN b[pc].valid_cnt - 1 ELSE 0]
                 ELSE b[pc]
    BY <1>1, <1>2, LocsAssumption DEF BranchGone
<1>6. b[pc] \in BtbEntry /\ btb[pc] \in BtbEntry
    BY <1>2
<1>7. /\ btb'[pc].const_tgt = b[pc].const_tgt
      /\ btb'[pc].tgt_addr = b[pc].tgt_addr
      /\ btb'[pc].valid_cnt = IF br = pc
                              THEN IF b[pc].valid_cnt > 0 THEN b[pc].valid_cnt - 1 ELSE 0
                              ELSE b[pc].valid_cnt
    BY <1>5, <1>6 DEF BtbEntry
<1>8. btb[pc].valid_cnt \in Nat
    BY <1>6 DEF BtbEntry
<1>9. CASE ~Seen(i, pc)
    BY <1>3, <1>4, <1>7, <1>8, <1>9 DEF br
<1>10. CASE Seen(i, pc) /\ btb[pc].valid_cnt = 0
    BY <1>3, <1>4, <1>7, <1>8, <1>10 DEF br
<1>11. CASE Seen(i, pc) /\ btb[pc].valid_cnt > 0
    <2> DEFINE same == btb[pc].const_tgt /\ btb[pc].tgt_addr = i.next
    <2>1. b[pc] = [tgt_addr  |-> btb[pc].tgt_addr, const_tgt |-> same,
                   valid_cnt |-> btb[pc].valid_cnt + 1]
        BY <1>3, <1>8, <1>11
    <2>a. same \in BOOLEAN
        OBVIOUS
    <2> HIDE DEF same
    <2>b. b[pc].const_tgt = same
        BY <2>1
    <2>2. b[pc].const_tgt => btb[pc].const_tgt /\ btb[pc].tgt_addr = i.next
        BY <2>a, <2>b DEF same
    <2>3. b[pc].tgt_addr = btb[pc].tgt_addr /\ b[pc].valid_cnt = btb[pc].valid_cnt + 1
        BY <2>1
    <2>4. btb'[pc].valid_cnt = btb[pc].valid_cnt + 1 - (IF br = pc THEN 1 ELSE 0)
        BY <2>3, <1>7, <1>8
    <2> QED
        BY <1>7, <1>11, <2>2, <2>3, <2>4 DEF br
<1> QED
    BY <1>8, <1>9, <1>10, <1>11

LEMMA BranchInvStep ==
    ASSUME BranchInv, NEW i \in Instrs, NEW removed \in BOOLEAN,
           HRetire(i, removed)
    PROVE  BranchInv'
<1>1. HistoryInv /\ HistoryInv'
    BY HistoryStep DEF BranchInv
<1>2. PICK h \in Slots : h = fifo_head
    BY <1>1 DEF HistoryInv, TypeOK
<1>3. \A s \in Slots :
         window'[s].branch_pc = IF s # h THEN window[s].branch_pc
                                ELSE IF i.kind = "cond" THEN i.pc ELSE DNA
    BY <1>1, <1>2 DEF HistoryInv, TypeOK, HRetire, Retire, ProcessNewInstr, Incoming
<1>4. past' = [past EXCEPT ![h] = [instr |-> i, removed |-> removed]]
    BY <1>2 DEF HRetire
<1>5. BtbCountExact'
    <2> SUFFICES ASSUME NEW pc \in Pcs
                 PROVE  btb'[pc].valid_cnt = Cardinality(Instances(pc)')
        BY DEF BtbCountExact, Instances
    <2> DEFINE seen == Seen(i, pc)
               gone == window[h].branch_pc = pc
               rest == Instances(pc) \ {h}
    <2>1. btb[pc].valid_cnt = Cardinality(Instances(pc))
        BY DEF BranchInv, BtbCountExact, Instances
    <2>2. btb'[pc].valid_cnt = btb[pc].valid_cnt + (IF seen THEN 1 ELSE 0)
                                 - (IF gone THEN 1 ELSE 0)
        BY <1>2, BtbStep
    <2>3. Instances(pc)' = IF seen THEN rest \cup {h} ELSE rest
        BY <1>3, LocsAssumption DEF Instances, Seen
    <2>4. gone <=> h \in Instances(pc)
        BY DEF Instances
    <2>5. /\ IsFiniteSet(rest)
          /\ Cardinality(rest) = Cardinality(Instances(pc)) - (IF gone THEN 1 ELSE 0)
        BY <2>4, InstancesFinite, FS_RemoveElement
    <2>6. Cardinality(rest \cup {h}) = Cardinality(rest) + 1
        BY <2>5, FS_AddElement
    <2>7. Cardinality(Instances(pc)) \in Nat
        BY InstancesFinite
    <2> QED
        BY <2>1, <2>2, <2>3, <2>5, <2>6, <2>7
<1>6. ConstTargetSound'
    <2> SUFFICES ASSUME NEW s \in Slots, NEW pc \in Pcs,
                        window'[s].branch_pc = pc, btb'[pc].const_tgt
                 PROVE  past'[s].instr.next = btb'[pc].tgt_addr
        BY <1>1 DEF ConstTargetSound, HistoryInv, TypeOK, FifoEntry
    <2> DEFINE seen == Seen(i, pc)
    <2>1. /\ ~seen => /\ btb'[pc].const_tgt = btb[pc].const_tgt
                      /\ btb'[pc].tgt_addr = btb[pc].tgt_addr
          /\ seen /\ btb[pc].valid_cnt = 0 => btb'[pc].tgt_addr = i.next
          /\ seen /\ btb[pc].valid_cnt > 0 =>
                /\ btb'[pc].tgt_addr = btb[pc].tgt_addr
                /\ btb'[pc].const_tgt =>
                       btb[pc].const_tgt /\ btb[pc].tgt_addr = i.next
        BY BtbStep
    <2>2. btb[pc].valid_cnt \in Nat
        BY <1>1 DEF HistoryInv, TypeOK, BtbEntry
    <2>3. CASE s = h
        <3>1. seen
            BY <2>3, <1>3, LocsAssumption DEF Seen
        <3>2. past'[s].instr.next = i.next
            BY <2>3, <1>1, <1>4 DEF HistoryInv, PastMatches
        <3> QED
            BY <3>1, <3>2, <2>1, <2>2
    <2>4. CASE s # h
        <3>1. window[s].branch_pc = pc /\ past'[s] = past[s]
            BY <2>4, <1>1, <1>3, <1>4 DEF HistoryInv, PastMatches
        <3>2. btb[pc].valid_cnt > 0
            <4>1. btb[pc].valid_cnt = Cardinality(Instances(pc))
                BY DEF BranchInv, BtbCountExact, Instances
            <4>2. s \in Instances(pc)
                BY <3>1 DEF Instances
            <4> QED
                BY <4>1, <4>2, InstancesFinite
        <3>3. btb[pc].const_tgt /\ btb'[pc].tgt_addr = btb[pc].tgt_addr
            BY <3>2, <2>1
        <3>4. past[s].instr.next = btb[pc].tgt_addr
            BY <3>1, <3>3, LocsAssumption DEF BranchInv, ConstTargetSound
        <3> QED
            BY <3>1, <3>3, <3>4
    <2> QED
        BY <2>3, <2>4
<1> QED
    BY <1>1, <1>5, <1>6 DEF BranchInv

LEMMA BranchInvariant == HSpec => []BranchInv
<1>1. BranchInv /\ [HNext]_hvars => BranchInv'
    <2> SUFFICES ASSUME BranchInv, [HNext]_hvars PROVE BranchInv'
        OBVIOUS
    <2>1. CASE HNext
        BY <2>1, BranchInvStep, RemovedOnEntryType DEF HNext
    <2>2. CASE UNCHANGED hvars
        BY <2>2 DEF hvars, vars, BranchInv, HistoryInv, TypeOK, WindowShape,
                    PastMatches, BtbCountExact, ConstTargetSound
    <2> QED
        BY <2>1, <2>2
<1> QED
    BY <1>1, BranchInit, PTL DEF HSpec

(* valid_cnt counts the instances of a branch in the window, whatever      *)
(* retires: the decrement at line 516 never meets a zero, and the entry is *)
(* started afresh exactly when no instance is left.                        *)
THEOREM BtbCountCorrect == HSpec => []BtbCountExact
BY BranchInvariant, PTL DEF BranchInv

(* A branch marked const_tgt went the same way in every instance of it in  *)
(* the window: no branch leaves the window as ineffectual that did not.    *)
THEOREM ConstTargetCorrect == HSpec => []ConstTargetSound
BY BranchInvariant, PTL DEF BranchInv

-----------------------------------------------------------------------------
(* The assertion.                                                          *)

OccupiedInv == HistoryInv /\ ProducersOccupied

LEMMA OccupiedInit == HInit => OccupiedInv
BY HistoryInit DEF OccupiedInv, ProducersOccupied, HInit, Init,
                   DefaultOrtEntry, EmptyFifoEntry

LEMMA OccupiedStep ==
    ASSUME OccupiedInv, NEW i \in Instrs, NEW removed \in BOOLEAN,
           HRetire(i, removed)
    PROVE  OccupiedInv'
<1>1. HistoryInv /\ HistoryInv' /\ TypeOK
    BY HistoryStep DEF OccupiedInv, HistoryInv
<1>2. /\ fifo_head \in Slots /\ window \in [Slots -> FifoEntry]
      /\ window' = [window EXCEPT ![fifo_head] = Incoming(i)]
    BY <1>1 DEF TypeOK, HRetire, Retire, ProcessNewInstr
<1>3. /\ window'[fifo_head].valid
      /\ \A s \in Slots : window[s].valid => window'[s].valid
    BY <1>2 DEF Incoming
<1>4. ASSUME NEW s \in Slots, NEW k \in 1..3, window'[s].src[k] > 0
      PROVE  window'[window'[s].src[k]].valid
    <2>1. CASE s = fifo_head
        <3>1. window'[s].src[k] = IF i.ins[k] = DNA
                                  THEN -1 ELSE ort[i.ins[k]].producer_idx
            BY <1>2, <2>1 DEF Incoming
        <3>2. i.ins[k] \in Locs
            BY InstrFacts DEF Locs
        <3>3. /\ window'[s].src[k] = ort[i.ins[k]].producer_idx
              /\ ort[i.ins[k]].producer_idx \in Slots
            BY <1>1, <1>4, <3>1, <3>2 DEF TypeOK, OrtEntry
        <3>4. window[ort[i.ins[k]].producer_idx].valid
            BY <1>4, <3>2, <3>3 DEF OccupiedInv, ProducersOccupied
        <3> QED
            BY <1>3, <3>3, <3>4
    <2>2. CASE s # fifo_head
        <3>1. window'[s] = window[s]
            BY <1>2, <2>2
        <3>2. window[s].src[k] \in Slots
            BY <1>1, <1>4, <3>1 DEF TypeOK, FifoEntry, Srcs
        <3>3. window[window[s].src[k]].valid
            BY <1>4, <3>1 DEF OccupiedInv, ProducersOccupied
        <3> QED
            BY <1>3, <3>1, <3>2, <3>3
    <2> QED
        BY <2>1, <2>2
<1>5. ASSUME NEW l \in Locs, ort'[l].producer_idx > 0
      PROVE  window'[ort'[l].producer_idx].valid
    <2>1. ort'[l].producer_idx \in {fifo_head, ort[l].producer_idx}
        <3> DEFINE o == Dataflow(i, removed).ort
        <3>1. o[l].producer_idx \in {fifo_head, ort[l].producer_idx}
            BY <1>1, DataflowProducer
        <3>2. ort' = Evict(o)
            BY DEF HRetire, Retire, ProcessNewInstr
        <3>3. o[l] \in OrtEntry
            BY <1>1, DataflowType DEF Flow
        <3> HIDE DEF o
        <3> QED
            BY <3>1, <3>2, <3>3 DEF Evict, OrtEntry
    <2>2. ort[l].producer_idx \in Slots
        BY <1>1 DEF TypeOK, OrtEntry
    <2>3. CASE ort'[l].producer_idx = fifo_head
        BY <2>3, <1>3
    <2>4. CASE ort'[l].producer_idx = ort[l].producer_idx
        BY <2>2, <2>4, <1>3, <1>5 DEF OccupiedInv, ProducersOccupied
    <2> QED
        BY <2>1, <2>3, <2>4
<1> QED
    BY <1>1, <1>4, <1>5 DEF OccupiedInv, ProducersOccupied

(* The assertion of _decrement_consumer, line 191, holds on every run:     *)
(* the cascade only ever follows indices of occupied slots.                *)
THEOREM ProducersOccupiedCorrect == HSpec => []ProducersOccupied
<1>1. OccupiedInv /\ [HNext]_hvars => OccupiedInv'
    <2> SUFFICES ASSUME OccupiedInv, [HNext]_hvars PROVE OccupiedInv'
        OBVIOUS
    <2>1. CASE HNext
        BY <2>1, OccupiedStep, RemovedOnEntryType DEF HNext
    <2>2. CASE UNCHANGED hvars
        BY <2>2 DEF hvars, vars, OccupiedInv, HistoryInv, TypeOK, WindowShape,
                    PastMatches, ProducersOccupied
    <2> QED
        BY <2>1, <2>2
<1>2. OccupiedInv => ProducersOccupied
    BY DEF OccupiedInv
<1> QED
    BY <1>1, <1>2, OccupiedInit, PTL DEF HSpec

-----------------------------------------------------------------------------
(* The removals.                                                           *)

Bumped(map, pc, cond) == [q \in Pcs |-> Add(map[q], cond /\ pc = q)]

LEMMA AttributedBump ==
    ASSUME NEW map \in [Pcs -> Nat], IsFiniteSet(Attributed(map)), NEW pc, NEW cond \in BOOLEAN,
           cond => pc \in Pcs
    PROVE  /\ Bumped(map, pc, cond) \in [Pcs -> Nat]
           /\ IsFiniteSet(Attributed(Bumped(map, pc, cond)))
           /\ Cardinality(Attributed(Bumped(map, pc, cond)))
                  = Cardinality(Attributed(map)) + (IF cond THEN 1 ELSE 0)
<1> DEFINE new == Bumped(map, pc, cond)
<1>1. new \in [Pcs -> Nat] /\ Cardinality(Attributed(map)) \in Nat
    BY FS_CardinalityType DEF Bumped, Add
<1>2. CASE ~cond
    <2>1. new = map
        BY <1>2 DEF Bumped, Add
    <2> QED
        BY <1>1, <1>2, <2>1
<1>3. CASE cond
    <2> DEFINE r == <<pc, map[pc] + 1>>
    <2>1. new = [map EXCEPT ![pc] = @ + 1] /\ pc \in Pcs /\ map[pc] \in Nat
        BY <1>3 DEF Bumped, Add
    <2>2. \A q \in Pcs : 1 .. new[q] = IF q = pc THEN (1 .. map[q]) \cup {map[q] + 1}
                                       ELSE 1 .. map[q]
        <3>1. \A n \in Nat : 1 .. n + 1 = (1 .. n) \cup {n + 1}
            OBVIOUS
        <3> QED
            BY <2>1, <3>1
    <2>3. Attributed(new) = Attributed(map) \cup {r}
        BY <2>1, <2>2 DEF Attributed
    <2>4. r \notin Attributed(map)
        BY <2>1 DEF Attributed
    <2>5. /\ IsFiniteSet(Attributed(map) \cup {r})
          /\ Cardinality(Attributed(map) \cup {r}) = Cardinality(Attributed(map)) + 1
        BY <2>4, FS_AddElement
    <2> HIDE DEF new, r
    <2>6. IsFiniteSet(Attributed(new)) /\ Cardinality(Attributed(new)) = Cardinality(Attributed(map)) + 1
        BY <2>3, <2>5
    <2> QED
        BY <1>1, <1>3, <2>6 DEF new
<1> QED
    BY <1>2, <1>3

RemovalsInv ==
    /\ HistoryInv
    /\ IsFiniteSet(Attributed(removed_map))
    /\ RemovalsAccounted

LEMMA RemovalsInit == HInit => RemovalsInv
<1> SUFFICES ASSUME HInit PROVE RemovalsInv
    OBVIOUS
<1>1. Attributed(removed_map) = {}
    BY DEF HInit, Init, Attributed
<1> QED
    BY <1>1, HistoryInit, FS_EmptySet DEF RemovalsInv, RemovalsAccounted, HInit, Init, Counters

LEMMA RemovalsStep ==
    ASSUME RemovalsInv, NEW i \in Instrs, NEW removed \in BOOLEAN,
           HRetire(i, removed)
    PROVE  RemovalsInv'
<1> DEFINE gone == IneffectualBranch(BranchSeen(i))
           br   == window[fifo_head].branch_pc
           mid  == Bumped(removed_map, i.pc, removed)
<1>1. HistoryInv' /\ TypeOK
    BY HistoryStep DEF RemovalsInv, HistoryInv
<1>2. /\ i.pc \in Pcs
      /\ removed_map \in [Pcs -> Nat] /\ stats \in [Counters -> Nat]
      /\ br \in Pcs \cup {DNA}
    BY <1>1, InstrFacts DEF TypeOK, FifoEntry
<1>3. gone \in BOOLEAN /\ (gone => br \in Pcs)
    <2>1. BranchSeen(i) \in [Pcs -> BtbEntry]
        BY <1>1, BranchSeenType
    <2>2. br # DNA => BranchSeen(i)[br].const_tgt \in BOOLEAN
        BY <1>2, <2>1 DEF BtbEntry
    <2> QED
        BY <1>2, <2>2 DEF IneffectualBranch
<1>4. removed_map' = [pc \in Pcs |-> Removals(pc, i, removed, BranchSeen(i))]
    BY DEF HRetire, Retire, ProcessNewInstr
<1>5. removed_map' = Bumped(mid, br, gone)
    BY <1>4 DEF Bumped, Removals
<1> HIDE DEF gone, br
<1>6. /\ mid \in [Pcs -> Nat]
      /\ IsFiniteSet(Attributed(mid))
      /\ Cardinality(Attributed(mid))
             = Cardinality(Attributed(removed_map)) + (IF removed THEN 1 ELSE 0)
    BY <1>2, AttributedBump DEF RemovalsInv
<1> HIDE DEF mid
<1>7. /\ IsFiniteSet(Attributed(removed_map'))
      /\ Cardinality(Attributed(removed_map'))
             = Cardinality(Attributed(mid)) + (IF gone THEN 1 ELSE 0)
    BY <1>3, <1>5, <1>6, AttributedBump
<1>8. /\ stats'["reg_nmod"] = stats["reg_nmod"]
             + (IF removed /\ EntryCounter(i) = "reg_nmod" THEN 1 ELSE 0)
      /\ stats'["mem_nmod"] = stats["mem_nmod"]
             + (IF removed /\ EntryCounter(i) = "mem_nmod" THEN 1 ELSE 0)
      /\ stats'["inef_br"] = stats["inef_br"]
             + (IF removed /\ EntryCounter(i) = "inef_br" THEN 1 ELSE 0)
             + (IF gone THEN 1 ELSE 0)
    BY <1>2 DEF HRetire, Retire, ProcessNewInstr, Counters, Add, gone
<1>9. EntryCounter(i) \in {"reg_nmod", "mem_nmod", "inef_br"}
    BY DEF EntryCounter
<1>10. /\ stats["reg_nmod"] \in Nat /\ stats["mem_nmod"] \in Nat /\ stats["inef_br"] \in Nat
       /\ Cardinality(Attributed(removed_map))
              = stats["reg_nmod"] + stats["mem_nmod"] + stats["inef_br"]
    BY <1>2 DEF RemovalsInv, RemovalsAccounted, Counters
<1>11. RemovalsAccounted'
    BY <1>6, <1>7, <1>8, <1>9, <1>10 DEF RemovalsAccounted
<1> QED
    BY <1>1, <1>7, <1>11 DEF RemovalsInv

(* Every removal counted is put down to one pc in removed_instr_map, and   *)
(* none is put down twice (process_new_instr, lines 404-459 and 516-523).  *)
THEOREM RemovalsCorrect == HSpec => []RemovalsAccounted
<1>1. RemovalsInv /\ [HNext]_hvars => RemovalsInv'
    <2> SUFFICES ASSUME RemovalsInv, [HNext]_hvars PROVE RemovalsInv'
        OBVIOUS
    <2>1. CASE HNext
        BY <2>1, RemovalsStep, RemovedOnEntryType DEF HNext
    <2>2. CASE UNCHANGED hvars
        BY <2>2 DEF hvars, vars, RemovalsInv, HistoryInv, TypeOK, WindowShape,
                    PastMatches, RemovalsAccounted
    <2> QED
        BY <2>1, <2>2
<1>2. RemovalsInv => RemovalsAccounted
    BY DEF RemovalsInv
<1> QED
    BY <1>1, <1>2, RemovalsInit, PTL DEF HSpec


-----------------------------------------------------------------------------
(* The sliding window.                                                     *)

(* Age and OldestSlot for any position h of the head and number c of       *)
(* occupied slots.                                                         *)
AgeAt(h, s) == IF s < h THEN h - 1 - s ELSE h - 1 - s + W
OldestAt(h, c, n) == (h - c + n - 1) % W

LEMMA RingOrder ==
    ASSUME NEW h \in Slots, NEW c \in 0 .. W, c < W => h = c
    PROVE  /\ \A n \in 1 .. c : \E s \in Slots :
                 s = OldestAt(h, c, n) /\ (c < W => s < h) /\ AgeAt(h, s) = c - n
           /\ \A s \in Slots : c = W \/ s < h =>
                 /\ c - AgeAt(h, s) \in 1 .. c
                 /\ OldestAt(h, c, c - AgeAt(h, s)) = s
<1>1. h \in 0 .. W-1 /\ W \in Nat \ {0}
    BY WAssumption DEF Slots
<1>2. \A n \in 1 .. c :
         LET x == h - c + n - 1 IN  OldestAt(h, c, n) = IF x >= 0 THEN x ELSE x + W
    <2> TAKE n \in 1 .. c
    <2> DEFINE x == h - c + n - 1
    <2>1. x \in Int /\ -W <= x /\ x < W
        BY <1>1
    <2> HIDE DEF x
    <2>2. CASE x >= 0
        BY <1>1, <2>1, <2>2 DEF OldestAt, x
    <2>3. CASE x < 0
        BY <1>1, <2>1, <2>3 DEF OldestAt, x
    <2> QED
        BY <2>1, <2>2, <2>3 DEF x
<1>3. CASE c < W
    <2>1. \A n \in 1 .. c : OldestAt(h, c, n) = n - 1
        BY <1>1, <1>2, <1>3
    <2> QED
        BY <1>1, <1>3, <2>1 DEF AgeAt, Slots
<1>4. CASE c = W
    <2>1. \A n \in 1 .. W : OldestAt(h, c, n) = IF h + n - 1 >= W
                                               THEN h + n - 1 - W ELSE h + n - 1
        BY <1>1, <1>2, <1>4
    <2>2. \A s \in Slots : /\ W - AgeAt(h, s) \in 1 .. W
                           /\ OldestAt(h, c, W - AgeAt(h, s)) = s
        BY <1>1, <2>1 DEF AgeAt, Slots
    <2>3. \A n \in 1 .. W : /\ OldestAt(h, c, n) \in Slots
                           /\ AgeAt(h, OldestAt(h, c, n)) = W - n
        BY <1>1, <2>1 DEF AgeAt, Slots
    <2> QED
        BY <1>4, <2>2, <2>3
<1> QED
    BY <1>1, <1>3, <1>4

LEMMA AgesAre ==
    /\ \A s : Age(s) = AgeAt(fifo_head, s) /\ Age(s)' = AgeAt(fifo_head', s)
    /\ \A n : /\ OldestSlot(n) = OldestAt(fifo_head, w_instr_cnt, n)
             /\ OldestSlot(n)' = OldestAt(fifo_head', w_instr_cnt', n)
BY DEF Age, AgeAt, OldestSlot, OldestAt

(* Reading the FIFO from its oldest entry on visits the occupied slots in  *)
(* the order of their ages, each once.                                     *)
LEMMA OldestFirst ==
    ASSUME HistoryInv
    PROVE  /\ \A n \in 1 .. w_instr_cnt : \E s \in Slots :
                 s = OldestSlot(n) /\ window[s].valid /\ Age(s) = w_instr_cnt - n
           /\ \A s \in Slots : window[s].valid =>
                 /\ w_instr_cnt - Age(s) \in 1 .. w_instr_cnt
                 /\ OldestSlot(w_instr_cnt - Age(s)) = s
<1>1. /\ fifo_head \in Slots /\ w_instr_cnt \in 0 .. W
      /\ w_instr_cnt < W => fifo_head = w_instr_cnt
    BY DEF HistoryInv, TypeOK, WindowShape
<1>2. \A s \in Slots : window[s].valid <=> (w_instr_cnt = W \/ s < fifo_head)
    BY <1>1, WAssumption DEF HistoryInv, WindowShape, Slots
<1>3. \A n \in 1 .. w_instr_cnt : \E s \in Slots :
          s = OldestSlot(n) /\ window[s].valid /\ Age(s) = w_instr_cnt - n
    BY <1>1, <1>2, WAssumption, RingOrder, AgesAre
<1>4. ASSUME NEW s \in Slots, window[s].valid
      PROVE  /\ w_instr_cnt - Age(s) \in 1 .. w_instr_cnt
             /\ OldestSlot(w_instr_cnt - Age(s)) = s
    <2>1. w_instr_cnt = W \/ s < fifo_head
        BY <1>2, <1>4
    <2>2. /\ w_instr_cnt - AgeAt(fifo_head, s) \in 1 .. w_instr_cnt
          /\ OldestAt(fifo_head, w_instr_cnt, w_instr_cnt - AgeAt(fifo_head, s)) = s
        BY <1>1, <2>1, RingOrder
    <2> QED
        BY <2>2 DEF Age, AgeAt, OldestSlot, OldestAt
<1> QED
    BY <1>3, <1>4

LEMMA OldestFirstNext ==
    ASSUME HistoryInv'
    PROVE  \A n \in 1 .. w_instr_cnt' : \E s \in Slots :
              s = OldestSlot(n)' /\ window'[s].valid /\ Age(s)' = w_instr_cnt' - n
<1>1. /\ fifo_head' \in Slots /\ w_instr_cnt' \in 0 .. W
      /\ w_instr_cnt' < W => fifo_head' = w_instr_cnt'
    BY DEF HistoryInv, TypeOK, WindowShape
<1>2. \A s \in Slots : window'[s].valid <=> (w_instr_cnt' = W \/ s < fifo_head')
    BY <1>1, WAssumption DEF HistoryInv, WindowShape, Slots
<1> QED
    BY <1>1, <1>2, WAssumption, RingOrder, AgesAre

(* Retiring an instruction appends it to the window, and the oldest entry  *)
(* leaves if the window was full.                                          *)
LEMMA RecentStep ==
    ASSUME HistoryInv, NEW i \in Instrs, NEW removed \in BOOLEAN,
           HRetire(i, removed)
    PROVE  LET w == Append(Recent, [instr |-> i, removed |-> removed])
           IN  /\ Len(w) = w_instr_cnt + 1
               /\ Recent' = IF Len(w) > W THEN Tail(w) ELSE w
<1> DEFINE new == [instr |-> i, removed |-> removed]
           w == Append(Recent, new)
           c == w_instr_cnt
<1>1. HistoryInv'
    BY HistoryStep
<1>2. /\ W \in Nat \ {0} /\ c \in 0 .. W /\ fifo_head \in Slots
      /\ past \in [Slots -> [instr : Instrs \cup {DNA}, removed : BOOLEAN]]
    BY WAssumption DEF HistoryInv, TypeOK, PastMatches
<1>3. /\ w_instr_cnt' = IF c = W THEN W ELSE c + 1
      /\ past' = [past EXCEPT ![fifo_head] = new]
    BY DEF HRetire, Retire, ProcessNewInstr, Evicting
<1>4. Recent' = [n \in 1 .. w_instr_cnt' |-> past'[OldestSlot(n)']]
    BY DEF Recent
<1>5. \A n \in 1 .. w_instr_cnt' : \E s \in Slots :
         s = OldestSlot(n)' /\ window'[s].valid /\ Age(s)' = w_instr_cnt' - n
    BY <1>1, OldestFirstNext
<1>6. ASSUME NEW n \in 1 .. w_instr_cnt'
      PROVE  past'[OldestSlot(n)'] =
                 IF n = w_instr_cnt' THEN new
                 ELSE past[OldestSlot(c - (w_instr_cnt' - 1 - n))]
    <2>1. PICK s \in Slots : s = OldestSlot(n)' /\ window'[s].valid /\ Age(s)' = w_instr_cnt' - n
        BY <1>5
    <2>2. /\ Age(s) \in 0 .. W-1
          /\ Age(s)' = IF s = fifo_head THEN 0 ELSE Age(s) + 1
        BY <2>1, AgeStep
    <2>3. CASE n = w_instr_cnt'
        <3>1. s = fifo_head
            BY <1>2, <1>3, <2>1, <2>2, <2>3
        <3> QED
            BY <1>2, <1>3, <2>1, <2>3, <3>1
    <2>4. CASE n # w_instr_cnt'
        <3>1. s # fifo_head /\ Age(s) = w_instr_cnt' - n - 1
            BY <1>2, <1>3, <2>1, <2>2, <2>4
        <3>2. past'[s] = past[s]
            BY <1>2, <1>3, <2>1, <3>1
        <3>3. window[s].valid
            <4>1. window' = [window EXCEPT ![fifo_head] = Incoming(i)]
                BY DEF HRetire, Retire, ProcessNewInstr
            <4>2. window \in [Slots -> FifoEntry]
                BY DEF HistoryInv, TypeOK
            <4> QED
                BY <2>1, <3>1, <4>1, <4>2
        <3>4. OldestSlot(c - Age(s)) = s
            BY <2>1, <3>3, OldestFirst
        <3>5. c - Age(s) = c - (w_instr_cnt' - 1 - n)
            BY <1>2, <1>3, <3>1
        <3> QED
            BY <2>1, <2>4, <3>2, <3>4, <3>5
    <2> QED
        BY <2>3, <2>4
<1>7. /\ Recent \in Seq([instr : Instrs \cup {DNA}, removed : BOOLEAN])
      /\ Len(Recent) = c
      /\ \A n \in 1 .. c : Recent[n] = past[OldestSlot(n)]
    <2>1. \A n \in 1 .. c : past[OldestSlot(n)] \in [instr : Instrs \cup {DNA}, removed : BOOLEAN]
        BY <1>2, OldestFirst
    <2> QED
        BY <1>2, <2>1 DEF Recent
<1>8. /\ Len(w) = c + 1
      /\ \A n \in 1 .. c : w[n] = past[OldestSlot(n)]
      /\ w[c + 1] = new
      /\ w \in Seq([instr : Instrs \cup {DNA}, removed : BOOLEAN])
    BY <1>2, <1>7
<1> HIDE DEF w, new
<1>9. CASE c < W
    <2>1. w_instr_cnt' = c + 1
        BY <1>2, <1>3, <1>9
    <2>2. \A n \in 1 .. c + 1 : Recent'[n] = w[n]
        <3> TAKE n \in 1 .. c + 1
        <3>1. Recent'[n] = past'[OldestSlot(n)']
            BY <1>4, <2>1
        <3>2. CASE n = c + 1
            BY <1>6, <1>8, <2>1, <3>1, <3>2
        <3>3. CASE n # c + 1
            <4>1. n \in 1 .. c /\ c - (w_instr_cnt' - 1 - n) = n /\ n # w_instr_cnt'
                BY <1>2, <2>1, <3>3
            <4>2. past'[OldestSlot(n)'] = past[OldestSlot(n)]
                BY <1>6, <2>1, <4>1
            <4> QED
                BY <1>8, <3>1, <4>1, <4>2
        <3> QED
            BY <3>2, <3>3
    <2>3. Recent' = w
        <3>1. DOMAIN w = 1 .. c + 1 /\ w = [n \in 1 .. c + 1 |-> w[n]]
            BY <1>2, <1>8
        <3>2. Recent' = [n \in 1 .. c + 1 |-> Recent'[n]]
            BY <1>4, <2>1
        <3> QED
            BY <2>2, <3>1, <3>2
    <2> QED
        BY <1>2, <1>8, <1>9, <2>3 DEF w, new
<1>10. CASE c = W
    <2>1. w_instr_cnt' = c
        BY <1>3, <1>10
    <2>2. /\ Tail(w) \in Seq([instr : Instrs \cup {DNA}, removed : BOOLEAN])
          /\ Len(Tail(w)) = c
          /\ \A n \in 1 .. c : Tail(w)[n] = w[n + 1]
        BY <1>2, <1>8
    <2>3. \A n \in 1 .. c : Recent'[n] = Tail(w)[n]
        <3> TAKE n \in 1 .. c
        <3>1. Recent'[n] = past'[OldestSlot(n)']
            BY <1>4, <2>1
        <3>2. CASE n = c
            BY <1>6, <1>8, <2>1, <2>2, <3>1, <3>2
        <3>3. CASE n # c
            <4>1. n + 1 \in 1 .. c /\ c - (w_instr_cnt' - 1 - n) = n + 1 /\ n # w_instr_cnt'
                BY <1>2, <2>1, <3>3
            <4>2. past'[OldestSlot(n)'] = past[OldestSlot(n + 1)]
                BY <1>6, <2>1, <4>1
            <4> QED
                BY <1>8, <2>2, <3>1, <4>1, <4>2
        <3> QED
            BY <3>2, <3>3
    <2>4. Recent' = Tail(w)
        <3> DEFINE t == Tail(w)
        <3>0. t \in Seq([instr : Instrs \cup {DNA}, removed : BOOLEAN]) /\ Len(t) = c
            BY <2>2
        <3> HIDE DEF t
        <3>1. DOMAIN t = 1 .. c /\ t = [n \in 1 .. c |-> t[n]]
            BY <1>2, <3>0
        <3>2. Recent' = [n \in 1 .. c |-> Recent'[n]]
            BY <1>4, <2>1
        <3> QED
            BY <2>3, <3>1, <3>2 DEF t
    <2> QED
        BY <1>2, <1>8, <1>10, <2>4 DEF w, new
<1> QED
    BY <1>2, <1>9, <1>10


-----------------------------------------------------------------------------
(* The pair an entry remembers.                                            *)

(* A valid entry holds the other output of the instruction that wrote it.  *)
PairMatches ==
    \A l \in Regs \cup Addrs, p \in Slots :
        ort[l].valid /\ ort[l].producer_idx = p =>
            \E k \in 1..2 : /\ past[p].instr.outs[k] = l
                            /\ past[p].instr.outs[3 - k] = ort[l].ort_pair

LEMMA PairStep ==
    ASSUME HistoryInv, NEW i \in Instrs, NEW removed \in BOOLEAN,
           HRetire(i, removed), NEW l \in Regs \cup Addrs
    PROVE  IF ~removed /\ WrittenBy(i, l)
           THEN \E k \in 1..2 : i.outs[k] = l /\ i.outs[3 - k] = ort'[l].ort_pair
           ELSE ort'[l].ort_pair = ort[l].ort_pair
<1> DEFINE d0 == RefUpdate(i)
           d1 == Overwrite(d0, i.outs[1], i.outs[2])
           d2 == Overwrite(d1, i.outs[2], i.outs[1])
           o  == Dataflow(i, removed).ort
<1>1. /\ i.outs[1] \in Locs /\ i.outs[2] \in Locs
      /\ l \in Locs /\ l # DNA /\ TypeOK
    BY InstrFacts, LocsAssumption DEF Locs, HistoryInv
<1>2. d0 \in Flow /\ d1 \in Flow /\ o \in [Locs -> OrtEntry]
    BY <1>1, RefUpdateType, OverwriteType, DataflowType DEF Flow
<1>3. d0.ort[l].ort_pair = ort[l].ort_pair
    BY <1>1 DEF RefUpdate, TypeOK, OrtEntry
<1>4. d1.ort[l] = IF l = i.outs[1]
                  THEN [valid |-> TRUE, referenced |-> FALSE,
                        producer_idx |-> fifo_head, ort_pair |-> i.outs[2]]
                  ELSE d0.ort[l]
    BY <1>1, <1>2, OverwriteOrt
<1>5. d2.ort[l] = IF l = i.outs[2]
                  THEN [valid |-> TRUE, referenced |-> FALSE,
                        producer_idx |-> fifo_head, ort_pair |-> i.outs[1]]
                  ELSE d1.ort[l]
    BY <1>1, <1>2, OverwriteOrt
<1>6. o = IF removed THEN ort ELSE d2.ort
    BY DEF Dataflow
<1>7. ort' = Evict(o)
    BY DEF HRetire, Retire, ProcessNewInstr
<1> HIDE DEF d0, d1, d2, o
<1>8. ort'[l].ort_pair = o[l].ort_pair
    BY <1>1, <1>2, <1>7 DEF Evict, OrtEntry
<1>9. CASE ~removed /\ l = i.outs[2]
    <2>1. i.outs[2] = l /\ i.outs[3 - 2] = ort'[l].ort_pair
        BY <1>5, <1>6, <1>8, <1>9
    <2> QED
        BY <1>9, <2>1 DEF WrittenBy
<1>10. CASE ~removed /\ l # i.outs[2] /\ l = i.outs[1]
    <2>1. i.outs[1] = l /\ i.outs[3 - 1] = ort'[l].ort_pair
        BY <1>4, <1>5, <1>6, <1>8, <1>10
    <2> QED
        BY <1>10, <2>1 DEF WrittenBy
<1>11. CASE removed \/ (l # i.outs[2] /\ l # i.outs[1])
    BY <1>3, <1>4, <1>5, <1>6, <1>8, <1>11 DEF WrittenBy
<1> QED
    BY <1>9, <1>10, <1>11

PairInv == OrtInv /\ PairMatches

LEMMA PairInit == HInit => PairInv
BY OrtInit DEF PairInv, PairMatches, HInit, Init, DefaultOrtEntry, Locs

LEMMA PairInvStep ==
    ASSUME PairInv, NEW i \in Instrs, NEW removed \in BOOLEAN,
           HRetire(i, removed)
    PROVE  PairInv'
<1>1. OrtInv /\ OrtInv' /\ HistoryInv
    BY OrtInvStep DEF PairInv, OrtInv
<1>2. PICK h \in Slots : h = fifo_head
    BY <1>1 DEF HistoryInv, TypeOK
<1>3. /\ past' = [past EXCEPT ![h] = [instr |-> i, removed |-> removed]]
      /\ past \in [Slots -> [instr : Instrs \cup {DNA}, removed : BOOLEAN]]
    BY <1>1, <1>2 DEF HRetire, HistoryInv, PastMatches
<1> SUFFICES ASSUME NEW l \in Regs \cup Addrs, NEW p \in Slots,
                    ort'[l].valid, ort'[l].producer_idx = p
             PROVE  \E k \in 1..2 : /\ past'[p].instr.outs[k] = l
                                    /\ past'[p].instr.outs[3 - k] = ort'[l].ort_pair
    BY <1>1 DEF PairInv, PairMatches
<1>4. CASE ~removed /\ WrittenBy(i, l)
    <2>1. p = h
        BY <1>1, <1>2, <1>4, OrtStep
    <2>2. past'[p].instr = i
        BY <1>3, <2>1
    <2>3. \E k \in 1..2 : i.outs[k] = l /\ i.outs[3 - k] = ort'[l].ort_pair
        BY <1>1, <1>4, PairStep
    <2> QED
        BY <2>2, <2>3
<1>5. CASE ~(~removed /\ WrittenBy(i, l))
    <2>1. /\ ort[l].valid /\ ort[l].producer_idx = p
          /\ ~(/\ Evicting
               /\ \E k \in 1..2 : window[h].outs[k] = l
               /\ ort[l].producer_idx = h)
        BY <1>1, <1>2, <1>5, OrtStep
    <2>2. ort'[l].ort_pair = ort[l].ort_pair
        BY <1>1, <1>5, PairStep
    <2>3. PICK k \in 1..2 : /\ past[p].instr.outs[k] = l
                            /\ past[p].instr.outs[3 - k] = ort[l].ort_pair
        BY <2>1 DEF PairInv, PairMatches
    <2>4. p # h
        <3> SUFFICES ASSUME p = h PROVE FALSE
            OBVIOUS
        <3>1. window[h].valid
            BY <2>1, <1>1 DEF OrtInv, OrtLatestWriter, LatestWriter, Writes, Accepted
        <3>2. \E kk \in 1..2 : window[h].outs[kk] = l
            BY <1>1, <2>3, <3>1 DEF HistoryInv, PastMatches
        <3>3. Evicting
            BY <1>1, <1>2, <3>1, WAssumption DEF HistoryInv, TypeOK, WindowShape, Evicting, Slots
        <3> QED
            BY <2>1, <3>2, <3>3
    <2>5. past'[p] = past[p]
        BY <1>3, <2>4
    <2> QED
        BY <2>2, <2>3, <2>5
<1> QED
    BY <1>4, <1>5

-----------------------------------------------------------------------------
(* The verdicts.                                                           *)

(* A position of the sliding window and the slot it is read from. *)
LEMMA RecentSlots ==
    ASSUME HistoryInv
    PROVE  /\ DOMAIN Recent = 1 .. w_instr_cnt
           /\ Len(Recent) = w_instr_cnt
           /\ \A n \in 1 .. w_instr_cnt : \E s \in Slots :
                 /\ Recent[n] = past[s] /\ window[s].valid
                 /\ Age(s) = w_instr_cnt - n
           /\ \A s \in Slots : window[s].valid =>
                 /\ w_instr_cnt - Age(s) \in 1 .. w_instr_cnt
                 /\ Recent[w_instr_cnt - Age(s)] = past[s]
<1>1. w_instr_cnt \in Nat
    BY DEF HistoryInv, TypeOK
<1>2. \A n \in 1 .. w_instr_cnt : Recent[n] = past[OldestSlot(n)]
    BY DEF Recent
<1>3. DOMAIN Recent = 1 .. w_instr_cnt /\ Len(Recent) = w_instr_cnt
    BY <1>1 DEF Recent
<1> QED
    BY <1>2, <1>3, OldestFirst

(* A write the detector finds unreferenced is one nobody read.             *)
LEMMA UnreadSound ==
    ASSUME PairInv, NEW i \in Instrs, NEW l \in Regs \cup Addrs,
           WrittenBy(i, l), Unreferenced(RefUpdate(i).ort[l])
    PROVE  l \in Verdicts!Unread(i)
<1> DEFINE e == ort[l]
           p == e.producer_idx
           c == w_instr_cnt
           n == c - Age(p)
<1>1. /\ HistoryInv /\ TypeOK /\ l \in Locs /\ l # DNA
      /\ OrtLatestWriter /\ ReferencedExact
    BY LocsAssumption DEF PairInv, OrtInv, HistoryInv, Locs
<1>2. e \in OrtEntry /\ p \in Slots
    BY <1>1 DEF TypeOK, OrtEntry
<1>3. e.valid /\ ~e.referenced /\ e.ort_pair = DNA /\ ~ReadBy(i, l)
    <2>1. RefUpdate(i).ort[l] = [e EXCEPT !.referenced =
                          \/ e.referenced
                          \/ \E k \in 1..3 : ReadReg(i, k) /\ i.ins[k] = l
                          \/ \E k \in 1..2 : ReadMem(i, k) /\ i.loads[k] = l]
        BY <1>1 DEF RefUpdate
    <2> QED
        BY <1>1, <1>2, <2>1 DEF Unreferenced, OrtEntry, ReadReg, ReadMem, ReadBy
<1>4. LatestWriter(p, l) /\ \A q \in Slots : ~(Reads(q, l) /\ Younger(q, p))
    BY <1>1, <1>2, <1>3 DEF OrtLatestWriter, ReferencedExact
<1>5. window[p].valid /\ ~past[p].removed
    BY <1>4 DEF LatestWriter, Writes, Accepted
<1>6. n \in 1 .. c /\ Recent[n] = past[p]
    BY <1>1, <1>2, <1>5, RecentSlots
<1>7. Verdicts!Outputs(past[p].instr) = {l}
    <2>1. PICK k \in 1..2 : /\ past[p].instr.outs[k] = l
                            /\ past[p].instr.outs[3 - k] = DNA
        BY <1>2, <1>3 DEF PairInv, PairMatches
    <2>2. \A j \in 1..2 : j = k \/ j = 3 - k
        OBVIOUS
    <2> QED
        BY <1>1, <2>1, <2>2 DEF Verdicts!Outputs
<1>8. ASSUME NEW m \in Verdicts!Effective(Recent), m > n
      PROVE  l \notin Verdicts!Inputs(Recent[m].instr)
                        \cup Verdicts!Outputs(Recent[m].instr)
    <2>1. m \in 1 .. c /\ ~Recent[m].removed
        BY <1>1, RecentSlots DEF Verdicts!Effective
    <2>2. PICK s \in Slots : /\ Recent[m] = past[s] /\ window[s].valid
                             /\ Age(s) = c - m
        BY <1>1, <2>1, RecentSlots
    <2>3. Age(p) \in Int /\ c \in Int
        BY <1>1, <1>2, WAssumption DEF TypeOK, Age, Slots
    <2>4. Younger(s, p) /\ ~Younger(p, s) /\ s # p
        BY <1>8, <2>1, <2>2, <2>3 DEF Younger
    <2>5. ~Reads(s, l) /\ ~Writes(s, l)
        BY <1>4, <2>4 DEF LatestWriter
    <2>6. /\ ~ReadBy(past[s].instr, l)
          /\ ~WrittenBy(past[s].instr, l)
        BY <2>1, <2>2, <2>5 DEF Reads, Writes, Accepted, ReadBy, WrittenBy
    <2> QED
        BY <2>2, <2>6 DEF Verdicts!Inputs, Verdicts!Outputs, ReadBy, WrittenBy
<1>9. n \in Verdicts!Effective(Recent)
    BY <1>1, <1>5, <1>6, RecentSlots DEF Verdicts!Effective
<1>10. Verdicts!UnreadWrite(Recent, n, l)
    BY <1>6, <1>7, <1>8 DEF Verdicts!UnreadWrite
<1>11. l \in Verdicts!Outputs(i) \ Verdicts!Inputs(i)
    BY <1>1, <1>3 DEF WrittenBy, ReadBy, Verdicts!Outputs, Verdicts!Inputs
<1> QED
    BY <1>9, <1>10, <1>11 DEF Verdicts!Unread

(* It does not find more of them than the instruction overwrites.          *)
LEMMA UnreadCounted ==
    ASSUME PairInv, NEW i \in Instrs, NEW removed \in BOOLEAN
    PROVE  /\ Cardinality(Verdicts!Unread(i)) \in Nat
           /\ Dataflow(i, removed).uref
                \in 0 .. (IF removed THEN 0 ELSE Cardinality(Verdicts!Unread(i)))
<1> DEFINE U  == Verdicts!Unread(i)
           d0 == RefUpdate(i)
           d1 == Overwrite(d0, i.outs[1], i.outs[2])
           d2 == Overwrite(d1, i.outs[2], i.outs[1])
           dead1 == i.outs[1] # DNA /\ Unreferenced(d0.ort[i.outs[1]])
           dead2 == i.outs[2] # DNA /\ Unreferenced(d0.ort[i.outs[2]])
<1>1. /\ TypeOK
      /\ i.outs[1] \in Locs /\ i.outs[2] \in Locs
      /\ i.outs[1] = DNA => i.outs[2] = DNA
      /\ i.outs[1] # DNA => i.outs[1] # i.outs[2]
    BY InstrFacts DEF PairInv, OrtInv, HistoryInv, WellFormed
<1>2. U \subseteq {i.outs[1], i.outs[2]}
    BY DEF Verdicts!Unread, Verdicts!Outputs
<1>3. IsFiniteSet({i.outs[1], i.outs[2]})
    <2> DEFINE S == {i.outs[1]}
               x == i.outs[2]
    <2>1. IsFiniteSet(S)
        BY FS_Singleton
    <2>2. {i.outs[1], i.outs[2]} = S \cup {x}
        OBVIOUS
    <2> HIDE DEF S, x
    <2>3. IsFiniteSet(S \cup {x})
        BY <2>1, FS_AddElement
    <2> QED
        BY <2>2, <2>3
<1>4. IsFiniteSet(U) /\ Cardinality(U) \in Nat
    BY <1>2, <1>3, FS_Subset, FS_CardinalityType
<1>5. (dead1 => i.outs[1] \in U) /\ (dead2 => i.outs[2] \in U)
    BY <1>1, UnreadSound DEF WrittenBy, Locs
<1>6. d0 \in Flow /\ d0.uref = 0 /\ d1 \in Flow
    BY <1>1, RefUpdateType, OverwriteType DEF RefUpdate
<1>7. d1.uref = IF dead1 THEN 1 ELSE 0
    BY <1>6 DEF Overwrite
<1>8. d2.uref = d1.uref + IF dead2 THEN 1 ELSE 0
    <2>1. CASE i.outs[2] = DNA
        BY <1>6, <2>1 DEF Overwrite, Flow
    <2>2. CASE i.outs[2] # DNA
        <3> HIDE DEF d0
        <3>0. Overwrite(d0, i.outs[1], i.outs[2]).ort[i.outs[2]] = d0.ort[i.outs[2]]
            <4>1. i.outs[1] # i.outs[2]
                BY <1>1, <2>2
            <4>2. i.outs[1] \in Locs /\ i.outs[2] \in Locs /\ d0 \in Flow /\ TypeOK
                BY <1>1, <1>6
            <4> QED
                BY <4>1, <4>2, OverwriteOrt
        <3>1. d1.ort[i.outs[2]] = d0.ort[i.outs[2]]
            BY <3>0
        <3> HIDE DEF d1
        <3> QED
            BY <2>2, <3>1 DEF Overwrite
    <2> QED
        BY <2>1, <2>2
<1>9. Dataflow(i, removed).uref = IF removed THEN 0 ELSE d2.uref
    BY DEF Dataflow
<1> HIDE DEF d0, d1, d2, U, dead1, dead2
<1>10. d2.uref <= Cardinality(U) /\ d2.uref \in Nat
    <2>1. CASE dead1 /\ dead2
        <3>1. i.outs[1] # i.outs[2]
            BY <1>1, <2>1 DEF dead1
        <3>2. U = {i.outs[1]} \cup {i.outs[2]}
            BY <1>2, <1>5, <2>1
        <3>3. IsFiniteSet({i.outs[1]}) /\ Cardinality({i.outs[1]}) = 1
            BY FS_Singleton
        <3>4. Cardinality(U) = 2
            BY <3>1, <3>2, <3>3, FS_AddElement
        <3> QED
            BY <1>7, <1>8, <2>1, <3>4
    <2>2. CASE dead1 \/ dead2
        <3>1. U # {}
            BY <1>5, <2>2
        <3>2. Cardinality(U) # 0
            BY <1>4, <3>1, FS_EmptySet
        <3> QED
            BY <1>4, <1>7, <1>8, <2>1, <3>2
    <2>3. CASE ~dead1 /\ ~dead2
        BY <1>4, <1>7, <1>8, <2>3
    <2> QED
        BY <2>1, <2>2, <2>3
<1> QED
    BY <1>4, <1>9, <1>10 DEF U

(* A branch found ineffectual as it leaves is one all of whose instances   *)
(* in the window, the new instruction included, went one way.              *)
LEMMA FixedSound ==
    ASSUME BranchInv, NEW i \in Instrs, NEW removed \in BOOLEAN,
           IneffectualBranch(BranchSeen(i)),
           NEW w, w = Append(Recent, [instr |-> i, removed |-> removed])
    PROVE  Evicting /\ Verdicts!FixedBranch(w)
<1> DEFINE h  == fifo_head
           br == window[fifo_head].branch_pc
           c  == w_instr_cnt
<1>1. HistoryInv /\ TypeOK /\ h \in Slots /\ c \in 0 .. W /\ W \in Nat \ {0}
    BY WAssumption DEF BranchInv, HistoryInv, TypeOK
<1>2. br # DNA /\ br \in Pcs /\ BranchSeen(i)[br].const_tgt
    BY <1>1 DEF IneffectualBranch, TypeOK, FifoEntry
<1>3. window[h].valid /\ past[h].instr.kind = "cond" /\ past[h].instr.pc = br
    BY <1>1, <1>2 DEF HistoryInv, PastMatches
<1>4. Evicting /\ c = W
    <2>1. ~(c < W)
        BY <1>1, <1>3 DEF HistoryInv, WindowShape, Slots
    <2> QED
        BY <1>1, <2>1 DEF Evicting
<1>5. Age(h) = W - 1
    BY <1>1 DEF Age, Slots
<1>6. Recent[1] = past[h] /\ Len(Recent) = W
    <2>1. c - Age(h) = 1
        BY <1>1, <1>4, <1>5
    <2> QED
        BY <1>1, <1>3, <1>4, <2>1, RecentSlots
<1>7. Recent \in Seq([instr : Instrs \cup {DNA}, removed : BOOLEAN])
    <2>1. \A n \in 1 .. c : past[OldestSlot(n)] \in [instr : Instrs \cup {DNA}, removed : BOOLEAN]
        BY <1>1, OldestFirst DEF HistoryInv, PastMatches
    <2> QED
        BY <1>1, <2>1 DEF Recent
<1>8. /\ DOMAIN w = 1 .. W + 1
      /\ w[1] = past[h]
      /\ w[W + 1] = [instr |-> i, removed |-> removed]
      /\ \A n \in 1 .. W : w[n] = Recent[n]
    BY <1>1, <1>6, <1>7
<1>9. /\ btb[br].const_tgt
      /\ Seen(i, br) => btb[br].tgt_addr = i.next
    <2>1. btb \in [Pcs -> BtbEntry]
        BY <1>1 DEF TypeOK
    <2>2. btb[br].valid_cnt > 0
        <3>1. h \in Instances(br)
            BY <1>1 DEF Instances
        <3>2. btb[br].valid_cnt = Cardinality(Instances(br))
            BY <1>2 DEF BranchInv, BtbCountExact, Instances
        <3> QED
            BY <3>1, <3>2, InstancesFinite
    <2> DEFINE same == btb[br].const_tgt /\ btb[br].tgt_addr = i.next
    <2>3. same \in BOOLEAN
        OBVIOUS
    <2>4. BranchSeen(i)[br].const_tgt =
             IF Seen(i, br) THEN same ELSE btb[br].const_tgt
        <3>1. CASE ~Seen(i, br)
            BY <1>2, <2>1, <3>1, InstrFacts DEF BranchSeen, Seen
        <3>2. CASE Seen(i, br)
            <4> HIDE DEF same
            <4>1. BranchSeen(i)[br] = [tgt_addr  |-> btb[br].tgt_addr,
                                       const_tgt |-> same,
                                       valid_cnt |-> btb[br].valid_cnt + 1]
                BY <1>2, <2>1, <2>2, <3>2 DEF BranchSeen, FreshBranch, Seen, same
            <4> QED
                BY <3>2, <4>1
        <3> QED
            BY <3>1, <3>2
    <2> QED
        BY <1>2, <2>3, <2>4
<1>10. past[h].instr.next = btb[br].tgt_addr
    BY <1>1, <1>2, <1>9 DEF BranchInv, ConstTargetSound
<1>11. ASSUME NEW n \in DOMAIN w, w[n].instr.kind = "cond", w[n].instr.pc = br
       PROVE  w[n].instr.next = btb[br].tgt_addr
    <2>1. CASE n = W + 1
        BY <1>8, <1>9, <1>11, <2>1 DEF Seen
    <2>2. CASE n # W + 1
        <3>1. n \in 1 .. c
            BY <1>1, <1>4, <1>8, <2>2
        <3>2. PICK s \in Slots : Recent[n] = past[s] /\ window[s].valid
            BY <1>1, <3>1, RecentSlots
        <3>3. w[n] = past[s]
            BY <1>4, <1>8, <3>1, <3>2
        <3>4. window[s].branch_pc = br
            BY <1>1, <1>11, <3>2, <3>3 DEF HistoryInv, PastMatches
        <3> QED
            BY <1>2, <1>9, <3>3, <3>4 DEF BranchInv, ConstTargetSound
    <2> QED
        BY <2>1, <2>2
<1> QED
    BY <1>3, <1>4, <1>8, <1>10, <1>11 DEF Verdicts!FixedBranch

(* The abstract module's instance of FiniteSets counts as ours does. *)
LEMMA VerdictsCardinality == \A S : Verdicts!Cardinality(S) = Cardinality(S)
BY DEF Verdicts!Cardinality, Cardinality

LEMMA RetireImplements ==
    ASSUME PairInv, BranchInv, NEW i \in Instrs, NEW removed \in RemovedOnEntry(i),
           HRetire(i, removed)
    PROVE  Verdicts!ARetire(i, removed)
<1> DEFINE w == Append(Recent, [instr |-> i, removed |-> removed])
           u == Dataflow(i, removed).uref
           gone == IneffectualBranch(BranchSeen(i))
<1>1. removed \in BOOLEAN /\ HistoryInv
    BY RemovedOnEntryType DEF BranchInv
<1>2. /\ Len(w) = w_instr_cnt + 1
      /\ Recent' = IF Len(w) > W THEN Tail(w) ELSE w
    BY <1>1, RecentStep
<1>3. /\ stats'["inef_br"] = Add(Add(stats["inef_br"], removed /\ EntryCounter(i) = "inef_br"), gone)
      /\ stats'["reg_nmod"] = Add(stats["reg_nmod"], removed /\ EntryCounter(i) = "reg_nmod")
      /\ stats'["mem_nmod"] = Add(stats["mem_nmod"], removed /\ EntryCounter(i) = "mem_nmod")
      /\ stats'["mem_uref"] = stats["mem_uref"] + (IF i.kind = "store" THEN u ELSE 0)
      /\ stats'["reg_uref"] = stats["reg_uref"] + (IF i.kind # "store" THEN u ELSE 0)
    BY DEF HRetire, Retire, ProcessNewInstr, Counters
<1>4. \A k \in Counters : stats[k] \in Nat
    BY <1>1 DEF HistoryInv, TypeOK
<1>5. i.kind = "jump" => removed
    BY DEF RemovedOnEntry, IsFloatWrite
<1>6. /\ EntryCounter(i) = "inef_br" <=> i.kind = "jump"
      /\ EntryCounter(i) = "mem_nmod" <=> i.kind = "store"
      /\ EntryCounter(i) = "reg_nmod" <=> i.kind \notin {"jump", "store"}
    BY DEF EntryCounter
<1>7. gone => Len(w) > W /\ Verdicts!FixedBranch(w)
    <2>1. gone => Evicting /\ Verdicts!FixedBranch(w)
        BY <1>1, FixedSound
    <2> QED
        BY <1>2, <2>1, WAssumption DEF Evicting
<1>8. u \in 0 .. (IF removed THEN 0 ELSE Cardinality(Verdicts!Unread(i)))
      /\ Cardinality(Verdicts!Unread(i)) \in Nat
    BY <1>1, UnreadCounted
<1>a. gone \in BOOLEAN
    <2>1. BranchSeen(i) \in [Pcs -> BtbEntry]
        BY <1>1, BranchSeenType DEF HistoryInv
    <2>2. window[fifo_head].branch_pc # DNA =>
            BranchSeen(i)[window[fifo_head].branch_pc].const_tgt \in BOOLEAN
        BY <1>1, <2>1 DEF HistoryInv, TypeOK, FifoEntry, BtbEntry
    <2> QED
        BY <2>2 DEF IneffectualBranch
<1> HIDE DEF w, u, gone
<1>9. stats'["reg_nmod"] + stats'["mem_nmod"]
        = stats["reg_nmod"] + stats["mem_nmod"] + Verdicts!One(removed /\ i.kind # "jump")
    BY <1>1, <1>3, <1>4, <1>6 DEF Add, Counters, Verdicts!One
<1>10. stats'["reg_uref"] + stats'["mem_uref"] \in
          stats["reg_uref"] + stats["mem_uref"]
          .. stats["reg_uref"] + stats["mem_uref"]
             + (IF removed THEN 0 ELSE Cardinality(Verdicts!Unread(i)))
    BY <1>1, <1>3, <1>4, <1>8 DEF Counters
<1>11. stats'["inef_br"] \in
          stats["inef_br"] + Verdicts!One(i.kind = "jump")
          .. stats["inef_br"] + Verdicts!One(i.kind = "jump")
             + Verdicts!One(Len(w) > W /\ Verdicts!FixedBranch(w))
    BY <1>1, <1>a, <1>3, <1>4, <1>5, <1>6, <1>7 DEF Add, Counters, Verdicts!One
<1>12. /\ Recent' = IF Len(w) > W THEN Tail(w) ELSE w
       /\ w = Append(Recent, [instr |-> i, removed |-> removed])
    BY <1>2 DEF w
<1> QED
    BY <1>9, <1>10, <1>11, <1>12, VerdictsCardinality, Zenon DEF Verdicts!ARetire

(* Whatever instructions retire, the circular FIFO holds the last W of     *)
(* them in order, and no counter of the detector outruns what that window  *)
(* justifies: each unreferenced write was overwritten unread, each         *)
(* ineffectual branch went one way in all its instances.                   *)
THEOREM VerdictsRefinement == HSpec => VerdictsJustified
<1> DEFINE Inv == PairInv /\ BranchInv
<1>1. HInit => Verdicts!AInit
    BY DEF HInit, Init, Counters, Recent, Verdicts!AInit
<1>2. HInit => Inv
    BY PairInit, BranchInit
<1>3. Inv /\ [HNext]_hvars => Inv' /\ [Verdicts!ANext]_Verdicts!avars
    <2> SUFFICES ASSUME Inv, [HNext]_hvars
                 PROVE  Inv' /\ [Verdicts!ANext]_Verdicts!avars
        OBVIOUS
    <2>1. CASE HNext
        <3>0. PICK i \in Instrs : \E removed \in RemovedOnEntry(i) : HRetire(i, removed)
            BY <2>1 DEF HNext
        <3>1. PICK removed \in RemovedOnEntry(i) : HRetire(i, removed)
            BY <3>0
        <3>2. removed \in BOOLEAN
            BY RemovedOnEntryType
        <3>3. Inv'
            BY <3>1, <3>2, PairInvStep, BranchInvStep
        <3>4. Verdicts!ARetire(i, removed)
            BY <3>1, RetireImplements
        <3> QED
            BY <3>3, <3>4 DEF Verdicts!ANext
    <2>2. CASE UNCHANGED hvars
        <3>1. Inv'
            BY <2>2 DEF hvars, vars, PairInv, PairMatches, OrtInv, HistoryInv, TypeOK,
                    WindowShape, PastMatches, OrtLatestWriter, ReferencedExact, LatestWriter,
                    Writes, Reads, Accepted, Younger, Age, BranchInv, BtbCountExact,
                    ConstTargetSound
        <3>2. UNCHANGED Verdicts!avars
            BY <2>2 DEF hvars, vars, Verdicts!avars, Recent, OldestSlot
        <3> QED
            BY <3>1, <3>2
    <2> QED
        BY <2>1, <2>2
<1> QED
    BY <1>1, <1>2, <1>3, PTL DEF HSpec, VerdictsJustified, Verdicts!ASpec

-----------------------------------------------------------------------------
(* The counts and the consumers, while the window fills for the first time. *)

FillsOnce == sim_num_insn <= W => w_instr_cnt = sim_num_insn

(* The converse of OrtLatestWriter: until something leaves the window, the *)
(* last effective writer of a location keeps the location's entry.         *)
WritersKept ==
    sim_num_insn <= W =>
        \A l \in Regs \cup Addrs, p \in Slots :
            LatestWriter(p, l) => ort[l].valid /\ ort[l].producer_idx = p

(* The register operands that take their value from p, of the consumers    *)
(* that are not dead.                                                      *)
LiveUses(p) ==
    {e \in Slots \X (1..3) :
        Accepted(e[1]) /\ ~Dead(e[1]) /\ window[e[1]].src[e[2]] = p}

(* No instruction that writes registers, in a slot other than slot 0,      *)
(* counts more consumers than use it and are not dead.                     *)
CountsCovered ==
    sim_num_insn <= W =>
        \A p \in Slots \ {0} :
            Accepted(p) /\ past[p].instr.kind # "store" =>
                consumer_count[p] <= Cardinality(LiveUses(p))

ConsumersInv == PairInv /\ FillsOnce /\ WritersKept /\ CountsCovered

LEMMA LiveUsesFinite ==
    ASSUME NEW p
    PROVE  /\ IsFiniteSet(LiveUses(p))
           /\ LiveUses(p) \subseteq Slots \X (1..3)
<1>1. IsFiniteSet(Slots \X (1..3))
    BY SlotsFacts, OperandIndices, FS_Product
<1> QED
    BY <1>1, FS_Subset DEF LiveUses

(* An instruction that turns out to be dead takes all its uses of p with   *)
(* it.                                                                     *)
LEMMA DropCovers ==
    ASSUME NEW count \in [Slots -> Nat], NEW src, NEW live, NEW q \in Slots,
           NEW p \in Slots \ {0}, NEW E, IsFiniteSet(E),
           E \subseteq Slots \X (1..3),
           \A e \in E : e[1] = q => src[q][e[2]] = p,
           count[p] <= Cardinality(E)
    PROVE  Decrement(count, src, live, src[q])[p]
              <= Cardinality({e \in E : e[1] # q})
<1> DEFINE F == Exhausted(count, src, live, src[q])
           Gone == {e \in E : e[1] = q}
           Kept == {e \in E : e[1] # q}
           Ks == {k \in 1..3 : src[q][k] = p}
           Mine == {e \in F \X (1..3) : src[e[1]][e[2]] = p}
           f == [e \in Gone |-> e[2]]
           n == Losses(src, src[q], F, p)
<1>1. IsFiniteSet(Gone) /\ IsFiniteSet(Kept) /\ IsFiniteSet(Ks)
    BY OperandIndices, FS_Subset
<1>2. F \in SUBSET Slots
    BY ExhaustedType
<1>3. IsFiniteSet(Mine)
    <2>1. IsFiniteSet(F)
        BY <1>2, SlotsFacts, FS_Subset
    <2>2. IsFiniteSet(F \X (1..3))
        BY <2>1, OperandIndices, FS_Product
    <2> QED
        BY <2>2, FS_Subset
<1>4. Cardinality(Gone) <= Cardinality(Ks)
    <2>1. \A e \in Gone : e[2] \in Ks /\ e = <<q, e[2]>>
        OBVIOUS
    <2>2. f \in Injection(Gone, Ks)
        BY <2>1 DEF Injection, IsInjective
    <2> QED
        BY <1>1, <2>2, FS_Injection
<1>5. /\ Cardinality(Gone) \in Nat /\ Cardinality(Kept) \in Nat
      /\ Cardinality(Ks) \in Nat /\ Cardinality(Mine) \in Nat
      /\ Cardinality(E) \in Nat
    BY <1>1, <1>3, FS_CardinalityType
<1>6. Cardinality(E) = Cardinality(Gone) + Cardinality(Kept)
    <2>1. E = Gone \cup Kept /\ Gone \cap Kept = {}
        OBVIOUS
    <2>2. Cardinality(Gone \cap Kept) = 0
        BY <2>1, FS_EmptySet
    <2>3. Cardinality(Gone \cup Kept)
            = Cardinality(Gone) + Cardinality(Kept) - Cardinality(Gone \cap Kept)
        BY <1>1, FS_Union
    <2> HIDE DEF Gone, Kept
    <2> QED
        BY <1>5, <2>1, <2>2, <2>3
<1>7. n = Cardinality(Ks) + Cardinality(Mine)
    BY SlotsFacts DEF Losses, Mentions
<1>8. Decrement(count, src, live, src[q])[p]
        = IF n >= count[p] THEN 0 ELSE count[p] - n
    BY DEF Decrement
<1>9. count[p] \in Nat
    OBVIOUS
<1> HIDE DEF Gone, Kept, Ks, Mine, F, f, n
<1>10. Decrement(count, src, live, src[q])[p] <= Cardinality(Kept)
    BY <1>4, <1>5, <1>6, <1>7, <1>8, <1>9
<1> QED
    BY <1>10 DEF Kept

(* The overwrite of loc finds the value of instruction q unreferenced. *)
Kills(d, loc, q) ==
    loc # DNA /\ Unreferenced(d.ort[loc]) /\ q = d.ort[loc].producer_idx

LEMMA OverwriteCovers ==
    ASSUME TypeOK, NEW d \in Flow, NEW loc \in Locs, NEW pair \in Locs,
           NEW p \in Slots \ {0}, NEW E, IsFiniteSet(E),
           E \subseteq Slots \X (1..3),
           \A e \in E : Kills(d, loc, e[1]) => window[e[1]].src[e[2]] = p,
           d.count[p] <= Cardinality(E)
    PROVE  Overwrite(d, loc, pair).count[p]
              <= Cardinality({e \in E : ~Kills(d, loc, e[1])})
<1> DEFINE q == d.ort[loc].producer_idx
           Left == {e \in E : ~Kills(d, loc, e[1])}
<1>1. CASE loc # DNA /\ Unreferenced(d.ort[loc])
    <2>1. q \in Slots
        BY DEF Flow, OrtEntry
    <2>2. Left = {e \in E : e[1] # q}
        BY <1>1 DEF Kills
    <2>3. Overwrite(d, loc, pair).count
            = Decrement(d.count, Window_src, CurrentProducers(d.ort), Window_src[q])
        BY <1>1, <2>1 DEF Overwrite, DropProducers, Window_src
    <2>4. \A e \in E : e[1] = q => Window_src[q][e[2]] = p
        BY <1>1, <2>1 DEF Kills, Window_src
    <2>5. d.count \in [Slots -> Nat]
        BY DEF Flow
    <2> HIDE DEF q, Left
    <2>6. Decrement(d.count, Window_src, CurrentProducers(d.ort), Window_src[q])[p]
            <= Cardinality({e \in E : e[1] # q})
        BY <2>1, <2>4, <2>5, DropCovers
    <2>7. Overwrite(d, loc, pair).count[p] <= Cardinality(Left)
        BY <2>2, <2>3, <2>6
    <2> QED
        BY <2>7 DEF Left
<1>2. CASE ~(loc # DNA /\ Unreferenced(d.ort[loc]))
    <2>1. Left = E
        BY <1>2 DEF Kills
    <2>2. Overwrite(d, loc, pair).count = d.count
        BY <1>2 DEF Overwrite
    <2> QED
        BY <2>1, <2>2
<1> QED
    BY <1>1, <1>2

(* A memory entry never names an instruction that writes registers. *)
LEMMA RefUpdateCounts ==
    ASSUME PairInv, NEW i \in Instrs, NEW p \in Slots \ {0},
           Accepted(p) => past[p].instr.kind # "store"
    PROVE  Accepted(p) =>
              RefUpdate(i).count[p]
                = consumer_count[p]
                  + Cardinality({k \in 1..3 : Incoming(i).src[k] = p})
<1> SUFFICES ASSUME Accepted(p)
             PROVE  RefUpdate(i).count[p]
                      = consumer_count[p]
                        + Cardinality({k \in 1..3 : Incoming(i).src[k] = p})
    OBVIOUS
<1>1. HistoryInv /\ TypeOK
    BY DEF PairInv, OrtInv, HistoryInv
<1> DEFINE Mem == {k \in 1..2 : ReadMem(i, k) /\ ort[i.loads[k]].producer_idx = p}
           Reg == {k \in 1..3 : ReadReg(i, k) /\ ort[i.ins[k]].producer_idx = p}
           New == {k \in 1..3 : Incoming(i).src[k] = p}
<1>2. Mem = {}
    <2> SUFFICES ASSUME NEW k \in 1..2, ReadMem(i, k),
                        ort[i.loads[k]].producer_idx = p
                 PROVE  FALSE
        OBVIOUS
    <2>1. i.loads[k] \in Addrs
        BY InstrFacts DEF ReadMem
    <2>2. LatestWriter(p, i.loads[k])
        BY <2>1 DEF ReadMem, PairInv, OrtInv, OrtLatestWriter
    <2>3. PICK j \in 1..2 : past[p].instr.outs[j] = i.loads[k]
        BY <2>2 DEF LatestWriter, Writes
    <2>4. past[p].instr \in Instrs
        BY <1>1 DEF Accepted, HistoryInv, PastMatches
    <2>5. past[p].instr.outs[j] \in Regs \cup {DNA}
        BY <2>4, InstrFacts DEF WellFormed
    <2> QED
        BY <2>1, <2>3, <2>5, LocsAssumption
<1>3. Reg = New
    <2>1. \A k \in 1..3 : Incoming(i).src[k] =
            IF i.ins[k] = DNA THEN -1 ELSE ort[i.ins[k]].producer_idx
        BY DEF Incoming
    <2>2. p # -1
        BY SlotsFacts
    <2> QED
        BY <2>1, <2>2 DEF ReadReg
<1>4. RefUpdate(i).count[p]
        = consumer_count[p] + Cardinality(Reg) + Cardinality(Mem)
    BY DEF RefUpdate
<1>5. Cardinality(Mem) = 0
    BY <1>2, FS_EmptySet
<1>6. IsFiniteSet(New)
    BY OperandIndices, FS_Subset
<1>7. Cardinality(New) \in Nat /\ consumer_count[p] \in Nat
    BY <1>1, <1>6, FS_CardinalityType DEF TypeOK
<1> HIDE DEF Mem, Reg, New
<1>8. RefUpdate(i).count[p] = consumer_count[p] + Cardinality(New)
    BY <1>3, <1>4, <1>5, <1>7
<1> QED
    BY <1>8 DEF New

(* While the window fills, the slot to be filled is empty. *)
LEMMA FillingSlot ==
    ASSUME HistoryInv, FillsOnce, sim_num_insn < W
    PROVE  /\ fifo_head \in Slots
           /\ ~window[fifo_head].valid
           /\ ~Evicting
           /\ w_instr_cnt = sim_num_insn
           /\ ~Accepted(fifo_head)
<1>1. fifo_head \in Slots /\ w_instr_cnt \in 0..W /\ sim_num_insn \in Nat
    BY DEF HistoryInv, TypeOK
<1>2. w_instr_cnt = sim_num_insn /\ w_instr_cnt < W
    BY <1>1, WAssumption DEF FillsOnce
<1>3. ~(fifo_head < fifo_head)
    BY <1>1, SlotsFacts
<1> QED
    BY <1>1, <1>2, <1>3, WAssumption
       DEF HistoryInv, WindowShape, Evicting, Accepted

(* One entry is younger than the other. *)
LEMMA AgesDiffer ==
    ASSUME HistoryInv, NEW q \in Slots, NEW s \in Slots, q # s
    PROVE  Younger(q, s) \/ Younger(s, q)
BY WAssumption DEF HistoryInv, TypeOK, Younger, Age, Slots

LEMMA YoungerStep ==
    ASSUME HistoryInv, NEW i \in Instrs, NEW removed \in BOOLEAN,
           HRetire(i, removed)
    PROVE  \A q, s \in Slots :
              Younger(q, s)' <=> s # fifo_head /\ (q = fifo_head \/ Younger(q, s))
<1> SUFFICES ASSUME NEW q \in Slots, NEW s \in Slots
             PROVE  Age(q)' < Age(s)' <=>
                       s # fifo_head /\ (q = fifo_head \/ Age(q) < Age(s))
    BY DEF Younger
<1>1. /\ Age(q) \in Nat /\ Age(s) \in Nat
      /\ Age(q)' = IF q = fifo_head THEN 0 ELSE Age(q) + 1
      /\ Age(s)' = IF s = fifo_head THEN 0 ELSE Age(s) + 1
    BY AgeStep
<1> QED
    BY <1>1

(* An instruction dies when its value is overwritten unread: by the step,  *)
(* an instruction is dead that was, or whose entry is found unreferenced.  *)
LEMMA DeadStep ==
    ASSUME PairInv, FillsOnce, WritersKept, sim_num_insn < W,
           NEW i \in Instrs, NEW removed \in BOOLEAN, HRetire(i, removed),
           NEW q \in Slots, q # fifo_head, Dead(q)'
    PROVE  \/ Dead(q)
           \/ /\ ~removed
              /\ \E k \in 1..2 : Kills(RefUpdate(i), i.outs[k], q)
<1>1. /\ HistoryInv /\ TypeOK
      /\ fifo_head \in Slots /\ ~Accepted(fifo_head)
    BY FillingSlot DEF PairInv, OrtInv, HistoryInv
<1>a. PICK h \in Slots : h = fifo_head
    BY <1>1
<1>b. PICK l : l = past[q].instr.outs[1]
    OBVIOUS
<1>2. past' = [past EXCEPT ![h] = [instr |-> i, removed |-> removed]]
      /\ past \in [Slots -> [instr : Instrs \cup {DNA}, removed : BOOLEAN]]
    BY <1>1, <1>a DEF HRetire, HistoryInv, PastMatches
<1>3. window' = [window EXCEPT ![h] = Incoming(i)] /\ window \in [Slots -> FifoEntry]
    BY <1>1, <1>a DEF HRetire, Retire, ProcessNewInstr, TypeOK
<1>4. past'[q] = past[q] /\ window'[q] = window[q]
    BY <1>a, <1>2, <1>3
<1>5. Accepted(q) /\ past[q].instr.outs[2] = DNA /\ l # DNA
    BY <1>b, <1>4 DEF Dead, Accepted
<1>6. PICK w \in Slots :
        /\ Younger(w, q)'
        /\ Writes(w, l)'
        /\ \A r \in Slots : Reads(r, l)' /\ Younger(r, q)' => r # w /\ Younger(r, w)'
    BY <1>b, <1>4 DEF Dead
<1>7. \A s \in Slots :
        /\ Writes(s, l)' <=> IF s = h THEN ~removed /\ WrittenBy(i, l)
                                     ELSE Writes(s, l)
        /\ Reads(s, l)' <=> IF s = h THEN ~removed /\ ReadBy(i, l)
                                    ELSE Reads(s, l)
        /\ Writes(h, l) => FALSE
        /\ Reads(h, l) => FALSE
    <2>1. ~Writes(h, l) /\ ~Reads(h, l)
        BY <1>1, <1>a DEF Writes, Reads
    <2>2. \A s \in Slots :
            /\ Writes(s, l)' <=> IF s = h THEN ~removed /\ WrittenBy(i, l)
                                         ELSE Writes(s, l)
            /\ Reads(s, l)' <=> IF s = h THEN ~removed /\ ReadBy(i, l)
                                        ELSE Reads(s, l)
        <3> SUFFICES ASSUME NEW s \in Slots
                     PROVE  /\ Writes(s, l)' <=> IF s = h THEN ~removed /\ WrittenBy(i, l)
                                                          ELSE Writes(s, l)
                            /\ Reads(s, l)' <=> IF s = h THEN ~removed /\ ReadBy(i, l)
                                                         ELSE Reads(s, l)
            OBVIOUS
        <3> QED
            BY <1>1, <1>a, EffectStep DEF WrittenBy, ReadBy
    <2> QED
        BY <2>1, <2>2
<1>8. \A s, t \in Slots : Younger(s, t)' <=> t # h /\ (s = h \/ Younger(s, t))
    BY <1>1, <1>a, YoungerStep
<1>9. Writes(q, l)
    BY <1>b, <1>5 DEF Writes
<1>10. CASE w # h
    <2>1. Younger(w, q) /\ Writes(w, l)
        BY <1>6, <1>7, <1>8, <1>10
    <2>2. \A r \in Slots : Reads(r, l) /\ Younger(r, q) => r # w /\ Younger(r, w)
        <3> SUFFICES ASSUME NEW r \in Slots, Reads(r, l), Younger(r, q)
                     PROVE  r # w /\ Younger(r, w)
            OBVIOUS
        <3>1. r # h
            BY <1>7
        <3>2. Reads(r, l)' /\ Younger(r, q)'
            BY <1>a, <1>7, <1>8, <3>1
        <3> QED
            BY <1>6, <1>8, <3>1, <3>2
    <2>3. Dead(q)
        BY <1>5, <2>1, <2>2, <1>b DEF Dead
    <2> QED
        BY <2>3
<1>11. CASE w = h
    <2>1. ~removed /\ WrittenBy(i, l)
        BY <1>6, <1>7, <1>11
    <2>2. \A r \in Slots : ~(Reads(r, l)' /\ Younger(r, q)')
        BY <1>6, <1>8, <1>11
    <2>3. ~ReadBy(i, l)
        BY <1>a, <1>7, <1>8, <2>1, <2>2
    <2>4. \A r \in Slots : ~(Reads(r, l) /\ Younger(r, q))
        <3> SUFFICES ASSUME NEW r \in Slots, Reads(r, l), Younger(r, q) PROVE FALSE
            OBVIOUS
        <3>1. r # h
            BY <1>7
        <3> QED
            BY <1>a, <1>7, <1>8, <2>2, <3>1
    <2>5. CASE LatestWriter(q, l)
        <3>1. l \in Regs \cup Addrs /\ l \in Locs
            <4>1. past[q].instr \in Instrs
                BY <1>1, <1>5 DEF Accepted, HistoryInv, PastMatches
            <4> QED
                BY <1>b, <1>5, <4>1, InstrFacts DEF Locs
        <3>2. ort[l].valid /\ ort[l].producer_idx = q
            <4>1. sim_num_insn <= W
                BY <1>1, WAssumption DEF TypeOK
            <4> QED
                BY <2>5, <3>1, <4>1 DEF WritersKept
        <3>3. ~ort[l].referenced
            BY <2>4, <3>1, <3>2 DEF PairInv, OrtInv, ReferencedExact
        <3>4. ort[l].ort_pair = DNA
            <4>1. PICK k \in 1..2 : /\ past[q].instr.outs[k] = l
                                    /\ past[q].instr.outs[3 - k] = ort[l].ort_pair
                BY <3>1, <3>2 DEF PairInv, PairMatches
            <4>2. k = 1
                BY <1>b, <1>5, <4>1
            <4> QED
                BY <1>b, <1>5, <4>1, <4>2
        <3> DEFINE e == RefUpdate(i).ort[l]
        <3>5. e.valid /\ ~e.referenced /\ e.ort_pair = DNA /\ e.producer_idx = q
            <4>1. e = [ort[l] EXCEPT !.referenced =
                          \/ ort[l].referenced
                          \/ \E k \in 1..3 : ReadReg(i, k) /\ i.ins[k] = l
                          \/ \E k \in 1..2 : ReadMem(i, k) /\ i.loads[k] = l]
                BY <3>1 DEF RefUpdate
            <4>2. ort[l] \in OrtEntry
                BY <1>1, <3>1 DEF TypeOK
            <4>3. /\ ~\E k \in 1..3 : ReadReg(i, k) /\ i.ins[k] = l
                  /\ ~\E k \in 1..2 : ReadMem(i, k) /\ i.loads[k] = l
                BY <2>3 DEF ReadBy
            <4> QED
                BY <3>2, <3>3, <3>4, <4>1, <4>2, <4>3 DEF OrtEntry
        <3>6. PICK k \in 1..2 : i.outs[k] = l
            BY <2>1 DEF WrittenBy
        <3>7. Kills(RefUpdate(i), i.outs[k], q)
            BY <1>5, <3>5, <3>6 DEF Kills, Unreferenced
        <3> QED
            BY <2>1, <3>7
    <2>6. CASE ~LatestWriter(q, l)
        <3>1. PICK t \in Slots : Writes(t, l) /\ t # q /\ ~Younger(q, t)
            BY <1>9, <2>6 DEF LatestWriter
        <3>2. Younger(t, q)
            BY <1>1, <3>1, AgesDiffer
        <3>3. Dead(q)
            BY <1>b, <1>5, <2>4, <3>1, <3>2 DEF Dead
        <3> QED
            BY <3>3
    <2> QED
        BY <2>5, <2>6
<1> QED
    BY <1>10, <1>11

(* Nothing reads what is to be written next: the youngest is not dead, and *)
(* an entry that was read or written before is not the youngest.           *)
LEMMA KillsOld ==
    ASSUME PairInv, FillsOnce, sim_num_insn < W, NEW i \in Instrs,
           NEW loc \in Locs, NEW q \in Slots, Kills(RefUpdate(i), loc, q)
    PROVE  q # fifo_head
<1>1. /\ TypeOK /\ HistoryInv /\ ~Accepted(fifo_head)
    BY FillingSlot DEF PairInv, OrtInv, HistoryInv
<1>2. loc \in Regs \cup Addrs
    BY DEF Kills, Locs
<1>3. /\ RefUpdate(i).ort[loc].valid = ort[loc].valid
      /\ RefUpdate(i).ort[loc].producer_idx = ort[loc].producer_idx
    <2>1. ort[loc] \in OrtEntry
        BY <1>1 DEF TypeOK
    <2> QED
        BY <2>1 DEF RefUpdate, OrtEntry
<1>4. ort[loc].valid /\ ort[loc].producer_idx = q
    BY <1>3 DEF Kills, Unreferenced
<1>5. Accepted(q)
    BY <1>2, <1>4 DEF PairInv, OrtInv, OrtLatestWriter, LatestWriter, Writes
<1> QED
    BY <1>1, <1>5

(* The uses of p after instruction i has been entered but before it is     *)
(* known what it kills.                                                    *)
UsesWith(i, p) ==
    LiveUses(p) \cup ({fifo_head} \X {k \in 1..3 : Incoming(i).src[k] = p})

KilledBy(i, q) == \E k \in 1..2 : Kills(RefUpdate(i), i.outs[k], q)

LEMMA UsesCounted ==
    ASSUME PairInv, FillsOnce, CountsCovered, sim_num_insn < W,
           NEW i \in Instrs, NEW p \in Slots \ {0},
           Accepted(p), past[p].instr.kind # "store"
    PROVE  /\ IsFiniteSet(UsesWith(i, p))
           /\ UsesWith(i, p) \subseteq Slots \X (1..3)
           /\ RefUpdate(i).count[p] <= Cardinality(UsesWith(i, p))
<1> DEFINE New == {k \in 1..3 : Incoming(i).src[k] = p}
           Own == {fifo_head} \X New
           Old == LiveUses(p)
<1>1. /\ TypeOK /\ HistoryInv /\ ~Accepted(fifo_head) /\ fifo_head \in Slots
      /\ sim_num_insn <= W
    BY FillingSlot, WAssumption DEF PairInv, OrtInv, HistoryInv, TypeOK
<1>2. RefUpdate(i).count[p] = consumer_count[p] + Cardinality(New)
    BY RefUpdateCounts
<1>3. consumer_count[p] <= Cardinality(Old)
    BY <1>1 DEF CountsCovered
<1>4. IsFiniteSet(Old) /\ Old \subseteq Slots \X (1..3)
    BY LiveUsesFinite
<1>5. IsFiniteSet(New)
    BY OperandIndices, FS_Subset
<1>6. IsFiniteSet({fifo_head}) /\ Cardinality({fifo_head}) = 1
    BY FS_Singleton
<1>7. IsFiniteSet(Own) /\ Cardinality(Own) = 1 * Cardinality(New)
    BY <1>5, <1>6, FS_Product
<1>8. Old \cap Own = {}
    BY <1>1 DEF LiveUses
<1>9. Cardinality(Old \cap Own) = 0
    BY <1>8, FS_EmptySet
<1>10. /\ IsFiniteSet(Old \cup Own)
       /\ Cardinality(Old \cup Own)
            = Cardinality(Old) + Cardinality(Own) - Cardinality(Old \cap Own)
    BY <1>4, <1>7, FS_Union
<1>11. /\ consumer_count[p] \in Nat /\ Cardinality(New) \in Nat
       /\ Cardinality(Old) \in Nat /\ Cardinality(Own) \in Nat
    BY <1>1, <1>4, <1>5, <1>7, FS_CardinalityType DEF TypeOK
<1>12. UsesWith(i, p) = Old \cup Own
    BY DEF UsesWith
<1>13. Old \cup Own \subseteq Slots \X (1..3)
    BY <1>1, <1>4
<1> HIDE DEF New, Own, Old
<1>14. RefUpdate(i).count[p] <= Cardinality(Old \cup Own)
    BY <1>2, <1>3, <1>7, <1>9, <1>10, <1>11
<1> QED
    BY <1>10, <1>12, <1>13, <1>14

LEMMA DataflowCovers ==
    ASSUME PairInv, FillsOnce, CountsCovered, sim_num_insn < W,
           NEW i \in Instrs, NEW p \in Slots \ {0},
           Accepted(p), past[p].instr.kind # "store"
    PROVE  Dataflow(i, FALSE).count[p]
              <= Cardinality({e \in UsesWith(i, p) : ~KilledBy(i, e[1])})
<1> DEFINE d0 == RefUpdate(i)
           d1 == Overwrite(d0, i.outs[1], i.outs[2])
           d2 == Overwrite(d1, i.outs[2], i.outs[1])
           E0 == UsesWith(i, p)
           E1 == {e \in E0 : ~Kills(d0, i.outs[1], e[1])}
           E2 == {e \in E1 : ~Kills(d1, i.outs[2], e[1])}
<1>1. TypeOK /\ fifo_head \in Slots
    BY FillingSlot DEF PairInv, OrtInv, HistoryInv
<1>2. i.outs[1] \in Locs /\ i.outs[2] \in Locs
    BY InstrFacts
<1>3. d0 \in Flow /\ d1 \in Flow
    BY <1>1, <1>2, RefUpdateType, OverwriteType
<1>4. /\ IsFiniteSet(E0) /\ E0 \subseteq Slots \X (1..3)
      /\ d0.count[p] <= Cardinality(E0)
    BY UsesCounted
<1>5. \A q \in Slots : Kills(d1, i.outs[2], q) <=> Kills(d0, i.outs[2], q)
    <2>1. CASE i.outs[2] = DNA
        BY <2>1 DEF Kills
    <2>2. CASE i.outs[2] # DNA
        <3>1. i.outs[1] # i.outs[2]
            BY <2>2, InstrFacts DEF WellFormed
        <3> HIDE DEF d0
        <3>2. d1.ort[i.outs[2]] = d0.ort[i.outs[2]]
            BY <1>1, <1>2, <1>3, <3>1, OverwriteOrt
        <3> HIDE DEF d1
        <3> QED
            BY <3>2 DEF Kills
    <2> QED
        BY <2>1, <2>2
<1>6. \A e \in E0 : e[1] # fifo_head => window[e[1]].src[e[2]] = p
    BY DEF UsesWith, LiveUses
<1>7. \A q \in Slots : Kills(d0, i.outs[1], q) \/ Kills(d0, i.outs[2], q)
                          => q # fifo_head
    BY <1>2, KillsOld
<1>8. Dataflow(i, FALSE).count = d2.count
    BY DEF Dataflow
<1> HIDE DEF d0, E0
<1>9. /\ IsFiniteSet(E1) /\ E1 \subseteq Slots \X (1..3)
      /\ d1.count[p] <= Cardinality(E1)
    <2>1. IsFiniteSet(E1) /\ E1 \subseteq Slots \X (1..3)
        BY <1>4, FS_Subset
    <2>2. \A e \in E0 : Kills(d0, i.outs[1], e[1]) => window[e[1]].src[e[2]] = p
        BY <1>4, <1>6, <1>7
    <2>3. d1.count[p] <= Cardinality(E1)
        BY <1>1, <1>2, <1>3, <1>4, <2>2, OverwriteCovers
    <2> QED
        BY <2>1, <2>3
<1>10. \A e \in E1 : Kills(d1, i.outs[2], e[1]) => window[e[1]].src[e[2]] = p
    BY <1>4, <1>5, <1>6, <1>7
<1> HIDE DEF d1
<1>11. d2.count[p] <= Cardinality(E2)
    <2> HIDE DEF E1
    <2> QED
        BY <1>1, <1>2, <1>3, <1>9, <1>10, OverwriteCovers
<1>12. E2 = {e \in E0 : ~KilledBy(i, e[1])}
    <2>1. \A q : KilledBy(i, q) <=> Kills(d0, i.outs[1], q) \/ Kills(d0, i.outs[2], q)
        BY DEF KilledBy, d0
    <2> QED
        BY <1>4, <1>5, <2>1
<1> HIDE DEF d2
<1> QED
    BY <1>8, <1>11, <1>12 DEF E0

(* A use that is not killed stays one. *)
LEMMA UsesStep ==
    ASSUME PairInv, FillsOnce, WritersKept, sim_num_insn < W,
           NEW i \in Instrs, NEW removed \in BOOLEAN, HRetire(i, removed),
           NEW p \in Slots
    PROVE  /\ removed => LiveUses(p) \subseteq LiveUses(p)'
           /\ ~removed => {e \in UsesWith(i, p) : ~KilledBy(i, e[1])}
                             \subseteq LiveUses(p)'
<1>1. /\ HistoryInv /\ TypeOK
      /\ fifo_head \in Slots /\ ~Accepted(fifo_head)
    BY FillingSlot DEF PairInv, OrtInv, HistoryInv
<1>2. past' = [past EXCEPT ![fifo_head] = [instr |-> i, removed |-> removed]]
      /\ past \in [Slots -> [instr : Instrs \cup {DNA}, removed : BOOLEAN]]
    BY <1>1 DEF HRetire, HistoryInv, PastMatches
<1>3. /\ window' = [window EXCEPT ![fifo_head] = Incoming(i)]
      /\ window \in [Slots -> FifoEntry]
    BY <1>1 DEF HRetire, Retire, ProcessNewInstr, TypeOK
<1>4. \A e \in LiveUses(p) :
        ~(~removed /\ KilledBy(i, e[1])) => e \in LiveUses(p)'
    <2> SUFFICES ASSUME NEW e \in LiveUses(p), ~(~removed /\ KilledBy(i, e[1]))
                 PROVE  e \in LiveUses(p)'
        OBVIOUS
    <2>1. /\ e \in Slots \X (1..3) /\ e[1] \in Slots
          /\ Accepted(e[1]) /\ ~Dead(e[1]) /\ window[e[1]].src[e[2]] = p
        BY DEF LiveUses
    <2>2. e[1] # fifo_head
        BY <1>1, <2>1
    <2>3. window'[e[1]] = window[e[1]] /\ past'[e[1]] = past[e[1]]
        BY <1>1, <1>2, <1>3, <2>1, <2>2
    <2> DEFINE q == e[1]
    <2>4. ~Dead(q)'
        <3> HIDE DEF q
        <3>1. q \in Slots /\ q # fifo_head /\ ~Dead(q) /\ ~(~removed /\ KilledBy(i, q))
            BY <2>1, <2>2 DEF q
        <3> QED
            BY <3>1, DeadStep DEF KilledBy
    <2> QED
        BY <2>1, <2>3, <2>4 DEF LiveUses, Accepted
<1>5. ASSUME ~removed, NEW k \in 1..3, Incoming(i).src[k] = p
      PROVE  <<fifo_head, k>> \in LiveUses(p)'
    <2> PICK h \in Slots : h = fifo_head
        BY <1>1
    <2>1. /\ window'[h].valid /\ window'[h].src[k] = p /\ ~past'[h].removed
        BY <1>1, <1>2, <1>3, <1>5 DEF Incoming
    <2>2. ~Dead(h)'
        <3>1. \A q \in Slots : ~Younger(q, h)'
            BY <1>1, YoungerStep
        <3> QED
            BY <3>1 DEF Dead
    <2> QED
        BY <2>1, <2>2 DEF LiveUses, Accepted
<1>6. CASE removed
    BY <1>4, <1>6
<1>7. CASE ~removed
    BY <1>4, <1>5, <1>7 DEF UsesWith
<1> QED
    BY <1>6, <1>7

LEMMA WritersStep ==
    ASSUME PairInv, FillsOnce, WritersKept, sim_num_insn < W,
           NEW i \in Instrs, NEW removed \in BOOLEAN, HRetire(i, removed)
    PROVE  WritersKept'
<1> SUFFICES ASSUME NEW l \in Regs \cup Addrs, NEW p \in Slots, LatestWriter(p, l)'
             PROVE  ort'[l].valid /\ ort'[l].producer_idx = p
    BY DEF WritersKept
<1>1. /\ HistoryInv /\ TypeOK /\ l \in Locs
      /\ fifo_head \in Slots /\ ~Accepted(fifo_head) /\ ~Evicting
      /\ sim_num_insn <= W
    BY FillingSlot, WAssumption DEF PairInv, OrtInv, HistoryInv, TypeOK, Locs
<1> DEFINE o == Dataflow(i, removed).ort
<1>2. ort'[l].valid = o[l].valid /\ ort'[l].producer_idx = o[l].producer_idx
    <2>1. ort' = Evict(o)
        BY DEF HRetire, Retire, ProcessNewInstr
    <2>2. o[l] \in OrtEntry
        BY <1>1, DataflowType DEF Flow
    <2> HIDE DEF o
    <2> QED
        BY <1>1, <2>1, <2>2 DEF Evict, OrtEntry
<1>3. \A s \in Slots :
        Writes(s, l)' <=> IF s = fifo_head THEN ~removed /\ WrittenBy(i, l)
                                           ELSE Writes(s, l)
    BY <1>1, EffectStep DEF WrittenBy
<1>4. \A s, t \in Slots :
        Younger(s, t)' <=> t # fifo_head /\ (s = fifo_head \/ Younger(s, t))
    BY <1>1, YoungerStep
<1>5. Writes(p, l)' /\ \A s \in Slots : Writes(s, l)' => s = p \/ Younger(p, s)'
    BY DEF LatestWriter
<1>6. CASE ~removed /\ WrittenBy(i, l)
    <2>1. p = fifo_head
        BY <1>1, <1>3, <1>4, <1>5, <1>6
    <2>2. o[l].valid /\ o[l].producer_idx = fifo_head
        BY <1>1, <1>6, DataflowOrt
    <2> QED
        BY <1>2, <2>1, <2>2
<1>7. CASE ~(~removed /\ WrittenBy(i, l))
    <2>1. p # fifo_head /\ Writes(p, l)
        BY <1>3, <1>5, <1>7
    <2>2. \A s \in Slots : Writes(s, l) => s = p \/ Younger(p, s)
        <3> SUFFICES ASSUME NEW s \in Slots, Writes(s, l), s # p
                     PROVE  Younger(p, s)
            OBVIOUS
        <3>1. s # fifo_head
            BY <1>1 DEF Writes
        <3> QED
            BY <1>3, <1>4, <1>5, <2>1, <3>1
    <2>3. ort[l].valid /\ ort[l].producer_idx = p
        BY <1>1, <2>1, <2>2 DEF LatestWriter, WritersKept
    <2>4. o[l].valid = ort[l].valid /\ o[l].producer_idx = ort[l].producer_idx
        BY <1>1, <1>7, DataflowOrt
    <2> QED
        BY <1>2, <2>3, <2>4
<1> QED
    BY <1>6, <1>7

LEMMA CountsStep ==
    ASSUME PairInv, FillsOnce, WritersKept, CountsCovered, sim_num_insn < W,
           NEW i \in Instrs, NEW removed \in BOOLEAN, HRetire(i, removed)
    PROVE  CountsCovered'
<1> SUFFICES ASSUME NEW p \in Slots \ {0}, Accepted(p)', past'[p].instr.kind # "store"
             PROVE  consumer_count'[p] <= Cardinality(LiveUses(p)')
    BY DEF CountsCovered
<1>1. /\ HistoryInv /\ TypeOK /\ fifo_head \in Slots /\ ~Accepted(fifo_head)
      /\ sim_num_insn <= W
    BY FillingSlot, WAssumption DEF PairInv, OrtInv, HistoryInv, TypeOK
<1> DEFINE d == Dataflow(i, removed)
           c == MidCheck(d, BranchSeen(i))
<1>2. consumer_count' = [c EXCEPT ![fifo_head] = 0]
    BY DEF HRetire, Retire, ProcessNewInstr
<1>3. d \in Flow
    BY <1>1, DataflowType
<1>4. /\ c \in [Slots -> Nat] /\ c[p] <= d.count[p]
      /\ d.count \in [Slots -> Nat]
    <2> HIDE DEF d
    <2>1. d.count \in [Slots -> Nat]
        BY <1>3 DEF Flow
    <2>2. /\ DropProducers(d.count, d.ort, fifo_mid) \in [Slots -> Nat]
          /\ DropProducers(d.count, d.ort, fifo_mid)[p] <= d.count[p]
        BY <2>1, DecrementType DEF DropProducers
    <2>3. d.count[p] \in Nat
        BY <2>1
    <2> QED
        BY <2>1, <2>2, <2>3 DEF MidCheck
<1>5. IsFiniteSet(LiveUses(p)') /\ Cardinality(LiveUses(p)') \in Nat
    <2>1. LiveUses(p)' \subseteq Slots \X (1..3)
        BY DEF LiveUses
    <2>2. IsFiniteSet(Slots \X (1..3))
        BY SlotsFacts, OperandIndices, FS_Product
    <2> QED
        BY <2>1, <2>2, FS_Subset, FS_CardinalityType
<1> HIDE DEF c
<1>6. CASE p = fifo_head
    <2>1. consumer_count'[p] = 0
        BY <1>1, <1>2, <1>4, <1>6
    <2> QED
        BY <1>5, <2>1
<1>7. CASE p # fifo_head
    <2>1. Accepted(p) /\ past[p].instr.kind # "store"
        <3>1. past' = [past EXCEPT ![fifo_head] = [instr |-> i, removed |-> removed]]
              /\ past \in [Slots -> [instr : Instrs \cup {DNA}, removed : BOOLEAN]]
            BY <1>1 DEF HRetire, HistoryInv, PastMatches
        <3>2. window' = [window EXCEPT ![fifo_head] = Incoming(i)]
              /\ window \in [Slots -> FifoEntry]
            BY <1>1 DEF HRetire, Retire, ProcessNewInstr, TypeOK
        <3>3. past'[p] = past[p] /\ window'[p] = window[p]
            BY <1>1, <1>7, <3>1, <3>2
        <3> QED
            BY <3>3 DEF Accepted
    <2>2. consumer_count'[p] = c[p]
        BY <1>1, <1>2, <1>4, <1>7
    <2>3. d.count[p] <= Cardinality(LiveUses(p)')
        <3>1. CASE removed
            <4>1. d.count = consumer_count
                BY <3>1 DEF Dataflow
            <4>2. consumer_count[p] <= Cardinality(LiveUses(p))
                BY <1>1, <2>1 DEF CountsCovered
            <4>3. LiveUses(p) \subseteq LiveUses(p)'
                BY <3>1, UsesStep
            <4>4. Cardinality(LiveUses(p)) <= Cardinality(LiveUses(p)')
                BY <1>5, <4>3, FS_Subset
            <4>5. Cardinality(LiveUses(p)) \in Nat /\ consumer_count[p] \in Nat
                BY <1>1, LiveUsesFinite, FS_CardinalityType DEF TypeOK
            <4> HIDE DEF d
            <4> QED
                BY <1>5, <4>1, <4>2, <4>4, <4>5
        <3>2. CASE ~removed
            <4> DEFINE Left == {e \in UsesWith(i, p) : ~KilledBy(i, e[1])}
            <4>1. d.count[p] <= Cardinality(Left)
                <5>1. d = Dataflow(i, FALSE)
                    BY <3>2 DEF Dataflow
                <5> QED
                    BY <2>1, <5>1, DataflowCovers
            <4>2. Left \subseteq LiveUses(p)'
                BY <3>2, UsesStep
            <4>3. Cardinality(Left) <= Cardinality(LiveUses(p)') /\ IsFiniteSet(Left)
                BY <1>5, <4>2, FS_Subset
            <4>4. Cardinality(Left) \in Nat /\ d.count[p] \in Nat
                BY <1>4, <4>3, FS_CardinalityType
            <4> HIDE DEF Left, d
            <4> QED
                BY <1>5, <4>1, <4>3, <4>4
        <3> QED
            BY <3>1, <3>2
    <2>4. c[p] \in Nat /\ d.count[p] \in Nat
        BY <1>4
    <2> HIDE DEF d
    <2> QED
        BY <1>4, <1>5, <2>2, <2>3, <2>4
<1> QED
    BY <1>6, <1>7

LEMMA ConsumersInit == HInit => ConsumersInv
<1> SUFFICES ASSUME HInit PROVE ConsumersInv
    OBVIOUS
<1>1. \A s \in Slots : ~Accepted(s)
    BY DEF HInit, Init, Accepted, EmptyFifoEntry
<1>2. FillsOnce
    BY DEF HInit, Init, FillsOnce
<1>3. WritersKept
    BY <1>1 DEF WritersKept, LatestWriter, Writes
<1>4. CountsCovered
    BY <1>1 DEF CountsCovered
<1> QED
    BY <1>2, <1>3, <1>4, PairInit DEF ConsumersInv

LEMMA ConsumersStep ==
    ASSUME ConsumersInv, NEW i \in Instrs, NEW removed \in BOOLEAN,
           HRetire(i, removed)
    PROVE  ConsumersInv'
<1>1. PairInv'
    BY PairInvStep DEF ConsumersInv
<1>2. /\ sim_num_insn' = sim_num_insn + 1 /\ sim_num_insn \in Nat /\ W \in Nat
      /\ w_instr_cnt' = IF Evicting THEN W ELSE w_instr_cnt + 1
      /\ HistoryInv
    BY WAssumption DEF HRetire, Retire, ProcessNewInstr, ConsumersInv, PairInv, OrtInv,
                       HistoryInv, TypeOK
<1>3. CASE sim_num_insn < W
    <2>1. FillsOnce'
        <3>1. ~Evicting /\ w_instr_cnt = sim_num_insn
            BY <1>2, <1>3, FillingSlot DEF ConsumersInv
        <3> QED
            BY <1>2, <3>1 DEF FillsOnce
    <2>2. WritersKept'
        BY <1>3, WritersStep DEF ConsumersInv
    <2>3. CountsCovered'
        BY <1>3, CountsStep DEF ConsumersInv
    <2> QED
        BY <1>1, <2>1, <2>2, <2>3 DEF ConsumersInv
<1>4. CASE ~(sim_num_insn < W)
    <2>1. ~(sim_num_insn' <= W)
        BY <1>2, <1>4
    <2> QED
        BY <1>1, <2>1 DEF ConsumersInv, FillsOnce, WritersKept, CountsCovered
<1> QED
    BY <1>3, <1>4

LEMMA ConsumersDiscounted == ConsumersInv => DiscountedBeyondSlot0
<1> SUFFICES ASSUME ConsumersInv, sim_num_insn <= W, NEW p \in Slots \ {0},
                    Accepted(p), past[p].instr.kind # "store",
                    \A q \in Slots :
                        Accepted(q) /\ (\E k \in 1..3 : window[q].src[k] = p) => Dead(q)
             PROVE  consumer_count[p] = 0
    BY DEF DiscountedBeyondSlot0
<1>1. LiveUses(p) = {}
    <2> SUFFICES ASSUME NEW e \in LiveUses(p) PROVE FALSE
        OBVIOUS
    <2>1. /\ e[1] \in Slots /\ e[2] \in 1..3 /\ Accepted(e[1]) /\ ~Dead(e[1])
          /\ window[e[1]].src[e[2]] = p
        BY DEF LiveUses
    <2> QED
        BY <2>1
<1>2. consumer_count[p] <= Cardinality(LiveUses(p))
    BY DEF ConsumersInv, CountsCovered
<1>3. Cardinality(LiveUses(p)) = 0
    BY <1>1, FS_EmptySet
<1>4. consumer_count[p] \in Nat
    BY DEF ConsumersInv, PairInv, OrtInv, HistoryInv, TypeOK
<1> QED
    BY <1>2, <1>3, <1>4

(* Until something leaves the window, no instruction beyond slot 0 keeps a *)
(* consumer that is dead: when the last of its register consumers dies its *)
(* count is zero, however many cascades of _decrement_consumer overlapped. *)
THEOREM DiscountedCorrect == HSpec => []DiscountedBeyondSlot0
<1>1. ConsumersInv /\ [HNext]_hvars => ConsumersInv'
    <2> SUFFICES ASSUME ConsumersInv, [HNext]_hvars PROVE ConsumersInv'
        OBVIOUS
    <2>1. CASE HNext
        BY <2>1, ConsumersStep, RemovedOnEntryType DEF HNext
    <2>2. CASE UNCHANGED hvars
        BY <2>2 DEF hvars, vars, ConsumersInv, PairInv, PairMatches, OrtInv,
                    HistoryInv, TypeOK, WindowShape, PastMatches, OrtLatestWriter,
                    ReferencedExact, LatestWriter, Writes, Reads, Accepted, Younger,
                    Age, FillsOnce, WritersKept, CountsCovered, LiveUses, Dead
    <2> QED
        BY <2>1, <2>2
<1> QED
    BY <1>1, ConsumersInit, ConsumersDiscounted, PTL DEF HSpec

=============================================================================
