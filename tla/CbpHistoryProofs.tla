--------------------------- MODULE CbpHistoryProofs ---------------------------
(***************************************************************************)
(* CbpTypeOK as a theorem of CbpSpec, for every number of banks, history   *)
(* lengths, widths of the counters and hash functions; and the history     *)
(* properties of the predictor and its driver as theorems of BHSpec: marks *)
(* and statistics, usefulness, what a misprediction teaches, and the       *)
(* folded histories.                                                       *)
(***************************************************************************)
EXTENDS CbpHistory, FiniteSetTheorems, NaturalsInduction, WellFoundedInduction,
        TLAPS

-----------------------------------------------------------------------------
(* The operators of the predictor.                                         *)

(* A nonempty set of numbers has a least one. *)
LEMMA LeastExists ==
    ASSUME NEW S \in SUBSET Nat, S # {}
    PROVE  \E m \in S : \A n \in S : m <= n
<1>1. IsWellFoundedOn(OpToRel(<, Nat), Nat)
    BY NatLessThanWellFounded
<1>2. PICK m \in S : \A n \in S : ~(<<n, m>> \in OpToRel(<, Nat))
    BY <1>1, WFMin
<1>3. \A n \in S : ~(n < m)
    BY <1>2 DEF OpToRel
<1> QED
    BY <1>3

LEMMA FirstBankIsLeast ==
    ASSUME NEW S \in SUBSET Banks
    PROVE  /\ FirstBank(S) \in 0 .. NumBanks
           /\ S # {} => /\ FirstBank(S) \in S
                        /\ \A b \in S : FirstBank(S) <= b
<1>1. CASE S = {}
    BY <1>1, TageAssumption DEF FirstBank
<1>2. CASE S # {}
    <2>1. S \in SUBSET Nat
        BY DEF Banks
    <2>2. \E b \in S : \A c \in S : b <= c
        BY <1>2, <2>1, LeastExists
    <2>3. FirstBank(S) \in S /\ \A c \in S : FirstBank(S) <= c
        BY <1>2, <2>2 DEF FirstBank
    <2>4. FirstBank(S) \in 0 .. NumBanks
        <3>1. FirstBank(S) \in 0 .. NumBanks - 1
            BY <2>3 DEF Banks
        <3> QED
            BY <3>1, TageAssumption
    <2> QED
        BY <1>2, <2>3, <2>4
<1> QED
    BY <1>1, <1>2

LEMMA SaturateBounds ==
    ASSUME NEW low \in Int, NEW high \in Int, NEW cnt \in low .. high, NEW up \in BOOLEAN
    PROVE  Saturate(cnt, up, low, high) \in low .. high
BY DEF Saturate

LEMMA PathLenBound ==
    ASSUME NEW b \in Banks
    PROVE  PathLen(b) \in Nat /\ PathLen(b) <= LogTagged
BY TageAssumption DEF PathLen

(* Whatever the hash functions are, they select an entry and a tag. *)
LEMMA HashTypes ==
    ASSUME TageTypeOK, NEW pc \in PCs, NEW b \in Banks
    PROVE  TaggedTableIndex(pc, b) \in Indices /\ ComputeTag(pc, b) \in Tags
<1>1. [k \in 0 .. PathLen(b) - 1 |-> path_history[k]] \in Vector(PathLen(b))
    BY PathLenBound, TageAssumption DEF TageTypeOK, Vector
<1>2. /\ hist_i[b] \in Vector(LogTagged)
      /\ hist_t0[b] \in Vector(TagBits)
      /\ hist_t1[b] \in Vector(TagBits - 1)
    BY DEF TageTypeOK
<1> QED
    BY <1>1, <1>2, HashAssumption DEF TaggedTableIndex, ComputeTag

LEMMA CandidateType ==
    ASSUME TageTypeOK, NEW b \in Banks
    PROVE  Candidate(b) \in TEntry
BY DEF TageTypeOK, Candidate

LEMMA BitIsXor ==
    ASSUME NEW x \in Bits, NEW y \in Bits
    PROVE  Xor(x, y) \in Bits
<1>1. \/ x + y = 0 \/ x + y = 1 \/ x + y = 2
    BY DEF Bits
<1> QED
    BY <1>1 DEF Xor, Bits

LEMMA ShiftInType ==
    ASSUME NEW n \in Nat, NEW v \in Vector(n), NEW bit \in Bits
    PROVE  ShiftIn(v, bit, n) \in Vector(n)
BY DEF ShiftIn, Vector

LEMMA TruncateType ==
    ASSUME NEW n \in Nat, NEW v \in Vector(n), NEW c \in Nat
    PROVE  /\ Truncate(v, c) \in Vector(n)
           /\ \A k \in c .. n - 1 : Truncate(v, c)[k] = 0
BY DEF Truncate, Vector, Bits

LEMMA FoldType ==
    ASSUME NEW c \in Nat \ {0}, NEW f \in Vector(c), NEW h \in Vector(MaxHistLen),
           NEW n \in Nat \ {0}, n < MaxHistLen
    PROVE  Fold(f, h, n, c) \in Vector(c)
<1>1. OutgoingBit(h, n) \in Bits /\ h[0] \in Bits
    BY TageAssumption DEF OutgoingBit, Vector
<1>2. f[c - 1] \in Bits /\ \A k \in 1 .. c - 1 : f[k - 1] \in Bits
    BY DEF Vector
<1>3. Xor(h[0], f[c - 1]) \in Bits
    BY <1>1, <1>2, BitIsXor
<1>4. 0 \in Bits
    BY DEF Bits
<1>5. ASSUME NEW k \in 0 .. c - 1
      PROVE  Xor(IF k = 0 THEN Xor(h[0], f[c - 1]) ELSE f[k - 1],
                 IF k = n % c THEN OutgoingBit(h, n) ELSE 0) \in Bits
    <2>1. (IF k = 0 THEN Xor(h[0], f[c - 1]) ELSE f[k - 1]) \in Bits
        BY <1>2, <1>3
    <2>2. (IF k = n % c THEN OutgoingBit(h, n) ELSE 0) \in Bits
        BY <1>1, <1>4
    <2> QED
        BY <2>1, <2>2, BitIsXor
<1> QED
    BY <1>5 DEF Fold, Vector

-----------------------------------------------------------------------------
(* The two calls of the predictor.                                         *)

LEMMA GetPredictionType ==
    ASSUME TageTypeOK, NEW pc \in PCs, NEW dir, GetPrediction(pc, dir)
    PROVE  TageTypeOK'
<1> DEFINE idx   == [b \in Banks |-> TaggedTableIndex(pc, b)]
           match == Matching(tagged_table, pc)
           p     == FirstBank(match)
           a     == FirstBank(match \ {p})
           alt   == IF a = NumBanks THEN base_table[BaseIndex[pc]] >= 0
                    ELSE tagged_table[a][idx[a]].pred >= 0
<1>1. t_indices' = idx /\ idx \in [Banks -> Indices]
    BY HashTypes DEF GetPrediction
<1>2. match \in SUBSET Banks /\ match \ {p} \in SUBSET Banks
    BY DEF Matching
<1>3. provider_idx' = p /\ p \in 0 .. NumBanks
    BY <1>2, FirstBankIsLeast DEF GetPrediction
<1>4. alternative_idx' = a /\ a \in 0 .. NumBanks
    BY <1>2, FirstBankIsLeast DEF GetPrediction
<1>5. alternative_pred' = alt /\ alt \in BOOLEAN
    <2>1. alternative_pred' = alt
        BY DEF GetPrediction
    <2>2. base_table[BaseIndex[pc]] \in Int
        BY DEF TageTypeOK, BaseIndices
    <2>3. a # NumBanks => tagged_table[a][idx[a]].pred \in Int
        <3> HIDE DEF idx, match, p, a
        <3>1. a # NumBanks => a \in Banks
            BY <1>4, TageAssumption DEF Banks
        <3> QED
            BY <1>1, <3>1 DEF TageTypeOK, TEntry
    <2>4. alt \in BOOLEAN
        <3> HIDE DEF idx, match, p, a
        <3>1. CASE a = NumBanks
            BY <3>1, <2>2
        <3>2. CASE a # NumBanks
            BY <3>2, <2>3
        <3> QED
            BY <3>1, <3>2
    <2> QED
        BY <2>1, <2>4
<1>6. UNCHANGED <<tables, histories>>
    BY DEF GetPrediction
<1> HIDE DEF idx, match, p, a, alt
<1> QED
    BY <1>1, <1>3, <1>4, <1>5, <1>6 DEF TageTypeOK, tables, histories

(* The decrement of line 201 is of entries that are all above zero. *)
LEMMA AllocatedType ==
    ASSUME TageTypeOK, NEW pc \in PCs, NEW taken \in BOOLEAN,
           NEW b \in Banks, b < provider_idx
    PROVE  Allocated(pc, b, taken) \in TEntry
<1>1. Candidate(b) \in TEntry
    BY CandidateType
<1>2. CASE NoneReplaceable
    <2>1. b \in 0 .. provider_idx - 1
        BY TageAssumption DEF Banks, TageTypeOK
    <2>2. Candidate(b).ubit # 0
        BY <1>2, <2>1 DEF NoneReplaceable, Replaceable
    <2>3. Candidate(b).ubit - 1 \in 0 .. MaxUseful
        BY <1>1, <2>2, TageAssumption DEF TEntry
    <2> QED
        BY <1>1, <1>2, <2>3 DEF Allocated, TEntry
<1>3. NewEntry(pc, b, taken) \in TEntry
    <2>1. ComputeTag(pc, b) \in Tags
        BY HashTypes
    <2> QED
        BY <2>1, TageAssumption DEF NewEntry, TEntry
<1> QED
    BY <1>1, <1>2, <1>3 DEF Allocated

LEMMA TrainedType ==
    ASSUME NEW e \in TEntry, NEW taken \in BOOLEAN, NEW predDir \in BOOLEAN
    PROVE  Trained(e, taken, predDir) \in TEntry
<1>1. Saturate(e.pred, taken, SatLow, SatHigh) \in SatLow .. SatHigh
    BY SaturateBounds, TageAssumption DEF TEntry
<1>2. Saturate(e.ubit, predDir = taken, 0, MaxUseful) \in 0 .. MaxUseful
    BY TageAssumption DEF Saturate, TEntry
<1> QED
    BY <1>1, <1>2 DEF Trained, TEntry

LEMMA UpdateTablesType ==
    ASSUME TageTypeOK, NEW pc \in PCs, NEW taken \in BOOLEAN, NEW predDir \in BOOLEAN,
           UpdateTables(pc, taken, predDir)
    PROVE  /\ base_table' \in [BaseIndices -> -2 .. 1]
           /\ tagged_table' \in [Banks -> [Indices -> TEntry]]
<1>1. base_table' \in [BaseIndices -> -2 .. 1]
    <2>1. BaseIndex[pc] \in BaseIndices /\ base_table \in [BaseIndices -> -2 .. 1]
        BY DEF BaseIndices, TageTypeOK
    <2>2. base_table[BaseIndex[pc]] \in -2 .. 1
        BY <2>1
    <2>3. Saturate(base_table[BaseIndex[pc]], taken, -2, 1) \in -2 .. 1
        BY <2>2 DEF Saturate
    <2> QED
        BY <2>1, <2>3 DEF UpdateTables
<1>2. ASSUME NEW b \in Banks
      PROVE  tagged_table'[b] \in [Indices -> TEntry]
    <2> DEFINE new == IF b = provider_idx THEN Trained(Candidate(b), taken, predDir)
                      ELSE IF b < provider_idx /\ Allocates(taken, predDir)
                           THEN Allocated(pc, b, taken)
                      ELSE Candidate(b)
    <2>1. t_indices[b] \in Indices /\ tagged_table[b] \in [Indices -> TEntry]
        BY DEF TageTypeOK
    <2>2. new \in TEntry
        BY CandidateType, TrainedType, AllocatedType
    <2>3. tagged_table'[b] = [tagged_table[b] EXCEPT ![t_indices[b]] = new]
        BY DEF UpdateTables, Candidate
    <2> QED
        BY <2>1, <2>2, <2>3
<1>3. tagged_table' = [b \in Banks |-> tagged_table'[b]]
    BY DEF UpdateTables
<1> QED
    BY <1>1, <1>2, <1>3

LEMMA UpdateHistoryType ==
    ASSUME TageTypeOK, NEW pc \in PCs, NEW taken \in BOOLEAN, UpdateHistory(pc, taken)
    PROVE  /\ hist_i' \in [Banks -> Vector(LogTagged)]
           /\ hist_t0' \in [Banks -> Vector(TagBits)]
           /\ hist_t1' \in [Banks -> Vector(TagBits - 1)]
           /\ global_history' \in Vector(MaxHistLen)
           /\ path_history' \in Vector(IntBits)
           /\ \A k \in LogTagged + 1 .. IntBits - 1 : path_history'[k] = 0
<1> DEFINE h == ShiftIn(global_history, IF taken THEN 1 ELSE 0, MaxHistLen)
<1>1. (IF taken THEN 1 ELSE 0) \in Bits /\ PathBit[pc] \in Bits
    BY TageAssumption DEF Bits
<1>2. global_history' = h /\ h \in Vector(MaxHistLen)
    BY <1>1, ShiftInType, TageAssumption DEF UpdateHistory, TageTypeOK
<1>3. /\ path_history' \in Vector(IntBits)
      /\ \A k \in LogTagged + 1 .. IntBits - 1 : path_history'[k] = 0
    <2>1. ShiftIn(path_history, PathBit[pc], IntBits) \in Vector(IntBits)
        BY <1>1, ShiftInType, TageAssumption DEF TageTypeOK
    <2>2. path_history' = Truncate(ShiftIn(path_history, PathBit[pc], IntBits), LogTagged + 1)
        BY DEF UpdateHistory
    <2>3. IntBits \in Nat /\ LogTagged + 1 \in Nat
        BY TageAssumption
    <2>4. PICK v \in Vector(IntBits) : v = ShiftIn(path_history, PathBit[pc], IntBits)
        BY <2>1
    <2> QED
        BY <2>2, <2>3, <2>4, TruncateType
<1> HIDE DEF h
<1>4. ASSUME NEW b \in Banks
      PROVE  /\ Fold(hist_i[b], h, HistLen[b], LogTagged) \in Vector(LogTagged)
             /\ Fold(hist_t0[b], h, HistLen[b], TagBits) \in Vector(TagBits)
             /\ Fold(hist_t1[b], h, HistLen[b], TagBits - 1) \in Vector(TagBits - 1)
    <2>1. HistLen[b] \in Nat \ {0} /\ HistLen[b] < MaxHistLen
        BY TageAssumption
    <2>2. /\ LogTagged \in Nat \ {0}
          /\ TagBits \in Nat \ {0}
          /\ TagBits - 1 \in Nat \ {0}
        BY TageAssumption
    <2>3. /\ hist_i[b] \in Vector(LogTagged)
          /\ hist_t0[b] \in Vector(TagBits)
          /\ hist_t1[b] \in Vector(TagBits - 1)
        BY DEF TageTypeOK
    <2> QED
        BY <1>2, <2>1, <2>2, <2>3, FoldType
<1>5. /\ hist_i' = [b \in Banks |-> Fold(hist_i[b], h, HistLen[b], LogTagged)]
      /\ hist_t0' = [b \in Banks |-> Fold(hist_t0[b], h, HistLen[b], TagBits)]
      /\ hist_t1' = [b \in Banks |-> Fold(hist_t1[b], h, HistLen[b], TagBits - 1)]
    BY DEF UpdateHistory, h
<1> QED
    BY <1>2, <1>3, <1>4, <1>5

LEMMA UpdatePredictorType ==
    ASSUME TageTypeOK, NEW pc \in PCs, NEW taken \in BOOLEAN, NEW predDir \in BOOLEAN,
           UpdatePredictor(pc, taken, predDir)
    PROVE  /\ TageTypeOK'
           /\ \A k \in LogTagged + 1 .. IntBits - 1 : path_history'[k] = 0
<1>1. p_bias' \in SatLow .. SatHigh
    <2>1. \A up \in BOOLEAN : Saturate(p_bias, up, SatLow, SatHigh) \in SatLow .. SatHigh
        BY SaturateBounds, TageAssumption DEF TageTypeOK
    <2> QED
        BY <2>1 DEF UpdatePredictor, UpdateBias, TageTypeOK
<1>2. /\ base_table' \in [BaseIndices -> -2 .. 1]
      /\ tagged_table' \in [Banks -> [Indices -> TEntry]]
    BY UpdateTablesType DEF UpdatePredictor
<1>3. /\ hist_i' \in [Banks -> Vector(LogTagged)]
      /\ hist_t0' \in [Banks -> Vector(TagBits)]
      /\ hist_t1' \in [Banks -> Vector(TagBits - 1)]
      /\ global_history' \in Vector(MaxHistLen)
      /\ path_history' \in Vector(IntBits)
    BY UpdateHistoryType DEF UpdatePredictor
<1>4. UNCHANGED lookup
    BY DEF UpdatePredictor
<1> QED
    BY <1>1, <1>2, <1>3, <1>4, UpdateHistoryType DEF TageTypeOK, lookup, UpdatePredictor

-----------------------------------------------------------------------------
(* The driver.                                                             *)

LEMMA InitType == CbpInit => CbpTypeOK
<1> SUFFICES ASSUME CbpInit PROVE CbpTypeOK
    OBVIOUS
<1>1. \A n \in Nat : Zeroes(n) \in Vector(n)
    BY DEF Zeroes, Vector, Bits
<1>2. /\ global_history \in Vector(MaxHistLen)
      /\ path_history \in Vector(IntBits)
    BY <1>1, TageAssumption DEF CbpInit, TageInit
<1>3. /\ hist_i \in [Banks -> Vector(LogTagged)]
      /\ hist_t0 \in [Banks -> Vector(TagBits)]
      /\ hist_t1 \in [Banks -> Vector(TagBits - 1)]
    BY <1>1, TageAssumption DEF CbpInit, TageInit
<1>4. [pred |-> 0, tag |-> ZeroTag, ubit |-> 0] \in TEntry
    BY TageAssumption DEF TEntry
<1>5. tagged_table \in [Banks -> [Indices -> TEntry]]
    BY <1>4 DEF CbpInit, TageInit
<1>6. base_table \in [BaseIndices -> -2 .. 1]
    BY DEF CbpInit, TageInit
<1>7. /\ t_indices \in [Banks -> Indices]
      /\ provider_idx \in 0 .. NumBanks
      /\ alternative_idx \in 0 .. NumBanks
      /\ alternative_pred \in BOOLEAN
      /\ p_bias \in SatLow .. SatHigh
    <2>1. 0 \in SatLow .. SatHigh /\ NumBanks \in 0 .. NumBanks /\ ZeroIndex \in Indices
        BY TageAssumption
    <2> QED
        BY <2>1 DEF CbpInit, TageInit
<1>8. TageTypeOK
    BY <1>2, <1>3, <1>5, <1>6, <1>7 DEF TageTypeOK
<1>9. DriverTypeOK
    BY DEF CbpInit, DriverTypeOK, NoBranch, Classes, Unseen
<1>10. PathTruncated
    BY DEF CbpInit, PathTruncated
<1> QED
    BY <1>8, <1>9, <1>10 DEF CbpTypeOK

LEMMA NextType == CbpTypeOK /\ [CbpNext]_dvars => CbpTypeOK'
<1> SUFFICES ASSUME CbpTypeOK, [CbpNext]_dvars PROVE CbpTypeOK'
    OBVIOUS
<1> USE DEF CbpTypeOK
<1>1. ASSUME NEW pc \in PCs, NEW taken \in BOOLEAN, Predict(pc, taken)
      PROVE  CbpTypeOK'
    <2>1. PICK dir \in BOOLEAN :
              /\ GetPrediction(pc, dir)
              /\ branch' = [pc |-> pc, taken |-> taken, pred |-> dir,
                            class |-> ClassOf(myBtb[pc])]
        BY <1>1 DEF Predict
    <2>2. TageTypeOK'
        BY <2>1, GetPredictionType
    <2>3. myBtb[pc] \in {Unseen, 0, 1, 2}
        BY DEF DriverTypeOK
    <2>4. ClassOf(myBtb[pc]) \in Classes /\ MarkOnMiss(myBtb[pc], taken) \in {Unseen, 0, 1, 2}
        BY <2>3 DEF ClassOf, MarkOnMiss, Classes, Unseen
    <2>5. DriverTypeOK'
        BY <1>1, <2>1, <2>4 DEF Predict, DriverTypeOK
    <2>6. PathTruncated'
        BY <1>1, <2>1 DEF Predict, GetPrediction, histories, PathTruncated
    <2> QED
        BY <2>2, <2>5, <2>6
<1>2. ASSUME Resolve
      PROVE  CbpTypeOK'
    <2>1. /\ branch.pc \in PCs
          /\ branch.taken \in BOOLEAN
          /\ branch.pred \in BOOLEAN
          /\ branch.class \in Classes
        BY <1>2 DEF Resolve, DriverTypeOK, NoBranch
    <2>2. TageTypeOK'
        BY <1>2, <2>1, UpdatePredictorType DEF Resolve
    <2>3. DriverTypeOK'
        BY <1>2, <2>1 DEF Resolve, DriverTypeOK, Upgrade, Missed, NoBranch, Classes
    <2>4. PathTruncated'
        BY <1>2, <2>1, UpdatePredictorType DEF Resolve, PathTruncated
    <2> QED
        BY <2>2, <2>3, <2>4
<1>3. ASSUME Unconditional
      PROVE  CbpTypeOK'
    BY <1>3 DEF Unconditional, tvars, tables, histories, lookup, TageTypeOK, DriverTypeOK,
                PathTruncated
<1>4. ASSUME UNCHANGED dvars
      PROVE  CbpTypeOK'
    BY <1>4 DEF dvars, tvars, tables, histories, lookup, TageTypeOK, DriverTypeOK,
                PathTruncated
<1> QED
    BY <1>1, <1>2, <1>3, <1>4 DEF CbpNext

(* Every counter, register and table of the predictor and the driver keeps *)
(* its range: in particular no usefulness count is decremented below zero  *)
(* (predictor.h:199-201) and no lookup leaves the tables, whatever int the *)
(* path history, which the constructor does not set (predictor.h:268),     *)
(* starts as; one trained branch truncates it (predictor.h:220).           *)
THEOREM CbpTypeCorrect == CbpSpec => []CbpTypeOK
BY InitType, NextType, PTL DEF CbpSpec

-----------------------------------------------------------------------------
(* What the history variables mean while a record is being processed.      *)

(* What the class of the record at hand, read before the mark is made,     *)
(* says of the mark and of the directions seen.                            *)
MarkOfBranch ==
    LET mark == myBtb[branch.pc]
        seen == outcomes[branch.pc]
    IN  \/ branch.class = "MISS" /\ mark = (IF branch.taken THEN 1 ELSE 0)
           /\ seen = {branch.taken}
        \/ branch.class = "ANSF" /\ mark = 0 /\ seen = {FALSE, branch.taken}
        \/ branch.class = "ATSF" /\ mark = 1 /\ seen = {TRUE, branch.taken}
        \/ branch.class = "DYN" /\ mark = 2 /\ seen = BOOLEAN

MarksInv ==
    /\ CbpTypeOK
    /\ outcomes \in [PCs -> SUBSET BOOLEAN]
    /\ \A pc \in PCs : branch = NoBranch \/ branch.pc # pc
                       => myBtb[pc] = MarkOf(outcomes[pc])
    /\ branch # NoBranch => MarkOfBranch

UsefulInv ==
    /\ CbpTypeOK
    /\ earned \in [Banks -> [Indices -> Nat]]
    /\ UsefulnessEarned

(* A step is one of the driver's, and the history follows it. *)
LEMMA BHSteps ==
    ASSUME [BHNext]_bhvars
    PROVE  /\ [CbpNext]_dvars
           /\ \/ /\ branch = NoBranch
                 /\ \/ \E pc \in PCs, taken \in BOOLEAN : Predict(pc, taken)
                    \/ Unconditional
                 /\ BHNext
              \/ Resolve /\ BHNext
              \/ UNCHANGED bhvars
BY DEF BHNext, CbpNext, Predict, Unconditional, MoreRecords, bhvars

LEMMA BranchFacts ==
    ASSUME CbpTypeOK, branch # NoBranch
    PROVE  /\ branch.pc \in PCs
           /\ branch.taken \in BOOLEAN
           /\ branch.pred \in BOOLEAN
           /\ branch.class \in Classes
BY DEF CbpTypeOK, DriverTypeOK

LEMMA NoBranchIsNone ==
    ASSUME NEW pc \in PCs, NEW t, NEW d, NEW k
    PROVE  [pc |-> pc, taken |-> t, pred |-> d, class |-> k] # NoBranch
BY CbpAssumption DEF NoBranch

-----------------------------------------------------------------------------
(* The marking table.                                                      *)

LEMMA MarkValues ==
    /\ MarkOf({}) = Unseen
    /\ MarkOf({FALSE}) = 0
    /\ MarkOf({TRUE}) = 1
    /\ MarkOf(BOOLEAN) = 2
    /\ {TRUE, FALSE} = BOOLEAN
<1>1. {} # {FALSE} /\ {} # {TRUE} /\ {} # BOOLEAN
    OBVIOUS
<1>2. {FALSE} # {TRUE} /\ {FALSE} # BOOLEAN /\ {TRUE} # BOOLEAN
    OBVIOUS
<1>3. {TRUE, FALSE} = BOOLEAN
    OBVIOUS
<1> QED
    BY <1>1, <1>2, <1>3 DEF MarkOf

LEMMA SubsetsOfBoolean ==
    ASSUME NEW S \in SUBSET BOOLEAN
    PROVE  S = {} \/ S = {FALSE} \/ S = {TRUE} \/ S = BOOLEAN
OBVIOUS

LEMMA ClassOfMark ==
    /\ ClassOf(Unseen) = "MISS" /\ ClassOf(0) = "ANSF"
    /\ ClassOf(1) = "ATSF" /\ ClassOf(2) = "DYN"
    /\ \A taken \in BOOLEAN :
          /\ MarkOnMiss(Unseen, taken) = (IF taken THEN 1 ELSE 0)
          /\ MarkOnMiss(0, taken) = 0
          /\ MarkOnMiss(1, taken) = 1
          /\ MarkOnMiss(2, taken) = 2
BY DEF ClassOf, MarkOnMiss, Unseen

LEMMA SeenMore ==
    ASSUME NEW taken \in BOOLEAN
    PROVE  /\ {} \cup {taken} = {taken}
           /\ {FALSE} \cup {taken} = {FALSE, taken}
           /\ {TRUE} \cup {taken} = {TRUE, taken}
           /\ BOOLEAN \cup {taken} = BOOLEAN
OBVIOUS

LEMMA MarksStep == MarksInv /\ [BHNext]_bhvars => MarksInv'
<1> SUFFICES ASSUME MarksInv, [BHNext]_bhvars PROVE MarksInv'
    OBVIOUS
<1>1. CbpTypeOK'
    BY BHSteps, NextType DEF MarksInv
<1>2. ASSUME NEW pc \in PCs, NEW taken \in BOOLEAN, Predict(pc, taken), BHNext
      PROVE  MarksInv'
    <2>1. branch = NoBranch
        BY <1>2 DEF Predict, MoreRecords
    <2>2. PICK dir \in BOOLEAN : branch' = [pc |-> pc, taken |-> taken, pred |-> dir,
                                            class |-> ClassOf(myBtb[pc])]
        BY <1>2 DEF Predict
    <2>3. branch' # NoBranch
        BY <2>2, NoBranchIsNone
    <2>4. outcomes' = [outcomes EXCEPT ![pc] = @ \cup {taken}]
        BY <1>2, <2>1, <2>2, <2>3 DEF BHNext
    <2>5. myBtb' = [myBtb EXCEPT ![pc] = MarkOnMiss(@, taken)]
        BY <1>2 DEF Predict
    <2>6. outcomes \in [PCs -> SUBSET BOOLEAN] /\ outcomes' \in [PCs -> SUBSET BOOLEAN]
        BY <2>4 DEF MarksInv
    <2>7. myBtb \in [PCs -> {Unseen, 0, 1, 2}]
        BY DEF MarksInv, CbpTypeOK, DriverTypeOK
    <2>8. \A q \in PCs : q # pc => myBtb'[q] = MarkOf(outcomes'[q])
        BY <2>1, <2>4, <2>5, <2>6, <2>7 DEF MarksInv
    <2>9. /\ myBtb'[pc] = MarkOnMiss(myBtb[pc], taken)
          /\ outcomes'[pc] = outcomes[pc] \cup {taken}
          /\ myBtb[pc] = MarkOf(outcomes[pc])
        BY <2>1, <2>4, <2>5, <2>6, <2>7 DEF MarksInv
    <2>10. MarkOfBranch'
        <3>1. /\ branch'.pc = pc /\ branch'.taken = taken
              /\ branch'.class = ClassOf(MarkOf(outcomes[pc]))
              /\ myBtb'[branch'.pc] = MarkOnMiss(MarkOf(outcomes[pc]), taken)
              /\ outcomes'[branch'.pc] = outcomes[pc] \cup {taken}
            BY <2>2, <2>9
        <3> SUFFICES
                \/ /\ branch'.class = "MISS"
                   /\ myBtb'[branch'.pc] = (IF taken THEN 1 ELSE 0)
                   /\ outcomes'[branch'.pc] = {taken}
                \/ /\ branch'.class = "ANSF" /\ myBtb'[branch'.pc] = 0
                   /\ outcomes'[branch'.pc] = {FALSE, taken}
                \/ /\ branch'.class = "ATSF" /\ myBtb'[branch'.pc] = 1
                   /\ outcomes'[branch'.pc] = {TRUE, taken}
                \/ /\ branch'.class = "DYN" /\ myBtb'[branch'.pc] = 2
                   /\ outcomes'[branch'.pc] = BOOLEAN
            BY <3>1 DEF MarkOfBranch
        <3>2. CASE outcomes[pc] = {}
            <4>1. MarkOf(outcomes[pc]) = Unseen
                BY <3>2, MarkValues, Zenon
            <4>2. branch'.class = "MISS"
                BY <3>1, <4>1, ClassOfMark, Zenon
            <4>3. myBtb'[branch'.pc] = (IF taken THEN 1 ELSE 0)
                BY <3>1, <4>1 DEF MarkOnMiss
            <4>4. outcomes'[branch'.pc] = {taken}
                BY <3>1, <3>2, SeenMore, Zenon
            <4> QED
                BY <4>2, <4>3, <4>4
        <3>3. CASE outcomes[pc] = {FALSE}
            BY <3>1, <3>3, MarkValues, ClassOfMark, SeenMore, Zenon
        <3>4. CASE outcomes[pc] = {TRUE}
            BY <3>1, <3>4, MarkValues, ClassOfMark, SeenMore, Zenon
        <3>5. CASE outcomes[pc] = BOOLEAN
            BY <3>1, <3>5, MarkValues, ClassOfMark, SeenMore, Zenon
        <3>6. outcomes[pc] \in SUBSET BOOLEAN
            BY <2>6
        <3> QED
            BY <3>2, <3>3, <3>4, <3>5, <3>6, SubsetsOfBoolean, Zenon
    <2> QED
        BY <1>1, <2>2, <2>3, <2>6, <2>8, <2>10 DEF MarksInv
<1>3. ASSUME Resolve, BHNext
      PROVE  MarksInv'
    <2>1. branch # NoBranch /\ branch' = NoBranch
        BY <1>3 DEF Resolve
    <2>2. branch.pc \in PCs /\ branch.taken \in BOOLEAN
        BY <2>1, BranchFacts DEF MarksInv
    <2>3. outcomes' = outcomes
        BY <1>3, <2>1 DEF BHNext
    <2>4. myBtb' = [myBtb EXCEPT ![branch.pc] = Upgrade(branch.class, @, branch.taken)]
        BY <1>3 DEF Resolve
    <2>5. myBtb \in [PCs -> {Unseen, 0, 1, 2}]
        BY DEF MarksInv, CbpTypeOK, DriverTypeOK
    <2>6. MarkOfBranch
        BY <2>1 DEF MarksInv
    <2>7. Upgrade(branch.class, myBtb[branch.pc], branch.taken) = MarkOf(outcomes[branch.pc])
        <3>1. CASE branch.taken = TRUE
            BY <2>6, <3>1, MarkValues DEF MarkOfBranch, Upgrade
        <3>2. CASE branch.taken = FALSE
            BY <2>6, <3>2, MarkValues DEF MarkOfBranch, Upgrade
        <3> QED
            BY <2>2, <3>1, <3>2
    <2>8. \A pc \in PCs : myBtb'[pc] = MarkOf(outcomes'[pc])
        BY <2>2, <2>3, <2>4, <2>5, <2>7 DEF MarksInv
    <2> QED
        BY <1>1, <2>1, <2>3, <2>8 DEF MarksInv
<1>4. ASSUME Unconditional, BHNext
      PROVE  MarksInv'
    <2>1. UNCHANGED <<branch, myBtb, outcomes>>
        BY <1>4 DEF Unconditional, BHNext
    <2> QED
        BY <1>1, <2>1 DEF MarksInv, MarkOfBranch
<1>5. ASSUME UNCHANGED bhvars
      PROVE  MarksInv'
    <2>1. UNCHANGED <<branch, myBtb, outcomes>>
        BY <1>5 DEF bhvars, dvars
    <2> QED
        BY <1>1, <2>1 DEF MarksInv, MarkOfBranch
<1> QED
    BY <1>2, <1>3, <1>4, <1>5, BHSteps

(* The mark of a branch in the driver's marking table says exactly which   *)
(* directions it has taken, whatever the trace.                            *)
THEOREM MarksCorrect == BHSpec => []MarksExact
<1>1. BHInit => MarksInv
    BY InitType, MarkValues DEF BHInit, MarksInv, CbpInit
<1>2. MarksInv => MarksExact
    BY DEF MarksInv, MarksExact
<1> QED
    BY <1>1, <1>2, MarksStep, PTL DEF BHSpec

-----------------------------------------------------------------------------
(* The usefulness counts.                                                  *)

(* What becomes of the entry of bank b that the prediction selected. *)
Resolved(b) ==
    IF b = provider_idx THEN Trained(Candidate(b), branch.taken, branch.pred)
    ELSE IF b < provider_idx /\ Allocates(branch.taken, branch.pred)
         THEN Allocated(branch.pc, b, branch.taken)
    ELSE Candidate(b)

LEMMA ResolveWrites ==
    ASSUME CbpTypeOK, Resolve, NEW b \in Banks
    PROVE  tagged_table'[b] = [tagged_table[b] EXCEPT ![t_indices[b]] = Resolved(b)]
BY DEF Resolve, UpdatePredictor, UpdateTables, Resolved, Candidate

LEMMA ReplaceableFacts ==
    ASSUME CbpTypeOK
    PROVE  /\ Replaceable \in SUBSET Banks
           /\ NoneReplaceable => FirstBank(Replaceable) = NumBanks
           /\ ~NoneReplaceable => /\ FirstBank(Replaceable) \in Replaceable
                                  /\ \A c \in Replaceable : FirstBank(Replaceable) <= c
<1>1. Replaceable \in SUBSET Banks
    BY TageAssumption DEF Replaceable, Banks, CbpTypeOK, TageTypeOK
<1> QED
    BY <1>1, FirstBankIsLeast DEF NoneReplaceable, FirstBank

LEMMA UsefulStep == UsefulInv /\ [BHNext]_bhvars => UsefulInv'
<1> SUFFICES ASSUME UsefulInv, [BHNext]_bhvars PROVE UsefulInv'
    OBVIOUS
<1>1. CbpTypeOK /\ CbpTypeOK'
    BY BHSteps, NextType DEF UsefulInv
<1>2. CASE UNCHANGED <<tagged_table, earned>>
    BY <1>1, <1>2 DEF UsefulInv, UsefulnessEarned
<1>3. ASSUME NEW pc \in PCs, NEW taken \in BOOLEAN, Predict(pc, taken), BHNext
      PROVE  UNCHANGED <<tagged_table, earned>>
    BY <1>3 DEF Predict, MoreRecords, GetPrediction, tables, BHNext
<1>4. ASSUME Unconditional, BHNext
      PROVE  UNCHANGED <<tagged_table, earned>>
    BY <1>4 DEF Unconditional, MoreRecords, tvars, tables, BHNext
<1>5. ASSUME Resolve, BHNext
      PROVE  UsefulInv'
    <2>1. branch # NoBranch
        BY <1>5 DEF Resolve
    <2> DEFINE Earned(b, n) == IF Replaced(b) THEN 0 ELSE IF Overruled(b) THEN n + 1 ELSE n
    <2>2. earned' = [b \in Banks |-> [earned[b] EXCEPT ![t_indices[b]] =
                                         Earned(b, earned[b][t_indices[b]])]]
        BY <1>5, <2>1 DEF BHNext
    <2>3. ASSUME NEW b \in Banks
          PROVE  /\ earned'[b] \in [Indices -> Nat]
                 /\ \A x \in Indices : tagged_table'[b][x].ubit \in 0 .. earned'[b][x]
        <3> DEFINE n == earned[b][t_indices[b]]
        <3>1. t_indices[b] \in Indices /\ tagged_table[b] \in [Indices -> TEntry]
            BY <1>1 DEF CbpTypeOK, TageTypeOK
        <3>2. earned[b] \in [Indices -> Nat] /\ n \in Nat
            BY <3>1 DEF UsefulInv
        <3>3. Candidate(b) \in TEntry /\ Candidate(b).ubit \in 0 .. n
            BY <1>1, <3>1, CandidateType DEF UsefulInv, UsefulnessEarned, Candidate, CbpTypeOK
        <3>4. Earned(b, n) \in Nat /\ (Replaced(b) \/ n <= Earned(b, n))
            BY <3>2
        <3>5. Resolved(b).ubit \in 0 .. Earned(b, n)
            <4>1. CASE b = provider_idx
                <5>1. Earned(b, n) = IF Overruled(b) THEN n + 1 ELSE n
                    BY <1>1, <4>1 DEF Replaced, Banks, CbpTypeOK, TageTypeOK
                <5>2. Resolved(b).ubit =
                          IF alternative_pred # branch.pred
                          THEN Saturate(Candidate(b).ubit, branch.pred = branch.taken, 0, MaxUseful)
                          ELSE Candidate(b).ubit
                    BY <3>3, <4>1 DEF Resolved, Trained, ProviderDecided, TEntry
                <5>3. CASE Overruled(b)
                    BY <3>2, <3>3, <5>1, <5>2, <5>3, TageAssumption DEF Overruled, Saturate
                <5>4. CASE ~Overruled(b)
                    BY <3>2, <3>3, <4>1, <5>1, <5>2, <5>4, TageAssumption DEF Overruled, Saturate
                <5> QED
                    BY <5>3, <5>4
            <4>2. CASE b # provider_idx /\ b < provider_idx /\ Allocates(branch.taken, branch.pred)
                <5>1. Resolved(b) = Allocated(branch.pc, b, branch.taken)
                    BY <4>2 DEF Resolved
                <5>2. CASE NoneReplaceable
                    <6>1. b \in 0 .. provider_idx - 1 /\ b \notin Replaceable
                        BY <1>1, <4>2, <5>2 DEF NoneReplaceable, Banks, CbpTypeOK, TageTypeOK
                    <6>2. Candidate(b).ubit # 0
                        BY <6>1 DEF Replaceable
                    <6>3. ~Replaced(b)
                        BY <1>1, <5>2, ReplaceableFacts, TageAssumption DEF Replaced, Banks
                    <6>4. Resolved(b).ubit = Candidate(b).ubit - 1
                        BY <3>3, <5>1, <5>2 DEF Allocated, TEntry
                    <6> QED
                        BY <3>2, <3>3, <3>4, <6>2, <6>3, <6>4
                <5>3. CASE ~NoneReplaceable /\ b = FirstBank(Replaceable)
                    BY <3>4, <5>1, <5>3 DEF Allocated, NewEntry
                <5>4. CASE ~NoneReplaceable /\ b # FirstBank(Replaceable)
                    <6>1. Resolved(b) = Candidate(b)
                        BY <5>1, <5>4 DEF Allocated
                    <6>2. ~Replaced(b)
                        BY <5>4 DEF Replaced
                    <6> QED
                        BY <3>2, <3>3, <3>4, <6>1, <6>2
                <5> QED
                    BY <5>2, <5>3, <5>4
            <4>3. CASE b # provider_idx /\ ~(b < provider_idx /\ Allocates(branch.taken, branch.pred))
                <5>1. Resolved(b) = Candidate(b) /\ ~Replaced(b)
                    BY <4>3 DEF Resolved, Replaced
                <5> QED
                    BY <3>2, <3>3, <3>4, <5>1
            <4> QED
                BY <4>1, <4>2, <4>3
        <3>6. tagged_table'[b] = [tagged_table[b] EXCEPT ![t_indices[b]] = Resolved(b)]
            BY <1>1, <1>5, ResolveWrites
        <3>7. earned'[b] = [earned[b] EXCEPT ![t_indices[b]] = Earned(b, n)]
            BY <2>2
        <3>8. \A x \in Indices : tagged_table[b][x].ubit \in 0 .. earned[b][x]
            BY DEF UsefulInv, UsefulnessEarned
        <3> HIDE DEF Earned, n
        <3>9. earned'[b] \in [Indices -> Nat]
            BY <3>1, <3>2, <3>4, <3>7
        <3>10. ASSUME NEW x \in Indices
               PROVE  tagged_table'[b][x].ubit \in 0 .. earned'[b][x]
            <4>1. CASE x = t_indices[b]
                BY <3>1, <3>2, <3>5, <3>6, <3>7, <4>1
            <4>2. CASE x # t_indices[b]
                BY <3>1, <3>2, <3>6, <3>7, <3>8, <4>2
            <4> QED
                BY <4>1, <4>2
        <3> QED
            BY <3>9, <3>10
    <2>4. earned' \in [Banks -> [Indices -> Nat]]
        BY <2>2, <2>3
    <2> QED
        BY <1>1, <2>3, <2>4 DEF UsefulInv, UsefulnessEarned
<1>6. CASE UNCHANGED bhvars
    BY <1>2, <1>6 DEF bhvars, dvars, tvars, tables
<1> QED
    BY <1>2, <1>3, <1>4, <1>5, <1>6, BHSteps

LEMMA UsefulInit == BHInit => UsefulInv
<1> SUFFICES ASSUME BHInit PROVE UsefulInv
    OBVIOUS
<1>1. CbpTypeOK
    BY InitType DEF BHInit
<1>2. earned = [b \in Banks |-> [x \in Indices |-> 0]]
    BY DEF BHInit
<1>3. tagged_table = [b \in Banks |-> [x \in Indices |-> [pred |-> 0, tag |-> ZeroTag, ubit |-> 0]]]
    BY DEF BHInit, CbpInit, TageInit
<1> QED
    BY <1>1, <1>2, <1>3 DEF UsefulInv, UsefulnessEarned

(* No entry is called more useful than it has been since it was allocated, *)
(* and the decrement of all longer banks (predictor.h:199-201) never goes  *)
(* below zero, whatever the branches, the hashes and the bounds.           *)
THEOREM UsefulnessCorrect == BHSpec => []UsefulnessEarned
<1>1. UsefulInv => UsefulnessEarned
    BY DEF UsefulInv
<1> QED
    BY <1>1, UsefulInit, UsefulStep, PTL DEF BHSpec

(* An entry that is still useful is never replaced, nor one after the      *)
(* first that is not (predictor.h:185-209).                                *)
THEOREM UsefulKeptCorrect == BHSpec => UsefulKept
<1> DEFINE Kept(b, c) ==
        LET old == tagged_table[b][t_indices[b]]
            new == tagged_table'[b][t_indices[b]]
        IN  Resolving /\ b # provider_idx /\ <<old.tag, old.pred>> # <<new.tag, new.pred>>
            => /\ old.ubit = 0
               /\ b < provider_idx
               /\ branch.pred # branch.taken
               /\ c < b => tagged_table[c][t_indices[c]].ubit > 0
<1>1. ASSUME CbpTypeOK, [BHNext]_bhvars
      PROVE  [\A b, c \in Banks : Kept(b, c)]_bhvars
    <2> SUFFICES ASSUME BHNext, NEW b \in Banks, NEW c \in Banks, Resolving,
                        b # provider_idx,
                        \/ tagged_table[b][t_indices[b]].tag # tagged_table'[b][t_indices[b]].tag
                        \/ tagged_table[b][t_indices[b]].pred # tagged_table'[b][t_indices[b]].pred
                 PROVE  /\ tagged_table[b][t_indices[b]].ubit = 0
                        /\ b < provider_idx
                        /\ branch.pred # branch.taken
                        /\ c < b => tagged_table[c][t_indices[c]].ubit > 0
        BY <1>1
    <2>1. Resolve
        BY DEF BHNext, CbpNext, Predict, MoreRecords, Unconditional, Resolving
    <2>2. t_indices[b] \in Indices /\ tagged_table[b] \in [Indices -> TEntry]
        BY <1>1 DEF CbpTypeOK, TageTypeOK
    <2>3. tagged_table'[b][t_indices[b]] = Resolved(b)
        BY <1>1, <2>1, <2>2, ResolveWrites
    <2>4. Resolved(b).tag # Candidate(b).tag \/ Resolved(b).pred # Candidate(b).pred
        BY <2>3 DEF Candidate
    <2>5. b < provider_idx /\ Allocates(branch.taken, branch.pred)
        BY <2>4 DEF Resolved
    <2>6. Resolved(b) = Allocated(branch.pc, b, branch.taken)
        BY <2>5 DEF Resolved
    <2>7. Candidate(b) \in TEntry
        BY <1>1, CandidateType DEF CbpTypeOK
    <2>8. ~NoneReplaceable /\ b = FirstBank(Replaceable)
        BY <2>4, <2>6, <2>7 DEF Allocated, TEntry
    <2>9. b \in Replaceable /\ (c \in Replaceable => b <= c)
        BY <1>1, <2>8, ReplaceableFacts
    <2>10. c < b => c \in 0 .. provider_idx - 1
        BY <1>1, <2>5 DEF Banks, CbpTypeOK, TageTypeOK
    <2>11. c < b => Candidate(c).ubit # 0
        BY <2>9, <2>10 DEF Replaceable, Banks
    <2>12. Candidate(c).ubit \in Nat
        BY <1>1, CandidateType, TageAssumption DEF CbpTypeOK, TEntry
    <2> QED
        BY <2>5, <2>9, <2>11, <2>12 DEF Candidate, Replaceable, Allocates
<1>2. UsefulInv => CbpTypeOK
    BY DEF UsefulInv
<1> QED
    BY <1>1, <1>2, UsefulInit, UsefulStep, PTL DEF BHSpec, UsefulKept

-----------------------------------------------------------------------------
(* The statistics.                                                         *)

SeenBranches == {pc \in PCs : outcomes[pc] # {}}

(* Between the two halves of a record a new branch has been seen but not   *)
(* yet counted.                                                            *)
StatsInv ==
    /\ MarksInv
    /\ numMispred = Total(mispred)
    /\ cond_branches = Total(cond)
    /\ \A k \in Classes : mispred[k] <= cond[k]
    /\ IsFiniteSet(SeenBranches)
    /\ Cardinality(SeenBranches) =
          IF branch.class = "MISS" /\ branch # NoBranch
          THEN cond["MISS"] + 1 ELSE cond["MISS"]

LEMMA MarkOfUnseen ==
    ASSUME NEW S \in SUBSET BOOLEAN
    PROVE  MarkOf(S) = Unseen <=> S = {}
<1>1. S = {} => MarkOf(S) = Unseen
    BY MarkValues
<1>2. S = {FALSE} => MarkOf(S) = 0
    BY MarkValues
<1>3. S = {TRUE} => MarkOf(S) = 1
    BY MarkValues
<1>4. S = BOOLEAN => MarkOf(S) = 2
    BY MarkValues
<1>5. S = {} \/ S = {FALSE} \/ S = {TRUE} \/ S = BOOLEAN
    BY SubsetsOfBoolean
<1>6. Unseen # 0 /\ Unseen # 1 /\ Unseen # 2
    BY DEF Unseen
<1>7. S # {} => MarkOf(S) # Unseen
    BY <1>2, <1>3, <1>4, <1>5, <1>6
<1> QED
    BY <1>1, <1>7

LEMMA StatsInit == BHInit => StatsInv
<1> SUFFICES ASSUME BHInit PROVE StatsInv
    OBVIOUS
<1>1. MarksInv
    BY InitType, MarkValues DEF BHInit, MarksInv, CbpInit
<1>2. SeenBranches = {}
    BY DEF BHInit, SeenBranches
<1>3. IsFiniteSet(SeenBranches) /\ Cardinality(SeenBranches) = 0
    BY <1>2, FS_EmptySet
<1> QED
    BY <1>1, <1>3 DEF StatsInv, BHInit, CbpInit, Total, Classes

LEMMA StatsStep == StatsInv /\ [BHNext]_bhvars => StatsInv'
<1> SUFFICES ASSUME StatsInv, [BHNext]_bhvars PROVE StatsInv'
    OBVIOUS
<1>1. MarksInv /\ MarksInv'
    BY MarksStep DEF StatsInv
<1>2. ASSUME NEW pc \in PCs, NEW taken \in BOOLEAN, Predict(pc, taken), BHNext
      PROVE  StatsInv'
    <2>1. branch = NoBranch
        BY <1>2 DEF Predict, MoreRecords
    <2>2. PICK dir \in BOOLEAN : branch' = [pc |-> pc, taken |-> taken, pred |-> dir,
                                            class |-> ClassOf(myBtb[pc])]
        BY <1>2 DEF Predict
    <2>3. branch' # NoBranch
        BY <2>2, NoBranchIsNone
    <2>4. outcomes' = [outcomes EXCEPT ![pc] = @ \cup {taken}]
        BY <1>2, <2>1, <2>2, <2>3 DEF BHNext
    <2>5. outcomes \in [PCs -> SUBSET BOOLEAN]
        BY <1>1 DEF MarksInv
    <2>6. SeenBranches' = SeenBranches \cup {pc}
        BY <2>4, <2>5 DEF SeenBranches
    <2>7. /\ IsFiniteSet(SeenBranches')
          /\ Cardinality(SeenBranches') =
                IF pc \in SeenBranches THEN Cardinality(SeenBranches)
                ELSE Cardinality(SeenBranches) + 1
        BY <2>6, FS_AddElement DEF StatsInv
    <2>8. branch'.class = "MISS" <=> pc \notin SeenBranches
        <3>1. myBtb[pc] = MarkOf(outcomes[pc])
            BY <1>1, <2>1 DEF MarksInv
        <3>2. myBtb[pc] \in {Unseen, 0, 1, 2}
            BY <1>1 DEF MarksInv, CbpTypeOK, DriverTypeOK
        <3>3. ClassOf(myBtb[pc]) = "MISS" <=> myBtb[pc] = Unseen
            BY <3>2, ClassOfMark DEF Unseen
        <3> QED
            BY <2>2, <2>5, <3>1, <3>3, MarkOfUnseen DEF SeenBranches
    <2>9. UNCHANGED <<cond, mispred, numMispred, cond_branches>>
        BY <1>2 DEF Predict
    <2> QED
        BY <1>1, <2>1, <2>3, <2>7, <2>8, <2>9 DEF StatsInv, Total
<1>3. ASSUME Resolve, BHNext
      PROVE  StatsInv'
    <2>1. branch # NoBranch /\ branch' = NoBranch
        BY <1>3 DEF Resolve
    <2>2. branch.class \in Classes /\ branch.pred \in BOOLEAN /\ branch.taken \in BOOLEAN
        BY <1>1, <2>1, BranchFacts DEF MarksInv
    <2>3. SeenBranches' = SeenBranches
        BY <1>3, <2>1 DEF BHNext, SeenBranches
    <2>4. /\ cond \in [Classes -> Nat] /\ mispred \in [Classes -> Nat]
          /\ numMispred \in Nat /\ cond_branches \in Nat
        BY <1>1 DEF MarksInv, CbpTypeOK, DriverTypeOK
    <2>5. /\ mispred' = [k \in Classes |-> mispred[k] + Missed(k)]
          /\ numMispred' = IF branch.pred # branch.taken THEN numMispred + 1 ELSE numMispred
          /\ cond' = [cond EXCEPT ![branch.class] = @ + 1]
          /\ cond_branches' = cond_branches + 1
        BY <1>3 DEF Resolve
    <2>6. numMispred' = Total(mispred')
        BY <2>2, <2>4, <2>5 DEF StatsInv, Total, Missed, Classes
    <2>7. cond_branches' = Total(cond')
        BY <2>2, <2>4, <2>5 DEF StatsInv, Total, Classes
    <2>8. \A k \in Classes : mispred'[k] <= cond'[k]
        BY <2>2, <2>4, <2>5 DEF StatsInv, Missed
    <2>9. IsFiniteSet(SeenBranches') /\ Cardinality(SeenBranches') = cond'["MISS"]
        BY <2>1, <2>2, <2>3, <2>4, <2>5 DEF StatsInv, Classes
    <2> QED
        BY <1>1, <2>1, <2>6, <2>7, <2>8, <2>9 DEF StatsInv
<1>4. ASSUME UNCHANGED <<branch, outcomes, cond, mispred, numMispred, cond_branches>>
      PROVE  StatsInv'
    BY <1>1, <1>4 DEF StatsInv, SeenBranches, Total
<1>5. ASSUME Unconditional, BHNext
      PROVE  UNCHANGED <<branch, outcomes, cond, mispred, numMispred, cond_branches>>
    BY <1>5 DEF Unconditional, BHNext
<1>6. ASSUME UNCHANGED bhvars
      PROVE  UNCHANGED <<branch, outcomes, cond, mispred, numMispred, cond_branches>>
    BY <1>6 DEF bhvars, dvars
<1> QED
    BY <1>2, <1>3, <1>4, <1>5, <1>6, BHSteps

(* The printed statistics agree with each other and with the trace: a      *)
(* branch of the program is a miss of the marking table exactly once       *)
(* (main.cc:210-248).                                                      *)
THEOREM StatsCorrect == BHSpec => []StatsAgree
<1>1. StatsInv => StatsAgree
    BY DEF StatsInv, StatsAgree, SeenBranches
<1> QED
    BY <1>1, StatsInit, StatsStep, PTL DEF BHSpec

-----------------------------------------------------------------------------
(* What a misprediction teaches.                                           *)

(* Between prediction and training the saved lookup is still the one the   *)
(* tables and histories give.                                              *)
LookupInv ==
    /\ CbpTypeOK
    /\ branch # NoBranch =>
          /\ provider_idx = FirstBank(Matching(tagged_table, branch.pc))
          /\ \A b \in Banks : t_indices[b] = TaggedTableIndex(branch.pc, b)

LEMMA LookupStep == LookupInv /\ [BHNext]_bhvars => LookupInv'
<1> SUFFICES ASSUME LookupInv, [BHNext]_bhvars PROVE LookupInv'
    OBVIOUS
<1>1. CbpTypeOK'
    BY BHSteps, NextType DEF LookupInv
<1>2. ASSUME NEW pc \in PCs, NEW taken \in BOOLEAN, Predict(pc, taken), BHNext
      PROVE  LookupInv'
    <2>1. branch'.pc = pc
        BY <1>2 DEF Predict
    <2>2. PICK dir \in BOOLEAN : GetPrediction(pc, dir)
        BY <1>2 DEF Predict
    <2>3. /\ provider_idx' = FirstBank(Matching(tagged_table, pc))
          /\ t_indices' = [b \in Banks |-> TaggedTableIndex(pc, b)]
          /\ UNCHANGED <<tagged_table, hist_i, hist_t0, hist_t1, path_history>>
        BY <2>2 DEF GetPrediction, tables, histories
    <2>4. \A b \in Banks : /\ TaggedTableIndex(pc, b)' = TaggedTableIndex(pc, b)
                           /\ ComputeTag(pc, b)' = ComputeTag(pc, b)
        BY <2>3 DEF TaggedTableIndex, ComputeTag
    <2>5. Matching(tagged_table, pc)' = Matching(tagged_table, pc)
        BY <2>3, <2>4 DEF Matching
    <2> QED
        BY <1>1, <2>1, <2>3, <2>4, <2>5 DEF LookupInv, FirstBank
<1>3. ASSUME Resolve, BHNext
      PROVE  LookupInv'
    BY <1>1, <1>3 DEF Resolve, LookupInv
<1>4. ASSUME UNCHANGED <<branch, tvars>>
      PROVE  LookupInv'
    BY <1>1, <1>4 DEF LookupInv, tvars, tables, histories, lookup, FirstBank, Matching,
                      TaggedTableIndex, ComputeTag
<1>5. ASSUME Unconditional, BHNext
      PROVE  UNCHANGED <<branch, tvars>>
    BY <1>5 DEF Unconditional
<1>6. ASSUME UNCHANGED bhvars
      PROVE  UNCHANGED <<branch, tvars>>
    BY <1>6 DEF bhvars, dvars
<1> QED
    BY <1>2, <1>3, <1>4, <1>5, <1>6, BHSteps

(* After a misprediction that allocates, the first bank that matches is    *)
(* the new entry, or, all longer entries having aged, the provider again.  *)
LEMMA AllocationTeaches ==
    ASSUME LookupInv, Resolve, branch.pred # branch.taken, provider_idx # 0,
           ~(RecentProvider /\ ProviderPred = branch.taken)
    PROVE  LET p == FirstBank(Matching(tagged_table', branch.pc))
           IN  \/ /\ p < provider_idx
                  /\ (tagged_table'[p][t_indices[p]].pred >= 0) = branch.taken
               \/ /\ p = provider_idx
                  /\ \A b \in 0 .. provider_idx - 1 :
                        tagged_table'[b][t_indices[b]].ubit
                            = tagged_table[b][t_indices[b]].ubit - 1
<1> DEFINE pc == branch.pc
           new == Matching(tagged_table', branch.pc)
           old == Matching(tagged_table, branch.pc)
<1>1. /\ CbpTypeOK /\ branch # NoBranch
      /\ provider_idx = FirstBank(old)
      /\ \A b \in Banks : t_indices[b] = TaggedTableIndex(pc, b)
    BY DEF LookupInv, Resolve
<1>2. /\ provider_idx \in 1 .. NumBanks /\ NumBanks \in Nat
      /\ \A b \in Banks : b \in Nat /\ b < NumBanks
      /\ \A b \in 0 .. provider_idx - 1 : b \in Banks /\ b < provider_idx
    BY <1>1, TageAssumption DEF CbpTypeOK, TageTypeOK, Banks
<1>3. Allocates(branch.taken, branch.pred)
    BY <1>2 DEF Allocates
<1>4. \A b \in Banks : /\ tagged_table'[b][t_indices[b]] = Resolved(b)
                       /\ Candidate(b) \in TEntry
    <2> TAKE b \in Banks
    <2>1. t_indices[b] \in Indices /\ tagged_table[b] \in [Indices -> TEntry]
        BY <1>1 DEF CbpTypeOK, TageTypeOK
    <2> QED
        BY <1>1, <2>1, ResolveWrites DEF Candidate
<1>5. \A b \in Banks : /\ b \in old <=> Candidate(b).tag = ComputeTag(pc, b)
                       /\ b \in new <=> Resolved(b).tag = ComputeTag(pc, b)
    BY <1>1, <1>4 DEF Matching, Candidate
<1>6. old \in SUBSET Banks /\ new \in SUBSET Banks
    BY DEF Matching
<1>7. /\ provider_idx < NumBanks => provider_idx \in old
      /\ \A b \in old : provider_idx <= b
    <2>1. old # {} => provider_idx \in old /\ \A b \in old : provider_idx <= b
        BY <1>1, <1>6, FirstBankIsLeast
    <2>2. old = {} => provider_idx = NumBanks
        BY <1>1 DEF FirstBank
    <2> QED
        BY <1>2, <2>1, <2>2
<1>8. provider_idx < NumBanks => provider_idx \in new
    <2> SUFFICES ASSUME provider_idx < NumBanks PROVE provider_idx \in new
        OBVIOUS
    <2>1. provider_idx \in Banks
        BY <1>2 DEF Banks
    <2>2. Resolved(provider_idx).tag = Candidate(provider_idx).tag
        BY <1>4, <2>1 DEF Resolved, Trained, TEntry
    <2> QED
        BY <1>5, <1>7, <2>1, <2>2
<1>9. \A b \in 0 .. provider_idx - 1 : Resolved(b) = Allocated(pc, b, branch.taken)
    BY <1>2, <1>3 DEF Resolved
<1>10. CASE NoneReplaceable
    <2>1. ASSUME NEW b \in 0 .. provider_idx - 1
          PROVE  /\ Resolved(b).ubit = Candidate(b).ubit - 1
                 /\ b \notin new
        <3>1. b \in Banks /\ Candidate(b) \in TEntry
            BY <1>2, <1>4
        <3>2. Resolved(b) = [Candidate(b) EXCEPT !.ubit = @ - 1]
            BY <1>9, <1>10 DEF Allocated
        <3>3. Resolved(b).ubit = Candidate(b).ubit - 1 /\ Resolved(b).tag = Candidate(b).tag
            BY <3>1, <3>2 DEF TEntry
        <3>4. b \notin old
            BY <1>2, <1>7, <3>1
        <3> QED
            BY <1>5, <3>1, <3>3, <3>4
    <2>2. \A b \in new : provider_idx <= b
        BY <1>2, <1>6, <2>1 DEF Banks
    <2>3. FirstBank(new) = provider_idx
        <3>1. CASE provider_idx < NumBanks
            <4>1. FirstBank(new) \in new /\ \A b \in new : FirstBank(new) <= b
                BY <1>6, <1>8, <3>1, FirstBankIsLeast
            <4>2. provider_idx <= FirstBank(new) /\ FirstBank(new) <= provider_idx
                BY <1>8, <2>2, <3>1, <4>1
            <4> QED
                BY <1>2, <1>6, <4>1, <4>2
        <3>2. CASE provider_idx = NumBanks
            BY <1>2, <1>6, <2>2, <3>2 DEF FirstBank
        <3> QED
            BY <1>2, <3>1, <3>2
    <2> QED
        BY <1>2, <1>4, <2>1, <2>3 DEF Candidate
<1>11. CASE ~NoneReplaceable
    <2> DEFINE r == FirstBank(Replaceable)
    <2>1. r \in Replaceable
        BY <1>1, <1>11, ReplaceableFacts
    <2>2. r \in 0 .. provider_idx - 1 /\ r \in Banks
        BY <1>2, <2>1 DEF Replaceable
    <2>3. Resolved(r) = NewEntry(pc, r, branch.taken)
        BY <1>9, <1>11, <2>2 DEF Allocated
    <2>4. r \in new
        BY <1>5, <2>2, <2>3 DEF NewEntry
    <2>5. ASSUME NEW b \in new PROVE r <= b
        <3> SUFFICES ASSUME b < r PROVE FALSE
            BY <1>2, <1>6, <2>2
        <3>1. b \in Banks /\ b \in 0 .. provider_idx - 1 /\ b # r
            BY <1>2, <1>6, <2>2 DEF Banks
        <3>2. Resolved(b) = Candidate(b)
            BY <1>9, <1>11, <3>1 DEF Allocated
        <3>3. b \in old
            BY <1>5, <3>1, <3>2
        <3> QED
            BY <1>2, <1>7, <3>1, <3>3
    <2>6. FirstBank(new) = r
        <3>1. FirstBank(new) \in new /\ \A b \in new : FirstBank(new) <= b
            BY <1>6, <2>4, FirstBankIsLeast
        <3>2. FirstBank(new) <= r /\ r <= FirstBank(new)
            BY <2>4, <2>5, <3>1
        <3> QED
            BY <1>2, <1>6, <2>2, <3>1, <3>2
    <2>7. (Resolved(r).pred >= 0) = branch.taken
        BY <1>1, <2>3, BranchFacts DEF NewEntry
    <2> QED
        BY <1>2, <1>4, <2>2, <2>6, <2>7
<1> QED
    BY <1>10, <1>11

(* A misprediction always has consequences for the same branch in the same *)
(* history, or a reason not to (predictor.cc:82-119).                      *)
THEOREM MistakesCorrect == BHSpec => MistakesTeach
<1> DEFINE Taught ==
        Resolving /\ branch.pred # branch.taken =>
          LET p == FirstBank(Matching(tagged_table', branch.pc))
          IN  \/ /\ p < provider_idx
                 /\ (tagged_table'[p][t_indices[p]].pred >= 0) = branch.taken
              \/ /\ p = provider_idx
                 /\ \/ provider_idx = 0
                    \/ RecentProvider /\ ProviderPred = branch.taken
                    \/ \A b \in 0 .. provider_idx - 1 :
                          tagged_table'[b][t_indices[b]].ubit
                              = tagged_table[b][t_indices[b]].ubit - 1
<1>1. BHInit => LookupInv
    BY InitType DEF BHInit, CbpInit, LookupInv
<1>2. ASSUME LookupInv, [BHNext]_bhvars
      PROVE  [Taught]_bhvars
    <2> SUFFICES ASSUME BHNext, Resolving, branch.pred # branch.taken
                 PROVE  Taught
        BY <1>2
    <2>1. Resolve
        BY DEF BHNext, CbpNext, Predict, MoreRecords, Unconditional, Resolving
    <2>2. CASE provider_idx # 0 /\ ~(RecentProvider /\ ProviderPred = branch.taken)
        BY <1>2, <2>1, <2>2, AllocationTeaches
    <2>3. CASE provider_idx = 0 \/ (RecentProvider /\ ProviderPred = branch.taken)
        <3>1. /\ CbpTypeOK /\ branch # NoBranch
              /\ provider_idx = FirstBank(Matching(tagged_table, branch.pc))
              /\ \A b \in Banks : t_indices[b] = TaggedTableIndex(branch.pc, b)
            BY <1>2, <2>1 DEF LookupInv, Resolve
        <3>2. ~Allocates(branch.taken, branch.pred)
            BY <2>3 DEF Allocates
        <3>3. ASSUME NEW b \in Banks
              PROVE  tagged_table'[b][TaggedTableIndex(branch.pc, b)].tag
                         = tagged_table[b][TaggedTableIndex(branch.pc, b)].tag
            <4>1. t_indices[b] \in Indices /\ tagged_table[b] \in [Indices -> TEntry]
                BY <3>1 DEF CbpTypeOK, TageTypeOK
            <4>2. tagged_table'[b][t_indices[b]] = Resolved(b)
                BY <2>1, <3>1, <4>1, ResolveWrites
            <4>3. Resolved(b).tag = Candidate(b).tag
                BY <3>2, <4>1 DEF Resolved, Trained, Candidate, TEntry
            <4> QED
                BY <3>1, <4>2, <4>3 DEF Candidate
        <3>4. Matching(tagged_table', branch.pc) = Matching(tagged_table, branch.pc)
            BY <3>3 DEF Matching
        <3> QED
            BY <2>3, <3>1, <3>4
    <2> QED
        BY <2>2, <2>3
<1> QED
    BY <1>1, <1>2, LookupStep, PTL DEF BHSpec, MistakesTeach

-----------------------------------------------------------------------------
(* The folded histories.                                                   *)

(* A quotient and a remainder that fit are the only ones. *)
LEMMA RemainderUnique ==
    ASSUME NEW c \in Nat \ {0}, NEW q \in Int, NEW r \in 0 .. c - 1
    PROVE  (c * q + r) % c = r
<1> DEFINE a == c * q + r
           p == a \div c
           s == a % c
<1>1. a \in Int /\ p \in Int /\ s \in 0 .. c - 1 /\ a = c * p + s
    OBVIOUS
<1>2. c * (p - q) = r - s
    BY <1>1
<1>3. CASE p - q >= 1
    <2>1. c * (p - q) >= c
        BY <1>1, <1>3
    <2> QED
        BY <1>1, <1>2, <2>1
<1>4. CASE p - q <= -1
    <2>1. c * (p - q) <= -c
        BY <1>1, <1>4
    <2> QED
        BY <1>1, <1>2, <2>1
<1>5. CASE p = q
    BY <1>1, <1>5
<1> QED
    BY <1>1, <1>3, <1>4, <1>5

(* The place before j on a ring of c places. *)
Before(j, c) == IF j > 0 THEN j - 1 ELSE c - 1

LEMMA NextRemainder ==
    ASSUME NEW c \in Nat \ {0}, NEW k \in Nat, NEW j \in 0 .. c - 1
    PROVE  (k + 1) % c = j <=> k % c = Before(j, c)
<1> DEFINE q == k \div c
           r == k % c
<1>1. q \in Int /\ r \in 0 .. c - 1 /\ k = c * q + r
    OBVIOUS
<1>2. CASE r < c - 1
    <2>1. k + 1 = c * q + (r + 1) /\ r + 1 \in 0 .. c - 1
        BY <1>1, <1>2
    <2>2. (k + 1) % c = r + 1
        BY <1>1, <2>1, RemainderUnique
    <2> QED
        BY <1>1, <1>2, <2>2 DEF Before
<1>3. CASE r = c - 1
    <2>1. k + 1 = c * (q + 1) + 0 /\ 0 \in 0 .. c - 1 /\ q + 1 \in Int
        BY <1>1, <1>3
    <2>2. (k + 1) % c = 0
        BY <2>1, RemainderUnique
    <2> QED
        BY <1>1, <1>3, <2>2 DEF Before
<1> QED
    BY <1>1, <1>2, <1>3

LEMMA MovedUp ==
    ASSUME NEW S \in SUBSET Nat, IsFiniteSet(S)
    PROVE  LET T == {k \in Nat \ {0} : k - 1 \in S}
           IN  IsFiniteSet(T) /\ Cardinality(T) = Cardinality(S)
<1> DEFINE T == {k \in Nat \ {0} : k - 1 \in S}
           f == [k \in S |-> k + 1]
<1>1. f \in [S -> T]
    OBVIOUS
<1>2. \A a, b \in S : f[a] = f[b] => a = b
    OBVIOUS
<1>3. \A t \in T : \E s \in S : f[s] = t
    <2> TAKE t \in T
    <2>1. t - 1 \in S /\ f[t - 1] = t
        OBVIOUS
    <2> QED
        BY <2>1
<1> HIDE DEF f, T
<1>4. f \in Bijection(S, T)
    BY <1>1, <1>2, <1>3 DEF Bijection, Injection, Surjection, IsInjective
<1>5. ExistsBijection(S, T)
    BY <1>4 DEF ExistsBijection
<1>6. IsFiniteSet(T) /\ Cardinality(T) = Cardinality(S)
    BY <1>5, FS_Bijection
<1> QED
    BY <1>6 DEF T

(* The ones among the first n bits of g that fold into place j. *)
Ones(g, n, c, j) == {k \in 0 .. n - 1 : k % c = j /\ g[k] = 1}

LEMMA OnesFinite ==
    ASSUME NEW n \in Nat, NEW g, NEW c, NEW j
    PROVE  IsFiniteSet(Ones(g, n, c, j)) /\ Cardinality(Ones(g, n, c, j)) \in Nat
<1>1. IsFiniteSet(0 .. n - 1)
    BY FS_Interval
<1>2. Ones(g, n, c, j) \in SUBSET (0 .. n - 1)
    BY DEF Ones
<1> QED
    BY <1>1, <1>2, FS_Subset, FS_CardinalityType

(* Parities of numbers that grow or shrink by a bit. *)
LEMMA XorParity ==
    ASSUME NEW n \in Nat, NEW x \in Bits
    PROVE  /\ Xor(x, n % 2) = (n + x) % 2
           /\ Xor(n % 2, x) = (n + x) % 2
           /\ n >= x => Xor(n % 2, x) = (n - x) % 2
BY DEF Xor, Bits

(* One branch moves every bit of the history up; what folds into place j   *)
(* is what folded into the place before, without the bit that leaves, and  *)
(* with the new bit if j is 0.                                             *)
LEMMA OnesShift ==
    ASSUME NEW N \in Nat, NEW g \in Vector(N), NEW bit \in Bits,
           NEW n \in Nat \ {0}, n < N, NEW c \in Nat \ {0}, NEW j \in 0 .. c - 1
    PROVE  LET h   == ShiftIn(g, bit, N)
               out == IF j = n % c THEN h[n] ELSE 0
               in  == IF j = 0 THEN bit ELSE 0
               old == Cardinality(Ones(g, n, c, Before(j, c)))
           IN  /\ out \in Bits /\ in \in Bits /\ out <= old
               /\ Cardinality(Ones(h, n, c, j)) = (old - out) + in
<1> DEFINE h   == ShiftIn(g, bit, N)
           i   == Before(j, c)
           out == IF j = n % c THEN h[n] ELSE 0
           in  == IF j = 0 THEN bit ELSE 0
           A == Ones(g, n, c, i)
           B == Ones(h, n, c, j)
           M == {k \in Nat \ {0} : k - 1 \in A}
<1>1. /\ h[0] = bit /\ h[n] = g[n - 1]
      /\ \A k \in 1 .. n : h[k] = g[k - 1]
      /\ \A k \in 0 .. n - 1 : g[k] \in {0, 1} /\ h[k] \in {0, 1}
      /\ h[n] \in {0, 1}
    BY DEF ShiftIn, Vector, Bits
<1>2. \A k \in 1 .. n : k % c = j <=> (k - 1) % c = i
    <2> TAKE k \in 1 .. n
    <2>1. k - 1 \in Nat
        OBVIOUS
    <2>2. ((k - 1) + 1) % c = j <=> (k - 1) % c = i
        BY <2>1, NextRemainder
    <2> QED
        BY <2>2
<1>3. IsFiniteSet(A) /\ Cardinality(A) \in Nat
    BY OnesFinite
<1>4. IsFiniteSet(M) /\ Cardinality(M) = Cardinality(A)
    <2>1. A \in SUBSET Nat
        BY DEF Ones
    <2> QED
        BY <1>3, <2>1, MovedUp
<1>5. out \in Bits /\ in \in Bits
    BY <1>1 DEF Bits
<1>6. n \in M <=> out = 1
    <2>1. n \in M <=> n - 1 \in A
        OBVIOUS
    <2>2. n - 1 \in A <=> (n - 1) % c = i /\ g[n - 1] = 1
        BY DEF Ones
    <2>3. (n - 1) % c = i <=> n % c = j
        <3>1. n \in 1 .. n
            OBVIOUS
        <3> QED
            BY <1>2, <3>1
    <2> QED
        BY <1>1, <2>1, <2>2, <2>3
<1>7. 0 \in B <=> in = 1
    <2>1. 0 % c = 0
        <3>1. 0 = c * 0 + 0 /\ 0 \in 0 .. c - 1
            OBVIOUS
        <3> QED
            BY <3>1, RemainderUnique
    <2> QED
        BY <1>1, <2>1 DEF Ones
<1>8. \A k \in 1 .. n - 1 : k \in B <=> k \in M
    <2> TAKE k \in 1 .. n - 1
    <2>1. k \in B <=> k % c = j /\ h[k] = 1
        BY DEF Ones
    <2>2. k \in M <=> (k - 1) % c = i /\ g[k - 1] = 1
        BY DEF Ones
    <2> QED
        BY <1>1, <1>2, <2>1, <2>2
<1>9. /\ \A k \in B : k \in 0 .. n - 1
      /\ \A k \in M : k \in 1 .. n
    BY DEF Ones
<1> HIDE DEF h, A, B, M, out, in
<1>10. B \ {0} = M \ {n}
    BY <1>8, <1>9
<1>11. /\ IsFiniteSet(M \ {n})
       /\ Cardinality(M \ {n}) = Cardinality(A) - out
    BY <1>3, <1>4, <1>5, <1>6, FS_RemoveElement DEF Bits
<1>12. out <= Cardinality(A)
    <2>1. out = 1 => Cardinality(M) # 0
        BY <1>4, <1>6, FS_EmptySet
    <2> QED
        BY <1>3, <1>4, <1>5, <2>1 DEF Bits
<1>13. Cardinality(B) = Cardinality(M \ {n}) + in
    <2>1. CASE in = 1
        <3>1. B = (M \ {n}) \cup {0} /\ 0 \notin M \ {n}
            BY <1>7, <1>10, <2>1
        <3> QED
            BY <1>11, <2>1, <3>1, FS_AddElement
    <2>2. CASE in = 0
        <3>1. B = M \ {n}
            BY <1>7, <1>10, <2>2
        <3> QED
            BY <1>3, <1>5, <1>11, <2>2, <3>1 DEF Bits
    <2> QED
        BY <1>5, <2>1, <2>2 DEF Bits
<1> QED
    BY <1>5, <1>11, <1>12, <1>13 DEF h, A, B, M, out, in

(* folded_history::update on one register. *)
Folded(g, n, c) == [j \in 0 .. c - 1 |-> Cardinality(Ones(g, n, c, j)) % 2]

LEMMA FoldStep ==
    ASSUME NEW N \in Nat, NEW g \in Vector(N), NEW bit \in Bits,
           NEW n \in Nat \ {0}, n < N, NEW c \in Nat \ {0}
    PROVE  Fold(Folded(g, n, c), ShiftIn(g, bit, N), n, c)
               = Folded(ShiftIn(g, bit, N), n, c)
<1> DEFINE h == ShiftIn(g, bit, N)
           f == Folded(g, n, c)
<1>1. ASSUME NEW j \in 0 .. c - 1
      PROVE  Xor(IF j = 0 THEN Xor(h[0], f[c - 1]) ELSE f[j - 1],
                 IF j = n % c THEN OutgoingBit(h, n) ELSE 0)
                 = Cardinality(Ones(h, n, c, j)) % 2
    <2> DEFINE out == IF j = n % c THEN h[n] ELSE 0
               in  == IF j = 0 THEN bit ELSE 0
               old == Cardinality(Ones(g, n, c, Before(j, c)))
    <2>1. /\ out \in Bits /\ in \in Bits /\ out <= old
          /\ Cardinality(Ones(h, n, c, j)) = (old - out) + in
        BY OnesShift
    <2>2. old \in Nat
        BY OnesFinite
    <2>3. h[0] = bit
        BY DEF ShiftIn
    <2>4. f[Before(j, c)] = old % 2 /\ Before(j, c) \in 0 .. c - 1
        BY DEF Folded, Before
    <2>5. (IF j = 0 THEN Xor(h[0], f[c - 1]) ELSE f[j - 1]) = (old + in) % 2
        <3>1. CASE j = 0
            BY <2>1, <2>2, <2>3, <2>4, <3>1, XorParity DEF Before
        <3>2. CASE j # 0
            BY <2>2, <2>4, <3>2 DEF Before
        <3> QED
            BY <3>1, <3>2
    <2>6. (IF j = n % c THEN OutgoingBit(h, n) ELSE 0) = out
        BY DEF OutgoingBit
    <2> HIDE DEF out, in, old
    <2>7. old + in \in Nat /\ old + in >= out
        BY <2>1, <2>2 DEF Bits
    <2>8. Xor((old + in) % 2, out) = ((old + in) - out) % 2
        BY <2>1, <2>7, XorParity
    <2>9. (old + in) - out = (old - out) + in
        BY <2>1, <2>2 DEF Bits
    <2> QED
        BY <2>1, <2>5, <2>6, <2>8, <2>9
<1> QED
    BY <1>1 DEF Fold, Folded

LEMMA FoldOfNothing ==
    ASSUME NEW N \in Nat, NEW n \in Nat \ {0}, n < N, NEW c \in Nat \ {0}
    PROVE  Folded(Zeroes(N), n, c) = Zeroes(c)
<1>1. ASSUME NEW j \in 0 .. c - 1
      PROVE  Cardinality(Ones(Zeroes(N), n, c, j)) % 2 = 0
    <2>1. Ones(Zeroes(N), n, c, j) = {}
        BY DEF Ones, Zeroes
    <2> QED
        BY <2>1, FS_EmptySet
<1> QED
    BY <1>1 DEF Folded, Zeroes

FoldsInv == CbpTypeOK /\ FoldsExact

LEMMA FoldsOf ==
    FoldsExact <=>
        \A b \in Banks :
            /\ hist_i[b] = Folded(global_history, HistLen[b], LogTagged)
            /\ hist_t0[b] = Folded(global_history, HistLen[b], TagBits)
            /\ hist_t1[b] = Folded(global_history, HistLen[b], TagBits - 1)
BY DEF FoldsExact, FoldOf, Folded, Ones

LEMMA Widths ==
    /\ LogTagged \in Nat \ {0} /\ TagBits \in Nat \ {0} /\ TagBits - 1 \in Nat \ {0}
    /\ MaxHistLen \in Nat
    /\ \A b \in Banks : HistLen[b] \in Nat \ {0} /\ HistLen[b] < MaxHistLen
BY TageAssumption

LEMMA FoldsInit == CbpInit => FoldsInv
<1> SUFFICES ASSUME CbpInit PROVE FoldsExact
    BY InitType DEF FoldsInv
<1>1. /\ global_history = Zeroes(MaxHistLen)
      /\ \A b \in Banks : /\ hist_i[b] = Zeroes(LogTagged)
                          /\ hist_t0[b] = Zeroes(TagBits)
                          /\ hist_t1[b] = Zeroes(TagBits - 1)
    BY DEF CbpInit, TageInit
<1> QED
    BY <1>1, Widths, FoldOfNothing, FoldsOf

LEMMA FoldsStep == FoldsInv /\ [CbpNext]_dvars => FoldsInv'
<1> SUFFICES ASSUME FoldsInv, [CbpNext]_dvars PROVE FoldsInv'
    OBVIOUS
<1>1. CbpTypeOK'
    BY NextType DEF FoldsInv
<1>2. ASSUME UNCHANGED histories
      PROVE  FoldsInv'
    <2>1. UNCHANGED <<hist_i, hist_t0, hist_t1, global_history>>
        BY <1>2 DEF histories
    <2>2. \A n, c : FoldOf(n, c)' = FoldOf(n, c)
        BY <2>1 DEF FoldOf
    <2> QED
        BY <1>1, <2>1, <2>2 DEF FoldsInv, FoldsExact
<1>3. ASSUME Resolve
      PROVE  FoldsInv'
    <2> DEFINE bit == IF branch.taken THEN 1 ELSE 0
               h == ShiftIn(global_history, bit, MaxHistLen)
    <2>1. /\ global_history' = h
          /\ hist_t0' = [b \in Banks |-> Fold(hist_t0[b], h, HistLen[b], TagBits)]
          /\ hist_t1' = [b \in Banks |-> Fold(hist_t1[b], h, HistLen[b], TagBits - 1)]
          /\ hist_i' = [b \in Banks |-> Fold(hist_i[b], h, HistLen[b], LogTagged)]
        BY <1>3 DEF Resolve, UpdatePredictor, UpdateHistory
    <2>2. bit \in Bits /\ global_history \in Vector(MaxHistLen)
        BY DEF Bits, FoldsInv, CbpTypeOK, TageTypeOK
    <2>3. ASSUME NEW b \in Banks
          PROVE  /\ hist_i'[b] = Folded(h, HistLen[b], LogTagged)
                 /\ hist_t0'[b] = Folded(h, HistLen[b], TagBits)
                 /\ hist_t1'[b] = Folded(h, HistLen[b], TagBits - 1)
        <3>1. /\ hist_i[b] = Folded(global_history, HistLen[b], LogTagged)
              /\ hist_t0[b] = Folded(global_history, HistLen[b], TagBits)
              /\ hist_t1[b] = Folded(global_history, HistLen[b], TagBits - 1)
            BY FoldsOf DEF FoldsInv
        <3>2. /\ hist_i'[b] = Fold(hist_i[b], h, HistLen[b], LogTagged)
              /\ hist_t0'[b] = Fold(hist_t0[b], h, HistLen[b], TagBits)
              /\ hist_t1'[b] = Fold(hist_t1[b], h, HistLen[b], TagBits - 1)
            BY <2>1
        <3> QED
            BY <2>2, <3>1, <3>2, Widths, FoldStep
    <2>4. FoldsExact'
        BY <2>1, <2>3 DEF FoldsExact, FoldOf, Folded, Ones
    <2> QED
        BY <1>1, <2>4 DEF FoldsInv
<1>4. ASSUME NEW pc \in PCs, NEW taken \in BOOLEAN, Predict(pc, taken)
      PROVE  UNCHANGED histories
    BY <1>4 DEF Predict, GetPrediction
<1>5. ASSUME Unconditional
      PROVE  UNCHANGED histories
    BY <1>5 DEF Unconditional, tvars
<1>6. ASSUME UNCHANGED dvars
      PROVE  UNCHANGED histories
    BY <1>6 DEF dvars, tvars
<1> QED
    BY <1>2, <1>3, <1>4, <1>5, <1>6 DEF CbpNext

(* For every length, width and trace, each folded register is the          *)
(* exclusive or of the pieces of its history (predictor.h:65-71).          *)
THEOREM FoldsCorrect == BHSpec => []FoldsExact
<1>1. BHInit => FoldsInv
    BY FoldsInit DEF BHInit
<1>2. FoldsInv /\ [BHNext]_bhvars => FoldsInv'
    BY FoldsStep, BHSteps
<1>3. FoldsInv => FoldsExact
    BY DEF FoldsInv
<1> QED
    BY <1>1, <1>2, <1>3, PTL DEF BHSpec

=============================================================================
