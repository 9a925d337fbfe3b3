--------------------------------- MODULE Tage ---------------------------------
(***************************************************************************)
(* The TAGE branch predictor of cbp/sim/predictor.h and predictor.cc: a    *)
(* bimodal base table, and NumBanks tagged tables that are indexed with    *)
(* the pc and ever shorter parts of the global history, bank 0 with the    *)
(* longest.  The first bank whose entry has the right tag provides the     *)
(* prediction, the next one the alternative.                               *)
(*                                                                         *)
(* Which entry a pc and a history select is a hash; the model keeps what   *)
(* the hash looks at, the folded histories, and takes the hash itself as   *)
(* parameters IndexOf and TagOf.  A vector of bits is a function from bit  *)
(* numbers, the lowest the most recent, to 0 and 1.                        *)
(***************************************************************************)
EXTENDS Integers, FiniteSets

CONSTANTS
    PCs,
    NumBanks,         \* NUM_BANKS
    HistLen,          \* idx_lengths: how much history each bank looks at
    MaxHistLen,       \* MAX_HIST_LEN
    LogTagged,        \* LOG_TAGGED
    TagBits,          \* TAG_BITS
    IntBits,          \* the width of an int
    SatLow, SatHigh,  \* SAT_L_BOUND, SAT_U_BOUND
    MaxUseful,        \* 3, the bound of ubit
    Indices, Tags, ZeroIndex, ZeroTag,
    BaseIndex,        \* base_table_index, [PCs -> a set]
    PathBit,          \* bit 1 of each pc
    IndexOf(_, _, _, _),  \* pc, bank, folded history, path history
    TagOf(_, _, _, _)     \* pc, bank, the two folded histories

Banks == 0 .. NumBanks - 1
Bits == 0..1

(* A register of folded history and its width; a history of each length    *)
(* has its registers.                                                      *)
Vector(n) == [0 .. n - 1 -> Bits]

PathLen(b) == IF HistLen[b] >= LogTagged THEN LogTagged ELSE HistLen[b]

ASSUME TageAssumption ==
    /\ NumBanks \in Nat \ {0, 1}
    /\ MaxHistLen \in Nat
    /\ HistLen \in [Banks -> Nat \ {0}]
    /\ \A b \in Banks : HistLen[b] < MaxHistLen
    /\ LogTagged \in Nat \ {0}
    /\ TagBits \in Nat \ {0, 1}
    /\ IntBits \in Nat /\ IntBits > LogTagged
    /\ SatLow \in Int /\ SatHigh \in Int /\ SatLow <= -1 /\ SatHigh >= 0
    /\ MaxUseful \in Nat \ {0}
    /\ ZeroIndex \in Indices /\ ZeroTag \in Tags
    /\ PathBit \in [PCs -> Bits]
    /\ DOMAIN BaseIndex = PCs

ASSUME HashAssumption ==
    \A pc \in PCs, b \in Banks :
        /\ \A f \in Vector(LogTagged), p \in Vector(PathLen(b)) :
              IndexOf(pc, b, f, p) \in Indices
        /\ \A f \in Vector(TagBits), g \in Vector(TagBits - 1) :
              TagOf(pc, b, f, g) \in Tags

VARIABLES
    base_table, tagged_table,
    hist_i, hist_t0, hist_t1,       \* folded histories
    global_history, path_history,
    t_indices,                      \* what GetPrediction leaves for
    provider_idx, alternative_idx,  \* UpdatePredictor
    alternative_pred,
    p_bias

histories == <<hist_i, hist_t0, hist_t1, global_history, path_history>>
tables == <<base_table, tagged_table, p_bias>>
lookup == <<t_indices, provider_idx, alternative_idx, alternative_pred>>
tvars == <<tables, histories, lookup>>

BaseIndices == {BaseIndex[pc] : pc \in PCs}

TEntry == [pred : SatLow .. SatHigh, tag : Tags, ubit : 0 .. MaxUseful]

TageTypeOK ==
    /\ base_table \in [BaseIndices -> -2 .. 1]
    /\ tagged_table \in [Banks -> [Indices -> TEntry]]
    /\ hist_i \in [Banks -> Vector(LogTagged)]
    /\ hist_t0 \in [Banks -> Vector(TagBits)]
    /\ hist_t1 \in [Banks -> Vector(TagBits - 1)]
    /\ global_history \in Vector(MaxHistLen)
    /\ path_history \in Vector(IntBits)
    /\ t_indices \in [Banks -> Indices]
    /\ provider_idx \in 0 .. NumBanks
    /\ alternative_idx \in 0 .. NumBanks
    /\ alternative_pred \in BOOLEAN
    /\ p_bias \in SatLow .. SatHigh

Zeroes(n) == [k \in 0 .. n - 1 |-> 0]

(* The last three are uninitialized in the code, and set by GetPrediction  *)
(* before anything reads them.  path_history is uninitialized as well, and *)
(* read by the first lookup: it starts as any int.                         *)
TageInit ==
    /\ base_table = [x \in BaseIndices |-> 0]
    /\ tagged_table = [b \in Banks |->
           [x \in Indices |-> [pred |-> 0, tag |-> ZeroTag, ubit |-> 0]]]
    /\ hist_i = [b \in Banks |-> Zeroes(LogTagged)]
    /\ hist_t0 = [b \in Banks |-> Zeroes(TagBits)]
    /\ hist_t1 = [b \in Banks |-> Zeroes(TagBits - 1)]
    /\ global_history = Zeroes(MaxHistLen)
    /\ path_history \in Vector(IntBits)
    /\ t_indices = [b \in Banks |-> ZeroIndex]
    /\ p_bias = 0
    /\ provider_idx = NumBanks
    /\ alternative_idx = NumBanks
    /\ alternative_pred = FALSE

-----------------------------------------------------------------------------
(* Lookup.                                                                 *)

TaggedTableIndex(pc, b) ==
    IndexOf(pc, b, hist_i[b], [k \in 0 .. PathLen(b) - 1 |-> path_history[k]])

ComputeTag(pc, b) == TagOf(pc, b, hist_t0[b], hist_t1[b])

(* The first of some banks, NumBanks if there is none. *)
FirstBank(S) ==
    IF S = {} THEN NumBanks ELSE CHOOSE b \in S : \A c \in S : b <= c

Matching(table, pc) ==
    {b \in Banks : table[b][TaggedTableIndex(pc, b)].tag = ComputeTag(pc, b)}

WeakPredCounter(cnt) == cnt \in {0, -1}

Recent(e) == WeakPredCounter(e.pred) /\ e.ubit = 0

(* The condition under which the provider is used.  It looks at the entry  *)
(* of the alternative bank; if there is none it reads past the end of the  *)
(* tables, and either answer is possible.                                  *)
UsesProvider(a, idx) ==
    IF p_bias < 0 THEN {TRUE}
    ELSE IF a = NumBanks THEN BOOLEAN ELSE {~Recent(tagged_table[a][idx[a]])}

GetPrediction(pc, dir) ==
    LET idx   == [b \in Banks |-> TaggedTableIndex(pc, b)]
        match == Matching(tagged_table, pc)
        p     == FirstBank(match)
        a     == FirstBank(match \ {p})
        base  == base_table[BaseIndex[pc]] >= 0
        alt   == IF a = NumBanks THEN base ELSE tagged_table[a][idx[a]].pred >= 0
    IN  /\ t_indices' = idx
        /\ provider_idx' = p
        /\ alternative_idx' = a
        /\ alternative_pred' = alt
        /\ IF p = NumBanks THEN dir = alt
           ELSE \E used \in UsesProvider(a, idx) :
                   dir = IF used THEN tagged_table[p][idx[p]].pred >= 0 ELSE alt
        /\ UNCHANGED <<tables, histories>>

-----------------------------------------------------------------------------
(* Update.                                                                 *)

(* sat_count_update, with both bounds. *)
Saturate(cnt, up, low, high) ==
    IF up THEN (IF cnt < high THEN cnt + 1 ELSE cnt)
          ELSE (IF cnt > low THEN cnt - 1 ELSE cnt)

Provided == provider_idx < NumBanks
Provider == tagged_table[provider_idx][t_indices[provider_idx]]
ProviderPred == Provider.pred >= 0
RecentProvider == Provided /\ Recent(Provider)

UpdateBias(taken) ==
    p_bias' = IF ~RecentProvider THEN p_bias
              ELSE IF alternative_pred = ProviderPred
                   THEN Saturate(p_bias, FALSE, SatLow, SatHigh)
              ELSE IF alternative_pred = taken
                   THEN Saturate(p_bias, TRUE, SatLow, SatHigh)
              ELSE p_bias

Allocates(taken, predDir) ==
    /\ predDir # taken
    /\ provider_idx > 0
    /\ ~(RecentProvider /\ ProviderPred = taken)

Candidate(b) == tagged_table[b][t_indices[b]]

(* Whatever bank comes first, useful or not. *)
FirstLonger == {0}

(* The banks of longer history whose entry nothing finds useful. *)
Replaceable == {b \in 0 .. provider_idx - 1 : Candidate(b).ubit = 0}

(* Aging as soon as one entry is useful, whatever the others are. *)
SomeUseful == \E b \in 0 .. provider_idx - 1 : Candidate(b).ubit > 0

NoneReplaceable == Replaceable = {}

(* The tag left as it was. *)
UntaggedEntry(pc, b, taken) ==
    [pred |-> IF taken THEN 0 ELSE -1, tag |-> Candidate(b).tag, ubit |-> 0]

NewEntry(pc, b, taken) ==
    [pred |-> IF taken THEN 0 ELSE -1, tag |-> ComputeTag(pc, b), ubit |-> 0]

(* alloc_tagged_entry, for the selected entry of bank b. *)
Allocated(pc, b, taken) ==
    IF NoneReplaceable THEN [Candidate(b) EXCEPT !.ubit = @ - 1]
    ELSE IF b = FirstBank(Replaceable) THEN NewEntry(pc, b, taken)
    ELSE Candidate(b)

(* Whichever of the two predictions was used. *)
AnyPredictionUsed(predDir) == TRUE

(* The provider was used and the alternative said otherwise. *)
ProviderDecided(predDir) == alternative_pred # predDir

Trained(e, taken, predDir) ==
    [e EXCEPT !.pred = Saturate(@, taken, SatLow, SatHigh),
              !.ubit = IF ProviderDecided(predDir)
                       THEN Saturate(@, predDir = taken, 0, MaxUseful) ELSE @]

UpdateTables(pc, taken, predDir) ==
    /\ base_table' = IF Provided THEN base_table
                     ELSE [base_table EXCEPT ![BaseIndex[pc]] = Saturate(@, taken, -2, 1)]
    /\ tagged_table' = [b \in Banks |->
           [tagged_table[b] EXCEPT ![t_indices[b]] =
               IF b = provider_idx THEN Trained(@, taken, predDir)
               ELSE IF b < provider_idx /\ Allocates(taken, predDir)
                    THEN Allocated(pc, b, taken)
               ELSE @]]

(* TRUNCATE of a vector to its n lowest bits. *)
Truncate(v, n) == [k \in DOMAIN v |-> IF k < n THEN v[k] ELSE 0]

ShiftIn(v, bit, n) == [k \in 0 .. n - 1 |-> IF k = 0 THEN bit ELSE v[k - 1]]

Xor(x, y) == (x + y) % 2

(* The bit that leaves a history of length n: the last one, before and     *)
(* after the history h has been shifted.                                   *)
LastBit(h, n) == h[n - 1]
OutgoingBit(h, n) == h[n]

(* folded_history::update, with the history h already shifted: the folded  *)
(* bits rotate by one, the new bit comes in at 0, the bit that leaves the  *)
(* original history is taken out where it is by now.                       *)
Fold(f, h, n, c) ==
    [k \in 0 .. c - 1 |->
        Xor(IF k = 0 THEN Xor(h[0], f[c - 1]) ELSE f[k - 1],
            IF k = n % c THEN OutgoingBit(h, n) ELSE 0)]

UpdateHistory(pc, taken) ==
    LET h == ShiftIn(global_history, IF taken THEN 1 ELSE 0, MaxHistLen)
    IN  /\ path_history' = Truncate(ShiftIn(path_history, PathBit[pc], IntBits),
                                     LogTagged + 1)
        /\ global_history' = h
        /\ hist_t0' = [b \in Banks |-> Fold(hist_t0[b], h, HistLen[b], TagBits)]
        /\ hist_t1' = [b \in Banks |-> Fold(hist_t1[b], h, HistLen[b], TagBits - 1)]
        /\ hist_i' = [b \in Banks |-> Fold(hist_i[b], h, HistLen[b], LogTagged)]

UpdatePredictor(pc, taken, predDir) ==
    /\ UpdateBias(taken)
    /\ UpdateTables(pc, taken, predDir)
    /\ UpdateHistory(pc, taken)
    /\ UNCHANGED lookup

=============================================================================
