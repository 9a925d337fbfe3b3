------------------------------- MODULE CacheSim -------------------------------
(***************************************************************************)
(* The cache hierarchy of the dbpSim pintool (a3/.../ACA/cacheSim.cpp and  *)
(* dbpAndPrefetch.cpp): two L1 caches over one L2, LRU sets, write-back,   *)
(* a dead-block predictor (BurstTrace in the L1s, RefCount+ in the L2) and *)
(* a tag-correlating prefetcher that fills the place of a dead block.      *)
(*                                                                         *)
(* A memory block is its number.  The set index is the low part of the     *)
(* number; the tag is the rest, so that within one set the number stands   *)
(* for the tag.  Both levels have the same block size, as in the defaults  *)
(* of dbpSim.  A set is a sequence of entries, least recently used first.  *)
(*                                                                         *)
(* An access runs through several functions and, on a miss, through the    *)
(* parent cache.  The operators below pass the whole state h along:        *)
(*   h.sets, h.hist, h.cnt   the sets, miss_hist and counters of a cache   *)
(*   h.tr, h.ref, h.tcp      the tables of dbpAndPrefetch.cpp              *)
(***************************************************************************)
EXTENDS Integers, Sequences, FiniteSets

CONSTANTS
    Blocks,       \* block numbers
    NoBlock,      \* no block: the valid flags of a TagSR are off
    NumSets,      \* [Caches -> Nat], a power of two above 1
    TraceMod,     \* 2^30: the width of a burst trace
    Runs          \* the runs of the pintool: a command line and a program

L1s == {"L1_I", "L1_D"}
Caches == L1s \cup {"L2"}

Request == [cache : L1s, blk : Blocks, pc : Nat, wr : BOOLEAN]

(* A run: the knobs of the two associativities and of the prefetcher, the  *)
(* accesses the traced program may make and the bound on their number.     *)
ASSUME CacheAssumption ==
    /\ Blocks \subseteq Nat
    /\ NoBlock \notin Blocks
    /\ NumSets \in [Caches -> Nat \ {0, 1}]
    /\ NumSets["L1_I"] = NumSets["L1_D"]
    /\ TraceMod \in Nat \ {0}
    /\ \A r \in Runs :
          /\ r.l1w \in Nat \ {0} /\ r.l2w \in Nat \ {0}
          /\ r.p \in BOOLEAN
          /\ r.program \subseteq Request
          /\ r.length \in Nat

VARIABLES
    run,           \* the run this is
    sets,          \* sets of each cache
    miss_hist,     \* the last two misses of each set
    counters,      \* rd_cnt, wr_cnt, cache_miss, ...
    tr_hist_tbl,   \* BurstTrace history, shared by the two L1 caches
    ref_hist_tbl,  \* RefCount+ history
    tcp_pred_tbl   \* l1_tcp_pred_tbl and l2_tcp_pred_tbl

cvars == <<run, sets, miss_hist, counters, tr_hist_tbl, ref_hist_tbl, tcp_pred_tbl>>

SetOf(c, b) == b % NumSets[c]
SetIdx(c) == 0 .. NumSets[c] - 1
Ways(c) == IF c = "L2" THEN run.l2w ELSE run.l1w
Level(c) == IF c = "L2" THEN 2 ELSE 1

(* refCount is kept in the L2 only: an L1 counts but never looks. *)
Entry == [blk : Blocks, dirty : BOOLEAN, pred_dead : BOOLEAN,
          prefetched : BOOLEAN, referenced : BOOLEAN, refCount : Nat]

TraceEntry == [known : BOOLEAN, confidence : BOOLEAN,
               current_trace : 0 .. TraceMod-1, old_trace : 0 .. TraceMod-1]

RefEntry == [known : BOOLEAN, sat_cnt : 0..1, dead_cnt : Nat, filter_cnt : Nat]

PredEntry == [tgt : Blocks, counter : Nat \ {0}]

TagSR == [tag_0 : Blocks \cup {NoBlock}, tag_1 : Blocks \cup {NoBlock}]

Counts == {"rd", "wr", "miss", "dbp", "miss_pred", "evicted", "tcp_pr", "useless"}

TcpIndices(lvl) ==
    (0 .. NumSets[IF lvl = 2 THEN "L2" ELSE "L1_D"] - 1) \X Blocks

CacheTypeOK ==
    /\ run \in Runs
    /\ \A c \in Caches :
          /\ sets[c] \in [SetIdx(c) -> Seq(Entry)]
          /\ \A s \in SetIdx(c) : \A n \in DOMAIN sets[c][s] :
                SetOf(c, sets[c][s][n].blk) = s
          /\ miss_hist[c] \in [SetIdx(c) -> TagSR]
          /\ counters[c] \in [Counts -> Nat]
    /\ tr_hist_tbl \in [Blocks -> TraceEntry]
    /\ ref_hist_tbl \in [Blocks -> RefEntry]
    /\ \A lvl \in 1..2 : tcp_pred_tbl[lvl] \in [TcpIndices(lvl) -> Seq(PredEntry)]

NewTrace == [known |-> FALSE, confidence |-> FALSE, current_trace |-> 0, old_trace |-> 0]
NewRef == [known |-> FALSE, sat_cnt |-> 0, dead_cnt |-> 0, filter_cnt |-> 0]

CacheInit ==
    /\ run \in Runs
    /\ sets = [c \in Caches |-> [s \in SetIdx(c) |-> <<>>]]
    /\ miss_hist = [c \in Caches |->
                      [s \in SetIdx(c) |-> [tag_0 |-> NoBlock, tag_1 |-> NoBlock]]]
    /\ counters = [c \in Caches |-> [k \in Counts |-> 0]]
    /\ tr_hist_tbl = [b \in Blocks |-> NewTrace]
    /\ ref_hist_tbl = [b \in Blocks |-> NewRef]
    /\ tcp_pred_tbl = [lvl \in 1..2 |-> [x \in TcpIndices(lvl) |-> <<>>]]

-----------------------------------------------------------------------------
(* dbpAndPrefetch.cpp: the history tables.                                 *)

UpdateTraceWide(tr, b, pc) ==
    [tr EXCEPT ![b].current_trace = @ + pc]   \* without the 30-bit mask

UpdateTrace(tr, b, pc) ==
    [tr EXCEPT ![b].current_trace = (@ + pc) % TraceMod]

PredictTrace(tr, b) ==
    tr[b].known /\ tr[b].confidence /\ tr[b].current_trace = tr[b].old_trace

PredictCnt(ref, b, cnt) ==
    /\ ref[b].known
    /\ ref[b].dead_cnt = cnt
    /\ ref[b].sat_cnt = 1 \/ ref[b].filter_cnt > 0

(* Only the entries that are already there. *)
InsertKnownOnly(h, c, b) ==
    IF c = "L2" THEN h ELSE [h EXCEPT !.tr[b].current_trace = 0]

(* insert_on_miss_trace and insert_on_miss_cnt. *)
InsertOnMiss(h, c, b) ==
    IF c = "L2" THEN [h EXCEPT !.ref[b].known = TRUE]
    ELSE [h EXCEPT !.tr[b].known = TRUE, !.tr[b].current_trace = 0]

EvictedTrace(t) ==
    [t EXCEPT !.confidence = t.current_trace = t.old_trace,
              !.old_trace = t.current_trace, !.current_trace = 0]

EvictedRef(r, cnt) ==
    CASE r.dead_cnt < cnt -> [r EXCEPT !.sat_cnt = 0, !.dead_cnt = cnt]
      [] r.dead_cnt = cnt -> [r EXCEPT !.sat_cnt = 1]
      [] r.dead_cnt > cnt /\ r.filter_cnt = cnt ->
             [r EXCEPT !.sat_cnt = 1, !.dead_cnt = cnt]
      [] r.dead_cnt > cnt /\ r.filter_cnt # cnt ->
             [r EXCEPT !.sat_cnt = 0, !.filter_cnt = cnt]

(* update_on_eviction_trace and update_on_eviction_cnt. *)
UpdateOnEviction(h, c, e) ==
    IF c = "L2"
    THEN IF h.ref[e.blk].known
         THEN [h EXCEPT !.ref[e.blk] = EvictedRef(h.ref[e.blk], e.refCount)]
         ELSE h
    ELSE IF h.tr[e.blk].known
         THEN [h EXCEPT !.tr[e.blk] = EvictedTrace(h.tr[e.blk])]
         ELSE h

-----------------------------------------------------------------------------
(* dbpAndPrefetch.cpp: tag correlation.                                    *)

Bump(h, c, k, n) == [h EXCEPT !.cnt[c][k] = h.cnt[c][k] + n]

One(cond) == IF cond THEN 1 ELSE 0

BothValid(sr) == sr.tag_0 # NoBlock /\ sr.tag_1 # NoBlock

(* The index tcp_idx.  Both tags are block addresses, and the shift by     *)
(* 64 - blk_offs - set_bits pushes all of tag_0 but its set index out of   *)
(* the word.                                                               *)
TcpIdx(c, sr) == <<SetOf(c, sr.tag_0), sr.tag_1>>

(* update_tc_tbl: one more time, b followed the last two misses. *)
Followed(list, b) ==
    IF \E n \in DOMAIN list : list[n].tgt = b
    THEN [n \in DOMAIN list |->
             IF list[n].tgt = b THEN [list[n] EXCEPT !.counter = @ + 1] ELSE list[n]]
    ELSE Append(list, [tgt |-> b, counter |-> 1])

UpdateTcTbl(h, c, b) ==
    LET sr == h.hist[c][SetOf(c, b)]
    IN  IF run.p /\ BothValid(sr)
        THEN [h EXCEPT !.tcp[Level(c)][TcpIdx(c, sr)] = Followed(@, b)]
        ELSE h

(* tcp_prefetch: the most frequent follower, the first one of several. *)
Candidates(h, c, s) ==
    LET sr   == h.hist[c][s]
        list == h.tcp[Level(c)][TcpIdx(c, sr)]
    IN  IF run.p /\ BothValid(sr)
        THEN {list[n].tgt : n \in {m \in DOMAIN list : \A k \in DOMAIN list :
                 \/ list[k].counter < list[m].counter
                 \/ list[k].counter = list[m].counter /\ k >= m}}
        ELSE {}

-----------------------------------------------------------------------------
(* cacheSim::access: a hit.                                                *)

(* The search stops one entry short. *)
HoldsButLast(set, b) == \E n \in 1 .. Len(set) - 1 : set[n].blk = b

Holds(set, b) == \E n \in DOMAIN set : set[n].blk = b

(* The first entry of b, should it have more than one. *)
PlaceOf(set, b) ==
    CHOOSE n \in DOMAIN set :
        set[n].blk = b /\ \A k \in DOMAIN set : set[k].blk = b => n <= k

Without(set, n) == SubSeq(set, 1, n - 1) \o SubSeq(set, n + 1, Len(set))

MruBlk(set) == set[Len(set)].blk

(* The hit block changed in place, as if it were the LRU update that was   *)
(* left out.                                                               *)
StaysInPlace(set, n, e) == [set EXCEPT ![n] = e]

MakeMru(set, n, e) == Append(Without(set, n), e)

(* A dead-block prediction is taken back by a reference. *)
HitEntry(h, c, e, wr) ==
    [e EXCEPT !.referenced = TRUE,
              !.dirty      = wr,
              !.refCount   = IF c = "L2" THEN e.refCount + 1 ELSE 0,
              !.pred_dead  = /\ c = "L2"
                             /\ ~e.pred_dead
                             /\ PredictCnt(h.ref, e.blk, e.refCount + 1)]

(* The burst of block m ends as another block becomes the most recent one. *)
BurstEnds(h, c, set, b) == c \in L1s /\ MruBlk(set) # b

PredictBurst(h, c, set, b) ==
    BurstEnds(h, c, set, b) /\ PredictTrace(h.tr, MruBlk(set))

(* The predictions of the reference counts left out of the statistics. *)
PredictedByBurst(burst, e) == burst

Predicted(burst, e) == burst \/ e.pred_dead

Hit(h, c, b, pc, wr) ==
    LET s    == SetOf(c, b)
        set  == h.sets[c][s]
        n    == PlaceOf(set, b)
        e    == HitEntry(h, c, set[n], wr)
        traced == IF BurstEnds(h, c, set, b)
                  THEN [h EXCEPT !.tr = UpdateTrace(h.tr, b, pc)] ELSE h
        dead   == PredictBurst(traced, c, set, b)
        marked == IF dead THEN [set EXCEPT ![Len(set)].pred_dead = TRUE] ELSE set
        moved  == [traced EXCEPT !.sets[c][s] = MakeMru(marked, n, e)]
    IN  Bump(Bump(moved, c, "dbp", One(Predicted(dead, e))),
             c, "miss_pred", One(set[n].pred_dead))

-----------------------------------------------------------------------------
(* cacheSim::access: a miss.                                               *)

NewEntry(b, wr) ==
    [blk |-> b, dirty |-> wr, pred_dead |-> FALSE, prefetched |-> FALSE,
     referenced |-> FALSE, refCount |-> 0]

(* One entry too many before the first eviction. *)
OverFull(c, set) == Len(set) > Ways(c)

Full(c, set) == Len(set) >= Ways(c)

(* The block a miss in set evicts, if any. *)
Victims(c, set) == IF Full(c, set) THEN {set[1]} ELSE {}

(* Counting every unreferenced victim, prefetched or not. *)
UnusedVictim(e) == ~e.referenced

UselessPrefetch(e) == e.prefetched /\ ~e.referenced

(* The tables and the set, before the parent cache is asked. *)
Fetch(h, c, b, wr) ==
    LET s   == SetOf(c, b)
        set == h.sets[c][s]
        tbl == UpdateTcTbl(InsertOnMiss(Bump(h, c, "miss", 1), c, b), c, b)
        sr  == [tag_0 |-> h.hist[c][s].tag_1, tag_1 |-> b]
        had == [tbl EXCEPT !.hist[c][s] = sr]
    IN  IF Full(c, set)
        THEN LET put == [had EXCEPT !.sets[c][s] = Append(Tail(set), NewEntry(b, wr))]
             IN  UpdateOnEviction(
                     Bump(Bump(put, c, "evicted", 1),
                          c, "useless", One(UselessPrefetch(set[1]))),
                     c, set[1])
        ELSE [had EXCEPT !.sets[c][s] = Append(set, NewEntry(b, wr))]

PrefetchedEntry(b) ==
    [NewEntry(b, FALSE) EXCEPT !.prefetched = TRUE]

DeadPlaces(set) == {n \in DOMAIN set : set[n].pred_dead}

(* A prefetched block takes over the entry, and the place in the LRU       *)
(* order, of the first dead block.                                         *)
Prefetch(h, c, s) ==
    LET set == h.sets[c][s]
    IN  IF Candidates(h, c, s) = {} \/ DeadPlaces(set) = {} THEN h
        ELSE LET b == CHOOSE x \in Candidates(h, c, s) : TRUE
                 n == CHOOSE x \in DeadPlaces(set) : \A y \in DeadPlaces(set) : x <= y
             IN  InsertOnMiss(
                     Bump([h EXCEPT !.sets[c][s][n] = PrefetchedEntry(b)], c, "tcp_pr", 1),
                     c, b)

CountAccess(h, c, wr) == Bump(h, c, IF wr THEN "wr" ELSE "rd", 1)

AccessL2(g, b, pc, wr) ==
    LET h == CountAccess(g, "L2", wr)
        s == SetOf("L2", b)
    IN  IF Holds(h.sets["L2"][s], b)
        THEN Hit(h, "L2", b, pc, wr)
        ELSE Prefetch(Fetch(h, "L2", b, wr), "L2", s)

(* The missed block asked for before the dirty victim is written back. *)
FetchThenWriteBack(h, victims, b, pc, wr) ==
    LET asked == AccessL2(h, b, pc, wr)
    IN  IF \E v \in victims : v.dirty
        THEN AccessL2(asked, (CHOOSE v \in victims : v.dirty).blk, pc, TRUE)
        ELSE asked

(* The accesses of the parent cache: the dirty victim, then the block. *)
AskParent(h, victims, b, pc, wr) ==
    LET written == IF \E v \in victims : v.dirty
                   THEN AccessL2(h, (CHOOSE v \in victims : v.dirty).blk, pc, TRUE)
                   ELSE h
    IN  AccessL2(written, b, pc, wr)

AccessL1(g, c, b, pc, wr) ==
    LET h   == CountAccess(g, c, wr)
        s   == SetOf(c, b)
        set == h.sets[c][s]
    IN  IF Holds(set, b)
        THEN Hit(h, c, b, pc, wr)
        ELSE Prefetch(AskParent(Fetch(h, c, b, wr), Victims(c, set), b, pc, wr), c, s)

-----------------------------------------------------------------------------

State == [sets |-> sets, hist |-> miss_hist, cnt |-> counters,
          tr |-> tr_hist_tbl, ref |-> ref_hist_tbl, tcp |-> tcp_pred_tbl]

Access(c, b, pc, wr) ==
    LET h == AccessL1(State, c, b, pc, wr)
    IN  /\ sets' = h.sets
        /\ miss_hist' = h.hist
        /\ counters' = h.cnt
        /\ tr_hist_tbl' = h.tr
        /\ ref_hist_tbl' = h.ref
        /\ tcp_pred_tbl' = h.tcp
        /\ run' = run

AccessCount(c) == counters[c]["rd"] + counters[c]["wr"]

CacheNext ==
    \E r \in run.program :
        /\ AccessCount("L1_I") + AccessCount("L1_D") < run.length
        /\ Access(r.cache, r.blk, r.pc, r.wr)

CacheSpec == CacheInit /\ [][CacheNext]_cvars

=============================================================================
