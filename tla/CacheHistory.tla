----------------------------- MODULE CacheHistory -----------------------------
(***************************************************************************)
(* CacheSim with history variables, for what its counters, its LRU order   *)
(* and its correlation table ought to mean.                                *)
(***************************************************************************)
EXTENDS CacheSim

VARIABLES
    since,     \* for each block used through an L1 cache, those used after it
    last,      \* the last access, and whether it missed
    followed   \* <<a, b, x>>: in some L1 set, x missed after a and b

chvars == <<cvars, since, last, followed>>

NoAccess == [cache |-> "L1_D", blk |-> NoBlock, missed |-> FALSE]

CHInit ==
    /\ CacheInit
    /\ since = [c \in L1s |-> [x \in {} |-> {}]]
    /\ last = NoAccess
    /\ followed = {}

Missing(c, b) == ~Holds(sets[c][SetOf(c, b)], b)

CHNext ==
    \E r \in run.program :
        /\ AccessCount("L1_I") + AccessCount("L1_D") < run.length
        /\ Access(r.cache, r.blk, r.pc, r.wr)
        /\ since' = [since EXCEPT ![r.cache] =
                        [x \in DOMAIN @ \cup {r.blk} |->
                            IF x = r.blk THEN {} ELSE @[x] \cup {r.blk}]]
        /\ last' = [cache |-> r.cache, blk |-> r.blk, missed |-> Missing(r.cache, r.blk)]
        /\ LET sr == miss_hist[r.cache][SetOf(r.cache, r.blk)]
           IN  followed' = followed \cup
                  (IF Missing(r.cache, r.blk) /\ BothValid(sr)
                   THEN {<<sr.tag_0, sr.tag_1, r.blk>>} ELSE {})

CHSpec == CHInit /\ [][CHNext]_chvars

Places(c) == {x \in SetIdx(c) \X (1..Ways(c)) : x[2] \in DOMAIN sets[c][x[1]]}
EntryAt(c, x) == sets[c][x[1]][x[2]]
Counted(c, P(_)) == Cardinality({x \in Places(c) : P(EntryAt(c, x))})

-----------------------------------------------------------------------------
(* The assertion of line 70 holds, and the counters account for every      *)
(* entry: what was missed is in the cache or was evicted.  A prefetch      *)
(* neither adds an entry nor takes one away.                               *)
MissesAccounted ==
    \A c \in Caches :
        /\ \A s \in SetIdx(c) : Len(sets[c][s]) <= Ways(c)
        /\ counters[c]["miss"] - counters[c]["evicted"] = Cardinality(Places(c))

(* The assertion of update_trace (dbpAndPrefetch.cpp:18): every block an   *)
(* L1 cache holds has an entry in the trace table, so that a hit can       *)
(* extend its trace, whichever way the block came in.                      *)
TraceKnown ==
    \A c \in L1s : \A x \in Places(c) : tr_hist_tbl[EntryAt(c, x).blk].known

(* Of the dead-block predictions of a cache, some were refuted by a        *)
(* reference, some gave way to a prefetch, some still stand and the rest   *)
(* were evicted: DBP accuracy and coverage, as Fini prints them, count no  *)
(* prediction twice.                                                       *)
PredictionsAccounted ==
    \A c \in Caches :
        LET standing == Counted(c, LAMBDA e : e.pred_dead)
            open == counters[c]["dbp"] - counters[c]["miss_pred"] - counters[c]["tcp_pr"]
        IN  standing <= open /\ open <= standing + counters[c]["evicted"]

(* The most recent block of an L1 set is never predicted dead, and the     *)
(* block just used is the most recent one of its L1 set and, if it missed, *)
(* of its L2 set: write-backs and prefetches on the way do not push it     *)
(* down.                                                                   *)
UsedIsMostRecent ==
    last # NoAccess =>
        LET Newest(c) == sets[c][SetOf(c, last.blk)]
        IN  /\ MruBlk(Newest(last.cache)) = last.blk
            /\ ~Newest(last.cache)[Len(Newest(last.cache))].pred_dead
            /\ last.missed => MruBlk(Newest("L2")) = last.blk

(* A prefetch is counted as useless at most once, and not while it is      *)
(* still in the cache.                                                     *)
PrefetchesAccounted ==
    \A c \in Caches :
        counters[c]["useless"] + Counted(c, LAMBDA e : e.prefetched /\ ~e.referenced)
            <= counters[c]["tcp_pr"]

(* A block has at most one entry that a miss brought in, even where the    *)
(* prefetcher, which does not look whether the set holds the block, has    *)
(* made a second one: no block is fetched twice.                           *)
OneDemandEntry ==
    \A c \in Caches : \A x, y \in Places(c) :
        /\ EntryAt(c, x).blk = EntryAt(c, y).blk
        /\ ~EntryAt(c, x).prefetched /\ ~EntryAt(c, y).prefetched
        => x = y

-----------------------------------------------------------------------------
(* Without the prefetcher, an L1 cache is an LRU cache.                    *)

Resident(c) == {EntryAt(c, x).blk : x \in Places(c)}

Lru == INSTANCE LruCache WITH
    Caches    <- L1s,
    Requests  <- UNION {r.program : r \in Runs},
    ways      <- run.l1w,
    resident  <- [c \in L1s |-> Resident(c)],
    misses    <- [c \in L1s |-> counters[c]["miss"]],
    evictions <- [c \in L1s |-> counters[c]["evicted"]]

(* With TCP off every access is one of the abstract LRU cache: an L1       *)
(* holds the last l1w blocks used of each set, whatever the write-backs,   *)
(* the other caches and the dead-block predictor do.                       *)
LruImplemented == Lru!AInit /\ [][run.p \/ Lru!ANext]_Lru!avars

-----------------------------------------------------------------------------
(* What a comment says and the prefetcher does not do.                     *)

(* dbpAndPrefetch.h:32, "stores tags of the last two misses": a block is   *)
(* prefetched only if it once followed these two misses.                   *)
PrefetchFollowsBoth ==
    \A c \in L1s : \A s \in SetIdx(c) : \A b \in Candidates(State, c, s) :
        <<miss_hist[c][s].tag_0, miss_hist[c][s].tag_1, b>> \in followed

=============================================================================
