------------------------------ MODULE CacheProofs ------------------------------
(***************************************************************************)
(* The cache hierarchy for any geometry, associativity and program: types, *)
(* the assertion of update_trace, the most recent block, one demand entry  *)
(* for a block, and the statistics of Fini, whatever the parent cache, the *)
(* dead-block predictor and the prefetcher do in the middle of an access;  *)
(* and, with the prefetcher off, the refinement of LruCache.               *)
(***************************************************************************)
EXTENDS CacheHistory, SequenceTheorems, FiniteSetTheorems, NaturalsInduction,
        WellFoundedInduction, TLAPS

-----------------------------------------------------------------------------
(* One set.                                                                *)

(* Set s of cache c, of w ways: its blocks belong there, and a block is    *)
(* there once, prefetched twins apart.                                     *)
GoodSet(c, s, w, q) ==
    /\ q \in Seq(Entry)
    /\ Len(q) <= w
    /\ \A n \in 1 .. Len(q) : SetOf(c, q[n].blk) = s
    /\ \A m, n \in 1 .. Len(q) :
          q[m].blk = q[n].blk /\ ~q[m].prefetched /\ ~q[n].prefetched => m = n

AllKnown(tr, q) == \A n \in 1 .. Len(q) : tr[q[n].blk].known

(* A nonempty set of numbers has a least one. *)
LEMMA LeastExists ==
    ASSUME NEW S \in SUBSET Nat, S # {}
    PROVE  \E m \in S : \A n \in S : m <= n
<1>1. PICK m \in S : \A n \in S : ~(<<n, m>> \in OpToRel(<, Nat))
    BY NatLessThanWellFounded, WFMin
<1>2. \A n \in S : ~(n < m)
    BY <1>1 DEF OpToRel
<1> QED
    BY <1>2

LEMMA WaysPositive ==
    ASSUME run \in Runs, NEW c \in Caches
    PROVE  Ways(c) \in Nat \ {0}
    BY CacheAssumption DEF Ways

LEMMA SetOfRange ==
    ASSUME NEW c \in Caches, NEW b \in Blocks
    PROVE  SetOf(c, b) \in SetIdx(c)
<1>1. NumSets[c] \in Nat \ {0} /\ b \in Nat
    BY CacheAssumption
<1> QED
    BY <1>1 DEF SetOf, SetIdx

LEMMA PlaceOfIsPlace ==
    ASSUME NEW q \in Seq(Entry), NEW b, Holds(q, b)
    PROVE  PlaceOf(q, b) \in 1 .. Len(q) /\ q[PlaceOf(q, b)].blk = b
<1> DEFINE P == {n \in 1 .. Len(q) : q[n].blk = b}
<1>1. DOMAIN q = 1 .. Len(q)
    OBVIOUS
<1>2. P \in SUBSET Nat /\ P # {}
    BY <1>1 DEF Holds
<1>3. \E n \in P : \A k \in P : n <= k
    BY <1>2, LeastExists
<1>4. \E n \in DOMAIN q : q[n].blk = b /\ \A k \in DOMAIN q : q[k].blk = b => n <= k
    BY <1>1, <1>3
<1> QED
    BY <1>1, <1>4 DEF PlaceOf

(* MakeMru moves one entry to the end. *)
LEMMA MakeMruProperties ==
    ASSUME NEW q \in Seq(Entry), NEW n \in 1 .. Len(q), NEW e \in Entry
    PROVE  /\ MakeMru(q, n, e) \in Seq(Entry)
           /\ Len(MakeMru(q, n, e)) = Len(q)
           /\ MakeMru(q, n, e)[Len(q)] = e
           /\ \A m \in 1 .. Len(q) - 1 :
                 MakeMru(q, n, e)[m] = q[IF m < n THEN m ELSE m + 1]
<1> DEFINE low == SubSeq(q, 1, n - 1)
           high == SubSeq(q, n + 1, Len(q))
<1>1. Len(q) \in Nat /\ \A m \in 1 .. Len(q) : q[m] \in Entry
    OBVIOUS
<1>2. /\ low \in Seq(Entry) /\ Len(low) = n - 1
      /\ \A m \in 1 .. n - 1 : low[m] = q[m]
    BY <1>1, SubSeqProperties, Z3
<1>3. /\ high \in Seq(Entry) /\ Len(high) = Len(q) - n
      /\ \A m \in 1 .. Len(q) - n : high[m] = q[m + n]
    BY <1>1, SubSeqProperties, Z3
<1> HIDE DEF low, high
<1>4. /\ low \o high \in Seq(Entry)
      /\ Len(low \o high) = Len(q) - 1
      /\ \A m \in 1 .. Len(q) - 1 :
            (low \o high)[m] = IF m <= n - 1 THEN low[m] ELSE high[m - (n - 1)]
    <2>1. /\ low \o high \in Seq(Entry)
          /\ Len(low \o high) = Len(low) + Len(high)
          /\ \A m \in 1 .. Len(low) + Len(high) : (low \o high)[m] =
                IF m <= Len(low) THEN low[m] ELSE high[m - Len(low)]
        BY <1>2, <1>3, ConcatProperties
    <2>2. Len(low) + Len(high) = Len(q) - 1
        BY <1>1, <1>2, <1>3
    <2> QED
        BY <1>2, <2>1, <2>2
<1>5. \A m \in 1 .. Len(q) - 1 : (low \o high)[m] = q[IF m < n THEN m ELSE m + 1]
    BY <1>2, <1>3, <1>4
<1>6. MakeMru(q, n, e) = Append(low \o high, e)
    BY DEF MakeMru, Without, low, high
<1> QED
    BY <1>4, <1>5, <1>6, AppendProperties

(* A hit: the entry goes to the end, changed but for its block and whether *)
(* it was prefetched, and another may be marked dead.                      *)
LEMMA HitSet ==
    ASSUME NEW c \in Caches, NEW s, NEW w, NEW q, NEW r, GoodSet(c, s, w, q), r \in Seq(Entry),
           Len(r) = Len(q),
           \A m \in 1 .. Len(q) :
               r[m].blk = q[m].blk /\ r[m].prefetched = q[m].prefetched,
           NEW n \in 1 .. Len(q), NEW e \in Entry,
           e.blk = q[n].blk, e.prefetched = q[n].prefetched
    PROVE  /\ GoodSet(c, s, w, MakeMru(r, n, e))
           /\ Len(MakeMru(r, n, e)) = Len(q)
           /\ MakeMru(r, n, e)[Len(q)] = e
           /\ \A tr : AllKnown(tr, q) => AllKnown(tr, MakeMru(r, n, e))
<1> DEFINE v == MakeMru(r, n, e)
           Old(m) == IF m = Len(q) THEN n ELSE IF m < n THEN m ELSE m + 1
<1>1. /\ v \in Seq(Entry) /\ Len(v) = Len(q) /\ v[Len(q)] = e
      /\ \A m \in 1 .. Len(q) - 1 : v[m] = r[IF m < n THEN m ELSE m + 1]
    <2>1. n \in 1 .. Len(r)
        OBVIOUS
    <2> HIDE DEF v, Old
    <2>2. v = MakeMru(r, n, e)
        BY DEF v
    <2>3. /\ v \in Seq(Entry) /\ Len(v) = Len(r) /\ v[Len(r)] = e
          /\ \A m \in 1 .. Len(r) - 1 : v[m] = r[IF m < n THEN m ELSE m + 1]
        BY <2>1, <2>2, MakeMruProperties
    <2> QED
        BY <2>3
<1> HIDE DEF v
<1>2. Len(q) \in Nat /\ Len(q) >= 1
    BY DEF GoodSet
<1>3. \A m \in 1 .. Len(q) : Old(m) \in 1 .. Len(q)
    BY <1>2
<1>4. \A m, k \in 1 .. Len(q) : Old(m) = Old(k) => m = k
    BY <1>2
<1>5. \A m \in 1 .. Len(q) :
          v[m].blk = q[Old(m)].blk /\ v[m].prefetched = q[Old(m)].prefetched
    BY <1>1, <1>2
<1> HIDE DEF Old
<1>6. GoodSet(c, s, w, v)
    <2>1. \A m \in 1 .. Len(q) : SetOf(c, v[m].blk) = s
        BY <1>3, <1>5 DEF GoodSet
    <2>2. ASSUME NEW m \in 1 .. Len(q), NEW k \in 1 .. Len(q), v[m].blk = v[k].blk,
                 ~v[m].prefetched, ~v[k].prefetched
          PROVE  m = k
        <3>1. Old(m) \in 1 .. Len(q) /\ Old(k) \in 1 .. Len(q)
            BY <1>3
        <3>2. /\ q[Old(m)].blk = q[Old(k)].blk
              /\ ~q[Old(m)].prefetched /\ ~q[Old(k)].prefetched
            BY <1>5, <2>2
        <3>3. Old(m) = Old(k)
            BY <3>1, <3>2 DEF GoodSet
        <3> QED
            BY <1>4, <3>3
    <2> QED
        BY <1>1, <2>1, <2>2 DEF GoodSet
<1>7. ASSUME NEW tr, AllKnown(tr, q)
      PROVE  AllKnown(tr, v)
    BY <1>1, <1>3, <1>5, <1>7 DEF AllKnown
<1> QED
    BY <1>1, <1>6, <1>7 DEF v

LEMMA NewEntryType ==
    ASSUME NEW b \in Blocks, NEW wr \in BOOLEAN
    PROVE  /\ NewEntry(b, wr) \in Entry
           /\ NewEntry(b, wr).blk = b
           /\ ~NewEntry(b, wr).prefetched /\ ~NewEntry(b, wr).pred_dead
           /\ PrefetchedEntry(b) \in Entry
           /\ PrefetchedEntry(b).blk = b /\ PrefetchedEntry(b).prefetched
    BY DEF NewEntry, PrefetchedEntry, Entry

(* A miss: the block comes in at the end. *)
MissSetOf(c, q, b, wr) ==
    IF Full(c, q) THEN Append(Tail(q), NewEntry(b, wr)) ELSE Append(q, NewEntry(b, wr))

LEMMA MissSet ==
    ASSUME run \in Runs, NEW c \in Caches, NEW s, NEW w, NEW q, w = Ways(c),
           GoodSet(c, s, w, q),
           NEW b \in Blocks, SetOf(c, b) = s, ~Holds(q, b), NEW wr \in BOOLEAN
    PROVE  LET v == MissSetOf(c, q, b, wr)
           IN  /\ GoodSet(c, s, w, v)
               /\ Len(v) >= 1
               /\ v[Len(v)] = NewEntry(b, wr)
               /\ \A tr : AllKnown(tr, q) /\ tr[b].known => AllKnown(tr, v)
<1> DEFINE e == NewEntry(b, wr)
<1>1. e \in Entry /\ e.blk = b /\ ~e.prefetched
    BY NewEntryType
<1>2. q \in Seq(Entry) /\ Len(q) \in Nat
    BY DEF GoodSet
<1>3. \A n \in 1 .. Len(q) : q[n].blk # b
    BY <1>2 DEF Holds
<1>4. Ways(c) \in Nat \ {0}
    BY WaysPositive
<1> HIDE DEF e
<1>5. CASE Full(c, q)
    <2>1. q # <<>> /\ Len(q) = Ways(c)
        BY <1>2, <1>4, <1>5 DEF Full, GoodSet
    <2>2. /\ Tail(q) \in Seq(Entry) /\ Len(Tail(q)) = Len(q) - 1
          /\ \A i \in 1 .. Len(Tail(q)) : Tail(q)[i] = q[i + 1]
        BY <1>2, <2>1, HeadTailProperties
    <2> DEFINE v == Append(Tail(q), e)
    <2>3. /\ v \in Seq(Entry) /\ Len(v) = Len(q)
          /\ \A i \in 1 .. Len(q) - 1 : v[i] = q[i + 1]
          /\ v[Len(q)] = e
        BY <1>1, <1>2, <2>2, AppendProperties
    <2> HIDE DEF v
    <2>4. GoodSet(c, s, w, v)
        <3>1. \A n \in 1 .. Len(q) - 1 : n + 1 \in 1 .. Len(q)
            BY <1>2
        <3>2. \A n \in 1 .. Len(v) : SetOf(c, v[n].blk) = s
            <4> SUFFICES ASSUME NEW n \in 1 .. Len(v) PROVE SetOf(c, v[n].blk) = s
                OBVIOUS
            <4>1. CASE n = Len(q)
                BY <1>1, <2>3, <4>1
            <4>2. CASE n # Len(q)
                <5>1. n \in 1 .. Len(q) - 1
                    BY <1>2, <2>3, <4>2
                <5> QED
                    BY <2>3, <3>1, <5>1 DEF GoodSet
            <4> QED
                BY <4>1, <4>2
        <3>3. ASSUME NEW m \in 1 .. Len(v), NEW n \in 1 .. Len(v), v[m].blk = v[n].blk,
                     ~v[m].prefetched, ~v[n].prefetched
              PROVE  m = n
            <4>1. \A i \in 1 .. Len(q) - 1 : v[i].blk # b
                BY <1>3, <2>3, <3>1
            <4>2. v[Len(q)].blk = b
                BY <1>1, <2>3
            <4>3. CASE m = Len(q) \/ n = Len(q)
                BY <1>2, <2>3, <3>3, <4>1, <4>2, <4>3
            <4>4. CASE m # Len(q) /\ n # Len(q)
                <5>1. m \in 1 .. Len(q) - 1 /\ n \in 1 .. Len(q) - 1
                    BY <1>2, <2>3, <4>4
                <5>2. m + 1 = n + 1
                    BY <2>3, <3>1, <3>3, <5>1 DEF GoodSet
                <5> QED
                    BY <5>1, <5>2
            <4> QED
                BY <4>3, <4>4
        <3> QED
            BY <2>3, <3>2, <3>3 DEF GoodSet
    <2>5. \A tr : AllKnown(tr, q) /\ tr[b].known => AllKnown(tr, v)
        BY <1>1, <1>2, <2>3 DEF AllKnown
    <2>6. v = MissSetOf(c, q, b, wr)
        BY <1>5 DEF MissSetOf, v, e
    <2> QED
        BY <1>2, <1>4, <2>1, <2>3, <2>4, <2>5, <2>6 DEF e
<1>6. CASE ~Full(c, q)
    <2> DEFINE v == Append(q, e)
    <2>1. /\ v \in Seq(Entry) /\ Len(v) = Len(q) + 1
          /\ \A i \in 1 .. Len(q) : v[i] = q[i]
          /\ v[Len(q) + 1] = e
        BY <1>1, <1>2, AppendProperties
    <2>2. Len(q) + 1 <= Ways(c)
        BY <1>2, <1>4, <1>6 DEF Full, GoodSet
    <2> HIDE DEF v
    <2>3. GoodSet(c, s, w, v)
        BY <1>1, <1>2, <1>3, <2>1, <2>2 DEF GoodSet
    <2>4. \A tr : AllKnown(tr, q) /\ tr[b].known => AllKnown(tr, v)
        BY <1>1, <1>2, <2>1 DEF AllKnown
    <2>5. v = MissSetOf(c, q, b, wr)
        BY <1>6 DEF MissSetOf, v, e
    <2> QED
        BY <1>2, <2>1, <2>3, <2>4, <2>5 DEF e
<1> QED
    BY <1>5, <1>6

(* A prefetch takes over the place of a dead block. *)
LEMMA PrefetchSet ==
    ASSUME NEW c \in Caches, NEW s, NEW w, NEW q, GoodSet(c, s, w, q), NEW n \in 1 .. Len(q),
           NEW b \in Blocks, SetOf(c, b) = s
    PROVE  LET v == [q EXCEPT ![n] = PrefetchedEntry(b)]
           IN  /\ GoodSet(c, s, w, v)
               /\ Len(v) = Len(q)
               /\ \A m \in 1 .. Len(q) : m # n => v[m] = q[m]
               /\ \A tr : AllKnown(tr, q) /\ tr[b].known => AllKnown(tr, v)
<1> DEFINE e == PrefetchedEntry(b)
           v == [q EXCEPT ![n] = e]
<1>1. e \in Entry /\ e.blk = b /\ e.prefetched
    BY NewEntryType
<1>2. q \in Seq(Entry) /\ Len(q) \in Nat
    BY DEF GoodSet
<1> HIDE DEF e
<1>3. /\ v \in Seq(Entry) /\ Len(v) = Len(q)
      /\ \A m \in 1 .. Len(q) : v[m] = IF m = n THEN e ELSE q[m]
    BY <1>1, <1>2, ExceptSeq
<1> HIDE DEF v
<1>4. GoodSet(c, s, w, v)
    BY <1>1, <1>2, <1>3 DEF GoodSet
<1>5. \A tr : AllKnown(tr, q) /\ tr[b].known => AllKnown(tr, v)
    BY <1>1, <1>2, <1>3 DEF AllKnown
<1> QED
    BY <1>3, <1>4, <1>5 DEF v, e

-----------------------------------------------------------------------------
(* The state passed along.                                                 *)

WaysOf(r, c) == IF c = "L2" THEN r.l2w ELSE r.l1w

SetsOK(r, x) ==
    /\ x = [c \in Caches |-> x[c]]
    /\ \A c \in Caches : x[c] \in [SetIdx(c) -> Seq(Entry)]
    /\ \A c \in Caches : \A s \in SetIdx(c) : GoodSet(c, s, WaysOf(r, c), x[c][s])

(* The misses of a set are of blocks of that set. *)
HistOK(x) ==
    /\ x = [c \in Caches |-> x[c]]
    /\ \A c \in Caches : x[c] \in [SetIdx(c) -> TagSR]
    /\ \A c \in Caches : \A s \in SetIdx(c) :
          /\ x[c][s].tag_0 # NoBlock => SetOf(c, x[c][s].tag_0) = s
          /\ x[c][s].tag_1 # NoBlock => SetOf(c, x[c][s].tag_1) = s

(* A follower of a pair of misses is of the set of the older one. *)
GoodList(c, s, list) ==
    /\ list \in Seq(PredEntry)
    /\ \A n \in 1 .. Len(list) : SetOf(c, list[n].tgt) = s

TcpOK(x) ==
    /\ x = [lvl \in 1..2 |-> x[lvl]]
    /\ \A c \in Caches : x[Level(c)] \in [TcpIndices(Level(c)) -> Seq(PredEntry)]
    /\ \A c \in Caches : \A i \in TcpIndices(Level(c)) : GoodList(c, i[1], x[Level(c)][i])

WF(r, h) ==
    /\ h = [sets |-> h.sets, hist |-> h.hist, cnt |-> h.cnt,
            tr |-> h.tr, ref |-> h.ref, tcp |-> h.tcp]
    /\ SetsOK(r, h.sets)
    /\ HistOK(h.hist)
    /\ h.cnt \in [Caches -> [Counts -> Nat]]
    /\ h.tr \in [Blocks -> TraceEntry]
    /\ h.ref \in [Blocks -> RefEntry]
    /\ TcpOK(h.tcp)

KnownGrows(h, g) == \A b \in Blocks : h.tr[b].known => g.tr[b].known

Known(h) == \A c \in L1s : \A s \in SetIdx(c) : AllKnown(h.tr, h.sets[c][s])

Elsewhere(h, g, c, s) ==
    \A d \in Caches : \A t \in SetIdx(d) : d # c \/ t # s => g.sets[d][t] = h.sets[d][t]

(* What every part of an access keeps, that works on set s of cache c. *)
Step(r, h, g, c, s) ==
    /\ WF(r, g)
    /\ Elsewhere(h, g, c, s)
    /\ KnownGrows(h, g)
    /\ Known(h) => Known(g)

LEMMA AllKnownGrows ==
    ASSUME NEW h, NEW g, NEW q \in Seq(Entry), KnownGrows(h, g), AllKnown(h.tr, q)
    PROVE  AllKnown(g.tr, q)
<1>1. \A n \in 1 .. Len(q) : q[n] \in Entry
    BY ElementOfSeq
<1>2. \A n \in 1 .. Len(q) : q[n].blk \in Blocks
    BY <1>1 DEF Entry
<1> QED
    BY <1>2 DEF KnownGrows, AllKnown

LEMMA StepOfSame ==
    ASSUME NEW r, NEW h, NEW g, WF(r, h), WF(r, g), g.sets = h.sets, KnownGrows(h, g),
           NEW c, NEW s
    PROVE  Step(r, h, g, c, s)
<1>1. ASSUME Known(h), NEW d \in L1s, NEW t \in SetIdx(d)
      PROVE  AllKnown(g.tr, g.sets[d][t])
    <2>1. h.sets[d][t] \in Seq(Entry)
        BY DEF WF, SetsOK, Caches
    <2>2. AllKnown(h.tr, h.sets[d][t])
        BY <1>1 DEF Known
    <2> QED
        BY <2>1, <2>2, AllKnownGrows
<1> QED
    BY <1>1 DEF Step, Elsewhere, Known

LEMMA StepTrans ==
    ASSUME NEW r, NEW h, NEW g, NEW k, NEW c, NEW s,
           Step(r, h, g, c, s), Step(r, g, k, c, s)
    PROVE  Step(r, h, k, c, s)
<1>1. Elsewhere(h, k, c, s)
    BY DEF Step, Elsewhere
<1>2. KnownGrows(h, k)
    BY DEF Step, KnownGrows
<1> QED
    BY <1>1, <1>2 DEF Step

LEMMA StepOfSet ==
    ASSUME NEW r, NEW h, NEW g, WF(r, h), WF(r, g), NEW c, NEW s,
           Elsewhere(h, g, c, s), KnownGrows(h, g),
           c \in L1s /\ AllKnown(g.tr, h.sets[c][s]) => AllKnown(g.tr, g.sets[c][s])
    PROVE  Step(r, h, g, c, s)
<1>1. ASSUME Known(h), NEW d \in L1s, NEW t \in SetIdx(d)
      PROVE  AllKnown(g.tr, g.sets[d][t])
    <2>1. h.sets[d][t] \in Seq(Entry)
        BY DEF WF, SetsOK, Caches
    <2>2. AllKnown(h.tr, h.sets[d][t])
        BY <1>1 DEF Known
    <2>3. AllKnown(g.tr, h.sets[d][t])
        BY <2>1, <2>2, AllKnownGrows
    <2>4. CASE d = c /\ t = s
        BY <2>3, <2>4
    <2>5. CASE d # c \/ t # s
        <3>1. g.sets[d][t] = h.sets[d][t]
            BY <2>5 DEF Elsewhere, Caches
        <3> QED
            BY <2>3, <3>1
    <2> QED
        BY <2>4, <2>5
<1> QED
    BY <1>1 DEF Step, Known

-----------------------------------------------------------------------------
(* Updates of one part of the state.                                       *)

LEMMA PutSets ==
    ASSUME NEW r, NEW h, WF(r, h), NEW c \in Caches, NEW s \in SetIdx(c), NEW v,
           GoodSet(c, s, WaysOf(r, c), v)
    PROVE  LET g == [h EXCEPT !.sets[c][s] = v]
           IN  /\ WF(r, g) /\ Elsewhere(h, g, c, s) /\ g.sets[c][s] = v
               /\ g.hist = h.hist /\ g.cnt = h.cnt /\ g.tr = h.tr
               /\ g.ref = h.ref /\ g.tcp = h.tcp
<1> DEFINE x == [h.sets EXCEPT ![c][s] = v]
           g == [h EXCEPT !.sets[c][s] = v]
<1>1. g = [sets |-> x, hist |-> h.hist, cnt |-> h.cnt,
           tr |-> h.tr, ref |-> h.ref, tcp |-> h.tcp]
    BY DEF WF
<1>2. /\ x = [d \in Caches |-> x[d]]
      /\ \A d \in Caches : d # c => x[d] = h.sets[d]
      /\ x[c] = [h.sets[c] EXCEPT ![s] = v]
    BY DEF WF, SetsOK
<1> HIDE DEF x, g
<1>3. v \in Seq(Entry)
    BY DEF GoodSet
<1>4. h.sets[c] \in [SetIdx(c) -> Seq(Entry)]
    BY DEF WF, SetsOK
<1>5. /\ x[c] \in [SetIdx(c) -> Seq(Entry)]
      /\ x[c][s] = v
      /\ \A t \in SetIdx(c) : t # s => x[c][t] = h.sets[c][t]
    BY <1>2, <1>3, <1>4
<1>6. SetsOK(r, x)
    <2>1. \A d \in Caches : x[d] \in [SetIdx(d) -> Seq(Entry)]
        BY <1>2, <1>5 DEF WF, SetsOK
    <2>2. ASSUME NEW d \in Caches, NEW t \in SetIdx(d)
          PROVE  GoodSet(d, t, WaysOf(r, d), x[d][t])
        <3>1. GoodSet(d, t, WaysOf(r, d), h.sets[d][t])
            BY DEF WF, SetsOK
        <3>2. CASE d = c /\ t = s
            BY <1>5, <3>2
        <3>3. CASE d = c /\ t # s
            BY <1>5, <3>1, <3>3
        <3>4. CASE d # c
            BY <1>2, <3>1, <3>4
        <3> QED
            BY <3>2, <3>3, <3>4
    <2> QED
        BY <1>2, <2>1, <2>2 DEF SetsOK
<1>7. Elsewhere(h, g, c, s)
    BY <1>1, <1>2, <1>5 DEF Elsewhere
<1>8. WF(r, g)
    BY <1>1, <1>6 DEF WF
<1> QED
    BY <1>1, <1>5, <1>7, <1>8 DEF g

LEMMA PutTr ==
    ASSUME NEW r, NEW h, WF(r, h), NEW x \in [Blocks -> TraceEntry]
    PROVE  LET g == [h EXCEPT !.tr = x]
           IN  /\ WF(r, g) /\ g.tr = x
               /\ g.sets = h.sets /\ g.hist = h.hist /\ g.cnt = h.cnt
               /\ g.ref = h.ref /\ g.tcp = h.tcp
    BY DEF WF

LEMMA PutRef ==
    ASSUME NEW r, NEW h, WF(r, h), NEW x \in [Blocks -> RefEntry]
    PROVE  LET g == [h EXCEPT !.ref = x]
           IN  /\ WF(r, g)
               /\ g.sets = h.sets /\ g.hist = h.hist /\ g.cnt = h.cnt
               /\ g.tr = h.tr /\ g.tcp = h.tcp
    BY DEF WF

LEMMA PutHist ==
    ASSUME NEW r, NEW h, WF(r, h), NEW c \in Caches, NEW s \in SetIdx(c), NEW v \in TagSR,
           v.tag_0 # NoBlock => SetOf(c, v.tag_0) = s,
           v.tag_1 # NoBlock => SetOf(c, v.tag_1) = s
    PROVE  LET g == [h EXCEPT !.hist[c][s] = v]
           IN  /\ WF(r, g)
               /\ g.sets = h.sets /\ g.cnt = h.cnt /\ g.tr = h.tr
               /\ g.ref = h.ref /\ g.tcp = h.tcp
<1> DEFINE x == [h.hist EXCEPT ![c][s] = v]
           g == [h EXCEPT !.hist[c][s] = v]
<1>1. g = [sets |-> h.sets, hist |-> x, cnt |-> h.cnt,
           tr |-> h.tr, ref |-> h.ref, tcp |-> h.tcp]
    BY DEF WF
<1>2. /\ x = [d \in Caches |-> x[d]]
      /\ \A d \in Caches : d # c => x[d] = h.hist[d]
      /\ x[c] = [h.hist[c] EXCEPT ![s] = v]
    BY DEF WF, HistOK
<1> HIDE DEF x, g
<1>3. h.hist[c] \in [SetIdx(c) -> TagSR]
    BY DEF WF, HistOK
<1>4. /\ x[c] \in [SetIdx(c) -> TagSR]
      /\ x[c][s] = v
      /\ \A t \in SetIdx(c) : t # s => x[c][t] = h.hist[c][t]
    BY <1>2, <1>3
<1>5. \A d \in Caches : x[d] \in [SetIdx(d) -> TagSR]
    BY <1>2, <1>4 DEF WF, HistOK
<1>6. ASSUME NEW d \in Caches, NEW t \in SetIdx(d)
      PROVE  /\ x[d][t].tag_0 # NoBlock => SetOf(d, x[d][t].tag_0) = t
             /\ x[d][t].tag_1 # NoBlock => SetOf(d, x[d][t].tag_1) = t
    <2>1. CASE d = c /\ t = s
        BY <1>4, <2>1
    <2>2. CASE d = c /\ t # s
        BY <1>4, <2>2 DEF WF, HistOK
    <2>3. CASE d # c
        BY <1>2, <2>3 DEF WF, HistOK
    <2> QED
        BY <2>1, <2>2, <2>3
<1>7. HistOK(x)
    BY <1>2, <1>5, <1>6 DEF HistOK
<1> QED
    BY <1>1, <1>7 DEF WF, g

LEMMA BumpState ==
    ASSUME NEW r, NEW h, WF(r, h), NEW c \in Caches, NEW k \in Counts, NEW n \in Nat
    PROVE  LET g == Bump(h, c, k, n)
           IN  /\ WF(r, g)
               /\ g.sets = h.sets /\ g.hist = h.hist /\ g.tr = h.tr
               /\ g.ref = h.ref /\ g.tcp = h.tcp
<1> DEFINE x == [h.cnt EXCEPT ![c][k] = h.cnt[c][k] + n]
           y == h.cnt[c][k] + n
           g == [h EXCEPT !.cnt[c][k] = y]
<1>0. Bump(h, c, k, n) = g /\ x = [h.cnt EXCEPT ![c][k] = y]
    BY DEF Bump
<1> HIDE DEF x, y
<1>1. g = [sets |-> h.sets, hist |-> h.hist, cnt |-> [h.cnt EXCEPT ![c][k] = y],
           tr |-> h.tr, ref |-> h.ref, tcp |-> h.tcp]
    <2>1. h = [sets |-> h.sets, hist |-> h.hist, cnt |-> h.cnt,
               tr |-> h.tr, ref |-> h.ref, tcp |-> h.tcp]
        BY DEF WF
    <2> QED
        BY <2>1
<1>2. h.cnt \in [Caches -> [Counts -> Nat]]
    BY DEF WF
<1>3. y \in Nat
    BY <1>2 DEF y
<1>4. x \in [Caches -> [Counts -> Nat]]
    BY <1>0, <1>2, <1>3
<1> HIDE DEF g
<1> QED
    BY <1>0, <1>1, <1>4 DEF WF

-----------------------------------------------------------------------------
(* The history tables.                                                     *)

LEMMA Geometry ==
    ASSUME NEW c \in Caches
    PROVE  /\ Level(c) \in 1..2
           /\ TcpIndices(Level(c)) = SetIdx(c) \X Blocks
           /\ \A d \in Caches : Level(d) = Level(c) => NumSets[d] = NumSets[c]
    BY CacheAssumption DEF Caches, L1s, Level, TcpIndices, SetIdx

LEMMA UpdateTraceState ==
    ASSUME NEW r, NEW h, WF(r, h), NEW b \in Blocks, NEW pc \in Nat
    PROVE  LET g == [h EXCEPT !.tr = UpdateTrace(h.tr, b, pc)]
           IN  /\ WF(r, g) /\ KnownGrows(h, g)
               /\ g.sets = h.sets /\ g.hist = h.hist /\ g.cnt = h.cnt
               /\ g.ref = h.ref /\ g.tcp = h.tcp
<1> DEFINE x == UpdateTrace(h.tr, b, pc)
<1>1. h.tr \in [Blocks -> TraceEntry] /\ h.tr[b] \in TraceEntry
    BY DEF WF
<1>2. (h.tr[b].current_trace + pc) % TraceMod \in 0 .. TraceMod - 1
    BY <1>1, CacheAssumption DEF TraceEntry
<1>3. /\ x \in [Blocks -> TraceEntry]
      /\ \A a \in Blocks : x[a].known = h.tr[a].known
    BY <1>1, <1>2 DEF UpdateTrace, TraceEntry
<1> HIDE DEF x
<1> QED
    BY <1>3, PutTr DEF KnownGrows, x

LEMMA InsertState ==
    ASSUME NEW r, NEW h, WF(r, h), NEW c \in Caches, NEW b \in Blocks
    PROVE  LET g == InsertOnMiss(h, c, b)
           IN  /\ WF(r, g) /\ KnownGrows(h, g)
               /\ c \in L1s => g.tr[b].known
               /\ g.sets = h.sets /\ g.hist = h.hist /\ g.cnt = h.cnt /\ g.tcp = h.tcp
<1>1. CASE c = "L2"
    <2> DEFINE x == [h.ref EXCEPT ![b].known = TRUE]
    <2>1. h.ref \in [Blocks -> RefEntry]
        BY DEF WF
    <2>2. x \in [Blocks -> RefEntry]
        BY <2>1 DEF RefEntry
    <2>3. InsertOnMiss(h, c, b) = [h EXCEPT !.ref = x]
        BY <1>1 DEF InsertOnMiss
    <2> HIDE DEF x
    <2> DEFINE g == [h EXCEPT !.ref = x]
    <2>4. /\ WF(r, g) /\ g.tr = h.tr
          /\ g.sets = h.sets /\ g.hist = h.hist /\ g.cnt = h.cnt /\ g.tcp = h.tcp
        BY <2>2, PutRef
    <2> HIDE DEF g
    <2>5. c \notin L1s
        BY <1>1 DEF L1s
    <2>6. KnownGrows(h, g)
        BY <2>4 DEF KnownGrows
    <2>7. InsertOnMiss(h, c, b) = g
        BY <2>3 DEF g
    <2> QED
        BY <2>4, <2>5, <2>6, <2>7
<1>2. CASE c # "L2"
    <2> DEFINE e == [h.tr[b] EXCEPT !.known = TRUE, !.current_trace = 0]
               x == [h.tr EXCEPT ![b] = e]
    <2>1. h.tr \in [Blocks -> TraceEntry] /\ h.tr[b] \in TraceEntry
        BY DEF WF
    <2>2. 0 \in 0 .. TraceMod - 1
        BY CacheAssumption
    <2>3. e \in TraceEntry /\ e.known
        BY <2>1, <2>2 DEF TraceEntry
    <2>4. InsertOnMiss(h, c, b) = [h EXCEPT !.tr = x]
        <3>1. InsertOnMiss(h, c, b) =
                  [h EXCEPT !.tr[b].known = TRUE, !.tr[b].current_trace = 0]
            BY <1>2 DEF InsertOnMiss
        <3>2. x = [[h.tr EXCEPT ![b].known = TRUE] EXCEPT ![b].current_trace = 0]
            BY <2>1 DEF TraceEntry
        <3> HIDE DEF x
        <3> QED
            BY <3>1, <3>2 DEF WF
    <2> HIDE DEF e
    <2>5. /\ x \in [Blocks -> TraceEntry]
          /\ x[b].known
          /\ \A a \in Blocks : a # b => x[a] = h.tr[a]
        BY <2>1, <2>3
    <2> HIDE DEF x
    <2> QED
        BY <2>4, <2>5, PutTr DEF KnownGrows
<1> QED
    BY <1>1, <1>2

LEMMA EvictedRefType ==
    ASSUME NEW x \in RefEntry, NEW n \in Nat
    PROVE  EvictedRef(x, n) \in RefEntry
<1>1. /\ x = [known |-> x.known, sat_cnt |-> x.sat_cnt,
              dead_cnt |-> x.dead_cnt, filter_cnt |-> x.filter_cnt]
      /\ x.known \in BOOLEAN /\ x.sat_cnt \in 0..1
      /\ x.dead_cnt \in Nat /\ x.filter_cnt \in Nat
    BY DEF RefEntry
<1>2. CASE x.dead_cnt < n
    <2>1. EvictedRef(x, n) = [x EXCEPT !.sat_cnt = 0, !.dead_cnt = n]
        BY <1>1, <1>2 DEF EvictedRef
    <2>2. EvictedRef(x, n) = [known |-> x.known, sat_cnt |-> 0, dead_cnt |-> n,
                              filter_cnt |-> x.filter_cnt]
        BY <1>1, <2>1
    <2> QED
        BY <1>1, <2>2 DEF RefEntry
<1>3. CASE x.dead_cnt = n
    <2>1. EvictedRef(x, n) = [x EXCEPT !.sat_cnt = 1]
        BY <1>1, <1>3 DEF EvictedRef
    <2> QED
        BY <1>1, <2>1 DEF RefEntry
<1>4. CASE x.dead_cnt > n /\ x.filter_cnt = n
    <2>1. EvictedRef(x, n) = [x EXCEPT !.sat_cnt = 1, !.dead_cnt = n]
        BY <1>1, <1>4 DEF EvictedRef
    <2>2. EvictedRef(x, n) = [known |-> x.known, sat_cnt |-> 1, dead_cnt |-> n,
                              filter_cnt |-> x.filter_cnt]
        BY <1>1, <2>1
    <2> QED
        BY <1>1, <2>2 DEF RefEntry
<1>5. CASE x.dead_cnt > n /\ x.filter_cnt # n
    <2>1. EvictedRef(x, n) = [x EXCEPT !.sat_cnt = 0, !.filter_cnt = n]
        BY <1>1, <1>5 DEF EvictedRef
    <2>2. EvictedRef(x, n) = [known |-> x.known, sat_cnt |-> 0, dead_cnt |-> x.dead_cnt,
                              filter_cnt |-> n]
        BY <1>1, <2>1
    <2> QED
        BY <1>1, <2>2 DEF RefEntry
<1> QED
    BY <1>1, <1>2, <1>3, <1>4, <1>5

LEMMA EvictState ==
    ASSUME NEW r, NEW h, WF(r, h), NEW c \in Caches, NEW e \in Entry
    PROVE  LET g == UpdateOnEviction(h, c, e)
           IN  /\ WF(r, g) /\ KnownGrows(h, g)
               /\ g.sets = h.sets /\ g.hist = h.hist /\ g.cnt = h.cnt /\ g.tcp = h.tcp
<1> DEFINE b == e.blk
<1>0. b \in Blocks /\ e.refCount \in Nat
    BY DEF Entry
<1>1. CASE c = "L2" /\ h.ref[b].known
    <2> DEFINE v == EvictedRef(h.ref[b], e.refCount)
               x == [h.ref EXCEPT ![b] = v]
    <2>1. h.ref \in [Blocks -> RefEntry] /\ h.ref[b] \in RefEntry
        BY <1>0 DEF WF
    <2>2. v \in RefEntry
        BY <1>0, <2>1, EvictedRefType
    <2> HIDE DEF v
    <2>3. x \in [Blocks -> RefEntry]
        BY <1>0, <2>1, <2>2
    <2>4. UpdateOnEviction(h, c, e) = [h EXCEPT !.ref = x]
        BY <1>1 DEF UpdateOnEviction, v
    <2> HIDE DEF x
    <2> QED
        BY <2>3, <2>4, PutRef DEF KnownGrows
<1>2. CASE c # "L2" /\ h.tr[b].known
    <2> DEFINE v == EvictedTrace(h.tr[b])
               x == [h.tr EXCEPT ![b] = v]
    <2>1. h.tr \in [Blocks -> TraceEntry] /\ h.tr[b] \in TraceEntry
        BY <1>0 DEF WF
    <2>2. v \in TraceEntry /\ v.known
        <3>1. 0 \in 0 .. TraceMod - 1
            BY CacheAssumption
        <3> QED
            BY <1>2, <2>1, <3>1 DEF EvictedTrace, TraceEntry
    <2> HIDE DEF v
    <2>3. /\ x \in [Blocks -> TraceEntry]
          /\ \A a \in Blocks : h.tr[a].known => x[a].known
        BY <1>0, <2>1, <2>2
    <2>4. UpdateOnEviction(h, c, e) = [h EXCEPT !.tr = x]
        BY <1>2 DEF UpdateOnEviction, v
    <2> HIDE DEF x
    <2> QED
        BY <2>3, <2>4, PutTr DEF KnownGrows
<1>3. CASE ~(c = "L2" /\ h.ref[b].known) /\ ~(c # "L2" /\ h.tr[b].known)
    <2>1. UpdateOnEviction(h, c, e) = h
        BY <1>3 DEF UpdateOnEviction
    <2> QED
        BY <2>1 DEF KnownGrows
<1> QED
    BY <1>1, <1>2, <1>3

-----------------------------------------------------------------------------
(* The correlation table.                                                  *)

LEMMA FollowedList ==
    ASSUME NEW c \in Caches, NEW s, NEW list, GoodList(c, s, list),
           NEW b \in Blocks, SetOf(c, b) = s
    PROVE  GoodList(c, s, Followed(list, b))
<1>1. list \in Seq(PredEntry) /\ Len(list) \in Nat /\ DOMAIN list = 1 .. Len(list)
    BY DEF GoodList
<1>2. CASE \E n \in DOMAIN list : list[n].tgt = b
    <2> DEFINE E(n) == IF list[n].tgt = b THEN [list[n] EXCEPT !.counter = @ + 1] ELSE list[n]
               v == [n \in 1 .. Len(list) |-> E(n)]
    <2>1. ASSUME NEW n \in 1 .. Len(list)
          PROVE  E(n) \in PredEntry /\ E(n).tgt = list[n].tgt
        <3>1. list[n] \in PredEntry
            BY <1>1, ElementOfSeq
        <3> QED
            BY <3>1 DEF PredEntry
    <2> HIDE DEF E
    <2>2. v \in [1 .. Len(list) -> PredEntry]
        BY <2>1
    <2>3. v \in Seq(PredEntry) /\ Len(v) = Len(list)
        <3>1. v \in Seq(PredEntry)
            BY <1>1, <2>2, SeqDef
        <3>2. DOMAIN v = 1 .. Len(v) /\ Len(v) \in Nat
            BY <3>1, LenProperties
        <3>3. 1 .. Len(v) = 1 .. Len(list)
            BY <2>2, <3>2
        <3> QED
            BY <1>1, <3>1, <3>2, <3>3
    <2>4. \A n \in 1 .. Len(list) : v[n].tgt = list[n].tgt
        BY <2>1
    <2>5. Followed(list, b) = v
        BY <1>1, <1>2 DEF Followed, E
    <2> HIDE DEF v
    <2> QED
        BY <2>3, <2>4, <2>5 DEF GoodList
<1>3. CASE ~ \E n \in DOMAIN list : list[n].tgt = b
    <2> DEFINE e == [tgt |-> b, counter |-> 1]
               v == Append(list, e)
    <2>1. e \in PredEntry /\ e.tgt = b
        BY DEF PredEntry
    <2> HIDE DEF e
    <2>2. /\ v \in Seq(PredEntry) /\ Len(v) = Len(list) + 1
          /\ \A n \in 1 .. Len(list) : v[n] = list[n]
          /\ v[Len(list) + 1] = e
        BY <1>1, <2>1, AppendProperties
    <2>3. Followed(list, b) = v
        BY <1>3 DEF Followed, e
    <2> HIDE DEF v
    <2> QED
        BY <1>1, <2>1, <2>2, <2>3 DEF GoodList
<1> QED
    BY <1>2, <1>3

(* The last two misses of a set are an index of its correlation table.     *)
LEMMA IndexOfMisses ==
    ASSUME NEW r, NEW h, WF(r, h), NEW c \in Caches, NEW s \in SetIdx(c),
           BothValid(h.hist[c][s])
    PROVE  /\ TcpIdx(c, h.hist[c][s]) \in TcpIndices(Level(c))
           /\ TcpIdx(c, h.hist[c][s])[1] = s
<1>1. h.hist[c][s] \in TagSR
    BY DEF WF, HistOK
<1>2. h.hist[c][s].tag_1 \in Blocks
    BY <1>1 DEF TagSR, BothValid
<1>3. SetOf(c, h.hist[c][s].tag_0) = s
    BY DEF WF, HistOK, BothValid
<1> QED
    BY <1>2, <1>3, Geometry DEF TcpIdx

LEMMA TcTblState ==
    ASSUME NEW r, NEW h, WF(r, h), NEW c \in Caches, NEW b \in Blocks
    PROVE  LET g == UpdateTcTbl(h, c, b)
           IN  /\ WF(r, g)
               /\ g.sets = h.sets /\ g.hist = h.hist /\ g.cnt = h.cnt
               /\ g.tr = h.tr /\ g.ref = h.ref
<1> DEFINE s == SetOf(c, b)
           sr == h.hist[c][s]
           i == TcpIdx(c, sr)
<1>1. CASE ~(run.p /\ BothValid(sr))
    BY <1>1 DEF UpdateTcTbl
<1>2. CASE run.p /\ BothValid(sr)
    <2>1. s \in SetIdx(c)
        BY SetOfRange
    <2>2. i \in TcpIndices(Level(c)) /\ i[1] = s
        BY <1>2, <2>1, IndexOfMisses
    <2> DEFINE list == h.tcp[Level(c)][i]
               v == Followed(list, b)
    <2>3. GoodList(c, s, list)
        BY <2>2 DEF WF, TcpOK
    <2>4. GoodList(c, s, v)
        BY <2>3, FollowedList
    <2> DEFINE x == [h.tcp EXCEPT ![Level(c)][i] = v]
    <2>5. UpdateTcTbl(h, c, b) = [sets |-> h.sets, hist |-> h.hist, cnt |-> h.cnt,
                                  tr |-> h.tr, ref |-> h.ref, tcp |-> x]
        <3>1. UpdateTcTbl(h, c, b) = [h EXCEPT !.tcp[Level(c)][i] = v]
            BY <1>2 DEF UpdateTcTbl
        <3>2. h = [sets |-> h.sets, hist |-> h.hist, cnt |-> h.cnt,
                   tr |-> h.tr, ref |-> h.ref, tcp |-> h.tcp]
            BY DEF WF
        <3> HIDE DEF v, i
        <3> QED
            BY <3>1, <3>2
    <2> HIDE DEF v, i, list
    <2>6. Level(c) \in 1..2
        BY Geometry
    <2>7. /\ x = [lvl \in 1..2 |-> x[lvl]]
          /\ \A lvl \in 1..2 : lvl # Level(c) => x[lvl] = h.tcp[lvl]
          /\ x[Level(c)] = [h.tcp[Level(c)] EXCEPT ![i] = v]
        BY <2>6 DEF WF, TcpOK
    <2> HIDE DEF x
    <2>8. h.tcp[Level(c)] \in [TcpIndices(Level(c)) -> Seq(PredEntry)]
        BY DEF WF, TcpOK
    <2>9. v \in Seq(PredEntry)
        BY <2>4 DEF GoodList
    <2>10. /\ x[Level(c)] \in [TcpIndices(Level(c)) -> Seq(PredEntry)]
           /\ x[Level(c)][i] = v
           /\ \A j \in TcpIndices(Level(c)) : j # i => x[Level(c)][j] = h.tcp[Level(c)][j]
        BY <2>2, <2>7, <2>8, <2>9
    <2>11. ASSUME NEW d \in Caches
           PROVE  /\ x[Level(d)] \in [TcpIndices(Level(d)) -> Seq(PredEntry)]
                  /\ \A j \in TcpIndices(Level(d)) : GoodList(d, j[1], x[Level(d)][j])
        <3>1. /\ h.tcp[Level(d)] \in [TcpIndices(Level(d)) -> Seq(PredEntry)]
              /\ \A j \in TcpIndices(Level(d)) : GoodList(d, j[1], h.tcp[Level(d)][j])
            BY DEF WF, TcpOK
        <3>2. Level(d) \in 1..2
            BY Geometry
        <3>3. CASE Level(d) # Level(c)
            BY <2>7, <3>1, <3>2, <3>3
        <3>4. CASE Level(d) = Level(c)
            <4>1. GoodList(d, s, v)
                <5>1. NumSets[d] = NumSets[c]
                    BY <3>4, Geometry
                <5> QED
                    BY <2>4, <5>1 DEF GoodList, SetOf
            <4> HIDE DEF s
            <4> QED
                BY <2>2, <2>10, <3>1, <3>4, <4>1
        <3> QED
            BY <3>3, <3>4
    <2>12. TcpOK(x)
        BY <2>7, <2>11 DEF TcpOK
    <2> QED
        BY <2>5, <2>12 DEF WF
<1> QED
    BY <1>1, <1>2

LEMMA CandidateBlocks ==
    ASSUME NEW r, NEW h, WF(r, h), NEW c \in Caches, NEW s \in SetIdx(c),
           NEW b \in Candidates(h, c, s)
    PROVE  b \in Blocks /\ SetOf(c, b) = s
<1> DEFINE sr == h.hist[c][s]
           i == TcpIdx(c, sr)
           list == h.tcp[Level(c)][i]
<1>1. BothValid(sr) /\ \E n \in DOMAIN list : b = list[n].tgt
    BY DEF Candidates
<1>2. i \in TcpIndices(Level(c)) /\ i[1] = s
    BY <1>1, IndexOfMisses
<1>3. GoodList(c, s, list)
    BY <1>2 DEF WF, TcpOK
<1>4. PICK n \in DOMAIN list : b = list[n].tgt
    BY <1>1
<1> HIDE DEF list
<1>5. n \in 1 .. Len(list) /\ list[n] \in PredEntry
    BY <1>3, <1>4, LenProperties, ElementOfSeq DEF GoodList
<1> QED
    BY <1>3, <1>4, <1>5 DEF GoodList, PredEntry

-----------------------------------------------------------------------------
(* The parts of an access.                                                 *)

(* Block b is the most recent one of its set in cache c. *)
Newest(g, c, b) ==
    LET v == g.sets[c][SetOf(c, b)] IN v # <<>> /\ v[Len(v)].blk = b

Alive(g, c, b) ==
    LET v == g.sets[c][SetOf(c, b)] IN ~v[Len(v)].pred_dead

LEMMA WFSet ==
    ASSUME NEW r, NEW h, WF(r, h), NEW c \in Caches, NEW b \in Blocks
    PROVE  /\ SetOf(c, b) \in SetIdx(c)
           /\ GoodSet(c, SetOf(c, b), WaysOf(r, c), h.sets[c][SetOf(c, b)])
           /\ h.sets[c][SetOf(c, b)] \in Seq(Entry)
    BY SetOfRange DEF WF, SetsOK, GoodSet

LEMMA HitEntryType ==
    ASSUME NEW r, NEW h, WF(r, h), NEW c \in Caches, NEW e \in Entry, NEW wr \in BOOLEAN
    PROVE  LET v == HitEntry(h, c, e, wr)
           IN  /\ v \in Entry /\ v.blk = e.blk /\ v.prefetched = e.prefetched
               /\ c \in L1s => ~v.pred_dead
<1> DEFINE cnt == IF c = "L2" THEN e.refCount + 1 ELSE 0
           dead == c = "L2" /\ ~e.pred_dead /\ PredictCnt(h.ref, e.blk, e.refCount + 1)
<1>1. /\ e = [blk |-> e.blk, dirty |-> e.dirty, pred_dead |-> e.pred_dead,
              prefetched |-> e.prefetched, referenced |-> e.referenced,
              refCount |-> e.refCount]
      /\ e.blk \in Blocks /\ e.prefetched \in BOOLEAN /\ e.refCount \in Nat
    BY DEF Entry
<1>2. cnt \in Nat
    BY <1>1
<1>3. dead \in BOOLEAN /\ (c \in L1s => ~dead)
    BY DEF L1s
<1>4. HitEntry(h, c, e, wr) = [e EXCEPT !.referenced = TRUE, !.dirty = wr,
                                        !.refCount = cnt, !.pred_dead = dead]
    BY DEF HitEntry
<1> HIDE DEF cnt, dead
<1>5. HitEntry(h, c, e, wr) = [blk |-> e.blk, dirty |-> wr, pred_dead |-> dead,
                               prefetched |-> e.prefetched, referenced |-> TRUE,
                               refCount |-> cnt]
    BY <1>1, <1>4
<1> QED
    BY <1>1, <1>2, <1>3, <1>5 DEF Entry

LEMMA MarkedSet ==
    ASSUME NEW q \in Seq(Entry), q # <<>>
    PROVE  LET v == [q EXCEPT ![Len(q)].pred_dead = TRUE]
           IN  /\ v \in Seq(Entry) /\ Len(v) = Len(q)
               /\ \A m \in 1 .. Len(q) :
                     v[m].blk = q[m].blk /\ v[m].prefetched = q[m].prefetched
<1> DEFINE e == [q[Len(q)] EXCEPT !.pred_dead = TRUE]
           v == [q EXCEPT ![Len(q)] = e]
<1>1. Len(q) \in 1 .. Len(q)
    BY EmptySeq, LenProperties
<1>2. q[Len(q)] \in Entry
    BY <1>1, ElementOfSeq
<1>3. e \in Entry /\ e.blk = q[Len(q)].blk /\ e.prefetched = q[Len(q)].prefetched
    BY <1>2 DEF Entry
<1>4. [q EXCEPT ![Len(q)].pred_dead = TRUE] = v
    OBVIOUS
<1> HIDE DEF e
<1>5. /\ v \in Seq(Entry) /\ Len(v) = Len(q)
      /\ \A m \in 1 .. Len(q) : v[m] = IF m = Len(q) THEN e ELSE q[m]
    BY <1>1, <1>3, ExceptSeq
<1> HIDE DEF v
<1> QED
    BY <1>3, <1>4, <1>5

LEMMA OneType == ASSUME NEW P PROVE One(P) \in Nat
    BY DEF One

LEMMA BumpStep ==
    ASSUME NEW r, NEW h, WF(r, h), NEW c \in Caches, NEW k \in Counts, NEW n \in Nat,
           NEW d, NEW s
    PROVE  LET g == Bump(h, c, k, n)
           IN  /\ Step(r, h, g, d, s)
               /\ g.sets = h.sets /\ g.hist = h.hist /\ g.tr = h.tr
<1> DEFINE g == Bump(h, c, k, n)
<1>1. /\ WF(r, g) /\ g.sets = h.sets /\ g.hist = h.hist /\ g.tr = h.tr
    BY BumpState
<1> HIDE DEF g
<1>2. KnownGrows(h, g)
    BY <1>1 DEF KnownGrows
<1>3. Step(r, h, g, d, s)
    BY <1>1, <1>2, StepOfSame
<1> QED
    BY <1>1, <1>3 DEF g

LEMMA HitState ==
    ASSUME NEW r, NEW h, WF(r, h), NEW c \in Caches, NEW b \in Blocks,
           NEW pc \in Nat, NEW wr \in BOOLEAN, Holds(h.sets[c][SetOf(c, b)], b)
    PROVE  LET g == Hit(h, c, b, pc, wr)
           IN  /\ Step(r, h, g, c, SetOf(c, b))
               /\ Newest(g, c, b)
               /\ c \in L1s => Alive(g, c, b)
<1> DEFINE s == SetOf(c, b)
           q == h.sets[c][s]
           n == PlaceOf(q, b)
           e == HitEntry(h, c, q[n], wr)
           traced == IF BurstEnds(h, c, q, b)
                     THEN [h EXCEPT !.tr = UpdateTrace(h.tr, b, pc)] ELSE h
           dead == PredictBurst(traced, c, q, b)
           marked == IF dead THEN [q EXCEPT ![Len(q)].pred_dead = TRUE] ELSE q
           v == MakeMru(marked, n, e)
           moved == [traced EXCEPT !.sets[c][s] = v]
           once == Bump(moved, c, "dbp", One(Predicted(dead, e)))
           g == Bump(once, c, "miss_pred", One(q[n].pred_dead))
<1>0. Hit(h, c, b, pc, wr) = g
    BY DEF Hit
<1>1. s \in SetIdx(c) /\ GoodSet(c, s, WaysOf(r, c), q) /\ q \in Seq(Entry)
    BY WFSet
<1> HIDE DEF s
<1>2. n \in 1 .. Len(q) /\ q[n].blk = b
    <2>1. Holds(q, b)
        BY DEF s
    <2> QED
        BY <1>1, <2>1, PlaceOfIsPlace
<1>3. q # <<>> /\ q[n] \in Entry /\ Len(q) \in Nat /\ Len(q) >= 1
    BY <1>1, <1>2, ElementOfSeq, LenProperties, EmptySeq
<1>4. /\ e \in Entry /\ e.blk = b /\ e.prefetched = q[n].prefetched
      /\ c \in L1s => ~e.pred_dead
    BY <1>2, <1>3, HitEntryType
<1>5. WF(r, traced) /\ KnownGrows(h, traced) /\ traced.sets = h.sets
    <2>1. CASE BurstEnds(h, c, q, b)
        BY <2>1, UpdateTraceState
    <2>2. CASE ~BurstEnds(h, c, q, b)
        BY <2>2 DEF KnownGrows
    <2> QED
        BY <2>1, <2>2
<1> HIDE DEF n, e, traced, dead
<1>6. /\ marked \in Seq(Entry) /\ Len(marked) = Len(q)
      /\ \A m \in 1 .. Len(q) :
            marked[m].blk = q[m].blk /\ marked[m].prefetched = q[m].prefetched
    <2>1. CASE dead
        BY <1>1, <1>3, <2>1, MarkedSet
    <2>2. CASE ~dead
        BY <1>1, <2>2
    <2> QED
        BY <2>1, <2>2
<1> HIDE DEF marked, q
<1>7. /\ GoodSet(c, s, WaysOf(r, c), v) /\ Len(v) = Len(q) /\ v[Len(q)] = e
      /\ \A tr : AllKnown(tr, q) => AllKnown(tr, v)
    BY <1>1, <1>2, <1>4, <1>6, HitSet
<1> HIDE DEF v
<1>8. /\ WF(r, moved) /\ Elsewhere(traced, moved, c, s) /\ moved.sets[c][s] = v
      /\ moved.tr = traced.tr
    BY <1>1, <1>5, <1>7, PutSets
<1> HIDE DEF moved
<1>9. Step(r, h, moved, c, s)
    <2>1. Elsewhere(h, moved, c, s) /\ KnownGrows(h, moved)
        BY <1>5, <1>8 DEF Elsewhere, KnownGrows
    <2>2. AllKnown(moved.tr, h.sets[c][s]) => AllKnown(moved.tr, moved.sets[c][s])
        BY <1>7, <1>8 DEF q
    <2> QED
        BY <1>8, <2>1, <2>2, StepOfSet
<1>10. Step(r, moved, once, c, s) /\ once.sets = moved.sets
    <2>1. "dbp" \in Counts /\ One(Predicted(dead, e)) \in Nat
        BY OneType DEF Counts
    <2> QED
        BY <1>8, <2>1, BumpStep
<1> HIDE DEF once
<1>11. Step(r, once, g, c, s) /\ g.sets = once.sets
    <2>1. "miss_pred" \in Counts /\ One(q[n].pred_dead) \in Nat
        BY OneType DEF Counts
    <2>2. WF(r, once)
        BY <1>10 DEF Step
    <2> QED
        BY <2>1, <2>2, BumpStep
<1> HIDE DEF g
<1>12. Step(r, h, g, c, s)
    BY <1>9, <1>10, <1>11, StepTrans
<1>13. g.sets[c][s] = v
    BY <1>8, <1>10, <1>11
<1>14. v # <<>>
    BY <1>3, <1>7, EmptySeq
<1> QED
    BY <1>0, <1>3, <1>4, <1>7, <1>12, <1>13, <1>14 DEF Newest, Alive, s

LEMMA FetchState ==
    ASSUME run \in Runs, NEW h, WF(run, h), NEW c \in Caches, NEW b \in Blocks,
           NEW wr \in BOOLEAN, ~Holds(h.sets[c][SetOf(c, b)], b)
    PROVE  LET g == Fetch(h, c, b, wr)
           IN  /\ Step(run, h, g, c, SetOf(c, b))
               /\ Newest(g, c, b)
               /\ Alive(g, c, b)
<1> DEFINE s == SetOf(c, b)
           q == h.sets[c][s]
           e == NewEntry(b, wr)
           v == MissSetOf(c, q, b, wr)
           counted == Bump(h, c, "miss", 1)
           ins == InsertOnMiss(counted, c, b)
           tbl == UpdateTcTbl(ins, c, b)
           sr == [tag_0 |-> h.hist[c][s].tag_1, tag_1 |-> b]
           had == [tbl EXCEPT !.hist[c][s] = sr]
           put == [had EXCEPT !.sets[c][s] = v]
           one == Bump(put, c, "evicted", 1)
           two == Bump(one, c, "useless", One(UselessPrefetch(q[1])))
           evicted == UpdateOnEviction(two, c, q[1])
           g == IF Full(c, q) THEN evicted ELSE put
<1>0. Fetch(h, c, b, wr) = g
    <2>1. CASE Full(c, q)
        BY <2>1 DEF Fetch, MissSetOf
    <2>2. CASE ~Full(c, q)
        BY <2>2 DEF Fetch, MissSetOf
    <2> QED
        BY <2>1, <2>2
<1>1. s \in SetIdx(c) /\ GoodSet(c, s, WaysOf(run, c), q) /\ q \in Seq(Entry)
    BY WFSet
<1>2. /\ GoodSet(c, s, WaysOf(run, c), v) /\ Len(v) >= 1 /\ v[Len(v)] = e
      /\ \A tr : AllKnown(tr, q) /\ tr[b].known => AllKnown(tr, v)
    <2>1. WaysOf(run, c) = Ways(c)
        BY DEF Ways, WaysOf
    <2> HIDE DEF v
    <2> QED
        BY <1>1, <2>1, MissSet DEF v
<1>3. e.blk = b /\ ~e.pred_dead
    BY NewEntryType
<1>4. /\ WF(run, counted) /\ counted.sets = h.sets /\ counted.hist = h.hist
      /\ counted.tr = h.tr
    BY BumpState DEF Counts
<1> HIDE DEF counted, e
<1>5. /\ WF(run, ins) /\ KnownGrows(counted, ins)
      /\ c \in L1s => ins.tr[b].known
      /\ ins.sets = h.sets /\ ins.hist = h.hist
    BY <1>4, InsertState
<1> HIDE DEF ins
<1>6. /\ WF(run, tbl) /\ tbl.sets = h.sets /\ tbl.hist = h.hist /\ tbl.tr = ins.tr
    BY <1>5, TcTblState
<1> HIDE DEF tbl
<1>7. /\ sr \in TagSR
      /\ sr.tag_0 # NoBlock => SetOf(c, sr.tag_0) = s
      /\ sr.tag_1 # NoBlock => SetOf(c, sr.tag_1) = s
    <2>1. /\ h.hist[c][s] \in TagSR
          /\ h.hist[c][s].tag_1 # NoBlock => SetOf(c, h.hist[c][s].tag_1) = s
        BY <1>1 DEF WF, HistOK
    <2> QED
        BY <2>1 DEF TagSR
<1> HIDE DEF sr
<1>8. /\ WF(run, had) /\ had.sets = h.sets /\ had.tr = ins.tr
    BY <1>1, <1>6, <1>7, PutHist
<1> HIDE DEF had, v
<1>9. /\ WF(run, put) /\ Elsewhere(had, put, c, s) /\ put.sets[c][s] = v
      /\ put.tr = ins.tr
    <2> HIDE DEF s
    <2>1. /\ WF(run, put) /\ Elsewhere(had, put, c, s) /\ put.sets[c][s] = v
          /\ put.tr = had.tr
        BY <1>1, <1>2, <1>8, PutSets
    <2> QED
        BY <1>8, <2>1
<1> HIDE DEF put
<1>10. Step(run, h, put, c, s)
    <2>1. Elsewhere(h, put, c, s)
        BY <1>8, <1>9 DEF Elsewhere
    <2>2. KnownGrows(h, put)
        BY <1>4, <1>5, <1>9 DEF KnownGrows
    <2>3. c \in L1s /\ AllKnown(put.tr, h.sets[c][s]) => AllKnown(put.tr, put.sets[c][s])
        BY <1>2, <1>5, <1>9
    <2> QED
        BY <1>9, <2>1, <2>2, <2>3, StepOfSet
<1>11. CASE Full(c, q)
    <2>1. q[1] \in Entry
        <3>1. Len(q) >= 1 /\ Len(q) \in Nat
            BY <1>1, <1>11, WaysPositive, LenProperties DEF Full
        <3> QED
            BY <1>1, <3>1, ElementOfSeq
    <2>2. Step(run, put, one, c, s) /\ one.sets = put.sets
        BY <1>9, BumpStep DEF Counts
    <2>3. WF(run, one)
        BY <2>2 DEF Step
    <2> HIDE DEF one
    <2>4. Step(run, one, two, c, s) /\ two.sets = put.sets
        <3>1. "useless" \in Counts /\ One(UselessPrefetch(q[1])) \in Nat
            BY OneType DEF Counts
        <3> QED
            BY <2>2, <2>3, <3>1, BumpStep
    <2>5. WF(run, two)
        BY <2>4 DEF Step
    <2> HIDE DEF two
    <2>6. WF(run, evicted) /\ KnownGrows(two, evicted) /\ evicted.sets = two.sets
        BY <2>1, <2>5, EvictState
    <2> HIDE DEF evicted
    <2>7. Step(run, two, evicted, c, s)
        BY <2>5, <2>6, StepOfSame
    <2>8. Step(run, h, evicted, c, s)
        BY <1>10, <2>2, <2>4, <2>7, StepTrans
    <2>9. evicted.sets[c][s] = v
        BY <1>9, <2>4, <2>6
    <2>10. v # <<>>
        BY <1>2, EmptySeq DEF GoodSet
    <2>11. Fetch(h, c, b, wr) = evicted
        BY <1>0, <1>11
    <2> QED
        BY <1>2, <1>3, <2>8, <2>9, <2>10, <2>11 DEF Newest, Alive
<1>12. CASE ~Full(c, q)
    <2>1. v # <<>>
        BY <1>2, EmptySeq DEF GoodSet
    <2>2. Fetch(h, c, b, wr) = put
        BY <1>0, <1>12
    <2> QED
        BY <1>2, <1>3, <1>9, <1>10, <2>1, <2>2 DEF Newest, Alive
<1> QED
    BY <1>11, <1>12

LEMMA PrefetchState ==
    ASSUME NEW r, NEW h, WF(r, h), NEW c \in Caches, NEW s \in SetIdx(c)
    PROVE  LET g == Prefetch(h, c, s)
               q == h.sets[c][s]
               v == g.sets[c][s]
           IN  /\ Step(r, h, g, c, s)
               /\ q # <<>> /\ ~q[Len(q)].pred_dead =>
                     v # <<>> /\ Len(v) = Len(q) /\ v[Len(q)] = q[Len(q)]
<1> DEFINE q == h.sets[c][s]
<1>1. GoodSet(c, s, WaysOf(r, c), q) /\ q \in Seq(Entry) /\ DOMAIN q = 1 .. Len(q)
    <2>1. GoodSet(c, s, WaysOf(r, c), q)
        BY DEF WF, SetsOK
    <2> QED
        BY <2>1 DEF GoodSet
<1>2. CASE Candidates(h, c, s) = {} \/ DeadPlaces(q) = {}
    <2>1. Prefetch(h, c, s) = h
        BY <1>2 DEF Prefetch
    <2>2. Step(r, h, h, c, s)
        BY StepOfSame DEF KnownGrows
    <2> QED
        BY <2>1, <2>2
<1>3. CASE Candidates(h, c, s) # {} /\ DeadPlaces(q) # {}
    <2> DEFINE b == CHOOSE x \in Candidates(h, c, s) : TRUE
               n == CHOOSE x \in DeadPlaces(q) : \A y \in DeadPlaces(q) : x <= y
               v == [q EXCEPT ![n] = PrefetchedEntry(b)]
               put == [h EXCEPT !.sets[c][s] = v]
               one == Bump(put, c, "tcp_pr", 1)
               g == InsertOnMiss(one, c, b)
    <2>1. Prefetch(h, c, s) = g
        <3>1. put = [h EXCEPT !.sets[c][s][n] = PrefetchedEntry(b)]
            OBVIOUS
        <3> HIDE DEF put
        <3> QED
            BY <1>3, <3>1 DEF Prefetch
    <2>2. b \in Blocks /\ SetOf(c, b) = s
        <3>1. b \in Candidates(h, c, s)
            BY <1>3
        <3> QED
            BY <3>1, CandidateBlocks
    <2>3. n \in DeadPlaces(q)
        <3>1. DeadPlaces(q) \in SUBSET Nat
            BY <1>1 DEF DeadPlaces
        <3>2. \E x \in DeadPlaces(q) : \A y \in DeadPlaces(q) : x <= y
            BY <1>3, <3>1, LeastExists
        <3> QED
            BY <3>2
    <2>4. n \in 1 .. Len(q) /\ q[n].pred_dead
        BY <1>1, <2>3 DEF DeadPlaces
    <2> HIDE DEF b, n
    <2>5. /\ GoodSet(c, s, WaysOf(r, c), v) /\ Len(v) = Len(q)
          /\ \A m \in 1 .. Len(q) : m # n => v[m] = q[m]
          /\ \A tr : AllKnown(tr, q) /\ tr[b].known => AllKnown(tr, v)
        BY <1>1, <2>2, <2>4, PrefetchSet
    <2> HIDE DEF v, q
    <2>6. /\ WF(r, put) /\ Elsewhere(h, put, c, s) /\ put.sets[c][s] = v
          /\ put.tr = h.tr
        BY <2>5, PutSets
    <2> HIDE DEF put
    <2>7. WF(r, one) /\ one.sets = put.sets /\ one.tr = put.tr
        BY <2>6, BumpState DEF Counts
    <2> HIDE DEF one
    <2>8. /\ WF(r, g) /\ KnownGrows(one, g) /\ g.sets = one.sets
          /\ c \in L1s => g.tr[b].known
        BY <2>2, <2>7, InsertState
    <2> HIDE DEF g
    <2>9. Step(r, h, g, c, s)
        <3>1. Elsewhere(h, g, c, s)
            BY <2>6, <2>7, <2>8 DEF Elsewhere
        <3>2. KnownGrows(h, g)
            BY <2>6, <2>7, <2>8 DEF KnownGrows
        <3>3. c \in L1s /\ AllKnown(g.tr, h.sets[c][s]) => AllKnown(g.tr, g.sets[c][s])
            BY <2>5, <2>6, <2>7, <2>8 DEF q
        <3> QED
            BY <2>8, <3>1, <3>2, <3>3, StepOfSet
    <2>10. g.sets[c][s] = v
        BY <2>6, <2>7, <2>8
    <2>11. q # <<>> /\ ~q[Len(q)].pred_dead =>
               v # <<>> /\ Len(v) = Len(q) /\ v[Len(q)] = q[Len(q)]
        <3>1. SUFFICES ASSUME q # <<>>, ~q[Len(q)].pred_dead
                       PROVE  v # <<>> /\ Len(v) = Len(q) /\ v[Len(q)] = q[Len(q)]
            OBVIOUS
        <3>2. Len(q) \in 1 .. Len(q) /\ Len(q) # n
            <4>1. Len(q) \in Nat \ {0}
                BY <1>1, <3>1, EmptySeq
            <4>2. Len(q) # n
                BY <2>4, <3>1
            <4> QED
                BY <4>1, <4>2
        <3> QED
            BY <2>5, <3>2, EmptySeq DEF GoodSet
    <2> QED
        BY <2>1, <2>9, <2>10, <2>11 DEF q
<1> QED
    BY <1>2, <1>3

LEMMA CountState ==
    ASSUME NEW r, NEW h, WF(r, h), NEW c \in Caches, NEW wr, NEW d, NEW s
    PROVE  Step(r, h, CountAccess(h, c, wr), d, s) /\ CountAccess(h, c, wr).sets = h.sets
<1>1. (IF wr THEN "wr" ELSE "rd") \in Counts
    BY DEF Counts
<1> QED
    BY <1>1, BumpStep DEF CountAccess

(* An access of the parent cache leaves the sets of the L1 caches alone.   *)
(* The last operand of Step is any set: no L1 set is one of the L2.        *)
L1Untouched(h, g) == \A d \in L1s : \A t \in SetIdx(d) : g.sets[d][t] = h.sets[d][t]

ParentStep(r, h, g) ==
    /\ WF(r, g)
    /\ L1Untouched(h, g)
    /\ KnownGrows(h, g)
    /\ Known(h) => Known(g)

LEMMA ParentTrans ==
    ASSUME NEW r, NEW h, NEW g, NEW k, ParentStep(r, h, g), ParentStep(r, g, k)
    PROVE  ParentStep(r, h, k)
    BY DEF ParentStep, L1Untouched, KnownGrows

LEMMA L2State ==
    ASSUME run \in Runs, NEW h, WF(run, h), NEW b \in Blocks, NEW pc \in Nat,
           NEW wr \in BOOLEAN
    PROVE  LET g == AccessL2(h, b, pc, wr)
           IN  ParentStep(run, h, g) /\ Newest(g, "L2", b)
<1> DEFINE k == CountAccess(h, "L2", wr)
           s == SetOf("L2", b)
           g == AccessL2(h, b, pc, wr)
<1>0. "L2" \in Caches
    BY DEF Caches
<1>1. Step(run, h, k, "L2", s)
    BY <1>0, CountState
<1>2. WF(run, k)
    BY <1>1 DEF Step
<1>3. s \in SetIdx("L2")
    BY <1>0, WFSet
<1> HIDE DEF k
<1>4. Step(run, k, g, "L2", s) /\ Newest(g, "L2", b)
    <2>1. CASE Holds(k.sets["L2"][s], b)
        <3>1. g = Hit(k, "L2", b, pc, wr)
            BY <2>1 DEF AccessL2, k
        <3> QED
            BY <1>0, <1>2, <2>1, <3>1, HitState
    <2>2. CASE ~Holds(k.sets["L2"][s], b)
        <3> DEFINE f == Fetch(k, "L2", b, wr)
        <3>1. g = Prefetch(f, "L2", s)
            BY <2>2 DEF AccessL2, k
        <3>2. Step(run, k, f, "L2", s) /\ Newest(f, "L2", b) /\ Alive(f, "L2", b)
            BY <1>0, <1>2, <2>2, FetchState
        <3>3. WF(run, f)
            BY <3>2 DEF Step
        <3> HIDE DEF f, g, s
        <3>4. /\ Step(run, f, g, "L2", s)
              /\ f.sets["L2"][s] # <<>>
                    /\ ~f.sets["L2"][s][Len(f.sets["L2"][s])].pred_dead =>
                 /\ g.sets["L2"][s] # <<>>
                 /\ Len(g.sets["L2"][s]) = Len(f.sets["L2"][s])
                 /\ g.sets["L2"][s][Len(f.sets["L2"][s])] =
                        f.sets["L2"][s][Len(f.sets["L2"][s])]
            BY <1>0, <1>3, <3>1, <3>3, PrefetchState
        <3>5. Step(run, k, g, "L2", s)
            BY <3>2, <3>4, StepTrans
        <3>6. Newest(g, "L2", b)
            BY <3>2, <3>4 DEF Newest, Alive, s
        <3> QED
            BY <3>5, <3>6
    <2> QED
        BY <2>1, <2>2
<1> HIDE DEF g, s
<1>5. Step(run, h, g, "L2", s)
    BY <1>1, <1>4, StepTrans
<1>6. ParentStep(run, h, g)
    BY <1>5 DEF Step, ParentStep, L1Untouched, Elsewhere, L1s, Caches
<1> QED
    BY <1>4, <1>6 DEF g

LEMMA ParentState ==
    ASSUME run \in Runs, NEW h, WF(run, h), NEW victims \in SUBSET Entry,
           NEW b \in Blocks, NEW pc \in Nat, NEW wr \in BOOLEAN
    PROVE  LET g == AskParent(h, victims, b, pc, wr)
           IN  ParentStep(run, h, g) /\ Newest(g, "L2", b)
<1> DEFINE a == (CHOOSE v \in victims : v.dirty).blk
           k == IF \E v \in victims : v.dirty THEN AccessL2(h, a, pc, TRUE) ELSE h
           g == AccessL2(k, b, pc, wr)
<1>1. ParentStep(run, h, k)
    <2>1. CASE \E v \in victims : v.dirty
        <3>1. a \in Blocks
            BY <2>1 DEF Entry
        <3> HIDE DEF a
        <3> QED
            BY <2>1, <3>1, L2State
    <2>2. CASE ~ \E v \in victims : v.dirty
        BY <2>2 DEF ParentStep, L1Untouched, KnownGrows
    <2> QED
        BY <2>1, <2>2
<1>2. WF(run, k)
    BY <1>1 DEF ParentStep
<1>3. AskParent(h, victims, b, pc, wr) = g
    BY DEF AskParent
<1> HIDE DEF k
<1>4. ParentStep(run, k, g) /\ Newest(g, "L2", b)
    BY <1>2, L2State
<1> HIDE DEF g
<1> QED
    BY <1>1, <1>3, <1>4, ParentTrans

(* A whole access: the block is the most recent one of its L1 set, alive,  *)
(* and, if it was missed, of its L2 set.                                   *)
LEMMA AccessState ==
    ASSUME run \in Runs, NEW h, WF(run, h), NEW c \in L1s, NEW b \in Blocks,
           NEW pc \in Nat, NEW wr \in BOOLEAN
    PROVE  LET g == AccessL1(h, c, b, pc, wr)
           IN  /\ WF(run, g)
               /\ Known(h) => Known(g)
               /\ Newest(g, c, b) /\ Alive(g, c, b)
               /\ ~Holds(h.sets[c][SetOf(c, b)], b) => Newest(g, "L2", b)
<1> DEFINE k == CountAccess(h, c, wr)
           s == SetOf(c, b)
           q == k.sets[c][s]
           g == AccessL1(h, c, b, pc, wr)
<1>0. c \in Caches /\ c # "L2"
    BY DEF Caches, L1s
<1>1. Step(run, h, k, c, s) /\ k.sets = h.sets
    BY <1>0, CountState
<1>2. WF(run, k)
    BY <1>1 DEF Step
<1>3. s \in SetIdx(c) /\ q \in Seq(Entry)
    BY <1>0, <1>2, WFSet
<1>4. CASE Holds(q, b)
    <2>1. g = Hit(k, c, b, pc, wr)
        BY <1>4 DEF AccessL1
    <2> HIDE DEF g, k
    <2>2. Step(run, k, g, c, s) /\ Newest(g, c, b) /\ Alive(g, c, b)
        BY <1>0, <1>2, <1>4, <2>1, HitState
    <2>3. WF(run, g) /\ (Known(h) => Known(g))
        BY <1>1, <2>2 DEF Step
    <2> QED
        BY <1>1, <1>4, <2>2, <2>3 DEF g
<1>5. CASE ~Holds(q, b)
    <2> DEFINE f == Fetch(k, c, b, wr)
               p == AskParent(f, Victims(c, q), b, pc, wr)
    <2>1. g = Prefetch(p, c, s)
        BY <1>5 DEF AccessL1
    <2> HIDE DEF g, k
    <2>2. Step(run, k, f, c, s) /\ Newest(f, c, b) /\ Alive(f, c, b)
        BY <1>0, <1>2, <1>5, FetchState
    <2>3. WF(run, f)
        BY <2>2 DEF Step
    <2>4. Victims(c, q) \in SUBSET Entry
        <3>1. CASE Full(c, q)
            <4>1. Len(q) >= 1 /\ Len(q) \in Nat
                BY <1>0, <1>3, <3>1, WaysPositive, LenProperties DEF Full
            <4>2. q[1] \in Entry
                BY <1>3, <4>1, ElementOfSeq
            <4> QED
                BY <3>1, <4>2 DEF Victims
        <3>2. CASE ~Full(c, q)
            BY <3>2 DEF Victims
        <3> QED
            BY <3>1, <3>2
    <2> HIDE DEF f, q
    <2>5. ParentStep(run, f, p) /\ Newest(p, "L2", b)
        BY <2>3, <2>4, ParentState
    <2>6. WF(run, p)
        BY <2>5 DEF ParentStep
    <2> HIDE DEF p, s
    <2>7. p.sets[c][s] = f.sets[c][s]
        BY <1>3, <2>5 DEF ParentStep, L1Untouched
    <2>8. f.sets[c][s] # <<>> /\ ~f.sets[c][s][Len(f.sets[c][s])].pred_dead
        BY <2>2 DEF Newest, Alive, s
    <2>9. /\ Step(run, p, g, c, s)
          /\ g.sets[c][s] # <<>>
          /\ Len(g.sets[c][s]) = Len(p.sets[c][s])
          /\ g.sets[c][s][Len(p.sets[c][s])] = p.sets[c][s][Len(p.sets[c][s])]
        <3>1. /\ Step(run, p, g, c, s)
              /\ p.sets[c][s] # <<>> /\ ~p.sets[c][s][Len(p.sets[c][s])].pred_dead =>
                 /\ g.sets[c][s] # <<>>
                 /\ Len(g.sets[c][s]) = Len(p.sets[c][s])
                 /\ g.sets[c][s][Len(p.sets[c][s])] = p.sets[c][s][Len(p.sets[c][s])]
            BY <1>0, <1>3, <2>1, <2>6, PrefetchState
        <3>2. p.sets[c][s] # <<>> /\ ~p.sets[c][s][Len(p.sets[c][s])].pred_dead
            BY <2>7, <2>8
        <3> QED
            BY <3>1, <3>2
    <2>10. Newest(g, c, b) /\ Alive(g, c, b)
        BY <2>2, <2>7, <2>9 DEF Newest, Alive, s
    <2>11. Newest(g, "L2", b)
        <3>1. "L2" \in Caches
            BY DEF Caches
        <3>2. SetOf("L2", b) \in SetIdx("L2")
            BY <3>1, SetOfRange
        <3>3. g.sets["L2"][SetOf("L2", b)] = p.sets["L2"][SetOf("L2", b)]
            BY <1>0, <2>9, <3>1, <3>2 DEF Step, Elsewhere
        <3> QED
            BY <2>5, <3>3 DEF Newest
    <2>12. WF(run, g) /\ (Known(h) => Known(g))
        BY <1>1, <2>2, <2>5, <2>9 DEF Step, ParentStep
    <2> QED
        BY <2>10, <2>11, <2>12 DEF g
<1> QED
    BY <1>4, <1>5

-----------------------------------------------------------------------------
(* The invariant and what follows from it.                                 *)

CacheInv ==
    /\ run \in Runs
    /\ WF(run, State)
    /\ Known(State)

LEMMA EmptyList ==
    ASSUME NEW c, NEW s
    PROVE  GoodList(c, s, <<>>)
<1>1. <<>> \in Seq(PredEntry) /\ 1 .. Len(<<>>) = {}
    BY EmptySeq
<1> QED
    BY <1>1 DEF GoodList

LEMMA CacheInitInv ==
    ASSUME CacheInit
    PROVE  CacheInv
<1> USE DEF CacheInit
<1>1. /\ State = [sets |-> State.sets, hist |-> State.hist, cnt |-> State.cnt,
                  tr |-> State.tr, ref |-> State.ref, tcp |-> State.tcp]
      /\ State.sets = sets /\ State.hist = miss_hist /\ State.cnt = counters
      /\ State.tr = tr_hist_tbl /\ State.ref = ref_hist_tbl /\ State.tcp = tcp_pred_tbl
    BY DEF State
<1>2. <<>> \in Seq(Entry) /\ <<>> \in Seq(PredEntry) /\ Len(<<>>) = 0
    BY EmptySeq
<1>3. SetsOK(run, sets)
    <2>1. ASSUME NEW c \in Caches, NEW s \in SetIdx(c)
          PROVE  GoodSet(c, s, WaysOf(run, c), sets[c][s])
        <3>1. sets[c][s] = <<>>
            BY <2>1
        <3>2. WaysOf(run, c) \in Nat
            BY CacheAssumption DEF WaysOf
        <3> QED
            BY <1>2, <3>1, <3>2 DEF GoodSet
    <2> QED
        BY <1>2, <2>1 DEF SetsOK
<1>4. HistOK(miss_hist)
    BY DEF HistOK, TagSR
<1>5. counters \in [Caches -> [Counts -> Nat]]
    OBVIOUS
<1>6. tr_hist_tbl \in [Blocks -> TraceEntry]
    <2>1. 0 \in 0 .. TraceMod - 1
        BY CacheAssumption
    <2> QED
        BY <2>1 DEF NewTrace, TraceEntry
<1>7. ref_hist_tbl \in [Blocks -> RefEntry]
    BY DEF NewRef, RefEntry
<1>8. TcpOK(tcp_pred_tbl)
    <2>1. ASSUME NEW c \in Caches
          PROVE  /\ tcp_pred_tbl[Level(c)] \in [TcpIndices(Level(c)) -> Seq(PredEntry)]
                 /\ \A i \in TcpIndices(Level(c)) :
                       GoodList(c, i[1], tcp_pred_tbl[Level(c)][i])
        <3>1. tcp_pred_tbl[Level(c)] = [x \in TcpIndices(Level(c)) |-> <<>>]
            BY Geometry
        <3>2. ASSUME NEW i \in TcpIndices(Level(c))
              PROVE  GoodList(c, i[1], tcp_pred_tbl[Level(c)][i])
            <4>1. tcp_pred_tbl[Level(c)][i] = <<>>
                BY <3>1
            <4> QED
                BY <4>1, EmptyList
        <3> QED
            BY <1>2, <3>1, <3>2
    <2> QED
        BY <2>1 DEF TcpOK
<1>9. WF(run, State)
    BY <1>1, <1>3, <1>4, <1>5, <1>6, <1>7, <1>8 DEF WF
<1>10. Known(State)
    <2>1. ASSUME NEW c \in L1s, NEW s \in SetIdx(c)
          PROVE  AllKnown(State.tr, State.sets[c][s])
        <3>1. State.sets[c][s] = <<>>
            BY <1>1 DEF Caches
        <3> QED
            BY <1>2, <3>1 DEF AllKnown
    <2> QED
        BY <2>1 DEF Known
<1> QED
    BY <1>9, <1>10 DEF CacheInv

(* One access, as a step of the whole state. *)
LEMMA AccessStep ==
    ASSUME CacheInv, NEW c \in L1s, NEW b \in Blocks, NEW pc \in Nat, NEW wr \in BOOLEAN,
           Access(c, b, pc, wr)
    PROVE  /\ run \in Runs /\ WF(run, State) /\ run' = run
           /\ State' = AccessL1(State, c, b, pc, wr)
<1> DEFINE g == AccessL1(State, c, b, pc, wr)
<1>1. run \in Runs /\ WF(run, State)
    BY DEF CacheInv
<1>2. WF(run, g)
    BY <1>1, AccessState
<1>3. g = [sets |-> g.sets, hist |-> g.hist, cnt |-> g.cnt,
           tr |-> g.tr, ref |-> g.ref, tcp |-> g.tcp]
    BY <1>2 DEF WF
<1>4. /\ sets' = g.sets /\ miss_hist' = g.hist /\ counters' = g.cnt
      /\ tr_hist_tbl' = g.tr /\ ref_hist_tbl' = g.ref /\ tcp_pred_tbl' = g.tcp
      /\ run' = run
    BY DEF Access
<1> HIDE DEF g
<1>5. State' = [sets |-> g.sets, hist |-> g.hist, cnt |-> g.cnt,
                tr |-> g.tr, ref |-> g.ref, tcp |-> g.tcp]
    BY <1>4 DEF State
<1> QED
    BY <1>1, <1>3, <1>4, <1>5 DEF g

(* One access: the invariant again, and where its block is now. *)
LEMMA AccessInv ==
    ASSUME CacheInv, NEW c \in L1s, NEW b \in Blocks, NEW pc \in Nat, NEW wr \in BOOLEAN,
           Access(c, b, pc, wr)
    PROVE  /\ CacheInv'
           /\ Newest(State', c, b) /\ Alive(State', c, b)
           /\ Missing(c, b) => Newest(State', "L2", b)
<1> DEFINE g == AccessL1(State, c, b, pc, wr)
<1>1. /\ WF(run, g)
      /\ Known(State) => Known(g)
      /\ Newest(g, c, b) /\ Alive(g, c, b)
      /\ ~Holds(State.sets[c][SetOf(c, b)], b) => Newest(g, "L2", b)
    <2>1. run \in Runs /\ WF(run, State)
        BY DEF CacheInv
    <2> HIDE DEF g
    <2> QED
        BY <2>1, AccessState DEF g
<1>2. State' = g /\ run' = run
    BY AccessStep
<1> HIDE DEF g
<1>3. CacheInv'
    BY <1>1, <1>2 DEF CacheInv
<1>4. State.sets = sets
    BY DEF State
<1> QED
    BY <1>1, <1>2, <1>3, <1>4 DEF Missing

(* Whatever the program does next is an access. *)
LEMMA NextIsAccess ==
    ASSUME CacheInv, CHNext
    PROVE  \E c \in L1s, b \in Blocks, pc \in Nat, wr \in BOOLEAN :
               /\ Access(c, b, pc, wr)
               /\ last' = [cache |-> c, blk |-> b, missed |-> Missing(c, b)]
<1>1. PICK r \in run.program :
          /\ Access(r.cache, r.blk, r.pc, r.wr)
          /\ last' = [cache |-> r.cache, blk |-> r.blk, missed |-> Missing(r.cache, r.blk)]
    BY DEF CHNext
<1>2. r \in Request
    BY CacheAssumption DEF CacheInv
<1>3. r.cache \in L1s /\ r.blk \in Blocks /\ r.pc \in Nat /\ r.wr \in BOOLEAN
    BY <1>2 DEF Request
<1> QED
    BY <1>1, <1>3

LEMMA CacheNextInv ==
    ASSUME CacheInv, [CHNext]_chvars
    PROVE  CacheInv'
<1>1. CASE CHNext
    BY <1>1, NextIsAccess, AccessInv
<1>2. CASE UNCHANGED chvars
    <2>1. State' = State /\ run' = run
        BY <1>2 DEF chvars, cvars, State
    <2> QED
        BY <2>1 DEF CacheInv
<1> QED
    BY <1>1, <1>2

(* The hierarchy keeps its state well formed. *)
THEOREM CacheInvariant == CHSpec => []CacheInv
<1>1. CHInit => CacheInv
    BY CacheInitInv DEF CHInit
<1>2. CacheInv /\ [CHNext]_chvars => CacheInv'
    BY CacheNextInv
<1> QED
    BY <1>1, <1>2, PTL DEF CHSpec

LEMMA SetsWellFormed ==
    ASSUME CacheInv, NEW c \in Caches, NEW s \in SetIdx(c)
    PROVE  GoodSet(c, s, Ways(c), sets[c][s])
    BY DEF CacheInv, WF, SetsOK, State, Ways, WaysOf

LEMMA PlaceInSet ==
    ASSUME CacheInv, NEW c \in Caches, NEW x \in Places(c)
    PROVE  /\ x[1] \in SetIdx(c)
           /\ x[2] \in 1 .. Len(sets[c][x[1]])
           /\ x = <<x[1], x[2]>>
           /\ EntryAt(c, x) = sets[c][x[1]][x[2]]
<1>1. /\ x \in SetIdx(c) \X (1 .. Ways(c))
      /\ x[2] \in DOMAIN sets[c][x[1]]
    BY DEF Places
<1>2. x[1] \in SetIdx(c) /\ x = <<x[1], x[2]>>
    BY <1>1
<1>3. sets[c][x[1]] \in Seq(Entry)
    BY <1>2, SetsWellFormed DEF GoodSet
<1> QED
    BY <1>1, <1>2, <1>3, LenProperties DEF EntryAt

LEMMA TypesHold == CacheInv => CacheTypeOK
<1> SUFFICES ASSUME CacheInv PROVE CacheTypeOK
    OBVIOUS
<1>1. /\ run \in Runs
      /\ SetsOK(run, sets)
      /\ HistOK(miss_hist)
      /\ counters \in [Caches -> [Counts -> Nat]]
      /\ tr_hist_tbl \in [Blocks -> TraceEntry]
      /\ ref_hist_tbl \in [Blocks -> RefEntry]
      /\ TcpOK(tcp_pred_tbl)
    BY DEF CacheInv, WF, State
<1>2. ASSUME NEW c \in Caches
      PROVE  /\ sets[c] \in [SetIdx(c) -> Seq(Entry)]
             /\ \A s \in SetIdx(c) : \A n \in DOMAIN sets[c][s] :
                   SetOf(c, sets[c][s][n].blk) = s
             /\ miss_hist[c] \in [SetIdx(c) -> TagSR]
             /\ counters[c] \in [Counts -> Nat]
    <2>1. ASSUME NEW s \in SetIdx(c), NEW n \in DOMAIN sets[c][s]
          PROVE  SetOf(c, sets[c][s][n].blk) = s
        <3>1. GoodSet(c, s, Ways(c), sets[c][s])
            BY SetsWellFormed
        <3>2. n \in 1 .. Len(sets[c][s])
            BY <3>1, LenProperties DEF GoodSet
        <3> QED
            BY <3>1, <3>2 DEF GoodSet
    <2> QED
        BY <1>1, <2>1 DEF SetsOK, HistOK
<1>3. ASSUME NEW lvl \in 1..2
      PROVE  tcp_pred_tbl[lvl] \in [TcpIndices(lvl) -> Seq(PredEntry)]
    <2>1. \E c \in Caches : Level(c) = lvl
        BY DEF Level, Caches, L1s
    <2> QED
        BY <1>1, <2>1 DEF TcpOK
<1> QED
    BY <1>1, <1>2, <1>3 DEF CacheTypeOK

(* Types: every entry is in the set its block belongs to, a trace stays    *)
(* within its 30 bits, and no index leaves the correlation table.          *)
THEOREM CacheTypeCorrect == CHSpec => []CacheTypeOK
BY TypesHold, CacheInvariant, PTL

(* A set never holds more blocks than it has ways: the assertion of line   *)
(* 70, for every cache, whatever is nested in an access.                   *)
THEOREM WaysCorrect ==
    CHSpec => [](\A c \in Caches : \A s \in SetIdx(c) : Len(sets[c][s]) <= Ways(c))
<1>1. CacheInv => \A c \in Caches : \A s \in SetIdx(c) : Len(sets[c][s]) <= Ways(c)
    BY SetsWellFormed DEF GoodSet
<1> QED
    BY <1>1, CacheInvariant, PTL

LEMMA TracesHold == CacheInv => TraceKnown
<1> SUFFICES ASSUME CacheInv, NEW c \in L1s, NEW x \in Places(c)
             PROVE  tr_hist_tbl[EntryAt(c, x).blk].known
    BY DEF TraceKnown
<1>1. c \in Caches
    BY DEF Caches
<1>2. /\ x[1] \in SetIdx(c) /\ x[2] \in 1 .. Len(sets[c][x[1]])
      /\ EntryAt(c, x) = sets[c][x[1]][x[2]]
    BY <1>1, PlaceInSet
<1>3. AllKnown(tr_hist_tbl, sets[c][x[1]])
    BY <1>2 DEF CacheInv, Known, State
<1> QED
    BY <1>2, <1>3 DEF AllKnown

(* The assertion of update_trace: the trace table knows every block of an  *)
(* L1 cache, prefetched ones too.                                          *)
THEOREM TraceKnownCorrect == CHSpec => []TraceKnown
BY TracesHold, CacheInvariant, PTL

LEMMA DemandEntriesHold == CacheInv => OneDemandEntry
<1> SUFFICES ASSUME CacheInv, NEW c \in Caches, NEW x \in Places(c), NEW y \in Places(c),
                    EntryAt(c, x).blk = EntryAt(c, y).blk,
                    ~EntryAt(c, x).prefetched, ~EntryAt(c, y).prefetched
             PROVE  x = y
    BY DEF OneDemandEntry
<1>1. /\ x[1] \in SetIdx(c) /\ x[2] \in 1 .. Len(sets[c][x[1]])
      /\ x = <<x[1], x[2]>> /\ EntryAt(c, x) = sets[c][x[1]][x[2]]
    BY PlaceInSet
<1>2. /\ y[1] \in SetIdx(c) /\ y[2] \in 1 .. Len(sets[c][y[1]])
      /\ y = <<y[1], y[2]>> /\ EntryAt(c, y) = sets[c][y[1]][y[2]]
    BY PlaceInSet
<1>3. /\ SetOf(c, EntryAt(c, x).blk) = x[1]
      /\ SetOf(c, EntryAt(c, y).blk) = y[1]
    BY <1>1, <1>2, SetsWellFormed DEF GoodSet
<1>4. x[1] = y[1]
    BY <1>3
<1>5. x[2] = y[2]
    BY <1>1, <1>2, <1>4, SetsWellFormed DEF GoodSet
<1> QED
    BY <1>1, <1>2, <1>4, <1>5

(* No block is fetched twice: of the entries of a block at most one was    *)
(* brought in by a miss.                                                   *)
THEOREM DemandEntryCorrect == CHSpec => []OneDemandEntry
BY DemandEntriesHold, CacheInvariant, PTL

(* The block just used is the most recent one of its L1 set, not predicted *)
(* dead, and, if it missed, the most recent one of its L2 set: the nested  *)
(* write-back and the prefetches do not get in front of it.                *)
THEOREM MostRecentCorrect == CHSpec => []UsedIsMostRecent
<1>1. CHInit => UsedIsMostRecent
    BY DEF CHInit, UsedIsMostRecent
<1>2. UsedIsMostRecent /\ CacheInv /\ [CHNext]_chvars => UsedIsMostRecent'
    <2> SUFFICES ASSUME UsedIsMostRecent, CacheInv, [CHNext]_chvars
                 PROVE  UsedIsMostRecent'
        OBVIOUS
    <2>1. CASE CHNext
        <3>1. PICK c \in L1s, b \in Blocks, pc \in Nat, wr \in BOOLEAN :
                  /\ Access(c, b, pc, wr)
                  /\ last' = [cache |-> c, blk |-> b, missed |-> Missing(c, b)]
            BY <2>1, NextIsAccess
        <3>2. /\ Newest(State', c, b) /\ Alive(State', c, b)
              /\ Missing(c, b) => Newest(State', "L2", b)
            BY <3>1, AccessInv
        <3>3. State'.sets = sets'
            BY DEF State
        <3>4. last'.cache = c /\ last'.blk = b /\ last'.missed = Missing(c, b)
            BY <3>1
        <3> QED
            BY <3>2, <3>3, <3>4 DEF UsedIsMostRecent, Newest, Alive, MruBlk
    <2>2. CASE UNCHANGED chvars
        BY <2>2 DEF chvars, cvars, UsedIsMostRecent
    <2> QED
        BY <2>1, <2>2
<1> QED
    BY <1>1, <1>2, CacheInvariant, PTL DEF CHSpec

-----------------------------------------------------------------------------
(* Counting entries.                                                       *)

DeadEntries == {e \in Entry : e.pred_dead}
UselessEntries == {e \in Entry : UselessPrefetch(e)}

(* Where q has entries of a set P of them, and how many. *)
PlacesOf(q, P) == {n \in 1 .. Len(q) : q[n] \in P}
CountIn(q, P) == Cardinality(PlacesOf(q, P))

LEMMA CountType ==
    ASSUME NEW q \in Seq(Entry), NEW P
    PROVE  IsFiniteSet(PlacesOf(q, P)) /\ CountIn(q, P) \in Nat
<1>1. Len(q) \in Nat
    OBVIOUS
<1>2. IsFiniteSet(1 .. Len(q))
    BY <1>1, FS_Interval
<1>3. PlacesOf(q, P) \in SUBSET (1 .. Len(q))
    BY DEF PlacesOf
<1>4. IsFiniteSet(PlacesOf(q, P))
    BY <1>2, <1>3, FS_Subset
<1> QED
    BY <1>4, FS_CardinalityType DEF CountIn

LEMMA CountAppend ==
    ASSUME NEW q \in Seq(Entry), NEW e \in Entry, NEW P
    PROVE  CountIn(Append(q, e), P) = CountIn(q, P) + One(e \in P)
<1> DEFINE v == Append(q, e)
           S == PlacesOf(q, P)
           L == Len(q)
<1>1. L \in Nat
    OBVIOUS
<1>2. Len(v) = L + 1 /\ v[L + 1] = e /\ \A m \in 1 .. L : v[m] = q[m]
    BY AppendProperties
<1> HIDE DEF v
<1>3. IsFiniteSet(S) /\ L + 1 \notin S
    <2>1. L + 1 \notin 1 .. L
        BY <1>1
    <2>2. L + 1 \notin S
        BY <2>1 DEF PlacesOf
    <2> QED
        BY <2>2, CountType
<1>4. PlacesOf(v, P) = IF e \in P THEN S \cup {L + 1} ELSE S
    <2>1. \A m : m \in 1 .. L + 1 <=> m \in 1 .. L \/ m = L + 1
        BY <1>1
    <2> QED
        BY <1>1, <1>2, <2>1 DEF PlacesOf
<1> HIDE DEF S, L
<1>5. Cardinality(S \cup {L + 1}) = Cardinality(S) + 1 /\ Cardinality(S) \in Nat
    BY <1>3, FS_AddElement, FS_CardinalityType
<1>6. CountIn(v, P) = Cardinality(S) + One(e \in P)
    <2>1. CASE e \in P
        BY <1>4, <1>5, <2>1 DEF CountIn, One
    <2>2. CASE e \notin P
        BY <1>4, <1>5, <2>2 DEF CountIn, One
    <2> QED
        BY <2>1, <2>2
<1> QED
    BY <1>6 DEF v, S, CountIn

LEMMA CountExcept ==
    ASSUME NEW q \in Seq(Entry), NEW v \in Seq(Entry), NEW n \in 1 .. Len(q), Len(v) = Len(q),
           \A m \in 1 .. Len(q) : m # n => v[m] = q[m],
           NEW P
    PROVE  CountIn(v, P) = CountIn(q, P) - One(q[n] \in P) + One(v[n] \in P)
<1> DEFINE S == PlacesOf(q, P)
           T == PlacesOf(v, P)
<1>1. IsFiniteSet(S) /\ IsFiniteSet(T)
    BY CountType
<1>2. S \ {n} = T \ {n}
    BY DEF PlacesOf
<1>3. (n \in S <=> q[n] \in P) /\ (n \in T <=> v[n] \in P)
    BY DEF PlacesOf
<1> HIDE DEF S, T
<1>4. /\ Cardinality(S) \in Nat /\ Cardinality(T) \in Nat
      /\ Cardinality(S \ {n}) = IF n \in S THEN Cardinality(S) - 1 ELSE Cardinality(S)
      /\ Cardinality(T \ {n}) = IF n \in T THEN Cardinality(T) - 1 ELSE Cardinality(T)
    BY <1>1, FS_RemoveElement, FS_CardinalityType
<1>5. Cardinality(T) = Cardinality(S) - One(n \in S) + One(n \in T)
    <2>1. One(n \in S) = (IF n \in S THEN 1 ELSE 0) /\ One(n \in T) = (IF n \in T THEN 1 ELSE 0)
        BY DEF One
    <2>2. Cardinality(S \ {n}) = Cardinality(T \ {n})
        BY <1>2
    <2> QED
        BY <1>4, <2>1, <2>2
<1>6. One(n \in S) = One(q[n] \in P) /\ One(n \in T) = One(v[n] \in P)
    BY <1>3 DEF One
<1> QED
    BY <1>5, <1>6 DEF S, T, CountIn

(* The n-th entry gone and those after it one place further down. *)
LEMMA CountMoved ==
    ASSUME NEW q \in Seq(Entry), NEW v \in Seq(Entry), NEW n \in 1 .. Len(q), Len(v) = Len(q),
           \A m \in 1 .. Len(q) - 1 : v[m] = q[IF m < n THEN m ELSE m + 1],
           NEW P
    PROVE  CountIn(v, P) = CountIn(q, P) - One(q[n] \in P) + One(v[Len(v)] \in P)
<1> DEFINE L == Len(q)
           S == PlacesOf(q, P)
           T == PlacesOf(v, P)
           f == [m \in T \ {L} |-> IF m < n THEN m ELSE m + 1]
<1>1. L \in Nat /\ n \in Nat /\ n <= L /\ 1 <= n
    OBVIOUS
<1>2. IsFiniteSet(S) /\ IsFiniteSet(T)
    BY CountType
<1>3. (n \in S <=> q[n] \in P) /\ (L \in T <=> v[L] \in P)
    BY <1>1 DEF PlacesOf
<1>4. f \in Bijection(T \ {L}, S \ {n})
    <2>1. ASSUME NEW m \in T \ {L}
          PROVE  m \in 1 .. L - 1 /\ f[m] \in S \ {n} /\ f[m] = (IF m < n THEN m ELSE m + 1)
        <3>1. m \in 1 .. L - 1 /\ v[m] \in P
            BY <1>1 DEF PlacesOf
        <3>2. f[m] = IF m < n THEN m ELSE m + 1
            OBVIOUS
        <3>3. v[m] = q[f[m]]
            BY <3>1, <3>2
        <3>4. f[m] \in 1 .. L /\ f[m] # n
            BY <1>1, <3>1, <3>2
        <3> QED
            BY <3>1, <3>2, <3>3, <3>4 DEF PlacesOf
    <2>2. ASSUME NEW k \in S \ {n}
          PROVE  \E m \in T \ {L} : f[m] = k
        <3> DEFINE m == IF k < n THEN k ELSE k - 1
        <3>1. k \in 1 .. L /\ q[k] \in P
            BY DEF PlacesOf
        <3>2. /\ m \in 1 .. L - 1 /\ k = (IF m < n THEN m ELSE m + 1)
              /\ m \in 1 .. L /\ m # L
            BY <1>1, <2>2, <3>1
        <3> HIDE DEF m
        <3>3. v[m] = q[k]
            BY <3>2
        <3>4. m \in T \ {L}
            BY <3>1, <3>2, <3>3 DEF PlacesOf
        <3>5. f[m] = k
            BY <3>2, <3>4
        <3> QED
            BY <3>4, <3>5
    <2>3. ASSUME NEW k \in T \ {L}, NEW m \in T \ {L}, f[k] = f[m]
          PROVE  k = m
        <3>1. /\ k \in 1 .. L - 1 /\ f[k] = (IF k < n THEN k ELSE k + 1)
              /\ m \in 1 .. L - 1 /\ f[m] = (IF m < n THEN m ELSE m + 1)
            BY <2>1
        <3>2. (IF k < n THEN k ELSE k + 1) = (IF m < n THEN m ELSE m + 1)
            BY <2>3, <3>1
        <3>3. k \in Int /\ m \in Int
            BY <1>1, <3>1
        <3> HIDE DEF f, L, T
        <3> QED
            BY <1>1, <3>2, <3>3
    <2>4. f \in [T \ {L} -> S \ {n}]
        BY <2>1
    <2> HIDE DEF f, S, T
    <2>5. f \in Injection(T \ {L}, S \ {n})
        BY <2>3, <2>4 DEF Injection, IsInjective
    <2>6. f \in Surjection(T \ {L}, S \ {n})
        BY <2>2, <2>4 DEF Surjection
    <2> QED
        BY <2>5, <2>6 DEF Bijection
<1> HIDE DEF S, T, f
<1>5. Cardinality(S \ {n}) = Cardinality(T \ {L})
    <2>1. IsFiniteSet(T \ {L})
        BY <1>2, FS_RemoveElement
    <2>2. ExistsBijection(T \ {L}, S \ {n})
        BY <1>4 DEF ExistsBijection
    <2> QED
        BY <2>1, <2>2, FS_Bijection
<1>6. /\ Cardinality(S) \in Nat /\ Cardinality(T) \in Nat
      /\ Cardinality(S \ {n}) = IF n \in S THEN Cardinality(S) - 1 ELSE Cardinality(S)
      /\ Cardinality(T \ {L}) = IF L \in T THEN Cardinality(T) - 1 ELSE Cardinality(T)
    BY <1>2, FS_RemoveElement, FS_CardinalityType
<1>7. Cardinality(T) = Cardinality(S) - One(n \in S) + One(L \in T)
    BY <1>5, <1>6 DEF One
<1>8. One(n \in S) = One(q[n] \in P) /\ One(L \in T) = One(v[L] \in P)
    BY <1>3 DEF One
<1> QED
    BY <1>7, <1>8 DEF S, T, CountIn

(* The same over all the sets of a cache. *)
PlacesIn(x, c, P) == {p \in SetIdx(c) \X Nat : p[2] \in PlacesOf(x[c][p[1]], P)}
Total(x, c, P) == Cardinality(PlacesIn(x, c, P))

LEMMA TotalType ==
    ASSUME NEW r \in Runs, NEW h, WF(r, h), NEW c \in Caches, NEW P
    PROVE  IsFiniteSet(PlacesIn(h.sets, c, P)) /\ Total(h.sets, c, P) \in Nat
<1> DEFINE w == WaysOf(r, c)
           S == PlacesIn(h.sets, c, P)
<1>1. w \in Nat /\ NumSets[c] \in Nat
    BY CacheAssumption DEF WaysOf
<1>2. ASSUME NEW p \in S
      PROVE  p \in SetIdx(c) \X (1 .. w)
    <2>1. p[1] \in SetIdx(c) /\ p = <<p[1], p[2]>> /\ p[2] \in 1 .. Len(h.sets[c][p[1]])
        BY DEF PlacesIn, PlacesOf
    <2>2. GoodSet(c, p[1], w, h.sets[c][p[1]])
        BY <2>1 DEF WF, SetsOK
    <2>3. Len(h.sets[c][p[1]]) \in Nat /\ Len(h.sets[c][p[1]]) <= w
        BY <2>2 DEF GoodSet
    <2> HIDE DEF w, S
    <2>4. p[2] \in 1 .. w
        BY <1>1, <2>1, <2>3
    <2> QED
        BY <2>1, <2>4
<1>3. IsFiniteSet(SetIdx(c) \X (1 .. w))
    <2> HIDE DEF w
    <2>1. 0 \in Int /\ 1 \in Int /\ NumSets[c] - 1 \in Int /\ w \in Int
        BY <1>1
    <2>2. IsFiniteSet(0 .. NumSets[c] - 1) /\ IsFiniteSet(1 .. w)
        BY <2>1, FS_Interval
    <2> QED
        BY <2>2, FS_Product DEF SetIdx
<1> HIDE DEF S
<1>4. IsFiniteSet(S)
    BY <1>2, <1>3, FS_Subset
<1> QED
    BY <1>4, FS_CardinalityType DEF S, Total

(* The places of one set, and those of the others. *)
Others(x, c, s, P) == {p \in PlacesIn(x, c, P) : p[1] # s}

LEMMA TotalSplit ==
    ASSUME NEW r \in Runs, NEW h, WF(r, h), NEW c \in Caches, NEW s \in SetIdx(c), NEW P
    PROVE  /\ Cardinality(Others(h.sets, c, s, P)) \in Nat
           /\ Total(h.sets, c, P) =
                  Cardinality(Others(h.sets, c, s, P)) + CountIn(h.sets[c][s], P)
<1> DEFINE S == PlacesIn(h.sets, c, P)
           rest == {p \in S : p[1] # s}
           N == PlacesOf(h.sets[c][s], P)
           here == {s} \X N
<1>1. IsFiniteSet(S)
    BY TotalType
<1>2. h.sets[c][s] \in Seq(Entry)
    BY DEF WF, SetsOK, GoodSet
<1>3. IsFiniteSet(N) /\ Cardinality(N) \in Nat
    BY <1>2, CountType DEF CountIn
<1>4. N \subseteq Nat
    BY DEF PlacesOf
<1>5. S = rest \cup here /\ rest \cap here = {}
    <2>1. ASSUME NEW p \in S
          PROVE  p \in rest \cup here
        <3>1. p[1] \in SetIdx(c) /\ p = <<p[1], p[2]>> /\ p[2] \in PlacesOf(h.sets[c][p[1]], P)
            BY DEF PlacesIn
        <3>2. CASE p[1] = s
            BY <3>1, <3>2
        <3>3. CASE p[1] # s
            BY <3>3
        <3> QED
            BY <3>2, <3>3
    <2>2. ASSUME NEW p \in here
          PROVE  p \in S /\ p \notin rest
        BY <1>4 DEF PlacesIn
    <2> HIDE DEF S, here
    <2> QED
        BY <2>1, <2>2
<1>6. IsFiniteSet(here) /\ Cardinality(here) = Cardinality(N)
    <2> HIDE DEF N
    <2>1. IsFiniteSet({s}) /\ Cardinality({s}) = 1
        BY FS_Singleton
    <2>2. IsFiniteSet(here) /\ Cardinality(here) = Cardinality({s}) * Cardinality(N)
        BY <1>3, <2>1, FS_Product
    <2> QED
        BY <1>3, <2>1, <2>2
<1>7. IsFiniteSet(rest) /\ Cardinality(rest) \in Nat
    <2> HIDE DEF S
    <2>1. rest \in SUBSET S
        OBVIOUS
    <2> QED
        BY <1>1, <2>1, FS_Subset, FS_CardinalityType
<1> HIDE DEF S, rest, here, N
<1>8. Cardinality(S) = Cardinality(rest) + Cardinality(here) - Cardinality(rest \cap here)
    BY <1>5, <1>6, <1>7, FS_Union
<1>9. Cardinality(rest \cap here) = 0
    BY <1>5, FS_EmptySet
<1>10. Cardinality(S) = Cardinality(rest) + Cardinality(N)
    BY <1>3, <1>6, <1>7, <1>8, <1>9
<1> QED
    BY <1>7, <1>10 DEF S, rest, N, Total, CountIn, Others

LEMMA TotalChange ==
    ASSUME NEW r \in Runs, NEW h, WF(r, h), NEW g, WF(r, g),
           NEW c \in Caches, NEW s \in SetIdx(c), Elsewhere(h, g, c, s), NEW P
    PROVE  Total(g.sets, c, P) - Total(h.sets, c, P) =
               CountIn(g.sets[c][s], P) - CountIn(h.sets[c][s], P)
<1> DEFINE R(k) == Others(k.sets, c, s, P)
<1>1. R(g) = R(h)
    <2>1. \A t \in SetIdx(c) : t # s => g.sets[c][t] = h.sets[c][t]
        BY DEF Elsewhere
    <2> QED
        BY <2>1 DEF PlacesIn, Others
<1>2. /\ Cardinality(R(h)) \in Nat
      /\ Total(h.sets, c, P) = Cardinality(R(h)) + CountIn(h.sets[c][s], P)
    BY TotalSplit
<1>3. /\ Cardinality(R(g)) \in Nat
      /\ Total(g.sets, c, P) = Cardinality(R(g)) + CountIn(g.sets[c][s], P)
    BY TotalSplit
<1>4. h.sets[c][s] \in Seq(Entry) /\ g.sets[c][s] \in Seq(Entry)
    BY DEF WF, SetsOK, GoodSet
<1>5. CountIn(h.sets[c][s], P) \in Nat /\ CountIn(g.sets[c][s], P) \in Nat
    BY <1>4, CountType
<1>6. Cardinality(R(g)) = Cardinality(R(h))
    BY <1>1
<1> HIDE DEF R
<1> QED
    BY <1>2, <1>3, <1>5, <1>6

-----------------------------------------------------------------------------
(* The books of a cache.                                                   *)

(* Predictions neither refuted nor given up to a prefetch. *)
Open(n) == n["dbp"] - n["miss_pred"] - n["tcp_pr"]

(* The most recent block of an L1 set is not predicted dead: no prediction *)
(* is made of it twice.                                                    *)
Fresh(c, q) == c \in L1s /\ q # <<>> => ~q[Len(q)].pred_dead

BooksOf(h, c) ==
    /\ h.cnt[c]["miss"] - h.cnt[c]["evicted"] = Total(h.sets, c, Entry)
    /\ Total(h.sets, c, DeadEntries) <= Open(h.cnt[c])
    /\ Open(h.cnt[c]) <= Total(h.sets, c, DeadEntries) + h.cnt[c]["evicted"]
    /\ h.cnt[c]["useless"] + Total(h.sets, c, UselessEntries) <= h.cnt[c]["tcp_pr"]
    /\ \A s \in SetIdx(c) : Fresh(c, h.sets[c][s])

Books(h) == \A c \in Caches : BooksOf(h, c)

(* What a set gains, from q to v. *)
Gain(q, v, P) == CountIn(v, P) - CountIn(q, P)

(* The counters of a cache keep up with the change of one of its sets. *)
Booked(m, n, q, v) ==
    /\ (n["miss"] - n["evicted"]) - (m["miss"] - m["evicted"]) = Gain(q, v, Entry)
    /\ Gain(q, v, DeadEntries) <= Open(n) - Open(m)
    /\ Open(n) - Open(m) <= Gain(q, v, DeadEntries) + (n["evicted"] - m["evicted"])
    /\ (n["useless"] - m["useless"]) + Gain(q, v, UselessEntries) <= n["tcp_pr"] - m["tcp_pr"]

LEMMA CountersType ==
    ASSUME NEW r, NEW h, WF(r, h), NEW c \in Caches
    PROVE  \A k \in Counts : h.cnt[c][k] \in Nat
    BY DEF WF

LEMMA CountNames ==
    /\ "miss" \in Counts /\ "evicted" \in Counts /\ "dbp" \in Counts
    /\ "miss_pred" \in Counts /\ "tcp_pr" \in Counts /\ "useless" \in Counts
    BY DEF Counts

LEMMA BooksChange ==
    ASSUME NEW r \in Runs, NEW h, WF(r, h), Books(h), NEW g, WF(r, g),
           NEW c \in Caches, NEW s \in SetIdx(c), Elsewhere(h, g, c, s),
           \A d \in Caches : d # c => g.cnt[d] = h.cnt[d],
           Booked(h.cnt[c], g.cnt[c], h.sets[c][s], g.sets[c][s]),
           Fresh(c, g.sets[c][s])
    PROVE  Books(g)
<1>1. ASSUME NEW d \in Caches, d # c
      PROVE  BooksOf(g, d)
    <2>1. \A t \in SetIdx(d) : g.sets[d][t] = h.sets[d][t]
        BY <1>1 DEF Elsewhere
    <2>2. g.cnt[d] = h.cnt[d]
        BY <1>1
    <2>3. \A P : Total(g.sets, d, P) = Total(h.sets, d, P)
        <3> SUFFICES ASSUME NEW P PROVE Total(g.sets, d, P) = Total(h.sets, d, P)
            OBVIOUS
        <3> DEFINE x == g.sets
                   y == h.sets
        <3>1. \A t \in SetIdx(d) : x[d][t] = y[d][t]
            BY <2>1
        <3> HIDE DEF x, y
        <3>2. PlacesIn(x, d, P) = PlacesIn(y, d, P)
            BY <3>1 DEF PlacesIn
        <3> QED
            BY <3>2 DEF x, y, Total
    <2>4. BooksOf(h, d)
        BY DEF Books
    <2> QED
        BY <2>1, <2>2, <2>3, <2>4 DEF BooksOf
<1>2. BooksOf(g, c)
    <2> DEFINE q == h.sets[c][s]
               v == g.sets[c][s]
               m == h.cnt[c]
               n == g.cnt[c]
               T(k, P) == Total(k.sets, c, P)
    <2>1. \A P : T(h, P) \in Nat /\ T(g, P) \in Nat
        BY TotalType
    <2>2. \A P : T(g, P) - T(h, P) = Gain(q, v, P)
        BY TotalChange DEF Gain
    <2>3. q \in Seq(Entry) /\ v \in Seq(Entry)
        BY DEF WF, SetsOK, GoodSet
    <2>4. \A P : Gain(q, v, P) \in Int
        BY <2>3, CountType DEF Gain
    <2>5. \A k \in Counts : m[k] \in Nat /\ n[k] \in Nat
        BY CountersType
    <2>6. Booked(m, n, q, v)
        OBVIOUS
    <2>7. BooksOf(h, c)
        BY DEF Books
    <2> HIDE DEF T, q, v, m, n
    <2>8. /\ m["miss"] - m["evicted"] = T(h, Entry)
          /\ T(h, DeadEntries) <= Open(m) /\ Open(m) <= T(h, DeadEntries) + m["evicted"]
          /\ m["useless"] + T(h, UselessEntries) <= m["tcp_pr"]
        BY <2>7 DEF T, m, BooksOf
    <2>9. Open(m) \in Int /\ Open(n) \in Int
        BY <2>5, CountNames DEF Open
    <2>10. n["miss"] - n["evicted"] = T(g, Entry)
        BY <2>1, <2>2, <2>4, <2>5, <2>6, <2>8, CountNames DEF Booked
    <2>11. T(g, DeadEntries) <= Open(n) /\ Open(n) <= T(g, DeadEntries) + n["evicted"]
        <3>1. /\ T(g, DeadEntries) - T(h, DeadEntries) <= Open(n) - Open(m)
              /\ Open(n) - Open(m) <=
                     T(g, DeadEntries) - T(h, DeadEntries) + (n["evicted"] - m["evicted"])
            BY <2>2, <2>6 DEF Booked
        <3>2. /\ T(g, DeadEntries) \in Int /\ T(h, DeadEntries) \in Int
              /\ n["evicted"] \in Int /\ m["evicted"] \in Int
            BY <2>1, <2>5, CountNames
        <3> QED
            BY <2>8, <2>9, <3>1, <3>2
    <2>12. n["useless"] + T(g, UselessEntries) <= n["tcp_pr"]
        <3>1. (n["useless"] - m["useless"]) + (T(g, UselessEntries) - T(h, UselessEntries))
                  <= n["tcp_pr"] - m["tcp_pr"]
            BY <2>2, <2>6 DEF Booked
        <3>2. /\ T(g, UselessEntries) \in Int /\ T(h, UselessEntries) \in Int
              /\ n["useless"] \in Int /\ m["useless"] \in Int
              /\ n["tcp_pr"] \in Int /\ m["tcp_pr"] \in Int
            BY <2>1, <2>5, CountNames
        <3> QED
            BY <2>8, <3>1, <3>2
    <2>13. ASSUME NEW t \in SetIdx(c)
           PROVE  Fresh(c, g.sets[c][t])
        <3>1. CASE t = s
            BY <3>1
        <3>2. CASE t # s
            <4>1. g.sets[c][t] = h.sets[c][t]
                BY <3>2 DEF Elsewhere
            <4> QED
                BY <2>7, <4>1 DEF BooksOf
        <3> QED
            BY <3>1, <3>2
    <2> QED
        BY <2>10, <2>11, <2>12, <2>13 DEF BooksOf, T, n
<1> QED
    BY <1>1, <1>2 DEF Books

LEMMA BumpCount ==
    ASSUME NEW r, NEW h, WF(r, h), NEW c \in Caches, NEW k \in Counts, NEW n \in Nat
    PROVE  LET g == Bump(h, c, k, n)
           IN  /\ g.cnt[c][k] = h.cnt[c][k] + n
               /\ \A j \in Counts : j # k => g.cnt[c][j] = h.cnt[c][j]
               /\ \A d \in Caches : d # c => g.cnt[d] = h.cnt[d]
<1> DEFINE y == h.cnt[c][k] + n
           g == [h EXCEPT !.cnt[c][k] = y]
<1>1. Bump(h, c, k, n) = g
    BY DEF Bump
<1> HIDE DEF y
<1>2. g.cnt = [h.cnt EXCEPT ![c][k] = y]
    <2>1. h = [sets |-> h.sets, hist |-> h.hist, cnt |-> h.cnt,
               tr |-> h.tr, ref |-> h.ref, tcp |-> h.tcp]
        BY DEF WF
    <2> QED
        BY <2>1
<1>3. h.cnt \in [Caches -> [Counts -> Nat]]
    BY DEF WF
<1> HIDE DEF g
<1>4. g.cnt[c] = [h.cnt[c] EXCEPT ![k] = y] /\ \A d \in Caches : d # c => g.cnt[d] = h.cnt[d]
    BY <1>2, <1>3
<1>5. h.cnt[c] \in [Counts -> Nat]
    BY <1>3
<1>6. g.cnt[c][k] = y /\ \A j \in Counts : j # k => g.cnt[c][j] = h.cnt[c][j]
    BY <1>4, <1>5
<1> QED
    BY <1>1, <1>4, <1>6 DEF y

(* Entry n of q gone, b's at the end. *)
Shifted(q, v, n, b) ==
    /\ Len(v) = Len(q)
    /\ \A m \in 1 .. Len(q) - 1 :
          /\ v[m].blk = q[IF m < n THEN m ELSE m + 1].blk
          /\ v[m].prefetched = q[IF m < n THEN m ELSE m + 1].prefetched
    /\ v[Len(v)].blk = b /\ (v[Len(v)].prefetched => q[n].prefetched)

(* b's entry added to q. *)
Extended(q, v, b) ==
    /\ Len(v) = Len(q) + 1
    /\ \A m \in 1 .. Len(q) : v[m] = q[m]
    /\ v[Len(v)].blk = b /\ ~v[Len(v)].prefetched

-----------------------------------------------------------------------------
(* The parts of an access keep the books.                                  *)

LEMMA HitBooks ==
    ASSUME NEW r \in Runs, NEW h, WF(r, h), Books(h), NEW c \in Caches, NEW b \in Blocks,
           NEW pc \in Nat, NEW wr \in BOOLEAN, Holds(h.sets[c][SetOf(c, b)], b)
    PROVE  LET g == Hit(h, c, b, pc, wr)
               q == h.sets[c][SetOf(c, b)]
           IN  /\ Books(g)
               /\ \A d \in Caches : d # c => g.cnt[d] = h.cnt[d]
               /\ g.cnt[c]["miss"] = h.cnt[c]["miss"]
               /\ g.cnt[c]["evicted"] = h.cnt[c]["evicted"]
               /\ \E n \in 1 .. Len(q) :
                     q[n].blk = b /\ Shifted(q, g.sets[c][SetOf(c, b)], n, b)
<1> DEFINE s == SetOf(c, b)
           q == h.sets[c][s]
           n == PlaceOf(q, b)
           e == HitEntry(h, c, q[n], wr)
           traced == IF BurstEnds(h, c, q, b)
                     THEN [h EXCEPT !.tr = UpdateTrace(h.tr, b, pc)] ELSE h
           dead == PredictBurst(traced, c, q, b)
           marked == IF dead THEN [q EXCEPT ![Len(q)].pred_dead = TRUE] ELSE q
           v == MakeMru(marked, n, e)
           moved == [traced EXCEPT !.sets[c][s] = v]
           once == Bump(moved, c, "dbp", One(Predicted(dead, e)))
           g == Bump(once, c, "miss_pred", One(q[n].pred_dead))
<1>0. Hit(h, c, b, pc, wr) = g
    BY DEF Hit
<1>1. s \in SetIdx(c) /\ GoodSet(c, s, WaysOf(r, c), q) /\ q \in Seq(Entry)
    BY WFSet
<1>2. n \in 1 .. Len(q) /\ q[n].blk = b
    <2>1. Holds(q, b)
        OBVIOUS
    <2> HIDE DEF q
    <2> QED
        BY <1>1, <2>1, PlaceOfIsPlace
<1>3. q # <<>> /\ q[n] \in Entry /\ Len(q) \in Nat /\ Len(q) >= 1 /\ Len(q) \in 1 .. Len(q)
    <2> HIDE DEF q, n
    <2> QED
        BY <1>1, <1>2, ElementOfSeq, LenProperties, EmptySeq
<1>4. /\ e \in Entry /\ e.blk = b /\ e.prefetched = q[n].prefetched /\ e.referenced
      /\ c \in L1s => ~e.pred_dead
    <2>1. e.referenced
        BY <1>3 DEF HitEntry, Entry
    <2> HIDE DEF q, n
    <2> QED
        BY <1>2, <1>3, <2>1, HitEntryType
<1>5. /\ WF(r, traced) /\ traced.sets = h.sets /\ traced.cnt = h.cnt
    <2>1. CASE BurstEnds(h, c, q, b)
        BY <2>1, UpdateTraceState
    <2>2. CASE ~BurstEnds(h, c, q, b)
        BY <2>2
    <2> QED
        BY <2>1, <2>2
<1>6. BooksOf(h, c) /\ Fresh(c, q)
    BY <1>1 DEF Books, BooksOf
<1>7. dead => c \in L1s /\ n # Len(q) /\ ~q[Len(q)].pred_dead
    <2> HIDE DEF q, n, traced
    <2> QED
        BY <1>2, <1>3, <1>6 DEF Fresh, PredictBurst, BurstEnds, MruBlk
<1>8. Step(r, h, g, c, s) /\ Newest(g, c, b) /\ (c \in L1s => Alive(g, c, b))
    <2> HIDE DEF g
    <2> QED
        BY <1>0, HitState
<1> HIDE DEF n, e, traced, dead, s
<1>9. /\ marked \in Seq(Entry) /\ Len(marked) = Len(q)
      /\ \A m \in 1 .. Len(q) : m # Len(q) => marked[m] = q[m]
      /\ \A m \in 1 .. Len(q) :
             marked[m].blk = q[m].blk /\ marked[m].prefetched = q[m].prefetched
      /\ dead => /\ marked[Len(q)].pred_dead
                 /\ marked[Len(q)].referenced = q[Len(q)].referenced
      /\ ~dead => marked = q
    <2>1. CASE dead
        <3> DEFINE d == [q[Len(q)] EXCEPT !.pred_dead = TRUE]
        <3>1. q[Len(q)] \in Entry
            BY <1>1, <1>3, ElementOfSeq
        <3>2. /\ d \in Entry /\ d.pred_dead /\ d.referenced = q[Len(q)].referenced
              /\ d.blk = q[Len(q)].blk /\ d.prefetched = q[Len(q)].prefetched
            BY <3>1 DEF Entry
        <3>3. marked = [q EXCEPT ![Len(q)] = d]
            BY <2>1
        <3> HIDE DEF d, marked, q
        <3>4. /\ marked \in Seq(Entry) /\ Len(marked) = Len(q)
              /\ \A m \in 1 .. Len(q) : marked[m] = IF m = Len(q) THEN d ELSE q[m]
            BY <1>1, <1>3, <3>2, <3>3, ExceptSeq
        <3> QED
            BY <1>3, <2>1, <3>2, <3>4
    <2>2. CASE ~dead
        BY <1>1, <2>2
    <2> QED
        BY <2>1, <2>2
<1> HIDE DEF marked, q
<1>10. /\ v \in Seq(Entry) /\ Len(v) = Len(marked) /\ v[Len(marked)] = e
       /\ \A m \in 1 .. Len(marked) - 1 : v[m] = marked[IF m < n THEN m ELSE m + 1]
    <2>1. n \in 1 .. Len(marked)
        BY <1>2, <1>9
    <2>2. marked \in Seq(Entry) /\ e \in Entry
        BY <1>4, <1>9
    <2>3. v = MakeMru(marked, n, e)
        OBVIOUS
    <2> HIDE DEF v
    <2> QED
        BY <2>1, <2>2, <2>3, MakeMruProperties
<1>11. ASSUME NEW P
       PROVE  CountIn(v, P) = CountIn(marked, P) - One(marked[n] \in P) + One(e \in P)
    BY <1>2, <1>9, <1>10, CountMoved
<1>12. ASSUME NEW P
       PROVE  CountIn(marked, P) = CountIn(q, P) - One(q[Len(q)] \in P)
                                       + One(marked[Len(q)] \in P)
    BY <1>1, <1>3, <1>9, CountExcept
<1>13. GoodSet(c, s, WaysOf(r, c), v)
    BY <1>1, <1>2, <1>4, <1>9, HitSet
<1> HIDE DEF v
<1>14. /\ WF(r, moved) /\ moved.sets[c][s] = v /\ moved.cnt = h.cnt
    <2>1. s \in SetIdx(c) /\ WF(r, traced) /\ GoodSet(c, s, WaysOf(r, c), v)
        BY <1>1, <1>5, <1>13
    <2>2. WF(r, moved) /\ moved.sets[c][s] = v
        BY <2>1, PutSets
    <2>3. moved.cnt = traced.cnt
        BY <2>1, PutSets
    <2> QED
        BY <1>5, <2>2, <2>3
<1> HIDE DEF moved
<1>15. One(Predicted(dead, e)) \in Nat /\ One(q[n].pred_dead) \in Nat
    BY OneType
<1>16. /\ WF(r, once) /\ once.sets = moved.sets
       /\ once.cnt[c]["dbp"] = h.cnt[c]["dbp"] + One(Predicted(dead, e))
       /\ \A j \in Counts : j # "dbp" => once.cnt[c][j] = h.cnt[c][j]
       /\ \A d \in Caches : d # c => once.cnt[d] = h.cnt[d]
    <2>1. "dbp" \in Counts
        BY CountNames
    <2>2. WF(r, once) /\ once.sets = moved.sets
        BY <1>14, <1>15, <2>1, BumpState
    <2>3. /\ once.cnt[c]["dbp"] = moved.cnt[c]["dbp"] + One(Predicted(dead, e))
          /\ \A j \in Counts : j # "dbp" => once.cnt[c][j] = moved.cnt[c][j]
          /\ \A d \in Caches : d # c => once.cnt[d] = moved.cnt[d]
        BY <1>14, <1>15, <2>1, BumpCount
    <2> HIDE DEF once
    <2> QED
        BY <1>14, <2>2, <2>3
<1> HIDE DEF once
<1>17. /\ g.sets = moved.sets
       /\ g.cnt[c]["miss_pred"] = once.cnt[c]["miss_pred"] + One(q[n].pred_dead)
       /\ \A j \in Counts : j # "miss_pred" => g.cnt[c][j] = once.cnt[c][j]
       /\ \A d \in Caches : d # c => g.cnt[d] = h.cnt[d]
    <2>1. "miss_pred" \in Counts
        BY CountNames
    <2>2. g.sets = once.sets
        BY <1>15, <1>16, <2>1, BumpState
    <2>3. /\ g.cnt[c]["miss_pred"] = once.cnt[c]["miss_pred"] + One(q[n].pred_dead)
          /\ \A j \in Counts : j # "miss_pred" => g.cnt[c][j] = once.cnt[c][j]
          /\ \A d \in Caches : d # c => g.cnt[d] = once.cnt[d]
        BY <1>15, <1>16, <2>1, BumpCount
    <2> HIDE DEF g
    <2> QED
        BY <1>16, <2>2, <2>3
<1> HIDE DEF g
<1>18. g.sets[c][s] = v
    BY <1>14, <1>17
<1>19. /\ g.cnt[c]["miss"] = h.cnt[c]["miss"] /\ g.cnt[c]["evicted"] = h.cnt[c]["evicted"]
       /\ g.cnt[c]["useless"] = h.cnt[c]["useless"] /\ g.cnt[c]["tcp_pr"] = h.cnt[c]["tcp_pr"]
       /\ g.cnt[c]["dbp"] = h.cnt[c]["dbp"] + One(Predicted(dead, e))
       /\ g.cnt[c]["miss_pred"] = h.cnt[c]["miss_pred"] + One(q[n].pred_dead)
    BY <1>16, <1>17, CountNames
<1>20. \A P : /\ CountIn(q, P) \in Nat /\ CountIn(marked, P) \in Nat /\ CountIn(v, P) \in Nat
    BY <1>1, <1>9, <1>10, CountType
<1>21. /\ q[Len(q)] \in Entry /\ marked[Len(q)] \in Entry /\ marked[n] \in Entry
    BY <1>1, <1>2, <1>3, <1>9, ElementOfSeq
<1>22. Gain(q, v, Entry) = 0
    <2>1. /\ One(q[Len(q)] \in Entry) = 1 /\ One(marked[Len(q)] \in Entry) = 1
          /\ One(marked[n] \in Entry) = 1 /\ One(e \in Entry) = 1
        BY <1>4, <1>21 DEF One
    <2> QED
        BY <1>11, <1>12, <1>20, <2>1 DEF Gain
<1>23. Gain(q, v, DeadEntries) = One(Predicted(dead, e)) - One(q[n].pred_dead)
    <2>1. CASE dead
        <3>1. marked[n] = q[n]
            BY <1>2, <1>7, <1>9, <2>1
        <3>2. One(marked[n] \in DeadEntries) = One(q[n].pred_dead)
            BY <1>3, <3>1 DEF DeadEntries, One
        <3>3. q[Len(q)] \notin DeadEntries /\ marked[Len(q)] \in DeadEntries /\ e \notin DeadEntries
            BY <1>4, <1>7, <1>9, <1>21, <2>1 DEF DeadEntries
        <3>4. /\ One(q[Len(q)] \in DeadEntries) = 0 /\ One(marked[Len(q)] \in DeadEntries) = 1
              /\ One(e \in DeadEntries) = 0
            BY <3>3 DEF One
        <3>5. One(Predicted(dead, e)) = 1
            BY <2>1 DEF One, Predicted
        <3> QED
            BY <1>11, <1>12, <1>15, <1>20, <3>2, <3>4, <3>5 DEF Gain
    <2>2. CASE ~dead
        <3>1. One(q[n] \in DeadEntries) = One(q[n].pred_dead)
            BY <1>3 DEF DeadEntries, One
        <3>2. One(e \in DeadEntries) = One(Predicted(dead, e))
            BY <1>4, <2>2 DEF DeadEntries, One, Predicted
        <3>3. CountIn(v, DeadEntries) =
                  CountIn(q, DeadEntries) - One(q[n] \in DeadEntries) + One(e \in DeadEntries)
            BY <1>9, <1>11, <2>2
        <3> QED
            BY <1>15, <1>20, <3>1, <3>2, <3>3 DEF Gain
    <2> QED
        BY <2>1, <2>2
<1>24. Gain(q, v, UselessEntries) <= 0
    <2>1. e \notin UselessEntries
        BY <1>4 DEF UselessEntries, UselessPrefetch
    <2>2. q[Len(q)] \in UselessEntries <=> marked[Len(q)] \in UselessEntries
        <3>1. /\ marked[Len(q)].prefetched = q[Len(q)].prefetched
              /\ marked[Len(q)].referenced = q[Len(q)].referenced
            BY <1>3, <1>9
        <3> QED
            BY <1>21, <3>1 DEF UselessEntries, UselessPrefetch
    <2>3. /\ One(q[Len(q)] \in UselessEntries) = One(marked[Len(q)] \in UselessEntries)
          /\ One(e \in UselessEntries) = 0
        BY <2>1, <2>2 DEF One
    <2>4. /\ One(marked[n] \in UselessEntries) \in Nat
          /\ One(marked[Len(q)] \in UselessEntries) \in Nat
        BY OneType
    <2> QED
        BY <1>11, <1>12, <1>20, <2>3, <2>4 DEF Gain
<1>25. Booked(h.cnt[c], g.cnt[c], q, v)
    <2>1. \A k \in Counts : h.cnt[c][k] \in Nat
        BY CountersType
    <2>2. /\ h.cnt[c]["miss"] \in Nat /\ h.cnt[c]["evicted"] \in Nat
          /\ h.cnt[c]["useless"] \in Nat /\ h.cnt[c]["tcp_pr"] \in Nat
          /\ h.cnt[c]["dbp"] \in Nat /\ h.cnt[c]["miss_pred"] \in Nat
        BY <2>1, CountNames
    <2>3. Gain(q, v, UselessEntries) \in Int
        BY <1>20 DEF Gain
    <2>4. Open(g.cnt[c]) - Open(h.cnt[c]) = Gain(q, v, DeadEntries)
        BY <1>15, <1>19, <1>23, <2>2 DEF Open
    <2>5. Open(g.cnt[c]) - Open(h.cnt[c]) \in Int
        BY <1>15, <1>23, <2>4
    <2> QED
        BY <1>19, <1>22, <1>24, <2>2, <2>3, <2>4, <2>5 DEF Booked
<1>26. Elsewhere(h, g, c, s) /\ WF(r, g)
    BY <1>8 DEF Step
<1>27. Fresh(c, v)
    <2>1. v[Len(v)] = e
        BY <1>9, <1>10
    <2> QED
        BY <1>4, <2>1 DEF Fresh
<1>28. Books(g)
    <2>1. h.sets[c][s] = q
        BY DEF q
    <2> QED
        BY <1>1, <1>17, <1>18, <1>25, <1>26, <1>27, <2>1, BooksChange
<1>29. Shifted(q, v, n, b)
    <2>1. Len(v) = Len(q) /\ v[Len(v)] = e
        BY <1>9, <1>10
    <2>2. ASSUME NEW m \in 1 .. Len(q) - 1
          PROVE  /\ v[m].blk = q[IF m < n THEN m ELSE m + 1].blk
                 /\ v[m].prefetched = q[IF m < n THEN m ELSE m + 1].prefetched
        <3>1. (IF m < n THEN m ELSE m + 1) \in 1 .. Len(q)
            BY <1>2, <1>3
        <3>2. v[m] = marked[IF m < n THEN m ELSE m + 1]
            BY <1>9, <1>10
        <3> QED
            BY <1>9, <3>1, <3>2
    <2> QED
        BY <1>4, <2>1, <2>2 DEF Shifted
<1> QED
    BY <1>0, <1>2, <1>17, <1>18, <1>19, <1>28, <1>29 DEF q, s

LEMMA FetchBooks ==
    ASSUME run \in Runs, NEW h, WF(run, h), Books(h), NEW c \in Caches, NEW b \in Blocks,
           NEW wr \in BOOLEAN, ~Holds(h.sets[c][SetOf(c, b)], b)
    PROVE  LET g == Fetch(h, c, b, wr)
               q == h.sets[c][SetOf(c, b)]
               v == g.sets[c][SetOf(c, b)]
           IN  /\ Books(g)
               /\ \A d \in Caches : d # c => g.cnt[d] = h.cnt[d]
               /\ g.cnt[c]["miss"] = h.cnt[c]["miss"] + 1
               /\ g.cnt[c]["evicted"] = h.cnt[c]["evicted"] + One(Full(c, q))
               /\ IF Full(c, q) THEN Shifted(q, v, 1, b) ELSE Extended(q, v, b)
<1> DEFINE s == SetOf(c, b)
           q == h.sets[c][s]
           e == NewEntry(b, wr)
           v == MissSetOf(c, q, b, wr)
           counted == Bump(h, c, "miss", 1)
           ins == InsertOnMiss(counted, c, b)
           tbl == UpdateTcTbl(ins, c, b)
           sr == [tag_0 |-> h.hist[c][s].tag_1, tag_1 |-> b]
           had == [tbl EXCEPT !.hist[c][s] = sr]
           put == [had EXCEPT !.sets[c][s] = v]
           one == Bump(put, c, "evicted", 1)
           two == Bump(one, c, "useless", One(UselessPrefetch(q[1])))
           evicted == UpdateOnEviction(two, c, q[1])
           g == Fetch(h, c, b, wr)
<1>0. g = IF Full(c, q) THEN evicted ELSE put
    <2>1. CASE Full(c, q)
        BY <2>1 DEF Fetch, MissSetOf
    <2>2. CASE ~Full(c, q)
        BY <2>2 DEF Fetch, MissSetOf
    <2> QED
        BY <2>1, <2>2
<1> HIDE DEF g
<1>1. s \in SetIdx(c) /\ GoodSet(c, s, WaysOf(run, c), q) /\ q \in Seq(Entry) /\ Len(q) \in Nat
    <2>1. s \in SetIdx(c) /\ GoodSet(c, s, WaysOf(run, c), q) /\ q \in Seq(Entry)
        BY WFSet
    <2> QED
        BY <2>1, LenProperties
<1>2. Step(run, h, g, c, s)
    BY FetchState DEF g
<1>3. GoodSet(c, s, WaysOf(run, c), v) /\ Len(v) >= 1 /\ v[Len(v)] = e
    <2>1. WaysOf(run, c) = Ways(c)
        BY DEF Ways, WaysOf
    <2> HIDE DEF v
    <2> QED
        BY <1>1, <2>1, MissSet DEF v
<1>4. e \in Entry /\ ~e.pred_dead /\ ~e.prefetched /\ e.blk = b
    BY NewEntryType
<1>5. /\ WF(run, counted) /\ counted.sets = h.sets /\ counted.hist = h.hist
      /\ counted.cnt[c]["miss"] = h.cnt[c]["miss"] + 1
      /\ \A j \in Counts : j # "miss" => counted.cnt[c][j] = h.cnt[c][j]
      /\ \A d \in Caches : d # c => counted.cnt[d] = h.cnt[d]
    <2>1. "miss" \in Counts /\ 1 \in Nat
        BY CountNames
    <2>2. WF(run, counted) /\ counted.sets = h.sets /\ counted.hist = h.hist
        BY <2>1, BumpState
    <2>3. /\ counted.cnt[c]["miss"] = h.cnt[c]["miss"] + 1
          /\ \A j \in Counts : j # "miss" => counted.cnt[c][j] = h.cnt[c][j]
          /\ \A d \in Caches : d # c => counted.cnt[d] = h.cnt[d]
        BY <2>1, BumpCount
    <2> QED
        BY <2>2, <2>3
<1> HIDE DEF counted, e
<1>6. WF(run, ins) /\ ins.hist = h.hist /\ ins.cnt = counted.cnt
    BY <1>5, InsertState
<1> HIDE DEF ins
<1>7. WF(run, tbl) /\ tbl.cnt = counted.cnt
    BY <1>6, TcTblState
<1> HIDE DEF tbl
<1>8. /\ sr \in TagSR
      /\ sr.tag_0 # NoBlock => SetOf(c, sr.tag_0) = s
      /\ sr.tag_1 # NoBlock => SetOf(c, sr.tag_1) = s
    <2>1. /\ h.hist[c][s] \in TagSR
          /\ h.hist[c][s].tag_1 # NoBlock => SetOf(c, h.hist[c][s].tag_1) = s
        BY <1>1 DEF WF, HistOK
    <2> QED
        BY <2>1 DEF TagSR
<1> HIDE DEF sr
<1>9. WF(run, had) /\ had.cnt = counted.cnt
    <2>1. WF(run, had) /\ had.cnt = tbl.cnt
        BY <1>1, <1>7, <1>8, PutHist
    <2> QED
        BY <1>7, <2>1
<1> HIDE DEF had, v, q, s
<1>10. WF(run, put) /\ put.sets[c][s] = v /\ put.cnt = counted.cnt
    <2>1. s \in SetIdx(c) /\ WF(run, had) /\ GoodSet(c, s, WaysOf(run, c), v)
        BY <1>1, <1>3, <1>9
    <2>2. WF(run, put) /\ put.sets[c][s] = v
        BY <2>1, PutSets
    <2>3. put.cnt = had.cnt
        BY <2>1, PutSets
    <2> QED
        BY <1>9, <2>2, <2>3
<1> HIDE DEF put
<1>11. Elsewhere(h, g, c, s) /\ WF(run, g)
    BY <1>2 DEF Step
<1>12. Fresh(c, v)
    BY <1>3, <1>4 DEF Fresh
<1>13. h.sets[c][s] = q /\ v \in Seq(Entry)
    BY <1>3 DEF q, GoodSet
<1>14. \A P : CountIn(q, P) \in Nat /\ CountIn(v, P) \in Nat
    BY <1>1, <1>13, CountType
<1>15. One(e \in Entry) = 1 /\ One(e \in DeadEntries) = 0 /\ One(e \in UselessEntries) = 0
    BY <1>4 DEF One, DeadEntries, UselessEntries, UselessPrefetch
<1>16. /\ h.cnt[c]["miss"] \in Nat /\ h.cnt[c]["evicted"] \in Nat
       /\ h.cnt[c]["useless"] \in Nat /\ h.cnt[c]["tcp_pr"] \in Nat
       /\ h.cnt[c]["dbp"] \in Nat /\ h.cnt[c]["miss_pred"] \in Nat
    <2>1. \A k \in Counts : h.cnt[c][k] \in Nat
        BY CountersType
    <2> QED
        BY <2>1, CountNames
<1>17. /\ put.cnt[c]["miss"] = h.cnt[c]["miss"] + 1
       /\ put.cnt[c]["evicted"] = h.cnt[c]["evicted"]
       /\ put.cnt[c]["useless"] = h.cnt[c]["useless"]
       /\ put.cnt[c]["tcp_pr"] = h.cnt[c]["tcp_pr"]
       /\ put.cnt[c]["dbp"] = h.cnt[c]["dbp"]
       /\ put.cnt[c]["miss_pred"] = h.cnt[c]["miss_pred"]
    BY <1>5, <1>10, CountNames
<1>18. CASE Full(c, q)
    <2>1. Len(q) >= 1 /\ q # <<>> /\ 1 \in 1 .. Len(q)
        BY <1>1, <1>18, WaysPositive, EmptySeq DEF Full
    <2>2. q[1] \in Entry
        BY <1>1, <2>1, ElementOfSeq
    <2>3. One(UselessPrefetch(q[1])) \in Nat
        BY OneType
    <2>4. /\ WF(run, one) /\ one.sets = put.sets
          /\ one.cnt[c]["evicted"] = put.cnt[c]["evicted"] + 1
          /\ \A j \in Counts : j # "evicted" => one.cnt[c][j] = put.cnt[c][j]
          /\ \A d \in Caches : d # c => one.cnt[d] = put.cnt[d]
        <3>1. "evicted" \in Counts /\ 1 \in Nat
            BY CountNames
        <3>2. WF(run, one) /\ one.sets = put.sets
            BY <1>10, <3>1, BumpState
        <3>3. /\ one.cnt[c]["evicted"] = put.cnt[c]["evicted"] + 1
              /\ \A j \in Counts : j # "evicted" => one.cnt[c][j] = put.cnt[c][j]
              /\ \A d \in Caches : d # c => one.cnt[d] = put.cnt[d]
            BY <1>10, <3>1, BumpCount
        <3> QED
            BY <3>2, <3>3
    <2> HIDE DEF one
    <2>5. /\ WF(run, two) /\ two.sets = one.sets
          /\ two.cnt[c]["useless"] = one.cnt[c]["useless"] + One(UselessPrefetch(q[1]))
          /\ \A j \in Counts : j # "useless" => two.cnt[c][j] = one.cnt[c][j]
          /\ \A d \in Caches : d # c => two.cnt[d] = one.cnt[d]
        <3>1. "useless" \in Counts
            BY CountNames
        <3>2. WF(run, two) /\ two.sets = one.sets
            BY <2>3, <2>4, <3>1, BumpState
        <3>3. /\ two.cnt[c]["useless"] = one.cnt[c]["useless"] + One(UselessPrefetch(q[1]))
              /\ \A j \in Counts : j # "useless" => two.cnt[c][j] = one.cnt[c][j]
              /\ \A d \in Caches : d # c => two.cnt[d] = one.cnt[d]
            BY <2>3, <2>4, <3>1, BumpCount
        <3> QED
            BY <3>2, <3>3
    <2> HIDE DEF two
    <2>6. g = evicted /\ g.sets = two.sets /\ g.cnt = two.cnt
        <3>1. evicted.sets = two.sets /\ evicted.cnt = two.cnt
            BY <2>2, <2>5, EvictState
        <3> QED
            BY <1>0, <1>18, <3>1
    <2> HIDE DEF evicted
    <2>7. /\ g.cnt[c]["miss"] = h.cnt[c]["miss"] + 1
          /\ g.cnt[c]["evicted"] = h.cnt[c]["evicted"] + 1
          /\ g.cnt[c]["useless"] = h.cnt[c]["useless"] + One(UselessPrefetch(q[1]))
          /\ g.cnt[c]["tcp_pr"] = h.cnt[c]["tcp_pr"]
          /\ g.cnt[c]["dbp"] = h.cnt[c]["dbp"]
          /\ g.cnt[c]["miss_pred"] = h.cnt[c]["miss_pred"]
        BY <1>17, <2>4, <2>5, <2>6, CountNames
    <2>8. \A d \in Caches : d # c => g.cnt[d] = h.cnt[d]
        BY <1>5, <1>10, <2>4, <2>5, <2>6
    <2>9. /\ Len(v) = Len(q)
          /\ \A m \in 1 .. Len(q) - 1 : v[m] = q[IF m < 1 THEN m ELSE m + 1]
        <3>1. /\ Tail(q) \in Seq(Entry) /\ Len(Tail(q)) = Len(q) - 1
              /\ \A i \in 1 .. Len(Tail(q)) : Tail(q)[i] = q[i + 1]
            BY <1>1, <2>1, HeadTailProperties
        <3>2. v = Append(Tail(q), e)
            BY <1>18 DEF v, e, MissSetOf
        <3>3. /\ Len(v) = Len(Tail(q)) + 1
              /\ \A i \in 1 .. Len(Tail(q)) : v[i] = Tail(q)[i]
            BY <1>4, <3>1, <3>2, AppendProperties
        <3>4. ASSUME NEW m \in 1 .. Len(q) - 1
              PROVE  v[m] = q[m + 1] /\ ~(m < 1)
            BY <3>1, <3>3
        <3> QED
            BY <1>1, <3>1, <3>3, <3>4
    <2>10. ASSUME NEW P
           PROVE  CountIn(v, P) = CountIn(q, P) - One(q[1] \in P) + One(e \in P)
        BY <1>1, <1>3, <1>13, <2>1, <2>9, CountMoved
    <2>11. Gain(q, v, Entry) = 0
        <3>1. One(q[1] \in Entry) = 1
            BY <2>2 DEF One
        <3> QED
            BY <1>14, <1>15, <2>10, <3>1 DEF Gain
    <2>12. Gain(q, v, DeadEntries) <= 0 /\ 0 <= Gain(q, v, DeadEntries) + 1
        <3>1. One(q[1] \in DeadEntries) \in 0 .. 1
            BY DEF One
        <3> QED
            BY <1>14, <1>15, <2>10, <3>1 DEF Gain
    <2>13. Gain(q, v, UselessEntries) = - One(UselessPrefetch(q[1]))
        <3>1. One(q[1] \in UselessEntries) = One(UselessPrefetch(q[1]))
            BY <2>2 DEF UselessEntries, One
        <3> QED
            BY <1>14, <1>15, <2>3, <2>10, <3>1 DEF Gain
    <2>14. \A P : Gain(q, v, P) \in Int
        BY <1>14 DEF Gain
    <2>15. Booked(h.cnt[c], g.cnt[c], q, v)
        <3>1. Open(g.cnt[c]) - Open(h.cnt[c]) = 0
            BY <1>16, <2>7 DEF Open
        <3> QED
            BY <1>16, <2>3, <2>7, <2>11, <2>12, <2>13, <2>14, <3>1 DEF Booked
    <2>16. g.sets[c][s] = v
        BY <1>10, <2>4, <2>5, <2>6
    <2>17. Books(g)
        BY <1>1, <1>11, <1>12, <1>13, <2>8, <2>15, <2>16, BooksChange
    <2>18. Shifted(q, v, 1, b)
        <3>1. v[Len(v)].blk = b /\ ~v[Len(v)].prefetched
            BY <1>3, <1>4
        <3> QED
            BY <2>9, <3>1 DEF Shifted
    <2>19. One(Full(c, q)) = 1
        BY <1>18 DEF One
    <2> QED
        BY <1>18, <2>7, <2>8, <2>16, <2>17, <2>18, <2>19 DEF g, q, s
<1>19. CASE ~Full(c, q)
    <2>1. g = put
        BY <1>0, <1>19
    <2>2. v = Append(q, e)
        BY <1>19 DEF v, e, MissSetOf
    <2>3. ASSUME NEW P
          PROVE  Gain(q, v, P) = One(e \in P)
        <3>1. CountIn(v, P) = CountIn(q, P) + One(e \in P)
            BY <1>1, <1>4, <2>2, CountAppend
        <3>2. One(e \in P) \in Nat
            BY OneType
        <3> QED
            BY <1>14, <3>1, <3>2 DEF Gain
    <2>4. /\ Gain(q, v, Entry) = 1 /\ Gain(q, v, DeadEntries) = 0
          /\ Gain(q, v, UselessEntries) = 0
        BY <1>15, <2>3
    <2>5. Booked(h.cnt[c], g.cnt[c], q, v)
        <3>1. Open(g.cnt[c]) - Open(h.cnt[c]) = 0
            BY <1>16, <1>17, <2>1 DEF Open
        <3> QED
            BY <1>16, <1>17, <2>1, <2>4, <3>1 DEF Booked
    <2>6. \A d \in Caches : d # c => g.cnt[d] = h.cnt[d]
        BY <1>5, <1>10, <2>1
    <2>7. g.sets[c][s] = v
        BY <1>10, <2>1
    <2>8. Books(g)
        BY <1>1, <1>11, <1>12, <1>13, <2>5, <2>6, <2>7, BooksChange
    <2>9. Extended(q, v, b)
        <3>1. v[Len(v)].blk = b /\ ~v[Len(v)].prefetched
            BY <1>3, <1>4
        <3>2. Len(v) = Len(q) + 1 /\ \A m \in 1 .. Len(q) : v[m] = q[m]
            BY <1>1, <1>4, <2>2, AppendProperties
        <3> QED
            BY <3>1, <3>2 DEF Extended
    <2>10. One(Full(c, q)) = 0
        BY <1>19 DEF One
    <2>11. /\ g.cnt[c]["miss"] = h.cnt[c]["miss"] + 1
           /\ g.cnt[c]["evicted"] = h.cnt[c]["evicted"] + 0
        BY <1>16, <1>17, <2>1
    <2> QED
        BY <1>19, <2>6, <2>7, <2>8, <2>9, <2>10, <2>11 DEF g, q, s
<1> QED
    BY <1>18, <1>19

LEMMA PrefetchBooks ==
    ASSUME NEW r \in Runs, NEW h, WF(r, h), Books(h), NEW c \in Caches, NEW s \in SetIdx(c)
    PROVE  LET g == Prefetch(h, c, s)
           IN  /\ Books(g)
               /\ \A d \in Caches : d # c => g.cnt[d] = h.cnt[d]
<1> DEFINE q == h.sets[c][s]
<1>1. /\ GoodSet(c, s, WaysOf(r, c), q) /\ q \in Seq(Entry) /\ DOMAIN q = 1 .. Len(q)
      /\ Len(q) \in Nat
    <2>1. GoodSet(c, s, WaysOf(r, c), q)
        BY DEF WF, SetsOK
    <2> QED
        BY <2>1 DEF GoodSet
<1>2. CASE Candidates(h, c, s) = {} \/ DeadPlaces(q) = {}
    <2>1. Prefetch(h, c, s) = h
        BY <1>2 DEF Prefetch
    <2> QED
        BY <2>1
<1>3. CASE Candidates(h, c, s) # {} /\ DeadPlaces(q) # {}
    <2> DEFINE b == CHOOSE x \in Candidates(h, c, s) : TRUE
               n == CHOOSE x \in DeadPlaces(q) : \A y \in DeadPlaces(q) : x <= y
               e == PrefetchedEntry(b)
               v == [q EXCEPT ![n] = e]
               put == [h EXCEPT !.sets[c][s] = v]
               one == Bump(put, c, "tcp_pr", 1)
               g == Prefetch(h, c, s)
    <2>1. g = InsertOnMiss(one, c, b)
        <3>1. put = [h EXCEPT !.sets[c][s][n] = PrefetchedEntry(b)]
            OBVIOUS
        <3> HIDE DEF put
        <3> QED
            BY <1>3, <3>1 DEF Prefetch
    <2> HIDE DEF g
    <2>2. b \in Blocks /\ SetOf(c, b) = s
        <3>1. b \in Candidates(h, c, s)
            BY <1>3
        <3> QED
            BY <3>1, CandidateBlocks
    <2>3. n \in DeadPlaces(q)
        <3>1. DeadPlaces(q) \in SUBSET Nat
            BY <1>1 DEF DeadPlaces
        <3>2. \E x \in DeadPlaces(q) : \A y \in DeadPlaces(q) : x <= y
            BY <1>3, <3>1, LeastExists
        <3> QED
            BY <3>2
    <2>4. n \in 1 .. Len(q) /\ q[n].pred_dead
        BY <1>1, <2>3 DEF DeadPlaces
    <2> HIDE DEF b, n
    <2>5. e \in Entry /\ ~e.pred_dead
        BY <2>2, NewEntryType DEF PrefetchedEntry, NewEntry
    <2> HIDE DEF e
    <2>6. /\ v \in Seq(Entry) /\ Len(v) = Len(q) /\ v[n] = e
          /\ \A m \in 1 .. Len(q) : m # n => v[m] = q[m]
        <3> HIDE DEF q
        <3> QED
            BY <1>1, <2>4, <2>5, ExceptSeq
    <2>7. GoodSet(c, s, WaysOf(r, c), v)
        BY <1>1, <2>2, <2>4, PrefetchSet DEF e
    <2> HIDE DEF v, q
    <2>8. WF(r, put) /\ put.sets[c][s] = v /\ put.cnt = h.cnt
        <3>1. WF(r, put) /\ put.sets[c][s] = v
            BY <2>7, PutSets
        <3>2. put.cnt = h.cnt
            BY <2>7, PutSets
        <3> QED
            BY <3>1, <3>2
    <2> HIDE DEF put
    <2>9. /\ WF(r, one) /\ one.sets = put.sets
          /\ one.cnt[c]["tcp_pr"] = h.cnt[c]["tcp_pr"] + 1
          /\ \A j \in Counts : j # "tcp_pr" => one.cnt[c][j] = h.cnt[c][j]
          /\ \A d \in Caches : d # c => one.cnt[d] = h.cnt[d]
        <3>1. "tcp_pr" \in Counts /\ 1 \in Nat
            BY CountNames
        <3>2. WF(r, one) /\ one.sets = put.sets
            BY <2>8, <3>1, BumpState
        <3>3. /\ one.cnt[c]["tcp_pr"] = put.cnt[c]["tcp_pr"] + 1
              /\ \A j \in Counts : j # "tcp_pr" => one.cnt[c][j] = put.cnt[c][j]
              /\ \A d \in Caches : d # c => one.cnt[d] = put.cnt[d]
            BY <2>8, <3>1, BumpCount
        <3> HIDE DEF one
        <3> QED
            BY <2>8, <3>2, <3>3
    <2> HIDE DEF one
    <2>10. g.sets = put.sets /\ g.cnt = one.cnt
        BY <2>1, <2>2, <2>9, InsertState
    <2>11. /\ Step(r, h, g, c, s)
           /\ q # <<>> /\ ~q[Len(q)].pred_dead => v[Len(v)] = q[Len(q)]
        <3>1. /\ Step(r, h, g, c, s)
              /\ q # <<>> /\ ~q[Len(q)].pred_dead =>
                    g.sets[c][s] # <<>> /\ Len(g.sets[c][s]) = Len(q)
                    /\ g.sets[c][s][Len(q)] = q[Len(q)]
            BY PrefetchState DEF g, q
        <3> QED
            BY <2>8, <2>10, <3>1
    <2>12. Fresh(c, v)
        <3>1. Fresh(c, q)
            BY DEF Books, BooksOf, q
        <3>2. v # <<>> => q # <<>>
            BY <1>1, <2>6, EmptySeq
        <3> QED
            BY <2>11, <3>1, <3>2 DEF Fresh
    <2>13. q[n] \in Entry
        BY <1>1, <2>4, ElementOfSeq
    <2>14. ASSUME NEW P
           PROVE  /\ Gain(q, v, P) = One(e \in P) - One(q[n] \in P)
                  /\ One(e \in P) \in 0 .. 1 /\ One(q[n] \in P) \in 0 .. 1
        <3>1. CountIn(v, P) = CountIn(q, P) - One(q[n] \in P) + One(v[n] \in P)
            BY <1>1, <2>4, <2>6, CountExcept
        <3>2. CountIn(v, P) \in Nat /\ CountIn(q, P) \in Nat
            BY <1>1, <2>6, CountType
        <3>3. One(e \in P) \in 0 .. 1 /\ One(q[n] \in P) \in 0 .. 1
            BY DEF One
        <3>4. v[n] = e
            BY <2>6
        <3> QED
            BY <3>1, <3>2, <3>3, <3>4 DEF Gain
    <2>15. /\ Gain(q, v, Entry) = 0
           /\ Gain(q, v, DeadEntries) = - 1
           /\ Gain(q, v, UselessEntries) \in Int /\ Gain(q, v, UselessEntries) <= 1
        <3>1. One(e \in Entry) = 1 /\ One(q[n] \in Entry) = 1
            BY <2>5, <2>13 DEF One
        <3>2. One(e \in DeadEntries) = 0 /\ One(q[n] \in DeadEntries) = 1
            BY <2>4, <2>5, <2>13 DEF One, DeadEntries
        <3>3. Gain(q, v, Entry) = 0
            BY <2>14, <3>1
        <3>4. Gain(q, v, DeadEntries) = - 1
            BY <2>14, <3>2
        <3>5. Gain(q, v, UselessEntries) \in Int /\ Gain(q, v, UselessEntries) <= 1
            BY <2>14
        <3> QED
            BY <3>3, <3>4, <3>5
    <2>16. Booked(h.cnt[c], g.cnt[c], q, v)
        <3>1. \A k \in Counts : h.cnt[c][k] \in Nat
            BY CountersType
        <3>2. /\ h.cnt[c]["miss"] \in Nat /\ h.cnt[c]["evicted"] \in Nat
              /\ h.cnt[c]["useless"] \in Nat /\ h.cnt[c]["tcp_pr"] \in Nat
              /\ h.cnt[c]["dbp"] \in Nat /\ h.cnt[c]["miss_pred"] \in Nat
            BY <3>1, CountNames
        <3>3. /\ g.cnt[c]["miss"] = h.cnt[c]["miss"]
              /\ g.cnt[c]["evicted"] = h.cnt[c]["evicted"]
              /\ g.cnt[c]["useless"] = h.cnt[c]["useless"]
              /\ g.cnt[c]["tcp_pr"] = h.cnt[c]["tcp_pr"] + 1
              /\ g.cnt[c]["dbp"] = h.cnt[c]["dbp"]
              /\ g.cnt[c]["miss_pred"] = h.cnt[c]["miss_pred"]
            BY <2>9, <2>10, CountNames
        <3>4. Open(g.cnt[c]) - Open(h.cnt[c]) = - 1
            BY <3>2, <3>3 DEF Open
        <3> QED
            BY <2>15, <3>2, <3>3, <3>4 DEF Booked
    <2>17. Elsewhere(h, g, c, s) /\ WF(r, g)
        BY <2>11 DEF Step
    <2>18. h.sets[c][s] = q /\ g.sets[c][s] = v
        BY <2>8, <2>10 DEF q
    <2>19. \A d \in Caches : d # c => g.cnt[d] = h.cnt[d]
        BY <2>9, <2>10
    <2>20. Books(g)
        BY <2>12, <2>16, <2>17, <2>18, <2>19, BooksChange
    <2> QED
        BY <2>19, <2>20 DEF g
<1> QED
    BY <1>2, <1>3

LEMMA CountBooks ==
    ASSUME NEW r \in Runs, NEW h, WF(r, h), Books(h), NEW c \in Caches, NEW wr
    PROVE  LET g == CountAccess(h, c, wr)
           IN  /\ Books(g)
               /\ \A d \in Caches : d # c => g.cnt[d] = h.cnt[d]
               /\ g.cnt[c]["miss"] = h.cnt[c]["miss"]
               /\ g.cnt[c]["evicted"] = h.cnt[c]["evicted"]
<1> DEFINE g == CountAccess(h, c, wr)
           k == IF wr THEN "wr" ELSE "rd"
<1>1. k \in Counts /\ k \notin {"miss", "evicted", "dbp", "miss_pred", "tcp_pr", "useless"}
    BY DEF Counts
<1>2. g = Bump(h, c, k, 1)
    BY DEF CountAccess
<1> HIDE DEF k, g
<1>3. /\ g.sets = h.sets
      /\ \A j \in Counts : j # k => g.cnt[c][j] = h.cnt[c][j]
      /\ \A d \in Caches : d # c => g.cnt[d] = h.cnt[d]
    <2>1. 1 \in Nat
        OBVIOUS
    <2>2. g.sets = h.sets
        BY <1>1, <1>2, <2>1, BumpState
    <2>3. /\ \A j \in Counts : j # k => g.cnt[c][j] = h.cnt[c][j]
          /\ \A d \in Caches : d # c => g.cnt[d] = h.cnt[d]
        BY <1>1, <1>2, <2>1, BumpCount
    <2> QED
        BY <2>2, <2>3
<1>4. ASSUME NEW d \in Caches
      PROVE  BooksOf(g, d)
    <2>1. /\ g.cnt[d]["miss"] = h.cnt[d]["miss"] /\ g.cnt[d]["evicted"] = h.cnt[d]["evicted"]
          /\ g.cnt[d]["useless"] = h.cnt[d]["useless"] /\ g.cnt[d]["tcp_pr"] = h.cnt[d]["tcp_pr"]
          /\ g.cnt[d]["dbp"] = h.cnt[d]["dbp"] /\ g.cnt[d]["miss_pred"] = h.cnt[d]["miss_pred"]
        BY <1>1, <1>3, CountNames
    <2>2. Open(g.cnt[d]) = Open(h.cnt[d])
        BY <2>1 DEF Open
    <2>3. BooksOf(h, d)
        BY DEF Books
    <2> QED
        BY <1>3, <2>1, <2>2, <2>3 DEF BooksOf
<1> QED
    BY <1>1, <1>3, <1>4, CountNames DEF Books, g

LEMMA L2Books ==
    ASSUME run \in Runs, NEW h, WF(run, h), Books(h), NEW b \in Blocks, NEW pc \in Nat,
           NEW wr \in BOOLEAN
    PROVE  LET g == AccessL2(h, b, pc, wr)
           IN  Books(g) /\ \A d \in L1s : g.cnt[d] = h.cnt[d]
<1> DEFINE k == CountAccess(h, "L2", wr)
           s == SetOf("L2", b)
<1>0. \A d \in L1s : d \in Caches /\ d # "L2"
    BY DEF Caches, L1s
<1>1. "L2" \in Caches
    BY DEF Caches
<1>2. s \in SetIdx("L2")
    BY <1>1, SetOfRange
<1>3. WF(run, k) /\ Books(k) /\ \A d \in L1s : k.cnt[d] = h.cnt[d]
    <2>1. WF(run, k)
        BY <1>1, CountState DEF Step
    <2>2. Books(k) /\ \A d \in Caches : d # "L2" => k.cnt[d] = h.cnt[d]
        BY <1>1, CountBooks
    <2> HIDE DEF k
    <2> QED
        BY <1>0, <2>1, <2>2
<1>4. CASE Holds(k.sets["L2"][s], b)
    <2>1. AccessL2(h, b, pc, wr) = Hit(k, "L2", b, pc, wr)
        BY <1>4 DEF AccessL2
    <2> DEFINE g == Hit(k, "L2", b, pc, wr)
    <2> HIDE DEF k
    <2>2. Books(g) /\ \A d \in Caches : d # "L2" => g.cnt[d] = k.cnt[d]
        BY <1>1, <1>3, <1>4, HitBooks
    <2> HIDE DEF g
    <2> QED
        BY <1>0, <1>3, <2>1, <2>2 DEF g
<1>5. CASE ~Holds(k.sets["L2"][s], b)
    <2> DEFINE f == Fetch(k, "L2", b, wr)
    <2>1. AccessL2(h, b, pc, wr) = Prefetch(f, "L2", s)
        BY <1>5 DEF AccessL2
    <2> HIDE DEF k
    <2>2. Step(run, k, f, "L2", s)
        BY <1>1, <1>3, <1>5, FetchState
    <2>3. WF(run, f)
        BY <2>2 DEF Step
    <2>4. Books(f) /\ \A d \in Caches : d # "L2" => f.cnt[d] = k.cnt[d]
        BY <1>1, <1>3, <1>5, FetchBooks
    <2> DEFINE g == Prefetch(f, "L2", s)
    <2> HIDE DEF f, s
    <2>5. Books(g) /\ \A d \in Caches : d # "L2" => g.cnt[d] = f.cnt[d]
        BY <1>1, <1>2, <2>3, <2>4, PrefetchBooks
    <2> HIDE DEF g
    <2> QED
        BY <1>0, <1>3, <2>1, <2>4, <2>5 DEF g
<1> QED
    BY <1>4, <1>5

LEMMA ParentBooks ==
    ASSUME run \in Runs, NEW h, WF(run, h), Books(h), NEW victims \in SUBSET Entry,
           NEW b \in Blocks, NEW pc \in Nat, NEW wr \in BOOLEAN
    PROVE  LET g == AskParent(h, victims, b, pc, wr)
           IN  Books(g) /\ \A d \in L1s : g.cnt[d] = h.cnt[d]
<1> DEFINE a == (CHOOSE v \in victims : v.dirty).blk
           k == IF \E v \in victims : v.dirty THEN AccessL2(h, a, pc, TRUE) ELSE h
<1>1. WF(run, k) /\ Books(k) /\ \A d \in L1s : k.cnt[d] = h.cnt[d]
    <2>1. CASE \E v \in victims : v.dirty
        <3>1. a \in Blocks
            BY <2>1 DEF Entry
        <3> HIDE DEF a
        <3>2. k = AccessL2(h, a, pc, TRUE)
            BY <2>1
        <3> HIDE DEF k
        <3> QED
            BY <3>1, <3>2, L2State, L2Books DEF ParentStep
    <2>2. CASE ~ \E v \in victims : v.dirty
        BY <2>2
    <2> QED
        BY <2>1, <2>2
<1> DEFINE g == AccessL2(k, b, pc, wr)
<1>2. AskParent(h, victims, b, pc, wr) = g
    BY DEF AskParent
<1> HIDE DEF k
<1>3. Books(g) /\ \A d \in L1s : g.cnt[d] = k.cnt[d]
    BY <1>1, L2Books
<1> HIDE DEF g
<1> QED
    BY <1>1, <1>2, <1>3

LEMMA AccessBooks ==
    ASSUME run \in Runs, NEW h, WF(run, h), Books(h), NEW c \in L1s, NEW b \in Blocks,
           NEW pc \in Nat, NEW wr \in BOOLEAN
    PROVE  Books(AccessL1(h, c, b, pc, wr))
<1> DEFINE k == CountAccess(h, c, wr)
           s == SetOf(c, b)
           q == k.sets[c][s]
<1>0. c \in Caches
    BY DEF Caches
<1>1. WF(run, k) /\ Books(k)
    BY <1>0, CountState, CountBooks DEF Step
<1>2. s \in SetIdx(c) /\ q \in Seq(Entry)
    BY <1>0, <1>1, WFSet
<1>3. CASE Holds(q, b)
    <2>1. AccessL1(h, c, b, pc, wr) = Hit(k, c, b, pc, wr)
        BY <1>3 DEF AccessL1
    <2> HIDE DEF k
    <2> QED
        BY <1>0, <1>1, <1>3, <2>1, HitBooks
<1>4. CASE ~Holds(q, b)
    <2> DEFINE f == Fetch(k, c, b, wr)
               p == AskParent(f, Victims(c, q), b, pc, wr)
    <2>1. AccessL1(h, c, b, pc, wr) = Prefetch(p, c, s)
        BY <1>4 DEF AccessL1
    <2> HIDE DEF k
    <2>2. Step(run, k, f, c, s)
        BY <1>0, <1>1, <1>4, FetchState
    <2>3. WF(run, f)
        BY <2>2 DEF Step
    <2>4. Books(f)
        BY <1>0, <1>1, <1>4, FetchBooks
    <2>5. Victims(c, q) \in SUBSET Entry
        <3>1. CASE Full(c, q)
            <4>1. Len(q) >= 1 /\ Len(q) \in Nat
                BY <1>0, <1>2, <3>1, WaysPositive, LenProperties DEF Full
            <4>2. q[1] \in Entry
                BY <1>2, <4>1, ElementOfSeq
            <4> QED
                BY <3>1, <4>2 DEF Victims
        <3>2. CASE ~Full(c, q)
            BY <3>2 DEF Victims
        <3> QED
            BY <3>1, <3>2
    <2> HIDE DEF f, q
    <2>6. WF(run, p) /\ Books(p)
        BY <2>3, <2>4, <2>5, ParentState, ParentBooks DEF ParentStep
    <2> HIDE DEF p, s
    <2> QED
        BY <1>0, <1>2, <2>1, <2>6, PrefetchBooks
<1> QED
    BY <1>3, <1>4

LEMMA BooksInit == CacheInit => Books(State)
<1> SUFFICES ASSUME CacheInit PROVE Books(State)
    OBVIOUS
<1>1. ASSUME NEW c \in Caches
      PROVE  BooksOf(State, c)
    <2>1. \A s \in SetIdx(c) : State.sets[c][s] = <<>>
        BY DEF CacheInit, State
    <2>2. \A P : PlacesIn(State.sets, c, P) = {}
        <3>1. Len(<<>>) = 0
            OBVIOUS
        <3>2. \A P : PlacesOf(<<>>, P) = {}
            BY <3>1 DEF PlacesOf
        <3> QED
            BY <2>1, <3>2 DEF PlacesIn
    <2>3. \A P : Total(State.sets, c, P) = 0
        BY <2>2, FS_EmptySet DEF Total
    <2>4. \A k \in Counts : State.cnt[c][k] = 0
        BY DEF CacheInit, State
    <2>5. \A s \in SetIdx(c) : Fresh(c, State.sets[c][s])
        BY <2>1 DEF Fresh
    <2>6. /\ State.cnt[c]["miss"] = 0 /\ State.cnt[c]["evicted"] = 0
          /\ State.cnt[c]["useless"] = 0 /\ State.cnt[c]["tcp_pr"] = 0
          /\ State.cnt[c]["dbp"] = 0 /\ State.cnt[c]["miss_pred"] = 0
        BY <2>4, CountNames
    <2>7. Open(State.cnt[c]) = 0
        BY <2>6 DEF Open
    <2> QED
        BY <2>3, <2>5, <2>6, <2>7 DEF BooksOf
<1> QED
    BY <1>1 DEF Books

LEMMA AccessKeepsBooks ==
    ASSUME CacheInv, Books(State), NEW c \in L1s, NEW b \in Blocks, NEW pc \in Nat,
           NEW wr \in BOOLEAN, Access(c, b, pc, wr)
    PROVE  Books(State)'
<1>1. PICK g : g = AccessL1(State, c, b, pc, wr)
    OBVIOUS
<1>2. State' = g /\ run \in Runs /\ WF(run, State)
    BY <1>1, AccessStep
<1>3. Books(g)
    BY <1>1, <1>2, AccessBooks
<1>4. Books(State')
    BY <1>2, <1>3
<1> QED
    BY <1>4

LEMMA BooksNext ==
    ASSUME CacheInv, Books(State), [CHNext]_chvars
    PROVE  Books(State)'
<1>1. CASE CHNext
    BY <1>1, NextIsAccess, AccessKeepsBooks
<1>2. CASE UNCHANGED chvars
    <2>1. State' = State
        BY <1>2 DEF chvars, cvars, State
    <2>2. Books(State')
        BY <2>1
    <2> QED
        BY <2>2
<1> QED
    BY <1>1, <1>2

LEMMA BooksInvariant == CHSpec => [](CacheInv /\ Books(State))
<1>1. CHInit => CacheInv /\ Books(State)
    BY CacheInitInv, BooksInit DEF CHInit
<1>2. CacheInv /\ Books(State) /\ [CHNext]_chvars => (CacheInv /\ Books(State))'
    BY CacheNextInv, BooksNext
<1> QED
    BY <1>1, <1>2, PTL DEF CHSpec

(* The entries a property counts are those the books count. *)
LEMMA PlacesAre ==
    ASSUME CacheInv, NEW c \in Caches
    PROVE  /\ Places(c) = PlacesIn(sets, c, Entry)
           /\ \A x \in Places(c) : EntryAt(c, x) \in Entry
           /\ \A P : PlacesIn(sets, c, P) = {x \in Places(c) : EntryAt(c, x) \in P}
<1>1. ASSUME NEW x \in Places(c)
      PROVE  /\ x \in PlacesIn(sets, c, Entry) /\ EntryAt(c, x) \in Entry
             /\ \A P : EntryAt(c, x) \in P => x \in PlacesIn(sets, c, P)
    <2>1. /\ x[1] \in SetIdx(c) /\ x[2] \in 1 .. Len(sets[c][x[1]])
          /\ x = <<x[1], x[2]>> /\ EntryAt(c, x) = sets[c][x[1]][x[2]]
        BY PlaceInSet
    <2>2. sets[c][x[1]] \in Seq(Entry)
        BY <2>1, SetsWellFormed DEF GoodSet
    <2>3. sets[c][x[1]][x[2]] \in Entry
        BY <2>1, <2>2, ElementOfSeq
    <2>4. x \in SetIdx(c) \X Nat
        BY <2>1
    <2> QED
        BY <2>1, <2>3, <2>4 DEF PlacesIn, PlacesOf
<1>2. ASSUME NEW P, NEW x \in PlacesIn(sets, c, P)
      PROVE  x \in Places(c) /\ EntryAt(c, x) \in P
    <2>1. /\ x \in SetIdx(c) \X Nat /\ x[2] \in 1 .. Len(sets[c][x[1]])
          /\ sets[c][x[1]][x[2]] \in P
        BY DEF PlacesIn, PlacesOf
    <2>2. x[1] \in SetIdx(c) /\ x = <<x[1], x[2]>> /\ x[2] \in Nat
        BY <2>1
    <2>3. /\ sets[c][x[1]] \in Seq(Entry) /\ Len(sets[c][x[1]]) <= Ways(c)
        BY <2>2, SetsWellFormed DEF GoodSet
    <2>4. Len(sets[c][x[1]]) \in Nat /\ DOMAIN sets[c][x[1]] = 1 .. Len(sets[c][x[1]])
        BY <2>3
    <2>5. run \in Runs
        BY DEF CacheInv
    <2>6. Ways(c) \in Nat
        BY <2>5, WaysPositive
    <2>7. x[2] \in 1 .. Ways(c)
        BY <2>1, <2>2, <2>3, <2>4, <2>6
    <2>8. x \in SetIdx(c) \X (1 .. Ways(c))
        BY <2>2, <2>7
    <2> QED
        BY <2>1, <2>4, <2>8 DEF Places, EntryAt
<1> QED
    BY <1>1, <1>2

LEMMA BooksView ==
    ASSUME CacheInv, Books(State), NEW c \in Caches
    PROVE  /\ counters[c]["miss"] - counters[c]["evicted"] = Cardinality(Places(c))
           /\ Cardinality({x \in Places(c) : EntryAt(c, x).pred_dead}) <= Open(counters[c])
           /\ Open(counters[c]) <=
                 Cardinality({x \in Places(c) : EntryAt(c, x).pred_dead})
                     + counters[c]["evicted"]
           /\ counters[c]["useless"]
                 + Cardinality({x \in Places(c) : UselessPrefetch(EntryAt(c, x))})
                     <= counters[c]["tcp_pr"]
<1>1. BooksOf(State, c) /\ State.sets = sets /\ State.cnt = counters
    BY DEF Books, State
<1>2. /\ Places(c) = PlacesIn(sets, c, Entry)
      /\ \A x \in Places(c) : EntryAt(c, x) \in Entry
      /\ \A P : PlacesIn(sets, c, P) = {x \in Places(c) : EntryAt(c, x) \in P}
    BY PlacesAre
<1>3. PlacesIn(sets, c, DeadEntries) = {x \in Places(c) : EntryAt(c, x).pred_dead}
    <2>1. \A x \in Places(c) : EntryAt(c, x) \in DeadEntries <=> EntryAt(c, x).pred_dead
        BY <1>2 DEF DeadEntries
    <2> QED
        BY <1>2, <2>1
<1>4. PlacesIn(sets, c, UselessEntries) = {x \in Places(c) : UselessPrefetch(EntryAt(c, x))}
    <2>1. \A x \in Places(c) :
              EntryAt(c, x) \in UselessEntries <=> UselessPrefetch(EntryAt(c, x))
        BY <1>2 DEF UselessEntries
    <2> QED
        BY <1>2, <2>1
<1> QED
    BY <1>1, <1>2, <1>3, <1>4 DEF BooksOf, Total

LEMMA MissesHold == CacheInv /\ Books(State) => MissesAccounted
BY BooksView, SetsWellFormed DEF MissesAccounted, GoodSet

(* Whatever was missed is in the cache or was evicted, once: the misses    *)
(* less the evictions are the entries, in every cache, and a set has no    *)
(* more of them than ways.                                                 *)
THEOREM MissesCorrect == CHSpec => []MissesAccounted
BY MissesHold, BooksInvariant, PTL

LEMMA PredictionsHold == CacheInv /\ Books(State) => PredictionsAccounted
BY BooksView DEF PredictionsAccounted, Counted, Open

(* No dead-block prediction is counted twice or lost: those that stand,    *)
(* were refuted, gave way to a prefetch or were evicted make up all.       *)
THEOREM PredictionsCorrect == CHSpec => []PredictionsAccounted
BY PredictionsHold, BooksInvariant, PTL

LEMMA PrefetchesHold == CacheInv /\ Books(State) => PrefetchesAccounted
BY BooksView DEF PrefetchesAccounted, Counted, UselessPrefetch

(* A prefetch is called useless once at most, and only as it leaves.       *)
THEOREM PrefetchesCorrect == CHSpec => []PrefetchesAccounted
BY PrefetchesHold, BooksInvariant, PTL

-----------------------------------------------------------------------------
(* The LRU order, without the prefetcher.                                  *)

(* What was used through a cache, and what after what. *)
PastOK(past) ==
    /\ past = [x \in DOMAIN past |-> past[x]]
    /\ DOMAIN past \subseteq Blocks /\ IsFiniteSet(DOMAIN past)
    /\ \A x \in DOMAIN past : past[x] \subseteq DOMAIN past \ {x}
    /\ \A x, y \in DOMAIN past : y \in past[x] => x \notin past[y]

UsedAfter(past, b) ==
    [x \in DOMAIN past \cup {b} |-> IF x = b THEN {} ELSE past[x] \cup {b}]

(* Set s of cache c lists its blocks in the order of their last use, and   *)
(* is full of later ones when a block of the set is not in it.             *)
InOrder(past, c, s, w, q) ==
    /\ \A n \in 1 .. Len(q) : q[n].blk \in DOMAIN past /\ ~q[n].prefetched
    /\ \A m, n \in 1 .. Len(q) : m < n => q[n].blk \in past[q[m].blk]
    /\ \A x \in DOMAIN past :
          SetOf(c, x) = s /\ (\A n \in 1 .. Len(q) : q[n].blk # x) =>
              Len(q) = w /\ \A n \in 1 .. Len(q) : q[n].blk \in past[x]

LEMMA UsedAfterOK ==
    ASSUME NEW past, PastOK(past), NEW b \in Blocks
    PROVE  /\ PastOK(UsedAfter(past, b))
           /\ DOMAIN UsedAfter(past, b) = DOMAIN past \cup {b}
           /\ UsedAfter(past, b)[b] = {}
           /\ \A x \in DOMAIN past : x # b => UsedAfter(past, b)[x] = past[x] \cup {b}
<1> DEFINE U == DOMAIN past
           f == UsedAfter(past, b)
<1>1. DOMAIN f = U \cup {b}
    BY DEF UsedAfter
<1>2. f = [x \in DOMAIN f |-> f[x]]
    BY DEF UsedAfter
<1>3. f[b] = {} /\ \A x \in U : x # b => f[x] = past[x] \cup {b}
    BY DEF UsedAfter
<1> HIDE DEF f
<1>4. IsFiniteSet(U \cup {b})
    BY FS_AddElement DEF PastOK
<1>5. \A x \in U \cup {b} : f[x] \subseteq (U \cup {b}) \ {x}
    BY <1>3 DEF PastOK
<1>6. ASSUME NEW x \in U \cup {b}, NEW y \in U \cup {b}, y \in f[x], x \in f[y]
      PROVE  FALSE
    <2>1. x # b /\ y # b
        BY <1>3, <1>6
    <2>2. y \in past[x] /\ x \in past[y]
        BY <1>3, <1>6, <2>1
    <2> QED
        BY <2>1, <2>2 DEF PastOK
<1>7. PastOK(f)
    BY <1>1, <1>2, <1>4, <1>5, <1>6 DEF PastOK
<1> QED
    BY <1>1, <1>3, <1>7 DEF f

(* The block used goes to the end, and the entry n that makes room for it  *)
(* was its own or, in a full set, the least recent one.                    *)
LEMMA ShiftedInOrder ==
    ASSUME NEW past, PastOK(past), NEW c, NEW s, NEW w, NEW q, InOrder(past, c, s, w, q),
           Len(q) \in Nat,
           NEW b \in Blocks, NEW n \in 1 .. Len(q), NEW v, Shifted(q, v, n, b),
           \A m \in 1 .. Len(q) : q[m].blk = b => m = n,
           q[n].blk = b \/ (Len(q) = w /\ n = 1)
    PROVE  InOrder(UsedAfter(past, b), c, s, w, v)
<1> DEFINE f == UsedAfter(past, b)
<1>1. /\ DOMAIN f = DOMAIN past \cup {b} /\ f[b] = {}
      /\ \A x \in DOMAIN past : x # b => f[x] = past[x] \cup {b}
    <2>1. PastOK(past) /\ b \in Blocks
        OBVIOUS
    <2> QED
        BY ONLY <2>1, UsedAfterOK
<1> HIDE DEF f
<1> DEFINE Old(m) == IF m < n THEN m ELSE m + 1
           L == Len(q)
<1>2. Len(v) = L /\ L \in Nat /\ L \in 1 .. L /\ L >= 1
    BY DEF Shifted
<1>3. \A m \in 1 .. L : m = L \/ m \in 1 .. L - 1
    BY <1>2
<1>4. ASSUME NEW m \in 1 .. L - 1
      PROVE  /\ Old(m) \in 1 .. L /\ Old(m) # n
             /\ v[m].blk = q[Old(m)].blk /\ v[m].prefetched = q[Old(m)].prefetched
    BY <1>2 DEF Shifted
<1>5. \A m \in 1 .. L - 1 : \A k \in 1 .. L - 1 : m < k => Old(m) < Old(k)
    BY <1>2
<1> HIDE DEF Old
<1>6. v[L].blk = b /\ ~v[L].prefetched
    BY <1>2 DEF Shifted, InOrder
<1>7. \A m \in 1 .. L - 1 : v[m].blk \in DOMAIN past /\ v[m].blk # b
    BY <1>4 DEF InOrder
<1>8. ASSUME NEW m \in 1 .. L
      PROVE  v[m].blk \in DOMAIN f /\ ~v[m].prefetched
    <2>1. CASE m = L
        BY <1>1, <1>6, <2>1
    <2>2. CASE m \in 1 .. L - 1
        BY <1>1, <1>4, <1>7, <2>2 DEF InOrder
    <2> QED
        BY <1>3, <2>1, <2>2
<1>9. ASSUME NEW m \in 1 .. L, NEW k \in 1 .. L, m < k
      PROVE  v[k].blk \in f[v[m].blk]
    <2>1. m \in 1 .. L - 1
        BY <1>2, <1>9
    <2>2. f[v[m].blk] = past[v[m].blk] \cup {b}
        BY <1>1, <1>7, <2>1
    <2>3. CASE k = L
        BY <1>6, <2>2, <2>3
    <2>4. CASE k \in 1 .. L - 1
        <3>1. Old(m) < Old(k) /\ Old(m) \in 1 .. L /\ Old(k) \in 1 .. L
            BY <1>4, <1>5, <1>9, <2>1, <2>4
        <3>2. q[Old(k)].blk \in past[q[Old(m)].blk]
            BY <3>1 DEF InOrder
        <3> QED
            BY <1>4, <2>1, <2>2, <2>4, <3>2
    <2> QED
        BY <1>3, <2>3, <2>4
<1>10. ASSUME NEW x \in DOMAIN f, SetOf(c, x) = s, \A m \in 1 .. L : v[m].blk # x
       PROVE  L = w /\ \A m \in 1 .. L : v[m].blk \in f[x]
    <2>1. x # b /\ x \in DOMAIN past
        BY <1>1, <1>2, <1>6, <1>10
    <2>2. f[x] = past[x] \cup {b}
        BY <1>1, <2>1
    <2>3. L = w /\ \A m \in 1 .. L : m # n => q[m].blk \in past[x]
        <3>1. CASE \A m \in 1 .. L : q[m].blk # x
            BY <2>1, <1>10, <3>1 DEF InOrder
        <3>2. CASE \E m \in 1 .. L : q[m].blk = x
            <4>1. PICK j \in 1 .. L : q[j].blk = x
                BY <3>2
            <4>2. j = n
                <5>1. SUFFICES ASSUME j # n PROVE FALSE
                    OBVIOUS
                <5> DEFINE i == IF j < n THEN j ELSE j - 1
                <5>2. i \in 1 .. L - 1 /\ i \in 1 .. L /\ Old(i) = j
                    BY <1>2, <5>1 DEF Old
                <5> HIDE DEF i
                <5>3. v[i].blk = x
                    BY <1>4, <4>1, <5>2
                <5> QED
                    BY <1>10, <5>2, <5>3
            <4>3. L = w /\ n = 1
                BY <2>1, <4>1, <4>2
            <4>4. \A m \in 1 .. L : m # n => n < m
                BY <1>2, <4>3
            <4> QED
                BY <4>1, <4>2, <4>3, <4>4 DEF InOrder
        <3> QED
            BY <3>1, <3>2
    <2>4. ASSUME NEW m \in 1 .. L
          PROVE  v[m].blk \in f[x]
        <3>1. CASE m = L
            BY <1>6, <2>2, <3>1
        <3>2. CASE m \in 1 .. L - 1
            BY <1>4, <2>2, <2>3, <3>2
        <3> QED
            BY <1>3, <3>1, <3>2
    <2> QED
        BY <2>3, <2>4
<1> QED
    BY <1>2, <1>8, <1>9, <1>10 DEF InOrder, f

LEMMA ExtendedInOrder ==
    ASSUME NEW past, PastOK(past), NEW c, NEW s, NEW w, NEW q, InOrder(past, c, s, w, q),
           Len(q) \in Nat, Len(q) # w,
           NEW b \in Blocks, NEW v, Extended(q, v, b),
           \A m \in 1 .. Len(q) : q[m].blk # b
    PROVE  InOrder(UsedAfter(past, b), c, s, w, v)
<1> DEFINE f == UsedAfter(past, b)
           L == Len(q)
<1>1. /\ DOMAIN f = DOMAIN past \cup {b} /\ f[b] = {}
      /\ \A x \in DOMAIN past : x # b => f[x] = past[x] \cup {b}
    BY UsedAfterOK
<1> HIDE DEF f
<1>2. /\ Len(v) = L + 1 /\ v[L + 1].blk = b /\ ~v[L + 1].prefetched
      /\ \A m \in 1 .. L : v[m] = q[m]
    BY DEF Extended
<1>3. \A m \in 1 .. L + 1 : m = L + 1 \/ m \in 1 .. L
    OBVIOUS
<1>4. L + 1 \in 1 .. L + 1 /\ \A m \in 1 .. L : m \in 1 .. L + 1
    OBVIOUS
<1>5. ASSUME NEW m \in 1 .. L + 1
      PROVE  v[m].blk \in DOMAIN f /\ ~v[m].prefetched
    BY <1>1, <1>2, <1>3 DEF InOrder
<1>6. ASSUME NEW m \in 1 .. L + 1, NEW k \in 1 .. L + 1, m < k
      PROVE  v[k].blk \in f[v[m].blk]
    <2>1. m \in 1 .. L
        BY <1>6
    <2>2. v[m].blk = q[m].blk /\ q[m].blk \in DOMAIN past /\ q[m].blk # b
        BY <1>2, <2>1 DEF InOrder
    <2>3. f[v[m].blk] = past[q[m].blk] \cup {b}
        BY <1>1, <2>2
    <2>4. CASE k = L + 1
        BY <1>2, <2>3, <2>4
    <2>5. CASE k \in 1 .. L
        BY <1>2, <1>6, <2>1, <2>3, <2>5 DEF InOrder
    <2> QED
        BY <1>3, <2>4, <2>5
<1>7. ASSUME NEW x \in DOMAIN f, SetOf(c, x) = s, \A m \in 1 .. L + 1 : v[m].blk # x
      PROVE  FALSE
    <2>1. x # b /\ x \in DOMAIN past
        BY <1>1, <1>2, <1>4, <1>7
    <2>2. \A m \in 1 .. L : q[m].blk # x
        BY <1>2, <1>4, <1>7
    <2> QED
        BY <1>7, <2>1, <2>2 DEF InOrder
<1> QED
    BY <1>2, <1>5, <1>6, <1>7 DEF InOrder, f

LEMMA ElsewhereInOrder ==
    ASSUME NEW past, PastOK(past), NEW c, NEW s, NEW w, NEW q, InOrder(past, c, s, w, q),
           NEW b \in Blocks, SetOf(c, b) # s, \A m \in 1 .. Len(q) : SetOf(c, q[m].blk) = s
    PROVE  InOrder(UsedAfter(past, b), c, s, w, q)
<1> DEFINE f == UsedAfter(past, b)
<1>1. /\ DOMAIN f = DOMAIN past \cup {b} /\ f[b] = {}
      /\ \A x \in DOMAIN past : x # b => f[x] = past[x] \cup {b}
    BY UsedAfterOK
<1> HIDE DEF f
<1>2. \A m \in 1 .. Len(q) : q[m].blk # b
    OBVIOUS
<1>3. \A m \in 1 .. Len(q) : q[m].blk \in DOMAIN f /\ ~q[m].prefetched
    BY <1>1 DEF InOrder
<1>4. \A m, n \in 1 .. Len(q) : m < n => q[n].blk \in f[q[m].blk]
    BY <1>1, <1>2 DEF InOrder
<1>5. ASSUME NEW x \in DOMAIN f, SetOf(c, x) = s, \A n \in 1 .. Len(q) : q[n].blk # x
      PROVE  Len(q) = w /\ \A n \in 1 .. Len(q) : q[n].blk \in f[x]
    <2>1. x # b /\ x \in DOMAIN past
        BY <1>1, <1>5
    <2> QED
        BY <1>1, <1>5, <2>1 DEF InOrder
<1> QED
    BY <1>3, <1>4, <1>5 DEF InOrder, f

(* The blocks of a cache, and those an LRU cache of w ways would hold. *)
BlocksIn(x, c) == {b \in Blocks : Holds(x[c][SetOf(c, b)], b)}

RivalsSince(past, c, x) == {y \in past[x] : SetOf(c, y) = SetOf(c, x)}

LatestOf(past, c, w) == {x \in DOMAIN past : Cardinality(RivalsSince(past, c, x)) < w}

LEMMA LatestAreIn ==
    ASSUME NEW r \in Runs, NEW h, WF(r, h), NEW c \in Caches, NEW past, PastOK(past),
           \A s \in SetIdx(c) : InOrder(past, c, s, WaysOf(r, c), h.sets[c][s])
    PROVE  BlocksIn(h.sets, c) = LatestOf(past, c, WaysOf(r, c))
<1> DEFINE w == WaysOf(r, c)
<1>1. ASSUME NEW b \in Blocks
      PROVE  LET q == h.sets[c][SetOf(c, b)]
             IN  /\ InOrder(past, c, SetOf(c, b), w, q)
                 /\ q \in Seq(Entry) /\ Len(q) \in Nat /\ DOMAIN q = 1 .. Len(q) /\ Len(q) <= w
                 /\ \A n \in 1 .. Len(q) : SetOf(c, q[n].blk) = SetOf(c, b)
                 /\ \A m, n \in 1 .. Len(q) : q[m].blk = q[n].blk => m = n
    <2> DEFINE s == SetOf(c, b)
               q == h.sets[c][s]
    <2>1. s \in SetIdx(c) /\ GoodSet(c, s, w, q) /\ q \in Seq(Entry)
        BY WFSet
    <2>2. InOrder(past, c, s, w, q)
        BY <2>1
    <2> HIDE DEF q, s, w
    <2>3. \A n \in 1 .. Len(q) : ~q[n].prefetched
        BY <2>2 DEF InOrder
    <2>4. \A m, n \in 1 .. Len(q) : q[m].blk = q[n].blk => m = n
        BY <2>1, <2>3 DEF GoodSet
    <2>5. Len(q) \in Nat /\ DOMAIN q = 1 .. Len(q)
        BY <2>1
    <2>6. Len(q) <= w /\ \A n \in 1 .. Len(q) : SetOf(c, q[n].blk) = s
        BY <2>1 DEF GoodSet
    <2> QED
        BY <2>1, <2>2, <2>4, <2>5, <2>6 DEF q, s
<1>2. w \in Nat
    BY CacheAssumption DEF WaysOf
<1> HIDE DEF w
<1>3. ASSUME NEW x \in BlocksIn(h.sets, c)
      PROVE  x \in LatestOf(past, c, w)
    <2> DEFINE q == h.sets[c][SetOf(c, x)]
               R == RivalsSince(past, c, x)
    <2>1. x \in Blocks /\ Holds(q, x)
        BY DEF BlocksIn
    <2>2. /\ InOrder(past, c, SetOf(c, x), w, q) /\ Len(q) \in Nat /\ DOMAIN q = 1 .. Len(q)
          /\ Len(q) <= w /\ \A n \in 1 .. Len(q) : SetOf(c, q[n].blk) = SetOf(c, x)
        BY <1>1, <2>1
    <2> HIDE DEF q
    <2>3. PICK m \in 1 .. Len(q) : q[m].blk = x
        BY <2>1, <2>2 DEF Holds
    <2>4. x \in DOMAIN past
        BY <2>2, <2>3 DEF InOrder
    <2> DEFINE f == [n \in m + 1 .. Len(q) |-> q[n].blk]
    <2>5. ASSUME NEW n \in m + 1 .. Len(q)
          PROVE  q[n].blk \in R
        <3>1. n \in 1 .. Len(q) /\ m < n
            BY <2>2
        <3> QED
            BY <2>2, <2>3, <3>1 DEF InOrder, RivalsSince
    <2>6. ASSUME NEW y \in R
          PROVE  \E n \in m + 1 .. Len(q) : q[n].blk = y
        <3>1. y \in past[x] /\ SetOf(c, y) = SetOf(c, x)
            BY DEF RivalsSince
        <3>2. y \in DOMAIN past /\ y # x /\ x \notin past[y]
            BY <2>4, <3>1 DEF PastOK
        <3>3. PICK n \in 1 .. Len(q) : q[n].blk = y
            BY <2>2, <2>3, <3>1, <3>2 DEF InOrder
        <3>4. ~(n < m)
            BY <2>2, <2>3, <3>1, <3>2, <3>3 DEF InOrder
        <3>5. n # m
            BY <2>3, <3>2, <3>3
        <3>6. n \in m + 1 .. Len(q)
            BY <2>2, <3>4, <3>5
        <3> QED
            BY <3>3, <3>6
    <2> HIDE DEF R
    <2>7. f \in Surjection(m + 1 .. Len(q), R)
        BY <2>5, <2>6 DEF Surjection
    <2> HIDE DEF f
    <2>8. IsFiniteSet(m + 1 .. Len(q)) /\ Cardinality(m + 1 .. Len(q)) = Len(q) - m
        <3>1. m + 1 \in Int /\ Len(q) \in Int /\ m <= Len(q)
            BY <2>2
        <3>2. /\ IsFiniteSet(m + 1 .. Len(q))
              /\ Cardinality(m + 1 .. Len(q)) =
                     IF m + 1 > Len(q) THEN 0 ELSE Len(q) - (m + 1) + 1
            BY <3>1, FS_Interval
        <3> QED
            BY <3>1, <3>2
    <2>9. IsFiniteSet(R) /\ Cardinality(R) <= Len(q) - m
        BY <2>7, <2>8, FS_Surjection
    <2>10. Cardinality(R) \in Nat
        BY <2>9, FS_CardinalityType
    <2>11. Cardinality(R) < w
        BY <1>2, <2>2, <2>9, <2>10
    <2> QED
        BY <2>4, <2>11 DEF R, LatestOf
<1>4. ASSUME NEW x \in LatestOf(past, c, w)
      PROVE  x \in BlocksIn(h.sets, c)
    <2> DEFINE q == h.sets[c][SetOf(c, x)]
               R == RivalsSince(past, c, x)
    <2>1. x \in DOMAIN past /\ x \in Blocks /\ Cardinality(R) < w
        BY DEF LatestOf, PastOK
    <2>2. /\ InOrder(past, c, SetOf(c, x), w, q) /\ Len(q) \in Nat /\ DOMAIN q = 1 .. Len(q)
          /\ \A n \in 1 .. Len(q) : SetOf(c, q[n].blk) = SetOf(c, x)
          /\ \A m, n \in 1 .. Len(q) : q[m].blk = q[n].blk => m = n
        BY <1>1, <2>1
    <2> HIDE DEF q
    <2>3. SUFFICES ASSUME \A n \in 1 .. Len(q) : q[n].blk # x PROVE FALSE
        <3>1. CASE Holds(q, x)
            BY <2>1, <3>1 DEF BlocksIn, q
        <3>2. CASE ~Holds(q, x)
            BY <2>2, <3>2 DEF Holds
        <3> QED
            BY <3>1, <3>2
    <2>4. Len(q) = w /\ \A n \in 1 .. Len(q) : q[n].blk \in past[x]
        BY <2>1, <2>2, <2>3 DEF InOrder
    <2> DEFINE f == [n \in 1 .. Len(q) |-> q[n].blk]
    <2>5. \A n \in 1 .. Len(q) : q[n].blk \in R
        BY <2>2, <2>4 DEF RivalsSince
    <2>6. IsFiniteSet(R)
        <3>1. past[x] \subseteq DOMAIN past /\ IsFiniteSet(DOMAIN past)
            BY <2>1 DEF PastOK
        <3>2. R \in SUBSET (DOMAIN past)
            BY <3>1 DEF RivalsSince
        <3> QED
            BY <3>1, <3>2, FS_Subset
    <2> HIDE DEF R
    <2>7. f \in Injection(1 .. Len(q), R)
        BY <2>2, <2>5 DEF Injection, IsInjective
    <2> HIDE DEF f
    <2>8. Cardinality(1 .. Len(q)) <= Cardinality(R)
        BY <2>6, <2>7, FS_Injection
    <2>9. Cardinality(1 .. Len(q)) = Len(q)
        <3>1. 1 \in Int /\ Len(q) \in Int
            BY <2>2
        <3>2. Cardinality(1 .. Len(q)) = IF 1 > Len(q) THEN 0 ELSE Len(q) - 1 + 1
            BY <3>1, FS_Interval
        <3> QED
            BY <2>2, <3>2
    <2>10. Cardinality(R) \in Nat
        BY <2>6, FS_CardinalityType
    <2> QED
        BY <1>2, <2>1, <2>4, <2>8, <2>9, <2>10
<1> QED
    BY <1>3, <1>4 DEF w

LEMMA ShiftedHolds ==
    ASSUME NEW q \in Seq(Entry), NEW v \in Seq(Entry), NEW n \in 1 .. Len(q), NEW b,
           Shifted(q, v, n, b)
    PROVE  \A x : Holds(v, x) <=> x = b \/ \E j \in 1 .. Len(q) : j # n /\ q[j].blk = x
<1> DEFINE L == Len(q)
           Old(m) == IF m < n THEN m ELSE m + 1
<1>1. /\ L \in Nat /\ L \in 1 .. L /\ DOMAIN v = 1 .. L /\ v[L].blk = b
      /\ \A m \in 1 .. L - 1 : v[m].blk = q[Old(m)].blk /\ Old(m) \in 1 .. L /\ Old(m) # n
    BY DEF Shifted
<1>2. ASSUME NEW x, Holds(v, x)
      PROVE  x = b \/ \E j \in 1 .. L : j # n /\ q[j].blk = x
    <2>1. PICK m \in 1 .. L : v[m].blk = x
        BY <1>1, <1>2 DEF Holds
    <2> HIDE DEF Old
    <2>2. CASE m = L
        BY <1>1, <2>1, <2>2
    <2>3. CASE m # L
        <3>1. m \in 1 .. L - 1
            BY <1>1, <2>3
        <3> QED
            BY <1>1, <2>1, <3>1
    <2> QED
        BY <2>2, <2>3
<1>3. Holds(v, b)
    BY <1>1 DEF Holds
<1>4. ASSUME NEW j \in 1 .. L, j # n
      PROVE  Holds(v, q[j].blk)
    <2> DEFINE i == IF j < n THEN j ELSE j - 1
    <2>1. i \in 1 .. L - 1 /\ i \in 1 .. L /\ Old(i) = j
        BY <1>1, <1>4
    <2> HIDE DEF i, Old
    <2>2. v[i].blk = q[j].blk
        BY <1>1, <2>1
    <2> QED
        BY <1>1, <2>1, <2>2 DEF Holds
<1> QED
    BY <1>2, <1>3, <1>4

LEMMA ExtendedHolds ==
    ASSUME NEW q \in Seq(Entry), NEW v \in Seq(Entry), NEW b, Extended(q, v, b)
    PROVE  \A x : Holds(v, x) <=> x = b \/ Holds(q, x)
<1>1. /\ Len(q) \in Nat /\ DOMAIN q = 1 .. Len(q) /\ DOMAIN v = 1 .. Len(q) + 1
      /\ v[Len(q) + 1].blk = b /\ \A m \in 1 .. Len(q) : v[m] = q[m]
    BY DEF Extended
<1>2. \A m : m \in 1 .. Len(q) + 1 <=> m \in 1 .. Len(q) \/ m = Len(q) + 1
    BY <1>1
<1> QED
    BY <1>1, <1>2 DEF Holds

(* What an access does to the set of its block. *)
Moved(c, q, v, b) ==
    /\ Holds(q, b) => \E n \in 1 .. Len(q) : q[n].blk = b /\ Shifted(q, v, n, b)
    /\ ~Holds(q, b) /\ Full(c, q) => Shifted(q, v, 1, b)
    /\ ~Holds(q, b) /\ ~Full(c, q) => Extended(q, v, b)

LEMMA AccessEffect ==
    ASSUME run \in Runs, ~run.p, NEW h, WF(run, h), Books(h), NEW c \in L1s, NEW b \in Blocks,
           NEW pc \in Nat, NEW wr \in BOOLEAN
    PROVE  LET g == AccessL1(h, c, b, pc, wr)
               s == SetOf(c, b)
               q == h.sets[c][s]
           IN  /\ \A d \in L1s : \A t \in SetIdx(d) :
                     d # c \/ t # s => g.sets[d][t] = h.sets[d][t]
               /\ \A d \in L1s : d # c => g.cnt[d] = h.cnt[d]
               /\ g.cnt[c]["miss"] = h.cnt[c]["miss"] + One(~Holds(q, b))
               /\ g.cnt[c]["evicted"] = h.cnt[c]["evicted"] + One(~Holds(q, b) /\ Full(c, q))
               /\ Moved(c, q, g.sets[c][s], b)
<1> DEFINE k == CountAccess(h, c, wr)
           s == SetOf(c, b)
           q == k.sets[c][s]
           g == AccessL1(h, c, b, pc, wr)
<1>0. c \in Caches /\ c # "L2" /\ \A d \in L1s : d \in Caches
    BY DEF Caches, L1s
<1>1. /\ WF(run, k) /\ k.sets = h.sets /\ Books(k)
      /\ \A d \in Caches : d # c => k.cnt[d] = h.cnt[d]
      /\ k.cnt[c]["miss"] = h.cnt[c]["miss"] /\ k.cnt[c]["evicted"] = h.cnt[c]["evicted"]
    <2>1. WF(run, k) /\ k.sets = h.sets
        BY <1>0, CountState DEF Step
    <2>2. /\ Books(k) /\ \A d \in Caches : d # c => k.cnt[d] = h.cnt[d]
          /\ k.cnt[c]["miss"] = h.cnt[c]["miss"] /\ k.cnt[c]["evicted"] = h.cnt[c]["evicted"]
        BY <1>0, CountBooks
    <2> QED
        BY <2>1, <2>2
<1>2. s \in SetIdx(c) /\ q \in Seq(Entry)
    BY <1>0, <1>1, WFSet
<1>3. k.cnt[c]["miss"] \in Nat /\ k.cnt[c]["evicted"] \in Nat
    <2> HIDE DEF k
    <2> QED
        BY <1>0, <1>1, CountersType, CountNames
<1>4. CASE Holds(q, b)
    <2> DEFINE f == Hit(k, c, b, pc, wr)
    <2>1. g = f
        BY <1>4 DEF AccessL1
    <2> HIDE DEF g, k
    <2>2. Step(run, k, f, c, s)
        BY <1>0, <1>1, <1>4, HitState
    <2>3. /\ \A d \in Caches : d # c => f.cnt[d] = k.cnt[d]
          /\ f.cnt[c]["miss"] = k.cnt[c]["miss"] /\ f.cnt[c]["evicted"] = k.cnt[c]["evicted"]
          /\ \E n \in 1 .. Len(q) : q[n].blk = b /\ Shifted(q, f.sets[c][s], n, b)
        <3>1. /\ run \in Runs /\ WF(run, k) /\ Books(k) /\ c \in Caches /\ b \in Blocks
              /\ pc \in Nat /\ wr \in BOOLEAN /\ Holds(k.sets[c][SetOf(c, b)], b)
            BY <1>0, <1>1, <1>4
        <3>2. \A d \in Caches : d # c => f.cnt[d] = k.cnt[d]
            BY ONLY <3>1, HitBooks
        <3>3. f.cnt[c]["miss"] = k.cnt[c]["miss"]
            BY ONLY <3>1, HitBooks
        <3>4. f.cnt[c]["evicted"] = k.cnt[c]["evicted"]
            BY ONLY <3>1, HitBooks
        <3>5. \E n \in 1 .. Len(q) : q[n].blk = b /\ Shifted(q, f.sets[c][s], n, b)
            BY ONLY <3>1, HitBooks
        <3> QED
            BY <3>2, <3>3, <3>4, <3>5
    <2> HIDE DEF f, q, s
    <2>4. Moved(c, q, f.sets[c][s], b)
        BY <1>4, <2>3 DEF Moved
    <2>5. One(~Holds(q, b)) = 0 /\ One(~Holds(q, b) /\ Full(c, q)) = 0
        BY <1>4 DEF One
    <2>6. \A d \in L1s : \A t \in SetIdx(d) : d # c \/ t # s => f.sets[d][t] = k.sets[d][t]
        BY <1>0, <2>2 DEF Step, Elsewhere
    <2>7. /\ f.cnt[c]["miss"] = k.cnt[c]["miss"] + 0
          /\ f.cnt[c]["evicted"] = k.cnt[c]["evicted"] + 0
        BY <1>3, <2>3
    <2> QED
        BY <1>0, <1>1, <2>1, <2>3, <2>4, <2>5, <2>6, <2>7 DEF g, q, s
<1>5. CASE ~Holds(q, b)
    <2> DEFINE f == Fetch(k, c, b, wr)
               p == AskParent(f, Victims(c, q), b, pc, wr)
    <2>1. g = p
        <3>1. Candidates(p, c, s) = {}
            BY DEF Candidates
        <3> QED
            BY <1>5, <3>1 DEF AccessL1, Prefetch
    <2> HIDE DEF g, k
    <2>2. Step(run, k, f, c, s)
        BY <1>0, <1>1, <1>5, FetchState
    <2>3. WF(run, f)
        BY <2>2 DEF Step
    <2>4. /\ Books(f)
          /\ \A d \in Caches : d # c => f.cnt[d] = k.cnt[d]
          /\ f.cnt[c]["miss"] = k.cnt[c]["miss"] + 1
          /\ f.cnt[c]["evicted"] = k.cnt[c]["evicted"] + One(Full(c, q))
          /\ IF Full(c, q) THEN Shifted(q, f.sets[c][s], 1, b)
                           ELSE Extended(q, f.sets[c][s], b)
        BY <1>0, <1>1, <1>5, FetchBooks
    <2>5. Victims(c, q) \in SUBSET Entry
        <3>1. CASE Full(c, q)
            <4>1. Len(q) >= 1 /\ Len(q) \in Nat
                BY <1>0, <1>2, <3>1, WaysPositive, LenProperties DEF Full
            <4>2. q[1] \in Entry
                BY <1>2, <4>1, ElementOfSeq
            <4> QED
                BY <3>1, <4>2 DEF Victims
        <3>2. CASE ~Full(c, q)
            BY <3>2 DEF Victims
        <3> QED
            BY <3>1, <3>2
    <2> HIDE DEF f, q, s
    <2>6. ParentStep(run, f, p)
        BY <2>3, <2>5, ParentState
    <2>7. \A d \in L1s : p.cnt[d] = f.cnt[d]
        BY <2>3, <2>4, <2>5, ParentBooks
    <2> HIDE DEF p
    <2>8. /\ \A d \in L1s : \A t \in SetIdx(d) : d # c \/ t # s => p.sets[d][t] = k.sets[d][t]
          /\ p.sets[c][s] = f.sets[c][s]
        BY <1>0, <1>2, <2>2, <2>6 DEF Step, Elsewhere, ParentStep, L1Untouched
    <2>9. Moved(c, q, p.sets[c][s], b)
        BY <1>5, <2>4, <2>8 DEF Moved
    <2>10. One(~Holds(q, b)) = 1 /\ One(~Holds(q, b) /\ Full(c, q)) = One(Full(c, q))
        BY <1>5 DEF One
    <2> QED
        BY <1>0, <1>1, <2>1, <2>4, <2>7, <2>8, <2>9, <2>10 DEF g, q, s
<1> QED
    BY <1>4, <1>5

(* The L1 caches of x, of the associativities of run r, are in order.      *)
Ordered(r, x, past) ==
    /\ past = [d \in L1s |-> past[d]]
    /\ \A d \in L1s : PastOK(past[d])
    /\ \A d \in L1s : \A s \in SetIdx(d) : InOrder(past[d], d, s, WaysOf(r, d), x[d][s])

LEMMA AccessOrdered ==
    ASSUME run \in Runs, ~run.p, NEW h, WF(run, h), Books(h), NEW c \in L1s, NEW b \in Blocks,
           NEW pc \in Nat, NEW wr \in BOOLEAN, NEW past, Ordered(run, h.sets, past)
    PROVE  Ordered(run, AccessL1(h, c, b, pc, wr).sets,
                   [past EXCEPT ![c] = UsedAfter(past[c], b)])
<1> DEFINE g == AccessL1(h, c, b, pc, wr)
           s == SetOf(c, b)
           q == h.sets[c][s]
           v == g.sets[c][s]
           w == WaysOf(run, c)
           f == UsedAfter(past[c], b)
           after == [past EXCEPT ![c] = f]
<1>0. c \in Caches /\ \A d \in L1s : d \in Caches
    BY DEF Caches
<1>1. /\ \A d \in L1s : \A t \in SetIdx(d) : d # c \/ t # s => g.sets[d][t] = h.sets[d][t]
      /\ Moved(c, q, v, b)
    BY AccessEffect
<1>2. PastOK(past[c]) /\ past = [d \in L1s |-> past[d]]
    BY DEF Ordered
<1>3. after = [d \in L1s |-> after[d]] /\ after[c] = f /\ \A d \in L1s : d # c => after[d] = past[d]
    BY <1>2
<1>4. PastOK(f)
    BY <1>2, UsedAfterOK
<1>5. /\ s \in SetIdx(c) /\ q \in Seq(Entry) /\ Len(q) \in Nat /\ DOMAIN q = 1 .. Len(q)
      /\ GoodSet(c, s, w, q)
    BY <1>0, WFSet
<1>6. InOrder(past[c], c, s, w, q)
    BY <1>5 DEF Ordered
<1>7. w \in Nat \ {0} /\ (Full(c, q) <=> Len(q) >= w)
    <2>1. Ways(c) \in Nat \ {0} /\ Ways(c) = w
        BY <1>0, WaysPositive DEF Ways, WaysOf
    <2> HIDE DEF q, w
    <2> QED
        BY <2>1 DEF Full
<1> HIDE DEF g
<1>8. InOrder(f, c, s, w, v)
    <2> HIDE DEF q, v, s, w, f
    <2>1. \A m \in 1 .. Len(q) : ~q[m].prefetched
        BY <1>6 DEF InOrder
    <2>2. \A m, n \in 1 .. Len(q) : q[m].blk = q[n].blk => m = n
        BY <1>5, <2>1 DEF GoodSet
    <2>3. Len(q) <= w
        BY <1>5 DEF GoodSet
    <2>4. CASE Holds(q, b)
        <3>1. PICK n \in 1 .. Len(q) : q[n].blk = b /\ Shifted(q, v, n, b)
            BY <1>1, <2>4 DEF Moved
        <3>2. \A m \in 1 .. Len(q) : q[m].blk = b => m = n
            BY <2>2, <3>1
        <3> QED
            BY <1>2, <1>5, <1>6, <3>1, <3>2, ShiftedInOrder DEF f
    <2>5. CASE ~Holds(q, b) /\ Full(c, q)
        <3>1. Shifted(q, v, 1, b) /\ \A m \in 1 .. Len(q) : q[m].blk # b
            BY <1>1, <1>5, <2>5 DEF Moved, Holds
        <3>2. Len(q) = w /\ 1 \in 1 .. Len(q)
            <4>1. Len(q) >= w
                BY <1>7, <2>5
            <4>2. Len(q) \in Nat /\ w \in Nat \ {0}
                BY <1>5, <1>7
            <4> QED
                BY <2>3, <4>1, <4>2
        <3> QED
            BY <1>2, <1>5, <1>6, <3>1, <3>2, ShiftedInOrder DEF f
    <2>6. CASE ~Holds(q, b) /\ ~Full(c, q)
        <3>1. Extended(q, v, b) /\ \A m \in 1 .. Len(q) : q[m].blk # b
            BY <1>1, <1>5, <2>6 DEF Moved, Holds
        <3>2. Len(q) # w
            <4>1. ~(Len(q) >= w)
                BY <1>7, <2>6
            <4>2. Len(q) \in Nat /\ w \in Nat \ {0}
                BY <1>5, <1>7
            <4> QED
                BY <4>1, <4>2
        <3> QED
            BY <1>2, <1>5, <1>6, <3>1, <3>2, ExtendedInOrder DEF f
    <2> QED
        BY <2>4, <2>5, <2>6
<1>9. ASSUME NEW t \in SetIdx(c), t # s
      PROVE  InOrder(f, c, t, w, g.sets[c][t])
    <2>1. g.sets[c][t] = h.sets[c][t]
        BY <1>1, <1>9
    <2>2. InOrder(past[c], c, t, w, h.sets[c][t])
        BY DEF Ordered
    <2>3. GoodSet(c, t, w, h.sets[c][t])
        BY <1>0 DEF WF, SetsOK
    <2>4. \A m \in 1 .. Len(h.sets[c][t]) : SetOf(c, h.sets[c][t][m].blk) = t
        BY <2>3 DEF GoodSet
    <2> HIDE DEF w
    <2> QED
        BY <1>2, <1>9, <2>1, <2>2, <2>4, ElsewhereInOrder
<1>10. ASSUME NEW d \in L1s, d # c, NEW t \in SetIdx(d)
       PROVE  InOrder(after[d], d, t, WaysOf(run, d), g.sets[d][t])
    <2>1. g.sets[d][t] = h.sets[d][t] /\ after[d] = past[d]
        BY <1>1, <1>3, <1>10
    <2>2. InOrder(past[d], d, t, WaysOf(run, d), h.sets[d][t])
        BY DEF Ordered
    <2> QED
        BY <2>1, <2>2
<1>11. \A d \in L1s : d # c => PastOK(after[d])
    BY <1>3 DEF Ordered
<1> HIDE DEF after, f, v, w
<1>12. \A d \in L1s : PastOK(after[d])
    BY <1>3, <1>4, <1>11
<1>13. \A d \in L1s : \A t \in SetIdx(d) :
           InOrder(after[d], d, t, WaysOf(run, d), g.sets[d][t])
    <2> SUFFICES ASSUME NEW d \in L1s, NEW t \in SetIdx(d)
                 PROVE  InOrder(after[d], d, t, WaysOf(run, d), g.sets[d][t])
        OBVIOUS
    <2>1. CASE d # c
        BY <1>10, <2>1
    <2>2. CASE d = c /\ t # s
        BY <1>3, <1>9, <2>2 DEF w
    <2>3. CASE d = c /\ t = s
        BY <1>3, <1>8, <2>3 DEF w, v
    <2> QED
        BY <2>1, <2>2, <2>3
<1> QED
    BY <1>3, <1>12, <1>13 DEF Ordered, after, f, g

(* A miss in a full set costs one block, and no other access costs any.    *)
Charged(h, g, c, b) ==
    /\ \A d \in L1s : d # c => BlocksIn(g.sets, d) = BlocksIn(h.sets, d)
    /\ \A d \in L1s : d # c => g.cnt[d] = h.cnt[d]
    /\ g.cnt[c]["miss"] = h.cnt[c]["miss"] + One(b \notin BlocksIn(h.sets, c))
    /\ g.cnt[c]["evicted"] =
           h.cnt[c]["evicted"] + Cardinality(BlocksIn(h.sets, c) \ BlocksIn(g.sets, c))

LEMMA AccessBlocks ==
    ASSUME run \in Runs, ~run.p, NEW h, WF(run, h), Books(h), NEW c \in L1s, NEW b \in Blocks,
           NEW pc \in Nat, NEW wr \in BOOLEAN, NEW past, Ordered(run, h.sets, past)
    PROVE  Charged(h, AccessL1(h, c, b, pc, wr), c, b)
<1> DEFINE g == AccessL1(h, c, b, pc, wr)
           s == SetOf(c, b)
           q == h.sets[c][s]
           v == g.sets[c][s]
           w == WaysOf(run, c)
           lost == BlocksIn(h.sets, c) \ BlocksIn(g.sets, c)
<1>0. c \in Caches /\ \A d \in L1s : d \in Caches
    BY DEF Caches
<1>1. /\ \A d \in L1s : \A t \in SetIdx(d) : d # c \/ t # s => g.sets[d][t] = h.sets[d][t]
      /\ \A d \in L1s : d # c => g.cnt[d] = h.cnt[d]
      /\ g.cnt[c]["miss"] = h.cnt[c]["miss"] + One(~Holds(q, b))
      /\ g.cnt[c]["evicted"] = h.cnt[c]["evicted"] + One(~Holds(q, b) /\ Full(c, q))
      /\ Moved(c, q, v, b)
    <2>1. \A d \in L1s : \A t \in SetIdx(d) : d # c \/ t # s => g.sets[d][t] = h.sets[d][t]
        BY AccessEffect
    <2>2. \A d \in L1s : d # c => g.cnt[d] = h.cnt[d]
        BY AccessEffect
    <2>3. /\ g.cnt[c]["miss"] = h.cnt[c]["miss"] + One(~Holds(q, b))
          /\ g.cnt[c]["evicted"] = h.cnt[c]["evicted"] + One(~Holds(q, b) /\ Full(c, q))
        BY AccessEffect
    <2>4. Moved(c, q, v, b)
        BY AccessEffect
    <2> HIDE DEF g, q, v, s
    <2> QED
        BY <2>1, <2>2, <2>3, <2>4
<1>2. /\ s \in SetIdx(c) /\ q \in Seq(Entry) /\ Len(q) \in Nat /\ DOMAIN q = 1 .. Len(q)
      /\ GoodSet(c, s, w, q)
    BY <1>0, WFSet
<1>3. WF(run, g) /\ v \in Seq(Entry)
    <2>1. WF(run, g)
        BY AccessState
    <2> QED
        BY <1>0, <2>1, WFSet
<1>4. \A m \in 1 .. Len(q) : ~q[m].prefetched
    <2>1. InOrder(past[c], c, s, w, q)
        BY <1>2 DEF Ordered
    <2> QED
        BY <2>1 DEF InOrder
<1> HIDE DEF g
<1>5. /\ \A m, n \in 1 .. Len(q) : q[m].blk = q[n].blk => m = n
      /\ \A m \in 1 .. Len(q) : SetOf(c, q[m].blk) = s
    BY <1>2, <1>4 DEF GoodSet
<1>6. ASSUME NEW d \in L1s, d # c
      PROVE  BlocksIn(g.sets, d) = BlocksIn(h.sets, d)
    <2>1. \A x \in Blocks : SetOf(d, x) \in SetIdx(d)
        BY <1>0, SetOfRange
    <2>2. \A x \in Blocks : g.sets[d][SetOf(d, x)] = h.sets[d][SetOf(d, x)]
        BY <1>1, <1>6, <2>1
    <2> QED
        BY <2>2 DEF BlocksIn
<1>7. /\ b \in BlocksIn(h.sets, c) <=> Holds(q, b)
      /\ \A x \in lost : /\ x \in Blocks /\ SetOf(c, x) = s
                         /\ Holds(q, x) /\ ~Holds(v, x)
      /\ \A x \in Blocks : SetOf(c, x) = s /\ Holds(q, x) /\ ~Holds(v, x) => x \in lost
    <2>1. \A x \in Blocks : SetOf(c, x) \in SetIdx(c)
        BY <1>0, SetOfRange
    <2>2. \A x \in Blocks :
              SetOf(c, x) # s => g.sets[c][SetOf(c, x)] = h.sets[c][SetOf(c, x)]
        BY <1>1, <2>1
    <2> HIDE DEF s
    <2>3. b \in BlocksIn(h.sets, c) <=> Holds(q, b)
        BY DEF BlocksIn, s
    <2> QED
        BY <2>2, <2>3 DEF BlocksIn
<1> HIDE DEF lost, v, s, q
<1>8. CASE Holds(q, b)
    <2>1. PICK n \in 1 .. Len(q) : q[n].blk = b /\ Shifted(q, v, n, b)
        BY <1>1, <1>8 DEF Moved
    <2>2. \A x : Holds(v, x) <=> x = b \/ \E j \in 1 .. Len(q) : j # n /\ q[j].blk = x
        BY <1>2, <1>3, <2>1, ShiftedHolds
    <2>3. \A x : Holds(q, x) => Holds(v, x)
        BY <1>2, <2>1, <2>2 DEF Holds
    <2>4. lost = {}
        BY <1>7, <2>3
    <2>5. Cardinality(lost) = 0
        BY <2>4, FS_EmptySet
    <2>6. One(~Holds(q, b) /\ Full(c, q)) = 0
        BY <1>8 DEF One
    <2> QED
        BY <1>1, <1>6, <1>7, <2>5, <2>6 DEF lost, g, q, s, Charged
<1>9. CASE ~Holds(q, b) /\ Full(c, q)
    <2>1. 1 \in 1 .. Len(q)
        <3>1. Ways(c) \in Nat \ {0}
            BY <1>0, WaysPositive
        <3> QED
            BY <1>2, <1>9, <3>1 DEF Full
    <2>2. Shifted(q, v, 1, b)
        BY <1>1, <1>9 DEF Moved
    <2>3. \A x : Holds(v, x) <=> x = b \/ \E j \in 1 .. Len(q) : j # 1 /\ q[j].blk = x
        BY <1>2, <1>3, <2>1, <2>2, ShiftedHolds
    <2>4. q[1].blk \in Blocks
        <3>1. q[1] \in Entry
            BY <1>2, <2>1, ElementOfSeq
        <3> QED
            BY <3>1 DEF Entry
    <2>5. Holds(q, q[1].blk) /\ q[1].blk # b /\ SetOf(c, q[1].blk) = s
        BY <1>2, <1>5, <1>9, <2>1 DEF Holds
    <2>6. q[1].blk \in lost
        BY <1>5, <1>7, <2>1, <2>3, <2>4, <2>5
    <2>7. \A x \in lost : x = q[1].blk
        BY <1>2, <1>7, <2>3 DEF Holds
    <2>8. lost = {q[1].blk}
        BY <2>6, <2>7
    <2>9. Cardinality(lost) = 1
        BY <2>8, FS_Singleton
    <2>10. One(~Holds(q, b) /\ Full(c, q)) = 1
        BY <1>9 DEF One
    <2> QED
        BY <1>1, <1>6, <1>7, <2>9, <2>10 DEF lost, g, q, s, Charged
<1>10. CASE ~Holds(q, b) /\ ~Full(c, q)
    <2>1. Extended(q, v, b)
        BY <1>1, <1>10 DEF Moved
    <2>2. \A x : Holds(v, x) <=> x = b \/ Holds(q, x)
        BY <1>2, <1>3, <2>1, ExtendedHolds
    <2>3. lost = {}
        BY <1>7, <2>2
    <2>4. Cardinality(lost) = 0
        BY <2>3, FS_EmptySet
    <2>5. One(~Holds(q, b) /\ Full(c, q)) = 0
        BY <1>10 DEF One
    <2> QED
        BY <1>1, <1>6, <1>7, <2>4, <2>5 DEF lost, g, q, s, Charged
<1> QED
    BY <1>8, <1>9, <1>10

LruInv ==
    /\ CacheInv
    /\ Books(State)
    /\ since = [d \in L1s |-> since[d]]
    /\ ~run.p => Ordered(run, sets, since)

LEMMA LruInit == CHInit => LruInv
<1> SUFFICES ASSUME CHInit PROVE LruInv
    OBVIOUS
<1>1. CacheInv /\ Books(State)
    BY CacheInitInv, BooksInit DEF CHInit
<1>2. since = [d \in L1s |-> [x \in {} |-> {}]]
    BY DEF CHInit
<1>3. \A d \in L1s : \A s \in SetIdx(d) : sets[d][s] = <<>>
    BY DEF CHInit, CacheInit, Caches
<1>4. PastOK([x \in {} |-> {}])
    <2>1. IsFiniteSet({})
        BY FS_EmptySet
    <2> QED
        BY <2>1 DEF PastOK
<1>5. \A c, s, w : InOrder([x \in {} |-> {}], c, s, w, <<>>)
    <2>1. Len(<<>>) = 0
        OBVIOUS
    <2> QED
        BY <2>1 DEF InOrder
<1>6. Ordered(run, sets, since)
    <2>1. since = [d \in L1s |-> since[d]] /\ \A d \in L1s : since[d] = [x \in {} |-> {}]
        BY <1>2
    <2>2. \A d \in L1s : PastOK(since[d])
        BY <1>4, <2>1
    <2>3. \A d \in L1s : \A s \in SetIdx(d) :
              InOrder(since[d], d, s, WaysOf(run, d), sets[d][s])
        BY <1>3, <1>5, <2>1
    <2> QED
        BY <2>1, <2>2, <2>3 DEF Ordered
<1> QED
    BY <1>1, <1>2, <1>6 DEF LruInv

(* What a step of the hierarchy is, with the history of the LRU order. *)
LEMMA NextIsUse ==
    ASSUME CacheInv, CHNext
    PROVE  \E r \in run.program :
               /\ r.cache \in L1s /\ r.blk \in Blocks /\ r.pc \in Nat /\ r.wr \in BOOLEAN
               /\ Access(r.cache, r.blk, r.pc, r.wr)
               /\ since' = [since EXCEPT ![r.cache] = UsedAfter(since[r.cache], r.blk)]
<1>1. PICK r \in run.program :
          /\ Access(r.cache, r.blk, r.pc, r.wr)
          /\ since' = [since EXCEPT ![r.cache] =
                          [x \in DOMAIN since[r.cache] \cup {r.blk} |->
                              IF x = r.blk THEN {} ELSE since[r.cache][x] \cup {r.blk}]]
    BY DEF CHNext
<1>2. r \in Request
    BY CacheAssumption DEF CacheInv
<1>3. r.cache \in L1s /\ r.blk \in Blocks /\ r.pc \in Nat /\ r.wr \in BOOLEAN
    BY <1>2 DEF Request
<1> QED
    BY <1>1, <1>3 DEF UsedAfter

LEMMA AccessIs ==
    ASSUME CacheInv, NEW c \in L1s, NEW b \in Blocks, NEW pc \in Nat, NEW wr \in BOOLEAN,
           Access(c, b, pc, wr)
    PROVE  /\ sets' = AccessL1(State, c, b, pc, wr).sets
           /\ counters' = AccessL1(State, c, b, pc, wr).cnt
           /\ run' = run
    BY DEF Access

LEMMA LruNextInv ==
    ASSUME LruInv, [CHNext]_chvars
    PROVE  LruInv'
<1>1. CacheInv' /\ Books(State)'
    BY CacheNextInv, BooksNext DEF LruInv
<1>2. CASE CHNext
    <2>1. PICK r \in run.program :
              /\ r.cache \in L1s /\ r.blk \in Blocks /\ r.pc \in Nat /\ r.wr \in BOOLEAN
              /\ Access(r.cache, r.blk, r.pc, r.wr)
              /\ since' = [since EXCEPT ![r.cache] = UsedAfter(since[r.cache], r.blk)]
        BY <1>2, NextIsUse DEF LruInv
    <2>2. since' = [d \in L1s |-> since'[d]]
        BY <2>1 DEF LruInv
    <2> DEFINE g == AccessL1(State, r.cache, r.blk, r.pc, r.wr)
               after == [since EXCEPT ![r.cache] = UsedAfter(since[r.cache], r.blk)]
    <2>3. sets' = g.sets /\ run' = run
        BY <2>1, AccessIs DEF LruInv
    <2>4. ASSUME ~run.p PROVE Ordered(run', sets', since')
        <3>1. run \in Runs /\ WF(run, State) /\ Books(State) /\ State.sets = sets
            BY DEF LruInv, CacheInv, State
        <3>2. Ordered(run, State.sets, since)
            BY <2>4, <3>1 DEF LruInv
        <3>3. Ordered(run, g.sets, after)
            <4> HIDE DEF LruInv
            <4> QED
                BY <2>1, <2>4, <3>1, <3>2, AccessOrdered
        <3> HIDE DEF g, after
        <3> QED
            BY <2>1, <2>3, <3>3 DEF after
    <2>5. ~run'.p => Ordered(run', sets', since')
        BY <2>3, <2>4
    <2>6. (~run.p => Ordered(run, sets, since))'
        BY <2>5
    <2> QED
        BY <1>1, <2>2, <2>6 DEF LruInv
<1>3. CASE UNCHANGED chvars
    <2>1. run' = run /\ sets' = sets /\ since' = since
        BY <1>3 DEF chvars, cvars
    <2> QED
        BY <1>1, <2>1 DEF LruInv
<1> QED
    BY <1>2, <1>3

LEMMA LruInvariant == CHSpec => []LruInv
<1>1. CHInit => LruInv
    BY LruInit
<1>2. LruInv /\ [CHNext]_chvars => LruInv'
    BY LruNextInv
<1> QED
    BY <1>1, <1>2, PTL DEF CHSpec

(* The blocks of a cache, as the refinement counts them. *)
LEMMA ResidentView == CacheInv => \A c \in L1s : Resident(c) = BlocksIn(sets, c)
<1> SUFFICES ASSUME CacheInv, NEW c \in L1s PROVE Resident(c) = BlocksIn(sets, c)
    OBVIOUS
<1>0. c \in Caches
    BY DEF Caches
<1>1. ASSUME NEW x \in Places(c)
      PROVE  EntryAt(c, x).blk \in BlocksIn(sets, c)
    <2>1. /\ x[1] \in SetIdx(c) /\ x[2] \in 1 .. Len(sets[c][x[1]])
          /\ EntryAt(c, x) = sets[c][x[1]][x[2]]
        BY <1>0, PlaceInSet
    <2>2. GoodSet(c, x[1], Ways(c), sets[c][x[1]])
        BY <1>0, <2>1, SetsWellFormed
    <2> DEFINE q == sets[c][x[1]]
    <2>3. q \in Seq(Entry) /\ DOMAIN q = 1 .. Len(q)
        BY <2>2 DEF GoodSet
    <2>4. q[x[2]] \in Entry
        BY <2>1, <2>3, ElementOfSeq
    <2>5. q[x[2]].blk \in Blocks
        BY <2>4 DEF Entry
    <2>6. SetOf(c, q[x[2]].blk) = x[1]
        BY <2>1, <2>2 DEF GoodSet
    <2>7. Holds(q, q[x[2]].blk)
        BY <2>1, <2>3 DEF Holds
    <2> QED
        BY <2>1, <2>5, <2>6, <2>7 DEF BlocksIn
<1>2. ASSUME NEW b \in BlocksIn(sets, c)
      PROVE  \E x \in Places(c) : EntryAt(c, x).blk = b
    <2> DEFINE s == SetOf(c, b)
               q == sets[c][s]
    <2>1. b \in Blocks /\ Holds(q, b)
        BY DEF BlocksIn
    <2>2. s \in SetIdx(c) /\ GoodSet(c, s, Ways(c), q)
        BY <1>0, <2>1, SetOfRange, SetsWellFormed
    <2> HIDE DEF s
    <2>3. Len(q) \in Nat /\ DOMAIN q = 1 .. Len(q) /\ Len(q) <= Ways(c)
        BY <2>2 DEF GoodSet
    <2>4. Ways(c) \in Nat
        BY <1>0, WaysPositive DEF CacheInv
    <2>5. PICK n \in 1 .. Len(q) : q[n].blk = b
        BY <2>1, <2>3 DEF Holds
    <2>6. n \in 1 .. Ways(c)
        BY <2>3, <2>4
    <2>7. <<s, n>> \in Places(c)
        BY <2>2, <2>3, <2>6 DEF Places
    <2>8. EntryAt(c, <<s, n>>).blk = b
        BY <2>5 DEF EntryAt
    <2> QED
        BY <2>7, <2>8
<1> QED
    BY <1>1, <1>2 DEF Resident

(* At every moment an L1 holds what an LRU cache would. *)
LruView ==
    /\ \A c \in L1s : Resident(c) = BlocksIn(sets, c)
    /\ ~run.p => \A c \in L1s : Resident(c) = LatestOf(since[c], c, run.l1w)

LEMMA LruViewHolds == LruInv => LruView
<1> SUFFICES ASSUME LruInv PROVE LruView
    OBVIOUS
<1>1. \A c \in L1s : Resident(c) = BlocksIn(sets, c)
    BY ResidentView DEF LruInv
<1>2. ASSUME ~run.p, NEW c \in L1s
      PROVE  BlocksIn(sets, c) = LatestOf(since[c], c, run.l1w)
    <2>1. /\ run \in Runs /\ WF(run, State) /\ State.sets = sets /\ c \in Caches
          /\ WaysOf(run, c) = run.l1w
        BY DEF LruInv, CacheInv, State, Caches, WaysOf, L1s
    <2>2. /\ PastOK(since[c])
          /\ \A s \in SetIdx(c) : InOrder(since[c], c, s, WaysOf(run, c), State.sets[c][s])
        BY <1>2, <2>1 DEF LruInv, Ordered
    <2>3. BlocksIn(State.sets, c) = LatestOf(since[c], c, WaysOf(run, c))
        BY <2>1, <2>2, LatestAreIn
    <2> QED
        BY <2>1, <2>3
<1> QED
    BY <1>1, <1>2 DEF LruView

LEMMA LruAlways == CHSpec => [](LruInv /\ LruView)
<1>1. LruInv => LruView
    BY LruViewHolds
<1> QED
    BY <1>1, LruInvariant, PTL

LEMMA LruCardinality == \A S : Lru!Cardinality(S) = Cardinality(S)
    BY DEF Lru!Cardinality, Cardinality

LEMMA LruOperators ==
    /\ \A past, b : Lru!Used(past, b) = UsedAfter(past, b)
    /\ \A c, past : Lru!MostRecent(c, past) = LatestOf(past, c, run.l1w)
<1>1. \A past, b : Lru!Used(past, b) = UsedAfter(past, b)
    BY DEF Lru!Used, UsedAfter
<1>2. \A c, past, x : Lru!LaterRivals(c, past, x) = RivalsSince(past, c, x)
    BY DEF Lru!LaterRivals, RivalsSince
<1>3. \A c, past : Lru!MostRecent(c, past) = LatestOf(past, c, run.l1w)
    BY <1>2, LruCardinality DEF Lru!MostRecent, LatestOf
<1> QED
    BY <1>1, <1>3

LEMMA LruFirst == CHInit => Lru!AInit
<1> SUFFICES ASSUME CHInit PROVE Lru!AInit
    OBVIOUS
<1>1. run.l1w \in Nat \ {0}
    BY CacheAssumption DEF CHInit, CacheInit
<1>2. since = [c \in L1s |-> [x \in {} |-> {}]]
    BY DEF CHInit
<1>3. \A c \in L1s : Resident(c) = {}
    <2>1. \A c \in L1s : \A s \in SetIdx(c) : DOMAIN sets[c][s] = {}
        BY DEF CHInit, CacheInit, Caches
    <2>2. \A c \in L1s : Places(c) = {}
        BY <2>1 DEF Places
    <2> QED
        BY <2>2 DEF Resident
<1>4. \A c \in L1s : counters[c]["miss"] = 0 /\ counters[c]["evicted"] = 0
    BY CountNames DEF CHInit, CacheInit, Caches
<1> QED
    BY <1>1, <1>2, <1>3, <1>4 DEF Lru!AInit

LEMMA LruStep ==
    ASSUME LruInv, LruView, LruInv', LruView', CHNext, ~run.p
    PROVE  Lru!ANext
<1>1. PICK r \in run.program :
          /\ r.cache \in L1s /\ r.blk \in Blocks /\ r.pc \in Nat /\ r.wr \in BOOLEAN
          /\ Access(r.cache, r.blk, r.pc, r.wr)
          /\ since' = [since EXCEPT ![r.cache] = UsedAfter(since[r.cache], r.blk)]
    BY NextIsUse DEF LruInv
<1> DEFINE c == r.cache
           b == r.blk
           g == AccessL1(State, c, b, r.pc, r.wr)
           past == UsedAfter(since[c], b)
           now == LatestOf(past, c, run.l1w)
<1>2. /\ run \in Runs /\ WF(run, State) /\ Books(State)
      /\ State.sets = sets /\ State.cnt = counters
      /\ Ordered(run, State.sets, since) /\ since = [d \in L1s |-> since[d]]
    BY DEF LruInv, CacheInv, State
<1>3. sets' = g.sets /\ counters' = g.cnt /\ run' = run
    BY <1>1, AccessIs DEF LruInv
<1>4. /\ \A d \in L1s : d # c => BlocksIn(sets', d) = BlocksIn(sets, d)
      /\ \A d \in L1s : d # c => counters'[d] = counters[d]
      /\ counters'[c]["miss"] = counters[c]["miss"] + One(b \notin BlocksIn(sets, c))
      /\ counters'[c]["evicted"] =
             counters[c]["evicted"] + Cardinality(BlocksIn(sets, c) \ BlocksIn(sets', c))
    <2>0. /\ run \in Runs /\ ~run.p /\ WF(run, State) /\ Books(State) /\ c \in L1s /\ b \in Blocks
          /\ r.pc \in Nat /\ r.wr \in BOOLEAN /\ Ordered(run, State.sets, since)
        BY <1>1, <1>2
    <2>1. Charged(State, g, c, b)
        BY ONLY <2>0, AccessBlocks
    <2> HIDE DEF g
    <2> QED
        BY <1>2, <1>3, <2>1 DEF Charged
<1> HIDE DEF g
<1>5. /\ \A d \in L1s : Resident(d) = BlocksIn(sets, d)
      /\ \A d \in L1s : Resident(d)' = BlocksIn(sets', d)
      /\ since'[c] = past
      /\ Resident(c)' = now
    <2>1. since'[c] = past
        BY <1>1, <1>2
    <2>2. \A d \in L1s : Resident(d)' = BlocksIn(sets', d)
        BY DEF LruView
    <2>3. Resident(c)' = LatestOf(since'[c], c, run'.l1w)
        BY <1>1, <1>3 DEF LruView
    <2> QED
        BY <1>3, <2>1, <2>2, <2>3 DEF LruView
<1> HIDE DEF past
<1> DEFINE R == [d \in L1s |-> Resident(d)]
           M == [d \in L1s |-> counters[d]["miss"]]
           E == [d \in L1s |-> counters[d]["evicted"]]
<1>6. R' = [R EXCEPT ![c] = now]
    <2>1. \A d \in L1s : d # c => Resident(d)' = Resident(d)
        BY <1>4, <1>5
    <2> HIDE DEF now
    <2> QED
        BY <1>1, <1>5, <2>1
<1>7. M' = [M EXCEPT ![c] = M[c] + IF b \notin R[c] THEN 1 ELSE 0]
    BY <1>1, <1>4, <1>5 DEF One
<1>8. E' = [E EXCEPT ![c] = E[c] + Cardinality(R[c] \ now)]
    BY <1>1, <1>4, <1>5
<1>9. r \in UNION {x.program : x \in Runs}
    BY <1>1, <1>2
<1> HIDE DEF now
<1>10. Lru!AAccess(c, b)
    <2>1. Lru!Used(since[c], b) = past /\ Lru!MostRecent(c, past) = now
        BY LruOperators DEF past, now
    <2>2. since' = [since EXCEPT ![c] = past]
        BY <1>1 DEF past
    <2>3. Lru!Cardinality(R[c] \ now) = Cardinality(R[c] \ now)
        BY LruCardinality
    <2>4. run'.l1w = run.l1w
        BY <1>3
    <2>5. R' = [R EXCEPT ![c] = Lru!MostRecent(c, Lru!Used(since[c], b))]
        BY <1>6, <2>1
    <2>6. E' = [E EXCEPT ![c] =
                   E[c] + Lru!Cardinality(R[c] \ Lru!MostRecent(c, Lru!Used(since[c], b)))]
        BY <1>8, <2>1, <2>3
    <2>7. since' = [since EXCEPT ![c] = Lru!Used(since[c], b)]
        BY <2>1, <2>2
    <2> HIDE DEF c, b
    <2> QED
        BY <1>7, <2>4, <2>5, <2>6, <2>7 DEF Lru!AAccess
<1> QED
    BY <1>9, <1>10 DEF Lru!ANext

(* With the prefetcher off each L1 is the LRU cache of LruCache: it holds  *)
(* the last l1w blocks used of each of its sets, and misses and evicts     *)
(* exactly what that one does, through every write-back and prediction.    *)
THEOREM LruRefinement == CHSpec => LruImplemented
<1>1. CHInit => Lru!AInit
    BY LruFirst
<1>2. /\ LruInv /\ LruView /\ (LruInv /\ LruView)' /\ [CHNext]_chvars
      => [run.p \/ Lru!ANext]_(Lru!avars)
    <2> SUFFICES ASSUME LruInv, LruView, LruInv', LruView', [CHNext]_chvars
                 PROVE  [run.p \/ Lru!ANext]_(Lru!avars)
        OBVIOUS
    <2>1. CASE CHNext
        BY <2>1, LruStep
    <2>2. CASE UNCHANGED chvars
        <3>1. /\ run' = run /\ sets' = sets /\ counters' = counters /\ since' = since
            BY <2>2 DEF chvars, cvars
        <3>2. \A d \in L1s : Resident(d)' = Resident(d)
            BY <3>1 DEF LruView
        <3> QED
            BY <3>1, <3>2 DEF Lru!avars
    <2> QED
        BY <2>1, <2>2
<1> QED
    BY <1>1, <1>2, LruAlways, PTL DEF CHSpec, LruImplemented

=============================================================================
