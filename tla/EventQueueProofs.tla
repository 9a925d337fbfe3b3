---------------------------- MODULE EventQueueProofs ----------------------------
(***************************************************************************)
(* What EventQueueProperties states, as theorems for any times, actions    *)
(* and bounds: the types, the refinement of AbstractEventQueue and where   *)
(* the descriptors go.  The inductive invariant is that the list is sorted *)
(* with the later of two events due together in front, and how the events  *)
(* of the callbacks under way stand to the list; if the program keeps the  *)
(* third rule, nothing stands before the event being served.               *)
(***************************************************************************)
EXTENDS EventQueueProperties, FiniteSetTheorems, SequenceTheorems,
        WellFoundedInduction, TLAPS

-----------------------------------------------------------------------------
(* Lists.                                                                  *)

(* e is served before f: it is due earlier, or at the same time and was    *)
(* queued later.                                                           *)
Before(e, f) == e.when < f.when \/ (e.when = f.when /\ e.id > f.id)

Sorted(list) == \A m, n \in DOMAIN list : m < n => Before(list[m], list[n])

DistinctIds(list) == \A m, n \in DOMAIN list : list[m].id = list[n].id => m = n

LEMMA EventFacts ==
    ASSUME NEW e \in Event
    PROVE  /\ e.when \in Int /\ e.when \in Times
           /\ e.id \in Int /\ e.id \in 1 .. MaxId
           /\ e.action \in Actions
<1>1. e.when \in Times /\ e.id \in 1 .. MaxId /\ e.action \in Actions
    BY DEF Event
<1>2. Times \subseteq Nat /\ MaxId \in Nat
    BY EventQueueAssumption
<1>3. e.when \in Nat
    BY <1>1, <1>2
<1>4. e.id \in Nat
    BY <1>1, <1>2
<1> QED
    BY <1>1, <1>3, <1>4

(* The search of __QUEUE_EVENT stops at the first event that is not due    *)
(* earlier than the new one.                                               *)
LEMMA EarlierBeforeFacts ==
    ASSUME NEW list \in Seq(Event), NEW when \in Times
    PROVE  LET k == EarlierBefore(list, when)
           IN  /\ k \in 0 .. Len(list)
               /\ \A m \in 1 .. k : list[m].when < when
               /\ k < Len(list) => ~(list[k + 1].when < when)
<1> DEFINE L == Len(list)
           S == {n \in 0 .. L : \A m \in 1..n : list[m].when < when}
           T == {L - n : n \in S}
           k == EarlierBefore(list, when)
<1>1. L \in Nat /\ 0 \in S /\ S \subseteq 0 .. L
    OBVIOUS
<1>2. T \in SUBSET Nat /\ T # {}
    BY <1>1
<1>3. IsWellFoundedOn(OpToRel(<, Nat), Nat)
    BY NatLessThanWellFounded
<1>4. PICK t \in T : \A u \in T : ~(<<u, t>> \in OpToRel(<, Nat))
    BY <1>2, <1>3, WFMin
<1>5. PICK x \in S : t = L - x
    BY <1>4
<1>6. \A y \in S : x >= y
    <2> TAKE y \in S
    <2>1. L - y \in T /\ ~(<<L - y, L - x>> \in OpToRel(<, Nat))
        BY <1>4, <1>5
    <2>2. L - y \in Nat /\ L - x \in Nat
        BY <1>1
    <2>3. ~(L - y < L - x)
        BY <2>1, <2>2 DEF OpToRel
    <2> QED
        BY <1>1, <2>3
<1>7. k = Max(S)
    BY DEF EarlierBefore
<1> HIDE DEF S, k
<1>8. k \in S /\ \A y \in S : k >= y
    BY <1>5, <1>6, <1>7 DEF Max
<1>a. k \in 0 .. L
    BY <1>1, <1>8
<1>9. ASSUME k < L PROVE ~(list[k + 1].when < when)
    <2> SUFFICES ASSUME list[k + 1].when < when PROVE FALSE
        OBVIOUS
    <2>1. k + 1 \in 0 .. L
        BY <1>1, <1>a, <1>9
    <2>2. \A m \in 1 .. k + 1 : list[m].when < when
        BY <1>1, <1>8 DEF S
    <2>3. k + 1 \in S
        BY <2>1, <2>2 DEF S
    <2> QED
        BY <1>a, <1>8, <2>3
<1> QED
    BY <1>8, <1>9 DEF S, k

LEMMA ConcatFacts ==
    ASSUME NEW a \in Seq(Event), NEW b \in Seq(Event), NEW d, d = a \o b, NEW k \in Nat, NEW n \in Nat,
           k = Len(a), n = Len(a) + Len(b)
    PROVE  /\ d \in Seq(Event) /\ Len(d) = n
           /\ \A m \in 1 .. n : d[m] = IF m <= k THEN a[m] ELSE b[m - k]
BY ConcatProperties

LEMMA InsertedFacts ==
    ASSUME NEW list \in Seq(Event), NEW e \in Event
    PROVE  LET k == EarlierBefore(list, e.when)
           IN  /\ Inserted(list, e) \in Seq(Event)
               /\ Len(Inserted(list, e)) = Len(list) + 1
               /\ \A m \in 1 .. Len(list) + 1 :
                     Inserted(list, e)[m] = IF m <= k THEN list[m]
                                            ELSE IF m = k + 1 THEN e ELSE list[m - 1]
<1> DEFINE k == EarlierBefore(list, e.when)
           a == SubSeq(list, 1, k)
           b == SubSeq(list, k + 1, Len(list))
<1>1. k \in 0 .. Len(list)
    BY EventFacts, EarlierBeforeFacts
<1>2. /\ a \in Seq(Event) /\ Len(a) = k
      /\ \A m \in 1 .. k : a[m] = list[m]
    BY <1>1
<1>3. /\ b \in Seq(Event) /\ Len(b) = Len(list) - k
      /\ \A m \in 1 .. Len(list) - k : b[m] = list[k + m]
    BY <1>1
<1>4. Inserted(list, e) = a \o <<e>> \o b
    BY DEF Inserted
<1> HIDE DEF a, b, k
<1> DEFINE c == a \o <<e>>
           d == c \o b
<1>5. /\ c \in Seq(Event) /\ Len(c) = k + 1
      /\ \A m \in 1 .. k + 1 : c[m] = IF m <= k THEN a[m] ELSE e
    BY <1>1, <1>2
<1> HIDE DEF c
<1>6. /\ d \in Seq(Event) /\ Len(d) = Len(list) + 1
      /\ \A m \in 1 .. Len(list) + 1 : d[m] = IF m <= k + 1 THEN c[m] ELSE b[m - (k + 1)]
    <2>1. /\ k + 1 \in Nat /\ Len(list) + 1 \in Nat
          /\ k + 1 = Len(c) /\ Len(list) + 1 = Len(c) + Len(b)
        BY <1>1, <1>3, <1>5
    <2> QED
        BY <1>3, <1>5, <2>1, ConcatFacts
<1>7. Inserted(list, e) = d
    BY <1>4 DEF c
<1> HIDE DEF d
<1>8. \A m \in 1 .. Len(list) + 1 :
         d[m] = IF m <= k THEN list[m] ELSE IF m = k + 1 THEN e ELSE list[m - 1]
    <2> TAKE m \in 1 .. Len(list) + 1
    <2>1. CASE m <= k
        BY <1>1, <1>2, <1>5, <1>6, <2>1 DEF c
    <2>2. CASE m = k + 1
        BY <1>1, <1>5, <1>6, <2>2 DEF c
    <2>3. CASE m > k + 1
        <3>1. m - (k + 1) \in 1 .. Len(list) - k /\ k + (m - (k + 1)) = m - 1
            BY <1>1, <2>3
        <3> QED
            <4>1. d[m] = b[m - (k + 1)]
                BY <1>1, <1>6, <2>3
            <4>2. b[m - (k + 1)] = list[k + (m - (k + 1))]
                BY <1>3, <3>1
            <4> QED
                BY <1>1, <2>3, <3>1, <4>1, <4>2
    <2> QED
        BY <1>1, <2>1, <2>2, <2>3
<1> QED
    BY <1>6, <1>7, <1>8 DEF k

LEMMA WithoutFacts ==
    ASSUME NEW list \in Seq(Event), NEW n \in DOMAIN list
    PROVE  LET rest == SubSeq(list, 1, n - 1) \o SubSeq(list, n + 1, Len(list))
           IN  /\ rest \in Seq(Event)
               /\ Len(rest) = Len(list) - 1
               /\ \A m \in 1 .. Len(list) - 1 :
                     rest[m] = IF m < n THEN list[m] ELSE list[m + 1]
<1> DEFINE a == SubSeq(list, 1, n - 1)
           b == SubSeq(list, n + 1, Len(list))
<1>1. n \in 1 .. Len(list)
    OBVIOUS
<1>2. /\ a \in Seq(Event) /\ Len(a) = n - 1
      /\ \A m \in 1 .. n - 1 : a[m] = list[m]
    BY <1>1
<1>3. /\ b \in Seq(Event) /\ Len(b) = Len(list) - n
      /\ \A m \in 1 .. Len(list) - n : b[m] = list[n + m]
    BY <1>1
<1> HIDE DEF a, b
<1> DEFINE d == a \o b
<1>4. /\ d \in Seq(Event) /\ Len(d) = Len(list) - 1
      /\ \A m \in 1 .. Len(list) - 1 : d[m] = IF m <= n - 1 THEN a[m] ELSE b[m - (n - 1)]
    <2>1. /\ n - 1 \in Nat /\ Len(list) - 1 \in Nat
          /\ n - 1 = Len(a) /\ Len(list) - 1 = Len(a) + Len(b)
        BY <1>1, <1>2, <1>3
    <2>2. d = a \o b
        OBVIOUS
    <2> HIDE DEF d
    <2>3. PICK k \in Nat, L \in Nat : k = n - 1 /\ L = Len(list) - 1
        BY <2>1
    <2>4. /\ d \in Seq(Event) /\ Len(d) = L
          /\ \A m \in 1 .. L : d[m] = IF m <= k THEN a[m] ELSE b[m - k]
        <3>1. a \in Seq(Event) /\ b \in Seq(Event)
            BY <1>2, <1>3
        <3>2. k = Len(a) /\ L = Len(a) + Len(b)
            BY <2>1, <2>3
        <3> QED
            BY <3>1, <3>2, <2>2, ConcatFacts
    <2> QED
        BY <2>3, <2>4
<1> HIDE DEF d
<1>5. \A m \in 1 .. Len(list) - 1 : d[m] = IF m < n THEN list[m] ELSE list[m + 1]
    <2> TAKE m \in 1 .. Len(list) - 1
    <2>1. CASE m < n
        BY <1>1, <1>2, <1>4, <2>1
    <2>2. CASE m >= n
        <3>1. m - (n - 1) \in 1 .. Len(list) - n /\ n + (m - (n - 1)) = m + 1
            BY <1>1, <2>2
        <3> QED
            BY <1>1, <1>3, <1>4, <2>2, <3>1
    <2> QED
        BY <1>1, <2>1, <2>2
<1> QED
    BY <1>4, <1>5 DEF a, b, d

LEMMA SuffixFacts ==
    ASSUME NEW list \in Seq(Event), NEW n \in DOMAIN list
    PROVE  LET rest == SubSeq(list, n + 1, Len(list))
           IN  /\ rest \in Seq(Event)
               /\ Len(rest) = Len(list) - n
               /\ \A m \in 1 .. Len(list) - n : rest[m] = list[n + m]
<1>1. n \in 1 .. Len(list)
    OBVIOUS
<1> QED
    BY <1>1

(* The order of the list is the order of the events. *)
LEMMA SortedOrder ==
    ASSUME NEW list \in Seq(Event), Sorted(list), NEW m \in DOMAIN list, NEW n \in DOMAIN list
    PROVE  Before(list[m], list[n]) <=> m < n
<1>1. m \in Nat /\ n \in Nat /\ list[m] \in Event /\ list[n] \in Event
    OBVIOUS
<1>2. m < n => Before(list[m], list[n])
    BY DEF Sorted
<1>3. n < m => Before(list[n], list[m])
    BY DEF Sorted
<1> QED
    BY <1>1, <1>2, <1>3, EventFacts DEF Before

(* Inserting an event with a fresh id keeps the list sorted. *)
LEMMA InsertedSorted ==
    ASSUME NEW list \in Seq(Event), Sorted(list), DistinctIds(list), NEW e \in Event,
           \A n \in DOMAIN list : list[n].id < e.id
    PROVE  /\ Sorted(Inserted(list, e))
           /\ DistinctIds(Inserted(list, e))
           /\ ListOf(Inserted(list, e)) = ListOf(list) \cup {e}
<1> DEFINE k == EarlierBefore(list, e.when)
           new == Inserted(list, e)
           L == Len(list)
<1>1. L \in Nat /\ DOMAIN list = 1 .. L /\ \A m \in 1 .. L : list[m] \in Event
    OBVIOUS
<1>2. k \in 0 .. L /\ (\A m \in 1 .. k : list[m].when < e.when)
      /\ (k < L => ~(list[k + 1].when < e.when))
    BY EventFacts, EarlierBeforeFacts
<1>3. /\ DOMAIN new = 1 .. L + 1
      /\ \A m \in 1 .. L + 1 : new[m] = IF m <= k THEN list[m]
                                        ELSE IF m = k + 1 THEN e ELSE list[m - 1]
    <2>1. new \in Seq(Event) /\ Len(new) = L + 1
        BY InsertedFacts
    <2>2. DOMAIN new = 1 .. L + 1
        BY <2>1
    <2> QED
        BY <2>2, InsertedFacts
<1> HIDE DEF k, new, L
<1>4. \A m \in 1 .. L : m > k => Before(e, list[m])
    <2> SUFFICES ASSUME NEW m \in 1 .. L, m > k PROVE Before(e, list[m])
        OBVIOUS
    <2>1. k + 1 \in 1 .. L /\ ~(list[k + 1].when < e.when)
        BY <1>1, <1>2
    <2>2. m = k + 1 \/ Before(list[k + 1], list[m])
        BY <1>1, <1>2, <2>1 DEF Sorted
    <2>3. e.id > list[m].id
        BY <1>1, EventFacts
    <2> QED
        BY <1>1, <2>1, <2>2, <2>3, EventFacts DEF Before
<1>5. \A m \in 1 .. k : Before(list[m], e)
    BY <1>2 DEF Before
<1>6. Sorted(new)
    <2> SUFFICES ASSUME NEW m \in 1 .. L + 1, NEW n \in 1 .. L + 1, m < n
                 PROVE  Before(new[m], new[n])
        BY <1>3 DEF Sorted
    <2> DEFINE old(j) == IF j <= k THEN j ELSE j - 1
    <2>1. CASE m = k + 1
        <3>1. n - 1 \in 1 .. L /\ n - 1 > k /\ new[n] = list[n - 1] /\ new[m] = e
            BY <1>1, <1>2, <1>3, <2>1
        <3> QED
            BY <1>4, <3>1
    <2>2. CASE n = k + 1
        <3>1. m \in 1 .. k /\ new[n] = e /\ new[m] = list[m]
            BY <1>1, <1>2, <1>3, <2>2
        <3> QED
            BY <1>5, <3>1
    <2>3. CASE m # k + 1 /\ n # k + 1
        <3>1. /\ old(m) \in 1 .. L /\ old(n) \in 1 .. L /\ old(m) < old(n)
              /\ new[m] = list[old(m)] /\ new[n] = list[old(n)]
            BY <1>1, <1>2, <1>3, <2>3
        <3> QED
            BY <1>1, <3>1 DEF Sorted
    <2> QED
        BY <2>1, <2>2, <2>3
<1>7. DistinctIds(new)
    <2> SUFFICES ASSUME NEW m \in 1 .. L + 1, NEW n \in 1 .. L + 1, new[m].id = new[n].id
                 PROVE  m = n
        BY <1>3 DEF DistinctIds
    <2> DEFINE old(j) == IF j <= k THEN j ELSE j - 1
    <2>1. \A j \in 1 .. L + 1 : j # k + 1 =>
              old(j) \in 1 .. L /\ new[j] = list[old(j)] /\ new[j].id # e.id
        <3> SUFFICES ASSUME NEW j \in 1 .. L + 1, j # k + 1
                     PROVE  old(j) \in 1 .. L /\ new[j] = list[old(j)] /\ new[j].id # e.id
            OBVIOUS
        <3>1. old(j) \in 1 .. L /\ new[j] = list[old(j)]
            BY <1>1, <1>2, <1>3
        <3>2. list[old(j)].id < e.id /\ list[old(j)] \in Event
            BY <1>1, <3>1
        <3> QED
            BY <3>1, <3>2, EventFacts
    <2>2. new[k + 1] = e
        BY <1>1, <1>2, <1>3
    <2>3. CASE m = k + 1 \/ n = k + 1
        BY <2>1, <2>2, <2>3
    <2>4. CASE m # k + 1 /\ n # k + 1
        <3>1. old(m) = old(n)
            BY <1>1, <2>1, <2>4 DEF DistinctIds
        <3> QED
            BY <1>1, <1>2, <2>4, <3>1
    <2> QED
        BY <2>3, <2>4
<1>8. ListOf(new) = ListOf(list) \cup {e}
    <2>1. \A m \in 1 .. L : \E j \in 1 .. L + 1 : new[j] = list[m]
        <3> TAKE m \in 1 .. L
        <3>1. CASE m <= k
            BY <1>1, <1>2, <1>3, <3>1
        <3>2. CASE m > k
            <4>1. m + 1 \in 1 .. L + 1 /\ new[m + 1] = list[m]
                BY <1>1, <1>2, <1>3, <3>2
            <4> QED
                BY <4>1
        <3> QED
            BY <1>1, <1>2, <3>1, <3>2
    <2>2. k + 1 \in 1 .. L + 1 /\ new[k + 1] = e
        BY <1>1, <1>2, <1>3
    <2>3. \A j \in 1 .. L + 1 : new[j] = e \/ \E m \in 1 .. L : new[j] = list[m]
        <3> TAKE j \in 1 .. L + 1
        <3>1. CASE j <= k
            BY <1>1, <1>2, <1>3, <3>1
        <3>2. CASE j > k + 1
            <4>1. j - 1 \in 1 .. L /\ new[j] = list[j - 1]
                BY <1>1, <1>2, <1>3, <3>2
            <4> QED
                BY <4>1
        <3> QED
            BY <1>1, <1>2, <2>2, <3>1, <3>2
    <2>4. DOMAIN new = 1 .. L + 1 /\ DOMAIN list = 1 .. L
        BY <1>1, <1>3
    <2>5. ListOf(list) \cup {e} \subseteq ListOf(new)
        BY <2>1, <2>2, <2>4 DEF ListOf
    <2>6. ListOf(new) \subseteq ListOf(list) \cup {e}
        BY <2>3, <2>4 DEF ListOf
    <2> QED
        BY <2>5, <2>6
<1> QED
    BY <1>6, <1>7, <1>8 DEF new


(* Unlinking an event keeps the list sorted. *)
LEMMA WithoutSorted ==
    ASSUME NEW list \in Seq(Event), Sorted(list), DistinctIds(list), NEW n \in DOMAIN list
    PROVE  LET rest == SubSeq(list, 1, n - 1) \o SubSeq(list, n + 1, Len(list))
           IN  /\ rest \in Seq(Event)
               /\ Len(rest) = Len(list) - 1
               /\ Sorted(rest)
               /\ DistinctIds(rest)
               /\ ListOf(rest) = ListOf(list) \ {list[n]}
<1> DEFINE rest == SubSeq(list, 1, n - 1) \o SubSeq(list, n + 1, Len(list))
           L == Len(list)
           old(m) == IF m < n THEN m ELSE m + 1
           new(m) == IF m < n THEN m ELSE m - 1
<1>1. L \in Nat /\ DOMAIN list = 1 .. L /\ n \in 1 .. L
    OBVIOUS
<1>2. rest \in Seq(Event) /\ Len(rest) = L - 1
    BY WithoutFacts
<1>a. \A m \in 1 .. L - 1 : rest[m] = IF m < n THEN list[m] ELSE list[m + 1]
    BY WithoutFacts
<1> HIDE DEF rest, L
<1>3. /\ DOMAIN rest = 1 .. L - 1
      /\ \A m \in 1 .. L - 1 : rest[m] = list[old(m)] /\ old(m) \in 1 .. L /\ old(m) # n
    <2>1. DOMAIN rest = 1 .. L - 1
        BY <1>1, <1>2
    <2> QED
        BY <1>1, <1>a, <2>1
<1>4. Sorted(rest)
    <2> SUFFICES ASSUME NEW m \in 1 .. L - 1, NEW k \in 1 .. L - 1, m < k
                 PROVE  Before(rest[m], rest[k])
        BY <1>3 DEF Sorted
    <2>1. old(m) < old(k)
        BY <1>1
    <2> QED
        BY <1>1, <1>3, <2>1 DEF Sorted
<1>5. DistinctIds(rest)
    <2> SUFFICES ASSUME NEW m \in 1 .. L - 1, NEW k \in 1 .. L - 1, rest[m].id = rest[k].id
                 PROVE  m = k
        BY <1>3 DEF DistinctIds
    <2>0. /\ rest[m] = list[old(m)] /\ old(m) \in 1 .. L
          /\ rest[k] = list[old(k)] /\ old(k) \in 1 .. L
        BY <1>3
    <2>1. old(m) = old(k)
        BY <1>1, <2>0 DEF DistinctIds
    <2> QED
        BY <1>1, <2>1
<1>6. ListOf(rest) = ListOf(list) \ {list[n]}
    <2>0. \A m \in 1 .. L - 1 : \E k \in 1 .. L : rest[m] = list[k]
        BY <1>3
    <2>1. \A m \in 1 .. L - 1 : rest[m] # list[n]
        BY <1>1, <1>3 DEF DistinctIds
    <2>2. ASSUME NEW k \in 1 .. L, k # n
          PROVE  new(k) \in 1 .. L - 1 /\ rest[new(k)] = list[k]
        BY <1>1, <1>3, <2>2
    <2>3. \A k \in 1 .. L : k # n => \E m \in 1 .. L - 1 : rest[m] = list[k]
        BY <2>2
    <2>4. ListOf(rest) \subseteq ListOf(list) \ {list[n]}
        BY <1>1, <1>3, <2>0, <2>1 DEF ListOf
    <2>5. ListOf(list) \ {list[n]} \subseteq ListOf(rest)
        <3> SUFFICES ASSUME NEW f \in ListOf(list), f # list[n] PROVE f \in ListOf(rest)
            OBVIOUS
        <3>1. PICK k \in 1 .. L : f = list[k] /\ k # n
            BY <1>1 DEF ListOf
        <3>2. PICK m \in 1 .. L - 1 : rest[m] = f
            BY <2>3, <3>1
        <3> QED
            BY <1>3, <3>2 DEF ListOf
    <2> QED
        BY <2>4, <2>5
<1> QED
    BY <1>2, <1>4, <1>5, <1>6 DEF rest, L

(* Cutting the list off up to an event keeps it sorted. *)
LEMMA SuffixSorted ==
    ASSUME NEW list \in Seq(Event), Sorted(list), DistinctIds(list), NEW n \in DOMAIN list
    PROVE  LET rest == SubSeq(list, n + 1, Len(list))
           IN  /\ rest \in Seq(Event)
               /\ Len(rest) = Len(list) - n
               /\ Sorted(rest)
               /\ DistinctIds(rest)
               /\ ListOf(rest) = {f \in ListOf(list) : Before(list[n], f)}
<1> DEFINE rest == SubSeq(list, n + 1, Len(list))
           L == Len(list)
<1>1. L \in Nat /\ DOMAIN list = 1 .. L /\ n \in 1 .. L
    OBVIOUS
<1>2. rest \in Seq(Event) /\ Len(rest) = L - n
    BY SuffixFacts
<1>3. /\ DOMAIN rest = 1 .. L - n
      /\ \A m \in 1 .. L - n : rest[m] = list[n + m] /\ n + m \in 1 .. L
    <2>1. DOMAIN rest = 1 .. L - n
        BY <1>2
    <2> QED
        BY <1>1, <2>1, SuffixFacts
<1> HIDE DEF rest, L
<1>4. Sorted(rest)
    <2> SUFFICES ASSUME NEW m \in 1 .. L - n, NEW k \in 1 .. L - n, m < k
                 PROVE  Before(rest[m], rest[k])
        BY <1>3 DEF Sorted
    <2>1. n + m < n + k
        BY <1>1
    <2> QED
        BY <1>1, <1>3, <2>1 DEF Sorted
<1>5. DistinctIds(rest)
    <2> SUFFICES ASSUME NEW m \in 1 .. L - n, NEW k \in 1 .. L - n, rest[m].id = rest[k].id
                 PROVE  m = k
        BY <1>3 DEF DistinctIds
    <2>1. n + m = n + k
        BY <1>1, <1>3 DEF DistinctIds
    <2> QED
        BY <1>1, <2>1
<1>6. ListOf(rest) = {f \in ListOf(list) : Before(list[n], f)}
    <2>1. \A k \in 1 .. L : Before(list[n], list[k]) <=> n < k
        BY <1>1, SortedOrder
    <2>2. \A k \in 1 .. L : n < k => k - n \in 1 .. L - n /\ rest[k - n] = list[k]
        <3> TAKE k \in 1 .. L
        <3> HAVE n < k
        <3>1. k - n \in 1 .. L - n /\ n + (k - n) = k
            BY <1>1
        <3> QED
            BY <1>3, <3>1
    <2>3. \A m \in 1 .. L - n : rest[m] = list[n + m] /\ n + m \in 1 .. L /\ n < n + m
        BY <1>1, <1>3
    <2> QED
        BY <1>1, <1>3, <2>1, <2>2, <2>3 DEF ListOf
<1> QED
    BY <1>2, <1>4, <1>5, <1>6 DEF rest, L

(* The events before one of the list, and how many they are. *)
LEMMA PrefixEvents ==
    ASSUME NEW list \in Seq(Event), Sorted(list), DistinctIds(list), NEW n \in DOMAIN list
    PROVE  LET front == ListOf(SubSeq(list, 1, n - 1))
           IN  /\ front = {f \in ListOf(list) : Before(f, list[n])}
               /\ Cardinality(front) = n - 1
<1> DEFINE rest == SubSeq(list, 1, n - 1)
           front == ListOf(rest)
           L == Len(list)
<1>1. L \in Nat /\ DOMAIN list = 1 .. L /\ n \in 1 .. L /\ n - 1 \in Nat
    OBVIOUS
<1>2. /\ DOMAIN rest = 1 .. n - 1
      /\ \A m \in 1 .. n - 1 : rest[m] = list[m] /\ m \in 1 .. L
    BY <1>1
<1> HIDE DEF rest, L
<1>3. front = {f \in ListOf(list) : Before(f, list[n])}
    <2>1. \A k \in 1 .. L : Before(list[k], list[n]) <=> k < n
        BY <1>1, SortedOrder
    <2>2. \A k \in 1 .. L : k < n <=> k \in 1 .. n - 1
        BY <1>1
    <2> QED
        BY <1>1, <1>2, <2>1, <2>2 DEF ListOf
<1>4. Cardinality(front) = n - 1
    <2> DEFINE f == [m \in 1 .. n - 1 |-> rest[m]]
    <2>1. f \in [1 .. n - 1 -> front]
        BY <1>2 DEF ListOf
    <2>2. \A a, b \in 1 .. n - 1 : f[a] = f[b] => a = b
        BY <1>1, <1>2 DEF DistinctIds
    <2>3. \A e \in front : \E m \in 1 .. n - 1 : f[m] = e
        BY <1>2 DEF ListOf
    <2>4. f \in Bijection(1 .. n - 1, front)
        BY <2>1, <2>2, <2>3 DEF Bijection, Injection, Surjection, IsInjective
    <2>5. ExistsBijection(1 .. n - 1, front)
        BY <2>4 DEF ExistsBijection
    <2> QED
        BY <1>1, <2>5, FS_CountingElements
<1> QED
    BY <1>3, <1>4 DEF rest

(* The first event is served before all others. *)
LEMMA TailSorted ==
    ASSUME NEW list \in Seq(Event), Sorted(list), DistinctIds(list), list # <<>>
    PROVE  /\ 1 \in DOMAIN list /\ Head(list) = list[1]
           /\ \A f \in ListOf(list) : f = list[1] \/ Before(list[1], f)
           /\ Tail(list) \in Seq(Event)
           /\ Len(Tail(list)) = Len(list) - 1
           /\ Sorted(Tail(list))
           /\ DistinctIds(Tail(list))
           /\ ListOf(Tail(list)) = ListOf(list) \ {list[1]}
<1> DEFINE rest == SubSeq(list, 1 + 1, Len(list))
<1>1. 1 \in DOMAIN list /\ Head(list) = list[1]
    OBVIOUS
<1>2. Tail(list) = rest
    BY TailIsSubSeq
<1>3. /\ rest \in Seq(Event)
      /\ Len(rest) = Len(list) - 1
      /\ Sorted(rest)
      /\ DistinctIds(rest)
      /\ ListOf(rest) = {f \in ListOf(list) : Before(list[1], f)}
    BY <1>1, SuffixSorted
<1>4. \A f \in ListOf(list) : f = list[1] \/ Before(list[1], f)
    <2>1. \A n \in DOMAIN list : n = 1 \/ 1 < n
        OBVIOUS
    <2> QED
        BY <1>1, <2>1 DEF ListOf, Sorted
<1>5. ~Before(list[1], list[1])
    BY <1>1, SortedOrder
<1> HIDE DEF rest
<1>6. ListOf(rest) = ListOf(list) \ {list[1]}
    BY <1>3, <1>4, <1>5
<1> QED
    BY <1>1, <1>2, <1>3, <1>4, <1>6


-----------------------------------------------------------------------------
(* The callbacks under way and the list they are in.                       *)

Call == [call : {"execute", "service"}, ev : Event]

CallsIn(calls, call) ==
    {calls[n].ev : n \in {m \in DOMAIN calls : calls[m].call = call}}

OneOf(events) == IF events = {} THEN NoEvent ELSE CHOOSE e \in events : TRUE

ServedIn(calls) == OneOf(CallsIn(calls, "service"))

(* What stands before the event being served. *)
Overtaking ==
    IF ServedEvent = NoEvent THEN {}
    ELSE ListOf(SubSeq(eventq_pending, 1, Place(ServedEvent.id) - 1))

PlaceIn(list, id) == CHOOSE n \in DOMAIN list : list[n].id = id

OvertakingIn(list, calls) ==
    IF ServedIn(calls) = NoEvent THEN {}
    ELSE ListOf(SubSeq(list, 1, PlaceIn(list, ServedIn(calls).id) - 1))

LEMMA Views ==
    /\ \A call : CallsOf(call) = CallsIn(stack, call) /\ CallsOf(call)' = CallsIn(stack', call)
    /\ ServedEvent = ServedIn(stack) /\ ServedEvent' = ServedIn(stack')
    /\ Overtaking = OvertakingIn(eventq_pending, stack)
    /\ Overtaking' = OvertakingIn(eventq_pending', stack')
    /\ \A id : Place(id) = PlaceIn(eventq_pending, id)
<1>1. \A call : CallsOf(call) = CallsIn(stack, call) /\ CallsOf(call)' = CallsIn(stack', call)
    BY DEF CallsOf, CallsIn
<1>2. ServedEvent = ServedIn(stack) /\ ServedEvent' = ServedIn(stack')
    BY DEF ServedEvent, ServedIn, OneOf, CallsOf, CallsIn
<1>3. /\ \A id : Place(id) = PlaceIn(eventq_pending, id)
      /\ \A id : Place(id)' = PlaceIn(eventq_pending', id)
    BY DEF Place, PlaceIn
<1>4. Overtaking = OvertakingIn(eventq_pending, stack)
    BY <1>2, <1>3 DEF Overtaking, OvertakingIn
<1>5. Overtaking' = OvertakingIn(eventq_pending', stack')
    BY <1>2, <1>3 DEF Overtaking, OvertakingIn, Place, PlaceIn, ListOf
<1> QED
    BY <1>1, <1>2, <1>3, <1>4, <1>5

(* The list is sorted and no two events share an id.  While                *)
(* eventq_service_events runs, the outermost callback, and no other, is    *)
(* its own; the event of that callback is still in the list, those of      *)
(* eventq_execute are not.                                                 *)
Consistent(list, calls, now, next) ==
    /\ list \in Seq(Event) /\ calls \in Seq(Call)
    /\ Sorted(list) /\ DistinctIds(list)
    /\ \A f \in ListOf(list) : f.id < next
    /\ \A n \in DOMAIN calls :
          /\ calls[n].ev.id < next
          /\ calls[n].call = "service" <=> n = 1 /\ now # NoTime
          /\ calls[n].call = "service" => calls[n].ev \in ListOf(list)
          /\ calls[n].call = "execute" => \A f \in ListOf(list) : f.id # calls[n].ev.id
          /\ \A m \in DOMAIN calls : calls[m].ev.id = calls[n].ev.id => m = n

LEMMA ListFacts ==
    ASSUME NEW list \in Seq(Event), Sorted(list), DistinctIds(list)
    PROVE  \A f \in ListOf(list) :
              /\ f \in Event /\ f.id \in Int /\ f.when \in Int /\ f # NoEvent
              /\ ~Before(f, f)
              /\ \A g \in ListOf(list) :
                    /\ f.id = g.id => f = g
                    /\ f # g => (Before(f, g) <=> ~Before(g, f))
<1>1. \A f \in ListOf(list) : f \in Event
    BY DEF ListOf
<1> SUFFICES ASSUME NEW f \in ListOf(list)
             PROVE  /\ f \in Event /\ f.id \in Int /\ f.when \in Int /\ f # NoEvent
                    /\ ~Before(f, f)
                    /\ \A g \in ListOf(list) :
                          /\ f.id = g.id => f = g
                          /\ f # g => (Before(f, g) <=> ~Before(g, f))
    OBVIOUS
<1>2. f \in Event /\ f # NoEvent
    BY <1>1, NoEventAssumption
<1>3. f.id \in Int /\ f.when \in Int
    BY <1>2, EventFacts
<1>4. ~Before(f, f)
    BY <1>3 DEF Before
<1>5. ASSUME NEW g \in ListOf(list)
      PROVE  /\ f.id = g.id => f = g
             /\ f # g => (Before(f, g) <=> ~Before(g, f))
    <2>1. f.id = g.id => f = g
        BY DEF ListOf, DistinctIds
    <2>2. g.id \in Int /\ g.when \in Int
        BY <1>1, EventFacts
    <2>3. f # g => f.id # g.id
        BY <2>1
    <2> QED
        BY <1>3, <2>1, <2>2, <2>3 DEF Before
<1> QED
    BY <1>2, <1>3, <1>4, <1>5

(* The event served, and what overtakes it, as the list says. *)
LEMMA ServedFacts ==
    ASSUME NEW list, NEW calls, NEW now, NEW next, Consistent(list, calls, now, next)
    PROVE  IF now # NoTime /\ calls # <<>>
           THEN /\ calls[1] \in Call
                /\ CallsIn(calls, "service") = {calls[1].ev}
                /\ ServedIn(calls) = calls[1].ev
                /\ calls[1].ev \in ListOf(list)
                /\ calls[1].ev # NoEvent
                /\ OvertakingIn(list, calls) = {f \in ListOf(list) : Before(f, calls[1].ev)}
                /\ PlaceIn(list, calls[1].ev.id) \in DOMAIN list
                /\ list[PlaceIn(list, calls[1].ev.id)] = calls[1].ev
                /\ Cardinality(OvertakingIn(list, calls)) = PlaceIn(list, calls[1].ev.id) - 1
           ELSE /\ CallsIn(calls, "service") = {}
                /\ ServedIn(calls) = NoEvent
                /\ OvertakingIn(list, calls) = {}
<1>1. /\ list \in Seq(Event) /\ calls \in Seq(Call)
      /\ Sorted(list) /\ DistinctIds(list)
      /\ \A n \in DOMAIN calls :
            /\ calls[n].call = "service" <=> n = 1 /\ now # NoTime
            /\ calls[n].call = "service" => calls[n].ev \in ListOf(list)
    BY DEF Consistent
<1>2. calls # <<>> => 1 \in DOMAIN calls
    BY <1>1
<1>3. CASE now # NoTime /\ calls # <<>>
    <2> DEFINE e == calls[1].ev
               p == PlaceIn(list, e.id)
    <2>1. calls[1] \in Call /\ e \in ListOf(list)
        BY <1>1, <1>2, <1>3
    <2>2. CallsIn(calls, "service") = {e}
        BY <1>1, <1>2, <1>3 DEF CallsIn
    <2>3. e # NoEvent
        BY <1>1, <2>1, ListFacts
    <2>4. ServedIn(calls) = e
        BY <2>2 DEF ServedIn, OneOf
    <2>5. p \in DOMAIN list /\ list[p] = e
        <3>1. PICK n \in DOMAIN list : list[n] = e
            BY <2>1 DEF ListOf
        <3>2. p \in DOMAIN list /\ list[p].id = e.id
            BY <3>1 DEF PlaceIn
        <3> QED
            BY <1>1, <3>1, <3>2 DEF DistinctIds
    <2> HIDE DEF e
    <2>6. OvertakingIn(list, calls) = ListOf(SubSeq(list, 1, p - 1))
        BY <2>3, <2>4 DEF OvertakingIn
    <2> HIDE DEF p
    <2>7. /\ ListOf(SubSeq(list, 1, p - 1)) = {f \in ListOf(list) : Before(f, list[p])}
          /\ Cardinality(ListOf(SubSeq(list, 1, p - 1))) = p - 1
        BY <1>1, <2>5, PrefixEvents
    <2> QED
        BY <1>3, <2>1, <2>2, <2>3, <2>4, <2>5, <2>6, <2>7 DEF e, p
<1>4. CASE ~(now # NoTime /\ calls # <<>>)
    <2>1. CallsIn(calls, "service") = {}
        BY <1>1, <1>4 DEF CallsIn
    <2>2. ServedIn(calls) = NoEvent
        BY <2>1 DEF ServedIn, OneOf
    <2> QED
        BY <1>4, <2>1, <2>2 DEF OvertakingIn
<1> QED
    BY <1>3, <1>4

(* A callback begins, and the innermost one ends. *)
LEMMA CallBegins ==
    ASSUME NEW calls \in Seq(Call), NEW c \in Call
    PROVE  LET more == Append(calls, c)
           IN  /\ more \in Seq(Call) /\ more # <<>>
               /\ Len(more) = Len(calls) + 1
               /\ DOMAIN more = DOMAIN calls \cup {Len(calls) + 1}
               /\ Len(calls) + 1 \notin DOMAIN calls
               /\ more[Len(calls) + 1] = c
               /\ \A n \in DOMAIN calls : more[n] = calls[n]
               /\ \A call : CallsIn(more, call)
                                = CallsIn(calls, call) \cup {e \in {c.ev} : c.call = call}
<1> DEFINE more == Append(calls, c)
           L == Len(calls)
<1>1. /\ more \in Seq(Call) /\ L \in Nat /\ DOMAIN calls = 1 .. L /\ Len(more) = L + 1
      /\ DOMAIN more = 1 .. L + 1
      /\ more[L + 1] = c
      /\ \A n \in 1 .. L : more[n] = calls[n]
    OBVIOUS
<1> HIDE DEF more, L
<1>2. 1 .. L + 1 = 1 .. L \cup {L + 1} /\ L + 1 \notin 1 .. L
    BY <1>1
<1>3. \A call : CallsIn(more, call)
                    = CallsIn(calls, call) \cup {e \in {c.ev} : c.call = call}
    <2> TAKE call
    <2>1. CallsIn(more, call) = {more[n].ev : n \in {m \in (1 .. L) \cup {L + 1} : more[m].call = call}}
        BY <1>1, <1>2 DEF CallsIn
    <2>2. CallsIn(calls, call) = {calls[n].ev : n \in {m \in 1 .. L : calls[m].call = call}}
        BY <1>1 DEF CallsIn
    <2>3. ASSUME NEW x \in CallsIn(more, call)
          PROVE  x \in CallsIn(calls, call) \cup {e \in {c.ev} : c.call = call}
        BY <1>1, <2>1, <2>2, <2>3
    <2>4. ASSUME NEW x \in CallsIn(calls, call) \cup {e \in {c.ev} : c.call = call}
          PROVE  x \in CallsIn(more, call)
        <3>1. CASE x \in CallsIn(calls, call)
            <4>1. PICK n \in 1 .. L : calls[n].call = call /\ x = calls[n].ev
                BY <2>2, <3>1
            <4>2. more[n].call = call /\ x = more[n].ev
                BY <1>1, <4>1
            <4> QED
                BY <2>1, <4>1, <4>2
        <3>2. CASE x \notin CallsIn(calls, call)
            <4>1. more[L + 1].call = call /\ x = more[L + 1].ev
                BY <1>1, <2>4, <3>2
            <4> QED
                BY <2>1, <4>1
        <3> QED
            BY <3>1, <3>2
    <2> QED
        BY <2>3, <2>4
<1>4. more # <<>>
    BY <1>1
<1> QED
    BY <1>1, <1>2, <1>3, <1>4 DEF more, L

LEMMA CallEnds ==
    ASSUME NEW calls \in Seq(Call), calls # <<>>,
           \A n, m \in DOMAIN calls : calls[m].ev.id = calls[n].ev.id => m = n
    PROVE  LET less == SubSeq(calls, 1, Len(calls) - 1)
               top  == calls[Len(calls)]
           IN  /\ less \in Seq(Call) /\ top \in Call /\ Len(calls) \in DOMAIN calls
               /\ DOMAIN less = DOMAIN calls \ {Len(calls)}
               /\ \A n \in DOMAIN less : less[n] = calls[n]
               /\ \A call : CallsIn(less, call)
                                = CallsIn(calls, call) \ {e \in {top.ev} : top.call = call}
<1> DEFINE less == SubSeq(calls, 1, Len(calls) - 1)
           L == Len(calls)
           top == calls[L]
<1>1. /\ less \in Seq(Call) /\ L \in Nat \ {0} /\ DOMAIN calls = 1 .. L
      /\ DOMAIN less = 1 .. L - 1
      /\ \A n \in 1 .. L - 1 : less[n] = calls[n]
      /\ top \in Call
    OBVIOUS
<1> HIDE DEF less, L
<1>2. 1 .. L - 1 = (1 .. L) \ {L} /\ L \in 1 .. L
    BY <1>1
<1>3. ASSUME NEW call
      PROVE  CallsIn(less, call) = CallsIn(calls, call) \ {e \in {top.ev} : top.call = call}
    <2>1. \A n \in 1 .. L - 1 : calls[n].ev # top.ev
        BY <1>1, <1>2
    <2>2. CallsIn(less, call) = {less[n].ev : n \in {m \in (1 .. L) \ {L} : less[m].call = call}}
        BY <1>1, <1>2 DEF CallsIn
    <2>3. CallsIn(calls, call) = {calls[n].ev : n \in {m \in 1 .. L : calls[m].call = call}}
        BY <1>1 DEF CallsIn
    <2> DEFINE rest == CallsIn(calls, call) \ {e \in {top.ev} : top.call = call}
    <2>4. ASSUME NEW x \in CallsIn(less, call) PROVE x \in rest
        <3>1. PICK n \in (1 .. L) \ {L} : less[n].call = call /\ x = less[n].ev
            BY <2>2, <2>4
        <3>2. calls[n].call = call /\ x = calls[n].ev /\ x # top.ev
            BY <1>1, <1>2, <2>1, <3>1
        <3> QED
            BY <2>3, <3>1, <3>2
    <2>5. ASSUME NEW x \in rest PROVE x \in CallsIn(less, call)
        <3>1. PICK n \in 1 .. L : calls[n].call = call /\ x = calls[n].ev
            BY <2>3, <2>5
        <3>2. n # L
            BY <2>5, <3>1
        <3>3. less[n].call = call /\ x = less[n].ev
            BY <1>1, <1>2, <3>1, <3>2
        <3> QED
            BY <2>2, <3>1, <3>2, <3>3
    <2> QED
        BY <2>4, <2>5
<1> QED
    BY <1>1, <1>2, <1>3 DEF less, L


(* An event other than the one being served leaves the list. *)
LEMMA ConsistentWithout ==
    ASSUME NEW list, NEW calls, NEW now, NEW next, Consistent(list, calls, now, next),
           NEW n \in DOMAIN list,
           \A k \in DOMAIN calls : calls[k].call = "service" => calls[k].ev.id # list[n].id
    PROVE  LET rest == SubSeq(list, 1, n - 1) \o SubSeq(list, n + 1, Len(list))
           IN  /\ Consistent(rest, calls, now, next)
               /\ Len(rest) = Len(list) - 1
               /\ ListOf(rest) = ListOf(list) \ {list[n]}
               /\ list[n] \in ListOf(list)
               /\ list[n] # ServedIn(calls)
               /\ OvertakingIn(rest, calls) = OvertakingIn(list, calls) \ {list[n]}
<1> DEFINE rest == SubSeq(list, 1, n - 1) \o SubSeq(list, n + 1, Len(list))
           e == list[n]
<1>1. list \in Seq(Event) /\ calls \in Seq(Call) /\ Sorted(list) /\ DistinctIds(list)
    BY DEF Consistent
<1>2. /\ rest \in Seq(Event) /\ Len(rest) = Len(list) - 1
      /\ Sorted(rest) /\ DistinctIds(rest)
      /\ ListOf(rest) = ListOf(list) \ {e}
    BY <1>1, WithoutSorted
<1>3. e \in ListOf(list) /\ e # NoEvent
    BY <1>1, ListFacts DEF ListOf
<1> HIDE DEF rest, e
<1>4. ASSUME NEW k \in DOMAIN calls, calls[k].call = "service"
      PROVE  calls[k].ev \in ListOf(rest)
    <2>1. calls[k].ev \in ListOf(list) /\ calls[k].ev # e
        BY <1>4 DEF Consistent, e
    <2> QED
        BY <1>2, <2>1
<1>5. Consistent(rest, calls, now, next)
    BY <1>1, <1>2, <1>4 DEF Consistent
<1>6. e # ServedIn(calls) /\ OvertakingIn(rest, calls) = OvertakingIn(list, calls) \ {e}
    <2>1. CASE now # NoTime /\ calls # <<>>
        <3>1. /\ ServedIn(calls) = calls[1].ev /\ calls[1].ev \in ListOf(list)
              /\ OvertakingIn(list, calls) = {f \in ListOf(list) : Before(f, calls[1].ev)}
            BY <2>1, ServedFacts
        <3>2. OvertakingIn(rest, calls) = {f \in ListOf(rest) : Before(f, calls[1].ev)}
            BY <1>5, <2>1, ServedFacts
        <3>3. calls[1].ev # e
            <4>1. 1 \in DOMAIN calls /\ calls[1].call = "service"
                BY <1>1, <2>1 DEF Consistent
            <4> QED
                BY <4>1 DEF e
        <3> QED
            BY <1>2, <3>1, <3>2, <3>3
    <2>2. CASE ~(now # NoTime /\ calls # <<>>)
        <3>1. ServedIn(calls) = NoEvent /\ OvertakingIn(list, calls) = {}
            BY <2>2, ServedFacts
        <3>2. OvertakingIn(rest, calls) = {}
            BY <1>5, <2>2, ServedFacts
        <3> QED
            BY <1>3, <3>1, <3>2
    <2> QED
        BY <2>1, <2>2
<1> QED
    BY <1>2, <1>3, <1>5, <1>6 DEF rest, e

(* eventq_execute begins the callback of an event it has unlinked. *)
LEMMA ConsistentBegins ==
    ASSUME NEW list, NEW calls, NEW now, NEW next, Consistent(list, calls, now, next),
           NEW e \in Event, e.id < next, now = NoTime \/ calls # <<>>,
           \A f \in ListOf(list) : f.id # e.id,
           \A k \in DOMAIN calls : calls[k].ev.id # e.id
    PROVE  LET more == Append(calls, [call |-> "execute", ev |-> e])
           IN  /\ Consistent(list, more, now, next)
               /\ CallsIn(more, "execute") = CallsIn(calls, "execute") \cup {e}
               /\ e \notin CallsIn(calls, "execute")
               /\ ServedIn(more) = ServedIn(calls)
               /\ OvertakingIn(list, more) = OvertakingIn(list, calls)
<1> DEFINE c == [call |-> "execute", ev |-> e]
           more == Append(calls, c)
           L == Len(calls)
<1>1. calls \in Seq(Call) /\ c \in Call /\ c.call = "execute" /\ c.ev = e /\ L \in Nat
    BY DEF Consistent, Call
<1> HIDE DEF c
<1>2. /\ more \in Seq(Call) /\ more # <<>>
      /\ DOMAIN more = DOMAIN calls \cup {L + 1}
      /\ L + 1 \notin DOMAIN calls
      /\ more[L + 1] = c
      /\ \A n \in DOMAIN calls : more[n] = calls[n]
      /\ \A call : CallsIn(more, call)
                       = CallsIn(calls, call) \cup {x \in {c.ev} : c.call = call}
    BY <1>1, CallBegins
<1> HIDE DEF more
<1>3. CallsIn(more, "execute") = CallsIn(calls, "execute") \cup {e}
    BY <1>1, <1>2
<1>4. CallsIn(more, "service") = CallsIn(calls, "service")
    <2>1. {x \in {c.ev} : c.call = "service"} = {}
        BY <1>1
    <2>2. CallsIn(more, "service") = CallsIn(calls, "service") \cup {x \in {c.ev} : c.call = "service"}
        BY <1>2
    <2> QED
        BY <2>1, <2>2
<1>5. e \notin CallsIn(calls, "execute")
    BY DEF CallsIn
<1>6. ServedIn(more) = ServedIn(calls)
    BY <1>4 DEF ServedIn
<1>7. OvertakingIn(list, more) = OvertakingIn(list, calls)
    BY <1>6 DEF OvertakingIn
<1>8. ~(L + 1 = 1 /\ now # NoTime)
    BY <1>1
<1>9. ASSUME NEW n \in DOMAIN more
      PROVE  /\ more[n].ev.id < next
             /\ more[n].call = "service" <=> n = 1 /\ now # NoTime
             /\ more[n].call = "service" => more[n].ev \in ListOf(list)
             /\ more[n].call = "execute" => \A f \in ListOf(list) : f.id # more[n].ev.id
             /\ \A m \in DOMAIN more : more[m].ev.id = more[n].ev.id => m = n
    <2>1. CASE n = L + 1
        BY <1>1, <1>2, <1>8, <2>1
    <2>2. CASE n # L + 1
        BY <1>1, <1>2, <2>2 DEF Consistent
    <2> QED
        BY <2>1, <2>2
<1>10. Consistent(list, more, now, next)
    BY <1>2, <1>9 DEF Consistent
<1> QED
    BY <1>3, <1>5, <1>6, <1>7, <1>10 DEF more, c

(* Its callback ends. *)
LEMMA ConsistentEnds ==
    ASSUME NEW list, NEW calls, NEW now, NEW next, Consistent(list, calls, now, next),
           calls # <<>>, calls[Len(calls)].call = "execute"
    PROVE  LET less == SubSeq(calls, 1, Len(calls) - 1)
               e == calls[Len(calls)].ev
           IN  /\ Consistent(list, less, now, next)
               /\ e \in Event /\ e \in CallsIn(calls, "execute")
               /\ CallsIn(less, "execute") = CallsIn(calls, "execute") \ {e}
               /\ ServedIn(less) = ServedIn(calls)
               /\ OvertakingIn(list, less) = OvertakingIn(list, calls)
<1> DEFINE less == SubSeq(calls, 1, Len(calls) - 1)
           top == calls[Len(calls)]
<1>1. /\ calls \in Seq(Call)
      /\ \A n, m \in DOMAIN calls : calls[m].ev.id = calls[n].ev.id => m = n
    BY DEF Consistent
<1>2. /\ less \in Seq(Call) /\ top \in Call /\ Len(calls) \in DOMAIN calls
      /\ DOMAIN less = DOMAIN calls \ {Len(calls)}
      /\ \A n \in DOMAIN less : less[n] = calls[n]
      /\ \A call : CallsIn(less, call)
                       = CallsIn(calls, call) \ {x \in {top.ev} : top.call = call}
    BY <1>1, CallEnds
<1> HIDE DEF less
<1>3. CallsIn(less, "execute") = CallsIn(calls, "execute") \ {top.ev}
    BY <1>2
<1>4. CallsIn(less, "service") = CallsIn(calls, "service")
    BY <1>2
<1>5. ServedIn(less) = ServedIn(calls)
    BY <1>4 DEF ServedIn
<1>6. OvertakingIn(list, less) = OvertakingIn(list, calls)
    BY <1>5 DEF OvertakingIn
<1>7. Consistent(list, less, now, next)
    BY <1>2 DEF Consistent
<1>8. top.ev \in Event /\ top.ev \in CallsIn(calls, "execute")
    BY <1>2 DEF CallsIn, Call
<1> QED
    BY <1>3, <1>5, <1>6, <1>7, <1>8 DEF less

-----------------------------------------------------------------------------
(* The steps.                                                              *)

QueueInv ==
    /\ EqTypeOK
    /\ Consistent(eventq_pending, stack, serving, next_ID)
    /\ IsFiniteSet(CallsOf("execute"))

Balanced(lost) == allocated' - Held' = allocated - Held + lost

LEMMA QueueFacts ==
    ASSUME QueueInv
    PROVE  /\ eventq_pending \in Seq(Event) /\ Len(eventq_pending) \in Nat
           /\ Sorted(eventq_pending) /\ DistinctIds(eventq_pending)
           /\ stack \in Seq(Call)
           /\ eventq_free \in Nat /\ allocated \in Nat /\ next_ID \in 1 .. MaxId + 1
           /\ serving \in Times \cup {NoTime} /\ eventq_event_count \in Nat /\ word \in Int
           /\ Cardinality(CallsOf("execute")) \in Nat
BY FS_CardinalityType DEF QueueInv, EqTypeOK, Consistent, Call

LEMMA QueueInitially ==
    EqInit => QueueInv /\ Overtaking = {} /\ allocated - Held = 0 /\ Abstract!AInit
<1> SUFFICES ASSUME EqInit
             PROVE  QueueInv /\ Overtaking = {} /\ allocated - Held = 0 /\ Abstract!AInit
    OBVIOUS
<1>1. EqTypeOK
    BY EventQueueAssumption DEF EqInit, EqTypeOK
<1>2. Consistent(eventq_pending, stack, serving, next_ID)
    BY DEF EqInit, Consistent, Sorted, DistinctIds, ListOf
<1>3. CallsOf("execute") = {} /\ CallsOf("service") = {}
    BY DEF EqInit, CallsOf
<1>4. ServedEvent = NoEvent /\ Overtaking = {}
    BY <1>3 DEF ServedEvent, Overtaking
<1>5. ListOf(eventq_pending) = {}
    BY DEF EqInit, ListOf
<1>6. allocated - Held = 0
    BY <1>3, FS_EmptySet DEF EqInit, Held
<1> QED
    BY <1>1, <1>2, <1>3, <1>4, <1>5, <1>6, FS_EmptySet DEF QueueInv, Abstract!AInit, EqInit


LEMMA QueueStep ==
    ASSUME QueueInv, NEW when \in Times, NEW action \in Actions, Queue(when, action)
    PROVE  /\ QueueInv' /\ Balanced(0)
           /\ LaterOnly /\ Overtaking = {} => Overtaking' = {}
           /\ max_events = 0 => \E e \in Event : Abstract!AQueue(e)
<1> DEFINE e == [when |-> when, id |-> next_ID, action |-> action]
           list == eventq_pending
           list2 == Inserted(list, e)
<1>1. /\ list \in Seq(Event) /\ Len(list) \in Nat
      /\ Sorted(list) /\ DistinctIds(list)
      /\ eventq_free \in Nat /\ allocated \in Nat /\ next_ID \in 1 .. MaxId + 1
      /\ Cardinality(CallsOf("execute")) \in Nat
      /\ Consistent(list, stack, serving, next_ID)
    BY QueueFacts DEF QueueInv
<1>2. /\ next_ID <= MaxId /\ next_ID' = next_ID + 1 /\ list' = list2
      /\ serving' = serving /\ stack' = stack /\ word' = word
      /\ eventq_event_count' = eventq_event_count
    BY DEF Queue
<1>3. \/ eventq_free > 0 /\ eventq_free' = eventq_free - 1 /\ allocated' = allocated
      \/ allocated' = allocated + 1 /\ eventq_free' = eventq_free
    BY DEF Queue, TakesDescriptor
<1>4. next_ID \in 1 .. MaxId /\ next_ID \in Int /\ MaxId \in Nat
    BY <1>1, <1>2, EventQueueAssumption
<1>5. e \in Event /\ e.id = next_ID /\ e # NoEvent
    <2>1. e \in Event
        BY <1>4 DEF Event
    <2> QED
        BY <2>1, NoEventAssumption
<1> HIDE DEF e, list
<1>6. \A f \in ListOf(list) : f.id < next_ID
    BY <1>1 DEF Consistent
<1>7. /\ list2 \in Seq(Event) /\ Len(list2) = Len(list) + 1
      /\ Sorted(list2) /\ DistinctIds(list2)
      /\ ListOf(list2) = ListOf(list) \cup {e}
    <2>1. \A n \in DOMAIN list : list[n].id < e.id
        BY <1>5, <1>6 DEF ListOf
    <2> QED
        BY <1>1, <1>5, <2>1, InsertedFacts, InsertedSorted
<1> HIDE DEF list2
<1>8. /\ \A f \in ListOf(list2) : f.id < next_ID + 1
      /\ \A k \in DOMAIN stack : /\ stack[k].ev.id < next_ID /\ stack[k].ev.id < next_ID + 1
                                /\ stack[k].ev.id # e.id
    <2>1. \A f \in ListOf(list) : f.id < next_ID + 1
        BY <1>1, <1>4, <1>6, ListFacts
    <2>2. \A k \in DOMAIN stack : stack[k].ev.id \in Int /\ stack[k].ev.id < next_ID
        <3> TAKE k \in DOMAIN stack
        <3>1. stack \in Seq(Call)
            BY QueueFacts
        <3>2. stack[k] \in Call
            BY <3>1
        <3>3. stack[k].ev \in Event
            BY <3>2 DEF Call
        <3> QED
            BY <1>1, <3>3, EventFacts DEF Consistent
    <2>3. e.id < next_ID + 1
        BY <1>4, <1>5
    <2> QED
        BY <1>4, <1>5, <1>7, <2>1, <2>2, <2>3
<1>9. Consistent(list2, stack, serving, next_ID + 1)
    BY <1>1, <1>7, <1>8 DEF Consistent
<1>10. EqTypeOK'
    <2>1. eventq_free' \in Nat /\ allocated' \in Nat /\ next_ID' \in 1 .. MaxId + 1
        BY <1>1, <1>2, <1>3, <1>4
    <2>2. list' \in Seq(Event)
        BY <1>2, <1>7
    <2> QED
        BY <1>2, <2>1, <2>2 DEF QueueInv, EqTypeOK, list
<1>11. /\ CallsOf("execute")' = CallsOf("execute")
       /\ ServedEvent' = ServedEvent
    BY <1>2, Views
<1>12. QueueInv'
    BY <1>2, <1>9, <1>10, <1>11 DEF QueueInv, list
<1>13. Balanced(0)
    BY <1>1, <1>2, <1>3, <1>7, <1>11 DEF Balanced, Held, list
<1>14. /\ (ListOf(eventq_pending) \ {ServedEvent})'
             = (ListOf(eventq_pending) \ {ServedEvent}) \cup {e}
       /\ LaterOnly => Overtaking' = Overtaking
    <2>1. /\ ListOf(eventq_pending)' = ListOf(list2)
          /\ ListOf(eventq_pending) = ListOf(list)
        BY <1>2 DEF list, ListOf
    <2>2. CASE serving # NoTime /\ stack # <<>>
        <3>1. /\ ServedEvent = stack[1].ev /\ stack[1].ev \in ListOf(list)
              /\ stack[1].ev # NoEvent
              /\ Overtaking = {f \in ListOf(list) : Before(f, stack[1].ev)}
            BY <1>1, <2>2, ServedFacts, Views DEF list
        <3>2. Overtaking' = {f \in ListOf(list2) : Before(f, stack[1].ev)}
            BY <1>2, <1>9, <2>2, ServedFacts, Views DEF list
        <3>3. stack[1].ev # e
            BY <1>5, <1>6, <3>1, <1>4
        <3>4. LaterOnly => ~Before(e, stack[1].ev)
            <4>1. e.when \in Int
                BY <1>5, EventFacts
            <4>2. stack[1].ev.when \in Int
                BY <1>1, <3>1, ListFacts
            <4>3. LaterOnly => stack[1].ev.when < e.when
                <5>1. 1 \in ServiceCalls
                    BY <2>2, QueueFacts DEF QueueInv, Consistent, ServiceCalls
                <5> QED
                    BY <5>1 DEF Queue, Allowed, e
            <4> QED
                BY <4>1, <4>2, <4>3 DEF Before
        <3> QED
            BY <1>7, <1>11, <2>1, <3>1, <3>2, <3>3, <3>4
    <2>3. CASE ~(serving # NoTime /\ stack # <<>>)
        <3>1. ServedEvent = NoEvent /\ Overtaking = {} /\ Overtaking' = {}
            BY <1>1, <1>2, <1>9, <2>3, ServedFacts, Views DEF list
        <3> QED
            BY <1>5, <1>7, <1>11, <2>1, <3>1
    <2> QED
        BY <2>2, <2>3
<1>15. max_events = 0 => Abstract!AQueue(e)
    <2>1. (1 .. next_ID - 1)' = (1 .. next_ID - 1) \cup {e.id} /\ e.id \notin 1 .. next_ID - 1
        BY <1>2, <1>4, <1>5
    <2> QED
        BY <1>2, <1>11, <1>14, <2>1 DEF Abstract!AQueue
<1> QED
    BY <1>5, <1>12, <1>13, <1>14, <1>15

(* What eventq_remove and eventq_execute have in common. *)
LEMMA UnlinkFacts ==
    ASSUME QueueInv, NEW n \in DOMAIN eventq_pending, eventq_pending[n].id \notin Served
    PROVE  LET e == eventq_pending[n]
           IN  /\ Consistent(Unlinked(n), stack, serving, next_ID)
               /\ Len(Unlinked(n)) = Len(eventq_pending) - 1
               /\ ListOf(Unlinked(n)) = ListOf(eventq_pending) \ {e}
               /\ OvertakingIn(Unlinked(n), stack) = Overtaking \ {e}
               /\ e \in ListOf(eventq_pending) \ {ServedEvent} /\ e \in Event
               /\ \A f \in ListOf(Unlinked(n)) : f.id # e.id
               /\ \A k \in DOMAIN stack : stack[k].ev.id # e.id
<1> DEFINE e == eventq_pending[n]
<1>1. /\ Consistent(eventq_pending, stack, serving, next_ID)
      /\ eventq_pending \in Seq(Event) /\ stack \in Seq(Call)
      /\ Sorted(eventq_pending) /\ DistinctIds(eventq_pending)
    BY QueueFacts DEF QueueInv
<1>2. \A k \in DOMAIN stack : stack[k].call = "service" => stack[k].ev.id # e.id
    BY DEF Served, ServiceCalls
<1> HIDE DEF e
<1>3. /\ Consistent(Unlinked(n), stack, serving, next_ID)
      /\ Len(Unlinked(n)) = Len(eventq_pending) - 1
      /\ ListOf(Unlinked(n)) = ListOf(eventq_pending) \ {e}
      /\ e \in ListOf(eventq_pending)
      /\ e # ServedIn(stack)
      /\ OvertakingIn(Unlinked(n), stack) = OvertakingIn(eventq_pending, stack) \ {e}
    BY <1>1, <1>2, ConsistentWithout DEF Unlinked, e
<1>4. e \in Event
    BY <1>1, <1>3, ListFacts
<1>5. \A f \in ListOf(Unlinked(n)) : f.id # e.id
    BY <1>1, <1>3, ListFacts
<1>6. \A k \in DOMAIN stack : stack[k].ev.id # e.id
    <2> TAKE k \in DOMAIN stack
    <2>1. stack[k].call \in {"execute", "service"}
        <3>1. stack[k] \in Call
            BY <1>1
        <3> QED
            BY <3>1 DEF Call
    <2> QED
        BY <1>1, <1>2, <1>3, <2>1 DEF Consistent
<1> QED
    BY <1>3, <1>4, <1>5, <1>6, Views DEF e

LEMMA RemoveStep ==
    ASSUME QueueInv, NEW n \in DOMAIN eventq_pending, Remove(n)
    PROVE  /\ QueueInv' /\ Balanced(0) /\ (Overtaking = {} => Overtaking' = {})
           /\ \E e \in Event : Abstract!ARemove(e)
<1> DEFINE e == eventq_pending[n]
           list2 == Unlinked(n)
<1>1. /\ eventq_pending' = list2 /\ eventq_free' = eventq_free + 1
      /\ eventq_event_count' = eventq_event_count /\ allocated' = allocated
      /\ next_ID' = next_ID /\ serving' = serving /\ stack' = stack /\ word' = word
    BY DEF Remove
<1>2. /\ Consistent(list2, stack, serving, next_ID)
      /\ Len(list2) = Len(eventq_pending) - 1
      /\ ListOf(list2) = ListOf(eventq_pending) \ {e}
      /\ OvertakingIn(list2, stack) = Overtaking \ {e}
      /\ e \in ListOf(eventq_pending) \ {ServedEvent} /\ e \in Event
    BY UnlinkFacts DEF Remove
<1> HIDE DEF e, list2
<1>3. list2 \in Seq(Event)
    BY <1>2 DEF Consistent
<1>4. EqTypeOK'
    BY <1>1, <1>3, QueueFacts DEF QueueInv, EqTypeOK
<1>5. /\ CallsOf("execute")' = CallsOf("execute")
      /\ ServedEvent' = ServedEvent
      /\ Overtaking' = Overtaking \ {e}
    BY <1>1, <1>2, Views
<1>6. QueueInv'
    BY <1>1, <1>2, <1>4, <1>5 DEF QueueInv
<1>7. Balanced(0)
    BY <1>1, <1>2, <1>5, QueueFacts DEF Balanced, Held
<1>8. Overtaking = {} => Overtaking' = {}
    BY <1>5
<1>9. Abstract!ARemove(e)
    <2>1. ListOf(eventq_pending)' = ListOf(list2)
        BY <1>1 DEF ListOf
    <2>2. (ListOf(eventq_pending) \ {ServedEvent})'
              = (ListOf(eventq_pending) \ {ServedEvent}) \ {e}
        BY <1>2, <1>5, <2>1
    <2> QED
        BY <1>1, <1>2, <1>5, <2>2 DEF Abstract!ARemove, Abstract!Leaves
<1> QED
    BY <1>2, <1>6, <1>7, <1>8, <1>9

LEMMA ExecuteStep ==
    ASSUME QueueInv, NEW n \in DOMAIN eventq_pending, Execute(n)
    PROVE  /\ QueueInv' /\ Balanced(0) /\ (Overtaking = {} => Overtaking' = {})
           /\ \E e \in Event : Abstract!AExecute(e)
<1> DEFINE e == eventq_pending[n]
           list2 == Unlinked(n)
           c == [call |-> "execute", ev |-> e]
           exec == CallsOf("execute")
<1>1. /\ eventq_pending' = list2 /\ e.id \notin Served
      /\ eventq_event_count' = eventq_event_count /\ allocated' = allocated
      /\ next_ID' = next_ID /\ serving' = serving /\ Running
    BY DEF Execute
<1>2. /\ Consistent(list2, stack, serving, next_ID)
      /\ Len(list2) = Len(eventq_pending) - 1
      /\ ListOf(list2) = ListOf(eventq_pending) \ {e}
      /\ OvertakingIn(list2, stack) = Overtaking \ {e}
      /\ e \in ListOf(eventq_pending) \ {ServedEvent} /\ e \in Event
      /\ \A f \in ListOf(list2) : f.id # e.id
      /\ \A k \in DOMAIN stack : stack[k].ev.id # e.id
    BY <1>1, UnlinkFacts
<1>a. \/ /\ e.action.kind = "callback"
         /\ stack' = Append(stack, c)
         /\ eventq_free' = eventq_free /\ word' = word
      \/ /\ e.action.kind # "callback"
         /\ word' = Effect(e.action, word)
         /\ eventq_free' = eventq_free + 1 /\ stack' = stack
    BY DEF Execute
<1> HIDE DEF e, list2
<1>3. list2 \in Seq(Event)
    BY <1>2 DEF Consistent
<1>4. ListOf(eventq_pending)' = ListOf(list2)
    BY <1>1 DEF ListOf
<1>5. CASE e.action.kind = "callback"
    <2>1. stack' = Append(stack, c) /\ eventq_free' = eventq_free /\ word' = word
        BY <1>a, <1>5
    <2>2. e.id < next_ID
        BY <1>2 DEF QueueInv, Consistent
    <2>3. /\ Consistent(list2, Append(stack, c), serving, next_ID)
          /\ CallsIn(Append(stack, c), "execute") = CallsIn(stack, "execute") \cup {e}
          /\ e \notin CallsIn(stack, "execute")
          /\ ServedIn(Append(stack, c)) = ServedIn(stack)
          /\ OvertakingIn(list2, Append(stack, c)) = OvertakingIn(list2, stack)
        BY <1>1, <1>2, <2>2, ConsistentBegins DEF Running
    <2> HIDE DEF c
    <2>4. /\ exec' = exec \cup {e} /\ e \notin exec
          /\ ServedEvent' = ServedEvent
          /\ Overtaking' = Overtaking \ {e}
        BY <1>1, <1>2, <2>1, <2>3, Views
    <2>5. stack' \in Seq(Call)
        BY <2>1, <2>3 DEF Consistent
    <2>6. EqTypeOK'
        BY <1>1, <1>3, <2>1, <2>5, QueueFacts DEF QueueInv, EqTypeOK, Call
    <2>7. IsFiniteSet(exec) /\ Cardinality(exec) \in Nat
        BY QueueFacts DEF QueueInv
    <2> HIDE DEF exec
    <2>8. IsFiniteSet(exec \cup {e}) /\ Cardinality(exec \cup {e}) = Cardinality(exec) + 1
        BY <2>4, <2>7, FS_AddElement
    <2>9. QueueInv'
        BY <1>1, <2>1, <2>3, <2>4, <2>6, <2>8 DEF QueueInv, exec
    <2>10. Balanced(0)
        <3>1. Cardinality(exec') = Cardinality(exec) + 1
            BY <2>4, <2>8
        <3>2. /\ Held = Len(eventq_pending) + eventq_free + Cardinality(exec)
              /\ Held' = Len(eventq_pending)' + eventq_free' + Cardinality(exec')
            BY DEF Held, exec
        <3>3. Len(eventq_pending)' = Len(eventq_pending) - 1
            BY <1>1, <1>2
        <3>4. Len(eventq_pending) \in Int /\ eventq_free \in Int /\ allocated \in Int
            BY QueueFacts
        <3>5. eventq_free' = eventq_free /\ allocated' = allocated
            BY <1>1, <2>1
        <3>6. Held' = Held
            BY <2>7, <3>1, <3>2, <3>3, <3>4, <3>5
        <3>7. Held \in Int
            BY <2>7, <3>2, <3>4
        <3> QED
            BY <3>4, <3>5, <3>6, <3>7 DEF Balanced
    <2>11. Overtaking = {} => Overtaking' = {}
        BY <2>4
    <2>12. Abstract!AExecute(e)
        <3>1. (ListOf(eventq_pending) \ {ServedEvent})'
                  = (ListOf(eventq_pending) \ {ServedEvent}) \ {e}
            BY <1>2, <1>4, <2>4
        <3> QED
            BY <1>1, <1>2, <1>5, <2>1, <2>4, <3>1
               DEF Abstract!AExecute, Abstract!Leaves, exec
    <2> QED
        BY <1>2, <2>9, <2>10, <2>11, <2>12
<1>6. CASE e.action.kind # "callback"
    <2>1. stack' = stack /\ eventq_free' = eventq_free + 1 /\ word' = Effect(e.action, word)
        BY <1>a, <1>6
    <2>2. word' \in Int
        <3>1. e.action.arg \in Int
            BY <1>2, EventFacts, EventQueueAssumption
        <3> QED
            BY <2>1, <3>1, QueueFacts DEF Effect
    <2>3. EqTypeOK'
        BY <1>1, <1>3, <2>1, <2>2, QueueFacts DEF QueueInv, EqTypeOK
    <2>4. /\ exec' = exec /\ ServedEvent' = ServedEvent
          /\ Overtaking' = Overtaking \ {e}
        BY <1>1, <1>2, <2>1, Views
    <2>5. QueueInv'
        BY <1>1, <1>2, <2>1, <2>3, <2>4 DEF QueueInv
    <2>6. Balanced(0)
        BY <1>1, <1>2, <2>1, <2>4, QueueFacts DEF Balanced, Held
    <2>7. Overtaking = {} => Overtaking' = {}
        BY <2>4
    <2>8. Abstract!AExecute(e)
        <3>1. (ListOf(eventq_pending) \ {ServedEvent})'
                  = (ListOf(eventq_pending) \ {ServedEvent}) \ {e}
            BY <1>2, <1>4, <2>4
        <3> QED
            BY <1>1, <1>2, <1>6, <2>1, <2>4, <3>1
               DEF Abstract!AExecute, Abstract!Leaves
    <2> QED
        BY <1>2, <2>5, <2>6, <2>7, <2>8
<1> QED
    BY <1>5, <1>6


LEMMA ServiceEventsStep ==
    ASSUME QueueInv, NEW now \in Times, ServiceEvents(now)
    PROVE  /\ QueueInv' /\ Balanced(0) /\ (Overtaking = {} => Overtaking' = {})
           /\ Abstract!AServiceEvents(now)
<1>1. /\ serving = NoTime /\ stack = <<>> /\ serving' = now /\ stack' = stack
      /\ eventq_pending' = eventq_pending /\ eventq_free' = eventq_free
      /\ eventq_event_count' = eventq_event_count /\ allocated' = allocated
      /\ next_ID' = next_ID /\ word' = word
    BY DEF ServiceEvents
<1>2. EqTypeOK'
    BY <1>1 DEF QueueInv, EqTypeOK
<1>3. Consistent(eventq_pending, stack, now, next_ID)
    BY <1>1 DEF QueueInv, Consistent
<1>4. /\ CallsOf("execute")' = CallsOf("execute")
      /\ ServedEvent' = ServedEvent /\ Overtaking' = Overtaking
    BY <1>1, Views
<1>5. QueueInv'
    BY <1>1, <1>2, <1>3, <1>4 DEF QueueInv
<1>6. Balanced(0)
    BY <1>1, <1>4, QueueFacts DEF Balanced, Held
<1>7. Overtaking = {} => Overtaking' = {}
    BY <1>4
<1>8. Abstract!AServiceEvents(now)
    BY <1>1, <1>4 DEF Abstract!AServiceEvents, ListOf
<1> QED
    BY <1>5, <1>6, <1>7, <1>8

LEMMA ServiceReturnsStep ==
    ASSUME QueueInv, ServiceReturns
    PROVE  /\ QueueInv' /\ Balanced(0) /\ (Overtaking = {} => Overtaking' = {})
           /\ Abstract!AServiceReturns
<1>1. /\ serving # NoTime /\ stack = <<>> /\ ~Due /\ serving' = NoTime /\ stack' = stack
      /\ eventq_pending' = eventq_pending /\ eventq_free' = eventq_free
      /\ eventq_event_count' = eventq_event_count /\ allocated' = allocated
      /\ next_ID' = next_ID /\ word' = word
    BY DEF ServiceReturns, Running
<1>2. EqTypeOK'
    BY <1>1 DEF QueueInv, EqTypeOK
<1>3. Consistent(eventq_pending, stack, NoTime, next_ID)
    BY <1>1 DEF QueueInv, Consistent
<1>4. /\ CallsOf("execute")' = CallsOf("execute")
      /\ ServedEvent' = ServedEvent /\ Overtaking' = Overtaking
    BY <1>1, Views
<1>5. QueueInv'
    BY <1>1, <1>2, <1>3, <1>4 DEF QueueInv
<1>6. Balanced(0)
    BY <1>1, <1>4, QueueFacts DEF Balanced, Held
<1>7. Overtaking = {} => Overtaking' = {}
    BY <1>4
<1>8. ServedEvent = NoEvent
    BY <1>1, ServedFacts, Views DEF QueueInv
<1>9. \A e \in ListOf(eventq_pending) \ {ServedEvent} : e.when > serving
    <2> SUFFICES ASSUME NEW e \in ListOf(eventq_pending) PROVE e.when > serving
        OBVIOUS
    <2>1. eventq_pending # <<>>
        BY QueueFacts DEF ListOf
    <2>2. /\ Head(eventq_pending) = eventq_pending[1] /\ eventq_pending[1] \in ListOf(eventq_pending)
          /\ e = eventq_pending[1] \/ Before(eventq_pending[1], e)
        BY <2>1, QueueFacts, TailSorted DEF ListOf
    <2>3. /\ e.when \in Int /\ e.id \in Int
          /\ eventq_pending[1].when \in Int /\ eventq_pending[1].id \in Int
        BY <2>2, QueueFacts, ListFacts
    <2>4. serving \in Int
        <3>1. serving \in Times /\ Times \subseteq Nat
            BY <1>1, QueueFacts, EventQueueAssumption
        <3> QED
            BY <3>1
    <2>5. ~(eventq_pending[1].when <= serving)
        BY <1>1, <2>1, <2>2 DEF Due
    <2> QED
        BY <2>2, <2>3, <2>4, <2>5 DEF Before
<1>10. Abstract!AServiceReturns
    <2>1. (ListOf(eventq_pending) \ {ServedEvent})' = ListOf(eventq_pending) \ {ServedEvent}
        BY <1>1, <1>4 DEF ListOf
    <2> QED
        BY <1>1, <1>4, <1>8, <1>9, <2>1 DEF Abstract!AServiceReturns
<1> QED
    BY <1>5, <1>6, <1>7, <1>10

LEMMA ServeStep ==
    ASSUME QueueInv, Serve
    PROVE  /\ QueueInv' /\ Balanced(0) /\ (Overtaking = {} => Overtaking' = {})
           /\ \E e \in Event : Abstract!AServe(e)
<1> DEFINE list == eventq_pending
           e == list[1]
           c == [call |-> "service", ev |-> e]
<1>1. /\ serving # NoTime /\ stack = <<>> /\ list # <<>> /\ Head(list).when <= serving
      /\ eventq_event_count' = eventq_event_count /\ allocated' = allocated
      /\ next_ID' = next_ID /\ serving' = serving
    BY DEF Serve, Running, Due
<1>2. /\ 1 \in DOMAIN list /\ Head(list) = e
      /\ \A f \in ListOf(list) : f = e \/ Before(e, f)
      /\ Tail(list) \in Seq(Event)
      /\ Len(Tail(list)) = Len(list) - 1
      /\ Sorted(Tail(list))
      /\ DistinctIds(Tail(list))
      /\ ListOf(Tail(list)) = ListOf(list) \ {e}
    BY <1>1, QueueFacts, TailSorted
<1>a. \/ /\ e.action.kind = "callback"
         /\ stack' = <<c>>
         /\ list' = list /\ eventq_free' = eventq_free /\ word' = word
      \/ /\ e.action.kind # "callback"
         /\ word' = Effect(e.action, word)
         /\ list' = Tail(list)
         /\ eventq_free' = eventq_free + 1 /\ stack' = stack
    BY <1>2 DEF Serve
<1> HIDE DEF e
<1>3. e \in ListOf(list) /\ e \in Event /\ e # NoEvent
    BY <1>2, QueueFacts, ListFacts DEF ListOf, e
<1>4. ServedEvent = NoEvent /\ Overtaking = {} /\ CallsOf("execute") = {}
    <2>1. CallsIn(stack, "execute") = {}
        BY <1>1 DEF CallsIn
    <2> QED
        BY <1>1, <2>1, ServedFacts, Views DEF QueueInv
<1>5. \A f \in ListOf(list) : e.when < f.when \/ (e.when = f.when /\ f.id <= e.id)
    <2>1. \A f \in ListOf(list) : f.id \in Int
        BY QueueFacts, ListFacts
    <2> QED
        BY <1>2, <1>3, <2>1 DEF Before
<1>6. CASE e.action.kind = "callback"
    <2>1. /\ stack' = <<c>> /\ list' = list /\ eventq_free' = eventq_free /\ word' = word
        BY <1>a, <1>6
    <2>2. /\ <<c>> \in Seq(Call) /\ DOMAIN <<c>> = {1} /\ <<c>>[1] = c /\ <<c>> # <<>>
          /\ c.call = "service" /\ c.ev = e
        BY <1>3 DEF Call
    <2> DEFINE calls == <<c>>
    <2> HIDE DEF calls, c
    <2>3. Consistent(list, calls, serving, next_ID)
        <3>1. e.id < next_ID
            BY <1>3 DEF QueueInv, Consistent
        <3> QED
            BY <1>1, <1>3, <2>2, <3>1 DEF QueueInv, Consistent, calls
    <2>4. /\ ServedIn(calls) = e
          /\ OvertakingIn(list, calls) = {f \in ListOf(list) : Before(f, e)}
        BY <1>1, <2>2, <2>3, ServedFacts DEF calls
    <2>5. CallsIn(calls, "execute") = {}
        BY <2>2 DEF CallsIn, calls
    <2>6. \A f \in ListOf(list) : ~Before(f, e)
        BY <1>2, <1>3, QueueFacts, ListFacts
    <2>7. ServedEvent' = e /\ Overtaking' = {} /\ CallsOf("execute")' = {}
        BY <2>1, <2>4, <2>5, <2>6, Views DEF calls
    <2>8. EqTypeOK'
        BY <1>1, <2>1, <2>2, QueueFacts DEF QueueInv, EqTypeOK, Call
    <2>9. QueueInv'
        BY <1>1, <1>4, <2>1, <2>3, <2>7, <2>8 DEF QueueInv, calls
    <2>10. Balanced(0)
        <3>1. Cardinality(CallsOf("execute"))' = Cardinality(CallsOf("execute"))
            BY <1>4, <2>7
        <3>2. Len(eventq_pending)' = Len(eventq_pending)
            BY <2>1
        <3> QED
            BY <1>1, <2>1, <3>1, <3>2, QueueFacts DEF Balanced, Held
    <2>11. Overtaking = {} => Overtaking' = {}
        BY <2>7
    <2>12. Abstract!AServe(e)
        <3>1. (ListOf(eventq_pending) \ {ServedEvent})'
                  = (ListOf(eventq_pending) \ {ServedEvent}) \ {e}
            <4>1. ListOf(eventq_pending)' = ListOf(eventq_pending)
                BY <2>1 DEF ListOf
            <4>2. NoEvent \notin ListOf(eventq_pending)
                BY QueueFacts, ListFacts
            <4> QED
                BY <1>4, <2>7, <4>1, <4>2
        <3> QED
            BY <1>1, <1>2, <1>3, <1>4, <1>5, <1>6, <2>1, <2>7, <3>1
               DEF Abstract!AServe, Abstract!Leaves
    <2> QED
        BY <1>3, <2>9, <2>10, <2>11, <2>12
<1>7. CASE e.action.kind # "callback"
    <2>1. /\ stack' = stack /\ list' = Tail(list) /\ eventq_free' = eventq_free + 1
          /\ word' = Effect(e.action, word)
        BY <1>a, <1>7
    <2>2. Consistent(Tail(list), stack, serving, next_ID)
        BY <1>1, <1>2 DEF QueueInv, Consistent
    <2>3. word' \in Int
        <3>1. e.action.arg \in Int
            BY <1>3, EventFacts, EventQueueAssumption
        <3> QED
            BY <2>1, <3>1, QueueFacts DEF Effect
    <2>4. EqTypeOK'
        BY <1>1, <1>2, <2>1, <2>3, QueueFacts DEF QueueInv, EqTypeOK
    <2>5. /\ ServedEvent' = NoEvent /\ Overtaking' = {}
          /\ CallsOf("execute")' = CallsOf("execute")
        <3>1. ServedIn(stack) = NoEvent /\ OvertakingIn(Tail(list), stack) = {}
            BY <1>1, <2>2, ServedFacts
        <3> QED
            BY <2>1, <3>1, Views
    <2>6. QueueInv'
        BY <1>1, <2>1, <2>2, <2>4, <2>5 DEF QueueInv
    <2>7. Balanced(0)
        BY <1>1, <1>2, <2>1, <2>5, QueueFacts DEF Balanced, Held
    <2>8. Overtaking = {} => Overtaking' = {}
        BY <2>5
    <2>9. Abstract!AServe(e)
        <3>1. (ListOf(eventq_pending) \ {ServedEvent})'
                  = (ListOf(eventq_pending) \ {ServedEvent}) \ {e}
            <4>1. ListOf(eventq_pending)' = ListOf(Tail(list))
                BY <2>1 DEF ListOf
            <4> QED
                BY <1>2, <1>4, <2>5, <4>1
        <3> QED
            BY <1>1, <1>2, <1>3, <1>4, <1>5, <1>7, <2>1, <2>5, <3>1
               DEF Abstract!AServe, Abstract!Leaves
    <2> QED
        BY <1>3, <2>6, <2>7, <2>8, <2>9
<1> QED
    BY <1>6, <1>7

LEMMA ExecuteReturnsStep ==
    ASSUME QueueInv, CallbackReturns, Top.call = "execute"
    PROVE  /\ QueueInv' /\ Balanced(0) /\ (Overtaking = {} => Overtaking' = {})
           /\ \E e \in Event : Abstract!AExecuted(e)
<1> DEFINE less == SubSeq(stack, 1, Len(stack) - 1)
           e == stack[Len(stack)].ev
           exec == CallsOf("execute")
<1>1. /\ stack # <<>> /\ stack' = less /\ eventq_free' = eventq_free + 1
      /\ eventq_pending' = eventq_pending
      /\ eventq_event_count' = eventq_event_count /\ allocated' = allocated
      /\ next_ID' = next_ID /\ serving' = serving /\ word' = word
      /\ stack[Len(stack)].call = "execute"
    BY DEF CallbackReturns, Top
<1>2. /\ Consistent(eventq_pending, less, serving, next_ID)
      /\ e \in Event /\ e \in CallsIn(stack, "execute")
      /\ CallsIn(less, "execute") = CallsIn(stack, "execute") \ {e}
      /\ ServedIn(less) = ServedIn(stack)
      /\ OvertakingIn(eventq_pending, less) = OvertakingIn(eventq_pending, stack)
    BY <1>1, ConsistentEnds DEF QueueInv
<1> HIDE DEF less, e
<1>3. /\ exec' = exec \ {e} /\ e \in exec
      /\ ServedEvent' = ServedEvent /\ Overtaking' = Overtaking
    BY <1>1, <1>2, Views
<1>4. less \in Seq(Call)
    BY <1>2 DEF Consistent
<1>5. EqTypeOK'
    BY <1>1, <1>4, QueueFacts DEF QueueInv, EqTypeOK, Call
<1>6. IsFiniteSet(exec) /\ Cardinality(exec) \in Nat
    BY QueueFacts DEF QueueInv
<1> HIDE DEF exec
<1>7. IsFiniteSet(exec \ {e}) /\ Cardinality(exec \ {e}) = Cardinality(exec) - 1
    BY <1>3, <1>6, FS_RemoveElement
<1>8. QueueInv'
    BY <1>1, <1>2, <1>3, <1>5, <1>7 DEF QueueInv, exec
<1>9. Balanced(0)
    <2>1. Cardinality(exec') = Cardinality(exec) - 1
        BY <1>3, <1>7
    <2>2. /\ Held = Len(eventq_pending) + eventq_free + Cardinality(exec)
          /\ Held' = Len(eventq_pending)' + eventq_free' + Cardinality(exec')
        BY DEF Held, exec
    <2>3. Len(eventq_pending)' = Len(eventq_pending)
        BY <1>1
    <2>4. Len(eventq_pending) \in Int /\ eventq_free \in Int /\ allocated \in Int
        BY QueueFacts
    <2>5. Held' = Held
        BY <1>1, <1>6, <2>1, <2>2, <2>3, <2>4
    <2>6. Held \in Int
        BY <1>6, <2>2, <2>4
    <2> QED
        BY <1>1, <2>4, <2>5, <2>6 DEF Balanced
<1>10. Overtaking = {} => Overtaking' = {}
    BY <1>3
<1>11. Abstract!AExecuted(e)
    <2>1. (ListOf(eventq_pending) \ {ServedEvent})' = ListOf(eventq_pending) \ {ServedEvent}
        BY <1>1, <1>3 DEF ListOf
    <2> QED
        BY <1>1, <1>2, <1>3, <2>1 DEF Abstract!AExecuted, exec
<1> QED
    BY <1>2, <1>8, <1>9, <1>10, <1>11

(* The event served is unlinked together with whatever stands before it.   *)
LEMMA ServiceCallReturnsStep ==
    ASSUME QueueInv, CallbackReturns, Top.call = "service"
    PROVE  /\ QueueInv' /\ Balanced(Cardinality(Overtaking))
           /\ Overtaking = {} => Overtaking' = {} /\ Abstract!AServed
<1> DEFINE list == eventq_pending
           less == SubSeq(stack, 1, Len(stack) - 1)
           e == stack[1].ev
           p == Place(e.id)
           list2 == SubSeq(list, p + 1, Len(list))
<1>1. /\ stack # <<>> /\ stack' = less /\ eventq_free' = eventq_free + 1
      /\ list' = ServedUnlinked(Top.ev.id)
      /\ eventq_event_count' = eventq_event_count /\ allocated' = allocated
      /\ next_ID' = next_ID /\ serving' = serving /\ word' = word
      /\ stack[Len(stack)].call = "service"
    BY DEF CallbackReturns, Top
<1>2. Len(stack) = 1 /\ serving # NoTime /\ stack \in Seq(Call)
    <2>1. stack \in Seq(Call) /\ Len(stack) \in DOMAIN stack
        BY <1>1, QueueFacts
    <2> QED
        BY <1>1, <2>1 DEF QueueInv, Consistent
<1>3. list' = list2
    BY <1>1, <1>2 DEF ServedUnlinked, Top
<1>4. stack' = <<>>
    BY <1>1, <1>2
<1> HIDE DEF less
<1>5. /\ ServedEvent = e /\ e \in ListOf(list) /\ e # NoEvent
      /\ Overtaking = {f \in ListOf(list) : Before(f, e)}
      /\ p \in DOMAIN list /\ list[p] = e
      /\ Cardinality(Overtaking) = p - 1
      /\ CallsOf("service") = {e}
    BY <1>1, <1>2, ServedFacts, Views DEF QueueInv
<1> HIDE DEF e, p
<1>6. /\ list2 \in Seq(Event) /\ Len(list2) = Len(list) - p
      /\ Sorted(list2) /\ DistinctIds(list2)
      /\ ListOf(list2) = {f \in ListOf(list) : Before(e, f)}
    BY <1>5, QueueFacts, SuffixSorted
<1> HIDE DEF list2
<1>7. CallsOf("execute") = {}
    <2>1. stack[1].call = "service" /\ DOMAIN stack = {1}
        BY <1>1, <1>2
    <2> QED
        BY <2>1 DEF CallsOf
<1>8. Consistent(list2, <<>>, serving, next_ID)
    BY <1>6 DEF QueueInv, Consistent
<1>9. /\ CallsOf("execute")' = {}
      /\ ServedEvent' = NoEvent /\ Overtaking' = {}
    <2>1. CallsIn(<<>>, "execute") = {}
        BY DEF CallsIn
    <2>2. ServedIn(<<>>) = NoEvent /\ OvertakingIn(list2, <<>>) = {}
        BY <1>8, ServedFacts
    <2> QED
        BY <1>3, <1>4, <2>1, <2>2, Views
<1>10. EqTypeOK'
    BY <1>1, <1>3, <1>4, <1>6, QueueFacts DEF QueueInv, EqTypeOK
<1>11. QueueInv'
    BY <1>1, <1>3, <1>4, <1>7, <1>8, <1>9, <1>10 DEF QueueInv
<1>12. Balanced(Cardinality(Overtaking))
    <2>1. p \in Int
        BY <1>5, QueueFacts
    <2>2. Cardinality(CallsOf("execute"))' = Cardinality(CallsOf("execute"))
        BY <1>7, <1>9
    <2>3. Len(eventq_pending)' = Len(eventq_pending) - p
        BY <1>3, <1>6
    <2>4. /\ Len(eventq_pending) \in Int /\ eventq_free \in Int /\ allocated \in Int
          /\ Cardinality(CallsOf("execute")) \in Int
        BY QueueFacts
    <2>5. Held \in Int /\ Held' = Held - p + 1
        BY <1>1, <2>1, <2>2, <2>3, <2>4 DEF Held
    <2> QED
        BY <1>1, <1>5, <2>1, <2>4, <2>5 DEF Balanced
<1>13. Overtaking = {} => Abstract!AServed
    <2>1. ListOf(eventq_pending)' = ListOf(list2)
        BY <1>3 DEF ListOf
    <2>2. Overtaking = {} => (ListOf(eventq_pending) \ {ServedEvent})'
                                = ListOf(eventq_pending) \ {ServedEvent}
        <3>1. /\ NoEvent \notin ListOf(list) /\ ~Before(e, e)
              /\ \A f \in ListOf(list) : f # e => (Before(e, f) <=> ~Before(f, e))
            BY <1>5, QueueFacts, ListFacts
        <3> QED
            BY <1>5, <1>6, <1>9, <2>1, <3>1
    <2> QED
        BY <1>1, <1>5, <1>7, <1>9, <2>2 DEF Abstract!AServed
<1> QED
    BY <1>9, <1>11, <1>12, <1>13

LEMMA EventQueueStep ==
    ASSUME QueueInv, [EqNext]_eqvars
    PROVE  /\ QueueInv'
           /\ LaterOnly /\ Overtaking = {} =>
                 /\ Overtaking' = {} /\ Balanced(0)
                 /\ max_events = 0 => [Abstract!ANext]_Abstract!avars
<1> DEFINE Good == /\ QueueInv'
                   /\ LaterOnly /\ Overtaking = {} =>
                         /\ Overtaking' = {} /\ Balanced(0)
                         /\ max_events = 0 => [Abstract!ANext]_Abstract!avars
<1>1. ASSUME NEW when \in Times, NEW action \in Actions, Queue(when, action)
      PROVE  Good
    BY <1>1, QueueStep DEF Abstract!ANext
<1>2. ASSUME NEW n \in DOMAIN eventq_pending, Remove(n)
      PROVE  Good
    BY <1>2, RemoveStep DEF Abstract!ANext
<1>3. ASSUME NEW n \in DOMAIN eventq_pending, Execute(n)
      PROVE  Good
    BY <1>3, ExecuteStep DEF Abstract!ANext
<1>4. ASSUME NEW now \in Times, ServiceEvents(now)
      PROVE  Good
    BY <1>4, ServiceEventsStep DEF Abstract!ANext
<1>5. ASSUME Serve
      PROVE  Good
    BY <1>5, ServeStep DEF Abstract!ANext
<1>6. ASSUME CallbackReturns, Top.call = "execute"
      PROVE  Good
    BY <1>6, ExecuteReturnsStep DEF Abstract!ANext
<1>7. ASSUME CallbackReturns, Top.call = "service"
      PROVE  Good
    <2>1. Overtaking = {} => Cardinality(Overtaking) = 0
        BY FS_EmptySet
    <2>2. /\ QueueInv' /\ Balanced(Cardinality(Overtaking))
          /\ Overtaking = {} => Overtaking' = {} /\ Abstract!AServed
        BY <1>7, ServiceCallReturnsStep
    <2>3. Overtaking = {} => Balanced(0)
        BY <2>1, <2>2 DEF Balanced
    <2> QED
        BY <2>2, <2>3 DEF Abstract!ANext
<1>8. ASSUME ServiceReturns
      PROVE  Good
    BY <1>8, ServiceReturnsStep DEF Abstract!ANext
<1>9. CallbackReturns => Top.call \in {"execute", "service"}
    <2>1. stack # <<>> => stack[Len(stack)] \in Call
        BY QueueFacts
    <2> QED
        BY <2>1 DEF CallbackReturns, Top, Call
<1>10. ASSUME UNCHANGED eqvars
       PROVE  Good
    <2>1. /\ eventq_pending' = eventq_pending /\ eventq_free' = eventq_free
          /\ eventq_event_count' = eventq_event_count /\ allocated' = allocated
          /\ next_ID' = next_ID /\ serving' = serving /\ stack' = stack /\ word' = word
        BY <1>10 DEF eqvars
    <2>2. /\ \A call : CallsOf(call)' = CallsOf(call)
          /\ ServedEvent' = ServedEvent /\ Overtaking' = Overtaking
        BY <2>1, Views
    <2>3. ListOf(eventq_pending)' = ListOf(eventq_pending)
        BY <2>1 DEF ListOf
    <2>4. QueueInv'
        BY <2>1, <2>2 DEF QueueInv, EqTypeOK
    <2>5. UNCHANGED Abstract!avars
        BY <2>1, <2>2, <2>3 DEF Abstract!avars
    <2>6. Balanced(0)
        BY <2>1, <2>2, QueueFacts DEF Balanced, Held
    <2> QED
        BY <2>2, <2>4, <2>5, <2>6
<1> HIDE DEF Good
<1> QED
    <2>1. Good
        BY <1>1, <1>2, <1>3, <1>4, <1>5, <1>6, <1>7, <1>8, <1>9, <1>10 DEF EqNext
    <2> QED
        BY <2>1 DEF Good

LEMMA EventQueueInvariant == EqSpec => []QueueInv
<1>1. QueueInv /\ [EqNext]_eqvars => QueueInv'
    BY EventQueueStep
<1> QED
    BY <1>1, QueueInitially, PTL DEF EqSpec

(* If the program queues only for later times than that of the event being *)
(* served, that event stays the first of the list.                         *)
LaterInv == QueueInv /\ Overtaking = {} /\ allocated - Held = 0

LEMMA LaterInvariant == ASSUME LaterOnly PROVE EqSpec => []LaterInv
<1>1. EqInit => LaterInv
    BY QueueInitially DEF LaterInv
<1>2. LaterInv /\ [EqNext]_eqvars => LaterInv'
    BY EventQueueStep DEF LaterInv, Balanced
<1> QED
    BY <1>1, <1>2, PTL DEF EqSpec

(* For any times, actions and bounds the list holds events, the stack      *)
(* calls, and no counter leaves its range.  It takes that the event        *)
(* eventq_service_events has served is still in the list to be unlinked,   *)
(* whatever its callback did to it.                                        *)
THEOREM EqTypeCorrect == EqSpec => []EqTypeOK
BY EventQueueInvariant, PTL DEF QueueInv

(* The sorted list implements the abstract queue: every event is executed, *)
(* served in order or removed, once, none is lost, and                     *)
(* eventq_service_events leaves nothing behind that was due.  This is so   *)
(* of a program that sets no limit to eventq_init and queues, while an     *)
(* event is served, only for later times.                                  *)
THEOREM QueueRefinement ==
    ASSUME LaterOnly, max_events = 0
    PROVE  EqSpec => QueueImplemented
<1>1. EqInit => Abstract!AInit
    BY QueueInitially
<1>2. LaterInv /\ [EqNext]_eqvars => [Abstract!ANext]_Abstract!avars
    BY EventQueueStep DEF LaterInv
<1> QED
    BY <1>1, <1>2, LaterInvariant, PTL DEF EqSpec, QueueImplemented, Abstract!ASpec

(* Every descriptor ever allocated is in the list, free, or in the hands   *)
(* of eventq_execute, if the program queues, while an event is served,     *)
(* only for later times.                                                   *)
THEOREM DescriptorsCorrect ==
    ASSUME LaterOnly
    PROVE  EqSpec => []DescriptorsAccounted
<1>1. LaterInv => DescriptorsAccounted
    <2> SUFFICES ASSUME LaterInv PROVE DescriptorsAccounted
        OBVIOUS
    <2>1. allocated - Held = 0 /\ QueueInv
        BY DEF LaterInv
    <2>2. allocated \in Int /\ Held \in Int
        BY <2>1, QueueFacts DEF Held
    <2> QED
        BY <2>1, <2>2 DEF DescriptorsAccounted
<1> QED
    BY <1>1, LaterInvariant, PTL

===============================================================================
