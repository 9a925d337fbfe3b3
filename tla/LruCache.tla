------------------------------- MODULE LruCache -------------------------------
(***************************************************************************)
(* What a set-associative LRU cache promises, with no sets, entries or     *)
(* replacement: it holds, of every set, the last `ways' blocks the program *)
(* used, and it misses exactly the others.                                 *)
(***************************************************************************)
EXTENDS Integers, FiniteSets

CONSTANTS Caches, Blocks, SetOf(_, _), Requests

VARIABLES
    ways,      \* how many blocks of a set there is room for
    since,     \* for each cache and block used through it, those used since
    resident,  \* the blocks it holds
    misses,
    evictions

avars == <<ways, since, resident, misses, evictions>>

AInit ==
    /\ ways \in Nat \ {0}
    /\ since = [c \in Caches |-> [x \in {} |-> {}]]
    /\ resident = [c \in Caches |-> {}]
    /\ misses = [c \in Caches |-> 0]
    /\ evictions = [c \in Caches |-> 0]

Used(past, b) ==
    [x \in DOMAIN past \cup {b} |-> IF x = b THEN {} ELSE past[x] \cup {b}]

(* The blocks of x's set that were used after x. *)
LaterRivals(c, past, x) == {y \in past[x] : SetOf(c, y) = SetOf(c, x)}

MostRecent(c, past) ==
    {x \in DOMAIN past : Cardinality(LaterRivals(c, past, x)) < ways}

AAccess(c, b) ==
    LET past == Used(since[c], b)
        missed == b \notin resident[c]
    IN  /\ ways' = ways
        /\ since' = [since EXCEPT ![c] = past]
        /\ resident' = [resident EXCEPT ![c] = MostRecent(c, past)]
        /\ misses' = [misses EXCEPT ![c] = @ + (IF missed THEN 1 ELSE 0)]
        /\ evictions' = [evictions EXCEPT ![c] =
               @ + Cardinality(resident[c] \ MostRecent(c, past))]

ANext == \E r \in Requests : AAccess(r.cache, r.blk)

ASpec == AInit /\ [][ANext]_avars

=============================================================================
