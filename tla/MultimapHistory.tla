---------------------------- MODULE MultimapHistory ----------------------------
(***************************************************************************)
(* FixedMultimap with history variables, for what the comments on its      *)
(* operations guarantee of elements that are in the map all along.         *)
(***************************************************************************)
EXTENDS FixedMultimap

VARIABLES
    kept,     \* the matching elements in the map since each call began
    visited   \* and those of them its loop has seen

mhvars == <<mvars, kept, visited>>

(* Add has come past the loop that raises the high water mark. *)
InMap(s) ==
    /\ map[s] \in Keys
    /\ ~\E t \in Threads : pc[t] \in {"a_load", "a_raise"} /\ index[t] = s

StillThere(t) == {s \in kept[t] : map'[s] = map[s]}

MHInit ==
    /\ MapInit
    /\ kept = [t \in Threads |-> {}]
    /\ visited = [t \in Threads |-> {}]

MHBegin(t, c) ==
    /\ Begin(t, c)
    /\ kept' = [kept EXCEPT ![t] = {s \in Slots : InMap(s) /\ map[s] \in c.keys}]
    /\ visited' = [visited EXCEPT ![t] = {}]

MHStep(t) ==
    /\ Step(t)
    /\ kept' = [u \in Threads |-> StillThere(u)]
    /\ visited' = [visited EXCEPT ![t] = IF Match(t) THEN @ \cup {i[t]} ELSE @]

(* ForEach has no predicate. *)
Unfiltered(c) == c.op = "ForEach" => c.keys = Keys

(* The calls a program may make. *)
LegalCalls ==
    {c \in Calls : /\ c.op \in {"Add", "Remove"} => \E k \in Keys : c.keys = {k}
                   /\ Unfiltered(c)}

MHNext == \E t \in Threads : MHStep(t) \/ \E c \in LegalCalls : MHBegin(t, c)

MHSpec == MHInit /\ [][MHNext]_mhvars

-----------------------------------------------------------------------------
(* "All entries at this location and above are invalid" (line 412), with   *)
(* marks raised and lowered by several threads at once: whatever Add has   *)
(* put into the map stays below the high water mark.                       *)
BelowHighWater == \A s \in Slots : InMap(s) => s < highWaterMark

(* The entry a thread has reserved. *)
Reserves(t, s) ==
    /\ index[t] = s
    /\ pc[t] \in {"a_object", "a_key", "r_hint", "r_load", "r_lower", "r_last", "r_free"}

(* A reserved entry is reserved by one thread, and an entry with a key has *)
(* the object that was added with that key.                                *)
EntriesIntact ==
    /\ \A s \in Slots : map[s] = KeyReserved <=> \E t \in Threads : Reserves(t, s)
    /\ \A s \in Slots : \A t, u \in Threads : Reserves(t, s) /\ Reserves(u, s) => t = u
    /\ \A s \in Slots : map[s] \in Keys => objects[s] = map[s]

(* Lines 161-163, 194-196 and 253-256: when the loop of Find, FindIf or    *)
(* RemoveIf runs to its end no matching element is left of those that were *)
(* in the map when the call began; nor is there when that of Remove does,  *)
(* but Remove may return before (line 365).  ForEach has by then called    *)
(* its function for all of them that are left.                             *)
ScansComplete ==
    \A t \in Threads :
        pc[t] = "scan" /\ i[t] >= highWater[t] =>
            /\ kept[t] \subseteq visited[t]
            /\ call[t].op # "ForEach" => kept[t] = {}

=============================================================================
