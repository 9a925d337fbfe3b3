----------------------------- MODULE FixedMultimap -----------------------------
(***************************************************************************)
(* ATOMIC::FIXED_MULTIMAP (atomic/fixed-multimap.hpp of the Pin kit): a    *)
(* lock-free map in an array of fixed capacity.  One action per atomic     *)
(* operation on the shared words.  Find is FindIf for one key; the load    *)
(* before the compare-and-swap in AddAt is left out, since an entry that   *)
(* is not available at either is passed over.                              *)
(***************************************************************************)
EXTENDS Integers

CONSTANTS Threads, Keys, Capacity, KeyAvailable, KeyReserved

ASSUME MultimapAssumption ==
    /\ Capacity \in Nat
    /\ KeyAvailable \notin Keys
    /\ KeyReserved \notin Keys \cup {KeyAvailable}

VARIABLES
    map,                \* _map
    objects,            \* _objects: the key each one belongs to
    highWaterMark,
    freeLocationHint,
    pc, call,           \* where each thread is, and in which call
    i, highWater, key,  \* local variables of the loops
    index               \* the entry AddAt and RemoveAt work at

shared == <<map, objects, highWaterMark, freeLocationHint>>
locals == <<call, i, highWater, key, index>>
mvars == <<shared, pc, locals>>

Slots == 0 .. Capacity - 1

Ops == {"Add", "FindIf", "Remove", "RemoveIf", "ForEach"}

(* Add and Remove have one key, the others those their predicate accepts. *)
Calls == [op : Ops, keys : SUBSET Keys]

AddPcs == {"a_high", "a_hint", "a_near", "a_all", "a_object", "a_key", "a_load",
           "a_raise", "a_bump"}
RemovePcs == {"r_cas", "r_hint", "r_load", "r_lower", "r_last", "r_free", "r_next"}
Pcs == {"idle", "high", "scan"} \cup AddPcs \cup RemovePcs

MapTypeOK ==
    /\ map \in [Slots -> Keys \cup {KeyAvailable, KeyReserved}]
    /\ objects \in [Slots -> Keys \cup {KeyAvailable}]
    /\ highWaterMark \in 0 .. Capacity
    /\ freeLocationHint \in 0 .. Capacity
    /\ pc \in [Threads -> Pcs]
    /\ call \in [Threads -> Calls]
    /\ i \in [Threads -> 0 .. Capacity]
    /\ highWater \in [Threads -> 0 .. Capacity]
    /\ key \in [Threads -> Keys \cup {KeyAvailable}]
    /\ index \in [Threads -> 0 .. Capacity]
    /\ \A t \in Threads :
          pc[t] \in RemovePcs \cup {"a_object", "a_key", "a_load", "a_raise", "a_bump"} =>
              index[t] < Capacity

MapInit ==
    /\ map = [s \in Slots |-> KeyAvailable]
    /\ objects = [s \in Slots |-> KeyAvailable]
    /\ highWaterMark = 0
    /\ freeLocationHint = 0
    /\ pc = [t \in Threads |-> "idle"]
    /\ call = [t \in Threads |-> [op |-> "FindIf", keys |-> {}]]
    /\ i = [t \in Threads |-> 0]
    /\ highWater = [t \in Threads |-> 0]
    /\ key = [t \in Threads |-> KeyAvailable]
    /\ index = [t \in Threads |-> 0]

Goto(t, l) == pc' = [pc EXCEPT ![t] = l]

Begin(t, c) ==
    /\ pc[t] = "idle"
    /\ call' = [call EXCEPT ![t] = c]
    /\ Goto(t, IF c.op = "Add" THEN "a_high" ELSE "high")
    /\ UNCHANGED <<shared, i, highWater, key, index>>

-----------------------------------------------------------------------------
(* Add *)

AddHigh(t) ==
    /\ pc[t] = "a_high"
    /\ highWater' = [highWater EXCEPT ![t] = highWaterMark]
    /\ Goto(t, "a_hint")
    /\ UNCHANGED <<shared, call, i, key, index>>

AddHint(t) ==
    /\ pc[t] = "a_hint"
    /\ i' = [i EXCEPT ![t] = freeLocationHint]
    /\ Goto(t, "a_near")
    /\ UNCHANGED <<shared, call, highWater, key, index>>

(* The first loop looks up to the high water mark, the second everywhere. *)
Limit(t) == IF pc[t] = "a_near" THEN highWater[t] ELSE Capacity

Reserve(t) ==
    /\ pc[t] \in {"a_near", "a_all"}
    /\ i[t] < Limit(t)
    /\ \/ /\ map[i[t]] = KeyAvailable
          /\ map' = [map EXCEPT ![i[t]] = KeyReserved]
          /\ index' = [index EXCEPT ![t] = i[t]]
          /\ Goto(t, "a_object")
          /\ UNCHANGED i
       \/ /\ map[i[t]] # KeyAvailable
          /\ i' = [i EXCEPT ![t] = @ + 1]
          /\ UNCHANGED <<map, index, pc>>
    /\ UNCHANGED <<objects, highWaterMark, freeLocationHint, call, highWater, key>>

(* On to the second loop, or back without a place. *)
AddLoopEnds(t) ==
    /\ pc[t] \in {"a_near", "a_all"}
    /\ i[t] >= Limit(t)
    /\ i' = [i EXCEPT ![t] = 0]
    /\ Goto(t, IF pc[t] = "a_near" THEN "a_all" ELSE "idle")
    /\ UNCHANGED <<shared, call, highWater, key, index>>

StoreObject(t) ==
    /\ pc[t] = "a_object"
    /\ \E k \in call[t].keys : objects' = [objects EXCEPT ![index[t]] = k]
    /\ Goto(t, "a_key")
    /\ UNCHANGED <<map, highWaterMark, freeLocationHint, locals>>

StoreKey(t) ==
    /\ pc[t] = "a_key"
    /\ \E k \in call[t].keys : map' = [map EXCEPT ![index[t]] = k]
    /\ Goto(t, "a_load")
    /\ UNCHANGED <<objects, highWaterMark, freeLocationHint, locals>>

(* The mark taken to be that of the last entry. *)
AddLoadAtMark(t) ==
    /\ pc[t] = "a_load"
    /\ highWater' = [highWater EXCEPT ![t] = highWaterMark]
    /\ Goto(t, IF index[t] <= highWaterMark THEN "a_bump" ELSE "a_raise")
    /\ UNCHANGED <<shared, call, i, key, index>>

AddLoad(t) ==
    /\ pc[t] = "a_load"
    /\ highWater' = [highWater EXCEPT ![t] = highWaterMark]
    /\ Goto(t, IF index[t] < highWaterMark THEN "a_bump" ELSE "a_raise")
    /\ UNCHANGED <<shared, call, i, key, index>>

(* A failed swap tried again with the value loaded before. *)
RaiseStale(t) ==
    /\ pc[t] = "a_raise"
    /\ highWaterMark' = IF highWaterMark = highWater[t] THEN index[t] + 1 ELSE highWaterMark
    /\ Goto(t, IF highWaterMark = highWater[t] THEN "a_bump" ELSE "a_raise")
    /\ UNCHANGED <<map, objects, freeLocationHint, locals>>

Raise(t) ==
    /\ pc[t] = "a_raise"
    /\ highWaterMark' = IF highWaterMark = highWater[t] THEN index[t] + 1 ELSE highWaterMark
    /\ Goto(t, IF highWaterMark = highWater[t] THEN "a_bump" ELSE "a_load")
    /\ UNCHANGED <<map, objects, freeLocationHint, locals>>

Bump(t) ==
    /\ pc[t] = "a_bump"
    /\ freeLocationHint' = IF freeLocationHint = index[t] THEN index[t] + 1
                           ELSE freeLocationHint
    /\ Goto(t, "idle")
    /\ UNCHANGED <<map, objects, highWaterMark, locals>>

-----------------------------------------------------------------------------
(* The loops of FindIf, Remove, RemoveIf and ForEach. *)

LoadHigh(t) ==
    /\ pc[t] = "high"
    /\ highWater' = [highWater EXCEPT ![t] = highWaterMark]
    /\ i' = [i EXCEPT ![t] = 0]
    /\ Goto(t, "scan")
    /\ UNCHANGED <<shared, call, key, index>>

Passes(t) == pc[t] = "scan" /\ i[t] < highWater[t]

PassesOver(t) ==
    /\ Passes(t)
    /\ map[i[t]] \notin call[t].keys
    /\ i' = [i EXCEPT ![t] = @ + 1]
    /\ UNCHANGED <<shared, pc, call, highWater, key, index>>

Match(t) == Passes(t) /\ map[i[t]] \in call[t].keys

Finds(t) ==
    /\ Match(t) /\ call[t].op = "FindIf"
    /\ Goto(t, "idle")
    /\ UNCHANGED <<shared, locals>>

Visits(t) ==
    /\ Match(t) /\ call[t].op = "ForEach"
    /\ i' = [i EXCEPT ![t] = @ + 1]
    /\ UNCHANGED <<shared, pc, call, highWater, key, index>>

FindsToRemove(t) ==
    /\ Match(t) /\ call[t].op \in {"Remove", "RemoveIf"}
    /\ key' = [key EXCEPT ![t] = map[i[t]]]
    /\ index' = [index EXCEPT ![t] = i[t]]
    /\ Goto(t, "r_cas")
    /\ UNCHANGED <<shared, call, i, highWater>>

ScanEnds(t) ==
    /\ pc[t] = "scan" /\ i[t] >= highWater[t]
    /\ Goto(t, "idle")
    /\ UNCHANGED <<shared, locals>>

-----------------------------------------------------------------------------
(* RemoveAt *)

(* Remove returns with it, RemoveIf looks on. *)
RemoveAtReturns(t) ==
    IF call[t].op = "RemoveIf"
    THEN Goto(t, "scan") /\ i' = [i EXCEPT ![t] = @ + 1]
    ELSE Goto(t, "idle") /\ UNCHANGED i

(* The entry taken whatever it holds by now. *)
TakeBlindly(t) ==
    /\ pc[t] = "r_cas"
    /\ map' = [map EXCEPT ![index[t]] = KeyReserved]
    /\ Goto(t, "r_hint")
    /\ UNCHANGED <<objects, highWaterMark, freeLocationHint, locals>>

Take(t) ==
    /\ pc[t] = "r_cas"
    /\ \/ /\ map[index[t]] = key[t]
          /\ map' = [map EXCEPT ![index[t]] = KeyReserved]
          /\ Goto(t, "r_hint")
          /\ UNCHANGED i
       \/ /\ map[index[t]] # key[t]
          /\ RemoveAtReturns(t)
          /\ UNCHANGED map
    /\ UNCHANGED <<objects, highWaterMark, freeLocationHint, call, highWater, key, index>>

SetHint(t) ==
    /\ pc[t] = "r_hint"
    /\ freeLocationHint' = index[t]
    /\ Goto(t, "r_load")
    /\ UNCHANGED <<map, objects, highWaterMark, locals>>

RemoveLoad(t) ==
    /\ pc[t] = "r_load"
    /\ Goto(t, IF index[t] = highWaterMark - 1 THEN "r_lower" ELSE "r_last")
    /\ UNCHANGED <<shared, locals>>

(* A store in place of the compare-and-swap. *)
LowerBlindly(t) ==
    /\ pc[t] = "r_lower"
    /\ highWaterMark' = index[t]
    /\ Goto(t, "r_free")
    /\ UNCHANGED <<map, objects, freeLocationHint, locals>>

Lower(t) ==
    /\ pc[t] = "r_lower"
    /\ highWaterMark' = IF highWaterMark = index[t] + 1 THEN index[t] ELSE highWaterMark
    /\ Goto(t, IF highWaterMark = index[t] + 1 THEN "r_free" ELSE "r_last")
    /\ UNCHANGED <<map, objects, freeLocationHint, locals>>

FreeLast(t) ==
    /\ pc[t] = "r_last"
    /\ map' = [map EXCEPT ![index[t]] = KeyAvailable]
    /\ RemoveAtReturns(t)
    /\ UNCHANGED <<objects, highWaterMark, freeLocationHint, call, highWater, key, index>>

(* On below the first entry. *)
FreeWraps(t) ==
    /\ pc[t] = "r_free"
    /\ map' = [map EXCEPT ![index[t]] = KeyAvailable]
    /\ index' = [index EXCEPT ![t] = @ - 1]
    /\ Goto(t, "r_next")
    /\ UNCHANGED <<objects, highWaterMark, freeLocationHint, call, i, highWater, key>>

Free(t) ==
    /\ pc[t] = "r_free"
    /\ map' = [map EXCEPT ![index[t]] = KeyAvailable]
    /\ \/ /\ index[t] = 0
          /\ RemoveAtReturns(t)
          /\ UNCHANGED index
       \/ /\ index[t] > 0
          /\ index' = [index EXCEPT ![t] = @ - 1]
          /\ Goto(t, "r_next")
          /\ UNCHANGED i
    /\ UNCHANGED <<objects, highWaterMark, freeLocationHint, call, highWater, key>>

TakeNext(t) ==
    /\ pc[t] = "r_next"
    /\ \/ /\ map[index[t]] = KeyAvailable
          /\ map' = [map EXCEPT ![index[t]] = KeyReserved]
          /\ Goto(t, "r_hint")
          /\ UNCHANGED i
       \/ /\ map[index[t]] # KeyAvailable
          /\ RemoveAtReturns(t)
          /\ UNCHANGED map
    /\ UNCHANGED <<objects, highWaterMark, freeLocationHint, call, highWater, key, index>>

-----------------------------------------------------------------------------
AddStep(t) ==
    \/ AddHigh(t) \/ AddHint(t) \/ Reserve(t) \/ AddLoopEnds(t) \/ StoreObject(t)
    \/ StoreKey(t) \/ AddLoad(t) \/ Raise(t) \/ Bump(t)

ScanStep(t) ==
    \/ LoadHigh(t) \/ PassesOver(t) \/ Finds(t) \/ Visits(t) \/ FindsToRemove(t)
    \/ ScanEnds(t)

RemoveStep(t) ==
    \/ Take(t) \/ SetHint(t) \/ RemoveLoad(t) \/ Lower(t) \/ FreeLast(t)
    \/ Free(t) \/ TakeNext(t)

Step(t) == AddStep(t) \/ ScanStep(t) \/ RemoveStep(t)

=============================================================================
