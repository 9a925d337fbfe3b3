---------------------------- MODULE MultimapProofs ----------------------------
(***************************************************************************)
(* The lock-free map for any threads, keys and capacity: its entries stay  *)
(* intact and below the high water mark, and its loops miss no element     *)
(* that is there all along.                                                *)
(***************************************************************************)
EXTENDS MultimapHistory, TLAPS

Loops == {"high", "scan"} \cup RemovePcs

HistoryTypeOK ==
    /\ kept \in [Threads -> SUBSET Slots]
    /\ visited \in [Threads -> SUBSET Slots]

(* Where a thread is fits the call it is in. *)
CallsFit ==
    \A t \in Threads :
        /\ call[t] \in LegalCalls
        /\ pc[t] \in AddPcs => call[t].op = "Add"
        /\ pc[t] \in Loops => call[t].op # "Add"
        /\ pc[t] \in RemovePcs => call[t].op \in {"Remove", "RemoveIf"}

(* What the local variables say of the shared ones. *)
LocalsFit ==
    \A t \in Threads :
        /\ pc[t] = "a_key" => objects[index[t]] \in call[t].keys
        /\ pc[t] = "a_raise" => highWater[t] <= index[t]
        /\ pc[t] \in RemovePcs => i[t] < highWater[t]
        /\ pc[t] = "r_cas" => key[t] \in Keys /\ index[t] = i[t]

(* The elements a loop has yet to see, those it has seen, and the one it   *)
(* is about to remove.                                                     *)
KeptFit ==
    \A t \in Threads : \A s \in kept[t] :
        /\ pc[t] \in Loops => InMap(s) /\ map[s] \in call[t].keys
        /\ pc[t] \in Loops \ {"high"} => s < highWater[t]
        /\ pc[t] \in Loops \ {"high"} /\ s < i[t] =>
              s \in visited[t] /\ call[t].op = "ForEach"
        /\ pc[t] \in RemovePcs /\ s = i[t] => pc[t] = "r_cas" /\ map[s] = key[t]

MapInv ==
    /\ MapTypeOK
    /\ HistoryTypeOK
    /\ CallsFit
    /\ LocalsFit
    /\ EntriesIntact
    /\ BelowHighWater
    /\ KeptFit


-----------------------------------------------------------------------------
(* Types, and what each call does. *)

LEMMA TypeKept ==
    ASSUME MapTypeOK, LocalsFit, CallsFit, NEW t \in Threads, Step(t)
    PROVE  MapTypeOK'
<1> USE MultimapAssumption
       DEF MapTypeOK, Slots, LocalsFit, CallsFit, LegalCalls, Calls, Ops, Goto, shared, locals,
           Pcs, AddPcs, RemovePcs
<1>1. CASE AddHigh(t)
    BY <1>1 DEF AddHigh
<1>2. CASE AddHint(t)
    BY <1>2 DEF AddHint
<1>3. CASE Reserve(t)
    <2>1. index[t] \in Nat /\ i[t] \in Nat /\ i[t] < Capacity
        BY <1>3 DEF Reserve, Limit
    <2>2. index[t] \in 0 .. Capacity /\ i[t] + 1 \in 0 .. Capacity
        BY <2>1
    <2>3. map' = map \/ \E v \in {KeyAvailable, KeyReserved} : map' = [map EXCEPT ![i[t]] = v]
        BY <1>3 DEF Reserve, Limit
    <2>4. map' \in [Slots -> Keys \cup {KeyAvailable, KeyReserved}]
        BY <2>3
    <2>5. i' = i \/ i' = [i EXCEPT ![t] = @ + 1]
        BY <1>3 DEF Reserve, Limit
    <2>6. i' \in [Threads -> 0 .. Capacity]
        BY <2>2, <2>5
    <2>7. \/ pc' = pc
          \/ pc' = [pc EXCEPT ![t] = "idle"]
          \/ pc' = [pc EXCEPT ![t] = "scan"]
          \/ pc' = [pc EXCEPT ![t] = "a_object"]
        BY <1>3 DEF Reserve, Limit
    <2>8. pc' \in [Threads -> Pcs]
        BY <2>7
    <2>9. index' = index \/ index' = [index EXCEPT ![t] = i[t]]
        BY <1>3 DEF Reserve, Limit
    <2>10. (i[t] \in 0 .. Capacity /\ i[t] < Capacity) \/ index' = index
        BY <1>3, <2>1 DEF Reserve, Limit
    <2>11. index' \in [Threads -> 0 .. Capacity]
        BY <2>9, <2>10
    <2>12. ASSUME NEW u \in Threads,
                  pc'[u] \in RemovePcs \cup
                             {"a_object", "a_key", "a_load", "a_raise", "a_bump"}
           PROVE  index'[u] < Capacity
        <3>1. CASE u = t
            BY <1>3, <2>1, <2>9, <2>10, <2>12, <3>1 DEF Reserve, Limit
        <3>2. CASE u # t
            BY <2>7, <2>9, <2>12, <3>2
        <3> QED
            BY <3>1, <3>2
    <2> QED
        BY <1>3, <2>4, <2>6, <2>8, <2>11, <2>12 DEF Reserve, Limit
<1>4. CASE AddLoopEnds(t)
    BY <1>4 DEF AddLoopEnds, Limit
<1>5. CASE StoreObject(t)
    BY <1>5 DEF StoreObject
<1>6. CASE StoreKey(t)
    BY <1>6 DEF StoreKey
<1>7. CASE AddLoad(t)
    BY <1>7 DEF AddLoad
<1>8. CASE Raise(t)
    BY <1>8 DEF Raise
<1>9. CASE Bump(t)
    BY <1>9 DEF Bump
<1>10. CASE LoadHigh(t)
    BY <1>10 DEF LoadHigh
<1>11. CASE PassesOver(t)
    BY <1>11 DEF PassesOver, Passes
<1>12. CASE Finds(t)
    BY <1>12 DEF Finds, Match, Passes
<1>13. CASE Visits(t)
    BY <1>13 DEF Visits, Match, Passes
<1>14. CASE FindsToRemove(t)
    BY <1>14 DEF FindsToRemove, Match, Passes
<1>15. CASE ScanEnds(t)
    BY <1>15 DEF ScanEnds
<1>16. CASE Take(t)
    <2>1. index[t] \in Nat /\ i[t] \in Nat /\ i[t] < Capacity
        BY <1>16 DEF Take, RemoveAtReturns
    <2>2. index[t] \in 0 .. Capacity /\ i[t] + 1 \in 0 .. Capacity
        BY <2>1
    <2>3. map' = map \/ \E v \in {KeyAvailable, KeyReserved} : map' = [map EXCEPT ![index[t]] = v]
        BY <1>16 DEF Take, RemoveAtReturns
    <2>4. map' \in [Slots -> Keys \cup {KeyAvailable, KeyReserved}]
        BY <2>3
    <2>5. i' = i \/ i' = [i EXCEPT ![t] = @ + 1]
        BY <1>16 DEF Take, RemoveAtReturns
    <2>6. i' \in [Threads -> 0 .. Capacity]
        BY <2>2, <2>5
    <2>7. \/ pc' = pc
          \/ pc' = [pc EXCEPT ![t] = "idle"]
          \/ pc' = [pc EXCEPT ![t] = "scan"]
          \/ pc' = [pc EXCEPT ![t] = "r_hint"]
        BY <1>16 DEF Take, RemoveAtReturns
    <2>8. pc' \in [Threads -> Pcs]
        BY <2>7
    <2>9. index' = index \/ index' = [index EXCEPT ![t] = index[t]]
        BY <1>16 DEF Take, RemoveAtReturns
    <2>10. (index[t] \in 0 .. Capacity /\ index[t] < Capacity) \/ index' = index
        BY <1>16, <2>1 DEF Take, RemoveAtReturns
    <2>11. index' \in [Threads -> 0 .. Capacity]
        BY <2>9, <2>10
    <2>12. ASSUME NEW u \in Threads,
                  pc'[u] \in RemovePcs \cup
                             {"a_object", "a_key", "a_load", "a_raise", "a_bump"}
           PROVE  index'[u] < Capacity
        <3>1. CASE u = t
            BY <1>16, <2>1, <2>9, <2>10, <2>12, <3>1 DEF Take, RemoveAtReturns
        <3>2. CASE u # t
            BY <2>7, <2>9, <2>12, <3>2
        <3> QED
            BY <3>1, <3>2
    <2> QED
        BY <1>16, <2>4, <2>6, <2>8, <2>11, <2>12 DEF Take, RemoveAtReturns
<1>17. CASE SetHint(t)
    BY <1>17 DEF SetHint
<1>18. CASE RemoveLoad(t)
    BY <1>18 DEF RemoveLoad
<1>19. CASE Lower(t)
    BY <1>19 DEF Lower
<1>20. CASE FreeLast(t)
    <2>1. index[t] \in Nat /\ i[t] \in Nat /\ i[t] < Capacity
        BY <1>20 DEF FreeLast, RemoveAtReturns
    <2>2. index[t] \in 0 .. Capacity /\ i[t] + 1 \in 0 .. Capacity
        BY <2>1
    <2>3. map' = map \/ \E v \in {KeyAvailable, KeyReserved} : map' = [map EXCEPT ![index[t]] = v]
        BY <1>20 DEF FreeLast, RemoveAtReturns
    <2>4. map' \in [Slots -> Keys \cup {KeyAvailable, KeyReserved}]
        BY <2>3
    <2>5. i' = i \/ i' = [i EXCEPT ![t] = @ + 1]
        BY <1>20 DEF FreeLast, RemoveAtReturns
    <2>6. i' \in [Threads -> 0 .. Capacity]
        BY <2>2, <2>5
    <2>7. \/ pc' = pc
          \/ pc' = [pc EXCEPT ![t] = "idle"]
          \/ pc' = [pc EXCEPT ![t] = "scan"]
          \/ pc' = [pc EXCEPT ![t] = "idle"]
        BY <1>20 DEF FreeLast, RemoveAtReturns
    <2>8. pc' \in [Threads -> Pcs]
        BY <2>7
    <2>9. index' = index \/ index' = [index EXCEPT ![t] = index[t]]
        BY <1>20 DEF FreeLast, RemoveAtReturns
    <2>10. (index[t] \in 0 .. Capacity /\ index[t] < Capacity) \/ index' = index
        BY <1>20, <2>1 DEF FreeLast, RemoveAtReturns
    <2>11. index' \in [Threads -> 0 .. Capacity]
        BY <2>9, <2>10
    <2>12. ASSUME NEW u \in Threads,
                  pc'[u] \in RemovePcs \cup
                             {"a_object", "a_key", "a_load", "a_raise", "a_bump"}
           PROVE  index'[u] < Capacity
        <3>1. CASE u = t
            BY <1>20, <2>1, <2>9, <2>10, <2>12, <3>1 DEF FreeLast, RemoveAtReturns
        <3>2. CASE u # t
            BY <2>7, <2>9, <2>12, <3>2
        <3> QED
            BY <3>1, <3>2
    <2> QED
        BY <1>20, <2>4, <2>6, <2>8, <2>11, <2>12 DEF FreeLast, RemoveAtReturns
<1>21. CASE Free(t)
    <2>1. index[t] \in Nat /\ i[t] \in Nat /\ i[t] < Capacity
        BY <1>21 DEF Free, RemoveAtReturns
    <2>2. index[t] \in 0 .. Capacity /\ i[t] + 1 \in 0 .. Capacity
        BY <2>1
    <2>3. map' = map \/ \E v \in {KeyAvailable, KeyReserved} : map' = [map EXCEPT ![index[t]] = v]
        BY <1>21 DEF Free, RemoveAtReturns
    <2>4. map' \in [Slots -> Keys \cup {KeyAvailable, KeyReserved}]
        BY <2>3
    <2>5. i' = i \/ i' = [i EXCEPT ![t] = @ + 1]
        BY <1>21 DEF Free, RemoveAtReturns
    <2>6. i' \in [Threads -> 0 .. Capacity]
        BY <2>2, <2>5
    <2>7. \/ pc' = pc
          \/ pc' = [pc EXCEPT ![t] = "idle"]
          \/ pc' = [pc EXCEPT ![t] = "scan"]
          \/ pc' = [pc EXCEPT ![t] = "r_next"]
        BY <1>21 DEF Free, RemoveAtReturns
    <2>8. pc' \in [Threads -> Pcs]
        BY <2>7
    <2>9. index' = index \/ index' = [index EXCEPT ![t] = index[t] - 1]
        BY <1>21 DEF Free, RemoveAtReturns
    <2>10. (index[t] - 1 \in 0 .. Capacity /\ index[t] - 1 < Capacity) \/ index' = index
        BY <1>21, <2>1 DEF Free, RemoveAtReturns
    <2>11. index' \in [Threads -> 0 .. Capacity]
        BY <2>9, <2>10
    <2>12. ASSUME NEW u \in Threads,
                  pc'[u] \in RemovePcs \cup
                             {"a_object", "a_key", "a_load", "a_raise", "a_bump"}
           PROVE  index'[u] < Capacity
        <3>1. CASE u = t
            BY <1>21, <2>1, <2>9, <2>10, <2>12, <3>1 DEF Free, RemoveAtReturns
        <3>2. CASE u # t
            BY <2>7, <2>9, <2>12, <3>2
        <3> QED
            BY <3>1, <3>2
    <2> QED
        BY <1>21, <2>4, <2>6, <2>8, <2>11, <2>12 DEF Free, RemoveAtReturns
<1>22. CASE TakeNext(t)
    <2>1. index[t] \in Nat /\ i[t] \in Nat /\ i[t] < Capacity
        BY <1>22 DEF TakeNext, RemoveAtReturns
    <2>2. index[t] \in 0 .. Capacity /\ i[t] + 1 \in 0 .. Capacity
        BY <2>1
    <2>3. map' = map \/ \E v \in {KeyAvailable, KeyReserved} : map' = [map EXCEPT ![index[t]] = v]
        BY <1>22 DEF TakeNext, RemoveAtReturns
    <2>4. map' \in [Slots -> Keys \cup {KeyAvailable, KeyReserved}]
        BY <2>3
    <2>5. i' = i \/ i' = [i EXCEPT ![t] = @ + 1]
        BY <1>22 DEF TakeNext, RemoveAtReturns
    <2>6. i' \in [Threads -> 0 .. Capacity]
        BY <2>2, <2>5
    <2>7. \/ pc' = pc
          \/ pc' = [pc EXCEPT ![t] = "idle"]
          \/ pc' = [pc EXCEPT ![t] = "scan"]
          \/ pc' = [pc EXCEPT ![t] = "r_hint"]
        BY <1>22 DEF TakeNext, RemoveAtReturns
    <2>8. pc' \in [Threads -> Pcs]
        BY <2>7
    <2>9. index' = index \/ index' = [index EXCEPT ![t] = index[t]]
        BY <1>22 DEF TakeNext, RemoveAtReturns
    <2>10. (index[t] \in 0 .. Capacity /\ index[t] < Capacity) \/ index' = index
        BY <1>22, <2>1 DEF TakeNext, RemoveAtReturns
    <2>11. index' \in [Threads -> 0 .. Capacity]
        BY <2>9, <2>10
    <2>12. ASSUME NEW u \in Threads,
                  pc'[u] \in RemovePcs \cup
                             {"a_object", "a_key", "a_load", "a_raise", "a_bump"}
           PROVE  index'[u] < Capacity
        <3>1. CASE u = t
            BY <1>22, <2>1, <2>9, <2>10, <2>12, <3>1 DEF TakeNext, RemoveAtReturns
        <3>2. CASE u # t
            BY <2>7, <2>9, <2>12, <3>2
        <3> QED
            BY <3>1, <3>2
    <2> QED
        BY <1>22, <2>4, <2>6, <2>8, <2>11, <2>12 DEF TakeNext, RemoveAtReturns
<1> QED
    BY <1>1, <1>2, <1>3, <1>4, <1>5, <1>6, <1>7, <1>8, <1>9, <1>10, <1>11,
       <1>12, <1>13, <1>14, <1>15, <1>16, <1>17, <1>18, <1>19, <1>20, <1>21, <1>22
    DEF Step, AddStep, ScanStep, RemoveStep

LEMMA CallsFitKept ==
    ASSUME MapTypeOK, CallsFit, NEW t \in Threads, Step(t)
    PROVE  CallsFit'
<1> USE DEF MapTypeOK, CallsFit, LegalCalls, Calls, Ops, Goto, shared, locals, Loops, Pcs,
           AddPcs, RemovePcs
<1>1. CASE AddHigh(t)
    BY <1>1 DEF AddHigh
<1>2. CASE AddHint(t)
    BY <1>2 DEF AddHint
<1>3. CASE Reserve(t)
    BY <1>3 DEF Reserve, Limit
<1>4. CASE AddLoopEnds(t)
    BY <1>4 DEF AddLoopEnds, Limit
<1>5. CASE StoreObject(t)
    BY <1>5 DEF StoreObject
<1>6. CASE StoreKey(t)
    BY <1>6 DEF StoreKey
<1>7. CASE AddLoad(t)
    BY <1>7 DEF AddLoad
<1>8. CASE Raise(t)
    BY <1>8 DEF Raise
<1>9. CASE Bump(t)
    BY <1>9 DEF Bump
<1>10. CASE LoadHigh(t)
    BY <1>10 DEF LoadHigh
<1>11. CASE PassesOver(t)
    BY <1>11 DEF PassesOver, Passes
<1>12. CASE Finds(t)
    BY <1>12 DEF Finds, Match, Passes
<1>13. CASE Visits(t)
    BY <1>13 DEF Visits, Match, Passes
<1>14. CASE FindsToRemove(t)
    BY <1>14 DEF FindsToRemove, Match, Passes
<1>15. CASE ScanEnds(t)
    BY <1>15 DEF ScanEnds
<1>16. CASE Take(t)
    BY <1>16 DEF Take, RemoveAtReturns
<1>17. CASE SetHint(t)
    BY <1>17 DEF SetHint
<1>18. CASE RemoveLoad(t)
    BY <1>18 DEF RemoveLoad
<1>19. CASE Lower(t)
    BY <1>19 DEF Lower
<1>20. CASE FreeLast(t)
    BY <1>20 DEF FreeLast, RemoveAtReturns
<1>21. CASE Free(t)
    BY <1>21 DEF Free, RemoveAtReturns
<1>22. CASE TakeNext(t)
    BY <1>22 DEF TakeNext, RemoveAtReturns
<1> QED
    BY <1>1, <1>2, <1>3, <1>4, <1>5, <1>6, <1>7, <1>8, <1>9, <1>10, <1>11,
       <1>12, <1>13, <1>14, <1>15, <1>16, <1>17, <1>18, <1>19, <1>20, <1>21, <1>22
    DEF Step, AddStep, ScanStep, RemoveStep

LEMMA LocalsFitKept ==
    ASSUME MapInv, NEW t \in Threads, Step(t)
    PROVE  LocalsFit'
<1> USE MultimapAssumption
       DEF MapInv, MapTypeOK, Slots, CallsFit, LegalCalls, Calls, Ops, LocalsFit, EntriesIntact,
           Reserves, Goto, shared, locals, Pcs, AddPcs, RemovePcs
<1>1. CASE AddHigh(t)
    BY <1>1 DEF AddHigh
<1>2. CASE AddHint(t)
    BY <1>2 DEF AddHint
<1>3. CASE Reserve(t)
    BY <1>3 DEF Reserve, Limit
<1>4. CASE AddLoopEnds(t)
    BY <1>4 DEF AddLoopEnds, Limit
<1>5. CASE StoreObject(t)
    BY <1>5 DEF StoreObject
<1>6. CASE StoreKey(t)
    BY <1>6 DEF StoreKey
<1>7. CASE AddLoad(t)
    BY <1>7 DEF AddLoad
<1>8. CASE Raise(t)
    BY <1>8 DEF Raise
<1>9. CASE Bump(t)
    BY <1>9 DEF Bump
<1>10. CASE LoadHigh(t)
    BY <1>10 DEF LoadHigh
<1>11. CASE PassesOver(t)
    BY <1>11 DEF PassesOver, Passes
<1>12. CASE Finds(t)
    BY <1>12 DEF Finds, Match, Passes
<1>13. CASE Visits(t)
    BY <1>13 DEF Visits, Match, Passes
<1>14. CASE FindsToRemove(t)
    BY <1>14 DEF FindsToRemove, Match, Passes
<1>15. CASE ScanEnds(t)
    BY <1>15 DEF ScanEnds
<1>16. CASE Take(t)
    BY <1>16 DEF Take, RemoveAtReturns
<1>17. CASE SetHint(t)
    BY <1>17 DEF SetHint
<1>18. CASE RemoveLoad(t)
    BY <1>18 DEF RemoveLoad
<1>19. CASE Lower(t)
    BY <1>19 DEF Lower
<1>20. CASE FreeLast(t)
    BY <1>20 DEF FreeLast, RemoveAtReturns
<1>21. CASE Free(t)
    BY <1>21 DEF Free, RemoveAtReturns
<1>22. CASE TakeNext(t)
    BY <1>22 DEF TakeNext, RemoveAtReturns
<1> QED
    BY <1>1, <1>2, <1>3, <1>4, <1>5, <1>6, <1>7, <1>8, <1>9, <1>10, <1>11,
       <1>12, <1>13, <1>14, <1>15, <1>16, <1>17, <1>18, <1>19, <1>20, <1>21, <1>22
    DEF Step, AddStep, ScanStep, RemoveStep

-----------------------------------------------------------------------------
(* A step leaves the reservations alone, makes one, or ends one. *)

LEMMA NothingReserved ==
    ASSUME EntriesIntact, UNCHANGED <<map, objects>>,
           \A u \in Threads, s \in Slots : Reserves(u, s)' <=> Reserves(u, s)
    PROVE  EntriesIntact'
    BY DEF EntriesIntact

LEMMA OneReserved ==
    ASSUME MapTypeOK, EntriesIntact, NEW t \in Threads, NEW n \in Slots,
           map[n] # KeyReserved,
           map' = [map EXCEPT ![n] = KeyReserved], UNCHANGED objects,
           \A s \in Slots : ~Reserves(t, s) /\ (Reserves(t, s)' <=> s = n),
           \A u \in Threads \ {t}, s \in Slots : Reserves(u, s)' <=> Reserves(u, s)
    PROVE  EntriesIntact'
<1>1. \A u \in Threads : ~Reserves(u, n)
    BY DEF EntriesIntact
<1>2. \A s \in Slots : map'[s] = IF s = n THEN KeyReserved ELSE map[s]
    BY DEF MapTypeOK
<1>3. KeyReserved \notin Keys
    BY MultimapAssumption
<1> QED
    BY <1>1, <1>2, <1>3 DEF EntriesIntact

LEMMA OneReleased ==
    ASSUME MapTypeOK, EntriesIntact, NEW t \in Threads, NEW n \in Slots, NEW v,
           v # KeyReserved, v \in Keys => objects[n] = v,
           map' = [map EXCEPT ![n] = v], UNCHANGED objects,
           Reserves(t, n),
           \A s \in Slots : ~Reserves(t, s)',
           \A u \in Threads \ {t}, s \in Slots : Reserves(u, s)' <=> Reserves(u, s)
    PROVE  EntriesIntact'
<1>1. \A u \in Threads \ {t} : ~Reserves(u, n)
    BY DEF EntriesIntact
<1>2. \A s \in Slots : map'[s] = IF s = n THEN v ELSE map[s]
    BY DEF MapTypeOK
<1>3. \A s \in Slots : Reserves(t, s) => s = n
    BY DEF Reserves
<1> QED
    BY <1>1, <1>2, <1>3 DEF EntriesIntact

LEMMA EntriesKept ==
    ASSUME MapInv, NEW t \in Threads, Step(t)
    PROVE  EntriesIntact'
<1> USE MultimapAssumption
       DEF MapInv, MapTypeOK, Slots, CallsFit, LegalCalls, Calls, LocalsFit, Goto, shared, locals,
           Pcs, AddPcs, RemovePcs
<1>1. CASE AddHigh(t)
    <2>1. UNCHANGED <<map, objects>>
        BY <1>1 DEF AddHigh
    <2>2. \A u \in Threads, s \in Slots : Reserves(u, s)' <=> Reserves(u, s)
        BY <1>1 DEF AddHigh, Reserves
    <2> QED
        BY <2>1, <2>2, NothingReserved
<1>2. CASE AddHint(t)
    <2>1. UNCHANGED <<map, objects>>
        BY <1>2 DEF AddHint
    <2>2. \A u \in Threads, s \in Slots : Reserves(u, s)' <=> Reserves(u, s)
        BY <1>2 DEF AddHint, Reserves
    <2> QED
        BY <2>1, <2>2, NothingReserved
<1>3. CASE Reserve(t)
    <2>1. CASE map[i[t]] = KeyAvailable
        <3>1. i[t] \in Slots /\ map[i[t]] # KeyReserved
            BY <1>3, <2>1 DEF Reserve, Limit
        <3>2. map' = [map EXCEPT ![i[t]] = KeyReserved] /\ UNCHANGED objects
            BY <1>3, <2>1 DEF Reserve, Limit
        <3>3. \A s \in Slots : ~Reserves(t, s) /\ (Reserves(t, s)' <=> s = i[t])
            BY <1>3, <2>1, <3>1 DEF Reserve, Limit, Reserves
        <3>4. \A u \in Threads \ {t}, s \in Slots : Reserves(u, s)' <=> Reserves(u, s)
            BY <1>3, <2>1 DEF Reserve, Limit, Reserves
        <3> QED
            BY <3>1, <3>2, <3>3, <3>4, OneReserved
    <2>2. CASE map[i[t]] # KeyAvailable
        <3>1. UNCHANGED <<map, objects>>
            BY <1>3, <2>2 DEF Reserve, Limit
        <3>2. \A u \in Threads, s \in Slots : Reserves(u, s)' <=> Reserves(u, s)
            BY <1>3, <2>2 DEF Reserve, Limit, Reserves
        <3> QED
            BY <3>1, <3>2, NothingReserved
    <2> QED
        BY <2>1, <2>2
<1>4. CASE AddLoopEnds(t)
    <2>1. UNCHANGED <<map, objects>>
        BY <1>4 DEF AddLoopEnds, Limit
    <2>2. \A u \in Threads, s \in Slots : Reserves(u, s)' <=> Reserves(u, s)
        BY <1>4 DEF AddLoopEnds, Limit, Reserves
    <2> QED
        BY <2>1, <2>2, NothingReserved
<1>5. CASE StoreObject(t)
    <2>1. \A u \in Threads, s \in Slots : Reserves(u, s)' <=> Reserves(u, s)
        BY <1>5 DEF StoreObject, Reserves
    <2>2. Reserves(t, index[t]) /\ index[t] \in Slots
        BY <1>5 DEF StoreObject, Reserves
    <2>3. map' = map /\ map[index[t]] = KeyReserved
        BY <1>5, <2>2 DEF StoreObject, EntriesIntact
    <2>4. \A s \in Slots \ {index[t]} : objects'[s] = objects[s]
        BY <1>5 DEF StoreObject
    <2> QED
        BY <2>1, <2>2, <2>3, <2>4 DEF EntriesIntact
<1>6. CASE StoreKey(t)
    <2>1. PICK k \in call[t].keys : map' = [map EXCEPT ![index[t]] = k]
        BY <1>6 DEF StoreKey
    <2>2. k \in Keys /\ objects[index[t]] = k
        BY <1>6 DEF StoreKey, LocalsFit
    <2>3. index[t] \in Slots /\ Reserves(t, index[t]) /\ UNCHANGED objects
        BY <1>6 DEF StoreKey, Reserves
    <2>4. \A s \in Slots : ~Reserves(t, s)'
        BY <1>6 DEF StoreKey, Reserves
    <2>5. \A u \in Threads \ {t}, s \in Slots : Reserves(u, s)' <=> Reserves(u, s)
        BY <1>6 DEF StoreKey, Reserves
    <2> QED
        BY <2>1, <2>2, <2>3, <2>4, <2>5, OneReleased
<1>7. CASE AddLoad(t)
    <2>1. UNCHANGED <<map, objects>>
        BY <1>7 DEF AddLoad
    <2>2. \A u \in Threads, s \in Slots : Reserves(u, s)' <=> Reserves(u, s)
        BY <1>7 DEF AddLoad, Reserves
    <2> QED
        BY <2>1, <2>2, NothingReserved
<1>8. CASE Raise(t)
    <2>1. UNCHANGED <<map, objects>>
        BY <1>8 DEF Raise
    <2>2. \A u \in Threads, s \in Slots : Reserves(u, s)' <=> Reserves(u, s)
        BY <1>8 DEF Raise, Reserves
    <2> QED
        BY <2>1, <2>2, NothingReserved
<1>9. CASE Bump(t)
    <2>1. UNCHANGED <<map, objects>>
        BY <1>9 DEF Bump
    <2>2. \A u \in Threads, s \in Slots : Reserves(u, s)' <=> Reserves(u, s)
        BY <1>9 DEF Bump, Reserves
    <2> QED
        BY <2>1, <2>2, NothingReserved
<1>10. CASE LoadHigh(t)
    <2>1. UNCHANGED <<map, objects>>
        BY <1>10 DEF LoadHigh
    <2>2. \A u \in Threads, s \in Slots : Reserves(u, s)' <=> Reserves(u, s)
        BY <1>10 DEF LoadHigh, Reserves
    <2> QED
        BY <2>1, <2>2, NothingReserved
<1>11. CASE PassesOver(t)
    <2>1. UNCHANGED <<map, objects>>
        BY <1>11 DEF PassesOver, Passes
    <2>2. \A u \in Threads, s \in Slots : Reserves(u, s)' <=> Reserves(u, s)
        BY <1>11 DEF PassesOver, Passes, Reserves
    <2> QED
        BY <2>1, <2>2, NothingReserved
<1>12. CASE Finds(t)
    <2>1. UNCHANGED <<map, objects>>
        BY <1>12 DEF Finds, Match, Passes
    <2>2. \A u \in Threads, s \in Slots : Reserves(u, s)' <=> Reserves(u, s)
        BY <1>12 DEF Finds, Match, Passes, Reserves
    <2> QED
        BY <2>1, <2>2, NothingReserved
<1>13. CASE Visits(t)
    <2>1. UNCHANGED <<map, objects>>
        BY <1>13 DEF Visits, Match, Passes
    <2>2. \A u \in Threads, s \in Slots : Reserves(u, s)' <=> Reserves(u, s)
        BY <1>13 DEF Visits, Match, Passes, Reserves
    <2> QED
        BY <2>1, <2>2, NothingReserved
<1>14. CASE FindsToRemove(t)
    <2>1. UNCHANGED <<map, objects>>
        BY <1>14 DEF FindsToRemove, Match, Passes
    <2>2. \A u \in Threads, s \in Slots : Reserves(u, s)' <=> Reserves(u, s)
        BY <1>14 DEF FindsToRemove, Match, Passes, Reserves
    <2> QED
        BY <2>1, <2>2, NothingReserved
<1>15. CASE ScanEnds(t)
    <2>1. UNCHANGED <<map, objects>>
        BY <1>15 DEF ScanEnds
    <2>2. \A u \in Threads, s \in Slots : Reserves(u, s)' <=> Reserves(u, s)
        BY <1>15 DEF ScanEnds, Reserves
    <2> QED
        BY <2>1, <2>2, NothingReserved
<1>16. CASE Take(t)
    <2>1. CASE map[index[t]] = key[t]
        <3>1. index[t] \in Slots /\ map[index[t]] # KeyReserved
            BY <1>16, <2>1 DEF Take, RemoveAtReturns
        <3>2. map' = [map EXCEPT ![index[t]] = KeyReserved] /\ UNCHANGED objects
            BY <1>16, <2>1 DEF Take, RemoveAtReturns
        <3>3. \A s \in Slots : ~Reserves(t, s) /\ (Reserves(t, s)' <=> s = index[t])
            BY <1>16, <2>1, <3>1 DEF Take, RemoveAtReturns, Reserves
        <3>4. \A u \in Threads \ {t}, s \in Slots : Reserves(u, s)' <=> Reserves(u, s)
            BY <1>16, <2>1 DEF Take, RemoveAtReturns, Reserves
        <3> QED
            BY <3>1, <3>2, <3>3, <3>4, OneReserved
    <2>2. CASE map[index[t]] # key[t]
        <3>1. UNCHANGED <<map, objects>>
            BY <1>16, <2>2 DEF Take, RemoveAtReturns
        <3>2. \A u \in Threads, s \in Slots : Reserves(u, s)' <=> Reserves(u, s)
            BY <1>16, <2>2 DEF Take, RemoveAtReturns, Reserves
        <3> QED
            BY <3>1, <3>2, NothingReserved
    <2> QED
        BY <2>1, <2>2
<1>17. CASE SetHint(t)
    <2>1. UNCHANGED <<map, objects>>
        BY <1>17 DEF SetHint
    <2>2. \A u \in Threads, s \in Slots : Reserves(u, s)' <=> Reserves(u, s)
        BY <1>17 DEF SetHint, Reserves
    <2> QED
        BY <2>1, <2>2, NothingReserved
<1>18. CASE RemoveLoad(t)
    <2>1. UNCHANGED <<map, objects>>
        BY <1>18 DEF RemoveLoad
    <2>2. \A u \in Threads, s \in Slots : Reserves(u, s)' <=> Reserves(u, s)
        BY <1>18 DEF RemoveLoad, Reserves
    <2> QED
        BY <2>1, <2>2, NothingReserved
<1>19. CASE Lower(t)
    <2>1. UNCHANGED <<map, objects>>
        BY <1>19 DEF Lower
    <2>2. \A u \in Threads, s \in Slots : Reserves(u, s)' <=> Reserves(u, s)
        BY <1>19 DEF Lower, Reserves
    <2> QED
        BY <2>1, <2>2, NothingReserved
<1>20. CASE FreeLast(t)
    <2>1. index[t] \in Slots /\ Reserves(t, index[t])
        BY <1>20 DEF FreeLast, RemoveAtReturns, Reserves
    <2>2. map' = [map EXCEPT ![index[t]] = KeyAvailable] /\ UNCHANGED objects
        BY <1>20 DEF FreeLast, RemoveAtReturns
    <2>3. \A s \in Slots : ~Reserves(t, s)'
        BY <1>20 DEF FreeLast, RemoveAtReturns, Reserves
    <2>4. \A u \in Threads \ {t}, s \in Slots : Reserves(u, s)' <=> Reserves(u, s)
        BY <1>20 DEF FreeLast, RemoveAtReturns, Reserves
    <2> QED
        BY <2>1, <2>2, <2>3, <2>4, OneReleased
<1>21. CASE Free(t)
    <2>1. index[t] \in Slots /\ Reserves(t, index[t])
        BY <1>21 DEF Free, RemoveAtReturns, Reserves
    <2>2. map' = [map EXCEPT ![index[t]] = KeyAvailable] /\ UNCHANGED objects
        BY <1>21 DEF Free, RemoveAtReturns
    <2>3. \A s \in Slots : ~Reserves(t, s)'
        BY <1>21 DEF Free, RemoveAtReturns, Reserves
    <2>4. \A u \in Threads \ {t}, s \in Slots : Reserves(u, s)' <=> Reserves(u, s)
        BY <1>21 DEF Free, RemoveAtReturns, Reserves
    <2> QED
        BY <2>1, <2>2, <2>3, <2>4, OneReleased
<1>22. CASE TakeNext(t)
    <2>1. CASE map[index[t]] = KeyAvailable
        <3>1. index[t] \in Slots /\ map[index[t]] # KeyReserved
            BY <1>22, <2>1 DEF TakeNext, RemoveAtReturns
        <3>2. map' = [map EXCEPT ![index[t]] = KeyReserved] /\ UNCHANGED objects
            BY <1>22, <2>1 DEF TakeNext, RemoveAtReturns
        <3>3. \A s \in Slots : ~Reserves(t, s) /\ (Reserves(t, s)' <=> s = index[t])
            BY <1>22, <2>1, <3>1 DEF TakeNext, RemoveAtReturns, Reserves
        <3>4. \A u \in Threads \ {t}, s \in Slots : Reserves(u, s)' <=> Reserves(u, s)
            BY <1>22, <2>1 DEF TakeNext, RemoveAtReturns, Reserves
        <3> QED
            BY <3>1, <3>2, <3>3, <3>4, OneReserved
    <2>2. CASE map[index[t]] # KeyAvailable
        <3>1. UNCHANGED <<map, objects>>
            BY <1>22, <2>2 DEF TakeNext, RemoveAtReturns
        <3>2. \A u \in Threads, s \in Slots : Reserves(u, s)' <=> Reserves(u, s)
            BY <1>22, <2>2 DEF TakeNext, RemoveAtReturns, Reserves
        <3> QED
            BY <3>1, <3>2, NothingReserved
    <2> QED
        BY <2>1, <2>2
<1> QED
    BY <1>1, <1>2, <1>3, <1>4, <1>5, <1>6, <1>7, <1>8, <1>9, <1>10, <1>11,
       <1>12, <1>13, <1>14, <1>15, <1>16, <1>17, <1>18, <1>19, <1>20, <1>21, <1>22
    DEF Step, AddStep, ScanStep, RemoveStep

-----------------------------------------------------------------------------
(* No entry comes into the map but by the high water mark. *)

LEMMA NoNewEntry ==
    ASSUME BelowHighWater, highWaterMark' = highWaterMark,
           \A s \in Slots : InMap(s)' => InMap(s)
    PROVE  BelowHighWater'
    BY DEF BelowHighWater

LEMMA BelowKept ==
    ASSUME MapInv, NEW t \in Threads, Step(t)
    PROVE  BelowHighWater'
<1> USE MultimapAssumption
       DEF MapInv, MapTypeOK, Slots, CallsFit, LegalCalls, Calls, LocalsFit, Goto, shared, locals,
           Pcs, AddPcs, RemovePcs
<1>1. CASE AddHigh(t)
    <2>1. \A s \in Slots : InMap(s)' => InMap(s)
        BY <1>1 DEF AddHigh, InMap
    <2> QED
        BY <1>1, <2>1, NoNewEntry DEF AddHigh
<1>2. CASE AddHint(t)
    <2>1. \A s \in Slots : InMap(s)' => InMap(s)
        BY <1>2 DEF AddHint, InMap
    <2> QED
        BY <1>2, <2>1, NoNewEntry DEF AddHint
<1>3. CASE Reserve(t)
    <2>1. \A s \in Slots : map'[s] \in Keys => map'[s] = map[s]
        BY <1>3 DEF Reserve, Limit
    <2>2. \A s \in Slots : InMap(s)' => InMap(s)
        <3> SUFFICES ASSUME NEW s \in Slots, InMap(s)' PROVE InMap(s)
            OBVIOUS
        <3>1. map[s] \in Keys
            BY <2>1 DEF InMap
        <3>2. ~\E u \in Threads : pc[u] \in {"a_load", "a_raise"} /\ index[u] = s
            BY <1>3 DEF Reserve, Limit, InMap
        <3> QED
            BY <3>1, <3>2 DEF InMap
    <2> QED
        BY <1>3, <2>2, NoNewEntry DEF Reserve, Limit
<1>4. CASE AddLoopEnds(t)
    <2>1. \A s \in Slots : InMap(s)' => InMap(s)
        BY <1>4 DEF AddLoopEnds, Limit, InMap
    <2> QED
        BY <1>4, <2>1, NoNewEntry DEF AddLoopEnds, Limit
<1>5. CASE StoreObject(t)
    <2>1. \A s \in Slots : InMap(s)' => InMap(s)
        BY <1>5 DEF StoreObject, InMap
    <2> QED
        BY <1>5, <2>1, NoNewEntry DEF StoreObject
<1>6. CASE StoreKey(t)
    BY <1>6 DEF StoreKey, BelowHighWater, InMap
<1>7. CASE AddLoad(t)
    BY <1>7 DEF AddLoad, BelowHighWater, InMap
<1>8. CASE Raise(t)
    BY <1>8 DEF Raise, BelowHighWater, InMap
<1>9. CASE Bump(t)
    <2>1. \A s \in Slots : InMap(s)' => InMap(s)
        BY <1>9 DEF Bump, InMap
    <2> QED
        BY <1>9, <2>1, NoNewEntry DEF Bump
<1>10. CASE LoadHigh(t)
    <2>1. \A s \in Slots : InMap(s)' => InMap(s)
        BY <1>10 DEF LoadHigh, InMap
    <2> QED
        BY <1>10, <2>1, NoNewEntry DEF LoadHigh
<1>11. CASE PassesOver(t)
    <2>1. \A s \in Slots : InMap(s)' => InMap(s)
        BY <1>11 DEF PassesOver, Passes, InMap
    <2> QED
        BY <1>11, <2>1, NoNewEntry DEF PassesOver, Passes
<1>12. CASE Finds(t)
    <2>1. \A s \in Slots : InMap(s)' => InMap(s)
        BY <1>12 DEF Finds, Match, Passes, InMap
    <2> QED
        BY <1>12, <2>1, NoNewEntry DEF Finds, Match, Passes
<1>13. CASE Visits(t)
    <2>1. \A s \in Slots : InMap(s)' => InMap(s)
        BY <1>13 DEF Visits, Match, Passes, InMap
    <2> QED
        BY <1>13, <2>1, NoNewEntry DEF Visits, Match, Passes
<1>14. CASE FindsToRemove(t)
    <2>1. \A s \in Slots : InMap(s)' => InMap(s)
        BY <1>14 DEF FindsToRemove, Match, Passes, InMap
    <2> QED
        BY <1>14, <2>1, NoNewEntry DEF FindsToRemove, Match, Passes
<1>15. CASE ScanEnds(t)
    <2>1. \A s \in Slots : InMap(s)' => InMap(s)
        BY <1>15 DEF ScanEnds, InMap
    <2> QED
        BY <1>15, <2>1, NoNewEntry DEF ScanEnds
<1>16. CASE Take(t)
    <2>1. \A s \in Slots : map'[s] \in Keys => map'[s] = map[s]
        BY <1>16 DEF Take, RemoveAtReturns
    <2>2. \A s \in Slots : InMap(s)' => InMap(s)
        <3> SUFFICES ASSUME NEW s \in Slots, InMap(s)' PROVE InMap(s)
            OBVIOUS
        <3>1. map[s] \in Keys
            BY <2>1 DEF InMap
        <3>2. ~\E u \in Threads : pc[u] \in {"a_load", "a_raise"} /\ index[u] = s
            BY <1>16 DEF Take, RemoveAtReturns, InMap
        <3> QED
            BY <3>1, <3>2 DEF InMap
    <2> QED
        BY <1>16, <2>2, NoNewEntry DEF Take, RemoveAtReturns
<1>17. CASE SetHint(t)
    <2>1. \A s \in Slots : InMap(s)' => InMap(s)
        BY <1>17 DEF SetHint, InMap
    <2> QED
        BY <1>17, <2>1, NoNewEntry DEF SetHint
<1>18. CASE RemoveLoad(t)
    <2>1. \A s \in Slots : InMap(s)' => InMap(s)
        BY <1>18 DEF RemoveLoad, InMap
    <2> QED
        BY <1>18, <2>1, NoNewEntry DEF RemoveLoad
<1>19. CASE Lower(t)
    <2>1. \A s \in Slots : InMap(s)' => InMap(s)
        BY <1>19 DEF Lower, InMap
    <2>2. Reserves(t, index[t]) /\ index[t] \in Slots
        BY <1>19 DEF Lower, Reserves
    <2>3. ~InMap(index[t])
        BY <2>2 DEF EntriesIntact, InMap
    <2> QED
        BY <1>19, <2>1, <2>2, <2>3 DEF Lower, BelowHighWater
<1>20. CASE FreeLast(t)
    <2>1. \A s \in Slots : map'[s] \in Keys => map'[s] = map[s]
        BY <1>20 DEF FreeLast, RemoveAtReturns
    <2>2. \A s \in Slots : InMap(s)' => InMap(s)
        <3> SUFFICES ASSUME NEW s \in Slots, InMap(s)' PROVE InMap(s)
            OBVIOUS
        <3>1. map[s] \in Keys
            BY <2>1 DEF InMap
        <3>2. ~\E u \in Threads : pc[u] \in {"a_load", "a_raise"} /\ index[u] = s
            BY <1>20 DEF FreeLast, RemoveAtReturns, InMap
        <3> QED
            BY <3>1, <3>2 DEF InMap
    <2> QED
        BY <1>20, <2>2, NoNewEntry DEF FreeLast, RemoveAtReturns
<1>21. CASE Free(t)
    <2>1. \A s \in Slots : map'[s] \in Keys => map'[s] = map[s]
        BY <1>21 DEF Free, RemoveAtReturns
    <2>2. \A s \in Slots : InMap(s)' => InMap(s)
        <3> SUFFICES ASSUME NEW s \in Slots, InMap(s)' PROVE InMap(s)
            OBVIOUS
        <3>1. map[s] \in Keys
            BY <2>1 DEF InMap
        <3>2. ~\E u \in Threads : pc[u] \in {"a_load", "a_raise"} /\ index[u] = s
            BY <1>21 DEF Free, RemoveAtReturns, InMap
        <3> QED
            BY <3>1, <3>2 DEF InMap
    <2> QED
        BY <1>21, <2>2, NoNewEntry DEF Free, RemoveAtReturns
<1>22. CASE TakeNext(t)
    <2>1. \A s \in Slots : map'[s] \in Keys => map'[s] = map[s]
        BY <1>22 DEF TakeNext, RemoveAtReturns
    <2>2. \A s \in Slots : InMap(s)' => InMap(s)
        <3> SUFFICES ASSUME NEW s \in Slots, InMap(s)' PROVE InMap(s)
            OBVIOUS
        <3>1. map[s] \in Keys
            BY <2>1 DEF InMap
        <3>2. ~\E u \in Threads : pc[u] \in {"a_load", "a_raise"} /\ index[u] = s
            BY <1>22 DEF TakeNext, RemoveAtReturns, InMap
        <3> QED
            BY <3>1, <3>2 DEF InMap
    <2> QED
        BY <1>22, <2>2, NoNewEntry DEF TakeNext, RemoveAtReturns
<1> QED
    BY <1>1, <1>2, <1>3, <1>4, <1>5, <1>6, <1>7, <1>8, <1>9, <1>10, <1>11,
       <1>12, <1>13, <1>14, <1>15, <1>16, <1>17, <1>18, <1>19, <1>20, <1>21, <1>22
    DEF Step, AddStep, ScanStep, RemoveStep

-----------------------------------------------------------------------------

(* The loops. *)

LEMMA KeptKept ==
    ASSUME MapInv, NEW t \in Threads, MHStep(t)
    PROVE  KeptFit'
<1> USE MultimapAssumption
       DEF MapInv, MapTypeOK, HistoryTypeOK, Slots, CallsFit, LegalCalls, Calls, LocalsFit,
           EntriesIntact, Reserves, BelowHighWater, KeptFit, Loops, MHStep, StillThere, Match,
           Passes, InMap, Goto, shared, locals, Pcs, AddPcs, RemovePcs
<1>1. CASE AddHigh(t)
    BY <1>1 DEF AddHigh
<1>2. CASE AddHint(t)
    BY <1>2 DEF AddHint
<1>3. CASE Reserve(t)
    <2>1. \A s \in Slots : map'[s] \in Keys \/ map[s] \in Keys => map'[s] = map[s]
        BY <1>3 DEF Reserve, Limit
    <2>2. \A s \in Slots : InMap(s) => InMap(s)'
        BY <1>3, <2>1 DEF Reserve, Limit, InMap
    <2>3. \A u \in Threads \ {t} : pc'[u] = pc[u] /\ i'[u] = i[u]
        BY <1>3 DEF Reserve, Limit
    <2>4. pc'[t] \notin Loops
        BY <1>3 DEF Reserve, Limit, Loops
    <2>5. UNCHANGED <<call, highWater, key>> /\ visited' = visited
        BY <1>3 DEF Reserve, Limit, MHStep, Match, Passes
    <2>6. \A u \in Threads : kept'[u] = {s \in kept[u] : map'[s] = map[s]}
        BY DEF MHStep, StillThere
    <2> QED
        BY <2>2, <2>3, <2>4, <2>5, <2>6 DEF KeptFit, HistoryTypeOK, Loops
<1>4. CASE AddLoopEnds(t)
    BY <1>4 DEF AddLoopEnds, Limit
<1>5. CASE StoreObject(t)
    BY <1>5 DEF StoreObject
<1>6. CASE StoreKey(t)
    BY <1>6 DEF StoreKey
<1>7. CASE AddLoad(t)
    BY <1>7 DEF AddLoad
<1>8. CASE Raise(t)
    BY <1>8 DEF Raise
<1>9. CASE Bump(t)
    BY <1>9 DEF Bump
<1>10. CASE LoadHigh(t)
    BY <1>10 DEF LoadHigh
<1>11. CASE PassesOver(t)
    BY <1>11 DEF PassesOver, Passes
<1>12. CASE Finds(t)
    BY <1>12 DEF Finds, Match, Passes
<1>13. CASE Visits(t)
    BY <1>13 DEF Visits, Match, Passes
<1>14. CASE FindsToRemove(t)
    BY <1>14 DEF FindsToRemove, Match, Passes
<1>15. CASE ScanEnds(t)
    BY <1>15 DEF ScanEnds
<1>16. CASE Take(t)
    BY <1>16 DEF Take, RemoveAtReturns
<1>17. CASE SetHint(t)
    BY <1>17 DEF SetHint
<1>18. CASE RemoveLoad(t)
    BY <1>18 DEF RemoveLoad
<1>19. CASE Lower(t)
    BY <1>19 DEF Lower
<1>20. CASE FreeLast(t)
    BY <1>20 DEF FreeLast, RemoveAtReturns
<1>21. CASE Free(t)
    BY <1>21 DEF Free, RemoveAtReturns
<1>22. CASE TakeNext(t)
    <2>1. CASE map[index[t]] = KeyAvailable
        BY <1>22, <2>1 DEF TakeNext, RemoveAtReturns
    <2>2. CASE map[index[t]] # KeyAvailable
        BY <1>22, <2>2 DEF TakeNext, RemoveAtReturns
    <2> QED
        BY <2>1, <2>2
<1> QED
    BY <1>1, <1>2, <1>3, <1>4, <1>5, <1>6, <1>7, <1>8, <1>9, <1>10, <1>11,
       <1>12, <1>13, <1>14, <1>15, <1>16, <1>17, <1>18, <1>19, <1>20, <1>21, <1>22
    DEF Step, AddStep, ScanStep, RemoveStep

-----------------------------------------------------------------------------
(* The invariant. *)

LEMMA MapInitial == MHInit => MapInv
<1> SUFFICES ASSUME MHInit
             PROVE  MapInv
    OBVIOUS
<1> USE DEF MHInit, MapInit
<1>1. MapTypeOK /\ HistoryTypeOK
    BY MultimapAssumption
    DEF MapTypeOK, HistoryTypeOK, Slots, Calls, Ops, Pcs, AddPcs, RemovePcs
<1>2. CallsFit /\ LocalsFit
    BY DEF CallsFit, LocalsFit, LegalCalls, Unfiltered, Calls, Ops, Loops, AddPcs, RemovePcs
<1>3. EntriesIntact
    BY MultimapAssumption DEF EntriesIntact, Reserves, Slots
<1>4. BelowHighWater /\ KeptFit
    BY MultimapAssumption DEF BelowHighWater, KeptFit, InMap, Slots
<1> QED
    BY <1>1, <1>2, <1>3, <1>4 DEF MapInv

LEMMA BeginKept ==
    ASSUME MapInv, NEW t \in Threads, NEW c \in LegalCalls, MHBegin(t, c)
    PROVE  MapInv'
<1> USE DEF MapInv, MHBegin, Begin, Goto, shared
<1>1. MapTypeOK' /\ HistoryTypeOK'
    BY DEF MapTypeOK, HistoryTypeOK, LegalCalls, Pcs, AddPcs, RemovePcs
<1>2. CallsFit' /\ LocalsFit'
    BY DEF MapTypeOK, CallsFit, LocalsFit, LegalCalls, Calls, Ops, Loops, AddPcs, RemovePcs
<1>3. \A u \in Threads, s \in Slots : Reserves(u, s)' <=> Reserves(u, s)
    BY DEF Reserves, MapTypeOK
<1>4. EntriesIntact'
    BY <1>3, NothingReserved
<1>5. \A s \in Slots : InMap(s)' <=> InMap(s)
    BY DEF InMap, MapTypeOK
<1>6. BelowHighWater'
    BY <1>5, NoNewEntry
<1>7. KeptFit'
    <2> SUFFICES ASSUME NEW u \in Threads, NEW s \in kept'[u]
                 PROVE  /\ pc'[u] \in Loops => InMap(s)' /\ map'[s] \in call'[u].keys
                        /\ pc'[u] \in Loops \ {"high"} => s < highWater'[u]
                        /\ pc'[u] \in Loops \ {"high"} /\ s < i'[u] =>
                              s \in visited'[u] /\ call'[u].op = "ForEach"
                        /\ pc'[u] \in RemovePcs /\ s = i'[u] =>
                              pc'[u] = "r_cas" /\ map'[s] = key'[u]
        BY DEF KeptFit
    <2>1. CASE u = t
        BY <1>5, <2>1 DEF MapTypeOK, HistoryTypeOK, Loops, AddPcs, RemovePcs
    <2>2. CASE u # t
        BY <1>5, <2>2 DEF MapTypeOK, HistoryTypeOK, KeptFit
    <2> QED
        BY <2>1, <2>2
<1> QED
    BY <1>1, <1>2, <1>4, <1>6, <1>7

LEMMA StepKept ==
    ASSUME MapInv, NEW t \in Threads, MHStep(t)
    PROVE  MapInv'
<1>1. Step(t)
    BY DEF MHStep
<1>2. kept' \in [Threads -> SUBSET Slots]
    BY DEF MapInv, HistoryTypeOK, MHStep, StillThere
<1>3. Match(t) => i[t] \in Slots
    BY MultimapAssumption DEF MapInv, MapTypeOK, Match, Passes, Slots
<1>4. visited' \in [Threads -> SUBSET Slots]
    <2>1. CASE Match(t)
        <3>1. visited[t] \cup {i[t]} \in SUBSET Slots
            BY <1>3, <2>1 DEF MapInv, HistoryTypeOK
        <3>2. visited' = [visited EXCEPT ![t] = visited[t] \cup {i[t]}]
            BY <2>1 DEF MapInv, HistoryTypeOK, MHStep
        <3> QED
            BY <3>1, <3>2 DEF MapInv, HistoryTypeOK
    <2>2. CASE ~Match(t)
        <3>1. visited' = [visited EXCEPT ![t] = visited[t]]
            BY <2>2 DEF MapInv, HistoryTypeOK, MHStep
        <3> QED
            BY <3>1 DEF MapInv, HistoryTypeOK
    <2> QED
        BY <2>1, <2>2
<1> QED
    BY <1>1, <1>2, <1>4, TypeKept, CallsFitKept, LocalsFitKept, EntriesKept, BelowKept,
       KeptKept
    DEF MapInv, HistoryTypeOK

LEMMA MapNextKept == MapInv /\ [MHNext]_mhvars => MapInv'
<1> SUFFICES ASSUME MapInv, [MHNext]_mhvars
             PROVE  MapInv'
    OBVIOUS
<1>1. CASE MHNext
    BY <1>1, StepKept, BeginKept DEF MHNext
<1>2. CASE UNCHANGED mhvars
    BY <1>2
    DEF mhvars, mvars, shared, locals, MapInv, MapTypeOK, HistoryTypeOK, CallsFit, LocalsFit,
        EntriesIntact, Reserves, BelowHighWater, InMap, KeptFit
<1> QED
    BY <1>1, <1>2

(* The elements that were in the map all along have been seen.             *)
LEMMA LoopsMissNothing == MapInv => ScansComplete
<1> SUFFICES ASSUME MapInv, NEW t \in Threads, pc[t] = "scan", i[t] >= highWater[t]
             PROVE  /\ kept[t] \subseteq visited[t]
                    /\ call[t].op # "ForEach" => kept[t] = {}
    BY DEF ScansComplete
<1>1. \A s \in kept[t] : s < highWater[t]
    BY DEF MapInv, KeptFit, Loops
<1>2. \A s \in kept[t] : s < i[t]
    BY <1>1, MultimapAssumption DEF MapInv, MapTypeOK, HistoryTypeOK, Slots
<1> QED
    BY <1>2 DEF MapInv, KeptFit, Loops

THEOREM MapInvariant == MHSpec => []MapInv
    BY MapInitial, MapNextKept, PTL DEF MHSpec

-----------------------------------------------------------------------------
(* What the comments of fixed-multimap.hpp rest on, for any number of      *)
(* threads, any keys and any capacity.                                     *)

(* Every index of AddAt and RemoveAt is inside the arrays.                 *)
THEOREM MapTypeCorrect == MHSpec => []MapTypeOK
    BY MapInvariant, PTL DEF MapInv

(* Line 412: what Add has put into the map stays below the high water      *)
(* mark, however adding and removing threads move it.                      *)
THEOREM MarkCorrect == MHSpec => []BelowHighWater
    BY MapInvariant, PTL DEF MapInv

(* A thread works alone at the entry it has reserved, and an entry with a  *)
(* key has its object.                                                     *)
THEOREM EntriesCorrect == MHSpec => []EntriesIntact
    BY MapInvariant, PTL DEF MapInv

(* Lines 161-163, 228-230 and 276-278: no loop misses a matching element   *)
(* that was there before the call and stays.                               *)
THEOREM LoopsCorrect == MHSpec => []ScansComplete
    BY MapInvariant, LoopsMissNothing, PTL

=============================================================================
