------------------------- MODULE IrDecrementDfsProofs -------------------------
(***************************************************************************)
(* The recursion of _decrement_consumer leaves the least fixed point of    *)
(* IrDecrement and ends, for every window.  The invariant books each loss  *)
(* on an operand: what an entry has lost so far is the number of operands  *)
(* naming it that the loops, those over and those in progress, have gone   *)
(* past.                                                                   *)
(***************************************************************************)
EXTENDS IrDecrementDfs, FiniteSetTheorems, SequenceTheorems, TLAPS

(* Those whose producers the recursion has been given: the detector, and   *)
(* the entries that have lost their last consumer in it.                   *)
Called == {Caller} \cup {q \in Slots : /\ entered.count[q] > 0 /\ count[q] = 0
                                       /\ q \notin entered.live}

Operand == (Slots \cup {Caller}) \X (1..3)

(* The operands naming p that a loop has gone past. *)
Passed(p) == {e \in Called \X (1..3) : e \notin Pending /\ Producers(e[1])[e[2]] = p}

Less(n, loss) == IF loss >= n THEN 0 ELSE n - loss

DfsTypeOK ==
    /\ entered \in Windows
    /\ count \in [Slots -> Nat]
    /\ calls \in Seq(Frame)

StackInv ==
    /\ \A n \in 1 .. Len(calls) : calls[n].of \in Called
    /\ \A m, n \in 1 .. Len(calls) : calls[m].of = calls[n].of => m = n

LossInv ==
    \A p \in Slots :
        count[p] = Less(entered.count[p], IF p > 0 THEN Cardinality(Passed(p)) ELSE 0)

(* No entry passes its loss on that the least fixed point would not have. *)
LeastInv ==
    \A F \in SUBSET Slots :
        Closed(entered.count, entered.src, entered.live, entered.ps, F)
            => Called \ {Caller} \subseteq F

DfsInv == DfsTypeOK /\ StackInv /\ LossInv /\ LeastInv

-----------------------------------------------------------------------------
(* Finite sets of operands.                                                *)

LEMMA SetsFinite ==
    /\ IsFiniteSet(Slots) /\ IsFiniteSet(1..3) /\ IsFiniteSet(Operand)
    /\ \A s \in Slots : s \in Nat
<1>1. 0 \in Int /\ W - 1 \in Int /\ 1 \in Int /\ 3 \in Int
    BY WAssumption
<1>2. IsFiniteSet(Slots) /\ IsFiniteSet(1..3)
    BY <1>1, FS_Interval DEF Slots
<1>3. IsFiniteSet(Slots \cup {Caller})
    BY <1>2, FS_AddElement
<1> QED
    BY <1>2, <1>3, FS_Product DEF Slots, Operand

LEMMA CalledSubset == Called \subseteq Slots \cup {Caller} /\ Caller \in Called
BY DEF Called

LEMMA OperandsFinite ==
    /\ IsFiniteSet(Pending) /\ Cardinality(Pending) \in Nat
    /\ \A p : /\ IsFiniteSet(Passed(p)) /\ Cardinality(Passed(p)) \in Nat
              /\ Passed(p) \subseteq Operand
<1>1. Pending \subseteq Operand /\ \A p : Passed(p) \subseteq Operand
    BY CalledSubset DEF Pending, Passed, Operand
<1> QED
    BY <1>1, SetsFinite, FS_Subset, FS_CardinalityType

(* The losses of the fixed point, operand by operand. *)
LEMMA LossesAreOperands ==
    ASSUME entered \in Windows, NEW F \in SUBSET Slots, NEW p \in Slots, p > 0
    PROVE  LET E == {e \in ({Caller} \cup F) \X (1..3) : Producers(e[1])[e[2]] = p}
           IN  /\ IsFiniteSet(E) /\ Cardinality(E) \in Nat
               /\ Losses(entered.src, entered.ps, F, p) = Cardinality(E)
<1> DEFINE E == {e \in ({Caller} \cup F) \X (1..3) : Producers(e[1])[e[2]] = p}
           Ks == {k \in 1..3 : entered.ps[k] = p}
           Own == {Caller} \X Ks
           Rest == {e \in F \X (1..3) : entered.src[e[1]][e[2]] = p}
<1>1. Caller \notin F
    BY CallerAssumption
<1>2. E = Own \cup Rest /\ Own \cap Rest = {}
    BY <1>1 DEF Producers
<1>3. IsFiniteSet(Ks) /\ IsFiniteSet(Rest)
    <2>1. IsFiniteSet(F)
        BY SetsFinite, FS_Subset
    <2>2. IsFiniteSet(F \X (1..3))
        BY <2>1, SetsFinite, FS_Product
    <2> QED
        BY <2>2, SetsFinite, FS_Subset
<1>4. IsFiniteSet({Caller}) /\ Cardinality({Caller}) = 1
    BY FS_Singleton
<1>5. IsFiniteSet(Own) /\ Cardinality(Own) = 1 * Cardinality(Ks)
    BY <1>3, <1>4, FS_Product
<1>6. Cardinality(Own \cap Rest) = 0
    BY <1>2, FS_EmptySet
<1>7. /\ IsFiniteSet(Own \cup Rest)
      /\ Cardinality(Own \cup Rest)
            = Cardinality(Own) + Cardinality(Rest) - Cardinality(Own \cap Rest)
    BY <1>3, <1>5, FS_Union
<1>8. Cardinality(Ks) \in Nat /\ Cardinality(Rest) \in Nat /\ Cardinality(E) \in Nat
    BY <1>2, <1>3, <1>7, FS_CardinalityType
<1>9. Losses(entered.src, entered.ps, F, p) = Cardinality(Ks) + Cardinality(Rest)
    BY DEF Losses, Mentions
<1> HIDE DEF Own, Rest, Ks
<1>10. Losses(entered.src, entered.ps, F, p) = Cardinality(E)
    <2> HIDE DEF E
    <2> QED
        BY <1>2, <1>5, <1>6, <1>7, <1>8, <1>9
<1> QED
    BY <1>2, <1>7, <1>8, <1>10

-----------------------------------------------------------------------------
(* One turn of a loop.                                                     *)

Looked == <<Top.of, Top.i>>

LEMMA TopFacts ==
    ASSUME DfsInv, calls # <<>>
    PROVE  /\ Len(calls) \in Nat /\ Len(calls) >= 1
           /\ Len(calls) \in 1 .. Len(calls)
           /\ Top \in Frame /\ Top.of \in Called
           /\ Top.of \in Slots \cup {Caller} /\ Top.i \in 1..4
<1>1. Len(calls) \in Nat /\ Len(calls) >= 1
    BY DEF DfsInv, DfsTypeOK
<1> QED
    <2>1. Len(calls) \in 1 .. Len(calls)
        BY <1>1
    <2>2. Top \in Frame
        BY <2>1 DEF DfsInv, DfsTypeOK, Top
    <2>3. Top.of \in Called
        BY <2>1 DEF DfsInv, StackInv, Top
    <2> QED
        BY <1>1, <2>1, <2>2, <2>3 DEF Frame

LEMMA LookedFacts ==
    ASSUME DfsInv, InLoop
    PROVE  /\ calls # <<>> /\ Top.i \in 1..3
           /\ Looked \in Operand /\ Looked \in Pending
           /\ Producer = Producers(Looked[1])[Looked[2]]
           /\ Producer \in Slots \cup {-1}
<1>1. calls # <<>> /\ Top.i \in 1..3
    BY TopFacts DEF InLoop
<1>2. Looked \in Operand
    BY <1>1, TopFacts DEF Looked, Operand
<1>3. Looked \in Pending
    BY <1>1, <1>2, TopFacts DEF Looked, Pending, Operand, Top
<1>4. Producers(Top.of) \in Srcs
    BY <1>1, TopFacts, WindowsAssumption DEF DfsInv, DfsTypeOK, Window, Producers
<1> QED
    BY <1>1, <1>2, <1>3, <1>4 DEF Looked, Producer, Srcs

(* The calls after the turn, with or without a further one. *)
LEMMA AdvancedFacts ==
    ASSUME DfsInv, InLoop
    PROVE  /\ Advanced \in Seq(Frame) /\ Len(Advanced) = Len(calls)
           /\ \A n \in 1 .. Len(calls) :
                 /\ Advanced[n].of = calls[n].of
                 /\ Advanced[n].i = IF n = Len(calls) THEN Top.i + 1 ELSE calls[n].i
<1>1. /\ calls \in Seq(Frame) /\ calls # <<>>
      /\ Len(calls) \in 1 .. Len(calls) /\ Top.i \in 1..3
    BY TopFacts, LookedFacts DEF DfsInv, DfsTypeOK
<1>2. Advanced = [calls EXCEPT ![Len(calls)] = [Top EXCEPT !.i = Top.i + 1]]
    BY DEF Advanced, Top
<1>3. [Top EXCEPT !.i = Top.i + 1] \in Frame
    BY <1>1, TopFacts DEF Frame
<1>4. Advanced \in Seq(Frame) /\ Len(Advanced) = Len(calls)
    BY <1>1, <1>2, <1>3
<1>5. \A n \in 1 .. Len(calls) :
         Advanced[n] = IF n = Len(calls) THEN [Top EXCEPT !.i = Top.i + 1] ELSE calls[n]
    BY <1>1, <1>2
<1>6. /\ [Top EXCEPT !.i = Top.i + 1].of = Top.of
      /\ [Top EXCEPT !.i = Top.i + 1].i = Top.i + 1
    BY <1>1, TopFacts DEF Frame
<1> QED
    BY <1>4, <1>5, <1>6 DEF Top

(* What is pending after a turn that makes a call for the entries in N,    *)
(* one or none.                                                            *)
LEMMA PendingStep ==
    ASSUME DfsInv, InLoop, NEW N \in SUBSET Slots,
           \/ N = {} /\ calls' = Advanced
           \/ \E p \in Slots : /\ N = {p}
                               /\ calls' = Append(Advanced, [of |-> p, i |-> 1])
    PROVE  Pending' = (Pending \ {Looked}) \cup (N \X (1..3))
<1>1. /\ Len(calls) \in Nat /\ Len(calls) \in 1 .. Len(calls)
      /\ Top = calls[Len(calls)] /\ Top.i \in 1..3
      /\ \A n \in 1 .. Len(calls) : calls[n].i \in 1..4
      /\ DOMAIN calls = 1 .. Len(calls)
    <2>1. calls \in Seq(Frame)
        BY DEF DfsInv, DfsTypeOK
    <2>2. DOMAIN calls = 1 .. Len(calls) /\ \A n \in 1 .. Len(calls) : calls[n] \in Frame
        BY <2>1
    <2>3. Top = calls[Len(calls)]
        BY DEF Top
    <2>4. \A n \in 1 .. Len(calls) : calls[n].i \in 1..4
        BY <2>2 DEF Frame
    <2> QED
        BY <2>2, <2>3, <2>4, TopFacts, LookedFacts
<1>2. \A m, n \in 1 .. Len(calls) : calls[m].of = calls[n].of => m = n
    BY DEF DfsInv, StackInv
<1>3. \A e \in Operand :
        (\E n \in 1 .. Len(calls) : Advanced[n].of = e[1] /\ Advanced[n].i <= e[2])
            <=> e \in Pending /\ e # Looked
    <2> SUFFICES ASSUME NEW e \in Operand
                 PROVE  (\E n \in 1 .. Len(calls) :
                            Advanced[n].of = e[1] /\ Advanced[n].i <= e[2])
                            <=> e \in Pending /\ e # Looked
        OBVIOUS
    <2>1. e[2] \in 1..3 /\ e = <<e[1], e[2]>>
        BY DEF Operand
    <2>2. e \in Pending <=> \E n \in 1 .. Len(calls) :
                                calls[n].of = e[1] /\ calls[n].i <= e[2]
        BY <1>1 DEF Pending, Operand
    <2>3. e = Looked <=> e[1] = Top.of /\ e[2] = Top.i
        BY <2>1 DEF Looked
    <2>4. ASSUME NEW n \in 1 .. Len(calls), Advanced[n].of = e[1], Advanced[n].i <= e[2]
          PROVE  e \in Pending /\ e # Looked
        <3>1. calls[n].of = e[1] /\ calls[n].i <= e[2]
            BY <1>1, <2>1, <2>4, AdvancedFacts
        <3>2. e # Looked
            BY <1>1, <1>2, <2>1, <2>3, <2>4, <3>1, AdvancedFacts
        <3> QED
            BY <2>2, <3>1, <3>2
    <2>5. ASSUME e \in Pending, e # Looked
          PROVE  \E n \in 1 .. Len(calls) :
                    Advanced[n].of = e[1] /\ Advanced[n].i <= e[2]
        <3>1. PICK n \in 1 .. Len(calls) : calls[n].of = e[1] /\ calls[n].i <= e[2]
            BY <2>2, <2>5
        <3>2. n = Len(calls) => Top.i + 1 <= e[2]
            BY <1>1, <2>1, <2>3, <2>5, <3>1
        <3> QED
            BY <3>1, <3>2, AdvancedFacts
    <2> QED
        BY <2>4, <2>5
<1>4. Pending' = {e \in Operand : \E n \in DOMAIN calls' :
                                     calls'[n].of = e[1] /\ calls'[n].i <= e[2]}
    BY DEF Pending, Operand
<1>5. Pending \subseteq Operand /\ N \X (1..3) \subseteq Operand
    BY DEF Pending, Operand
<1>6. CASE N = {} /\ calls' = Advanced
    <2>1. DOMAIN calls' = 1 .. Len(calls)
        BY <1>6, AdvancedFacts
    <2> QED
        BY <1>3, <1>4, <1>5, <1>6, <2>1
<1>7. ASSUME NEW p \in Slots, N = {p}, calls' = Append(Advanced, [of |-> p, i |-> 1])
      PROVE  Pending' = (Pending \ {Looked}) \cup (N \X (1..3))
    <2>1. /\ DOMAIN calls' = 1 .. Len(calls) + 1
          /\ \A n \in 1 .. Len(calls) : calls'[n] = Advanced[n]
          /\ calls'[Len(calls) + 1] = [of |-> p, i |-> 1]
        <3>1. [of |-> p, i |-> 1] \in Frame
            BY <1>7 DEF Frame
        <3>2. Advanced \in Seq(Frame) /\ Len(Advanced) = Len(calls)
            BY AdvancedFacts
        <3> HIDE DEF Advanced
        <3> QED
            BY <1>1, <1>7, <3>1, <3>2
    <2>2. \A e \in Operand :
            (\E n \in 1 .. Len(calls) + 1 : calls'[n].of = e[1] /\ calls'[n].i <= e[2])
              <=> \/ \E n \in 1 .. Len(calls) :
                        Advanced[n].of = e[1] /\ Advanced[n].i <= e[2]
                  \/ e[1] = p
        <3> SUFFICES ASSUME NEW e \in Operand
            PROVE (\E n \in 1 .. Len(calls) + 1 : calls'[n].of = e[1] /\ calls'[n].i <= e[2])
              <=> \/ \E n \in 1 .. Len(calls) :
                        Advanced[n].of = e[1] /\ Advanced[n].i <= e[2]
                  \/ e[1] = p
            OBVIOUS
        <3>1. calls'[Len(calls) + 1].i <= e[2] /\ calls'[Len(calls) + 1].of = p
            BY <2>1 DEF Operand
        <3>2. \A n \in 1 .. Len(calls) + 1 : n \in 1 .. Len(calls) \/ n = Len(calls) + 1
            BY <1>1
        <3>3. /\ 1 .. Len(calls) \subseteq 1 .. Len(calls) + 1
              /\ Len(calls) + 1 \in 1 .. Len(calls) + 1
            BY <1>1
        <3> QED
            BY <2>1, <3>1, <3>2, <3>3
    <2>3. \A e \in Operand : e \in N \X (1..3) <=> e[1] = p
        BY <1>7 DEF Operand
    <2> QED
        BY <1>3, <1>4, <1>5, <2>1, <2>2, <2>3
<1> QED
    BY <1>6, <1>7

(* One turn of a loop, whichever of the three it is: an entry that had one *)
(* consumer left, and that no rename table names, is called for.           *)
Callees == {p \in Slots : p = Producer /\ p > 0 /\ count[p] = 1 /\ Recurses(p)}

Turn ==
    /\ InLoop
    /\ entered' = entered
    /\ count' = [p \in Slots |-> IF p = Producer /\ p > 0 /\ count[p] > 0
                                 THEN count[p] - 1 ELSE count[p]]
    /\ \/ Callees = {} /\ calls' = Advanced
       \/ \E p \in Slots : /\ Callees = {p}
                           /\ calls' = Append(Advanced, [of |-> p, i |-> 1])

LEMMA StepsAreTurns ==
    ASSUME DfsInv, Skip \/ Lower \/ Drain
    PROVE  Turn
<1>1. /\ count \in [Slots -> Nat] /\ Producer \in Slots \cup {-1}
      /\ \A s \in Slots : s \in Nat
    BY LookedFacts, SetsFinite DEF DfsInv, DfsTypeOK, Skip, Lower, Drain
<1>2. CASE Skip
    <2>1. Callees = {}
        BY <1>1, <1>2 DEF Skip, Callees
    <2>2. count' = [p \in Slots |-> IF p = Producer /\ p > 0 /\ count[p] > 0
                                    THEN count[p] - 1 ELSE count[p]]
        BY <1>1, <1>2 DEF Skip
    <2> QED
        BY <1>2, <2>1, <2>2 DEF Skip, Turn
<1>3. CASE Lower
    <2>1. Callees = {}
        BY <1>1, <1>3 DEF Lower, Callees
    <2>2. count' = [p \in Slots |-> IF p = Producer /\ p > 0 /\ count[p] > 0
                                    THEN count[p] - 1 ELSE count[p]]
        <3>1. Producer \in Slots /\ Producer > 0 /\ count[Producer] > 0
            BY <1>1, <1>3 DEF Lower
        <3>2. count' = [p \in Slots |-> IF p = Producer THEN count[p] - 1 ELSE count[p]]
            BY <1>1, <1>3 DEF Lower
        <3> QED
            BY <3>1, <3>2
    <2> QED
        BY <1>3, <2>1, <2>2 DEF Lower, Turn
<1>4. CASE Drain
    <2>1. Producer \in Slots /\ Producer > 0 /\ count[Producer] = 1
        BY <1>1, <1>4 DEF Drain
    <2>2. Callees = IF Recurses(Producer) THEN {Producer} ELSE {}
        BY <2>1 DEF Callees
    <2>3. count' = [p \in Slots |-> IF p = Producer /\ p > 0 /\ count[p] > 0
                                    THEN count[p] - 1 ELSE count[p]]
        <3>1. count' = [p \in Slots |-> IF p = Producer THEN 0 ELSE count[p]]
            BY <1>1, <1>4 DEF Drain, Drained
        <3> QED
            BY <2>1, <3>1
    <2> QED
        BY <1>4, <2>1, <2>2, <2>3 DEF Drain, Turn
<1> QED
    BY <1>2, <1>3, <1>4

LEMMA CallTurn ==
    ASSUME DfsInv, Turn
    PROVE  /\ Called' = Called \cup Callees /\ Called \cap Callees = {}
           /\ Callees \subseteq Slots
           /\ Pending' = (Pending \ {Looked}) \cup (Callees \X (1..3))
           /\ Pending \cap (Callees \X (1..3)) = {}
<1>1. /\ count \in [Slots -> Nat] /\ entered' = entered /\ Caller \notin Slots
      /\ \A s \in Slots : s \in Nat
    BY CallerAssumption, SetsFinite DEF DfsInv, DfsTypeOK, Turn
<1>2. Callees \subseteq Slots
    BY DEF Callees
<1>3. Called \cap Callees = {}
    BY <1>1 DEF Called, Callees
<1>4. \A p \in Callees : entered.count[p] > 0
    <2>1. \A p \in Slots : entered.count[p] \in Nat
        BY WindowsAssumption DEF DfsInv, DfsTypeOK, Window
    <2>2. SUFFICES ASSUME NEW p \in Callees PROVE entered.count[p] > 0
        OBVIOUS
    <2>3. /\ p \in Slots /\ p > 0 /\ count[p] = 1
          /\ count[p] = Less(entered.count[p], Cardinality(Passed(p)))
        BY DEF Callees, DfsInv, LossInv
    <2>4. Cardinality(Passed(p)) \in Nat
        BY OperandsFinite
    <2> QED
        BY <2>1, <2>3, <2>4 DEF Less
<1>5. \A p \in Slots : count'[p] = 0 <=> count[p] = 0 \/ (p = Producer /\ p > 0 /\ count[p] = 1)
    BY <1>1 DEF Turn
<1>6. Called' = Called \cup Callees
    <2>1. \A p \in Slots : p \in Called' <=> p \in Called \/ p \in Callees
        BY <1>1, <1>4, <1>5 DEF Called, Callees, Recurses
    <2>2. Called' \subseteq Slots \cup {Caller} /\ Caller \in Called' /\ Caller \in Called
        BY DEF Called
    <2> QED
        BY <1>2, <2>1, <2>2, CalledSubset
<1>7. Pending' = (Pending \ {Looked}) \cup (Callees \X (1..3))
    <2>1. PICK N \in SUBSET Slots : N = Callees
        BY <1>2
    <2> QED
        BY <2>1, PendingStep DEF Turn
<1>8. Pending \cap (Callees \X (1..3)) = {}
    <2>1. \A e \in Pending : e[1] \in Called
        BY DEF Pending, DfsInv, DfsTypeOK, StackInv
    <2> QED
        BY <1>3, <2>1
<1> QED
    BY <1>2, <1>3, <1>6, <1>7, <1>8

(* The operand looked at is passed, and no other. *)
LEMMA PassedTurn ==
    ASSUME DfsInv, Turn, NEW p \in Slots
    PROVE  /\ Passed(p)' = IF Producer = p THEN Passed(p) \cup {Looked} ELSE Passed(p)
           /\ IsFiniteSet(Passed(p)') /\ Cardinality(Passed(p)) \in Nat
           /\ Cardinality(Passed(p)') = IF Producer = p THEN Cardinality(Passed(p)) + 1
                                                        ELSE Cardinality(Passed(p))
<1>1. /\ Looked \in Pending /\ Looked \in Called \X (1..3)
      /\ Producer = Producers(Looked[1])[Looked[2]]
    BY LookedFacts, TopFacts DEF Turn, Looked
<1>2. \A q : Producers(q)' = Producers(q)
    BY DEF Turn, Producers
<1>3. \A e \in Called' \X (1..3) :
          e \notin Pending' <=> e \in Called \X (1..3) /\ (e \notin Pending \/ e = Looked)
    BY <1>1, CallTurn
<1>4. Called \X (1..3) \subseteq Called' \X (1..3)
    BY CallTurn
<1>5. Passed(p)' = {e \in Called' \X (1..3) : e \notin Pending' /\ Producers(e[1])[e[2]] = p}
    BY <1>2 DEF Passed
<1>6. Passed(p)' = IF Producer = p THEN Passed(p) \cup {Looked} ELSE Passed(p)
    <2>1. \A e : e \in Passed(p)' <=> /\ e \in Called \X (1..3)
                                      /\ e \notin Pending \/ e = Looked
                                      /\ Producers(e[1])[e[2]] = p
        BY <1>3, <1>4, <1>5
    <2> QED
        BY <1>1, <2>1 DEF Passed
<1>7. IsFiniteSet(Passed(p)) /\ Cardinality(Passed(p)) \in Nat
    BY OperandsFinite
<1>8. Looked \notin Passed(p)
    BY <1>1 DEF Passed
<1>9. /\ IsFiniteSet(Passed(p) \cup {Looked})
      /\ Cardinality(Passed(p) \cup {Looked}) = Cardinality(Passed(p)) + 1
    BY <1>7, <1>8, FS_AddElement
<1> QED
    BY <1>6, <1>7, <1>9

LEMMA TurnLossInv ==
    ASSUME DfsInv, Turn
    PROVE  LossInv'
<1>1. SUFFICES ASSUME NEW p \in Slots
               PROVE  count'[p] = Less(entered.count[p],
                                       IF p > 0 THEN Cardinality(Passed(p)') ELSE 0)
    BY DEF LossInv, Less, Turn
<1>2. /\ count[p] \in Nat /\ entered.count[p] \in Nat /\ p \in Nat
      /\ Producer = p => Producer > 0 \/ p = 0
    BY WindowsAssumption, SetsFinite DEF DfsInv, DfsTypeOK, Window
<1>3. count'[p] = IF p = Producer /\ p > 0 /\ count[p] > 0 THEN count[p] - 1 ELSE count[p]
    BY DEF Turn
<1>4. count[p] = Less(entered.count[p], IF p > 0 THEN Cardinality(Passed(p)) ELSE 0)
    BY DEF DfsInv, LossInv
<1>5. /\ Cardinality(Passed(p)) \in Nat
      /\ Cardinality(Passed(p)') = IF Producer = p THEN Cardinality(Passed(p)) + 1
                                                   ELSE Cardinality(Passed(p))
    BY PassedTurn
<1>6. CASE p > 0 /\ Producer = p
    <2>1. /\ count'[p] = IF count[p] > 0 THEN count[p] - 1 ELSE count[p]
          /\ count[p] = Less(entered.count[p], Cardinality(Passed(p)))
          /\ Cardinality(Passed(p)') = Cardinality(Passed(p)) + 1
        BY <1>3, <1>4, <1>5, <1>6
    <2>2. count'[p] = Less(entered.count[p], Cardinality(Passed(p)) + 1)
        BY <1>2, <1>5, <2>1 DEF Less
    <2> QED
        BY <1>6, <2>1, <2>2
<1>7. CASE ~(p > 0 /\ Producer = p)
    BY <1>3, <1>4, <1>5, <1>7
<1> QED
    BY <1>6, <1>7

LEMMA TurnStackInv ==
    ASSUME DfsInv, Turn
    PROVE  DfsTypeOK' /\ StackInv'
<1>1. /\ Advanced \in Seq(Frame) /\ Len(Advanced) = Len(calls) /\ Len(calls) \in Nat
      /\ \A n \in 1 .. Len(calls) : Advanced[n].of = calls[n].of
    BY AdvancedFacts, LookedFacts, TopFacts DEF Turn
<1>2. /\ \A n \in 1 .. Len(calls) : calls[n].of \in Called
      /\ \A m, n \in 1 .. Len(calls) : calls[m].of = calls[n].of => m = n
    BY DEF DfsInv, StackInv
<1>3. entered' \in Windows /\ count' \in [Slots -> Nat]
    BY SetsFinite DEF Turn, DfsInv, DfsTypeOK
<1>4. CASE Callees = {} /\ calls' = Advanced
    <2>1. calls' \in Seq(Frame)
        BY <1>1, <1>4
    <2>2. StackInv'
        BY <1>1, <1>2, <1>4, CallTurn DEF StackInv
    <2> QED
        BY <1>3, <2>1, <2>2 DEF DfsTypeOK
<1>5. ASSUME NEW p \in Slots, Callees = {p},
             calls' = Append(Advanced, [of |-> p, i |-> 1])
      PROVE  DfsTypeOK' /\ StackInv'
    <2>1. [of |-> p, i |-> 1] \in Frame
        BY DEF Frame
    <2>2. /\ calls' \in Seq(Frame) /\ Len(calls') = Len(calls) + 1
          /\ \A n \in 1 .. Len(calls) : calls'[n] = Advanced[n]
          /\ calls'[Len(calls) + 1] = [of |-> p, i |-> 1]
        <3> HIDE DEF Advanced
        <3> QED
            BY <1>1, <1>5, <2>1
    <2>3. /\ \A n \in 1 .. Len(calls) : calls'[n].of = calls[n].of
          /\ calls'[Len(calls) + 1].of = p
        BY <1>1, <2>2
    <2>4. p \notin Called /\ Called' = Called \cup {p}
        BY <1>5, CallTurn
    <2>5. \A n \in 1 .. Len(calls') : n \in 1 .. Len(calls) \/ n = Len(calls) + 1
        BY <1>1, <2>2
    <2>6. \A n \in 1 .. Len(calls') : calls'[n].of \in Called'
        BY <1>2, <2>3, <2>4, <2>5
    <2>7. \A m, n \in 1 .. Len(calls') : calls'[m].of = calls'[n].of => m = n
        BY <1>2, <2>3, <2>4, <2>5
    <2> QED
        BY <1>3, <2>2, <2>6, <2>7 DEF DfsTypeOK, StackInv
<1> QED
    BY <1>4, <1>5 DEF Turn

(* A further call is for an entry of every closed set: all that it has     *)
(* lost was lost to entries of that set.                                   *)
LEMMA TurnLeastInv ==
    ASSUME DfsInv, Turn
    PROVE  LeastInv'
<1>1. /\ entered' = entered /\ entered \in Windows
      /\ \A p \in Slots : p \in Nat /\ entered.count[p] \in Nat
    BY WindowsAssumption, SetsFinite DEF Turn, DfsInv, DfsTypeOK, Window
<1>2. SUFFICES ASSUME NEW F \in SUBSET Slots,
                      Closed(entered.count, entered.src, entered.live, entered.ps, F)
               PROVE  Called' \ {Caller} \subseteq F
    BY <1>1 DEF LeastInv, Closed, PassesOn
<1>3. Called \ {Caller} \subseteq F
    BY <1>2 DEF DfsInv, LeastInv
<1>4. ASSUME NEW p \in Callees
      PROVE  p \in F
    <2>1. p \in Slots /\ p > 0 /\ p = Producer /\ count[p] = 1 /\ p \notin entered.live
        BY <1>4 DEF Callees, Recurses
    <2>2. PICK E : E = {e \in ({Caller} \cup F) \X (1..3) : Producers(e[1])[e[2]] = p}
        OBVIOUS
    <2>3. /\ IsFiniteSet(E) /\ Cardinality(E) \in Nat
          /\ Losses(entered.src, entered.ps, F, p) = Cardinality(E)
        BY <1>1, <2>1, <2>2, LossesAreOperands
    <2>4. Looked \in Called \X (1..3) /\ Producers(Looked[1])[Looked[2]] = p
        BY <2>1, LookedFacts, TopFacts DEF Turn, Looked
    <2>5. Passed(p)' \subseteq E
        <3>1. Called \X (1..3) \subseteq ({Caller} \cup F) \X (1..3)
            BY <1>3
        <3>2. Passed(p)' = Passed(p) \cup {Looked}
            BY <2>1, PassedTurn
        <3>3. Passed(p) \subseteq E
            BY <2>2, <3>1 DEF Passed
        <3>4. Looked \in E
            BY <2>2, <2>4, <3>1
        <3> QED
            BY <3>2, <3>3, <3>4
    <2>6. /\ Cardinality(Passed(p)') \in Nat /\ Cardinality(Passed(p)) \in Nat
          /\ Cardinality(Passed(p)') = Cardinality(Passed(p)) + 1
          /\ Cardinality(Passed(p)') <= Cardinality(E)
        BY <2>1, <2>3, <2>5, PassedTurn, FS_Subset
    <2>7. count[p] = Less(entered.count[p], Cardinality(Passed(p)))
        BY <2>1 DEF DfsInv, LossInv
    <2>8. entered.count[p] >= 1 /\ Cardinality(E) >= entered.count[p]
        BY <1>1, <2>1, <2>3, <2>6, <2>7 DEF Less
    <2>9. PassesOn(entered.count, entered.src, entered.live, entered.ps, F, p)
        BY <2>1, <2>3, <2>8 DEF PassesOn
    <2> QED
        BY <1>2, <2>1, <2>9 DEF Closed
<1> QED
    BY <1>3, <1>4, CallTurn

(* A return, and the detector going on, change nothing that is counted.    *)
LEMMA ReturnStep ==
    ASSUME DfsInv, Return
    PROVE  DfsInv' /\ Pending' = Pending /\ Called' = Called /\ Len(calls') = Len(calls) - 1
<1>1. /\ entered' = entered /\ count' = count /\ calls # <<>>
      /\ calls' = SubSeq(calls, 1, Len(calls) - 1) /\ calls \in Seq(Frame)
    BY DEF Return, DfsInv, DfsTypeOK
<1>2. Len(calls) \in Nat /\ Len(calls) >= 1
    BY <1>1
<1>3. /\ calls' \in Seq(Frame) /\ Len(calls') = Len(calls) - 1
      /\ \A n \in 1 .. Len(calls) - 1 : calls'[n] = calls[n]
    <2>1. PICK m \in Nat : m = Len(calls) - 1
        BY <1>2
    <2>2. \A n \in 1 .. m : calls[n] \in Frame
        BY <1>1, <1>2, <2>1
    <2>3. 1 \in Int /\ m \in Int
        BY <2>1
    <2>4. /\ SubSeq(calls, 1, m) \in Seq(Frame)
          /\ Len(SubSeq(calls, 1, m)) = IF 1 <= m THEN m - 1 + 1 ELSE 0
          /\ \A n \in 1 .. m - 1 + 1 : SubSeq(calls, 1, m)[n] = calls[1 + n - 1]
        BY <2>2, <2>3, SubSeqProperties
    <2>5. m - 1 + 1 = m /\ \A n \in 1 .. m : 1 + n - 1 = n
        BY <2>3
    <2> QED
        BY <1>1, <2>1, <2>4, <2>5
<1>4. Called' = Called
    BY <1>1 DEF Called
<1>5. StackInv'
    <2>1. \A n \in 1 .. Len(calls') : n \in 1 .. Len(calls)
        BY <1>2, <1>3
    <2>2. \A n \in 1 .. Len(calls') : calls'[n].of \in Called'
        BY <1>3, <1>4, <2>1 DEF DfsInv, StackInv
    <2>3. \A m, n \in 1 .. Len(calls') : calls'[m].of = calls'[n].of => m = n
        BY <1>3, <2>1 DEF DfsInv, StackInv
    <2> QED
        BY <2>2, <2>3 DEF StackInv
<1>6. Pending' = Pending
    <2>1. ASSUME NEW e \in Operand, NEW n \in 1 .. Len(calls), calls[n].i <= e[2]
          PROVE  n \in 1 .. Len(calls) - 1
        <3>1. e[2] \in 1..3
            BY DEF Operand
        <3>2. calls[Len(calls)].i > 3 /\ calls[Len(calls)].i \in 1..4
            BY <1>1, TopFacts DEF Return, Top
        <3> QED
            BY <1>2, <2>1, <3>1, <3>2
    <2>2. DOMAIN calls = 1 .. Len(calls) /\ DOMAIN calls' = 1 .. Len(calls) - 1
        BY <1>1, <1>3
    <2>3. \A n \in 1 .. Len(calls) - 1 : n \in 1 .. Len(calls)
        BY <1>2
    <2>4. \A e \in Operand : (\E n \in DOMAIN calls' : calls'[n].of = e[1] /\ calls'[n].i <= e[2])
                          <=> \E n \in DOMAIN calls : calls[n].of = e[1] /\ calls[n].i <= e[2]
        BY <1>3, <2>1, <2>2, <2>3
    <2> QED
        BY <2>4 DEF Pending, Operand
<1>7. LossInv'
    <2>1. \A p : Passed(p)' = Passed(p)
        BY <1>1, <1>4, <1>6 DEF Passed, Producers
    <2> QED
        BY <1>1, <2>1 DEF DfsInv, LossInv
<1>8. LeastInv'
    BY <1>1, <1>4 DEF DfsInv, LeastInv
<1> QED
    BY <1>1, <1>3, <1>4, <1>5, <1>6, <1>7, <1>8 DEF DfsInv, DfsTypeOK

LEMMA SameStep ==
    ASSUME DfsInv, UNCHANGED dvars
    PROVE  DfsInv'
BY DEF dvars, DfsInv, DfsTypeOK, StackInv, LossInv, LeastInv, Called, Passed, Pending,
       Producers

LEMMA InitDfsInv ==
    ASSUME DfsInit
    PROVE  DfsInv
<1>1. /\ entered \in Windows /\ count = entered.count /\ calls = <<[of |-> Caller, i |-> 1]>>
      /\ entered.count \in [Slots -> Nat]
    BY WindowsAssumption DEF DfsInit, Window
<1>2. Called = {Caller}
    BY <1>1 DEF Called
<1>3. [of |-> Caller, i |-> 1] \in Frame
    BY DEF Frame
<1>4. DfsTypeOK /\ StackInv
    BY <1>1, <1>2, <1>3 DEF DfsTypeOK, StackInv
<1>5. \A p : Passed(p) = {}
    <2>1. DOMAIN calls = {1} /\ calls[1].of = Caller /\ calls[1].i = 1
        BY <1>1
    <2>2. {Caller} \X (1..3) \subseteq Pending
        BY <2>1 DEF Pending
    <2> QED
        BY <1>2, <2>2 DEF Passed
<1>6. LossInv
    <2>1. Cardinality({}) = 0
        BY FS_EmptySet
    <2>2. ASSUME NEW p \in Slots
          PROVE  count[p] = Less(entered.count[p], IF p > 0 THEN Cardinality(Passed(p)) ELSE 0)
        <3>1. (IF p > 0 THEN Cardinality(Passed(p)) ELSE 0) = 0
            BY <1>5, <2>1
        <3>2. count[p] = entered.count[p] /\ count[p] \in Nat
            BY <1>1
        <3> QED
            BY <3>1, <3>2 DEF Less
    <2> QED
        BY <2>2 DEF LossInv
<1>7. LeastInv
    BY <1>2 DEF LeastInv
<1> QED
    BY <1>4, <1>6, <1>7 DEF DfsInv

(* The invariant the two theorems rest on. *)
THEOREM DfsInvariant == DfsSpec => []DfsInv
<1>1. DfsInit => DfsInv
    BY InitDfsInv
<1>2. DfsInv /\ [DfsNext]_dvars => DfsInv'
    <2>1. ASSUME DfsInv, Skip \/ Lower \/ Drain
          PROVE  DfsInv'
        BY <2>1, StepsAreTurns, TurnStackInv, TurnLossInv, TurnLeastInv DEF DfsInv
    <2> QED
        BY <2>1, ReturnStep, SameStep DEF DfsNext, Ended
<1> QED
    BY <1>1, <1>2, PTL DEF DfsSpec

-----------------------------------------------------------------------------
(* When the first call is over every operand of the entries called is      *)
(* passed, and these entries are the least closed set.                     *)
LEMMA EndOfVisit ==
    ASSUME DfsInv, calls = <<>>
    PROVE  count = Decrement(entered.count, entered.src, entered.live, entered.ps)
<1>1. /\ entered \in Windows /\ count \in [Slots -> Nat] /\ Caller \notin Slots
      /\ \A p \in Slots : entered.count[p] \in Nat /\ p \in Nat
    BY WindowsAssumption, CallerAssumption, SetsFinite DEF DfsInv, DfsTypeOK, Window
<1>2. PICK F \in SUBSET Slots : F = Called \ {Caller}
    BY CalledSubset
<1>3. {Caller} \cup F = Called
    BY <1>2, CalledSubset
<1>4. ASSUME NEW p \in Slots
      PROVE  /\ Losses(entered.src, entered.ps, F, p) \in Nat
             /\ count[p] = Less(entered.count[p], Losses(entered.src, entered.ps, F, p))
    <2>1. count[p] = Less(entered.count[p], IF p > 0 THEN Cardinality(Passed(p)) ELSE 0)
        BY DEF DfsInv, LossInv
    <2>2. CASE p > 0
        <3>1. PICK E : E = {e \in ({Caller} \cup F) \X (1..3) : Producers(e[1])[e[2]] = p}
            OBVIOUS
        <3>2. Pending = {}
            <4>1. DOMAIN calls = {}
                OBVIOUS
            <4> QED
                BY <4>1 DEF Pending
        <3>3. Passed(p) = E
            BY <1>3, <3>1, <3>2 DEF Passed
        <3>4. /\ Cardinality(E) \in Nat
              /\ Losses(entered.src, entered.ps, F, p) = Cardinality(E)
            BY <1>1, <2>2, <3>1, LossesAreOperands
        <3>5. count[p] = Less(entered.count[p], Cardinality(E))
            BY <2>1, <2>2, <3>3
        <3> QED
            BY <3>4, <3>5
    <2>3. CASE ~(p > 0)
        BY <2>1, <2>3 DEF Losses
    <2> QED
        BY <2>2, <2>3
<1>5. Closed(entered.count, entered.src, entered.live, entered.ps, F)
    <2>1. ASSUME NEW p \in Slots, PassesOn(entered.count, entered.src, entered.live, entered.ps, F, p)
          PROVE  p \in F
        <3>1. /\ entered.count[p] >= 1 /\ p \notin entered.live
              /\ Losses(entered.src, entered.ps, F, p) >= entered.count[p]
            BY <2>1 DEF PassesOn
        <3>2. count[p] = 0
            BY <1>4, <3>1 DEF Less
        <3>3. p \in Called
            BY <1>1, <3>1, <3>2 DEF Called
        <3> QED
            BY <1>1, <1>2, <3>3
    <2> QED
        BY <2>1 DEF Closed
<1>6. \A G \in SUBSET Slots :
          Closed(entered.count, entered.src, entered.live, entered.ps, G) => F \subseteq G
    BY <1>2 DEF DfsInv, LeastInv
<1>7. Exhausted(entered.count, entered.src, entered.live, entered.ps) = F
    BY <1>5, <1>6 DEF Exhausted
<1>8. Decrement(entered.count, entered.src, entered.live, entered.ps)
        = [p \in Slots |-> IF Losses(entered.src, entered.ps, F, p) >= entered.count[p]
                           THEN 0
                           ELSE entered.count[p] - Losses(entered.src, entered.ps, F, p)]
    BY <1>7 DEF Decrement
<1> QED
    BY <1>1, <1>4, <1>8 DEF Less

(* The depth-first recursion of _decrement_consumer leaves the counts of   *)
(* the least fixed point, whatever the window and the producers it is      *)
(* called with: repeated operands and cycles of source indices included.   *)
THEOREM RecursionCorrect == DfsSpec => []VisitIsFixedPoint
<1>1. DfsInv => VisitIsFixedPoint
    BY EndOfVisit DEF VisitIsFixedPoint
<1> QED
    BY <1>1, DfsInvariant, PTL

-----------------------------------------------------------------------------
(* The end of the recursion.                                               *)

(* Each call in progress is for an entry of its own, and none for slot 0.  *)
LEMMA FewCalls ==
    ASSUME DfsInv
    PROVE  Len(calls) <= W
<1> DEFINE T == (Slots \ {0}) \cup {Caller}
           f == [n \in 1 .. Len(calls) |-> calls[n].of]
<1>1. Len(calls) \in Nat
    BY DEF DfsInv, DfsTypeOK
<1>2. 0 \notin Called
    <2>1. 0 \in Slots
        BY WAssumption DEF Slots
    <2>2. count[0] = Less(entered.count[0], 0)
        BY <2>1 DEF DfsInv, LossInv
    <2>3. entered.count[0] \in Nat
        BY <2>1, WindowsAssumption DEF DfsInv, DfsTypeOK, Window
    <2>4. count[0] = entered.count[0]
        BY <2>2, <2>3 DEF Less
    <2> QED
        BY <2>1, <2>3, <2>4, CallerAssumption DEF Called
<1>3. IsFiniteSet(T) /\ Cardinality(T) = W
    <2>1. 0 \in Int /\ W - 1 \in Int
        BY WAssumption
    <2>2. Cardinality(0 .. W-1) = IF 0 > W - 1 THEN 0 ELSE (W - 1) - 0 + 1
        BY <2>1, FS_Interval
    <2>3. 0 \in Slots /\ Cardinality(Slots) = W
        BY <2>2, WAssumption DEF Slots
    <2>4. IsFiniteSet(Slots \ {0}) /\ Cardinality(Slots \ {0}) = W - 1
        BY <2>3, SetsFinite, FS_RemoveElement
    <2>5. Caller \notin Slots \ {0}
        BY CallerAssumption
    <2>6. IsFiniteSet(T) /\ Cardinality(T) = (W - 1) + 1
        BY <2>4, <2>5, FS_AddElement
    <2> QED
        BY <2>6, WAssumption
<1>4. f \in Injection(1 .. Len(calls), T)
    <2>1. f \in [1 .. Len(calls) -> T]
        BY <1>2, CalledSubset DEF DfsInv, StackInv
    <2>2. \A m, n \in 1 .. Len(calls) : f[m] = f[n] => m = n
        BY DEF DfsInv, StackInv
    <2> QED
        BY <2>1, <2>2 DEF Injection, IsInjective
<1> HIDE DEF f, T
<1>5. Cardinality(1 .. Len(calls)) <= Cardinality(T)
    BY <1>3, <1>4, FS_Injection
<1>6. Cardinality(1 .. Len(calls)) = Len(calls)
    <2>1. 1 \in Int /\ Len(calls) \in Int
        BY <1>1
    <2>2. Cardinality(1 .. Len(calls)) = IF 1 > Len(calls) THEN 0 ELSE Len(calls) - 1 + 1
        BY <2>1, FS_Interval
    <2> QED
        BY <1>1, <2>2
<1> QED
    BY <1>3, <1>5, <1>6

Consumed == {p \in Slots : count[p] > 0}

LEMMA ConsumedFinite == IsFiniteSet(Consumed) /\ Cardinality(Consumed) \in Nat
BY SetsFinite, FS_Subset, FS_CardinalityType DEF Consumed

(* A turn gives up one operand; a further call adds three, and the entry   *)
(* it is for had a consumer before.                                        *)
LEMMA TurnShrinks ==
    ASSUME DfsInv, Turn
    PROVE  Work' < Work
<1>1. /\ Len(calls) \in Nat /\ Len(Advanced) = Len(calls) /\ Advanced \in Seq(Frame)
      /\ Looked \in Pending
    BY TopFacts, AdvancedFacts, LookedFacts DEF Turn
<1>2. /\ IsFiniteSet(Pending) /\ Cardinality(Pending) \in Nat
      /\ IsFiniteSet(Consumed) /\ Cardinality(Consumed) \in Nat
    BY OperandsFinite, ConsumedFinite
<1>3. PICK P : P = Pending \ {Looked}
    OBVIOUS
<1>4. IsFiniteSet(P) /\ Cardinality(P) = Cardinality(Pending) - 1
    BY <1>1, <1>2, <1>3, FS_RemoveElement
<1>5. Work = 4 * Cardinality(Consumed) + Cardinality(Pending) + Len(calls)
    BY DEF Work, Consumed
<1>6. Work' = 4 * Cardinality(Consumed') + Cardinality(Pending') + Len(calls')
    BY DEF Work, Consumed
<1>7. \A p \in Slots : count[p] \in Nat /\ p \in Nat
    BY SetsFinite DEF DfsInv, DfsTypeOK
<1>8. \A p \in Slots : count'[p] = IF p = Producer /\ p > 0 /\ count[p] > 0
                                  THEN count[p] - 1 ELSE count[p]
    BY DEF Turn
<1>9. CASE Callees = {} /\ calls' = Advanced
    <2>1. Pending' = P
        BY <1>3, <1>9, CallTurn
    <2>2. Consumed' \subseteq Consumed
        BY <1>7, <1>8 DEF Consumed
    <2>3. Cardinality(Consumed') <= Cardinality(Consumed) /\ Cardinality(Consumed') \in Nat
        BY <1>2, <2>2, FS_Subset, FS_CardinalityType
    <2>4. Len(calls') = Len(calls)
        BY <1>1, <1>9
    <2> QED
        BY <1>1, <1>2, <1>4, <1>5, <1>6, <2>1, <2>3, <2>4
<1>10. ASSUME NEW p \in Slots, Callees = {p},
              calls' = Append(Advanced, [of |-> p, i |-> 1])
       PROVE  Work' < Work
    <2>1. p = Producer /\ p > 0 /\ count[p] = 1
        BY <1>10 DEF Callees
    <2>2. Consumed' = Consumed \ {p} /\ p \in Consumed
        BY <1>7, <1>8, <2>1 DEF Consumed
    <2>3. Cardinality(Consumed') = Cardinality(Consumed) - 1
        BY <1>2, <2>2, FS_RemoveElement
    <2>4. PICK M : M = {p} \X (1..3)
        OBVIOUS
    <2>5. IsFiniteSet(M) /\ Cardinality(M) = 3
        <3>1. 1 \in Int /\ 3 \in Int
            OBVIOUS
        <3>2. IsFiniteSet(1..3) /\ Cardinality(1..3) = IF 1 > 3 THEN 0 ELSE 3 - 1 + 1
            BY <3>1, FS_Interval
        <3>3. IsFiniteSet({p}) /\ Cardinality({p}) = 1
            BY FS_Singleton
        <3>4. IsFiniteSet(M) /\ Cardinality(M) = 1 * Cardinality(1..3)
            BY <2>4, <3>2, <3>3, FS_Product
        <3> QED
            BY <3>2, <3>4
    <2>6. Pending' = P \cup M /\ P \cap M = {}
        BY <1>3, <1>10, <2>4, CallTurn
    <2>7. Cardinality(P \cap M) = 0
        BY <2>6, FS_EmptySet
    <2>8. Cardinality(P \cup M) = Cardinality(P) + Cardinality(M) - Cardinality(P \cap M)
        BY <1>4, <2>5, FS_Union
    <2>9. Len(calls') = Len(calls) + 1
        BY <1>1, <1>10
    <2> QED
        BY <1>1, <1>2, <1>4, <1>5, <1>6, <2>3, <2>5, <2>6, <2>7, <2>8, <2>9
<1> QED
    BY <1>9, <1>10 DEF Turn

LEMMA ReturnShrinks ==
    ASSUME DfsInv, Return
    PROVE  Work' < Work
<1>1. Pending' = Pending /\ Len(calls') = Len(calls) - 1 /\ count' = count
    BY ReturnStep DEF Return
<1>2. Len(calls) \in Nat
    BY TopFacts DEF Return
<1>3. Work = 4 * Cardinality(Consumed) + Cardinality(Pending) + Len(calls)
    BY DEF Work, Consumed
<1>4. Work' = 4 * Cardinality(Consumed) + Cardinality(Pending) + (Len(calls) - 1)
    BY <1>1 DEF Work, Consumed
<1> QED
    BY <1>2, <1>3, <1>4, OperandsFinite, ConsumedFinite

(* The recursion ends after at most as many steps as Work bounds, and no   *)
(* more than W calls are in progress at any time, cyclic windows included. *)
THEOREM RecursionEnds == DfsSpec => EveryStepShrinks
<1> DEFINE Few == Len(calls) <= W
<1>1. DfsInv => Few
    BY FewCalls
<1>2. DfsInv /\ Few' /\ [DfsNext]_dvars => [Work' < Work /\ Len(calls') <= W]_dvars
    BY StepsAreTurns, TurnShrinks, ReturnShrinks DEF DfsNext, Ended
<1> HIDE DEF Few
<1> QED
    BY <1>1, <1>2, DfsInvariant, PTL DEF DfsSpec, EveryStepShrinks

=============================================================================
