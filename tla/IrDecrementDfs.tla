---------------------------- MODULE IrDecrementDfs ----------------------------
(***************************************************************************)
(* _decrement_consumer as the code writes it: a loop over three source     *)
(* indices that calls itself, and changes the counts on the way.  The      *)
(* calls in progress are a stack of frames; a frame names the entry whose  *)
(* producers the call was given and the index its loop has come to.  What  *)
(* the detector calls it on is chosen in the initial state: what holds     *)
(* here holds of every call, and shows that the recursion leaves the least *)
(* fixed point that IrDetector has in its place.                           *)
(***************************************************************************)
EXTENDS IrDecrement, Sequences

CONSTANTS Windows,  \* the windows and the lists it is called on
          Caller    \* the detector itself, in place of an entry

ASSUME WindowsAssumption == Windows \subseteq Window
ASSUME CallerAssumption == Caller \notin Slots

VARIABLES
    entered, \* the window when the detector made the call (see IrDecrement)
    count,   \* the counts now; nothing else in the window changes
    calls    \* the calls in progress, the innermost last

dvars == <<entered, count, calls>>

Frame == [of : Slots \cup {Caller}, i : 1..4]

DfsInit ==
    /\ entered \in Windows
    /\ count = entered.count
    /\ calls = <<[of |-> Caller, i |-> 1]>>

Top == calls[Len(calls)]

Producers(q) == IF q = Caller THEN entered.ps ELSE entered.src[q]

(* p_indices[i] of the innermost call. *)
Producer == Producers(Top.of)[Top.i]

InLoop == calls # <<>> /\ Top.i <= 3

Advanced == [calls EXCEPT ![Len(calls)].i = @ + 1]

Skip ==
    /\ InLoop
    /\ ~(Producer > 0 /\ count[Producer] > 0)
    /\ calls' = Advanced
    /\ UNCHANGED <<entered, count>>

Lower ==
    /\ InLoop
    /\ Producer > 0 /\ count[Producer] > 1
    /\ count' = [count EXCEPT ![Producer] = @ - 1]
    /\ calls' = Advanced
    /\ UNCHANGED entered

(* The count left to be cleared after the call. *)
NotYetDrained(p) == count

Drained(p) == [count EXCEPT ![p] = 0]

(* Entries a rename table still names followed too. *)
RecursesAlways(p) == TRUE

Recurses(p) == p \notin entered.live

Drain ==
    /\ InLoop
    /\ Producer > 0 /\ count[Producer] = 1
    /\ count' = Drained(Producer)
    /\ calls' = IF Recurses(Producer)
                THEN Append(Advanced, [of |-> Producer, i |-> 1])
                ELSE Advanced
    /\ UNCHANGED entered

Return ==
    /\ calls # <<>> /\ Top.i > 3
    /\ calls' = SubSeq(calls, 1, Len(calls) - 1)
    /\ UNCHANGED <<entered, count>>

(* The detector goes on. *)
Ended == calls = <<>> /\ UNCHANGED dvars

DfsNext == Skip \/ Lower \/ Drain \/ Return \/ Ended

DfsSpec == DfsInit /\ [][DfsNext]_dvars

-----------------------------------------------------------------------------
(* The recursion and the fixed point agree on every window, cyclic ones    *)
(* and repeated operands included: the order in which the code visits the  *)
(* producers cannot be seen in the counts it leaves.                       *)
VisitIsFixedPoint ==
    calls = <<>> =>
        count = Decrement(entered.count, entered.src, entered.live, entered.ps)

(* The operands the loops in progress have still to look at. *)
Pending ==
    {e \in (Slots \cup {Caller}) \X (1..3) :
        \E n \in DOMAIN calls : calls[n].of = e[1] /\ calls[n].i <= e[2]}

Work == 4 * Cardinality({p \in Slots : count[p] > 0})
          + Cardinality(Pending) + Len(calls)

(* The recursion ends, though source indices may form a cycle, and is      *)
(* never more than W calls deep: each turn of a loop and each return uses  *)
(* up some of a supply, and a further call must be paid for with the last  *)
(* consumer of an entry.                                                   *)
EveryStepShrinks == [][Work' < Work /\ Len(calls') <= W]_dvars

=============================================================================
