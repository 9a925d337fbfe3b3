----------------------------- MODULE IrDecrement -----------------------------
(***************************************************************************)
(* _decrement_consumer of simplescalar-a1/ir_detector.cpp: when an         *)
(* instruction in the window turns out to be ineffectual, each of its      *)
(* producers loses one consumer, and a producer whose last consumer goes   *)
(* and which no rename-table entry names any more passes the loss on to    *)
(* its own producers.                                                      *)
(*                                                                         *)
(* The code is a depth-first recursion over the source indices.  The       *)
(* order of the visits does not change the outcome, so the cascade is      *)
(* given here as a least fixed point; IrDecrementDfs has the recursion     *)
(* itself, and IrDecrementDfsProofs proves that the two agree.             *)
(*                                                                         *)
(* count  [Slots -> Nat]  consumer_count of each window entry              *)
(* src    [Slots -> Srcs] src_idx1, src_idx2, src_idx3 of each entry       *)
(* live   subset of Slots the entries the rename tables still name         *)
(* ps     Srcs            the producers of the ineffectual instruction     *)
(***************************************************************************)
EXTENDS Integers, FiniteSets

CONSTANT W    \* the window size, instr_window.size()

ASSUME WAssumption == W \in Nat \ {0}

Slots == 0 .. W-1

(* -1 stands for "no operand". *)
Srcs == [1..3 -> Slots \cup {-1}]

(* What _decrement_consumer is called on. *)
Window == [count : [Slots -> Nat], src : [Slots -> Srcs], live : SUBSET Slots, ps : Srcs]

(* How often the list ps names slot p. *)
Mentions(ps, p) == Cardinality({k \in 1..3 : ps[k] = p})

(* A slip of the slot test: off by one. *)
LossesFromTwo(src, ps, F, p) ==
    IF p > 1
    THEN Mentions(ps, p)
           + Cardinality({e \in F \X (1..3) : src[e[1]][e[2]] = p})
    ELSE 0

(* The consumers p loses once every entry of F has passed its loss on.     *)
(* The test "p_indices[i] > 0" leaves slot 0 out.                          *)
Losses(src, ps, F, p) ==
    IF p > 0
    THEN Mentions(ps, p)
           + Cardinality({e \in F \X (1..3) : src[e[1]][e[2]] = p})
    ELSE 0

(* Entry p passes its loss on: its last consumer goes, and it is not the   *)
(* current producer of any location.                                       *)
PassesOn(count, src, live, ps, F, p) ==
    /\ count[p] >= 1
    /\ Losses(src, ps, F, p) >= count[p]
    /\ p \notin live

Closed(count, src, live, ps, F) ==
    \A p \in Slots : PassesOn(count, src, live, ps, F, p) => p \in F

(* The least set of entries that pass their loss on. *)
Exhausted(count, src, live, ps) ==
    {p \in Slots : \A F \in SUBSET Slots :
                       Closed(count, src, live, ps, F) => p \in F}

(* The consumer counts after _decrement_consumer(ps); a count of zero      *)
(* stays zero.                                                             *)
Decrement(count, src, live, ps) ==
    LET F == Exhausted(count, src, live, ps)
    IN  [p \in Slots |->
            IF Losses(src, ps, F, p) >= count[p]
            THEN 0
            ELSE count[p] - Losses(src, ps, F, p)]

=============================================================================
