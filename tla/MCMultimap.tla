------------------------------ MODULE MCMultimap ------------------------------
(***************************************************************************)
(* A few calls on a small map.  An instance says which threads make them,  *)
(* with which keys, and how many they are; the map starts with a few       *)
(* elements, as Add leaves it after so many calls one after the other.     *)
(***************************************************************************)
EXTENDS MultimapHistory, Sequences

CONSTANTS k1, k2, t1, t2, t3

VARIABLES instance, calls

mcvars == <<mhvars, instance, calls>>

MCKeys == {k1, k2}
MCThreads == {t1, t2, t3}

Instances == {[threads |-> {t1, t2}, keys |-> {k1, k2}, elements |-> <<k1, k2>>],
              [threads |-> {t1, t2}, keys |-> {k1}, elements |-> <<k1, k1>>],
              [threads |-> {t1, t2, t3}, keys |-> {k1}, elements |-> <<>>]}

MCCalls == {c \in LegalCalls : c.keys # {} /\ (c.op # "ForEach" => c.keys \subseteq instance.keys)}

(* The elements of list in the first entries. *)
Filled(list) == [s \in Slots |-> IF s < Len(list) THEN list[s + 1] ELSE KeyAvailable]

MCInit ==
    /\ instance \in Instances
    /\ calls = 0
    /\ map = Filled(instance.elements) /\ objects = Filled(instance.elements)
    /\ highWaterMark = Len(instance.elements)
    /\ freeLocationHint = Len(instance.elements)
    /\ pc = [t \in Threads |-> "idle"]
    /\ call = [t \in Threads |-> [op |-> "FindIf", keys |-> {}]]
    /\ i = [t \in Threads |-> 0]
    /\ highWater = [t \in Threads |-> 0]
    /\ key = [t \in Threads |-> KeyAvailable]
    /\ index = [t \in Threads |-> 0]
    /\ kept = [t \in Threads |-> {}]
    /\ visited = [t \in Threads |-> {}]

MCNext ==
    \/ /\ calls < 3
       /\ \E t \in instance.threads, c \in MCCalls : MHBegin(t, c)
       /\ calls' = calls + 1 /\ UNCHANGED instance
    \/ \E t \in Threads : MHStep(t) /\ UNCHANGED <<instance, calls>>

MCSpec ==
    /\ MCInit
    /\ [][MCNext]_mcvars
    /\ \A t \in Threads : WF_mcvars(MHStep(t) /\ UNCHANGED <<instance, calls>>)

(* No call goes on for ever, however the swaps of others make its own fail *)
(* (there are three calls).                                                *)
EveryCallReturns == \A t \in Threads : pc[t] # "idle" ~> pc[t] = "idle"

=============================================================================
