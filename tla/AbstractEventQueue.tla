-------------------------- MODULE AbstractEventQueue --------------------------
(***************************************************************************)
(* What eventq.h promises of the event queue, with no list: a set of       *)
(* events, each of which leaves it once, executed, removed or serviced "in *)
(* order of occurrance until and at NOW", and of which no more wait than   *)
(* eventq_init allows.                                                     *)
(***************************************************************************)
EXTENDS Integers, FiniteSets

CONSTANTS Event, NoEvent, Times, NoTime, max_events, Effect(_, _)

VARIABLES
    given,       \* the ids given out
    waiting,
    served,      \* the event being served, or NoEvent
    executing,   \* the events whose callback eventq_execute runs
    serving,
    word

avars == <<given, waiting, served, executing, serving, word>>

AInit ==
    /\ given = {} /\ waiting = {} /\ executing = {}
    /\ served = NoEvent /\ serving = NoTime
    /\ word = 0

AQueue(e) ==
    /\ max_events = 0 \/ Cardinality(waiting) < max_events
    /\ e.id \notin given
    /\ given' = given \cup {e.id}
    /\ waiting' = waiting \cup {e}
    /\ UNCHANGED <<served, executing, serving, word>>

Leaves(e) ==
    /\ e \in waiting
    /\ waiting' = waiting \ {e}
    /\ UNCHANGED given

ARemove(e) == Leaves(e) /\ UNCHANGED <<served, executing, serving, word>>

AExecute(e) ==
    /\ Leaves(e)
    /\ IF e.action.kind = "callback"
       THEN executing' = executing \cup {e} /\ UNCHANGED word
       ELSE word' = Effect(e.action, word) /\ UNCHANGED executing
    /\ UNCHANGED <<served, serving>>

AExecuted(e) ==
    /\ e \in executing
    /\ executing' = executing \ {e}
    /\ UNCHANGED <<given, waiting, served, serving, word>>

AServiceEvents(now) ==
    /\ serving = NoTime
    /\ serving' = now
    /\ UNCHANGED <<given, waiting, served, executing, word>>

(* The earliest event that is due; of several, the one queued last. *)
AServe(e) ==
    /\ serving # NoTime /\ served = NoEvent /\ e.when <= serving
    /\ \A f \in waiting :
          e.when < f.when \/ (e.when = f.when /\ f.id <= e.id)
    /\ Leaves(e)
    /\ IF e.action.kind = "callback"
       THEN served' = e /\ UNCHANGED word
       ELSE word' = Effect(e.action, word) /\ UNCHANGED served
    /\ UNCHANGED <<executing, serving>>

AServed ==
    /\ served # NoEvent
    /\ served' = NoEvent
    /\ UNCHANGED <<given, waiting, executing, serving, word>>

(* Nothing is left that was due. *)
AServiceReturns ==
    /\ serving # NoTime /\ served = NoEvent
    /\ \A e \in waiting : e.when > serving
    /\ serving' = NoTime
    /\ UNCHANGED <<given, waiting, served, executing, word>>

ANext ==
    \/ \E e \in Event :
          AQueue(e) \/ ARemove(e) \/ AExecute(e) \/ AExecuted(e) \/ AServe(e)
    \/ \E now \in Times : AServiceEvents(now)
    \/ AServed
    \/ AServiceReturns

ASpec == AInit /\ [][ANext]_avars

=============================================================================
