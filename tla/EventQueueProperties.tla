------------------------- MODULE EventQueueProperties -------------------------
(***************************************************************************)
(* What the event queue guarantees.                                        *)
(***************************************************************************)
EXTENDS EventQueue

CONSTANT NoEvent

ASSUME NoEventAssumption == NoEvent \notin Event

ListOf(list) == {list[n] : n \in DOMAIN list}

CallsOf(call) == {stack[n].ev : n \in {m \in DOMAIN stack : stack[m].call = call}}

(* The event eventq_service_events is serving, or NoEvent. *)
ServedEvent ==
    IF CallsOf("service") = {} THEN NoEvent ELSE CHOOSE e \in CallsOf("service") : TRUE

Abstract == INSTANCE AbstractEventQueue WITH
    given     <- 1 .. next_ID - 1,
    waiting   <- ListOf(eventq_pending) \ {ServedEvent},
    served    <- ServedEvent,
    executing <- CallsOf("execute")

(* Every event is served in order, executed or removed, and that once,     *)
(* none is lost, and when eventq_service_events returns nothing is left    *)
(* that was due (eventq.h:130), whatever callbacks queue, remove and       *)
(* execute meanwhile.  Two things are asked for: that the program keeps    *)
(* the third rule, and that it set no limit, which the code does not keep. *)
QueueImplemented == Abstract!ASpec

(* Every descriptor is in the list, free, or held by eventq_execute while  *)
(* its callback runs (eventq.c:206-210): none leaks, none is freed twice.  *)
(* The program keeps the third rule.                                       *)
Held == Len(eventq_pending) + eventq_free + Cardinality(CallsOf("execute"))

DescriptorsAccounted == allocated = Held

(* "service all events in order of occurrance until and at NOW"            *)
(* (eventq.h:130): with an event that has been served (eventq.c:265) no    *)
(* other leaves the list.                                                  *)
OnlyServedLeaves ==
    [][CallbackReturns => ListOf(eventq_pending) \ ListOf(eventq_pending') \subseteq {Top.ev}]_eqvars

=============================================================================
