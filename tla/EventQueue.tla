------------------------------ MODULE EventQueue ------------------------------
(***************************************************************************)
(* The time-ordered event queue of SimpleScalar (simplescalar-a1/eventq.c).*)
(* The calls are atomic, except that the action of an event may be a       *)
(* callback: the program runs again, in the middle of eventq_execute or of *)
(* the loop of eventq_service_events, and may queue, remove and execute    *)
(* events.                                                                 *)
(*                                                                         *)
(* The program keeps two rules that the code relies on: a callback does    *)
(* not call eventq_service_events, and it does not remove or execute the   *)
(* event that eventq_service_events is serving.  The lists are then        *)
(* sequences; of the free list only the length matters.  A third rule, to  *)
(* queue meanwhile only for later times, is a parameter: the code relies   *)
(* on it, and nothing tells the program so.                                *)
(***************************************************************************)
EXTENDS Integers, Sequences, FiniteSetsExt

CONSTANTS
    Times,       \* SS_TIME_TYPE
    Actions,     \* what events may do
    max_events,  \* the argument of eventq_init
    LaterOnly,   \* whether the program keeps the third rule
    MaxId,       \* bounds: the events a run may queue,
    MaxDepth,    \* the callbacks that may be under way at once,
    NoTime       \* and no call of eventq_service_events under way

ASSUME EventQueueAssumption ==
    /\ Times \subseteq Nat
    /\ NoTime \notin Times
    /\ \A a \in Actions : a.kind \in {"set", "add", "callback"} /\ a.arg \in Int
    /\ LaterOnly \in BOOLEAN
    /\ max_events \in Nat /\ MaxId \in Nat /\ MaxDepth \in Nat \ {0}

VARIABLES
    eventq_pending,
    eventq_free,         \* the length of the free list
    eventq_event_count,
    allocated,           \* the calls of calloc
    next_ID,
    serving,             \* now, while eventq_service_events runs
    stack,               \* the callbacks under way, the innermost last
    word                 \* what the other actions change

eqvars == <<eventq_pending, eventq_free, eventq_event_count, allocated, next_ID,
            serving, stack, word>>

Event == [when : Times, id : 1..MaxId, action : Actions]

EqTypeOK ==
    /\ eventq_pending \in Seq(Event)
    /\ eventq_free \in Nat
    /\ eventq_event_count \in Nat
    /\ allocated \in Nat
    /\ next_ID \in 1 .. MaxId + 1
    /\ serving \in Times \cup {NoTime}
    /\ stack \in Seq([call : {"execute", "service"}, ev : Event])
    /\ word \in Int

EqInit ==
    /\ eventq_pending = <<>>
    /\ eventq_free = 0
    /\ eventq_event_count = 0
    /\ allocated = 0
    /\ next_ID = 1
    /\ serving = NoTime
    /\ stack = <<>>
    /\ word = 0

-----------------------------------------------------------------------------
Top == stack[Len(stack)]

(* The program runs, outside the queue or in a callback. *)
Running == serving = NoTime \/ stack # <<>>

(* The calls of the callback of eventq_service_events. *)
ServiceCalls == {m \in DOMAIN stack : stack[m].call = "service"}

(* The event eventq_service_events is serving. *)
Served == {stack[n].ev.id : n \in ServiceCalls}

(* What the program may queue an event for. *)
Allowed(when) == LaterOnly => \A n \in ServiceCalls : stack[n].ev.when < when

(* How many events the search for the insertion point passes over. *)
EarlierBefore(list, when) ==
    Max({n \in 0 .. Len(list) : \A m \in 1..n : list[m].when < when})

Inserted(list, e) ==
    LET n == EarlierBefore(list, e.when)
    IN  SubSeq(list, 1, n) \o <<e>> \o SubSeq(list, n + 1, Len(list))

Place(id) == CHOOSE n \in DOMAIN eventq_pending : eventq_pending[n].id = id

Unlinked(n) ==
    SubSeq(eventq_pending, 1, n - 1) \o SubSeq(eventq_pending, n + 1, Len(eventq_pending))

(* eventq_pending = ev->next: what stands before the event goes with it. *)
ServedUnlinked(id) == SubSeq(eventq_pending, Place(id) + 1, Len(eventq_pending))

(* EXECUTE_ACTION, callbacks apart. *)
Effect(a, w) == IF a.kind = "set" THEN a.arg ELSE w + a.arg

-----------------------------------------------------------------------------
(* A descriptor taken from the free list, whether there is one or not. *)
TakesFree ==
    eventq_free' = eventq_free - 1 /\ UNCHANGED allocated

TakesDescriptor ==
    \/ eventq_free > 0 /\ eventq_free' = eventq_free - 1 /\ UNCHANGED allocated
    \/ /\ eventq_free = 0
       /\ max_events = 0 \/ eventq_event_count < max_events
       /\ allocated' = allocated + 1
       /\ UNCHANGED eventq_free

(* The five eventq_queue functions. *)
Queue(when, action) ==
    /\ Running
    /\ Allowed(when)
    /\ next_ID <= MaxId
    /\ TakesDescriptor
    /\ eventq_pending' =
          Inserted(eventq_pending, [when |-> when, id |-> next_ID, action |-> action])
    /\ next_ID' = next_ID + 1
    /\ UNCHANGED <<eventq_event_count, serving, stack, word>>

(* The descriptor forgotten. *)
RemoveLeaks(n) ==
    /\ Running
    /\ eventq_pending[n].id \notin Served
    /\ eventq_pending' = Unlinked(n)
    /\ UNCHANGED <<eventq_free, eventq_event_count, allocated, next_ID, serving, stack, word>>

(* eventq_remove of the n-th event; of an id that is not found nothing     *)
(* changes.                                                                *)
Remove(n) ==
    /\ Running
    /\ eventq_pending[n].id \notin Served
    /\ eventq_pending' = Unlinked(n)
    /\ eventq_free' = eventq_free + 1
    /\ UNCHANGED <<eventq_event_count, allocated, next_ID, serving, stack, word>>

(* eventq_execute: the event is unlinked before its action, and its        *)
(* descriptor free after it.                                               *)
Execute(n) ==
    LET e == eventq_pending[n]
    IN  /\ Running
        /\ e.id \notin Served
        /\ eventq_pending' = Unlinked(n)
        /\ \/ /\ e.action.kind = "callback"
              /\ Len(stack) < MaxDepth
              /\ stack' = Append(stack, [call |-> "execute", ev |-> e])
              /\ UNCHANGED <<eventq_free, word>>
           \/ /\ e.action.kind # "callback"
              /\ word' = Effect(e.action, word)
              /\ eventq_free' = eventq_free + 1
              /\ UNCHANGED stack
        /\ UNCHANGED <<eventq_event_count, allocated, next_ID, serving>>

ServiceEvents(now) ==
    /\ serving = NoTime /\ stack = <<>>
    /\ serving' = now
    /\ UNCHANGED <<eventq_pending, eventq_free, eventq_event_count, allocated, next_ID,
                   stack, word>>

(* Until now, not at it. *)
DueBefore == eventq_pending # <<>> /\ Head(eventq_pending).when < serving

Due == eventq_pending # <<>> /\ Head(eventq_pending).when <= serving

(* A turn of the loop.  While a callback runs its event stays in the list. *)
Serve ==
    /\ ~Running
    /\ Due
    /\ LET e == Head(eventq_pending)
       IN  \/ /\ e.action.kind = "callback"
              /\ stack' = <<[call |-> "service", ev |-> e]>>
              /\ UNCHANGED <<eventq_pending, eventq_free, word>>
           \/ /\ e.action.kind # "callback"
              /\ word' = Effect(e.action, word)
              /\ eventq_pending' = Tail(eventq_pending)
              /\ eventq_free' = eventq_free + 1
              /\ UNCHANGED stack
    /\ UNCHANGED <<eventq_event_count, allocated, next_ID, serving>>

CallbackReturns ==
    /\ stack # <<>>
    /\ stack' = SubSeq(stack, 1, Len(stack) - 1)
    /\ eventq_free' = eventq_free + 1
    /\ eventq_pending' =
          IF Top.call = "service" THEN ServedUnlinked(Top.ev.id) ELSE eventq_pending
    /\ UNCHANGED <<eventq_event_count, allocated, next_ID, serving, word>>

ServiceReturns ==
    /\ ~Running
    /\ ~Due
    /\ serving' = NoTime
    /\ UNCHANGED <<eventq_pending, eventq_free, eventq_event_count, allocated, next_ID,
                   stack, word>>

EqNext ==
    \/ \E when \in Times, action \in Actions : Queue(when, action)
    \/ \E n \in DOMAIN eventq_pending : Remove(n) \/ Execute(n)
    \/ \E now \in Times : ServiceEvents(now)
    \/ Serve
    \/ CallbackReturns
    \/ ServiceReturns

EqSpec == EqInit /\ [][EqNext]_eqvars

=============================================================================
