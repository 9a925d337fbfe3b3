------------------------------- MODULE MCRwLock -------------------------------
(***************************************************************************)
(* Three threads that call MaxCalls operations between them.  With a       *)
(* bounded number of calls a thread cannot be overtaken for ever, and      *)
(* every call must end.                                                    *)
(***************************************************************************)
EXTENDS RwLockProperties

CONSTANT MaxCalls

VARIABLE calls

mcvars == <<rwVars, calls>>

MCInit == RwInit /\ calls = 0

MCNext ==
    \/ \E t \in Threads :
          /\ calls < MaxCalls
          /\ Call(t)
          /\ calls' = calls + 1
    \/ (\E t \in Threads : Step(t) \/ Sporadic(t)) /\ UNCHANGED calls

MCSpec ==
    /\ MCInit
    /\ [][MCNext]_mcvars
    /\ \A t \in Threads : WF_mcvars(Step(t) /\ UNCHANGED calls)

(* Every ReadLock and WriteLock is granted, if those before it release:    *)
(* no wakeup is lost and no two threads wait for each other, in any        *)
(* interleaving of the atomic operations, the futex calls and sporadic     *)
(* wakeups.                                                                *)
EveryCallServed ==
    \A t \in Threads :
        rpc[t] \in {"r_lock", "w_lock", "w_wait"} ~> rpc[t] \in {"reading", "writing"}

=============================================================================
