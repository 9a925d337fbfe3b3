---------------------------- MODULE FutexSemaphore ----------------------------
(***************************************************************************)
(* SEMAPHORE_SAFEPOD_FUTEX (sync/semaphore-futex.hpp of the Pin kit): a    *)
(* word that is clear, set, or clear with threads in FutexWait.  One       *)
(* action per atomic operation on the word.                                *)
(***************************************************************************)
EXTENDS FutexLock

CLEAR == 0
SET == 1
CLEAR_WAITERS == 2

VARIABLES
    sem,    \* _state
    spc,    \* where each thread is in Wait or Set
    seen    \* the local variable state of Wait

semVars == <<sem, spc, seen>>

SemPcs == {"out", "load", "cas", "wait", "asleep", "wake"}

SemTypeOK ==
    /\ sem \in 0..2
    /\ spc \in [Threads -> SemPcs]
    /\ seen \in [Threads -> {CLEAR, CLEAR_WAITERS}]

SemInit ==
    /\ sem = CLEAR
    /\ spc = [t \in Threads |-> "out"]
    /\ seen = [t \in Threads |-> CLEAR]

-----------------------------------------------------------------------------
WaitCall(t) == spc' = Goto(spc, t, "load") /\ UNCHANGED <<sem, seen>>

(* Wait returns, or remembers what it has seen.                            *)
Look(t) ==
    IF sem = SET
    THEN spc' = Goto(spc, t, "out") /\ UNCHANGED seen
    ELSE spc' = Goto(spc, t, "cas") /\ seen' = [seen EXCEPT ![t] = sem]

WaitLoad(t) ==
    /\ spc[t] = "load"
    /\ Look(t)
    /\ UNCHANGED sem

(* The waiter announced by a plain store, without looking again.           *)
WaitStore(t) ==
    /\ spc[t] = "cas"
    /\ sem' = CLEAR_WAITERS
    /\ spc' = Goto(spc, t, "wait")
    /\ UNCHANGED seen

WaitCas(t) ==
    /\ spc[t] = "cas"
    /\ \/ /\ sem = seen[t]
          /\ sem' = CLEAR_WAITERS
          /\ spc' = Goto(spc, t, "wait")
          /\ UNCHANGED seen
       \/ /\ sem # seen[t]
          /\ Look(t)
          /\ UNCHANGED sem

(* A wait that blocks whatever the value of the word.                      *)
WaitFutexAlways(t) ==
    /\ spc[t] = "wait"
    /\ spc' = Goto(spc, t, "asleep")
    /\ UNCHANGED <<sem, seen>>

WaitFutex(t) ==
    /\ spc[t] = "wait"
    /\ spc' = FutexWait(spc, t, sem, CLEAR_WAITERS, "load")
    /\ UNCHANGED <<sem, seen>>

WaitSporadic(t) ==
    /\ spc[t] = "asleep"
    /\ spc' = Goto(spc, t, "load")
    /\ UNCHANGED <<sem, seen>>

Set(t) ==
    /\ sem' = SET
    /\ spc' = Goto(spc, t, IF sem = CLEAR_WAITERS THEN "wake" ELSE "out")
    /\ UNCHANGED seen

(* FutexWake(INT_MAX): every sleeper.                                      *)
SetWake(t) ==
    /\ spc[t] = "wake"
    /\ spc' = [u \in Threads |-> IF u = t THEN "out"
                                 ELSE IF u \in Sleepers(spc) THEN "load" ELSE spc[u]]
    /\ UNCHANGED <<sem, seen>>

Clear(t) ==
    /\ sem' = IF sem = SET THEN CLEAR ELSE sem
    /\ UNCHANGED <<spc, seen>>

SemStep(t) == WaitLoad(t) \/ WaitCas(t) \/ WaitFutex(t) \/ SetWake(t)

=============================================================================
