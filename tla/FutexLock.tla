------------------------------- MODULE FutexLock -------------------------------
(***************************************************************************)
(* SIMPLE_LOCK_SAFEPOD_FUTEX (sync/simple-lock-futex.hpp of the Pin kit):  *)
(* a mutex over one word and the futex system call.  One action per atomic *)
(* operation on the word; what a thread does alone in between goes with    *)
(* the operation before it.  A module that uses the lock calls LockCall    *)
(* and UnlockCall and goes on when lpc says "held" and "out".              *)
(***************************************************************************)
EXTENDS Integers

CONSTANTS Threads, SpinIterations

ASSUME LockAssumption == SpinIterations \in Nat

UNLOCKED == 0
NO_WAITERS == 1
MAYBE_WAITERS == 2

VARIABLES
    lock,   \* _state
    lpc,    \* where each thread is in Lock or Unlock
    spins   \* i of the spinning loop

lockVars == <<lock, lpc, spins>>

LockPcs == {"out", "cas", "swap", "wait", "asleep", "held", "dec", "store", "wake"}

LockTypeOK ==
    /\ lock \in 0..2
    /\ lpc \in [Threads -> LockPcs]
    /\ spins \in [Threads -> 0..SpinIterations]

LockInit ==
    /\ lock = UNLOCKED
    /\ lpc = [t \in Threads |-> "out"]
    /\ spins = [t \in Threads |-> 0]

Goto(pc, t, l) == [pc EXCEPT ![t] = l]

(* The futex call: t sleeps if the word still has the value it expects;    *)
(* the kernel compares and blocks in one step.                             *)
FutexWait(pc, t, word, val, back) ==
    Goto(pc, t, IF word = val THEN "asleep" ELSE back)

Sleepers(pc) == {t \in Threads : pc[t] = "asleep"}

-----------------------------------------------------------------------------
LockCall(t) == lpc[t] = "out" /\ lpc' = Goto(lpc, t, "cas")

UnlockCall(t) == lpc[t] = "held" /\ lpc' = Goto(lpc, t, "dec")

(* The first attempt and the SPIN_ITERATIONS further ones.  After the last *)
(* the thread need not announce itself if somebody else already has.       *)
LockCas(t) ==
    /\ lpc[t] = "cas"
    /\ \/ /\ lock = UNLOCKED
          /\ lock' = NO_WAITERS
          /\ lpc' = Goto(lpc, t, "held")
          /\ spins' = [spins EXCEPT ![t] = 0]
       \/ /\ lock # UNLOCKED
          /\ spins[t] < SpinIterations
          /\ spins' = [spins EXCEPT ![t] = @ + 1]
          /\ UNCHANGED <<lock, lpc>>
       \/ /\ lock # UNLOCKED
          /\ spins[t] = SpinIterations
          /\ lpc' = Goto(lpc, t, IF lock = MAYBE_WAITERS THEN "wait" ELSE "swap")
          /\ spins' = [spins EXCEPT ![t] = 0]
          /\ UNCHANGED lock

(* The word announces no waiter, as if the lock had been taken by a CAS.   *)
LockSwapNoWaiters(t) ==
    /\ lpc[t] = "swap"
    /\ lock' = IF lock = UNLOCKED THEN NO_WAITERS ELSE MAYBE_WAITERS
    /\ lpc' = Goto(lpc, t, IF lock = UNLOCKED THEN "held" ELSE "wait")
    /\ UNCHANGED spins

LockSwap(t) ==
    /\ lpc[t] = "swap"
    /\ lock' = MAYBE_WAITERS
    /\ lpc' = Goto(lpc, t, IF lock = UNLOCKED THEN "held" ELSE "wait")
    /\ UNCHANGED spins

LockFutexWait(t) ==
    /\ lpc[t] = "wait"
    /\ lpc' = FutexWait(lpc, t, lock, MAYBE_WAITERS, "swap")
    /\ UNCHANGED <<lock, spins>>

UnlockDec(t) ==
    /\ lpc[t] = "dec"
    /\ lock' = lock - 1
    /\ lpc' = Goto(lpc, t, IF lock = NO_WAITERS THEN "out" ELSE "store")
    /\ UNCHANGED spins

UnlockStore(t) ==
    /\ lpc[t] = "store"
    /\ lock' = UNLOCKED
    /\ lpc' = Goto(lpc, t, "wake")
    /\ UNCHANGED spins

(* FutexWake(1): one sleeper, whichever the kernel picks.                  *)
UnlockWake(t) ==
    /\ lpc[t] = "wake"
    /\ LET out == Goto(lpc, t, "out")
       IN  IF Sleepers(lpc) = {} THEN lpc' = out
           ELSE \E u \in Sleepers(lpc) : lpc' = Goto(out, u, "swap")
    /\ UNCHANGED <<lock, spins>>

(* "This method might also return sporadically."                           *)
LockSporadic(t) ==
    /\ lpc[t] = "asleep"
    /\ lpc' = Goto(lpc, t, "swap")
    /\ UNCHANGED <<lock, spins>>

(* TryLock: one attempt, and the caller goes on with the answer.           *)
TryLock(t) ==
    /\ lpc[t] = "out"
    /\ lock' = IF lock = UNLOCKED THEN NO_WAITERS ELSE lock
    /\ lpc' = Goto(lpc, t, IF lock = UNLOCKED THEN "held" ELSE "out")
    /\ UNCHANGED spins

LockStep(t) ==
    \/ LockCas(t) \/ LockSwap(t) \/ LockFutexWait(t)
    \/ UnlockDec(t) \/ UnlockStore(t) \/ UnlockWake(t)

=============================================================================
