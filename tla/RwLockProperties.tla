--------------------------- MODULE RwLockProperties ---------------------------
(***************************************************************************)
(* What the reader-writer lock guarantees.                                 *)
(***************************************************************************)
EXTENDS RwLockFutex, FiniteSets

CONSTANT Nobody

ASSUME ThreadsAssumption == IsFiniteSet(Threads) /\ Nobody \notin Threads

Claimants == Waiting \cup Writing

(* The table in the comment on _count (lines 206-211): 0 if nobody holds   *)
(* the lock, the number of readers, one less while a writer waits for      *)
(* them, -1 for an active writer.  Only a writer that is leaving has       *)
(* counted itself twice.                                                   *)
CountMeans ==
    count = IF \E t \in Threads : rpc[t] = "w_reset" THEN -2
            ELSE Cardinality(Readers) - Cardinality(Claimants)

(* No lost wakeup: if a thread sleeps for the simple lock, then the word   *)
(* says so to whoever unlocks, or an unlock is on its way to wake one      *)
(* sleeper, or one has been woken and will say so again.                   *)
LockSleepersRemembered ==
    Sleepers(lpc) # {} =>
        \/ lock = MAYBE_WAITERS
        \/ \E t \in Threads : lpc[t] \in {"store", "wake", "swap"}

(* The same for the semaphore: at most one writer sleeps, it sleeps        *)
(* because there are readers left to wake it, and the last one that leaves *)
(* finds it announced.                                                     *)
WriterSleepRemembered ==
    \A t \in Sleepers(spc) :
        /\ Sleepers(spc) = {t}
        /\ \/ \E u \in Threads : spc[u] = "wake"
           \/ /\ sem = CLEAR_WAITERS
              /\ Readers # {} \/ \E u \in Threads : rpc[u] = "u_set"

Claimant == IF Claimants = {} THEN Nobody ELSE CHOOSE t \in Claimants : TRUE

Rw == INSTANCE AbstractRwLock WITH
    readers  <- Readers,
    claimant <- Claimant,
    writing  <- Writing # {}

(* Readers share, a writer is alone, and no reader overtakes a writer that *)
(* is next in line.                                                        *)
RwImplemented == Rw!ASpec

=============================================================================
