------------------------------ MODULE RwLockFutex ------------------------------
(***************************************************************************)
(* READER_WRITER_LOCK_SAFEPOD_FUTEX (sync/reader-writer-lock-futex.hpp),   *)
(* composed with the simple lock and the semaphore it is made of, and      *)
(* threads that acquire and release it in any order.                       *)
(***************************************************************************)
EXTENDS FutexSemaphore

VARIABLES
    count,   \* _count
    rpc      \* where each thread is in the operations of the lock

rwVars == <<lockVars, semVars, count, rpc>>

RwPcs == {"idle", "r_lock", "r_unlock", "reading",
          "w_lock", "w_wait", "writing", "w_reset", "w_unlock",
          "tw_load", "tw_store", "tw_unlock", "u_set", "u_wake"}

(* Nobody is ever at "failed", where the assertion of line 149 ends the    *)
(* program.                                                                *)
RwTypeOK ==
    /\ LockTypeOK
    /\ SemTypeOK
    /\ count \in Int
    /\ rpc \in [Threads -> RwPcs]

RwInit ==
    /\ LockInit
    /\ SemInit
    /\ count = 0
    /\ rpc = [t \in Threads |-> "idle"]

-----------------------------------------------------------------------------
(* ReadLock *)

ReadLock(t) ==
    /\ rpc[t] = "idle"
    /\ LockCall(t)
    /\ rpc' = Goto(rpc, t, "r_lock")
    /\ UNCHANGED <<lock, spins, semVars, count>>

ReaderIn(t) ==
    /\ rpc[t] = "r_lock"
    /\ UnlockCall(t)
    /\ count' = count + 1
    /\ rpc' = Goto(rpc, t, "r_unlock")
    /\ UNCHANGED <<lock, spins, semVars>>

-----------------------------------------------------------------------------
(* WriteLock *)

WriteLock(t) ==
    /\ rpc[t] = "idle"
    /\ LockCall(t)
    /\ rpc' = Goto(rpc, t, "w_lock")
    /\ UNCHANGED <<lock, spins, semVars, count>>

WriterIn(t) ==
    /\ rpc[t] = "w_lock"
    /\ lpc[t] = "held"
    /\ count' = count - 1
    /\ \/ /\ count = 0
          /\ rpc' = Goto(rpc, t, "writing")
          /\ UNCHANGED semVars
       \/ /\ count # 0
          /\ rpc' = Goto(rpc, t, "w_wait")
          /\ WaitCall(t)
    /\ UNCHANGED lockVars

(* The semaphore left set for the next writer. *)
WriterWokenNoClear(t) ==
    /\ rpc[t] = "w_wait"
    /\ spc[t] = "out"
    /\ rpc' = Goto(rpc, t, "writing")
    /\ UNCHANGED <<lockVars, semVars, count>>

WriterWoken(t) ==
    /\ rpc[t] = "w_wait"
    /\ spc[t] = "out"
    /\ Clear(t)
    /\ rpc' = Goto(rpc, t, "writing")
    /\ UNCHANGED <<lockVars, count>>

-----------------------------------------------------------------------------
(* Unlock *)

(* SYNC_CHECK_ASSERT ends the program. *)
Unlock(t) ==
    /\ rpc[t] \in {"reading", "writing"}
    /\ count' = count - 1
    /\ \/ count = 0 /\ rpc' = Goto(rpc, t, "u_set")
       \/ count = -1 /\ rpc' = Goto(rpc, t, "w_reset")
       \/ count > 0 /\ rpc' = Goto(rpc, t, "idle")
       \/ count < -1 /\ rpc' = Goto(rpc, t, "failed")
    /\ UNCHANGED <<lockVars, semVars>>

UnlockSet(t) ==
    /\ rpc[t] = "u_set"
    /\ Set(t)
    /\ rpc' = Goto(rpc, t, "u_wake")
    /\ UNCHANGED <<lockVars, count>>

(* The lock released and the count left at -2. *)
WriterKeepsCount(t) ==
    /\ rpc[t] = "w_reset"
    /\ UnlockCall(t)
    /\ rpc' = Goto(rpc, t, "w_unlock")
    /\ UNCHANGED <<lock, spins, semVars, count>>

WriterReset(t) ==
    /\ rpc[t] = "w_reset"
    /\ count' = 0
    /\ UnlockCall(t)
    /\ rpc' = Goto(rpc, t, "w_unlock")
    /\ UNCHANGED <<lock, spins, semVars>>

-----------------------------------------------------------------------------
(* TryReadLock and TryWriteLock *)

TryReadLock(t) ==
    /\ rpc[t] = "idle"
    /\ TryLock(t)
    /\ rpc' = Goto(rpc, t, IF lock = UNLOCKED THEN "r_lock" ELSE "idle")
    /\ UNCHANGED <<semVars, count>>

TryWriteLock(t) ==
    /\ rpc[t] = "idle"
    /\ TryLock(t)
    /\ rpc' = Goto(rpc, t, IF lock = UNLOCKED THEN "tw_load" ELSE "idle")
    /\ UNCHANGED <<semVars, count>>

(* The count tested for no writer instead of for nobody. *)
TryWriterLooksForWriter(t) ==
    /\ rpc[t] = "tw_load"
    /\ \/ /\ count >= 0
          /\ rpc' = Goto(rpc, t, "tw_store")
          /\ UNCHANGED lpc
       \/ /\ count < 0
          /\ rpc' = Goto(rpc, t, "tw_unlock")
          /\ UnlockCall(t)
    /\ UNCHANGED <<lock, spins, semVars, count>>

TryWriterLooks(t) ==
    /\ rpc[t] = "tw_load"
    /\ \/ /\ count = 0
          /\ rpc' = Goto(rpc, t, "tw_store")
          /\ UNCHANGED lpc
       \/ /\ count # 0
          /\ rpc' = Goto(rpc, t, "tw_unlock")
          /\ UnlockCall(t)
    /\ UNCHANGED <<lock, spins, semVars, count>>

TryWriterIn(t) ==
    /\ rpc[t] = "tw_store"
    /\ count' = -1
    /\ rpc' = Goto(rpc, t, "writing")
    /\ UNCHANGED <<lockVars, semVars>>

-----------------------------------------------------------------------------
(* _lock.Unlock(), or _waiterSemaphore.Set(), has returned. *)
Return(t) ==
    /\ \/ rpc[t] = "r_unlock" /\ lpc[t] = "out" /\ rpc' = Goto(rpc, t, "reading")
       \/ /\ rpc[t] \in {"w_unlock", "tw_unlock"} /\ lpc[t] = "out"
          /\ rpc' = Goto(rpc, t, "idle")
       \/ rpc[t] = "u_wake" /\ spc[t] = "out" /\ rpc' = Goto(rpc, t, "idle")
    /\ UNCHANGED <<lockVars, semVars, count>>

Call(t) == ReadLock(t) \/ WriteLock(t) \/ TryReadLock(t) \/ TryWriteLock(t)

(* What a thread does once it has called, the release included. *)
Step(t) ==
    \/ LockStep(t) /\ UNCHANGED <<semVars, count, rpc>>
    \/ SemStep(t) /\ UNCHANGED <<lockVars, count, rpc>>
    \/ ReaderIn(t) \/ WriterIn(t) \/ WriterWoken(t)
    \/ Unlock(t) \/ UnlockSet(t) \/ WriterReset(t)
    \/ TryWriterLooks(t) \/ TryWriterIn(t) \/ Return(t)

Sporadic(t) ==
    \/ LockSporadic(t) /\ UNCHANGED <<semVars, count, rpc>>
    \/ WaitSporadic(t) /\ UNCHANGED <<lockVars, count, rpc>>

RwNext == \E t \in Threads : Call(t) \/ Step(t) \/ Sporadic(t)

RwSpec == RwInit /\ [][RwNext]_rwVars

(* A thread that is not blocked in the kernel keeps running, and releases  *)
(* what it has acquired; nobody has to call, and nobody is woken for       *)
(* nothing.                                                                *)
RwFairSpec == RwSpec /\ \A t \in Threads : WF_rwVars(Step(t))

-----------------------------------------------------------------------------
Readers == {t \in Threads : rpc[t] \in {"r_unlock", "reading"}}
Waiting == {t \in Threads : rpc[t] = "w_wait"}
Writing == {t \in Threads : rpc[t] = "writing"}

=============================================================================
