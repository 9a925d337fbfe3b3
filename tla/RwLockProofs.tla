----------------------------- MODULE RwLockProofs -----------------------------
(***************************************************************************)
(* The reader-writer lock for any finite set of threads: the simple lock   *)
(* excludes, the count means what its comment says, and the whole          *)
(* implements AbstractRwLock.                                              *)
(***************************************************************************)
EXTENDS RwLockProperties, FiniteSetTheorems, TLAPS

(* The owner of the simple lock; at "store" the word is already            *)
(* decremented, but not yet free.                                          *)
Owns(t) == lpc[t] \in {"held", "dec", "store"}

LockInv ==
    /\ \A t, u \in Threads : Owns(t) /\ Owns(u) => t = u
    /\ lock = UNLOCKED <=> \A t \in Threads : ~Owns(t)

Acquiring == {"cas", "swap", "wait", "asleep"}
Releasing == {"dec", "store", "wake"}
Awaiting == {"load", "cas", "wait", "asleep"}

(* Where a thread is in the two parts, given where it is in the whole.     *)
InLock(t) ==
    /\ rpc[t] \in {"idle", "reading", "u_set", "u_wake"} => lpc[t] = "out"
    /\ rpc[t] \in {"w_wait", "writing", "w_reset", "tw_load", "tw_store"} => lpc[t] = "held"
    /\ rpc[t] \in {"r_lock", "w_lock"} => lpc[t] \in Acquiring \cup {"held"}
    /\ rpc[t] \in {"r_unlock", "w_unlock", "tw_unlock"} => lpc[t] \in Releasing \cup {"out"}

InSem(t) ==
    /\ rpc[t] = "w_wait" => spc[t] \in Awaiting \cup {"out"}
    /\ rpc[t] = "u_wake" => spc[t] \in {"wake", "out"}
    /\ rpc[t] \notin {"w_wait", "u_wake"} => spc[t] = "out"

Places == \A t \in Threads : InLock(t) /\ InSem(t)

(* The semaphore is set only for a writer that may go on. *)
SemInv ==
    /\ sem = SET => Waiting # {} /\ Readers = {}
    /\ \A t \in Waiting : spc[t] = "out" => sem = SET
    /\ \A t \in Threads : rpc[t] = "u_set" => Waiting # {} /\ Readers = {} /\ sem # SET
    /\ \A t, u \in Threads : rpc[t] = "u_set" /\ rpc[u] = "u_set" => t = u

Excluded == \A t \in Threads :
    rpc[t] \in {"writing", "w_reset", "tw_store"} => Readers = {}

RwInv == RwTypeOK /\ LockInv /\ Places /\ CountMeans /\ SemInv /\ Excluded

-----------------------------------------------------------------------------
(* The simple lock alone. *)

LEMMA LockInitial == LockInit => LockTypeOK /\ LockInv
    BY LockAssumption DEF LockInit, LockTypeOK, LockInv, Owns, LockPcs, UNLOCKED

LEMMA LockKept ==
    ASSUME LockTypeOK, LockInv, NEW t \in Threads,
           \/ LockStep(t)
           \/ TryLock(t)
           \/ LockSporadic(t)
           \/ (LockCall(t) \/ UnlockCall(t)) /\ UNCHANGED <<lock, spins>>
    PROVE  LockTypeOK' /\ LockInv'
<1> USE LockAssumption DEF LockTypeOK, LockInv, Owns, LockPcs, Goto, UNLOCKED, NO_WAITERS, MAYBE_WAITERS
<1>1. CASE LockCas(t)
    BY <1>1 DEF LockCas
<1>2. CASE LockSwap(t)
    BY <1>2 DEF LockSwap
<1>3. CASE LockFutexWait(t)
    BY <1>3 DEF LockFutexWait, FutexWait
<1>4. CASE UnlockDec(t)
    BY <1>4 DEF UnlockDec
<1>5. CASE UnlockStore(t)
    BY <1>5 DEF UnlockStore
<1>6. CASE UnlockWake(t)
    BY <1>6 DEF UnlockWake, Sleepers
<1>7. CASE TryLock(t)
    BY <1>7 DEF TryLock
<1>8. CASE LockSporadic(t)
    BY <1>8 DEF LockSporadic
<1>9. CASE (LockCall(t) \/ UnlockCall(t)) /\ UNCHANGED <<lock, spins>>
    BY <1>9 DEF LockCall, UnlockCall
<1> QED
    BY <1>1, <1>2, <1>3, <1>4, <1>5, <1>6, <1>7, <1>8, <1>9 DEF LockStep

-----------------------------------------------------------------------------
(* Who may be where. *)

LEMMA ReadersFinite ==
    /\ IsFiniteSet(Readers)
    /\ IsFiniteSet(Claimants)
    /\ Cardinality(Readers) \in Nat
    /\ Cardinality(Claimants) \in Nat
    /\ Cardinality(Readers) = 0 <=> Readers = {}
    /\ Cardinality(Claimants) = 0 <=> Claimants = {}
<1>1. Readers \subseteq Threads /\ Claimants \subseteq Threads
    BY DEF Readers, Claimants, Waiting, Writing
<1> QED
    BY <1>1, ThreadsAssumption, FS_Subset, FS_CardinalityType, FS_EmptySet

(* A thread that owns the simple lock keeps every other out of the states  *)
(* in which it is held.                                                    *)
LEMMA OwnerAlone ==
    ASSUME RwInv, NEW t \in Threads, lpc[t] = "held"
    PROVE  \A u \in Threads \ {t} :
              rpc[u] \notin {"w_wait", "writing", "w_reset", "tw_load", "tw_store"}
    BY DEF RwInv, LockInv, Owns, Places, InLock

LEMMA ClaimantAlone ==
    ASSUME RwInv, NEW t \in Claimants
    PROVE  /\ Claimants = {t}
           /\ Cardinality(Claimants) = 1
           /\ ~\E u \in Threads : rpc[u] = "w_reset"
<1>1. t \in Threads /\ lpc[t] = "held" /\ rpc[t] \in {"w_wait", "writing"}
    BY DEF RwInv, Places, InLock, Claimants, Waiting, Writing
<1>2. Claimants = {t}
    BY <1>1, OwnerAlone DEF Claimants, Waiting, Writing
<1> QED
    BY <1>1, <1>2, OwnerAlone, FS_Singleton

(* The count as the code reads it: in Unlock by a reader and by a writer,  *)
(* and by the owner of the simple lock.                                    *)
LEMMA ReaderCounts ==
    ASSUME RwInv, NEW t \in Readers
    PROVE  count >= 0 /\ (count = 0 => Readers = {t} /\ Waiting # {})
<1>1. /\ Readers # {}
      /\ ~\E u \in Threads : rpc[u] \in {"w_reset", "writing"}
    BY DEF RwInv, Excluded
<1>2. count = Cardinality(Readers) - Cardinality(Claimants)
    BY <1>1 DEF RwInv, CountMeans
<1>3. Cardinality(Claimants) \in {0, 1} /\ (Claimants = {} <=> Cardinality(Claimants) = 0)
    BY ClaimantAlone, ReadersFinite
<1>4. Cardinality(Readers) \in Nat /\ Cardinality(Readers) # 0
    BY <1>1, ReadersFinite
<1>5. ASSUME count = 0
      PROVE  Readers = {t} /\ Waiting # {}
    <2>1. Cardinality(Readers) = 1 /\ Claimants # {}
        BY <1>2, <1>3, <1>4, <1>5
    <2>2. Readers = {t}
        BY <2>1, ReadersFinite, FS_Singleton
    <2>3. Writing = {}
        BY <1>1 DEF Writing
    <2> QED
        BY <2>1, <2>2, <2>3 DEF Claimants
<1> QED
    BY <1>2, <1>3, <1>4, <1>5

LEMMA WriterCounts ==
    ASSUME RwInv, NEW t \in Writing
    PROVE  count = -1 /\ Readers = {} /\ Claimants = {t}
<1>1. Readers = {}
    BY DEF RwInv, Excluded, Writing
<1>2. t \in Claimants
    BY DEF Claimants
<1> QED
    BY <1>1, <1>2, ClaimantAlone, ReadersFinite DEF RwInv, CountMeans

LEMMA OwnerCounts ==
    ASSUME RwInv, NEW t \in Threads, lpc[t] = "held",
           rpc[t] \in {"r_lock", "w_lock", "tw_load", "tw_store"}
    PROVE  Claimants = {} /\ count = Cardinality(Readers) /\ (count = 0 <=> Readers = {})
<1>1. /\ Claimants = {}
      /\ ~\E u \in Threads : rpc[u] = "w_reset"
    BY OwnerAlone DEF Claimants, Waiting, Writing
<1> QED
    BY <1>1, ReadersFinite DEF RwInv, CountMeans

-----------------------------------------------------------------------------
(* The steps. *)

LEMMA RwInitial == RwInit => RwInv
<1> SUFFICES ASSUME RwInit PROVE RwInv
    OBVIOUS
<1>1. Readers = {} /\ Claimants = {} /\ Waiting = {}
    BY DEF RwInit, Readers, Claimants, Waiting, Writing
<1>2. CountMeans
    BY <1>1, FS_EmptySet DEF CountMeans, RwInit
<1>3. RwTypeOK /\ LockInv
    BY LockInitial DEF RwInit, RwTypeOK, SemInit, SemTypeOK, RwPcs, SemPcs, CLEAR, CLEAR_WAITERS
<1>4. Places
    BY DEF RwInit, LockInit, SemInit, Places, InLock, InSem
<1>5. SemInv /\ Excluded
    BY <1>1 DEF RwInit, SemInit, SemInv, Excluded, CLEAR, SET
<1> QED
    BY <1>2, <1>3, <1>4, <1>5 DEF RwInv

(* Inside Lock a thread comes to own the lock, inside Unlock to be out.    *)
LEMMA LockMoves ==
    ASSUME LockTypeOK, NEW t \in Threads, LockStep(t) \/ LockSporadic(t)
    PROVE  \A u \in Threads :
              \/ lpc'[u] = lpc[u]
              \/ lpc[u] \in Acquiring /\ lpc'[u] \in Acquiring \cup {"held"}
              \/ lpc[u] \in Releasing /\ lpc'[u] \in Releasing \cup {"out"}
<1> USE DEF LockTypeOK, Acquiring, Releasing, Goto
<1>1. CASE LockCas(t)
    BY <1>1 DEF LockCas
<1>2. CASE LockSwap(t)
    BY <1>2 DEF LockSwap
<1>3. CASE LockFutexWait(t)
    BY <1>3 DEF LockFutexWait, FutexWait
<1>4. CASE UnlockDec(t)
    BY <1>4 DEF UnlockDec
<1>5. CASE UnlockStore(t)
    BY <1>5 DEF UnlockStore
<1>6. CASE UnlockWake(t)
    BY <1>6 DEF UnlockWake, Sleepers
<1>7. CASE LockSporadic(t)
    BY <1>7 DEF LockSporadic
<1> QED
    BY <1>1, <1>2, <1>3, <1>4, <1>5, <1>6, <1>7 DEF LockStep

(* Wait returns only while the semaphore is set, and neither Wait nor the  *)
(* waking of sleepers sets or clears it.                                   *)
LEMMA SemMoves ==
    ASSUME SemTypeOK, NEW t \in Threads, SemStep(t) \/ WaitSporadic(t)
    PROVE  /\ SemTypeOK'
           /\ sem' = SET <=> sem = SET
           /\ \A u \in Threads :
                 \/ spc'[u] = spc[u]
                 \/ spc[u] \in Awaiting /\ spc'[u] \in Awaiting
                 \/ spc[u] \in Awaiting /\ spc'[u] = "out" /\ sem = SET
                 \/ spc[u] = "wake" /\ spc'[u] = "out"
<1> USE DEF SemTypeOK, SemPcs, Awaiting, Goto, CLEAR, SET, CLEAR_WAITERS
<1>1. CASE WaitLoad(t)
    BY <1>1 DEF WaitLoad, Look
<1>2. CASE WaitCas(t)
    <2>1. CASE sem = seen[t]
        BY <1>2, <2>1 DEF WaitCas, Look
    <2>2. CASE sem # seen[t]
        BY <1>2, <2>2 DEF WaitCas, Look
    <2> QED
        BY <2>1, <2>2
<1>3. CASE WaitFutex(t)
    BY <1>3 DEF WaitFutex, FutexWait
<1>4. CASE SetWake(t)
    BY <1>4 DEF SetWake, Sleepers
<1>5. CASE WaitSporadic(t)
    BY <1>5 DEF WaitSporadic
<1> QED
    BY <1>1, <1>2, <1>3, <1>4, <1>5 DEF SemStep

(* Steps inside Lock, Unlock, Wait and Set change neither the count nor    *)
(* who owns what.                                                          *)
LEMMA InnerStep ==
    ASSUME RwInv, NEW t \in Threads,
           \/ (LockStep(t) \/ LockSporadic(t)) /\ UNCHANGED <<semVars, count, rpc>>
           \/ (SemStep(t) \/ WaitSporadic(t)) /\ UNCHANGED <<lockVars, count, rpc>>
    PROVE  RwInv'
<1>1. /\ count' = count /\ rpc' = rpc
      /\ Readers' = Readers /\ Waiting' = Waiting /\ Claimants' = Claimants
    BY DEF Readers, Waiting, Writing, Claimants
<1>2. CountMeans' /\ Excluded'
    BY <1>1 DEF RwInv, CountMeans, Excluded
<1>3. CASE (LockStep(t) \/ LockSporadic(t)) /\ UNCHANGED <<semVars, count, rpc>>
    <2>1. RwTypeOK' /\ LockInv'
        BY <1>3, LockKept DEF RwInv, RwTypeOK, SemTypeOK, semVars
    <2>2. \A u \in Threads :
             \/ lpc'[u] = lpc[u]
             \/ lpc[u] \in Acquiring /\ lpc'[u] \in Acquiring \cup {"held"}
             \/ lpc[u] \in Releasing /\ lpc'[u] \in Releasing \cup {"out"}
        BY <1>3, LockMoves DEF RwInv, RwTypeOK
    <2>3. Places'
        BY <1>3, <2>2 DEF RwInv, Places, InLock, InSem, semVars, Acquiring, Releasing
    <2>4. SemInv'
        BY <1>1, <1>3 DEF RwInv, SemInv, semVars
    <2> QED
        BY <1>2, <2>1, <2>3, <2>4 DEF RwInv
<1>4. CASE (SemStep(t) \/ WaitSporadic(t)) /\ UNCHANGED <<lockVars, count, rpc>>
    <2>1. LockTypeOK' /\ LockInv'
        BY <1>4 DEF RwInv, RwTypeOK, LockTypeOK, LockInv, Owns, lockVars
    <2>2. /\ SemTypeOK'
          /\ sem' = SET <=> sem = SET
          /\ \A u \in Threads :
                \/ spc'[u] = spc[u]
                \/ spc[u] \in Awaiting /\ spc'[u] \in Awaiting
                \/ spc[u] \in Awaiting /\ spc'[u] = "out" /\ sem = SET
                \/ spc[u] = "wake" /\ spc'[u] = "out"
        BY <1>4, SemMoves DEF RwInv, RwTypeOK
    <2>3. Places'
        BY <1>4, <2>2 DEF RwInv, Places, InLock, InSem, lockVars, Awaiting
    <2>4. RwTypeOK'
        BY <1>1, <2>1, <2>2 DEF RwInv, RwTypeOK
    <2>5. SemInv'
        BY <1>1, <2>2 DEF RwInv, SemInv, Places, InSem, Waiting, Awaiting
    <2> QED
        BY <1>2, <2>1, <2>3, <2>4, <2>5 DEF RwInv
<1> QED
    BY <1>3, <1>4

(* A step that leaves the simple lock's invariant to LockKept. *)
LEMMA CallStep ==
    ASSUME RwInv, NEW t \in Threads, Call(t)
    PROVE  RwInv'
<1>1. /\ count' = count
      /\ \A u \in Threads : u # t => rpc'[u] = rpc[u] /\ lpc'[u] = lpc[u]
      /\ rpc[t] = "idle"
      /\ \/ rpc'[t] = "idle" /\ lpc'[t] = "out"
         \/ rpc'[t] \in {"r_lock", "w_lock"} /\ lpc'[t] \in {"cas", "held"}
         \/ rpc'[t] = "tw_load" /\ lpc'[t] = "held"
      /\ rpc' \in [Threads -> RwPcs]
      /\ UNCHANGED semVars
    BY DEF RwInv, RwTypeOK, LockTypeOK, Call, ReadLock, WriteLock, TryReadLock, TryWriteLock,
           LockCall, TryLock, Goto, RwPcs
<1>2. LockTypeOK' /\ LockInv'
    BY LockKept DEF RwInv, RwTypeOK, Call, ReadLock, WriteLock, TryReadLock, TryWriteLock
<1>3. Readers' = Readers /\ Waiting' = Waiting /\ Writing' = Writing /\ Claimants' = Claimants
    BY <1>1 DEF Readers, Waiting, Writing, Claimants
<1>4. RwTypeOK'
    BY <1>1, <1>2 DEF RwInv, RwTypeOK, SemTypeOK, semVars
<1>5. Places'
    BY <1>1 DEF RwInv, Places, InLock, InSem, semVars, Acquiring
<1>6. CountMeans' /\ Excluded'
    BY <1>1, <1>3 DEF RwInv, CountMeans, Excluded
<1>7. SemInv'
    BY <1>1, <1>3 DEF RwInv, SemInv, semVars
<1> QED
    BY <1>2, <1>4, <1>5, <1>6, <1>7 DEF RwInv

LEMMA ReaderInStep ==
    ASSUME RwInv, NEW t \in Threads, ReaderIn(t)
    PROVE  RwInv'
<1>1. /\ rpc[t] = "r_lock" /\ lpc[t] = "held"
      /\ rpc' = [rpc EXCEPT ![t] = "r_unlock"] /\ lpc' = [lpc EXCEPT ![t] = "dec"]
      /\ count' = count + 1
      /\ UNCHANGED semVars
    BY DEF ReaderIn, UnlockCall, Goto
<1>2. LockTypeOK' /\ LockInv'
    BY LockKept DEF RwInv, RwTypeOK, ReaderIn
<1>3. /\ t \notin Readers
      /\ Readers' = Readers \cup {t}
      /\ Waiting' = Waiting /\ Claimants' = Claimants
    BY <1>1 DEF RwInv, RwTypeOK, Readers, Waiting, Writing, Claimants
<1>4. RwTypeOK'
    BY <1>1, <1>2 DEF RwInv, RwTypeOK, SemTypeOK, semVars, RwPcs
<1>5. Places'
    BY <1>1 DEF RwInv, RwTypeOK, LockTypeOK, Places, InLock, InSem, semVars, Releasing
<1>6. /\ Claimants = {}
      /\ count = Cardinality(Readers)
      /\ ~\E u \in Threads : rpc'[u] \in {"w_reset", "writing", "tw_store", "w_wait"}
    BY <1>1, OwnerCounts, OwnerAlone DEF RwInv, RwTypeOK
<1>7. CountMeans'
    <2>1. Cardinality(Readers') = Cardinality(Readers) + 1 /\ Cardinality(Claimants') = 0
        BY <1>3, <1>6, ReadersFinite, FS_AddElement, FS_EmptySet
    <2> QED
        BY <1>1, <1>6, <2>1, ReadersFinite DEF CountMeans
<1>8. Excluded'
    BY <1>6 DEF Excluded
<1>9. SemInv'
    BY <1>1, <1>3, <1>6 DEF RwInv, RwTypeOK, SemInv, semVars, Claimants
<1> QED
    BY <1>2, <1>4, <1>5, <1>7, <1>8, <1>9 DEF RwInv

LEMMA WriterInStep ==
    ASSUME RwInv, NEW t \in Threads, WriterIn(t)
    PROVE  RwInv'
<1>1. /\ rpc[t] = "w_lock" /\ lpc[t] = "held" /\ spc[t] = "out"
      /\ count' = count - 1
      /\ rpc' = [rpc EXCEPT ![t] = IF count = 0 THEN "writing" ELSE "w_wait"]
      /\ spc' = IF count = 0 THEN spc ELSE [spc EXCEPT ![t] = "load"]
      /\ UNCHANGED <<lockVars, sem, seen>>
    BY DEF RwInv, Places, InSem, WriterIn, WaitCall, Goto, semVars
<1>2. LockTypeOK' /\ LockInv'
    BY <1>1 DEF RwInv, RwTypeOK, LockTypeOK, LockInv, Owns, lockVars
<1>3. /\ Claimants = {} /\ Waiting = {}
      /\ count = Cardinality(Readers)
      /\ count = 0 <=> Readers = {}
      /\ ~\E u \in Threads : rpc[u] \in {"w_reset", "tw_store"}
    BY <1>1, OwnerCounts, OwnerAlone DEF Claimants
<1>4. /\ Readers' = Readers
      /\ Claimants' = {t}
      /\ Waiting' = IF count = 0 THEN {} ELSE {t}
    BY <1>1, <1>3 DEF RwInv, RwTypeOK, Readers, Waiting, Writing, Claimants
<1>5. RwTypeOK'
    BY <1>1, <1>2 DEF RwInv, RwTypeOK, SemTypeOK, RwPcs, SemPcs
<1>6. Places'
    BY <1>1 DEF RwInv, RwTypeOK, SemTypeOK, Places, InLock, InSem, lockVars, Awaiting
<1>7. CountMeans'
    BY <1>1, <1>3, <1>4, ReadersFinite, FS_Singleton DEF CountMeans, RwInv, RwTypeOK
<1>8. Excluded'
    BY <1>1, <1>3, <1>4 DEF RwInv, RwTypeOK, Excluded, Claimants, Writing
<1>9. SemInv'
    <2>1. sem # SET /\ ~\E u \in Threads : rpc[u] = "u_set"
        BY <1>3 DEF RwInv, SemInv
    <2> QED
        BY <1>1, <1>3, <1>4, <2>1 DEF RwInv, RwTypeOK, SemTypeOK, SemInv
<1> QED
    BY <1>2, <1>5, <1>6, <1>7, <1>8, <1>9 DEF RwInv

LEMMA WriterWokenStep ==
    ASSUME RwInv, NEW t \in Threads, WriterWoken(t)
    PROVE  RwInv'
<1>1. /\ rpc[t] = "w_wait" /\ spc[t] = "out"
      /\ rpc' = [rpc EXCEPT ![t] = "writing"]
      /\ sem = SET /\ sem' = CLEAR
      /\ UNCHANGED <<lockVars, spc, seen, count>>
    BY DEF RwInv, SemInv, Waiting, WriterWoken, Clear, Goto
<1>2. LockTypeOK' /\ LockInv'
    BY <1>1 DEF RwInv, RwTypeOK, LockTypeOK, LockInv, Owns, lockVars
<1>3. /\ Readers = {}
      /\ Claimants = {t}
      /\ ~\E u \in Threads : rpc[u] \in {"w_reset", "u_set"}
    BY <1>1, ClaimantAlone DEF RwInv, SemInv, Claimants, Waiting
<1>4. Readers' = {} /\ Claimants' = {t} /\ Waiting' = {}
    BY <1>1, <1>3 DEF RwInv, RwTypeOK, Readers, Waiting, Writing, Claimants
<1>5. RwTypeOK'
    BY <1>1, <1>2 DEF RwInv, RwTypeOK, SemTypeOK, RwPcs, CLEAR
<1>6. Places'
    BY <1>1 DEF RwInv, RwTypeOK, Places, InLock, InSem, lockVars
<1>7. CountMeans'
    BY <1>1, <1>3, <1>4 DEF RwInv, RwTypeOK, CountMeans
<1>8. Excluded'
    BY <1>4 DEF Excluded
<1>9. SemInv'
    BY <1>1, <1>3, <1>4 DEF RwInv, RwTypeOK, SemInv, CLEAR, SET
<1> QED
    BY <1>2, <1>5, <1>6, <1>7, <1>8, <1>9 DEF RwInv

(* The assertion holds, and the last reader finds a writer waiting. *)
LEMMA UnlockStep ==
    ASSUME RwInv, NEW t \in Threads, Unlock(t)
    PROVE  RwInv'
<1> USE DEF Unlock, Goto
<1>1. UNCHANGED <<lockVars, semVars>>
    OBVIOUS
<1>2. LockTypeOK' /\ LockInv' /\ SemTypeOK'
    BY <1>1 DEF RwInv, RwTypeOK, LockTypeOK, LockInv, Owns, SemTypeOK, lockVars, semVars
<1>3. CASE rpc[t] = "reading"
    <2>1. /\ t \in Readers
          /\ count >= 0 /\ count \in Int
          /\ count = 0 => Readers = {t} /\ Waiting # {}
          /\ ~\E u \in Threads : rpc[u] \in {"writing", "w_reset", "tw_store"}
        <3>1. t \in Readers
            BY <1>3 DEF Readers
        <3> QED
            BY <3>1, ReaderCounts DEF RwInv, RwTypeOK, Excluded
    <2>2. /\ rpc' = [rpc EXCEPT ![t] = IF count = 0 THEN "u_set" ELSE "idle"]
          /\ count' = count - 1
        BY <1>3, <2>1
    <2>3. /\ Readers' = Readers \ {t}
          /\ Waiting' = Waiting /\ Claimants' = Claimants
        BY <1>3, <2>2 DEF RwInv, RwTypeOK, Readers, Waiting, Writing, Claimants
    <2>4. RwTypeOK'
        BY <1>2, <2>1, <2>2 DEF RwInv, RwTypeOK, RwPcs
    <2>5. Places'
        BY <1>1, <1>3, <2>2 DEF RwInv, RwTypeOK, Places, InLock, InSem, lockVars, semVars
    <2>6. CountMeans'
        <3>1. Cardinality(Readers') = Cardinality(Readers) - 1
            BY <2>1, <2>3, ReadersFinite, FS_RemoveElement
        <3> QED
            BY <2>1, <2>2, <2>3, <3>1, ReadersFinite DEF RwInv, RwTypeOK, CountMeans
    <2>7. Excluded'
        BY <2>1, <2>2 DEF RwInv, RwTypeOK, Excluded
    <2>8. SemInv'
        <3>1. sem # SET /\ ~\E u \in Threads : rpc[u] = "u_set"
            BY <2>1 DEF RwInv, SemInv
        <3> QED
            BY <1>1, <2>1, <2>2, <2>3, <3>1 DEF RwInv, RwTypeOK, SemInv, semVars
    <2> QED
        BY <1>2, <2>4, <2>5, <2>6, <2>7, <2>8 DEF RwInv
<1>4. CASE rpc[t] = "writing"
    <2>1. count = -1 /\ Readers = {} /\ Claimants = {t}
        BY <1>4, WriterCounts DEF Writing
    <2>2. /\ rpc' = [rpc EXCEPT ![t] = "w_reset"]
          /\ count' = -2
        BY <1>4, <2>1
    <2>3. Readers' = {} /\ Claimants' = {} /\ Waiting' = {} /\ Waiting = {}
        BY <1>4, <2>1, <2>2 DEF RwInv, RwTypeOK, Readers, Waiting, Writing, Claimants
    <2>4. RwTypeOK'
        BY <1>2, <2>2 DEF RwInv, RwTypeOK, RwPcs
    <2>5. Places'
        BY <1>1, <1>4, <2>2 DEF RwInv, RwTypeOK, Places, InLock, InSem, lockVars, semVars
    <2>6. CountMeans'
        BY <2>2 DEF RwInv, RwTypeOK, CountMeans
    <2>7. Excluded'
        BY <2>3 DEF Excluded
    <2>8. SemInv'
        BY <1>1, <2>2, <2>3 DEF RwInv, RwTypeOK, SemInv, semVars
    <2> QED
        BY <1>2, <2>4, <2>5, <2>6, <2>7, <2>8 DEF RwInv
<1> QED
    BY <1>3, <1>4

LEMMA UnlockSetStep ==
    ASSUME RwInv, NEW t \in Threads, UnlockSet(t)
    PROVE  RwInv'
<1>1. /\ rpc[t] = "u_set" /\ rpc' = [rpc EXCEPT ![t] = "u_wake"]
      /\ spc[t] = "out"
      /\ spc' = [spc EXCEPT ![t] = IF sem = CLEAR_WAITERS THEN "wake" ELSE "out"]
      /\ sem' = SET
      /\ UNCHANGED <<lockVars, seen, count>>
    BY DEF RwInv, Places, InSem, UnlockSet, Set, Goto
<1>2. LockTypeOK' /\ LockInv'
    BY <1>1 DEF RwInv, RwTypeOK, LockTypeOK, LockInv, Owns, lockVars
<1>3. Readers' = Readers /\ Claimants' = Claimants /\ Waiting' = Waiting
    BY <1>1 DEF RwInv, RwTypeOK, Readers, Waiting, Writing, Claimants
<1>4. RwTypeOK'
    BY <1>1, <1>2 DEF RwInv, RwTypeOK, SemTypeOK, RwPcs, SemPcs, SET
<1>5. Places'
    BY <1>1 DEF RwInv, RwTypeOK, SemTypeOK, Places, InLock, InSem, lockVars
<1>6. CountMeans' /\ Excluded'
    BY <1>1, <1>3 DEF RwInv, RwTypeOK, CountMeans, Excluded
<1>7. SemInv'
    BY <1>1, <1>3 DEF RwInv, RwTypeOK, SemInv
<1> QED
    BY <1>2, <1>4, <1>5, <1>6, <1>7 DEF RwInv

LEMMA WriterResetStep ==
    ASSUME RwInv, NEW t \in Threads, WriterReset(t)
    PROVE  RwInv'
<1>1. /\ rpc[t] = "w_reset" /\ lpc[t] = "held"
      /\ rpc' = [rpc EXCEPT ![t] = "w_unlock"] /\ lpc' = [lpc EXCEPT ![t] = "dec"]
      /\ count' = 0
      /\ UNCHANGED semVars
    BY DEF WriterReset, UnlockCall, Goto
<1>2. LockTypeOK' /\ LockInv'
    BY LockKept DEF RwInv, RwTypeOK, WriterReset
<1>3. /\ Readers = {} /\ Claimants = {} /\ Waiting = {}
      /\ ~\E u \in Threads : rpc'[u] = "w_reset"
    BY <1>1, OwnerAlone DEF RwInv, RwTypeOK, Excluded, Waiting, Writing, Claimants
<1>4. Readers' = {} /\ Claimants' = {} /\ Waiting' = {}
    BY <1>1, <1>3 DEF RwInv, RwTypeOK, Readers, Waiting, Writing, Claimants
<1>5. RwTypeOK'
    BY <1>1, <1>2 DEF RwInv, RwTypeOK, SemTypeOK, semVars, RwPcs
<1>6. Places'
    BY <1>1 DEF RwInv, RwTypeOK, LockTypeOK, Places, InLock, InSem, semVars, Releasing
<1>7. CountMeans'
    BY <1>1, <1>3, <1>4, FS_EmptySet DEF CountMeans
<1>8. Excluded'
    BY <1>4 DEF Excluded
<1>9. SemInv'
    BY <1>1, <1>3, <1>4 DEF RwInv, RwTypeOK, SemInv, semVars
<1> QED
    BY <1>2, <1>5, <1>6, <1>7, <1>8, <1>9 DEF RwInv

LEMMA TryWriterLooksStep ==
    ASSUME RwInv, NEW t \in Threads, TryWriterLooks(t)
    PROVE  RwInv'
<1>1. /\ rpc[t] = "tw_load" /\ lpc[t] = "held"
      /\ rpc' = [rpc EXCEPT ![t] = IF count = 0 THEN "tw_store" ELSE "tw_unlock"]
      /\ lpc' = IF count = 0 THEN lpc ELSE [lpc EXCEPT ![t] = "dec"]
      /\ UNCHANGED <<lock, spins, semVars, count>>
    BY DEF RwInv, Places, InLock, TryWriterLooks, UnlockCall, Goto
<1>2. LockTypeOK' /\ LockInv'
    <2>1. CASE count = 0
        BY <1>1, <2>1 DEF RwInv, RwTypeOK, LockTypeOK, LockInv, Owns
    <2>2. CASE count # 0
        BY <2>2, LockKept DEF RwInv, RwTypeOK, TryWriterLooks
    <2> QED
        BY <2>1, <2>2
<1>3. Readers' = Readers /\ Claimants' = Claimants /\ Waiting' = Waiting
    BY <1>1 DEF RwInv, RwTypeOK, Readers, Waiting, Writing, Claimants
<1>4. count = 0 => Readers = {}
    BY <1>1, OwnerCounts
<1>5. RwTypeOK'
    BY <1>1, <1>2 DEF RwInv, RwTypeOK, SemTypeOK, semVars, RwPcs
<1>6. Places'
    BY <1>1 DEF RwInv, RwTypeOK, LockTypeOK, Places, InLock, InSem, semVars, Releasing
<1>7. CountMeans'
    BY <1>1, <1>3 DEF RwInv, RwTypeOK, CountMeans
<1>8. Excluded'
    BY <1>1, <1>3, <1>4 DEF RwInv, RwTypeOK, Excluded
<1>9. SemInv'
    BY <1>1, <1>3 DEF RwInv, RwTypeOK, SemInv, semVars
<1> QED
    BY <1>2, <1>5, <1>6, <1>7, <1>8, <1>9 DEF RwInv

LEMMA TryWriterInStep ==
    ASSUME RwInv, NEW t \in Threads, TryWriterIn(t)
    PROVE  RwInv'
<1>1. /\ rpc[t] = "tw_store" /\ lpc[t] = "held"
      /\ rpc' = [rpc EXCEPT ![t] = "writing"]
      /\ count' = -1
      /\ UNCHANGED <<lockVars, semVars>>
    BY DEF RwInv, Places, InLock, TryWriterIn, Goto
<1>2. LockTypeOK' /\ LockInv' /\ SemTypeOK'
    BY <1>1 DEF RwInv, RwTypeOK, LockTypeOK, LockInv, Owns, SemTypeOK, lockVars, semVars
<1>3. /\ Readers = {} /\ Claimants = {} /\ Waiting = {}
      /\ ~\E u \in Threads : rpc'[u] = "w_reset"
    BY <1>1, OwnerCounts, OwnerAlone DEF RwInv, RwTypeOK, Excluded, Claimants
<1>4. Readers' = {} /\ Claimants' = {t} /\ Waiting' = {}
    BY <1>1, <1>3 DEF RwInv, RwTypeOK, Readers, Waiting, Writing, Claimants
<1>5. RwTypeOK'
    BY <1>1, <1>2 DEF RwInv, RwTypeOK, RwPcs
<1>6. Places'
    BY <1>1 DEF RwInv, RwTypeOK, Places, InLock, InSem, lockVars, semVars
<1>7. CountMeans'
    <2>1. Cardinality(Readers') = 0 /\ Cardinality(Claimants') = 1
        BY <1>4, FS_EmptySet, FS_Singleton
    <2> QED
        BY <1>1, <1>3, <2>1 DEF CountMeans
<1>8. Excluded'
    BY <1>4 DEF Excluded
<1>9. SemInv'
    BY <1>1, <1>3, <1>4 DEF RwInv, RwTypeOK, SemInv, semVars
<1> QED
    BY <1>2, <1>5, <1>6, <1>7, <1>8, <1>9 DEF RwInv

LEMMA ReturnStep ==
    ASSUME RwInv, NEW t \in Threads, Return(t)
    PROVE  RwInv'
<1>1. /\ \/ rpc[t] = "r_unlock" /\ lpc[t] = "out" /\ rpc' = [rpc EXCEPT ![t] = "reading"]
         \/ /\ rpc[t] \in {"w_unlock", "tw_unlock", "u_wake"}
            /\ lpc[t] = "out" /\ spc[t] = "out"
            /\ rpc' = [rpc EXCEPT ![t] = "idle"]
      /\ UNCHANGED <<lockVars, semVars, count>>
    BY DEF RwInv, Places, InLock, InSem, Return, Goto
<1>2. LockTypeOK' /\ LockInv' /\ SemTypeOK'
    BY <1>1 DEF RwInv, RwTypeOK, LockTypeOK, LockInv, Owns, SemTypeOK, lockVars, semVars
<1>3. Readers' = Readers /\ Claimants' = Claimants /\ Waiting' = Waiting
    BY <1>1 DEF RwInv, RwTypeOK, Readers, Waiting, Writing, Claimants
<1>4. RwTypeOK'
    BY <1>1, <1>2 DEF RwInv, RwTypeOK, RwPcs
<1>5. Places'
    BY <1>1 DEF RwInv, RwTypeOK, Places, InLock, InSem, lockVars, semVars
<1>6. CountMeans' /\ Excluded'
    BY <1>1, <1>3 DEF RwInv, RwTypeOK, CountMeans, Excluded
<1>7. SemInv'
    BY <1>1, <1>3 DEF RwInv, RwTypeOK, SemInv, semVars
<1> QED
    BY <1>2, <1>4, <1>5, <1>6, <1>7 DEF RwInv

LEMMA RwInvKept == RwInv /\ [RwNext]_rwVars => RwInv'
<1> SUFFICES ASSUME RwInv, [RwNext]_rwVars PROVE RwInv'
    OBVIOUS
<1>1. CASE UNCHANGED rwVars
    BY <1>1 DEF rwVars, lockVars, semVars, RwInv, RwTypeOK, LockTypeOK, SemTypeOK, LockInv, Owns,
                Places, InLock, InSem, CountMeans, SemInv, Excluded,
                Readers, Waiting, Writing, Claimants
<1>2. ASSUME NEW t \in Threads, Call(t) \/ Step(t) \/ Sporadic(t)
      PROVE  RwInv'
    BY <1>2, CallStep, InnerStep, ReaderInStep, WriterInStep, WriterWokenStep, UnlockStep,
       UnlockSetStep, WriterResetStep, TryWriterLooksStep, TryWriterInStep, ReturnStep
       DEF Step, Sporadic
<1> QED
    BY <1>1, <1>2 DEF RwNext

-----------------------------------------------------------------------------
(* No lost wakeup. *)

(* Nobody is left asleep on the word of the simple lock unless somebody    *)
(* is bound to wake a sleeper or to announce the sleepers anew.            *)
LEMMA LockSleepersKept ==
    ASSUME RwTypeOK, LockSleepersRemembered, [RwNext]_rwVars
    PROVE  LockSleepersRemembered'
<1> USE DEF LockSleepersRemembered, Sleepers, Goto, RwTypeOK, LockTypeOK,
            UNLOCKED, NO_WAITERS, MAYBE_WAITERS
<1>1. CASE UNCHANGED lockVars
    BY <1>1 DEF lockVars
<1>2. ASSUME NEW t \in Threads,
             \/ LockStep(t) \/ TryLock(t) \/ LockSporadic(t)
             \/ (LockCall(t) \/ UnlockCall(t)) /\ UNCHANGED <<lock, spins>>
      PROVE  LockSleepersRemembered'
    <2>1. CASE LockCas(t)
        BY <2>1 DEF LockCas
    <2>2. CASE LockSwap(t)
        BY <2>2 DEF LockSwap
    <2>3. CASE LockFutexWait(t)
        BY <2>3 DEF LockFutexWait, FutexWait
    <2>4. CASE UnlockDec(t)
        BY <2>4 DEF UnlockDec
    <2>5. CASE UnlockStore(t)
        BY <2>5 DEF UnlockStore
    <2>6. CASE UnlockWake(t)
        BY <2>6 DEF UnlockWake
    <2>7. CASE TryLock(t)
        BY <2>7 DEF TryLock
    <2>8. CASE LockSporadic(t)
        BY <2>8 DEF LockSporadic
    <2>9. CASE (LockCall(t) \/ UnlockCall(t)) /\ UNCHANGED <<lock, spins>>
        BY <2>9 DEF LockCall, UnlockCall
    <2> QED
        BY <1>2, <2>1, <2>2, <2>3, <2>4, <2>5, <2>6, <2>7, <2>8, <2>9 DEF LockStep
<1>3. \/ UNCHANGED lockVars
      \/ \E t \in Threads :
            \/ LockStep(t) \/ TryLock(t) \/ LockSporadic(t)
            \/ (LockCall(t) \/ UnlockCall(t)) /\ UNCHANGED <<lock, spins>>
    BY DEF RwNext, Call, Step, Sporadic, ReadLock, WriteLock, TryReadLock, TryWriteLock,
           ReaderIn, WriterIn, WriterWoken, Unlock, UnlockSet, WriterReset,
           TryWriterLooks, TryWriterIn, Return, rwVars, lockVars
<1> QED
    BY <1>1, <1>2, <1>3

(* While the writer waits and the semaphore is not set, somebody is left   *)
(* to set it.                                                              *)
SetterLeft ==
    Waiting # {} /\ sem # SET => Readers # {} \/ \E u \in Threads : rpc[u] = "u_set"

LEMMA SetterLeftKept ==
    ASSUME RwInv, SetterLeft, [RwNext]_rwVars
    PROVE  SetterLeft'
<1> USE DEF SetterLeft, Readers, Waiting, Goto, RwInv, RwTypeOK
<1>1. CASE UNCHANGED rwVars
    BY <1>1 DEF rwVars, semVars
<1>2. ASSUME NEW t \in Threads, Call(t) \/ Step(t) \/ Sporadic(t)
      PROVE  SetterLeft'
    <2>1. CASE Call(t)
        BY <2>1 DEF Call, ReadLock, WriteLock, TryReadLock, TryWriteLock, semVars
    <2>2. CASE (LockStep(t) \/ LockSporadic(t)) /\ UNCHANGED <<semVars, count, rpc>>
        BY <2>2 DEF semVars
    <2>3. CASE (SemStep(t) \/ WaitSporadic(t)) /\ UNCHANGED <<lockVars, count, rpc>>
        BY <2>3, SemMoves
    <2>4. CASE ReaderIn(t)
        BY <2>4 DEF ReaderIn
    <2>5. CASE WriterIn(t)
        <3>1. count = 0 <=> Readers = {}
            BY <2>5, OwnerCounts DEF WriterIn
        <3> QED
            BY <2>5, <3>1 DEF WriterIn, semVars
    <2>6. CASE WriterWoken(t)
        <3>1. Claimants = {t}
            BY <2>6, ClaimantAlone DEF WriterWoken, Claimants
        <3> QED
            BY <2>6, <3>1 DEF WriterWoken, Claimants
    <2>7. CASE Unlock(t)
        <3>1. rpc[t] = "reading" => t \in Readers
            BY DEF Readers
        <3>2. rpc[t] = "writing" => t \in Writing
            BY DEF Writing
        <3>3. rpc[t] = "reading" => count >= 0 /\ (count = 0 => Readers = {t})
            BY <3>1, ReaderCounts
        <3>4. rpc[t] = "writing" => count = -1 /\ Claimants = {t}
            BY <3>2, WriterCounts
        <3>5. CASE rpc[t] = "reading"
            <4>1. CASE count = 0
                BY <2>7, <3>5, <4>1 DEF Unlock, semVars
            <4>2. CASE count # 0
                <5>1. Waiting' = Waiting /\ sem' = sem
                    BY <2>7, <3>3, <3>5, <4>2 DEF Unlock, semVars
                <5>2. /\ Claimants # {} => Cardinality(Claimants) = 1
                      /\ Cardinality(Readers) - Cardinality(Claimants) = count
                      /\ count > 0 /\ count \in Int
                    <6>1. ~\E u \in Threads : rpc[u] = "w_reset"
                        BY <3>1, <3>5 DEF Excluded
                    <6> QED
                        BY <3>3, <3>5, <4>2, <6>1, ClaimantAlone DEF CountMeans
                <5>3. Waiting # {} => Readers # {t}
                    <6> SUFFICES ASSUME Waiting # {}, Readers = {t} PROVE FALSE
                        OBVIOUS
                    <6>1. Cardinality(Claimants) = 1
                        BY <5>2 DEF Claimants
                    <6>2. Cardinality(Readers) = 1
                        BY FS_Singleton
                    <6> QED
                        BY <5>2, <6>1, <6>2
                <5>4. Readers' = Readers \ {t}
                    BY <2>7, <3>3, <3>5, <4>2 DEF Unlock
                <5>5. Readers # {t} => Readers' # {}
                    BY <3>1, <3>5, <5>4
                <5>6. \A u \in Threads : rpc[u] = "u_set" => Readers = {}
                    BY DEF SemInv
                <5> QED
                    BY <3>1, <3>5, <5>1, <5>3, <5>5 DEF SetterLeft
            <4> QED
                BY <4>1, <4>2
        <3>6. CASE rpc[t] = "writing"
            BY <2>7, <3>4, <3>6 DEF Unlock, Claimants
        <3> QED
            BY <2>7, <3>5, <3>6 DEF Unlock
    <2>8. CASE UnlockSet(t)
        BY <2>8 DEF UnlockSet, Set
    <2>9. CASE WriterReset(t) \/ TryWriterLooks(t) \/ TryWriterIn(t) \/ Return(t)
        BY <2>9 DEF WriterReset, TryWriterLooks, TryWriterIn, Return, semVars
    <2> QED
        BY <1>2, <2>1, <2>2, <2>3, <2>4, <2>5, <2>6, <2>7, <2>8, <2>9 DEF Step, Sporadic
<1> QED
    BY <1>1, <1>2 DEF RwNext

(* A sleeping writer is announced in the word, or about to be woken.       *)
SleepAnnounced ==
    \A t \in Sleepers(spc) : sem = CLEAR_WAITERS \/ \E u \in Threads : spc[u] = "wake"

LEMMA SleepAnnouncedKept ==
    ASSUME RwInv, SleepAnnounced, [RwNext]_rwVars
    PROVE  SleepAnnounced'
<1> USE DEF SleepAnnounced, Sleepers, Goto, RwInv, RwTypeOK, SemTypeOK, CLEAR, SET, CLEAR_WAITERS
<1>1. CASE UNCHANGED semVars
    BY <1>1 DEF semVars
<1>2. ASSUME NEW t \in Threads, SemStep(t) \/ WaitSporadic(t)
      PROVE  SleepAnnounced'
    <2>1. CASE WaitLoad(t)
        BY <2>1 DEF WaitLoad, Look
    <2>2. CASE WaitCas(t)
        BY <2>2 DEF WaitCas, Look
    <2>3. CASE WaitFutex(t)
        BY <2>3 DEF WaitFutex, FutexWait
    <2>4. CASE SetWake(t)
        BY <2>4 DEF SetWake
    <2>5. CASE WaitSporadic(t)
        BY <2>5 DEF WaitSporadic
    <2> QED
        BY <1>2, <2>1, <2>2, <2>3, <2>4, <2>5 DEF SemStep
<1>3. ASSUME NEW t \in Threads, WriterIn(t) \/ WriterWoken(t) \/ UnlockSet(t)
      PROVE  SleepAnnounced'
    <2>1. CASE WriterIn(t)
        BY <2>1 DEF WriterIn, WaitCall, semVars, Places, InSem
    <2>2. CASE WriterWoken(t)
        BY <2>2 DEF WriterWoken, Clear
    <2>3. CASE UnlockSet(t)
        BY <2>3 DEF UnlockSet, Set, Places, InSem
    <2> QED
        BY <1>3, <2>1, <2>2, <2>3
<1>4. \/ UNCHANGED semVars
      \/ \E t \in Threads :
            \/ SemStep(t) \/ WaitSporadic(t)
            \/ WriterIn(t) \/ WriterWoken(t) \/ UnlockSet(t)
    BY DEF RwNext, Call, Step, Sporadic, ReadLock, WriteLock, TryReadLock, TryWriteLock,
           ReaderIn, Unlock, WriterReset, TryWriterLooks, TryWriterIn, Return, rwVars, semVars
<1> QED
    BY <1>1, <1>2, <1>3, <1>4

-----------------------------------------------------------------------------
(* The abstract lock. *)

LEMMA ClaimantIs ==
    /\ Claimants = {} => Claimant = Nobody
    /\ \A t \in Threads : Claimants = {t} => Claimant = t /\ t # Nobody
    BY ThreadsAssumption DEF Claimant

LEMMA ClaimantKept == Claimants' = Claimants => Claimant' = Claimant
    BY DEF Claimant

(* A step that changes neither the readers nor the writers stutters.       *)
LEMMA Stutters ==
    ASSUME UNCHANGED <<Readers, Claimants, Writing>>
    PROVE  UNCHANGED Rw!avars
    BY DEF Rw!avars, Claimant

LEMMA WriterSteps ==
    ASSUME RwInv, NEW t \in Threads, WriterIn(t) \/ WriterWoken(t) \/ TryWriterIn(t)
    PROVE  Rw!ClaimWrite(t) \/ Rw!AcquireWrite
<1> USE DEF RwInv, RwTypeOK, Readers, Waiting, Writing, Claimants, Goto
<1>1. CASE WriterIn(t)
    <2>1. /\ Claimants = {} /\ t \notin Readers
          /\ count = 0 <=> Readers = {}
        BY <1>1, OwnerCounts DEF WriterIn
    <2>2. /\ Readers' = Readers /\ Claimants' = {t}
          /\ Writing' # {} <=> count = 0
        BY <1>1, <2>1 DEF WriterIn
    <2>3. Claimant = Nobody /\ Claimant' = t
        BY <2>1, <2>2, ClaimantIs DEF Claimant
    <2> QED
        BY <2>1, <2>2, <2>3 DEF Rw!ClaimWrite
<1>2. CASE WriterWoken(t)
    <2>1. /\ Readers = {} /\ Claimants = {t}
          /\ Writing = {}
        BY <1>2, ClaimantAlone DEF WriterWoken, SemInv
    <2>2. Readers' = Readers /\ Claimants' = {t} /\ Writing' # {}
        BY <1>2, <2>1 DEF WriterWoken
    <2>3. Claimant = t /\ Claimant' = t /\ t # Nobody
        BY <2>1, <2>2, ClaimantIs DEF Claimant
    <2> QED
        BY <2>1, <2>2, <2>3 DEF Rw!AcquireWrite
<1>3. CASE TryWriterIn(t)
    <2>1. Claimants = {} /\ Readers = {}
        BY <1>3, OwnerCounts DEF TryWriterIn, Places, InLock, Excluded
    <2>2. Readers' = Readers /\ Claimants' = {t} /\ Writing' # {}
        BY <1>3, <2>1 DEF TryWriterIn
    <2>3. Claimant = Nobody /\ Claimant' = t
        BY <2>1, <2>2, ClaimantIs DEF Claimant
    <2> QED
        BY <2>1, <2>2, <2>3 DEF Rw!ClaimWrite
<1> QED
    BY <1>1, <1>2, <1>3

LEMMA UnlockSteps ==
    ASSUME RwInv, NEW t \in Threads, Unlock(t)
    PROVE  Rw!ReleaseRead(t) \/ Rw!ReleaseWrite
<1> USE DEF RwInv, RwTypeOK, Readers, Waiting, Writing, Claimants, Goto
<1>1. CASE rpc[t] = "reading"
    <2>1. count >= 0
        BY <1>1, ReaderCounts
    <2>2. Readers' = Readers \ {t} /\ Claimants' = Claimants /\ Writing' = Writing
        BY <1>1, <2>1 DEF Unlock
    <2>3. t \in Readers /\ Claimant' = Claimant
        BY <1>1, <2>2, ClaimantKept
    <2> QED
        BY <2>2, <2>3 DEF Rw!ReleaseRead
<1>2. CASE rpc[t] = "writing"
    <2>1. count = -1 /\ Readers = {} /\ Claimants = {t}
        BY <1>2, WriterCounts
    <2>2. Readers' = Readers /\ Claimants' = {} /\ Writing' = {}
        BY <1>2, <2>1 DEF Unlock
    <2>3. Claimant' = Nobody /\ Writing # {}
        BY <1>2, <2>2 DEF Claimant
    <2> QED
        BY <2>2, <2>3 DEF Rw!ReleaseWrite
<1> QED
    BY <1>1, <1>2 DEF Unlock

LEMMA ReaderSteps ==
    ASSUME RwInv, NEW t \in Threads, ReaderIn(t)
    PROVE  Rw!AcquireRead(t)
<1> USE DEF RwInv, RwTypeOK, Readers, Waiting, Writing, Claimants, Goto
<1>1. Claimants = {} /\ t \notin Readers
    BY OwnerCounts DEF ReaderIn, UnlockCall
<1>2. Readers' = Readers \cup {t} /\ Claimants' = Claimants /\ Writing' = Writing
    BY DEF ReaderIn
<1>3. Claimant = Nobody /\ Claimant' = Claimant
    BY <1>1, <1>2, ClaimantIs DEF Claimant
<1> QED
    BY <1>1, <1>2, <1>3 DEF Rw!AcquireRead

LEMMA RwStepImplements ==
    ASSUME RwInv, [RwNext]_rwVars
    PROVE  [Rw!ANext]_Rw!avars
<1>1. CASE UNCHANGED rwVars
    <2>1. UNCHANGED <<Readers, Claimants, Writing>>
        BY <1>1 DEF rwVars, Readers, Claimants, Waiting, Writing
    <2> QED
        BY <2>1, Stutters
<1>2. ASSUME NEW t \in Threads, Call(t) \/ Step(t) \/ Sporadic(t)
      PROVE  [Rw!ANext]_Rw!avars
    <2>1. CASE ReaderIn(t)
        BY <2>1, ReaderSteps DEF Rw!ANext
    <2>2. CASE WriterIn(t) \/ WriterWoken(t) \/ TryWriterIn(t)
        BY <2>2, WriterSteps DEF Rw!ANext
    <2>3. CASE Unlock(t)
        BY <2>3, UnlockSteps DEF Rw!ANext
    <2>4. CASE \/ Call(t) \/ Sporadic(t)
               \/ LockStep(t) /\ UNCHANGED <<semVars, count, rpc>>
               \/ SemStep(t) /\ UNCHANGED <<lockVars, count, rpc>>
               \/ UnlockSet(t) \/ WriterReset(t) \/ TryWriterLooks(t) \/ Return(t)
        <3>1. UNCHANGED <<Readers, Claimants, Writing>>
            BY <2>4 DEF RwInv, RwTypeOK, Readers, Claimants, Waiting, Writing, Goto,
               Call, ReadLock, WriteLock, TryReadLock, TryWriteLock, Sporadic,
               UnlockSet, WriterReset, TryWriterLooks, Return
        <3> QED
            BY <3>1, Stutters
    <2> QED
        BY <1>2, <2>1, <2>2, <2>3, <2>4 DEF Step
<1> QED
    BY <1>1, <1>2 DEF RwNext

-----------------------------------------------------------------------------
(* Theorems. *)

THEOREM RwInvariant == RwSpec => []RwInv
    BY RwInitial, RwInvKept, PTL DEF RwSpec

(* Every value has its type, and the assertion of Unlock holds. *)
THEOREM RwTypeCorrect == RwSpec => []RwTypeOK
<1>1. RwInv => RwTypeOK
    BY DEF RwInv
<1> QED
    BY <1>1, RwInvariant, PTL

(* The count means what the comment on _count says. *)
THEOREM CountCorrect == RwSpec => []CountMeans
<1>1. RwInv => CountMeans
    BY DEF RwInv
<1> QED
    BY <1>1, RwInvariant, PTL

(* A thread asleep on the simple lock is not forgotten. *)
THEOREM LockSleepersCorrect == RwSpec => []LockSleepersRemembered
<1>1. RwInit => LockSleepersRemembered
    BY DEF RwInit, LockInit, LockSleepersRemembered, Sleepers
<1>2. RwTypeOK /\ LockSleepersRemembered /\ [RwNext]_rwVars => LockSleepersRemembered'
    BY LockSleepersKept
<1> QED
    BY <1>1, <1>2, RwTypeCorrect, PTL DEF RwSpec

(* At most one writer is asleep on the semaphore, it has a reader left to  *)
(* wake it, and the reader will find it announced.                         *)
THEOREM WriterSleepCorrect == RwSpec => []WriterSleepRemembered
<1>1. RwInit => SetterLeft /\ SleepAnnounced
    BY DEF RwInit, SemInit, SetterLeft, SleepAnnounced, Waiting, Sleepers
<1>2. RwInv /\ SetterLeft /\ [RwNext]_rwVars => SetterLeft'
    BY SetterLeftKept
<1>3. RwInv /\ SleepAnnounced /\ [RwNext]_rwVars => SleepAnnounced'
    BY SleepAnnouncedKept
<1>4. RwInv /\ SetterLeft /\ SleepAnnounced => WriterSleepRemembered
    <2> SUFFICES ASSUME RwInv, SetterLeft, SleepAnnounced, NEW t \in Sleepers(spc)
                 PROVE  /\ Sleepers(spc) = {t}
                        /\ \/ \E u \in Threads : spc[u] = "wake"
                           \/ /\ sem = CLEAR_WAITERS
                              /\ Readers # {} \/ \E u \in Threads : rpc[u] = "u_set"
        BY DEF WriterSleepRemembered
    <2>1. \A u \in Sleepers(spc) : u \in Waiting /\ u \in Claimants
        BY DEF RwInv, Places, InSem, Sleepers, Waiting, Claimants
    <2>2. Sleepers(spc) = {t}
        BY <2>1, ClaimantAlone
    <2>3. CASE ~\E u \in Threads : spc[u] = "wake"
        <3>1. sem = CLEAR_WAITERS /\ sem # SET
            BY <2>3 DEF SleepAnnounced, CLEAR_WAITERS, SET
        <3> QED
            BY <2>1, <2>2, <2>3, <3>1 DEF SetterLeft
    <2> QED
        BY <2>2, <2>3
<1> QED
    BY <1>1, <1>2, <1>3, <1>4, RwInvariant, PTL DEF RwSpec

(* While a call is in progress some thread in a call is not blocked in the *)
(* kernel: those that sleep for the lock and the writer that sleeps on the *)
(* semaphore never wait for each other only.                               *)
NeverAllAsleep ==
    LET awake == {u \in Threads : /\ rpc[u] # "idle"
                                  /\ u \notin Sleepers(lpc) \cup Sleepers(spc)}
    IN  (\E t \in Threads : rpc[t] # "idle") => awake # {}

THEOREM DeadlockFree == RwSpec => []NeverAllAsleep
<1> DEFINE Awake(u) == rpc[u] # "idle" /\ lpc[u] # "asleep" /\ spc[u] # "asleep"
<1>1. ASSUME RwInv, WriterSleepRemembered, NEW t \in Threads, spc[t] = "asleep"
      PROVE  \E u \in Threads : Awake(u)
    <2>1. \/ \E u \in Threads : spc[u] = "wake"
          \/ \E u \in Threads : rpc[u] \in {"r_unlock", "reading", "u_set"}
        BY <1>1 DEF WriterSleepRemembered, Sleepers, Readers
    <2>2. \A u \in Threads : spc[u] = "wake" => rpc[u] = "u_wake" /\ lpc[u] = "out"
        BY <1>1 DEF RwInv, Places, InLock, InSem, Awaiting
    <2>3. ASSUME NEW u \in Threads, rpc[u] \in {"r_unlock", "reading", "u_set"}
          PROVE  spc[u] = "out" /\ lpc[u] # "asleep"
        BY <1>1, <2>3 DEF RwInv, Places, InLock, InSem, Releasing
    <2> QED
        BY <2>1, <2>2, <2>3
<1>2. ASSUME RwInv, WriterSleepRemembered, LockSleepersRemembered,
             NEW t \in Threads, lpc[t] = "asleep"
      PROVE  \E u \in Threads : Awake(u)
    <2>1. PICK u \in Threads : lpc[u] \in {"held", "dec", "store", "wake", "swap"}
        BY <1>2 DEF LockSleepersRemembered, Sleepers, RwInv, LockInv, Owns,
                    MAYBE_WAITERS, UNLOCKED
    <2>2. rpc[u] # "idle" /\ lpc[u] # "asleep"
        BY <1>2, <2>1 DEF RwInv, Places, InLock
    <2>3. CASE spc[u] = "asleep"
        BY <1>1, <1>2, <2>3
    <2> QED
        BY <2>2, <2>3
<1>3. RwInv /\ WriterSleepRemembered /\ LockSleepersRemembered => NeverAllAsleep
    BY <1>1, <1>2 DEF NeverAllAsleep, Sleepers
<1> QED
    BY <1>3, RwInvariant, WriterSleepCorrect, LockSleepersCorrect, PTL

(* Readers share, a writer is alone, and no reader overtakes a writer that *)
(* is next in line: the code implements AbstractRwLock.                    *)
THEOREM RwRefinement == RwSpec => RwImplemented
<1>1. RwInit => Rw!AInit
    <2> SUFFICES ASSUME RwInit PROVE Rw!AInit
        OBVIOUS
    <2>1. Readers = {} /\ Claimants = {} /\ Writing = {}
        BY DEF RwInit, Readers, Claimants, Waiting, Writing
    <2> QED
        BY <2>1, ClaimantIs DEF Rw!AInit
<1>2. RwInv /\ [RwNext]_rwVars => [Rw!ANext]_Rw!avars
    BY RwStepImplements
<1> QED
    BY <1>1, <1>2, RwInvariant, PTL DEF RwSpec, RwImplemented, Rw!ASpec

=============================================================================
