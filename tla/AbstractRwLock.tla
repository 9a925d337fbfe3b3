---------------------------- MODULE AbstractRwLock ----------------------------
(***************************************************************************)
(* What READER_WRITER_LOCK promises (sync/reader-writer-lock.hpp) and how  *)
(* the futex implementation says it treats writers: readers share, a       *)
(* writer is alone, and from the moment a writer is next in line no new    *)
(* reader comes in.                                                        *)
(***************************************************************************)
CONSTANTS Threads, Nobody

VARIABLES
    readers,   \* the threads that own the lock for reading
    claimant,  \* the writer next in line, or Nobody
    writing    \* whether it owns the lock

avars == <<readers, claimant, writing>>

AInit == readers = {} /\ claimant = Nobody /\ writing = FALSE

AcquireRead(t) ==
    /\ claimant = Nobody
    /\ t \notin readers
    /\ readers' = readers \cup {t}
    /\ UNCHANGED <<claimant, writing>>

(* Gets in line, and in at once if there is nobody to wait for. *)
ClaimWrite(t) ==
    /\ claimant = Nobody
    /\ t \notin readers
    /\ claimant' = t
    /\ writing' = (readers = {})
    /\ UNCHANGED readers

AcquireWrite ==
    /\ claimant # Nobody
    /\ ~writing
    /\ readers = {}
    /\ writing' = TRUE
    /\ UNCHANGED <<readers, claimant>>

ReleaseRead(t) ==
    /\ t \in readers
    /\ readers' = readers \ {t}
    /\ UNCHANGED <<claimant, writing>>

ReleaseWrite ==
    /\ writing
    /\ claimant' = Nobody
    /\ writing' = FALSE
    /\ UNCHANGED readers

ANext ==
    \/ \E t \in Threads : AcquireRead(t) \/ ClaimWrite(t) \/ ReleaseRead(t)
    \/ AcquireWrite
    \/ ReleaseWrite

ASpec == AInit /\ [][ANext]_avars

=============================================================================
