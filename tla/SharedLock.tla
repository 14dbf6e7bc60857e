----------------------------- MODULE SharedLock -----------------------------
(***************************************************************************)
(* What a shared mutex promises: any number of threads hold it in shared   *)
(* mode, or one holds it in exclusive mode.                                *)
(***************************************************************************)
CONSTANT Threads

VARIABLES
    readers,  \* threads that hold the mutex in shared mode
    writers   \* threads that hold it in exclusive mode

lockVars == <<readers, writers>>

LockInit == readers = {} /\ writers = {}

AcquireShared(t) ==
    /\ writers = {} /\ t \notin readers
    /\ readers' = readers \cup {t}
    /\ writers' = writers

ReleaseShared(t) ==
    /\ t \in readers
    /\ readers' = readers \ {t}
    /\ writers' = writers

AcquireExclusive(t) ==
    /\ readers = {} /\ writers = {}
    /\ writers' = {t}
    /\ readers' = readers

ReleaseExclusive(t) ==
    /\ t \in writers
    /\ writers' = writers \ {t}
    /\ readers' = readers

LockNext ==
    \E t \in Threads : \/ AcquireShared(t) \/ ReleaseShared(t)
                       \/ AcquireExclusive(t) \/ ReleaseExclusive(t)

LockSpec == LockInit /\ [][LockNext]_lockVars
=============================================================================
