----------------------------- MODULE SharedMutex -----------------------------
(***************************************************************************)
(* SharedMutexImplCPP11: the reader-writer lock that blocks.  A word like  *)
(* that of SpinSharedMutex is guarded by base_mutex_, and two condition    *)
(* variables say that the write bit is gone and that the last reader is.   *)
(* A stretch of code between taking base_mutex_ and giving it back, in     *)
(* await() too, is one step.                                               *)
(***************************************************************************)
EXTENDS Integers, FiniteSets

CONSTANTS
    Threads,
    kWriteMask   \* 2^31 in the code

ThreadsAssumption ==
    /\ IsFiniteSet(Threads)
    /\ kWriteMask \in Nat
    /\ Cardinality(Threads) < kWriteMask

VARIABLES
    state,  \* state_
    pc      \* where each thread is

vars == <<state, pc>>

\* A thread in one of the places that await blocks on a condition variable;
\* lock() awaits read_condition_ first and write_condition_ then.
Places == {"out", "lock", "awaitUnlock", "drain", "awaitReaders", "exclusive",
           "lockShared", "awaitWriter", "shared"}

hasWriteBit == state >= kWriteMask
readers     == state % kWriteMask

Init == state = 0 /\ pc = [t \in Threads |-> "out"]

Go(t, from, to) == pc[t] = from /\ pc' = [pc EXCEPT ![t] = to]

Call(t, operation) == Go(t, "out", operation) /\ state' = state

\* lock() up to the first await() or to the end: a writer takes the bit and
\* then waits for the readers.
testWriter(t) ==
    \/ /\ hasWriteBit
       /\ Go(t, "lock", "awaitUnlock")
       /\ state' = state
    \/ /\ ~hasWriteBit
       /\ state' = state + kWriteMask
       /\ Go(t, "lock", IF readers = 0 THEN "exclusive" ELSE "awaitReaders")

\* The second loop of lock(), after await().
drain(t) ==
    /\ Go(t, "drain", IF readers = 0 THEN "exclusive" ELSE "awaitReaders")
    /\ state' = state

\* read_condition_->signalAll() wakes writers and readers.
unlock(t) ==
    /\ pc[t] = "exclusive"
    /\ state' = 0
    /\ pc' = [u \in Threads |->
                CASE u = t                   -> "out"
                  [] pc[u] = "awaitUnlock"   -> "lock"
                  [] pc[u] = "awaitWriter"   -> "lockShared"
                  [] OTHER                   -> pc[u]]

\* Mutant: a reader does not look at the bit.
TestReaderBlind(t) == Go(t, "lockShared", "shared") /\ state' = state + 1

testReader(t) ==
    \/ /\ hasWriteBit
       /\ Go(t, "lockShared", "awaitWriter")
       /\ state' = state
    \/ /\ ~hasWriteBit
       /\ state' = state + 1
       /\ Go(t, "lockShared", "shared")

\* The last reader wakes one of those that wait for the readers, if any.
unlockShared(t) ==
    /\ pc[t] = "shared"
    /\ state' = state - 1
    /\ LET draining == {u \in Threads : pc[u] = "awaitReaders"}
       IN  IF state - 1 = kWriteMask /\ draining # {}
           THEN \E u \in draining : pc' = [pc EXCEPT ![t] = "out", ![u] = "drain"]
           ELSE pc' = [pc EXCEPT ![t] = "out"]

\* await() may return without a signal.
spurious(t) ==
    /\ \/ Go(t, "awaitUnlock", "lock")
       \/ Go(t, "awaitReaders", "drain")
       \/ Go(t, "awaitWriter", "lockShared")
    /\ state' = state

-------------------------------------------------------------------------------
Step(t) ==
    \/ testWriter(t) \/ drain(t) \/ unlock(t)
    \/ testReader(t) \/ unlockShared(t)

Next ==
    \E t \in Threads :
        Call(t, "lock") \/ Call(t, "lockShared") \/ spurious(t) \/ Step(t)

Spec == Init /\ [][Next]_vars

\* A thread that is not blocked goes on, and unlocks in the end.
FairSpec == Spec /\ \A t \in Threads : WF_vars(Step(t))

-------------------------------------------------------------------------------
(* Properties *)

In(places) == {t \in Threads : pc[t] \in places}

TypeOK == state \in 0 .. 2 * kWriteMask - 1 /\ pc \in [Threads -> Places]

\* The word counts the readers, and its write bit is the one writer's that
\* holds the mutex or waits for the readers; the DCHECKs of unlock() and
\* unlockShared() follow.
WordExact ==
    /\ state = Cardinality(In({"shared"}))
                 + (IF In({"drain", "awaitReaders", "exclusive"}) = {} THEN 0 ELSE kWriteMask)
    /\ Cardinality(In({"drain", "awaitReaders", "exclusive"})) <= 1

\* No wakeup is lost: nobody is blocked behind a write bit that is not set,
\* and no writer behind readers that have left.
NobodyForgotten ==
    /\ ~hasWriteBit => In({"awaitUnlock", "awaitWriter"}) = {}
    /\ readers = 0 => In({"awaitReaders"}) = {}

\* This mutex too implements the abstract lock of SharedLock.
Abstract == INSTANCE SharedLock WITH readers <- In({"shared"}), writers <- In({"exclusive"})
ImplementsLock == Abstract!LockSpec

\* A writer that has taken the bit gets the mutex: new readers are kept out
\* and the last one that is there wakes it.
WriterAdmitted == \A t \in Threads : (pc[t] = "awaitReaders") ~> (pc[t] = "exclusive")

===============================================================================
