-------------------------- MODULE SpinSharedMutex --------------------------
(***************************************************************************)
(* SpinSharedMutex: a reader-writer lock in one atomic word.  The top bit  *)
(* says that a writer holds the lock or waits for the readers to leave;    *)
(* the rest counts readers, those included that have counted themselves    *)
(* and are about to back off.  Each atomic operation is a step of its own. *)
(***************************************************************************)
EXTENDS Integers, FiniteSets

CONSTANTS
    Threads,
    kWriteBit   \* 2^31 in the code; the count wraps into it

ASSUME ThreadsAssumption ==
    /\ IsFiniteSet(Threads)
    /\ kWriteBit \in Nat
    /\ Cardinality(Threads) < kWriteBit

VARIABLES
    state,  \* state_, an unsigned integer of one bit more than the count
    pc      \* where each thread is

vars == <<state, pc>>

Places == {"out", "setBit", "drain", "exclusive", "count", "backOff", "spin", "shared"}

hasWriteBit(s) == s >= kWriteBit
fetch_add(n)   == state' = (state + n) % (2 * kWriteBit)

Init == state = 0 /\ pc = [t \in Threads |-> "out"]

Go(t, from, to) == pc[t] = from /\ pc' = [pc EXCEPT ![t] = to]

-----------------------------------------------------------------------------
(* lock() and unlock() *)

lock(t) == Go(t, "out", "setBit") /\ state' = state

\* fetch_or(kWriteBit), until the bit was clear before; readers or none, the
\* next loop looks at the count.
setBit(t) ==
    IF hasWriteBit(state)
    THEN pc[t] = "setBit" /\ UNCHANGED vars
    ELSE /\ Go(t, "setBit", IF state = 0 THEN "exclusive" ELSE "drain")
         /\ state' = state + kWriteBit

\* Mutant: the readers that are still there are not waited for.
DrainNobody(t) == Go(t, "drain", "exclusive") /\ state' = state

\* The loop that waits for the readers to leave.
drain(t) ==
    /\ state = kWriteBit
    /\ Go(t, "drain", "exclusive")
    /\ state' = state

\* Mutant: the whole word is cleared, not only the bit.
UnlockClears(t) == Go(t, "exclusive", "out") /\ state' = 0

unlock(t) ==
    /\ Go(t, "exclusive", "out")
    /\ state' = IF hasWriteBit(state) THEN state - kWriteBit ELSE state

-----------------------------------------------------------------------------
(* lockShared() and unlockShared() *)

lockShared(t) == Go(t, "out", "count") /\ state' = state

\* The reader counts itself before it knows whether there is a writer.
count(t) ==
    /\ Go(t, "count", IF hasWriteBit(state) THEN "backOff" ELSE "shared")
    /\ fetch_add(1)

backOff(t) ==
    /\ Go(t, "backOff", IF hasWriteBit(state) THEN "spin" ELSE "count")
    /\ fetch_add(-1)

\* Mutant: the reader tries again at once.
SpinOnce(t) == Go(t, "spin", "count") /\ state' = state

spin(t) ==
    /\ ~hasWriteBit(state)
    /\ Go(t, "spin", "count")
    /\ state' = state

unlockShared(t) == Go(t, "shared", "out") /\ fetch_add(-1)

-----------------------------------------------------------------------------
Step(t) ==
    \/ setBit(t) \/ drain(t) \/ unlock(t)
    \/ count(t) \/ backOff(t) \/ spin(t) \/ unlockShared(t)

Next == \E t \in Threads : lock(t) \/ lockShared(t) \/ Step(t)

Spec == Init /\ [][Next]_vars

\* A thread that has begun to lock or unlock goes on, and unlocks in the end.
FairSpec == Spec /\ \A t \in Threads : WF_vars(Step(t))

-----------------------------------------------------------------------------
(* Properties *)

In(places) == {t \in Threads : pc[t] \in places}

TypeOK == state \in 0 .. 2 * kWriteBit - 1 /\ pc \in [Threads -> Places]

(***************************************************************************)
(* The word counts exactly the readers and those about to back off, and    *)
(* its top bit is the one writer's: wrap-around and lost updates would     *)
(* show here first.                                                        *)
(***************************************************************************)
StateExact ==
    state = Cardinality(In({"shared", "backOff"}))
              + (IF In({"drain", "exclusive"}) = {} THEN 0 ELSE kWriteBit)

(***************************************************************************)
(* A writer is alone: no other writer and no reader holds the mutex.       *)
(***************************************************************************)
MutualExclusion ==
    \A t \in In({"exclusive"}) : In({"exclusive", "shared"}) = {t}

\* The mutex implements the abstract lock.
Abstract == INSTANCE SharedLock WITH readers <- In({"shared"}), writers <- In({"exclusive"})
Implements == Abstract!LockSpec

(***************************************************************************)
(* A writer that has set the bit gets in, however many readers come and    *)
(* go: they count themselves at most once more and then spin.              *)
(***************************************************************************)
WriterGetsIn == \A t \in Threads : (pc[t] = "drain") ~> (pc[t] = "exclusive")

\* Whoever wants the mutex while nobody holds the bit for good, some thread
\* that wants it gets it: the threads do not keep one another out for ever.
SomebodyGetsIn ==
    (In({"setBit", "drain", "count", "backOff", "spin"}) # {})
        ~> (In({"exclusive", "shared"}) # {})
=============================================================================
