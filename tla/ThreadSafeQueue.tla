---------------------------- MODULE ThreadSafeQueue ----------------------------
(***************************************************************************)
(* ThreadSafeQueue: a queue, a mutex and a condition variable.  Threads    *)
(* push one or several elements, pop one and wait for it, or pop one if    *)
(* there is one.  await() releases the mutex, blocks until a signal or     *)
(* without a reason, and takes the mutex again.                            *)
(***************************************************************************)
EXTENDS Integers, Sequences, FiniteSets

CONSTANTS
    Threads,
    Elements,
    Batches,     \* what a thread pushes at once
    MaxPushed    \* how many elements are pushed in a behaviour

None == "none"   \* nobody holds queue_mutex_

\* What the theorems require of the constants.
Assumptions ==
    /\ IsFiniteSet(Threads) /\ None \notin Threads
    /\ Batches \subseteq Seq(Elements)
    /\ MaxPushed \in Nat

VARIABLES
    internal_queue,
    num_waiters,
    mutex,       \* who holds queue_mutex_
    pc,          \* where a thread is
    batch,       \* what it is about to push
    pushed,      \* all that was pushed, in order
    popped       \* all that was popped, in order

vars == <<internal_queue, num_waiters, mutex, pc, batch, pushed, popped>>

Places == {"idle", "push", "pushing", "pop", "entered", "testing", "await", "signalled", "try", "trying"}

Inside == {"pushing", "entered", "testing", "trying"}

TypeOK ==
    /\ internal_queue \in Seq(Elements)
    /\ num_waiters \in Nat
    /\ mutex \in Threads \cup {None}
    /\ pc \in [Threads -> Places]
    /\ batch \in [Threads -> Seq(Elements)]
    /\ pushed \in Seq(Elements)
    /\ popped \in Seq(Elements)

Init ==
    /\ internal_queue = <<>>
    /\ num_waiters = 0
    /\ mutex = None
    /\ pc = [t \in Threads |-> "idle"]
    /\ batch = [t \in Threads |-> <<>>]
    /\ pushed = <<>>
    /\ popped = <<>>

-------------------------------------------------------------------------------

Go(t, from, to) == pc[t] = from /\ pc' = [pc EXCEPT ![t] = to]

Call(t, operation) ==
    /\ Go(t, "idle", operation)
    /\ UNCHANGED <<internal_queue, num_waiters, mutex, batch, pushed, popped>>

CallPush(t) ==
    \E b \in Batches :
        /\ Len(pushed) + Len(b) <= MaxPushed
        /\ Go(t, "idle", "push")
        /\ batch' = [batch EXCEPT ![t] = b]
        /\ UNCHANGED <<internal_queue, num_waiters, mutex, pushed, popped>>

Lock(t, from, to) ==
    /\ mutex = None
    /\ mutex' = t
    /\ Go(t, from, to)
    /\ UNCHANGED <<internal_queue, num_waiters, batch, pushed, popped>>

\* Mutant: one of those who wait.
SignalOne(t) ==
    \/ /\ \A u \in Threads : pc[u] # "await"
       /\ pc' = [pc EXCEPT ![t] = "idle"]
    \/ \E u \in Threads \ {t} : pc[u] = "await" /\ pc' = [pc EXCEPT ![t] = "idle", ![u] = "signalled"]

\* signalAll(): everybody who waits leaves await() when it gets the mutex.
SignalAll(t) ==
    pc' = [u \in Threads |-> IF u = t THEN "idle" ELSE IF pc[u] = "await" THEN "signalled" ELSE pc[u]]

\* Mutant: the elements go in one after the other, in front of the rest.
PushInFront(t) ==
    /\ pc[t] = "pushing"
    /\ internal_queue' = batch[t] \o internal_queue
    /\ pushed' = pushed \o batch[t]
    /\ SignalAll(t)
    /\ mutex' = None
    /\ UNCHANGED <<num_waiters, batch, popped>>

\* push() and pushMultiple().
Push(t) ==
    /\ pc[t] = "pushing"
    /\ internal_queue' = internal_queue \o batch[t]
    /\ pushed' = pushed \o batch[t]
    /\ SignalAll(t)
    /\ mutex' = None
    /\ UNCHANGED <<num_waiters, batch, popped>>

\* The front goes to the thread, which returns.
TakeFront(t) ==
    /\ internal_queue # <<>>
    /\ internal_queue' = Tail(internal_queue)
    /\ popped' = Append(popped, Head(internal_queue))
    /\ pc' = [pc EXCEPT ![t] = "idle"]

Await(t) ==
    /\ internal_queue = <<>>
    /\ pc' = [pc EXCEPT ![t] = "await"]
    /\ UNCHANGED <<internal_queue, popped>>

\* popOne() counts itself among the waiters only if there is nothing when it
\* enters.
EnterPop(t) ==
    /\ pc[t] = "entered"
    /\ \/ TakeFront(t) /\ UNCHANGED num_waiters
       \/ Await(t) /\ num_waiters' = num_waiters + 1
    /\ mutex' = None
    /\ UNCHANGED <<batch, pushed>>

SpuriousWakeup(t) ==
    /\ Go(t, "await", "signalled")
    /\ UNCHANGED <<internal_queue, num_waiters, mutex, batch, pushed, popped>>

\* The test of the loop after await().
Retest(t) ==
    /\ pc[t] = "testing"
    /\ \/ TakeFront(t) /\ num_waiters' = num_waiters - 1
       \/ Await(t) /\ UNCHANGED num_waiters
    /\ mutex' = None
    /\ UNCHANGED <<batch, pushed>>

popOneIfAvailable(t) ==
    /\ pc[t] = "trying"
    /\ \/ TakeFront(t)
       \/ internal_queue = <<>> /\ Go(t, "trying", "idle") /\ UNCHANGED <<internal_queue, popped>>
    /\ mutex' = None
    /\ UNCHANGED <<num_waiters, batch, pushed>>

\* What a thread does once it has called.
Works(t) ==
    \/ Lock(t, "push", "pushing") \/ Push(t)
    \/ Lock(t, "pop", "entered") \/ EnterPop(t)
    \/ Lock(t, "signalled", "testing") \/ Retest(t)
    \/ Lock(t, "try", "trying") \/ popOneIfAvailable(t)

Next ==
    \E t \in Threads :
        \/ CallPush(t) \/ Call(t, "pop") \/ Call(t, "try")
        \/ SpuriousWakeup(t)
        \/ Works(t)

Spec == Init /\ [][Next]_vars

FairSpec == Spec /\ \A t \in Threads : WF_vars(Works(t))

-------------------------------------------------------------------------------
(* Properties *)

\* Every element comes out once and in the order in which they went in,
\* whichever of popOne() and popOneIfAvailable() takes them.
FifoExact == popped \o internal_queue = pushed

\* Only the holder of queue_mutex_ is between lock and unlock.
HolderAlone == \A t \in Threads : pc[t] \in Inside <=> mutex = t

\* No wakeup is lost: nobody is blocked in await() while there is an element.
NoLostWakeup == internal_queue # <<>> => \A t \in Threads : pc[t] # "await"

Waiting == {t \in Threads : pc[t] \in {"await", "signalled", "testing"}}

\* numWaitingThreads() is exact whenever nobody is inside.
WaitersExact == num_waiters = Cardinality(Waiting)

\* Nobody stays in popOne() while there is an element.
NothingStranded ==
    <>[](internal_queue = <<>> \/ \A t \in Threads : pc[t] \notin {"pop", "entered", "await", "signalled", "testing"})

Fifo == INSTANCE FifoQueue WITH contents <- internal_queue

\* The queue implements the abstract one: a batch goes in as one, and only
\* the front comes out.
ImplementsFifo == Fifo!FifoSpec

===============================================================================
