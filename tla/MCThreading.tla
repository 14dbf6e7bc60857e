---------------------------- MODULE MCThreading ----------------------------
(***************************************************************************)
(* The spinning and the blocking reader-writer lock and the queue threads  *)
(* share, for the model checker: an initial state chooses one of them, and *)
(* the others stay as they are.                                            *)
(***************************************************************************)
EXTENDS SpinSharedMutex, Sequences

CONSTANTS
    QueueThreads,  \* the threads that use the queue
    Elements,      \* what they push and pop,
    Batches,       \* and how much of it at once
    MaxPushed      \* bound: elements pushed in a behaviour

VARIABLES
    part,            \* "spin", "block" or "queue"
    word, place,     \* state and pc of SharedMutex
    internal_queue, num_waiters, mutex, at, batch, pushed, popped
                     \* see ThreadSafeQueue, whose pc is at

Blocking == INSTANCE SharedMutex WITH kWriteMask <- kWriteBit, state <- word, pc <- place
Queue == INSTANCE ThreadSafeQueue
           WITH Threads <- QueueThreads, pc <- at

\* One element, or two different ones.
MCBatches == {<<1>>, <<2, 1>>}

ASSUME BlockingAssumption == Blocking!ThreadsAssumption
ASSUME QueueAssumption == Queue!Assumptions

block == <<word, place>>
queue == <<internal_queue, num_waiters, mutex, at, batch, pushed, popped>>
suite == <<part, vars, block, queue>>

SuiteInit == part \in {"spin", "block", "queue"} /\ Init /\ Blocking!Init /\ Queue!Init

SuiteNext ==
    \/ part = "spin" /\ Next /\ UNCHANGED <<part, block, queue>>
    \/ part = "block" /\ Blocking!Next /\ UNCHANGED <<part, vars, queue>>
    \/ part = "queue" /\ Queue!Next /\ UNCHANGED <<part, vars, block>>

\* The fairness of the three modules.
SuiteSpec ==
    /\ SuiteInit /\ [][SuiteNext]_suite
    /\ \A t \in Threads : /\ WF_vars(part = "spin" /\ Step(t))
                          /\ WF_block(part = "block" /\ Blocking!Step(t))
    /\ \A t \in QueueThreads : WF_queue(part = "queue" /\ Queue!Works(t))

-----------------------------------------------------------------------------
(***************************************************************************)
(* The word of either lock counts its holders exactly, readers and a       *)
(* writer never meet, nobody who waits is forgotten by a signal; and       *)
(* likewise for the queue: elements come out in order, nobody waits beside *)
(* an element that no signal announces.                                    *)
(***************************************************************************)
SharedStateExact ==
    /\ TypeOK /\ MutualExclusion
    /\ Blocking!TypeOK /\ Blocking!WordExact /\ Blocking!NobodyForgotten
    /\ Queue!TypeOK /\ Queue!FifoExact /\ Queue!HolderAlone
    /\ Queue!NoLostWakeup /\ Queue!WaitersExact

\* SharedMutex implements the abstract reader-writer lock, ...
ImplementsLock == Blocking!ImplementsLock

\* ... and ThreadSafeQueue the abstract queue.
ImplementsFifo == Queue!ImplementsFifo

\* A writer that waits gets either lock, of those who want the spinning one
\* somebody gets it, and a popOne() does not wait for ever beside an element.
ThreadsProgress ==
    /\ WriterGetsIn /\ SomebodyGetsIn
    /\ Blocking!WriterAdmitted /\ Queue!NothingStranded
=============================================================================
