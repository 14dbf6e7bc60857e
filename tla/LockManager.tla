---------------------------- MODULE LockManager ----------------------------
(***************************************************************************)
(* LockManager and TransactionTable: one thread that takes lock requests   *)
(* off a queue, acquires the locks from the root of the resource hierarchy *)
(* to the leaf, retries the requests of an inner queue, and reports the    *)
(* permitted ones.  The deadlock detector reports no victim here.          *)
(*                                                                         *)
(* The transactions are external: each one asks for the locks of its       *)
(* script one after the other, waiting for each permission, and finally    *)
(* releases all of them.                                                   *)
(***************************************************************************)
EXTENDS LockTable

CONSTANTS
    Script,  \* Script[t]: the locks transaction t asks for, in order
    MaxTry   \* FLAGS_max_try_incoming, which bounds both loops of run()

ASSUME ScriptAssumption ==
    /\ Script \in [Transactions -> Seq([rid : Resources, mode : Modes])]
    /\ MaxTry \in Nat \ {0}

VARIABLES
    asked,      \* requests each transaction has sent; its release comes last
    incoming,   \* incoming_requests_
    inner,      \* inner_pending_requests_
    permitted,  \* everything pushed to permitted_requests_, in order
    pc,         \* what the lock manager's thread does next
    tries,      \* iterations of the current loop of run()
    job,        \* the request at hand, see NoJob
    table,      \* the lock table
    tx          \* the transaction table

clients == <<asked, permitted>>
vars == <<asked, incoming, inner, permitted, pc, tries, job, table, tx>>

Loops   == {"incoming", "inner"}
Killing == {"kill", "clear", "store"}   \* in killVictims(), see DeadLockDetector
Acquire == [type : {"acquire"}, tid : Transactions, rid : Resources, mode : Modes]
Request == Acquire \cup [type : {"release"}, tid : Transactions]

(***************************************************************************)
(*   req   the request                                                     *)
(*   loop  the loop of run() it was taken up by                            *)
(*   locks acquireLock(): the stack of locks still to be acquired, top     *)
(*         first; releaseAllLocks(): the resources still to be released    *)
(***************************************************************************)
Acquisition ==
    [req : Acquire, loop : Loops, locks : Seq([rid : Resources, mode : Modes]) \ {<<>>}]
ReleaseJob ==
    [req : [type : {"release"}, tid : Transactions], loop : Loops \cup {"kill"}, locks : Seq(Resources)]
NoJob == [req |-> [type |-> "none"], loop |-> "incoming", locks |-> <<>>]

Init ==
    /\ asked = [t \in Transactions |-> 0]
    /\ incoming = <<>> /\ inner = <<>> /\ permitted = <<>>
    /\ pc = "incoming" /\ tries = 0
    /\ job = NoJob
    /\ table = EmptyTable
    /\ tx = [t \in Transactions |-> [own |-> <<>>, pending |-> <<>>]]

-----------------------------------------------------------------------------
(* The transactions *)

Permitted(t) == {i \in DOMAIN permitted : permitted[i].tid = t}

requestLock(t) ==
    /\ asked[t] < Len(Script[t])
    /\ Cardinality(Permitted(t)) = asked[t]
    /\ LET s == Script[t][asked[t] + 1]
       IN  incoming' = Append(incoming, [type |-> "acquire", tid |-> t,
                                         rid |-> s.rid, mode |-> s.mode])
    /\ asked' = [asked EXCEPT ![t] = @ + 1]
    /\ UNCHANGED <<inner, permitted, pc, tries, job, table, tx>>

requestRelease(t) ==
    /\ asked[t] = Len(Script[t])
    /\ Cardinality(Permitted(t)) = asked[t]
    /\ incoming' = Append(incoming, [type |-> "release", tid |-> t])
    /\ asked' = [asked EXCEPT ![t] = @ + 1]
    /\ UNCHANGED <<inner, permitted, pc, tries, job, table, tx>>

-----------------------------------------------------------------------------
(* The loops of run() *)

Acquiring(req, loop) ==
    [req |-> req, loop |-> loop, locks |-> <<[rid |-> req.rid, mode |-> req.mode]>>]

\* getResourceIdList(): the pending resources, then the owned ones.
Releasing(req, loop) ==
    [req |-> req, loop |-> loop, locks |-> tx[req.tid].pending \o tx[req.tid].own]

popIncoming ==
    /\ pc = "incoming" /\ tries < MaxTry /\ incoming # <<>>
    /\ incoming' = Tail(incoming)
    /\ LET req == Head(incoming)
       IN  IF req.type = "release"
           THEN /\ job' = Releasing(req, "incoming")
                /\ tx' = [tx EXCEPT ![req.tid] = [own |-> <<>>, pending |-> <<>>]]
                /\ pc' = "release"
           ELSE /\ job' = Acquiring(req, "incoming")
                /\ pc' = "climb"
                /\ tx' = tx
    /\ tries' = tries + 1
    /\ UNCHANGED <<asked, inner, permitted, table>>

tryInner ==
    /\ pc = "inner" /\ tries < MaxTry /\ inner # <<>>
    /\ job' = Acquiring(Head(inner), "inner")
    /\ pc' = "climb"
    /\ tries' = tries + 1
    /\ UNCHANGED <<clients, incoming, inner, table, tx>>

\* An iteration that finds its queue empty.
pollEmpty ==
    /\ \/ pc = "incoming" /\ incoming = <<>>
       \/ pc = "inner" /\ inner = <<>>
    /\ tries < MaxTry
    /\ tries' = tries + 1
    /\ UNCHANGED <<clients, incoming, inner, pc, job, table, tx>>

\* The end of a loop; after the second one killVictims() finds no victim.
endLoop ==
    /\ pc \in Loops /\ tries = MaxTry
    /\ tries' = 0
    /\ pc' = IF pc = "incoming" THEN "inner" ELSE "incoming"
    /\ UNCHANGED <<clients, incoming, inner, job, table, tx>>

-----------------------------------------------------------------------------
(* acquireLock(), under the exclusive latch of the lock table *)

\* One iteration of the loop that stacks the intention locks.
climb ==
    /\ pc = "climb"
    /\ LET top == Head(job.locks)
       IN  IF Parent[top.rid] # NoParent
           THEN /\ job' = [job EXCEPT !.locks =
                      <<[rid |-> Parent[top.rid], mode |-> intention(top.mode)]>> \o @]
                /\ pc' = pc
           ELSE /\ pc' = "put"
                /\ job' = job
    /\ UNCHANGED <<clients, incoming, inner, tries, table, tx>>

\* What run() does with the answer of acquireLock().  In the loop over the
\* incoming requests the two branches are exchanged: a request whose locks were
\* acquired goes to the inner queue, one that has to wait is permitted.
Answer(acquired) ==
    /\ pc' = job.loop
    /\ job' = NoJob
    /\ IF job.loop = "incoming"
       THEN IF acquired
            THEN inner' = Append(inner, job.req) /\ permitted' = permitted
            ELSE permitted' = Append(permitted, job.req) /\ inner' = inner
       ELSE IF acquired
            THEN inner' = Tail(inner) /\ permitted' = Append(permitted, job.req)
            ELSE UNCHANGED <<inner, permitted>>

\* Mutant: a lock placed in the pending list is not recorded.
PutUnrecorded ==
    /\ pc = "put"
    /\ LET t == job.req.tid
           top == Head(job.locks)
           result == putLockResult(table, t, top.rid, top.mode)
       IN  /\ table' = putLock(table, t, top.rid, top.mode)
           /\ tx' = IF result = "placedInOwned"
                    THEN [tx EXCEPT ![t].own = Append(@, top.rid)] ELSE tx
           /\ IF result \in {"alreadyInOwned", "placedInOwned"} /\ Len(job.locks) > 1
              THEN /\ job' = [job EXCEPT !.locks = Tail(@)]
                   /\ UNCHANGED <<pc, inner, permitted>>
              ELSE Answer(result \in {"alreadyInOwned", "placedInOwned"})
    /\ UNCHANGED <<asked, incoming, tries>>

\* acquireLockInternal() for the lock on top of the stack.
put ==
    /\ pc = "put"
    /\ LET t == job.req.tid
           top == Head(job.locks)
           result == putLockResult(table, t, top.rid, top.mode)
       IN  /\ table' = putLock(table, t, top.rid, top.mode)
           /\ tx' = IF result = "placedInOwned"
                    THEN [tx EXCEPT ![t].own = Append(@, top.rid)]
                    ELSE IF result = "placedInPending"
                    THEN [tx EXCEPT ![t].pending = Append(@, top.rid)]
                    ELSE tx
           /\ IF result \in {"alreadyInOwned", "placedInOwned"} /\ Len(job.locks) > 1
              THEN /\ job' = [job EXCEPT !.locks = Tail(@)]
                   /\ UNCHANGED <<pc, inner, permitted>>
              ELSE Answer(result \in {"alreadyInOwned", "placedInOwned"})
    /\ UNCHANGED <<asked, incoming, tries>>

-----------------------------------------------------------------------------
(* releaseAllLocks(), under the exclusive latch of the lock table *)

\* One iteration of its loop.  The thread may not come back from movePendingToOwned().
release ==
    /\ pc = "release" /\ job.locks # <<>>
    /\ LET t == job.req.tid
           r == Head(job.locks)
           result == deleteLockResult(table, t, r)
       IN  /\ table' = deleteLock(table, t, r)
           /\ pc' \in {"release"}
                \cup (IF result = "deleteFromOwned" /\ movePendingRunsOff(table', r)
                      THEN {"hung"} ELSE {})
    /\ job' = [job EXCEPT !.locks = Tail(@)]
    /\ UNCHANGED <<clients, incoming, inner, tries, tx>>

released ==
    /\ pc = "release" /\ job.locks = <<>>
    /\ pc' = job.loop
    /\ job' = NoJob
    /\ UNCHANGED <<clients, incoming, inner, tries, table, tx>>

-----------------------------------------------------------------------------
Run == popIncoming \/ tryInner \/ pollEmpty \/ endLoop \/ climb \/ put \/ release \/ released

Next ==
    \/ Run
    \/ \E t \in Transactions : requestLock(t) \/ requestRelease(t)

Spec == Init /\ [][Next]_vars

-----------------------------------------------------------------------------
(* Properties *)

\* Every variable keeps its type; the kind of request at hand fits the code the
\* thread is in.
TypeOK ==
    /\ asked \in [Transactions -> Nat]
    /\ incoming \in Seq(Request) /\ inner \in Seq(Acquire) /\ permitted \in Seq(Acquire)
    /\ tries \in 0 .. MaxTry
    /\ \/ pc \in Loops \cup Killing /\ job = NoJob
       \/ pc \in {"climb", "put"} /\ job \in Acquisition
       \/ pc \in {"release", "hung"} /\ job \in ReleaseJob
    /\ table \in TableType
    /\ tx \in [Transactions -> [own : Seq(Resources), pending : Seq(Resources)]]

\* The lock table can be looked at by others: the latch is free.
Unlatched == pc \in Loops

Owns(t, r, m) == Holds(table.own[r], t, m)

(***************************************************************************)
(* Any two locks owned on a resource are compatible, whatever the order of *)
(* requests and releases: putLock() is the only way into the owned list.   *)
(***************************************************************************)
OwnCompatible ==
    \A r \in Resources : \A i, j \in DOMAIN table.own[r] :
        i # j => isCompatible(table.own[r][i].mode, table.own[r][j].mode)

Entries(list, t) == Cardinality({i \in DOMAIN list : list[i].tid = t})
Times(list, r)   == Cardinality({i \in DOMAIN list : list[i] = r})

(***************************************************************************)
(* The two tables agree: a transaction's lists name a resource as often as *)
(* the resource's lists name the transaction.  releaseAllLocks() goes by   *)
(* the first table and a lock it misses would be held for ever.            *)
(***************************************************************************)
TablesAgree ==
    Unlatched => \A t \in Transactions, r \in Resources :
        /\ Times(tx[t].own, r) = Entries(table.own[r], t)
        /\ Times(tx[t].pending, r) = Entries(table.pending[r], t)

(***************************************************************************)
(* releaseAllLocks() finds every lock it goes to delete, so its CHECK on   *)
(* kDeleteError never fails.                                               *)
(***************************************************************************)
ReleaseFinds ==
    pc = "release" /\ job.locks # <<>>
        => deleteLockResult(table, job.req.tid, Head(job.locks)) # "deleteError"

Reads(m)  == m \in {"S", "SIX", "X"}

(***************************************************************************)
(* The intention locks protect what is inside a resource: while one        *)
(* transaction owns a lock that reads or writes the resource, no other     *)
(* owns a lock on one directly inside it that writes, or that reads when   *)
(* the first one writes.                                                   *)
(***************************************************************************)
NoHiddenConflict ==
    Unlatched => \A r \in Resources, t, u \in Transactions, m, n \in Modes :
        /\ t # u /\ Parent[r] # NoParent
        /\ Owns(t, Parent[r], m) /\ Owns(u, r, n)
        => ~(Reads(m) /\ n = "X") /\ ~(m = "X" /\ Reads(n))

(***************************************************************************)
(* The lock table protects the hierarchy, and the transaction table, by    *)
(* which locks are released, agrees with it.                               *)
(***************************************************************************)
LockTablesExact == TypeOK /\ TablesAgree /\ ReleaseFinds /\ NoHiddenConflict

(***************************************************************************)
(* Nobody is overtaken: a lock that becomes owned while requests wait for  *)
(* the resource is the one that waits longest, however well the new one    *)
(* would fit ("to eliminate starvation", putLock()).                       *)
(***************************************************************************)
NoOvertaking ==
    [][\A r \in Resources :
         Len(table'.own[r]) > Len(table.own[r]) =>
           \/ table.pending[r] = <<>>
           \/ table'.own[r][Len(table'.own[r])] = Head(table.pending[r])]_vars

(***************************************************************************)
(* A permitted request of a transaction that has not asked to release owns *)
(* its lock: "requests that are granted permission".                       *)
(***************************************************************************)
PermittedOwns ==
    Unlatched => \A i \in DOMAIN permitted :
        LET q == permitted[i]
        IN  asked[q.tid] <= Len(Script[q.tid]) => Owns(q.tid, q.rid, q.mode)

(***************************************************************************)
(* After a release the first pending entries that have become compatible   *)
(* are owned: the head of a pending list conflicts with some owned lock.   *)
(***************************************************************************)
PendingHasReason == Unlatched => \A r \in Resources : ~movePendingRunsOff(table, r)
=============================================================================
