------------------------- MODULE LockManagerProofs -------------------------
(***************************************************************************)
(* For every hierarchy of resources, any transactions and any scripts:     *)
(* type correctness of the lock manager, the compatibility of the locks    *)
(* that are owned, the order in which they are granted, the agreement of   *)
(* the lock table with the transaction table, and the protection of a      *)
(* subtree by the intention locks above it.                                *)
(***************************************************************************)
EXTENDS LockManager, Counting

-----------------------------------------------------------------------------
(* The compatibility matrix and lists of pairwise compatible locks *)

\* kLockCompatibilityMatrix is symmetric, so it does not matter that putLock()
\* asks the new lock about the owned ones and never the other way round.
LEMMA MatrixSymmetric ==
    ASSUME NEW m \in Modes, NEW n \in Modes, isCompatible(m, n)
    PROVE  isCompatible(n, m)
BY DEF isCompatible, Tolerates, Modes

Pairwise(list) ==
    \A i, j \in DOMAIN list : i # j => isCompatible(list[i].mode, list[j].mode)

\* A lock that fits every owned one may be appended.
LEMMA AppendPairwise ==
    ASSUME NEW list \in Seq(Entry), Pairwise(list), NEW e \in Entry,
           \A i \in DOMAIN list : isCompatible(e.mode, list[i].mode)
    PROVE  Append(list, e) \in Seq(Entry) /\ Pairwise(Append(list, e))
<1> DEFINE new == Append(list, e)
<1>1. new \in Seq(Entry) /\ Len(new) = Len(list) + 1 /\ DOMAIN new = 1 .. Len(list) + 1
  OBVIOUS
<1>2. \A i \in DOMAIN new : new[i] = IF i \in DOMAIN list THEN list[i] ELSE e
  OBVIOUS
<1>3. SUFFICES ASSUME NEW i \in DOMAIN new, NEW j \in DOMAIN new, i # j
               PROVE  isCompatible(new[i].mode, new[j].mode)
  BY <1>1 DEF Pairwise
<1>4. CASE i \in DOMAIN list /\ j \in DOMAIN list
  BY <1>2, <1>3, <1>4 DEF Pairwise
<1>5. CASE i \notin DOMAIN list
  <2>1. j \in DOMAIN list
    BY <1>1, <1>3, <1>5
  <2>2. QED
    BY <1>2, <1>5, <2>1
<1>6. CASE j \notin DOMAIN list
  <2>1. i \in DOMAIN list
    BY <1>1, <1>3, <1>6
  <2>2. list[i].mode \in Modes /\ e.mode \in Modes
    <3>1. list[i] \in Entry
      BY <2>1
    <3>2. QED
      BY <3>1 DEF Entry
  <2>3. QED
    BY <1>2, <1>6, <2>1, <2>2, MatrixSymmetric
<1>7. QED
  BY <1>4, <1>5, <1>6

\* What erasing one element leaves.
LEMMA WithoutElements ==
    ASSUME NEW S, NEW list \in Seq(S), NEW i \in DOMAIN list
    PROVE  /\ Without(list, i) \in Seq(S)
           /\ Len(Without(list, i)) = Len(list) - 1
           /\ \A j \in DOMAIN Without(list, i) :
                Without(list, i)[j] = list[IF j < i THEN j ELSE j + 1]
<1>1. Without(list, i) = Erased(list, i)
  BY DEF Without, Erased
<1>2. QED
  BY <1>1, ErasedElements

\* Erasing a lock leaves the others compatible.
LEMMA WithoutPairwise ==
    ASSUME NEW list \in Seq(Entry), Pairwise(list), NEW i \in DOMAIN list
    PROVE  Pairwise(Without(list, i))
<1> DEFINE new == Without(list, i)
<1> DEFINE old(j) == IF j < i THEN j ELSE j + 1
<1>1. new \in Seq(Entry) /\ Len(new) = Len(list) - 1 /\ \A j \in DOMAIN new : new[j] = list[old(j)]
  BY WithoutElements
<1>2. \A j \in DOMAIN new : old(j) \in DOMAIN list
  BY <1>1
<1>3. \A j, k \in DOMAIN new : j # k => old(j) # old(k)
  BY <1>1
<1> HIDE DEF new, old
<1>4. Pairwise(new)
  BY <1>1, <1>2, <1>3 DEF Pairwise
<1>5. QED
  BY <1>4 DEF new

-----------------------------------------------------------------------------
(* The operations of the lock table *)

\* Two well-typed maps make a table.
LEMMA TableOf ==
    ASSUME NEW o \in [Resources -> Seq(Entry)], NEW p \in [Resources -> Seq(Entry)]
    PROVE  [own |-> o, pending |-> p] \in TableType
BY DEF TableType

TablePairwise(tb) == \A r \in Resources : Pairwise(tb.own[r])

\* putLock() keeps the table well formed and its owned locks compatible, and
\* grants a lock only when none is pending.
LEMMA PutLock ==
    ASSUME NEW tb \in TableType, TablePairwise(tb),
           NEW t \in Transactions, NEW r \in Resources, NEW m \in Modes
    PROVE  /\ putLock(tb, t, r, m) \in TableType
           /\ TablePairwise(putLock(tb, t, r, m))
           /\ \A s \in Resources :
                Len(putLock(tb, t, r, m).own[s]) > Len(tb.own[s]) => tb.pending[s] = <<>>
<1> DEFINE e == [tid |-> t, mode |-> m]
<1> DEFINE new == putLock(tb, t, r, m)
<1>1. e \in Entry
  BY DEF Entry
<1>2. /\ tb.own \in [Resources -> Seq(Entry)] /\ tb.pending \in [Resources -> Seq(Entry)]
      /\ tb = [own |-> tb.own, pending |-> tb.pending]
  BY DEF TableType
<1>3. CASE putLockResult(tb, t, r, m) = "placedInOwned"
  <2>1. new = [tb EXCEPT !.own[r] = Append(@, e)]
    BY <1>3 DEF putLock
  <2>2. /\ tb.pending[r] = <<>>
        /\ \A i \in DOMAIN tb.own[r] : isCompatible(m, tb.own[r][i].mode)
    BY <1>3 DEF putLockResult
  <2>3. Append(tb.own[r], e) \in Seq(Entry) /\ Pairwise(Append(tb.own[r], e))
    BY <1>1, <1>2, <2>2, AppendPairwise DEF TablePairwise
  <2>4. /\ new.own = [tb.own EXCEPT ![r] = Append(@, e)]
        /\ new = [own |-> new.own, pending |-> tb.pending]
    BY <1>2, <2>1
  <2> HIDE DEF new
  <2>5. new \in TableType
    <3>1. new.own \in [Resources -> Seq(Entry)]
      BY <1>2, <2>3, <2>4
    <3>2. QED
      BY <1>2, <2>4, <3>1, TableOf
  <2>6. TablePairwise(new)
    BY <1>2, <2>3, <2>4 DEF TablePairwise
  <2>7. ASSUME NEW s \in Resources, Len(new.own[s]) > Len(tb.own[s])
        PROVE  tb.pending[s] = <<>>
    <3>1. s # r => new.own[s] = tb.own[s]
      BY <1>2, <2>4
    <3>2. Len(tb.own[s]) \in Nat
      BY <1>2
    <3>3. s = r
      BY <2>7, <3>1, <3>2
    <3>4. QED
      BY <2>2, <3>3
  <2>8. QED
    BY <2>5, <2>6, <2>7 DEF new
<1>4. CASE putLockResult(tb, t, r, m) = "placedInPending"
  <2>1. new = [tb EXCEPT !.pending[r] = Append(@, e)]
    BY <1>4 DEF putLock
  <2>2. /\ new.own = tb.own
        /\ new.pending = [tb.pending EXCEPT ![r] = Append(@, e)]
        /\ new = [own |-> tb.own, pending |-> new.pending]
    BY <1>2, <2>1
  <2> HIDE DEF new, e
  <2>3. new \in TableType
    <3>1. new.pending \in [Resources -> Seq(Entry)]
      BY <1>1, <1>2, <2>2
    <3>2. QED
      BY <1>2, <2>2, <3>1 DEF TableType
  <2>4. \A s \in Resources : Len(new.own[s]) = Len(tb.own[s]) /\ Len(tb.own[s]) \in Nat
    BY <1>2, <2>2
  <2>5. TablePairwise(new)
    BY <2>2 DEF TablePairwise
  <2>6. QED
    BY <2>3, <2>4, <2>5 DEF new
<1>5. CASE putLockResult(tb, t, r, m) \notin {"placedInOwned", "placedInPending"}
  <2>1. new = tb
    BY <1>5 DEF putLock
  <2>2. \A s \in Resources : Len(tb.own[s]) \in Nat
    BY <1>2
  <2>3. QED
    BY <2>1, <2>2
<1>6. QED
  BY <1>3, <1>4, <1>5

\* deleteLock() keeps the table well formed and its owned locks compatible, and
\* grants nothing.
LEMMA DeleteLock ==
    ASSUME NEW tb \in TableType, TablePairwise(tb), NEW t, NEW r \in Resources
    PROVE  /\ deleteLock(tb, t, r) \in TableType
           /\ TablePairwise(deleteLock(tb, t, r))
           /\ \A s \in Resources : ~(Len(deleteLock(tb, t, r).own[s]) > Len(tb.own[s]))
<1> DEFINE new == deleteLock(tb, t, r)
<1>1. /\ tb.own \in [Resources -> Seq(Entry)] /\ tb.pending \in [Resources -> Seq(Entry)]
      /\ tb = [own |-> tb.own, pending |-> tb.pending]
  BY DEF TableType
<1>2. \A s \in Resources : Len(tb.own[s]) \in Nat
  BY <1>1
<1>3. CASE First(tb.own[r], t) # {}
  <2> DEFINE i == CHOOSE i \in First(tb.own[r], t) : TRUE
  <2>1. new = [tb EXCEPT !.own[r] = Without(@, i)]
    BY <1>3 DEF deleteLock
  <2>2. i \in DOMAIN tb.own[r]
    BY <1>3 DEF First
  <2> HIDE DEF i
  <2>3. /\ Without(tb.own[r], i) \in Seq(Entry)
        /\ Len(Without(tb.own[r], i)) = Len(tb.own[r]) - 1
    BY <1>1, <2>2, WithoutElements
  <2>4. Pairwise(Without(tb.own[r], i))
    BY <1>1, <2>2, WithoutPairwise DEF TablePairwise
  <2>5. /\ new.own = [tb.own EXCEPT ![r] = Without(@, i)]
        /\ new = [own |-> new.own, pending |-> tb.pending]
    BY <1>1, <2>1
  <2> HIDE DEF new
  <2>6. new \in TableType
    <3>1. new.own \in [Resources -> Seq(Entry)]
      BY <1>1, <2>3, <2>5
    <3>2. QED
      BY <1>1, <2>5, <3>1, TableOf
  <2>7. TablePairwise(new)
    BY <1>1, <2>4, <2>5 DEF TablePairwise
  <2>8. ASSUME NEW s \in Resources PROVE ~(Len(new.own[s]) > Len(tb.own[s]))
    <3>1. CASE s = r
      BY <1>1, <1>2, <2>3, <2>5, <3>1
    <3>2. CASE s # r
      BY <1>1, <1>2, <2>5, <3>2
    <3>3. QED
      BY <3>1, <3>2
  <2>9. QED
    BY <2>6, <2>7, <2>8 DEF new
<1>4. CASE First(tb.own[r], t) = {} /\ First(tb.pending[r], t) # {}
  <2> DEFINE i == CHOOSE i \in First(tb.pending[r], t) : TRUE
  <2>1. new = [tb EXCEPT !.pending[r] = Without(@, i)]
    BY <1>4 DEF deleteLock
  <2>2. i \in DOMAIN tb.pending[r]
    BY <1>4 DEF First
  <2> HIDE DEF i
  <2>3. Without(tb.pending[r], i) \in Seq(Entry)
    BY <1>1, <2>2, WithoutElements
  <2>4. /\ new.own = tb.own
        /\ new.pending = [tb.pending EXCEPT ![r] = Without(@, i)]
        /\ new = [own |-> tb.own, pending |-> new.pending]
    BY <1>1, <2>1
  <2> HIDE DEF new
  <2>5. new \in TableType
    <3>1. new.pending \in [Resources -> Seq(Entry)]
      BY <1>1, <2>3, <2>4
    <3>2. QED
      BY <1>1, <2>4, <3>1 DEF TableType
  <2>6. TablePairwise(new)
    BY <2>4 DEF TablePairwise
  <2>7. QED
    BY <1>2, <2>4, <2>5, <2>6 DEF new
<1>5. CASE First(tb.own[r], t) = {} /\ First(tb.pending[r], t) = {}
  <2>1. new = tb
    BY <1>5 DEF deleteLock
  <2>2. QED
    BY <1>2, <2>1
<1>6. QED
  BY <1>3, <1>4, <1>5

-----------------------------------------------------------------------------
(* The thread and the transactions *)

\* The mode acquired on a parent is a mode.
LEMMA IntentionMode == ASSUME NEW m \in Modes PROVE intention(m) \in Modes
BY DEF intention, Modes

\* A table holds one well-typed pair of lists per transaction, whichever is
\* appended to.
LEMMA AppendTx ==
    ASSUME TypeOK, NEW t \in Transactions, NEW r \in Resources
    PROVE  /\ [tx EXCEPT ![t].own = Append(@, r)]
                \in [Transactions -> [own : Seq(Resources), pending : Seq(Resources)]]
           /\ [tx EXCEPT ![t].pending = Append(@, r)]
                \in [Transactions -> [own : Seq(Resources), pending : Seq(Resources)]]
<1>1. tx \in [Transactions -> [own : Seq(Resources), pending : Seq(Resources)]]
  BY DEF TypeOK
<1>2. tx[t].own \in Seq(Resources) /\ tx[t].pending \in Seq(Resources)
  BY <1>1
<1>3. Append(tx[t].own, r) \in Seq(Resources) /\ Append(tx[t].pending, r) \in Seq(Resources)
  BY <1>2
<1>4. QED
  BY <1>1, <1>2, <1>3

\* The request the inner loop is working on is still in its queue, so that it
\* can be popped when it is permitted.
InnerAtHand == pc \in {"climb", "put"} /\ job.loop = "inner" => inner # <<>>

IInv == TypeOK /\ OwnCompatible /\ InnerAtHand

LEMMA InitIInv == Init => IInv
<1> SUFFICES ASSUME Init PROVE IInv
  OBVIOUS
<1>1. table \in TableType /\ \A r \in Resources : table.own[r] = <<>>
  BY DEF Init, EmptyTable, TableType
<1>2. OwnCompatible
  BY <1>1 DEF OwnCompatible
<1>3. MaxTry \in Nat
  BY ScriptAssumption
<1>4. TypeOK
  BY <1>1, <1>3 DEF Init, TypeOK, Loops, Killing
<1>5. QED
  BY <1>2, <1>4 DEF IInv, InnerAtHand, Init

\* A request taken off the front of a queue is a request.
LEMMA HeadTail ==
    ASSUME NEW S, NEW q \in Seq(S), q # <<>>
    PROVE  Head(q) \in S /\ Tail(q) \in Seq(S)
OBVIOUS

\* What acquireLock() starts with.
LEMMA AcquiringType ==
    ASSUME NEW req \in Acquire, NEW loop \in Loops
    PROVE  Acquiring(req, loop) \in Acquisition
<1> DEFINE l == [rid |-> req.rid, mode |-> req.mode]
<1>1. l \in [rid : Resources, mode : Modes]
  BY DEF Acquire
<1> HIDE DEF l
<1>2. <<l>> \in Seq([rid : Resources, mode : Modes]) \ {<<>>}
  BY <1>1
<1>3. QED
  BY <1>2 DEF Acquiring, Acquisition, l

\* What releaseAllLocks() starts with.
LEMMA ReleasingType ==
    ASSUME TypeOK, NEW req \in [type : {"release"}, tid : Transactions], NEW loop \in Loops
    PROVE  Releasing(req, loop) \in ReleaseJob
<1>1. tx[req.tid].pending \in Seq(Resources) /\ tx[req.tid].own \in Seq(Resources)
  BY DEF TypeOK
<1>2. tx[req.tid].pending \o tx[req.tid].own \in Seq(Resources)
  BY <1>1
<1>3. QED
  BY <1>2 DEF Releasing, ReleaseJob

\* The client actions leave the lock table alone.
LEMMA ClientStep ==
    ASSUME IInv, NEW t \in Transactions, requestLock(t) \/ requestRelease(t)
    PROVE  IInv' /\ table' = table
<1> USE DEF IInv
<1>1. CASE requestLock(t)
  <2> DEFINE s == Script[t][asked[t] + 1]
             q == [type |-> "acquire", tid |-> t, rid |-> s.rid, mode |-> s.mode]
  <2>1. Script[t] \in Seq([rid : Resources, mode : Modes])
    BY ScriptAssumption
  <2>2. asked[t] \in Nat /\ asked[t] + 1 \in 1 .. Len(Script[t])
    BY <1>1, <2>1 DEF requestLock, TypeOK
  <2>3. s \in [rid : Resources, mode : Modes]
    BY <2>1, <2>2, ElementOfSeq
  <2> HIDE DEF s
  <2>4. q \in Request
    BY <2>3 DEF Request, Acquire
  <2>5. incoming' = Append(incoming, q) /\ asked' = [asked EXCEPT ![t] = @ + 1]
        /\ UNCHANGED <<inner, permitted, pc, tries, job, table, tx>>
    BY <1>1 DEF requestLock, s
  <2> HIDE DEF q
  <2>6. incoming' \in Seq(Request)
    BY <2>4, <2>5 DEF TypeOK
  <2>7. asked' \in [Transactions -> Nat]
    BY <2>2, <2>5 DEF TypeOK
  <2>8. TypeOK'
    BY <2>5, <2>6, <2>7 DEF TypeOK
  <2>9. QED
    BY <2>5, <2>8 DEF OwnCompatible, InnerAtHand
<1>2. CASE requestRelease(t)
  <2> DEFINE q == [type |-> "release", tid |-> t]
  <2>1. q \in Request
    BY DEF Request
  <2>2. incoming' = Append(incoming, q) /\ asked' = [asked EXCEPT ![t] = @ + 1]
        /\ UNCHANGED <<inner, permitted, pc, tries, job, table, tx>>
    BY <1>2 DEF requestRelease
  <2> HIDE DEF q
  <2>3. incoming' \in Seq(Request)
    BY <2>1, <2>2 DEF TypeOK
  <2>4. asked' \in [Transactions -> Nat]
    BY <2>2 DEF TypeOK
  <2>5. TypeOK'
    BY <2>2, <2>3, <2>4 DEF TypeOK
  <2>6. QED
    BY <2>2, <2>5 DEF OwnCompatible, InnerAtHand
<1>3. QED
  BY <1>1, <1>2

\* So do the steps of run() other than put and release.
LEMMA QuietStep ==
    ASSUME IInv, popIncoming \/ tryInner \/ pollEmpty \/ endLoop \/ climb \/ released
    PROVE  IInv' /\ table' = table
<1>1. MaxTry \in Nat /\ tries \in 0 .. MaxTry
  BY ScriptAssumption DEF IInv, TypeOK
<1>2. CASE popIncoming
  <2> DEFINE req == Head(incoming)
  <2>1. req \in Request /\ incoming' \in Seq(Request)
    BY <1>2, HeadTail DEF popIncoming, IInv, TypeOK
  <2>2. /\ tries' \in 0 .. MaxTry
        /\ asked' = asked /\ inner' = inner /\ permitted' = permitted /\ table' = table
    BY <1>1, <1>2 DEF popIncoming
  <2>3. CASE req.type = "release"
    <3>1. req \in [type : {"release"}, tid : Transactions]
      BY <2>1, <2>3 DEF Request, Acquire
    <3>2. /\ job' = Releasing(req, "incoming") /\ pc' = "release"
          /\ tx' = [tx EXCEPT ![req.tid] = [own |-> <<>>, pending |-> <<>>]]
      BY <1>2, <2>3 DEF popIncoming
    <3> HIDE DEF req
    <3>3. job' \in ReleaseJob
      BY <3>1, <3>2, ReleasingType DEF IInv, Loops, Killing
    <3>4. tx' \in [Transactions -> [own : Seq(Resources), pending : Seq(Resources)]]
      BY <3>1, <3>2 DEF IInv, TypeOK
    <3>5. QED
      BY <2>1, <2>2, <3>2, <3>3, <3>4 DEF IInv, TypeOK, OwnCompatible, InnerAtHand
  <2>4. CASE req.type # "release"
    <3>1. req \in Acquire
      BY <2>1, <2>4 DEF Request
    <3>2. job' = Acquiring(req, "incoming") /\ pc' = "climb" /\ tx' = tx
      BY <1>2, <2>4 DEF popIncoming
    <3> HIDE DEF req
    <3>3. job' \in Acquisition /\ job'.loop = "incoming"
      BY <3>1, <3>2, AcquiringType DEF Loops, Killing, Acquiring
    <3>4. QED
      BY <2>1, <2>2, <3>2, <3>3 DEF IInv, TypeOK, OwnCompatible, InnerAtHand
  <2>5. QED
    BY <2>3, <2>4
<1>3. CASE tryInner
  <2>1. Head(inner) \in Acquire
    BY <1>3, HeadTail DEF tryInner, IInv, TypeOK
  <2>2. /\ tries' \in 0 .. MaxTry /\ inner # <<>> /\ pc' = "climb"
        /\ job' = Acquiring(Head(inner), "inner")
        /\ UNCHANGED <<asked, permitted, incoming, inner, table, tx>>
    BY <1>1, <1>3 DEF tryInner, clients
  <2>3. job' \in Acquisition
    BY <2>1, <2>2, AcquiringType DEF Loops, Killing
  <2>4. QED
    BY <2>2, <2>3 DEF IInv, TypeOK, OwnCompatible, InnerAtHand
<1>4. CASE pollEmpty
  <2>1. tries' \in 0 .. MaxTry /\ UNCHANGED <<asked, permitted, incoming, inner, pc, job, table, tx>>
    BY <1>1, <1>4 DEF pollEmpty, clients
  <2>2. QED
    BY <2>1 DEF IInv, TypeOK, OwnCompatible, InnerAtHand
<1>5. CASE endLoop
  <2>1. /\ tries' \in 0 .. MaxTry /\ pc \in Loops /\ pc' \in Loops
        /\ UNCHANGED <<asked, permitted, incoming, inner, job, table, tx>>
    BY <1>1, <1>5 DEF endLoop, clients, Loops, Killing
  <2>2. job = NoJob
    BY <2>1 DEF IInv, TypeOK, Loops, Killing
  <2>3. TypeOK'
    BY <2>1, <2>2 DEF IInv, TypeOK
  <2>4. QED
    BY <2>1, <2>3 DEF IInv, OwnCompatible, InnerAtHand, Loops, Killing
<1>6. CASE climb
  <2> DEFINE top == Head(job.locks)
             up == [rid |-> Parent[top.rid], mode |-> intention(top.mode)]
  <2>1. /\ pc = "climb" /\ pc' \in {"climb", "put"}
        /\ UNCHANGED <<asked, permitted, incoming, inner, tries, table, tx>>
    BY <1>6 DEF climb, clients
  <2>2. job \in Acquisition
    BY <2>1 DEF IInv, TypeOK, Loops, Killing
  <2>3. job' \in Acquisition /\ job'.loop = job.loop
    <3>1. CASE Parent[top.rid] = NoParent
      BY <1>6, <2>2, <3>1 DEF climb
    <3>2. CASE Parent[top.rid] # NoParent
      <4>1. job.locks \in Seq([rid : Resources, mode : Modes]) /\ job.locks # <<>>
        BY <2>2 DEF Acquisition
      <4>2. top \in [rid : Resources, mode : Modes]
        BY <4>1, HeadTail
      <4>3. up \in [rid : Resources, mode : Modes]
        BY <3>2, <4>2, IntentionMode, HierarchyAssumption
      <4>4. job' = [job EXCEPT !.locks = <<up>> \o @]
        BY <1>6, <3>2 DEF climb
      <4> HIDE DEF up
      <4>5. <<up>> \o job.locks \in Seq([rid : Resources, mode : Modes]) \ {<<>>}
        BY <4>1, <4>3
      <4>6. QED
        BY <2>2, <4>4, <4>5 DEF Acquisition
    <3>3. QED
      BY <3>1, <3>2
  <2>4. TypeOK'
    BY <2>1, <2>3 DEF IInv, TypeOK
  <2>5. QED
    BY <2>1, <2>3, <2>4 DEF IInv, OwnCompatible, InnerAtHand
<1>7. CASE released
  <2>1. /\ pc = "release" /\ pc' = job.loop /\ job' = NoJob
        /\ UNCHANGED <<asked, permitted, incoming, inner, tries, table, tx>>
    BY <1>7 DEF released, clients
  <2>2. pc' \in Loops \cup Killing
    BY <2>1 DEF IInv, TypeOK, Loops, Killing, ReleaseJob
  <2>3. TypeOK'
    BY <2>1, <2>2 DEF IInv, TypeOK
  <2>4. QED
    BY <2>1, <2>2, <2>3 DEF IInv, OwnCompatible, InnerAtHand, Loops, Killing
<1>8. QED
  BY <1>2, <1>3, <1>4, <1>5, <1>6, <1>7

\* OwnCompatible in terms of the lists it speaks of.
LEMMA OwnPairwise == OwnCompatible <=> TablePairwise(table)
BY DEF OwnCompatible, TablePairwise, Pairwise

\* run() leaves its queues well typed, whatever the answer.
LEMMA AnswerTypes ==
    ASSUME IInv, pc = "put", NEW acquired \in BOOLEAN, Answer(acquired)
    PROVE  /\ pc' \in Loops /\ job' = NoJob
           /\ inner' \in Seq(Acquire) /\ permitted' \in Seq(Acquire)
<1>1. job \in Acquisition
  BY DEF IInv, TypeOK, Loops, Killing
<1>2. job.req \in Acquire /\ job.loop \in Loops
  BY <1>1 DEF Acquisition
<1>3. inner \in Seq(Acquire) /\ permitted \in Seq(Acquire)
  BY DEF IInv, TypeOK
<1>4. Append(inner, job.req) \in Seq(Acquire) /\ Append(permitted, job.req) \in Seq(Acquire)
  BY <1>2, <1>3
<1>5. job.loop = "inner" => Tail(inner) \in Seq(Acquire)
  BY <1>3, HeadTail DEF IInv, InnerAtHand
<1>6. job.loop = "incoming" \/ job.loop = "inner"
  BY <1>2 DEF Loops, Killing
<1>7. QED
  BY <1>2, <1>3, <1>4, <1>5, <1>6 DEF Answer

\* acquireLockInternal() grants no lock on a resource others wait for.
LEMMA PutStep ==
    ASSUME IInv, put
    PROVE  /\ IInv'
           /\ \A r \in Resources :
                Len(table'.own[r]) > Len(table.own[r]) => table.pending[r] = <<>>
<1> DEFINE t == job.req.tid
           top == Head(job.locks)
           result == putLockResult(table, t, top.rid, top.mode)
           granted == result \in {"alreadyInOwned", "placedInOwned"}
<1>1. pc = "put" /\ job \in Acquisition
  BY DEF put, IInv, TypeOK, Loops, Killing
<1>2. job.locks \in Seq([rid : Resources, mode : Modes]) /\ job.locks # <<>>
  BY <1>1 DEF Acquisition
<1>3. t \in Transactions /\ job.loop \in Loops
  BY <1>1 DEF Acquisition, Acquire
<1>4. top \in [rid : Resources, mode : Modes]
  BY <1>2, HeadTail
<1>5. top.rid \in Resources /\ top.mode \in Modes
  BY <1>4
<1>6. table' = putLock(table, t, top.rid, top.mode)
  BY DEF put
<1>7. asked' = asked /\ incoming' = incoming /\ tries' = tries
  BY DEF put
<1>8. tx' = IF result = "placedInOwned" THEN [tx EXCEPT ![t].own = Append(@, top.rid)]
            ELSE IF result = "placedInPending"
            THEN [tx EXCEPT ![t].pending = Append(@, top.rid)] ELSE tx
  BY DEF put
<1>9. IF granted /\ Len(job.locks) > 1
      THEN job' = [job EXCEPT !.locks = Tail(@)] /\ UNCHANGED <<pc, inner, permitted>>
      ELSE Answer(granted)
  BY DEF put
<1> HIDE DEF t, top, result
<1>10. tx' \in [Transactions -> [own : Seq(Resources), pending : Seq(Resources)]]
  <2>1. tx \in [Transactions -> [own : Seq(Resources), pending : Seq(Resources)]]
    BY DEF IInv, TypeOK
  <2>2. QED
    BY <1>3, <1>5, <1>8, <2>1, AppendTx DEF IInv
<1>11. table \in TableType /\ TablePairwise(table)
  BY OwnPairwise DEF IInv, TypeOK
<1>12. /\ table' \in TableType /\ TablePairwise(table')
       /\ \A r \in Resources :
            Len(table'.own[r]) > Len(table.own[r]) => table.pending[r] = <<>>
  BY <1>3, <1>5, <1>6, <1>11, PutLock
<1>13. OwnCompatible'
  BY <1>12 DEF OwnCompatible, TablePairwise, Pairwise
<1>14. TypeOK' /\ InnerAtHand'
  <2>1. CASE granted /\ Len(job.locks) > 1
    <3>1. job' = [job EXCEPT !.locks = Tail(@)] /\ UNCHANGED <<pc, inner, permitted>>
      BY <1>9, <2>1
    <3>2. Tail(job.locks) \in Seq([rid : Resources, mode : Modes]) \ {<<>>}
      <4>1. Tail(job.locks) \in Seq([rid : Resources, mode : Modes])
        BY <1>2, HeadTail
      <4>2. Len(Tail(job.locks)) = Len(job.locks) - 1 /\ Len(job.locks) \in Nat
        BY <1>2
      <4>3. QED
        BY <2>1, <4>1, <4>2
    <3>3. job' \in Acquisition /\ job'.loop = job.loop
      BY <1>1, <3>1, <3>2 DEF Acquisition
    <3>4. QED
      BY <1>1, <1>7, <1>10, <1>12, <3>1, <3>3 DEF IInv, TypeOK, InnerAtHand
  <2>2. CASE ~(granted /\ Len(job.locks) > 1)
    <3>1. Answer(granted)
      BY <1>9, <2>2
    <3> HIDE DEF granted
    <3>2. granted \in BOOLEAN
      BY DEF granted
    <3>3. /\ pc' \in Loops /\ job' = NoJob
          /\ inner' \in Seq(Acquire) /\ permitted' \in Seq(Acquire)
      BY <1>1, <3>1, <3>2, AnswerTypes
    <3>4. QED
      BY <1>7, <1>10, <1>12, <3>3 DEF IInv, TypeOK, InnerAtHand, Loops, Killing
  <2>3. QED
    BY <2>1, <2>2
<1>15. QED
  BY <1>12, <1>13, <1>14 DEF IInv

\* releaseAllLocks() grants nothing.
LEMMA ReleaseStep ==
    ASSUME IInv, release
    PROVE  IInv' /\ \A r \in Resources : ~(Len(table'.own[r]) > Len(table.own[r]))
<1> DEFINE r == Head(job.locks)
<1>1. /\ pc = "release" /\ job.locks # <<>> /\ pc' \in {"release", "hung"}
      /\ job' = [job EXCEPT !.locks = Tail(@)]
      /\ table' = deleteLock(table, job.req.tid, r)
      /\ UNCHANGED <<asked, permitted, incoming, inner, tries, tx>>
  BY DEF release, clients
<1>2. job \in ReleaseJob
  BY <1>1 DEF IInv, TypeOK, Loops, Killing
<1>3. job.locks \in Seq(Resources)
  BY <1>2 DEF ReleaseJob
<1>4. r \in Resources /\ Tail(job.locks) \in Seq(Resources)
  BY <1>1, <1>3, HeadTail
<1>5. job' \in ReleaseJob
  BY <1>1, <1>2, <1>4 DEF ReleaseJob
<1>6. table \in TableType /\ TablePairwise(table)
  BY OwnPairwise DEF IInv, TypeOK
<1>7. /\ table' \in TableType /\ TablePairwise(table')
      /\ \A s \in Resources : ~(Len(table'.own[s]) > Len(table.own[s]))
  BY <1>1, <1>4, <1>6, DeleteLock
<1>8. OwnCompatible'
  BY <1>7 DEF OwnCompatible, TablePairwise, Pairwise
<1>9. TypeOK' /\ InnerAtHand'
  BY <1>1, <1>5, <1>7 DEF IInv, TypeOK, InnerAtHand
<1>10. QED
  BY <1>7, <1>8, <1>9 DEF IInv

-----------------------------------------------------------------------------
Granting ==
    \A r \in Resources :
        Len(table'.own[r]) > Len(table.own[r]) =>
          \/ table.pending[r] = <<>>
          \/ table'.own[r][Len(table'.own[r])] = Head(table.pending[r])

\* Every step preserves the invariant and grants in order.
LEMMA StepIInv ==
    ASSUME IInv, [Next]_vars
    PROVE  IInv' /\ Granting
<1>1. \A r \in Resources : Len(table.own[r]) \in Nat
  BY DEF IInv, TypeOK, TableType
<1>2. table' = table => Granting
  BY <1>1 DEF Granting
<1>3. CASE \E t \in Transactions : requestLock(t) \/ requestRelease(t)
  BY <1>2, <1>3, ClientStep
<1>4. CASE popIncoming \/ tryInner \/ pollEmpty \/ endLoop \/ climb \/ released
  BY <1>2, <1>4, QuietStep
<1>5. CASE put
  BY <1>5, PutStep DEF Granting
<1>6. CASE release
  BY <1>6, ReleaseStep DEF Granting
<1>7. CASE UNCHANGED vars
  <2>1. IInv'
    BY <1>7 DEF vars, IInv, TypeOK, OwnCompatible, InnerAtHand
  <2>2. QED
    BY <1>2, <1>7, <2>1 DEF vars
<1>8. QED
  BY <1>3, <1>4, <1>5, <1>6, <1>7 DEF Next, Run

LEMMA InvariantHolds == Spec => []IInv
<1>1. IInv /\ [Next]_vars => IInv'
  BY StepIInv
<1>2. QED
  BY <1>1, InitIInv, PTL DEF Spec

\* The lock manager's variables keep their types; in particular the thread never
\* pops an empty inner queue.
THEOREM LockManagerTypeCorrect == Spec => []TypeOK
<1>1. IInv => TypeOK
  BY DEF IInv
<1>2. QED
  BY <1>1, InvariantHolds, PTL

\* Whatever the hierarchy, the transactions and what they ask for, two locks
\* owned on one resource are compatible.
THEOREM OwnCompatibleHolds == Spec => []OwnCompatible
<1>1. IInv => OwnCompatible
  BY DEF IInv
<1>2. QED
  BY <1>1, InvariantHolds, PTL

\* Whatever the hierarchy, the transactions and what they ask for, putLock()
\* grants no lock ahead of one that is already pending on the resource.
THEOREM NoOvertakingHolds == Spec => NoOvertaking
<1>1. IInv /\ [Next]_vars => [Granting]_vars
  BY StepIInv
<1>2. QED
  BY <1>1, InvariantHolds, PTL DEF Spec, NoOvertaking, Granting

-----------------------------------------------------------------------------
(* Counting in the lists of the tables *)

\* How often a transaction's list names a resource.
LEMMA TimesNumber ==
    ASSUME NEW S, NEW list \in Seq(S), NEW v
    PROVE  /\ Times(list, v) = Occurrences(list, v)
           /\ Times(list, v) \in Nat
           /\ Times(list, v) = 0 <=> \A i \in DOMAIN list : list[i] # v
<1>1. Times(list, v) = Occurrences(list, v) BY DEF Times, Occurrences, PlacesOf
<1> QED BY <1>1, OccurrencesNumber

\* What Append adds to it.
LEMMA TimesAppend ==
    ASSUME NEW S, NEW list \in Seq(S), NEW x \in S, NEW v
    PROVE  Times(Append(list, x), v) = Times(list, v) + One(x = v)
<1>1. Append(list, x) \in Seq(S) OBVIOUS
<1>2. Times(list, v) = Occurrences(list, v)
      /\ Times(Append(list, x), v) = Occurrences(Append(list, x), v)
  BY <1>1, TimesNumber
<1> QED BY <1>2, OccurrencesAppend

\* What the removal of the first element takes from it.
LEMMA TimesTail ==
    ASSUME NEW S, NEW list \in Seq(S), list # <<>>, NEW v
    PROVE  Times(Tail(list), v) = Times(list, v) - One(Head(list) = v)
<1>1. Tail(list) \in Seq(S) OBVIOUS
<1>2. Times(list, v) = Occurrences(list, v) /\ Times(Tail(list), v) = Occurrences(Tail(list), v)
  BY <1>1, TimesNumber
<1> QED BY <1>2, OccurrencesTail

\* How often two lists together name a resource.
LEMMA TimesConcat ==
    ASSUME NEW S, NEW a \in Seq(S), NEW b \in Seq(S), NEW v
    PROVE  Times(a \o b, v) = Times(a, v) + Times(b, v)
<1>1. a \o b \in Seq(S) OBVIOUS
<1>2. Times(a, v) = Occurrences(a, v) /\ Times(b, v) = Occurrences(b, v)
      /\ Times(a \o b, v) = Occurrences(a \o b, v)
  BY <1>1, TimesNumber
<1> QED BY <1>2, OccurrencesConcat

Tids(list) == [i \in DOMAIN list |-> list[i].tid]

\* Counting a transaction's entries is counting its name among the names.
LEMMA EntriesOccurrences ==
    ASSUME NEW list \in Seq(Entry)
    PROVE  /\ Tids(list) \in Seq(Transactions) /\ Len(Tids(list)) = Len(list)
           /\ \A i \in DOMAIN list : Tids(list)[i] = list[i].tid
           /\ \A t : Entries(list, t) = Occurrences(Tids(list), t)
<1>1. DOMAIN list = 1 .. Len(list) /\ Len(list) \in Nat OBVIOUS
<1>2. \A i \in DOMAIN list : list[i].tid \in Transactions
  <2>1. \A i \in DOMAIN list : list[i] \in Entry OBVIOUS
  <2> QED BY <2>1 DEF Entry
<1>3. Tids(list) \in [1 .. Len(list) -> Transactions] BY <1>1, <1>2 DEF Tids
<1>4. Tids(list) \in Seq(Transactions) /\ Len(Tids(list)) = Len(list) BY <1>1, <1>3, SeqDef
<1>5. \A i \in DOMAIN list : Tids(list)[i] = list[i].tid BY DEF Tids
<1>6. DOMAIN Tids(list) = DOMAIN list BY DEF Tids
<1>7. ASSUME NEW t PROVE Entries(list, t) = Occurrences(Tids(list), t)
  <2>1. {i \in DOMAIN list : list[i].tid = t} = {i \in DOMAIN Tids(list) : Tids(list)[i] = t}
    BY <1>5, <1>6
  <2> QED BY <2>1 DEF Entries, Occurrences, PlacesOf
<1> QED BY <1>4, <1>5, <1>7

\* The entries of a transaction are a number, and zero when there is none.
LEMMA EntriesNumber ==
    ASSUME NEW list \in Seq(Entry), NEW t
    PROVE  /\ Entries(list, t) \in Nat
           /\ Entries(list, t) = 0 <=> \A i \in DOMAIN list : list[i].tid # t
<1>1. Tids(list) \in Seq(Transactions) /\ Len(Tids(list)) = Len(list)
      /\ (\A i \in DOMAIN list : Tids(list)[i] = list[i].tid)
      /\ Entries(list, t) = Occurrences(Tids(list), t)
  BY EntriesOccurrences
<1>2. DOMAIN Tids(list) = DOMAIN list BY DEF Tids
<1>3. Occurrences(Tids(list), t) \in Nat
      /\ (Occurrences(Tids(list), t) = 0 <=> \A i \in DOMAIN Tids(list) : Tids(list)[i] # t)
  BY <1>1, OccurrencesNumber
<1> QED BY <1>1, <1>2, <1>3

\* An appended lock.
LEMMA EntriesAppend ==
    ASSUME NEW list \in Seq(Entry), NEW e \in Entry, NEW u, NEW n
    PROVE  /\ Entries(Append(list, e), u) = Entries(list, u) + One(e.tid = u)
           /\ Holds(Append(list, e), u, n) <=> Holds(list, u, n) \/ e = [tid |-> u, mode |-> n]
<1> DEFINE new == Append(list, e)
<1>1. new \in Seq(Entry) /\ Len(new) = Len(list) + 1 /\ Len(list) \in Nat
      /\ DOMAIN new = 1 .. Len(list) + 1 /\ DOMAIN list = 1 .. Len(list)
      /\ new[Len(list) + 1] = e
  OBVIOUS
<1>2. \A i \in DOMAIN list : new[i] = list[i] OBVIOUS
<1>3. \A i \in DOMAIN new : i \in DOMAIN list \/ i = Len(list) + 1 BY <1>1
<1>4. Len(list) + 1 \in DOMAIN new /\ \A i \in DOMAIN list : i \in DOMAIN new BY <1>1
<1> HIDE DEF new
<1>5. e.tid \in Transactions BY DEF Entry
<1>6. Tids(list) \in Seq(Transactions) /\ Len(Tids(list)) = Len(list)
      /\ (\A i \in DOMAIN list : Tids(list)[i] = list[i].tid)
      /\ Entries(list, u) = Occurrences(Tids(list), u)
  BY EntriesOccurrences
<1>7. Tids(new) \in Seq(Transactions) /\ Len(Tids(new)) = Len(new)
      /\ (\A i \in DOMAIN new : Tids(new)[i] = new[i].tid)
      /\ Entries(new, u) = Occurrences(Tids(new), u)
  BY <1>1, EntriesOccurrences
<1> DEFINE app == Append(Tids(list), e.tid)
<1>8. app \in Seq(Transactions) /\ Len(app) = Len(list) + 1 /\ app[Len(list) + 1] = e.tid
      /\ \A i \in 1 .. Len(list) : app[i] = Tids(list)[i]
  BY <1>1, <1>5, <1>6
<1>9. Occurrences(app, u) = Occurrences(Tids(list), u) + One(e.tid = u) BY <1>5, <1>6, OccurrencesAppend
<1> HIDE DEF app
<1>10. \A i \in 1 .. Len(new) : Tids(new)[i] = app[i]
  <2> SUFFICES ASSUME NEW i \in 1 .. Len(new) PROVE Tids(new)[i] = app[i] OBVIOUS
  <2>1. i \in DOMAIN new /\ (i \in 1 .. Len(list) \/ i = Len(list) + 1) BY <1>1
  <2>2. CASE i \in 1 .. Len(list) BY <1>1, <1>2, <1>6, <1>7, <1>8, <2>1, <2>2
  <2>3. CASE i = Len(list) + 1 BY <1>1, <1>7, <1>8, <2>1, <2>3
  <2> QED BY <2>1, <2>2, <2>3
<1>11. Tids(new) = app BY <1>1, <1>7, <1>8, <1>10, SeqEqual
<1>12. Entries(new, u) = Entries(list, u) + One(e.tid = u) BY <1>6, <1>7, <1>9, <1>11
<1>13. Holds(new, u, n) <=> Holds(list, u, n) \/ e = [tid |-> u, mode |-> n]
  BY <1>1, <1>2, <1>3, <1>4 DEF Holds
<1> QED BY <1>12, <1>13 DEF new

\* An erased lock.
LEMMA EntriesWithout ==
    ASSUME NEW list \in Seq(Entry), NEW k \in DOMAIN list, NEW u, NEW n
    PROVE  /\ Entries(Without(list, k), u) = Entries(list, u) - One(list[k].tid = u)
           /\ list[k].tid # u => (Holds(Without(list, k), u, n) <=> Holds(list, u, n))
<1> DEFINE new == Without(list, k)
           old(j) == IF j < k THEN j ELSE j + 1
<1>1. new \in Seq(Entry) /\ Len(new) = Len(list) - 1 /\ \A j \in DOMAIN new : new[j] = list[old(j)]
  BY WithoutElements
<1>2. Len(list) \in Nat /\ DOMAIN list = 1 .. Len(list) /\ DOMAIN new = 1 .. Len(list) - 1 /\ k \in Int
  BY <1>1
<1>3. \A j \in DOMAIN new : old(j) \in DOMAIN list BY <1>2
<1>4. ASSUME NEW i \in DOMAIN list, i # k PROVE \E j \in DOMAIN new : old(j) = i
  <2>1. i \in Int /\ k \in 1 .. Len(list) /\ i \in 1 .. Len(list) BY <1>2
  <2>2. CASE i < k
    <3>1. i \in DOMAIN new /\ old(i) = i BY <1>2, <2>1, <2>2
    <3> QED BY <3>1
  <2>3. CASE i > k
    <3>1. i - 1 \in DOMAIN new /\ old(i - 1) = i BY <1>2, <2>1, <2>3
    <3> QED BY <3>1
  <2> QED BY <1>4, <2>1, <2>2, <2>3
<1> DEFINE names == Tids(list)
<1>5. names \in Seq(Transactions) /\ Len(names) = Len(list)
      /\ (\A i \in DOMAIN list : names[i] = list[i].tid) /\ Entries(list, u) = Occurrences(names, u)
  BY EntriesOccurrences
<1>6. Tids(new) \in Seq(Transactions) /\ Len(Tids(new)) = Len(new)
      /\ (\A i \in DOMAIN new : Tids(new)[i] = new[i].tid) /\ Entries(new, u) = Occurrences(Tids(new), u)
  BY <1>1, EntriesOccurrences
<1> HIDE DEF names
<1>7. k \in DOMAIN names /\ names[k] = list[k].tid BY <1>2, <1>5
<1>8. Erased(names, k) \in Seq(Transactions) /\ Len(Erased(names, k)) = Len(list) - 1
      /\ \A j \in DOMAIN Erased(names, k) : Erased(names, k)[j] = names[old(j)]
  BY <1>5, <1>7, ErasedElements
<1>9. Occurrences(Erased(names, k), u) = Occurrences(names, u) - One(list[k].tid = u)
  BY <1>5, <1>7, OccurrencesErased
<1> HIDE DEF new, old
<1>10. \A j \in 1 .. Len(list) - 1 : Tids(new)[j] = Erased(names, k)[j]
  <2> SUFFICES ASSUME NEW j \in 1 .. Len(list) - 1 PROVE Tids(new)[j] = Erased(names, k)[j] OBVIOUS
  <2>1. j \in DOMAIN new /\ j \in DOMAIN Erased(names, k) BY <1>2, <1>8
  <2>2. Tids(new)[j] = list[old(j)].tid BY <1>1, <1>6, <2>1
  <2>3. Erased(names, k)[j] = names[old(j)] /\ old(j) \in DOMAIN list BY <1>3, <1>8, <2>1
  <2> QED BY <1>5, <2>2, <2>3
<1>11. Tids(new) = Erased(names, k) BY <1>1, <1>6, <1>8, <1>10, SeqEqual
<1>12. Entries(new, u) = Entries(list, u) - One(list[k].tid = u) BY <1>5, <1>6, <1>9, <1>11
<1>13. ASSUME list[k].tid # u PROVE Holds(new, u, n) <=> Holds(list, u, n)
  <2>1. ASSUME Holds(new, u, n) PROVE Holds(list, u, n) BY <1>1, <1>3, <2>1 DEF Holds
  <2>2. ASSUME Holds(list, u, n) PROVE Holds(new, u, n)
    <3>1. PICK i \in DOMAIN list : list[i] = [tid |-> u, mode |-> n] BY <2>2 DEF Holds
    <3>2. i # k BY <1>13, <3>1
    <3>3. PICK j \in DOMAIN new : old(j) = i BY <1>4, <3>2
    <3> QED BY <1>1, <3>1, <3>3 DEF Holds
  <2> QED BY <2>1, <2>2
<1> QED BY <1>12, <1>13 DEF new

\* deleteLock() looks for a transaction's first entry, and finds it when there is any.
LEMMA FirstFound ==
    ASSUME NEW list \in Seq(Entry), NEW t
    PROVE  First(list, t) = {} <=> Entries(list, t) = 0
<1>1. DOMAIN list = 1 .. Len(list) /\ Len(list) \in Nat OBVIOUS
<1>2. Entries(list, t) = 0 <=> \A i \in DOMAIN list : list[i].tid # t BY EntriesNumber
<1>3. ASSUME NEW k \in DOMAIN list, list[k].tid = t PROVE First(list, t) # {}
  <2> DEFINE T == {i \in DOMAIN list : list[i].tid = t}
  <2>1. T \subseteq Nat BY <1>1
  <2>2. T # {} BY <1>3
  <2>3. PICK i \in T : \A j \in T : i <= j BY <2>1, <2>2, LeastNumber
  <2>4. ASSUME NEW j \in 1 .. i - 1 PROVE list[j].tid # t
    <3>1. j \in DOMAIN list /\ ~(i <= j) BY <1>1, <2>3
    <3> QED BY <2>3, <3>1
  <2> QED BY <2>3, <2>4 DEF First
<1>4. ASSUME First(list, t) # {} PROVE \E k \in DOMAIN list : list[k].tid = t BY <1>4 DEF First
<1> QED BY <1>2, <1>3, <1>4

-----------------------------------------------------------------------------
(* What putLock() and deleteLock() do to the counts *)

\* The one entry that putLock() adds, by its result.
PutEffect(tb, new, res, t, r, m) ==
    \A s \in Resources : \A u, n :
        /\ Entries(new.own[s], u) =
             Entries(tb.own[s], u) + (IF res = "placedInOwned" /\ s = r /\ u = t THEN 1 ELSE 0)
        /\ Entries(new.pending[s], u) =
             Entries(tb.pending[s], u) + (IF res = "placedInPending" /\ s = r /\ u = t THEN 1 ELSE 0)
        /\ Holds(new.own[s], u, n) <=>
             Holds(tb.own[s], u, n) \/ (res = "placedInOwned" /\ s = r /\ u = t /\ n = m)

\* putLock() adds the one entry its result speaks of.
LEMMA PutCounts ==
    ASSUME NEW tb \in TableType, NEW t \in Transactions, NEW r \in Resources, NEW m \in Modes
    PROVE  PutEffect(tb, putLock(tb, t, r, m), putLockResult(tb, t, r, m), t, r, m)
<1> SUFFICES ASSUME NEW s \in Resources, NEW u, NEW n
             PROVE  /\ Entries(putLock(tb, t, r, m).own[s], u) = Entries(tb.own[s], u)
                         + (IF putLockResult(tb, t, r, m) = "placedInOwned" /\ s = r /\ u = t
                            THEN 1 ELSE 0)
                    /\ Entries(putLock(tb, t, r, m).pending[s], u) = Entries(tb.pending[s], u)
                         + (IF putLockResult(tb, t, r, m) = "placedInPending" /\ s = r /\ u = t
                            THEN 1 ELSE 0)
                    /\ Holds(putLock(tb, t, r, m).own[s], u, n) <=>
                         \/ Holds(tb.own[s], u, n)
                         \/ (putLockResult(tb, t, r, m) = "placedInOwned" /\ s = r /\ u = t /\ n = m)
  BY DEF PutEffect
<1> DEFINE e == [tid |-> t, mode |-> m]
           new == putLock(tb, t, r, m)
           res == putLockResult(tb, t, r, m)
<1>1. e \in Entry /\ e.tid = t /\ (e = [tid |-> u, mode |-> n] <=> u = t /\ n = m)
  BY DEF Entry
<1>2. /\ tb.own \in [Resources -> Seq(Entry)] /\ tb.pending \in [Resources -> Seq(Entry)]
      /\ tb = [own |-> tb.own, pending |-> tb.pending]
  BY DEF TableType
<1>3. Entries(tb.own[s], u) \in Nat /\ Entries(tb.pending[s], u) \in Nat
  BY <1>2, EntriesNumber
<1>4. res = "placedInOwned" => new = [tb EXCEPT !.own[r] = Append(@, e)] BY DEF putLock
<1>5. res = "placedInPending" => new = [tb EXCEPT !.pending[r] = Append(@, e)] BY DEF putLock
<1>6. res \notin {"placedInOwned", "placedInPending"} => new = tb BY DEF putLock
<1>7. tb.own[s] \in Seq(Entry) /\ tb.pending[s] \in Seq(Entry) BY <1>2
<1> HIDE DEF e, new, res
<1>8. Entries(Append(tb.own[s], e), u) = Entries(tb.own[s], u) + One(t = u)
      /\ (Holds(Append(tb.own[s], e), u, n) <=> Holds(tb.own[s], u, n) \/ (u = t /\ n = m))
      /\ Entries(Append(tb.pending[s], e), u) = Entries(tb.pending[s], u) + One(t = u)
  <2>1. Entries(Append(tb.own[s], e), u) = Entries(tb.own[s], u) + One(e.tid = u)
        /\ (Holds(Append(tb.own[s], e), u, n)
              <=> Holds(tb.own[s], u, n) \/ e = [tid |-> u, mode |-> n])
    BY <1>1, <1>7, EntriesAppend
  <2>2. Entries(Append(tb.pending[s], e), u) = Entries(tb.pending[s], u) + One(e.tid = u)
        /\ (Holds(Append(tb.pending[s], e), u, n)
              <=> Holds(tb.pending[s], u, n) \/ e = [tid |-> u, mode |-> n])
    BY <1>1, <1>7, EntriesAppend
  <2> QED BY <1>1, <2>1, <2>2
<1>9. CASE res = "placedInOwned"
  <2>1. new.own[s] = (IF s = r THEN Append(tb.own[s], e) ELSE tb.own[s])
        /\ new.pending[s] = tb.pending[s]
    BY <1>2, <1>4, <1>9
  <2> QED BY <1>3, <1>8, <1>9, <2>1 DEF One, new, res
<1>10. CASE res = "placedInPending"
  <2>1. new.own[s] = tb.own[s]
        /\ new.pending[s] = IF s = r THEN Append(tb.pending[s], e) ELSE tb.pending[s]
    BY <1>2, <1>5, <1>10
  <2> QED BY <1>3, <1>8, <1>10, <2>1 DEF One, new, res
<1>11. CASE res \notin {"placedInOwned", "placedInPending"}
  BY <1>3, <1>6, <1>11 DEF One, new, res
<1> QED BY <1>9, <1>10, <1>11

\* The one entry that deleteLock() takes away, by its result.
DeleteEffect(tb, new, res, t, r) ==
    /\ \A s \in Resources : \A u, n :
         /\ Entries(new.own[s], u) =
              Entries(tb.own[s], u) - (IF res = "deleteFromOwned" /\ s = r /\ u = t THEN 1 ELSE 0)
         /\ Entries(new.pending[s], u) =
              Entries(tb.pending[s], u) - (IF res = "deleteFromPending" /\ s = r /\ u = t THEN 1 ELSE 0)
         /\ u # t => (Holds(new.own[s], u, n) <=> Holds(tb.own[s], u, n))
    /\ res = "deleteError" <=> Entries(tb.own[r], t) = 0 /\ Entries(tb.pending[r], t) = 0
    /\ res \in {"deleteFromOwned", "deleteFromPending", "deleteError"}

\* deleteLock() takes away the one entry its result speaks of, and finds one
\* when there is any.
LEMMA DeleteCounts ==
    ASSUME NEW tb \in TableType, NEW t \in Transactions, NEW r \in Resources
    PROVE  DeleteEffect(tb, deleteLock(tb, t, r), deleteLockResult(tb, t, r), t, r)
<1> SUFFICES ASSUME NEW s \in Resources, NEW u, NEW n
             PROVE  /\ Entries(deleteLock(tb, t, r).own[s], u) = Entries(tb.own[s], u)
                         - (IF deleteLockResult(tb, t, r) = "deleteFromOwned" /\ s = r /\ u = t
                            THEN 1 ELSE 0)
                    /\ Entries(deleteLock(tb, t, r).pending[s], u) = Entries(tb.pending[s], u)
                         - (IF deleteLockResult(tb, t, r) = "deleteFromPending" /\ s = r /\ u = t
                            THEN 1 ELSE 0)
                    /\ u # t => (Holds(deleteLock(tb, t, r).own[s], u, n) <=> Holds(tb.own[s], u, n))
                    /\ deleteLockResult(tb, t, r) = "deleteError"
                         <=> Entries(tb.own[r], t) = 0 /\ Entries(tb.pending[r], t) = 0
                    /\ deleteLockResult(tb, t, r)
                         \in {"deleteFromOwned", "deleteFromPending", "deleteError"}
  BY DEF DeleteEffect
<1> DEFINE new == deleteLock(tb, t, r)
           res == deleteLockResult(tb, t, r)
<1>1. /\ tb.own \in [Resources -> Seq(Entry)] /\ tb.pending \in [Resources -> Seq(Entry)]
      /\ tb = [own |-> tb.own, pending |-> tb.pending]
  BY DEF TableType
<1>2. Entries(tb.own[s], u) \in Nat /\ Entries(tb.pending[s], u) \in Nat
  BY <1>1, EntriesNumber
<1>3. /\ First(tb.own[r], t) = {} <=> Entries(tb.own[r], t) = 0
      /\ First(tb.pending[r], t) = {} <=> Entries(tb.pending[r], t) = 0
  BY <1>1, FirstFound
<1>4. tb.own[r] \in Seq(Entry) /\ tb.pending[r] \in Seq(Entry) BY <1>1
<1>5. CASE First(tb.own[r], t) # {}
  <2> DEFINE i == CHOOSE i \in First(tb.own[r], t) : TRUE
  <2>1. new = [tb EXCEPT !.own[r] = Without(@, i)] /\ res = "deleteFromOwned"
    BY <1>5 DEF deleteLock, deleteLockResult
  <2>2. i \in DOMAIN tb.own[r] /\ tb.own[r][i].tid = t BY <1>5 DEF First
  <2> HIDE DEF i, new, res
  <2>3. /\ Entries(Without(tb.own[r], i), u) = Entries(tb.own[r], u) - One(t = u)
        /\ t # u => (Holds(Without(tb.own[r], i), u, n) <=> Holds(tb.own[r], u, n))
    <3>1. /\ Entries(Without(tb.own[r], i), u) = Entries(tb.own[r], u) - One(tb.own[r][i].tid = u)
          /\ tb.own[r][i].tid # u
               => (Holds(Without(tb.own[r], i), u, n) <=> Holds(tb.own[r], u, n))
      BY <1>4, <2>2, EntriesWithout
    <3> QED BY <2>2, <3>1
  <2>4. new.own[s] = (IF s = r THEN Without(tb.own[r], i) ELSE tb.own[s])
        /\ new.pending[s] = tb.pending[s]
    BY <1>1, <2>1
  <2> QED BY <1>2, <1>3, <1>5, <2>1, <2>3, <2>4 DEF One, new, res
<1>6. CASE First(tb.own[r], t) = {} /\ First(tb.pending[r], t) # {}
  <2> DEFINE i == CHOOSE i \in First(tb.pending[r], t) : TRUE
  <2>1. new = [tb EXCEPT !.pending[r] = Without(@, i)] /\ res = "deleteFromPending"
    BY <1>6 DEF deleteLock, deleteLockResult
  <2>2. i \in DOMAIN tb.pending[r] /\ tb.pending[r][i].tid = t BY <1>6 DEF First
  <2> HIDE DEF i, new, res
  <2>3. Entries(Without(tb.pending[r], i), u) = Entries(tb.pending[r], u) - One(t = u)
    <3>1. /\ Entries(Without(tb.pending[r], i), u)
                = Entries(tb.pending[r], u) - One(tb.pending[r][i].tid = u)
          /\ tb.pending[r][i].tid # u
               => (Holds(Without(tb.pending[r], i), u, n) <=> Holds(tb.pending[r], u, n))
      BY <1>4, <2>2, EntriesWithout
    <3> QED BY <2>2, <3>1
  <2>4. new.own[s] = tb.own[s]
        /\ new.pending[s] = IF s = r THEN Without(tb.pending[r], i) ELSE tb.pending[s]
    BY <1>1, <2>1
  <2> QED BY <1>2, <1>3, <1>6, <2>1, <2>3, <2>4 DEF One, new, res
<1>7. CASE First(tb.own[r], t) = {} /\ First(tb.pending[r], t) = {}
  <2>1. new = tb /\ res = "deleteError" BY <1>7 DEF deleteLock, deleteLockResult
  <2> QED BY <1>2, <1>3, <1>7, <2>1 DEF One
<1> QED BY <1>5, <1>6, <1>7

-----------------------------------------------------------------------------
(* The two tables and the hierarchy *)

\* releaseAllLocks() is at work on the locks of t.
Releases(t) == pc \in {"release", "hung"} /\ job.req.tid = t

AgreesFor(t) ==
    \A r \in Resources :
        /\ Times(tx[t].own, r) = Entries(table.own[r], t)
        /\ Times(tx[t].pending, r) = Entries(table.pending[r], t)

\* The tables agree about every transaction but the one that is being released ...
CountsAgree == \A t \in Transactions : ~Releases(t) => AgreesFor(t)

\* ... whose lists are gone already, and whose locks are those still to be released.
ReleaseCounts ==
    \A t \in Transactions : Releases(t) =>
        /\ tx[t] = [own |-> <<>>, pending |-> <<>>]
        /\ \A r \in Resources :
             Times(job.locks, r) = Entries(table.own[r], t) + Entries(table.pending[r], t)

CoveredFor(t) ==
    \A r \in Resources, n \in Modes :
        Owns(t, r, n) /\ Parent[r] # NoParent => Owns(t, Parent[r], intention(n))

\* Who owns a lock owns the intention lock on the parent, unless it is being released.
Covered == \A t \in Transactions : ~Releases(t) => CoveredFor(t)

IsIntentionOf(up, lock) == up = [rid |-> Parent[lock.rid], mode |-> intention(lock.mode)]

\* Every lock of the stack is the intention lock of the one below it.
Stacked ==
    pc \in {"climb", "put"} =>
        \A k \in 1 .. Len(job.locks) - 1 : IsIntentionOf(job.locks[k], job.locks[k + 1])

CoveredLock(t, lock) ==
    Parent[lock.rid] # NoParent => Owns(t, Parent[lock.rid], intention(lock.mode))

\* The lock acquired next has its intention lock.
ParentFirst == pc = "put" => CoveredLock(job.req.tid, Head(job.locks))

LInv == IInv /\ CountsAgree /\ ReleaseCounts /\ Covered /\ Stacked /\ ParentFirst

LEMMA InitLInv == Init => LInv
<1> SUFFICES ASSUME Init PROVE LInv OBVIOUS
<1>1. IInv BY InitIInv
<1>2. pc = "incoming" /\ \A t : ~Releases(t) BY DEF Init, Releases
<1>3. /\ \A r \in Resources : table.own[r] = <<>> /\ table.pending[r] = <<>>
      /\ \A t \in Transactions : tx[t].own = <<>> /\ tx[t].pending = <<>>
  BY DEF Init, EmptyTable
<1>4. \A r \in Resources : Times(<<>>, r) = 0
  <2>1. <<>> \in Seq(Resources) /\ DOMAIN <<>> = {} OBVIOUS
  <2> QED BY <2>1, TimesNumber
<1>5. \A t \in Transactions : Entries(<<>>, t) = 0
  <2>1. <<>> \in Seq(Entry) /\ DOMAIN <<>> = {} OBVIOUS
  <2> QED BY <2>1, EntriesNumber
<1>6. CountsAgree BY <1>3, <1>4, <1>5 DEF CountsAgree, AgreesFor
<1>7. Covered BY <1>3 DEF Covered, CoveredFor, Owns, Holds
<1> QED BY <1>1, <1>2, <1>6, <1>7 DEF LInv, ReleaseCounts, Stacked, ParentFirst

\* A step of the transactions.
LEMMA ClientLInv ==
    ASSUME LInv, UNCHANGED <<pc, job, table, tx>>
    PROVE  CountsAgree' /\ ReleaseCounts' /\ Covered' /\ Stacked' /\ ParentFirst'
<1>1. CountsAgree' BY DEF LInv, CountsAgree, AgreesFor, Releases
<1>2. ReleaseCounts' BY DEF LInv, ReleaseCounts, Releases
<1>3. Covered' BY DEF LInv, Covered, CoveredFor, Owns, Releases
<1>4. Stacked' BY DEF LInv, Stacked
<1>5. ParentFirst' BY DEF LInv, ParentFirst, CoveredLock, Owns
<1> QED BY <1>1, <1>2, <1>3, <1>4, <1>5

\* Steps that change neither table, outside of releaseAllLocks().
LEMMA StillTables ==
    ASSUME LInv, UNCHANGED <<table, tx>>, pc \notin {"release", "hung"}, pc' \notin {"release", "hung"}
    PROVE  CountsAgree' /\ ReleaseCounts' /\ Covered'
<1>1. (\A t : ~Releases(t)) /\ \A t : ~Releases(t)' BY DEF Releases
<1>2. CountsAgree' BY <1>1 DEF LInv, CountsAgree, AgreesFor
<1>3. ReleaseCounts' BY <1>1 DEF ReleaseCounts
<1>4. Covered' BY <1>1 DEF LInv, Covered, CoveredFor, Owns
<1> QED BY <1>2, <1>3, <1>4

\* A stack of one lock.
LEMMA SingleStacked ==
    ASSUME NEW req, NEW loop, pc' = "climb", job' = Acquiring(req, loop)
    PROVE  Stacked' /\ ParentFirst'
<1>1. Len(job.locks)' = 1
  <2>1. job'.locks = <<[rid |-> req.rid, mode |-> req.mode]>> BY DEF Acquiring
  <2> QED BY <2>1
<1>2. \A k : ~(k \in 1 .. Len(job.locks)' - 1) BY <1>1
<1> QED BY <1>2 DEF Stacked, ParentFirst

\* Taking up a request to release moves a transaction's lists to the job at hand.
LEMMA PopLInv ==
    ASSUME LInv, popIncoming
    PROVE  CountsAgree' /\ ReleaseCounts' /\ Covered' /\ Stacked' /\ ParentFirst'
<1> DEFINE req == Head(incoming)
<1>1. req \in Request BY HeadTail DEF popIncoming, LInv, IInv, TypeOK
<1>2. pc = "incoming" /\ table' = table BY DEF popIncoming
<1>3. CASE req.type # "release"
  <2>1. job' = Acquiring(req, "incoming") /\ pc' = "climb" /\ tx' = tx BY <1>3 DEF popIncoming
  <2> QED BY <1>2, <2>1, StillTables, SingleStacked
<1>4. CASE req.type = "release"
  <2>1. req.tid \in Transactions BY <1>1, <1>4 DEF Request, Acquire
  <2>2. /\ job' = Releasing(req, "incoming") /\ pc' = "release"
        /\ tx' = [tx EXCEPT ![req.tid] = [own |-> <<>>, pending |-> <<>>]]
    BY <1>4 DEF popIncoming
  <2> DEFINE t == req.tid
             p == tx[t].pending
             o == tx[t].own
  <2>3. job'.locks = p \o o /\ job'.req.tid = t BY <2>2 DEF Releasing
  <2>4. tx \in [Transactions -> [own : Seq(Resources), pending : Seq(Resources)]]
        /\ p \in Seq(Resources) /\ o \in Seq(Resources)
    BY <2>1 DEF LInv, IInv, TypeOK
  <2> HIDE DEF req
  <2>5. tx'[t] = [own |-> <<>>, pending |-> <<>>] /\ \A u \in Transactions : u # t => tx'[u] = tx[u]
    BY <2>1, <2>2, <2>4
  <2>6. \A u : ~Releases(u) BY <1>2 DEF Releases
  <2>7. \A u : Releases(u)' <=> u = t BY <2>2, <2>3 DEF Releases
  <2>8. AgreesFor(t) BY <2>1, <2>6 DEF LInv, CountsAgree
  <2>9. ASSUME NEW r \in Resources
        PROVE  Times(job'.locks, r) = Entries(table'.own[r], t) + Entries(table'.pending[r], t)
    <3>1. Times(p \o o, r) = Times(p, r) + Times(o, r) BY <2>4, TimesConcat
    <3>2. Times(o, r) = Entries(table.own[r], t) /\ Times(p, r) = Entries(table.pending[r], t)
      BY <2>8 DEF AgreesFor
    <3>3. Times(o, r) \in Nat /\ Times(p, r) \in Nat BY <2>4, TimesNumber
    <3> QED BY <1>2, <2>3, <3>1, <3>2, <3>3
  <2>10. ReleaseCounts' BY <2>5, <2>7, <2>9 DEF ReleaseCounts
  <2>11. CountsAgree' BY <1>2, <2>5, <2>6, <2>7 DEF LInv, CountsAgree, AgreesFor
  <2>12. Covered' BY <1>2, <2>6 DEF LInv, Covered, CoveredFor, Owns
  <2> QED BY <2>2, <2>10, <2>11, <2>12 DEF Stacked, ParentFirst
<1> QED BY <1>3, <1>4

\* Stacking the intention lock of the lock on top.
LEMMA ClimbLInv ==
    ASSUME LInv, climb
    PROVE  CountsAgree' /\ ReleaseCounts' /\ Covered' /\ Stacked' /\ ParentFirst'
<1> DEFINE top == Head(job.locks)
           up == [rid |-> Parent[top.rid], mode |-> intention(top.mode)]
<1>1. pc = "climb" /\ pc' \in {"climb", "put"} /\ UNCHANGED <<table, tx>> BY DEF climb
<1>2. CountsAgree' /\ ReleaseCounts' /\ Covered' BY <1>1, StillTables
<1>3. job \in Acquisition BY <1>1 DEF LInv, IInv, TypeOK, Loops, Killing
<1>4. job.locks \in Seq([rid : Resources, mode : Modes]) /\ job.locks # <<>> BY <1>3 DEF Acquisition
<1>5. CASE Parent[top.rid] = NoParent
  <2>1. job' = job /\ pc' = "put" BY <1>5 DEF climb
  <2>2. Stacked' BY <1>1, <2>1 DEF LInv, Stacked
  <2>3. ParentFirst' BY <1>5, <2>1 DEF ParentFirst, CoveredLock
  <2> QED BY <1>2, <2>2, <2>3
<1>6. CASE Parent[top.rid] # NoParent
  <2>1. job' = [job EXCEPT !.locks = <<up>> \o @] /\ pc' = "climb" BY <1>1, <1>6 DEF climb
  <2>2. job'.locks = <<up>> \o job.locks BY <1>3, <2>1 DEF Acquisition
  <2>3. IsIntentionOf(up, job.locks[1]) BY <1>4 DEF IsIntentionOf
  <2>4. up \in [rid : Resources, mode : Modes]
    <3>1. top \in [rid : Resources, mode : Modes] BY <1>4, HeadTail
    <3> QED BY <1>6, <3>1, IntentionMode, HierarchyAssumption
  <2> HIDE DEF up, top
  <2>5. /\ Len(job'.locks) = Len(job.locks) + 1 /\ Len(job.locks) \in Nat
        /\ job'.locks[1] = up /\ \A k \in 1 .. Len(job.locks) : job'.locks[k + 1] = job.locks[k]
    BY <1>4, <2>2, <2>4
  <2>6. ASSUME NEW k \in 1 .. Len(job'.locks) - 1
        PROVE  IsIntentionOf(job'.locks[k], job'.locks[k + 1])
    <3>1. k \in 1 .. Len(job.locks) /\ job'.locks[k + 1] = job.locks[k] BY <2>5
    <3>2. CASE k = 1 BY <2>3, <2>5, <3>1, <3>2
    <3>3. CASE k # 1
      <4>1. k - 1 \in 1 .. Len(job.locks) - 1 /\ (k - 1) + 1 = k BY <2>5, <3>1, <3>3
      <4>2. job'.locks[k] = job.locks[k - 1] BY <2>5, <3>1, <4>1
      <4>3. IsIntentionOf(job.locks[k - 1], job.locks[(k - 1) + 1])
        BY <1>1, <4>1 DEF LInv, Stacked
      <4> QED BY <3>1, <4>1, <4>2, <4>3
    <3> QED BY <3>2, <3>3
  <2>7. Stacked' BY <2>6 DEF Stacked, IsIntentionOf
  <2>8. ParentFirst' BY <2>1 DEF ParentFirst
  <2> QED BY <1>2, <2>7, <2>8
<1> QED BY <1>5, <1>6

\* acquireLockInternal() records a lock in both tables, and acquires it after
\* the intention lock on the parent.
LEMMA PutLInv ==
    ASSUME LInv, put
    PROVE  CountsAgree' /\ ReleaseCounts' /\ Covered' /\ Stacked' /\ ParentFirst'
<1> DEFINE t == job.req.tid
           top == Head(job.locks)
           r == top.rid
           m == top.mode
           res == putLockResult(table, t, r, m)
           granted == res \in {"alreadyInOwned", "placedInOwned"}
<1>1. pc = "put" /\ job \in Acquisition BY DEF put, LInv, IInv, TypeOK, Loops, Killing
<1>2. job.locks \in Seq([rid : Resources, mode : Modes]) /\ job.locks # <<>> /\ t \in Transactions
      /\ job.loop \in Loops
  BY <1>1 DEF Acquisition, Acquire
<1>3. r \in Resources /\ m \in Modes
  <2>1. top \in [rid : Resources, mode : Modes] BY <1>2, HeadTail
  <2> QED BY <2>1
<1>4. table' = putLock(table, t, r, m) /\ table \in TableType BY DEF put, LInv, IInv, TypeOK
<1>5. tx' = IF res = "placedInOwned" THEN [tx EXCEPT ![t].own = Append(@, r)]
            ELSE IF res = "placedInPending" THEN [tx EXCEPT ![t].pending = Append(@, r)] ELSE tx
  BY DEF put
<1>6. IF granted /\ Len(job.locks) > 1
      THEN job' = [job EXCEPT !.locks = Tail(@)] /\ pc' = pc
      ELSE pc' = job.loop
  BY DEF put, Answer
<1>7. res = "alreadyInOwned" => Holds(table.own[r], t, m) BY DEF putLockResult
<1>8. CoveredLock(t, top) BY <1>1 DEF LInv, ParentFirst
<1>9. tx \in [Transactions -> [own : Seq(Resources), pending : Seq(Resources)]]
      /\ tx[t].own \in Seq(Resources) /\ tx[t].pending \in Seq(Resources)
  BY <1>2 DEF LInv, IInv, TypeOK
<1>10. pc' \notin {"release", "hung"} BY <1>1, <1>2, <1>6 DEF Loops
<1>11. (\A u : ~Releases(u)) /\ \A u : ~Releases(u)' BY <1>1, <1>10 DEF Releases
<1> DEFINE isOwn == res = "placedInOwned"
           isPending == res = "placedInPending"
<1>12. ASSUME NEW u \in Transactions
       PROVE  /\ tx'[u].own = IF isOwn /\ u = t THEN Append(tx[t].own, r) ELSE tx[u].own
              /\ tx'[u].pending = IF isPending /\ u = t THEN Append(tx[t].pending, r)
                                  ELSE tx[u].pending
  <2> HIDE DEF t, r, res
  <2>1. CASE res = "placedInOwned"
    <3>1. tx' = [tx EXCEPT ![t].own = Append(@, r)] BY <1>5, <2>1
    <3> QED BY <1>2, <1>9, <2>1, <3>1
  <2>2. CASE res = "placedInPending"
    <3>1. tx' = [tx EXCEPT ![t].pending = Append(@, r)] BY <1>5, <2>2
    <3> QED BY <1>2, <1>9, <2>2, <3>1
  <2>3. CASE res \notin {"placedInOwned", "placedInPending"} BY <1>5, <2>3
  <2> QED BY <2>1, <2>2, <2>3
<1>13. PutEffect(table, table', res, t, r, m) BY <1>2, <1>3, <1>4, PutCounts
<1>14. ASSUME NEW u \in Transactions, NEW s \in Resources
       PROVE  /\ Times(tx'[u].own, s) = Entries(table'.own[s], u)
              /\ Times(tx'[u].pending, s) = Entries(table'.pending[s], u)
  <2>1. /\ Entries(table'.own[s], u) = Entries(table.own[s], u) + (IF isOwn /\ s = r /\ u = t THEN 1 ELSE 0)
        /\ Entries(table'.pending[s], u)
             = Entries(table.pending[s], u) + (IF isPending /\ s = r /\ u = t THEN 1 ELSE 0)
    <3> HIDE DEF t, r, res
    <3> QED BY <1>13 DEF PutEffect
  <2>2. Times(tx[u].own, s) = Entries(table.own[s], u)
        /\ Times(tx[u].pending, s) = Entries(table.pending[s], u)
    BY <1>11 DEF LInv, CountsAgree, AgreesFor
  <2>3. Times(tx[u].own, s) \in Nat /\ Times(tx[u].pending, s) \in Nat
    BY <1>9, TimesNumber
  <2>4. Times(Append(tx[t].own, r), s) = Times(tx[t].own, s) + One(r = s)
        /\ Times(Append(tx[t].pending, r), s) = Times(tx[t].pending, s) + One(r = s)
    BY <1>3, <1>9, TimesAppend
  <2> HIDE DEF t, r, isOwn, isPending
  <2>5. Times(tx'[u].own, s) = Entries(table'.own[s], u)
    BY <1>12, <2>1, <2>2, <2>3, <2>4 DEF One
  <2>6. Times(tx'[u].pending, s) = Entries(table'.pending[s], u)
    BY <1>12, <2>1, <2>2, <2>3, <2>4 DEF One
  <2> QED BY <2>5, <2>6
<1>15. CountsAgree' BY <1>14 DEF CountsAgree, AgreesFor
<1>16. ASSUME NEW u \in Transactions, NEW s \in Resources, NEW n
       PROVE  Holds(table'.own[s], u, n) <=> Holds(table.own[s], u, n)
                                             \/ (isOwn /\ s = r /\ u = t /\ n = m)
  <2> HIDE DEF t, r, m, res
  <2> QED BY <1>13 DEF PutEffect
<1>17. ASSUME NEW u \in Transactions, NEW s \in Resources, NEW n \in Modes,
              Holds(table'.own[s], u, n), Parent[s] # NoParent
       PROVE  Holds(table'.own[Parent[s]], u, intention(n))
  <2>1. Parent[s] \in Resources BY <1>17, HierarchyAssumption
  <2>2. Holds(table.own[Parent[s]], u, intention(n)) => Holds(table'.own[Parent[s]], u, intention(n))
    BY <1>16, <2>1
  <2>3. CASE Holds(table.own[s], u, n)
    <3>1. CoveredFor(u) BY <1>11 DEF LInv, Covered
    <3>2. Holds(table.own[Parent[s]], u, intention(n)) BY <1>17, <2>3, <3>1 DEF CoveredFor, Owns
    <3> QED BY <2>2, <3>2
  <2>4. CASE s = r /\ u = t /\ n = m
    <3>1. Holds(table.own[Parent[s]], u, intention(n)) BY <1>8, <1>17, <2>4 DEF CoveredLock, Owns
    <3> QED BY <2>2, <3>1
  <2> QED BY <1>16, <1>17, <2>3, <2>4
<1>18. Covered' BY <1>17 DEF Covered, CoveredFor, Owns
<1>19. ReleaseCounts' BY <1>11 DEF ReleaseCounts
<1>20. CASE granted /\ Len(job.locks) > 1
  <2>1. job' = [job EXCEPT !.locks = Tail(@)] /\ pc' = "put" BY <1>1, <1>6, <1>20
  <2>2. job'.locks = Tail(job.locks) /\ job'.req = job.req BY <1>1, <2>1 DEF Acquisition
  <2>3. Len(job.locks) \in Nat /\ Len(Tail(job.locks)) = Len(job.locks) - 1
        /\ \A k \in 1 .. Len(job.locks) - 1 : Tail(job.locks)[k] = job.locks[k + 1]
    BY <1>2
  <2>4. \A k \in 1 .. Len(job.locks) - 1 : IsIntentionOf(job.locks[k], job.locks[k + 1])
    BY <1>1 DEF LInv, Stacked
  <2>5. ASSUME NEW k \in 1 .. Len(job'.locks) - 1
        PROVE  IsIntentionOf(job'.locks[k], job'.locks[k + 1])
    <3>1. k \in 1 .. Len(job.locks) - 1 /\ k + 1 \in 1 .. Len(job.locks) - 1 BY <2>2, <2>3
    <3>2. job'.locks[k] = job.locks[k + 1] /\ job'.locks[k + 1] = job.locks[(k + 1) + 1]
      BY <2>2, <2>3, <3>1
    <3> QED BY <2>4, <3>1, <3>2
  <2>6. Stacked' BY <2>5 DEF Stacked, IsIntentionOf
  <2> DEFINE low == Head(job'.locks)
  <2>7. Head(job'.locks) = job.locks[2] /\ IsIntentionOf(job.locks[1], job.locks[2])
    <3>1. 1 \in 1 .. Len(job.locks) - 1 /\ 1 + 1 = 2 BY <1>20, <2>3
    <3>2. Head(Tail(job.locks)) = Tail(job.locks)[1] BY <2>3, <3>1
    <3>3. Tail(job.locks)[1] = job.locks[2] BY <2>3, <3>1
    <3> QED BY <2>2, <2>4, <3>1, <3>2, <3>3
  <2>8. top = job.locks[1] BY <1>2
  <2>9. r = Parent[low.rid] /\ m = intention(low.mode) BY <2>7, <2>8 DEF IsIntentionOf
  <2>10. Holds(table'.own[r], t, m) BY <1>2, <1>3, <1>7, <1>16, <1>20
  <2>11. job'.req.tid = t BY <2>2
  <2> HIDE DEF low, r, m, t
  <2>12. Holds(table'.own[Parent[low.rid]], job'.req.tid, intention(low.mode)) BY <2>9, <2>10, <2>11
  <2>13. ParentFirst' BY <2>12 DEF ParentFirst, CoveredLock, Owns, low
  <2> QED BY <1>15, <1>18, <1>19, <2>6, <2>13
<1>21. CASE ~(granted /\ Len(job.locks) > 1)
  <2>1. pc' \in Loops BY <1>2, <1>6, <1>21
  <2>2. Stacked' /\ ParentFirst' BY <2>1 DEF Stacked, ParentFirst, Loops
  <2> QED BY <1>15, <1>18, <1>19, <2>2
<1> QED BY <1>20, <1>21

\* releaseAllLocks() finds the next of a transaction's locks and takes it from
\* the lock table, and touches no lock of any other transaction.
LEMMA ReleaseLInv ==
    ASSUME LInv, release
    PROVE  CountsAgree' /\ ReleaseCounts' /\ Covered' /\ Stacked' /\ ParentFirst'
<1> DEFINE t == job.req.tid
           r == Head(job.locks)
           res == deleteLockResult(table, t, r)
<1>1. /\ pc = "release" /\ job.locks # <<>> /\ pc' \in {"release", "hung"}
      /\ job' = [job EXCEPT !.locks = Tail(@)] /\ table' = deleteLock(table, t, r) /\ tx' = tx
  BY DEF release
<1>2. job \in ReleaseJob BY <1>1 DEF LInv, IInv, TypeOK, Loops, Killing
<1>3. job.locks \in Seq(Resources) /\ t \in Transactions
      /\ job'.locks = Tail(job.locks) /\ job'.req = job.req
  BY <1>1, <1>2 DEF ReleaseJob
<1>4. r \in Resources BY <1>1, <1>3, HeadTail
<1>5. table \in TableType /\ table.own \in [Resources -> Seq(Entry)]
      /\ table.pending \in [Resources -> Seq(Entry)]
  BY DEF LInv, IInv, TypeOK, TableType
<1>6. (\A u : Releases(u) <=> u = t) /\ \A u : Releases(u)' <=> u = t BY <1>1, <1>3 DEF Releases
<1>7. /\ tx[t] = [own |-> <<>>, pending |-> <<>>]
      /\ \A s \in Resources :
           Times(job.locks, s) = Entries(table.own[s], t) + Entries(table.pending[s], t)
  BY <1>3, <1>6 DEF LInv, ReleaseCounts
<1> DEFINE fromOwn == res = "deleteFromOwned"
           fromPending == res = "deleteFromPending"
<1>8. DeleteEffect(table, table', res, t, r) BY <1>1, <1>3, <1>4, <1>5, DeleteCounts
<1>9. \A s \in Resources : \A u : Entries(table.own[s], u) \in Nat /\ Entries(table.pending[s], u) \in Nat
  BY <1>5, EntriesNumber
<1>10. Times(job.locks, r) \in Nat /\ Times(job.locks, r) # 0
  <2>1. 1 \in DOMAIN job.locks /\ job.locks[1] = r BY <1>1, <1>3
  <2>2. Times(job.locks, r) \in Nat
        /\ (Times(job.locks, r) = 0 <=> \A i \in DOMAIN job.locks : job.locks[i] # r)
    BY <1>3, TimesNumber
  <2> QED BY <2>1, <2>2
<1>11. (fromOwn /\ ~fromPending) \/ (~fromOwn /\ fromPending)
  <2>1. Entries(table.own[r], t) # 0 \/ Entries(table.pending[r], t) # 0 BY <1>4, <1>7, <1>9, <1>10
  <2> HIDE DEF t, r, res
  <2>2. res # "deleteError" /\ res \in {"deleteFromOwned", "deleteFromPending", "deleteError"}
    BY <1>8, <2>1 DEF DeleteEffect
  <2> QED BY <2>2
<1>12. ASSUME NEW s \in Resources
       PROVE  Times(job'.locks, s) = Entries(table'.own[s], t) + Entries(table'.pending[s], t)
  <2>1. Times(Tail(job.locks), s) = Times(job.locks, s) - One(r = s) BY <1>1, <1>3, TimesTail
  <2>2. /\ Entries(table'.own[s], t) = Entries(table.own[s], t) - (IF fromOwn /\ s = r THEN 1 ELSE 0)
        /\ Entries(table'.pending[s], t)
             = Entries(table.pending[s], t) - (IF fromPending /\ s = r THEN 1 ELSE 0)
    <3> HIDE DEF t, r, res
    <3> QED BY <1>8 DEF DeleteEffect
  <2>3. Times(job.locks, s) = Entries(table.own[s], t) + Entries(table.pending[s], t)
        /\ Entries(table.own[s], t) \in Nat /\ Entries(table.pending[s], t) \in Nat
    BY <1>7, <1>9
  <2>4. job'.locks = Tail(job.locks) BY <1>3
  <2> HIDE DEF t, r, fromOwn, fromPending
  <2>5. CASE s = r BY <1>11, <2>1, <2>2, <2>3, <2>4, <2>5 DEF One
  <2>6. CASE s # r BY <2>1, <2>2, <2>3, <2>4, <2>6 DEF One
  <2> QED BY <2>5, <2>6
<1>13. ReleaseCounts' BY <1>1, <1>6, <1>7, <1>12 DEF ReleaseCounts
<1>14. ASSUME NEW u \in Transactions, u # t PROVE AgreesFor(u)' /\ CoveredFor(u)'
  <2>1. AgreesFor(u) /\ CoveredFor(u) BY <1>6, <1>14 DEF LInv, CountsAgree, Covered
  <2>2. \A s \in Resources : Entries(table'.own[s], u) = Entries(table.own[s], u)
                             /\ Entries(table'.pending[s], u) = Entries(table.pending[s], u)
    <3> HIDE DEF t, r, res
    <3> QED BY <1>8, <1>9, <1>14 DEF DeleteEffect
  <2>3. \A s \in Resources : \A n : Holds(table'.own[s], u, n) <=> Holds(table.own[s], u, n)
    <3> HIDE DEF t, r, res
    <3> QED BY <1>8, <1>14 DEF DeleteEffect
  <2>4. AgreesFor(u)' BY <1>1, <2>1, <2>2 DEF AgreesFor
  <2>5. \A s \in Resources : Parent[s] # NoParent => Parent[s] \in Resources BY HierarchyAssumption
  <2>6. CoveredFor(u)' BY <2>1, <2>3, <2>5 DEF CoveredFor, Owns
  <2> QED BY <2>4, <2>6
<1>15. CountsAgree' /\ Covered' BY <1>6, <1>14 DEF CountsAgree, Covered
<1>16. Stacked' /\ ParentFirst' BY <1>1 DEF Stacked, ParentFirst
<1> QED BY <1>13, <1>15, <1>16

\* When releaseAllLocks() is through, the transaction has no lock left in either table.
LEMMA ReleasedLInv ==
    ASSUME LInv, released
    PROVE  CountsAgree' /\ ReleaseCounts' /\ Covered' /\ Stacked' /\ ParentFirst'
<1> DEFINE t == job.req.tid
<1>1. pc = "release" /\ job.locks = <<>> /\ pc' = job.loop /\ UNCHANGED <<table, tx>>
  BY DEF released
<1>2. job \in ReleaseJob BY <1>1 DEF LInv, IInv, TypeOK, Loops, Killing
<1>3. t \in Transactions /\ pc' \in Loops \cup Killing BY <1>1, <1>2 DEF ReleaseJob, Loops, Killing
<1>4. (\A u : Releases(u) <=> u = t) /\ \A u : ~Releases(u)'
  BY <1>1, <1>3 DEF Releases, Loops, Killing
<1>5. /\ tx[t] = [own |-> <<>>, pending |-> <<>>]
      /\ \A s \in Resources :
           Times(job.locks, s) = Entries(table.own[s], t) + Entries(table.pending[s], t)
  BY <1>3, <1>4 DEF LInv, ReleaseCounts
<1>6. \A s \in Resources : Times(<<>>, s) = 0
  <2>1. <<>> \in Seq(Resources) /\ DOMAIN <<>> = {} OBVIOUS
  <2> QED BY <2>1, TimesNumber
<1>7. \A s \in Resources : table.own[s] \in Seq(Entry) /\ table.pending[s] \in Seq(Entry)
  BY DEF LInv, IInv, TypeOK, TableType
<1>8. ASSUME NEW s \in Resources PROVE Entries(table.own[s], t) = 0 /\ Entries(table.pending[s], t) = 0
  <2>1. Entries(table.own[s], t) \in Nat /\ Entries(table.pending[s], t) \in Nat
    BY <1>7, EntriesNumber
  <2>2. 0 = Entries(table.own[s], t) + Entries(table.pending[s], t) BY <1>1, <1>5, <1>6
  <2> QED BY <2>1, <2>2
<1>9. AgreesFor(t) BY <1>5, <1>6, <1>8 DEF AgreesFor
<1>10. CoveredFor(t)
  <2>1. ASSUME NEW s \in Resources, NEW n PROVE ~Holds(table.own[s], t, n)
    <3>1. \A i \in DOMAIN table.own[s] : table.own[s][i].tid # t BY <1>7, <1>8, EntriesNumber
    <3> QED BY <3>1 DEF Holds
  <2> QED BY <2>1 DEF CoveredFor, Owns
<1>11. \A u \in Transactions : AgreesFor(u) /\ CoveredFor(u)
  BY <1>4, <1>9, <1>10 DEF LInv, CountsAgree, Covered
<1>12. CountsAgree' BY <1>1, <1>11 DEF CountsAgree, AgreesFor
<1>13. Covered' BY <1>1, <1>11 DEF Covered, CoveredFor, Owns
<1>14. ReleaseCounts' BY <1>4 DEF ReleaseCounts
<1>15. Stacked' /\ ParentFirst' BY <1>3 DEF Stacked, ParentFirst, Loops, Killing
<1> QED BY <1>12, <1>13, <1>14, <1>15

LEMMA StepLInv ==
    ASSUME LInv, [Next]_vars
    PROVE  LInv'
<1>1. IInv' BY StepIInv DEF LInv
<1>2. CASE \E t \in Transactions : requestLock(t) \/ requestRelease(t)
  <2>1. UNCHANGED <<pc, job, table, tx>> BY <1>2 DEF requestLock, requestRelease
  <2> QED BY <1>1, <2>1, ClientLInv DEF LInv
<1>3. CASE popIncoming BY <1>1, <1>3, PopLInv DEF LInv
<1>4. CASE tryInner
  <2>1. pc = "inner" /\ pc' = "climb" /\ UNCHANGED <<table, tx>>
        /\ job' = Acquiring(Head(inner), "inner")
    BY <1>4 DEF tryInner
  <2> QED BY <1>1, <2>1, StillTables, SingleStacked DEF LInv
<1>5. CASE pollEmpty
  <2>1. UNCHANGED <<pc, job, table, tx>> BY <1>5 DEF pollEmpty
  <2> QED BY <1>1, <2>1, ClientLInv DEF LInv
<1>6. CASE endLoop
  <2>1. pc \in Loops /\ pc' \in Loops /\ UNCHANGED <<table, tx>> BY <1>6 DEF endLoop, Loops
  <2>2. CountsAgree' /\ ReleaseCounts' /\ Covered' BY <2>1, StillTables DEF Loops
  <2> QED BY <1>1, <2>1, <2>2 DEF LInv, Stacked, ParentFirst, Loops
<1>7. CASE climb BY <1>1, <1>7, ClimbLInv DEF LInv
<1>8. CASE put BY <1>1, <1>8, PutLInv DEF LInv
<1>9. CASE release BY <1>1, <1>9, ReleaseLInv DEF LInv
<1>10. CASE released BY <1>1, <1>10, ReleasedLInv DEF LInv
<1>11. CASE UNCHANGED vars
  <2>1. UNCHANGED <<pc, job, table, tx>> BY <1>11 DEF vars
  <2> QED BY <1>1, <2>1, ClientLInv DEF LInv
<1> QED BY <1>2, <1>3, <1>4, <1>5, <1>6, <1>7, <1>8, <1>9, <1>10, <1>11 DEF Next, Run

\* An intention lock on the parent keeps every conflicting lock off it.
LEMMA CoveredProtects ==
    ASSUME LInv, Unlatched
    PROVE  NoHiddenConflict
<1> SUFFICES ASSUME NEW r \in Resources, NEW t \in Transactions, NEW u \in Transactions,
                    NEW m \in Modes, NEW n \in Modes,
                    t # u, Parent[r] # NoParent, Owns(t, Parent[r], m), Owns(u, r, n)
             PROVE  ~(Reads(m) /\ n = "X") /\ ~(m = "X" /\ Reads(n))
  BY DEF NoHiddenConflict
<1>1. CoveredFor(u) BY DEF LInv, Covered, Unlatched, Loops, Releases
<1>2. Owns(u, Parent[r], intention(n)) BY <1>1 DEF CoveredFor
<1> DEFINE list == table.own[Parent[r]]
<1>3. PICK i \in DOMAIN list : list[i] = [tid |-> t, mode |-> m] BY DEF Owns, Holds
<1>4. PICK j \in DOMAIN list : list[j] = [tid |-> u, mode |-> intention(n)] BY <1>2 DEF Owns, Holds
<1>5. i # j
  <2>1. list[i].tid = t /\ list[j].tid = u BY <1>3, <1>4
  <2> QED BY <2>1
<1>6. Parent[r] \in Resources BY HierarchyAssumption
<1>7. isCompatible(list[i].mode, list[j].mode) BY <1>5, <1>6 DEF LInv, IInv, OwnCompatible
<1>8. isCompatible(m, intention(n)) BY <1>3, <1>4, <1>7
<1> QED BY <1>8 DEF isCompatible, Tolerates, intention, Reads, Modes

\* Whatever the hierarchy, the transactions and what they ask for: the
\* transaction table by which releaseAllLocks() goes agrees with the lock table,
\* every lock it goes to delete is there (its CHECK on kDeleteError never
\* fails), and the intention locks keep conflicting locks out of a subtree.
THEOREM LockTablesExactHolds == Spec => []LockTablesExact
<1>1. LInv => LockTablesExact
  <2> SUFFICES ASSUME LInv PROVE LockTablesExact OBVIOUS
  <2>1. TypeOK BY DEF LInv, IInv
  <2>2. TablesAgree BY DEF LInv, TablesAgree, Unlatched, Loops, CountsAgree, AgreesFor, Releases
  <2>3. NoHiddenConflict BY CoveredProtects DEF NoHiddenConflict
  <2>4. ReleaseFinds
    <3> SUFFICES ASSUME pc = "release", job.locks # <<>>
                 PROVE  deleteLockResult(table, job.req.tid, Head(job.locks)) # "deleteError"
      BY DEF ReleaseFinds
    <3> DEFINE t == job.req.tid
               r == Head(job.locks)
    <3>1. job \in ReleaseJob BY DEF LInv, IInv, TypeOK, Loops, Killing
    <3>2. job.locks \in Seq(Resources) /\ t \in Transactions /\ r \in Resources
      BY <3>1, HeadTail DEF ReleaseJob
    <3>3. Times(job.locks, r) = Entries(table.own[r], t) + Entries(table.pending[r], t)
      BY <3>2 DEF LInv, ReleaseCounts, Releases
    <3>4. 1 \in DOMAIN job.locks /\ job.locks[1] = r BY <3>2
    <3>5. Times(job.locks, r) # 0
      <4>1. Times(job.locks, r) = 0 <=> \A i \in DOMAIN job.locks : job.locks[i] # r
        BY <3>2, TimesNumber
      <4> QED BY <3>4, <4>1
    <3>6. table \in TableType BY DEF LInv, IInv, TypeOK
    <3>7. ~(Entries(table.own[r], t) = 0 /\ Entries(table.pending[r], t) = 0) BY <3>3, <3>5
    <3>8. DeleteEffect(table, deleteLock(table, t, r), deleteLockResult(table, t, r), t, r)
      BY <3>2, <3>6, DeleteCounts
    <3> QED BY <3>7, <3>8 DEF DeleteEffect
  <2> QED BY <2>1, <2>2, <2>3, <2>4 DEF LockTablesExact
<1>2. LInv /\ [Next]_vars => LInv' BY StepLInv
<1> QED BY <1>1, <1>2, InitLInv, PTL DEF Spec
=============================================================================
