--------------------------- MODULE ForemanProofs ---------------------------
(***************************************************************************)
(* For any number of workers, queries and requests and any value of the    *)
(* two flags: the foreman never overloads a worker, what it believes of    *)
(* the workers is so, it loses no query, and it answers the main thread    *)
(* once for each request.                                                  *)
(***************************************************************************)
EXTENDS Foreman, Counting

\* While a round is dispatched, some worker is light enough to take the rest.
RoundFits ==
    /\ Len(outbox) <= MaxRound
    /\ pc # "dispatch" => outbox = <<>>
    /\ pc = "collect" => \E w \in Workers : load[w] <= MinLoad
    /\ pc = "dispatch" =>
         \E w \in Workers : load[w] <= MinLoad + MaxRound - Len(outbox)

\* While the foreman admits, the request is still the first of its mail.
Admitting == pc = "admit" => mail # <<>> /\ Head(mail).type = "admit"

IInv == TypeOK /\ RoundFits /\ LoadBounded /\ Admitting

\* The first query of an admit request, and the rest of it.
LEMMA RequestType ==
  ASSUME mail \in Seq(MainMessage), mail # <<>>, Head(mail).type = "admit"
  PROVE  Head(mail).queries \in Seq(Queries) /\ Tail(mail) \in Seq(MainMessage)
         /\ Len(mail) \in Nat \ {0} /\ Head(mail) \in MainMessage
<1>1. Head(mail) \in MainMessage /\ Tail(mail) \in Seq(MainMessage) /\ Len(mail) \in Nat \ {0}
  OBVIOUS
<1>2. Head(mail) # Poison BY DEF Poison
<1> QED BY <1>1, <1>2 DEF MainMessage

\* A message sent later does not become the first.
LEMMA HeadKept ==
  ASSUME NEW s \in Seq(MainMessage), s # <<>>, NEW m \in MainMessage
  PROVE  Append(s, m) # <<>> /\ Head(Append(s, m)) = Head(s)
<1>1. Len(s) \in Nat \ {0} /\ Len(Append(s, m)) = Len(s) + 1 OBVIOUS
<1>2. Append(s, m)[1] = s[1] BY <1>1
<1> QED BY <1>1, <1>2

\* Releasing a stage keeps the policy enforcer's memory well typed.
LEMMA ReleaseType ==
  ASSUME NEW e \in PEType, NEW q \in Queries
  PROVE  Release(e, q) \in PEType
<1>1. CASE e.stages[q] = <<>> BY <1>1 DEF Release
<1>2. CASE e.stages[q] # <<>>
  <2> DEFINE r == [e.ready EXCEPT ![q] = @ + Head(e.stages[q])]
             t == [e.stages EXCEPT ![q] = Tail(@)]
  <2>1. e.ready \in [Queries -> Nat] /\ e.stages \in [Queries -> Seq(Nat \ {0})]
    BY DEF PEType
  <2>2. Head(e.stages[q]) \in Nat /\ Tail(e.stages[q]) \in Seq(Nat \ {0})
    BY <1>2, <2>1
  <2>3. r \in [Queries -> Nat] /\ t \in [Queries -> Seq(Nat \ {0})]
    BY <2>1, <2>2
  <2>4. Release(e, q) = [e EXCEPT !.ready = r, !.stages = t]
    BY <1>2 DEF Release, PEType
  <2> HIDE DEF r, t
  <2> QED BY <2>3, <2>4 DEF PEType
<1> QED BY <1>1, <1>2

LEMMA AdmitType ==
  ASSUME NEW e \in PEType, NEW q \in Queries
  PROVE  admitQuery(e, q) \in PEType
<1> DEFINE n == [e EXCEPT !.admitted = @ \cup {q}, !.ready[q] = 0,
                          !.out[q] = 0, !.stages[q] = Stages[q]]
           w == [e EXCEPT !.waiting = Append(@, q)]
<1>1. n \in PEType
  <2> DEFINE a == e.admitted \cup {q}
             r == [e.ready EXCEPT ![q] = 0]
             o == [e.out EXCEPT ![q] = 0]
             t == [e.stages EXCEPT ![q] = Stages[q]]
  <2>1. Stages[q] \in Seq(Nat \ {0}) BY QueriesAssumption
  <2>2. /\ a \in SUBSET Queries /\ r \in [Queries -> Nat] /\ o \in [Queries -> Int]
        /\ t \in [Queries -> Seq(Nat \ {0})]
    BY <2>1 DEF PEType
  <2>3. n = [e EXCEPT !.admitted = a, !.ready = r, !.out = o, !.stages = t]
    BY DEF PEType
  <2> HIDE DEF a, r, o, t, n
  <2> QED BY <2>2, <2>3 DEF PEType
<1>2. w \in PEType
  <2>1. e.waiting \in Seq(Queries) BY DEF PEType
  <2>2. Append(e.waiting, q) \in Seq(Queries) BY <2>1
  <2> QED BY <2>2 DEF PEType
<1>3. Release(n, q) \in PEType BY <1>1, ReleaseType
<1>4. admitQuery(e, q) \in {e, Release(n, q), w}
  BY DEF admitQuery
<1> HIDE DEF n, w
<1> QED BY <1>2, <1>3, <1>4

LEMMA RemoveType ==
  ASSUME NEW e \in PEType, NEW q \in Queries
  PROVE  removeQuery(e, q) \in PEType /\ removeIfExecuted(e, q) \in PEType
<1> DEFINE r == removeQuery(e, q)
<1>1. r \in PEType
  BY DEF removeQuery, PEType
<1>2. removeIfExecuted(e, q) \in PEType
  <2> HIDE DEF r
  <2>1. CASE r.waiting = <<>>
    BY <1>1, <2>1 DEF removeIfExecuted, r
  <2>2. CASE r.waiting # <<>>
    <3> DEFINE t == [r EXCEPT !.waiting = Tail(@)]
    <3>1. r.waiting \in Seq(Queries) BY <1>1 DEF PEType
    <3>2. Tail(r.waiting) \in Seq(Queries) /\ Head(r.waiting) \in Queries
      BY <2>2, <3>1
    <3>3. t \in PEType BY <1>1, <3>2 DEF PEType
    <3>4. admitQuery(t, Head(r.waiting)) \in PEType BY <3>2, <3>3, AdmitType
    <3>5. removeIfExecuted(e, q) \in {e, admitQuery(t, Head(r.waiting))}
      BY <2>2 DEF removeIfExecuted, r
    <3> QED BY <3>4, <3>5
  <2> QED BY <2>1, <2>2
<1> QED BY <1>1, <1>2

-----------------------------------------------------------------------------
LEMMA InitInv == Init => IInv
<1> SUFFICES ASSUME Init PROVE IInv OBVIOUS
<1>1. pe \in PEType
  BY QueriesAssumption DEF Init, PEType
<1>2. TypeOK
  <2>1. awaiting \in BOOLEAN BY Zenon DEF Init
  <2>2. mail \in Seq(MainMessage) /\ outbox \in Seq(Queries) /\ load \in [Workers -> Int]
    BY DEF Init
  <2>3. queue \in [Workers -> Seq(WorkerMessage)] /\ chan \in [Workers -> Seq(Report)]
    BY DEF Init
  <2> QED BY <1>1, <2>1, <2>2, <2>3, QueriesAssumption DEF Init, TypeOK
<1>3. RoundFits /\ LoadBounded /\ Admitting
  BY FlagsAssumption DEF Init, RoundFits, LoadBounded, Admitting
<1> QED BY <1>2, <1>3 DEF IInv

\* A step of the main thread does not touch the foreman's memory.
LEMMA MainInv == IInv /\ MainStep => IInv'
<1> SUFFICES ASSUME IInv, MainStep PROVE IInv' OBVIOUS
<1>t. TypeOK /\ RoundFits /\ LoadBounded /\ Admitting BY DEF IInv
<1>1. CASE sendAdmitRequest
  <2>1. [type |-> "admit", queries |-> Head(script)] \in MainMessage /\ Tail(script) \in Seq(Seq(Queries))
    BY <1>1, <1>t DEF sendAdmitRequest, TypeOK, MainMessage
  <2>2. TypeOK'
    BY <1>1, <1>t, <2>1 DEF sendAdmitRequest, TypeOK
  <2>3. Admitting'
    <3> DEFINE m == [type |-> "admit", queries |-> Head(script)]
    <3>1. mail' = Append(mail, m) /\ pc' = pc /\ mail \in Seq(MainMessage)
      BY <1>1, <1>t DEF sendAdmitRequest, TypeOK
    <3> HIDE DEF m
    <3> QED BY <1>t, <2>1, <3>1, HeadKept DEF Admitting, m
  <2> QED BY <1>1, <1>t, <2>2, <2>3 DEF sendAdmitRequest, IInv, RoundFits, LoadBounded
<1>2. CASE receiveQueryCompletion
  <2>1. awaiting' \in BOOLEAN BY <1>2, Zenon DEF receiveQueryCompletion
  <2>2. signals' \in Int BY <1>2, <1>t DEF receiveQueryCompletion, TypeOK
  <2>3. TypeOK'
    BY <1>2, <1>t, <2>1, <2>2 DEF receiveQueryCompletion, TypeOK
  <2> QED
    BY <1>2, <1>t, <2>3 DEF receiveQueryCompletion, IInv, RoundFits, LoadBounded, Admitting
<1>3. CASE broadcastPoison
  <2>1. Poison \in MainMessage /\ Poison \in WorkerMessage
    BY DEF MainMessage, WorkerMessage
  <2>2. queue' \in [Workers -> Seq(WorkerMessage)]
    BY <1>3, <1>t, <2>1 DEF broadcastPoison, TypeOK
  <2>3. TypeOK'
    BY <1>3, <1>t, <2>1, <2>2 DEF broadcastPoison, TypeOK, main
  <2>4. Admitting'
    <3>1. mail' = Append(mail, Poison) /\ pc' = pc /\ mail \in Seq(MainMessage)
      BY <1>3, <1>t DEF broadcastPoison, TypeOK
    <3> QED BY <1>t, <2>1, <3>1, HeadKept DEF Admitting
  <2> QED BY <1>3, <1>t, <2>3, <2>4 DEF broadcastPoison, IInv, RoundFits, LoadBounded
<1> QED BY <1>1, <1>2, <1>3 DEF MainStep

\* Whatever report worker w sends, once it is processed with these effects on
\* the enforcer and on the loads the invariant holds again.
LEMMA ReportInv ==
  ASSUME IInv, NEW w \in Workers, NEW type, Receives(w, type),
         pe' \in PEType, load' \in {load, [load EXCEPT ![w] = @ - 1]},
         pc' = AfterMessage(type, load')
  PROVE  IInv'
<1>t. TypeOK /\ RoundFits /\ LoadBounded /\ Admitting BY DEF IInv
<1>1. load' \in [Workers -> Int] /\ \A v \in Workers : load'[v] <= load[v]
  <2>1. load \in [Workers -> Int] BY <1>t DEF TypeOK
  <2>2. CASE load' = load BY <2>1, <2>2
  <2>3. CASE load' = [load EXCEPT ![w] = @ - 1] BY <2>1, <2>3
  <2> QED BY <2>2, <2>3
<1>2. chan' \in [Workers -> Seq(Report)]
  <2>1. Tail(chan[w]) \in Seq(Report)
    BY <1>t DEF Receives, TypeOK
  <2> QED BY <1>t, <2>1 DEF Receives, TypeOK
<1>3. outbox' = outbox /\ outbox = <<>>
  BY <1>t DEF Receives, RoundFits
<1>4. pc' \in {"collect", "signal"} /\ (pc' = "collect" => \E v \in Workers : load'[v] <= MinLoad)
  BY DEF AfterMessage, canCollectNewMessages
<1>5. TypeOK'
  BY <1>t, <1>1, <1>2, <1>3, <1>4 DEF TypeOK, Receives, main
<1>6. RoundFits'
  BY <1>t, <1>3, <1>4, FlagsAssumption DEF RoundFits
<1>7. LoadBounded'
  <2> SUFFICES ASSUME NEW v \in Workers PROVE load'[v] <= MinLoad + MaxRound
    BY DEF LoadBounded
  <2>1. load'[v] \in Int /\ load[v] \in Int /\ load'[v] <= load[v]
    BY <1>1, <1>t DEF TypeOK
  <2>2. load[v] <= MinLoad + MaxRound BY <1>t DEF LoadBounded
  <2> QED BY <2>1, <2>2, FlagsAssumption
<1>8. Admitting' BY <1>4 DEF Admitting
<1> QED BY <1>5, <1>6, <1>7, <1>8 DEF IInv

\* Each query of a request is admitted or put in the queue.
LEMMA AdmitInv == IInv /\ admitNext => IInv'
<1> SUFFICES ASSUME IInv, admitNext PROVE IInv' OBVIOUS
<1>t. TypeOK /\ RoundFits /\ LoadBounded /\ Admitting BY DEF IInv
<1>1. PICK more \in BOOLEAN :
        /\ pe' = IF Head(mail).queries = <<>> THEN pe
                 ELSE admitQuery(pe, Head(Head(mail).queries))
        /\ more => Head(mail).queries # <<>>
        /\ mail' = IF more
                   THEN [mail EXCEPT ![1] =
                           [type |-> "admit", queries |-> Tail(Head(mail).queries)]]
                   ELSE Tail(mail)
        /\ pc' = IF more THEN "admit" ELSE AfterMessage("admit", load)
  BY DEF admitNext
<1>2. /\ pc = "admit" /\ load' = load /\ outbox' = outbox
      /\ UNCHANGED <<script, awaiting, signals, queue, chan>>
  BY DEF admitNext, main
<1>3. /\ mail \in Seq(MainMessage) /\ mail # <<>> /\ Head(mail).type = "admit"
      /\ pe \in PEType /\ outbox = <<>>
  BY <1>2, <1>t DEF TypeOK, Admitting, RoundFits
<1>4. /\ Head(mail).queries \in Seq(Queries) /\ Tail(mail) \in Seq(MainMessage)
      /\ Len(mail) \in Nat \ {0}
  BY <1>3, RequestType
<1>5. pe' \in PEType
  <2>1. CASE Head(mail).queries = <<>> BY <1>1, <1>3, <2>1
  <2>2. CASE Head(mail).queries # <<>>
    <3>1. Head(Head(mail).queries) \in Queries BY <1>4, <2>2
    <3> QED BY <1>1, <1>3, <2>2, <3>1, AdmitType
  <2> QED BY <2>1, <2>2
<1>6. /\ mail' \in Seq(MainMessage)
      /\ more => mail' # <<>> /\ Head(mail').type = "admit"
  <2>1. CASE ~more BY <1>1, <1>4, <2>1
  <2>2. CASE more
    <3> DEFINE r == [type |-> "admit", queries |-> Tail(Head(mail).queries)]
    <3>1. r \in MainMessage BY <1>1, <1>4, <2>2 DEF MainMessage
    <3>2. mail' = [mail EXCEPT ![1] = r] /\ r.type = "admit" BY <1>1, <2>2
    <3> HIDE DEF r
    <3> QED BY <1>3, <1>4, <3>1, <3>2
  <2> QED BY <2>1, <2>2
<1>7. CASE more
  <2>1. pc' = "admit" BY <1>1, <1>7
  <2>2. TypeOK' BY <1>t, <1>2, <1>5, <1>6, <2>1 DEF TypeOK
  <2>3. RoundFits' /\ Admitting' /\ LoadBounded'
    BY <1>t, <1>2, <1>3, <1>6, <1>7, <2>1 DEF RoundFits, Admitting, LoadBounded
  <2> QED BY <2>2, <2>3 DEF IInv
<1>8. CASE ~more
  <2>1. /\ pc' \in {"collect", "signal"}
        /\ pc' = "collect" => \E v \in Workers : load[v] <= MinLoad
    BY <1>1, <1>8 DEF AfterMessage, canCollectNewMessages
  <2>2. TypeOK' BY <1>t, <1>2, <1>5, <1>6, <2>1 DEF TypeOK
  <2>3. RoundFits' /\ Admitting' /\ LoadBounded'
    BY <1>t, <1>2, <1>3, <2>1 DEF RoundFits, Admitting, LoadBounded
  <2> QED BY <2>2, <2>3 DEF IInv
<1> QED BY <1>7, <1>8

\* A round has at most MaxRound messages.
LEMMA CollectInv == IInv /\ getWorkerMessages => IInv'
<1> SUFFICES ASSUME IInv, getWorkerMessages PROVE IInv' OBVIOUS
<1>t. TypeOK /\ RoundFits /\ LoadBounded /\ Admitting BY DEF IInv
<1>1. /\ pc = "collect" /\ pc' = "dispatch" /\ load' = load /\ mail' = mail
      /\ UNCHANGED <<script, awaiting, signals, queue, chan>>
  BY DEF getWorkerMessages, main
<1>2. /\ outbox = <<>> /\ pe \in PEType
      /\ \E w \in Workers : load[w] <= MinLoad
  BY <1>1, <1>t DEF RoundFits, TypeOK
<1>3. pe' \in PEType /\ outbox' \in Seq(Queries) /\ Len(outbox') <= MaxRound
  <2>1. CASE UNCHANGED <<pe, outbox>>
    BY <1>2, <2>1, FlagsAssumption
  <2>2. CASE ~UNCHANGED <<pe, outbox>>
    <3>1. PICK q \in pe.admitted :
            LET share == MaxRound \div kMaxConcurrentQueries
                n == IF pe.ready[q] < share THEN pe.ready[q] ELSE share
                e == [pe EXCEPT !.ready[q] = @ - n, !.out[q] = @ + n]
            IN  /\ outbox' = Times(n, q)
                /\ pe' = IF n < share /\ hasQueryExecutionFinished(e, q)
                         THEN removeQuery(e, q) ELSE e
      BY <2>2 DEF getWorkerMessages
    <3>2. q \in Queries BY <1>2 DEF PEType
    <3> DEFINE n == IF pe.ready[q] < MaxRound THEN pe.ready[q] ELSE MaxRound
               e == [pe EXCEPT !.ready[q] = @ - n, !.out[q] = @ + n]
    <3>3. MaxRound \div kMaxConcurrentQueries = MaxRound
      BY FlagsAssumption DEF kMaxConcurrentQueries
    <3>4. outbox' = Times(n, q) /\ pe' \in {e, removeQuery(e, q)}
      BY <3>1, <3>3
    <3>5. /\ pe.ready \in [Queries -> Nat] /\ pe.out \in [Queries -> Int]
          /\ pe.ready[q] \in Nat
      BY <1>2, <3>2 DEF PEType
    <3>6. n \in Nat /\ n <= MaxRound /\ pe.ready[q] - n \in Nat
      BY <3>5, FlagsAssumption
    <3> HIDE DEF n
    <3>7. e \in PEType
      <4> DEFINE r == [pe.ready EXCEPT ![q] = @ - n]
                 o == [pe.out EXCEPT ![q] = @ + n]
      <4>1. r \in [Queries -> Nat] /\ o \in [Queries -> Int]
        BY <3>2, <3>5, <3>6
      <4>2. e = [pe EXCEPT !.ready = r, !.out = o]
        BY <1>2 DEF PEType
      <4> HIDE DEF r, o, e
      <4> QED BY <1>2, <4>1, <4>2 DEF PEType
    <3>8. pe' \in PEType
      <4> HIDE DEF e
      <4> QED BY <3>2, <3>4, <3>7, RemoveType
    <3>9. outbox' \in Seq(Queries) /\ Len(outbox') = n
      BY <3>2, <3>4, <3>6 DEF Times
    <3> QED BY <3>6, <3>8, <3>9
  <2> QED BY <2>1, <2>2
<1>4. TypeOK' BY <1>t, <1>1, <1>3 DEF TypeOK
<1>5. RoundFits'
  <2>1. PICK w \in Workers : load[w] <= MinLoad BY <1>2
  <2>2. load[w] \in Int /\ Len(outbox') \in Nat BY <1>3, <1>t DEF TypeOK
  <2>3. load[w] <= MinLoad + MaxRound - Len(outbox')
    BY <1>3, <2>1, <2>2, FlagsAssumption
  <2> QED BY <1>1, <1>3, <2>3 DEF RoundFits
<1>6. LoadBounded' /\ Admitting'
  BY <1>t, <1>1 DEF LoadBounded, Admitting
<1> QED BY <1>4, <1>5, <1>6 DEF IInv

\* Each message of a round goes to the least loaded worker, which can take it.
LEMMA DispatchInv == IInv /\ dispatchWorkerMessage => IInv'
<1> SUFFICES ASSUME IInv, dispatchWorkerMessage PROVE IInv' OBVIOUS
<1>t. TypeOK /\ RoundFits /\ LoadBounded /\ Admitting BY DEF IInv
<1>1. PICK w \in Workers :
        /\ isLeastLoaded(w)
        /\ queue' = [queue EXCEPT ![w] =
                       Append(@, [type |-> "workOrder", query |-> Head(outbox)])]
        /\ load' = [load EXCEPT ![w] = @ + 1]
  BY DEF dispatchWorkerMessage
<1>2. /\ pc = "dispatch" /\ pc' = pc /\ outbox # <<>> /\ outbox' = Tail(outbox)
      /\ UNCHANGED <<script, awaiting, signals, mail, pe, chan>>
  BY DEF dispatchWorkerMessage, main
<1>3. /\ outbox \in Seq(Queries) /\ load \in [Workers -> Int]
      /\ Len(outbox) \in Nat \ {0} /\ Len(outbox) <= MaxRound
  BY <1>t, <1>2 DEF TypeOK, RoundFits
<1>4. /\ Head(outbox) \in Queries /\ outbox' \in Seq(Queries)
      /\ Len(outbox') = Len(outbox) - 1
  BY <1>2, <1>3
<1>5. load[w] <= MinLoad + MaxRound - Len(outbox)
  <2>1. PICK v \in Workers : load[v] <= MinLoad + MaxRound - Len(outbox)
    BY <1>t, <1>2 DEF RoundFits
  <2>2. load[w] <= load[v] /\ load[w] \in Int /\ load[v] \in Int
    BY <1>1, <1>3, <2>1 DEF isLeastLoaded
  <2> QED BY <1>3, <2>1, <2>2, FlagsAssumption
<1>6. load' \in [Workers -> Int] /\ load'[w] = load[w] + 1
      /\ \A v \in Workers : v # w => load'[v] = load[v]
  BY <1>1, <1>3
<1>7. load'[w] <= MinLoad + MaxRound - Len(outbox') /\ load'[w] <= MinLoad + MaxRound
  <2>1. load[w] \in Int BY <1>3
  <2> QED BY <1>3, <1>4, <1>5, <1>6, <2>1, FlagsAssumption
<1>8. TypeOK'
  <2>1. [type |-> "workOrder", query |-> Head(outbox)] \in WorkerMessage
    BY <1>4 DEF WorkerMessage
  <2>2. queue' \in [Workers -> Seq(WorkerMessage)]
    <3> DEFINE m == [type |-> "workOrder", query |-> Head(outbox)]
    <3>1. queue \in [Workers -> Seq(WorkerMessage)] BY <1>t DEF TypeOK
    <3>2. queue' = [queue EXCEPT ![w] = Append(@, m)] BY <1>1
    <3> HIDE DEF m
    <3>3. Append(queue[w], m) \in Seq(WorkerMessage) BY <2>1, <3>1 DEF m
    <3> QED BY <3>1, <3>2, <3>3
  <2> QED BY <1>t, <1>2, <1>4, <1>6, <2>2 DEF TypeOK
<1>9. RoundFits'
  <2>1. Len(outbox') <= MaxRound BY <1>3, <1>4, FlagsAssumption
  <2> QED BY <1>2, <1>7, <2>1 DEF RoundFits
<1>10. LoadBounded' /\ Admitting'
  BY <1>t, <1>2, <1>6, <1>7 DEF LoadBounded, Admitting
<1> QED BY <1>8, <1>9, <1>10 DEF IInv

LEMMA StepInv == IInv /\ [Next]_vars => IInv'
<1> SUFFICES ASSUME IInv, [Next]_vars PROVE IInv' OBVIOUS
<1>t. TypeOK /\ RoundFits /\ LoadBounded /\ Admitting BY DEF IInv
<1>p. pe \in PEType BY <1>t DEF TypeOK
<1>1. CASE MainStep BY <1>1, MainInv
<1>2. CASE receiveAdmitRequest
  BY <1>2, <1>t DEF receiveAdmitRequest, IInv, TypeOK, RoundFits, LoadBounded, Admitting, main
<1>3. CASE admitNext BY <1>3, AdmitInv
<1>4. CASE receivePoison
  <2>1. Tail(mail) \in Seq(MainMessage) BY <1>4, <1>t DEF receivePoison, TypeOK
  <2> QED
    BY <1>4, <1>t, <2>1
       DEF receivePoison, IInv, TypeOK, RoundFits, LoadBounded, Admitting, main
<1>5. ASSUME NEW w \in Workers, NEW type, Receives(w, type) PROVE Head(chan[w]).query \in Queries
  <2>1. chan[w] \in Seq(Report) /\ chan[w] # <<>> BY <1>5, <1>t DEF Receives, TypeOK
  <2>2. Head(chan[w]) \in Report BY <2>1
  <2> QED BY <2>2 DEF Report
<1>6. ASSUME NEW w \in Workers, processWorkOrderComplete(w) PROVE IInv'
  <2> DEFINE q == Head(chan[w]).query
             e == [pe EXCEPT !.out[q] = @ - 1]
             f == IF e.ready[q] = 0 /\ e.out[q] = 0 THEN Release(e, q) ELSE e
  <2>1. /\ Receives(w, "complete") /\ load' = [load EXCEPT ![w] = @ - 1]
        /\ pe' = removeIfExecuted(f, q) /\ pc' = AfterMessage("complete", load')
    BY <1>6 DEF processWorkOrderComplete
  <2>2. q \in Queries BY <1>5, <2>1
  <2>3. e \in PEType
    <3> DEFINE o == [pe.out EXCEPT ![q] = @ - 1]
    <3>1. o \in [Queries -> Int] BY <1>p, <2>2 DEF PEType
    <3>2. e = [pe EXCEPT !.out = o] BY <1>p DEF PEType
    <3> HIDE DEF o, e
    <3> QED BY <1>p, <3>1, <3>2 DEF PEType
  <2>4. f \in PEType
    <3> HIDE DEF e, q
    <3> QED BY <2>2, <2>3, ReleaseType
  <2>5. pe' \in PEType
    <3> HIDE DEF f, q
    <3> QED BY <2>1, <2>2, <2>4, RemoveType
  <2> QED BY <2>1, <2>5, ReportInv
<1>7. ASSUME NEW w \in Workers, processDataPipeline(w) PROVE IInv'
  <2> DEFINE q == Head(chan[w]).query
  <2>1. /\ Receives(w, "pipeline") /\ load' = load /\ pc' = AfterMessage("pipeline", load')
        /\ \E e \in {pe, Release(pe, q)} : pe' = removeIfExecuted(e, q)
    BY <1>7 DEF processDataPipeline
  <2>2. q \in Queries BY <1>5, <2>1
  <2>3. pe' \in PEType
    <3> HIDE DEF q
    <3> QED BY <1>p, <2>1, <2>2, ReleaseType, RemoveType
  <2> QED BY <2>1, <2>3, ReportInv
<1>8. ASSUME NEW w \in Workers, processFeedback(w) PROVE IInv'
  <2>1. /\ Receives(w, "feedback") /\ load' = load /\ pc' = AfterMessage("feedback", load')
        /\ pe' = removeIfExecuted(pe, Head(chan[w]).query)
    BY <1>8 DEF processFeedback
  <2>2. pe' \in PEType BY <1>p, <1>5, <2>1, RemoveType
  <2> QED BY <2>1, <2>2, ReportInv
<1>9. ASSUME NEW w \in Workers, processNewBlock(w) PROVE IInv'
  <2>1. /\ Receives(w, "newBlock") /\ load' = load /\ pc' = AfterMessage("newBlock", load')
        /\ pe' = pe
    BY <1>9 DEF processNewBlock
  <2> QED BY <1>p, <2>1, ReportInv
<1>10. CASE getWorkerMessages BY <1>10, CollectInv
<1>11. CASE dispatchWorkerMessage BY <1>11, DispatchInv
<1>12. CASE signalCompletion
  <2>1. /\ pc' = "receive" /\ signals' \in Int /\ outbox = <<>>
        /\ UNCHANGED <<script, awaiting, mail, pe, outbox, load, queue, chan>>
    BY <1>12, <1>t DEF signalCompletion, TypeOK, RoundFits
  <2>2. TypeOK' BY <1>t, <2>1 DEF TypeOK
  <2>3. RoundFits' /\ LoadBounded' /\ Admitting'
    BY <1>t, <2>1 DEF RoundFits, LoadBounded, Admitting
  <2> QED BY <2>2, <2>3 DEF IInv
<1>13. ASSUME NEW w \in Workers, executeWorkOrder(w) PROVE IInv'
  <2> DEFINE q == Head(queue[w]).query
             z == [type |-> "complete", query |-> q]
  <2>1. PICK r \in Reports(q) : chan' = [chan EXCEPT ![w] = @ \o Append(r, z)]
    BY <1>13 DEF executeWorkOrder
  <2>2. /\ queue[w] # <<>> /\ queue' = [queue EXCEPT ![w] = Tail(@)]
        /\ Head(queue[w]).type = "workOrder"
        /\ UNCHANGED <<script, awaiting, signals, mail, pc, pe, outbox, load>>
    BY <1>13 DEF executeWorkOrder, main
  <2>3. queue \in [Workers -> Seq(WorkerMessage)] /\ chan \in [Workers -> Seq(Report)]
    BY <1>t DEF TypeOK
  <2>4. q \in Queries
    <3>1. Head(queue[w]) \in WorkerMessage /\ Head(queue[w]) # Poison
      BY <2>2, <2>3 DEF Poison
    <3> QED BY <3>1 DEF WorkerMessage
  <2>5. Append(r, z) \in Seq(Report)
    <3> HIDE DEF q
    <3>1. z \in Report BY <2>4 DEF Report
    <3>2. r \in Seq(Report)
      <4>1. \A t \in {"newBlock", "pipeline", "feedback"} : [type |-> t, query |-> q] \in Report
        BY <2>4 DEF Report
      <4>2. CASE r = <<>> BY <4>2
      <4>3. CASE r # <<>>
        <5>1. PICK t \in {"newBlock", "pipeline", "feedback"} :
                r = <<[type |-> t, query |-> q]>>
          BY <2>1, <4>3 DEF Reports
        <5> DEFINE m == [type |-> t, query |-> q]
        <5>2. m \in Report /\ r = <<m>> BY <4>1, <5>1
        <5> HIDE DEF m
        <5> QED BY <5>2
      <4> QED BY <4>2, <4>3
    <3> HIDE DEF z
    <3> QED BY <3>1, <3>2
  <2>6. chan' \in [Workers -> Seq(Report)]
    <3> DEFINE s == Append(r, z)
    <3>1. s \in Seq(Report) /\ chan' = [chan EXCEPT ![w] = @ \o s] BY <2>1, <2>5
    <3> HIDE DEF s
    <3>2. chan[w] \o s \in Seq(Report) BY <2>3, <3>1
    <3> QED BY <2>3, <3>1, <3>2
  <2>7. queue' \in [Workers -> Seq(WorkerMessage)]
    <3>1. Tail(queue[w]) \in Seq(WorkerMessage) BY <2>2, <2>3
    <3> QED BY <2>2, <2>3, <3>1
  <2>8. TypeOK' BY <1>t, <2>2, <2>6, <2>7 DEF TypeOK
  <2> QED BY <1>t, <2>2, <2>8 DEF IInv, RoundFits, LoadBounded, Admitting
<1>14. CASE UNCHANGED vars
  BY <1>14, <1>t DEF vars, IInv, TypeOK, RoundFits, LoadBounded, Admitting
<1> QED
  BY <1>1, <1>2, <1>3, <1>4, <1>6, <1>7, <1>8, <1>9, <1>10, <1>11, <1>12, <1>13, <1>14
     DEF Next, ForemanStep, Terminated

-----------------------------------------------------------------------------
\* The event loop, the policy enforcer, the loads and the bus keep their types.
THEOREM ForemanTypeCorrect == Spec => []TypeOK
<1>1. IInv => TypeOK BY DEF IInv
<1> QED BY <1>1, InitInv, StepInv, PTL DEF Spec

\* However many work orders the queries produce and whatever order the reports
\* arrive in, canCollectNewMessages() and the least-loaded choice keep every
\* worker's queue within the two flags' sum.
THEOREM LoadBoundedHolds == Spec => []LoadBounded
<1>1. IInv => LoadBounded BY DEF IInv
<1> QED BY <1>1, InitInv, StepInv, PTL DEF Spec

-----------------------------------------------------------------------------
(* What the foreman believes of the workers and of the main thread *)

\* One token for every work order a worker has or has completed unbeknown to
\* the foreman; they are counted without summing over the workers.
Tokens(l) == {p \in Workers \X Nat : p[2] \in 1 .. l[p[1]]}

\* At most kMaxConcurrentQueries queries are admitted.
OneAdmitted(e) == e.admitted = {} \/ \E q \in Queries : e.admitted = {q}

\* The query manager's count of outstanding work orders is exact.
OutExact ==
    \A q \in pe.admitted : pe.out[q] = Len(outbox) + Cardinality(Tokens(load))

\* The loads l are those of workers with these work orders and these reports, and
\* behind every report comes the completion of the work order it is of.
LoadsAre(l, qs, cs) ==
    /\ l \in [Workers -> Int]
    /\ qs \in [Workers -> Seq(WorkerMessage)] /\ cs \in [Workers -> Seq(Report)]
    /\ \A w \in Workers : l[w] = Count(qs[w], "workOrder") + Count(cs[w], "complete")
    /\ \A w \in Workers : cs[w] # <<>> => cs[w][Len(cs[w])].type = "complete"

HasReady == \E q \in pe.admitted : pe.ready[q] > 0
SomeLoad == \E w \in Workers : load[w] > 0

\* A foreman that goes to sleep on ready work has dispatched some.
Awake ==
    /\ pc \in {"signal", "receive"} /\ HasReady => SomeLoad
    /\ pc = "dispatch" /\ HasReady => outbox # <<>> \/ SomeLoad

Poisoned == pc = "exited" \/ Poison \in InSeq(mail) \/ \E w \in Workers : Poison \in InSeq(queue[w])

\* Nobody is poisoned before the client that waits has got its last answer.
PoisonLast == Poisoned => Patient /\ ~awaiting /\ script = <<>>

\* The conversation with a client that waits for each answer.
Conversation ==
    Patient =>
        /\ Len(mail) <= 1 /\ signals \in {0, 1}
        /\ signals = 1 => awaiting /\ mail = <<>> /\ pc = "receive" /\ ~hasQueries(pe)
        /\ ~awaiting => /\ signals = 0 /\ ~hasQueries(pe) /\ pc \in {"receive", "exited"}
                        /\ \A i \in DOMAIN mail : mail[i] = Poison
        /\ mail # <<>> => pc \in {"receive", "admit"}
        /\ mail # <<>> /\ pc = "receive" => ~hasQueries(pe)

FInv ==
    /\ IInv /\ LoadsAre(load, queue, chan) /\ MessagesOfAdmitted /\ OneAdmitted(pe)
    /\ OutExact /\ Awake /\ PoisonLast /\ Conversation

\* No request names more than one query.
SingleRequests == \A r \in InSeq(Script) : Len(r) <= 1

OneEach ==
    /\ \A r \in InSeq(script) : Len(r) <= 1
    /\ \A m \in InSeq(mail) : m.type = "admit" => Len(m.queries) <= 1

\* Every query asked for is still to be sent, in the mail, or known to the
\* policy enforcer.
NInv == FInv /\ OneEach /\ NoQueryLost

-----------------------------------------------------------------------------
(* Counting messages *)

Types(s) == [i \in DOMAIN s |-> s[i].type]

\* Counting the messages of a type is counting the type among the types.
LEMMA CountTypes ==
  ASSUME NEW M, NEW s \in Seq(M)
  PROVE  /\ Types(s) \in Seq({m.type : m \in M}) /\ Len(Types(s)) = Len(s)
         /\ \A i \in 1 .. Len(s) : Types(s)[i] = s[i].type
         /\ \A type : Count(s, type) = Occurrences(Types(s), type)
<1>1. DOMAIN s = 1 .. Len(s) /\ Len(s) \in Nat /\ \A i \in 1 .. Len(s) : s[i] \in M OBVIOUS
<1> DEFINE T == {m.type : m \in M}
<1>2. \A i \in 1 .. Len(s) : s[i].type \in T BY <1>1
<1> HIDE DEF T
<1>3. Types(s) \in [1 .. Len(s) -> T] BY <1>1, <1>2 DEF Types
<1>4. Types(s) \in Seq(T) /\ Len(Types(s)) = Len(s) BY <1>1, <1>3, SeqDef
<1>5. \A i \in 1 .. Len(s) : Types(s)[i] = s[i].type BY <1>1 DEF Types
<1>6. DOMAIN Types(s) = DOMAIN s BY DEF Types
<1>7. ASSUME NEW type PROVE Count(s, type) = Occurrences(Types(s), type)
  <2>1. {i \in DOMAIN s : s[i].type = type} = {i \in DOMAIN Types(s) : Types(s)[i] = type}
    BY <1>1, <1>5, <1>6
  <2> QED BY <2>1 DEF Count, Occurrences, PlacesOf
<1> QED BY <1>4, <1>5, <1>7 DEF T

LEMMA CountNumber ==
  ASSUME NEW M, NEW s \in Seq(M), NEW type
  PROVE  /\ Count(s, type) \in Nat
         /\ Count(s, type) = 0 <=> \A i \in DOMAIN s : s[i].type # type
<1> DEFINE T == {m.type : m \in M}
<1>1. Types(s) \in Seq(T) /\ Count(s, type) = Occurrences(Types(s), type) BY CountTypes
<1> HIDE DEF T
<1>2. /\ Occurrences(Types(s), type) \in Nat
      /\ Occurrences(Types(s), type) = 0 <=> \A i \in DOMAIN Types(s) : Types(s)[i] # type
  BY <1>1, OccurrencesNumber
<1> QED BY <1>1, <1>2 DEF Types

\* A message that is sent.
LEMMA CountAppend ==
  ASSUME NEW M, NEW s \in Seq(M), NEW m \in M, NEW type
  PROVE  Count(Append(s, m), type) = Count(s, type) + (IF m.type = type THEN 1 ELSE 0)
<1> DEFINE T == {x.type : x \in M}
           new == Append(s, m)
           app == Append(Types(s), m.type)
<1>1. new \in Seq(M) /\ Len(new) = Len(s) + 1 /\ Len(s) \in Nat /\ new[Len(s) + 1] = m
      /\ \A i \in 1 .. Len(s) : new[i] = s[i]
  OBVIOUS
<1>2. /\ Types(s) \in Seq(T) /\ Len(Types(s)) = Len(s)
      /\ \A i \in 1 .. Len(s) : Types(s)[i] = s[i].type
      /\ Count(s, type) = Occurrences(Types(s), type)
  BY CountTypes
<1> HIDE DEF new
<1>3. /\ Types(new) \in Seq(T) /\ Len(Types(new)) = Len(new)
      /\ \A i \in 1 .. Len(new) : Types(new)[i] = new[i].type
      /\ Count(new, type) = Occurrences(Types(new), type)
  BY <1>1, CountTypes
<1>4. m.type \in T OBVIOUS
<1> HIDE DEF T
<1>5. app \in Seq(T) /\ Len(app) = Len(s) + 1 /\ app[Len(s) + 1] = m.type
      /\ \A i \in 1 .. Len(s) : app[i] = Types(s)[i]
  BY <1>1, <1>2, <1>4
<1>6. Occurrences(app, type) = Occurrences(Types(s), type) + One(m.type = type)
  BY <1>2, <1>4, OccurrencesAppend
<1> HIDE DEF app
<1>7. \A i \in 1 .. Len(new) : Types(new)[i] = app[i]
  <2> SUFFICES ASSUME NEW i \in 1 .. Len(new) PROVE Types(new)[i] = app[i] OBVIOUS
  <2>1. i \in 1 .. Len(s) \/ i = Len(s) + 1 BY <1>1
  <2> QED BY <1>1, <1>2, <1>3, <1>5, <2>1
<1>8. Types(new) = app BY <1>1, <1>3, <1>5, <1>7, SeqEqual
<1> QED BY <1>2, <1>3, <1>6, <1>8 DEF One, new

\* A message that is received.
LEMMA CountTail ==
  ASSUME NEW M, NEW s \in Seq(M), s # <<>>, NEW type
  PROVE  Count(Tail(s), type) = Count(s, type) - (IF Head(s).type = type THEN 1 ELSE 0)
<1> DEFINE T == {x.type : x \in M}
           new == Tail(s)
<1>1. new \in Seq(M) /\ Len(new) = Len(s) - 1 /\ Len(s) \in Nat \ {0} /\ Head(s) = s[1]
      /\ \A i \in 1 .. Len(s) - 1 : new[i] = s[i + 1]
  OBVIOUS
<1>2. /\ Types(s) \in Seq(T) /\ Len(Types(s)) = Len(s)
      /\ \A i \in 1 .. Len(s) : Types(s)[i] = s[i].type
      /\ Count(s, type) = Occurrences(Types(s), type)
  BY CountTypes
<1> HIDE DEF new
<1>3. /\ Types(new) \in Seq(T) /\ Len(Types(new)) = Len(new)
      /\ \A i \in 1 .. Len(new) : Types(new)[i] = new[i].type
      /\ Count(new, type) = Occurrences(Types(new), type)
  BY <1>1, CountTypes
<1> HIDE DEF T
<1> DEFINE ts == Types(s)
<1>4. ts \in Seq(T) /\ Len(ts) = Len(s) BY <1>2
<1>5. ts # <<>> /\ Head(ts) = Head(s).type
  <2>1. 1 \in 1 .. Len(s) BY <1>1
  <2>2. ts[1] = s[1].type BY <1>2, <2>1
  <2> HIDE DEF ts
  <2> QED BY <1>1, <1>4, <2>2
<1>6. Tail(ts) \in Seq(T) /\ Len(Tail(ts)) = Len(s) - 1
      /\ \A i \in 1 .. Len(s) - 1 : Tail(ts)[i] = ts[i + 1]
  <2> HIDE DEF ts
  <2> QED BY <1>1, <1>4, <1>5
<1>7. Occurrences(Tail(ts), type) = Occurrences(ts, type) - One(Head(ts) = type)
  BY <1>4, <1>5, OccurrencesTail
<1>8. \A i \in 1 .. Len(new) : Types(new)[i] = Tail(ts)[i]
  <2> SUFFICES ASSUME NEW i \in 1 .. Len(new) PROVE Types(new)[i] = Tail(ts)[i] OBVIOUS
  <2>1. i \in 1 .. Len(s) - 1 /\ i + 1 \in 1 .. Len(s) BY <1>1
  <2> QED BY <1>1, <1>2, <1>3, <1>6, <2>1
<1>9. Types(new) = Tail(ts) BY <1>1, <1>3, <1>6, <1>8, SeqEqual
<1> QED BY <1>2, <1>3, <1>5, <1>7, <1>9 DEF One, new

\* The messages of one work order are sent together.
LEMMA CountConcat ==
  ASSUME NEW M, NEW a \in Seq(M), NEW b \in Seq(M), NEW type
  PROVE  Count(a \o b, type) = Count(a, type) + Count(b, type)
<1> DEFINE T == {x.type : x \in M}
           new == a \o b
           ta == Types(a)
           tb == Types(b)
           tt == ta \o tb
<1>1. new \in Seq(M) /\ Len(new) = Len(a) + Len(b) /\ Len(a) \in Nat /\ Len(b) \in Nat
      /\ \A i \in 1 .. Len(a) + Len(b) : new[i] = IF i <= Len(a) THEN a[i] ELSE b[i - Len(a)]
  OBVIOUS
<1>2. /\ Types(a) \in Seq(T) /\ Len(Types(a)) = Len(a)
      /\ \A i \in 1 .. Len(a) : Types(a)[i] = a[i].type
      /\ Count(a, type) = Occurrences(Types(a), type)
  BY CountTypes
<1>3. /\ Types(b) \in Seq(T) /\ Len(Types(b)) = Len(b)
      /\ \A i \in 1 .. Len(b) : Types(b)[i] = b[i].type
      /\ Count(b, type) = Occurrences(Types(b), type)
  BY CountTypes
<1> HIDE DEF new
<1>4. /\ Types(new) \in Seq(T) /\ Len(Types(new)) = Len(new)
      /\ \A i \in 1 .. Len(new) : Types(new)[i] = new[i].type
      /\ Count(new, type) = Occurrences(Types(new), type)
  BY <1>1, CountTypes
<1> HIDE DEF T
<1>5. tt \in Seq(T) /\ Len(tt) = Len(a) + Len(b)
      /\ \A i \in 1 .. Len(a) + Len(b) :
           tt[i] = IF i <= Len(a) THEN ta[i] ELSE tb[i - Len(a)]
  <2>1. ta \in Seq(T) /\ tb \in Seq(T) /\ Len(ta) = Len(a) /\ Len(tb) = Len(b) BY <1>2, <1>3
  <2> HIDE DEF ta, tb
  <2>2. tt \in Seq(T) /\ Len(tt) = Len(ta) + Len(tb)
        /\ \A i \in 1 .. Len(ta) + Len(tb) :
             tt[i] = IF i <= Len(ta) THEN ta[i] ELSE tb[i - Len(ta)]
    BY <2>1
  <2> QED BY <2>1, <2>2
<1>6. Occurrences(tt, type) = Occurrences(Types(a), type) + Occurrences(Types(b), type)
  BY <1>2, <1>3, OccurrencesConcat
<1> HIDE DEF tt
<1>7. \A i \in 1 .. Len(new) : Types(new)[i] = tt[i]
  <2> SUFFICES ASSUME NEW i \in 1 .. Len(new) PROVE Types(new)[i] = tt[i] OBVIOUS
  <2>1. CASE i <= Len(a)
    <3>1. i \in 1 .. Len(a) /\ i \in 1 .. Len(a) + Len(b) BY <1>1, <2>1
    <3> QED BY <1>1, <1>2, <1>4, <1>5, <2>1, <3>1
  <2>2. CASE ~(i <= Len(a))
    <3>1. i - Len(a) \in 1 .. Len(b) /\ i \in 1 .. Len(a) + Len(b) BY <1>1, <2>2
    <3> QED BY <1>1, <1>3, <1>4, <1>5, <2>2, <3>1
  <2> QED BY <2>1, <2>2
<1>8. Types(new) = tt BY <1>1, <1>4, <1>5, <1>7, SeqEqual
<1> QED BY <1>2, <1>3, <1>4, <1>6, <1>8 DEF new

-----------------------------------------------------------------------------
(* Tokens *)

Loads(l) == l \in [Workers -> Int] /\ \A w \in Workers : l[w] <= MinLoad + MaxRound

LEMMA TokensFinite ==
  ASSUME NEW l, Loads(l)
  PROVE  /\ IsFiniteSet(Tokens(l)) /\ Cardinality(Tokens(l)) \in Nat
         /\ Cardinality(Tokens(l)) = 0 <=> \A w \in Workers : ~(l[w] > 0)
<1> DEFINE n == MinLoad + MaxRound
<1>1. n \in Nat /\ NumWorkers - 1 \in Int BY FlagsAssumption, WorkersAssumption
<1>2. IsFiniteSet(Workers) /\ IsFiniteSet(1 .. n) BY <1>1, FS_Interval DEF Workers
<1>3. IsFiniteSet(Workers \X (1 .. n)) BY <1>2, FS_Product
<1>4. l \in [Workers -> Int] /\ \A w \in Workers : l[w] <= n BY DEF Loads
<1> HIDE DEF n
<1>5. Tokens(l) \subseteq Workers \X (1 .. n)
  <2> SUFFICES ASSUME NEW w \in Workers, NEW i \in Nat, i \in 1 .. l[w] PROVE i \in 1 .. n
    BY DEF Tokens
  <2> QED BY <1>1, <1>4
<1>6. IsFiniteSet(Tokens(l)) BY <1>3, <1>5, FS_Subset
<1>7. Cardinality(Tokens(l)) \in Nat BY <1>6, FS_CardinalityType
<1>8. Cardinality(Tokens(l)) = 0 <=> Tokens(l) = {} BY <1>6, FS_EmptySet
<1>9. ASSUME NEW w \in Workers, l[w] > 0 PROVE Tokens(l) # {}
  <2>1. 1 \in 1 .. l[w] BY <1>4, <1>9
  <2>2. <<w, 1>> \in Tokens(l) BY <2>1 DEF Tokens
  <2> QED BY <2>2
<1>10. ASSUME \A w \in Workers : ~(l[w] > 0) PROVE Tokens(l) = {}
  <2> SUFFICES ASSUME NEW w \in Workers, NEW i \in Nat, i \in 1 .. l[w] PROVE FALSE
    BY DEF Tokens
  <2> QED BY <1>4, <1>10
<1> QED BY <1>6, <1>7, <1>8, <1>9, <1>10

LEMMA TokensMore ==
  ASSUME NEW l, Loads(l), NEW w \in Workers, l[w] >= 0
  PROVE  Cardinality(Tokens([l EXCEPT ![w] = @ + 1])) = Cardinality(Tokens(l)) + 1
<1> DEFINE new == [l EXCEPT ![w] = @ + 1]
           x == <<w, l[w] + 1>>
<1>1. l \in [Workers -> Int] /\ l[w] \in Int BY DEF Loads
<1>2. \A v \in Workers : new[v] = IF v = w THEN l[w] + 1 ELSE l[v] BY <1>1
<1> HIDE DEF new
<1>3. x \notin Tokens(l)
  <2>1. ~(l[w] + 1 \in 1 .. l[w]) BY <1>1
  <2> QED BY <2>1 DEF Tokens
<1>4. Tokens(new) = Tokens(l) \cup {x}
  <2>1. ASSUME NEW v \in Workers, NEW i \in Nat
        PROVE  i \in 1 .. new[v] <=> i \in 1 .. l[v] \/ (v = w /\ i = l[w] + 1)
    <3>1. CASE v = w BY <1>1, <1>2, <3>1
    <3>2. CASE v # w BY <1>2, <3>2
    <3> QED BY <3>1, <3>2
  <2>2. l[w] + 1 \in Nat BY <1>1
  <2> QED BY <2>1, <2>2 DEF Tokens
<1>5. IsFiniteSet(Tokens(l)) BY TokensFinite
<1> QED BY <1>3, <1>4, <1>5, FS_AddElement DEF new

LEMMA TokensLess ==
  ASSUME NEW l, Loads(l), NEW w \in Workers, l[w] > 0
  PROVE  Cardinality(Tokens([l EXCEPT ![w] = @ - 1])) = Cardinality(Tokens(l)) - 1
<1> DEFINE new == [l EXCEPT ![w] = @ - 1]
           x == <<w, l[w]>>
<1>1. l \in [Workers -> Int] /\ l[w] \in Int BY DEF Loads
<1>2. \A v \in Workers : new[v] = IF v = w THEN l[w] - 1 ELSE l[v] BY <1>1
<1> HIDE DEF new
<1>3. x \in Tokens(l)
  <2>1. l[w] \in 1 .. l[w] /\ l[w] \in Nat BY <1>1
  <2> QED BY <2>1 DEF Tokens
<1>4. Tokens(new) = Tokens(l) \ {x}
  <2>1. ASSUME NEW v \in Workers, NEW i \in Nat
        PROVE  i \in 1 .. new[v] <=> i \in 1 .. l[v] /\ ~(v = w /\ i = l[w])
    <3>1. CASE v = w BY <1>1, <1>2, <3>1
    <3>2. CASE v # w BY <1>2, <3>2
    <3> QED BY <3>1, <3>2
  <2> QED BY <2>1 DEF Tokens
<1>5. IsFiniteSet(Tokens(l)) BY TokensFinite
<1> QED BY <1>3, <1>4, <1>5, FS_RemoveElement DEF new

-----------------------------------------------------------------------------
(* The messages of a sequence *)

LEMMA InSeqTail ==
  ASSUME NEW M, NEW s \in Seq(M), s # <<>>
  PROVE  InSeq(s) = InSeq(Tail(s)) \cup {Head(s)} /\ Head(s) \in M /\ Tail(s) \in Seq(M)
<1> DEFINE t == Tail(s)
<1>1. /\ Len(s) \in Nat \ {0} /\ DOMAIN s = 1 .. Len(s) /\ Head(s) = s[1] /\ Head(s) \in M
      /\ t \in Seq(M) /\ DOMAIN t = 1 .. Len(s) - 1 /\ \A i \in 1 .. Len(s) - 1 : t[i] = s[i + 1]
  OBVIOUS
<1> HIDE DEF t
<1>2. ASSUME NEW i \in 1 .. Len(s) PROVE s[i] \in InSeq(t) \cup {Head(s)}
  <2>1. CASE i = 1 BY <1>1, <2>1
  <2>2. CASE i # 1
    <3>1. i - 1 \in 1 .. Len(s) - 1 /\ (i - 1) + 1 = i BY <1>1, <2>2
    <3>2. t[i - 1] = s[i] BY <1>1, <3>1
    <3> QED BY <1>1, <3>1, <3>2 DEF InSeq
  <2> QED BY <2>1, <2>2
<1>3. ASSUME NEW i \in 1 .. Len(s) - 1 PROVE t[i] \in InSeq(s)
  <2>1. i + 1 \in 1 .. Len(s) /\ t[i] = s[i + 1] BY <1>1
  <2> QED BY <1>1, <2>1 DEF InSeq
<1>4. Head(s) \in InSeq(s)
  <2>1. 1 \in 1 .. Len(s) BY <1>1
  <2> QED BY <1>1, <2>1 DEF InSeq
<1>5. InSeq(s) \subseteq InSeq(t) \cup {Head(s)} BY <1>1, <1>2 DEF InSeq
<1>6. InSeq(t) \subseteq InSeq(s)
  BY <1>1, <1>3 DEF InSeq
<1> QED BY <1>1, <1>4, <1>5, <1>6 DEF t

LEMMA OneMessage ==
  ASSUME NEW M, NEW s \in Seq(M), s # <<>>, Len(s) <= 1
  PROVE  Len(s) = 1 /\ Tail(s) = <<>> /\ Len(Tail(s)) = 0 /\ DOMAIN Tail(s) = {}
<1>1. Len(s) = 1
  <2> DEFINE n == Len(s)
  <2>1. n \in Nat /\ n # 0 /\ n <= 1 OBVIOUS
  <2> HIDE DEF n
  <2>2. n = 1 BY <2>1
  <2> QED BY <2>2 DEF n
<1>2. Tail(s) \in Seq(M) /\ Len(Tail(s)) = 0 BY <1>1
<1> DEFINE t == Tail(s)
<1>3. t \in Seq(M) /\ Len(t) = 0 BY <1>2
<1> HIDE DEF t
<1>4. t = <<>> /\ DOMAIN t = {} BY <1>3
<1> QED BY <1>1, <1>2, <1>4 DEF t

LEMMA InSeqAppend ==
  ASSUME NEW M, NEW s \in Seq(M), NEW m \in M
  PROVE  InSeq(Append(s, m)) = InSeq(s) \cup {m} /\ Append(s, m) \in Seq(M)
<1> DEFINE t == Append(s, m)
<1>1. /\ Len(s) \in Nat /\ DOMAIN s = 1 .. Len(s) /\ DOMAIN t = 1 .. Len(s) + 1
      /\ t[Len(s) + 1] = m /\ t \in Seq(M) /\ \A i \in 1 .. Len(s) : t[i] = s[i]
  OBVIOUS
<1> HIDE DEF t
<1>2. ASSUME NEW i \in 1 .. Len(s) + 1 PROVE t[i] \in InSeq(s) \cup {m}
  <2>1. i = Len(s) + 1 \/ i \in 1 .. Len(s) BY <1>1
  <2> QED BY <1>1, <2>1 DEF InSeq
<1>3. ASSUME NEW i \in 1 .. Len(s) PROVE s[i] \in InSeq(t)
  <2>1. i \in 1 .. Len(s) + 1 /\ t[i] = s[i] BY <1>1
  <2> QED BY <1>1, <2>1 DEF InSeq
<1>4. m \in InSeq(t)
  <2>1. Len(s) + 1 \in 1 .. Len(s) + 1 BY <1>1
  <2> QED BY <1>1, <2>1 DEF InSeq
<1>5. InSeq(t) \subseteq InSeq(s) \cup {m} BY <1>1, <1>2 DEF InSeq
<1>6. InSeq(s) \subseteq InSeq(t) BY <1>1, <1>3 DEF InSeq
<1> QED BY <1>1, <1>4, <1>5, <1>6 DEF t

LEMMA InSeqConcat ==
  ASSUME NEW M, NEW a \in Seq(M), NEW b \in Seq(M)
  PROVE  InSeq(a \o b) \subseteq InSeq(a) \cup InSeq(b) /\ a \o b \in Seq(M)
<1> DEFINE t == a \o b
<1>1. /\ Len(a) \in Nat /\ Len(b) \in Nat /\ DOMAIN a = 1 .. Len(a) /\ DOMAIN b = 1 .. Len(b)
      /\ DOMAIN t = 1 .. Len(a) + Len(b) /\ t \in Seq(M)
      /\ \A i \in 1 .. Len(a) + Len(b) : t[i] = IF i <= Len(a) THEN a[i] ELSE b[i - Len(a)]
  OBVIOUS
<1> HIDE DEF t
<1>2. ASSUME NEW i \in 1 .. Len(a) + Len(b) PROVE t[i] \in InSeq(a) \cup InSeq(b)
  <2>1. CASE i <= Len(a)
    <3>1. i \in 1 .. Len(a) /\ t[i] = a[i] BY <1>1, <2>1
    <3> QED BY <1>1, <3>1 DEF InSeq
  <2>2. CASE ~(i <= Len(a))
    <3>1. i - Len(a) \in 1 .. Len(b) /\ t[i] = b[i - Len(a)] BY <1>1, <2>2
    <3> QED BY <1>1, <3>1 DEF InSeq
  <2> QED BY <2>1, <2>2
<1> QED BY <1>1, <1>2 DEF InSeq, t

LEMMA InSeqEmpty == InSeq(<<>>) = {}
BY DEF InSeq

\* Workers without load have no work order and have reported everything.
LEMMA Idle ==
  ASSUME NEW l, NEW qs, NEW cs, LoadsAre(l, qs, cs), NEW w \in Workers, ~(l[w] > 0)
  PROVE  /\ cs[w] = <<>> /\ InSeq(cs[w]) = {}
         /\ \A m \in InSeq(qs[w]) : m.type # "workOrder"
<1>1. qs[w] \in Seq(WorkerMessage) /\ cs[w] \in Seq(Report) /\ l[w] \in Int BY DEF LoadsAre
<1>2. /\ Count(qs[w], "workOrder") \in Nat /\ Count(cs[w], "complete") \in Nat
      /\ Count(qs[w], "workOrder") = 0 <=> \A i \in DOMAIN qs[w] : qs[w][i].type # "workOrder"
      /\ Count(cs[w], "complete") = 0 <=> \A i \in DOMAIN cs[w] : cs[w][i].type # "complete"
  BY <1>1, CountNumber
<1>3. Count(qs[w], "workOrder") = 0 /\ Count(cs[w], "complete") = 0
  <2>1. l[w] = Count(qs[w], "workOrder") + Count(cs[w], "complete") BY DEF LoadsAre
  <2> QED BY <1>1, <1>2, <2>1
<1>4. cs[w] = <<>>
  <2> SUFFICES ASSUME cs[w] # <<>> PROVE FALSE OBVIOUS
  <2>1. Len(cs[w]) \in DOMAIN cs[w] BY <1>1
  <2> QED BY <1>2, <1>3, <2>1 DEF LoadsAre
<1> QED BY <1>2, <1>3, <1>4, InSeqEmpty DEF InSeq

\* A worker whose reports the foreman has not all read has a load.
LEMMA Busy ==
  ASSUME NEW l, NEW qs, NEW cs, LoadsAre(l, qs, cs), NEW w \in Workers
  PROVE  l[w] >= 0 /\ (cs[w] # <<>> => l[w] > 0)
<1>1. qs[w] \in Seq(WorkerMessage) /\ cs[w] \in Seq(Report) /\ l[w] \in Int BY DEF LoadsAre
<1>2. Count(qs[w], "workOrder") \in Nat /\ Count(cs[w], "complete") \in Nat
  BY <1>1, CountNumber
<1>3. l[w] >= 0
  <2>1. l[w] = Count(qs[w], "workOrder") + Count(cs[w], "complete") BY DEF LoadsAre
  <2> QED BY <1>1, <1>2, <2>1
<1>4. cs[w] # <<>> => l[w] > 0 BY Idle
<1> QED BY <1>3, <1>4

-----------------------------------------------------------------------------
(* What the policy enforcer's operations change *)

\* The queries the policy enforcer has heard of.
Known(e) == e.admitted \cup InSeq(e.waiting) \cup e.removed

\* Only the work orders and the stages of a query differ.
SameQueries(e, f) ==
    f.admitted = e.admitted /\ f.waiting = e.waiting /\ f.removed = e.removed /\ f.out = e.out

LEMMA ReleaseEffect ==
  ASSUME NEW e \in PEType, NEW q \in Queries
  PROVE  SameQueries(e, Release(e, q))
<1> QED BY DEF Release, PEType, SameQueries

\* A query is admitted, with nothing outstanding, or waits behind the admitted one.
AdmitEffect(e, q, f) ==
    /\ Known(e) \cup {q} \subseteq Known(f)
    /\ \/ e.admitted # {} /\ f.admitted = e.admitted /\ f.out = e.out /\ f.ready = e.ready
       \/ e.admitted = {} /\ f.admitted = {q} /\ f.out[q] = 0

LEMMA AdmitDoes ==
  ASSUME NEW e \in PEType, NEW q \in Queries, OneAdmitted(e)
  PROVE  AdmitEffect(e, q, admitQuery(e, q))
<1> DEFINE n == [e EXCEPT !.admitted = @ \cup {q}, !.ready[q] = 0,
                          !.out[q] = 0, !.stages[q] = Stages[q]]
           w == [e EXCEPT !.waiting = Append(@, q)]
<1>w. e.waiting \in Seq(Queries) BY DEF PEType
<1>1. CASE e.admitted = {}
  <2>1. Cardinality(e.admitted) < kMaxConcurrentQueries
    BY <1>1, FS_EmptySet DEF kMaxConcurrentQueries
  <2>2. admitQuery(e, q) = Release(n, q)
    BY <1>1, <2>1 DEF admitQuery
  <2>3. n.admitted = {q} /\ n.waiting = e.waiting /\ n.removed = e.removed /\ n.out[q] = 0
    BY <1>1 DEF PEType
  <2>4. SameQueries(n, Release(n, q))
    <3>1. n \in PEType
      <4> DEFINE a == e.admitted \cup {q}
                 r == [e.ready EXCEPT ![q] = 0]
                 o == [e.out EXCEPT ![q] = 0]
                 t == [e.stages EXCEPT ![q] = Stages[q]]
      <4>1. Stages[q] \in Seq(Nat \ {0}) BY QueriesAssumption
      <4>2. /\ a \in SUBSET Queries /\ r \in [Queries -> Nat] /\ o \in [Queries -> Int]
            /\ t \in [Queries -> Seq(Nat \ {0})]
        BY <4>1 DEF PEType
      <4>3. n = [e EXCEPT !.admitted = a, !.ready = r, !.out = o, !.stages = t]
        BY DEF PEType
      <4> HIDE DEF a, r, o, t, n
      <4> QED BY <4>2, <4>3 DEF PEType
    <3> HIDE DEF n
    <3> QED BY <3>1, ReleaseEffect
  <2> HIDE DEF n
  <2> QED BY <1>1, <2>2, <2>3, <2>4 DEF AdmitEffect, Known, SameQueries
<1>2. CASE e.admitted # {}
  <2>1. PICK p \in Queries : e.admitted = {p} BY <1>2 DEF OneAdmitted
  <2>2. Cardinality(e.admitted) = 1 BY <2>1, FS_Singleton
  <2>3. admitQuery(e, q) = w BY <2>2 DEF admitQuery, kMaxConcurrentQueries
  <2>4. /\ w.admitted = e.admitted /\ w.removed = e.removed /\ w.out = e.out /\ w.ready = e.ready
        /\ w.waiting = Append(e.waiting, q)
    BY DEF PEType
  <2>5. InSeq(Append(e.waiting, q)) = InSeq(e.waiting) \cup {q} BY <1>w, InSeqAppend
  <2> HIDE DEF w
  <2> QED BY <1>2, <2>3, <2>4, <2>5 DEF AdmitEffect, Known
<1> QED BY <1>1, <1>2

\* A query is removed only with nothing outstanding, and whoever follows it
\* starts with nothing outstanding; no query is forgotten.
RemoveEffect(e, q, f) ==
    /\ Known(e) \subseteq Known(f)
    /\ \/ f = e
       \/ /\ e.out[q] = 0 /\ OneAdmitted(f)
          /\ \A p \in f.admitted : f.out[p] = 0

LEMMA RemoveDoes ==
  ASSUME NEW e \in PEType, NEW q \in Queries, OneAdmitted(e), q \in e.admitted
  PROVE  RemoveEffect(e, q, removeIfExecuted(e, q))
<1> DEFINE r == removeQuery(e, q)
           f == removeIfExecuted(e, q)
<1>1. CASE ~hasQueryExecutionFinished(e, q)
  BY <1>1 DEF removeIfExecuted, RemoveEffect
<1>2. CASE hasQueryExecutionFinished(e, q)
  <2>1. e.out[q] = 0 BY <1>2 DEF hasQueryExecutionFinished
  <2>2. e.admitted = {q} BY DEF OneAdmitted
  <2>3. r.admitted = {} /\ r.waiting = e.waiting /\ r.removed = e.removed \cup {q} /\ r \in PEType
    BY <2>2 DEF removeQuery, PEType
  <2>4. e.waiting \in Seq(Queries) BY DEF PEType
  <2>5. CASE e.waiting = <<>>
    <3>1. f = r BY <1>2, <2>3, <2>5 DEF removeIfExecuted
    <3> HIDE DEF r, f
    <3> QED BY <2>1, <2>2, <2>3, <3>1 DEF RemoveEffect, Known, OneAdmitted, f
  <2>6. CASE e.waiting # <<>>
    <3> DEFINE t == [r EXCEPT !.waiting = Tail(@)]
               p == Head(e.waiting)
    <3>1. f = admitQuery(t, p) BY <1>2, <2>3, <2>6 DEF removeIfExecuted
    <3> HIDE DEF r, f
    <3>2. /\ InSeq(e.waiting) = InSeq(Tail(e.waiting)) \cup {p} /\ p \in Queries
          /\ Tail(e.waiting) \in Seq(Queries)
      BY <2>4, <2>6, InSeqTail
    <3> HIDE DEF p
    <3>3. /\ t \in PEType /\ t.admitted = {} /\ t.waiting = Tail(e.waiting)
          /\ t.removed = e.removed \cup {q}
      BY <2>3, <3>2 DEF PEType
    <3> HIDE DEF t
    <3>4. AdmitEffect(t, p, f) BY <3>1, <3>2, <3>3, AdmitDoes DEF OneAdmitted
    <3>5. f.admitted = {p} /\ f.out[p] = 0 BY <3>3, <3>4 DEF AdmitEffect
    <3>6. Known(e) \subseteq Known(t) \cup {p} BY <2>2, <3>2, <3>3 DEF Known
    <3>7. Known(e) \subseteq Known(f) BY <3>4, <3>6 DEF AdmitEffect
    <3> QED BY <2>1, <3>2, <3>5, <3>7 DEF RemoveEffect, OneAdmitted, f
  <2> QED BY <2>5, <2>6
<1> QED BY <1>1, <1>2

-----------------------------------------------------------------------------
(* The inductive invariant: reports *)

LEMMA LoadsOfFInv ==
  ASSUME FInv
  PROVE  /\ Loads(load) /\ Cardinality(Tokens(load)) \in Nat
         /\ Cardinality(Tokens(load)) = 0 <=> \A w \in Workers : ~(load[w] > 0)
         /\ \A w \in Workers : load[w] \in Int /\ load[w] >= 0
         /\ pe.admitted = {} => Cardinality(Tokens(load)) = 0
<1>1. LoadsAre(load, queue, chan) /\ MessagesOfAdmitted /\ TypeOK /\ LoadBounded
  BY DEF FInv, IInv
<1>2. Loads(load) BY <1>1 DEF TypeOK, LoadBounded, Loads
<1>3. /\ Cardinality(Tokens(load)) \in Nat
      /\ Cardinality(Tokens(load)) = 0 <=> \A w \in Workers : ~(load[w] > 0)
  BY <1>2, TokensFinite
<1>4. \A w \in Workers : load[w] \in Int /\ load[w] >= 0
  BY <1>1, Busy DEF LoadsAre
<1>5. ASSUME pe.admitted = {} PROVE \A w \in Workers : ~(load[w] > 0)
  <2> SUFFICES ASSUME NEW w \in Workers PROVE ~(load[w] > 0) OBVIOUS
  <2>1. InSeq(chan[w]) = {} /\ \A m \in InSeq(queue[w]) : m.type # "workOrder"
    <3>1. \A m \in InSeq(chan[w]) : m.query \in pe.admitted
      BY <1>1 DEF MessagesOfAdmitted
    <3>2. \A m \in InSeq(queue[w]) : m.type = "workOrder" => m.query \in pe.admitted
      BY <1>1 DEF MessagesOfAdmitted
    <3> QED BY <1>5, <3>1, <3>2
  <2>2. queue[w] \in Seq(WorkerMessage) /\ chan[w] \in Seq(Report) /\ load[w] \in Int
        /\ load[w] = Count(queue[w], "workOrder") + Count(chan[w], "complete")
    BY <1>1 DEF LoadsAre
  <2>3. Count(queue[w], "workOrder") = 0 /\ Count(chan[w], "complete") = 0
    <3>1. /\ \A i \in DOMAIN queue[w] : queue[w][i].type # "workOrder"
          /\ \A i \in DOMAIN chan[w] : chan[w][i].type # "complete"
      BY <2>1 DEF InSeq
    <3>2. Count(queue[w], "workOrder") = 0 <=> \A i \in DOMAIN queue[w] : queue[w][i].type # "workOrder"
      BY <2>2, CountNumber
    <3>3. Count(chan[w], "complete") = 0 <=> \A i \in DOMAIN chan[w] : chan[w][i].type # "complete"
      BY <2>2, CountNumber
    <3> QED BY <3>1, <3>2, <3>3
  <2> QED BY <2>2, <2>3
<1> QED BY <1>2, <1>3, <1>4, <1>5

\* What is so when a report of worker w is read.
LEMMA ReceiveFacts ==
  ASSUME FInv, NEW w \in Workers, NEW type, Receives(w, type)
  PROVE  /\ Head(chan[w]).query \in Queries /\ pe.admitted = {Head(chan[w]).query}
         /\ load[w] > 0 /\ outbox = <<>>
         /\ pe.out[Head(chan[w]).query] = Cardinality(Tokens(load))
         /\ Cardinality(Tokens(load)) > 0
         /\ Patient => awaiting /\ signals = 0 /\ mail = <<>>
<1> DEFINE q == Head(chan[w]).query
<1>1. /\ LoadsAre(load, queue, chan) /\ MessagesOfAdmitted /\ TypeOK /\ RoundFits /\ OutExact
      /\ OneAdmitted(pe) /\ Conversation
  BY DEF FInv, IInv
<1>2. chan[w] \in Seq(Report) /\ chan[w] # <<>> /\ pc = "receive" BY <1>1 DEF Receives, TypeOK
<1>3. Head(chan[w]) \in Report /\ Head(chan[w]) \in InSeq(chan[w]) BY <1>2, InSeqTail
<1>4. q \in Queries /\ q \in pe.admitted BY <1>1, <1>3 DEF Report, MessagesOfAdmitted
<1>5. load[w] > 0 BY <1>1, <1>2, Busy
<1>6. Cardinality(Tokens(load)) > 0 BY <1>5, LoadsOfFInv
<1>7. outbox = <<>> /\ Len(outbox) = 0 BY <1>1, <1>2 DEF RoundFits
<1>8. pe.out[q] = Cardinality(Tokens(load))
  BY <1>1, <1>4, <1>7, LoadsOfFInv DEF OutExact
<1>9. pe.admitted = {q} BY <1>1, <1>4 DEF OneAdmitted
<1>10. ASSUME Patient PROVE awaiting /\ signals = 0 /\ mail = <<>>
  <2>1. hasQueries(pe) BY <1>4 DEF hasQueries
  <2> QED BY <1>1, <1>2, <1>10, <2>1 DEF Conversation
<1> QED BY <1>4, <1>5, <1>6, <1>7, <1>8, <1>9, <1>10

\* Reading a report keeps the loads exact.
LEMMA ReceiveLoads ==
  ASSUME FInv, NEW w \in Workers, NEW type, Receives(w, type),
         load' = IF type = "complete" THEN [load EXCEPT ![w] = @ - 1] ELSE load
  PROVE  /\ LoadsAre(load', queue', chan')
         /\ \A v \in Workers : InSeq(chan'[v]) \subseteq InSeq(chan[v])
         /\ Cardinality(Tokens(load')) =
              Cardinality(Tokens(load)) - (IF type = "complete" THEN 1 ELSE 0)
<1>1. LoadsAre(load, queue, chan) BY DEF FInv
<1>2. /\ chan[w] # <<>> /\ Head(chan[w]).type = type /\ queue' = queue
      /\ chan' = [chan EXCEPT ![w] = Tail(@)]
  BY DEF Receives
<1>3. /\ load \in [Workers -> Int] /\ queue \in [Workers -> Seq(WorkerMessage)]
      /\ chan \in [Workers -> Seq(Report)] /\ chan[w] \in Seq(Report)
  BY <1>1 DEF LoadsAre
<1>4. /\ InSeq(chan[w]) = InSeq(Tail(chan[w])) \cup {Head(chan[w])} /\ Tail(chan[w]) \in Seq(Report)
      /\ Count(Tail(chan[w]), "complete") = Count(chan[w], "complete") - (IF type = "complete" THEN 1 ELSE 0)
      /\ Count(chan[w], "complete") \in Nat /\ Count(queue[w], "workOrder") \in Nat
  BY <1>2, <1>3, InSeqTail, CountTail, CountNumber
<1>5. /\ chan' \in [Workers -> Seq(Report)] /\ chan'[w] = Tail(chan[w])
      /\ \A v \in Workers : v # w => chan'[v] = chan[v]
  BY <1>2, <1>3, <1>4
<1>6. /\ load' \in [Workers -> Int] /\ load'[w] = load[w] - (IF type = "complete" THEN 1 ELSE 0)
      /\ \A v \in Workers : v # w => load'[v] = load[v]
  <2>1. CASE type = "complete" BY <1>3, <2>1
  <2>2. CASE type # "complete" BY <1>3, <2>2
  <2> QED BY <2>1, <2>2
<1>7. ASSUME NEW v \in Workers
      PROVE  load'[v] = Count(queue'[v], "workOrder") + Count(chan'[v], "complete")
  <2>1. load[v] = Count(queue[v], "workOrder") + Count(chan[v], "complete") BY <1>1 DEF LoadsAre
  <2>2. CASE v # w BY <1>2, <1>5, <1>6, <2>1, <2>2
  <2>3. CASE v = w BY <1>2, <1>3, <1>4, <1>5, <1>6, <2>1, <2>3
  <2> QED BY <2>2, <2>3
<1>8. ASSUME NEW v \in Workers, chan'[v] # <<>> PROVE chan'[v][Len(chan'[v])].type = "complete"
  <2>1. CASE v # w BY <1>1, <1>5, <1>8, <2>1 DEF LoadsAre
  <2>2. CASE v = w
    <3> DEFINE c == chan[w]
    <3>1. c \in Seq(Report) /\ c # <<>> /\ Tail(c) # <<>> BY <1>2, <1>3, <1>5, <1>8, <2>2
    <3>2. c[Len(c)].type = "complete" BY <1>1, <1>2 DEF LoadsAre
    <3> HIDE DEF c
    <3>3. Tail(c)[Len(Tail(c))] = c[Len(c)] BY <3>1
    <3> QED BY <1>5, <2>2, <3>2, <3>3 DEF c
  <2> QED BY <2>1, <2>2
<1>9. Cardinality(Tokens(load')) = Cardinality(Tokens(load)) - (IF type = "complete" THEN 1 ELSE 0)
  <2>1. Loads(load) /\ load[w] > 0 /\ Cardinality(Tokens(load)) \in Nat
    BY LoadsOfFInv, ReceiveFacts
  <2>2. CASE type = "complete" BY <2>1, <2>2, TokensLess
  <2>3. CASE type # "complete" BY <2>1, <2>3
  <2> QED BY <2>2, <2>3
<1> QED BY <1>2, <1>3, <1>4, <1>5, <1>6, <1>7, <1>8, <1>9 DEF LoadsAre

\* After any report: what its effect on the enforcer and the loads must be.
LEMMA ReportFInv ==
  ASSUME FInv, NEW w \in Workers, NEW type, Receives(w, type), IInv',
         load' = IF type = "complete" THEN [load EXCEPT ![w] = @ - 1] ELSE load,
         pc' = AfterMessage(type, load'), OneAdmitted(pe'),
         \A p \in pe'.admitted : pe'.out[p] = Cardinality(Tokens(load')),
         pe'.admitted = pe.admitted \/ Cardinality(Tokens(load')) = 0
  PROVE  FInv'
<1>1. /\ LoadsAre(load, queue, chan) /\ MessagesOfAdmitted /\ TypeOK /\ RoundFits /\ OutExact
      /\ OneAdmitted(pe) /\ Conversation /\ PoisonLast
  BY DEF FInv, IInv
<1>2. /\ queue' = queue /\ mail' = mail /\ outbox' = outbox /\ script' = script
      /\ awaiting' = awaiting /\ signals' = signals /\ pc = "receive"
  BY DEF Receives, main
<1>3. /\ LoadsAre(load', queue', chan')
      /\ \A v \in Workers : InSeq(chan'[v]) \subseteq InSeq(chan[v])
      /\ Cardinality(Tokens(load')) \in Nat
      /\ Cardinality(Tokens(load')) = 0 => \A v \in Workers : ~(load'[v] > 0)
  <2>1. Loads(load') BY DEF IInv, TypeOK, LoadBounded, Loads
  <2> QED BY <2>1, ReceiveLoads, TokensFinite
<1>4. outbox = <<>> /\ Len(outbox) = 0 /\ load[w] > 0 BY ReceiveFacts
<1>5. pc' \in {"collect", "signal"}
  BY DEF AfterMessage
<1>6. MessagesOfAdmitted'
  <2>1. CASE pe'.admitted = pe.admitted
    BY <1>1, <1>2, <1>3, <2>1 DEF MessagesOfAdmitted
  <2>2. CASE Cardinality(Tokens(load')) = 0
    <3>1. ASSUME NEW v \in Workers
          PROVE  InSeq(chan'[v]) = {} /\ \A m \in InSeq(queue'[v]) : m.type # "workOrder"
      <4>1. LoadsAre(load', queue', chan') /\ ~(load'[v] > 0) BY <1>3, <2>2
      <4> QED BY <4>1, Idle
    <3>2. InSeq(outbox') = {} BY <1>2, <1>4, InSeqEmpty
    <3> QED BY <3>1, <3>2 DEF MessagesOfAdmitted
  <2> QED BY <2>1, <2>2
<1>7. OutExact'
  <2> SUFFICES ASSUME NEW p \in pe'.admitted
               PROVE  pe'.out[p] = Len(outbox') + Cardinality(Tokens(load'))
    BY DEF OutExact
  <2>1. pe'.out[p] = Cardinality(Tokens(load')) /\ Len(outbox') = 0 BY <1>2, <1>4
  <2> QED BY <1>3, <2>1
<1>8. Awake'
  <2> SUFFICES ASSUME pc' = "signal" PROVE SomeLoad' BY <1>5 DEF Awake
  <2>1. CASE type \in {"newBlock", "feedback"} BY <1>4, <2>1 DEF SomeLoad
  <2>2. CASE type \notin {"newBlock", "feedback"}
    <3>1. \A v \in Workers : ~(load'[v] <= MinLoad)
      BY <2>2 DEF AfterMessage, canCollectNewMessages
    <3>2. load'[w] \in Int BY <1>3 DEF LoadsAre
    <3>3. load'[w] > 0 BY <3>1, <3>2, FlagsAssumption
    <3> QED BY <3>3 DEF SomeLoad
  <2> QED BY <2>1, <2>2
<1>9. PoisonLast' BY <1>1, <1>2, <1>5 DEF PoisonLast, Poisoned
<1>10. Conversation'
  <2> SUFFICES ASSUME Patient PROVE Conversation' BY DEF Conversation
  <2>1. awaiting /\ signals = 0 /\ mail = <<>> BY ReceiveFacts
  <2> QED BY <1>2, <2>1 DEF Conversation
<1> QED BY <1>3, <1>6, <1>7, <1>8, <1>9, <1>10 DEF FInv

\* With something outstanding a query is not removed.
LEMMA RemoveWaits ==
  ASSUME NEW e, NEW q, e.out[q] > 0
  PROVE  removeIfExecuted(e, q) = e
BY DEF removeIfExecuted, hasQueryExecutionFinished

\* A completion is counted by the directory and by the query manager, and the
\* query is removed only if it was the last.
LEMMA CompleteFInv ==
  ASSUME FInv, NEW w \in Workers, processWorkOrderComplete(w), IInv'
  PROVE  FInv'
<1> DEFINE q == Head(chan[w]).query
           o == [pe.out EXCEPT ![q] = @ - 1]
           e == [pe EXCEPT !.out[q] = @ - 1]
           f == IF e.ready[q] = 0 /\ e.out[q] = 0 THEN Release(e, q) ELSE e
<1>1. /\ Receives(w, "complete") /\ load' = [load EXCEPT ![w] = @ - 1]
      /\ pe' = removeIfExecuted(f, q) /\ pc' = AfterMessage("complete", load')
  BY DEF processWorkOrderComplete
<1>2. /\ q \in Queries /\ pe.admitted = {q} /\ pe.out[q] = Cardinality(Tokens(load))
      /\ Cardinality(Tokens(load)) \in Nat
  BY <1>1, ReceiveFacts, LoadsOfFInv
<1>3. Cardinality(Tokens(load')) = Cardinality(Tokens(load)) - 1
  BY <1>1, ReceiveLoads
<1>p. pe \in PEType BY DEF FInv, IInv, TypeOK
<1> HIDE DEF q
<1>4. e \in PEType /\ e.admitted = {q} /\ e.out[q] = Cardinality(Tokens(load'))
  <2>1. o \in [Queries -> Int] /\ o[q] = pe.out[q] - 1 BY <1>p, <1>2 DEF PEType
  <2>2. e = [pe EXCEPT !.out = o] BY <1>p DEF PEType
  <2> HIDE DEF o, e
  <2> QED BY <1>p, <1>2, <1>3, <2>1, <2>2 DEF PEType
<1> HIDE DEF e
<1>5. f \in PEType /\ f.admitted = {q} /\ f.out[q] = Cardinality(Tokens(load'))
  BY <1>2, <1>4, ReleaseType, ReleaseEffect DEF SameQueries
<1> HIDE DEF f
<1>6. RemoveEffect(f, q, pe')
  BY <1>1, <1>2, <1>5, RemoveDoes DEF OneAdmitted
<1>7. CASE pe' = f
  BY <1>1, <1>2, <1>5, <1>7, ReportFInv DEF OneAdmitted
<1>8. CASE pe' # f
  <2>1. Cardinality(Tokens(load')) = 0 /\ OneAdmitted(pe') /\ \A p \in pe'.admitted : pe'.out[p] = 0
    BY <1>5, <1>6, <1>8 DEF RemoveEffect
  <2> QED BY <1>1, <2>1, ReportFInv
<1> QED BY <1>7, <1>8

\* A report that is not a completion has one behind it, so the query stays.
LEMMA OtherFInv ==
  ASSUME FInv, NEW w \in Workers, IInv',
         processDataPipeline(w) \/ processFeedback(w) \/ processNewBlock(w)
  PROVE  FInv'
<1> DEFINE q == Head(chan[w]).query
<1>p. pe \in PEType BY DEF FInv, IInv, TypeOK
<1>1. ASSUME NEW type, Receives(w, type), type # "complete", load' = load,
             pc' = AfterMessage(type, load'), SameQueries(pe, pe')
      PROVE  FInv'
  <2>1. /\ q \in Queries /\ pe.admitted = {q} /\ pe.out[q] = Cardinality(Tokens(load))
    BY <1>1, ReceiveFacts
  <2> HIDE DEF q
  <2>2. load' = IF type = "complete" THEN [load EXCEPT ![w] = @ - 1] ELSE load BY <1>1
  <2>3. /\ OneAdmitted(pe') /\ pe'.admitted = pe.admitted
        /\ \A p \in pe'.admitted : pe'.out[p] = Cardinality(Tokens(load'))
    BY <1>1, <2>1 DEF SameQueries, OneAdmitted
  <2> QED BY <1>1, <2>2, <2>3, ReportFInv
<1>2. ASSUME NEW type, Receives(w, type), NEW e \in {pe, Release(pe, q)}
      PROVE  removeIfExecuted(e, q) = e /\ SameQueries(pe, e)
  <2>1. q \in Queries /\ pe.out[q] > 0 BY <1>2, ReceiveFacts
  <2> HIDE DEF q
  <2>2. SameQueries(pe, e) BY <1>p, <1>2, <2>1, ReleaseEffect DEF SameQueries
  <2>3. e.out[q] > 0 BY <2>1, <2>2 DEF SameQueries
  <2> QED BY <2>2, <2>3, RemoveWaits
<1>3. CASE processDataPipeline(w)
  <2>1. /\ Receives(w, "pipeline") /\ load' = load /\ pc' = AfterMessage("pipeline", load')
        /\ \E e \in {pe, Release(pe, q)} : pe' = removeIfExecuted(e, q)
    BY <1>3 DEF processDataPipeline
  <2>2. SameQueries(pe, pe') BY <1>2, <2>1
  <2> QED BY <1>1, <2>1, <2>2
<1>4. CASE processFeedback(w)
  <2>1. /\ Receives(w, "feedback") /\ load' = load /\ pc' = AfterMessage("feedback", load')
        /\ pe' = removeIfExecuted(pe, q)
    BY <1>4 DEF processFeedback
  <2>2. SameQueries(pe, pe') BY <1>2, <2>1
  <2> QED BY <1>1, <2>1, <2>2
<1>5. CASE processNewBlock(w)
  <2>1. /\ Receives(w, "newBlock") /\ load' = load /\ pc' = AfterMessage("newBlock", load')
        /\ pe' = pe
    BY <1>5 DEF processNewBlock
  <2>2. SameQueries(pe, pe') BY <2>1 DEF SameQueries
  <2> QED BY <1>1, <2>1, <2>2
<1> QED BY <1>3, <1>4, <1>5

-----------------------------------------------------------------------------
(* The inductive invariant: the other steps *)

\* A step that leaves workers and messages to them alone, and the enforcer's
\* queries too unless nothing is under way.
LEMMA EnforcerFInv ==
  ASSUME FInv, IInv', UNCHANGED <<load, queue, chan, outbox>>, outbox = <<>>, OneAdmitted(pe'),
         \A p \in pe'.admitted : pe'.out[p] = Cardinality(Tokens(load)),
         pe.admitted \subseteq pe'.admitted,
         Awake', PoisonLast', Conversation'
  PROVE  FInv'
<1>1. LoadsAre(load, queue, chan) /\ MessagesOfAdmitted BY DEF FInv
<1>2. LoadsAre(load', queue', chan') BY <1>1
<1>3. MessagesOfAdmitted' BY <1>1 DEF MessagesOfAdmitted
<1>4. OutExact'
  <2> SUFFICES ASSUME NEW p \in pe'.admitted
               PROVE  pe'.out[p] = Len(outbox') + Cardinality(Tokens(load'))
    BY DEF OutExact
  <2>1. pe'.out[p] = Cardinality(Tokens(load')) /\ Len(outbox') = 0 OBVIOUS
  <2>2. Cardinality(Tokens(load')) \in Nat BY LoadsOfFInv
  <2> QED BY <2>1, <2>2
<1> QED BY <1>2, <1>3, <1>4 DEF FInv

LEMMA AdmitFInv ==
  ASSUME FInv, admitNext, IInv'
  PROVE  FInv'
<1> DEFINE qs == Head(mail).queries
<1>1. PICK more \in BOOLEAN :
        /\ pe' = IF qs = <<>> THEN pe ELSE admitQuery(pe, Head(qs))
        /\ mail' = IF more
                   THEN [mail EXCEPT ![1] = [type |-> "admit", queries |-> Tail(qs)]]
                   ELSE Tail(mail)
        /\ pc' = IF more THEN "admit" ELSE AfterMessage("admit", load)
  BY DEF admitNext
<1>2. /\ pc = "admit" /\ load' = load /\ outbox' = outbox
      /\ UNCHANGED <<script, awaiting, signals, queue, chan>>
  BY DEF admitNext, main
<1>t. TypeOK /\ RoundFits /\ Admitting /\ OneAdmitted(pe) /\ OutExact /\ PoisonLast /\ Conversation
  BY DEF FInv, IInv
<1>3. /\ mail \in Seq(MainMessage) /\ mail # <<>> /\ Head(mail).type = "admit"
      /\ pe \in PEType /\ outbox = <<>> /\ Len(outbox) = 0
  BY <1>2, <1>t DEF TypeOK, Admitting, RoundFits
<1>4. /\ qs \in Seq(Queries) /\ Len(mail) \in Nat \ {0}
  BY <1>3, RequestType
<1>5. \A p \in pe.admitted : pe.out[p] = Cardinality(Tokens(load))
  BY <1>t, <1>3, LoadsOfFInv DEF OutExact
<1>6. /\ OneAdmitted(pe') /\ pe.admitted \subseteq pe'.admitted
      /\ \A p \in pe'.admitted : pe'.out[p] = Cardinality(Tokens(load))
  <2>1. CASE qs = <<>> BY <1>1, <1>5, <1>t, <2>1
  <2>2. CASE qs # <<>>
    <3> DEFINE q == Head(qs)
    <3>1. q \in Queries /\ pe' = admitQuery(pe, q) BY <1>1, <1>4, <2>2
    <3> HIDE DEF q
    <3>2. AdmitEffect(pe, q, pe') BY <1>3, <1>t, <3>1, AdmitDoes
    <3>3. CASE pe.admitted = {}
      <4>1. pe'.admitted = {q} /\ pe'.out[q] = 0 BY <3>2, <3>3 DEF AdmitEffect
      <4>2. Cardinality(Tokens(load)) = 0 BY <3>3, LoadsOfFInv
      <4> QED BY <3>1, <3>3, <4>1, <4>2 DEF OneAdmitted
    <3>4. CASE pe.admitted # {}
      <4>1. pe'.admitted = pe.admitted /\ pe'.out = pe.out BY <3>2, <3>4 DEF AdmitEffect
      <4> QED BY <1>5, <1>t, <4>1 DEF OneAdmitted
    <3> QED BY <3>3, <3>4
  <2> QED BY <2>1, <2>2
<1>7. pc' \in {"admit", "collect", "signal"} /\ (~more => pc' \in {"collect", "signal"})
  BY <1>1 DEF AfterMessage
<1>8. Awake'
  <2> SUFFICES ASSUME pc' = "signal" PROVE SomeLoad' BY <1>7 DEF Awake
  <2>1. \A v \in Workers : ~(load[v] <= MinLoad)
    BY <1>1 DEF AfterMessage, canCollectNewMessages
  <2>2. 0 \in Workers BY WorkersAssumption DEF Workers
  <2>3. load[0] \in Int BY <2>2, LoadsOfFInv
  <2>4. load[0] > 0 BY <2>1, <2>2, <2>3, FlagsAssumption
  <2> QED BY <1>2, <2>2, <2>4 DEF SomeLoad
<1>9. PoisonLast'
  <2>1. Poison \in InSeq(mail') => Poison \in InSeq(mail)
    <3>1. CASE ~more BY <1>1, <1>3, <3>1, InSeqTail
    <3>2. CASE more
      <4> DEFINE r == [type |-> "admit", queries |-> Tail(qs)]
      <4>1. r # Poison BY DEF Poison
      <4>2. mail' = [mail EXCEPT ![1] = r] BY <1>1, <3>2
      <4> HIDE DEF r
      <4>3. DOMAIN mail' = DOMAIN mail /\ \A i \in DOMAIN mail : mail'[i] = IF i = 1 THEN r ELSE mail[i]
        BY <1>3, <4>2
      <4> QED BY <4>1, <4>3 DEF InSeq
    <3> QED BY <3>1, <3>2
  <2> QED BY <1>2, <1>7, <1>t, <2>1 DEF PoisonLast, Poisoned
<1>one. Len(mail) <= 1 => Len(mail) = 1 BY <1>3, OneMessage
<1>10. Conversation'
  <2> SUFFICES ASSUME Patient PROVE Conversation' BY DEF Conversation
  <2>0. Len(mail) <= 1 BY <1>t DEF Conversation
  <2>1. awaiting /\ signals = 0 /\ Len(mail) = 1
    <3>1. awaiting /\ signals = 0 BY <1>2, <1>t DEF Conversation
    <3> QED BY <1>one, <2>0, <3>1
  <2>2. CASE more
    <3>1. Len(mail') = 1 /\ pc' = "admit"
      <4> DEFINE r == [type |-> "admit", queries |-> Tail(qs)]
      <4>1. mail' = [mail EXCEPT ![1] = r] BY <1>1, <2>2
      <4> HIDE DEF r
      <4> QED BY <1>1, <1>3, <2>1, <2>2, <4>1
    <3> QED BY <1>2, <2>1, <3>1 DEF Conversation
  <2>3. CASE ~more
    <3>1. mail' = <<>> /\ Len(mail') = 0 BY <1>1, <1>3, <2>1, <2>3
    <3> QED BY <1>2, <2>1, <3>1 DEF Conversation
  <2> QED BY <2>2, <2>3
<1> QED BY <1>2, <1>3, <1>6, <1>8, <1>9, <1>10, EnforcerFInv

\* A round is taken from the admitted query, which is removed only if the
\* workers have nothing of it.
LEMMA CollectFInv ==
  ASSUME FInv, getWorkerMessages, IInv'
  PROVE  FInv'
<1>1. /\ pc = "collect" /\ pc' = "dispatch"
      /\ UNCHANGED <<script, awaiting, signals, mail, load, queue, chan>>
  BY DEF getWorkerMessages, main
<1>t. /\ TypeOK /\ RoundFits /\ OneAdmitted(pe) /\ OutExact /\ PoisonLast /\ Conversation
      /\ MessagesOfAdmitted /\ LoadsAre(load, queue, chan)
  BY DEF FInv, IInv
<1>2. outbox = <<>> /\ Len(outbox) = 0 /\ pe \in PEType BY <1>1, <1>t DEF RoundFits, TypeOK
<1>3. LoadsAre(load', queue', chan') BY <1>1, <1>t
<1>4. PoisonLast' BY <1>1, <1>t DEF PoisonLast, Poisoned
<1>5. Conversation'
  <2> SUFFICES ASSUME Patient PROVE Conversation' BY DEF Conversation
  <2>1. awaiting /\ signals = 0 /\ mail = <<>> BY <1>1, <1>t DEF Conversation
  <2> QED BY <1>1, <2>1 DEF Conversation
<1>6. CASE UNCHANGED <<pe, outbox>> /\ pe.admitted = {}
  <2>1. MessagesOfAdmitted' /\ OutExact' BY <1>1, <1>t, <1>6 DEF MessagesOfAdmitted, OutExact
  <2>2. Awake' BY <1>1, <1>6 DEF Awake, HasReady
  <2> QED BY <1>t, <1>3, <1>4, <1>5, <1>6, <2>1, <2>2 DEF FInv
<1>7. CASE ~(UNCHANGED <<pe, outbox>> /\ pe.admitted = {})
  <2>1. PICK q \in pe.admitted :
          LET share == MaxRound \div kMaxConcurrentQueries
              n == IF pe.ready[q] < share THEN pe.ready[q] ELSE share
              e == [pe EXCEPT !.ready[q] = @ - n, !.out[q] = @ + n]
          IN  /\ outbox' = Times(n, q)
              /\ pe' = IF n < share /\ hasQueryExecutionFinished(e, q)
                       THEN removeQuery(e, q) ELSE e
    BY <1>7 DEF getWorkerMessages
  <2>2. q \in Queries /\ pe.admitted = {q} BY <1>2, <1>t DEF PEType, OneAdmitted
  <2> DEFINE n == IF pe.ready[q] < MaxRound THEN pe.ready[q] ELSE MaxRound
             e == [pe EXCEPT !.ready[q] = @ - n, !.out[q] = @ + n]
             fin == n < MaxRound /\ hasQueryExecutionFinished(e, q)
  <2>3. MaxRound \div kMaxConcurrentQueries = MaxRound
    BY FlagsAssumption DEF kMaxConcurrentQueries
  <2>4. /\ outbox' = Times(n, q)
        /\ fin => pe' = removeQuery(e, q)
        /\ ~fin => pe' = e
    BY <2>1, <2>3
  <2>5. /\ pe.ready \in [Queries -> Nat] /\ pe.out \in [Queries -> Int]
        /\ pe.ready[q] \in Nat /\ pe.out[q] = Cardinality(Tokens(load))
        /\ Cardinality(Tokens(load)) \in Nat
    BY <1>2, <1>t, <2>2, LoadsOfFInv DEF PEType, OutExact
  <2>6. n \in Nat /\ n <= MaxRound /\ (pe.ready[q] - n > 0 => n > 0)
    BY <2>5, FlagsAssumption
  <2> HIDE DEF n
  <2>7. outbox' \in Seq(Queries) /\ Len(outbox') = n /\ \A i \in DOMAIN outbox' : outbox'[i] = q
    BY <2>2, <2>4, <2>6 DEF Times
  <2>8. e.admitted = {q} /\ e.out[q] = pe.out[q] + n /\ e.ready[q] = pe.ready[q] - n
    BY <1>2, <2>2 DEF PEType
  <2>9. CASE ~fin
    <3>1. pe' = e BY <2>4, <2>9
    <3> HIDE DEF e, fin
    <3>2. MessagesOfAdmitted'
      <4>1. InSeq(outbox') \subseteq {q} BY <2>7 DEF InSeq
      <4> QED BY <1>1, <1>t, <2>2, <2>8, <3>1, <4>1 DEF MessagesOfAdmitted
    <3>3. OutExact'
      <4>1. pe'.admitted = {q} /\ pe'.out[q] = Len(outbox') + Cardinality(Tokens(load'))
        BY <1>1, <2>5, <2>6, <2>7, <2>8, <3>1
      <4> QED BY <4>1 DEF OutExact
    <3>4. Awake'
      <4> SUFFICES ASSUME HasReady' PROVE outbox' # <<>> BY <1>1 DEF Awake
      <4>1. pe.ready[q] - n > 0 BY <2>8, <3>1 DEF HasReady
      <4> QED BY <2>6, <2>7, <4>1
    <3>5. OneAdmitted(pe') BY <2>2, <2>8, <3>1 DEF OneAdmitted
    <3> QED BY <1>3, <1>4, <1>5, <3>2, <3>3, <3>4, <3>5 DEF FInv
  <2>10. CASE fin
    <3>1. pe' = removeQuery(e, q) /\ e.out[q] = 0 BY <2>4, <2>10 DEF hasQueryExecutionFinished
    <3>2. n = 0 /\ Cardinality(Tokens(load)) = 0 BY <2>5, <2>6, <2>8, <3>1
    <3>3. pe'.admitted = {}
      <4>1. e \in PEType
        <5> DEFINE r == [pe.ready EXCEPT ![q] = @ - n]
                   o == [pe.out EXCEPT ![q] = @ + n]
        <5>1. r \in [Queries -> Nat] /\ o \in [Queries -> Int]
          BY <2>2, <2>5, <3>2
        <5>2. e = [pe EXCEPT !.ready = r, !.out = o]
          BY <1>2 DEF PEType
        <5> HIDE DEF r, o, e
        <5> QED BY <1>2, <5>1, <5>2 DEF PEType
      <4> HIDE DEF e
      <4> QED BY <2>8, <3>1, <4>1 DEF removeQuery, PEType
    <3> HIDE DEF e, fin
    <3>4. MessagesOfAdmitted'
      <4>1. InSeq(outbox') = {} BY <2>7, <3>2 DEF InSeq
      <4>2. \A v \in Workers : ~(load'[v] > 0) BY <1>1, <3>2, LoadsOfFInv
      <4>3. ASSUME NEW v \in Workers
            PROVE  InSeq(chan'[v]) = {} /\ \A m \in InSeq(queue'[v]) : m.type # "workOrder"
        <5>1. LoadsAre(load', queue', chan') /\ ~(load'[v] > 0) BY <1>3, <4>2
        <5> QED BY <5>1, Idle
      <4> QED BY <4>1, <4>3 DEF MessagesOfAdmitted
    <3>5. OutExact' /\ Awake' /\ OneAdmitted(pe')
      BY <3>3 DEF OutExact, Awake, HasReady, OneAdmitted
    <3> QED BY <1>3, <1>4, <1>5, <3>4, <3>5 DEF FInv
  <2> QED BY <2>9, <2>10
<1> QED BY <1>6, <1>7

\* A work order goes from the round to a worker.
LEMMA DispatchFInv ==
  ASSUME FInv, dispatchWorkerMessage, IInv'
  PROVE  FInv'
<1> DEFINE q == Head(outbox)
           m == [type |-> "workOrder", query |-> q]
<1>1. PICK w \in Workers :
        /\ queue' = [queue EXCEPT ![w] = Append(@, m)]
        /\ load' = [load EXCEPT ![w] = @ + 1]
  BY DEF dispatchWorkerMessage
<1>2. /\ pc = "dispatch" /\ pc' = pc /\ outbox # <<>> /\ outbox' = Tail(outbox)
      /\ UNCHANGED <<script, awaiting, signals, mail, pe, chan>>
  BY DEF dispatchWorkerMessage, main
<1>t. /\ TypeOK /\ OneAdmitted(pe) /\ OutExact /\ PoisonLast /\ Conversation
      /\ MessagesOfAdmitted /\ LoadsAre(load, queue, chan)
  BY DEF FInv, IInv
<1>3. /\ outbox \in Seq(Queries) /\ queue \in [Workers -> Seq(WorkerMessage)]
      /\ load \in [Workers -> Int]
  BY <1>t DEF TypeOK
<1>4. InSeq(outbox) = InSeq(outbox') \cup {q} /\ q \in Queries /\ Len(outbox') = Len(outbox) - 1
      /\ Len(outbox) \in Nat
  <2>1. Len(outbox') = Len(outbox) - 1 /\ Len(outbox) \in Nat BY <1>2, <1>3
  <2>2. InSeq(outbox) = InSeq(outbox') \cup {q} /\ q \in Queries BY <1>2, <1>3, InSeqTail
  <2> QED BY <2>1, <2>2
<1> HIDE DEF q
<1>5. m \in WorkerMessage /\ m.type = "workOrder" /\ m.query = q /\ m # Poison
  BY <1>4 DEF WorkerMessage, Poison
<1> HIDE DEF m
<1>6. /\ Append(queue[w], m) \in Seq(WorkerMessage)
      /\ InSeq(Append(queue[w], m)) = InSeq(queue[w]) \cup {m}
      /\ Count(Append(queue[w], m), "workOrder") = Count(queue[w], "workOrder") + 1
      /\ Count(queue[w], "workOrder") \in Nat /\ Count(chan[w], "complete") \in Nat
  <2>1. queue[w] \in Seq(WorkerMessage) /\ chan[w] \in Seq(Report) BY <1>t DEF TypeOK
  <2> QED BY <1>5, <2>1, InSeqAppend, CountAppend, CountNumber
<1>7. /\ queue' \in [Workers -> Seq(WorkerMessage)] /\ queue'[w] = Append(queue[w], m)
      /\ \A v \in Workers : v # w => queue'[v] = queue[v]
      /\ load' \in [Workers -> Int] /\ load'[w] = load[w] + 1
      /\ \A v \in Workers : v # w => load'[v] = load[v]
  BY <1>1, <1>3, <1>6
<1>8. LoadsAre(load', queue', chan')
  <2>1. ASSUME NEW v \in Workers
        PROVE  load'[v] = Count(queue'[v], "workOrder") + Count(chan'[v], "complete")
    <3>1. load[v] = Count(queue[v], "workOrder") + Count(chan[v], "complete") BY <1>t DEF LoadsAre
    <3>2. CASE v # w BY <1>2, <1>7, <3>1, <3>2
    <3>3. CASE v = w
      <4>1. load[w] + 1 = (Count(queue[w], "workOrder") + 1) + Count(chan[w], "complete")
        BY <1>6, <3>1, <3>3
      <4>2. load'[w] = load[w] + 1 /\ chan'[w] = chan[w]
            /\ Count(queue'[w], "workOrder") = Count(queue[w], "workOrder") + 1
        BY <1>2, <1>6, <1>7
      <4> QED BY <3>3, <4>1, <4>2
    <3> QED BY <3>2, <3>3
  <2> QED BY <1>2, <1>7, <1>t, <2>1 DEF LoadsAre
<1>9. MessagesOfAdmitted'
  <2>1. InSeq(outbox) \subseteq pe.admitted BY <1>t DEF MessagesOfAdmitted
  <2>2. ASSUME NEW v \in Workers
        PROVE  \A x \in InSeq(queue'[v]) : x.type = "workOrder" => x.query \in pe.admitted
    <3>1. \A x \in InSeq(queue[v]) : x.type = "workOrder" => x.query \in pe.admitted
      BY <1>t DEF MessagesOfAdmitted
    <3>2. CASE v # w BY <1>7, <3>1, <3>2
    <3>3. CASE v = w BY <1>4, <1>5, <1>6, <1>7, <2>1, <3>1, <3>3
    <3> QED BY <3>2, <3>3
  <2> QED BY <1>2, <1>4, <1>t, <2>1, <2>2 DEF MessagesOfAdmitted
<1>10. Cardinality(Tokens(load')) = Cardinality(Tokens(load)) + 1
       /\ Cardinality(Tokens(load)) \in Nat /\ load'[w] > 0
  <2>1. Loads(load) /\ load[w] >= 0 /\ load[w] \in Int /\ Cardinality(Tokens(load)) \in Nat
    BY LoadsOfFInv
  <2>2. load'[w] > 0 BY <1>7, <2>1
  <2>3. Cardinality(Tokens(load')) = Cardinality(Tokens(load)) + 1 BY <1>1, <2>1, TokensMore
  <2> QED BY <2>1, <2>2, <2>3
<1>11. OutExact'
  <2> SUFFICES ASSUME NEW p \in pe.admitted
               PROVE  pe.out[p] = Len(outbox') + Cardinality(Tokens(load'))
    BY <1>2 DEF OutExact
  <2>1. pe.out[p] = Len(outbox) + Cardinality(Tokens(load)) BY <1>t DEF OutExact
  <2> QED BY <1>4, <1>10, <2>1
<1>12. Awake' BY <1>2, <1>10 DEF Awake, SomeLoad
<1>13. PoisonLast'
  <2>1. \A v \in Workers : Poison \in InSeq(queue'[v]) => Poison \in InSeq(queue[v])
    BY <1>5, <1>6, <1>7
  <2> QED BY <1>2, <1>t, <2>1 DEF PoisonLast, Poisoned
<1>14. Conversation' BY <1>2, <1>t DEF Conversation
<1> QED BY <1>2, <1>8, <1>9, <1>11, <1>12, <1>13, <1>14, <1>t DEF FInv

\* A work order and the completion that takes its place are one load.
LEMMA ExecuteFInv ==
  ASSUME FInv, NEW w \in Workers, executeWorkOrder(w), IInv'
  PROVE  FInv'
<1> DEFINE q == Head(queue[w]).query
           z == [type |-> "complete", query |-> q]
<1>1. PICK r \in Reports(q) : chan' = [chan EXCEPT ![w] = @ \o Append(r, z)]
  BY DEF executeWorkOrder
<1>2. /\ queue[w] # <<>> /\ queue' = [queue EXCEPT ![w] = Tail(@)]
      /\ Head(queue[w]).type = "workOrder"
      /\ UNCHANGED <<script, awaiting, signals, mail, pc, pe, outbox, load>>
  BY DEF executeWorkOrder, main
<1>t. /\ TypeOK /\ OneAdmitted(pe) /\ OutExact /\ PoisonLast /\ Conversation /\ Awake
      /\ MessagesOfAdmitted /\ LoadsAre(load, queue, chan)
  BY DEF FInv, IInv
<1>3. /\ queue \in [Workers -> Seq(WorkerMessage)] /\ chan \in [Workers -> Seq(Report)]
      /\ queue[w] \in Seq(WorkerMessage) /\ chan[w] \in Seq(Report) /\ load \in [Workers -> Int]
  BY <1>t DEF TypeOK
<1>4. /\ InSeq(queue[w]) = InSeq(Tail(queue[w])) \cup {Head(queue[w])}
      /\ Tail(queue[w]) \in Seq(WorkerMessage) /\ Head(queue[w]) \in WorkerMessage
      /\ Count(Tail(queue[w]), "workOrder") = Count(queue[w], "workOrder") - 1
      /\ Count(queue[w], "workOrder") \in Nat /\ Count(chan[w], "complete") \in Nat
  BY <1>2, <1>3, InSeqTail, CountTail, CountNumber
<1>5. q \in Queries /\ q \in pe.admitted
  <2>1. Head(queue[w]) # Poison BY <1>2 DEF Poison
  <2>2. q \in Queries BY <1>4, <2>1 DEF WorkerMessage
  <2> QED BY <1>2, <1>4, <1>t, <2>2 DEF MessagesOfAdmitted
<1> HIDE DEF q
<1>6. z \in Report /\ z.type = "complete" /\ z.query = q BY <1>5 DEF Report
<1> HIDE DEF z
<1>7. /\ r \in Seq(Report) /\ \A x \in InSeq(r) : x.query = q
      /\ Count(r, "complete") = 0
  <2>1. CASE r = <<>>
    <3>1. r \in Seq(Report) /\ \A i \in DOMAIN r : r[i].type # "complete" BY <2>1
    <3>2. Count(r, "complete") = 0 <=> \A i \in DOMAIN r : r[i].type # "complete"
      BY <3>1, CountNumber
    <3> QED BY <2>1, <3>1, <3>2, InSeqEmpty
  <2>2. CASE r # <<>>
    <3>1. PICK t \in {"newBlock", "pipeline", "feedback"} : r = <<[type |-> t, query |-> q]>>
      BY <1>1, <2>2 DEF Reports
    <3> DEFINE y == [type |-> t, query |-> q]
    <3>2. y \in Report /\ y.type # "complete" /\ y.query = q /\ r = <<y>> BY <1>5, <3>1 DEF Report
    <3> HIDE DEF y
    <3>3. r \in Seq(Report) /\ DOMAIN r = {1} /\ r[1] = y BY <3>2
    <3>4. Count(r, "complete") = 0 <=> \A i \in DOMAIN r : r[i].type # "complete"
      BY <3>3, CountNumber
    <3> QED BY <3>2, <3>3, <3>4 DEF InSeq
  <2> QED BY <2>1, <2>2
<1> DEFINE s == Append(r, z)
           c == chan[w] \o s
<1>8. /\ s \in Seq(Report) /\ InSeq(s) = InSeq(r) \cup {z} /\ Count(s, "complete") = 1
      /\ Len(s) \in Nat \ {0} /\ s[Len(s)] = z
  <2>1. s \in Seq(Report) /\ Len(s) \in Nat \ {0} /\ s[Len(s)] = z BY <1>6, <1>7
  <2>2. InSeq(s) = InSeq(r) \cup {z} BY <1>6, <1>7, InSeqAppend
  <2>3. Count(s, "complete") = Count(r, "complete") + (IF z.type = "complete" THEN 1 ELSE 0)
    BY <1>6, <1>7, CountAppend
  <2> QED BY <1>6, <1>7, <2>1, <2>2, <2>3
<1> HIDE DEF s
<1>9. /\ c \in Seq(Report) /\ InSeq(c) \subseteq InSeq(chan[w]) \cup InSeq(s)
      /\ Count(c, "complete") = Count(chan[w], "complete") + Count(s, "complete")
      /\ c[Len(c)] = z
  <2>1. c \in Seq(Report) /\ InSeq(c) \subseteq InSeq(chan[w]) \cup InSeq(s)
    BY <1>3, <1>8, InSeqConcat
  <2>2. Count(c, "complete") = Count(chan[w], "complete") + Count(s, "complete")
    BY <1>3, <1>8, CountConcat
  <2>3. c[Len(c)] = z
    <3> DEFINE a == chan[w]
    <3>1. a \in Seq(Report) BY <1>3
    <3> HIDE DEF a
    <3>2. (a \o s)[Len(a \o s)] = s[Len(s)] BY <1>8, <3>1
    <3> QED BY <1>8, <3>2 DEF a
  <2> QED BY <2>1, <2>2, <2>3
<1>10. /\ chan' = [chan EXCEPT ![w] = c] BY <1>1 DEF s
<1> HIDE DEF c
<1>11. /\ queue' \in [Workers -> Seq(WorkerMessage)] /\ queue'[w] = Tail(queue[w])
       /\ \A v \in Workers : v # w => queue'[v] = queue[v]
       /\ chan' \in [Workers -> Seq(Report)] /\ chan'[w] = c
       /\ \A v \in Workers : v # w => chan'[v] = chan[v]
  BY <1>2, <1>3, <1>4, <1>9, <1>10
<1>12. LoadsAre(load', queue', chan')
  <2>1. ASSUME NEW v \in Workers
        PROVE  load'[v] = Count(queue'[v], "workOrder") + Count(chan'[v], "complete")
    <3>1. load[v] = Count(queue[v], "workOrder") + Count(chan[v], "complete") /\ load'[v] = load[v]
      BY <1>2, <1>t DEF LoadsAre
    <3>2. CASE v # w BY <1>11, <3>1, <3>2
    <3>3. CASE v = w
      <4>1. /\ Count(queue'[w], "workOrder") = Count(queue[w], "workOrder") - 1
            /\ Count(chan'[w], "complete") = Count(chan[w], "complete") + 1
        BY <1>4, <1>8, <1>9, <1>11
      <4>2. Count(queue[w], "workOrder") + Count(chan[w], "complete")
              = (Count(queue[w], "workOrder") - 1) + (Count(chan[w], "complete") + 1)
        BY <1>4
      <4> QED BY <3>1, <3>3, <4>1, <4>2
    <3> QED BY <3>2, <3>3
  <2>2. ASSUME NEW v \in Workers, chan'[v] # <<>> PROVE chan'[v][Len(chan'[v])].type = "complete"
    <3>1. CASE v # w BY <1>11, <1>t, <2>2, <3>1 DEF LoadsAre
    <3>2. CASE v = w BY <1>6, <1>9, <1>11, <3>2
    <3> QED BY <3>1, <3>2
  <2> QED BY <1>2, <1>3, <1>11, <2>1, <2>2 DEF LoadsAre
<1>13. MessagesOfAdmitted'
  <2>1. ASSUME NEW v \in Workers
        PROVE  /\ \A x \in InSeq(queue'[v]) : x.type = "workOrder" => x.query \in pe.admitted
               /\ \A x \in InSeq(chan'[v]) : x.query \in pe.admitted
    <3>1. /\ \A x \in InSeq(queue[v]) : x.type = "workOrder" => x.query \in pe.admitted
          /\ \A x \in InSeq(chan[v]) : x.query \in pe.admitted
      BY <1>t DEF MessagesOfAdmitted
    <3>2. CASE v # w BY <1>11, <3>1, <3>2
    <3>3. CASE v = w
      <4>1. \A x \in InSeq(s) : x.query \in pe.admitted BY <1>5, <1>6, <1>7, <1>8
      <4> QED BY <1>4, <1>9, <1>11, <3>1, <3>3, <4>1
    <3> QED BY <3>2, <3>3
  <2> QED BY <1>2, <1>t, <2>1 DEF MessagesOfAdmitted
<1>14. PoisonLast'
  <2>1. \A v \in Workers : Poison \in InSeq(queue'[v]) => Poison \in InSeq(queue[v])
    BY <1>4, <1>11
  <2> QED BY <1>2, <1>t, <2>1 DEF PoisonLast, Poisoned
<1>15. Conversation' /\ OutExact' /\ Awake'
  BY <1>2, <1>t DEF Conversation, OutExact, Awake, HasReady, SomeLoad
<1> QED BY <1>2, <1>12, <1>13, <1>14, <1>15, <1>t DEF FInv

\* Where a message goes to the main thread's or the foreman's mail, or the
\* foreman's place in its loop changes, and no work is touched.
LEMMA QuietFInv ==
  ASSUME FInv, IInv', UNCHANGED <<load, chan, pe, outbox>>, LoadsAre(load', queue', chan'),
         \A w \in Workers : \A m \in InSeq(queue'[w]) : m \in InSeq(queue[w]) \/ m = Poison,
         Awake', PoisonLast', Conversation'
  PROVE  FInv'
<1>1. MessagesOfAdmitted /\ OneAdmitted(pe) /\ OutExact BY DEF FInv
<1>2. MessagesOfAdmitted'
  <2>1. Poison.type # "workOrder" BY DEF Poison
  <2>2. ASSUME NEW w \in Workers, NEW m \in InSeq(queue'[w]), m.type = "workOrder"
        PROVE  m.query \in pe.admitted
    BY <1>1, <2>1, <2>2 DEF MessagesOfAdmitted
  <2> QED BY <1>1, <2>2 DEF MessagesOfAdmitted
<1>3. OutExact' BY <1>1 DEF OutExact
<1> QED BY <1>1, <1>2, <1>3 DEF FInv

\* The client sends a request only when nothing of the last is left.
LEMMA SendFInv ==
  ASSUME FInv, sendAdmitRequest, IInv'
  PROVE  FInv'
<1> DEFINE m == [type |-> "admit", queries |-> Head(script)]
<1>1. /\ script # <<>> /\ (Patient => ~awaiting) /\ mail' = Append(mail, m) /\ awaiting' = TRUE
      /\ UNCHANGED <<signals, pc, pe, outbox, load, queue, chan>>
  BY DEF sendAdmitRequest
<1>t. /\ TypeOK /\ PoisonLast /\ Conversation /\ Awake /\ LoadsAre(load, queue, chan)
  BY DEF FInv, IInv
<1>2. mail \in Seq(MainMessage) /\ script \in Seq(Seq(Queries)) BY <1>t DEF TypeOK
<1>3. m \in MainMessage /\ m # Poison BY <1>1, <1>2 DEF MainMessage, Poison
<1> HIDE DEF m
<1>4. ~Poisoned BY <1>1, <1>t DEF PoisonLast
<1>5. ~Poisoned'
  <2>1. InSeq(mail') = InSeq(mail) \cup {m} BY <1>1, <1>2, <1>3, InSeqAppend
  <2> QED BY <1>1, <1>3, <1>4, <2>1 DEF Poisoned
<1>6. PoisonLast' BY <1>5 DEF PoisonLast
<1>7. mail = <<>> => Len(mail') = 1 BY <1>1, <1>2, <1>3
<1>8. mail # <<>> => 1 \in DOMAIN mail BY <1>2
<1>9. Conversation'
  <2> SUFFICES ASSUME Patient PROVE Conversation' BY DEF Conversation
  <2>1. ~awaiting BY <1>1
  <2>2. /\ signals = 0 /\ ~hasQueries(pe) /\ pc \in {"receive", "exited"}
        /\ \A i \in DOMAIN mail : mail[i] = Poison
    BY <1>t, <2>1 DEF Conversation
  <2>3. mail = <<>> BY <1>4, <1>8, <2>2 DEF Poisoned, InSeq
  <2>4. pc = "receive" BY <1>4, <2>2 DEF Poisoned
  <2> QED BY <1>1, <1>7, <2>2, <2>3, <2>4 DEF Conversation
<1>10. Awake' BY <1>1, <1>t DEF Awake, HasReady, SomeLoad
<1>11. LoadsAre(load', queue', chan') BY <1>1, <1>t
<1> QED BY <1>1, <1>6, <1>9, <1>10, <1>11, QuietFInv

\* The client takes the answer.
LEMMA AnswerFInv ==
  ASSUME FInv, receiveQueryCompletion, IInv'
  PROVE  FInv'
<1>1. /\ awaiting /\ signals > 0 /\ signals' = signals - 1 /\ awaiting' = FALSE
      /\ UNCHANGED <<script, mail, pc, pe, outbox, load, queue, chan>>
  BY DEF receiveQueryCompletion
<1>t. /\ TypeOK /\ PoisonLast /\ Conversation /\ Awake /\ LoadsAre(load, queue, chan)
  BY DEF FInv, IInv
<1>2. PoisonLast' BY <1>1, <1>t DEF PoisonLast, Poisoned
<1>3. signals \in {0, 1} => signals = 1 /\ signals' = 0 BY <1>1
<1>4. Conversation'
  <2> SUFFICES ASSUME Patient PROVE Conversation' BY DEF Conversation
  <2>1. signals = 1 /\ signals' = 0 BY <1>3, <1>t DEF Conversation
  <2>2. mail = <<>> /\ pc = "receive" /\ ~hasQueries(pe) BY <1>t, <2>1 DEF Conversation
  <2> QED BY <1>1, <2>1, <2>2, <1>t DEF Conversation
<1>5. Awake' BY <1>1, <1>t DEF Awake, HasReady, SomeLoad
<1>6. LoadsAre(load', queue', chan') BY <1>1, <1>t
<1> QED BY <1>1, <1>2, <1>4, <1>5, <1>6, QuietFInv

\* The poison goes out behind everything else.
LEMMA PoisonFInv ==
  ASSUME FInv, broadcastPoison, IInv'
  PROVE  FInv'
<1>1. /\ script = <<>> /\ Patient /\ ~awaiting /\ Poison \notin InSeq(mail) /\ pc # "exited"
      /\ mail' = Append(mail, Poison)
      /\ queue' = [w \in Workers |-> Append(queue[w], Poison)]
      /\ UNCHANGED <<script, awaiting, signals, pc, pe, outbox, load, chan>>
  BY DEF broadcastPoison, main, InSeq
<1>t. /\ TypeOK /\ PoisonLast /\ Conversation /\ Awake /\ LoadsAre(load, queue, chan)
  BY DEF FInv, IInv
<1>2. mail \in Seq(MainMessage) /\ queue \in [Workers -> Seq(WorkerMessage)] BY <1>t DEF TypeOK
<1>3. Poison \in MainMessage /\ Poison \in WorkerMessage /\ Poison.type # "workOrder"
  BY DEF MainMessage, WorkerMessage, Poison
<1>4. PoisonLast' BY <1>1 DEF PoisonLast
<1>5. mail # <<>> => 1 \in DOMAIN mail BY <1>2
<1>6. mail = <<>> => Len(mail') = 1 /\ \A i \in DOMAIN mail' : mail'[i] = Poison
  <2> SUFFICES ASSUME mail = <<>> PROVE Len(mail') = 1 /\ \A i \in DOMAIN mail' : mail'[i] = Poison
    OBVIOUS
  <2>1. mail' = Append(<<>>, Poison) BY <1>1
  <2> HIDE DEF Poison
  <2> QED BY <2>1
<1>7. Conversation'
  <2>1. /\ signals = 0 /\ ~hasQueries(pe) /\ pc \in {"receive", "exited"}
        /\ \A i \in DOMAIN mail : mail[i] = Poison
    BY <1>1, <1>t DEF Conversation
  <2>2. mail = <<>> BY <1>1, <1>5, <2>1 DEF InSeq
  <2>3. pc = "receive" BY <1>1, <2>1
  <2> QED BY <1>1, <1>6, <2>1, <2>2, <2>3 DEF Conversation
<1>8. ASSUME NEW w \in Workers
      PROVE  /\ InSeq(queue'[w]) = InSeq(queue[w]) \cup {Poison} /\ queue'[w] \in Seq(WorkerMessage)
             /\ Count(queue'[w], "workOrder") = Count(queue[w], "workOrder")
  <2>1. queue[w] \in Seq(WorkerMessage) /\ queue'[w] = Append(queue[w], Poison) BY <1>1, <1>2
  <2>2. Count(queue'[w], "workOrder") = Count(queue[w], "workOrder") + 0
    BY <1>3, <2>1, CountAppend
  <2>3. Count(queue[w], "workOrder") \in Nat BY <2>1, CountNumber
  <2> QED BY <1>3, <2>1, <2>2, <2>3, InSeqAppend
<1>9. LoadsAre(load', queue', chan')
  <2>1. queue' \in [Workers -> Seq(WorkerMessage)] BY <1>1, <1>2, <1>8
  <2> QED BY <1>1, <1>8, <1>t, <2>1 DEF LoadsAre
<1>10. Awake' BY <1>1, <1>t DEF Awake, HasReady, SomeLoad
<1> QED BY <1>1, <1>4, <1>7, <1>8, <1>9, <1>10, QuietFInv

\* The foreman turns to a request, or returns.
LEMMA MailFInv ==
  ASSUME FInv, receiveAdmitRequest \/ receivePoison, IInv'
  PROVE  FInv'
<1>t. /\ TypeOK /\ PoisonLast /\ Conversation /\ LoadsAre(load, queue, chan)
  BY DEF FInv, IInv
<1>m. mail \in Seq(MainMessage) BY <1>t DEF TypeOK
<1>1. CASE receiveAdmitRequest
  <2>1. /\ pc = "receive" /\ mail # <<>> /\ Head(mail).type = "admit" /\ pc' = "admit"
        /\ UNCHANGED <<script, awaiting, signals, mail, pe, outbox, load, queue, chan>>
    BY <1>1 DEF receiveAdmitRequest, main
  <2>2. 1 \in DOMAIN mail /\ mail[1] # Poison
    <3>1. 1 \in DOMAIN mail /\ Head(mail) = mail[1] BY <1>m, <2>1
    <3> QED BY <2>1, <3>1 DEF Poison
  <2>3. PoisonLast' BY <1>t, <2>1 DEF PoisonLast, Poisoned
  <2>4. Conversation'
    <3> SUFFICES ASSUME Patient PROVE Conversation' BY DEF Conversation
    <3>1. awaiting /\ signals \in {0, 1} /\ signals # 1 BY <1>t, <2>1, <2>2 DEF Conversation
    <3>2. Len(mail) <= 1 BY <1>t DEF Conversation
    <3> QED BY <2>1, <3>1, <3>2 DEF Conversation
  <2>5. Awake' BY <2>1 DEF Awake
  <2>6. LoadsAre(load', queue', chan') BY <1>t, <2>1
  <2> QED BY <2>1, <2>3, <2>4, <2>5, <2>6, QuietFInv
<1>2. CASE receivePoison
  <2>1. /\ pc = "receive" /\ mail # <<>> /\ Head(mail) = Poison /\ pc' = "exited"
        /\ mail' = Tail(mail)
        /\ UNCHANGED <<script, awaiting, signals, pe, outbox, load, queue, chan>>
    BY <1>2 DEF receivePoison, main
  <2>2. Poisoned
    <3>1. Poison \in InSeq(mail) BY <1>m, <2>1, InSeqTail
    <3> QED BY <3>1 DEF Poisoned
  <2>3. PoisonLast' BY <1>t, <2>1, <2>2 DEF PoisonLast
  <2>4. Len(mail) <= 1 => mail' = <<>> /\ Len(mail') = 0 /\ DOMAIN mail' = {}
    BY <1>m, <2>1, OneMessage
  <2>5. Conversation'
    <3>1. Patient /\ ~awaiting BY <1>t, <2>2 DEF PoisonLast
    <3>2. Len(mail) <= 1 /\ signals = 0 /\ ~hasQueries(pe) BY <1>t, <3>1 DEF Conversation
    <3>3. mail' = <<>> /\ Len(mail') <= 1 /\ DOMAIN mail' = {}
      <4>1. mail' = <<>> /\ Len(mail') = 0 /\ DOMAIN mail' = {} BY <2>4, <3>2
      <4> QED BY <4>1
    <3> QED BY <2>1, <3>1, <3>2, <3>3 DEF Conversation
  <2>6. Awake' BY <2>1 DEF Awake
  <2>7. LoadsAre(load', queue', chan') BY <1>t, <2>1
  <2> QED BY <2>1, <2>3, <2>5, <2>6, <2>7, QuietFInv
<1> QED BY <1>1, <1>2

\* The end of an iteration: the completion is signalled once.
LEMMA SignalFInv ==
  ASSUME FInv, signalCompletion, IInv'
  PROVE  FInv'
<1>1. /\ pc = "signal" \/ (pc = "dispatch" /\ outbox = <<>>)
      /\ signals' = IF hasQueries(pe) THEN signals ELSE signals + 1
      /\ pc' = "receive"
      /\ UNCHANGED <<script, awaiting, mail, pe, outbox, load, queue, chan>>
  BY DEF signalCompletion
<1>t. /\ TypeOK /\ PoisonLast /\ Conversation /\ Awake /\ LoadsAre(load, queue, chan)
  BY DEF FInv, IInv
<1>2. PoisonLast' BY <1>1, <1>t DEF PoisonLast, Poisoned
<1>3. Conversation'
  <2>0. signals = 0 => signals + 1 = 1 OBVIOUS
  <2> SUFFICES ASSUME Patient PROVE Conversation' BY DEF Conversation
  <2>1. awaiting /\ signals = 0 /\ mail = <<>> BY <1>1, <1>t DEF Conversation
  <2>2. signals' = IF hasQueries(pe) THEN 0 ELSE 1 BY <1>1, <2>0, <2>1
  <2>3. hasQueries(pe') <=> hasQueries(pe) BY <1>1
  <2> QED BY <1>1, <1>t, <2>1, <2>2, <2>3 DEF Conversation
<1>4. Awake' BY <1>1, <1>t DEF Awake, HasReady, SomeLoad
<1>5. LoadsAre(load', queue', chan') BY <1>1, <1>t
<1> QED BY <1>1, <1>2, <1>3, <1>4, <1>5, QuietFInv

LEMMA InitFInv == Init => FInv
<1> SUFFICES ASSUME Init PROVE FInv OBVIOUS
<1>1. IInv BY InitInv
<1>2. \A w \in Workers : queue[w] = <<>> /\ chan[w] = <<>> /\ load[w] = 0 BY DEF Init
<1>3. Count(<<>>, "workOrder") = 0 /\ Count(<<>>, "complete") = 0
  <2>1. Count(<<>>, "workOrder") = Cardinality({}) /\ Count(<<>>, "complete") = Cardinality({})
    BY DEF Count
  <2> QED BY <2>1, FS_EmptySet
<1>4. LoadsAre(load, queue, chan)
  BY <1>1, <1>2, <1>3 DEF LoadsAre, IInv, TypeOK
<1>5. pe.admitted = {} /\ pe.waiting = <<>> /\ outbox = <<>> /\ mail = <<>> /\ signals = 0
      /\ pc = "receive"
  BY DEF Init
<1>6. MessagesOfAdmitted BY <1>2, <1>5, InSeqEmpty DEF MessagesOfAdmitted
<1>7. OneAdmitted(pe) /\ OutExact /\ Awake BY <1>5 DEF OneAdmitted, OutExact, Awake, HasReady
<1>8. PoisonLast BY <1>2, <1>5, InSeqEmpty DEF PoisonLast, Poisoned
<1>9. Len(mail) <= 1 /\ DOMAIN mail = {} BY <1>5
<1>10. ~hasQueries(pe) BY <1>5 DEF hasQueries
<1>11. Conversation BY <1>5, <1>9, <1>10 DEF Conversation
<1> QED BY <1>1, <1>4, <1>6, <1>7, <1>8, <1>11 DEF FInv

LEMMA StepFInv == FInv /\ [Next]_vars => FInv'
<1> SUFFICES ASSUME FInv, [Next]_vars PROVE FInv' OBVIOUS
<1>i. IInv' BY StepInv DEF FInv
<1>1. CASE MainStep BY <1>i, <1>1, SendFInv, AnswerFInv, PoisonFInv DEF MainStep
<1>2. CASE receiveAdmitRequest \/ receivePoison BY <1>i, <1>2, MailFInv
<1>3. CASE admitNext BY <1>i, <1>3, AdmitFInv
<1>4. ASSUME NEW w \in Workers, processWorkOrderComplete(w) PROVE FInv' BY <1>i, <1>4, CompleteFInv
<1>5. ASSUME NEW w \in Workers,
             processDataPipeline(w) \/ processFeedback(w) \/ processNewBlock(w)
      PROVE  FInv'
  BY <1>i, <1>5, OtherFInv
<1>6. CASE getWorkerMessages BY <1>i, <1>6, CollectFInv
<1>7. CASE dispatchWorkerMessage BY <1>i, <1>7, DispatchFInv
<1>8. CASE signalCompletion BY <1>i, <1>8, SignalFInv
<1>9. ASSUME NEW w \in Workers, executeWorkOrder(w) PROVE FInv' BY <1>i, <1>9, ExecuteFInv
<1>10. CASE UNCHANGED vars
  BY <1>i, <1>10
     DEF vars, FInv, MessagesOfAdmitted, OutExact, Awake, HasReady, SomeLoad, PoisonLast, Poisoned,
         Conversation
<1> QED
  BY <1>1, <1>2, <1>3, <1>4, <1>5, <1>6, <1>7, <1>8, <1>9, <1>10 DEF Next, ForemanStep, Terminated

-----------------------------------------------------------------------------
(* No query is lost *)

MailQueries(m) == UNION {InSeq(x.queries) : x \in {y \in InSeq(m) : y.type = "admit"}}

LEMMA AskedTail ==
  ASSUME NEW s \in Seq(Seq(Queries)), s # <<>>
  PROVE  Asked(s) = Asked(Tail(s)) \cup InSeq(Head(s))
<1>1. \A t : Asked(t) = UNION {InSeq(x) : x \in InSeq(t)} BY DEF Asked, InSeq
<1>2. InSeq(s) = InSeq(Tail(s)) \cup {Head(s)} BY InSeqTail
<1> QED BY <1>1, <1>2

\* A step after which each query asked for, sent or known is still one of these.
LEMMA KeptNInv ==
  ASSUME NInv, FInv', UNCHANGED <<script, mail>>, Known(pe) \subseteq Known(pe')
  PROVE  NInv'
<1>1. OneEach' BY DEF NInv, OneEach
<1>2. InMail' = InMail BY DEF InMail
<1>3. NoQueryLost' BY <1>2 DEF NInv, NoQueryLost, Known
<1> QED BY <1>1, <1>3 DEF NInv

LEMMA SendNInv ==
  ASSUME NInv, FInv', sendAdmitRequest
  PROVE  NInv'
<1> DEFINE m == [type |-> "admit", queries |-> Head(script)]
<1>1. script # <<>> /\ mail' = Append(mail, m) /\ script' = Tail(script) /\ pe' = pe
  BY DEF sendAdmitRequest
<1>t. TypeOK /\ OneEach /\ NoQueryLost BY DEF NInv, FInv, IInv
<1>2. mail \in Seq(MainMessage) /\ script \in Seq(Seq(Queries)) BY <1>t DEF TypeOK
<1>3. m \in MainMessage /\ m.type = "admit" /\ m.queries = Head(script)
  BY <1>1, <1>2 DEF MainMessage
<1> HIDE DEF m
<1>4. InSeq(mail') = InSeq(mail) \cup {m} BY <1>1, <1>2, <1>3, InSeqAppend
<1>5. InSeq(script) = InSeq(script') \cup {Head(script)} BY <1>1, <1>2, InSeqTail
<1>6. Asked(script) = Asked(script') \cup InSeq(Head(script)) BY <1>1, <1>2, AskedTail
<1>7. InMail \cup InSeq(Head(script)) \subseteq InMail' BY <1>3, <1>4 DEF InMail
<1>8. NoQueryLost' BY <1>1, <1>6, <1>7, <1>t DEF NoQueryLost
<1>9. OneEach' BY <1>3, <1>4, <1>5, <1>t DEF OneEach
<1> QED BY <1>8, <1>9 DEF NInv

LEMMA PoisonNInv ==
  ASSUME NInv, FInv', broadcastPoison \/ receivePoison
  PROVE  NInv'
<1>t. TypeOK /\ OneEach /\ NoQueryLost BY DEF NInv, FInv, IInv
<1>1. mail \in Seq(MainMessage) BY <1>t DEF TypeOK
<1>2. Poison.type # "admit" /\ Poison \in MainMessage BY DEF Poison, MainMessage
<1>3. script' = script /\ pe' = pe BY DEF broadcastPoison, receivePoison, main
<1>4. InSeq(mail') \subseteq InSeq(mail) \cup {Poison} /\ InSeq(mail) \subseteq InSeq(mail') \cup {Poison}
  <2>1. CASE broadcastPoison
    <3>1. mail' = Append(mail, Poison) BY <2>1 DEF broadcastPoison
    <3> QED BY <1>1, <1>2, <3>1, InSeqAppend
  <2>2. CASE receivePoison
    <3>1. mail' = Tail(mail) /\ Head(mail) = Poison /\ mail # <<>> BY <2>2 DEF receivePoison
    <3> QED BY <1>1, <3>1, InSeqTail
  <2> QED BY <2>1, <2>2
<1>5. InMail' = InMail BY <1>2, <1>4 DEF InMail
<1>6. NoQueryLost' BY <1>3, <1>5, <1>t DEF NoQueryLost
<1>7. OneEach' BY <1>2, <1>3, <1>4, <1>t DEF OneEach
<1> QED BY <1>6, <1>7 DEF NInv

\* The one query of a request is admitted or waits: nothing is left over.
LEMMA AdmitNInv ==
  ASSUME NInv, FInv', admitNext
  PROVE  NInv'
<1> DEFINE qs == Head(mail).queries
<1>t. TypeOK /\ OneEach /\ NoQueryLost /\ Admitting /\ OneAdmitted(pe) BY DEF NInv, FInv, IInv
<1>1. /\ pc = "admit" /\ script' = script
      /\ pe' = IF qs = <<>> THEN pe ELSE admitQuery(pe, Head(qs))
      /\ ~(Len(qs) > 1) => mail' = Tail(mail)
  BY DEF admitNext, main
<1>2. mail \in Seq(MainMessage) /\ mail # <<>> /\ Head(mail).type = "admit" /\ pe \in PEType
  BY <1>1, <1>t DEF TypeOK, Admitting
<1>3. qs \in Seq(Queries) /\ InSeq(mail) = InSeq(Tail(mail)) \cup {Head(mail)}
  BY <1>2, RequestType, InSeqTail
<1>4. Len(qs) <= 1 BY <1>2, <1>3, <1>t DEF OneEach
<1>5. InMail \subseteq MailQueries(Tail(mail)) \cup InSeq(qs) BY <1>3 DEF InMail, MailQueries
<1> HIDE DEF qs
<1>6. mail' = Tail(mail) BY <1>1, <1>3, <1>4
<1>7. InMail' = MailQueries(Tail(mail)) BY <1>6 DEF InMail, MailQueries
<1>8. Known(pe) \cup InSeq(qs) \subseteq Known(pe')
  <2>1. CASE qs = <<>> BY <1>1, <2>1, InSeqEmpty
  <2>2. CASE qs # <<>>
    <3>1. Tail(qs) = <<>> /\ Head(qs) \in Queries /\ InSeq(qs) = InSeq(Tail(qs)) \cup {Head(qs)}
      BY <1>3, <1>4, <2>2, OneMessage, InSeqTail
    <3>2. InSeq(qs) = {Head(qs)} BY <3>1, InSeqEmpty
    <3>3. AdmitEffect(pe, Head(qs), pe') BY <1>1, <1>2, <1>t, <2>2, <3>1, AdmitDoes
    <3> QED BY <3>2, <3>3 DEF AdmitEffect
  <2> QED BY <2>1, <2>2
<1>9. NoQueryLost' BY <1>1, <1>5, <1>7, <1>8, <1>t DEF NoQueryLost, Known
<1>10. OneEach' BY <1>1, <1>3, <1>6, <1>t DEF OneEach
<1> QED BY <1>9, <1>10 DEF NInv

\* Reports and rounds keep every query that the policy enforcer knows.
LEMMA ReportKnown ==
  ASSUME FInv, NEW w \in Workers,
         processWorkOrderComplete(w) \/ processDataPipeline(w)
           \/ processFeedback(w) \/ processNewBlock(w)
  PROVE  Known(pe) \subseteq Known(pe') /\ UNCHANGED <<script, mail>>
<1> DEFINE q == Head(chan[w]).query
           o == [pe.out EXCEPT ![q] = @ - 1]
           e == [pe EXCEPT !.out[q] = @ - 1]
           f == IF e.ready[q] = 0 /\ e.out[q] = 0 THEN Release(e, q) ELSE e
<1>p. pe \in PEType BY DEF FInv, IInv, TypeOK
<1>1. PICK type : Receives(w, type)
  BY DEF processWorkOrderComplete, processDataPipeline, processFeedback, processNewBlock
<1>2. q \in Queries /\ pe.admitted = {q} BY <1>1, ReceiveFacts
<1>3. \/ pe' = removeIfExecuted(f, q)
      \/ pe' = removeIfExecuted(pe, q)
      \/ pe' = removeIfExecuted(Release(pe, q), q)
      \/ pe' = pe
  BY DEF processWorkOrderComplete, processDataPipeline, processFeedback, processNewBlock
<1> HIDE DEF q
<1>4. e \in PEType /\ e.admitted = pe.admitted /\ e.waiting = pe.waiting /\ e.removed = pe.removed
  <2>1. o \in [Queries -> Int] BY <1>p, <1>2 DEF PEType
  <2>2. e = [pe EXCEPT !.out = o] BY <1>p DEF PEType
  <2> HIDE DEF o, e
  <2> QED BY <1>p, <2>1, <2>2 DEF PEType
<1> HIDE DEF e
<1>5. ASSUME NEW g \in PEType, g.admitted = pe.admitted, g.waiting = pe.waiting,
             g.removed = pe.removed
      PROVE  Known(pe) \subseteq Known(removeIfExecuted(g, q))
  <2>1. RemoveEffect(g, q, removeIfExecuted(g, q)) BY <1>2, <1>5, RemoveDoes DEF OneAdmitted
  <2>2. Known(g) = Known(pe) BY <1>5 DEF Known
  <2> QED BY <2>1, <2>2 DEF RemoveEffect
<1>6. ASSUME NEW g \in PEType, g.admitted = pe.admitted, g.waiting = pe.waiting,
             g.removed = pe.removed
      PROVE  Known(pe) \subseteq Known(removeIfExecuted(Release(g, q), q))
  <2>1. Release(g, q) \in PEType /\ SameQueries(g, Release(g, q))
    BY <1>2, ReleaseType, ReleaseEffect
  <2> QED BY <1>5, <1>6, <2>1 DEF SameQueries
<1>7. Known(pe) \subseteq Known(pe')
  <2>1. f = e \/ f = Release(e, q) OBVIOUS
  <2> HIDE DEF f
  <2> QED BY <1>p, <1>3, <1>4, <1>5, <1>6, <2>1
<1> QED BY <1>1, <1>7 DEF Receives, main

LEMMA CollectKnown ==
  ASSUME FInv, getWorkerMessages
  PROVE  Known(pe) \subseteq Known(pe') /\ UNCHANGED <<script, mail>>
<1>p. pe \in PEType BY DEF FInv, IInv, TypeOK
<1>1. UNCHANGED <<script, mail>> BY DEF getWorkerMessages, main
<1>2. CASE pe' = pe BY <1>1, <1>2
<1>3. CASE pe' # pe
  <2>1. PICK q \in pe.admitted : \E n :
          LET e == [pe EXCEPT !.ready[q] = @ - n, !.out[q] = @ + n]
          IN  pe' = e \/ pe' = removeQuery(e, q)
    BY <1>3 DEF getWorkerMessages
  <2>0. PICK n :
          LET e == [pe EXCEPT !.ready[q] = @ - n, !.out[q] = @ + n]
          IN  pe' = e \/ pe' = removeQuery(e, q)
    BY <2>1
  <2> DEFINE e == [pe EXCEPT !.ready[q] = @ - n, !.out[q] = @ + n]
  <2>2. pe' = e \/ pe' = removeQuery(e, q) BY <2>0
  <2>3. /\ e.admitted = pe.admitted /\ e.waiting = pe.waiting /\ e.removed = pe.removed
        /\ removeQuery(e, q).admitted = pe.admitted \ {q} /\ removeQuery(e, q).waiting = pe.waiting
        /\ removeQuery(e, q).removed = pe.removed \cup {q}
    BY <1>p DEF PEType, removeQuery
  <2> HIDE DEF e
  <2> QED BY <1>1, <2>2, <2>3 DEF Known
<1> QED BY <1>2, <1>3

LEMMA InitNInv == SingleRequests /\ Init => NInv
<1> SUFFICES ASSUME SingleRequests, Init PROVE NInv OBVIOUS
<1>1. script = Script /\ mail = <<>> BY DEF Init
<1> QED BY <1>1, InitFInv, InSeqEmpty DEF NInv, OneEach, SingleRequests, NoQueryLost

LEMMA StepNInv == NInv /\ [Next]_vars => NInv'
<1> SUFFICES ASSUME NInv, [Next]_vars PROVE NInv' OBVIOUS
<1>f. FInv /\ FInv' BY StepFInv DEF NInv
<1>1. CASE sendAdmitRequest BY <1>f, <1>1, SendNInv
<1>2. CASE broadcastPoison \/ receivePoison BY <1>f, <1>2, PoisonNInv
<1>3. CASE admitNext BY <1>f, <1>3, AdmitNInv
<1>4. ASSUME NEW w \in Workers,
             processWorkOrderComplete(w) \/ processDataPipeline(w)
               \/ processFeedback(w) \/ processNewBlock(w)
      PROVE  NInv'
  BY <1>f, <1>4, ReportKnown, KeptNInv
<1>5. CASE getWorkerMessages BY <1>f, <1>5, CollectKnown, KeptNInv
<1>6. CASE UNCHANGED <<script, mail, pe>> BY <1>f, <1>6, KeptNInv
<1>7. ASSUME receiveQueryCompletion \/ receiveAdmitRequest \/ dispatchWorkerMessage
               \/ signalCompletion \/ (\E w \in Workers : executeWorkOrder(w)) \/ UNCHANGED vars
      PROVE  UNCHANGED <<script, mail, pe>>
  BY <1>7 DEF receiveQueryCompletion, receiveAdmitRequest, dispatchWorkerMessage,
              signalCompletion, executeWorkOrder, main, vars
<1> QED
  BY <1>1, <1>2, <1>3, <1>4, <1>5, <1>6, <1>7 DEF Next, MainStep, ForemanStep, Terminated

-----------------------------------------------------------------------------
LEMMA FInvMeans == FInv => LoadsExact /\ MessagesOfAdmitted /\ NothingAbandoned /\ NoStall
<1> SUFFICES ASSUME FInv PROVE LoadsExact /\ MessagesOfAdmitted /\ NothingAbandoned /\ NoStall
  OBVIOUS
<1>1. /\ LoadsAre(load, queue, chan) /\ MessagesOfAdmitted /\ Awake /\ PoisonLast /\ Conversation
      /\ TypeOK
  BY DEF FInv, IInv
<1>2. LoadsExact BY <1>1 DEF LoadsAre, LoadsExact
<1>3. NoStall BY <1>1 DEF Awake, NoStall, HasReady, SomeLoad
<1>4. NothingAbandoned
  <2> SUFFICES ASSUME Poisoned
               PROVE  /\ ~hasQueries(pe)
                      /\ \A w \in Workers : Count(queue[w], "workOrder") = 0 /\ chan[w] = <<>>
    BY DEF NothingAbandoned, Poisoned
  <2>1. ~hasQueries(pe) BY <1>1 DEF PoisonLast, Conversation
  <2>2. Cardinality(Tokens(load)) = 0 BY <2>1, LoadsOfFInv DEF hasQueries
  <2>3. ASSUME NEW w \in Workers PROVE Count(queue[w], "workOrder") = 0 /\ chan[w] = <<>>
    <3>1. ~(load[w] > 0) BY <2>2, LoadsOfFInv
    <3>2. chan[w] = <<>> /\ \A m \in InSeq(queue[w]) : m.type # "workOrder" BY <1>1, <3>1, Idle
    <3>3. queue[w] \in Seq(WorkerMessage) BY <1>1 DEF TypeOK
    <3>4. \A i \in DOMAIN queue[w] : queue[w][i].type # "workOrder" BY <3>2 DEF InSeq
    <3>5. Count(queue[w], "workOrder") = 0 <=> \A i \in DOMAIN queue[w] : queue[w][i].type # "workOrder"
      BY <3>3, CountNumber
    <3> QED BY <3>2, <3>4, <3>5
  <2> QED BY <2>1, <2>3
<1> QED BY <1>1, <1>2, <1>3, <1>4

\* Whatever the requests and the flags, and however workers, foreman and main
\* thread interleave: the directory's loads are the workers' work orders, every
\* work order and report is of an admitted query, nobody is poisoned with work
\* left, and the foreman does not block in its receive on ready work.
THEOREM WorkAccountedFor ==
    Spec => [](LoadsExact /\ MessagesOfAdmitted /\ NothingAbandoned /\ NoStall)
<1> QED BY InitFInv, StepFInv, FInvMeans, PTL DEF Spec

\* All of this, and no query is dropped, when a request names at most one
\* query, as every request of the command line does.
THEOREM SchedulerExactHolds ==
  ASSUME SingleRequests
  PROVE  Spec => []SchedulerExact
<1>1. Init => NInv BY InitNInv
<1>2. NInv => SchedulerExact
  <2>1. NInv => FInv /\ NoQueryLost /\ TypeOK BY DEF NInv, FInv, IInv
  <2> QED BY <2>1, FInvMeans DEF SchedulerExact
<1> QED BY <1>1, <1>2, StepNInv, PTL DEF Spec

\* The completion message is sent once per request, and the main thread that
\* waits for it finds everything executed: no answer is taken for another's.
THEOREM CompletionHolds ==
  ASSUME SingleRequests, Patient
  PROVE  Spec => []CompletionMeansExecuted
<1>1. Init => NInv BY InitNInv
<1>2. NInv => CompletionMeansExecuted
  <2> SUFFICES ASSUME NInv, signals > 0
               PROVE  signals = 1 /\ awaiting /\ Asked(Script) \subseteq Asked(script) \cup pe.removed
    BY DEF CompletionMeansExecuted
  <2>1. Conversation /\ NoQueryLost BY DEF NInv, FInv
  <2>2. signals \in {0, 1} BY <2>1 DEF Conversation
  <2>3. signals = 1 BY <2>2
  <2>4. awaiting /\ mail = <<>> /\ ~hasQueries(pe) BY <2>1, <2>3 DEF Conversation
  <2>5. InMail = {} BY <2>4, InSeqEmpty DEF InMail
  <2>6. pe.admitted = {} /\ InSeq(pe.waiting) = {} BY <2>4, InSeqEmpty DEF hasQueries
  <2>7. Asked(Script) \subseteq Asked(script) \cup pe.removed BY <2>1, <2>5, <2>6 DEF NoQueryLost
  <2> QED BY <2>3, <2>4, <2>7
<1> QED BY <1>1, <1>2, StepNInv, PTL DEF Spec

=============================================================================
