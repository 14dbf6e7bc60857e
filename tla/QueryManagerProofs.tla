-------------------------- MODULE QueryManagerProofs --------------------------
(***************************************************************************)
(* Proofs about QueryManager for every number of operators and workers and *)
(* every well-formed plan, redundant links and any index order included.   *)
(*                                                                         *)
(* The handlers are compositions of a few functions on the manager's       *)
(* memory; a lemma for each says that it keeps Sound, the part of the      *)
(* inductive invariant that speaks of the memory.                          *)
(***************************************************************************)
EXTENDS QueryManager, SequenceTheorems, FiniteSetTheorems, TLAPS

\* Work exists only for operators whose blocking dependencies have finished.
Ordered(m) ==
    \A o \in Ops : (m.normal[o] # 0 \/ m.queued[o] # 0 \/ m.rebuild[o] # 0)
                   => Blocking(o) \subseteq m.finished

\* Operators below c whose blocking dependencies have finished know about it.
Told(m, c) == \A o \in Ops : o < c /\ Blocking(o) \subseteq m.finished => o \in m.informed

Sound(m, c) == m \in QMType /\ Ordered(m) /\ Told(m, c)

\* The work orders at the workers, and the completions on the bus, are of
\* operators whose blocking dependencies have finished.
OutstandingOrdered ==
    \A w \in Workers :
      /\ slot[w] # Idle => Blocking(slot[w].op) \subseteq qm.finished
      /\ \A i \in DOMAIN chan[w] : Blocking(chan[w][i].op) \subseteq qm.finished

IInv == TypeOK /\ Sound(qm, cursor) /\ OutstandingOrdered

-----------------------------------------------------------------------------
LEMMA PlanFacts ==
  ASSUME WellFormed(plan)
  PROVE  /\ plan.stored \in [Ops -> Nat] /\ plan.rounds \in [Ops -> Nat]
         /\ \A o \in Ops : /\ Dependents(o) \subseteq Ops
                           /\ Blocking(o) \subseteq Dependencies(o)
                           /\ \A d \in Ops : o \in Blocking(d) => d \in Dependents(o)
BY DEF WellFormed, PlanType, Dependents, Blocking, Dependencies

LEMMA PlanKept ==
  ASSUME WellFormed(plan), UNCHANGED plan
  PROVE  WellFormed(plan)'
BY DEF WellFormed, PlanType

LEMMA SoundKept ==
  ASSUME NEW m, NEW c, Sound(m, c), UNCHANGED plan, qm' = m, cursor' = c
  PROVE  Sound(qm, cursor)'
BY DEF Sound, Ordered, Told, Blocking

\* The concatenation of two sequences of messages of operator o is one too.
LEMMA MessagesOf ==
  ASSUME NEW o, NEW s \in Seq(Message), NEW t \in Seq(Message),
         \A i \in DOMAIN s : s[i].op = o, \A i \in DOMAIN t : t[i].op = o
  PROVE  s \o t \in Seq(Message) /\ \A i \in DOMAIN (s \o t) : (s \o t)[i].op = o
<1>1. s \o t \in Seq(Message) OBVIOUS
<1>2. ASSUME NEW i \in DOMAIN (s \o t) PROVE (s \o t)[i].op = o
  <2>1. CASE i <= Len(s)
    <3>1. i \in DOMAIN s /\ (s \o t)[i] = s[i] BY <1>2, <2>1
    <3> QED BY <3>1
  <2>2. CASE i > Len(s)
    <3>1. i - Len(s) \in DOMAIN t /\ (s \o t)[i] = t[i - Len(s)] BY <1>2, <2>2
    <3> QED BY <3>1
  <2>3. i \in Int /\ Len(s) \in Int BY <1>2
  <2> QED BY <2>1, <2>2, <2>3
<1> QED BY <1>1, <1>2

\* getAllWorkOrders() only turns available input into normal work orders.
LEMMA GetAllSound ==
  ASSUME NEW m \in QMType, NEW o \in Ops
  PROVE  LET g == getAllWorkOrders(m, o)
         IN  /\ g \in QMType
             /\ g.finished = m.finished /\ g.informed = m.informed
             /\ g.queued = m.queued /\ g.rebuild = m.rebuild
             /\ g.doneGen = m.doneGen
             /\ \A p \in Ops : p # o => g.normal[p] = m.normal[p]
<1> DEFINE g == getAllWorkOrders(m, o)
<1>1. CASE o \in plan.checks /\ o \notin m.informed
  BY <1>1 DEF getAllWorkOrders
<1>2. CASE ~(o \in plan.checks /\ o \notin m.informed)
  <2> DEFINE n == [m.normal EXCEPT ![o] = @ + m.avail[o]]
             a == [m.avail EXCEPT ![o] = 0]
  <2>1. m.normal \in [Ops -> Nat] /\ m.avail \in [Ops -> Nat]
    BY DEF QMType
  <2>2. n \in [Ops -> Nat] /\ a \in [Ops -> Nat]
    BY <2>1
  <2>3. g = [m EXCEPT !.normal = n, !.avail = a]
    BY <1>2, <2>1 DEF getAllWorkOrders, QMType
  <2>4. \A p \in Ops : p # o => n[p] = m.normal[p]
    BY <2>1
  <2> HIDE DEF n, a, g
  <2>5. g \in QMType
    BY <2>2, <2>3 DEF QMType
  <2>6. /\ g.finished = m.finished /\ g.informed = m.informed
        /\ g.queued = m.queued /\ g.rebuild = m.rebuild
        /\ g.doneGen = m.doneGen /\ g.normal = n
    BY <2>3 DEF QMType
  <2> QED BY <2>4, <2>5, <2>6 DEF g
<1> QED BY <1>1, <1>2

\* fetchNormalWorkOrders() adds work orders only for an unblocked operator.
LEMMA FetchSound ==
  ASSUME NEW m, NEW c \in Int, Sound(m, c), NEW o \in Ops
  PROVE  LET f == fetchNormalWorkOrders(m, o)
         IN  Sound(f, c) /\ f.finished = m.finished
<1> DEFINE g == getAllWorkOrders(m, o)
           f == fetchNormalWorkOrders(m, o)
<1>1. m \in QMType BY DEF Sound
<1>2. CASE o \in m.doneGen \/ ~checkAllBlockingDependenciesMet(m, o)
  BY <1>2 DEF fetchNormalWorkOrders
<1>3. CASE ~(o \in m.doneGen \/ ~checkAllBlockingDependenciesMet(m, o))
  <2>1. /\ g \in QMType
        /\ g.finished = m.finished /\ g.informed = m.informed
        /\ g.queued = m.queued /\ g.rebuild = m.rebuild
        /\ \A p \in Ops : p # o => g.normal[p] = m.normal[p]
    BY <1>1, GetAllSound
  <2>2. f = [g EXCEPT !.doneGen = IF getAllWorkOrdersDone(m, o) THEN @ \cup {o} ELSE @]
    BY <1>3 DEF fetchNormalWorkOrders
  <2> HIDE DEF g
  <2>3. /\ f \in QMType
        /\ f.finished = m.finished /\ f.informed = m.informed
        /\ f.queued = m.queued /\ f.rebuild = m.rebuild /\ f.normal = g.normal
    BY <2>1, <2>2 DEF QMType
  <2>4. Blocking(o) \subseteq m.finished
    BY <1>3 DEF checkAllBlockingDependenciesMet
  <2> HIDE DEF f
  <2>5. Ordered(f)
    BY <2>1, <2>3, <2>4 DEF Sound, Ordered
  <2>6. Told(f, c)
    BY <2>3 DEF Sound, Told
  <2> QED BY <2>3, <2>5, <2>6 DEF Sound, f
<1> QED BY <1>2, <1>3

\* markOperatorFinished() tells exactly the dependents it unblocks.
LEMMA MarkSound ==
  ASSUME WellFormed(plan), NEW m, NEW c \in Int, Sound(m, c), NEW o \in Ops
  PROVE  LET f == markOperatorFinished(m, o)
         IN  Sound(f, c) /\ m.finished \subseteq f.finished
<1> DEFINE fin == m.finished \cup {o}
           df  == [d \in Ops |-> IF d \in Dependents(o) /\ o \in plan.output
                                 THEN m.doneFeeding[d] \cup {o} ELSE m.doneFeeding[d]]
           inf == m.informed \cup {d \in Dependents(o) : Blocking(d) \subseteq fin}
           f   == markOperatorFinished(m, o)
<1>1. m \in QMType /\ Ordered(m) /\ Told(m, c) BY DEF Sound
<1>2. /\ m.finished \in SUBSET Ops /\ m.informed \in SUBSET Ops
      /\ m.doneFeeding \in [Ops -> SUBSET Ops] /\ m.numFinished \in Nat
  BY <1>1 DEF QMType
<1>3. /\ fin \in SUBSET Ops /\ df \in [Ops -> SUBSET Ops] /\ inf \in SUBSET Ops
      /\ m.numFinished + 1 \in Nat
  BY <1>2, PlanFacts
<1>4. f = [m EXCEPT !.finished = fin, !.numFinished = @ + 1,
                    !.doneFeeding = df, !.informed = inf]
  BY <1>1 DEF markOperatorFinished, checkAllBlockingDependenciesMet, QMType
<1>5. \A p \in Ops : p < c /\ Blocking(p) \subseteq fin => p \in inf
  BY <1>1, <1>2, PlanFacts DEF Told
<1>6. m.finished \subseteq fin OBVIOUS
<1> HIDE DEF fin, df, inf, f
<1>7. f \in QMType
  BY <1>1, <1>3, <1>4 DEF QMType
<1>8. /\ f.finished = fin /\ f.informed = inf
      /\ f.normal = m.normal /\ f.queued = m.queued /\ f.rebuild = m.rebuild
  BY <1>1, <1>4 DEF QMType
<1>9. Ordered(f)
  BY <1>1, <1>6, <1>8 DEF Ordered
<1>10. Told(f, c)
  BY <1>5, <1>8 DEF Told
<1> QED BY <1>6, <1>7, <1>8, <1>9, <1>10 DEF Sound, f

\* initiateRebuild() adds rebuild work orders of an unblocked operator only.
LEMMA InitiateSound ==
  ASSUME NEW m, NEW c \in Int, Sound(m, c), NEW o \in Ops,
         partial \in [Ops -> Nat], Blocking(o) \subseteq m.finished
  PROVE  LET f == initiateRebuild(m, o)
         IN  Sound(f, c) /\ f.finished = m.finished
<1> DEFINE r == [m.rebuild EXCEPT ![o] = @ + partial[o]]
           n == [m.numRebuild EXCEPT ![o] = m.rebuild[o] + partial[o]]
           f == initiateRebuild(m, o)
<1>1. m \in QMType /\ Ordered(m) /\ Told(m, c) BY DEF Sound
<1>2. m.rebuild \in [Ops -> Nat] /\ m.numRebuild \in [Ops -> Int] /\ m.rebuildInit \in SUBSET Ops
  BY <1>1 DEF QMType
<1>3. /\ r \in [Ops -> Nat] /\ n \in [Ops -> Int]
      /\ m.rebuildInit \cup {o} \in SUBSET Ops
      /\ \A p \in Ops : p # o => r[p] = m.rebuild[p]
  BY <1>2
<1>4. f = [m EXCEPT !.rebuild = r, !.numRebuild = n, !.rebuildInit = @ \cup {o}]
  BY <1>1 DEF initiateRebuild, QMType
<1> HIDE DEF r, n, f
<1>5. f \in QMType
  BY <1>1, <1>3, <1>4 DEF QMType
<1>6. /\ f.finished = m.finished /\ f.informed = m.informed
      /\ f.normal = m.normal /\ f.queued = m.queued /\ f.rebuild = r
  BY <1>1, <1>4 DEF QMType
<1>7. Ordered(f)
  BY <1>1, <1>3, <1>6 DEF Ordered
<1>8. Told(f, c)
  BY <1>1, <1>6 DEF Told
<1> QED BY <1>5, <1>6, <1>7, <1>8 DEF Sound, f

LEMMA FinishSound ==
  ASSUME WellFormed(plan), NEW m, NEW c \in Int, Sound(m, c), NEW o \in Ops,
         partial \in [Ops -> Nat]
  PROVE  LET f == finishIfOver(m, o)
         IN  Sound(f, c) /\ m.finished \subseteq f.finished
<1> DEFINE r == initiateRebuild(m, o)
           f == finishIfOver(m, o)
<1>1. CASE f = m
  BY <1>1
<1>2. CASE f = markOperatorFinished(m, o)
  BY <1>2, MarkSound
<1>3. CASE checkNormalExecutionOver(m, o) /\ f \in {r, markOperatorFinished(r, o)}
  <2>1. Blocking(o) \subseteq m.finished
    BY <1>3, PlanFacts DEF checkNormalExecutionOver, checkAllDependenciesMet
  <2>2. Sound(r, c) /\ r.finished = m.finished
    BY <2>1, InitiateSound
  <2> HIDE DEF r
  <2> QED BY <1>3, <2>2, MarkSound
<1> HIDE DEF r
<1> QED BY <1>1, <1>2, <1>3 DEF finishIfOver, r

LEMMA ProcessSound ==
  ASSUME WellFormed(plan), NEW m, NEW c \in Int, Sound(m, c), NEW o \in Ops,
         partial \in [Ops -> Nat]
  PROVE  LET f == processOperator(m, o)
         IN  Sound(f, c) /\ m.finished \subseteq f.finished
<1> DEFINE f == fetchNormalWorkOrders(m, o)
<1>1. Sound(f, c) /\ f.finished = m.finished
  BY FetchSound
<1>2. Sound(finishIfOver(f, o), c) /\ f.finished \subseteq finishIfOver(f, o).finished
  <2> HIDE DEF f
  <2> QED BY <1>1, FinishSound
<1>3. processOperator(m, o) \in {f, finishIfOver(f, o)}
  BY DEF processOperator
<1> QED BY <1>1, <1>2, <1>3

-----------------------------------------------------------------------------
\* A step that keeps the memory sound, only adds to the finished operators
\* and leaves the workers and the bus alone keeps what is outstanding ordered.
LEMMA OutstandingKept ==
  ASSUME OutstandingOrdered, qm.finished \subseteq qm'.finished,
         UNCHANGED plan,
         \A w \in Workers : slot'[w] = slot[w],
         \A w \in Workers : /\ Len(chan'[w]) \in Nat
                             /\ \A i \in DOMAIN chan'[w] :
                                  \E j \in DOMAIN chan[w] : chan'[w][i] = chan[w][j]
  PROVE  OutstandingOrdered'
BY DEF OutstandingOrdered, Blocking

LEMMA DrainedType ==
  ASSUME NEW m, NEW m2, partial \in [Ops -> Nat]
  PROVE  drained(m, m2) \in [Ops -> Nat]
BY DEF drained

LEMMA PushType ==
  ASSUME NEW s \in Seq(SUBSET Ops), NEW frame \in SUBSET Ops
  PROVE  Push(s, frame) \in Seq(SUBSET Ops)
BY DEF Push

LEMMA CallersType ==
  ASSUME stack \in Seq(SUBSET Ops), stack # <<>>
  PROVE  Callers \in Seq(SUBSET Ops) /\ stack[Len(stack)] \in SUBSET Ops
BY DEF Callers

\* The message a handler takes off the bus, and the types of what remains.
LEMMA ReceiveFacts ==
  ASSUME TypeOK, NEW w \in Workers, NEW type, Receives(w, type)
  PROVE  /\ Head(chan[w]) \in Message /\ Head(chan[w]).op \in Ops
         /\ chan' \in [Workers -> Seq(Message)]
         /\ \A v \in Workers : /\ Len(chan'[v]) \in Nat
                                /\ \A i \in DOMAIN chan'[v] :
                                     \E j \in DOMAIN chan[v] : chan'[v][i] = chan[v][j]
         /\ UNCHANGED <<plan, cursor, slot>>
<1>1. chan \in [Workers -> Seq(Message)] /\ chan[w] \in Seq(Message) /\ chan[w] # <<>>
  BY DEF TypeOK, Receives
<1>2. Head(chan[w]) \in Message /\ Tail(chan[w]) \in Seq(Message)
  BY <1>1
<1>3. Head(chan[w]).op \in Ops
  BY <1>2 DEF Message
<1>4. chan' = [chan EXCEPT ![w] = Tail(@)] /\ UNCHANGED <<plan, cursor, slot>>
  BY DEF Receives
<1>5. \A i \in DOMAIN Tail(chan[w]) : i + 1 \in DOMAIN chan[w]
                                     /\ Tail(chan[w])[i] = chan[w][i + 1]
  BY <1>1
<1>6. \A v \in Workers : \A i \in DOMAIN chan'[v] :
         \E j \in DOMAIN chan[v] : chan'[v][i] = chan[v][j]
  <2> SUFFICES ASSUME NEW v \in Workers, NEW i \in DOMAIN chan'[v]
               PROVE  \E j \in DOMAIN chan[v] : chan'[v][i] = chan[v][j]
    OBVIOUS
  <2>1. CASE v = w
    BY <2>1, <1>1, <1>4, <1>5
  <2>2. CASE v # w
    BY <2>2, <1>1, <1>4
  <2> QED BY <2>1, <2>2
<1>7. chan' \in [Workers -> Seq(Message)]
  BY <1>1, <1>2, <1>4
<1> QED BY <1>2, <1>3, <1>4, <1>6, <1>7

\* Feeding a block to the consumers and fetching from them keeps Sound.
LEMMA PipelineSound ==
  ASSUME IInv, NEW w \in Workers, processDataPipelineMessage(w)
  PROVE  Sound(qm', cursor) /\ qm'.finished = qm.finished
<1> DEFINE o == Head(chan[w]).op
           av == [c \in Ops |-> IF c \in Consumers(o) THEN qm.avail[c] + 1 ELSE qm.avail[c]]
           fed == [qm EXCEPT !.avail = av]
           one(c) == fetchNormalWorkOrders(fed, c)
           nn == [c \in Ops |-> IF c \in Consumers(o) THEN one(c).normal[c] ELSE fed.normal[c]]
           na == [c \in Ops |-> IF c \in Consumers(o) THEN one(c).avail[c] ELSE fed.avail[c]]
           nd == fed.doneGen \cup {c \in Consumers(o) : c \in one(c).doneGen}
<1>1. o \in Ops
  BY ReceiveFacts DEF processDataPipelineMessage, IInv
<1>2. qm \in QMType /\ Ordered(qm) /\ Told(qm, cursor) /\ cursor \in Int
  BY NAssumption DEF IInv, Sound, TypeOK
<1>3. qm' = [fed EXCEPT !.normal = nn, !.avail = na, !.doneGen = nd]
  BY DEF processDataPipelineMessage
<1>4. av \in [Ops -> Nat]
  BY <1>2 DEF QMType
<1> HIDE DEF av
<1>5. /\ fed \in QMType /\ fed.finished = qm.finished /\ fed.informed = qm.informed
      /\ fed.normal = qm.normal /\ fed.queued = qm.queued /\ fed.rebuild = qm.rebuild
  BY <1>2, <1>4 DEF QMType
<1> HIDE DEF fed
<1>6. Sound(fed, cursor)
  BY <1>2, <1>5 DEF Sound, Ordered, Told
<1>7. \A c \in Ops : Sound(one(c), cursor) /\ one(c).finished = fed.finished
  BY <1>2, <1>6, FetchSound
<1> HIDE DEF one
<1>8. /\ fed.normal \in [Ops -> Nat] /\ fed.avail \in [Ops -> Nat] /\ fed.doneGen \in SUBSET Ops
      /\ \A c \in Ops : one(c).normal[c] \in Nat /\ one(c).avail[c] \in Nat
  BY <1>5, <1>7 DEF QMType, Sound
<1>9. nn \in [Ops -> Nat] /\ na \in [Ops -> Nat] /\ nd \in SUBSET Ops
  BY <1>8 DEF Consumers
<1>10. \A c \in Ops : nn[c] # 0 => Blocking(c) \subseteq qm.finished
  BY <1>2, <1>5, <1>7, <1>8 DEF Ordered, Sound
<1> HIDE DEF nn, na, nd
<1>11. qm' \in QMType
  BY <1>3, <1>5, <1>9 DEF QMType
<1>12. /\ qm'.finished = qm.finished /\ qm'.informed = qm.informed
       /\ qm'.normal = nn /\ qm'.queued = qm.queued /\ qm'.rebuild = qm.rebuild
  BY <1>3, <1>5 DEF QMType
<1>13. Ordered(qm')
  BY <1>2, <1>10, <1>12 DEF Ordered
<1>14. Told(qm', cursor)
  BY <1>2, <1>12 DEF Told
<1> QED BY <1>11, <1>12, <1>13, <1>14 DEF Sound

\* Taking note of a completion: a counter goes down, nothing else changes.
LEMMA CompletionSound ==
  ASSUME NEW m, NEW c \in Int, Sound(m, c), NEW o \in Ops,
         Blocking(o) \subseteq m.finished
  PROVE  LET q == [m EXCEPT !.queued[o] = @ - 1]
             r == [m EXCEPT !.numRebuild[o] = @ - 1]
         IN  /\ Sound(q, c) /\ q.finished = m.finished
             /\ Sound(r, c) /\ r.finished = m.finished
<1> DEFINE nq == [m.queued EXCEPT ![o] = @ - 1]
           nr == [m.numRebuild EXCEPT ![o] = @ - 1]
           q == [m EXCEPT !.queued = nq]
           r == [m EXCEPT !.numRebuild = nr]
<1>1. m \in QMType /\ Ordered(m) /\ Told(m, c) BY DEF Sound
<1>2. m.queued \in [Ops -> Int] /\ m.numRebuild \in [Ops -> Int]
  BY <1>1 DEF QMType
<1>3. /\ nq \in [Ops -> Int] /\ nr \in [Ops -> Int]
      /\ \A p \in Ops : p # o => nq[p] = m.queued[p]
  BY <1>2
<1> HIDE DEF nq, nr
<1>4. q \in QMType /\ r \in QMType
  BY <1>1, <1>3 DEF QMType
<1>5. /\ q.finished = m.finished /\ q.informed = m.informed
      /\ q.normal = m.normal /\ q.queued = nq /\ q.rebuild = m.rebuild
      /\ r.finished = m.finished /\ r.informed = m.informed
      /\ r.normal = m.normal /\ r.queued = m.queued /\ r.rebuild = m.rebuild
  BY <1>1 DEF QMType
<1> HIDE DEF q, r
<1>6. Ordered(q) /\ Ordered(r)
  BY <1>1, <1>3, <1>5 DEF Ordered
<1>7. Told(q, c) /\ Told(r, c)
  BY <1>1, <1>5 DEF Told
<1>8. Sound(q, c) /\ Sound(r, c)
  BY <1>4, <1>6, <1>7 DEF Sound
<1> QED BY <1>5, <1>8 DEF q, r, nq, nr

-----------------------------------------------------------------------------
LEMMA InitInv == Init => IInv
<1> SUFFICES ASSUME Init PROVE IInv OBVIOUS
<1>1. WellFormed(plan) /\ plan.stored \in [Ops -> Nat] /\ plan.rounds \in [Ops -> Nat]
  BY PlansAssumption, PlanFacts DEF Init
<1>2. Zero \in [Ops -> Nat] /\ Zero \in [Ops -> Int] /\ \A o \in Ops : Zero[o] = 0
  BY DEF Zero
<1>3. qm \in QMType
  BY <1>1, <1>2 DEF Init, QMType
<1>4. TypeOK
  BY <1>1, <1>2, <1>3, NAssumption DEF Init, TypeOK
<1>5. Sound(qm, cursor)
  BY <1>2, <1>3, NAssumption DEF Init, Sound, Ordered, Told, Ops
<1>6. OutstandingOrdered
  BY DEF Init, OutstandingOrdered
<1> QED BY <1>4, <1>5, <1>6 DEF IInv

LEMMA StepInv == IInv /\ [Next]_vars => IInv'
<1> SUFFICES ASSUME IInv, [Next]_vars PROVE IInv' OBVIOUS
<1> USE DEF IInv
<1>t. /\ WellFormed(plan) /\ cursor \in 0 .. N /\ cursor \in Int
      /\ stack \in Seq(SUBSET Ops) /\ qm \in QMType
      /\ partial \in [Ops -> Nat] /\ slot \in [Workers -> WorkOrder \cup {Idle}]
      /\ chan \in [Workers -> Seq(Message)] /\ Sound(qm, cursor)
  BY NAssumption DEF TypeOK
<1>d. \A o \in Ops : Dependents(o) \in SUBSET Ops
  BY DEF Dependents
\* A step of the foreman thread that leaves the bus alone or takes a message.
<1>f. ASSUME Sound(qm', cursor'), qm.finished \subseteq qm'.finished,
             cursor' \in 0 .. N, stack' \in Seq(SUBSET Ops),
             partial' \in [Ops -> Nat], chan' \in [Workers -> Seq(Message)],
             UNCHANGED <<plan, slot>>,
             \A v \in Workers : /\ Len(chan'[v]) \in Nat
                                /\ \A i \in DOMAIN chan'[v] :
                                     \E j \in DOMAIN chan[v] : chan'[v][i] = chan[v][j]
      PROVE  IInv'
  <2>1. OutstandingOrdered'
    BY <1>f, OutstandingKept
  <2>2. WellFormed(plan)' /\ (slot \in [Workers -> WorkOrder \cup {Idle}])'
    BY <1>f, <1>t DEF WellFormed, PlanType
  <2>3. Sound(qm, cursor)' /\ qm' \in QMType
    BY <1>f DEF Sound, Ordered, Told, Blocking
  <2> QED BY <1>f, <2>1, <2>2, <2>3 DEF TypeOK
<1>s. UNCHANGED chan => \A v \in Workers :
         /\ Len(chan'[v]) \in Nat
         /\ \A i \in DOMAIN chan'[v] : \E j \in DOMAIN chan[v] : chan'[v][i] = chan[v][j]
  BY <1>t
<1>1. CASE ConstructOperator
  <2> DEFINE m == [qm EXCEPT !.informed = @ \cup {cursor}]
  <2>1. /\ cursor \in Ops /\ cursor + 1 \in Int /\ cursor' = cursor + 1 /\ cursor' \in 0 .. N
        /\ UNCHANGED <<plan, stack, slot, chan>> /\ partial' = drained(qm, qm')
    BY <1>1, <1>t, NAssumption DEF ConstructOperator, Ops
  <2>2. Sound(qm', cursor + 1) /\ qm.finished \subseteq qm'.finished
    <3>1. CASE checkAllBlockingDependenciesMet(qm, cursor)
      <4>1. /\ m \in QMType /\ m.finished = qm.finished
            /\ m.informed = qm.informed \cup {cursor}
            /\ m.normal = qm.normal /\ m.queued = qm.queued /\ m.rebuild = qm.rebuild
        BY <1>t, <2>1 DEF QMType
      <4>2. Sound(m, cursor + 1)
        <5> HIDE DEF m
        <5>1. Ordered(m) BY <1>t, <4>1 DEF Sound, Ordered
        <5>2. Told(m, cursor + 1) BY <1>t, <2>1, <4>1 DEF Sound, Told, Ops
        <5> QED BY <4>1, <5>1, <5>2 DEF Sound
      <4>3. qm' = processOperator(m, cursor)
        BY <1>1, <3>1 DEF ConstructOperator
      <4> HIDE DEF m
      <4> QED BY <1>t, <2>1, <4>1, <4>2, <4>3, ProcessSound
    <3>2. CASE ~checkAllBlockingDependenciesMet(qm, cursor)
      <4>1. qm' = qm BY <1>1, <3>2 DEF ConstructOperator
      <4>2. Told(qm, cursor + 1)
        BY <1>t, <2>1, <3>2 DEF Sound, Told, checkAllBlockingDependenciesMet, Ops
      <4> QED BY <1>t, <4>1, <4>2 DEF Sound
    <3> QED BY <3>1, <3>2
  <2> QED BY <1>t, <1>s, <1>f, <2>1, <2>2, DrainedType
<1>2. CASE VisitDependent
  <2>1. PICK d \in stack[Len(stack)] :
          LET rest == Push(Callers, stack[Len(stack)] \ {d})
          IN  IF checkAllBlockingDependenciesMet(qm, d)
              THEN /\ qm' = processOperator(qm, d)
                   /\ stack' = IF reachesDependents(qm, d)
                               THEN Push(rest, Dependents(d)) ELSE rest
              ELSE /\ qm' = qm
                   /\ stack' = rest
    BY <1>2 DEF VisitDependent
  <2>2. stack # <<>> /\ UNCHANGED <<plan, cursor, slot, chan>> /\ partial' = drained(qm, qm')
    BY <1>2 DEF VisitDependent, HandlerDone
  <2>3. d \in Ops /\ Callers \in Seq(SUBSET Ops) /\ stack[Len(stack)] \ {d} \in SUBSET Ops
    BY <1>t, <2>2, CallersType
  <2>4. Push(Callers, stack[Len(stack)] \ {d}) \in Seq(SUBSET Ops)
    BY <2>3, PushType
  <2>5. stack' \in Seq(SUBSET Ops)
    BY <1>d, <2>1, <2>3, <2>4, PushType
  <2>6. Sound(qm', cursor) /\ qm.finished \subseteq qm'.finished
    BY <1>t, <2>1, <2>3, ProcessSound
  <2> QED BY <1>t, <1>s, <1>f, <2>2, <2>5, <2>6, DrainedType
<1>3. ASSUME NEW w \in Workers, processDataPipelineMessage(w) PROVE IInv'
  <2>1. Sound(qm', cursor) /\ qm'.finished = qm.finished
    BY <1>3, PipelineSound
  <2>2. UNCHANGED <<stack, partial>> BY <1>3 DEF processDataPipelineMessage
  <2> QED BY <1>t, <1>f, <1>3, <2>1, <2>2, ReceiveFacts DEF processDataPipelineMessage
<1>4. ASSUME NEW w \in Workers, processFeedbackMessage(w) PROVE IInv'
  <2> DEFINE o == Head(chan[w]).op
  <2>1. o \in Ops BY <1>4, ReceiveFacts DEF processFeedbackMessage
  <2>2. Sound(qm', cursor) /\ qm'.finished = qm.finished
    <3>1. CASE qm' = qm BY <1>t, <3>1
    <3>2. CASE qm' # qm
      <4> DEFINE r == [qm.rounds EXCEPT ![o] = @ - 1]
                 a == [qm.avail EXCEPT ![o] = @ + 1]
      <4>1. qm.rounds[o] > 0 /\ qm' = [qm EXCEPT !.rounds = r, !.avail = a]
        BY <1>4, <1>t, <3>2 DEF processFeedbackMessage, QMType
      <4>2. r \in [Ops -> Nat] /\ a \in [Ops -> Nat]
        <5>1. qm.rounds \in [Ops -> Nat] /\ qm.avail \in [Ops -> Nat]
          BY <1>t DEF QMType
        <5> HIDE DEF o
        <5> QED BY <2>1, <4>1, <5>1
      <4> HIDE DEF r, a
      <4>3. qm' \in QMType BY <1>t, <4>1, <4>2 DEF QMType
      <4>4. /\ qm'.finished = qm.finished /\ qm'.informed = qm.informed
            /\ qm'.normal = qm.normal /\ qm'.queued = qm.queued /\ qm'.rebuild = qm.rebuild
        BY <1>t, <4>1 DEF QMType
      <4> QED BY <1>t, <4>3, <4>4 DEF Sound, Ordered, Told
    <3> QED BY <3>1, <3>2
  <2>3. UNCHANGED <<stack, partial>> BY <1>4 DEF processFeedbackMessage
  <2> QED BY <1>t, <1>f, <1>4, <2>2, <2>3, ReceiveFacts DEF processFeedbackMessage
<1>5. ASSUME NEW w \in Workers, processWorkOrderCompleteMessage(w) PROVE IInv'
  <2> DEFINE o == Head(chan[w]).op
             dec == [qm EXCEPT !.queued[o] = @ - 1]
             f == fetchNormalWorkOrders(dec, o)
  <2>1. o \in Ops /\ chan[w] # <<>> /\ chan[w] \in Seq(Message)
    BY <1>5, <1>t, ReceiveFacts DEF processWorkOrderCompleteMessage, Receives
  <2>2. Blocking(o) \subseteq qm.finished
    <3>1. 1 \in DOMAIN chan[w] /\ Head(chan[w]) = chan[w][1] BY <2>1
    <3> QED BY <3>1 DEF OutstandingOrdered
  <2>3. Sound(dec, cursor) /\ dec.finished = qm.finished
    BY <1>t, <2>1, <2>2, CompletionSound
  <2> HIDE DEF dec
  <2>4. Sound(f, cursor) /\ f.finished = dec.finished
    BY <1>t, <2>1, <2>3, FetchSound
  <2>5. qm' = finishIfOver(f, o) /\ stack' = Push(stack, Dependents(o))
        /\ partial' = drained(qm, qm')
    BY <1>5 DEF processWorkOrderCompleteMessage, dec
  <2> HIDE DEF f
  <2>6. Sound(qm', cursor) /\ qm.finished \subseteq qm'.finished
    BY <1>t, <2>1, <2>3, <2>4, <2>5, FinishSound
  <2>7. stack' \in Seq(SUBSET Ops) BY <1>t, <1>d, <2>1, <2>5, PushType
  <2>8. partial' \in [Ops -> Nat] BY <1>t, <2>5, DrainedType
  <2>9. Receives(w, "complete") BY <1>5 DEF processWorkOrderCompleteMessage
  <2> QED BY <1>t, <1>f, <2>6, <2>7, <2>8, <2>9, ReceiveFacts
<1>6. ASSUME NEW w \in Workers, processRebuildWorkOrderCompleteMessage(w) PROVE IInv'
  <2> DEFINE o == Head(chan[w]).op
             dec == [qm EXCEPT !.numRebuild[o] = @ - 1]
  <2>1. o \in Ops /\ chan[w] # <<>> /\ chan[w] \in Seq(Message)
    BY <1>6, <1>t, ReceiveFacts DEF processRebuildWorkOrderCompleteMessage, Receives
  <2>2. Blocking(o) \subseteq qm.finished
    <3>1. 1 \in DOMAIN chan[w] /\ Head(chan[w]) = chan[w][1] BY <2>1
    <3> QED BY <3>1 DEF OutstandingOrdered
  <2>3. Sound(dec, cursor) /\ dec.finished = qm.finished
    BY <1>t, <2>1, <2>2, CompletionSound
  <2>4. /\ qm' \in {dec, markOperatorFinished(dec, o)}
        /\ stack' \in {stack, Push(stack, Dependents(o))} /\ UNCHANGED partial
    BY <1>6 DEF processRebuildWorkOrderCompleteMessage
  <2> HIDE DEF dec
  <2>5. Sound(qm', cursor) /\ qm.finished \subseteq qm'.finished
    BY <1>t, <2>1, <2>3, <2>4, MarkSound
  <2>6. stack' \in Seq(SUBSET Ops) BY <1>t, <1>d, <2>1, <2>4, PushType
  <2> QED BY <1>t, <1>f, <1>6, <2>4, <2>5, <2>6, ReceiveFacts
          DEF processRebuildWorkOrderCompleteMessage
<1>7. ASSUME NEW w \in Workers, Dispatch(w) PROVE IInv'
  <2>1. PICK o \in Ops :
          /\ HasWork(o)
          /\ IF qm.normal[o] > 0
             THEN /\ qm' = [qm EXCEPT !.normal[o] = @ - 1, !.queued[o] = @ + 1]
                  /\ slot' = [slot EXCEPT ![w] = [kind |-> "normal", op |-> o]]
             ELSE /\ qm' = [qm EXCEPT !.rebuild[o] = @ - 1]
                  /\ slot' = [slot EXCEPT ![w] = [kind |-> "rebuild", op |-> o]]
    BY <1>7 DEF Dispatch, getNextWorkerMessage
  <2>2. UNCHANGED <<plan, cursor, stack, partial, chan>>
    BY <1>7 DEF Dispatch
  <2>3. /\ qm.normal \in [Ops -> Nat] /\ qm.queued \in [Ops -> Int]
        /\ qm.rebuild \in [Ops -> Nat]
    BY <1>t DEF QMType
  <2>4. Blocking(o) \subseteq qm.finished
    <3>1. HasWork(o) BY <2>1
    <3>2. Ordered(qm) BY <1>t DEF Sound
    <3> QED BY <2>3, <3>1, <3>2 DEF Ordered, HasWork
  <2>5. /\ qm' \in QMType /\ Ordered(qm')
        /\ qm'.finished = qm.finished /\ qm'.informed = qm.informed
    <3>1. CASE qm.normal[o] > 0
      <4> DEFINE n == [qm.normal EXCEPT ![o] = @ - 1]
                 q == [qm.queued EXCEPT ![o] = @ + 1]
      <4>1. qm' = [qm EXCEPT !.normal = n, !.queued = q]
        BY <1>t, <2>1, <3>1 DEF QMType
      <4>2. /\ n \in [Ops -> Nat] /\ q \in [Ops -> Int]
            /\ \A p \in Ops : p # o => n[p] = qm.normal[p] /\ q[p] = qm.queued[p]
        BY <2>3, <3>1
      <4> HIDE DEF n, q
      <4>3. /\ qm' \in QMType /\ qm'.normal = n /\ qm'.queued = q /\ qm'.rebuild = qm.rebuild
            /\ qm'.finished = qm.finished /\ qm'.informed = qm.informed
        BY <1>t, <4>1, <4>2 DEF QMType
      <4>4. Ordered(qm')
        BY <1>t, <2>4, <4>2, <4>3 DEF Sound, Ordered
      <4> QED BY <4>3, <4>4
    <3>2. CASE ~(qm.normal[o] > 0)
      <4> DEFINE r == [qm.rebuild EXCEPT ![o] = @ - 1]
      <4>1. qm' = [qm EXCEPT !.rebuild = r] /\ qm.rebuild[o] > 0
        BY <1>t, <2>1, <3>2 DEF QMType, HasWork
      <4>2. r \in [Ops -> Nat] /\ \A p \in Ops : p # o => r[p] = qm.rebuild[p]
        BY <2>3, <4>1
      <4> HIDE DEF r
      <4>3. /\ qm' \in QMType /\ qm'.normal = qm.normal /\ qm'.queued = qm.queued
            /\ qm'.rebuild = r
            /\ qm'.finished = qm.finished /\ qm'.informed = qm.informed
        BY <1>t, <4>1, <4>2 DEF QMType
      <4>4. Ordered(qm')
        BY <1>t, <2>4, <4>2, <4>3 DEF Sound, Ordered
      <4> QED BY <4>3, <4>4
    <3> QED BY <3>1, <3>2
  <2>6. Sound(qm, cursor)'
    BY <1>t, <2>2, <2>5 DEF Sound, Ordered, Told, Blocking
  <2>7. /\ slot' \in [Workers -> WorkOrder \cup {Idle}]
        /\ \A v \in Workers : v # w => slot'[v] = slot[v]
        /\ slot'[w].op = o
    BY <1>t, <2>1 DEF WorkOrder
  <2>8. OutstandingOrdered'
    BY <2>2, <2>4, <2>5, <2>7 DEF OutstandingOrdered, Blocking
  <2>9. WellFormed(plan)'
    BY <1>t, <2>2, PlanKept
  <2> QED BY <1>t, <2>2, <2>5, <2>6, <2>7, <2>8, <2>9 DEF TypeOK
\* A worker turns the work order it holds into messages of the same operator.
<1>8. ASSUME NEW w \in Workers, slot[w] # Idle, NEW msgs \in Seq(Message),
             \A i \in DOMAIN msgs : msgs[i].op = slot[w].op,
             chan' = [chan EXCEPT ![w] = @ \o msgs],
             slot' = [slot EXCEPT ![w] = Idle],
             partial' \in [Ops -> Nat],
             UNCHANGED <<plan, cursor, stack, qm>>
      PROVE  IInv'
  <2>1. chan[w] \in Seq(Message) /\ chan[w] \o msgs \in Seq(Message)
    BY <1>8, <1>t
  <2>2. \A i \in DOMAIN (chan[w] \o msgs) :
          Blocking((chan[w] \o msgs)[i].op) \subseteq qm.finished
    <3> SUFFICES ASSUME NEW i \in DOMAIN (chan[w] \o msgs)
                 PROVE  Blocking((chan[w] \o msgs)[i].op) \subseteq qm.finished
      OBVIOUS
    <3>1. CASE i <= Len(chan[w])
      <4>1. i \in DOMAIN chan[w] /\ (chan[w] \o msgs)[i] = chan[w][i]
        BY <1>8, <2>1, <3>1
      <4> QED BY <4>1 DEF OutstandingOrdered
    <3>2. CASE i > Len(chan[w])
      <4>1. i - Len(chan[w]) \in DOMAIN msgs
            /\ (chan[w] \o msgs)[i] = msgs[i - Len(chan[w])]
        BY <1>8, <2>1, <3>2
      <4> QED BY <1>8, <4>1 DEF OutstandingOrdered
    <3>3. i \in Int BY <1>8, <2>1
    <3>4. Len(chan[w]) \in Int BY <2>1
    <3> QED BY <3>1, <3>2, <3>3, <3>4
  <2>3. /\ chan'[w] = chan[w] \o msgs /\ slot'[w] = Idle
        /\ \A v \in Workers : v # w => chan'[v] = chan[v] /\ slot'[v] = slot[v]
        /\ chan' \in [Workers -> Seq(Message)]
        /\ slot' \in [Workers -> WorkOrder \cup {Idle}]
    BY <1>8, <1>t, <2>1
  <2>4. OutstandingOrdered'
    <3> SUFFICES ASSUME NEW v \in Workers
                 PROVE  /\ slot'[v] # Idle => Blocking(slot'[v].op) \subseteq qm.finished
                        /\ \A i \in DOMAIN chan'[v] :
                              Blocking(chan'[v][i].op) \subseteq qm.finished
      BY <1>8 DEF OutstandingOrdered, Blocking
    <3>1. CASE v = w BY <2>2, <2>3, <3>1
    <3>2. CASE v # w BY <2>3, <3>2 DEF OutstandingOrdered
    <3> QED BY <3>1, <3>2
  <2>5. Sound(qm, cursor)' /\ WellFormed(plan)'
    BY <1>8, <1>t, PlanKept, SoundKept
  <2> QED BY <1>8, <1>t, <2>3, <2>4, <2>5 DEF TypeOK
<1>9. ASSUME NEW w \in Workers, executeWorkOrder(w) PROVE IInv'
  <2> DEFINE x == slot[w].op
  <2>1. slot[w] # Idle /\ x \in Ops
    BY <1>9, <1>t DEF executeWorkOrder, WorkOrder, Idle
  <2>2. PICK n \in 0 .. MaxStream, p \in 0 .. MaxPartial :
          /\ partial' = [partial EXCEPT ![x] = p]
          /\ chan' = [chan EXCEPT ![w] =
                @ \o (Copies(n, [type |-> "pipeline", op |-> x])
                        \o Copies(IF plan.rounds[x] > 0 THEN 1 ELSE 0,
                                  [type |-> "feedback", op |-> x])
                        \o <<[type |-> "complete", op |-> x]>>)]
    BY <1>9 DEF executeWorkOrder
  <2> DEFINE k == IF plan.rounds[x] > 0 THEN 1 ELSE 0
             a == Copies(n, [type |-> "pipeline", op |-> x])
             b == Copies(k, [type |-> "feedback", op |-> x])
             z == <<[type |-> "complete", op |-> x]>>
  <2>3. n \in Nat /\ k \in Nat /\ p \in Nat
    BY BoundsAssumption
  <2>4. /\ a \in Seq(Message) /\ \A i \in DOMAIN a : a[i].op = x
        /\ b \in Seq(Message) /\ \A i \in DOMAIN b : b[i].op = x
        /\ z \in Seq(Message) /\ \A i \in DOMAIN z : z[i].op = x
    <3> HIDE DEF k
    <3>1. [type |-> "pipeline", op |-> x] \in Message /\ [type |-> "feedback", op |-> x] \in Message
          /\ [type |-> "complete", op |-> x] \in Message
      BY <2>1 DEF Message
    <3> QED BY <2>3, <3>1 DEF Copies
  <2> HIDE DEF a, b, z
  <2>5. a \o b \o z \in Seq(Message)
        /\ \A i \in DOMAIN (a \o b \o z) : (a \o b \o z)[i].op = x
    <3>1. a \o b \in Seq(Message) /\ \A i \in DOMAIN (a \o b) : (a \o b)[i].op = x
      BY <2>4, MessagesOf
    <3> QED BY <2>4, <3>1, MessagesOf
  <2>6. chan' = [chan EXCEPT ![w] = @ \o (a \o b \o z)]
    BY <2>2 DEF a, b, z
  <2>7. partial' \in [Ops -> Nat]
    <3> HIDE DEF x
    <3> QED BY <1>t, <2>1, <2>2, <2>3
  <2>8. slot' = [slot EXCEPT ![w] = Idle] /\ UNCHANGED <<plan, cursor, stack, qm>>
    BY <1>9 DEF executeWorkOrder
  <2> QED BY <1>8, <2>1, <2>5, <2>6, <2>7, <2>8
<1>10. ASSUME NEW w \in Workers, executeRebuildWorkOrder(w) PROVE IInv'
  <2> DEFINE o == slot[w].op
             z == <<[type |-> "pipeline", op |-> o], [type |-> "rebuildComplete", op |-> o]>>
  <2>1. slot[w] # Idle /\ o \in Ops
    BY <1>10, <1>t DEF executeRebuildWorkOrder, WorkOrder, Idle
  <2>2. z \in Seq(Message) /\ \A i \in DOMAIN z : z[i].op = o
    <3>1. [type |-> "pipeline", op |-> o] \in Message
          /\ [type |-> "rebuildComplete", op |-> o] \in Message
      BY <2>1 DEF Message
    <3> QED BY <3>1
  <2>3. /\ chan' = [chan EXCEPT ![w] = @ \o z]
        /\ slot' = [slot EXCEPT ![w] = Idle] /\ UNCHANGED <<plan, cursor, stack, qm, partial>>
    BY <1>10 DEF executeRebuildWorkOrder
  <2> HIDE DEF z
  <2> QED BY <1>8, <1>t, <2>1, <2>2, <2>3
<1>11. CASE UNCHANGED vars
  <2>1. UNCHANGED <<plan, cursor, stack, qm, partial, slot, chan>>
    BY <1>11 DEF vars
  <2>2. WellFormed(plan)' /\ Sound(qm, cursor)'
    BY <1>t, <2>1, PlanKept, SoundKept
  <2>3. OutstandingOrdered'
    BY <2>1 DEF OutstandingOrdered, Blocking
  <2> QED BY <1>t, <2>1, <2>2, <2>3 DEF TypeOK
<1> QED
  BY <1>1, <1>2, <1>3, <1>4, <1>5, <1>6, <1>7, <1>9, <1>10, <1>11
     DEF Next, Foreman, Worker, Removed

-----------------------------------------------------------------------------
\* The query manager's memory, its call stack, the workers and the bus keep
\* their types through every handler of every plan.
THEOREM TypeCorrect == Spec => []TypeOK
<1>1. IInv => TypeOK BY DEF IInv
<1> QED BY InitInv, StepInv, <1>1, PTL DEF Spec

\* No work order of an operator exists anywhere before the operator's blocking
\* dependencies have finished, whatever the plan and the interleaving.
THEOREM BlockingOrderHolds == Spec => []BlockingOrder
<1>1. IInv => BlockingOrder
  <2> SUFFICES ASSUME IInv, NEW o \in Ops,
                      qm.normal[o] > 0 \/ qm.queued[o] > 0 \/ qm.rebuild[o] > 0
                        \/ \E w \in Workers : slot[w] # Idle /\ slot[w].op = o
               PROVE  Blocking(o) \subseteq qm.finished
    BY DEF BlockingOrder
  <2>1. CASE \E w \in Workers : slot[w] # Idle /\ slot[w].op = o
    BY <2>1 DEF IInv, OutstandingOrdered
  <2>2. CASE qm.normal[o] # 0 \/ qm.queued[o] # 0 \/ qm.rebuild[o] # 0
    BY <2>2 DEF IInv, Sound, Ordered
  <2>3. qm.normal[o] \in Nat /\ qm.queued[o] \in Int /\ qm.rebuild[o] \in Nat
    BY DEF IInv, TypeOK, QMType
  <2> QED BY <2>1, <2>2, <2>3
<1> QED BY InitInv, StepInv, <1>1, PTL DEF Spec

\* Once its blocking dependencies have finished, an operator the constructor
\* has passed has been informed, in whatever order the dependencies finish.
THEOREM InformedHolds == Spec => []InformedWhenUnblocked
<1>1. IInv => InformedWhenUnblocked
  BY DEF IInv, Sound, Told, InformedWhenUnblocked
<1> QED BY InitInv, StepInv, <1>1, PTL DEF Spec

-----------------------------------------------------------------------------
(***************************************************************************)
(* That what the query manager believes of an operator is so, and that no  *)
(* input is forgotten: OperatorStateExact and NothingForgotten hold in     *)
(* every state, for every number of operators and workers.                 *)
(*                                                                         *)
(* XInv is the inductive invariant for every well-formed plan: the memory  *)
(* of each operator is consistent (MemoryExact), the counters balance the  *)
(* work orders at the workers and the completions on the bus (Balanced),   *)
(* and every message is followed by the completion of its work order       *)
(* (Trailed).  CInv adds, for plans without redundant links, that the      *)
(* frames of a handler's stack are disjoint, hence no operator is counted  *)
(* twice; WInv adds, for plans whose links go upwards, that input waits    *)
(* only for a completion on the bus or for the running handler.            *)
(***************************************************************************)

\* What holds of an operator in the manager's memory m: one that is done
\* generating has no input left and finished streaming producers, a rebuild
\* starts after the last normal work order, and one that has finished has
\* nothing outstanding.
MemoryExact(m) ==
    \A o \in Ops :
      /\ o \in m.doneGen => m.avail[o] = 0 /\ m.rounds[o] = 0 /\ Streams(o) \subseteq m.finished
      /\ o \in m.rebuildInit => /\ o \in plan.dest /\ o \in m.doneGen
                                /\ m.normal[o] = 0 /\ m.queued[o] = 0
                                /\ Dependencies(o) \subseteq m.finished
      /\ o \notin m.rebuildInit => m.numRebuild[o] = 0 /\ m.rebuild[o] = 0
      /\ o \in m.finished => /\ o \in m.doneGen /\ m.normal[o] = 0 /\ m.queued[o] = 0
                             /\ m.rebuild[o] = 0 /\ m.numRebuild[o] = 0
                             /\ Dependencies(o) \subseteq m.finished
                             /\ o \in plan.dest => o \in m.rebuildInit
      /\ m.doneFeeding[o] \subseteq m.finished \cap plan.output \cap Dependencies(o)

Exact(m) == m \in QMType /\ MemoryExact(m)

\* From m to f no count of outstanding work changes, and what m records stays.
SameCounts(m, f) ==
    /\ \A p \in Ops : f.queued[p] = m.queued[p]
    /\ \A p \in Ops : f.numRebuild[p] - f.rebuild[p] = m.numRebuild[p] - m.rebuild[p]
    /\ m.rebuildInit \subseteq f.rebuildInit
    /\ m.finished \subseteq f.finished /\ m.informed \subseteq f.informed

\* A producer that was marked as done feeding has finished, so an operator that
\* is told its input is complete has finished producers only.
LEMMA DoneFeedingMeansFinished ==
  ASSUME WellFormed(plan), NEW m, Exact(m), NEW o \in Ops,
         getAllWorkOrdersDone(m, o)
  PROVE  Streams(o) \subseteq m.finished
<1>1. m.doneFeeding[o] \subseteq m.finished \cap plan.output \cap Dependencies(o)
  BY DEF Exact, MemoryExact
<1>2. CASE Streams(o) = {} BY <1>2
<1>3. CASE Streams(o) # {} /\ o \in plan.perRel
  BY <1>1, <1>3 DEF getAllWorkOrdersDone, doneFeedingInput
<1>4. CASE Streams(o) # {} /\ o \notin plan.perRel
  <2>1. PICK i \in Ops : i \in m.doneFeeding[o]
    BY <1>1, <1>4 DEF getAllWorkOrdersDone, doneFeedingInput, Dependencies
  <2>2. i \in plan.output /\ <<i, o>> \in plan.links /\ i \in m.finished
    BY <1>1, <2>1 DEF Dependencies
  <2>3. /\ {k \in plan.output : <<k, o>> \in plan.links} = Streams(o)
        /\ \A k, j \in Streams(o) : k = j
    BY <1>4 DEF WellFormed, Streams
  <2> QED BY <2>2, <2>3
<1> QED BY <1>2, <1>3, <1>4

LEMMA FetchExact ==
  ASSUME WellFormed(plan), NEW m, Exact(m), NEW o \in Ops
  PROVE  LET f == fetchNormalWorkOrders(m, o)
         IN  /\ Exact(f) /\ SameCounts(m, f)
             /\ f.finished = m.finished /\ f.numFinished = m.numFinished
             /\ f.rebuildInit = m.rebuildInit /\ f.informed = m.informed
             /\ f.numRebuild = m.numRebuild /\ f.rebuild = m.rebuild
             /\ f.rounds = m.rounds /\ f.doneFeeding = m.doneFeeding
             /\ \A p \in Ops : p # o => f.avail[p] = m.avail[p] /\ f.normal[p] = m.normal[p]
                                        /\ (p \in f.doneGen <=> p \in m.doneGen)
             /\ Blocking(o) \subseteq m.finished /\ o \in m.informed => f.avail[o] = 0
<1> DEFINE g == getAllWorkOrders(m, o)
           f == fetchNormalWorkOrders(m, o)
<1>1. m \in QMType /\ MemoryExact(m) BY DEF Exact
<1>2. CASE o \in m.doneGen \/ ~checkAllBlockingDependenciesMet(m, o)
  <2>1. f = m BY <1>2 DEF fetchNormalWorkOrders
  <2>2. Blocking(o) \subseteq m.finished => m.avail[o] = 0
    BY <1>1, <1>2 DEF checkAllBlockingDependenciesMet, MemoryExact
  <2> QED BY <1>1, <2>1, <2>2 DEF SameCounts
<1>3. CASE ~(o \in m.doneGen \/ ~checkAllBlockingDependenciesMet(m, o))
  <2> DEFINE n == IF o \in plan.checks /\ o \notin m.informed THEN m.normal
                  ELSE [m.normal EXCEPT ![o] = @ + m.avail[o]]
             a == IF o \in plan.checks /\ o \notin m.informed THEN m.avail
                  ELSE [m.avail EXCEPT ![o] = 0]
             d == IF getAllWorkOrdersDone(m, o) THEN m.doneGen \cup {o} ELSE m.doneGen
  <2>1. /\ m.normal \in [Ops -> Nat] /\ m.avail \in [Ops -> Nat] /\ m.doneGen \in SUBSET Ops
        /\ m.queued \in [Ops -> Int] /\ m.numRebuild \in [Ops -> Int]
        /\ m.rebuild \in [Ops -> Nat]
    BY <1>1 DEF QMType
  <2>2. n \in [Ops -> Nat] /\ a \in [Ops -> Nat] /\ d \in SUBSET Ops
    BY <2>1
  <2>3. f = [m EXCEPT !.normal = n, !.avail = a, !.doneGen = d]
    BY <1>1, <1>3, <2>1 DEF fetchNormalWorkOrders, getAllWorkOrders, QMType
  <2>4. \A p \in Ops : p # o => n[p] = m.normal[p] /\ a[p] = m.avail[p]
                                /\ (p \in d <=> p \in m.doneGen)
    BY <2>1
  <2>5. o \in m.informed => a[o] = 0
    BY <2>1
  <2>6. o \in d => a[o] = 0 /\ m.rounds[o] = 0 /\ Streams(o) \subseteq m.finished
    <3>1. CASE getAllWorkOrdersDone(m, o)
      BY <2>1, <3>1, DoneFeedingMeansFinished DEF getAllWorkOrdersDone
    <3> QED BY <1>3, <3>1
  <2>7. o \notin m.doneGen BY <1>3
  <2>8. m.doneGen \subseteq d OBVIOUS
  <2> HIDE DEF n, a, d, f
  <2>9. f \in QMType BY <1>1, <2>2, <2>3 DEF QMType
  <2>10. /\ f.finished = m.finished /\ f.informed = m.informed /\ f.normal = n /\ f.avail = a
         /\ f.doneGen = d /\ f.queued = m.queued /\ f.rebuild = m.rebuild
         /\ f.numRebuild = m.numRebuild /\ f.rebuildInit = m.rebuildInit
         /\ f.rounds = m.rounds /\ f.doneFeeding = m.doneFeeding
         /\ f.numFinished = m.numFinished
    BY <1>1, <2>3 DEF QMType
  <2>11. MemoryExact(f)
    <3> SUFFICES ASSUME NEW p \in Ops
                 PROVE
                   /\ p \in d => a[p] = 0 /\ m.rounds[p] = 0 /\ Streams(p) \subseteq m.finished
                   /\ p \in m.rebuildInit => /\ p \in plan.dest /\ p \in d
                                             /\ n[p] = 0 /\ m.queued[p] = 0
                                             /\ Dependencies(p) \subseteq m.finished
                   /\ p \notin m.rebuildInit => m.numRebuild[p] = 0 /\ m.rebuild[p] = 0
                   /\ p \in m.finished => /\ p \in d /\ n[p] = 0 /\ m.queued[p] = 0
                                          /\ m.rebuild[p] = 0 /\ m.numRebuild[p] = 0
                                          /\ Dependencies(p) \subseteq m.finished
                                          /\ p \in plan.dest => p \in m.rebuildInit
                   /\ m.doneFeeding[p] \subseteq m.finished \cap plan.output \cap Dependencies(p)
      BY <2>10 DEF MemoryExact
    <3>1. CASE p = o BY <1>1, <2>6, <2>7, <3>1 DEF MemoryExact
    <3>2. CASE p # o BY <1>1, <2>4, <2>8, <3>2 DEF MemoryExact
    <3> QED BY <3>1, <3>2
  <2>12. SameCounts(m, f) BY <2>10 DEF SameCounts
  <2> QED BY <2>4, <2>5, <2>9, <2>10, <2>11, <2>12 DEF Exact, f
<1> QED BY <1>2, <1>3

LEMMA MarkExact ==
  ASSUME WellFormed(plan), NEW m, Exact(m), NEW o \in Ops,
         o \in m.doneGen, m.normal[o] = 0, m.queued[o] = 0,
         m.rebuild[o] = 0, m.numRebuild[o] = 0,
         Dependencies(o) \subseteq m.finished,
         o \in plan.dest => o \in m.rebuildInit
  PROVE  LET f == markOperatorFinished(m, o)
         IN  /\ Exact(f) /\ SameCounts(m, f)
             /\ f.finished = m.finished \cup {o} /\ f.numFinished = m.numFinished + 1
             /\ f.avail = m.avail /\ f.rebuildInit = m.rebuildInit
<1> DEFINE fin == m.finished \cup {o}
           df  == [d \in Ops |-> IF d \in Dependents(o) /\ o \in plan.output
                                 THEN m.doneFeeding[d] \cup {o} ELSE m.doneFeeding[d]]
           inf == m.informed \cup {d \in Dependents(o) : Blocking(d) \subseteq fin}
           f   == markOperatorFinished(m, o)
<1>1. m \in QMType /\ MemoryExact(m) BY DEF Exact
<1>2. /\ m.finished \in SUBSET Ops /\ m.informed \in SUBSET Ops
      /\ m.doneFeeding \in [Ops -> SUBSET Ops] /\ m.numFinished \in Nat
  BY <1>1 DEF QMType
<1>3. /\ fin \in SUBSET Ops /\ df \in [Ops -> SUBSET Ops] /\ inf \in SUBSET Ops
      /\ m.numFinished + 1 \in Nat
  BY <1>2, PlanFacts
<1>4. f = [m EXCEPT !.finished = fin, !.numFinished = @ + 1,
                    !.doneFeeding = df, !.informed = inf]
  BY <1>1 DEF markOperatorFinished, checkAllBlockingDependenciesMet, QMType
<1>5. \A p \in Ops : df[p] \subseteq fin \cap plan.output \cap Dependencies(p)
  BY <1>1 DEF MemoryExact, Dependents, Dependencies
<1>6. m.finished \subseteq fin /\ m.informed \subseteq inf
      /\ \A p \in Ops : p \in fin => p = o \/ p \in m.finished
  OBVIOUS
<1> HIDE DEF df, inf, f
<1>7. f \in QMType
  <2> HIDE DEF fin
  <2> QED BY <1>1, <1>3, <1>4 DEF QMType
<1>8. /\ f.finished = fin /\ f.informed = inf /\ f.numFinished = m.numFinished + 1
      /\ f.normal = m.normal /\ f.queued = m.queued /\ f.rebuild = m.rebuild
      /\ f.numRebuild = m.numRebuild /\ f.rebuildInit = m.rebuildInit /\ f.avail = m.avail
      /\ f.rounds = m.rounds /\ f.doneGen = m.doneGen /\ f.doneFeeding = df
  BY <1>1, <1>4 DEF QMType
<1>9. MemoryExact(f)
  <2> HIDE DEF fin
  <2>1. \A p \in Ops : p \in fin =>
          /\ p \in m.doneGen /\ m.normal[p] = 0 /\ m.queued[p] = 0
          /\ m.rebuild[p] = 0 /\ m.numRebuild[p] = 0
          /\ Dependencies(p) \subseteq m.finished
          /\ p \in plan.dest => p \in m.rebuildInit
    BY <1>1, <1>6 DEF MemoryExact
  <2> QED BY <1>1, <1>5, <1>6, <1>8, <2>1 DEF MemoryExact
<1>10. SameCounts(m, f)
  BY <1>6, <1>8 DEF SameCounts
<1> QED BY <1>7, <1>8, <1>9, <1>10 DEF Exact, f

LEMMA InitiateExact ==
  ASSUME NEW m, Exact(m), NEW o \in Ops, partial \in [Ops -> Nat],
         checkNormalExecutionOver(m, o), o \in plan.dest, o \notin m.rebuildInit
  PROVE  LET f == initiateRebuild(m, o)
         IN  /\ Exact(f) /\ SameCounts(m, f)
             /\ f.finished = m.finished /\ f.numFinished = m.numFinished
             /\ f.avail = m.avail /\ f.doneGen = m.doneGen /\ f.normal = m.normal
             /\ o \in f.rebuildInit
             /\ f.numRebuild[o] = partial[o] /\ f.rebuild[o] = partial[o]
<1> DEFINE r == [m.rebuild EXCEPT ![o] = @ + partial[o]]
           n == [m.numRebuild EXCEPT ![o] = m.rebuild[o] + partial[o]]
           i == m.rebuildInit \cup {o}
           f == initiateRebuild(m, o)
<1>1. m \in QMType /\ MemoryExact(m) BY DEF Exact
<1>2. m.rebuild \in [Ops -> Nat] /\ m.numRebuild \in [Ops -> Int] /\ m.rebuildInit \in SUBSET Ops
      /\ partial[o] \in Nat
  BY <1>1 DEF QMType
<1>3. m.rebuild[o] = 0 /\ m.numRebuild[o] = 0 BY <1>1 DEF MemoryExact
<1>4. /\ r \in [Ops -> Nat] /\ n \in [Ops -> Int] /\ i \in SUBSET Ops
      /\ \A p \in Ops : p # o => r[p] = m.rebuild[p] /\ n[p] = m.numRebuild[p]
                                 /\ (p \in i <=> p \in m.rebuildInit)
      /\ r[o] = partial[o] /\ n[o] = partial[o] /\ o \in i
  BY <1>2, <1>3
<1>5. f = [m EXCEPT !.rebuild = r, !.numRebuild = n, !.rebuildInit = i]
  BY <1>1 DEF initiateRebuild, QMType
<1>6. m.rebuildInit \subseteq i OBVIOUS
<1> HIDE DEF r, n, i, f
<1>7. f \in QMType BY <1>1, <1>4, <1>5 DEF QMType
<1>8. /\ f.finished = m.finished /\ f.informed = m.informed /\ f.numFinished = m.numFinished
      /\ f.normal = m.normal /\ f.queued = m.queued /\ f.rebuild = r
      /\ f.numRebuild = n /\ f.rebuildInit = i /\ f.avail = m.avail
      /\ f.rounds = m.rounds /\ f.doneGen = m.doneGen /\ f.doneFeeding = m.doneFeeding
  BY <1>1, <1>5 DEF QMType
<1>9. o \notin m.finished BY <1>1 DEF MemoryExact
<1>10. /\ m.normal[o] = 0 /\ m.queued[o] = 0 /\ o \in m.doneGen
       /\ Dependencies(o) \subseteq m.finished
  BY DEF checkNormalExecutionOver, checkAllDependenciesMet
<1>11. MemoryExact(f)
  <2> SUFFICES ASSUME NEW p \in Ops
               PROVE
                 /\ p \in m.doneGen => m.avail[p] = 0 /\ m.rounds[p] = 0
                                       /\ Streams(p) \subseteq m.finished
                 /\ p \in i => /\ p \in plan.dest /\ p \in m.doneGen
                               /\ m.normal[p] = 0 /\ m.queued[p] = 0
                               /\ Dependencies(p) \subseteq m.finished
                 /\ p \notin i => n[p] = 0 /\ r[p] = 0
                 /\ p \in m.finished => /\ p \in m.doneGen /\ m.normal[p] = 0 /\ m.queued[p] = 0
                                        /\ r[p] = 0 /\ n[p] = 0
                                        /\ Dependencies(p) \subseteq m.finished
                                        /\ p \in plan.dest => p \in i
                 /\ m.doneFeeding[p] \subseteq m.finished \cap plan.output \cap Dependencies(p)
    BY <1>8 DEF MemoryExact
  <2>1. CASE p = o BY <1>1, <1>4, <1>9, <1>10, <2>1 DEF MemoryExact
  <2>2. CASE p # o BY <1>1, <1>4, <2>2 DEF MemoryExact
  <2> QED BY <2>1, <2>2
<1>12. SameCounts(m, f)
  <2>1. \A p \in Ops : n[p] - r[p] = m.numRebuild[p] - m.rebuild[p]
    <3> SUFFICES ASSUME NEW p \in Ops PROVE n[p] - r[p] = m.numRebuild[p] - m.rebuild[p]
      OBVIOUS
    <3>1. CASE p = o BY <1>2, <1>3, <1>4, <3>1
    <3>2. CASE p # o BY <1>4, <3>2
    <3> QED BY <3>1, <3>2
  <2> QED BY <1>6, <1>8, <2>1 DEF SameCounts
<1> QED BY <1>4, <1>7, <1>8, <1>11, <1>12 DEF Exact, f

\* finishIfOver() marks the operator finished at most once, and only when
\* nothing of it is outstanding.
LEMMA FinishExact ==
  ASSUME WellFormed(plan), NEW m, Exact(m), NEW o \in Ops, partial \in [Ops -> Nat]
  PROVE  LET f == finishIfOver(m, o)
         IN  /\ Exact(f) /\ SameCounts(m, f) /\ f.avail = m.avail
             /\ \/ f.finished = m.finished /\ f.numFinished = m.numFinished
                \/ /\ f.finished = m.finished \cup {o} /\ f.numFinished = m.numFinished + 1
                   /\ checkNormalExecutionOver(m, o)
                   /\ o \in plan.dest /\ o \notin m.rebuildInit => partial[o] = 0
<1> DEFINE r == initiateRebuild(m, o)
           f == finishIfOver(m, o)
<1>1. m \in QMType /\ MemoryExact(m) BY DEF Exact
<1>2. CASE f = m BY <1>2 DEF SameCounts
<1>3. CASE /\ checkNormalExecutionOver(m, o) /\ f = markOperatorFinished(m, o)
           /\ o \in plan.dest => o \in m.rebuildInit /\ checkRebuildOver(m, o)
  <2>1. m.rebuild[o] = 0 /\ m.numRebuild[o] = 0
    BY <1>1, <1>3 DEF MemoryExact, checkRebuildOver
  <2> QED BY <1>3, <2>1, MarkExact DEF checkNormalExecutionOver, checkAllDependenciesMet
<1>4. CASE /\ checkNormalExecutionOver(m, o) /\ o \in plan.dest /\ o \notin m.rebuildInit
           /\ f = IF r.numRebuild[o] = 0 THEN markOperatorFinished(r, o) ELSE r
  <2>1. /\ Exact(r) /\ SameCounts(m, r)
        /\ r.finished = m.finished /\ r.numFinished = m.numFinished
        /\ r.avail = m.avail /\ r.doneGen = m.doneGen /\ r.normal = m.normal
        /\ o \in r.rebuildInit /\ r.numRebuild[o] = partial[o] /\ r.rebuild[o] = partial[o]
    BY <1>4, InitiateExact
  <2>2. CASE partial[o] = 0
    <3>1. /\ o \in r.doneGen /\ r.normal[o] = 0 /\ r.queued[o] = 0
          /\ Dependencies(o) \subseteq r.finished
      BY <1>4, <2>1 DEF checkNormalExecutionOver, checkAllDependenciesMet, SameCounts
    <3>2. f = markOperatorFinished(r, o) BY <1>4, <2>1, <2>2
    <3> HIDE DEF r, f
    <3>3. /\ Exact(f) /\ SameCounts(r, f)
          /\ f.finished = r.finished \cup {o} /\ f.numFinished = r.numFinished + 1
          /\ f.avail = r.avail
      BY <2>1, <2>2, <3>1, <3>2, MarkExact
    <3>4. SameCounts(m, f) BY <2>1, <3>3 DEF SameCounts
    <3> QED BY <1>4, <2>1, <2>2, <3>3, <3>4 DEF f
  <2>3. CASE partial[o] # 0
    BY <1>4, <2>1, <2>3
  <2> QED BY <2>2, <2>3
<1> HIDE DEF r
<1> QED BY <1>2, <1>3, <1>4 DEF finishIfOver, r

\* processOperator() collects the input of an operator that may run, and when
\* it marks the operator finished it goes on to the dependents.
LEMMA ProcessExact ==
  ASSUME WellFormed(plan), NEW m, Exact(m), NEW o \in Ops, partial \in [Ops -> Nat]
  PROVE  LET f == processOperator(m, o)
         IN  /\ Exact(f) /\ SameCounts(m, f)
             /\ \A p \in Ops : p # o => f.avail[p] = m.avail[p]
             /\ Blocking(o) \subseteq m.finished /\ o \in m.informed => f.avail[o] = 0
             /\ \/ f.finished = m.finished /\ f.numFinished = m.numFinished
                \/ /\ f.finished = m.finished \cup {o} /\ f.numFinished = m.numFinished + 1
                   /\ reachesDependents(m, o)
<1> DEFINE g == fetchNormalWorkOrders(m, o)
           h == finishIfOver(g, o)
           f == processOperator(m, o)
<1>1. /\ Exact(g) /\ SameCounts(m, g)
      /\ g.finished = m.finished /\ g.numFinished = m.numFinished
      /\ g.rebuildInit = m.rebuildInit
      /\ \A p \in Ops : p # o => g.avail[p] = m.avail[p]
      /\ Blocking(o) \subseteq m.finished /\ o \in m.informed => g.avail[o] = 0
  BY FetchExact
<1>2. f = IF g.normal[o] > m.normal[o] THEN g ELSE h
  BY DEF processOperator
<1>3. g.normal[o] \in Nat /\ m.normal[o] \in Nat /\ partial[o] \in Nat /\ g.normal[o] >= m.normal[o]
  <2>1. m \in QMType /\ g \in QMType BY <1>1 DEF Exact
  <2>2. m.normal \in [Ops -> Nat] /\ g.normal \in [Ops -> Nat] /\ m.avail \in [Ops -> Nat]
    BY <2>1 DEF QMType
  <2>3. g.normal = m.normal \/ g.normal = [m.normal EXCEPT ![o] = @ + m.avail[o]]
    BY <2>1 DEF fetchNormalWorkOrders, getAllWorkOrders, QMType
  <2> HIDE DEF g
  <2> QED BY <2>2, <2>3
<1>4. reachesDependents(m, o) <=> /\ g.normal[o] = m.normal[o] /\ checkNormalExecutionOver(g, o)
                                  /\ ~(o \in plan.dest /\ o \notin g.rebuildInit /\ partial[o] > 0)
  BY DEF reachesDependents
<1> HIDE DEF f, g
<1>5. CASE f = g BY <1>1, <1>5 DEF f
<1>6. CASE f = h /\ g.normal[o] = m.normal[o]
  <2>1. /\ Exact(h) /\ SameCounts(g, h) /\ h.avail = g.avail
        /\ \/ h.finished = g.finished /\ h.numFinished = g.numFinished
           \/ /\ h.finished = g.finished \cup {o} /\ h.numFinished = g.numFinished + 1
              /\ checkNormalExecutionOver(g, o)
              /\ o \in plan.dest /\ o \notin g.rebuildInit => partial[o] = 0
    BY <1>1, FinishExact
  <2> HIDE DEF h
  <2>2. SameCounts(m, h) BY <1>1, <2>1 DEF SameCounts
  <2> QED BY <1>1, <1>3, <1>4, <1>6, <2>1, <2>2 DEF f
<1> QED BY <1>2, <1>3, <1>5, <1>6

-----------------------------------------------------------------------------
\* The messages [type, op] on a bus c, by channel and position.
OnBus(c, type, o) ==
    {x \in UNION {{<<w, i>> : i \in DOMAIN c[w]} : w \in Workers} :
        c[x[1]][x[2]] = [type |-> type, op |-> o]}

LEMMA OnBusMember ==
  ASSUME NEW c, NEW type, NEW o, NEW w \in Workers, NEW i
  PROVE  <<w, i>> \in OnBus(c, type, o)
            <=> i \in DOMAIN c[w] /\ c[w][i] = [type |-> type, op |-> o]
BY DEF OnBus

LEMMA OnBusPair ==
  ASSUME NEW c, NEW type, NEW o, NEW x \in OnBus(c, type, o)
  PROVE  \E w, i : w \in Workers /\ i \in DOMAIN c[w] /\ x = <<w, i>>
BY DEF OnBus

LEMMA Concatenation ==
  ASSUME NEW s \in Seq(Message), NEW t \in Seq(Message)
  PROVE  /\ s \o t \in Seq(Message) /\ Len(s \o t) = Len(s) + Len(t)
         /\ \A i \in 1 .. Len(s) : (s \o t)[i] = s[i]
         /\ \A i \in 1 .. Len(s) + Len(t) : i > Len(s) => (s \o t)[i] = t[i - Len(s)]
OBVIOUS

\* Taking the first message of channel w off the bus.
LEMMA BusTake ==
  ASSUME NEW c \in [Workers -> Seq(Message)], NEW w \in Workers, c[w] # <<>>,
         NEW type, NEW o, IsFiniteSet(OnBus(c, type, o))
  PROVE  LET d == [c EXCEPT ![w] = Tail(@)]
             mine == Head(c[w]) = [type |-> type, op |-> o]
         IN  /\ IsFiniteSet(OnBus(d, type, o))
             /\ Cardinality(OnBus(d, type, o))
                  = Cardinality(OnBus(c, type, o)) - (IF mine THEN 1 ELSE 0)
             /\ mine => <<w, 1>> \in OnBus(c, type, o)
<1> DEFINE d == [c EXCEPT ![w] = Tail(@)]
           S == OnBus(c, type, o) \ {<<w, 1>>}
           T == OnBus(d, type, o)
           msg == [type |-> type, op |-> o]
           f == [x \in S |-> IF x[1] = w THEN <<x[1], x[2] - 1>> ELSE x]
<1>0. /\ c[w] \in Seq(Message) /\ Len(c[w]) \in Nat /\ DOMAIN c[w] = 1 .. Len(c[w])
      /\ Len(c[w]) > 0 /\ Head(c[w]) = c[w][1]
      /\ d[w] = Tail(c[w]) /\ \A v \in Workers : v # w => d[v] = c[v]
  OBVIOUS
<1>1. /\ DOMAIN Tail(c[w]) = 1 .. Len(c[w]) - 1
      /\ \A i \in 1 .. Len(c[w]) - 1 : Tail(c[w])[i] = c[w][i + 1]
  BY <1>0
<1> HIDE DEF d
<1>2. ASSUME NEW v \in Workers, NEW i
      PROVE  <<v, i>> \in S <=> <<v, i>> # <<w, 1>> /\ i \in DOMAIN c[v] /\ c[v][i] = msg
  BY OnBusMember
<1>3. ASSUME NEW v \in Workers, NEW i
      PROVE  <<v, i>> \in T <=> i \in DOMAIN d[v] /\ d[v][i] = msg
  BY OnBusMember
<1>4. ASSUME NEW x \in S
      PROVE  \E v, i : v \in Workers /\ i \in DOMAIN c[v] /\ x = <<v, i>>
  BY OnBusPair
<1>4b. ASSUME NEW x \in T
      PROVE  \E v, i : v \in Workers /\ i \in DOMAIN d[v] /\ x = <<v, i>>
  BY OnBusPair
<1> HIDE DEF S, T, msg
<1>5. ASSUME NEW x \in S PROVE f[x] \in T
  <2>1. PICK v, i : v \in Workers /\ i \in DOMAIN c[v] /\ x = <<v, i>> BY <1>4
  <2>2. CASE v = w
    <3>1. i \in 1 .. Len(c[w]) /\ i # 1 /\ c[w][i] = msg BY <1>0, <1>2, <2>1, <2>2
    <3>2. i - 1 \in 1 .. Len(c[w]) - 1 /\ Tail(c[w])[i - 1] = c[w][i]
      BY <1>0, <1>1, <3>1
    <3>3. <<w, i - 1>> \in T BY <1>0, <1>1, <1>3, <3>1, <3>2
    <3>4. f[x] = <<w, i - 1>> BY <2>1, <2>2
    <3> QED BY <3>3, <3>4
  <2>3. CASE v # w
    <3>1. <<v, i>> \in T BY <1>0, <1>2, <1>3, <2>1, <2>3
    <3>2. f[x] = <<v, i>> BY <2>1, <2>3
    <3> QED BY <3>1, <3>2
  <2> QED BY <2>2, <2>3
<1>6. f \in [S -> T] BY <1>5
<1>7. ASSUME NEW x \in S, NEW y \in S, f[x] = f[y] PROVE x = y
  <2>1. PICK v, i : v \in Workers /\ i \in DOMAIN c[v] /\ x = <<v, i>> BY <1>4
  <2>2. PICK u, j : u \in Workers /\ j \in DOMAIN c[u] /\ y = <<u, j>> BY <1>4
  <2>3. f[x] = IF v = w THEN <<v, i - 1>> ELSE <<v, i>> BY <2>1
  <2>4. f[y] = IF u = w THEN <<u, j - 1>> ELSE <<u, j>> BY <2>2
  <2>5. v = u BY <1>7, <2>3, <2>4
  <2>6. CASE v = w
    <3>1. i \in Int /\ j \in Int BY <1>0, <2>1, <2>2, <2>5, <2>6
    <3>2. i - 1 = j - 1 BY <1>7, <2>3, <2>4, <2>5, <2>6
    <3> QED BY <2>1, <2>2, <2>5, <3>1, <3>2
  <2>7. CASE v # w BY <1>7, <2>1, <2>2, <2>3, <2>4, <2>5, <2>7
  <2> QED BY <2>6, <2>7
<1>8. ASSUME NEW y \in T PROVE \E x \in S : f[x] = y
  <2>1. PICK v, i : v \in Workers /\ i \in DOMAIN d[v] /\ y = <<v, i>> BY <1>4b
  <2>2. CASE v = w
    <3>1. i \in 1 .. Len(c[w]) - 1 BY <1>0, <1>1, <2>1, <2>2
    <3>2. i + 1 \in 1 .. Len(c[w]) /\ i + 1 # 1 /\ c[w][i + 1] = msg /\ (i + 1) - 1 = i
      BY <1>0, <1>1, <1>3, <2>1, <2>2, <3>1
    <3>3. <<w, i + 1>> \in S BY <1>0, <1>2, <3>2
    <3>4. f[<<w, i + 1>>] = <<w, i>> BY <3>2, <3>3
    <3> QED BY <2>1, <2>2, <3>3, <3>4
  <2>3. CASE v # w
    <3>1. <<v, i>> \in S BY <1>0, <1>2, <1>3, <2>1, <2>3
    <3>2. f[<<v, i>>] = <<v, i>> BY <2>3, <3>1
    <3> QED BY <2>1, <3>1, <3>2
  <2> QED BY <2>2, <2>3
<1>9. ExistsBijection(S, T)
  <2> HIDE DEF f
  <2>1. f \in Injection(S, T) BY <1>6, <1>7 DEF Injection, IsInjective
  <2>2. f \in Surjection(S, T) BY <1>6, <1>8 DEF Surjection
  <2> QED BY <2>1, <2>2 DEF ExistsBijection, Bijection
<1>10. IsFiniteSet(S) /\ Cardinality(S) = Cardinality(OnBus(c, type, o))
          - (IF <<w, 1>> \in OnBus(c, type, o) THEN 1 ELSE 0)
  <2>1. Cardinality(OnBus(c, type, o)) \in Nat BY FS_CardinalityType
  <2>2. /\ IsFiniteSet(OnBus(c, type, o) \ {<<w, 1>>})
        /\ Cardinality(OnBus(c, type, o) \ {<<w, 1>>})
             = IF <<w, 1>> \in OnBus(c, type, o) THEN Cardinality(OnBus(c, type, o)) - 1
               ELSE Cardinality(OnBus(c, type, o))
    BY FS_RemoveElement
  <2> QED BY <2>1, <2>2 DEF S
<1>11. IsFiniteSet(T) /\ Cardinality(T) = Cardinality(S)
  BY <1>9, <1>10, FS_Bijection
<1>12. <<w, 1>> \in OnBus(c, type, o) <=> Head(c[w]) = msg
  <2>1. 1 \in DOMAIN c[w] BY <1>0
  <2>2. <<w, 1>> \in OnBus(c, type, o)
           <=> 1 \in DOMAIN c[w] /\ c[w][1] = [type |-> type, op |-> o]
    BY OnBusMember
  <2> QED BY <1>0, <2>1, <2>2 DEF msg
<1> QED BY <1>10, <1>11, <1>12 DEF d, T, msg

\* A worker adds messages of which only the last one may be [type, o].
LEMMA BusAppend ==
  ASSUME NEW c \in [Workers -> Seq(Message)], NEW w \in Workers,
         NEW msgs \in Seq(Message), NEW last \in Message,
         NEW type, NEW o, \A i \in DOMAIN msgs : msgs[i] # [type |-> type, op |-> o],
         IsFiniteSet(OnBus(c, type, o))
  PROVE  LET d == [c EXCEPT ![w] = @ \o (msgs \o <<last>>)]
             mine == last = [type |-> type, op |-> o]
         IN  /\ IsFiniteSet(OnBus(d, type, o))
             /\ Cardinality(OnBus(d, type, o))
                  = Cardinality(OnBus(c, type, o)) + (IF mine THEN 1 ELSE 0)
             /\ OnBus(c, type, o) \subseteq OnBus(d, type, o)
<1> DEFINE d == [c EXCEPT ![w] = @ \o (msgs \o <<last>>)]
           msg == [type |-> type, op |-> o]
           S == OnBus(c, type, o)
           T == OnBus(d, type, o)
           e == Len(c[w]) + Len(msgs) + 1
           s == c[w] \o (msgs \o <<last>>)
<1>0. /\ c[w] \in Seq(Message) /\ d[w] = s /\ \A v \in Workers : v # w => d[v] = c[v]
      /\ Len(c[w]) \in Nat /\ Len(msgs) \in Nat
  OBVIOUS
<1>1. /\ s \in Seq(Message) /\ Len(s) = e /\ DOMAIN s = 1 .. e
      /\ \A i \in 1 .. Len(c[w]) : s[i] = c[w][i]
      /\ \A i \in 1 .. e : i > Len(c[w]) /\ i # e
            => i - Len(c[w]) \in DOMAIN msgs /\ s[i] = msgs[i - Len(c[w])]
      /\ s[e] = last
  <2>1. msgs \o <<last>> \in Seq(Message) /\ Len(msgs \o <<last>>) = Len(msgs) + 1
        /\ (msgs \o <<last>>)[Len(msgs) + 1] = last
        /\ \A i \in 1 .. Len(msgs) : (msgs \o <<last>>)[i] = msgs[i]
    OBVIOUS
  <2> HIDE DEF e
  <2> DEFINE t == msgs \o <<last>>
  <2>2. t \in Seq(Message) /\ Len(t) = Len(msgs) + 1 BY <2>1
  <2> HIDE DEF t
  <2>3. /\ c[w] \o t \in Seq(Message) /\ Len(c[w] \o t) = Len(c[w]) + Len(t)
        /\ \A i \in 1 .. Len(c[w]) : (c[w] \o t)[i] = c[w][i]
        /\ \A i \in 1 .. Len(c[w]) + Len(t) : i > Len(c[w]) => (c[w] \o t)[i] = t[i - Len(c[w])]
    BY <1>0, <2>2, Concatenation
  <2>4. s = c[w] \o t BY DEF t
  <2>5. e = Len(c[w]) + Len(t) /\ e - Len(c[w]) = Len(msgs) + 1 BY <1>0, <2>2 DEF e
  <2>6. s[e] = last BY <1>0, <2>1, <2>2, <2>3, <2>4, <2>5 DEF t
  <2>7. \A i \in 1 .. e : i > Len(c[w]) /\ i # e
            => i - Len(c[w]) \in DOMAIN msgs /\ s[i] = msgs[i - Len(c[w])]
    <3> SUFFICES ASSUME NEW i \in 1 .. e, i > Len(c[w]), i # e
                 PROVE  i - Len(c[w]) \in DOMAIN msgs /\ s[i] = msgs[i - Len(c[w])]
      OBVIOUS
    <3>1. i - Len(c[w]) \in 1 .. Len(msgs) BY <1>0, <2>2, <2>5
    <3> QED BY <2>1, <2>3, <2>4, <2>5, <3>1 DEF t
  <2>8. DOMAIN s = 1 .. e /\ Len(s) = e /\ s \in Seq(Message) BY <1>0, <2>2, <2>3, <2>4, <2>5
  <2> QED BY <2>3, <2>4, <2>6, <2>7, <2>8
<1> HIDE DEF d, s
<1>2. ASSUME NEW v \in Workers, NEW i
      PROVE  <<v, i>> \in S <=> i \in DOMAIN c[v] /\ c[v][i] = msg
  BY OnBusMember
<1>3. ASSUME NEW v \in Workers, NEW i
      PROVE  <<v, i>> \in T <=> i \in DOMAIN d[v] /\ d[v][i] = msg
  BY OnBusMember
<1>4. ASSUME NEW x \in S
      PROVE  \E v, i : v \in Workers /\ i \in DOMAIN c[v] /\ x = <<v, i>>
  BY OnBusPair
<1>4b. ASSUME NEW x \in T
      PROVE  \E v, i : v \in Workers /\ i \in DOMAIN d[v] /\ x = <<v, i>>
  BY OnBusPair
<1>d. \A i \in DOMAIN c[w] : i \in 1 .. Len(c[w]) /\ i \in 1 .. e /\ i # e
  BY <1>0
<1> HIDE DEF S, T, e
<1>5. <<w, e>> \notin S BY <1>2, <1>d
<1>6. T = S \cup (IF last = msg THEN {<<w, e>>} ELSE {})
  <2>e. e \in DOMAIN s BY <1>0, <1>1 DEF e
  <2>1. ASSUME NEW x \in S PROVE x \in T
    <3>1. PICK v, i : v \in Workers /\ i \in DOMAIN c[v] /\ x = <<v, i>> BY <1>4
    <3>2. CASE v = w
      <4>1. i \in DOMAIN s /\ s[i] = c[w][i] BY <1>1, <1>d, <3>1, <3>2
      <4> QED BY <1>0, <1>2, <1>3, <2>1, <3>1, <3>2, <4>1
    <3>3. CASE v # w BY <1>0, <1>2, <1>3, <2>1, <3>1, <3>3
    <3> QED BY <3>2, <3>3
  <2>2. last = msg => <<w, e>> \in T BY <1>0, <1>1, <1>3, <2>e
  <2>3. ASSUME NEW x \in T PROVE x \in S \/ (x = <<w, e>> /\ last = msg)
    <3>1. PICK v, i : v \in Workers /\ i \in DOMAIN d[v] /\ x = <<v, i>> BY <1>4b
    <3>2. CASE v # w BY <1>0, <1>2, <1>3, <2>3, <3>1, <3>2
    <3>3. CASE v = w
      <4>1. i \in 1 .. e /\ s[i] = msg BY <1>0, <1>1, <1>3, <2>3, <3>1, <3>3
      <4>2. CASE i = e BY <1>1, <3>1, <3>3, <4>1, <4>2
      <4>3. CASE i <= Len(c[w]) /\ i # e
        <5>1. i \in 1 .. Len(c[w]) BY <1>0, <4>1, <4>3
        <5>2. s[i] = c[w][i] /\ i \in DOMAIN c[w] BY <1>0, <1>1, <5>1
        <5> QED BY <1>2, <3>1, <3>3, <4>1, <5>2
      <4>4. CASE i > Len(c[w]) /\ i # e
        <5>1. i - Len(c[w]) \in DOMAIN msgs /\ s[i] = msgs[i - Len(c[w])] BY <1>1, <4>1, <4>4
        <5> QED BY <4>1, <5>1
      <4>5. i \in Int /\ Len(c[w]) \in Int BY <1>0, <4>1
      <4> QED BY <4>2, <4>3, <4>4, <4>5
    <3> QED BY <3>2, <3>3
  <2> QED BY <2>1, <2>2, <2>3
<1>7. IsFiniteSet(S) /\ Cardinality(S) \in Nat BY FS_CardinalityType DEF S
<1>8. CASE last = msg
  <2>1. T = S \cup {<<w, e>>} BY <1>6, <1>8
  <2>2. IsFiniteSet(S \cup {<<w, e>>}) /\ Cardinality(S \cup {<<w, e>>}) = Cardinality(S) + 1
    BY <1>5, <1>7, FS_AddElement
  <2> QED BY <1>6, <1>7, <1>8, <2>1, <2>2 DEF S, T, d
<1>9. CASE last # msg
  <2>1. T = S BY <1>6, <1>9
  <2>2. Cardinality(T) = Cardinality(S) + 0 BY <1>7, <2>1
  <2> QED BY <1>7, <1>9, <2>1, <2>2 DEF S, T, d
<1> QED BY <1>8, <1>9

\* The workers that hold a work order, in slots s.
HeldIn(s, kind, o) == {w \in Workers : s[w].kind = kind /\ s[w].op = o}

Kinds == {"normal", "rebuild"}
CompletionOf(kind) == IF kind = "normal" THEN "complete" ELSE "rebuildComplete"
Completions == {"complete", "rebuildComplete"}

LEMMA HeldPut ==
  ASSUME NEW s, NEW w \in Workers, s[w].kind \notin Kinds,
         NEW kind \in Kinds, NEW p \in Ops, IsFiniteSet(HeldIn(s, kind, p)),
         NEW t, \A v \in Workers : v # w => t[v] = s[v]
  PROVE  /\ IsFiniteSet(HeldIn(t, kind, p))
         /\ Cardinality(HeldIn(t, kind, p)) = Cardinality(HeldIn(s, kind, p))
              + (IF t[w].kind = kind /\ t[w].op = p THEN 1 ELSE 0)
<1> DEFINE S == HeldIn(s, kind, p)
           T == HeldIn(t, kind, p)
<1>2. w \notin S BY DEF HeldIn
<1>3. IsFiniteSet(S) /\ Cardinality(S) \in Nat BY FS_CardinalityType
<1>4. CASE t[w].kind = kind /\ t[w].op = p
  <2>1. T = S \cup {w} BY <1>4 DEF HeldIn
  <2> HIDE DEF S, T
  <2>2. IsFiniteSet(S \cup {w}) /\ Cardinality(S \cup {w}) = Cardinality(S) + 1
    BY <1>2, <1>3, FS_AddElement
  <2> QED BY <1>4, <2>1, <2>2 DEF S, T
<1>5. CASE ~(t[w].kind = kind /\ t[w].op = p)
  <2>1. T = S BY <1>5 DEF HeldIn
  <2>2. Cardinality(T) = Cardinality(S) + 0 BY <1>3, <2>1
  <2> QED BY <1>3, <1>5, <2>1, <2>2
<1> QED BY <1>4, <1>5

LEMMA HeldTake ==
  ASSUME NEW s, NEW w \in Workers, NEW t, t[w].kind \notin Kinds,
         NEW kind \in Kinds, NEW p \in Ops, IsFiniteSet(HeldIn(s, kind, p)),
         \A v \in Workers : v # w => t[v] = s[v]
  PROVE  /\ IsFiniteSet(HeldIn(t, kind, p))
         /\ Cardinality(HeldIn(t, kind, p)) = Cardinality(HeldIn(s, kind, p))
              - (IF s[w].kind = kind /\ s[w].op = p THEN 1 ELSE 0)
<1> DEFINE S == HeldIn(s, kind, p)
           T == HeldIn(t, kind, p)
<1>3. IsFiniteSet(S) /\ Cardinality(S) \in Nat BY FS_CardinalityType
<1>4. CASE s[w].kind = kind /\ s[w].op = p
  <2>1. T = S \ {w} /\ w \in S BY <1>4 DEF HeldIn
  <2> HIDE DEF S, T
  <2>2. IsFiniteSet(S \ {w}) /\ Cardinality(S \ {w}) = Cardinality(S) - 1
    BY <2>1, <1>3, FS_RemoveElement
  <2> QED BY <1>4, <2>1, <2>2 DEF S, T
<1>5. CASE ~(s[w].kind = kind /\ s[w].op = p)
  <2>1. T = S BY <1>5 DEF HeldIn
  <2>2. Cardinality(T) = Cardinality(S) - 0 BY <1>3, <2>1
  <2> QED BY <1>3, <1>5, <2>1, <2>2
<1> QED BY <1>4, <1>5

(***************************************************************************)
(* The counters of memory m count the work in the slots s and on the bus   *)
(* c, and there is only finitely much of it.                               *)
(***************************************************************************)
Finite(s, c) ==
    \A o \in Ops :
      /\ \A kind \in Kinds : IsFiniteSet(HeldIn(s, kind, o))
      /\ \A type \in Completions : IsFiniteSet(OnBus(c, type, o))

Balanced(m, s, c) ==
    /\ Finite(s, c)
    /\ \A o \in Ops :
      /\ m.queued[o] = Cardinality(HeldIn(s, "normal", o)) + Cardinality(OnBus(c, "complete", o))
      /\ m.numRebuild[o] - m.rebuild[o] = Cardinality(HeldIn(s, "rebuild", o))
                                           + Cardinality(OnBus(c, "rebuildComplete", o))

LEMMA FiniteNats ==
  ASSUME NEW s, NEW c, Finite(s, c), NEW o \in Ops
  PROVE  /\ \A kind \in Kinds : Cardinality(HeldIn(s, kind, o)) \in Nat
         /\ \A type \in Completions : Cardinality(OnBus(c, type, o)) \in Nat
BY FS_CardinalityType DEF Finite

LEMMA SameBalance ==
  ASSUME NEW m, NEW f, NEW s, NEW c, Balanced(m, s, c), SameCounts(m, f)
  PROVE  Balanced(f, s, c)
BY DEF Balanced, SameCounts

LEMMA OneLess ==
  ASSUME NEW x \in Int, NEW y \in Int, NEW h \in Int, NEW b \in Int, NEW j \in Int
  PROVE  /\ x = h + b => x - j = h + (b - j)
         /\ x - y = h + b => (x - j) - y = h + (b - j)
OBVIOUS

\* Taking a message off the bus: a completion that is taken was counted.
Takes(m, f, msg) ==
    /\ \A p \in Ops : f.queued[p] =
          m.queued[p] - (IF msg.type = "complete" /\ p = msg.op THEN 1 ELSE 0)
    /\ \A p \in Ops : f.numRebuild[p] =
          m.numRebuild[p] - (IF msg.type = "rebuildComplete" /\ p = msg.op THEN 1 ELSE 0)
    /\ \A p \in Ops : f.rebuild[p] = m.rebuild[p]

LEMMA TakeBalance ==
  ASSUME NEW m \in QMType, NEW s, NEW c \in [Workers -> Seq(Message)], Balanced(m, s, c),
         NEW w \in Workers, c[w] # <<>>, NEW f \in QMType, Takes(m, f, Head(c[w])),
         Head(c[w]).op \in Ops
  PROVE  /\ Balanced(f, s, [c EXCEPT ![w] = Tail(@)])
         /\ Head(c[w]).type = "complete" => m.queued[Head(c[w]).op] > 0
         /\ Head(c[w]).type = "rebuildComplete"
              => m.numRebuild[Head(c[w]).op] > m.rebuild[Head(c[w]).op]
<1> DEFINE o == Head(c[w]).op
           d == [c EXCEPT ![w] = Tail(@)]
<1>1. Head(c[w]) \in Message BY SMT
<1>2. \A type, p : Head(c[w]) = [type |-> type, op |-> p] <=> Head(c[w]).type = type /\ p = o
  BY <1>1 DEF Message
<1>3. ASSUME NEW type \in Completions, NEW p \in Ops
      PROVE  /\ IsFiniteSet(OnBus(d, type, p))
             /\ Cardinality(OnBus(d, type, p)) = Cardinality(OnBus(c, type, p))
                  - (IF Head(c[w]).type = type /\ p = o THEN 1 ELSE 0)
             /\ Head(c[w]).type = type /\ p = o => Cardinality(OnBus(c, type, p)) > 0
  <2>1. IsFiniteSet(OnBus(c, type, p)) BY <1>3 DEF Balanced, Finite
  <2>2. /\ IsFiniteSet(OnBus(d, type, p))
        /\ Cardinality(OnBus(d, type, p)) = Cardinality(OnBus(c, type, p))
             - (IF Head(c[w]) = [type |-> type, op |-> p] THEN 1 ELSE 0)
        /\ Head(c[w]) = [type |-> type, op |-> p] => <<w, 1>> \in OnBus(c, type, p)
    BY <2>1, BusTake
  <2>3. OnBus(c, type, p) # {} => Cardinality(OnBus(c, type, p)) > 0
    <3>1. Cardinality(OnBus(c, type, p)) \in Nat BY <2>1, FS_CardinalityType
    <3>2. Cardinality(OnBus(c, type, p)) = 0 <=> OnBus(c, type, p) = {}
      BY <2>1, FS_EmptySet
    <3> QED BY <3>1, <3>2
  <2> QED BY <1>2, <2>2, <2>3
<1> HIDE DEF d
<1>4. Finite(s, d) BY <1>3 DEF Finite, Balanced
<1>5. ASSUME NEW p \in Ops
      PROVE  /\ f.queued[p] = Cardinality(HeldIn(s, "normal", p)) + Cardinality(OnBus(d, "complete", p))
             /\ f.numRebuild[p] - f.rebuild[p] = Cardinality(HeldIn(s, "rebuild", p))
                                           + Cardinality(OnBus(d, "rebuildComplete", p))
             /\ Head(c[w]).type = "complete" /\ p = o => m.queued[p] > 0
             /\ Head(c[w]).type = "rebuildComplete" /\ p = o => m.numRebuild[p] > m.rebuild[p]
  <2> DEFINE hn == Cardinality(HeldIn(s, "normal", p))
             hr == Cardinality(HeldIn(s, "rebuild", p))
             bn == Cardinality(OnBus(c, "complete", p))
             br == Cardinality(OnBus(c, "rebuildComplete", p))
             dn == Cardinality(OnBus(d, "complete", p))
             dr == Cardinality(OnBus(d, "rebuildComplete", p))
             jn == IF Head(c[w]).type = "complete" /\ p = o THEN 1 ELSE 0
             jr == IF Head(c[w]).type = "rebuildComplete" /\ p = o THEN 1 ELSE 0
  <2>1. hn \in Nat /\ hr \in Nat /\ bn \in Nat /\ br \in Nat
    BY FiniteNats DEF Kinds, Completions, Balanced
  <2>2. dn = bn - jn /\ dr = br - jr /\ (jn = 1 => bn > 0) /\ (jr = 1 => br > 0)
    BY <1>3 DEF Completions
  <2>3. m.queued[p] = hn + bn /\ m.numRebuild[p] - m.rebuild[p] = hr + br
    BY DEF Balanced
  <2>4. jn \in Int /\ jr \in Int /\ f.queued[p] = m.queued[p] - jn /\ f.numRebuild[p] = m.numRebuild[p] - jr
        /\ f.rebuild[p] = m.rebuild[p]
        /\ (Head(c[w]).type = "complete" /\ p = o => jn = 1)
        /\ (Head(c[w]).type = "rebuildComplete" /\ p = o => jr = 1)
    BY DEF Takes
  <2>5. m.queued[p] \in Int /\ m.numRebuild[p] \in Int /\ m.rebuild[p] \in Int BY DEF QMType
  <2> HIDE DEF hn, hr, bn, br, dn, dr, jn, jr
  <2>6. f.queued[p] = hn + dn /\ f.numRebuild[p] - f.rebuild[p] = hr + dr
    <3> DEFINE q == m.queued[p]
               x == m.numRebuild[p]
               y == m.rebuild[p]
    <3>1. q \in Int /\ x \in Int /\ y \in Int /\ q = hn + bn /\ x - y = hr + br
      BY <2>3, <2>5
    <3> HIDE DEF q, x, y
    <3>2. q - jn = hn + dn /\ (x - jr) - y = hr + dr
      BY <2>1, <2>2, <2>4, <3>1, OneLess
    <3> QED BY <2>4, <3>2 DEF q, x, y
  <2>7. (jn = 1 => m.queued[p] > 0) /\ (jr = 1 => m.numRebuild[p] > m.rebuild[p])
    BY <2>1, <2>2, <2>3, <2>5
  <2> QED BY <2>4, <2>6, <2>7 DEF hn, hr, dn, dr
<1> QED BY <1>4, <1>5 DEF Balanced, d

\* A worker reports the completion of the work order it held.
LEMMA ReportBalance ==
  ASSUME NEW m \in QMType, NEW s \in [Workers -> WorkOrder \cup {Idle}],
         NEW c \in [Workers -> Seq(Message)], Balanced(m, s, c),
         NEW w \in Workers, NEW k \in Kinds, NEW o \in Ops, s[w] = [kind |-> k, op |-> o],
         NEW msgs \in Seq(Message), \A i \in DOMAIN msgs : msgs[i].type \notin Completions
  PROVE  Balanced(m, [s EXCEPT ![w] = Idle],
                  [c EXCEPT ![w] = @ \o (msgs \o <<[type |-> CompletionOf(k), op |-> o]>>)])
<1> DEFINE last == [type |-> CompletionOf(k), op |-> o]
           d == [c EXCEPT ![w] = @ \o (msgs \o <<last>>)]
           t == [s EXCEPT ![w] = Idle]
<1>1. last \in Message BY DEF CompletionOf, Message
<1>2. ASSUME NEW type \in Completions, NEW p \in Ops
      PROVE  /\ IsFiniteSet(OnBus(d, type, p))
             /\ Cardinality(OnBus(d, type, p)) = Cardinality(OnBus(c, type, p))
                  + (IF CompletionOf(k) = type /\ o = p THEN 1 ELSE 0)
  <2>1. IsFiniteSet(OnBus(c, type, p)) BY <1>2 DEF Balanced, Finite
  <2>2. \A i \in DOMAIN msgs : msgs[i] # [type |-> type, op |-> p] BY <1>2
  <2>3. last = [type |-> type, op |-> p] <=> CompletionOf(k) = type /\ o = p OBVIOUS
  <2> HIDE DEF last
  <2>4. /\ IsFiniteSet(OnBus(d, type, p))
        /\ Cardinality(OnBus(d, type, p)) = Cardinality(OnBus(c, type, p))
             + (IF last = [type |-> type, op |-> p] THEN 1 ELSE 0)
        /\ OnBus(c, type, p) \subseteq OnBus(d, type, p)
    BY <1>1, <2>1, <2>2, BusAppend
  <2> QED BY <2>3, <2>4
<1>3. ASSUME NEW kind \in Kinds, NEW p \in Ops
      PROVE  /\ IsFiniteSet(HeldIn(t, kind, p))
             /\ Cardinality(HeldIn(t, kind, p)) = Cardinality(HeldIn(s, kind, p))
                  - (IF k = kind /\ o = p THEN 1 ELSE 0)
  <2>1. IsFiniteSet(HeldIn(s, kind, p)) BY <1>3 DEF Balanced, Finite
  <2>2. /\ \A v \in Workers : v # w => t[v] = s[v]
        /\ t[w].kind \notin Kinds /\ s[w].kind = k /\ s[w].op = o
    BY DEF Idle, Kinds
  <2> HIDE DEF t
  <2> QED BY <2>1, <2>2, HeldTake
<1> HIDE DEF d, t
<1>4. Finite(t, d) BY <1>2, <1>3 DEF Finite
<1>5. ASSUME NEW p \in Ops
      PROVE  /\ m.queued[p] = Cardinality(HeldIn(t, "normal", p)) + Cardinality(OnBus(d, "complete", p))
             /\ m.numRebuild[p] - m.rebuild[p] = Cardinality(HeldIn(t, "rebuild", p))
                                           + Cardinality(OnBus(d, "rebuildComplete", p))
  <2> DEFINE hn == Cardinality(HeldIn(s, "normal", p))
             hr == Cardinality(HeldIn(s, "rebuild", p))
             bn == Cardinality(OnBus(c, "complete", p))
             br == Cardinality(OnBus(c, "rebuildComplete", p))
             jn == IF k = "normal" /\ o = p THEN 1 ELSE 0
             jr == IF k = "rebuild" /\ o = p THEN 1 ELSE 0
  <2>1. hn \in Nat /\ hr \in Nat /\ bn \in Nat /\ br \in Nat
    BY FiniteNats DEF Kinds, Completions, Balanced
  <2>2. /\ Cardinality(HeldIn(t, "normal", p)) = hn - jn
        /\ Cardinality(HeldIn(t, "rebuild", p)) = hr - jr
    BY <1>3 DEF Kinds
  <2>3. /\ (CompletionOf(k) = "complete") <=> (k = "normal")
        /\ (CompletionOf(k) = "rebuildComplete") <=> (k = "rebuild")
    BY DEF Kinds, CompletionOf
  <2>4. /\ Cardinality(OnBus(d, "complete", p)) = bn + jn
        /\ Cardinality(OnBus(d, "rebuildComplete", p)) = br + jr
    BY <1>2, <2>3 DEF Completions
  <2>5. m.queued[p] = hn + bn /\ m.numRebuild[p] - m.rebuild[p] = hr + br
    BY DEF Balanced
  <2>6. jn \in Int /\ jr \in Int OBVIOUS
  <2> HIDE DEF hn, hr, bn, br, jn, jr
  <2> QED BY <2>1, <2>2, <2>4, <2>5, <2>6
<1> QED BY <1>4, <1>5 DEF Balanced, d, t

\* An idle worker is given a work order.
LEMMA DispatchBalance ==
  ASSUME NEW m \in QMType, NEW f \in QMType, NEW s \in [Workers -> WorkOrder \cup {Idle}], NEW c,
         Balanced(m, s, c), NEW w \in Workers, s[w] = Idle, NEW k \in Kinds, NEW o \in Ops,
         \A p \in Ops : f.queued[p] = m.queued[p] + (IF k = "normal" /\ o = p THEN 1 ELSE 0),
         \A p \in Ops : f.rebuild[p] = m.rebuild[p] - (IF k = "rebuild" /\ o = p THEN 1 ELSE 0),
         \A p \in Ops : f.numRebuild[p] = m.numRebuild[p]
  PROVE  Balanced(f, [s EXCEPT ![w] = [kind |-> k, op |-> o]], c)
<1> DEFINE t == [s EXCEPT ![w] = [kind |-> k, op |-> o]]
<1>3. ASSUME NEW kind \in Kinds, NEW p \in Ops
      PROVE  /\ IsFiniteSet(HeldIn(t, kind, p))
             /\ Cardinality(HeldIn(t, kind, p)) = Cardinality(HeldIn(s, kind, p))
                  + (IF k = kind /\ o = p THEN 1 ELSE 0)
  <2>1. IsFiniteSet(HeldIn(s, kind, p)) BY <1>3 DEF Balanced, Finite
  <2>2. /\ \A v \in Workers : v # w => t[v] = s[v]
        /\ s[w].kind \notin Kinds /\ t[w].kind = k /\ t[w].op = o
    BY DEF Idle, Kinds
  <2> HIDE DEF t
  <2> QED BY <2>1, <2>2, HeldPut
<1> HIDE DEF t
<1>4. Finite(t, c) BY <1>3 DEF Finite, Balanced
<1>5. ASSUME NEW p \in Ops
      PROVE  /\ f.queued[p] = Cardinality(HeldIn(t, "normal", p)) + Cardinality(OnBus(c, "complete", p))
             /\ f.numRebuild[p] - f.rebuild[p] = Cardinality(HeldIn(t, "rebuild", p))
                                           + Cardinality(OnBus(c, "rebuildComplete", p))
  <2> DEFINE hn == Cardinality(HeldIn(s, "normal", p))
             hr == Cardinality(HeldIn(s, "rebuild", p))
             bn == Cardinality(OnBus(c, "complete", p))
             br == Cardinality(OnBus(c, "rebuildComplete", p))
             jn == IF k = "normal" /\ o = p THEN 1 ELSE 0
             jr == IF k = "rebuild" /\ o = p THEN 1 ELSE 0
  <2>1. hn \in Nat /\ hr \in Nat /\ bn \in Nat /\ br \in Nat
    BY FiniteNats DEF Kinds, Completions, Balanced
  <2>2. /\ Cardinality(HeldIn(t, "normal", p)) = hn + jn
        /\ Cardinality(HeldIn(t, "rebuild", p)) = hr + jr
    BY <1>3 DEF Kinds
  <2>3. m.queued[p] = hn + bn /\ m.numRebuild[p] - m.rebuild[p] = hr + br
    BY DEF Balanced
  <2>4. jn \in Int /\ jr \in Int /\ f.queued[p] = m.queued[p] + jn /\ f.rebuild[p] = m.rebuild[p] - jr
        /\ f.numRebuild[p] = m.numRebuild[p]
    OBVIOUS
  <2>5. m.queued[p] \in Int /\ m.numRebuild[p] \in Int /\ m.rebuild[p] \in Int BY DEF QMType
  <2> HIDE DEF hn, hr, bn, br, jn, jr
  <2>6. f.queued[p] = hn + jn + bn /\ f.numRebuild[p] - f.rebuild[p] = hr + jr + br
    BY <2>1, <2>3, <2>4, <2>5
  <2>7. (hn + jn) + bn = hn + jn + bn /\ (hr + jr) + br = hr + jr + br OBVIOUS
  <2> QED BY <2>2, <2>6 DEF bn, br
<1> QED BY <1>4, <1>5 DEF Balanced, t

-----------------------------------------------------------------------------
\* Every message on a bus c is followed, on its channel, by the completion of
\* the work order that sent it, and only a normal work order sends feedback.
TrailedSeq(s) ==
    \A i \in DOMAIN s : \E j \in DOMAIN s :
      /\ i <= j /\ s[j].op = s[i].op /\ s[j].type \in Completions
      /\ s[i].type = "feedback" => s[j].type = "complete"
Trailed(c) == \A w \in Workers : TrailedSeq(c[w])

\* The InsertDestination of an operator that has started its rebuild is empty.
Drained == \A o \in Ops : o \in qm.rebuildInit => partial[o] = 0

XInv ==
    /\ IInv /\ MemoryExact(qm) /\ Balanced(qm, slot, chan) /\ Trailed(chan) /\ Drained

LEMMA TailFacts ==
  ASSUME NEW s \in Seq(Message), s # <<>>
  PROVE  /\ Head(s) = s[1] /\ Head(s) \in Message /\ 1 \in DOMAIN s
         /\ \A i \in DOMAIN Tail(s) : i \in Int /\ i + 1 \in DOMAIN s /\ Tail(s)[i] = s[i + 1]
         /\ \A j \in DOMAIN s : j \in Int /\ j >= 1
              /\ (j > 1 => j - 1 \in DOMAIN Tail(s) /\ Tail(s)[j - 1] = s[j])
OBVIOUS

LEMMA TrailTake ==
  ASSUME NEW c \in [Workers -> Seq(Message)], NEW w \in Workers, c[w] # <<>>, Trailed(c)
  PROVE  LET d == [c EXCEPT ![w] = Tail(@)]
         IN  /\ Trailed(d)
             /\ Head(c[w]).type = "feedback" => \E j \in DOMAIN d[w] :
                   d[w][j].op = Head(c[w]).op /\ d[w][j].type = "complete"
<1> DEFINE d == [c EXCEPT ![w] = Tail(@)]
           s == c[w]
<1>1. d[w] = Tail(s) /\ \A v \in Workers : v # w => d[v] = c[v] OBVIOUS
<1>2. /\ Head(s) = s[1] /\ 1 \in DOMAIN s
      /\ \A i \in DOMAIN Tail(s) : i \in Int /\ i + 1 \in DOMAIN s /\ Tail(s)[i] = s[i + 1]
      /\ \A j \in DOMAIN s : j \in Int /\ j >= 1
           /\ (j > 1 => j - 1 \in DOMAIN Tail(s) /\ Tail(s)[j - 1] = s[j])
  BY TailFacts
<1>3. \A i \in DOMAIN s : \E j \in DOMAIN s :
        /\ i <= j /\ s[j].op = s[i].op /\ s[j].type \in Completions
        /\ s[i].type = "feedback" => s[j].type = "complete"
  BY DEF Trailed, TrailedSeq
<1> HIDE DEF d, s
<1>4. ASSUME NEW i \in DOMAIN Tail(s)
      PROVE  \E j \in DOMAIN Tail(s) :
               /\ i <= j /\ Tail(s)[j].op = Tail(s)[i].op /\ Tail(s)[j].type \in Completions
               /\ Tail(s)[i].type = "feedback" => Tail(s)[j].type = "complete"
  <2>1. i \in Int /\ i + 1 \in DOMAIN s /\ Tail(s)[i] = s[i + 1] /\ i + 1 > 1
    BY <1>2
  <2>2. PICK j \in DOMAIN s :
          /\ i + 1 <= j /\ s[j].op = s[i + 1].op /\ s[j].type \in Completions
          /\ s[i + 1].type = "feedback" => s[j].type = "complete"
    BY <1>3, <2>1
  <2>3. j \in Int /\ j > 1 /\ i <= j - 1 /\ j - 1 \in DOMAIN Tail(s) /\ Tail(s)[j - 1] = s[j]
    BY <1>2, <2>1, <2>2
  <2> QED BY <2>1, <2>2, <2>3
<1>5. Head(s).type = "feedback" => \E j \in DOMAIN Tail(s) :
         Tail(s)[j].op = Head(s).op /\ Tail(s)[j].type = "complete"
  <2> SUFFICES ASSUME Head(s).type = "feedback"
               PROVE  \E j \in DOMAIN Tail(s) :
                        Tail(s)[j].op = Head(s).op /\ Tail(s)[j].type = "complete"
    OBVIOUS
  <2>1. PICK j \in DOMAIN s : s[j].op = s[1].op /\ s[j].type = "complete"
    BY <1>2, <1>3
  <2>2. j # 1 BY <1>2, <2>1
  <2>3. j > 1 BY <1>2, <2>2
  <2> QED BY <1>2, <2>1, <2>3
<1>6. Trailed(d)
  <2>1. TrailedSeq(Tail(s)) BY <1>4 DEF TrailedSeq
  <2> QED BY <1>1, <2>1 DEF Trailed
<1> QED BY <1>1, <1>5, <1>6 DEF d, s

LEMMA TrailAppend ==
  ASSUME NEW c \in [Workers -> Seq(Message)], NEW w \in Workers, Trailed(c), NEW o,
         NEW msgs \in Seq(Message), NEW last \in Message, last.op = o,
         last.type \in Completions,
         \A i \in DOMAIN msgs : /\ msgs[i].op = o
                                /\ msgs[i].type = "feedback" => last.type = "complete"
  PROVE  Trailed([c EXCEPT ![w] = @ \o (msgs \o <<last>>)])
<1> DEFINE a == c[w]
           t == msgs \o <<last>>
           s == a \o t
           d == [c EXCEPT ![w] = @ \o (msgs \o <<last>>)]
           e == Len(a) + Len(t)
<1>1. /\ t \in Seq(Message) /\ Len(t) = Len(msgs) + 1 /\ t[Len(t)] = last
      /\ \A i \in 1 .. Len(t) : i # Len(t) => i \in DOMAIN msgs /\ t[i] = msgs[i]
  OBVIOUS
<1>2. a \in Seq(Message) /\ Len(a) \in Nat /\ Len(msgs) \in Nat /\ DOMAIN a = 1 .. Len(a)
  OBVIOUS
<1>3. d[w] = s /\ \A v \in Workers : v # w => d[v] = c[v] OBVIOUS
<1>4. \A i \in DOMAIN a : \E j \in DOMAIN a :
        /\ i <= j /\ a[j].op = a[i].op /\ a[j].type \in Completions
        /\ a[i].type = "feedback" => a[j].type = "complete"
  BY DEF Trailed, TrailedSeq
<1>5. \A i \in 1 .. Len(t) : t[i].op = o /\ (t[i].type = "feedback" => last.type = "complete")
  <2> SUFFICES ASSUME NEW i \in 1 .. Len(t)
               PROVE  t[i].op = o /\ (t[i].type = "feedback" => last.type = "complete")
    OBVIOUS
  <2>1. last.type \in Completions => (last.type = "feedback" => last.type = "complete")
    BY DEF Completions
  <2> HIDE DEF t
  <2>2. CASE i = Len(t) BY <1>1, <2>1, <2>2
  <2>3. CASE i # Len(t)
    <3>1. i \in DOMAIN msgs /\ t[i] = msgs[i] BY <1>1, <2>3
    <3> QED BY <3>1
  <2> QED BY <2>2, <2>3
<1> HIDE DEF a, t, d
<1>6. /\ Len(s) = e /\ DOMAIN s = 1 .. e
      /\ \A i \in 1 .. Len(a) : s[i] = a[i]
      /\ \A i \in 1 .. e : i > Len(a) => s[i] = t[i - Len(a)]
  <2>1. s \in Seq(Message) /\ Len(s) = Len(a) + Len(t) BY <1>1, <1>2, Concatenation
  <2> QED BY <1>1, <1>2, <2>1, Concatenation
<1>7. e \in 1 .. e /\ s[e] = last /\ Len(t) \in Nat
  <2>1. e \in 1 .. e /\ e > Len(a) /\ e - Len(a) = Len(t) BY <1>1, <1>2
  <2> QED BY <1>1, <1>2, <1>6, <2>1
<1> HIDE DEF s, e
<1>8. ASSUME NEW i \in DOMAIN s
      PROVE  \E j \in DOMAIN s :
               /\ i <= j /\ s[j].op = s[i].op /\ s[j].type \in Completions
               /\ s[i].type = "feedback" => s[j].type = "complete"
  <2>0. i \in 1 .. e /\ i \in Int /\ Len(a) \in Int /\ i <= e BY <1>2, <1>6, <1>7
  <2>1. CASE i <= Len(a)
    <3>1. i \in 1 .. Len(a) /\ i \in DOMAIN a BY <1>2, <2>0, <2>1
    <3>2. PICK j \in DOMAIN a : /\ i <= j /\ a[j].op = a[i].op /\ a[j].type \in Completions
                                /\ a[i].type = "feedback" => a[j].type = "complete"
      BY <1>4, <3>1
    <3>3. j \in DOMAIN s /\ s[j] = a[j] /\ s[i] = a[i]
      <4>1. j \in 1 .. Len(a) /\ j \in 1 .. e BY <1>1, <1>2, <3>2 DEF e
      <4> QED BY <1>6, <3>1, <4>1
    <3> QED BY <3>2, <3>3
  <2>2. CASE i > Len(a)
    <3>1. i - Len(a) \in 1 .. Len(t) /\ s[i] = t[i - Len(a)]
      BY <1>1, <1>2, <1>6, <2>0, <2>2 DEF e
    <3>2. s[i].op = o /\ (s[i].type = "feedback" => last.type = "complete")
      BY <1>5, <3>1
    <3>3. e \in DOMAIN s /\ i <= e /\ s[e] = last BY <1>6, <1>7, <2>0
    <3> QED BY <3>2, <3>3
  <2> QED BY <2>0, <2>1, <2>2
<1>9. Trailed(d)
  <2>1. TrailedSeq(s) BY <1>8 DEF TrailedSeq
  <2> QED BY <1>3, <2>1 DEF Trailed
<1> QED BY <1>9 DEF d

\* A message on the bus means that its operator is at work.
LEMMA MessageMeansBusy ==
  ASSUME XInv, NEW w \in Workers, NEW i \in DOMAIN chan[w]
  PROVE  /\ chan[w][i].op \in Ops /\ chan[w][i].op \notin qm.finished
         /\ \A c \in Consumers(chan[w][i].op) : c \in Ops /\ c \notin qm.doneGen
<1> DEFINE o == chan[w][i].op
<1>1. chan[w] \in Seq(Message) /\ qm \in QMType BY DEF XInv, IInv, TypeOK
<1>2. o \in Ops
  <2>1. chan[w][i] \in Message BY <1>1
  <2> QED BY <2>1 DEF Message
<1>3. PICK j \in DOMAIN chan[w] : chan[w][j].op = o /\ chan[w][j].type \in Completions
  BY DEF XInv, Trailed, TrailedSeq
<1>4. chan[w][j] \in Message BY <1>1
<1>5. chan[w][j] = [type |-> chan[w][j].type, op |-> o] BY <1>3, <1>4 DEF Message
<1>6. PICK type \in Completions : <<w, j>> \in OnBus(chan, type, o)
  BY <1>3, <1>5, OnBusMember
<1>7. Balanced(qm, slot, chan) /\ Finite(slot, chan) BY DEF XInv, Balanced
<1> HIDE DEF o
<1>8. Cardinality(OnBus(chan, type, o)) \in Nat /\ Cardinality(OnBus(chan, type, o)) # 0
  <2>1. IsFiniteSet(OnBus(chan, type, o)) BY <1>2, <1>6, <1>7 DEF Finite
  <2>2. Cardinality(OnBus(chan, type, o)) \in Nat BY <2>1, FS_CardinalityType
  <2>3. Cardinality(OnBus(chan, type, o)) = 0 <=> OnBus(chan, type, o) = {}
    BY <2>1, FS_EmptySet
  <2> QED BY <1>6, <2>2, <2>3
<1>9. qm.queued[o] # 0 \/ qm.numRebuild[o] # qm.rebuild[o]
  <2>1. /\ Cardinality(HeldIn(slot, "normal", o)) \in Nat
        /\ Cardinality(HeldIn(slot, "rebuild", o)) \in Nat
    BY <1>2, <1>7, FiniteNats DEF Kinds
  <2>2. /\ qm.queued[o] = Cardinality(HeldIn(slot, "normal", o)) + Cardinality(OnBus(chan, "complete", o))
        /\ qm.numRebuild[o] - qm.rebuild[o] = Cardinality(HeldIn(slot, "rebuild", o))
                                           + Cardinality(OnBus(chan, "rebuildComplete", o))
    BY <1>2, <1>7 DEF Balanced
  <2>3. qm.numRebuild[o] \in Int /\ qm.rebuild[o] \in Int BY <1>1, <1>2 DEF QMType
  <2>4. CASE type = "complete" BY <1>8, <2>1, <2>2, <2>4
  <2>5. CASE type = "rebuildComplete" BY <1>8, <2>1, <2>2, <2>3, <2>5
  <2> QED BY <2>4, <2>5 DEF Completions
<1>10. o \notin qm.finished BY <1>2, <1>9 DEF XInv, MemoryExact
<1>11. \A c \in Consumers(o) : c \in Ops /\ c \notin qm.doneGen
  BY <1>2, <1>10 DEF XInv, MemoryExact, Consumers, Streams
<1> QED BY <1>2, <1>10, <1>11 DEF o

-----------------------------------------------------------------------------
\* One step of the manager's memory from m to f leaves the set of finished
\* operators as it is, or adds operator o to it and counts it.
FinishesAtMost(m, f, o) ==
    \/ f.finished = m.finished /\ f.numFinished = m.numFinished
    \/ f.finished = m.finished \cup {o} /\ f.numFinished = m.numFinished + 1

LEMMA InformExact ==
  ASSUME NEW m, Exact(m), NEW o \in Ops
  PROVE  LET f == [m EXCEPT !.informed = @ \cup {o}]
         IN  /\ Exact(f) /\ SameCounts(m, f) /\ o \in f.informed
             /\ f.finished = m.finished /\ f.numFinished = m.numFinished
             /\ f.avail = m.avail /\ f.rebuildInit = m.rebuildInit
<1> DEFINE i == m.informed \cup {o}
           f == [m EXCEPT !.informed = i]
<1>1. m \in QMType /\ MemoryExact(m) BY DEF Exact
<1>2. i \in SUBSET Ops BY <1>1 DEF QMType
<1>3. f = [m EXCEPT !.informed = @ \cup {o}] BY <1>1 DEF QMType
<1>4. m.informed \subseteq i /\ o \in i OBVIOUS
<1> HIDE DEF i
<1>5. f \in QMType BY <1>1, <1>2 DEF QMType
<1>6. /\ f.finished = m.finished /\ f.informed = i /\ f.numFinished = m.numFinished
      /\ f.normal = m.normal /\ f.queued = m.queued /\ f.rebuild = m.rebuild
      /\ f.numRebuild = m.numRebuild /\ f.rebuildInit = m.rebuildInit /\ f.avail = m.avail
      /\ f.rounds = m.rounds /\ f.doneGen = m.doneGen /\ f.doneFeeding = m.doneFeeding
  BY <1>1 DEF QMType
<1> HIDE DEF f
<1>7. MemoryExact(f) BY <1>1, <1>6 DEF MemoryExact
<1>8. SameCounts(m, f) BY <1>4, <1>6 DEF SameCounts
<1> QED BY <1>3, <1>4, <1>5, <1>6, <1>7, <1>8 DEF Exact

LEMMA XFacts ==
  ASSUME XInv
  PROVE  /\ TypeOK /\ WellFormed(plan) /\ Exact(qm) /\ qm \in QMType
         /\ partial \in [Ops -> Nat] /\ Balanced(qm, slot, chan) /\ Trailed(chan) /\ Drained
         /\ slot \in [Workers -> WorkOrder \cup {Idle}] /\ chan \in [Workers -> Seq(Message)]
BY DEF XInv, IInv, TypeOK, Exact

LEMMA ConstructExact ==
  ASSUME XInv, ConstructOperator
  PROVE  /\ Exact(qm') /\ SameCounts(qm, qm') /\ cursor \in Ops
         /\ FinishesAtMost(qm, qm', cursor)
         /\ \A p \in Ops : p # cursor => qm'.avail[p] = qm.avail[p]
         /\ Blocking(cursor) \subseteq qm.finished => qm'.avail[cursor] = 0
<1> DEFINE m == [qm EXCEPT !.informed = @ \cup {cursor}]
<1>1. WellFormed(plan) /\ Exact(qm) /\ partial \in [Ops -> Nat] BY XFacts
<1>2. cursor \in Ops
  BY NAssumption DEF XInv, IInv, TypeOK, ConstructOperator, Ops
<1>3. CASE checkAllBlockingDependenciesMet(qm, cursor)
  <2>1. /\ Exact(m) /\ SameCounts(qm, m) /\ cursor \in m.informed
        /\ m.finished = qm.finished /\ m.numFinished = qm.numFinished
        /\ m.avail = qm.avail /\ m.rebuildInit = qm.rebuildInit
    BY <1>1, <1>2, InformExact
  <2>2. qm' = processOperator(m, cursor) BY <1>3 DEF ConstructOperator
  <2> HIDE DEF m
  <2>3. /\ Exact(qm') /\ SameCounts(m, qm')
        /\ \A p \in Ops : p # cursor => qm'.avail[p] = m.avail[p]
        /\ Blocking(cursor) \subseteq m.finished /\ cursor \in m.informed => qm'.avail[cursor] = 0
        /\ FinishesAtMost(m, qm', cursor)
    BY <1>1, <1>2, <2>1, <2>2, ProcessExact DEF FinishesAtMost
  <2>4. SameCounts(qm, qm') BY <2>1, <2>3 DEF SameCounts
  <2> QED BY <1>2, <2>1, <2>3, <2>4 DEF FinishesAtMost
<1>4. CASE ~checkAllBlockingDependenciesMet(qm, cursor)
  <2>1. qm' = qm BY <1>4 DEF ConstructOperator
  <2> QED BY <1>1, <1>2, <1>4, <2>1
          DEF SameCounts, FinishesAtMost, checkAllBlockingDependenciesMet
<1> QED BY <1>3, <1>4

\* What a visit to the dependent d does to the manager's memory and to the stack.
LEMMA VisitExact ==
  ASSUME XInv, NEW d \in Ops,
         IF checkAllBlockingDependenciesMet(qm, d)
         THEN qm' = processOperator(qm, d) ELSE qm' = qm
  PROVE  /\ Exact(qm') /\ SameCounts(qm, qm')
         /\ \A p \in Ops : p # d => qm'.avail[p] = qm.avail[p]
         /\ Blocking(d) \subseteq qm.finished /\ d \in qm.informed => qm'.avail[d] = 0
         /\ \/ qm'.finished = qm.finished /\ qm'.numFinished = qm.numFinished
            \/ /\ qm'.finished = qm.finished \cup {d}
               /\ qm'.numFinished = qm.numFinished + 1
               /\ reachesDependents(qm, d) /\ checkAllBlockingDependenciesMet(qm, d)
<1>1. WellFormed(plan) /\ Exact(qm) /\ partial \in [Ops -> Nat] BY XFacts
<1>2. CASE checkAllBlockingDependenciesMet(qm, d)
  <2>1. qm' = processOperator(qm, d) BY <1>2
  <2> QED BY <1>1, <1>2, <2>1, ProcessExact
<1>3. CASE ~checkAllBlockingDependenciesMet(qm, d)
  <2>1. qm' = qm BY <1>3
  <2> QED BY <1>1, <1>3, <2>1 DEF SameCounts, checkAllBlockingDependenciesMet
<1> QED BY <1>2, <1>3

\* Taking the first message off channel w: a completion was counted, and what
\* is left on the bus balances the counters without it.
LEMMA TakeFacts ==
  ASSUME XInv, NEW w \in Workers, NEW type, Receives(w, type)
  PROVE  /\ Head(chan[w]) \in Message /\ Head(chan[w]).op \in Ops /\ Head(chan[w]).type = type
         /\ chan[w] # <<>> /\ chan' = [chan EXCEPT ![w] = Tail(@)]
         /\ Trailed(chan') /\ UNCHANGED <<plan, cursor, slot>>
         /\ Head(chan[w]).op \notin qm.finished
         /\ \A c \in Consumers(Head(chan[w]).op) : c \in Ops /\ c \notin qm.doneGen
         /\ type = "feedback" => \E j \in DOMAIN chan'[w] :
               chan'[w][j].op = Head(chan[w]).op /\ chan'[w][j].type = "complete"
<1>1. chan \in [Workers -> Seq(Message)] /\ TypeOK /\ Trailed(chan) BY XFacts
<1>2. /\ chan[w] # <<>> /\ chan' = [chan EXCEPT ![w] = Tail(@)] /\ Head(chan[w]).type = type
      /\ UNCHANGED <<plan, cursor, slot>>
  BY DEF Receives
<1>3. chan[w] \in Seq(Message) BY <1>1
<1>4. Head(chan[w]) = chan[w][1] /\ Head(chan[w]) \in Message /\ 1 \in DOMAIN chan[w]
  BY <1>2, <1>3, TailFacts
<1>5. Head(chan[w]).op \in Ops BY <1>4 DEF Message
<1>6. /\ Head(chan[w]).op \notin qm.finished
      /\ \A c \in Consumers(Head(chan[w]).op) : c \in Ops /\ c \notin qm.doneGen
  BY <1>4, MessageMeansBusy
<1>7. /\ Trailed(chan')
      /\ Head(chan[w]).type = "feedback" => \E j \in DOMAIN chan'[w] :
            chan'[w][j].op = Head(chan[w]).op /\ chan'[w][j].type = "complete"
  BY <1>1, <1>2, TrailTake
<1> QED BY <1>2, <1>4, <1>5, <1>6, <1>7

LEMMA DecQueuedExact ==
  ASSUME NEW m \in QMType, NEW o \in Ops
  PROVE  LET f == [m EXCEPT !.queued[o] = @ - 1]
         IN  /\ f \in QMType /\ f.avail = m.avail /\ f.finished = m.finished
             /\ f.numFinished = m.numFinished /\ f.rebuildInit = m.rebuildInit
             /\ f.informed = m.informed
             /\ \A p \in Ops : f.queued[p] = m.queued[p] - (IF p = o THEN 1 ELSE 0)
             /\ f.numRebuild = m.numRebuild /\ f.rebuild = m.rebuild
             /\ MemoryExact(m) /\ m.queued[o] > 0 => MemoryExact(f)
<1> DEFINE q == [m.queued EXCEPT ![o] = @ - 1]
           f == [m EXCEPT !.queued = q]
<1>1. m \in QMType OBVIOUS
<1>2. m.queued \in [Ops -> Int] BY <1>1 DEF QMType
<1>3. q \in [Ops -> Int] /\ \A p \in Ops : q[p] = m.queued[p] - (IF p = o THEN 1 ELSE 0)
  BY <1>2
<1>4. f = [m EXCEPT !.queued[o] = @ - 1] BY <1>1 DEF QMType
<1>5. \A p \in Ops : p # o => q[p] = m.queued[p] BY <1>2
<1> HIDE DEF q
<1>6. f \in QMType BY <1>1, <1>3 DEF QMType
<1>7. /\ f.finished = m.finished /\ f.informed = m.informed /\ f.numFinished = m.numFinished
      /\ f.normal = m.normal /\ f.queued = q /\ f.rebuild = m.rebuild
      /\ f.numRebuild = m.numRebuild /\ f.rebuildInit = m.rebuildInit /\ f.avail = m.avail
      /\ f.rounds = m.rounds /\ f.doneGen = m.doneGen /\ f.doneFeeding = m.doneFeeding
  BY <1>1 DEF QMType
<1> HIDE DEF f
<1>8. ASSUME MemoryExact(m), m.queued[o] > 0 PROVE MemoryExact(f)
  <2>1. o \notin m.rebuildInit /\ o \notin m.finished BY <1>8 DEF MemoryExact
  <2> QED BY <1>5, <1>7, <1>8, <2>1 DEF MemoryExact
<1> QED BY <1>3, <1>4, <1>6, <1>7, <1>8

LEMMA DecRebuildExact ==
  ASSUME NEW m \in QMType, NEW o \in Ops
  PROVE  LET f == [m EXCEPT !.numRebuild[o] = @ - 1]
         IN  /\ f \in QMType /\ f.avail = m.avail /\ f.finished = m.finished
             /\ f.numFinished = m.numFinished /\ f.rebuildInit = m.rebuildInit
             /\ f.informed = m.informed
             /\ \A p \in Ops : f.numRebuild[p] = m.numRebuild[p] - (IF p = o THEN 1 ELSE 0)
             /\ f.queued = m.queued /\ f.rebuild = m.rebuild
             /\ MemoryExact(m) /\ m.numRebuild[o] > m.rebuild[o] => MemoryExact(f) /\ o \in f.rebuildInit
<1> DEFINE q == [m.numRebuild EXCEPT ![o] = @ - 1]
           f == [m EXCEPT !.numRebuild = q]
<1>1. m \in QMType OBVIOUS
<1>2. m.numRebuild \in [Ops -> Int] /\ m.rebuild[o] \in Nat BY <1>1 DEF QMType
<1>3. q \in [Ops -> Int] /\ \A p \in Ops : q[p] = m.numRebuild[p] - (IF p = o THEN 1 ELSE 0)
  BY <1>2
<1>4. f = [m EXCEPT !.numRebuild[o] = @ - 1] BY <1>1 DEF QMType
<1>5. \A p \in Ops : p # o => q[p] = m.numRebuild[p] BY <1>2
<1> HIDE DEF q
<1>6. f \in QMType BY <1>1, <1>3 DEF QMType
<1>7. /\ f.finished = m.finished /\ f.informed = m.informed /\ f.numFinished = m.numFinished
      /\ f.normal = m.normal /\ f.queued = m.queued /\ f.rebuild = m.rebuild
      /\ f.numRebuild = q /\ f.rebuildInit = m.rebuildInit /\ f.avail = m.avail
      /\ f.rounds = m.rounds /\ f.doneGen = m.doneGen /\ f.doneFeeding = m.doneFeeding
  BY <1>1 DEF QMType
<1> HIDE DEF f
<1>8. ASSUME MemoryExact(m), m.numRebuild[o] > m.rebuild[o] PROVE MemoryExact(f) /\ o \in f.rebuildInit
  <2>1. o \in m.rebuildInit /\ o \notin m.finished BY <1>2, <1>8 DEF MemoryExact
  <2> QED BY <1>5, <1>7, <1>8, <2>1 DEF MemoryExact
<1> QED BY <1>3, <1>4, <1>6, <1>7, <1>8

LEMMA CompleteExact ==
  ASSUME XInv, NEW w \in Workers, processWorkOrderCompleteMessage(w)
  PROVE  LET o == Head(chan[w]).op
         IN  /\ Exact(qm') /\ Balanced(qm', slot', chan') /\ qm.rebuildInit \subseteq qm'.rebuildInit
             /\ qm.finished \subseteq qm'.finished
             /\ \A p \in Ops : p # o => qm'.avail[p] = qm.avail[p]
             /\ Blocking(o) \subseteq qm.finished /\ o \in qm.informed => qm'.avail[o] = 0
             /\ FinishesAtMost(qm, qm', o)
<1> DEFINE o == Head(chan[w]).op
           dec == [qm EXCEPT !.queued[o] = @ - 1]
           g == fetchNormalWorkOrders(dec, o)
<1>1. /\ WellFormed(plan) /\ Exact(qm) /\ qm \in QMType /\ partial \in [Ops -> Nat]
      /\ Balanced(qm, slot, chan) /\ chan \in [Workers -> Seq(Message)]
  BY XFacts
<1>2. Receives(w, "complete") BY DEF processWorkOrderCompleteMessage
<1>3. /\ Head(chan[w]) \in Message /\ o \in Ops /\ Head(chan[w]).type = "complete"
      /\ chan[w] # <<>> /\ chan' = [chan EXCEPT ![w] = Tail(@)] /\ slot' = slot
      /\ o \notin qm.finished
  BY <1>2, TakeFacts
<1>4. qm' = finishIfOver(g, o) BY DEF processWorkOrderCompleteMessage
<1>5. /\ dec \in QMType /\ dec.avail = qm.avail /\ dec.finished = qm.finished
      /\ dec.numFinished = qm.numFinished /\ dec.rebuildInit = qm.rebuildInit
      /\ dec.informed = qm.informed
      /\ \A p \in Ops : dec.queued[p] = qm.queued[p] - (IF p = o THEN 1 ELSE 0)
      /\ dec.numRebuild = qm.numRebuild /\ dec.rebuild = qm.rebuild
      /\ MemoryExact(qm) /\ qm.queued[o] > 0 => MemoryExact(dec)
  BY <1>1, <1>3, DecQueuedExact
<1> HIDE DEF dec
<1>6. Takes(qm, dec, Head(chan[w]))
  <2>1. \A p \in Ops : qm.numRebuild[p] \in Int BY <1>1 DEF QMType
  <2> QED BY <1>3, <1>5, <2>1 DEF Takes
<1>7. Balanced(dec, slot, [chan EXCEPT ![w] = Tail(@)]) /\ qm.queued[o] > 0
  BY <1>1, <1>3, <1>5, <1>6, TakeBalance
<1>8. Exact(dec) BY <1>1, <1>5, <1>7 DEF Exact
<1>9. /\ Exact(g) /\ SameCounts(dec, g)
      /\ g.finished = dec.finished /\ g.numFinished = dec.numFinished
      /\ g.rebuildInit = dec.rebuildInit
      /\ \A p \in Ops : p # o => g.avail[p] = dec.avail[p]
      /\ Blocking(o) \subseteq dec.finished /\ o \in dec.informed => g.avail[o] = 0
  BY <1>1, <1>3, <1>8, FetchExact
<1> HIDE DEF g
<1>10. /\ Exact(qm') /\ SameCounts(g, qm') /\ qm'.avail = g.avail
       /\ FinishesAtMost(g, qm', o)
  BY <1>1, <1>3, <1>4, <1>9, FinishExact DEF FinishesAtMost
<1>11. Balanced(g, slot, chan') BY <1>3, <1>7, <1>9, SameBalance
<1>12. Balanced(qm', slot', chan')
  BY <1>3, <1>10, <1>11, SameBalance
<1> HIDE DEF o
<1>13. qm.rebuildInit \subseteq qm'.rebuildInit /\ qm.finished \subseteq qm'.finished
  BY <1>5, <1>9, <1>10 DEF SameCounts
<1>14. FinishesAtMost(qm, qm', o) BY <1>5, <1>9, <1>10 DEF FinishesAtMost
<1> QED BY <1>5, <1>9, <1>10, <1>12, <1>13, <1>14 DEF o

LEMMA RebuildExact ==
  ASSUME XInv, NEW w \in Workers, processRebuildWorkOrderCompleteMessage(w)
  PROVE  LET o == Head(chan[w]).op
         IN  /\ Exact(qm') /\ Balanced(qm', slot', chan') /\ qm'.rebuildInit = qm.rebuildInit
             /\ qm'.avail = qm.avail
             /\ \/ /\ qm'.finished = qm.finished /\ qm'.numFinished = qm.numFinished
                   /\ stack' = stack
                \/ /\ qm'.finished = qm.finished \cup {o} /\ qm'.numFinished = qm.numFinished + 1
                   /\ stack' = Push(stack, Dependents(o))
<1> DEFINE o == Head(chan[w]).op
           dec == [qm EXCEPT !.numRebuild[o] = @ - 1]
<1>1. /\ WellFormed(plan) /\ Exact(qm) /\ qm \in QMType /\ partial \in [Ops -> Nat]
      /\ Balanced(qm, slot, chan) /\ chan \in [Workers -> Seq(Message)]
  BY XFacts
<1>2. Receives(w, "rebuildComplete") BY DEF processRebuildWorkOrderCompleteMessage
<1>3. /\ Head(chan[w]) \in Message /\ o \in Ops /\ Head(chan[w]).type = "rebuildComplete"
      /\ chan[w] # <<>> /\ chan' = [chan EXCEPT ![w] = Tail(@)] /\ slot' = slot
      /\ o \notin qm.finished
  BY <1>2, TakeFacts
<1>4. \/ /\ checkRebuildOver(dec, o) /\ qm' = markOperatorFinished(dec, o)
         /\ stack' = Push(stack, Dependents(o))
      \/ qm' = dec /\ stack' = stack
  BY DEF processRebuildWorkOrderCompleteMessage
<1>5. /\ dec \in QMType /\ dec.avail = qm.avail /\ dec.finished = qm.finished
      /\ dec.numFinished = qm.numFinished /\ dec.rebuildInit = qm.rebuildInit
      /\ dec.informed = qm.informed
      /\ \A p \in Ops : dec.numRebuild[p] = qm.numRebuild[p] - (IF p = o THEN 1 ELSE 0)
      /\ dec.queued = qm.queued /\ dec.rebuild = qm.rebuild
      /\ MemoryExact(qm) /\ qm.numRebuild[o] > qm.rebuild[o]
           => MemoryExact(dec) /\ o \in dec.rebuildInit
  BY <1>1, <1>3, DecRebuildExact
<1> HIDE DEF dec
<1>6. Takes(qm, dec, Head(chan[w]))
  <2>1. \A p \in Ops : qm.queued[p] \in Int BY <1>1 DEF QMType
  <2> QED BY <1>3, <1>5, <2>1 DEF Takes
<1>7. Balanced(dec, slot, [chan EXCEPT ![w] = Tail(@)]) /\ qm.numRebuild[o] > qm.rebuild[o]
  BY <1>1, <1>3, <1>5, <1>6, TakeBalance
<1>8. Exact(dec) /\ o \in dec.rebuildInit BY <1>1, <1>5, <1>7 DEF Exact
<1>9. Balanced(dec, slot', chan') BY <1>3, <1>7
<1> HIDE DEF o
<1>10. CASE /\ checkRebuildOver(dec, o) /\ qm' = markOperatorFinished(dec, o)
            /\ stack' = Push(stack, Dependents(o))
  <2>1. /\ o \in dec.doneGen /\ dec.normal[o] = 0 /\ dec.queued[o] = 0
        /\ Dependencies(o) \subseteq dec.finished
    BY <1>3, <1>8 DEF Exact, MemoryExact
  <2>2. dec.rebuild[o] = 0 /\ dec.numRebuild[o] = 0 BY <1>10 DEF checkRebuildOver
  <2>3. /\ Exact(qm') /\ SameCounts(dec, qm')
        /\ qm'.finished = dec.finished \cup {o} /\ qm'.numFinished = dec.numFinished + 1
        /\ qm'.avail = dec.avail /\ qm'.rebuildInit = dec.rebuildInit
    BY <1>1, <1>3, <1>8, <1>10, <2>1, <2>2, MarkExact
  <2>4. Balanced(qm', slot', chan') BY <1>9, <2>3, SameBalance
  <2> QED BY <1>5, <1>10, <2>3, <2>4 DEF o
<1>11. CASE qm' = dec /\ stack' = stack
  BY <1>5, <1>8, <1>9, <1>11
<1> QED BY <1>4, <1>10, <1>11

LEMMA FeedbackExact ==
  ASSUME XInv, NEW w \in Workers, processFeedbackMessage(w)
  PROVE  LET o == Head(chan[w]).op
         IN  /\ Exact(qm') /\ Balanced(qm', slot', chan') /\ qm'.rebuildInit = qm.rebuildInit
             /\ qm'.finished = qm.finished /\ qm'.numFinished = qm.numFinished
             /\ \A p \in Ops : p # o => qm'.avail[p] = qm.avail[p]
<1> DEFINE o == Head(chan[w]).op
           r == [qm.rounds EXCEPT ![o] = @ - 1]
           a == [qm.avail EXCEPT ![o] = @ + 1]
           f == [qm EXCEPT !.rounds = r, !.avail = a]
<1>1. /\ Exact(qm) /\ qm \in QMType /\ MemoryExact(qm)
      /\ Balanced(qm, slot, chan) /\ chan \in [Workers -> Seq(Message)]
  BY XFacts DEF Exact
<1>2. Receives(w, "feedback") BY DEF processFeedbackMessage
<1>3. /\ Head(chan[w]) \in Message /\ o \in Ops /\ Head(chan[w]).type = "feedback"
      /\ chan[w] # <<>> /\ chan' = [chan EXCEPT ![w] = Tail(@)] /\ slot' = slot
  BY <1>2, TakeFacts
<1>4. qm.rounds \in [Ops -> Nat] /\ qm.avail \in [Ops -> Nat] BY <1>1 DEF QMType
<1>5. qm' = IF qm.rounds[o] > 0 THEN f ELSE qm
  BY <1>1 DEF processFeedbackMessage, QMType
<1>6. ASSUME qm.rounds[o] > 0
      PROVE  /\ f \in QMType /\ MemoryExact(f) /\ f.rebuildInit = qm.rebuildInit
             /\ f.finished = qm.finished /\ f.numFinished = qm.numFinished
             /\ \A p \in Ops : p # o => f.avail[p] = qm.avail[p]
             /\ f.queued = qm.queued /\ f.numRebuild = qm.numRebuild /\ f.rebuild = qm.rebuild
  <2>1. r \in [Ops -> Nat] /\ a \in [Ops -> Nat]
        /\ \A p \in Ops : p # o => r[p] = qm.rounds[p] /\ a[p] = qm.avail[p]
    BY <1>3, <1>4, <1>6
  <2>2. o \notin qm.doneGen BY <1>1, <1>3, <1>6 DEF MemoryExact
  <2> HIDE DEF r, a
  <2>3. f \in QMType BY <1>1, <2>1 DEF QMType
  <2>4. /\ f.finished = qm.finished /\ f.informed = qm.informed /\ f.numFinished = qm.numFinished
        /\ f.normal = qm.normal /\ f.queued = qm.queued /\ f.rebuild = qm.rebuild
        /\ f.numRebuild = qm.numRebuild /\ f.rebuildInit = qm.rebuildInit /\ f.avail = a
        /\ f.rounds = r /\ f.doneGen = qm.doneGen /\ f.doneFeeding = qm.doneFeeding
    BY <1>1 DEF QMType
  <2> HIDE DEF f
  <2>5. MemoryExact(f)
    <3> HIDE DEF o
    <3>1. ASSUME NEW p \in Ops, p \in qm.doneGen PROVE a[p] = 0 /\ r[p] = 0
      BY <1>1, <2>1, <2>2, <3>1 DEF MemoryExact
    <3> QED BY <1>1, <2>4, <3>1 DEF MemoryExact
  <2> QED BY <2>1, <2>3, <2>4, <2>5
<1> HIDE DEF f
<1>7. /\ qm' \in QMType /\ MemoryExact(qm') /\ qm'.rebuildInit = qm.rebuildInit
      /\ qm'.finished = qm.finished /\ qm'.numFinished = qm.numFinished
      /\ \A p \in Ops : p # o => qm'.avail[p] = qm.avail[p]
      /\ qm'.queued = qm.queued /\ qm'.numRebuild = qm.numRebuild /\ qm'.rebuild = qm.rebuild
  BY <1>1, <1>5, <1>6
<1>8. Takes(qm, qm', Head(chan[w]))
  <2>1. \A p \in Ops : qm.queued[p] \in Int /\ qm.numRebuild[p] \in Int BY <1>1 DEF QMType
  <2> QED BY <1>3, <1>7, <2>1 DEF Takes
<1>9. Balanced(qm', slot, [chan EXCEPT ![w] = Tail(@)])
  BY <1>1, <1>3, <1>7, <1>8, TakeBalance
<1> QED BY <1>3, <1>7, <1>9 DEF Exact

LEMMA PipelineExact ==
  ASSUME XInv, NEW w \in Workers, processDataPipelineMessage(w)
  PROVE  LET o == Head(chan[w]).op
         IN  /\ Exact(qm') /\ Balanced(qm', slot', chan') /\ qm'.rebuildInit = qm.rebuildInit
             /\ qm'.finished = qm.finished /\ qm'.numFinished = qm.numFinished
             /\ \A p \in Ops : p \notin Consumers(o) => qm'.avail[p] = qm.avail[p]
             /\ \A p \in Consumers(o) : Blocking(p) \subseteq qm.finished /\ p \in qm.informed
                                          => qm'.avail[p] = 0
<1> DEFINE o == Head(chan[w]).op
           C == Consumers(o)
           a == [c \in Ops |-> IF c \in C THEN qm.avail[c] + 1 ELSE qm.avail[c]]
           fed == [qm EXCEPT !.avail = a]
           one(c) == fetchNormalWorkOrders(fed, c)
           n == [c \in Ops |-> IF c \in C THEN one(c).normal[c] ELSE fed.normal[c]]
           b == [c \in Ops |-> IF c \in C THEN one(c).avail[c] ELSE fed.avail[c]]
           d == qm.doneGen \cup {c \in C : c \in one(c).doneGen}
<1>1. /\ WellFormed(plan) /\ Exact(qm) /\ qm \in QMType /\ MemoryExact(qm)
      /\ Balanced(qm, slot, chan) /\ chan \in [Workers -> Seq(Message)]
  BY XFacts DEF Exact
<1>2. Receives(w, "pipeline") BY DEF processDataPipelineMessage
<1>3. /\ Head(chan[w]) \in Message /\ o \in Ops /\ Head(chan[w]).type = "pipeline"
      /\ chan[w] # <<>> /\ chan' = [chan EXCEPT ![w] = Tail(@)] /\ slot' = slot
      /\ \A c \in C : c \in Ops /\ c \notin qm.doneGen
  BY <1>2, TakeFacts
<1>4. qm.avail \in [Ops -> Nat] /\ qm.normal \in [Ops -> Nat] /\ qm.doneGen \in SUBSET Ops
  BY <1>1 DEF QMType
<1>5. a \in [Ops -> Nat] /\ \A p \in Ops : p \notin C => a[p] = qm.avail[p]
  BY <1>4
<1>6. qm' = [fed EXCEPT !.normal = n, !.avail = b, !.doneGen = fed.doneGen \cup {c \in C : c \in one(c).doneGen}]
  BY DEF processDataPipelineMessage
<1> HIDE DEF a
<1>7. fed \in QMType BY <1>1, <1>5 DEF QMType
<1>8. /\ fed.finished = qm.finished /\ fed.informed = qm.informed /\ fed.numFinished = qm.numFinished
      /\ fed.normal = qm.normal /\ fed.queued = qm.queued /\ fed.rebuild = qm.rebuild
      /\ fed.numRebuild = qm.numRebuild /\ fed.rebuildInit = qm.rebuildInit /\ fed.avail = a
      /\ fed.rounds = qm.rounds /\ fed.doneGen = qm.doneGen /\ fed.doneFeeding = qm.doneFeeding
  BY <1>1 DEF QMType
<1>9. qm' = [fed EXCEPT !.normal = n, !.avail = b, !.doneGen = d] BY <1>6, <1>8
<1> HIDE DEF fed, C
<1>10. Exact(fed)
  <2>1. MemoryExact(fed) BY <1>1, <1>3, <1>5, <1>8 DEF MemoryExact
  <2> QED BY <1>7, <2>1 DEF Exact
<1>11. ASSUME NEW c \in C
       PROVE  LET f == one(c)
              IN  /\ f \in QMType /\ MemoryExact(f) /\ c \in Ops
                  /\ f.finished = fed.finished /\ f.rebuildInit = fed.rebuildInit
                  /\ f.numRebuild = fed.numRebuild /\ f.rebuild = fed.rebuild
                  /\ f.rounds = fed.rounds /\ f.doneFeeding = fed.doneFeeding
                  /\ f.queued[c] = fed.queued[c]
                  /\ Blocking(c) \subseteq fed.finished /\ c \in fed.informed => f.avail[c] = 0
  BY <1>1, <1>3, <1>10, <1>11, FetchExact DEF Exact, SameCounts
<1> HIDE DEF one
<1>12. n \in [Ops -> Nat] /\ b \in [Ops -> Nat] /\ d \in SUBSET Ops
  <2>1. \A c \in C : c \in Ops /\ one(c).normal[c] \in Nat /\ one(c).avail[c] \in Nat
    BY <1>11 DEF QMType
  <2> QED BY <1>4, <1>5, <1>8, <2>1
<1>13. /\ \A c \in C : c \in Ops /\ n[c] = one(c).normal[c] /\ b[c] = one(c).avail[c]
                       /\ (c \in d <=> c \in one(c).doneGen)
       /\ \A c \in Ops : c \notin C => n[c] = qm.normal[c] /\ b[c] = qm.avail[c]
                       /\ (c \in d <=> c \in qm.doneGen)
  BY <1>3, <1>5, <1>8
<1> HIDE DEF n, b, d
<1>14. qm' \in QMType BY <1>7, <1>9, <1>12 DEF QMType
<1>15. /\ qm'.finished = qm.finished /\ qm'.informed = qm.informed
       /\ qm'.numFinished = qm.numFinished
       /\ qm'.normal = n /\ qm'.queued = qm.queued /\ qm'.rebuild = qm.rebuild
       /\ qm'.numRebuild = qm.numRebuild /\ qm'.rebuildInit = qm.rebuildInit /\ qm'.avail = b
       /\ qm'.rounds = qm.rounds /\ qm'.doneGen = d /\ qm'.doneFeeding = qm.doneFeeding
  BY <1>7, <1>8, <1>9 DEF QMType
<1>16. MemoryExact(qm')
  <2> SUFFICES ASSUME NEW p \in Ops
               PROVE
                 /\ p \in d => b[p] = 0 /\ qm.rounds[p] = 0 /\ Streams(p) \subseteq qm.finished
                 /\ p \in qm.rebuildInit => /\ p \in plan.dest /\ p \in d
                                            /\ n[p] = 0 /\ qm.queued[p] = 0
                                            /\ Dependencies(p) \subseteq qm.finished
                 /\ p \notin qm.rebuildInit => qm.numRebuild[p] = 0 /\ qm.rebuild[p] = 0
                 /\ p \in qm.finished => /\ p \in d /\ n[p] = 0 /\ qm.queued[p] = 0
                                         /\ qm.rebuild[p] = 0 /\ qm.numRebuild[p] = 0
                                         /\ Dependencies(p) \subseteq qm.finished
                                         /\ p \in plan.dest => p \in qm.rebuildInit
                 /\ qm.doneFeeding[p] \subseteq qm.finished \cap plan.output \cap Dependencies(p)
    BY <1>15 DEF MemoryExact
  <2>1. CASE p \in C BY <1>8, <1>11, <1>13, <2>1 DEF MemoryExact
  <2>2. CASE p \notin C BY <1>1, <1>13, <2>2 DEF MemoryExact
  <2> QED BY <2>1, <2>2
<1>17. Takes(qm, qm', Head(chan[w]))
  <2>1. \A p \in Ops : qm.queued[p] \in Int /\ qm.numRebuild[p] \in Int BY <1>1 DEF QMType
  <2> QED BY <1>3, <1>15, <2>1 DEF Takes
<1>18. Balanced(qm', slot, [chan EXCEPT ![w] = Tail(@)])
  BY <1>1, <1>3, <1>14, <1>17, TakeBalance
<1> QED BY <1>3, <1>8, <1>11, <1>13, <1>14, <1>15, <1>16, <1>18 DEF Exact, C

LEMMA DispatchExact ==
  ASSUME XInv, NEW w \in Workers, Dispatch(w)
  PROVE  /\ Exact(qm') /\ Balanced(qm', slot', chan') /\ qm'.rebuildInit = qm.rebuildInit
         /\ qm'.finished = qm.finished /\ qm'.numFinished = qm.numFinished
         /\ qm'.avail = qm.avail
<1>1. /\ qm \in QMType /\ MemoryExact(qm) /\ Balanced(qm, slot, chan)
      /\ slot \in [Workers -> WorkOrder \cup {Idle}]
  BY XFacts DEF Exact
<1>2. slot[w] = Idle /\ chan' = chan BY DEF Dispatch
<1>3. PICK o \in Ops :
        /\ HasWork(o)
        /\ IF qm.normal[o] > 0
           THEN /\ qm' = [qm EXCEPT !.normal[o] = @ - 1, !.queued[o] = @ + 1]
                /\ slot' = [slot EXCEPT ![w] = [kind |-> "normal", op |-> o]]
           ELSE /\ qm' = [qm EXCEPT !.rebuild[o] = @ - 1]
                /\ slot' = [slot EXCEPT ![w] = [kind |-> "rebuild", op |-> o]]
  BY DEF Dispatch, getNextWorkerMessage
<1>4. /\ qm.normal \in [Ops -> Nat] /\ qm.queued \in [Ops -> Int] /\ qm.rebuild \in [Ops -> Nat]
      /\ \A p \in Ops : qm.queued[p] \in Int /\ qm.rebuild[p] \in Int
  BY <1>1 DEF QMType
<1>5. o \notin qm.finished BY <1>3 DEF HasWork
<1>6. CASE qm.normal[o] > 0
  <2> DEFINE n == [qm.normal EXCEPT ![o] = @ - 1]
             q == [qm.queued EXCEPT ![o] = @ + 1]
  <2>1. /\ n \in [Ops -> Nat] /\ q \in [Ops -> Int]
        /\ \A p \in Ops : q[p] = qm.queued[p] + (IF p = o THEN 1 ELSE 0)
        /\ \A p \in Ops : p # o => n[p] = qm.normal[p] /\ q[p] = qm.queued[p]
    BY <1>4, <1>6
  <2>2. qm' = [qm EXCEPT !.normal = n, !.queued = q] BY <1>1, <1>3, <1>6 DEF QMType
  <2>3. o \notin qm.rebuildInit BY <1>1, <1>6 DEF MemoryExact
  <2> HIDE DEF n, q
  <2>4. qm' \in QMType BY <1>1, <2>1, <2>2 DEF QMType
  <2>5. /\ qm'.finished = qm.finished /\ qm'.informed = qm.informed
        /\ qm'.numFinished = qm.numFinished
        /\ qm'.normal = n /\ qm'.queued = q /\ qm'.rebuild = qm.rebuild
        /\ qm'.numRebuild = qm.numRebuild /\ qm'.rebuildInit = qm.rebuildInit
        /\ qm'.avail = qm.avail
        /\ qm'.rounds = qm.rounds /\ qm'.doneGen = qm.doneGen /\ qm'.doneFeeding = qm.doneFeeding
    BY <1>1, <2>2 DEF QMType
  <2>6. MemoryExact(qm')
    <3>1. ASSUME NEW p \in Ops, p \in qm.rebuildInit \/ p \in qm.finished
          PROVE  n[p] = qm.normal[p] /\ q[p] = qm.queued[p]
      BY <1>5, <2>1, <2>3, <3>1
    <3> QED BY <1>1, <2>5, <3>1 DEF MemoryExact
  <2>7. /\ \A p \in Ops : qm'.queued[p] = qm.queued[p] + (IF "normal" = "normal" /\ o = p THEN 1 ELSE 0)
        /\ \A p \in Ops : qm'.rebuild[p] = qm.rebuild[p] - (IF "normal" = "rebuild" /\ o = p THEN 1 ELSE 0)
        /\ \A p \in Ops : qm'.numRebuild[p] = qm.numRebuild[p]
    BY <1>4, <2>1, <2>5
  <2>8. "normal" \in Kinds BY DEF Kinds
  <2>9. Balanced(qm', [slot EXCEPT ![w] = [kind |-> "normal", op |-> o]], chan)
    BY <1>1, <1>2, <2>4, <2>7, <2>8, DispatchBalance
  <2> QED BY <1>2, <1>3, <1>6, <2>4, <2>5, <2>6, <2>9 DEF Exact
<1>7. CASE ~(qm.normal[o] > 0)
  <2> DEFINE n == [qm.rebuild EXCEPT ![o] = @ - 1]
  <2>0. qm.rebuild[o] > 0 BY <1>3, <1>7 DEF HasWork
  <2>1. /\ n \in [Ops -> Nat]
        /\ \A p \in Ops : n[p] = qm.rebuild[p] - (IF p = o THEN 1 ELSE 0)
        /\ \A p \in Ops : p # o => n[p] = qm.rebuild[p]
    BY <1>4, <2>0
  <2>2. qm' = [qm EXCEPT !.rebuild = n] BY <1>1, <1>3, <1>7 DEF QMType
  <2>3. o \in qm.rebuildInit BY <1>1, <2>0 DEF MemoryExact
  <2> HIDE DEF n
  <2>4. qm' \in QMType BY <1>1, <2>1, <2>2 DEF QMType
  <2>5. /\ qm'.finished = qm.finished /\ qm'.informed = qm.informed
        /\ qm'.numFinished = qm.numFinished
        /\ qm'.normal = qm.normal /\ qm'.queued = qm.queued /\ qm'.rebuild = n
        /\ qm'.numRebuild = qm.numRebuild /\ qm'.rebuildInit = qm.rebuildInit
        /\ qm'.avail = qm.avail
        /\ qm'.rounds = qm.rounds /\ qm'.doneGen = qm.doneGen /\ qm'.doneFeeding = qm.doneFeeding
    BY <1>1, <2>2 DEF QMType
  <2>6. MemoryExact(qm')
    <3>1. ASSUME NEW p \in Ops, p \notin qm.rebuildInit \/ p \in qm.finished
          PROVE  n[p] = qm.rebuild[p]
      BY <1>5, <2>1, <2>3, <3>1
    <3> QED BY <1>1, <2>5, <3>1 DEF MemoryExact
  <2>7. /\ \A p \in Ops : qm'.queued[p] = qm.queued[p] + (IF "rebuild" = "normal" /\ o = p THEN 1 ELSE 0)
        /\ \A p \in Ops : qm'.rebuild[p] = qm.rebuild[p] - (IF "rebuild" = "rebuild" /\ o = p THEN 1 ELSE 0)
        /\ \A p \in Ops : qm'.numRebuild[p] = qm.numRebuild[p]
    BY <1>4, <2>1, <2>5
  <2>8. "rebuild" \in Kinds BY DEF Kinds
  <2>9. Balanced(qm', [slot EXCEPT ![w] = [kind |-> "rebuild", op |-> o]], chan)
    BY <1>1, <1>2, <2>4, <2>7, <2>8, DispatchBalance
  <2> QED BY <1>2, <1>3, <1>7, <2>4, <2>5, <2>6, <2>9 DEF Exact
<1> QED BY <1>6, <1>7

\* The messages a normal work order sends before its completion.
Output(n, k, o) == Copies(n, [type |-> "pipeline", op |-> o])
                     \o Copies(k, [type |-> "feedback", op |-> o])

LEMMA OutputMessages ==
  ASSUME NEW n \in Nat, NEW k \in Nat, NEW o \in Ops
  PROVE  /\ Output(n, k, o) \in Seq(Message)
         /\ \A i \in DOMAIN Output(n, k, o) :
               Output(n, k, o)[i].op = o /\ Output(n, k, o)[i].type \in {"pipeline", "feedback"}
<1> DEFINE p == [type |-> "pipeline", op |-> o]
           f == [type |-> "feedback", op |-> o]
           s == Copies(n, p)
           t == Copies(k, f)
<1>1. p \in Message /\ f \in Message /\ p.op = o /\ f.op = o
      /\ p.type \in {"pipeline", "feedback"} /\ f.type \in {"pipeline", "feedback"}
  BY DEF Message
<1> HIDE DEF p, f
<1>2. /\ s \in Seq(Message) /\ Len(s) = n /\ \A i \in 1 .. n : s[i] = p
      /\ t \in Seq(Message) /\ Len(t) = k /\ \A i \in 1 .. k : t[i] = f
  BY <1>1 DEF Copies
<1> HIDE DEF s, t
<1>3. /\ s \o t \in Seq(Message) /\ Len(s \o t) = Len(s) + Len(t)
      /\ \A i \in 1 .. Len(s) : (s \o t)[i] = s[i]
      /\ \A i \in 1 .. Len(s) + Len(t) : i > Len(s) => (s \o t)[i] = t[i - Len(s)]
  BY <1>2, Concatenation
<1>4. DOMAIN (s \o t) = 1 .. n + k BY <1>2, <1>3
<1>5. ASSUME NEW i \in 1 .. n + k PROVE (s \o t)[i] \in {p, f}
  <2>1. CASE i <= n BY <1>2, <1>3, <2>1
  <2>2. CASE i > n
    <3>1. i - n \in 1 .. k BY <2>2
    <3>2. (s \o t)[i] = t[i - n] BY <1>2, <1>3, <2>2
    <3> QED BY <1>2, <3>1, <3>2
  <2>3. i \in Int /\ (i <= n \/ i > n) OBVIOUS
  <2> QED BY <2>1, <2>2, <2>3
<1>6. Output(n, k, o) = s \o t BY DEF Output, s, t, p, f
<1> QED BY <1>1, <1>3, <1>4, <1>5, <1>6

\* A worker reports what it held: the counters stay exact and its operator is
\* the one that is at work.
LEMMA ReportExact ==
  ASSUME XInv, NEW w \in Workers, NEW k \in Kinds, NEW o \in Ops,
         slot[w] = [kind |-> k, op |-> o], NEW msgs \in Seq(Message),
         \A i \in DOMAIN msgs : /\ msgs[i].op = o /\ msgs[i].type \in {"pipeline", "feedback"}
                                /\ msgs[i].type = "feedback" => k = "normal",
         slot' = [slot EXCEPT ![w] = Idle], qm' = qm,
         chan' = [chan EXCEPT ![w] = @ \o (msgs \o <<[type |-> CompletionOf(k), op |-> o]>>)]
  PROVE  /\ Balanced(qm', slot', chan') /\ Trailed(chan')
         /\ k = "normal" => o \notin qm.rebuildInit
<1> DEFINE last == [type |-> CompletionOf(k), op |-> o]
<1>1. /\ qm \in QMType /\ MemoryExact(qm) /\ Balanced(qm, slot, chan) /\ Trailed(chan)
      /\ slot \in [Workers -> WorkOrder \cup {Idle}] /\ chan \in [Workers -> Seq(Message)]
  BY XFacts DEF Exact
<1>2. \A i \in DOMAIN msgs : msgs[i].type \notin Completions BY DEF Completions
<1>3. Balanced(qm, [slot EXCEPT ![w] = Idle],
               [chan EXCEPT ![w] = @ \o (msgs \o <<[type |-> CompletionOf(k), op |-> o]>>)])
  BY <1>1, <1>2, ReportBalance
<1>4. /\ last \in Message /\ last.op = o /\ last.type \in Completions
      /\ k = "normal" => last.type = "complete"
  BY DEF Message, Completions, CompletionOf, Kinds
<1>5. Trailed([chan EXCEPT ![w] = @ \o (msgs \o <<last>>)])
  <2>1. \A i \in DOMAIN msgs : /\ msgs[i].op = o
                               /\ msgs[i].type = "feedback" => last.type = "complete"
    BY <1>4
  <2> HIDE DEF last
  <2> QED BY <1>1, <1>4, <2>1, TrailAppend
<1>6. k = "normal" => o \notin qm.rebuildInit
  <2> SUFFICES ASSUME k = "normal" PROVE o \notin qm.rebuildInit OBVIOUS
  <2>1. w \in HeldIn(slot, "normal", o) BY DEF HeldIn
  <2>2. IsFiniteSet(HeldIn(slot, "normal", o)) BY <1>1 DEF Balanced, Finite, Kinds
  <2>3. Cardinality(HeldIn(slot, "normal", o)) \in Nat BY <2>2, FS_CardinalityType
  <2>4. Cardinality(HeldIn(slot, "normal", o)) # 0 BY <2>1, <2>2, FS_EmptySet
  <2>5. Cardinality(OnBus(chan, "complete", o)) \in Nat
    BY <1>1, FiniteNats DEF Balanced, Completions
  <2>6. qm.queued[o] = Cardinality(HeldIn(slot, "normal", o)) + Cardinality(OnBus(chan, "complete", o))
    BY <1>1 DEF Balanced
  <2>7. qm.queued[o] # 0 BY <2>3, <2>4, <2>5, <2>6
  <2> QED BY <1>1, <2>7 DEF MemoryExact
<1> QED BY <1>3, <1>5, <1>6

LEMMA XKept ==
  ASSUME IInv', UNCHANGED plan, Exact(qm'), Balanced(qm', slot', chan'), Trailed(chan'), Drained'
  PROVE  XInv'
<1>1. MemoryExact(qm)'
  BY DEF Exact, MemoryExact, Streams, Dependencies
<1>2. Balanced(qm, slot, chan)' BY DEF Balanced, Finite, HeldIn, OnBus
<1>3. Trailed(chan)' BY DEF Trailed, TrailedSeq
<1> QED BY <1>1, <1>2, <1>3 DEF XInv

LEMMA DrainedKept ==
  ASSUME Drained, partial' = drained(qm, qm')
  PROVE  Drained'
BY DEF Drained, drained

LEMMA DrainedSame ==
  ASSUME Drained, partial' = partial, qm'.rebuildInit = qm.rebuildInit
  PROVE  Drained'
BY DEF Drained

LEMMA SequencesEqual ==
  ASSUME NEW s \in Seq(Message), NEW t \in Seq(Message), Len(s) = Len(t),
         \A i \in 1 .. Len(s) : s[i] = t[i]
  PROVE  s = t
OBVIOUS

LEMMA TwoMessages ==
  ASSUME NEW a \in Message, NEW b \in Message
  PROVE  <<a>> \o <<b>> = <<a, b>>
<1> DEFINE s == <<a>> \o <<b>>
           t == <<a, b>>
<1>1. <<a>> \in Seq(Message) /\ <<b>> \in Seq(Message) /\ t \in Seq(Message) OBVIOUS
<1>2. s \in Seq(Message) /\ Len(s) = 2 /\ s[1] = a /\ s[2] = b
  <2>1. /\ s \in Seq(Message) /\ Len(s) = Len(<<a>>) + Len(<<b>>)
        /\ \A i \in 1 .. Len(<<a>>) : s[i] = <<a>>[i]
        /\ \A i \in 1 .. Len(<<a>>) + Len(<<b>>) : i > Len(<<a>>) => s[i] = <<b>>[i - Len(<<a>>)]
    BY <1>1, Concatenation
  <2>2. Len(<<a>>) = 1 /\ Len(<<b>>) = 1 /\ <<a>>[1] = a /\ <<b>>[1] = b OBVIOUS
  <2> DEFINE p == <<a>>
             q == <<b>>
  <2>3. /\ s \in Seq(Message) /\ Len(s) = Len(p) + Len(q)
        /\ \A i \in 1 .. Len(p) : s[i] = p[i]
        /\ \A i \in 1 .. Len(p) + Len(q) : i > Len(p) => s[i] = q[i - Len(p)]
        /\ Len(p) = 1 /\ Len(q) = 1 /\ p[1] = a /\ q[1] = b
    BY <2>1, <2>2
  <2> HIDE DEF s, p, q
  <2>4. s[1] = p[1] BY <2>3
  <2>5. 2 \in 1 .. Len(p) + Len(q) /\ 2 > Len(p) /\ 2 - Len(p) = 1 BY <2>3
  <2>6. s[2] = q[1] BY <2>3, <2>5
  <2> QED BY <2>3, <2>4, <2>6
<1>3. Len(t) = 2 /\ t[1] = a /\ t[2] = b OBVIOUS
<1> HIDE DEF s, t
<1>4. \A i \in 1 .. 2 : i = 1 \/ i = 2 OBVIOUS
<1>5. \A i \in 1 .. 2 : s[i] = t[i] BY <1>2, <1>3, <1>4
<1>6. s = t BY <1>1, <1>2, <1>3, <1>5, SequencesEqual
<1> QED BY <1>6 DEF s, t

LEMMA InitX == Init => XInv
<1> SUFFICES ASSUME Init PROVE XInv OBVIOUS
<1>1. IInv BY InitInv
<1>2. /\ qm.queued = Zero /\ qm.numRebuild = Zero /\ qm.rebuildInit = {} /\ qm.doneGen = {}
      /\ qm.finished = {} /\ qm.normal = Zero /\ qm.rebuild = Zero
      /\ qm.doneFeeding = [o \in Ops |-> {}] /\ slot = [w \in Workers |-> Idle]
      /\ chan = [w \in Workers |-> <<>>]
  BY DEF Init
<1>3. MemoryExact(qm) BY <1>2 DEF MemoryExact, Zero
<1>4. Balanced(qm, slot, chan)
  <2>1. \A kind \in Kinds : \A o \in Ops : HeldIn(slot, kind, o) = {}
    BY <1>2 DEF HeldIn, Kinds, Idle
  <2>2. ASSUME NEW type \in Completions, NEW o \in Ops PROVE OnBus(chan, type, o) = {}
    <3> SUFFICES ASSUME NEW x \in OnBus(chan, type, o) PROVE FALSE OBVIOUS
    <3>1. PICK w, i : w \in Workers /\ i \in DOMAIN chan[w] /\ x = <<w, i>> BY OnBusPair
    <3> QED BY <1>2, <3>1
  <2>3. IsFiniteSet({}) /\ Cardinality({}) = 0 BY FS_EmptySet
  <2>4. Finite(slot, chan) BY <2>1, <2>2, <2>3 DEF Finite
  <2>5. "normal" \in Kinds /\ "rebuild" \in Kinds /\ "complete" \in Completions
        /\ "rebuildComplete" \in Completions
    BY DEF Kinds, Completions
  <2>6. ASSUME NEW o \in Ops
        PROVE  /\ qm.queued[o] = Cardinality(HeldIn(slot, "normal", o)) + Cardinality(OnBus(chan, "complete", o))
               /\ qm.numRebuild[o] - qm.rebuild[o] = Cardinality(HeldIn(slot, "rebuild", o))
                     + Cardinality(OnBus(chan, "rebuildComplete", o))
    <3>1. qm.queued[o] = 0 /\ qm.numRebuild[o] = 0 /\ qm.rebuild[o] = 0 BY <1>2 DEF Zero
    <3>2. /\ HeldIn(slot, "normal", o) = {} /\ HeldIn(slot, "rebuild", o) = {}
          /\ OnBus(chan, "complete", o) = {} /\ OnBus(chan, "rebuildComplete", o) = {}
      BY <2>1, <2>2, <2>5
    <3> QED BY <2>3, <3>1, <3>2
  <2> QED BY <2>4, <2>6 DEF Balanced
<1>5. Trailed(chan) BY <1>2 DEF Trailed, TrailedSeq
<1>6. Drained BY <1>2 DEF Drained
<1> QED BY <1>1, <1>3, <1>4, <1>5, <1>6 DEF XInv

LEMMA StepX == XInv /\ [Next]_vars => XInv'
<1> SUFFICES ASSUME XInv, [Next]_vars PROVE XInv' OBVIOUS
<1>1. IInv' BY StepInv DEF XInv
<1>2. /\ TypeOK /\ WellFormed(plan) /\ Exact(qm) /\ qm \in QMType
      /\ partial \in [Ops -> Nat] /\ Balanced(qm, slot, chan) /\ Trailed(chan) /\ Drained
      /\ slot \in [Workers -> WorkOrder \cup {Idle}] /\ chan \in [Workers -> Seq(Message)]
  BY XFacts
<1>3. CASE ConstructOperator
  <2>1. UNCHANGED <<plan, slot, chan>> /\ partial' = drained(qm, qm')
    BY <1>3 DEF ConstructOperator
  <2>2. Exact(qm') /\ SameCounts(qm, qm') BY <1>3, ConstructExact
  <2>3. Balanced(qm', slot, chan) BY <1>2, <2>2, SameBalance
  <2>4. Balanced(qm', slot', chan') /\ Trailed(chan') BY <1>2, <2>1, <2>3
  <2> QED BY <1>1, <1>2, <2>1, <2>2, <2>4, XKept, DrainedKept
<1>4. CASE VisitDependent
  <2>1. UNCHANGED <<plan, slot, chan>> /\ partial' = drained(qm, qm')
    BY <1>4 DEF VisitDependent
  <2>2. PICK d \in stack[Len(stack)] :
          IF checkAllBlockingDependenciesMet(qm, d)
          THEN qm' = processOperator(qm, d) ELSE qm' = qm
    BY <1>4 DEF VisitDependent
  <2>3. d \in Ops
    <3>1. stack \in Seq(SUBSET Ops) /\ stack # <<>> BY <1>2, <1>4 DEF TypeOK, VisitDependent, HandlerDone
    <3> QED BY <3>1, CallersType
  <2>4. Exact(qm') /\ SameCounts(qm, qm') BY <2>2, <2>3, VisitExact
  <2>5. Balanced(qm', slot, chan) BY <1>2, <2>4, SameBalance
  <2>6. Balanced(qm', slot', chan') /\ Trailed(chan') BY <1>2, <2>1, <2>5
  <2> QED BY <1>1, <1>2, <2>1, <2>4, <2>6, XKept, DrainedKept
<1>5. ASSUME NEW w \in Workers, processDataPipelineMessage(w) PROVE XInv'
  <2>1. /\ Receives(w, "pipeline") /\ partial' = partial
    BY <1>5 DEF processDataPipelineMessage
  <2>2. Trailed(chan') /\ plan' = plan BY <2>1, TakeFacts
  <2>3. Exact(qm') /\ Balanced(qm', slot', chan') /\ qm'.rebuildInit = qm.rebuildInit
    BY <1>5, PipelineExact
  <2> QED BY <1>1, <1>2, <2>1, <2>2, <2>3, XKept, DrainedSame
<1>6. ASSUME NEW w \in Workers, processFeedbackMessage(w) PROVE XInv'
  <2>1. /\ Receives(w, "feedback") /\ partial' = partial
    BY <1>6 DEF processFeedbackMessage
  <2>2. Trailed(chan') /\ plan' = plan BY <2>1, TakeFacts
  <2>3. Exact(qm') /\ Balanced(qm', slot', chan') /\ qm'.rebuildInit = qm.rebuildInit
    BY <1>6, FeedbackExact
  <2> QED BY <1>1, <1>2, <2>1, <2>2, <2>3, XKept, DrainedSame
<1>7. ASSUME NEW w \in Workers, processWorkOrderCompleteMessage(w) PROVE XInv'
  <2>1. /\ Receives(w, "complete") /\ partial' = drained(qm, qm')
    BY <1>7 DEF processWorkOrderCompleteMessage
  <2>2. Trailed(chan') /\ plan' = plan BY <2>1, TakeFacts
  <2>3. Exact(qm') /\ Balanced(qm', slot', chan')
    BY <1>7, CompleteExact
  <2> QED BY <1>1, <1>2, <2>1, <2>2, <2>3, XKept, DrainedKept
<1>8. ASSUME NEW w \in Workers, processRebuildWorkOrderCompleteMessage(w) PROVE XInv'
  <2>1. /\ Receives(w, "rebuildComplete") /\ partial' = partial
    BY <1>8 DEF processRebuildWorkOrderCompleteMessage
  <2>2. Trailed(chan') /\ plan' = plan BY <2>1, TakeFacts
  <2>3. Exact(qm') /\ Balanced(qm', slot', chan') /\ qm'.rebuildInit = qm.rebuildInit
    BY <1>8, RebuildExact
  <2> QED BY <1>1, <1>2, <2>1, <2>2, <2>3, XKept, DrainedSame
<1>9. ASSUME NEW w \in Workers, Dispatch(w) PROVE XInv'
  <2>1. plan' = plan /\ partial' = partial /\ chan' = chan BY <1>9 DEF Dispatch
  <2>2. Exact(qm') /\ Balanced(qm', slot', chan') /\ qm'.rebuildInit = qm.rebuildInit
    BY <1>9, DispatchExact
  <2>3. Trailed(chan') BY <1>2, <2>1
  <2> QED BY <1>1, <1>2, <2>1, <2>2, <2>3, XKept, DrainedSame
<1>10. ASSUME NEW w \in Workers, executeWorkOrder(w) PROVE XInv'
  <2> DEFINE o == slot[w].op
             k == IF plan.rounds[o] > 0 THEN 1 ELSE 0
             done == [type |-> CompletionOf("normal"), op |-> o]
  <2>1. slot[w].kind = "normal" BY <1>10 DEF executeWorkOrder
  <2>2. slot[w] \in WorkOrder BY <1>2, <1>10, <2>1 DEF Idle
  <2>3. o \in Ops /\ slot[w] = [kind |-> "normal", op |-> o] BY <2>1, <2>2 DEF WorkOrder
  <2>4. PICK n \in 0 .. MaxStream, p \in 0 .. MaxPartial :
          /\ partial' = [partial EXCEPT ![o] = p]
          /\ chan' = [chan EXCEPT ![w] =
                @ \o (Copies(n, [type |-> "pipeline", op |-> o])
                        \o Copies(k, [type |-> "feedback", op |-> o])
                        \o <<[type |-> "complete", op |-> o]>>)]
    BY <1>10 DEF executeWorkOrder
  <2>5. n \in Nat /\ k \in Nat BY BoundsAssumption
  <2>6. /\ Output(n, k, o) \in Seq(Message)
        /\ \A i \in DOMAIN Output(n, k, o) :
               Output(n, k, o)[i].op = o /\ Output(n, k, o)[i].type \in {"pipeline", "feedback"}
    BY <2>3, <2>5, OutputMessages
  <2>7. chan' = [chan EXCEPT ![w] = @ \o (Output(n, k, o) \o <<done>>)]
    BY <2>4 DEF Output, CompletionOf
  <2>8. /\ slot' = [slot EXCEPT ![w] = Idle] /\ UNCHANGED <<plan, qm>>
    BY <1>10 DEF executeWorkOrder
  <2>9. "normal" \in Kinds BY DEF Kinds
  <2>10. Balanced(qm', slot', chan') /\ Trailed(chan') /\ o \notin qm.rebuildInit
    <3> DEFINE msgs == Output(n, k, o)
    <3>1. /\ msgs \in Seq(Message) /\ chan' = [chan EXCEPT ![w] = @ \o (msgs \o <<done>>)]
          /\ \A i \in DOMAIN msgs :
               /\ msgs[i].op = o /\ msgs[i].type \in {"pipeline", "feedback"}
               /\ msgs[i].type = "feedback" => "normal" = "normal"
      BY <2>6, <2>7
    <3> HIDE DEF msgs, o
    <3> QED BY <1>10, <2>3, <2>8, <2>9, <3>1, ReportExact
  <2>11. Drained'
    BY <1>2, <2>4, <2>8, <2>10 DEF Drained
  <2> QED BY <1>1, <1>2, <2>8, <2>10, <2>11, XKept
<1>11. ASSUME NEW w \in Workers, executeRebuildWorkOrder(w) PROVE XInv'
  <2> DEFINE o == slot[w].op
             msgs == <<[type |-> "pipeline", op |-> o]>>
             done == [type |-> CompletionOf("rebuild"), op |-> o]
  <2>1. slot[w].kind = "rebuild" BY <1>11 DEF executeRebuildWorkOrder
  <2>2. slot[w] \in WorkOrder BY <1>2, <1>11, <2>1 DEF Idle
  <2>3. o \in Ops /\ slot[w] = [kind |-> "rebuild", op |-> o] BY <2>1, <2>2 DEF WorkOrder
  <2>4. /\ msgs \in Seq(Message)
        /\ \A i \in DOMAIN msgs :
               /\ msgs[i].op = o /\ msgs[i].type \in {"pipeline", "feedback"}
               /\ msgs[i].type = "feedback" => "rebuild" = "normal"
    BY <2>3 DEF Message
  <2>5. chan' = [chan EXCEPT ![w] = @ \o (msgs \o <<done>>)]
    <3>1. msgs \o <<done>> = <<[type |-> "pipeline", op |-> o],
                               [type |-> "rebuildComplete", op |-> o]>>
      <4>1. done = [type |-> "rebuildComplete", op |-> o] BY DEF CompletionOf
      <4>2. [type |-> "rebuildComplete", op |-> o] \in Message
            /\ [type |-> "pipeline", op |-> o] \in Message
        BY <2>3 DEF Message
      <4> QED BY <4>1, <4>2, TwoMessages
    <3> QED BY <1>11, <3>1 DEF executeRebuildWorkOrder
  <2>6. /\ slot' = [slot EXCEPT ![w] = Idle] /\ UNCHANGED <<plan, qm, partial>>
    BY <1>11 DEF executeRebuildWorkOrder
  <2>7. "rebuild" \in Kinds BY DEF Kinds
  <2>8. Balanced(qm', slot', chan') /\ Trailed(chan')
    <3> HIDE DEF msgs, o
    <3> QED BY <1>11, <2>3, <2>4, <2>5, <2>6, <2>7, ReportExact
  <2>9. Drained' BY <1>2, <2>6, DrainedSame
  <2> QED BY <1>1, <1>2, <2>6, <2>8, <2>9, XKept
<1>12. CASE UNCHANGED vars
  <2>1. /\ plan' = plan /\ qm' = qm /\ slot' = slot /\ chan' = chan /\ partial' = partial
    BY <1>12 DEF vars
  <2>2. Balanced(qm', slot', chan') /\ Trailed(chan') /\ Exact(qm') BY <1>2, <2>1
  <2> QED BY <1>1, <1>2, <2>1, <2>2, XKept, DrainedSame
<1> QED
  BY <1>3, <1>4, <1>5, <1>6, <1>7, <1>8, <1>9, <1>10, <1>11, <1>12
     DEF Next, Foreman, Worker, Removed

-----------------------------------------------------------------------------
LEMMA HolderMeansBusy ==
  ASSUME XInv, NEW w \in Workers, slot[w] # Idle
  PROVE  slot[w].op \in Ops /\ slot[w].op \notin qm.finished
<1> DEFINE o == slot[w].op
           k == slot[w].kind
<1>1. /\ qm \in QMType /\ MemoryExact(qm) /\ Balanced(qm, slot, chan) /\ Finite(slot, chan)
      /\ slot[w] \in WorkOrder
  BY XFacts DEF Exact, Balanced
<1>2. o \in Ops /\ k \in Kinds BY <1>1 DEF WorkOrder, Kinds
<1>3. w \in HeldIn(slot, k, o) BY DEF HeldIn
<1> HIDE DEF o, k
<1>4. Cardinality(HeldIn(slot, k, o)) \in Nat /\ Cardinality(HeldIn(slot, k, o)) # 0
  <2>1. IsFiniteSet(HeldIn(slot, k, o)) BY <1>1, <1>2 DEF Finite
  <2> QED BY <1>3, <2>1, FS_CardinalityType, FS_EmptySet
<1>5. qm.queued[o] # 0 \/ qm.numRebuild[o] # qm.rebuild[o]
  <2>1. /\ Cardinality(OnBus(chan, "complete", o)) \in Nat
        /\ Cardinality(OnBus(chan, "rebuildComplete", o)) \in Nat
    BY <1>1, <1>2, FiniteNats DEF Completions
  <2>2. /\ qm.queued[o] = Cardinality(HeldIn(slot, "normal", o)) + Cardinality(OnBus(chan, "complete", o))
        /\ qm.numRebuild[o] - qm.rebuild[o] = Cardinality(HeldIn(slot, "rebuild", o))
                                           + Cardinality(OnBus(chan, "rebuildComplete", o))
    BY <1>1, <1>2 DEF Balanced
  <2>3. qm.numRebuild[o] \in Int /\ qm.rebuild[o] \in Int BY <1>1, <1>2 DEF QMType
  <2>4. CASE k = "normal" BY <1>4, <2>1, <2>2, <2>4
  <2>5. CASE k = "rebuild" BY <1>4, <2>1, <2>2, <2>3, <2>5
  <2> QED BY <1>2, <2>4, <2>5 DEF Kinds
<1>6. o \notin qm.finished BY <1>1, <1>2, <1>5 DEF MemoryExact
<1> QED BY <1>2, <1>6 DEF o

LEMMA XCounters == XInv => CountersExact
<1> SUFFICES ASSUME XInv, NEW o \in Ops
             PROVE  /\ qm.queued[o] = Cardinality(Held("normal", o)) + Cardinality(InBus("complete", o))
                    /\ qm.numRebuild[o] = qm.rebuild[o] + Cardinality(Held("rebuild", o))
                               + Cardinality(InBus("rebuildComplete", o))
  BY DEF CountersExact
<1>1. /\ Held("normal", o) = HeldIn(slot, "normal", o) /\ Held("rebuild", o) = HeldIn(slot, "rebuild", o)
      /\ InBus("complete", o) = OnBus(chan, "complete", o)
      /\ InBus("rebuildComplete", o) = OnBus(chan, "rebuildComplete", o)
  BY DEF Held, HeldIn, InBus, OnBus
<1>2. /\ qm \in QMType /\ Balanced(qm, slot, chan) /\ Finite(slot, chan)
  BY XFacts DEF Balanced
<1>3. /\ qm.queued[o] = Cardinality(HeldIn(slot, "normal", o)) + Cardinality(OnBus(chan, "complete", o))
      /\ qm.numRebuild[o] - qm.rebuild[o] = Cardinality(HeldIn(slot, "rebuild", o))
                                           + Cardinality(OnBus(chan, "rebuildComplete", o))
  BY <1>2 DEF Balanced
<1>4. qm.numRebuild[o] \in Int /\ qm.rebuild[o] \in Int BY <1>2 DEF QMType
<1>5. /\ Cardinality(HeldIn(slot, "rebuild", o)) \in Nat
      /\ Cardinality(OnBus(chan, "rebuildComplete", o)) \in Nat
  BY <1>2, FiniteNats DEF Kinds, Completions
<1> QED BY <1>1, <1>3, <1>4, <1>5

LEMMA XQuiescent == XInv => FinishedIsQuiescent
<1> SUFFICES ASSUME XInv, NEW o \in qm.finished
             PROVE  /\ qm.avail[o] = 0 /\ qm.normal[o] = 0 /\ qm.rebuild[o] = 0
                    /\ o \in plan.dest => partial[o] = 0
                    /\ \A w \in Workers :
                          /\ slot[w] # Idle => slot[w].op # o
                          /\ \A i \in DOMAIN chan[w] : chan[w][i].op # o
  BY DEF FinishedIsQuiescent
<1>1. qm \in QMType /\ MemoryExact(qm) /\ Drained BY XFacts DEF Exact
<1>2. o \in Ops BY <1>1 DEF QMType
<1>3. /\ qm.avail[o] = 0 /\ qm.normal[o] = 0 /\ qm.rebuild[o] = 0
      /\ o \in plan.dest => partial[o] = 0
  BY <1>1, <1>2 DEF MemoryExact, Drained
<1> QED BY <1>3, HolderMeansBusy, MessageMeansBusy

LEMMA XNoBlockLost == XInv => NoBlockLost
BY MessageMeansBusy DEF NoBlockLost

\* For every plan the queued and rebuild counters of an operator are the number
\* of its work orders at the workers and of its completions on the bus.
THEOREM CountersExactHolds == Spec => []CountersExact
<1>1. Init => XInv BY InitX
<1>2. XInv /\ [Next]_vars => XInv' BY StepX
<1>3. XInv => CountersExact BY XCounters
<1> QED BY <1>1, <1>2, <1>3, PTL DEF Spec

\* For every plan a finished operator has nothing left anywhere: no input, no
\* work order, no partially filled block, no message on the bus.
THEOREM FinishedIsQuiescentHolds == Spec => []FinishedIsQuiescent
<1>1. Init => XInv BY InitX
<1>2. XInv /\ [Next]_vars => XInv' BY StepX
<1>3. XInv => FinishedIsQuiescent BY XQuiescent
<1> QED BY <1>1, <1>2, <1>3, PTL DEF Spec

\* For every plan no block on the bus reaches a consumer that has stopped
\* generating work orders.
THEOREM NoBlockLostHolds == Spec => []NoBlockLost
<1>1. Init => XInv BY InitX
<1>2. XInv /\ [Next]_vars => XInv' BY StepX
<1>3. XInv => NoBlockLost BY XNoBlockLost
<1> QED BY <1>1, <1>2, <1>3, PTL DEF Spec

-----------------------------------------------------------------------------
\* The paths of an irredundant plan, and the stack of a handler over it: the
\* frames hold unfinished dependents, each frame those of one operator, and the
\* operator of an inner frame is reached from the operator of an outer one.
Below == CHOOSE r \in SUBSET (Ops \X Ops) : Paths(plan.links, r)

Frames(s, fin) ==
    /\ \A k \in DOMAIN s : s[k] \cap fin = {} /\ \E a \in Ops : s[k] \subseteq Dependents(a)
    /\ \A k \in DOMAIN s : \A j \in DOMAIN s : k < j =>
         \E a, b \in Ops : /\ <<a, b>> \in Below
                           /\ s[k] \subseteq Dependents(a) /\ s[j] \subseteq Dependents(b)

LEMMA BelowFacts ==
  ASSUME Irredundant(plan.links)
  PROVE  /\ \A a, b \in Ops : b \in Dependents(a) => <<a, b>> \in Below
         /\ \A a, b, c \in Ops : <<a, b>> \in Below /\ <<b, c>> \in Below => <<a, c>> \in Below
         /\ \A a, b, c \in Ops : <<a, b>> \in Below /\ c \in Dependents(b) => c \notin Dependents(a)
<1>1. Paths(plan.links, Below) BY DEF Irredundant, Below
<1> QED BY <1>1 DEF Paths, Transitive, Dependents

LEMMA PushFacts ==
  ASSUME NEW s \in Seq(SUBSET Ops), NEW frame \in SUBSET Ops
  PROVE  /\ Push(s, frame) \in Seq(SUBSET Ops)
         /\ \A k \in DOMAIN s : k \in DOMAIN Push(s, frame) /\ Push(s, frame)[k] = s[k] /\ k \in Int
         /\ \A k \in DOMAIN Push(s, frame) : k \in Int /\
              (k \in DOMAIN s \/ (Push(s, frame)[k] = frame /\ k = Len(s) + 1))
         /\ frame # {} => Len(s) + 1 \in DOMAIN Push(s, frame) /\ Push(s, frame)[Len(s) + 1] = frame
         /\ \A k \in DOMAIN s : k < Len(s) + 1
<1>1. CASE frame = {}
  <2>1. Push(s, frame) = s BY <1>1 DEF Push
  <2>2. Len(s) \in Nat /\ \A k \in DOMAIN s : k \in Int /\ k < Len(s) + 1 OBVIOUS
  <2>3. frame # {} => FALSE BY <1>1
  <2> DEFINE t == Push(s, frame)
  <2>4. t = s BY <2>1
  <2> HIDE DEF t
  <2>5. /\ t \in Seq(SUBSET Ops)
        /\ \A k \in DOMAIN s : k \in DOMAIN t /\ t[k] = s[k] /\ k \in Int
        /\ \A k \in DOMAIN t : k \in Int /\ (k \in DOMAIN s \/ (t[k] = frame /\ k = Len(s) + 1))
        /\ \A k \in DOMAIN s : k < Len(s) + 1
    <3>1. \A k \in DOMAIN t : k \in DOMAIN s /\ k \in Int BY <2>2, <2>4
    <3>2. \A k \in DOMAIN s : k \in DOMAIN t /\ t[k] = s[k] BY <2>4
    <3> QED BY <2>2, <2>4, <3>1, <3>2
  <2> QED BY <2>3, <2>5 DEF t
<1>2. CASE frame # {}
  <2> DEFINE t == Append(s, frame)
  <2>1. Push(s, frame) = t BY <1>2 DEF Push
  <2>2. /\ t \in Seq(SUBSET Ops) /\ Len(t) = Len(s) + 1 /\ t[Len(s) + 1] = frame
        /\ \A k \in 1 .. Len(s) : t[k] = s[k]
    OBVIOUS
  <2>3. DOMAIN s = 1 .. Len(s) /\ DOMAIN t = 1 .. Len(s) + 1 /\ Len(s) \in Nat
    BY <2>2
  <2> HIDE DEF t
  <2>4. \A k \in 1 .. Len(s) + 1 : k \in Int /\ (k \in 1 .. Len(s) \/ k = Len(s) + 1)
    BY <2>3
  <2>5. \A k \in 1 .. Len(s) : k \in 1 .. Len(s) + 1 /\ k \in Int /\ k < Len(s) + 1 BY <2>3
  <2>6. Len(s) + 1 \in 1 .. Len(s) + 1 BY <2>3
  <2>7. /\ \A k \in DOMAIN s : k \in DOMAIN t /\ t[k] = s[k] /\ k \in Int
        /\ \A k \in DOMAIN s : k < Len(s) + 1
    BY <2>2, <2>3, <2>5
  <2>8. \A k \in DOMAIN t : k \in Int /\ (k \in DOMAIN s \/ (t[k] = frame /\ k = Len(s) + 1))
    <3>1. ASSUME NEW k \in DOMAIN t PROVE k \in Int /\ (k \in DOMAIN s \/ k = Len(s) + 1)
      BY <2>3, <2>4, <3>1
    <3> QED BY <2>2, <3>1
  <2>9. Len(s) + 1 \in DOMAIN t BY <2>3, <2>6
  <2> QED BY <2>1, <2>2, <2>7, <2>8, <2>9
<1> QED BY <1>1, <1>2

LEMMA FramesPush ==
  ASSUME NEW s \in Seq(SUBSET Ops), NEW fin, Frames(s, fin),
         NEW frame \in SUBSET Ops, \E b \in Ops : frame \subseteq Dependents(b), frame \cap fin = {},
         \A k \in DOMAIN s : \E a, b \in Ops :
            <<a, b>> \in Below /\ s[k] \subseteq Dependents(a) /\ frame \subseteq Dependents(b)
  PROVE  Frames(Push(s, frame), fin)
<1> DEFINE t == Push(s, frame)
<1>1. /\ \A k \in DOMAIN s : k \in DOMAIN t /\ t[k] = s[k] /\ k \in Int
      /\ \A k \in DOMAIN t : k \in Int /\ (k \in DOMAIN s \/ (t[k] = frame /\ k = Len(s) + 1))
      /\ \A k \in DOMAIN s : k < Len(s) + 1
      /\ Len(s) \in Nat
  BY PushFacts
<1> HIDE DEF t
<1>2. ASSUME NEW k \in DOMAIN t
      PROVE  t[k] \cap fin = {} /\ \E a \in Ops : t[k] \subseteq Dependents(a)
  <2>1. CASE k \in DOMAIN s BY <1>1, <2>1 DEF Frames
  <2>2. CASE t[k] = frame BY <2>2
  <2> QED BY <1>1, <2>1, <2>2
<1>3. ASSUME NEW k \in DOMAIN t, NEW j \in DOMAIN t, k < j
      PROVE  \E a, c \in Ops : /\ <<a, c>> \in Below
                               /\ t[k] \subseteq Dependents(a) /\ t[j] \subseteq Dependents(c)
  <2>1. k \in DOMAIN s
    <3>1. k \in Int /\ j \in Int /\ Len(s) \in Int BY <1>1
    <3>2. CASE k = Len(s) + 1
      <4>1. ~(j \in DOMAIN s) /\ j # Len(s) + 1 BY <1>1, <1>3, <3>1, <3>2
      <4> QED BY <1>1, <1>3, <4>1
    <3> QED BY <1>1, <1>3, <3>2
  <2>2. CASE j \in DOMAIN s BY <1>1, <1>3, <2>1, <2>2 DEF Frames
  <2>3. CASE t[j] = frame BY <1>1, <2>1, <2>3
  <2> QED BY <1>1, <1>3, <2>2, <2>3
<1> QED BY <1>2, <1>3 DEF Frames, t

LEMMA FramesCallers ==
  ASSUME stack \in Seq(SUBSET Ops), stack # <<>>, NEW fin, Frames(stack, fin)
  PROVE  /\ Frames(Callers, fin) /\ Callers \in Seq(SUBSET Ops) /\ Len(stack) \in DOMAIN stack
         /\ \A k \in DOMAIN Callers : k \in DOMAIN stack /\ Callers[k] = stack[k] /\ k < Len(stack)
<1>1. /\ Callers \in Seq(SUBSET Ops) /\ Len(stack) \in DOMAIN stack
      /\ \A k \in DOMAIN Callers : k \in DOMAIN stack /\ Callers[k] = stack[k] /\ k < Len(stack)
  BY DEF Callers
<1> QED BY <1>1 DEF Frames

LEMMA FramesGrow ==
  ASSUME NEW s, NEW fin, NEW d, Frames(s, fin), \A k \in DOMAIN s : d \notin s[k]
  PROVE  Frames(s, fin \cup {d})
BY DEF Frames

-----------------------------------------------------------------------------
\* No handler runs before every operator has been constructed.
ConstructedFirst == cursor < N => stack = <<>>

\* Each operator is marked finished once: after the constructor has passed it,
\* and never while a frame of the stack still holds it.
Counted ==
    /\ NumFinishedExact /\ \A o \in qm.finished : o < cursor
    /\ Frames(stack, qm.finished)

CInv == XInv /\ ConstructedFirst /\ Irredundant(plan.links) /\ Counted

LEMMA BelowKept == UNCHANGED plan => Below' = Below
<1> SUFFICES ASSUME plan' = plan PROVE Below' = Below OBVIOUS
<1>1. plan'.links = plan.links OBVIOUS
<1> QED BY <1>1 DEF Below, Paths, Transitive

LEMMA FramesKept ==
  ASSUME UNCHANGED plan, Frames(stack', qm'.finished)
  PROVE  Frames(stack, qm.finished)'
<1>1. Below' = Below BY BelowKept
<1>2. \A a \in Ops : Dependents(a)' = Dependents(a) BY DEF Dependents
<1> QED BY <1>1, <1>2 DEF Frames, Dependents

LEMMA FinishedFinite ==
  ASSUME qm \in QMType
  PROVE  IsFiniteSet(qm.finished)
<1>1. IsFiniteSet(Ops) BY NAssumption, FS_Interval DEF Ops
<1>2. qm.finished \subseteq Ops BY DEF QMType
<1> QED BY <1>1, <1>2, FS_Subset

LEMMA CountFinish ==
  ASSUME qm \in QMType, NumFinishedExact, NEW o, o \notin qm.finished, FinishesAtMost(qm, qm', o)
  PROVE  NumFinishedExact'
<1>1. Cardinality(qm.finished \cup {o}) = Cardinality(qm.finished) + 1
  BY FinishedFinite, FS_AddElement
<1>2. CASE qm'.finished = qm.finished /\ qm'.numFinished = qm.numFinished
  BY <1>2 DEF NumFinishedExact
<1>3. CASE qm'.finished = qm.finished \cup {o} /\ qm'.numFinished = qm.numFinished + 1
  BY <1>1, <1>3 DEF NumFinishedExact
<1> QED BY <1>2, <1>3 DEF FinishesAtMost

LEMMA DependentsUnfinished ==
  ASSUME XInv, NEW o \in Ops, o \notin qm.finished
  PROVE  Dependents(o) \cap (qm.finished \cup {o}) = {} /\ Dependents(o) \in SUBSET Ops
<1>1. MemoryExact(qm) /\ WellFormed(plan) BY XFacts DEF Exact
<1>2. \A e \in Ops : e \in qm.finished => Dependencies(e) \subseteq qm.finished
  BY <1>1 DEF MemoryExact
<1>3. \A e \in Dependents(o) : e \in Ops /\ o \in Dependencies(e) /\ e # o
  BY <1>1 DEF Dependents, Dependencies, WellFormed
<1> QED BY <1>2, <1>3

LEMMA Stacked ==
  ASSUME XInv, ~HandlerDone
  PROVE  /\ stack \in Seq(SUBSET Ops) /\ stack # <<>> /\ Callers \in Seq(SUBSET Ops)
         /\ stack[Len(stack)] \in SUBSET Ops
<1>1. stack \in Seq(SUBSET Ops) /\ stack # <<>> BY DEF XInv, IInv, TypeOK, HandlerDone
<1> QED BY <1>1, CallersType

\* A handler starts with an empty stack: the frame it pushes is the first.
LEMMA FirstFrame ==
  ASSUME XInv, stack = <<>>, NEW o \in Ops, NEW fin, Dependents(o) \cap fin = {}
  PROVE  Frames(Push(stack, Dependents(o)), fin)
<1>1. Dependents(o) \in SUBSET Ops BY DEF Dependents
<1>2. stack \in Seq(SUBSET Ops) /\ \A k \in DOMAIN stack : FALSE
  BY DEF XInv, IInv, TypeOK
<1>3. Frames(stack, fin) BY <1>2 DEF Frames
<1> QED BY <1>1, <1>2, <1>3, FramesPush

\* A visit keeps the frames apart: the dependent it takes from the innermost
\* frame is in no other one, so it can be marked finished and its own dependents
\* pushed.
LEMMA VisitFrames ==
  ASSUME CInv, ~HandlerDone, NEW d \in stack[Len(stack)], NEW fin,
         fin = qm.finished \/ fin = qm.finished \cup {d}, NEW reaches \in BOOLEAN
  PROVE  LET rest == Push(Callers, stack[Len(stack)] \ {d})
         IN  /\ d \in Ops /\ d \notin qm.finished
             /\ Frames(IF reaches THEN Push(rest, Dependents(d)) ELSE rest, fin)
<1> DEFINE top  == stack[Len(stack)]
           rest == Push(Callers, top \ {d})
<1>1. /\ stack \in Seq(SUBSET Ops) /\ stack # <<>> /\ Callers \in Seq(SUBSET Ops)
      /\ top \in SUBSET Ops /\ XInv
  BY Stacked DEF CInv
<1>2. Frames(stack, qm.finished) /\ Irredundant(plan.links) BY DEF CInv, Counted
<1>3. /\ \A a, b \in Ops : b \in Dependents(a) => <<a, b>> \in Below
      /\ \A a, b, c \in Ops : <<a, b>> \in Below /\ <<b, c>> \in Below => <<a, c>> \in Below
      /\ \A a, b, c \in Ops : <<a, b>> \in Below /\ c \in Dependents(b) => c \notin Dependents(a)
  BY <1>2, BelowFacts
<1>4. /\ Frames(Callers, qm.finished) /\ Len(stack) \in DOMAIN stack
      /\ \A k \in DOMAIN Callers : k \in DOMAIN stack /\ Callers[k] = stack[k] /\ k < Len(stack)
  BY <1>1, <1>2, FramesCallers
<1>5. d \in Ops /\ d \notin qm.finished BY <1>1, <1>2, <1>4 DEF Frames
<1>6. PICK b \in Ops : top \subseteq Dependents(b) BY <1>2, <1>4 DEF Frames
<1>7. \A k \in DOMAIN Callers : \E a, c \in Ops :
         <<a, c>> \in Below /\ Callers[k] \subseteq Dependents(a) /\ top \subseteq Dependents(c)
  BY <1>2, <1>4 DEF Frames
<1>8. ASSUME NEW k \in DOMAIN Callers PROVE d \notin Callers[k]
  <2>1. PICK a \in Ops, c \in Ops :
          <<a, c>> \in Below /\ Callers[k] \subseteq Dependents(a) /\ top \subseteq Dependents(c)
    BY <1>7
  <2>2. d \in Dependents(c) BY <2>1
  <2> QED BY <1>3, <1>5, <2>1, <2>2
<1>9. Frames(Callers, fin)
  <2>1. Frames(Callers, qm.finished \cup {d}) BY <1>4, <1>8, FramesGrow
  <2> QED BY <1>4, <2>1
<1>10. /\ Dependents(d) \cap (qm.finished \cup {d}) = {} /\ Dependents(d) \in SUBSET Ops
  BY <1>1, <1>5, DependentsUnfinished
<1>11. /\ top \ {d} \in SUBSET Ops /\ (top \ {d}) \cap fin = {}
  BY <1>1, <1>2, <1>4 DEF Frames
<1> HIDE DEF top
<1>12. /\ Frames(rest, fin) /\ rest \in Seq(SUBSET Ops)
       /\ \A k \in DOMAIN rest : \E a \in Ops : <<a, d>> \in Below /\ rest[k] \subseteq Dependents(a)
  <2>0. d \in top BY DEF top
  <2>1. CASE top \ {d} = {}
    <3>1. rest = Callers BY <2>1 DEF Push
    <3>2. ASSUME NEW k \in DOMAIN Callers
          PROVE  \E a \in Ops : <<a, d>> \in Below /\ Callers[k] \subseteq Dependents(a)
      <4>1. PICK a \in Ops, c \in Ops :
              <<a, c>> \in Below /\ Callers[k] \subseteq Dependents(a) /\ top \subseteq Dependents(c)
        BY <1>7
      <4> QED BY <1>3, <1>5, <2>0, <4>1
    <3> QED BY <1>1, <1>9, <3>1, <3>2
  <2>2. CASE top \ {d} # {}
    <3>2. Frames(rest, fin)
      <4> DEFINE new == top \ {d}
      <4>1. /\ new \in SUBSET Ops /\ new \cap fin = {} /\ \E e \in Ops : new \subseteq Dependents(e)
            /\ \A k \in DOMAIN Callers : \E a, e \in Ops :
                 <<a, e>> \in Below /\ Callers[k] \subseteq Dependents(a) /\ new \subseteq Dependents(e)
        BY <1>6, <1>7, <1>11
      <4>2. rest = Push(Callers, new) OBVIOUS
      <4> HIDE DEF new, rest
      <4> QED BY <1>1, <1>9, <4>1, <4>2, FramesPush
    <3>3. /\ rest \in Seq(SUBSET Ops)
          /\ \A k \in DOMAIN rest : k \in DOMAIN Callers \/ rest[k] = top \ {d}
          /\ \A k \in DOMAIN Callers : rest[k] = Callers[k]
      <4> DEFINE new == top \ {d}
      <4>1. rest = Push(Callers, new) /\ new \in SUBSET Ops BY <1>11
      <4> HIDE DEF new, rest
      <4>2. /\ rest \in Seq(SUBSET Ops)
            /\ \A k \in DOMAIN rest : k \in DOMAIN Callers \/ rest[k] = new
            /\ \A k \in DOMAIN Callers : rest[k] = Callers[k]
        BY <1>1, <4>1, PushFacts
      <4> QED BY <4>2 DEF new
    <3> HIDE DEF rest
    <3>4. ASSUME NEW k \in DOMAIN rest
          PROVE  \E a \in Ops : <<a, d>> \in Below /\ rest[k] \subseteq Dependents(a)
      <4>1. CASE rest[k] = top \ {d} BY <1>3, <1>5, <1>6, <2>0, <4>1
      <4>2. CASE k \in DOMAIN Callers
        <5>1. PICK a \in Ops, e \in Ops :
                <<a, e>> \in Below /\ Callers[k] \subseteq Dependents(a) /\ top \subseteq Dependents(e)
          BY <1>7, <4>2
        <5>2. <<a, d>> \in Below BY <1>3, <1>5, <2>0, <5>1
        <5> QED BY <3>3, <4>2, <5>1, <5>2
      <4> QED BY <3>3, <4>1, <4>2
    <3> QED BY <3>2, <3>3, <3>4
  <2> QED BY <2>1, <2>2
<1> HIDE DEF rest
<1>13. Dependents(d) \cap fin = {} BY <1>10
<1>14. Frames(Push(rest, Dependents(d)), fin)
  <2>1. \A k \in DOMAIN rest : \E a, e \in Ops :
           <<a, e>> \in Below /\ rest[k] \subseteq Dependents(a) /\ Dependents(d) \subseteq Dependents(e)
    BY <1>5, <1>12
  <2> QED BY <1>5, <1>10, <1>12, <1>13, <2>1, FramesPush
<1> QED BY <1>5, <1>12, <1>14 DEF rest, top

LEMMA StepConstructedFirst ==
  ASSUME XInv, ConstructedFirst, [Next]_vars
  PROVE  ConstructedFirst'
<1>0. cursor \in 0 .. N BY DEF XInv, IInv, TypeOK
<1>1. CASE ConstructOperator
  BY <1>0, <1>1, NAssumption DEF ConstructOperator, ConstructedFirst
<1>2. CASE cursor' = cursor /\ (stack' = stack \/ cursor = N)
  <2>1. N \in Int /\ ~(N < N) BY NAssumption
  <2> QED BY <1>2, <2>1 DEF ConstructedFirst
<1>3. VisitDependent => cursor' = cursor /\ cursor = N
  BY <1>0, NAssumption DEF VisitDependent, HandlerDone, ConstructedFirst
<1>4. ASSUME NEW w \in Workers, NEW type, Receives(w, type) PROVE cursor' = cursor /\ cursor = N
  BY <1>4 DEF Receives, Receptive, Constructed
<1>5. ASSUME NEW w \in Workers, Dispatch(w) \/ Worker(w) PROVE cursor' = cursor /\ stack' = stack
  BY <1>5 DEF Dispatch, Worker, executeWorkOrder, executeRebuildWorkOrder
<1>6. (UNCHANGED vars => cursor' = cursor /\ stack' = stack) BY DEF vars
<1>7. Foreman => ConstructedFirst'
  BY <1>1, <1>2, <1>3, <1>4
     DEF Foreman, processDataPipelineMessage, processFeedbackMessage,
         processWorkOrderCompleteMessage, processRebuildWorkOrderCompleteMessage
<1> QED BY <1>2, <1>5, <1>6, <1>7 DEF Next, Removed

LEMMA IrredundantKept ==
  ASSUME Irredundant(plan.links), UNCHANGED plan
  PROVE  Irredundant(plan.links)'
BY DEF Irredundant, Paths, Transitive

LEMMA InitC ==
  ASSUME \A p \in Plans : Irredundant(p.links), Init
  PROVE  CInv
<1>1. XInv BY InitX
<1>2. stack = <<>> /\ qm.finished = {} /\ qm.numFinished = 0 /\ plan \in Plans BY DEF Init
<1>3. Cardinality({}) = 0 BY FS_EmptySet
<1>4. Counted BY <1>2, <1>3 DEF Counted, NumFinishedExact, Frames
<1> QED BY <1>1, <1>2, <1>4 DEF CInv, ConstructedFirst

LEMMA StepC == CInv /\ [Next]_vars => CInv'
<1> SUFFICES ASSUME CInv, [Next]_vars PROVE CInv' OBVIOUS
<1>1. /\ XInv' /\ ConstructedFirst' /\ XInv /\ qm \in QMType /\ cursor \in 0 .. N /\ N \in Nat
      /\ ConstructedFirst /\ Irredundant(plan.links) /\ NumFinishedExact
      /\ (\A o \in qm.finished : o < cursor) /\ Frames(stack, qm.finished)
      /\ qm.finished \subseteq Ops
  BY StepX, StepConstructedFirst, NAssumption DEF CInv, Counted, XInv, IInv, TypeOK, QMType
<1>2. plan' = plan
  BY DEF Next, Foreman, Worker, Removed, vars, ConstructOperator, VisitDependent, Receives,
         processDataPipelineMessage, processFeedbackMessage, processWorkOrderCompleteMessage,
         processRebuildWorkOrderCompleteMessage, Dispatch, executeWorkOrder,
         executeRebuildWorkOrder
<1>3. SUFFICES /\ NumFinishedExact' /\ \A o \in qm'.finished : o < cursor'
               /\ Frames(stack', qm'.finished)
  BY <1>1, <1>2, IrredundantKept, FramesKept DEF CInv, Counted
<1>4. CASE ConstructOperator
  <2>1. cursor \in Ops /\ FinishesAtMost(qm, qm', cursor) BY <1>1, <1>4, ConstructExact
  <2>2. stack' = stack /\ stack = <<>> /\ cursor' = cursor + 1
    BY <1>1, <1>4 DEF ConstructOperator, ConstructedFirst
  <2>3. cursor \notin qm.finished BY <1>1
  <2>4. NumFinishedExact' BY <1>1, <2>1, <2>3, CountFinish
  <2>5. \A o \in qm'.finished : o < cursor'
    <3>1. \A o \in qm.finished : o \in Int /\ cursor \in Int BY <1>1 DEF Ops
    <3>2. \A o \in qm'.finished : o \in qm.finished \/ o = cursor BY <2>1 DEF FinishesAtMost
    <3> QED BY <1>1, <2>2, <3>1, <3>2
  <2>6. Frames(stack', qm'.finished) BY <2>2 DEF Frames
  <2> QED BY <2>4, <2>5, <2>6
<1>5. CASE VisitDependent
  <2> DEFINE top == stack[Len(stack)]
             rest(d) == Push(Callers, top \ {d})
  <2>1. ~HandlerDone /\ cursor' = cursor BY <1>5 DEF VisitDependent
  <2>2. PICK d \in top :
          IF checkAllBlockingDependenciesMet(qm, d)
          THEN /\ qm' = processOperator(qm, d)
               /\ stack' = IF reachesDependents(qm, d)
                           THEN Push(rest(d), Dependents(d)) ELSE rest(d)
          ELSE qm' = qm /\ stack' = rest(d)
    BY <1>5 DEF VisitDependent
  <2> DEFINE reaches == checkAllBlockingDependenciesMet(qm, d) /\ reachesDependents(qm, d)
  <2>3. reaches \in BOOLEAN BY DEF checkAllBlockingDependenciesMet, reachesDependents
  <2>4. stack' = IF reaches THEN Push(rest(d), Dependents(d)) ELSE rest(d) BY <2>2
  <2> HIDE DEF reaches
  <2>5. d \in Ops /\ d \notin qm.finished BY <2>1, <2>3, VisitFrames
  <2>6. FinishesAtMost(qm, qm', d)
    <3>1. IF checkAllBlockingDependenciesMet(qm, d)
          THEN qm' = processOperator(qm, d) ELSE qm' = qm
      BY <2>2
    <3> QED BY <1>1, <2>5, <3>1, VisitExact DEF FinishesAtMost
  <2>7. qm'.finished = qm.finished \/ qm'.finished = qm.finished \cup {d}
    BY <2>6 DEF FinishesAtMost
  <2>8. Frames(IF reaches THEN Push(rest(d), Dependents(d)) ELSE rest(d), qm'.finished)
    BY <2>1, <2>3, <2>7, VisitFrames
  <2>9. NumFinishedExact' BY <1>1, <2>5, <2>6, CountFinish
  <2>10. cursor = N
    BY <1>1, <2>1 DEF ConstructedFirst, HandlerDone
  <2>11. \A o \in qm'.finished : o < cursor'
    BY <1>1, <2>1, <2>5, <2>7, <2>10 DEF Ops
  <2> QED BY <2>4, <2>8, <2>9, <2>11
<1>6. ASSUME NEW w \in Workers, processDataPipelineMessage(w) \/ processFeedbackMessage(w)
      PROVE  /\ qm'.finished = qm.finished /\ qm'.numFinished = qm.numFinished
             /\ cursor' = cursor /\ stack' = stack
  BY <1>1, <1>6, PipelineExact, FeedbackExact
     DEF processDataPipelineMessage, processFeedbackMessage, Receives
<1>7. ASSUME NEW w \in Workers, NEW o \in Ops, o \notin qm.finished, FinishesAtMost(qm, qm', o),
             cursor = N, cursor' = cursor, stack = <<>>, stack' = stack \/ stack' = Push(stack, Dependents(o))
      PROVE  /\ NumFinishedExact' /\ \A p \in qm'.finished : p < cursor'
             /\ Frames(stack', qm'.finished)
  <2>1. NumFinishedExact' BY <1>1, <1>7, CountFinish
  <2>2. qm'.finished = qm.finished \/ qm'.finished = qm.finished \cup {o}
    BY <1>7 DEF FinishesAtMost
  <2>3. \A p \in qm'.finished : p < cursor' BY <1>1, <1>7, <2>2 DEF Ops
  <2>4. Dependents(o) \cap qm'.finished = {}
    BY <1>1, <1>7, <2>2, DependentsUnfinished
  <2>5. Frames(Push(stack, Dependents(o)), qm'.finished) BY <1>1, <1>7, <2>4, FirstFrame
  <2>6. Frames(<<>>, qm'.finished) BY DEF Frames
  <2> QED BY <1>7, <2>1, <2>3, <2>5, <2>6
<1>8. ASSUME NEW w \in Workers, NEW type, Receives(w, type)
      PROVE  cursor = N /\ cursor' = cursor /\ stack = <<>>
  BY <1>8 DEF Receives, Receptive, Constructed, HandlerDone
<1>9. ASSUME NEW w \in Workers, processWorkOrderCompleteMessage(w)
      PROVE  /\ NumFinishedExact' /\ \A o \in qm'.finished : o < cursor'
             /\ Frames(stack', qm'.finished)
  <2> DEFINE o == Head(chan[w]).op
  <2>1. Receives(w, "complete") /\ stack' = Push(stack, Dependents(o))
    BY <1>9 DEF processWorkOrderCompleteMessage
  <2>2. o \in Ops /\ o \notin qm.finished BY <1>1, <2>1, TakeFacts
  <2>3. FinishesAtMost(qm, qm', o) BY <1>1, <1>9, CompleteExact
  <2>4. cursor = N /\ cursor' = cursor /\ stack = <<>> BY <1>8, <2>1
  <2> HIDE DEF o
  <2> QED BY <1>7, <2>1, <2>2, <2>3, <2>4
<1>10. ASSUME NEW w \in Workers, processRebuildWorkOrderCompleteMessage(w)
       PROVE  /\ NumFinishedExact' /\ \A o \in qm'.finished : o < cursor'
              /\ Frames(stack', qm'.finished)
  <2> DEFINE o == Head(chan[w]).op
  <2>1. Receives(w, "rebuildComplete") BY <1>10 DEF processRebuildWorkOrderCompleteMessage
  <2>2. o \in Ops /\ o \notin qm.finished BY <1>1, <2>1, TakeFacts
  <2>3. FinishesAtMost(qm, qm', o) /\ (stack' = stack \/ stack' = Push(stack, Dependents(o)))
    BY <1>1, <1>10, RebuildExact DEF FinishesAtMost
  <2>4. cursor = N /\ cursor' = cursor /\ stack = <<>> BY <1>8, <2>1
  <2> HIDE DEF o
  <2> QED BY <1>7, <2>2, <2>3, <2>4
<1>11. ASSUME NEW w \in Workers, Dispatch(w)
       PROVE  /\ qm'.finished = qm.finished /\ qm'.numFinished = qm.numFinished
              /\ cursor' = cursor /\ stack' = stack
  BY <1>1, <1>11, DispatchExact DEF Dispatch
<1>12. ASSUME NEW w \in Workers, Worker(w)
       PROVE  qm' = qm /\ cursor' = cursor /\ stack' = stack
  BY <1>12 DEF Worker, executeWorkOrder, executeRebuildWorkOrder
<1>13. UNCHANGED vars => qm' = qm /\ cursor' = cursor /\ stack' = stack BY DEF vars
<1>14. CASE /\ qm'.finished = qm.finished /\ qm'.numFinished = qm.numFinished
            /\ cursor' = cursor /\ stack' = stack
  BY <1>1, <1>14 DEF NumFinishedExact
<1> QED
  <2>1. CASE Foreman BY <1>4, <1>5, <1>6, <1>9, <1>10, <1>14, <2>1 DEF Foreman
  <2>2. CASE \E w \in Workers : Dispatch(w) BY <1>11, <1>14, <2>2
  <2>3. CASE \E w \in Workers : Worker(w) BY <1>12, <1>14, <2>3
  <2>4. CASE Removed \/ UNCHANGED vars BY <1>13, <1>14, <2>4 DEF Removed
  <2> QED BY <2>1, <2>2, <2>3, <2>4 DEF Next

\* Over a plan without redundant links, the manager's counters count the
\* outstanding work, each finished operator is counted once, and a finished
\* operator has nothing left anywhere.
THEOREM OperatorStateExactHolds ==
  ASSUME \A p \in Plans : Irredundant(p.links)
  PROVE  Spec => []OperatorStateExact
<1>1. Init => CInv BY InitC
<1>2. CInv /\ [Next]_vars => CInv' BY StepC
<1>3. CInv => OperatorStateExact
  BY XCounters, XQuiescent DEF CInv, Counted, OperatorStateExact, XInv, IInv
<1> QED BY <1>1, <1>2, <1>3, PTL DEF Spec

-----------------------------------------------------------------------------
\* Input of an operator that may run waits for a completion on the bus, or for
\* the running handler to visit the operator.
Waits(c, s, o) == OnBus(c, "complete", o) # {} \/ \E k \in DOMAIN s : o \in s[k]

Collected ==
    \A o \in Ops : o < cursor /\ Blocking(o) \subseteq qm.finished /\ qm.avail[o] > 0
                     => Waits(chan, stack, o)

WInv == XInv /\ ConstructedFirst /\ Upward(plan.links) /\ Collected

LEMMA CollectedKept ==
  ASSUME UNCHANGED plan,
         \A o \in Ops : o < cursor' /\ Blocking(o) \subseteq qm'.finished /\ qm'.avail[o] > 0
                     => Waits(chan', stack', o)
  PROVE  Collected'
BY DEF Collected, Blocking, Waits, OnBus

\* Only the completion of operator o itself takes a completion of o off the bus.
LEMMA OtherTaken ==
  ASSUME NEW c \in [Workers -> Seq(Message)], NEW w \in Workers, c[w] # <<>>, NEW type, NEW o,
         IsFiniteSet(OnBus(c, type, o)), Head(c[w]) # [type |-> type, op |-> o],
         OnBus(c, type, o) # {}
  PROVE  OnBus([c EXCEPT ![w] = Tail(@)], type, o) # {}
<1> DEFINE d == [c EXCEPT ![w] = Tail(@)]
<1>1. /\ IsFiniteSet(OnBus(d, type, o))
      /\ Cardinality(OnBus(d, type, o)) = Cardinality(OnBus(c, type, o))
           - (IF Head(c[w]) = [type |-> type, op |-> o] THEN 1 ELSE 0)
      /\ Head(c[w]) = [type |-> type, op |-> o] => <<w, 1>> \in OnBus(c, type, o)
  BY BusTake
<1> HIDE DEF d
<1>2. Cardinality(OnBus(c, type, o)) \in Nat /\ Cardinality(OnBus(c, type, o)) # 0
  BY FS_CardinalityType, FS_EmptySet
<1>3. Cardinality(OnBus(d, type, o)) # 0 BY <1>1, <1>2
<1>4. OnBus(d, type, o) # {} BY <1>3, FS_EmptySet
<1> QED BY <1>4 DEF d

LEMMA TakeWaits ==
  ASSUME XInv, NEW w \in Workers, NEW type, Receives(w, type), NEW o \in Ops,
         type # "complete" \/ o # Head(chan[w]).op, OnBus(chan, "complete", o) # {}
  PROVE  OnBus(chan', "complete", o) # {}
<1>1. chan \in [Workers -> Seq(Message)] /\ Finite(slot, chan) BY XFacts DEF Balanced
<1>2. /\ chan[w] # <<>> /\ chan' = [chan EXCEPT ![w] = Tail(@)] /\ Head(chan[w]).type = type
  BY TakeFacts
<1>3. IsFiniteSet(OnBus(chan, "complete", o)) BY <1>1 DEF Finite, Completions
<1>4. Head(chan[w]) # [type |-> "complete", op |-> o] BY <1>2
<1> QED BY <1>1, <1>2, <1>3, <1>4, OtherTaken

\* What a worker reports only adds to the bus.
LEMMA ReportWaits ==
  ASSUME XInv, NEW w \in Workers, NEW msgs \in Seq(Message),
         chan' = [chan EXCEPT ![w] = @ \o msgs], NEW o \in Ops, OnBus(chan, "complete", o) # {}
  PROVE  OnBus(chan', "complete", o) # {}
<1>1. chan \in [Workers -> Seq(Message)] BY XFacts
<1>2. PICK x : x \in OnBus(chan, "complete", o) OBVIOUS
<1>3. PICK v, i : v \in Workers /\ i \in DOMAIN chan[v] /\ x = <<v, i>> BY <1>2, OnBusPair
<1>4. chan[v][i] = [type |-> "complete", op |-> o] BY <1>2, <1>3, OnBusMember
<1>5. i \in DOMAIN chan'[v] /\ chan'[v][i] = chan[v][i]
  <2>1. CASE v # w BY <1>1, <1>3, <2>1
  <2>2. CASE v = w
    <3> DEFINE s == chan[w]
    <3>1. s \in Seq(Message) /\ i \in 1 .. Len(s) /\ Len(s) \in Nat BY <1>1, <1>3, <2>2
    <3>2. chan'[w] = s \o msgs BY <1>1
    <3> HIDE DEF s
    <3>3. /\ s \o msgs \in Seq(Message) /\ Len(s \o msgs) = Len(s) + Len(msgs)
          /\ \A j \in 1 .. Len(s) : (s \o msgs)[j] = s[j]
      BY <3>1, Concatenation
    <3>4. Len(msgs) \in Nat OBVIOUS
    <3>5. i \in 1 .. Len(s) + Len(msgs) BY <3>1, <3>4
    <3> QED BY <2>2, <3>1, <3>2, <3>3, <3>5 DEF s
  <2> QED BY <2>1, <2>2
<1>6. <<v, i>> \in OnBus(chan', "complete", o) BY <1>3, <1>4, <1>5, OnBusMember
<1> QED BY <1>6

\* An operator that is unblocked when o finishes is visited by o's handler.
LEMMA NewlyUnblocked ==
  ASSUME XInv, NEW o \in Ops, NEW p \in Ops, Blocking(p) \subseteq qm.finished \cup {o}
  PROVE  Blocking(p) \subseteq qm.finished \/ (p \in Dependents(o) /\ p # o)
<1>1. WellFormed(plan) BY XFacts
<1> QED BY <1>1, PlanFacts DEF WellFormed, Dependents

LEMMA PushWaits ==
  ASSUME NEW s \in Seq(SUBSET Ops), NEW frame \in SUBSET Ops, NEW p
  PROVE  /\ p \in frame => \E k \in DOMAIN Push(s, frame) : p \in Push(s, frame)[k]
         /\ (\E k \in DOMAIN s : p \in s[k])
               => \E k \in DOMAIN Push(s, frame) : p \in Push(s, frame)[k]
BY PushFacts

LEMMA InitW ==
  ASSUME \A p \in Plans : Upward(p.links), Init
  PROVE  WInv
<1>1. XInv BY InitX
<1>2. cursor = 0 /\ stack = <<>> /\ plan \in Plans BY DEF Init
<1>3. \A o \in Ops : ~(o < cursor) BY <1>2 DEF Ops
<1> QED BY <1>1, <1>2, <1>3 DEF WInv, ConstructedFirst, Collected

LEMMA StepW == WInv /\ [Next]_vars => WInv'
<1> SUFFICES ASSUME WInv, [Next]_vars PROVE WInv' OBVIOUS
<1>1. /\ XInv' /\ ConstructedFirst' /\ XInv /\ qm \in QMType /\ cursor \in 0 .. N /\ N \in Nat
      /\ ConstructedFirst /\ Upward(plan.links) /\ Collected /\ WellFormed(plan)
      /\ qm.finished \subseteq Ops
      /\ \A o \in Ops : o < cursor /\ Blocking(o) \subseteq qm.finished => o \in qm.informed
  <2>1. XInv /\ ConstructedFirst /\ Upward(plan.links) /\ Collected BY DEF WInv
  <2>2. XInv' /\ ConstructedFirst' BY <2>1, StepX, StepConstructedFirst
  <2>3. qm \in QMType /\ cursor \in 0 .. N /\ WellFormed(plan) /\ Sound(qm, cursor)
    BY <2>1 DEF XInv, IInv, TypeOK
  <2>4. qm.finished \subseteq Ops BY <2>3 DEF QMType
  <2>5. \A o \in Ops : o < cursor /\ Blocking(o) \subseteq qm.finished => o \in qm.informed
    BY <2>3 DEF Sound, Told
  <2> QED BY <2>1, <2>2, <2>3, <2>4, <2>5, NAssumption
<1>2. plan' = plan
  BY DEF Next, Foreman, Worker, Removed, vars, ConstructOperator, VisitDependent, Receives,
         processDataPipelineMessage, processFeedbackMessage, processWorkOrderCompleteMessage,
         processRebuildWorkOrderCompleteMessage, Dispatch, executeWorkOrder,
         executeRebuildWorkOrder
<1>3. SUFFICES ASSUME NEW p \in Ops, p < cursor', Blocking(p) \subseteq qm'.finished, qm'.avail[p] > 0
               PROVE  Waits(chan', stack', p)
  BY <1>1, <1>2, CollectedKept DEF WInv
<1>4. p < cursor /\ Blocking(p) \subseteq qm.finished /\ qm.avail[p] > 0 => Waits(chan, stack, p)
  BY <1>1 DEF Collected
<1>5. CASE ConstructOperator
  <2>1. /\ cursor \in Ops /\ FinishesAtMost(qm, qm', cursor)
        /\ p # cursor => qm'.avail[p] = qm.avail[p]
        /\ Blocking(cursor) \subseteq qm.finished => qm'.avail[cursor] = 0
    BY <1>1, <1>5, ConstructExact
  <2>2. stack' = stack /\ chan' = chan /\ cursor' = cursor + 1 BY <1>5 DEF ConstructOperator
  <2>3. Blocking(p) \subseteq qm.finished \/ p \in Dependents(cursor)
    BY <1>1, <1>3, <2>1, NewlyUnblocked DEF FinishesAtMost
  <2>4. p \in Dependents(cursor) => cursor < p BY <1>1 DEF Upward, Dependents
  <2>5. p \in Int /\ cursor \in Int BY <1>1 DEF Ops
  <2>6. p < cursor \/ p = cursor BY <1>3, <2>2, <2>5
  <2>7. Blocking(p) \subseteq qm.finished
    BY <2>3, <2>4, <2>5, <2>6
  <2>8. p # cursor
    <3>1. CASE p = cursor
      <4>1. qm'.avail[p] = 0 BY <2>1, <2>7, <3>1
      <4> QED BY <1>3, <4>1
    <3> QED BY <3>1
  <2> QED BY <1>3, <1>4, <2>1, <2>2, <2>6, <2>7, <2>8
<1>6. CASE VisitDependent
  <2> DEFINE top == stack[Len(stack)]
             rest(d) == Push(Callers, top \ {d})
  <2>1. ~HandlerDone /\ cursor' = cursor /\ chan' = chan BY <1>6 DEF VisitDependent
  <2>2. PICK d \in top :
          IF checkAllBlockingDependenciesMet(qm, d)
          THEN /\ qm' = processOperator(qm, d)
               /\ stack' = IF reachesDependents(qm, d)
                           THEN Push(rest(d), Dependents(d)) ELSE rest(d)
          ELSE qm' = qm /\ stack' = rest(d)
    BY <1>6 DEF VisitDependent
  <2>3. /\ stack \in Seq(SUBSET Ops) /\ stack # <<>> /\ Callers \in Seq(SUBSET Ops)
        /\ top \in SUBSET Ops
    BY <1>1, <2>1, Stacked
  <2>4. d \in Ops /\ top \ {d} \in SUBSET Ops /\ Dependents(d) \in SUBSET Ops
    BY <2>3 DEF Dependents
  <2>5. cursor = N /\ d < cursor
    BY <1>1, <2>1, <2>4 DEF ConstructedFirst, HandlerDone, Ops
  <2>6. /\ p # d => qm'.avail[p] = qm.avail[p]
        /\ Blocking(d) \subseteq qm.finished /\ d \in qm.informed => qm'.avail[d] = 0
        /\ \/ qm'.finished = qm.finished
           \/ /\ qm'.finished = qm.finished \cup {d}
              /\ reachesDependents(qm, d) /\ checkAllBlockingDependenciesMet(qm, d)
    <3>1. IF checkAllBlockingDependenciesMet(qm, d)
          THEN qm' = processOperator(qm, d) ELSE qm' = qm
      BY <2>2
    <3> QED BY <1>1, <2>4, <3>1, VisitExact
  <2>7. rest(d) \in Seq(SUBSET Ops)
    <3> DEFINE new == top \ {d}
    <3>1. new \in SUBSET Ops BY <2>4
    <3> HIDE DEF new
    <3>2. Push(Callers, new) \in Seq(SUBSET Ops) BY <2>3, <3>1, PushType
    <3> QED BY <3>2 DEF new
  <2>8. ASSUME \E k \in DOMAIN rest(d) : p \in rest(d)[k]
        PROVE  \E k \in DOMAIN stack' : p \in stack'[k]
    <3>1. stack' = rest(d) \/ stack' = Push(rest(d), Dependents(d)) BY <2>2
    <3>2. CASE stack' = rest(d) BY <2>8, <3>2
    <3>3. CASE stack' = Push(rest(d), Dependents(d))
      <4> DEFINE s == rest(d)
      <4>1. s \in Seq(SUBSET Ops) /\ (\E k \in DOMAIN s : p \in s[k]) /\ stack' = Push(s, Dependents(d))
        BY <2>7, <2>8, <3>3
      <4> HIDE DEF s
      <4> QED BY <2>4, <4>1, PushWaits
    <3> QED BY <3>1, <3>2, <3>3
  <2>9. CASE Blocking(p) \subseteq qm.finished
    <3>1. p # d
      <4>1. CASE p = d
        <5>1. d \in qm.informed BY <1>1, <2>4, <2>5, <2>9, <4>1
        <5>2. qm'.avail[p] = 0 BY <2>6, <2>9, <4>1, <5>1
        <5> QED BY <1>3, <5>2
      <4> QED BY <4>1
    <3>2. Waits(chan, stack, p) BY <1>3, <1>4, <2>1, <2>6, <2>9, <3>1
    <3>3. CASE OnBus(chan, "complete", p) # {} BY <2>1, <3>3 DEF Waits
    <3>4. CASE \E k \in DOMAIN stack : p \in stack[k]
      <4>1. PICK k \in DOMAIN stack : p \in stack[k] BY <3>4
      <4>2. \E j \in DOMAIN rest(d) : p \in rest(d)[j]
        <5> DEFINE new == top \ {d}
        <5>1. new \in SUBSET Ops /\ (k = Len(stack) => p \in new) BY <2>4, <3>1, <4>1
        <5>2. k # Len(stack) => k \in DOMAIN Callers /\ Callers[k] = stack[k]
          BY <2>3, <4>1 DEF Callers
        <5> HIDE DEF new
        <5>3. CASE k = Len(stack) BY <2>3, <5>1, <5>3, PushWaits DEF new
        <5>4. CASE k # Len(stack)
          <6>1. \E j \in DOMAIN Callers : p \in Callers[j] BY <4>1, <5>2, <5>4
          <6>2. \E j \in DOMAIN Push(Callers, new) : p \in Push(Callers, new)[j]
            BY <2>3, <5>1, <6>1, PushWaits
          <6> QED BY <6>2 DEF new
        <5> QED BY <5>3, <5>4
      <4> QED BY <2>8, <4>2 DEF Waits
    <3> QED BY <3>2, <3>3, <3>4 DEF Waits
  <2>10. CASE ~(Blocking(p) \subseteq qm.finished)
    <3>1. /\ qm'.finished = qm.finished \cup {d}
          /\ reachesDependents(qm, d) /\ checkAllBlockingDependenciesMet(qm, d)
      BY <1>3, <2>6, <2>10
    <3>2. p \in Dependents(d) BY <1>1, <1>3, <2>4, <2>10, <3>1, NewlyUnblocked
    <3>3. stack' = Push(rest(d), Dependents(d)) BY <2>2, <3>1
    <3> DEFINE s == rest(d)
    <3>4. s \in Seq(SUBSET Ops) /\ stack' = Push(s, Dependents(d)) BY <2>7, <3>3
    <3> HIDE DEF s
    <3>5. \E k \in DOMAIN stack' : p \in stack'[k] BY <2>4, <3>2, <3>4, PushWaits
    <3> QED BY <3>5 DEF Waits
  <2> QED BY <2>9, <2>10
<1>7. ASSUME NEW w \in Workers, NEW type, Receives(w, type)
      PROVE  cursor = N /\ cursor' = cursor /\ stack = <<>> /\ p < cursor
  BY <1>1, <1>7 DEF Receives, Receptive, Constructed, HandlerDone, Ops
<1>8. ASSUME NEW w \in Workers, processDataPipelineMessage(w) PROVE Waits(chan', stack', p)
  <2>1. Receives(w, "pipeline") /\ stack' = stack BY <1>8 DEF processDataPipelineMessage
  <2>2. cursor = N /\ cursor' = cursor /\ stack = <<>> /\ p < cursor BY <1>7, <2>1
  <2>3. /\ qm'.finished = qm.finished
        /\ qm'.avail[p] = qm.avail[p]
             \/ (Blocking(p) \subseteq qm.finished /\ p \in qm.informed => qm'.avail[p] = 0)
    BY <1>1, <1>8, PipelineExact
  <2>4. Blocking(p) \subseteq qm.finished /\ p \in qm.informed BY <1>1, <1>3, <2>2, <2>3
  <2>5. qm'.avail[p] = qm.avail[p]
    <3>1. qm'.avail[p] # 0 BY <1>3
    <3> QED BY <2>3, <2>4, <3>1
  <2>6. OnBus(chan, "complete", p) # {} BY <1>3, <1>4, <2>2, <2>4, <2>5 DEF Waits
  <2> QED BY <1>1, <2>1, <2>6, TakeWaits DEF Waits
<1>9. ASSUME NEW w \in Workers, processFeedbackMessage(w) PROVE Waits(chan', stack', p)
  <2> DEFINE o == Head(chan[w]).op
  <2>1. Receives(w, "feedback") /\ stack' = stack BY <1>9 DEF processFeedbackMessage
  <2>2. cursor = N /\ cursor' = cursor /\ stack = <<>> /\ p < cursor BY <1>7, <2>1
  <2>3. qm'.finished = qm.finished /\ (p # o => qm'.avail[p] = qm.avail[p])
    BY <1>1, <1>9, FeedbackExact
  <2>4. CASE p = o
    <3>1. PICK j \in DOMAIN chan'[w] : chan'[w][j].op = o /\ chan'[w][j].type = "complete"
      BY <1>1, <2>1, TakeFacts
    <3>2. chan'[w][j] \in Message
      <4>1. chan' \in [Workers -> Seq(Message)] BY <1>1 DEF XInv, IInv, TypeOK
      <4> QED BY <3>1, <4>1
    <3>3. chan'[w][j] = [type |-> "complete", op |-> p] BY <2>4, <3>1, <3>2 DEF Message
    <3>4. <<w, j>> \in OnBus(chan', "complete", p) BY <3>1, <3>3, OnBusMember
    <3> QED BY <3>4 DEF Waits
  <2>5. CASE p # o
    <3>1. OnBus(chan, "complete", p) # {} BY <1>3, <1>4, <2>2, <2>3, <2>5 DEF Waits
    <3> QED BY <1>1, <2>1, <3>1, TakeWaits DEF Waits
  <2> QED BY <2>4, <2>5
<1>10. ASSUME NEW w \in Workers, NEW type, Receives(w, type), NEW o \in Ops, o = Head(chan[w]).op,
              FinishesAtMost(qm, qm', o), qm'.avail[p] = qm.avail[p], type # "complete" \/ p # o,
              stack' = Push(stack, Dependents(o)) \/ qm'.finished = qm.finished
       PROVE  Waits(chan', stack', p)
  <2>1. cursor = N /\ cursor' = cursor /\ stack = <<>> /\ p < cursor BY <1>7, <1>10
  <2>2. CASE Blocking(p) \subseteq qm.finished
    <3>1. OnBus(chan, "complete", p) # {} BY <1>3, <1>4, <1>10, <2>1, <2>2 DEF Waits
    <3> QED BY <1>1, <1>10, <3>1, TakeWaits DEF Waits
  <2>3. CASE ~(Blocking(p) \subseteq qm.finished)
    <3>1. qm'.finished = qm.finished \cup {o} /\ qm'.finished # qm.finished
      BY <1>3, <1>10, <2>3 DEF FinishesAtMost
    <3>2. p \in Dependents(o) BY <1>1, <1>3, <1>10, <2>3, <3>1, NewlyUnblocked
    <3>3. stack' = Push(stack, Dependents(o)) BY <1>10, <3>1
    <3>4. stack \in Seq(SUBSET Ops) /\ Dependents(o) \in SUBSET Ops
      BY <1>1 DEF XInv, IInv, TypeOK, Dependents
    <3>5. \E k \in DOMAIN stack' : p \in stack'[k] BY <3>2, <3>3, <3>4, PushWaits
    <3> QED BY <3>5 DEF Waits
  <2> QED BY <2>2, <2>3
<1>11. ASSUME NEW w \in Workers, processWorkOrderCompleteMessage(w) PROVE Waits(chan', stack', p)
  <2> DEFINE o == Head(chan[w]).op
  <2>1. Receives(w, "complete") /\ stack' = Push(stack, Dependents(o))
    BY <1>11 DEF processWorkOrderCompleteMessage
  <2>2. o \in Ops BY <1>1, <2>1, TakeFacts
  <2>3. /\ FinishesAtMost(qm, qm', o) /\ (p # o => qm'.avail[p] = qm.avail[p])
        /\ Blocking(o) \subseteq qm.finished /\ o \in qm.informed => qm'.avail[o] = 0
    BY <1>1, <1>11, CompleteExact
  <2>4. cursor = N /\ cursor' = cursor /\ stack = <<>> /\ p < cursor BY <1>7, <2>1
  <2> HIDE DEF o
  <2>5. p # o
    <3>1. CASE p = o
      <4>1. Blocking(p) \subseteq qm.finished
        BY <1>1, <1>3, <2>2, <2>3, <3>1, NewlyUnblocked DEF FinishesAtMost
      <4>2. o \in qm.informed BY <1>1, <2>4, <3>1, <4>1
      <4>3. qm'.avail[p] = 0 BY <2>3, <3>1, <4>1, <4>2
      <4> QED BY <1>3, <4>3
    <3> QED BY <3>1
  <2> QED BY <1>10, <2>1, <2>2, <2>3, <2>5 DEF o
<1>12. ASSUME NEW w \in Workers, processRebuildWorkOrderCompleteMessage(w)
       PROVE  Waits(chan', stack', p)
  <2> DEFINE o == Head(chan[w]).op
  <2>1. Receives(w, "rebuildComplete") BY <1>12 DEF processRebuildWorkOrderCompleteMessage
  <2>2. o \in Ops BY <1>1, <2>1, TakeFacts
  <2>3. /\ FinishesAtMost(qm, qm', o) /\ qm'.avail[p] = qm.avail[p]
        /\ stack' = Push(stack, Dependents(o)) \/ qm'.finished = qm.finished
    BY <1>1, <1>12, RebuildExact DEF FinishesAtMost
  <2> QED BY <1>10, <2>1, <2>2, <2>3
<1>13. ASSUME NEW w \in Workers, Dispatch(w) PROVE Waits(chan', stack', p)
  <2>1. /\ qm'.finished = qm.finished /\ qm'.avail = qm.avail /\ cursor' = cursor
        /\ stack' = stack /\ chan' = chan
    BY <1>1, <1>13, DispatchExact DEF Dispatch
  <2> QED BY <1>3, <1>4, <2>1
<1>14. ASSUME NEW w \in Workers, executeWorkOrder(w) \/ executeRebuildWorkOrder(w)
       PROVE  Waits(chan', stack', p)
  <2>1. qm' = qm /\ cursor' = cursor /\ stack' = stack
    BY <1>14 DEF executeWorkOrder, executeRebuildWorkOrder
  <2>2. Waits(chan, stack, p) BY <1>3, <1>4, <2>1
  <2>3. CASE OnBus(chan, "complete", p) # {}
    <3>1. PICK msgs \in Seq(Message) : chan' = [chan EXCEPT ![w] = @ \o msgs]
      <4>1. slot[w].op \in Ops
        <5>1. slot[w] \in WorkOrder \cup {Idle} BY <1>1, XFacts
        <5>2. slot[w].kind # "idle" BY <1>14 DEF executeWorkOrder, executeRebuildWorkOrder
        <5>3. slot[w] \in WorkOrder BY <5>1, <5>2 DEF Idle
        <5> QED BY <5>3 DEF WorkOrder
      <4>2. CASE executeWorkOrder(w)
        <5> DEFINE o == slot[w].op
                   k == IF plan.rounds[o] > 0 THEN 1 ELSE 0
        <5>1. PICK n \in 0 .. MaxStream :
                chan' = [chan EXCEPT ![w] =
                  @ \o (Copies(n, [type |-> "pipeline", op |-> o])
                          \o Copies(k, [type |-> "feedback", op |-> o])
                          \o <<[type |-> "complete", op |-> o]>>)]
          BY <4>2 DEF executeWorkOrder
        <5>2. n \in Nat /\ k \in Nat BY BoundsAssumption
        <5>3. Output(n, k, o) \in Seq(Message) BY <4>1, <5>2, OutputMessages
        <5>4. <<[type |-> "complete", op |-> o]>> \in Seq(Message) BY <4>1 DEF Message
        <5>5. Output(n, k, o) \o <<[type |-> "complete", op |-> o]>> \in Seq(Message)
          BY <5>3, <5>4, Concatenation
        <5> QED BY <5>1, <5>5 DEF Output
      <4>3. CASE executeRebuildWorkOrder(w)
        <5> DEFINE o == slot[w].op
        <5>1. <<[type |-> "pipeline", op |-> o], [type |-> "rebuildComplete", op |-> o]>> \in Seq(Message)
          BY <4>1 DEF Message
        <5> QED BY <4>3, <5>1 DEF executeRebuildWorkOrder
      <4> QED BY <1>14, <4>2, <4>3
    <3> QED BY <1>1, <1>14, <2>3, <3>1, ReportWaits DEF Waits
  <2> QED BY <2>1, <2>2, <2>3 DEF Waits
<1>15. CASE UNCHANGED vars
  <2>1. qm' = qm /\ cursor' = cursor /\ stack' = stack /\ chan' = chan BY <1>15 DEF vars
  <2> QED BY <1>3, <1>4, <2>1
<1> QED
  <2>1. CASE Foreman BY <1>5, <1>6, <1>8, <1>9, <1>11, <1>12, <2>1 DEF Foreman
  <2>2. CASE \E w \in Workers : Dispatch(w) BY <1>13, <2>2
  <2>3. CASE \E w \in Workers : Worker(w) BY <1>14, <2>3 DEF Worker
  <2>4. CASE Removed \/ UNCHANGED vars BY <1>15, <2>4 DEF Removed
  <2> QED BY <2>1, <2>2, <2>3, <2>4 DEF Next

\* Over a plan whose links go from lower to higher indexes, no block reaches a
\* consumer that is done generating, and between two messages no operator that
\* may run holds input that no later message will collect.
THEOREM NothingForgottenHolds ==
  ASSUME \A p \in Plans : Upward(p.links)
  PROVE  Spec => []NothingForgotten
<1>1. Init => WInv BY InitW
<1>2. WInv /\ [Next]_vars => WInv' BY StepW
<1>3. WInv => NothingForgotten
  <2> SUFFICES ASSUME WInv PROVE NothingForgotten OBVIOUS
  <2>1. XInv /\ Collected BY DEF WInv
  <2>2. NoBlockLost BY <2>1, XNoBlockLost
  <2>3. ASSUME Receptive, NEW o \in Ops, Blocking(o) \subseteq qm.finished, qm.avail[o] > 0
        PROVE  InBus("complete", o) # {}
    <3>1. o < cursor BY <2>3, NAssumption DEF Receptive, Constructed, Ops
    <3>2. Waits(chan, stack, o) BY <2>1, <2>3, <3>1 DEF Collected
    <3>3. stack = <<>> BY <2>3 DEF Receptive, HandlerDone
    <3> QED BY <3>2, <3>3 DEF Waits, OnBus, InBus
  <2> QED BY <2>2, <2>3 DEF NothingForgotten, WorkCollected
<1> QED BY <1>1, <1>2, <1>3, PTL DEF Spec
=============================================================================
