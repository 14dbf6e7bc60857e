-------------------------- MODULE ThreadingProofs --------------------------
(***************************************************************************)
(* Proofs about the two shared mutexes and the queue, for any number of    *)
(* threads that fits into the count below the write bit, any elements and  *)
(* any batches.                                                            *)
(***************************************************************************)
EXTENDS MCThreading, FiniteSetTheorems, SequenceTheorems, TLAPS

\* The operators of FiniteSets are the same ones in the instances.
LEMMA SameOperators ==
    /\ \A S : Queue!IsFiniteSet(S) <=> IsFiniteSet(S)
    /\ \A S : Queue!Cardinality(S) = Cardinality(S)
    /\ \A S : Blocking!IsFiniteSet(S) <=> IsFiniteSet(S)
    /\ \A S : Blocking!Cardinality(S) = Cardinality(S)
<1>1. \A S : (Queue!IsFiniteSet(S) <=> IsFiniteSet(S)) /\ (Blocking!IsFiniteSet(S) <=> IsFiniteSet(S))
  BY DEF Queue!IsFiniteSet, Blocking!IsFiniteSet, IsFiniteSet
<1>2. \A S : Queue!Cardinality(S) = Cardinality(S) /\ Blocking!Cardinality(S) = Cardinality(S)
  BY DEF Queue!Cardinality, Blocking!Cardinality, Cardinality
<1> QED BY <1>1, <1>2

-----------------------------------------------------------------------------
(* SpinSharedMutex *)

Counted == In({"shared", "backOff"})
Claimed == In({"drain", "exclusive"})

\* The write bit belongs to one thread.
OneClaim == \A t, u \in Claimed : t = u

SpinInv == TypeOK /\ StateExact /\ OneClaim /\ MutualExclusion

-----------------------------------------------------------------------------
\* Any set of threads fits into the count.
LEMMA Fits ==
    ASSUME NEW S \in SUBSET Threads
    PROVE  /\ IsFiniteSet(S) /\ Cardinality(S) \in Nat
           /\ Cardinality(S) < kWriteBit
           /\ Cardinality(S) = 0 <=> S = {}
<1>1. IsFiniteSet(S) /\ Cardinality(S) <= Cardinality(Threads)
  BY FS_Subset, ThreadsAssumption
<1>2. Cardinality(S) \in Nat /\ Cardinality(Threads) \in Nat
  BY <1>1, FS_CardinalityType, ThreadsAssumption
<1>3. Cardinality(S) = 0 <=> S = {} BY <1>1, FS_EmptySet
<1> QED BY <1>1, <1>2, <1>3, ThreadsAssumption

\* What a step of one thread does to a set of threads by place.
LEMMA Moves ==
    ASSUME TypeOK, NEW t \in Threads, NEW from, NEW to, Go(t, from, to), NEW P
    PROVE  /\ In(P) \subseteq Threads
           /\ In(P)' = IF to \in P THEN In(P) \cup {t} ELSE In(P) \ {t}
           /\ t \in In(P) <=> from \in P
BY DEF TypeOK, Go, In

\* The word that In counts, read back: what a thread sees in the write bit.
LEMMA BitSeen ==
    ASSUME SpinInv
    PROVE  /\ Counted \in SUBSET Threads /\ Claimed \in SUBSET Threads
           /\ state = Cardinality(Counted) + (IF Claimed = {} THEN 0 ELSE kWriteBit)
           /\ Cardinality(Counted) \in Nat /\ Cardinality(Counted) < kWriteBit
           /\ Cardinality(Counted) = 0 <=> Counted = {}
           /\ hasWriteBit(state) <=> Claimed # {}
           /\ kWriteBit \in Nat /\ kWriteBit > 0
<1>1. Counted \in SUBSET Threads /\ Claimed \in SUBSET Threads BY DEF Counted, Claimed, In
<1>2. /\ Cardinality(Counted) \in Nat /\ Cardinality(Counted) < kWriteBit
      /\ Cardinality(Counted) = 0 <=> Counted = {}
  BY <1>1, Fits
<1>3. state = Cardinality(Counted) + (IF Claimed = {} THEN 0 ELSE kWriteBit)
  BY DEF SpinInv, StateExact, Counted, Claimed
<1>4. kWriteBit \in Nat /\ kWriteBit > 0 BY <1>2, ThreadsAssumption
<1> QED BY <1>1, <1>2, <1>3, <1>4 DEF hasWriteBit

\* A step that keeps both sets and the word keeps the invariant.
LEMMA SameSets ==
    ASSUME SpinInv, NEW t \in Threads, NEW from, NEW to \in Places, Go(t, from, to),
           from \notin {"shared", "backOff", "drain", "exclusive"},
           to \notin {"shared", "backOff", "drain", "exclusive"},
           state' = state
    PROVE  SpinInv'
<1>1. TypeOK BY DEF SpinInv
<1>2. TypeOK' BY <1>1 DEF TypeOK, Go
<1>3. \A P : P \subseteq {"shared", "backOff", "drain", "exclusive"} => In(P)' = In(P)
  <2> SUFFICES ASSUME NEW P, P \subseteq {"shared", "backOff", "drain", "exclusive"}
               PROVE  In(P)' = In(P)
    OBVIOUS
  <2>1. In(P)' = In(P) \ {t} /\ t \notin In(P) BY <1>1, Moves
  <2> QED BY <2>1
<1>4. /\ Counted' = Counted /\ Claimed' = Claimed
      /\ In({"exclusive"})' = In({"exclusive"})
      /\ In({"exclusive", "shared"})' = In({"exclusive", "shared"})
  BY <1>3 DEF Counted, Claimed
<1>5. StateExact' BY <1>4 DEF SpinInv, StateExact, Counted, Claimed
<1>6. OneClaim' BY <1>4 DEF SpinInv, OneClaim
<1>7. MutualExclusion' BY <1>4 DEF SpinInv, MutualExclusion
<1> QED BY <1>2, <1>5, <1>6, <1>7 DEF SpinInv

\* Adding to the word wraps only when it leaves its range.
LEMMA NoWrap ==
    ASSUME NEW x \in Int, 0 <= x, x < 2 * kWriteBit
    PROVE  x % (2 * kWriteBit) = x
BY ThreadsAssumption

-----------------------------------------------------------------------------
LEMMA SpinInit == Init => SpinInv
<1> SUFFICES ASSUME Init PROVE SpinInv OBVIOUS
<1>1. \A P : "out" \notin P => In(P) = {} BY DEF Init, In
<1>2. Counted = {} /\ Claimed = {} /\ In({"exclusive"}) = {}
  BY <1>1 DEF Counted, Claimed
<1>3. kWriteBit \in Nat /\ kWriteBit > 0
  <2>1. {} \in SUBSET Threads OBVIOUS
  <2> QED BY <2>1, Fits, ThreadsAssumption
<1>4. TypeOK BY <1>3 DEF Init, TypeOK, Places
<1>5. StateExact BY <1>2, FS_EmptySet DEF StateExact, Init, Counted, Claimed
<1> QED BY <1>2, <1>4, <1>5 DEF SpinInv, OneClaim, MutualExclusion, Claimed

\* The word after a step, from the cardinalities of the two sets after it.
LEMMA ExactAfter ==
    ASSUME TypeOK', state' = Cardinality(Counted') + (IF Claimed' = {} THEN 0 ELSE kWriteBit)
    PROVE  StateExact'
BY DEF StateExact, Counted, Claimed

\* lock(), one step of its loops at a time.
LEMMA WriterStep ==
    ASSUME SpinInv, NEW t \in Threads, setBit(t) \/ drain(t) \/ unlock(t)
    PROVE  SpinInv'
<1>t. TypeOK BY DEF SpinInv
<1>b. /\ Counted \in SUBSET Threads /\ Claimed \in SUBSET Threads
      /\ state = Cardinality(Counted) + (IF Claimed = {} THEN 0 ELSE kWriteBit)
      /\ Cardinality(Counted) \in Nat /\ Cardinality(Counted) < kWriteBit
      /\ Cardinality(Counted) = 0 <=> Counted = {}
      /\ hasWriteBit(state) <=> Claimed # {}
      /\ kWriteBit \in Nat /\ kWriteBit > 0
  BY BitSeen
<1>1. CASE hasWriteBit(state) /\ setBit(t)
  BY <1>1 DEF setBit, vars, SpinInv, TypeOK, StateExact, OneClaim, MutualExclusion, Claimed, In
<1>2. ASSUME NEW to \in {"exclusive", "drain"}, Go(t, "setBit", to), ~hasWriteBit(state),
             to = "exclusive" => state = 0, state' = state + kWriteBit
      PROVE  SpinInv'
  <2>1. /\ Counted' = Counted \ {t} /\ t \notin Counted
        /\ Claimed' = Claimed \cup {t}
    BY <1>t, <1>2, Moves DEF Counted, Claimed
  <2>2. Counted' = Counted /\ Claimed' = {t} BY <2>1, <1>2, <1>b
  <2>3. state' = Cardinality(Counted) + kWriteBit BY <1>2, <1>b
  <2>4. TypeOK' BY <2>3, <1>b, <1>2, <1>t DEF TypeOK, Go, Places
  <2>5. StateExact' BY <2>2, <2>3, <2>4, ExactAfter
  <2>6. OneClaim' BY <2>2 DEF OneClaim
  <2>7. MutualExclusion'
    <3>1. In({"exclusive"})' \subseteq Claimed' BY DEF In, Claimed
    <3>2. CASE to = "drain"
      <4>1. t \notin In({"exclusive"})' BY <3>2, <1>2, <1>t DEF In, Go, TypeOK
      <4> QED BY <3>1, <4>1, <2>2 DEF MutualExclusion
    <3>3. CASE to = "exclusive"
      <4>1. Counted = {} BY <3>3, <1>2, <1>b
      <4>2. In({"exclusive", "shared"})' \subseteq Counted' \cup Claimed' BY DEF In, Counted, Claimed
      <4>3. t \in In({"exclusive", "shared"})' BY <3>3, <1>2, <1>t DEF In, Go, TypeOK
      <4>4. In({"exclusive", "shared"})' = {t} BY <4>1, <4>2, <4>3, <2>2
      <4> QED BY <3>1, <4>4, <2>2 DEF MutualExclusion
    <3> QED BY <3>2, <3>3, <1>2
  <2> QED BY <2>4, <2>5, <2>6, <2>7 DEF SpinInv
<1>3. CASE ~hasWriteBit(state) /\ setBit(t)
  <2>1. CASE state = 0
    BY <1>3, <2>1, <1>2 DEF setBit
  <2>2. CASE state # 0
    BY <1>3, <2>2, <1>2 DEF setBit
  <2> QED BY <2>1, <2>2
<1>4. CASE drain(t)
  <2>1. Go(t, "drain", "exclusive") /\ state = kWriteBit /\ state' = state BY <1>4 DEF drain
  <2>2. /\ Counted' = Counted \ {t} /\ t \notin Counted
        /\ Claimed' = Claimed \cup {t} /\ t \in Claimed
    BY <1>t, <2>1, Moves DEF Counted, Claimed
  <2>3. Counted' = Counted /\ Claimed' = Claimed /\ Claimed # {} BY <2>2
  <2>4. Counted = {}
    <3>1. kWriteBit = Cardinality(Counted) + kWriteBit BY <2>1, <2>3, <1>b
    <3>2. Cardinality(Counted) = 0 BY <3>1, <1>b
    <3> QED BY <3>2, <1>b
  <2>5. Claimed = {t} BY <2>2 DEF SpinInv, OneClaim
  <2>6. TypeOK' BY <2>1, <1>t DEF TypeOK, Go, Places
  <2>7. StateExact' BY <2>1, <2>3, <2>6, <1>b, ExactAfter
  <2>8. OneClaim' BY <2>3, <2>5 DEF OneClaim
  <2>9. MutualExclusion'
    <3>1. In({"exclusive"})' \subseteq Claimed' BY DEF In, Claimed
    <3>2. In({"exclusive", "shared"})' \subseteq Counted' \cup Claimed' BY DEF In, Counted, Claimed
    <3>3. t \in In({"exclusive", "shared"})' BY <2>1, <1>t DEF In, Go, TypeOK
    <3>4. In({"exclusive", "shared"})' = {t} BY <3>2, <3>3, <2>3, <2>4, <2>5
    <3> QED BY <3>1, <3>4, <2>3, <2>5 DEF MutualExclusion
  <2> QED BY <2>6, <2>7, <2>8, <2>9 DEF SpinInv
<1>5. CASE unlock(t)
  <2>1. /\ Go(t, "exclusive", "out")
        /\ state' = IF hasWriteBit(state) THEN state - kWriteBit ELSE state
    BY <1>5 DEF unlock
  <2>2. /\ Counted' = Counted \ {t} /\ t \notin Counted
        /\ Claimed' = Claimed \ {t} /\ t \in Claimed
    BY <1>t, <2>1, Moves DEF Counted, Claimed
  <2>3. Counted' = Counted /\ Claimed' = {} BY <2>2 DEF SpinInv, OneClaim
  <2>4. state' = Cardinality(Counted) BY <2>1, <2>2, <1>b
  <2>5. TypeOK' BY <2>1, <2>4, <1>b, <1>t DEF TypeOK, Go, Places
  <2>6. StateExact' BY <2>3, <2>4, <2>5, <1>b, ExactAfter
  <2>7. OneClaim' BY <2>3 DEF OneClaim
  <2>8. In({"exclusive"})' \subseteq Claimed' BY DEF In, Claimed
  <2>9. MutualExclusion' BY <2>3, <2>8 DEF MutualExclusion
  <2> QED BY <2>5, <2>6, <2>7, <2>9 DEF SpinInv
<1> QED BY <1>1, <1>3, <1>4, <1>5

\* A reader counts itself, backs off or leaves.
LEMMA ReaderStep ==
    ASSUME SpinInv, NEW t \in Threads, count(t) \/ backOff(t) \/ unlockShared(t)
    PROVE  SpinInv'
<1>t. TypeOK BY DEF SpinInv
<1>b. /\ Counted \in SUBSET Threads /\ Claimed \in SUBSET Threads
      /\ state = Cardinality(Counted) + (IF Claimed = {} THEN 0 ELSE kWriteBit)
      /\ Cardinality(Counted) \in Nat /\ Cardinality(Counted) < kWriteBit
      /\ Cardinality(Counted) = 0 <=> Counted = {}
      /\ hasWriteBit(state) <=> Claimed # {}
      /\ kWriteBit \in Nat /\ kWriteBit > 0
  BY BitSeen
<1>1. ASSUME NEW to \in {"shared", "backOff"}, Go(t, "count", to), fetch_add(1),
             to = "shared" => ~hasWriteBit(state)
      PROVE  SpinInv'
  <2>1. /\ Counted' = Counted \cup {t} /\ t \notin Counted
        /\ Claimed' = Claimed \ {t} /\ t \notin Claimed
    BY <1>t, <1>1, Moves DEF Counted, Claimed
  <2>2. Claimed' = Claimed BY <2>1
  <2>3. Cardinality(Counted') = Cardinality(Counted) + 1
    <3>1. IsFiniteSet(Counted) BY <1>b, Fits
    <3> QED BY <2>1, <3>1, FS_AddElement
  <2>4. Counted' \in SUBSET Threads BY <2>1, <1>b
  <2>5. Cardinality(Counted') < kWriteBit
    <3> DEFINE S == Counted \cup {t}
    <3>1. S \in SUBSET Threads /\ Counted' = S BY <2>1, <1>b
    <3> HIDE DEF S
    <3> QED BY <3>1, Fits
  <2>6. state' = state + 1
    <3>1. state \in Int /\ 0 <= state + 1 /\ state + 1 < 2 * kWriteBit BY <2>3, <2>5, <1>b
    <3> QED BY <3>1, NoWrap, <1>1 DEF fetch_add
  <2>7. TypeOK' BY <2>3, <2>5, <2>6, <1>b, <1>1, <1>t DEF TypeOK, Go, Places
  <2>8. StateExact' BY <2>2, <2>3, <2>6, <2>7, <1>b, ExactAfter
  <2>9. OneClaim' BY <2>2 DEF OneClaim, SpinInv
  <2>10. MutualExclusion'
    <3>1. /\ In({"exclusive"})' = In({"exclusive"}) \ {t} /\ t \notin In({"exclusive"})
          /\ In({"exclusive", "shared"})' =
               IF to = "shared" THEN In({"exclusive", "shared"}) \cup {t}
                                ELSE In({"exclusive", "shared"}) \ {t}
          /\ t \notin In({"exclusive", "shared"})
      BY <1>t, <1>1 DEF In, Go, TypeOK
    <3>2. CASE to = "shared"
      <4>1. Claimed = {} BY <3>2, <1>1, <1>b
      <4>2. In({"exclusive"}) \subseteq Claimed BY DEF In, Claimed
      <4> QED BY <3>1, <4>1, <4>2 DEF MutualExclusion
    <3>3. CASE to # "shared" BY <3>1, <3>3 DEF MutualExclusion, SpinInv
    <3> QED BY <3>2, <3>3
  <2> QED BY <2>7, <2>8, <2>9, <2>10 DEF SpinInv
<1>2. CASE count(t)
  <2>1. CASE hasWriteBit(state) BY <1>2, <2>1, <1>1 DEF count
  <2>2. CASE ~hasWriteBit(state) BY <1>2, <2>2, <1>1 DEF count
  <2> QED BY <2>1, <2>2
<1>3. ASSUME NEW from \in {"shared", "backOff"}, NEW to \in {"out", "spin", "count"},
             Go(t, from, to), fetch_add(-1)
      PROVE  SpinInv'
  <2>1. /\ Counted' = Counted \ {t} /\ t \in Counted
        /\ Claimed' = Claimed \ {t} /\ t \notin Claimed
    BY <1>t, <1>3, Moves DEF Counted, Claimed
  <2>2. Claimed' = Claimed BY <2>1
  <2>3. Cardinality(Counted') = Cardinality(Counted) - 1
    <3>1. IsFiniteSet(Counted) BY <1>b, Fits
    <3> QED BY <2>1, <3>1, FS_RemoveElement
  <2>4. Cardinality(Counted) > 0 BY <2>1, <1>b
  <2>5. state' = state - 1
    <3>1. state \in Int /\ 0 <= state - 1 /\ state - 1 < 2 * kWriteBit BY <2>4, <1>b
    <3>2. state' = (state - 1) % (2 * kWriteBit) BY <1>3, <3>1 DEF fetch_add
    <3> QED BY <3>1, <3>2, NoWrap
  <2>6. TypeOK' BY <2>4, <2>5, <1>b, <1>3, <1>t DEF TypeOK, Go, Places
  <2>7. StateExact' BY <2>2, <2>3, <2>5, <2>6, <1>b, ExactAfter
  <2>8. OneClaim' BY <2>2 DEF OneClaim, SpinInv
  <2>9. MutualExclusion'
    <3>1. /\ In({"exclusive"})' = In({"exclusive"}) \ {t} /\ t \notin In({"exclusive"})
          /\ In({"exclusive", "shared"})' = In({"exclusive", "shared"}) \ {t}
      BY <1>t, <1>3, Moves
    <3> QED BY <3>1 DEF MutualExclusion, SpinInv
  <2> QED BY <2>6, <2>7, <2>8, <2>9 DEF SpinInv
<1>4. CASE backOff(t)
  <2>1. CASE hasWriteBit(state) BY <1>4, <2>1, <1>3 DEF backOff
  <2>2. CASE ~hasWriteBit(state) BY <1>4, <2>2, <1>3 DEF backOff
  <2> QED BY <2>1, <2>2
<1>5. CASE unlockShared(t) BY <1>5, <1>3 DEF unlockShared
<1> QED BY <1>2, <1>4, <1>5

LEMMA SpinStep == SpinInv /\ [Next]_vars => SpinInv'
<1> SUFFICES ASSUME SpinInv, [Next]_vars PROVE SpinInv' OBVIOUS
<1>1. CASE UNCHANGED vars
  BY <1>1 DEF vars, SpinInv, TypeOK, StateExact, OneClaim, MutualExclusion, Claimed, In
<1>2. ASSUME NEW t \in Threads, lock(t) \/ lockShared(t) \/ spin(t) PROVE SpinInv'
  BY <1>2, SameSets DEF lock, lockShared, spin, Places
<1> QED BY <1>1, <1>2, WriterStep, ReaderStep DEF Next, Step

-----------------------------------------------------------------------------
\* The word stays in its range and every thread at a place of the code.
THEOREM MutexTypeCorrect == Spec => []TypeOK
<1>1. SpinInv => TypeOK BY DEF SpinInv
<1> QED BY <1>1, SpinInit, SpinStep, PTL DEF Spec

\* state_ is the number of readers, those about to back off included, plus the
\* one writer's bit, whatever the interleaving of the atomic operations.
THEOREM StateExactHolds == Spec => []StateExact
<1>1. SpinInv => StateExact BY DEF SpinInv
<1> QED BY <1>1, SpinInit, SpinStep, PTL DEF Spec

\* lock() returns only when no other thread holds the mutex in either mode.
THEOREM MutualExclusionHolds == Spec => []MutualExclusion
<1>1. SpinInv => MutualExclusion BY DEF SpinInv
<1> QED BY <1>1, SpinInit, SpinStep, PTL DEF Spec

-----------------------------------------------------------------------------
Readers == In({"shared"})
Writers == In({"exclusive"})

\* Every atomic operation is a step of the abstract lock or none.
LEMMA SpinRefines == SpinInv /\ SpinInv' /\ [Next]_vars => [Abstract!LockNext]_(Abstract!lockVars)
<1> SUFFICES ASSUME SpinInv, SpinInv', [Next]_vars
             PROVE  \/ Readers' = Readers /\ Writers' = Writers
                    \/ \E t \in Threads :
                         \/ /\ Writers = {} /\ t \notin Readers
                            /\ Readers' = Readers \cup {t} /\ Writers' = Writers
                         \/ /\ t \in Readers
                            /\ Readers' = Readers \ {t} /\ Writers' = Writers
                         \/ /\ Readers = {} /\ Writers = {}
                            /\ Writers' = {t} /\ Readers' = Readers
                         \/ /\ t \in Writers
                            /\ Writers' = Writers \ {t} /\ Readers' = Readers
  BY DEF Abstract!LockNext, Abstract!lockVars, Abstract!AcquireShared, Abstract!ReleaseShared,
         Abstract!AcquireExclusive, Abstract!ReleaseExclusive, Readers, Writers
<1>t. TypeOK BY DEF SpinInv
<1>1. CASE UNCHANGED vars BY <1>1 DEF vars, Readers, Writers, In
<1>2. ASSUME NEW t \in Threads, NEW from, NEW to, Go(t, from, to),
             from \notin {"shared", "exclusive"}, to \notin {"shared", "exclusive"}
      PROVE  Readers' = Readers /\ Writers' = Writers
  <2>1. /\ Readers' = Readers \ {t} /\ t \notin Readers
        /\ Writers' = Writers \ {t} /\ t \notin Writers
    BY <1>t, <1>2, Moves DEF Readers, Writers
  <2> QED BY <2>1
<1>3. ASSUME NEW t \in Threads, NEW from, from \notin {"shared", "exclusive"},
             Go(t, from, "exclusive")
      PROVE  Readers = {} /\ Writers = {} /\ Writers' = {t} /\ Readers' = Readers
  <2>1. /\ Readers' = Readers \ {t} /\ t \notin Readers
        /\ Writers' = Writers \cup {t} /\ t \notin Writers
    BY <1>t, <1>3, Moves DEF Readers, Writers
  <2>2. In({"exclusive", "shared"})' = {t} BY <2>1 DEF SpinInv, MutualExclusion, Writers
  <2>3. Readers' \cup Writers' \subseteq {t} BY <2>2 DEF Readers, Writers, In
  <2> QED BY <2>1, <2>3
<1>4. ASSUME NEW t \in Threads, Go(t, "count", "shared"), ~hasWriteBit(state)
      PROVE  /\ Writers = {} /\ t \notin Readers
             /\ Readers' = Readers \cup {t} /\ Writers' = Writers
  <2>1. /\ Readers' = Readers \cup {t} /\ t \notin Readers
        /\ Writers' = Writers \ {t} /\ t \notin Writers
    BY <1>t, <1>4, Moves DEF Readers, Writers
  <2>2. Claimed = {} BY <1>4, BitSeen
  <2>3. Writers \subseteq Claimed BY DEF Writers, Claimed, In
  <2> QED BY <2>1, <2>2, <2>3
<1>5. ASSUME NEW t \in Threads, Go(t, "shared", "out")
      PROVE  t \in Readers /\ Readers' = Readers \ {t} /\ Writers' = Writers
  <2>1. /\ Readers' = Readers \ {t} /\ t \in Readers
        /\ Writers' = Writers \ {t} /\ t \notin Writers
    BY <1>t, <1>5, Moves DEF Readers, Writers
  <2> QED BY <2>1
<1>6. ASSUME NEW t \in Threads, Go(t, "exclusive", "out")
      PROVE  t \in Writers /\ Writers' = Writers \ {t} /\ Readers' = Readers
  <2>1. /\ Readers' = Readers \ {t} /\ t \notin Readers
        /\ Writers' = Writers \ {t} /\ t \in Writers
    BY <1>t, <1>6, Moves DEF Readers, Writers
  <2> QED BY <2>1
<1>7. ASSUME NEW t \in Threads, lock(t) \/ lockShared(t) \/ backOff(t) \/ spin(t)
      PROVE  Readers' = Readers /\ Writers' = Writers
  <2>1. CASE lock(t) BY <2>1, <1>2 DEF lock
  <2>2. CASE lockShared(t) BY <2>2, <1>2 DEF lockShared
  <2>3. CASE spin(t) BY <2>3, <1>2 DEF spin
  <2>4. CASE backOff(t)
    <3>1. CASE hasWriteBit(state) BY <2>4, <3>1, <1>2 DEF backOff
    <3>2. CASE ~hasWriteBit(state) BY <2>4, <3>2, <1>2 DEF backOff
    <3> QED BY <3>1, <3>2
  <2> QED BY <1>7, <2>1, <2>2, <2>3, <2>4
<1>8. ASSUME NEW t \in Threads, setBit(t)
      PROVE  \/ Readers' = Readers /\ Writers' = Writers
             \/ Readers = {} /\ Writers = {} /\ Writers' = {t} /\ Readers' = Readers
  <2>1. CASE hasWriteBit(state) BY <1>8, <2>1 DEF setBit, vars, Readers, Writers, In
  <2>2. CASE ~hasWriteBit(state) /\ state = 0 BY <1>8, <2>2, <1>3 DEF setBit
  <2>3. CASE ~hasWriteBit(state) /\ state # 0 BY <1>8, <2>3, <1>2 DEF setBit
  <2> QED BY <2>1, <2>2, <2>3
<1>9. ASSUME NEW t \in Threads, count(t)
      PROVE  \/ Readers' = Readers /\ Writers' = Writers
             \/ /\ Writers = {} /\ t \notin Readers
                /\ Readers' = Readers \cup {t} /\ Writers' = Writers
  <2>1. CASE hasWriteBit(state) BY <1>9, <2>1, <1>2 DEF count
  <2>2. CASE ~hasWriteBit(state) BY <1>9, <2>2, <1>4 DEF count
  <2> QED BY <2>1, <2>2
<1>10. ASSUME NEW t \in Threads, drain(t)
       PROVE  Readers = {} /\ Writers = {} /\ Writers' = {t} /\ Readers' = Readers
  BY <1>10, <1>3 DEF drain
<1>11. ASSUME NEW t \in Threads, unlock(t)
       PROVE  t \in Writers /\ Writers' = Writers \ {t} /\ Readers' = Readers
  BY <1>11, <1>6 DEF unlock
<1>12. ASSUME NEW t \in Threads, unlockShared(t)
       PROVE  t \in Readers /\ Readers' = Readers \ {t} /\ Writers' = Writers
  BY <1>12, <1>5 DEF unlockShared
<1>13. CASE Next
  <2>1. PICK t \in Threads : lock(t) \/ lockShared(t) \/ Step(t) BY <1>13 DEF Next
  <2> QED BY <2>1, <1>7, <1>8, <1>9, <1>10, <1>11, <1>12 DEF Step
<1> QED BY <1>1, <1>13

\* The mutex implements the abstract shared lock: a thread enters in shared mode
\* only while there is no writer and in exclusive mode only while there is
\* nobody, and leaves only by unlocking.
THEOREM MutexImplements == Spec => Implements
<1>1. Init => Abstract!LockInit BY DEF Init, Abstract!LockInit, In
<1> QED BY <1>1, SpinInit, SpinStep, SpinRefines, PTL DEF Spec, Implements, Abstract!LockSpec

-----------------------------------------------------------------------------
(* SharedMutex *)

BlockShared   == Blocking!In({"shared"})
BlockHolding  == Blocking!In({"exclusive"})
BlockDraining == Blocking!In({"awaitReaders"})
BlockClaimed  == Blocking!In({"drain", "awaitReaders", "exclusive"})
BlockWaiting  == Blocking!In({"awaitUnlock", "awaitWriter"})

\* The word, the one writer's bit, who may be blocked; and that the writer that
\* holds the mutex is alone, without which unlock() could not clear the word.
BlockInv ==
    /\ place \in [Threads -> Blocking!Places]
    /\ word = Cardinality(BlockShared) + (IF BlockClaimed = {} THEN 0 ELSE kWriteBit)
    /\ \A t, u \in BlockClaimed : t = u
    /\ BlockClaimed = {} => BlockWaiting = {}
    /\ BlockShared = {} => BlockDraining = {}
    /\ BlockHolding # {} => BlockShared = {}

\* The count is what is left of the word without the bit.
LEMMA Remainder ==
    ASSUME NEW k \in Nat, k > 0, NEW c \in Nat, c < k
    PROVE  c % k = c /\ (c + k) % k = c
<1>1. c % k = c OBVIOUS
<1>2. (c + k) % k = c
  <2> DEFINE q == (c + k) \div k
             r == (c + k) % k
  <2>1. q \in Int /\ r \in Int /\ 0 <= r /\ r < k /\ c + k = k * q + r OBVIOUS
  <2> HIDE DEF q, r
  <2>2. q >= 1
    <3>1. CASE q < 1
      <4>1. k * q <= 0 BY <3>1, <2>1
      <4> QED BY <4>1, <2>1
    <3> QED BY <3>1, <2>1
  <2>3. q <= 1
    <3>1. CASE q > 1
      <4>1. k * q >= k * 2 BY <3>1, <2>1
      <4> QED BY <4>1, <2>1
    <3> QED BY <3>1, <2>1
  <2>4. q = 1 BY <2>1, <2>2, <2>3
  <2> QED BY <2>1, <2>4 DEF r
<1> QED BY <1>1, <1>2

\* What a thread reads in the word.
LEMMA BlockSeen ==
    ASSUME BlockInv
    PROVE  /\ BlockShared \in SUBSET Threads /\ BlockClaimed \in SUBSET Threads
           /\ IsFiniteSet(BlockShared)
           /\ Cardinality(BlockShared) \in Nat /\ Cardinality(BlockShared) < kWriteBit
           /\ Cardinality(BlockShared) = 0 <=> BlockShared = {}
           /\ Blocking!hasWriteBit <=> BlockClaimed # {}
           /\ Blocking!readers = Cardinality(BlockShared)
           /\ kWriteBit \in Nat /\ kWriteBit > 0
<1>1. BlockShared \in SUBSET Threads /\ BlockClaimed \in SUBSET Threads
  BY DEF BlockShared, BlockClaimed, Blocking!In
<1>2. /\ IsFiniteSet(BlockShared)
      /\ Cardinality(BlockShared) \in Nat /\ Cardinality(BlockShared) < kWriteBit
      /\ Cardinality(BlockShared) = 0 <=> BlockShared = {}
  BY <1>1, Fits
<1>3. kWriteBit \in Nat /\ kWriteBit > 0 BY <1>2, ThreadsAssumption
<1> DEFINE c == Cardinality(BlockShared)
<1> HIDE DEF c
<1>4. c \in Nat /\ c < kWriteBit BY <1>2 DEF c
<1>5. word = IF BlockClaimed = {} THEN c ELSE c + kWriteBit BY <1>3, <1>4 DEF BlockInv, c
<1>6. Blocking!hasWriteBit <=> BlockClaimed # {} BY <1>3, <1>4, <1>5 DEF Blocking!hasWriteBit
<1>7. Blocking!readers = c BY <1>3, <1>4, <1>5, Remainder DEF Blocking!readers
<1> QED BY <1>1, <1>2, <1>3, <1>6, <1>7 DEF c

LEMMA BlockMoves ==
    ASSUME BlockInv, NEW t \in Threads, NEW from, NEW to, Blocking!Go(t, from, to), NEW P
    PROVE  /\ Blocking!In(P)' = IF to \in P THEN Blocking!In(P) \cup {t} ELSE Blocking!In(P) \ {t}
           /\ t \in Blocking!In(P) <=> from \in P
BY DEF BlockInv, Blocking!Go, Blocking!In

\* A step that keeps the word, its readers and its writer, and blocks nobody
\* that was not.
LEMMA BlockQuiet ==
    ASSUME BlockInv, place' \in [Threads -> Blocking!Places], word' = word,
           BlockShared' = BlockShared, BlockClaimed' = BlockClaimed, BlockHolding' = BlockHolding,
           BlockWaiting' \subseteq BlockWaiting, BlockDraining' \subseteq BlockDraining
    PROVE  BlockInv'
BY DEF BlockInv

LEMMA BlockInit == Blocking!Init => BlockInv
<1> SUFFICES ASSUME Blocking!Init PROVE BlockInv OBVIOUS
<1>1. \A P : "out" \notin P => Blocking!In(P) = {} BY DEF Blocking!Init, Blocking!In
<1>2. /\ BlockShared = {} /\ BlockClaimed = {} /\ BlockWaiting = {}
      /\ BlockDraining = {} /\ BlockHolding = {}
  BY <1>1 DEF BlockShared, BlockClaimed, BlockWaiting, BlockDraining, BlockHolding
<1>3. word = Cardinality(BlockShared) BY <1>2, FS_EmptySet DEF Blocking!Init
<1>4. Cardinality(BlockShared) \in Nat BY <1>2, FS_EmptySet
<1> QED BY <1>2, <1>3, <1>4 DEF Blocking!Init, BlockInv, Blocking!Places

\* A call begins, or await() returns without a signal.
LEMMA BlockCall ==
    ASSUME BlockInv, NEW t \in Threads,
           Blocking!Call(t, "lock") \/ Blocking!Call(t, "lockShared") \/ Blocking!spurious(t)
    PROVE  BlockInv'
<1>1. ASSUME NEW from, NEW to, Blocking!Go(t, from, to), word' = word,
             \/ from = "out" /\ to = "lock"
             \/ from = "out" /\ to = "lockShared"
             \/ from = "awaitUnlock" /\ to = "lock"
             \/ from = "awaitReaders" /\ to = "drain"
             \/ from = "awaitWriter" /\ to = "lockShared"
      PROVE  BlockInv'
  <2>1. BlockShared' = BlockShared \ {t} /\ t \notin BlockShared
    BY <1>1, BlockMoves DEF BlockShared
  <2>2. BlockHolding' = BlockHolding \ {t} /\ t \notin BlockHolding
    BY <1>1, BlockMoves DEF BlockHolding
  <2>3. BlockWaiting' = BlockWaiting \ {t} BY <1>1, BlockMoves DEF BlockWaiting
  <2>4. BlockDraining' = BlockDraining \ {t} BY <1>1, BlockMoves DEF BlockDraining
  <2>5. /\ BlockClaimed' = IF to \in {"drain", "awaitReaders", "exclusive"}
                            THEN BlockClaimed \cup {t} ELSE BlockClaimed \ {t}
        /\ t \in BlockClaimed <=> from \in {"drain", "awaitReaders", "exclusive"}
    BY <1>1 DEF BlockInv, BlockClaimed, Blocking!Go, Blocking!In
  <2>6. BlockClaimed' = BlockClaimed BY <1>1, <2>5
  <2>7. place' \in [Threads -> Blocking!Places] BY <1>1 DEF BlockInv, Blocking!Go, Blocking!Places
  <2> QED BY <1>1, <2>1, <2>2, <2>3, <2>4, <2>6, <2>7, BlockQuiet
<1> QED BY <1>1 DEF Blocking!Call, Blocking!spurious

\* lock(), with its two loops.
LEMMA BlockWriter ==
    ASSUME BlockInv, NEW t \in Threads, Blocking!testWriter(t) \/ Blocking!drain(t)
    PROVE  BlockInv'
<1>1. ASSUME Blocking!hasWriteBit, Blocking!Go(t, "lock", "awaitUnlock"), word' = word
      PROVE  BlockInv'
  <2>1. BlockShared' = BlockShared \ {t} /\ t \notin BlockShared
    BY <1>1, BlockMoves DEF BlockShared
  <2>2. BlockHolding' = BlockHolding \ {t} BY <1>1, BlockMoves DEF BlockHolding
  <2>3. BlockDraining' = BlockDraining \ {t} BY <1>1, BlockMoves DEF BlockDraining
  <2>4. BlockClaimed' = BlockClaimed \ {t} /\ t \notin BlockClaimed
    BY <1>1, BlockMoves DEF BlockClaimed
  <2>5. BlockShared' = BlockShared /\ BlockClaimed' = BlockClaimed BY <2>1, <2>4
  <2>6. BlockClaimed # {} BY <1>1, BlockSeen
  <2>7. place' \in [Threads -> Blocking!Places] BY <1>1 DEF BlockInv, Blocking!Go, Blocking!Places
  <2> QED BY <1>1, <2>2, <2>3, <2>5, <2>6, <2>7 DEF BlockInv
<1>2. ASSUME NEW from \in {"lock", "drain"},
             Blocking!Go(t, from, IF Blocking!readers = 0 THEN "exclusive" ELSE "awaitReaders"),
             from = "lock" => ~Blocking!hasWriteBit /\ word' = word + kWriteBit,
             from = "drain" => word' = word
      PROVE  BlockInv'
  <2> DEFINE to == IF Blocking!readers = 0 THEN "exclusive" ELSE "awaitReaders"
  <2>a. to \in {"exclusive", "awaitReaders"} /\ Blocking!Go(t, from, to) BY <1>2
  <2>b. to = "exclusive" <=> BlockShared = {} BY BlockSeen
  <2> HIDE DEF to
  <2>1. BlockShared' = BlockShared \ {t} /\ t \notin BlockShared
    BY <2>a, BlockMoves DEF BlockShared
  <2>2. BlockShared' = BlockShared BY <2>1
  <2>3. BlockClaimed' = BlockClaimed \cup {t} /\ (t \in BlockClaimed <=> from = "drain")
    BY <2>a, BlockMoves DEF BlockClaimed
  <2>4. from = "lock" => BlockClaimed = {} BY <1>2, BlockSeen
  <2>5. BlockClaimed' = {t} BY <2>3, <2>4 DEF BlockInv
  <2>6. word' = Cardinality(BlockShared) + kWriteBit
    <3>1. CASE from = "lock" BY <3>1, <1>2, <2>4, BlockSeen DEF BlockInv
    <3>2. CASE from = "drain" BY <3>2, <1>2, <2>3, BlockSeen DEF BlockInv
    <3> QED BY <3>1, <3>2
  <2>7. BlockDraining' = IF to \in {"awaitReaders"} THEN BlockDraining \cup {t} ELSE BlockDraining \ {t}
    BY <2>a DEF BlockInv, BlockDraining, Blocking!Go, Blocking!In
  <2>8. BlockHolding' = IF to \in {"exclusive"} THEN BlockHolding \cup {t} ELSE BlockHolding \ {t}
    BY <2>a DEF BlockInv, BlockHolding, Blocking!Go, Blocking!In
  <2>9. place' \in [Threads -> Blocking!Places] BY <2>a DEF BlockInv, Blocking!Go, Blocking!Places
  <2>10. BlockShared' = {} => BlockDraining' = {} BY <2>2, <2>7, <2>a, <2>b DEF BlockInv
  <2>11. BlockHolding' # {} => BlockShared' = {} BY <2>2, <2>8, <2>a, <2>b DEF BlockInv
  <2> QED BY <2>2, <2>5, <2>6, <2>9, <2>10, <2>11 DEF BlockInv
<1> QED BY <1>1, <1>2 DEF Blocking!testWriter, Blocking!drain

\* Everybody that waits for the bit to go is woken when it goes.
LEMMA BlockUnlock ==
    ASSUME BlockInv, NEW t \in Threads, Blocking!unlock(t)
    PROVE  BlockInv'
<1>1. t \in BlockClaimed /\ t \in BlockHolding
  BY DEF Blocking!unlock, BlockClaimed, BlockHolding, Blocking!In
<1>2. BlockShared = {} /\ \A u \in BlockClaimed : u = t BY <1>1 DEF BlockInv
<1>3. place' \in [Threads -> Blocking!Places] BY DEF BlockInv, Blocking!unlock, Blocking!Places
<1>4. \A u \in Threads :
         /\ place'[u] \notin {"awaitUnlock", "awaitWriter"}
         /\ place'[u] \in {"shared", "drain", "awaitReaders", "exclusive"} =>
              u # t /\ place'[u] = place[u]
  BY DEF BlockInv, Blocking!unlock, Blocking!Places
<1>5. BlockWaiting' = {} BY <1>4 DEF BlockWaiting, Blocking!In
<1>6. BlockShared' = {} BY <1>2, <1>4 DEF BlockShared, Blocking!In
<1>7. BlockClaimed' = {} BY <1>2, <1>4 DEF BlockClaimed, Blocking!In
<1>8. BlockDraining' = {} /\ BlockHolding' = {}
  BY <1>7 DEF BlockClaimed, BlockDraining, BlockHolding, Blocking!In
<1>9. word' = Cardinality(BlockShared') + 0 BY <1>6, FS_EmptySet DEF Blocking!unlock
<1> QED BY <1>3, <1>5, <1>6, <1>7, <1>8, <1>9 DEF BlockInv

LEMMA BlockReader ==
    ASSUME BlockInv, NEW t \in Threads, Blocking!testReader(t)
    PROVE  BlockInv'
<1>1. ASSUME Blocking!hasWriteBit, Blocking!Go(t, "lockShared", "awaitWriter"), word' = word
      PROVE  BlockInv'
  <2>1. BlockShared' = BlockShared \ {t} /\ t \notin BlockShared
    BY <1>1, BlockMoves DEF BlockShared
  <2>2. BlockHolding' = BlockHolding \ {t} BY <1>1, BlockMoves DEF BlockHolding
  <2>3. BlockDraining' = BlockDraining \ {t} BY <1>1, BlockMoves DEF BlockDraining
  <2>4. BlockClaimed' = BlockClaimed \ {t} /\ t \notin BlockClaimed
    BY <1>1, BlockMoves DEF BlockClaimed
  <2>5. BlockShared' = BlockShared /\ BlockClaimed' = BlockClaimed BY <2>1, <2>4
  <2>6. BlockClaimed # {} BY <1>1, BlockSeen
  <2>7. place' \in [Threads -> Blocking!Places] BY <1>1 DEF BlockInv, Blocking!Go, Blocking!Places
  <2> QED BY <1>1, <2>2, <2>3, <2>5, <2>6, <2>7 DEF BlockInv
<1>2. ASSUME ~Blocking!hasWriteBit, Blocking!Go(t, "lockShared", "shared"), word' = word + 1
      PROVE  BlockInv'
  <2>1. BlockShared' = BlockShared \cup {t} /\ t \notin BlockShared
    BY <1>2, BlockMoves DEF BlockShared
  <2>2. BlockClaimed' = BlockClaimed \ {t} BY <1>2, BlockMoves DEF BlockClaimed
  <2>3. BlockClaimed = {} BY <1>2, BlockSeen
  <2>4. BlockWaiting' = BlockWaiting \ {t} BY <1>2, BlockMoves DEF BlockWaiting
  <2>5. BlockHolding' \subseteq BlockClaimed' BY DEF BlockHolding, BlockClaimed, Blocking!In
  <2>6. Cardinality(BlockShared') = Cardinality(BlockShared) + 1
    BY <2>1, BlockSeen, FS_AddElement
  <2>7. word' = Cardinality(BlockShared') + 0
    <3>1. word = Cardinality(BlockShared) + 0 BY <2>3 DEF BlockInv
    <3> QED BY <1>2, <2>6, <3>1, BlockSeen
  <2>8. place' \in [Threads -> Blocking!Places] BY <1>2 DEF BlockInv, Blocking!Go, Blocking!Places
  <2>9. BlockClaimed' = {} /\ BlockWaiting' = {} /\ BlockHolding' = {} /\ BlockShared' # {}
    BY <2>1, <2>2, <2>3, <2>4, <2>5 DEF BlockInv
  <2> QED BY <2>7, <2>8, <2>9 DEF BlockInv
<1> QED BY <1>1, <1>2 DEF Blocking!testReader

\* A reader leaves, and may wake a writer that waits for it.
LEMMA BlockLeaves ==
    ASSUME BlockInv, NEW t \in Threads, Blocking!unlockShared(t)
    PROVE  /\ place' \in [Threads -> Blocking!Places]
           /\ BlockShared' = BlockShared \ {t}
           /\ BlockClaimed' = BlockClaimed
           /\ BlockHolding' = BlockHolding
           /\ BlockWaiting' = BlockWaiting
           /\ BlockDraining' \subseteq BlockDraining
<1>0. /\ place[t] = "shared" /\ word' = word - 1
      /\ \/ \E u \in Threads : /\ place[u] = "awaitReaders"
                               /\ place' = [place EXCEPT ![t] = "out", ![u] = "drain"]
         \/ place' = [place EXCEPT ![t] = "out"]
  BY DEF Blocking!unlockShared
<1>1. ASSUME NEW u \in Threads, place[u] = "awaitReaders",
             place' = [place EXCEPT ![t] = "out", ![u] = "drain"]
      PROVE  /\ place' \in [Threads -> Blocking!Places]
             /\ BlockShared' = BlockShared \ {t}
             /\ BlockClaimed' = BlockClaimed
             /\ BlockHolding' = BlockHolding
             /\ BlockWaiting' = BlockWaiting
             /\ BlockDraining' \subseteq BlockDraining
  BY <1>1, <1>0 DEF BlockInv, BlockShared, BlockClaimed, BlockHolding, BlockWaiting, BlockDraining,
                    Blocking!In, Blocking!Places
<1>2. CASE place' = [place EXCEPT ![t] = "out"]
  BY <1>2, <1>0 DEF BlockInv, BlockShared, BlockClaimed, BlockHolding, BlockWaiting, BlockDraining,
                    Blocking!In, Blocking!Places
<1> QED BY <1>0, <1>1, <1>2

\* The last reader wakes the writer, of which there is only one.
LEMMA BlockLeave ==
    ASSUME BlockInv, NEW t \in Threads, Blocking!unlockShared(t)
    PROVE  BlockInv'
<1>1. /\ place[t] = "shared" /\ word' = word - 1
      /\ \/ /\ word - 1 = kWriteBit
            /\ \E u \in Threads : /\ place[u] = "awaitReaders"
                                  /\ place' = [place EXCEPT ![t] = "out", ![u] = "drain"]
         \/ /\ word - 1 = kWriteBit => BlockDraining = {}
            /\ place' = [place EXCEPT ![t] = "out"]
  BY DEF Blocking!unlockShared, BlockDraining, Blocking!In
<1>2. t \in BlockShared BY <1>1 DEF BlockShared, Blocking!In
<1>3. BlockHolding = {} BY <1>2 DEF BlockInv
<1>4. /\ place' \in [Threads -> Blocking!Places]
      /\ BlockShared' = BlockShared \ {t}
      /\ BlockClaimed' = BlockClaimed
      /\ BlockHolding' = BlockHolding
      /\ BlockWaiting' = BlockWaiting
      /\ BlockDraining' \subseteq BlockDraining
  BY BlockLeaves
<1>5. Cardinality(BlockShared') = Cardinality(BlockShared) - 1
  BY <1>2, <1>4, BlockSeen, FS_RemoveElement
<1>6. word' = Cardinality(BlockShared') + (IF BlockClaimed' = {} THEN 0 ELSE kWriteBit)
  <2>1. CASE BlockClaimed = {}
    <3>1. word = Cardinality(BlockShared) + 0 BY <2>1 DEF BlockInv
    <3> QED BY <1>1, <1>4, <1>5, <2>1, <3>1, BlockSeen
  <2>2. CASE BlockClaimed # {}
    <3>1. word = Cardinality(BlockShared) + kWriteBit BY <2>2 DEF BlockInv
    <3> QED BY <1>1, <1>4, <1>5, <2>2, <3>1, BlockSeen
  <2> QED BY <2>1, <2>2
<1>7. BlockShared' = {} => BlockDraining' = {}
  <2> SUFFICES ASSUME BlockShared' = {}, NEW v \in BlockDraining' PROVE FALSE OBVIOUS
  <2>1. v \in BlockDraining /\ v \in BlockClaimed
    BY <1>4 DEF BlockDraining, BlockClaimed, Blocking!In
  <2>2. Cardinality(BlockShared') = 0 BY FS_EmptySet
  <2>3. word - 1 = kWriteBit
    <3>1. word' = 0 + kWriteBit BY <1>4, <1>6, <2>1, <2>2
    <3> QED BY <3>1, <1>1, BlockSeen
  <2>4. PICK u \in Threads : /\ place[u] = "awaitReaders"
                             /\ place' = [place EXCEPT ![t] = "out", ![u] = "drain"]
    BY <1>1, <2>1, <2>3
  <2>5. u \in BlockClaimed BY <2>4 DEF BlockClaimed, Blocking!In
  <2>6. u = v BY <2>1, <2>5 DEF BlockInv
  <2>7. place'[v] = "awaitReaders" BY DEF BlockDraining, Blocking!In
  <2>8. place'[u] = "drain" BY <2>4 DEF BlockInv
  <2> QED BY <2>6, <2>7, <2>8
<1> QED BY <1>3, <1>4, <1>6, <1>7 DEF BlockInv

LEMMA BlockStep == BlockInv /\ [Blocking!Next]_(Blocking!vars) => BlockInv'
<1> SUFFICES ASSUME BlockInv, [Blocking!Next]_(Blocking!vars) PROVE BlockInv' OBVIOUS
<1>1. CASE UNCHANGED Blocking!vars
  BY <1>1 DEF Blocking!vars, BlockInv, BlockShared, BlockClaimed, BlockHolding, BlockWaiting,
              BlockDraining, Blocking!In
<1> QED BY <1>1, BlockCall, BlockWriter, BlockUnlock, BlockReader, BlockLeave
        DEF Blocking!Next, Blocking!Step

\* What the run checks of it.
LEMMA BlockExact == BlockInv => Blocking!TypeOK /\ Blocking!WordExact /\ Blocking!NobodyForgotten
<1> SUFFICES ASSUME BlockInv
             PROVE  Blocking!TypeOK /\ Blocking!WordExact /\ Blocking!NobodyForgotten
  OBVIOUS
<1>2. Blocking!TypeOK
  <2>1. word \in 0 .. 2 * kWriteBit - 1
    <3> DEFINE c == Cardinality(BlockShared)
    <3>1. c \in Nat /\ c < kWriteBit /\ kWriteBit \in Nat BY BlockSeen
    <3>2. word = c + 0 \/ word = c + kWriteBit BY DEF BlockInv
    <3> HIDE DEF c
    <3> QED BY <3>1, <3>2
  <2> QED BY <2>1 DEF BlockInv, Blocking!TypeOK
<1>3. Cardinality(BlockClaimed) <= 1
  <2>1. CASE BlockClaimed = {} BY <2>1, FS_EmptySet
  <2>2. ASSUME NEW t \in BlockClaimed PROVE Cardinality(BlockClaimed) <= 1
    <3>1. BlockClaimed = {t} BY <2>2 DEF BlockInv
    <3>2. Cardinality({t}) = 1 BY FS_Singleton
    <3> QED BY <3>1, <3>2
  <2> QED BY <2>1, <2>2
<1>4. Blocking!WordExact
  BY <1>3, SameOperators DEF BlockInv, Blocking!WordExact, BlockShared, BlockClaimed
<1>5. Blocking!NobodyForgotten
  BY BlockSeen DEF BlockInv, Blocking!NobodyForgotten, BlockWaiting, BlockDraining
<1> QED BY <1>2, <1>4, <1>5

\* Every step is one of the abstract lock or leaves it alone.
LEMMA BlockRefines ==
    BlockInv /\ [Blocking!Next]_(Blocking!vars)
        => [Blocking!Abstract!LockNext]_(Blocking!Abstract!lockVars)
<1> SUFFICES ASSUME BlockInv, [Blocking!Next]_(Blocking!vars)
             PROVE  \/ BlockShared' = BlockShared /\ BlockHolding' = BlockHolding
                    \/ \E t \in Threads :
                         \/ /\ BlockHolding = {} /\ t \notin BlockShared
                            /\ BlockShared' = BlockShared \cup {t} /\ BlockHolding' = BlockHolding
                         \/ /\ t \in BlockShared
                            /\ BlockShared' = BlockShared \ {t} /\ BlockHolding' = BlockHolding
                         \/ /\ BlockShared = {} /\ BlockHolding = {}
                            /\ BlockHolding' = {t} /\ BlockShared' = BlockShared
                         \/ /\ t \in BlockHolding
                            /\ BlockHolding' = BlockHolding \ {t} /\ BlockShared' = BlockShared
  BY DEF Blocking!Abstract!LockNext, Blocking!Abstract!lockVars, Blocking!Abstract!AcquireShared,
         Blocking!Abstract!ReleaseShared, Blocking!Abstract!AcquireExclusive,
         Blocking!Abstract!ReleaseExclusive, BlockShared, BlockHolding
<1>1. BlockHolding \subseteq BlockClaimed BY DEF BlockHolding, BlockClaimed, Blocking!In
<1>2. CASE UNCHANGED Blocking!vars
  BY <1>2 DEF Blocking!vars, BlockShared, BlockHolding, Blocking!In
<1>3. ASSUME NEW t \in Threads, NEW from, NEW to, Blocking!Go(t, from, to),
             from \notin {"shared", "exclusive"}, to \notin {"shared", "exclusive"}
      PROVE  BlockShared' = BlockShared /\ BlockHolding' = BlockHolding
  <2>1. BlockShared' = BlockShared \ {t} /\ t \notin BlockShared
    BY <1>3, BlockMoves DEF BlockShared
  <2>2. BlockHolding' = BlockHolding \ {t} /\ t \notin BlockHolding
    BY <1>3, BlockMoves DEF BlockHolding
  <2> QED BY <2>1, <2>2
<1>4. ASSUME NEW t \in Threads, NEW from \in {"lock", "drain"}, Blocking!Go(t, from, "exclusive"),
             Blocking!readers = 0, from = "lock" => ~Blocking!hasWriteBit
      PROVE  /\ BlockShared = {} /\ BlockHolding = {}
             /\ BlockHolding' = {t} /\ BlockShared' = BlockShared
  <2>1. BlockShared = {} BY <1>4, BlockSeen
  <2>2. BlockShared' = BlockShared \ {t} BY <1>4, BlockMoves DEF BlockShared
  <2>3. BlockHolding' = BlockHolding \cup {t} /\ t \notin BlockHolding
    BY <1>4, BlockMoves DEF BlockHolding
  <2>4. t \in BlockClaimed <=> from = "drain" BY <1>4 DEF Blocking!Go, BlockClaimed, Blocking!In
  <2>5. from = "lock" => BlockClaimed = {} BY <1>4, BlockSeen
  <2>6. BlockHolding = {} BY <1>1, <2>3, <2>4, <2>5 DEF BlockInv
  <2> QED BY <2>1, <2>2, <2>3, <2>6
<1>5. ASSUME NEW t \in Threads, Blocking!testReader(t), ~Blocking!hasWriteBit
      PROVE  /\ BlockHolding = {} /\ t \notin BlockShared
             /\ BlockShared' = BlockShared \cup {t} /\ BlockHolding' = BlockHolding
  <2>1. Blocking!Go(t, "lockShared", "shared") BY <1>5 DEF Blocking!testReader
  <2>2. BlockShared' = BlockShared \cup {t} /\ t \notin BlockShared
    BY <2>1, BlockMoves DEF BlockShared
  <2>3. BlockHolding' = BlockHolding \ {t} BY <2>1, BlockMoves DEF BlockHolding
  <2>4. BlockHolding = {} BY <1>1, <1>5, BlockSeen
  <2> QED BY <2>2, <2>3, <2>4
<1>6. ASSUME NEW t \in Threads, Blocking!unlockShared(t)
      PROVE  t \in BlockShared /\ BlockShared' = BlockShared \ {t} /\ BlockHolding' = BlockHolding
  <2>1. t \in BlockShared BY <1>6 DEF Blocking!unlockShared, BlockShared, Blocking!In
  <2> QED BY <1>6, <2>1, BlockLeaves
<1>7. ASSUME NEW t \in Threads, Blocking!unlock(t)
      PROVE  t \in BlockHolding /\ BlockHolding' = BlockHolding \ {t} /\ BlockShared' = BlockShared
  <2>1. \A u \in Threads : /\ place'[u] = "shared" <=> place[u] = "shared"
                           /\ place'[u] = "exclusive" <=> (place[u] = "exclusive" /\ u # t)
    BY <1>7 DEF BlockInv, Blocking!unlock, Blocking!Places
  <2>2. t \in BlockHolding BY <1>7 DEF Blocking!unlock, BlockHolding, Blocking!In
  <2>3. BlockShared' = BlockShared BY <2>1 DEF BlockShared, Blocking!In
  <2>4. BlockHolding' = BlockHolding \ {t} BY <2>1 DEF BlockHolding, Blocking!In
  <2> QED BY <2>2, <2>3, <2>4
<1>8. ASSUME NEW t \in Threads, Blocking!testWriter(t) \/ Blocking!drain(t)
      PROVE  \/ BlockShared' = BlockShared /\ BlockHolding' = BlockHolding
             \/ /\ BlockShared = {} /\ BlockHolding = {}
                /\ BlockHolding' = {t} /\ BlockShared' = BlockShared
  <2>1. CASE Blocking!readers = 0
    BY <1>3, <1>4, <1>8, <2>1 DEF Blocking!testWriter, Blocking!drain
  <2>2. CASE Blocking!readers # 0
    BY <1>3, <1>8, <2>2 DEF Blocking!testWriter, Blocking!drain
  <2> QED BY <2>1, <2>2
<1>9. ASSUME NEW t \in Threads,
             \/ Blocking!Call(t, "lock") \/ Blocking!Call(t, "lockShared") \/ Blocking!spurious(t)
             \/ Blocking!testReader(t) /\ Blocking!hasWriteBit
      PROVE  BlockShared' = BlockShared /\ BlockHolding' = BlockHolding
  BY <1>3, <1>9 DEF Blocking!Call, Blocking!spurious, Blocking!testReader
<1>10. CASE Blocking!Next
  <2>1. PICK t \in Threads : \/ Blocking!Call(t, "lock") \/ Blocking!Call(t, "lockShared")
                             \/ Blocking!spurious(t) \/ Blocking!Step(t)
    BY <1>10 DEF Blocking!Next
  <2> QED BY <2>1, <1>5, <1>6, <1>7, <1>8, <1>9 DEF Blocking!Step
<1> QED BY <1>2, <1>10

-----------------------------------------------------------------------------
(* ThreadSafeQueue *)

\* What a thread is about to push is one of the batches.
BatchReady == \A t \in QueueThreads : at[t] \in {"push", "pushing"} => batch[t] \in Batches

QueueInv == Queue!TypeOK /\ BatchReady /\ Queue!FifoExact /\ Queue!HolderAlone
            /\ Queue!NoLostWakeup /\ Queue!WaitersExact

-----------------------------------------------------------------------------
\* Facts on sequences that the steps rest on.
LEMMA ConcatType ==
    ASSUME NEW s \in Seq(Elements), NEW u \in Seq(Elements)
    PROVE  s \o u \in Seq(Elements)
BY ConcatProperties

LEMMA ConcatAssoc ==
    ASSUME NEW s \in Seq(Elements), NEW u \in Seq(Elements), NEW v \in Seq(Elements)
    PROVE  (s \o u) \o v = s \o (u \o v)
BY ConcatAssociative

\* The front of the queue moves to the end of what came out.
LEMMA MoveFront ==
    ASSUME NEW s \in Seq(Elements), NEW q \in Seq(Elements), q # <<>>
    PROVE  /\ Append(s, Head(q)) \in Seq(Elements) /\ Tail(q) \in Seq(Elements)
           /\ Append(s, Head(q)) \o Tail(q) = s \o q
<1>1. /\ Head(q) \in Elements /\ Tail(q) \in Seq(Elements)
      /\ Len(q) \in Nat /\ Len(q) > 0 /\ Len(Tail(q)) = Len(q) - 1
      /\ \A i \in 1 .. Len(Tail(q)) : Tail(q)[i] = q[i + 1]
      /\ Head(q) = q[1]
  BY HeadTailProperties, EmptySeq
<1>2. /\ Append(s, Head(q)) \in Seq(Elements) /\ Len(Append(s, Head(q))) = Len(s) + 1
      /\ \A i \in 1 .. Len(s) : Append(s, Head(q))[i] = s[i]
      /\ Append(s, Head(q))[Len(s) + 1] = Head(q)
  BY <1>1, AppendProperties
<1> DEFINE a == Append(s, Head(q))
           r == Tail(q)
<1>3. a \in Seq(Elements) /\ r \in Seq(Elements) BY <1>1, <1>2
<1>4. /\ a \o r \in Seq(Elements) /\ Len(a \o r) = Len(a) + Len(r)
      /\ \A i \in 1 .. Len(a) + Len(r) :
            (a \o r)[i] = IF i <= Len(a) THEN a[i] ELSE r[i - Len(a)]
  BY <1>3, ConcatProperties
<1>5. /\ s \o q \in Seq(Elements) /\ Len(s \o q) = Len(s) + Len(q)
      /\ \A i \in 1 .. Len(s) + Len(q) :
            (s \o q)[i] = IF i <= Len(s) THEN s[i] ELSE q[i - Len(s)]
  BY ConcatProperties
<1>6. Len(s) \in Nat OBVIOUS
<1>7. Len(a \o r) = Len(s \o q) BY <1>1, <1>2, <1>4, <1>5, <1>6
<1>8. ASSUME NEW i \in 1 .. Len(a \o r) PROVE (a \o r)[i] = (s \o q)[i]
  <2>1. CASE i <= Len(s)
    BY <2>1, <1>1, <1>2, <1>4, <1>5, <1>6, <1>7, <1>8
  <2>2. CASE i = Len(s) + 1
    BY <2>2, <1>1, <1>2, <1>4, <1>5, <1>6, <1>7, <1>8
  <2>3. CASE i > Len(s) + 1
    <3>1. (a \o r)[i] = r[i - Len(a)] BY <2>3, <1>2, <1>4, <1>6, <1>8
    <3>2. i - Len(a) \in 1 .. Len(r) BY <2>3, <1>1, <1>2, <1>4, <1>6, <1>8
    <3>3. r[i - Len(a)] = q[i - Len(a) + 1] BY <3>2, <1>1
    <3>4. (s \o q)[i] = q[i - Len(s)] BY <2>3, <1>5, <1>6, <1>7, <1>8
    <3>5. i - Len(a) + 1 = i - Len(s) BY <1>2, <1>6, <1>8
    <3> QED BY <3>1, <3>3, <3>4, <3>5
  <2> QED BY <2>1, <2>2, <2>3, <1>6, <1>8
<1>9. a \o r = s \o q BY <1>4, <1>5, <1>7, <1>8, SeqEqual
<1> QED BY <1>2, <1>1, <1>9

-----------------------------------------------------------------------------
InWait == {"await", "signalled", "testing"}

\* What a step of one thread does to the set of waiters.
LEMMA WaitingMoves ==
    ASSUME Queue!TypeOK, NEW t \in QueueThreads, NEW to, at' = [at EXCEPT ![t] = to]
    PROVE  Queue!Waiting' = IF to \in InWait THEN Queue!Waiting \cup {t} ELSE Queue!Waiting \ {t}
BY DEF Queue!TypeOK, Queue!Waiting, InWait

LEMMA WaitingFinite ==
    ASSUME Queue!Assumptions
    PROVE  /\ IsFiniteSet(Queue!Waiting) /\ Cardinality(Queue!Waiting) \in Nat
           /\ Cardinality(Queue!Waiting) = 0 <=> Queue!Waiting = {}
<1>1. Queue!Waiting \subseteq QueueThreads BY DEF Queue!Waiting
<1>2. IsFiniteSet(Queue!Waiting) BY <1>1, FS_Subset, SameOperators DEF Queue!Assumptions
<1> QED BY <1>2, FS_CardinalityType, FS_EmptySet

\* Taking the front keeps order and number; the queue was not empty, so that
\* nobody was in await().
LEMMA FrontTaken ==
    ASSUME Queue!Assumptions, QueueInv, NEW t \in QueueThreads, Queue!TakeFront(t), UNCHANGED pushed
    PROVE  /\ internal_queue' \in Seq(Elements) /\ popped' \in Seq(Elements)
           /\ Queue!FifoExact'
           /\ Queue!NoLostWakeup'
<1>1. /\ internal_queue' \in Seq(Elements) /\ popped' \in Seq(Elements)
      /\ popped' \o internal_queue' = popped \o internal_queue
  BY MoveFront DEF QueueInv, Queue!TypeOK, Queue!TakeFront
<1>2. Queue!FifoExact' BY <1>1 DEF QueueInv, Queue!FifoExact
<1>3. \A u \in QueueThreads : at'[u] # "await"
  BY DEF QueueInv, Queue!NoLostWakeup, Queue!TakeFront, Queue!TypeOK
<1> QED BY <1>1, <1>2, <1>3 DEF Queue!NoLostWakeup

\* The holder leaves: nobody is inside then.
LEMMA Leaves ==
    ASSUME Queue!Assumptions, Queue!HolderAlone, Queue!TypeOK, NEW t \in QueueThreads,
           NEW to \in Queue!Places \ Queue!Inside,
           at[t] \in Queue!Inside, mutex' = Queue!None, at' = [at EXCEPT ![t] = to]
    PROVE  Queue!HolderAlone'
<1>1. mutex = t BY DEF Queue!HolderAlone
<1>2. \A u \in QueueThreads : u # t => at[u] \notin Queue!Inside BY <1>1 DEF Queue!HolderAlone
<1>3. \A u \in QueueThreads : at'[u] \notin Queue!Inside BY <1>2 DEF Queue!TypeOK
<1> QED BY <1>3 DEF Queue!Assumptions, Queue!HolderAlone

-----------------------------------------------------------------------------
LEMMA QueueInit == Queue!Assumptions /\ Queue!Init => QueueInv
<1> SUFFICES ASSUME Queue!Assumptions, Queue!Init PROVE QueueInv OBVIOUS
<1>1. Queue!TypeOK BY EmptySeq DEF Queue!Init, Queue!TypeOK, Queue!Places
<1>2. BatchReady BY DEF Queue!Init, BatchReady
<1>3. Queue!FifoExact
  <2>1. <<>> \in Seq(Elements) BY EmptySeq
  <2>2. <<>> \o <<>> = <<>> BY <2>1, ConcatEmptySeq
  <2> QED BY <2>2 DEF Queue!Init, Queue!FifoExact
<1>4. Queue!HolderAlone BY DEF Queue!Assumptions, Queue!Init, Queue!HolderAlone, Queue!Inside
<1>5. Queue!NoLostWakeup BY DEF Queue!Init, Queue!NoLostWakeup
<1>6. Queue!Waiting = {} BY DEF Queue!Init, Queue!Waiting
<1>7. Queue!WaitersExact BY <1>6, FS_EmptySet, SameOperators DEF Queue!Init, Queue!WaitersExact
<1> QED BY <1>1, <1>2, <1>3, <1>4, <1>5, <1>7 DEF QueueInv

\* A call begins: the thread is at a place outside the mutex.
LEMMA CallStep ==
    ASSUME Queue!Assumptions, QueueInv, NEW t \in QueueThreads,
           Queue!CallPush(t) \/ Queue!Call(t, "pop") \/ Queue!Call(t, "try")
    PROVE  QueueInv'
<1>1. PICK to \in {"push", "pop", "try"} :
         /\ at[t] = "idle" /\ at' = [at EXCEPT ![t] = to]
         /\ UNCHANGED <<internal_queue, num_waiters, mutex, pushed, popped>>
         /\ batch' \in [QueueThreads -> Seq(Elements)]
         /\ \A u \in QueueThreads : u # t => batch'[u] = batch[u]
         /\ to = "push" => batch'[t] \in Batches
  BY DEF Queue!Assumptions, Queue!CallPush, Queue!Call, Queue!Go, QueueInv, Queue!TypeOK
<1>2. Queue!TypeOK' BY <1>1 DEF QueueInv, Queue!TypeOK, Queue!Places
<1>3. BatchReady' BY <1>1 DEF QueueInv, Queue!TypeOK, BatchReady
<1>4. Queue!FifoExact' BY <1>1 DEF QueueInv, Queue!FifoExact
<1>5. Queue!HolderAlone' BY <1>1 DEF QueueInv, Queue!TypeOK, Queue!HolderAlone, Queue!Inside
<1>6. Queue!NoLostWakeup' BY <1>1 DEF QueueInv, Queue!TypeOK, Queue!NoLostWakeup
<1>7. Queue!Waiting' = Queue!Waiting
  <2>1. Queue!Waiting' = Queue!Waiting \ {t} BY <1>1, WaitingMoves DEF QueueInv, InWait
  <2>2. t \notin Queue!Waiting BY <1>1 DEF Queue!Waiting
  <2> QED BY <2>1, <2>2
<1>8. Queue!WaitersExact' BY <1>1, <1>7 DEF QueueInv, Queue!WaitersExact
<1> QED BY <1>2, <1>3, <1>4, <1>5, <1>6, <1>8 DEF QueueInv

\* A thread gets the mutex, in a call or at the end of await().
LEMMA LockStep ==
    ASSUME Queue!Assumptions, QueueInv, NEW t \in QueueThreads, NEW from, NEW to,
           Queue!Lock(t, from, to),
           \/ from = "push" /\ to = "pushing"
           \/ from = "pop" /\ to = "entered"
           \/ from = "signalled" /\ to = "testing"
           \/ from = "try" /\ to = "trying"
    PROVE  QueueInv'
<1>1. /\ at[t] = from /\ at' = [at EXCEPT ![t] = to]
      /\ mutex = Queue!None /\ mutex' = t
      /\ UNCHANGED <<internal_queue, num_waiters, batch, pushed, popped>>
  BY DEF Queue!Lock, Queue!Go
<1>2. to \in Queue!Inside /\ from \in Queue!Places /\ to \in Queue!Places
  BY DEF Queue!Inside, Queue!Places
<1>3. Queue!TypeOK' BY <1>1, <1>2 DEF QueueInv, Queue!TypeOK
<1>4. BatchReady' BY <1>1 DEF QueueInv, Queue!TypeOK, BatchReady
<1>5. Queue!FifoExact' BY <1>1 DEF QueueInv, Queue!FifoExact
<1>6. Queue!HolderAlone'
  <2>1. \A u \in QueueThreads : at[u] \notin Queue!Inside
    BY <1>1 DEF Queue!Assumptions, QueueInv, Queue!HolderAlone
  <2>2. \A u \in QueueThreads : at'[u] \in Queue!Inside <=> u = t
    BY <1>1, <1>2, <2>1 DEF QueueInv, Queue!TypeOK
  <2> QED BY <1>1, <2>2 DEF Queue!HolderAlone
<1>7. Queue!NoLostWakeup' BY <1>1 DEF QueueInv, Queue!TypeOK, Queue!NoLostWakeup
<1>8. Queue!Waiting' = Queue!Waiting
  <2>1. Queue!Waiting' = IF to \in InWait THEN Queue!Waiting \cup {t} ELSE Queue!Waiting \ {t}
    BY <1>1, WaitingMoves DEF QueueInv
  <2>2. t \in Queue!Waiting <=> to \in InWait BY <1>1 DEF Queue!Waiting, InWait
  <2> QED BY <2>1, <2>2
<1>9. Queue!WaitersExact' BY <1>1, <1>8 DEF QueueInv, Queue!WaitersExact
<1> QED BY <1>3, <1>4, <1>5, <1>6, <1>7, <1>9 DEF QueueInv

LEMMA WakeupStep ==
    ASSUME Queue!Assumptions, QueueInv, NEW t \in QueueThreads, Queue!SpuriousWakeup(t)
    PROVE  QueueInv'
<1>1. /\ at[t] = "await" /\ at' = [at EXCEPT ![t] = "signalled"]
      /\ UNCHANGED <<internal_queue, num_waiters, mutex, batch, pushed, popped>>
  BY DEF Queue!SpuriousWakeup, Queue!Go
<1>2. Queue!TypeOK' BY <1>1 DEF QueueInv, Queue!TypeOK, Queue!Places
<1>3. BatchReady' BY <1>1 DEF QueueInv, Queue!TypeOK, BatchReady
<1>4. Queue!FifoExact' BY <1>1 DEF QueueInv, Queue!FifoExact
<1>5. Queue!HolderAlone' BY <1>1 DEF QueueInv, Queue!TypeOK, Queue!HolderAlone, Queue!Inside
<1>6. Queue!NoLostWakeup' BY <1>1 DEF QueueInv, Queue!TypeOK, Queue!NoLostWakeup
<1>7. Queue!Waiting' = Queue!Waiting
  <2>1. Queue!Waiting' = Queue!Waiting \cup {t} BY <1>1, WaitingMoves DEF QueueInv, InWait
  <2>2. t \in Queue!Waiting BY <1>1 DEF Queue!Waiting
  <2> QED BY <2>1, <2>2
<1>8. Queue!WaitersExact' BY <1>1, <1>7 DEF QueueInv, Queue!WaitersExact
<1> QED BY <1>2, <1>3, <1>4, <1>5, <1>6, <1>8 DEF QueueInv

\* push(): the batch goes in, and everybody in await() is woken.
LEMMA PushStep ==
    ASSUME Queue!Assumptions, QueueInv, NEW t \in QueueThreads, Queue!Push(t)
    PROVE  QueueInv'
<1>1. /\ at[t] = "pushing"
      /\ internal_queue' = internal_queue \o batch[t]
      /\ pushed' = pushed \o batch[t]
      /\ mutex' = Queue!None /\ UNCHANGED <<num_waiters, batch, popped>>
      /\ at' = [u \in QueueThreads |-> IF u = t THEN "idle"
                                  ELSE IF at[u] = "await" THEN "signalled" ELSE at[u]]
  BY DEF Queue!Push, Queue!SignalAll
<1>2. batch[t] \in Seq(Elements) BY DEF QueueInv, Queue!TypeOK
<1>3. internal_queue' \in Seq(Elements) /\ pushed' \in Seq(Elements)
  BY <1>1, <1>2, ConcatType DEF QueueInv, Queue!TypeOK
<1>4. Queue!TypeOK' BY <1>1, <1>3 DEF QueueInv, Queue!TypeOK, Queue!Places
<1>5. BatchReady' BY <1>1 DEF QueueInv, Queue!TypeOK, BatchReady
<1>6. Queue!FifoExact'
  <2>1. (popped \o internal_queue) \o batch[t] = popped \o (internal_queue \o batch[t])
    BY <1>2, ConcatAssoc DEF QueueInv, Queue!TypeOK
  <2> QED BY <1>1, <2>1 DEF QueueInv, Queue!FifoExact
<1>7. Queue!HolderAlone'
  <2>1. mutex = t BY <1>1 DEF QueueInv, Queue!HolderAlone, Queue!Inside
  <2>2. \A u \in QueueThreads : u # t => at[u] \notin Queue!Inside
    BY <2>1 DEF QueueInv, Queue!HolderAlone
  <2>3. \A u \in QueueThreads : at'[u] \notin Queue!Inside BY <1>1, <2>2 DEF Queue!Inside
  <2> QED BY <1>1, <2>3 DEF Queue!Assumptions, Queue!HolderAlone
<1>8. Queue!NoLostWakeup' BY <1>1 DEF Queue!NoLostWakeup
<1>9. Queue!Waiting' = Queue!Waiting BY <1>1 DEF Queue!Waiting, QueueInv, Queue!TypeOK
<1>10. Queue!WaitersExact' BY <1>1, <1>9 DEF QueueInv, Queue!WaitersExact
<1> QED BY <1>4, <1>5, <1>6, <1>7, <1>8, <1>10 DEF QueueInv

\* A thread leaves with the front of the queue; it was one of those who wait
\* or it was not.
LEMMA TakeStep ==
    ASSUME Queue!Assumptions, QueueInv, NEW t \in QueueThreads,
           at[t] \in {"entered", "testing", "trying"},
           Queue!TakeFront(t), mutex' = Queue!None, UNCHANGED <<batch, pushed>>,
           num_waiters' = IF at[t] = "testing" THEN num_waiters - 1 ELSE num_waiters
    PROVE  QueueInv'
<1>1. at' = [at EXCEPT ![t] = "idle"] BY DEF Queue!TakeFront
<1>2. /\ internal_queue' \in Seq(Elements) /\ popped' \in Seq(Elements)
      /\ Queue!FifoExact' /\ Queue!NoLostWakeup'
  BY FrontTaken
<1>3. Queue!Waiting' = Queue!Waiting \ {t} BY <1>1, WaitingMoves DEF QueueInv, InWait
<1>4. num_waiters' = Cardinality(Queue!Waiting') /\ num_waiters' \in Nat
  <2>1. CASE at[t] = "testing"
    <3>1. t \in Queue!Waiting BY <2>1 DEF Queue!Waiting
    <3>2. Cardinality(Queue!Waiting \ {t}) = Cardinality(Queue!Waiting) - 1
      BY <3>1, WaitingFinite, FS_RemoveElement
    <3>3. Cardinality(Queue!Waiting) > 0 BY <3>1, WaitingFinite
    <3> QED BY <1>3, <2>1, <3>2, <3>3, WaitingFinite, SameOperators DEF QueueInv, Queue!WaitersExact
  <2>2. CASE at[t] # "testing"
    <3>1. t \notin Queue!Waiting BY <2>2 DEF Queue!Waiting
    <3>2. Queue!Waiting' = Queue!Waiting BY <3>1, <1>3
    <3> QED BY <2>2, <3>2, SameOperators DEF QueueInv, Queue!WaitersExact, Queue!TypeOK
  <2> QED BY <2>1, <2>2
<1>5. Queue!TypeOK' BY <1>1, <1>2, <1>4 DEF QueueInv, Queue!TypeOK, Queue!Places
<1>6. BatchReady' BY <1>1 DEF QueueInv, Queue!TypeOK, BatchReady
<1>7. Queue!HolderAlone' BY <1>1, Leaves DEF QueueInv, Queue!Inside, Queue!Places
<1>8. Queue!WaitersExact' BY <1>4, SameOperators DEF Queue!WaitersExact
<1> QED BY <1>2, <1>5, <1>6, <1>7, <1>8 DEF QueueInv

\* A thread blocks in await(): the queue is empty, and it is counted once.
LEMMA AwaitStep ==
    ASSUME Queue!Assumptions, QueueInv, NEW t \in QueueThreads, at[t] \in {"entered", "testing"},
           Queue!Await(t), mutex' = Queue!None, UNCHANGED <<batch, pushed>>,
           num_waiters' = IF at[t] = "testing" THEN num_waiters ELSE num_waiters + 1
    PROVE  QueueInv'
<1>1. /\ at' = [at EXCEPT ![t] = "await"] /\ internal_queue' = <<>>
      /\ UNCHANGED <<internal_queue, popped>>
  BY DEF Queue!Await
<1>2. Queue!Waiting' = Queue!Waiting \cup {t} BY <1>1, WaitingMoves DEF QueueInv, InWait
<1>3. num_waiters' = Cardinality(Queue!Waiting')
  <2>1. CASE at[t] = "testing"
    <3>1. Queue!Waiting' = Queue!Waiting BY <2>1, <1>2 DEF Queue!Waiting
    <3> QED BY <2>1, <3>1, SameOperators DEF QueueInv, Queue!WaitersExact
  <2>2. CASE at[t] # "testing"
    <3>1. t \notin Queue!Waiting BY <2>2 DEF Queue!Waiting
    <3>2. Cardinality(Queue!Waiting \cup {t}) = Cardinality(Queue!Waiting) + 1
      BY <3>1, WaitingFinite, FS_AddElement
    <3> QED BY <2>2, <3>2, <1>2, SameOperators DEF QueueInv, Queue!WaitersExact
  <2> QED BY <2>1, <2>2
<1>4. Queue!TypeOK' BY <1>1 DEF QueueInv, Queue!TypeOK, Queue!Places
<1>5. BatchReady' BY <1>1 DEF QueueInv, Queue!TypeOK, BatchReady
<1>6. Queue!FifoExact' BY <1>1 DEF QueueInv, Queue!FifoExact
<1>7. Queue!HolderAlone' BY <1>1, Leaves DEF QueueInv, Queue!Inside, Queue!Places
<1>8. Queue!NoLostWakeup' BY <1>1 DEF Queue!NoLostWakeup
<1>9. Queue!WaitersExact' BY <1>3, SameOperators DEF Queue!WaitersExact
<1> QED BY <1>4, <1>5, <1>6, <1>7, <1>8, <1>9 DEF QueueInv

\* popOneIfAvailable() on an empty queue.
LEMMA NothingStep ==
    ASSUME Queue!Assumptions, QueueInv, NEW t \in QueueThreads, Queue!popOneIfAvailable(t),
           internal_queue = <<>>
    PROVE  QueueInv'
<1>1. /\ at[t] = "trying" /\ at' = [at EXCEPT ![t] = "idle"] /\ mutex' = Queue!None
      /\ UNCHANGED <<internal_queue, popped, num_waiters, batch, pushed>>
  BY DEF Queue!popOneIfAvailable, Queue!TakeFront, Queue!Go
<1>2. Queue!TypeOK' BY <1>1 DEF QueueInv, Queue!TypeOK, Queue!Places
<1>3. BatchReady' BY <1>1 DEF QueueInv, Queue!TypeOK, BatchReady
<1>4. Queue!FifoExact' BY <1>1 DEF QueueInv, Queue!FifoExact
<1>5. Queue!HolderAlone' BY <1>1, Leaves DEF QueueInv, Queue!Inside, Queue!Places
<1>6. Queue!NoLostWakeup' BY <1>1 DEF Queue!NoLostWakeup
<1>7. Queue!Waiting' = Queue!Waiting
  <2>1. Queue!Waiting' = Queue!Waiting \ {t} BY <1>1, WaitingMoves DEF QueueInv, InWait
  <2>2. t \notin Queue!Waiting BY <1>1 DEF Queue!Waiting
  <2> QED BY <2>1, <2>2
<1>8. Queue!WaitersExact' BY <1>1, <1>7 DEF QueueInv, Queue!WaitersExact
<1> QED BY <1>2, <1>3, <1>4, <1>5, <1>6, <1>8 DEF QueueInv

LEMMA QueueStep == Queue!Assumptions /\ QueueInv /\ [Queue!Next]_(Queue!vars) => QueueInv'
<1> SUFFICES ASSUME Queue!Assumptions, QueueInv, [Queue!Next]_(Queue!vars) PROVE QueueInv' OBVIOUS
<1>1. CASE UNCHANGED Queue!vars
  BY <1>1 DEF Queue!vars, QueueInv, Queue!TypeOK, BatchReady, Queue!FifoExact, Queue!HolderAlone,
              Queue!NoLostWakeup, Queue!WaitersExact,
              Queue!Waiting
<1>2. ASSUME NEW t \in QueueThreads, Queue!EnterPop(t) PROVE QueueInv'
  BY <1>2, TakeStep, AwaitStep DEF Queue!EnterPop
<1>3. ASSUME NEW t \in QueueThreads, Queue!Retest(t) PROVE QueueInv'
  BY <1>3, TakeStep, AwaitStep DEF Queue!Retest
<1>4. ASSUME NEW t \in QueueThreads, Queue!popOneIfAvailable(t) PROVE QueueInv'
  <2>1. CASE internal_queue = <<>> BY <1>4, <2>1, NothingStep
  <2>2. CASE internal_queue # <<>> BY <1>4, <2>2, TakeStep DEF Queue!popOneIfAvailable
  <2> QED BY <2>1, <2>2
<1>5. ASSUME NEW t \in QueueThreads,
             \/ Queue!Lock(t, "push", "pushing") \/ Queue!Lock(t, "pop", "entered")
             \/ Queue!Lock(t, "signalled", "testing") \/ Queue!Lock(t, "try", "trying")
      PROVE  QueueInv'
  BY <1>5, LockStep
<1>6. ASSUME NEW t \in QueueThreads, Queue!Works(t) PROVE QueueInv'
  BY <1>6, <1>2, <1>3, <1>4, <1>5, PushStep DEF Queue!Works
<1> QED BY <1>1, <1>6, CallStep, WakeupStep DEF Queue!Next

-----------------------------------------------------------------------------
\* The queue's variables keep their types; the count of waiters never goes
\* below zero.
THEOREM QueueTypeCorrect == Queue!Spec => []Queue!TypeOK
<1>1. QueueInv => Queue!TypeOK BY DEF QueueInv
<1>2. Queue!Init => QueueInv BY QueueInit, QueueAssumption
<1>3. QueueInv /\ [Queue!Next]_(Queue!vars) => QueueInv' BY QueueStep, QueueAssumption
<1> QED BY <1>1, <1>2, <1>3, PTL DEF Queue!Spec

\* Nothing is lost, doubled or overtaken between push() and the two ways to
\* pop.
THEOREM FifoExactHolds == Queue!Spec => []Queue!FifoExact
<1>1. QueueInv => Queue!FifoExact BY DEF QueueInv
<1>2. Queue!Init => QueueInv BY QueueInit, QueueAssumption
<1>3. QueueInv /\ [Queue!Next]_(Queue!vars) => QueueInv' BY QueueStep, QueueAssumption
<1> QED BY <1>1, <1>2, <1>3, PTL DEF Queue!Spec

\* Only the holder of queue_mutex_ is between lock and unlock.
THEOREM HolderAloneHolds == Queue!Spec => []Queue!HolderAlone
<1>1. QueueInv => Queue!HolderAlone BY DEF QueueInv
<1>2. Queue!Init => QueueInv BY QueueInit, QueueAssumption
<1>3. QueueInv /\ [Queue!Next]_(Queue!vars) => QueueInv' BY QueueStep, QueueAssumption
<1> QED BY <1>1, <1>2, <1>3, PTL DEF Queue!Spec

\* popOne() is never left in await() while there is an element.
THEOREM NoLostWakeupHolds == Queue!Spec => []Queue!NoLostWakeup
<1>1. QueueInv => Queue!NoLostWakeup BY DEF QueueInv
<1>2. Queue!Init => QueueInv BY QueueInit, QueueAssumption
<1>3. QueueInv /\ [Queue!Next]_(Queue!vars) => QueueInv' BY QueueStep, QueueAssumption
<1> QED BY <1>1, <1>2, <1>3, PTL DEF Queue!Spec

\* num_waiters_ is the number of threads that wait in popOne().
THEOREM WaitersExactHolds == Queue!Spec => []Queue!WaitersExact
<1>1. QueueInv => Queue!WaitersExact BY DEF QueueInv
<1>2. Queue!Init => QueueInv BY QueueInit, QueueAssumption
<1>3. QueueInv /\ [Queue!Next]_(Queue!vars) => QueueInv' BY QueueStep, QueueAssumption
<1> QED BY <1>1, <1>2, <1>3, PTL DEF Queue!Spec

-----------------------------------------------------------------------------
\* Every step puts one batch in, takes the front out, or leaves the contents.
LEMMA QueueRefines ==
    Queue!Assumptions /\ QueueInv /\ [Queue!Next]_(Queue!vars)
        => [Queue!Fifo!Put \/ Queue!Fifo!Take]_internal_queue
<1> SUFFICES ASSUME Queue!Assumptions, QueueInv, [Queue!Next]_(Queue!vars)
             PROVE  \/ internal_queue' = internal_queue
                    \/ \E b \in Batches : internal_queue' = internal_queue \o b
                    \/ internal_queue # <<>> /\ internal_queue' = Tail(internal_queue)
  BY DEF Queue!Fifo!Put, Queue!Fifo!Take
<1>1. ASSUME NEW t \in QueueThreads, Queue!Push(t)
      PROVE  \E b \in Batches : internal_queue' = internal_queue \o b
  BY <1>1 DEF Queue!Push, QueueInv, BatchReady
<1>2. ASSUME NEW t \in QueueThreads, Queue!TakeFront(t)
      PROVE  internal_queue # <<>> /\ internal_queue' = Tail(internal_queue)
  BY <1>2 DEF Queue!TakeFront
<1>3. ASSUME NEW t \in QueueThreads, Queue!EnterPop(t) \/ Queue!Retest(t) \/ Queue!popOneIfAvailable(t)
      PROVE  Queue!TakeFront(t) \/ internal_queue' = internal_queue
  BY <1>3 DEF Queue!EnterPop, Queue!Retest, Queue!popOneIfAvailable, Queue!Await
<1>4. ASSUME NEW t \in QueueThreads, NEW from, NEW to, Queue!Lock(t, from, to)
      PROVE  internal_queue' = internal_queue
  BY <1>4 DEF Queue!Lock
<1>5. ASSUME NEW t \in QueueThreads,
             Queue!CallPush(t) \/ Queue!Call(t, "pop") \/ Queue!Call(t, "try") \/ Queue!SpuriousWakeup(t)
      PROVE  internal_queue' = internal_queue
  BY <1>5 DEF Queue!CallPush, Queue!Call, Queue!SpuriousWakeup
<1>6. CASE UNCHANGED Queue!vars BY <1>6 DEF Queue!vars
<1>7. CASE Queue!Next
  <2>1. PICK t \in QueueThreads :
           \/ Queue!CallPush(t) \/ Queue!Call(t, "pop") \/ Queue!Call(t, "try")
           \/ Queue!SpuriousWakeup(t)
           \/ Queue!Works(t)
    BY <1>7 DEF Queue!Next
  <2>2. CASE Queue!Works(t) BY <2>2, <1>1, <1>2, <1>3, <1>4 DEF Queue!Works
  <2> QED BY <2>1, <2>2, <1>5
<1> QED BY <1>6, <1>7

-----------------------------------------------------------------------------
(* The three together, as the run checks them *)

\* A step of the suite is a step of each part, or leaves it alone.
LEMMA SuiteSteps ==
    [SuiteNext]_suite =>
        [Next]_vars /\ [Blocking!Next]_(Blocking!vars) /\ [Queue!Next]_(Queue!vars)
BY DEF SuiteNext, suite, vars, block, queue, Blocking!vars, Queue!vars

SuiteInv == SpinInv /\ BlockInv /\ QueueInv

LEMMA SuiteInvInit == SuiteInit => SuiteInv
BY SpinInit, BlockInit, QueueInit, QueueAssumption DEF SuiteInit, SuiteInv

LEMMA SuiteInvStep == SuiteInv /\ [SuiteNext]_suite => SuiteInv'
BY SuiteSteps, SpinStep, BlockStep, QueueStep, QueueAssumption DEF SuiteInv

\* Either lock counts its holders exactly, the blocking one forgets nobody that
\* waits, and the queue neither loses nor doubles nor overtakes an element nor
\* leaves a popOne() in await() beside one.
THEOREM SharedStateExactHolds == SuiteSpec => []SharedStateExact
<1>1. SuiteInv => SharedStateExact
  BY BlockExact DEF SuiteInv, SpinInv, QueueInv, SharedStateExact
<1> QED BY <1>1, SuiteInvInit, SuiteInvStep, PTL DEF SuiteSpec

\* The blocking mutex implements the abstract shared lock: await() and the two
\* condition variables admit a reader only while there is no writer and a writer
\* only while there is nobody.
THEOREM ImplementsLockHolds == SuiteSpec => ImplementsLock
<1>1. SuiteInit => Blocking!Abstract!LockInit
  BY DEF SuiteInit, Blocking!Init, Blocking!Abstract!LockInit, Blocking!In
<1>2. SuiteInv /\ [SuiteNext]_suite => [Blocking!Abstract!LockNext]_(Blocking!Abstract!lockVars)
  BY SuiteSteps, BlockRefines DEF SuiteInv
<1> QED BY <1>1, <1>2, SuiteInvInit, SuiteInvStep, PTL
        DEF SuiteSpec, ImplementsLock, Blocking!ImplementsLock, Blocking!Abstract!LockSpec

\* The queue implements the abstract one: a batch goes in at the end as one, and
\* only the front comes out.
THEOREM ImplementsFifoHolds == SuiteSpec => ImplementsFifo
<1>1. SuiteInit => Queue!Fifo!FifoInit BY DEF SuiteInit, Queue!Init, Queue!Fifo!FifoInit
<1>2. SuiteInv /\ [SuiteNext]_suite => [Queue!Fifo!Put \/ Queue!Fifo!Take]_internal_queue
  BY SuiteSteps, QueueRefines, QueueAssumption DEF SuiteInv
<1> QED BY <1>1, <1>2, SuiteInvInit, SuiteInvStep, PTL
        DEF SuiteSpec, ImplementsFifo, Queue!ImplementsFifo, Queue!Fifo!FifoSpec
=============================================================================
