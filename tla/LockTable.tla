----------------------------- MODULE LockTable -----------------------------
(***************************************************************************)
(* AccessMode, ResourceId and LockTable: for every resource the list of    *)
(* locks that are owned and the list of those that are pending.  A lock    *)
(* table is a record tb of two functions from resources to sequences of    *)
(* entries.                                                                *)
(***************************************************************************)
EXTENDS Integers, Sequences, FiniteSets

CONSTANTS
    Transactions,
    Resources,   \* ResourceIds: databases, relations, blocks, tuples
    Parent,      \* Parent[r] is the resource one level up ...
    NoParent     \* ... or NoParent when r is a database

ASSUME HierarchyAssumption ==
    Parent \in [Resources -> Resources \cup {NoParent}] /\ NoParent \notin Resources

Modes == {"NL", "IS", "IX", "S", "SIX", "X"}

\* kLockCompatibilityMatrix: the modes each mode tolerates.
Tolerates == [NL  |-> Modes,
              IS  |-> {"NL", "IS", "IX", "S", "SIX"},
              IX  |-> {"NL", "IS", "IX"},
              S   |-> {"NL", "IS", "S"},
              SIX |-> {"NL", "IS"},
              X   |-> {"NL"}]

isCompatible(m, n) == n \in Tolerates[m]

Entry == [tid : Transactions, mode : Modes]
TableType == [own : [Resources -> Seq(Entry)], pending : [Resources -> Seq(Entry)]]

EmptyTable == [own |-> [r \in Resources |-> <<>>], pending |-> [r \in Resources |-> <<>>]]

Holds(list, t, m) == \E i \in DOMAIN list : list[i] = [tid |-> t, mode |-> m]

-----------------------------------------------------------------------------
(* putLock(): its result and its effect *)

\* Mutant: a compatible request overtakes the pending ones, and one that is
\* pending already is looked at again.
PutResultOvertaking(tb, t, r, m) ==
    IF Holds(tb.own[r], t, m) THEN "alreadyInOwned"
    ELSE IF \A i \in DOMAIN tb.own[r] : isCompatible(m, tb.own[r][i].mode)
    THEN "placedInOwned" ELSE "placedInPending"

\* Mutant: a request is compared with the first owned lock only.
PutResultFirstOwned(tb, t, r, m) ==
    IF Holds(tb.own[r], t, m) THEN "alreadyInOwned"
    ELSE IF Holds(tb.pending[r], t, m) THEN "alreadyInPending"
    ELSE IF tb.pending[r] = <<>> /\ (tb.own[r] # <<>> => isCompatible(m, tb.own[r][1].mode))
    THEN "placedInOwned" ELSE "placedInPending"

putLockResult(tb, t, r, m) ==
    IF Holds(tb.own[r], t, m) THEN "alreadyInOwned"
    ELSE IF Holds(tb.pending[r], t, m) THEN "alreadyInPending"
    ELSE IF /\ tb.pending[r] = <<>>
            /\ \A i \in DOMAIN tb.own[r] : isCompatible(m, tb.own[r][i].mode)
    THEN "placedInOwned" ELSE "placedInPending"

putLock(tb, t, r, m) ==
    LET e == [tid |-> t, mode |-> m]
        result == putLockResult(tb, t, r, m)
    IN  IF result = "placedInOwned" THEN [tb EXCEPT !.own[r] = Append(@, e)]
        ELSE IF result = "placedInPending" THEN [tb EXCEPT !.pending[r] = Append(@, e)]
        ELSE tb

-----------------------------------------------------------------------------
(* deleteLock() *)

First(list, t) == {i \in DOMAIN list : list[i].tid = t
                                       /\ \A j \in 1 .. i - 1 : list[j].tid # t}
Without(list, i) == [j \in 1 .. Len(list) - 1 |-> IF j < i THEN list[j] ELSE list[j + 1]]

deleteLockResult(tb, t, r) ==
    IF First(tb.own[r], t) # {} THEN "deleteFromOwned"
    ELSE IF First(tb.pending[r], t) # {} THEN "deleteFromPending"
    ELSE "deleteError"

\* deleteLock() up to the call of movePendingToOwned().
deleteLock(tb, t, r) ==
    IF First(tb.own[r], t) # {}
    THEN [tb EXCEPT !.own[r] = Without(@, CHOOSE i \in First(tb.own[r], t) : TRUE)]
    ELSE IF First(tb.pending[r], t) # {}
    THEN [tb EXCEPT !.pending[r] = Without(@, CHOOSE i \in First(tb.pending[r], t) : TRUE)]
    ELSE tb

(***************************************************************************)
(* movePendingToOwned() compares an iterator of the owned list with the    *)
(* end of the pending list, which it never equals.  When the first pending *)
(* entry conflicts with an owned one the loop breaks there and nothing is  *)
(* moved.  Otherwise it runs on past the end of the owned list: what it    *)
(* reads there is undefined, and either looks like a conflict, so that     *)
(* nothing is moved, or keeps the loop going round for ever, or crashes.   *)
(* No execution reaches the code that moves an entry.                      *)
(***************************************************************************)
movePendingRunsOff(tb, r) ==
    /\ tb.pending[r] # <<>>
    /\ \A i \in DOMAIN tb.own[r] : isCompatible(tb.pending[r][1].mode, tb.own[r][i].mode)

-----------------------------------------------------------------------------
(* The lock hierarchy of acquireLock() *)

\* The mode to be acquired on the parent of a resource.
intention(m) == IF m \in {"S", "IS"} THEN "IS" ELSE "IX"
=============================================================================
