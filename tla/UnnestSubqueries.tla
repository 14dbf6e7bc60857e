--------------------------- MODULE UnnestSubqueries ----------------------------
(***************************************************************************)
(* UnnestSubqueries: subqueries become joins with the plan around them.    *)
(* Walking up a subquery, the predicates that name an attribute of the     *)
(* query around it are taken out; the inner attributes they name are made  *)
(* visible through the nodes above, and the predicates become those of     *)
(* the join.                                                               *)
(***************************************************************************)
EXTENDS LogicalPlans

\* What the walk up a subquery has collected: the new plan, the attributes
\* that must stay visible, the two sides of the equalities taken out, and the
\* other predicates.
Walked(plan, inner, probe, build, other) ==
    [plan |-> plan, inner |-> inner, probe |-> probe, build |-> build, other |-> other]

IsRefused(w) == w.plan.op = "refused"

RECURSIVE OutersOf(_)
OutersOf(e) == CASE e[1] = "outer" -> {e[2]} [] e[1] = "flip" -> OutersOf(e[2]) [] OTHER -> {}

\* DeOuterAttributeReference.
RECURSIVE DeOuter(_)
DeOuter(e) == CASE e[1] = "outer" -> <<"attr", e[2]>> [] e[1] = "flip" -> <<"flip", DeOuter(e[2])>> [] OTHER -> e

OuterRefs(c) == IF c[1] = "cmp" THEN OutersOf(c[3]) \cup OutersOf(c[4]) ELSE {}

IsEqualityOfAttributes(c) ==
    c[1] = "cmp" /\ c[2] = "eq" /\ c[3][1] \in {"attr", "outer"} /\ c[4][1] \in {"attr", "outer"}

\* eliminateOuterAttributeReference(): one conjunct, while w.plan keeps the
\* conjuncts that stay.
eliminateOuterAttributeReference(w, c, scalar, visible) ==
    LET outer == OuterRefs(c)
        refused == [w EXCEPT !.ok = FALSE]
    IN  IF outer = {} THEN [w EXCEPT !.kept = Append(@, c)]
        ELSE IF ~outer \subseteq visible THEN refused
        ELSE IF IsEqualityOfAttributes(c)
        THEN IF RefsOf(c) = {} THEN refused
             ELSE LET in == CHOOSE a \in RefsOf(c) : TRUE
                      out == CHOOSE a \in outer : TRUE
                  IN  [w EXCEPT !.inner = @ \cup {in}, !.probe = Append(@, out), !.build = Append(@, in)]
        ELSE IF scalar THEN refused
        ELSE [w EXCEPT !.inner = @ \cup RefsOf(c),
                       !.other = Append(@, <<"cmp", c[2], DeOuter(c[3]), DeOuter(c[4])>>)]

InputExpressions(n) == IF n.op \in {"filter", "nlj", "hashjoin"} THEN n.preds ELSE <<>>

\* validateNonOuterAttributeReference(): the other expressions, of which only
\* those of a projection can be more than an attribute of the input.
NonOuter(n) == n.op = "project" => \A i \in 1..Len(n.list) : OutersOf(n.list[i][2]) = {}

AsAttributes(attrs) == [i \in 1..Len(attrs) |-> <<attrs[i], <<"attr", attrs[i]>>>>]

RECURSIVE applyInternal(_, _, _)

\* A subquery and how it is joined: the result of the walk, the kind of join.
CorrelatedQueryInfo(w, type) == [w |-> w, type |-> type]

transformScalar(plan, visible) ==
    LET w == applyInternal(plan, TRUE, visible)
    IN  CorrelatedQueryInfo(w, IF w.probe = <<>> THEN "cartesian" ELSE "inner")

transformExists(plan, visible, type) ==
    LET w == applyInternal(plan, FALSE, visible)
    IN  CorrelatedQueryInfo(IF w.probe = <<>> THEN [w EXCEPT !.plan = Refused] ELSE w, type)

\* IN: the test is one more equality, if it is an attribute.
transformInTableQuery(e, plan, visible, type) ==
    LET w == applyInternal(plan, FALSE, visible)
        first == plan.list[1][1]
    IN  CorrelatedQueryInfo(
            IF e[1] = "attr" THEN [w EXCEPT !.probe = Append(@, e[2]), !.build = Append(@, first)]
            ELSE IF w.probe # <<>> THEN [w EXCEPT !.other = Append(@, <<"cmp", "eq", e, <<"attr", first>>>>)]
            ELSE [w EXCEPT !.plan = Refused], type)

\* UnnestSubqueriesForExpession on a scalar: the subqueries in it, and what
\* it becomes.
RECURSIVE QueriesIn(_, _)
QueriesIn(e, visible) ==
    CASE e[1] = "query" -> <<transformScalar(e[2], visible)>>
      [] e[1] = "flip" -> QueriesIn(e[2], visible)
      [] OTHER -> <<>>

RECURSIVE WithoutQueries(_)
WithoutQueries(e) ==
    CASE e[1] = "query" -> <<"attr", e[2].list[1][1]>>
      [] e[1] = "flip" -> <<"flip", WithoutQueries(e[2])>>
      [] OTHER -> e

QueriesInConjunct(c, visible) ==
    CASE c[1] = "cmp" -> QueriesIn(c[3], visible) \o QueriesIn(c[4], visible)
      [] c[1] = "exists" -> <<transformExists(c[2], visible, "semi")>>
      [] c[1] = "notexists" -> <<transformExists(c[2], visible, "anti")>>
      [] c[1] = "in" -> <<transformInTableQuery(c[2], c[3], visible, "semi")>>
      [] c[1] = "notin" -> <<transformInTableQuery(c[2], c[3], visible, "anti")>>

\* The plan joined with its subqueries: products first, then the joins in order.
JoinSubqueries(input, infos) ==
    LET products == SelectSeq(infos, LAMBDA i : i.type = "cartesian")
        subqueries == FoldLeft(LAMBDA p, i : MultiwayCartesianJoin(<<p, i.w.plan>>),
                               Head(products).w.plan, Tail(products))
    IN  FoldLeft(LAMBDA p, i : HashJoin(p, i.w.plan, i.w.probe, i.w.build, i.w.other, i.type),
                 IF products = <<>> THEN input ELSE MultiwayCartesianJoin(<<input, subqueries>>),
                 SelectSeq(infos, LAMBDA i : i.type # "cartesian"))

\* The node over that plan: only comparisons are left of a filter.
WithJoinedInput(n, child) ==
    LET compared == SelectSeq(n.preds, LAMBDA c : c[1] = "cmp")
    IN  IF n.op = "project"
        THEN Project(child, [i \in 1..Len(n.list) |-> <<n.list[i][1], WithoutQueries(n.list[i][2])>>])
        ELSE IF compared = <<>> THEN child
        ELSE Filter(child, [i \in 1..Len(compared) |->
                 <<"cmp", compared[i][2], WithoutQueries(compared[i][3]), WithoutQueries(compared[i][4])>>])

SubqueriesJoined(n, infos) ==
    IF infos = <<>> THEN n
    ELSE IF \E i \in 1..Len(infos) : IsRefused(infos[i].w) THEN Refused
    ELSE WithJoinedInput(n, JoinSubqueries(n.kids[1], infos))

eliminateNestedScalarQueries(n) ==
    LET visible == UNION {getOutputAttributes(n.kids[i]) : i \in 1..Len(n.kids)}
    IN  SubqueriesJoined(n,
            CASE n.op = "filter" ->
                    FlattenSeq([i \in 1..Len(n.preds) |-> QueriesInConjunct(n.preds[i], visible)])
              [] n.op = "project" ->
                    FlattenSeq([i \in 1..Len(n.list) |-> QueriesIn(n.list[i][2], visible)])
              [] OTHER -> <<>>)

\* copyWithNewInputExpressions() of a join: a NestedLoopsJoin needs a predicate,
\* a HashJoin can only be left as it is, and must have nothing to keep.
JoinWith(n, kept) ==
    CASE kept = n.preds -> n
      [] kept # n.preds /\ n.op = "nlj" -> IF kept = <<>> THEN Broken ELSE [n EXCEPT !.preds = kept]
      [] kept # n.preds /\ n.op = "hashjoin" -> IF kept = <<>> THEN n ELSE Broken

\* Mutant: the attributes of the join are not kept apart by the aggregation.
RaisedUngrouped(n, w) ==
    CASE n.op = "filter" -> IF w.kept = <<>> THEN n.kids[1] ELSE Filter(n.kids[1], w.kept)
      [] n.op = "project" ->
            Project(n.kids[1], AsAttributes(SetToSeq(w.inner \ getOutputAttributes(n))) \o n.list)
      [] OTHER -> n

\* How a node looks without the predicates taken out of it and below it.
Raised(n, w) ==
    CASE n.op = "aggregate" ->
            IF w.other # <<>> THEN Refused
            ELSE [n EXCEPT !.groups = @ \o SetToSeq(w.inner)]
      [] n.op = "filter" -> IF w.kept = <<>> THEN n.kids[1] ELSE Filter(n.kids[1], w.kept)
      [] n.op = "project" ->
            Project(n.kids[1], AsAttributes(SetToSeq(w.inner \ getOutputAttributes(n))) \o n.list)
      [] n.op \in {"nlj", "hashjoin"} -> JoinWith(n, w.kept)
      [] OTHER -> n

\* What the walks up the children have collected.
CollectedBelow(kids) ==
    [inner |-> UNION {kids[i].inner : i \in 1..Len(kids)},
     probe |-> FlattenSeq([i \in 1..Len(kids) |-> kids[i].probe]),
     build |-> FlattenSeq([i \in 1..Len(kids) |-> kids[i].build]),
     other |-> FlattenSeq([i \in 1..Len(kids) |-> kids[i].other]),
     kept |-> <<>>, ok |-> \A i \in 1..Len(kids) : ~IsRefused(kids[i])]

WalkedUp(n, w) ==
    Walked(IF n.op = "refused" \/ ~w.ok \/ ~NonOuter(n) THEN Refused ELSE Raised(n, w),
           w.inner, w.probe, w.build, w.other)

eliminateOuterReferences(n, below, scalar, visible) ==
    WalkedUp(n, FoldLeft(LAMBDA x, c : eliminateOuterAttributeReference(x, c, scalar, visible),
                         below, InputExpressions(n)))

\* UnnestSubqueriesForNonRootLogical: the children, the subqueries of this
\* node, and its references to the query around.
applyToChildren(node, kids, scalar, visible) ==
    eliminateOuterReferences(
        eliminateNestedScalarQueries(copyWithNewChildren(node, [i \in 1..Len(kids) |-> kids[i].plan])),
        CollectedBelow(kids), scalar, visible)

applyInternal(node, scalar, visible) ==
    applyToChildren(node, [i \in 1..Len(node.kids) |-> applyInternal(node.kids[i], scalar, visible)],
                    scalar, visible)

Unnested(plan) == applyInternal(plan, FALSE, {}).plan

===============================================================================
