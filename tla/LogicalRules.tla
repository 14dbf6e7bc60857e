----------------------------- MODULE LogicalRules ------------------------------
(***************************************************************************)
(* The rules LogicalGenerator applies to a plan without subqueries:        *)
(* PushDownSemiAntiJoin, PushDownFilter, GenerateJoins, CollapseProject.    *)
(***************************************************************************)
EXTENDS LogicalPlans

\* LogicalAnd and GetConjunctivePredicates(): a predicate is its conjuncts.
EqualTo(a, b) == <<"cmp", "eq", <<"attr", a>>, <<"attr", b>>>>

-------------------------------------------------------------------------------
(* PushDownSemiAntiJoin *)

IsSemiAnti(p) == p.op = "hashjoin" /\ p.type \in {"semi", "anti"}

\* Mutant: an outer join is a join like any other.
LastInputAny(p) == Len(p.kids)

\* How many of the children of a node rows may be taken from: of an outer
\* join only the left one.
LastInput(p) ==
    IF p.op = "hashjoin" /\ p.type = "outer" THEN 1 ELSE Len(p.kids)

\* The first child that has all these attributes, or 0.
ChildWith(p, attrs) ==
    LET fit == {i \in 1..LastInput(p) : attrs \subseteq getOutputAttributes(p.kids[i])}
    IN  IF fit = {} THEN 0 ELSE Min(fit)

pushDownSemiAntiJoin(join) ==
    LET left == join.kids[1]
        i == ChildWith(left, Range(join.left))
        residual == UNION {RefsOf(join.preds[k]) : k \in 1..Len(join.preds)}
        visible == getOutputAttributes(left.kids[i]) \cup getOutputAttributes(join.kids[2])
    IN  IF i = 0 \/ ~residual \subseteq visible THEN join
        ELSE copyWithNewChildren(left,
                 [left.kids EXCEPT ![i] = copyWithNewChildren(join, <<@, join.kids[2]>>)])

\* A child that is another hash join does not get into new_children, which is
\* used if some child changed.
PushDownSemiAntiJoin(n) ==
    LET taken == SelectSeq(n.kids, LAMBDA k : k.op # "hashjoin" \/ IsSemiAnti(k))
        new_children == [i \in 1..Len(taken) |->
                           IF IsSemiAnti(taken[i]) THEN pushDownSemiAntiJoin(taken[i]) ELSE taken[i]]
    IN  IF new_children = taken THEN n ELSE copyWithNewChildren(n, new_children)

-------------------------------------------------------------------------------
(* PushDownFilter *)

\* Every conjunct goes to the first child that has its attributes.
PushDownFilter(n) ==
    LET input == n.kids[1]
        place(c) == ChildWith(input, RefsOf(c))
        pushed(i) == SelectSeq(n.preds, LAMBDA c : place(c) = i)
        kept == pushed(0)
        new_input == copyWithNewChildren(input,
                         [i \in 1..Len(input.kids) |->
                            IF pushed(i) = <<>> THEN input.kids[i] ELSE Filter(input.kids[i], pushed(i))])
    IN  IF n.op # "filter" THEN n
        ELSE IF kept = n.preds THEN n
        ELSE IF kept = <<>> THEN new_input ELSE Filter(new_input, kept)

-------------------------------------------------------------------------------
(* GenerateJoins *)

\* attribute_to_logical_map: which of the nodes yet to be joined has it.
LogicalOf(nodes, a) == CHOOSE p \in Range(nodes) : a \in getOutputAttributes(p)

UpdateLogicalVectors(nodes, left, right, join) ==
    SelectSeq(nodes, LAMBDA p : p \notin {left, right}) \o <<join>>

IsHashJoinPredicate(nodes, c) ==
    /\ c[2] = "eq" /\ c[3][1] = "attr" /\ c[4][1] = "attr"
    /\ LogicalOf(nodes, c[3][2]) # LogicalOf(nodes, c[4][2])

\* Predicates between the same two inputs are one hash join, with the sides
\* of the first of them.
AddPair(nodes, infos, c) ==
    LET l == c[3][2] r == c[4][2]
        sides(i) == <<LogicalOf(nodes, infos[i].left[1]), LogicalOf(nodes, infos[i].right[1])>>
        direct == {i \in 1..Len(infos) : sides(i) = <<LogicalOf(nodes, l), LogicalOf(nodes, r)>>}
        reversed == {i \in 1..Len(infos) : sides(i) = <<LogicalOf(nodes, r), LogicalOf(nodes, l)>>}
    IN  IF direct # {}
        THEN [infos EXCEPT ![Min(direct)] = [left |-> Append(@.left, l), right |-> Append(@.right, r)]]
        ELSE IF reversed # {}
        THEN [infos EXCEPT ![Min(reversed)] = [left |-> Append(@.left, r), right |-> Append(@.right, l)]]
        ELSE Append(infos, [left |-> <<l>>, right |-> <<r>>])

ClassifyPredicates(nodes, preds) ==
    [hash |-> FoldLeft(LAMBDA infos, c : AddPair(nodes, infos, c), <<>>,
                       SelectSeq(preds, LAMBDA c : IsHashJoinPredicate(nodes, c))),
     other |-> SelectSeq(preds, LAMBDA c : ~IsHashJoinPredicate(nodes, c))]

\* First a hash join for each pair of inputs; if earlier ones have joined the
\* two, its predicates filter the result.
AddHashJoin(s, info) ==
    LET left == LogicalOf(s.nodes, info.left[1])
        right == LogicalOf(s.nodes, info.right[1])
    IN  IF left # right
        THEN [s EXCEPT !.nodes = UpdateLogicalVectors(@, left, right,
                                     HashJoin(left, right, info.left, info.right, <<>>, "inner"))]
        ELSE [s EXCEPT !.filters = @ \o [i \in 1..Len(info.left) |-> EqualTo(info.left[i], info.right[i])]]

AddNestedLoopsJoin(nodes, left, right, preds) ==
    UpdateLogicalVectors(nodes, left, right, NestedLoopsJoin(left, right, preds))

\* Then a nested loops join for a predicate of two nodes, in some order; of
\* one node it is a filter, and of more it waits.
AddPredicateOf(s, c, of) ==
    CASE Len(of) = 2 -> [s EXCEPT !.nodes = AddNestedLoopsJoin(@, of[1], of[2], <<c>>), !.new = TRUE]
      [] Len(of) = 1 -> [s EXCEPT !.filters = Append(@, c)]
      [] OTHER -> [s EXCEPT !.left = Append(@, c)]
AddPredicate(s, c) == AddPredicateOf(s, c, SetToSeq({LogicalOf(s.nodes, a) : a \in RefsOf(c)}))

\* A round without a join joins the first two nodes.  A predicate without
\* attributes would never leave the loop.
ForceJoin(s) ==
    IF s.new \/ Len(s.nodes) < 2 THEN s
    ELSE [s EXCEPT !.nodes = AddNestedLoopsJoin(@, @[1], @[2], <<>>)]

RECURSIVE JoinTheRest(_, _)
JoinTheRest(s, preds) ==
    LET r == ForceJoin(FoldLeft(AddPredicate, [s EXCEPT !.new = FALSE, !.left = <<>>], preds))
    IN  IF preds = <<>> THEN s
        ELSE IF r.left = preds /\ r.nodes = s.nodes THEN [s EXCEPT !.nodes = <<Broken>>]
        ELSE JoinTheRest(r, r.left)

MaybeGenerateNestedLoopsCartesianJoin(nodes) ==
    FoldLeft(LAMBDA p, q : NestedLoopsJoin(p, q, <<>>), Head(nodes), Tail(nodes))

\* What is left over is joined without a predicate.
JoinAll(s) ==
    LET output == MaybeGenerateNestedLoopsCartesianJoin(s.nodes)
    IN  IF s.filters = <<>> THEN output ELSE Filter(output, s.filters)

JoinInputs(inputs, classes) ==
    JoinAll(JoinTheRest(
        FoldLeft(AddHashJoin, [nodes |-> inputs, filters |-> <<>>, new |-> FALSE, left |-> <<>>],
                 classes.hash), classes.other))

JoinsOf(n) == JoinInputs(n.kids[1].kids, ClassifyPredicates(n.kids[1].kids, n.preds))

OuterHashJoin(left_input, right_input, left, right, across) ==
    LET equality(c) == c[2] = "eq" /\ c[3][1] = "attr" /\ c[4][1] = "attr"
        side(attrs) == [i \in 1..Len(across) |-> CHOOSE a \in RefsOf(across[i]) : a \in attrs]
    IN  IF \E i \in 1..Len(across) : ~equality(across[i]) THEN Refused
        ELSE IF across = <<>> THEN Broken
        ELSE HashJoin(left_input, right_input, side(left), side(right), <<>>, "outer")

\* An outer join: only equalities across it, and what ON says of the right
\* input filters that input.  Without an equality there is no HashJoin.
OuterJoinOf(n) ==
    LET left == getOutputAttributes(n.kids[1])
        right == getOutputAttributes(n.kids[2])
        of_left == SelectSeq(n.preds, LAMBDA c : RefsOf(c) \subseteq left)
        of_right == SelectSeq(n.preds, LAMBDA c : ~RefsOf(c) \subseteq left /\ RefsOf(c) \subseteq right)
        across == SelectSeq(n.preds, LAMBDA c : ~RefsOf(c) \subseteq left /\ ~RefsOf(c) \subseteq right)
    IN  IF of_left # <<>> THEN Refused
        ELSE OuterHashJoin(n.kids[1], IF of_right = <<>> THEN n.kids[2] ELSE Filter(n.kids[2], of_right),
                           left, right, across)

GenerateJoins(n) ==
    CASE n.op = "filter" /\ n.kids[1].op = "cartesian" -> JoinsOf(n)
      [] n.op = "cartesian" -> MaybeGenerateNestedLoopsCartesianJoin(n.kids)
      [] n.op = "hashjoin" /\ n.type = "outer" -> OuterJoinOf(n)
      [] OTHER -> n

-------------------------------------------------------------------------------
(* CollapseProject *)

\* UpdateExpression: what an alias of the Project below stands for.
RECURSIVE UpdateExpression(_, _)
UpdateExpression(e, list) ==
    CASE e[1] = "attr" /\ \E i \in 1..Len(list) : list[i][1] = e[2] ->
            list[CHOOSE i \in 1..Len(list) : list[i][1] = e[2]][2]
      [] e[1] = "flip" -> <<"flip", UpdateExpression(e[2], list)>>
      [] OTHER -> e

PullUpProjectExpressions(list, below) ==
    [i \in 1..Len(list) |-> <<list[i][1], UpdateExpression(list[i][2], below)>>]

CollapseProject(n) ==
    IF n.op = "project" /\ n.kids[1].op = "project"
    THEN Project(n.kids[1].kids[1], PullUpProjectExpressions(n.list, n.kids[1].list))
    ELSE n

-------------------------------------------------------------------------------
(* Applying a rule to a tree *)

applyToNode(rule, n) ==
    CASE rule = "PushDownSemiAntiJoin" -> PushDownSemiAntiJoin(n)
      [] rule = "PushDownFilter" -> PushDownFilter(n)
      [] rule = "GenerateJoins" -> GenerateJoins(n)
      [] rule = "CollapseProject" -> CollapseProject(n)

\* TopDownRule::apply().
RECURSIVE TopDown(_, _)
TopDownChildren(rule, n) ==
    copyWithNewChildren(n, [i \in 1..Len(n.kids) |-> TopDown(rule, n.kids[i])])
TopDown(rule, n) == TopDownChildren(rule, applyToNode(rule, n))

\* BottomUpRule::apply().
RECURSIVE BottomUp(_, _)
BottomUp(rule, n) ==
    applyToNode(rule, copyWithNewChildren(n, [i \in 1..Len(n.kids) |-> BottomUp(rule, n.kids[i])]))

===============================================================================
