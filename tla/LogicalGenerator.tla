--------------------------- MODULE LogicalGenerator ----------------------------
(***************************************************************************)
(* LogicalGenerator::generatePlan(): the plan the resolver makes of a      *)
(* query, the rules optimizePlan() applies to it, in their order, and what *)
(* the plan means after each of them.                                      *)
(*                                                                         *)
(* A SELECT is a record: the items of FROM, the conjuncts of WHERE, the    *)
(* window (its attribute and what it is partitioned by, or <<>>), the      *)
(* grouping attributes and the aggregates, the conjuncts of HAVING, what   *)
(* is ordered by, the limit, the select list, and the items of it that     *)
(* HAVING or ORDER BY name by their aliases.                               *)
(***************************************************************************)
EXTENDS LogicalPlans, LogicalRules, UnnestSubqueries

CONSTANTS
    Queries,     \* plans of the resolver
    Databases(_) \* the contents of the tables the plans of a query are compared on

VARIABLES query, plan, step

vars == <<query, plan, step>>

-------------------------------------------------------------------------------
(* The resolver *)

NoClauses ==
    [from |-> <<>>, where |-> <<>>, window |-> <<>>, groups |-> <<>>, aggs |-> <<>>,
     having |-> <<>>, order |-> <<>>, limit |-> NoLimit, list |-> <<>>, referenced |-> {}]

resolveFromClause(items) ==
    IF Len(items) > 1 THEN MultiwayCartesianJoin(items) ELSE items[1]

\* A left outer join has only a residual predicate: GenerateJoins finds the
\* attributes.
resolveJoinedTableReference(left, right, type, on) ==
    CASE type = "inner" -> Filter(MultiwayCartesianJoin(<<left, right>>), on)
      [] type = "left" -> HashJoin(left, right, <<>>, <<>>, on, "outer")
      [] type = "right" -> HashJoin(right, left, <<>>, <<>>, on, "outer")

resolveSortInWindow(input, by) == Sort(input, <<by>>, NoLimit)

ToRef(item) == <<item[1], <<"attr", item[1]>>>>

AttributesAsItems(attrs) == [i \in 1..Len(attrs) |-> <<attrs[i], <<"attr", attrs[i]>>>>]

\* The items beside all that is there.
Precomputed(input, items) ==
    IF items = <<>> THEN input
    ELSE Project(input, items \o AttributesAsItems(SetToSeq(getOutputAttributes(input))))

\* What HAVING and ORDER BY name is computed before or after the aggregation.
IsPrecomputed(s, i, after) ==
    LET aggregates == {s.aggs[k][1] : k \in 1..Len(s.aggs)}
    IN  /\ i \in s.referenced
        /\ (AttrsOf(s.list[i][2]) \cap aggregates # {}) = after
        /\ after => s.list[i][2][1] # "attr"

\* An ordering expression that is no attribute gets a Project of its own.
resolveOrderBy(input, order, limit) ==
    IF order = <<>> THEN input
    ELSE Sort(Precomputed(input, SelectSeq(order, LAMBDA o : o[2][1] # "attr")),
              [i \in 1..Len(order) |-> IF order[i][2][1] = "attr" THEN order[i][2][2] ELSE order[i][1]],
              limit)

PrecomputedItems(s, after) ==
    LET places == SetToSortSeq({i \in 1..Len(s.list) : IsPrecomputed(s, i, after)}, <)
    IN  [k \in 1..Len(places) |-> s.list[places[k]]]

resolveWindow(input, window) ==
    IF window = <<>> THEN input
    ELSE WindowAggregate(resolveSortInWindow(input, window[2]), window[1], window[2])

resolveAggregate(input, s) ==
    IF s.aggs # <<>> \/ s.groups # <<>> \/ s.having # <<>>
    THEN Precomputed(Aggregate(input, s.groups, s.aggs), PrecomputedItems(s, TRUE)) ELSE input

MaybeFilter(input, conjuncts) == IF conjuncts = <<>> THEN input ELSE Filter(input, conjuncts)

resolveSelect(s) ==
    LET from == MaybeFilter(resolveFromClause(s.from), s.where)
        before == Precomputed(resolveWindow(from, s.window), PrecomputedItems(s, FALSE))
        having == MaybeFilter(resolveAggregate(before, s), s.having)
    IN  Project(resolveOrderBy(having, s.order, s.limit),
                [i \in 1..Len(s.list) |->
                   IF \E after \in BOOLEAN : IsPrecomputed(s, i, after) THEN ToRef(s.list[i]) ELSE s.list[i]])

-------------------------------------------------------------------------------
(* The rules *)

HasNode(p, op) == \E n \in Nodes(p) : n.op = op

\* A DCHECK has failed, or the query is refused with an error.
Stopped == HasNode(plan, "broken") \/ HasNode(plan, "refused")

\* OptimizerContext::has_nested_queries().
RECURSIVE HasQuery(_)
HasQuery(e) == e[1] = "query" \/ (e[1] = "flip" /\ HasQuery(e[2]))

has_nested_queries(p) ==
    \E n \in Nodes(p) :
        \/ /\ n.op \in {"filter", "hashjoin"}
           /\ \E i \in 1..Len(n.preds) :
                 LET c == n.preds[i] IN c[1] # "cmp" \/ HasQuery(c[3]) \/ HasQuery(c[4])
        \/ /\ n.op = "project"
           /\ \E i \in 1..Len(n.list) : HasQuery(n.list[i][2])

Init ==
    /\ query \in Queries
    /\ plan = TopLevelPlan(query)
    /\ step = IF has_nested_queries(query) THEN "UnnestSubqueries" ELSE "PushDownSemiAntiJoin"

\* One of the rules of the list, and the next.
Apply(at, next, new) ==
    /\ step = at
    /\ ~Stopped
    /\ plan' = new
    /\ step' = next
    /\ UNCHANGED query

ApplyUnnestSubqueries ==
    Apply("UnnestSubqueries", "PushDownSemiAntiJoin", TopLevelPlan(Unnested(query)))

ApplyPushDownSemiAntiJoin ==
    Apply("PushDownSemiAntiJoin", "PushDownFilter", TopDown("PushDownSemiAntiJoin", plan))

ApplyPushDownFilter ==
    Apply("PushDownFilter", "GenerateJoins", TopDown("PushDownFilter", plan))

ApplyGenerateJoins ==
    Apply("GenerateJoins", "PushDownFilterAgain", TopDown("GenerateJoins", plan))

ApplyPushDownFilterAgain ==
    Apply("PushDownFilterAgain", "CollapseProject", TopDown("PushDownFilter", plan))

ApplyCollapseProject ==
    Apply("CollapseProject", "Done", BottomUp("CollapseProject", plan))

Next ==
    \/ ApplyUnnestSubqueries
    \/ ApplyPushDownSemiAntiJoin
    \/ ApplyPushDownFilter
    \/ ApplyGenerateJoins
    \/ ApplyPushDownFilterAgain
    \/ ApplyCollapseProject

Spec == Init /\ [][Next]_vars

-------------------------------------------------------------------------------
(* Properties *)

\* Validator.hpp: the attributes a node uses are those of its children.
Validate(p) ==
    \A n \in Nodes(p) : Uses(n) \subseteq UNION {getOutputAttributes(n.kids[i]) : i \in 1..Len(n.kids)}

\* A rule that changes the plan leaves what it yields as it was, whatever is in
\* the tables (applyToNode() of the five rules, applyInternal() of UnnestSubqueries).
MeaningPreserved ==
    [][plan' # plan /\ ~Stopped' /\ Validate(plan) /\ Validate(plan') =>
         \A db \in Databases(query) : SameRows(Yields(plan', db, <<>>), Yields(plan, db, <<>>))]_vars

\* After each rule, and not only the last, Validate() finds no dangling
\* attribute reference.
NoDanglingReference == Stopped \/ Validate(plan)

\* No DCHECK fails: copyWithNewChildren() gets as many children as there
\* were, a hash join has attributes or a predicate, and the loop of
\* GenerateJoins that adds nested loops joins ends.
NoAssertionFails == ~HasNode(plan, "broken")

\* GenerateJoins leaves no product, and every hash join has attributes to
\* join on, each from the side it is listed for.
JoinsComplete ==
    ~Stopped /\ step \in {"PushDownFilterAgain", "CollapseProject", "Done"} =>
        /\ ~HasNode(plan, "cartesian")
        /\ \A n \in Nodes(plan) :
              n.op = "hashjoin" =>
                  /\ Len(n.left) = Len(n.right) /\ n.left # <<>>
                  /\ Range(n.left) \subseteq getOutputAttributes(n.kids[1])
                  /\ Range(n.right) \subseteq getOutputAttributes(n.kids[2])

\* After every rule the plan is one the next rule and the physical generator
\* can take: no failed assertion, no dangling reference, no incomplete join.
PlansValid == NoAssertionFails /\ NoDanglingReference /\ JoinsComplete

===============================================================================
