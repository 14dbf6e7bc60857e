----------------------------- MODULE LogicalPlans ------------------------------
(***************************************************************************)
(* The logical plans of the optimizer and what they mean.                  *)
(*                                                                         *)
(* A plan is a tree: every node has an operator and its children.  An      *)
(* attribute is its ExprId, which no two columns of a plan share.  A row is *)
(* a function from attributes to values, and what a plan yields is a        *)
(* sequence of rows, of which only LIMIT looks at the order.                *)
(*                                                                         *)
(* A scalar is <<"attr", a>>, <<"outer", a>> for an attribute of the query  *)
(* around a subquery, <<"lit", v>>, <<"flip", e>> for some function of e,   *)
(* or <<"query", plan>>.  A predicate is a sequence of conjuncts, each      *)
(* <<"cmp", op, left, right>>, or <<"exists", plan>>, <<"in", e, plan>> and *)
(* their negations <<"notexists", plan>>, <<"notin", e, plan>>.             *)
(***************************************************************************)
EXTENDS Integers, FiniteSetsExt, SequencesExt, TLC

CONSTANT Columns    \* the attributes of each table

NULL == -1
NoLimit == -1

-------------------------------------------------------------------------------
(* The nodes *)

TableReference(name) == [op |-> "table", kids |-> <<>>, name |-> name]

\* A Filter upon a Filter becomes one.
Filter(input, preds) ==
    IF input.op = "filter"
    THEN [op |-> "filter", kids |-> input.kids, preds |-> preds \o input.preds]
    ELSE [op |-> "filter", kids |-> <<input>>, preds |-> preds]

\* list: pairs of an attribute and the scalar it is the name of.
Project(input, list) == [op |-> "project", kids |-> <<input>>, list |-> list]

MultiwayCartesianJoin(inputs) == [op |-> "cartesian", kids |-> inputs]

HashJoin(left, right, left_attrs, right_attrs, residual, type) ==
    [op |-> "hashjoin", kids |-> <<left, right>>, left |-> left_attrs, right |-> right_attrs,
     preds |-> residual, type |-> type]

NestedLoopsJoin(left, right, preds) == [op |-> "nlj", kids |-> <<left, right>>, preds |-> preds]

\* aggs: triples of an attribute, a function and its argument.
Aggregate(input, groups, aggs) ==
    [op |-> "aggregate", kids |-> <<input>>, groups |-> groups, aggs |-> aggs]

\* The number of rows with the same value of `by'.
WindowAggregate(input, attr, by) ==
    [op |-> "window", kids |-> <<input>>, attr |-> attr, part |-> by]

Sort(input, by, limit) == [op |-> "sort", kids |-> <<input>>, by |-> by, limit |-> limit]

TopLevelPlan(plan) == [op |-> "top", kids |-> <<plan>>]

\* What is left of the query when a DCHECK fails, and when it is refused.
Broken == [op |-> "broken", kids |-> <<>>]
Refused == [op |-> "refused", kids |-> <<>>]

\* copyWithNewChildren(): as many as there were.
copyWithNewChildren(n, kids) ==
    IF Len(kids) # Len(n.kids) THEN Broken
    ELSE IF n.op = "filter" THEN Filter(kids[1], n.preds) ELSE [n EXCEPT !.kids = kids]

-------------------------------------------------------------------------------
(* Attributes *)

RECURSIVE AttrsOf(_)
AttrsOf(e) == CASE e[1] = "attr" -> {e[2]} [] e[1] = "flip" -> AttrsOf(e[2]) [] OTHER -> {}

\* The local attributes of a conjunct.
RefsOf(c) ==
    CASE c[1] = "cmp" -> AttrsOf(c[3]) \cup AttrsOf(c[4])
      [] c[1] \in {"in", "notin"} -> AttrsOf(c[2])
      [] OTHER -> {}

\* Those a semi- or anti-join outputs include the ones of its right input.
RECURSIVE getOutputAttributes(_)
getOutputAttributes(p) ==
    CASE p.op = "table" -> Columns[p.name]
      [] p.op = "project" -> {p.list[i][1] : i \in 1..Len(p.list)}
      [] p.op = "aggregate" -> Range(p.groups) \cup {p.aggs[i][1] : i \in 1..Len(p.aggs)}
      [] p.op = "window" -> getOutputAttributes(p.kids[1]) \cup {p.attr}
      [] OTHER -> UNION {getOutputAttributes(p.kids[i]) : i \in 1..Len(p.kids)}

\* The attributes a node uses.
Uses(p) ==
    CASE p.op \in {"filter", "nlj"} -> UNION {RefsOf(p.preds[i]) : i \in 1..Len(p.preds)}
      [] p.op = "hashjoin" -> UNION {RefsOf(p.preds[i]) : i \in 1..Len(p.preds)}
                              \cup Range(p.left) \cup Range(p.right)
      [] p.op = "project" -> UNION {AttrsOf(p.list[i][2]) : i \in 1..Len(p.list)}
      [] p.op = "aggregate" -> Range(p.groups) \cup {p.aggs[i][3] : i \in 1..Len(p.aggs)}
      [] p.op = "window" -> {p.part}
      [] p.op = "sort" -> Range(p.by)
      [] OTHER -> {}

RECURSIVE Nodes(_)
Nodes(p) == {p} \cup UNION {Nodes(p.kids[i]) : i \in 1..Len(p.kids)}

-------------------------------------------------------------------------------
(* What a plan yields *)

Compare(op, x, y) ==
    x # NULL /\ y # NULL /\ CASE op = "eq" -> x = y [] op = "lt" -> x < y [] op = "ne" -> x # y

Pairs(s, t) ==
    [k \in 1..(Len(s) * Len(t)) |-> s[((k - 1) \div Len(t)) + 1] @@ t[((k - 1) % Len(t)) + 1]]

\* NULLs last, ties by the other attributes.
Before(r, s, by) ==
    LET key == by \o SetToSeq(DOMAIN r \ Range(by))
        value(row, i) == IF row[key[i]] = NULL THEN 100 ELSE row[key[i]]
    IN  \E i \in 1..Len(key) :
            /\ value(r, i) < value(s, i)
            /\ \A j \in 1..(i - 1) : value(r, j) = value(s, j)

Aggregated(fn, values) ==
    IF fn = "count" THEN Len(values)
    ELSE LET known == Range(values) \ {NULL} IN IF known = {} THEN NULL ELSE Max(known)

RECURSIVE Yields(_, _, _)
RECURSIVE Value(_, _, _)

\* Several rows for a scalar are an error, which is told from every value.
Value(e, row, db) ==
    CASE e[1] \in {"attr", "outer"} -> row[e[2]]
      [] e[1] = "lit" -> e[2]
      [] e[1] = "flip" -> LET v == Value(e[2], row, db) IN IF v = NULL THEN NULL ELSE 1 - v
      [] e[1] = "query" ->
            LET s == Yields(e[2], db, row)
                first == e[2].list[1][1]
            IN  CASE Len(s) = 0 -> NULL [] Len(s) = 1 -> s[1][first] [] OTHER -> 99

Holds(c, row, db) ==
    LET rows == Yields(c[Len(c)], db, row)
        v == Value(c[2], row, db)
        first == c[3].list[1][1]
    IN  CASE c[1] = "cmp" -> Compare(c[2], Value(c[3], row, db), Value(c[4], row, db))
          [] c[1] = "exists" -> rows # <<>>
          [] c[1] = "notexists" -> rows = <<>>
          [] c[1] = "in" -> v # NULL /\ \E i \in 1..Len(rows) : rows[i][first] = v
          [] c[1] = "notin" -> \A i \in 1..Len(rows) : v # NULL /\ rows[i][first] \notin {v, NULL}

AllHold(preds, row, db) == \A i \in 1..Len(preds) : Holds(preds[i], row, db)

Matches(p, l, r, env, db) ==
    /\ \A i \in 1..Len(p.left) : l[p.left[i]] # NULL /\ l[p.left[i]] = r[p.right[i]]
    /\ AllHold(p.preds, l @@ r @@ env, db)

Joined(p, lefts, rights, env, db) ==
    LET mate(l) == SelectSeq(rights, LAMBDA r : Matches(p, l, r, env, db))
        nulls == [a \in getOutputAttributes(p.kids[2]) |-> NULL]
        row(l) == CASE p.type = "inner" -> Pairs(<<l>>, mate(l))
                    [] p.type = "semi" -> IF mate(l) = <<>> THEN <<>> ELSE <<l>>
                    [] p.type = "anti" -> IF mate(l) = <<>> THEN <<l>> ELSE <<>>
                    [] p.type = "outer" -> Pairs(<<l>>, IF mate(l) = <<>> THEN <<nulls>> ELSE mate(l))
    IN  FlattenSeq([i \in 1..Len(lefts) |-> row(lefts[i])])

Grouped(p, rows) ==
    LET keys == IF p.groups = <<>> THEN {<<>>}
                ELSE {[a \in Range(p.groups) |-> rows[i][a]] : i \in 1..Len(rows)}
        member(key) == SelectSeq(rows, LAMBDA r : \A a \in DOMAIN key : r[a] = key[a])
        row(key) == [a \in getOutputAttributes(p) |->
                       IF a \in Range(p.groups) THEN key[a]
                       ELSE LET agg == p.aggs[CHOOSE i \in 1..Len(p.aggs) : p.aggs[i][1] = a]
                                s == member(key)
                            IN  Aggregated(agg[2], [i \in 1..Len(s) |-> s[i][agg[3]]])]
    IN  SetToSeq({row(key) : key \in keys})

Yields(p, db, env) ==
    LET s == Yields(p.kids[1], db, env)
    IN  CASE p.op = "table" -> db[p.name]
          [] p.op = "top" -> s
          [] p.op = "filter" -> SelectSeq(s, LAMBDA r : AllHold(p.preds, r @@ env, db))
          [] p.op = "project" ->
                [i \in 1..Len(s) |->
                   [a \in getOutputAttributes(p) |->
                      Value(p.list[CHOOSE k \in 1..Len(p.list) : p.list[k][1] = a][2], s[i] @@ env, db)]]
          [] p.op = "cartesian" ->
                FoldLeft(Pairs, s, [i \in 1..(Len(p.kids) - 1) |-> Yields(p.kids[i + 1], db, env)])
          [] p.op = "nlj" -> SelectSeq(Pairs(s, Yields(p.kids[2], db, env)),
                                       LAMBDA r : AllHold(p.preds, r @@ env, db))
          [] p.op = "hashjoin" -> Joined(p, s, Yields(p.kids[2], db, env), env, db)
          [] p.op = "aggregate" -> Grouped(p, s)
          [] p.op = "window" ->
                [i \in 1..Len(s) |->
                   s[i] @@ (p.attr :> Cardinality({j \in 1..Len(s) : s[j][p.part] = s[i][p.part]}))]
          [] p.op = "sort" ->
                LET sorted == SortSeq(s, LAMBDA r, q : Before(r, q, p.by))
                IN  IF p.limit = NoLimit THEN sorted ELSE SubSeq(sorted, 1, Min({p.limit, Len(s)}))

SameRows(s, t) ==
    /\ Len(s) = Len(t)
    /\ \A r \in Range(s) : Cardinality({i \in 1..Len(s) : s[i] = r})
                             = Cardinality({i \in 1..Len(t) : t[i] = r})

===============================================================================
