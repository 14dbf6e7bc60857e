-------------------------- MODULE MCLogicalGenerator ---------------------------
(* Small tables and families of queries for LogicalGenerator. *)
EXTENDS LogicalGenerator

MCColumns == [r |-> {"a", "b"}, s |-> {"c", "d"}, t |-> {"e", "f"}, u |-> {"g"}]

r == TableReference("r")
s == TableReference("s")
t == TableReference("t")
u == TableReference("u")

-------------------------------------------------------------------------------
(* Tables: up to two rows, equal ones too, with NULLs in either column.  The
   order of the rows does not matter: a LIMIT sorts them on all columns. *)

Row(x, y, v, w) == (x :> v) @@ (y :> w)

Bags(rows) == {<<>>} \cup {<<rows[i]>> : i \in 1..Len(rows)}
                     \cup UNION {{<<rows[i], rows[j]>> : j \in i..Len(rows)} : i \in 1..Len(rows)}

KnownRows(x, y) == Bags(<<Row(x, y, 0, 1), Row(x, y, 1, 0), Row(x, y, 1, 1)>>)
SomeRows(x, y) == Bags(<<Row(x, y, 0, 1), Row(x, y, 1, 0), Row(x, y, NULL, 1), Row(x, y, 0, NULL)>>)

ManyDatabases(left, right) ==
    {[r |-> rows_r, s |-> rows_s, t |-> rows_t, u |-> <<>>] :
        rows_r \in left, rows_s \in right,
        rows_t \in {<<Row("e", "f", 1, 0)>>, <<Row("e", "f", 1, 0), Row("e", "f", 0, 1)>>}}

SomeDatabases == ManyDatabases(SomeRows("a", "b"), SomeRows("c", "d"))

\* NOT IN is compared where it is two-valued.
KnownDatabases == ManyDatabases(KnownRows("a", "b"), KnownRows("c", "d"))

MCDatabases(q) == IF has_nested_queries(q) THEN KnownDatabases ELSE SomeDatabases

-------------------------------------------------------------------------------
(* Parts of queries *)

attr(x) == <<"attr", x>>
outer(x) == <<"outer", x>>
lit(v) == <<"lit", v>>
flip(e) == <<"flip", e>>
cmp(op, x, y) == <<"cmp", op, x, y>>
eq(x, y) == cmp("eq", attr(x), attr(y))

Items(names) == [i \in 1..Len(names) |-> <<names[i], attr(names[i])>>]

\* At most two of these conjuncts, in either order.
UpToTwo(conjuncts) ==
    {<<>>} \cup {<<x>> : x \in conjuncts}
           \cup {p \in {<<x, y>> : x, y \in conjuncts} : p[1] # p[2]}

Select(from, where, list) == [NoClauses EXCEPT !.from = from, !.where = where, !.list = list]

-------------------------------------------------------------------------------
(* Joins of two and three tables, inner and outer, with predicates on one, two
   and three of them. *)

OnTwo == {eq("a", "c"), eq("d", "b"), cmp("lt", attr("a"), attr("d")), cmp("eq", attr("a"), lit(1)),
          cmp("ne", attr("d"), lit(0)), cmp("eq", lit(0), lit(0))}

OnThree == {eq("a", "c"), eq("e", "c"), eq("a", "f"), eq("f", "a"), cmp("ne", flip(attr("b")), attr("e"))}

LeftJoin(on) == resolveJoinedTableReference(r, s, "left", on)

JoinSelects ==
    {Select(<<r, s>>, where, <<<<"x", flip(attr("a"))>>, <<"d", attr("d")>>>>) : where \in UpToTwo(OnTwo)}
    \cup {Select(<<r, s, t>>, where, Items(<<"b", "d", "f">>)) : where \in UpToTwo(OnThree)}
    \cup {Select(<<r, s, t>>, <<eq("a", "c"), eq("e", "c")>> \o where, Items(<<"b", "d", "f">>)) :
            where \in UpToTwo({eq("f", "b"), eq("a", "e"), cmp("lt", attr("d"), attr("f"))})}
    \cup {Select(<<LeftJoin(on), t>>, where, Items(<<"a", "d", "e">>)) :
            on \in {<<eq("a", "c")>>, <<eq("c", "a"), cmp("eq", attr("d"), lit(1))>>},
            where \in UpToTwo({eq("a", "e"), cmp("eq", attr("d"), lit(0)), cmp("lt", attr("b"), attr("f"))})}
    \cup {Select(<<resolveJoinedTableReference(r, s, type, <<eq("a", "c")>>)>>, where, Items(<<"a", "d">>)) :
            type \in {"inner", "right"}, where \in UpToTwo(OnTwo)}

\* A subquery in FROM that computes, groups or sorts.
Views ==
    { resolveSelect(Select(<<r>>, <<cmp("eq", attr("b"), lit(1))>>, <<<<"x", flip(attr("a"))>>, <<"b", attr("b")>>>>)),
      resolveSelect([Select(<<r>>, <<>>, Items(<<"b", "x">>)) EXCEPT
                        !.groups = <<"b">>, !.aggs = <<<<"x", "count", "a">>>>,
                        !.having = <<cmp("eq", attr("x"), lit(1))>>]),
      resolveSelect([Select(<<r>>, <<>>, <<<<"b", attr("b")>>, <<"x", flip(attr("a"))>>>>) EXCEPT
                        !.order = <<<<"x", attr("x")>>, <<"y", flip(attr("b"))>>>>, !.referenced = {2}]) }

ViewSelects ==
    {Select(<<view>>, where, <<<<"z", flip(attr("x"))>>>>) :
        view \in Views, where \in UpToTwo({cmp("eq", attr("b"), lit(1)), cmp("eq", attr("x"), lit(0))})}
    \cup {Select(<<view, s>>, where, Items(<<"x", "d">>)) :
        view \in Views, where \in UpToTwo({eq("b", "c"), eq("x", "c"), cmp("ne", attr("b"), lit(0))})}
    \cup {[Select(<<r, s>>, <<eq("a", "c")>>, Items(<<"b", "y">>)) EXCEPT
              !.groups = <<"b">>, !.aggs = <<<<"y", "max", "d">>>>, !.having = having,
              !.order = <<<<"o", flip(attr("y"))>>, <<"b", attr("b")>>>>, !.limit = 1] :
            having \in UpToTwo({cmp("eq", attr("b"), lit(0)), cmp("eq", attr("y"), lit(1))})}

JoinQueries == {resolveSelect(q) : q \in JoinSelects \cup ViewSelects}

-------------------------------------------------------------------------------
(* Subqueries in WHERE and in the select list *)

\* SELECT c FROM s WHERE ...
Inner(where) == resolveSelect(Select(<<s>>, where, Items(<<"c">>)))

Largest(where) ==
    resolveSelect([Select(<<s>>, where, Items(<<"m">>)) EXCEPT !.aggs = <<<<"m", "max", "d">>>>])

Tests ==
    { <<"exists", Inner(<<cmp("eq", attr("c"), outer("a"))>>)>>,
      <<"exists", Inner(<<cmp("eq", outer("b"), attr("d")), cmp("lt", attr("c"), outer("a"))>>)>>,
      <<"notexists", Inner(<<cmp("eq", attr("c"), outer("a")), cmp("eq", attr("d"), lit(1))>>)>>,
      <<"notexists", Inner(<<cmp("eq", attr("d"), outer("a")), cmp("ne", flip(attr("c")), outer("b"))>>)>>,
      <<"in", attr("a"), Inner(<<>>)>>,
      <<"in", attr("a"), resolveSelect(Select(<<s>>, <<eq("c", "d")>>, <<<<"x", flip(outer("b"))>>>>))>>,
      <<"in", flip(attr("b")), Inner(<<cmp("eq", attr("d"), outer("a"))>>)>>,
      <<"notin", attr("a"), Inner(<<cmp("eq", attr("d"), lit(1))>>)>>,
      cmp("eq", attr("a"), <<"query", Largest(<<cmp("eq", attr("c"), outer("b"))>>)>>),
      cmp("lt", attr("a"), flip(<<"query", Largest(<<>>)>>)),
      cmp("eq", attr("b"), lit(0)) }

\* Two tests must not have the attributes of s twice.
OneTest(where) ==
    Cardinality({i \in 1..Len(where) : where[i][1] # "cmp" \/ HasQuery(where[i][4])}) = 1

NestedSelects ==
    {Select(from, where, Items(<<"a", "b">>)) :
        from \in {<<r>>, <<r, t>>, <<t, resolveSelect(Select(<<r>>, <<>>, Items(<<"a", "b">>)))>>,
                  <<resolveJoinedTableReference(r, t, "left", <<eq("b", "f")>>)>>},
        where \in {w \in UpToTwo(Tests) : OneTest(w)}}
    \cup {Select(<<r>>, where, <<<<"a", attr("a")>>, <<"x", flip(<<"query", Largest(<<>>)>>)>>>>) :
        where \in {<<>>, <<cmp("eq", attr("b"), lit(1))>>}}
    \* A subquery in a subquery.
    \cup {Select(<<t>>, <<<<"exists",
            resolveSelect(Select(<<r>>, <<cmp("eq", attr("b"), outer("e")), test>>, Items(<<"a">>)))>>>>, Items(<<"f">>)) :
        test \in {x \in Tests : OneTest(<<x>>)}}

NestedQueries == {resolveSelect(q) : q \in NestedSelects}

AllQueries == JoinQueries \cup NestedQueries

-------------------------------------------------------------------------------
(* Queries that one of the rules changes *)

\* SELECT b FROM (SELECT ... ) v WHERE b = 0
Restricted(view) == {resolveSelect(Select(<<resolveSelect(view)>>, <<cmp("eq", attr("b"), lit(0))>>, Items(<<"b">>)))}

LimitQueries ==
    Restricted([Select(<<r>>, <<>>, Items(<<"a", "b">>)) EXCEPT !.order = <<<<"a", attr("a")>>>>, !.limit = 1])

WindowQueries ==
    {resolveSelect(Select(<<resolveSelect([Select(<<r>>, <<>>, Items(<<"b", "w">>)) EXCEPT !.window = <<"w", "a">>])>>,
                          <<cmp("eq", attr("b"), lit(1))>>, Items(<<"w">>)))}

HavingQueries ==
    {resolveSelect([Select(<<r>>, <<>>, Items(<<"n">>)) EXCEPT
        !.aggs = <<<<"n", "count", "a">>>>, !.having = <<cmp("eq", lit(0), lit(1))>>])}

\* SELECT a, d FROM r LEFT JOIN t ON a = e, (SELECT d FROM s) v WHERE d IN (SELECT g FROM u)
SemiBesideOuterQueries ==
    LET joined == resolveJoinedTableReference(r, t, "left", <<eq("a", "e")>>)
        view == resolveSelect(Select(<<s>>, <<>>, Items(<<"d">>)))
        test == <<"in", attr("d"), resolveSelect(Select(<<u>>, <<>>, Items(<<"g">>)))>>
    IN  {resolveSelect(Select(<<joined, view>>, <<test>>, Items(<<"a", "d">>)))}

OnRightQueries ==
    {resolveSelect(Select(<<LeftJoin(<<cmp("eq", attr("d"), lit(1))>>)>>, <<>>, Items(<<"a", "d">>)))}

\* SELECT a FROM r WHERE EXISTS (SELECT c FROM s LEFT JOIN t ON d = f AND c = a)
OuterOnQueries ==
    LET joined == resolveJoinedTableReference(s, t, "left", <<eq("d", "f"), cmp("eq", attr("c"), outer("a"))>>)
        test == <<"exists", resolveSelect(Select(<<joined>>, <<>>, Items(<<"c">>)))>>
    IN  {resolveSelect(Select(<<r>>, <<test>>, Items(<<"a">>)))}

\* SELECT a FROM r WHERE a = (SELECT c FROM s)
ScalarQueries ==
    {resolveSelect(Select(<<r>>, <<cmp("ne", attr("a"), <<"query", Inner(<<>>)>>)>>, Items(<<"a">>)))}

\* SELECT a, (SELECT MAX(d) FROM s WHERE c = a) FROM r
SelectListQueries ==
    {resolveSelect(Select(<<r>>, <<>>,
        <<<<"a", attr("a")>>, <<"x", <<"query", Largest(<<cmp("eq", attr("c"), outer("a"))>>)>>>>>>))}

===============================================================================
