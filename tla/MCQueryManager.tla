-------------------------- MODULE MCQueryManager --------------------------
(* The query plans the model checker runs QueryManager on. *)
EXTENDS QueryManager

CONSTANTS
    Family,     \* which plans: "all", "hash join" or "LIP"
    MaxStored,  \* bound: work orders an operator generates on its own
    MaxRounds   \* bound: work orders it generates on feedback

\* The least plan with these links: streaming producers have an output
\* relation, and an operator fed by two relations tells them apart.
MakePlan(links, breakers, dest, checks, stored, rounds) ==
    LET out == dest \cup {o \in Ops : \E d \in Ops : <<o, d>> \in links \ breakers}
    IN  [links |-> links, breakers |-> breakers, dest |-> dest, output |-> out,
         checks |-> checks,
         perRel |-> {o \in Ops : Cardinality({i \in out : <<i, o>> \in links}) > 1},
         stored |-> stored, rounds |-> rounds]

Edges == {l \in Ops \X Ops : l[1] < l[2]}

\* A link <<i, k>> is redundant when k is also reached from i through another
\* operator j.
Redundant(links) ==
    {l \in links : \E j \in Ops : <<l[1], j>> \in links /\ <<j, l[2]>> \in links}

\* Operators that stream their input read no stored relation.
StoredFor(links, breakers, limit) ==
    {s \in [Ops -> 0 .. limit] : \A l \in links \ breakers : s[l[2]] = 0}

\* The operators with blocking dependencies: all of them test
\* blocking_dependencies_met_, or (with checks = {}) none does.
Waiting(breakers) == {o \in Ops : \E i \in Ops : <<i, o>> \in breakers}

\* Every DAG without redundant links, pipelined or blocking at will.
ReducedPlans(limit) ==
    UNION {UNION {
        {MakePlan(links, br, dest, ch, st, Zero) :
            dest \in SUBSET Ops, ch \in {{}, Waiting(br)}, st \in StoredFor(links, br, limit)}
        : br \in SUBSET links} : links \in {e \in SUBSET Edges : Redundant(e) = {}}}

\* Two operators, linked or not, of which at least one generates further work on
\* feedback; the other operators have nothing to do.  Feedback is asked for only
\* by operators with work of their own.
Pairs(f) == {s \in f : \A o \in Ops \ {0, 1} : s[o] = 0}
FeedbackPlans ==
    UNION {UNION {UNION {
        {MakePlan(links, br, dest, ch, st, r) :
            dest \in SUBSET {0, 1}, ch \in {{}, Waiting(br)},
            r \in {f \in Pairs([Ops -> 0 .. MaxRounds]) :
                     /\ \E o \in Ops : f[o] > 0
                     /\ \A o \in Ops : f[o] > 0 => st[o] > 0}}
        : st \in Pairs(StoredFor(links, br, MaxStored))} : br \in SUBSET links}
        : links \in SUBSET {<<0, 1>>}}

\* A hash join over a build relation computed by the query, as
\* ExecutionGenerator::convertHashJoin links it: 0 produces the build relation,
\* 1 builds the hash table, 2 probes a stored relation, 3 destroys the table.
\* The link from 0 to 2 is redundant.
HashJoinPlans ==
    {MakePlan({<<0, 1>>, <<0, 2>>, <<1, 2>>, <<2, 3>>},
              {<<0, 2>>, <<1, 2>>, <<2, 3>>}, {0, 2}, {2, 3},
              [Zero EXCEPT ![0] = a, ![2] = b, ![3] = 1],
              Zero) : a, b \in 0 .. MaxStored}

\* A hash join with a LIP filter, which LIPFilterGenerator adds afterwards: 0
\* selects from the probe relation, 1 from the (filtered) build relation, 2
\* builds the hash table and the filter, 3 joins, 4 destroys the table.  The
\* filter makes 0 wait for 2, against the order of the indexes.
LIPPlans ==
    {MakePlan({<<1, 2>>, <<1, 3>>, <<0, 3>>, <<2, 3>>, <<3, 4>>, <<2, 0>>},
              {<<1, 3>>, <<2, 3>>, <<3, 4>>, <<2, 0>>}, {0, 1, 3}, {3, 4},
              [Zero EXCEPT ![0] = a, ![1] = b, ![4] = 1],
              Zero) : a, b \in 0 .. MaxStored}

MCPlans ==
    CASE Family = "all"       -> ReducedPlans(1) \cup FeedbackPlans
      [] Family = "hash join" -> HashJoinPlans
      [] Family = "LIP"       -> LIPPlans

\* The plans of the passing run meet the hypotheses of the theorems about it; the
\* two families whose queries end early or stall do not.
ASSUME FamilyShape ==
    LET shapes == {p.links : p \in MCPlans}
    IN  /\ Family = "all" => \A l \in shapes : Irredundant(l) /\ Upward(l)
        /\ Family = "hash join" => \A l \in shapes : ~Irredundant(l) /\ Upward(l)
        /\ Family = "LIP" => \A l \in shapes : ~Upward(l)
===========================================================================
