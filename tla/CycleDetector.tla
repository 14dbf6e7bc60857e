--------------------------- MODULE CycleDetector ---------------------------
(***************************************************************************)
(* StronglyConnectedComponents and CycleDetector: Tarjan's algorithm on    *)
(* the wait-for graph of the deadlock detector, and the choice of the      *)
(* transactions to kill in each component.  Adjacent nodes, components and *)
(* the nodes of a component come out of unordered containers, so that any  *)
(* order is possible; the recursion of depthFirstSearch() is kept as a     *)
(* stack of calls.                                                         *)
(***************************************************************************)
EXTENDS Integers, Sequences, FiniteSets
LOCAL INSTANCE SequencesExt
LOCAL INSTANCE Graphs

CONSTANTS
    N,              \* number of nodes, indexed 0 .. N - 1
    WaitForGraphs   \* the sets of edges to choose the wait-for graph from

Nodes == 0 .. N - 1

GraphsAssumption == N \in Nat /\ \A g \in WaitForGraphs : g \subseteq Nodes \X Nodes

VARIABLES
    edges,      \* the wait-for graph
    pc,         \* "scan", "dfs", "component", "start", "visit" or "done"
    marked, low, comp, counter, numComps,   \* as in the code
    traversal,  \* traversal_stack_, top last
    calls,      \* calls of depthFirstSearch(): node, adjacent nodes to come, min
    todo,       \* components chooseVictimsToBreakCycle() has yet to look at
    within,     \* nodes_set of chooseVictimsInComponent()
    visited,    \* visited and to_visit (top last) of hasCycle()
    toVisit,
    victims     \* nodes_to_kill

tarjan == <<marked, low, comp, counter, numComps, traversal, calls>>
search == <<within, visited, toVisit>>
vars == <<edges, pc, marked, low, comp, counter, numComps, traversal, calls, todo,
          within, visited, toVisit, victims>>

Adjacent(v) == {w \in Nodes : <<v, w>> \in edges}

Init ==
    /\ edges \in WaitForGraphs
    /\ pc = "scan"
    /\ marked = {} /\ low = [v \in Nodes |-> 0] /\ comp = [v \in Nodes |-> 0]
    /\ counter = 0 /\ numComps = 0
    /\ traversal = <<>> /\ calls = <<>>
    /\ todo = {} /\ within = {} /\ visited = {} /\ toVisit = <<>>
    /\ victims = {}

-----------------------------------------------------------------------------
(* StronglyConnectedComponents *)

\* The head of depthFirstSearch(v), called with the frames fs below.
Enter(v, fs) ==
    /\ marked' = marked \cup {v}
    /\ low' = [low EXCEPT ![v] = counter]
    /\ counter' = counter + 1
    /\ traversal' = Append(traversal, v)
    /\ calls' = Append(fs, [node |-> v, adj |-> Adjacent(v), min |-> counter])
    /\ UNCHANGED <<comp, numComps>>

\* getComponentMapping(), without the components of a single node.
Components == {c \in Nodes : Cardinality({v \in Nodes : comp[v] = c}) > 1}

\* One iteration of findStronglyConnectedComponents(), or its end.
scan ==
    /\ pc = "scan"
    /\ IF marked = Nodes
       THEN /\ pc' = "component"
            /\ todo' = Components
            /\ UNCHANGED tarjan
       ELSE /\ pc' = "dfs"
            /\ Enter(CHOOSE v \in Nodes \ marked : \A w \in Nodes \ marked : v <= w, <<>>)
            /\ todo' = todo
    /\ UNCHANGED <<edges, search, victims>>

\* The loop over the adjacent nodes: an unmarked one is searched first, and
\* looked at when that call has returned.
lookAt ==
    /\ pc = "dfs" /\ Last(calls).adj # {}
    /\ \E w \in Last(calls).adj :
         IF w \notin marked
         THEN Enter(w, calls)
         ELSE /\ calls' = Append(Front(calls),
                 [Last(calls) EXCEPT !.adj = @ \ {w},
                                     !.min = IF low[w] < @ THEN low[w] ELSE @])
              /\ UNCHANGED <<marked, low, comp, counter, numComps, traversal>>
    /\ UNCHANGED <<edges, pc, todo, search, victims>>

\* The nodes on the traversal stack from v to the top.
Above(v) == {traversal[i] : i \in {j \in DOMAIN traversal :
                              \E k \in 1 .. j : traversal[k] = v}}

\* Mutant: the low id of a popped node is not raised out of the way.
ReturnKeepsLow ==
    /\ pc = "dfs" /\ Last(calls).adj = {}
    /\ LET v == Last(calls).node
       IN  IF Last(calls).min < low[v]
           THEN /\ low' = [low EXCEPT ![v] = Last(calls).min]
                /\ UNCHANGED <<comp, numComps, traversal>>
           ELSE /\ comp' = [w \in Nodes |-> IF w \in Above(v) THEN numComps ELSE comp[w]]
                /\ low' = low
                /\ traversal' = SelectSeq(traversal, LAMBDA w : w \notin Above(v))
                /\ numComps' = numComps + 1
    /\ calls' = Front(calls)
    /\ pc' = IF calls' = <<>> THEN "scan" ELSE "dfs"
    /\ UNCHANGED <<edges, marked, counter, todo, search, victims>>

\* The end of depthFirstSearch(): v stays on the stack, or is the root of a
\* component, which is popped.
return ==
    /\ pc = "dfs" /\ Last(calls).adj = {}
    /\ LET v == Last(calls).node
       IN  IF Last(calls).min < low[v]
           THEN /\ low' = [low EXCEPT ![v] = Last(calls).min]
                /\ UNCHANGED <<comp, numComps, traversal>>
           ELSE /\ comp' = [w \in Nodes |-> IF w \in Above(v) THEN numComps ELSE comp[w]]
                /\ low' = [w \in Nodes |-> IF w \in Above(v) THEN N ELSE low[w]]
                /\ traversal' = SelectSeq(traversal, LAMBDA w : w \notin Above(v))
                /\ numComps' = numComps + 1
    /\ calls' = Front(calls)
    /\ pc' = IF calls' = <<>> THEN "scan" ELSE "dfs"
    /\ UNCHANGED <<edges, marked, counter, todo, search, victims>>

-----------------------------------------------------------------------------
(* CycleDetector *)

\* The next component of chooseVictimsToBreakCycle(), or its end.
nextComponent ==
    /\ pc = "component"
    /\ \/ /\ todo = {}
          /\ pc' = "done"
          /\ UNCHANGED <<todo, search>>
       \/ \E c \in todo :
            /\ todo' = todo \ {c}
            /\ within' = {v \in Nodes : comp[v] = c}
            /\ visited' = {} /\ toVisit' = <<>>
            /\ pc' = "start"
    /\ UNCHANGED <<edges, tarjan, victims>>

\* The outer loop of hasCycle(): an unvisited node is taken up, or there is none
\* left and the component is done.
start ==
    /\ pc = "start"
    /\ \/ /\ within \subseteq visited
          /\ pc' = "component"
          /\ toVisit' = toVisit
       \/ \E v \in within \ visited :
            /\ toVisit' = <<v>>
            /\ pc' = "visit"
    /\ UNCHANGED <<edges, tarjan, todo, within, visited, victims>>

\* A victim of the component (chooseVictim() takes the first of an unordered
\* set), and hasCycle() once more for the rest.
kill ==
    \E v \in within :
        /\ victims' = victims \cup {v}
        /\ within' = within \ {v}
        /\ visited' = {} /\ toVisit' = <<>>
        /\ pc' = "start"

\* The inner loop of hasCycle(): an adjacent node that was visited before is
\* taken for a cycle.
visit ==
    /\ pc = "visit"
    /\ IF toVisit = <<>>
       THEN /\ pc' = "start"
            /\ UNCHANGED <<search, victims>>
       ELSE LET v == Last(toVisit)
            IN  IF Adjacent(v) \cap (visited \cup {v}) # {}
                THEN kill
                ELSE /\ visited' = visited \cup {v}
                     /\ \E s \in SetToSeqs(Adjacent(v) \cap within) :
                          toVisit' = Front(toVisit) \o s
                     /\ UNCHANGED <<pc, within, victims>>
    /\ UNCHANGED <<edges, tarjan, todo>>

Done == pc = "done" /\ UNCHANGED vars

Next == scan \/ lookAt \/ return \/ nextComponent \/ start \/ visit \/ Done

\* The detector's thread runs the algorithm without waiting for anybody.
Spec == Init /\ [][Next]_vars /\ WF_vars(Next)

-----------------------------------------------------------------------------
(* Properties *)

Reaches == ConnectionsIn([node |-> Nodes, edge |-> edges])

\* The part of the graph on the nodes S has a cycle.
Cyclic(S) == HasCycle([node |-> S, edge |-> edges \cap (S \X S)])
(***************************************************************************)
(* The component ids are those of the strongly connected components,       *)
(* whatever the order in which adjacent nodes are searched.                *)
(***************************************************************************)
ComponentsExact ==
    pc = "component" =>
        LET reaches == Reaches
        IN  \A u, v \in Nodes : comp[u] = comp[v] <=> reaches[u, v] /\ reaches[v, u]

(***************************************************************************)
(* A node stays on the traversal stack only as long as it reaches the node *)
(* being searched or one below it on the stack: what is above the root of  *)
(* a component when it is popped belongs to the component.                 *)
(***************************************************************************)
StackConnected ==
    LET reaches == Reaches
    IN  \A i, j \in DOMAIN traversal : i < j => reaches[traversal[i], traversal[j]]

(***************************************************************************)
(* Every transaction to be killed waits, directly or not, for itself.      *)
(***************************************************************************)
VictimsDeadlocked ==
    LET reaches == Reaches
    IN  \A v \in victims : \E w \in Nodes \ {v} : reaches[v, w] /\ reaches[w, v]

(***************************************************************************)
(* Without the victims no two transactions wait for each other.            *)
(***************************************************************************)
CyclesBroken ==
    pc = "done" => LET rest == Nodes \ victims
                   IN  ~HasCycle([node |-> rest,
                                  edge |-> {e \in edges \cap (rest \X rest) : e[1] # e[2]}])

(***************************************************************************)
(* "Calculate which nodes should be killed to eliminate all cycles in the  *)
(* graph": what is left has no cycle at all.                               *)
(***************************************************************************)
AllCyclesBroken == pc = "done" => ~Cyclic(Nodes \ victims)

(***************************************************************************)
(* "If this adjacent node is a node we already visited, then there is a    *)
(* cycle": the nodes hasCycle() is called with have a cycle when it        *)
(* returns true and a victim is taken.                                     *)
(***************************************************************************)
VictimOnlyFromCycle ==
    [][victims' # victims => Cyclic(within)]_vars
=============================================================================
