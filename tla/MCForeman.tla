----------------------------- MODULE MCForeman -----------------------------
(***************************************************************************)
(* The scheduler on three queries, for the model checker: the main thread  *)
(* waits for each request, as the command-line client does, or sends the   *)
(* requests one after another.                                             *)
(***************************************************************************)
EXTENDS Foreman, TLC

CONSTANTS
    a, b, c,   \* the queries
    Clients    \* the clients to check, of "patient" and "impatient"

VARIABLE client

\* a runs in two stages, the first of more work orders than the workers may be
\* given at once, b in one, c produces no work order.
ThreeStages == (a :> <<7, 1>>) @@ (b :> <<2>>) @@ (c :> <<>>)

\* The client asks for one query after the other.
OneByOne == <<<<a>>, <<c>>, <<b>>>>

\* Queries asked for while others execute; the one without work comes first.
Overlapping == <<<<c>>, <<a>>, <<b>>>>
TwoRounds == (a :> <<5, 1>>) @@ (b :> <<2>>) @@ (c :> <<>>)
Impatient == INSTANCE Foreman
    WITH Script <- Overlapping, Stages <- TwoRounds, Patient <- FALSE

\* Three queries in a single request.
InOneRequest == <<<<a, b, c>>>>

SuiteInit ==
    /\ client \in Clients
    /\ client = "patient" => Init
    /\ client = "impatient" => Impatient!Init

SuiteNext ==
    \/ client = "patient" /\ Next /\ UNCHANGED client
    \/ client = "impatient" /\ Impatient!Next /\ UNCHANGED client
    \* The impatient client has nothing more to ask for.
    \/ client = "impatient" /\ script = <<>> /\ UNCHANGED <<vars, client>>

\* The fairness of Foreman.
SuiteSpec ==
    /\ SuiteInit /\ [][SuiteNext]_<<vars, client>>
    /\ WF_vars(ForemanStep) /\ \A w \in Workers : WF_vars(executeWorkOrder(w))

-----------------------------------------------------------------------------
\* The client that waits is told of a completion once, and only when all it has
\* asked for has executed; every request of it is answered, and every query that
\* is asked for, by either client, is executed.
RequestsServed ==
    /\ [](client = "patient" => CompletionMeansExecuted)
    /\ client = "patient" /\ awaiting ~> signals > 0
    /\ EveryQueryExecutes
=============================================================================
