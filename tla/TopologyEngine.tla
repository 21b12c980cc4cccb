--------------------------- MODULE TopologyEngine ---------------------------
(***************************************************************************)
(* The registration of dependencies together with the evaluations that use *)
(* them: each reads the table in a session, adds what it read to the one   *)
(* graph that the correlation engine keeps, and later searches that graph, *)
(* while registrations and other evaluations go on.                        *)
(***************************************************************************)
EXTENDS Topology

CONSTANT Evaluations   \* the evaluations that may be in progress at a time

VARIABLES
    graph,      \* the edges of _adj[tenant_id]
    eval,       \* [Evaluations -> the evaluation in progress]
    registered  \* history: the edges whose registration has succeeded

engineVars == <<rows, nextId, call, graph, eval, registered>>

NoEval == [pc |-> "idle"]

EngineInit == /\ Init
              /\ graph = {} /\ registered = {}
              /\ eval = [e \in Evaluations |-> NoEval]

\* a registration that returns its dependency to the client
Succeed(r) == /\ Insert(r) \/ Update(r)
              /\ registered' = registered \cup {call[r].edge}
              /\ UNCHANGED <<graph, eval>>

Proceed(r) == /\ \/ \E edge \in Dependencies, type \in Types : Register(r, edge, type)
                 \/ SelectRow(r) \/ Fail(r)
              /\ UNCHANGED <<graph, eval, registered>>

Stored == {row.edge : row \in rows}

\* get_dependencies; known is what clients have been told by then
ReadTable(e) ==
    /\ eval[e].pc = "idle"
    /\ eval' = [eval EXCEPT ![e] =
           [pc |-> "load", read |-> Stored, known |-> registered]]
    /\ UNCHANGED <<rows, nextId, call, graph, registered>>

Loaded_Rebuilt(edges, read) == read   \* mutant: replaces what others loaded
Loaded(edges, read) == edges \cup read

LoadGraph(e) ==
    /\ eval[e].pc = "load"
    /\ graph' = Loaded(graph, eval[e].read)
    /\ eval' = [eval EXCEPT ![e] = [pc |-> "search", known |-> eval[e].known]]
    /\ UNCHANGED <<rows, nextId, call, registered>>

\* the last search is done, or a session of the evaluation failed
EndEvaluation(e) ==
    /\ eval[e].pc # "idle"
    /\ eval' = [eval EXCEPT ![e] = NoEval]
    /\ UNCHANGED <<rows, nextId, call, graph, registered>>

EngineNext == \/ \E r \in Registrars : Succeed(r) \/ Proceed(r)
              \/ \E e \in Evaluations : ReadTable(e) \/ LoadGraph(e) \/ EndEvaluation(e)

EngineSpec == EngineInit /\ [][EngineNext]_engineVars
----------------------------------------------------------------------------
\* An evaluation that began after a registration succeeded searches a graph
\* with that dependency, whatever registrations raced and whichever older
\* reading another evaluation has loaded meanwhile.
SearchSeesRegistered ==
    \A e \in Evaluations : eval[e].pc = "search" => eval[e].known \subseteq graph
============================================================================
