-------------------------- MODULE DependencyGraph --------------------------
(***************************************************************************)
(* The in-memory dependency graph of one tenant and its breadth-first      *)
(* search for downstream services.  The targets of a service are a Python  *)
(* set, whose order is arbitrary.                                          *)
(***************************************************************************)
EXTENDS ServiceGraph, Naturals, Sequences

VARIABLES
    adj,      \* the edges of _adj[tenant_id]
    pc,       \* "idle" or "search"
    service,  \* the argument of get_downstream_services
    visited, queue,
    pending   \* the targets of curr that the inner loop has still to see

graphVars == <<adj, pc, service, visited, queue, pending>>
searchVars == <<pc, service, visited, queue, pending>>

GraphInit == /\ adj = {} /\ pc = "idle" /\ service \in Services
             /\ visited = {} /\ queue = <<>> /\ pending = {}

AddDependency(e) ==
    /\ pc = "idle"
    /\ adj' = adj \cup {e}
    /\ UNCHANGED searchVars

Search(s) ==
    /\ pc = "idle"
    /\ pc' = "search" /\ service' = s
    /\ visited' = {} /\ queue' = <<s>> /\ pending' = {}
    /\ UNCHANGED adj

PopService ==
    /\ pc = "search" /\ pending = {} /\ queue # <<>>
    /\ pending' = Targets(adj, Head(queue))
    /\ queue' = Tail(queue)
    /\ UNCHANGED <<adj, pc, service, visited>>

Fresh_SkipsStart(t) == t \notin visited \cup {service}   \* mutant
Fresh_NotQueued(t) == \A i \in DOMAIN queue : queue[i] # t   \* mutant
Fresh(t) == t \notin visited

VisitTarget(t) ==
    /\ pc = "search" /\ t \in pending
    /\ pending' = pending \ {t}
    /\ IF Fresh(t) THEN visited' = visited \cup {t} /\ queue' = Append(queue, t)
       ELSE UNCHANGED <<visited, queue>>
    /\ UNCHANGED <<adj, pc, service>>

Finished == pc = "search" /\ pending = {} /\ queue = <<>>

Return ==
    /\ Finished
    /\ pc' = "idle" /\ visited' = {}
    /\ UNCHANGED <<adj, service, queue, pending>>

GraphNext == \/ \E e \in Edges : AddDependency(e)
             \/ \E s \in Services : Search(s)
             \/ PopService
             \/ \E t \in Services : VisitTarget(t)
             \/ Return

GraphSpec == GraphInit /\ [][GraphNext]_graphVars

\* the search is one synchronous call
GraphFairSpec == GraphSpec /\ WF_graphVars(PopService \/ Return \/ \E t \in Services : VisitTarget(t))
----------------------------------------------------------------------------
\* The type invariant; no service is queued twice at a time.
GraphTypeOK ==
    /\ adj \subseteq Edges /\ pc \in {"idle", "search"} /\ service \in Services
    /\ visited \subseteq Services /\ pending \subseteq Services
    /\ queue \in Seq(Services)
    /\ \A i, j \in DOMAIN queue : queue[i] = queue[j] => i = j

\* Whatever the order of the sets, and on cyclic graphs too, the search returns
\* exactly the services downstream of its argument.
ReturnsDownstream == Finished => visited = Downstream(adj, service)

\* Every search returns, on cyclic graphs too.
SearchEnds == pc = "search" ~> pc = "idle"
============================================================================
