---------------------------- MODULE ServiceGraph ----------------------------
(***************************************************************************)
(* Graphs of services: an edge <<s, t>> says that s depends on t.          *)
(***************************************************************************)
CONSTANT Services

Edges == Services \X Services

Targets(graph, s) == {t \in Services : <<s, t>> \in graph}

Closed(graph, s, C) ==
    Targets(graph, s) \subseteq C /\ \A c \in C : Targets(graph, c) \subseteq C

\* The services that s depends on, directly or not: the least closed set.  It
\* holds s itself only when s is on a cycle.
Downstream(graph, s) ==
    {t \in Services : \A C \in SUBSET Services : Closed(graph, s, C) => t \in C}
============================================================================
