--------------------------- MODULE FallbackReport ---------------------------
(***************************************************************************)
(* The evidence of the deterministic fallback report: what the             *)
(* investigation cites from the timeline that correlation has built when   *)
(* the LLM cannot be used.  It is generated at any time from the incident  *)
(* as the database has it then, and changes nothing.                       *)
(***************************************************************************)
EXTENDS Correlation

InitialErrors(i) == {v \in incidents[i].events : v.kind = "INITIAL_ERROR"}

\* the events of an incident come ordered by timestamp
First_Unordered(S) == S   \* mutant: no order_by on the relationship
First(S) == {v \in S : \A w \in S : v.log.at <= w.log.at}

\* the first initial error, else the first event; one of these, on a tie
Cited(i) == First(IF InitialErrors(i) # {} THEN InitialErrors(i)
                  ELSE incidents[i].events)
----------------------------------------------------------------------------
\* Whatever was merged into an incident, its fallback report has an initial
\* error to cite, and one no later than the error the incident began with.
FallbackHasEvidence ==
    \A i \in DOMAIN incidents :
        /\ Cited(i) # {}
        /\ \A v \in Cited(i) : /\ v.kind = "INITIAL_ERROR"
                               /\ v.log.at <= incidents[i].started
============================================================================
