---------------------------- MODULE Correlation ----------------------------
(***************************************************************************)
(* Incident correlation for one tenant: evaluations that group error logs  *)
(* by trace and merge each trace into an active incident of a downstream   *)
(* service or open a new one, and operators who patch the status.  Every   *)
(* access to the database is a session of its own; between them the        *)
(* evaluation works on the incident objects it read first.                 *)
(***************************************************************************)
EXTENDS ServiceGraph, Naturals, Sequences, FiniteSets, FiniteSetsExt

CONSTANTS
    Traces,       \* trace ids; a log without one is a trace of its own
    Logs,         \* what is indexed: trace, service, level, status, time
    Dependencies, \* the registered edges, loaded by every evaluation
    Evaluators, Operators,  \* concurrent POST /evaluate and PATCH /status
    Window,       \* max_time_diff_seconds
    Lookback,     \* lookback_seconds
    FetchLimit,   \* limit of get_error_logs
    Instants,     \* bound: the moments at which something may happen
    MaxRuns, MaxPatches   \* bounds: evaluations, patches

Levels == {"DEBUG", "INFO", "WARN", "ERROR", "FATAL"}   \* LogLevel

ASSUME CorrelationAssumption ==
    /\ Logs \subseteq [trace : Traces, service : Services, level : Levels,
                       status : Nat, at : Nat]
    /\ IsFiniteSet(Logs)
    /\ Dependencies \subseteq Edges
    /\ Instants \subseteq Nat
    /\ {Window, Lookback, FetchLimit, MaxRuns, MaxPatches} \subseteq Nat

VARIABLES
    incidents,  \* the tables incidents and incident_events, by insertion
    clock,
    eval,       \* [Evaluators -> the evaluation in progress]
    patch,      \* [Operators -> the status update in progress]
    runs, patches,
    overlap     \* history: two requests have been in progress at a time

vars == <<incidents, clock, eval, patch, runs, patches, overlap>>

Statuses == {"DETECTED", "INVESTIGATING", "MITIGATED", "RESOLVED"}
ActiveStatuses == {"DETECTED", "INVESTIGATING"}
Kinds == {"INITIAL_ERROR", "CASCADING_ERROR"}
Event == [log : Logs, run : Nat, kind : Kinds]   \* run keeps its id unique

IdleEval == [pc |-> "idle"]
IdlePatch == [pc |-> "idle"]

Init == /\ incidents = <<>> /\ clock = 0
        /\ eval = [e \in Evaluators |-> IdleEval]
        /\ patch = [o \in Operators |-> IdlePatch]
        /\ runs = 0 /\ patches = 0 /\ overlap = FALSE

\* time passes between any two sessions
Tick == /\ \E t \in Instants : t > clock /\ clock' = t
        /\ UNCHANGED <<incidents, eval, patch, runs, patches, overlap>>

Busy == \/ \E e \in Evaluators : eval[e].pc # "idle"
        \/ \E o \in Operators : patch[o].pc # "idle"
----------------------------------------------------------------------------
(***************************************************************************)
(* evaluate_tenant and correlate_logs                                      *)
(***************************************************************************)
Matching(spiked) ==
    {l \in Logs : /\ l.service \in spiked /\ l.level \in {"ERROR", "FATAL"}
                  /\ l.at <= clock /\ clock <= l.at + Lookback}

\* the query names no order, so a full page is any FetchLimit of the hits
ErrorLogs(spiked) ==
    IF Cardinality(Matching(spiked)) <= FetchLimit THEN {Matching(spiked)}
    ELSE kSubset(FetchLimit, Matching(spiked))

\* the detector reported some services; without error logs nothing follows
Evaluate(e, spiked) ==
    /\ eval[e].pc = "idle" /\ runs < MaxRuns
    /\ \E logs \in ErrorLogs(spiked) :
        /\ logs # {}
        /\ eval' = [eval EXCEPT ![e] =
               [pc |-> "detected", run |-> runs, logs |-> logs, active |-> {},
                todo |-> {l.trace : l \in logs}]]
    /\ runs' = runs + 1 /\ overlap' = (overlap \/ Busy)
    /\ UNCHANGED <<incidents, clock, patch, patches>>

\* an incident object as the evaluation holds it; rank gives the order of
\* all_active: DETECTED, then INVESTIGATING, then what it opened itself
Object(i, rank) ==
    [id |-> i, rank |-> rank, status |-> incidents[i].status,
     resolved |-> incidents[i].resolved, started |-> incidents[i].started,
     trigger |-> incidents[i].trigger, services |-> incidents[i].services]

Listed(status, rank) ==
    {Object(i, rank) : i \in {j \in DOMAIN incidents : incidents[j].status = status}}

ListDetected(e) ==
    /\ eval[e].pc = "detected"
    /\ eval' = [eval EXCEPT ![e].pc = "investigating",
                            ![e].active = Listed("DETECTED", 1)]
    /\ UNCHANGED <<incidents, clock, patch, runs, patches, overlap>>

ListInvestigating(e) ==
    /\ eval[e].pc = "investigating"
    /\ eval' = [eval EXCEPT ![e].pc = "traces",
                            ![e].active = @ \cup Listed("INVESTIGATING", 2)]
    /\ UNCHANGED <<incidents, clock, patch, runs, patches, overlap>>

\* newest first within a list; opened incidents in the order they were opened
Before(x, y) == \/ x.rank < y.rank
                \/ x.rank = y.rank /\ x.rank = 3 /\ x.id < y.id
                \/ x.rank = y.rank /\ x.rank # 3 /\ x.started > y.started

Recent(started) == clock <= started + Window /\ started <= clock + Window

\* get_downstream_services
DependsOn == [s \in Services |-> Downstream(Dependencies, s)]

IsSymptom_Reversed(service, trigger) == service \in DependsOn[trigger]   \* mutant
IsSymptom(service, trigger) == trigger \in DependsOn[service]

Candidates(e, service) ==
    {x \in eval[e].active : /\ x.status \in ActiveStatuses
                            /\ IsSymptom(service, x.trigger)
                            /\ Recent(x.started)}

\* the trace of a log that has none is its own
Abnormal(S) == {l \in S : l.level \in {"ERROR", "FATAL"} \/ l.status >= 500}
Sequenced(S) == IF Abnormal(S) = {} THEN S ELSE Abnormal(S)
TraceLogs(e, t) == Sequenced({l \in eval[e].logs : l.trace = t})

Earliest_Unsorted(S) == S   \* mutant: takes the hits as they come
Earliest(S) == {l \in S : \A k \in S : l.at <= k.at}
Affected_RootOnly(S, first) == {first.service}   \* mutant
Affected(S, first) == {l.service : l \in S}

EventsOf_RootOnly(S, first, run) ==   \* mutant: forgets the cascading events
    {[log |-> first, run |-> run, kind |-> "INITIAL_ERROR"]}
EventsOf_SameIds(S, first, run) ==   \* mutant: event ids are not fresh
    {[log |-> l, run |-> 0, kind |-> "CASCADING_ERROR"] : l \in S}
EventsOf(S, first, run) ==
    {[log |-> l, run |-> run,
      kind |-> IF l = first THEN "INITIAL_ERROR" ELSE "CASCADING_ERROR"] : l \in S}

Remembered_Not(active, x) == active   \* mutant: all_active.append(saved) missing
Remembered(active, x) == active \cup {x}

\* no active incident downstream: save_incident inserts a new one
OpenIncident(e, t) ==
    /\ eval[e].pc = "traces" /\ t \in eval[e].todo
    /\ \E first \in Earliest(TraceLogs(e, t)) :
        LET S   == TraceLogs(e, t)
            row == [status |-> "DETECTED", resolved |-> FALSE, started |-> first.at,
                    trigger |-> first.service, services |-> Affected(S, first),
                    events |-> EventsOf(S, first, eval[e].run)]
            x   == [id |-> Len(incidents) + 1, rank |-> 3, status |-> row.status,
                    resolved |-> FALSE, started |-> row.started,
                    trigger |-> row.trigger, services |-> row.services]
        IN  /\ Candidates(e, first.service) = {}
            /\ incidents' = Append(incidents, row)
            /\ eval' = [eval EXCEPT ![e].todo = @ \ {t},
                                    ![e].active = Remembered(@, x)]
    /\ UNCHANGED <<clock, patch, runs, patches, overlap>>

\* the first active incident downstream takes the trace; save_incident has
\* selected its row
MergeTrace(e, t) ==
    /\ eval[e].pc = "traces" /\ t \in eval[e].todo
    /\ \E first \in Earliest(TraceLogs(e, t)) :
       \E x \in Candidates(e, first.service) :
        LET S == TraceLogs(e, t)
            y == [x EXCEPT !.services = @ \cup Affected(S, first)]
        IN  /\ \A z \in Candidates(e, first.service) : ~ Before(z, x)
            /\ eval' = [eval EXCEPT ![e] =
                   [pc |-> "save", run |-> eval[e].run, logs |-> eval[e].logs,
                    todo |-> eval[e].todo \ {t},
                    active |-> (eval[e].active \ {x}) \cup {y},
                    object |-> y, loaded |-> incidents[x.id],
                    events |-> EventsOf(S, first, eval[e].run)]]
    /\ UNCHANGED <<incidents, clock, patch, runs, patches, overlap>>

\* a session writes the columns that differ from the row it loaded
Column(object, loaded, stored) == IF object = loaded THEN stored ELSE object

Timeline_Replaced(stored, new) == new   \* mutant: assigns the new events
Timeline(stored, new) == stored \cup new

SaveMerged(e) ==
    /\ eval[e].pc = "save"
    /\ LET x == eval[e].object
           l == eval[e].loaded
           s == incidents[x.id]
       IN  incidents' = [incidents EXCEPT ![x.id] =
               [status   |-> Column(x.status, l.status, s.status),
                resolved |-> Column(x.resolved, l.resolved, s.resolved),
                started  |-> s.started, trigger |-> s.trigger,
                services |-> Column(x.services, l.services, s.services),
                events   |-> Timeline(s.events, eval[e].events)]]
    /\ eval' = [eval EXCEPT ![e] =
           [pc |-> "traces", run |-> eval[e].run, logs |-> eval[e].logs,
            todo |-> eval[e].todo, active |-> eval[e].active]]
    /\ UNCHANGED <<clock, patch, runs, patches, overlap>>

\* the loop over the traces is done
Finish(e) ==
    /\ eval[e].pc = "traces" /\ eval[e].todo = {}
    /\ eval' = [eval EXCEPT ![e] = IdleEval]
    /\ UNCHANGED <<incidents, clock, patch, runs, patches, overlap>>

\* a session fails: the request ends where it is
Abort(e) ==
    /\ \/ eval[e].pc \in {"detected", "investigating", "save"}
       \/ eval[e].pc = "traces" /\ eval[e].todo # {}
    /\ eval' = [eval EXCEPT ![e] = IdleEval]
    /\ UNCHANGED <<incidents, clock, patch, runs, patches, overlap>>
----------------------------------------------------------------------------
(***************************************************************************)
(* update_incident_status: one session that selects, then writes           *)
(***************************************************************************)
SelectStatus(o, i, status) ==
    /\ patch[o].pc = "idle" /\ patches < MaxPatches
    /\ patch' = [patch EXCEPT ![o] =
           [pc |-> "write", id |-> i, status |-> status,
            was |-> incidents[i].status, resolved |-> incidents[i].resolved]]
    /\ patches' = patches + 1 /\ overlap' = (overlap \/ Busy)
    /\ UNCHANGED <<incidents, clock, eval, runs>>

WriteStatus(o) ==
    /\ patch[o].pc = "write"
    /\ LET p == patch[o]
       IN  incidents' = [incidents EXCEPT
               ![p.id].status = Column(p.status, p.was, @),
               ![p.id].resolved =
                   @ \/ (p.status = "RESOLVED" /\ ~ p.resolved)]
    /\ patch' = [patch EXCEPT ![o] = IdlePatch]
    /\ UNCHANGED <<clock, eval, runs, patches, overlap>>
----------------------------------------------------------------------------
EvalStep(e) ==
    \/ \E spiked \in SUBSET Services : Evaluate(e, spiked)
    \/ ListDetected(e) \/ ListInvestigating(e)
    \/ \E t \in Traces : OpenIncident(e, t) \/ MergeTrace(e, t)
    \/ SaveMerged(e) \/ Finish(e) \/ Abort(e)

PatchStep(o) ==
    \/ \E i \in DOMAIN incidents, status \in Statuses : SelectStatus(o, i, status)
    \/ WriteStatus(o)

Next == \/ Tick
        \/ \E e \in Evaluators : EvalStep(e)
        \/ \E o \in Operators : PatchStep(o)

Spec == Init /\ [][Next]_vars
----------------------------------------------------------------------------
\* The type invariant of the tables and of the requests in progress; an event
\* belongs to one incident.
TypeOK ==
    /\ \A i \in DOMAIN incidents :
        /\ incidents[i].status \in Statuses /\ incidents[i].resolved \in BOOLEAN
        /\ incidents[i].started \in Nat /\ incidents[i].trigger \in Services
        /\ incidents[i].services \subseteq Services
        /\ incidents[i].events \subseteq Event
    /\ \A i, j \in DOMAIN incidents :
        i # j => incidents[i].events \cap incidents[j].events = {}
    /\ \A e \in Evaluators : eval[e].pc # "idle" =>
        /\ eval[e].run \in Nat /\ eval[e].logs \subseteq Logs
        /\ eval[e].todo \subseteq Traces
        /\ \A x \in eval[e].active : x.id \in DOMAIN incidents
    /\ \A o \in Operators : patch[o].pc # "idle" => patch[o].id \in DOMAIN incidents
    /\ runs \in 0..MaxRuns /\ patches \in 0..MaxPatches
    /\ clock \in {0} \cup Instants /\ overlap \in BOOLEAN

Recorded(l, run) == \E i \in DOMAIN incidents : \E v \in incidents[i].events :
                        v.log = l /\ v.run = run

\* The logs of an evaluation that are not yet in any timeline.
Unsaved(e) == {l \in eval[e].logs : ~ Recorded(l, eval[e].run)}

\* However evaluations and patches interleave, no error log is dropped: what
\* an evaluation fetched is in a timeline, in the session being written or in
\* a trace still to come.
TimelineComplete ==
    \A e \in Evaluators : eval[e].pc # "idle" =>
        \A l \in Unsaved(e) :
            \/ l.trace \in eval[e].todo
            \/ eval[e].pc = "save" /\ \E v \in eval[e].events : v.log = l

\* No step, stale object or not, takes an incident or an event away.
HistoryKept ==
    [][/\ Len(incidents') >= Len(incidents)
       /\ \A i \in DOMAIN incidents :
              incidents[i].events \subseteq incidents'[i].events]_vars

\* As long as requests did not overlap, an incident names every service of its
\* timeline among the affected ones.
AffectedCovered == ~ overlap =>
    \A i \in DOMAIN incidents :
        {v.log.service : v \in incidents[i].events} \subseteq incidents[i].services

\* Every trace in a timeline began at the service that triggered the incident
\* or at one that depends on it, directly or not.
SymptomsUpstream ==
    \A i \in DOMAIN incidents : \A v \in incidents[i].events :
        v.kind = "INITIAL_ERROR" =>
            \/ v.log.service = incidents[i].trigger
            \/ incidents[i].trigger \in DependsOn[v.log.service]

\* As long as requests did not overlap, no incident is opened for a symptom of
\* one that is active and recent.
SymptomsSuppressed ==
    [][~ overlap /\ Len(incidents') > Len(incidents) =>
        ~ \E i \in DOMAIN incidents :
            /\ incidents[i].status \in ActiveStatuses /\ Recent(incidents[i].started)
            /\ incidents[i].trigger \in DependsOn[incidents'[Len(incidents')].trigger]]_vars

\* Only the operators set the status of an incident.
StatusByOperator ==
    [][\A i \in DOMAIN incidents :
        incidents'[i].status # incidents[i].status
            => \E o \in Operators : WriteStatus(o)]_vars
============================================================================
