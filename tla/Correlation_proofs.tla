------------------------- MODULE Correlation_proofs -------------------------
(***************************************************************************)
(* Proofs about Correlation: however evaluations and status updates        *)
(* interleave, with objects as stale as they may be, no error log that was *)
(* read is dropped, no history is lost, and every timeline begins upstream *)
(* of its trigger; as long as requests do not overlap, incidents name      *)
(* every service of their timeline and none is opened for a symptom; they  *)
(* blame the root cause of what was injected; and their fallback report    *)
(* always has evidence to cite.  The last part is the search of the graph  *)
(* that the evaluations rely on.                                           *)
(***************************************************************************)
EXTENDS FallbackReport, Scenarios, DependencyGraph, SequenceTheorems, WellFoundedInduction, TLAPS

Row == [status : Statuses, resolved : BOOLEAN, started : Nat, trigger : Services,
        services : SUBSET Services, events : SUBSET Event]

ObjectType == [id : Nat, rank : Nat, status : Statuses, resolved : BOOLEAN,
               started : Nat, trigger : Services, services : SUBSET Services]

Reading == [pc : {"detected", "investigating", "traces"}, run : Nat,
            logs : SUBSET Logs, active : SUBSET ObjectType, todo : SUBSET Traces]

Merging == [pc : {"save"}, run : Nat,
            logs : SUBSET Logs, active : SUBSET ObjectType, todo : SUBSET Traces,
            object : ObjectType, loaded : Row, events : SUBSET Event]

EvalType == {IdleEval} \cup Reading \cup Merging

PatchType == {IdlePatch}
    \cup [pc : {"write"}, id : Nat, status : Statuses, was : Statuses,
          resolved : BOOLEAN]

Types == /\ incidents \in Seq(Row)
         /\ clock \in {0} \cup Instants
         /\ eval \in [Evaluators -> EvalType]
         /\ patch \in [Operators -> PatchType]
         /\ runs \in 0..MaxRuns /\ patches \in 0..MaxPatches
         /\ overlap \in BOOLEAN

\* An object that an evaluation holds is of a stored incident and has its
\* trigger, which never changes; the rest of it may be stale.
Holds(x) == x.id \in DOMAIN incidents /\ x.trigger = incidents[x.id].trigger

\* Each event is stored, or about to be stored, at most once: the traces of a
\* run that have events are done.
Done(run, trace) == \E i \in DOMAIN incidents : \E v \in incidents[i].events :
                        v.run = run /\ v.log.trace = trace

Saving(r) ==
    /\ Holds(r.object)
    /\ \A v \in r.events :
        /\ v.run = r.run /\ v.log.trace \notin r.todo /\ ~ Done(r.run, v.log.trace)
        /\ v.kind = "INITIAL_ERROR" => r.object.trigger \in DependsOn[v.log.service]

\* What an evaluation in progress can rely on.
Sound(r) == r.pc # "idle" =>
    /\ r.run < runs
    /\ \A l \in r.logs : l.level \in {"ERROR", "FATAL"}
    /\ \A x \in r.active : Holds(x)
    /\ \A t \in r.todo : ~ Done(r.run, t)
    /\ \A l \in r.logs : \/ l.trace \in r.todo \/ Recorded(l, r.run)
                         \/ r.pc = "save" /\ \E v \in r.events : v.log = l
    /\ r.pc = "save" => Saving(r)

AllSound == \A e \in Evaluators : Sound(eval[e])

RunsDiffer == \A e, f \in Evaluators :
    e # f /\ eval[e].pc # "idle" /\ eval[f].pc # "idle" => eval[e].run # eval[f].run

EventsOnce ==
    /\ \A i \in DOMAIN incidents : \A v \in incidents[i].events : v.run < runs
    /\ \A i, j \in DOMAIN incidents :
        i # j => incidents[i].events \cap incidents[j].events = {}

PatchesRefer == \A o \in Operators :
    patch[o].pc # "idle" => patch[o].id \in DOMAIN incidents

IInv == /\ Types /\ AllSound /\ RunsDiffer /\ EventsOnce /\ PatchesRefer
        /\ SymptomsUpstream
----------------------------------------------------------------------------
\* The incidents are numbered from one.
LEMMA Numbered == ASSUME Types
                  PROVE  /\ Len(incidents) \in Nat
                         /\ DOMAIN incidents = 1..Len(incidents)
                         /\ \A i \in DOMAIN incidents : incidents[i] \in Row
BY LenProperties, ElementOfSeq DEF Types

\* A step extends the tables on behalf of a run when it leaves the triggers
\* and the stored events and adds events of that run only.
Extends(run) ==
    /\ DOMAIN incidents \subseteq DOMAIN incidents'
    /\ \A i \in DOMAIN incidents :
        /\ incidents'[i].trigger = incidents[i].trigger
        /\ incidents[i].events \subseteq incidents'[i].events
    /\ \A i \in DOMAIN incidents' : \A v \in incidents'[i].events :
        v.run # run => \E j \in DOMAIN incidents : v \in incidents[j].events

\* Such a step takes nothing that another evaluation relies on.
LEMMA OthersSound ==
    ASSUME NEW run, NEW r \in EvalType, Sound(r), runs \in Nat, runs' \in Nat,
           runs <= runs', Extends(run), r.pc # "idle" => r.run # run
    PROVE  Sound(r)'
<1> SUFFICES ASSUME r.pc # "idle" PROVE Sound(r)'
    BY DEF Sound
<1>0. r.run \in Nat /\ r.run # run /\ r.run < runs
    BY DEF Sound, EvalType, IdleEval, Reading, Merging
<1>1. \A x : Holds(x) => Holds(x)'
    BY DEF Holds, Extends
<1>2. \A t : Done(r.run, t)' => Done(r.run, t)
    BY <1>0 DEF Done, Extends
<1>3. \A l : Recorded(l, r.run) => Recorded(l, r.run)'
    BY DEF Recorded, Extends
<1>4. Saving(r) => Saving(r)'
    BY <1>1, <1>2 DEF Saving
<1> QED
    BY <1>0, <1>1, <1>2, <1>3, <1>4 DEF Sound

\* A step that leaves the tables and turns the state of one evaluation into
\* one that is sound keeps the invariant.
LEMMA EvalReplaced ==
    ASSUME IInv, NEW e \in Evaluators, NEW r \in EvalType, Sound(r),
           eval' = [eval EXCEPT ![e] = r],
           r.pc # "idle" => eval[e].pc # "idle" /\ r.run = eval[e].run,
           UNCHANGED <<incidents, clock, patch, runs, patches, overlap>>
    PROVE  IInv'
<1>1. Types'
    BY DEF IInv, Types
<1>2. \A f \in Evaluators : eval'[f] = IF f = e THEN r ELSE eval[f]
    BY DEF IInv, Types
<1>3. \A q : Sound(q)' <=> Sound(q)
    BY DEF Sound, Saving, Holds, Done, Recorded
<1>4. AllSound'
    BY <1>2, <1>3 DEF AllSound, IInv
<1>5. RunsDiffer'
    BY <1>2 DEF RunsDiffer, IInv
<1> QED
    BY <1>1, <1>4, <1>5 DEF IInv, EventsOnce, PatchesRefer, SymptomsUpstream
----------------------------------------------------------------------------
\* Initially nothing is stored or in progress.
LEMMA InitInvariant == Init => IInv
<1> SUFFICES ASSUME Init PROVE IInv
    OBVIOUS
<1>1. incidents = <<>> /\ DOMAIN incidents = {} /\ incidents \in Seq(Row)
    BY DEF Init
<1>2. MaxRuns \in Nat /\ MaxPatches \in Nat
    BY CorrelationAssumption
<1>6. eval \in [Evaluators -> EvalType] /\ patch \in [Operators -> PatchType]
    BY DEF Init, EvalType, PatchType
<1>7. runs \in 0..MaxRuns /\ patches \in 0..MaxPatches /\ clock \in {0} \cup Instants
    BY <1>2 DEF Init
<1>8. overlap \in BOOLEAN
    BY DEF Init
<1>3. Types
    BY <1>1, <1>6, <1>7, <1>8 DEF Types
<1>4. \A e \in Evaluators : eval[e].pc = "idle"
    BY DEF Init, IdleEval
<1>5. \A o \in Operators : patch[o].pc = "idle"
    BY DEF Init, IdlePatch
<1> QED
    BY <1>1, <1>3, <1>4, <1>5
    DEF IInv, AllSound, Sound, RunsDiffer, EventsOnce, PatchesRefer, SymptomsUpstream

\* The passing of time is no concern of the invariant.
LEMMA TickStep == IInv /\ Tick => IInv'
<1> SUFFICES ASSUME IInv, Tick PROVE IInv'
    OBVIOUS
<1>1. Types'
    BY DEF IInv, Types, Tick
<1>2. UNCHANGED <<incidents, eval, patch, runs>>
    BY DEF Tick
<1> QED
    BY <1>1, <1>2 DEF IInv, AllSound, Sound, Saving, Holds, Done, Recorded, RunsDiffer,
        EventsOnce, PatchesRefer, SymptomsUpstream

\* A page of the query holds errors only.
LEMMA PagesOfErrors ==
    ASSUME NEW spiked, NEW S \in ErrorLogs(spiked)
    PROVE  S \subseteq Logs /\ \A l \in S : l.level \in {"ERROR", "FATAL"}
<1>1. S \subseteq Matching(spiked)
    BY DEF ErrorLogs, kSubset
<1> QED
    BY <1>1 DEF Matching

\* A new evaluation has a run number that no event carries.
LEMMA EvaluateStep ==
    ASSUME IInv, NEW e \in Evaluators, NEW spiked \in SUBSET Services, Evaluate(e, spiked)
    PROVE  IInv'
<1>1. PICK S \in ErrorLogs(spiked) :
          eval' = [eval EXCEPT ![e] =
              [pc |-> "detected", run |-> runs, logs |-> S, active |-> {},
               todo |-> {l.trace : l \in S}]]
    BY DEF Evaluate
<1> DEFINE r == [pc |-> "detected", run |-> runs, logs |-> S, active |-> {},
                 todo |-> {l.trace : l \in S}]
<1>2. S \subseteq Logs /\ \A l \in S : l.level \in {"ERROR", "FATAL"}
    BY PagesOfErrors
<1>3. MaxRuns \in Nat /\ runs \in 0..MaxRuns /\ runs < MaxRuns /\ runs' = runs + 1
    BY CorrelationAssumption DEF IInv, Types, Evaluate
<1>4. UNCHANGED <<incidents, clock, patch, patches>>
    BY DEF Evaluate
<1>5. {l.trace : l \in S} \subseteq Traces
    BY <1>2, CorrelationAssumption
<1>6. r \in EvalType
    BY <1>2, <1>3, <1>5 DEF EvalType, Reading
<1>7. overlap' \in BOOLEAN
    BY DEF Evaluate, IInv, Types
<1>8. Types'
    BY <1>1, <1>3, <1>4, <1>6, <1>7 DEF IInv, Types
<1>9. \A f \in Evaluators : eval'[f] = IF f = e THEN r ELSE eval[f]
    BY <1>1 DEF IInv, Types
<1>10. \A f \in Evaluators : eval[f] \in EvalType /\ Sound(eval[f])
    BY DEF IInv, Types, AllSound
<1>11. \A f \in Evaluators : eval[f].pc # "idle" => eval[f].run < runs /\ eval[f].run \in Nat
    BY <1>10 DEF Sound, EvalType, IdleEval, Reading, Merging
<1>12. Extends(runs)
    BY <1>4 DEF Extends
<1>13. ASSUME NEW f \in Evaluators, f # e PROVE Sound(eval[f])'
    <2>1. eval[f].pc # "idle" => eval[f].run # runs
        BY <1>11, <1>3
    <2>2. ASSUME NEW q, q = eval[f] PROVE Sound(q)'
        <3>1. q \in EvalType /\ Sound(q) /\ (q.pc # "idle" => q.run # runs)
            BY <2>1, <2>2, <1>10
        <3> QED
            BY <3>1, <1>3, <1>12, OthersSound
    <2>3. eval'[f] = eval[f]
        BY <1>9, <1>13
    <2> QED
        BY <2>2, <2>3 DEF Sound, Saving, Holds, Done, Recorded
<1>14. Sound(eval[e])'
    <2>1. eval'[e] = r
        BY <1>9
    <2>2. ASSUME NEW n, n = runs PROVE \A t : ~ Done(n, t)'
        BY <1>3, <1>4, <2>2 DEF Done, IInv, EventsOnce
    <2>3. /\ r.pc = "detected" /\ r.run = runs /\ r.logs = S /\ r.active = {}
          /\ r.todo = {l.trace : l \in S}
        OBVIOUS
    <2>4. runs < runs'
        BY <1>3
    <2>5. \A l \in S : l.trace \in {k.trace : k \in S}
        OBVIOUS
    <2> HIDE DEF r
    <2>6. ASSUME NEW q, q = r PROVE Sound(q)'
        <3>1. ASSUME NEW n, n = q.run PROVE \A t : ~ Done(n, t)'
            BY <2>2, <2>3, <2>6, <3>1
        <3>2. \A t : ~ Done(q.run, t)'
            BY <3>1
        <3> QED
            BY <3>2, <2>3, <2>4, <2>5, <2>6, <1>2 DEF Sound
    <2> QED
        BY <2>1, <2>6
<1>15. AllSound'
    BY <1>13, <1>14 DEF AllSound
<1>16. RunsDiffer'
    <2>1. r.run = runs /\ r.pc = "detected"
        OBVIOUS
    <2>2. \A f \in Evaluators : eval[f].pc # "idle" => eval[f].run # runs
        BY <1>3, <1>11
    <2> HIDE DEF r
    <2> QED
        BY <1>9, <2>1, <2>2 DEF RunsDiffer, IInv
<1>17. EventsOnce'
    <2>1. ASSUME NEW i \in DOMAIN incidents, NEW v \in incidents[i].events
          PROVE  v.run < runs + 1
        <3>1. v.run < runs /\ incidents[i] \in Row
            BY <2>1, Numbered DEF IInv, EventsOnce
        <3>2. v.run \in Nat
            BY <3>1, <2>1 DEF Row, Event
        <3> QED
            BY <3>1, <3>2, <1>3
    <2> QED
        BY <2>1, <1>3, <1>4 DEF EventsOnce, IInv
<1> QED
    BY <1>4, <1>8, <1>15, <1>16, <1>17 DEF IInv, PatchesRefer, SymptomsUpstream

\* The objects that a listing returns are of the incidents in the table.
LEMMA ListedObjects ==
    ASSUME Types, NEW status \in Statuses, NEW rank \in Nat, NEW x \in Listed(status, rank)
    PROVE  x \in ObjectType /\ Holds(x)
<1>1. PICK i \in DOMAIN incidents : x = Object(i, rank)
    BY DEF Listed
<1>2. incidents[i] \in Row /\ i \in Nat
    BY Numbered, <1>1
<1> QED
    BY <1>1, <1>2 DEF Object, Row, ObjectType, Holds

\* The first listing.
LEMMA ListDetectedStep ==
    ASSUME IInv, NEW e \in Evaluators, ListDetected(e) PROVE IInv'
<1> DEFINE r == [eval[e] EXCEPT !.pc = "investigating", !.active = Listed("DETECTED", 1)]
<1>1. eval[e] \in EvalType /\ eval[e].pc = "detected" /\ Sound(eval[e]) /\ Types
    BY DEF IInv, Types, AllSound, ListDetected
<1>2. \A x \in Listed("DETECTED", 1) : x \in ObjectType /\ Holds(x)
    BY <1>1, ListedObjects DEF Statuses
<1>7. eval[e] \in Reading
    BY <1>1 DEF EvalType, IdleEval, Merging
<1>3. r \in EvalType /\ r.pc = "investigating" /\ r.active = Listed("DETECTED", 1)
      /\ r.run = eval[e].run /\ r.logs = eval[e].logs /\ r.todo = eval[e].todo
    BY <1>2, <1>7 DEF EvalType, Reading
<1>4. Sound(r)
    BY <1>1, <1>2, <1>3 DEF Sound
<1>5. eval' = [eval EXCEPT ![e] = r]
    BY DEF ListDetected
<1>6. UNCHANGED <<incidents, clock, patch, runs, patches, overlap>>
    BY DEF ListDetected
<1> HIDE DEF r
<1> QED
    BY <1>1, <1>3, <1>4, <1>5, <1>6, EvalReplaced

\* The second listing is added to the first.
LEMMA ListInvestigatingStep ==
    ASSUME IInv, NEW e \in Evaluators, ListInvestigating(e) PROVE IInv'
<1> DEFINE r == [eval[e] EXCEPT !.pc = "traces",
                                !.active = @ \cup Listed("INVESTIGATING", 2)]
<1>1. eval[e] \in EvalType /\ eval[e].pc = "investigating" /\ Sound(eval[e]) /\ Types
    BY DEF IInv, Types, AllSound, ListInvestigating
<1>2. \A x \in Listed("INVESTIGATING", 2) : x \in ObjectType /\ Holds(x)
    BY <1>1, ListedObjects DEF Statuses
<1>7. eval[e] \in Reading
    BY <1>1 DEF EvalType, IdleEval, Merging
<1>3. r \in EvalType /\ r.pc = "traces"
      /\ r.active = eval[e].active \cup Listed("INVESTIGATING", 2)
      /\ r.run = eval[e].run /\ r.logs = eval[e].logs /\ r.todo = eval[e].todo
    BY <1>2, <1>7 DEF EvalType, Reading
<1>4. Sound(r)
    BY <1>1, <1>2, <1>3 DEF Sound
<1>5. eval' = [eval EXCEPT ![e] = r]
    BY DEF ListInvestigating
<1>6. UNCHANGED <<incidents, clock, patch, runs, patches, overlap>>
    BY DEF ListInvestigating
<1> HIDE DEF r
<1> QED
    BY <1>1, <1>3, <1>4, <1>5, <1>6, EvalReplaced

\* An evaluation that ends or fails relies on nothing any more.
LEMMA EndStep ==
    ASSUME IInv, NEW e \in Evaluators, Finish(e) \/ Abort(e) PROVE IInv'
<1>1. IdleEval \in EvalType /\ Sound(IdleEval) /\ IdleEval.pc = "idle"
    BY DEF EvalType, Sound, IdleEval
<1>2. /\ eval' = [eval EXCEPT ![e] = IdleEval]
      /\ UNCHANGED <<incidents, clock, patch, runs, patches, overlap>>
    BY DEF Finish, Abort
<1> QED
    BY <1>1, <1>2, EvalReplaced

\* What an evaluation fetched of a trace is in the timeline in full: all of it
\* is abnormal.
LEMMA WholeTrace ==
    ASSUME IInv, NEW e \in Evaluators, eval[e].pc # "idle", NEW t
    PROVE  TraceLogs(e, t) = {l \in eval[e].logs : l.trace = t}
<1>1. \A l \in eval[e].logs : l.level \in {"ERROR", "FATAL"}
    BY DEF IInv, AllSound, Sound
<1> QED
    BY <1>1 DEF TraceLogs, Sequenced, Abnormal

\* The events of a trace: one for each log, under the run's number.
LEMMA TraceEvents ==
    ASSUME NEW S \in SUBSET Logs, NEW first \in S, NEW run \in Nat
    PROVE  /\ EventsOf(S, first, run) \subseteq Event
           /\ \A v \in EventsOf(S, first, run) :
                /\ v.run = run /\ v.log \in S
                /\ v.kind = "INITIAL_ERROR" => v.log = first
           /\ \A l \in S : \E v \in EventsOf(S, first, run) : v.log = l
<1> DEFINE ev(l) == [log |-> l, run |-> run,
                     kind |-> IF l = first THEN "INITIAL_ERROR" ELSE "CASCADING_ERROR"]
<1>1. EventsOf(S, first, run) = {ev(l) : l \in S}
    BY DEF EventsOf
<1>2. \A l \in S : /\ ev(l) \in Event /\ ev(l).run = run /\ ev(l).log = l
                   /\ ev(l).kind = "INITIAL_ERROR" => l = first
    BY DEF Event, Kinds
<1> HIDE DEF ev
<1> QED
    BY <1>1, <1>2

\* The session that selects the row of the incident that takes a trace.
LEMMA MergeTraceStep ==
    ASSUME IInv, NEW e \in Evaluators, NEW t \in Traces, MergeTrace(e, t) PROVE IInv'
<1> DEFINE S == TraceLogs(e, t)
<1>1. /\ eval[e] \in EvalType /\ eval[e].pc = "traces" /\ t \in eval[e].todo
      /\ Sound(eval[e]) /\ Types
    BY DEF IInv, Types, AllSound, MergeTrace
<1>2. eval[e] \in Reading
    BY <1>1 DEF EvalType, IdleEval, Merging
<1>18. PICK first \in Earliest(S) : \E x \in Candidates(e, first.service) :
          eval' = [eval EXCEPT ![e] =
              [pc |-> "save", run |-> eval[e].run, logs |-> eval[e].logs,
               todo |-> eval[e].todo \ {t},
               active |-> (eval[e].active \ {x})
                   \cup {[x EXCEPT !.services = @ \cup Affected(S, first)]},
               object |-> [x EXCEPT !.services = @ \cup Affected(S, first)],
               loaded |-> incidents[x.id],
               events |-> EventsOf(S, first, eval[e].run)]]
    BY DEF MergeTrace
<1>3. PICK x \in Candidates(e, first.service) :
          eval' = [eval EXCEPT ![e] =
              [pc |-> "save", run |-> eval[e].run, logs |-> eval[e].logs,
               todo |-> eval[e].todo \ {t},
               active |-> (eval[e].active \ {x})
                   \cup {[x EXCEPT !.services = @ \cup Affected(S, first)]},
               object |-> [x EXCEPT !.services = @ \cup Affected(S, first)],
               loaded |-> incidents[x.id],
               events |-> EventsOf(S, first, eval[e].run)]]
    BY <1>18
<1>4. S = {l \in eval[e].logs : l.trace = t}
    BY <1>1, WholeTrace
<1>5. first \in S /\ S \subseteq Logs /\ eval[e].run \in Nat
    BY <1>2, <1>3, <1>4 DEF Earliest, Reading
<1>6. x \in eval[e].active /\ x \in ObjectType /\ x.trigger \in DependsOn[first.service]
    BY <1>2, <1>3 DEF Candidates, IsSymptom, Reading
<1>7. Affected(S, first) \subseteq Services
    BY <1>5, CorrelationAssumption DEF Affected
<1> DEFINE y == [x EXCEPT !.services = @ \cup Affected(S, first)]
           N == EventsOf(S, first, eval[e].run)
           r == [pc |-> "save", run |-> eval[e].run, logs |-> eval[e].logs,
                 todo |-> eval[e].todo \ {t}, active |-> (eval[e].active \ {x}) \cup {y},
                 object |-> y, loaded |-> incidents[x.id], events |-> N]
<1>8. y \in ObjectType /\ y.id = x.id /\ y.trigger = x.trigger
    BY <1>6, <1>7 DEF ObjectType
<1>9. Holds(x) /\ Holds(y)
    BY <1>1, <1>6, <1>8 DEF Sound, Holds
<1>10. incidents[x.id] \in Row
    BY <1>1, <1>9, Numbered DEF Holds
<1>11. /\ N \subseteq Event
       /\ \A v \in N : /\ v.run = eval[e].run /\ v.log \in S
                       /\ v.kind = "INITIAL_ERROR" => v.log = first
       /\ \A l \in S : \E v \in N : v.log = l
    BY <1>5, TraceEvents
<1> HIDE DEF y, N, S
<1>12. r \in EvalType
    BY <1>2, <1>8, <1>10, <1>11 DEF EvalType, Reading, Merging
<1>13. Saving(r)
    <2>1. ~ Done(eval[e].run, t)
        BY <1>1 DEF Sound
    <2>2. \A v \in N : v.log.trace = t
        BY <1>4, <1>11
    <2>3. \A v \in N : v.kind = "INITIAL_ERROR" => y.trigger \in DependsOn[v.log.service]
        BY <1>6, <1>8, <1>11
    <2> QED
        BY <1>9, <1>11, <2>1, <2>2, <2>3 DEF Saving
<1>14. Sound(r)
    <2>1. \A l \in eval[e].logs : l.trace = t => \E v \in N : v.log = l
        BY <1>4, <1>11
    <2> QED
        BY <1>1, <1>9, <1>13, <2>1 DEF Sound
<1>15. eval' = [eval EXCEPT ![e] = r]
    BY <1>3 DEF y, N, S
<1>16. UNCHANGED <<incidents, clock, patch, runs, patches, overlap>>
    BY DEF MergeTrace
<1>17. r.pc = "save" /\ r.run = eval[e].run
    OBVIOUS
<1> HIDE DEF r
<1> QED
    BY <1>1, <1>12, <1>14, <1>15, <1>16, <1>17, EvalReplaced

\* The first half of a status update.
LEMMA SelectStatusStep ==
    ASSUME IInv, NEW o \in Operators, NEW i \in DOMAIN incidents, NEW status \in Statuses,
           SelectStatus(o, i, status)
    PROVE  IInv'
<1>1. i \in Nat /\ incidents[i] \in Row
    BY Numbered DEF IInv
<1>2. MaxPatches \in Nat
    BY CorrelationAssumption
<1>3. [pc |-> "write", id |-> i, status |-> status, was |-> incidents[i].status,
       resolved |-> incidents[i].resolved] \in PatchType
    BY <1>1 DEF Row, PatchType
<1>4. Types'
    BY <1>2, <1>3 DEF IInv, Types, SelectStatus
<1>5. UNCHANGED <<incidents, eval, runs>>
    BY DEF SelectStatus
<1>6. \A p \in Operators : patch'[p] = IF p = o
          THEN [pc |-> "write", id |-> i, status |-> status, was |-> incidents[i].status,
                resolved |-> incidents[i].resolved]
          ELSE patch[p]
    BY DEF IInv, Types, SelectStatus
<1>7. PatchesRefer'
    BY <1>5, <1>6 DEF PatchesRefer, IInv
<1> QED
    BY <1>4, <1>5, <1>7 DEF IInv, AllSound, Sound, Saving, Holds, Done, Recorded,
        RunsDiffer, EventsOnce, SymptomsUpstream

\* A step of evaluation e that extends the tables keeps the invariant when it
\* leaves a sound state, and when what it adds is fresh and rightly placed.
LEMMA TablesExtended ==
    ASSUME IInv, NEW e \in Evaluators, eval[e].pc # "idle",
           NEW r \in EvalType, Sound(r)', r.run = eval[e].run,
           eval' = [eval EXCEPT ![e] = r],
           UNCHANGED <<clock, patch, runs, patches, overlap>>,
           incidents' \in Seq(Row), Extends(eval[e].run),
           EventsOnce', SymptomsUpstream'
    PROVE  IInv'
<1>1. Types'
    BY DEF IInv, Types
<1>2. \A f \in Evaluators : eval'[f] = IF f = e THEN r ELSE eval[f]
    BY DEF IInv, Types
<1>3. \A f \in Evaluators : eval[f] \in EvalType /\ Sound(eval[f])
    BY DEF IInv, Types, AllSound
<1>4. runs \in Nat /\ runs' = runs
    BY DEF IInv, Types
<1>5. ASSUME NEW f \in Evaluators, f # e PROVE Sound(eval[f])'
    <2>1. eval[f].pc # "idle" => eval[f].run # eval[e].run
        BY <1>5 DEF IInv, RunsDiffer
    <2>2. ASSUME NEW q, q = eval[f] PROVE Sound(q)'
        <3>1. q \in EvalType /\ Sound(q) /\ (q.pc # "idle" => q.run # eval[e].run)
            BY <2>1, <2>2, <1>3
        <3> QED
            BY <3>1, <1>4, OthersSound
    <2>3. eval'[f] = eval[f]
        BY <1>2, <1>5
    <2> QED
        BY <2>2, <2>3 DEF Sound, Saving, Holds, Done, Recorded
<1>6. Sound(eval[e])'
    <2>1. eval'[e] = r
        BY <1>2
    <2> QED
        BY <2>1 DEF Sound, Saving, Holds, Done, Recorded
<1>7. AllSound'
    BY <1>5, <1>6 DEF AllSound
<1>8. RunsDiffer'
    BY <1>2 DEF RunsDiffer, IInv
<1>9. PatchesRefer'
    BY DEF PatchesRefer, IInv, Extends
<1> QED
    BY <1>1, <1>7, <1>8, <1>9 DEF IInv

\* A new incident.
LEMMA OpenIncidentStep ==
    ASSUME IInv, NEW e \in Evaluators, NEW t \in Traces, OpenIncident(e, t) PROVE IInv'
<1> DEFINE S == TraceLogs(e, t)
           R == eval[e].run
           K == Len(incidents) + 1
<1>1. /\ eval[e] \in EvalType /\ eval[e].pc = "traces" /\ t \in eval[e].todo
      /\ Sound(eval[e]) /\ Types
    BY DEF IInv, Types, AllSound, OpenIncident
<1>2. eval[e] \in Reading
    BY <1>1 DEF EvalType, IdleEval, Merging
<1> DEFINE row(first) ==
        [status |-> "DETECTED", resolved |-> FALSE, started |-> first.at,
         trigger |-> first.service, services |-> Affected(S, first),
         events |-> EventsOf(S, first, R)]
           obj(first) ==
        [id |-> K, rank |-> 3, status |-> "DETECTED", resolved |-> FALSE,
         started |-> first.at, trigger |-> first.service,
         services |-> Affected(S, first)]
           q(first) == [eval[e] EXCEPT !.todo = @ \ {t}, !.active = @ \cup {obj(first)}]
<1>3. PICK first \in Earliest(S) :
          /\ incidents' = Append(incidents, row(first))
          /\ eval' = [eval EXCEPT ![e] = q(first)]
    BY DEF OpenIncident, Remembered
<1>4. S = {l \in eval[e].logs : l.trace = t}
    BY <1>1, WholeTrace
<1>5. first \in S /\ S \subseteq Logs /\ R \in Nat
    BY <1>2, <1>3, <1>4 DEF Earliest, Reading
<1>6. Affected(S, first) \subseteq Services /\ first.service \in Services /\ first.at \in Nat
    BY <1>5, CorrelationAssumption DEF Affected
<1> DEFINE N == EventsOf(S, first, R)
<1>7. /\ N \subseteq Event
      /\ \A v \in N : /\ v.run = R /\ v.log \in S
                      /\ v.kind = "INITIAL_ERROR" => v.log = first
      /\ \A l \in S : \E v \in N : v.log = l
    BY <1>5, TraceEvents
<1>8. /\ row(first) \in Row /\ row(first).trigger = first.service
      /\ row(first).events = N
    BY <1>6, <1>7 DEF Row, Statuses
<1>9. /\ Len(incidents) \in Nat /\ DOMAIN incidents = 1..Len(incidents)
      /\ \A i \in DOMAIN incidents : incidents[i] \in Row
    BY <1>1, Numbered
<1>10. K \in Nat /\ K \notin DOMAIN incidents
    BY <1>9
<1>11. obj(first) \in ObjectType /\ obj(first).id = K /\ obj(first).trigger = first.service
    BY <1>6, <1>10 DEF ObjectType, Statuses
<1> HIDE DEF row, obj, N, S
<1>12. /\ incidents' \in Seq(Row) /\ DOMAIN incidents' = DOMAIN incidents \cup {K}
       /\ \A i \in DOMAIN incidents : incidents'[i] = incidents[i]
       /\ incidents'[K] = row(first)
    <2>1. incidents \in Seq(Row)
        BY <1>1 DEF Types
    <2>2. /\ incidents' \in Seq(Row) /\ Len(incidents') = K
          /\ \A i \in 1..Len(incidents) : incidents'[i] = incidents[i]
          /\ incidents'[K] = row(first)
        BY <2>1, <1>3, <1>8, AppendProperties
    <2>3. DOMAIN incidents' = 1..K
        BY <2>2, LenProperties
    <2>4. 1..K = (1..Len(incidents)) \cup {K}
        BY <1>9
    <2> QED
        BY <2>2, <2>3, <2>4, <1>9
<1>13. /\ q(first) \in EvalType /\ q(first).pc = "traces" /\ q(first).run = R
       /\ q(first).logs = eval[e].logs /\ q(first).todo = eval[e].todo \ {t}
       /\ q(first).active = eval[e].active \cup {obj(first)}
    BY <1>1, <1>2, <1>11 DEF EvalType, Reading
<1> HIDE DEF q, K
<1>14. Extends(R)
    BY <1>7, <1>8, <1>12 DEF Extends
<1>15. ~ Done(R, t) /\ \A v \in N : v.log.trace = t
    BY <1>1, <1>4, <1>7 DEF Sound
<1>16. R < runs
    BY <1>1 DEF Sound
<1>17. runs' = runs
    BY DEF OpenIncident
<1> HIDE DEF R
<1>18. EventsOnce'
    <2>1. \A i \in DOMAIN incidents : \A v \in incidents[i].events : v \notin N
        BY <1>7, <1>15 DEF Done
    <2>2. \A i \in DOMAIN incidents' : \A v \in incidents'[i].events : v.run < runs'
        BY <1>7, <1>8, <1>12, <1>16, <1>17 DEF IInv, EventsOnce
    <2>3. \A i, j \in DOMAIN incidents' :
              i # j => incidents'[i].events \cap incidents'[j].events = {}
        BY <2>1, <1>8, <1>12, <1>10 DEF IInv, EventsOnce
    <2> QED
        BY <2>2, <2>3 DEF EventsOnce
<1>19. SymptomsUpstream'
    BY <1>7, <1>8, <1>12 DEF IInv, SymptomsUpstream
<1>20. ASSUME NEW r, r = q(first) PROVE Sound(r)'
    <2>1. r.pc = "traces" /\ r.run = R /\ r.logs = eval[e].logs
          /\ r.todo = eval[e].todo \ {t} /\ r.active = eval[e].active \cup {obj(first)}
        BY <1>13, <1>20
    <2>2. eval[e].run = R
        BY DEF R
    <2>3. \A x \in r.active : Holds(x)'
        BY <1>1, <1>8, <1>11, <1>12, <2>1 DEF Sound, Holds
    <2>4. \A u \in r.todo : ~ Done(r.run, u)'
        BY <1>1, <1>8, <1>12, <1>15, <2>1, <2>2 DEF Sound, Done
    <2>5. ASSUME NEW l \in r.logs PROVE l.trace \in r.todo \/ Recorded(l, r.run)'
        <3>1. CASE l.trace = t
            <4>1. PICK v \in N : v.log = l
                BY <1>4, <1>7, <2>1, <3>1
            <4> QED
                BY <4>1, <1>7, <1>8, <1>12, <2>1 DEF Recorded
        <3>2. CASE l.trace # t
            <4>1. l.trace \in eval[e].todo \/ Recorded(l, R)
                BY <1>1, <2>1, <2>2 DEF Sound
            <4>2. Recorded(l, R) => Recorded(l, r.run)'
                BY <1>12, <2>1 DEF Recorded
            <4> QED
                BY <4>1, <4>2, <3>2, <2>1
        <3> QED
            BY <3>1, <3>2
    <2>6. \A l \in r.logs : l.level \in {"ERROR", "FATAL"}
        BY <1>1, <2>1 DEF Sound
    <2> QED
        BY <1>16, <1>17, <2>1, <2>3, <2>4, <2>5, <2>6 DEF Sound
<1>21. UNCHANGED <<clock, patch, runs, patches, overlap>>
    BY DEF OpenIncident
<1>22. ASSUME NEW r, r = q(first) PROVE IInv'
    <2>1. r \in EvalType /\ Sound(r)' /\ r.run = eval[e].run /\ eval' = [eval EXCEPT ![e] = r]
        BY <1>3, <1>13, <1>20, <1>22 DEF R
    <2>2. Extends(eval[e].run) /\ eval[e].pc # "idle" /\ incidents' \in Seq(Row)
        BY <1>1, <1>12, <1>14 DEF R
    <2> QED
        BY <2>1, <2>2, <1>18, <1>19, <1>21, TablesExtended
<1> QED
    BY <1>22

\* One row is replaced: the numbers of the incidents stay.
LEMMA RowReplaced ==
    ASSUME Types, NEW i \in DOMAIN incidents, NEW rec \in Row,
           incidents' = [incidents EXCEPT ![i] = rec]
    PROVE  /\ incidents' \in Seq(Row) /\ DOMAIN incidents' = DOMAIN incidents
           /\ \A j \in DOMAIN incidents :
                incidents'[j] = IF j = i THEN rec ELSE incidents[j]
<1>1. incidents \in Seq(Row) /\ DOMAIN incidents = 1..Len(incidents)
    BY Numbered DEF Types
<1>2. /\ incidents' \in Seq(Row) /\ Len(incidents') = Len(incidents)
      /\ \A j \in 1..Len(incidents) : incidents'[j] = IF j = i THEN rec ELSE incidents[j]
    BY <1>1, ExceptSeq
<1>3. DOMAIN incidents' = 1..Len(incidents')
    BY <1>2, LenProperties
<1> QED
    BY <1>1, <1>2, <1>3

\* The write of a merge: a stale object replaces columns, and never the
\* trigger or a stored event.
LEMMA SaveMergedStep ==
    ASSUME IInv, NEW e \in Evaluators, SaveMerged(e) PROVE IInv'
<1> DEFINE R == eval[e].run
           x == eval[e].object
           l == eval[e].loaded
           s == incidents[x.id]
           N == eval[e].events
           rec == [status   |-> Column(x.status, l.status, s.status),
                   resolved |-> Column(x.resolved, l.resolved, s.resolved),
                   started  |-> s.started, trigger |-> s.trigger,
                   services |-> Column(x.services, l.services, s.services),
                   events   |-> Timeline(s.events, eval[e].events)]
           q == [pc |-> "traces", run |-> eval[e].run, logs |-> eval[e].logs,
                 todo |-> eval[e].todo, active |-> eval[e].active]
<1>1. eval[e] \in EvalType /\ eval[e].pc = "save" /\ Sound(eval[e]) /\ Types
    BY DEF IInv, Types, AllSound, SaveMerged
<1>2. eval[e] \in Merging
    BY <1>1 DEF EvalType, IdleEval, Reading
<1>3. incidents' = [incidents EXCEPT ![x.id] = rec] /\ eval' = [eval EXCEPT ![e] = q]
    BY DEF SaveMerged
<1>4. Saving(eval[e]) /\ R < runs
    BY <1>1 DEF Sound
<1>5. x.id \in DOMAIN incidents /\ x.trigger = s.trigger /\ s \in Row
    BY <1>1, <1>4, Numbered DEF Saving, Holds
<1>6. x \in ObjectType /\ l \in Row /\ N \subseteq Event /\ R \in Nat
    BY <1>2 DEF Merging
<1>7. rec \in Row
    <2>1. Column(x.status, l.status, s.status) \in Statuses
        BY <1>5, <1>6 DEF Column, ObjectType, Row
    <2>2. Column(x.resolved, l.resolved, s.resolved) \in BOOLEAN
        <3>1. x.resolved \in BOOLEAN
            BY <1>6 DEF ObjectType
        <3>2. s.resolved \in BOOLEAN
            BY <1>5 DEF Row
        <3> QED
            BY <3>1, <3>2, Zenon DEF Column
    <2>3. Column(x.services, l.services, s.services) \in SUBSET Services
        BY <1>5, <1>6 DEF Column, ObjectType, Row
    <2>4. Timeline(s.events, N) \in SUBSET Event
        BY <1>5, <1>6 DEF Timeline, Row
    <2>5. s.started \in Nat /\ s.trigger \in Services
        BY <1>5 DEF Row
    <2> QED
        BY <2>1, <2>2, <2>3, <2>4, <2>5 DEF Row
<1>8. rec.trigger = s.trigger /\ rec.events = s.events \cup N
    BY DEF Timeline
<1>9. q \in EvalType /\ q.pc = "traces" /\ q.run = R /\ q.logs = eval[e].logs
      /\ q.todo = eval[e].todo /\ q.active = eval[e].active
    BY <1>2 DEF EvalType, Reading, Merging
<1> HIDE DEF rec, q
<1>10. /\ incidents' \in Seq(Row) /\ DOMAIN incidents' = DOMAIN incidents
       /\ \A j \in DOMAIN incidents :
            incidents'[j] = IF j = x.id THEN rec ELSE incidents[j]
    BY <1>1, <1>3, <1>5, <1>7, RowReplaced
<1>11. \A v \in N : /\ v.run = R /\ v.log.trace \notin eval[e].todo
                    /\ ~ Done(R, v.log.trace)
                    /\ v.kind = "INITIAL_ERROR" => s.trigger \in DependsOn[v.log.service]
    BY <1>4, <1>5 DEF Saving
<1>12. runs' = runs
    BY DEF SaveMerged
<1>13. Extends(R)
    BY <1>5, <1>8, <1>10, <1>11 DEF Extends
<1>14. EventsOnce'
    <2>1. \A i \in DOMAIN incidents : \A v \in incidents[i].events : v \notin N
        BY <1>11 DEF Done
    <2>2. \A i \in DOMAIN incidents' : \A v \in incidents'[i].events : v.run < runs'
        BY <1>4, <1>5, <1>8, <1>10, <1>11, <1>12 DEF IInv, EventsOnce
    <2>3. \A i, j \in DOMAIN incidents' :
              i # j => incidents'[i].events \cap incidents'[j].events = {}
        BY <2>1, <1>5, <1>8, <1>10 DEF IInv, EventsOnce
    <2> QED
        BY <2>2, <2>3 DEF EventsOnce
<1>15. SymptomsUpstream'
    BY <1>5, <1>8, <1>10, <1>11 DEF IInv, SymptomsUpstream
<1>16. ASSUME NEW r, r = q PROVE Sound(r)'
    <2>1. r.pc = "traces" /\ r.run = R /\ r.logs = eval[e].logs
          /\ r.todo = eval[e].todo /\ r.active = eval[e].active
        BY <1>9, <1>16
    <2>2. \A o \in r.active : Holds(o)'
        BY <1>1, <1>5, <1>8, <1>10, <2>1 DEF Sound, Holds
    <2>3. \A u \in r.todo : ~ Done(r.run, u)'
        BY <1>1, <1>8, <1>10, <1>11, <2>1 DEF Sound, Done
    <2>4. ASSUME NEW k \in r.logs PROVE k.trace \in r.todo \/ Recorded(k, r.run)'
        <3>1. CASE \E v \in N : v.log = k
            <4>1. PICK v \in N : v.log = k
                BY <3>1
            <4> QED
                BY <4>1, <1>5, <1>8, <1>10, <1>11, <2>1 DEF Recorded
        <3>2. CASE k.trace \in eval[e].todo \/ Recorded(k, R)
            <4>1. Recorded(k, R) => Recorded(k, r.run)'
                BY <1>8, <1>10, <2>1 DEF Recorded
            <4> QED
                BY <4>1, <3>2, <2>1
        <3> QED
            BY <3>1, <3>2, <1>1, <2>1 DEF Sound
    <2>5. \A k \in r.logs : k.level \in {"ERROR", "FATAL"}
        BY <1>1, <2>1 DEF Sound
    <2> QED
        BY <1>4, <1>12, <2>1, <2>2, <2>3, <2>4, <2>5 DEF Sound
<1>17. UNCHANGED <<clock, patch, runs, patches, overlap>>
    BY DEF SaveMerged
<1>18. ASSUME NEW r, r = q PROVE IInv'
    <2>1. r \in EvalType /\ Sound(r)' /\ r.run = eval[e].run /\ eval' = [eval EXCEPT ![e] = r]
        BY <1>3, <1>9, <1>16, <1>18
    <2> QED
        BY <2>1, <1>1, <1>10, <1>13, <1>14, <1>15, <1>17, TablesExtended
<1> QED
    BY <1>18

\* The write of a status update.
LEMMA WriteStatusStep ==
    ASSUME IInv, NEW o \in Operators, WriteStatus(o) PROVE IInv'
<1> DEFINE p == patch[o]
           s == incidents[p.id]
           rec == [s EXCEPT !.status = Column(p.status, p.was, @),
                            !.resolved = @ \/ (p.status = "RESOLVED" /\ ~ p.resolved)]
<1>1. Types /\ p \in PatchType /\ p.pc = "write" /\ p.id \in DOMAIN incidents
    BY DEF IInv, Types, PatchesRefer, WriteStatus
<1>2. s \in Row /\ p.status \in Statuses
    BY <1>1, Numbered DEF PatchType, IdlePatch
<1>3. rec \in Row /\ rec.trigger = s.trigger /\ rec.events = s.events
    <2>1. Column(p.status, p.was, s.status) \in Statuses
        BY <1>2 DEF Column, Row
    <2>2. (s.resolved \/ (p.status = "RESOLVED" /\ ~ p.resolved)) \in BOOLEAN
        BY Zenon
    <2> QED
        BY <2>1, <2>2, <1>2 DEF Row
<1>4. incidents' = [incidents EXCEPT ![p.id] = rec]
    BY <1>1, <1>2 DEF WriteStatus, Row, Types
<1> HIDE DEF rec
<1>5. /\ incidents' \in Seq(Row) /\ DOMAIN incidents' = DOMAIN incidents
      /\ \A j \in DOMAIN incidents :
            incidents'[j] = IF j = p.id THEN rec ELSE incidents[j]
    BY <1>1, <1>3, <1>4, RowReplaced
<1>6. \A j \in DOMAIN incidents : /\ incidents'[j].trigger = incidents[j].trigger
                                  /\ incidents'[j].events = incidents[j].events
    BY <1>3, <1>5
<1>7. UNCHANGED <<clock, eval, runs, patches, overlap>>
    BY DEF WriteStatus
<1>8. patch' = [patch EXCEPT ![o] = IdlePatch]
    BY DEF WriteStatus
<1>9. Types'
    BY <1>1, <1>5, <1>7, <1>8 DEF Types, PatchType
<1>10. PatchesRefer'
    <2>1. \A w \in Operators : patch'[w] = IF w = o THEN IdlePatch ELSE patch[w]
        BY <1>1, <1>8 DEF Types
    <2> QED
        BY <2>1, <1>5 DEF PatchesRefer, IInv, IdlePatch
<1>11. AllSound'
    <2>1. \A x : Holds(x) => Holds(x)'
        BY <1>5, <1>6 DEF Holds
    <2>2. \A n, u : Done(n, u)' => Done(n, u)
        BY <1>5, <1>6 DEF Done
    <2>3. \A k, n : Recorded(k, n) => Recorded(k, n)'
        BY <1>5, <1>6 DEF Recorded
    <2>4. ASSUME NEW r, Sound(r) PROVE Sound(r)'
        BY <1>7, <2>1, <2>2, <2>3, <2>4 DEF Sound, Saving
    <2>5. ASSUME NEW f \in Evaluators PROVE Sound(eval[f])'
        <3>1. ASSUME NEW r, r = eval[f] PROVE Sound(r)'
            BY <2>4, <2>5, <3>1 DEF IInv, AllSound
        <3> QED
            BY <3>1, <1>7 DEF Sound, Saving, Holds, Done, Recorded
    <2> QED
        BY <2>5 DEF AllSound
<1>12. RunsDiffer' /\ EventsOnce' /\ SymptomsUpstream'
    BY <1>5, <1>6, <1>7 DEF IInv, RunsDiffer, EventsOnce, SymptomsUpstream
<1> QED
    BY <1>9, <1>10, <1>11, <1>12 DEF IInv

\* The invariant is inductive.
LEMMA NextInvariant == IInv /\ [Next]_vars => IInv'
<1> SUFFICES ASSUME IInv, [Next]_vars PROVE IInv'
    OBVIOUS
<1>1. CASE UNCHANGED vars
    BY <1>1 DEF vars, IInv, Types, AllSound, Sound, Saving, Holds, Done, Recorded,
        RunsDiffer, EventsOnce, PatchesRefer, SymptomsUpstream
<1>2. CASE Tick
    BY <1>2, TickStep
<1>3. CASE \E e \in Evaluators : EvalStep(e)
    <2>1. PICK e \in Evaluators : EvalStep(e)
        BY <1>3
    <2> QED
        BY <2>1, EvaluateStep, ListDetectedStep, ListInvestigatingStep, OpenIncidentStep,
            MergeTraceStep, SaveMergedStep, EndStep DEF EvalStep
<1>4. CASE \E o \in Operators : PatchStep(o)
    <2>1. PICK o \in Operators : PatchStep(o)
        BY <1>4
    <2> QED
        BY <2>1, SelectStatusStep, WriteStatusStep DEF PatchStep
<1> QED
    BY <1>1, <1>2, <1>3, <1>4 DEF Next

\* However requests overlap, the invariant holds.
LEMMA Invariant == Spec => []IInv
BY InitInvariant, NextInvariant, PTL DEF Spec
----------------------------------------------------------------------------
\* The types of the tables and of the requests, and that an event is in one
\* timeline only (api.py, engine.py and db.py of correlation, for any number of
\* overlapping requests).
THEOREM CorrelationTypeOK == Spec => []TypeOK
<1>1. IInv => TypeOK
    <2> SUFFICES ASSUME IInv PROVE TypeOK
        OBVIOUS
    <2>1. \A i \in DOMAIN incidents : incidents[i] \in Row
        BY Numbered DEF IInv
    <2>2. \A i \in DOMAIN incidents :
              /\ incidents[i].status \in Statuses /\ incidents[i].started \in Nat
              /\ incidents[i].trigger \in Services /\ incidents[i].services \subseteq Services
              /\ incidents[i].events \subseteq Event
        BY <2>1 DEF Row
    <2>3. \A i \in DOMAIN incidents : incidents[i].resolved \in BOOLEAN
        BY <2>1 DEF Row
    <2>4. \A e \in Evaluators : eval[e].pc # "idle" =>
              /\ eval[e].run \in Nat /\ eval[e].logs \subseteq Logs
              /\ eval[e].todo \subseteq Traces
        BY DEF IInv, Types, EvalType, IdleEval, Reading, Merging
    <2>5. \A e \in Evaluators : eval[e].pc # "idle" =>
              \A x \in eval[e].active : x.id \in DOMAIN incidents
        BY DEF IInv, AllSound, Sound, Holds
    <2>6. \A i, j \in DOMAIN incidents :
              i # j => incidents[i].events \cap incidents[j].events = {}
        BY DEF IInv, EventsOnce
    <2>7. \A o \in Operators : patch[o].pc # "idle" => patch[o].id \in DOMAIN incidents
        BY DEF IInv, PatchesRefer
    <2>8. /\ runs \in 0..MaxRuns /\ patches \in 0..MaxPatches
          /\ clock \in {0} \cup Instants
        BY DEF IInv, Types
    <2>9. overlap \in BOOLEAN
        BY DEF IInv, Types
    <2> QED
        BY <2>2, <2>3, <2>4, <2>5, <2>6, <2>7, <2>8, <2>9, Zenon DEF TypeOK
<1> QED
    BY <1>1, Invariant, PTL

\* No error log that an evaluation read is dropped (correlate_logs, engine.py
\* 70-116).
THEOREM NothingDropped == Spec => []TimelineComplete
<1>1. IInv => TimelineComplete
    BY DEF IInv, AllSound, Sound, TimelineComplete, Unsaved
<1> QED
    BY <1>1, Invariant, PTL

\* Every timeline begins upstream of its trigger, stale objects
\* notwithstanding (find_active_downstream_incident, graph.py 43-59).
THEOREM TimelinesUpstream == Spec => []SymptomsUpstream
<1>1. IInv => SymptomsUpstream
    BY DEF IInv
<1> QED
    BY <1>1, Invariant, PTL

\* What HistoryKept says of one step.
Kept == /\ Len(incidents') >= Len(incidents)
        /\ \A i \in DOMAIN incidents :
               incidents[i].events \subseteq incidents'[i].events

\* Events stay when the rows stay where they are.
LEMMA KeptByRows ==
    ASSUME Types, Types', DOMAIN incidents \subseteq DOMAIN incidents',
           \A i \in DOMAIN incidents : incidents[i].events \subseteq incidents'[i].events
    PROVE  Kept
<1>1. DOMAIN incidents = 1..Len(incidents) /\ Len(incidents) \in Nat
    BY Numbered
<1>2. DOMAIN incidents' = 1..Len(incidents') /\ Len(incidents') \in Nat
    BY LenProperties DEF Types
<1>3. Len(incidents) = 0 \/ Len(incidents) \in 1..Len(incidents')
    BY <1>1, <1>2
<1>4. Len(incidents') >= Len(incidents)
    BY <1>1, <1>2, <1>3
<1> QED
    BY <1>4 DEF Kept

\* No step takes a stored event away.
LEMMA StepKeeps == IInv /\ IInv' /\ [Next]_vars => Kept
<1> SUFFICES ASSUME IInv, IInv', [Next]_vars PROVE Kept
    OBVIOUS
<1>1. Types /\ Types'
    BY DEF IInv
<1>2. DOMAIN incidents = 1..Len(incidents) /\ Len(incidents) \in Nat
      /\ incidents \in [1..Len(incidents) -> Row]
    BY <1>1, Numbered, LenProperties DEF Types
<1>3. CASE incidents' = incidents
    BY <1>1, <1>3, KeptByRows
<1>4. ASSUME NEW e \in Evaluators, NEW t \in Traces, OpenIncident(e, t) PROVE Kept
    <2>1. PICK row : incidents' = Append(incidents, row)
        BY <1>4 DEF OpenIncident
    <2>2. /\ DOMAIN incidents' = 1..Len(incidents) + 1
          /\ \A i \in 1..Len(incidents) : incidents'[i] = incidents[i]
        BY <2>1, <1>1, <1>2 DEF Types
    <2>3. DOMAIN incidents \subseteq DOMAIN incidents'
        BY <2>2, <1>2
    <2> QED
        BY <1>1, <1>2, <2>2, <2>3, KeptByRows
<1>5. ASSUME NEW e \in Evaluators, SaveMerged(e) PROVE Kept
    <2> DEFINE x == eval[e].object
               l == eval[e].loaded
               s == incidents[x.id]
               rec == [status   |-> Column(x.status, l.status, s.status),
                       resolved |-> Column(x.resolved, l.resolved, s.resolved),
                       started  |-> s.started, trigger |-> s.trigger,
                       services |-> Column(x.services, l.services, s.services),
                       events   |-> Timeline(s.events, eval[e].events)]
    <2>1. /\ incidents' = [incidents EXCEPT ![x.id] = rec]
          /\ rec.events = Timeline(s.events, eval[e].events)
        BY <1>5 DEF SaveMerged
    <2> HIDE DEF rec
    <2>2. \A i \in DOMAIN incidents : incidents[i].events \subseteq incidents'[i].events
        BY <2>1, <1>2 DEF Timeline
    <2>3. DOMAIN incidents' = DOMAIN incidents
        BY <2>1, <1>2
    <2> QED
        BY <1>1, <2>2, <2>3, KeptByRows
<1>6. ASSUME NEW o \in Operators, WriteStatus(o) PROVE Kept
    <2> DEFINE p == patch[o]
    <2>1. DOMAIN incidents' = DOMAIN incidents
        BY <1>2, <1>6 DEF WriteStatus
    <2>2. \A i \in DOMAIN incidents : incidents[i] \in Row
        BY <1>1, Numbered
    <2>3. \A i \in DOMAIN incidents : incidents'[i].events = incidents[i].events
        BY <1>2, <1>6, <2>2 DEF WriteStatus, Row
    <2> QED
        BY <1>1, <2>1, <2>3, KeptByRows
<1>7. \/ incidents' = incidents
      \/ \E e \in Evaluators : SaveMerged(e) \/ \E t \in Traces : OpenIncident(e, t)
      \/ \E o \in Operators : WriteStatus(o)
    BY DEF Next, vars, Tick, EvalStep, PatchStep, Evaluate, ListDetected,
        ListInvestigating, MergeTrace, Finish, Abort, SelectStatus
<1> QED
    BY <1>3, <1>4, <1>5, <1>6, <1>7

\* No incident and no stored event is ever taken away (save_incident, db.py
\* 89-152; update_incident_status, 175-188).
THEOREM HistoryIsKept == Spec => HistoryKept
<1>1. IInv /\ IInv' /\ [Next]_vars => [Kept]_vars
    BY StepKeeps
<1>2. Spec => []IInv /\ [][Next]_vars
    BY Invariant, PTL DEF Spec
<1>3. Spec => [][Kept]_vars
    BY <1>1, <1>2, PTL
<1> QED
    BY <1>3, PTL DEF HistoryKept, Kept
----------------------------------------------------------------------------
(***************************************************************************)
(* The incidents that evaluations leave behind when they do not overlap,   *)
(* and their fallback report.                                              *)
(***************************************************************************)
\* At most one request is in progress.
Alone ==
    /\ \A e, f \in Evaluators : eval[e].pc # "idle" /\ eval[f].pc # "idle" => e = f
    /\ \A e \in Evaluators, o \in Operators : eval[e].pc = "idle" \/ patch[o].pc = "idle"

\* The objects of an evaluation agree with the rows of their incidents.
Agrees(x) == /\ x.status = incidents[x.id].status
             /\ x.started = incidents[x.id].started
Current(x) == Agrees(x) /\ x.services = incidents[x.id].services

\* The objects A are those of all incidents with some status, one for each.
Covers(A, statuses) == \A i \in DOMAIN incidents :
    incidents[i].status \in statuses => \E x \in A : x.id = i
OneEach(A) == \A x, y \in A : x.id = y.id => x = y

\* What an evaluation knows while it is alone.
FreshObject(r) ==
    /\ r.pc = "detected" => r.active = {}
    /\ r.pc = "investigating" =>
        /\ \A x \in r.active : Current(x) /\ x.status = "DETECTED"
        /\ Covers(r.active, {"DETECTED"}) /\ OneEach(r.active)
    /\ r.pc = "traces" =>
        /\ \A x \in r.active : Current(x)
        /\ Covers(r.active, ActiveStatuses) /\ OneEach(r.active)
    /\ r.pc = "save" =>
        /\ \A x \in r.active : Agrees(x) /\ (x # r.object => Current(x))
        /\ Covers(r.active, ActiveStatuses) /\ OneEach(r.active)
        /\ r.object \in r.active /\ r.loaded = incidents[r.object.id]
        /\ r.loaded.services \subseteq r.object.services
        /\ \A v \in r.events : v.log.service \in r.object.services

AllFresh == \A e \in Evaluators : FreshObject(eval[e])

AllCovered == \A i \in DOMAIN incidents : \A v \in incidents[i].events :
    v.log.service \in incidents[i].services

QInv == ~ overlap => Alone /\ AllFresh /\ AllCovered
----------------------------------------------------------------------------
\* While one evaluation is in progress alone, only its own state matters.
LEMMA QuietStep ==
    ASSUME IInv, QInv, NEW e \in Evaluators, eval[e].pc # "idle", NEW r,
           eval' = [eval EXCEPT ![e] = r], patch' = patch, overlap' = overlap,
           ~ overlap => FreshObject(r)' /\ AllCovered'
    PROVE  QInv'
<1> SUFFICES ASSUME ~ overlap PROVE Alone' /\ AllFresh' /\ AllCovered'
    BY DEF QInv
<1>1. Alone
    BY DEF QInv
<1>2. \A f \in Evaluators : eval'[f] = IF f = e THEN r ELSE eval[f]
    BY DEF IInv, Types
<1>3. Alone'
    BY <1>1, <1>2 DEF Alone
<1>4. \A f \in Evaluators : f # e => eval[f].pc = "idle"
    BY <1>1 DEF Alone
<1>5. ASSUME NEW f \in Evaluators PROVE FreshObject(eval[f])'
    <2>1. CASE f = e
        BY <1>2, <2>1 DEF FreshObject, Current, Agrees, Covers, OneEach
    <2>2. CASE f # e
        <3>1. eval'[f].pc = "idle"
            BY <1>2, <1>4, <2>2
        <3> QED
            BY <3>1 DEF FreshObject
    <2> QED
        BY <2>1, <2>2
<1> QED
    BY <1>3, <1>5 DEF AllFresh

\* A request that begins while nothing is in progress is alone.
LEMMA QuietBegin ==
    ASSUME IInv, QInv, UNCHANGED incidents, overlap' = (overlap \/ Busy),
           \/ /\ patch' = patch
              /\ \E e \in Evaluators : \E r :
                    /\ eval' = [eval EXCEPT ![e] = r]
                    /\ r.pc = "detected" /\ r.active = {}
           \/ /\ eval' = eval
              /\ \E o \in Operators : \E r : patch' = [patch EXCEPT ![o] = r]
    PROVE  QInv'
<1> SUFFICES ASSUME ~ overlap' PROVE Alone' /\ AllFresh' /\ AllCovered'
    BY DEF QInv
<1>1. /\ \A f \in Evaluators : eval[f].pc = "idle"
      /\ \A p \in Operators : patch[p].pc = "idle"
    BY DEF Busy
<1>2. AllCovered'
    BY DEF QInv, AllCovered
<1>3. CASE eval' = eval
    BY <1>1, <1>2, <1>3 DEF Alone, AllFresh, FreshObject
<1>4. ASSUME NEW e \in Evaluators, NEW r, eval' = [eval EXCEPT ![e] = r],
             r.pc = "detected", r.active = {}, patch' = patch
      PROVE  Alone' /\ AllFresh'
    <2>1. \A f \in Evaluators : eval'[f] = IF f = e THEN r ELSE eval[f]
        BY <1>4 DEF IInv, Types
    <2> QED
        BY <1>1, <1>4, <2>1 DEF Alone, AllFresh, FreshObject
<1> QED
    BY <1>2, <1>3, <1>4

\* What a listing returns is as the table is, one object for each row.
LEMMA ListedCurrent ==
    ASSUME NEW status, NEW rank
    PROVE  /\ \A x \in Listed(status, rank) : /\ Current(x) /\ x.status = status
                                              /\ x.id \in DOMAIN incidents
           /\ Covers(Listed(status, rank), {status})
           /\ OneEach(Listed(status, rank))
<1> DEFINE I == {i \in DOMAIN incidents : incidents[i].status = status}
<1>1. Listed(status, rank) = {Object(i, rank) : i \in I}
    BY DEF Listed
<1>2. \A i : /\ Object(i, rank).id = i
             /\ Object(i, rank).status = incidents[i].status
             /\ Object(i, rank).started = incidents[i].started
             /\ Object(i, rank).services = incidents[i].services
    BY DEF Object
<1>3. \A x \in Listed(status, rank) : /\ Current(x) /\ x.status = status
                                      /\ x.id \in DOMAIN incidents /\ x = Object(x.id, rank)
    BY <1>1, <1>2 DEF Current, Agrees
<1>4. Covers(Listed(status, rank), {status})
    BY <1>1, <1>2 DEF Covers
<1>5. OneEach(Listed(status, rank))
    BY <1>3 DEF OneEach
<1> QED
    BY <1>3, <1>4, <1>5

\* What the first listing holds is as the table is.
LEMMA QuietListDetected ==
    ASSUME IInv, QInv, NEW e \in Evaluators, ListDetected(e) PROVE QInv'
<1> DEFINE r == [eval[e] EXCEPT !.pc = "investigating", !.active = Listed("DETECTED", 1)]
<1>1. eval[e] \in EvalType /\ eval[e].pc = "detected"
    BY DEF IInv, Types, ListDetected
<1>2. eval[e] \in Reading
    BY <1>1 DEF EvalType, IdleEval, Merging
<1>3. r.pc = "investigating" /\ r.active = Listed("DETECTED", 1)
    BY <1>2 DEF Reading
<1>4. eval' = [eval EXCEPT ![e] = r] /\ UNCHANGED <<incidents, patch, overlap>>
    BY DEF ListDetected
<1> HIDE DEF r
<1>5. FreshObject(r)
    BY <1>3, ListedCurrent DEF FreshObject
<1>6. ASSUME NEW q, q = r PROVE QInv'
    <2>1. FreshObject(q)'
        BY <1>4, <1>5, <1>6 DEF FreshObject, Current, Agrees, Covers, OneEach
    <2>2. ~ overlap => AllCovered'
        BY <1>4 DEF QInv, AllCovered
    <2> QED
        BY <2>1, <2>2, <1>1, <1>4, <1>6, QuietStep
<1> QED
    BY <1>6

\* The second listing completes the first: together they cover what is active.
LEMMA QuietListInvestigating ==
    ASSUME IInv, QInv, NEW e \in Evaluators, ListInvestigating(e) PROVE QInv'
<1> DEFINE r == [eval[e] EXCEPT !.pc = "traces",
                                !.active = @ \cup Listed("INVESTIGATING", 2)]
           L == Listed("INVESTIGATING", 2)
<1>1. eval[e] \in EvalType /\ eval[e].pc = "investigating"
    BY DEF IInv, Types, ListInvestigating
<1>2. eval[e] \in Reading
    BY <1>1 DEF EvalType, IdleEval, Merging
<1>3. r.pc = "traces" /\ r.active = eval[e].active \cup L
    BY <1>2 DEF Reading
<1>4. eval' = [eval EXCEPT ![e] = r] /\ UNCHANGED <<incidents, patch, overlap>>
    BY DEF ListInvestigating
<1>5. /\ \A x \in L : Current(x) /\ x.status = "INVESTIGATING"
      /\ Covers(L, {"INVESTIGATING"}) /\ OneEach(L)
    BY ListedCurrent
<1> HIDE DEF r, L
<1>6. ASSUME ~ overlap PROVE FreshObject(r)
    <2>1. /\ \A x \in eval[e].active : Current(x) /\ x.status = "DETECTED"
          /\ Covers(eval[e].active, {"DETECTED"}) /\ OneEach(eval[e].active)
        BY <1>1, <1>6 DEF QInv, AllFresh, FreshObject
    <2>2. Covers(r.active, ActiveStatuses)
        BY <1>3, <1>5, <2>1 DEF Covers, ActiveStatuses
    <2>3. OneEach(r.active)
        BY <1>3, <1>5, <2>1 DEF OneEach, Current, Agrees
    <2> QED
        BY <1>3, <1>5, <2>1, <2>2, <2>3 DEF FreshObject
<1>7. ASSUME NEW q, q = r PROVE QInv'
    <2>1. ~ overlap => FreshObject(q)'
        BY <1>4, <1>6, <1>7 DEF FreshObject, Current, Agrees, Covers, OneEach
    <2>2. ~ overlap => AllCovered'
        BY <1>4 DEF QInv, AllCovered
    <2> QED
        BY <2>1, <2>2, <1>1, <1>4, <1>7, QuietStep
<1> QED
    BY <1>7

\* An evaluation that ends, or is given up, leaves nothing to agree with.
LEMMA QuietEnd ==
    ASSUME IInv, QInv, NEW e \in Evaluators, Finish(e) \/ Abort(e) PROVE QInv'
<1>1. eval[e].pc # "idle"
    BY DEF Finish, Abort
<1>2. /\ eval' = [eval EXCEPT ![e] = IdleEval]
      /\ UNCHANGED <<incidents, patch, overlap>>
    BY DEF Finish, Abort
<1>3. FreshObject(IdleEval)'
    BY DEF FreshObject, IdleEval
<1>4. ~ overlap => AllCovered'
    BY <1>2 DEF QInv, AllCovered
<1> QED
    BY <1>1, <1>2, <1>3, <1>4, QuietStep

\* The object that took the trace is ahead of its row by the services of the
\* trace, and only it.
LEMMA QuietMergeTrace ==
    ASSUME IInv, QInv, NEW e \in Evaluators, NEW t \in Traces, MergeTrace(e, t)
    PROVE  QInv'
<1> DEFINE S == TraceLogs(e, t)
<1>1. eval[e] \in EvalType /\ eval[e].pc = "traces"
    BY DEF IInv, Types, MergeTrace
<1>2. eval[e] \in Reading
    BY <1>1 DEF EvalType, IdleEval, Merging
<1>3. PICK first \in Earliest(S) : \E x \in Candidates(e, first.service) :
          eval' = [eval EXCEPT ![e] =
              [pc |-> "save", run |-> eval[e].run, logs |-> eval[e].logs,
               todo |-> eval[e].todo \ {t},
               active |-> (eval[e].active \ {x})
                   \cup {[x EXCEPT !.services = @ \cup Affected(S, first)]},
               object |-> [x EXCEPT !.services = @ \cup Affected(S, first)],
               loaded |-> incidents[x.id],
               events |-> EventsOf(S, first, eval[e].run)]]
    BY DEF MergeTrace
<1>4. PICK x \in Candidates(e, first.service) :
          eval' = [eval EXCEPT ![e] =
              [pc |-> "save", run |-> eval[e].run, logs |-> eval[e].logs,
               todo |-> eval[e].todo \ {t},
               active |-> (eval[e].active \ {x})
                   \cup {[x EXCEPT !.services = @ \cup Affected(S, first)]},
               object |-> [x EXCEPT !.services = @ \cup Affected(S, first)],
               loaded |-> incidents[x.id],
               events |-> EventsOf(S, first, eval[e].run)]]
    BY <1>3
<1> DEFINE y == [x EXCEPT !.services = @ \cup Affected(S, first)]
           N == EventsOf(S, first, eval[e].run)
           r == [pc |-> "save", run |-> eval[e].run, logs |-> eval[e].logs,
                 todo |-> eval[e].todo \ {t}, active |-> (eval[e].active \ {x}) \cup {y},
                 object |-> y, loaded |-> incidents[x.id], events |-> N]
<1>5. x \in eval[e].active /\ x \in ObjectType
    BY <1>2, <1>4 DEF Candidates, Reading
<1>6. /\ y.id = x.id /\ y.status = x.status /\ y.started = x.started
      /\ y.services = x.services \cup Affected(S, first)
    BY <1>5 DEF ObjectType
<1>7. S \subseteq Logs /\ first \in S /\ eval[e].run \in Nat
    BY <1>1, <1>2, <1>3, WholeTrace DEF Earliest, Reading
<1>8. \A v \in N : v.log.service \in Affected(S, first)
    BY <1>7, TraceEvents DEF Affected
<1> HIDE DEF y, N, S
<1>9. eval' = [eval EXCEPT ![e] = r] /\ UNCHANGED <<incidents, patch, overlap>>
    BY <1>4 DEF MergeTrace, y, N, S
<1>10. /\ r.pc = "save" /\ r.active = (eval[e].active \ {x}) \cup {y} /\ r.object = y
       /\ r.loaded = incidents[x.id] /\ r.events = N
    OBVIOUS
<1> HIDE DEF r
<1>11. ASSUME ~ overlap PROVE FreshObject(r)
    <2>1. /\ \A z \in eval[e].active : Current(z)
          /\ Covers(eval[e].active, ActiveStatuses) /\ OneEach(eval[e].active)
        BY <1>1, <1>11 DEF QInv, AllFresh, FreshObject
    <2>2. Covers(r.active, ActiveStatuses)
        BY <1>6, <1>10, <2>1 DEF Covers
    <2>3. OneEach(r.active)
        BY <1>5, <1>6, <1>10, <2>1 DEF OneEach
    <2>4. \A z \in r.active : Agrees(z) /\ (z # r.object => Current(z))
        BY <1>5, <1>6, <1>10, <2>1 DEF Current, Agrees
    <2>5. r.loaded = incidents[r.object.id] /\ r.loaded.services \subseteq r.object.services
        BY <1>5, <1>6, <1>10, <2>1 DEF Current
    <2>6. \A v \in r.events : v.log.service \in r.object.services
        BY <1>6, <1>8, <1>10
    <2> QED
        BY <1>10, <2>2, <2>3, <2>4, <2>5, <2>6 DEF FreshObject
<1>12. ASSUME NEW q, q = r PROVE QInv'
    <2>1. ~ overlap => FreshObject(q)'
        BY <1>9, <1>11, <1>12 DEF FreshObject, Current, Agrees, Covers, OneEach
    <2>2. ~ overlap => AllCovered'
        BY <1>9 DEF QInv, AllCovered
    <2> QED
        BY <2>1, <2>2, <1>1, <1>9, <1>12, QuietStep
<1> QED
    BY <1>12

\* The row that is written has the services of the object, which now agrees.
LEMMA QuietSaveMerged ==
    ASSUME IInv, QInv, NEW e \in Evaluators, SaveMerged(e) PROVE QInv'
<1> DEFINE x == eval[e].object
           l == eval[e].loaded
           s == incidents[x.id]
           rec == [status   |-> Column(x.status, l.status, s.status),
                   resolved |-> Column(x.resolved, l.resolved, s.resolved),
                   started  |-> s.started, trigger |-> s.trigger,
                   services |-> Column(x.services, l.services, s.services),
                   events   |-> Timeline(s.events, eval[e].events)]
           r == [pc |-> "traces", run |-> eval[e].run, logs |-> eval[e].logs,
                 todo |-> eval[e].todo, active |-> eval[e].active]
<1>1. eval[e] \in EvalType /\ eval[e].pc = "save" /\ x.id \in DOMAIN incidents
    BY DEF IInv, Types, AllSound, Sound, Saving, Holds, SaveMerged
<1>2. incidents' = [incidents EXCEPT ![x.id] = rec] /\ eval' = [eval EXCEPT ![e] = r]
    BY DEF SaveMerged
<1>3. UNCHANGED <<patch, overlap>>
    BY DEF SaveMerged
<1>4. /\ rec.status = Column(x.status, l.status, s.status) /\ rec.started = s.started
      /\ rec.services = Column(x.services, l.services, s.services)
      /\ rec.events = s.events \cup eval[e].events
    BY DEF Timeline
<1>5. r.pc = "traces" /\ r.active = eval[e].active
    OBVIOUS
<1>6. DOMAIN incidents = 1..Len(incidents) /\ incidents \in [1..Len(incidents) -> Row]
    BY Numbered, LenProperties DEF IInv, Types
<1> HIDE DEF rec, r
<1>7. /\ DOMAIN incidents' = DOMAIN incidents
      /\ \A i \in DOMAIN incidents :
            incidents'[i] = IF i = x.id THEN rec ELSE incidents[i]
    BY <1>1, <1>2, <1>6
<1>8. ASSUME ~ overlap, NEW q, q = r PROVE AllCovered' /\ FreshObject(q)'
    <2>1. /\ \A z \in eval[e].active : Agrees(z) /\ (z # x => Current(z))
          /\ Covers(eval[e].active, ActiveStatuses) /\ OneEach(eval[e].active)
          /\ x \in eval[e].active /\ l = s /\ l.services \subseteq x.services
          /\ \A v \in eval[e].events : v.log.service \in x.services
        BY <1>1, <1>8 DEF QInv, AllFresh, FreshObject
    <2>2. rec.status = s.status /\ x.status = s.status /\ rec.services = x.services
        BY <1>4, <2>1 DEF Column, Agrees
    <2>3. AllCovered'
        BY <1>4, <1>7, <1>8, <2>1, <2>2 DEF QInv, AllCovered
    <2>4. ASSUME NEW z \in eval[e].active PROVE Current(z)'
        <3>1. z.id \in DOMAIN incidents
            BY <1>1, <2>4 DEF IInv, AllSound, Sound, Holds
        <3>2. CASE z.id = x.id
            BY <1>4, <1>7, <2>1, <2>2, <2>4, <3>1, <3>2 DEF OneEach, Current, Agrees
        <3>3. CASE z.id # x.id
            BY <1>7, <2>1, <2>4, <3>1, <3>3 DEF Current, Agrees
        <3> QED
            BY <3>2, <3>3
    <2>5. Covers(q.active, ActiveStatuses)'
        BY <1>5, <1>7, <1>8, <2>1, <2>2 DEF Covers, ActiveStatuses
    <2>6. q.pc = "traces" /\ (\A z \in q.active : Current(z)') /\ OneEach(q.active)'
        BY <1>5, <1>8, <2>1, <2>4 DEF OneEach
    <2> QED
        BY <2>3, <2>5, <2>6 DEF FreshObject
<1>9. ASSUME NEW q, q = r PROVE QInv'
    <2>1. eval' = [eval EXCEPT ![e] = q] /\ eval[e].pc # "idle"
        BY <1>1, <1>2, <1>9
    <2>2. ~ overlap => FreshObject(q)' /\ AllCovered'
        BY <1>8, <1>9
    <2> QED
        BY <2>1, <2>2, <1>3, QuietStep
<1> QED
    BY <1>9

\* A new incident names the services of its timeline, and its object is new.
LEMMA QuietOpenIncident ==
    ASSUME IInv, QInv, NEW e \in Evaluators, NEW t \in Traces, OpenIncident(e, t)
    PROVE  QInv'
<1> DEFINE S == TraceLogs(e, t)
           R == eval[e].run
           K == Len(incidents) + 1
           row(first) ==
        [status |-> "DETECTED", resolved |-> FALSE, started |-> first.at,
         trigger |-> first.service, services |-> Affected(S, first),
         events |-> EventsOf(S, first, R)]
           obj(first) ==
        [id |-> K, rank |-> 3, status |-> "DETECTED", resolved |-> FALSE,
         started |-> first.at, trigger |-> first.service,
         services |-> Affected(S, first)]
           next(first) == [eval[e] EXCEPT !.todo = @ \ {t}, !.active = @ \cup {obj(first)}]
<1>1. eval[e] \in EvalType /\ eval[e].pc = "traces"
    BY DEF IInv, Types, OpenIncident
<1>2. eval[e] \in Reading
    BY <1>1 DEF EvalType, IdleEval, Merging
<1>3. PICK first \in Earliest(S) :
          /\ incidents' = Append(incidents, row(first))
          /\ eval' = [eval EXCEPT ![e] = next(first)]
    BY DEF OpenIncident, Remembered
<1>4. S \subseteq Logs /\ first \in S /\ R \in Nat
    BY <1>1, <1>2, <1>3, WholeTrace DEF Earliest, Reading
<1>5. \A v \in row(first).events : v.log.service \in row(first).services
    BY <1>4, TraceEvents DEF Affected
<1>6. /\ obj(first).id = K /\ obj(first).status = row(first).status
      /\ obj(first).started = row(first).started
      /\ obj(first).services = row(first).services
    OBVIOUS
<1>7. next(first).pc = "traces" /\ next(first).active = eval[e].active \cup {obj(first)}
    BY <1>1, <1>2 DEF Reading
<1>8. /\ Len(incidents) \in Nat /\ DOMAIN incidents = 1..Len(incidents)
      /\ incidents \in Seq(Row)
    BY Numbered DEF IInv, Types
<1> HIDE DEF row, obj, next, S, R
<1>9. /\ DOMAIN incidents' = DOMAIN incidents \cup {K} /\ K \notin DOMAIN incidents
      /\ \A i \in DOMAIN incidents : incidents'[i] = incidents[i]
      /\ incidents'[K] = row(first)
    BY <1>3, <1>8
<1> HIDE DEF K
<1>10. UNCHANGED <<patch, overlap>>
    BY DEF OpenIncident
<1>11. ASSUME ~ overlap, NEW q, q = next(first) PROVE AllCovered' /\ FreshObject(q)'
    <2>1. /\ \A z \in eval[e].active : Current(z)
          /\ Covers(eval[e].active, ActiveStatuses) /\ OneEach(eval[e].active)
        BY <1>1, <1>11 DEF QInv, AllFresh, FreshObject
    <2>2. \A z \in eval[e].active : z.id \in DOMAIN incidents
        BY <1>1 DEF IInv, AllSound, Sound, Holds
    <2>3. AllCovered'
        BY <1>5, <1>9, <1>11 DEF QInv, AllCovered
    <2>4. \A z \in q.active : Current(z)'
        BY <1>6, <1>7, <1>9, <1>11, <2>1, <2>2 DEF Current, Agrees
    <2>5. Covers(q.active, ActiveStatuses)'
        BY <1>6, <1>7, <1>9, <1>11, <2>1 DEF Covers, ActiveStatuses
    <2>6. OneEach(q.active)'
        BY <1>6, <1>7, <1>9, <1>11, <2>1, <2>2 DEF OneEach
    <2>7. q.pc = "traces"
        BY <1>7, <1>11
    <2> QED
        BY <2>3, <2>4, <2>5, <2>6, <2>7 DEF FreshObject
<1>12. ASSUME NEW q, q = next(first) PROVE QInv'
    <2>1. eval' = [eval EXCEPT ![e] = q] /\ eval[e].pc # "idle"
        BY <1>1, <1>3, <1>12
    <2>2. ~ overlap => FreshObject(q)' /\ AllCovered'
        BY <1>11, <1>12
    <2> QED
        BY <2>1, <2>2, <1>10, QuietStep
<1> QED
    BY <1>12

\* A status that is written while no evaluation is in progress.
LEMMA QuietWriteStatus ==
    ASSUME IInv, QInv, NEW o \in Operators, WriteStatus(o) PROVE QInv'
<1> SUFFICES ASSUME ~ overlap PROVE Alone' /\ AllFresh' /\ AllCovered'
    BY DEF QInv, WriteStatus
<1>1. patch[o].pc = "write" /\ patch' = [patch EXCEPT ![o] = IdlePatch] /\ eval' = eval
    BY DEF WriteStatus
<1>2. \A e \in Evaluators : eval[e].pc = "idle"
    BY <1>1 DEF QInv, Alone
<1>3. Alone' /\ AllFresh'
    BY <1>1, <1>2 DEF Alone, AllFresh, FreshObject
<1>4. /\ DOMAIN incidents = 1..Len(incidents) /\ incidents \in [1..Len(incidents) -> Row]
      /\ \A i \in DOMAIN incidents : incidents[i] \in Row
    BY Numbered, LenProperties DEF IInv, Types
<1>5. /\ DOMAIN incidents' = DOMAIN incidents
      /\ \A i \in DOMAIN incidents : /\ incidents'[i].events = incidents[i].events
                                     /\ incidents'[i].services = incidents[i].services
    BY <1>4 DEF WriteStatus, Row
<1>6. AllCovered'
    BY <1>5 DEF QInv, AllCovered
<1> QED
    BY <1>3, <1>6

\* Every step keeps what is known while requests do not overlap.
LEMMA QuietNext == IInv /\ QInv /\ [Next]_vars => QInv'
<1> SUFFICES ASSUME IInv, QInv, [Next]_vars PROVE QInv'
    OBVIOUS
<1>1. CASE Tick \/ UNCHANGED vars
    <2>1. UNCHANGED <<incidents, eval, patch, overlap>>
        BY <1>1 DEF Tick, vars
    <2> QED
        BY <2>1 DEF QInv, Alone, AllFresh, FreshObject, Current, Agrees, Covers, OneEach,
            AllCovered
<1>2. ASSUME NEW e \in Evaluators, NEW spiked, Evaluate(e, spiked) PROVE QInv'
    <2>1. UNCHANGED <<incidents, patch>> /\ overlap' = (overlap \/ Busy)
        BY <1>2 DEF Evaluate
    <2>2. PICK logs \in ErrorLogs(spiked) : eval' = [eval EXCEPT ![e] =
              [pc |-> "detected", run |-> runs, logs |-> logs, active |-> {},
               todo |-> {l.trace : l \in logs}]]
        BY <1>2 DEF Evaluate
    <2> DEFINE r == [pc |-> "detected", run |-> runs, logs |-> logs, active |-> {},
                     todo |-> {l.trace : l \in logs}]
    <2>3. eval' = [eval EXCEPT ![e] = r] /\ r.pc = "detected" /\ r.active = {}
        BY <2>2
    <2> HIDE DEF r
    <2>4. \E q : eval' = [eval EXCEPT ![e] = q] /\ q.pc = "detected" /\ q.active = {}
        BY <2>3
    <2> QED
        BY <2>1, <2>4, QuietBegin
<1>3. ASSUME NEW o \in Operators, NEW i, NEW status, SelectStatus(o, i, status) PROVE QInv'
    BY <1>3, QuietBegin DEF SelectStatus
<1>4. CASE \E e \in Evaluators : EvalStep(e)
    <2>1. PICK e \in Evaluators : EvalStep(e)
        BY <1>4
    <2> QED
        BY <2>1, <1>2, QuietListDetected, QuietListInvestigating, QuietOpenIncident,
            QuietMergeTrace, QuietSaveMerged, QuietEnd DEF EvalStep
<1>5. CASE \E o \in Operators : PatchStep(o)
    <2>1. PICK o \in Operators : PatchStep(o)
        BY <1>5
    <2> QED
        BY <2>1, <1>3, QuietWriteStatus DEF PatchStep
<1> QED
    BY <1>1, <1>4, <1>5 DEF Next

\* As long as requests did not overlap, objects are as their rows are.
LEMMA QuietInvariant == Spec => []QInv
<1>1. Init => QInv
    BY DEF Init, QInv, Alone, AllFresh, FreshObject, AllCovered, IdleEval, IdlePatch
<1> QED
    BY <1>1, QuietNext, Invariant, PTL DEF Spec
----------------------------------------------------------------------------
\* As long as requests did not overlap, an incident names every service of its
\* timeline (correlate_logs, engine.py 76-98; save_incident, db.py 95-121).
THEOREM ServicesAreCovered == Spec => []AffectedCovered
<1>1. QInv => AffectedCovered
    BY DEF QInv, AllCovered, AffectedCovered
<1> QED
    BY <1>1, QuietInvariant, PTL

Suppressed ==
    ~ overlap /\ Len(incidents') > Len(incidents) =>
        ~ \E i \in DOMAIN incidents :
            /\ incidents[i].status \in ActiveStatuses /\ Recent(incidents[i].started)
            /\ incidents[i].trigger \in DependsOn[incidents'[Len(incidents')].trigger]

\* An active and recent incident downstream would have been a candidate.
LEMMA OpenSuppressed ==
    ASSUME IInv, QInv, NEW e \in Evaluators, NEW t \in Traces, OpenIncident(e, t)
    PROVE  Suppressed
<1> SUFFICES ASSUME ~ overlap, NEW i \in DOMAIN incidents,
                    incidents[i].status \in ActiveStatuses, Recent(incidents[i].started),
                    incidents[i].trigger \in DependsOn[incidents'[Len(incidents')].trigger]
             PROVE  FALSE
    BY DEF Suppressed
<1>1. PICK first \in Earliest(TraceLogs(e, t)) :
          /\ Candidates(e, first.service) = {}
          /\ \E row : row.trigger = first.service /\ incidents' = Append(incidents, row)
    BY DEF OpenIncident
<1>2. /\ eval[e] \in EvalType /\ eval[e].pc = "traces"
      /\ incidents \in Seq(Row) /\ Len(incidents) \in Nat
    BY Numbered DEF IInv, Types, OpenIncident
<1>3. incidents'[Len(incidents')].trigger = first.service
    BY <1>1, <1>2
<1>4. PICK x \in eval[e].active : x.id = i
    BY <1>2 DEF QInv, AllFresh, FreshObject, Covers
<1>5. Current(x)
    BY <1>2 DEF QInv, AllFresh, FreshObject
<1>6. x.trigger = incidents[i].trigger
    BY <1>2, <1>4 DEF IInv, AllSound, Sound, Holds
<1>7. x \in Candidates(e, first.service)
    BY <1>3, <1>4, <1>5, <1>6 DEF Candidates, IsSymptom, Current, Agrees
<1> QED
    BY <1>1, <1>7

\* No other step adds a row.
LEMMA StepSuppresses == IInv /\ QInv /\ [Next]_vars => Suppressed
<1> SUFFICES ASSUME IInv, QInv, [Next]_vars PROVE Suppressed
    OBVIOUS
<1>1. /\ incidents \in Seq(Row) /\ Len(incidents) \in Nat
      /\ DOMAIN incidents = 1..Len(incidents)
    BY Numbered DEF IInv, Types
<1>2. ASSUME DOMAIN incidents' = DOMAIN incidents,
             incidents' \in Seq(Row) PROVE Suppressed
    <2>1. Len(incidents') = Len(incidents)
        BY <1>1, <1>2, LenProperties
    <2> QED
        BY <1>1, <2>1 DEF Suppressed
<1>3. incidents' \in Seq(Row)
    BY NextInvariant DEF IInv, Types
<1>4. CASE \E e \in Evaluators, t \in Traces : OpenIncident(e, t)
    BY <1>4, OpenSuppressed
<1>5. CASE \/ incidents' = incidents \/ \E e \in Evaluators : SaveMerged(e)
           \/ \E o \in Operators : WriteStatus(o)
    <2>1. DOMAIN incidents' = DOMAIN incidents
        BY <1>1, <1>5 DEF SaveMerged, WriteStatus
    <2> QED
        BY <1>2, <1>3, <2>1
<1>6. \/ incidents' = incidents
      \/ \E e \in Evaluators : SaveMerged(e) \/ \E t \in Traces : OpenIncident(e, t)
      \/ \E o \in Operators : WriteStatus(o)
    BY DEF Next, vars, Tick, EvalStep, PatchStep, Evaluate, ListDetected,
        ListInvestigating, MergeTrace, Finish, Abort, SelectStatus
<1> QED
    BY <1>4, <1>5, <1>6

\* As long as requests did not overlap, the error of a service is not made an
\* incident of its own while one that it depends on has an active and recent
\* one (correlate_logs, engine.py 48-117).
THEOREM SymptomsAreSuppressed == Spec => SymptomsSuppressed
<1>1. IInv /\ QInv /\ [Next]_vars => [Suppressed]_vars
    BY StepSuppresses
<1>2. Spec => [][Suppressed]_vars
    BY <1>1, Invariant, QuietInvariant, PTL DEF Spec
<1> QED
    BY <1>2, PTL DEF SymptomsSuppressed, Suppressed
----------------------------------------------------------------------------
\* A nonempty set of events has a first one.
LEMMA FirstExists ==
    ASSUME NEW S, S \subseteq Event, S # {} PROVE First(S) # {}
<1> DEFINE less == {p \in Nat \X Nat : p[1] < p[2]}
           times == {v.log.at : v \in S}
<1>1. IsWellFoundedOn(less, Nat)
    BY NatLessThanWellFounded DEF OpToRel
<1>2. times \subseteq Nat /\ times # {}
    BY CorrelationAssumption DEF Event
<1>3. PICK m \in times : \A n \in times : ~ (<<n, m>> \in less)
    <2> HIDE DEF less, times
    <2> QED
        BY <1>1, <1>2, WFMin
<1>4. ASSUME NEW n \in times PROVE m <= n
    <2> HIDE DEF times
    <2>1. m \in Nat /\ n \in Nat /\ ~ (<<n, m>> \in less)
        BY <1>2, <1>3
    <2>2. ~ (n < m)
        BY <2>1
    <2> QED
        BY <2>1, <2>2
<1> QED
    BY <1>4 DEF First

\* An incident has the initial error that it began with, at its start.
Begun(i) == \E v \in incidents[i].events :
                v.kind = "INITIAL_ERROR" /\ v.log.at = incidents[i].started
AllBegun == \A i \in DOMAIN incidents : Begun(i)

\* A row is inserted with its initial error, and keeps it and its start.
LEMMA BegunStep == IInv /\ IInv' /\ AllBegun /\ [Next]_vars => AllBegun'
<1> SUFFICES ASSUME IInv, IInv', AllBegun, [Next]_vars PROVE AllBegun'
    OBVIOUS
<1>1. /\ incidents \in Seq(Row) /\ Len(incidents) \in Nat
      /\ DOMAIN incidents = 1..Len(incidents)
      /\ \A i \in DOMAIN incidents : incidents[i] \in Row
    BY Numbered DEF IInv, Types
<1>2. CASE incidents' = incidents
    BY <1>2 DEF AllBegun, Begun
<1>3. ASSUME DOMAIN incidents' = DOMAIN incidents,
             \A i \in DOMAIN incidents : /\ incidents'[i].started = incidents[i].started
                                         /\ incidents[i].events \subseteq incidents'[i].events
      PROVE  AllBegun'
    BY <1>3 DEF AllBegun, Begun
<1>4. ASSUME NEW e \in Evaluators, NEW t \in Traces, OpenIncident(e, t) PROVE AllBegun'
    <2> DEFINE S == TraceLogs(e, t)
               R == eval[e].run
               row(first) ==
            [status |-> "DETECTED", resolved |-> FALSE, started |-> first.at,
             trigger |-> first.service, services |-> Affected(S, first),
             events |-> EventsOf(S, first, R)]
    <2>1. PICK first \in Earliest(S) : incidents' = Append(incidents, row(first))
        BY <1>4 DEF OpenIncident
    <2>2. first \in S
        BY DEF Earliest
    <2>3. /\ row(first).started = first.at
          /\ [log |-> first, run |-> R, kind |-> "INITIAL_ERROR"] \in row(first).events
        BY <2>2 DEF EventsOf
    <2> HIDE DEF row
    <2>4. /\ DOMAIN incidents' = DOMAIN incidents \cup {Len(incidents) + 1}
          /\ \A i \in DOMAIN incidents : incidents'[i] = incidents[i]
          /\ incidents'[Len(incidents) + 1] = row(first)
        BY <2>1, <1>1
    <2>5. \A i \in DOMAIN incidents : Begun(i)'
        BY <2>4 DEF AllBegun, Begun
    <2>6. \E v \in row(first).events : v.kind = "INITIAL_ERROR" /\ v.log.at = row(first).started
        BY <2>3
    <2>7. ASSUME NEW k, k = Len(incidents) + 1 PROVE Begun(k)'
        BY <2>4, <2>6, <2>7 DEF Begun
    <2>8. ASSUME NEW k \in DOMAIN incidents' PROVE Begun(k)'
        BY <2>4, <2>5, <2>7
    <2> QED
        BY <2>8 DEF AllBegun
<1>5. ASSUME NEW e \in Evaluators, SaveMerged(e) PROVE AllBegun'
    <2> DEFINE x == eval[e].object
               l == eval[e].loaded
               s == incidents[x.id]
               rec == [status   |-> Column(x.status, l.status, s.status),
                       resolved |-> Column(x.resolved, l.resolved, s.resolved),
                       started  |-> s.started, trigger |-> s.trigger,
                       services |-> Column(x.services, l.services, s.services),
                       events   |-> Timeline(s.events, eval[e].events)]
    <2>1. /\ incidents' = [incidents EXCEPT ![x.id] = rec] /\ rec.started = s.started
          /\ rec.events = Timeline(s.events, eval[e].events)
        BY <1>5 DEF SaveMerged
    <2> HIDE DEF rec
    <2>2. /\ DOMAIN incidents' = DOMAIN incidents
          /\ \A i \in DOMAIN incidents : /\ incidents'[i].started = incidents[i].started
                                          /\ incidents[i].events \subseteq incidents'[i].events
        BY <2>1, <1>1 DEF Timeline
    <2> QED
        BY <2>2, <1>3
<1>6. ASSUME NEW o \in Operators, WriteStatus(o) PROVE AllBegun'
    <2>1. DOMAIN incidents' = DOMAIN incidents
        BY <1>1, <1>6 DEF WriteStatus
    <2>2. \A i \in DOMAIN incidents : /\ incidents'[i].started = incidents[i].started
                                      /\ incidents'[i].events = incidents[i].events
        BY <1>1, <1>6 DEF WriteStatus, Row
    <2> QED
        BY <2>1, <2>2, <1>3
<1>7. \/ incidents' = incidents
      \/ \E e \in Evaluators : SaveMerged(e) \/ \E t \in Traces : OpenIncident(e, t)
      \/ \E o \in Operators : WriteStatus(o)
    BY DEF Next, vars, Tick, EvalStep, PatchStep, Evaluate, ListDetected,
        ListInvestigating, MergeTrace, Finish, Abort, SelectStatus
<1> QED
    BY <1>2, <1>4, <1>5, <1>6, <1>7

\* Whatever was merged into an incident, its fallback report has an initial
\* error to cite, and none later than the one it began with (fallback.py
\* 18-53, over the events that save_incident keeps).
THEOREM FallbackEvidence == Spec => []FallbackHasEvidence
<1>1. Init => AllBegun
    BY DEF Init, AllBegun
<1>2. Spec => []AllBegun
    BY <1>1, BegunStep, Invariant, PTL DEF Spec
<1>3. ASSUME IInv, AllBegun, NEW i \in DOMAIN incidents
      PROVE  /\ Cited(i) # {}
             /\ \A v \in Cited(i) : v.kind = "INITIAL_ERROR" /\ v.log.at <= incidents[i].started
    <2>1. incidents[i].events \subseteq Event
        BY <1>3, Numbered DEF IInv, Row
    <2>2. PICK v \in InitialErrors(i) : v.log.at = incidents[i].started
        BY <1>3 DEF AllBegun, Begun, InitialErrors
    <2>3. Cited(i) = First(InitialErrors(i))
        BY <2>2 DEF Cited
    <2>4. First(InitialErrors(i)) # {}
        BY <2>1, <2>2, FirstExists DEF InitialErrors
    <2> QED
        BY <2>2, <2>3, <2>4 DEF First, InitialErrors
<1>4. IInv /\ AllBegun => FallbackHasEvidence
    BY <1>3 DEF FallbackHasEvidence
<1> QED
    BY <1>2, <1>4, Invariant, PTL
----------------------------------------------------------------------------
\* Events of errors only, and with each one the first error of its trace, as the
\* run of the event saw it.
Begins(E) ==
    \A v \in E :
        /\ v.log \in Logs /\ v.log.level \in {"ERROR", "FATAL"}
        /\ \E f \in E : /\ f.kind = "INITIAL_ERROR" /\ f.run = v.run
                        /\ f.log.trace = v.log.trace /\ f.log.at <= v.log.at

AllBegin == /\ \A i \in DOMAIN incidents : Begins(incidents[i].events)
            /\ \A e \in Evaluators : eval[e].pc = "save" => Begins(eval[e].events)

\* The events of a trace begin with its earliest error.
LEMMA EventsBegin ==
    ASSUME IInv, NEW e \in Evaluators, eval[e].pc = "traces", NEW t,
           NEW first \in Earliest(TraceLogs(e, t))
    PROVE  Begins(EventsOf(TraceLogs(e, t), first, eval[e].run))
<1> DEFINE S == TraceLogs(e, t)
           E == EventsOf(S, first, eval[e].run)
           f == [log |-> first, run |-> eval[e].run, kind |-> "INITIAL_ERROR"]
<1>1. S = {l \in eval[e].logs : l.trace = t}
    BY WholeTrace
<1>2. /\ eval[e].run \in Nat /\ eval[e].logs \subseteq Logs
      /\ \A l \in eval[e].logs : l.level \in {"ERROR", "FATAL"}
    BY DEF IInv, Types, EvalType, IdleEval, Reading, Merging, AllSound, Sound
<1>3. first \in S /\ \A l \in S : first.at <= l.at
    BY DEF Earliest
<1>4. f \in E
    BY <1>3 DEF EventsOf
<1>5. \A v \in E : v.run = eval[e].run /\ v.log \in S
    BY <1>1, <1>2, <1>3, TraceEvents
<1> HIDE DEF S, E
<1>6. ASSUME NEW v \in E
      PROVE  /\ v.log \in Logs /\ v.log.level \in {"ERROR", "FATAL"}
             /\ f.kind = "INITIAL_ERROR" /\ f.run = v.run
             /\ f.log.trace = v.log.trace /\ f.log.at <= v.log.at
    BY <1>1, <1>2, <1>3, <1>5
<1> HIDE DEF f
<1>7. Begins(E)
    BY <1>4, <1>6 DEF Begins
<1> QED
    BY <1>7 DEF E, S

\* Every step keeps the beginnings: the events of a trace are stored together.
LEMMA BeginsStep == IInv /\ AllBegin /\ [Next]_vars => AllBegin'
<1> SUFFICES ASSUME IInv, AllBegin, [Next]_vars PROVE AllBegin'
    OBVIOUS
<1>1. /\ incidents \in Seq(Row) /\ Len(incidents) \in Nat
      /\ DOMAIN incidents = 1..Len(incidents)
      /\ \A i \in DOMAIN incidents : incidents[i] \in Row
      /\ eval \in [Evaluators -> EvalType]
    BY Numbered DEF IInv, Types
<1>2. ASSUME DOMAIN incidents' = DOMAIN incidents,
             \A i \in DOMAIN incidents : incidents'[i].events = incidents[i].events,
             \A e \in Evaluators : eval'[e] = eval[e] \/ eval'[e].pc # "save"
      PROVE  AllBegin'
    BY <1>2 DEF AllBegin
<1>3. CASE UNCHANGED vars \/ Tick
    BY <1>2, <1>3 DEF vars, Tick
<1>4. ASSUME NEW e \in Evaluators, NEW spiked \in SUBSET Services, Evaluate(e, spiked)
      PROVE  AllBegin'
    <2>1. \A f \in Evaluators : eval'[f] = eval[f] \/ eval'[f].pc # "save"
        BY <1>1, <1>4 DEF Evaluate
    <2> QED
        BY <1>2, <1>4, <2>1 DEF Evaluate
<1>5. ASSUME NEW e \in Evaluators,
             ListDetected(e) \/ ListInvestigating(e) \/ Finish(e) \/ Abort(e)
      PROVE  AllBegin'
    <2>1. eval'[e].pc # "save"
        BY <1>1, <1>5 DEF ListDetected, ListInvestigating, Finish, Abort, EvalType, IdleEval,
                          Reading, Merging
    <2>2. \A f \in Evaluators : f # e => eval'[f] = eval[f]
        BY <1>1, <1>5 DEF ListDetected, ListInvestigating, Finish, Abort
    <2>3. incidents' = incidents
        BY <1>5 DEF ListDetected, ListInvestigating, Finish, Abort
    <2> QED
        BY <1>2, <2>1, <2>2, <2>3
<1>6. ASSUME NEW e \in Evaluators, NEW t \in Traces, OpenIncident(e, t) PROVE AllBegin'
    <2> DEFINE S == TraceLogs(e, t)
               R == eval[e].run
               row(first) ==
            [status |-> "DETECTED", resolved |-> FALSE, started |-> first.at,
             trigger |-> first.service, services |-> Affected(S, first),
             events |-> EventsOf(S, first, R)]
    <2>1. PICK first \in Earliest(S) : incidents' = Append(incidents, row(first))
        BY <1>6 DEF OpenIncident
    <2>2. row(first).events = EventsOf(S, first, R) /\ eval[e].pc = "traces"
        BY <1>6 DEF OpenIncident
    <2>3. Begins(row(first).events)
        BY <2>1, <2>2, EventsBegin
    <2> HIDE DEF row
    <2>4. /\ DOMAIN incidents' = DOMAIN incidents \cup {Len(incidents) + 1}
          /\ \A i \in DOMAIN incidents : incidents'[i] = incidents[i]
          /\ incidents'[Len(incidents) + 1] = row(first)
        BY <2>1, <1>1
    <2>5. \A f \in Evaluators : eval'[f] = eval[f] \/ eval'[f].pc # "save"
        <3>1. \A f \in Evaluators : f # e => eval'[f] = eval[f]
            BY <1>1, <1>6 DEF OpenIncident
        <3>2. eval'[e].pc = eval[e].pc
            BY <1>1, <1>6 DEF OpenIncident, EvalType, IdleEval, Reading, Merging
        <3> QED
            BY <2>2, <3>1, <3>2
    <2> QED
        BY <2>3, <2>4, <2>5 DEF AllBegin
<1>7. ASSUME NEW e \in Evaluators, NEW t \in Traces, MergeTrace(e, t) PROVE AllBegin'
    <2> DEFINE S == TraceLogs(e, t)
    <2>1. PICK first \in Earliest(S) : \E x :
             eval' = [eval EXCEPT ![e] =
                 [pc |-> "save", run |-> eval[e].run, logs |-> eval[e].logs,
                  todo |-> eval[e].todo \ {t},
                  active |-> (eval[e].active \ {x})
                      \cup {[x EXCEPT !.services = @ \cup Affected(S, first)]},
                  object |-> [x EXCEPT !.services = @ \cup Affected(S, first)],
                  loaded |-> incidents[x.id],
                  events |-> EventsOf(S, first, eval[e].run)]]
        BY <1>7 DEF MergeTrace
    <2>2. /\ eval'[e].events = EventsOf(S, first, eval[e].run)
          /\ \A f \in Evaluators : f # e => eval'[f] = eval[f]
        BY <1>1, <2>1
    <2>3. eval[e].pc = "traces" /\ incidents' = incidents
        BY <1>7 DEF MergeTrace
    <2>4. Begins(eval'[e].events)
        BY <2>1, <2>2, <2>3, EventsBegin
    <2> QED
        BY <2>2, <2>3, <2>4 DEF AllBegin
<1>8. ASSUME NEW e \in Evaluators, SaveMerged(e) PROVE AllBegin'
    <2> DEFINE x == eval[e].object
               l == eval[e].loaded
               s == incidents[x.id]
               rec == [status   |-> Column(x.status, l.status, s.status),
                       resolved |-> Column(x.resolved, l.resolved, s.resolved),
                       started  |-> s.started, trigger |-> s.trigger,
                       services |-> Column(x.services, l.services, s.services),
                       events   |-> Timeline(s.events, eval[e].events)]
    <2>1. /\ incidents' = [incidents EXCEPT ![x.id] = rec]
          /\ rec.events = s.events \cup eval[e].events /\ eval[e].pc = "save"
        BY <1>8 DEF SaveMerged, Timeline
    <2> HIDE DEF rec
    <2>2. x.id \in DOMAIN incidents
        BY <2>1 DEF IInv, AllSound, Sound, Saving, Holds
    <2>3. Begins(s.events) /\ Begins(eval[e].events)
        BY <2>1, <2>2 DEF AllBegin
    <2>4. Begins(rec.events)
        BY <2>1, <2>3 DEF Begins
    <2>5. /\ DOMAIN incidents' = DOMAIN incidents
          /\ \A i \in DOMAIN incidents : Begins(incidents'[i].events)
        BY <1>1, <2>1, <2>4 DEF AllBegin
    <2>6. \A f \in Evaluators : eval'[f] = eval[f] \/ eval'[f].pc # "save"
        BY <1>1, <1>8 DEF SaveMerged
    <2> QED
        BY <2>5, <2>6 DEF AllBegin
<1>9. ASSUME NEW o \in Operators, PatchStep(o) PROVE AllBegin'
    <2>1. eval' = eval
        BY <1>9 DEF PatchStep, SelectStatus, WriteStatus
    <2>2. \/ incidents' = incidents
          \/ /\ DOMAIN incidents' = DOMAIN incidents
             /\ \A i \in DOMAIN incidents : incidents'[i].events = incidents[i].events
        BY <1>1, <1>9 DEF PatchStep, SelectStatus, WriteStatus, Row
    <2> QED
        BY <1>2, <2>1, <2>2
<1> QED
    BY <1>3, <1>4, <1>5, <1>6, <1>7, <1>8, <1>9 DEF Next, EvalStep

Erroneous == {"ERROR", "FATAL"}

\* The first errors of a scenario are of its root cause.
BeginsAtRootCause(what) ==
    /\ \A k \in ToSet(what.logs) : k.after \in Nat
    /\ \E m \in ToSet(what.logs) :
        /\ m.level \in Erroneous
        /\ \A k \in ToSet(what.logs) :
               k.level \in Erroneous /\ k.after <= m.after => k.service = what.root_cause

\* The generators record the ground truth: each failure shows first at its root
\* cause.
LEMMA GroundTruth ==
    ASSUME NEW what \in Range(SCENARIO_GENERATORS) PROVE BeginsAtRootCause(what)
<1>1. BeginsAtRootCause(generate_payment_timeout_scenario)
    <2> DEFINE L == generate_payment_timeout_scenario.logs
    <2>1. /\ DOMAIN L = 1..6
          /\ L[1] = Entry(api_gateway, "INFO", 200, 0)
          /\ L[2] = Entry(auth_service, "INFO", 200, 10)
          /\ L[3] = Entry(order_service, "INFO", 200, 25)
          /\ L[4] = Entry(payment_service, "ERROR", 504, 8025)
          /\ L[5] = Entry(order_service, "ERROR", 502, 8045)
          /\ L[6] = Entry(api_gateway, "ERROR", 500, 8060)
        BY DEF generate_payment_timeout_scenario
    <2>2. generate_payment_timeout_scenario.root_cause = payment_service
        BY DEF generate_payment_timeout_scenario
    <2> HIDE DEF L
    <2>3. ToSet(L) = {L[1], L[2], L[3], L[4], L[5], L[6]}
        BY <2>1 DEF ToSet
    <2>4. /\ \A k \in ToSet(L) : k.after \in Nat
          /\ L[4] \in ToSet(L) /\ L[4].level \in Erroneous
          /\ \A k \in ToSet(L) :
                k.level \in Erroneous /\ k.after <= L[4].after => k.service = payment_service
        BY <2>1, <2>3 DEF Entry, Erroneous
    <2> QED
        BY <2>2, <2>4 DEF BeginsAtRootCause, L
<1>2. BeginsAtRootCause(generate_db_pool_scenario)
    <2> DEFINE L == generate_db_pool_scenario.logs
    <2>1. /\ DOMAIN L = 1..3
          /\ L[1] = Entry(api_gateway, "INFO", 200, 0)
          /\ L[2] = Entry(order_service, "ERROR", 503, 25)
          /\ L[3] = Entry(api_gateway, "ERROR", 503, 35)
        BY DEF generate_db_pool_scenario
    <2>2. generate_db_pool_scenario.root_cause = order_service
        BY DEF generate_db_pool_scenario
    <2> HIDE DEF L
    <2>3. ToSet(L) = {L[1], L[2], L[3]}
        BY <2>1 DEF ToSet
    <2>4. /\ \A k \in ToSet(L) : k.after \in Nat
          /\ L[2] \in ToSet(L) /\ L[2].level \in Erroneous
          /\ \A k \in ToSet(L) :
                k.level \in Erroneous /\ k.after <= L[2].after => k.service = order_service
        BY <2>1, <2>3 DEF Entry, Erroneous
    <2> QED
        BY <2>2, <2>4 DEF BeginsAtRootCause, L
<1>3. BeginsAtRootCause(generate_auth_failure_scenario)
    <2> DEFINE L == generate_auth_failure_scenario.logs
    <2>1. /\ DOMAIN L = 1..3
          /\ L[1] = Entry(api_gateway, "INFO", 200, 0)
          /\ L[2] = Entry(auth_service, "FATAL", 500, 15)
          /\ L[3] = Entry(api_gateway, "ERROR", 401, 23)
        BY DEF generate_auth_failure_scenario
    <2>2. generate_auth_failure_scenario.root_cause = auth_service
        BY DEF generate_auth_failure_scenario
    <2> HIDE DEF L
    <2>3. ToSet(L) = {L[1], L[2], L[3]}
        BY <2>1 DEF ToSet
    <2>4. /\ \A k \in ToSet(L) : k.after \in Nat
          /\ L[2] \in ToSet(L) /\ L[2].level \in Erroneous
          /\ \A k \in ToSet(L) :
                k.level \in Erroneous /\ k.after <= L[2].after => k.service = auth_service
        BY <2>1, <2>3 DEF Entry, Erroneous
    <2> QED
        BY <2>2, <2>4 DEF BeginsAtRootCause, L
<1>4. BeginsAtRootCause(generate_retry_storm_scenario)
    <2> DEFINE L == generate_retry_storm_scenario.logs
    <2>1. /\ DOMAIN L = 1..8
          /\ L[1] = Entry(api_gateway, "INFO", 200, 0)
          /\ L[2] = Entry(notification_service, "ERROR", 504, 20)
          /\ \A i \in 3..7 : L[i] = Entry(order_service, "WARN", 504, 20 + 10 * (i - 2))
          /\ L[8] = Entry(notification_service, "ERROR", 503, 100)
        BY DEF generate_retry_storm_scenario
    <2>2. generate_retry_storm_scenario.root_cause = notification_service
        BY DEF generate_retry_storm_scenario
    <2> HIDE DEF L
    <2>3. ToSet(L) = {L[1], L[2], L[8]} \cup {L[i] : i \in 3..7}
        BY <2>1 DEF ToSet
    <2>4. /\ \A k \in ToSet(L) : k.after \in Nat
          /\ L[2] \in ToSet(L) /\ L[2].level \in Erroneous
          /\ \A k \in ToSet(L) : k.level \in Erroneous => k.service = notification_service
        BY <2>1, <2>3 DEF Entry, Erroneous
    <2> QED
        BY <2>2, <2>4 DEF BeginsAtRootCause, L
<1>5. what \in {generate_payment_timeout_scenario, generate_db_pool_scenario,
               generate_auth_failure_scenario, generate_retry_storm_scenario}
    BY DEF Range, SCENARIO_GENERATORS
<1> QED
    BY <1>1, <1>2, <1>3, <1>4, <1>5

\* Correlation reads what the scenario emitted: the first errors of the trace of
\* a failure are of its root cause.
LEMMA FirstErrors ==
    ASSUME NEW x \in Failures
    PROVE  \E l \in ErrorsOf[x.trace] :
              \A k \in ErrorsOf[x.trace] : k.at <= l.at => k.service = x.what.root_cause
<1>1. x \in Injected /\ BeginsAtRootCause(x.what)
    BY GroundTruth DEF Failures
<1>2. /\ x.start \in Nat /\ x.trace \in Traces
      /\ {l \in Logs : l.trace = x.trace} = Emitted(x.what, x.trace, x.start)
    BY <1>1, ScenarioAssumption
<1> DEFINE L == ToSet(x.what.logs)
           log(k) == [trace |-> x.trace, service |-> k.service, level |-> k.level,
                      status |-> k.status, at |-> x.start + k.after]
<1>3. /\ \A k \in L : k.after \in Nat
      /\ \E m \in L : /\ m.level \in Erroneous
                      /\ \A k \in L : k.level \in Erroneous /\ k.after <= m.after
                                        => k.service = x.what.root_cause
    BY <1>1 DEF BeginsAtRootCause
<1>4. ErrorsOf[x.trace] = {l \in Logs : l.trace = x.trace /\ l.level \in Erroneous}
    BY <1>2 DEF ErrorsOf, Erroneous
<1>5. {l \in Logs : l.trace = x.trace} = {log(k) : k \in L}
    BY <1>2 DEF Emitted
<1>6. \A k \in L : /\ log(k).level = k.level /\ log(k).service = k.service
                   /\ log(k).trace = x.trace /\ log(k).at = x.start + k.after
    OBVIOUS
<1> HIDE DEF L, log
<1>7. PICK m \in L : /\ m.level \in Erroneous
                     /\ \A k \in L : k.level \in Erroneous /\ k.after <= m.after
                                        => k.service = x.what.root_cause
    BY <1>3
<1>8. log(m) \in ErrorsOf[x.trace]
    BY <1>4, <1>5, <1>6, <1>7
<1>9. ASSUME NEW l \in ErrorsOf[x.trace], l.at <= log(m).at
      PROVE  l.service = x.what.root_cause
    <2>1. PICK k \in L : l = log(k)
        BY <1>4, <1>5
    <2>2. k.level \in Erroneous /\ x.start + k.after <= x.start + m.after
        BY <1>4, <1>6, <1>9, <2>1
    <2>3. k.after <= m.after
        BY <1>2, <1>3, <2>2
    <2> QED
        BY <1>6, <1>7, <2>1, <2>2, <2>3
<1> QED
    BY <1>8, <1>9

\* The ground truth of simulator/scenarios.py against engine.py, correlate_logs: an
\* incident that is charged with every error of an injected failure began at the
\* root cause or below it, in any graph and whatever else was injected.
THEOREM RootCausesAreBlamed == Spec => []RootCauseBlamed
<1>1. Init => AllBegin
    BY DEF Init, AllBegin, IdleEval
<1>2. Spec => []AllBegin
    BY <1>1, BeginsStep, Invariant, PTL DEF Spec
<1>3. ASSUME IInv, AllBegin, NEW x \in Failures, NEW i \in DOMAIN incidents, NEW run,
             ErrorsOf[x.trace] \subseteq Seen(i, x.trace, run)
      PROVE  \/ incidents[i].trigger = x.what.root_cause
             \/ incidents[i].trigger \in DependsOn[x.what.root_cause]
    <2>1. x.trace \in Traces
        BY ScenarioAssumption DEF Failures
    <2>2. PICK l \in ErrorsOf[x.trace] :
              \A k \in ErrorsOf[x.trace] : k.at <= l.at => k.service = x.what.root_cause
        BY FirstErrors
    <2>3. PICK v \in incidents[i].events : v.log = l
        BY <1>3, <2>2 DEF Seen
    <2>4. PICK f \in incidents[i].events :
              /\ f.kind = "INITIAL_ERROR" /\ f.log.trace = l.trace /\ f.log.at <= l.at
              /\ f.log \in Logs /\ f.log.level \in {"ERROR", "FATAL"}
        BY <1>3, <2>3 DEF AllBegin, Begins
    <2>5. l.trace = x.trace /\ f.log \in ErrorsOf[x.trace]
        BY <2>1, <2>2, <2>4 DEF ErrorsOf
    <2>6. f.log.service = x.what.root_cause
        BY <2>2, <2>4, <2>5
    <2> QED
        BY <1>3, <2>4, <2>6 DEF IInv, SymptomsUpstream
<1>4. IInv /\ AllBegin => RootCauseBlamed
    BY <1>3 DEF RootCauseBlamed
<1> QED
    BY <1>2, <1>4, Invariant, PTL
----------------------------------------------------------------------------
(***************************************************************************)
(* The breadth-first search that answers which services a service depends  *)
(* on, in a behaviour of its own.                                          *)
(***************************************************************************)
Queued(s) == \E i \in DOMAIN queue : queue[i] = s

SearchTypes ==
    /\ adj \subseteq Edges /\ service \in Services
    /\ visited \subseteq Services /\ pending \subseteq Services
    /\ queue \in Seq(Services)

\* every service the search has met lies in every closed set
SearchSound ==
    \A C \in SUBSET Services : Closed(adj, service, C) =>
        /\ visited \subseteq C /\ pending \subseteq C
        /\ \A s \in Services : Queued(s) => s \in C \cup {service}

\* a service that is not queued any more has handed over all its targets
SearchComplete ==
    \A s \in visited \cup {service} :
        Queued(s) \/ Targets(adj, s) \subseteq visited \cup pending

SearchInv == SearchTypes /\ (pc = "search" => SearchSound /\ SearchComplete)

\* What Append and Tail do to the queued services.
LEMMA QueuedAppend ==
    ASSUME NEW t \in Services, queue \in Seq(Services), queue' = Append(queue, t)
    PROVE  \A s : Queued(s)' <=> Queued(s) \/ s = t
<1>1. /\ DOMAIN queue = 1..Len(queue) /\ DOMAIN queue' = 1..(Len(queue) + 1)
      /\ Len(queue) \in Nat
      /\ \A i \in 1..Len(queue) : queue'[i] = queue[i]
      /\ queue'[Len(queue) + 1] = t
    OBVIOUS
<1>2. ASSUME NEW s, Queued(s) \/ s = t PROVE Queued(s)'
    <2>1. CASE s = t
        BY <1>1, <2>1 DEF Queued
    <2>2. CASE Queued(s)
        BY <1>1, <2>2 DEF Queued
    <2> QED
        BY <1>2, <2>1, <2>2
<1>3. ASSUME NEW s, Queued(s)' PROVE Queued(s) \/ s = t
    <2>1. PICK i \in 1..(Len(queue) + 1) : queue'[i] = s
        BY <1>1, <1>3 DEF Queued
    <2> QED
        BY <1>1, <2>1 DEF Queued
<1> QED
    BY <1>2, <1>3

\* queue.popleft() takes one occurrence of the head and keeps the rest.
LEMMA QueuedTail ==
    ASSUME queue \in Seq(Services), queue # <<>>, queue' = Tail(queue)
    PROVE  \A s : /\ Queued(s) => Queued(s)' \/ s = Head(queue)
                  /\ Queued(s)' \/ s = Head(queue) => Queued(s)
<1>1. /\ DOMAIN queue = 1..Len(queue) /\ DOMAIN queue' = 1..(Len(queue) - 1)
      /\ Len(queue) \in Nat \ {0} /\ Head(queue) = queue[1]
      /\ \A i \in 1..(Len(queue) - 1) : queue'[i] = queue[i + 1]
    OBVIOUS
<1>2. ASSUME NEW s, Queued(s), s # Head(queue) PROVE Queued(s)'
    <2>1. PICK i \in 1..Len(queue) : queue[i] = s
        BY <1>1, <1>2 DEF Queued
    <2>2. i - 1 \in 1..(Len(queue) - 1) /\ queue'[i - 1] = s
        BY <1>1, <1>2, <2>1
    <2> QED
        BY <1>1, <2>2 DEF Queued
<1>3. ASSUME NEW s, Queued(s)' PROVE Queued(s)
    <2>1. PICK i \in 1..(Len(queue) - 1) : queue'[i] = s
        BY <1>1, <1>3 DEF Queued
    <2>2. i + 1 \in 1..Len(queue) /\ queue[i + 1] = s
        BY <1>1, <2>1
    <2> QED
        BY <1>1, <2>2 DEF Queued
<1>4. Queued(Head(queue))
    BY <1>1 DEF Queued
<1> QED
    BY <1>2, <1>3, <1>4

\* The graph and the argument of the search are services and edges, always.
LEMMA NextSearchTypes == SearchTypes /\ [GraphNext]_graphVars => SearchTypes'
<1> SUFFICES ASSUME SearchTypes, [GraphNext]_graphVars PROVE SearchTypes'
    OBVIOUS
<1> USE DEF SearchTypes
<1>1. ASSUME NEW e \in Edges, AddDependency(e) PROVE SearchTypes'
    BY <1>1 DEF AddDependency, searchVars
<1>2. ASSUME NEW s \in Services, Search(s) PROVE SearchTypes'
    BY <1>2 DEF Search
<1>3. CASE PopService
    BY <1>3 DEF PopService, Targets
<1>4. ASSUME NEW t \in Services, VisitTarget(t) PROVE SearchTypes'
    BY <1>4 DEF VisitTarget
<1>5. CASE Return
    BY <1>5 DEF Return
<1>6. CASE UNCHANGED graphVars
    BY <1>6 DEF graphVars
<1> QED
    BY <1>1, <1>2, <1>3, <1>4, <1>5, <1>6 DEF GraphNext

\* Each step of the search keeps the invariant.
LEMMA NextSearchInv == SearchInv /\ [GraphNext]_graphVars => SearchInv'
<1> SUFFICES ASSUME SearchInv, [GraphNext]_graphVars PROVE SearchInv'
    OBVIOUS
<1>0. SearchTypes'
    BY NextSearchTypes DEF SearchInv
<1>1. ASSUME NEW e \in Edges, AddDependency(e) PROVE SearchInv'
    BY <1>0, <1>1 DEF AddDependency, searchVars, SearchInv
<1>2. ASSUME NEW s \in Services, Search(s) PROVE SearchInv'
    <2>1. /\ service' = s /\ visited' = {} /\ pending' = {}
          /\ queue' = <<s>> /\ DOMAIN queue' = {1}
        BY <1>2 DEF Search
    <2>2. \A r : Queued(r)' <=> r = s
        BY <2>1 DEF Queued
    <2> QED
        BY <1>0, <2>1, <2>2 DEF SearchInv, SearchSound, SearchComplete
<1>3. CASE PopService
    <2> DEFINE curr == Head(queue)
    <2>1. /\ pc = "search" /\ pending = {} /\ queue # <<>>
          /\ pending' = Targets(adj, curr) /\ queue' = Tail(queue)
          /\ UNCHANGED <<adj, pc, service, visited>>
        BY <1>3 DEF PopService, Targets, Targets
    <2>2. SearchTypes /\ SearchSound /\ SearchComplete
        BY <2>1 DEF SearchInv
    <2>3. \A s : /\ Queued(s) => Queued(s)' \/ s = curr
                 /\ Queued(s)' \/ s = curr => Queued(s)
        BY <2>1, <2>2, QueuedTail DEF SearchTypes
    <2>4. curr \in Services
        BY <2>1, <2>2 DEF SearchTypes
    <2> HIDE DEF curr
    <2>5. SearchSound'
        <3> SUFFICES ASSUME NEW C \in SUBSET Services, Closed(adj, service, C)
                     PROVE  /\ visited \subseteq C /\ Targets(adj, curr) \subseteq C
                            /\ \A s \in Services : Queued(s)' => s \in C \cup {service}
            BY <2>1 DEF SearchSound, Closed, Targets
        <3>1. /\ visited \subseteq C
              /\ \A s \in Services : Queued(s) => s \in C \cup {service}
            BY <2>2 DEF SearchSound
        <3>2. curr \in C \cup {service}
            BY <2>3, <2>4, <3>1
        <3>3. Targets(adj, curr) \subseteq C
            BY <3>2 DEF Closed
        <3> QED
            BY <2>3, <3>1, <3>3
    <2>6. SearchComplete'
        BY <2>1, <2>2, <2>3 DEF SearchComplete, Targets
    <2> QED
        BY <1>0, <2>5, <2>6 DEF SearchInv
<1>4. ASSUME NEW t \in Services, VisitTarget(t) PROVE SearchInv'
    <2>1. /\ pc = "search" /\ t \in pending /\ pending' = pending \ {t}
          /\ UNCHANGED <<adj, pc, service>>
        BY <1>4 DEF VisitTarget
    <2>2. SearchTypes /\ SearchSound /\ SearchComplete
        BY <2>1 DEF SearchInv
    <2>3. CASE t \notin visited
        <3>1. visited' = visited \cup {t} /\ queue' = Append(queue, t)
            BY <1>4, <2>3 DEF VisitTarget, Fresh
        <3>2. \A s : Queued(s)' <=> Queued(s) \/ s = t
            BY <2>2, <3>1, QueuedAppend DEF SearchTypes
        <3>3. SearchSound'
            BY <2>1, <2>2, <3>1, <3>2 DEF SearchSound, Closed, Targets
        <3>4. SearchComplete'
            BY <2>1, <2>2, <3>1, <3>2 DEF SearchComplete, Targets
        <3> QED
            BY <1>0, <3>3, <3>4 DEF SearchInv
    <2>4. CASE t \in visited
        <3>1. visited' = visited /\ queue' = queue
            BY <1>4, <2>4 DEF VisitTarget, Fresh
        <3>2. \A s : Queued(s)' <=> Queued(s)
            BY <3>1 DEF Queued
        <3>3. SearchSound'
            BY <2>1, <2>2, <3>1, <3>2 DEF SearchSound, Closed, Targets
        <3>4. SearchComplete'
            BY <2>1, <2>2, <2>4, <3>1, <3>2 DEF SearchComplete, Targets
        <3> QED
            BY <1>0, <3>3, <3>4 DEF SearchInv
    <2> QED
        BY <2>3, <2>4
<1>5. CASE Return
    BY <1>0, <1>5 DEF Return, SearchInv
<1>6. CASE UNCHANGED graphVars
    BY <1>0, <1>6 DEF graphVars, SearchInv, SearchSound, SearchComplete, Queued
<1> QED
    BY <1>1, <1>2, <1>3, <1>4, <1>5, <1>6 DEF GraphNext

\* When the search is finished, what it visited is the least closed set.
LEMMA FinishedSearch == SearchInv => ReturnsDownstream
<1> SUFFICES ASSUME SearchInv, Finished PROVE visited = Downstream(adj, service)
    BY DEF ReturnsDownstream
<1>1. SearchTypes /\ SearchSound /\ SearchComplete /\ pending = {} /\ queue = <<>>
    BY DEF Finished, SearchInv
<1>2. \A s : ~ Queued(s)
    BY <1>1 DEF Queued
<1>3. Closed(adj, service, visited)
    BY <1>1, <1>2 DEF SearchComplete, Closed
<1>4. visited \in SUBSET Services
    BY <1>1 DEF SearchTypes
<1>5. \A C \in SUBSET Services : Closed(adj, service, C) => visited \subseteq C
    BY <1>1 DEF SearchSound
<1> QED
    BY <1>3, <1>4, <1>5 DEF Downstream

LEMMA SearchInvariant == GraphSpec => []SearchInv
<1>1. GraphInit => SearchInv
    BY DEF GraphInit, SearchInv, SearchTypes
<1> QED
    BY <1>1, NextSearchInv, PTL DEF GraphSpec

\* The search of get_downstream_services (correlation/graph.py) returns exactly the
\* downstream services, on every graph and in every order of its sets.
THEOREM SearchReturnsDownstream == GraphSpec => []ReturnsDownstream
BY SearchInvariant, FinishedSearch, PTL

\* What is queued has been visited, but for the argument in the beginning.
QueuedOnce ==
    /\ \A i, j \in DOMAIN queue : queue[i] = queue[j] => i = j
    /\ \A i \in DOMAIN queue : queue[i] \in visited \/ (queue = <<service>> /\ pending = {})

LEMMA NextQueuedOnce ==
    SearchTypes /\ QueuedOnce /\ [GraphNext]_graphVars => QueuedOnce'
<1> SUFFICES ASSUME SearchTypes, QueuedOnce, [GraphNext]_graphVars PROVE QueuedOnce'
    OBVIOUS
<1>1. ASSUME NEW e \in Edges, AddDependency(e) PROVE QueuedOnce'
    BY <1>1 DEF AddDependency, searchVars, QueuedOnce
<1>2. ASSUME NEW s \in Services, Search(s) PROVE QueuedOnce'
    BY <1>2 DEF Search, QueuedOnce
<1>3. CASE PopService
    <2>1. /\ queue' = Tail(queue) /\ visited' = visited
          /\ queue \in Seq(Services) /\ queue # <<>>
        BY <1>3 DEF PopService, SearchTypes
    <2>2. /\ Len(queue) \in Nat /\ DOMAIN queue = 1..Len(queue)
          /\ DOMAIN queue' = 1..(Len(queue) - 1)
          /\ \A i \in 1..(Len(queue) - 1) : queue'[i] = queue[i + 1]
        BY <2>1
    <2>3. ASSUME NEW i \in DOMAIN queue' PROVE queue'[i] \in visited
        <3>1. i + 1 \in DOMAIN queue /\ 1 \in DOMAIN queue /\ i + 1 # 1
            BY <2>2
        <3>2. queue # <<service>>
            BY <2>2, <3>1
        <3> QED
            BY <2>2, <3>1, <3>2 DEF QueuedOnce
    <2>4. ASSUME NEW i \in DOMAIN queue', NEW j \in DOMAIN queue', queue'[i] = queue'[j]
          PROVE  i = j
        <3>1. i + 1 \in DOMAIN queue /\ j + 1 \in DOMAIN queue /\ queue[i + 1] = queue[j + 1]
            BY <2>2, <2>4
        <3>2. i + 1 = j + 1
            BY <3>1 DEF QueuedOnce
        <3> QED
            BY <2>2, <3>2
    <2> QED
        BY <2>1, <2>3, <2>4 DEF QueuedOnce
<1>4. ASSUME NEW t \in Services, VisitTarget(t) PROVE QueuedOnce'
    <2>1. CASE Fresh(t)
        <3>1. /\ queue' = Append(queue, t) /\ visited' = visited \cup {t}
              /\ t \notin visited /\ pending # {} /\ queue \in Seq(Services)
            BY <1>4, <2>1 DEF VisitTarget, Fresh, SearchTypes
        <3>2. /\ Len(queue) \in Nat /\ DOMAIN queue = 1..Len(queue)
              /\ DOMAIN queue' = 1..(Len(queue) + 1)
              /\ \A i \in 1..Len(queue) : queue'[i] = queue[i]
              /\ queue'[Len(queue) + 1] = t
            BY <3>1
        <3>3. \A i \in DOMAIN queue : queue[i] \in visited
            BY <3>1 DEF QueuedOnce
        <3> QED
            BY <3>1, <3>2, <3>3 DEF QueuedOnce
    <2>2. CASE ~ Fresh(t)
        <3>1. UNCHANGED <<visited, queue>> /\ pending # {}
            BY <1>4, <2>2 DEF VisitTarget
        <3> QED
            BY <3>1 DEF QueuedOnce
    <2> QED
        BY <2>1, <2>2
<1>5. CASE Return
    BY <1>5 DEF Return, Finished, QueuedOnce
<1>6. CASE UNCHANGED graphVars
    BY <1>6 DEF graphVars, QueuedOnce
<1> QED
    BY <1>1, <1>2, <1>3, <1>4, <1>5, <1>6 DEF GraphNext

\* Types of the search of correlation/graph.py, and on no graph, cyclic or not, is a
\* service queued twice at a time.
THEOREM GraphTypes == GraphSpec => []GraphTypeOK
<1>1. GraphInit => SearchTypes /\ QueuedOnce /\ pc \in {"idle", "search"}
    BY DEF GraphInit, SearchTypes, QueuedOnce
<1>2. pc \in {"idle", "search"} /\ [GraphNext]_graphVars => (pc \in {"idle", "search"})'
    BY DEF GraphNext, graphVars, searchVars, AddDependency, Search, PopService,
           VisitTarget, Return
<1>3. SearchTypes /\ QueuedOnce /\ pc \in {"idle", "search"} => GraphTypeOK
    BY DEF SearchTypes, QueuedOnce, GraphTypeOK
<1> QED
    BY <1>1, <1>2, <1>3, NextSearchTypes, NextQueuedOnce, PTL DEF GraphSpec

\* What correlate_logs (correlation/engine.py) is told of the loaded dependencies
\* is the relation DependsOn with which its evaluations are modelled.
THEOREM SearchesAreDependsOn ==
    GraphSpec => [](Finished /\ adj = Dependencies => visited = DependsOn[service])
<1>1. ASSUME SearchInv, Finished, adj = Dependencies PROVE visited = DependsOn[service]
    <2>1. visited = Downstream(adj, service) /\ service \in Services
        BY <1>1, FinishedSearch DEF SearchInv, SearchTypes, ReturnsDownstream
    <2> QED
        BY <1>1, <2>1 DEF DependsOn, ReturnsDownstream
<1> QED
    BY <1>1, SearchInvariant, PTL
=============================================================================
