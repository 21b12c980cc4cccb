# Verification of LogMind

TLA+ models of LogMind, a log ingestion, incident correlation and AI
investigation platform in Python (FastAPI, Redis lists, Elasticsearch,
PostgreSQL through SQLAlchemy), with TLC runs on small instances and TLAPS
proofs for all instances. Paths below are relative to the repository root.

Contents: [the system](#1-the-system), [modules](#2-modules-and-their-code),
[runs](#3-runs), [fairness](#4-fairness), [proofs](#5-proofs),
[disagreements](#6-disagreements-with-the-documents),
[what is not modelled](#7-not-modelled), [plan](#8-plan).

## 1. The system

| component | code | state | operations |
|---|---|---|---|
| ingestion | `app/api/ingest.py`, `app/services/queue.py` | one Redis list per tenant | check depth, push a batch (202) or refuse (429) |
| indexer worker | `app/workers/indexer.py`, `app/services/normalizer.py`, `elasticsearch.py` | a batch in local variables | scan tenants, pop a batch, enrich, bulk write, route rejected items |
| dead letters | `app/api/dlq.py`, `app/services/queue.py` | one Redis list per tenant | list, replay, discard |
| embedding cache | `app/services/embeddings.py` | an `OrderedDict` shared by threads | get or compute |
| search | `app/api/search.py` | none | one hybrid query |
| simulator control | `simulator/engine.py`, `api.py`, `shipper.py` | status, task handle, runs | start, stop, trigger, status |
| simulator scenarios | `simulator/scenarios.py`, `trace.py` | none | generate the logs of a normal trace or of one of four failures, with the ground truth |
| dependency topology | `correlation/db.py`, `graph.py` | table `service_dependencies`, in-memory graph | register, load, downstream search |
| spike detector | `correlation/detector.py`, `log_store.py` | none | four counts and a decision |
| correlation engine | `correlation/engine.py`, `trace_sequencer.py`, `db.py` | tables `incidents`, `incident_events` | evaluate, merge or open, patch a status |
| investigation | `investigation/engine.py`, `tools.py`, `client.py`, `db.py`, `api.py` | table `investigation_reports` with steps and evidence | start, retry, get report and steps |
| fallback report | `investigation/fallback.py` | none | build a report from the timeline |
| runbooks | `investigation/runbooks.py` | an Elasticsearch index | ingest, search |

How they interact. Clients post batches; the handler pushes them on the tenant's
list. Workers (one task in each server process, started by `lifespan`, and one in
a container of its own) pop from the lists of all tenants, write valid records
to Elasticsearch under a hash of their content and push rejected ones to the
dead-letter list, which operators replay into the queue or discard. The worker
computes embeddings in the event loop's thread and search handlers in the thread
pool, through one cache. `POST /evaluate` counts errors per service
in Elasticsearch, fetches the error logs of the spiking services and merges each
trace into an incident in PostgreSQL. `POST .../start` reads the incident, talks
to an LLM that may call read-only tools, and stores a report. The simulator is a
separate service that posts synthetic logs.

What is hard, and what makes each part correct:

* *Ingestion and dead letters.* Several handlers, workers and operators act on
  the same lists with single Redis commands and without transactions; a batch
  lives in local variables between `RPOP` and the bulk write; any command or
  process may die. Correct: nothing accepted vanishes without an interruption,
  an interruption costs at most a batch of the tenant it hit, the queue's overshoot over its threshold is
  bounded, a log has one custodian and a discarded entry stays discarded
  unless two requests had found its entry, and everything in transit arrives; a tenant is not kept
  waiting but behind one that goes on being fed and goes on failing.
* *Embedding cache.* No lock. Correct: keys stay unique, the size bounded,
  an eviction never meets an empty dictionary, recent entries stay.
* *Simulator control.* Requests interleave at each `await` of one event loop.
  Correct: a running traffic task can always be stopped, a stop does not return early,
  no traffic is hidden by the status, no waiter is forgotten.
* *Topology.* Select, then insert. All evaluations load one shared graph. Correct: one row
  for one dependency; the search is exact on cyclic graphs; an evaluation searches all that was registered before it.
* *Spike detector.* Four counts at four instants of a changing index, each of which
  may fail. Correct: rates are rates, alerts rest on errors that were counted.
* *Correlation.* Objects read at the start of an evaluation are saved sessions
  later, and an evaluation may see only a page of the errors. Correct: no error that was read is dropped from the
  timelines, history only grows, symptoms join the incident of their cause, an incident names all its services and
  blames the root cause of what was injected, only operators set statuses.
* *Investigation.* Unpredictable answers, nested errors, saves that fail on either
  side of their commit, overlapping runs. Correct: it ends, the
  transcript stays well-formed, and a returned report is what is stored.

The same hazards, each at its line, are listed in `PROJECT.json`.

## 2. Modules and their code

One step of a model is the code between two points where another actor can
intervene: two `await`s, two commands of a remote store, two operations on a
shared dictionary. `map` in `PROJECT.json` gives the lines of every definition.
Definitions whose name has a suffix (`Saturated_OffByOne`) and the comment
"mutant" are plausible bugs, used to show that a property can fail; no model uses
them.

**LogPipeline** models ingestion, workers and dead letters of one tenant: tenants
share no key, only workers (see TenantPolling). The Redis lists are `queue` (a sequence) and `dlq` (a set
of entries with ids, which grow as entries are pushed); Elasticsearch is the set `index` of
content hashes, since a document's id is the hash, so a log that is indexed twice is one document by construction. A log that
is sent twice is two members of `Logs` with one hash. `Admit`/`EnqueueBatch` are
the two commands of the ingest handler; `Poll`, `DequeueOne` (one `RPOP`),
`EnrichBatch`, `BulkIndex`, `PushDlq` those of `run_cycle`; `FindEntry`,
`RemoveForReplay`, `Requeue`, `Discard` those of the dead-letter calls, which
ignore how many entries `LREM` removed. Three `Interrupt...` actions stand for a
failing command, a cancelled task or a killed process; the command in flight may have been
executed. The history variables `sent`, `accepted` and `discarded` record what clients were told, and `contested`
the logs whose entry a dead-letter request found while another had found it and not yet removed it.

**LogDelivery** is what the pipeline promises, without lists or workers: a log
taken in is live until it is stored, discarded, or lost in an
interruption, which loses no more than a batch. `LogPipeline!ImplementsDelivery` is the
refinement, with live = in the queue, in a worker's hands, in a replay or in the dead-letter list.

**TenantPolling** is the loop of the workers over the queues of all tenants. It keeps
only how many logs each tenant has in its list and each worker in its hands. A round scans the keys (`StartRound`, `ScanYields`,
`RoundEnds`: `SCAN` returns every key that is there from beginning to end, and may return or miss any other; a list
that becomes empty has no key, so `Noticed` takes it from every scan's `due`), and each key gets one cycle (`Pop`,
`Popped`, `Write`). `WriteFails` and `RedisFails` raise out of the cycle, which ends the round for the tenants after it.
`Polled` is the tenant the worker reads off the key with `split(":")[-1]`: not the one who pushed, if the id has a colon.
Where a batch goes is left out: `bulk_index` takes the index from each record's own `context.tenant_id`, which
a payload may bring with it, so what is stored says nothing of the queue it came from.

**EmbeddingCache** has one action for each operation `get_or_compute_embedding`
performs on the `OrderedDict`; the interpreter makes those atomic. A vector is a
function of its signature, so the cache is the sequence of its keys. `uses` and `overlap` are
history variables: the order of the uses, and whether calls have overlapped.

**SimulationControl** has the event loop's `ready` queue, so that coroutines run
in the order asyncio runs them: `AwaitTask`/`ResetEngine` are the two halves of `stop` around its
`await` (and of `start_steady_state`), `TaskEnds` the turn in which the
cancelled task ends and wakes its waiters in the order in which they came (`waiting`), `TaskFails` the end of a
task by an exception of its own, of which neither the handle nor the status is told, `BeginTrigger`/`Shipped`/`EndTrigger` a scenario around
its HTTP post. The run records are left out; `overlap` is a history variable.

**ServiceGraph** defines `Downstream` as the least closed set of services, and
**DependencyGraph** the breadth-first search of `graph.py`, target by target, in any
order of the sets. Its definitions are named `Graph...` so that `Correlation_proofs` can have both modules.

**Topology** has `save_dependency` as a session that selects, branches, and inserts or
updates; the mapped table has no unique constraint. **TopologyEngine** extends it with the
evaluations that read the table in a session of their own (`ReadTable`), add what they read to the engine's one graph
(`LoadGraph`) and search it, while registrations and other evaluations go on; `registered` is what clients were told.

**SpikeDetector** counts errors and totals of two windows in four steps while
`IndexLog` writes logs, late ones too (recorded in `late`). Rates are compared by
cross-multiplication; where they are exactly `Surge` apart the program's floats may fall on
either side, and so does the model (`exact`). A window's count is the `Number` of its documents (`Docs`); that
windows are not empty (`Lookback > 0`) is what `correlation/api.py` grants with `ge=10`.

**Correlation** has an evaluation as the sessions it opens: `ListDetected` and
`ListInvestigating` read the incident objects, `OpenIncident` inserts,
`MergeTrace` selects the row and `SaveMerged` writes the columns that differ
from the row it loaded (what SQLAlchemy emits), from objects that may be stale.
`SelectStatus`/`WriteStatus` are the two statements of the status update.
`Abort` is any failing session. The query for error logs names no order, so `ErrorLogs` gives any `FetchLimit` of the
hits when there are more; `TraceLogs` is the trace sequencer's filter and `Earliest` its choice of the root. Which
services spike is a free choice, the clock moves between any two sessions, and the history variable
`overlap` says whether two requests have been in progress at a time.

**Scenarios** has what each generator of the simulator emits (service, level, status and time of each log) and the ground
truth that it returns, as the logs that Correlation reads: it compares what the simulator says went wrong
with the incident that correlation makes of it. `ScenarioAssumption` says of the logs injected what `trace.py` does: each
trace has a fresh id, so the logs that bear it are those that were emitted for it.

**FallbackReport** extends Correlation with the event a fallback report cites.

**Investigation** has one record for each POST: `LlmCallsTools`, `LlmAnswers` and
`LlmFails` are the outcomes of a completion, `RunTool` and `ToolRaises` those of a
tool call (backend errors are outputs; arguments that the tool's model rejects
raise), `Save`, `SaveRaises` and `SaveFallbackRaises` those of storing a report,
where an error may come before or after the commit. Time is a clock that the reports are stamped with;
how long a call takes is left out. Which content an LLM writes is left out:
every answer, parsed or raw, becomes a diagnosis.

The `MC...` modules give the constants values for TLC; the `..._proofs` modules hold the proofs.

## 3. Runs

### Passing

| run | shows | bounds, and why they are enough |
|---|---|---|
| `pipeline` | types, `LossBounded`, `OvershootBounded`, `SingleCustody`, `DiscardIsFinal`, the refinement `ImplementsDelivery`, `TransitEnds` under fairness | two clients, two workers, two operators, three logs posted one by one, of which two are malformed; batches of up to two popped, threshold 1, one interruption and one replay: both clients can pass the check together, a batch can be half valid or all rejected, a worker can take items while another dies and restarts, two requests can find one entry before either removes it |
| `tenant_polling` | `LossConfined`, `TenantsServed` under fairness | two workers, three tenants of which one has a colon in its id and is read as another, lists of up to two, one and one logs that are filled again without end, batches of two, any number of failing writes and commands: a full and a short batch, a scan that ends at a failing tenant before it reaches the others, two workers on one list |
| `control_overlap` | types, `NoOrphans`, `StatusShowsTraffic`, `StopAwaitsItsTask`, `RequestsEnd` under fairness | three callers, five requests: a start that overlaps two stops, and every sequence of five; a task may end by its own exception at any time |
| `cache_threads` | types, `SizeBounded`, `EvictionsCovered`, `KeepsRecent` | three threads, four signatures, capacity three, five uses: full, one over, and an entry that is used again before an eviction |
| `graph_search` | `ReturnsDownstream`, `SearchEnds` under fairness | all graphs over three services, cycles and loops included |
| `topology_race` | types, `DuplicatesBounded`, `SearchSeesRegistered` | two registrations and two evaluations at once, two dependencies, two types, up to three rows: two registrations of one dependency can both miss it, and an evaluation can load a reading that is older than another's |
| `spike_detector` | `RatesAreRates`, `AlertsCounted`, `SurgeOverWindow` | windows of one and two ticks, five logs of any age over three instants, one failed query: the least that makes a surge over a baseline with errors |
| `scenarios` | `AffectedCovered`, `RootCauseBlamed`, `SymptomsSuppressed` | the simulator's five services and its four failures with a normal trace, the defaults of 120 and 60 seconds, three instants of which the last is beyond the correlation window of what the first begins, pages of four errors where the first instant has five to choose from; two evaluations of any spiking services and a status update in between |
| `correlation_overlap` | types, `TimelineComplete`, `SymptomsUpstream`, `FallbackHasEvidence`, `HistoryKept` | two evaluations and a status update overlap over a payment timeout and the failure of the service above it, so that one trace is a symptom of the other, all at one instant and with a page as large as their five hits; every order of their sessions. The clock and the pages that leave hits out are for `scenarios` |
| `investigation` | types, `CallsAnswered`, `ReturnedStored`, `DiagnosisAlone`, `ServedForward`, `InvestigationEnds` under fairness | two overlapping investigations over three instants, of two rounds with up to two calls each, known or not, valid or not; every save may fail on either side of its commit |

`MaxFailures`, `MaxReplays`, `MaxRequests`, `MaxUses`, `MaxRows`, `MaxRuns`,
`MaxPatches`, `MaxTime`, `MaxLogs`, `MaxLength` and `MaxCalls` are bounds of the models, and `Instants` the moments of
Correlation at which something may happen; none is a bound of the
program. `FetchLimit` is one of the program, smaller in the runs than its 500. Deadlock checking is off where these bounds, or the end of all requests, let the system
stop; `graph_search` has it on.
Symmetry is used for threads, signatures, registrars and dependencies, in runs of invariants only.

Some properties hold only while actors do not overlap, or only while nothing fails: `KeepsRecent`, `NoOrphans`,
`StatusShowsTraffic`, `AffectedCovered` and `SymptomsSuppressed` until two calls have been in progress at a time (history variable
`overlap`), `SingleCustody` and `DiscardIsFinal` for the logs whose entry was not found by two requests at a time (`contested`),
`SurgeOverWindow` until a query failed or a log was indexed late (`late`). The condition is part of
the property, so that the same run also explores what lies beyond it. Two of the liveness properties have premises of their own:
`TransitEnds` that clients and replays pause (`FallsSilent`), since a list that is fed for ever need never be empty, and
`TenantsServed` that Redis does not fail for ever and no other tenant is both fed and failing for ever (`Calm`).

### Violations

Each shows one statement of a document that the code does not keep: `bulk_failure`
(`FailedRecordsRouted`) and `correlation_stale` (`StatusByOperator`); see
[section 6](#6-disagreements-with-the-documents).

## 4. Fairness

* *Pipeline.* Weak fairness of each worker's step: the loop never leaves its `while`
  on an exception, sleeps and polls again; a cancelled or killed one
  comes back with its process, which `docker-compose.yml` restarts (`restart: unless-stopped`). Weak
  fairness of a replay's push after its removal: the Redis client answers or raises. Nothing obliges a client to
  send or an operator to act, and no fairness is assumed of interruptions.
* *Polling.* Weak fairness of each worker's step, under which its commands and writes may still raise as often as they
  will. No fairness is assumed of the order in which a scan returns keys, nor that clients stop sending. That a tenant is served
  rests on the premises of `TenantsServed`: a tenant that goes on being fed and whose writes go on failing ends every round
  before the tenants after it, which then wait for ever, and `Calm` excludes just that of each other tenant.
* *Simulator.* The event loop runs what is ready; a post ends, since the client has a timeout of
  ten seconds. Requests need not arrive.
* *Dependency graph.* The search is one synchronous call.
* *Investigation.* Weak fairness of each run: a completion answers or fails (15 seconds of silence of the network end it;
  httpx sets no limit on the whole call, so a backend that answers drop by drop is assumed away),
  a tool after five (`asyncio.timeout`), the database driver answers or raises. The LLM may
  choose its answer freely, so it may ask for tools for ever if it is offered them for ever.

## 5. Proofs

TLAPS proves, for every value of the constants that meets the module's named
assumption (finite sets of actors, naturals for the thresholds, what the code's defaults
and validators grant):

| theorem | says | argument |
|---|---|---|
| `LogPipeline_proofs!PipelineTypeOK` | `Spec => []TypeOK` | `TypeOK` is inductive: it says what a worker in each phase holds |
| `LogPipeline_proofs!QueueOvershootBounded` | `Spec => []OvershootBounded` | `OvershootInv` adds that there are no more entries between `LREM` and `LPUSH` than `replays`; the bound counts each handler past the check at a full batch, which pays for its later push |
| `LogPipeline_proofs!PipelineImplementsDelivery` | `Spec => Delivery!Spec` | under `TypeOK` every step maps to a step of LogDelivery or a stutter; a worker's hands and the replays are split off so that one update changes one summand |
| `LogPipeline_proofs!LossIsBounded` | `Spec => []LossBounded` | over the refinement: only `Interrupt` makes logs missing, at most a batch of them |
| `EmbeddingCache_proofs!CacheTypeOK`, `CacheSizeBounded`, `CacheEvictionsCovered` | the three invariants, for any number of threads up to the capacity | `Bounds`: the two counts, and a thread past the check is counted in one of them; a thread that moves from check to eviction or store changes one count by one |
| `EmbeddingCache_proofs!CacheKeepsRecent` | `KeepsRecent` | `RecencyInv`: without overlap at most one call is in progress (`Alone`), what it tested still stands (`TestStands`), and the order of the keys is the order of their last uses (`Ordered`), so that an eviction takes the one used longest ago |
| `LogPipeline_proofs!OneCustody`, `DiscardsAreFinal` | `Spec => []SingleCustody`, `Spec => []DiscardIsFinal`, for any number of clients, workers and overlapping dead-letter requests | `Custody`, of each log that is not `contested`: the places it can be in are disjoint, each holds it once (`OnceBut`), what is live was sent, at most one operator is at work on it (`OneAtWork`), and an entry that an operator found is there until that operator removes it. A second request that finds the entry makes the log contested, which is where the last two conjuncts would break |
| `TenantPolling_proofs!LossesAreConfined` | `LossConfined`, an action property: the logs of a tenant leave its list and the workers' hands only at the end of a cycle of its own, a batch at most | what a tenant has in hands is a number of pairs of a worker and an item, which is a sum over the workers: a step of one worker changes one summand (`SumChanges`), and a pop takes from the list what it adds to the sum |
| `Correlation_proofs!SearchReturnsDownstream` | the search returns the least closed set | `SearchInv`: everything visited is downstream (`SearchSound`), and the targets of everything visited are visited, pending or queued (`SearchComplete`) |
| `Correlation_proofs!GraphTypes` | `GraphSpec => []GraphTypeOK`, that a service is queued once at a time included | `QueuedOnce`: what is queued has been visited, but for the argument in the beginning |
| `Correlation_proofs!SearchesAreDependsOn` | on the loaded dependencies the search returns what Correlation's evaluations use, `DependsOn` | the previous theorem; this is what composes the two modules |
| `Topology_proofs!TopologyTypeOK`, `DuplicatesAreBounded` | unique keys; at most as many rows of a dependency as requests in progress | `Reserved`: rows and requests about to insert together never outnumber the requests |
| `Topology_proofs!EngineRegisters` | `EngineSpec => Spec` of Topology, so the two theorems above hold with evaluations going on | every step of the engine is a registration or leaves the table alone |
| `Topology_proofs!SearchesSeeRegistered` | `EngineSpec => []SearchSeesRegistered` | what has been registered has a row; what an evaluation knew is in what it read, and the graph only grows |
| `Correlation_proofs!CorrelationTypeOK`, `NothingDropped`, `TimelinesUpstream`, `HistoryIsKept` | types, `TimelineComplete`, `SymptomsUpstream`, `HistoryKept`, for any number of evaluations and updates, any dependencies, logs and limits | `IInv`: an object may be stale in everything but its id and trigger (`Holds`); runs differ, and the traces of a run that have events are done (`Sound`, `Saving`), so no event is stored twice |
| `Correlation_proofs!ServicesAreCovered`, `SymptomsAreSuppressed` | `AffectedCovered`, `SymptomsSuppressed` | `QInv`: without overlap at most one request is in progress (`Alone`), and its objects agree with their rows and cover all active ones (`AllFresh`) |
| `Correlation_proofs!FallbackEvidence` | `FallbackHasEvidence` | `AllBegun`: each row keeps the initial error it was inserted with; a nonempty set of events has a first one, since the order on the naturals is well-founded |
| `Correlation_proofs!RootCausesAreBlamed` | `RootCauseBlamed`, for any graph, any failures injected at any times and any pages of errors | `AllBegin`: in each incident the events of a run's trace come with the earliest error of that trace that the run saw; the earliest errors of an injected failure are of its root cause (`FirstErrors`), and `ScenarioAssumption` separates the traces |
| `Investigation_proofs!InvestigationTypeOK`, `TranscriptComplete`, `ReturnedReportsStored`, `DiagnosesAlone` | the four invariants, for any number of requests | `IInv`: replies and open calls add up to the calls asked (`Transcript`); a report being saved carries the run's steps and a time not in the future (`Reporting`); which rows a run can own in each phase (`Rows`) |
| `Investigation_proofs!ServingGoesForward` | `ServedForward`, an action property | rows are never changed or removed, and the report served is the newest one |
| `SimulationControl_proofs!ControlTypeOK`, `StopsAwait` | types, `StopAwaitsItsTask`, however requests overlap | `Queueing`: each request or ended task that is due is in the ready queue once (`Once`), a client waits on one task, and a waiting client's task has not ended (`Awaited`) |
| `SimulationControl_proofs!SerialNoOrphans`, `SerialStatusShowsTraffic` | `NoOrphans`, `StatusShowsTraffic` | `Serial`, on top of `Queueing`: without overlap at most one request is in progress, the task it stops is the one of the handle, and the status is the one of the handle but in the middle of a request, also when the task has ended by itself |
| `SpikeDetector_proofs!SpikeTypeOK`, `RatesNeverExceedOne`, `AlertsHaveTheirErrors`, `AlertsAreSurges` | types, `RatesAreRates`, `AlertsCounted`, `SurgeOverWindow` | `Counting`: what was counted is no more than what the window holds now, errors are counted before the total, and counts only grow; `Steady`: without late logs a window that has passed does not change |

`TypeOK` alone does not give `CallsAnswered` or `DiagnosisAlone`: they speak of the end of a
round or of a run, and the induction has to say what holds in the middle of it.

All safety invariants and action properties that the passing runs check are proved. Only model-checked are

* liveness (`TransitEnds`, `TenantsServed`, `RequestsEnd`, `SearchEnds`, `InvestigationEnds`), which is out of the
  prover's reach, as is everything with `ENABLED`;
* the violations of section 3, which are counterexamples.

The hypotheses of the theorems are the named assumptions of the modules; the runs show that instances of all of them exist. The graph search and the scenarios are proved in
`Correlation_proofs`, since its theorems rest on both.

## 6. Disagreements with the documents

Two are shown by a run, and `PROJECT.json` quotes the lines: the records of a batch whose bulk write fails are
not retried and not routed to the dead-letter list (`bulk_failure`), and an evaluation that merges into an incident
writes back the status it read first, over an operator's update (`correlation_stale`).

Others can be reproduced with the models by widening a run:

| what happens | how to see it |
|---|---|
| a discarded dead-letter entry, which the design says is "permanently" discarded, comes back through a replay that overlaps the discard | `DiscardIsFinal` without `\ contested`, in `pipeline` |
| overlapping start and stop requests leave a traffic task nobody can stop; an overlapping scenario leaves a stale status | `NoOrphans`, `StatusShowsTraffic` without `~ overlap` |
| the status stays `STEADY_STATE` with no traffic after the loop ended by an exception, which is logged and nothing else (`simulator/engine.py`), also when requests are serial | an invariant that asks for a live task whenever `Quiet` and the status is `STEADY_STATE`, in `control_overlap` |
| a spike is raised over a baseline that was not idle, because its count failed and reads as no errors | `SurgeOverWindow` without `failures = 0` |
| overlapping evaluations open an incident of its own for a symptom | `SymptomsSuppressed` without `~ overlap`, in `correlation_overlap` |
| overlapping merges leave an incident that does not name a service of its timeline | `AffectedCovered` without `~ overlap`, in `correlation_overlap` |
| a page of the errors that leaves out the root's opens the incident at a symptom | `RootCauseBlamed` without its condition on what was seen, in `scenarios` |
| the incident of a retry storm names the notification service alone: the order service logs its retries as `WARN` with status 504, which the query for errors never returns, while the ground truth names both services and the trace sequencer would count the status as an error | an invariant that compares an incident's services with `affected`, in `scenarios` |
| the logs of a tenant whose id has a colon are never indexed, since the worker reads off the key and pops the list of another id | `TenantsServed` without `Polled[t] = t`, in `tenant_polling` |
| the logs of a tenant wait for ever behind a tenant that goes on being fed and failing | `TenantsServed` without `Calm`, in `tenant_polling` |
| a tool call whose arguments are rejected raises before its step is recorded, so it is in the transcript and in no report, although `docs/context.md` has "Every tool invocation should be persisted in `investigation_steps`" | an invariant that compares the steps of a report with the calls that its run asked for, in `investigation` |
| a dependency has two rows after a race, and is then refused for ever (`MultipleResultsFound`) | an invariant that bounds `Rows(edge)` by one, in `topology_race` |
| a cache hit raises `KeyError`, when its key is evicted between the test and the use | an invariant that excludes `hit_failed`, in `cache_threads` |

And some are plain from the lines: merging considers strictly downstream incidents only, so evaluating one window twice
opens two incidents (`correlation/engine.py`); one completion may ask for any number of tool calls, all of
which run, and no deadline spans an investigation; unknown tools are recorded as log searches
(`investigation/engine.py`); a retry runs whether or not the earlier report was a fallback
(`investigation/api.py`); a fallback report cites the first initial error of the timeline, whichever service logged it
(`investigation/fallback.py`).

## 7. Not modelled

* Search and runbook retrieval, and the queries behind the investigation's tools: read-only, and the
  ranking is Elasticsearch's.
* Command lines, schemas, settings, the documentation preview, the live end-to-end script: no
  state that outlives a call.
* Random ids, parent spans and texts of the simulator's logs; the text of templates, prompts and reports.
* The limit of 50 services that the query for services returns.
* Several server processes in front of one simulator; see the plan.
* How PostgreSQL serialises two transactions on one row is READ COMMITTED: a later write waits and
  then overwrites; sessions are therefore split into their select and their write.

## 8. Plan

Done, in this order: LogPipeline with LogDelivery (the data path, where logs can be lost), EmbeddingCache,
SimulationControl, ServiceGraph and DependencyGraph, Topology, Correlation (composed from ServiceGraph),
SpikeDetector, Investigation, FallbackReport (composed from Correlation), TopologyEngine (composed from Topology),
Scenarios (the simulator's output composed with Correlation), TenantPolling.

Next, in the model:

1. The classification of tokens in message templates and its idempotence.
2. SimulationControl over several server processes, with the run records.
3. Detection and correlation composed: an evaluation whose spiking services come from SpikeDetector.
4. The signature of a trigger and the severity of an incident.

Next, in the proofs: an abstract specification of the incident store that Correlation implements, step by step, and of
Investigation's transcript the same.
