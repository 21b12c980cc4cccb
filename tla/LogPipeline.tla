---------------------------- MODULE LogPipeline ----------------------------
(***************************************************************************)
(* The ingestion pipeline of one tenant: API clients post batches of logs  *)
(* to the ingest handler, which checks the depth of the tenant's Redis     *)
(* list and pushes to it; indexer workers (one task per API process and    *)
(* one in the worker container) pop batches, enrich them, write the valid  *)
(* records to Elasticsearch and push the rejected ones to the dead-letter  *)
(* list; operators replay or discard dead-letter entries.  Tenants share   *)
(* no key, so one tenant is enough.                                        *)
(*                                                                         *)
(* One atomic step is one Redis or Elasticsearch command together with the *)
(* local code up to the next await.  A member of Logs is one log of one    *)
(* request: a log sent twice is two members with the same ContentHash.     *)
(***************************************************************************)
EXTENDS Naturals, Sequences, FiniteSets, Functions

CONSTANTS
    Logs,          \* the logs clients may send, one member per occurrence
    Batches,       \* the request bodies: non-empty sequences over Logs
    Malformed,     \* the logs LogRecord.model_validate rejects
    ContentHash,   \* [Logs -> hashes], what generate_content_hash returns
    Clients,       \* concurrent ingest requests
    Workers,       \* indexer worker tasks
    Operators,     \* concurrent dead-letter requests
    MaxDepth,      \* LogQueue.max_depth
    MaxBatch,      \* LogBatchPayload.logs max_length
    BatchSize,     \* batch_size of dequeue_batch
    FindLimit,     \* limit of _find_dlq_entry
    MaxFailures,   \* bound: interrupted commands and processes
    MaxReplays     \* bound: replayed entries

ASSUME PipelineAssumption ==
    /\ IsFiniteSet(Logs) /\ IsFiniteSet(Clients) /\ IsFiniteSet(Operators)
    /\ MaxDepth \in Nat \ {0} /\ BatchSize \in Nat \ {0}
    /\ MaxBatch \in Nat /\ FindLimit \in Nat
    /\ MaxFailures \in Nat /\ MaxReplays \in Nat
    /\ Malformed \subseteq Logs /\ DOMAIN ContentHash = Logs
    /\ \A b \in Batches : /\ b \in Seq(Logs)
                          /\ Len(b) \in 1..MaxBatch
                          /\ \A i, j \in DOMAIN b : b[i] = b[j] => i = j

VARIABLES
    queue,      \* the Redis list logmind:queue:<tenant>, oldest first
    dlq,        \* the Redis list logmind:dlq:<tenant>, as a set of entries
    nextId,     \* the next dead-letter id; a larger id was pushed later
    index,      \* content hashes of the documents in Elasticsearch
    worker,     \* [Workers -> a run_cycle in progress]
    request,    \* [Clients -> an ingest request in progress]
    operator,   \* [Operators -> a dead-letter request in progress]
    sent,       \* logs that were part of an admitted request
    accepted,   \* logs whose client has received 202
    discarded,  \* logs whose operator has received status "discarded"
    contested,  \* history: logs whose entry a request found while another
                \* had found it and not yet removed it
    failures,   \* interruptions so far
    replays     \* entries pushed back to the queue so far

pipelineVars == <<queue, dlq, nextId, index>>
clientVars   == <<request, sent, accepted>>
vars == <<queue, dlq, nextId, index, worker, request, operator,
          sent, accepted, discarded, contested, failures, replays>>

Entry    == [id : Nat, log : Logs]
IdleWorker   == [pc |-> "idle", batch |-> <<>>, bad |-> {}]
DownWorker   == [pc |-> "down", batch |-> <<>>, bad |-> {}]
IdleRequest  == [pc |-> "idle", batch |-> <<>>]
NoEntry      == [id |-> 0]
IdleOperator == [pc |-> "idle", entry |-> NoEntry]

(***************************************************************************)
(* What is where.  A worker that waits to route holds only the rejected    *)
(* items; a replay holds its entry between LREM and LPUSH.                 *)
(***************************************************************************)
InQueue == Range(queue)

HeldAt(w) == IF worker[w].pc = "route" THEN worker[w].bad
                                      ELSE DOMAIN worker[w].batch
Held(w) == {worker[w].batch[i] : i \in HeldAt(w)}

InHands == UNION {Held(w) : w \in Workers}

Requeueing == {o \in Operators : operator[o].pc = "requeue"}
InReplay == {operator[o].entry.log : o \in Requeueing}

InDlq    == {e.log : e \in dlq}
Indexed  == {l \in Logs : ContentHash[l] \in index}
InTransit == InQueue \cup InHands \cup InReplay
Live     == InTransit \cup InDlq

Init ==
    /\ queue = <<>> /\ dlq = {} /\ nextId = 0 /\ index = {}
    /\ worker = [w \in Workers |-> IdleWorker]
    /\ request = [c \in Clients |-> IdleRequest]
    /\ operator = [o \in Operators |-> IdleOperator]
    /\ sent = {} /\ accepted = {} /\ discarded = {} /\ contested = {}
    /\ failures = 0 /\ replays = 0
----------------------------------------------------------------------------
(***************************************************************************)
(* POST /logs/ingest.  The depth check and the push are two Redis          *)
(* commands; a saturated queue answers 429 and leaves no trace.            *)
(***************************************************************************)
Saturated_OffByOne == Len(queue) > MaxDepth   \* mutant: one batch too late
Saturated == Len(queue) >= MaxDepth

Admit(c, batch) ==
    /\ request[c].pc = "idle"
    /\ ~ Saturated
    /\ Range(batch) \cap sent = {}
    /\ request' = [request EXCEPT ![c] = [pc |-> "push", batch |-> batch]]
    /\ sent' = sent \cup Range(batch)
    /\ UNCHANGED <<pipelineVars, worker, operator, accepted, discarded,
                   contested, failures, replays>>

EnqueueBatch(c) ==
    /\ request[c].pc = "push"
    /\ queue' = queue \o request[c].batch
    /\ accepted' = accepted \cup Range(request[c].batch)
    /\ request' = [request EXCEPT ![c] = IdleRequest]
    /\ UNCHANGED <<dlq, nextId, index, worker, operator, sent, discarded,
                   contested, failures, replays>>

(***************************************************************************)
(* The request dies with a 500 or with its process; the push may have      *)
(* been executed before that.                                              *)
(***************************************************************************)
InterruptRequest(c) ==
    /\ request[c].pc = "push"
    /\ failures < MaxFailures
    /\ queue' \in {queue, queue \o request[c].batch}
    /\ request' = [request EXCEPT ![c] = IdleRequest]
    /\ failures' = failures + 1
    /\ UNCHANGED <<dlq, nextId, index, worker, operator, sent, accepted,
                   discarded, contested, replays>>
----------------------------------------------------------------------------
(***************************************************************************)
(* run_worker_loop and IndexerWorker.run_cycle.                            *)
(***************************************************************************)
\* scan_iter returns the key of the list, which exists while it is not empty
Poll(w) ==
    /\ worker[w].pc = "idle"
    /\ queue # <<>>
    /\ worker' = [worker EXCEPT ![w].pc = "pop"]
    /\ UNCHANGED <<pipelineVars, clientVars, operator, discarded, contested,
                   failures, replays>>

CanPop(w) ==
    /\ worker[w].pc = "pop"
    /\ Len(worker[w].batch) < BatchSize
    /\ queue # <<>>

DequeueOne(w) ==
    /\ CanPop(w)
    /\ queue' = Tail(queue)
    /\ worker' = [worker EXCEPT ![w].batch = Append(@, Head(queue))]
    /\ UNCHANGED <<dlq, nextId, index, clientVars, operator, discarded,
                   contested, failures, replays>>

MalformedItems(batch) == {i \in DOMAIN batch : batch[i] \in Malformed}

AfterEnrich_NoEmptyCheck(bad, batch) ==   \* mutant: runs on with no items
    [pc |-> IF bad = DOMAIN batch THEN "route" ELSE "index",
     batch |-> batch, bad |-> bad]

\* where run_cycle goes with the rejected positions bad: bulk_index is
\* skipped when no record is valid, push_dlq when no record is rejected
AfterEnrich(bad, batch) ==
    IF batch = <<>> THEN IdleWorker
    ELSE [pc |-> IF bad = DOMAIN batch THEN "route" ELSE "index",
          batch |-> batch, bad |-> bad]

BatchReady_Full(w) == Len(worker[w].batch) = BatchSize  \* mutant: never short
BatchReady(w) == Len(worker[w].batch) = BatchSize \/ queue = <<>>

\* enrich_batch rejects the malformed items and those whose embedding fails
EnrichBatch(w) ==
    /\ worker[w].pc = "pop"
    /\ BatchReady(w)
    /\ \E bad \in SUBSET DOMAIN worker[w].batch :
        /\ MalformedItems(worker[w].batch) \subseteq bad
        /\ worker' = [worker EXCEPT ![w] = AfterEnrich(bad, @.batch)]
    /\ UNCHANGED <<pipelineVars, clientVars, operator, discarded, contested,
                   failures, replays>>

ValidItems(w) == {worker[w].batch[i] :
                    i \in DOMAIN worker[w].batch \ worker[w].bad}

AfterBulk_SkipsDlq(w) == IdleWorker   \* mutant: forgets the rejected items
AfterBulk(w) == IF worker[w].bad = {} THEN IdleWorker
                ELSE [worker[w] EXCEPT !.pc = "route"]

\* a document with a known content hash replaces the one it has the id of
BulkIndex(w) ==
    /\ worker[w].pc = "index"
    /\ index' = index \cup {ContentHash[l] : l \in ValidItems(w)}
    /\ worker' = [worker EXCEPT ![w] = AfterBulk(w)]
    /\ UNCHANGED <<queue, dlq, nextId, clientVars, operator, discarded,
                   contested, failures, replays>>

DlqEntries(w) == {[id |-> nextId + i, log |-> worker[w].batch[i]] :
                    i \in worker[w].bad}

PushDlq(w) ==
    /\ worker[w].pc = "route"
    /\ dlq' = dlq \cup DlqEntries(w)
    /\ nextId' = nextId + Len(worker[w].batch)
    /\ worker' = [worker EXCEPT ![w] = IdleWorker]
    /\ UNCHANGED <<queue, index, clientVars, operator, discarded, contested,
                   failures, replays>>

(***************************************************************************)
(* An exception in the cycle (a command fails, async_bulk reports a        *)
(* document error), a cancelled task or a killed process.  The batch lived *)
(* only in local variables.  The command in flight may have been executed  *)
(* first, bulk_index for any part of the batch.  The loop survives an      *)
(* exception (next = IdleWorker) and ends with a cancellation or a kill.   *)
(***************************************************************************)
InterruptWorker(w, next) ==
    /\ worker[w] # next
    /\ worker[w].pc # "down"
    /\ failures < MaxFailures
    /\ \/ UNCHANGED pipelineVars
       \/ /\ CanPop(w)
          /\ queue' = Tail(queue)
          /\ UNCHANGED <<dlq, nextId, index>>
       \/ /\ worker[w].pc = "index"
          /\ \E S \in SUBSET ValidItems(w) :
                index' = index \cup {ContentHash[l] : l \in S}
          /\ UNCHANGED <<queue, dlq, nextId>>
       \/ /\ worker[w].pc = "route"
          /\ dlq' = dlq \cup DlqEntries(w)
          /\ nextId' = nextId + Len(worker[w].batch)
          /\ UNCHANGED <<queue, index>>
    /\ worker' = [worker EXCEPT ![w] = next]
    /\ failures' = failures + 1
    /\ UNCHANGED <<clientVars, operator, discarded, contested, replays>>

\* lifespan and the container's restart policy start the loop again
StartWorker(w) ==
    /\ worker[w].pc = "down"
    /\ worker' = [worker EXCEPT ![w] = IdleWorker]
    /\ UNCHANGED <<pipelineVars, clientVars, operator, discarded, contested,
                   failures, replays>>
----------------------------------------------------------------------------
(***************************************************************************)
(* POST /dlq/{id}/replay and DELETE /dlq/{id}.  Both read the newest       *)
(* FindLimit + 1 entries, then remove the one they found without looking   *)
(* at how many LREM removed.  An entry that is not found answers 404.      *)
(***************************************************************************)
Without_NoLrem(e) == dlq   \* mutant: LREM matches nothing
Without(e) == dlq \ {e}

Newer(e) == {f \in dlq : f.id > e.id}
Findable == {e \in dlq : Cardinality(Newer(e)) <= FindLimit}

\* a request that has found the entry and has still to remove it
AtWork(p, e) == operator[p].pc \in {"replay", "discard"} /\ operator[p].entry = e

FindEntry(o, next) ==
    /\ operator[o].pc = "idle"
    /\ next \in {"replay", "discard"}
    /\ \E e \in Findable :
        /\ operator' = [operator EXCEPT ![o] = [pc |-> next, entry |-> e]]
        /\ contested' = IF \E p \in Operators : AtWork(p, e)
                        THEN contested \cup {e.log} ELSE contested
    /\ UNCHANGED <<pipelineVars, worker, clientVars, discarded, failures,
                   replays>>

RemoveForReplay(o) ==
    /\ operator[o].pc = "replay"
    /\ replays < MaxReplays
    /\ dlq' = Without(operator[o].entry)
    /\ operator' = [operator EXCEPT ![o].pc = "requeue"]
    /\ replays' = replays + 1
    /\ UNCHANGED <<queue, nextId, index, worker, clientVars, discarded,
                   contested, failures>>

\* enqueue_batch with one payload; the depth of the queue is not checked
Requeue(o) ==
    /\ operator[o].pc = "requeue"
    /\ queue' = Append(queue, operator[o].entry.log)
    /\ operator' = [operator EXCEPT ![o] = IdleOperator]
    /\ UNCHANGED <<dlq, nextId, index, worker, clientVars, discarded,
                   contested, failures, replays>>

Discard(o) ==
    /\ operator[o].pc = "discard"
    /\ dlq' = Without(operator[o].entry)
    /\ discarded' = discarded \cup {operator[o].entry.log}
    /\ operator' = [operator EXCEPT ![o] = IdleOperator]
    /\ UNCHANGED <<queue, nextId, index, worker, clientVars, contested, failures,
                   replays>>

\* the request dies; the command in flight may have been executed
InterruptOperator(o) ==
    /\ operator[o].pc # "idle"
    /\ failures < MaxFailures
    /\ \/ UNCHANGED <<queue, dlq>>
       \/ /\ operator[o].pc \in {"replay", "discard"}
          /\ dlq' = Without(operator[o].entry)
          /\ UNCHANGED queue
       \/ /\ operator[o].pc = "requeue"
          /\ queue' = Append(queue, operator[o].entry.log)
          /\ UNCHANGED dlq
    /\ operator' = [operator EXCEPT ![o] = IdleOperator]
    /\ failures' = failures + 1
    /\ UNCHANGED <<nextId, index, worker, clientVars, discarded, contested, replays>>
----------------------------------------------------------------------------
WorkerStep(w) == Poll(w) \/ DequeueOne(w) \/ EnrichBatch(w)
                 \/ BulkIndex(w) \/ PushDlq(w) \/ StartWorker(w)

RequestStep(c) == \/ \E batch \in Batches : Admit(c, batch)
                  \/ EnqueueBatch(c)
                  \/ InterruptRequest(c)

OperatorStep(o) == \/ \E next \in {"replay", "discard"} : FindEntry(o, next)
                   \/ RemoveForReplay(o) \/ Requeue(o) \/ Discard(o)
                   \/ InterruptOperator(o)

Next == \/ \E c \in Clients : RequestStep(c)
        \/ \E w \in Workers : WorkerStep(w)
        \/ \E w \in Workers : \E next \in {IdleWorker, DownWorker} :
                InterruptWorker(w, next)
        \/ \E o \in Operators : OperatorStep(o)

Spec == Init /\ [][Next]_vars

\* every worker task keeps being scheduled and is restarted when it died; a
\* replay that is not interrupted goes on to its push
Fairness == /\ \A w \in Workers : WF_vars(WorkerStep(w))
            /\ \A o \in Operators : WF_vars(Requeue(o))

FairSpec == Spec /\ Fairness
----------------------------------------------------------------------------
WorkerStates == [pc : {"idle", "down", "pop", "index", "route"},
                 batch : Seq(Logs), bad : SUBSET (1..BatchSize)]

WorkerOK(r) ==
    /\ Len(r.batch) <= BatchSize
    /\ r.bad \subseteq DOMAIN r.batch
    /\ r.pc \in {"idle", "down"} => r.batch = <<>>
    /\ r.pc = "index" => r.bad # DOMAIN r.batch
    /\ r.pc = "route" => r.bad # {}

\* The type invariant of the pipeline: the shape of the two Redis lists and
\* of every cycle, request and dead-letter call in progress.
TypeOK ==
    /\ queue \in Seq(Logs)
    /\ dlq \subseteq Entry /\ nextId \in Nat
    /\ index \subseteq Range(ContentHash)
    /\ worker \in [Workers -> WorkerStates] /\ \A w \in Workers : WorkerOK(worker[w])
    /\ request \in [Clients -> {IdleRequest} \cup [pc : {"push"}, batch : Batches]]
    /\ operator \in [Operators -> {IdleOperator} \cup
            [pc : {"replay", "discard", "requeue"}, entry : Entry]]
    /\ \A c \in Clients : Range(request[c].batch) \subseteq sent
    /\ accepted \subseteq sent /\ sent \subseteq Logs
    /\ discarded \subseteq Logs /\ contested \subseteq Logs
    /\ failures \in 0..MaxFailures /\ replays \in 0..MaxReplays

\* An accepted log the system no longer knows anything of.
Missing == accepted \ (Live \cup Indexed \cup discarded)

\* A log answered 202 can only vanish through an interruption, and one
\* interruption costs at most one dequeued batch: nothing is lost between
\* RPOP, bulk_index and push_dlq, nor between LREM and LPUSH, of a run
\* that is not interrupted.
LossBounded == Cardinality(Missing) <= BatchSize * failures

\* The handlers that are past the depth check.
Pushing == {c \in Clients : request[c].pc = "push"}

\* The check of ingest_logs races with the pushes it does not see: however
\* many handlers passed it, the list never exceeds the threshold by more
\* than the batches of the handlers that can be past the check at once,
\* and the replayed entries, which are pushed unchecked.
OvershootBounded ==
    Len(queue) + MaxBatch * Cardinality(Pushing) + Cardinality(Requeueing)
        <= (MaxDepth - 1) + MaxBatch * Cardinality(Clients) + replays

\* How often a log is held, over every place that holds logs.
Copies(l) ==
    Cardinality({i \in DOMAIN queue : queue[i] = l})
    + Cardinality({p \in Workers \X (1..BatchSize) :
            p[2] \in HeldAt(p[1]) /\ worker[p[1]].batch[p[2]] = l})
    + Cardinality({e \in dlq : e.log = l})
    + Cardinality({o \in Operators : operator[o].pc = "requeue"
                                      /\ operator[o].entry.log = l})

\* A log is in one place only, whatever workers, requests, interruptions and
\* dead-letter calls do, unless two calls had found its entry at a time: neither
\* looks at what its LREM removed, so that both may go on with the log.
SingleCustody == \A l \in Logs \ contested : Copies(l) <= 1

\* An entry answered "discarded" is out of the pipeline for good (the design:
\* DELETE permanently discards the entry), other calls on other entries and
\* earlier or later ones on this entry notwithstanding; a replay that had found
\* the entry before the discard removed it brings the log back.
DiscardIsFinal == (discarded \ contested) \cap Live = {}

\* No client is admitted and no entry taken for a replay any more.
FallsSilent == <>[][UNCHANGED <<sent, replays>>]_vars

\* Whatever is in transit gets through: once clients and replays pause, no log
\* stays queued, popped or between LREM and LPUSH for ever; each one ends in
\* the index or the dead-letter list, or is lost, whatever was interrupted.
TransitEnds == FallsSilent => []<>(InTransit = {})

\* The pipeline implements LogDelivery: whatever the interleaving, a log
\* leaves the queue, the workers and the dead-letter list only by being
\* indexed, discarded or interrupted.
Losable == {B \in SUBSET Logs : Cardinality(B) <= BatchSize}
Delivery == INSTANCE LogDelivery WITH live <- Live, stored <- index
ImplementsDelivery == Delivery!Spec

\* The design's error path: when the bulk write fails, the records that are
\* not in the index are routed to the dead-letter list.
FailedRecordsRouted ==
    [][\A w \in Workers :
        worker[w].pc = "index" /\ worker'[w] = IdleWorker
            => ValidItems(w) \subseteq (Indexed \cup InDlq)']_vars
============================================================================
