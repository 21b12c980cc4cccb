--------------------------- MODULE TenantPolling ---------------------------
(***************************************************************************)
(* The loop of the indexer workers over the queues of all tenants: a round *)
(* scans the queue keys and runs one cycle for each; a cycle that raises   *)
(* ends the round, and the worker sleeps and scans again.  Only how many   *)
(* logs each tenant has where is kept.                                     *)
(***************************************************************************)
EXTENDS Integers, FiniteSets

CONSTANTS
    Tenants,
    Polled,     \* [Tenants -> Tenants]: the id the worker reads off the key
    Workers,
    BatchSize,
    MaxLength   \* bound: the logs of a list, by tenant

ASSUME PollingAssumption ==
    /\ Polled \in [Tenants -> Tenants]
    /\ IsFiniteSet(Workers)
    /\ BatchSize \in Nat \ {0}
    /\ MaxLength \in [Tenants -> Nat]

VARIABLES
    queue,   \* [Tenants -> length of the list]; an empty list has no key
    worker   \* [Workers -> the round in progress]

vars == <<queue, worker>>

Add(count, t, n) == [count EXCEPT ![t] = @ + n]

Nobody == CHOOSE t \in Tenants : TRUE   \* stands for no tenant between cycles

\* due: keys there since the scan began, which it must return; seen: those
\* that it has returned
Sleeping == [pc |-> "sleep", due |-> {}, seen |-> {}, tenant |-> Nobody, batch |-> 0]
Scanning(state) == [state EXCEPT !.pc = "scan", !.tenant = Nobody, !.batch = 0]

Init == /\ queue = [t \in Tenants |-> 0]
        /\ worker = [w \in Workers |-> Sleeping]

\* an ingest request that is accepted, or a replay
Push(t, n) ==
    /\ queue[t] + n <= MaxLength[t]
    /\ queue' = Add(queue, t, n)
    /\ UNCHANGED worker
----------------------------------------------------------------------------
Present == {t \in Tenants : queue[t] > 0}

StartRound(w) ==
    /\ worker[w].pc = "sleep"
    /\ worker' = [worker EXCEPT ![w] = [@ EXCEPT !.pc = "scan", !.due = Present]]
    /\ UNCHANGED queue

\* a key that came up during the scan may be returned or not
ScanYields(w, t) ==
    /\ worker[w].pc = "scan" /\ t \in Present \ worker[w].seen
    /\ worker' = [worker EXCEPT ![w] =
           [@ EXCEPT !.pc = "pop", !.seen = worker[w].seen \cup {t},
                     !.tenant = Polled[t]]]
    /\ UNCHANGED queue

RoundEnds(w) ==
    /\ worker[w].pc = "scan" /\ worker[w].due \subseteq worker[w].seen
    /\ worker' = [worker EXCEPT ![w] = Sleeping]
    /\ UNCHANGED queue
----------------------------------------------------------------------------
\* whoever takes the last item deletes the key
Noticed(length, states) ==
    [w \in Workers |-> [states[w] EXCEPT !.due = {t \in @ : length[t] > 0}]]

\* one RPOP of dequeue_batch
Pop(w) ==
    /\ worker[w].pc = "pop" /\ worker[w].batch < BatchSize
    /\ queue[worker[w].tenant] > 0
    /\ queue' = Add(queue, worker[w].tenant, -1)
    /\ worker' = Noticed(queue', [worker EXCEPT ![w].batch = @ + 1])

\* the batch is full or the list is empty
Popped(w) ==
    /\ worker[w].pc = "pop"
    /\ worker[w].batch = BatchSize \/ queue[worker[w].tenant] = 0
    /\ worker' = [worker EXCEPT ![w] =
           IF @.batch = 0 THEN Scanning(@) ELSE [@ EXCEPT !.pc = "write"]]
    /\ UNCHANGED queue

\* bulk_index and push_dlq: the batch leaves the hands for the indices that its
\* own records name, or for the dead letters of the tenant polled
Write(w) ==
    /\ worker[w].pc = "write"
    /\ worker' = [worker EXCEPT ![w] = Scanning(@)]
    /\ UNCHANGED queue

\* the batch is in no list any more
Returned_All(batch) == batch   \* mutant: puts a failed batch back
Returned(batch) == 0

Raised_Carried(state) ==   \* mutant: keeps the batch for its next cycle
    [Sleeping EXCEPT !.batch = state.batch]
Raised(state) == Sleeping

\* bulk_index or push_dlq raises, as often as it will, whatever part was stored
WriteFails(w) ==
    /\ worker[w].pc = "write"
    /\ queue' = Add(queue, worker[w].tenant, Returned(worker[w].batch))
    /\ worker' = [worker EXCEPT ![w] = Raised(@)]

\* a Redis command raises, executed or not, or the process restarts
RedisFails(w) ==
    /\ worker[w].pc \in {"scan", "pop"}
    /\ \E executed \in {0, 1} :
        /\ executed = 1 => /\ worker[w].pc = "pop" /\ worker[w].batch < BatchSize
                           /\ queue[worker[w].tenant] > 0
        /\ queue' = Add(queue, worker[w].tenant, - executed)
    /\ worker' = Noticed(queue', [worker EXCEPT ![w] = Raised(@)])
----------------------------------------------------------------------------
WorkerStep(w) == \/ StartRound(w) \/ RoundEnds(w)
                 \/ \E t \in Tenants : ScanYields(w, t)
                 \/ Pop(w) \/ Popped(w) \/ Write(w) \/ WriteFails(w) \/ RedisFails(w)

Next == \/ \E t \in Tenants : \E n \in 1..MaxLength[t] : Push(t, n)
        \/ \E w \in Workers : WorkerStep(w)

Spec == Init /\ [][Next]_vars

\* the loop never ends; a command answers or raises
FairSpec == Spec /\ \A w \in Workers : WF_vars(WorkerStep(w))
----------------------------------------------------------------------------
InCycle(w, t) == worker[w].pc \in {"pop", "write"} /\ worker[w].tenant = t

InHands(t) == {p \in Workers \X (1..BatchSize) :
                   worker[p[1]].tenant = t /\ p[2] <= worker[p[1]].batch}

\* the logs taken in for a tenant that no worker has finished with
Held(t) == queue[t] + Cardinality(InHands(t))

\* what a step may do to them: more arrive while no worker moves; some are
\* finished with, a batch at most, when a cycle of the tenant ends
OwnCycleOnly(t) ==
    /\ Held(t)' > Held(t) => UNCHANGED worker
    /\ Held(t)' < Held(t) =>
          /\ Held(t)' >= Held(t) - BatchSize
          /\ \E w \in Workers : InCycle(w, t) /\ worker'[w].pc \in {"scan", "sleep"}

\* Whatever raises for other tenants, the logs of a tenant are finished with,
\* stored or lost, only when a cycle of its own ends, a batch of them at most;
\* and no worker adds to them what it has taken from another tenant.
LossConfined == [][\A t \in Tenants : OwnCycleOnly(t)]_vars

\* a failure after the last key is no different from the end of the round
RedisFailure == \E w \in Workers : RedisFails(w) /\ ~RoundEnds(w)
FailureOf(t) == \E w \in Workers : worker[w].tenant = t /\ WriteFails(w)
ArrivalOf(t) == \E n \in 1..MaxLength[t] : Push(t, n)

\* From some time on either no write of the tenant fails or nothing arrives.
Calm(t) == \/ <>[][~FailureOf(t)]_vars
           \/ <>[][~ArrivalOf(t)]_vars

\* A tenant waits for ever only while Redis goes on failing, or behind a tenant
\* that goes on being fed and goes on failing to be written, whose cycles end
\* the rounds: with neither, and with an id that the worker can read off the
\* key, the logs that wait are taken up, though its own writes all fail.
TenantsServed ==
    \A t \in Tenants :
        /\ Polled[t] = t
        /\ <>[][~RedisFailure]_vars
        /\ \A u \in Tenants \ {t} : Calm(u)
        => (queue[t] > 0 ~> (queue[t] = 0 \/ \E w \in Workers : InCycle(w, t)))
============================================================================
