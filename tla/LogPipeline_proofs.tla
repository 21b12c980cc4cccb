------------------------- MODULE LogPipeline_proofs -------------------------
(***************************************************************************)
(* Proofs about LogPipeline for every number of clients, workers and       *)
(* operators and every threshold and batch size: its types, the overshoot  *)
(* of its queue, that it implements LogDelivery, the loss of accepted logs *)
(* and where each log is.                                                  *)
(***************************************************************************)
EXTENDS LogPipeline, FiniteSetTheorems, SequenceTheorems, TLAPS

\* A posted batch is a sequence of 1 to MaxBatch logs.
LEMMA BatchProperties ==
    ASSUME NEW b \in Batches
    PROVE  b \in Seq(Logs) /\ Len(b) \in 1..MaxBatch
BY PipelineAssumption

\* The empty pipeline satisfies the type invariant.
LEMMA InitTypeOK == Init => TypeOK
<1> SUFFICES ASSUME Init PROVE TypeOK
    OBVIOUS
<1>1. \A w \in Workers : worker[w] = IdleWorker
    BY DEF Init
<1>2. IdleWorker \in WorkerStates /\ WorkerOK(IdleWorker)
    BY PipelineAssumption DEF IdleWorker, WorkerStates, WorkerOK
<1>3. Range(<<>>) = {}
    BY DEF Range
<1> QED
    BY <1>1, <1>2, <1>3, PipelineAssumption DEF Init, TypeOK, IdleRequest, IdleOperator

\* Replacing the state of one worker by a well-formed one keeps them all so.
LEMMA WorkerUpdate ==
    ASSUME TypeOK, NEW w \in Workers, NEW r \in WorkerStates, WorkerOK(r),
           worker' = [worker EXCEPT ![w] = r]
    PROVE  /\ worker' \in [Workers -> WorkerStates]
           /\ \A v \in Workers : WorkerOK(worker'[v])
BY DEF TypeOK

\* Replacing the batch of a worker's record leaves its other fields alone.
LEMMA BatchUpdate ==
    ASSUME NEW x \in WorkerStates, NEW b
    PROVE  [x EXCEPT !.batch = b] = [pc |-> x.pc, batch |-> b, bad |-> x.bad]
BY DEF WorkerStates

\* The states of a worker that holds nothing are well-formed.
LEMMA IdleDownOK == /\ IdleWorker \in WorkerStates /\ WorkerOK(IdleWorker)
                    /\ DownWorker \in WorkerStates /\ WorkerOK(DownWorker)
BY PipelineAssumption DEF IdleWorker, DownWorker, WorkerStates, WorkerOK

\* The entries a worker pushes to the dead-letter list are well-formed.
LEMMA DlqEntriesOK ==
    ASSUME TypeOK, NEW w \in Workers
    PROVE  /\ DlqEntries(w) \subseteq Entry
           /\ Len(worker[w].batch) \in Nat
<1>1. /\ worker[w] \in WorkerStates /\ WorkerOK(worker[w]) /\ nextId \in Nat
    BY DEF TypeOK
<1>2. ASSUME NEW i \in worker[w].bad
      PROVE  [id |-> nextId + i, log |-> worker[w].batch[i]] \in Entry
    BY <1>1 DEF WorkerStates, WorkerOK, Entry
<1> QED
    BY <1>1, <1>2 DEF DlqEntries, WorkerStates

\* Every step keeps the type invariant.
LEMMA NextTypeOK == TypeOK /\ [Next]_vars => TypeOK'
<1> SUFFICES ASSUME TypeOK, [Next]_vars PROVE TypeOK'
    OBVIOUS
<1> USE DEF TypeOK
<1>1. ASSUME NEW c \in Clients, NEW batch \in Batches, Admit(c, batch)
      PROVE  TypeOK'
    <2>1. Range(batch) \subseteq Logs
        BY BatchProperties, RangeOfSeq
    <2>2. request' \in [Clients -> {IdleRequest} \cup [pc : {"push"}, batch : Batches]]
        BY <1>1 DEF Admit
    <2>3. \A d \in Clients : Range(request'[d].batch) \subseteq sent'
        BY <1>1 DEF Admit
    <2> QED
        BY <1>1, <2>1, <2>2, <2>3 DEF Admit, pipelineVars
<1>2. ASSUME NEW c \in Clients, EnqueueBatch(c) \/ InterruptRequest(c)
      PROVE  TypeOK'
    <2>1. request[c].batch \in Batches
        BY <1>2 DEF EnqueueBatch, InterruptRequest, IdleRequest
    <2>2. request[c].batch \in Seq(Logs)
        BY <2>1, BatchProperties
    <2>3. queue \o request[c].batch \in Seq(Logs)
        BY <2>2, ConcatProperties
    <2>4. queue' \in Seq(Logs)
        BY <1>2, <2>3 DEF EnqueueBatch, InterruptRequest
    <2>5. request' = [request EXCEPT ![c] = IdleRequest]
        BY <1>2 DEF EnqueueBatch, InterruptRequest
    <2>6. Range(<<>>) = {}
        BY DEF Range
    <2>7. \A d \in Clients : Range(request'[d].batch) \subseteq sent
        BY <2>5, <2>6 DEF IdleRequest
    <2>8. request' \in [Clients -> {IdleRequest} \cup [pc : {"push"}, batch : Batches]]
        BY <2>5
    <2>9. CASE EnqueueBatch(c)
        BY <2>9, <2>4, <2>7, <2>8 DEF EnqueueBatch
    <2>10. CASE InterruptRequest(c)
        <3>1. failures' \in 0..MaxFailures
            BY <2>10, PipelineAssumption DEF InterruptRequest
        <3> QED
            BY <2>10, <2>4, <2>7, <2>8, <3>1 DEF InterruptRequest
    <2> QED
        BY <1>2, <2>9, <2>10
<1>3. ASSUME NEW w \in Workers, Poll(w)
      PROVE  TypeOK'
    <2> DEFINE r == [worker[w] EXCEPT !.pc = "pop"]
    <2>1. r \in WorkerStates /\ WorkerOK(r)
        BY <1>3 DEF Poll, WorkerStates, WorkerOK
    <2>2. worker' = [worker EXCEPT ![w] = r]
        BY <1>3 DEF Poll
    <2> HIDE DEF r
    <2> QED
        BY <1>3, <2>1, <2>2, WorkerUpdate DEF Poll, pipelineVars, clientVars
<1>4. ASSUME NEW w \in Workers, DequeueOne(w)
      PROVE  TypeOK'
    <2> DEFINE r == [pc |-> "pop", batch |-> Append(worker[w].batch, Head(queue)),
                     bad |-> worker[w].bad]
    <2>1. Head(queue) \in Logs /\ Tail(queue) \in Seq(Logs)
        BY <1>4, HeadTailProperties DEF DequeueOne, CanPop
    <2>2. worker[w] \in WorkerStates /\ WorkerOK(worker[w])
        OBVIOUS
    <2>3. /\ worker[w].batch \in Seq(Logs) /\ worker[w].bad \subseteq 1..BatchSize
          /\ worker[w].bad \subseteq 1..Len(worker[w].batch)
          /\ Len(worker[w].batch) \in Nat
        BY <2>2, LenProperties DEF WorkerStates, WorkerOK
    <2>4. /\ Append(worker[w].batch, Head(queue)) \in Seq(Logs)
          /\ Len(Append(worker[w].batch, Head(queue))) = Len(worker[w].batch) + 1
          /\ DOMAIN Append(worker[w].batch, Head(queue)) = 1..(Len(worker[w].batch) + 1)
        BY <2>1, <2>3, AppendProperties, LenProperties
    <2>5. Len(worker[w].batch) + 1 <= BatchSize
        BY <1>4, <2>3, PipelineAssumption DEF DequeueOne, CanPop
    <2>6. r \in WorkerStates
        BY <2>3, <2>4 DEF WorkerStates
    <2>7. WorkerOK(r)
        <3>1. worker[w].bad \subseteq 1..(Len(worker[w].batch) + 1)
            BY <2>3
        <3> QED
            BY <2>4, <2>5, <3>1 DEF WorkerOK
    <2>8. worker' = [worker EXCEPT ![w] = r]
        <3>1. worker[w].pc = "pop"
            BY <1>4 DEF DequeueOne, CanPop
        <3>2. [worker[w] EXCEPT !.batch = Append(@, Head(queue))] = r
            BY <2>2, <3>1, BatchUpdate
        <3>3. worker' = [worker EXCEPT ![w] =
                            [worker[w] EXCEPT !.batch = Append(@, Head(queue))]]
            BY <1>4 DEF DequeueOne
        <3> QED
            BY <3>2, <3>3
    <2> HIDE DEF r
    <2> QED
        BY <1>4, <2>1, <2>6, <2>7, <2>8, WorkerUpdate DEF DequeueOne, clientVars
<1>5. ASSUME NEW w \in Workers, EnrichBatch(w)
      PROVE  TypeOK'
    <2>1. worker[w] \in WorkerStates /\ WorkerOK(worker[w])
        OBVIOUS
    <2>2. PICK bad \in SUBSET DOMAIN worker[w].batch :
            worker' = [worker EXCEPT ![w] = AfterEnrich(bad, worker[w].batch)]
        BY <1>5 DEF EnrichBatch
    <2> DEFINE r == AfterEnrich(bad, worker[w].batch)
    <2>3. /\ worker[w].batch # <<>> => DOMAIN worker[w].batch # {}
          /\ DOMAIN worker[w].batch \subseteq 1..BatchSize
        <3>1. /\ worker[w].batch \in Seq(Logs) /\ Len(worker[w].batch) <= BatchSize
            BY <2>1 DEF WorkerStates, WorkerOK
        <3>2. /\ Len(worker[w].batch) \in Nat
              /\ DOMAIN worker[w].batch = 1..Len(worker[w].batch)
            BY <3>1, LenProperties
        <3>3. worker[w].batch # <<>> => Len(worker[w].batch) # 0
            BY <3>1, EmptySeq
        <3>4. worker[w].batch # <<>> => 1 \in DOMAIN worker[w].batch
            BY <3>2, <3>3
        <3>5. DOMAIN worker[w].batch \subseteq 1..BatchSize
            BY <3>1, <3>2, PipelineAssumption
        <3> QED
            BY <3>4, <3>5
    <2>4. r \in WorkerStates /\ WorkerOK(r)
        BY <2>1, <2>3, IdleDownOK, PipelineAssumption
        DEF AfterEnrich, WorkerStates, WorkerOK
    <2> HIDE DEF r
    <2> QED
        BY <1>5, <2>2, <2>4, WorkerUpdate DEF EnrichBatch, pipelineVars, clientVars, r
<1>6. ASSUME NEW w \in Workers, BulkIndex(w)
      PROVE  TypeOK'
    <2>1. worker[w] \in WorkerStates /\ WorkerOK(worker[w])
        OBVIOUS
    <2> DEFINE r == AfterBulk(w)
    <2>2. r \in WorkerStates /\ WorkerOK(r)
        BY <1>6, <2>1, IdleDownOK DEF BulkIndex, AfterBulk, WorkerStates, WorkerOK
    <2>3. ValidItems(w) \subseteq Logs
        BY <2>1 DEF ValidItems, WorkerStates
    <2>4. index' \subseteq Range(ContentHash)
        BY <1>6, <2>3, PipelineAssumption DEF BulkIndex, Range
    <2> HIDE DEF r
    <2> QED
        BY <1>6, <2>2, <2>4, WorkerUpdate DEF BulkIndex, clientVars, r
<1>7. ASSUME NEW w \in Workers, PushDlq(w)
      PROVE  TypeOK'
    BY <1>7, DlqEntriesOK, IdleDownOK, WorkerUpdate DEF PushDlq, clientVars
<1>8. ASSUME NEW w \in Workers, StartWorker(w)
      PROVE  TypeOK'
    BY <1>8, IdleDownOK, WorkerUpdate DEF StartWorker, pipelineVars, clientVars
<1>9. ASSUME NEW w \in Workers, NEW next \in {IdleWorker, DownWorker},
             InterruptWorker(w, next)
      PROVE  TypeOK'
    <2>1. worker[w] \in WorkerStates /\ WorkerOK(worker[w])
        OBVIOUS
    <2>2. /\ worker' \in [Workers -> WorkerStates]
          /\ \A v \in Workers : WorkerOK(worker'[v])
        BY <1>9, IdleDownOK, WorkerUpdate DEF InterruptWorker
    <2>3. queue' \in Seq(Logs)
        <3>1. queue # <<>> => Tail(queue) \in Seq(Logs)
            BY HeadTailProperties
        <3> QED
            BY <1>9, <3>1 DEF InterruptWorker, pipelineVars, CanPop
    <2>4. dlq' \subseteq Entry /\ nextId' \in Nat
        BY <1>9, DlqEntriesOK DEF InterruptWorker, pipelineVars
    <2>5. ValidItems(w) \subseteq Logs
        BY <2>1 DEF ValidItems, WorkerStates
    <2>6. index' \subseteq Range(ContentHash)
        BY <1>9, <2>5, PipelineAssumption DEF InterruptWorker, pipelineVars, Range
    <2>7. failures' \in 0..MaxFailures
        BY <1>9, PipelineAssumption DEF InterruptWorker
    <2> QED
        BY <1>9, <2>2, <2>3, <2>4, <2>6, <2>7 DEF InterruptWorker, clientVars
<1>10. ASSUME NEW o \in Operators, OperatorStep(o)
       PROVE  TypeOK'
    <2> USE DEF pipelineVars, clientVars, Without, Findable
    <2>1. CASE \E next \in {"replay", "discard"} : FindEntry(o, next)
        <3>1. PICK next \in {"replay", "discard"}, e \in Findable :
                /\ operator' = [operator EXCEPT ![o] = [pc |-> next, entry |-> e]]
                /\ contested' \subseteq contested \cup {e.log}
            BY <2>1 DEF FindEntry
        <3>2. e \in Entry /\ e.log \in Logs
            BY DEF Entry
        <3>3. [pc |-> next, entry |-> e] \in
                [pc : {"replay", "discard", "requeue"}, entry : Entry]
            BY <3>2
        <3>4. operator' \in [Operators -> {IdleOperator} \cup
                [pc : {"replay", "discard", "requeue"}, entry : Entry]]
            BY <3>1, <3>3
        <3>5. contested' \subseteq Logs
            BY <3>1, <3>2
        <3> QED
            BY <2>1, <3>4, <3>5 DEF FindEntry
    <2>2. CASE RemoveForReplay(o)
        <3>1. operator[o].entry \in Entry
            BY <2>2 DEF RemoveForReplay, IdleOperator
        <3>2. replays' \in 0..MaxReplays
            BY <2>2, PipelineAssumption DEF RemoveForReplay
        <3>3. operator' \in [Operators -> {IdleOperator} \cup
                [pc : {"replay", "discard", "requeue"}, entry : Entry]]
            BY <2>2, <3>1 DEF RemoveForReplay, IdleOperator
        <3> QED
            BY <2>2, <3>2, <3>3 DEF RemoveForReplay
    <2>3. CASE Requeue(o) \/ Discard(o) \/ InterruptOperator(o)
        <3>1. operator[o].entry \in Entry
            BY <2>3 DEF Requeue, Discard, InterruptOperator, IdleOperator
        <3>2. operator[o].entry.log \in Logs
            BY <3>1 DEF Entry
        <3>3. operator' \in [Operators -> {IdleOperator} \cup
                [pc : {"replay", "discard", "requeue"}, entry : Entry]]
            BY <2>3 DEF Requeue, Discard, InterruptOperator
        <3>4. Append(queue, operator[o].entry.log) \in Seq(Logs)
            BY <3>2, AppendProperties
        <3>5. queue' \in Seq(Logs)
            BY <2>3, <3>4 DEF Requeue, Discard, InterruptOperator
        <3>6. dlq' \subseteq Entry
            BY <2>3 DEF Requeue, Discard, InterruptOperator
        <3>7. failures' \in 0..MaxFailures
            BY <2>3, PipelineAssumption DEF Requeue, Discard, InterruptOperator
        <3> QED
            BY <2>3, <3>2, <3>3, <3>5, <3>6, <3>7 DEF Requeue, Discard, InterruptOperator
    <2> QED
        BY <1>10, <2>1, <2>2, <2>3 DEF OperatorStep
<1>11. CASE UNCHANGED vars
    BY <1>11 DEF vars
<1> QED
    BY <1>1, <1>2, <1>3, <1>4, <1>5, <1>6, <1>7, <1>8, <1>9, <1>10, <1>11
    DEF Next, RequestStep, WorkerStep

\* The lists, cycles and requests always have the shape TypeOK describes: a
\* worker never routes without rejected items, never indexes without valid
\* ones and never holds more than BatchSize logs.
THEOREM PipelineTypeOK == Spec => []TypeOK
<1>1. Init => TypeOK
    BY InitTypeOK
<1>2. TypeOK /\ [Next]_vars => TypeOK'
    BY NextTypeOK
<1> QED
    BY <1>1, <1>2, PTL DEF Spec
-----------------------------------------------------------------------------
(***************************************************************************)
(* The overshoot of the queue.  A replay counts from the moment it takes   *)
(* its entry, so the invariant also bounds the replays in flight.          *)
(***************************************************************************)
OvershootInv == OvershootBounded /\ Cardinality(Requeueing) <= replays

\* Multiplication by a natural number is monotonic.
LEMMA TimesMonotonic ==
    ASSUME NEW m \in Nat, NEW a \in Nat, NEW b \in Nat, a <= b
    PROVE  m * a <= m * b
OBVIOUS

\* The actors in the middle of a push or of a replay are finitely many.
LEMMA FiniteActors ==
    /\ IsFiniteSet(Pushing) /\ Cardinality(Pushing) \in Nat
    /\ Cardinality(Pushing) <= Cardinality(Clients)
    /\ IsFiniteSet(Requeueing) /\ Cardinality(Requeueing) \in Nat
    /\ Cardinality(Clients) \in Nat
<1>1. Pushing \in SUBSET Clients /\ Requeueing \in SUBSET Operators
    BY DEF Pushing, Requeueing
<1>2. IsFiniteSet(Clients) /\ IsFiniteSet(Operators)
    BY PipelineAssumption
<1> QED
    BY <1>1, <1>2, FS_Subset, FS_CardinalityType

\* A step that leaves the requests and the dead-letter calls alone and does
\* not lengthen the queue keeps the bound.
LEMMA ShorterQueue ==
    ASSUME TypeOK, TypeOK', OvershootInv, Len(queue') <= Len(queue),
           UNCHANGED <<request, operator, replays>>
    PROVE  OvershootInv'
<1>1. Pushing' = Pushing /\ Requeueing' = Requeueing
    BY DEF Pushing, Requeueing
<1>2. Len(queue) \in Nat /\ Len(queue') \in Nat /\ replays \in Nat
    BY LenProperties DEF TypeOK
<1> DEFINE p == MaxBatch * Cardinality(Pushing)
           q == MaxBatch * Cardinality(Clients)
           k == Cardinality(Requeueing)
<1>3. p \in Nat /\ q \in Nat /\ k \in Nat /\ MaxDepth \in Nat
    BY FiniteActors, PipelineAssumption
<1>4. Len(queue) + p + k <= MaxDepth - 1 + q + replays /\ k <= replays
    BY DEF OvershootInv, OvershootBounded
<1>5. OvershootInv' <=> /\ Len(queue') + p + k <= MaxDepth - 1 + q + replays
                        /\ k <= replays
    BY <1>1 DEF OvershootInv, OvershootBounded
<1> HIDE DEF p, q, k
<1> QED
    BY <1>2, <1>3, <1>4, <1>5

\* The inductive invariant holds when the queue is empty.
LEMMA InitOvershoot == Init => OvershootInv
<1> SUFFICES ASSUME Init PROVE OvershootInv
    OBVIOUS
<1>1. Pushing = {} /\ Requeueing = {}
    BY DEF Init, Pushing, Requeueing, IdleRequest, IdleOperator
<1>2. Len(queue) = 0 /\ replays = 0
    BY DEF Init
<1>3. MaxBatch * Cardinality(Clients) \in Nat
    BY FiniteActors, PipelineAssumption
<1> QED
    BY <1>1, <1>2, <1>3, FS_EmptySet, PipelineAssumption
    DEF OvershootInv, OvershootBounded

\* Every step keeps the inductive invariant: a check that passed adds one
\* batch to a queue below the threshold, and the push only spends it.
LEMMA NextOvershoot ==
    TypeOK /\ TypeOK' /\ OvershootInv /\ [Next]_vars => OvershootInv'
<1> SUFFICES ASSUME TypeOK, TypeOK', OvershootInv, [Next]_vars PROVE OvershootInv'
    OBVIOUS
<1> DEFINE p == MaxBatch * Cardinality(Pushing)
           q == MaxBatch * Cardinality(Clients)
           k == Cardinality(Requeueing)
<1>a. p \in Nat /\ q \in Nat /\ k \in Nat /\ MaxDepth \in Nat \ {0} /\ MaxBatch \in Nat
    BY FiniteActors, PipelineAssumption
<1>b. Len(queue) \in Nat /\ queue \in Seq(Logs) /\ replays \in Nat
    BY LenProperties DEF TypeOK
<1>c. Len(queue) + p + k <= MaxDepth - 1 + q + replays /\ k <= replays
    BY DEF OvershootInv, OvershootBounded
<1>1. ASSUME NEW c \in Clients, NEW batch \in Batches, Admit(c, batch)
      PROVE  OvershootInv'
    <2>1. Len(queue) <= MaxDepth - 1
        BY <1>1, <1>a, <1>b DEF Admit, Saturated
    <2>2. UNCHANGED <<queue, replays>> /\ Requeueing' = Requeueing
        BY <1>1 DEF Admit, pipelineVars, Requeueing
    <2>3. Pushing' \in SUBSET Clients
        BY DEF Pushing
    <2>4. Cardinality(Pushing') \in Nat /\ Cardinality(Pushing') <= Cardinality(Clients)
        BY <2>3, PipelineAssumption, FS_Subset, FS_CardinalityType
    <2>5. MaxBatch * Cardinality(Pushing') <= q /\ MaxBatch * Cardinality(Pushing') \in Nat
        BY <2>4, <1>a, FiniteActors, TimesMonotonic
    <2> HIDE DEF q
    <2>6. Len(queue) + MaxBatch * Cardinality(Pushing') + k <= MaxDepth - 1 + q + replays
        BY <2>1, <2>5, <1>a, <1>b, <1>c
    <2> QED
        BY <2>2, <2>6, <1>c DEF OvershootInv, OvershootBounded, q
<1>2. ASSUME NEW c \in Clients, EnqueueBatch(c) \/ InterruptRequest(c)
      PROVE  OvershootInv'
    <2>1. /\ request[c].batch \in Seq(Logs)
          /\ Len(request[c].batch) \in Nat /\ Len(request[c].batch) <= MaxBatch
        BY <1>2, <1>a, BatchProperties DEF TypeOK, EnqueueBatch, InterruptRequest, IdleRequest
    <2>2. Len(queue') \in Nat /\ Len(queue') <= Len(queue) + MaxBatch
        BY <1>2, <1>a, <1>b, <2>1, ConcatProperties DEF EnqueueBatch, InterruptRequest
    <2>3. c \in Pushing /\ Pushing' = Pushing \ {c}
        BY <1>2 DEF EnqueueBatch, InterruptRequest, Pushing, IdleRequest, TypeOK
    <2>4. Cardinality(Pushing') = Cardinality(Pushing) - 1
        BY <2>3, FiniteActors, FS_RemoveElement
    <2>5. MaxBatch * Cardinality(Pushing') = p - MaxBatch
        BY <2>4, <1>a, FiniteActors
    <2>6. UNCHANGED replays /\ Requeueing' = Requeueing
        BY <1>2 DEF EnqueueBatch, InterruptRequest, Requeueing
    <2> HIDE DEF p, q, k
    <2>7. Len(queue') + (p - MaxBatch) + k <= MaxDepth - 1 + q + replays
        BY <2>2, <1>a, <1>b, <1>c
    <2> QED
        BY <2>5, <2>6, <2>7, <1>c DEF OvershootInv, OvershootBounded, q, k
<1>3. ASSUME NEW w \in Workers, WorkerStep(w)
      PROVE  OvershootInv'
    <2>1. queue # <<>> => Len(Tail(queue)) <= Len(queue)
        BY <1>b, HeadTailProperties
    <2>2. Len(queue') <= Len(queue)
        BY <1>3, <2>1, <1>b
        DEF WorkerStep, Poll, DequeueOne, CanPop, EnrichBatch, BulkIndex, PushDlq,
            StartWorker, pipelineVars
    <2>3. UNCHANGED <<request, operator, replays>>
        BY <1>3 DEF WorkerStep, Poll, DequeueOne, EnrichBatch, BulkIndex, PushDlq,
            StartWorker, clientVars
    <2> QED
        BY <2>2, <2>3, ShorterQueue
<1>4. ASSUME NEW w \in Workers, NEW next \in {IdleWorker, DownWorker},
             InterruptWorker(w, next)
      PROVE  OvershootInv'
    <2>1. queue # <<>> => Len(Tail(queue)) <= Len(queue)
        BY <1>b, HeadTailProperties
    <2>2. Len(queue') <= Len(queue)
        BY <1>4, <2>1, <1>b DEF InterruptWorker, CanPop, pipelineVars
    <2> QED
        BY <1>4, <2>2, ShorterQueue DEF InterruptWorker, clientVars
<1>5. ASSUME NEW o \in Operators, NEW next \in {"replay", "discard"}, FindEntry(o, next)
      PROVE  OvershootInv'
    <2>1. UNCHANGED <<queue, replays>> /\ Pushing' = Pushing
        BY <1>5 DEF FindEntry, pipelineVars, clientVars, Pushing
    <2>2. Requeueing' = Requeueing
        BY <1>5 DEF FindEntry, Requeueing, TypeOK
    <2> QED
        BY <2>1, <2>2 DEF OvershootInv, OvershootBounded
<1>6. ASSUME NEW o \in Operators, RemoveForReplay(o)
      PROVE  OvershootInv'
    <2>1. /\ UNCHANGED queue /\ Pushing' = Pushing /\ replays' = replays + 1
        BY <1>6 DEF RemoveForReplay, clientVars, Pushing
    <2>2. Requeueing' = Requeueing \cup {o}
        BY <1>6 DEF RemoveForReplay, Requeueing, TypeOK
    <2>3. Cardinality(Requeueing') \in Nat /\ Cardinality(Requeueing') <= k + 1
        <3>1. Cardinality(Requeueing') = IF o \in Requeueing THEN k ELSE k + 1
            BY <2>2, FiniteActors, FS_AddElement
        <3> QED
            BY <3>1, <1>a
    <2> HIDE DEF p, q, k
    <2>4. /\ Len(queue) + p + Cardinality(Requeueing') <= MaxDepth - 1 + q + (replays + 1)
          /\ Cardinality(Requeueing') <= replays + 1
        BY <2>3, <1>a, <1>b, <1>c
    <2> QED
        BY <2>1, <2>4 DEF OvershootInv, OvershootBounded, p, q
<1>7. ASSUME NEW o \in Operators, Requeue(o) \/ Discard(o) \/ InterruptOperator(o)
      PROVE  OvershootInv'
    <2>1. UNCHANGED replays /\ Pushing' = Pushing
        BY <1>7 DEF Requeue, Discard, InterruptOperator, clientVars, Pushing
    <2>2. Requeueing' = Requeueing \ {o}
        BY <1>7 DEF Requeue, Discard, InterruptOperator, Requeueing, TypeOK, IdleOperator
    <2>3. /\ Cardinality(Requeueing') \in Nat
          /\ Cardinality(Requeueing') = IF o \in Requeueing THEN k - 1 ELSE k
        BY <2>2, <1>a, FiniteActors, FS_RemoveElement, FS_CardinalityType
    <2>4. o \in Requeueing => operator[o].entry.log \in Logs
        BY DEF Requeueing, TypeOK, IdleOperator, Entry
    <2>5. o \notin Requeueing => queue' = queue
        BY <1>7 DEF Requeue, Discard, InterruptOperator, Requeueing
    <2>6. \A l \in Logs : Len(Append(queue, l)) = Len(queue) + 1
        BY <1>b, AppendProperties
    <2>7. Len(queue') \in Nat /\ Len(queue') <=
            IF o \in Requeueing THEN Len(queue) + 1 ELSE Len(queue)
        BY <1>7, <1>b, <2>4, <2>5, <2>6
        DEF Requeue, Discard, InterruptOperator, Requeueing
    <2> HIDE DEF p, q, k
    <2>8. /\ Len(queue') + p + Cardinality(Requeueing') <= MaxDepth - 1 + q + replays
          /\ Cardinality(Requeueing') <= replays
        BY <2>3, <2>7, <1>a, <1>b, <1>c
    <2> QED
        BY <2>1, <2>8 DEF OvershootInv, OvershootBounded, p, q
<1>8. CASE UNCHANGED vars
    BY <1>8, <1>b, ShorterQueue DEF vars
<1> QED
    BY <1>1, <1>2, <1>3, <1>4, <1>5, <1>6, <1>7, <1>8
    DEF Next, RequestStep, OperatorStep

\* However many handlers pass the depth check before any of them pushes, the
\* queue never exceeds MaxDepth - 1 by more than the batches of all the
\* clients and the replayed entries (the check of ingest_logs and the
\* unchecked push of replay_dlq).
THEOREM QueueOvershootBounded == Spec => []OvershootBounded
<1>1. Init => TypeOK /\ OvershootInv
    BY InitTypeOK, InitOvershoot
<1>2. TypeOK /\ OvershootInv /\ [Next]_vars => TypeOK' /\ OvershootInv'
    BY NextTypeOK, NextOvershoot
<1>3. OvershootInv => OvershootBounded
    BY DEF OvershootInv
<1> QED
    BY <1>1, <1>2, <1>3, PTL DEF Spec
----------------------------------------------------------------------------
(***************************************************************************)
(* LogPipeline implements LogDelivery, and what LogDelivery bounds, the    *)
(* loss of accepted logs, holds of the pipeline.                           *)
(***************************************************************************)
\* What the workers other than w and the operators other than o hold.
HeldByOthers(w) == UNION {Held(v) : v \in Workers \ {w}}
ReplayedByOthers(o) == {operator[p].entry.log : p \in Requeueing \ {o}}

\* The items of a list after one more is pushed.
LEMMA RangeAppend ==
    ASSUME NEW S, NEW s \in Seq(S), NEW e \in S
    PROVE  Range(Append(s, e)) = Range(s) \cup {e}
<1>1. Append(s, e) = s \o <<e>> /\ <<e>> \in Seq(S)
    BY AppendIsConcat
<1>2. Range(<<e>>) = {e}
    BY DEF Range
<1>3. Range(s \o <<e>>) = Range(s) \cup Range(<<e>>)
    BY <1>1, RangeConcatenation
<1> QED
    BY <1>1, <1>2, <1>3

\* The items of a list are its first one and those of the rest.
LEMMA RangeHeadTail ==
    ASSUME NEW S, NEW s \in Seq(S), s # <<>>
    PROVE  Range(s) = {Head(s)} \cup Range(Tail(s))
<1>1. /\ Head(s) = s[1] /\ Len(s) \in Nat \ {0}
      /\ Tail(s) \in Seq(S) /\ Len(Tail(s)) = Len(s) - 1
      /\ \A i \in 1 .. Len(Tail(s)) : Tail(s)[i] = s[i+1]
    BY HeadTailProperties, EmptySeq
<1>2. /\ Range(s) = {s[i] : i \in 1..Len(s)}
      /\ Range(Tail(s)) = {Tail(s)[i] : i \in 1..Len(Tail(s))}
    BY <1>1, RangeEquality
<1>3. \A i \in 1..Len(s) : i = 1 \/ (i - 1 \in 1..Len(Tail(s)) /\ s[i] = Tail(s)[i-1])
    BY <1>1
<1>4. \A i \in 1..Len(Tail(s)) : i + 1 \in 1..Len(s)
    BY <1>1
<1>5. ASSUME NEW x \in Range(s) PROVE x = Head(s) \/ x \in Range(Tail(s))
    <2>1. PICK i \in 1..Len(s) : x = s[i]
        BY <1>2
    <2> QED
        BY <2>1, <1>1, <1>2, <1>3
<1>6. ASSUME NEW x \in Range(Tail(s)) PROVE x \in Range(s)
    <2>1. PICK i \in 1..Len(Tail(s)) : x = Tail(s)[i]
        BY <1>2
    <2> QED
        BY <2>1, <1>1, <1>2, <1>4
<1>7. Head(s) \in Range(s)
    BY <1>1, <1>2
<1> QED
    BY <1>5, <1>6, <1>7

\* What one worker's step does to what the workers hold.
LEMMA HandsSplit ==
    ASSUME TypeOK, NEW w \in Workers
    PROVE  InHands = HeldByOthers(w) \cup Held(w)
BY DEF InHands, HeldByOthers

\* When one worker's state changes, what the others hold stays.
LEMMA HandsUpdate ==
    ASSUME TypeOK, TypeOK', NEW w \in Workers, NEW r, worker' = [worker EXCEPT ![w] = r]
    PROVE  InHands' = HeldByOthers(w) \cup Held(w)'
<1>1. \A v \in Workers \ {w} : worker'[v] = worker[v]
    BY DEF TypeOK
<1>2. \A v \in Workers \ {w} : Held(v)' = Held(v)
    BY <1>1 DEF Held, HeldAt
<1> QED
    BY <1>2 DEF InHands, HeldByOthers

\* Steps that leave the workers alone leave what they hold alone.
LEMMA HandsSame ==
    ASSUME UNCHANGED worker
    PROVE  InHands' = InHands
BY DEF InHands, Held, HeldAt

\* The logs in replay are those of one operator and of the others.
LEMMA ReplaySplit ==
    ASSUME NEW o \in Operators
    PROVE  InReplay = ReplayedByOthers(o) \cup
                (IF operator[o].pc = "requeue" THEN {operator[o].entry.log} ELSE {})
BY DEF InReplay, ReplayedByOthers, Requeueing

\* When one operator's state changes, the others' replays stay.
LEMMA ReplayUpdate ==
    ASSUME TypeOK, NEW o \in Operators, NEW r, operator' = [operator EXCEPT ![o] = r]
    PROVE  InReplay' = ReplayedByOthers(o) \cup
                (IF r.pc = "requeue" THEN {r.entry.log} ELSE {})
<1>1. operator'[o] = r /\ \A p \in Operators \ {o} : operator'[p] = operator[p]
    BY DEF TypeOK
<1> QED
    BY <1>1 DEF InReplay, ReplayedByOthers, Requeueing

\* Steps that leave the operators alone leave the replays alone.
LEMMA ReplaySame ==
    ASSUME UNCHANGED operator
    PROVE  InReplay' = InReplay
BY DEF InReplay, Requeueing

\* A worker holds at most BatchSize logs.
LEMMA HeldBound ==
    ASSUME TypeOK, NEW w \in Workers
    PROVE  /\ IsFiniteSet(Held(w)) /\ Cardinality(Held(w)) <= Len(worker[w].batch)
           /\ Held(w) \subseteq Logs /\ Len(worker[w].batch) \in Nat
<1>1. /\ worker[w].batch \in Seq(Logs) /\ worker[w].bad \subseteq DOMAIN worker[w].batch
    BY DEF TypeOK, WorkerStates, WorkerOK
<1>2. /\ Len(worker[w].batch) \in Nat /\ DOMAIN worker[w].batch = 1..Len(worker[w].batch)
      /\ worker[w].batch \in [1..Len(worker[w].batch) -> Logs]
    BY <1>1, LenProperties
<1>3. HeldAt(w) \in SUBSET (1..Len(worker[w].batch))
    BY <1>1, <1>2 DEF HeldAt
<1>4. /\ IsFiniteSet(1..Len(worker[w].batch))
      /\ Cardinality(1..Len(worker[w].batch)) = Len(worker[w].batch)
    BY <1>2, FS_Interval
<1>5. IsFiniteSet(HeldAt(w)) /\ Cardinality(HeldAt(w)) <= Len(worker[w].batch)
    BY <1>3, <1>4, FS_Subset
<1> DEFINE f == [i \in HeldAt(w) |-> worker[w].batch[i]]
<1>6. f \in Surjection(HeldAt(w), Held(w))
    BY DEF Surjection, Held
<1> HIDE DEF f
<1>7. IsFiniteSet(Held(w)) /\ Cardinality(Held(w)) <= Cardinality(HeldAt(w))
    BY <1>5, <1>6, FS_Surjection
<1>8. Cardinality(Held(w)) \in Nat /\ Cardinality(HeldAt(w)) \in Nat
    BY <1>5, <1>7, FS_CardinalityType
<1> QED
    BY <1>2, <1>3, <1>5, <1>7, <1>8 DEF Held

\* What a routing worker pushes to the dead-letter list is what it holds.
LEMMA EntriesOfHeld ==
    ASSUME NEW w \in Workers, worker[w].pc = "route"
    PROVE  Held(w) = {e.log : e \in DlqEntries(w)}
<1> DEFINE entry(i) == [id |-> nextId + i, log |-> worker[w].batch[i]]
<1>1. Held(w) = {worker[w].batch[i] : i \in worker[w].bad}
    BY DEF Held, HeldAt
<1>2. DlqEntries(w) = {entry(i) : i \in worker[w].bad}
    BY DEF DlqEntries
<1>3. \A i : entry(i).log = worker[w].batch[i]
    OBVIOUS
<1> HIDE DEF entry
<1> QED
    BY <1>1, <1>2, <1>3

\* Worker steps that only move logs between the queue, the worker and the
\* dead-letter list leave the live logs as they are.
LEMMA MovesKeepLive ==
    ASSUME TypeOK, TypeOK', NEW w \in Workers,
           Poll(w) \/ DequeueOne(w) \/ EnrichBatch(w) \/ PushDlq(w) \/ StartWorker(w)
    PROVE  Live' = Live
<1>0. InReplay' = InReplay
    BY ReplaySame DEF Poll, DequeueOne, EnrichBatch, PushDlq, StartWorker
<1>1. CASE Poll(w) \/ StartWorker(w)
    <2>1. UNCHANGED <<queue, dlq>>
        BY <1>1 DEF Poll, StartWorker, pipelineVars
    <2>2. PICK r : worker' = [worker EXCEPT ![w] = r]
        BY <1>1 DEF Poll, StartWorker
    <2>3. worker'[w].batch = worker[w].batch
        BY <1>1 DEF Poll, StartWorker, TypeOK, WorkerOK, WorkerStates, IdleWorker
    <2>4. worker'[w].pc # "route" /\ worker[w].pc # "route"
        BY <1>1 DEF Poll, StartWorker, TypeOK, WorkerStates, IdleWorker
    <2>5. Held(w)' = Held(w)
        BY <2>3, <2>4 DEF Held, HeldAt
    <2>6. InHands' = InHands
        BY <2>2, <2>5, HandsSplit, HandsUpdate
    <2> QED
        BY <2>1, <2>6, <1>0 DEF Live, InTransit, InQueue, InDlq
<1>2. CASE DequeueOne(w)
    <2>1. queue # <<>> /\ queue \in Seq(Logs) /\ worker[w] \in WorkerStates
        BY <1>2 DEF DequeueOne, CanPop, TypeOK
    <2>2. InQueue = {Head(queue)} \cup InQueue'
        BY <1>2, <2>1, RangeHeadTail DEF DequeueOne, InQueue
    <2>3. worker[w].batch \in Seq(Logs) /\ Head(queue) \in Logs
        BY <2>1, HeadTailProperties DEF WorkerStates
    <2>4. /\ worker'[w].batch = Append(worker[w].batch, Head(queue))
          /\ worker'[w].pc # "route" /\ worker[w].pc # "route"
        BY <1>2, <2>1 DEF DequeueOne, CanPop, TypeOK, WorkerStates
    <2>5. /\ Held(w) = Range(worker[w].batch)
          /\ Held(w)' = Range(Append(worker[w].batch, Head(queue)))
        BY <2>4 DEF Held, HeldAt, Range
    <2>6. Held(w)' = Held(w) \cup {Head(queue)}
        BY <2>3, <2>5, RangeAppend
    <2>7. PICK r : worker' = [worker EXCEPT ![w] = r]
        BY <1>2 DEF DequeueOne
    <2>8. InHands' = InHands \cup {Head(queue)}
        BY <2>6, <2>7, HandsSplit, HandsUpdate
    <2>9. InDlq' = InDlq
        BY <1>2 DEF DequeueOne, InDlq
    <2> QED
        BY <2>2, <2>8, <2>9, <1>0 DEF Live, InTransit
<1>3. CASE EnrichBatch(w)
    <2>1. UNCHANGED <<queue, dlq>>
        BY <1>3 DEF EnrichBatch, pipelineVars
    <2>2. PICK bad \in SUBSET DOMAIN worker[w].batch :
            worker' = [worker EXCEPT ![w] = AfterEnrich(bad, worker[w].batch)]
        BY <1>3 DEF EnrichBatch
    <2>3. worker'[w] = AfterEnrich(bad, worker[w].batch)
        BY <2>2 DEF TypeOK
    <2>4. worker[w].pc = "pop"
        BY <1>3 DEF EnrichBatch
    <2>5. worker'[w].batch = worker[w].batch /\ HeldAt(w)' = HeldAt(w)
        BY <2>3, <2>4 DEF HeldAt, AfterEnrich, IdleWorker
    <2>6. Held(w)' = Held(w)
        BY <2>5 DEF Held
    <2>7. InHands' = InHands
        BY <2>2, <2>6, HandsSplit, HandsUpdate
    <2> QED
        BY <2>1, <2>7, <1>0 DEF Live, InTransit, InQueue, InDlq
<1>4. CASE PushDlq(w)
    <2>1. Held(w) = {e.log : e \in DlqEntries(w)}
        BY <1>4, EntriesOfHeld DEF PushDlq
    <2>2. InDlq' = InDlq \cup Held(w)
        BY <1>4, <2>1 DEF PushDlq, InDlq
    <2>3. worker'[w] = IdleWorker
        BY <1>4 DEF PushDlq, TypeOK
    <2>4. Held(w)' = {}
        BY <2>3 DEF Held, HeldAt, IdleWorker
    <2>5. worker' = [worker EXCEPT ![w] = IdleWorker] /\ UNCHANGED queue
        BY <1>4 DEF PushDlq
    <2>6. InHands' = HeldByOthers(w) /\ InHands = HeldByOthers(w) \cup Held(w)
        BY <2>4, <2>5, HandsSplit, HandsUpdate
    <2> QED
        BY <2>2, <2>5, <2>6, <1>0 DEF Live, InTransit, InQueue
<1> QED
    BY <1>1, <1>2, <1>3, <1>4

\* The facts that make a step an interruption of the abstract specification.
LEMMA InterruptIntro ==
    ASSUME NEW B \in SUBSET Logs, NEW S \in SUBSET (B \cap Live),
           Cardinality(B) <= BatchSize, Live' \subseteq Live, Live \ B \subseteq Live',
           index' = index \cup Delivery!HashesOf(S), failures' = failures + 1,
           UNCHANGED <<accepted, discarded>>
    PROVE  Delivery!Interrupt(B)
BY DEF Delivery!Interrupt, Losable

\* An interrupted worker loses at most a batch: what it held, and the item
\* of a pop whose reply did not arrive.
LEMMA InterruptWorkerRefines ==
    ASSUME TypeOK, TypeOK', NEW w \in Workers, NEW next \in {IdleWorker, DownWorker},
           InterruptWorker(w, next)
    PROVE  \E B \in SUBSET Logs : Delivery!Interrupt(B)
<1>1. worker' = [worker EXCEPT ![w] = next] /\ worker'[w] = next
    BY DEF InterruptWorker, TypeOK
<1>2. Held(w)' = {}
    BY <1>1 DEF Held, HeldAt, IdleWorker, DownWorker
<1>3. InHands' = HeldByOthers(w) /\ InHands = HeldByOthers(w) \cup Held(w)
    BY <1>1, <1>2, HandsSplit, HandsUpdate
<1>4. InReplay' = InReplay
    BY ReplaySame DEF InterruptWorker
<1>5. /\ IsFiniteSet(Held(w)) /\ Cardinality(Held(w)) <= BatchSize
      /\ Cardinality(Held(w)) \in Nat /\ Held(w) \subseteq Logs
    <2>1. Len(worker[w].batch) <= BatchSize
        BY DEF TypeOK, WorkerOK
    <2>2. /\ IsFiniteSet(Held(w)) /\ Held(w) \subseteq Logs /\ Len(worker[w].batch) \in Nat
          /\ Cardinality(Held(w)) <= Len(worker[w].batch)
        BY HeldBound
    <2>3. Cardinality(Held(w)) \in Nat
        BY <2>2, FS_CardinalityType
    <2> QED
        BY <2>1, <2>2, <2>3, PipelineAssumption
<1>6. failures' = failures + 1 /\ UNCHANGED <<accepted, discarded>>
    BY DEF InterruptWorker, clientVars
<1>7. CASE UNCHANGED pipelineVars
    <2>1. InQueue' = InQueue /\ InDlq' = InDlq /\ index' = index
        BY <1>7 DEF pipelineVars, InQueue, InDlq
    <2>2. Live' \subseteq Live /\ Live \ Held(w) \subseteq Live'
        BY <2>1, <1>3, <1>4 DEF Live, InTransit
    <2>3. index' = index \cup Delivery!HashesOf({})
        BY <2>1 DEF Delivery!HashesOf
    <2>4. Delivery!Interrupt(Held(w))
        BY <1>5, <1>6, <2>2, <2>3, InterruptIntro
    <2> QED
        BY <2>4, <1>5
<1>8. CASE CanPop(w) /\ queue' = Tail(queue) /\ UNCHANGED <<dlq, nextId, index>>
    <2> DEFINE B == Held(w) \cup {Head(queue)}
    <2>1. queue # <<>> /\ queue \in Seq(Logs) /\ Head(queue) \in Logs
        BY <1>8, HeadTailProperties DEF CanPop, TypeOK
    <2>2. InQueue = {Head(queue)} \cup InQueue' /\ InDlq' = InDlq
        BY <1>8, <2>1, RangeHeadTail DEF InQueue, InDlq
    <2>3. Live' \subseteq Live /\ Live \ B \subseteq Live'
        BY <2>2, <1>3, <1>4 DEF Live, InTransit
    <2>4. IsFiniteSet(B) /\ Cardinality(B) <= Cardinality(Held(w)) + 1
        <3>1. /\ IsFiniteSet(B)
              /\ Cardinality(B) = IF Head(queue) \in Held(w) THEN Cardinality(Held(w))
                                  ELSE Cardinality(Held(w)) + 1
            BY <1>5, FS_AddElement
        <3> QED
            BY <3>1, <1>5
    <2>5. Cardinality(B) <= BatchSize
        <3>1. Len(worker[w].batch) < BatchSize
            BY <1>8 DEF CanPop
        <3>2. Cardinality(Held(w)) <= Len(worker[w].batch) /\ Len(worker[w].batch) \in Nat
            BY HeldBound
        <3>3. Cardinality(B) \in Nat
            BY <2>4, FS_CardinalityType
        <3> QED
            BY <3>1, <3>2, <3>3, <2>4, <1>5, PipelineAssumption
    <2>6. B \in SUBSET Logs
        BY <2>1, <1>5
    <2> HIDE DEF B
    <2>7. index' = index \cup Delivery!HashesOf({})
        BY <1>8 DEF Delivery!HashesOf
    <2>8. Delivery!Interrupt(B)
        BY <1>6, <2>3, <2>5, <2>6, <2>7, InterruptIntro
    <2> QED
        BY <2>6, <2>8
<1>9. CASE /\ worker[w].pc = "index"
           /\ \E S \in SUBSET ValidItems(w) :
                 index' = index \cup {ContentHash[l] : l \in S}
           /\ UNCHANGED <<queue, dlq, nextId>>
    <2>1. PICK S \in SUBSET ValidItems(w) : index' = index \cup Delivery!HashesOf(S)
        BY <1>9 DEF Delivery!HashesOf
    <2>2. ValidItems(w) \subseteq Held(w)
        BY <1>9 DEF ValidItems, Held, HeldAt
    <2>3. InQueue' = InQueue /\ InDlq' = InDlq
        BY <1>9 DEF InQueue, InDlq
    <2>4. /\ Live' \subseteq Live /\ Live \ Held(w) \subseteq Live'
          /\ S \in SUBSET (Held(w) \cap Live)
        BY <2>2, <2>3, <1>3, <1>4 DEF Live, InTransit
    <2>5. Delivery!Interrupt(Held(w))
        BY <1>5, <1>6, <2>1, <2>4, InterruptIntro
    <2> QED
        BY <2>5, <1>5
<1>10. CASE /\ worker[w].pc = "route"
            /\ dlq' = dlq \cup DlqEntries(w)
            /\ UNCHANGED <<queue, index>>
    <2>1. InDlq' = InDlq \cup Held(w) /\ InQueue' = InQueue
        BY <1>10, EntriesOfHeld DEF InDlq, InQueue
    <2>2. Live' = Live
        BY <2>1, <1>3, <1>4 DEF Live, InTransit
    <2>3. index' = index \cup Delivery!HashesOf({})
        BY <1>10 DEF Delivery!HashesOf
    <2>4. Delivery!Interrupt(Held(w))
        BY <1>5, <1>6, <2>2, <2>3, InterruptIntro
    <2> QED
        BY <2>4, <1>5
<1> QED
    BY <1>7, <1>8, <1>9, <1>10 DEF InterruptWorker

\* A dead-letter request moves, discards or loses the one log of its entry.
LEMMA OperatorStepRefines ==
    ASSUME TypeOK, TypeOK', NEW o \in Operators, OperatorStep(o)
    PROVE  [Delivery!Next]_(Delivery!vars)
<1> USE DEF Delivery!Next, Delivery!vars
<1> DEFINE l == operator[o].entry.log
           rest == ReplayedByOthers(o)
<1>0. /\ InHands' = InHands /\ UNCHANGED <<index, accepted>>
      /\ queue \in Seq(Logs)
      /\ operator[o].pc # "idle" => l \in Logs
    BY HandsSame DEF TypeOK, OperatorStep, FindEntry, RemoveForReplay, Requeue, Discard,
        InterruptOperator, pipelineVars, clientVars, IdleOperator, Entry
<1>1. InReplay = rest \cup (IF operator[o].pc = "requeue" THEN {l} ELSE {})
    BY ReplaySplit
<1>2. ASSUME NEW r, operator' = [operator EXCEPT ![o] = r], r.pc # "requeue"
      PROVE  InReplay' = rest
    BY <1>2, ReplayUpdate
<1>2a. operator' = [operator EXCEPT ![o] = IdleOperator] => InReplay' = rest
    <2>1. IdleOperator.pc # "requeue"
        BY DEF IdleOperator
    <2> QED
        BY <1>2, <2>1
<1>3. \A e : {f.log : f \in Without(e)} \subseteq InDlq
             /\ InDlq \ {e.log} \subseteq {f.log : f \in Without(e)}
    BY DEF Without, InDlq
<1>4. \A e \in Logs : Range(Append(queue, e)) = InQueue \cup {e}
    BY <1>0, RangeAppend DEF InQueue
<1> HIDE DEF rest
<1>5. CASE \E next \in {"replay", "discard"} : FindEntry(o, next)
    <2>1. operator[o].pc = "idle" /\ UNCHANGED <<queue, dlq, discarded, failures>>
        BY <1>5 DEF FindEntry, pipelineVars
    <2>2. InReplay' = rest
        BY <1>5, <1>2 DEF FindEntry
    <2>3. Live' = Live
        BY <2>1, <2>2, <1>0, <1>1 DEF Live, InTransit, InQueue, InDlq
    <2> QED
        BY <2>1, <2>3, <1>0
<1>6. CASE RemoveForReplay(o)
    <2>1. operator[o] \in [pc : {"replay", "discard", "requeue"}, entry : Entry]
        BY <1>6 DEF RemoveForReplay, TypeOK, IdleOperator
    <2>2. /\ operator' = [operator EXCEPT ![o] = [operator[o] EXCEPT !.pc = "requeue"]]
          /\ [operator[o] EXCEPT !.pc = "requeue"].pc = "requeue"
          /\ [operator[o] EXCEPT !.pc = "requeue"].entry = operator[o].entry
        BY <1>6, <2>1 DEF RemoveForReplay
    <2>3. InReplay' = rest \cup {l}
        BY <2>2, ReplayUpdate DEF rest
    <2>4. InReplay = rest
        BY <1>6, <1>1 DEF RemoveForReplay
    <2>5. InDlq' \subseteq InDlq /\ InDlq \ {l} \subseteq InDlq' /\ InQueue' = InQueue
        BY <1>6, <1>3 DEF RemoveForReplay, InDlq, InQueue
    <2>6. Live' = Live \cup {l}
        BY <2>3, <2>4, <2>5, <1>0 DEF Live, InTransit
    <2>7. Delivery!Replay(l) /\ l \in Logs
        BY <1>6, <2>6, <1>0 DEF RemoveForReplay, Delivery!Replay
    <2> QED
        BY <2>7
<1>7. CASE Requeue(o)
    <2>1. operator[o].pc = "requeue" /\ InReplay' = rest
        BY <1>7, <1>2a DEF Requeue
    <2>2. InQueue' = InQueue \cup {l} /\ InDlq' = InDlq
        BY <1>7, <1>0, <1>4, <2>1 DEF Requeue, InQueue, InDlq
    <2>3. Live' = Live
        BY <2>1, <2>2, <1>0, <1>1 DEF Live, InTransit
    <2> QED
        BY <1>7, <2>3, <1>0 DEF Requeue
<1>8. CASE Discard(o)
    <2>1. InReplay' = InReplay /\ InQueue' = InQueue /\ l \in Logs
        BY <1>8, <1>0, <1>1, <1>2a DEF Discard, InQueue
    <2>2. InDlq' \subseteq InDlq /\ InDlq \ {l} \subseteq InDlq'
        BY <1>8, <1>3 DEF Discard, InDlq
    <2>3. Live' \subseteq Live /\ Live \ {l} \subseteq Live'
        BY <2>1, <2>2, <1>0 DEF Live, InTransit
    <2>4. Live' \in {Live, Live \ {l}}
        BY <2>3
    <2>5. Delivery!Discard(l)
        BY <1>8, <2>4, <1>0 DEF Discard, Delivery!Discard
    <2> QED
        BY <2>1, <2>5
<1>9. CASE InterruptOperator(o)
    <2>1. InReplay' = rest /\ l \in Logs /\ failures' = failures + 1 /\ UNCHANGED discarded
        BY <1>9, <1>0, <1>2a DEF InterruptOperator
    <2>2. \/ UNCHANGED <<queue, dlq>>
          \/ dlq' = Without(operator[o].entry) /\ UNCHANGED queue
          \/ queue' = Append(queue, l) /\ UNCHANGED dlq
        BY <1>9 DEF InterruptOperator
    <2>3. /\ InDlq' \subseteq InDlq /\ InDlq \ {l} \subseteq InDlq'
          /\ InQueue' = InQueue \/ (InQueue' = InQueue \cup {l} /\ operator[o].pc = "requeue")
        BY <1>9, <2>1, <1>3, <1>4 DEF InterruptOperator, InDlq, InQueue
    <2>4. Live' \subseteq Live /\ Live \ {l} \subseteq Live'
        BY <2>1, <2>3, <1>0, <1>1 DEF Live, InTransit
    <2>5. IsFiniteSet({l}) /\ Cardinality({l}) <= BatchSize
        <3>1. IsFiniteSet({l}) /\ Cardinality({l}) = 1
            BY FS_Singleton
        <3> QED
            BY <3>1, PipelineAssumption
    <2>6. index' = index \cup Delivery!HashesOf({})
        BY <1>0 DEF Delivery!HashesOf
    <2>7. Delivery!Interrupt({l})
        BY <2>1, <2>4, <2>5, <2>6, <1>0, InterruptIntro
    <2> QED
        BY <2>1, <2>7
<1> QED
    BY <1>5, <1>6, <1>7, <1>8, <1>9 DEF OperatorStep

\* Every step of the pipeline is a step of LogDelivery or none.
LEMMA StepRefines ==
    ASSUME TypeOK, TypeOK', [Next]_vars
    PROVE  [Delivery!Next]_(Delivery!vars)
<1> USE DEF Delivery!Next, Delivery!vars
<1>1. ASSUME NEW c \in Clients, NEW batch \in Batches, Admit(c, batch)
      PROVE  UNCHANGED Delivery!vars
    BY <1>1, HandsSame, ReplaySame
    DEF Admit, pipelineVars, Live, InTransit, InQueue, InDlq
<1>2. ASSUME NEW c \in Clients, EnqueueBatch(c) \/ InterruptRequest(c)
      PROVE  Delivery!Next
    <2> DEFINE B == Range(request[c].batch)
    <2>1. request[c].batch \in Seq(Logs) /\ queue \in Seq(Logs)
        BY <1>2, BatchProperties DEF TypeOK, EnqueueBatch, InterruptRequest, IdleRequest
    <2>2. Range(queue \o request[c].batch) = Range(queue) \cup B
        BY <2>1, RangeConcatenation
    <2>3. InHands' = InHands /\ InReplay' = InReplay /\ InDlq' = InDlq /\ UNCHANGED index
        BY <1>2, HandsSame, ReplaySame DEF EnqueueBatch, InterruptRequest, InDlq
    <2>4. B \in SUBSET Logs
        BY <2>1, RangeOfSeq
    <2> HIDE DEF B
    <2>5. CASE EnqueueBatch(c)
        <3>1. Live' = Live \cup B
            BY <2>2, <2>3, <2>5 DEF EnqueueBatch, Live, InTransit, InQueue
        <3>2. Delivery!Accept(B)
            BY <2>5, <3>1 DEF EnqueueBatch, Delivery!Accept, B
        <3> QED
            BY <2>4, <3>2
    <2>6. CASE InterruptRequest(c)
        <3>1. Live' = Live \/ Live' = Live \cup B
            BY <2>2, <2>3, <2>6 DEF InterruptRequest, Live, InTransit, InQueue
        <3>2. Delivery!Interrupt(B) \/ Delivery!Interrupt({})
            BY <2>3, <2>6, <3>1 DEF InterruptRequest, Delivery!Interrupt
        <3> QED
            BY <2>4, <3>2
    <2> QED
        BY <1>2, <2>5, <2>6
<1>3. ASSUME NEW w \in Workers, WorkerStep(w), ~ BulkIndex(w)
      PROVE  UNCHANGED Delivery!vars
    <2>1. Live' = Live
        BY <1>3, MovesKeepLive DEF WorkerStep
    <2>2. UNCHANGED <<index, accepted, discarded, failures>>
        BY <1>3 DEF WorkerStep, Poll, DequeueOne, EnrichBatch, PushDlq, StartWorker,
            pipelineVars, clientVars
    <2> QED
        BY <2>1, <2>2
<1>4. ASSUME NEW w \in Workers, BulkIndex(w)
      PROVE  Delivery!Next
    <2> DEFINE B == ValidItems(w)
    <2>1. worker[w] \in WorkerStates /\ WorkerOK(worker[w]) /\ worker[w].pc = "index"
        BY <1>4 DEF TypeOK, BulkIndex
    <2>2. worker' = [worker EXCEPT ![w] = AfterBulk(w)] /\ worker'[w] = AfterBulk(w)
        BY <1>4 DEF BulkIndex, TypeOK
    <2>3. Held(w) = {worker[w].batch[i] : i \in DOMAIN worker[w].batch}
        BY <2>1 DEF Held, HeldAt
    <2>4. Held(w)' = {worker[w].batch[i] : i \in worker[w].bad}
        <3>1. CASE worker[w].bad = {}
            BY <2>2, <3>1 DEF AfterBulk, Held, HeldAt, IdleWorker
        <3>2. CASE worker[w].bad # {}
            <4>1. AfterBulk(w) = [worker[w] EXCEPT !.pc = "route"]
                BY <3>2 DEF AfterBulk
            <4>2. /\ worker'[w].pc = "route" /\ worker'[w].batch = worker[w].batch
                  /\ worker'[w].bad = worker[w].bad
                BY <2>1, <2>2, <4>1 DEF WorkerStates
            <4> QED
                BY <4>2 DEF Held, HeldAt
        <3> QED
            BY <3>1, <3>2
    <2>5. Held(w)' \subseteq Held(w) /\ Held(w) \ B \subseteq Held(w)' /\ B \subseteq Held(w)
        BY <2>1, <2>3, <2>4 DEF ValidItems, WorkerOK
    <2>6. InHands' = HeldByOthers(w) \cup Held(w)' /\ InHands = HeldByOthers(w) \cup Held(w)
        BY <2>2, HandsSplit, HandsUpdate
    <2>7. InReplay' = InReplay /\ InDlq' = InDlq /\ InQueue' = InQueue
        BY <1>4, ReplaySame DEF BulkIndex, InDlq, InQueue
    <2>8. B \in SUBSET Logs
        BY <2>5, HeldBound
    <2>9. index' = index \cup Delivery!HashesOf(B)
        BY <1>4 DEF BulkIndex, Delivery!HashesOf
    <2> HIDE DEF B
    <2>10. B \subseteq Live /\ Live' \subseteq Live /\ Live \ B \subseteq Live'
        BY <2>5, <2>6, <2>7 DEF Live, InTransit
    <2>11. Delivery!Store(B)
        BY <1>4, <2>9, <2>10 DEF BulkIndex, clientVars, Delivery!Store
    <2> QED
        BY <2>8, <2>11
<1>5. ASSUME NEW w \in Workers, NEW next \in {IdleWorker, DownWorker},
             InterruptWorker(w, next)
      PROVE  Delivery!Next
    BY <1>5, InterruptWorkerRefines
<1>6. ASSUME NEW o \in Operators, OperatorStep(o)
      PROVE  [Delivery!Next]_(Delivery!vars)
    BY <1>6, OperatorStepRefines
<1>7. CASE UNCHANGED vars
    BY <1>7, HandsSame, ReplaySame DEF vars, Live, InTransit, InQueue, InDlq
<1> QED
    BY <1>1, <1>2, <1>3, <1>4, <1>5, <1>6, <1>7 DEF Next, RequestStep

\* The pipeline implements LogDelivery: an accepted log leaves the system
\* only by being stored, discarded, or in an interruption that loses at most
\* one batch (run_cycle, replay_dlq and discard_dlq under every interleaving).
THEOREM PipelineImplementsDelivery == Spec => Delivery!Spec
<1>1. Init => Delivery!Init
    BY DEF Init, Delivery!Init, Live, InTransit, InQueue, InHands, Held, HeldAt, InReplay,
        Requeueing, InDlq, IdleWorker, IdleOperator, Range
<1>2. TypeOK /\ TypeOK' /\ [Next]_vars => [Delivery!Next]_(Delivery!vars)
    BY StepRefines
<1> QED
    BY <1>1, <1>2, PipelineTypeOK, PTL DEF Spec, Delivery!Spec
-----------------------------------------------------------------------------
\* What LogDelivery allows a step to do to the missing logs: an interruption
\* adds at most one losable set, any other step adds nothing.
LEMMA MissingStep ==
    ASSUME TypeOK, [Delivery!Next]_(Delivery!vars)
    PROVE  \/ Missing' \subseteq Missing /\ failures' = failures
           \/ \E B \in Losable : Missing' \subseteq Missing \cup B /\ failures' = failures + 1
           \/ Missing' \subseteq Missing /\ failures' = failures + 1
<1> USE DEF Missing, Indexed
<1>0. accepted \subseteq Logs
    BY DEF TypeOK
<1>1. CASE UNCHANGED Delivery!vars
    BY <1>1 DEF Delivery!vars
<1>2. ASSUME NEW B \in SUBSET Logs, Delivery!Accept(B)
      PROVE  Missing' \subseteq Missing /\ failures' = failures
    BY <1>2 DEF Delivery!Accept
<1>3. ASSUME NEW B \in SUBSET Logs, Delivery!Store(B)
      PROVE  Missing' \subseteq Missing /\ failures' = failures
    <2>1. \A l \in B : ContentHash[l] \in index'
        BY <1>3 DEF Delivery!Store, Delivery!HashesOf
    <2>2. B \subseteq Logs /\ index \subseteq index' /\ Live \ B \subseteq Live'
          /\ UNCHANGED <<accepted, discarded, failures>>
        BY <1>3 DEF Delivery!Store
    <2> QED
        BY <2>1, <2>2
<1>4. ASSUME NEW l \in Logs, Delivery!Discard(l) \/ Delivery!Replay(l)
      PROVE  Missing' \subseteq Missing /\ failures' = failures
    <2>1. Live \ {l} \subseteq Live' /\ discarded \subseteq discarded'
          /\ (l \in Live' \/ l \in discarded') /\ UNCHANGED <<index, accepted, failures>>
        BY <1>4 DEF Delivery!Discard, Delivery!Replay
    <2> QED
        BY <2>1
<1>5. ASSUME NEW B \in SUBSET Logs, Delivery!Interrupt(B)
      PROVE  \/ B \in Losable /\ Missing' \subseteq Missing \cup B /\ failures' = failures + 1
             \/ Missing' \subseteq Missing /\ failures' = failures + 1
    <2>1. failures' = failures + 1 /\ UNCHANGED <<accepted, discarded>> /\ index \subseteq index'
        BY <1>5 DEF Delivery!Interrupt
    <2>2. (B \in Losable /\ Live \ B \subseteq Live') \/ Live \subseteq Live'
        BY <1>5 DEF Delivery!Interrupt
    <2> QED
        BY <2>1, <2>2
<1> QED
    BY <1>1, <1>2, <1>3, <1>4, <1>5 DEF Delivery!Next

\* A step of the abstract specification keeps the loss within its bound:
\* only an interruption makes a log missing, and at most BatchSize of them.
LEMMA LossStep ==
    ASSUME TypeOK, LossBounded, [Delivery!Next]_(Delivery!vars)
    PROVE  LossBounded'
<1>1. /\ IsFiniteSet(Missing) /\ Cardinality(Missing) \in Nat
      /\ failures \in Nat /\ BatchSize \in Nat
    <2>1. Missing \in SUBSET Logs
        BY DEF TypeOK, Missing
    <2>2. IsFiniteSet(Missing)
        BY <2>1, PipelineAssumption, FS_Subset
    <2> QED
        BY <2>2, PipelineAssumption, FS_CardinalityType DEF TypeOK
<1>2. Cardinality(Missing) <= BatchSize * failures
    BY DEF LossBounded
<1>3. ASSUME Missing' \subseteq Missing
      PROVE  Cardinality(Missing') \in Nat /\ Cardinality(Missing') <= Cardinality(Missing)
    BY <1>1, <1>3, FS_Subset, FS_CardinalityType
<1> DEFINE bound == BatchSize * failures
<1>4. bound \in Nat /\ BatchSize * (failures + 1) = bound + BatchSize
    BY <1>1
<1>5. CASE Missing' \subseteq Missing /\ failures' = failures
    BY <1>1, <1>2, <1>3, <1>4, <1>5 DEF LossBounded
<1>6. CASE Missing' \subseteq Missing /\ failures' = failures + 1
    <2> HIDE DEF bound
    <2>1. Cardinality(Missing') <= bound + BatchSize
        BY <1>1, <1>2, <1>3, <1>4, <1>6 DEF bound
    <2> QED
        BY <2>1, <1>4, <1>6 DEF LossBounded
<1>7. CASE \E B \in Losable : Missing' \subseteq Missing \cup B /\ failures' = failures + 1
    <2>1. PICK B \in Losable : Missing' \subseteq Missing \cup B /\ failures' = failures + 1
        BY <1>7
    <2>2. IsFiniteSet(B) /\ Cardinality(B) <= BatchSize /\ Cardinality(B) \in Nat
        <3>1. B \in SUBSET Logs /\ Cardinality(B) <= BatchSize
            BY DEF Losable
        <3>2. IsFiniteSet(B)
            BY <3>1, PipelineAssumption, FS_Subset
        <3> QED
            BY <3>1, <3>2, FS_CardinalityType
    <2>3. /\ IsFiniteSet(Missing \cup B)
          /\ Cardinality(Missing \cup B) =
                Cardinality(Missing) + Cardinality(B) - Cardinality(Missing \cap B)
        BY <1>1, <2>2, FS_Union
    <2>4. Cardinality(Missing \cap B) \in Nat
        <3>1. IsFiniteSet(Missing \cap B)
            BY <1>1, FS_Subset
        <3> QED
            BY <3>1, FS_CardinalityType
    <2>5. Cardinality(Missing \cup B) \in Nat /\ Cardinality(Missing \cup B) <= bound + BatchSize
        <3>1. Cardinality(Missing) <= bound
            BY <1>2
        <3>2. Cardinality(Missing \cup B) \in Nat
            BY <2>3, FS_CardinalityType
        <3> HIDE DEF bound
        <3>3. Cardinality(Missing \cup B) <= Cardinality(Missing) + Cardinality(B)
            BY <1>1, <2>2, <2>3, <2>4
        <3> QED
            BY <1>1, <1>4, <2>2, <3>1, <3>2, <3>3
    <2>6. Cardinality(Missing') \in Nat /\ Cardinality(Missing') <= Cardinality(Missing \cup B)
        BY <2>1, <2>3, FS_Subset, FS_CardinalityType
    <2> HIDE DEF bound
    <2>7. Cardinality(Missing') <= bound + BatchSize
        BY <1>1, <1>4, <2>5, <2>6
    <2> QED
        BY <2>1, <2>7, <1>4 DEF LossBounded, bound
<1> QED
    BY <1>5, <1>6, <1>7, MissingStep

\* A log that was answered 202 is lost only in an interruption, and each one
\* loses at most one dequeued batch (run_cycle keeps a batch in memory only
\* between RPOP and bulk_index or push_dlq).
THEOREM LossIsBounded == Spec => []LossBounded
<1>1. Init => LossBounded
    <2> SUFFICES ASSUME Init PROVE LossBounded
        OBVIOUS
    <2>1. Missing = {} /\ failures = 0
        BY DEF Init, Missing
    <2> QED
        BY <2>1, FS_EmptySet, PipelineAssumption DEF LossBounded
<1>2. TypeOK /\ TypeOK' /\ LossBounded /\ [Next]_vars => LossBounded'
    BY StepRefines, LossStep
<1> QED
    BY <1>1, <1>2, PipelineTypeOK, PTL DEF Spec
-----------------------------------------------------------------------------
(***************************************************************************)
(* Where each log is.  Custody says that a log which is not contested is   *)
(* in one place of one kind: in the body of one request, at one position   *)
(* of the queue, in the hands of one worker, in one dead-letter entry,     *)
(* between LREM and LPUSH of one request, or discarded.  A log that no     *)
(* queue has held yet is in no place, whether it is contested later or not.*)
(***************************************************************************)
\* The logs of the requests that are past the depth check.
Unpushed == UNION {Range(request[c].batch) : c \in Clients}

Apart ==
    /\ Unpushed \cap (Live \cup discarded) = {}
    /\ discarded \cap Live \subseteq contested
    /\ InDlq \cap InTransit \subseteq contested
    /\ InReplay \cap (InQueue \cup InHands) \subseteq contested
    /\ InQueue \cap InHands \subseteq contested

PushedOnce == \A c, d \in Clients :
    c # d => Range(request[c].batch) \cap Range(request[d].batch) = {}

\* No item of the list s occurs twice, but for those in K.
OnceBut(K, s) == \A i, j \in DOMAIN s : s[i] = s[j] /\ s[i] \notin K => i = j

HeldOnce == \A w, v \in Workers : \A i \in HeldAt(w), j \in HeldAt(v) :
    worker[w].batch[i] = worker[v].batch[j] /\ worker[w].batch[i] \notin contested
        => w = v /\ i = j

FiledOnce == \A e, f \in dlq : e.log = f.log /\ e.log \notin contested => e = f

\* The entry a request has found is there until the request removes it.
FoundStays == \A o \in Operators :
    operator[o].pc \in {"replay", "discard"} /\ operator[o].entry.log \notin contested
        => operator[o].entry \in dlq

\* Only one request works on the entry of a log.
OneAtWork == \A o, p \in Operators :
    /\ operator[o].pc # "idle" /\ operator[p].pc # "idle"
    /\ operator[o].entry.log = operator[p].entry.log
    /\ operator[o].entry.log \notin contested
    => o = p

\* What a request works on was pushed before.
FoundPushed == \A o \in Operators :
    operator[o].pc # "idle" => operator[o].entry.log \in sent \ Unpushed

Custody ==
    /\ Apart /\ OnceBut(contested, queue) /\ PushedOnce /\ HeldOnce /\ FiledOnce
    /\ FoundStays /\ OneAtWork /\ FoundPushed
    /\ Live \cup discarded \subseteq sent

\* A list without repetitions but of K, without its first item.
LEMMA TailOnce ==
    ASSUME NEW S, NEW K, NEW s \in Seq(S), s # <<>>, OnceBut(K, s)
    PROVE  /\ Tail(s) \in Seq(S) /\ Head(s) \in S
           /\ OnceBut(K, Tail(s)) /\ (Head(s) \in Range(Tail(s)) => Head(s) \in K)
           /\ Range(s) = {Head(s)} \cup Range(Tail(s))
<1>1. /\ Head(s) = s[1] /\ Len(s) \in Nat \ {0} /\ Head(s) \in S
      /\ Tail(s) \in Seq(S) /\ Len(Tail(s)) = Len(s) - 1
      /\ DOMAIN s = 1..Len(s) /\ DOMAIN Tail(s) = 1..Len(Tail(s))
      /\ \A i \in 1 .. Len(Tail(s)) : Tail(s)[i] = s[i+1]
    BY HeadTailProperties, EmptySeq, LenProperties
<1>2. \A i, j \in 1..Len(s) : s[i] = s[j] /\ s[i] \notin K => i = j
    BY <1>1 DEF OnceBut
<1>3. ASSUME NEW i \in DOMAIN Tail(s), NEW j \in DOMAIN Tail(s), Tail(s)[i] = Tail(s)[j],
             Tail(s)[i] \notin K
      PROVE  i = j
    <2>1. /\ i + 1 \in 1..Len(s) /\ j + 1 \in 1..Len(s)
          /\ s[i + 1] = s[j + 1] /\ s[i + 1] \notin K
        BY <1>1, <1>3
    <2>2. i + 1 = j + 1
        BY <2>1, <1>2
    <2> QED
        BY <2>2, <1>1
<1>4. ASSUME NEW i \in DOMAIN Tail(s), Tail(s)[i] = Head(s) PROVE Head(s) \in K
    <2>1. i + 1 \in 1..Len(s) /\ 1 \in 1..Len(s) /\ i + 1 # 1 /\ Tail(s)[i] = s[i + 1]
        BY <1>1
    <2> QED
        BY <2>1, <1>1, <1>2, <1>4
<1> QED
    BY <1>1, <1>3, <1>4, RangeHeadTail DEF OnceBut, Range

\* Two such lists that share items of K only, one after the other.
LEMMA JoinOnce ==
    ASSUME NEW S, NEW K, NEW s \in Seq(S), NEW t \in Seq(S),
           OnceBut(K, s), OnceBut(K, t), Range(s) \cap Range(t) \subseteq K
    PROVE  OnceBut(K, s \o t) /\ Range(s \o t) = Range(s) \cup Range(t)
<1>1. /\ Len(s) \in Nat /\ Len(t) \in Nat /\ Len(s \o t) = Len(s) + Len(t)
      /\ DOMAIN s = 1..Len(s) /\ DOMAIN t = 1..Len(t)
      /\ DOMAIN (s \o t) = 1..(Len(s) + Len(t))
    OBVIOUS
<1>2. \A i \in 1..(Len(s) + Len(t)) :
        \/ i \in DOMAIN s /\ (s \o t)[i] = s[i]
        \/ i > Len(s) /\ i - Len(s) \in DOMAIN t /\ (s \o t)[i] = t[i - Len(s)]
    BY <1>1
<1>3. \A i \in DOMAIN s, j \in DOMAIN t : s[i] = t[j] => s[i] \in K
    BY DEF Range
<1>4. ASSUME NEW i \in DOMAIN (s \o t), NEW j \in DOMAIN (s \o t),
             (s \o t)[i] = (s \o t)[j], (s \o t)[i] \notin K
      PROVE  i = j
    <2>1. CASE i \in DOMAIN s /\ (s \o t)[i] = s[i]
        <3>1. j \in DOMAIN s /\ (s \o t)[j] = s[j]
            BY <1>1, <1>2, <1>3, <1>4, <2>1
        <3> QED
            BY <1>4, <2>1, <3>1 DEF OnceBut
    <2>2. CASE i > Len(s) /\ i - Len(s) \in DOMAIN t /\ (s \o t)[i] = t[i - Len(s)]
        <3>1. j > Len(s) /\ j - Len(s) \in DOMAIN t /\ (s \o t)[j] = t[j - Len(s)]
            BY <1>1, <1>2, <1>3, <1>4, <2>2
        <3>2. i - Len(s) = j - Len(s)
            BY <1>4, <2>2, <3>1 DEF OnceBut
        <3> QED
            BY <3>2, <1>1
    <2> QED
        BY <1>1, <1>2, <2>1, <2>2
<1> QED
    BY <1>4, RangeConcatenation DEF OnceBut

\* One more item after such a list.
LEMMA AppendOnce ==
    ASSUME NEW S, NEW K, NEW s \in Seq(S), NEW e \in S,
           OnceBut(K, s), e \in Range(s) => e \in K
    PROVE  OnceBut(K, Append(s, e)) /\ Range(Append(s, e)) = Range(s) \cup {e}
<1>1. Append(s, e) = s \o <<e>> /\ <<e>> \in Seq(S)
    BY AppendIsConcat
<1>2. Range(<<e>>) = {e} /\ OnceBut(K, <<e>>)
    BY DEF Range, OnceBut
<1>3. OnceBut(K, s \o <<e>>)
    <2>1. Range(s) \cap Range(<<e>>) \subseteq K
        BY <1>2
    <2> QED
        BY <1>1, <1>2, <2>1, JoinOnce
<1>4. OnceBut(K, Append(s, e))
    BY <1>1, <1>3
<1> QED
    BY <1>4, RangeAppend

\* A worker that holds part of what it held.
LEMMA HandsShrink ==
    ASSUME TypeOK, TypeOK', HeldOnce, NEW w \in Workers, NEW r,
           worker' = [worker EXCEPT ![w] = r], HeldAt(w)' \subseteq HeldAt(w),
           \A i \in HeldAt(w)' : worker'[w].batch[i] = worker[w].batch[i],
           UNCHANGED contested
    PROVE  /\ HeldOnce' /\ InHands' \subseteq InHands
           /\ HeldAt(w)' = {} =>
                InHands = InHands' \cup Held(w) /\ InHands' \cap Held(w) \subseteq contested
<1>1. \A v \in Workers \ {w} : worker'[v] = worker[v]
    BY DEF TypeOK
<1>2. \A v \in Workers \ {w} : HeldAt(v)' = HeldAt(v) /\ Held(v)' = Held(v)
    BY <1>1 DEF Held, HeldAt
<1>3. HeldOnce'
    BY <1>1, <1>2 DEF HeldOnce
<1>4. Held(w)' \subseteq Held(w)
    BY DEF Held
<1>5. InHands' = HeldByOthers(w) \cup Held(w)' /\ InHands = HeldByOthers(w) \cup Held(w)
    BY HandsSplit, HandsUpdate
<1>6. HeldByOthers(w) \cap Held(w) \subseteq contested
    BY DEF HeldOnce, HeldByOthers, Held
<1>7. HeldAt(w)' = {} => Held(w)' = {}
    BY DEF Held
<1> QED
    BY <1>3, <1>4, <1>5, <1>6, <1>7

\* A request is admitted with new logs, and pushes them or loses them.
LEMMA ClientKeepsCustody ==
    ASSUME TypeOK, TypeOK', Custody, NEW c \in Clients, RequestStep(c)
    PROVE  Custody'
<1>0. /\ InHands' = InHands /\ InReplay' = InReplay /\ InDlq' = InDlq
      /\ UNCHANGED <<worker, operator, dlq, discarded, contested>>
    <2>1. UNCHANGED <<worker, operator, dlq, discarded, contested>>
        BY DEF RequestStep, Admit, EnqueueBatch, InterruptRequest, pipelineVars
    <2> QED
        BY <2>1, HandsSame, ReplaySame DEF InDlq
<1>1. HeldOnce' /\ FiledOnce' /\ FoundStays' /\ OneAtWork'
    BY <1>0 DEF Custody, HeldOnce, HeldAt, FiledOnce, FoundStays, OneAtWork
<1>2. Range(<<>>) = {}
    BY DEF Range
<1>3. ASSUME NEW batch \in Batches, Admit(c, batch) PROVE Custody'
    <2>1. /\ request'[c].batch = batch
          /\ \A d \in Clients : d # c => request'[d].batch = request[d].batch
          /\ Range(batch) \cap sent = {} /\ sent' = sent \cup Range(batch)
          /\ queue' = queue
        BY <1>3 DEF Admit, TypeOK, pipelineVars
    <2>2. Unpushed' \subseteq Unpushed \cup Range(batch)
        BY <2>1 DEF Unpushed
    <2>3. PushedOnce'
        BY <2>1 DEF Custody, PushedOnce, TypeOK
    <2>4. InQueue' = InQueue /\ OnceBut(contested', queue')
        BY <1>0, <2>1 DEF InQueue, Custody
    <2>5. FoundPushed'
        BY <1>0, <2>1, <2>2 DEF Custody, FoundPushed
    <2> QED
        BY <1>0, <1>1, <2>1, <2>2, <2>3, <2>4, <2>5 DEF Custody, Apart, Live, InTransit
<1>4. CASE EnqueueBatch(c) \/ InterruptRequest(c)
    <2> DEFINE b == request[c].batch
    <2>1. b \in Batches /\ Range(b) \subseteq sent
        BY <1>4 DEF EnqueueBatch, InterruptRequest, IdleRequest, TypeOK
    <2>2. b \in Seq(Logs) /\ OnceBut(contested, b)
        BY <2>1, PipelineAssumption DEF OnceBut
    <2>3. /\ request'[c].batch = <<>> /\ sent' = sent
          /\ \A d \in Clients : d # c => request'[d].batch = request[d].batch
          /\ queue' = queue \/ queue' = queue \o b
        BY <1>4 DEF EnqueueBatch, InterruptRequest, TypeOK, IdleRequest
    <2>4. Range(b) \subseteq Unpushed
        BY DEF Unpushed
    <2> HIDE DEF b
    <2>5. Range(b) \cap InQueue = {}
        BY <2>4 DEF Custody, Apart, Live, InTransit
    <2>6. /\ OnceBut(contested', queue')
          /\ InQueue' = InQueue \/ InQueue' = InQueue \cup Range(b)
        <3>1. /\ OnceBut(contested, queue \o b)
              /\ Range(queue \o b) = Range(queue) \cup Range(b)
            BY <2>2, <2>5, JoinOnce DEF Custody, TypeOK, InQueue
        <3> QED
            BY <1>0, <2>3, <3>1 DEF Custody, InQueue
    <2>7. Unpushed' \subseteq Unpushed /\ Unpushed' \cap Range(b) = {}
        BY <2>3, <1>2 DEF Unpushed, Custody, PushedOnce, b
    <2>8. PushedOnce'
        BY <2>3, <1>2 DEF Custody, PushedOnce
    <2>9. FoundPushed'
        BY <1>0, <2>3, <2>7 DEF Custody, FoundPushed
    <2> QED
        BY <1>0, <1>1, <2>1, <2>3, <2>4, <2>6, <2>7, <2>8, <2>9
           DEF Custody, Apart, Live, InTransit
<1> QED
    BY <1>3, <1>4 DEF RequestStep

\* What a worker's steps leave alone.
LEMMA WorkerLeaves ==
    ASSUME Custody, UNCHANGED <<clientVars, operator, discarded, contested>>,
           dlq \subseteq dlq'
    PROVE  /\ Unpushed' = Unpushed /\ InReplay' = InReplay /\ PushedOnce'
           /\ FoundStays' /\ OneAtWork' /\ FoundPushed'
           /\ sent' = sent /\ discarded' = discarded /\ contested' = contested
<1>1. Unpushed' = Unpushed
    BY DEF clientVars, Unpushed
<1> QED
    BY <1>1, ReplaySame
    DEF Custody, clientVars, PushedOnce, FoundStays, OneAtWork, FoundPushed

\* A step that takes nothing but from one worker's hands.
LEMMA HandsOnlyShrink ==
    ASSUME TypeOK, TypeOK', Custody, NEW w \in Workers, NEW r,
           worker' = [worker EXCEPT ![w] = r], HeldAt(w)' \subseteq HeldAt(w),
           \A i \in HeldAt(w)' : worker'[w].batch[i] = worker[w].batch[i],
           UNCHANGED <<queue, dlq, clientVars, operator, discarded, contested>>
    PROVE  Custody'
<1>1. HeldOnce' /\ InHands' \subseteq InHands
    BY HandsShrink DEF Custody
<1>2. InQueue' = InQueue /\ InDlq' = InDlq /\ FiledOnce' /\ OnceBut(contested', queue')
    BY DEF InQueue, InDlq, FiledOnce, Custody
<1>3. /\ Unpushed' = Unpushed /\ InReplay' = InReplay /\ PushedOnce'
      /\ FoundStays' /\ OneAtWork' /\ FoundPushed'
      /\ sent' = sent /\ discarded' = discarded /\ contested' = contested
    BY WorkerLeaves
<1> QED
    BY <1>1, <1>2, <1>3 DEF Custody, Apart, Live, InTransit

\* The item a worker pops moves from the queue to its hands.
LEMMA PopKeepsCustody ==
    ASSUME TypeOK, TypeOK', Custody, NEW w \in Workers, DequeueOne(w)
    PROVE  Custody'
<1> DEFINE h == Head(queue)
           n == Len(worker[w].batch)
<1>1. /\ queue # <<>> /\ queue \in Seq(Logs) /\ queue' = Tail(queue) /\ dlq' = dlq
      /\ worker[w] \in WorkerStates /\ worker[w].pc = "pop"
      /\ UNCHANGED <<clientVars, operator, discarded, contested>>
    BY DEF DequeueOne, CanPop, TypeOK
<1>2. /\ OnceBut(contested', queue') /\ (h \in InQueue' => h \in contested)
      /\ InQueue = {h} \cup InQueue' /\ h \in Logs
    BY <1>1, TailOnce DEF Custody, InQueue
<1>3. worker[w].batch \in Seq(Logs) /\ n \in Nat /\ DOMAIN worker[w].batch = 1..n
    BY <1>1 DEF WorkerStates
<1>4. /\ worker'[w].pc = "pop" /\ worker'[w].batch = Append(worker[w].batch, h)
      /\ \A v \in Workers : v # w => worker'[v] = worker[v]
    BY <1>1 DEF DequeueOne, TypeOK, WorkerStates
<1> HIDE DEF h, n
<1>5. /\ \A v \in Workers : v # w => HeldAt(v)' = HeldAt(v)
      /\ HeldAt(w) = 1..n /\ HeldAt(w)' = 1..(n + 1)
      /\ worker'[w].batch[n + 1] = h
      /\ \A i \in 1..n : worker'[w].batch[i] = worker[w].batch[i]
    BY <1>1, <1>2, <1>3, <1>4 DEF HeldAt, n
<1>6. h \in InHands => h \in contested
    BY <1>2 DEF Custody, Apart
<1>7. \A v \in Workers : \A i \in HeldAt(v) : worker[v].batch[i] = h => h \in contested
    BY <1>6 DEF InHands, Held
<1>8. ASSUME NEW v \in Workers, NEW i \in HeldAt(v)'
      PROVE  \/ v = w /\ i = n + 1 /\ worker'[v].batch[i] = h
             \/ i \in HeldAt(v) /\ worker'[v].batch[i] = worker[v].batch[i]
    <2>1. CASE v # w
        BY <2>1, <1>4, <1>5
    <2>2. CASE v = w
        <3>1. i \in 1..(n + 1)
            BY <1>5, <1>8, <2>2
        <3>2. i = n + 1 \/ i \in 1..n
            BY <3>1, <1>3
        <3> QED
            BY <3>2, <2>2, <1>5
    <2> QED
        BY <2>1, <2>2
<1>9. HeldOnce'
    <2> SUFFICES ASSUME NEW x \in Workers, NEW v \in Workers,
                        NEW i \in HeldAt(x)', NEW j \in HeldAt(v)',
                        worker'[x].batch[i] = worker'[v].batch[j],
                        worker'[x].batch[i] \notin contested
                 PROVE  x = v /\ i = j
        BY <1>1 DEF HeldOnce
    <2> QED
        BY <1>7, <1>8 DEF Custody, HeldOnce
<1>10. InHands' \subseteq InHands \cup {h}
    BY <1>8 DEF InHands, Held
<1>11. InDlq' = InDlq /\ FiledOnce'
    BY <1>1 DEF InDlq, FiledOnce, Custody
<1>12. /\ Unpushed' = Unpushed /\ InReplay' = InReplay /\ PushedOnce'
       /\ FoundStays' /\ OneAtWork' /\ FoundPushed'
       /\ sent' = sent /\ discarded' = discarded /\ contested' = contested
    BY <1>1, WorkerLeaves
<1> QED
    BY <1>2, <1>9, <1>10, <1>11, <1>12 DEF Custody, Apart, Live, InTransit

\* What a worker routes moves from its hands to the dead-letter list.
LEMMA RouteKeepsCustody ==
    ASSUME TypeOK, TypeOK', Custody, NEW w \in Workers, worker[w].pc = "route",
           dlq' = dlq \cup DlqEntries(w), queue' = queue,
           NEW r \in {IdleWorker, DownWorker}, worker' = [worker EXCEPT ![w] = r],
           UNCHANGED <<clientVars, operator, discarded, contested>>
    PROVE  Custody'
<1>1. worker'[w] = r /\ HeldAt(w)' = {}
    BY DEF TypeOK, HeldAt, IdleWorker, DownWorker
<1>2. /\ HeldOnce' /\ InHands = InHands' \cup Held(w)
      /\ InHands' \cap Held(w) \subseteq contested
    BY <1>1, HandsShrink DEF Custody
<1>3. Held(w) = {e.log : e \in DlqEntries(w)}
    BY EntriesOfHeld
<1>4. InDlq' = InDlq \cup Held(w)
    BY <1>3 DEF InDlq
<1>5. FiledOnce'
    <2> SUFFICES ASSUME NEW e \in dlq', NEW f \in dlq', e.log = f.log, e.log \notin contested
                 PROVE  e = f
        BY DEF FiledOnce
    <2>1. CASE e \in dlq /\ f \in dlq
        BY <2>1 DEF Custody, FiledOnce
    <2>2. CASE e \in DlqEntries(w) /\ f \in DlqEntries(w)
        <3>1. PICK i \in worker[w].bad : e = [id |-> nextId + i, log |-> worker[w].batch[i]]
            BY <2>2 DEF DlqEntries
        <3>2. PICK j \in worker[w].bad : f = [id |-> nextId + j, log |-> worker[w].batch[j]]
            BY <2>2 DEF DlqEntries
        <3>3. /\ worker[w].batch[i] = worker[w].batch[j] /\ worker[w].batch[i] \notin contested
              /\ i \in HeldAt(w) /\ j \in HeldAt(w)
            BY <3>1, <3>2 DEF HeldAt
        <3>4. i = j
            BY <3>3 DEF Custody, HeldOnce
        <3> QED
            BY <3>1, <3>2, <3>4
    <2>3. ASSUME NEW x \in dlq, NEW y \in DlqEntries(w), x.log = y.log PROVE x.log \in contested
        <3>1. x.log \in InDlq /\ y.log \in InHands
            BY <1>2, <1>3 DEF InDlq
        <3> QED
            BY <2>3, <3>1 DEF Custody, Apart, InTransit
    <2> QED
        BY <2>1, <2>2, <2>3
<1>6. InQueue' = InQueue /\ OnceBut(contested', queue')
    BY DEF InQueue, Custody
<1>7. /\ Unpushed' = Unpushed /\ InReplay' = InReplay /\ PushedOnce'
      /\ FoundStays' /\ OneAtWork' /\ FoundPushed'
      /\ sent' = sent /\ discarded' = discarded /\ contested' = contested
    BY WorkerLeaves
<1> QED
    BY <1>2, <1>4, <1>5, <1>6, <1>7 DEF Custody, Apart, Live, InTransit

\* A worker's cycle keeps each log in one place.
LEMMA WorkerKeepsCustody ==
    ASSUME TypeOK, TypeOK', Custody, NEW w \in Workers, WorkerStep(w)
    PROVE  Custody'
<1>0. worker[w] \in WorkerStates /\ WorkerOK(worker[w])
    BY DEF TypeOK
<1>1. CASE Poll(w) \/ StartWorker(w)
    <2>1. PICK r : worker' = [worker EXCEPT ![w] = r]
        BY <1>1 DEF Poll, StartWorker
    <2>2. /\ worker'[w].batch = worker[w].batch
          /\ worker'[w].pc # "route" /\ worker[w].pc # "route"
        BY <1>0, <1>1 DEF Poll, StartWorker, TypeOK, WorkerOK, WorkerStates, IdleWorker
    <2>3. HeldAt(w)' = HeldAt(w)
        BY <2>2 DEF HeldAt
    <2>4. UNCHANGED <<queue, dlq, clientVars, operator, discarded, contested>>
        BY <1>1 DEF Poll, StartWorker, pipelineVars
    <2> QED
        BY <2>1, <2>2, <2>3, <2>4, HandsOnlyShrink
<1>2. CASE DequeueOne(w)
    BY <1>2, PopKeepsCustody
<1>3. CASE EnrichBatch(w)
    <2>1. PICK bad \in SUBSET DOMAIN worker[w].batch :
            worker' = [worker EXCEPT ![w] = AfterEnrich(bad, worker[w].batch)]
        BY <1>3 DEF EnrichBatch
    <2>2. worker'[w] = AfterEnrich(bad, worker[w].batch) /\ worker[w].pc = "pop"
        BY <1>3, <2>1 DEF TypeOK, EnrichBatch
    <2>3. worker'[w].batch = worker[w].batch /\ HeldAt(w)' = HeldAt(w)
        BY <2>2 DEF HeldAt, AfterEnrich, IdleWorker
    <2>4. UNCHANGED <<queue, dlq, clientVars, operator, discarded, contested>>
        BY <1>3 DEF EnrichBatch, pipelineVars
    <2> QED
        BY <2>1, <2>3, <2>4, HandsOnlyShrink
<1>4. CASE BulkIndex(w)
    <2>1. worker' = [worker EXCEPT ![w] = AfterBulk(w)] /\ worker'[w] = AfterBulk(w)
        BY <1>4 DEF BulkIndex, TypeOK
    <2>2. CASE worker[w].bad = {}
        <3>1. HeldAt(w)' = {}
            BY <2>1, <2>2 DEF AfterBulk, HeldAt, IdleWorker
        <3>2. UNCHANGED <<queue, dlq, clientVars, operator, discarded, contested>>
            BY <1>4 DEF BulkIndex
        <3> QED
            BY <2>1, <3>1, <3>2, HandsOnlyShrink
    <2>3. CASE worker[w].bad # {}
        <3>1. /\ worker'[w].pc = "route" /\ worker'[w].bad = worker[w].bad
              /\ worker'[w].batch = worker[w].batch
            BY <1>0, <2>1, <2>3 DEF AfterBulk, WorkerStates
        <3>2. HeldAt(w)' = worker[w].bad /\ HeldAt(w) = DOMAIN worker[w].batch
            BY <1>4, <3>1 DEF HeldAt, BulkIndex
        <3>3. HeldAt(w)' \subseteq HeldAt(w)
            BY <1>0, <3>2 DEF WorkerOK
        <3>4. UNCHANGED <<queue, dlq, clientVars, operator, discarded, contested>>
            BY <1>4 DEF BulkIndex
        <3> QED
            BY <2>1, <3>1, <3>3, <3>4, HandsOnlyShrink
    <2> QED
        BY <2>2, <2>3
<1>5. CASE PushDlq(w)
    BY <1>5, RouteKeepsCustody DEF PushDlq
<1> QED
    BY <1>1, <1>2, <1>3, <1>4, <1>5 DEF WorkerStep

\* An interrupted cycle loses logs, or has routed them; it copies none.
LEMMA InterruptKeepsCustody ==
    ASSUME TypeOK, TypeOK', Custody, NEW w \in Workers, NEW next \in {IdleWorker, DownWorker},
           InterruptWorker(w, next)
    PROVE  Custody'
<1>1. /\ worker' = [worker EXCEPT ![w] = next] /\ worker'[w] = next
      /\ UNCHANGED <<clientVars, operator, discarded, contested>>
    BY DEF InterruptWorker, TypeOK
<1>2. HeldAt(w)' = {}
    BY <1>1 DEF HeldAt, IdleWorker, DownWorker
<1>3. CASE UNCHANGED <<queue, dlq>>
    BY <1>1, <1>2, <1>3, HandsOnlyShrink
<1>4. CASE CanPop(w) /\ queue' = Tail(queue) /\ UNCHANGED dlq
    <2>1. OnceBut(contested', queue') /\ InQueue' \subseteq InQueue
        BY <1>1, <1>4, TailOnce DEF CanPop, TypeOK, Custody, InQueue
    <2>2. HeldOnce' /\ InHands' \subseteq InHands
        BY <1>1, <1>2, HandsShrink DEF Custody
    <2>3. InDlq' = InDlq /\ FiledOnce'
        BY <1>1, <1>4 DEF InDlq, FiledOnce, Custody
    <2>4. /\ Unpushed' = Unpushed /\ InReplay' = InReplay /\ PushedOnce'
          /\ FoundStays' /\ OneAtWork' /\ FoundPushed'
          /\ sent' = sent /\ discarded' = discarded /\ contested' = contested
        BY <1>1, <1>4, WorkerLeaves
    <2> QED
        BY <2>1, <2>2, <2>3, <2>4 DEF Custody, Apart, Live, InTransit
<1>5. CASE worker[w].pc = "route" /\ dlq' = dlq \cup DlqEntries(w) /\ UNCHANGED queue
    BY <1>1, <1>5, RouteKeepsCustody
<1> QED
    BY <1>3, <1>4, <1>5 DEF InterruptWorker, pipelineVars

\* What a dead-letter request that has found its entry may rely on: no other
\* request works on the log, and the entry is there until it removes it.
LEMMA FoundAlone ==
    ASSUME TypeOK, Custody, NEW o \in Operators, operator[o].pc # "idle"
    PROVE  /\ operator[o].entry.log \in Logs
           /\ operator[o].entry.log \in sent \ Unpushed
           /\ operator[o].entry.log \notin contested =>
                /\ operator[o].entry.log \notin ReplayedByOthers(o)
                /\ \A p \in Operators \ {o} : operator[p].pc # "idle" =>
                        operator[p].entry.log # operator[o].entry.log
                /\ operator[o].pc # "requeue" => operator[o].entry.log \in InDlq
<1>1. operator[o].entry.log \in Logs
    BY DEF TypeOK, IdleOperator, Entry
<1>2. operator[o].entry.log \in sent \ Unpushed
    BY DEF Custody, FoundPushed
<1>3. ASSUME operator[o].entry.log \notin contested
      PROVE  \A p \in Operators \ {o} : operator[p].pc # "idle" =>
                    operator[p].entry.log # operator[o].entry.log
    BY <1>3 DEF Custody, OneAtWork
<1>4. ASSUME operator[o].entry.log \notin contested
      PROVE  operator[o].entry.log \notin ReplayedByOthers(o)
    BY <1>3, <1>4 DEF ReplayedByOthers, Requeueing
<1>5. operator[o].pc # "requeue" => operator[o].pc \in {"replay", "discard"}
    BY DEF TypeOK, IdleOperator
<1>6. ASSUME operator[o].entry.log \notin contested, operator[o].pc # "requeue"
      PROVE  operator[o].entry.log \in InDlq
    BY <1>5, <1>6 DEF Custody, FoundStays, InDlq
<1> QED
    BY <1>1, <1>2, <1>3, <1>4, <1>6

\* What removing the entry a request has found does to the dead-letter list:
\* the log is gone from it, and the entries of the other requests are not.
LEMMA TakeFound ==
    ASSUME TypeOK, Custody, NEW o \in Operators, operator[o].pc \in {"replay", "discard"},
           dlq' = Without(operator[o].entry), UNCHANGED contested
    PROVE  /\ FiledOnce' /\ InDlq' \subseteq InDlq
           /\ operator[o].entry.log \in InDlq' => operator[o].entry.log \in contested
           /\ \A p \in Operators \ {o} :
                operator[p].pc \in {"replay", "discard"}
                    /\ operator[p].entry.log \notin contested
                => operator[p].entry \in dlq'
<1> DEFINE e == operator[o].entry
<1>1. FiledOnce' /\ InDlq' \subseteq InDlq
    BY DEF Without, Custody, FiledOnce, InDlq
<1>2. ASSUME e.log \in InDlq', e.log \notin contested PROVE FALSE
    <2>1. PICK f \in dlq \ {e} : f.log = e.log
        BY <1>2 DEF InDlq, Without
    <2>2. e \in dlq
        BY <1>2 DEF Custody, FoundStays
    <2> QED
        BY <1>2, <2>1, <2>2 DEF Custody, FiledOnce
<1>3. ASSUME NEW p \in Operators \ {o}, operator[p].pc \in {"replay", "discard"},
             operator[p].entry.log \notin contested
      PROVE  operator[p].entry \in dlq'
    <2>1. operator[p].entry \in dlq
        BY <1>3 DEF Custody, FoundStays
    <2>2. operator[p].entry.log # e.log
        BY <1>3 DEF Custody, OneAtWork
    <2> QED
        BY <2>1, <2>2 DEF Without
<1> QED
    BY <1>1, <1>2, <1>3

\* What the dead-letter requests leave alone.
LEMMA OperatorLeaves ==
    ASSUME Custody, UNCHANGED <<worker, clientVars, contested>>
    PROVE  /\ InHands' = InHands /\ Unpushed' = Unpushed /\ sent' = sent
           /\ PushedOnce' /\ HeldOnce'
           /\ contested' = contested
BY HandsSame DEF clientVars, Custody, Unpushed, PushedOnce, HeldOnce, HeldAt

\* A request that has ended works on nothing.
LEMMA ReleaseKeeps ==
    ASSUME TypeOK, Custody, NEW o \in Operators,
           operator' = [operator EXCEPT ![o] = IdleOperator],
           UNCHANGED <<worker, clientVars, contested>>,
           \A p \in Operators \ {o} :
                operator[p].pc \in {"replay", "discard"}
                    /\ operator[p].entry.log \notin contested
                => operator[p].entry \in dlq'
    PROVE  /\ InReplay' = ReplayedByOthers(o)
           /\ FoundStays' /\ OneAtWork' /\ FoundPushed'
<1>1. /\ operator'[o].pc = "idle"
      /\ \A p \in Operators \ {o} : operator'[p] = operator[p]
    BY DEF TypeOK, IdleOperator
<1>2. Unpushed' = Unpushed /\ sent' = sent /\ contested' = contested
    BY OperatorLeaves
<1>3. InReplay' = ReplayedByOthers(o)
    <2>1. IdleOperator.pc # "requeue"
        BY DEF IdleOperator
    <2> QED
        BY <2>1, ReplayUpdate
<1>4. FoundStays'
    BY <1>1, <1>2 DEF FoundStays
<1>5. OneAtWork'
    BY <1>1, <1>2 DEF Custody, OneAtWork
<1>6. FoundPushed'
    BY <1>1, <1>2 DEF Custody, FoundPushed
<1> QED
    BY <1>3, <1>4, <1>5, <1>6

\* A request that finds an entry makes its log contested, unless it is the
\* only one that works on it: an entry of an uncontested log that another
\* request has found is still there, and it is the only one of its log.
LEMMA FindKeepsCustody ==
    ASSUME TypeOK, TypeOK', Custody, NEW o \in Operators, NEW next \in {"replay", "discard"},
           FindEntry(o, next)
    PROVE  Custody'
<1>1. PICK x \in Findable :
        /\ operator' = [operator EXCEPT ![o] = [pc |-> next, entry |-> x]]
        /\ contested' = IF \E p \in Operators : AtWork(p, x)
                        THEN contested \cup {x.log} ELSE contested
    BY DEF FindEntry
<1>2. /\ operator[o].pc = "idle" /\ x \in dlq
      /\ dlq' = dlq /\ queue' = queue /\ discarded' = discarded
      /\ UNCHANGED <<worker, clientVars>>
    BY DEF FindEntry, pipelineVars, Findable
<1>3. /\ operator'[o] = [pc |-> next, entry |-> x]
      /\ \A p \in Operators \ {o} : operator'[p] = operator[p]
    BY <1>1 DEF TypeOK
<1>4. contested \subseteq contested' /\ x.log \in InDlq
    BY <1>1, <1>2 DEF InDlq
<1>5. ASSUME NEW p \in Operators \ {o}, operator[p].pc # "idle",
             operator[p].entry.log = x.log, x.log \notin contested'
      PROVE  FALSE
    <2>1. ~ AtWork(p, x)
        BY <1>1, <1>5
    <2>2. operator[p].pc \in {"replay", "discard", "requeue"}
        BY <1>5 DEF TypeOK, IdleOperator
    <2>3. CASE operator[p].pc = "requeue"
        <3>1. x.log \in InReplay
            BY <1>5, <2>3 DEF InReplay, Requeueing
        <3> QED
            BY <1>4, <1>5, <3>1 DEF Custody, Apart, InTransit
    <2>4. CASE operator[p].pc \in {"replay", "discard"}
        <3>1. operator[p].entry \in dlq
            BY <1>4, <1>5, <2>4 DEF Custody, FoundStays
        <3>2. operator[p].entry = x
            BY <1>2, <1>4, <1>5, <3>1 DEF Custody, FiledOnce
        <3> QED
            BY <2>1, <2>4, <3>2 DEF AtWork
    <2> QED
        BY <2>2, <2>3, <2>4
<1>6. OneAtWork'
    <2> SUFFICES ASSUME NEW p \in Operators, NEW q \in Operators,
                        operator'[p].pc # "idle", operator'[q].pc # "idle",
                        operator'[p].entry.log = operator'[q].entry.log,
                        operator'[p].entry.log \notin contested', p # q
                 PROVE  FALSE
        BY DEF OneAtWork
    <2>1. CASE p # o /\ q # o
        BY <1>3, <1>4, <2>1 DEF Custody, OneAtWork
    <2>2. CASE p = o
        BY <1>3, <1>5, <2>2
    <2>3. CASE q = o
        BY <1>3, <1>5, <2>3
    <2> QED
        BY <2>1, <2>2, <2>3
<1>7. FoundStays'
    BY <1>2, <1>3, <1>4 DEF Custody, FoundStays
<1>8. /\ InHands' = InHands /\ Unpushed' = Unpushed /\ sent' = sent /\ PushedOnce'
      /\ InQueue' = InQueue /\ InDlq' = InDlq
    BY <1>2, HandsSame DEF clientVars, Custody, Unpushed, PushedOnce, InQueue, InDlq
<1>9. FoundPushed'
    <2>1. x.log \in sent \ Unpushed
        BY <1>4 DEF Custody, Apart, Live
    <2> QED
        BY <1>3, <1>8, <2>1 DEF Custody, FoundPushed
<1>10. HeldOnce' /\ FiledOnce' /\ OnceBut(contested', queue')
    BY <1>2, <1>4 DEF Custody, HeldOnce, HeldAt, FiledOnce, OnceBut
<1>11. InReplay' = InReplay
    <2>1. InReplay' = ReplayedByOthers(o) /\ InReplay = ReplayedByOthers(o)
        BY <1>1, <1>2, ReplayUpdate, ReplaySplit
    <2> QED
        BY <2>1
<1> QED
    BY <1>2, <1>4, <1>6, <1>7, <1>8, <1>9, <1>10, <1>11 DEF Custody, Apart, Live, InTransit

\* A replay takes its log out of the dead-letter list.
LEMMA RemoveKeepsCustody ==
    ASSUME TypeOK, TypeOK', Custody, NEW o \in Operators, RemoveForReplay(o)
    PROVE  Custody'
<1> DEFINE l == operator[o].entry.log
<1>1. /\ operator[o].pc = "replay" /\ dlq' = Without(operator[o].entry)
      /\ queue' = queue /\ discarded' = discarded
      /\ UNCHANGED <<worker, clientVars, contested>>
    BY DEF RemoveForReplay
<1>2. /\ operator[o].pc \in {"replay", "discard"} /\ operator[o].pc # "idle"
      /\ operator[o].pc # "requeue"
    BY <1>1
<1>3. /\ operator'[o].pc = "requeue" /\ operator'[o].entry = operator[o].entry
      /\ \A p \in Operators \ {o} : operator'[p] = operator[p]
    BY <1>1 DEF RemoveForReplay, TypeOK, IdleOperator
<1>4. /\ FiledOnce' /\ InDlq' \subseteq InDlq /\ (l \in InDlq' => l \in contested)
      /\ \A p \in Operators \ {o} :
            operator[p].pc \in {"replay", "discard"} /\ operator[p].entry.log \notin contested
            => operator[p].entry \in dlq'
    BY <1>1, <1>2, TakeFound
<1>5. l \in sent \ Unpushed /\ (l \notin contested => l \in InDlq)
    BY <1>2, FoundAlone
<1>6. /\ InHands' = InHands /\ Unpushed' = Unpushed /\ sent' = sent
      /\ PushedOnce' /\ HeldOnce' /\ contested' = contested
    BY <1>1, OperatorLeaves
<1>7. InQueue' = InQueue /\ OnceBut(contested', queue')
    BY <1>1, <1>6 DEF InQueue, Custody
<1>8. InReplay' = InReplay \cup {l}
    <2>1. Requeueing' = Requeueing \cup {o}
        BY <1>3 DEF Requeueing
    <2>2. \A p \in Operators : operator'[p].entry.log = operator[p].entry.log
        BY <1>3
    <2> QED
        BY <2>1, <2>2 DEF InReplay, Requeueing
<1>9. FoundStays'
    BY <1>3, <1>4, <1>6 DEF FoundStays
<1>10. OneAtWork' /\ FoundPushed'
    <2>1. \A p \in Operators : /\ operator'[p].pc # "idle" => operator[p].pc # "idle"
                               /\ operator'[p].entry = operator[p].entry
        BY <1>2, <1>3
    <2> QED
        BY <2>1, <1>6 DEF Custody, OneAtWork, FoundPushed
<1> HIDE DEF l
<1> QED
    BY <1>1, <1>4, <1>5, <1>6, <1>7, <1>8, <1>9, <1>10 DEF Custody, Apart, Live, InTransit

\* A replay or a discard that ends, interrupted or not, leaves its log in the
\* queue, in the dead-letter list, discarded or nowhere.
LEMMA EndKeepsCustody ==
    ASSUME TypeOK, TypeOK', Custody, NEW o \in Operators,
           Requeue(o) \/ Discard(o) \/ InterruptOperator(o)
    PROVE  Custody'
<1> DEFINE l == operator[o].entry.log
           others == ReplayedByOthers(o)
<1>1. /\ operator[o].pc # "idle"
      /\ operator' = [operator EXCEPT ![o] = IdleOperator]
      /\ UNCHANGED <<worker, clientVars, contested>>
    BY DEF Requeue, Discard, InterruptOperator
<1>2. /\ InHands' = InHands /\ Unpushed' = Unpushed /\ sent' = sent
      /\ PushedOnce' /\ HeldOnce' /\ contested' = contested
    BY <1>1, OperatorLeaves
<1>3. /\ l \in Logs /\ l \in sent \ Unpushed
      /\ l \notin contested => l \notin others
      /\ l \notin contested /\ operator[o].pc # "requeue" => l \in InDlq
    BY <1>1, FoundAlone
<1>4. InReplay = others \cup (IF operator[o].pc = "requeue" THEN {l} ELSE {})
    BY ReplaySplit
<1>5. ASSUME dlq' = dlq
      PROVE  /\ FiledOnce' /\ InDlq' = InDlq
             /\ InReplay' = others /\ FoundStays' /\ OneAtWork' /\ FoundPushed'
    <2>1. FiledOnce' /\ InDlq' = InDlq
        BY <1>2, <1>5 DEF Custody, FiledOnce, InDlq
    <2>2. \A p \in Operators \ {o} :
            operator[p].pc \in {"replay", "discard"} /\ operator[p].entry.log \notin contested
            => operator[p].entry \in dlq'
        BY <1>5 DEF Custody, FoundStays
    <2> QED
        BY <1>1, <2>1, <2>2, ReleaseKeeps
<1>6. ASSUME operator[o].pc \in {"replay", "discard"}, dlq' = Without(operator[o].entry)
      PROVE  /\ FiledOnce' /\ InDlq' \subseteq InDlq /\ (l \in InDlq' => l \in contested)
             /\ InReplay' = others /\ FoundStays' /\ OneAtWork' /\ FoundPushed'
    <2>1. /\ FiledOnce' /\ InDlq' \subseteq InDlq /\ (l \in InDlq' => l \in contested)
          /\ \A p \in Operators \ {o} :
            operator[p].pc \in {"replay", "discard"} /\ operator[p].entry.log \notin contested
            => operator[p].entry \in dlq'
        BY <1>1, <1>6, TakeFound
    <2> QED
        BY <1>1, <2>1, ReleaseKeeps
<1>7. ASSUME queue' = queue PROVE OnceBut(contested', queue') /\ InQueue' = InQueue
    BY <1>2, <1>7 DEF Custody, InQueue
<1> HIDE DEF l, others
<1>8. ASSUME operator[o].pc = "requeue", queue' = Append(queue, l)
      PROVE  OnceBut(contested', queue') /\ InQueue' = InQueue \cup {l}
    <2>1. l \in InReplay /\ (l \in InQueue => l \in contested)
        BY <1>4, <1>8 DEF Custody, Apart
    <2>2. queue \in Seq(Logs) /\ OnceBut(contested, queue) /\ (l \in Range(queue) => l \in contested)
        BY <2>1 DEF Custody, TypeOK, InQueue
    <2> QED
        BY <1>2, <1>3, <1>8, <2>2, AppendOnce DEF InQueue
<1>9. CASE /\ operator[o].pc = "requeue" /\ queue' = Append(queue, l)
           /\ dlq' = dlq /\ discarded' = discarded
    BY <1>2, <1>3, <1>4, <1>5, <1>8, <1>9 DEF Custody, Apart, Live, InTransit
<1>10. CASE /\ operator[o].pc = "discard" /\ dlq' = Without(operator[o].entry)
            /\ queue' = queue /\ discarded' = discarded \cup {l}
    <2>1. operator[o].pc # "requeue" /\ operator[o].pc \in {"replay", "discard"}
        BY <1>10
    <2> QED
        BY <1>2, <1>3, <1>4, <1>6, <1>7, <1>10, <2>1 DEF Custody, Apart, Live, InTransit
<1>11. CASE queue' = queue /\ dlq' = dlq /\ discarded' = discarded
    BY <1>2, <1>4, <1>5, <1>7, <1>11 DEF Custody, Apart, Live, InTransit
<1>12. CASE /\ operator[o].pc \in {"replay", "discard"} /\ queue' = queue
            /\ dlq' = Without(operator[o].entry) /\ discarded' = discarded
    BY <1>2, <1>4, <1>6, <1>7, <1>12 DEF Custody, Apart, Live, InTransit
<1> QED
    BY <1>9, <1>10, <1>11, <1>12 DEF Requeue, Discard, InterruptOperator, l

\* The pipeline starts with no log anywhere.
LEMMA InitCustody == Init => Custody
<1> SUFFICES ASSUME Init PROVE Custody
    OBVIOUS
<1>1. Range(<<>>) = {} /\ OnceBut(contested, <<>>) /\ DOMAIN <<>> = {}
    BY DEF Range, OnceBut
<1>2. /\ \A c \in Clients : request[c].batch = <<>>
      /\ \A w \in Workers : worker[w].pc = "idle" /\ worker[w].batch = <<>>
      /\ \A o \in Operators : operator[o].pc = "idle"
      /\ queue = <<>> /\ dlq = {} /\ discarded = {} /\ sent = {}
    BY DEF Init, IdleRequest, IdleWorker, IdleOperator
<1>3. \A w \in Workers : HeldAt(w) = {}
    BY <1>1, <1>2 DEF HeldAt
<1>4. Unpushed = {} /\ InQueue = {} /\ InHands = {} /\ InReplay = {} /\ InDlq = {}
    BY <1>1, <1>2, <1>3 DEF Unpushed, InQueue, InHands, Held, InReplay, Requeueing, InDlq
<1> QED
    BY <1>1, <1>2, <1>3, <1>4
       DEF Custody, Apart, Live, InTransit, PushedOnce, HeldOnce, FiledOnce, FoundStays,
           OneAtWork, FoundPushed

\* Custody is inductive.
LEMMA NextCustody ==
    ASSUME TypeOK, TypeOK', Custody, [Next]_vars
    PROVE  Custody'
<1>1. CASE UNCHANGED vars
    <2>1. UNCHANGED <<queue, dlq, worker, clientVars, operator, discarded, contested>>
        BY <1>1 DEF vars, pipelineVars, clientVars
    <2>2. InHands' = InHands /\ HeldOnce'
        BY <2>1, HandsSame DEF Custody, HeldOnce, HeldAt
    <2>3. InQueue' = InQueue /\ InDlq' = InDlq /\ FiledOnce' /\ OnceBut(contested', queue')
        BY <2>1 DEF InQueue, InDlq, FiledOnce, Custody
    <2>4. /\ Unpushed' = Unpushed /\ InReplay' = InReplay /\ PushedOnce'
          /\ FoundStays' /\ OneAtWork' /\ FoundPushed'
          /\ sent' = sent /\ discarded' = discarded /\ contested' = contested
        BY <2>1, WorkerLeaves
    <2> QED
        BY <2>2, <2>3, <2>4 DEF Custody, Apart, Live, InTransit
<1>2. CASE Next
    BY <1>2, ClientKeepsCustody, WorkerKeepsCustody, InterruptKeepsCustody,
       FindKeepsCustody, RemoveKeepsCustody, EndKeepsCustody DEF Next, OperatorStep
<1> QED
    BY <1>1, <1>2

\* What the custody of the logs says holds throughout.
LEMMA CustodyHolds == Spec => [](TypeOK /\ Custody)
<1>1. Init => TypeOK /\ Custody
    BY InitTypeOK, InitCustody
<1>2. TypeOK /\ Custody /\ [Next]_vars => (TypeOK /\ Custody)'
    BY NextTypeOK, NextCustody
<1> QED
    BY <1>1, <1>2, PTL DEF Spec

\* A set whose members are all the same has at most one.
LEMMA AtMostOne ==
    ASSUME NEW S, \A x, y \in S : x = y
    PROVE  Cardinality(S) \in {0, 1} /\ (S = {} => Cardinality(S) = 0)
<1>1. CASE S = {}
    BY <1>1, FS_EmptySet
<1>2. CASE S # {}
    <2>1. PICK x : x \in S
        BY <1>2
    <2>2. S = {x}
        BY <2>1
    <2> QED
        BY <2>2, <1>2, FS_Singleton
<1> QED
    BY <1>1, <1>2

\* app/workers/indexer.py, app/api/dlq.py: no interleaving of ingest requests,
\* workers, interruptions, replays and discards makes two copies of a log, but
\* for a log whose entry two dead-letter requests had found at a time.
THEOREM OneCustody == Spec => []SingleCustody
<1>1. ASSUME TypeOK, Custody PROVE SingleCustody
    <2> SUFFICES ASSUME NEW l \in Logs \ contested PROVE Copies(l) <= 1
        BY DEF SingleCustody
    <2> DEFINE q == {i \in DOMAIN queue : queue[i] = l}
               h == {p \in Workers \X (1..BatchSize) :
                        p[2] \in HeldAt(p[1]) /\ worker[p[1]].batch[p[2]] = l}
               d == {e \in dlq : e.log = l}
               r == {o \in Operators : operator[o].pc = "requeue"
                                        /\ operator[o].entry.log = l}
    <2>1. (\A x, y \in q : x = y) /\ (q # {} => l \in InQueue)
        BY <1>1 DEF Custody, OnceBut, InQueue, Range
    <2>2. (\A x, y \in h : x = y) /\ (h # {} => l \in InHands)
        <3>1. ASSUME NEW x \in h, NEW y \in h PROVE x = y
            <4>1. x[1] = y[1] /\ x[2] = y[2]
                BY <1>1 DEF Custody, HeldOnce
            <4> QED
                BY <4>1
        <3>2. ASSUME NEW x \in h PROVE l \in InHands
            BY DEF InHands, Held
        <3> QED
            BY <3>1, <3>2
    <2>3. (\A x, y \in d : x = y) /\ (d # {} => l \in InDlq)
        BY <1>1 DEF Custody, FiledOnce, InDlq
    <2>4. (\A x, y \in r : x = y) /\ (r # {} => l \in InReplay)
        BY <1>1 DEF Custody, OneAtWork, InReplay, Requeueing
    <2>5. Copies(l) = Cardinality(q) + Cardinality(h) + Cardinality(d) + Cardinality(r)
        BY DEF Copies
    <2> HIDE DEF q, h, d, r
    <2>6. /\ Cardinality(q) \in {0, 1} /\ Cardinality(h) \in {0, 1}
          /\ Cardinality(d) \in {0, 1} /\ Cardinality(r) \in {0, 1}
          /\ Cardinality(q) = 1 => l \in InQueue
          /\ Cardinality(h) = 1 => l \in InHands
          /\ Cardinality(d) = 1 => l \in InDlq
          /\ Cardinality(r) = 1 => l \in InReplay
        BY <2>1, <2>2, <2>3, <2>4, AtMostOne
    <2>7. /\ ~ (l \in InQueue /\ l \in InHands) /\ ~ (l \in InQueue /\ l \in InDlq)
          /\ ~ (l \in InQueue /\ l \in InReplay) /\ ~ (l \in InHands /\ l \in InDlq)
          /\ ~ (l \in InHands /\ l \in InReplay) /\ ~ (l \in InDlq /\ l \in InReplay)
        BY <1>1 DEF Custody, Apart, InTransit
    <2> QED
        BY <2>5, <2>6, <2>7
<1> QED
    BY <1>1, CustodyHolds, PTL

\* app/api/dlq.py, discard_dlq_entry: a log whose discard was answered is nowhere
\* in the pipeline, ever after, unless another request had found its entry before
\* the first one removed it.
THEOREM DiscardsAreFinal == Spec => []DiscardIsFinal
<1>1. Custody => DiscardIsFinal
    BY DEF Custody, Apart, DiscardIsFinal
<1> QED
    BY <1>1, CustodyHolds, PTL
=============================================================================
