---------------------- MODULE SimulationControl_proofs ----------------------
(***************************************************************************)
(* However start, stop and trigger requests overlap, an await of a task is *)
(* answered exactly once and after it ended; and as long as they do not    *)
(* overlap, the engine knows its task and its status hides no traffic.     *)
(***************************************************************************)
EXTENDS SimulationControl, SequenceTheorems, TLAPS

Statuses   == {"IDLE", "STEADY_STATE", "INJECTING_FAILURE"}
TaskStates == {"live", "cancelled", "done"}
Request    == [pc : {"idle", "new", "stopping", "shipping", "shipped"}, op : Ops,
               target : Nat \cup {None}, prev : Statuses]
Entry      == {OfClient(c) : c \in Clients} \cup {OfTask(t) : t \in Nat}

Truth == IF handle = None THEN "IDLE" ELSE "STEADY_STATE"

Types ==
    /\ status \in Statuses
    /\ handle \in DOMAIN tasks \cup {None}
    /\ activeRun \in Clients \cup {None}
    /\ tasks \in Seq(TaskStates)
    /\ client \in [Clients -> Request]
    /\ waiting \in Seq(Seq(Clients)) /\ Len(waiting) = Len(tasks)
    /\ ready \in Seq(Entry)
    /\ issued \in 0..MaxRequests /\ overlap \in BOOLEAN

\* What a request knows at each of its suspensions.
Requests ==
    \A c \in Clients :
        /\ client[c].target \in DOMAIN tasks \cup {None}
        /\ client[c].pc = "stopping" =>
            client[c].op \in {"start", "stop"} /\ client[c].target \in DOMAIN tasks
        /\ client[c].pc \in {"shipping", "shipped"} => client[c].op = "trigger"

\* A request is queued once, and one that awaited a task only when it ended.
ClientsQueued ==
    \A c \in Clients : OfClient(c) \in Range(ready) =>
        /\ client[c].pc \in {"new", "stopping", "shipped"}
        /\ client[c].pc = "stopping" => tasks[client[c].target] = "done"

\* A task is queued to end, and nothing else.
TasksQueued ==
    \A t \in Nat : OfTask(t) \in Range(ready) =>
        t \in DOMAIN tasks /\ tasks[t] = "cancelled"

\* Who awaits a task is stopping it, and is not yet queued.
Awaited ==
    \A t \in DOMAIN tasks : \A c \in Range(waiting[t]) :
        /\ client[c].pc = "stopping" /\ client[c].target = t
        /\ tasks[t] = "cancelled"
        /\ OfClient(c) \notin Range(ready)

Once == /\ IsInjective(ready)
        /\ \A t \in DOMAIN tasks : IsInjective(waiting[t])

\* While requests do not overlap.
Alone ==
    ~ overlap => \A c, d \in Clients :
        client[c].pc # "idle" /\ client[d].pc # "idle" => c = d
StopsItsHandle ==
    ~ overlap => \A c \in Clients : client[c].pc = "stopping" => client[c].target = handle
StatusKept ==
    ~ overlap =>
        /\ (\A c \in Clients : client[c].pc \in {"idle", "new"}) => status = Truth
        /\ \A c \in Clients : client[c].pc \in {"shipping", "shipped"} => client[c].prev = Truth

Queueing == Requests /\ ClientsQueued /\ TasksQueued /\ Awaited /\ Once
Serial   == Alone /\ NoOrphans /\ StopsItsHandle /\ StatusKept
IInv     == Types /\ Queueing /\ Serial
----------------------------------------------------------------------------
(***************************************************************************)
(* Lists without repetition.                                               *)
(***************************************************************************)
\* What an item of a list is, by its position.
LEMMA ItemsOf ==
    ASSUME NEW S, NEW s \in Seq(S)
    PROVE  /\ \A x : x \in Range(s) <=> \E i \in 1..Len(s) : s[i] = x
           /\ IsInjective(s) <=> \A i, j \in 1..Len(s) : s[i] = s[j] => i = j
<1>1. DOMAIN s = 1..Len(s)
    OBVIOUS
<1> QED
    BY <1>1 DEF Range, IsInjective

\* The empty list.
LEMMA EmptyList ==
    ASSUME NEW S
    PROVE  <<>> \in Seq(S) /\ Range(<<>>) = {} /\ IsInjective(<<>>)
BY DEF Range, IsInjective

\* A list with one item.
LEMMA OneItem ==
    ASSUME NEW S, NEW e \in S
    PROVE  <<e>> \in Seq(S) /\ Range(<<e>>) = {e} /\ IsInjective(<<e>>)
BY DEF Range, IsInjective

\* Joining two lists that share no item.
LEMMA Joined ==
    ASSUME NEW S, NEW s \in Seq(S), NEW t \in Seq(S), IsInjective(s), IsInjective(t),
           Range(s) \cap Range(t) = {}
    PROVE  /\ s \o t \in Seq(S)
           /\ Range(s \o t) = Range(s) \cup Range(t)
           /\ IsInjective(s \o t)
<1>1. s \o t \in Seq(S) /\ Len(s \o t) = Len(s) + Len(t)
    OBVIOUS
<1>2. \A i \in 1..Len(s \o t) : (s \o t)[i] = IF i <= Len(s) THEN s[i] ELSE t[i - Len(s)]
    OBVIOUS
<1>3. ASSUME NEW i \in 1..Len(s \o t), NEW j \in 1..Len(s \o t), (s \o t)[i] = (s \o t)[j]
      PROVE  i = j
    <2>1. CASE i <= Len(s) /\ j <= Len(s)
        BY <1>1, <1>2, <1>3, <2>1, ItemsOf
    <2>2. CASE i > Len(s) /\ j > Len(s)
        <3>1. i - Len(s) \in 1..Len(t) /\ j - Len(s) \in 1..Len(t)
            BY <1>1, <2>2
        <3>2. t[i - Len(s)] = t[j - Len(s)]
            BY <1>1, <1>2, <1>3, <2>2
        <3>3. i - Len(s) = j - Len(s)
            BY <3>1, <3>2, ItemsOf
        <3> QED
            BY <3>3, <1>1
    <2>3. CASE i <= Len(s) /\ j > Len(s)
        <3>1. j - Len(s) \in 1..Len(t) /\ i \in 1..Len(s) /\ s[i] = t[j - Len(s)]
            BY <1>1, <1>2, <1>3, <2>3
        <3> QED
            BY <3>1, ItemsOf
    <2>4. CASE i > Len(s) /\ j <= Len(s)
        <3>1. i - Len(s) \in 1..Len(t) /\ j \in 1..Len(s) /\ s[j] = t[i - Len(s)]
            BY <1>1, <1>2, <1>3, <2>4
        <3> QED
            BY <3>1, ItemsOf
    <2> QED
        BY <2>1, <2>2, <2>3, <2>4, <1>1
<1>4. Range(s \o t) = Range(s) \cup Range(t)
    BY RangeConcatenation
<1> QED
    BY <1>1, <1>3, <1>4, ItemsOf

\* One more item at the end.
LEMMA Pushed ==
    ASSUME NEW S, NEW s \in Seq(S), NEW e \in S, IsInjective(s), e \notin Range(s)
    PROVE  /\ Append(s, e) \in Seq(S)
           /\ Range(Append(s, e)) = Range(s) \cup {e}
           /\ IsInjective(Append(s, e))
<1>1. Append(s, e) = s \o <<e>>
    BY AppendIsConcat
<1>2. <<e>> \in Seq(S) /\ Range(<<e>>) = {e} /\ IsInjective(<<e>>)
    BY OneItem
<1>3. Range(s) \cap Range(<<e>>) = {}
    BY <1>2
<1>4. /\ s \o <<e>> \in Seq(S)
      /\ Range(s \o <<e>>) = Range(s) \cup Range(<<e>>)
      /\ IsInjective(s \o <<e>>)
    BY <1>2, <1>3, Joined
<1> QED
    BY <1>1, <1>2, <1>4

\* The head is taken off.
LEMMA Popped ==
    ASSUME NEW S, NEW s \in Seq(S), IsInjective(s), s # <<>>
    PROVE  /\ Tail(s) \in Seq(S) /\ IsInjective(Tail(s))
           /\ Head(s) \in Range(s)
           /\ Range(Tail(s)) = Range(s) \ {Head(s)}
<1>1. /\ Head(s) = s[1] /\ Len(s) \in Nat \ {0}
      /\ Tail(s) \in Seq(S) /\ Len(Tail(s)) = Len(s) - 1
      /\ \A i \in 1 .. Len(Tail(s)) : Tail(s)[i] = s[i+1]
    BY HeadTailProperties, EmptySeq
<1>2. \A i, j \in 1..Len(s) : s[i] = s[j] => i = j
    BY ItemsOf
<1>3. ASSUME NEW i \in 1..Len(Tail(s)), NEW j \in 1..Len(Tail(s)), Tail(s)[i] = Tail(s)[j]
      PROVE  i = j
    <2>1. i + 1 \in 1..Len(s) /\ j + 1 \in 1..Len(s) /\ s[i + 1] = s[j + 1]
        BY <1>1, <1>3
    <2>2. i + 1 = j + 1
        BY <2>1, <1>2
    <2> QED
        BY <2>2
<1>4. IsInjective(Tail(s))
    BY <1>1, <1>3, ItemsOf
<1>5. Head(s) \in Range(s)
    BY <1>1, ItemsOf
<1>6. ASSUME NEW x \in Range(Tail(s)) PROVE x \in Range(s) \ {Head(s)}
    <2>0. x \in Range(Tail(s)) <=> \E i \in 1..Len(Tail(s)) : Tail(s)[i] = x
        <3>1. Tail(s) \in Seq(S)
            BY <1>1
        <3> QED
            BY <3>1, ItemsOf, Zenon
    <2>1. PICK i \in 1..Len(Tail(s)) : Tail(s)[i] = x
        BY <2>0, <1>6
    <2>2. i + 1 \in 1..Len(s) /\ i + 1 # 1 /\ 1 \in 1..Len(s) /\ s[i + 1] = x
        BY <2>1, <1>1
    <2> QED
        BY <2>2, <1>1, <1>2, ItemsOf
<1>7. ASSUME NEW x \in Range(s) \ {Head(s)} PROVE x \in Range(Tail(s))
    <2>1. PICK i \in 1..Len(s) : s[i] = x
        BY ItemsOf
    <2>2. i - 1 \in 1..Len(Tail(s)) /\ Tail(s)[i - 1] = x
        BY <2>1, <1>1
    <2> QED
        BY <2>2, <1>1, ItemsOf
<1> QED
    BY <1>1, <1>4, <1>5, <1>6, <1>7

\* The entries of the loop's queue for a list of clients.
LEMMA EntriesOf ==
    ASSUME NEW s \in Seq(Clients), IsInjective(s)
    PROVE  LET es == [i \in DOMAIN s |-> OfClient(s[i])]
           IN  /\ es \in Seq(Entry) /\ IsInjective(es)
               /\ \A c : OfClient(c) \in Range(es) <=> c \in Range(s)
               /\ \A e \in Range(es) : \E c \in Range(s) : e = OfClient(c)
<1> DEFINE es == [i \in DOMAIN s |-> OfClient(s[i])]
<1>1. Len(s) \in Nat /\ DOMAIN s = 1..Len(s) /\ \A i \in 1..Len(s) : s[i] \in Clients
    OBVIOUS
<1>2. es \in [1..Len(s) -> Entry]
    BY <1>1 DEF Entry
<1>3. es \in Seq(Entry) /\ Len(es) = Len(s)
    BY <1>1, <1>2
<1>4. \A i \in 1..Len(s) : es[i] = OfClient(s[i])
    BY <1>1
<1> HIDE DEF es
<1>5. \A c, d : OfClient(c) = OfClient(d) => c = d
    BY DEF OfClient
<1>6. IsInjective(es)
    BY <1>3, <1>4, <1>5, ItemsOf
<1>7. \A c : OfClient(c) \in Range(es) <=> c \in Range(s)
    BY <1>3, <1>4, <1>5, ItemsOf
<1>8. \A e \in Range(es) : \E c \in Range(s) : e = OfClient(c)
    BY <1>3, <1>4, ItemsOf
<1> QED
    BY <1>3, <1>6, <1>7, <1>8 DEF es
----------------------------------------------------------------------------
(***************************************************************************)
(* Types.                                                                  *)
(***************************************************************************)
\* The entries of clients and of tasks are told apart.
LEMMA EntriesDiffer ==
    /\ \A c, d : OfClient(c) = OfClient(d) => c = d
    /\ \A t, u : OfTask(t) = OfTask(u) => t = u
    /\ \A c, t : OfClient(c) # OfTask(t)
BY DEF OfClient, OfTask

\* What is left of the loop's queue when its head runs.
LEMMA HeadRuns ==
    ASSUME Types, Once, NEW e, IsNext(e)
    PROVE  /\ Tail(ready) \in Seq(Entry) /\ IsInjective(Tail(ready))
           /\ e \in Range(ready) /\ Range(Tail(ready)) = Range(ready) \ {e}
BY Popped DEF Types, Once, IsNext

\* The request that is answered leaves nothing behind.
LEMMA NoReqType == NoReq \in Request /\ NoReq.pc = "idle" /\ NoReq.target = None
BY DEF NoReq, Request, Ops, Statuses

\* Every step keeps the types.
LEMMA TypesStep ==
    ASSUME Types, Once, Next
    PROVE  Types'
<1> USE NoReqType
<1>1. ASSUME NEW c \in Clients, NEW op \in Ops, Arrive(c, op) PROVE Types'
    <2>1. OfClient(c) \in Entry
        BY DEF Entry
    <2>2. ready' \in Seq(Entry)
        BY <1>1, <2>1 DEF Arrive, Types
    <2>3. [NoReq EXCEPT !.pc = "new", !.op = op] \in Request
        BY DEF NoReq, Request, Ops, Statuses
    <2>4. client' \in [Clients -> Request]
        BY <1>1, <2>3 DEF Arrive, Types
    <2>5. issued' \in 0..MaxRequests
        BY <1>1, ControlAssumption DEF Arrive, Types
    <2> QED
        BY <1>1, <2>2, <2>4, <2>5 DEF Arrive, Types
<1>2. ASSUME NEW c \in Clients, AwaitTask(c) PROVE Types'
    <2>1. Tail(ready) \in Seq(Entry)
        BY <1>2, HeadRuns DEF AwaitTask
    <2>2. handle \in DOMAIN tasks
        BY <1>2 DEF AwaitTask, Types, Done
    <2>3. handle \in 1..Len(tasks) /\ handle \in Nat
        BY <2>2 DEF Types
    <2>4. OfTask(handle) \in Entry
        BY <2>3 DEF Entry
    <2>5. ready' \in Seq(Entry)
        BY <1>2, <2>1, <2>4 DEF AwaitTask
    <2>6. tasks' \in Seq(TaskStates) /\ DOMAIN tasks' = DOMAIN tasks /\ Len(tasks') = Len(tasks)
        BY <1>2, <2>3, ExceptSeq DEF AwaitTask, Cancelled, Types, TaskStates
    <2>7. handle \in 1..Len(waiting)
        BY <2>3 DEF Types
    <2>8. Append(waiting[handle], c) \in Seq(Clients)
        BY <2>7 DEF Types
    <2>9. waiting' \in Seq(Seq(Clients)) /\ Len(waiting') = Len(waiting)
        BY <1>2, <2>7, <2>8, ExceptSeq DEF AwaitTask, Types
    <2>10. client' \in [Clients -> Request]
        BY <1>2, <2>3 DEF AwaitTask, Types, Request
    <2> QED
        BY <1>2, <2>5, <2>6, <2>9, <2>10 DEF AwaitTask, Types
<1>3. ASSUME NEW c \in Clients, ResetEngine(c) PROVE Types'
    <2>1. Tail(ready) \in Seq(Entry)
        BY <1>3, HeadRuns DEF ResetEngine
    <2>2. client' \in [Clients -> Request]
        BY <1>3 DEF ResetEngine, Types
    <2>3. CASE client[c].op = "start"
        <3>0. "live" \in TaskStates /\ <<>> \in Seq(Clients)
            BY EmptyList DEF TaskStates
        <3>a. tasks' = Append(tasks, "live") /\ waiting' = Append(waiting, <<>>)
            BY <1>3, <2>3 DEF ResetEngine
        <3>b. tasks \in Seq(TaskStates) /\ waiting \in Seq(Seq(Clients))
            BY DEF Types
        <3>1. tasks' \in Seq(TaskStates) /\ Len(tasks') = Len(tasks) + 1
            BY <3>0, <3>a, <3>b, AppendProperties
        <3>2. waiting' \in Seq(Seq(Clients)) /\ Len(waiting') = Len(waiting) + 1
            BY <3>0, <3>a, <3>b, AppendProperties
        <3>3. handle' \in DOMAIN tasks'
            BY <1>3, <2>3, <3>1 DEF ResetEngine, Types
        <3> QED
            BY <1>3, <2>1, <2>2, <2>3, <3>1, <3>2, <3>3 DEF ResetEngine, Types, Statuses
    <2>4. CASE client[c].op # "start"
        BY <1>3, <2>1, <2>2, <2>4 DEF ResetEngine, Types, Statuses
    <2> QED
        BY <2>3, <2>4
<1>4. ASSUME NEW c \in Clients, BeginTrigger(c) PROVE Types'
    <2>1. Tail(ready) \in Seq(Entry)
        BY <1>4, HeadRuns DEF BeginTrigger
    <2>2. client' \in [Clients -> Request]
        BY <1>4 DEF BeginTrigger, Types, Request
    <2> QED
        BY <1>4, <2>1, <2>2 DEF BeginTrigger, Types, Statuses
<1>5. ASSUME NEW c \in Clients, EndTrigger(c) PROVE Types'
    <2>1. Tail(ready) \in Seq(Entry)
        BY <1>5, HeadRuns DEF EndTrigger
    <2>2. client' \in [Clients -> Request] /\ client[c].prev \in Statuses
        BY <1>5 DEF EndTrigger, Types, Request
    <2> QED
        BY <1>5, <2>1, <2>2 DEF EndTrigger, Types, Restored
<1>6. ASSUME NEW t \in DOMAIN tasks, TaskEnds(t) PROVE Types'
    <2>1. Tail(ready) \in Seq(Entry)
        BY <1>6, HeadRuns DEF TaskEnds
    <2>2. t \in 1..Len(waiting) /\ waiting[t] \in Seq(Clients) /\ IsInjective(waiting[t])
        BY DEF Types, Once
    <2>3. [i \in DOMAIN Woken(t) |-> OfClient(Woken(t)[i])] \in Seq(Entry)
        BY <2>2, EntriesOf DEF Woken
    <2>4. ready' \in Seq(Entry)
        BY <1>6, <2>1, <2>3 DEF TaskEnds
    <2>5. tasks' \in Seq(TaskStates) /\ Len(tasks') = Len(tasks) /\ DOMAIN tasks' = DOMAIN tasks
        BY <1>6 DEF TaskEnds, Types, TaskStates
    <2>6. waiting' \in Seq(Seq(Clients)) /\ Len(waiting') = Len(waiting)
        BY <1>6, <2>2 DEF TaskEnds, Types
    <2> QED
        BY <1>6, <2>4, <2>5, <2>6 DEF TaskEnds, Types
<1>7. ASSUME NEW c \in Clients, Shipped(c) PROVE Types'
    <2>1. OfClient(c) \in Entry
        BY DEF Entry
    <2>2. ready' \in Seq(Entry)
        BY <1>7, <2>1 DEF Shipped, Types
    <2>3. client' \in [Clients -> Request]
        BY <1>7 DEF Shipped, Types, Request
    <2> QED
        BY <1>7, <2>2, <2>3 DEF Shipped, Types
<1>8. ASSUME NEW t \in DOMAIN tasks, TaskFails(t) PROVE Types'
    <2>1. tasks' \in Seq(TaskStates) /\ Len(tasks') = Len(tasks) /\ DOMAIN tasks' = DOMAIN tasks
        BY <1>8 DEF TaskFails, Types, TaskStates
    <2> QED
        BY <1>8, <2>1 DEF TaskFails, Types
<1> QED
    BY <1>1, <1>2, <1>3, <1>4, <1>5, <1>6, <1>7, <1>8 DEF Next, RunLoop
----------------------------------------------------------------------------
(***************************************************************************)
(* Every await is answered once, by the end of its task.                   *)
(***************************************************************************)
\* A client's turn that touches no task: it starts to ship, or is answered.
LEMMA ClientLeaves ==
    ASSUME Types, Types', Queueing, NEW c \in Clients, IsNext(OfClient(c)),
           NEW r \in Request, r.target \in DOMAIN tasks \cup {None},
           r.pc \in {"idle", "shipping"}, r.pc = "shipping" => r.op = "trigger",
           client' = [client EXCEPT ![c] = r],
           ready' = Tail(ready), tasks' = tasks, waiting' = waiting
    PROVE  Queueing'
<1>1. /\ IsInjective(ready') /\ OfClient(c) \in Range(ready)
      /\ Range(ready') = Range(ready) \ {OfClient(c)}
    BY HeadRuns DEF Queueing
<1>2. client'[c] = r /\ \A d \in Clients : d # c => client'[d] = client[d]
    BY DEF Types
<1>3. \A t \in DOMAIN tasks : c \notin Range(waiting[t])
    BY <1>1 DEF Queueing, Awaited
<1>4. \A t \in DOMAIN tasks : Range(waiting[t]) \subseteq Clients
    BY RangeOfSeq DEF Types
<1>5. Requests'
    BY <1>2 DEF Queueing, Requests
<1>6. ClientsQueued'
    BY <1>1, <1>2 DEF Queueing, ClientsQueued
<1>7. TasksQueued'
    BY <1>1 DEF Queueing, TasksQueued
<1>8. Awaited'
    BY <1>1, <1>2, <1>3, <1>4 DEF Queueing, Awaited
<1>9. Once'
    BY <1>1 DEF Queueing, Once
<1> QED
    BY <1>5, <1>6, <1>7, <1>8, <1>9 DEF Queueing

\* A client enters the loop's queue: its request arrives, or has shipped.
LEMMA ClientEnters ==
    ASSUME Types, Types', Queueing, NEW c \in Clients, client[c].pc \in {"idle", "shipping"},
           NEW r \in Request, r.target \in DOMAIN tasks \cup {None},
           r.pc \in {"new", "shipped"}, r.pc = "shipped" => r.op = "trigger",
           client' = [client EXCEPT ![c] = r],
           ready' = Append(ready, OfClient(c)), tasks' = tasks, waiting' = waiting
    PROVE  Queueing'
<1>1. OfClient(c) \notin Range(ready) /\ OfClient(c) \in Entry
    BY DEF Queueing, ClientsQueued, Entry
<1>2. IsInjective(ready') /\ Range(ready') = Range(ready) \cup {OfClient(c)}
    BY <1>1, Pushed DEF Queueing, Once, Types
<1>3. client'[c] = r /\ \A d \in Clients : d # c => client'[d] = client[d]
    BY DEF Types
<1>4. \A t \in DOMAIN tasks : c \notin Range(waiting[t])
    BY DEF Queueing, Awaited
<1>5. \A t \in DOMAIN tasks : Range(waiting[t]) \subseteq Clients
    BY RangeOfSeq DEF Types
<1>6. Requests'
    BY <1>3 DEF Queueing, Requests
<1>7. ClientsQueued'
    BY <1>2, <1>3, EntriesDiffer DEF Queueing, ClientsQueued
<1>8. TasksQueued'
    BY <1>2, EntriesDiffer DEF Queueing, TasksQueued
<1>9. Awaited'
    BY <1>2, <1>3, <1>4, <1>5, EntriesDiffer DEF Queueing, Awaited
<1>10. Once'
    BY <1>2 DEF Queueing, Once
<1> QED
    BY <1>6, <1>7, <1>8, <1>9, <1>10 DEF Queueing

\* A stop or a start cancels the task and awaits it.
LEMMA AwaitQueues ==
    ASSUME Types, Types', Queueing, NEW c \in Clients, AwaitTask(c)
    PROVE  Queueing'
<1>1. /\ Tail(ready) \in Seq(Entry) /\ IsInjective(Tail(ready))
      /\ Range(Tail(ready)) = Range(ready) \ {OfClient(c)}
    BY HeadRuns DEF Queueing, AwaitTask
<1>2. handle \in DOMAIN tasks /\ handle \in Nat /\ tasks[handle] # "done" /\ handle # None
    BY DEF AwaitTask, Types, Done
<1>3. /\ DOMAIN tasks' = DOMAIN tasks /\ tasks'[handle] = "cancelled"
      /\ \A t \in DOMAIN tasks : t # handle => tasks'[t] = tasks[t]
    BY <1>2 DEF AwaitTask, Cancelled, Types
<1>4. /\ client'[c].pc = "stopping" /\ client'[c].target = handle
      /\ client'[c].op = client[c].op
      /\ client[c].pc = "new" /\ client[c].op \in {"start", "stop"}
      /\ \A d \in Clients : d # c => client'[d] = client[d]
    BY DEF AwaitTask, Types, Request
<1>5. /\ IsInjective(ready')
      /\ Range(ready') = (Range(ready) \ {OfClient(c)})
                          \cup (IF Live(handle) THEN {OfTask(handle)} ELSE {})
    <2>1. CASE Live(handle)
        <3>1. OfTask(handle) \in Entry /\ OfTask(handle) \notin Range(Tail(ready))
            BY <1>1, <1>2, <2>1 DEF Entry, Queueing, TasksQueued, Live
        <3>2. ready' = Append(Tail(ready), OfTask(handle))
            BY <1>1, <2>1, <3>1, AppendIsConcat DEF AwaitTask
        <3>3. /\ IsInjective(Append(Tail(ready), OfTask(handle)))
              /\ Range(Append(Tail(ready), OfTask(handle)))
                    = Range(Tail(ready)) \cup {OfTask(handle)}
            <4>1. \A q \in Seq(Entry) : \A e \in Entry :
                    IsInjective(q) /\ e \notin Range(q) =>
                        /\ IsInjective(Append(q, e))
                        /\ Range(Append(q, e)) = Range(q) \cup {e}
                BY Pushed
            <4> QED
                BY <1>1, <3>1, <4>1
        <3> QED
            BY <1>1, <2>1, <3>2, <3>3
    <2>2. CASE ~ Live(handle)
        <3>1. ready' = Tail(ready)
            BY <1>1, <2>2 DEF AwaitTask
        <3> QED
            BY <1>1, <2>2, <3>1
    <2> QED
        BY <2>1, <2>2
<1>6. \A t \in DOMAIN tasks : waiting[t] \in Seq(Clients) /\ Range(waiting[t]) \subseteq Clients
    BY RangeOfSeq DEF Types
<1>7. c \notin Range(waiting[handle])
    BY <1>2, <1>4 DEF Queueing, Awaited
<1>8. \A t \in DOMAIN tasks :
        waiting'[t] = IF t = handle THEN Append(waiting[t], c) ELSE waiting[t]
    BY <1>2 DEF AwaitTask, Types
<1>9. /\ IsInjective(waiting'[handle])
      /\ Range(waiting'[handle]) = Range(waiting[handle]) \cup {c}
    BY <1>2, <1>6, <1>7, <1>8, Pushed DEF Queueing, Once
<1>10. Requests'
    BY <1>2, <1>3, <1>4 DEF Queueing, Requests
<1>11. ClientsQueued'
    BY <1>2, <1>3, <1>4, <1>5, EntriesDiffer DEF Queueing, ClientsQueued, Requests
<1>12. TasksQueued'
    BY <1>2, <1>3, <1>5, EntriesDiffer DEF Queueing, TasksQueued
<1>13. Awaited'
    <2> SUFFICES ASSUME NEW t \in DOMAIN tasks, NEW d \in Range(waiting'[t])
                 PROVE  /\ client'[d].pc = "stopping" /\ client'[d].target = t
                        /\ tasks'[t] = "cancelled"
                        /\ OfClient(d) \notin Range(ready')
        BY <1>3 DEF Awaited
    <2>1. CASE d = c /\ t = handle
        BY <2>1, <1>3, <1>4, <1>5, EntriesDiffer
    <2>2. CASE d # c \/ t # handle
        <3>1. d \in Range(waiting[t]) /\ d \in Clients
            BY <2>2, <1>6, <1>8, <1>9
        <3>2. /\ client[d].pc = "stopping" /\ client[d].target = t
              /\ tasks[t] = "cancelled" /\ OfClient(d) \notin Range(ready)
            BY <3>1 DEF Queueing, Awaited
        <3>3. d # c
            BY <3>2, <1>4
        <3> QED
            BY <3>1, <3>2, <3>3, <1>3, <1>4, <1>5, EntriesDiffer
    <2> QED
        BY <2>1, <2>2
<1>14. Once'
    BY <1>3, <1>5, <1>8, <1>9 DEF Queueing, Once
<1> QED
    BY <1>10, <1>11, <1>12, <1>13, <1>14 DEF Queueing

\* A start creates a task that nobody awaits and nothing has queued.
LEMMA ResetQueues ==
    ASSUME Types, Types', Queueing, NEW c \in Clients, ResetEngine(c)
    PROVE  Queueing'
<1>1. CASE client[c].op = "start"
    <2>1. /\ IsInjective(ready') /\ OfClient(c) \in Range(ready)
          /\ Range(ready') = Range(ready) \ {OfClient(c)}
        BY HeadRuns DEF Queueing, ResetEngine
    <2>2. client'[c] = NoReq /\ \A d \in Clients : d # c => client'[d] = client[d]
        BY DEF Types, ResetEngine
    <2>3. \A t \in DOMAIN tasks : c \notin Range(waiting[t])
        BY <2>1 DEF Queueing, Awaited
    <2>4. \A t \in DOMAIN tasks : Range(waiting[t]) \subseteq Clients
        BY RangeOfSeq DEF Types
    <2>5. tasks' = Append(tasks, "live") /\ waiting' = Append(waiting, <<>>)
        BY <1>1 DEF ResetEngine
    <2>6. /\ DOMAIN tasks' = DOMAIN tasks \cup {Len(tasks) + 1}
          /\ Len(tasks) + 1 \notin DOMAIN tasks
          /\ \A t \in DOMAIN tasks : tasks'[t] = tasks[t] /\ waiting'[t] = waiting[t]
          /\ waiting'[Len(tasks) + 1] = <<>>
        BY <2>5 DEF Types
    <2>7. Requests'
        BY <2>2, <2>6, NoReqType DEF Queueing, Requests
    <2>8. ClientsQueued'
        BY <2>1, <2>2, <2>6, NoReqType DEF Queueing, ClientsQueued, Requests
    <2>9. TasksQueued'
        BY <2>1, <2>6 DEF Queueing, TasksQueued
    <2>10. Awaited'
        BY <2>1, <2>2, <2>3, <2>4, <2>6, EmptyList DEF Queueing, Awaited
    <2>11. Once'
        BY <2>1, <2>6, EmptyList DEF Queueing, Once
    <2> QED
        BY <2>7, <2>8, <2>9, <2>10, <2>11 DEF Queueing
<1>2. CASE client[c].op # "start"
    <2>1. /\ IsNext(OfClient(c)) /\ client' = [client EXCEPT ![c] = NoReq]
          /\ ready' = Tail(ready) /\ tasks' = tasks /\ waiting' = waiting
        BY <1>2 DEF ResetEngine
    <2> QED
        BY <2>1, ClientLeaves, NoReqType
<1> QED
    BY <1>1, <1>2

\* The end of a task wakes everyone who awaits it, once.
LEMMA EndQueues ==
    ASSUME Types, Types', Queueing, NEW t \in DOMAIN tasks, TaskEnds(t)
    PROVE  Queueing'
<1> DEFINE woken == [i \in DOMAIN Woken(t) |-> OfClient(Woken(t)[i])]
<1>1. /\ Tail(ready) \in Seq(Entry) /\ IsInjective(Tail(ready))
      /\ Range(Tail(ready)) = Range(ready) \ {OfTask(t)}
    BY HeadRuns DEF Queueing, TaskEnds
<1>2. waiting[t] \in Seq(Clients) /\ IsInjective(waiting[t])
    BY DEF Types, Queueing, Once
<1>3. /\ woken \in Seq(Entry) /\ IsInjective(woken)
      /\ \A c : OfClient(c) \in Range(woken) <=> c \in Range(waiting[t])
      /\ \A e \in Range(woken) : \E c \in Range(waiting[t]) : e = OfClient(c)
    BY <1>2, EntriesOf DEF Woken
<1>4. ready' = Tail(ready) \o woken
    BY DEF TaskEnds
<1> HIDE DEF woken
<1>5. Range(Tail(ready)) \cap Range(woken) = {}
    BY <1>1, <1>3 DEF Queueing, Awaited
<1>6. IsInjective(ready') /\ Range(ready') = Range(Tail(ready)) \cup Range(woken)
    <2>1. \A p, q \in Seq(Entry) :
            IsInjective(p) /\ IsInjective(q) /\ Range(p) \cap Range(q) = {} =>
                IsInjective(p \o q) /\ Range(p \o q) = Range(p) \cup Range(q)
        BY Joined
    <2> QED
        BY <2>1, <1>1, <1>3, <1>4, <1>5
<1>7. \A c : OfClient(c) \in Range(ready') <=>
                OfClient(c) \in Range(ready) \/ c \in Range(waiting[t])
    BY <1>1, <1>3, <1>6, EntriesDiffer
<1>8. \A u : OfTask(u) \in Range(ready') <=> u # t /\ OfTask(u) \in Range(ready)
    BY <1>1, <1>3, <1>6, EntriesDiffer
<1>9. /\ DOMAIN tasks' = DOMAIN tasks /\ client' = client
      /\ tasks'[t] = "done" /\ \A u \in DOMAIN tasks : u # t => tasks'[u] = tasks[u]
      /\ waiting'[t] = <<>> /\ \A u \in DOMAIN tasks : u # t => waiting'[u] = waiting[u]
    BY DEF TaskEnds, Types
<1>10. Requests'
    BY <1>9 DEF Queueing, Requests
<1>11. ClientsQueued'
    BY <1>7, <1>9 DEF Queueing, ClientsQueued, Requests, Awaited
<1>12. TasksQueued'
    BY <1>8, <1>9 DEF Queueing, TasksQueued
<1>13. Awaited'
    <2> SUFFICES ASSUME NEW u \in DOMAIN tasks, NEW d \in Range(waiting'[u])
                 PROVE  /\ client[d].pc = "stopping" /\ client[d].target = u
                        /\ tasks'[u] = "cancelled"
                        /\ OfClient(d) \notin Range(ready')
        BY <1>9 DEF Awaited
    <2>1. u # t
        BY <1>9, EmptyList
    <2>2. d \in Range(waiting[u])
        BY <2>1, <1>9
    <2>3. d \notin Range(waiting[t])
        BY <2>1, <2>2 DEF Queueing, Awaited
    <2> QED
        BY <2>1, <2>2, <2>3, <1>7, <1>9 DEF Queueing, Awaited
<1>14. Once'
    BY <1>6, <1>9, EmptyList DEF Queueing, Once
<1> QED
    BY <1>10, <1>11, <1>12, <1>13, <1>14 DEF Queueing

\* A loop that fails is one that nobody awaits, and nothing has queued.
LEMMA FailQueues ==
    ASSUME Types, Queueing, NEW t \in DOMAIN tasks, TaskFails(t)
    PROVE  Queueing'
<1>1. /\ DOMAIN tasks' = DOMAIN tasks /\ tasks[t] = "live" /\ tasks'[t] = "done"
      /\ \A u \in DOMAIN tasks : u # t => tasks'[u] = tasks[u]
      /\ UNCHANGED <<client, waiting, ready>>
    BY DEF TaskFails, Live, Types
<1>2. Requests' /\ ClientsQueued'
    BY <1>1 DEF Queueing, Requests, ClientsQueued
<1>3. TasksQueued'
    BY <1>1 DEF Queueing, TasksQueued
<1>4. Awaited'
    BY <1>1 DEF Queueing, Awaited
<1>5. Once'
    BY <1>1 DEF Queueing, Once
<1> QED
    BY <1>2, <1>3, <1>4, <1>5 DEF Queueing

\* Every step keeps the queues in order.
LEMMA QueueingStep ==
    ASSUME Types, Types', Queueing, Next
    PROVE  Queueing'
<1>1. ASSUME NEW c \in Clients, NEW op \in Ops, Arrive(c, op) PROVE Queueing'
    <2> DEFINE r == [NoReq EXCEPT !.pc = "new", !.op = op]
    <2>1. r \in Request /\ r.target = None /\ r.pc = "new"
        BY DEF NoReq, Request, Ops, Statuses
    <2>2. /\ client[c].pc = "idle" /\ client' = [client EXCEPT ![c] = r]
          /\ ready' = Append(ready, OfClient(c)) /\ tasks' = tasks /\ waiting' = waiting
        BY <1>1 DEF Arrive
    <2> HIDE DEF r
    <2> QED
        BY <2>1, <2>2, ClientEnters
<1>2. ASSUME NEW c \in Clients, AwaitTask(c) PROVE Queueing'
    BY <1>2, AwaitQueues
<1>3. ASSUME NEW c \in Clients, ResetEngine(c) PROVE Queueing'
    BY <1>3, ResetQueues
<1>4. ASSUME NEW c \in Clients, BeginTrigger(c) PROVE Queueing'
    <2> DEFINE r == [client[c] EXCEPT !.pc = "shipping", !.prev = status]
    <2>1. /\ r \in Request /\ r.target \in DOMAIN tasks \cup {None}
          /\ r.pc = "shipping" /\ r.op = "trigger"
        BY <1>4 DEF BeginTrigger, Types, Request, Queueing, Requests
    <2>2. /\ IsNext(OfClient(c)) /\ client' = [client EXCEPT ![c] = r]
          /\ ready' = Tail(ready) /\ tasks' = tasks /\ waiting' = waiting
        BY <1>4 DEF BeginTrigger, Types
    <2> HIDE DEF r
    <2> QED
        BY <2>1, <2>2, ClientLeaves
<1>5. ASSUME NEW c \in Clients, EndTrigger(c) PROVE Queueing'
    <2>1. /\ IsNext(OfClient(c)) /\ client' = [client EXCEPT ![c] = NoReq]
          /\ ready' = Tail(ready) /\ tasks' = tasks /\ waiting' = waiting
        BY <1>5 DEF EndTrigger
    <2> QED
        BY <2>1, NoReqType, ClientLeaves
<1>6. ASSUME NEW t \in DOMAIN tasks, TaskEnds(t) PROVE Queueing'
    BY <1>6, EndQueues
<1>7. ASSUME NEW c \in Clients, Shipped(c) PROVE Queueing'
    <2> DEFINE r == [client[c] EXCEPT !.pc = "shipped"]
    <2>1. /\ r \in Request /\ r.target \in DOMAIN tasks \cup {None}
          /\ r.pc = "shipped" /\ r.op = "trigger"
        BY <1>7 DEF Shipped, Types, Request, Queueing, Requests
    <2>2. /\ client[c].pc = "shipping" /\ client' = [client EXCEPT ![c] = r]
          /\ ready' = Append(ready, OfClient(c)) /\ tasks' = tasks /\ waiting' = waiting
        BY <1>7 DEF Shipped, Types
    <2> HIDE DEF r
    <2> QED
        BY <2>1, <2>2, ClientEnters
<1>8. ASSUME NEW t \in DOMAIN tasks, TaskFails(t) PROVE Queueing'
    BY <1>8, FailQueues
<1> QED
    BY <1>1, <1>2, <1>3, <1>4, <1>5, <1>6, <1>7, <1>8 DEF Next, RunLoop
----------------------------------------------------------------------------
(***************************************************************************)
(* While requests do not overlap.                                          *)
(***************************************************************************)
\* Who is at the head of the loop's queue has a request in progress.
LEMMA HeadBusy ==
    ASSUME Types, Queueing, NEW c \in Clients, IsNext(OfClient(c))
    PROVE  /\ client[c].pc \in {"new", "stopping", "shipped"}
           /\ client[c].pc = "stopping" =>
                client[c].target \in DOMAIN tasks /\ tasks[client[c].target] = "done"
<1>1. OfClient(c) \in Range(ready)
    BY HeadRuns DEF Queueing
<1> QED
    BY <1>1 DEF Queueing, ClientsQueued, Requests

\* Every step keeps what holds while requests do not overlap.
LEMMA SerialStep ==
    ASSUME Types, Types', Queueing, Serial, Next
    PROVE  Serial'
<1>0. \A t \in DOMAIN tasks : t \in Nat /\ t # None
    BY ControlAssumption DEF Types
<1>1. ASSUME NEW c \in Clients, NEW op \in Ops, Arrive(c, op) PROVE Serial'
    <2> SUFFICES ASSUME ~ overlap'
                 PROVE  Serial'
        BY DEF Serial, Alone, NoOrphans, StopsItsHandle, StatusKept
    <2>1. ~ overlap /\ \A d \in Clients : client[d].pc = "idle"
        BY <1>1 DEF Arrive, Types
    <2>2. /\ client'[c].pc = "new" /\ \A d \in Clients : d # c => client'[d].pc = "idle"
          /\ UNCHANGED <<status, handle, tasks>>
        BY <1>1, <2>1 DEF Arrive, Types, NoReq
    <2>3. Truth' = Truth
        BY <2>2 DEF Truth
    <2> QED
        BY <2>1, <2>2, <2>3 DEF Serial, Alone, NoOrphans, StopsItsHandle, StatusKept, Live
<1>2. ASSUME NEW c \in Clients, AwaitTask(c) PROVE Serial'
    <2>1. handle \in DOMAIN tasks
        BY <1>2 DEF AwaitTask, Types, Done
    <2>2. /\ client'[c].pc = "stopping" /\ client'[c].target = handle
          /\ client[c].pc = "new"
          /\ \A d \in Clients : d # c => client'[d] = client[d]
          /\ UNCHANGED <<status, handle, overlap>>
        BY <1>2 DEF AwaitTask, Types, Request
    <2>3. /\ DOMAIN tasks' = DOMAIN tasks /\ tasks'[handle] = "cancelled"
          /\ \A t \in DOMAIN tasks : t # handle => tasks'[t] = tasks[t]
        BY <1>2, <2>1 DEF AwaitTask, Cancelled, Types
    <2>4. Alone'
        BY <2>2 DEF Serial, Alone
    <2>5. NoOrphans'
        BY <2>2, <2>3 DEF Serial, NoOrphans, Live
    <2>6. StopsItsHandle'
        BY <2>2 DEF Serial, StopsItsHandle
    <2>7. StatusKept'
        BY <2>2 DEF Serial, Alone, StatusKept, Truth
    <2> QED
        BY <2>4, <2>5, <2>6, <2>7 DEF Serial
<1>3. ASSUME NEW c \in Clients, ResetEngine(c) PROVE Serial'
    <2> SUFFICES ASSUME ~ overlap
                 PROVE  Serial'
        BY <1>3 DEF ResetEngine, Serial, Alone, NoOrphans, StopsItsHandle, StatusKept
    <2>1. /\ client'[c].pc = "idle" /\ \A d \in Clients : d # c => client'[d] = client[d]
          /\ client[c].pc \in {"new", "stopping"}
        BY <1>3, NoReqType DEF ResetEngine, MayReset, Types
    <2>2. \A d \in Clients : client'[d].pc = "idle"
        BY <2>1 DEF Serial, Alone
    <2>3. \A t \in DOMAIN tasks : ~ Live(t)
        <3>1. CASE client[c].pc = "new"
            BY <1>3, <3>1, <1>0 DEF ResetEngine, MayReset, Done, Live, Serial, NoOrphans
        <3>2. CASE client[c].pc = "stopping"
            BY <1>3, <3>2, <1>0, HeadBusy DEF ResetEngine, Live, Serial, NoOrphans, StopsItsHandle
        <3> QED
            BY <2>1, <3>1, <3>2
    <2>4. CASE client[c].op = "start"
        <3>1. tasks' = Append(tasks, "live") /\ handle' = Len(tasks) + 1 /\ status' = "STEADY_STATE"
            BY <1>3, <2>4 DEF ResetEngine
        <3>2. /\ DOMAIN tasks' = DOMAIN tasks \cup {handle'} /\ handle' \in Nat
              /\ tasks'[handle'] = "live"
              /\ \A t \in DOMAIN tasks : tasks'[t] = tasks[t]
            BY <3>1 DEF Types
        <3>3. \A t \in DOMAIN tasks' : Live(t)' <=> t = handle'
            BY <2>3, <3>2, ControlAssumption, <1>0 DEF Live
        <3>4. Truth' = "STEADY_STATE"
            BY <3>2, ControlAssumption DEF Truth
        <3> QED
            BY <2>2, <3>1, <3>3, <3>4
               DEF Serial, Alone, NoOrphans, StopsItsHandle, StatusKept
    <2>5. CASE client[c].op # "start"
        <3>1. tasks' = tasks /\ status' = "IDLE" /\ handle' = None
            BY <1>3, <2>5 DEF ResetEngine
        <3>2. \A t \in DOMAIN tasks' : ~ Live(t)'
            BY <2>3, <3>1 DEF Live
        <3>3. Truth' = "IDLE"
            BY <3>1 DEF Truth
        <3> QED
            BY <2>2, <3>1, <3>2, <3>3
               DEF Serial, Alone, NoOrphans, StopsItsHandle, StatusKept
    <2> QED
        BY <2>4, <2>5
<1>4. ASSUME NEW c \in Clients, BeginTrigger(c) PROVE Serial'
    <2> SUFFICES ASSUME ~ overlap
                 PROVE  Serial'
        BY <1>4 DEF BeginTrigger, Serial, Alone, NoOrphans, StopsItsHandle, StatusKept
    <2>1. /\ client'[c].pc = "shipping" /\ client'[c].prev = status
          /\ client[c].pc = "new"
          /\ \A d \in Clients : d # c => client'[d] = client[d]
          /\ UNCHANGED <<handle, tasks, overlap>>
        BY <1>4 DEF BeginTrigger, Types, Request
    <2>2. \A d \in Clients : d # c => client[d].pc = "idle"
        BY <2>1 DEF Serial, Alone
    <2>3. status = Truth /\ Truth' = Truth
        BY <2>1, <2>2 DEF Serial, StatusKept, Truth
    <2> QED
        BY <2>1, <2>2, <2>3 DEF Serial, Alone, NoOrphans, StopsItsHandle, StatusKept, Live
<1>5. ASSUME NEW c \in Clients, EndTrigger(c) PROVE Serial'
    <2> SUFFICES ASSUME ~ overlap
                 PROVE  Serial'
        BY <1>5 DEF EndTrigger, Serial, Alone, NoOrphans, StopsItsHandle, StatusKept
    <2>1. /\ client'[c].pc = "idle" /\ status' = client[c].prev
          /\ client[c].pc = "shipped"
          /\ \A d \in Clients : d # c => client'[d] = client[d]
          /\ UNCHANGED <<handle, tasks, overlap>>
        BY <1>5, NoReqType DEF EndTrigger, Restored, Types
    <2>2. \A d \in Clients : client'[d].pc = "idle"
        BY <2>1 DEF Serial, Alone
    <2>3. client[c].prev = Truth /\ Truth' = Truth
        BY <2>1 DEF Serial, StatusKept, Truth
    <2> QED
        BY <2>1, <2>2, <2>3 DEF Serial, Alone, NoOrphans, StopsItsHandle, StatusKept, Live
<1>6. ASSUME NEW t \in DOMAIN tasks, TaskEnds(t) PROVE Serial'
    <2>1. /\ DOMAIN tasks' = DOMAIN tasks /\ tasks[t] = "cancelled" /\ tasks'[t] = "done"
          /\ \A u \in DOMAIN tasks : u # t => tasks'[u] = tasks[u]
          /\ UNCHANGED <<status, handle, client, overlap>>
        BY <1>6 DEF TaskEnds, Types
    <2>2. \A u \in DOMAIN tasks : Live(u)' <=> Live(u)
        BY <2>1 DEF Live
    <2>3. Truth' = Truth
        BY <2>1 DEF Truth
    <2> QED
        BY <2>1, <2>2, <2>3 DEF Serial, Alone, NoOrphans, StopsItsHandle, StatusKept
<1>7. ASSUME NEW c \in Clients, Shipped(c) PROVE Serial'
    <2>1. /\ client'[c] = [client[c] EXCEPT !.pc = "shipped"] /\ client[c].pc = "shipping"
          /\ \A d \in Clients : d # c => client'[d] = client[d]
          /\ UNCHANGED <<status, handle, tasks, overlap>>
        BY <1>7 DEF Shipped, Types
    <2>2. client'[c].pc = "shipped" /\ client'[c].prev = client[c].prev
        BY <2>1 DEF Types, Request
    <2>3. Truth' = Truth
        BY <2>1 DEF Truth
    <2> QED
        BY <2>1, <2>2, <2>3 DEF Serial, Alone, NoOrphans, StopsItsHandle, StatusKept, Live
<1>8. ASSUME NEW t \in DOMAIN tasks, TaskFails(t) PROVE Serial'
    <2>1. /\ DOMAIN tasks' = DOMAIN tasks /\ tasks'[t] = "done"
          /\ \A u \in DOMAIN tasks : u # t => tasks'[u] = tasks[u]
          /\ UNCHANGED <<status, handle, client, overlap>>
        BY <1>8 DEF TaskFails, Types
    <2>2. \A u \in DOMAIN tasks : Live(u)' => Live(u)
        BY <2>1 DEF Live
    <2>3. Truth' = Truth
        BY <2>1 DEF Truth
    <2> QED
        BY <2>1, <2>2, <2>3 DEF Serial, Alone, NoOrphans, StopsItsHandle, StatusKept
<1> QED
    BY <1>1, <1>2, <1>3, <1>4, <1>5, <1>6, <1>7, <1>8 DEF Next, RunLoop
----------------------------------------------------------------------------
(***************************************************************************)
(* The theorems.                                                           *)
(***************************************************************************)
\* The engine starts idle, with nothing queued.
LEMMA InitIInv == Init => IInv
<1> SUFFICES ASSUME Init PROVE IInv
    OBVIOUS
<1>1. /\ status = "IDLE" /\ handle = None /\ activeRun = None /\ tasks = <<>>
      /\ client = [c \in Clients |-> NoReq]
      /\ waiting = <<>> /\ ready = <<>> /\ issued = 0 /\ overlap = FALSE
    BY DEF Init
<1>2. DOMAIN tasks = {} /\ Range(ready) = {} /\ IsInjective(ready)
    BY <1>1, EmptyList
<1>3. \A c \in Clients : client[c] = NoReq
    BY <1>1
<1>4. Types
    <2>1. <<>> \in Seq(TaskStates) /\ <<>> \in Seq(Seq(Clients)) /\ <<>> \in Seq(Entry)
        BY EmptyList
    <2>2. client \in [Clients -> Request]
        BY <1>1, NoReqType
    <2>3. tasks \in Seq(TaskStates) /\ waiting \in Seq(Seq(Clients)) /\ ready \in Seq(Entry)
        BY <1>1, <2>1
    <2>4. status \in Statuses /\ issued \in 0..MaxRequests
        BY <1>1, ControlAssumption DEF Statuses
    <2>5. overlap \in BOOLEAN
        BY <1>1, Zenon
    <2>6. Len(waiting) = Len(tasks)
        BY <1>1
    <2> QED
        BY <1>1, <2>2, <2>3, <2>4, <2>5, <2>6 DEF Types
<1>5. Queueing
    BY <1>2, <1>3, NoReqType
       DEF Queueing, Requests, ClientsQueued, TasksQueued, Awaited, Once
<1>6. Serial
    BY <1>1, <1>2, <1>3, NoReqType
       DEF Serial, Alone, NoOrphans, StopsItsHandle, StatusKept, Truth
<1> QED
    BY <1>4, <1>5, <1>6 DEF IInv

\* No step breaks the inductive invariant.
LEMMA NextIInv == IInv /\ [Next]_vars => IInv'
<1>1. ASSUME IInv, Next PROVE IInv'
    <2>1. Types'
        BY <1>1, TypesStep DEF IInv, Queueing
    <2>2. Queueing'
        BY <1>1, <2>1, QueueingStep DEF IInv
    <2>3. Serial'
        BY <1>1, <2>1, SerialStep DEF IInv
    <2> QED
        BY <2>1, <2>2, <2>3 DEF IInv
<1>2. ASSUME IInv, UNCHANGED vars PROVE IInv'
    BY <1>2 DEF vars, IInv, Types, Queueing, Requests, ClientsQueued, TasksQueued, Awaited,
                Once, Serial, Alone, NoOrphans, StopsItsHandle, StatusKept, Truth, Live, IsInjective,
                Range
<1> QED
    BY <1>1, <1>2

\* The inductive invariant holds throughout.
LEMMA ControlInvariant == Spec => []IInv
BY InitIInv, NextIInv, PTL DEF Spec

\* simulator/engine.py: whatever requests overlap, the engine keeps its types
\* and the event loop runs neither a request nor a task's end twice.
THEOREM ControlTypeOK == Spec => []TypeOK
<1>1. IInv => TypeOK
    <2> SUFFICES ASSUME IInv PROVE TypeOK
        OBVIOUS
    <2>1. \A t \in DOMAIN tasks : Range(waiting[t]) \subseteq Clients
        BY RangeOfSeq DEF IInv, Types
    <2> QED
        BY <2>1 DEF IInv, Types, Queueing, Requests, Once, TypeOK, Request, Statuses, TaskStates
<1> QED
    BY <1>1, ControlInvariant, PTL

\* simulator/engine.py, start_steady_state and stop: as long as requests never
\* overlapped, the task that generates traffic is the one the handle names.
THEOREM SerialNoOrphans == Spec => []NoOrphans
<1>1. IInv => NoOrphans
    BY DEF IInv, Serial
<1> QED
    BY <1>1, ControlInvariant, PTL

\* simulator/engine.py, get_status: as long as requests never overlapped, the
\* status reported between them, a trigger's restored one included, hides no
\* traffic and follows the starts and stops, though a loop may end by itself.
THEOREM SerialStatusShowsTraffic == Spec => []StatusShowsTraffic
<1>1. IInv => StatusShowsTraffic
    <2> SUFFICES ASSUME IInv, ~ overlap, Quiet
                 PROVE  /\ (\E t \in DOMAIN tasks : Live(t)) => status = "STEADY_STATE"
                        /\ status = IF handle = None THEN "IDLE" ELSE "STEADY_STATE"
        BY DEF StatusShowsTraffic
    <2>1. status = Truth
        BY DEF IInv, Serial, StatusKept, Quiet
    <2>2. ASSUME NEW t \in DOMAIN tasks, Live(t) PROVE handle # None
        BY <2>2 DEF IInv, Serial, NoOrphans, Live
    <2> QED
        BY <2>1, <2>2 DEF Truth
<1> QED
    BY <1>1, ControlInvariant, PTL

\* simulator/engine.py, stop: however requests overlap, a stop or a start does
\* not return before the task it found has ended.
THEOREM StopsAwait == Spec => StopAwaitsItsTask
<1>1. ASSUME IInv, Next, NEW c \in Clients, client[c].pc # "idle", client[c].op # "trigger",
             client'[c].pc = "idle"
      PROVE  Done(IF client[c].pc = "new" THEN handle ELSE client[c].target)
    <2>1. ResetEngine(c)
        <3>1. ASSUME NEW d \in Clients, NEW r, client' = [client EXCEPT ![d] = r]
              PROVE  d = c /\ client'[c] = r
            BY <1>1, <3>1 DEF IInv, Types
        <3>2. ASSUME NEW d \in Clients, NEW op \in Ops PROVE ~ Arrive(d, op)
            BY <1>1, <3>1 DEF Arrive
        <3>3. ASSUME NEW d \in Clients PROVE ~ AwaitTask(d)
            BY <1>1 DEF AwaitTask, IInv, Types, Request
        <3>4. ASSUME NEW d \in Clients PROVE ~ BeginTrigger(d)
            BY <1>1 DEF BeginTrigger, IInv, Types, Request
        <3>5. ASSUME NEW d \in Clients PROVE ~ Shipped(d)
            BY <1>1 DEF Shipped, IInv, Types, Request
        <3>6. ASSUME NEW d \in Clients PROVE ~ EndTrigger(d)
            BY <1>1, <3>1 DEF EndTrigger, IInv, Queueing, Requests
        <3>7. ASSUME NEW t \in DOMAIN tasks PROVE ~ TaskEnds(t)
            BY <1>1 DEF TaskEnds
        <3>8. ASSUME NEW t \in DOMAIN tasks PROVE ~ TaskFails(t)
            BY <1>1 DEF TaskFails
        <3>9. ASSUME NEW d \in Clients, ResetEngine(d) PROVE d = c
            BY <3>9, <3>1 DEF ResetEngine
        <3> QED
            BY <1>1, <3>2, <3>3, <3>4, <3>5, <3>6, <3>7, <3>8, <3>9 DEF Next, RunLoop
    <2>2. CASE client[c].pc = "new"
        BY <2>1, <2>2 DEF ResetEngine, MayReset
    <2>3. CASE client[c].pc = "stopping"
        BY <1>1, <2>1, <2>3, HeadBusy DEF IInv, ResetEngine, Done
    <2> QED
        BY <2>1, <2>2, <2>3 DEF ResetEngine, MayReset
<1>2. ASSUME IInv, [Next]_vars
      PROVE  [\A c \in Clients :
                /\ client[c].pc # "idle" /\ client[c].op # "trigger"
                /\ client'[c].pc = "idle"
                => Done(IF client[c].pc = "new" THEN handle ELSE client[c].target)]_vars
    BY <1>1, <1>2
<1> QED
    BY <1>2, ControlInvariant, PTL DEF Spec, StopAwaitsItsTask
=============================================================================
