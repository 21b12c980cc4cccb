------------------------- MODULE SimulationControl -------------------------
(***************************************************************************)
(* The simulation engine: start, stop and trigger requests that overlap in *)
(* one asyncio event loop, and the background tasks that generate traffic. *)
(* ready is the loop's queue of work that can go on; one step runs the     *)
(* head of it up to its next suspension.                                   *)
(***************************************************************************)
EXTENDS Naturals, Sequences, Functions

CONSTANTS Clients,      \* callers of the control API, one request each at a time
          MaxRequests,  \* bound: control requests
          None

ASSUME ControlAssumption == MaxRequests \in Nat /\ None \notin Nat

VARIABLES
    status,     \* SimulationEngine.status
    handle,     \* SimulationEngine._background_task: a task number or None
    activeRun,  \* SimulationEngine.active_run_id: its client or None
    tasks,      \* the state of every background task ever created
    client,     \* [Clients -> its request in progress]
    waiting,    \* the clients that await each task, first come first
    ready,      \* the event loop's queue: clients and numbers of tasks
    issued,     \* requests so far
    overlap     \* history: two requests have been in progress at a time

vars == <<status, handle, activeRun, tasks, client, waiting, ready, issued, overlap>>

Ops      == {"start", "stop", "trigger"}
NoReq    == [pc |-> "idle", op |-> "stop", target |-> None, prev |-> "IDLE"]
OfClient(c) == [kind |-> "client", of |-> c]
OfTask(t)   == [kind |-> "task", of |-> t]
IsNext(e) == ready # <<>> /\ Head(ready) = e

Live_NotDone(t) == t # None /\ tasks[t] # "done"  \* mutant: wakes it twice
Live(t) == t # None /\ tasks[t] = "live"
Done(t) == t # None => tasks[t] = "done"

Init == /\ status = "IDLE" /\ handle = None /\ activeRun = None /\ tasks = <<>>
        /\ client = [c \in Clients |-> NoReq]
        /\ waiting = <<>> /\ ready = <<>> /\ issued = 0 /\ overlap = FALSE

Arrive(c, op) ==
    /\ client[c].pc = "idle" /\ issued < MaxRequests
    /\ client' = [client EXCEPT ![c] = [NoReq EXCEPT !.pc = "new", !.op = op]]
    /\ ready' = Append(ready, OfClient(c))
    /\ issued' = issued + 1
    /\ overlap' = (overlap \/ \E d \in Clients : client[d].pc # "idle")
    /\ UNCHANGED <<status, handle, activeRun, tasks, waiting>>
----------------------------------------------------------------------------
(***************************************************************************)
(* stop, and start_steady_state, which runs stop first.  Awaiting a task   *)
(* that is done does not suspend; a cancelled one ends at its next turn.   *)
(***************************************************************************)
Cancelled == [tasks EXCEPT ![handle] = "cancelled"]

AwaitTask(c) ==
    /\ IsNext(OfClient(c))
    /\ client[c].pc = "new" /\ client[c].op \in {"start", "stop"}
    /\ ~ Done(handle)
    /\ tasks' = Cancelled
    /\ ready' = Tail(ready) \o (IF Live(handle) THEN <<OfTask(handle)>> ELSE <<>>)
    /\ client' = [client EXCEPT ![c].pc = "stopping", ![c].target = handle]
    /\ waiting' = [waiting EXCEPT ![handle] = Append(@, c)]
    /\ UNCHANGED <<status, handle, activeRun, issued, overlap>>

MayReset_Early(c) ==   \* mutant: resets without awaiting the task
    client[c].pc \in {"new", "stopping"} /\ client[c].op \in {"start", "stop"}
MayReset(c) ==
    \/ client[c].pc = "new" /\ client[c].op \in {"start", "stop"} /\ Done(handle)
    \/ client[c].pc = "stopping"

\* the part after the await: the handle is overwritten, whatever it is now
ResetEngine(c) ==
    /\ IsNext(OfClient(c))
    /\ MayReset(c)
    /\ IF client[c].op = "start"
       THEN /\ tasks' = Append(tasks, "live") /\ handle' = Len(tasks) + 1
            /\ waiting' = Append(waiting, <<>>) /\ status' = "STEADY_STATE"
       ELSE handle' = None /\ status' = "IDLE" /\ UNCHANGED <<tasks, waiting>>
    /\ activeRun' = None
    /\ client' = [client EXCEPT ![c] = NoReq]
    /\ ready' = Tail(ready)
    /\ UNCHANGED <<issued, overlap>>

Woken_First(t) == SubSeq(waiting[t], 1, 1)   \* mutant: wakes one of them
Woken(t) == waiting[t]

\* the CancelledError reaches _steady_state_loop, which returns
TaskEnds(t) ==
    /\ IsNext(OfTask(t)) /\ tasks[t] = "cancelled"
    /\ tasks' = [tasks EXCEPT ![t] = "done"]
    /\ ready' = Tail(ready) \o [i \in DOMAIN Woken(t) |-> OfClient(Woken(t)[i])]
    /\ waiting' = [waiting EXCEPT ![t] = <<>>]
    /\ UNCHANGED <<status, handle, activeRun, client, issued, overlap>>

\* any other exception ends the loop as well, and nothing else learns of it:
\* only a cancelled task is awaited
TaskFails(t) ==
    /\ Live(t)
    /\ tasks' = [tasks EXCEPT ![t] = "done"]
    /\ UNCHANGED <<status, handle, activeRun, client, waiting, ready, issued, overlap>>
----------------------------------------------------------------------------
(***************************************************************************)
(* trigger_scenario: the status before it is put back when the batch is    *)
(* shipped, or when shipping it failed.                                    *)
(***************************************************************************)
BeginTrigger(c) ==
    /\ IsNext(OfClient(c))
    /\ client[c].pc = "new" /\ client[c].op = "trigger"
    /\ status' = "INJECTING_FAILURE"
    /\ activeRun' = c
    /\ client' = [client EXCEPT ![c].pc = "shipping", ![c].prev = status]
    /\ ready' = Tail(ready)
    /\ UNCHANGED <<handle, tasks, waiting, issued, overlap>>

Shipped(c) ==
    /\ client[c].pc = "shipping"
    /\ client' = [client EXCEPT ![c].pc = "shipped"]
    /\ ready' = Append(ready, OfClient(c))
    /\ UNCHANGED <<status, handle, activeRun, tasks, waiting, issued, overlap>>

Restored_Idle(c) == "IDLE"   \* mutant: does not put the status back
Restored(c) == client[c].prev

EndTrigger(c) ==
    /\ IsNext(OfClient(c))
    /\ client[c].pc = "shipped"
    /\ status' = Restored(c)
    /\ activeRun' = None
    /\ client' = [client EXCEPT ![c] = NoReq]
    /\ ready' = Tail(ready)
    /\ UNCHANGED <<handle, tasks, waiting, issued, overlap>>
----------------------------------------------------------------------------
RunLoop == \/ \E c \in Clients : \/ AwaitTask(c) \/ ResetEngine(c)
                                 \/ BeginTrigger(c) \/ EndTrigger(c)
           \/ \E t \in DOMAIN tasks : TaskEnds(t)

Next == \/ \E c \in Clients, op \in Ops : Arrive(c, op)
        \/ \E c \in Clients : Shipped(c)
        \/ \E t \in DOMAIN tasks : TaskFails(t)
        \/ RunLoop

Spec == Init /\ [][Next]_vars

\* the event loop runs what is ready; a post ends (the client has a timeout)
FairSpec == Spec /\ WF_vars(RunLoop) /\ \A c \in Clients : WF_vars(Shipped(c))
----------------------------------------------------------------------------
\* The type invariant of the engine and of the requests in progress; nothing
\* is queued twice in the event loop.
TypeOK ==
    /\ status \in {"IDLE", "STEADY_STATE", "INJECTING_FAILURE"}
    /\ handle \in DOMAIN tasks \cup {None} /\ activeRun \in Clients \cup {None}
    /\ tasks \in Seq({"live", "cancelled", "done"})
    /\ \A c \in Clients :
        /\ client[c].pc \in {"idle", "new", "stopping", "shipping", "shipped"}
        /\ client[c].op \in Ops /\ client[c].target \in DOMAIN tasks \cup {None}
    /\ IsInjective(ready) /\ DOMAIN waiting = DOMAIN tasks
    /\ \A t \in DOMAIN tasks :
        IsInjective(waiting[t]) /\ Range(waiting[t]) \subseteq Clients
    /\ issued \in 0..MaxRequests /\ overlap \in BOOLEAN

\* As long as requests never overlapped, every task that generates traffic is
\* the one the engine can cancel, so that stop "halts all active traffic
\* generation".
NoOrphans == ~ overlap => \A t \in DOMAIN tasks : Live(t) => handle = t

Quiet == ready = <<>> /\ \A c \in Clients : client[c].pc = "idle"

\* As long as requests never overlapped, no traffic is hidden: the status the
\* API reports between them is steady state while any task generates traffic,
\* and from a start that was answered to the next stop.  (It stays so when the
\* loop of the task has ended by an exception.)
StatusShowsTraffic ==
    ~ overlap /\ Quiet =>
        /\ (\E t \in DOMAIN tasks : Live(t)) => status = "STEADY_STATE"
        /\ status = IF handle = None THEN "IDLE" ELSE "STEADY_STATE"

\* However the requests overlap, a stop or a start does not return before the
\* task it found has ended, be it the one that cancelled it or a later one.
StopAwaitsItsTask ==
    [][\A c \in Clients :
        /\ client[c].pc # "idle" /\ client[c].op # "trigger"
        /\ client'[c].pc = "idle"
        => Done(IF client[c].pc = "new" THEN handle ELSE client[c].target)]_vars

\* No request waits for ever: a cancelled task wakes all who await it.
RequestsEnd == \A c \in Clients : client[c].pc # "idle" ~> client[c].pc = "idle"
============================================================================
