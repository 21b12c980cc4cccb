---------------------------- MODULE LogDelivery ----------------------------
(***************************************************************************)
(* What the ingestion pipeline promises the clients of one tenant, without *)
(* queues, workers or requests.  A log the system has taken in is live     *)
(* until it is stored under its content hash, discarded by an operator, or *)
(* lost in an interruption, which loses no more than a set of Losable.     *)
(***************************************************************************)
EXTENDS Naturals

CONSTANTS Logs, ContentHash,
          Losable     \* the sets of logs one interruption may lose

VARIABLES live, stored, accepted, discarded, failures

vars == <<live, stored, accepted, discarded, failures>>

HashesOf(S) == {ContentHash[l] : l \in S}

Init == /\ live = {} /\ stored = {} /\ accepted = {} /\ discarded = {}
        /\ failures = 0

\* a request is answered 202: all of its logs are in the system
Accept(B) ==
    /\ UNCHANGED <<stored, discarded, failures>>
    /\ accepted' = accepted \cup B
    /\ live' = live \cup B

\* a batch is written; copies of its logs may still be live elsewhere
Store(B) ==
    /\ UNCHANGED <<accepted, discarded, failures>>
    /\ stored' = stored \cup HashesOf(B)
    /\ B \subseteq live
    /\ live' \subseteq live
    /\ live \ B \subseteq live'

Discard(l) ==
    /\ UNCHANGED <<stored, accepted, failures>>
    /\ discarded' = discarded \cup {l}
    /\ live' \in {live, live \ {l}}

\* an operator puts a log back, even one that another request already moved
Replay(l) ==
    /\ UNCHANGED <<stored, accepted, discarded, failures>>
    /\ live' = live \cup {l}

\* a process or a command dies: the logs of B are gone, some of them after
\* they were stored; or a request that was never answered has left its logs
Interrupt(B) ==
    /\ failures' = failures + 1
    /\ UNCHANGED <<accepted, discarded>>
    /\ \/ /\ B \in Losable
          /\ live' \subseteq live
          /\ live \ B \subseteq live'
          /\ \E S \in SUBSET (B \cap live) : stored' = stored \cup HashesOf(S)
       \/ UNCHANGED stored /\ live' = live \cup B

Next == \/ \E B \in SUBSET Logs : Accept(B) \/ Store(B) \/ Interrupt(B)
        \/ \E l \in Logs : Discard(l) \/ Replay(l)

Spec == Init /\ [][Next]_vars
============================================================================
