------------------------------ MODULE Topology ------------------------------
(***************************************************************************)
(* The registration of service dependencies: concurrent requests, each a   *)
(* database session that selects the row of its edge and then inserts one  *)
(* or updates it.  The table has no unique constraint and a SELECT takes   *)
(* no lock.                                                                *)
(***************************************************************************)
EXTENDS Naturals, FiniteSets

CONSTANTS Registrars,   \* the requests that may be in progress at a time
          Dependencies, \* pairs of a source and a target service
          Types,        \* dependency types
          MaxRows       \* bound: rows ever inserted

ASSUME TopologyAssumption ==
    IsFiniteSet(Registrars) /\ Registrars # {} /\ MaxRows \in Nat

VARIABLES
    rows,   \* the table service_dependencies
    nextId, \* the primary key of the next row
    call    \* [Registrars -> the request in progress]

vars == <<rows, nextId, call>>

Row == [id : Nat, edge : Dependencies, type : Types]
Rows(edge) == {row \in rows : row.edge = edge}

Idle == [pc |-> "idle"]
At(r, pc) == call[r].pc = pc

Init == /\ rows = {} /\ nextId = 0
        /\ call = [r \in Registrars |-> Idle]

Register(r, edge, type) ==
    /\ At(r, "idle")
    /\ call' = [call EXCEPT ![r] =
           [pc |-> "select", edge |-> edge, type |-> type, found |-> {}]]
    /\ UNCHANGED <<rows, nextId>>

Branch_Blind(found) == "insert"   \* mutant: ignores the row it found
Branch(found) == IF found = {} THEN "insert"
                 ELSE IF Cardinality(found) = 1 THEN "update" ELSE "failed"

\* scalar_one_or_none: no row, the row, or an error when there are several
SelectRow(r) ==
    /\ At(r, "select")
    /\ LET found == Rows(call[r].edge)
       IN  call' = [call EXCEPT ![r] =
               [pc |-> Branch(found), edge |-> call[r].edge,
                type |-> call[r].type, found |-> found]]
    /\ UNCHANGED <<rows, nextId>>

Insert(r) ==
    /\ At(r, "insert") /\ nextId < MaxRows
    /\ rows' = rows \cup
           {[id |-> nextId, edge |-> call[r].edge, type |-> call[r].type]}
    /\ nextId' = nextId + 1
    /\ call' = [call EXCEPT ![r] = Idle]

Retyped_Added(old, type) == rows \cup {[old EXCEPT !.type = type]}   \* mutant
Retyped(old, type) ==
    {IF row.id = old.id THEN [row EXCEPT !.type = type] ELSE row : row \in rows}

\* the session writes the column only when it differs from the row it loaded
Update(r) ==
    /\ At(r, "update")
    /\ \E old \in call[r].found :
           rows' = IF old.type = call[r].type THEN rows ELSE Retyped(old, call[r].type)
    /\ call' = [call EXCEPT ![r] = Idle]
    /\ UNCHANGED nextId

\* MultipleResultsFound, or any failure of the session
Fail(r) ==
    /\ call[r].pc \in {"select", "insert", "update", "failed"}
    /\ call' = [call EXCEPT ![r] = Idle]
    /\ UNCHANGED <<rows, nextId>>

Next == \E r \in Registrars :
    \/ \E edge \in Dependencies, type \in Types : Register(r, edge, type)
    \/ SelectRow(r) \/ Insert(r) \/ Update(r) \/ Fail(r)

Spec == Init /\ [][Next]_vars
----------------------------------------------------------------------------
\* The type invariant; the primary key identifies a row.
TypeOK ==
    /\ rows \subseteq Row /\ nextId \in 0..MaxRows
    /\ \A x, y \in rows : x.id = y.id => x = y
    /\ call \in [Registrars -> {Idle} \cup
           [pc : {"select", "insert", "update", "failed"},
            edge : Dependencies, type : Types, found : SUBSET Row]]

\* The requests that have seen no row of an edge and will insert one.
Inserting(edge) == {r \in Registrars : At(r, "insert") /\ call[r].edge = edge}

\* A race leaves at most one row per request that can be in progress at once:
\* once an edge has a row, every later request finds it.
DuplicatesBounded ==
    \A edge \in Dependencies :
        Cardinality(Rows(edge)) <= Cardinality(Registrars)
============================================================================
