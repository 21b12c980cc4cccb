--------------------------- MODULE Topology_proofs ---------------------------
(***************************************************************************)
(* Proofs about Topology for any number of concurrent registrations, and   *)
(* any dependencies and types; and about TopologyEngine for any number of  *)
(* evaluations.                                                            *)
(***************************************************************************)
EXTENDS TopologyEngine, FiniteSetTheorems, TLAPS

Requests == [pc : {"select", "insert", "update", "failed"},
             edge : Dependencies, type : Types, found : SUBSET Row]

\* what makes the primary keys fresh and the table finite
KeysFresh == IsFiniteSet(rows) /\ \A row \in rows : row.id < nextId

\* Updating the type column keeps the other columns of every row.
LEMMA RetypedOK ==
    ASSUME NEW R \in SUBSET Row, NEW old \in Row, NEW type \in Types, R = rows
    PROVE  /\ Retyped(old, type) \subseteq Row
           /\ \A x \in Retyped(old, type) : \E y \in R :
                 /\ x.id = y.id /\ x.edge = y.edge
                 /\ x = IF y.id = old.id THEN [y EXCEPT !.type = type] ELSE y
<1>1. ASSUME NEW y \in R
      PROVE  LET x == IF y.id = old.id THEN [y EXCEPT !.type = type] ELSE y
             IN  x \in Row /\ x.id = y.id /\ x.edge = y.edge
    <2>1. y \in Row
        OBVIOUS
    <2> QED
        BY <2>1 DEF Row
<1>2. ASSUME NEW x \in Retyped(old, type)
      PROVE  \E y \in R : x = IF y.id = old.id THEN [y EXCEPT !.type = type] ELSE y
    BY <1>2 DEF Retyped
<1>3. ASSUME NEW x \in Retyped(old, type)
      PROVE  /\ x \in Row
             /\ \E y \in R :
                 /\ x.id = y.id /\ x.edge = y.edge
                 /\ x = IF y.id = old.id THEN [y EXCEPT !.type = type] ELSE y
    <2>1. PICK y \in R : x = IF y.id = old.id THEN [y EXCEPT !.type = type] ELSE y
        BY <1>2
    <2> QED
        BY <1>1, <2>1
<1> QED
    BY <1>3

\* A table never has more rows after an update than before.
LEMMA RetypedCardinality ==
    ASSUME NEW old \in Row, NEW type \in Types, NEW edge \in Dependencies,
           rows \subseteq Row, IsFiniteSet(rows), rows' = Retyped(old, type)
    PROVE  /\ IsFiniteSet(rows')
           /\ Cardinality(Rows(edge)') <= Cardinality(Rows(edge))
<1> DEFINE after(y) == IF y.id = old.id THEN [y EXCEPT !.type = type] ELSE y
           f == [y \in rows |-> after(y)]
           g == [y \in Rows(edge) |-> after(y)]
<1>1. rows' = {f[y] : y \in rows}
    BY DEF Retyped
<1>2. f \in Surjection(rows, rows')
    BY <1>1 DEF Surjection
<1>3. IsFiniteSet(rows')
    BY <1>2, FS_Surjection
<1>4. Rows(edge) \subseteq rows /\ IsFiniteSet(Rows(edge))
    BY FS_Subset DEF Rows
<1>5. Rows(edge)' = {g[y] : y \in Rows(edge)}
    <2>1. ASSUME NEW y \in rows PROVE after(y).edge = y.edge
        BY <2>1 DEF Row
    <2> QED
        BY <1>1, <2>1 DEF Rows
<1>6. g \in Surjection(Rows(edge), Rows(edge)')
    BY <1>5 DEF Surjection
<1> QED
    BY <1>3, <1>4, <1>6, FS_Surjection

Inv == TypeOK /\ KeysFresh

\* The state of one request is replaced by a well-formed one.
LEMMA CallOK ==
    ASSUME TypeOK, NEW r \in Registrars
    PROVE  /\ ~ At(r, "idle") => call[r] \in Requests
           /\ \A x \in {Idle} \cup Requests :
                  [call EXCEPT ![r] = x] \in [Registrars -> {Idle} \cup Requests]
BY DEF TypeOK, Requests, At, Idle

\* Every step keeps the type invariant and the freshness of keys.
LEMMA NextInv == Inv /\ [Next]_vars => Inv'
<1> SUFFICES ASSUME Inv, [Next]_vars PROVE Inv'
    OBVIOUS
<1> USE DEF Inv
<1>0. call \in [Registrars -> {Idle} \cup Requests]
    BY DEF TypeOK, Requests
<1>1. ASSUME NEW r \in Registrars, NEW edge \in Dependencies, NEW type \in Types,
             Register(r, edge, type)
      PROVE  Inv'
    <2>1. [pc |-> "select", edge |-> edge, type |-> type, found |-> {}] \in Requests
        BY DEF Requests
    <2> QED
        BY <1>1, <2>1, CallOK DEF Register, TypeOK, KeysFresh, Requests
<1>2. ASSUME NEW r \in Registrars, SelectRow(r) PROVE Inv'
    <2>1. call[r] \in Requests
        BY <1>2, CallOK DEF SelectRow, At
    <2> DEFINE found == Rows(call[r].edge)
               next == [pc |-> Branch(found), edge |-> call[r].edge,
                        type |-> call[r].type, found |-> found]
    <2>a. Branch(found) \in {"insert", "update", "failed"}
        BY DEF Branch
    <2>b. found \in SUBSET Row
        BY DEF Rows, TypeOK
    <2> HIDE DEF found
    <2>2. next \in Requests
        BY <2>1, <2>a, <2>b DEF Requests
    <2> USE DEF found
    <2>4. call' = [call EXCEPT ![r] = next]
        BY <1>2 DEF SelectRow
    <2> HIDE DEF next
    <2>5. call' \in [Registrars -> {Idle} \cup Requests]
        BY <2>2, <2>4, CallOK
    <2> QED
        BY <1>2, <2>5 DEF SelectRow, TypeOK, KeysFresh, Requests
<1>3. ASSUME NEW r \in Registrars, Insert(r) PROVE Inv'
    <2>1. call[r] \in Requests
        BY <1>3, CallOK DEF Insert, At
    <2> DEFINE new == [id |-> nextId, edge |-> call[r].edge, type |-> call[r].type]
    <2>2. new \in Row /\ nextId \in Nat
        BY <2>1 DEF Row, Requests, TypeOK
    <2>3. rows' = rows \cup {new} /\ nextId' = nextId + 1 /\ nextId < MaxRows
          /\ new.id = nextId
        BY <1>3 DEF Insert
    <2> HIDE DEF new
    <2>4. IsFiniteSet(rows')
        BY <2>3, FS_AddElement DEF KeysFresh
    <2>5. \A row \in rows : row.id \in Nat /\ row.id < nextId
        BY DEF KeysFresh, TypeOK, Row
    <2>6. \A row \in rows' : row.id < nextId'
        BY <2>2, <2>3, <2>5
    <2>7. \A x, y \in rows' : x.id = y.id => x = y
        BY <2>2, <2>3, <2>5 DEF TypeOK
    <2>8. call' \in [Registrars -> {Idle} \cup Requests]
        BY <1>3, CallOK DEF Insert
    <2>9. nextId' \in 0..MaxRows
        BY <2>2, <2>3, TopologyAssumption
    <2> QED
        BY <2>2, <2>3, <2>4, <2>6, <2>7, <2>8, <2>9
        DEF TypeOK, KeysFresh, Requests
<1>4. ASSUME NEW r \in Registrars, Update(r) PROVE Inv'
    <2>1. call[r] \in Requests
        BY <1>4, CallOK DEF Update, At
    <2>2. call' \in [Registrars -> {Idle} \cup Requests] /\ nextId' = nextId
        BY <1>4, CallOK DEF Update
    <2>3. CASE rows' = rows
        BY <2>2, <2>3 DEF TypeOK, KeysFresh, Requests
    <2>4. CASE rows' # rows
        <3>1. PICK old \in call[r].found : rows' = Retyped(old, call[r].type)
            BY <1>4, <2>4 DEF Update
        <3>2. old \in Row /\ call[r].type \in Types /\ call[r].edge \in Dependencies
            BY <2>1 DEF Requests
        <3>3. IsFiniteSet(rows')
            BY <3>1, <3>2, RetypedCardinality DEF TypeOK, KeysFresh
        <3>4. /\ rows' \subseteq Row
              /\ \A x \in rows' : \E y \in rows :
                   /\ x.id = y.id
                   /\ x = IF y.id = old.id THEN [y EXCEPT !.type = call[r].type] ELSE y
            BY <3>1, <3>2, RetypedOK DEF TypeOK
        <3>5. \A row \in rows' : row.id < nextId'
            BY <2>2, <3>4 DEF KeysFresh
        <3>6. \A x, y \in rows' : x.id = y.id => x = y
            <4> SUFFICES ASSUME NEW x \in rows', NEW y \in rows', x.id = y.id
                         PROVE  x = y
                OBVIOUS
            <4>1. PICK u \in rows :
                    /\ x.id = u.id
                    /\ x = IF u.id = old.id THEN [u EXCEPT !.type = call[r].type] ELSE u
                BY <3>4
            <4>2. PICK v \in rows :
                    /\ y.id = v.id
                    /\ y = IF v.id = old.id THEN [v EXCEPT !.type = call[r].type] ELSE v
                BY <3>4
            <4>3. u = v
                BY <4>1, <4>2 DEF TypeOK
            <4> QED
                BY <4>1, <4>2, <4>3
        <3> QED
            BY <2>2, <3>3, <3>4, <3>5, <3>6 DEF TypeOK, KeysFresh, Requests
    <2> QED
        BY <2>3, <2>4
<1>5. ASSUME NEW r \in Registrars, Fail(r) PROVE Inv'
    BY <1>5, CallOK DEF Fail, TypeOK, KeysFresh, Requests
<1>6. CASE UNCHANGED vars
    BY <1>6 DEF vars, TypeOK, KeysFresh
<1> QED
    BY <1>1, <1>2, <1>3, <1>4, <1>5, <1>6 DEF Next

\* The empty table is well-formed.
LEMMA InitInv == Init => Inv
BY TopologyAssumption, FS_EmptySet DEF Init, Inv, TypeOK, KeysFresh

\* The table is well-formed and its primary keys are unique, always.
THEOREM TopologyTypeOK == Spec => []TypeOK
<1>1. Inv => TypeOK
    BY DEF Inv
<1> QED
    BY <1>1, InitInv, NextInv, PTL DEF Spec
----------------------------------------------------------------------------
\* the requests about to insert are counted with the rows that are there
Reserved == \A edge \in Dependencies :
    Cardinality(Rows(edge)) + Cardinality(Inserting(edge)) <= Cardinality(Registrars)

\* The sets that Reserved counts are finite.
LEMMA CountsFinite ==
    ASSUME Inv, NEW edge \in Dependencies
    PROVE  /\ IsFiniteSet(Rows(edge)) /\ Cardinality(Rows(edge)) \in Nat
           /\ IsFiniteSet(Inserting(edge)) /\ Cardinality(Inserting(edge)) \in Nat
           /\ Cardinality(Inserting(edge)) <= Cardinality(Registrars)
           /\ Cardinality(Registrars) \in Nat
<1>1. Rows(edge) \subseteq rows /\ Inserting(edge) \subseteq Registrars
    BY DEF Rows, Inserting
<1> QED
    BY <1>1, FS_Subset, FS_CardinalityType, TopologyAssumption DEF Inv, KeysFresh

\* A step that inserts no row and starts no insertion keeps the count.
LEMMA ReservedShrinks ==
    ASSUME Inv, Inv', Reserved, NEW edge \in Dependencies,
           Cardinality(Rows(edge)') <= Cardinality(Rows(edge)),
           Inserting(edge)' \subseteq Inserting(edge)
    PROVE  Cardinality(Rows(edge)') + Cardinality(Inserting(edge)')
             <= Cardinality(Registrars)
<1>1. Cardinality(Inserting(edge)') <= Cardinality(Inserting(edge))
    BY CountsFinite, FS_Subset
<1>2. /\ Cardinality(Rows(edge)) \in Nat /\ Cardinality(Inserting(edge)) \in Nat
      /\ Cardinality(Registrars) \in Nat
      /\ Cardinality(Rows(edge)) + Cardinality(Inserting(edge)) <= Cardinality(Registrars)
    BY CountsFinite DEF Reserved
<1>3. Cardinality(Rows(edge)') \in Nat /\ Cardinality(Inserting(edge)') \in Nat
    <2>1. Rows(edge)' \subseteq rows' /\ Inserting(edge)' \subseteq Registrars
        BY DEF Rows, Inserting
    <2> QED
        BY <2>1, FS_Subset, FS_CardinalityType, TopologyAssumption DEF Inv, KeysFresh
<1> QED
    BY <1>1, <1>2, <1>3

\* Every step keeps the count: only a request that saw no row reserves one, and
\* then every reservation is one of the requests in progress.
LEMMA NextReserved == Inv /\ Inv' /\ Reserved /\ [Next]_vars => Reserved'
<1> SUFFICES ASSUME Inv, Inv', Reserved, [Next]_vars, NEW edge \in Dependencies
             PROVE  Cardinality(Rows(edge)') + Cardinality(Inserting(edge)')
                      <= Cardinality(Registrars)
    BY DEF Reserved
<1>0. call \in [Registrars -> {Idle} \cup Requests]
    BY DEF Inv, TypeOK, Requests
<1>a. ASSUME rows' = rows PROVE Rows(edge)' = Rows(edge)
    BY <1>a DEF Rows
<1>b. Cardinality(Rows(edge)) <= Cardinality(Rows(edge))
    BY CountsFinite
<1>1. ASSUME NEW r \in Registrars, call' = [call EXCEPT ![r] = Idle], rows' = rows
      PROVE  Cardinality(Rows(edge)') + Cardinality(Inserting(edge)')
               <= Cardinality(Registrars)
    <2>1. Inserting(edge)' \subseteq Inserting(edge)
        BY <1>0, <1>1 DEF Inserting, At, Idle
    <2> QED
        BY <1>1, <1>a, <1>b, <2>1, ReservedShrinks
<1>2. ASSUME NEW r \in Registrars, NEW e \in Dependencies, NEW type \in Types,
             Register(r, e, type)
      PROVE  Cardinality(Rows(edge)') + Cardinality(Inserting(edge)')
               <= Cardinality(Registrars)
    <2>1. Inserting(edge)' \subseteq Inserting(edge) /\ rows' = rows
        BY <1>0, <1>2 DEF Register, Inserting, At
    <2> QED
        BY <1>a, <1>b, <2>1, ReservedShrinks
<1>3. ASSUME NEW r \in Registrars, SelectRow(r)
      PROVE  Cardinality(Rows(edge)') + Cardinality(Inserting(edge)')
               <= Cardinality(Registrars)
    <2> DEFINE found == Rows(call[r].edge)
    <2>1. call[r] \in Requests /\ rows' = rows /\ call[r].pc = "select"
        BY <1>3, CallOK DEF SelectRow, At, Inv
    <2>3. call'[r].pc = Branch(found) /\ call'[r].edge = call[r].edge
          /\ \A q \in Registrars \ {r} : call'[q] = call[q]
        BY <1>3, <1>0 DEF SelectRow
    <2>4. CASE found = {} /\ call[r].edge = edge
        <3>1. Rows(edge) = {} /\ Rows(edge)' = {}
            BY <2>1, <2>4, <1>a
        <3>2. Cardinality(Rows(edge)') = 0
            BY <3>1, FS_EmptySet
        <3>3. /\ Inserting(edge)' \subseteq Registrars
              /\ Cardinality(Inserting(edge)') <= Cardinality(Registrars)
              /\ Cardinality(Inserting(edge)') \in Nat
            BY FS_Subset, FS_CardinalityType, TopologyAssumption DEF Inserting
        <3> QED
            BY <3>2, <3>3
    <2>5. CASE ~ (found = {} /\ call[r].edge = edge)
        <3>1. Inserting(edge)' \subseteq Inserting(edge)
            BY <2>3, <2>5 DEF Inserting, At, Branch
        <3> QED
            BY <1>a, <1>b, <2>1, <3>1, ReservedShrinks
    <2> QED
        BY <2>4, <2>5
<1>4. ASSUME NEW r \in Registrars, Insert(r)
      PROVE  Cardinality(Rows(edge)') + Cardinality(Inserting(edge)')
               <= Cardinality(Registrars)
    <2> DEFINE new == [id |-> nextId, edge |-> call[r].edge, type |-> call[r].type]
    <2>1. /\ rows' = rows \cup {new} /\ call' = [call EXCEPT ![r] = Idle]
          /\ new.edge = call[r].edge /\ call[r].pc = "insert"
        BY <1>4 DEF Insert, At
    <2> HIDE DEF new
    <2>2. Inserting(edge)' = Inserting(edge) \ {r}
        BY <1>0, <2>1 DEF Inserting, At, Idle
    <2>3. CASE call[r].edge = edge
        <3>1. Rows(edge)' = Rows(edge) \cup {new}
            BY <2>1, <2>3 DEF Rows
        <3>2. r \in Inserting(edge)
            BY <2>1, <2>3 DEF Inserting, At
        <3>3. /\ Cardinality(Rows(edge)') <= Cardinality(Rows(edge)) + 1
              /\ Cardinality(Rows(edge)') \in Nat
            <4>1. IsFiniteSet(Rows(edge)) /\ Cardinality(Rows(edge)) \in Nat
                BY CountsFinite
            <4>2. CASE new \in Rows(edge)
                <5>1. Rows(edge)' = Rows(edge)
                    BY <3>1, <4>2
                <5> QED
                    BY <4>1, <5>1
            <4>3. CASE new \notin Rows(edge)
                <5>1. Cardinality(Rows(edge)') = Cardinality(Rows(edge)) + 1
                    BY <3>1, <4>1, <4>3, FS_AddElement
                <5> QED
                    BY <4>1, <5>1
            <4> QED
                BY <4>2, <4>3
        <3>4. Cardinality(Inserting(edge)') = Cardinality(Inserting(edge)) - 1
            BY <2>2, <3>2, CountsFinite, FS_RemoveElement
        <3>5. Cardinality(Rows(edge)) + Cardinality(Inserting(edge)) <= Cardinality(Registrars)
            BY DEF Reserved
        <3> QED
            BY <3>3, <3>4, <3>5, CountsFinite
    <2>4. CASE call[r].edge # edge
        <3>1. Rows(edge)' = Rows(edge)
            BY <2>1, <2>4 DEF Rows
        <3> QED
            BY <1>b, <2>2, <3>1, ReservedShrinks
    <2> QED
        BY <2>3, <2>4
<1>5. ASSUME NEW r \in Registrars, Update(r)
      PROVE  Cardinality(Rows(edge)') + Cardinality(Inserting(edge)')
               <= Cardinality(Registrars)
    <2>1. call' = [call EXCEPT ![r] = Idle]
        BY <1>5 DEF Update
    <2>2. CASE rows' # rows
        <3>1. PICK old \in call[r].found : rows' = Retyped(old, call[r].type)
            BY <1>5, <2>2 DEF Update
        <3>2. call[r] \in Requests
            BY <1>5, CallOK DEF Update, At, Inv
        <3>3. old \in Row /\ call[r].type \in Types
            BY <3>2 DEF Requests
        <3>4. Cardinality(Rows(edge)') <= Cardinality(Rows(edge))
            BY <3>1, <3>3, RetypedCardinality DEF Inv, TypeOK, KeysFresh
        <3>5. Inserting(edge)' \subseteq Inserting(edge)
            BY <1>0, <2>1 DEF Inserting, At, Idle
        <3> QED
            BY <3>4, <3>5, ReservedShrinks
    <2> QED
        BY <1>1, <2>1, <2>2
<1>6. ASSUME NEW r \in Registrars, Fail(r)
      PROVE  Cardinality(Rows(edge)') + Cardinality(Inserting(edge)')
               <= Cardinality(Registrars)
    BY <1>1, <1>6 DEF Fail
<1>7. CASE UNCHANGED vars
    <2>1. Inserting(edge)' = Inserting(edge) /\ rows' = rows
        BY <1>7 DEF vars, Inserting, At
    <2> QED
        BY <1>a, <1>b, <2>1, ReservedShrinks
<1> QED
    BY <1>2, <1>3, <1>4, <1>5, <1>6, <1>7 DEF Next

\* A race leaves at most as many rows of one edge as requests can overlap.
THEOREM DuplicatesAreBounded == Spec => []DuplicatesBounded
<1>1. Init => Reserved
    <2> SUFFICES ASSUME Init, NEW edge \in Dependencies
                 PROVE  Cardinality(Rows(edge)) + Cardinality(Inserting(edge))
                          <= Cardinality(Registrars)
        BY DEF Reserved
    <2>1. Rows(edge) = {} /\ Inserting(edge) = {}
        BY DEF Init, Rows, Inserting, At, Idle
    <2> QED
        BY <2>1, FS_EmptySet, FS_CardinalityType, TopologyAssumption
<1>2. Inv /\ Reserved => DuplicatesBounded
    <2> SUFFICES ASSUME Inv, Reserved, NEW edge \in Dependencies
                 PROVE  Cardinality(Rows(edge)) <= Cardinality(Registrars)
        BY DEF DuplicatesBounded
    <2> QED
        BY CountsFinite DEF Reserved
<1> QED
    BY <1>1, <1>2, InitInv, NextInv, NextReserved, PTL DEF Spec
----------------------------------------------------------------------------
\* Every step of the engine is a step of the registrations or leaves them alone.
LEMMA EngineStepsRegister == [EngineNext]_engineVars => [Next]_vars
BY DEF EngineNext, engineVars, vars, Next, Succeed, Proceed, ReadTable, LoadGraph,
       EndEvaluation

\* The registrations of TopologyEngine are those of Topology.
THEOREM EngineRegisters == EngineSpec => Spec
<1>1. EngineInit => Init
    BY DEF EngineInit
<1> QED
    BY <1>1, EngineStepsRegister, PTL DEF EngineSpec, Spec

\* A request that will update a row has found one of its edge in the table.
FoundStored == \A r \in Registrars : At(r, "update") => call[r].edge \in Stored

\* No step takes an edge out of the table, and what is inserted is in it.
LEMMA EdgesStay ==
    ASSUME Inv, FoundStored, [Next]_vars
    PROVE  /\ Stored \subseteq Stored'
           /\ FoundStored'
           /\ \A r \in Registrars : Insert(r) \/ Update(r) => call[r].edge \in Stored'
<1>0. call \in [Registrars -> {Idle} \cup Requests]
    BY DEF Inv, TypeOK, Requests
<1> DEFINE Goal == /\ Stored \subseteq Stored'
                   /\ FoundStored'
                   /\ \A r \in Registrars :
                         Insert(r) \/ Update(r) => call[r].edge \in Stored'
<1>a. ASSUME Stored \subseteq Stored',
             NEW r \in Registrars,
             \A q \in Registrars \ {r} : call'[q] = call[q],
             call'[r].pc = "update" => call'[r].edge \in Stored'
      PROVE  FoundStored'
    BY <1>a DEF FoundStored, At
<1>b. \A r \in Registrars : Insert(r) => call[r].edge \in Stored'
    <2> SUFFICES ASSUME NEW r \in Registrars, Insert(r) PROVE call[r].edge \in Stored'
        OBVIOUS
    <2>1. [id |-> nextId, edge |-> call[r].edge, type |-> call[r].type] \in rows'
        BY DEF Insert
    <2> QED
        BY <2>1 DEF Stored
<1>c. ASSUME Stored \subseteq Stored'
      PROVE  \A r \in Registrars : Update(r) => call[r].edge \in Stored'
    BY <1>c DEF FoundStored, Update
<1>d. ASSUME Stored \subseteq Stored', FoundStored' PROVE Goal
    BY <1>b, <1>c, <1>d
<1>1. ASSUME NEW r \in Registrars, NEW edge \in Dependencies, NEW type \in Types,
             Register(r, edge, type)
      PROVE  Goal
    <2>1. Stored' = Stored
        BY <1>1 DEF Register, Stored
    <2>2. call'[r].pc = "select" /\ \A q \in Registrars \ {r} : call'[q] = call[q]
        BY <1>0, <1>1 DEF Register
    <2> HIDE DEF Goal
    <2> QED
        BY <1>a, <1>d, <2>1, <2>2
<1>2. ASSUME NEW r \in Registrars, SelectRow(r) PROVE Goal
    <2>1. Stored' = Stored
        BY <1>2 DEF SelectRow, Stored
    <2> DEFINE found == Rows(call[r].edge)
    <2>2. /\ call'[r].pc = Branch(found) /\ call'[r].edge = call[r].edge
          /\ \A q \in Registrars \ {r} : call'[q] = call[q]
        BY <1>0, <1>2 DEF SelectRow
    <2>3. Branch(found) = "update" => found # {}
        BY DEF Branch
    <2>4. found # {} => call[r].edge \in Stored
        BY DEF Rows, Stored
    <2> HIDE DEF Goal
    <2> QED
        BY <1>a, <1>d, <2>1, <2>2, <2>3, <2>4
<1>3. ASSUME NEW r \in Registrars, Insert(r) PROVE Goal
    <2>1. Stored \subseteq Stored'
        BY <1>3 DEF Insert, Stored
    <2>2. call'[r].pc = "idle" /\ \A q \in Registrars \ {r} : call'[q] = call[q]
        BY <1>0, <1>3 DEF Insert, Idle
    <2> HIDE DEF Goal
    <2> QED
        BY <1>a, <1>d, <2>1, <2>2
<1>4. ASSUME NEW r \in Registrars, Update(r) PROVE Goal
    <2>1. Stored \subseteq Stored'
        <3>1. CASE rows' = rows
            BY <3>1 DEF Stored
        <3>2. CASE rows' # rows
            <4>1. PICK old \in call[r].found : rows' = Retyped(old, call[r].type)
                BY <1>4, <3>2 DEF Update
            <4>2. ASSUME NEW row \in rows PROVE row.edge \in Stored'
                <5> DEFINE after == IF row.id = old.id
                                    THEN [row EXCEPT !.type = call[r].type] ELSE row
                <5>1. after \in rows'
                    BY <4>1 DEF Retyped
                <5>2. after.edge = row.edge
                    BY <4>2 DEF Inv, TypeOK, Row
                <5> QED
                    BY <5>1, <5>2 DEF Stored
            <4> QED
                BY <4>2 DEF Stored
        <3> QED
            BY <3>1, <3>2
    <2>2. call'[r].pc = "idle" /\ \A q \in Registrars \ {r} : call'[q] = call[q]
        BY <1>0, <1>4 DEF Update, Idle
    <2> HIDE DEF Goal
    <2> QED
        BY <1>a, <1>d, <2>1, <2>2
<1>5. ASSUME NEW r \in Registrars, Fail(r) PROVE Goal
    <2>1. Stored' = Stored
        BY <1>5 DEF Fail, Stored
    <2>2. call'[r].pc = "idle" /\ \A q \in Registrars \ {r} : call'[q] = call[q]
        BY <1>0, <1>5 DEF Fail, Idle
    <2> HIDE DEF Goal
    <2> QED
        BY <1>a, <1>d, <2>1, <2>2
<1>6. ASSUME UNCHANGED vars PROVE Goal
    <2>1. Stored' = Stored /\ FoundStored'
        BY <1>6 DEF vars, Stored, FoundStored, At
    <2>2. Stored \subseteq Stored'
        BY <2>1
    <2> HIDE DEF Goal
    <2> QED
        BY <1>d, <2>1, <2>2
<1> QED
    BY <1>1, <1>2, <1>3, <1>4, <1>5, <1>6 DEF Next

\* what an evaluation must find on its way from the table to the graph
KnownKept ==
    /\ registered \subseteq Stored
    /\ DOMAIN eval = Evaluations
    /\ \A e \in Evaluations :
        /\ eval[e].pc = "load" => eval[e].known \subseteq eval[e].read
        /\ eval[e].pc = "search" => eval[e].known \subseteq graph

\* Registrations leave the graph and the evaluations alone, and an evaluation
\* passes on what it read: the graph only grows.
LEMMA NextKnown ==
    ASSUME Inv, FoundStored, KnownKept, [EngineNext]_engineVars
    PROVE  KnownKept'
<1>0. Stored \subseteq Stored' /\ \A r \in Registrars :
          Insert(r) \/ Update(r) => call[r].edge \in Stored'
    BY EngineStepsRegister, EdgesStay
<1>1. ASSUME NEW r \in Registrars, Succeed(r) PROVE KnownKept'
    BY <1>0, <1>1 DEF Succeed, KnownKept
<1>2. ASSUME NEW r \in Registrars, Proceed(r) PROVE KnownKept'
    BY <1>0, <1>2 DEF Proceed, KnownKept
<1>3. ASSUME NEW e \in Evaluations, ReadTable(e) PROVE KnownKept'
    <2>1. eval'[e].pc = "load" /\ eval'[e].read = Stored /\ eval'[e].known = registered
        BY <1>3 DEF ReadTable, KnownKept
    <2>2. /\ \A d \in Evaluations \ {e} : eval'[d] = eval[d]
          /\ DOMAIN eval' = Evaluations
          /\ graph' = graph /\ registered' = registered
        BY <1>3 DEF ReadTable, KnownKept
    <2> QED
        BY <1>0, <2>1, <2>2 DEF KnownKept
<1>4. ASSUME NEW e \in Evaluations, LoadGraph(e) PROVE KnownKept'
    <2>1. eval'[e].pc = "search" /\ eval'[e].known = eval[e].known
        BY <1>4 DEF LoadGraph, KnownKept
    <2>2. /\ \A d \in Evaluations \ {e} : eval'[d] = eval[d]
          /\ DOMAIN eval' = Evaluations
          /\ graph' = graph \cup eval[e].read /\ registered' = registered
          /\ eval[e].known \subseteq eval[e].read
        BY <1>4 DEF LoadGraph, KnownKept, Loaded
    <2> QED
        BY <1>0, <2>1, <2>2 DEF KnownKept
<1>5. ASSUME NEW e \in Evaluations, EndEvaluation(e) PROVE KnownKept'
    <2>1. /\ eval'[e].pc = "idle"
          /\ \A d \in Evaluations \ {e} : eval'[d] = eval[d]
          /\ DOMAIN eval' = Evaluations
          /\ graph' = graph /\ registered' = registered
        BY <1>5 DEF EndEvaluation, KnownKept, NoEval
    <2> QED
        BY <1>0, <2>1 DEF KnownKept
<1>6. CASE UNCHANGED engineVars
    BY <1>0, <1>6 DEF engineVars, KnownKept
<1> QED
    BY <1>1, <1>2, <1>3, <1>4, <1>5, <1>6 DEF EngineNext

\* What was registered before an evaluation began is in the graph it searches.
THEOREM SearchesSeeRegistered == EngineSpec => []SearchSeesRegistered
<1>1. EngineInit => Inv /\ FoundStored /\ KnownKept
    <2> SUFFICES ASSUME EngineInit PROVE FoundStored /\ KnownKept
        BY InitInv DEF EngineInit
    <2>1. FoundStored
        BY DEF EngineInit, Init, FoundStored, At, Idle
    <2>2. KnownKept
        BY DEF EngineInit, KnownKept, NoEval
    <2> QED
        BY <2>1, <2>2
<1>2. Inv /\ FoundStored /\ KnownKept /\ [EngineNext]_engineVars
        => (Inv /\ FoundStored /\ KnownKept)'
    <2> SUFFICES ASSUME Inv, FoundStored, KnownKept, [EngineNext]_engineVars
                 PROVE  Inv' /\ FoundStored' /\ KnownKept'
        OBVIOUS
    <2>1. [Next]_vars
        BY EngineStepsRegister
    <2> QED
        BY <2>1, NextInv, EdgesStay, NextKnown
<1>3. KnownKept => SearchSeesRegistered
    BY DEF KnownKept, SearchSeesRegistered
<1> QED
    BY <1>1, <1>2, <1>3, PTL DEF EngineSpec
============================================================================
