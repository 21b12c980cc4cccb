------------------------ MODULE TenantPolling_proofs ------------------------
(***************************************************************************)
(* Proofs about TenantPolling for any tenants, workers, batch size, list   *)
(* lengths and reading of the tenant ids off the keys: the logs of a       *)
(* tenant leave its queue and the workers' hands only with a cycle of its  *)
(* own, a batch at most.                                                   *)
(***************************************************************************)
EXTENDS TenantPolling, FiniteSetTheorems, TLAPS

Counts == [Tenants -> Nat]

State == [pc : {"sleep", "scan", "pop", "write"}, due : SUBSET Tenants,
          seen : SUBSET Tenants, tenant : Tenants \cup {Nobody}, batch : 0..BatchSize]

Types == queue \in Counts /\ worker \in [Workers -> State]

\* a worker has a batch only in a cycle, and a cycle is of a tenant
Cycles == \A w \in Workers :
    /\ worker[w].pc \in {"sleep", "scan"} => worker[w].batch = 0
    /\ worker[w].pc \in {"pop", "write"} => worker[w].tenant \in Tenants

\* a sum over the workers, as the number of pairs of a worker and an item
Items(f) == UNION {{w} \X (1..f[w]) : w \in Workers}
Sum(f) == Cardinality(Items(f))

Hands(states, t) ==
    [w \in Workers |-> IF states[w].tenant = t THEN states[w].batch ELSE 0]

\* the same but for what the scan has still to return
Alike(a, b) == a.pc = b.pc /\ a.tenant = b.tenant /\ a.batch = b.batch

IInv == Types /\ Cycles
----------------------------------------------------------------------------
(***************************************************************************)
(* Sums over the workers.                                                  *)
(***************************************************************************)
\* The items of one worker are as many as its function value.
LEMMA OneWorker ==
    ASSUME NEW w, NEW n \in Nat
    PROVE  IsFiniteSet({w} \X (1..n)) /\ Cardinality({w} \X (1..n)) = n
<1>1. IsFiniteSet({w}) /\ Cardinality({w}) = 1
    BY FS_Singleton
<1>2. IsFiniteSet(1..n) /\ Cardinality(1..n) = n
    BY FS_Interval
<1>3. /\ IsFiniteSet({w} \X (1..n))
      /\ Cardinality({w} \X (1..n)) = Cardinality({w}) * Cardinality(1..n)
    BY <1>1, <1>2, FS_Product
<1> QED
    BY <1>1, <1>2, <1>3

\* The items are finitely many.
LEMMA ItemsFinite ==
    ASSUME NEW f \in [Workers -> Nat]
    PROVE  IsFiniteSet(Items(f)) /\ Sum(f) \in Nat
<1> DEFINE S == {{w} \X (1..f[w]) : w \in Workers}
           g == [w \in Workers |-> {w} \X (1..f[w])]
<1>1. IsFiniteSet(Workers)
    BY PollingAssumption
<1>2. g \in Surjection(Workers, S)
    BY DEF Surjection
<1>3. \A T \in S : IsFiniteSet(T)
    <2> SUFFICES ASSUME NEW w \in Workers PROVE IsFiniteSet({w} \X (1..f[w]))
        OBVIOUS
    <2> QED
        BY OneWorker
<1> HIDE DEF g, S
<1>4. IsFiniteSet(S)
    BY <1>1, <1>2, FS_Surjection
<1>5. IsFiniteSet(UNION S)
    BY <1>3, <1>4, FS_UNION
<1> QED
    BY <1>5, FS_CardinalityType DEF S, Items, Sum

\* When one worker's value changes, the sum changes with it.
LEMMA SumChanges ==
    ASSUME NEW f \in [Workers -> Nat], NEW g \in [Workers -> Nat], NEW w \in Workers,
           \A v \in Workers : v # w => g[v] = f[v]
    PROVE  Sum(g) + f[w] = Sum(f) + g[w]
<1> DEFINE rest == UNION {{v} \X (1..f[v]) : v \in Workers \ {w}}
           F == {w} \X (1..f[w])
           G == {w} \X (1..g[w])
<1>1. Items(f) = rest \cup F /\ rest \cap F = {}
    BY DEF Items
<1>2. Items(g) = rest \cup G /\ rest \cap G = {}
    BY DEF Items
<1>3. /\ IsFiniteSet(F) /\ Cardinality(F) = f[w]
      /\ IsFiniteSet(G) /\ Cardinality(G) = g[w]
    BY OneWorker
<1> HIDE DEF rest, F, G
<1>4. IsFiniteSet(rest) /\ Cardinality(rest) \in Nat
    <2>1. rest \subseteq Items(f) /\ IsFiniteSet(Items(f))
        BY <1>1, ItemsFinite
    <2> QED
        BY <2>1, FS_Subset, FS_CardinalityType
<1>5. Cardinality({}) = 0 /\ f[w] \in Nat /\ g[w] \in Nat
    BY FS_EmptySet
<1>6. Cardinality(rest \cup F) = Cardinality(rest) + f[w]
    <2>1. Cardinality(rest \cup F) =
            Cardinality(rest) + Cardinality(F) - Cardinality(rest \cap F)
        BY <1>3, <1>4, FS_Union
    <2>2. Cardinality(rest \cap F) = 0
        BY <1>1, <1>5
    <2> QED
        BY <1>3, <1>4, <1>5, <2>1, <2>2
<1>7. Cardinality(rest \cup G) = Cardinality(rest) + g[w]
    <2>1. Cardinality(rest \cup G) =
            Cardinality(rest) + Cardinality(G) - Cardinality(rest \cap G)
        BY <1>3, <1>4, FS_Union
    <2>2. Cardinality(rest \cap G) = 0
        BY <1>2, <1>5
    <2> QED
        BY <1>3, <1>4, <1>5, <2>1, <2>2
<1> QED
    BY <1>1, <1>2, <1>4, <1>6, <1>7 DEF Sum

\* A step of worker w moves as many items of a tenant into its hands, or out of
\* them, as its batch shows.
LEMMA OneWorkerMoves ==
    ASSUME NEW old \in [Workers -> State], NEW new \in [Workers -> State],
           NEW w \in Workers, NEW t \in Tenants,
           \A v \in Workers : v # w => /\ new[v].tenant = old[v].tenant
                                       /\ new[v].batch = old[v].batch
    PROVE  /\ Sum(Hands(new, t)) \in Nat /\ Sum(Hands(old, t)) \in Nat
           /\ Sum(Hands(new, t)) + (IF old[w].tenant = t THEN old[w].batch ELSE 0)
                = Sum(Hands(old, t)) + (IF new[w].tenant = t THEN new[w].batch ELSE 0)
<1>1. BatchSize \in Nat
    BY PollingAssumption
<1>2. Hands(old, t) \in [Workers -> Nat] /\ Hands(new, t) \in [Workers -> Nat]
    BY <1>1 DEF Hands, State
<1>3. \A v \in Workers : v # w => Hands(new, t)[v] = Hands(old, t)[v]
    BY DEF Hands
<1>4. /\ Hands(old, t)[w] = IF old[w].tenant = t THEN old[w].batch ELSE 0
      /\ Hands(new, t)[w] = IF new[w].tenant = t THEN new[w].batch ELSE 0
    BY DEF Hands
<1>5. Sum(Hands(new, t)) + Hands(old, t)[w] = Sum(Hands(old, t)) + Hands(new, t)[w]
    BY <1>2, <1>3, SumChanges
<1> QED
    BY <1>2, <1>4, <1>5, ItemsFinite

\* What Add does to a count.
LEMMA Added ==
    ASSUME NEW c \in Counts, NEW u \in Tenants, NEW n \in Int, c[u] + n \in Nat
    PROVE  /\ Add(c, u, n) \in Counts /\ Add(c, u, n)[u] = c[u] + n
           /\ \A t \in Tenants : t # u => Add(c, u, n)[t] = c[t]
BY DEF Counts, Add
----------------------------------------------------------------------------
\* The pairs of the hands are those of the sum.
LEMMA HandsCounted ==
    ASSUME NEW states \in [Workers -> State], NEW t
    PROVE  {p \in Workers \X (1..BatchSize) :
                states[p[1]].tenant = t /\ p[2] <= states[p[1]].batch}
               = Items(Hands(states, t))
<1>1. BatchSize \in Nat
    BY PollingAssumption
<1>2. \A w \in Workers : states[w].batch \in 0..BatchSize
    BY DEF State
<1> QED
    BY <1>1, <1>2 DEF Items, Hands

\* What is held, in terms of the sum.
LEMMA HeldIsTotal ==
    ASSUME NEW t \in Tenants
    PROVE  /\ Types => Held(t) = queue[t] + Sum(Hands(worker, t))
           /\ Types' => Held(t)' = queue'[t] + Sum(Hands(worker', t))
<1>1. Types => Held(t) = queue[t] + Sum(Hands(worker, t))
    BY HandsCounted DEF Types, Held, InHands, Sum
<1>2. ASSUME Types' PROVE Held(t)' = queue'[t] + Sum(Hands(worker', t))
    <2>1. PICK new : new = worker'
        OBVIOUS
    <2>2. new \in [Workers -> State]
        BY <1>2, <2>1 DEF Types
    <2>3. {p \in Workers \X (1..BatchSize) :
               new[p[1]].tenant = t /\ p[2] <= new[p[1]].batch} = Items(Hands(new, t))
        BY <2>2, HandsCounted
    <2> QED
        BY <2>1, <2>3 DEF Held, InHands, Sum
<1> QED
    BY <1>1, <1>2
----------------------------------------------------------------------------
(***************************************************************************)
(* The steps.                                                              *)
(***************************************************************************)
\* What leaves a list goes to the hands or is finished with.
LEMMA Balance ==
    \A q, b, sum, q1, b1, sum1, k \in Nat :
        /\ q1 + b1 + k = q + b
        /\ sum1 + b = sum + b1
        => q1 + sum1 + k = q + sum
OBVIOUS

\* A step of worker w that moves items of tenant u between its queue and the
\* worker's hands, makes none, and finishes with k of them as a cycle of u ends.
LEMMA CycleConfined ==
    ASSUME IInv, NEW w \in Workers, NEW u, NEW new \in [Workers -> State],
           NEW k \in 0..BatchSize, worker' = new,
           \A v \in Workers : v # w => Alike(new[v], worker[v]),
           new[w].pc \in {"sleep", "scan"} => new[w].batch = 0,
           new[w].pc \in {"pop", "write"} => new[w].tenant \in Tenants,
           worker[w].tenant = u \/ worker[w].batch = 0,
           new[w].tenant = u \/ new[w].batch = 0,
           queue' \in Counts, \A t \in Tenants \ {u} : queue'[t] = queue[t],
           u \in Tenants => queue'[u] + new[w].batch + k = queue[u] + worker[w].batch,
           k > 0 => InCycle(w, u) /\ new[w].pc \in {"scan", "sleep"}
    PROVE  IInv' /\ \A t \in Tenants : OwnCycleOnly(t)
<1>1. Types /\ Cycles
    BY DEF IInv
<1>2. worker \in [Workers -> State] /\ BatchSize \in Nat
    BY <1>1, PollingAssumption DEF Types
<1>3. Types' /\ Cycles'
    BY <1>1 DEF Types, Cycles, Alike
<1>4. ASSUME NEW t \in Tenants PROVE OwnCycleOnly(t)
    <2> DEFINE q == queue[t]                  q1 == queue'[t]
               sum == Sum(Hands(worker, t))   sum1 == Sum(Hands(new, t))
    <2>1. /\ sum1 \in Nat /\ sum \in Nat
          /\ sum1 + (IF worker[w].tenant = t THEN worker[w].batch ELSE 0)
               = sum + (IF new[w].tenant = t THEN new[w].batch ELSE 0)
        BY <1>2, OneWorkerMoves DEF Alike
    <2>2. /\ q \in Nat /\ q1 \in Nat /\ worker[w].batch \in Nat /\ new[w].batch \in Nat
        BY <1>1, <1>2 DEF Types, Counts, State
    <2>3. Held(t) = q + sum /\ Held(t)' = q1 + sum1
        BY <1>1, <1>3, HeldIsTotal
    <2>4. CASE t = u
        <3>1. /\ q1 + new[w].batch + k = q + worker[w].batch
              /\ sum1 + worker[w].batch = sum + new[w].batch
            BY <2>1, <2>4
        <3> HIDE DEF q, q1, sum, sum1
        <3>2. q1 + sum1 + k = q + sum
            BY <1>2, <2>1, <2>2, <3>1, Balance
        <3>3. /\ ~(q1 + sum1 > q + sum)
              /\ q1 + sum1 >= q + sum - BatchSize
              /\ q1 + sum1 < q + sum => k > 0
            BY <1>2, <2>1, <2>2, <3>2
        <3>4. k > 0 => \E v \in Workers : /\ InCycle(v, t)
                                          /\ worker'[v].pc \in {"scan", "sleep"}
            BY <2>4
        <3>5. /\ ~(Held(t)' > Held(t))
              /\ Held(t)' >= Held(t) - BatchSize
              /\ Held(t)' < Held(t) => k > 0
            BY <1>2, <2>1, <2>2, <2>3, <3>3
        <3> QED
            BY <3>4, <3>5 DEF OwnCycleOnly
    <2>5. CASE t # u
        <3>1. q1 = q /\ sum1 = sum
            BY <2>1, <2>2, <2>5
        <3> HIDE DEF q, q1, sum, sum1
        <3>2. ~(q1 + sum1 > q + sum) /\ ~(q1 + sum1 < q + sum)
            BY <2>1, <2>2, <3>1
        <3> QED
            BY <2>3, <3>2 DEF OwnCycleOnly
    <2> QED
        BY <2>4, <2>5
<1> QED
    BY <1>3, <1>4 DEF IInv

LEMMA PushConfined ==
    ASSUME IInv, NEW u \in Tenants, NEW n \in Nat, Push(u, n)
    PROVE  IInv' /\ \A t \in Tenants : OwnCycleOnly(t)
<1>1. /\ queue \in Counts /\ queue[u] \in Nat /\ queue[u] + n \in Nat
      /\ queue' = Add(queue, u, n) /\ worker' = worker
    BY DEF IInv, Types, Counts, Push
<1>2. /\ queue' \in Counts /\ queue'[u] = queue[u] + n
      /\ \A t \in Tenants : t # u => queue'[t] = queue[t]
    BY <1>1, Added
<1>3. Types /\ Types' /\ Cycles'
    BY <1>1, <1>2 DEF IInv, Types, Cycles
<1>4. ASSUME NEW t \in Tenants PROVE OwnCycleOnly(t)
    <2> DEFINE q == queue[t]   q1 == queue'[t]   sum == Sum(Hands(worker, t))
    <2>1. Hands(worker, t) \in [Workers -> Nat]
        BY <1>3, PollingAssumption DEF Types, State, Hands
    <2>2. q \in Nat /\ q1 \in Nat /\ q1 >= q /\ sum \in Nat
        BY <1>1, <1>2, <2>1, ItemsFinite DEF Counts
    <2>3. Held(t) = q + sum /\ Held(t)' = q1 + sum
        BY <1>1, <1>3, HeldIsTotal
    <2> HIDE DEF q, q1, sum
    <2>4. ~(q1 + sum < q + sum)
        BY <2>2
    <2> QED
        BY <1>1, <2>3, <2>4 DEF OwnCycleOnly
<1> QED
    BY <1>3, <1>4 DEF IInv

\* A step of a worker that takes no item and gives none away.
LEMMA QuietConfined ==
    ASSUME IInv, NEW w \in Workers, NEW state \in State,
           worker' = [worker EXCEPT ![w] = state],
           state.pc \in {"sleep", "scan"} => state.batch = 0,
           state.pc \in {"pop", "write"} => state.tenant \in Tenants,
           state.batch = worker[w].batch,
           state.tenant = worker[w].tenant \/ state.batch = 0,
           UNCHANGED queue
    PROVE  IInv' /\ \A t \in Tenants : OwnCycleOnly(t)
<1>1. /\ queue \in Counts /\ worker \in [Workers -> State] /\ BatchSize \in Nat
    BY PollingAssumption DEF IInv, Types
<1> DEFINE u == worker[w].tenant
           k == 0
<1>2. PICK new : new = worker'
    OBVIOUS
<1>3. /\ new \in [Workers -> State] /\ new[w] = state
      /\ \A v \in Workers : v # w => Alike(new[v], worker[v])
    BY <1>1, <1>2 DEF Alike
<1>4. k \in 0..BatchSize /\ ~(k > 0)
    BY <1>1
<1>5. u \in Tenants => queue'[u] + new[w].batch + k = queue[u] + worker[w].batch
    <2>1. new[w].batch = worker[w].batch /\ worker[w].batch \in Nat
        BY <1>1, <1>3 DEF State
    <2> QED
        BY <1>1, <2>1 DEF Counts
<1> HIDE DEF u, k
<1>6. /\ worker[w].tenant = u \/ worker[w].batch = 0
      /\ new[w].tenant = u \/ new[w].batch = 0
      /\ new[w].pc \in {"sleep", "scan"} => new[w].batch = 0
      /\ new[w].pc \in {"pop", "write"} => new[w].tenant \in Tenants
    BY <1>3 DEF u
<1> QED
    BY <1>1, <1>2, <1>3, <1>4, <1>5, <1>6, CycleConfined

\* The states that a round goes through.
LEMMA TenantChosen ==
    ASSUME NEW state \in State, NEW t \in Tenants, NEW n \in Tenants
    PROVE  [state EXCEPT !.pc = "pop", !.seen = @ \cup {t}, !.tenant = n] \in State
BY DEF State

LEMMA ChosenFields ==
    ASSUME NEW state \in State, NEW t \in Tenants, NEW n \in Tenants
    PROVE  LET r == [state EXCEPT !.pc = "pop", !.seen = @ \cup {t}, !.tenant = n]
           IN  r.pc = "pop" /\ r.tenant = n /\ r.batch = state.batch
BY DEF State

LEMMA TenantDropped ==
    ASSUME NEW state \in State, NEW n \in Tenants \cup {Nobody}, NEW b \in 0..BatchSize
    PROVE  [state EXCEPT !.pc = "scan", !.tenant = n, !.batch = b] \in State
BY DEF State

LEMMA DroppedFields ==
    ASSUME NEW state \in State, NEW n \in Tenants \cup {Nobody}, NEW b \in 0..BatchSize
    PROVE  LET r == [state EXCEPT !.pc = "scan", !.tenant = n, !.batch = b]
           IN  r.pc = "scan" /\ r.batch = b
BY DEF State

LEMMA RoundStates ==
    /\ Sleeping \in State /\ Sleeping.batch = 0 /\ Sleeping.pc = "sleep"
    /\ \A state \in State : /\ Scanning(state) \in State
                            /\ Scanning(state).batch = 0 /\ Scanning(state).pc = "scan"
<1>1. 0 \in 0..BatchSize
    BY PollingAssumption
<1>2. Sleeping \in State /\ Sleeping.batch = 0 /\ Sleeping.pc = "sleep"
    BY <1>1 DEF Sleeping, State
<1>3. ASSUME NEW state \in State
      PROVE  /\ Scanning(state) \in State
             /\ Scanning(state).batch = 0 /\ Scanning(state).pc = "scan"
    <2> DEFINE b == 0
               n == Nobody
    <2>1. b \in 0..BatchSize /\ n \in Tenants \cup {Nobody}
        BY <1>1
    <2> HIDE DEF b
    <2>2. Scanning(state) \in State
        BY <2>1, TenantDropped DEF Scanning, b
    <2>3. Scanning(state).batch = b /\ Scanning(state).pc = "scan"
        BY <2>1, DroppedFields DEF Scanning, b
    <2> QED
        BY <2>2, <2>3 DEF b
<1> QED
    BY <1>2, <1>3

LEMMA RoundConfined ==
    ASSUME IInv, NEW w \in Workers,
           \/ StartRound(w) \/ RoundEnds(w) \/ Popped(w)
           \/ \E t \in Tenants : ScanYields(w, t)
    PROVE  IInv' /\ \A t \in Tenants : OwnCycleOnly(t)
<1> DEFINE s == worker[w]
<1>1. /\ s \in State /\ BatchSize \in Nat /\ Polled \in [Tenants -> Tenants]
      /\ s.pc \in {"sleep", "scan"} => s.batch = 0
      /\ s.pc \in {"pop", "write"} => s.tenant \in Tenants
    BY PollingAssumption DEF IInv, Types, Cycles
<1>2. CASE StartRound(w)
    <2> DEFINE r == [s EXCEPT !.pc = "scan", !.due = Present]
    <2>1. /\ r \in State /\ r.pc = "scan" /\ r.batch = 0 /\ s.batch = 0
        BY <1>1, <1>2 DEF StartRound, State, Present
    <2>2. /\ worker' = [worker EXCEPT ![w] = r]
          /\ UNCHANGED queue
        BY <1>2 DEF StartRound
    <2> HIDE DEF r
    <2> QED
        BY <2>1, <2>2, QuietConfined
<1>3. CASE RoundEnds(w)
    <2>1. /\ worker' = [worker EXCEPT ![w] = Sleeping] /\ s.batch = 0
          /\ UNCHANGED queue
        BY <1>1, <1>3 DEF RoundEnds
    <2> QED
        BY <2>1, RoundStates, QuietConfined
<1>4. ASSUME NEW t \in Tenants, ScanYields(w, t)
      PROVE  IInv' /\ \A v \in Tenants : OwnCycleOnly(v)
    <2>1. s.batch = 0 /\ Polled[t] \in Tenants
        BY <1>1, <1>4 DEF ScanYields
    <2> DEFINE n == Polled[t]
               r == [s EXCEPT !.pc = "pop", !.seen = @ \cup {t}, !.tenant = n]
    <2>2. worker' = [worker EXCEPT ![w] = r]
        BY <1>4 DEF ScanYields
    <2> HIDE DEF n
    <2>3. r \in State
        BY <1>1, <2>1, TenantChosen DEF n
    <2>4. r.pc = "pop" /\ r.tenant = n /\ r.batch = s.batch
        BY <1>1, <2>1, ChosenFields DEF n
    <2>5. UNCHANGED queue
        BY <1>4 DEF ScanYields
    <2> HIDE DEF r
    <2> QED
        BY <2>1, <2>2, <2>3, <2>4, <2>5, QuietConfined DEF n
<1>5. CASE Popped(w)
    <2>1. CASE s.batch = 0
        <3>1. /\ worker' = [worker EXCEPT ![w] = Scanning(s)]
              /\ UNCHANGED queue
            BY <1>5, <2>1 DEF Popped
        <3> QED
            BY <1>1, <2>1, <3>1, RoundStates, QuietConfined
    <2>2. CASE s.batch # 0
        <3> DEFINE r == [s EXCEPT !.pc = "write"]
        <3>1. /\ worker' = [worker EXCEPT ![w] = r] /\ s.pc = "pop"
              /\ UNCHANGED queue
            BY <1>5, <2>2 DEF Popped
        <3>2. /\ r \in State /\ r.pc = "write" /\ r.tenant = s.tenant /\ r.batch = s.batch
              /\ r.tenant \in Tenants
            BY <1>1, <3>1 DEF State
        <3> HIDE DEF r
        <3> QED
            BY <3>1, <3>2, QuietConfined
    <2> QED
        BY <2>1, <2>2
<1> QED
    BY <1>2, <1>3, <1>4, <1>5

\* A worker that takes the last item of a key changes no worker's cycle.
LEMMA NoticedAlike ==
    ASSUME NEW length, NEW states \in [Workers -> State]
    PROVE  /\ Noticed(length, states) \in [Workers -> State]
           /\ \A v \in Workers : Alike(Noticed(length, states)[v], states[v])
<1>1. ASSUME NEW v \in Workers, NEW state \in State, NEW due \in SUBSET Tenants
      PROVE  /\ [state EXCEPT !.due = due] \in State
             /\ Alike([state EXCEPT !.due = due], state)
    BY DEF State, Alike
<1>2. ASSUME NEW v \in Workers
      PROVE  {t \in states[v].due : length[t] > 0} \in SUBSET Tenants
    BY DEF State
<1> QED
    BY <1>1, <1>2 DEF Noticed

\* Nothing is added to the count of a tenant that is none.
LEMMA NothingAdded ==
    ASSUME NEW c \in Counts, NEW u, u \notin Tenants, NEW n PROVE Add(c, u, n) = c
BY DEF Counts, Add

\* A worker that returns to the scan or sleeps, having written or raised, and
\* whose step may have emptied a list.
LEMMA HandsEmptied ==
    ASSUME Types, NEW w \in Workers, NEW state \in State, state.batch = 0,
           state.pc \in {"sleep", "scan"},
           \/ worker' = [worker EXCEPT ![w] = state]
           \/ worker' = Noticed(queue', [worker EXCEPT ![w] = state])
    PROVE  /\ worker' \in [Workers -> State]
           /\ worker'[w].batch = 0 /\ worker'[w].pc \in {"sleep", "scan"}
           /\ \A v \in Workers : v # w => Alike(worker'[v], worker[v])
<1> DEFINE mid == [worker EXCEPT ![w] = state]
<1>1. /\ worker \in [Workers -> State] /\ mid \in [Workers -> State] /\ mid[w] = state
      /\ \A v \in Workers : v # w => mid[v] = worker[v]
    BY DEF Types
<1> HIDE DEF mid
<1>2. CASE worker' = mid
    BY <1>1, <1>2 DEF Alike
<1>3. CASE worker' = Noticed(queue', mid)
    <2>1. /\ Noticed(queue', mid) \in [Workers -> State]
          /\ \A v \in Workers : Alike(Noticed(queue', mid)[v], mid[v])
        BY <1>1, NoticedAlike
    <2>2. /\ worker' \in [Workers -> State]
          /\ \A v \in Workers : Alike(worker'[v], mid[v])
        BY <1>3, <2>1
    <2> QED
        BY <1>1, <2>2 DEF Alike
<1> QED
    BY <1>2, <1>3 DEF mid

LEMMA PopConfined ==
    ASSUME IInv, NEW w \in Workers, Pop(w)
    PROVE  IInv' /\ \A t \in Tenants : OwnCycleOnly(t)
<1> DEFINE u == worker[w].tenant
           mid == [worker EXCEPT ![w].batch = @ + 1]
           k == 0
<1>1. /\ worker \in [Workers -> State] /\ BatchSize \in Nat /\ queue \in Counts
      /\ u \in Tenants /\ worker[w].pc = "pop" /\ worker[w].batch < BatchSize
      /\ queue[u] > 0 /\ queue[u] \in Nat /\ worker[w].batch \in Nat
    BY PollingAssumption DEF IInv, Types, Cycles, Pop, State, Counts
<1>2. /\ queue' \in Counts /\ queue'[u] = queue[u] - 1
      /\ \A t \in Tenants : t # u => queue'[t] = queue[t]
    <2>1. queue' = Add(queue, u, -1) /\ queue[u] + (-1) \in Nat
        BY <1>1 DEF Pop
    <2> HIDE DEF u
    <2> QED
        BY <1>1, <2>1, Added
<1>3. /\ mid \in [Workers -> State] /\ mid[w].batch = worker[w].batch + 1
      /\ mid[w].pc = "pop" /\ mid[w].tenant = u
      /\ \A v \in Workers : v # w => mid[v] = worker[v]
    <2>1. [worker[w] EXCEPT !.batch = @ + 1] \in State
        BY <1>1 DEF State
    <2>2. mid = [worker EXCEPT ![w] = [worker[w] EXCEPT !.batch = @ + 1]]
        BY <1>1
    <2> QED
        BY <1>1, <2>1, <2>2 DEF State
<1>4. worker' = Noticed(queue', mid)
    BY DEF Pop
<1> HIDE DEF mid
<1>5. PICK new : new = worker'
    OBVIOUS
<1>6. /\ new \in [Workers -> State]
      /\ \A v \in Workers : Alike(new[v], mid[v])
    <2>1. /\ Noticed(queue', mid) \in [Workers -> State]
          /\ \A v \in Workers : Alike(Noticed(queue', mid)[v], mid[v])
        BY <1>3, NoticedAlike
    <2> QED
        BY <1>4, <1>5, <2>1
<1>7. /\ new[w].pc = "pop" /\ new[w].tenant = u /\ new[w].batch = worker[w].batch + 1
      /\ \A v \in Workers : v # w => Alike(new[v], worker[v])
    BY <1>3, <1>6 DEF Alike
<1>8. /\ k \in 0..BatchSize /\ ~(k > 0)
      /\ queue'[u] + new[w].batch + k = queue[u] + worker[w].batch
    BY <1>1, <1>2, <1>7
<1>9. worker[w].tenant = u
    OBVIOUS
<1> HIDE DEF u, k
<1> QED
    BY <1>1, <1>2, <1>5, <1>6, <1>7, <1>8, <1>9, CycleConfined

\* A cycle that has written its batch, or raised, holds nothing any more.
LEMMA WriteConfined ==
    ASSUME IInv, NEW w \in Workers, Write(w) \/ WriteFails(w)
    PROVE  IInv' /\ \A t \in Tenants : OwnCycleOnly(t)
<1> DEFINE u == worker[w].tenant
           k == worker[w].batch
<1>1. /\ worker \in [Workers -> State] /\ Types /\ BatchSize \in Nat
      /\ queue \in Counts /\ u \in Tenants /\ k \in 0..BatchSize
      /\ worker[w].pc = "write" /\ queue[u] \in Nat
    BY PollingAssumption DEF IInv, Types, Cycles, Write, WriteFails, State, Counts
<1>2. \/ queue' = queue
      \/ queue' = Add(queue, u, 0)
    BY DEF Write, WriteFails, Returned
<1>3. \/ worker' = [worker EXCEPT ![w] = Scanning(worker[w])]
      \/ worker' = [worker EXCEPT ![w] = Sleeping]
    BY DEF Write, WriteFails, Raised
<1>4. /\ worker' \in [Workers -> State]
      /\ worker'[w].batch = 0 /\ worker'[w].pc \in {"sleep", "scan"}
      /\ \A v \in Workers : v # w => Alike(worker'[v], worker[v])
    <2>1. /\ Scanning(worker[w]) \in State /\ Scanning(worker[w]).batch = 0
          /\ Scanning(worker[w]).pc = "scan"
          /\ Sleeping \in State /\ Sleeping.batch = 0 /\ Sleeping.pc = "sleep"
        BY <1>1, RoundStates
    <2> QED
        BY <1>1, <1>3, <2>1, HandsEmptied
<1>5. PICK new : new = worker'
    OBVIOUS
<1>6. /\ new \in [Workers -> State] /\ new[w].batch = 0 /\ new[w].pc \in {"sleep", "scan"}
      /\ \A v \in Workers : v # w => Alike(new[v], worker[v])
      /\ ~(new[w].pc \in {"pop", "write"})
    BY <1>4, <1>5
<1>7. InCycle(w, u) /\ worker[w].tenant = u /\ worker[w].batch = k
    BY <1>1 DEF InCycle
<1> HIDE DEF u, k
<1>8. /\ queue' \in Counts /\ queue'[u] = queue[u]
      /\ \A t \in Tenants \ {u} : queue'[t] = queue[t]
    <2>1. queue[u] + 0 = queue[u]
        BY <1>1
    <2> QED
        BY <1>1, <1>2, <2>1, Added
<1>9. queue'[u] + new[w].batch + k = queue[u] + worker[w].batch
    BY <1>1, <1>6, <1>7, <1>8
<1> QED
    BY <1>1, <1>5, <1>6, <1>7, <1>8, <1>9, CycleConfined

LEMMA RedisFailsConfined ==
    ASSUME IInv, NEW w \in Workers, RedisFails(w)
    PROVE  IInv' /\ \A t \in Tenants : OwnCycleOnly(t)
<1> DEFINE u == worker[w].tenant
           n == worker[w].batch
<1>1. /\ worker \in [Workers -> State] /\ Types /\ BatchSize \in Nat
      /\ queue \in Counts /\ n \in 0..BatchSize
      /\ worker[w].pc = "scan" => n = 0
      /\ worker[w].pc = "pop" => u \in Tenants /\ InCycle(w, u)
      /\ worker[w].pc \in {"scan", "pop"}
    BY PollingAssumption DEF IInv, Types, State, Cycles, RedisFails, InCycle
<1>2. PICK executed \in {0, 1} :
          /\ executed = 1 => worker[w].pc = "pop" /\ queue[u] > 0 /\ n < BatchSize
          /\ queue' = Add(queue, u, - executed)
    BY DEF RedisFails
<1>3. worker' = Noticed(queue', [worker EXCEPT ![w] = Sleeping])
    BY DEF RedisFails, Raised
<1>4. /\ worker' \in [Workers -> State]
      /\ worker'[w].batch = 0 /\ worker'[w].pc \in {"sleep", "scan"}
      /\ \A v \in Workers : v # w => Alike(worker'[v], worker[v])
    BY <1>1, <1>3, RoundStates, HandsEmptied
<1>5. PICK new : new = worker'
    OBVIOUS
<1>6. worker[w].tenant = u /\ worker[w].batch = n
    OBVIOUS
<1> HIDE DEF u, n
<1>7. PICK k \in 0..BatchSize : k = n + executed
    BY <1>1, <1>2
<1>8. k > 0 => u \in Tenants /\ InCycle(w, u)
    BY <1>1, <1>2, <1>7
<1>9. /\ queue' \in Counts
      /\ u \in Tenants => queue'[u] = queue[u] - executed
      /\ \A t \in Tenants : t # u => queue'[t] = queue[t]
    <2>1. CASE u \in Tenants
        <3>1. - executed \in Int /\ queue[u] + (- executed) \in Nat
            BY <1>1, <1>2, <2>1 DEF Counts
        <3>2. queue[u] + (- executed) = queue[u] - executed
            BY <1>1, <1>2, <2>1 DEF Counts
        <3> QED
            BY <1>1, <1>2, <2>1, <3>1, <3>2, Added
    <2>2. CASE u \notin Tenants
        BY <1>1, <1>2, <2>2, NothingAdded
    <2> QED
        BY <2>1, <2>2
<1>10. /\ new \in [Workers -> State] /\ new[w].batch = 0 /\ new[w].pc \in {"sleep", "scan"}
       /\ \A v \in Workers : v # w => Alike(new[v], worker[v])
       /\ ~(new[w].pc \in {"pop", "write"})
    BY <1>4, <1>5
<1>11. u \in Tenants => queue'[u] + new[w].batch + k = queue[u] + worker[w].batch
    <2> SUFFICES ASSUME u \in Tenants
                 PROVE  queue'[u] + new[w].batch + k = queue[u] + worker[w].batch
        OBVIOUS
    <2>1. queue[u] \in Nat
        BY <1>1 DEF Counts
    <2> QED
        BY <1>1, <1>2, <1>6, <1>7, <1>9, <1>10, <2>1
<1> QED
    BY <1>5, <1>6, <1>8, <1>9, <1>10, <1>11, CycleConfined
----------------------------------------------------------------------------
LEMMA InitIInv == Init => IInv
BY RoundStates, PollingAssumption DEF Init, IInv, Types, Cycles, Counts, Sleeping

LEMMA NextConfined ==
    IInv /\ [Next]_vars => IInv' /\ [\A t \in Tenants : OwnCycleOnly(t)]_vars
<1> SUFFICES ASSUME IInv, [Next]_vars
             PROVE  IInv' /\ [\A t \in Tenants : OwnCycleOnly(t)]_vars
    OBVIOUS
<1>1. CASE UNCHANGED vars
    BY <1>1 DEF vars, IInv, Types, Cycles
<1>2. ASSUME NEW u \in Tenants, NEW n \in 1..MaxLength[u], Push(u, n)
      PROVE  IInv' /\ \A t \in Tenants : OwnCycleOnly(t)
    <2>1. n \in Nat
        BY PollingAssumption
    <2> QED
        BY <1>2, <2>1, PushConfined
<1>3. ASSUME NEW w \in Workers, WorkerStep(w)
      PROVE  IInv' /\ \A t \in Tenants : OwnCycleOnly(t)
    BY <1>3, RoundConfined, PopConfined, WriteConfined, RedisFailsConfined
    DEF WorkerStep
<1> QED
    BY <1>1, <1>2, <1>3 DEF Next

\* Whichever tenants' writes and Redis commands raise, as often as they will, a
\* tenant's logs leave its queue and the workers' hands only as a cycle of its
\* own ends, a batch of them at most: another tenant's failing write ends the
\* round of run_worker_loop and costs this one nothing, and no worker hands on
\* to it what was taken from another.
THEOREM LossesAreConfined == Spec => LossConfined
BY InitIInv, NextConfined, PTL DEF Spec, LossConfined
=============================================================================
