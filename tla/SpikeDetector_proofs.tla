------------------------ MODULE SpikeDetector_proofs ------------------------
(***************************************************************************)
(* Proofs about SpikeDetector for all windows, thresholds and multipliers: *)
(* whatever is indexed between the counts and whichever queries fail, an   *)
(* alert has its errors in its window, and it is a surge when nothing was  *)
(* late and no query failed.                                               *)
(***************************************************************************)
EXTENDS SpikeDetector, FiniteSetTheorems, TLAPS

Documents == [Times -> Nat]

\* What the evaluation knows of its current window after the first count.
Counted(c) == /\ c.err >= MinErrors /\ c.err <= c.total
              /\ c.err <= Errors(CurrentWindow(now))

Types ==
    /\ errors \in Documents /\ others \in Documents /\ Indexed <= MaxLogs
    /\ clock \in Times /\ now \in Times /\ now <= clock
    /\ failures \in 0..MaxFailures /\ late \in BOOLEAN
    /\ pc \in {"idle", "errors", "total", "baseErrors", "baseTotal", "decide"}
    /\ current \in Count /\ baseline \in Count
    /\ alerts \subseteq [at : Times, current : Count, baseline : Count]
    /\ \A a \in alerts : a.at <= clock

\* What has been counted is still there: nothing is deleted from the index.
Counting ==
    /\ pc = "total" => current.err <= Errors(CurrentWindow(now))
    /\ pc \in {"baseErrors", "baseTotal", "decide"} => Counted(current)
    /\ pc = "baseTotal" => baseline.err <= Errors(BaselineWindow(now))
    /\ pc = "decide" => baseline.err <= baseline.total

Alerting ==
    \A a \in alerts : /\ a.current.err >= MinErrors
                      /\ a.current.err <= a.current.total
                      /\ a.current.err <= Errors(CurrentWindow(a.at))

\* The baseline window is behind the clock: only a late log changes it.
Steady ==
    failures = 0 /\ ~ late =>
        /\ pc = "baseTotal" => baseline.err = Errors(BaselineWindow(now))
        /\ pc = "decide" => /\ baseline.err = Errors(BaselineWindow(now))
                            /\ baseline.total = AtLeastOne(Total(BaselineWindow(now)))

IInv == Types /\ Counting /\ Alerting /\ Steady /\ SurgeOverWindow
----------------------------------------------------------------------------
(***************************************************************************)
(* Counting documents.                                                     *)
(***************************************************************************)
\* The windows are sets of instants.
LEMMA Windows ==
    /\ IsFiniteSet(Times)
    /\ \A at : CurrentWindow(at) \subseteq Times /\ BaselineWindow(at) \subseteq Times
<1>1. MaxTime \in Nat
    BY SpikeAssumption
<1>2. IsFiniteSet(0..MaxTime)
    BY <1>1, FS_Interval
<1> QED
    BY <1>2 DEF Times, CurrentWindow, BaselineWindow, Window

\* The logs of an instant are finitely many.
LEMMA Instant ==
    ASSUME NEW t, NEW n \in Nat
    PROVE  IsFiniteSet({t} \X (1..n)) /\ Cardinality({t} \X (1..n)) = n
<1>1. IsFiniteSet({t}) /\ Cardinality({t}) = 1
    BY FS_Singleton
<1>2. IsFiniteSet(1..n) /\ Cardinality(1..n) = n
    BY FS_Interval
<1>3. /\ IsFiniteSet({t} \X (1..n))
      /\ Cardinality({t} \X (1..n)) = Cardinality({t}) * Cardinality(1..n)
    BY <1>1, <1>2, FS_Product
<1> QED
    BY <1>1, <1>2, <1>3

\* A window has finitely many documents.
LEMMA NumberType ==
    ASSUME NEW f \in Documents, NEW W \in SUBSET Times
    PROVE  IsFiniteSet(Docs(f, W)) /\ Number(f, W) \in Nat
<1> DEFINE S == {{t} \X (1..f[t]) : t \in W}
<1>1. IsFiniteSet(W)
    BY Windows, FS_Subset
<1>2. IsFiniteSet(S)
    <2> DEFINE g == [t \in W |-> {t} \X (1..f[t])]
    <2>1. g \in Surjection(W, S)
        BY DEF Surjection
    <2> HIDE DEF g, S
    <2> QED
        BY <1>1, <2>1, FS_Surjection
<1>3. \A T \in S : IsFiniteSet(T)
    <2> SUFFICES ASSUME NEW t \in W PROVE IsFiniteSet({t} \X (1..f[t]))
        OBVIOUS
    <2>1. f[t] \in Nat
        BY DEF Documents
    <2> QED
        BY <2>1, Instant
<1> HIDE DEF S
<1>4. IsFiniteSet(UNION S)
    BY <1>2, <1>3, FS_UNION
<1>5. IsFiniteSet(Docs(f, W))
    BY <1>4 DEF S, Docs
<1> QED
    BY <1>5, FS_CardinalityType DEF Number

\* A larger window of a larger index has no fewer documents.
LEMMA NumberGrows ==
    ASSUME NEW f \in Documents, NEW g \in Documents, NEW V \in SUBSET Times,
           NEW W \in SUBSET Times, V \subseteq W, \A t \in V : f[t] <= g[t]
    PROVE  Number(f, V) <= Number(g, W)
<1>1. Docs(f, V) \subseteq Docs(g, W)
    <2> SUFFICES ASSUME NEW t \in V, NEW x \in {t} \X (1..f[t])
                 PROVE  x \in {t} \X (1..g[t])
        BY DEF Docs
    <2> QED
        BY DEF Documents
<1> QED
    BY <1>1, NumberType, FS_Subset DEF Number

\* One more log of an instant counts in the windows of that instant only.
LEMMA NumberAdds ==
    ASSUME NEW f \in Documents, NEW t \in Times, NEW W \in SUBSET Times,
           NEW g, g = [f EXCEPT ![t] = @ + 1]
    PROVE  /\ g \in Documents /\ \A u \in Times : f[u] <= g[u]
           /\ Number(g, W) = Number(f, W) + (IF t \in W THEN 1 ELSE 0)
<1>1. /\ g \in Documents /\ g[t] = f[t] + 1 /\ f[t] \in Nat
      /\ \A u \in Times : u # t => g[u] = f[u] /\ f[u] \in Nat
    BY DEF Documents
<1>2. CASE t \notin W
    <2>1. Docs(g, W) = Docs(f, W)
        BY <1>1, <1>2 DEF Docs
    <2> QED
        BY <1>1, <1>2, <2>1, NumberType DEF Number
<1>3. CASE t \in W
    <2>1. Docs(g, W) = Docs(f, W) \cup {<<t, f[t] + 1>>}
        <3>1. \A u \in W : {u} \X (1..g[u]) =
                IF u = t THEN ({u} \X (1..f[u])) \cup {<<t, f[t] + 1>>} ELSE {u} \X (1..f[u])
            BY <1>1
        <3> QED
            BY <1>3, <3>1 DEF Docs
    <2>2. <<t, f[t] + 1>> \notin Docs(f, W)
        BY <1>1 DEF Docs
    <2>3. IsFiniteSet(Docs(f, W)) /\ Cardinality(Docs(f, W)) \in Nat
        BY NumberType DEF Number
    <2>4. Cardinality(Docs(g, W)) = Cardinality(Docs(f, W)) + 1
        BY <2>1, <2>2, <2>3, FS_AddElement
    <2> QED
        BY <1>1, <1>3, <2>4 DEF Number
<1> QED
    BY <1>1, <1>2, <1>3

\* The logs of one instant are some of all.
LEMMA InstantBound ==
    ASSUME NEW f \in Documents, NEW t \in Times
    PROVE  f[t] <= Number(f, Times)
<1>1. {t} \X (1..f[t]) \subseteq Docs(f, Times)
    BY DEF Docs
<1>2. f[t] \in Nat
    BY DEF Documents
<1>3. Cardinality({t} \X (1..f[t])) = f[t]
    BY <1>2, Instant
<1>4. IsFiniteSet(Docs(f, Times))
    BY NumberType
<1>5. Cardinality({t} \X (1..f[t])) <= Cardinality(Docs(f, Times))
    BY <1>1, <1>4, FS_Subset
<1> QED
    BY <1>3, <1>5 DEF Number

\* What a query can return.
LEMMA CountsBounded ==
    ASSUME Types, NEW W \in SUBSET Times
    PROVE  /\ Errors(W) \in 0..MaxLogs /\ Total(W) \in 0..MaxLogs /\ Errors(W) <= Total(W)
           /\ AtLeastOne(Total(W)) \in 1..(MaxLogs + 1) /\ Total(W) <= AtLeastOne(Total(W))
<1>1. /\ Number(errors, W) \in Nat /\ Number(errors, Times) \in Nat
      /\ Number(others, W) \in Nat /\ Number(others, Times) \in Nat
    BY NumberType DEF Types
<1>2. /\ Number(errors, W) <= Number(errors, Times)
      /\ Number(others, W) <= Number(others, Times)
    <2>1. \A f \in Documents : Number(f, W) <= Number(f, Times)
        <3> SUFFICES ASSUME NEW f \in Documents PROVE Number(f, W) <= Number(f, Times)
            OBVIOUS
        <3>1. \A t \in W : f[t] <= f[t]
            BY DEF Documents
        <3> QED
            BY <3>1, NumberGrows
    <2> QED
        BY <2>1 DEF Types
<1>3. MaxLogs \in Nat /\ Number(errors, Times) + Number(others, Times) <= MaxLogs
    BY SpikeAssumption DEF Types, Indexed
<1> QED
    BY <1>1, <1>2, <1>3 DEF Errors, Total, AtLeastOne

\* Indexing a log takes none away, and adds to the windows of its instant.
LEMMA IndexGrows ==
    ASSUME Types, NEW t \in Times, NEW isError \in BOOLEAN, IndexLog(t, isError)
    PROVE  /\ errors' \in Documents /\ others' \in Documents /\ Indexed' <= MaxLogs
           /\ \A W \in SUBSET Times :
                /\ Errors(W) <= Number(errors', W)
                /\ t \notin W => /\ Number(errors', W) = Errors(W)
                                 /\ Number(errors', W) + Number(others', W) = Total(W)
<1>1. Times \in SUBSET Times /\ Indexed < MaxLogs /\ MaxLogs \in Nat
    BY SpikeAssumption DEF IndexLog
<1>2. /\ errors \in Documents /\ others \in Documents
      /\ \A W \in SUBSET Times : Number(errors, W) \in Nat /\ Number(others, W) \in Nat
    BY NumberType DEF Types
<1>3. \A f \in Documents : \A g : g = [f EXCEPT ![t] = @ + 1] =>
        \A W \in SUBSET Times :
            g \in Documents /\ Number(g, W) = Number(f, W) + (IF t \in W THEN 1 ELSE 0)
    BY NumberAdds
<1>4. CASE isError
    <2>1. errors' = [errors EXCEPT ![t] = @ + 1] /\ others' = others
        BY <1>4 DEF IndexLog
    <2>2. \A W \in SUBSET Times :
            /\ errors' \in Documents
            /\ Number(errors', W) = Number(errors, W) + (IF t \in W THEN 1 ELSE 0)
        BY <1>2, <1>3, <2>1
    <2>3. errors' \in Documents /\ Number(errors', Times) = Number(errors, Times) + 1
        BY <1>1, <2>2
    <2>4. Indexed' <= MaxLogs
        BY <1>1, <1>2, <2>1, <2>3 DEF Indexed
    <2>5. ASSUME NEW W \in SUBSET Times
          PROVE  /\ Errors(W) <= Number(errors', W)
                 /\ t \notin W => /\ Number(errors', W) = Errors(W)
                                  /\ Number(errors', W) + Number(others', W) = Total(W)
        <3>1. Number(errors, W) \in Nat /\ Number(others, W) \in Nat
            BY <1>2
        <3>2. /\ Number(errors', W) = Number(errors, W) + (IF t \in W THEN 1 ELSE 0)
              /\ Number(others', W) = Number(others, W)
            BY <2>1, <2>2
        <3>3. Number(errors', W) >= Number(errors, W) /\ (t \notin W => Number(errors', W) = Number(errors, W))
            BY <3>1, <3>2
        <3> QED
            BY <3>1, <3>2, <3>3 DEF Errors, Total
    <2> QED
        BY <1>2, <2>1, <2>3, <2>4, <2>5
<1>5. CASE ~ isError
    <2>1. others' = [others EXCEPT ![t] = @ + 1] /\ errors' = errors
        BY <1>5 DEF IndexLog
    <2>2. \A W \in SUBSET Times :
            /\ others' \in Documents
            /\ Number(others', W) = Number(others, W) + (IF t \in W THEN 1 ELSE 0)
        BY <1>2, <1>3, <2>1
    <2>3. others' \in Documents /\ Number(others', Times) = Number(others, Times) + 1
        BY <1>1, <2>2
    <2>4. Indexed' <= MaxLogs
        BY <1>1, <1>2, <2>1, <2>3 DEF Indexed
    <2>5. ASSUME NEW W \in SUBSET Times
          PROVE  /\ Errors(W) <= Number(errors', W)
                 /\ t \notin W => /\ Number(errors', W) = Errors(W)
                                  /\ Number(errors', W) + Number(others', W) = Total(W)
        <3>1. Number(errors, W) \in Nat /\ Number(others, W) \in Nat
            BY <1>2
        <3>2. /\ Number(others', W) = Number(others, W) + (IF t \in W THEN 1 ELSE 0)
              /\ Number(errors', W) = Number(errors, W)
            BY <2>1, <2>2
        <3>3. Number(others', W) >= Number(others, W) /\ (t \notin W => Number(others', W) = Number(others, W))
            BY <3>1, <3>2
        <3> QED
            BY <3>1, <3>2, <3>3 DEF Errors, Total
    <2> QED
        BY <1>2, <2>1, <2>3, <2>4, <2>5
<1> QED
    BY <1>4, <1>5

\* Until a log is late, the baseline window of a past instant does not change.
LEMMA BaselineBehind ==
    ASSUME Types, NEW at \in Times, at <= clock
    PROVE  clock \notin BaselineWindow(at)
<1>1. at \in Int /\ clock \in Int /\ Lookback \in Nat \ {0}
    BY SpikeAssumption DEF Types, Times
<1> QED
    BY <1>1 DEF BaselineWindow, Window
----------------------------------------------------------------------------
(***************************************************************************)
(* The steps of an evaluation, and what happens between them.              *)
(***************************************************************************)
\* Indexing keeps the invariant, at whatever point of an evaluation.
LEMMA IndexKeeps ==
    ASSUME IInv, NEW t \in Times, NEW isError \in BOOLEAN, IndexLog(t, isError)
    PROVE  IInv'
<1>0. Types
    BY DEF IInv
<1>1. UNCHANGED <<clock, failures, pc, now, current, baseline, alerts>>
    BY DEF IndexLog
<1>2. /\ errors' \in Documents /\ others' \in Documents /\ Indexed' <= MaxLogs
      /\ \A W \in SUBSET Times :
            /\ Errors(W) <= Number(errors', W)
            /\ t \notin W => /\ Number(errors', W) = Errors(W)
                             /\ Number(errors', W) + Number(others', W) = Total(W)
    BY <1>0, IndexGrows
<1>3. \A W \in SUBSET Times : Errors(W) \in Nat /\ Number(errors', W) \in Nat
    BY <1>0, <1>2, NumberType DEF Errors, Types
<1>4. late' \in BOOLEAN /\ (~ late' => ~ late /\ t = clock)
    <2>1. late' = (late \/ t < clock) /\ t <= clock /\ t \in Int /\ clock \in Int
        BY <1>0 DEF IndexLog, Types, Times
    <2>2. late' \in BOOLEAN
        BY <2>1, Zenon
    <2>3. ~ late' => ~ late /\ ~ (t < clock)
        BY <2>1, Zenon
    <2>4. ~ (t < clock) => t = clock
        BY <2>1
    <2> QED
        BY <2>2, <2>3, <2>4, Zenon
<1>5. Types'
    BY <1>0, <1>1, <1>2, <1>4 DEF Types
<1>6. ASSUME NEW x \in 0..MaxLogs, NEW at PROVE
        x <= Errors(CurrentWindow(at)) => x <= Number(errors', CurrentWindow(at))
    <2>1. CurrentWindow(at) \in SUBSET Times
        BY Windows
    <2>2. /\ Errors(CurrentWindow(at)) <= Number(errors', CurrentWindow(at))
          /\ Errors(CurrentWindow(at)) \in Nat /\ Number(errors', CurrentWindow(at)) \in Nat
        BY <1>2, <1>3, <2>1
    <2> QED
        BY <2>2
<1>7. ASSUME NEW x \in 0..MaxLogs, NEW at PROVE
        x <= Errors(BaselineWindow(at)) => x <= Number(errors', BaselineWindow(at))
    <2>1. BaselineWindow(at) \in SUBSET Times
        BY Windows
    <2>2. /\ Errors(BaselineWindow(at)) <= Number(errors', BaselineWindow(at))
          /\ Errors(BaselineWindow(at)) \in Nat /\ Number(errors', BaselineWindow(at)) \in Nat
        BY <1>2, <1>3, <2>1
    <2> QED
        BY <2>2
<1>8. current.err \in 0..MaxLogs /\ baseline.err \in 0..MaxLogs
    BY <1>0 DEF Types, Count
<1>9. Counting'
    BY <1>1, <1>6, <1>7, <1>8 DEF IInv, Counting, Counted, Errors
<1>10. \A a \in alerts : a.current.err \in 0..MaxLogs /\ a.at \in Times /\ a.at <= clock
    BY <1>0 DEF Types, Count
<1>11. Alerting'
    BY <1>1, <1>6, <1>10 DEF IInv, Alerting, Errors
<1>12. ASSUME ~ late', NEW at \in Times, at <= clock
       PROVE  /\ Errors(BaselineWindow(at))' = Errors(BaselineWindow(at))
              /\ Total(BaselineWindow(at))' = Total(BaselineWindow(at))
    <2>1. BaselineWindow(at) \in SUBSET Times /\ t \notin BaselineWindow(at)
        BY <1>0, <1>4, <1>12, Windows, BaselineBehind
    <2> QED
        BY <2>1, <1>2 DEF Errors, Total
<1>13. now \in Times /\ now <= clock
    BY <1>0 DEF Types
<1>14. Steady'
    BY <1>1, <1>4, <1>12, <1>13 DEF IInv, Steady
<1>15. SurgeOverWindow'
    BY <1>1, <1>4, <1>10, <1>12 DEF IInv, SurgeOverWindow
<1> QED
    BY <1>5, <1>9, <1>11, <1>14, <1>15 DEF IInv

\* A step that only evaluates leaves the index and what was said of it alone.
LEMMA EvaluationReads ==
    ASSUME IInv, UNCHANGED <<errors, others, alerts>>
    PROVE  /\ Alerting'
           /\ UNCHANGED <<failures, late>> => SurgeOverWindow'
           /\ \A W \in SUBSET Times : Errors(W)' = Errors(W) /\ Total(W)' = Total(W)
           /\ Indexed' = Indexed
<1>1. \A W : Errors(W)' = Errors(W) /\ Total(W)' = Total(W)
    BY DEF Errors, Total
<1>2. Indexed' = Indexed
    BY DEF Indexed
<1>3. Alerting'
    BY <1>1 DEF IInv, Alerting
<1>4. UNCHANGED <<failures, late>> => SurgeOverWindow'
    BY <1>1 DEF IInv, SurgeOverWindow
<1> QED
    BY <1>1, <1>2, <1>3, <1>4

\* The clock moves on; no window depends on it.
LEMMA TickKeeps == ASSUME IInv, Tick PROVE IInv'
<1>1. UNCHANGED <<errors, others, failures, pc, now, current, baseline, alerts, late>>
    BY DEF Tick
<1>2. /\ Alerting' /\ SurgeOverWindow' /\ Indexed' = Indexed
      /\ \A W \in SUBSET Times : Errors(W)' = Errors(W) /\ Total(W)' = Total(W)
    BY <1>1, EvaluationReads
<1>3. Types'
    <2>1. Types /\ MaxTime \in Nat
        BY SpikeAssumption DEF IInv
    <2>2. clock' = clock + 1 /\ clock' \in Times
        BY <2>1 DEF Tick, Types, Times
    <2>3. now' \in Times /\ now' <= clock' /\ \A a \in alerts : a.at <= clock'
        BY <1>1, <2>1, <2>2 DEF Types, Times
    <2> QED
        BY <1>1, <1>2, <2>1, <2>2, <2>3 DEF Types
<1>4. Counting' /\ Steady'
    BY <1>1 DEF IInv, Counting, Counted, Steady, Errors, Total
<1> QED
    BY <1>2, <1>3, <1>4 DEF IInv

\* An evaluation begins at the clock's time with nothing counted.
LEMMA BeginKeeps == ASSUME IInv, Begin PROVE IInv'
<1>1. UNCHANGED <<errors, others, clock, failures, alerts, late>>
    BY DEF Begin
<1>2. Alerting' /\ SurgeOverWindow' /\ Indexed' = Indexed
    BY <1>1, EvaluationReads
<1>3. pc' = "errors" /\ now' = clock /\ current' = NoCount /\ baseline' = NoCount
    BY DEF Begin
<1>4. NoCount \in Count
    BY SpikeAssumption DEF NoCount, Count
<1>5. Types'
    <2>1. Types /\ now' \in Times /\ now' <= clock'
        BY <1>1, <1>3 DEF IInv, Types, Times
    <2> QED
        BY <1>1, <1>2, <1>3, <1>4, <2>1 DEF Types
<1>6. Counting' /\ Steady'
    BY <1>3 DEF Counting, Steady
<1> QED
    BY <1>2, <1>5, <1>6 DEF IInv

\* What two queries about a window return, the second after more was indexed.
LEMMA QueriesCount ==
    ASSUME Types, NEW W \in SUBSET Times, NEW c \in Count, c.err <= Errors(W)
    PROVE  /\ FirstCount(W) \in Count /\ FirstCount(W).err = Errors(W)
           /\ SecondCount(c, W) \in Count /\ SecondCount(c, W).err = c.err
           /\ SecondCount(c, W).err <= SecondCount(c, W).total
<1>1. /\ Errors(W) \in 0..MaxLogs /\ Total(W) \in 0..MaxLogs /\ Errors(W) <= Total(W)
      /\ AtLeastOne(Total(W)) \in 1..(MaxLogs + 1) /\ Total(W) <= AtLeastOne(Total(W))
    BY CountsBounded
<1>2. MaxLogs \in Nat /\ c.err \in 0..MaxLogs
    BY SpikeAssumption DEF Count
<1>3. FirstCount(W) \in Count /\ FirstCount(W).err = Errors(W)
    BY <1>1, <1>2 DEF FirstCount, Count
<1>4. SecondCount(c, W) \in Count /\ SecondCount(c, W).err = c.err
    BY <1>1, <1>2 DEF SecondCount, Count
<1>5. c.err <= AtLeastOne(Total(W)) /\ SecondCount(c, W).total = AtLeastOne(Total(W))
    BY <1>1, <1>2 DEF SecondCount
<1> QED
    BY <1>3, <1>4, <1>5

LEMMA CountErrorsKeeps == ASSUME IInv, CountErrors PROVE IInv'
<1>1. UNCHANGED <<errors, others, clock, failures, now, baseline, alerts, late>>
    BY DEF CountErrors
<1>2. Alerting' /\ SurgeOverWindow' /\ Indexed' = Indexed
    BY <1>1, EvaluationReads
<1>3. pc' = "total" /\ current' = FirstCount(CurrentWindow(now)) /\ Types
    BY DEF CountErrors, IInv
<1>4. NoCount \in Count /\ NoCount.err = 0
    BY SpikeAssumption DEF NoCount, Count
<1>5. CurrentWindow(now) \in SUBSET Times /\ Errors(CurrentWindow(now)) \in 0..MaxLogs
    BY <1>3, Windows, CountsBounded
<1>6. current' \in Count /\ current'.err = Errors(CurrentWindow(now))
    BY <1>3, <1>4, <1>5, QueriesCount
<1>7. Types'
    BY <1>1, <1>2, <1>3, <1>6 DEF Types
<1>8. Counting' /\ Steady'
    BY <1>1, <1>3, <1>5, <1>6 DEF Counting, Steady, Errors
<1> QED
    BY <1>2, <1>7, <1>8 DEF IInv

LEMMA CountTotalKeeps == ASSUME IInv, CountTotal PROVE IInv'
<1>1. UNCHANGED <<errors, others, clock, failures, now, baseline, alerts, late>>
    BY DEF CountTotal, NoAlert
<1>2. Alerting' /\ SurgeOverWindow' /\ Indexed' = Indexed
    BY <1>1, EvaluationReads
<1>3. Types /\ current \in Count /\ current.err <= Errors(CurrentWindow(now))
    BY DEF CountTotal, IInv, Counting, Types
<1>4. /\ current' = SecondCount(current, CurrentWindow(now))
      /\ \/ pc' = "idle"
         \/ pc' = "baseErrors" /\ ~ (current'.err < MinErrors)
    BY DEF CountTotal, NoAlert, TooFew
<1>5. CurrentWindow(now) \in SUBSET Times
    BY Windows
<1>6. /\ current' \in Count /\ current'.err = current.err
      /\ current'.err <= current'.total
    BY <1>3, <1>4, <1>5, QueriesCount
<1>7. Types'
    BY <1>1, <1>2, <1>3, <1>4, <1>6 DEF Types
<1>8. pc' = "baseErrors" => Counted(current)'
    <2>1. current'.err \in Nat /\ MinErrors \in Nat
        BY <1>6, SpikeAssumption DEF Count
    <2>2. pc' = "baseErrors" => current'.err >= MinErrors
        BY <1>4, <2>1
    <2>3. current'.err <= Errors(CurrentWindow(now))'
        BY <1>1, <1>3, <1>6 DEF Errors
    <2> QED
        BY <1>6, <2>2, <2>3 DEF Counted
<1>9. Counting' /\ Steady'
    BY <1>4, <1>8 DEF Counting, Steady
<1> QED
    BY <1>2, <1>7, <1>9 DEF IInv

LEMMA CountBaseErrorsKeeps == ASSUME IInv, CountBaseErrors PROVE IInv'
<1>1. UNCHANGED <<errors, others, clock, failures, now, current, alerts, late>>
    BY DEF CountBaseErrors
<1>2. Alerting' /\ SurgeOverWindow' /\ Indexed' = Indexed
    BY <1>1, EvaluationReads
<1>3. /\ pc' = "baseTotal" /\ baseline' = FirstCount(BaselineWindow(now))
      /\ Types /\ Counted(current)
    BY DEF CountBaseErrors, IInv, Counting
<1>4. NoCount \in Count /\ NoCount.err = 0
    BY SpikeAssumption DEF NoCount, Count
<1>5. BaselineWindow(now) \in SUBSET Times /\ Errors(BaselineWindow(now)) \in 0..MaxLogs
    BY <1>3, Windows, CountsBounded
<1>6. baseline' \in Count /\ baseline'.err = Errors(BaselineWindow(now))
    BY <1>3, <1>4, <1>5, QueriesCount
<1>7. Types'
    BY <1>1, <1>2, <1>3, <1>6 DEF Types
<1>8. Errors(BaselineWindow(now))' = Errors(BaselineWindow(now))
    BY <1>1 DEF Errors
<1>9. Counted(current)'
    BY <1>1, <1>3 DEF Counted, Errors
<1>10. Counting' /\ Steady'
    BY <1>3, <1>5, <1>6, <1>8, <1>9 DEF Counting, Steady
<1> QED
    BY <1>2, <1>7, <1>10 DEF IInv

LEMMA CountBaseTotalKeeps == ASSUME IInv, CountBaseTotal PROVE IInv'
<1>1. UNCHANGED <<errors, others, clock, failures, now, current, alerts, late>>
    BY DEF CountBaseTotal
<1>2. Alerting' /\ SurgeOverWindow' /\ Indexed' = Indexed
    BY <1>1, EvaluationReads
<1>3. /\ pc = "baseTotal" /\ pc' = "decide"
      /\ baseline' = SecondCount(baseline, BaselineWindow(now))
      /\ Types /\ Counted(current) /\ baseline.err <= Errors(BaselineWindow(now))
    BY DEF CountBaseTotal, IInv, Counting
<1>4. BaselineWindow(now) \in SUBSET Times /\ baseline \in Count
    BY <1>3, Windows DEF Types
<1>5. /\ baseline' \in Count /\ baseline'.err = baseline.err
      /\ baseline'.err <= baseline'.total
    BY <1>3, <1>4, QueriesCount
<1>6. Types'
    BY <1>1, <1>2, <1>3, <1>5 DEF Types
<1>7. Counted(current)'
    BY <1>1, <1>3 DEF Counted, Errors
<1>8. Counting'
    BY <1>3, <1>5, <1>7 DEF Counting
<1>9. /\ Errors(BaselineWindow(now))' = Errors(BaselineWindow(now))
      /\ Total(BaselineWindow(now))' = Total(BaselineWindow(now))
    BY <1>1 DEF Errors, Total
<1>10. baseline'.total = AtLeastOne(Total(BaselineWindow(now)))
    BY <1>3 DEF SecondCount
<1>11. Steady'
    BY <1>1, <1>3, <1>5, <1>9, <1>10 DEF IInv, Steady
<1> QED
    BY <1>2, <1>6, <1>8, <1>11 DEF IInv

\* A failed query gives (0, 1): with no minimum the evaluation goes on with it.
LEMMA QueryFailsKeeps == ASSUME IInv, QueryFails PROVE IInv'
<1>1. UNCHANGED <<errors, others, clock, now, late>> /\ failures' = failures + 1
    BY DEF QueryFails
<1>2. alerts' = alerts
    BY DEF QueryFails, NoAlert
<1>3. Types /\ Counting
    BY DEF IInv
<1>4. Alerting' /\ Indexed' = Indexed
    BY <1>1, <1>2, EvaluationReads
<1>5. failures' \in 0..MaxFailures /\ failures' # 0
    BY <1>1, <1>3, SpikeAssumption DEF QueryFails, Types
<1>6. NoCount \in Count /\ NoCount.err = 0 /\ NoCount.total = 1
    BY SpikeAssumption DEF NoCount, Count
<1>7. CASE /\ pc \in {"errors", "total"} /\ current' = NoCount /\ baseline' = baseline
           /\ pc' = "idle" \/ (pc' = "baseErrors" /\ ~ TooFew(0))
    <2>1. Types'
        BY <1>1, <1>2, <1>3, <1>4, <1>5, <1>6, <1>7 DEF Types
    <2>2. pc' = "baseErrors" => Counted(current)'
        <3>1. pc' = "baseErrors" => 0 >= MinErrors
            BY <1>7, SpikeAssumption DEF TooFew
        <3>2. CurrentWindow(now) \in SUBSET Times
            BY Windows
        <3>3. Errors(CurrentWindow(now)) \in 0..MaxLogs
            BY <1>3, <3>2, CountsBounded
        <3>4. Errors(CurrentWindow(now))' = Errors(CurrentWindow(now))
            BY <1>1 DEF Errors
        <3> QED
            BY <1>6, <1>7, <3>1, <3>3, <3>4 DEF Counted
    <2>3. Counting'
        BY <1>7, <2>2 DEF Counting
    <2> QED
        BY <1>4, <1>5, <2>1, <2>3 DEF IInv, Steady, SurgeOverWindow
<1>8. CASE /\ pc \in {"baseErrors", "baseTotal"} /\ baseline' = NoCount
           /\ pc' = "decide" /\ current' = current
    <2>1. Types'
        BY <1>1, <1>2, <1>3, <1>4, <1>5, <1>6, <1>8 DEF Types
    <2>2. Counted(current)'
        BY <1>1, <1>3, <1>8 DEF Counting, Counted, Errors
    <2>3. Counting'
        BY <1>6, <1>8, <2>2 DEF Counting
    <2> QED
        BY <1>4, <1>5, <2>1, <2>3 DEF IInv, Steady, SurgeOverWindow
<1> QED
    BY <1>7, <1>8 DEF QueryFails, NoAlert

\* A surge is Surge times the baseline rate at least, exact or rounded.
LEMMA SurgeIsSurge ==
    ASSUME NEW c \in Count, NEW b \in Count, NEW exact \in BOOLEAN, IsSurge(c, b, exact)
    PROVE  c.err * b.total >= Surge * b.err * c.total
<1>1. /\ c.err \in Nat /\ c.total \in Nat /\ b.err \in Nat /\ b.total \in Nat
      /\ Surge \in Nat
    BY SpikeAssumption DEF Count
<1> DEFINE x == c.err * b.total
           y == Surge * b.err * c.total
<1>2. x \in Nat /\ y \in Nat
    <2>1. \A m \in Nat, n \in Nat : m * n \in Nat
        OBVIOUS
    <2>2. Surge * b.err \in Nat
        BY <1>1, <2>1
    <2> QED
        BY <1>1, <2>1, <2>2
<1>3. b.err = 0 => y = 0
    <2>1. \A m \in Nat : m * 0 = 0 /\ 0 * m = 0
        OBVIOUS
    <2> QED
        BY <1>1, <2>1
<1>4. Above(c, b) => x > y
    BY DEF Above
<1>5. Equal(c, b) => x = y
    BY DEF Equal
<1>6. b.err = 0 \/ Above(c, b) \/ Equal(c, b)
    BY Zenon DEF IsSurge
<1> HIDE DEF x, y
<1>7. x >= y
    BY <1>2, <1>3, <1>4, <1>5, <1>6
<1> QED
    BY <1>7 DEF x, y

LEMMA DecideKeeps == ASSUME IInv, Decide PROVE IInv'
<1>1. UNCHANGED <<errors, others, clock, failures, now, current, baseline, late>> /\ pc' = "idle"
    BY DEF Decide, NoAlert
<1>2. /\ Types /\ Counted(current) /\ now \in Times /\ now <= clock
      /\ current \in Count /\ baseline \in Count /\ Alerting /\ SurgeOverWindow
    BY DEF Decide, IInv, Counting, Types
<1> DEFINE a0 == [at |-> now, current |-> current, baseline |-> baseline]
<1>3. \/ alerts' = alerts
      \/ /\ alerts' = alerts \cup {a0}
         /\ \E exact \in BOOLEAN : IsSurge(current, baseline, exact)
    BY DEF Decide, NoAlert
<1>4. Indexed' = Indexed /\ \A W : Errors(W)' = Errors(W) /\ Total(W)' = Total(W)
    BY <1>1 DEF Indexed, Errors, Total
<1>5. a0 \in [at : Times, current : Count, baseline : Count] /\ a0.at <= clock
    BY <1>2
<1>6. Types'
    BY <1>1, <1>2, <1>3, <1>4, <1>5 DEF Types
<1>7. Alerting'
    <2>1. /\ a0.current.err >= MinErrors /\ a0.current.err <= a0.current.total
          /\ a0.current.err <= Errors(CurrentWindow(a0.at))
        BY <1>2 DEF Counted
    <2> QED
        BY <1>2, <1>3, <1>4, <2>1 DEF Alerting
<1>8. SurgeOverWindow'
    <2> SUFFICES ASSUME failures = 0, ~ late
                 PROVE  \A a \in alerts' :
                          a.current.err * AtLeastOne(Total(BaselineWindow(a.at)))
                            >= Surge * Errors(BaselineWindow(a.at)) * a.current.total
        BY <1>1, <1>4 DEF SurgeOverWindow
    <2>1. /\ baseline.err = Errors(BaselineWindow(now))
          /\ baseline.total = AtLeastOne(Total(BaselineWindow(now)))
        BY DEF IInv, Steady, Decide
    <2>2. ASSUME NEW exact \in BOOLEAN, IsSurge(current, baseline, exact)
          PROVE  a0.current.err * AtLeastOne(Total(BaselineWindow(a0.at)))
                    >= Surge * Errors(BaselineWindow(a0.at)) * a0.current.total
        <3>1. current.err * baseline.total >= Surge * baseline.err * current.total
            BY <1>2, <2>2, SurgeIsSurge
        <3> QED
            BY <2>1, <3>1
    <2> HIDE DEF a0
    <2> QED
        BY <1>2, <1>3, <2>2 DEF SurgeOverWindow
<1>9. Counting' /\ Steady'
    BY <1>1 DEF Counting, Steady
<1> QED
    BY <1>6, <1>7, <1>8, <1>9 DEF IInv
----------------------------------------------------------------------------
LEMMA InitIInv == Init => IInv
<1> SUFFICES ASSUME Init PROVE IInv
    OBVIOUS
<1>1. /\ {Surge, MaxTime, MaxLogs, MaxFailures} \subseteq Nat
      /\ errors \in Documents /\ others \in Documents
      /\ \A t \in Times : errors[t] = 0 /\ others[t] = 0
    BY SpikeAssumption DEF Init, Documents
<1>2. Indexed = 0
    <2>1. \A t \in Times : {t} \X (1..errors[t]) = {} /\ {t} \X (1..others[t]) = {}
        BY <1>1
    <2>2. Docs(errors, Times) = {} /\ Docs(others, Times) = {}
        BY <2>1 DEF Docs
    <2> QED
        BY <2>2, FS_EmptySet DEF Indexed, Number
<1>3. NoCount \in Count
    BY <1>1 DEF NoCount, Count
<1>4. late \in BOOLEAN
    BY DEF Init
<1>5. Types
    BY <1>1, <1>2, <1>3, <1>4 DEF Init, Types, Times
<1> QED
    BY <1>5 DEF Init, IInv, Counting, Alerting, Steady, SurgeOverWindow

LEMMA NextIInv == IInv /\ [Next]_vars => IInv'
<1> SUFFICES ASSUME IInv, [Next]_vars PROVE IInv'
    OBVIOUS
<1>1. CASE Tick
    BY <1>1, TickKeeps
<1>2. ASSUME NEW t \in Times, NEW isError \in BOOLEAN, IndexLog(t, isError) PROVE IInv'
    BY <1>2, IndexKeeps
<1>3. CASE Begin
    BY <1>3, BeginKeeps
<1>4. CASE CountErrors
    BY <1>4, CountErrorsKeeps
<1>5. CASE CountTotal
    BY <1>5, CountTotalKeeps
<1>6. CASE CountBaseErrors
    BY <1>6, CountBaseErrorsKeeps
<1>7. CASE CountBaseTotal
    BY <1>7, CountBaseTotalKeeps
<1>8. CASE QueryFails
    BY <1>8, QueryFailsKeeps
<1>9. CASE Decide
    BY <1>9, DecideKeeps
<1>10. CASE UNCHANGED vars
    BY <1>10 DEF vars, IInv, Types, Counting, Counted, Alerting, Steady, SurgeOverWindow,
                 Indexed, Errors, Total
<1> QED
    BY <1>1, <1>2, <1>3, <1>4, <1>5, <1>6, <1>7, <1>8, <1>9, <1>10 DEF Next, Evaluation

LEMMA Invariance == Spec => []IInv
<1> QED
    BY InitIInv, NextIInv, PTL DEF Spec

\* The index never holds more than it was given, and every count an evaluation
\* made or reported is one the index could have returned (correlation/log_store.py,
\* get_service_error_rate).
THEOREM SpikeTypeOK == Spec => []TypeOK
<1>1. IInv => TypeOK
    <2> SUFFICES ASSUME Types PROVE TypeOK
        BY DEF IInv
    <2>1. ASSUME NEW f \in Documents, Number(f, Times) <= MaxLogs PROVE f \in [Times -> 0..MaxLogs]
        <3>1. \A t \in Times : f[t] <= Number(f, Times) /\ f[t] \in Nat
            BY InstantBound DEF Documents
        <3>2. Number(f, Times) \in Nat /\ MaxLogs \in Nat
            BY NumberType, SpikeAssumption
        <3>3. \A t \in Times : f[t] \in 0..MaxLogs
            BY <2>1, <3>1, <3>2
        <3> QED
            BY <3>3 DEF Documents
    <2>2. Number(errors, Times) <= MaxLogs /\ Number(others, Times) <= MaxLogs
        <3>1. Number(errors, Times) \in Nat /\ Number(others, Times) \in Nat
            BY NumberType DEF Types
        <3> QED
            BY <3>1, SpikeAssumption DEF Types, Indexed
    <2> QED
        BY <2>1, <2>2 DEF Types, TypeOK
<1> QED
    BY <1>1, Invariance, PTL

\* An error rate that evaluate_service compares or reports (correlation/detector.py)
\* is at most one although its two counts are two queries: the total is
\* counted after the errors and the index only grows.
THEOREM RatesNeverExceedOne == Spec => []RatesAreRates
<1>1. IInv => RatesAreRates
    BY DEF IInv, Counting, Counted, Alerting, RatesAreRates
<1> QED
    BY <1>1, Invariance, PTL

\* The errors that min_error_count is compared with (correlation/detector.py,
\* evaluate_service) are in the alert's window for good, whatever fails or comes late.
THEOREM AlertsHaveTheirErrors == Spec => []AlertsCounted
<1>1. IInv => AlertsCounted
    BY DEF IInv, Alerting, AlertsCounted
<1> QED
    BY <1>1, Invariance, PTL

\* An alert is a surge over its baseline window as it stands in the index
\* (correlation/detector.py, evaluate_service): only a late log or a failed query
\* makes it less.
THEOREM AlertsAreSurges == Spec => []SurgeOverWindow
<1>1. IInv => SurgeOverWindow
    BY DEF IInv
<1> QED
    BY <1>1, Invariance, PTL
=============================================================================
