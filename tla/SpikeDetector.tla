--------------------------- MODULE SpikeDetector ---------------------------
(***************************************************************************)
(* Error-rate spike detection for one service of a tenant.  An evaluation  *)
(* asks Elasticsearch for four counts, one query after the other, while    *)
(* logs are being indexed, late ones too; any query may fail.              *)
(***************************************************************************)
EXTENDS Integers, FiniteSets

CONSTANTS
    Lookback, Baseline,  \* lookback_seconds and the ten minutes before it
    MinErrors,           \* min_error_count
    Surge,               \* surge_multiplier, 3
    ThresholdNum, ThresholdDen,    \* absolute_threshold, 1/20
    MaxTime, MaxLogs, MaxFailures  \* bounds: clock, indexed logs, failures

ASSUME SpikeAssumption ==
    /\ {Baseline, MinErrors, Surge, ThresholdNum, MaxTime, MaxLogs,
        MaxFailures} \subseteq Nat
    /\ Lookback \in Nat \ {0}   \* at least ten seconds
    /\ ThresholdDen \in Nat \ {0}

VARIABLES
    errors, others,  \* [Times -> logs indexed with this timestamp]
    clock, failures,
    pc, now,         \* the evaluation in progress and its time
    current, baseline,  \* what it has counted
    alerts,          \* alerts raised, with their time and counts
    late             \* history: a log was indexed behind the clock

vars == <<errors, others, clock, failures, pc, now, current, baseline, alerts, late>>

Times == 0..MaxTime
NoCount == [err |-> 0, total |-> 1]   \* also the answer when a query fails

Init == /\ errors = [t \in Times |-> 0] /\ others = [t \in Times |-> 0]
        /\ clock = 0 /\ failures = 0
        /\ pc = "idle" /\ now = 0
        /\ current = NoCount /\ baseline = NoCount
        /\ alerts = {} /\ late = FALSE

\* the documents of a window, of logs numbered in each instant
Docs(logs, window) == UNION {{t} \X (1..logs[t]) : t \in window}
Number(logs, window) == Cardinality(Docs(logs, window))

Indexed == Number(errors, Times) + Number(others, Times)

\* the indexer writes a log, with a timestamp of now or of the past
IndexLog(t, isError) ==
    /\ t <= clock /\ Indexed < MaxLogs
    /\ IF isError THEN /\ errors' = [errors EXCEPT ![t] = @ + 1]
                       /\ UNCHANGED others
                  ELSE /\ others' = [others EXCEPT ![t] = @ + 1]
                       /\ UNCHANGED errors
    /\ late' = (late \/ t < clock)
    /\ UNCHANGED <<clock, failures, pc, now, current, baseline, alerts>>

Tick == /\ clock < MaxTime
        /\ clock' = clock + 1
        /\ UNCHANGED <<errors, others, failures, pc, now, current, baseline, alerts, late>>
----------------------------------------------------------------------------
\* both ends belong to a window
Window(start, end) == {t \in Times : start <= t /\ t <= end}
CurrentWindow(at) == Window(at - Lookback, at)
BaselineWindow(at) == Window(at - Lookback - Baseline, at - Lookback)

Errors(window) == Number(errors, window)
Total(window) == Number(errors, window) + Number(others, window)
AtLeastOne(n) == IF n = 0 THEN 1 ELSE n

\* get_active_services found the service in the current window
Begin ==
    /\ pc = "idle" /\ Total(CurrentWindow(clock)) > 0
    /\ pc' = "errors" /\ now' = clock
    /\ current' = NoCount /\ baseline' = NoCount
    /\ UNCHANGED <<errors, others, clock, failures, alerts, late>>

\* get_service_error_rate counts the errors first, then all the logs
FirstCount(window) == [err |-> Errors(window), total |-> 1]
SecondCount_Others(count, window) ==   \* mutant: the errors are left out
    [err |-> count.err, total |-> AtLeastOne(Number(others, window))]
SecondCount(count, window) == [err |-> count.err, total |-> AtLeastOne(Total(window))]

CountErrors ==
    /\ pc = "errors"
    /\ pc' = "total" /\ current' = FirstCount(CurrentWindow(now))
    /\ UNCHANGED <<errors, others, clock, failures, now, baseline, alerts, late>>

TooFew_OffByOne(err) == err + 1 < MinErrors   \* mutant
TooFew(err) == err < MinErrors

NoAlert == pc' = "idle" /\ UNCHANGED alerts

\* after the second count the error count is compared with the threshold
CountTotal ==
    /\ pc = "total"
    /\ current' = SecondCount(current, CurrentWindow(now))
    /\ IF TooFew(current'.err) THEN NoAlert
       ELSE pc' = "baseErrors" /\ UNCHANGED alerts
    /\ UNCHANGED <<errors, others, clock, failures, now, baseline, late>>

CountBaseErrors ==
    /\ pc = "baseErrors"
    /\ pc' = "baseTotal" /\ baseline' = FirstCount(BaselineWindow(now))
    /\ UNCHANGED <<errors, others, clock, failures, now, current, alerts, late>>

CountBaseTotal ==
    /\ pc = "baseTotal"
    /\ pc' = "decide" /\ baseline' = SecondCount(baseline, BaselineWindow(now))
    /\ UNCHANGED <<errors, others, clock, failures, now, current, alerts, late>>

\* either query of a pair fails: the pair is (0, 1)
QueryFails ==
    /\ failures < MaxFailures
    /\ failures' = failures + 1
    /\ \/ /\ pc \in {"errors", "total"}
          /\ current' = NoCount
          /\ IF TooFew(0) THEN NoAlert
             ELSE pc' = "baseErrors" /\ UNCHANGED alerts
          /\ UNCHANGED baseline
       \/ /\ pc \in {"baseErrors", "baseTotal"}
          /\ baseline' = NoCount /\ pc' = "decide"
          /\ UNCHANGED <<current, alerts>>
    /\ UNCHANGED <<errors, others, clock, now, late>>

\* rates compared by cross-multiplication; the program divides and multiplies
\* floats, so that rates exactly Surge apart may or may not make a surge
Above(c, b) == c.err * b.total > Surge * b.err * c.total
Equal(c, b) == c.err * b.total = Surge * b.err * c.total
High(c) == c.err * ThresholdDen >= ThresholdNum * c.total

IsSurge_Absolute(c, b, exact) == High(c)   \* mutant: no comparison
IsSurge(c, b, exact) ==
    \/ b.err > 0 /\ (Above(c, b) \/ (Equal(c, b) /\ exact))
    \/ b.err = 0 /\ High(c)

Decide ==
    /\ pc = "decide"
    /\ \E exact \in BOOLEAN :
           IF IsSurge(current, baseline, exact)
           THEN /\ pc' = "idle"
                /\ alerts' = alerts \cup
                       {[at |-> now, current |-> current, baseline |-> baseline]}
           ELSE NoAlert
    /\ UNCHANGED <<errors, others, clock, failures, now, current, baseline, late>>
----------------------------------------------------------------------------
Evaluation == \/ Begin \/ CountErrors \/ CountTotal
              \/ CountBaseErrors \/ CountBaseTotal \/ QueryFails \/ Decide

Next == \/ Tick
        \/ \E t \in Times, isError \in BOOLEAN : IndexLog(t, isError)
        \/ Evaluation

Spec == Init /\ [][Next]_vars
----------------------------------------------------------------------------
Count == [err : 0..MaxLogs, total : 1..(MaxLogs + 1)]

\* The type invariant.
TypeOK ==
    /\ errors \in [Times -> 0..MaxLogs] /\ others \in [Times -> 0..MaxLogs]
    /\ Indexed <= MaxLogs
    /\ clock \in Times /\ now \in Times /\ failures \in 0..MaxFailures
    /\ pc \in {"idle", "errors", "total", "baseErrors", "baseTotal", "decide"}
    /\ current \in Count /\ baseline \in Count
    /\ alerts \subseteq [at : Times, current : Count, baseline : Count]
    /\ late \in BOOLEAN

\* However the indexer interleaves with the four counts, no error rate that is
\* compared or reported exceeds one.
RatesAreRates ==
    /\ pc = "decide" => current.err <= current.total /\ baseline.err <= baseline.total
    /\ \A a \in alerts : a.current.err <= a.current.total

\* An alert is never raised on fewer errors than the minimum: they are in its
\* window, even when queries fail or logs arrive late.
AlertsCounted ==
    \A a \in alerts : /\ a.current.err >= MinErrors
                      /\ a.current.err <= Errors(CurrentWindow(a.at))

\* As long as no query failed and no log was late, an alert is a surge over the
\* baseline window: Surge times its rate at least, whatever was indexed between
\* the counts.
SurgeOverWindow ==
    failures = 0 /\ ~ late => \A a \in alerts :
        a.current.err * AtLeastOne(Total(BaselineWindow(a.at)))
            >= Surge * Errors(BaselineWindow(a.at)) * a.current.total
============================================================================
