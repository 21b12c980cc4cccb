----------------------------- MODULE Scenarios -----------------------------
(***************************************************************************)
(* What the simulator emits, and the ground truth it records with each     *)
(* injected failure: the service that is the root cause and the services   *)
(* that are affected.  Correlation reads the emitted logs, and what it     *)
(* makes of them is compared with the ground truth.                        *)
(***************************************************************************)
EXTENDS Correlation, SequencesExt

CONSTANTS
    api_gateway, auth_service, order_service,   \* ServiceName
    payment_service, notification_service,
    Injected   \* the traces emitted: a trace id, what it is, when it began

\* create_log_entry, as far as correlation reads it; after is in milliseconds
\* since the trace began
Entry(service, level, status, after) ==
    [service |-> service, level |-> level, status |-> status, after |-> after]

generate_steady_state_trace ==
    [logs |-> << Entry(api_gateway, "INFO", 200, 0),
                 Entry(auth_service, "INFO", 200, 8),
                 Entry(order_service, "INFO", 200, 20),
                 Entry(payment_service, "INFO", 200, 45),
                 Entry(notification_service, "INFO", 200, 60),
                 Entry(api_gateway, "INFO", 200, 70) >>]

generate_payment_timeout_scenario ==
    [logs |-> << Entry(api_gateway, "INFO", 200, 0),
                 Entry(auth_service, "INFO", 200, 10),
                 Entry(order_service, "INFO", 200, 25),
                 Entry(payment_service, "ERROR", 504, 8025),
                 Entry(order_service, "ERROR", 502, 8045),
                 Entry(api_gateway, "ERROR", 500, 8060) >>,
     root_cause |-> payment_service,
     affected |-> {payment_service, order_service, api_gateway}]

generate_db_pool_scenario ==
    [logs |-> << Entry(api_gateway, "INFO", 200, 0),
                 Entry(order_service, "ERROR", 503, 25),
                 Entry(api_gateway, "ERROR", 503, 35) >>,
     root_cause |-> order_service,
     affected |-> {order_service, api_gateway}]

generate_auth_failure_scenario ==
    [logs |-> << Entry(api_gateway, "INFO", 200, 0),
                 Entry(auth_service, "FATAL", 500, 15),
                 Entry(api_gateway, "ERROR", 401, 23) >>,
     root_cause |-> auth_service,
     affected |-> {auth_service, api_gateway}]

generate_retry_storm_scenario ==
    [logs |-> << Entry(api_gateway, "INFO", 200, 0),
                 Entry(notification_service, "ERROR", 504, 20) >>
              \o [attempt \in 1..5 |->
                     Entry(order_service, "WARN", 504, 20 + 10 * attempt)]
              \o << Entry(notification_service, "ERROR", 503, 100) >>,
     root_cause |-> notification_service,
     affected |-> {notification_service, order_service}]

SCENARIO_GENERATORS ==
    [PAYMENT_TIMEOUT         |-> generate_payment_timeout_scenario,
     DB_POOL_EXHAUSTION      |-> generate_db_pool_scenario,
     AUTH_DEPENDENCY_FAILURE |-> generate_auth_failure_scenario,
     RETRY_STORM             |-> generate_retry_storm_scenario]

Emitted(what, trace, start) ==
    {[trace |-> trace, service |-> entry.service, level |-> entry.level,
      status |-> entry.status, at |-> start + entry.after] : entry \in ToSet(what.logs)}

\* the trace id of an injected trace is fresh, and its logs are indexed
ASSUME ScenarioAssumption ==
    \A x \in Injected :
        /\ x.start \in Nat /\ x.trace \in Traces
        /\ {l \in Logs : l.trace = x.trace} = Emitted(x.what, x.trace, x.start)

AllEmitted == UNION {Emitted(x.what, x.trace, x.start) : x \in Injected}

\* every trace that is a failure, with its ground truth
Failures == {x \in Injected : x.what \in Range(SCENARIO_GENERATORS)}
----------------------------------------------------------------------------
ErrorsOf == [t \in Traces |->
    {l \in Logs : l.trace = t /\ l.level \in {"ERROR", "FATAL"}}]

\* What an evaluation put into incident i of the errors of trace t.
Seen(i, t, run) == {v.log : v \in {w \in incidents[i].events : w.run = run
                                                               /\ w.log.trace = t}}

\* When an evaluation has seen every error of an injected failure, the incident
\* it charges them to began at the root cause that the simulator recorded or at
\* a service the root cause depends on: never at one of its symptoms.
RootCauseBlamed ==
    \A x \in Failures, i \in DOMAIN incidents, run \in 0..runs :
        ErrorsOf[x.trace] \subseteq Seen(i, x.trace, run) =>
            \/ incidents[i].trigger = x.what.root_cause
            \/ incidents[i].trigger \in DependsOn[x.what.root_cause]
============================================================================
