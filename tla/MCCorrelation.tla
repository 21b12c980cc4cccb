--------------------------- MODULE MCCorrelation ---------------------------
(***************************************************************************)
(* Instances of Correlation for TLC: the simulator's five services and the *)
(* failures it injects, or two traces that meet in a chain of services.    *)
(***************************************************************************)
EXTENDS FallbackReport, Scenarios

CONSTANTS tr1, tr2, tr3, tr4, tr5, e1, e2, o1

FiveServices == {api_gateway, auth_service, order_service, payment_service,
                 notification_service}
SimulatedCalls == {<<api_gateway, auth_service>>, <<api_gateway, order_service>>,
                   <<order_service, payment_service>>,
                   <<order_service, notification_service>>}

\* a payment timeout and, right after it, a failure of the service above; one
\* and a half minutes later an authentication failure and a retry storm
FiveTraces == {tr1, tr2, tr3, tr4, tr5}
FourFailures ==
    {[trace |-> tr1, what |-> generate_payment_timeout_scenario, start |-> 0],
     [trace |-> tr2, what |-> generate_db_pool_scenario, start |-> 8000],
     [trace |-> tr3, what |-> generate_auth_failure_scenario, start |-> 100000],
     [trace |-> tr4, what |-> generate_retry_storm_scenario, start |-> 100010],
     [trace |-> tr5, what |-> generate_steady_state_trace, start |-> 100000]}
ThreeInstants == {8100, 100200, 150000}

\* both traces are seen at once
TwoTraces == {tr1, tr2}
TwoFailures == {x \in FourFailures : x.trace \in TwoTraces}
OneInstant == {8100}

OneEvaluator == {e1}
TwoEvaluators == {e1, e2}
OneOperator == {o1}
============================================================================
