SPECIFICATION Spec
CONSTANTS
    api_gateway = api_gateway
    auth_service = auth_service
    order_service = order_service
    payment_service = payment_service
    notification_service = notification_service
    tr1 = tr1
    tr2 = tr2
    tr3 = tr3
    tr4 = tr4
    tr5 = tr5
    e1 = e1
    e2 = e2
    o1 = o1
    Services <- FiveServices
    Dependencies <- SimulatedCalls
    Traces <- FiveTraces
    Injected <- FourFailures
    Logs <- AllEmitted
    Evaluators <- OneEvaluator
    Operators <- OneOperator
    Window = 120000
    Lookback = 60000
    FetchLimit = 4
    Instants <- ThreeInstants
    MaxRuns = 2
    MaxPatches = 1
INVARIANTS AffectedCovered RootCauseBlamed
PROPERTY SymptomsSuppressed
CHECK_DEADLOCK FALSE
