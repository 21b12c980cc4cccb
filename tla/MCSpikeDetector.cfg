SPECIFICATION Spec
CONSTANTS
    Lookback = 1
    Baseline = 2
    MinErrors = 2
    Surge = 2
    ThresholdNum = 1
    ThresholdDen = 2
    MaxTime = 2
    MaxLogs = 5
    MaxFailures = 1
INVARIANTS RatesAreRates AlertsCounted SurgeOverWindow
CHECK_DEADLOCK FALSE
