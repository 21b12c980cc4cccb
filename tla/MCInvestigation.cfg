SPECIFICATION FairSpec
CONSTANTS
    q1 = q1
    q2 = q2
    search_logs = search_logs
    unknown = unknown
    SearchLogs = search_logs
    Unknown = unknown
    Requests <- TwoRequests
    ToolNames <- OneTool
    MaxSteps = 2
    MaxCalls = 2
    MaxTime = 2
INVARIANTS TypeOK CallsAnswered ReturnedStored DiagnosisAlone
PROPERTIES ServedForward InvestigationEnds
CHECK_DEADLOCK FALSE
