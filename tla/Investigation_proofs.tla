------------------------ MODULE Investigation_proofs ------------------------
(***************************************************************************)
(* Proofs about Investigation for every number of requests and tools,      *)
(* every budget of rounds and every number of calls in a completion.       *)
(***************************************************************************)
EXTENDS Investigation, SequenceTheorems, TLAPS

USE DEF Goto

\* The transcript: every call asked for has its reply or is still to run.
Transcript ==
    \A q \in Requests :
        /\ pc[q] \in {"new", "ask"} => calls[q] = <<>>
        /\ pc[q] = "tools" => calls[q] # <<>>
        /\ pc[q] \in {"new", "ask", "tools"} =>
               asked[q] = Len(steps[q]) + Len(calls[q])

\* The report being saved is the one of its request, with all its steps.
Reporting ==
    \A q \in Requests : pc[q] \in {"save", "saveFallback", "done"} =>
        /\ report[q] \in Report
        /\ report[q].request = q /\ report[q].steps = steps[q]
        /\ report[q].completed <= clock
        /\ pc[q] = "save" => ~ report[q].fallback
        /\ pc[q] = "saveFallback" => report[q].fallback

\* The rows of a request: none until it saves, and none newer than the
\* report being saved or returned; with a diagnosis returned, only that one.
Rows ==
    /\ \A r \in reports : r.completed <= clock
    /\ \A q \in Requests : \A r \in reports : r.request = q =>
        /\ pc[q] \notin {"new", "ask", "tools", "save"}
        /\ pc[q] \in {"saveFallback", "done"} => r.completed <= report[q].completed
        /\ pc[q] = "done" /\ ~ report[q].fallback => r = report[q]
    /\ \A q \in Requests : pc[q] = "done" => report[q] \in reports

IInv == TypeOK /\ Transcript /\ Reporting /\ Rows

\* The calls of one completion are a sequence of that length.
LEMMA CallsOfCompletion ==
    ASSUME NEW n \in Nat, NEW c \in [1..n -> Call]
    PROVE  c \in Seq(Call) /\ Len(c) = n /\ (n >= 1 => c # <<>>)
OBVIOUS

\* Taking the head of a sequence leaves one element less.
LEMMA TailLength ==
    ASSUME NEW S, NEW c \in Seq(S), c # <<>>
    PROVE  /\ Len(c) \in Nat /\ Len(Tail(c)) = Len(c) - 1
           /\ Tail(c) = <<>> => Len(Tail(c)) = 0
BY EmptySeq, HeadTailProperties, LenProperties

\* One more round pays for one more completion's calls.
LEMMA BudgetOfRound ==
    ASSUME NEW a \in Nat, NEW r \in Nat, NEW n \in 1..MaxCalls, a <= MaxCalls * r
    PROVE  a + n <= MaxCalls * (r + 1)
<1>1. MaxCalls \in Nat
    BY InvestigationAssumption
<1>2. MaxCalls * (r + 1) = MaxCalls * r + MaxCalls
    BY <1>1
<1>3. MaxCalls * r \in Nat
    BY <1>1
<1> QED
    BY <1>1, <1>2, <1>3

\* Generating a report keeps the reports in progress well-formed.
LEMMA ReportUpdate ==
    ASSUME Typed, NEW q \in Requests, NEW f \in BOOLEAN,
           report' = [report EXCEPT ![q] = Reported(q, f)]
    PROVE  report' \in [Requests -> Report \cup {NoReport}]
<1>1. Reported(q, f) \in Report
    BY DEF Typed, Reported, Report
<1> QED
    BY <1>1 DEF Typed

\* A tool call is recorded under the name of a tool.
LEMMA RecordedTyped ==
    ASSUME NEW c \in Call
    PROVE  Recorded(c) \in ToolNames
BY InvestigationAssumption DEF Call, Recorded

\* The initial state satisfies the type invariant.
LEMMA InitTypeOK == Init => TypeOK
BY InvestigationAssumption DEF Init, TypeOK, Typed, NoReport

\* Every step keeps the type invariant.
LEMMA NextTypeOK == IInv /\ [Next]_vars => TypeOK'
<1> SUFFICES ASSUME IInv, [Next]_vars PROVE TypeOK'
    OBVIOUS
<1> USE DEF IInv, TypeOK, Typed
<1>1. CASE Tick
    BY <1>1 DEF Tick
<1>2. ASSUME NEW q \in Requests, Start(q) \/ NotFound(q) PROVE TypeOK'
    BY <1>2 DEF Start, NotFound
<1> Typed /\ TypeOK
    OBVIOUS
<1>3. ASSUME NEW q \in Requests, LlmFails(q) \/ LlmAnswers(q) PROVE TypeOK'
    <2>1. report' \in [Requests -> Report \cup {NoReport}]
        BY <1>3, ReportUpdate DEF LlmFails, LlmAnswers, FallBack
    <2> QED
        BY <1>3, <2>1 DEF LlmFails, LlmAnswers, FallBack
<1>4. ASSUME NEW q \in Requests, LlmCallsTools(q) PROVE TypeOK'
    <2>1. PICK n \in 1..MaxCalls : \E c \in [1..n -> Call] :
                /\ calls' = [calls EXCEPT ![q] = c]
                /\ asked' = [asked EXCEPT ![q] = @ + n]
        BY <1>4 DEF LlmCallsTools
    <2>2. PICK c \in [1..n -> Call] : /\ calls' = [calls EXCEPT ![q] = c]
                                      /\ asked' = [asked EXCEPT ![q] = @ + n]
        BY <2>1
    <2>3. n \in Nat /\ MaxCalls \in Nat /\ MaxSteps \in Nat
        BY InvestigationAssumption
    <2>4. c \in Seq(Call)
        BY <2>3, CallsOfCompletion
    <2>5. /\ round' = [round EXCEPT ![q] = @ + 1]
          /\ round[q] \in Nat /\ round[q] < MaxSteps
        BY <1>4, <2>3 DEF LlmCallsTools, ToolsOffered
    <2>6. asked'[q] <= MaxCalls * round'[q]
        <3>1. asked[q] + n <= MaxCalls * (round[q] + 1)
            BY <2>5, BudgetOfRound
        <3> QED
            BY <2>2, <2>5, <3>1
    <2>7. \A p \in Requests : asked'[p] <= MaxCalls * round'[p]
        BY <2>2, <2>5, <2>6
    <2>8. /\ round' \in [Requests -> 0..MaxSteps] /\ asked' \in [Requests -> Nat]
          /\ calls' \in [Requests -> Seq(Call)]
        BY <2>2, <2>3, <2>4, <2>5
    <2> QED
        BY <1>4, <2>7, <2>8 DEF LlmCallsTools
<1>5. ASSUME NEW q \in Requests, RunTool(q) PROVE TypeOK'
    <2>1. Head(calls[q]) \in Call /\ Tail(calls[q]) \in Seq(Call)
        <3>1. calls[q] \in Seq(Call) /\ calls[q] # <<>>
            BY <1>5 DEF RunTool, Transcript
        <3> QED
            BY <3>1
    <2>2. Recorded(Head(calls[q])) \in ToolNames
        BY <2>1, RecordedTyped
    <2>3. steps' \in [Requests -> Seq(ToolNames)] /\ calls' \in [Requests -> Seq(Call)]
        BY <1>5, <2>1, <2>2 DEF RunTool
    <2> QED
        BY <1>5, <2>3 DEF RunTool, AfterTool
<1>6. ASSUME NEW q \in Requests, ToolRaises(q) \/ SaveRaises(q) PROVE TypeOK'
    <2>1. report' \in [Requests -> Report \cup {NoReport}]
        BY <1>6, ReportUpdate
        DEF ToolRaises, SaveRaises, AfterToolError, AfterSaveError, FallBack
    <2>2. pc[q] = "save" => report[q] \in Report
        BY DEF Reporting
    <2> QED
        BY <1>6, <2>1, <2>2
        DEF ToolRaises, SaveRaises, AfterToolError, AfterSaveError, FallBack, Written
<1>7. ASSUME NEW q \in Requests, Save(q) \/ SaveFallbackRaises(q) PROVE TypeOK'
    <2>1. report[q] \in Report
        BY <1>7 DEF Save, SaveFallbackRaises, Reporting
    <2> QED
        BY <1>7, <2>1 DEF Save, SaveFallbackRaises, Written
<1>8. CASE UNCHANGED vars
    BY <1>8 DEF vars
<1> QED
    BY <1>1, <1>2, <1>3, <1>4, <1>5, <1>6, <1>7, <1>8 DEF Next, Investigate

\* Every step keeps the transcript complete.
LEMMA NextTranscript == IInv /\ [Next]_vars => Transcript'
<1> SUFFICES ASSUME IInv, [Next]_vars, NEW q \in Requests
             PROVE  /\ pc'[q] \in {"new", "ask"} => calls'[q] = <<>>
                    /\ pc'[q] = "tools" => calls'[q] # <<>>
                    /\ pc'[q] \in {"new", "ask", "tools"} =>
                           asked'[q] = Len(steps'[q]) + Len(calls'[q])
    BY DEF Transcript
<1> USE DEF IInv, TypeOK, Typed, Transcript
<1>1. CASE UNCHANGED <<pc[q], calls[q], asked[q], steps[q]>>
    BY <1>1
<1>2. CASE Tick \/ UNCHANGED vars
    BY <1>1, <1>2 DEF Tick, vars
<1>3. ASSUME NEW p \in Requests, p # q, Start(p) \/ NotFound(p) \/ Investigate(p)
      PROVE  UNCHANGED <<pc[q], calls[q], asked[q], steps[q]>>
    BY <1>3 DEF Start, NotFound, Investigate, LlmFails, LlmCallsTools, LlmAnswers,
                RunTool, ToolRaises, Save, SaveRaises, SaveFallbackRaises,
                AfterToolError, AfterSaveError, FallBack
<1>4. CASE LlmCallsTools(q)
    <2>a. PICK n \in 1..MaxCalls : \E c \in [1..n -> Call] :
              /\ calls' = [calls EXCEPT ![q] = c]
              /\ asked' = [asked EXCEPT ![q] = @ + n]
        BY <1>4 DEF LlmCallsTools
    <2>1. PICK c \in [1..n -> Call] : /\ calls' = [calls EXCEPT ![q] = c]
                                      /\ asked' = [asked EXCEPT ![q] = @ + n]
        BY <2>a
    <2>2. c # <<>> /\ Len(c) = n /\ n \in Nat
        BY CallsOfCompletion, InvestigationAssumption
    <2>3. /\ calls'[q] = c /\ asked'[q] = asked[q] + n
          /\ steps'[q] = steps[q] /\ pc'[q] = "tools"
        BY <1>4, <2>1 DEF LlmCallsTools
    <2>4. asked[q] = Len(steps[q])
        <3>1. asked[q] = Len(steps[q]) + Len(calls[q]) /\ calls[q] = <<>>
            BY <1>4 DEF LlmCallsTools
        <3>2. Len(steps[q]) \in Nat /\ Len(<<>>) = 0
            BY EmptySeq, LenProperties
        <3> QED
            BY <3>1, <3>2
    <2>5. Len(steps[q]) \in Nat
        OBVIOUS
    <2>6. asked'[q] = Len(steps'[q]) + Len(calls'[q])
        <3>1. Len(calls'[q]) = n /\ Len(steps'[q]) = Len(steps[q])
            BY <2>2, <2>3
        <3>2. asked'[q] = Len(steps[q]) + n
            BY <2>2, <2>3, <2>4, <2>5
        <3> QED
            BY <3>1, <3>2
    <2> QED
        BY <2>2, <2>3, <2>6
<1>5. CASE RunTool(q)
    <2>1. /\ calls[q] \in Seq(Call) /\ calls[q] # <<>> /\ steps[q] \in Seq(ToolNames)
          /\ asked[q] = Len(steps[q]) + Len(calls[q])
        BY <1>5 DEF RunTool
    <2>2. /\ calls'[q] = Tail(calls[q]) /\ asked'[q] = asked[q]
          /\ Len(steps'[q]) = Len(steps[q]) + 1
        BY <1>5, <2>1 DEF RunTool
    <2>3. /\ Len(Tail(calls[q])) = Len(calls[q]) - 1 /\ Len(calls[q]) \in Nat
          /\ Tail(calls[q]) = <<>> => Len(Tail(calls[q])) = 0
        BY <2>1, TailLength
    <2>4. pc'[q] = IF Tail(calls[q]) = <<>> THEN "ask" ELSE "tools"
        BY <1>5 DEF RunTool, AfterTool
    <2>5. Len(steps[q]) \in Nat
        BY <2>1
    <2> QED
        BY <2>1, <2>2, <2>3, <2>4, <2>5
<1>6. CASE Start(q)
    BY <1>6 DEF Start
<1>7. CASE \/ NotFound(q) \/ LlmFails(q) \/ LlmAnswers(q) \/ ToolRaises(q)
           \/ Save(q) \/ SaveRaises(q) \/ SaveFallbackRaises(q)
    BY <1>7 DEF NotFound, LlmFails, LlmAnswers, ToolRaises, Save, SaveRaises,
                SaveFallbackRaises, AfterToolError, AfterSaveError, FallBack
<1> QED
    BY <1>1, <1>2, <1>3, <1>4, <1>5, <1>6, <1>7 DEF Next, Investigate

\* Every step keeps the report of a request the one to save.
LEMMA NextReporting == IInv /\ [Next]_vars => Reporting'
<1> SUFFICES ASSUME IInv, [Next]_vars, NEW q \in Requests,
                    pc'[q] \in {"save", "saveFallback", "done"}
             PROVE  /\ report'[q] \in Report
                    /\ report'[q].request = q /\ report'[q].steps = steps'[q]
                    /\ report'[q].completed <= clock'
                    /\ pc'[q] = "save" => ~ report'[q].fallback
                    /\ pc'[q] = "saveFallback" => report'[q].fallback
    BY DEF Reporting
<1> USE DEF IInv, TypeOK, Typed, Reporting
<1>1. clock \in Nat /\ clock' \in Nat /\ clock <= clock'
    <2>1. clock' = clock \/ clock' = clock + 1
      BY DEF Next, Tick, Start, NotFound, Investigate, LlmFails, LlmCallsTools,
             LlmAnswers, RunTool, ToolRaises, Save, SaveRaises, SaveFallbackRaises, vars
    <2> QED
      BY <2>1
<1>2. CASE UNCHANGED <<pc[q], report[q], steps[q]>>
    BY <1>1, <1>2 DEF Report
<1>3. CASE Tick \/ UNCHANGED vars
    BY <1>2, <1>3 DEF Tick, vars
<1>4. ASSUME NEW p \in Requests, p # q, Start(p) \/ NotFound(p) \/ Investigate(p)
      PROVE  UNCHANGED <<pc[q], report[q], steps[q]>>
    BY <1>4 DEF Start, NotFound, Investigate, LlmFails, LlmCallsTools, LlmAnswers,
                RunTool, ToolRaises, Save, SaveRaises, SaveFallbackRaises,
                AfterToolError, AfterSaveError, FallBack
<1>5. ASSUME NEW f \in BOOLEAN, report' = [report EXCEPT ![q] = Reported(q, f)],
             UNCHANGED <<steps, clock>>
      PROVE  /\ report'[q] \in Report /\ report'[q].request = q
             /\ report'[q].steps = steps'[q] /\ report'[q].completed <= clock'
             /\ report'[q].fallback = f
    BY <1>5 DEF Reported, Report
<1>6. CASE LlmAnswers(q)
    <2>1. /\ report' = [report EXCEPT ![q] = Reported(q, FALSE)]
          /\ UNCHANGED <<steps, clock>>
          /\ pc'[q] = "save"
        BY <1>6 DEF LlmAnswers
    <2> QED
        BY <1>5, <2>1
<1>7. CASE LlmFails(q) \/ ToolRaises(q) \/ SaveRaises(q)
    <2>1. /\ report' = [report EXCEPT ![q] = Reported(q, TRUE)]
          /\ UNCHANGED <<steps, clock>>
          /\ pc'[q] = "saveFallback"
        BY <1>7 DEF LlmFails, ToolRaises, SaveRaises, AfterToolError,
                    AfterSaveError, FallBack
    <2> QED
        BY <1>5, <2>1
<1>8. CASE Save(q)
    BY <1>1, <1>8 DEF Save
<1>9. CASE Start(q) \/ NotFound(q) \/ LlmCallsTools(q) \/ RunTool(q) \/ SaveFallbackRaises(q)
    BY <1>9 DEF Start, NotFound, LlmCallsTools, RunTool, AfterTool, SaveFallbackRaises
<1> QED
    BY <1>2, <1>3, <1>4, <1>6, <1>7, <1>8, <1>9 DEF Next, Investigate

\* The rows that a request may have once its pc and report are as given.
RowsOf(q) ==
    /\ \A r \in reports : r.request = q =>
        /\ pc[q] \notin {"new", "ask", "tools", "save"}
        /\ pc[q] \in {"saveFallback", "done"} => r.completed <= report[q].completed
        /\ pc[q] = "done" /\ ~ report[q].fallback => r = report[q]
    /\ pc[q] = "done" => report[q] \in reports

\* A step of another request leaves the rows of this one as they are.
LEMMA OtherRows ==
    ASSUME IInv, NEW q \in Requests, NEW p \in Requests, p # q,
           Start(p) \/ NotFound(p) \/ Investigate(p)
    PROVE  RowsOf(q)'
<1> USE DEF IInv, TypeOK, Typed
<1>1. UNCHANGED <<pc[q], report[q]>>
    BY DEF Start, NotFound, Investigate, LlmFails, LlmCallsTools, LlmAnswers,
           RunTool, ToolRaises, Save, SaveRaises, SaveFallbackRaises,
           AfterToolError, AfterSaveError, FallBack
<1>2. \/ reports' = reports
      \/ reports' = reports \cup {report[p]} /\ report[p].request = p
    <2>1. CASE Save(p) \/ SaveRaises(p) \/ SaveFallbackRaises(p)
        <3>1. report[p].request = p
            BY <2>1 DEF Save, SaveRaises, SaveFallbackRaises, Reporting
        <3>2. reports' = reports \/ reports' = reports \cup {report[p]}
            BY <2>1 DEF Save, SaveRaises, SaveFallbackRaises, Written
        <3> QED
            BY <3>1, <3>2
    <2>2. CASE \/ Start(p) \/ NotFound(p) \/ LlmFails(p) \/ LlmCallsTools(p)
               \/ LlmAnswers(p) \/ RunTool(p) \/ ToolRaises(p)
        BY <2>2 DEF Start, NotFound, LlmFails, LlmCallsTools, LlmAnswers, RunTool,
                    ToolRaises
    <2> QED
        BY <2>1, <2>2 DEF Investigate
<1>3. RowsOf(q)
    BY DEF Rows, RowsOf
<1> QED
    BY <1>1, <1>2, <1>3 DEF RowsOf

\* A step of a request keeps its own rows in order.
LEMMA OwnRows ==
    ASSUME IInv, NEW q \in Requests, Start(q) \/ NotFound(q) \/ Investigate(q)
    PROVE  RowsOf(q)'
<1> USE DEF IInv, TypeOK, Typed
<1>1. /\ RowsOf(q) /\ \A r \in reports : r.completed <= clock
    BY DEF Rows, RowsOf
<1>2. ASSUME UNCHANGED reports, \A r \in reports : r.request # q, pc'[q] # "done"
      PROVE  RowsOf(q)'
    BY <1>2 DEF RowsOf
<1>3. CASE pc[q] \in {"new", "ask", "tools"}
    <2>1. \A r \in reports : r.request # q
        BY <1>1, <1>3 DEF RowsOf
    <2>2. UNCHANGED reports /\ pc'[q] # "done"
        BY <1>3 DEF Start, NotFound, Investigate, LlmFails, LlmCallsTools, LlmAnswers,
                    RunTool, ToolRaises, Save, SaveRaises, SaveFallbackRaises,
                    AfterTool, AfterToolError, FallBack
    <2> QED
        BY <1>2, <2>1, <2>2
<1>4. CASE Save(q)
    <2>1. /\ reports' = reports \cup {report[q]} /\ pc'[q] = "done"
          /\ report' = report
        BY <1>4 DEF Save
    <2>2. report[q] \in Report /\ report[q].completed \in Nat
        BY <1>4 DEF Save, Reporting, Report
    <2>3. CASE pc[q] = "save"
        <3>1. \A r \in reports : r.request # q
            BY <1>1, <2>3 DEF RowsOf
        <3> QED
            BY <2>1, <2>2, <3>1 DEF RowsOf
    <2>4. CASE pc[q] = "saveFallback"
        <3>1. report[q].fallback
            BY <2>4 DEF Reporting
        <3>2. \A r \in reports : r.request = q => r.completed <= report[q].completed
            BY <1>1, <2>4 DEF RowsOf
        <3> QED
            BY <2>1, <2>2, <3>1, <3>2 DEF RowsOf
    <2> QED
        BY <1>4, <2>3, <2>4 DEF Save
<1>5. CASE SaveRaises(q)
    <2>1. /\ reports' = reports \/ reports' = reports \cup {report[q]}
          /\ pc'[q] = "saveFallback" /\ report'[q].completed = clock
        BY <1>5 DEF SaveRaises, Written, AfterSaveError, FallBack, Reported
    <2>2. report[q].completed <= clock
        BY <1>5 DEF SaveRaises, Reporting
    <2> QED
        BY <1>1, <2>1, <2>2 DEF RowsOf
<1>6. CASE SaveFallbackRaises(q)
    BY <1>6 DEF SaveFallbackRaises, RowsOf
<1> QED
    BY <1>3, <1>4, <1>5, <1>6
    DEF Start, NotFound, Investigate, LlmFails, LlmCallsTools, LlmAnswers, RunTool, ToolRaises

\* Every step keeps the rows of every request in order.
LEMMA NextRows == IInv /\ [Next]_vars => Rows'
<1> SUFFICES ASSUME IInv, [Next]_vars PROVE Rows'
    OBVIOUS
<1> USE DEF IInv, TypeOK, Typed
<1>1. ASSUME NEW q \in Requests PROVE RowsOf(q)'
    <2>1. CASE Tick \/ UNCHANGED vars
        <3>1. UNCHANGED <<reports, pc, report>>
            BY <2>1 DEF Tick, vars
        <3>2. RowsOf(q)
            BY DEF Rows, RowsOf
        <3> QED
            BY <3>1, <3>2 DEF RowsOf
    <2>2. ASSUME NEW p \in Requests, Start(p) \/ NotFound(p) \/ Investigate(p)
          PROVE  RowsOf(q)'
        BY <2>2, OtherRows, OwnRows
    <2> QED
        BY <2>1, <2>2 DEF Next
<1>2. \A r \in reports' : r.completed <= clock'
    <2>1. CASE Tick \/ UNCHANGED vars
        <3>1. clock' = clock \/ clock' = clock + 1
            BY <2>1 DEF Tick, vars
        <3>2. reports' = reports
            BY <2>1 DEF Tick, vars
        <3>3. \A r \in reports : r.completed \in Nat /\ r.completed <= clock
            BY DEF Report, Rows
        <3> QED
            BY <3>1, <3>2, <3>3
    <2>2. ASSUME NEW p \in Requests, Start(p) \/ NotFound(p) \/ Investigate(p)
          PROVE  \A r \in reports' : r.completed <= clock'
        <3>1. /\ clock' = clock
              /\ \/ reports' = reports
                 \/ reports' = reports \cup {report[p]} /\ report[p].completed <= clock
            BY <2>2 DEF Start, NotFound, Investigate, LlmFails, LlmCallsTools,
                        LlmAnswers, RunTool, ToolRaises, Save, SaveRaises,
                        SaveFallbackRaises, Written, Reporting
        <3> QED
            BY <3>1 DEF Rows
    <2> QED
        BY <2>1, <2>2 DEF Next
<1> QED
    BY <1>1, <1>2 DEF Rows, RowsOf

\* IInv is inductive.
LEMMA IInvHolds == Spec => []IInv
<1>1. Init => IInv
    <2>1. Init => Transcript
        <3> SUFFICES ASSUME Init, NEW q \in Requests
                     PROVE  /\ pc[q] = "new" /\ calls[q] = <<>>
                            /\ asked[q] = Len(steps[q]) + Len(calls[q])
            BY DEF Transcript
        <3>1. Len(<<>>) = 0
            BY EmptySeq
        <3>2. /\ pc[q] = "new" /\ asked[q] = 0
              /\ calls[q] = <<>> /\ steps[q] = <<>>
            BY DEF Init
        <3> QED
            BY <3>1, <3>2
    <2>2. Init => Reporting /\ Rows
        BY DEF Init, Reporting, Rows
    <2> QED
        BY <2>1, <2>2, InitTypeOK DEF IInv
<1>2. IInv /\ [Next]_vars => IInv'
    BY NextTypeOK, NextTranscript, NextReporting, NextRows DEF IInv
<1> QED
    BY <1>1, <1>2, PTL DEF Spec

\* For any number of overlapping investigations: the types of the model, and
\* never more than MaxSteps rounds and MaxCalls calls in each.
THEOREM InvestigationTypeOK == Spec => []TypeOK
BY IInvHolds, PTL DEF IInv

\* The LLM is never asked again while one of its tool calls has no reply.
THEOREM TranscriptComplete == Spec => []CallsAnswered
<1>1. IInv => CallsAnswered
    <2> SUFFICES ASSUME IInv, NEW q \in Requests, pc[q] = "ask"
                 PROVE  Len(steps[q]) = asked[q]
        BY DEF CallsAnswered
    <2>1. asked[q] = Len(steps[q]) + Len(calls[q]) /\ calls[q] = <<>>
        BY DEF IInv, Transcript
    <2>2. Len(steps[q]) \in Nat /\ Len(<<>>) = 0
        BY EmptySeq, LenProperties DEF IInv, TypeOK, Typed
    <2> QED
        BY <2>1, <2>2
<1> QED
    BY <1>1, IInvHolds, PTL

\* What a client got is stored with the steps that its run recorded and is the
\* newest of its run, although saves fail before or after their commit.
THEOREM ReturnedReportsStored == Spec => []ReturnedStored
<1>1. IInv => ReturnedStored
    BY DEF IInv, Reporting, Rows, ReturnedStored
<1> QED
    BY <1>1, IInvHolds, PTL

\* A client that got a diagnosis has no other report of the same run.
THEOREM DiagnosesAlone == Spec => []DiagnosisAlone
<1>1. IInv => DiagnosisAlone
    BY DEF IInv, Rows, DiagnosisAlone
<1> QED
    BY <1>1, IInvHolds, PTL

\* A row is never changed or deleted: a save, even one that fails, only adds.
LEMMA RowsStay == [Next]_vars => reports \subseteq reports'
BY DEF Next, Tick, Start, NotFound, Investigate, LlmFails, LlmCallsTools, LlmAnswers,
       RunTool, ToolRaises, Save, SaveRaises, SaveFallbackRaises, Written, vars

\* investigation/api.py, get_investigation_report: what GET serves never goes back to
\* an older report, in whatever order the overlapping runs complete and save.
THEOREM ServingGoesForward == Spec => ServedForward
<1>1. ASSUME [Next]_vars
      PROVE  [\A r \in Served(reports), s \in Served(reports') : r.completed <= s.completed]_vars
    <2>1. reports \subseteq reports'
        BY <1>1, RowsStay
    <2> QED
        BY <2>1 DEF Served
<1> QED
    BY <1>1, PTL DEF Spec, ServedForward
============================================================================
