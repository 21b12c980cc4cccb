--------------------------- MODULE Investigation ---------------------------
(***************************************************************************)
(* AI investigation of one incident: each request runs a loop of LLM       *)
(* completions and tool calls with a budget of rounds, falls back to a     *)
(* deterministic report on any error, and stores what it reports.  What    *)
(* the tools return and what a diagnosis says is left out.                 *)
(***************************************************************************)
EXTENDS Naturals, Sequences

CONSTANTS
    Requests,   \* POST start and POST retry, which does the same
    ToolNames,  \* the names of ToolName
    SearchLogs, \* ToolName.SEARCH_LOGS
    Unknown,    \* any other name an LLM may ask for
    MaxSteps,   \* max_steps, 5 in the program
    MaxCalls, MaxTime     \* bounds: tool calls in one completion, clock

ASSUME InvestigationAssumption ==
    /\ SearchLogs \in ToolNames /\ Unknown \notin ToolNames
    /\ MaxSteps \in Nat \ {0} /\ MaxCalls \in Nat \ {0} /\ MaxTime \in Nat

VARIABLES
    reports,  \* the table investigation_reports for the incident
    clock,
    pc,       \* [Requests -> where the investigation is]
    round,    \* [Requests -> rounds of tool calls so far]
    calls,    \* [Requests -> tool calls of this round still to run]
    asked,    \* [Requests -> tool calls in the transcript]
    steps,    \* [Requests -> the tool names of the steps, one for each reply]
    report    \* [Requests -> the report being saved or returned]

vars == <<reports, clock, pc, round, calls, asked, steps, report>>

\* a call as the LLM writes it; valid: its arguments pass the argument model
Call == [name : ToolNames \cup {Unknown}, valid : BOOLEAN]
Report == [request : Requests, fallback : BOOLEAN, completed : Nat, steps : Seq(ToolNames)]
NoReport == [request |-> "none"]

Init == /\ reports = {} /\ clock = 0
        /\ pc = [q \in Requests |-> "new"]
        /\ round = [q \in Requests |-> 0] /\ asked = [q \in Requests |-> 0]
        /\ calls = [q \in Requests |-> <<>>] /\ steps = [q \in Requests |-> <<>>]
        /\ report = [q \in Requests |-> NoReport]

Tick == /\ clock < MaxTime
        /\ clock' = clock + 1
        /\ UNCHANGED <<reports, pc, round, calls, asked, steps, report>>

Goto(q, label) == pc' = [pc EXCEPT ![q] = label]

\* what GET returns: the report with the greatest completed_at
Served_Oldest(table) == {r \in table : \A s \in table : r.completed <= s.completed}  \* mutant
Served(table) == {r \in table : \A s \in table : s.completed <= r.completed}
----------------------------------------------------------------------------
\* investigate_by_id reads the incident; retry does what start does
Start(q) ==
    /\ pc[q] = "new"
    /\ Goto(q, "ask")
    /\ UNCHANGED <<reports, clock, round, calls, asked, steps, report>>

NotFound(q) ==
    /\ pc[q] = "new"
    /\ Goto(q, "failed")
    /\ UNCHANGED <<reports, clock, round, calls, asked, steps, report>>

\* the steps done so far go into the diagnosis and into the fallback report
Reported_NotMarked(q, fallback) ==   \* mutant: is_fallback is not set
    [request |-> q, fallback |-> FALSE, completed |-> clock, steps |-> steps[q]]
Reported(q, fallback) ==
    [request |-> q, fallback |-> fallback, completed |-> clock, steps |-> steps[q]]

\* any exception in the loop: generate the fallback report
FallBack(q) ==
    /\ Goto(q, "saveFallback")
    /\ report' = [report EXCEPT ![q] = Reported(q, TRUE)]

\* chat_completion times out or fails, also when the budget is exhausted
LlmFails(q) ==
    /\ pc[q] = "ask"
    /\ FallBack(q)
    /\ UNCHANGED <<reports, clock, round, calls, asked, steps>>

ToolsOffered_Always(q) == TRUE   \* mutant: the loop has no end
ToolsOffered(q) == round[q] < MaxSteps

\* the completion asks for tools; the assistant message joins the transcript
LlmCallsTools(q) ==
    /\ pc[q] = "ask" /\ ToolsOffered(q)
    /\ Goto(q, "tools")
    /\ round' = [round EXCEPT ![q] = @ + 1]
    /\ \E n \in 1..MaxCalls : \E c \in [1..n -> Call] :
        /\ calls' = [calls EXCEPT ![q] = c]
        /\ asked' = [asked EXCEPT ![q] = @ + n]
    /\ UNCHANGED <<reports, clock, steps, report>>

\* no tool calls, or the forced completion without tools: any content makes
\* a report, parsed or raw
LlmAnswers(q) ==
    /\ pc[q] = "ask"
    /\ Goto(q, "save")
    /\ report' = [report EXCEPT ![q] = Reported(q, FALSE)]
    /\ UNCHANGED <<reports, clock, round, calls, asked, steps>>

Raises(call) == call.name \in ToolNames /\ ~ call.valid

\* Every other call gives an output: an unknown name is one, and the five tools
\* turn a timeout or an error of their backend into an empty result.
Answered(call) == ~ Raises(call)

Recorded(call) == IF call.name \in ToolNames THEN call.name ELSE SearchLogs

AfterTool_NextRound(left) == "ask"   \* mutant: one reply for all the calls
AfterTool(left) == IF left = <<>> THEN "ask" ELSE "tools"

\* the next call of the completion: its reply joins the transcript
RunTool(q) ==
    /\ pc[q] = "tools" /\ Answered(Head(calls[q]))
    /\ Goto(q, AfterTool(Tail(calls[q])))
    /\ calls' = [calls EXCEPT ![q] = Tail(@)]
    /\ steps' = [steps EXCEPT ![q] = Append(@, Recorded(Head(calls[q])))]
    /\ UNCHANGED <<reports, clock, round, asked, report>>

AfterToolError_Retry(q) == UNCHANGED <<pc, report>>   \* mutant: tries the call again
AfterToolError(q) == FallBack(q)

\* arguments that the tool's model rejects end the loop
ToolRaises(q) ==
    /\ pc[q] = "tools" /\ Raises(Head(calls[q]))
    /\ AfterToolError(q)
    /\ UNCHANGED <<reports, clock, round, calls, asked, steps>>
----------------------------------------------------------------------------
\* save_report inserts the report and commits
Save(q) ==
    /\ pc[q] \in {"save", "saveFallback"}
    /\ reports' = reports \cup {report[q]}
    /\ Goto(q, "done")
    /\ UNCHANGED <<clock, round, calls, asked, steps, report>>

\* an error, before the commit or after it
Written(q) == reports' = reports \/ reports' = reports \cup {report[q]}

AfterSaveError_Return(q) ==   \* mutant: the error is logged, the report returned
    Goto(q, "done") /\ UNCHANGED report
AfterSaveError(q) == FallBack(q)

\* saving the diagnosis fails inside the loop's try block
SaveRaises(q) ==
    /\ pc[q] = "save"
    /\ Written(q)
    /\ AfterSaveError(q)
    /\ UNCHANGED <<clock, round, calls, asked, steps>>

\* an error of the second save_report reaches the client
SaveFallbackRaises(q) ==
    /\ pc[q] = "saveFallback"
    /\ Written(q)
    /\ Goto(q, "failed")
    /\ UNCHANGED <<clock, round, calls, asked, steps, report>>
----------------------------------------------------------------------------
Investigate(q) ==
    \/ LlmFails(q) \/ LlmCallsTools(q) \/ LlmAnswers(q)
    \/ RunTool(q) \/ ToolRaises(q)
    \/ Save(q) \/ SaveRaises(q) \/ SaveFallbackRaises(q)

Next == \/ Tick
        \/ \E q \in Requests : Start(q) \/ NotFound(q) \/ Investigate(q)

Spec == Init /\ [][Next]_vars

\* completions, tools and the database driver answer or time out
FairSpec == Spec /\ \A q \in Requests : WF_vars(Investigate(q))
----------------------------------------------------------------------------
Typed ==
    /\ clock \in Nat /\ reports \subseteq Report
    /\ pc \in [Requests ->
           {"new", "ask", "tools", "save", "saveFallback", "done", "failed"}]
    /\ round \in [Requests -> 0..MaxSteps] /\ asked \in [Requests -> Nat]
    /\ calls \in [Requests -> Seq(Call)] /\ steps \in [Requests -> Seq(ToolNames)]
    /\ report \in [Requests -> Report \cup {NoReport}]

\* The type invariant; an investigation has at most MaxSteps rounds of at most
\* MaxCalls tool calls.
TypeOK == Typed /\ \A q \in Requests : asked[q] <= MaxCalls * round[q]

\* Whenever the LLM is asked again, every tool call of the transcript has its
\* reply: a provider rejects a transcript with an open call.
CallsAnswered ==
    \A q \in Requests : pc[q] = "ask" => Len(steps[q]) = asked[q]

\* A report that a client got is stored with every step its run recorded, and no
\* other report of the run is newer, whatever errors the saves met.  A call whose
\* arguments its tool rejects raises before its step is recorded: it is in the
\* transcript, and no report shows it.
ReturnedStored ==
    \A q \in Requests : pc[q] = "done" =>
        /\ report[q] \in reports
        /\ report[q].steps = steps[q]
        /\ \A r \in reports : r.request = q => r.completed <= report[q].completed

\* A client that got the diagnosis of the LLM never finds another report of
\* the same run, a fallback in particular.
DiagnosisAlone ==
    \A q \in Requests : pc[q] = "done" /\ ~ report[q].fallback =>
        \A r \in reports : r.request = q => r = report[q]

\* What GET returns never goes back to an older report, in whatever order
\* overlapping investigations complete and save.
ServedForward ==
    [][\A r \in Served(reports), s \in Served(reports') : r.completed <= s.completed]_vars

\* Every investigation ends, whatever the LLM answers.
InvestigationEnds ==
    \A q \in Requests : pc[q] = "ask" ~> pc[q] \in {"done", "failed"}
============================================================================
