-------------------------- MODULE MCInvestigation --------------------------
(***************************************************************************)
(* Instances of Investigation for TLC.                                     *)
(***************************************************************************)
EXTENDS Investigation

CONSTANTS q1, q2, search_logs, unknown

TwoRequests == {q1, q2}
OneTool == {search_logs}
============================================================================
