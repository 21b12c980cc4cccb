--------------------------- MODULE MCLogPipeline ---------------------------
(***************************************************************************)
(* Small instances of LogPipeline: three logs, each posted by itself, the  *)
(* last two malformed.                                                     *)
(***************************************************************************)
EXTENDS LogPipeline

CONSTANTS l1, l2, l3

MCLogs == {l1, l2, l3}
MCBatches == {<<l1>>, <<l2>>, <<l3>>}
MCMalformed == {l2, l3}
MCContentHash == [l \in MCLogs |-> l]
============================================================================
