-------------------------- MODULE MCTenantPolling --------------------------
(***************************************************************************)
(* Instance of TenantPolling for TLC: the id of the third tenant has a     *)
(* colon, and its last part is the id of the second.                       *)
(***************************************************************************)
EXTENDS TenantPolling, TLC

CONSTANTS t1, t2, t3, w1, w2

ThreeTenants == {t1, t2, t3}
LastParts == t1 :> t1 @@ t2 :> t2 @@ t3 :> t2
Lengths == t1 :> 2 @@ t2 :> 1 @@ t3 :> 1
TwoWorkers == {w1, w2}
============================================================================
