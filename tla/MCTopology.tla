----------------------------- MODULE MCTopology -----------------------------
(***************************************************************************)
(* Instances of TopologyEngine for TLC.                                    *)
(***************************************************************************)
EXTENDS TopologyEngine, TLC

CONSTANTS r1, r2, order, gateway, e1, e2

TwoRegistrars == {r1, r2}
TwoDependencies == {order, gateway}
TwoTypes == {"HTTP", "GRPC"}
TwoEvaluations == {e1, e2}
MCSymmetry == Permutations(TwoRegistrars) \cup Permutations(TwoDependencies)
                  \cup Permutations(TwoEvaluations)
============================================================================
