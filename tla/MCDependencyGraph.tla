------------------------- MODULE MCDependencyGraph -------------------------
(***************************************************************************)
(* Instance of DependencyGraph for TLC: every graph on three services.     *)
(***************************************************************************)
EXTENDS DependencyGraph

CONSTANTS a, b, c

ThreeServices == {a, b, c}
============================================================================
