------------------------ MODULE MCSimulationControl ------------------------
(***************************************************************************)
(* Instances of SimulationControl for TLC.                                 *)
(***************************************************************************)
EXTENDS SimulationControl

CONSTANTS c1, c2, c3

ThreeClients == {c1, c2, c3}
============================================================================
