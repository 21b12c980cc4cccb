-------------------------- MODULE MCSpikeDetector --------------------------
(***************************************************************************)
(* Instances of SpikeDetector for TLC: windows of one and two ticks.       *)
(***************************************************************************)
EXTENDS SpikeDetector
============================================================================
