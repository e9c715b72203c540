---- MODULE MCOrchestrator ----
(* Instances of Orchestrator for TLC: model values for up to two devices. *)
EXTENDS Orchestrator

CONSTANTS d1, d2
====
