-------------------------- MODULE MCEventPipeline --------------------------
(* Instances of EventPipeline for TLC.                                     *)
EXTENDS EventPipeline, TLC

\* Worker processes are interchangeable; used by the safety runs only.
RelaySymmetry == Permutations(Relays)
============================================================================
