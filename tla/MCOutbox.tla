----------------------------- MODULE MCOutbox -----------------------------
(* Instances of Outbox for TLC.                                            *)
EXTENDS Outbox, TLC

\* Worker processes are interchangeable; used by the safety runs only.
RelaySymmetry == Permutations(Relays)
============================================================================
