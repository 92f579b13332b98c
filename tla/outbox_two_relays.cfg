\* Two worker processes on one tenant's outbox: crashes, reclaims, requeues.
SPECIFICATION Spec
CONSTANTS
  r1 = r1
  r2 = r2
  Events = {1, 2, 3}
  Poison = {1}
  Relays = {r1, r2}
  BatchSize = 2
  MaxAttempts = 2
  MaxFaults = 1
  MaxRequeues = 1
SYMMETRY RelaySymmetry
INVARIANTS
  PublishedWasEnqueued
  ParkedAfterMaxAttempts
  ClaimedRowHasHolder
PROPERTIES
  DeliversOnlyCommitted
