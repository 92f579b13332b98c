\* One event through two relays, a queue and two handlers, with faults in each.
SPECIFICATION FairPipelineSpec
CONSTANTS
  r1 = r1
  r2 = r2
  Events = {1}
  Poison = {}
  Relays = {r1, r2}
  BatchSize = 1
  MaxAttempts = 1
  MaxFaults = 2
  MaxRequeues = 2
  Handlers = 2
  MaxTries = 2
  MaxStalledCount = 1
  MaxHandlerFaults = 3
INVARIANTS
  CompletedMeansHandled
  NothingLostBetweenStores
PROPERTIES
  EveryFactTakesEffect
