\* One worker process that fails, dies and comes back; rows are parked and requeued.
\* MaxRequeues >= MaxFaults: a row parked by a fault can always be requeued.
SPECIFICATION FairSpec
CONSTANTS
  r1 = r1
  Events = {1, 2, 3}
  Poison = {}
  Relays = {r1}
  BatchSize = 2
  MaxAttempts = 2
  MaxFaults = 2
  MaxRequeues = 2
PROPERTIES
  PublishedIsFinal
  EveryEventDelivered
