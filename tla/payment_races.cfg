\* Two payments that share an invoice, two web processes and a reconciler.
SPECIFICATION FairSpec
CONSTANTS
  p1 = p1
  p2 = p2
  w1 = w1
  w2 = w2
  d1 = d1
  h1 = h1
  None = None
  Payments = {p1, p2}
  Items = {1, 2}
  OpenAmount <- TwoInvoices
  Alloc <- SharedAlloc
  Web = {w1, w2}
  Desk = {d1}
  Bus = {}
  Retryable = FALSE
  Eager = FALSE
  MaxFaults = 1
INVARIANTS
  ItemsClearedOnce
  AckedCaptureIsRecorded
PROPERTIES
  ChargedIsPosted
\* Every payment may have ended: there is then nothing left to do.
CHECK_DEADLOCK FALSE
