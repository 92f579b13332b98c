\* A declined attempt is paid after its row was closed.
SPECIFICATION Spec
CONSTANTS
  p1 = p1
  p2 = p2
  w1 = w1
  w2 = w2
  d1 = d1
  h1 = h1
  None = None
  Payments = {p1}
  Items = {1}
  OpenAmount <- OneInvoice
  Alloc <- BothPayAll
  Web = {w1}
  Desk = {d1}
  Bus = {}
  Retryable = TRUE
  Eager = FALSE
  MaxFaults = 0
INVARIANTS
  AckedCaptureIsRecorded
\* Every payment may have ended: there is then nothing left to do.
CHECK_DEADLOCK FALSE
