\* Two payments of one invoice, a gateway that charges early and retries, all races.
SPECIFICATION Spec
CONSTANTS
  p1 = p1
  p2 = p2
  w1 = w1
  w2 = w2
  d1 = d1
  h1 = h1
  None = None
  Payments = {p1, p2}
  Items = {1, 2}
  OpenAmount <- TwoInvoices
  Alloc <- SecondTwice
  Web = {w1}
  Desk = {d1}
  Bus = {h1}
  Retryable = TRUE
  Eager = TRUE
  MaxFaults = 1
SYMMETRY WebSymmetry
INVARIANTS
  ReceiptHasPosting
  PostedMoneyWasTaken
  CaptureIsAnnounced
PROPERTIES
  KeepsPromise
  NoFailureAfterCapture
\* Every payment may have ended: there is then nothing left to do.
CHECK_DEADLOCK FALSE
