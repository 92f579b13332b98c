\* Two users, one inquiry, two orders, one PO reference, one fault.
SPECIFICATION Spec
CONSTANTS
  b1 = b1
  b2 = b2
  p1 = p1
  NoPo = NoPo
  Pos = {p1}
  Values = {1, 2}
  CreditLimit = 2
  MaxOrders = 2
  MaxBlocks = 1
  Inquiries = {1}
  Buyers = {b1, b2}
  Price = 2
  MaxRevisions = 2
  MaxDeskFaults = 1
SYMMETRY BuyerSymmetry
INVARIANTS
  NoPoTwice
  ExposureIsCovered
  RevisionsAreAnnounced
\* Nobody need order anything.
CHECK_DEADLOCK FALSE
