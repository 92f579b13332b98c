\* Two drafts, two requests, three saves, two orders, one fault.
SPECIFICATION Spec
CONSTANTS
  b1 = b1
  b2 = b2
  d1 = d1
  d2 = d2
  p1 = p1
  NoPo = NoPo
  Pos = {p1}
  Values = {1}
  CreditLimit = 2
  MaxOrders = 2
  MaxBlocks = 0
  Drafts = {d1, d2}
  Buyers = {b1, b2}
  MaxSaves = 3
  MaxDraftFaults = 1
SYMMETRY DraftSymmetry
INVARIANTS
  SubmittedNamesItsOrder
  QuietDraftIsWhole
PROPERTIES
  SubmissionStands
\* Every request may be over.
CHECK_DEADLOCK FALSE
