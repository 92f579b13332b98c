\* One delivery, two requests, two ticket workers and the form, two faults.
SPECIFICATION FairSpec
CONSTANTS
  d1 = d1
  d2 = d2
  b1 = b1
  b2 = b2
  f1 = f1
  w1 = w1
  w2 = w2
  Form = Form
  Deliveries = {d1}
  Sources = {d1}
  Buyers = {b1, b2}
  MaxReversals = 1
  MaxPodFaults = 1
  Forms = {f1}
  Jobs = {w1, w2}
  MaxTickets = 2
  MaxIntakeFaults = 1
INVARIANTS
  EvidenceIsSaps
  OneTicketPerDelivery
  NumbersAreDense
  SettledHasTicket
PROPERTIES
  DiscrepancyIsChased
\* Both requests and all three tickets may be done with.
CHECK_DEADLOCK FALSE
