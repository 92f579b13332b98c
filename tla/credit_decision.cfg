\* One request, a customer, two clerks, two mailers, a user, two templates; one
\* try, one stall that is forgiven and one that is not.
SPECIFICATION FairSpec
CONSTANTS
  b1 = b1
  b2 = b2
  c1 = c1
  c2 = c2
  m1 = m1
  m2 = m2
  u1 = u1
  u2 = u2
  Nobody = Nobody
  Requests = {1}
  Buyers = {b1}
  Clerks = {c1, c2}
  MaxLimit = 2
  MaxMaintained = 1
  Facts = {1}
  Templates = 2
  Mailing = {1}
  Users = {u1}
  Mailers = {m1, m2}
  MaxTries = 1
  MaxStalledCount = 1
  MaxFanOutFaults = 2
  MaxLeavers = 1
INVARIANTS
  AgreedIsAnnounced
  
  CompletedMeansTold
PROPERTIES
  DecisionIsTold
\* A customer may leave a decision at that.
CHECK_DEADLOCK FALSE
