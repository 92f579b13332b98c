\* One ticket: two agents, a customer, two sweeps, two windows, one fault.
SPECIFICATION FairSpec
CONSTANTS
  c1 = c1
  a1 = a1
  a2 = a2
  s1 = s1
  s2 = s2
  Tickets = {1}
  Customers = {c1}
  Agents = {a1, a2}
  Sweeps = {s1, s2}
  Stars = {1}
  MaxWindows = 2
  MaxResolutions = 2
  MaxFaults = 1
INVARIANTS
  BreachIsGenuine
  ResolutionIsAnnounced
  RatingJudgesWork
PROPERTIES
  OverdueIsFlagged
\* A closed ticket may be left alone for ever.
CHECK_DEADLOCK FALSE
