\* Two applications, one of them the back office's, two tax numbers, two requests, six edits, a death.
SPECIFICATION Spec
CONSTANTS
  a1 = a1
  a2 = a2
  c1 = c1
  c2 = c2
  g1 = g1
  g2 = g2
  NoGstin = NoGstin
  Applications = {a1, a2}
  BackOffice = {a1}
  Gstins = {g1, g2}
  Callers = {c1, c2}
  MaxCustomers = 2
  MaxEdits = 6
  MaxDeaths = 1
SYMMETRY OnboardingSymmetry
INVARIANTS
  NumbersAreSaps
  QuietReviewIsSound
  DuplicatesAreTwins
  GstinApprovedOnce
\* Nobody need go on with an application.
CHECK_DEADLOCK FALSE
