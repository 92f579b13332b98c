---------------------------- MODULE MCOnboarding ----------------------------
(* Instances of Onboarding for TLC.                                        *)
EXTENDS Onboarding, TLC

CONSTANTS a1, a2, c1, c2, g1, g2

\* Requests are interchangeable, and so are tax numbers.
OnboardingSymmetry == Permutations(Callers) \union Permutations(Gstins)
============================================================================
