------------------------- MODULE MCCreditDecision -------------------------
(* Instances of CreditDecision for TLC.                                    *)
EXTENDS CreditDecision

CONSTANTS b1, b2, c1, c2, m1, m2, u1, u2
============================================================================
