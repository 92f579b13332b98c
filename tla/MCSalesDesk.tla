---------------------------- MODULE MCSalesDesk ----------------------------
(* Instances of SalesDesk for TLC.                                         *)
EXTENDS SalesDesk, TLC

CONSTANTS b1, b2, p1

\* Calls of one account are interchangeable.
BuyerSymmetry == Permutations(Buyers)
============================================================================
