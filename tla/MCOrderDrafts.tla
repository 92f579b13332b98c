--------------------------- MODULE MCOrderDrafts ---------------------------
(* Instances of OrderDrafts for TLC.                                       *)
EXTENDS OrderDrafts, TLC

CONSTANTS b1, b2, d1, d2, p1

\* Requests are interchangeable, and so are drafts.
DraftSymmetry == Permutations(Buyers) \union Permutations(Drafts)
============================================================================
