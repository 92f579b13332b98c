--------------------------- MODULE MCSupportDesk ---------------------------
(* Instances of SupportDesk for TLC.                                       *)
EXTENDS SupportDesk

CONSTANTS c1, a1, a2, s1, s2
============================================================================
