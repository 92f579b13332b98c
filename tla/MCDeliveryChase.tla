-------------------------- MODULE MCDeliveryChase --------------------------
(* Instances of DeliveryChase for TLC.                                     *)
EXTENDS DeliveryChase

CONSTANTS d1, d2, b1, b2, f1, w1, w2
============================================================================
