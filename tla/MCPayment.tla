----------------------------- MODULE MCPayment -----------------------------
(* Instances of Payment for TLC.                                           *)
EXTENDS Payment, TLC

CONSTANTS p1, p2

\* Two invoices of 2; p1 settles one and part of the other, p2 the rest.
TwoInvoices == [i \in {1, 2} |-> 2]
SharedAlloc == p1 :> [i \in {1, 2} |-> i] @@ p2 :> [i \in {1, 2} |-> 2 - i]

\* One invoice that both payments settle in full.
OneInvoice  == [i \in {1} |-> 1]
BothPayAll  == [p \in Payments |-> [i \in {1} |-> 1]]

\* A payment of two invoices, the second of which a colleague pays as well.
SecondTwice == p1 :> [i \in {1, 2} |-> 2] @@ p2 :> [i \in {1, 2} |-> 2 * (i - 1)]

WebSymmetry == Permutations(Web)
============================================================================
