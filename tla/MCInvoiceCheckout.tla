------------------------- MODULE MCInvoiceCheckout -------------------------
(* Small instances of InvoiceCheckout for TLC. *)
EXTENDS InvoiceCheckout, TLC

CONSTANTS r1, r2

OneRequest  == {r1}
TwoRequests == {r1, r2}
RequestSymmetry == Permutations(Requests)

\* Bound: after a fault requests come one at a time.
FaultsComeAlone == faults > 0 => \E r \in Requests : \A q \in Requests \ {r} : task[q] = Idle
=============================================================================
