-------------------------- MODULE MCInvoicePayment --------------------------
(* Small instances of InvoicePayment for TLC. *)
EXTENDS InvoicePayment, TLC

CONSTANTS r1, r2, r3

ThreeRequests == {r1, r2, r3}

\* Requests differ only in their names.
Symmetry == Permutations(ThreeRequests)
=============================================================================
