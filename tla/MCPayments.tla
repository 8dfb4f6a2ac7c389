----------------------------- MODULE MCPayments -----------------------------
(* Small instances of Payments for TLC. *)
EXTENDS Payments, TLC

Interchangeable ==
    Permutations(Invoices) \cup Permutations(Sessions) \cup Permutations(Requests)
=============================================================================
