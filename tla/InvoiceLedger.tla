---------------------------- MODULE InvoiceLedger ----------------------------
(***************************************************************************)
(* What the payment service promises: an invoice is issued once, stays due *)
(* until a payment for it went through, and once settled stays settled.    *)
(***************************************************************************)
CONSTANTS Invoices

VARIABLES status,    \* "none", "PENDING" or "COMPLETED"
          charged    \* the invoices some payment went through for

vars == <<status, charged>>

Init == /\ status = [i \in Invoices |-> "none"]
        /\ charged = {}

Issue(i) == /\ status[i] = "none"
            /\ status' = [status EXCEPT ![i] = "PENDING"]
            /\ UNCHANGED charged

Charge(i) == /\ status[i] # "none"
             /\ charged' = charged \cup {i}
             /\ UNCHANGED status

Settle(i) == /\ status[i] = "PENDING" /\ i \in charged
             /\ status' = [status EXCEPT ![i] = "COMPLETED"]
             /\ UNCHANGED charged

Next == \E i \in Invoices : Issue(i) \/ Charge(i) \/ Settle(i)

Spec == Init /\ [][Next]_vars
=============================================================================
