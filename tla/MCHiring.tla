------------------------------ MODULE MCHiring ------------------------------
(* Small instances of Hiring for TLC. *)
EXTENDS Hiring

Accepted == {"ACCEPTED"}
=============================================================================
