------------------------------ MODULE MCAccounts ------------------------------
(* Small instances of Accounts for TLC: two requests and two tokens are a     *)
(* reset and the one that overtakes it.                                       *)
EXTENDS Accounts
=============================================================================
