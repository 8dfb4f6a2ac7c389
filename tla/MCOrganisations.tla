-------------------------- MODULE MCOrganisations --------------------------
(* Small instances of Organisations for TLC.  Safety only: the slots, the   *)
(* users who are not students, and the registration numbers and ids of      *)
(* businesses may be taken for interchangeable.                             *)
EXTENDS Organisations, TLC

Interchangeable ==
    Permutations(Requests) \cup Permutations(People \ Students)
        \cup Permutations(Numbers) \cup Permutations(Firms)
=============================================================================
