---------------------------- MODULE MCAttendance ----------------------------
(* Small instances of Attendance for TLC. *)
EXTENDS Attendance, TLC

\* Ids and OTPs are interchangeable, and so are request slots.
Interchangeable ==
    Permutations(Records) \cup Permutations(Tokens) \cup Permutations(Requests)
=============================================================================
