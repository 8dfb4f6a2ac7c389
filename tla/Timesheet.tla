------------------------------ MODULE Timesheet ------------------------------
(***************************************************************************)
(* What attendance promises: a user starts a shift on a job only when off  *)
(* duty there, ends the shift that is open, and a shift that has ended is  *)
(* never changed or lost.                                                  *)
(***************************************************************************)
EXTENDS Integers

CONSTANTS Users, Jobs, ShiftIds, Times

VARIABLE sheet       \* the shifts so far; to = 0 while the shift is open

Open(j, u) == {s \in sheet : s.job = j /\ s.userId = u /\ s.to = 0}

Init == sheet = {}

StartShift(j, u) ==
    /\ Open(j, u) = {}
    /\ \E id \in ShiftIds, t \in Times :
          /\ \A s \in sheet : s.id # id
          /\ sheet' = sheet \cup
                {[id |-> id, job |-> j, userId |-> u, from |-> t, to |-> 0]}

EndShift(j, u) ==
    \E s \in Open(j, u), t \in Times :
        /\ s.from <= t
        /\ sheet' = (sheet \ {s}) \cup {[s EXCEPT !.to = t]}

Next == \E j \in Jobs, u \in Users : StartShift(j, u) \/ EndShift(j, u)

Spec == Init /\ [][Next]_sheet
=============================================================================
