-------------------------- MODULE AttendanceProofs --------------------------
(* Proofs about the attendance service, for every number of users, jobs,    *)
(* rows, OTPs and overlapping requests.                                     *)
EXTENDS Attendance, FiniteSetTheorems, TLAPS

-----------------------------------------------------------------------------
(* Type correctness.  What a request does with the row it holds is typed     *)
(* because of what it checked when it read it: RequestInv adds that to       *)
(* TypeOK and makes it inductive.                                            *)

HasHeld == {"out_save", "validate_get", "validate_del", "validate_save", "issueOut_save"}
HasToken == {"validate_get", "validate_del", "validate_save"}

RequestOK(r) ==
    /\ pc[r] # "idle" => args[r] \in Args
    /\ pc[r] = "otpIn_find" => args[r].type = "IN"
    /\ pc[r] \in HasHeld => held[r] \in Held
    /\ pc[r] \in HasToken => HeldToken(r) \in Tokens

RequestInv == \A r \in Requests : RequestOK(r)

TypeInv == TypeOK /\ RequestInv

\* A step of slot r leaves the locals of every other slot alone.
OthersKeep(r) ==
    \A q \in Requests \ {r} : /\ pc'[q] = pc[q]
                             /\ args'[q] = args[q]
                             /\ held'[q] = held[q]

\* A step that keeps the other slots' locals need only see to its own.
LEMMA OthersOK ==
    ASSUME RequestInv, NEW r \in Requests, OthersKeep(r), RequestOK(r)'
    PROVE  RequestInv'
  BY DEF RequestInv, RequestOK, OthersKeep, HeldToken, Type

\* Ending a request leaves its slot and the others well typed.
LEMMA DoneType ==
    ASSUME TypeOK, NEW r \in Requests, Done(r)
    PROVE  /\ pc' \in [Requests -> Steps]
           /\ args' \in [Requests -> Args \cup {NoArgs}]
           /\ held' \in [Requests -> Held \cup {NoRow}]
           /\ ticket' \in [Requests -> [token : Tokens \cup {NA}, expiresAt : Nat]]
           /\ OthersKeep(r)
           /\ RequestOK(r)'
  BY DEF TypeOK, Done, Goto, Steps, NoTicket, Null, OthersKeep, RequestOK,
         HasHeld, HasToken

\* Admitting a request fills its slot with typed arguments.
LEMMA BeginType ==
    ASSUME TypeOK, NEW r \in Requests, NEW step \in Steps,
           NEW u \in Users, NEW j \in Jobs, NEW type \in {"IN", "OUT"},
           Begin(r, step, u, j, type)
    PROVE  /\ pc' \in [Requests -> Steps]
           /\ args' \in [Requests -> Args \cup {NoArgs}]
           /\ pc'[r] = step
           /\ args'[r] \in Args /\ args'[r].type = type
           /\ \A q \in Requests \ {r} : pc'[q] = pc[q] /\ args'[q] = args[q]
  BY DEF TypeOK, Begin, Goto, Args

\* Moving to the next call changes the pc of that slot only.
LEMMA GotoType ==
    ASSUME TypeOK, NEW r \in Requests, NEW step \in Steps, Goto(r, step)
    PROVE  /\ pc' \in [Requests -> Steps]
           /\ pc'[r] = step
           /\ \A q \in Requests \ {r} : pc'[q] = pc[q]
  BY DEF TypeOK, Goto

\* A slot that reads a stored row holds a typed copy of it.
LEMMA HoldType ==
    ASSUME TypeOK, NEW r \in Requests, NEW id \in Records,
           attendance[id] # NoRow, Hold(r, id)
    PROVE  /\ held' \in [Requests -> Held \cup {NoRow}]
           /\ held'[r] \in Held
           /\ held'[r].id = id
           /\ held'[r].row = attendance[id]
           /\ \A q \in Requests \ {r} : held'[q] = held[q]
  BY DEF TypeOK, Hold, Held

\* Saving a typed copy leaves the table typed, also under a deleted id.
LEMMA SaveType ==
    ASSUME TypeOK, NEW id \in Records, NEW row \in Row, Save(id, row)
    PROVE  attendance' \in [Records -> Row \cup {NoRow}]
  <1> DEFINE job == IF attendance[id] = NoRow THEN NoJob ELSE attendance[id].job
  <1>1. job \in Jobs \cup {NoJob}
    BY DEF TypeOK, Row
  <1>2. [row EXCEPT !.job = job] \in Row
    BY <1>1 DEF Row
  <1> QED
    BY <1>2 DEF TypeOK, Save

\* Inserting a typed row leaves the table typed.
LEMMA InsertType ==
    ASSUME TypeOK, NEW row \in Row, Insert(row)
    PROVE  /\ attendance' \in [Records -> Row \cup {NoRow}]
           /\ usedIds' \subseteq Records
  BY DEF TypeOK, Insert

\* A new row, all its columns at their defaults, is typed.
LEMMA NewRowType ==
    ASSUME NEW j \in Jobs, NEW u \in Users
    PROVE  NewRow(j, u) \in Row
  BY DEF NewRow, Row, Null

\* The empty service is well typed.
LEMMA InitType == Init => TypeInv
  BY DEF Init, TypeInv, TypeOK, RequestInv, RequestOK, HasHeld, HasToken,
         Steps, NoTicket, Null, Absent

\* Every handler's first call keeps the types.
LEMMA ArriveType ==
    ASSUME TypeInv, NEW r \in Requests, Arrive(r)
    PROVE  TypeInv'
  <1> USE DEF TypeInv
  <1>1. PICK u \in Users, j \in Jobs :
          \/ ClockIn(r, u, j)
          \/ ClockOut(r, u, j)
          \/ ClockInViaOtp(r, u, j)
          \/ ClockOutViaOtp(r, u, j)
          \/ \E type \in {"IN", "OUT"} : GetAttendanceOtp(r, u, j, type)
    BY DEF Arrive
  <1>2. CASE ClockIn(r, u, j)
    <2>1. Begin(r, "in_job", u, j, "IN")
      BY <1>2 DEF ClockIn
    <2>2. /\ pc' \in [Requests -> Steps]
          /\ args' \in [Requests -> Args \cup {NoArgs}]
          /\ pc'[r] = "in_job"
          /\ args'[r] \in Args /\ args'[r].type = "IN"
          /\ \A q \in Requests \ {r} : pc'[q] = pc[q] /\ args'[q] = args[q]
      BY <2>1, BeginType DEF Steps
    <2>3. RequestInv'
      BY <1>2, <2>2, OthersOK
         DEF ClockIn, OthersKeep, RequestOK, HasHeld, HasToken
    <2> QED
      BY <1>2, <2>2, <2>3 DEF ClockIn, TypeOK, db, redis, history
  <1>3. CASE ClockOut(r, u, j)
    <2>1. PICK id \in Records : attendance[id] # NoRow /\ Hold(r, id)
      BY <1>3 DEF ClockOut, ClockOutMatches, RowsOf
    <2>2. Begin(r, "out_save", u, j, "OUT")
      BY <1>3 DEF ClockOut
    <2>3. /\ pc' \in [Requests -> Steps]
          /\ args' \in [Requests -> Args \cup {NoArgs}]
          /\ pc'[r] = "out_save"
          /\ args'[r] \in Args /\ args'[r].type = "OUT"
          /\ \A q \in Requests \ {r} : pc'[q] = pc[q] /\ args'[q] = args[q]
      BY <2>2, BeginType DEF Steps
    <2>4. /\ held' \in [Requests -> Held \cup {NoRow}]
          /\ held'[r] \in Held
          /\ held'[r].row = attendance[id]
          /\ \A q \in Requests \ {r} : held'[q] = held[q]
      BY <2>1, HoldType
    <2>5. RequestInv'
      BY <1>3, <2>3, <2>4, OthersOK
         DEF ClockOut, OthersKeep, RequestOK, HasHeld, HasToken
    <2> QED
      BY <1>3, <2>3, <2>4, <2>5 DEF ClockOut, TypeOK, db, redis, history
  <1>4. CASE ClockInViaOtp(r, u, j)
    <2>1. Begin(r, "otpIn_find", u, j, "IN")
      BY <1>4 DEF ClockInViaOtp
    <2>2. /\ pc' \in [Requests -> Steps]
          /\ args' \in [Requests -> Args \cup {NoArgs}]
          /\ pc'[r] = "otpIn_find"
          /\ args'[r] \in Args /\ args'[r].type = "IN"
          /\ \A q \in Requests \ {r} : pc'[q] = pc[q] /\ args'[q] = args[q]
      BY <2>1, BeginType DEF Steps
    <2>3. RequestInv'
      BY <1>4, <2>2, OthersOK
         DEF ClockInViaOtp, OthersKeep, RequestOK, HasHeld, HasToken
    <2> QED
      BY <1>4, <2>2, <2>3 DEF ClockInViaOtp, TypeOK, db, redis, history
  <1>5. CASE ClockOutViaOtp(r, u, j)
    <2>1. PICK id \in Records : /\ attendance[id] # NoRow
                               /\ attendance[id].clockOutOtp # NA
                               /\ Hold(r, id)
      BY <1>5 DEF ClockOutViaOtp, ClockOutOtpMatches, RowsOf
    <2>2. Begin(r, "validate_get", u, j, "OUT")
      BY <1>5 DEF ClockOutViaOtp
    <2>3. /\ pc' \in [Requests -> Steps]
          /\ args' \in [Requests -> Args \cup {NoArgs}]
          /\ pc'[r] = "validate_get"
          /\ args'[r] \in Args /\ args'[r].type = "OUT"
          /\ \A q \in Requests \ {r} : pc'[q] = pc[q] /\ args'[q] = args[q]
      BY <2>2, BeginType DEF Steps
    <2>4. /\ held' \in [Requests -> Held \cup {NoRow}]
          /\ held'[r] \in Held
          /\ held'[r].row = attendance[id]
          /\ \A q \in Requests \ {r} : held'[q] = held[q]
      BY <2>1, HoldType
    <2>5. attendance[id].clockOutOtp \in Tokens
      BY <2>1 DEF TypeOK, Row
    <2>6. HeldToken(r)' \in Tokens
      BY <2>3, <2>4, <2>5 DEF HeldToken, Type
    <2>7. RequestInv'
      BY <1>5, <2>3, <2>4, <2>6, OthersOK
         DEF ClockOutViaOtp, OthersKeep, RequestOK, HasHeld, HasToken
    <2> QED
      BY <1>5, <2>3, <2>4, <2>6, <2>7 DEF ClockOutViaOtp, TypeOK, db, redis, history
  <1>6. ASSUME NEW type \in {"IN", "OUT"}, GetAttendanceOtp(r, u, j, type)
        PROVE  TypeInv'
    <2>1. Begin(r, "issue_check", u, j, type)
      BY <1>6 DEF GetAttendanceOtp
    <2>2. /\ pc' \in [Requests -> Steps]
          /\ args' \in [Requests -> Args \cup {NoArgs}]
          /\ pc'[r] = "issue_check"
          /\ args'[r] \in Args /\ args'[r].type = type
          /\ \A q \in Requests \ {r} : pc'[q] = pc[q] /\ args'[q] = args[q]
      BY <2>1, BeginType DEF Steps
    <2>3. RequestInv'
      BY <1>6, <2>2, OthersOK
         DEF GetAttendanceOtp, OthersKeep, RequestOK, HasHeld, HasToken
    <2> QED
      BY <1>6, <2>2, <2>3 DEF GetAttendanceOtp, TypeOK, db, redis, history
  <1> QED
    BY <1>1, <1>2, <1>3, <1>4, <1>5, <1>6

\* A step of slot r that ends its request.
LEMMA DoneStep ==
    ASSUME TypeInv, NEW r \in Requests, Done(r),
           attendance' \in [Records -> Row \cup {NoRow}],
           usedIds' \subseteq Records,
           uses' \in [Tokens -> Nat], faults' \in Nat,
           UNCHANGED <<jobs, cache, minted, now>>
    PROVE  TypeInv'
  <1>1. TypeOK /\ RequestInv
    BY DEF TypeInv
  <1>2. /\ pc' \in [Requests -> Steps]
        /\ args' \in [Requests -> Args \cup {NoArgs}]
        /\ held' \in [Requests -> Held \cup {NoRow}]
        /\ ticket' \in [Requests -> [token : Tokens \cup {NA}, expiresAt : Nat]]
        /\ OthersKeep(r)
        /\ RequestOK(r)'
    BY <1>1, DoneType
  <1>3. RequestInv'
    BY <1>1, <1>2, OthersOK
  <1> QED
    BY <1>1, <1>2, <1>3 DEF TypeInv, TypeOK

\* A step of slot r that goes on to its next call with the same arguments and
\* row, and validates no OTP by going there.
LEMMA GotoStep ==
    ASSUME TypeInv, NEW r \in Requests, NEW step \in Steps, Goto(r, step),
           pc[r] # "idle",
           step = "otpIn_find" => args[r].type = "IN",
           step \in HasHeld => held[r] \in Held,
           step \in HasToken => HeldToken(r) \in Tokens,
           attendance' \in [Records -> Row \cup {NoRow}],
           cache' \in [Tokens -> Nat \cup {Absent}],
           minted' \subseteq Tokens,
           ticket' \in [Requests -> [token : Tokens \cup {NA}, expiresAt : Nat]],
           faults' \in Nat,
           UNCHANGED <<usedIds, jobs, now, args, held, uses>>
    PROVE  TypeInv'
  <1>1. TypeOK /\ RequestInv
    BY DEF TypeInv
  <1>2. /\ pc' \in [Requests -> Steps]
        /\ pc'[r] = step
        /\ \A q \in Requests \ {r} : pc'[q] = pc[q]
    BY <1>1, GotoType
  <1>3. OthersKeep(r)
    BY <1>2 DEF OthersKeep
  <1>4. RequestOK(r)
    BY <1>1 DEF RequestInv
  <1>5. RequestOK(r)'
    BY <1>2, <1>4 DEF RequestOK, HeldToken, Type
  <1>6. RequestInv'
    BY <1>1, <1>3, <1>5, OthersOK
  <1> QED
    BY <1>1, <1>2, <1>6 DEF TypeInv, TypeOK

\* A step of slot r that reads the row it will work on.
LEMMA HoldStep ==
    ASSUME TypeInv, NEW r \in Requests, pc[r] # "idle",
           NEW step \in {"validate_get", "issueOut_save"}, Goto(r, step),
           NEW id \in Records, attendance[id] # NoRow, Hold(r, id),
           step = "validate_get" => /\ args[r].type = "IN"
                                    /\ attendance[id].clockInOtp # NA,
           UNCHANGED <<db, redis, now, args, ticket, history>>
    PROVE  TypeInv'
  <1>1. TypeOK /\ RequestInv
    BY DEF TypeInv
  <1>2. /\ pc' \in [Requests -> Steps]
        /\ pc'[r] = step
        /\ \A q \in Requests \ {r} : pc'[q] = pc[q]
    BY <1>1, GotoType DEF Steps
  <1>3. /\ held' \in [Requests -> Held \cup {NoRow}]
        /\ held'[r] \in Held
        /\ held'[r].row = attendance[id]
        /\ \A q \in Requests \ {r} : held'[q] = held[q]
    BY <1>1, HoldType
  <1>4. OthersKeep(r)
    BY <1>2, <1>3 DEF OthersKeep
  <1>5. RequestOK(r)
    BY <1>1 DEF RequestInv
  <1>6. ASSUME step = "validate_get" PROVE HeldToken(r)' \in Tokens
    <2>1. attendance[id].clockInOtp \in Tokens
      BY <1>1, <1>6 DEF TypeOK, Row
    <2> QED
      BY <1>3, <1>6, <2>1 DEF HeldToken, Type
  <1>7. RequestOK(r)'
    BY <1>2, <1>3, <1>5, <1>6 DEF RequestOK, HasHeld, HasToken
  <1>8. RequestInv'
    BY <1>1, <1>4, <1>7, OthersOK
  <1> QED
    BY <1>1, <1>2, <1>3, <1>8 DEF TypeInv, TypeOK, db, redis, history

\* Every later call of a handler keeps the types.
LEMMA ProceedType ==
    ASSUME TypeInv, NEW r \in Requests, Proceed(r)
    PROVE  TypeInv'
  <1>1. TypeOK /\ RequestOK(r)
    BY DEF TypeInv, RequestInv
  <1>2. CASE ClockInFindJob(r)
    <2>1. CASE Done(r)
      BY <1>1, <1>2, <2>1, DoneStep DEF ClockInFindJob, TypeOK, db, redis, history
    <2>2. CASE Goto(r, "in_insert") /\ UNCHANGED <<args, held, ticket>>
      BY <1>1, <1>2, <2>2, GotoStep
         DEF ClockInFindJob, TypeOK, Steps, HasHeld, HasToken, db, redis, history
    <2> QED
      BY <1>2, <2>1, <2>2 DEF ClockInFindJob
  <1>3. CASE ClockInInsert(r)
    <2>1. args[r] \in Args
      BY <1>1, <1>3 DEF ClockInInsert, RequestOK
    <2>2. NewRow(Job(r), User(r)) \in Row
      BY <2>1, NewRowType DEF Args, Job, User
    <2>3. [NewRow(Job(r), User(r)) EXCEPT !.clockIn = now] \in Row
      BY <1>1, <2>2 DEF Row, TypeOK
    <2>4. attendance' \in [Records -> Row \cup {NoRow}] /\ usedIds' \subseteq Records
      BY <1>1, <1>3, <2>3, InsertType DEF ClockInInsert
    <2> QED
      BY <1>1, <1>3, <2>4, DoneStep DEF ClockInInsert, TypeOK, redis, history
  <1>4. CASE ClockOutSave(r)
    <2>1. held[r] \in Held
      BY <1>1, <1>4 DEF ClockOutSave, RequestOK, HasHeld
    <2>2. [held[r].row EXCEPT !.clockOut = now] \in Row
      BY <1>1, <2>1 DEF Held, Row, TypeOK
    <2>3. attendance' \in [Records -> Row \cup {NoRow}]
      BY <1>1, <1>4, <2>1, <2>2, SaveType DEF ClockOutSave, Held
    <2> QED
      BY <1>1, <1>4, <2>3, DoneStep DEF ClockOutSave, TypeOK, redis, history
  <1>5. CASE ClockInViaOtpFind(r)
    <2>1. CASE Done(r)
      BY <1>1, <1>5, <2>1, DoneStep DEF ClockInViaOtpFind, TypeOK, db, redis, history
    <2>2. CASE ~ Done(r)
      <3>1. PICK id \in Records : /\ attendance[id] # NoRow
                                 /\ attendance[id].clockInOtp # NA
                                 /\ Hold(r, id)
        BY <1>5, <2>2 DEF ClockInViaOtpFind, ClockInOtpMatches, RowsOf
      <3>2. args[r].type = "IN" /\ pc[r] # "idle"
        BY <1>1, <1>5 DEF ClockInViaOtpFind, RequestOK
      <3> QED
        BY <1>5, <2>2, <3>1, <3>2, HoldStep DEF ClockInViaOtpFind
    <2> QED
      BY <2>1, <2>2
  <1>6. CASE ValidateGet(r)
    <2>1. held[r] \in Held /\ HeldToken(r) \in Tokens
      BY <1>1, <1>6 DEF ValidateGet, RequestOK, HasHeld, HasToken
    <2>2. CASE Done(r)
      BY <1>1, <1>6, <2>2, DoneStep DEF ValidateGet, TypeOK, db, redis, history
    <2>3. CASE Goto(r, "validate_del") /\ UNCHANGED <<args, held, ticket>>
      BY <1>1, <1>6, <2>1, <2>3, GotoStep
         DEF ValidateGet, TypeOK, Steps, HasHeld, HasToken, db, redis, history
    <2> QED
      BY <1>6, <2>2, <2>3 DEF ValidateGet
  <1>7. CASE ValidateDelete(r)
    <2>1. held[r] \in Held /\ HeldToken(r) \in Tokens
      BY <1>1, <1>7 DEF ValidateDelete, RequestOK, HasHeld, HasToken
    <2>2. cache' \in [Tokens -> Nat \cup {Absent}]
      BY <1>1, <1>7 DEF ValidateDelete, TypeOK
    <2> QED
      BY <1>1, <1>7, <2>1, <2>2, GotoStep
         DEF ValidateDelete, TypeOK, Steps, HasHeld, HasToken, db, history
  <1>8. CASE ViaOtpSave(r)
    <2>1. held[r] \in Held /\ HeldToken(r) \in Tokens
      BY <1>1, <1>8 DEF ViaOtpSave, RequestOK, HasHeld, HasToken
    <2>2. /\ [held[r].row EXCEPT !.clockIn = now] \in Row
          /\ [held[r].row EXCEPT !.clockOut = now] \in Row
      BY <1>1, <2>1 DEF Held, Row, TypeOK
    <2>3. attendance' \in [Records -> Row \cup {NoRow}]
      BY <1>1, <1>8, <2>1, <2>2, SaveType DEF ViaOtpSave, Held
    <2> QED
      BY <1>1, <1>8, <2>1, <2>3, DoneStep DEF ViaOtpSave, TypeOK, redis
  <1>9. CASE GetAttendanceOtpCheck(r)
    <2>1. CASE Done(r)
      BY <1>1, <1>9, <2>1, DoneStep DEF GetAttendanceOtpCheck, TypeOK, db, redis, history
    <2>2. CASE Goto(r, "issue_set") /\ UNCHANGED <<args, held, ticket>>
      BY <1>1, <1>9, <2>2, GotoStep
         DEF GetAttendanceOtpCheck, TypeOK, Steps, HasHeld, HasToken, db, redis, history
    <2> QED
      BY <1>9, <2>1, <2>2 DEF GetAttendanceOtpCheck
  <1>10. CASE GenerateOtpSet(r)
    <2>1. /\ cache' \in [Tokens -> Nat \cup {Absent}]
          /\ minted' \subseteq Tokens
          /\ ticket' \in [Requests -> [token : Tokens \cup {NA}, expiresAt : Nat]]
      BY <1>1, <1>10 DEF GenerateOtpSet, TypeOK, NoExpiry
    <2> QED
      BY <1>1, <1>10, <2>1, GotoStep
         DEF GenerateOtpSet, TypeOK, Steps, HasHeld, HasToken, db, history
  <1>11. CASE GenerateOtpExpire(r)
    <2>1. cache' \in [Tokens -> Nat \cup {Absent}]
      <3>1. now + KeyLife \in Nat
        BY <1>1, LifeAssumption DEF TypeOK
      <3>2. cache' = [cache EXCEPT ![ticket[r].token] = now + KeyLife]
        BY <1>11 DEF GenerateOtpExpire
      <3> QED
        BY <1>1, <3>1, <3>2 DEF TypeOK
    <2>2. ticket' \in [Requests -> [token : Tokens \cup {NA}, expiresAt : Nat]]
      BY <1>1, <1>11, LifeAssumption DEF GenerateOtpExpire, AfterGenerate, TypeOK
    <2>3. PICK step \in {"issueIn_purge", "issueOut_find"} : Goto(r, step)
      BY <1>11 DEF GenerateOtpExpire, AfterGenerate
    <2> QED
      BY <1>1, <1>11, <2>1, <2>2, <2>3, GotoStep
         DEF GenerateOtpExpire, TypeOK, Steps, HasHeld, HasToken, db, history
  <1>12. CASE PurgeExpiredPending(r)
    <2>1. attendance' \in [Records -> Row \cup {NoRow}]
      BY <1>1, <1>12 DEF PurgeExpiredPending, TypeOK
    <2> QED
      BY <1>1, <1>12, <2>1, GotoStep
         DEF PurgeExpiredPending, TypeOK, Steps, HasHeld, HasToken, redis, history
  <1>13. CASE InsertPending(r)
    <2>1. args[r] \in Args
      BY <1>1, <1>13 DEF InsertPending, RequestOK
    <2>2. NewRow(Job(r), User(r)) \in Row
      BY <2>1, NewRowType DEF Args, Job, User
    <2>3. ticket[r].token \in Tokens \cup {NA} /\ ticket[r].expiresAt \in Nat
      BY <1>1 DEF TypeOK
    <2>4. [NewRow(Job(r), User(r)) EXCEPT
              !.clockInOtp = ticket[r].token,
              !.clockInOtpExpiresAt = ticket[r].expiresAt] \in Row
      BY <2>2, <2>3 DEF Row
    <2>5. attendance' \in [Records -> Row \cup {NoRow}] /\ usedIds' \subseteq Records
      BY <1>1, <1>13, <2>4, InsertType DEF InsertPending
    <2> QED
      BY <1>1, <1>13, <2>5, DoneStep DEF InsertPending, TypeOK, redis, history
  <1>14. CASE FindOpenForOtp(r)
    <2>1. CASE Done(r)
      BY <1>1, <1>14, <2>1, DoneStep DEF FindOpenForOtp, TypeOK, db, redis, history
    <2>2. CASE ~ Done(r)
      <3>1. PICK id \in Records : attendance[id] # NoRow /\ Hold(r, id)
        BY <1>14, <2>2 DEF FindOpenForOtp, OpenRows, RowsOf
      <3> QED
        BY <1>14, <2>2, <3>1, HoldStep DEF FindOpenForOtp
    <2> QED
      BY <2>1, <2>2
  <1>15. CASE SaveClockOutOtp(r)
    <2>1. held[r] \in Held
      BY <1>1, <1>15 DEF SaveClockOutOtp, RequestOK, HasHeld
    <2>2. ticket[r].token \in Tokens \cup {NA} /\ ticket[r].expiresAt \in Nat
      BY <1>1 DEF TypeOK
    <2>3. [held[r].row EXCEPT !.clockOutOtp = ticket[r].token,
                              !.clockOutOtpExpiresAt = ticket[r].expiresAt] \in Row
      BY <2>1, <2>2 DEF Held, Row
    <2>4. attendance' \in [Records -> Row \cup {NoRow}]
      BY <1>1, <1>15, <2>1, <2>3, SaveType DEF SaveClockOutOtp, Held
    <2> QED
      BY <1>1, <1>15, <2>4, DoneStep DEF SaveClockOutOtp, TypeOK, redis, history
  <1> QED
    BY <1>2, <1>3, <1>4, <1>5, <1>6, <1>7, <1>8, <1>9, <1>10, <1>11, <1>12,
       <1>13, <1>14, <1>15 DEF Proceed

\* Failed calls and crashes keep the types.
LEMMA FailType ==
    ASSUME TypeInv, NEW r \in Requests, Fail(r)
    PROVE  TypeInv'
  <1>1. TypeOK /\ RequestOK(r) /\ faults' \in Nat
    BY DEF TypeInv, RequestInv, TypeOK, Fail, Abort, RedisSetFails,
           RedisExpireFails, RedisDeleteFails, Fault
  <1>2. CASE Abort(r)
    BY <1>1, <1>2, DoneStep DEF Abort, TypeOK, db, redis
  <1>3. CASE RedisSetFails(r)
    <2>1. /\ minted' \subseteq Tokens
          /\ ticket' \in [Requests -> [token : Tokens \cup {NA}, expiresAt : Nat]]
      BY <1>1, <1>3, LifeAssumption DEF RedisSetFails, TypeOK
    <2>2. PICK step \in {"issueIn_purge", "issueOut_find"} : Goto(r, step)
      BY <1>3 DEF RedisSetFails
    <2> QED
      BY <1>1, <1>3, <2>1, <2>2, GotoStep
         DEF RedisSetFails, TypeOK, Steps, HasHeld, HasToken, db
  <1>4. CASE RedisExpireFails(r)
    <2>1. ticket' \in [Requests -> [token : Tokens \cup {NA}, expiresAt : Nat]]
      BY <1>1, <1>4, LifeAssumption DEF RedisExpireFails, AfterGenerate, TypeOK
    <2>2. PICK step \in {"issueIn_purge", "issueOut_find"} : Goto(r, step)
      BY <1>4 DEF RedisExpireFails, AfterGenerate
    <2> QED
      BY <1>1, <1>4, <2>1, <2>2, GotoStep
         DEF RedisExpireFails, TypeOK, Steps, HasHeld, HasToken, db, redis
  <1>5. CASE RedisDeleteFails(r)
    <2>1. held[r] \in Held /\ HeldToken(r) \in Tokens
      BY <1>1, <1>5 DEF RedisDeleteFails, RequestOK, HasHeld, HasToken
    <2> QED
      BY <1>1, <1>5, <2>1, GotoStep
         DEF RedisDeleteFails, TypeOK, Steps, HasHeld, HasToken, db, redis
  <1> QED
    BY <1>2, <1>3, <1>4, <1>5 DEF Fail

\* A step that changes no request.
LEMMA OutsideType ==
    ASSUME TypeInv, DeactivateJobs \/ UpdateJobStale \/ Tick \/ UNCHANGED vars
    PROVE  TypeInv'
  <1>1. TypeOK /\ RequestInv
    BY DEF TypeInv
  <1>2. UNCHANGED <<pc, args, held>>
    BY DEF DeactivateJobs, UpdateJobStale, Tick, vars, request
  <1>3. RequestInv'
    BY <1>1, <1>2 DEF RequestInv, RequestOK, HeldToken, Type
  <1>4. CASE DeactivateJobs
    BY <1>1, <1>3, <1>4 DEF DeactivateJobs, TypeInv, TypeOK, redis, request, history
  <1>5. CASE UpdateJobStale
    BY <1>1, <1>3, <1>5 DEF UpdateJobStale, TypeInv, TypeOK, redis, request, history
  <1>6. CASE Tick
    <2>1. now' \in Nat \ {0}
      BY <1>1, <1>6 DEF Tick, TypeOK
    <2>2. cache' \in [Tokens -> Nat \cup {Absent}]
      BY <1>1, <1>6 DEF Tick, TypeOK
    <2> QED
      BY <1>1, <1>3, <1>6, <2>1, <2>2 DEF Tick, TypeInv, TypeOK, db, request, history
  <1>7. CASE UNCHANGED vars
    BY <1>1, <1>3, <1>7 DEF vars, TypeInv, TypeOK
  <1> QED
    BY <1>4, <1>5, <1>6, <1>7

\* Every step keeps the types.
LEMMA TypeStep == TypeInv /\ [Next]_vars => TypeInv'
  BY ArriveType, ProceedType, FailType, OutsideType DEF Next

\* TypeCorrect: every reachable state is well typed: in particular a handler
\* saves only a row it found, and validates only an OTP that was issued.
THEOREM TypeCorrect == Spec => []TypeOK
  <1>1. Init => TypeInv
    BY InitType
  <1>2. TypeInv /\ [Next]_vars => TypeInv'
    BY TypeStep
  <1>3. TypeInv => TypeOK
    BY DEF TypeInv
  <1> QED
    BY <1>1, <1>2, <1>3, PTL DEF Spec

-----------------------------------------------------------------------------
(* Identity.  A save may write a row that was deleted, or saved by another   *)
(* request, since it was read; it still is a row of the same user, and of    *)
(* the same job unless the row lost its job by being inserted again.  Ids    *)
(* are never reused, so an insert hits no row that a request holds.          *)

Holding(r) == pc[r] \in HasHeld

IdentityInv ==
    /\ \A id \in Records : attendance[id] # NoRow => id \in usedIds
    /\ \A r \in Requests : Holding(r) =>
          /\ held[r].id \in usedIds
          /\ held[r].row.userId = args[r].user
          /\ attendance[held[r].id] # NoRow =>
                /\ attendance[held[r].id].userId = args[r].user
                /\ attendance[held[r].id].job \in {args[r].job, NoJob}
    /\ \A q, r \in Requests :
          Holding(q) /\ Holding(r) /\ held[q].id = held[r].id
             => args[q].user = args[r].user

\* Rows change only by deletion or by insertion under a new id.
LEMMA IdKeep ==
    ASSUME TypeInv, IdentityInv, NEW r \in Requests, OthersKeep(r),
           usedIds \subseteq usedIds',
           \A id \in Records : \/ attendance'[id] = attendance[id]
                               \/ attendance'[id] = NoRow
                               \/ id \in usedIds' \ usedIds,
           Holding(r)' => /\ Holding(r)
                          /\ args'[r] = args[r]
                          /\ held'[r] = held[r]
    PROVE  IdentityInv'
  <1>1. \A q \in Requests : Holding(q)' => /\ Holding(q)
                                           /\ args'[q] = args[q]
                                           /\ held'[q] = held[q]
    BY DEF OthersKeep, Holding
  <1>2. \A q \in Requests : Holding(q) => held[q].id \in Records
    BY DEF TypeInv, RequestInv, RequestOK, Holding, Held
  <1>3. \A id \in Records : attendance'[id] # NoRow => id \in usedIds'
    BY DEF IdentityInv
  <1>4. ASSUME NEW q \in Requests, Holding(q)'
        PROVE  /\ held'[q].id \in usedIds'
               /\ held'[q].row.userId = args'[q].user
               /\ attendance'[held'[q].id] # NoRow =>
                     /\ attendance'[held'[q].id].userId = args'[q].user
                     /\ attendance'[held'[q].id].job \in {args'[q].job, NoJob}
    <2>1. /\ held[q].id \in usedIds /\ held[q].id \in Records
          /\ args'[q] = args[q] /\ held'[q] = held[q] /\ Holding(q)
      BY <1>1, <1>2, <1>4 DEF IdentityInv
    <2> QED
      BY <2>1 DEF IdentityInv
  <1>5. ASSUME NEW q1 \in Requests, NEW q2 \in Requests,
               Holding(q1)', Holding(q2)', held'[q1].id = held'[q2].id
        PROVE  args'[q1].user = args'[q2].user
    BY <1>1, <1>5 DEF IdentityInv
  <1> QED
    BY <1>3, <1>4, <1>5 DEF IdentityInv

\* Slot r reads a row of its own user and job.
LEMMA IdHold ==
    ASSUME TypeInv, IdentityInv, NEW r \in Requests, NEW id \in Records,
           attendance[id] # NoRow,
           held'[r].id = id, held'[r].row = attendance[id],
           args'[r].user = attendance[id].userId,
           args'[r].job = attendance[id].job,
           OthersKeep(r),
           UNCHANGED <<attendance, usedIds>>
    PROVE  IdentityInv'
  <1>1. \A q \in Requests \ {r} : Holding(q)' => /\ Holding(q)
                                                 /\ args'[q] = args[q]
                                                 /\ held'[q] = held[q]
    BY DEF OthersKeep, Holding
  <1>2. id \in usedIds
    BY DEF IdentityInv
  <1>3. \A q \in Requests \ {r} :
           Holding(q)' /\ held'[q].id = id => args'[q].user = attendance[id].userId
    BY <1>1 DEF IdentityInv
  <1>4. \A q \in Requests : Holding(q)' =>
           /\ held'[q].id \in usedIds'
           /\ held'[q].row.userId = args'[q].user
           /\ attendance'[held'[q].id] # NoRow =>
                 /\ attendance'[held'[q].id].userId = args'[q].user
                 /\ attendance'[held'[q].id].job \in {args'[q].job, NoJob}
    BY <1>1, <1>2 DEF IdentityInv
  <1>5. ASSUME NEW q1 \in Requests, NEW q2 \in Requests,
               Holding(q1)', Holding(q2)', held'[q1].id = held'[q2].id
        PROVE  args'[q1].user = args'[q2].user
    BY <1>1, <1>3, <1>5 DEF IdentityInv
  <1> QED
    BY <1>4, <1>5 DEF IdentityInv

\* What a save leaves under the id it writes.
LEMMA SaveEffect ==
    ASSUME TypeOK, NEW id \in Records, NEW row \in Row, Save(id, row)
    PROVE  /\ \A i \in Records \ {id} : attendance'[i] = attendance[i]
           /\ attendance'[id].userId = row.userId
           /\ attendance'[id].clockIn = row.clockIn
           /\ attendance'[id].clockOut = row.clockOut
           /\ attendance'[id].job = IF attendance[id] = NoRow
                                    THEN NoJob ELSE attendance[id].job
  BY DEF TypeOK, Save, Row

\* Slot r saves a version of the row it holds and is done.
LEMMA IdSave ==
    ASSUME TypeInv, IdentityInv, NEW r \in Requests, Holding(r), OthersKeep(r),
           pc'[r] = "idle",
           NEW row \in Row, row.userId = held[r].row.userId,
           Save(held[r].id, row), usedIds' = usedIds
    PROVE  IdentityInv'
  <1> DEFINE id == held[r].id
  <1>1. id \in Records /\ id \in usedIds
    BY DEF TypeInv, RequestInv, RequestOK, Holding, Held, IdentityInv
  <1>2. /\ \A i \in Records \ {id} : attendance'[i] = attendance[i]
        /\ attendance'[id].userId = row.userId
        /\ attendance'[id].job = IF attendance[id] = NoRow
                                 THEN NoJob ELSE attendance[id].job
    BY <1>1, SaveEffect DEF TypeInv
  <1>3. \A q \in Requests : Holding(q)' => /\ q # r
                                           /\ Holding(q)
                                           /\ args'[q] = args[q]
                                           /\ held'[q] = held[q]
    BY DEF OthersKeep, Holding, HasHeld
  <1>4. \A i \in Records : attendance'[i] # NoRow => i \in usedIds'
    BY <1>1, <1>2 DEF IdentityInv
  <1>5. ASSUME NEW q \in Requests, Holding(q)'
        PROVE  /\ held'[q].id \in usedIds'
               /\ held'[q].row.userId = args'[q].user
               /\ attendance'[held'[q].id] # NoRow =>
                     /\ attendance'[held'[q].id].userId = args'[q].user
                     /\ attendance'[held'[q].id].job \in {args'[q].job, NoJob}
    <2>1. /\ Holding(q) /\ args'[q] = args[q] /\ held'[q] = held[q]
          /\ held[q].id \in usedIds /\ held[q].row.userId = args[q].user
      BY <1>3, <1>5 DEF IdentityInv
    <2>2. held[q].id \in Records
      BY <2>1 DEF TypeInv, RequestInv, RequestOK, Holding, Held
    <2>3. CASE held[q].id # id
      BY <1>2, <2>1, <2>2, <2>3 DEF IdentityInv
    <2>4. CASE held[q].id = id
      <3>1. args[q].user = args[r].user /\ row.userId = args[r].user
        BY <2>1, <2>4 DEF IdentityInv
      <3>2. attendance[id] # NoRow => attendance[id].job \in {args[q].job, NoJob}
        BY <2>1, <2>4 DEF IdentityInv
      <3> QED
        BY <1>2, <2>1, <2>4, <3>1, <3>2
    <2> QED
      BY <2>3, <2>4
  <1>6. ASSUME NEW q1 \in Requests, NEW q2 \in Requests,
               Holding(q1)', Holding(q2)', held'[q1].id = held'[q2].id
        PROVE  args'[q1].user = args'[q2].user
    BY <1>3, <1>6 DEF IdentityInv
  <1> QED
    BY <1>4, <1>5, <1>6 DEF IdentityInv

-----------------------------------------------------------------------------
(* How a step changes the slot that takes it. *)

\* A request that ends leaves its slot idle and the others alone.
LEMMA DoneLocals ==
    ASSUME TypeOK, NEW r \in Requests, Done(r)
    PROVE  OthersKeep(r) /\ pc'[r] = "idle"
  BY DEF TypeOK, Done, Goto, OthersKeep

\* A slot moves to its next call with its arguments and row.
LEMMA GotoLocals ==
    ASSUME TypeOK, NEW r \in Requests, NEW step, Goto(r, step), UNCHANGED <<args, held>>
    PROVE  OthersKeep(r) /\ pc'[r] = step
  BY DEF TypeOK, Goto, OthersKeep

\* A slot moves on with a copy of the row it read.
LEMMA HoldLocals ==
    ASSUME TypeOK, NEW r \in Requests, NEW step, NEW id \in Records,
           Goto(r, step), Hold(r, id), UNCHANGED args
    PROVE  /\ OthersKeep(r) /\ pc'[r] = step
           /\ held'[r].id = id /\ held'[r].row = attendance[id]
  BY DEF TypeOK, Goto, Hold, OthersKeep

\* A request starts in its slot.
LEMMA BeginLocals ==
    ASSUME TypeOK, NEW r \in Requests, NEW step, NEW u, NEW j, NEW type,
           Begin(r, step, u, j, type), UNCHANGED held
    PROVE  /\ OthersKeep(r) /\ pc'[r] = step
           /\ args'[r] = [user |-> u, job |-> j, type |-> type]
  BY DEF TypeOK, Begin, Goto, OthersKeep

\* A request starts in its slot with a copy of the row it read.
LEMMA BeginHoldLocals ==
    ASSUME TypeOK, NEW r \in Requests, NEW step, NEW u, NEW j, NEW type,
           NEW id \in Records, Begin(r, step, u, j, type), Hold(r, id)
    PROVE  /\ OthersKeep(r) /\ pc'[r] = step
           /\ args'[r] = [user |-> u, job |-> j, type |-> type]
           /\ held'[r].id = id /\ held'[r].row = attendance[id]
  BY DEF TypeOK, Begin, Goto, Hold, OthersKeep

-----------------------------------------------------------------------------
(* The bound on open shifts.  Pot is what OpenInv counts besides Opening.   *)
(* For one user and job, a step adds nothing to either set, or trades an     *)
(* element of Opening for a row, or was taken with no shift open.            *)

Pot(j, u) == OpenRows(j, u) \cup HeldOpen(j, u)

Quiet(j, u) == Pot(j, u)' \subseteq Pot(j, u) /\ Opening(j, u)' \subseteq Opening(j, u)

Trade(j, u) == \E r \in Opening(j, u), id \in Records :
                  /\ Pot(j, u)' \subseteq Pot(j, u) \cup {id}
                  /\ Opening(j, u)' \subseteq Opening(j, u) \ {r}

Effect == \A j \in Jobs, u \in Users :
              Quiet(j, u) \/ Trade(j, u) \/ OpenRows(j, u)' = {}

\* Open rows depend on the table alone.
LEMMA RowsSame ==
    ASSUME UNCHANGED attendance, NEW j, NEW u
    PROVE  OpenRows(j, u)' = OpenRows(j, u)
  BY DEF OpenRows, RowsOf

\* A slot that comes to open nothing it did not before is quiet.
LEMMA SlotQuiet ==
    ASSUME NEW r \in Requests, OthersKeep(r), NEW j, NEW u,
           OpenRows(j, u)' \subseteq OpenRows(j, u),
           pc'[r] # "issueOut_save",
           r \in Opening(j, u)' => r \in Opening(j, u)
    PROVE  Quiet(j, u)
  <1>1. HeldOpen(j, u)' \subseteq HeldOpen(j, u)
    BY DEF HeldOpen, OthersKeep
  <1>2. Opening(j, u)' \subseteq Opening(j, u)
    BY DEF Opening, OthersKeep
  <1> QED
    BY <1>1, <1>2 DEF Quiet, Pot

\* A request that starts or moves on, without touching the table, to a call
\* that opens no shift, or from one that may open a shift to another.
LEMMA GoesOn ==
    ASSUME NEW r \in Requests, OthersKeep(r), UNCHANGED attendance,
           \/ pc'[r] \notin {"in_job", "in_insert", "otpIn_find", "validate_get",
                             "validate_del", "validate_save", "issueOut_save"}
           \/ pc'[r] = "validate_get" /\ args'[r].type = "OUT"
           \/ /\ args'[r] = args[r]
              /\ \/ pc[r] = "in_job" /\ pc'[r] = "in_insert"
                 \/ pc[r] = "otpIn_find" /\ pc'[r] = "validate_get"
                 \/ /\ pc[r] \in {"validate_get", "validate_del"}
                    /\ pc'[r] \in {"validate_del", "validate_save"}
    PROVE  Effect
  <1> SUFFICES ASSUME NEW j \in Jobs, NEW u \in Users PROVE Quiet(j, u)
    BY DEF Effect
  <1>1. r \in Opening(j, u)' => r \in Opening(j, u)
    BY DEF Opening
  <1> QED
    BY <1>1, RowsSame, SlotQuiet

\* A request that ends, and leaves no new open row.
LEMMA EndsQuietly ==
    ASSUME NEW r \in Requests, OthersKeep(r), pc'[r] = "idle",
           \A j \in Jobs, u \in Users : OpenRows(j, u)' \subseteq OpenRows(j, u)
    PROVE  Effect
  <1> SUFFICES ASSUME NEW j \in Jobs, NEW u \in Users PROVE Quiet(j, u)
    BY DEF Effect
  <1>1. r \notin Opening(j, u)'
    BY DEF Opening
  <1> QED
    BY <1>1, SlotQuiet

\* A request that ends by opening the row id for its user and job.
LEMMA EndsOpening ==
    ASSUME NEW r \in Requests, OthersKeep(r), pc'[r] = "idle",
           NEW id \in Records,
           r \in Opening(args[r].job, args[r].user),
           \A j \in Jobs, u \in Users :
              OpenRows(j, u)' \subseteq OpenRows(j, u) \cup
                 (IF j = args[r].job /\ u = args[r].user THEN {id} ELSE {})
    PROVE  Effect
  <1> SUFFICES ASSUME NEW j \in Jobs, NEW u \in Users
               PROVE  Quiet(j, u) \/ Trade(j, u)
    BY DEF Effect
  <1>1. r \notin Opening(j, u)'
    BY DEF Opening
  <1>2. CASE j = args[r].job /\ u = args[r].user
    <2>1. HeldOpen(j, u)' \subseteq HeldOpen(j, u)
      BY DEF HeldOpen, OthersKeep
    <2>2. Opening(j, u)' \subseteq Opening(j, u) \ {r}
      BY <1>1 DEF Opening, OthersKeep
    <2>3. Pot(j, u)' \subseteq Pot(j, u) \cup {id}
      BY <1>2, <2>1 DEF Pot
    <2> QED
      BY <1>2, <2>2, <2>3 DEF Trade
  <1>3. CASE ~ (j = args[r].job /\ u = args[r].user)
    <2>1. OpenRows(j, u)' \subseteq OpenRows(j, u)
      BY <1>3
    <2> QED
      BY <1>1, <2>1, SlotQuiet
  <1> QED
    BY <1>2, <1>3

\* A request admitted because its user has no open shift on the job.
LEMMA Admitted ==
    ASSUME NEW r \in Requests, OthersKeep(r), UNCHANGED attendance,
           pc'[r] # "issueOut_save",
           OpenRows(args'[r].job, args'[r].user) = {}
    PROVE  Effect
  <1> SUFFICES ASSUME NEW j \in Jobs, NEW u \in Users
               PROVE  Quiet(j, u) \/ OpenRows(j, u)' = {}
    BY DEF Effect
  <1>1. CASE j = args'[r].job /\ u = args'[r].user
    BY <1>1, RowsSame
  <1>2. CASE ~ (j = args'[r].job /\ u = args'[r].user)
    <2>1. r \notin Opening(j, u)'
      BY <1>2 DEF Opening
    <2> QED
      BY <2>1, RowsSame, SlotQuiet
  <1> QED
    BY <1>1, <1>2

\* A save opens at most the row it writes, and for its own user and job.
LEMMA SaveRows ==
    ASSUME TypeInv, IdentityInv, NEW r \in Requests, Holding(r),
           NEW row \in Row, row.userId = held[r].row.userId,
           Save(held[r].id, row), NEW j \in Jobs, NEW u \in Users
    PROVE  OpenRows(j, u)' \subseteq OpenRows(j, u) \cup
              (IF /\ j = args[r].job /\ u = args[r].user
                  /\ row.clockIn # Null /\ row.clockOut = Null
               THEN {held[r].id} ELSE {})
  <1> DEFINE id == held[r].id
  <1>1. id \in Records /\ row.userId = args[r].user
    BY DEF TypeInv, RequestInv, RequestOK, Holding, Held, IdentityInv
  <1>2. /\ \A i \in Records \ {id} : attendance'[i] = attendance[i]
        /\ attendance'[id].userId = row.userId
        /\ attendance'[id].clockIn = row.clockIn
        /\ attendance'[id].clockOut = row.clockOut
        /\ attendance'[id].job = IF attendance[id] = NoRow
                                 THEN NoJob ELSE attendance[id].job
    BY <1>1, SaveEffect DEF TypeInv
  <1>3. attendance'[id].job \in {args[r].job, NoJob}
    BY <1>2 DEF IdentityInv
  <1>4. ASSUME id \in OpenRows(j, u)'
        PROVE  /\ j = args[r].job /\ u = args[r].user
               /\ row.clockIn # Null /\ row.clockOut = Null
    BY <1>1, <1>2, <1>3, <1>4, NullAssumption DEF OpenRows, RowsOf
  <1>5. \A i \in Records \ {id} : i \in OpenRows(j, u)' => i \in OpenRows(j, u)
    BY <1>2 DEF OpenRows, RowsOf
  <1>6. OpenRows(j, u)' \subseteq Records
    BY DEF OpenRows, RowsOf
  <1> QED
    BY <1>4, <1>5, <1>6

\* An insert opens at most the new row, if that has a clock-in.
LEMMA InsertRows ==
    ASSUME TypeOK, NEW row \in Row, Insert(row)
    PROVE  \E id \in Records \ usedIds :
              /\ usedIds' = usedIds \cup {id}
              /\ \A i \in Records \ {id} : attendance'[i] = attendance[i]
              /\ \A j \in Jobs, u \in Users :
                    OpenRows(j, u)' \subseteq OpenRows(j, u) \cup
                       (IF /\ j = row.job /\ u = row.userId
                           /\ row.clockIn # Null /\ row.clockOut = Null
                        THEN {id} ELSE {})
  <1>1. PICK id \in Records \ usedIds :
          /\ attendance' = [attendance EXCEPT ![id] = row]
          /\ usedIds' = usedIds \cup {id}
    BY DEF Insert
  <1>2. /\ \A i \in Records \ {id} : attendance'[i] = attendance[i]
        /\ attendance'[id] = row
    BY <1>1 DEF TypeOK
  <1>3. ASSUME NEW j \in Jobs, NEW u \in Users
        PROVE  OpenRows(j, u)' \subseteq OpenRows(j, u) \cup
                 (IF /\ j = row.job /\ u = row.userId
                     /\ row.clockIn # Null /\ row.clockOut = Null
                  THEN {id} ELSE {})
    BY <1>2 DEF OpenRows, RowsOf
  <1> QED
    BY <1>1, <1>2, <1>3

\* A failed or refused request: it ends and the tables are as before.
LEMMA EndsUnchanged ==
    ASSUME TypeInv, IdentityInv, NEW r \in Requests, Done(r), UNCHANGED db
    PROVE  IdentityInv' /\ Effect
  <1>1. OthersKeep(r) /\ pc'[r] = "idle"
    BY DoneLocals DEF TypeInv
  <1>2. UNCHANGED <<attendance, usedIds>>
    BY DEF db
  <1>3. IdentityInv'
    BY <1>1, <1>2, IdKeep DEF Holding, HasHeld
  <1>4. Effect
    BY <1>1, <1>2, RowsSame, EndsQuietly
  <1> QED
    BY <1>3, <1>4

\* A step to a call that needs no held row, or keeps the one the slot holds.
LEMMA MovesUnchanged ==
    ASSUME TypeInv, IdentityInv, NEW r \in Requests, NEW step, Goto(r, step),
           UNCHANGED <<db, args, held>>,
           step \in HasHeld => Holding(r),
           \/ step \notin HasHeld \cup {"in_job", "in_insert", "otpIn_find"}
           \/ pc[r] = "in_job" /\ step = "in_insert"
           \/ /\ pc[r] \in {"validate_get", "validate_del"}
              /\ step \in {"validate_del", "validate_save"}
    PROVE  IdentityInv' /\ Effect
  <1>1. OthersKeep(r) /\ pc'[r] = step
    BY GotoLocals DEF TypeInv
  <1>2. UNCHANGED <<attendance, usedIds>>
    BY DEF db
  <1>3. IdentityInv'
    BY <1>1, <1>2, IdKeep DEF Holding
  <1>4. Effect
    BY <1>1, <1>2, GoesOn DEF HasHeld
  <1> QED
    BY <1>3, <1>4

\* A handler's first call keeps the identities, and has an Effect.
LEMMA ArriveShift ==
    ASSUME TypeInv, IdentityInv, NEW r \in Requests, Arrive(r)
    PROVE  IdentityInv' /\ Effect
  <1>1. TypeOK
    BY DEF TypeInv
  <1>2. PICK u \in Users, j \in Jobs :
          \/ ClockIn(r, u, j)
          \/ ClockOut(r, u, j)
          \/ ClockInViaOtp(r, u, j)
          \/ ClockOutViaOtp(r, u, j)
          \/ \E type \in {"IN", "OUT"} : GetAttendanceOtp(r, u, j, type)
    BY DEF Arrive
  <1>3. UNCHANGED <<attendance, usedIds>>
    BY <1>2 DEF ClockIn, ClockOut, ClockInViaOtp, ClockOutViaOtp, GetAttendanceOtp, db
  <1>4. CASE ClockIn(r, u, j) \/ ClockInViaOtp(r, u, j)
    <2>1. /\ OthersKeep(r) /\ pc'[r] \in {"in_job", "otpIn_find"}
          /\ args'[r].job = j /\ args'[r].user = u
      <3>1. PICK step \in {"in_job", "otpIn_find"} :
              Begin(r, step, u, j, "IN") /\ UNCHANGED held
        BY <1>4 DEF ClockIn, ClockInViaOtp
      <3>2. /\ OthersKeep(r) /\ pc'[r] = step
            /\ args'[r] = [user |-> u, job |-> j, type |-> "IN"]
        BY <1>1, <3>1, BeginLocals
      <3> QED
        BY <3>2
    <2>2. OpenRows(j, u) = {}
      BY <1>4 DEF ClockIn, ClockInViaOtp, isUserClockedIn
    <2>3. IdentityInv'
      BY <1>3, <2>1, IdKeep DEF Holding, HasHeld
    <2> QED
      BY <1>3, <2>1, <2>2, <2>3, Admitted
  <1>5. CASE ClockOut(r, u, j) \/ ClockOutViaOtp(r, u, j)
    <2>1. PICK id \in Records : /\ attendance[id] # NoRow
                               /\ attendance[id].job = j
                               /\ attendance[id].userId = u
                               /\ Hold(r, id)
      BY <1>5 DEF ClockOut, ClockOutMatches, ClockOutViaOtp, ClockOutOtpMatches, RowsOf
    <2>2. PICK step \in {"out_save", "validate_get"} : Begin(r, step, u, j, "OUT")
      BY <1>5 DEF ClockOut, ClockOutViaOtp
    <2>3. /\ OthersKeep(r) /\ pc'[r] = step
          /\ args'[r] = [user |-> u, job |-> j, type |-> "OUT"]
          /\ held'[r].id = id /\ held'[r].row = attendance[id]
      BY <1>1, <2>1, <2>2, BeginHoldLocals
    <2>4. IdentityInv'
      BY <1>3, <2>1, <2>3, IdHold
    <2> QED
      BY <1>3, <2>3, <2>4, GoesOn
  <1>6. ASSUME NEW type \in {"IN", "OUT"}, GetAttendanceOtp(r, u, j, type)
        PROVE  IdentityInv' /\ Effect
    <2>1. OthersKeep(r) /\ pc'[r] = "issue_check"
      BY <1>1, <1>6, BeginLocals DEF GetAttendanceOtp
    <2>2. IdentityInv'
      BY <1>3, <2>1, IdKeep DEF Holding, HasHeld
    <2> QED
      BY <1>3, <2>1, <2>2, GoesOn
  <1> QED
    BY <1>2, <1>4, <1>5, <1>6

\* So does each later call of a handler.
LEMMA ProceedShift ==
    ASSUME TypeInv, IdentityInv, NEW r \in Requests, Proceed(r)
    PROVE  IdentityInv' /\ Effect
  <1>1. TypeOK /\ RequestOK(r)
    BY DEF TypeInv, RequestInv
  <1>2. CASE ClockInFindJob(r)
    BY <1>2, EndsUnchanged, MovesUnchanged DEF ClockInFindJob, HasHeld
  <1>3. CASE ClockInInsert(r)
    <2> DEFINE row == [NewRow(Job(r), User(r)) EXCEPT !.clockIn = now]
    <2>1. args[r] \in Args
      BY <1>1, <1>3 DEF ClockInInsert, RequestOK
    <2>2. NewRow(Job(r), User(r)) \in Row
      BY <2>1, NewRowType DEF Args, Job, User
    <2>3. row \in Row /\ row.job = args[r].job /\ row.userId = args[r].user
      BY <1>1, <2>2 DEF Row, TypeOK, NewRow, Job, User
    <2>4. PICK id \in Records \ usedIds :
            /\ usedIds' = usedIds \cup {id}
            /\ \A i \in Records \ {id} : attendance'[i] = attendance[i]
            /\ \A j \in Jobs, u \in Users :
                  OpenRows(j, u)' \subseteq OpenRows(j, u) \cup
                     (IF /\ j = row.job /\ u = row.userId
                         /\ row.clockIn # Null /\ row.clockOut = Null
                      THEN {id} ELSE {})
      <3>1. Insert(row)
        BY <1>3 DEF ClockInInsert
      <3> HIDE DEF row
      <3> QED
        BY <1>1, <2>3, <3>1, InsertRows
    <2>5. OthersKeep(r) /\ pc'[r] = "idle"
      BY <1>1, <1>3, DoneLocals DEF ClockInInsert
    <2>6. IdentityInv'
      BY <2>4, <2>5, IdKeep DEF Holding, HasHeld
    <2>7. r \in Opening(args[r].job, args[r].user)
      BY <1>3 DEF ClockInInsert, Opening
    <2>8. \A j \in Jobs, u \in Users :
             OpenRows(j, u)' \subseteq OpenRows(j, u) \cup
                (IF j = args[r].job /\ u = args[r].user THEN {id} ELSE {})
      BY <2>3, <2>4
    <2> QED
      BY <2>5, <2>6, <2>7, <2>8, EndsOpening
  <1>4. CASE ClockOutSave(r)
    <2> DEFINE row == [held[r].row EXCEPT !.clockOut = now]
    <2>1. Holding(r) /\ held[r] \in Held
      BY <1>1, <1>4 DEF ClockOutSave, RequestOK, Holding, HasHeld
    <2>2. /\ row \in Row /\ row.userId = held[r].row.userId
          /\ row.clockOut # Null
      BY <1>1, <2>1 DEF Held, Row, TypeOK, Null
    <2>3. Save(held[r].id, row) /\ Done(r) /\ usedIds' = usedIds
      BY <1>4 DEF ClockOutSave
    <2>4. OthersKeep(r) /\ pc'[r] = "idle"
      BY <1>1, <2>3, DoneLocals
    <2> HIDE DEF row
    <2>5. IdentityInv'
      BY <2>1, <2>2, <2>3, <2>4, IdSave
    <2>6. \A j \in Jobs, u \in Users : OpenRows(j, u)' \subseteq OpenRows(j, u)
      BY <2>1, <2>2, <2>3, SaveRows
    <2> QED
      BY <2>4, <2>5, <2>6, EndsQuietly
  <1>5. CASE ClockInViaOtpFind(r)
    <2>1. CASE Done(r)
      BY <1>5, <2>1, EndsUnchanged DEF ClockInViaOtpFind
    <2>2. CASE ~ Done(r)
      <3>1. PICK id \in Records : /\ attendance[id] # NoRow
                                 /\ attendance[id].job = args[r].job
                                 /\ attendance[id].userId = args[r].user
                                 /\ Hold(r, id)
        BY <1>5, <2>2 DEF ClockInViaOtpFind, ClockInOtpMatches, RowsOf, Job, User
      <3>2. /\ pc[r] = "otpIn_find" /\ Goto(r, "validate_get")
            /\ UNCHANGED <<attendance, usedIds, args>>
        BY <1>5, <2>2 DEF ClockInViaOtpFind, db
      <3>3. /\ OthersKeep(r) /\ pc'[r] = "validate_get"
            /\ held'[r].id = id /\ held'[r].row = attendance[id]
        BY <1>1, <3>1, <3>2, HoldLocals
      <3>4. IdentityInv'
        BY <3>1, <3>2, <3>3, IdHold
      <3> QED
        BY <3>2, <3>3, <3>4, GoesOn
    <2> QED
      BY <2>1, <2>2
  <1>6. CASE ValidateGet(r)
    BY <1>6, EndsUnchanged, MovesUnchanged DEF ValidateGet, Holding, HasHeld
  <1>7. CASE ValidateDelete(r)
    BY <1>7, MovesUnchanged DEF ValidateDelete, Holding, HasHeld
  <1>8. CASE ViaOtpSave(r)
    <2>1. Holding(r) /\ held[r] \in Held /\ pc[r] = "validate_save"
      BY <1>1, <1>8 DEF ViaOtpSave, RequestOK, Holding, HasHeld
    <2>2. OthersKeep(r) /\ pc'[r] = "idle" /\ usedIds' = usedIds
      BY <1>1, <1>8, DoneLocals DEF ViaOtpSave
    <2>3. CASE Type(r) = "IN"
      <3> DEFINE row == [held[r].row EXCEPT !.clockIn = now]
      <3>1. row \in Row /\ row.userId = held[r].row.userId
        BY <1>1, <2>1 DEF Held, Row, TypeOK
      <3>2. Save(held[r].id, row)
        BY <1>8, <2>3 DEF ViaOtpSave
      <3> HIDE DEF row
      <3>3. IdentityInv'
        BY <2>1, <2>2, <3>1, <3>2, IdSave
      <3>4. r \in Opening(args[r].job, args[r].user)
        BY <2>1, <2>3 DEF Opening, Type
      <3>5. \A j \in Jobs, u \in Users :
               OpenRows(j, u)' \subseteq OpenRows(j, u) \cup
                  (IF j = args[r].job /\ u = args[r].user THEN {held[r].id} ELSE {})
        BY <2>1, <3>1, <3>2, SaveRows
      <3>6. held[r].id \in Records
        BY <2>1 DEF Held
      <3> QED
        BY <2>2, <3>3, <3>4, <3>5, <3>6, EndsOpening
    <2>4. CASE Type(r) = "OUT"
      <3> DEFINE row == [held[r].row EXCEPT !.clockOut = now]
      <3>1. /\ row \in Row /\ row.userId = held[r].row.userId
            /\ row.clockOut # Null
        BY <1>1, <2>1 DEF Held, Row, TypeOK, Null
      <3>2. Save(held[r].id, row)
        BY <1>8, <2>4 DEF ViaOtpSave
      <3> HIDE DEF row
      <3>3. IdentityInv'
        BY <2>1, <2>2, <3>1, <3>2, IdSave
      <3>4. \A j \in Jobs, u \in Users : OpenRows(j, u)' \subseteq OpenRows(j, u)
        BY <2>1, <3>1, <3>2, SaveRows
      <3> QED
        BY <2>2, <3>3, <3>4, EndsQuietly
    <2> QED
      BY <1>8, <2>3, <2>4 DEF ViaOtpSave
  <1>9. CASE GetAttendanceOtpCheck(r)
    BY <1>9, EndsUnchanged, MovesUnchanged DEF GetAttendanceOtpCheck, HasHeld
  <1>10. CASE GenerateOtpSet(r)
    BY <1>10, MovesUnchanged DEF GenerateOtpSet, HasHeld
  <1>11. CASE GenerateOtpExpire(r)
    <2>1. PICK step \in {"issueIn_purge", "issueOut_find"} : Goto(r, step)
      BY <1>11 DEF GenerateOtpExpire, AfterGenerate
    <2> QED
      BY <1>11, <2>1, MovesUnchanged DEF GenerateOtpExpire, HasHeld
  <1>12. CASE PurgeExpiredPending(r)
    <2>1. /\ OthersKeep(r) /\ pc'[r] = "issueIn_insert" /\ pc[r] = "issueIn_purge"
          /\ UNCHANGED <<usedIds, args, held>>
      BY <1>1, <1>12, GotoLocals DEF PurgeExpiredPending
    <2>2. \A i \in Records : attendance'[i] = attendance[i] \/ attendance'[i] = NoRow
      BY <1>12 DEF PurgeExpiredPending
    <2>3. IdentityInv'
      BY <2>1, <2>2, IdKeep DEF Holding, HasHeld
    <2>4. \A j \in Jobs, u \in Users : OpenRows(j, u)' \subseteq OpenRows(j, u)
      BY <2>2 DEF OpenRows, RowsOf
    <2>5. \A j \in Jobs, u \in Users : r \notin Opening(j, u)'
      BY <2>1 DEF Opening
    <2> QED
      BY <2>1, <2>3, <2>4, <2>5, SlotQuiet DEF Effect
  <1>13. CASE InsertPending(r)
    <2> DEFINE row == [NewRow(Job(r), User(r)) EXCEPT
                          !.clockInOtp = ticket[r].token,
                          !.clockInOtpExpiresAt = ticket[r].expiresAt]
    <2>1. args[r] \in Args
      BY <1>1, <1>13 DEF InsertPending, RequestOK
    <2>2. NewRow(Job(r), User(r)) \in Row
      BY <2>1, NewRowType DEF Args, Job, User
    <2>3. ticket[r].token \in Tokens \cup {NA} /\ ticket[r].expiresAt \in Nat
      BY <1>1 DEF TypeOK
    <2>4. row \in Row
      BY <2>2, <2>3 DEF Row
    <2>5. row.clockIn = Null
      BY DEF NewRow
    <2>6. Insert(row) /\ Done(r)
      BY <1>13 DEF InsertPending
    <2> HIDE DEF row
    <2>7. PICK id \in Records \ usedIds :
            /\ usedIds' = usedIds \cup {id}
            /\ \A i \in Records \ {id} : attendance'[i] = attendance[i]
            /\ \A j \in Jobs, u \in Users :
                  OpenRows(j, u)' \subseteq OpenRows(j, u) \cup
                     (IF /\ j = row.job /\ u = row.userId
                         /\ row.clockIn # Null /\ row.clockOut = Null
                      THEN {id} ELSE {})
      BY <1>1, <2>4, <2>6, InsertRows
    <2>8. OthersKeep(r) /\ pc'[r] = "idle"
      BY <1>1, <2>6, DoneLocals
    <2>9. IdentityInv'
      BY <2>7, <2>8, IdKeep DEF Holding, HasHeld
    <2>10. \A j \in Jobs, u \in Users : OpenRows(j, u)' \subseteq OpenRows(j, u)
      BY <2>5, <2>7
    <2> QED
      BY <2>8, <2>9, <2>10, EndsQuietly
  <1>14. CASE FindOpenForOtp(r)
    <2>1. CASE Done(r)
      BY <1>14, <2>1, EndsUnchanged DEF FindOpenForOtp
    <2>2. CASE ~ Done(r)
      <3>1. PICK id \in OpenRows(args[r].job, args[r].user) : Hold(r, id)
        BY <1>14, <2>2 DEF FindOpenForOtp, Job, User
      <3>2. /\ id \in Records /\ attendance[id] # NoRow
            /\ attendance[id].job = args[r].job
            /\ attendance[id].userId = args[r].user
        BY <3>1 DEF OpenRows, RowsOf
      <3>3. Goto(r, "issueOut_save") /\ UNCHANGED <<attendance, usedIds, args>>
        BY <1>14, <2>2 DEF FindOpenForOtp, db
      <3>4. /\ OthersKeep(r) /\ pc'[r] = "issueOut_save"
            /\ held'[r].id = id /\ held'[r].row = attendance[id]
        BY <1>1, <3>1, <3>2, <3>3, HoldLocals
      <3>5. IdentityInv'
        BY <3>2, <3>3, <3>4, IdHold
      <3>6. ASSUME NEW j \in Jobs, NEW u \in Users PROVE Quiet(j, u)
        <4>1. HeldOpen(j, u)' \subseteq HeldOpen(j, u) \cup
                 (IF j = args[r].job /\ u = args[r].user THEN {id} ELSE {})
          BY <3>3, <3>4 DEF HeldOpen, OthersKeep
        <4>2. Opening(j, u)' \subseteq Opening(j, u)
          BY <3>4 DEF Opening, OthersKeep
        <4>3. OpenRows(j, u)' = OpenRows(j, u)
          BY <3>3, RowsSame
        <4> QED
          BY <3>1, <4>1, <4>2, <4>3 DEF Quiet, Pot
      <3> QED
        BY <3>5, <3>6 DEF Effect
    <2> QED
      BY <2>1, <2>2
  <1>15. CASE SaveClockOutOtp(r)
    <2> DEFINE row == [held[r].row EXCEPT !.clockOutOtp = ticket[r].token,
                                          !.clockOutOtpExpiresAt = ticket[r].expiresAt]
    <2>1. Holding(r) /\ held[r] \in Held /\ pc[r] = "issueOut_save"
      BY <1>1, <1>15 DEF SaveClockOutOtp, RequestOK, Holding, HasHeld
    <2>2. ticket[r].token \in Tokens \cup {NA} /\ ticket[r].expiresAt \in Nat
      BY <1>1 DEF TypeOK
    <2>3. row \in Row /\ row.userId = held[r].row.userId
      BY <2>1, <2>2 DEF Held, Row
    <2>4. Save(held[r].id, row) /\ Done(r) /\ usedIds' = usedIds
      BY <1>15 DEF SaveClockOutOtp
    <2>5. OthersKeep(r) /\ pc'[r] = "idle"
      BY <1>1, <2>4, DoneLocals
    <2> HIDE DEF row
    <2>6. IdentityInv'
      BY <2>1, <2>3, <2>4, <2>5, IdSave
    <2>7. ASSUME NEW j \in Jobs, NEW u \in Users PROVE Quiet(j, u)
      <3>1. OpenRows(j, u)' \subseteq OpenRows(j, u) \cup
               (IF j = args[r].job /\ u = args[r].user THEN {held[r].id} ELSE {})
        BY <2>1, <2>3, <2>4, SaveRows
      <3>2. j = args[r].job /\ u = args[r].user => held[r].id \in HeldOpen(j, u)
        BY <2>1 DEF HeldOpen
      <3>3. HeldOpen(j, u)' \subseteq HeldOpen(j, u)
        BY <2>5 DEF HeldOpen, OthersKeep
      <3>4. Opening(j, u)' \subseteq Opening(j, u)
        BY <2>5 DEF Opening, OthersKeep
      <3> QED
        BY <3>1, <3>2, <3>3, <3>4 DEF Quiet, Pot
    <2> QED
      BY <2>6, <2>7 DEF Effect
  <1> QED
    BY <1>2, <1>3, <1>4, <1>5, <1>6, <1>7, <1>8, <1>9, <1>10, <1>11, <1>12,
       <1>13, <1>14, <1>15 DEF Proceed

\* So do failed calls and crashes.
LEMMA FailShift ==
    ASSUME TypeInv, IdentityInv, NEW r \in Requests, Fail(r)
    PROVE  IdentityInv' /\ Effect
  <1>1. CASE Abort(r)
    BY <1>1, EndsUnchanged DEF Abort
  <1>2. CASE RedisSetFails(r) \/ RedisExpireFails(r)
    <2>1. PICK step \in {"issueIn_purge", "issueOut_find"} : Goto(r, step)
      BY <1>2 DEF RedisSetFails, RedisExpireFails, AfterGenerate
    <2>2. UNCHANGED <<db, args, held>>
      BY <1>2 DEF RedisSetFails, RedisExpireFails
    <2> QED
      BY <2>1, <2>2, MovesUnchanged DEF HasHeld
  <1>3. CASE RedisDeleteFails(r)
    BY <1>3, MovesUnchanged DEF RedisDeleteFails, Holding, HasHeld
  <1> QED
    BY <1>1, <1>2, <1>3 DEF Fail

\* So do the cron job and the clock.
LEMMA OutsideShift ==
    ASSUME TypeInv, IdentityInv, DeactivateJobs \/ UpdateJobStale \/ Tick \/ UNCHANGED vars
    PROVE  IdentityInv' /\ Effect
  <1>1. UNCHANGED <<attendance, usedIds, pc, args, held>>
    BY DEF DeactivateJobs, UpdateJobStale, Tick, vars, request, db
  <1>2. IdentityInv'
    BY <1>1 DEF IdentityInv, Holding
  <1>3. Effect
    BY <1>1 DEF Effect, Quiet, Pot, OpenRows, RowsOf, HeldOpen, Opening
  <1> QED
    BY <1>2, <1>3

\* So does every step.
LEMMA ShiftStep ==
    ASSUME TypeInv, IdentityInv, [Next]_vars
    PROVE  IdentityInv' /\ Effect
  BY ArriveShift, ProceedShift, FailShift, OutsideShift DEF Next

-----------------------------------------------------------------------------
(* Counting. *)

\* Rows and requests can be counted.
LEMMA Finite ==
    ASSUME NEW j, NEW u
    PROVE  /\ IsFiniteSet(Opening(j, u)) /\ Cardinality(Opening(j, u)) \in Nat
           /\ TypeInv => /\ IsFiniteSet(Pot(j, u)) /\ Cardinality(Pot(j, u)) \in Nat
                         /\ Pot(j, u) \subseteq Records
                         /\ Cardinality(OpenRows(j, u)) <= Cardinality(Pot(j, u))
                         /\ Cardinality(OpenRows(j, u)) \in Nat
  <1>1. Opening(j, u) \subseteq Requests
    BY DEF Opening
  <1>2. IsFiniteSet(Opening(j, u)) /\ Cardinality(Opening(j, u)) \in Nat
    BY <1>1, FiniteAssumption, FS_Subset, FS_CardinalityType
  <1>3. ASSUME TypeInv
        PROVE  /\ IsFiniteSet(Pot(j, u)) /\ Cardinality(Pot(j, u)) \in Nat
               /\ Pot(j, u) \subseteq Records
               /\ Cardinality(OpenRows(j, u)) <= Cardinality(Pot(j, u))
               /\ Cardinality(OpenRows(j, u)) \in Nat
    <2>1. OpenRows(j, u) \subseteq Records
      BY DEF OpenRows, RowsOf
    <2>2. HeldOpen(j, u) \subseteq Records
      BY <1>3 DEF HeldOpen, TypeInv, RequestInv, RequestOK, HasHeld, Held
    <2>3. OpenRows(j, u) \subseteq Pot(j, u) /\ Pot(j, u) \subseteq Records
      BY <2>1, <2>2 DEF Pot
    <2>4. IsFiniteSet(Pot(j, u))
      BY <2>3, FiniteAssumption, FS_Subset
    <2> QED
      BY <2>3, <2>4, FS_Subset, FS_CardinalityType
  <1> QED
    BY <1>2, <1>3

\* Distinct requests hold the rows and may open the shifts: A holds, B opens.
LEMMA HoldersAndOpeners ==
    ASSUME NEW A \in SUBSET Requests, NEW B \in SUBSET Requests, A \cap B = {},
           NEW f, f = [q \in A |-> f[q]], NEW S, S = {f[q] : q \in A}
    PROVE  Cardinality(S) + Cardinality(B) <= Cardinality(Requests)
  <1>1. /\ IsFiniteSet(A) /\ IsFiniteSet(B) /\ IsFiniteSet(A \cup B)
        /\ Cardinality(A \cup B) <= Cardinality(Requests)
    BY FiniteAssumption, FS_Subset
  <1>2. f \in Surjection(A, S)
    BY DEF Surjection
  <1>3. IsFiniteSet(S) /\ Cardinality(S) <= Cardinality(A)
    BY <1>1, <1>2, FS_Surjection
  <1>4. Cardinality(A \cup B) = Cardinality(A) + Cardinality(B)
    <2>1. Cardinality(A \cup B)
             = Cardinality(A) + Cardinality(B) - Cardinality(A \cap B)
      BY <1>1, FS_Union
    <2>2. Cardinality(A \cap B) = 0
      BY FS_EmptySet
    <2>3. Cardinality(A) \in Nat /\ Cardinality(B) \in Nat
      BY <1>1, FS_CardinalityType
    <2> QED
      BY <2>1, <2>2, <2>3
  <1> QED
    BY <1>1, <1>3, <1>4, FiniteAssumption, FS_CardinalityType

\* An Effect keeps the bound: nothing is added, one request is traded for
\* one row, or no row is open and distinct requests hold and open the rest.
LEMMA EffectBound ==
    ASSUME TypeInv, TypeInv', OpenInv, Effect
    PROVE  OpenInv'
  <1> SUFFICES ASSUME NEW j \in Jobs, NEW u \in Users
               PROVE  Cardinality(Pot(j, u)') + Cardinality(Opening(j, u)')
                         <= Cardinality(Requests)
    BY DEF OpenInv, Pot
  <1>1. /\ IsFiniteSet(Pot(j, u)) /\ IsFiniteSet(Opening(j, u))
        /\ Cardinality(Pot(j, u)) \in Nat /\ Cardinality(Opening(j, u)) \in Nat
        /\ Cardinality(Requests) \in Nat
    BY Finite, FiniteAssumption, FS_CardinalityType
  <1>2. Cardinality(Pot(j, u)) + Cardinality(Opening(j, u)) <= Cardinality(Requests)
    BY DEF OpenInv, Pot
  <1>3. CASE Quiet(j, u)
    <2>1. /\ Cardinality(Pot(j, u)') <= Cardinality(Pot(j, u))
          /\ Cardinality(Opening(j, u)') <= Cardinality(Opening(j, u))
          /\ IsFiniteSet(Pot(j, u)') /\ IsFiniteSet(Opening(j, u)')
      <3>1. /\ Pot(j, u)' \in SUBSET Pot(j, u)
            /\ Opening(j, u)' \in SUBSET Opening(j, u)
        BY <1>3 DEF Quiet
      <3> QED
        BY <1>1, <3>1, FS_Subset
    <2>2. Cardinality(Pot(j, u)') \in Nat /\ Cardinality(Opening(j, u)') \in Nat
      BY <2>1, FS_CardinalityType
    <2> QED
      BY <1>1, <1>2, <2>1, <2>2
  <1>4. CASE Trade(j, u)
    <2>1. PICK r \in Opening(j, u), id \in Records :
            /\ Pot(j, u)' \subseteq Pot(j, u) \cup {id}
            /\ Opening(j, u)' \subseteq Opening(j, u) \ {r}
      BY <1>4 DEF Trade
    <2>2. /\ IsFiniteSet(Pot(j, u) \cup {id})
          /\ Cardinality(Pot(j, u) \cup {id}) <= Cardinality(Pot(j, u)) + 1
      <3>1. /\ IsFiniteSet(Pot(j, u) \cup {id})
            /\ Cardinality(Pot(j, u) \cup {id}) =
                 IF id \in Pot(j, u) THEN Cardinality(Pot(j, u))
                                     ELSE Cardinality(Pot(j, u)) + 1
        BY <1>1, FS_AddElement
      <3> QED
        BY <1>1, <3>1
    <2>3. /\ IsFiniteSet(Opening(j, u) \ {r})
          /\ Cardinality(Opening(j, u) \ {r}) = Cardinality(Opening(j, u)) - 1
      BY <1>1, FS_RemoveElement
    <2>4. /\ Cardinality(Pot(j, u)') <= Cardinality(Pot(j, u) \cup {id})
          /\ Cardinality(Opening(j, u)') <= Cardinality(Opening(j, u) \ {r})
          /\ IsFiniteSet(Pot(j, u)') /\ IsFiniteSet(Opening(j, u)')
      BY <2>1, <2>2, <2>3, FS_Subset
    <2>5. /\ Cardinality(Pot(j, u)') \in Nat /\ Cardinality(Opening(j, u)') \in Nat
          /\ Cardinality(Pot(j, u) \cup {id}) \in Nat
      BY <2>2, <2>4, FS_CardinalityType
    <2> QED
      BY <1>1, <1>2, <2>2, <2>3, <2>4, <2>5
  <1>5. CASE OpenRows(j, u)' = {}
    <2> DEFINE A == {q \in Requests : /\ pc'[q] = "issueOut_save"
                                      /\ args'[q].job = j
                                      /\ args'[q].user = u}
               f == [q \in A |-> held'[q].id]
               B == Opening(j, u)'
    <2>1. B \in SUBSET Requests /\ A \in SUBSET Requests /\ A \cap B = {}
      BY DEF Opening
    <2>2. Pot(j, u)' = {f[q] : q \in A}
      BY <1>5 DEF Pot, HeldOpen
    <2>3. f = [q \in A |-> f[q]]
      OBVIOUS
    <2> HIDE DEF A, B, f
    <2>4. Cardinality(Pot(j, u)') + Cardinality(B) <= Cardinality(Requests)
      BY <2>1, <2>2, <2>3, HoldersAndOpeners
    <2> QED
      BY <2>4 DEF B
  <1> QED
    BY <1>3, <1>4, <1>5 DEF Effect

\* With no rows and no requests nothing is open.
LEMMA InitShift == Init => IdentityInv /\ OpenInv
  <1> SUFFICES ASSUME Init PROVE IdentityInv /\ OpenInv
    OBVIOUS
  <1>1. IdentityInv
    BY DEF Init, IdentityInv, Holding, HasHeld
  <1>2. ASSUME NEW j \in Jobs, NEW u \in Users
        PROVE  OpenRows(j, u) \cup HeldOpen(j, u) = {} /\ Opening(j, u) = {}
    BY DEF Init, OpenRows, RowsOf, HeldOpen, Opening
  <1>3. Cardinality({}) = 0 /\ Cardinality(Requests) \in Nat
    BY FS_EmptySet, FiniteAssumption, FS_CardinalityType
  <1> QED
    BY <1>1, <1>2, <1>3 DEF OpenInv

ShiftInv == TypeInv /\ IdentityInv /\ OpenInv

\* The inductive invariant holds in every reachable state.
LEMMA ShiftInvariant == Spec => []ShiftInv
  <1>1. Init => ShiftInv
    BY InitType, InitShift DEF ShiftInv
  <1>2. ShiftInv /\ [Next]_vars => ShiftInv'
    BY TypeStep, ShiftStep, EffectBound DEF ShiftInv
  <1> QED
    BY <1>1, <1>2, PTL DEF Spec

\* The inductive invariant bounds the open rows.
LEMMA InvImpliesBound == ShiftInv => OpenBounded
  <1> SUFFICES ASSUME ShiftInv, NEW j \in Jobs, NEW u \in Users
               PROVE  Cardinality(OpenRows(j, u)) <= Cardinality(Requests)
    BY DEF OpenBounded
  <1>1. Cardinality(Pot(j, u)) + Cardinality(Opening(j, u)) <= Cardinality(Requests)
    BY DEF ShiftInv, OpenInv, Pot
  <1>2. /\ Cardinality(OpenRows(j, u)) <= Cardinality(Pot(j, u))
        /\ Cardinality(OpenRows(j, u)) \in Nat
        /\ Cardinality(Pot(j, u)) \in Nat /\ Cardinality(Opening(j, u)) \in Nat
    BY Finite DEF ShiftInv
  <1>3. Cardinality(Requests) \in Nat
    BY FiniteAssumption, FS_CardinalityType
  <1> QED
    BY <1>1, <1>2, <1>3

\* OpenShiftsBounded: however the handlers interleave, fail or crash, a user
\* has at most as many open shifts on a job as there are requests at once.
THEOREM OpenShiftsBounded == Spec => []OpenBounded
  BY ShiftInvariant, InvImpliesBound, PTL

\* OneShiftWhenSerial: requests that never overlap leave at most one open
\* shift of a user on a job, which is what "already clocked in" promises.
THEOREM OneShiftWhenSerial ==
    ASSUME Cardinality(Requests) = 1
    PROVE  Spec => []AtMostOneOpen
  <1>1. OpenBounded => AtMostOneOpen
    BY DEF OpenBounded, AtMostOneOpen
  <1> QED
    BY <1>1, OpenShiftsBounded, PTL

-----------------------------------------------------------------------------
(* Keys without a TTL.  A key is eternal when it has no TTL and no request   *)
(* is about to send its EXPIRE.                                              *)

Expiring(t) == \E r \in Requests : pc[r] = "issue_expire" /\ ticket[r].token = t
Eternal == {t \in Tokens : cache[t] = NoExpiry /\ ~ Expiring(t)}

EternalInv == IsFiniteSet(Eternal) /\ Cardinality(Eternal) <= faults

\* Every step but a failure leaves no more keys eternal; a failure adds one.
EternalEffect ==
    \/ Eternal' \subseteq Eternal /\ faults' = faults
    \/ \E t : Eternal' \subseteq Eternal \cup {t} /\ faults' = faults + 1

\* A step of slot r leaves the calls and the tickets of the others alone.
OthersTickets(r) ==
    \A q \in Requests \ {r} : pc'[q] = pc[q] /\ ticket'[q] = ticket[q]

\* A slot that ends touches the ticket of no other slot.
LEMMA DoneTickets ==
    ASSUME TypeOK, NEW r \in Requests, Done(r)
    PROVE  OthersTickets(r) /\ pc'[r] = "idle"
  BY DEF TypeOK, Done, Goto, OthersTickets

\* Nor does one that goes on with its ticket as it is.
LEMMA GotoTickets ==
    ASSUME TypeOK, NEW r \in Requests, NEW step, Goto(r, step), UNCHANGED ticket
    PROVE  OthersTickets(r) /\ pc'[r] = step
  BY DEF TypeOK, Goto, OthersTickets

\* Nor does one that starts, none of them at the EXPIRE.
LEMMA ArriveTickets ==
    ASSUME TypeOK, NEW r \in Requests, Arrive(r)
    PROVE  /\ OthersTickets(r) /\ pc[r] = "idle" /\ pc'[r] # "validate_save"
           /\ UNCHANGED <<attendance, cache, now, uses, faults, ticket>>
  <1>1. PICK u \in Users, j \in Jobs :
          \/ ClockIn(r, u, j)
          \/ ClockOut(r, u, j)
          \/ ClockInViaOtp(r, u, j)
          \/ ClockOutViaOtp(r, u, j)
          \/ \E type \in {"IN", "OUT"} : GetAttendanceOtp(r, u, j, type)
    BY DEF Arrive
  <1>2. /\ UNCHANGED <<attendance, cache, now, uses, faults, ticket>>
        /\ pc[r] = "idle"
        /\ \E step \in Steps \ {"validate_save"} : Goto(r, step)
    BY <1>1 DEF ClockIn, ClockOut, ClockInViaOtp, ClockOutViaOtp, GetAttendanceOtp,
                db, redis, history, Begin, Steps
  <1> QED
    BY <1>2, GotoTickets

\* A step of a slot that is not at the EXPIRE makes no key eternal.
LEMMA NotExpiring ==
    ASSUME TypeOK, NEW r \in Requests, OthersTickets(r), pc[r] # "issue_expire",
           \A t \in Tokens : cache'[t] = NoExpiry => cache[t] = NoExpiry \/ Expiring(t)'
    PROVE  Eternal' \subseteq Eternal
  <1> SUFFICES ASSUME NEW t \in Tokens, cache'[t] = NoExpiry, ~ Expiring(t)'
               PROVE  t \in Eternal
    BY DEF Eternal
  <1>1. cache[t] = NoExpiry
    OBVIOUS
  <1>2. ~ Expiring(t)
    BY DEF Expiring, OthersTickets
  <1> QED
    BY <1>1, <1>2 DEF Eternal

\* A step of a slot at the EXPIRE that sends it makes no key eternal either.
LEMMA ExpireEternal ==
    ASSUME TypeOK, NEW r \in Requests, GenerateOtpExpire(r)
    PROVE  Eternal' \subseteq Eternal
  <1>1. OthersTickets(r)
    BY DEF TypeOK, GenerateOtpExpire, AfterGenerate, Goto, OthersTickets
  <1> SUFFICES ASSUME NEW t \in Tokens, cache'[t] = NoExpiry, ~ Expiring(t)'
               PROVE  t \in Eternal
    BY DEF Eternal
  <1>2. t # ticket[r].token /\ cache[t] = NoExpiry
    BY LifeAssumption DEF TypeOK, GenerateOtpExpire, NoExpiry
  <1>3. ~ Expiring(t)
    BY <1>1, <1>2 DEF Expiring, OthersTickets
  <1> QED
    BY <1>2, <1>3 DEF Eternal

\* A failed step makes the key it was about at most eternal.
LEMMA FailEternal ==
    ASSUME TypeOK, NEW r \in Requests, Fail(r)
    PROVE  Eternal' \subseteq Eternal \cup {ticket[r].token} /\ faults' = faults + 1
  <1>1. faults' = faults + 1
    BY DEF Fail, Abort, RedisSetFails, RedisExpireFails, RedisDeleteFails, Fault
  <1>2. UNCHANGED cache
    BY DEF Fail, Abort, RedisSetFails, RedisExpireFails, RedisDeleteFails, redis
  <1>3. OthersTickets(r)
    <2>1. CASE Abort(r)
      BY <2>1, DoneTickets DEF Abort
    <2>2. CASE RedisSetFails(r) \/ RedisExpireFails(r)
      BY <2>2 DEF TypeOK, RedisSetFails, RedisExpireFails, AfterGenerate, Goto, OthersTickets
    <2>3. CASE RedisDeleteFails(r)
      BY <2>3, GotoTickets DEF RedisDeleteFails
    <2> QED
      BY <2>1, <2>2, <2>3 DEF Fail
  <1>4. ASSUME NEW t \in Tokens, cache'[t] = NoExpiry, ~ Expiring(t)', t # ticket[r].token
        PROVE  t \in Eternal
    <2>1. ~ Expiring(t)
      BY <1>3, <1>4 DEF Expiring, OthersTickets
    <2> QED
      BY <1>2, <1>4, <2>1 DEF Eternal
  <1> QED
    BY <1>1, <1>4 DEF Eternal

\* Each later call of a handler makes no key eternal.
LEMMA ProceedEternal ==
    ASSUME TypeInv, NEW r \in Requests, Proceed(r)
    PROVE  Eternal' \subseteq Eternal /\ faults' = faults
  <1>1. TypeOK /\ RequestOK(r)
    BY DEF TypeInv, RequestInv
  <1>2. CASE GenerateOtpSet(r)
    <2>1. PICK t \in Tokens \ minted :
            /\ cache' = [cache EXCEPT ![t] = NoExpiry]
            /\ ticket' = [ticket EXCEPT ![r].token = t]
      BY <1>2 DEF GenerateOtpSet
    <2>2. OthersTickets(r) /\ pc'[r] = "issue_expire" /\ ticket'[r].token = t
      BY <1>1, <1>2, <2>1 DEF TypeOK, GenerateOtpSet, Goto, OthersTickets
    <2>3. \A s \in Tokens : cache'[s] = NoExpiry => cache[s] = NoExpiry \/ Expiring(s)'
      BY <1>1, <2>1, <2>2 DEF TypeOK, Expiring
    <2>4. pc[r] # "issue_expire"
      BY <1>2 DEF GenerateOtpSet
    <2> QED
      BY <1>1, <1>2, <2>2, <2>3, <2>4, NotExpiring DEF GenerateOtpSet, history
  <1>3. CASE GenerateOtpExpire(r)
    BY <1>1, <1>3, ExpireEternal DEF GenerateOtpExpire, history
  <1>4. CASE ValidateDelete(r)
    <2>1. OthersTickets(r)
      BY <1>1, <1>4, GotoTickets DEF ValidateDelete
    <2>2. \A t \in Tokens : cache'[t] = NoExpiry => cache[t] = NoExpiry
      BY <1>1, <1>4 DEF TypeOK, ValidateDelete, NoExpiry, Absent
    <2> QED
      BY <1>1, <1>4, <2>1, <2>2, NotExpiring DEF ValidateDelete, history
  <1>5. ASSUME UNCHANGED <<cache, faults>>, pc[r] # "issue_expire",
               Done(r) \/ (UNCHANGED ticket /\ \E step \in Steps : Goto(r, step))
        PROVE  Eternal' \subseteq Eternal /\ faults' = faults
    <2>1. OthersTickets(r)
      BY <1>1, <1>5, DoneTickets, GotoTickets
    <2> QED
      BY <1>1, <1>5, <2>1, NotExpiring
  <1>6. CASE ClockInFindJob(r) \/ ClockInInsert(r) \/ ClockOutSave(r)
    BY <1>5, <1>6 DEF ClockInFindJob, ClockInInsert, ClockOutSave, redis, history, Steps
  <1>7. CASE ClockInViaOtpFind(r) \/ ValidateGet(r)
    BY <1>5, <1>7 DEF ClockInViaOtpFind, ValidateGet, redis, history, Steps
  <1>8. CASE ViaOtpSave(r)
    BY <1>5, <1>8 DEF ViaOtpSave, redis, Steps
  <1>9. CASE GetAttendanceOtpCheck(r) \/ PurgeExpiredPending(r) \/ InsertPending(r)
    BY <1>5, <1>9 DEF GetAttendanceOtpCheck, PurgeExpiredPending, InsertPending,
                      redis, history, Steps
  <1>10. CASE FindOpenForOtp(r) \/ SaveClockOutOtp(r)
    BY <1>5, <1>10 DEF FindOpenForOtp, SaveClockOutOtp, redis, history, Steps
  <1> QED
    BY <1>2, <1>3, <1>4, <1>6, <1>7, <1>8, <1>9, <1>10 DEF Proceed

\* So every step has an EternalEffect.
LEMMA EternalStep ==
    ASSUME TypeInv, [Next]_vars
    PROVE  EternalEffect
  <1>1. TypeOK
    BY DEF TypeInv
  <1>2. ASSUME NEW r \in Requests, Arrive(r) PROVE EternalEffect
    BY <1>1, <1>2, ArriveTickets, NotExpiring DEF EternalEffect
  <1>3. ASSUME NEW r \in Requests, Proceed(r) PROVE EternalEffect
    BY <1>3, ProceedEternal DEF EternalEffect
  <1>4. ASSUME NEW r \in Requests, Fail(r) PROVE EternalEffect
    BY <1>1, <1>4, FailEternal DEF EternalEffect
  <1>5. CASE DeactivateJobs \/ UpdateJobStale \/ UNCHANGED vars
    <2>1. UNCHANGED <<cache, pc, ticket, faults>>
      BY <1>5 DEF DeactivateJobs, UpdateJobStale, vars, redis, request, history
    <2> QED
      BY <2>1 DEF EternalEffect, Eternal, Expiring
  <1>6. CASE Tick
    <2>1. UNCHANGED <<pc, ticket, faults>>
      BY <1>6 DEF Tick, request, history
    <2>2. \A t \in Tokens : cache'[t] = NoExpiry => cache[t] = NoExpiry
      BY <1>1, <1>6 DEF TypeOK, Tick, NoExpiry, Absent
    <2> QED
      BY <2>1, <2>2 DEF EternalEffect, Eternal, Expiring
  <1> QED
    BY <1>2, <1>3, <1>4, <1>5, <1>6 DEF Next

\* NoKeyIsEternal: SET and EXPIRE are two commands, and yet a key that nobody
\* is about to give a TTL is always the trace of a failure between the two.
THEOREM NoKeyIsEternal == Spec => []NoEternalKey
  <1>1. Init => EternalInv
    <2>1. Init => Eternal = {} /\ faults = 0
      BY DEF Init, Eternal, NoExpiry, Absent
    <2> QED
      BY <2>1, FS_EmptySet DEF EternalInv
  <1>2. TypeInv /\ EternalInv /\ [Next]_vars => EternalInv'
    <2> SUFFICES ASSUME TypeInv, EternalInv, [Next]_vars PROVE EternalInv'
      OBVIOUS
    <2>1. EternalEffect
      BY EternalStep
    <2>2. /\ IsFiniteSet(Eternal) /\ Cardinality(Eternal) \in Nat
          /\ Cardinality(Eternal) <= faults /\ faults \in Nat
      BY FS_CardinalityType DEF EternalInv, TypeInv, TypeOK
    <2>3. CASE Eternal' \subseteq Eternal /\ faults' = faults
      <3>1. IsFiniteSet(Eternal') /\ Cardinality(Eternal') <= Cardinality(Eternal)
        BY <2>2, <2>3, FS_Subset
      <3>2. Cardinality(Eternal') \in Nat
        BY <3>1, FS_CardinalityType
      <3> QED
        BY <2>2, <2>3, <3>1, <3>2 DEF EternalInv
    <2>4. ASSUME NEW t, Eternal' \subseteq Eternal \cup {t}, faults' = faults + 1
          PROVE  EternalInv'
      <3> DEFINE more == Eternal \cup {t}
      <3>0. /\ IsFiniteSet(more)
            /\ Cardinality(more) = IF t \in Eternal THEN Cardinality(Eternal)
                                                    ELSE Cardinality(Eternal) + 1
        BY <2>2, FS_AddElement
      <3>1. /\ IsFiniteSet(more)
            /\ Cardinality(more) <= Cardinality(Eternal) + 1
            /\ Cardinality(more) \in Nat
        BY <2>2, <3>0
      <3>2. /\ IsFiniteSet(Eternal')
            /\ Cardinality(Eternal') <= Cardinality(Eternal \cup {t})
        BY <2>4, <3>1, FS_Subset
      <3>3. Cardinality(Eternal') \in Nat
        BY <3>2, FS_CardinalityType
      <3> QED
        BY <2>2, <2>4, <3>1, <3>2, <3>3 DEF EternalInv
    <2> QED
      BY <2>1, <2>3, <2>4 DEF EternalEffect
  <1>3. Init => TypeInv
    BY InitType
  <1>4. TypeInv /\ [Next]_vars => TypeInv'
    BY TypeStep
  <1>5. EternalInv => NoEternalKey
    BY DEF EternalInv, NoEternalKey, Eternal, Expiring
  <1> QED
    BY <1>1, <1>2, <1>3, <1>4, <1>5, PTL DEF Spec

-----------------------------------------------------------------------------
(* Valid OTPs.  An OTP and its expiry are written in the table, copied by    *)
(* the requests that hold a row, and carried by a ticket.  Wherever they are *)
(* written, while the expiry is to come the key outlives it, or the OTP is   *)
(* spent, or it is one of those lost to failures, which are no more than the *)
(* failures; and no expiry is further away than the life of an OTP, so a key *)
(* that is given its TTL again outlives every one.                           *)

HasTicket == {"issueIn_purge", "issueIn_insert", "issueOut_find", "issueOut_save"}

\* What was accepted, or is about to be.
Spent == {t \in Tokens : uses[t] > 0}
             \cup {HeldToken(r) : r \in {q \in Requests : pc[q] = "validate_save"}}

Lasting(t, e, keys, time, spent) ==
    /\ e <= time + OtpLife
    /\ (t # NA /\ time <= e) =>
          \/ t \in spent
          \/ keys[t] # Absent /\ (keys[t] = NoExpiry \/ keys[t] > e)

RowLasting(row, keys, time, spent) ==
    /\ Lasting(row.clockInOtp, row.clockInOtpExpiresAt, keys, time, spent)
    /\ Lasting(row.clockOutOtp, row.clockOutOtpExpiresAt, keys, time, spent)

AllLasting(lost) ==
    /\ \A id \in Records : attendance[id] # NoRow =>
          RowLasting(attendance[id], cache, now, Spent \cup lost)
    /\ \A r \in Requests :
          /\ pc[r] \in HasHeld => RowLasting(held[r].row, cache, now, Spent \cup lost)
          /\ pc[r] \in HasTicket =>
                Lasting(ticket[r].token, ticket[r].expiresAt, cache, now, Spent \cup lost)

LastingInv ==
    \E lost : IsFiniteSet(lost) /\ Cardinality(lost) <= faults /\ AllLasting(lost)

\* What a step does to an OTP that is not lost, wherever it is written.
LastingKept(lost) ==
    \A t \in Tokens \cup {NA}, e \in Nat :
        Lasting(t, e, cache, now, Spent \cup lost)
            => Lasting(t, e, cache', now', Spent' \cup lost)

\* A slot that is not about to record a clock event takes no OTP from Spent.
LEMMA SpentKept ==
    ASSUME NEW r \in Requests, OthersKeep(r), pc[r] # "validate_save", uses' = uses
    PROVE  Spent \subseteq Spent'
  <1> SUFFICES ASSUME NEW q \in Requests, pc[q] = "validate_save"
               PROVE  HeldToken(q) \in Spent'
    BY DEF Spent
  <1>1. q # r
    OBVIOUS
  <1>2. pc'[q] = "validate_save" /\ HeldToken(q)' = HeldToken(q)
    BY <1>1 DEF OthersKeep, HeldToken, Type
  <1> QED
    BY <1>2 DEF Spent

\* Without a change of the keys or of the time every OTP lasts.
LEMMA LastingStays ==
    ASSUME NEW lost, NEW r \in Requests, OthersKeep(r), pc[r] # "validate_save",
           UNCHANGED <<cache, now, uses>>
    PROVE  LastingKept(lost)
  <1>1. Spent \subseteq Spent'
    BY SpentKept
  <1> QED
    BY <1>1 DEF LastingKept, Lasting

\* SET makes a key that has no TTL yet.
LEMMA SetLasting ==
    ASSUME NEW lost, TypeOK, NEW r \in Requests, GenerateOtpSet(r)
    PROVE  LastingKept(lost)
  <1>1. OthersKeep(r)
    BY GotoLocals DEF GenerateOtpSet
  <1>2. Spent \subseteq Spent' /\ now' = now
    BY <1>1, SpentKept DEF GenerateOtpSet, history
  <1>3. PICK t \in Tokens : cache' = [cache EXCEPT ![t] = NoExpiry]
    BY DEF GenerateOtpSet
  <1>4. \A s \in Tokens : cache'[s] = IF s = t THEN NoExpiry ELSE cache[s]
    BY <1>3 DEF TypeOK
  <1> QED
    BY <1>2, <1>4 DEF LastingKept, Lasting, NoExpiry, Absent

\* EXPIRE makes the key outlive every expiry that is written anywhere.
LEMMA ExpireLasting ==
    ASSUME NEW lost, TypeOK, NEW r \in Requests, GenerateOtpExpire(r)
    PROVE  LastingKept(lost)
  <1>1. OthersKeep(r)
    BY GotoLocals DEF GenerateOtpExpire, AfterGenerate
  <1>2. Spent \subseteq Spent' /\ now' = now
    BY <1>1, SpentKept DEF GenerateOtpExpire, history
  <1>3. \A s \in Tokens :
          cache'[s] = IF s = ticket[r].token THEN now + KeyLife ELSE cache[s]
    BY DEF TypeOK, GenerateOtpExpire
  <1>4. now \in Nat /\ now + OtpLife < now + KeyLife /\ now + KeyLife \in Nat
    BY LifeAssumption DEF TypeOK
  <1>5. OtpLife \in Nat
    BY LifeAssumption
  <1> SUFFICES ASSUME NEW t \in Tokens \cup {NA}, NEW e \in Nat,
                      Lasting(t, e, cache, now, Spent \cup lost)
               PROVE  Lasting(t, e, cache', now', Spent' \cup lost)
    BY DEF LastingKept
  <1>6. CASE t = ticket[r].token /\ t # NA
    <2>1. cache'[t] = now + KeyLife /\ e < now + KeyLife
      BY <1>3, <1>4, <1>5, <1>6 DEF Lasting
    <2> QED
      BY <1>2, <1>4, <2>1 DEF Lasting, Absent
  <1>7. CASE t # ticket[r].token \/ t = NA
    BY <1>2, <1>3, <1>7 DEF Lasting
  <1> QED
    BY <1>6, <1>7

\* DEL removes the key of an OTP that is about to be accepted.
LEMMA DeleteLasting ==
    ASSUME NEW lost, TypeInv, NEW r \in Requests, ValidateDelete(r)
    PROVE  LastingKept(lost)
  <1>1. TypeOK /\ UNCHANGED <<now, uses>>
    BY DEF TypeInv, ValidateDelete, history
  <1>2. OthersKeep(r) /\ pc'[r] = "validate_save"
    BY <1>1, GotoLocals DEF ValidateDelete
  <1>3. Spent \subseteq Spent'
    BY <1>1, <1>2, SpentKept DEF ValidateDelete
  <1>4. HeldToken(r)' = HeldToken(r)
    BY DEF ValidateDelete, HeldToken, Type
  <1>5. HeldToken(r) \in Spent'
    BY <1>2, <1>4 DEF Spent
  <1>6. \A s \in Tokens : s # HeldToken(r) => cache'[s] = cache[s]
    BY <1>1 DEF TypeOK, ValidateDelete
  <1> QED
    BY <1>1, <1>3, <1>5, <1>6 DEF LastingKept, Lasting

\* The save of a clock event puts its OTP among the used ones.
LEMMA SaveLasting ==
    ASSUME NEW lost, TypeInv, NEW r \in Requests, ViaOtpSave(r)
    PROVE  LastingKept(lost)
  <1>1. OthersKeep(r)
    BY DoneLocals DEF TypeInv, ViaOtpSave
  <1>2. /\ UNCHANGED <<cache, now>> /\ HeldToken(r) \in Tokens
        /\ \A t \in Tokens : uses[t] > 0 \/ t = HeldToken(r) => uses'[t] > 0
    BY DEF ViaOtpSave, redis, TypeInv, TypeOK, RequestInv, RequestOK, HasToken
  <1>3. Spent \subseteq Spent'
    <2> SUFFICES ASSUME NEW q \in Requests, pc[q] = "validate_save"
                 PROVE  HeldToken(q) \in Spent'
      BY <1>2 DEF Spent
    <2>1. CASE q = r
      BY <1>2, <2>1 DEF Spent
    <2>2. CASE q # r
      <3>1. pc'[q] = "validate_save" /\ HeldToken(q)' = HeldToken(q)
        BY <1>1, <2>2 DEF OthersKeep, HeldToken, Type
      <3> QED
        BY <3>1 DEF Spent
    <2> QED
      BY <2>1, <2>2
  <1> QED
    BY <1>2, <1>3 DEF LastingKept, Lasting

\* The clock removes only the keys whose time has come.
LEMMA TickLasting ==
    ASSUME NEW lost, TypeInv, Tick
    PROVE  LastingKept(lost)
  <1>1. TypeOK /\ now' = now + 1 /\ OtpLife \in Nat
    BY LifeAssumption DEF TypeInv, Tick
  <1>2. \A t \in Tokens : cache'[t] = IF cache[t] # NoExpiry /\ cache[t] <= now'
                                      THEN Absent ELSE cache[t]
    BY DEF Tick
  <1>3. Spent' = Spent
    BY DEF Tick, Spent, HeldToken, Type, request, history
  <1> SUFFICES ASSUME NEW t \in Tokens \cup {NA}, NEW e \in Nat,
                      Lasting(t, e, cache, now, Spent \cup lost)
               PROVE  Lasting(t, e, cache', now', Spent' \cup lost)
    BY DEF LastingKept
  <1>4. now \in Nat /\ e <= now + OtpLife
    BY <1>1 DEF TypeOK, Lasting
  <1>5. e <= now' + OtpLife
    BY <1>1, <1>4
  <1>6. ASSUME t # NA, now' <= e, t \notin Spent \cup lost
        PROVE  cache'[t] # Absent /\ (cache'[t] = NoExpiry \/ cache'[t] > e)
    <2>1. now <= e /\ t \in Tokens
      BY <1>1, <1>4, <1>6
    <2>2. cache[t] # Absent /\ (cache[t] = NoExpiry \/ cache[t] > e)
      BY <1>6, <2>1 DEF Lasting
    <2>3. cache[t] \in Nat
      BY <1>1, <2>1, <2>2 DEF TypeOK
    <2>4. cache'[t] = cache[t]
      BY <1>1, <1>2, <1>4, <1>6, <2>1, <2>2, <2>3
    <2> QED
      BY <2>2, <2>4
  <1> QED
    BY <1>3, <1>5, <1>6 DEF Lasting

\* What lasts in a row is kept by such a step.
LEMMA RowKept ==
    ASSUME NEW lost, LastingKept(lost), NEW row \in Row,
           RowLasting(row, cache, now, Spent \cup lost)
    PROVE  RowLasting(row, cache', now', Spent' \cup lost)
  BY DEF LastingKept, RowLasting, Row

\* A step of slot r need only see to the rows it writes, and to its own copy
\* and ticket.
LEMMA SlotLasting ==
    ASSUME NEW lost, TypeInv, TypeInv', AllLasting(lost), LastingKept(lost),
           NEW r \in Requests, OthersKeep(r), OthersTickets(r),
           \A id \in Records :
              \/ attendance'[id] \in {attendance[id], NoRow}
              \/ RowLasting(attendance'[id], cache, now, Spent \cup lost),
           pc'[r] \in HasHeld => RowLasting(held'[r].row, cache, now, Spent \cup lost),
           pc'[r] \in HasTicket =>
              Lasting(ticket'[r].token, ticket'[r].expiresAt, cache', now', Spent' \cup lost)
    PROVE  AllLasting(lost)'
  <1>1. ASSUME NEW id \in Records, attendance'[id] # NoRow
        PROVE  RowLasting(attendance'[id], cache', now', Spent' \cup lost)
    <2>1. attendance'[id] \in Row
      BY <1>1 DEF TypeInv, TypeOK
    <2>2. RowLasting(attendance'[id], cache, now, Spent \cup lost)
      BY <1>1 DEF AllLasting
    <2> QED
      BY <2>1, <2>2, RowKept
  <1>2. ASSUME NEW q \in Requests, pc'[q] \in HasHeld
        PROVE  RowLasting(held'[q].row, cache', now', Spent' \cup lost)
    <2>1. held'[q] \in Held
      BY <1>2 DEF TypeInv, RequestInv, RequestOK, HasHeld
    <2>2. RowLasting(held'[q].row, cache, now, Spent \cup lost)
      BY <1>2 DEF AllLasting, OthersKeep
    <2>3. held'[q].row \in Row
      BY <2>1 DEF Held
    <2> QED
      BY <2>2, <2>3, RowKept
  <1>3. ASSUME NEW q \in Requests, pc'[q] \in HasTicket
        PROVE  Lasting(ticket'[q].token, ticket'[q].expiresAt, cache', now', Spent' \cup lost)
    <2>1. CASE q = r
      BY <1>3, <2>1
    <2>2. CASE q # r
      <3>1. Lasting(ticket[q].token, ticket[q].expiresAt, cache, now, Spent \cup lost)
        BY <1>3, <2>2 DEF AllLasting, OthersTickets
      <3>2. ticket[q].token \in Tokens \cup {NA} /\ ticket[q].expiresAt \in Nat
        BY DEF TypeInv, TypeOK
      <3>3. Lasting(ticket[q].token, ticket[q].expiresAt, cache', now', Spent' \cup lost)
        BY <3>1, <3>2 DEF LastingKept
      <3> QED
        BY <2>2, <3>3 DEF OthersTickets
    <2> QED
      BY <2>1, <2>2
  <1> QED
    BY <1>1, <1>2, <1>3 DEF AllLasting

\* A save writes the OTP columns of the row it is given.
LEMMA SavedLasting ==
    ASSUME NEW lost, TypeInv, NEW i \in Records, NEW row \in Row, Save(i, row),
           RowLasting(row, cache, now, Spent \cup lost)
    PROVE  \A id \in Records :
              \/ attendance'[id] \in {attendance[id], NoRow}
              \/ RowLasting(attendance'[id], cache, now, Spent \cup lost)
  <1> DEFINE job == IF attendance[i] = NoRow THEN NoJob ELSE attendance[i].job
  <1>1. attendance'[i] = [row EXCEPT !.job = job]
    BY DEF TypeInv, TypeOK, Save
  <1>2. /\ attendance'[i].clockInOtp = row.clockInOtp
        /\ attendance'[i].clockInOtpExpiresAt = row.clockInOtpExpiresAt
        /\ attendance'[i].clockOutOtp = row.clockOutOtp
        /\ attendance'[i].clockOutOtpExpiresAt = row.clockOutOtpExpiresAt
    BY <1>1 DEF Row
  <1>3. RowLasting(attendance'[i], cache, now, Spent \cup lost)
    BY <1>2 DEF RowLasting
  <1>4. \A id \in Records : id # i => attendance'[id] = attendance[id]
    BY DEF TypeInv, TypeOK, Save
  <1> QED
    BY <1>3, <1>4

\* An insert writes the OTP columns of the new row.
LEMMA InsertedLasting ==
    ASSUME NEW lost, TypeInv, NEW row, Insert(row),
           RowLasting(row, cache, now, Spent \cup lost)
    PROVE  \A id \in Records :
              \/ attendance'[id] \in {attendance[id], NoRow}
              \/ RowLasting(attendance'[id], cache, now, Spent \cup lost)
  <1>1. PICK i \in Records : attendance' = [attendance EXCEPT ![i] = row]
    BY DEF Insert
  <1>2. \A id \in Records : attendance'[id] = IF id = i THEN row ELSE attendance[id]
    BY <1>1 DEF TypeInv, TypeOK
  <1> QED
    BY <1>2

\* The default of an OTP column lasts.
LEMMA DefaultLasting ==
    ASSUME NEW lost, TypeOK
    PROVE  Lasting(NA, Null, cache, now, Spent \cup lost)
  BY LifeAssumption DEF TypeOK, Lasting, Null

\* A step that ends a request, or moves it to a call with the row it holds,
\* and writes no row.
LEMMA QuietLasting ==
    ASSUME NEW lost, TypeInv, TypeInv', AllLasting(lost), NEW r \in Requests,
           UNCHANGED <<cache, now, uses>>, pc[r] # "validate_save",
           OthersKeep(r), OthersTickets(r),
           \A id \in Records : attendance'[id] \in {attendance[id], NoRow},
           pc'[r] \in HasHeld =>
              \/ pc[r] \in HasHeld /\ held'[r] = held[r]
              \/ \E id \in Records : /\ attendance[id] # NoRow
                                     /\ held'[r].row = attendance[id],
           pc'[r] \in HasTicket => pc[r] \in HasTicket /\ ticket'[r] = ticket[r]
    PROVE  AllLasting(lost)'
  <1>1. LastingKept(lost)
    BY LastingStays
  <1>2. pc'[r] \in HasHeld => RowLasting(held'[r].row, cache, now, Spent \cup lost)
    BY DEF AllLasting
  <1>3. pc'[r] \in HasTicket =>
           Lasting(ticket'[r].token, ticket'[r].expiresAt, cache', now', Spent' \cup lost)
    <2> SUFFICES ASSUME pc'[r] \in HasTicket
                 PROVE  Lasting(ticket[r].token, ticket[r].expiresAt,
                                cache', now', Spent' \cup lost)
      OBVIOUS
    <2>1. Lasting(ticket[r].token, ticket[r].expiresAt, cache, now, Spent \cup lost)
      BY DEF AllLasting
    <2>2. ticket[r].token \in Tokens \cup {NA} /\ ticket[r].expiresAt \in Nat
      BY DEF TypeInv, TypeOK
    <2> QED
      BY <1>1, <2>1, <2>2 DEF LastingKept
  <1> QED
    BY <1>1, <1>2, <1>3, SlotLasting

\* A handler's first call keeps what is written lasting.
LEMMA ArriveLasting ==
    ASSUME NEW lost, TypeInv, TypeInv', AllLasting(lost), NEW r \in Requests, Arrive(r)
    PROVE  AllLasting(lost)'
  <1>1. TypeOK
    BY DEF TypeInv
  <1>2. /\ OthersTickets(r) /\ pc[r] = "idle"
        /\ UNCHANGED <<attendance, cache, now, uses, ticket>>
    BY <1>1, ArriveTickets
  <1>3. PICK u \in Users, j \in Jobs :
          \/ ClockIn(r, u, j)
          \/ ClockOut(r, u, j)
          \/ ClockInViaOtp(r, u, j)
          \/ ClockOutViaOtp(r, u, j)
          \/ \E type \in {"IN", "OUT"} : GetAttendanceOtp(r, u, j, type)
    BY DEF Arrive
  <1>4. CASE ClockOut(r, u, j) \/ ClockOutViaOtp(r, u, j)
    <2>1. PICK id \in Records : attendance[id] # NoRow /\ Hold(r, id)
      BY <1>4 DEF ClockOut, ClockOutMatches, ClockOutViaOtp, ClockOutOtpMatches, RowsOf
    <2>2. PICK step \in {"out_save", "validate_get"} : Begin(r, step, u, j, "OUT")
      BY <1>4 DEF ClockOut, ClockOutViaOtp
    <2>3. /\ OthersKeep(r) /\ pc'[r] = step
          /\ args'[r] = [user |-> u, job |-> j, type |-> "OUT"]
          /\ held'[r].id = id /\ held'[r].row = attendance[id]
      BY <1>1, <2>1, <2>2, BeginHoldLocals
    <2> QED
      BY <1>2, <2>1, <2>3, QuietLasting DEF HasTicket
  <1>5. CASE \/ ClockIn(r, u, j) \/ ClockInViaOtp(r, u, j)
             \/ \E type \in {"IN", "OUT"} : GetAttendanceOtp(r, u, j, type)
    <2>1. PICK step \in {"in_job", "otpIn_find", "issue_check"}, type \in {"IN", "OUT"} :
            Begin(r, step, u, j, type) /\ UNCHANGED held
      BY <1>5 DEF ClockIn, ClockInViaOtp, GetAttendanceOtp
    <2>2. OthersKeep(r) /\ pc'[r] = step
      BY <1>1, <2>1, BeginLocals
    <2> QED
      BY <1>2, <2>2, QuietLasting DEF HasHeld, HasTicket
  <1> QED
    BY <1>3, <1>4, <1>5

\* So does the end of a request that wrote nothing but deletions.
LEMMA EndLasting ==
    ASSUME NEW lost, TypeInv, TypeInv', AllLasting(lost), NEW r \in Requests, Done(r),
           UNCHANGED <<attendance, cache, now, uses>>, pc[r] # "validate_save"
    PROVE  AllLasting(lost)'
  <1>1. OthersKeep(r) /\ OthersTickets(r) /\ pc'[r] = "idle"
    BY DoneLocals, DoneTickets DEF TypeInv
  <1> QED
    BY <1>1, QuietLasting DEF HasHeld, HasTicket

\* So does a step to the next call with the same locals.
LEMMA GoLasting ==
    ASSUME NEW lost, TypeInv, TypeInv', AllLasting(lost),
           NEW r \in Requests, NEW step, Goto(r, step),
           \A id \in Records : attendance'[id] \in {attendance[id], NoRow},
           UNCHANGED <<cache, now, uses, args, held, ticket>>,
           pc[r] # "validate_save",
           step \in HasHeld => pc[r] \in HasHeld,
           step \in HasTicket => pc[r] \in HasTicket
    PROVE  AllLasting(lost)'
  <1>1. OthersKeep(r) /\ OthersTickets(r) /\ pc'[r] = step
    BY GotoLocals, GotoTickets DEF TypeInv
  <1> QED
    BY <1>1, QuietLasting

\* So does a step that reads the row it will write.
LEMMA ReadLasting ==
    ASSUME NEW lost, TypeInv, TypeInv', AllLasting(lost),
           NEW r \in Requests, NEW step, Goto(r, step),
           NEW id \in Records, attendance[id] # NoRow, Hold(r, id),
           UNCHANGED <<attendance, cache, now, uses, args, ticket>>,
           pc[r] # "validate_save",
           step \in HasTicket => pc[r] \in HasTicket
    PROVE  AllLasting(lost)'
  <1>1. /\ OthersKeep(r) /\ OthersTickets(r) /\ pc'[r] = step
        /\ held'[r].row = attendance[id]
    BY HoldLocals, GotoTickets DEF TypeInv
  <1> QED
    BY <1>1, QuietLasting

\* So does a save or an insert that ends a request.
LEMMA WriteLasting ==
    ASSUME NEW lost, TypeInv, TypeInv', AllLasting(lost), LastingKept(lost),
           NEW r \in Requests, Done(r),
           \A id \in Records :
              \/ attendance'[id] \in {attendance[id], NoRow}
              \/ RowLasting(attendance'[id], cache, now, Spent \cup lost)
    PROVE  AllLasting(lost)'
  <1>1. OthersKeep(r) /\ OthersTickets(r) /\ pc'[r] = "idle"
    BY DoneLocals, DoneTickets DEF TypeInv
  <1> QED
    BY <1>1, SlotLasting DEF HasHeld, HasTicket

\* So does each later call of a handler.
LEMMA ProceedLasting ==
    ASSUME NEW lost, TypeInv, TypeInv', AllLasting(lost), NEW r \in Requests, Proceed(r)
    PROVE  AllLasting(lost)'
  <1>1. TypeOK /\ RequestOK(r)
    BY DEF TypeInv, RequestInv
  <1>2. /\ pc[r] \in HasHeld =>
              held[r] \in Held /\ RowLasting(held[r].row, cache, now, Spent \cup lost)
        /\ pc[r] \in HasTicket =>
              Lasting(ticket[r].token, ticket[r].expiresAt, cache, now, Spent \cup lost)
    BY <1>1 DEF RequestOK, AllLasting
  <1>3. CASE ClockInFindJob(r)
    BY <1>3, EndLasting, GoLasting DEF ClockInFindJob, db, redis, history, HasHeld, HasTicket
  <1>4. CASE ClockInInsert(r)
    <2> DEFINE row == [NewRow(Job(r), User(r)) EXCEPT !.clockIn = now]
    <2>1. /\ row.clockInOtp = NA /\ row.clockInOtpExpiresAt = Null
          /\ row.clockOutOtp = NA /\ row.clockOutOtpExpiresAt = Null
      BY DEF NewRow
    <2>2. Insert(row) /\ Done(r)
      BY <1>4 DEF ClockInInsert
    <2>3. RowLasting(row, cache, now, Spent \cup lost)
      BY <1>1, <2>1, DefaultLasting DEF RowLasting
    <2> HIDE DEF row
    <2>4. \A id \in Records : \/ attendance'[id] \in {attendance[id], NoRow}
                              \/ RowLasting(attendance'[id], cache, now, Spent \cup lost)
      BY <2>2, <2>3, InsertedLasting
    <2>5. OthersKeep(r) /\ UNCHANGED <<cache, now, uses>> /\ pc[r] = "in_insert"
      BY <1>1, <1>4, DoneLocals DEF ClockInInsert, redis, history
    <2>6. LastingKept(lost)
      BY <2>5, LastingStays
    <2> QED
      BY <2>2, <2>4, <2>6, WriteLasting
  <1>5. CASE ClockOutSave(r)
    <2> DEFINE row == [held[r].row EXCEPT !.clockOut = now]
    <2>1. held[r] \in Held /\ RowLasting(held[r].row, cache, now, Spent \cup lost)
      BY <1>2, <1>5 DEF ClockOutSave, HasHeld
    <2>2. /\ row \in Row
          /\ row.clockInOtp = held[r].row.clockInOtp
          /\ row.clockInOtpExpiresAt = held[r].row.clockInOtpExpiresAt
          /\ row.clockOutOtp = held[r].row.clockOutOtp
          /\ row.clockOutOtpExpiresAt = held[r].row.clockOutOtpExpiresAt
      BY <1>1, <2>1 DEF Held, Row, TypeOK
    <2>3. Save(held[r].id, row) /\ Done(r)
      BY <1>5 DEF ClockOutSave
    <2>4. held[r].id \in Records
      BY <2>1 DEF Held
    <2> HIDE DEF row
    <2>5. RowLasting(row, cache, now, Spent \cup lost)
      BY <2>1, <2>2 DEF RowLasting
    <2>6. \A id \in Records : \/ attendance'[id] \in {attendance[id], NoRow}
                              \/ RowLasting(attendance'[id], cache, now, Spent \cup lost)
      BY <2>2, <2>3, <2>4, <2>5, SavedLasting
    <2>7. OthersKeep(r) /\ UNCHANGED <<cache, now, uses>> /\ pc[r] = "out_save"
      BY <1>1, <1>5, DoneLocals DEF ClockOutSave, redis, history
    <2>8. LastingKept(lost)
      BY <2>7, LastingStays
    <2> QED
      BY <2>3, <2>6, <2>8, WriteLasting
  <1>6. CASE ClockInViaOtpFind(r)
    <2>1. CASE Done(r)
      BY <1>6, <2>1, EndLasting DEF ClockInViaOtpFind, db, redis, history
    <2>2. CASE /\ \E id \in ClockInOtpMatches(Job(r), User(r)) : Hold(r, id)
               /\ Goto(r, "validate_get")
               /\ UNCHANGED <<args, ticket>>
      <3>1. PICK id \in Records : attendance[id] # NoRow /\ Hold(r, id)
        BY <2>2 DEF ClockInOtpMatches, RowsOf
      <3> QED
        BY <1>6, <2>2, <3>1, ReadLasting
           DEF ClockInViaOtpFind, db, redis, history, HasTicket
    <2> QED
      BY <1>6, <2>1, <2>2 DEF ClockInViaOtpFind
  <1>7. CASE ValidateGet(r)
    BY <1>7, EndLasting, GoLasting DEF ValidateGet, db, redis, history, HasHeld, HasTicket
  <1>8. CASE ValidateDelete(r)
    <2>1. LastingKept(lost)
      BY <1>8, DeleteLasting
    <2>2. /\ OthersKeep(r) /\ OthersTickets(r) /\ pc'[r] = "validate_save"
          /\ held' = held /\ attendance' = attendance /\ pc[r] \in HasHeld
      BY <1>1, <1>8, GotoLocals, GotoTickets DEF ValidateDelete, db, HasHeld
    <2> QED
      BY <1>2, <2>1, <2>2, SlotLasting DEF HasTicket
  <1>9. CASE ViaOtpSave(r)
    <2>1. held[r] \in Held /\ RowLasting(held[r].row, cache, now, Spent \cup lost)
      BY <1>2, <1>9 DEF ViaOtpSave, HasHeld
    <2>2. PICK row \in Row :
            /\ Save(held[r].id, row)
            /\ row.clockInOtp = held[r].row.clockInOtp
            /\ row.clockInOtpExpiresAt = held[r].row.clockInOtpExpiresAt
            /\ row.clockOutOtp = held[r].row.clockOutOtp
            /\ row.clockOutOtpExpiresAt = held[r].row.clockOutOtpExpiresAt
      <3>1. /\ [held[r].row EXCEPT !.clockIn = now] \in Row
            /\ [held[r].row EXCEPT !.clockOut = now] \in Row
        BY <1>1, <2>1 DEF Held, Row, TypeOK
      <3>2. CASE Save(held[r].id, [held[r].row EXCEPT !.clockIn = now])
        BY <2>1, <3>1, <3>2 DEF Held, Row
      <3>3. CASE Save(held[r].id, [held[r].row EXCEPT !.clockOut = now])
        BY <2>1, <3>1, <3>3 DEF Held, Row
      <3> QED
        BY <1>9, <3>2, <3>3 DEF ViaOtpSave
    <2>3. held[r].id \in Records
      BY <2>1 DEF Held
    <2>4. RowLasting(row, cache, now, Spent \cup lost)
      BY <2>1, <2>2 DEF RowLasting
    <2>5. \A id \in Records : \/ attendance'[id] \in {attendance[id], NoRow}
                              \/ RowLasting(attendance'[id], cache, now, Spent \cup lost)
      BY <2>2, <2>3, <2>4, SavedLasting
    <2> QED
      BY <1>9, <2>5, SaveLasting, WriteLasting DEF ViaOtpSave
  <1>10. CASE GetAttendanceOtpCheck(r)
    BY <1>10, EndLasting, GoLasting
       DEF GetAttendanceOtpCheck, db, redis, history, HasHeld, HasTicket
  <1>11. CASE GenerateOtpSet(r)
    <2>1. LastingKept(lost)
      BY <1>1, <1>11, SetLasting
    <2>2. OthersKeep(r) /\ OthersTickets(r) /\ pc'[r] = "issue_expire"
      BY <1>1, <1>11 DEF TypeOK, GenerateOtpSet, Goto, OthersKeep, OthersTickets
    <2>3. attendance' = attendance
      BY <1>11 DEF GenerateOtpSet, db
    <2> QED
      BY <2>1, <2>2, <2>3, SlotLasting DEF HasHeld, HasTicket
  <1>12. CASE GenerateOtpExpire(r)
    <2>1. LastingKept(lost)
      BY <1>1, <1>12, ExpireLasting
    <2>2. /\ OthersKeep(r) /\ OthersTickets(r)
          /\ pc'[r] \in {"issueIn_purge", "issueOut_find"}
          /\ ticket'[r].token = ticket[r].token
          /\ ticket'[r].expiresAt = now + OtpLife
      BY <1>1, <1>12
         DEF TypeOK, GenerateOtpExpire, AfterGenerate, Goto, OthersKeep, OthersTickets
    <2>3. attendance' = attendance /\ now' = now
      BY <1>12 DEF GenerateOtpExpire, db
    <2>4. Lasting(ticket'[r].token, ticket'[r].expiresAt, cache', now', Spent' \cup lost)
      <3>1. ticket[r].token # NA => cache'[ticket[r].token] = now + KeyLife
        BY <1>1, <1>12 DEF TypeOK, GenerateOtpExpire
      <3>2. now \in Nat /\ OtpLife \in Nat /\ KeyLife \in Nat /\ OtpLife < KeyLife
        BY <1>1, LifeAssumption DEF TypeOK
      <3> QED
        BY <2>2, <2>3, <3>1, <3>2 DEF Lasting, Absent
    <2> QED
      BY <2>1, <2>2, <2>3, <2>4, SlotLasting DEF HasHeld
  <1>13. CASE PurgeExpiredPending(r)
    <2>1. \A id \in Records : attendance'[id] \in {attendance[id], NoRow}
      BY <1>13 DEF PurgeExpiredPending
    <2> QED
      BY <1>13, <2>1, GoLasting DEF PurgeExpiredPending, redis, history, HasHeld, HasTicket
  <1>14. CASE InsertPending(r)
    <2> DEFINE row == [NewRow(Job(r), User(r)) EXCEPT
                          !.clockInOtp = ticket[r].token,
                          !.clockInOtpExpiresAt = ticket[r].expiresAt]
    <2>1. /\ row.clockInOtp = ticket[r].token
          /\ row.clockInOtpExpiresAt = ticket[r].expiresAt
          /\ row.clockOutOtp = NA /\ row.clockOutOtpExpiresAt = Null
      BY DEF NewRow
    <2>2. Insert(row) /\ Done(r)
      BY <1>14 DEF InsertPending
    <2>3. pc[r] \in HasTicket
      BY <1>14 DEF InsertPending, HasTicket
    <2>4. RowLasting(row, cache, now, Spent \cup lost)
      BY <1>1, <1>2, <2>1, <2>3, DefaultLasting DEF RowLasting
    <2> HIDE DEF row
    <2>5. \A id \in Records : \/ attendance'[id] \in {attendance[id], NoRow}
                              \/ RowLasting(attendance'[id], cache, now, Spent \cup lost)
      BY <2>2, <2>4, InsertedLasting
    <2>6. OthersKeep(r) /\ UNCHANGED <<cache, now, uses>> /\ pc[r] = "issueIn_insert"
      BY <1>1, <1>14, DoneLocals DEF InsertPending, redis, history
    <2>7. LastingKept(lost)
      BY <2>6, LastingStays
    <2> QED
      BY <2>2, <2>5, <2>7, WriteLasting
  <1>15. CASE FindOpenForOtp(r)
    <2>1. CASE Done(r)
      BY <1>15, <2>1, EndLasting DEF FindOpenForOtp, db, redis, history
    <2>2. CASE /\ \E id \in OpenRows(Job(r), User(r)) : Hold(r, id)
               /\ Goto(r, "issueOut_save")
               /\ UNCHANGED <<args, ticket>>
      <3>1. PICK id \in Records : attendance[id] # NoRow /\ Hold(r, id)
        BY <2>2 DEF OpenRows, RowsOf
      <3>2. pc[r] \in HasTicket
        BY <1>15 DEF FindOpenForOtp, HasTicket
      <3> QED
        BY <1>15, <2>2, <3>1, <3>2, ReadLasting DEF FindOpenForOtp, db, redis, history
    <2> QED
      BY <1>15, <2>1, <2>2 DEF FindOpenForOtp
  <1>16. CASE SaveClockOutOtp(r)
    <2> DEFINE row == [held[r].row EXCEPT !.clockOutOtp = ticket[r].token,
                                          !.clockOutOtpExpiresAt = ticket[r].expiresAt]
    <2>1. /\ held[r] \in Held /\ RowLasting(held[r].row, cache, now, Spent \cup lost)
          /\ Lasting(ticket[r].token, ticket[r].expiresAt, cache, now, Spent \cup lost)
      BY <1>2, <1>16 DEF SaveClockOutOtp, HasHeld, HasTicket
    <2>2. /\ row \in Row
          /\ row.clockInOtp = held[r].row.clockInOtp
          /\ row.clockInOtpExpiresAt = held[r].row.clockInOtpExpiresAt
          /\ row.clockOutOtp = ticket[r].token
          /\ row.clockOutOtpExpiresAt = ticket[r].expiresAt
      BY <1>1, <2>1 DEF Held, Row, TypeOK
    <2>3. Save(held[r].id, row) /\ Done(r)
      BY <1>16 DEF SaveClockOutOtp
    <2>4. held[r].id \in Records
      BY <2>1 DEF Held
    <2> HIDE DEF row
    <2>5. RowLasting(row, cache, now, Spent \cup lost)
      BY <2>1, <2>2 DEF RowLasting
    <2>6. \A id \in Records : \/ attendance'[id] \in {attendance[id], NoRow}
                              \/ RowLasting(attendance'[id], cache, now, Spent \cup lost)
      BY <2>2, <2>3, <2>4, <2>5, SavedLasting
    <2>7. OthersKeep(r) /\ UNCHANGED <<cache, now, uses>> /\ pc[r] = "issueOut_save"
      BY <1>1, <1>16, DoneLocals DEF SaveClockOutOtp, redis, history
    <2>8. LastingKept(lost)
      BY <2>7, LastingStays
    <2> QED
      BY <2>3, <2>6, <2>8, WriteLasting
  <1> QED
    BY <1>3, <1>4, <1>5, <1>6, <1>7, <1>8, <1>9, <1>10, <1>11, <1>12, <1>13, <1>14,
       <1>15, <1>16 DEF Proceed

\* So do the cron job and the clock.
LEMMA OutsideLasting ==
    ASSUME NEW lost, TypeInv, TypeInv', AllLasting(lost),
           DeactivateJobs \/ UpdateJobStale \/ Tick \/ UNCHANGED vars
    PROVE  AllLasting(lost)'
  <1>1. UNCHANGED <<attendance, pc, held, ticket>>
    BY DEF DeactivateJobs, UpdateJobStale, Tick, vars, db, request
  <1>2. LastingKept(lost)
    <2>1. CASE Tick
      BY <2>1, TickLasting
    <2>2. CASE DeactivateJobs \/ UpdateJobStale \/ UNCHANGED vars
      <3>1. UNCHANGED <<cache, now, uses, pc, args, held>>
        BY <2>2 DEF DeactivateJobs, UpdateJobStale, vars, redis, request, history
      <3>2. Spent' = Spent
        BY <3>1 DEF Spent, HeldToken, Type
      <3> QED
        BY <3>1, <3>2 DEF LastingKept
    <2> QED
      BY <2>1, <2>2
  <1>3. ASSUME NEW id \in Records, attendance[id] # NoRow
        PROVE  RowLasting(attendance[id], cache', now', Spent' \cup lost)
    BY <1>2, <1>3, RowKept DEF AllLasting, TypeInv, TypeOK
  <1>4. ASSUME NEW r \in Requests, pc[r] \in HasHeld
        PROVE  RowLasting(held[r].row, cache', now', Spent' \cup lost)
    <2>1. held[r].row \in Row
      BY <1>4 DEF TypeInv, RequestInv, RequestOK, HasHeld, Held
    <2> QED
      BY <1>2, <1>4, <2>1, RowKept DEF AllLasting
  <1>5. ASSUME NEW r \in Requests, pc[r] \in HasTicket
        PROVE  Lasting(ticket[r].token, ticket[r].expiresAt, cache', now', Spent' \cup lost)
    <2>1. ticket[r].token \in Tokens \cup {NA} /\ ticket[r].expiresAt \in Nat
      BY DEF TypeInv, TypeOK
    <2> QED
      BY <1>2, <1>5, <2>1 DEF AllLasting, LastingKept
  <1> QED
    BY <1>1, <1>3, <1>4, <1>5 DEF AllLasting

\* More may be lost.
LEMMA LostMore ==
    ASSUME NEW lost, NEW more, lost \subseteq more, AllLasting(lost)
    PROVE  AllLasting(more)
  BY DEF AllLasting, RowLasting, Lasting

\* A failed call loses one OTP at most: the one it was about to accept, or to
\* issue.
LEMMA FailLasting ==
    ASSUME NEW lost, TypeInv, TypeInv', AllLasting(lost), NEW r \in Requests, Fail(r)
    PROVE  \E t : AllLasting(lost \cup {t})'
  <1>1. TypeOK /\ UNCHANGED <<attendance, cache, now, uses>>
    BY DEF TypeInv, Fail, Abort, RedisSetFails, RedisExpireFails, RedisDeleteFails, db, redis
  <1>2. CASE Abort(r)
    <2>0. PICK t : t = HeldToken(r)
      OBVIOUS
    <2> DEFINE more == lost \cup {t}
    <2>1. OthersKeep(r) /\ OthersTickets(r) /\ pc'[r] = "idle"
      BY <1>1, <1>2, DoneLocals, DoneTickets DEF Abort
    <2>2. Spent \cup more \subseteq Spent' \cup more
      <3> SUFFICES ASSUME NEW q \in Requests, pc[q] = "validate_save", q # r
                   PROVE  HeldToken(q) \in Spent'
        BY <1>1, <2>0 DEF Spent
      <3>1. pc'[q] = "validate_save" /\ HeldToken(q)' = HeldToken(q)
        BY <2>1 DEF OthersKeep, HeldToken, Type
      <3> QED
        BY <3>1 DEF Spent
    <2>3. AllLasting(more)
      BY LostMore
    <2> HIDE DEF more
    <2>4. LastingKept(more)
      BY <1>1, <2>2 DEF LastingKept, Lasting
    <2>5. AllLasting(more)'
      BY <1>1, <2>1, <2>3, <2>4, SlotLasting DEF HasHeld, HasTicket
    <2> QED
      BY <2>5 DEF more
  <1>3. CASE RedisSetFails(r) \/ RedisExpireFails(r)
    <2>0. PICK t : t = ticket'[r].token
      OBVIOUS
    <2> DEFINE more == lost \cup {t}
    <2>1. /\ OthersKeep(r) /\ OthersTickets(r)
          /\ pc'[r] \in {"issueIn_purge", "issueOut_find"}
          /\ pc[r] # "validate_save"
          /\ ticket'[r].expiresAt = now + OtpLife
      BY <1>1, <1>3
         DEF TypeOK, RedisSetFails, RedisExpireFails, AfterGenerate, Goto,
             OthersKeep, OthersTickets
    <2>2. AllLasting(more)
      BY LostMore
    <2>3. ticket'[r].token \in more
      BY <2>0
    <2>4. Lasting(ticket'[r].token, ticket'[r].expiresAt, cache', now', Spent' \cup more)
      BY <1>1, <2>1, <2>3, LifeAssumption DEF TypeOK, Lasting
    <2> HIDE DEF more
    <2>5. LastingKept(more)
      BY <1>1, <2>1, LastingStays
    <2>6. AllLasting(more)'
      BY <1>1, <2>1, <2>2, <2>4, <2>5, SlotLasting DEF HasHeld
    <2> QED
      BY <2>6 DEF more
  <1>4. CASE RedisDeleteFails(r)
    <2> DEFINE more == lost \cup {NA}
    <2>1. AllLasting(more)
      BY LostMore
    <2>2. Goto(r, "validate_save") /\ UNCHANGED <<args, held, ticket>>
      BY <1>4 DEF RedisDeleteFails
    <2>3. pc[r] \in HasHeld /\ pc[r] # "validate_save"
      BY <1>4 DEF RedisDeleteFails, HasHeld
    <2> HIDE DEF more
    <2>4. AllLasting(more)'
      BY <1>1, <2>1, <2>2, <2>3, GoLasting DEF HasTicket
    <2> QED
      BY <2>4 DEF more
  <1> QED
    BY <1>2, <1>3, <1>4 DEF Fail

\* Only a failure loses an OTP, and it loses one.
LEMMA LastingStep ==
    ASSUME TypeInv, TypeInv', LastingInv, [Next]_vars
    PROVE  LastingInv'
  <1>1. TypeOK /\ TypeOK'
    BY DEF TypeInv
  <1>2. PICK lost : IsFiniteSet(lost) /\ Cardinality(lost) <= faults /\ AllLasting(lost)
    BY DEF LastingInv
  <1>3. ASSUME faults' = faults, AllLasting(lost)' PROVE LastingInv'
    BY <1>2, <1>3 DEF LastingInv
  <1>4. ASSUME NEW r \in Requests, Arrive(r) PROVE LastingInv'
    <2>1. faults' = faults
      BY <1>1, <1>4, ArriveTickets
    <2> QED
      BY <1>2, <1>3, <1>4, <2>1, ArriveLasting
  <1>5. ASSUME NEW r \in Requests, Proceed(r) PROVE LastingInv'
    <2>1. faults' = faults
      BY <1>5, ProceedEternal
    <2> QED
      BY <1>2, <1>3, <1>5, <2>1, ProceedLasting
  <1>6. ASSUME NEW r \in Requests, Fail(r) PROVE LastingInv'
    <2>1. faults' = faults + 1
      BY <1>1, <1>6, FailEternal
    <2>2. PICK t : AllLasting(lost \cup {t})'
      BY <1>2, <1>6, FailLasting
    <2>3. /\ IsFiniteSet(lost \cup {t})
          /\ Cardinality(lost \cup {t}) <= Cardinality(lost) + 1
      BY <1>2, FS_AddElement, FS_CardinalityType
    <2>4. Cardinality(lost \cup {t}) \in Nat /\ Cardinality(lost) \in Nat /\ faults \in Nat
      BY <1>1, <1>2, <2>3, FS_CardinalityType DEF TypeOK
    <2>5. Cardinality(lost \cup {t}) <= faults'
      BY <1>2, <2>1, <2>3, <2>4
    <2> QED
      BY <2>2, <2>3, <2>5 DEF LastingInv
  <1>7. CASE DeactivateJobs \/ UpdateJobStale \/ Tick \/ UNCHANGED vars
    <2>1. faults' = faults
      BY <1>7 DEF DeactivateJobs, UpdateJobStale, Tick, vars, history
    <2> QED
      BY <1>2, <1>3, <1>7, <2>1, OutsideLasting
  <1> QED
    BY <1>4, <1>5, <1>6, <1>7 DEF Next

\* ValidOtpsAccepted: an OTP that its row calls valid is accepted whenever it is
\* typed, or was accepted before: Redis never drops its key first, whichever
\* stale copies of the row are saved in the meantime, and each failed call or
\* crash burns one OTP at most.
THEOREM ValidOtpsAccepted == Spec => []ValidOtpIsAccepted
  <1>1. Init => TypeInv /\ LastingInv
    <2> SUFFICES ASSUME Init PROVE LastingInv
      BY InitType
    <2>1. AllLasting({}) /\ faults = 0
      BY DEF Init, AllLasting, HasHeld, HasTicket
    <2> QED
      BY <2>1, FS_EmptySet DEF LastingInv
  <1>2. TypeInv /\ LastingInv /\ [Next]_vars => (TypeInv /\ LastingInv)'
    BY TypeStep, LastingStep
  <1>3. TypeInv /\ LastingInv => ValidOtpIsAccepted
    <2> SUFFICES ASSUME TypeInv, NEW lost, IsFiniteSet(lost),
                        Cardinality(lost) <= faults, AllLasting(lost)
                 PROVE  ValidOtpIsAccepted
      BY DEF LastingInv
    <2> DEFINE burnt == {t \in Tokens : Valid(t) /\ ~ KeyFor(t)}
    <2>1. \A t \in Spent : KeyFor(t)
      BY DEF Spent, KeyFor
    <2>2. ASSUME NEW t \in Tokens, Valid(t), ~ KeyFor(t) PROVE t \in lost
      <3>1. PICK id \in Records :
              /\ attendance[id] # NoRow
              /\ \/ attendance[id].clockInOtp = t /\ now <= attendance[id].clockInOtpExpiresAt
                 \/ attendance[id].clockOutOtp = t /\ now <= attendance[id].clockOutOtpExpiresAt
        BY <2>2 DEF Valid
      <3>2. RowLasting(attendance[id], cache, now, Spent \cup lost)
        BY <3>1 DEF AllLasting
      <3>3. t # NA /\ cache[t] = Absent /\ t \notin Spent
        BY <2>1, <2>2, NullAssumption DEF KeyFor
      <3> QED
        BY <3>1, <3>2, <3>3 DEF RowLasting, Lasting
    <2>3. burnt \subseteq lost
      BY <2>2
    <2>4. /\ IsFiniteSet(burnt) /\ Cardinality(burnt) <= Cardinality(lost)
          /\ Cardinality(burnt) \in Nat /\ Cardinality(lost) \in Nat /\ faults \in Nat
      BY <2>3, FS_Subset, FS_CardinalityType DEF TypeInv, TypeOK
    <2> QED
      BY <2>4 DEF ValidOtpIsAccepted
  <1> QED
    BY <1>1, <1>2, <1>3, PTL DEF Spec

-----------------------------------------------------------------------------
(* Uses of an OTP.  A token is written in rows, copies and tickets only once *)
(* its key was set and given its TTL: while it is minted and not yet that,   *)
(* nobody can hold it, so neither the SET nor the EXPIRE brings back the key *)
(* of an OTP that was used (FreshInv).                                       *)

Within(row, S) == row.clockInOtp \in S \cup {NA} /\ row.clockOutOtp \in S \cup {NA}

Written(S) ==
    /\ \A id \in Records : attendance[id] # NoRow => Within(attendance[id], S)
    /\ \A r \in Requests :
          /\ pc[r] \in HasHeld => Within(held[r].row, S)
          /\ pc[r] \in HasTicket => ticket[r].token \in S \cup {NA}

FreshInv ==
    /\ \A t \in Tokens : t \notin minted \/ Expiring(t) => Written(Tokens \ {t}) /\ uses[t] = 0
    /\ \A r \in Requests : pc[r] = "issue_expire" => ticket[r].token \in minted
    /\ \A q, r \in Requests :
          pc[q] = "issue_expire" /\ pc[r] = "issue_expire" /\ q # r
             => ticket[q].token # ticket[r].token

UsesOK(t) ==
    /\ uses[t] + Cardinality(Saving(t)) + Cardinality(Deleting(t))
          <= Cardinality(Requests) + faults
    /\ cache[t] # Absent => uses[t] + Cardinality(Saving(t)) <= faults

\* A step of slot r need only see to the rows it writes, and to its own copy
\* and ticket.
LEMMA SlotWritten ==
    ASSUME NEW S, Written(S), NEW r \in Requests, OthersKeep(r), OthersTickets(r),
           \A id \in Records : \/ attendance'[id] \in {attendance[id], NoRow}
                               \/ Within(attendance'[id], S),
           pc'[r] \in HasHeld => Within(held'[r].row, S),
           pc'[r] \in HasTicket => ticket'[r].token \in S \cup {NA}
    PROVE  Written(S)'
  BY DEF Written, OthersKeep, OthersTickets, Within

\* A step that ends a request and writes no new row.
LEMMA EndWritten ==
    ASSUME NEW S, TypeOK, Written(S), NEW r \in Requests, Done(r),
           \A id \in Records : \/ attendance'[id] \in {attendance[id], NoRow}
                               \/ Within(attendance'[id], S)
    PROVE  Written(S)'
  BY DoneLocals, DoneTickets, SlotWritten DEF HasHeld, HasTicket

\* A step to the next call with the same locals.
LEMMA GoWritten ==
    ASSUME NEW S, TypeOK, Written(S), NEW r \in Requests, NEW step, Goto(r, step),
           \A id \in Records : attendance'[id] \in {attendance[id], NoRow},
           UNCHANGED <<args, held, ticket>>,
           step \in HasHeld => pc[r] \in HasHeld,
           step \in HasTicket => pc[r] \in HasTicket
    PROVE  Written(S)'
  <1>1. OthersKeep(r) /\ OthersTickets(r) /\ pc'[r] = step
    BY GotoLocals, GotoTickets
  <1>2. /\ pc'[r] \in HasHeld => Within(held'[r].row, S)
        /\ pc'[r] \in HasTicket => ticket'[r].token \in S \cup {NA}
    BY <1>1 DEF Written
  <1> QED
    BY <1>1, <1>2, SlotWritten

\* A step that reads the row it will write.
LEMMA ReadWritten ==
    ASSUME NEW S, TypeOK, Written(S), NEW r \in Requests, NEW step, Goto(r, step),
           NEW id \in Records, attendance[id] # NoRow, Hold(r, id),
           UNCHANGED <<attendance, args, ticket>>,
           step \in HasTicket => pc[r] \in HasTicket
    PROVE  Written(S)'
  <1>1. /\ OthersKeep(r) /\ OthersTickets(r) /\ pc'[r] = step
        /\ held'[r].row = attendance[id]
    BY HoldLocals, GotoTickets
  <1>2. /\ Within(held'[r].row, S)
        /\ pc'[r] \in HasTicket => ticket'[r].token \in S \cup {NA}
    BY <1>1 DEF Written
  <1> QED
    BY <1>1, <1>2, SlotWritten

\* A save that ends a request writes the OTP columns of the row it is given.
LEMMA SaveWritten ==
    ASSUME NEW S, TypeOK, Written(S), NEW r \in Requests, Done(r),
           NEW i \in Records, NEW row \in Row, Save(i, row), Within(row, S)
    PROVE  Written(S)'
  <1> DEFINE job == IF attendance[i] = NoRow THEN NoJob ELSE attendance[i].job
  <1>1. attendance'[i] = [row EXCEPT !.job = job]
    BY DEF TypeOK, Save
  <1>2. /\ attendance'[i].clockInOtp = row.clockInOtp
        /\ attendance'[i].clockOutOtp = row.clockOutOtp
    BY <1>1 DEF Row
  <1>3. Within(attendance'[i], S)
    BY <1>2 DEF Within
  <1>4. \A id \in Records : id # i => attendance'[id] = attendance[id]
    BY DEF TypeOK, Save
  <1> QED
    BY <1>3, <1>4, EndWritten

\* So does an insert.
LEMMA InsertWritten ==
    ASSUME NEW S, TypeOK, Written(S), NEW r \in Requests, Done(r),
           NEW row, Insert(row), Within(row, S)
    PROVE  Written(S)'
  <1>1. PICK i \in Records : attendance' = [attendance EXCEPT ![i] = row]
    BY DEF Insert
  <1>2. \A id \in Records : attendance'[id] = IF id = i THEN row ELSE attendance[id]
    BY <1>1 DEF TypeOK
  <1> QED
    BY <1>2, EndWritten

LEMMA ArriveUses ==
    ASSUME TypeInv, NEW r \in Requests, Arrive(r)
    PROVE  /\ OthersKeep(r) /\ UNCHANGED minted
           /\ pc'[r] \in {"in_job", "out_save", "otpIn_find", "validate_get", "issue_check"}
           /\ pc'[r] \in HasHeld =>
                 \E id \in Records : attendance[id] # NoRow /\ Hold(r, id)
  <1>1. TypeOK
    BY DEF TypeInv
  <1>2. PICK u \in Users, j \in Jobs :
          \/ ClockIn(r, u, j)
          \/ ClockOut(r, u, j)
          \/ ClockInViaOtp(r, u, j)
          \/ ClockOutViaOtp(r, u, j)
          \/ \E type \in {"IN", "OUT"} : GetAttendanceOtp(r, u, j, type)
    BY DEF Arrive
  <1>3. UNCHANGED minted
    BY <1>2 DEF ClockIn, ClockOut, ClockInViaOtp, ClockOutViaOtp, GetAttendanceOtp, redis
  <1>4. CASE ClockOut(r, u, j) \/ ClockOutViaOtp(r, u, j)
    <2>1. PICK id \in Records : attendance[id] # NoRow /\ Hold(r, id)
      BY <1>4 DEF ClockOut, ClockOutMatches, ClockOutViaOtp, ClockOutOtpMatches, RowsOf
    <2>2. PICK step \in {"out_save", "validate_get"} : Begin(r, step, u, j, "OUT")
      BY <1>4 DEF ClockOut, ClockOutViaOtp
    <2>3. /\ OthersKeep(r) /\ pc'[r] = step
          /\ args'[r] = [user |-> u, job |-> j, type |-> "OUT"]
          /\ held'[r].id = id /\ held'[r].row = attendance[id]
      BY <1>1, <2>1, <2>2, BeginHoldLocals
    <2> QED
      BY <1>3, <2>1, <2>3
  <1>5. CASE \/ ClockIn(r, u, j) \/ ClockInViaOtp(r, u, j)
             \/ \E type \in {"IN", "OUT"} : GetAttendanceOtp(r, u, j, type)
    <2>1. PICK step \in {"in_job", "otpIn_find", "issue_check"}, type \in {"IN", "OUT"} :
            Begin(r, step, u, j, type) /\ UNCHANGED held
      BY <1>5 DEF ClockIn, ClockInViaOtp, GetAttendanceOtp
    <2>2. OthersKeep(r) /\ pc'[r] = step
      BY <1>1, <2>1, BeginLocals
    <2> QED
      BY <1>3, <2>2 DEF HasHeld
  <1> QED
    BY <1>2, <1>4, <1>5

LEMMA ArriveWritten ==
    ASSUME NEW S, TypeInv, Written(S), NEW r \in Requests, Arrive(r)
    PROVE  Written(S)'
  <1>1. TypeOK
    BY DEF TypeInv
  <1>2. /\ OthersTickets(r)
        /\ UNCHANGED <<attendance, ticket>>
    BY <1>1, ArriveTickets
  <1>3. OthersKeep(r) /\ pc'[r] \notin HasTicket
    BY ArriveUses DEF HasTicket
  <1>4. pc'[r] \in HasHeld => \E id \in Records : attendance[id] # NoRow /\ Hold(r, id)
    BY ArriveUses
  <1>5. pc'[r] \in HasHeld => Within(held'[r].row, S)
    BY <1>1, <1>4 DEF Hold, TypeOK, Written
  <1> QED
    BY <1>2, <1>3, <1>5, SlotWritten

\* A step of slot r writes what r held, or the token it has just been given.
LEMMA SavesWritten ==
    ASSUME NEW S, TypeInv, Written(S), NEW r \in Requests,
           ClockOutSave(r) \/ ViaOtpSave(r) \/ SaveClockOutOtp(r)
    PROVE  Written(S)'
  <1>1. TypeOK /\ RequestOK(r)
    BY DEF TypeInv, RequestInv
  <1>2. /\ held[r].id \in Records /\ held[r].row \in Row /\ Within(held[r].row, S)
        /\ pc[r] = "issueOut_save" => ticket[r].token \in S \cup {NA}
        /\ Done(r)
    BY <1>1 DEF ClockOutSave, ViaOtpSave, SaveClockOutOtp, RequestOK, HasHeld, HasTicket, Held,
                Written
  <1> DEFINE out == [held[r].row EXCEPT !.clockOut = now]
             in == [held[r].row EXCEPT !.clockIn = now]
             otp == [held[r].row EXCEPT !.clockOutOtp = ticket[r].token,
                                        !.clockOutOtpExpiresAt = ticket[r].expiresAt]
  <1>3. /\ out \in Row /\ Within(out, S)
        /\ in \in Row /\ Within(in, S)
        /\ otp \in Row /\ (pc[r] = "issueOut_save" => Within(otp, S))
    BY <1>1, <1>2 DEF Row, Within, TypeOK
  <1>4. \/ Save(held[r].id, out) \/ Save(held[r].id, in)
        \/ pc[r] = "issueOut_save" /\ Save(held[r].id, otp)
    BY DEF ClockOutSave, ViaOtpSave, SaveClockOutOtp
  <1> HIDE DEF out, in, otp
  <1> QED
    BY <1>1, <1>2, <1>3, <1>4, SaveWritten

LEMMA InsertsWritten ==
    ASSUME NEW S, TypeInv, Written(S), NEW r \in Requests, ClockInInsert(r) \/ InsertPending(r)
    PROVE  Written(S)'
  <1>1. TypeOK /\ Done(r)
    BY DEF TypeInv, ClockInInsert, InsertPending
  <1> DEFINE in == [NewRow(Job(r), User(r)) EXCEPT !.clockIn = now]
             pending == [NewRow(Job(r), User(r)) EXCEPT
                            !.clockInOtp = ticket[r].token,
                            !.clockInOtpExpiresAt = ticket[r].expiresAt]
  <1>2. Within(in, S)
    BY DEF Within, NewRow
  <1>3. pc[r] \in HasTicket => Within(pending, S)
    BY DEF Within, NewRow, Written
  <1>4. Insert(in) \/ (pc[r] \in HasTicket /\ Insert(pending))
    BY DEF ClockInInsert, InsertPending, HasTicket
  <1> HIDE DEF in, pending
  <1> QED
    BY <1>1, <1>2, <1>3, <1>4, InsertWritten

LEMMA ProceedWritten ==
    ASSUME NEW S, TypeInv, Written(S), NEW r \in Requests, Proceed(r),
           GenerateOtpExpire(r) => ticket[r].token \in S
    PROVE  Written(S)'
  <1>1. TypeOK
    BY DEF TypeInv
  <1>2. CASE ClockOutSave(r) \/ ViaOtpSave(r) \/ SaveClockOutOtp(r)
    BY <1>2, SavesWritten
  <1>3. CASE ClockInInsert(r) \/ InsertPending(r)
    BY <1>3, InsertsWritten
  <1>4. CASE ClockInFindJob(r)
    BY <1>1, <1>4, EndWritten, GoWritten DEF ClockInFindJob, db, HasHeld, HasTicket
  <1>5. CASE ClockInViaOtpFind(r)
    <2>1. CASE Done(r)
      BY <1>1, <1>5, <2>1, EndWritten DEF ClockInViaOtpFind, db
    <2>2. CASE ~ Done(r)
      <3>1. PICK id \in Records : attendance[id] # NoRow /\ Hold(r, id)
        BY <1>5, <2>2 DEF ClockInViaOtpFind, ClockInOtpMatches, RowsOf
      <3> QED
        BY <1>1, <1>5, <2>2, <3>1, ReadWritten DEF ClockInViaOtpFind, db, HasTicket
    <2> QED
      BY <2>1, <2>2
  <1>6. CASE ValidateGet(r)
    BY <1>1, <1>6, EndWritten, GoWritten DEF ValidateGet, db, HasHeld, HasTicket
  <1>7. CASE ValidateDelete(r)
    BY <1>1, <1>7, GoWritten DEF ValidateDelete, db, HasHeld, HasTicket
  <1>8. CASE GetAttendanceOtpCheck(r)
    BY <1>1, <1>8, EndWritten, GoWritten DEF GetAttendanceOtpCheck, db, HasHeld, HasTicket
  <1>9. CASE GenerateOtpSet(r)
    <2>1. OthersKeep(r) /\ OthersTickets(r) /\ pc'[r] = "issue_expire"
      BY <1>1, <1>9 DEF TypeOK, GenerateOtpSet, Goto, OthersKeep, OthersTickets
    <2> QED
      BY <1>9, <2>1, SlotWritten DEF GenerateOtpSet, db, HasHeld, HasTicket
  <1>10. CASE GenerateOtpExpire(r)
    <2>1. /\ OthersKeep(r) /\ OthersTickets(r)
          /\ pc'[r] \in {"issueIn_purge", "issueOut_find"}
          /\ ticket'[r].token = ticket[r].token
      BY <1>1, <1>10
         DEF TypeOK, GenerateOtpExpire, AfterGenerate, Goto, OthersKeep, OthersTickets
    <2> QED
      BY <1>10, <2>1, SlotWritten DEF GenerateOtpExpire, db, HasHeld
  <1>11. CASE PurgeExpiredPending(r)
    BY <1>1, <1>11, GoWritten DEF PurgeExpiredPending, HasHeld, HasTicket
  <1>12. CASE FindOpenForOtp(r)
    <2>1. CASE Done(r)
      BY <1>1, <1>12, <2>1, EndWritten DEF FindOpenForOtp, db
    <2>2. CASE ~ Done(r)
      <3>1. PICK id \in Records : attendance[id] # NoRow /\ Hold(r, id)
        BY <1>12, <2>2 DEF FindOpenForOtp, OpenRows, RowsOf
      <3> QED
        BY <1>1, <1>12, <2>2, <3>1, ReadWritten DEF FindOpenForOtp, db, HasTicket
    <2> QED
      BY <2>1, <2>2
  <1> QED
    BY <1>2, <1>3, <1>4, <1>5, <1>6, <1>7, <1>8, <1>9, <1>10, <1>11, <1>12 DEF Proceed

LEMMA FailWritten ==
    ASSUME NEW S, TypeInv, Written(S), NEW r \in Requests, Fail(r),
           RedisSetFails(r) \/ RedisExpireFails(r) => ticket'[r].token \in S
    PROVE  Written(S)'
  <1>1. TypeOK
    BY DEF TypeInv
  <1>2. CASE Abort(r)
    BY <1>1, <1>2, EndWritten DEF Abort, db
  <1>3. CASE RedisSetFails(r) \/ RedisExpireFails(r)
    <2>1. /\ OthersKeep(r) /\ OthersTickets(r) /\ UNCHANGED attendance
          /\ pc'[r] \in {"issueIn_purge", "issueOut_find"}
      BY <1>1, <1>3
         DEF TypeOK, RedisSetFails, RedisExpireFails, AfterGenerate, Goto, OthersKeep,
             OthersTickets, db
    <2> QED
      BY <1>3, <2>1, SlotWritten DEF HasHeld
  <1>4. CASE RedisDeleteFails(r)
    BY <1>1, <1>4, GoWritten DEF RedisDeleteFails, db, HasHeld, HasTicket
  <1> QED
    BY <1>2, <1>3, <1>4 DEF Fail

\* Whoever may hold a token got it from the table.
LEMMA NotHeld ==
    ASSUME TypeInv, NEW t \in Tokens, Written(Tokens \ {t}), NEW r \in Requests,
           pc[r] \in HasToken
    PROVE  HeldToken(r) # t
  <1>1. HeldToken(r) \in Tokens
    BY DEF TypeInv, RequestInv, RequestOK
  <1>2. Within(held[r].row, Tokens \ {t})
    BY DEF Written, HasToken, HasHeld
  <1> QED
    BY <1>1, <1>2, NullAssumption DEF HeldToken, Within

\* The tokens a request in flight has, and what it may do to the others.
LEMMA ProceedUses ==
    ASSUME TypeInv, NEW r \in Requests, Proceed(r)
    PROVE  /\ OthersKeep(r)
           /\ ~ ViaOtpSave(r) => UNCHANGED uses
           /\ ~ GenerateOtpSet(r) => UNCHANGED minted /\ pc'[r] # "issue_expire"
           /\ ~ GenerateOtpExpire(r) /\ pc'[r] \in HasTicket => pc[r] \in HasTicket
  <1>1. TypeOK
    BY DEF TypeInv
  <1>2. CASE \/ ClockInFindJob(r) \/ ClockInInsert(r) \/ ClockOutSave(r) \/ ValidateGet(r)
             \/ GetAttendanceOtpCheck(r) \/ InsertPending(r) \/ SaveClockOutOtp(r)
    <2>1. UNCHANGED <<uses, minted>>
      BY <1>2 DEF ClockInFindJob, ClockInInsert, ClockOutSave, ValidateGet,
         GetAttendanceOtpCheck, InsertPending, SaveClockOutOtp, redis, history
    <2>2. \/ Done(r)
          \/ \E step \in {"in_insert", "validate_del", "issue_set"} :
                Goto(r, step) /\ UNCHANGED <<args, held>>
      BY <1>2 DEF ClockInFindJob, ClockInInsert, ClockOutSave, ValidateGet,
         GetAttendanceOtpCheck, InsertPending, SaveClockOutOtp
    <2>3. OthersKeep(r) /\ pc'[r] \in {"idle", "in_insert", "validate_del", "issue_set"}
      BY <1>1, <2>2, DoneLocals, GotoLocals
    <2> QED
      BY <2>1, <2>3 DEF HasTicket
  <1>3. CASE ViaOtpSave(r)
    BY <1>1, <1>3, DoneLocals DEF ViaOtpSave, redis, HasTicket
  <1>4. CASE ValidateDelete(r)
    BY <1>1, <1>4, GotoLocals DEF ValidateDelete, history, HasTicket
  <1>5. CASE GenerateOtpSet(r)
    <2>1. UNCHANGED uses /\ OthersKeep(r) /\ pc'[r] = "issue_expire"
      BY <1>1, <1>5, GotoLocals DEF GenerateOtpSet, history
    <2> QED
      BY <1>5, <2>1 DEF HasTicket
  <1>6. CASE GenerateOtpExpire(r)
    BY <1>1, <1>6 DEF GenerateOtpExpire, AfterGenerate, Goto, OthersKeep, TypeOK, history
  <1>7. CASE PurgeExpiredPending(r)
    BY <1>1, <1>7, GotoLocals DEF PurgeExpiredPending, redis, history, HasTicket
  <1>8. CASE ClockInViaOtpFind(r) \/ FindOpenForOtp(r)
    <2>1. UNCHANGED <<uses, minted>>
      BY <1>8 DEF ClockInViaOtpFind, FindOpenForOtp, redis, history
    <2>2. CASE Done(r)
      BY <1>1, <2>1, <2>2, DoneLocals DEF HasTicket
    <2>3. CASE ~ Done(r)
      <3>1. PICK id \in Records : Hold(r, id)
        BY <1>8, <2>3 DEF ClockInViaOtpFind, ClockInOtpMatches, FindOpenForOtp, OpenRows, RowsOf
      <3>2. /\ UNCHANGED args
            /\ \/ Goto(r, "validate_get")
               \/ Goto(r, "issueOut_save") /\ pc[r] = "issueOut_find"
        BY <1>8, <2>3 DEF ClockInViaOtpFind, FindOpenForOtp
      <3>3. OthersKeep(r)
        BY <1>1, <3>1, <3>2, HoldLocals
      <3>4. \/ pc'[r] = "validate_get"
            \/ pc'[r] = "issueOut_save" /\ pc[r] = "issueOut_find"
        BY <1>1, <3>2 DEF Goto, TypeOK
      <3> QED
        BY <2>1, <3>3, <3>4 DEF HasTicket
    <2> QED
      BY <2>2, <2>3
  <1> QED
    BY <1>2, <1>3, <1>4, <1>5, <1>6, <1>7, <1>8 DEF Proceed

LEMMA FailUses ==
    ASSUME TypeInv, NEW r \in Requests, Fail(r)
    PROVE  /\ OthersKeep(r) /\ OthersTickets(r) /\ pc'[r] # "issue_expire"
           /\ UNCHANGED <<uses, cache>> /\ faults' = faults + 1
  <1>1. TypeOK
    BY DEF TypeInv
  <1>2. UNCHANGED <<uses, cache>> /\ faults' = faults + 1
    BY DEF Fail, Abort, RedisSetFails, RedisExpireFails, RedisDeleteFails, Fault, redis
  <1>3. CASE Abort(r)
    BY <1>1, <1>2, <1>3, DoneLocals, DoneTickets DEF Abort
  <1>4. CASE RedisSetFails(r) \/ RedisExpireFails(r)
    BY <1>1, <1>2, <1>4 DEF TypeOK, RedisSetFails, RedisExpireFails, AfterGenerate, Goto,
       OthersKeep, OthersTickets
  <1>5. CASE RedisDeleteFails(r)
    BY <1>1, <1>2, <1>5, GotoLocals, GotoTickets DEF RedisDeleteFails
  <1> QED
    BY <1>3, <1>4, <1>5 DEF Fail

\* A step that leaves a ticket under way, and mints nothing, keeps tokens fresh.
LEMMA FreshKept ==
    ASSUME TypeInv, FreshInv, NEW r \in Requests, OthersTickets(r), pc'[r] # "issue_expire",
           minted \subseteq minted',
           \A t \in Tokens : t \notin minted' \/ (Expiring(t) /\ Expiring(t)')
              => Written(Tokens \ {t})' /\ uses'[t] = 0
    PROVE  FreshInv'
  <1>1. \A q \in Requests : pc'[q] = "issue_expire" =>
           q # r /\ pc[q] = "issue_expire" /\ ticket'[q] = ticket[q]
    BY DEF OthersTickets
  <1>2. \A t \in Tokens : Expiring(t)' => Expiring(t)
    BY <1>1 DEF Expiring
  <1> QED
    BY <1>1, <1>2 DEF FreshInv

LEMMA ProceedTickets ==
    ASSUME TypeInv, NEW r \in Requests, Proceed(r)
    PROVE  OthersTickets(r)
  <1>1. TypeOK
    BY DEF TypeInv
  <1>2. CASE Done(r) \/ (UNCHANGED ticket /\ \E step \in Steps : Goto(r, step))
    BY <1>1, <1>2, DoneTickets, GotoTickets
  <1>3. CASE GenerateOtpSet(r) \/ GenerateOtpExpire(r)
    BY <1>1, <1>3
       DEF GenerateOtpSet, GenerateOtpExpire, AfterGenerate, Goto, OthersTickets, TypeOK
  <1>4. CASE ClockInFindJob(r) \/ ClockInInsert(r) \/ ClockOutSave(r) \/ ClockInViaOtpFind(r)
    BY <1>2, <1>4 DEF ClockInFindJob, ClockInInsert, ClockOutSave, ClockInViaOtpFind, Steps
  <1>5. CASE ValidateGet(r) \/ ValidateDelete(r) \/ ViaOtpSave(r) \/ GetAttendanceOtpCheck(r)
    BY <1>2, <1>5 DEF ValidateGet, ValidateDelete, ViaOtpSave, GetAttendanceOtpCheck, Steps
  <1>6. CASE \/ PurgeExpiredPending(r) \/ InsertPending(r) \/ FindOpenForOtp(r)
             \/ SaveClockOutOtp(r)
    BY <1>2, <1>6
       DEF PurgeExpiredPending, InsertPending, FindOpenForOtp, SaveClockOutOtp, Steps
  <1> QED
    BY <1>3, <1>4, <1>5, <1>6 DEF Proceed

LEMMA FreshStep ==
    ASSUME TypeInv, FreshInv, [Next]_vars PROVE FreshInv'
  <1>1. TypeOK
    BY DEF TypeInv
  <1>2. \A t \in Tokens : t \notin minted \/ Expiring(t) => Written(Tokens \ {t}) /\ uses[t] = 0
    BY DEF FreshInv
  <1>3. ASSUME NEW r \in Requests, Arrive(r) PROVE FreshInv'
    <2>1. OthersTickets(r) /\ UNCHANGED uses
      BY <1>1, <1>3, ArriveTickets
    <2>2. pc'[r] # "issue_expire" /\ UNCHANGED minted
      BY <1>3, ArriveUses
    <2>3. ASSUME NEW t \in Tokens, t \notin minted \/ Expiring(t) PROVE Written(Tokens \ {t})'
      BY <1>2, <1>3, <2>3, ArriveWritten
    <2> QED
      BY <1>2, <2>1, <2>2, <2>3, FreshKept
  <1>4. ASSUME NEW r \in Requests, Proceed(r), ~ GenerateOtpSet(r) PROVE FreshInv'
    <2>1. OthersTickets(r) /\ pc'[r] # "issue_expire" /\ UNCHANGED minted
      BY <1>4, ProceedTickets, ProceedUses
    <2>2. ASSUME NEW t \in Tokens, t \notin minted' \/ (Expiring(t) /\ Expiring(t)')
          PROVE  Written(Tokens \ {t})' /\ uses'[t] = 0
      <3>1. Written(Tokens \ {t}) /\ uses[t] = 0
        BY <1>2, <2>1, <2>2
      <3>2. ASSUME GenerateOtpExpire(r) PROVE ticket[r].token \in Tokens \ {t}
        <4>1. pc[r] = "issue_expire" /\ ticket[r].token \in minted
          BY <3>2 DEF GenerateOtpExpire, FreshInv
        <4>2. CASE t \notin minted'
          BY <1>1, <2>1, <4>1, <4>2 DEF TypeOK
        <4>3. CASE Expiring(t)'
          <5>1. PICK q \in Requests : pc'[q] = "issue_expire" /\ ticket'[q].token = t
            BY <4>3 DEF Expiring
          <5>2. q # r /\ pc[q] = "issue_expire" /\ ticket[q].token = t
            BY <2>1, <5>1 DEF OthersTickets
          <5> QED
            BY <1>1, <4>1, <5>2 DEF FreshInv, TypeOK
        <4> QED
          BY <2>2, <4>2, <4>3
      <3>3. Written(Tokens \ {t})'
        BY <1>4, <3>1, <3>2, ProceedWritten
      <3>4. uses'[t] = 0
        <4>1. CASE ViaOtpSave(r)
          <5>1. HeldToken(r) # t
            BY <3>1, <4>1, NotHeld DEF ViaOtpSave, HasToken
          <5> QED
            BY <1>1, <3>1, <4>1, <5>1 DEF ViaOtpSave, TypeOK
        <4>2. CASE ~ ViaOtpSave(r)
          BY <1>4, <3>1, <4>2, ProceedUses
        <4> QED
          BY <4>1, <4>2
      <3> QED
        BY <3>3, <3>4
    <2> QED
      BY <2>1, <2>2, FreshKept
  <1>5. ASSUME NEW r \in Requests, GenerateOtpSet(r) PROVE FreshInv'
    <2>1. PICK new \in Tokens \ minted :
             minted' = minted \cup {new} /\ ticket' = [ticket EXCEPT ![r].token = new]
      BY <1>5 DEF GenerateOtpSet
    <2>2. UNCHANGED uses /\ ticket'[r].token = new /\ pc'[r] = "issue_expire"
      BY <1>1, <1>5, <2>1 DEF GenerateOtpSet, history, Goto, TypeOK
    <2>3. OthersTickets(r)
      BY <1>5, ProceedTickets DEF Proceed
    <2>4. ~ GenerateOtpExpire(r)
      BY <1>5 DEF GenerateOtpSet, GenerateOtpExpire
    <2>5. ASSUME NEW t \in Tokens, t \notin minted \/ Expiring(t)
          PROVE  Written(Tokens \ {t})' /\ uses'[t] = 0
      BY <1>2, <1>5, <2>2, <2>4, <2>5, ProceedWritten DEF Proceed
    <2>6. ASSUME NEW t \in Tokens, t \notin minted' \/ Expiring(t)'
          PROVE  t \notin minted \/ Expiring(t)
      BY <2>1, <2>2, <2>3, <2>6 DEF Expiring, OthersTickets
    <2>7. \A q \in Requests : pc'[q] = "issue_expire" /\ q # r =>
             /\ pc[q] = "issue_expire" /\ ticket'[q].token = ticket[q].token
             /\ ticket[q].token \in minted /\ ticket[q].token # new
      BY <2>1, <2>3 DEF OthersTickets, FreshInv
    <2>8. \A q, p \in Requests :
             pc'[q] = "issue_expire" /\ pc'[p] = "issue_expire" /\ q # p
                => ticket'[q].token # ticket'[p].token
      BY <2>2, <2>7 DEF FreshInv
    <2>9. \A q \in Requests : pc'[q] = "issue_expire" => ticket'[q].token \in minted'
      BY <2>1, <2>2, <2>7
    <2> QED
      BY <2>5, <2>6, <2>8, <2>9 DEF FreshInv
  <1>6. ASSUME NEW r \in Requests, Fail(r) PROVE FreshInv'
    <2>1. OthersTickets(r) /\ pc'[r] # "issue_expire" /\ UNCHANGED uses
      BY <1>6, FailUses
    <2>2. minted \subseteq minted'
      BY <1>6 DEF Fail, Abort, RedisSetFails, RedisExpireFails, RedisDeleteFails, redis
    <2>3. ASSUME NEW t \in Tokens, t \notin minted' \/ (Expiring(t) /\ Expiring(t)')
          PROVE  Written(Tokens \ {t})' /\ uses'[t] = 0
      <3>1. Written(Tokens \ {t}) /\ uses[t] = 0
        BY <1>2, <2>2, <2>3
      <3>2. t \notin minted' \/ \E q \in Requests \ {r} :
               pc[q] = "issue_expire" /\ ticket[q].token = t
        BY <2>1, <2>3 DEF Expiring, OthersTickets
      <3>3. ASSUME RedisExpireFails(r) PROVE ticket'[r].token \in Tokens \ {t}
        <4>1. /\ pc[r] = "issue_expire" /\ ticket[r].token \in minted /\ minted' = minted
              /\ ticket'[r].token = ticket[r].token
          BY <1>1, <3>3 DEF RedisExpireFails, AfterGenerate, FreshInv, TypeOK, redis
        <4> QED
          BY <1>1, <3>2, <4>1 DEF FreshInv, TypeOK
      <3>4. ASSUME RedisSetFails(r) PROVE ticket'[r].token \in Tokens \ {t}
        <4>1. PICK new \in Tokens \ minted :
                 minted' = minted \cup {new} /\ ticket'[r].token = new
          BY <1>1, <3>4 DEF RedisSetFails, TypeOK
        <4> QED
          BY <3>2, <4>1 DEF FreshInv
      <3>5. Written(Tokens \ {t})'
        BY <1>6, <3>1, <3>3, <3>4, FailWritten
      <3> QED
        BY <2>1, <3>1, <3>5
    <2> QED
      BY <2>1, <2>2, <2>3, FreshKept
  <1>7. CASE DeactivateJobs \/ UpdateJobStale \/ Tick \/ UNCHANGED vars
    <2>1. UNCHANGED <<attendance, minted, pc, held, ticket, uses>>
      BY <1>7 DEF DeactivateJobs, UpdateJobStale, Tick, vars, db, redis, request, history
    <2>2. \A t \in Tokens : /\ Written(Tokens \ {t}) => Written(Tokens \ {t})'
                            /\ Expiring(t)' => Expiring(t)
      BY <2>1 DEF Written, Expiring
    <2> QED
      BY <2>1, <2>2 DEF FreshInv
  <1> QED
    BY <1>3, <1>4, <1>5, <1>6, <1>7 DEF Next

\* The other slots' part of Saving(t) and Deleting(t).
LEMMA UseCounts ==
    ASSUME NEW r \in Requests, OthersKeep(r), NEW t
    PROVE  \E s \in Nat, d \in Nat :
              /\ s + d + 1 <= Cardinality(Requests)
              /\ Cardinality(Saving(t)) = IF r \in Saving(t) THEN s + 1 ELSE s
              /\ Cardinality(Saving(t))' = IF r \in Saving(t)' THEN s + 1 ELSE s
              /\ Cardinality(Deleting(t)) = IF r \in Deleting(t) THEN d + 1 ELSE d
              /\ Cardinality(Deleting(t))' = IF r \in Deleting(t)' THEN d + 1 ELSE d
  <1>1. PICK S \in SUBSET Requests : S = Saving(t) \ {r}
    BY DEF Saving
  <1>2. PICK D \in SUBSET Requests : D = Deleting(t) \ {r}
    BY DEF Deleting
  <1>3. Saving(t)' \ {r} = S /\ Deleting(t)' \ {r} = D
    <2>1. \A q \in Requests \ {r} : pc'[q] = pc[q] /\ HeldToken(q)' = HeldToken(q)
      BY DEF OthersKeep, HeldToken, Type
    <2> QED
      BY <1>1, <1>2, <2>1 DEF Saving, Deleting
  <1>4. /\ IsFiniteSet(S) /\ IsFiniteSet(D)
        /\ Cardinality(S) \in Nat /\ Cardinality(D) \in Nat
    BY FiniteAssumption, FS_Subset, FS_CardinalityType
  <1>5. ASSUME NEW A, NEW B, IsFiniteSet(B), A \ {r} = B
        PROVE  Cardinality(A) = IF r \in A THEN Cardinality(B) + 1 ELSE Cardinality(B)
    <2>1. CASE r \in A
      <3>1. A = B \cup {r} /\ r \notin B
        BY <1>5, <2>1
      <3>2. Cardinality(B \cup {r}) = Cardinality(B) + 1
        BY <1>5, <3>1, FS_AddElement
      <3> QED
        BY <2>1, <3>1, <3>2
    <2>2. CASE r \notin A
      BY <1>5, <2>2
    <2> QED
      BY <2>1, <2>2
  <1>6. Cardinality(S) + Cardinality(D) + 1 <= Cardinality(Requests)
    <2>1. S \cap D = {} /\ r \notin S \cup D
      BY <1>1, <1>2 DEF Saving, Deleting
    <2>2. IsFiniteSet(S \cup D) /\ Cardinality(S \cup D) = Cardinality(S) + Cardinality(D)
      <3>1. /\ IsFiniteSet(S \cup D)
            /\ Cardinality(S \cup D) = Cardinality(S) + Cardinality(D) - Cardinality(S \cap D)
        BY <1>4, FS_Union
      <3>2. Cardinality(S \cap D) = 0
        BY <2>1, FS_EmptySet
      <3> QED
        BY <1>4, <3>1, <3>2
    <2>3. Cardinality(S \cup D \cup {r}) = Cardinality(S) + Cardinality(D) + 1
      BY <1>4, <2>1, <2>2, FS_AddElement
    <2>4. S \cup D \cup {r} \in SUBSET Requests
      OBVIOUS
    <2>5. Cardinality(S \cup D \cup {r}) <= Cardinality(Requests)
      BY <2>4, FiniteAssumption, FS_Subset
    <2> QED
      BY <2>3, <2>5
  <1>7. /\ Cardinality(Saving(t)) =
              IF r \in Saving(t) THEN Cardinality(S) + 1 ELSE Cardinality(S)
        /\ Cardinality(Deleting(t)) =
              IF r \in Deleting(t) THEN Cardinality(D) + 1 ELSE Cardinality(D)
    BY <1>1, <1>2, <1>4, <1>5
  <1>8. /\ Cardinality(Saving(t)') =
              IF r \in Saving(t)' THEN Cardinality(S) + 1 ELSE Cardinality(S)
        /\ Cardinality(Deleting(t)') =
              IF r \in Deleting(t)' THEN Cardinality(D) + 1 ELSE Cardinality(D)
    BY <1>3, <1>4, <1>5
  <1> QED
    BY <1>4, <1>6, <1>7, <1>8

UsesInv == \A t \in Tokens : UsesOK(t)

\* A step that ends where no OTP is being validated brings back no key that may
\* have been used.
LEMMA QuietUses ==
    ASSUME TypeInv, UsesInv, NEW r \in Requests, OthersKeep(r),
           pc'[r] \notin {"validate_del", "validate_save"},
           UNCHANGED uses, faults' \in {faults, faults + 1},
           \A t \in Tokens : cache'[t] # Absent =>
              cache[t] # Absent \/ (Written(Tokens \ {t}) /\ uses[t] = 0)
    PROVE  UsesInv'
  <1> SUFFICES ASSUME NEW t \in Tokens PROVE UsesOK(t)'
    BY DEF UsesInv
  <1>1. /\ uses[t] \in Nat /\ faults \in Nat /\ UsesOK(t) /\ Cardinality(Requests) \in Nat
    BY FiniteAssumption, FS_CardinalityType DEF TypeInv, TypeOK, UsesInv
  <1>2. r \notin Saving(t)' /\ r \notin Deleting(t)'
    BY DEF Saving, Deleting
  <1>3. PICK s \in Nat, d \in Nat :
           /\ s + d + 1 <= Cardinality(Requests)
           /\ Cardinality(Saving(t)) = IF r \in Saving(t) THEN s + 1 ELSE s
           /\ Cardinality(Saving(t))' = s
           /\ Cardinality(Deleting(t)) = IF r \in Deleting(t) THEN d + 1 ELSE d
           /\ Cardinality(Deleting(t))' = d
    BY <1>2, UseCounts
  <1>4. ASSUME Written(Tokens \ {t}) PROVE s = 0
    <2>1. Saving(t) = {}
      BY <1>4, NotHeld DEF Saving, HasToken
    <2>2. Cardinality(Saving(t)) = 0 /\ r \notin Saving(t)
      BY <2>1, FS_EmptySet
    <2> QED
      BY <1>3, <2>2
  <1>5. cache'[t] # Absent => cache[t] # Absent \/ (uses[t] = 0 /\ s = 0)
    BY <1>4
  <1> QED
    BY <1>1, <1>3, <1>5 DEF UsesOK

LEMMA ValidateUses ==
    ASSUME TypeInv, UsesInv, NEW r \in Requests, pc[r] \in HasToken,
           \/ ValidateGet(r) /\ ~ Done(r)
           \/ ValidateDelete(r) \/ ViaOtpSave(r) \/ RedisDeleteFails(r)
    PROVE  UsesInv'
  <1> SUFFICES ASSUME NEW t \in Tokens PROVE UsesOK(t)'
    BY DEF UsesInv
  <1>0. TypeOK /\ HeldToken(r) \in Tokens
    BY DEF TypeInv, RequestInv, RequestOK
  <1>1. /\ uses[t] \in Nat /\ faults \in Nat /\ UsesOK(t) /\ Cardinality(Requests) \in Nat
    BY FiniteAssumption, FS_CardinalityType DEF TypeInv, TypeOK, UsesInv
  <1>2. CASE ValidateGet(r) /\ ~ Done(r)
    <2>1. /\ pc[r] = "validate_get" /\ cache[HeldToken(r)] # Absent
          /\ Goto(r, "validate_del") /\ UNCHANGED <<args, held, uses, cache, faults>>
      BY <1>2 DEF ValidateGet, redis, history
    <2>2. OthersKeep(r) /\ pc'[r] = "validate_del" /\ HeldToken(r)' = HeldToken(r)
      BY <1>0, <2>1, GotoLocals DEF HeldToken, Type
    <2>3. /\ r \notin Saving(t) /\ r \notin Saving(t)' /\ r \notin Deleting(t)
          /\ r \in Deleting(t)' <=> HeldToken(r) = t
      BY <2>1, <2>2 DEF Saving, Deleting
    <2>4. PICK s \in Nat, d \in Nat :
             /\ s + d + 1 <= Cardinality(Requests)
             /\ Cardinality(Saving(t)) = s /\ Cardinality(Saving(t))' = s
             /\ Cardinality(Deleting(t)) = d
             /\ Cardinality(Deleting(t))' = IF HeldToken(r) = t THEN d + 1 ELSE d
      BY <2>2, <2>3, UseCounts
    <2>5. uses'[t] = uses[t] /\ cache'[t] = cache[t] /\ faults' = faults
      BY <2>1
    <2>6. HeldToken(r) = t => uses[t] + s <= faults
      BY <1>1, <2>1, <2>4 DEF UsesOK
    <2> QED
      BY <1>1, <2>4, <2>5, <2>6 DEF UsesOK
  <1>3. CASE ValidateDelete(r) \/ RedisDeleteFails(r)
    <2>1. /\ pc[r] = "validate_del" /\ Goto(r, "validate_save")
          /\ UNCHANGED <<args, held, uses>>
      BY <1>3 DEF ValidateDelete, RedisDeleteFails, history
    <2>2. OthersKeep(r) /\ pc'[r] = "validate_save" /\ HeldToken(r)' = HeldToken(r)
      BY <1>0, <2>1, GotoLocals DEF HeldToken, Type
    <2>3. /\ r \notin Saving(t) /\ r \notin Deleting(t)'
          /\ r \in Saving(t)' <=> HeldToken(r) = t
          /\ r \in Deleting(t) <=> HeldToken(r) = t
      BY <2>1, <2>2 DEF Saving, Deleting
    <2>4. PICK s \in Nat, d \in Nat :
             /\ s + d + 1 <= Cardinality(Requests)
             /\ Cardinality(Saving(t)) = s
             /\ Cardinality(Saving(t))' = IF HeldToken(r) = t THEN s + 1 ELSE s
             /\ Cardinality(Deleting(t)) = IF HeldToken(r) = t THEN d + 1 ELSE d
             /\ Cardinality(Deleting(t))' = d
      BY <2>2, <2>3, UseCounts
    <2>5. \/ faults' = faults /\ cache'[t] = IF HeldToken(r) = t THEN Absent ELSE cache[t]
          \/ faults' = faults + 1 /\ cache'[t] = cache[t]
      BY <1>0, <1>3 DEF ValidateDelete, RedisDeleteFails, Fault, history, redis, TypeOK
    <2>6. uses'[t] = uses[t]
      BY <2>1
    <2> QED
      BY <1>1, <2>4, <2>5, <2>6 DEF UsesOK
  <1>4. CASE ViaOtpSave(r)
    <2>1. /\ pc[r] = "validate_save" /\ Done(r) /\ UNCHANGED <<cache, faults>>
          /\ uses'[t] = IF HeldToken(r) = t THEN uses[t] + 1 ELSE uses[t]
      BY <1>0, <1>4 DEF ViaOtpSave, redis, TypeOK
    <2>2. OthersKeep(r) /\ pc'[r] = "idle"
      BY <1>0, <2>1, DoneLocals
    <2>3. /\ r \in Saving(t) <=> HeldToken(r) = t
          /\ r \notin Saving(t)' /\ r \notin Deleting(t)' /\ r \notin Deleting(t)
      BY <2>1, <2>2 DEF Saving, Deleting
    <2>4. PICK s \in Nat, d \in Nat :
             /\ s + d + 1 <= Cardinality(Requests)
             /\ Cardinality(Saving(t)) = IF HeldToken(r) = t THEN s + 1 ELSE s
             /\ Cardinality(Saving(t))' = s
             /\ Cardinality(Deleting(t)) = d /\ Cardinality(Deleting(t))' = d
      BY <2>2, <2>3, UseCounts
    <2>5. cache'[t] = cache[t] /\ faults' = faults
      BY <2>1
    <2> QED
      BY <1>1, <2>1, <2>4, <2>5 DEF UsesOK
  <1> QED
    BY <1>2, <1>3, <1>4

LEMMA UsesStep ==
    ASSUME TypeInv, FreshInv, UsesInv, [Next]_vars PROVE UsesInv'
  <1>1. TypeOK
    BY DEF TypeInv
  <1>2. ASSUME NEW r \in Requests, Arrive(r) PROVE UsesInv'
    <2>1. UNCHANGED <<cache, uses, faults>> /\ OthersKeep(r)
      BY <1>1, <1>2, ArriveTickets, ArriveUses
    <2>2. pc'[r] \notin {"validate_del", "validate_save"}
      BY <1>2, ArriveUses
    <2> QED
      BY <2>1, <2>2, QuietUses
  <1>3. ASSUME NEW r \in Requests, Proceed(r) PROVE UsesInv'
    <2>0. faults' = faults /\ OthersKeep(r)
      BY <1>3, ProceedEternal, ProceedUses
    <2>1. CASE ValidateDelete(r) \/ ViaOtpSave(r) \/ (ValidateGet(r) /\ ~ Done(r))
      <3>1. pc[r] \in HasToken
        BY <2>1 DEF ValidateDelete, ViaOtpSave, ValidateGet, HasToken
      <3> QED
        BY <2>1, <3>1, ValidateUses
    <2>2. CASE GenerateOtpSet(r)
      <3>1. PICK new \in Tokens \ minted : cache' = [cache EXCEPT ![new] = NoExpiry]
        BY <2>2 DEF GenerateOtpSet
      <3>2. \A t \in Tokens : cache'[t] # Absent =>
               cache[t] # Absent \/ (Written(Tokens \ {t}) /\ uses[t] = 0)
        BY <1>1, <3>1 DEF FreshInv, TypeOK
      <3>3. UNCHANGED uses /\ pc'[r] = "issue_expire"
        BY <1>1, <2>2 DEF GenerateOtpSet, history, Goto, TypeOK
      <3> QED
        BY <2>0, <3>2, <3>3, QuietUses
    <2>3. CASE GenerateOtpExpire(r)
      <3>1. Expiring(ticket[r].token)
        BY <2>3 DEF GenerateOtpExpire, Expiring
      <3>2. \A t \in Tokens : cache'[t] = cache[t] \/ t = ticket[r].token
        BY <1>1, <2>3 DEF GenerateOtpExpire, TypeOK
      <3>3. \A t \in Tokens : cache'[t] # Absent =>
               cache[t] # Absent \/ (Written(Tokens \ {t}) /\ uses[t] = 0)
        BY <3>1, <3>2 DEF FreshInv
      <3>4. UNCHANGED uses /\ pc'[r] \in {"issueIn_purge", "issueOut_find"}
        BY <1>1, <2>3 DEF GenerateOtpExpire, AfterGenerate, history, Goto, TypeOK
      <3> QED
        BY <2>0, <3>3, <3>4, QuietUses
    <2>4. CASE \/ ClockInFindJob(r) \/ ClockInInsert(r) \/ ClockOutSave(r)
               \/ ClockInViaOtpFind(r) \/ (ValidateGet(r) /\ Done(r))
               \/ GetAttendanceOtpCheck(r) \/ PurgeExpiredPending(r) \/ InsertPending(r)
               \/ FindOpenForOtp(r) \/ SaveClockOutOtp(r)
      <3>1. UNCHANGED <<cache, uses>>
        BY <2>4 DEF ClockInFindJob, ClockInInsert, ClockOutSave, ClockInViaOtpFind, ValidateGet,
           GetAttendanceOtpCheck, PurgeExpiredPending, InsertPending, FindOpenForOtp,
           SaveClockOutOtp, redis, history
      <3>2. \/ Done(r)
            \/ \E step \in {"in_insert", "validate_get", "issue_set", "issueIn_insert",
                            "issueOut_save"} : Goto(r, step)
        BY <2>4 DEF ClockInFindJob, ClockInInsert, ClockOutSave, ClockInViaOtpFind,
           GetAttendanceOtpCheck, PurgeExpiredPending, InsertPending, FindOpenForOtp,
           SaveClockOutOtp
      <3>3. pc'[r] \notin {"validate_del", "validate_save"}
        BY <1>1, <3>2 DEF Done, Goto, TypeOK
      <3> QED
        BY <2>0, <3>1, <3>3, QuietUses
    <2> QED
      BY <1>3, <2>1, <2>2, <2>3, <2>4 DEF Proceed
  <1>4. ASSUME NEW r \in Requests, Fail(r) PROVE UsesInv'
    <2>1. CASE RedisDeleteFails(r)
      <3>1. pc[r] \in HasToken
        BY <2>1 DEF RedisDeleteFails, HasToken
      <3> QED
        BY <2>1, <3>1, ValidateUses
    <2>2. CASE ~ RedisDeleteFails(r)
      <3>1. OthersKeep(r) /\ UNCHANGED <<uses, cache>> /\ faults' = faults + 1
        BY <1>4, FailUses
      <3>2. pc'[r] \in {"idle", "issueIn_purge", "issueOut_find"}
        BY <1>1, <1>4, <2>2 DEF Fail, Abort, RedisSetFails, RedisExpireFails, AfterGenerate, Done,
           Goto, TypeOK
      <3> QED
        BY <3>1, <3>2, QuietUses
    <2> QED
      BY <2>1, <2>2
  <1>5. CASE DeactivateJobs \/ UpdateJobStale \/ Tick \/ UNCHANGED vars
    <2>1. UNCHANGED <<pc, args, held, uses, faults>>
      BY <1>5 DEF DeactivateJobs, UpdateJobStale, Tick, vars, request, history
    <2>2. \A t \in Tokens : cache'[t] # Absent => cache[t] # Absent
      BY <1>1, <1>5 DEF DeactivateJobs, UpdateJobStale, Tick, vars, redis, TypeOK, Absent
    <2>3. ASSUME NEW t \in Tokens PROVE UsesOK(t)'
      <3>1. Saving(t)' = Saving(t) /\ Deleting(t)' = Deleting(t)
        BY <2>1 DEF Saving, Deleting, HeldToken, Type
      <3> QED
        BY <2>1, <2>2, <3>1 DEF UsesOK, UsesInv
    <2> QED
      BY <2>3 DEF UsesInv
  <1> QED
    BY <1>2, <1>3, <1>4, <1>5 DEF Next

\* OtpUsesAreBounded: however many requests overlap, and whatever copies they
\* hold, once an OTP was accepted its key is gone for good, up to the deletions
\* that failed, and so only requests that had read the key by then use it again.
THEOREM OtpUsesAreBounded == Spec => []OtpUsesBounded
  <1>1. Init => TypeInv /\ FreshInv /\ UsesInv
    <2> SUFFICES ASSUME Init PROVE FreshInv /\ UsesInv
      BY InitType
    <2>1. FreshInv
      BY DEF Init, FreshInv, Written, HasHeld, HasTicket
    <2>2. ASSUME NEW t \in Tokens PROVE UsesOK(t)
      <3>1. Saving(t) = {} /\ Deleting(t) = {} /\ uses[t] = 0 /\ faults = 0
        BY DEF Init, Saving, Deleting
      <3>2. Cardinality(Saving(t)) = 0 /\ Cardinality(Deleting(t)) = 0
        BY <3>1, FS_EmptySet
      <3>3. Cardinality(Requests) \in Nat
        BY FiniteAssumption, FS_CardinalityType
      <3> QED
        BY <3>1, <3>2, <3>3 DEF UsesOK
    <2> QED
      BY <2>1, <2>2 DEF UsesInv
  <1>2. TypeInv /\ FreshInv /\ UsesInv /\ [Next]_vars => (TypeInv /\ FreshInv /\ UsesInv)'
    BY TypeStep, FreshStep, UsesStep
  <1>3. TypeInv /\ FreshInv /\ UsesInv => OtpUsesBounded
    BY DEF UsesInv, UsesOK, OtpUsesBounded
  <1> QED
    BY <1>1, <1>2, <1>3, PTL DEF Spec

-----------------------------------------------------------------------------
(* The timesheet.  When requests never overlap, the row a request holds is    *)
(* the stored one, still open or pending, and a request that may open a shift *)
(* runs while none is open: SerialInv.  So every write of the table starts a  *)
(* shift, ends an open one, or leaves the timesheet as it is.                 *)

OffDuty(r) ==
    \/ pc[r] \in {"in_job", "in_insert", "otpIn_find"}
    \/ pc[r] \in HasToken /\ args[r].type = "IN"

SerialOK(r) ==
    /\ Holding(r) =>
          /\ attendance[held[r].id] = held[r].row
          /\ held[r].row.job = args[r].job
          /\ held[r].row.clockOut = Null
    /\ OffDuty(r) => OpenRows(args[r].job, args[r].user) = {}
    /\ pc[r] \in HasToken /\ args[r].type = "OUT" => held[r].row.clockIn # Null

TimesInv ==
    /\ now \in 1..MaxTime
    /\ \A id \in Records : attendance[id] # NoRow => attendance[id].clockIn <= now

SerialInv == TimesInv /\ \A r \in Requests : SerialOK(r)

ShiftOf(id) ==
    [id |-> id, job |-> attendance[id].job, userId |-> attendance[id].userId,
     from |-> attendance[id].clockIn, to |-> attendance[id].clockOut]

TimesheetStep == (\E j \in Jobs, u \in Users : Shifts!StartShift(j, u) \/ Shifts!EndShift(j, u))
                 \/ sheet' = sheet

\* Rows that were never clocked in come and go without a trace.
LEMMA SheetSame ==
    ASSUME \A id \in Records : /\ Clocked(id)' <=> Clocked(id)
                               /\ Clocked(id) => ShiftOf(id)' = ShiftOf(id)
    PROVE  sheet' = sheet
  <1>1. sheet = {ShiftOf(id) : id \in {i \in Records : Clocked(i)}}
    BY DEF sheet, ShiftOf, Clocked
  <1>2. sheet' = {ShiftOf(id)' : id \in {i \in Records : Clocked(i)'}}
    BY DEF sheet, ShiftOf, Clocked
  <1> QED
    BY <1>1, <1>2

LEMMA SheetQuiet == ASSUME UNCHANGED attendance PROVE sheet' = sheet
  BY DEF sheet, Clocked

\* The open shifts of the timesheet are the open rows of the table.
LEMMA OpenIs ==
    ASSUME NEW j, NEW u PROVE Shifts!Open(j, u) = {ShiftOf(id) : id \in OpenRows(j, u)}
  BY DEF Shifts!Open, sheet, ShiftOf, OpenRows, RowsOf, Null, Clocked

\* A clock-in under an id that the timesheet does not have.
LEMMA Starts ==
    ASSUME NEW id \in Records, ~ Clocked(id), Clocked(id)',
           \A i \in Records \ {id} : attendance'[i] = attendance[i],
           attendance'[id].job \in Jobs, attendance'[id].userId \in Users,
           attendance'[id].clockIn \in 1..MaxTime, attendance'[id].clockOut = Null,
           OpenRows(attendance'[id].job, attendance'[id].userId) = {}
    PROVE  TimesheetStep
  <1> DEFINE j == attendance'[id].job
             u == attendance'[id].userId
             s == [id |-> id, job |-> j, userId |-> u, from |-> attendance'[id].clockIn, to |-> 0]
  <1>1. s = ShiftOf(id)'
    BY DEF ShiftOf, Null
  <1>2. sheet = {ShiftOf(i) : i \in {k \in Records : Clocked(k)}}
    BY DEF sheet, ShiftOf, Clocked
  <1>3. sheet' = {ShiftOf(i)' : i \in {k \in Records : Clocked(k)'}}
    BY DEF sheet, ShiftOf, Clocked
  <1>4. \A i \in Records \ {id} : /\ Clocked(i)' <=> Clocked(i)
                                  /\ ShiftOf(i)' = ShiftOf(i)
    BY DEF Clocked, ShiftOf
  <1>5. sheet' = sheet \cup {s}
    BY <1>1, <1>2, <1>3, <1>4
  <1>6. \A x \in sheet : x.id # id
    BY <1>2 DEF ShiftOf
  <1>7. Shifts!Open(j, u) = {}
    BY OpenIs
  <1>8. Shifts!StartShift(j, u)
    BY <1>5, <1>6, <1>7 DEF Shifts!StartShift
  <1> QED
    BY <1>8 DEF TimesheetStep

\* A clock-out of an open row.
LEMMA Ends ==
    ASSUME NEW j \in Jobs, NEW u \in Users, NEW id \in OpenRows(j, u),
           \A i \in Records \ {id} : attendance'[i] = attendance[i],
           attendance'[id] # NoRow,
           attendance'[id].job = j, attendance'[id].userId = u,
           attendance'[id].clockIn = attendance[id].clockIn,
           attendance'[id].clockOut \in 1..MaxTime,
           attendance[id].clockIn <= attendance'[id].clockOut
    PROVE  TimesheetStep
  <1> DEFINE t == attendance'[id].clockOut
             s == ShiftOf(id)
  <1>1. id \in Records /\ Clocked(id) /\ Clocked(id)'
    BY DEF OpenRows, RowsOf, Clocked
  <1>2. sheet = {ShiftOf(i) : i \in {k \in Records : Clocked(k)}}
    BY DEF sheet, ShiftOf, Clocked
  <1>3. sheet' = {ShiftOf(i)' : i \in {k \in Records : Clocked(k)'}}
    BY DEF sheet, ShiftOf, Clocked
  <1>4. \A i \in Records \ {id} : /\ Clocked(i)' <=> Clocked(i)
                                  /\ ShiftOf(i)' = ShiftOf(i)
                                  /\ ShiftOf(i) # s
    BY DEF Clocked, ShiftOf
  <1>5. s \in Shifts!Open(j, u) /\ s.from = attendance[id].clockIn
    BY OpenIs DEF ShiftOf
  <1>6. ShiftOf(id)' = [s EXCEPT !.to = t]
    BY DEF ShiftOf, OpenRows, RowsOf
  <1>7. sheet' = (sheet \ {s}) \cup {[s EXCEPT !.to = t]}
    <2> HIDE DEF s, t
    <2>1. s = ShiftOf(id)
      BY DEF s
    <2> QED
      BY <1>1, <1>2, <1>3, <1>4, <1>6, <2>1
  <1>8. Shifts!EndShift(j, u)
    BY <1>5, <1>7 DEF Shifts!EndShift
  <1> QED
    BY <1>8 DEF TimesheetStep

\* A step of the one slot that leaves the table alone.
LEMMA QuietSerial ==
    ASSUME SerialInv, NEW r, Requests = {r}, UNCHANGED <<attendance, now>>, SerialOK(r)'
    PROVE  SerialInv' /\ TimesheetStep
  BY SheetQuiet DEF SerialInv, TimesInv, TimesheetStep

LEMMA EndsSerial ==
    ASSUME SerialInv, NEW r, Requests = {r}, UNCHANGED <<attendance, now>>, pc'[r] = "idle"
    PROVE  SerialInv' /\ TimesheetStep
  <1>1. SerialOK(r)'
    BY DEF SerialOK, Holding, HasHeld, HasToken, OffDuty
  <1> QED
    BY <1>1, QuietSerial

LEMMA MovesSerial ==
    ASSUME TypeInv, SerialInv, NEW r, Requests = {r}, NEW step, Goto(r, step),
           UNCHANGED <<attendance, now, args, held>>,
           step \in HasHeld => Holding(r),
           step \in HasToken => pc[r] \in HasToken,
           step \in {"in_job", "in_insert", "otpIn_find"} => OffDuty(r)
    PROVE  SerialInv' /\ TimesheetStep
  <1>1. pc'[r] = step
    BY GotoLocals DEF TypeInv
  <1>2. /\ Holding(r)' => Holding(r)
        /\ OffDuty(r)' => OffDuty(r)
        /\ pc'[r] \in HasToken => pc[r] \in HasToken
    BY <1>1 DEF Holding, OffDuty
  <1>3. SerialOK(r)'
    BY <1>2 DEF SerialInv, SerialOK, OpenRows, RowsOf
  <1> QED
    BY <1>3, QuietSerial

\* The one slot reads a row.
LEMMA ReadsSerial ==
    ASSUME SerialInv, NEW r, Requests = {r}, UNCHANGED <<attendance, now>>,
           NEW id \in Records, held'[r].id = id, held'[r].row = attendance[id],
           attendance[id].job = args'[r].job, attendance[id].clockOut = Null,
           NEW j, NEW u, j = args'[r].job, u = args'[r].user,
           OffDuty(r)' => OpenRows(j, u) = {},
           args'[r].type = "OUT" /\ pc'[r] \in HasToken => attendance[id].clockIn # Null
    PROVE  SerialInv' /\ TimesheetStep
  <1>1. OpenRows(args[r].job, args[r].user)' = OpenRows(j, u)
    BY DEF OpenRows, RowsOf
  <1>2. SerialOK(r)'
    BY <1>1 DEF SerialOK
  <1> QED
    BY <1>2, QuietSerial

\* The one slot saves the row it holds: nobody changed it since.
LEMMA SavesSerial ==
    ASSUME TypeInv, IdentityInv, SerialInv, NEW r, Requests = {r}, Holding(r),
           NEW row \in Row, row.job = held[r].row.job, row.userId = held[r].row.userId,
           Save(held[r].id, row)
    PROVE  /\ held[r].id \in Records
           /\ attendance[held[r].id] = held[r].row /\ held[r].row \in Row
           /\ held[r].row # NoRow /\ row # NoRow
           /\ attendance'[held[r].id] = row
           /\ \A i \in Records \ {held[r].id} : attendance'[i] = attendance[i]
           /\ row.job \in Jobs /\ row.job = args[r].job
           /\ row.userId \in Users /\ row.userId = args[r].user
           /\ held[r].row.clockOut = Null /\ held[r].row.clockIn <= now
  <1> DEFINE id == held[r].id
  <1>1. /\ held[r] \in Held /\ args[r] \in Args
        /\ attendance[id] = held[r].row /\ held[r].row.job = args[r].job
        /\ held[r].row.clockOut = Null /\ held[r].row.userId = args[r].user
    BY DEF TypeInv, RequestInv, RequestOK, Holding, HasHeld, SerialInv, SerialOK, IdentityInv
  <1>2. id \in Records /\ held[r].row \in Row /\ held[r].row # NoRow /\ row # NoRow
    BY <1>1, RowAssumption DEF Held
  <1>3. attendance' = [attendance EXCEPT ![id] = [row EXCEPT !.job = row.job]]
    BY <1>1, <1>2 DEF Save
  <1>4. [row EXCEPT !.job = row.job] = row
    BY DEF Row
  <1>5. /\ attendance'[id] = row
        /\ \A i \in Records \ {id} : attendance'[i] = attendance[i]
    BY <1>2, <1>3, <1>4 DEF TypeInv, TypeOK
  <1>6. held[r].row.clockIn <= now
    BY <1>1, <1>2 DEF SerialInv, TimesInv
  <1> QED
    BY <1>1, <1>2, <1>5, <1>6 DEF Args

\* A write of one row by a request that ends keeps the clock-ins in the past.
LEMMA WritesSerial ==
    ASSUME SerialInv, NEW r, Requests = {r}, pc'[r] = "idle", now' = now,
           NEW id \in Records, attendance'[id].clockIn <= now,
           \A i \in Records \ {id} : attendance'[i] = attendance[i]
    PROVE  SerialInv'
  <1>1. SerialOK(r)'
    BY DEF SerialOK, Holding, HasHeld, HasToken, OffDuty
  <1> QED
    BY <1>1 DEF SerialInv, TimesInv

\* A save that leaves clockIn and clockOut as they are.
LEMMA SaveSame ==
    ASSUME TypeInv, IdentityInv, SerialInv, NEW r, Requests = {r}, Holding(r),
           pc'[r] = "idle", now' = now,
           NEW row \in Row, row.job = held[r].row.job, row.userId = held[r].row.userId,
           row.clockIn = held[r].row.clockIn,
           row.clockIn # Null => row.clockOut = held[r].row.clockOut,
           Save(held[r].id, row)
    PROVE  SerialInv' /\ TimesheetStep
  <1>1. /\ held[r].id \in Records /\ attendance[held[r].id] = held[r].row
        /\ held[r].row # NoRow /\ row # NoRow
        /\ attendance'[held[r].id] = row /\ held[r].row.clockIn <= now
        /\ \A i \in Records \ {held[r].id} : attendance'[i] = attendance[i]
    BY SavesSerial
  <1>2. SerialInv'
    BY <1>1, WritesSerial
  <1>3. \A i \in Records : Clocked(i)' <=> Clocked(i)
    BY <1>1 DEF Clocked
  <1>4. \A i \in Records : Clocked(i) => ShiftOf(i)' = ShiftOf(i)
    BY <1>1 DEF Clocked, ShiftOf
  <1>5. sheet' = sheet
    BY <1>3, <1>4, SheetSame
  <1> QED
    BY <1>2, <1>5 DEF TimesheetStep

\* A save that sets clockOut to the time of the save.
LEMMA SaveOut ==
    ASSUME TypeInv, IdentityInv, SerialInv, NEW r, Requests = {r}, Holding(r),
           pc'[r] = "idle", now' = now,
           Save(held[r].id, [held[r].row EXCEPT !.clockOut = now])
    PROVE  SerialInv' /\ TimesheetStep
  <1> DEFINE row == [held[r].row EXCEPT !.clockOut = now]
             id == held[r].id
  <1>1. held[r].row \in Row /\ now \in Nat
    BY DEF TypeInv, TypeOK, RequestInv, RequestOK, Holding, Held
  <1>2. /\ row \in Row /\ row.job = held[r].row.job /\ row.userId = held[r].row.userId
        /\ row.clockIn = held[r].row.clockIn /\ row.clockOut = now
    BY <1>1 DEF Row
  <1>3. Save(id, row)
    OBVIOUS
  <1> HIDE DEF row
  <1>4. CASE held[r].row.clockIn = Null
    BY <1>2, <1>3, <1>4, SaveSame
  <1>5. CASE held[r].row.clockIn # Null
    <2>1. /\ id \in Records /\ attendance[id] = held[r].row
          /\ held[r].row # NoRow /\ row # NoRow
          /\ attendance'[id] = row /\ held[r].row.clockIn <= now
          /\ \A i \in Records \ {id} : attendance'[i] = attendance[i]
          /\ row.job \in Jobs /\ row.userId \in Users
          /\ held[r].row.clockOut = Null
      BY <1>2, <1>3, SavesSerial
    <2>2. SerialInv'
      BY <1>2, <2>1, WritesSerial
    <2>3. id \in OpenRows(row.job, row.userId)
      BY <1>2, <1>5, <2>1 DEF OpenRows, RowsOf
    <2>4. now \in 1..MaxTime
      BY DEF SerialInv, TimesInv
    <2>5. TimesheetStep
      BY <1>2, <2>1, <2>3, <2>4, Ends
    <2> QED
      BY <2>2, <2>5
  <1> QED
    BY <1>4, <1>5

\* A save that sets clockIn while the user is off duty.
LEMMA SaveIn ==
    ASSUME TypeInv, IdentityInv, SerialInv, NEW r, Requests = {r}, Holding(r), OffDuty(r),
           pc'[r] = "idle", now' = now,
           Save(held[r].id, [held[r].row EXCEPT !.clockIn = now])
    PROVE  SerialInv' /\ TimesheetStep
  <1> DEFINE row == [held[r].row EXCEPT !.clockIn = now]
             id == held[r].id
  <1>1. held[r].row \in Row /\ now \in 1..MaxTime /\ now \in Nat
    BY DEF TypeInv, TypeOK, RequestInv, RequestOK, Holding, Held, SerialInv, TimesInv
  <1>2. /\ row \in Row /\ row.job = held[r].row.job /\ row.userId = held[r].row.userId
        /\ row.clockIn = now /\ row.clockOut = held[r].row.clockOut
    BY <1>1 DEF Row
  <1>3. Save(id, row)
    OBVIOUS
  <1> HIDE DEF row
  <1>4. /\ id \in Records /\ attendance[id] = held[r].row
        /\ held[r].row # NoRow /\ row # NoRow
        /\ attendance'[id] = row
        /\ \A i \in Records \ {id} : attendance'[i] = attendance[i]
        /\ row.job \in Jobs /\ row.userId \in Users
        /\ row.job = args[r].job /\ row.userId = args[r].user
        /\ held[r].row.clockOut = Null
    BY <1>2, <1>3, SavesSerial
  <1>5. SerialInv'
    BY <1>1, <1>2, <1>4, WritesSerial
  <1>6. OpenRows(row.job, row.userId) = {}
    BY <1>4 DEF SerialInv, SerialOK
  <1>7. TimesheetStep
    <2> PICK i \in Records : i = id
      BY <1>4
    <2>1. attendance'[i] = row /\ attendance[i] = held[r].row
      BY <1>4
    <2>2. ~ Clocked(i)
      BY <1>2, <1>4, <1>6, <2>1 DEF Clocked, OpenRows, RowsOf
    <2>3. Clocked(i)'
      BY <1>1, <1>2, <1>4, <2>1 DEF Clocked, Null
    <2> QED
      BY <1>1, <1>2, <1>4, <1>6, <2>1, <2>2, <2>3, Starts
  <1> QED
    BY <1>5, <1>7

LEMMA ArriveSerial ==
    ASSUME TypeInv, IdentityInv, SerialInv, NEW r, Requests = {r}, Arrive(r)
    PROVE  SerialInv' /\ TimesheetStep
  <1> USE DEF TypeInv
  <1>1. PICK u \in Users, j \in Jobs :
          \/ ClockIn(r, u, j)
          \/ ClockOut(r, u, j)
          \/ ClockInViaOtp(r, u, j)
          \/ ClockOutViaOtp(r, u, j)
          \/ \E type \in {"IN", "OUT"} : GetAttendanceOtp(r, u, j, type)
    BY DEF Arrive
  <1>2. ASSUME NEW step \in {"in_job", "otpIn_find"}, Begin(r, step, u, j, "IN"),
               ~ isUserClockedIn(j, u), UNCHANGED <<attendance, now, held>>
        PROVE  SerialInv' /\ TimesheetStep
    <2>1. pc'[r] = step /\ args'[r] = [user |-> u, job |-> j, type |-> "IN"]
      BY <1>2, BeginLocals
    <2>2. OpenRows(args[r].job, args[r].user)' = OpenRows(j, u)
      BY <1>2, <2>1 DEF OpenRows, RowsOf
    <2>3. SerialOK(r)'
      BY <1>2, <2>1, <2>2 DEF SerialOK, Holding, HasHeld, HasToken, isUserClockedIn
    <2> QED
      BY <1>2, <2>3, QuietSerial
  <1>3. CASE ClockIn(r, u, j)
    BY <1>2, <1>3 DEF ClockIn, db
  <1>4. CASE ClockInViaOtp(r, u, j)
    BY <1>2, <1>4 DEF ClockInViaOtp, db
  <1>5. CASE ClockOut(r, u, j)
    <2>1. PICK id \in Records : /\ Hold(r, id) /\ attendance[id].job = j
                               /\ attendance[id].clockOut = Null
      BY <1>5 DEF ClockOut, ClockOutMatches, RowsOf
    <2>2. Begin(r, "out_save", u, j, "OUT") /\ UNCHANGED <<attendance, now>>
      BY <1>5 DEF ClockOut, db
    <2>3. /\ pc'[r] = "out_save" /\ args'[r] = [user |-> u, job |-> j, type |-> "OUT"]
          /\ held'[r].id = id /\ held'[r].row = attendance[id]
      BY <2>1, <2>2, BeginHoldLocals
    <2>4. ~ OffDuty(r)' /\ pc'[r] \notin HasToken
      BY <2>3 DEF OffDuty, HasToken
    <2> QED
      BY <2>1, <2>2, <2>3, <2>4, ReadsSerial
  <1>6. CASE ClockOutViaOtp(r, u, j)
    <2>1. PICK id \in Records : /\ Hold(r, id) /\ attendance[id].job = j
                               /\ attendance[id].clockOut = Null
                               /\ attendance[id].clockIn # Null
      BY <1>6 DEF ClockOutViaOtp, ClockOutOtpMatches, RowsOf
    <2>2. Begin(r, "validate_get", u, j, "OUT") /\ UNCHANGED <<attendance, now>>
      BY <1>6 DEF ClockOutViaOtp, db
    <2>3. /\ pc'[r] = "validate_get" /\ args'[r] = [user |-> u, job |-> j, type |-> "OUT"]
          /\ held'[r].id = id /\ held'[r].row = attendance[id]
      BY <2>1, <2>2, BeginHoldLocals
    <2>4. ~ OffDuty(r)'
      BY <2>3 DEF OffDuty
    <2> QED
      BY <2>1, <2>2, <2>3, <2>4, ReadsSerial
  <1>7. ASSUME NEW type \in {"IN", "OUT"}, GetAttendanceOtp(r, u, j, type)
        PROVE  SerialInv' /\ TimesheetStep
    <2>1. Begin(r, "issue_check", u, j, type) /\ UNCHANGED <<attendance, now, held>>
      BY <1>7 DEF GetAttendanceOtp, db
    <2>2. pc'[r] = "issue_check"
      BY <2>1, BeginLocals
    <2>3. SerialOK(r)'
      BY <2>2 DEF SerialOK, Holding, HasHeld, HasToken, OffDuty
    <2> QED
      BY <2>1, <2>3, QuietSerial
  <1> QED
    BY <1>1, <1>3, <1>4, <1>5, <1>6, <1>7

\* The two inserts of the one slot, under ids that no row has.
LEMMA InsertSerial ==
    ASSUME TypeInv, IdentityInv, SerialInv, NEW r, Requests = {r}, pc'[r] = "idle", now' = now,
           NEW j \in Jobs, NEW u \in Users,
           NEW row \in Row, row.job = j, row.userId = u, row.clockOut = Null,
           \/ row.clockIn = Null
           \/ row.clockIn = now /\ OpenRows(j, u) = {},
           Insert(row)
    PROVE  SerialInv' /\ TimesheetStep
  <1>1. PICK id \in Records \ usedIds : attendance' = [attendance EXCEPT ![id] = row]
    BY DEF Insert
  <1>2. /\ attendance'[id] = row /\ row # NoRow /\ attendance[id] = NoRow
        /\ \A i \in Records \ {id} : attendance'[i] = attendance[i]
    BY <1>1, RowAssumption DEF TypeInv, TypeOK, IdentityInv
  <1>3. now \in 1..MaxTime /\ now \in Nat /\ row.clockIn <= now
    BY DEF TypeInv, TypeOK, SerialInv, TimesInv, Null
  <1>4. SerialInv'
    BY <1>2, <1>3, WritesSerial
  <1>5. ~ Clocked(id)
    BY <1>2 DEF Clocked
  <1>6. CASE row.clockIn = Null
    <2>1. ~ Clocked(id)'
      BY <1>2, <1>6 DEF Clocked
    <2>2. \A i \in Records : /\ Clocked(i)' <=> Clocked(i)
                             /\ Clocked(i) => ShiftOf(i)' = ShiftOf(i)
      BY <1>2, <1>5, <2>1 DEF Clocked, ShiftOf
    <2> QED
      BY <1>4, <2>2, SheetSame DEF TimesheetStep
  <1>7. CASE row.clockIn # Null
    <2>1. Clocked(id)'
      BY <1>2, <1>7 DEF Clocked
    <2>2. TimesheetStep
      BY <1>2, <1>3, <1>5, <1>7, <2>1, Starts
    <2> QED
      BY <1>4, <2>2
  <1> QED
    BY <1>6, <1>7

LEMMA ProceedSerial ==
    ASSUME TypeInv, IdentityInv, SerialInv, NEW r, Requests = {r}, Proceed(r)
    PROVE  SerialInv' /\ TimesheetStep
  <1>1. TypeOK /\ RequestOK(r) /\ SerialOK(r) /\ r \in Requests
    BY DEF TypeInv, RequestInv, SerialInv
  <1>2. ASSUME Done(r) PROVE pc'[r] = "idle"
    BY <1>1, <1>2, DoneLocals
  <1>3. CASE ClockInFindJob(r)
    <2>1. pc[r] = "in_job" /\ UNCHANGED <<attendance, now>>
      BY <1>3 DEF ClockInFindJob, db
    <2>2. CASE Done(r)
      BY <1>2, <2>1, <2>2, EndsSerial
    <2>3. CASE Goto(r, "in_insert") /\ UNCHANGED <<args, held>>
      BY <2>1, <2>3, MovesSerial DEF HasHeld, HasToken, OffDuty
    <2> QED
      BY <1>3, <2>2, <2>3 DEF ClockInFindJob
  <1>4. CASE ClockInInsert(r)
    <2>1. /\ pc'[r] = "idle" /\ now' = now /\ args[r] \in Args
          /\ OpenRows(Job(r), User(r)) = {}
      BY <1>1, <1>2, <1>4
         DEF ClockInInsert, RequestOK, SerialOK, OffDuty, Job, User
    <2>2. Job(r) \in Jobs /\ User(r) \in Users /\ NewRow(Job(r), User(r)) \in Row
      BY <2>1, NewRowType DEF Args, Job, User
    <2> DEFINE row == [NewRow(Job(r), User(r)) EXCEPT !.clockIn = now]
    <2>3. /\ row \in Row /\ row.job = Job(r) /\ row.userId = User(r)
          /\ row.clockOut = Null /\ row.clockIn = now
      BY <1>1, <2>2 DEF Row, TypeOK, NewRow
    <2>4. Insert(row)
      BY <1>4 DEF ClockInInsert
    <2> HIDE DEF row
    <2> QED
      BY <2>1, <2>2, <2>3, <2>4, InsertSerial
  <1>5. CASE ClockOutSave(r)
    BY <1>2, <1>5, SaveOut DEF ClockOutSave, Holding, HasHeld
  <1>6. CASE ClockInViaOtpFind(r)
    <2>1. pc[r] = "otpIn_find" /\ UNCHANGED <<attendance, now>>
      BY <1>6 DEF ClockInViaOtpFind, db
    <2>2. CASE Done(r)
      BY <1>2, <2>1, <2>2, EndsSerial
    <2>3. CASE ~ Done(r)
      <3>1. /\ Goto(r, "validate_get") /\ UNCHANGED args
            /\ args[r].type = "IN"
        BY <1>1, <1>6, <2>3 DEF ClockInViaOtpFind, RequestOK
      <3>2. PICK id \in Records : /\ Hold(r, id) /\ attendance[id].job = Job(r)
                                 /\ attendance[id].clockOut = Null
        BY <1>6, <2>3 DEF ClockInViaOtpFind, ClockInOtpMatches, RowsOf
      <3>3. /\ pc'[r] = "validate_get" /\ args'[r] = args[r]
            /\ held'[r].id = id /\ held'[r].row = attendance[id]
        BY <1>1, <3>1, <3>2, HoldLocals
      <3>4. OpenRows(args[r].job, args[r].user) = {}
        BY <1>1, <2>1 DEF SerialOK, OffDuty
      <3> QED
        BY <2>1, <3>1, <3>2, <3>3, <3>4, ReadsSerial DEF Job
    <2> QED
      BY <2>2, <2>3
  <1>7. CASE ValidateGet(r)
    <2>1. pc[r] = "validate_get" /\ UNCHANGED <<attendance, now>>
      BY <1>7 DEF ValidateGet, db
    <2>2. CASE Done(r)
      BY <1>2, <2>1, <2>2, EndsSerial
    <2>3. CASE Goto(r, "validate_del") /\ UNCHANGED <<args, held>>
      BY <2>1, <2>3, MovesSerial DEF Holding, HasHeld, HasToken
    <2> QED
      BY <1>7, <2>2, <2>3 DEF ValidateGet
  <1>8. CASE ValidateDelete(r)
    BY <1>8, MovesSerial DEF ValidateDelete, db, Holding, HasHeld, HasToken
  <1>9. CASE ViaOtpSave(r)
    <2>1. pc[r] = "validate_save" /\ pc'[r] = "idle" /\ now' = now
      BY <1>2, <1>9 DEF ViaOtpSave, redis
    <2>2. Holding(r) /\ (Type(r) = "IN" => OffDuty(r))
      BY <2>1 DEF Holding, HasHeld, HasToken, OffDuty, Type
    <2> QED
      BY <1>9, <2>1, <2>2, SaveIn, SaveOut DEF ViaOtpSave
  <1>10. CASE GetAttendanceOtpCheck(r)
    <2>1. UNCHANGED <<attendance, now>>
      BY <1>10 DEF GetAttendanceOtpCheck, db
    <2>2. CASE Done(r)
      BY <1>2, <2>1, <2>2, EndsSerial
    <2>3. CASE Goto(r, "issue_set") /\ UNCHANGED <<args, held>>
      BY <2>1, <2>3, MovesSerial DEF HasHeld, HasToken
    <2> QED
      BY <1>10, <2>2, <2>3 DEF GetAttendanceOtpCheck
  <1>11. CASE GenerateOtpSet(r)
    BY <1>11, MovesSerial DEF GenerateOtpSet, db, HasHeld, HasToken
  <1>12. CASE GenerateOtpExpire(r)
    <2>1. PICK step \in {"issueIn_purge", "issueOut_find"} : Goto(r, step)
      BY <1>12 DEF GenerateOtpExpire, AfterGenerate
    <2> QED
      BY <1>12, <2>1, MovesSerial DEF GenerateOtpExpire, db, HasHeld, HasToken
  <1>13. CASE PurgeExpiredPending(r)
    <2>1. Goto(r, "issueIn_insert") /\ UNCHANGED <<now, args, held>>
      BY <1>13 DEF PurgeExpiredPending
    <2>2. pc'[r] = "issueIn_insert"
      BY <1>1, <2>1, GotoLocals
    <2>3. SerialOK(r)'
      BY <2>2 DEF SerialOK, Holding, HasHeld, HasToken, OffDuty
    <2>4. \A id \in Records : \/ attendance'[id] = attendance[id]
                              \/ attendance'[id] = NoRow /\ attendance[id].clockIn = Null
      BY <1>13 DEF PurgeExpiredPending, ExpiredPending
    <2>5. SerialInv'
      BY <2>1, <2>3, <2>4 DEF SerialInv, TimesInv
    <2>6. sheet' = sheet
      BY <2>4, SheetSame DEF Clocked, ShiftOf
    <2> QED
      BY <2>5, <2>6 DEF TimesheetStep
  <1>14. CASE InsertPending(r)
    <2>1. pc'[r] = "idle" /\ now' = now /\ args[r] \in Args
      BY <1>1, <1>2, <1>14 DEF InsertPending, RequestOK, redis
    <2>2. Job(r) \in Jobs /\ User(r) \in Users /\ NewRow(Job(r), User(r)) \in Row
      BY <2>1, NewRowType DEF Args, Job, User
    <2> DEFINE row == [NewRow(Job(r), User(r)) EXCEPT
                          !.clockInOtp = ticket[r].token,
                          !.clockInOtpExpiresAt = ticket[r].expiresAt]
    <2>3. /\ row \in Row /\ row.job = Job(r) /\ row.userId = User(r)
          /\ row.clockOut = Null /\ row.clockIn = Null
      BY <1>1, <2>2 DEF Row, TypeOK, NewRow
    <2>4. Insert(row)
      BY <1>14 DEF InsertPending
    <2> HIDE DEF row
    <2> QED
      BY <2>1, <2>2, <2>3, <2>4, InsertSerial
  <1>15. CASE FindOpenForOtp(r)
    <2>1. UNCHANGED <<attendance, now>>
      BY <1>15 DEF FindOpenForOtp, db
    <2>2. CASE Done(r)
      BY <1>2, <2>1, <2>2, EndsSerial
    <2>3. CASE ~ Done(r)
      <3>1. Goto(r, "issueOut_save") /\ UNCHANGED args
        BY <1>15, <2>3 DEF FindOpenForOtp
      <3>2. PICK id \in Records : /\ Hold(r, id) /\ attendance[id].job = Job(r)
                                 /\ attendance[id].clockOut = Null
        BY <1>15, <2>3 DEF FindOpenForOtp, OpenRows, RowsOf
      <3>3. /\ pc'[r] = "issueOut_save" /\ args'[r] = args[r]
            /\ held'[r].id = id /\ held'[r].row = attendance[id]
        BY <1>1, <3>1, <3>2, HoldLocals
      <3>4. ~ OffDuty(r)' /\ pc'[r] \notin HasToken
        BY <3>3 DEF OffDuty, HasToken
      <3> QED
        BY <2>1, <3>2, <3>3, <3>4, ReadsSerial DEF Job
    <2> QED
      BY <2>2, <2>3
  <1>16. CASE SaveClockOutOtp(r)
    <2>1. pc'[r] = "idle" /\ now' = now /\ Holding(r)
      BY <1>2, <1>16 DEF SaveClockOutOtp, Holding, HasHeld
    <2> DEFINE row == [held[r].row EXCEPT
                          !.clockOutOtp = ticket[r].token,
                          !.clockOutOtpExpiresAt = ticket[r].expiresAt]
    <2>2. held[r].row \in Row
      BY <1>1, <2>1 DEF RequestOK, Holding, Held
    <2>3. /\ row \in Row /\ row.job = held[r].row.job /\ row.userId = held[r].row.userId
          /\ row.clockIn = held[r].row.clockIn /\ row.clockOut = held[r].row.clockOut
      BY <1>1, <2>2 DEF Row, TypeOK
    <2>4. Save(held[r].id, row)
      BY <1>16 DEF SaveClockOutOtp
    <2> HIDE DEF row
    <2> QED
      BY <2>1, <2>3, <2>4, SaveSame
  <1> QED
    BY <1>3, <1>4, <1>5, <1>6, <1>7, <1>8, <1>9, <1>10, <1>11, <1>12, <1>13, <1>14, <1>15, <1>16
       DEF Proceed

LEMMA FailSerial ==
    ASSUME TypeInv, SerialInv, NEW r, Requests = {r}, Fail(r)
    PROVE  SerialInv' /\ TimesheetStep
  <1>1. CASE Abort(r)
    BY <1>1, DoneLocals, EndsSerial DEF Abort, db, TypeInv
  <1>2. CASE RedisSetFails(r)
    <2>1. PICK step \in {"issueIn_purge", "issueOut_find"} : Goto(r, step)
      BY <1>2 DEF RedisSetFails
    <2> QED
      BY <1>2, <2>1, MovesSerial DEF RedisSetFails, db, HasHeld, HasToken
  <1>3. CASE RedisExpireFails(r)
    <2>1. PICK step \in {"issueIn_purge", "issueOut_find"} : Goto(r, step)
      BY <1>3 DEF RedisExpireFails, AfterGenerate
    <2> QED
      BY <1>3, <2>1, MovesSerial DEF RedisExpireFails, db, HasHeld, HasToken
  <1>4. CASE RedisDeleteFails(r)
    BY <1>4, MovesSerial DEF RedisDeleteFails, db, Holding, HasHeld, HasToken
  <1> QED
    BY <1>1, <1>2, <1>3, <1>4 DEF Fail

\* The environment, and a stuttering step.
LEMMA OutsideSerial ==
    ASSUME TypeInv, SerialInv, UNCHANGED <<attendance, pc, args, held>>,
           now' = now \/ (now < MaxTime /\ now' = now + 1)
    PROVE  SerialInv' /\ TimesheetStep
  <1>1. now' \in 1..MaxTime /\ now <= now' /\ now \in Nat
    BY TimeAssumption DEF SerialInv, TimesInv
  <1>2. ASSUME NEW id \in Records, attendance[id] # NoRow
        PROVE  attendance[id].clockIn <= now'
    <2>1. attendance[id].clockIn \in Nat /\ attendance[id].clockIn <= now
      BY <1>2 DEF TypeInv, TypeOK, Row, SerialInv, TimesInv
    <2> QED
      BY <1>1, <2>1
  <1>3. \A r \in Requests : SerialOK(r)'
    BY DEF SerialInv, SerialOK, Holding, OffDuty, OpenRows, RowsOf
  <1> QED
    BY <1>1, <1>2, <1>3, SheetQuiet DEF SerialInv, TimesInv, TimesheetStep

LEMMA SerialStep ==
    ASSUME TypeInv, IdentityInv, SerialInv, NEW r, Requests = {r}, [Next]_vars
    PROVE  SerialInv' /\ TimesheetStep
  <1>1. CASE Arrive(r) \/ Proceed(r) \/ Fail(r)
    BY <1>1, ArriveSerial, ProceedSerial, FailSerial
  <1>2. CASE DeactivateJobs \/ UpdateJobStale
    BY <1>2, OutsideSerial DEF DeactivateJobs, UpdateJobStale, request
  <1>3. CASE Tick
    BY <1>3, OutsideSerial DEF Tick, db, request
  <1>4. CASE UNCHANGED vars
    BY <1>4, OutsideSerial DEF vars
  <1> QED
    BY <1>1, <1>2, <1>3, <1>4 DEF Next

\* TimesheetWhenSerial: handlers that never overlap implement the timesheet,
\* whatever fails or crashes: a shift starts only when the user is off duty, an
\* end is set once and not before the start, and no shift is lost.
THEOREM TimesheetWhenSerial ==
    ASSUME Cardinality(Requests) = 1
    PROVE  Spec => ImplementsTimesheet
  <1>1. PICK r : Requests = {r}
    BY FiniteAssumption, FS_Singleton
  <1>2. Init => SerialInv /\ Shifts!Init
    BY TimeAssumption DEF Init, SerialInv, TimesInv, SerialOK, Holding, HasHeld, HasToken,
                          OffDuty, Shifts!Init, sheet, Clocked
  <1>3. TypeInv /\ IdentityInv /\ SerialInv /\ [Next]_vars => SerialInv' /\ TimesheetStep
    BY <1>1, SerialStep
  <1>4. TimesheetStep => [Shifts!Next]_sheet
    BY DEF TimesheetStep, Shifts!Next
  <1>5. ShiftInv => TypeInv /\ IdentityInv
    BY DEF ShiftInv
  <1> QED
    BY <1>2, <1>3, <1>4, <1>5, ShiftInvariant, PTL DEF Spec, ImplementsTimesheet, Shifts!Spec

-----------------------------------------------------------------------------
(* What stale copies do.  A copy about to be saved with an OTP, or by a       *)
(* clock-out through an OTP, was clocked in when it was read: HeldInv.        *)

HeldOK(r) ==
    pc[r] = "issueOut_save" \/ (pc[r] \in HasToken /\ args[r].type = "OUT") =>
        held[r].row.clockIn # Null

HeldInv == \A r \in Requests : HeldOK(r)

StaleStep ==
    \A id \in Records :
        /\ Clocked(id) /\ ~ Clocked(id)' =>
              \E r \in Requests : /\ pc[r] = "out_save" /\ held[r].id = id
                                  /\ held[r].row.clockIn = Null
        /\ Closed(id) /\ ~ Closed(id)' /\ attendance'[id] # NoRow =>
              \E r \in Requests : /\ \/ pc[r] = "issueOut_save"
                                     \/ pc[r] = "validate_save" /\ Type(r) = "IN"
                                  /\ held[r].id = id
                                  /\ held[r].row.clockOut = Null
        /\ ~ Orphan(id) /\ Orphan(id)' =>
              /\ attendance[id] = NoRow /\ id \in usedIds
              /\ attendance'[id].clockIn # Null \/ attendance'[id].clockOut # Null

LEMMA HeldKept ==
    ASSUME HeldInv, NEW r \in Requests, OthersKeep(r), HeldOK(r)' PROVE HeldInv'
  BY DEF HeldInv, HeldOK, OthersKeep

LEMMA HeldEnds == ASSUME TypeInv, HeldInv, NEW r \in Requests, Done(r) PROVE HeldInv'
  BY DoneLocals, HeldKept DEF TypeInv, HeldOK, HasToken

LEMMA HeldMoves ==
    ASSUME TypeInv, HeldInv, NEW r \in Requests, NEW step, Goto(r, step), UNCHANGED <<args, held>>,
           step # "issueOut_save", step \in HasToken => pc[r] \in HasToken
    PROVE  HeldInv'
  <1>1. OthersKeep(r) /\ pc'[r] = step
    BY GotoLocals DEF TypeInv
  <1> QED
    BY <1>1, HeldKept DEF HeldInv, HeldOK

LEMMA HeldBegins ==
    ASSUME TypeInv, HeldInv, NEW r \in Requests, NEW step, NEW u, NEW j, NEW type,
           Begin(r, step, u, j, type), UNCHANGED held,
           step \notin HasToken, step # "issueOut_save"
    PROVE  HeldInv'
  <1>1. TypeOK
    BY DEF TypeInv
  <1>2. OthersKeep(r) /\ pc'[r] = step
    BY <1>1, BeginLocals
  <1>3. HeldOK(r)'
    BY <1>2 DEF HeldOK
  <1> QED
    BY <1>2, <1>3, HeldKept

LEMMA StaleQuiet == ASSUME UNCHANGED attendance PROVE StaleStep
  BY DEF StaleStep, Clocked, Closed, Orphan

\* A save by a request that records a clock event, erases a clock-in only if it
\* is a clockOut of a pending copy, and leaves a row open only if it is of an open
\* copy held by one of the OTP handlers.
LEMMA StaleSave ==
    ASSUME TypeInv, IdentityInv, NEW r \in Requests, Holding(r),
           NEW row \in Row, Save(held[r].id, row),
           row.clockIn # Null \/ row.clockOut # Null,
           row.clockIn = Null => pc[r] = "out_save" /\ held[r].row.clockIn = Null,
           row.clockOut = Null =>
              /\ pc[r] = "issueOut_save" \/ (pc[r] = "validate_save" /\ Type(r) = "IN")
              /\ held[r].row.clockOut = Null
    PROVE  StaleStep
  <1> DEFINE id == held[r].id
             job == IF attendance[id] = NoRow THEN NoJob ELSE attendance[id].job
             new == [row EXCEPT !.job = job]
  <1>1. id \in Records /\ id \in usedIds
    BY DEF TypeInv, RequestInv, RequestOK, Holding, Held, IdentityInv
  <1>2. job \in Jobs \cup {NoJob}
    BY <1>1 DEF TypeInv, TypeOK, Row
  <1>3. /\ new \in Row /\ new.job = job
        /\ new.clockIn = row.clockIn /\ new.clockOut = row.clockOut
    BY <1>2 DEF Row
  <1>4. attendance' = [attendance EXCEPT ![id] = new]
    BY DEF Save
  <1>5. job = NoJob => attendance[id] = NoRow \/ Orphan(id)
    BY DEF Orphan
  <1> HIDE DEF new, job
  <1>6. /\ attendance'[id] = new /\ new # NoRow
        /\ \A i \in Records \ {id} : attendance'[i] = attendance[i]
    BY <1>1, <1>3, <1>4, RowAssumption DEF TypeInv, TypeOK
  <1> SUFFICES ASSUME NEW i \in Records
               PROVE  /\ Clocked(i) /\ ~ Clocked(i)' =>
                            \E q \in Requests : /\ pc[q] = "out_save" /\ held[q].id = i
                                                /\ held[q].row.clockIn = Null
                      /\ Closed(i) /\ ~ Closed(i)' /\ attendance'[i] # NoRow =>
                            \E q \in Requests : /\ \/ pc[q] = "issueOut_save"
                                                   \/ pc[q] = "validate_save" /\ Type(q) = "IN"
                                                /\ held[q].id = i
                                                /\ held[q].row.clockOut = Null
                      /\ ~ Orphan(i) /\ Orphan(i)' =>
                            /\ attendance[i] = NoRow /\ i \in usedIds
                            /\ attendance'[i].clockIn # Null \/ attendance'[i].clockOut # Null
    BY DEF StaleStep
  <1>7. CASE i # id
    BY <1>6, <1>7 DEF Clocked, Closed, Orphan
  <1>8. CASE i = id
    <2>1. attendance'[i] = new
      BY <1>6, <1>8
    <2>2. /\ ~ Clocked(i)' => row.clockIn = Null
          /\ ~ Closed(i)' => row.clockOut = Null
      BY <1>3, <1>6, <2>1 DEF Clocked, Closed
    <2>3. Orphan(i)' => job = NoJob
      BY <1>3, <2>1 DEF Orphan
    <2> QED
      BY <1>1, <1>3, <1>5, <1>8, <2>1, <2>2, <2>3
  <1> QED
    BY <1>7, <1>8

LEMMA StaleInsert ==
    ASSUME TypeInv, IdentityInv, NEW row \in Row, row.job \in Jobs, Insert(row) PROVE StaleStep
  <1>1. PICK id \in Records \ usedIds : attendance' = [attendance EXCEPT ![id] = row]
    BY DEF Insert
  <1>2. /\ attendance'[id] = row /\ attendance[id] = NoRow /\ row.job # NoJob
        /\ \A i \in Records \ {id} : attendance'[i] = attendance[i]
    BY <1>1, NullAssumption DEF TypeInv, TypeOK, IdentityInv
  <1> QED
    BY <1>2 DEF StaleStep, Clocked, Closed, Orphan

LEMMA ArriveStale ==
    ASSUME TypeInv, IdentityInv, HeldInv, NEW r \in Requests, Arrive(r)
    PROVE  HeldInv' /\ StaleStep
  <1>0. TypeOK
    BY DEF TypeInv
  <1>1. PICK u \in Users, j \in Jobs :
          \/ ClockIn(r, u, j)
          \/ ClockOut(r, u, j)
          \/ ClockInViaOtp(r, u, j)
          \/ ClockOutViaOtp(r, u, j)
          \/ \E type \in {"IN", "OUT"} : GetAttendanceOtp(r, u, j, type)
    BY DEF Arrive
  <1>2. UNCHANGED attendance
    BY <1>1 DEF ClockIn, ClockOut, ClockInViaOtp, ClockOutViaOtp, GetAttendanceOtp, db
  <1>3. StaleStep
    BY <1>2, StaleQuiet
  <1>4. CASE ClockIn(r, u, j)
    <2>1. Begin(r, "in_job", u, j, "IN") /\ UNCHANGED held
      BY <1>4 DEF ClockIn
    <2> QED
      BY <2>1, <1>3, HeldBegins DEF HasToken
  <1>5. CASE ClockInViaOtp(r, u, j)
    <2>1. Begin(r, "otpIn_find", u, j, "IN") /\ UNCHANGED held
      BY <1>5 DEF ClockInViaOtp
    <2> QED
      BY <2>1, <1>3, HeldBegins DEF HasToken
  <1>6. CASE ClockOut(r, u, j)
    <2>1. PICK id \in Records : Hold(r, id)
      BY <1>6 DEF ClockOut, ClockOutMatches, RowsOf
    <2>2. Begin(r, "out_save", u, j, "OUT")
      BY <1>6 DEF ClockOut
    <2>3. OthersKeep(r) /\ pc'[r] = "out_save"
      BY <1>0, <2>1, <2>2, BeginHoldLocals
    <2>4. HeldOK(r)'
      BY <2>3 DEF HeldOK, HasToken
    <2> QED
      BY <2>3, <2>4, <1>3, HeldKept
  <1>7. CASE ClockOutViaOtp(r, u, j)
    <2>1. PICK id \in Records : attendance[id].clockIn # Null /\ Hold(r, id)
      BY <1>7 DEF ClockOutViaOtp, ClockOutOtpMatches, RowsOf
    <2>2. Hold(r, id)
      BY <2>1
    <2>3. Begin(r, "validate_get", u, j, "OUT")
      BY <1>7 DEF ClockOutViaOtp
    <2>4. OthersKeep(r) /\ pc'[r] = "validate_get"
      BY <1>0, <2>2, <2>3, BeginHoldLocals
    <2>5. held'[r].row = attendance[id]
      BY <1>0, <2>2 DEF Hold, TypeOK
    <2>6. HeldOK(r)'
      BY <2>1, <2>5 DEF HeldOK, Null
    <2> QED
      BY <2>4, <2>6, <1>3, HeldKept
  <1>8. ASSUME NEW type \in {"IN", "OUT"}, GetAttendanceOtp(r, u, j, type) PROVE HeldInv'
    <2>1. Begin(r, "issue_check", u, j, type) /\ UNCHANGED held
      BY <1>8 DEF GetAttendanceOtp
    <2> QED
      BY <2>1, <1>3, HeldBegins DEF HasToken
  <1> QED
    BY <1>1, <1>3, <1>4, <1>5, <1>6, <1>7, <1>8

\* The saves.
LEMMA SaveStale ==
    ASSUME TypeInv, IdentityInv, HeldInv, NEW r \in Requests,
           ClockOutSave(r) \/ ViaOtpSave(r) \/ SaveClockOutOtp(r)
    PROVE  HeldInv' /\ StaleStep
  <1>1. TypeOK /\ RequestOK(r) /\ HeldOK(r) /\ now \in Nat \ {0}
    BY DEF TypeInv, TypeOK, RequestInv, HeldInv
  <1>2. Holding(r) /\ held[r].row \in Row
    BY <1>1 DEF ClockOutSave, ViaOtpSave, SaveClockOutOtp, RequestOK, Holding, HasHeld, Held
  <1>3. HeldInv'
    BY HeldEnds DEF ClockOutSave, ViaOtpSave, SaveClockOutOtp
  <1> DEFINE out == [held[r].row EXCEPT !.clockOut = now]
             in == [held[r].row EXCEPT !.clockIn = now]
             otp == [held[r].row EXCEPT !.clockOutOtp = ticket[r].token,
                                        !.clockOutOtpExpiresAt = ticket[r].expiresAt]
  <1>4. /\ out \in Row /\ out.clockOut # Null /\ out.clockIn = held[r].row.clockIn
        /\ in \in Row /\ in.clockIn # Null /\ in.clockOut = held[r].row.clockOut
        /\ otp \in Row /\ otp.clockIn = held[r].row.clockIn
        /\ otp.clockOut = held[r].row.clockOut
    BY <1>1, <1>2 DEF Row, TypeOK, Null
  <1>5. CASE ClockOutSave(r)
    <2>1. pc[r] = "out_save" /\ Save(held[r].id, out)
      BY <1>5 DEF ClockOutSave
    <2> HIDE DEF out, in, otp
    <2> QED
      BY <1>2, <1>3, <1>4, <2>1, StaleSave
  <1>6. CASE SaveClockOutOtp(r)
    <2>1. pc[r] = "issueOut_save" /\ Save(held[r].id, otp)
      BY <1>6 DEF SaveClockOutOtp
    <2>2. held[r].row.clockIn # Null
      BY <1>1, <2>1 DEF HeldOK
    <2> HIDE DEF out, in, otp
    <2> QED
      BY <1>2, <1>3, <1>4, <2>1, <2>2, StaleSave
  <1>7. CASE ViaOtpSave(r)
    <2>1. /\ pc[r] = "validate_save"
          /\ \/ Type(r) = "IN" /\ Save(held[r].id, in)
             \/ Type(r) = "OUT" /\ Save(held[r].id, out)
      BY <1>7 DEF ViaOtpSave
    <2>2. Type(r) = "OUT" => held[r].row.clockIn # Null
      BY <1>1, <2>1 DEF HeldOK, HasToken, Type
    <2> HIDE DEF out, in, otp
    <2> QED
      BY <1>2, <1>3, <1>4, <2>1, <2>2, StaleSave
  <1> QED
    BY <1>5, <1>6, <1>7

LEMMA ProceedStale ==
    ASSUME TypeInv, IdentityInv, HeldInv, NEW r \in Requests, Proceed(r)
    PROVE  HeldInv' /\ StaleStep
  <1>1. TypeOK /\ RequestOK(r)
    BY DEF TypeInv, RequestInv
  <1>2. CASE ClockOutSave(r) \/ ViaOtpSave(r) \/ SaveClockOutOtp(r)
    BY <1>2, SaveStale
  <1>3. CASE ClockInInsert(r)
    <2>1. args[r] \in Args /\ Done(r)
      BY <1>1, <1>3 DEF ClockInInsert, RequestOK
    <2>2. Job(r) \in Jobs /\ User(r) \in Users /\ NewRow(Job(r), User(r)) \in Row
      BY <2>1, NewRowType DEF Args, Job, User
    <2> DEFINE row == [NewRow(Job(r), User(r)) EXCEPT !.clockIn = now]
    <2>3. row \in Row /\ row.job = Job(r)
      BY <1>1, <2>2 DEF Row, TypeOK, NewRow
    <2>4. Insert(row)
      BY <1>3 DEF ClockInInsert
    <2> HIDE DEF row
    <2> QED
      BY <2>1, <2>2, <2>3, <2>4, StaleInsert, HeldEnds
  <1>4. CASE InsertPending(r)
    <2>1. args[r] \in Args /\ Done(r)
      BY <1>1, <1>4 DEF InsertPending, RequestOK
    <2>2. Job(r) \in Jobs /\ User(r) \in Users /\ NewRow(Job(r), User(r)) \in Row
      BY <2>1, NewRowType DEF Args, Job, User
    <2> DEFINE row == [NewRow(Job(r), User(r)) EXCEPT
                          !.clockInOtp = ticket[r].token,
                          !.clockInOtpExpiresAt = ticket[r].expiresAt]
    <2>3. row \in Row /\ row.job = Job(r)
      BY <1>1, <2>2 DEF Row, TypeOK, NewRow
    <2>4. Insert(row)
      BY <1>4 DEF InsertPending
    <2> HIDE DEF row
    <2> QED
      BY <2>1, <2>2, <2>3, <2>4, StaleInsert, HeldEnds
  <1>5. CASE PurgeExpiredPending(r)
    <2>1. HeldInv'
      BY <1>5, HeldMoves DEF PurgeExpiredPending, HasToken
    <2>2. \A id \in Records : \/ attendance'[id] = attendance[id]
                              \/ attendance'[id] = NoRow /\ attendance[id].clockIn = Null
      BY <1>5 DEF PurgeExpiredPending, ExpiredPending
    <2>3. StaleStep
      BY <2>2 DEF StaleStep, Clocked, Closed, Orphan
    <2> QED
      BY <2>1, <2>3
  <1>6. CASE ClockInViaOtpFind(r)
    <2>1. UNCHANGED attendance /\ pc[r] = "otpIn_find"
      BY <1>6 DEF ClockInViaOtpFind, db
    <2>2. CASE Done(r)
      BY <2>1, <2>2, HeldEnds, StaleQuiet
    <2>3. CASE ~ Done(r)
      <3>1. PICK id \in Records : Hold(r, id)
        BY <1>6, <2>3 DEF ClockInViaOtpFind, ClockInOtpMatches, RowsOf
      <3>2. Goto(r, "validate_get") /\ UNCHANGED args /\ args[r].type = "IN"
        BY <1>1, <1>6, <2>3 DEF ClockInViaOtpFind, RequestOK
      <3>3. OthersKeep(r) /\ pc'[r] = "validate_get" /\ args'[r].type = "IN"
        BY <1>1, <3>1, <3>2, HoldLocals
      <3>4. HeldInv'
        BY <3>3, HeldKept DEF HeldOK
      <3> QED
        BY <2>1, <3>4, StaleQuiet
    <2> QED
      BY <2>2, <2>3
  <1>7. CASE FindOpenForOtp(r)
    <2>1. UNCHANGED attendance
      BY <1>7 DEF FindOpenForOtp, db
    <2>2. CASE Done(r)
      BY <2>1, <2>2, HeldEnds, StaleQuiet
    <2>3. CASE ~ Done(r)
      <3>1. PICK id \in Records : Hold(r, id) /\ attendance[id].clockIn # Null
        BY <1>7, <2>3 DEF FindOpenForOtp, OpenRows, RowsOf
      <3>2. Goto(r, "issueOut_save") /\ UNCHANGED args
        BY <1>7, <2>3 DEF FindOpenForOtp
      <3>3. OthersKeep(r) /\ held'[r].row = attendance[id]
        BY <1>1, <3>1, <3>2, HoldLocals
      <3>4. HeldInv'
        BY <3>1, <3>3, HeldKept DEF HeldOK
      <3> QED
        BY <2>1, <3>4, StaleQuiet
    <2> QED
      BY <2>2, <2>3
  <1>8. CASE ClockInFindJob(r)
    BY <1>8, HeldEnds, HeldMoves, StaleQuiet DEF ClockInFindJob, db, HasToken
  <1>9. CASE ValidateGet(r)
    BY <1>9, HeldEnds, HeldMoves, StaleQuiet DEF ValidateGet, db, HasToken
  <1>10. CASE ValidateDelete(r)
    BY <1>10, HeldMoves, StaleQuiet DEF ValidateDelete, db, HasToken
  <1>11. CASE GetAttendanceOtpCheck(r)
    BY <1>11, HeldEnds, HeldMoves, StaleQuiet DEF GetAttendanceOtpCheck, db, HasToken
  <1>12. CASE GenerateOtpSet(r)
    BY <1>12, HeldMoves, StaleQuiet DEF GenerateOtpSet, db, HasToken
  <1>13. CASE GenerateOtpExpire(r)
    <2>1. PICK step \in {"issueIn_purge", "issueOut_find"} : Goto(r, step)
      BY <1>13 DEF GenerateOtpExpire, AfterGenerate
    <2> QED
      BY <1>13, <2>1, HeldMoves, StaleQuiet DEF GenerateOtpExpire, db, HasToken
  <1> QED
    BY <1>2, <1>3, <1>4, <1>5, <1>6, <1>7, <1>8, <1>9, <1>10, <1>11, <1>12, <1>13 DEF Proceed

LEMMA FailStale ==
    ASSUME TypeInv, HeldInv, NEW r \in Requests, Fail(r) PROVE HeldInv' /\ StaleStep
  <1>1. CASE Abort(r)
    BY <1>1, HeldEnds, StaleQuiet DEF Abort, db
  <1>2. CASE RedisSetFails(r)
    <2>1. PICK step \in {"issueIn_purge", "issueOut_find"} : Goto(r, step)
      BY <1>2 DEF RedisSetFails
    <2> QED
      BY <1>2, <2>1, HeldMoves, StaleQuiet DEF RedisSetFails, db, HasToken
  <1>3. CASE RedisExpireFails(r)
    <2>1. PICK step \in {"issueIn_purge", "issueOut_find"} : Goto(r, step)
      BY <1>3 DEF RedisExpireFails, AfterGenerate
    <2> QED
      BY <1>3, <2>1, HeldMoves, StaleQuiet DEF RedisExpireFails, db, HasToken
  <1>4. CASE RedisDeleteFails(r)
    BY <1>4, HeldMoves, StaleQuiet DEF RedisDeleteFails, db, HasToken
  <1> QED
    BY <1>1, <1>2, <1>3, <1>4 DEF Fail

LEMMA StaleSavesStep ==
    ASSUME TypeInv, IdentityInv, HeldInv, [Next]_vars PROVE HeldInv' /\ StaleStep
  <1>1. ASSUME NEW r \in Requests, Arrive(r) \/ Proceed(r) \/ Fail(r)
        PROVE  HeldInv' /\ StaleStep
    BY <1>1, ArriveStale, ProceedStale, FailStale
  <1>2. CASE DeactivateJobs \/ UpdateJobStale \/ Tick \/ UNCHANGED vars
    <2>1. UNCHANGED <<attendance, pc, args, held>>
      BY <1>2 DEF DeactivateJobs, UpdateJobStale, Tick, vars, db, request
    <2> QED
      BY <2>1, StaleQuiet DEF HeldInv, HeldOK
  <1> QED
    BY <1>1, <1>2 DEF Next

\* StaleSavesBounded: however many requests overlap, a clock-in is erased only by
\* the clockOut of a copy read before it, an ended shift is opened again only by an
\* OTP handler with a copy from before its end, and a row that loses its job had
\* been purged while a request held it and comes back with a clock event.
THEOREM StaleSavesBounded == Spec => StaleSaves
  <1>1. Init => HeldInv
    BY DEF Init, HeldInv, HeldOK, HasToken
  <1>2. TypeInv /\ IdentityInv /\ HeldInv /\ [Next]_vars => HeldInv'
    BY StaleSavesStep
  <1>3. TypeInv /\ IdentityInv /\ HeldInv /\ [Next]_vars => [StaleStep]_vars
    BY StaleSavesStep
  <1>4. ShiftInv => TypeInv /\ IdentityInv
    BY DEF ShiftInv
  <1>5. Spec => [][StaleStep]_vars
    BY <1>1, <1>2, <1>3, <1>4, ShiftInvariant, PTL DEF Spec
  <1> QED
    BY <1>5 DEF StaleSaves, StaleStep
=============================================================================
