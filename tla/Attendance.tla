------------------------------ MODULE Attendance ------------------------------
(***************************************************************************)
(* The attendance service (src/src/attendance/attendance.service.ts) with  *)
(* the OTP service and the Redis cache it runs on.                         *)
(*                                                                         *)
(* Every handler is an async function; the event loop may run any other    *)
(* handler at each of its awaits.  A handler is therefore a chain of       *)
(* actions, one per awaited database or Redis call, and what it read at    *)
(* one await is a local copy at the next.  pc[r] names the call that the   *)
(* request in slot r performs next; "idle" is a slot with no request.      *)
(*                                                                         *)
(* A refusal (400, 401 or 404) changes no state: a handler refused at its  *)
(* first call is a stuttering step and has no action, one refused later    *)
(* ends in Done(r).                                                        *)
(***************************************************************************)
EXTENDS Integers, FiniteSets

CONSTANTS Users,      \* user ids
          Jobs,       \* job ids
          Requests,   \* request slots: how many handlers run at once
          Records,    \* attendance row ids (a bound: ids are never reused)
          Tokens,     \* (otp, secret) pairs (a bound: each is minted once)
          NoJob,      \* a NULL jobId column
          NoRow,      \* no row under this id
          NA,         \* the default of the OTP columns
          OtpLife,    \* 5 minutes, in ticks: expiresAt of a row's OTP
          KeyLife,    \* 6 minutes, in ticks: TTL of its Redis key
          MaxTime,    \* bound on the clock
          MaxFaults   \* bound on failed calls and crashes

ASSUME FiniteAssumption ==
    IsFiniteSet(Requests) /\ IsFiniteSet(Records)

ASSUME NullAssumption ==
    NoJob \notin Jobs /\ NA \notin Tokens

ASSUME LifeAssumption ==
    OtpLife \in Nat \ {0} /\ KeyLife \in Nat \ {0} /\ OtpLife < KeyLife

ASSUME TimeAssumption == MaxTime \in Nat \ {0}

VARIABLES attendance,  \* the table: row id -> row or NoRow
          usedIds,     \* row ids ever inserted
          jobs,        \* the jobs table: "missing", "inactive" or "active"
          cache,       \* Redis: token -> Absent, NoExpiry or when it expires
          minted,      \* tokens generated so far
          now,         \* the clock
          pc,          \* slot -> next call of its request
          args,        \* slot -> user, job and direction of its request
          held,        \* slot -> the row it read and will save, or NoRow
          ticket,      \* slot -> the OTP it is issuing
          uses,        \* history: token -> clock events it was accepted for
          faults       \* history: failed calls and crashes so far

db == <<attendance, usedIds, jobs>>
redis == <<cache, minted>>
request == <<pc, args, held, ticket>>
history == <<uses, faults>>
vars == <<attendance, usedIds, jobs, cache, minted, now,
          pc, args, held, ticket, uses, faults>>

-----------------------------------------------------------------------------
(* Types.  Time 0 is a NULL timestamp column. *)

Null == 0
Absent == -1
NoExpiry == 0

Row == [userId : Users, job : Jobs \cup {NoJob},
        clockIn : Nat, clockOut : Nat,
        clockInOtp : Tokens \cup {NA}, clockInOtpExpiresAt : Nat,
        clockOutOtp : Tokens \cup {NA}, clockOutOtpExpiresAt : Nat]

ASSUME RowAssumption == NoRow \notin Row

Steps == {"idle",
          "in_job", "in_insert",
          "out_save",
          "otpIn_find", "validate_get", "validate_del", "validate_save",
          "issue_check", "issue_set", "issue_expire",
          "issueIn_purge", "issueIn_insert", "issueOut_find", "issueOut_save"}

Args == [user : Users, job : Jobs, type : {"IN", "OUT"}]
NoArgs == [user |-> NA, job |-> NoJob, type |-> "IN"]
Held == [id : Records, row : Row]
NoTicket == [token |-> NA, expiresAt |-> Null]

TypeOK ==
    /\ attendance \in [Records -> Row \cup {NoRow}]
    /\ usedIds \subseteq Records
    /\ jobs \in [Jobs -> {"missing", "inactive", "active"}]
    /\ cache \in [Tokens -> Nat \cup {Absent}]
    /\ minted \subseteq Tokens
    /\ now \in Nat \ {0}
    /\ pc \in [Requests -> Steps]
    /\ args \in [Requests -> Args \cup {NoArgs}]
    /\ held \in [Requests -> Held \cup {NoRow}]
    /\ ticket \in [Requests -> [token : Tokens \cup {NA}, expiresAt : Nat]]
    /\ uses \in [Tokens -> Nat]
    /\ faults \in Nat

-----------------------------------------------------------------------------
(* Queries on the table.  findOne has no ORDER BY: it may return any match. *)

RowsOf(j, u) ==
    {id \in Records : /\ attendance[id] # NoRow
                      /\ attendance[id].job = j
                      /\ attendance[id].userId = u}

OpenRows(j, u) ==
    {id \in RowsOf(j, u) : /\ attendance[id].clockIn # Null
                           /\ attendance[id].clockOut = Null}

isUserClockedIn(j, u) == OpenRows(j, u) # {}

\* clockOut asks for `clockOut: null`, which TypeORM 0.3 leaves out of the
\* WHERE clause: every row of the user for the job matches, closed or not.
ClockOutMatches(j, u) == RowsOf(j, u)

\* The code the user types selects the row; whichever row holds an OTP, some
\* code selects it.  The default 'NA' has a NULL expiry and always is expired.
ClockInOtpMatches(j, u) ==
    {id \in RowsOf(j, u) : /\ attendance[id].clockInOtp # NA
                           /\ attendance[id].clockOut = Null}

ClockOutOtpMatches(j, u) ==
    {id \in RowsOf(j, u) : /\ attendance[id].clockOutOtp # NA
                           /\ attendance[id].clockOut = Null}

\* Mutant: rows that were clocked in are purged too.
ExpiredRows(j, u) ==
    {id \in RowsOf(j, u) : /\ attendance[id].clockInOtpExpiresAt # Null
                           /\ attendance[id].clockInOtpExpiresAt < now}

\* The pending rows the purge deletes: never clocked in, OTP expired.
ExpiredPending(j, u) ==
    {id \in RowsOf(j, u) :
        /\ attendance[id].clockIn = Null
        /\ attendance[id].clockInOtpExpiresAt # Null
        /\ attendance[id].clockInOtpExpiresAt < now}

NewRow(j, u) ==
    [userId |-> u, job |-> j, clockIn |-> Null, clockOut |-> Null,
     clockInOtp |-> NA, clockInOtpExpiresAt |-> Null,
     clockOutOtp |-> NA, clockOutOtpExpiresAt |-> Null]

-----------------------------------------------------------------------------
(* Writes.  save of a loaded entity writes back every column of the copy    *)
(* that differs from the stored row, except the job, which findOne did not  *)
(* load; if the row is gone it is inserted again, with no job.              *)

Insert(row) ==
    \E id \in Records \ usedIds :
        /\ attendance' = [attendance EXCEPT ![id] = row]
        /\ usedIds' = usedIds \cup {id}

Save(id, row) ==
    attendance' = [attendance EXCEPT
        ![id] = [row EXCEPT !.job = IF attendance[id] = NoRow
                                    THEN NoJob ELSE attendance[id].job]]

Goto(r, step) == pc' = [pc EXCEPT ![r] = step]

Begin(r, step, u, j, type) ==
    /\ pc[r] = "idle"
    /\ Goto(r, step)
    /\ args' = [args EXCEPT ![r] = [user |-> u, job |-> j, type |-> type]]

Hold(r, id) ==
    held' = [held EXCEPT ![r] = [id |-> id, row |-> attendance[id]]]

\* The request ends: answered, refused or failed.  Its locals are gone.
Done(r) ==
    /\ Goto(r, "idle")
    /\ args' = [args EXCEPT ![r] = NoArgs]
    /\ held' = [held EXCEPT ![r] = NoRow]
    /\ ticket' = [ticket EXCEPT ![r] = NoTicket]

\* Bounds: a request that may insert a row (mint a token) starts only while
\* there is an unused id (token) for it and for every request in flight.
InFlight == {r \in Requests : pc[r] # "idle"}
RoomForRow == Cardinality(InFlight) < Cardinality(Records \ usedIds)
RoomForToken == Cardinality(InFlight) < Cardinality(Tokens \ minted)

User(r) == args[r].user
Job(r) == args[r].job
Type(r) == args[r].type

-----------------------------------------------------------------------------
(* clockIn *)

\* Mutant: the check for an open shift is dropped.
ClockInUnchecked(r, u, j) ==
    /\ RoomForRow
    /\ Begin(r, "in_job", u, j, "IN")
    /\ UNCHANGED <<db, redis, now, held, ticket, history>>

ClockIn(r, u, j) ==
    /\ RoomForRow
    /\ ~ isUserClockedIn(j, u)
    /\ Begin(r, "in_job", u, j, "IN")
    /\ UNCHANGED <<db, redis, now, held, ticket, history>>

ClockInFindJob(r) ==
    /\ pc[r] = "in_job"
    /\ \/ /\ jobs[Job(r)] = "active"
          /\ Goto(r, "in_insert")
          /\ UNCHANGED <<args, held, ticket>>
       \/ /\ jobs[Job(r)] # "active"
          /\ Done(r)
    /\ UNCHANGED <<db, redis, now, history>>

ClockInInsert(r) ==
    /\ pc[r] = "in_insert"
    /\ Insert([NewRow(Job(r), User(r)) EXCEPT !.clockIn = now])
    /\ Done(r)
    /\ UNCHANGED <<jobs, redis, now, history>>

(* clockOut *)

ClockOut(r, u, j) ==
    /\ \E id \in ClockOutMatches(j, u) :
          /\ attendance[id].clockOut = Null
          /\ Hold(r, id)
    /\ Begin(r, "out_save", u, j, "OUT")
    /\ UNCHANGED <<db, redis, now, ticket, history>>

ClockOutSave(r) ==
    /\ pc[r] = "out_save"
    /\ Save(held[r].id, [held[r].row EXCEPT !.clockOut = now])
    /\ Done(r)
    /\ UNCHANGED <<usedIds, jobs, redis, now, history>>

-----------------------------------------------------------------------------
(* clockInViaOtp and clockOutViaOtp: both validate the OTP of a row they    *)
(* read earlier, with a GET and a DEL of its Redis key, and save that row.  *)

\* Mutant: the check for an open shift is dropped.
ClockInViaOtpUnchecked(r, u, j) ==
    /\ Begin(r, "otpIn_find", u, j, "IN")
    /\ UNCHANGED <<db, redis, now, held, ticket, history>>

ClockInViaOtp(r, u, j) ==
    /\ ~ isUserClockedIn(j, u)
    /\ Begin(r, "otpIn_find", u, j, "IN")
    /\ UNCHANGED <<db, redis, now, held, ticket, history>>

ClockInViaOtpFind(r) ==
    /\ pc[r] = "otpIn_find"
    /\ \/ /\ \E id \in ClockInOtpMatches(Job(r), User(r)) :
                /\ now <= attendance[id].clockInOtpExpiresAt
                /\ Hold(r, id)
          /\ Goto(r, "validate_get")
          /\ UNCHANGED <<args, ticket>>
       \/ Done(r)      \* no such code, or it has expired
    /\ UNCHANGED <<db, redis, now, history>>

ClockOutViaOtp(r, u, j) ==
    /\ \E id \in ClockOutOtpMatches(j, u) :
          /\ now <= attendance[id].clockOutOtpExpiresAt
          /\ attendance[id].clockIn # Null
          /\ Hold(r, id)
    /\ Begin(r, "validate_get", u, j, "OUT")
    /\ UNCHANGED <<db, redis, now, ticket, history>>

\* The token that the row held by r carries for r's direction.
HeldToken(r) == IF Type(r) = "IN" THEN held[r].row.clockInOtp
                                  ELSE held[r].row.clockOutOtp

ValidateGet(r) ==
    /\ pc[r] = "validate_get"
    /\ \/ /\ cache[HeldToken(r)] # Absent
          /\ Goto(r, "validate_del")
          /\ UNCHANGED <<args, held, ticket>>
       \/ /\ cache[HeldToken(r)] = Absent
          /\ Done(r)
    /\ UNCHANGED <<db, redis, now, history>>

\* Mutant: an OTP that was validated keeps its key.
ValidateKeeping(r) ==
    /\ pc[r] = "validate_del"
    /\ Goto(r, "validate_save")
    /\ UNCHANGED <<db, redis, now, args, held, ticket, history>>

ValidateDelete(r) ==
    /\ pc[r] = "validate_del"
    /\ cache' = [cache EXCEPT ![HeldToken(r)] = Absent]
    /\ Goto(r, "validate_save")
    /\ UNCHANGED <<db, minted, now, args, held, ticket, history>>

ViaOtpSave(r) ==
    /\ pc[r] = "validate_save"
    /\ \/ /\ Type(r) = "IN"
          /\ Save(held[r].id, [held[r].row EXCEPT !.clockIn = now])
       \/ /\ Type(r) = "OUT"
          /\ Save(held[r].id, [held[r].row EXCEPT !.clockOut = now])
    /\ uses' = [uses EXCEPT ![HeldToken(r)] = @ + 1]
    /\ Done(r)
    /\ UNCHANGED <<usedIds, jobs, redis, now, faults>>

-----------------------------------------------------------------------------
(* getAttendanceOtp: SET and EXPIRE of the Redis key (generateOtp), then    *)
(* either a new pending row, or the OTP columns of the open one.            *)

GetAttendanceOtp(r, u, j, type) ==
    /\ RoomForRow /\ RoomForToken
    /\ jobs[j] = "active"
    /\ Begin(r, "issue_check", u, j, type)
    /\ UNCHANGED <<db, redis, now, held, ticket, history>>

GetAttendanceOtpCheck(r) ==
    /\ pc[r] = "issue_check"
    /\ \/ /\ isUserClockedIn(Job(r), User(r)) <=> Type(r) = "OUT"
          /\ Goto(r, "issue_set")
          /\ UNCHANGED <<args, held, ticket>>
       \/ /\ isUserClockedIn(Job(r), User(r)) <=> Type(r) = "IN"
          /\ Done(r)
    /\ UNCHANGED <<db, redis, now, history>>

GenerateOtpSet(r) ==
    /\ pc[r] = "issue_set"
    /\ \E t \in Tokens \ minted :
          /\ minted' = minted \cup {t}
          /\ cache' = [cache EXCEPT ![t] = NoExpiry]
          /\ ticket' = [ticket EXCEPT ![r].token = t]
    /\ Goto(r, "issue_expire")
    /\ UNCHANGED <<db, now, args, held, history>>

AfterGenerate(r) ==
    /\ ticket' = [ticket EXCEPT ![r].expiresAt = now + OtpLife]
    /\ Goto(r, IF Type(r) = "IN" THEN "issueIn_purge" ELSE "issueOut_find")

\* Mutant: the key lives no longer than the row's expiry.
GenerateOtpExpireShort(r) ==
    /\ pc[r] = "issue_expire"
    /\ cache' = [cache EXCEPT ![ticket[r].token] = now + OtpLife]
    /\ AfterGenerate(r)
    /\ UNCHANGED <<db, minted, now, args, held, history>>

\* Mutant: set is called without a TTL.
GenerateOtpNoExpire(r) ==
    /\ pc[r] = "issue_expire"
    /\ AfterGenerate(r)
    /\ UNCHANGED <<db, redis, now, args, held, history>>

GenerateOtpExpire(r) ==
    /\ pc[r] = "issue_expire"
    /\ cache' = [cache EXCEPT ![ticket[r].token] = now + KeyLife]
    /\ AfterGenerate(r)
    /\ UNCHANGED <<db, minted, now, args, held, history>>

PurgeExpiredPending(r) ==
    /\ pc[r] = "issueIn_purge"
    /\ attendance' = [id \in Records |-> IF id \in ExpiredPending(Job(r), User(r))
                                         THEN NoRow ELSE attendance[id]]
    /\ Goto(r, "issueIn_insert")
    /\ UNCHANGED <<usedIds, jobs, redis, now, args, held, ticket, history>>

InsertPending(r) ==
    /\ pc[r] = "issueIn_insert"
    /\ Insert([NewRow(Job(r), User(r)) EXCEPT
                  !.clockInOtp = ticket[r].token,
                  !.clockInOtpExpiresAt = ticket[r].expiresAt])
    /\ Done(r)
    /\ UNCHANGED <<jobs, redis, now, history>>

\* Mutant: "No active clock-in found" is not checked.
FindOpenUnchecked(r) ==
    /\ pc[r] = "issueOut_find"
    /\ \E id \in Records : Hold(r, id)
    /\ Goto(r, "issueOut_save")
    /\ UNCHANGED <<db, redis, now, args, ticket, history>>

FindOpenForOtp(r) ==
    /\ pc[r] = "issueOut_find"
    /\ \/ /\ \E id \in OpenRows(Job(r), User(r)) : Hold(r, id)
          /\ Goto(r, "issueOut_save")
          /\ UNCHANGED <<args, ticket>>
       \/ /\ ~ isUserClockedIn(Job(r), User(r))
          /\ Done(r)
    /\ UNCHANGED <<db, redis, now, history>>

SaveClockOutOtp(r) ==
    /\ pc[r] = "issueOut_save"
    /\ Save(held[r].id, [held[r].row EXCEPT
                            !.clockOutOtp = ticket[r].token,
                            !.clockOutOtpExpiresAt = ticket[r].expiresAt])
    /\ Done(r)
    /\ UNCHANGED <<usedIds, jobs, redis, now, history>>

-----------------------------------------------------------------------------
(* The environment: job updates, the clock with Redis expiry, failures *)

\* The cron job deactivates jobs past their closing date.
DeactivateJobs ==
    /\ \E expired \in SUBSET {j \in Jobs : jobs[j] = "active"} :
          /\ expired # {}
          /\ jobs' = [j \in Jobs |-> IF j \in expired THEN "inactive" ELSE jobs[j]]
    /\ UNCHANGED <<attendance, usedIds, redis, now, request, history>>

\* updateJob saves a job it read before the cron job ran: it is active again.
UpdateJobStale ==
    /\ \E j \in Jobs : /\ jobs[j] = "inactive"
                       /\ jobs' = [jobs EXCEPT ![j] = "active"]
    /\ UNCHANGED <<attendance, usedIds, redis, now, request, history>>

Tick ==
    /\ now < MaxTime
    /\ now' = now + 1
    /\ cache' = [t \in Tokens |-> IF cache[t] # NoExpiry /\ cache[t] <= now'
                                  THEN Absent ELSE cache[t]]
    /\ UNCHANGED <<db, minted, request, history>>

Fault ==
    /\ faults < MaxFaults
    /\ faults' = faults + 1

\* A database call fails, the unique constraint rejects a save, a Redis GET
\* fails (it reads null and the OTP is refused), or the process dies.
Abort(r) ==
    /\ Fault
    /\ pc[r] # "idle"
    /\ Done(r)
    /\ UNCHANGED <<db, redis, now, uses>>

\* The cache service logs a failed Redis call and returns as if it had
\* worked.  A failed SET skips the EXPIRE of the same try block.
RedisSetFails(r) ==
    /\ Fault
    /\ pc[r] = "issue_set"
    /\ \E t \in Tokens \ minted :
          /\ minted' = minted \cup {t}
          /\ ticket' = [ticket EXCEPT ![r] =
                           [token |-> t, expiresAt |-> now + OtpLife]]
    /\ Goto(r, IF Type(r) = "IN" THEN "issueIn_purge" ELSE "issueOut_find")
    /\ UNCHANGED <<db, cache, now, args, held, uses>>

RedisExpireFails(r) ==
    /\ Fault
    /\ pc[r] = "issue_expire"
    /\ AfterGenerate(r)
    /\ UNCHANGED <<db, redis, now, args, held, uses>>

RedisDeleteFails(r) ==
    /\ Fault
    /\ pc[r] = "validate_del"
    /\ Goto(r, "validate_save")
    /\ UNCHANGED <<db, redis, now, args, held, ticket, uses>>

-----------------------------------------------------------------------------
Init ==
    /\ attendance = [id \in Records |-> NoRow]
    /\ usedIds = {}
    /\ jobs \in [Jobs -> {"missing", "active"}]
    /\ cache = [t \in Tokens |-> Absent]
    /\ minted = {}
    /\ now = 1
    /\ pc = [r \in Requests |-> "idle"]
    /\ args = [r \in Requests |-> NoArgs]
    /\ held = [r \in Requests |-> NoRow]
    /\ ticket = [r \in Requests |-> NoTicket]
    /\ uses = [t \in Tokens |-> 0]
    /\ faults = 0

\* A new request arrives in slot r.
Arrive(r) ==
    \E u \in Users, j \in Jobs :
        \/ ClockIn(r, u, j)
        \/ ClockOut(r, u, j)
        \/ ClockInViaOtp(r, u, j)
        \/ ClockOutViaOtp(r, u, j)
        \/ \E type \in {"IN", "OUT"} : GetAttendanceOtp(r, u, j, type)

\* The request in slot r performs its next call.
Proceed(r) ==
    \/ ClockInFindJob(r)
    \/ ClockInInsert(r)
    \/ ClockOutSave(r)
    \/ ClockInViaOtpFind(r)
    \/ ValidateGet(r)
    \/ ValidateDelete(r)
    \/ ViaOtpSave(r)
    \/ GetAttendanceOtpCheck(r)
    \/ GenerateOtpSet(r)
    \/ GenerateOtpExpire(r)
    \/ PurgeExpiredPending(r)
    \/ InsertPending(r)
    \/ FindOpenForOtp(r)
    \/ SaveClockOutOtp(r)

Fail(r) ==
    \/ Abort(r)
    \/ RedisSetFails(r)
    \/ RedisExpireFails(r)
    \/ RedisDeleteFails(r)

Next ==
    \/ \E r \in Requests : Arrive(r) \/ Proceed(r) \/ Fail(r)
    \/ DeactivateJobs
    \/ UpdateJobStale
    \/ Tick

Spec == Init /\ [][Next]_vars

-----------------------------------------------------------------------------
(* Properties *)

\* Rows that are, or can be made, an open shift of u for j again by a save of
\* an open copy: getAttendanceOtp saves the row it read, open, with its OTP.
HeldOpen(j, u) ==
    {held[r].id : r \in {q \in Requests : /\ pc[q] = "issueOut_save"
                                          /\ args[q].job = j
                                          /\ args[q].user = u}}

\* Requests that saw the user off duty and may still open a shift.
Opening(j, u) ==
    {r \in Requests : /\ \/ pc[r] \in {"in_job", "in_insert", "otpIn_find"}
                         \/ /\ pc[r] \in {"validate_get", "validate_del", "validate_save"}
                            /\ args[r].type = "IN"
                      /\ args[r].job = j
                      /\ args[r].user = u}

\* OpenBounded: the "already clocked in" check and the insert of clockIn (and
\* the find and save of the OTP handlers) are separate calls, so the table can
\* hold several open shifts of one user for one job, but never more than the
\* number of requests that run at once: one, if requests never overlap.
OpenBounded ==
    \A u \in Users, j \in Jobs :
        Cardinality(OpenRows(j, u)) <= Cardinality(Requests)

\* AtMostOneOpen: "You are already clocked in" (attendance.service.ts:32): a
\* user has one open shift on a job.
AtMostOneOpen ==
    \A u \in Users, j \in Jobs : Cardinality(OpenRows(j, u)) <= 1

\* ClockOutFindsOpenShift: "You have already clocked out" (line 67) is for a
\* user with no open shift: while one is open, it is what clockOut finds.
ClockOutFindsOpenShift ==
    \A u \in Users, j \in Jobs :
        isUserClockedIn(j, u) => ClockOutMatches(j, u) \subseteq OpenRows(j, u)

\* OpenInv: the inductive form: whatever is open or can still be opened.
OpenInv ==
    \A u \in Users, j \in Jobs :
        Cardinality(OpenRows(j, u) \cup HeldOpen(j, u)) + Cardinality(Opening(j, u))
            <= Cardinality(Requests)

\* Requests that the key of t let through and that have not deleted it, or not
\* saved their clock event, yet.
Deleting(t) == {r \in Requests : pc[r] = "validate_del" /\ HeldToken(r) = t}
Saving(t) == {r \in Requests : pc[r] = "validate_save" /\ HeldToken(r) = t}

\* OtpUsesBounded: an OTP is for one clock event, but its GET and DEL are two
\* commands: requests that get the key before the first of them deletes it are
\* all let through.  No other is: once an event was accepted, or is about to be,
\* the key is gone, up to the deletions that failed.
OtpUsesBounded ==
    \A t \in Tokens :
        /\ uses[t] + Cardinality(Saving(t)) + Cardinality(Deleting(t))
              <= Cardinality(Requests) + faults
        /\ cache[t] # Absent => uses[t] + Cardinality(Saving(t)) <= faults

\* What vouches for an OTP: its key, its use, or a request about to use it.
KeyFor(t) == \/ cache[t] # Absent
             \/ uses[t] > 0
             \/ \E r \in Requests : pc[r] = "validate_save" /\ HeldToken(r) = t

\* The OTPs that some row still calls valid.
Valid(t) ==
    \E id \in Records :
        /\ attendance[id] # NoRow
        /\ \/ attendance[id].clockInOtp = t /\ now <= attendance[id].clockInOtpExpiresAt
           \/ attendance[id].clockOutOtp = t /\ now <= attendance[id].clockOutOtpExpiresAt

\* ValidOtpIsAccepted: an OTP that a row still calls valid was used, or its key
\* is in Redis: the key outlives the row's expiry (360 s against 300 s), and
\* only a use removes it earlier.  Validating deletes the key before the row is
\* saved, and a failed SET is swallowed: each failure burns at most one OTP.
ValidOtpIsAccepted ==
    Cardinality({t \in Tokens : Valid(t) /\ ~ KeyFor(t)}) <= faults

\* NoEternalKey: SET and EXPIRE are two commands; a key without a TTL belongs
\* to a request about to send the EXPIRE, or to a failure in between.
NoEternalKey ==
    Cardinality({t \in Tokens :
        /\ cache[t] = NoExpiry
        /\ ~ \E r \in Requests : pc[r] = "issue_expire" /\ ticket[r].token = t})
    <= faults

Clocked(id) == attendance[id] # NoRow /\ attendance[id].clockIn # Null
Orphan(id) == attendance[id] # NoRow /\ attendance[id].job = NoJob

Closed(id) == attendance[id] # NoRow /\ attendance[id].clockOut # Null

\* StaleSaves: handlers save whole rows they read earlier.  A clock-in is erased
\* only by a clockOut whose copy is from before it; an ended shift is opened
\* again only by the OTP handlers, with a copy from before its end; a row loses
\* its job only if the purge deleted it while a request held it, and then the
\* save that brings it back records a clock event.
StaleSaves ==
    [][\A id \in Records :
          /\ Clocked(id) /\ ~ Clocked(id)' =>
                \E r \in Requests : /\ pc[r] = "out_save" /\ held[r].id = id
                                    /\ held[r].row.clockIn = Null
          /\ Closed(id) /\ ~ Closed(id)' /\ attendance'[id] # NoRow =>
                \E r \in Requests : /\ \/ pc[r] = "issueOut_save"
                                       \/ pc[r] = "validate_save" /\ Type(r) = "IN"
                                    /\ held[r].id = id
                                    /\ held[r].row.clockOut = Null
          /\ ~ Orphan(id) /\ Orphan(id)' =>
                /\ attendance[id] = NoRow /\ id \in usedIds
                /\ attendance'[id].clockIn # Null \/ attendance'[id].clockOut # Null]_vars

\* The shifts the table records: the rows with a clock-in.
sheet ==
    {[id |-> id, job |-> attendance[id].job, userId |-> attendance[id].userId,
      from |-> attendance[id].clockIn, to |-> attendance[id].clockOut] :
        id \in {i \in Records : Clocked(i)}}

Shifts == INSTANCE Timesheet WITH ShiftIds <- Records, Times <- 1..MaxTime

\* ImplementsTimesheet: when requests do not overlap, the handlers implement
\* the timesheet: no second open shift, no ended shift changed or erased, no
\* shift that ends before it starts.
ImplementsTimesheet == Shifts!Spec
=============================================================================
