# Verification of the fastr backend

fastr is a NestJS service: students find jobs of businesses, apply, clock in and
out of shifts, are invoiced and rated. State lives in PostgreSQL (TypeORM
0.3.22), short-lived state in Redis, queues in Bull, payments at Stripe, audit
logs in MongoDB. In production the process forks one worker per CPU
(`config/system/cluster.ts`), each a Node event loop; there are no transactions
or locks outside the seed, so two requests interleave at every `await` of a
database, Redis, Stripe or mail call, in one worker or in several. That is the
subject of this project: what the handlers guarantee when they overlap, fail
half-way, are retried, or act on a row they read earlier.

Paths below are relative to `src/` of the repository (`src/...` there is the
directory of the modules).

## Inventory

| component | state | operations | works with | what makes it correct |
|---|---|---|---|---|
| attendance `src/attendance` | rows (job, user, clockIn, clockOut, an OTP and its expiry for each direction) | clockIn, clockOut, clockInViaOtp, clockOutViaOtp, getAttendanceOtp | job table, OTP service | one open shift per user and job; ended shifts stay ended; an OTP the row calls valid is honoured |
| OTP `src/otp` | Redis key per (otp, secret) | generateOtp, validateOtp | cache, login, attendance | accepted once; expires |
| cache `src/cache`, `src/redis` | Redis keys | set+expire, get, delete, deleteByPattern; errors are logged and swallowed | all | a key meant to expire does |
| payment `src/payment` | invoices; Stripe sessions and intents | createInvoice (bulk, async), payInvoice (bulk), createCheckoutSession, webhook | Stripe, mail, Bull | settled only after a payment, and for good; charged once; a payment that went through settles |
| job `src/job` | job rows, cached listings | create, update, status, delete, list; nightly deactivation | mail, cache, attendance | a listing is not older than its TTL; an expired job stays inactive |
| application `src/application` | applications, cached listings | apply, updateStatus, lists | job, cache, mail | one application per student and job; status not lost |
| auth `src/auth` | users, roles, privileges; refresh keys, reset keys, login codes | sign-up, confirm, resend, login (one and two factors), refresh, logout, forgot/reset password, assignPrivilege | OTP, cache, mail | no save takes back what another saved; a link and a code work once and die; a refresh token logged out is refused; a role gets the privileges it was assigned |
| guards `src/auth/guards` | none | role and privilege checks on the loaded user | auth | access only with every required privilege |
| rating `src/rating` | ratings, cached averages (300 s) | createRating, averages | cache | a cached average that lacks a rating goes |
| profile, business, admin | profiles, businesses, account status | update profile and permit, create/update business, verify | user saves that cascade | no update or approval lost; no business without a member |
| notification `src/notification` | Bull queue | sendNotification, push processor | mail, SMS, push, audit | a queued push is sent or reported failed |
| payment queue `src/payment/processors` | Bull queue | createBulkInvoicesAsync, processor | payment | a started bulk creation happens |
| upload | none | upload with retry | Cloudinary | bounded retries |
| cluster, main, seed | workers; roles and privileges | fork, seed, listen, exit | OS, auth tables | every process seeds, none dies of it; somebody serves |
| pagination `common/utils/pagination.ts` | none | page arithmetic | listings | the pages reach every item |
| request context, subscriber, analytics, audit, email, configuration | little or none | | | |

Hard behaviours, each listed with its line in `PROJECT.json` under `hazards`:
check-then-act across awaits (attendance, payment, application, business);
saves of stale copies (TypeORM's `save` writes back every column of the copy
that differs from the row now); cache fills that race with invalidation; mail
failures between a database write and a cache invalidation; SET and EXPIRE as
two commands; duplicate, failed and dropped Stripe deliveries; queues without a
consumer; an unawaited `forEach(async ...)` (assignPrivilege); workers that die.

Four facts about TypeORM the models rest on: `where: { col: null }` is ignored;
`findOne` without an order may return any match; `save` of a row that was deleted
inserts it again (without relations that were not loaded); a UNIQUE constraint
treats NULLs as distinct.

## Modules

| module | models |
|---|---|
| `Attendance` | attendance service, OTP service and Redis as it uses them |
| `Timesheet` | what attendance promises: the abstract specification |
| `Payments` | invoices, checkout sessions, payment intents, webhook, Stripe's deliveries |
| `InvoiceLedger` | what the payment service promises: the abstract specification |
| `Accounts` | sign-up, confirmation, resend, forgot and reset password, verifyStudent |
| `Sessions` | login with a code and without, refresh, logout |
| `JobBoard` | jobs, their cached listing, the nightly cron |
| `Pagination` | page arithmetic, used by `JobBoard` |
| `Hiring` | applications, ratings, and their caches |
| `Organisations` | profiles, businesses, and the saves of users that cascade to profiles |
| `Platform` | the start of a cluster with its seed, assignPrivilege, createBulkInvoices |
| `MC...` | the instance of each for TLC: sets of values, symmetry |
| `...Proofs` | theorems about `Attendance`, `Payments`, `Accounts`, `Sessions`, `JobBoard`, `Hiring`, `Organisations`, `Platform` |

`JobBoard` composes the job service with the cron that writes the same rows and
with the pages of `Pagination`; `Organisations` composes three services that write
one profile; `Platform` composes the processes with requests that run in them and
die with them. `Attendance` has the cron and the OTP service inside. Modules
share no variables otherwise: what one service reads of another's table (attendance
a job's activity, Hiring a job's existence) is a nondeterministic input there.

Conventions shared by all:

* A *slot* (`Requests`) is a running handler. `pc[r]` names the next awaited call;
  each action performs one call and the code up to the next. The first call of a
  handler is the action that admits it.
* A refusal changes nothing. At the first call it is a stutter, so it has no
  action; later it ends in `Done(r)`, which also stands for the answer.
* `Abort(r)` is a call that throws, or a crash between any two calls: the handler
  vanishes with its locals and what it wrote stays. `LoseCall(r)` is a Redis call
  whose error `CacheService` logs and swallows: the handler goes on without it.
* A save writes the columns in which the copy differs from the row, hence the
  whole copy.
* History variables (marked so where they are declared) serve the properties; no guard
  reads one, except that counters are compared with the bound that caps them
  (`faults` with `MaxFaults`, `begun` with `MaxRequests`, ...). Those named `overlap`
  (or `mixed`) hold the rows of which two handlers held copies at the same time. A lost update is the ordinary outcome of
  such an overlap in this code, so the properties about whole-row saves promise
  nothing for those rows, and everything for the others.
* Operators marked "Mutant:" are wrong variants of an action: replacing the action
  by one must make a property fail. They are in no next-state relation.

### Attendance

State: `attendance` (the table), `usedIds`, `jobs` (missing, inactive, active),
`cache` (Redis: token to expiry time), `minted`, `now`; per slot `pc`, `args`,
`held` (the row read, to be saved) and `ticket` (the OTP being issued).

* clockIn: `ClockIn`, `ClockInFindJob`, `ClockInInsert`.
* clockOut: `ClockOut`, `ClockOutSave`.
* OTP clock-in and clock-out: `ClockInViaOtp`, `ClockInViaOtpFind` or
  `ClockOutViaOtp`; then `ValidateGet`, `ValidateDelete`, `ViaOtpSave`.
* getAttendanceOtp: `GetAttendanceOtp`, `GetAttendanceOtpCheck`, `GenerateOtpSet`,
  `GenerateOtpExpire`, then `PurgeExpiredPending`, `InsertPending` or
  `FindOpenForOtp`, `SaveClockOutOtp`.
* Around it: `DeactivateJobs` (cron), `UpdateJobStale` (an update that saves a job
  read before the cron ran), `Tick`, failures of database and Redis.

A token stands for the pair of an OTP and its 32-character secret; two pairs are
never equal. That two rows of one user may carry the same six digits is not modelled.
Time is in ticks: the row's OTP lives `OtpLife` (300 s), its key `KeyLife` (360 s),
only their order matters. A job's closing date is abstracted: the cron may
deactivate any active job.

### Payments

State: `invoices`, `sessions` and `unacked` (Stripe), `intents`, and per slot `pc`,
`payer`, `todo` (the rest of a bulk payment) and `event`.

* createInvoice: `CreateInvoice`. createCheckoutSession: `CreateCheckoutSession`,
  `SessionsCreate`.
* payInvoice and payBulkInvoices: `PayInvoices`, `PayFind`, `IntentsCreate`,
  `NextPayment`. After the intent is created the code reads `salary-payment.html`
  from its own directory, where it is not (it is under `common/templates/html`),
  so the call always fails there.
* Webhook: `Deliver` or `DeliverAgain` (`HandleWebhook`: of the events, one for each
  session that is paid or has expired, only that of a paid one goes on), then
  `MarkFind`, `MarkSave`; `RejectSignature` when verification fails. Stripe:
  `PaySession`, `ExpireSession`.

`paidAt` counts the dates written, so a second save is a change a property could
see. Client secrets of intents reach nobody (the call that returns them fails),
so only sessions are paid.

### Accounts

State: `users` (a row, whose password is the original or one set by a reset, and
whether it is verified), `links` (Redis: reset token per user, with or without a
time to live), `invited` and `mailed` (what reached the user by mail); per slot
`pc`, `who`, `copy` (the row to be saved), `held` (the token it was given, or made).

* signUp: `SignUp`, `Register`, `Invite` (the mail is last: if it fails the account
  stays and the client sees an error). resend: `ResendVerificationEmail`.
* confirmAccount: `ConfirmAccount`, `ConfirmFind`, `ConfirmSave`, `Welcome`.
* forgotPassword: `ForgotPassword`, `ForgotSet`, `ForgotExpire`, `ForgotMail`.
* resetPassword: `ResetPassword` (reads and compares), `ResetFind`, `ResetSave`,
  `ResetDelete`. verifyStudent: `VerifyStudent`, `VerifySave`.
* Around it: `ExpireLink`, `Abort`, `LoseCall`.

A lost EXPIRE leaves a reset link that never dies; `resetPassword` deletes the
user's key whatever token it holds, so a link requested while an older one is
being used may die unused. Both are excepted, exactly, in `LinksDie` (the links in
`undated`: stored, and then their own EXPIRE was lost or its process died before it)
and `LatestLinkLives`. The saves of users cascade to their profiles: `Organisations`.

### Sessions

State: `now` (seconds), `stored` (login codes in Redis), `active` (refresh tokens
whose key says active), `mailed`, `granted` (tokens clients have); per slot `pc`,
`who`, `item`.

* getLoginOTP: `GetLoginOTP`, `GenerateOtp`, `MailCode`. signIn2Factor:
  `SignIn2Factor`, `CodeGet`, `CodeDelete`; signIn: `SignIn` (administrators only
  with a code, the others without); both then `SignTokens`, `RefreshSet`.
* refreshAccessToken: `RefreshAccessToken`, `TokenGet`, `TokenAnswer`. logout:
  `Logout`, `TokenDelete`.

A token is the signature of address, role and the second it was made in, so it is
the pair of user and second: two sign-ins of one user in one second make the same
token, and the later one revives a key that a logout deleted. The session keys
written beside the refresh keys are read by no code and left out.

### JobBoard

State: `jobs` in the order of posting, `today`, `cached` (Redis: page per status and
page number); per slot `pc`, `job`, `change`, `copy`, `key`, `answer`, `found` (keys
KEYS returned and not yet deleted); `batch` (per cron, the rows it found).

* createJob: `CreateJob`, `Mail`, `KeysOfPattern`, `DeleteKey` for each key.
  updateJob and updateJobStatus: `UpdateJob`, `UpdateSave`, then the same.
* getAllJobs: `GetAllJobs` (a miss), `ListQuery`, `ListSet`.
* Cron: `CronFind`, `CronSave` (all copies at once: one transaction of TypeORM's
  `save`). Around it: `Tick`, `ExpireKey`, `Abort`, `CronAbort`.

`StaleExplained` names the causes of a stale page: an invalidation still to come; a
read older than a change (`raced`); a change that failed after its save (its mail is
sent before the invalidation), or a cron that put an edit back (`skipped`). Such a
page is served until its hour is over. Of the filters only the status is modelled:
those on columns of the job, and their keys, would be further statuses. Two things
of the listing (`src/job/repositories/job.repository.ts:66-122`) are not like that and
are left out: `datePosted` compares with the clock, and the name and description
of the business are joined in. Such pages go stale with time, or when a business is
renamed, without any cause that `StaleExplained` names; what is shown here is
shown for listings by columns of the jobs alone.

`MaxJobs` bounds the table, of which `Table` is posted when the server starts. The
run has pages of two jobs and up to three jobs, so the last page is empty, full or
half filled: `PagesCover` says that following nextUrl reaches every job, and that a
page has one exactly when jobs remain after it. It speaks of the table at one instant.

### Hiring

State: `rows` (applications), `mine` (Redis: listings), `ratings` (how many a student
has), `average` and `expiring` (Redis); per slot `pc`, `who`, `about`, `status`, `page`,
`count`.

* apply: `Apply`, `ApplyFind`, `ApplySave`, `ApplyDel`. getMyApplications:
  `GetMyApplications`, `MineGet`, `MineFind`, `MineSet`, `MineAnswer`; of a business:
  `GetReceivedApplications`, `ReceivedFind`, `MineAnswer`. updateStatus:
  `UpdateStatus`, `StatusFind`, `StatusSave`.
* createRating: `CreateRating`, `RateSave`, `RateDel`. getRatingsForStudent:
  `GetRatingsForStudent`, `AvgGet`, `AvgFind`, `AvgSet`, `AvgExpire`.

The listing is read under `applications:applications:<id>:p:pp` and written under
`applications:<id>`, so the cache never answers: `Keys` has both. This is why
`ListingCurrent` holds; the mutant that reads what is written breaks it, since
nothing but an apply invalidates that key. No code sets a user's business, so
the ratings of a business are always empty.

`told` counts the ratings a student had when the cached average was last deleted
for one; `straddled` has the students of whom, at that deletion, an average was
being computed from fewer, which is then stored: the race `AverageExplained` excepts
and after which `AveragesCatchUp` still wants the average gone. `undated` has those
whose average is kept without a time to live, its EXPIRE having failed.

### Organisations

State: `profiles` (kind, firm, permit; `NoRow` before the first), `businesses`
(number, approved); per slot `pc`, `who`, `firm`, `change`, `profile`, `business`.

* updateProfile: `UpdateProfile`, `ProfileSave` (it fails for a user without a profile
  who is not a student). updateWorkPermit: `UpdateWorkPermit`, `PermitFind`,
  `PermitSave`. Saves of whole users in `auth` and `admin`: `ReadUser`, `UserSave`.
* createBusinessProfile: `CreateBusinessProfile`, `FirmFind`, `FirmInsert`, `Link`.
  updateBusinessProfile: `UpdateBusinessProfile`, `FirmSave`. verifyBusiness:
  `VerifyBusiness`, `FirmSave`.

`wanted` is what each column was last set to by whoever meant to set it. `unlinked`
has the businesses whose own creation failed before the link, or whose link the save
of a profile read before it put back; a link made later takes them out. A work
permit request without a user id would update an arbitrary user's profile
(`where: { id: undefined }`); it is not an input of the model.

### Platform

State: `rows` (a role, and its privileges), `primary` and `worker` (the next step of each
process), `seen` (what a process or slot read); per slot `pc`, `home` (the worker it
runs in), `asked`, `found` (the lookups that came back in time), `item` (the state of
each invoice of its last bulk request, kept after the answer).

* Start: `PrimaryRead`, `PrimaryWrite` (then it forks), `WorkerRead`, `WorkerWrite`
  (then it listens, or dies of a unique violation). `Crash`: the process and its
  requests are gone; a dead worker is not replaced although the log says so.
* assignPrivilege: `AssignPrivilege`, `AssignLoad`, `AssignWrite`. Its
  `forEach(async ...)` is not awaited; the lookups it starts still end before the
  save reads the list, or after it: the list that is written is a subset of
  what was asked for. `target` is what the last writer was asked for, `gap` what it had
  not found and what others inserted and deleted between its read and its save: of
  these only `AssignedAsAsked` lets the role differ.
* createBulkInvoices: `CreateBulkInvoices`, `SendChunk`, `SettleInvoice`, `AnswerBulk`.

## Runs

| run | instance | result |
|---|---|---|
| `attendance_serial` | 1 request, 1 user, 1 job, 2 records, 2 OTPs, clock to 4, 1 fault | `TypeOK`, `AtMostOneOpen`, `ValidOtpIsAccepted`, `NoEternalKey`, `ImplementsTimesheet` hold (388,984 states) |
| `attendance_concurrent` | 2 requests, 3 records, clock to 3, no faults, symmetry | `OpenBounded`, `OtpUsesBounded`, `StaleSaves` hold (982,128 states) |
| `attendance_clock_out` | 1 request | `ClockOutFindsOpenShift` is violated |
| `attendance_overlap` | 2 requests | `AtMostOneOpen` is violated |
| `payments` | 1 invoice, 1 student, 2 requests, 3 sessions, 2 intents, bulk lists to 2, 1 duplicate, 1 fault | `TypeOK`, `LateBounded`, `ImplementsLedger`, `PaidIsSettled` hold (416,868 states) |
| `payments_double_charge` | 1 invoice, 2 requests, 2 sessions | `ChargedOnce` is violated |
| `accounts` | 1 user, 2 requests, 2 reset links, 1 fault | `TypeOK`, `ResetsBounded`, `LatestLinkLives`, `RowKept`, `LinksDie` hold (574,696 states) |
| `sessions` | an administrator and a student, 2 requests, 1 code, 2 seconds, 3 sign-ins, 1 fault, symmetry | `TypeOK`, `CodeLoginsBounded`, `RevokedSoon`, `LogoutHolds` hold (92 thousand states) |
| `job_board` | 2 requests, 1 cron, 2 jobs posted before and 1 more, pages of 2, 1 update, 2 days, 1 fault | `TypeOK`, `EditsKept`, `StaleExplained`, `PagesCover`, `Deactivated` hold (250,613 states) |
| `hiring` | 1 student, 1 job, 2 requests, 3 applications, 2 ratings, 1 fault | `TypeOK`, `DuplicatesBounded`, `ListingCurrent`, `AverageExplained`, `AveragesCatchUp` hold (889,340 states) |
| `organisations` | 2 users of businesses and a student, 2 businesses and numbers, 2 requests at a time and 8 in all, 1 fault, symmetry | `TypeOK`, `ProfilesKept`, `ApprovalsKept`, `BusinessesLinked` hold (2.03 million states) |
| `platform` | 2 workers, 2 requests, 2 privileges, 3 invoices in chunks of 2, 2 assignments, 1 bulk request, 1 crash | `TypeOK`, `SeedSurvived`, `AssignedAsAsked`, `BulkSettled`, `BulkEnds` hold (451,957 states) |

What the violations show (`findings` in `PROJECT.json` quotes the lines):

* **A student who has worked before may be unable to clock out.** `clockOut: null` in
  the lookup is ignored, a closed record is found and refused with "You have already
  clocked out". Scenario: clock in, clock out, clock in, clock out.
* **Two open shifts.** Two overlapping clock-ins both pass "You are already clocked
  in"; the unique constraint does not apply to NULL clock-outs.
* **Charged twice.** Two checkout sessions opened while the invoice is pending can
  both be paid.

Bounds and why they suffice. Records, tokens and sessions are consumed and never
reused; a handler that may need one is admitted only while one is left for it and
every other request in flight (`RoomForRow`, `RoomForToken`, `RoomForSession`,
`RoomForIntent`), so no admitted handler is stuck for want of a bound. All queries
are per user and job, and per invoice, so one user and one job, and one invoice,
show every interaction; a stranger's invoice is refused like one that does not exist.
Three sessions are the least for one paid and two late ones.
Two records are the least with which a closed and an open shift coexist, or an
expired pending row and a new one; three let two requests open shifts beside an
earlier row. Two requests show every race between a read and a write. Lives of 1
and 2 ticks with a clock to 4 (3) let an OTP, then its key, expire with the handler at
any step. One duplicate and one fault reach every failure point once, and a
second delivery after any state.

`ValidOtpIsAccepted` needs failures and is checked where there is one, for one request;
that it holds for overlapping requests as well is proved. `StaleSaves` and
`OtpUsesBounded` need an overlap; a third request or a failure raises the bound of the
latter, which is proved for any number of both.

Rows of different users, jobs, students and businesses do not touch each other
in the other modules either: one user (`accounts`), one student and one job (`hiring`)
show every interaction, and more where a property relates several (two jobs for a
cron's batch and a third for a half filled page, two users and two businesses for one
number, an administrator and a student for the two kinds of login). Two links are the
least for one to overtake the other, two privileges for one to be added and one removed, three invoices in chunks
of two for a full and a broken chunk, two seconds for two tokens of one user.
One update beside one cron makes every order of their reads and writes; two
updates exceed the time a run may take and are left to the proof of `EditsKept`, as
are two bulk requests (each concerns its own slot only). In `organisations`, eight
requests are enough for two users to make a business of one number, fail, try again
and have the link put back by an older copy, with a verification between. One
fault per behaviour reaches each failure point with every state around it.

`CHECK_DEADLOCK` is off in `attendance_*`, `payments*`, `sessions`, `organisations` and
`platform`: the services rest when no request runs and the bounds are used up, and a
platform whose workers are all dead has nothing left to do.

Fairness. `WF_vars(Proceed(r))`: Node's event loop runs the continuation of every
settled call, and a database or Redis call settles or fails. No fairness on
arrivals, failures, time, Stripe's customers or the cron. `SF_vars(Deliver)`
for each session: Stripe retries an event until it is answered 2xx, and between
retries the slots may be busy, hence strong fairness. The code answers 2xx only
after the save, which is what `PaidIsSettled` checks; an event whose signature does
not verify is answered 2xx at once and never returns, so the property excepts
exactly the sessions in `dropped`.

In `Accounts` and `Hiring`, `WF_vars(Proceed(r))` for the same reason, and
`WF_vars(ExpireLink(u))`, `WF_vars(ExpireAverage(s))`: Redis drops a key that has a
time to live. In `JobBoard`, `WF_vars(CronFind(c))` and `WF_vars(CronSave(c))`: the
scheduler fires every midnight and the saves it starts come to an end, while nothing
is assumed of requests, nor of time. In `Platform`, `WF_vars(Bulk(r))`: a process that
is alive goes on with its request. `Attendance`, `Sessions` and `Organisations` have
safety properties only.

`ImplementsTimesheet` is a refinement: `Shifts == INSTANCE Timesheet` with the rows
that have a clock-in as the sheet. It is checked, and proved, for one request at a
time; with overlapping requests it fails by the second finding. `ImplementsLedger` is
checked, and proved, for overlapping ones.

## Proofs

TLAPS proves, for all values of the constants satisfying the named assumptions of
each module (slots are finite, and in `Payments` there is at least one; the stand-ins for NULL
are not values; bounds are naturals, in `Attendance` with a clock of at least one tick;
`NoRow` is not a row; in `JobBoard` there is a filter and no cron is a slot; in
`Platform` workers, slots and the primary are distinct), the theorems below. Each
rests on an inductive invariant stated at the head of its section in the module, with one lemma for each action.

* `AttendanceProofs!TypeCorrect`: `Spec => []TypeOK`. `TypeOK` is not inductive: that
  a save writes a row, or that a validated OTP is a token, depends on what the
  request checked when it read the row. `RequestInv` records that; `TypeInv ==
  TypeOK /\ RequestInv` is inductive.
* `AttendanceProofs!OpenShiftsBounded`: `Spec => []OpenBounded`. Open rows alone are
  not enough: a request that issues a clock-out OTP holds an open copy whose save can
  reopen a row, and a request past its check will still open one. `OpenInv` counts
  open rows, rows that such a copy can reopen (`HeldOpen`) and requests that may open
  one (`Opening`). `IdentityInv` adds that ids of rows are in `usedIds`, that a held
  copy and the row under its id are of the request's user, and that this row's job
  is the one asked for, or lost to a deletion and re-insertion. Each step is
  shown to add neither rows nor openers, to trade one opener for one row, or to leave
  no row open (`Effect`); the invariant follows by counting.
* `AttendanceProofs!OneShiftWhenSerial`: with a single slot, `AtMostOneOpen`.
* `AttendanceProofs!NoKeyIsEternal`: `Spec => []NoEternalKey`. `EternalInv` adds that the
  eternal keys are finitely many, since `Tokens` may be infinite; every step leaves
  none more (`EternalEffect`), and a failure at most the key it was about to expire.
* `AttendanceProofs!ValidOtpsAccepted`: `Spec => []ValidOtpIsAccepted`. An OTP and its
  expiry are in the table, in the copies that requests hold and save, and in the tickets
  of OTPs being issued. `LastingInv` says that some set of lost OTPs, no more of them than
  there were failures, has every OTP in these three places that is not spent and whose
  key does not outlive its expiry while that is to come; and that no expiry is further
  away than `OtpLife`, so that an EXPIRE, of `KeyLife`, shortens no promise. Each step
  keeps what is not lost (`LastingKept`); a failure adds to the lost ones the OTP it was
  about to accept or to issue (`FailLasting`).
* `AttendanceProofs!TimesheetWhenSerial`: with a single slot, `Spec => ImplementsTimesheet`,
  step by step under `SerialInv`: the copy held is the stored row, still open or pending,
  and a request that may open a shift runs while none is open. So every write of the table
  is a `StartShift`, an `EndShift`, or leaves the sheet as it is.
* `AttendanceProofs!StaleSavesBounded`: `Spec => StaleSaves`, for any overlap. `HeldInv`
  says that a copy read to issue or to use a clock-out OTP has its clock-in, so that only
  clockOut, which reads any row, can write a NULL one back; that an id saved is one
  inserted before comes from `IdentityInv`. The purge deletes only rows never clocked in.
* `AttendanceProofs!OtpUsesAreBounded`: `Spec => []OtpUsesBounded`, for any overlap and any
  failures. `FreshInv` says that an OTP is written nowhere before its key was set and
  given its time to live, so that no SET or EXPIRE brings back the key of one that was
  used; a key is then deleted before the first use is recorded, and those who read it
  before are slots.
* `PaymentsProofs!TypeCorrect`, `LateInvariant`, `LateChargesBounded`: the inductive
  invariant is `PayInv == TypeOK /\ RequestInv /\ SessionInv` (a request at a
  charging step has an issued invoice; every session is for an issued invoice;
  events waiting or being handled are of paid sessions) with `LateInv`, which counts
  late charges together with the requests past the check.
  `LateBounded` is strict: the request that settles an invoice makes no charge for it.
* `PaymentsProofs!LedgerRefinement`: `Spec => ImplementsLedger`, step by step under `PayInv`.
* `AccountsProofs`: `TypeCorrect`; `RowAlwaysKept` by `RowInv` (the one handler that
  holds a copy of a row holds it as it is, unless the row is in `overlap`);
  `LatestLinkAlwaysLives` by `LatestInv` (a user's key holds the token stored last or
  nothing, and a reset that could delete it compared it or is in `overtaken`);
  `ResetsAlwaysBounded` by `CountInv`: while a key can still hold a token, its resets do
  not exceed the requests leaving with it and the failures; later those coming with it
  are counted too.
* `SessionsProofs`: `TypeCorrect`; `LogoutAlwaysHolds` by `SignInv` (a token about to be
  granted was signed again or is nobody else's); `AlwaysRevokedSoon` by `LateInv`
  (refreshes of a deleted token, with those about to answer, are fewer than the slots:
  the logout holds one); `CodeLoginsAlwaysBounded` by `LoginInv`, which counts sign-ins
  with the requests about to delete the code.
* `JobBoardProofs`: `EditsAlwaysKept` by `HoldInv`: a copy that a slot or a cron holds of
  a job not in `overlap` is the row itself and is the only one, so that saving it
  whole changes no other column (`HolderAlwaysAlone` states it). `StaleAlwaysExplained` is
  inductive with it: a cron that alone held its rows leaves the statuses, hence the
  pages, as they are. Of a page these proofs use only that it is a function of the
  column status. `TypeAlwaysOK` and `PagesAlwaysCover` need what a page holds: `Listed`
  is written as a function: its n-th item is the matching job with n matching jobs from it
  to the end of the table, so that its order and its range follow by counting, not by
  induction; a listing is then cut
  at multiples of the page size, and the n-th item is on page (n - 1) \div size + 1
  (`ItemOnPage`). `PagesAlwaysExact` adds the converse: a page has jobs of its own status
  only, and no job is on two pages of a listing.
* `HiringProofs`: `TypeCorrect`; `DuplicatesAlwaysBounded` (applications of a student for
  a job, with the requests past the search, never exceed the slots);
  `ListingAlwaysCurrent`; `AverageAlwaysExplained` (what is cached, or about to be, of a
  student not in `straddled` has every rating told of); `ApplicationsStay`: whatever
  overlaps and fails, an application keeps its student and job and is never removed.
* `OrganisationsProofs`: `TypeCorrect`; `ProfilesAlwaysKept` and `ApprovalsAlwaysKept`, by
  the invariant of sole holders for profiles and for businesses;
  `BusinessesAlwaysLinked` by `MemberInv`: only a profile without a business is given
  one, and every other save writes the link it read, so that a link is lost only to the
  save of a profile read before it; one owner, one number or one slot is not assumed.
* `PlatformProofs`: `TypeCorrect`; `AssignedExplained` (what stands between a copy of the
  role that is about to be saved and the rows is what others wrote since it was read);
  `BulkAlwaysSettled` (what is sent and not settled belongs to one chunk, and every
  chunk before it has settled);
  `FirstStartSurvived` (the primary wrote every default before a worker read).

Only model-checked: liveness (`PaidIsSettled`, `LinksDie`, `Deactivated`,
`AveragesCatchUp`, `BulkEnds`), which is out of the prover's reach, and the
three violations. Every safety invariant, action property and refinement of a passing
run is proved.

## Not modelled

* Read-only operations (other listings, getters, analytics, generateQRCode, guards),
  mail texts, amounts and currencies, authentication of the caller, throttling.
* The payment queue and the queue of push notifications: the processors are not
  providers of their modules, so nothing consumes what is added. The payment
  processor also listens on another queue than the one written to.
* Notification strategies, email, upload, audit: calls of external services
  without state of this system; their failures are modelled at the callers.
* createRole, createPrivilege, referral sources: one insert each under a unique name.
* Request context, the entity subscriber, configuration, logging, random numbers and
  format checks.
* deleteJob: it compares the business of the job with the id of the user and always
  refuses.
* Within attendance: equal six-digit codes on two rows of one user, clocks that differ
  between workers, and an EXPIRE whose answer takes longer than the 60 s between the
  two lives of an OTP. Within payments: invoice listings, Stripe giving up on an event
  after days of failures. Within the seed: the users' own rows, and the two other
  roles, which are seeded like the one.
* Deployments that do not seed (production) or do not fork (development).

## Plan

Done: `Attendance` with `Timesheet`, `Payments` with `InvoiceLedger`, `Accounts`,
`Sessions`, `JobBoard` with `Pagination`, `Hiring`, `Organisations`, `Platform`, and
proofs about each but `Pagination`.

Left, in this order:

1. An abstract specification of the read-through caches (`JobBoard`, `Hiring`): what is
   served was the table's at most a time to live ago, or one of the named causes holds.
2. The bounded retry of the upload, and `Pagination` against a reference partition.
