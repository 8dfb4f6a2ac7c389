------------------------------ MODULE JobBoard ------------------------------
(***************************************************************************)
(* Jobs and their public listing: src/src/job/job.service.ts, its          *)
(* repository, the cache of src/src/cache/cache.service.ts under it, and   *)
(* the nightly cron of src/src/job/utils/job-status.cron.service.ts.       *)
(*                                                                         *)
(* A handler is a chain of actions, one per awaited call, a slot is a      *)
(* running handler, and a request refused or answered from the cache at    *)
(* its first call has no action.  deleteJob has none either: it compares   *)
(* the business of the job with the id of the user, and refuses.           *)
(***************************************************************************)
EXTENDS Naturals, FiniteSets, Sequences, SequencesExt, Pagination

CONSTANTS Requests,
          Crons,       \* the processes that run the cron
          Filters,     \* statuses a listing is asked for
          NewStatuses, \* statuses a job may be set to
          NewDays,     \* closing dates a job may be posted with
          ChangedDays, \* closing dates a job may be given by an update
          PerPage,
          MaxPage,     \* bound on pages
          MaxJobs,     \* bound on jobs
          Table,       \* the jobs there are when the server starts
          MaxEdits,    \* bound on updates
          MaxDay,      \* bound on the clock, in days
          MaxFaults,   \* bound on failed calls and crashes
          Miss,        \* no such key in Redis
          NoRow        \* no copy held

ASSUME BoundAssumption ==
    /\ PerPage \in Nat \ {0} /\ MaxPage \in Nat \ {0}
    /\ MaxJobs \in 0..(PerPage * MaxPage)
    /\ MaxDay \in Nat /\ MaxEdits \in Nat
    /\ Filters # {}

ASSUME SlotAssumption == Requests \cap Crons = {}

VARIABLES jobs,      \* the table, in the order the jobs were posted
          today,     \* the clock, in days
          cached,    \* Redis: explore-jobs keys
          pc,        \* slot -> next call
          job,       \* slot -> the job it works on, or 0
          change,    \* slot -> the column to set, and its value
          copy,      \* slot -> the row it has read
          key,       \* slot -> the listing asked for
          answer,    \* slot -> the page read from the table
          found,     \* slot -> the keys it has yet to delete
          batch,     \* cron -> copies of the rows to deactivate
          edits,     \* updates begun
          wanted,    \* history: what each column was last set to
          overlap,   \* history: jobs of which two copies were held at once
          raced,     \* history: keys filled with a page that was out of date
          skipped,   \* history: keys a change left in the cache for good
          faults     \* history: failed calls and crashes so far

request == <<pc, job, change, copy, key, answer, found>>
history == <<wanted, overlap, raced, skipped, faults>>
vars == <<jobs, today, cached, pc, job, change, copy, key, answer, found, batch,
          edits, wanted, overlap, raced, skipped, faults>>

-----------------------------------------------------------------------------
Statuses == {"OPEN", "CLOSE"}
Days == 1..(MaxDay + 1)   \* the last of them does not come

\* The status stands for the columns a listing shows.
Row == [status : Statuses, closedAt : Days, active : BOOLEAN]
ASSUME RowAssumption ==
    /\ NewStatuses \subseteq Statuses
    /\ NewDays \cup ChangedDays \subseteq Days
    /\ NoRow \notin Row
    /\ Table \in Seq(Row) /\ Len(Table) <= MaxJobs

Changes == ({"status"} \X NewStatuses) \cup ({"closedAt"} \X ChangedDays)
NoChange == <<"none", 0>>
Posted(d) == [status |-> "OPEN", closedAt |-> d, active |-> TRUE]

Ids == 1..MaxJobs
Keys == Filters \X (1..MaxPage)
NoKey == CHOOSE k \in Keys : TRUE
Entry == [data : Seq(Ids), next : Nat]

Steps == {"idle", "update_save", "mail", "keys", "del", "list_query", "list_set"}

TypeOK ==
    /\ jobs \in Seq(Row) /\ Len(jobs) <= MaxJobs
    /\ today \in 0..MaxDay
    /\ cached \in [Keys -> Entry \cup {Miss}]
    /\ pc \in [Requests -> Steps]
    /\ job \in [Requests -> Ids \cup {0}]
    /\ change \in [Requests -> Changes \cup {NoChange}]
    /\ copy \in [Requests -> Row \cup {NoRow}]
    /\ key \in [Requests -> Keys]
    /\ answer \in [Requests -> Entry \cup {Miss}]
    /\ found \in [Requests -> SUBSET Keys]
    /\ batch \in [Crons -> [Ids -> Row \cup {NoRow}]]
    /\ edits \in 0..MaxEdits
    /\ wanted \in Seq(Row) /\ Len(wanted) = Len(jobs)
    /\ overlap \subseteq Ids
    /\ raced \subseteq Keys /\ skipped \subseteq Keys
    /\ faults \in Nat

\* The column status of the table.
StatusColumn == [j \in 1..Len(jobs) |-> jobs[j].status]

\* The place of j from the end of ids: 1 for the greatest of them.
PlaceFromLast(j, ids) == Cardinality({i \in ids : i >= j})

\* getAllJobs of the repository: those of a status, the last posted first.
\* Whether a job is active is not asked.
Listed(column, status) ==
    LET ids == {j \in 1..Len(column) : column[j] = status}
    IN  [n \in 1..Cardinality(ids) |-> CHOOSE j \in ids : PlaceFromLast(j, ids) = n]

PageOf(column, k) ==
    LET items == Listed(column, k[1])
    IN  [data |-> Slice(items, k[2], PerPage),
         next |-> NextPage(k[2], Len(items), PerPage)]

Page(k) == PageOf(StatusColumn, k)

Stale(k) == cached[k] # Miss /\ cached[k] # Page(k)

Goto(r, step) == pc' = [pc EXCEPT ![r] = step]

Done(r) == /\ Goto(r, "idle")
           /\ job' = [job EXCEPT ![r] = 0]
           /\ change' = [change EXCEPT ![r] = NoChange]
           /\ copy' = [copy EXCEPT ![r] = NoRow]
           /\ key' = [key EXCEPT ![r] = NoKey]
           /\ answer' = [answer EXCEPT ![r] = Miss]
           /\ found' = [found EXCEPT ![r] = {}]

\* Some slot or cron other than x holds a copy of job j.
HeldByOther(x, j) ==
    \/ \E r \in Requests \ {x} : job[r] = j /\ copy[r] # NoRow
    \/ \E c \in Crons \ {x} : batch[c][j] # NoRow

\* Two slots or crons hold copies of these jobs: what their columns should be is
\* followed no further.
Overlaps(js) ==
    /\ overlap' = overlap \cup js
    /\ wanted' = [j \in DOMAIN wanted |-> IF j \in js THEN Posted(1) ELSE wanted[j]]

Drop(keys) == /\ cached' = [k \in Keys |-> IF k \in keys THEN Miss ELSE cached[k]]
              /\ raced' = raced \ keys
              /\ skipped' = skipped \ keys

-----------------------------------------------------------------------------
(* createJob: the insert, the mail, then the listings are dropped. *)

CreateJob(r, d) ==
    /\ Len(jobs) < MaxJobs
    /\ pc[r] = "idle"
    /\ jobs' = Append(jobs, Posted(d)) /\ wanted' = Append(wanted, Posted(d))
    /\ Goto(r, "mail")
    /\ UNCHANGED <<today, cached, job, change, copy, key, answer, found, batch, edits,
                   overlap, raced, skipped, faults>>

(* updateJob, and updateJobStatus through it: the row is read, assigned the   *)
(* columns of the request and saved whole.                                    *)

UpdateJob(r, j, ch) ==
    /\ edits < MaxEdits
    /\ pc[r] = "idle"
    /\ job' = [job EXCEPT ![r] = j]
    /\ change' = [change EXCEPT ![r] = ch]
    /\ copy' = [copy EXCEPT ![r] = jobs[j]]
    /\ Overlaps({k \in {j} : HeldByOther(r, k)})
    /\ edits' = edits + 1
    /\ Goto(r, "update_save")
    /\ UNCHANGED <<jobs, today, cached, key, answer, found, batch, raced, skipped, faults>>

\* Mutant: the column is given its name with its value.
AssignPair(row, ch) ==
    IF ch[1] = "status" THEN [row EXCEPT !.status = ch] ELSE [row EXCEPT !.closedAt = ch]

Assign(row, ch) ==
    IF ch[1] = "status" THEN [row EXCEPT !.status = ch[2]]
                        ELSE [row EXCEPT !.closedAt = ch[2]]

\* Mutant: the row is created anew from the request.
UpdateSaveAnew(r) ==
    /\ pc[r] = "update_save"
    /\ jobs' = [jobs EXCEPT ![job[r]] = Assign(Posted(copy[r].closedAt), change[r])]
    /\ wanted' = [wanted EXCEPT ![job[r]] =
                     IF job[r] \in overlap THEN @ ELSE Assign(@, change[r])]
    /\ copy' = [copy EXCEPT ![r] = NoRow]
    /\ Goto(r, "mail")
    /\ UNCHANGED <<today, cached, job, change, key, answer, found, batch, edits, overlap,
                   raced, skipped, faults>>

UpdateSave(r) ==
    /\ pc[r] = "update_save"
    /\ jobs' = [jobs EXCEPT ![job[r]] = Assign(copy[r], change[r])]
    /\ wanted' = [wanted EXCEPT ![job[r]] =
                     IF job[r] \in overlap THEN @ ELSE Assign(@, change[r])]
    /\ copy' = [copy EXCEPT ![r] = NoRow]
    /\ Goto(r, "mail")
    /\ UNCHANGED <<today, cached, job, change, key, answer, found, batch, edits, overlap,
                   raced, skipped, faults>>

Mail(r) ==
    /\ pc[r] = "mail"
    /\ Goto(r, "keys")
    /\ UNCHANGED <<jobs, today, cached, job, change, copy, key, answer, found, batch, edits,
                   history>>

\* deleteByPattern: KEYS, then a DEL for each key there was.  The mutant drops
\* the first page only.
KeysOfFirstPage(r) ==
    /\ pc[r] = "keys"
    /\ found' = [found EXCEPT ![r] = {k \in Keys : cached[k] # Miss /\ k[2] = 1}]
    /\ Goto(r, "del")
    /\ UNCHANGED <<jobs, today, cached, job, change, copy, key, answer, batch, edits,
                   history>>

KeysOfPattern(r) ==
    /\ pc[r] = "keys"
    /\ found' = [found EXCEPT ![r] = {k \in Keys : cached[k] # Miss}]
    /\ Goto(r, "del")
    /\ UNCHANGED <<jobs, today, cached, job, change, copy, key, answer, batch, edits,
                   history>>

DeleteKey(r) ==
    /\ pc[r] = "del"
    /\ \/ \E k \in found[r] :
             /\ Drop({k})
             /\ found' = [found EXCEPT ![r] = @ \ {k}]
             /\ UNCHANGED <<pc, job, change, copy, key, answer>>
       \/ /\ found[r] = {}
          /\ Done(r)
          /\ UNCHANGED <<cached, raced, skipped>>
    /\ UNCHANGED <<jobs, today, batch, edits, wanted, overlap, faults>>

(* getAllJobs: on a miss, the table is read and the page is cached for an hour. *)

GetAllJobs(r, k) ==
    /\ pc[r] = "idle"
    /\ cached[k] = Miss
    /\ key' = [key EXCEPT ![r] = k]
    /\ Goto(r, "list_query")
    /\ UNCHANGED <<jobs, today, cached, job, change, copy, answer, found, batch, edits,
                   history>>

ListQuery(r) ==
    /\ pc[r] = "list_query"
    /\ answer' = [answer EXCEPT ![r] = Page(key[r])]
    /\ Goto(r, "list_set")
    /\ UNCHANGED <<jobs, today, cached, job, change, copy, key, found, batch, edits,
                   history>>

ListSet(r) ==
    /\ pc[r] = "list_set"
    /\ cached' = [cached EXCEPT ![key[r]] = answer[r]]
    /\ raced' = IF answer[r] = Page(key[r]) THEN raced \ {key[r]} ELSE raced \cup {key[r]}
    /\ skipped' = skipped \ {key[r]}
    /\ Done(r)
    /\ UNCHANGED <<jobs, today, batch, edits, wanted, overlap, faults>>

ExpireKey(k) ==
    /\ cached[k] # Miss
    /\ Drop({k})
    /\ UNCHANGED <<jobs, today, request, batch, edits, wanted, overlap, faults>>

-----------------------------------------------------------------------------
(* handleJobStatusUpdate: find the jobs past their date, save them all. *)

Due(j) == jobs[j].closedAt \in 1..today

CronFind(c) ==
    /\ \A j \in Ids : batch[c][j] = NoRow
    /\ LET due == {j \in 1..Len(jobs) : Due(j) /\ jobs[j].active}
       IN  /\ due # {}
           /\ batch' = [batch EXCEPT
                           ![c] = [j \in Ids |-> IF j \in due THEN jobs[j] ELSE NoRow]]
           /\ Overlaps({j \in due : HeldByOther(c, j)})
    /\ UNCHANGED <<jobs, today, cached, request, edits, raced, skipped, faults>>

Drained(c) == batch' = [batch EXCEPT ![c] = [j \in Ids |-> NoRow]]

Running(c) == \E j \in Ids : batch[c][j] # NoRow

\* Mutant: the cron sets the status in the place of isActive.
CronSaveStatus(c) ==
    /\ Running(c)
    /\ jobs' = [j \in DOMAIN jobs |->
           IF batch[c][j] = NoRow THEN jobs[j] ELSE [batch[c][j] EXCEPT !.status = "CLOSE"]]
    /\ wanted' = wanted
    /\ skipped' = skipped \cup {k \in Keys : cached[k] # Miss}
    /\ Drained(c)
    /\ UNCHANGED <<today, cached, request, edits, overlap, raced, faults>>

\* A row that was edited since it was found is put back as it was then, and the
\* listings that show it are left in the cache.
CronSave(c) ==
    /\ Running(c)
    /\ jobs' = [j \in DOMAIN jobs |->
           IF batch[c][j] = NoRow THEN jobs[j] ELSE [batch[c][j] EXCEPT !.active = FALSE]]
    /\ wanted' = [j \in DOMAIN wanted |->
           IF batch[c][j] = NoRow \/ j \in overlap THEN wanted[j]
           ELSE [wanted[j] EXCEPT !.active = FALSE]]
    /\ skipped' = IF \E j \in overlap : batch[c][j] # NoRow
                  THEN skipped \cup {k \in Keys : cached[k] # Miss} ELSE skipped
    /\ Drained(c)
    /\ UNCHANGED <<today, cached, request, edits, overlap, raced, faults>>

Tick ==
    /\ today < MaxDay
    /\ today' = today + 1
    /\ UNCHANGED <<jobs, cached, request, batch, edits, history>>

-----------------------------------------------------------------------------
(* Failures: a database or mail call fails, or the process dies; a change    *)
(* that was saved may then leave the listings as they are.                    *)

Fault == /\ faults < MaxFaults
         /\ faults' = faults + 1

Abort(r) ==
    /\ Fault
    /\ pc[r] # "idle"
    /\ skipped' = IF pc[r] \in {"mail", "keys", "del"}
                  THEN skipped \cup {k \in Keys : cached[k] # Miss} ELSE skipped
    /\ Done(r)
    /\ UNCHANGED <<jobs, today, cached, batch, edits, wanted, overlap, raced>>

CronAbort(c) ==
    /\ Fault
    /\ Running(c)
    /\ Drained(c)
    /\ UNCHANGED <<jobs, today, cached, request, edits, wanted, overlap, raced, skipped>>

-----------------------------------------------------------------------------
Init ==
    /\ jobs = Table /\ wanted = Table
    /\ today = 0
    /\ cached = [k \in Keys |-> Miss]
    /\ pc = [r \in Requests |-> "idle"]
    /\ job = [r \in Requests |-> 0]
    /\ change = [r \in Requests |-> NoChange]
    /\ copy = [r \in Requests |-> NoRow]
    /\ key = [r \in Requests |-> NoKey]
    /\ answer = [r \in Requests |-> Miss]
    /\ found = [r \in Requests |-> {}]
    /\ batch = [c \in Crons |-> [j \in Ids |-> NoRow]]
    /\ edits = 0
    /\ overlap = {} /\ raced = {} /\ skipped = {}
    /\ faults = 0

Arrive(r) ==
    \/ \E d \in NewDays : CreateJob(r, d)
    \/ \E j \in 1..Len(jobs), ch \in Changes : UpdateJob(r, j, ch)
    \/ \E k \in Keys : GetAllJobs(r, k)

Proceed(r) ==
    \/ UpdateSave(r) \/ Mail(r) \/ KeysOfPattern(r) \/ DeleteKey(r)
    \/ ListQuery(r) \/ ListSet(r)

Next ==
    \/ \E r \in Requests : Arrive(r) \/ Proceed(r) \/ Abort(r)
    \/ \E c \in Crons : CronFind(c) \/ CronSave(c) \/ CronAbort(c)
    \/ \E k \in Keys : ExpireKey(k)
    \/ Tick

Spec == Init /\ [][Next]_vars

\* Midnight comes again and again, and the cron runs to its end.
FairSpec ==
    /\ Spec
    /\ \A c \in Crons : WF_vars(CronFind(c)) /\ WF_vars(CronSave(c))

-----------------------------------------------------------------------------
(* Properties *)

\* EditsKept: every column holds what it was last set to, by an update or the
\* cron, although both save whole rows; unless two copies were held at once.
EditsKept ==
    \A j \in (1..Len(jobs)) \ overlap : jobs[j] = wanted[j]

\* StaleExplained: a cached page differs from the table only while a change is
\* on its way to drop it, or because it was filled from a read older than a
\* change, or because the change failed before it dropped it, or the cron put an
\* edit back.
StaleExplained ==
    \A k \in Keys : Stale(k) =>
        \/ k \in raced \cup skipped
        \/ \E r \in Requests : \/ pc[r] \in {"mail", "keys"}
                               \/ k \in found[r]

\* PagesCover: on the table as it stands, every job of a status is on a page that
\* following nextUrl from the first page comes to, and a page has a nextUrl exactly
\* when some job of the status is on neither it nor a page before it, also where
\* the last page is filled in part.
PagesCover ==
    \A status \in Filters :
        /\ \A j \in 1..Len(jobs) : jobs[j].status = status =>
              \E p \in 1..MaxPage :
                  /\ Contains(Page(<<status, p>>).data, j)
                  /\ \A q \in 1..(p - 1) : Page(<<status, q>>).next = q + 1
        /\ \A p \in 1..MaxPage :
              Page(<<status, p>>).next # 0 <=>
                  \E j \in 1..Len(jobs) :
                      /\ jobs[j].status = status
                      /\ \A q \in 1..p : ~ Contains(Page(<<status, q>>).data, j)

\* Deactivated: a job past its closing date is deactivated, although updates
\* may put it back and the cron may fail.
Deactivated ==
    \A j \in Ids : (j \in DOMAIN jobs /\ Due(j)) ~>
                       (j \in DOMAIN jobs /\ (Due(j) => ~ jobs[j].active))
=============================================================================
