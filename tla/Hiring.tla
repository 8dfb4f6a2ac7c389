------------------------------- MODULE Hiring -------------------------------
(***************************************************************************)
(* Applications to jobs and the ratings that follow:                       *)
(* src/src/application/application.service.ts with its repository, and     *)
(* src/src/rating/rating.service.ts.                                       *)
(*                                                                         *)
(* A handler is a chain of actions, one per awaited call that matters, and *)
(* a slot is a running handler.  The look-ups of jobs and users, which are *)
(* never deleted, always find; the mail of apply is not waited for.  One   *)
(* page holds every application.  An average is the number of ratings it   *)
(* was computed from: ratings are never changed.  getRatingsForBusiness    *)
(* has no action: no code sets the business of a user, so that its search  *)
(* finds nobody and it answers an empty list.                              *)
(***************************************************************************)
EXTENDS Naturals, FiniteSets

CONSTANTS Students,
          Jobs,
          Requests,
          NewStatuses,  \* what an application may be set to
          MaxRows,      \* bound on the applications
          MaxRatings,   \* bound: a student with as many is rated no more
          MaxFaults,    \* bound on failed calls and crashes
          Nothing       \* no row, no key, nothing held

ASSUME FiniteAssumption == IsFiniteSet(Requests)

ASSUME BoundAssumption == MaxRows \in Nat /\ MaxRatings \in Nat

ASSUME NullAssumption ==
    /\ Nothing \notin Students \cup Jobs \cup NewStatuses
    /\ Nothing \notin [student : Students, job : Jobs, status : NewStatuses \cup {"PENDING"}]

VARIABLES rows,       \* the applications table
          mine,       \* Redis: listings of applications, by key
          ratings,    \* the ratings table: how many a student has
          average,    \* Redis: averages, by student
          expiring,   \* Redis: students whose average has a time to live
          pc,         \* slot -> next call
          who,        \* slot -> the student it is about
          about,      \* slot -> the job, or the application, it is about
          status,     \* slot -> the status to set
          page,       \* slot -> the applications it has read
          count,      \* slot -> the number of ratings it has read
          promised,   \* slot, history: applications answered before it began
          answered,   \* history: applications whose apply was answered
          told,       \* history: ratings a student had when its key was last deleted
          straddled,  \* history: students whose key was last deleted for a rating
                      \* while an average without it was being computed
          undated,    \* history: students whose average is kept without a time to
                      \* live, the call that sets it having failed
          faults      \* history: failed calls and crashes so far

applications == <<rows, mine, answered>>
averages == <<ratings, average, expiring, told, straddled, undated>>
vars == <<rows, mine, ratings, average, expiring, pc, who, about, status, page, count,
          promised, answered, told, straddled, undated, faults>>

-----------------------------------------------------------------------------
Ids == 1..MaxRows
Statuses == NewStatuses \cup {"PENDING"}
Row == [student : Students, job : Jobs, status : Statuses]

\* getMyApplications looks under one key and stores under another; only the
\* latter is deleted.
Keys == Students \X {"stored", "read"}

Steps == {"idle", "apply_find", "apply_save", "apply_del", "mine_get", "mine_find",
          "mine_set", "mine_answer", "received_find", "status_find", "status_save",
          "rate_save", "rate_del", "avg_get", "avg_find", "avg_set", "avg_expire"}

TypeOK ==
    /\ rows \in [Ids -> Row \cup {Nothing}]
    /\ mine \in [Keys -> (SUBSET Ids) \cup {Nothing}]
    /\ ratings \in [Students -> Nat]
    /\ average \in [Students -> Nat \cup {Nothing}]
    /\ expiring \subseteq Students
    /\ pc \in [Requests -> Steps]
    /\ who \in [Requests -> Students \cup {Nothing}]
    /\ about \in [Requests -> Jobs \cup Ids \cup {Nothing}]
    /\ status \in [Requests -> Statuses \cup {Nothing}]
    /\ page \in [Requests -> SUBSET Ids]
    /\ count \in [Requests -> Nat]
    /\ promised \in [Requests -> SUBSET Ids]
    /\ answered \subseteq Ids
    /\ told \in [Students -> Nat]
    /\ straddled \subseteq Students
    /\ undated \subseteq Students
    /\ faults \in Nat

\* The rows of a student for a job.
RowsFor(s, j) == {i \in Ids : rows[i] # Nothing /\ rows[i].student = s /\ rows[i].job = j}

RowsOf(s) == {i \in Ids : rows[i] # Nothing /\ rows[i].student = s}

Goto(r, step) == pc' = [pc EXCEPT ![r] = step]

Begin(r, step, s, x, st) ==
    /\ pc[r] = "idle"
    /\ Goto(r, step)
    /\ who' = [who EXCEPT ![r] = s]
    /\ about' = [about EXCEPT ![r] = x]
    /\ status' = [status EXCEPT ![r] = st]
    /\ promised' = [promised EXCEPT ![r] = answered]

Done(r) == /\ Goto(r, "idle")
           /\ who' = [who EXCEPT ![r] = Nothing]
           /\ about' = [about EXCEPT ![r] = Nothing]
           /\ status' = [status EXCEPT ![r] = Nothing]
           /\ page' = [page EXCEPT ![r] = {}]
           /\ count' = [count EXCEPT ![r] = 0]
           /\ promised' = [promised EXCEPT ![r] = {}]

Same == UNCHANGED <<who, about, status, promised>>

-----------------------------------------------------------------------------
(* apply: an application of the student for the job is looked for, and one   *)
(* inserted when there is none; then the student's listing is deleted.       *)

Apply(r, s, j) ==
    /\ Begin(r, "apply_find", s, j, Nothing)
    /\ UNCHANGED <<applications, averages, page, count, faults>>

\* Mutant: whether there is one already is not asked.
ApplyFindUnchecked(r) ==
    /\ pc[r] = "apply_find"
    /\ Goto(r, "apply_save")
    /\ Same /\ UNCHANGED <<applications, averages, page, count, faults>>

ApplyFind(r) ==
    /\ pc[r] = "apply_find"
    /\ \/ /\ RowsFor(who[r], about[r]) = {}
          /\ Goto(r, "apply_save")
          /\ Same /\ UNCHANGED <<page, count>>
       \/ /\ RowsFor(who[r], about[r]) # {}
          /\ Done(r)
    /\ UNCHANGED <<applications, averages, faults>>

\* Mutant: a row is inserted without its status.
ApplySaveUnset(r) ==
    /\ pc[r] = "apply_save"
    /\ \E i \in Ids :
          /\ rows[i] = Nothing /\ \A k \in 1..(i - 1) : rows[k] # Nothing
          /\ rows' = [rows EXCEPT ![i] =
                         [student |-> who[r], job |-> about[r], status |-> status[r]]]
          /\ about' = [about EXCEPT ![r] = i]
    /\ Goto(r, "apply_del")
    /\ UNCHANGED <<mine, answered, averages, who, status, page, count, promised, faults>>

\* The id of the new row is the next one, told as what the slot is about.
ApplySave(r) ==
    /\ pc[r] = "apply_save"
    /\ \E i \in Ids :
          /\ rows[i] = Nothing /\ \A k \in 1..(i - 1) : rows[k] # Nothing
          /\ rows' = [rows EXCEPT ![i] =
                         [student |-> who[r], job |-> about[r], status |-> "PENDING"]]
          /\ about' = [about EXCEPT ![r] = i]
    /\ Goto(r, "apply_del")
    /\ UNCHANGED <<mine, answered, averages, who, status, page, count, promised, faults>>

\* deleteByPattern; KEYS and DEL are told apart in JobBoard.
ApplyDel(r) ==
    /\ pc[r] = "apply_del"
    /\ mine' = [mine EXCEPT ![<<who[r], "stored">>] = Nothing]
    /\ answered' = answered \cup {about[r]}
    /\ Done(r)
    /\ UNCHANGED <<rows, averages, faults>>

-----------------------------------------------------------------------------
(* getMyApplications and getReceivedApplications *)

GetMyApplications(r, s) ==
    /\ Begin(r, "mine_get", s, Nothing, Nothing)
    /\ UNCHANGED <<applications, averages, page, count, faults>>

MineGetFrom(r, key) ==
    /\ pc[r] = "mine_get"
    /\ \/ /\ mine[key] = Nothing
          /\ Goto(r, "mine_find")
          /\ UNCHANGED page
       \/ /\ mine[key] # Nothing
          /\ page' = [page EXCEPT ![r] = mine[key]]
          /\ Goto(r, "mine_answer")
    /\ Same /\ UNCHANGED <<applications, averages, count, faults>>

\* Mutant: the key that is stored is the one that is read.
MineGetStored(r) == MineGetFrom(r, <<who[r], "stored">>)

MineGet(r) == MineGetFrom(r, <<who[r], "read">>)

MineFind(r) ==
    /\ pc[r] = "mine_find"
    /\ page' = [page EXCEPT ![r] = RowsOf(who[r])]
    /\ Goto(r, "mine_set")
    /\ Same /\ UNCHANGED <<applications, averages, count, faults>>

MineSet(r) ==
    /\ pc[r] = "mine_set"
    /\ mine' = [mine EXCEPT ![<<who[r], "stored">>] = page[r]]
    /\ Goto(r, "mine_answer")
    /\ Same /\ UNCHANGED <<rows, answered, averages, page, count, faults>>

\* Of the applications to its jobs, a business is answered those of every
\* student; s stands for each of them.
GetReceivedApplications(r, s) ==
    /\ Begin(r, "received_find", s, Nothing, Nothing)
    /\ UNCHANGED <<applications, averages, page, count, faults>>

ReceivedFind(r) ==
    /\ pc[r] = "received_find"
    /\ page' = [page EXCEPT ![r] = RowsOf(who[r])]
    /\ Goto(r, "mine_answer")
    /\ Same /\ UNCHANGED <<applications, averages, count, faults>>

MineAnswer(r) ==
    /\ pc[r] = "mine_answer"
    /\ Done(r)
    /\ UNCHANGED <<applications, averages, faults>>

(* updateStatus: found, assigned, saved: of the columns only the status       *)
(* differs from the row.  A search that finds nothing only refuses.            *)

UpdateStatus(r, i, st) ==
    /\ rows[i] # Nothing
    /\ Begin(r, "status_find", Nothing, i, st)
    /\ UNCHANGED <<applications, averages, page, count, faults>>

StatusFind(r) ==
    /\ pc[r] = "status_find"
    /\ rows[about[r]] # Nothing
    /\ Goto(r, "status_save")
    /\ Same /\ UNCHANGED <<applications, averages, page, count, faults>>

StatusSave(r) ==
    /\ pc[r] = "status_save"
    /\ rows' = [rows EXCEPT ![about[r]] = [@ EXCEPT !.status = status[r]]]
    /\ Done(r)
    /\ UNCHANGED <<mine, answered, averages, faults>>

-----------------------------------------------------------------------------
(* createRating: the insert, then the student's average is deleted. *)

CreateRating(r, s) ==
    /\ ratings[s] < MaxRatings
    /\ Begin(r, "rate_save", s, Nothing, Nothing)
    /\ UNCHANGED <<applications, averages, page, count, faults>>

RateSave(r) ==
    /\ pc[r] = "rate_save"
    /\ ratings' = [ratings EXCEPT ![who[r]] = @ + 1]
    /\ Goto(r, "rate_del")
    /\ Same /\ UNCHANGED <<applications, average, expiring, told, straddled, undated, page,
                           count, faults>>

\* Some slot holds a number of ratings of s that is out of date.
Straddles(s) == \E r \in Requests : pc[r] = "avg_set" /\ who[r] = s /\ count[r] < ratings[s]

RateTold(s) ==
    /\ told' = [told EXCEPT ![s] = ratings[s]]
    /\ straddled' = IF Straddles(s) THEN straddled \cup {s} ELSE straddled \ {s}

\* Mutant: the average is left to its time to live.
RateDelForgotten(r) ==
    /\ pc[r] = "rate_del"
    /\ RateTold(who[r])
    /\ Done(r)
    /\ UNCHANGED <<applications, ratings, average, expiring, undated, faults>>

RateDel(r) ==
    /\ pc[r] = "rate_del"
    /\ average' = [average EXCEPT ![who[r]] = Nothing]
    /\ expiring' = expiring \ {who[r]}
    /\ undated' = undated \ {who[r]}
    /\ RateTold(who[r])
    /\ Done(r)
    /\ UNCHANGED <<applications, ratings, faults>>

(* getRatingsForStudent; no ratings at all are not cached. *)

GetRatingsForStudent(r, s) ==
    /\ Begin(r, "avg_get", s, Nothing, Nothing)
    /\ UNCHANGED <<applications, averages, page, count, faults>>

AvgGet(r) ==
    /\ pc[r] = "avg_get"
    /\ \/ /\ average[who[r]] = Nothing
          /\ Goto(r, "avg_find")
          /\ Same /\ UNCHANGED <<page, count>>
       \/ /\ average[who[r]] # Nothing
          /\ Done(r)
    /\ UNCHANGED <<applications, averages, faults>>

AvgFind(r) ==
    /\ pc[r] = "avg_find"
    /\ \/ /\ ratings[who[r]] = 0
          /\ Done(r)
       \/ /\ ratings[who[r]] # 0
          /\ count' = [count EXCEPT ![r] = ratings[who[r]]]
          /\ Goto(r, "avg_set")
          /\ Same /\ UNCHANGED page
    /\ UNCHANGED <<applications, averages, faults>>

\* CacheService.set: SET, which clears a time to live, then EXPIRE.
AvgSet(r) ==
    /\ pc[r] = "avg_set"
    /\ average' = [average EXCEPT ![who[r]] = count[r]]
    /\ expiring' = expiring \ {who[r]}
    /\ undated' = undated \ {who[r]}
    /\ Goto(r, "avg_expire")
    /\ Same /\ UNCHANGED <<applications, ratings, told, straddled, page, count, faults>>

\* Mutant: EXPIRE is not called.
AvgExpireForgotten(r) ==
    /\ pc[r] = "avg_expire"
    /\ Done(r)
    /\ UNCHANGED <<applications, averages, faults>>

AvgExpire(r) ==
    /\ pc[r] = "avg_expire"
    /\ expiring' = IF average[who[r]] # Nothing THEN expiring \cup {who[r]} ELSE expiring
    /\ undated' = undated \ {who[r]}
    /\ Done(r)
    /\ UNCHANGED <<applications, ratings, average, told, straddled, faults>>

-----------------------------------------------------------------------------
(* Redis's clock, and failures *)

ExpireAverage(s) ==
    /\ s \in expiring
    /\ average' = [average EXCEPT ![s] = Nothing]
    /\ expiring' = expiring \ {s}
    /\ undated' = undated \ {s}
    /\ UNCHANGED <<applications, ratings, told, straddled, pc, who, about, status, page, count,
                   promised, faults>>

ExpireMine(s) ==
    /\ mine[<<s, "stored">>] # Nothing
    /\ mine' = [mine EXCEPT ![<<s, "stored">>] = Nothing]
    /\ UNCHANGED <<rows, answered, averages, pc, who, about, status, page, count, promised,
                   faults>>

\* A database call fails, or the process dies; at avg_expire this also stands
\* for an EXPIRE that fails.
Abort(r) ==
    /\ faults < MaxFaults
    /\ faults' = faults + 1
    /\ pc[r] # "idle"
    /\ undated' = IF pc[r] = "avg_expire" /\ average[who[r]] # Nothing /\ who[r] \notin expiring
                  THEN undated \cup {who[r]} ELSE undated
    /\ Done(r)
    /\ UNCHANGED <<applications, ratings, average, expiring, told, straddled>>

\* A Redis call fails: CacheService swallows the error and the handler goes on.
LoseCall(r) ==
    /\ faults < MaxFaults
    /\ faults' = faults + 1
    /\ \/ /\ pc[r] = "mine_set"
          /\ Goto(r, "mine_answer")
          /\ Same /\ UNCHANGED <<page, count, answered>>
       \/ /\ pc[r] = "apply_del"
          /\ answered' = answered \cup {about[r]}
          /\ Done(r)
       \/ /\ pc[r] = "rate_del"
          /\ Done(r)
          /\ UNCHANGED answered
    /\ UNCHANGED <<rows, mine, averages>>

-----------------------------------------------------------------------------
Init ==
    /\ rows = [i \in Ids |-> Nothing]
    /\ mine = [k \in Keys |-> Nothing]
    /\ ratings = [s \in Students |-> 0]
    /\ average = [s \in Students |-> Nothing]
    /\ expiring = {}
    /\ pc = [r \in Requests |-> "idle"]
    /\ who = [r \in Requests |-> Nothing]
    /\ about = [r \in Requests |-> Nothing]
    /\ status = [r \in Requests |-> Nothing]
    /\ page = [r \in Requests |-> {}]
    /\ count = [r \in Requests |-> 0]
    /\ promised = [r \in Requests |-> {}]
    /\ answered = {}
    /\ told = [s \in Students |-> 0]
    /\ straddled = {}
    /\ undated = {}
    /\ faults = 0

Arrive(r) ==
    \/ \E s \in Students : \/ GetMyApplications(r, s) \/ GetReceivedApplications(r, s)
                           \/ CreateRating(r, s) \/ GetRatingsForStudent(r, s)
                           \/ \E j \in Jobs : Apply(r, s, j)
    \/ \E i \in Ids, st \in NewStatuses : UpdateStatus(r, i, st)

Proceed(r) ==
    \/ ApplyFind(r) \/ ApplySave(r) \/ ApplyDel(r)
    \/ MineGet(r) \/ MineFind(r) \/ MineSet(r) \/ ReceivedFind(r) \/ MineAnswer(r)
    \/ StatusFind(r) \/ StatusSave(r)
    \/ RateSave(r) \/ RateDel(r) \/ AvgGet(r) \/ AvgFind(r) \/ AvgSet(r) \/ AvgExpire(r)

Next ==
    \/ \E r \in Requests : Arrive(r) \/ Proceed(r) \/ Abort(r) \/ LoseCall(r)
    \/ \E s \in Students : ExpireAverage(s) \/ ExpireMine(s)

Spec == Init /\ [][Next]_vars

\* A handler that runs goes on, and Redis drops keys whose time is over.
FairSpec ==
    /\ Spec
    /\ \A r \in Requests : WF_vars(Proceed(r))
    /\ \A s \in Students : WF_vars(ExpireAverage(s))

-----------------------------------------------------------------------------
(* Properties *)

\* DuplicatesBounded: the search for an earlier application and the insert are
\* two calls, so that a student may have several applications for a job, but no
\* more than there were requests at once.
DuplicatesBounded ==
    \A s \in Students, j \in Jobs : Cardinality(RowsFor(s, j)) <= Cardinality(Requests)

\* ListingCurrent: the listing a student or a business is answered has each of
\* the student's applications whose apply was answered before it was asked for.
ListingCurrent ==
    \A r \in Requests : pc[r] = "mine_answer" =>
        promised[r] \cap RowsOf(who[r]) \subseteq page[r]

\* AverageExplained: a cached average has every rating whose creation deleted
\* its key, unless it was being computed, from fewer ratings, at the last of
\* these deletions.
AverageExplained ==
    \A s \in Students : average[s] # Nothing /\ average[s] < told[s] => s \in straddled

\* AveragesCatchUp: an average that lacks ratings, because its deletion failed or
\* because it was stored after the deletion, goes or is made anew, unless it is
\* one whose time to live could not be set.
AveragesCatchUp ==
    \A s \in Students :
        (average[s] # Nothing /\ average[s] < ratings[s]) ~>
            (average[s] = Nothing \/ average[s] = ratings[s] \/ s \in undated)
=============================================================================
