--------------------------- MODULE JobBoardProofs ---------------------------
(* Proofs about jobs and their listing, for every number of jobs, listings,   *)
(* overlapping requests, crons, updates and failures.                         *)
EXTENDS JobBoard, FiniteSetTheorems, SequenceTheorems, TLAPS

-----------------------------------------------------------------------------
(* What the slots and crons have by each step.  Of a page only this is used:   *)
(* it is a function of the column status and the key.                          *)

Columns == {column \in Seq(Statuses) : 1..Len(column) \subseteq Ids}
Answers == {PageOf(column, k) : column \in Columns, k \in Keys} \cup {Miss}

TableType ==
    /\ jobs \in Seq(Row) /\ 1..Len(jobs) \subseteq Ids
    /\ wanted \in Seq(Row) /\ Len(wanted) = Len(jobs)

LocalsType ==
    /\ pc \in [Requests -> Steps]
    /\ job \in [Requests -> Ids \cup {0}]
    /\ change \in [Requests -> Changes \cup {NoChange}]
    /\ copy \in [Requests -> Row \cup {NoRow}]
    /\ key \in [Requests -> Keys \cup {NoKey}]
    /\ answer \in [Requests -> Answers]
    /\ found \in [Requests -> SUBSET Keys]

SlotOK(r) ==
    /\ pc[r] = "update_save" =>
          job[r] \in 1..Len(jobs) /\ copy[r] \in Row /\ change[r] \in Changes
    /\ pc[r] # "update_save" => copy[r] = NoRow
    /\ pc[r] \in {"list_query", "list_set"} => key[r] \in Keys
    /\ pc[r] # "del" => found[r] = {}

BatchOK(c) == \A j \in Ids : batch[c][j] # NoRow => j \in 1..Len(jobs)

TypeInv ==
    /\ TableType /\ LocalsType
    /\ cached \in [Keys -> Answers]
    /\ batch \in [Crons -> [Ids -> Row \cup {NoRow}]]
    /\ \A r \in Requests : SlotOK(r)
    /\ \A c \in Crons : BatchOK(c)

SameSlot(s) ==
    /\ pc'[s] = pc[s] /\ job'[s] = job[s] /\ change'[s] = change[s] /\ copy'[s] = copy[s]
    /\ key'[s] = key[s] /\ answer'[s] = answer[s] /\ found'[s] = found[s]

StepOf(r) == LocalsType' /\ \A s \in Requests \ {r} : SameSlot(s)

LEMMA RowType == NoRow \notin Row
  BY RowAssumption

LEMMA PostedType == \A d \in NewDays \cup {1} : Posted(d) \in Row
  BY RowAssumption, BoundAssumption DEF Posted, Row, Statuses, Days

LEMMA AssignType ==
    ASSUME NEW row \in Row, NEW ch \in Changes PROVE Assign(row, ch) \in Row
  <1>1. CASE ch \in {"status"} \X NewStatuses
    <2>1. ch[1] = "status" /\ ch[2] \in Statuses
      BY <1>1, RowAssumption
    <2> QED
      BY <2>1 DEF Assign, Row
  <1>2. CASE ch \in {"closedAt"} \X ChangedDays
    <2>1. ch[1] = "closedAt" /\ ch[2] \in Days
      BY <1>2, RowAssumption
    <2> QED
      BY <2>1 DEF Assign, Row
  <1> QED
    BY <1>1, <1>2 DEF Changes

LEMMA ColumnType ==
    ASSUME TableType PROVE StatusColumn \in Columns /\ Len(StatusColumn) = Len(jobs)
  <1>1. /\ Len(jobs) \in Nat /\ 1..Len(jobs) \subseteq Ids
        /\ \A j \in 1..Len(jobs) : jobs[j] \in Row
    BY DEF TableType
  <1>2. \A j \in 1..Len(jobs) : jobs[j].status \in Statuses
    BY <1>1 DEF Row
  <1>3. StatusColumn \in Seq(Statuses) /\ Len(StatusColumn) = Len(jobs)
    BY <1>1, <1>2 DEF StatusColumn
  <1> QED
    BY <1>1, <1>3 DEF Columns

LEMMA PageType == ASSUME TableType, NEW k \in Keys PROVE Page(k) \in Answers
  BY ColumnType DEF Page, Answers

LEMMA IdsType == ASSUME TableType PROVE \A j \in 1..Len(jobs) : j \in Ids /\ jobs[j] \in Row
  BY DEF TableType

-----------------------------------------------------------------------------
(* Types *)

LEMMA Keeps ==
    ASSUME TypeInv, NEW r \in Requests, StepOf(r), SlotOK(r)', TableType',
           1..Len(jobs) \subseteq 1..Len(jobs'), batch' = batch, cached' \in [Keys -> Answers]
    PROVE  TypeInv'
  <1>1. ASSUME NEW s \in Requests \ {r} PROVE SlotOK(s)'
    BY DEF TypeInv, SlotOK, StepOf, SameSlot
  <1>2. ASSUME NEW c \in Crons PROVE BatchOK(c)'
    BY DEF TypeInv, BatchOK
  <1> QED
    BY <1>1, <1>2 DEF TypeInv, StepOf

LEMMA DoneStep ==
    ASSUME TypeInv, NEW r \in Requests, Done(r)
    PROVE  /\ StepOf(r) /\ SlotOK(r)'
           /\ pc'[r] = "idle" /\ copy'[r] = NoRow /\ found'[r] = {}
  BY DEF TypeInv, LocalsType, Done, Goto, Steps, StepOf, SameSlot, SlotOK, Answers

LEMMA GotoStep ==
    ASSUME TypeInv, NEW r \in Requests, NEW step \in Steps, Goto(r, step)
    PROVE  /\ pc' \in [Requests -> Steps] /\ pc'[r] = step
           /\ \A s \in Requests \ {r} : pc'[s] = pc[s]
  BY DEF TypeInv, LocalsType, Goto

LEMMA Quiet ==
    ASSUME TypeInv, NEW r \in Requests, StepOf(r), SlotOK(r)', UNCHANGED <<jobs, wanted, batch>>,
           cached' \in [Keys -> Answers]
    PROVE  TypeInv'
  <1>1. TableType'
    BY DEF TypeInv, TableType
  <1> QED
    BY <1>1, Keeps

LEMMA CreateJobType ==
    ASSUME TypeInv, NEW r \in Requests, NEW d \in NewDays, CreateJob(r, d)
    PROVE  /\ TypeInv' /\ StepOf(r) /\ pc'[r] = "mail"
           /\ Len(jobs) \in Nat /\ Len(jobs') = Len(jobs) + 1 /\ Len(wanted') = Len(wanted) + 1
           /\ \A j \in 1..Len(jobs) : jobs'[j] = jobs[j] /\ wanted'[j] = wanted[j]
           /\ jobs'[Len(jobs) + 1] = wanted'[Len(jobs) + 1]
           /\ UNCHANGED <<job, copy>>
  <1>1. Posted(d) \in Row /\ "mail" \in Steps
    BY PostedType DEF Steps
  <1>2. /\ Len(jobs) < MaxJobs /\ pc[r] = "idle"
        /\ jobs' = Append(jobs, Posted(d)) /\ wanted' = Append(wanted, Posted(d))
        /\ Goto(r, "mail")
        /\ UNCHANGED <<today, cached, job, change, copy, key, answer, found, batch, edits,
                       overlap, raced, skipped, faults>>
    BY DEF CreateJob
  <1>3. jobs \in Seq(Row) /\ wanted \in Seq(Row) /\ Len(wanted) = Len(jobs)
    BY DEF TypeInv, TableType
  <1>4. /\ jobs' \in Seq(Row) /\ wanted' \in Seq(Row)
        /\ Len(jobs) \in Nat /\ Len(jobs') = Len(jobs) + 1 /\ Len(wanted') = Len(wanted) + 1
        /\ \A j \in 1..Len(jobs) : jobs'[j] = jobs[j] /\ wanted'[j] = wanted[j]
        /\ jobs'[Len(jobs) + 1] = Posted(d) /\ wanted'[Len(jobs) + 1] = Posted(d)
    <2>1. ASSUME NEW q \in Seq(Row), NEW x \in Row
          PROVE  /\ Append(q, x) \in Seq(Row) /\ Len(Append(q, x)) = Len(q) + 1
                 /\ \A j \in 1..Len(q) : Append(q, x)[j] = q[j]
                 /\ Append(q, x)[Len(q) + 1] = x
      OBVIOUS
    <2> QED
      BY <1>1, <1>2, <1>3, <2>1
  <1>5. Len(jobs) + 1 \in Ids
    <2>1. MaxJobs \in Nat
      BY BoundAssumption
    <2> QED
      BY <1>2, <1>4, <2>1 DEF Ids
  <1>6. TableType'
    <2>1. 1..Len(jobs) \subseteq Ids
      BY DEF TypeInv, TableType
    <2>2. 1..Len(jobs') \subseteq Ids
      BY <1>4, <1>5, <2>1
    <2> QED
      BY <1>3, <1>4, <2>2 DEF TableType
  <1>7. StepOf(r) /\ pc'[r] = "mail"
    BY <1>1, <1>2, GotoStep DEF StepOf, SameSlot, LocalsType, TypeInv
  <1>8. SlotOK(r)'
    BY <1>2, <1>7 DEF SlotOK, TypeInv
  <1>9. TypeInv'
    <2>1. Len(jobs) \in Nat /\ Len(jobs') \in Nat /\ Len(jobs) <= Len(jobs')
      BY <1>4
    <2>2. UNCHANGED <<cached, batch>>
      BY <1>2
    <2> QED
      BY <1>6, <1>7, <1>8, <2>1, <2>2, Keeps DEF TypeInv
  <1> QED
    BY <1>2, <1>4, <1>7, <1>9

\* What Overlaps leaves of the history of a column.
LEMMA OverlapsType ==
    ASSUME TableType, NEW js, Overlaps(js)
    PROVE  /\ wanted' \in Seq(Row) /\ Len(wanted') = Len(wanted)
           /\ \A j \in 1..Len(wanted) : j \notin js => wanted'[j] = wanted[j]
           /\ overlap' = overlap \cup js
  <1>1. Posted(1) \in Row
    BY PostedType
  <1>2. /\ wanted \in Seq(Row) /\ Len(wanted) \in Nat /\ DOMAIN wanted = 1..Len(wanted)
        /\ \A j \in 1..Len(wanted) : wanted[j] \in Row
    BY DEF TableType
  <1>3. wanted' = [j \in 1..Len(wanted) |-> IF j \in js THEN Posted(1) ELSE wanted[j]]
    BY <1>2 DEF Overlaps
  <1>4. wanted' \in Seq(Row) /\ Len(wanted') = Len(wanted)
    BY <1>1, <1>2, <1>3
  <1> QED
    BY <1>3, <1>4 DEF Overlaps

LEMMA UpdateJobType ==
    ASSUME TypeInv, NEW r \in Requests, NEW j \in 1..Len(jobs), NEW ch \in Changes,
           UpdateJob(r, j, ch)
    PROVE  /\ TypeInv' /\ StepOf(r) /\ pc[r] = "idle" /\ pc'[r] = "update_save"
           /\ job'[r] = j /\ copy'[r] = jobs[j]
  <1>1. /\ pc[r] = "idle" /\ Goto(r, "update_save")
        /\ job' = [job EXCEPT ![r] = j] /\ change' = [change EXCEPT ![r] = ch]
        /\ copy' = [copy EXCEPT ![r] = jobs[j]]
        /\ Overlaps({k \in {j} : HeldByOther(r, k)})
        /\ UNCHANGED <<jobs, today, cached, key, answer, found, batch, raced, skipped, faults>>
    BY DEF UpdateJob
  <1>2. j \in Ids /\ jobs[j] \in Row /\ "update_save" \in Steps
    BY IdsType DEF TypeInv, Steps
  <1>3. /\ pc' \in [Requests -> Steps] /\ pc'[r] = "update_save"
        /\ \A s \in Requests \ {r} : pc'[s] = pc[s]
    BY <1>1, <1>2, GotoStep
  <1>4. /\ job' \in [Requests -> Ids \cup {0}] /\ job'[r] = j
        /\ change' \in [Requests -> Changes \cup {NoChange}] /\ change'[r] = ch
        /\ copy' \in [Requests -> Row \cup {NoRow}] /\ copy'[r] = jobs[j]
        /\ \A s \in Requests \ {r} :
              job'[s] = job[s] /\ change'[s] = change[s] /\ copy'[s] = copy[s]
    BY <1>1, <1>2 DEF TypeInv, LocalsType
  <1>5. StepOf(r)
    BY <1>1, <1>3, <1>4 DEF StepOf, SameSlot, LocalsType, TypeInv
  <1>6. TableType'
    BY <1>1, OverlapsType DEF TypeInv, TableType
  <1>7. SlotOK(r)'
    BY <1>1, <1>2, <1>3, <1>4 DEF SlotOK, TypeInv
  <1>8. TypeInv'
    BY <1>1, <1>5, <1>6, <1>7, Keeps DEF TypeInv
  <1> QED
    BY <1>1, <1>3, <1>4, <1>5, <1>8

LEMMA UpdateSaveType ==
    ASSUME TypeInv, NEW r \in Requests, UpdateSave(r)
    PROVE  /\ TypeInv' /\ StepOf(r) /\ pc[r] = "update_save" /\ pc'[r] = "mail"
           /\ job[r] \in 1..Len(jobs) /\ job' = job /\ copy'[r] = NoRow
           /\ jobs'[job[r]] = Assign(copy[r], change[r])
           /\ job[r] \notin overlap => wanted'[job[r]] = Assign(wanted[job[r]], change[r])
           /\ Len(jobs') = Len(jobs)
           /\ \A j \in (1..Len(jobs)) \ {job[r]} : jobs'[j] = jobs[j] /\ wanted'[j] = wanted[j]
  <1>1. /\ pc[r] = "update_save"
        /\ jobs' = [jobs EXCEPT ![job[r]] = Assign(copy[r], change[r])]
        /\ wanted' = [wanted EXCEPT ![job[r]] =
                         IF job[r] \in overlap THEN @ ELSE Assign(@, change[r])]
        /\ copy' = [copy EXCEPT ![r] = NoRow] /\ Goto(r, "mail")
        /\ UNCHANGED <<today, cached, job, change, key, answer, found, batch, edits, overlap,
                       raced, skipped, faults>>
    BY DEF UpdateSave
  <1>2. job[r] \in 1..Len(jobs) /\ copy[r] \in Row /\ change[r] \in Changes /\ "mail" \in Steps
    BY <1>1 DEF TypeInv, SlotOK, Steps
  <1>3. /\ jobs \in Seq(Row) /\ wanted \in Seq(Row) /\ Len(wanted) = Len(jobs)
        /\ wanted[job[r]] \in Row
    BY <1>2 DEF TypeInv, TableType
  <1>4. Assign(copy[r], change[r]) \in Row /\ Assign(wanted[job[r]], change[r]) \in Row
    BY <1>2, <1>3, AssignType
  <1>5. ASSUME NEW q \in Seq(Row), NEW n \in 1..Len(q), NEW x \in Row
        PROVE  /\ [q EXCEPT ![n] = x] \in Seq(Row) /\ Len([q EXCEPT ![n] = x]) = Len(q)
               /\ [q EXCEPT ![n] = x][n] = x
               /\ \A j \in (1..Len(q)) \ {n} : [q EXCEPT ![n] = x][j] = q[j]
    OBVIOUS
  <1>6. /\ jobs' \in Seq(Row) /\ Len(jobs') = Len(jobs)
        /\ jobs'[job[r]] = Assign(copy[r], change[r])
        /\ \A j \in (1..Len(jobs)) \ {job[r]} : jobs'[j] = jobs[j]
    BY <1>1, <1>2, <1>3, <1>4, <1>5
  <1>7. /\ wanted' \in Seq(Row) /\ Len(wanted') = Len(wanted)
        /\ job[r] \notin overlap => wanted'[job[r]] = Assign(wanted[job[r]], change[r])
        /\ \A j \in (1..Len(jobs)) \ {job[r]} : wanted'[j] = wanted[j]
    <2> PICK x \in Row :
          x = IF job[r] \in overlap THEN wanted[job[r]] ELSE Assign(wanted[job[r]], change[r])
      BY <1>3, <1>4
    <2>1. wanted' = [wanted EXCEPT ![job[r]] = x]
      BY <1>1
    <2> QED
      BY <1>2, <1>3, <1>5, <2>1
  <1>8. TableType'
    BY <1>3, <1>6, <1>7 DEF TypeInv, TableType
  <1>9. /\ copy' \in [Requests -> Row \cup {NoRow}] /\ copy'[r] = NoRow
        /\ \A s \in Requests \ {r} : copy'[s] = copy[s]
    BY <1>1 DEF TypeInv, LocalsType
  <1>10. StepOf(r) /\ pc'[r] = "mail"
    BY <1>1, <1>2, <1>9, GotoStep DEF StepOf, SameSlot, LocalsType, TypeInv
  <1>11. SlotOK(r)'
    BY <1>1, <1>9, <1>10 DEF SlotOK, TypeInv
  <1>12. TypeInv'
    BY <1>1, <1>6, <1>8, <1>10, <1>11, Keeps DEF TypeInv
  <1> QED
    BY <1>1, <1>2, <1>6, <1>7, <1>9, <1>10, <1>12

LEMMA MailType ==
    ASSUME TypeInv, NEW r \in Requests, Mail(r)
    PROVE  TypeInv' /\ StepOf(r) /\ pc'[r] = "keys"
  <1>1. /\ pc[r] = "mail" /\ Goto(r, "keys") /\ "keys" \in Steps
        /\ UNCHANGED <<jobs, today, cached, job, change, copy, key, answer, found, batch, edits,
                       wanted>>
    BY DEF Mail, Steps, history
  <1>2. StepOf(r) /\ pc'[r] = "keys"
    BY <1>1, GotoStep DEF StepOf, SameSlot, LocalsType, TypeInv
  <1>3. SlotOK(r)'
    BY <1>1, <1>2 DEF SlotOK, TypeInv
  <1> QED
    BY <1>1, <1>2, <1>3, Quiet DEF TypeInv

LEMMA KeysOfPatternType ==
    ASSUME TypeInv, NEW r \in Requests, KeysOfPattern(r)
    PROVE  /\ TypeInv' /\ StepOf(r) /\ pc'[r] = "del"
           /\ found'[r] = {k \in Keys : cached[k] # Miss}
  <1>1. /\ pc[r] = "keys" /\ Goto(r, "del") /\ "del" \in Steps
        /\ found' = [found EXCEPT ![r] = {k \in Keys : cached[k] # Miss}]
        /\ UNCHANGED <<jobs, today, cached, job, change, copy, key, answer, batch, edits, wanted>>
    BY DEF KeysOfPattern, Steps, history
  <1>2. /\ found' \in [Requests -> SUBSET Keys] /\ found'[r] = {k \in Keys : cached[k] # Miss}
        /\ \A s \in Requests \ {r} : found'[s] = found[s]
    <2> PICK ks \in SUBSET Keys : ks = {k \in Keys : cached[k] # Miss}
      OBVIOUS
    <2>1. found' = [found EXCEPT ![r] = ks]
      BY <1>1
    <2> QED
      BY <2>1 DEF TypeInv, LocalsType
  <1>3. StepOf(r) /\ pc'[r] = "del"
    BY <1>1, <1>2, GotoStep DEF StepOf, SameSlot, LocalsType, TypeInv
  <1>4. SlotOK(r)'
    BY <1>1, <1>3 DEF SlotOK, TypeInv
  <1> QED
    BY <1>1, <1>2, <1>3, <1>4, Quiet DEF TypeInv

LEMMA DropType ==
    ASSUME TypeInv, NEW ks, Drop(ks)
    PROVE  /\ cached' \in [Keys -> Answers]
           /\ \A k \in Keys : cached'[k] = IF k \in ks THEN Miss ELSE cached[k]
  BY DEF TypeInv, Drop, Answers

LEMMA DeleteKeyType ==
    ASSUME TypeInv, NEW r \in Requests, DeleteKey(r)
    PROVE  /\ TypeInv' /\ StepOf(r) /\ copy'[r] = NoRow
           /\ \A k \in found[r] : k \in found'[r] \/ cached'[k] = Miss
  <1>1. /\ pc[r] = "del" /\ copy[r] = NoRow /\ found[r] \in SUBSET Keys
        /\ UNCHANGED <<jobs, today, batch, edits, wanted, overlap, faults>>
    BY DEF DeleteKey, TypeInv, SlotOK, LocalsType
  <1>2. CASE \E k \in found[r] : /\ Drop({k}) /\ found' = [found EXCEPT ![r] = @ \ {k}]
                                 /\ UNCHANGED <<pc, job, change, copy, key, answer>>
    <2> PICK k \in found[r] : /\ Drop({k}) /\ found' = [found EXCEPT ![r] = @ \ {k}]
                              /\ UNCHANGED <<pc, job, change, copy, key, answer>>
      BY <1>2
    <2>1. StepOf(r) /\ found'[r] = found[r] \ {k}
      BY DEF StepOf, SameSlot, LocalsType, TypeInv
    <2>2. SlotOK(r)'
      BY <1>1 DEF SlotOK, TypeInv
    <2>3. cached' \in [Keys -> Answers] /\ cached'[k] = Miss
      BY <1>1, DropType
    <2> QED
      BY <1>1, <2>1, <2>2, <2>3, Quiet
  <1>3. CASE found[r] = {} /\ Done(r) /\ UNCHANGED <<cached, raced, skipped>>
    BY <1>1, <1>3, DoneStep, Quiet DEF TypeInv
  <1> QED
    BY <1>2, <1>3 DEF DeleteKey

LEMMA GetAllJobsType ==
    ASSUME TypeInv, NEW r \in Requests, NEW k \in Keys, GetAllJobs(r, k)
    PROVE  TypeInv' /\ StepOf(r) /\ pc[r] = "idle"
  <1>1. /\ pc[r] = "idle" /\ Goto(r, "list_query") /\ "list_query" \in Steps
        /\ key' = [key EXCEPT ![r] = k]
        /\ UNCHANGED <<jobs, today, cached, job, change, copy, answer, found, batch, edits, wanted>>
    BY DEF GetAllJobs, Steps, history
  <1>2. StepOf(r) /\ pc'[r] = "list_query" /\ key'[r] = k
    BY <1>1, GotoStep DEF StepOf, SameSlot, LocalsType, TypeInv
  <1>3. SlotOK(r)'
    BY <1>1, <1>2 DEF SlotOK, TypeInv
  <1> QED
    BY <1>1, <1>2, <1>3, Quiet DEF TypeInv

LEMMA ListQueryType ==
    ASSUME TypeInv, NEW r \in Requests, ListQuery(r)
    PROVE  TypeInv' /\ StepOf(r) /\ pc[r] = "list_query"
  <1>1. /\ pc[r] = "list_query" /\ Goto(r, "list_set") /\ "list_set" \in Steps
        /\ answer' = [answer EXCEPT ![r] = Page(key[r])]
        /\ UNCHANGED <<jobs, today, cached, job, change, copy, key, found, batch, edits, wanted>>
    BY DEF ListQuery, Steps, history
  <1>2. Page(key[r]) \in Answers
    BY <1>1, PageType DEF TypeInv, SlotOK
  <1>3. StepOf(r) /\ pc'[r] = "list_set"
    <2> PICK page \in Answers : page = Page(key[r])
      BY <1>2
    <2>1. answer' = [answer EXCEPT ![r] = page]
      BY <1>1
    <2> QED
      BY <1>1, <2>1, GotoStep DEF StepOf, SameSlot, LocalsType, TypeInv
  <1>4. SlotOK(r)'
    BY <1>1, <1>3 DEF SlotOK, TypeInv
  <1> QED
    BY <1>1, <1>3, <1>4, Quiet DEF TypeInv

LEMMA ListSetType ==
    ASSUME TypeInv, NEW r \in Requests, ListSet(r)
    PROVE  /\ TypeInv' /\ StepOf(r) /\ copy'[r] = NoRow /\ key[r] \in Keys
           /\ \A k \in Keys : cached'[k] = IF k = key[r] THEN answer[r] ELSE cached[k]
           /\ pc[r] = "list_set"
  <1>1. /\ pc[r] = "list_set" /\ Done(r)
        /\ cached' = [cached EXCEPT ![key[r]] = answer[r]]
        /\ UNCHANGED <<jobs, today, batch, edits, wanted, overlap, faults>>
    BY DEF ListSet
  <1>2. key[r] \in Keys /\ answer[r] \in Answers /\ cached \in [Keys -> Answers]
    BY <1>1 DEF TypeInv, SlotOK, LocalsType
  <1>3. /\ cached' \in [Keys -> Answers]
        /\ \A k \in Keys : cached'[k] = IF k = key[r] THEN answer[r] ELSE cached[k]
    BY <1>1, <1>2
  <1> QED
    BY <1>1, <1>2, <1>3, DoneStep, Quiet

LEMMA AbortType ==
    ASSUME TypeInv, NEW r \in Requests, Abort(r)
    PROVE  TypeInv' /\ StepOf(r) /\ copy'[r] = NoRow
  <1>1. /\ Done(r)
        /\ UNCHANGED <<jobs, today, cached, batch, edits, wanted, overlap, raced>>
    BY DEF Abort
  <1> QED
    BY <1>1, DoneStep, Quiet DEF TypeInv

LEMMA CronKeeps ==
    ASSUME TypeInv, UNCHANGED <<request, cached>>, TableType', Len(jobs') = Len(jobs),
           batch' \in [Crons -> [Ids -> Row \cup {NoRow}]], \A c \in Crons : BatchOK(c)'
    PROVE  TypeInv' /\ \A r \in Requests : SameSlot(r)
  BY DEF TypeInv, LocalsType, SlotOK, SameSlot, request

LEMMA CronFindType ==
    ASSUME TypeInv, NEW c \in Crons, CronFind(c)
    PROVE  /\ TypeInv' /\ \A r \in Requests : SameSlot(r)
           /\ jobs' = jobs
           /\ \A d \in Crons \ {c} : batch'[d] = batch[d]
           /\ \A j \in Ids : batch'[c][j] # NoRow =>
                 /\ j \in 1..Len(jobs) /\ batch'[c][j] = jobs[j]
                 /\ j \notin overlap' => ~ HeldByOther(c, j)
  <1> DEFINE due == {j \in 1..Len(jobs) : Due(j) /\ jobs[j].active}
             rows == [j \in Ids |-> IF j \in due THEN jobs[j] ELSE NoRow]
  <1>1. /\ batch' = [batch EXCEPT ![c] = rows]
        /\ Overlaps({j \in due : HeldByOther(c, j)})
        /\ UNCHANGED <<jobs, today, cached, request, edits, raced, skipped, faults>>
    BY DEF CronFind
  <1>2. rows \in [Ids -> Row \cup {NoRow}]
    BY IdsType DEF TypeInv
  <1>3. PICK found_rows \in [Ids -> Row \cup {NoRow}] : found_rows = rows
    BY <1>2
  <1>4. batch' = [batch EXCEPT ![c] = found_rows]
    BY <1>1, <1>3
  <1>5. /\ batch' \in [Crons -> [Ids -> Row \cup {NoRow}]] /\ batch'[c] = found_rows
        /\ \A d \in Crons \ {c} : batch'[d] = batch[d]
    BY <1>4 DEF TypeInv
  <1>6. \A j \in Ids : batch'[c][j] # NoRow => j \in due /\ batch'[c][j] = jobs[j]
    BY <1>3, <1>5
  <1>7. TableType' /\ overlap' = overlap \cup {j \in due : HeldByOther(c, j)}
    BY <1>1, OverlapsType DEF TypeInv, TableType
  <1>8. \A d \in Crons : BatchOK(d)'
    BY <1>1, <1>5, <1>6 DEF TypeInv, BatchOK
  <1>9. TypeInv' /\ \A r \in Requests : SameSlot(r)
    BY <1>1, <1>5, <1>7, <1>8, CronKeeps
  <1> QED
    BY <1>1, <1>5, <1>6, <1>7, <1>9

LEMMA DrainedType ==
    ASSUME TypeInv, NEW c \in Crons, Drained(c)
    PROVE  /\ batch' \in [Crons -> [Ids -> Row \cup {NoRow}]]
           /\ \A d \in Crons \ {c} : batch'[d] = batch[d]
           /\ \A j \in Ids : batch'[c][j] = NoRow
  <1>1. PICK rows \in [Ids -> Row \cup {NoRow}] : rows = [j \in Ids |-> NoRow]
    OBVIOUS
  <1>2. batch' = [batch EXCEPT ![c] = rows]
    BY <1>1 DEF Drained
  <1>3. batch'[c] = rows
    BY <1>2 DEF TypeInv
  <1> QED
    BY <1>1, <1>2, <1>3 DEF TypeInv

LEMMA CronSaveType ==
    ASSUME TypeInv, NEW c \in Crons, CronSave(c)
    PROVE  /\ TypeInv' /\ \A r \in Requests : SameSlot(r)
           /\ Len(jobs') = Len(jobs)
           /\ \A d \in Crons \ {c} : batch'[d] = batch[d]
           /\ \A j \in Ids : batch'[c][j] = NoRow
           /\ \A j \in 1..Len(jobs) :
                 IF batch[c][j] = NoRow THEN jobs'[j] = jobs[j] /\ wanted'[j] = wanted[j]
                 ELSE /\ batch[c][j] \in Row
                      /\ jobs'[j] = [batch[c][j] EXCEPT !.active = FALSE]
                      /\ j \notin overlap => wanted'[j] = [wanted[j] EXCEPT !.active = FALSE]
  <1>1. /\ jobs' = [j \in DOMAIN jobs |->
              IF batch[c][j] = NoRow THEN jobs[j] ELSE [batch[c][j] EXCEPT !.active = FALSE]]
        /\ wanted' = [j \in DOMAIN wanted |->
              IF batch[c][j] = NoRow \/ j \in overlap THEN wanted[j]
              ELSE [wanted[j] EXCEPT !.active = FALSE]]
        /\ Drained(c)
        /\ UNCHANGED <<today, cached, request, edits, overlap, raced, faults>>
    BY DEF CronSave
  <1>2. /\ DOMAIN jobs = 1..Len(jobs) /\ DOMAIN wanted = 1..Len(jobs) /\ Len(jobs) \in Nat
        /\ \A j \in 1..Len(jobs) : j \in Ids /\ jobs[j] \in Row /\ wanted[j] \in Row
    BY IdsType DEF TypeInv, TableType
  <1>3. \A row \in Row : [row EXCEPT !.active = FALSE] \in Row
    BY DEF Row
  <1>4. \A j \in Ids : batch[c][j] \in Row \cup {NoRow}
    BY DEF TypeInv
  <1>5. /\ jobs' \in Seq(Row) /\ Len(jobs') = Len(jobs)
        /\ \A j \in 1..Len(jobs) :
              jobs'[j] = IF batch[c][j] = NoRow THEN jobs[j]
                         ELSE [batch[c][j] EXCEPT !.active = FALSE]
    <2> DEFINE new(j) == IF batch[c][j] = NoRow THEN jobs[j]
                         ELSE [batch[c][j] EXCEPT !.active = FALSE]
    <2>1. \A j \in 1..Len(jobs) : new(j) \in Row
      BY <1>2, <1>3, <1>4
    <2>2. jobs' = [j \in 1..Len(jobs) |-> new(j)]
      BY <1>1, <1>2
    <2> HIDE DEF new
    <2>3. jobs' \in Seq(Row) /\ Len(jobs') = Len(jobs) /\ \A j \in 1..Len(jobs) : jobs'[j] = new(j)
      BY <1>2, <2>1, <2>2
    <2> QED
      BY <2>3 DEF new
  <1>6. /\ wanted' \in Seq(Row) /\ Len(wanted') = Len(jobs)
        /\ \A j \in 1..Len(jobs) :
              wanted'[j] = IF batch[c][j] = NoRow \/ j \in overlap THEN wanted[j]
                           ELSE [wanted[j] EXCEPT !.active = FALSE]
    <2> DEFINE new(j) == IF batch[c][j] = NoRow \/ j \in overlap THEN wanted[j]
                         ELSE [wanted[j] EXCEPT !.active = FALSE]
    <2>1. \A j \in 1..Len(jobs) : new(j) \in Row
      BY <1>2, <1>3
    <2>2. wanted' = [j \in 1..Len(jobs) |-> new(j)]
      BY <1>1, <1>2
    <2> HIDE DEF new
    <2>3. /\ wanted' \in Seq(Row) /\ Len(wanted') = Len(jobs)
          /\ \A j \in 1..Len(jobs) : wanted'[j] = new(j)
      BY <1>2, <2>1, <2>2
    <2> QED
      BY <2>3 DEF new
  <1>7. TableType'
    BY <1>2, <1>5, <1>6 DEF TableType
  <1>8. /\ batch' \in [Crons -> [Ids -> Row \cup {NoRow}]]
        /\ \A d \in Crons \ {c} : batch'[d] = batch[d]
        /\ \A j \in Ids : batch'[c][j] = NoRow
    BY <1>1, DrainedType
  <1>9. \A d \in Crons : BatchOK(d)'
    BY <1>5, <1>8 DEF TypeInv, BatchOK
  <1>10. TypeInv' /\ \A r \in Requests : SameSlot(r)
    BY <1>1, <1>5, <1>7, <1>8, <1>9, CronKeeps
  <1> QED
    BY <1>2, <1>4, <1>5, <1>6, <1>8, <1>10

LEMMA CronAbortType ==
    ASSUME TypeInv, NEW c \in Crons, CronAbort(c)
    PROVE  /\ TypeInv' /\ \A r \in Requests : SameSlot(r)
           /\ \A d \in Crons \ {c} : batch'[d] = batch[d]
           /\ \A j \in Ids : batch'[c][j] = NoRow
  <1>1. /\ Drained(c)
        /\ UNCHANGED <<jobs, today, cached, request, edits, wanted, overlap, raced, skipped>>
    BY DEF CronAbort
  <1>2. /\ batch' \in [Crons -> [Ids -> Row \cup {NoRow}]]
        /\ \A d \in Crons \ {c} : batch'[d] = batch[d]
        /\ \A j \in Ids : batch'[c][j] = NoRow
    BY <1>1, DrainedType
  <1>3. \A d \in Crons : BatchOK(d)'
    BY <1>1, <1>2 DEF TypeInv, BatchOK
  <1>4. TableType'
    BY <1>1 DEF TypeInv, TableType
  <1> QED
    BY <1>1, <1>2, <1>3, <1>4, CronKeeps

LEMMA ExpireKeyType ==
    ASSUME TypeInv, NEW k \in Keys, ExpireKey(k)
    PROVE  TypeInv' /\ \A r \in Requests : SameSlot(r)
  <1>1. Drop({k}) /\ UNCHANGED <<jobs, today, request, batch, edits, wanted, overlap, faults>>
    BY DEF ExpireKey
  <1> QED
    BY <1>1, DropType DEF TypeInv, TableType, LocalsType, SlotOK, BatchOK, SameSlot, request

-----------------------------------------------------------------------------
(* Edits: while a job was never held twice at once, the copy a slot or a cron  *)
(* holds of it is the row itself, for whoever saves it held it.                *)

Slots == Requests \cup Crons

Copy(x, j) == IF x \in Requests THEN (IF job[x] = j THEN copy[x] ELSE NoRow)
                                ELSE batch[x][j]

SoleHolder(x, j) == Copy(x, j) = jobs[j] /\ \A y \in Slots \ {x} : Copy(y, j) = NoRow

HoldInv ==
    /\ \A x \in Slots, j \in Ids \ overlap : Copy(x, j) # NoRow => SoleHolder(x, j)
    /\ EditsKept

LEMMA CopyType ==
    ASSUME TypeInv, NEW x \in Slots, NEW j \in Ids, Copy(x, j) # NoRow
    PROVE  j \in 1..Len(jobs) /\ Copy(x, j) \in Row
  <1>1. CASE x \in Requests
    BY <1>1 DEF Copy, TypeInv, SlotOK, LocalsType
  <1>2. CASE x \in Crons /\ x \notin Requests
    <2>1. batch[x] \in [Ids -> Row \cup {NoRow}]
      BY <1>2 DEF TypeInv
    <2> QED
      BY <1>2, <2>1 DEF Copy, TypeInv, BatchOK
  <1> QED
    BY <1>1, <1>2 DEF Slots

LEMMA HeldByOtherIs ==
    ASSUME NEW x \in Slots, NEW j \in Ids
    PROVE  HeldByOther(x, j) <=> \E y \in Slots \ {x} : Copy(y, j) # NoRow
  BY SlotAssumption DEF HeldByOther, Slots, Copy

\* Only x changes what it holds: it drops copies, reads rows or writes rows of
\* which it held copies.
LEMMA Effect ==
    ASSUME TypeInv, HoldInv, NEW x \in Slots,
           \A y \in Slots \ {x} : \A j \in Ids : Copy(y, j)' = Copy(y, j),
           overlap \subseteq overlap',
           \A j \in 1..Len(jobs) : Copy(x, j) = NoRow => jobs'[j] = jobs[j],
           \A j \in Ids \ overlap' : Copy(x, j)' # NoRow =>
               /\ Copy(x, j)' = jobs[j] /\ jobs'[j] = jobs[j]
               /\ ~ HeldByOther(x, j) \/ Copy(x, j) # NoRow,
           EditsKept'
    PROVE  HoldInv'
  <1>1. ASSUME NEW y \in Slots, NEW j \in Ids \ overlap', Copy(y, j)' # NoRow
        PROVE  SoleHolder(y, j)'
    <2>0. j \in Ids /\ j \notin overlap
      OBVIOUS
    <2>1. CASE y = x
      <3>1. Copy(x, j)' = jobs'[j] /\ (~ HeldByOther(x, j) \/ Copy(x, j) # NoRow)
        BY <1>1, <2>1
      <3>2. \A z \in Slots \ {x} : Copy(z, j) = NoRow
        BY <2>0, <3>1, HeldByOtherIs DEF HoldInv, SoleHolder
      <3>3. \A z \in Slots \ {x} : Copy(z, j)' = NoRow
        BY <2>0, <3>2
      <3> QED
        BY <2>1, <3>1, <3>3 DEF SoleHolder
    <2>2. CASE y # x
      <3>1. Copy(y, j)' = Copy(y, j) /\ Copy(y, j) # NoRow
        BY <1>1, <2>0, <2>2
      <3>2. j \in 1..Len(jobs)
        BY <2>0, <3>1, CopyType
      <3>3. SoleHolder(y, j)
        BY <2>0, <3>1 DEF HoldInv
      <3>4. Copy(x, j) = NoRow /\ jobs'[j] = jobs[j]
        BY <2>2, <3>2, <3>3 DEF SoleHolder
      <3>5. Copy(x, j)' = NoRow
        BY <2>0, <2>2, <3>1, <3>4, HeldByOtherIs
      <3>6. \A z \in Slots \ {y} : Copy(z, j)' = NoRow
        BY <2>0, <3>3, <3>5 DEF SoleHolder
      <3> QED
        BY <3>1, <3>3, <3>4, <3>6 DEF SoleHolder
    <2> QED
      BY <2>1, <2>2
  <1> QED
    BY <1>1 DEF HoldInv

LEMMA OthersKeepSlot ==
    ASSUME NEW r \in Requests, StepOf(r), batch' = batch
    PROVE  \A y \in Slots \ {r} : \A j \in Ids : Copy(y, j)' = Copy(y, j)
  BY DEF StepOf, SameSlot, Slots, Copy

LEMMA OthersKeepCron ==
    ASSUME NEW c \in Crons, \A r \in Requests : SameSlot(r),
           \A d \in Crons \ {c} : batch'[d] = batch[d]
    PROVE  \A y \in Slots \ {c} : \A j \in Ids : Copy(y, j)' = Copy(y, j)
  BY DEF SameSlot, Slots, Copy

LEMMA QuietHold ==
    ASSUME TypeInv, HoldInv, NEW r \in Requests, StepOf(r), copy'[r] = NoRow,
           UNCHANGED <<jobs, wanted, overlap, batch>>
    PROVE  HoldInv'
  <1>1. \A j \in Ids : Copy(r, j)' = NoRow
    BY DEF Copy
  <1>2. EditsKept'
    BY DEF HoldInv, EditsKept
  <1>3. r \in Slots
    BY DEF Slots
  <1> QED
    BY <1>1, <1>2, <1>3, OthersKeepSlot, Effect

LEMMA CreateJobHolds ==
    ASSUME TypeInv, HoldInv, NEW r \in Requests, NEW d \in NewDays, CreateJob(r, d)
    PROVE  HoldInv'
  <1>1. /\ StepOf(r) /\ UNCHANGED <<job, copy>>
        /\ Len(jobs) \in Nat /\ Len(jobs') = Len(jobs) + 1
        /\ \A j \in 1..Len(jobs) : jobs'[j] = jobs[j] /\ wanted'[j] = wanted[j]
        /\ jobs'[Len(jobs) + 1] = wanted'[Len(jobs) + 1]
    BY CreateJobType
  <1>2. UNCHANGED <<batch, overlap>> /\ r \in Slots /\ pc[r] = "idle"
    BY DEF CreateJob, Slots
  <1>3. \A j \in Ids : Copy(r, j)' = NoRow
    BY <1>1, <1>2 DEF Copy, TypeInv, SlotOK
  <1>4. EditsKept'
    <2> SUFFICES ASSUME NEW j \in (1..(Len(jobs) + 1)) \ overlap PROVE jobs'[j] = wanted'[j]
      BY <1>1, <1>2 DEF EditsKept
    <2>1. CASE j \in 1..Len(jobs)
      BY <1>1, <2>1 DEF HoldInv, EditsKept
    <2>2. CASE j = Len(jobs) + 1
      BY <1>1, <2>2
    <2> QED
      BY <1>1, <2>1, <2>2
  <1> QED
    BY <1>1, <1>2, <1>3, <1>4, OthersKeepSlot, Effect

LEMMA UpdateJobHolds ==
    ASSUME TypeInv, HoldInv, NEW r \in Requests, NEW i \in 1..Len(jobs), NEW ch \in Changes,
           UpdateJob(r, i, ch)
    PROVE  HoldInv'
  <1>1. StepOf(r) /\ job'[r] = i /\ copy'[r] = jobs[i]
    BY UpdateJobType
  <1>2. UNCHANGED <<batch, jobs>> /\ r \in Slots /\ Overlaps({k \in {i} : HeldByOther(r, k)})
    BY DEF UpdateJob, Slots
  <1>3. /\ overlap' = overlap \cup {k \in {i} : HeldByOther(r, k)}
        /\ \A j \in 1..Len(jobs) : j \notin overlap' => wanted'[j] = wanted[j]
    BY <1>2, OverlapsType DEF TypeInv, TableType
  <1>4. EditsKept'
    BY <1>2, <1>3 DEF HoldInv, EditsKept
  <1>5. \A j \in Ids \ overlap' : Copy(r, j)' # NoRow =>
            Copy(r, j)' = jobs[j] /\ ~ HeldByOther(r, j)
    BY <1>1, <1>3 DEF Copy
  <1>6. overlap \subseteq overlap'
    BY <1>3
  <1> QED
    BY <1>1, <1>2, <1>4, <1>5, <1>6, OthersKeepSlot, Effect

LEMMA UpdateSaveHolds ==
    ASSUME TypeInv, HoldInv, NEW r \in Requests, UpdateSave(r)
    PROVE  HoldInv'
  <1>1. /\ StepOf(r) /\ pc[r] = "update_save"
        /\ job[r] \in 1..Len(jobs) /\ job' = job /\ copy'[r] = NoRow
        /\ jobs'[job[r]] = Assign(copy[r], change[r])
        /\ job[r] \notin overlap => wanted'[job[r]] = Assign(wanted[job[r]], change[r])
        /\ Len(jobs') = Len(jobs)
        /\ \A j \in (1..Len(jobs)) \ {job[r]} : jobs'[j] = jobs[j] /\ wanted'[j] = wanted[j]
    BY UpdateSaveType
  <1>2. UNCHANGED <<batch, overlap>> /\ r \in Slots
    BY DEF UpdateSave, Slots
  <1>3. job[r] \in Ids /\ copy[r] \in Row
    BY <1>1, IdsType DEF TypeInv, SlotOK
  <1>4. Copy(r, job[r]) = copy[r] /\ Copy(r, job[r]) # NoRow
    BY <1>3, RowType DEF Copy
  <1>5. job[r] \notin overlap => copy[r] = jobs[job[r]] /\ jobs[job[r]] = wanted[job[r]]
    BY <1>1, <1>2, <1>3, <1>4 DEF HoldInv, SoleHolder, EditsKept
  <1>6. EditsKept'
    <2> SUFFICES ASSUME NEW j \in (1..Len(jobs)) \ overlap PROVE jobs'[j] = wanted'[j]
      BY <1>1, <1>2 DEF EditsKept
    <2>1. CASE j = job[r]
      BY <1>1, <1>5, <2>1
    <2>2. CASE j # job[r]
      BY <1>1, <2>2 DEF HoldInv, EditsKept
    <2> QED
      BY <2>1, <2>2
  <1>7. \A j \in 1..Len(jobs) : Copy(r, j) = NoRow => jobs'[j] = jobs[j]
    BY <1>1, <1>4
  <1>8. \A j \in Ids : Copy(r, j)' = NoRow
    BY <1>1 DEF Copy
  <1> QED
    BY <1>1, <1>2, <1>6, <1>7, <1>8, OthersKeepSlot, Effect

LEMMA CronFindHolds ==
    ASSUME TypeInv, HoldInv, NEW c \in Crons, CronFind(c)
    PROVE  HoldInv'
  <1>1. /\ jobs' = jobs /\ \A r \in Requests : SameSlot(r)
        /\ \A d \in Crons \ {c} : batch'[d] = batch[d]
        /\ \A j \in Ids : batch'[c][j] # NoRow =>
              batch'[c][j] = jobs[j] /\ (j \notin overlap' => ~ HeldByOther(c, j))
    BY CronFindType
  <1>2. c \in Slots /\ c \notin Requests
    BY SlotAssumption DEF Slots
  <1>3. PICK js : Overlaps(js)
    BY DEF CronFind
  <1>4. /\ overlap \subseteq overlap'
        /\ \A j \in 1..Len(jobs) : j \notin overlap' => wanted'[j] = wanted[j]
    BY <1>3, OverlapsType DEF TypeInv, TableType
  <1>5. EditsKept'
    BY <1>1, <1>4 DEF HoldInv, EditsKept
  <1>6. \A j \in Ids \ overlap' : Copy(c, j)' # NoRow =>
            Copy(c, j)' = jobs[j] /\ ~ HeldByOther(c, j)
    BY <1>1, <1>2 DEF Copy
  <1> QED
    BY <1>1, <1>2, <1>4, <1>5, <1>6, OthersKeepCron, Effect

LEMMA CronSaveHolds ==
    ASSUME TypeInv, HoldInv, NEW c \in Crons, CronSave(c)
    PROVE  HoldInv'
  <1>1. /\ \A r \in Requests : SameSlot(r)
        /\ Len(jobs') = Len(jobs)
        /\ \A d \in Crons \ {c} : batch'[d] = batch[d]
        /\ \A j \in Ids : batch'[c][j] = NoRow
        /\ \A j \in 1..Len(jobs) :
              IF batch[c][j] = NoRow THEN jobs'[j] = jobs[j] /\ wanted'[j] = wanted[j]
              ELSE /\ batch[c][j] \in Row
                   /\ jobs'[j] = [batch[c][j] EXCEPT !.active = FALSE]
                   /\ j \notin overlap => wanted'[j] = [wanted[j] EXCEPT !.active = FALSE]
    BY CronSaveType
  <1>2. c \in Slots /\ c \notin Requests /\ overlap' = overlap
    BY SlotAssumption DEF Slots, CronSave
  <1>3. \A j \in Ids : Copy(c, j) = batch[c][j] /\ Copy(c, j)' = NoRow
    BY <1>1, <1>2 DEF Copy
  <1>4. EditsKept'
    <2> SUFFICES ASSUME NEW j \in (1..Len(jobs)) \ overlap PROVE jobs'[j] = wanted'[j]
      BY <1>1, <1>2 DEF EditsKept
    <2>1. jobs[j] = wanted[j] /\ j \in Ids
      BY IdsType DEF HoldInv, EditsKept, TypeInv
    <2>2. CASE batch[c][j] = NoRow
      BY <1>1, <2>1, <2>2
    <2>3. CASE batch[c][j] # NoRow
      <3>1. batch[c][j] = jobs[j]
        BY <1>2, <1>3, <2>1, <2>3 DEF HoldInv, SoleHolder
      <3>2. /\ jobs'[j] = [batch[c][j] EXCEPT !.active = FALSE]
            /\ wanted'[j] = [wanted[j] EXCEPT !.active = FALSE]
        BY <1>1, <2>3
      <3>3. batch[c][j] = wanted[j]
        BY <2>1, <3>1
      <3> QED
        BY <3>2, <3>3, Zenon
    <2> QED
      BY <2>2, <2>3
  <1>5. \A j \in 1..Len(jobs) : Copy(c, j) = NoRow => jobs'[j] = jobs[j]
    BY <1>1, <1>3, IdsType DEF TypeInv
  <1> QED
    BY <1>1, <1>2, <1>3, <1>4, <1>5, OthersKeepCron, Effect

LEMMA CronAbortHolds ==
    ASSUME TypeInv, HoldInv, NEW c \in Crons, CronAbort(c)
    PROVE  HoldInv'
  <1>1. /\ \A r \in Requests : SameSlot(r)
        /\ \A d \in Crons \ {c} : batch'[d] = batch[d]
        /\ \A j \in Ids : batch'[c][j] = NoRow
    BY CronAbortType
  <1>2. c \in Slots /\ c \notin Requests /\ UNCHANGED <<jobs, wanted, overlap>>
    BY SlotAssumption DEF Slots, CronAbort
  <1>3. \A j \in Ids : Copy(c, j)' = NoRow
    BY <1>1, <1>2 DEF Copy
  <1>4. EditsKept'
    BY <1>2 DEF HoldInv, EditsKept
  <1> QED
    BY <1>1, <1>2, <1>3, <1>4, OthersKeepCron, Effect

-----------------------------------------------------------------------------
(* The listings *)

Explained(k) ==
    \/ k \in raced \cup skipped
    \/ \E r \in Requests : pc[r] \in {"mail", "keys"} \/ k \in found[r]

LEMMA ExplainedIs == StaleExplained <=> \A k \in Keys : Stale(k) => Explained(k)
  BY DEF StaleExplained, Explained

LEMMA SamePage ==
    ASSUME StatusColumn' = StatusColumn, NEW k PROVE Page(k)' = Page(k)
  BY DEF Page

LEMMA SameColumn == ASSUME jobs' = jobs PROVE StatusColumn' = StatusColumn
  BY DEF StatusColumn

\* A step that leaves the table and the cache alone, and explains no less.
LEMMA KeepsExplained ==
    ASSUME StaleExplained, cached' = cached, StatusColumn' = StatusColumn,
           \A k \in Keys : cached[k] # Miss /\ Explained(k) => Explained(k)'
    PROVE  StaleExplained'
  <1>1. ASSUME NEW k \in Keys, Stale(k)' PROVE Explained(k)'
    <2>1. Stale(k)
      BY <1>1, SamePage DEF Stale
    <2> QED
      BY <2>1, ExplainedIs DEF Stale
  <1> QED
    BY <1>1 DEF StaleExplained, Explained

LEMMA AllExplained ==
    ASSUME NEW r \in Requests, pc'[r] \in {"mail", "keys"} PROVE StaleExplained'
  BY DEF StaleExplained

\* The keys dropped are no longer cached, and nothing else is explained less.
LEMMA DropExplained ==
    ASSUME TypeInv, StaleExplained, NEW ks, Drop(ks), jobs' = jobs, pc' = pc,
           \A r \in Requests : found[r] \subseteq found'[r] \cup ks
    PROVE  StaleExplained'
  <1>1. ASSUME NEW k \in Keys, Stale(k)' PROVE Explained(k)'
    <2>1. k \notin ks /\ Stale(k)
      BY <1>1, DropType, SameColumn, SamePage DEF Stale
    <2>2. Explained(k)
      BY <2>1, ExplainedIs
    <2> QED
      BY <2>1, <2>2 DEF Explained, Drop
  <1> QED
    BY <1>1 DEF StaleExplained, Explained

LEMMA QuietExplained ==
    ASSUME TypeInv, StaleExplained, NEW r \in Requests, StepOf(r),
           pc[r] \notin {"mail", "keys"}, found[r] = {},
           UNCHANGED <<cached, jobs, raced, skipped>>
    PROVE  StaleExplained'
  <1>1. ASSUME NEW k \in Keys, Explained(k) PROVE Explained(k)'
    BY <1>1 DEF Explained, StepOf, SameSlot
  <1> QED
    BY <1>1, SameColumn, KeepsExplained

LEMMA UpdateJobExplained ==
    ASSUME TypeInv, StaleExplained, NEW r \in Requests, NEW j \in 1..Len(jobs),
           NEW ch \in Changes, UpdateJob(r, j, ch)
    PROVE  StaleExplained'
  <1>1. StepOf(r) /\ pc[r] = "idle"
    BY UpdateJobType
  <1>2. UNCHANGED <<cached, jobs, raced, skipped>>
    BY DEF UpdateJob
  <1>3. found[r] = {}
    BY <1>1 DEF TypeInv, SlotOK
  <1> QED
    BY <1>1, <1>2, <1>3, QuietExplained

LEMMA KeysOfPatternExplained ==
    ASSUME TypeInv, StaleExplained, NEW r \in Requests, KeysOfPattern(r)
    PROVE  StaleExplained'
  <1>1. found'[r] = {k \in Keys : cached[k] # Miss} /\ cached' = cached
    BY KeysOfPatternType DEF KeysOfPattern
  <1> QED
    BY <1>1 DEF StaleExplained, Stale

LEMMA DeleteKeyExplained ==
    ASSUME TypeInv, StaleExplained, NEW r \in Requests, DeleteKey(r)
    PROVE  StaleExplained'
  <1>1. pc[r] = "del" /\ jobs' = jobs
    BY DEF DeleteKey
  <1>2. CASE \E k \in found[r] : /\ Drop({k}) /\ found' = [found EXCEPT ![r] = @ \ {k}]
                                 /\ UNCHANGED <<pc, job, change, copy, key, answer>>
    <2> PICK k \in found[r] : /\ Drop({k}) /\ found' = [found EXCEPT ![r] = @ \ {k}]
                              /\ UNCHANGED <<pc, job, change, copy, key, answer>>
      BY <1>2
    <2>1. \A s \in Requests : found[s] \subseteq found'[s] \cup {k}
      BY DEF TypeInv, LocalsType
    <2> QED
      BY <1>1, <2>1, DropExplained
  <1>3. CASE found[r] = {} /\ Done(r) /\ UNCHANGED <<cached, raced, skipped>>
    BY <1>1, <1>3, DoneStep, QuietExplained
  <1> QED
    BY <1>2, <1>3 DEF DeleteKey

LEMMA GetAllJobsExplained ==
    ASSUME TypeInv, StaleExplained, NEW r \in Requests, NEW k \in Keys, GetAllJobs(r, k)
    PROVE  StaleExplained'
  <1>1. StepOf(r) /\ pc[r] = "idle"
    BY GetAllJobsType
  <1>2. UNCHANGED <<cached, jobs, raced, skipped>>
    BY DEF GetAllJobs, history
  <1>3. found[r] = {}
    BY <1>1 DEF TypeInv, SlotOK
  <1> QED
    BY <1>1, <1>2, <1>3, QuietExplained

LEMMA ListQueryExplained ==
    ASSUME TypeInv, StaleExplained, NEW r \in Requests, ListQuery(r)
    PROVE  StaleExplained'
  <1>1. StepOf(r) /\ pc[r] = "list_query"
    BY ListQueryType
  <1>2. UNCHANGED <<cached, jobs, raced, skipped>>
    BY DEF ListQuery, history
  <1>3. found[r] = {}
    BY <1>1 DEF TypeInv, SlotOK
  <1> QED
    BY <1>1, <1>2, <1>3, QuietExplained

\* A page written is the page of the table now, or raced holds its key.
LEMMA ListSetExplained ==
    ASSUME TypeInv, StaleExplained, NEW r \in Requests, ListSet(r)
    PROVE  StaleExplained'
  <1>1. /\ pc[r] = "list_set" /\ key[r] \in Keys
        /\ \A k \in Keys : cached'[k] = IF k = key[r] THEN answer[r] ELSE cached[k]
        /\ StepOf(r)
    BY ListSetType
  <1>2. /\ raced' = (IF answer[r] = Page(key[r]) THEN raced \ {key[r]} ELSE raced \cup {key[r]})
        /\ skipped' = skipped \ {key[r]} /\ jobs' = jobs
    BY DEF ListSet
  <1>3. found[r] = {}
    BY <1>1 DEF TypeInv, SlotOK
  <1>4. \A k \in Keys : Page(k)' = Page(k)
    BY <1>2, SameColumn, SamePage
  <1>5. ASSUME NEW k \in Keys, Stale(k)' PROVE Explained(k)'
    <2>1. CASE k = key[r]
      <3>1. answer[r] # Page(key[r])
        BY <1>1, <1>4, <1>5, <2>1 DEF Stale
      <3> QED
        BY <1>2, <2>1, <3>1 DEF Explained
    <2>2. CASE k # key[r]
      <3>1. Explained(k)
        BY <1>1, <1>4, <1>5, <2>2, ExplainedIs DEF Stale
      <3>2. k \in raced \cup skipped => k \in raced' \cup skipped'
        BY <1>2, <2>2
      <3> QED
        BY <1>1, <1>3, <3>1, <3>2 DEF Explained, StepOf, SameSlot
    <2> QED
      BY <2>1, <2>2
  <1> QED
    BY <1>5 DEF StaleExplained, Explained

LEMMA AbortExplained ==
    ASSUME TypeInv, StaleExplained, NEW r \in Requests, Abort(r)
    PROVE  StaleExplained'
  <1>1. /\ StepOf(r) /\ UNCHANGED <<cached, jobs, raced>>
        /\ skipped' = IF pc[r] \in {"mail", "keys", "del"}
                      THEN skipped \cup {k \in Keys : cached[k] # Miss} ELSE skipped
    BY AbortType DEF Abort
  <1>2. CASE pc[r] \in {"mail", "keys", "del"}
    BY <1>1, <1>2, SameColumn, KeepsExplained DEF Explained
  <1>3. CASE pc[r] \notin {"mail", "keys", "del"}
    <2>1. found[r] = {} /\ skipped' = skipped
      BY <1>1, <1>3 DEF TypeInv, SlotOK
    <2> QED
      BY <1>1, <1>3, <2>1, QuietExplained
  <1> QED
    BY <1>2, <1>3

\* A cron that alone held its rows writes the statuses that are there.
LEMMA CronSaveColumn ==
    ASSUME TypeInv, HoldInv, NEW c \in Crons, CronSave(c),
           ~ \E j \in overlap : batch[c][j] # NoRow
    PROVE  StatusColumn' = StatusColumn
  <1>1. /\ Len(jobs') = Len(jobs)
        /\ \A j \in 1..Len(jobs) :
              IF batch[c][j] = NoRow THEN jobs'[j] = jobs[j]
              ELSE jobs'[j] = [batch[c][j] EXCEPT !.active = FALSE]
    BY CronSaveType
  <1>2. \A j \in 1..Len(jobs) : jobs'[j].status = jobs[j].status
    <2> SUFFICES ASSUME NEW j \in 1..Len(jobs), batch[c][j] # NoRow
                 PROVE  jobs'[j].status = jobs[j].status
      BY <1>1
    <2>1. c \in Slots /\ Copy(c, j) = batch[c][j] /\ j \in Ids \ overlap /\ jobs[j] \in Row
      BY SlotAssumption, IdsType DEF Slots, Copy, TypeInv
    <2>2. batch[c][j] = jobs[j]
      BY <2>1 DEF HoldInv, SoleHolder
    <2>3. jobs'[j] = [jobs[j] EXCEPT !.active = FALSE]
      BY <1>1, <2>2
    <2> QED
      BY <2>1, <2>3 DEF Row
  <1> QED
    BY <1>1, <1>2 DEF StatusColumn

\* One that did not may put statuses back, and skipped then holds every cached page.
LEMMA CronSaveExplained ==
    ASSUME TypeInv, HoldInv, StaleExplained, NEW c \in Crons, CronSave(c)
    PROVE  StaleExplained'
  <1>1. /\ UNCHANGED <<request, cached, raced, overlap>>
        /\ skipped' = IF \E j \in overlap : batch[c][j] # NoRow
                      THEN skipped \cup {k \in Keys : cached[k] # Miss} ELSE skipped
    BY DEF CronSave
  <1>2. CASE \E j \in overlap : batch[c][j] # NoRow
    BY <1>1, <1>2 DEF StaleExplained, Stale
  <1>3. CASE ~ \E j \in overlap : batch[c][j] # NoRow
    BY <1>1, <1>3, CronSaveColumn, KeepsExplained DEF Explained, request
  <1> QED
    BY <1>2, <1>3

-----------------------------------------------------------------------------
(* The invariant *)

Inv == TypeInv /\ HoldInv /\ StaleExplained

LEMMA InitInv == ASSUME Init PROVE Inv
  <1>1. TableType
    <2>1. Len(Table) \in Nat /\ 1..Len(Table) \subseteq Ids
      BY RowAssumption, BoundAssumption DEF Ids
    <2> QED
      BY <2>1, RowAssumption DEF Init, TableType
  <1>2. LocalsType /\ \A r \in Requests : SlotOK(r)
    BY DEF Init, LocalsType, SlotOK, Steps, Answers
  <1>3. cached \in [Keys -> Answers] /\ \A k \in Keys : cached[k] = Miss
    BY DEF Init, Answers
  <1>4. /\ batch \in [Crons -> [Ids -> Row \cup {NoRow}]]
        /\ \A c \in Crons : \A j \in Ids : batch[c][j] = NoRow
    BY DEF Init
  <1>5. TypeInv
    BY <1>1, <1>2, <1>3, <1>4 DEF TypeInv, BatchOK
  <1>6. \A x \in Slots, j \in Ids : Copy(x, j) = NoRow
    BY <1>4 DEF Init, Slots, Copy
  <1>7. EditsKept
    BY DEF Init, EditsKept
  <1>8. StaleExplained
    BY <1>3 DEF StaleExplained, Stale
  <1> QED
    BY <1>5, <1>6, <1>7, <1>8 DEF Inv, HoldInv

LEMMA ArriveInv ==
    ASSUME Inv, NEW r \in Requests, Arrive(r) PROVE Inv'
  <1>1. ASSUME NEW d \in NewDays, CreateJob(r, d) PROVE Inv'
    BY <1>1, CreateJobType, CreateJobHolds, AllExplained DEF Inv
  <1>2. ASSUME NEW j \in 1..Len(jobs), NEW ch \in Changes, UpdateJob(r, j, ch) PROVE Inv'
    BY <1>2, UpdateJobType, UpdateJobHolds, UpdateJobExplained DEF Inv
  <1>3. ASSUME NEW k \in Keys, GetAllJobs(r, k) PROVE Inv'
    <2>1. TypeInv' /\ StepOf(r) /\ pc[r] = "idle"
      BY <1>3, GetAllJobsType DEF Inv
    <2>2. UNCHANGED <<jobs, copy, wanted, overlap, batch>> /\ copy[r] = NoRow
      BY <1>3, <2>1 DEF GetAllJobs, history, Inv, TypeInv, SlotOK
    <2> QED
      BY <1>3, <2>1, <2>2, QuietHold, GetAllJobsExplained DEF Inv
  <1> QED
    BY <1>1, <1>2, <1>3 DEF Arrive

LEMMA ProceedInv ==
    ASSUME Inv, NEW r \in Requests, Proceed(r) PROVE Inv'
  <1>1. CASE UpdateSave(r)
    BY <1>1, UpdateSaveType, UpdateSaveHolds, AllExplained DEF Inv
  <1>2. CASE Mail(r)
    <2>1. TypeInv' /\ StepOf(r) /\ pc'[r] = "keys"
      BY <1>2, MailType DEF Inv
    <2>2. UNCHANGED <<jobs, wanted, overlap, batch>> /\ copy'[r] = NoRow
      BY <1>2, <2>1 DEF Mail, history, TypeInv, SlotOK
    <2> QED
      BY <2>1, <2>2, QuietHold, AllExplained DEF Inv
  <1>3. CASE KeysOfPattern(r)
    <2>1. TypeInv' /\ StepOf(r) /\ pc'[r] = "del"
      BY <1>3, KeysOfPatternType DEF Inv
    <2>2. UNCHANGED <<jobs, wanted, overlap, batch>> /\ copy'[r] = NoRow
      BY <1>3, <2>1 DEF KeysOfPattern, history, TypeInv, SlotOK
    <2> QED
      BY <1>3, <2>1, <2>2, QuietHold, KeysOfPatternExplained DEF Inv
  <1>4. CASE DeleteKey(r)
    <2>1. UNCHANGED <<jobs, wanted, overlap, batch>>
      BY <1>4 DEF DeleteKey
    <2> QED
      BY <1>4, <2>1, DeleteKeyType, QuietHold, DeleteKeyExplained DEF Inv
  <1>5. CASE ListQuery(r)
    <2>1. TypeInv' /\ StepOf(r) /\ pc[r] = "list_query"
      BY <1>5, ListQueryType DEF Inv
    <2>2. UNCHANGED <<jobs, copy, wanted, overlap, batch>> /\ copy[r] = NoRow
      BY <1>5, <2>1 DEF ListQuery, history, Inv, TypeInv, SlotOK
    <2> QED
      BY <1>5, <2>1, <2>2, QuietHold, ListQueryExplained DEF Inv
  <1>6. CASE ListSet(r)
    <2>1. UNCHANGED <<jobs, wanted, overlap, batch>>
      BY <1>6 DEF ListSet
    <2> QED
      BY <1>6, <2>1, ListSetType, QuietHold, ListSetExplained DEF Inv
  <1> QED
    BY <1>1, <1>2, <1>3, <1>4, <1>5, <1>6 DEF Proceed

LEMMA AbortInv ==
    ASSUME Inv, NEW r \in Requests, Abort(r) PROVE Inv'
  <1>1. UNCHANGED <<jobs, wanted, overlap, batch>>
    BY DEF Abort
  <1> QED
    BY <1>1, AbortType, QuietHold, AbortExplained DEF Inv

LEMMA CronInv ==
    ASSUME Inv, NEW c \in Crons, CronFind(c) \/ CronSave(c) \/ CronAbort(c) PROVE Inv'
  <1>1. CASE CronFind(c)
    <2>1. UNCHANGED <<jobs, request, cached, raced, skipped>>
      BY <1>1 DEF CronFind
    <2>2. StaleExplained'
      BY <2>1, SameColumn, KeepsExplained DEF Inv, Explained, request
    <2> QED
      BY <1>1, <2>2, CronFindType, CronFindHolds DEF Inv
  <1>2. CASE CronSave(c)
    BY <1>2, CronSaveType, CronSaveHolds, CronSaveExplained DEF Inv
  <1>3. CASE CronAbort(c)
    <2>1. UNCHANGED <<jobs, request, cached, raced, skipped>>
      BY <1>3 DEF CronAbort
    <2>2. StaleExplained'
      BY <2>1, SameColumn, KeepsExplained DEF Inv, Explained, request
    <2> QED
      BY <1>3, <2>2, CronAbortType, CronAbortHolds DEF Inv
  <1> QED
    BY <1>1, <1>2, <1>3

\* Steps that touch neither the table nor a copy of a row.
LEMMA UntouchedHolds ==
    ASSUME HoldInv, UNCHANGED <<jobs, job, copy, batch, wanted, overlap>> PROVE HoldInv'
  BY DEF HoldInv, SoleHolder, Copy, EditsKept

LEMMA ExpireKeyInv ==
    ASSUME Inv, NEW k \in Keys, ExpireKey(k) PROVE Inv'
  <1>1. Drop({k}) /\ UNCHANGED <<jobs, request, batch, wanted, overlap>>
    BY DEF ExpireKey
  <1>2. HoldInv'
    BY <1>1, UntouchedHolds DEF Inv, request
  <1>3. StaleExplained'
    BY <1>1, DropExplained DEF Inv, request
  <1> QED
    BY <1>2, <1>3, ExpireKeyType DEF Inv

LEMMA SameInv ==
    ASSUME Inv, UNCHANGED <<jobs, cached, request, batch, wanted, overlap, raced, skipped>>
    PROVE  Inv'
  <1>1. TypeInv'
    BY DEF Inv, TypeInv, TableType, LocalsType, SlotOK, BatchOK, request
  <1>2. HoldInv'
    BY UntouchedHolds DEF Inv, request
  <1>3. StaleExplained'
    BY SameColumn, KeepsExplained DEF Inv, Explained, request
  <1> QED
    BY <1>1, <1>2, <1>3 DEF Inv

LEMMA StepInv == ASSUME Inv, [Next]_vars PROVE Inv'
  <1>1. CASE Tick
    BY <1>1, SameInv DEF Tick, history
  <1>2. CASE UNCHANGED vars
    BY <1>2, SameInv DEF vars, request
  <1> QED
    BY <1>1, <1>2, ArriveInv, ProceedInv, AbortInv, CronInv, ExpireKeyInv DEF Next

LEMMA AlwaysInv == Spec => []Inv
  BY InitInv, StepInv, PTL DEF Spec

\* However updates and crons save whole rows, a job of which two copies were
\* never held at once has in every column what it was last set to.
THEOREM EditsAlwaysKept == Spec => []EditsKept
  <1>1. Inv => EditsKept
    BY DEF Inv, HoldInv
  <1> QED
    BY <1>1, AlwaysInv, PTL

\* No cached page differs from the table but for the reasons StaleExplained
\* names, for every number of requests, crons, filters and pages.
THEOREM StaleAlwaysExplained == Spec => []StaleExplained
  <1>1. Inv => StaleExplained
    BY DEF Inv
  <1> QED
    BY <1>1, AlwaysInv, PTL

\* What updateJob or the cron is about to save is the row as it is and theirs
\* alone, unless two copies of the job were held at once.
THEOREM HolderAlwaysAlone == Spec => []HoldInv
  <1>1. Inv => HoldInv
    BY DEF Inv
  <1> QED
    BY <1>1, AlwaysInv, PTL

-----------------------------------------------------------------------------
(* Pages.  PlaceFromLast numbers a finite set of ids from the last to the     *)
(* first without a gap, so a listing has every id of the set once; and a page *)
(* is the stretch of the listing that its number stands for.                  *)

\* What is later in a set has a lower place.
LEMMA LaterIsLower ==
    ASSUME NEW S \in SUBSET Nat, IsFiniteSet(S), NEW i \in S, NEW j \in S, i < j
    PROVE  PlaceFromLast(j, S) < PlaceFromLast(i, S)
  <1> DEFINE A == {k \in S : k >= i}
             B == {k \in S : k >= j}
  <1>1. A \in SUBSET S /\ IsFiniteSet(A) /\ Cardinality(A) \in Nat
    BY FS_Subset, FS_CardinalityType
  <1>2. B \in SUBSET A /\ i \in A /\ i \notin B
    <2>1. i \in Nat /\ j \in Nat /\ \A k \in S : k \in Nat
      OBVIOUS
    <2>2. \A k \in S : k >= j => k >= i
      BY <2>1
    <2>3. B \subseteq A
      BY <2>2
    <2>4. i \in A /\ i \notin B
      BY <2>1
    <2> QED
      BY <2>3, <2>4
  <1>3. Cardinality(B) <= Cardinality(A) /\ Cardinality(B) # Cardinality(A)
    BY <1>1, <1>2, FS_Subset
  <1>4. Cardinality(B) \in Nat
    BY <1>1, <1>2, FS_Subset, FS_CardinalityType
  <1> QED
    BY <1>1, <1>3, <1>4 DEF PlaceFromLast

\* The places in a finite set are the numbers up to its size.
LEMMA PlacesCount ==
    ASSUME NEW S \in SUBSET Nat, IsFiniteSet(S)
    PROVE  /\ \A j \in S : PlaceFromLast(j, S) \in 1..Cardinality(S)
           /\ \A n \in 1..Cardinality(S) : \E j \in S : PlaceFromLast(j, S) = n
  <1> DEFINE N == Cardinality(S)
             f == [j \in S |-> PlaceFromLast(j, S)]
  <1>1. N \in Nat
    BY FS_CardinalityType
  <1>2. ASSUME NEW j \in S PROVE PlaceFromLast(j, S) \in 1..N
    <2> DEFINE A == {k \in S : k >= j}
    <2>1. A \in SUBSET S /\ j \in A
      OBVIOUS
    <2>2. IsFiniteSet(A) /\ Cardinality(A) <= N
      BY <2>1, FS_Subset
    <2>3. Cardinality(A) \in Nat /\ Cardinality(A) # 0
      BY <2>1, <2>2, FS_CardinalityType, FS_EmptySet
    <2> QED
      BY <1>1, <2>2, <2>3 DEF PlaceFromLast
  <1>3. ASSUME NEW i \in S, NEW j \in S, f[i] = f[j] PROVE i = j
    <2>1. PlaceFromLast(i, S) = PlaceFromLast(j, S) /\ PlaceFromLast(i, S) \in Nat
      BY <1>2, <1>3
    <2>2. ~ (i < j) /\ ~ (j < i)
      BY <2>1, LaterIsLower
    <2> QED
      BY <2>2
  <1>4. f \in Injection(S, 1..N)
    BY <1>2, <1>3 DEF Injection, IsInjective
  <1>5. IsFiniteSet(1..N) /\ Cardinality(1..N) = N
    BY <1>1, FS_Interval
  <1>6. f \in Surjection(S, 1..N)
    BY <1>4, <1>5, FS_Injection
  <1>7. \A n \in 1..N : \E j \in S : f[j] = n
    BY <1>6 DEF Surjection
  <1> QED
    BY <1>2, <1>7

\* The ids of a column's jobs of a status.
Ours(column, status) == {j \in 1..Len(column) : column[j] = status}

LEMMA OursFinite ==
    ASSUME NEW column, Len(column) \in Nat, NEW status
    PROVE  /\ Ours(column, status) \in SUBSET Nat /\ IsFiniteSet(Ours(column, status))
           /\ Cardinality(Ours(column, status)) \in 0..Len(column)
  <1>1. Ours(column, status) \in SUBSET (1..Len(column))
    BY DEF Ours
  <1>2. IsFiniteSet(1..Len(column)) /\ Cardinality(1..Len(column)) = Len(column)
    <2>1. 1 \in Int /\ Len(column) \in Int
      OBVIOUS
    <2>2. /\ IsFiniteSet(1..Len(column))
          /\ Cardinality(1..Len(column)) =
                IF 1 > Len(column) THEN 0 ELSE Len(column) - 1 + 1
      BY <2>1, FS_Interval
    <2> QED
      BY <2>2
  <1>3. /\ IsFiniteSet(Ours(column, status))
        /\ Cardinality(Ours(column, status)) <= Len(column)
    BY <1>1, <1>2, FS_Subset
  <1>4. Cardinality(Ours(column, status)) \in Nat
    BY <1>3, FS_CardinalityType
  <1>5. Ours(column, status) \subseteq Nat
    BY <1>1
  <1>6. Cardinality(Ours(column, status)) \in 0..Len(column)
    BY <1>3, <1>4
  <1> QED
    BY <1>3, <1>5, <1>6

\* ListingComplete: getAllJobs lists every job of the status once, and no other,
\* the last posted first.
LEMMA ListingComplete ==
    ASSUME NEW column, Len(column) \in Nat, NEW status
    PROVE  /\ Listed(column, status) \in Seq(Ours(column, status))
           /\ Len(Listed(column, status)) = Cardinality(Ours(column, status))
           /\ \A j \in Ours(column, status) :
                 \E n \in 1..Len(Listed(column, status)) : Listed(column, status)[n] = j
           /\ \A m, n \in 1..Len(Listed(column, status)) :
                 m < n => Listed(column, status)[m] > Listed(column, status)[n]
  <1> DEFINE S == Ours(column, status)
             N == Cardinality(S)
             L == Listed(column, status)
  <1>1. S \in SUBSET Nat /\ IsFiniteSet(S) /\ N \in Nat
    BY OursFinite
  <1>2. L = [n \in 1..N |-> CHOOSE j \in S : PlaceFromLast(j, S) = n]
    BY DEF Listed, Ours
  <1> HIDE DEF S, L
  <1>3. ASSUME NEW n \in 1..N PROVE L[n] \in S /\ PlaceFromLast(L[n], S) = n
    <2>1. \E j \in S : PlaceFromLast(j, S) = n
      BY <1>1, PlacesCount
    <2>2. L[n] = CHOOSE j \in S : PlaceFromLast(j, S) = n
      BY <1>2
    <2> QED
      BY <2>1, <2>2
  <1>4. L \in [1..N -> S]
    BY <1>2, <1>3
  <1>5. L \in Seq(S) /\ Len(L) = N
    BY <1>1, <1>4
  <1>6. ASSUME NEW j \in S PROVE \E n \in 1..N : L[n] = j
    <2>1. PlaceFromLast(j, S) \in 1..N
      BY <1>1, PlacesCount
    <2> DEFINE n == PlaceFromLast(j, S)
    <2>2. L[n] \in S /\ PlaceFromLast(L[n], S) = n
      BY <1>3, <2>1
    <2>3. ~ (L[n] < j) /\ ~ (j < L[n])
      <3>1. n \in Nat
        BY <2>1
      <3>2. ASSUME NEW a \in S, NEW b \in S, PlaceFromLast(a, S) = n, PlaceFromLast(b, S) = n
            PROVE  ~ (a < b)
        <4>1. a < b => PlaceFromLast(b, S) < PlaceFromLast(a, S)
          BY <1>1, LaterIsLower
        <4> QED
          BY <3>1, <3>2, <4>1
      <3> QED
        BY <2>2, <3>2
    <2>4. L[n] = j
      <3>1. L[n] \in Nat /\ j \in Nat
        BY <1>1, <2>2
      <3> QED
        BY <2>3, <3>1
    <2> QED
      BY <2>1, <2>4
  <1>7. ASSUME NEW m \in 1..N, NEW n \in 1..N, m < n PROVE L[m] > L[n]
    <2>1. /\ L[m] \in S /\ PlaceFromLast(L[m], S) = m
          /\ L[n] \in S /\ PlaceFromLast(L[n], S) = n
      BY <1>3
    <2>2. L[m] \in Nat /\ L[n] \in Nat
      BY <1>1, <2>1
    <2>3. L[m] # L[n]
      BY <1>7, <2>1
    <2>4. ~ (L[m] < L[n])
      <3>1. L[m] < L[n] => PlaceFromLast(L[n], S) < PlaceFromLast(L[m], S)
        BY <1>1, <2>1, LaterIsLower
      <3>2. m \in Nat /\ n \in Nat
        OBVIOUS
      <3> QED
        BY <1>7, <2>1, <3>1, <3>2
    <2> QED
      BY <2>2, <2>3, <2>4
  <1> QED
    BY <1>5, <1>6, <1>7 DEF S, L

\* Integer division, as the pages use it.
LEMMA Quotient ==
    ASSUME NEW a \in Nat, NEW c \in Nat \ {0}
    PROVE  a \div c \in Nat /\ c * (a \div c) <= a /\ a < c * (a \div c) + c
  OBVIOUS

LEMMA TimesMonotone ==
    ASSUME NEW a \in Nat, NEW b \in Nat, NEW c \in Nat, a <= b
    PROVE  c * a <= c * b
  OBVIOUS

LEMMA TimesLess ==
    ASSUME NEW a \in Nat, NEW b \in Nat, NEW c \in Nat, c * a < c * b
    PROVE  a < b
  BY TimesMonotone

LEMMA TimesNext ==
    ASSUME NEW a \in Nat, NEW c \in Nat
    PROVE  c * a \in Nat /\ a * c = c * a /\ (a + 1) * c = c * a + c /\ c * (a + 1) = c * a + c
  OBVIOUS

\* The page that item n of a listing is on, from the first one up, is one of
\* those that nextUrl leads to.
PageOfItem(n, perPage) == (n - 1) \div perPage + 1

LEMMA PageExists ==
    ASSUME NEW total \in Nat, NEW n \in 1..total, NEW perPage \in Nat \ {0}
    PROVE  /\ PageOfItem(n, perPage) \in 1..TotalPages(total, perPage)
           /\ \A q \in 1..(PageOfItem(n, perPage) - 1) :
                 NextPage(q, total, perPage) = q + 1
  <1> DEFINE P == (n - 1) \div perPage
             T == (total + perPage - 1) \div perPage
  <1>1. P \in Nat /\ perPage * P <= n - 1
    BY Quotient
  <1>2. T \in Nat /\ total + perPage - 1 < perPage * T + perPage
    <2>1. total + perPage - 1 \in Nat
      OBVIOUS
    <2> QED
      BY <2>1, Quotient
  <1>3. perPage * P \in Nat /\ perPage * T \in Nat
    BY <1>1, <1>2, TimesNext
  <1> HIDE DEF P, T
  <1>4. perPage * P < perPage * T
    BY <1>1, <1>2, <1>3
  <1>5. P < T
    BY <1>1, <1>2, <1>4, TimesLess
  <1>6. TotalPages(total, perPage) = T /\ PageOfItem(n, perPage) = P + 1
    BY DEF TotalPages, PageOfItem, P, T
  <1>7. \A q \in 1..P : q < T
    BY <1>1, <1>2, <1>5
  <1> QED
    BY <1>1, <1>2, <1>5, <1>6, <1>7 DEF NextPage

\* Every item is on its page, and on no other.
LEMMA ItemOnPage ==
    ASSUME NEW S, NEW items \in Seq(S), NEW perPage \in Nat \ {0}, NEW page \in Nat \ {0}
    PROVE  /\ Slice(items, page, perPage) \in Seq(S)
           /\ \A n \in 1..Len(items) : page = PageOfItem(n, perPage) =>
                 \E m \in 1..Len(Slice(items, page, perPage)) :
                    Slice(items, page, perPage)[m] = items[n]
           /\ \A m \in 1..Len(Slice(items, page, perPage)) :
                 \E n \in 1..Len(items) : /\ page = PageOfItem(n, perPage)
                                          /\ Slice(items, page, perPage)[m] = items[n]
  <1> DEFINE first == (page - 1) * perPage + 1
             last == IF page * perPage <= Len(items) THEN page * perPage ELSE Len(items)
             before == perPage * (page - 1)
  <1>1. Len(items) \in Nat /\ \A n \in 1..Len(items) : items[n] \in S
    OBVIOUS
  <1>2. /\ before \in Nat /\ (page - 1) * perPage = before
        /\ page * perPage = before + perPage
    <2>1. page - 1 \in Nat /\ (page - 1) + 1 = page
      OBVIOUS
    <2> QED
      BY <2>1, TimesNext
  <1>3. Slice(items, page, perPage) = SubSeq(items, first, last)
    BY DEF Slice
  <1> HIDE DEF before
  <1>4. first = before + 1 /\ last \in Nat /\ last <= Len(items)
    BY <1>1, <1>2
  <1>5. last = IF before + perPage <= Len(items) THEN before + perPage ELSE Len(items)
    BY <1>2
  <1> HIDE DEF first, last
  <1>6. /\ SubSeq(items, first, last) \in Seq(S)
        /\ Len(SubSeq(items, first, last)) = IF first <= last THEN last - first + 1 ELSE 0
        /\ \A m \in 1..(last - first + 1) : SubSeq(items, first, last)[m] = items[first + m - 1]
    <2>1. \A n \in first..last : items[n] \in S
      BY <1>1, <1>2, <1>4
    <2> QED
      BY <1>2, <1>4, <2>1, SubSeqProperties
  <1>7. \A n \in 1..Len(items) : page = PageOfItem(n, perPage) <=> n \in first..last
    <2> SUFFICES ASSUME NEW n \in 1..Len(items)
                 PROVE  page = PageOfItem(n, perPage) <=> n \in first..last
      OBVIOUS
    <2> DEFINE P == (n - 1) \div perPage
    <2>1. /\ P \in Nat /\ n - 1 \in Nat
          /\ perPage * P <= n - 1 /\ n - 1 < perPage * P + perPage
      BY Quotient
    <2>2. perPage * P \in Nat
      BY <2>1, TimesNext
    <2>3. PageOfItem(n, perPage) = P + 1
      BY DEF PageOfItem
    <2> HIDE DEF P
    <2>4. CASE page = P + 1
      <3>1. before = perPage * P
        BY <2>1, <2>4 DEF before
      <3>2. before <= n - 1 /\ n - 1 < before + perPage /\ n <= Len(items)
        BY <2>1, <3>1
      <3>3. n <= last
        BY <1>1, <1>2, <1>5, <3>2
      <3>4. n \in first..last
        BY <1>2, <1>4, <3>2, <3>3
      <3> QED
        BY <2>3, <2>4, <3>4
    <2>5. CASE n \in first..last
      <3>1. before <= n - 1 /\ n - 1 < before + perPage
        BY <1>1, <1>2, <1>4, <1>5, <2>1, <2>5
      <3>2. perPage * P < perPage * page
        <4>1. perPage * page = before + perPage
          BY <1>2
        <4> QED
          BY <1>2, <2>1, <2>2, <3>1, <4>1
      <3>3. perPage * (page - 1) < perPage * (P + 1)
        <4>1. perPage * (P + 1) = perPage * P + perPage
          BY <2>1, TimesNext
        <4> QED
          BY <1>2, <2>1, <2>2, <3>1, <4>1 DEF before
      <3>4. P < page /\ page - 1 < P + 1
        <4>1. page - 1 \in Nat /\ P + 1 \in Nat
          BY <2>1
        <4> QED
          BY <2>1, <3>2, <3>3, <4>1, TimesLess
      <3> QED
        BY <2>1, <2>3, <2>5, <3>4
    <2> QED
      BY <2>3, <2>4, <2>5
  <1>8. ASSUME NEW n \in 1..Len(items), page = PageOfItem(n, perPage)
        PROVE  \E m \in 1..Len(SubSeq(items, first, last)) :
                  SubSeq(items, first, last)[m] = items[n]
    <2>1. n \in first..last
      BY <1>7, <1>8
    <2>2. n - first + 1 \in 1..Len(SubSeq(items, first, last))
      BY <1>2, <1>4, <1>6, <2>1
    <2>3. SubSeq(items, first, last)[n - first + 1] = items[n]
      <3>1. n - first + 1 \in 1..(last - first + 1) /\ first + (n - first + 1) - 1 = n
        BY <1>2, <1>4, <2>1
      <3> QED
        BY <1>6, <3>1
    <2> QED
      BY <2>2, <2>3
  <1>9. ASSUME NEW m \in 1..Len(SubSeq(items, first, last))
        PROVE  \E n \in 1..Len(items) :
                  /\ page = PageOfItem(n, perPage)
                  /\ SubSeq(items, first, last)[m] = items[n]
    <2>1. m \in 1..(last - first + 1) /\ first + m - 1 \in first..last
      BY <1>2, <1>4, <1>6, <1>9
    <2>2. first + m - 1 \in 1..Len(items)
      BY <1>1, <1>2, <1>4, <2>1
    <2> QED
      BY <1>6, <1>7, <2>1, <2>2
  <1> QED
    BY <1>3, <1>6, <1>8, <1>9

-----------------------------------------------------------------------------
(* TypeOK, and PagesCover from the shape of a listing *)

BoundInv ==
    /\ today \in 0..MaxDay /\ edits \in 0..MaxEdits
    /\ overlap \subseteq Ids
    /\ raced \subseteq Keys /\ skipped \subseteq Keys
    /\ faults \in Nat

LEMMA AnswersType == Answers \subseteq Entry \cup {Miss}
  <1> SUFFICES ASSUME NEW column \in Columns, NEW k \in Keys PROVE PageOf(column, k) \in Entry
    BY DEF Answers
  <1> DEFINE items == Listed(column, k[1])
  <1>1. Len(column) \in Nat /\ 1..Len(column) \subseteq Ids
    BY DEF Columns
  <1>2. /\ items \in Seq(Ours(column, k[1]))
        /\ Ours(column, k[1]) \subseteq Ids
    BY <1>1, ListingComplete DEF Ours
  <1>3. k[2] \in Nat \ {0}
    BY BoundAssumption DEF Keys
  <1>4. Slice(items, k[2], PerPage) \in Seq(Ours(column, k[1]))
    BY <1>2, <1>3, BoundAssumption, ItemOnPage
  <1>5. Slice(items, k[2], PerPage) \in Seq(Ids)
    BY <1>2, <1>4
  <1>6. NextPage(k[2], Len(items), PerPage) \in Nat
    BY <1>3 DEF NextPage
  <1> QED
    BY <1>5, <1>6 DEF PageOf, Entry

LEMMA NoKeyType == NoKey \in Keys
  <1>1. 1 \in 1..MaxPage /\ \E f : f \in Filters
    BY BoundAssumption
  <1>2. PICK f : f \in Filters
    BY <1>1
  <1>3. <<f, 1>> \in Keys
    BY <1>1, <1>2 DEF Keys
  <1> QED
    BY <1>3 DEF NoKey

LEMMA TableBound == ASSUME TableType PROVE Len(jobs) <= MaxJobs
  <1>1. Len(jobs) \in Nat /\ MaxJobs \in Nat
    BY BoundAssumption DEF TableType
  <1>2. CASE Len(jobs) = 0
    BY <1>1, <1>2
  <1>3. CASE Len(jobs) # 0
    <2>1. Len(jobs) \in Ids
      BY <1>1, <1>3 DEF TableType
    <2> QED
      BY <1>1, <2>1 DEF Ids
  <1> QED
    BY <1>2, <1>3

LEMMA InvTypeOK == ASSUME Inv, BoundInv PROVE TypeOK
  <1>1. TypeInv /\ Len(jobs) <= MaxJobs
    BY TableBound DEF Inv, TypeInv
  <1> QED
    BY <1>1, AnswersType, NoKeyType
    DEF TypeInv, TableType, LocalsType, TypeOK, BoundInv

LEMMA OverlapsBound ==
    ASSUME BoundInv, NEW js \in SUBSET Ids, Overlaps(js) PROVE overlap' \subseteq Ids
  BY DEF Overlaps, BoundInv

LEMMA SameBound ==
    ASSUME BoundInv, UNCHANGED <<today, edits, overlap, raced, skipped, faults>> PROVE BoundInv'
  BY DEF BoundInv

LEMMA ArriveBound ==
    ASSUME Inv, BoundInv, NEW r \in Requests, Arrive(r) PROVE BoundInv'
  <1>1. ASSUME NEW d \in NewDays, CreateJob(r, d) PROVE BoundInv'
    BY <1>1, SameBound DEF CreateJob
  <1>2. ASSUME NEW j \in 1..Len(jobs), NEW ch \in Changes, UpdateJob(r, j, ch) PROVE BoundInv'
    <2>1. j \in Ids
      BY IdsType DEF Inv, TypeInv
    <2>2. {k \in {j} : HeldByOther(r, k)} \in SUBSET Ids
      BY <2>1
    <2>3. overlap' \subseteq Ids
      BY <1>2, <2>2, OverlapsBound DEF UpdateJob
    <2>4. edits < MaxEdits /\ edits' = edits + 1
      BY <1>2 DEF UpdateJob
    <2>5. edits' \in 0..MaxEdits
      BY <2>4, BoundAssumption DEF BoundInv
    <2> QED
      BY <1>2, <2>3, <2>5 DEF UpdateJob, BoundInv
  <1>3. ASSUME NEW k \in Keys, GetAllJobs(r, k) PROVE BoundInv'
    BY <1>3, SameBound DEF GetAllJobs, history
  <1> QED
    BY <1>1, <1>2, <1>3 DEF Arrive

LEMMA DropBound ==
    ASSUME BoundInv, NEW ks, Drop(ks), UNCHANGED <<today, edits, overlap, faults>> PROVE BoundInv'
  BY DEF Drop, BoundInv

LEMMA ProceedBound ==
    ASSUME Inv, BoundInv, NEW r \in Requests, Proceed(r) PROVE BoundInv'
  <1>1. CASE UpdateSave(r)
    BY <1>1, SameBound DEF UpdateSave
  <1>2. CASE Mail(r)
    BY <1>2, SameBound DEF Mail, history
  <1>3. CASE KeysOfPattern(r)
    BY <1>3, SameBound DEF KeysOfPattern, history
  <1>4. CASE DeleteKey(r)
    <2>1. UNCHANGED <<today, edits, overlap, faults>>
      BY <1>4 DEF DeleteKey
    <2>2. (\E k \in found[r] : Drop({k})) \/ UNCHANGED <<raced, skipped>>
      BY <1>4 DEF DeleteKey
    <2> QED
      BY <2>1, <2>2, DropBound, SameBound
  <1>5. CASE ListQuery(r)
    BY <1>5, SameBound DEF ListQuery, history
  <1>6. CASE ListSet(r)
    <2>1. key[r] \in Keys
      BY <1>6 DEF ListSet, Inv, TypeInv, SlotOK
    <2> QED
      BY <1>6, <2>1 DEF ListSet, BoundInv
  <1> QED
    BY <1>1, <1>2, <1>3, <1>4, <1>5, <1>6 DEF Proceed

LEMMA FaultBound ==
    ASSUME BoundInv, Fault, skipped' \subseteq Keys, UNCHANGED <<today, edits, overlap, raced>>
    PROVE  BoundInv'
  BY DEF Fault, BoundInv

LEMMA CronBound ==
    ASSUME Inv, BoundInv, NEW c \in Crons, CronFind(c) \/ CronSave(c) \/ CronAbort(c)
    PROVE  BoundInv'
  <1>1. CASE CronFind(c)
    <2>1. \E js \in SUBSET (1..Len(jobs)) : Overlaps(js)
      <3> DEFINE js == {j \in {i \in 1..Len(jobs) : Due(i) /\ jobs[i].active} : HeldByOther(c, j)}
      <3>1. Overlaps(js)
        BY <1>1 DEF CronFind
      <3>2. js \subseteq 1..Len(jobs)
        OBVIOUS
      <3> QED
        BY <3>1, <3>2
    <2>2. 1..Len(jobs) \subseteq Ids
      BY DEF Inv, TypeInv, TableType
    <2>3. overlap' \subseteq Ids
      BY <2>1, <2>2, OverlapsBound
    <2> QED
      BY <1>1, <2>3 DEF CronFind, request, BoundInv
  <1>2. CASE CronSave(c)
    <2>1. skipped' \subseteq Keys
      BY <1>2 DEF CronSave, BoundInv
    <2> QED
      BY <1>2, <2>1 DEF CronSave, request, BoundInv
  <1>3. CASE CronAbort(c)
    BY <1>3, FaultBound DEF CronAbort, BoundInv
  <1> QED
    BY <1>1, <1>2, <1>3

LEMMA StepBound == ASSUME Inv, BoundInv, [Next]_vars PROVE BoundInv'
  <1>1. ASSUME NEW r \in Requests, Abort(r) PROVE BoundInv'
    <2>1. skipped' \subseteq Keys
      BY <1>1 DEF Abort, BoundInv
    <2> QED
      BY <1>1, <2>1, FaultBound DEF Abort
  <1>2. ASSUME NEW k \in Keys, ExpireKey(k) PROVE BoundInv'
    BY <1>2, DropBound DEF ExpireKey
  <1>3. CASE Tick
    BY <1>3, BoundAssumption DEF Tick, history, BoundInv
  <1>4. CASE UNCHANGED vars
    BY <1>4, SameBound DEF vars
  <1> QED
    BY <1>1, <1>2, <1>3, <1>4, ArriveBound, ProceedBound, CronBound DEF Next

\* Every variable keeps its type: a page in the cache or on its way there is one
\* the table could give, and no clock or counter leaves its bound.
THEOREM TypeAlwaysOK == Spec => []TypeOK
  <1>1. Init => BoundInv
    BY BoundAssumption DEF Init, BoundInv
  <1>2. Inv /\ BoundInv /\ [Next]_vars => BoundInv'
    BY StepBound
  <1>3. Inv /\ BoundInv => TypeOK
    BY InvTypeOK
  <1> QED
    BY <1>1, <1>2, <1>3, AlwaysInv, PTL DEF Spec

LEMMA OnPage ==
    ASSUME TableType, NEW status \in Filters, NEW p \in 1..MaxPage, NEW j,
           Contains(Page(<<status, p>>).data, j)
    PROVE  \E n \in 1..Len(Listed(StatusColumn, status)) :
              p = PageOfItem(n, PerPage) /\ Listed(StatusColumn, status)[n] = j
  <1> DEFINE items == Listed(StatusColumn, status)
  <1>1. p \in Nat \ {0} /\ Len(StatusColumn) \in Nat
    BY ColumnType, BoundAssumption DEF TableType
  <1>2. items \in Seq(Ours(StatusColumn, status))
    BY <1>1, ListingComplete
  <1>3. Page(<<status, p>>).data = Slice(items, p, PerPage)
    BY DEF Page, PageOf
  <1>4. \E m \in 1..Len(Slice(items, p, PerPage)) : Slice(items, p, PerPage)[m] = j
    BY <1>3 DEF Contains
  <1> HIDE DEF items
  <1>5. \A m \in 1..Len(Slice(items, p, PerPage)) :
            \E n \in 1..Len(items) : /\ p = PageOfItem(n, PerPage)
                                     /\ Slice(items, p, PerPage)[m] = items[n]
    BY <1>1, <1>2, BoundAssumption, ItemOnPage
  <1> QED
    BY <1>4, <1>5 DEF items

\* An item is found on its page.
LEMMA ItemFound ==
    ASSUME NEW S, NEW items \in Seq(S), NEW perPage \in Nat \ {0}, NEW n \in 1..Len(items),
           NEW page \in Nat \ {0}, page = PageOfItem(n, perPage)
    PROVE  /\ Slice(items, page, perPage) \in Seq(S)
           /\ \E m \in 1..Len(Slice(items, page, perPage)) :
                 Slice(items, page, perPage)[m] = items[n]
  BY ItemOnPage

\* There is a next page exactly when some item is on a later page.
LEMMA MorePages ==
    ASSUME NEW total \in Nat, NEW page \in Nat \ {0}, NEW perPage \in Nat \ {0}
    PROVE  NextPage(page, total, perPage) # 0 <=>
               \E n \in 1..total : page < PageOfItem(n, perPage)
  <1> DEFINE T == (total + perPage - 1) \div perPage
             n0 == perPage * page + 1
  <1>1. T \in Nat /\ perPage * T <= total + perPage - 1
    <2>1. total + perPage - 1 \in Nat
      OBVIOUS
    <2> QED
      BY <2>1, Quotient
  <1>2. TotalPages(total, perPage) = T
    BY DEF TotalPages
  <1> HIDE DEF T
  <1>3. NextPage(page, total, perPage) # 0 <=> page < T
    BY <1>1, <1>2 DEF NextPage
  <1>4. ASSUME page < T PROVE n0 \in 1..total /\ page < PageOfItem(n0, perPage)
    <2>1. page + 1 \in Nat /\ page + 1 <= T
      BY <1>1, <1>4
    <2>2. perPage * (page + 1) <= perPage * T
      BY <1>1, <2>1, TimesMonotone
    <2>3. perPage * page \in Nat /\ perPage * (page + 1) = perPage * page + perPage
      BY TimesNext
    <2>4. perPage * T \in Nat
      BY <1>1, TimesNext
    <2>5. n0 \in 1..total
      BY <1>1, <2>2, <2>3, <2>4
    <2> DEFINE P == (n0 - 1) \div perPage
    <2>6. /\ P \in Nat /\ n0 - 1 = perPage * page
          /\ n0 - 1 < perPage * P + perPage
      <3>1. n0 - 1 \in Nat /\ n0 - 1 = perPage * page
        BY <2>3
      <3> QED
        BY <3>1, Quotient
    <2>7. PageOfItem(n0, perPage) = P + 1
      BY DEF PageOfItem
    <2> HIDE DEF P, n0
    <2>8. perPage * page < perPage * (P + 1)
      <3>1. perPage * (P + 1) = perPage * P + perPage
        BY <2>6, TimesNext
      <3> QED
        BY <2>6, <3>1
    <2>9. page < P + 1
      <3>1. P + 1 \in Nat
        BY <2>6
      <3> QED
        BY <2>8, <3>1, TimesLess
    <2> QED
      BY <2>5, <2>7, <2>9
  <1>5. ASSUME NEW n \in 1..total, page < PageOfItem(n, perPage) PROVE page < T
    <2>1. PageOfItem(n, perPage) \in 1..T
      BY <1>2, PageExists
    <2> QED
      BY <1>1, <1>5, <2>1
  <1> QED
    BY <1>3, <1>4, <1>5

\* The places of the jobs of a status in their listing, and the pages they are on.
LEMMA ItemPages ==
    ASSUME Inv, NEW status \in Filters
    PROVE  LET items == Listed(StatusColumn, status)
           IN  /\ Len(items) \in Nat
               /\ \A j \in 1..Len(jobs) : jobs[j].status = status =>
                     \E n \in 1..Len(items) : items[n] = j
               /\ \A n \in 1..Len(items) :
                     /\ items[n] \in 1..Len(jobs) /\ jobs[items[n]].status = status
                     /\ PageOfItem(n, PerPage) \in 1..MaxPage
                     /\ Contains(Page(<<status, PageOfItem(n, PerPage)>>).data, items[n])
                     /\ \A m \in 1..Len(items) : items[m] = items[n] => m = n
  <1> DEFINE items == Listed(StatusColumn, status)
             S == Ours(StatusColumn, status)
  <1>1. TableType /\ StatusColumn \in Columns /\ Len(StatusColumn) = Len(jobs)
    BY ColumnType DEF Inv, TypeInv
  <1>2. /\ Len(jobs) \in Nat /\ Len(jobs) <= MaxJobs
        /\ MaxJobs \in Nat /\ PerPage * MaxPage \in Nat /\ MaxJobs <= PerPage * MaxPage
    BY <1>1, TableBound, BoundAssumption DEF TableType
  <1>3. /\ items \in Seq(S) /\ Len(items) = Cardinality(S)
        /\ \A j \in S : \E n \in 1..Len(items) : items[n] = j
        /\ \A m, n \in 1..Len(items) : m < n => items[m] > items[n]
    BY <1>1, <1>2, ListingComplete
  <1>4. Cardinality(S) \in 0..Len(StatusColumn) /\ S \subseteq Nat
    BY <1>1, <1>2, OursFinite
  <1>5. S = {j \in 1..Len(jobs) : jobs[j].status = status}
    BY <1>1, <1>2 DEF Ours, StatusColumn
  <1>6. Len(items) \in Nat /\ Len(items) <= MaxJobs
    BY <1>1, <1>2, <1>3, <1>4
  <1>7. ASSUME NEW q
        PROVE  Page(<<status, q>>).data = Slice(items, q, PerPage)
    BY DEF Page, PageOf
  <1> HIDE DEF items, S
  <1>8. ASSUME NEW n \in 1..Len(items)
        PROVE  /\ items[n] \in 1..Len(jobs) /\ jobs[items[n]].status = status
               /\ PageOfItem(n, PerPage) \in 1..MaxPage
               /\ Contains(Page(<<status, PageOfItem(n, PerPage)>>).data, items[n])
               /\ \A m \in 1..Len(items) : items[m] = items[n] => m = n
    <2> DEFINE p == PageOfItem(n, PerPage)
               P == (n - 1) \div PerPage
    <2>1. items[n] \in S
      BY <1>3
    <2>2. P \in Nat /\ PerPage * P <= n - 1 /\ p = P + 1
      BY <1>6, BoundAssumption, Quotient DEF PageOfItem
    <2> HIDE DEF p, P
    <2>3. p \in 1..MaxPage
      <3>1. PerPage * P \in Nat /\ MaxPage \in Nat /\ PerPage \in Nat /\ n \in Nat
        BY <1>6, <2>2, BoundAssumption
      <3>2. PerPage * P < PerPage * MaxPage
        BY <1>2, <1>6, <2>2, <3>1
      <3>3. P < MaxPage
        BY <2>2, <3>1, <3>2, TimesLess
      <3> QED
        BY <2>2, <3>1, <3>3
    <2>4. Contains(Page(<<status, p>>).data, items[n])
      <3>1. p \in Nat \ {0} /\ p = PageOfItem(n, PerPage)
        BY <2>3 DEF p
      <3>2. /\ Slice(items, p, PerPage) \in Seq(S)
            /\ \E m \in 1..Len(Slice(items, p, PerPage)) :
                  Slice(items, p, PerPage)[m] = items[n]
        <4>1. items \in Seq(S) /\ PerPage \in Nat \ {0}
          BY <1>3, BoundAssumption
        <4> QED
          BY <3>1, <4>1, ItemFound
      <3>3. Page(<<status, p>>).data = Slice(items, p, PerPage)
        BY <1>7
      <3> QED
        BY <3>2, <3>3 DEF Contains
    <2>5. ASSUME NEW m \in 1..Len(items), items[m] = items[n] PROVE m = n
      <3>1. m \in Nat /\ n \in Nat /\ ~ (items[n] > items[n])
        <4>1. items[n] \in Nat
          BY <1>4, <2>1
        <4> QED
          BY <1>6, <4>1
      <3>2. ~ (m < n) /\ ~ (n < m)
        BY <1>3, <2>5, <3>1
      <3> QED
        BY <3>1, <3>2
    <2> QED
      BY <1>5, <2>1, <2>3, <2>4, <2>5 DEF p
  <1>9. \A j \in 1..Len(jobs) : jobs[j].status = status =>
            \E n \in 1..Len(items) : items[n] = j
    BY <1>3, <1>5
  <1> QED
    BY <1>6, <1>8, <1>9 DEF items

LEMMA InvPagesCover == ASSUME Inv PROVE PagesCover
  <1> SUFFICES ASSUME NEW status \in Filters
               PROVE  /\ \A j \in 1..Len(jobs) : jobs[j].status = status =>
                            \E p \in 1..MaxPage :
                               /\ Contains(Page(<<status, p>>).data, j)
                               /\ \A q \in 1..(p - 1) : Page(<<status, q>>).next = q + 1
                      /\ \A p \in 1..MaxPage :
                            Page(<<status, p>>).next # 0 <=>
                               \E j \in 1..Len(jobs) :
                                  /\ jobs[j].status = status
                                  /\ \A q \in 1..p : ~ Contains(Page(<<status, q>>).data, j)
    BY DEF PagesCover
  <1> DEFINE items == Listed(StatusColumn, status)
  <1>1. TableType /\ PerPage \in Nat \ {0}
    BY BoundAssumption DEF Inv, TypeInv
  <1>2. ASSUME NEW q \in 1..MaxPage, NEW j, Contains(Page(<<status, q>>).data, j)
        PROVE  \E n \in 1..Len(items) : q = PageOfItem(n, PerPage) /\ items[n] = j
    BY <1>1, <1>2, OnPage
  <1>3. \A q : Page(<<status, q>>).next = NextPage(q, Len(items), PerPage)
    BY DEF Page, PageOf
  <1>4. /\ Len(items) \in Nat
        /\ \A j \in 1..Len(jobs) : jobs[j].status = status =>
              \E n \in 1..Len(items) : items[n] = j
        /\ \A n \in 1..Len(items) :
              /\ items[n] \in 1..Len(jobs) /\ jobs[items[n]].status = status
              /\ PageOfItem(n, PerPage) \in 1..MaxPage
              /\ Contains(Page(<<status, PageOfItem(n, PerPage)>>).data, items[n])
              /\ \A m \in 1..Len(items) : items[m] = items[n] => m = n
    BY ItemPages
  <1> HIDE DEF items
  <1>5. ASSUME NEW j \in 1..Len(jobs), jobs[j].status = status
        PROVE  \E p \in 1..MaxPage :
                  /\ Contains(Page(<<status, p>>).data, j)
                  /\ \A q \in 1..(p - 1) : Page(<<status, q>>).next = q + 1
    <2>1. PICK n \in 1..Len(items) : items[n] = j
      BY <1>4, <1>5
    <2>2. \A q \in 1..(PageOfItem(n, PerPage) - 1) : NextPage(q, Len(items), PerPage) = q + 1
      BY <1>1, <1>4, PageExists
    <2> QED
      BY <1>3, <1>4, <2>1, <2>2
  <1>6. ASSUME NEW p \in 1..MaxPage
        PROVE  Page(<<status, p>>).next # 0 <=>
                  \E j \in 1..Len(jobs) :
                     /\ jobs[j].status = status
                     /\ \A q \in 1..p : ~ Contains(Page(<<status, q>>).data, j)
    <2>1. /\ p \in Nat \ {0} /\ MaxPage \in Nat
          /\ Page(<<status, p>>).next # 0 <=>
                \E n \in 1..Len(items) : p < PageOfItem(n, PerPage)
      <3>1. p \in Nat \ {0} /\ MaxPage \in Nat
        BY BoundAssumption
      <3>2. NextPage(p, Len(items), PerPage) # 0 <=>
                \E n \in 1..Len(items) : p < PageOfItem(n, PerPage)
        BY <1>1, <1>4, <3>1, MorePages
      <3> QED
        BY <1>3, <3>1, <3>2
    <2>2. ASSUME NEW n \in 1..Len(items), p < PageOfItem(n, PerPage)
          PROVE  \A q \in 1..p : ~ Contains(Page(<<status, q>>).data, items[n])
      <3> SUFFICES ASSUME NEW q \in 1..p, Contains(Page(<<status, q>>).data, items[n])
                   PROVE  FALSE
        OBVIOUS
      <3>1. q \in 1..MaxPage /\ q \in Nat /\ ~ (p < q)
        BY <2>1
      <3>2. PICK m \in 1..Len(items) : q = PageOfItem(m, PerPage) /\ items[m] = items[n]
        BY <1>2, <3>1
      <3>3. m = n
        BY <1>4, <3>2
      <3> QED
        BY <2>2, <3>1, <3>2, <3>3
    <2>3. ASSUME NEW j \in 1..Len(jobs), jobs[j].status = status,
                 \A q \in 1..p : ~ Contains(Page(<<status, q>>).data, j)
          PROVE  \E n \in 1..Len(items) : p < PageOfItem(n, PerPage)
      <3>1. PICK n \in 1..Len(items) : items[n] = j
        BY <1>4, <2>3
      <3>2. /\ PageOfItem(n, PerPage) \in 1..MaxPage
            /\ Contains(Page(<<status, PageOfItem(n, PerPage)>>).data, j)
        BY <1>4, <3>1
      <3>3. PageOfItem(n, PerPage) \notin 1..p
        BY <2>3, <3>2
      <3>4. p < PageOfItem(n, PerPage)
        BY <2>1, <3>2, <3>3
      <3> QED
        BY <3>4
    <2> QED
      BY <1>4, <2>1, <2>2, <2>3
  <1> QED
    BY <1>5, <1>6

\* Every job of a status is on a page that following nextUrl from the first page
\* comes to, and a page has a nextUrl exactly when jobs remain, for every number of
\* jobs and every page size.
THEOREM PagesAlwaysCover == Spec => []PagesCover
  <1>1. Inv => PagesCover
    BY InvPagesCover
  <1> QED
    BY <1>1, AlwaysInv, PTL

\* PagesExact: a page shows jobs of the status asked for only, and no job is on
\* two of them.
PagesExact ==
    \A status \in Filters, p, q \in 1..MaxPage : \A j \in Ids :
        Contains(Page(<<status, p>>).data, j) =>
            /\ j \in 1..Len(jobs) /\ jobs[j].status = status
            /\ Contains(Page(<<status, q>>).data, j) => p = q

LEMMA InvPagesExact == ASSUME Inv PROVE PagesExact
  <1> SUFFICES ASSUME NEW status \in Filters, NEW p \in 1..MaxPage, NEW q \in 1..MaxPage,
                      NEW j \in Ids, Contains(Page(<<status, p>>).data, j)
               PROVE  /\ j \in 1..Len(jobs) /\ jobs[j].status = status
                      /\ Contains(Page(<<status, q>>).data, j) => p = q
    BY DEF PagesExact
  <1> DEFINE items == Listed(StatusColumn, status)
             S == Ours(StatusColumn, status)
  <1>1. TableType /\ Len(StatusColumn) = Len(jobs) /\ Len(jobs) \in Nat
    BY ColumnType DEF Inv, TypeInv, TableType
  <1>2. /\ items \in Seq(S)
        /\ \A m, n \in 1..Len(items) : m < n => items[m] > items[n]
    BY <1>1, ListingComplete
  <1>3. S \subseteq Nat
    BY <1>1, OursFinite
  <1>4. PICK n \in 1..Len(items) : p = PageOfItem(n, PerPage) /\ items[n] = j
    BY <1>1, OnPage
  <1>5. Contains(Page(<<status, q>>).data, j) =>
            \E m \in 1..Len(items) : q = PageOfItem(m, PerPage) /\ items[m] = j
    BY <1>1, OnPage
  <1> HIDE DEF items, S
  <1>6. j \in S
    BY <1>2, <1>4
  <1>7. j \in 1..Len(jobs) /\ jobs[j].status = status
    BY <1>1, <1>6 DEF S, Ours, StatusColumn
  <1>8. ASSUME NEW m \in 1..Len(items), items[m] = j PROVE m = n
    <2>1. m \in Nat /\ n \in Nat /\ ~ (j > j)
      BY <1>2, <1>3, <1>6
    <2>2. ~ (m < n) /\ ~ (n < m)
      BY <1>2, <1>4, <1>8, <2>1
    <2> QED
      BY <2>1, <2>2
  <1> QED
    BY <1>4, <1>5, <1>7, <1>8

\* A job is on no two pages of a listing, and on none of another status.
THEOREM PagesAlwaysExact == Spec => []PagesExact
  <1>1. Inv => PagesExact
    BY InvPagesExact
  <1> QED
    BY <1>1, AlwaysInv, PTL
=============================================================================
