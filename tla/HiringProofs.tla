---------------------------- MODULE HiringProofs ----------------------------
(* Proofs about applications and ratings, for every number of students,      *)
(* jobs, applications, ratings and overlapping requests.                     *)
EXTENDS Hiring, FiniteSetTheorems, TLAPS

-----------------------------------------------------------------------------
(* What a request has by each step *)

RequestOK(r) ==
    /\ pc[r] \notin {"idle", "status_find", "status_save"} => who[r] \in Students
    /\ pc[r] \in {"apply_find", "apply_save"} => about[r] \in Jobs
    /\ pc[r] \in {"apply_del", "status_find", "status_save"} => about[r] \in Ids
    /\ pc[r] \in {"apply_del", "status_save"} => rows[about[r]] # Nothing
    /\ pc[r] \in {"status_find", "status_save"} => status[r] \in NewStatuses

RequestInv == \A r \in Requests : RequestOK(r)

\* Whatever was answered, or promised to a request, is in the table.
AnsweredInv ==
    /\ \A i \in answered : rows[i] # Nothing
    /\ \A r \in Requests : promised[r] \subseteq answered

TypeInv == TypeOK /\ RequestInv /\ AnsweredInv

LocalsType ==
    /\ pc \in [Requests -> Steps]
    /\ who \in [Requests -> Students \cup {Nothing}]
    /\ about \in [Requests -> Jobs \cup Ids \cup {Nothing}]
    /\ status \in [Requests -> Statuses \cup {Nothing}]
    /\ page \in [Requests -> SUBSET Ids]
    /\ count \in [Requests -> Nat]
    /\ promised \in [Requests -> SUBSET Ids]

SameSlot(s) ==
    /\ pc'[s] = pc[s] /\ who'[s] = who[s] /\ about'[s] = about[s] /\ status'[s] = status[s]
    /\ page'[s] = page[s] /\ count'[s] = count[s] /\ promised'[s] = promised[s]

\* Rows are never deleted.
RowsKept == \A i \in Ids : rows[i] # Nothing => rows'[i] # Nothing

\* A step of one slot that leaves its locals typed and its checks made.
StepOf(r) ==
    /\ LocalsType'
    /\ \A s \in Requests \ {r} : SameSlot(s)
    /\ RequestOK(r)'
    /\ promised'[r] \subseteq answered

LEMMA RequestKept ==
    ASSUME TypeOK, NEW s \in Requests, RequestOK(s), SameSlot(s), RowsKept
    PROVE  RequestOK(s)'
  BY DEF RequestOK, SameSlot, RowsKept

LEMMA StepKeeps ==
    ASSUME TypeInv, NEW r \in Requests, StepOf(r), RowsKept,
           TypeOK', answered \subseteq answered', \A i \in answered' : rows'[i] # Nothing
    PROVE  TypeInv'
  <1>1. RequestInv'
    BY RequestKept DEF TypeInv, RequestInv, StepOf
  <1>2. AnsweredInv'
    <2>1. \A s \in Requests \ {r} : promised'[s] \subseteq answered
      BY DEF TypeInv, AnsweredInv, StepOf, SameSlot
    <2> QED
      BY <2>1 DEF AnsweredInv, StepOf
  <1> QED
    BY <1>1, <1>2 DEF TypeInv

LEMMA DoneStep ==
    ASSUME TypeInv, NEW r \in Requests, Done(r)
    PROVE  StepOf(r) /\ pc'[r] = "idle" /\ promised'[r] = {}
  <1>1. LocalsType'
    BY DEF TypeInv, TypeOK, LocalsType, Done, Goto, Steps
  <1>2. \A s \in Requests \ {r} : SameSlot(s)
    BY DEF TypeInv, TypeOK, Done, Goto, SameSlot
  <1>3. pc'[r] = "idle" /\ promised'[r] = {}
    BY DEF TypeInv, TypeOK, Done, Goto
  <1> QED
    BY <1>1, <1>2, <1>3 DEF StepOf, RequestOK

\* A step that goes on with the same request.
LEMMA GotoStep ==
    ASSUME TypeInv, NEW r \in Requests, NEW step \in Steps, Goto(r, step), Same,
           page' \in [Requests -> SUBSET Ids], count' \in [Requests -> Nat],
           \A s \in Requests \ {r} : page'[s] = page[s] /\ count'[s] = count[s],
           RequestOK(r)'
    PROVE  StepOf(r) /\ pc'[r] = step
  <1>1. /\ pc' \in [Requests -> Steps] /\ pc'[r] = step
        /\ \A s \in Requests \ {r} : pc'[s] = pc[s]
    BY DEF TypeInv, TypeOK, Goto
  <1>2. LocalsType'
    BY <1>1 DEF TypeInv, TypeOK, LocalsType, Same
  <1> QED
    BY <1>1, <1>2 DEF StepOf, SameSlot, Same, TypeInv, AnsweredInv

LEMMA BeginStep ==
    ASSUME TypeInv, NEW r \in Requests, NEW step \in Steps, NEW s \in Students \cup {Nothing},
           NEW x \in Jobs \cup Ids \cup {Nothing}, NEW st \in Statuses \cup {Nothing},
           Begin(r, step, s, x, st), UNCHANGED <<page, count>>
    PROVE  /\ LocalsType'
           /\ \A q \in Requests \ {r} : SameSlot(q)
           /\ pc'[r] = step /\ who'[r] = s /\ about'[r] = x /\ status'[r] = st
           /\ promised'[r] = answered
  <1>1. LocalsType'
    BY DEF TypeInv, TypeOK, LocalsType, Begin, Goto
  <1>2. \A q \in Requests \ {r} : SameSlot(q)
    BY DEF TypeInv, TypeOK, Begin, Goto, SameSlot
  <1> QED
    BY <1>1, <1>2 DEF TypeInv, TypeOK, Begin, Goto

\* A request arrives, knowing what was answered before.
LEMMA ArriveType ==
    ASSUME TypeInv, NEW r \in Requests, Arrive(r)
    PROVE  /\ TypeInv' /\ StepOf(r)
           /\ UNCHANGED <<applications, averages, page, count, faults>>
           /\ pc'[r] \in {"apply_find", "mine_get", "received_find", "status_find",
                          "rate_save", "avg_get"}
  <1>1. ASSUME NEW step \in {"apply_find", "mine_get", "received_find", "status_find",
                             "rate_save", "avg_get"},
               NEW s \in Students \cup {Nothing},
               NEW x \in Jobs \cup Ids \cup {Nothing}, NEW st \in Statuses \cup {Nothing},
               Begin(r, step, s, x, st),
               UNCHANGED <<applications, averages, page, count, faults>>,
               step = "apply_find" => x \in Jobs,
               step = "status_find" => x \in Ids /\ st \in NewStatuses,
               step # "status_find" => s \in Students
        PROVE  /\ TypeInv' /\ StepOf(r)
               /\ UNCHANGED <<applications, averages, page, count, faults>>
               /\ pc'[r] \in {"apply_find", "mine_get", "received_find", "status_find",
                              "rate_save", "avg_get"}
    <2>1. step \in Steps
      BY DEF Steps
    <2>2. /\ LocalsType'
          /\ \A q \in Requests \ {r} : SameSlot(q)
          /\ pc'[r] = step /\ who'[r] = s /\ about'[r] = x /\ status'[r] = st
          /\ promised'[r] = answered
      BY <1>1, <2>1, BeginStep
    <2>3. StepOf(r)
      BY <1>1, <2>2 DEF StepOf, RequestOK
    <2>4. TypeOK'
      BY <1>1, <2>2 DEF TypeInv, TypeOK, LocalsType, applications, averages
    <2>5. RowsKept /\ answered' = answered /\ \A i \in answered' : rows'[i] # Nothing
      BY <1>1 DEF RowsKept, TypeInv, AnsweredInv, applications
    <2> QED
      BY <1>1, <2>2, <2>3, <2>4, <2>5, StepKeeps
  <1>2. ASSUME NEW s \in Students, NEW j \in Jobs, Apply(r, s, j)
        PROVE  /\ Begin(r, "apply_find", s, j, Nothing)
               /\ UNCHANGED <<applications, averages, page, count, faults>>
    BY <1>2 DEF Apply
  <1>3. ASSUME NEW i \in Ids, NEW st \in NewStatuses, UpdateStatus(r, i, st)
        PROVE  /\ Begin(r, "status_find", Nothing, i, st) /\ i \in Ids /\ st \in Statuses
               /\ UNCHANGED <<applications, averages, page, count, faults>>
    BY <1>3 DEF UpdateStatus, TypeInv, TypeOK, Statuses
  <1>4. ASSUME NEW s \in Students,
               \/ GetMyApplications(r, s) \/ GetReceivedApplications(r, s)
               \/ CreateRating(r, s) \/ GetRatingsForStudent(r, s)
        PROVE  /\ \E step \in {"mine_get", "received_find", "rate_save", "avg_get"} :
                     Begin(r, step, s, Nothing, Nothing)
               /\ UNCHANGED <<applications, averages, page, count, faults>>
    BY <1>4 DEF GetMyApplications, GetReceivedApplications, CreateRating, GetRatingsForStudent
  <1> QED
    BY <1>1, <1>2, <1>3, <1>4 DEF Arrive

\* Steps that change no row and answer nothing new.
LEMMA ReadStepKeeps ==
    ASSUME TypeInv, NEW r \in Requests, StepOf(r), UNCHANGED <<rows, answered>>,
           mine' \in [Keys -> (SUBSET Ids) \cup {Nothing}],
           ratings' \in [Students -> Nat],
           average' \in [Students -> Nat \cup {Nothing}],
           expiring' \subseteq Students,
           told' \in [Students -> Nat],
           straddled' \subseteq Students,
           undated' \subseteq Students,
           faults' \in Nat
    PROVE  TypeInv'
  <1>1. TypeOK'
    BY DEF TypeInv, TypeOK, StepOf, LocalsType
  <1>2. RowsKept /\ \A i \in answered' : rows'[i] # Nothing
    BY DEF RowsKept, TypeInv, AnsweredInv
  <1> QED
    BY <1>1, <1>2, StepKeeps

LEMMA ApplyType ==
    ASSUME TypeInv, NEW r \in Requests, ApplyFind(r) \/ ApplySave(r) \/ ApplyDel(r)
    PROVE  TypeInv' /\ StepOf(r)
  <1> USE DEF TypeInv
  <1>1. RequestOK(r)
    BY DEF RequestInv
  <1>2. CASE ApplyFind(r)
    <2>1. UNCHANGED <<applications, averages, faults>>
      BY <1>2 DEF ApplyFind
    <2>2. StepOf(r)
      <3>1. CASE Done(r)
        BY <3>1, DoneStep
      <3>2. CASE Goto(r, "apply_save") /\ Same /\ UNCHANGED <<page, count>>
        <4>1. RequestOK(r)'
          BY <1>1, <1>2, <3>2 DEF RequestOK, Same, Goto, ApplyFind, TypeOK
        <4>2. "apply_save" \in Steps
          BY DEF Steps
        <4> QED
          BY <3>2, <4>1, <4>2, GotoStep DEF TypeOK
      <3> QED
        BY <1>2, <3>1, <3>2 DEF ApplyFind
    <2> QED
      BY <2>1, <2>2, ReadStepKeeps DEF applications, averages, TypeOK
  <1>3. CASE ApplySave(r)
    <2>1. PICK i \in Ids :
             /\ rows[i] = Nothing
             /\ rows' = [rows EXCEPT ![i] =
                           [student |-> who[r], job |-> about[r], status |-> "PENDING"]]
             /\ about' = [about EXCEPT ![r] = i]
      BY <1>3 DEF ApplySave
    <2>2. /\ Goto(r, "apply_del") /\ pc[r] = "apply_save"
          /\ UNCHANGED <<mine, answered, averages, who, status, page, count, promised, faults>>
      BY <1>3 DEF ApplySave
    <2>3. [student |-> who[r], job |-> about[r], status |-> "PENDING"] \in Row
      BY <1>1, <2>2 DEF RequestOK, Row, Statuses
    <2>4. rows' \in [Ids -> Row \cup {Nothing}] /\ rows'[i] # Nothing /\ RowsKept
      BY <2>1, <2>3, NullAssumption DEF TypeOK, RowsKept, Row, Statuses
    <2>5. LocalsType' /\ pc'[r] = "apply_del" /\ about'[r] = i
      BY <2>1, <2>2 DEF TypeOK, LocalsType, Goto, Steps
    <2>6. \A s \in Requests \ {r} : SameSlot(s)
      BY <2>1, <2>2 DEF TypeOK, Goto, SameSlot
    <2>7. StepOf(r)
      BY <1>1, <2>2, <2>4, <2>5, <2>6 DEF StepOf, RequestOK, AnsweredInv
    <2>8. TypeOK'
      BY <2>2, <2>4, <2>5 DEF TypeOK, LocalsType, averages
    <2>9. answered' = answered /\ \A k \in answered' : rows'[k] # Nothing
      BY <2>2, <2>4 DEF AnsweredInv, RowsKept, TypeOK
    <2> QED
      BY <2>4, <2>7, <2>8, <2>9, StepKeeps
  <1>4. CASE ApplyDel(r)
    <2>1. /\ pc[r] = "apply_del"
          /\ mine' = [mine EXCEPT ![<<who[r], "stored">>] = Nothing]
          /\ answered' = answered \cup {about[r]}
          /\ Done(r) /\ UNCHANGED <<rows, averages, faults>>
      BY <1>4 DEF ApplyDel
    <2>2. about[r] \in Ids /\ rows[about[r]] # Nothing
      BY <1>1, <2>1 DEF RequestOK
    <2>3. StepOf(r)
      BY <2>1, DoneStep
    <2>4. TypeOK'
      <3>1. mine' \in [Keys -> (SUBSET Ids) \cup {Nothing}]
        BY <2>1 DEF TypeOK
      <3>2. answered' \subseteq Ids
        BY <2>1, <2>2 DEF TypeOK
      <3> QED
        BY <2>1, <2>3, <3>1, <3>2 DEF TypeOK, StepOf, LocalsType, averages
    <2>5. RowsKept /\ \A i \in answered' : rows'[i] # Nothing
      BY <2>1, <2>2 DEF RowsKept, AnsweredInv
    <2> QED
      BY <2>1, <2>3, <2>4, <2>5, StepKeeps
  <1> QED
    BY <1>2, <1>3, <1>4

LEMMA ListingType ==
    ASSUME TypeInv, NEW r \in Requests,
           MineGet(r) \/ MineFind(r) \/ MineSet(r) \/ ReceivedFind(r) \/ MineAnswer(r)
    PROVE  TypeInv' /\ StepOf(r)
  <1> USE DEF TypeInv
  <1>1. RequestOK(r)
    BY DEF RequestInv
  <1>2. RowsOf(who[r]) \in SUBSET Ids
    BY DEF RowsOf
  <1>3. ASSUME NEW step \in {"mine_find", "mine_set", "mine_answer"},
               Goto(r, step), Same, count' = count,
               page' \in [Requests -> SUBSET Ids],
               \A s \in Requests \ {r} : page'[s] = page[s],
               pc[r] \in {"mine_get", "mine_find", "mine_set", "received_find"}
        PROVE  StepOf(r)
    <2>1. RequestOK(r)'
      BY <1>1, <1>3 DEF RequestOK, Same, Goto, TypeOK
    <2>2. step \in Steps
      BY DEF Steps
    <2> QED
      BY <1>3, <2>1, <2>2, GotoStep DEF TypeOK
  <1>4. CASE MineGet(r)
    <2>1. /\ pc[r] = "mine_get" /\ Same
          /\ UNCHANGED <<applications, averages, count, faults>>
      BY <1>4 DEF MineGet, MineGetFrom
    <2>2. StepOf(r)
      <3>1. CASE Goto(r, "mine_find") /\ UNCHANGED page
        BY <1>3, <2>1, <3>1 DEF TypeOK
      <3>2. CASE /\ mine[<<who[r], "read">>] # Nothing
                 /\ page' = [page EXCEPT ![r] = mine[<<who[r], "read">>]]
                 /\ Goto(r, "mine_answer")
        <4>1. <<who[r], "read">> \in Keys
          BY <1>1, <2>1 DEF Keys, RequestOK
        <4>2. mine[<<who[r], "read">>] \in SUBSET Ids
          <5>1. \A k \in Keys : mine[k] \in (SUBSET Ids) \cup {Nothing}
            BY DEF TypeOK
          <5> QED
            BY <3>2, <4>1, <5>1
        <4>3. page' \in [Requests -> SUBSET Ids] /\ \A s \in Requests \ {r} : page'[s] = page[s]
          BY <3>2, <4>2 DEF TypeOK
        <4> QED
          BY <1>3, <2>1, <3>2, <4>3
      <3> QED
        BY <1>4, <3>1, <3>2 DEF MineGet, MineGetFrom
    <2> QED
      BY <2>1, <2>2, ReadStepKeeps DEF applications, averages, TypeOK
  <1>5. CASE MineFind(r) \/ ReceivedFind(r)
    <2>1. /\ pc[r] \in {"mine_find", "received_find"} /\ Same
          /\ page' = [page EXCEPT ![r] = RowsOf(who[r])]
          /\ Goto(r, "mine_set") \/ Goto(r, "mine_answer")
          /\ UNCHANGED <<applications, averages, count, faults>>
      BY <1>5 DEF MineFind, ReceivedFind
    <2>2. page' \in [Requests -> SUBSET Ids] /\ \A s \in Requests \ {r} : page'[s] = page[s]
      BY <1>2, <2>1 DEF TypeOK
    <2>3. StepOf(r)
      BY <1>3, <2>1, <2>2
    <2> QED
      BY <2>1, <2>3, ReadStepKeeps DEF applications, averages, TypeOK
  <1>6. CASE MineSet(r)
    <2>1. /\ pc[r] = "mine_set" /\ Same /\ Goto(r, "mine_answer")
          /\ mine' = [mine EXCEPT ![<<who[r], "stored">>] = page[r]]
          /\ UNCHANGED <<rows, answered, averages, page, count, faults>>
      BY <1>6 DEF MineSet
    <2>2. StepOf(r)
      BY <1>3, <2>1 DEF TypeOK
    <2>3. mine' \in [Keys -> (SUBSET Ids) \cup {Nothing}]
      BY <2>1 DEF TypeOK
    <2> QED
      BY <2>1, <2>2, <2>3, ReadStepKeeps DEF averages, TypeOK
  <1>7. CASE MineAnswer(r)
    BY <1>7, DoneStep, ReadStepKeeps DEF MineAnswer, applications, averages, TypeOK
  <1> QED
    BY <1>4, <1>5, <1>6, <1>7

LEMMA StatusType ==
    ASSUME TypeInv, NEW r \in Requests, StatusFind(r) \/ StatusSave(r)
    PROVE  TypeInv' /\ StepOf(r)
  <1> USE DEF TypeInv
  <1>1. RequestOK(r)
    BY DEF RequestInv
  <1>2. CASE StatusFind(r)
    <2>1. /\ pc[r] = "status_find" /\ rows[about[r]] # Nothing
          /\ Goto(r, "status_save") /\ Same
          /\ UNCHANGED <<applications, averages, page, count, faults>>
      BY <1>2 DEF StatusFind
    <2>2. RequestOK(r)'
      BY <1>1, <2>1 DEF RequestOK, Same, Goto, TypeOK, applications
    <2>3. "status_save" \in Steps
      BY DEF Steps
    <2>4. StepOf(r)
      BY <2>1, <2>2, <2>3, GotoStep DEF TypeOK
    <2> QED
      BY <2>1, <2>4, ReadStepKeeps DEF applications, averages, TypeOK
  <1>3. CASE StatusSave(r)
    <2>1. /\ pc[r] = "status_save"
          /\ rows' = [rows EXCEPT ![about[r]] = [@ EXCEPT !.status = status[r]]]
          /\ Done(r) /\ UNCHANGED <<mine, answered, averages, faults>>
      BY <1>3 DEF StatusSave
    <2>2. /\ about[r] \in Ids /\ rows[about[r]] \in Row /\ status[r] \in Statuses
      BY <1>1, <2>1 DEF RequestOK, TypeOK, Statuses
    <2>3. [rows[about[r]] EXCEPT !.status = status[r]] \in Row
      BY <2>2 DEF Row
    <2>4. rows' \in [Ids -> Row \cup {Nothing}] /\ RowsKept
      BY <2>1, <2>2, <2>3, NullAssumption DEF TypeOK, RowsKept, Row, Statuses
    <2>5. StepOf(r)
      BY <2>1, DoneStep
    <2>6. TypeOK'
      BY <2>1, <2>4, <2>5 DEF TypeOK, StepOf, LocalsType, averages
    <2>7. answered' = answered /\ \A i \in answered' : rows'[i] # Nothing
      BY <2>1, <2>4 DEF RowsKept, AnsweredInv, TypeOK
    <2> QED
      BY <2>4, <2>5, <2>6, <2>7, StepKeeps
  <1> QED
    BY <1>2, <1>3

LEMMA RatingType ==
    ASSUME TypeInv, NEW r \in Requests,
           \/ RateSave(r) \/ RateDel(r) \/ AvgGet(r)
           \/ AvgFind(r) \/ AvgSet(r) \/ AvgExpire(r)
    PROVE  TypeInv' /\ StepOf(r)
  <1> USE DEF TypeInv
  <1>1. RequestOK(r)
    BY DEF RequestInv
  <1>2. pc[r] \in {"rate_save", "rate_del", "avg_get", "avg_find", "avg_set", "avg_expire"}
    BY DEF RateSave, RateDel, AvgGet, AvgFind, AvgSet, AvgExpire
  <1>3. who[r] \in Students
    BY <1>1, <1>2 DEF RequestOK
  <1>4. ASSUME NEW step \in {"rate_del", "avg_find", "avg_set", "avg_expire"},
               Goto(r, step), Same, page' = page, count' \in [Requests -> Nat],
               \A s \in Requests \ {r} : count'[s] = count[s]
        PROVE  StepOf(r)
    <2>1. RequestOK(r)'
      BY <1>3, <1>4 DEF RequestOK, Same, Goto, TypeOK
    <2>2. step \in Steps
      BY DEF Steps
    <2> QED
      BY <1>4, <2>1, <2>2, GotoStep DEF TypeOK
  <1>5. StepOf(r)
    <2>1. CASE RateSave(r)
      BY <1>4, <2>1 DEF RateSave, TypeOK
    <2>2. CASE RateDel(r) \/ AvgExpire(r)
      BY <2>2, DoneStep DEF RateDel, AvgExpire
    <2>3. CASE AvgGet(r)
      BY <1>4, <2>3, DoneStep DEF AvgGet, TypeOK
    <2>4. CASE AvgFind(r)
      BY <1>3, <1>4, <2>4, DoneStep DEF AvgFind, TypeOK
    <2>5. CASE AvgSet(r)
      BY <1>4, <2>5 DEF AvgSet, TypeOK
    <2> QED
      BY <2>1, <2>2, <2>3, <2>4, <2>5
  <1>6. UNCHANGED <<applications, faults>>
    BY DEF RateSave, RateDel, AvgGet, AvgFind, AvgSet, AvgExpire
  <1>7. /\ ratings' \in [Students -> Nat]
        /\ average' \in [Students -> Nat \cup {Nothing}]
        /\ expiring' \subseteq Students
        /\ told' \in [Students -> Nat]
        /\ straddled' \subseteq Students
        /\ undated' \subseteq Students
    <2>1. CASE RateSave(r)
      BY <1>3, <2>1 DEF RateSave, TypeOK
    <2>2. CASE RateDel(r)
      BY <1>3, <2>2 DEF RateDel, RateTold, TypeOK
    <2>3. CASE AvgGet(r) \/ AvgFind(r)
      BY <2>3 DEF AvgGet, AvgFind, averages, TypeOK
    <2>4. CASE AvgSet(r)
      BY <1>3, <2>4 DEF AvgSet, TypeOK
    <2>5. CASE AvgExpire(r)
      BY <1>3, <2>5 DEF AvgExpire, TypeOK
    <2> QED
      BY <2>1, <2>2, <2>3, <2>4, <2>5
  <1> QED
    BY <1>5, <1>6, <1>7, ReadStepKeeps DEF applications, TypeOK

LEMMA FaultType ==
    ASSUME TypeInv, NEW r \in Requests, Abort(r) \/ LoseCall(r)
    PROVE  TypeInv' /\ StepOf(r)
  <1> USE DEF TypeInv
  <1>1. RequestOK(r)
    BY DEF RequestInv
  <1>2. CASE Abort(r)
    <2>1. /\ Done(r) /\ pc[r] \in Steps /\ faults' \in Nat
          /\ UNCHANGED <<applications, ratings, average, expiring, told, straddled>>
      BY <1>2 DEF Abort, TypeOK
    <2>2. undated' \subseteq Students
      BY <1>1, <1>2 DEF Abort, RequestOK, TypeOK
    <2> QED
      BY <2>1, <2>2, DoneStep, ReadStepKeeps DEF applications, TypeOK
  <1>3. CASE LoseCall(r)
    <2>1. UNCHANGED <<rows, mine, averages>> /\ faults' \in Nat
      BY <1>3 DEF LoseCall, TypeOK
    <2>2. CASE /\ pc[r] = "mine_set"
               /\ Goto(r, "mine_answer")
               /\ Same /\ UNCHANGED <<page, count, answered>>
      <3>1. RequestOK(r)'
        BY <1>1, <2>2 DEF RequestOK, Same, Goto, TypeOK
      <3>2. "mine_answer" \in Steps
        BY DEF Steps
      <3>3. StepOf(r)
        BY <2>2, <3>1, <3>2, GotoStep DEF TypeOK
      <3> QED
        BY <2>1, <2>2, <3>3, ReadStepKeeps DEF averages, TypeOK
    <2>3. CASE /\ pc[r] = "apply_del"
               /\ answered' = answered \cup {about[r]}
               /\ Done(r)
      <3>1. about[r] \in Ids /\ rows[about[r]] # Nothing
        BY <1>1, <2>3 DEF RequestOK
      <3>2. StepOf(r)
        BY <2>3, DoneStep
      <3>3. TypeOK'
        BY <2>1, <2>3, <3>1, <3>2 DEF averages, TypeOK, StepOf, LocalsType
      <3>4. RowsKept /\ \A i \in answered' : rows'[i] # Nothing
        BY <2>1, <2>3, <3>1 DEF RowsKept, AnsweredInv
      <3> QED
        BY <2>3, <3>2, <3>3, <3>4, StepKeeps
    <2>4. CASE Done(r) /\ UNCHANGED answered
      BY <2>1, <2>4, DoneStep, ReadStepKeeps DEF averages, TypeOK
    <2> QED
      BY <1>3, <2>2, <2>3, <2>4 DEF LoseCall
  <1> QED
    BY <1>2, <1>3

LEMMA ExpireType ==
    ASSUME TypeInv, NEW s \in Students, ExpireAverage(s) \/ ExpireMine(s)
    PROVE  TypeInv'
  <1>1. UNCHANGED <<rows, answered, pc, who, about, status, page, count, promised>>
    BY DEF ExpireAverage, ExpireMine, applications, averages
  <1>2. TypeOK'
    <2>1. CASE ExpireAverage(s)
      BY <2>1 DEF ExpireAverage, applications, TypeInv, TypeOK
    <2>2. CASE ExpireMine(s)
      BY <2>2 DEF ExpireMine, averages, TypeInv, TypeOK
    <2> QED
      BY <2>1, <2>2
  <1> QED
    BY <1>1, <1>2 DEF TypeInv, RequestInv, RequestOK, AnsweredInv

LEMMA InitType == Init => TypeInv
  BY DEF Init, TypeInv, TypeOK, RequestInv, RequestOK, AnsweredInv, Steps

LEMMA StepType ==
    ASSUME TypeInv, NEW r \in Requests, Arrive(r) \/ Proceed(r) \/ Abort(r) \/ LoseCall(r)
    PROVE  TypeInv' /\ StepOf(r)
  BY ArriveType, ApplyType, ListingType, StatusType, RatingType, FaultType DEF Proceed

LEMMA TypeStep == TypeInv /\ [Next]_vars => TypeInv'
  <1> SUFFICES ASSUME TypeInv, [Next]_vars PROVE TypeInv'
    OBVIOUS
  <1>1. CASE UNCHANGED vars
    BY <1>1 DEF vars, TypeInv, TypeOK, RequestInv, RequestOK, AnsweredInv
  <1>2. CASE Next
    BY <1>2, StepType, ExpireType DEF Next
  <1> QED
    BY <1>1, <1>2

\* TypeCorrect: every variable keeps its type; no save of a status is to a row
\* that is not there.
THEOREM TypeCorrect == Spec => []TypeOK
  <1>1. TypeInv => TypeOK
    BY DEF TypeInv
  <1> QED
    BY <1>1, InitType, TypeStep, PTL DEF Spec

-----------------------------------------------------------------------------
(* Duplicates.  A request past its search inserts one more, and searched when *)
(* there was none: rows and such requests together are no more than requests. *)

Savers(s, j) == {r \in Requests : pc[r] = "apply_save" /\ who[r] = s /\ about[r] = j}

DuplicateInv ==
    \A s \in Students, j \in Jobs :
        Cardinality(RowsFor(s, j)) + Cardinality(Savers(s, j)) <= Cardinality(Requests)

LEMMA FiniteSets ==
    ASSUME NEW s, NEW j
    PROVE  /\ IsFiniteSet(RowsFor(s, j)) /\ Cardinality(RowsFor(s, j)) \in Nat
           /\ IsFiniteSet(Savers(s, j)) /\ Cardinality(Savers(s, j)) \in Nat
           /\ Cardinality(Requests) \in Nat
           /\ Cardinality(Savers(s, j)) <= Cardinality(Requests)
  <1>1. IsFiniteSet(Ids)
    BY BoundAssumption, FS_Interval DEF Ids
  <1>2. RowsFor(s, j) \subseteq Ids /\ Savers(s, j) \subseteq Requests
    BY DEF RowsFor, Savers
  <1> QED
    BY <1>1, <1>2, FiniteAssumption, FS_Subset, FS_CardinalityType

\* Where no row and no saver is added, nothing can be exceeded.
LEMMA DuplicatesElse ==
    ASSUME DuplicateInv, NEW s \in Students, NEW j \in Jobs,
           RowsFor(s, j)' \subseteq RowsFor(s, j), Savers(s, j)' \subseteq Savers(s, j)
    PROVE  Cardinality(RowsFor(s, j))' + Cardinality(Savers(s, j))' <= Cardinality(Requests)
  <1>1. /\ Cardinality(RowsFor(s, j)') <= Cardinality(RowsFor(s, j))
        /\ Cardinality(Savers(s, j)') <= Cardinality(Savers(s, j))
        /\ Cardinality(RowsFor(s, j)') \in Nat /\ Cardinality(Savers(s, j)') \in Nat
    BY FiniteSets, FS_Subset, FS_CardinalityType
  <1>2. Cardinality(RowsFor(s, j)) + Cardinality(Savers(s, j)) <= Cardinality(Requests)
    BY DEF DuplicateInv
  <1> HIDE DEF RowsFor, Savers
  <1> QED
    BY <1>1, <1>2, FiniteSets

LEMMA DuplicateStep == TypeInv /\ DuplicateInv /\ [Next]_vars => DuplicateInv'
  <1> SUFFICES ASSUME TypeInv, DuplicateInv, [Next]_vars,
                      NEW s \in Students, NEW j \in Jobs
               PROVE  Cardinality(RowsFor(s, j))' + Cardinality(Savers(s, j))'
                          <= Cardinality(Requests)
    BY DEF DuplicateInv
  <1>1. ASSUME NEW r \in Requests, ApplyFind(r)
        PROVE  Cardinality(RowsFor(s, j))' + Cardinality(Savers(s, j))'
                   <= Cardinality(Requests)
    <2>1. RowsFor(s, j)' = RowsFor(s, j)
      BY <1>1 DEF ApplyFind, applications, RowsFor
    <2>2. StepOf(r)
      BY <1>1, ApplyType
    <2>3. CASE RowsFor(s, j) = {}
      <3>1. Cardinality(RowsFor(s, j)') = 0
        BY <2>1, <2>3, FS_EmptySet
      <3>2. Savers(s, j)' \subseteq Requests
        BY DEF Savers
      <3>3. /\ Cardinality(Savers(s, j)') \in Nat
            /\ Cardinality(Savers(s, j)') <= Cardinality(Requests)
        BY <3>2, FiniteAssumption, FS_Subset, FS_CardinalityType
      <3> QED
        BY <3>1, <3>3, FiniteSets
    <2>4. CASE RowsFor(s, j) # {}
      <3>1. ~ (pc'[r] = "apply_save" /\ who'[r] = s /\ about'[r] = j)
        <4>1. CASE RowsFor(who[r], about[r]) = {}
          BY <1>1, <2>4, <4>1 DEF ApplyFind, Same, Done, TypeInv, TypeOK
        <4>2. CASE Done(r)
          BY <4>2, DoneStep
        <4> QED
          BY <1>1, <4>1, <4>2 DEF ApplyFind
      <3>2. Savers(s, j)' \subseteq Savers(s, j)
        BY <2>2, <3>1 DEF Savers, StepOf, SameSlot
      <3> QED
        BY <2>1, <3>2, DuplicatesElse
    <2> QED
      BY <2>3, <2>4
  <1>2. ASSUME NEW r \in Requests, ApplySave(r)
        PROVE  Cardinality(RowsFor(s, j))' + Cardinality(Savers(s, j))'
                   <= Cardinality(Requests)
    <2>1. PICK i \in Ids :
             /\ rows[i] = Nothing
             /\ rows' = [rows EXCEPT ![i] =
                           [student |-> who[r], job |-> about[r], status |-> "PENDING"]]
      BY <1>2 DEF ApplySave
    <2>2. StepOf(r) /\ pc[r] = "apply_save" /\ pc'[r] = "apply_del"
      BY <1>2, ApplyType DEF ApplySave, Goto, TypeInv, TypeOK
    <2>3. Savers(s, j)' = Savers(s, j) \ {r}
      BY <2>2 DEF Savers, StepOf, SameSlot
    <2>4. CASE who[r] = s /\ about[r] = j
      <3>1. RowsFor(s, j)' = RowsFor(s, j) \cup {i} /\ i \notin RowsFor(s, j)
        BY <2>1, <2>4, NullAssumption DEF RowsFor, TypeInv, TypeOK
      <3>2. Cardinality(RowsFor(s, j)') = Cardinality(RowsFor(s, j)) + 1
        BY <3>1, FiniteSets, FS_AddElement
      <3>3. r \in Savers(s, j)
        BY <2>2, <2>4 DEF Savers
      <3>4. Cardinality(Savers(s, j)') = Cardinality(Savers(s, j)) - 1
        BY <2>3, <3>3, FiniteSets, FS_RemoveElement
      <3>5. Cardinality(RowsFor(s, j)) + Cardinality(Savers(s, j)) <= Cardinality(Requests)
        BY DEF DuplicateInv
      <3> QED
        BY <3>2, <3>4, <3>5, FiniteSets
    <2>5. CASE ~ (who[r] = s /\ about[r] = j)
      <3>1. RowsFor(s, j)' \subseteq RowsFor(s, j)
        BY <2>1, <2>5 DEF RowsFor, TypeInv, TypeOK
      <3> QED
        BY <2>3, <3>1, DuplicatesElse
    <2> QED
      BY <2>4, <2>5
  <1>3. ASSUME NEW r \in Requests, StepOf(r), pc'[r] # "apply_save", rows' = rows
        PROVE  Cardinality(RowsFor(s, j))' + Cardinality(Savers(s, j))'
                   <= Cardinality(Requests)
    <2>1. Savers(s, j)' \subseteq Savers(s, j) /\ RowsFor(s, j)' = RowsFor(s, j)
      BY <1>3 DEF Savers, RowsFor, StepOf, SameSlot
    <2> QED
      BY <2>1, DuplicatesElse
  <1>4. ASSUME NEW r \in Requests, Arrive(r)
        PROVE  StepOf(r) /\ pc'[r] # "apply_save" /\ rows' = rows
    BY <1>4, ArriveType DEF applications
  <1>5. ASSUME NEW r \in Requests, StatusSave(r)
        PROVE  Cardinality(RowsFor(s, j))' + Cardinality(Savers(s, j))'
                   <= Cardinality(Requests)
    <2>1. StepOf(r) /\ pc'[r] = "idle"
      BY <1>5, StatusType, DoneStep DEF StatusSave
    <2>2. \A i \in Ids : rows[i] # Nothing => rows[i] \in Row
      BY DEF TypeInv, TypeOK
    <2>3. /\ rows' = [rows EXCEPT ![about[r]] = [@ EXCEPT !.status = status[r]]]
          /\ rows[about[r]] # Nothing /\ about[r] \in Ids /\ DOMAIN rows = Ids
      BY <1>5 DEF StatusSave, TypeInv, TypeOK, RequestInv, RequestOK
    <2>4. \A i \in Ids : rows'[i] # Nothing =>
              rows[i] # Nothing /\ rows'[i].student = rows[i].student /\ rows'[i].job = rows[i].job
      BY <2>2, <2>3 DEF Row
    <2>5. RowsFor(s, j)' \subseteq RowsFor(s, j)
      BY <2>4 DEF RowsFor
    <2>6. Savers(s, j)' \subseteq Savers(s, j)
      BY <2>1 DEF Savers, StepOf, SameSlot
    <2> QED
      BY <2>5, <2>6, DuplicatesElse
  <1>6. ASSUME NEW r \in Requests,
               \/ ApplyDel(r) \/ StatusFind(r)
               \/ MineGet(r) \/ MineFind(r) \/ MineSet(r) \/ ReceivedFind(r) \/ MineAnswer(r)
               \/ RateSave(r) \/ RateDel(r) \/ AvgGet(r) \/ AvgFind(r) \/ AvgSet(r)
               \/ AvgExpire(r) \/ Abort(r) \/ LoseCall(r)
        PROVE  StepOf(r) /\ pc'[r] # "apply_save" /\ rows' = rows
    <2>1. StepOf(r)
      BY <1>6, ApplyType, StatusType, ListingType, RatingType, FaultType
    <2>2. pc \in [Requests -> Steps]
      BY DEF TypeInv, TypeOK
    <2>3. CASE \/ ApplyDel(r) \/ StatusFind(r)
               \/ MineGet(r) \/ MineFind(r) \/ MineSet(r) \/ ReceivedFind(r) \/ MineAnswer(r)
      BY <2>1, <2>2, <2>3 DEF ApplyDel, StatusFind, MineGet, MineGetFrom, MineFind, MineSet,
         ReceivedFind, MineAnswer, Goto, Done, applications
    <2>4. CASE \/ RateSave(r) \/ RateDel(r) \/ AvgGet(r) \/ AvgFind(r) \/ AvgSet(r)
               \/ AvgExpire(r)
      BY <2>1, <2>2, <2>4 DEF RateSave, RateDel, AvgGet, AvgFind, AvgSet, AvgExpire,
         Goto, Done, applications
    <2>5. CASE Abort(r) \/ LoseCall(r)
      BY <2>1, <2>2, <2>5 DEF Abort, LoseCall, Goto, Done, applications
    <2> QED
      BY <1>6, <2>1, <2>3, <2>4, <2>5
  <1>7. CASE \/ UNCHANGED vars
             \/ \E t \in Students : ExpireAverage(t) \/ ExpireMine(t)
    <2>1. UNCHANGED <<rows, pc, who, about>>
      BY <1>7 DEF vars, ExpireAverage, ExpireMine, applications
    <2>2. RowsFor(s, j)' = RowsFor(s, j) /\ Savers(s, j)' = Savers(s, j)
      BY <2>1 DEF RowsFor, Savers
    <2> QED
      BY <2>2, DuplicatesElse
  <1> QED
    BY <1>1, <1>2, <1>3, <1>4, <1>5, <1>6, <1>7 DEF Next, Proceed

\* DuplicatesAlwaysBounded: a student has no more applications for a job than
\* there are requests at once, for every number of each.
THEOREM DuplicatesAlwaysBounded == Spec => []DuplicatesBounded
  <1>1. Init => DuplicateInv
    <2> SUFFICES ASSUME Init, NEW s \in Students, NEW j \in Jobs
                 PROVE  Cardinality(RowsFor(s, j)) + Cardinality(Savers(s, j))
                            <= Cardinality(Requests)
      BY DEF DuplicateInv
    <2>1. RowsFor(s, j) = {}
      BY DEF Init, RowsFor
    <2> QED
      BY <2>1, FS_EmptySet, FiniteSets
  <1>2. DuplicateInv => DuplicatesBounded
    <2> SUFFICES ASSUME DuplicateInv, NEW s \in Students, NEW j \in Jobs
                 PROVE  Cardinality(RowsFor(s, j)) <= Cardinality(Requests)
      BY DEF DuplicatesBounded
    <2>1. Cardinality(RowsFor(s, j)) + Cardinality(Savers(s, j)) <= Cardinality(Requests)
      BY DEF DuplicateInv
    <2> QED
      BY <2>1, FiniteSets
  <1>3. TypeInv /\ DuplicateInv /\ [Next]_vars => TypeInv' /\ DuplicateInv'
    BY TypeStep, DuplicateStep
  <1> QED
    BY <1>1, <1>2, <1>3, InitType, PTL DEF Spec

-----------------------------------------------------------------------------
(* Listings.  Nothing is stored under the key that is read, so that an answer *)
(* always comes from the table; and what had been answered was in the table.  *)

Listed(r) ==
    pc[r] \in {"mine_set", "mine_answer"} => promised[r] \cap RowsOf(who[r]) \subseteq page[r]

ListingInv ==
    /\ \A s \in Students : mine[<<s, "read">>] = Nothing
    /\ \A r \in Requests : Listed(r)

\* No application goes, or becomes another student's or for another job, even
\* where two requests save copies of its row.
RowsStable ==
    \A i \in Ids : rows[i] # Nothing =>
        /\ rows'[i] # Nothing
        /\ rows'[i].student = rows[i].student /\ rows'[i].job = rows[i].job

LEMMA RowsAreStable == TypeInv /\ [Next]_vars => RowsStable
  <1> SUFFICES ASSUME TypeInv, [Next]_vars PROVE RowsStable
    OBVIOUS
  <1>1. CASE rows' = rows
    BY <1>1 DEF RowsStable
  <1>2. ASSUME NEW r \in Requests, ApplySave(r) PROVE RowsStable
    BY <1>2 DEF ApplySave, RowsStable, TypeInv, TypeOK
  <1>3. ASSUME NEW r \in Requests, StatusSave(r) PROVE RowsStable
    <2>1. /\ rows' = [rows EXCEPT ![about[r]] = [@ EXCEPT !.status = status[r]]]
          /\ about[r] \in Ids
      BY <1>3 DEF StatusSave, TypeInv, RequestInv, RequestOK
    <2>2. \A i \in Ids : rows[i] # Nothing => rows[i] \in Row
      BY DEF TypeInv, TypeOK
    <2>3. status[r] \in Statuses
      BY <1>3 DEF StatusSave, TypeInv, RequestInv, RequestOK, Statuses
    <2>4. \A row \in Row : /\ [row EXCEPT !.status = status[r]] \in Row
                            /\ [row EXCEPT !.status = status[r]].student = row.student
                            /\ [row EXCEPT !.status = status[r]].job = row.job
      BY <2>3 DEF Row
    <2>5. \A i \in Ids : rows'[i] = IF i = about[r]
                                      THEN [rows[i] EXCEPT !.status = status[r]] ELSE rows[i]
      BY <2>1 DEF TypeInv, TypeOK
    <2>6. Nothing \notin Row
      BY NullAssumption DEF Row, Statuses
    <2>7. ASSUME NEW i \in Ids, rows[i] # Nothing
          PROVE  /\ rows'[i] # Nothing
                 /\ rows'[i].student = rows[i].student /\ rows'[i].job = rows[i].job
      <3>1. rows[i] \in Row
        BY <2>2, <2>7
      <3>2. CASE i = about[r]
        BY <2>4, <2>5, <2>6, <3>1, <3>2
      <3>3. CASE i # about[r]
        BY <2>5, <2>7, <3>3
      <3> QED
        BY <3>2, <3>3
    <2> QED
      BY <2>7 DEF RowsStable
  <1>4. ASSUME NEW r \in Requests,
               \/ ApplyFind(r) \/ ApplyDel(r) \/ StatusFind(r)
               \/ MineGet(r) \/ MineFind(r) \/ MineSet(r) \/ ReceivedFind(r) \/ MineAnswer(r)
               \/ RateSave(r) \/ RateDel(r) \/ AvgGet(r) \/ AvgFind(r) \/ AvgSet(r)
               \/ AvgExpire(r) \/ Abort(r) \/ LoseCall(r)
        PROVE  rows' = rows
    BY <1>4 DEF ApplyFind, ApplyDel, StatusFind, MineGet, MineGetFrom, MineFind, MineSet,
       ReceivedFind, MineAnswer, RateSave, RateDel, AvgGet, AvgFind, AvgSet, AvgExpire,
       Abort, LoseCall, applications
  <1>5. ASSUME NEW r \in Requests, Arrive(r) PROVE rows' = rows
    BY <1>5, ArriveType DEF applications
  <1>6. CASE \/ UNCHANGED vars
             \/ \E t \in Students : ExpireAverage(t) \/ ExpireMine(t)
    BY <1>1, <1>6 DEF vars, ExpireAverage, ExpireMine, applications
  <1> QED
    BY <1>1, <1>2, <1>3, <1>4, <1>5, <1>6 DEF Next, Proceed

\* What was promised to a request stays that student's, or somebody else's.
LEMMA PromisedStable ==
    ASSUME TypeInv, RowsStable, NEW r \in Requests
    PROVE  \A i \in promised[r] :
               /\ i \in Ids /\ rows[i] # Nothing
               /\ rows'[i].student = rows[i].student
  <1>1. \A i \in promised[r] : i \in Ids /\ rows[i] # Nothing
    BY DEF TypeInv, TypeOK, AnsweredInv
  <1> QED
    BY <1>1 DEF RowsStable

LEMMA ListedKept ==
    ASSUME TypeInv, RowsStable, NEW r \in Requests, SameSlot(r), Listed(r)
    PROVE  Listed(r)'
  BY PromisedStable DEF Listed, SameSlot, RowsOf

LEMMA ListingStep == TypeInv /\ ListingInv /\ [Next]_vars => ListingInv'
  <1> SUFFICES ASSUME TypeInv, ListingInv, [Next]_vars PROVE ListingInv'
    OBVIOUS
  <1> USE DEF TypeInv
  <1>1. RowsStable
    BY RowsAreStable
  <1>2. ASSUME NEW r \in Requests, StepOf(r), Listed(r)',
               \A s \in Students : mine'[<<s, "read">>] = Nothing
        PROVE  ListingInv'
    BY <1>1, <1>2, ListedKept DEF ListingInv, StepOf
  <1>3. ASSUME NEW k \in Students, NEW v,
               mine' = mine \/ mine' = [mine EXCEPT ![<<k, "stored">>] = v]
        PROVE  \A s \in Students : mine'[<<s, "read">>] = Nothing
    <2>1. \A s \in Students : <<s, "read">> \in Keys /\ <<s, "read">> # <<k, "stored">>
      BY DEF Keys
    <2> QED
      BY <1>3, <2>1 DEF ListingInv, TypeOK
  <1>4. ASSUME NEW r \in Requests, Arrive(r) PROVE ListingInv'
    BY <1>2, <1>4, ArriveType DEF ListingInv, Listed, applications
  <1>5. ASSUME NEW r \in Requests, MineFind(r) \/ ReceivedFind(r) PROVE ListingInv'
    <2>1. StepOf(r)
      BY <1>5, ListingType
    <2>2. /\ who' = who /\ rows' = rows /\ mine' = mine
          /\ page'[r] = RowsOf(who[r])
      BY <1>5 DEF MineFind, ReceivedFind, Same, applications, TypeOK
    <2>3. RowsOf(who[r])' = RowsOf(who[r])
      BY <2>2 DEF RowsOf
    <2>4. Listed(r)'
      BY <2>2, <2>3 DEF Listed
    <2> QED
      BY <1>2, <2>1, <2>2, <2>4 DEF ListingInv
  <1>6. ASSUME NEW r \in Requests, MineGet(r) PROVE ListingInv'
    <2>1. mine[<<who[r], "read">>] = Nothing
      BY <1>6 DEF MineGet, MineGetFrom, RequestInv, RequestOK, ListingInv
    <2>2. pc'[r] = "mine_find" /\ mine' = mine
      BY <1>6, <2>1 DEF MineGet, MineGetFrom, Goto, TypeOK, applications
    <2>3. StepOf(r)
      BY <1>6, ListingType
    <2> QED
      BY <1>2, <2>2, <2>3 DEF ListingInv, Listed
  <1>7. ASSUME NEW r \in Requests, pc[r] = "mine_set", Goto(r, "mine_answer"), Same,
               UNCHANGED <<rows, page>>, StepOf(r),
               mine' = mine \/ mine' = [mine EXCEPT ![<<who[r], "stored">>] = page[r]]
        PROVE  ListingInv'
    <2>1. Listed(r)'
      <3>1. Listed(r)
        BY DEF ListingInv
      <3> QED
        BY <1>7, <3>1 DEF Listed, RowsOf, Same
    <2>2. who[r] \in Students
      BY <1>7 DEF RequestInv, RequestOK
    <2> QED
      BY <1>2, <1>3, <1>7, <2>1, <2>2
  <1>8. ASSUME NEW r \in Requests, MineSet(r) PROVE ListingInv'
    BY <1>7, <1>8, ListingType DEF MineSet
  <1>9. ASSUME NEW r \in Requests, StepOf(r), pc'[r] \notin {"mine_set", "mine_answer"},
               mine' = mine
        PROVE  ListingInv'
    BY <1>2, <1>9 DEF ListingInv, Listed
  <1>10. ASSUME NEW r \in Requests, ApplyDel(r) PROVE ListingInv'
    <2>1. StepOf(r) /\ pc'[r] = "idle" /\ who[r] \in Students
      BY <1>10, ApplyType, DoneStep DEF ApplyDel, RequestInv, RequestOK
    <2> QED
      BY <1>2, <1>3, <1>10, <2>1 DEF ApplyDel, Listed
  <1>11. ASSUME NEW r \in Requests, LoseCall(r) PROVE ListingInv'
    <2>1. StepOf(r) /\ mine' = mine /\ rows' = rows
      BY <1>11, FaultType DEF LoseCall
    <2>2. CASE Done(r)
      BY <1>9, <2>1, <2>2, DoneStep
    <2>3. CASE pc[r] = "mine_set" /\ Goto(r, "mine_answer") /\ Same /\ UNCHANGED page
      BY <1>7, <2>1, <2>3
    <2> QED
      BY <1>11, <2>2, <2>3 DEF LoseCall
  <1>12. ASSUME NEW r \in Requests,
                \/ ApplyFind(r) \/ ApplySave(r) \/ StatusFind(r) \/ StatusSave(r)
                \/ MineAnswer(r) \/ RateSave(r) \/ RateDel(r) \/ AvgGet(r) \/ AvgFind(r)
                \/ AvgSet(r) \/ AvgExpire(r) \/ Abort(r)
         PROVE  ListingInv'
    <2>1. StepOf(r)
      BY <1>12, ApplyType, StatusType, ListingType, RatingType, FaultType
    <2>2. mine' = mine
      BY <1>12 DEF ApplyFind, ApplySave, StatusFind, StatusSave, MineAnswer, RateSave, RateDel,
         AvgGet, AvgFind, AvgSet, AvgExpire, Abort, applications
    <2>3. pc'[r] \notin {"mine_set", "mine_answer"}
      <3>1. CASE Done(r)
        BY <3>1, DoneStep
      <3>2. CASE \E step \in {"apply_save", "apply_del", "status_save", "rate_del",
                              "avg_find", "avg_set", "avg_expire"} : Goto(r, step)
        BY <3>2 DEF Goto, TypeOK
      <3> QED
        BY <1>12, <3>1, <3>2 DEF ApplyFind, ApplySave, StatusFind, StatusSave, MineAnswer,
           RateSave, RateDel, AvgGet, AvgFind, AvgSet, AvgExpire, Abort
    <2> QED
      BY <1>9, <2>1, <2>2, <2>3
  <1>13. CASE \/ UNCHANGED vars
              \/ \E t \in Students : ExpireAverage(t) \/ ExpireMine(t)
    <2>1. UNCHANGED <<pc, who, about, status, page, count, promised>>
      BY <1>13 DEF vars, ExpireAverage, ExpireMine
    <2>2. \A r \in Requests : SameSlot(r)
      BY <2>1 DEF SameSlot
    <2>3. \A r \in Requests : Listed(r)'
      BY <1>1, <2>2, ListedKept DEF ListingInv
    <2>4. \A s \in Students : mine'[<<s, "read">>] = Nothing
      <3>1. CASE \E t \in Students : ExpireMine(t)
        BY <1>3, <3>1 DEF ExpireMine
      <3>2. CASE mine' = mine
        BY <3>2 DEF ListingInv
      <3> QED
        BY <1>13, <3>1, <3>2 DEF vars, ExpireAverage, applications
    <2> QED
      BY <2>3, <2>4 DEF ListingInv
  <1> QED
    BY <1>4, <1>5, <1>6, <1>8, <1>10, <1>11, <1>12, <1>13 DEF Next, Proceed

\* ListingAlwaysCurrent: a listing of a student's applications has each whose
\* apply was answered before it was asked for.
THEOREM ListingAlwaysCurrent == Spec => []ListingCurrent
  <1>1. Init => ListingInv
    BY DEF Init, ListingInv, Listed, Keys
  <1>2. ListingInv => ListingCurrent
    BY DEF ListingInv, Listed, ListingCurrent
  <1>3. TypeInv /\ ListingInv /\ [Next]_vars => TypeInv' /\ ListingInv'
    BY TypeStep, ListingStep
  <1> QED
    BY <1>1, <1>2, <1>3, InitType, PTL DEF Spec

-----------------------------------------------------------------------------
(* Averages.  One computed from fewer ratings than were told of is held by a  *)
(* request, or cached, only after a telling that overlapped the computation.  *)

Explained(s) ==
    s \notin straddled =>
        /\ average[s] # Nothing => told[s] <= average[s]
        /\ \A r \in Requests : pc[r] = "avg_set" /\ who[r] = s => told[s] <= count[r]

AverageInv == \A s \in Students : told[s] <= ratings[s] /\ Explained(s)

\* Where no key is deleted, and no average made, nothing is less explained.
LEMMA ExplainedElse ==
    ASSUME AverageInv, NEW r \in Requests, told' = told, straddled' = straddled,
           ratings' = ratings, average' = average, StepOf(r), pc'[r] # "avg_set"
    PROVE  AverageInv'
  <1>1. \A q \in Requests : pc'[q] = "avg_set" =>
            pc[q] = "avg_set" /\ who'[q] = who[q] /\ count'[q] = count[q]
    BY DEF StepOf, SameSlot
  <1> QED
    BY <1>1 DEF AverageInv, Explained

LEMMA AverageStep == TypeInv /\ AverageInv /\ [Next]_vars => AverageInv'
  <1> SUFFICES ASSUME TypeInv, AverageInv, [Next]_vars PROVE AverageInv'
    OBVIOUS
  <1> USE DEF TypeInv
  <1>1. CASE UNCHANGED vars
    BY <1>1 DEF vars, AverageInv, Explained
  <1>2. ASSUME NEW s \in Students, ExpireAverage(s) \/ ExpireMine(s) PROVE AverageInv'
    <2>1. /\ UNCHANGED <<ratings, told, straddled, pc, who, count>>
          /\ \A t \in Students : average'[t] \in {average[t], Nothing}
      BY <1>2 DEF ExpireAverage, ExpireMine, averages, TypeOK
    <2> QED
      BY <2>1 DEF AverageInv, Explained
  <1>3. ASSUME NEW r \in Requests, Arrive(r) PROVE AverageInv'
    BY <1>3, ArriveType, ExplainedElse DEF averages
  <1>4. ASSUME NEW r \in Requests,
               \/ ApplyFind(r) \/ ApplySave(r) \/ ApplyDel(r)
               \/ MineGet(r) \/ MineFind(r) \/ MineSet(r) \/ ReceivedFind(r) \/ MineAnswer(r)
               \/ StatusFind(r) \/ StatusSave(r)
               \/ AvgGet(r) \/ AvgExpire(r) \/ Abort(r)
        PROVE  AverageInv'
    <2>1. StepOf(r)
      BY <1>4, ApplyType, StatusType, ListingType, RatingType, FaultType
    <2>2. pc'[r] # "avg_set"
      <3>1. CASE Done(r)
        BY <3>1, DoneStep
      <3>2. CASE \E step \in {"apply_save", "apply_del", "mine_find", "mine_set",
                              "mine_answer", "status_save", "avg_find"} : Goto(r, step)
        BY <3>2 DEF Goto, TypeOK
      <3> QED
        BY <1>4, <3>1, <3>2 DEF ApplyFind, ApplySave, ApplyDel, MineGet, MineGetFrom, MineFind,
           MineSet, ReceivedFind, MineAnswer, StatusFind, StatusSave, AvgGet, AvgExpire, Abort
    <2>3. UNCHANGED <<ratings, average, told, straddled>>
      BY <1>4 DEF ApplyFind, ApplySave, ApplyDel, MineGet, MineGetFrom, MineFind, MineSet,
         ReceivedFind, MineAnswer, StatusFind, StatusSave, AvgGet, AvgExpire, Abort, averages,
         TypeOK
    <2> QED
      BY <2>1, <2>2, <2>3, ExplainedElse
  <1>5. ASSUME NEW r \in Requests, RateSave(r) PROVE AverageInv'
    <2>1. /\ StepOf(r) /\ pc'[r] = "rate_del" /\ who[r] \in Students
          /\ UNCHANGED <<told, straddled, average>>
      BY <1>5, RatingType DEF RateSave, Goto, RequestInv, RequestOK, TypeOK
    <2>2. \A q \in Requests : pc'[q] = "avg_set" =>
              pc[q] = "avg_set" /\ who'[q] = who[q] /\ count'[q] = count[q]
      BY <2>1 DEF StepOf, SameSlot
    <2>3. \A s \in Students : told'[s] <= ratings'[s]
      BY <1>5, <2>1 DEF RateSave, TypeOK, AverageInv
    <2> QED
      BY <2>1, <2>2, <2>3 DEF AverageInv, Explained
  <1>6. ASSUME NEW r \in Requests, RateTold(who[r]), who[r] \in Students,
               \A s \in Students : average'[s] = average[s] \/ average'[s] = Nothing,
               average'[who[r]] = Nothing,
               ratings' = ratings, StepOf(r), pc'[r] # "avg_set"
        PROVE  AverageInv'
    <2>1. \A q \in Requests : pc'[q] = "avg_set" =>
              pc[q] = "avg_set" /\ who'[q] = who[q] /\ count'[q] = count[q]
      BY <1>6 DEF StepOf, SameSlot
    <2>2. /\ told' = [told EXCEPT ![who[r]] = ratings[who[r]]]
          /\ \A s \in Students \ {who[r]} : s \in straddled => s \in straddled'
          /\ who[r] \notin straddled' => ~ Straddles(who[r])
      BY <1>6 DEF RateTold
    <2> SUFFICES ASSUME NEW s \in Students PROVE told'[s] <= ratings'[s] /\ Explained(s)'
      BY DEF AverageInv
    <2>3. CASE s # who[r]
      <3>1. told'[s] = told[s]
        BY <2>2, <2>3 DEF TypeOK
      <3>2. s \notin straddled' => s \notin straddled
        BY <2>2, <2>3
      <3>3. told[s] <= ratings[s] /\ Explained(s)
        BY DEF AverageInv
      <3>4. average'[s] = average[s] \/ average'[s] = Nothing
        BY <1>6
      <3> QED
        BY <1>6, <2>1, <3>1, <3>2, <3>3, <3>4 DEF Explained
    <2>4. CASE s = who[r]
      <3>1. told'[s] = ratings[s] /\ ratings[s] \in Nat
        BY <1>6, <2>2, <2>4 DEF TypeOK
      <3>2. ASSUME s \notin straddled', NEW q \in Requests, pc'[q] = "avg_set", who'[q] = s
            PROVE  ratings[s] <= count'[q]
        <4>1. ~ (count[q] < ratings[s]) /\ count'[q] = count[q] /\ count[q] \in Nat
          BY <2>1, <2>2, <2>4, <3>2 DEF Straddles, TypeOK
        <4> QED
          BY <3>1, <4>1
      <3> QED
        BY <1>6, <2>4, <3>1, <3>2 DEF Explained
    <2> QED
      BY <2>3, <2>4
  <1>7. ASSUME NEW r \in Requests, RateDel(r) PROVE AverageInv'
    <2>1. StepOf(r) /\ pc'[r] = "idle" /\ who[r] \in Students
      BY <1>7, RatingType, DoneStep DEF RateDel, RequestInv, RequestOK
    <2>2. /\ \A s \in Students : average'[s] = average[s] \/ average'[s] = Nothing
          /\ average'[who[r]] = Nothing
      BY <1>7, <2>1 DEF RateDel, TypeOK
    <2> QED
      BY <1>6, <1>7, <2>1, <2>2 DEF RateDel
  <1>8. ASSUME NEW r \in Requests, LoseCall(r) PROVE AverageInv'
    <2>1. StepOf(r) /\ UNCHANGED averages
      BY <1>8, FaultType DEF LoseCall
    <2>2. pc'[r] # "avg_set"
      BY <1>8, DoneStep DEF LoseCall, Goto, TypeOK
    <2> QED
      BY <2>1, <2>2, ExplainedElse DEF averages
  <1>9. ASSUME NEW r \in Requests, AvgFind(r) PROVE AverageInv'
    <2>1. StepOf(r) /\ UNCHANGED averages /\ who[r] \in Students
      BY <1>9, RatingType DEF AvgFind, RequestInv, RequestOK
    <2>2. CASE Done(r)
      BY <2>1, <2>2, DoneStep, ExplainedElse DEF averages
    <2>3. CASE Same /\ count' = [count EXCEPT ![r] = ratings[who[r]]]
      <3>1. \A q \in Requests : pc'[q] = "avg_set" /\ q # r =>
                pc[q] = "avg_set" /\ who'[q] = who[q] /\ count'[q] = count[q]
        BY <2>1 DEF StepOf, SameSlot
      <3>2. who'[r] = who[r] /\ count'[r] = ratings[who[r]]
        BY <2>3 DEF Same, TypeOK
      <3> QED
        BY <2>1, <3>1, <3>2 DEF AverageInv, Explained, averages
    <2> QED
      BY <1>9, <2>2, <2>3 DEF AvgFind
  <1>10. ASSUME NEW r \in Requests, AvgSet(r) PROVE AverageInv'
    <2>1. /\ StepOf(r) /\ pc[r] = "avg_set" /\ pc'[r] = "avg_expire" /\ who[r] \in Students
          /\ UNCHANGED <<ratings, told, straddled>>
      BY <1>10, RatingType DEF AvgSet, Goto, RequestInv, RequestOK, TypeOK
    <2>2. \A s \in Students : average'[s] = IF s = who[r] THEN count[r] ELSE average[s]
      BY <1>10 DEF AvgSet, TypeOK
    <2>3. \A q \in Requests : pc'[q] = "avg_set" =>
              pc[q] = "avg_set" /\ who'[q] = who[q] /\ count'[q] = count[q]
      BY <2>1 DEF StepOf, SameSlot
    <2> QED
      BY <2>1, <2>2, <2>3 DEF AverageInv, Explained
  <1> QED
    BY <1>1, <1>2, <1>3, <1>4, <1>5, <1>7, <1>8, <1>9, <1>10 DEF Next, Proceed

\* AverageAlwaysExplained: a cached average has every rating whose creation
\* deleted its key, unless it was being computed at the last of these deletions,
\* whatever calls fail.
THEOREM AverageAlwaysExplained == Spec => []AverageExplained
  <1>1. Init => AverageInv
    BY DEF Init, AverageInv, Explained
  <1>2. TypeInv /\ AverageInv => AverageExplained
    <2> SUFFICES ASSUME TypeInv, AverageInv, NEW s \in Students,
                        average[s] # Nothing, average[s] < told[s],
                        s \notin straddled
                 PROVE  FALSE
      BY DEF AverageExplained
    <2>1. average[s] \in Nat /\ told[s] \in Nat
      BY DEF TypeInv, TypeOK
    <2>2. told[s] <= average[s]
      BY <2>1 DEF AverageInv, Explained
    <2> QED
      BY <2>1, <2>2
  <1>3. TypeInv /\ AverageInv /\ [Next]_vars => TypeInv' /\ AverageInv'
    BY TypeStep, AverageStep
  <1> QED
    BY <1>1, <1>2, <1>3, InitType, PTL DEF Spec

-----------------------------------------------------------------------------
(* Applications *)

\* ApplicationsStay: an application, once made, stays, and stays that student's
\* and for that job, whatever is saved over it, fails or crashes.
THEOREM ApplicationsStay == Spec => [][RowsStable]_vars
  BY InitType, TypeStep, RowsAreStable, PTL DEF Spec
=============================================================================
