--------------------------- MODULE AccountsProofs ---------------------------
(* Proofs about user accounts, for every number of users, reset tokens,      *)
(* overlapping requests and failures.                                        *)
EXTENDS Accounts, FiniteSetTheorems, TLAPS

-----------------------------------------------------------------------------
(* What a request has by each step *)

Forgetting == {"forgot_set", "forgot_expire", "forgot_mail"}
Resets == {"reset_find", "reset_save", "reset_delete"}

RequestOK(r) ==
    /\ pc[r] # "idle" => who[r] \in Users
    /\ pc[r] \notin {"idle", "register"} => Registered(who[r])
    /\ pc[r] \in {"confirm_save", "reset_save", "verify_save"} => copy[r] # NoRow
    /\ pc[r] \in Forgetting \cup Resets => held[r] \in Tokens /\ owner[held[r]] = who[r]
    /\ pc[r] \in Resets => held[r] \in mailed

RequestInv == \A r \in Requests : RequestOK(r)

\* Links are mailed to those who have an account.
MailInv ==
    /\ \A u \in invited : Registered(u)
    /\ \A t \in mailed : owner[t] \in Users /\ Registered(owner[t])

TypeInv == TypeOK /\ RequestInv /\ MailInv

LocalsType ==
    /\ pc \in [Requests -> Steps]
    /\ who \in [Requests -> Users \cup {Nobody}]
    /\ copy \in [Requests -> Row \cup {NoRow}]
    /\ held \in [Requests -> Tokens \cup {NoToken}]

SameSlot(s) ==
    pc'[s] = pc[s] /\ who'[s] = who[s] /\ copy'[s] = copy[s] /\ held'[s] = held[s]

\* Accounts are never deleted, tokens never given to another, mails never unsent.
Lasting ==
    /\ \A u \in Users : Registered(u) => Registered(u)'
    /\ \A t \in Tokens : owner[t] # Nobody => owner'[t] = owner[t]
    /\ mailed \subseteq mailed'

StepOf(r) ==
    /\ LocalsType'
    /\ \A s \in Requests \ {r} : SameSlot(s)
    /\ RequestOK(r)'

LEMMA RowType == NoRow \notin Row /\ NoToken \notin Link /\ NoToken \notin Tokens
  BY NullAssumption DEF Row, Link

LEMMA RequestKept ==
    ASSUME TypeOK, NEW s \in Requests, RequestOK(s), SameSlot(s), Lasting
    PROVE  RequestOK(s)'
  BY NullAssumption DEF RequestOK, SameSlot, Lasting, Registered, Forgetting, Resets

LEMMA StepKeeps ==
    ASSUME TypeInv, NEW r \in Requests, StepOf(r), Lasting, TypeOK', MailInv'
    PROVE  TypeInv'
  BY RequestKept DEF TypeInv, RequestInv, StepOf

\* Steps that leave the table, the invitations and the mails as they are.
LEMMA QuietKeeps ==
    ASSUME TypeInv, NEW r \in Requests, StepOf(r),
           UNCHANGED <<users, invited, mailed, owner>>,
           links' \in [Users -> Link \cup {NoToken}],
           used' \in [Tokens -> Nat],
           latest' \in [Users -> Tokens \cup {NoToken}],
           expired' \subseteq Tokens, overtaken' \subseteq Tokens, undated' \subseteq Tokens,
           confirmed' \subseteq Users, overlap' \subseteq Users,
           chosen' \in [Users -> 0..1],
           faults' \in Nat
    PROVE  TypeInv'
  <1>1. TypeOK'
    BY DEF TypeInv, TypeOK, StepOf, LocalsType
  <1>2. Lasting /\ MailInv'
    BY DEF Lasting, TypeInv, MailInv, Registered
  <1> QED
    BY <1>1, <1>2, StepKeeps

LEMMA DoneStep ==
    ASSUME TypeInv, NEW r \in Requests, Done(r)
    PROVE  StepOf(r) /\ pc'[r] = "idle" /\ copy'[r] = NoRow /\ held'[r] = NoToken
  <1>1. LocalsType'
    BY DEF TypeInv, TypeOK, LocalsType, Done, Goto, Steps
  <1>2. \A s \in Requests \ {r} : SameSlot(s)
    BY DEF TypeInv, TypeOK, Done, Goto, SameSlot
  <1>3. pc'[r] = "idle" /\ copy'[r] = NoRow /\ held'[r] = NoToken
    BY DEF TypeInv, TypeOK, Done, Goto
  <1> QED
    BY <1>1, <1>2, <1>3 DEF StepOf, RequestOK, Forgetting, Resets

\* A step that goes on with the same request.
LEMMA GotoStep ==
    ASSUME TypeInv, NEW r \in Requests, NEW step \in Steps, Goto(r, step),
           UNCHANGED <<who, held>>,
           copy' = copy \/ \E row \in Row \cup {NoRow} : copy' = [copy EXCEPT ![r] = row],
           RequestOK(r)'
    PROVE  StepOf(r) /\ pc'[r] = step
  <1>1. /\ pc' \in [Requests -> Steps] /\ pc'[r] = step
        /\ \A s \in Requests \ {r} : pc'[s] = pc[s]
    BY DEF TypeInv, TypeOK, Goto
  <1>2. /\ copy' \in [Requests -> Row \cup {NoRow}]
        /\ \A s \in Requests \ {r} : copy'[s] = copy[s]
    BY DEF TypeInv, TypeOK
  <1> QED
    BY <1>1, <1>2 DEF StepOf, SameSlot, LocalsType, TypeInv, TypeOK

LEMMA BeginStep ==
    ASSUME TypeInv, NEW r \in Requests, NEW step \in Steps, NEW u \in Users,
           Begin(r, step, u)
    PROVE  /\ pc' \in [Requests -> Steps]
           /\ who' \in [Requests -> Users \cup {Nobody}]
           /\ pc[r] = "idle" /\ pc'[r] = step /\ who'[r] = u
           /\ \A s \in Requests \ {r} : pc'[s] = pc[s] /\ who'[s] = who[s]
  BY DEF TypeInv, TypeOK, Begin, Goto

LEMMA ReadEffect ==
    ASSUME TypeInv, NEW r \in Requests, NEW u \in Users, Read(r, u)
    PROVE  /\ copy' \in [Requests -> Row \cup {NoRow}]
           /\ copy' = [copy EXCEPT ![r] = users[u]] /\ users[u] \in Row \cup {NoRow}
           /\ copy'[r] = users[u]
           /\ \A s \in Requests \ {r} : copy'[s] = copy[s]
           /\ overlap \subseteq overlap' /\ overlap' \subseteq overlap \cup {u}
           /\ overlap' \subseteq Users
  BY DEF TypeInv, TypeOK, Read

-----------------------------------------------------------------------------
(* Type correctness, step by step *)

LEMMA BeginQuiet ==
    ASSUME TypeInv, NEW r \in Requests, NEW u \in Users,
           NEW step \in {"register", "invite", "confirm_find"},
           step # "register" => Registered(u),
           Begin(r, step, u),
           UNCHANGED <<users, redis, invited, copy, held, tokenHistory, rowHistory, faults>>
    PROVE  TypeInv' /\ StepOf(r) /\ pc'[r] = step /\ pc[r] = "idle" /\ who'[r] = u
  <1>1. step \in Steps
    BY DEF Steps
  <1>2. /\ pc' \in [Requests -> Steps]
        /\ who' \in [Requests -> Users \cup {Nobody}]
        /\ pc[r] = "idle" /\ pc'[r] = step /\ who'[r] = u
        /\ \A s \in Requests \ {r} : pc'[s] = pc[s] /\ who'[s] = who[s]
    BY <1>1, BeginStep
  <1>3. StepOf(r)
    BY <1>2 DEF StepOf, LocalsType, SameSlot, RequestOK, Registered, Forgetting, Resets,
                TypeInv, TypeOK
  <1> QED
    BY <1>2, <1>3, QuietKeeps DEF redis, tokenHistory, rowHistory, TypeInv, TypeOK

LEMMA SignUpType ==
    ASSUME TypeInv, NEW r \in Requests, NEW u \in Users,
           SignUp(r, u) \/ ResendVerificationEmail(r, u) \/ ConfirmAccount(r, u)
    PROVE  /\ TypeInv' /\ StepOf(r)
           /\ UNCHANGED <<users, redis, invited, copy, held, tokenHistory, rowHistory, faults>>
           /\ pc[r] = "idle" /\ pc'[r] \in {"register", "invite", "confirm_find"}
  <1>1. CASE SignUp(r, u)
    BY <1>1, BeginQuiet DEF SignUp
  <1>2. CASE ResendVerificationEmail(r, u)
    BY <1>2, BeginQuiet DEF ResendVerificationEmail
  <1>3. CASE ConfirmAccount(r, u)
    BY <1>3, BeginQuiet DEF ConfirmAccount, TypeInv, MailInv
  <1> QED
    BY <1>1, <1>2, <1>3

LEMMA ForgotPasswordType ==
    ASSUME TypeInv, NEW r \in Requests, NEW u \in Users, ForgotPassword(r, u)
    PROVE  /\ TypeInv' /\ StepOf(r) /\ pc[r] = "idle"
           /\ pc'[r] = "forgot_set" /\ who'[r] = u
           /\ owner[held'[r]] = Nobody /\ held'[r] \in Tokens
           /\ owner' = [owner EXCEPT ![held'[r]] = u]
           /\ UNCHANGED <<users, redis, invited, copy, used, latest, expired, overtaken, undated,
                          rowHistory, faults>>
  <1>1. PICK t \in Tokens : /\ owner[t] = Nobody
                            /\ owner' = [owner EXCEPT ![t] = u]
                            /\ held' = [held EXCEPT ![r] = t]
    BY DEF ForgotPassword
  <1>2. /\ Registered(u) /\ Begin(r, "forgot_set", u)
        /\ UNCHANGED <<users, redis, invited, copy, used, latest, expired, overtaken, undated,
                       rowHistory, faults>>
    BY DEF ForgotPassword
  <1>3. "forgot_set" \in Steps
    BY DEF Steps
  <1>4. /\ pc' \in [Requests -> Steps]
        /\ who' \in [Requests -> Users \cup {Nobody}]
        /\ pc[r] = "idle" /\ pc'[r] = "forgot_set" /\ who'[r] = u
        /\ \A s \in Requests \ {r} : pc'[s] = pc[s] /\ who'[s] = who[s]
    BY <1>2, <1>3, BeginStep
  <1>5. /\ held' \in [Requests -> Tokens \cup {NoToken}] /\ held'[r] = t
        /\ \A s \in Requests \ {r} : held'[s] = held[s]
        /\ owner' \in [Tokens -> Users \cup {Nobody}] /\ owner'[t] = u
    BY <1>1 DEF TypeInv, TypeOK
  <1>6. StepOf(r)
    BY <1>2, <1>4, <1>5 DEF StepOf, LocalsType, SameSlot, RequestOK, Registered, Forgetting,
                            Resets, TypeInv, TypeOK
  <1>7. TypeOK'
    BY <1>2, <1>5, <1>6 DEF StepOf, LocalsType, TypeInv, TypeOK, redis, rowHistory
  <1>8. Lasting
    BY <1>1, <1>2 DEF Lasting, Registered, TypeInv, TypeOK, redis
  <1>9. MailInv'
    BY <1>1, <1>2, NullAssumption DEF MailInv, Registered, TypeInv, TypeOK, redis
  <1> QED
    BY <1>1, <1>2, <1>4, <1>5, <1>6, <1>7, <1>8, <1>9, StepKeeps

LEMMA ResetPasswordType ==
    ASSUME TypeInv, NEW r \in Requests, NEW t \in Tokens, ResetPassword(r, t)
    PROVE  /\ TypeInv' /\ StepOf(r) /\ pc[r] = "idle"
           /\ pc'[r] = "reset_find" /\ who'[r] = owner[t] /\ held'[r] = t
           /\ owner[t] \in Users /\ Holds(owner[t], t)
           /\ UNCHANGED <<users, redis, invited, copy, tokenHistory, rowHistory, faults>>
  <1>1. /\ t \in mailed /\ Holds(owner[t], t) /\ Begin(r, "reset_find", owner[t])
        /\ held' = [held EXCEPT ![r] = t]
        /\ UNCHANGED <<users, redis, invited, copy, tokenHistory, rowHistory, faults>>
    BY DEF ResetPassword
  <1>2. owner[t] \in Users /\ Registered(owner[t]) /\ "reset_find" \in Steps
    BY <1>1 DEF TypeInv, MailInv, Steps
  <1>3. /\ pc' \in [Requests -> Steps]
        /\ who' \in [Requests -> Users \cup {Nobody}]
        /\ pc[r] = "idle" /\ pc'[r] = "reset_find" /\ who'[r] = owner[t]
        /\ \A s \in Requests \ {r} : pc'[s] = pc[s] /\ who'[s] = who[s]
    BY <1>1, <1>2, BeginStep
  <1>4. /\ held' \in [Requests -> Tokens \cup {NoToken}] /\ held'[r] = t
        /\ \A s \in Requests \ {r} : held'[s] = held[s]
    BY <1>1 DEF TypeInv, TypeOK
  <1>5. StepOf(r)
    BY <1>1, <1>2, <1>3, <1>4 DEF StepOf, LocalsType, SameSlot, RequestOK, Registered,
       Forgetting, Resets, TypeInv, TypeOK, redis, tokenHistory
  <1>6. TypeInv'
    BY <1>1, <1>5, QuietKeeps DEF redis, tokenHistory, rowHistory, TypeInv, TypeOK
  <1> QED
    BY <1>1, <1>2, <1>3, <1>4, <1>5, <1>6

LEMMA VerifyStudentType ==
    ASSUME TypeInv, NEW r \in Requests, NEW u \in Users, VerifyStudent(r, u)
    PROVE  /\ TypeInv' /\ StepOf(r) /\ pc[r] = "idle"
           /\ pc'[r] = "verify_save" /\ who'[r] = u /\ Read(r, u)
           /\ UNCHANGED <<users, redis, invited, held, tokenHistory, confirmed, chosen, faults>>
  <1>1. /\ Registered(u) /\ Begin(r, "verify_save", u) /\ Read(r, u)
        /\ UNCHANGED <<users, redis, invited, held, tokenHistory, confirmed, chosen, faults>>
    BY DEF VerifyStudent
  <1>2. /\ pc' \in [Requests -> Steps]
        /\ who' \in [Requests -> Users \cup {Nobody}]
        /\ pc[r] = "idle" /\ pc'[r] = "verify_save" /\ who'[r] = u
        /\ \A s \in Requests \ {r} : pc'[s] = pc[s] /\ who'[s] = who[s]
    <2>1. "verify_save" \in Steps
      BY DEF Steps
    <2> QED
      BY <1>1, <2>1, BeginStep
  <1>3. /\ copy' \in [Requests -> Row \cup {NoRow}]
        /\ copy'[r] = users[u]
        /\ \A s \in Requests \ {r} : copy'[s] = copy[s]
        /\ overlap' \subseteq Users
    BY <1>1, ReadEffect
  <1>4. StepOf(r)
    BY <1>1, <1>2, <1>3 DEF StepOf, LocalsType, SameSlot, RequestOK, Registered, Forgetting,
                            Resets, TypeInv, TypeOK
  <1>5. TypeInv'
    BY <1>1, <1>3, <1>4, QuietKeeps DEF redis, tokenHistory, TypeInv, TypeOK
  <1> QED
    BY <1>1, <1>2, <1>4, <1>5

\* Steps that write a row, and leave the mails as they are.
LEMMA SaveKeeps ==
    ASSUME TypeInv, NEW r \in Requests, StepOf(r), NEW u \in Users, NEW row \in Row,
           users' = [users EXCEPT ![u] = row],
           UNCHANGED <<links, invited, mailed, owner, latest, expired, overtaken, undated, overlap,
                       faults>>,
           used' \in [Tokens -> Nat], confirmed' \subseteq Users, chosen' \in [Users -> 0..1]
    PROVE  TypeInv'
  <1>1. TypeOK'
    BY DEF TypeInv, TypeOK, StepOf, LocalsType
  <1>2. \A v \in Users : Registered(v) => Registered(v)'
    BY RowType DEF TypeInv, TypeOK, Registered
  <1>3. Lasting /\ MailInv'
    BY <1>2 DEF Lasting, TypeInv, TypeOK, MailInv
  <1> QED
    BY <1>1, <1>3, StepKeeps

LEMMA RegisterType ==
    ASSUME TypeInv, NEW r \in Requests, Register(r)
    PROVE  TypeInv' /\ StepOf(r)
  <1>1. pc[r] = "register" /\ who[r] \in Users
    BY DEF Register, TypeInv, RequestInv, RequestOK
  <1>2. UNCHANGED <<redis, invited, tokenHistory, rowHistory, faults>>
    BY DEF Register
  <1>3. CASE /\ users' = [users EXCEPT ![who[r]] = [password |-> 0, verified |-> FALSE]]
             /\ Goto(r, "invite") /\ UNCHANGED <<who, copy, held>>
    <2>1. [password |-> 0, verified |-> FALSE] \in Row
      BY DEF Row
    <2>2. Registered(who[r])'
      BY <1>1, <1>3, <2>1, RowType DEF Registered, TypeInv, TypeOK
    <2>3. RequestOK(r)' /\ "invite" \in Steps
      BY <1>1, <1>3, <2>2 DEF RequestOK, Goto, Steps, Forgetting, Resets, Registered,
                              TypeInv, TypeOK
    <2>4. StepOf(r)
      BY <1>3, <2>3, GotoStep
    <2> QED
      BY <1>1, <1>2, <1>3, <2>1, <2>4, SaveKeeps DEF redis, tokenHistory, rowHistory, TypeInv,
                                                     TypeOK
  <1>4. CASE Done(r) /\ UNCHANGED users
    BY <1>2, <1>4, DoneStep, QuietKeeps DEF redis, tokenHistory, rowHistory, TypeInv, TypeOK
  <1> QED
    BY <1>3, <1>4 DEF Register

LEMMA InviteType ==
    ASSUME TypeInv, NEW r \in Requests, Invite(r)
    PROVE  TypeInv' /\ StepOf(r)
  <1>1. /\ invited' = invited \cup {who[r]} /\ Done(r)
        /\ UNCHANGED <<users, redis, tokenHistory, rowHistory, faults>>
        /\ who[r] \in Users /\ Registered(who[r])
    BY DEF Invite, TypeInv, RequestInv, RequestOK
  <1>2. StepOf(r)
    BY <1>1, DoneStep
  <1>3. TypeOK'
    BY <1>1, <1>2 DEF StepOf, LocalsType, TypeInv, TypeOK, redis, tokenHistory, rowHistory
  <1>4. Lasting /\ MailInv'
    BY <1>1 DEF Lasting, TypeInv, MailInv, Registered, redis, tokenHistory
  <1> QED
    BY <1>2, <1>3, <1>4, StepKeeps

LEMMA ConfirmType ==
    ASSUME TypeInv, NEW r \in Requests, ConfirmFind(r) \/ ConfirmSave(r) \/ Welcome(r)
    PROVE  TypeInv' /\ StepOf(r)
  <1>1. who[r] \in Users /\ Registered(who[r]) /\ (pc[r] = "confirm_save" => copy[r] # NoRow)
    BY DEF ConfirmFind, ConfirmSave, Welcome, TypeInv, RequestInv, RequestOK
  <1>2. CASE ConfirmFind(r)
    <2>1. /\ Read(r, who[r]) /\ Goto(r, "confirm_save")
          /\ UNCHANGED <<users, redis, invited, who, held, tokenHistory, confirmed, chosen,
                         faults>>
      BY <1>2 DEF ConfirmFind
    <2>2. /\ copy' = [copy EXCEPT ![r] = users[who[r]]] /\ users[who[r]] \in Row \cup {NoRow}
          /\ copy'[r] = users[who[r]] /\ overlap' \subseteq Users
      BY <1>1, <2>1, ReadEffect
    <2>3. RequestOK(r)' /\ "confirm_save" \in Steps
      BY <1>1, <2>1, <2>2 DEF RequestOK, Goto, Steps, Forgetting, Resets, Registered,
                              TypeInv, TypeOK
    <2>4. StepOf(r)
      BY <2>1, <2>2, <2>3, GotoStep
    <2> QED
      BY <2>1, <2>2, <2>4, QuietKeeps DEF redis, tokenHistory, TypeInv, TypeOK
  <1>3. CASE ConfirmSave(r)
    <2> DEFINE row == [copy[r] EXCEPT !.verified = TRUE]
    <2>1. /\ users' = [users EXCEPT ![who[r]] = row] /\ copy' = [copy EXCEPT ![r] = NoRow]
          /\ confirmed' = confirmed \cup {who[r]} /\ Goto(r, "welcome")
          /\ UNCHANGED <<redis, invited, who, held, tokenHistory, chosen, overlap, faults>>
      BY <1>3 DEF ConfirmSave, Save
    <2>2. row \in Row
      BY <1>1, <1>3 DEF ConfirmSave, TypeInv, TypeOK, Row
    <2> HIDE DEF row
    <2>3. Registered(who[r])'
      BY <1>1, <2>1, <2>2, RowType DEF Registered, TypeInv, TypeOK
    <2>4. RequestOK(r)' /\ "welcome" \in Steps
      BY <1>1, <2>1, <2>3 DEF RequestOK, Goto, Steps, Forgetting, Resets, Registered,
                              TypeInv, TypeOK
    <2>5. StepOf(r)
      BY <2>1, <2>4, GotoStep
    <2> QED
      BY <1>1, <2>1, <2>2, <2>5, SaveKeeps DEF redis, tokenHistory, TypeInv, TypeOK
  <1>4. CASE Welcome(r)
    BY <1>4, DoneStep, QuietKeeps DEF Welcome, redis, tokenHistory, rowHistory, TypeInv, TypeOK
  <1> QED
    BY <1>2, <1>3, <1>4

LEMMA ForgotType ==
    ASSUME TypeInv, NEW r \in Requests, ForgotSet(r) \/ ForgotExpire(r) \/ ForgotMail(r)
    PROVE  TypeInv' /\ StepOf(r)
  <1>1. /\ who[r] \in Users /\ Registered(who[r])
        /\ held[r] \in Tokens /\ owner[held[r]] = who[r]
    BY DEF ForgotSet, ForgotExpire, ForgotMail, TypeInv, RequestInv, RequestOK, Forgetting
  <1>2. ASSUME NEW step \in {"forgot_expire", "forgot_mail"}, Goto(r, step),
               UNCHANGED <<users, who, copy, held, mailed, owner>>
        PROVE  StepOf(r)
    <2>1. RequestOK(r)' /\ step \in Steps
      BY <1>1, <1>2 DEF RequestOK, Goto, Steps, Forgetting, Resets, Registered, TypeInv, TypeOK
    <2> QED
      BY <1>2, <2>1, GotoStep
  <1>3. CASE ForgotSet(r)
    <2>1. /\ links' = [links EXCEPT ![who[r]] = [token |-> held[r], ttl |-> FALSE]]
          /\ latest' = [latest EXCEPT ![who[r]] = held[r]]
          /\ overtaken' = overtaken \cup {t \in {held[r]} : Resetting(who[r]) # {}}
          /\ Goto(r, "forgot_expire")
          /\ UNCHANGED <<users, invited, mailed, who, copy, held, used, owner, expired, undated,
                         rowHistory, faults>>
      BY <1>3 DEF ForgotSet
    <2>2. links' \in [Users -> Link \cup {NoToken}]
      BY <1>1, <2>1 DEF TypeInv, TypeOK, Link
    <2>3. latest' \in [Users -> Tokens \cup {NoToken}] /\ overtaken' \subseteq Tokens
      BY <1>1, <2>1 DEF TypeInv, TypeOK
    <2> QED
      BY <1>2, <2>1, <2>2, <2>3, QuietKeeps DEF rowHistory, TypeInv, TypeOK
  <1>4. CASE ForgotExpire(r)
    <2>1. /\ links' = [links EXCEPT ![who[r]] =
                          IF @ = NoToken THEN @ ELSE [@ EXCEPT !.ttl = TRUE]]
          /\ Goto(r, "forgot_mail")
          /\ UNCHANGED <<users, invited, mailed, who, copy, held, tokenHistory, rowHistory,
                         faults>>
      BY <1>4 DEF ForgotExpire
    <2>2. links' \in [Users -> Link \cup {NoToken}]
      <3>1. \A l \in Link : [l EXCEPT !.ttl = TRUE] \in Link
        BY DEF Link
      <3>2. links \in [Users -> Link \cup {NoToken}]
        BY DEF TypeInv, TypeOK
      <3>3. CASE links[who[r]] = NoToken
        BY <1>1, <2>1, <3>2, <3>3
      <3>4. CASE links[who[r]] # NoToken
        BY <1>1, <2>1, <3>1, <3>2, <3>4
      <3> QED
        BY <3>3, <3>4
    <2> QED
      BY <1>2, <2>1, <2>2, QuietKeeps DEF tokenHistory, rowHistory, TypeInv, TypeOK
  <1>5. CASE ForgotMail(r)
    <2>1. /\ mailed' = mailed \cup {held[r]} /\ Done(r)
          /\ UNCHANGED <<users, links, invited, tokenHistory, rowHistory, faults>>
      BY <1>5 DEF ForgotMail
    <2>2. StepOf(r)
      BY <2>1, DoneStep
    <2>3. TypeOK'
      BY <1>1, <2>1, <2>2 DEF StepOf, LocalsType, TypeInv, TypeOK, tokenHistory, rowHistory
    <2>4. Lasting /\ MailInv'
      BY <1>1, <2>1 DEF Lasting, TypeInv, MailInv, Registered, tokenHistory
    <2> QED
      BY <2>2, <2>3, <2>4, StepKeeps
  <1> QED
    BY <1>3, <1>4, <1>5

LEMMA ResetType ==
    ASSUME TypeInv, NEW r \in Requests, ResetFind(r) \/ ResetSave(r) \/ ResetDelete(r)
    PROVE  TypeInv' /\ StepOf(r)
  <1>1. /\ who[r] \in Users /\ Registered(who[r]) /\ (pc[r] = "reset_save" => copy[r] # NoRow)
        /\ held[r] \in Tokens /\ owner[held[r]] = who[r] /\ held[r] \in mailed
    BY DEF ResetFind, ResetSave, ResetDelete, TypeInv, RequestInv, RequestOK, Resets
  <1>2. CASE ResetFind(r)
    <2>1. /\ Read(r, who[r]) /\ Goto(r, "reset_save")
          /\ UNCHANGED <<users, redis, invited, who, held, tokenHistory, confirmed, chosen,
                         faults>>
      BY <1>2 DEF ResetFind
    <2>2. /\ copy' = [copy EXCEPT ![r] = users[who[r]]] /\ users[who[r]] \in Row \cup {NoRow}
          /\ copy'[r] = users[who[r]] /\ overlap' \subseteq Users
      BY <1>1, <2>1, ReadEffect
    <2>3. RequestOK(r)' /\ "reset_save" \in Steps
      BY <1>1, <2>1, <2>2 DEF RequestOK, Goto, Steps, Forgetting, Resets, Registered,
                              TypeInv, TypeOK, redis, tokenHistory
    <2>4. StepOf(r)
      BY <2>1, <2>2, <2>3, GotoStep
    <2> QED
      BY <2>1, <2>2, <2>4, QuietKeeps DEF redis, tokenHistory, TypeInv, TypeOK
  <1>3. CASE ResetSave(r)
    <2> DEFINE row == [copy[r] EXCEPT !.password = 1 - chosen[who[r]]]
    <2>1. /\ users' = [users EXCEPT ![who[r]] = row] /\ copy' = [copy EXCEPT ![r] = NoRow]
          /\ chosen' = [chosen EXCEPT ![who[r]] = 1 - @]
          /\ used' = [used EXCEPT ![held[r]] = @ + 1] /\ Goto(r, "reset_delete")
          /\ UNCHANGED <<redis, invited, who, held, latest, owner, expired, overtaken, undated,
                         confirmed, overlap, faults>>
      BY <1>3 DEF ResetSave, Save
    <2>2. 1 - chosen[who[r]] \in 0..1
      BY <1>1 DEF TypeInv, TypeOK
    <2>3. row \in Row /\ chosen' \in [Users -> 0..1] /\ used' \in [Tokens -> Nat]
      BY <1>1, <1>3, <2>1, <2>2 DEF ResetSave, TypeInv, TypeOK, Row
    <2> HIDE DEF row
    <2>4. Registered(who[r])'
      BY <1>1, <2>1, <2>3, RowType DEF Registered, TypeInv, TypeOK
    <2>5. RequestOK(r)' /\ "reset_delete" \in Steps
      BY <1>1, <2>1, <2>4 DEF RequestOK, Goto, Steps, Forgetting, Resets, Registered,
                              TypeInv, TypeOK, redis
    <2>6. StepOf(r)
      BY <2>1, <2>5, GotoStep
    <2> QED
      BY <1>1, <2>1, <2>3, <2>6, SaveKeeps DEF redis, TypeInv, TypeOK
  <1>4. CASE ResetDelete(r)
    <2>1. /\ links' = [links EXCEPT ![who[r]] = NoToken] /\ Done(r)
          /\ UNCHANGED <<users, invited, mailed, tokenHistory, rowHistory, faults>>
      BY <1>4 DEF ResetDelete
    <2>2. links' \in [Users -> Link \cup {NoToken}]
      BY <2>1 DEF TypeInv, TypeOK
    <2> QED
      BY <2>1, <2>2, DoneStep, QuietKeeps DEF tokenHistory, rowHistory, TypeInv, TypeOK
  <1> QED
    BY <1>2, <1>3, <1>4

LEMMA VerifySaveType ==
    ASSUME TypeInv, NEW r \in Requests, VerifySave(r)
    PROVE  TypeInv' /\ StepOf(r)
  <1>1. /\ users' = [users EXCEPT ![who[r]] = copy[r]] /\ Done(r)
        /\ UNCHANGED <<redis, invited, tokenHistory, rowHistory, faults>>
        /\ who[r] \in Users /\ copy[r] \in Row
    BY DEF VerifySave, TypeInv, TypeOK, RequestInv, RequestOK
  <1> QED
    BY <1>1, DoneStep, SaveKeeps DEF redis, tokenHistory, rowHistory, TypeInv, TypeOK

LEMMA FaultType ==
    ASSUME TypeInv, NEW r \in Requests, Abort(r) \/ LoseCall(r)
    PROVE  TypeInv' /\ StepOf(r)
  <1>1. /\ UNCHANGED <<users, redis, invited, used, latest, owner, expired, overtaken, rowHistory>>
        /\ undated' \subseteq Tokens /\ faults' \in Nat
    <2>1. /\ UNCHANGED <<users, redis, invited, rowHistory>> /\ Fault /\ LoseExpire(r)
      BY DEF Abort, LoseCall
    <2>2. undated' \subseteq Tokens
      <3>1. pc[r] = "forgot_expire" => held[r] \in Tokens
        BY DEF TypeInv, RequestInv, RequestOK, Forgetting
      <3> QED
        BY <2>1, <3>1 DEF LoseExpire, TypeInv, TypeOK
    <2> QED
      BY <2>1, <2>2 DEF LoseExpire, Fault, TypeInv, TypeOK
  <1>2. StepOf(r)
    <2>1. CASE Done(r)
      BY <2>1, DoneStep
    <2>2. CASE /\ pc[r] \in {"forgot_set", "forgot_expire"}
               /\ Goto(r, "forgot_mail") /\ UNCHANGED <<who, copy, held>>
      <3>1. RequestOK(r)' /\ "forgot_mail" \in Steps
        BY <1>1, <2>2 DEF RequestInv, RequestOK, Goto, Steps, Forgetting, Resets, Registered,
                          TypeInv, TypeOK
      <3> QED
        BY <2>2, <3>1, GotoStep
    <2> QED
      BY <2>1, <2>2 DEF Abort, LoseCall
  <1> QED
    BY <1>1, <1>2, QuietKeeps DEF redis, rowHistory, TypeInv, TypeOK

LEMMA ExpireType ==
    ASSUME TypeInv, NEW u \in Users, ExpireLink(u)
    PROVE  TypeInv'
  <1>1. /\ expired' = expired \cup {links[u].token} /\ links[u] # NoToken
        /\ links' = [links EXCEPT ![u] = NoToken]
        /\ UNCHANGED <<users, invited, mailed, request, used, latest, owner, overtaken, undated,
                       rowHistory, faults>>
    BY DEF ExpireLink
  <1>2. links[u].token \in Tokens
    BY <1>1 DEF TypeInv, TypeOK, Link
  <1>3. TypeOK'
    BY <1>1, <1>2 DEF TypeInv, TypeOK, request, rowHistory
  <1> QED
    BY <1>1, <1>3 DEF TypeInv, RequestInv, RequestOK, MailInv, Registered, request

LEMMA InitType == Init => TypeInv
  BY DEF Init, TypeInv, TypeOK, RequestInv, RequestOK, MailInv, Steps, Forgetting, Resets

LEMMA TypeStep == TypeInv /\ [Next]_vars => TypeInv'
  <1> SUFFICES ASSUME TypeInv, [Next]_vars PROVE TypeInv'
    OBVIOUS
  <1>1. CASE UNCHANGED vars
    BY <1>1 DEF vars, TypeInv, TypeOK, RequestInv, RequestOK, MailInv, Registered
  <1>2. ASSUME NEW r \in Requests, Arrive(r) PROVE TypeInv'
    BY <1>2, SignUpType, ForgotPasswordType, ResetPasswordType, VerifyStudentType DEF Arrive
  <1>3. ASSUME NEW r \in Requests, Proceed(r) PROVE TypeInv'
    BY <1>3, RegisterType, InviteType, ConfirmType, ForgotType, ResetType, VerifySaveType
       DEF Proceed
  <1>4. ASSUME NEW r \in Requests, Abort(r) \/ LoseCall(r) PROVE TypeInv'
    BY <1>4, FaultType
  <1> QED
    BY <1>1, <1>2, <1>3, <1>4, ExpireType DEF Next

\* TypeCorrect: every variable keeps its type: no save writes a copy never read,
\* and every link mailed is of an account that exists.
THEOREM TypeCorrect == Spec => []TypeOK
  <1>1. TypeInv => TypeOK
    BY DEF TypeInv
  <1> QED
    BY <1>1, InitType, TypeStep, PTL DEF Spec

-----------------------------------------------------------------------------
(* What was saved stays.  As long as no two handlers hold copies of the row   *)
(* of a user at once, the one that does holds the row as it is.               *)

HoldersOf(u) == {r \in Requests : who[r] = u /\ copy[r] # NoRow}

Saving == {"confirm_save", "reset_save", "verify_save"}

RowInv ==
    /\ \A u \in Users : ~ Registered(u) => u \notin confirmed /\ chosen[u] = 0
    /\ \A r \in Requests : copy[r] # NoRow =>
          pc[r] \in Saving /\ who[r] \in Users /\ Registered(who[r])
    /\ \A u \in Users \ overlap :
          /\ \A r \in HoldersOf(u) : copy[r] = users[u]
          /\ \A r, s \in HoldersOf(u) : r = s
          /\ Registered(u) => /\ u \in confirmed => users[u].verified
                             /\ users[u].password = chosen[u]

\* Steps that neither read nor write a row.
LEMMA RowElse ==
    ASSUME TypeInv, RowInv, NEW r \in Requests, StepOf(r),
           UNCHANGED <<users, confirmed, chosen, overlap>>, copy'[r] = NoRow
    PROVE  RowInv'
  <1>1. \A s \in Requests : copy'[s] # NoRow =>
            copy'[s] = copy[s] /\ who'[s] = who[s] /\ pc'[s] = pc[s]
    BY DEF StepOf, SameSlot
  <1>2. \A u \in Users : HoldersOf(u)' \subseteq HoldersOf(u)
    BY <1>1 DEF HoldersOf
  <1>3. \A u \in Users : \A s \in HoldersOf(u)' : copy'[s] = copy[s]
    BY <1>1 DEF HoldersOf
  <1> QED
    BY <1>1, <1>2, <1>3 DEF RowInv, Registered

\* One that reads a row holds it as it is, or is told of as a second.
LEMMA RowRead ==
    ASSUME TypeInv, RowInv, NEW r \in Requests, StepOf(r), NEW u \in Users,
           Read(r, u), who'[r] = u, Registered(u), pc'[r] \in Saving,
           UNCHANGED <<users, confirmed, chosen>>
    PROVE  RowInv'
  <1>1. /\ copy'[r] = users[u]
        /\ \A s \in Requests \ {r} :
              copy'[s] = copy[s] /\ who'[s] = who[s] /\ pc'[s] = pc[s]
        /\ overlap \subseteq overlap'
    BY ReadEffect DEF StepOf, SameSlot
  <1>2. \A s \in Requests : copy'[s] # NoRow =>
            pc'[s] \in Saving /\ who'[s] \in Users /\ Registered(who'[s])
    BY <1>1 DEF RowInv
  <1>3. ASSUME NEW v \in Users \ overlap'
        PROVE  /\ \A s \in HoldersOf(v)' : copy'[s] = users[v]
               /\ \A s, t \in HoldersOf(v)' : s = t
    <2>1. CASE v # u
      BY <1>1, <1>3, <2>1 DEF RowInv, HoldersOf
    <2>2. CASE v = u
      <3>1. \A s \in Requests \ {r} : ~ (who[s] = u /\ copy[s] # NoRow)
        BY <1>3, <2>2 DEF Read
      <3>2. HoldersOf(v)' \subseteq {r}
        BY <1>1, <2>2, <3>1 DEF HoldersOf
      <3> QED
        BY <1>1, <2>2, <3>2
    <2> QED
      BY <2>1, <2>2
  <1> QED
    BY <1>1, <1>2, <1>3 DEF RowInv, Registered

\* One that writes the row leaves none that holds it, and sets what it says.
LEMMA RowWrite ==
    ASSUME TypeInv, RowInv, NEW r \in Requests, StepOf(r), NEW u \in Users, NEW row \in Row,
           users' = [users EXCEPT ![u] = row], copy'[r] = NoRow,
           overlap' = overlap,
           \A v \in Users \ {u} : /\ v \in confirmed' => v \in confirmed
                                  /\ chosen'[v] = chosen[v],
           u \notin overlap =>
               /\ HoldersOf(u) \subseteq {r}
               /\ u \in confirmed' => row.verified
               /\ row.password = chosen'[u]
    PROVE  RowInv'
  <1>1. \A s \in Requests : copy'[s] # NoRow =>
            s # r /\ copy'[s] = copy[s] /\ who'[s] = who[s] /\ pc'[s] = pc[s]
    BY DEF StepOf, SameSlot
  <1>2. /\ users'[u] = row /\ row # NoRow
        /\ \A v \in Users \ {u} : users'[v] = users[v]
    BY RowType DEF TypeInv, TypeOK
  <1>3. \A v \in Users : HoldersOf(v)' \subseteq HoldersOf(v) \ {r}
    BY <1>1 DEF HoldersOf
  <1>4. \A v \in Users : \A s \in HoldersOf(v)' : copy'[s] = copy[s]
    BY <1>1 DEF HoldersOf
  <1>5. u \notin overlap => HoldersOf(u)' = {}
    BY <1>3
  <1> QED
    BY <1>1, <1>2, <1>3, <1>4, <1>5 DEF RowInv, Registered

LEMMA RowStep == TypeInv /\ RowInv /\ [Next]_vars => RowInv'
  <1> SUFFICES ASSUME TypeInv, RowInv, [Next]_vars PROVE RowInv'
    OBVIOUS
  <1>1. CASE UNCHANGED vars
    BY <1>1 DEF vars, RowInv, HoldersOf, Registered
  <1>2. ASSUME NEW u \in Users, ExpireLink(u) PROVE RowInv'
    BY <1>2 DEF ExpireLink, request, rowHistory, RowInv, HoldersOf, Registered
  <1>3. ASSUME NEW r \in Requests, Done(r), UNCHANGED <<users, confirmed, chosen, overlap>>
        PROVE  RowInv'
    BY <1>3, DoneStep, RowElse
  <1>4. ASSUME NEW r \in Requests, StepOf(r), copy' = copy, pc[r] \notin Saving,
               UNCHANGED <<users, confirmed, chosen, overlap>>
        PROVE  RowInv'
    BY <1>4, RowElse DEF RowInv
  <1>5. ASSUME NEW r \in Requests, Arrive(r) PROVE RowInv'
    <2>1. ASSUME NEW u \in Users, VerifyStudent(r, u) PROVE RowInv'
      <3>1. /\ StepOf(r) /\ pc'[r] = "verify_save" /\ who'[r] = u /\ Read(r, u)
            /\ Registered(u) /\ UNCHANGED <<users, confirmed, chosen>>
        BY <2>1, VerifyStudentType DEF VerifyStudent
      <3> QED
        BY <3>1, RowRead DEF Saving
    <2>2. ASSUME NEW u \in Users,
                 \/ SignUp(r, u) \/ ResendVerificationEmail(r, u) \/ ConfirmAccount(r, u)
                 \/ ForgotPassword(r, u)
          PROVE  RowInv'
      BY <1>4, <2>2, SignUpType, ForgotPasswordType DEF rowHistory, Saving
    <2>3. ASSUME NEW t \in Tokens, ResetPassword(r, t) PROVE RowInv'
      BY <1>4, <2>3, ResetPasswordType DEF rowHistory, Saving
    <2> QED
      BY <1>5, <2>1, <2>2, <2>3 DEF Arrive
  <1>6. ASSUME NEW r \in Requests,
               \/ Invite(r) \/ Welcome(r) \/ ForgotMail(r) \/ ResetDelete(r) \/ Abort(r)
        PROVE  RowInv'
    BY <1>3, <1>6 DEF Invite, Welcome, ForgotMail, ResetDelete, Abort, rowHistory
  <1>7. ASSUME NEW r \in Requests, ForgotSet(r) \/ ForgotExpire(r) PROVE RowInv'
    BY <1>4, <1>7, ForgotType DEF ForgotSet, ForgotExpire, rowHistory, Saving
  <1>8. ASSUME NEW r \in Requests, LoseCall(r) PROVE RowInv'
    BY <1>3, <1>4, <1>8, FaultType DEF LoseCall, rowHistory, Saving
  <1>9. ASSUME NEW r \in Requests, ConfirmFind(r) \/ ResetFind(r) PROVE RowInv'
    <2>1. /\ Read(r, who[r]) /\ who' = who /\ pc'[r] \in Saving
          /\ who[r] \in Users /\ Registered(who[r])
          /\ UNCHANGED <<users, confirmed, chosen>>
      BY <1>9 DEF ConfirmFind, ResetFind, Goto, Saving, TypeInv, TypeOK, RequestInv, RequestOK
    <2>2. StepOf(r)
      BY <1>9, ConfirmType, ResetType
    <2> QED
      BY <2>1, <2>2, RowRead
  <1>10. ASSUME NEW r \in Requests, who[r] \in Users, copy[r] \in Row, who[r] \notin overlap
         PROVE  /\ HoldersOf(who[r]) = {r} /\ Registered(who[r])
                /\ who[r] \in confirmed => copy[r].verified
                /\ copy[r].password = chosen[who[r]]
    <2>1. r \in HoldersOf(who[r]) /\ Registered(who[r])
      BY <1>10, RowType DEF HoldersOf, RowInv
    <2>2. HoldersOf(who[r]) = {r}
      <3>1. \A q \in HoldersOf(who[r]) : q = r
        BY <1>10, <2>1 DEF RowInv
      <3> QED
        BY <2>1, <3>1
    <2> QED
      BY <1>10, <2>1, <2>2 DEF RowInv
  <1>11. ASSUME NEW r \in Requests, Register(r) PROVE RowInv'
    <2>1. /\ pc[r] = "register" /\ who[r] \in Users /\ StepOf(r)
          /\ UNCHANGED rowHistory
      BY <1>11, RegisterType DEF Register, TypeInv, RequestInv, RequestOK
    <2>2. CASE /\ ~ Registered(who[r])
               /\ users' = [users EXCEPT ![who[r]] = [password |-> 0, verified |-> FALSE]]
               /\ UNCHANGED copy
      <3>1. copy[r] = NoRow
        BY <2>1 DEF RowInv, Saving
      <3>2. HoldersOf(who[r]) = {}
        BY <2>2 DEF RowInv, HoldersOf
      <3>3. who[r] \notin confirmed /\ chosen[who[r]] = 0
        BY <2>1, <2>2 DEF RowInv
      <3>4. [password |-> 0, verified |-> FALSE] \in Row
        BY DEF Row
      <3> QED
        BY <2>1, <2>2, <3>1, <3>2, <3>3, <3>4, RowWrite DEF rowHistory
    <2>3. CASE Done(r) /\ UNCHANGED users
      BY <1>3, <2>1, <2>3 DEF rowHistory
    <2> QED
      BY <1>11, <2>2, <2>3 DEF Register
  <1>12. ASSUME NEW r \in Requests, ConfirmSave(r) PROVE RowInv'
    <2> DEFINE row == [copy[r] EXCEPT !.verified = TRUE]
    <2>1. /\ users' = [users EXCEPT ![who[r]] = row] /\ copy' = [copy EXCEPT ![r] = NoRow]
          /\ confirmed' = confirmed \cup {who[r]} /\ UNCHANGED <<chosen, overlap>>
          /\ who[r] \in Users /\ copy[r] \in Row /\ StepOf(r)
      BY <1>12, ConfirmType DEF ConfirmSave, Save, TypeInv, TypeOK, RequestInv, RequestOK
    <2>2. row \in Row /\ row.verified /\ row.password = copy[r].password
      BY <2>1 DEF Row
    <2>3. copy'[r] = NoRow
      BY <2>1 DEF TypeInv, TypeOK
    <2> HIDE DEF row
    <2> QED
      BY <1>10, <2>1, <2>2, <2>3, RowWrite
  <1>13. ASSUME NEW r \in Requests, ResetSave(r) PROVE RowInv'
    <2> DEFINE row == [copy[r] EXCEPT !.password = 1 - chosen[who[r]]]
    <2>1. /\ users' = [users EXCEPT ![who[r]] = row] /\ copy' = [copy EXCEPT ![r] = NoRow]
          /\ chosen' = [chosen EXCEPT ![who[r]] = 1 - @] /\ UNCHANGED <<confirmed, overlap>>
          /\ who[r] \in Users /\ copy[r] \in Row /\ StepOf(r)
      BY <1>13, ResetType DEF ResetSave, Save, TypeInv, TypeOK, RequestInv, RequestOK
    <2>2. 1 - chosen[who[r]] \in 0..1
      BY <2>1 DEF TypeInv, TypeOK
    <2>3. /\ row \in Row /\ (copy[r].verified => row.verified)
          /\ row.password = 1 - chosen[who[r]]
      BY <2>1, <2>2 DEF Row
    <2>4. /\ copy'[r] = NoRow /\ chosen'[who[r]] = 1 - chosen[who[r]]
          /\ \A v \in Users \ {who[r]} : chosen'[v] = chosen[v]
      BY <2>1 DEF TypeInv, TypeOK
    <2> HIDE DEF row
    <2>5. who[r] \notin overlap =>
              /\ HoldersOf(who[r]) \subseteq {r}
              /\ who[r] \in confirmed' => row.verified
              /\ row.password = chosen'[who[r]]
      BY <1>10, <2>1, <2>3, <2>4
    <2>6. \A v \in Users \ {who[r]} : /\ v \in confirmed' => v \in confirmed
                                      /\ chosen'[v] = chosen[v]
      BY <2>1, <2>4
    <2>7. users' = [users EXCEPT ![who[r]] = row] /\ overlap' = overlap
      BY <2>1
    <2>8. row \in Row /\ copy'[r] = NoRow /\ who[r] \in Users /\ StepOf(r)
      BY <2>1, <2>3, <2>4
    <2> QED
      BY <2>5, <2>6, <2>7, <2>8, RowWrite
  <1>14. ASSUME NEW r \in Requests, VerifySave(r) PROVE RowInv'
    <2>1. /\ users' = [users EXCEPT ![who[r]] = copy[r]] /\ UNCHANGED rowHistory
          /\ who[r] \in Users /\ copy[r] \in Row /\ StepOf(r) /\ copy'[r] = NoRow
      BY <1>14, VerifySaveType, DoneStep
         DEF VerifySave, TypeInv, TypeOK, RequestInv, RequestOK
    <2> QED
      BY <1>10, <2>1, RowWrite DEF rowHistory
  <1> QED
    BY <1>1, <1>2, <1>5, <1>6, <1>7, <1>8, <1>9, <1>11, <1>12, <1>13, <1>14 DEF Next, Proceed

\* RowAlwaysKept: a confirmation and the password chosen last stay in the row, as
\* long as no two handlers held copies of it at once.
THEOREM RowAlwaysKept == Spec => []RowKept
  <1>1. Init => RowInv
    BY DEF Init, RowInv, HoldersOf, Registered
  <1>2. RowInv => RowKept
    BY DEF RowInv, RowKept
  <1>3. TypeInv /\ RowInv /\ [Next]_vars => TypeInv' /\ RowInv'
    BY TypeStep, RowStep
  <1> QED
    BY <1>1, <1>2, <1>3, InitType, PTL DEF Spec

-----------------------------------------------------------------------------
(* The latest link.  The key holds the token stored last or nothing, and a     *)
(* reset that is running had compared that one, or was overtaken by it.        *)

Lives(u) ==
    latest[u] # NoToken =>
        \/ Holds(u, latest[u])
        \/ used[latest[u]] > 0
        \/ latest[u] \in expired \cup overtaken

Compared(r) ==
    /\ pc[r] \in Resets => latest[who[r]] = held[r] \/ latest[who[r]] \in overtaken
    /\ pc[r] = "reset_delete" => used[held[r]] > 0

LatestInv ==
    /\ \A u \in Users : /\ links[u] # NoToken => latest[u] = links[u].token
                        /\ Lives(u)
    /\ \A r \in Requests : Compared(r)

\* Steps that leave the links as they are.
LEMMA LatestElse ==
    ASSUME TypeInv, LatestInv, NEW r \in Requests, StepOf(r), Compared(r)',
           UNCHANGED <<links, latest, expired, overtaken>>,
           \A t \in Tokens : used[t] > 0 => used'[t] > 0
    PROVE  LatestInv'
  <1>1. ASSUME NEW u \in Users PROVE Lives(u)'
    <2>1. latest[u] # NoToken => latest[u] \in Tokens
      BY DEF TypeInv, TypeOK
    <2> QED
      BY <2>1 DEF LatestInv, Lives, Holds
  <1>2. ASSUME NEW s \in Requests \ {r} PROVE Compared(s)'
    <2>1. SameSlot(s) /\ Compared(s)
      BY DEF StepOf, LatestInv
    <2>2. pc[s] = "reset_delete" => held[s] \in Tokens
      BY DEF TypeInv, RequestInv, RequestOK, Resets
    <2> QED
      BY <2>1, <2>2 DEF Compared, SameSlot
  <1> QED
    BY <1>1, <1>2 DEF LatestInv

LEMMA LatestStep == TypeInv /\ LatestInv /\ [Next]_vars => LatestInv'
  <1> SUFFICES ASSUME TypeInv, LatestInv, [Next]_vars PROVE LatestInv'
    OBVIOUS
  <1>1. CASE UNCHANGED vars
    BY <1>1 DEF vars, LatestInv, Lives, Holds, Compared
  <1>2. ASSUME NEW u \in Users, ExpireLink(u) PROVE LatestInv'
    <2>1. /\ links[u] # NoToken /\ expired' = expired \cup {links[u].token}
          /\ links' = [links EXCEPT ![u] = NoToken]
          /\ UNCHANGED <<pc, who, held, used, latest, overtaken>>
      BY <1>2 DEF ExpireLink, request
    <2>2. links'[u] = NoToken /\ \A v \in Users \ {u} : links'[v] = links[v]
      BY <2>1 DEF TypeInv, TypeOK
    <2>3. latest[u] \in expired'
      BY <2>1 DEF LatestInv
    <2> QED
      BY <2>1, <2>2, <2>3 DEF LatestInv, Lives, Holds, Compared
  <1>3. ASSUME NEW r \in Requests, StepOf(r), pc'[r] \notin Resets,
               UNCHANGED <<links, latest, expired, overtaken, used>>
        PROVE  LatestInv'
    BY <1>3, LatestElse DEF Compared, Resets
  <1>4. ASSUME NEW r \in Requests, Arrive(r) PROVE LatestInv'
    <2>1. ASSUME NEW u \in Users,
                 \/ SignUp(r, u) \/ ResendVerificationEmail(r, u) \/ ConfirmAccount(r, u)
                 \/ ForgotPassword(r, u) \/ VerifyStudent(r, u)
          PROVE  LatestInv'
      BY <1>3, <2>1, SignUpType, ForgotPasswordType, VerifyStudentType
         DEF redis, tokenHistory, Resets
    <2>2. ASSUME NEW t \in Tokens, ResetPassword(r, t) PROVE LatestInv'
      <3>1. /\ StepOf(r) /\ pc'[r] = "reset_find" /\ who'[r] = owner[t] /\ held'[r] = t
            /\ owner[t] \in Users /\ Holds(owner[t], t)
            /\ UNCHANGED <<links, latest, expired, overtaken, used>>
        BY <2>2, ResetPasswordType DEF redis, tokenHistory
      <3>2. latest[owner[t]] = t
        BY <3>1 DEF LatestInv, Holds
      <3>3. Compared(r)'
        BY <3>1, <3>2 DEF Compared
      <3> QED
        BY <3>1, <3>3, LatestElse
    <2> QED
      BY <1>4, <2>1, <2>2 DEF Arrive
  <1>5. ASSUME NEW r \in Requests, Done(r), UNCHANGED <<links, latest, expired, overtaken, used>>
        PROVE  LatestInv'
    BY <1>3, <1>5, DoneStep DEF Resets
  <1>6. ASSUME NEW r \in Requests,
               \/ Register(r) \/ Invite(r) \/ ConfirmFind(r) \/ ConfirmSave(r) \/ Welcome(r)
               \/ ForgotMail(r) \/ VerifySave(r) \/ Abort(r) \/ LoseCall(r)
        PROVE  LatestInv'
    <2>1. UNCHANGED <<links, latest, expired, overtaken, used>>
      BY <1>6 DEF Register, Invite, ConfirmFind, ConfirmSave, Welcome, ForgotMail, VerifySave,
         Abort, LoseCall, LoseExpire, redis, tokenHistory
    <2>2. CASE Done(r)
      BY <1>5, <2>1, <2>2
    <2>3. CASE \E step \in {"invite", "confirm_save", "welcome", "forgot_mail"} : Goto(r, step)
      <3>1. pc'[r] \notin Resets
        BY <2>3 DEF Goto, Resets, TypeInv, TypeOK
      <3>2. StepOf(r)
        BY <1>6, RegisterType, InviteType, ConfirmType, ForgotType, VerifySaveType, FaultType
      <3> QED
        BY <1>3, <2>1, <3>1, <3>2
    <2> QED
      BY <1>6, <2>2, <2>3 DEF Register, Invite, ConfirmFind, ConfirmSave, Welcome, ForgotMail,
         VerifySave, Abort, LoseCall
  <1>7. ASSUME NEW r \in Requests, ForgotSet(r) PROVE LatestInv'
    <2> PICK u \in Users : u = who[r]
      BY <1>7 DEF ForgotSet, Forgetting, TypeInv, RequestInv, RequestOK
    <2>1. /\ StepOf(r) /\ pc'[r] = "forgot_expire"
          /\ links' = [links EXCEPT ![u] = [token |-> held[r], ttl |-> FALSE]]
          /\ latest' = [latest EXCEPT ![u] = held[r]]
          /\ overtaken' = overtaken \cup {t \in {held[r]} : Resetting(u) # {}}
          /\ UNCHANGED <<used, expired>>
      BY <1>7, ForgotType DEF ForgotSet, Goto, TypeInv, TypeOK
    <2>2. /\ links'[u] = [token |-> held[r], ttl |-> FALSE] /\ latest'[u] = held[r]
          /\ \A v \in Users \ {u} : links'[v] = links[v] /\ latest'[v] = latest[v]
          /\ overtaken \subseteq overtaken'
      BY <2>1 DEF TypeInv, TypeOK
    <2>3. \A v \in Users : (links'[v] # NoToken => latest'[v] = links'[v].token) /\ Lives(v)'
      <3>1. links'[u] # NoToken
        <4>1. held[r] \in Tokens
          BY <1>7 DEF ForgotSet, Forgetting, TypeInv, RequestInv, RequestOK
        <4>2. [token |-> held[r], ttl |-> FALSE] \in Link
          BY <4>1 DEF Link
        <4> QED
          BY <2>2, <4>2, RowType
      <3>2. Lives(u)'
        BY <2>2, <3>1 DEF Lives, Holds
      <3>3. \A v \in Users \ {u} : Lives(v)'
        BY <2>1, <2>2 DEF Lives, Holds, LatestInv
      <3> QED
        BY <2>2, <3>2, <3>3 DEF LatestInv
    <2>4. Compared(r)'
      BY <2>1 DEF Compared, Resets
    <2>5. ASSUME NEW s \in Requests \ {r} PROVE Compared(s)'
      <3>1. SameSlot(s) /\ Compared(s)
        BY <2>1 DEF StepOf, LatestInv
      <3>2. CASE pc[s] \in Resets /\ who[s] = u
        <4>1. s \in Resetting(u)
          BY <3>2 DEF Resetting, Resets
        <4>2. latest'[u] \in overtaken'
          BY <2>1, <2>2, <4>1
        <4> QED
          BY <2>1, <3>1, <3>2, <4>2 DEF Compared, SameSlot
      <3>3. CASE pc[s] \in Resets /\ who[s] # u
        <4>1. who[s] \in Users
          BY <3>3 DEF TypeInv, RequestInv, RequestOK, Resets
        <4> QED
          BY <2>1, <2>2, <3>1, <3>3, <4>1 DEF Compared, SameSlot
      <3>4. CASE pc[s] \notin Resets
        BY <3>1, <3>4 DEF Compared, SameSlot, Resets
      <3> QED
        BY <3>2, <3>3, <3>4
    <2> QED
      BY <2>3, <2>4, <2>5 DEF LatestInv
  <1>8. ASSUME NEW r \in Requests, StepOf(r), Compared(r)', NEW u \in Users,
               \A v \in Users \ {u} : links'[v] = links[v],
               links'[u] # NoToken => links[u] # NoToken /\ links'[u].token = links[u].token,
               latest[u] # NoToken /\ Holds(u, latest[u]) =>
                   \/ links'[u] # NoToken
                   \/ used[latest[u]] > 0
                   \/ latest[u] \in overtaken,
               UNCHANGED <<latest, expired, overtaken, used>>
        PROVE  LatestInv'
    <2>1. ASSUME NEW s \in Requests \ {r} PROVE Compared(s)'
      BY <1>8 DEF StepOf, SameSlot, LatestInv, Compared
    <2>2. Lives(u)'
      <3>1. Lives(u)
        BY DEF LatestInv
      <3> QED
        BY <1>8, <3>1 DEF Lives, Holds
    <2>3. \A v \in Users \ {u} : Lives(v)'
      BY <1>8 DEF LatestInv, Lives, Holds
    <2> QED
      BY <1>8, <2>1, <2>2, <2>3 DEF LatestInv
  <1>9. ASSUME NEW r \in Requests, ForgotExpire(r) PROVE LatestInv'
    <2>1. /\ StepOf(r) /\ pc'[r] = "forgot_mail" /\ who[r] \in Users
          /\ links' = [links EXCEPT ![who[r]] =
                          IF @ = NoToken THEN @ ELSE [@ EXCEPT !.ttl = TRUE]]
          /\ UNCHANGED <<latest, expired, overtaken, used>>
      BY <1>9, ForgotType DEF ForgotExpire, Goto, TypeInv, TypeOK, RequestInv, RequestOK,
         tokenHistory
    <2>2. \A l \in Link :
             [l EXCEPT !.ttl = TRUE] \in Link /\ [l EXCEPT !.ttl = TRUE].token = l.token
      BY DEF Link
    <2>3. links \in [Users -> Link \cup {NoToken}]
      BY DEF TypeInv, TypeOK
    <2>4. links'[who[r]] = IF links[who[r]] = NoToken THEN NoToken
                           ELSE [links[who[r]] EXCEPT !.ttl = TRUE]
      BY <2>1, <2>3
    <2>5. /\ links'[who[r]] # NoToken =>
                links[who[r]] # NoToken /\ links'[who[r]].token = links[who[r]].token
          /\ links[who[r]] # NoToken => links'[who[r]] # NoToken
      BY <2>1, <2>2, <2>3, <2>4, RowType
    <2>6. \A v \in Users \ {who[r]} : links'[v] = links[v]
      BY <2>1, <2>3
    <2>7. Compared(r)'
      BY <2>1 DEF Compared, Resets
    <2>8. Holds(who[r], latest[who[r]]) => links'[who[r]] # NoToken
      BY <2>5 DEF Holds
    <2>9. StepOf(r) /\ who[r] \in Users /\ UNCHANGED <<latest, expired, overtaken, used>>
      BY <2>1
    <2> QED
      BY <1>8, <2>5, <2>6, <2>7, <2>8, <2>9
  <1>10. ASSUME NEW r \in Requests, ResetDelete(r) PROVE LatestInv'
    <2>1. /\ StepOf(r) /\ pc[r] = "reset_delete" /\ pc'[r] = "idle" /\ who[r] \in Users
          /\ links' = [links EXCEPT ![who[r]] = NoToken]
          /\ UNCHANGED <<latest, expired, overtaken, used>>
      BY <1>10, ResetType, DoneStep DEF ResetDelete, TypeInv, RequestInv, RequestOK,
         tokenHistory
    <2>2. links'[who[r]] = NoToken /\ \A v \in Users \ {who[r]} : links'[v] = links[v]
      BY <2>1 DEF TypeInv, TypeOK
    <2>3. used[latest[who[r]]] > 0 \/ latest[who[r]] \in overtaken
      BY <2>1 DEF LatestInv, Compared, Resets
    <2>4. Compared(r)'
      BY <2>1 DEF Compared, Resets
    <2> QED
      BY <1>8, <2>1, <2>2, <2>3, <2>4
  <1>11. ASSUME NEW r \in Requests, ResetFind(r) PROVE LatestInv'
    <2>1. /\ StepOf(r) /\ pc[r] = "reset_find" /\ pc'[r] = "reset_save"
          /\ UNCHANGED <<who, held, links, latest, expired, overtaken, used>>
      BY <1>11, ResetType DEF ResetFind, Goto, TypeInv, TypeOK, redis, tokenHistory
    <2>2. Compared(r)'
      BY <2>1 DEF LatestInv, Compared, Resets
    <2> QED
      BY <2>1, <2>2, LatestElse
  <1>12. ASSUME NEW r \in Requests, ResetSave(r) PROVE LatestInv'
    <2>1. /\ StepOf(r) /\ pc[r] = "reset_save" /\ pc'[r] = "reset_delete" /\ held[r] \in Tokens
          /\ used' = [used EXCEPT ![held[r]] = @ + 1]
          /\ UNCHANGED <<who, held, links, latest, expired, overtaken>>
      BY <1>12, ResetType DEF ResetSave, Goto, TypeInv, TypeOK, RequestInv, RequestOK, Resets,
         redis
    <2>2. used'[held[r]] > 0 /\ \A t \in Tokens : used[t] > 0 => used'[t] > 0
      BY <2>1 DEF TypeInv, TypeOK
    <2>3. Compared(r)'
      BY <2>1, <2>2 DEF LatestInv, Compared, Resets
    <2> QED
      BY <2>1, <2>2, <2>3, LatestElse
  <1> QED
    BY <1>1, <1>2, <1>4, <1>6, <1>7, <1>9, <1>10, <1>11, <1>12 DEF Next, Proceed

\* LatestLinkAlwaysLives: the link stored last is lost to nothing but its use, its
\* time, or a reset that was running when it was stored.
THEOREM LatestLinkAlwaysLives == Spec => []LatestLinkLives
  <1>1. Init => LatestInv
    BY DEF Init, LatestInv, Lives, Compared, Resets
  <1>2. LatestInv => LatestLinkLives
    BY DEF LatestInv, Lives, LatestLinkLives
  <1>3. TypeInv /\ LatestInv /\ [Next]_vars => TypeInv' /\ LatestInv'
    BY TypeStep, LatestStep
  <1> QED
    BY <1>1, <1>2, <1>3, InitType, PTL DEF Spec

-----------------------------------------------------------------------------
(* How often a token resets.  Until it is mailed only the request that made it *)
(* holds it.  As long as its link lives, each reset done by it is still about  *)
(* to delete the key or lost to a failure; those under way compared it then.   *)

UnmailedInv ==
    \A r \in Requests : pc[r] \in Forgetting =>
        /\ held[r] \notin mailed
        /\ \A s \in Requests \ {r} : pc[s] \in Forgetting => held[s] # held[r]

Coming(t) == {r \in Requests : pc[r] \in {"reset_find", "reset_save"} /\ held[r] = t}
Leaving(t) == {r \in Requests : pc[r] = "reset_delete" /\ held[r] = t}

CanHold(t) ==
    \/ owner[t] = Nobody
    \/ \E r \in Requests : pc[r] = "forgot_set" /\ held[r] = t
    \/ owner[t] \in Users /\ Holds(owner[t], t)

CountOK(t) ==
    /\ used[t] + Cardinality(Coming(t)) <= Cardinality(Requests) + faults
    /\ CanHold(t) => used[t] <= Cardinality(Leaving(t)) + faults

CountInv == \A t \in Tokens : CountOK(t)

LEMMA UnmailedKept ==
    ASSUME TypeInv, UnmailedInv, NEW r \in Requests, StepOf(r), UNCHANGED mailed,
           pc'[r] \in Forgetting => pc[r] \in Forgetting /\ held'[r] = held[r]
    PROVE  UnmailedInv'
  BY DEF UnmailedInv, StepOf, SameSlot

LEMMA UnmailedStep == TypeInv /\ UnmailedInv /\ [Next]_vars => UnmailedInv'
  <1> SUFFICES ASSUME TypeInv, UnmailedInv, [Next]_vars PROVE UnmailedInv'
    OBVIOUS
  <1>1. CASE UNCHANGED vars
    BY <1>1 DEF vars, UnmailedInv
  <1>2. ASSUME NEW u \in Users, ExpireLink(u) PROVE UnmailedInv'
    BY <1>2 DEF ExpireLink, request, UnmailedInv
  <1>3. ASSUME NEW r \in Requests, Arrive(r) PROVE UnmailedInv'
    <2>1. ASSUME NEW u \in Users,
                 \/ SignUp(r, u) \/ ResendVerificationEmail(r, u) \/ ConfirmAccount(r, u)
                 \/ VerifyStudent(r, u)
          PROVE  UnmailedInv'
      BY <2>1, SignUpType, VerifyStudentType, UnmailedKept DEF redis, Forgetting
    <2>2. ASSUME NEW u \in Users, ForgotPassword(r, u) PROVE UnmailedInv'
      <3>1. /\ StepOf(r) /\ owner[held'[r]] = Nobody /\ held'[r] \in Tokens
            /\ mailed' = mailed
        BY <2>2, ForgotPasswordType DEF redis
      <3>2. held'[r] \notin mailed
        BY <3>1, NullAssumption DEF TypeInv, MailInv
      <3>3. \A s \in Requests : pc[s] \in Forgetting => held[s] # held'[r]
        BY <3>1, NullAssumption DEF TypeInv, RequestInv, RequestOK, Forgetting
      <3> QED
        BY <3>1, <3>2, <3>3 DEF UnmailedInv, StepOf, SameSlot
    <2>3. ASSUME NEW t \in Tokens, ResetPassword(r, t) PROVE UnmailedInv'
      BY <2>3, ResetPasswordType, UnmailedKept DEF redis, Forgetting
    <2> QED
      BY <1>3, <2>1, <2>2, <2>3 DEF Arrive
  <1>4. ASSUME NEW r \in Requests, ForgotMail(r) PROVE UnmailedInv'
    <2>1. /\ StepOf(r) /\ pc[r] \in Forgetting /\ pc'[r] = "idle"
          /\ mailed' = mailed \cup {held[r]}
      BY <1>4, ForgotType, DoneStep DEF ForgotMail, Forgetting
    <2> QED
      BY <2>1 DEF UnmailedInv, StepOf, SameSlot, Forgetting
  <1>5. ASSUME NEW r \in Requests, StepOf(r), UNCHANGED mailed,
               pc'[r] \notin Forgetting
        PROVE  UnmailedInv'
    BY <1>5, UnmailedKept
  <1>6. ASSUME NEW r \in Requests, Done(r), UNCHANGED mailed PROVE UnmailedInv'
    BY <1>5, <1>6, DoneStep DEF Forgetting
  <1>7. ASSUME NEW r \in Requests,
               \/ Register(r) \/ Invite(r) \/ ConfirmFind(r) \/ ConfirmSave(r) \/ Welcome(r)
               \/ ResetFind(r) \/ ResetSave(r) \/ ResetDelete(r) \/ VerifySave(r) \/ Abort(r)
        PROVE  UnmailedInv'
    <2>1. UNCHANGED mailed
      BY <1>7 DEF Register, Invite, ConfirmFind, ConfirmSave, Welcome, ResetFind, ResetSave,
         ResetDelete, VerifySave, Abort, redis
    <2>2. CASE Done(r)
      BY <1>6, <2>1, <2>2
    <2>3. CASE \E step \in {"invite", "confirm_save", "welcome", "reset_save", "reset_delete"} :
                  Goto(r, step)
      <3>1. pc'[r] \notin Forgetting
        BY <2>3 DEF Goto, Forgetting, TypeInv, TypeOK
      <3>2. StepOf(r)
        BY <1>7, RegisterType, InviteType, ConfirmType, ResetType, VerifySaveType, FaultType
      <3> QED
        BY <1>5, <2>1, <3>1, <3>2
    <2> QED
      BY <1>7, <2>2, <2>3 DEF Register, Invite, ConfirmFind, ConfirmSave, Welcome, ResetFind,
         ResetSave, ResetDelete, VerifySave, Abort
  <1>8. ASSUME NEW r \in Requests, ForgotSet(r) \/ ForgotExpire(r) PROVE UnmailedInv'
    <2>1. /\ StepOf(r) /\ pc[r] \in Forgetting /\ UNCHANGED <<held, mailed>>
      BY <1>8, ForgotType DEF ForgotSet, ForgotExpire, Forgetting
    <2> QED
      BY <2>1, UnmailedKept
  <1>9. ASSUME NEW r \in Requests, LoseCall(r) PROVE UnmailedInv'
    <2>1. StepOf(r) /\ UNCHANGED mailed
      BY <1>9, FaultType DEF LoseCall, redis
    <2>2. CASE Done(r)
      BY <1>6, <2>1, <2>2
    <2>3. CASE pc[r] \in {"forgot_set", "forgot_expire"} /\ UNCHANGED held
      BY <2>1, <2>3, UnmailedKept DEF Forgetting
    <2> QED
      BY <1>9, <2>2, <2>3 DEF LoseCall
  <1> QED
    BY <1>1, <1>2, <1>3, <1>4, <1>7, <1>8, <1>9 DEF Next, Proceed

\* What one request contributes to the counts, before and after its step.
LEMMA Counts ==
    ASSUME NEW r \in Requests, StepOf(r), NEW t
    PROVE  \E c \in Nat, l \in Nat :
              /\ c + l + 1 <= Cardinality(Requests)
              /\ Cardinality(Coming(t)) = IF r \in Coming(t) THEN c + 1 ELSE c
              /\ Cardinality(Coming(t))' = IF r \in Coming(t)' THEN c + 1 ELSE c
              /\ Cardinality(Leaving(t)) = IF r \in Leaving(t) THEN l + 1 ELSE l
              /\ Cardinality(Leaving(t))' = IF r \in Leaving(t)' THEN l + 1 ELSE l
  <1>1. PICK C \in SUBSET Requests : C = Coming(t) \ {r}
    BY DEF Coming
  <1>2. PICK L \in SUBSET Requests : L = Leaving(t) \ {r}
    BY DEF Leaving
  <1>3. Coming(t)' \ {r} = C /\ Leaving(t)' \ {r} = L
    BY <1>1, <1>2 DEF Coming, Leaving, StepOf, SameSlot
  <1>4. /\ IsFiniteSet(C) /\ IsFiniteSet(L)
        /\ Cardinality(C) \in Nat /\ Cardinality(L) \in Nat
    BY FiniteAssumption, FS_Subset, FS_CardinalityType
  <1>5. ASSUME NEW S, NEW T, IsFiniteSet(T), S \ {r} = T
        PROVE  Cardinality(S) = IF r \in S THEN Cardinality(T) + 1 ELSE Cardinality(T)
    <2>1. CASE r \in S
      <3>1. S = T \cup {r} /\ r \notin T
        BY <1>5, <2>1
      <3>2. Cardinality(T \cup {r}) = Cardinality(T) + 1
        BY <1>5, <3>1, FS_AddElement
      <3> QED
        BY <2>1, <3>1, <3>2
    <2>2. CASE r \notin S
      BY <1>5, <2>2
    <2> QED
      BY <2>1, <2>2
  <1>6. Cardinality(C) + Cardinality(L) + 1 <= Cardinality(Requests)
    <2>1. C \cap L = {} /\ r \notin C \cup L
      BY <1>1, <1>2 DEF Coming, Leaving
    <2>2. IsFiniteSet(C \cup L) /\ Cardinality(C \cup L) = Cardinality(C) + Cardinality(L)
      <3>1. /\ IsFiniteSet(C \cup L)
            /\ Cardinality(C \cup L) = Cardinality(C) + Cardinality(L) - Cardinality(C \cap L)
        BY <1>4, FS_Union
      <3>2. Cardinality(C \cap L) = 0
        BY <2>1, FS_EmptySet
      <3> QED
        BY <1>4, <3>1, <3>2
    <2>3. Cardinality(C \cup L \cup {r}) = Cardinality(C) + Cardinality(L) + 1
      BY <1>4, <2>1, <2>2, FS_AddElement
    <2>4. C \cup L \cup {r} \in SUBSET Requests
      OBVIOUS
    <2>5. Cardinality(C \cup L \cup {r}) <= Cardinality(Requests)
      BY <2>4, FiniteAssumption, FS_Subset
    <2> QED
      BY <2>3, <2>5
  <1>7. /\ Cardinality(Coming(t)) = IF r \in Coming(t) THEN Cardinality(C) + 1
                                    ELSE Cardinality(C)
        /\ Cardinality(Leaving(t)) = IF r \in Leaving(t) THEN Cardinality(L) + 1
                                     ELSE Cardinality(L)
    BY <1>1, <1>2, <1>4, <1>5
  <1>8. /\ Cardinality(Coming(t)') = IF r \in Coming(t)' THEN Cardinality(C) + 1
                                     ELSE Cardinality(C)
        /\ Cardinality(Leaving(t)') = IF r \in Leaving(t)' THEN Cardinality(L) + 1
                                      ELSE Cardinality(L)
    BY <1>3, <1>4, <1>5
  <1> QED
    BY <1>4, <1>6, <1>7, <1>8

\* Steps of requests that are not past the check of a reset.
LEMMA CountElse ==
    ASSUME TypeInv, CountInv, NEW r \in Requests, StepOf(r), NEW t \in Tokens,
           pc[r] \notin Resets, pc'[r] \notin Resets, used' = used,
           faults' \in Nat, faults <= faults',
           CanHold(t)' => CanHold(t)
    PROVE  CountOK(t)'
  <1>1. r \notin Coming(t) \cup Leaving(t) /\ r \notin (Coming(t) \cup Leaving(t))'
    BY DEF Coming, Leaving, Resets
  <1>2. /\ Cardinality(Coming(t))' = Cardinality(Coming(t))
        /\ Cardinality(Leaving(t))' = Cardinality(Leaving(t))
    BY <1>1, Counts
  <1>3. /\ Cardinality(Leaving(t)) \in Nat /\ Cardinality(Coming(t)) \in Nat
        /\ Cardinality(Requests) \in Nat
    <2>1. Coming(t) \in SUBSET Requests /\ Leaving(t) \in SUBSET Requests
      BY DEF Coming, Leaving
    <2> QED
      BY <2>1, FiniteAssumption, FS_Subset, FS_CardinalityType
  <1>4. used[t] \in Nat /\ faults \in Nat
    BY DEF TypeInv, TypeOK
  <1>5. CountOK(t)
    BY DEF CountInv
  <1> QED
    BY <1>2, <1>3, <1>4, <1>5 DEF CountOK

\* A step that stores no link makes no link live.
LEMMA CanHoldElse ==
    ASSUME TypeInv, NEW r \in Requests, StepOf(r), NEW t \in Tokens,
           pc'[r] # "forgot_set", UNCHANGED <<links, owner>>
    PROVE  CanHold(t)' => CanHold(t)
  BY DEF CanHold, Holds, StepOf, SameSlot

LEMMA CountStep == TypeInv /\ UnmailedInv /\ CountInv /\ [Next]_vars => CountInv'
  <1> SUFFICES ASSUME TypeInv, UnmailedInv, CountInv, [Next]_vars PROVE CountInv'
    OBVIOUS
  <1>1. CASE UNCHANGED vars
    BY <1>1 DEF vars, CountInv, CountOK, Coming, Leaving, CanHold, Holds
  <1>2. ASSUME NEW u \in Users, ExpireLink(u) PROVE CountInv'
    <2>1. /\ links' = [links EXCEPT ![u] = NoToken] /\ links \in [Users -> Link \cup {NoToken}]
          /\ UNCHANGED <<pc, held, used, owner, faults>>
      BY <1>2 DEF ExpireLink, request, TypeInv, TypeOK
    <2>2. \A v \in Users : links'[v] = links[v] \/ links'[v] = NoToken
      BY <2>1
    <2>3. ASSUME NEW t \in Tokens PROVE CountOK(t)'
      <3>1. CanHold(t)' => CanHold(t)
        BY <2>1, <2>2 DEF CanHold, Holds
      <3>2. CountOK(t) /\ Coming(t)' = Coming(t) /\ Leaving(t)' = Leaving(t)
        BY <2>1 DEF CountInv, Coming, Leaving
      <3> QED
        BY <2>1, <3>1, <3>2 DEF CountOK
    <2> QED
      BY <2>3 DEF CountInv
  <1>3. ASSUME NEW r \in Requests, StepOf(r), pc[r] \notin Resets,
               pc'[r] \notin Resets \cup {"forgot_set"},
               UNCHANGED <<links, owner, used>>, faults' \in Nat, faults <= faults'
        PROVE  CountInv'
    BY <1>3, CountElse, CanHoldElse DEF CountInv
  <1>4. ASSUME NEW r \in Requests, Arrive(r) PROVE CountInv'
    <2>1. ASSUME NEW u \in Users,
                 \/ SignUp(r, u) \/ ResendVerificationEmail(r, u) \/ ConfirmAccount(r, u)
                 \/ VerifyStudent(r, u)
          PROVE  CountInv'
      <3>1. /\ StepOf(r) /\ pc[r] = "idle"
            /\ pc'[r] \in {"register", "invite", "confirm_find", "verify_save"}
            /\ UNCHANGED <<links, owner, used, faults>> /\ faults \in Nat
        BY <2>1, SignUpType, VerifyStudentType DEF redis, tokenHistory, TypeInv, TypeOK
      <3> QED
        BY <1>3, <3>1 DEF Resets
    <2>2. ASSUME NEW u \in Users, ForgotPassword(r, u) PROVE CountInv'
      <3>1. /\ StepOf(r) /\ pc[r] = "idle" /\ pc'[r] = "forgot_set"
            /\ owner[held'[r]] = Nobody /\ held'[r] \in Tokens
            /\ \A t \in Tokens \ {held'[r]} : owner'[t] = owner[t]
            /\ UNCHANGED <<links, used, faults>> /\ faults \in Nat
        BY <2>2, ForgotPasswordType DEF redis, TypeInv, TypeOK
      <3>2. ASSUME NEW t \in Tokens PROVE CanHold(t)' => CanHold(t)
        <4>1. CASE t = held'[r]
          BY <3>1, <4>1 DEF CanHold
        <4>2. CASE t # held'[r]
          BY <3>1, <4>2 DEF CanHold, Holds, StepOf, SameSlot
        <4> QED
          BY <4>1, <4>2
      <3> QED
        BY <3>1, <3>2, CountElse DEF CountInv, Resets
    <2>3. ASSUME NEW k \in Tokens, ResetPassword(r, k) PROVE CountInv'
      <3>1. /\ StepOf(r) /\ pc[r] = "idle" /\ pc'[r] = "reset_find" /\ held'[r] = k
            /\ owner[k] \in Users /\ Holds(owner[k], k)
            /\ UNCHANGED <<links, owner, used, faults>>
        BY <2>3, ResetPasswordType DEF redis, tokenHistory
      <3>2. ASSUME NEW t \in Tokens PROVE CountOK(t)'
        <4>1. /\ r \notin Coming(t) \cup Leaving(t) /\ r \notin Leaving(t)'
              /\ r \in Coming(t)' => t = k
          BY <3>1 DEF Coming, Leaving
        <4>2. t = k => CanHold(t)
          BY <3>1 DEF CanHold
        <4>3. CanHold(t)' => CanHold(t)
          BY <3>1, CanHoldElse
        <4>4. /\ used[t] \in Nat /\ faults \in Nat /\ CountOK(t)
              /\ Cardinality(Requests) \in Nat
          BY FiniteAssumption, FS_CardinalityType DEF TypeInv, TypeOK, CountInv
        <4>5. PICK c \in Nat, l \in Nat :
                 /\ c + l + 1 <= Cardinality(Requests)
                 /\ Cardinality(Coming(t)) = c /\ Cardinality(Leaving(t)) = l
                 /\ Cardinality(Coming(t))' = IF r \in Coming(t)' THEN c + 1 ELSE c
                 /\ Cardinality(Leaving(t))' = l
          BY <3>1, <4>1, Counts
        <4> QED
          BY <3>1, <4>1, <4>2, <4>3, <4>4, <4>5 DEF CountOK
      <3> QED
        BY <3>2 DEF CountInv
    <2> QED
      BY <1>4, <2>1, <2>2, <2>3 DEF Arrive
  <1>5. ASSUME NEW r \in Requests,
               \/ Register(r) \/ Invite(r) \/ ConfirmFind(r) \/ ConfirmSave(r) \/ Welcome(r)
               \/ ForgotMail(r) \/ VerifySave(r)
        PROVE  CountInv'
    <2>1. /\ pc[r] \notin Resets /\ UNCHANGED <<links, owner, used, faults>>
          /\ faults \in Nat
      BY <1>5 DEF Register, Invite, ConfirmFind, ConfirmSave, Welcome, ForgotMail, VerifySave,
         redis, tokenHistory, Resets, TypeInv, TypeOK
    <2>2. StepOf(r)
      BY <1>5, RegisterType, InviteType, ConfirmType, ForgotType, VerifySaveType
    <2>3. pc'[r] \in {"idle", "invite", "confirm_save", "welcome"}
      BY <1>5 DEF Register, Invite, ConfirmFind, ConfirmSave, Welcome, ForgotMail, VerifySave,
         Goto, Done, TypeInv, TypeOK
    <2> QED
      BY <1>3, <2>1, <2>2, <2>3 DEF Resets
  <1>6. ASSUME NEW r \in Requests, ForgotSet(r) \/ ForgotExpire(r) PROVE CountInv'
    <2> PICK u \in Users : u = who[r]
      BY <1>6 DEF ForgotSet, ForgotExpire, TypeInv, RequestInv, RequestOK
    <2>1. /\ StepOf(r) /\ pc[r] \in {"forgot_set", "forgot_expire"}
          /\ pc'[r] \in {"forgot_expire", "forgot_mail"}
          /\ UNCHANGED <<held, owner, used, faults>> /\ faults \in Nat
          /\ held[r] \in Tokens
      BY <1>6, ForgotType DEF ForgotSet, ForgotExpire, Goto, TypeInv, TypeOK, RequestInv,
         RequestOK, Forgetting, tokenHistory
    <2>2. \A v \in Users \ {u} : links'[v] = links[v]
      BY <1>6 DEF ForgotSet, ForgotExpire, TypeInv, TypeOK
    <2>3. ASSUME NEW t \in Tokens, links'[u] # NoToken, links'[u].token = t
          PROVE  \/ pc[r] = "forgot_set" /\ held[r] = t
                 \/ Holds(u, t)
      <3>1. CASE ForgotSet(r)
        <4>1. links'[u] = [token |-> held[r], ttl |-> FALSE] /\ pc[r] = "forgot_set"
          BY <3>1 DEF ForgotSet, TypeInv, TypeOK
        <4> QED
          BY <2>3, <4>1
      <3>2. CASE ForgotExpire(r)
        <4>1. links'[u] = IF links[u] = NoToken THEN NoToken
                          ELSE [links[u] EXCEPT !.ttl = TRUE]
          BY <3>2 DEF ForgotExpire, TypeInv, TypeOK
        <4>2. links[u] # NoToken => [links[u] EXCEPT !.ttl = TRUE].token = links[u].token
          BY DEF TypeInv, TypeOK, Link
        <4> QED
          BY <2>3, <4>1, <4>2 DEF Holds
      <3> QED
        BY <1>6, <3>1, <3>2
    <2>4. ASSUME NEW t \in Tokens, CanHold(t)' PROVE CanHold(t)
      <3>1. CASE owner'[t] = Nobody
        BY <2>1, <3>1 DEF CanHold
      <3>2. CASE \E s \in Requests : pc'[s] = "forgot_set" /\ held'[s] = t
        BY <2>1, <3>2 DEF CanHold, StepOf, SameSlot
      <3>3. CASE owner[t] = u /\ links'[u] # NoToken /\ links'[u].token = t
        BY <2>3, <3>3 DEF CanHold
      <3>4. CASE owner[t] \in Users \ {u} /\ Holds(owner[t], t)
        BY <3>4 DEF CanHold
      <3>5. owner'[t] = owner[t]
        BY <2>1
      <3> QED
        BY <2>2, <2>4, <3>1, <3>2, <3>3, <3>4, <3>5 DEF CanHold, Holds
    <2> QED
      BY <2>1, <2>4, CountElse DEF CountInv, Resets
  <1>7. ASSUME NEW r \in Requests, ResetFind(r) PROVE CountInv'
    <2>1. /\ StepOf(r) /\ pc[r] = "reset_find" /\ pc'[r] = "reset_save"
          /\ UNCHANGED <<held, links, owner, used, faults>>
      BY <1>7, ResetType DEF ResetFind, Goto, TypeInv, TypeOK, redis, tokenHistory
    <2>2. ASSUME NEW t \in Tokens PROVE CountOK(t)'
      <3>1. Coming(t)' = Coming(t) /\ Leaving(t)' = Leaving(t)
        BY <2>1 DEF Coming, Leaving, StepOf, SameSlot
      <3>2. CountOK(t) /\ (CanHold(t)' => CanHold(t))
        BY <2>1, CanHoldElse DEF CountInv
      <3> QED
        BY <2>1, <3>1, <3>2 DEF CountOK
    <2> QED
      BY <2>2 DEF CountInv
  <1>8. ASSUME NEW r \in Requests, ResetSave(r) PROVE CountInv'
    <2>1. /\ StepOf(r) /\ pc[r] = "reset_save" /\ pc'[r] = "reset_delete" /\ held[r] \in Tokens
          /\ used' = [used EXCEPT ![held[r]] = @ + 1]
          /\ UNCHANGED <<held, links, owner, faults>>
      BY <1>8, ResetType DEF ResetSave, Goto, TypeInv, TypeOK, RequestInv, RequestOK, Resets,
         redis
    <2>2. ASSUME NEW t \in Tokens PROVE CountOK(t)'
      <3>1. /\ r \in Coming(t) <=> held[r] = t
            /\ r \in Leaving(t)' <=> held[r] = t
            /\ r \notin Leaving(t) /\ r \notin Coming(t)'
        BY <2>1 DEF Coming, Leaving
      <3>2. used'[t] = IF held[r] = t THEN used[t] + 1 ELSE used[t]
        BY <2>1 DEF TypeInv, TypeOK
      <3>3. CanHold(t)' => CanHold(t)
        BY <2>1, CanHoldElse
      <3>4. /\ used[t] \in Nat /\ faults \in Nat /\ CountOK(t)
            /\ Cardinality(Requests) \in Nat
        BY FiniteAssumption, FS_CardinalityType DEF TypeInv, TypeOK, CountInv
      <3>5. PICK c \in Nat, l \in Nat :
               /\ Cardinality(Coming(t)) = IF held[r] = t THEN c + 1 ELSE c
               /\ Cardinality(Coming(t))' = c
               /\ Cardinality(Leaving(t)) = l
               /\ Cardinality(Leaving(t))' = IF held[r] = t THEN l + 1 ELSE l
        BY <2>1, <3>1, Counts
      <3> QED
        BY <2>1, <3>2, <3>3, <3>4, <3>5 DEF CountOK
    <2> QED
      BY <2>2 DEF CountInv
  <1>9. ASSUME NEW r \in Requests, ResetDelete(r) PROVE CountInv'
    <2>1. /\ StepOf(r) /\ pc[r] = "reset_delete" /\ pc'[r] = "idle"
          /\ held[r] \in Tokens /\ held[r] \in mailed
          /\ owner[held[r]] = who[r] /\ who[r] \in Users
          /\ links' = [links EXCEPT ![who[r]] = NoToken]
          /\ UNCHANGED <<owner, used, faults>>
      BY <1>9, ResetType, DoneStep DEF ResetDelete, TypeInv, RequestInv, RequestOK, Resets,
         tokenHistory
    <2>2. links'[who[r]] = NoToken /\ \A v \in Users : links'[v] = links[v] \/ links'[v] = NoToken
      BY <2>1 DEF TypeInv, TypeOK
    <2>3. ASSUME NEW t \in Tokens, t = held[r], CanHold(t)' PROVE FALSE
      <3>1. owner'[t] \in Users /\ links'[owner'[t]] = NoToken
        BY <2>1, <2>2, <2>3
      <3>2. ASSUME NEW s \in Requests, pc'[s] = "forgot_set", held'[s] = t PROVE FALSE
        BY <2>1, <2>3, <3>2 DEF UnmailedInv, Forgetting, StepOf, SameSlot, TypeInv, MailInv,
           RequestInv, RequestOK
      <3> QED
        BY <2>3, <3>1, <3>2, NullAssumption DEF CanHold, Holds
    <2>4. ASSUME NEW t \in Tokens, CanHold(t)' PROVE CanHold(t)
      BY <2>1, <2>2, <2>4 DEF CanHold, Holds, StepOf, SameSlot
    <2>5. ASSUME NEW t \in Tokens PROVE CountOK(t)'
      <3>1. /\ r \in Leaving(t) <=> held[r] = t
            /\ r \notin Leaving(t)' /\ r \notin Coming(t) /\ r \notin Coming(t)'
        BY <2>1 DEF Coming, Leaving
      <3>2. /\ CanHold(t)' => held[r] # t /\ CanHold(t)
        BY <2>3, <2>4
      <3>3. /\ used[t] \in Nat /\ faults \in Nat /\ CountOK(t)
            /\ Cardinality(Requests) \in Nat
        BY FiniteAssumption, FS_CardinalityType DEF TypeInv, TypeOK, CountInv
      <3>4. PICK c \in Nat, l \in Nat :
               /\ Cardinality(Coming(t)) = c /\ Cardinality(Coming(t))' = c
               /\ Cardinality(Leaving(t)) = IF held[r] = t THEN l + 1 ELSE l
               /\ Cardinality(Leaving(t))' = l
        BY <2>1, <3>1, Counts
      <3> QED
        BY <2>1, <3>2, <3>3, <3>4 DEF CountOK
    <2> QED
      BY <2>5 DEF CountInv
  <1>10. ASSUME NEW r \in Requests, Abort(r) \/ LoseCall(r) PROVE CountInv'
    <2>1. StepOf(r) /\ faults' = faults + 1 /\ UNCHANGED <<links, owner, used>>
      BY <1>10, FaultType DEF Abort, LoseCall, LoseExpire, Fault, redis, tokenHistory
    <2>2. pc'[r] \in {"idle", "forgot_mail"}
      BY <1>10 DEF Abort, LoseCall, Goto, Done, TypeInv, TypeOK
    <2>3. ASSUME NEW t \in Tokens PROVE CountOK(t)'
      <3>1. r \notin Leaving(t)' /\ r \notin Coming(t)'
        BY <2>2 DEF Coming, Leaving
      <3>2. CanHold(t)' => CanHold(t)
        BY <2>1, <2>2, CanHoldElse
      <3>3. /\ used[t] \in Nat /\ faults \in Nat /\ CountOK(t)
            /\ Cardinality(Requests) \in Nat
        BY FiniteAssumption, FS_CardinalityType DEF TypeInv, TypeOK, CountInv
      <3>4. PICK c \in Nat, l \in Nat :
               /\ Cardinality(Coming(t)) = IF r \in Coming(t) THEN c + 1 ELSE c
               /\ Cardinality(Coming(t))' = c
               /\ Cardinality(Leaving(t)) = IF r \in Leaving(t) THEN l + 1 ELSE l
               /\ Cardinality(Leaving(t))' = l
        BY <2>1, <3>1, Counts
      <3> QED
        BY <2>1, <3>2, <3>3, <3>4 DEF CountOK
    <2> QED
      BY <2>3 DEF CountInv
  <1> QED
    BY <1>1, <1>2, <1>4, <1>5, <1>6, <1>7, <1>8, <1>9, <1>10 DEF Next, Proceed

\* ResetsAlwaysBounded: a link resets the password at most once for each request
\* that can be under way together, and once more for each failure.
THEOREM ResetsAlwaysBounded == Spec => []ResetsBounded
  <1>1. Init => UnmailedInv /\ CountInv
    <2> SUFFICES ASSUME Init, NEW t \in Tokens PROVE UnmailedInv /\ CountOK(t)
      BY DEF CountInv, Init, UnmailedInv, Forgetting
    <2>1. UnmailedInv
      BY DEF Init, UnmailedInv, Forgetting
    <2>2. Coming(t) = {} /\ Leaving(t) = {} /\ used[t] = 0 /\ faults = 0
      BY DEF Init, Coming, Leaving
    <2>3. Cardinality(Requests) \in Nat /\ Cardinality({}) = 0
      BY FiniteAssumption, FS_CardinalityType, FS_EmptySet
    <2> QED
      BY <2>1, <2>2, <2>3 DEF CountOK
  <1>2. TypeInv /\ CountInv => ResetsBounded
    <2> SUFFICES ASSUME TypeInv, CountInv, NEW t \in Tokens
                 PROVE  used[t] <= Cardinality(Requests) + faults
      BY DEF ResetsBounded
    <2>1. Coming(t) \in SUBSET Requests
      BY DEF Coming
    <2>2. Cardinality(Coming(t)) \in Nat /\ Cardinality(Requests) \in Nat
      BY <2>1, FiniteAssumption, FS_Subset, FS_CardinalityType
    <2> QED
      BY <2>2 DEF CountInv, CountOK, TypeInv, TypeOK
  <1>3. TypeInv /\ UnmailedInv /\ CountInv /\ [Next]_vars => TypeInv' /\ UnmailedInv' /\ CountInv'
    BY TypeStep, UnmailedStep, CountStep
  <1> QED
    BY <1>1, <1>2, <1>3, InitType, PTL DEF Spec
=============================================================================
