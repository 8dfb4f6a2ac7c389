------------------------------ MODULE Accounts ------------------------------
(***************************************************************************)
(* User accounts: sign-up, confirmation and password reset in              *)
(* src/src/auth/auth.service.ts, the repository under it, and              *)
(* verifyStudent in src/src/admin/admin.service.ts.                        *)
(*                                                                         *)
(* As in Attendance, a handler is a chain of actions, one per awaited      *)
(* call, a slot is a running handler, and a refusal at the first call has  *)
(* no action.  Every writer reads the whole row and saves the whole copy:  *)
(* TypeORM writes each column in which the copy differs from the row.  The *)
(* column accountStatus, which only the analytics read, is left out.       *)
(***************************************************************************)
EXTENDS Naturals, FiniteSets

CONSTANTS Users,        \* e-mail addresses; a row is known by its address
          Requests,
          Tokens,       \* reset tokens (a bound)
          NoRow,        \* no row under this address; no copy held
          NoToken,      \* no reset key; no token
          Nobody,       \* the slot is idle
          MaxFaults     \* bound on failed calls and crashes

ASSUME FiniteAssumption == IsFiniteSet(Requests)

ASSUME NullAssumption ==
    /\ NoRow \notin [password : 0..1, verified : BOOLEAN]
    /\ NoToken \notin [token : Tokens, ttl : BOOLEAN] \cup Tokens
    /\ Nobody \notin Users

VARIABLES users,      \* the table: address -> row or NoRow
          links,      \* Redis: reset-password:<userId> -> token or NoToken
          invited,    \* addresses a confirmation link was mailed to
          mailed,     \* reset tokens that were mailed
          pc,         \* slot -> next call
          who,        \* slot -> the account it works on
          copy,       \* slot -> the row it has read and will save
          held,       \* slot -> the reset token it was given, or has made
          used,       \* history: resets done, per token
          latest,     \* history: the token last stored, per user
          owner,      \* whom a token was made for, as its mail says, or Nobody
          expired,    \* history: tokens that Redis dropped in time
          overtaken,  \* history: tokens stored while a reset was running
          undated,    \* history: tokens whose EXPIRE was lost
          confirmed,  \* history: addresses whose confirmation was saved
          chosen,     \* history: password last saved by a reset, per user
          overlap,    \* history: users of whose row two copies were held at once
          faults      \* history: failed calls and crashes so far

redis == <<links, mailed>>
request == <<pc, who, copy, held>>
tokenHistory == <<used, latest, owner, expired, overtaken, undated>>
rowHistory == <<confirmed, chosen, overlap>>
vars == <<users, links, invited, mailed, pc, who, copy, held, used, latest,
          owner, expired, overtaken, undated, confirmed, chosen, overlap, faults>>

-----------------------------------------------------------------------------
Row == [password : 0..1, verified : BOOLEAN]
Link == [token : Tokens, ttl : BOOLEAN]

Steps == {"idle", "register", "invite", "confirm_find", "confirm_save", "welcome",
          "forgot_set", "forgot_expire", "forgot_mail",
          "reset_find", "reset_save", "reset_delete", "verify_save"}

TypeOK ==
    /\ users \in [Users -> Row \cup {NoRow}]
    /\ links \in [Users -> Link \cup {NoToken}]
    /\ invited \subseteq Users
    /\ mailed \subseteq Tokens
    /\ pc \in [Requests -> Steps]
    /\ who \in [Requests -> Users \cup {Nobody}]
    /\ copy \in [Requests -> Row \cup {NoRow}]
    /\ held \in [Requests -> Tokens \cup {NoToken}]
    /\ used \in [Tokens -> Nat]
    /\ latest \in [Users -> Tokens \cup {NoToken}]
    /\ owner \in [Tokens -> Users \cup {Nobody}]
    /\ expired \subseteq Tokens /\ overtaken \subseteq Tokens /\ undated \subseteq Tokens
    /\ confirmed \subseteq Users /\ overlap \subseteq Users
    /\ chosen \in [Users -> 0..1]
    /\ faults \in Nat

Registered(u) == users[u] # NoRow
Holds(u, t) == links[u] # NoToken /\ links[u].token = t

Goto(r, step) == pc' = [pc EXCEPT ![r] = step]

Begin(r, step, u) ==
    /\ pc[r] = "idle"
    /\ Goto(r, step)
    /\ who' = [who EXCEPT ![r] = u]

Done(r) == /\ Goto(r, "idle")
           /\ who' = [who EXCEPT ![r] = Nobody]
           /\ copy' = [copy EXCEPT ![r] = NoRow]
           /\ held' = [held EXCEPT ![r] = NoToken]

\* The slot reads the row of u, to save it later.
Read(r, u) ==
    /\ copy' = [copy EXCEPT ![r] = users[u]]
    /\ overlap' = overlap \cup
          {v \in {u} : \E s \in Requests \ {r} : who[s] = u /\ copy[s] # NoRow}

\* The slot saves its copy with some columns set, and lets go of it.
Save(r, row) ==
    /\ users' = [users EXCEPT ![who[r]] = row]
    /\ copy' = [copy EXCEPT ![r] = NoRow]

-----------------------------------------------------------------------------
(* signUp and registerAccount.  The check for an account compares the       *)
(* address as typed with the lower-case one stored, so it may miss a row;    *)
(* the unique column refuses the insert.                                     *)

SignUp(r, u) ==
    /\ Begin(r, "register", u)
    /\ UNCHANGED <<users, redis, invited, copy, held, tokenHistory, rowHistory, faults>>

Register(r) ==
    /\ pc[r] = "register"
    /\ \/ /\ ~ Registered(who[r])
          /\ users' = [users EXCEPT ![who[r]] = [password |-> 0, verified |-> FALSE]]
          /\ Goto(r, "invite")
          /\ UNCHANGED <<who, copy, held>>
       \/ /\ Registered(who[r])
          /\ Done(r)
          /\ UNCHANGED users
    /\ UNCHANGED <<redis, invited, tokenHistory, rowHistory, faults>>

\* sendConfirmationEmail
Invite(r) ==
    /\ pc[r] = "invite"
    /\ invited' = invited \cup {who[r]}
    /\ Done(r)
    /\ UNCHANGED <<users, redis, tokenHistory, rowHistory, faults>>

(* resendVerificationEmail *)

ResendVerificationEmail(r, u) ==
    /\ Registered(u) /\ ~ users[u].verified
    /\ Begin(r, "invite", u)
    /\ UNCHANGED <<users, redis, invited, copy, held, tokenHistory, rowHistory, faults>>

(* confirmAccount: the check reads the row, the repository reads it again. *)

ConfirmAccount(r, u) ==
    /\ u \in invited /\ ~ users[u].verified
    /\ Begin(r, "confirm_find", u)
    /\ UNCHANGED <<users, redis, invited, copy, held, tokenHistory, rowHistory, faults>>

ConfirmFind(r) ==
    /\ pc[r] = "confirm_find"
    /\ Read(r, who[r])
    /\ Goto(r, "confirm_save")
    /\ UNCHANGED <<users, redis, invited, who, held, tokenHistory, confirmed, chosen,
                   faults>>

ConfirmSave(r) ==
    /\ pc[r] = "confirm_save"
    /\ Save(r, [copy[r] EXCEPT !.verified = TRUE])
    /\ confirmed' = confirmed \cup {who[r]}
    /\ Goto(r, "welcome")
    /\ UNCHANGED <<redis, invited, who, held, tokenHistory, chosen, overlap, faults>>

Welcome(r) ==
    /\ pc[r] = "welcome"
    /\ Done(r)
    /\ UNCHANGED <<users, redis, invited, tokenHistory, rowHistory, faults>>

-----------------------------------------------------------------------------
(* forgotPassword: a fresh token is stored with SET, then EXPIRE, and mailed. *)

ForgotPassword(r, u) ==
    /\ Registered(u)
    /\ pc[r] = "idle"
    /\ \E t \in Tokens :
          /\ owner[t] = Nobody
          /\ owner' = [owner EXCEPT ![t] = u]
          /\ held' = [held EXCEPT ![r] = t]
    /\ Begin(r, "forgot_set", u)
    /\ UNCHANGED <<users, redis, invited, copy, used, latest, expired, overtaken,
                   undated, rowHistory, faults>>

\* The slots past the check of a reset of u.
Resetting(u) == {r \in Requests : /\ pc[r] \in {"reset_find", "reset_save", "reset_delete"}
                                  /\ who[r] = u}

\* Mutant: the link holds the user in the place of the token.
ForgotSetSwapped(r) ==
    /\ pc[r] = "forgot_set"
    /\ links' = [links EXCEPT ![who[r]] = [token |-> who[r], ttl |-> FALSE]]
    /\ latest' = [latest EXCEPT ![who[r]] = held[r]]
    /\ overtaken' = overtaken \cup {t \in {held[r]} : Resetting(who[r]) # {}}
    /\ Goto(r, "forgot_expire")
    /\ UNCHANGED <<users, invited, mailed, who, copy, held, used, owner, expired,
                   undated, rowHistory, faults>>

ForgotSet(r) ==
    /\ pc[r] = "forgot_set"
    /\ links' = [links EXCEPT ![who[r]] = [token |-> held[r], ttl |-> FALSE]]
    /\ latest' = [latest EXCEPT ![who[r]] = held[r]]
    /\ overtaken' = overtaken \cup {t \in {held[r]} : Resetting(who[r]) # {}}
    /\ Goto(r, "forgot_expire")
    /\ UNCHANGED <<users, invited, mailed, who, copy, held, used, owner, expired,
                   undated, rowHistory, faults>>

\* Mutant: the key is stored without a time to live.
ForgotExpireForgotten(r) ==
    /\ pc[r] = "forgot_expire"
    /\ Goto(r, "forgot_mail")
    /\ UNCHANGED <<users, redis, invited, who, copy, held, tokenHistory, rowHistory, faults>>

ForgotExpire(r) ==
    /\ pc[r] = "forgot_expire"
    /\ links' = [links EXCEPT ![who[r]] =
                    IF @ = NoToken THEN @ ELSE [@ EXCEPT !.ttl = TRUE]]
    /\ Goto(r, "forgot_mail")
    /\ UNCHANGED <<users, invited, mailed, who, copy, held, tokenHistory, rowHistory, faults>>

ForgotMail(r) ==
    /\ pc[r] = "forgot_mail"
    /\ mailed' = mailed \cup {held[r]}
    /\ Done(r)
    /\ UNCHANGED <<users, links, invited, tokenHistory, rowHistory, faults>>

(* resetPassword: GET and compare, read the row, hash, save, DEL. *)

ResetPassword(r, t) ==
    /\ t \in mailed
    /\ Holds(owner[t], t)
    /\ Begin(r, "reset_find", owner[t])
    /\ held' = [held EXCEPT ![r] = t]
    /\ UNCHANGED <<users, redis, invited, copy, tokenHistory, rowHistory, faults>>

\* Mutant: the token is spent before the password is saved.
ResetFindSpending(r) ==
    /\ pc[r] = "reset_find"
    /\ Read(r, who[r])
    /\ links' = [links EXCEPT ![who[r]] = NoToken]
    /\ Goto(r, "reset_save")
    /\ UNCHANGED <<users, mailed, invited, who, held, tokenHistory, confirmed, chosen,
                   faults>>

ResetFind(r) ==
    /\ pc[r] = "reset_find"
    /\ Read(r, who[r])
    /\ Goto(r, "reset_save")
    /\ UNCHANGED <<users, redis, invited, who, held, tokenHistory, confirmed, chosen, faults>>

\* Mutant: a new entity with its defaults is saved under the user's id.
ResetSaveDefaults(r) ==
    /\ pc[r] = "reset_save"
    /\ Save(r, [password |-> 1 - chosen[who[r]], verified |-> FALSE])
    /\ chosen' = [chosen EXCEPT ![who[r]] = 1 - @]
    /\ used' = [used EXCEPT ![held[r]] = @ + 1]
    /\ Goto(r, "reset_delete")
    /\ UNCHANGED <<redis, invited, who, held, latest, owner, expired, overtaken,
                   undated, confirmed, overlap, faults>>

\* Passwords are told apart from the one chosen before.
ResetSave(r) ==
    /\ pc[r] = "reset_save"
    /\ Save(r, [copy[r] EXCEPT !.password = 1 - chosen[who[r]]])
    /\ chosen' = [chosen EXCEPT ![who[r]] = 1 - @]
    /\ used' = [used EXCEPT ![held[r]] = @ + 1]
    /\ Goto(r, "reset_delete")
    /\ UNCHANGED <<redis, invited, who, held, latest, owner, expired, overtaken,
                   undated, confirmed, overlap, faults>>

\* Mutant: the token is left to its time to live.
ResetDeleteForgotten(r) ==
    /\ pc[r] = "reset_delete"
    /\ Done(r)
    /\ UNCHANGED <<users, redis, invited, tokenHistory, rowHistory, faults>>

ResetDelete(r) ==
    /\ pc[r] = "reset_delete"
    /\ links' = [links EXCEPT ![who[r]] = NoToken]
    /\ Done(r)
    /\ UNCHANGED <<users, invited, mailed, tokenHistory, rowHistory, faults>>

ExpireLink(u) ==
    /\ links[u] # NoToken /\ links[u].ttl
    /\ expired' = expired \cup {links[u].token}
    /\ links' = [links EXCEPT ![u] = NoToken]
    /\ UNCHANGED <<users, invited, mailed, request, used, latest, owner, overtaken,
                   undated, rowHistory, faults>>

(* verifyStudent *)

VerifyStudent(r, u) ==
    /\ Registered(u)
    /\ Begin(r, "verify_save", u)
    /\ Read(r, u)
    /\ UNCHANGED <<users, redis, invited, held, tokenHistory, confirmed, chosen, faults>>

VerifySave(r) ==
    /\ pc[r] = "verify_save"
    /\ users' = [users EXCEPT ![who[r]] = copy[r]]
    /\ Done(r)
    /\ UNCHANGED <<redis, invited, tokenHistory, rowHistory, faults>>

-----------------------------------------------------------------------------
(* Failures *)

Fault == /\ faults < MaxFaults
         /\ faults' = faults + 1

\* The token slot r has just stored gets no time to live if its EXPIRE is lost.
LoseExpire(r) ==
    /\ undated' = undated \cup {t \in {held[r]} : pc[r] = "forgot_expire"}
    /\ UNCHANGED <<used, latest, owner, expired, overtaken>>

\* A database or mail call fails, or the process dies.
Abort(r) ==
    /\ Fault
    /\ pc[r] # "idle"
    /\ Done(r)
    /\ LoseExpire(r)
    /\ UNCHANGED <<users, redis, invited, rowHistory>>

\* A Redis call fails: CacheService swallows the error and the handler goes on.
LoseCall(r) ==
    /\ Fault
    /\ \/ /\ pc[r] \in {"forgot_set", "forgot_expire"}
          /\ Goto(r, "forgot_mail")
          /\ UNCHANGED <<who, copy, held>>
       \/ /\ pc[r] = "reset_delete"
          /\ Done(r)
    /\ LoseExpire(r)
    /\ UNCHANGED <<users, redis, invited, rowHistory>>

-----------------------------------------------------------------------------
Init ==
    /\ users = [u \in Users |-> NoRow]
    /\ links = [u \in Users |-> NoToken]
    /\ invited = {} /\ mailed = {}
    /\ pc = [r \in Requests |-> "idle"]
    /\ who = [r \in Requests |-> Nobody]
    /\ copy = [r \in Requests |-> NoRow]
    /\ held = [r \in Requests |-> NoToken]
    /\ used = [t \in Tokens |-> 0]
    /\ latest = [u \in Users |-> NoToken]
    /\ owner = [t \in Tokens |-> Nobody]
    /\ expired = {} /\ overtaken = {} /\ undated = {}
    /\ confirmed = {} /\ overlap = {}
    /\ chosen = [u \in Users |-> 0]
    /\ faults = 0

Arrive(r) ==
    \/ \E u \in Users :
          \/ SignUp(r, u) \/ ResendVerificationEmail(r, u) \/ ConfirmAccount(r, u)
          \/ ForgotPassword(r, u) \/ VerifyStudent(r, u)
    \/ \E t \in Tokens : ResetPassword(r, t)

Proceed(r) ==
    \/ Register(r) \/ Invite(r)
    \/ ConfirmFind(r) \/ ConfirmSave(r) \/ Welcome(r)
    \/ ForgotSet(r) \/ ForgotExpire(r) \/ ForgotMail(r)
    \/ ResetFind(r) \/ ResetSave(r) \/ ResetDelete(r)
    \/ VerifySave(r)

Next ==
    \/ \E r \in Requests : Arrive(r) \/ Proceed(r) \/ Abort(r) \/ LoseCall(r)
    \/ \E u \in Users : ExpireLink(u)

Spec == Init /\ [][Next]_vars

\* Started handlers run on, and Redis drops a key whose time has come.
FairSpec ==
    /\ Spec
    /\ \A r \in Requests : WF_vars(Proceed(r))
    /\ \A u \in Users : WF_vars(ExpireLink(u))

-----------------------------------------------------------------------------
(* Properties *)

\* ResetsBounded: resetPassword deletes the token last, so a link can reset
\* the password more than once, but only by the requests that compared it
\* before the first of them was through, and once more for each failure.
ResetsBounded == \A t \in Tokens : used[t] <= Cardinality(Requests) + faults

\* LatestLinkLives: the link stored last is good until it is used or its time
\* is over; only a reset that was running when it was stored may destroy it,
\* by deleting the key without looking whose token it holds.
LatestLinkLives ==
    \A u \in Users : latest[u] # NoToken =>
        \/ Holds(u, latest[u])
        \/ used[latest[u]] > 0
        \/ latest[u] \in expired \cup overtaken

\* RowKept: what confirmAccount and resetPassword saved is still in the row, so
\* long as no two handlers held copies of it at once.
RowKept ==
    \A u \in Users \ overlap : Registered(u) =>
        /\ u \in confirmed => users[u].verified
        /\ users[u].password = chosen[u]

\* LinksDie: a stored reset link goes away by itself, whatever fails or is stored
\* or deleted meanwhile; one link lives on only if the call that was to set its
\* own time to live, after it was stored, was lost or its process died before it.
LinksDie ==
    \A u \in Users, t \in Tokens : Holds(u, t) ~> (~ Holds(u, t) \/ t \in undated)
=============================================================================
