------------------------------ MODULE Sessions ------------------------------
(***************************************************************************)
(* Signing in and out: getLoginOTP, signIn2Factor, signIn,                 *)
(* refreshAccessToken and logout in src/src/auth/auth.service.ts, with the *)
(* login codes of src/src/otp/otp.service.ts.                              *)
(*                                                                         *)
(* A handler is a chain of actions, one per awaited call that matters; a   *)
(* refusal at the first call has no action.  The credentials given are the *)
(* right ones: others are refused.  A refresh token is the signature of    *)
(* the user's address and role and of the second it was made in, so two    *)
(* sign-ins of one user in one second make the same token.  The session    *)
(* keys the code writes beside the refresh keys are read by nothing and    *)
(* left out.                                                               *)
(***************************************************************************)
EXTENDS Naturals, FiniteSets

CONSTANTS Users,
          Admins,      \* those whose role is ADMIN or SUPER_ADMIN
          Requests,
          Codes,       \* login codes: a secret and an OTP (a bound)
          Nobody,      \* no user: the slot is idle
          Nothing,     \* no code and no token
          MaxTime,     \* bound on the clock, in seconds
          MaxSignIns,  \* bound on the number of sign-ins
          MaxFaults    \* bound on failed calls and crashes

ASSUME FiniteAssumption == IsFiniteSet(Requests) /\ Requests # {}

ASSUME BoundAssumption == MaxTime \in Nat

ASSUME UserAssumption == Admins \subseteq Users /\ Nobody \notin Users

RefreshTokens == [user : Users, second : Nat]

ASSUME NullAssumption == Nothing \notin RefreshTokens \cup Codes

VARIABLES now,        \* the clock, in seconds
          stored,     \* Redis: login codes that are live
          active,     \* Redis: refresh tokens whose key says 'active'
          mailed,     \* login codes mailed
          granted,    \* refresh tokens some client was answered
          pc,         \* slot -> next call
          who,        \* slot -> the user
          item,       \* slot -> the code or token it is about
          made,       \* codes made so far: none is made again
          logins,     \* history: sign-ins per code
          signs,      \* history: sign-ins that made this token
          deleted,    \* history: tokens whose key a logout deleted
          loggedOut,  \* history: tokens whose logout was answered
          late,       \* history: refreshes of a deleted token, made once
          started,    \* history: sign-ins begun so far
          faults      \* history: failed calls and crashes so far

redis == <<stored, active>>
request == <<pc, who, item>>
tokenHistory == <<signs, deleted, loggedOut, late>>
vars == <<now, stored, active, mailed, granted, pc, who, item, made, logins,
          signs, deleted, loggedOut, late, started, faults>>

-----------------------------------------------------------------------------
Steps == {"idle", "code_set", "code_mail", "code_get", "code_delete", "sign",
          "refresh_set", "token_get", "token_answer", "token_delete"}

Items == RefreshTokens \cup Codes \cup {Nothing}

TypeOK ==
    /\ now \in Nat
    /\ stored \subseteq Codes /\ mailed \subseteq Codes /\ made \subseteq Codes
    /\ active \subseteq RefreshTokens /\ granted \subseteq RefreshTokens
    /\ pc \in [Requests -> Steps]
    /\ who \in [Requests -> Users \cup {Nobody}]
    /\ item \in [Requests -> Items]
    /\ logins \in [Codes -> Nat]
    /\ signs \in [[user : Users, second : 0..MaxTime] -> Nat]
    /\ deleted \subseteq RefreshTokens /\ loggedOut \subseteq RefreshTokens
    /\ late \in [[user : Users, second : 0..MaxTime] -> Nat]
    /\ started \in Nat /\ faults \in Nat

Goto(r, step) == pc' = [pc EXCEPT ![r] = step]

Begin(r, step, u, x) ==
    /\ pc[r] = "idle"
    /\ Goto(r, step)
    /\ who' = [who EXCEPT ![r] = u]
    /\ item' = [item EXCEPT ![r] = x]

Done(r) == /\ Goto(r, "idle")
           /\ who' = [who EXCEPT ![r] = Nobody]
           /\ item' = [item EXCEPT ![r] = Nothing]

\* A sign-in starts, of the MaxSignIns there may be.
CountSignIn ==
    /\ started < MaxSignIns
    /\ started' = started + 1

-----------------------------------------------------------------------------
(* getLoginOTP, for administrators: a code is stored for six minutes (SET    *)
(* and EXPIRE, told apart in Attendance), then mailed.                        *)

GetLoginOTP(r, u) ==
    /\ u \in Admins
    /\ \E c \in Codes \ made :
          /\ made' = made \cup {c}
          /\ Begin(r, "code_set", u, c)
    /\ UNCHANGED <<now, redis, mailed, granted, logins, tokenHistory, started, faults>>

GenerateOtp(r) ==
    /\ pc[r] = "code_set"
    /\ stored' = stored \cup {item[r]}
    /\ Goto(r, "code_mail")
    /\ UNCHANGED <<now, active, mailed, granted, who, item, made, logins, tokenHistory,
                   started, faults>>

MailCode(r) ==
    /\ pc[r] = "code_mail"
    /\ mailed' = mailed \cup {item[r]}
    /\ Done(r)
    /\ UNCHANGED <<now, redis, granted, made, logins, tokenHistory, started, faults>>

(* signIn2Factor: validateOtp reads the code, then deletes it. *)

SignIn2Factor(r, u, c) ==
    /\ CountSignIn
    /\ u \in Admins
    /\ c \in mailed
    /\ Begin(r, "code_get", u, c)
    /\ UNCHANGED <<now, redis, mailed, granted, made, logins, tokenHistory, faults>>

CodeGet(r) ==
    /\ pc[r] = "code_get"
    /\ \/ /\ item[r] \in stored
          /\ Goto(r, "code_delete")
          /\ UNCHANGED <<who, item>>
       \/ /\ item[r] \notin stored
          /\ Done(r)
    /\ UNCHANGED <<now, redis, mailed, granted, made, logins, tokenHistory, started, faults>>

\* Mutant: the code is left to its time to live.
CodeDeleteForgotten(r) ==
    /\ pc[r] = "code_delete"
    /\ logins' = [logins EXCEPT ![item[r]] = @ + 1]
    /\ item' = [item EXCEPT ![r] = Nothing]
    /\ Goto(r, "sign")
    /\ UNCHANGED <<now, redis, mailed, granted, who, made, tokenHistory, started, faults>>

CodeDelete(r) ==
    /\ pc[r] = "code_delete"
    /\ stored' = stored \ {item[r]}
    /\ logins' = [logins EXCEPT ![item[r]] = @ + 1]
    /\ item' = [item EXCEPT ![r] = Nothing]
    /\ Goto(r, "sign")
    /\ UNCHANGED <<now, active, mailed, granted, who, made, tokenHistory, started, faults>>

(* signIn, for everybody else, and the end both share. *)

SignIn(r, u) ==
    /\ CountSignIn
    /\ u \notin Admins
    /\ Begin(r, "sign", u, Nothing)
    /\ UNCHANGED <<now, redis, mailed, granted, made, logins, tokenHistory, faults>>

SignTokens(r) ==
    /\ pc[r] = "sign"
    /\ LET tk == [user |-> who[r], second |-> now]
       IN  /\ item' = [item EXCEPT ![r] = tk]
           /\ signs' = [signs EXCEPT ![tk] = @ + 1]
    /\ Goto(r, "refresh_set")
    /\ UNCHANGED <<now, redis, mailed, granted, who, made, logins, deleted, loggedOut,
                   late, started, faults>>

\* Mutant: the key is the user's, not the token's.
RefreshSetByUser(r) ==
    /\ pc[r] = "refresh_set"
    /\ active' = active \cup {who[r]}
    /\ granted' = granted \cup {item[r]}
    /\ Done(r)
    /\ UNCHANGED <<now, stored, mailed, made, logins, tokenHistory, started, faults>>

RefreshSet(r) ==
    /\ pc[r] = "refresh_set"
    /\ active' = active \cup {item[r]}
    /\ granted' = granted \cup {item[r]}
    /\ Done(r)
    /\ UNCHANGED <<now, stored, mailed, made, logins, tokenHistory, started, faults>>

-----------------------------------------------------------------------------
(* refreshAccessToken *)

RefreshAccessToken(r, tk) ==
    /\ tk \in granted
    /\ Begin(r, "token_get", tk.user, tk)
    /\ UNCHANGED <<now, redis, mailed, granted, made, logins, tokenHistory, started, faults>>

\* Mutant: a signature that verifies is enough.
TokenGetUnchecked(r) ==
    /\ pc[r] = "token_get"
    /\ Goto(r, "token_answer")
    /\ UNCHANGED <<now, redis, mailed, granted, who, item, made, logins, tokenHistory,
                   started, faults>>

TokenGet(r) ==
    /\ pc[r] = "token_get"
    /\ \/ /\ item[r] \in active
          /\ Goto(r, "token_answer")
          /\ UNCHANGED <<who, item>>
       \/ /\ item[r] \notin active
          /\ Done(r)
    /\ UNCHANGED <<now, redis, mailed, granted, made, logins, tokenHistory, started, faults>>

TokenAnswer(r) ==
    /\ pc[r] = "token_answer"
    /\ late' = [late EXCEPT ![item[r]] =
                   IF item[r] \in deleted /\ signs[item[r]] < 2 THEN @ + 1 ELSE @]
    /\ Done(r)
    /\ UNCHANGED <<now, redis, mailed, granted, made, logins, signs, deleted, loggedOut,
                   started, faults>>

(* logout *)

Logout(r, tk) ==
    /\ tk \in granted
    /\ Begin(r, "token_delete", tk.user, tk)
    /\ UNCHANGED <<now, redis, mailed, granted, made, logins, tokenHistory, started, faults>>

\* Mutant: the session's key is deleted in the place of the refresh token's.
TokenDeleteMisnamed(r) ==
    /\ pc[r] = "token_delete"
    /\ loggedOut' = loggedOut \cup {item[r]}
    /\ Done(r)
    /\ UNCHANGED <<now, redis, mailed, granted, made, logins, signs, deleted, late, started,
                   faults>>

TokenDelete(r) ==
    /\ pc[r] = "token_delete"
    /\ active' = active \ {item[r]}
    /\ deleted' = deleted \cup {item[r]}
    /\ loggedOut' = loggedOut \cup {item[r]}
    /\ Done(r)
    /\ UNCHANGED <<now, stored, mailed, granted, made, logins, signs, late, started, faults>>

-----------------------------------------------------------------------------
(* Time and failures *)

Tick ==
    /\ now < MaxTime
    /\ now' = now + 1
    /\ UNCHANGED <<redis, mailed, granted, request, made, logins, tokenHistory, started, faults>>

ExpireCode(c) ==
    /\ c \in stored
    /\ stored' = stored \ {c}
    /\ UNCHANGED <<now, active, mailed, granted, request, made, logins, tokenHistory,
                   started, faults>>

Fault == /\ faults < MaxFaults
         /\ faults' = faults + 1

\* A database or mail call fails, or the process dies.
Abort(r) ==
    /\ Fault
    /\ pc[r] # "idle"
    /\ Done(r)
    /\ UNCHANGED <<now, redis, mailed, granted, made, logins, tokenHistory, started>>

\* A Redis call fails: CacheService swallows the error and the handler goes on,
\* a logout to its "Logged out successfully".
LoseCall(r) ==
    /\ Fault
    /\ \/ /\ pc[r] = "code_set"
          /\ Goto(r, "code_mail")
          /\ UNCHANGED <<who, item, granted, logins, loggedOut>>
       \/ /\ pc[r] = "code_delete"
          /\ Goto(r, "sign")
          /\ logins' = [logins EXCEPT ![item[r]] = @ + 1]
          /\ item' = [item EXCEPT ![r] = Nothing]
          /\ UNCHANGED <<who, granted, loggedOut>>
       \/ /\ pc[r] = "refresh_set"
          /\ granted' = granted \cup {item[r]}
          /\ Done(r)
          /\ UNCHANGED <<logins, loggedOut>>
       \/ /\ pc[r] = "token_delete"
          /\ loggedOut' = loggedOut \cup {item[r]}
          /\ Done(r)
          /\ UNCHANGED <<granted, logins>>
    /\ UNCHANGED <<now, redis, mailed, made, signs, deleted, late, started>>

-----------------------------------------------------------------------------
Init ==
    /\ now = 0
    /\ stored = {} /\ active = {} /\ mailed = {} /\ granted = {}
    /\ pc = [r \in Requests |-> "idle"]
    /\ who = [r \in Requests |-> Nobody]
    /\ item = [r \in Requests |-> Nothing]
    /\ made = {}
    /\ logins = [c \in Codes |-> 0]
    /\ signs = [tk \in [user : Users, second : 0..MaxTime] |-> 0]
    /\ deleted = {} /\ loggedOut = {}
    /\ late = [tk \in [user : Users, second : 0..MaxTime] |-> 0]
    /\ started = 0 /\ faults = 0

Arrive(r) ==
    \/ \E u \in Users : \/ GetLoginOTP(r, u) \/ SignIn(r, u)
                        \/ \E c \in Codes : SignIn2Factor(r, u, c)
    \/ \E tk \in granted : RefreshAccessToken(r, tk) \/ Logout(r, tk)

Proceed(r) ==
    \/ GenerateOtp(r) \/ MailCode(r)
    \/ CodeGet(r) \/ CodeDelete(r) \/ SignTokens(r) \/ RefreshSet(r)
    \/ TokenGet(r) \/ TokenAnswer(r) \/ TokenDelete(r)

Next ==
    \/ \E r \in Requests : Arrive(r) \/ Proceed(r) \/ Abort(r) \/ LoseCall(r)
    \/ \E c \in Codes : ExpireCode(c)
    \/ Tick

Spec == Init /\ [][Next]_vars

-----------------------------------------------------------------------------
(* Properties *)

\* CodeLoginsBounded: validateOtp reads a code and then deletes it, so one code
\* may sign in several requests, but only those that read it before the first
\* of them deleted it, and once more for each failure.
CodeLoginsBounded == \A c \in Codes : logins[c] <= Cardinality(Requests) + faults

\* RevokedSoon: after a logout deleted a token, access tokens are still made
\* from it only by the refreshes that had read it, one each; unless the same
\* token was signed twice and its key is written again.
RevokedSoon ==
    \A tk \in DOMAIN signs : signs[tk] < 2 => late[tk] < Cardinality(Requests)

\* LogoutHolds: a token whose logout was answered stays dead, unless a Redis
\* call failed or a second sign-in in the same second made the same token.
LogoutHolds ==
    \A tk \in loggedOut \cap active : signs[tk] > 1 \/ faults > 0
=============================================================================
