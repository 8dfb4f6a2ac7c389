--------------------------- MODULE SessionsProofs ---------------------------
(* Proofs about signing in and out, for every number of users, login codes,   *)
(* overlapping requests, sign-ins and failures.                               *)
EXTENDS Sessions, FiniteSetTheorems, TLAPS

-----------------------------------------------------------------------------
(* What a request has by each step *)

Mailing == {"code_set", "code_mail"}
Entering == {"code_get", "code_delete"}
OnToken == {"token_get", "token_answer", "token_delete"}

\* The tokens that can be signed by the end of time.
Signable == [user : Users, second : 0..MaxTime]

RequestOK(r) ==
    /\ pc[r] # "idle" => who[r] \in Users
    /\ pc[r] \in Mailing => item[r] \in made
    /\ pc[r] \in Entering => item[r] \in mailed
    /\ pc[r] = "refresh_set" => item[r] \in Signable /\ signs[item[r]] > 0
    /\ pc[r] \in OnToken => item[r] \in granted

RequestInv == \A r \in Requests : RequestOK(r)

\* Only codes made are mailed, only tokens signed are granted, and only tokens
\* granted are active or logged out.
BookInv ==
    /\ now \in 0..MaxTime
    /\ mailed \subseteq made
    /\ granted \subseteq Signable /\ \A tk \in granted : signs[tk] > 0
    /\ active \subseteq granted /\ deleted \subseteq granted /\ loggedOut \subseteq granted

TypeInv == TypeOK /\ RequestInv /\ BookInv

LocalsType ==
    /\ pc \in [Requests -> Steps]
    /\ who \in [Requests -> Users \cup {Nobody}]
    /\ item \in [Requests -> Items]

SameSlot(s) == pc'[s] = pc[s] /\ who'[s] = who[s] /\ item'[s] = item[s]

StepOf(r) == LocalsType' /\ \A s \in Requests \ {r} : SameSlot(s)

\* Codes are never unmade or unmailed, tokens never unsigned or taken back.
Lasting ==
    /\ made \subseteq made' /\ mailed \subseteq mailed' /\ granted \subseteq granted'
    /\ \A tk \in Signable : signs[tk] > 0 => signs'[tk] > 0

LEMMA SignableTokens == Signable \subseteq RefreshTokens
  BY DEF Signable, RefreshTokens

\* One more in one place of a table of counts.
LEMMA Increment ==
    ASSUME NEW S, NEW f \in [S -> Nat], NEW x \in S
    PROVE  /\ [f EXCEPT ![x] = @ + 1] \in [S -> Nat]
           /\ \A y \in S : [f EXCEPT ![x] = @ + 1][y] = IF y = x THEN f[y] + 1 ELSE f[y]
  OBVIOUS

LEMMA Keeps ==
    ASSUME TypeInv, NEW r \in Requests, StepOf(r), RequestOK(r)', Lasting, TypeOK', BookInv'
    PROVE  TypeInv'
  <1>1. ASSUME NEW s \in Requests \ {r} PROVE RequestOK(s)'
    BY <1>1 DEF TypeInv, RequestInv, RequestOK, StepOf, SameSlot, Lasting
  <1> QED
    BY <1>1 DEF TypeInv, RequestInv

LEMMA DoneStep ==
    ASSUME TypeInv, NEW r \in Requests, Done(r)
    PROVE  StepOf(r) /\ pc'[r] = "idle" /\ RequestOK(r)'
  <1>1. StepOf(r)
    BY DEF TypeInv, TypeOK, LocalsType, Done, Goto, Steps, Items, StepOf, SameSlot
  <1>2. pc'[r] = "idle"
    BY DEF TypeInv, TypeOK, Done, Goto
  <1> QED
    BY <1>1, <1>2 DEF RequestOK, Mailing, Entering, OnToken

LEMMA GotoStep ==
    ASSUME TypeInv, NEW r \in Requests, NEW step \in Steps, Goto(r, step),
           who' = who, item' = item
    PROVE  StepOf(r) /\ pc'[r] = step
  BY DEF TypeInv, TypeOK, LocalsType, Goto, StepOf, SameSlot

LEMMA BeginStep ==
    ASSUME TypeInv, NEW r \in Requests, NEW step \in Steps, NEW u \in Users,
           NEW x \in Items, Begin(r, step, u, x)
    PROVE  /\ StepOf(r) /\ pc[r] = "idle" /\ pc'[r] = step
           /\ who'[r] = u /\ item'[r] = x
  BY DEF TypeInv, TypeOK, LocalsType, Begin, Goto, StepOf, SameSlot

-----------------------------------------------------------------------------
(* Types *)

LEMMA ArriveType ==
    ASSUME TypeInv, NEW r \in Requests, Arrive(r)
    PROVE  /\ TypeInv' /\ StepOf(r) /\ pc[r] = "idle"
           /\ pc'[r] \in {"code_set", "code_get", "sign", "token_get", "token_delete"}
           /\ pc'[r] = "code_set" => item'[r] \notin made
           /\ UNCHANGED <<now, redis, mailed, granted, logins, tokenHistory, faults>>
  <1>1. /\ UNCHANGED <<now, redis, mailed, granted, logins, tokenHistory, faults>>
        /\ made \subseteq made' /\ made' \subseteq Codes /\ started' \in Nat
    BY DEF Arrive, GetLoginOTP, SignIn, SignIn2Factor, RefreshAccessToken, Logout,
       CountSignIn, TypeInv, TypeOK
  <1>2. /\ Codes \subseteq Items /\ Signable \subseteq Items /\ Nothing \in Items
        /\ {"code_set", "code_get", "sign", "token_get", "token_delete"} \subseteq Steps
    BY SignableTokens DEF Items, Steps
  <1>3. /\ StepOf(r) /\ RequestOK(r)' /\ pc[r] = "idle"
        /\ pc'[r] \in {"code_set", "code_get", "sign", "token_get", "token_delete"}
        /\ pc'[r] = "code_set" => item'[r] \notin made
    <2>1. ASSUME NEW u \in Users, GetLoginOTP(r, u) PROVE <1>3!:
      <3>1. PICK c \in Codes \ made : made' = made \cup {c} /\ Begin(r, "code_set", u, c)
        BY <2>1 DEF GetLoginOTP
      <3>2. /\ StepOf(r) /\ pc[r] = "idle" /\ pc'[r] = "code_set"
            /\ who'[r] = u /\ item'[r] = c
        BY <1>2, <3>1, BeginStep
      <3> QED
        BY <3>1, <3>2 DEF RequestOK, Mailing, Entering, OnToken
    <2>2. ASSUME NEW u \in Users, SignIn(r, u) PROVE <1>3!:
      <3>1. /\ StepOf(r) /\ pc[r] = "idle" /\ pc'[r] = "sign" /\ who'[r] = u
        BY <1>2, <2>2, BeginStep DEF SignIn
      <3> QED
        BY <3>1 DEF RequestOK, Mailing, Entering, OnToken
    <2>3. ASSUME NEW u \in Users, NEW c \in Codes, SignIn2Factor(r, u, c) PROVE <1>3!:
      <3>1. /\ StepOf(r) /\ pc[r] = "idle" /\ pc'[r] = "code_get" /\ who'[r] = u
            /\ item'[r] = c /\ c \in mailed
        BY <1>2, <2>3, BeginStep DEF SignIn2Factor
      <3> QED
        BY <1>1, <3>1 DEF RequestOK, Mailing, Entering, OnToken
    <2>4. ASSUME NEW tk \in granted, RefreshAccessToken(r, tk) \/ Logout(r, tk) PROVE <1>3!:
      <3>1. tk \in Items /\ tk.user \in Users
        BY <1>2 DEF TypeInv, BookInv, Signable
      <3>2. \/ Begin(r, "token_get", tk.user, tk)
            \/ Begin(r, "token_delete", tk.user, tk)
        BY <2>4 DEF RefreshAccessToken, Logout
      <3>3. /\ StepOf(r) /\ pc[r] = "idle" /\ pc'[r] \in {"token_get", "token_delete"}
            /\ who'[r] = tk.user /\ item'[r] = tk
        BY <1>2, <3>1, <3>2, BeginStep
      <3> QED
        BY <1>1, <3>1, <3>3 DEF RequestOK, Mailing, Entering, OnToken
    <2> QED
      BY <2>1, <2>2, <2>3, <2>4 DEF Arrive
  <1>4. TypeOK'
    BY <1>1, <1>3 DEF TypeInv, TypeOK, StepOf, LocalsType, redis, tokenHistory
  <1>5. BookInv' /\ Lasting
    BY <1>1 DEF TypeInv, BookInv, Lasting, redis, tokenHistory
  <1> QED
    BY <1>1, <1>3, <1>4, <1>5, Keeps

\* Steps that only write the code store, the counts and the times.
LEMMA LightStep ==
    ASSUME TypeInv, NEW r \in Requests, StepOf(r), RequestOK(r)',
           UNCHANGED <<now, mailed, granted, made, signs, deleted, loggedOut, started>>,
           stored' \subseteq Codes, active' \subseteq active,
           logins' \in [Codes -> Nat], late' \in [Signable -> Nat], faults' \in Nat
    PROVE  TypeInv'
  <1>1. TypeOK'
    BY DEF TypeInv, TypeOK, StepOf, LocalsType, Signable
  <1>2. BookInv' /\ Lasting
    BY DEF TypeInv, BookInv, Lasting
  <1> QED
    BY <1>1, <1>2, Keeps

LEMMA CodeType ==
    ASSUME TypeInv, NEW r \in Requests,
           GenerateOtp(r) \/ MailCode(r) \/ CodeGet(r) \/ CodeDelete(r)
    PROVE  TypeInv' /\ StepOf(r)
  <1>1. /\ who[r] \in Users /\ item[r] \in Codes /\ item[r] \in made
        /\ pc[r] \in Entering => item[r] \in mailed
    BY DEF GenerateOtp, MailCode, CodeGet, CodeDelete, TypeInv, TypeOK, RequestInv, RequestOK,
       BookInv, Mailing, Entering
  <1>2. late \in [Signable -> Nat] /\ logins \in [Codes -> Nat] /\ faults \in Nat
    BY DEF TypeInv, TypeOK, Signable
  <1>3. CASE GenerateOtp(r) \/ CodeGet(r)
    <2>1. /\ UNCHANGED <<now, mailed, granted, made, signs, deleted, loggedOut, started,
                         active, logins, late, faults>>
          /\ stored' \subseteq Codes
      BY <1>1, <1>3 DEF GenerateOtp, CodeGet, redis, tokenHistory, TypeInv, TypeOK
    <2>2. StepOf(r) /\ RequestOK(r)'
      <3>1. CASE Done(r)
        BY <3>1, DoneStep
      <3>2. CASE /\ UNCHANGED <<who, item>>
                 /\ \/ pc[r] = "code_set" /\ Goto(r, "code_mail")
                    \/ pc[r] = "code_get" /\ Goto(r, "code_delete")
        <4>1. "code_mail" \in Steps /\ "code_delete" \in Steps
          BY DEF Steps
        <4>2. /\ StepOf(r)
              /\ \/ pc[r] = "code_set" /\ pc'[r] = "code_mail"
                 \/ pc[r] = "code_get" /\ pc'[r] = "code_delete"
          BY <3>2, <4>1, GotoStep
        <4> QED
          BY <1>1, <2>1, <3>2, <4>2 DEF RequestOK, Mailing, Entering, OnToken
      <3> QED
        BY <1>3, <3>1, <3>2 DEF GenerateOtp, CodeGet
    <2> QED
      BY <1>2, <2>1, <2>2, LightStep
  <1>4. CASE MailCode(r)
    <2>1. /\ mailed' = mailed \cup {item[r]}
          /\ UNCHANGED <<now, redis, granted, made, logins, tokenHistory, started, faults>>
          /\ StepOf(r) /\ RequestOK(r)'
      BY <1>4, DoneStep DEF MailCode
    <2>2. TypeOK'
      BY <1>1, <2>1 DEF TypeInv, TypeOK, StepOf, LocalsType, redis, tokenHistory
    <2>3. BookInv' /\ Lasting
      BY <1>1, <2>1 DEF TypeInv, BookInv, Lasting, redis, tokenHistory
    <2> QED
      BY <2>1, <2>2, <2>3, Keeps
  <1>5. CASE CodeDelete(r)
    <2>1. /\ stored' = stored \ {item[r]} /\ logins' = [logins EXCEPT ![item[r]] = @ + 1]
          /\ UNCHANGED <<now, active, mailed, granted, who, made, tokenHistory, started,
                         faults>>
          /\ item' = [item EXCEPT ![r] = Nothing] /\ Goto(r, "sign")
      BY <1>5 DEF CodeDelete
    <2>2. "sign" \in Steps /\ Nothing \in Items
      BY DEF Steps, Items
    <2>3. StepOf(r) /\ pc'[r] = "sign" /\ who'[r] = who[r]
      BY <2>1, <2>2 DEF TypeInv, TypeOK, LocalsType, Goto, StepOf, SameSlot
    <2>4. RequestOK(r)'
      BY <1>1, <2>3 DEF RequestOK, Mailing, Entering, OnToken
    <2>5. stored' \subseteq Codes
      BY <2>1 DEF TypeInv, TypeOK
    <2>6. logins' \in [Codes -> Nat]
      BY <1>1, <1>2, <2>1, Increment
    <2> QED
      BY <1>2, <2>1, <2>3, <2>4, <2>5, <2>6, LightStep DEF tokenHistory
  <1> QED
    BY <1>3, <1>4, <1>5

LEMMA SignType ==
    ASSUME TypeInv, NEW r \in Requests, SignTokens(r)
    PROVE  /\ TypeInv' /\ StepOf(r) /\ pc'[r] = "refresh_set"
           /\ item'[r] \in Signable /\ item'[r] = [user |-> who[r], second |-> now]
           /\ signs' = [signs EXCEPT ![item'[r]] = @ + 1]
  <1>1. who[r] \in Users /\ now \in 0..MaxTime
    BY DEF SignTokens, TypeInv, RequestInv, RequestOK, BookInv
  <1>2. PICK tk \in Signable : tk = [user |-> who[r], second |-> now]
    BY <1>1 DEF Signable
  <1>3. /\ item' = [item EXCEPT ![r] = tk] /\ signs' = [signs EXCEPT ![tk] = @ + 1]
        /\ Goto(r, "refresh_set")
        /\ UNCHANGED <<now, redis, mailed, granted, who, made, logins, deleted, loggedOut,
                       late, started, faults>>
    BY <1>2 DEF SignTokens
  <1>4. "refresh_set" \in Steps /\ tk \in Items
    BY SignableTokens DEF Steps, Items
  <1>5. /\ StepOf(r) /\ pc'[r] = "refresh_set" /\ item'[r] = tk /\ who'[r] = who[r]
    BY <1>3, <1>4 DEF TypeInv, TypeOK, LocalsType, Goto, StepOf, SameSlot
  <1>6. /\ signs \in [Signable -> Nat] /\ signs' \in [Signable -> Nat] /\ signs'[tk] > 0
        /\ \A k \in Signable : signs[k] > 0 => signs'[k] > 0
    <2>1. signs \in [Signable -> Nat]
      BY DEF TypeInv, TypeOK, Signable
    <2>2. /\ signs' \in [Signable -> Nat]
          /\ \A k \in Signable : signs'[k] = IF k = tk THEN signs[k] + 1 ELSE signs[k]
      BY <1>3, <2>1, Increment
    <2> QED
      BY <2>1, <2>2
  <1>7. TypeOK'
    BY <1>3, <1>5, <1>6 DEF TypeInv, TypeOK, StepOf, LocalsType, Signable, redis
  <1>8. Lasting
    BY <1>3, <1>6 DEF Lasting
  <1>9. BookInv'
    BY <1>3, <1>6 DEF TypeInv, BookInv, redis
  <1>10. RequestOK(r)'
    BY <1>1, <1>5, <1>6 DEF RequestOK, Mailing, Entering, OnToken
  <1>11. TypeInv'
    BY <1>5, <1>7, <1>8, <1>9, <1>10, Keeps
  <1> QED
    BY <1>2, <1>3, <1>5, <1>11

\* The answer of a sign-in, with the refresh token's key or without it.
LEMMA GrantType ==
    ASSUME TypeInv, NEW r \in Requests, pc[r] = "refresh_set", Done(r),
           granted' = granted \cup {item[r]},
           active' = active \cup {item[r]} \/ active' = active,
           UNCHANGED <<now, stored, mailed, made, logins, tokenHistory, started>>,
           faults' \in Nat
    PROVE  TypeInv' /\ StepOf(r)
  <1>1. item[r] \in Signable /\ signs[item[r]] > 0 /\ item[r] \in RefreshTokens
    BY SignableTokens DEF TypeInv, RequestInv, RequestOK
  <1>2. StepOf(r) /\ RequestOK(r)'
    BY DoneStep
  <1>3. TypeOK'
    BY <1>1, <1>2 DEF TypeInv, TypeOK, StepOf, LocalsType, tokenHistory
  <1>4. BookInv' /\ Lasting
    BY <1>1 DEF TypeInv, BookInv, Lasting, tokenHistory
  <1> QED
    BY <1>2, <1>3, <1>4, Keeps

\* The answer of a logout, with the key deleted or not.
LEMMA LogoutType ==
    ASSUME TypeInv, NEW r \in Requests, pc[r] = "token_delete", Done(r),
           loggedOut' = loggedOut \cup {item[r]},
           \/ active' = active \ {item[r]} /\ deleted' = deleted \cup {item[r]}
           \/ UNCHANGED <<active, deleted>>,
           UNCHANGED <<now, stored, mailed, granted, made, logins, signs, late, started>>,
           faults' \in Nat
    PROVE  TypeInv' /\ StepOf(r)
  <1>1. item[r] \in granted /\ item[r] \in RefreshTokens
    BY SignableTokens DEF TypeInv, RequestInv, RequestOK, OnToken, BookInv
  <1>2. StepOf(r) /\ RequestOK(r)'
    BY DoneStep
  <1>3. TypeOK'
    BY <1>1, <1>2 DEF TypeInv, TypeOK, StepOf, LocalsType
  <1>4. BookInv' /\ Lasting
    BY <1>1 DEF TypeInv, BookInv, Lasting
  <1> QED
    BY <1>2, <1>3, <1>4, Keeps

LEMMA TokenType ==
    ASSUME TypeInv, NEW r \in Requests,
           RefreshSet(r) \/ TokenGet(r) \/ TokenAnswer(r) \/ TokenDelete(r)
    PROVE  TypeInv' /\ StepOf(r)
  <1>1. late \in [Signable -> Nat] /\ logins \in [Codes -> Nat] /\ faults \in Nat
        /\ stored \subseteq Codes
    BY DEF TypeInv, TypeOK, Signable
  <1>2. CASE RefreshSet(r)
    BY <1>1, <1>2, GrantType DEF RefreshSet
  <1>3. CASE TokenGet(r)
    <2>1. UNCHANGED <<now, redis, mailed, granted, made, logins, tokenHistory, started, faults>>
      BY <1>3 DEF TokenGet
    <2>2. StepOf(r) /\ RequestOK(r)'
      <3>1. CASE Done(r)
        BY <3>1, DoneStep
      <3>2. CASE Goto(r, "token_answer") /\ UNCHANGED <<who, item>>
        <4>1. StepOf(r) /\ pc'[r] = "token_answer" /\ pc[r] = "token_get"
          BY <1>3, <3>2, GotoStep DEF TokenGet, Steps
        <4> QED
          BY <2>1, <3>2, <4>1 DEF RequestOK, Mailing, Entering, OnToken, TypeInv, RequestInv
      <3> QED
        BY <1>3, <3>1, <3>2 DEF TokenGet
    <2> QED
      BY <1>1, <2>1, <2>2, LightStep DEF redis, tokenHistory
  <1>4. CASE TokenAnswer(r)
    <2>1. /\ StepOf(r) /\ RequestOK(r)'
          /\ late' = [late EXCEPT ![item[r]] =
                         IF item[r] \in deleted /\ signs[item[r]] < 2 THEN @ + 1 ELSE @]
          /\ UNCHANGED <<now, redis, mailed, granted, made, logins, signs, deleted, loggedOut,
                         started, faults>>
      BY <1>4, DoneStep DEF TokenAnswer
    <2>2. item[r] \in Signable
      BY <1>4 DEF TokenAnswer, TypeInv, RequestInv, RequestOK, OnToken, BookInv
    <2>3. late' = [late EXCEPT ![item[r]] = @ + 1] \/ late' = late
      BY <1>1, <2>1, <2>2
    <2>4. late' \in [Signable -> Nat]
      BY <1>1, <2>2, <2>3, Increment
    <2> QED
      BY <1>1, <2>1, <2>4, LightStep DEF redis
  <1>5. CASE TokenDelete(r)
    BY <1>1, <1>5, LogoutType DEF TokenDelete
  <1> QED
    BY <1>2, <1>3, <1>4, <1>5

LEMMA FaultType ==
    ASSUME TypeInv, NEW r \in Requests, Abort(r) \/ LoseCall(r)
    PROVE  TypeInv' /\ StepOf(r)
  <1>1. /\ faults' \in Nat /\ UNCHANGED <<now, redis, mailed, made, signs, deleted, late, started>>
        /\ stored \subseteq Codes /\ late \in [Signable -> Nat] /\ logins \in [Codes -> Nat]
    BY DEF Abort, LoseCall, Fault, tokenHistory, TypeInv, TypeOK, Signable
  <1>2. CASE Abort(r)
    <2>1. /\ StepOf(r) /\ RequestOK(r)' /\ UNCHANGED <<granted, logins, loggedOut>>
      BY <1>2, DoneStep DEF Abort, tokenHistory
    <2> QED
      BY <1>1, <2>1, LightStep DEF redis
  <1>3. CASE /\ pc[r] = "code_set" /\ Goto(r, "code_mail")
             /\ UNCHANGED <<who, item, granted, logins, loggedOut>>
    <2>1. StepOf(r) /\ pc'[r] = "code_mail"
      BY <1>3, GotoStep DEF Steps
    <2>2. RequestOK(r)'
      BY <1>1, <1>3, <2>1 DEF RequestOK, Mailing, Entering, OnToken, TypeInv, RequestInv
    <2> QED
      BY <1>1, <1>3, <2>1, <2>2, LightStep DEF redis
  <1>4. CASE /\ pc[r] = "code_delete" /\ Goto(r, "sign")
             /\ logins' = [logins EXCEPT ![item[r]] = @ + 1]
             /\ item' = [item EXCEPT ![r] = Nothing]
             /\ UNCHANGED <<who, granted, loggedOut>>
    <2>1. who[r] \in Users /\ item[r] \in Codes
      BY <1>4 DEF TypeInv, TypeOK, RequestInv, RequestOK, Entering
    <2>2. "sign" \in Steps /\ Nothing \in Items
      BY DEF Steps, Items
    <2>3. StepOf(r) /\ pc'[r] = "sign" /\ who'[r] = who[r]
      BY <1>4, <2>2 DEF TypeInv, TypeOK, LocalsType, Goto, StepOf, SameSlot
    <2>4. RequestOK(r)'
      BY <2>1, <2>3 DEF RequestOK, Mailing, Entering, OnToken
    <2>5. logins' \in [Codes -> Nat]
      BY <1>1, <1>4, <2>1, Increment
    <2> QED
      BY <1>1, <1>4, <2>3, <2>4, <2>5, LightStep DEF redis
  <1>5. CASE /\ pc[r] = "refresh_set" /\ Done(r) /\ granted' = granted \cup {item[r]}
             /\ UNCHANGED <<logins, loggedOut>>
    BY <1>1, <1>5, GrantType DEF redis, tokenHistory
  <1>6. CASE /\ pc[r] = "token_delete" /\ Done(r) /\ loggedOut' = loggedOut \cup {item[r]}
             /\ UNCHANGED <<granted, logins>>
    BY <1>1, <1>6, LogoutType DEF redis
  <1> QED
    BY <1>2, <1>3, <1>4, <1>5, <1>6 DEF LoseCall

LEMMA TypeStep == TypeInv /\ [Next]_vars => TypeInv'
  <1> SUFFICES ASSUME TypeInv, [Next]_vars PROVE TypeInv'
    OBVIOUS
  <1>1. CASE UNCHANGED vars
    BY <1>1 DEF vars, TypeInv, TypeOK, RequestInv, RequestOK, BookInv
  <1>2. ASSUME NEW c \in Codes, ExpireCode(c) PROVE TypeInv'
    BY <1>2 DEF ExpireCode, request, tokenHistory, TypeInv, TypeOK, RequestInv, RequestOK,
       BookInv
  <1>3. CASE Tick
    <2>1. now' \in 0..MaxTime
      BY <1>3, BoundAssumption DEF Tick, TypeInv, BookInv
    <2> QED
      BY <1>3, <2>1 DEF Tick, redis, request, tokenHistory, TypeInv, TypeOK, RequestInv,
         RequestOK, BookInv
  <1>4. ASSUME NEW r \in Requests, Arrive(r) \/ Proceed(r) \/ Abort(r) \/ LoseCall(r)
        PROVE  TypeInv'
    BY <1>4, ArriveType, CodeType, SignType, TokenType, FaultType DEF Proceed
  <1> QED
    BY <1>1, <1>2, <1>3, <1>4 DEF Next

LEMMA InitType == Init => TypeInv
  BY BoundAssumption DEF Init, TypeInv, TypeOK, RequestInv, RequestOK, BookInv, Steps, Items,
     Mailing, Entering, OnToken

\* TypeCorrect: every variable keeps its type: only codes that were made are
\* mailed, and only tokens that were signed are granted, active or logged out.
THEOREM TypeCorrect == Spec => []TypeOK
  <1>1. TypeInv => TypeOK
    BY DEF TypeInv
  <1> QED
    BY <1>1, InitType, TypeStep, PTL DEF Spec

-----------------------------------------------------------------------------
(* Logging out.  A token that was granted, or is about to be, was signed for   *)
(* that: another sign-in about to grant it has signed it once more.            *)

Granting(tk) == {r \in Requests : pc[r] = "refresh_set" /\ item[r] = tk}

SignedAgain(r) ==
    pc[r] = "refresh_set" =>
        \/ signs[item[r]] > 1
        \/ item[r] \notin granted /\ Granting(item[r]) = {r}

SignInv == \A r \in Requests : SignedAgain(r)

LogoutInv == SignInv /\ LogoutHolds

LEMMA SignElse ==
    ASSUME TypeInv, SignInv, NEW r \in Requests, StepOf(r), pc'[r] # "refresh_set",
           signs' = signs,
           \/ granted' = granted
           \/ pc[r] = "refresh_set" /\ granted' = granted \cup {item[r]}
    PROVE  SignInv'
  <1>1. ASSUME NEW s \in Requests \ {r}, pc'[s] = "refresh_set" PROVE SignedAgain(s)'
    <2>1. SameSlot(s) /\ SignedAgain(s) /\ pc[s] = "refresh_set"
      BY <1>1 DEF StepOf, SignInv, SameSlot
    <2>2. CASE signs[item[s]] > 1
      BY <2>1, <2>2 DEF SignedAgain, SameSlot
    <2>3. CASE item[s] \notin granted /\ Granting(item[s]) = {s}
      <3>1. item[s] \notin granted'
        BY <2>1, <2>3 DEF Granting
      <3>2. Granting(item[s])' = {s}
        BY <1>1, <2>1, <2>3 DEF Granting, StepOf, SameSlot
      <3> QED
        BY <2>1, <3>1, <3>2 DEF SignedAgain, SameSlot
    <2> QED
      BY <2>1, <2>2, <2>3 DEF SignedAgain
  <1> QED
    BY <1>1 DEF SignInv, SignedAgain

LEMMA SignStep == TypeInv /\ SignInv /\ [Next]_vars => SignInv'
  <1> SUFFICES ASSUME TypeInv, SignInv, [Next]_vars PROVE SignInv'
    OBVIOUS
  <1>1. CASE UNCHANGED vars
    BY <1>1 DEF vars, SignInv, SignedAgain, Granting
  <1>2. CASE Tick \/ \E c \in Codes : ExpireCode(c)
    BY <1>2 DEF Tick, ExpireCode, request, tokenHistory, SignInv, SignedAgain, Granting
  <1>3. ASSUME NEW r \in Requests, Arrive(r) PROVE SignInv'
    <2>1. StepOf(r) /\ pc'[r] # "refresh_set" /\ signs' = signs /\ granted' = granted
      BY <1>3, ArriveType DEF tokenHistory
    <2> QED
      BY <2>1, SignElse
  <1>4. ASSUME NEW r \in Requests,
               \/ GenerateOtp(r) \/ MailCode(r) \/ CodeGet(r) \/ CodeDelete(r)
               \/ TokenGet(r) \/ TokenAnswer(r) \/ TokenDelete(r) \/ RefreshSet(r)
               \/ Abort(r) \/ LoseCall(r)
        PROVE  SignInv'
    <2>1. StepOf(r)
      BY <1>4, CodeType, TokenType, FaultType
    <2>2. /\ signs' = signs
          /\ \/ granted' = granted
             \/ pc[r] = "refresh_set" /\ granted' = granted \cup {item[r]}
      <3>1. CASE GenerateOtp(r) \/ MailCode(r) \/ CodeGet(r) \/ CodeDelete(r)
        BY <3>1 DEF GenerateOtp, MailCode, CodeGet, CodeDelete, tokenHistory
      <3>2. CASE TokenGet(r) \/ TokenAnswer(r) \/ TokenDelete(r) \/ RefreshSet(r)
        BY <3>2 DEF TokenGet, TokenAnswer, TokenDelete, RefreshSet, tokenHistory
      <3>3. CASE Abort(r) \/ LoseCall(r)
        BY <3>3 DEF Abort, LoseCall, tokenHistory
      <3> QED
        BY <1>4, <3>1, <3>2, <3>3
    <2>3. pc'[r] # "refresh_set"
      BY <1>4 DEF GenerateOtp, MailCode, CodeGet, CodeDelete, TokenGet, TokenAnswer,
         TokenDelete, RefreshSet, Abort, LoseCall, Goto, Done, TypeInv, TypeOK
    <2> QED
      BY <2>1, <2>2, <2>3, SignElse
  <1>5. ASSUME NEW r \in Requests, SignTokens(r) PROVE SignInv'
    <2>1. PICK tk \in Signable :
             /\ StepOf(r) /\ pc'[r] = "refresh_set" /\ item'[r] = tk
             /\ signs' = [signs EXCEPT ![tk] = @ + 1]
      BY <1>5, SignType
    <2>2. /\ pc[r] = "sign" /\ granted' = granted /\ signs \in [Signable -> Nat]
      BY <1>5 DEF SignTokens, TypeInv, TypeOK, Signable
    <2>3. \A k \in Signable : signs'[k] = IF k = tk THEN signs[k] + 1 ELSE signs[k]
      BY <2>1, <2>2, Increment
    <2>4. SignedAgain(r)'
      <3>1. CASE signs[tk] > 0
        BY <2>1, <2>2, <2>3, <3>1 DEF SignedAgain
      <3>2. CASE signs[tk] = 0
        <4>1. tk \notin granted /\ Granting(tk) = {}
          BY <3>2 DEF Granting, TypeInv, BookInv, RequestInv, RequestOK
        <4>2. Granting(tk)' = {r}
          BY <2>1, <4>1 DEF Granting, StepOf, SameSlot
        <4> QED
          BY <2>1, <2>2, <4>1, <4>2 DEF SignedAgain
      <3> QED
        BY <2>2, <3>1, <3>2
    <2>5. ASSUME NEW s \in Requests \ {r}, pc'[s] = "refresh_set" PROVE SignedAgain(s)'
      <3>1. /\ SameSlot(s) /\ SignedAgain(s) /\ pc[s] = "refresh_set"
            /\ item[s] \in Signable /\ signs[item[s]] > 0
        BY <2>1, <2>5 DEF StepOf, SameSlot, SignInv, TypeInv, RequestInv, RequestOK
      <3>2. CASE item[s] = tk \/ signs[item[s]] > 1
        <4>1. signs'[item[s]] > 1
          BY <2>2, <2>3, <3>1, <3>2
        <4> QED
          BY <3>1, <4>1 DEF SignedAgain, SameSlot
      <3>3. CASE item[s] # tk /\ item[s] \notin granted /\ Granting(item[s]) = {s}
        <4>1. Granting(item[s])' = {s}
          BY <2>1, <2>5, <3>1, <3>3 DEF Granting, StepOf, SameSlot
        <4> QED
          BY <2>2, <3>1, <3>3, <4>1 DEF SignedAgain, SameSlot
      <3> QED
        BY <3>1, <3>2, <3>3 DEF SignedAgain
    <2> QED
      BY <2>4, <2>5 DEF SignInv, SignedAgain
  <1> QED
    BY <1>1, <1>2, <1>3, <1>4, <1>5 DEF Next, Proceed

LEMMA LogoutStep == TypeInv /\ LogoutInv /\ [Next]_vars => LogoutHolds'
  <1> SUFFICES ASSUME TypeInv, LogoutInv, [Next]_vars PROVE LogoutHolds'
    OBVIOUS
  <1>1. ASSUME UNCHANGED <<loggedOut, active, signs, faults>> PROVE LogoutHolds'
    BY <1>1 DEF LogoutInv, LogoutHolds
  <1>2. CASE UNCHANGED vars
    BY <1>1, <1>2 DEF vars
  <1>3. CASE Tick \/ \E c \in Codes : ExpireCode(c)
    BY <1>1, <1>3 DEF Tick, ExpireCode, redis, tokenHistory
  <1>4. ASSUME NEW r \in Requests, Arrive(r) PROVE LogoutHolds'
    BY <1>1, <1>4, ArriveType DEF redis, tokenHistory
  <1>5. ASSUME NEW r \in Requests,
               \/ GenerateOtp(r) \/ MailCode(r) \/ CodeGet(r) \/ CodeDelete(r)
               \/ TokenGet(r) \/ TokenAnswer(r)
        PROVE  LogoutHolds'
    BY <1>1, <1>5 DEF GenerateOtp, MailCode, CodeGet, CodeDelete, TokenGet, TokenAnswer,
       redis, tokenHistory
  <1>6. ASSUME NEW r \in Requests, SignTokens(r) PROVE LogoutHolds'
    <2>1. PICK tk \in Signable : signs' = [signs EXCEPT ![tk] = @ + 1]
      BY <1>6, SignType
    <2>2. signs \in [Signable -> Nat] /\ UNCHANGED <<loggedOut, active, faults>>
      BY <1>6 DEF SignTokens, TypeInv, TypeOK, Signable, redis
    <2>3. \A k \in Signable : signs[k] > 1 => signs'[k] > 1
      BY <2>1, <2>2, Increment
    <2>4. loggedOut \subseteq Signable
      BY DEF TypeInv, BookInv
    <2> QED
      BY <2>2, <2>3, <2>4 DEF LogoutInv, LogoutHolds
  <1>7. ASSUME NEW r \in Requests, RefreshSet(r) PROVE LogoutHolds'
    <2>1. /\ pc[r] = "refresh_set" /\ active' = active \cup {item[r]}
          /\ UNCHANGED <<loggedOut, signs, faults>>
      BY <1>7 DEF RefreshSet, tokenHistory
    <2>2. item[r] \in loggedOut => signs[item[r]] > 1
      BY <2>1 DEF LogoutInv, SignInv, SignedAgain, TypeInv, BookInv
    <2> QED
      BY <2>1, <2>2 DEF LogoutInv, LogoutHolds
  <1>8. ASSUME NEW r \in Requests, TokenDelete(r) PROVE LogoutHolds'
    <2>1. /\ active' = active \ {item[r]} /\ loggedOut' = loggedOut \cup {item[r]}
          /\ UNCHANGED <<signs, faults>>
      BY <1>8 DEF TokenDelete
    <2> QED
      BY <2>1 DEF LogoutInv, LogoutHolds
  <1>9. ASSUME NEW r \in Requests, Abort(r) \/ LoseCall(r) PROVE LogoutHolds'
    <2>1. faults' = faults + 1 /\ faults \in Nat
      BY <1>9 DEF Abort, LoseCall, Fault, TypeInv, TypeOK
    <2> QED
      BY <2>1 DEF LogoutHolds
  <1> QED
    BY <1>2, <1>3, <1>4, <1>5, <1>6, <1>7, <1>8, <1>9 DEF Next, Proceed

\* LogoutAlwaysHolds: a token whose logout was answered is not made active again,
\* but by a second sign-in of the same second; a failed call may leave it active.
THEOREM LogoutAlwaysHolds == Spec => []LogoutHolds
  <1>1. Init => LogoutInv
    BY DEF Init, LogoutInv, SignInv, SignedAgain, LogoutHolds
  <1>2. TypeInv /\ LogoutInv /\ [Next]_vars => TypeInv' /\ LogoutInv'
    BY TypeStep, SignStep, LogoutStep DEF LogoutInv
  <1>3. LogoutInv => LogoutHolds
    BY DEF LogoutInv
  <1> QED
    BY <1>1, <1>2, <1>3, InitType, PTL DEF Spec

-----------------------------------------------------------------------------
(* Counting the requests at a step *)

At(step, x) == {r \in Requests : pc[r] = step /\ item[r] = x}

\* What one request contributes to a count, before and after its step.
LEMMA Counts ==
    ASSUME NEW r \in Requests, StepOf(r), NEW step, NEW x
    PROVE  \E c \in Nat :
              /\ c + 1 <= Cardinality(Requests)
              /\ Cardinality(At(step, x)) = IF r \in At(step, x) THEN c + 1 ELSE c
              /\ Cardinality(At(step, x))' = IF r \in At(step, x)' THEN c + 1 ELSE c
  <1>1. PICK C \in SUBSET Requests : C = At(step, x) \ {r}
    BY DEF At
  <1>2. At(step, x)' \ {r} = C
    BY <1>1 DEF At, StepOf, SameSlot
  <1>3. IsFiniteSet(C) /\ Cardinality(C) \in Nat
    BY FiniteAssumption, FS_Subset, FS_CardinalityType
  <1>4. ASSUME NEW S, S \ {r} = C
        PROVE  Cardinality(S) = IF r \in S THEN Cardinality(C) + 1 ELSE Cardinality(C)
    <2>1. CASE r \in S
      <3>1. S = C \cup {r} /\ r \notin C
        BY <1>4, <2>1
      <3>2. Cardinality(C \cup {r}) = Cardinality(C) + 1
        BY <1>3, <3>1, FS_AddElement
      <3> QED
        BY <2>1, <3>1, <3>2
    <2>2. CASE r \notin S
      BY <1>4, <2>2
    <2> QED
      BY <2>1, <2>2
  <1>5. Cardinality(C) + 1 <= Cardinality(Requests)
    <2>1. r \notin C /\ C \cup {r} \in SUBSET Requests
      BY <1>1
    <2>2. Cardinality(C \cup {r}) = Cardinality(C) + 1
      BY <1>3, <2>1, FS_AddElement
    <2>3. Cardinality(C \cup {r}) <= Cardinality(Requests)
      BY <2>1, FiniteAssumption, FS_Subset
    <2> QED
      BY <2>2, <2>3
  <1>6. Cardinality(At(step, x)) = IF r \in At(step, x) THEN Cardinality(C) + 1
                                   ELSE Cardinality(C)
    BY <1>1, <1>4
  <1>7. Cardinality(At(step, x)') = IF r \in At(step, x)' THEN Cardinality(C) + 1
                                    ELSE Cardinality(C)
    BY <1>2, <1>4
  <1> QED
    BY <1>3, <1>5, <1>6, <1>7

LEMMA CountTypes ==
    ASSUME NEW step, NEW x
    PROVE  Cardinality(At(step, x)) \in Nat /\ Cardinality(Requests) \in Nat
  <1>1. At(step, x) \in SUBSET Requests
    BY DEF At
  <1> QED
    BY <1>1, FiniteAssumption, FS_Subset, FS_CardinalityType

-----------------------------------------------------------------------------
(* Revoked tokens.  While its second is its own, a deleted token is not active *)
(* again, and its refreshes, done or past the check, leave room for the logout *)
(* that deleted it.                                                            *)

LateOK(tk) ==
    signs[tk] < 2 =>
        /\ tk \notin deleted => late[tk] = 0
        /\ tk \in deleted => /\ tk \notin active
                             /\ late[tk] + Cardinality(At("token_answer", tk))
                                    < Cardinality(Requests)

LateInv == \A tk \in Signable : LateOK(tk)

\* Steps that move no request to or from the answer of a refresh.
LEMMA LateElse ==
    ASSUME TypeInv, LateInv, NEW r \in Requests, StepOf(r),
           pc[r] # "token_answer", pc'[r] # "token_answer",
           UNCHANGED <<late, deleted>>,
           \A tk \in Signable : signs'[tk] < 2 => signs[tk] < 2,
           \A tk \in deleted : signs'[tk] < 2 => tk \in active \/ tk \notin active'
    PROVE  LateInv'
  <1>1. ASSUME NEW tk \in Signable PROVE LateOK(tk)'
    <2>1. At("token_answer", tk)' = At("token_answer", tk)
      BY DEF At, StepOf, SameSlot
    <2> QED
      BY <2>1 DEF LateInv, LateOK
  <1> QED
    BY <1>1 DEF LateInv

LEMMA LateStep == TypeInv /\ SignInv /\ LateInv /\ [Next]_vars => LateInv'
  <1> SUFFICES ASSUME TypeInv, SignInv, LateInv, [Next]_vars PROVE LateInv'
    OBVIOUS
  <1>1. CASE UNCHANGED vars
    BY <1>1 DEF vars, LateInv, LateOK, At
  <1>2. CASE Tick \/ \E c \in Codes : ExpireCode(c)
    BY <1>2 DEF Tick, ExpireCode, redis, request, tokenHistory, LateInv, LateOK, At
  <1>3. ASSUME NEW r \in Requests, Arrive(r) PROVE LateInv'
    <2>1. /\ StepOf(r) /\ pc[r] # "token_answer" /\ pc'[r] # "token_answer"
          /\ UNCHANGED <<late, deleted, signs, active>>
      BY <1>3, ArriveType DEF redis, tokenHistory
    <2> QED
      BY <2>1, LateElse
  <1>4. ASSUME NEW r \in Requests,
               \/ GenerateOtp(r) \/ MailCode(r) \/ CodeGet(r) \/ CodeDelete(r)
        PROVE  LateInv'
    <2>1. /\ pc[r] # "token_answer" /\ pc'[r] # "token_answer"
          /\ UNCHANGED <<late, deleted, signs, active>>
      BY <1>4 DEF GenerateOtp, MailCode, CodeGet, CodeDelete, Goto, Done, redis, tokenHistory,
         TypeInv, TypeOK
    <2> QED
      BY <1>4, <2>1, CodeType, LateElse
  <1>5. ASSUME NEW r \in Requests, SignTokens(r) PROVE LateInv'
    <2>1. PICK tk \in Signable :
             /\ StepOf(r) /\ pc'[r] = "refresh_set" /\ signs' = [signs EXCEPT ![tk] = @ + 1]
      BY <1>5, SignType
    <2>2. /\ signs \in [Signable -> Nat] /\ pc[r] = "sign" /\ UNCHANGED <<late, deleted, active>>
      BY <1>5 DEF SignTokens, TypeInv, TypeOK, Signable, redis
    <2>3. \A k \in Signable : signs'[k] < 2 => signs[k] < 2
      BY <2>1, <2>2, Increment
    <2> QED
      BY <2>1, <2>2, <2>3, LateElse
  <1>6. ASSUME NEW r \in Requests, RefreshSet(r) PROVE LateInv'
    <2>1. /\ StepOf(r) /\ pc[r] = "refresh_set" /\ pc'[r] = "idle"
          /\ active' = active \cup {item[r]} /\ UNCHANGED <<late, deleted, signs>>
      BY <1>6, TokenType, DoneStep DEF RefreshSet, tokenHistory
    <2>2. item[r] \in deleted => ~ signs[item[r]] < 2
      <3>1. item[r] \in deleted => signs[item[r]] > 1 /\ signs[item[r]] \in Nat
        BY <2>1 DEF SignInv, SignedAgain, TypeInv, TypeOK, BookInv, Signable
      <3> QED
        BY <3>1
    <2> QED
      BY <2>1, <2>2, LateElse
  <1>7. ASSUME NEW r \in Requests, TokenGet(r) PROVE LateInv'
    <2>1. /\ StepOf(r) /\ pc[r] = "token_get" /\ UNCHANGED <<late, deleted, signs, active>>
          /\ pc'[r] = "token_answer" => item'[r] = item[r] /\ item[r] \in active
      BY <1>7, TokenType, DoneStep DEF TokenGet, Goto, TypeInv, TypeOK, redis, tokenHistory
    <2>2. ASSUME NEW tk \in Signable PROVE LateOK(tk)'
      <3>1. CASE tk \in deleted /\ signs[tk] < 2
        <4>1. r \notin At("token_answer", tk) /\ r \notin At("token_answer", tk)'
          BY <2>1, <3>1 DEF At, LateInv, LateOK
        <4>2. At("token_answer", tk)' = At("token_answer", tk)
          BY <2>1, <4>1 DEF At, StepOf, SameSlot
        <4> QED
          BY <2>1, <4>2 DEF LateInv, LateOK
      <3>2. CASE ~ (tk \in deleted /\ signs[tk] < 2)
        BY <2>1, <3>2 DEF LateInv, LateOK
      <3> QED
        BY <3>1, <3>2
    <2> QED
      BY <2>2 DEF LateInv
  <1>8. ASSUME NEW r \in Requests, TokenAnswer(r) PROVE LateInv'
    <2>1. /\ StepOf(r) /\ pc[r] = "token_answer" /\ pc'[r] = "idle"
          /\ item[r] \in Signable
          /\ UNCHANGED <<deleted, signs, active>>
      BY <1>8, TokenType, DoneStep DEF TokenAnswer, redis, TypeInv, RequestInv, RequestOK,
         OnToken, BookInv
    <2>2. /\ late \in [Signable -> Nat]
          /\ late' = [late EXCEPT ![item[r]] =
                         IF item[r] \in deleted /\ signs[item[r]] < 2 THEN @ + 1 ELSE @]
      BY <1>8 DEF TokenAnswer, TypeInv, TypeOK, Signable
    <2>3. ASSUME NEW tk \in Signable PROVE LateOK(tk)'
      <3>1. late'[tk] = IF tk = item[r] /\ tk \in deleted /\ signs[tk] < 2
                        THEN late[tk] + 1 ELSE late[tk]
        BY <2>1, <2>2
      <3>2. CASE tk \in deleted /\ signs[tk] < 2
        <4>1. /\ r \in At("token_answer", tk) <=> item[r] = tk
              /\ r \notin At("token_answer", tk)'
          BY <2>1 DEF At
        <4>2. PICK c \in Nat :
                 /\ Cardinality(At("token_answer", tk)) = IF item[r] = tk THEN c + 1 ELSE c
                 /\ Cardinality(At("token_answer", tk))' = c
          BY <2>1, <4>1, Counts
        <4>3. /\ late[tk] \in Nat /\ Cardinality(Requests) \in Nat /\ LateOK(tk)
          BY <2>2, CountTypes DEF LateInv
        <4> QED
          BY <2>1, <3>1, <3>2, <4>2, <4>3 DEF LateOK
      <3>3. CASE ~ (tk \in deleted /\ signs[tk] < 2)
        BY <2>1, <3>1, <3>3 DEF LateInv, LateOK
      <3> QED
        BY <3>2, <3>3
    <2> QED
      BY <2>3 DEF LateInv
  <1>9. ASSUME NEW r \in Requests, TokenDelete(r) PROVE LateInv'
    <2>1. /\ StepOf(r) /\ pc[r] = "token_delete" /\ pc'[r] = "idle"
          /\ active' = active \ {item[r]} /\ deleted' = deleted \cup {item[r]}
          /\ UNCHANGED <<late, signs>>
      BY <1>9, TokenType, DoneStep DEF TokenDelete
    <2>2. ASSUME NEW tk \in Signable PROVE LateOK(tk)'
      <3>1. r \notin At("token_answer", tk) /\ r \notin At("token_answer", tk)'
        BY <2>1 DEF At
      <3>2. PICK c \in Nat : /\ c + 1 <= Cardinality(Requests)
                             /\ Cardinality(At("token_answer", tk)) = c
                             /\ Cardinality(At("token_answer", tk))' = c
        BY <2>1, <3>1, Counts
      <3>3. Cardinality(Requests) \in Nat /\ LateOK(tk)
        BY CountTypes DEF LateInv
      <3> QED
        BY <2>1, <3>2, <3>3 DEF LateOK
    <2> QED
      BY <2>2 DEF LateInv
  <1>10. ASSUME NEW r \in Requests, Abort(r) \/ LoseCall(r) PROVE LateInv'
    <2>1. StepOf(r) /\ UNCHANGED <<late, deleted, signs, active>>
      BY <1>10, FaultType DEF Abort, LoseCall, redis, tokenHistory
    <2>2. pc'[r] # "token_answer"
      BY <1>10 DEF Abort, LoseCall, Goto, Done, TypeInv, TypeOK
    <2>3. ASSUME NEW tk \in Signable PROVE LateOK(tk)'
      <3>1. r \notin At("token_answer", tk)'
        BY <2>2 DEF At
      <3>2. PICK c \in Nat :
               /\ Cardinality(At("token_answer", tk)) =
                      IF r \in At("token_answer", tk) THEN c + 1 ELSE c
               /\ Cardinality(At("token_answer", tk))' = c
        BY <2>1, <3>1, Counts
      <3>3. /\ late[tk] \in Nat /\ Cardinality(Requests) \in Nat /\ LateOK(tk)
        BY CountTypes DEF LateInv, TypeInv, TypeOK, Signable
      <3> QED
        BY <2>1, <3>2, <3>3 DEF LateOK
    <2> QED
      BY <2>3 DEF LateInv
  <1> QED
    BY <1>1, <1>2, <1>3, <1>4, <1>5, <1>6, <1>7, <1>8, <1>9, <1>10 DEF Next, Proceed

\* AlwaysRevokedSoon: a deleted token, whose second is its own, is refreshed by
\* fewer requests than there can be under way with the logout.
THEOREM AlwaysRevokedSoon == Spec => []RevokedSoon
  <1>1. Init => SignInv /\ LateInv
    BY DEF Init, SignInv, SignedAgain, LateInv, LateOK, Signable
  <1>2. TypeInv /\ LateInv => RevokedSoon
    <2> SUFFICES ASSUME TypeInv, LateInv, NEW tk \in Signable, signs[tk] < 2
                 PROVE  late[tk] < Cardinality(Requests)
      BY DEF RevokedSoon, TypeInv, TypeOK, Signable
    <2>1. /\ late[tk] \in Nat /\ Cardinality(Requests) \in Nat /\ Cardinality(Requests) # 0
          /\ Cardinality(At("token_answer", tk)) \in Nat
      BY FiniteAssumption, FS_EmptySet, CountTypes DEF TypeInv, TypeOK, Signable
    <2> QED
      BY <2>1 DEF LateInv, LateOK
  <1>3. TypeInv /\ SignInv /\ LateInv /\ [Next]_vars => TypeInv' /\ SignInv' /\ LateInv'
    BY TypeStep, SignStep, LateStep
  <1> QED
    BY <1>1, <1>2, <1>3, InitType, PTL DEF Spec

-----------------------------------------------------------------------------
(* Login codes.  Until it is mailed only the request that made it has a code. *)
(* As long as it is stored, or may yet be, each login by it lost its DEL to a  *)
(* failure; those about to delete it read it while it was stored.              *)

UnmailedInv ==
    \A r \in Requests : pc[r] \in Mailing =>
        /\ item[r] \notin mailed
        /\ \A s \in Requests \ {r} : pc[s] \in Mailing => item[s] # item[r]

CanStore(c) ==
    \/ c \notin made
    \/ \E r \in Requests : pc[r] = "code_set" /\ item[r] = c
    \/ c \in stored

LoginOK(c) ==
    /\ logins[c] + Cardinality(At("code_delete", c)) <= Cardinality(Requests) + faults
    /\ CanStore(c) => logins[c] <= faults

LoginInv == \A c \in Codes : LoginOK(c)

LEMMA UnmailedStep == TypeInv /\ UnmailedInv /\ [Next]_vars => UnmailedInv'
  <1> SUFFICES ASSUME TypeInv, UnmailedInv, [Next]_vars PROVE UnmailedInv'
    OBVIOUS
  <1>1. CASE UNCHANGED vars
    BY <1>1 DEF vars, UnmailedInv
  <1>2. CASE Tick \/ \E c \in Codes : ExpireCode(c)
    BY <1>2 DEF Tick, ExpireCode, request, UnmailedInv
  <1>3. ASSUME NEW r \in Requests, Arrive(r) PROVE UnmailedInv'
    <2>1. /\ StepOf(r) /\ mailed' = mailed
          /\ pc'[r] \in Mailing => item'[r] \notin made
      BY <1>3, ArriveType DEF Mailing
    <2>2. \A s \in Requests : pc[s] \in Mailing => item[s] \in made
      BY DEF TypeInv, RequestInv, RequestOK
    <2>3. mailed \subseteq made
      BY DEF TypeInv, BookInv
    <2> QED
      BY <2>1, <2>2, <2>3 DEF UnmailedInv, StepOf, SameSlot
  <1>4. ASSUME NEW r \in Requests, MailCode(r) PROVE UnmailedInv'
    <2>1. /\ StepOf(r) /\ pc[r] \in Mailing /\ pc'[r] = "idle"
          /\ mailed' = mailed \cup {item[r]}
      BY <1>4, CodeType, DoneStep DEF MailCode, Mailing
    <2> QED
      BY <2>1 DEF UnmailedInv, StepOf, SameSlot, Mailing
  <1>5. ASSUME NEW r \in Requests, StepOf(r), mailed' = mailed,
               pc'[r] \in Mailing => pc[r] \in Mailing /\ item'[r] = item[r]
        PROVE  UnmailedInv'
    BY <1>5 DEF UnmailedInv, StepOf, SameSlot
  <1>6. ASSUME NEW r \in Requests, GenerateOtp(r) PROVE UnmailedInv'
    <2>1. StepOf(r) /\ mailed' = mailed /\ pc[r] \in Mailing /\ item' = item
      BY <1>6, CodeType DEF GenerateOtp, Mailing
    <2> QED
      BY <1>5, <2>1
  <1>7. ASSUME NEW r \in Requests, CodeGet(r) \/ CodeDelete(r) PROVE UnmailedInv'
    <2>1. StepOf(r) /\ mailed' = mailed /\ pc'[r] \notin Mailing
      BY <1>7, CodeType DEF CodeGet, CodeDelete, Goto, Done, Mailing, TypeInv, TypeOK
    <2> QED
      BY <1>5, <2>1
  <1>8. ASSUME NEW r \in Requests,
               SignTokens(r) \/ RefreshSet(r) \/ TokenGet(r) \/ TokenAnswer(r) \/ TokenDelete(r)
        PROVE  UnmailedInv'
    <2>1. mailed' = mailed /\ pc'[r] \notin Mailing
      BY <1>8 DEF SignTokens, RefreshSet, TokenGet, TokenAnswer, TokenDelete, Goto, Done,
         Mailing, TypeInv, TypeOK
    <2> QED
      BY <1>5, <1>8, <2>1, SignType, TokenType
  <1>9. ASSUME NEW r \in Requests, Abort(r) \/ LoseCall(r) PROVE UnmailedInv'
    <2>1. StepOf(r) /\ mailed' = mailed
      BY <1>9, FaultType DEF Abort, LoseCall
    <2>2. pc'[r] \in Mailing => pc[r] \in Mailing /\ item'[r] = item[r]
      BY <1>9 DEF Abort, LoseCall, Goto, Done, Mailing, TypeInv, TypeOK
    <2> QED
      BY <1>5, <2>1, <2>2
  <1> QED
    BY <1>1, <1>2, <1>3, <1>4, <1>6, <1>7, <1>8, <1>9 DEF Next, Proceed

\* Steps that move no request to or from the deletion of a code.
LEMMA LoginElse ==
    ASSUME TypeInv, LoginInv, NEW r \in Requests, StepOf(r),
           pc[r] # "code_delete", pc'[r] # "code_delete",
           logins' = logins, faults' \in Nat, faults <= faults',
           \A c \in Codes : CanStore(c)' => CanStore(c)
    PROVE  LoginInv'
  <1>1. ASSUME NEW c \in Codes PROVE LoginOK(c)'
    <2>1. At("code_delete", c)' = At("code_delete", c)
      BY DEF At, StepOf, SameSlot
    <2>2. /\ Cardinality(At("code_delete", c)) \in Nat /\ Cardinality(Requests) \in Nat
          /\ logins[c] \in Nat /\ faults \in Nat /\ LoginOK(c)
      BY CountTypes DEF TypeInv, TypeOK, LoginInv
    <2> QED
      BY <2>1, <2>2 DEF LoginOK
  <1> QED
    BY <1>1 DEF LoginInv

LEMMA CanStoreElse ==
    ASSUME TypeInv, NEW r \in Requests, StepOf(r), pc'[r] # "code_set",
           made' = made, stored' \subseteq stored, NEW c \in Codes
    PROVE  CanStore(c)' => CanStore(c)
  BY DEF CanStore, StepOf, SameSlot

LEMMA LoginStep == TypeInv /\ UnmailedInv /\ LoginInv /\ [Next]_vars => LoginInv'
  <1> SUFFICES ASSUME TypeInv, UnmailedInv, LoginInv, [Next]_vars PROVE LoginInv'
    OBVIOUS
  <1>1. CASE UNCHANGED vars
    BY <1>1 DEF vars, LoginInv, LoginOK, CanStore, At
  <1>2. CASE Tick \/ \E c \in Codes : ExpireCode(c)
    <2>1. UNCHANGED <<pc, item, made, logins, faults>> /\ stored' \subseteq stored
      BY <1>2 DEF Tick, ExpireCode, redis, request
    <2> QED
      BY <2>1 DEF LoginInv, LoginOK, CanStore, At
  <1>3. ASSUME NEW r \in Requests, StepOf(r), pc[r] # "code_delete",
               pc'[r] \notin {"code_set", "code_delete"},
               UNCHANGED <<made, logins>>, stored' \subseteq stored,
               faults' \in Nat, faults <= faults'
        PROVE  LoginInv'
    <2>1. \A c \in Codes : CanStore(c)' => CanStore(c)
      BY <1>3, CanStoreElse
    <2> QED
      BY <1>3, <2>1, LoginElse
  <1>4. ASSUME NEW r \in Requests, Arrive(r) PROVE LoginInv'
    <2>1. /\ StepOf(r) /\ pc[r] = "idle" /\ pc'[r] # "code_delete"
          /\ pc'[r] = "code_set" => item'[r] \notin made
          /\ UNCHANGED <<stored, logins, faults>> /\ faults \in Nat
      BY <1>4, ArriveType DEF redis, TypeInv, TypeOK
    <2>2. made \subseteq made'
      BY <1>4 DEF Arrive, GetLoginOTP, SignIn, SignIn2Factor, RefreshAccessToken, Logout
    <2>3. \A c \in Codes : CanStore(c)' => CanStore(c)
      BY <2>1, <2>2 DEF CanStore, StepOf, SameSlot
    <2> QED
      BY <2>1, <2>3, LoginElse
  <1>5. ASSUME NEW r \in Requests, GenerateOtp(r) PROVE LoginInv'
    <2>1. /\ StepOf(r) /\ pc[r] = "code_set" /\ pc'[r] = "code_mail"
          /\ stored' = stored \cup {item[r]} /\ UNCHANGED <<item, made, logins, faults>>
          /\ faults \in Nat
      BY <1>5, CodeType DEF GenerateOtp, Goto, TypeInv, TypeOK
    <2>2. \A c \in Codes : CanStore(c)' => CanStore(c)
      BY <2>1 DEF CanStore, StepOf, SameSlot
    <2> QED
      BY <2>1, <2>2, LoginElse
  <1>6. ASSUME NEW r \in Requests,
               \/ MailCode(r) \/ SignTokens(r) \/ RefreshSet(r) \/ TokenGet(r)
               \/ TokenAnswer(r) \/ TokenDelete(r)
        PROVE  LoginInv'
    <2>1. /\ pc[r] # "code_delete" /\ pc'[r] \notin {"code_set", "code_delete"}
          /\ UNCHANGED <<made, stored, logins, faults>> /\ faults \in Nat
      BY <1>6 DEF MailCode, SignTokens, RefreshSet, TokenGet, TokenAnswer, TokenDelete, Goto,
         Done, redis, TypeInv, TypeOK
    <2>2. StepOf(r)
      BY <1>6, CodeType, SignType, TokenType
    <2> QED
      BY <1>3, <2>1, <2>2
  <1>7. ASSUME NEW r \in Requests, CodeGet(r) PROVE LoginInv'
    <2>1. /\ StepOf(r) /\ pc[r] = "code_get" /\ pc'[r] # "code_set"
          /\ pc'[r] = "code_delete" => item'[r] = item[r] /\ item[r] \in stored
          /\ UNCHANGED <<made, stored, logins, faults>>
      BY <1>7, CodeType DEF CodeGet, Goto, Done, redis, TypeInv, TypeOK
    <2>2. ASSUME NEW c \in Codes PROVE LoginOK(c)'
      <3>1. CanStore(c)' => CanStore(c)
        BY <2>1, CanStoreElse
      <3>2. /\ r \notin At("code_delete", c)
            /\ r \in At("code_delete", c)' => CanStore(c)
        BY <2>1 DEF At, CanStore
      <3>3. PICK n \in Nat :
               /\ n + 1 <= Cardinality(Requests)
               /\ Cardinality(At("code_delete", c)) = n
               /\ Cardinality(At("code_delete", c))' =
                      IF r \in At("code_delete", c)' THEN n + 1 ELSE n
        BY <2>1, <3>2, Counts
      <3>4. /\ Cardinality(Requests) \in Nat /\ logins[c] \in Nat /\ faults \in Nat
            /\ LoginOK(c)
        BY CountTypes DEF TypeInv, TypeOK, LoginInv
      <3> QED
        BY <2>1, <3>1, <3>2, <3>3, <3>4 DEF LoginOK
    <2> QED
      BY <2>2 DEF LoginInv
  <1>8. ASSUME NEW r \in Requests, pc[r] = "code_delete", StepOf(r), pc'[r] = "sign",
               logins' = [logins EXCEPT ![item[r]] = @ + 1], made' = made,
               \/ stored' = stored \ {item[r]} /\ faults' = faults
               \/ stored' = stored /\ faults' = faults + 1
        PROVE  LoginInv'
    <2>1. /\ item[r] \in mailed /\ item[r] \in Codes /\ item[r] \in made
      BY <1>8 DEF TypeInv, TypeOK, RequestInv, RequestOK, BookInv, Entering
    <2>2. ASSUME NEW c \in Codes PROVE LoginOK(c)'
      <3>1. CanStore(c)' => CanStore(c)
        BY <1>8, CanStoreElse
      <3>2. CanStore(c)' => c # item[r] \/ faults' = faults + 1
        <4>1. \A s \in Requests : pc'[s] = "code_set" => item'[s] # item[r]
          BY <1>8, <2>1 DEF UnmailedInv, Mailing, StepOf, SameSlot
        <4> QED
          BY <1>8, <2>1, <4>1 DEF CanStore
      <3>3. /\ r \in At("code_delete", c) <=> item[r] = c
            /\ r \notin At("code_delete", c)'
        BY <1>8 DEF At
      <3>4. PICK n \in Nat :
               /\ Cardinality(At("code_delete", c)) = IF item[r] = c THEN n + 1 ELSE n
               /\ Cardinality(At("code_delete", c))' = n
        BY <1>8, <3>3, Counts
      <3>5. /\ logins \in [Codes -> Nat] /\ faults \in Nat /\ LoginOK(c)
            /\ Cardinality(Requests) \in Nat
        BY CountTypes DEF TypeInv, TypeOK, LoginInv
      <3>6. /\ logins[c] \in Nat
            /\ logins'[c] = IF c = item[r] THEN logins[c] + 1 ELSE logins[c]
        BY <1>8, <2>1, <3>5, Increment
      <3> QED
        BY <1>8, <3>1, <3>2, <3>4, <3>5, <3>6 DEF LoginOK
    <2> QED
      BY <2>2 DEF LoginInv
  <1>9. ASSUME NEW r \in Requests, CodeDelete(r) PROVE LoginInv'
    <2>1. /\ pc[r] = "code_delete" /\ StepOf(r) /\ pc'[r] = "sign"
          /\ logins' = [logins EXCEPT ![item[r]] = @ + 1] /\ made' = made
          /\ stored' = stored \ {item[r]} /\ faults' = faults
      BY <1>9, CodeType DEF CodeDelete, Goto, TypeInv, TypeOK
    <2> QED
      BY <1>8, <2>1
  <1>10. ASSUME NEW r \in Requests, Abort(r) \/ LoseCall(r) PROVE LoginInv'
    <2>1. /\ StepOf(r) /\ faults' = faults + 1 /\ faults \in Nat /\ UNCHANGED <<made, stored>>
          /\ pc'[r] \notin {"code_set", "code_delete"}
      BY <1>10, FaultType DEF Abort, LoseCall, Fault, redis, Goto, Done, TypeInv, TypeOK
    <2>2. CASE pc[r] = "code_delete" /\ logins' = [logins EXCEPT ![item[r]] = @ + 1]
                  /\ Goto(r, "sign")
      <3>1. pc'[r] = "sign"
        BY <2>2 DEF Goto, TypeInv, TypeOK
      <3> QED
        BY <1>8, <2>1, <2>2, <3>1
    <2>3. CASE logins' = logins
      <3>1. ASSUME NEW c \in Codes PROVE LoginOK(c)'
        <4>1. r \notin At("code_delete", c)' /\ (CanStore(c)' => CanStore(c))
          BY <2>1, CanStoreElse DEF At
        <4>2. PICK n \in Nat :
                 /\ Cardinality(At("code_delete", c)) =
                        IF r \in At("code_delete", c) THEN n + 1 ELSE n
                 /\ Cardinality(At("code_delete", c))' = n
          BY <2>1, <4>1, Counts
        <4>3. /\ logins[c] \in Nat /\ LoginOK(c) /\ Cardinality(Requests) \in Nat
          BY CountTypes DEF TypeInv, TypeOK, LoginInv
        <4> QED
          BY <2>1, <2>3, <4>1, <4>2, <4>3 DEF LoginOK
      <3> QED
        BY <3>1 DEF LoginInv
    <2> QED
      BY <1>10, <2>2, <2>3 DEF Abort, LoseCall
  <1> QED
    BY <1>1, <1>2, <1>4, <1>5, <1>6, <1>7, <1>9, <1>10 DEF Next, Proceed

\* CodeLoginsAlwaysBounded: a code signs in at most once for each request that can
\* be under way together, and once more for each failure.
THEOREM CodeLoginsAlwaysBounded == Spec => []CodeLoginsBounded
  <1>1. Init => UnmailedInv /\ LoginInv
    <2> SUFFICES ASSUME Init PROVE UnmailedInv /\ \A c \in Codes : LoginOK(c)
      BY DEF LoginInv
    <2>1. UnmailedInv
      BY DEF Init, UnmailedInv, Mailing
    <2>2. ASSUME NEW c \in Codes PROVE LoginOK(c)
      <3>1. At("code_delete", c) = {} /\ logins[c] = 0 /\ faults = 0
        BY DEF Init, At
      <3>2. Cardinality(Requests) \in Nat /\ Cardinality({}) = 0
        BY FiniteAssumption, FS_CardinalityType, FS_EmptySet
      <3> QED
        BY <3>1, <3>2 DEF LoginOK
    <2> QED
      BY <2>1, <2>2
  <1>2. TypeInv /\ LoginInv => CodeLoginsBounded
    <2> SUFFICES ASSUME TypeInv, LoginInv, NEW c \in Codes
                 PROVE  logins[c] <= Cardinality(Requests) + faults
      BY DEF CodeLoginsBounded
    <2>1. /\ Cardinality(At("code_delete", c)) \in Nat /\ Cardinality(Requests) \in Nat
          /\ logins[c] \in Nat /\ faults \in Nat
      BY CountTypes DEF TypeInv, TypeOK
    <2> QED
      BY <2>1 DEF LoginInv, LoginOK
  <1>3. TypeInv /\ UnmailedInv /\ LoginInv /\ [Next]_vars => TypeInv' /\ UnmailedInv' /\ LoginInv'
    BY TypeStep, UnmailedStep, LoginStep
  <1> QED
    BY <1>1, <1>2, <1>3, InitType, PTL DEF Spec
=============================================================================
