--------------------------- MODULE Organisations ---------------------------
(***************************************************************************)
(* Profiles and the businesses they belong to:                             *)
(* src/src/profile/profile.service.ts, src/src/business/                   *)
(* business.service.ts, verifyBusiness of src/src/admin/admin.service.ts,  *)
(* and the saves of whole users of src/src/auth, which cascade to the      *)
(* profile they read with the user.                                        *)
(*                                                                         *)
(* A handler is a chain of actions, one per database call that matters;    *)
(* one refused at its first call has no action.  A save writes the row as  *)
(* it was read, with the columns the request sets.  A profile comes with a *)
(* seeded user or with a student's first update: the update of anybody     *)
(* else without a profile fails.                                           *)
(***************************************************************************)
EXTENDS Naturals, FiniteSets

CONSTANTS People,
          Students,       \* those whose role is STUDENT
          Firms,          \* ids of businesses (a bound)
          Numbers,        \* registration numbers
          Requests,
          MaxRequests,    \* bound on the requests begun
          MaxFaults,      \* bound on failed calls and crashes
          Nobody, NoFirm, \* the slot is about no person, about no business
          NoRow,          \* no such row, no copy held
          NoChange        \* no columns to set

ASSUME PeopleAssumption ==
    Students \subseteq People /\ Nobody \notin People /\ People \cap Firms = {}

ASSUME FirmAssumption == NoFirm \notin Firms

VARIABLES profiles,    \* the profiles table, by user
          businesses,  \* the businesses table
          pc,          \* slot -> next call
          who,         \* slot -> the user whose profile it works on
          firm,        \* slot -> the business it works on
          change,      \* slot -> the columns to set
          profile,     \* slot -> the profile it has read
          business,    \* slot -> the business it has read
          wanted,      \* history: what the columns of each row were last set to
          unlinked,    \* history: businesses whose creation failed before the link,
                       \*   or whose link was put back from an older copy
          overlap,     \* history: users and businesses read twice at once
          begun,       \* requests begun
          faults       \* history: failed calls and crashes so far

tables == <<profiles, businesses>>
request == <<pc, who, firm, change, profile, business>>
history == <<wanted, unlinked, overlap>>
vars == <<profiles, businesses, pc, who, firm, change, profile, business, wanted,
          unlinked, overlap, begun, faults>>

-----------------------------------------------------------------------------
\* The kind, which an update sets when the user is not a student, stands for the
\* columns it may set.
Profile == [kind : {"INDIVIDUAL", "BUSINESS"}, firm : Firms \cup {NoFirm},
            permit : BOOLEAN]
Business == [number : Numbers, approved : BOOLEAN]

ASSUME RowAssumption == NoRow \notin Profile \cup Business

NewProfile == [kind |-> "INDIVIDUAL", firm |-> NoFirm, permit |-> FALSE]

Changes == [permit : BOOLEAN] \cup [number : Numbers] \cup [approved : BOOLEAN]

Steps == {"idle", "profile_save", "permit_find", "permit_save", "firm_find",
          "firm_insert", "link", "firm_save", "user_save"}

TypeOK ==
    /\ profiles \in [People -> Profile \cup {NoRow}]
    /\ businesses \in [Firms -> Business \cup {NoRow}]
    /\ pc \in [Requests -> Steps]
    /\ who \in [Requests -> People \cup {Nobody}]
    /\ firm \in [Requests -> Firms \cup {NoFirm}]
    /\ change \in [Requests -> Changes \cup {NoChange}]
    /\ profile \in [Requests -> Profile \cup {NoRow}]
    /\ business \in [Requests -> Business \cup {NoRow}]
    /\ wanted \in [People \cup Firms -> Profile \cup Business \cup {NoRow}]
    /\ unlinked \subseteq Firms
    /\ overlap \subseteq People \cup Firms
    /\ begun \in Nat
    /\ faults \in Nat

\* The row with the columns of ch set.
With(row, ch) == [c \in DOMAIN row |-> IF c \in DOMAIN ch THEN ch[c] ELSE row[c]]

Taken(n, f) == \E g \in Firms \ {f} : businesses[g] # NoRow /\ businesses[g].number = n

Goto(r, step) == pc' = [pc EXCEPT ![r] = step]

Begin(r, step, u, f, ch) ==
    /\ begun < MaxRequests
    /\ begun' = begun + 1
    /\ pc[r] = "idle"
    /\ Goto(r, step)
    /\ who' = [who EXCEPT ![r] = u]
    /\ firm' = [firm EXCEPT ![r] = f]
    /\ change' = [change EXCEPT ![r] = ch]

Done(r) == /\ Goto(r, "idle")
           /\ who' = [who EXCEPT ![r] = Nobody]
           /\ firm' = [firm EXCEPT ![r] = NoFirm]
           /\ change' = [change EXCEPT ![r] = NoChange]
           /\ profile' = [profile EXCEPT ![r] = NoRow]
           /\ business' = [business EXCEPT ![r] = NoRow]
           /\ UNCHANGED begun

Linked(f) == \E u \in People : profiles[u] # NoRow /\ profiles[u].firm = f

\* The row is saved over that of the person, whose link may be another by now.
SaveProfile(r, row) ==
    /\ profiles' = [profiles EXCEPT ![who[r]] = row]
    /\ LET was == profiles[who[r]]
           undone == IF was # NoRow /\ was.firm # profile[r].firm THEN {was.firm} ELSE {}
       IN  unlinked' = (unlinked \cup undone) \ {NoFirm, row.firm}

Reading == {"profile_save", "permit_save", "firm_find", "firm_insert", "link", "user_save"}

\* What row x should be is followed until two slots have read it at once.
Want(x, row) == wanted' = [wanted EXCEPT ![x] = IF x \in overlap THEN NoRow ELSE row]

ReadAtOnce(x) ==
    /\ overlap' = overlap \cup {x}
    /\ wanted' = [wanted EXCEPT ![x] = NoRow]

\* The slot reads the profile of u, the business f, to save it later.
ReadProfile(r, u) ==
    /\ profile' = [profile EXCEPT ![r] = profiles[u]]
    /\ IF \E s \in Requests \ {r} : who[s] = u /\ pc[s] \in Reading
       THEN ReadAtOnce(u)
       ELSE UNCHANGED <<overlap, wanted>>

ReadBusiness(r, f) ==
    /\ business' = [business EXCEPT ![r] = businesses[f]]
    /\ IF \E s \in Requests \ {r} : firm[s] = f /\ pc[s] = "firm_save"
       THEN ReadAtOnce(f)
       ELSE UNCHANGED <<overlap, wanted>>

-----------------------------------------------------------------------------
(* updateProfile, and the profile image and the privacy through it *)

UpdateProfile(r, u) ==
    /\ u \in Students \/ profiles[u] # NoRow
    /\ Begin(r, "profile_save", u, NoFirm, NoChange)
    /\ ReadProfile(r, u)
    /\ UNCHANGED <<tables, business, unlinked, faults>>

Kind(u) == IF u \in Students THEN << >> ELSE [kind |-> "BUSINESS"]

\* Mutant: an entity made from the request is saved in the row's place.
ProfileSaveAnew(r) ==
    /\ pc[r] = "profile_save"
    /\ LET u == who[r]
           Set(row) == With(row, Kind(u))
       IN  /\ profiles' = [profiles EXCEPT ![u] = Set(NewProfile)]
           /\ Want(u, IF wanted[u] = NoRow THEN Set(NewProfile) ELSE Set(wanted[u]))
    /\ Done(r)
    /\ UNCHANGED <<businesses, unlinked, overlap, faults>>

\* A first profile is inserted, refused when there is one by now.
ProfileSave(r) ==
    /\ pc[r] = "profile_save"
    /\ LET u == who[r]
           Set(row) == With(row, Kind(u))
       IN  \/ /\ profile[r] # NoRow
              /\ SaveProfile(r, Set(profile[r]))
              /\ Want(u, Set(wanted[u]))
           \/ /\ profile[r] = NoRow /\ profiles[u] = NoRow
              /\ SaveProfile(r, Set(NewProfile))
              /\ Want(u, Set(NewProfile))
           \/ /\ profile[r] = NoRow /\ profiles[u] # NoRow
              /\ UNCHANGED <<profiles, wanted, unlinked>>
    /\ Done(r)
    /\ UNCHANGED <<businesses, overlap, faults>>

(* updateWorkPermit *)

UpdateWorkPermit(r, u, ch) ==
    /\ profiles[u] # NoRow
    /\ Begin(r, "permit_find", u, NoFirm, ch)
    /\ UNCHANGED <<tables, profile, business, history, faults>>

PermitFind(r) ==
    /\ pc[r] = "permit_find"
    /\ ReadProfile(r, who[r])
    /\ Goto(r, "permit_save")
    /\ UNCHANGED <<tables, who, firm, change, business, unlinked, begun, faults>>

PermitSave(r) ==
    /\ pc[r] = "permit_save"
    /\ SaveProfile(r, With(profile[r], change[r]))
    /\ Want(who[r], With(wanted[who[r]], change[r]))
    /\ Done(r)
    /\ UNCHANGED <<businesses, overlap, faults>>

(* Saves of a user read with its profile: confirmAccount, resetPassword and    *)
(* verifyStudent.  To save a user as having no profile when there is one fails.*)

ReadUser(r, u) ==
    /\ Begin(r, "user_save", u, NoFirm, NoChange)
    /\ ReadProfile(r, u)
    /\ UNCHANGED <<tables, business, unlinked, faults>>

UserSave(r) ==
    /\ pc[r] = "user_save"
    /\ IF profile[r] = NoRow THEN UNCHANGED <<profiles, unlinked>>
                             ELSE SaveProfile(r, profile[r])
    /\ Done(r)
    /\ UNCHANGED <<businesses, wanted, overlap, faults>>

-----------------------------------------------------------------------------
(* createBusinessProfile: the business of that number is found or inserted,  *)
(* and then linked to the profile read first.                                *)

\* Mutant: whether the profile has a business is not asked.
CreateBusinessProfileAgain(r, u, n) ==
    /\ profiles[u] # NoRow /\ profiles[u].kind = "BUSINESS"
    /\ Begin(r, "firm_find", u, NoFirm, [number |-> n])
    /\ ReadProfile(r, u)
    /\ UNCHANGED <<tables, business, unlinked, faults>>

CreateBusinessProfile(r, u, n) ==
    /\ profiles[u] # NoRow /\ profiles[u].kind = "BUSINESS" /\ profiles[u].firm = NoFirm
    /\ Begin(r, "firm_find", u, NoFirm, [number |-> n])
    /\ ReadProfile(r, u)
    /\ UNCHANGED <<tables, business, unlinked, faults>>

FirmFind(r) ==
    /\ pc[r] = "firm_find"
    /\ \/ \E f \in Firms :
             /\ businesses[f] # NoRow /\ businesses[f].number = change[r].number
             /\ firm' = [firm EXCEPT ![r] = f]
             /\ Goto(r, "link")
       \/ /\ ~ Taken(change[r].number, NoFirm)
          /\ Goto(r, "firm_insert")
          /\ UNCHANGED firm
    /\ UNCHANGED <<tables, who, change, profile, business, history, begun, faults>>

FirmInsert(r) ==
    /\ pc[r] = "firm_insert"
    /\ LET row == [number |-> change[r].number, approved |-> FALSE]
       IN  \/ /\ ~ Taken(change[r].number, NoFirm)
              /\ \E f \in Firms :
                    /\ businesses[f] = NoRow
                    /\ businesses' = [businesses EXCEPT ![f] = row]
                    /\ Want(f, row)
                    /\ firm' = [firm EXCEPT ![r] = f]
              /\ Goto(r, "link")
              /\ UNCHANGED <<who, change, profile, business, begun>>
           \/ /\ Taken(change[r].number, NoFirm)
              /\ Done(r)
              /\ UNCHANGED <<businesses, wanted>>
    /\ UNCHANGED <<profiles, unlinked, overlap, faults>>

\* Mutant: the profile is given the number of the business.
LinkByNumber(r) ==
    /\ pc[r] = "link"
    /\ LET ch == [firm |-> change[r].number]
       IN  /\ SaveProfile(r, With(profile[r], ch))
           /\ Want(who[r], With(wanted[who[r]], ch))
    /\ Done(r)
    /\ UNCHANGED <<businesses, overlap, faults>>

Link(r) ==
    /\ pc[r] = "link"
    /\ LET ch == [firm |-> firm[r]]
       IN  /\ SaveProfile(r, With(profile[r], ch))
           /\ Want(who[r], With(wanted[who[r]], ch))
    /\ Done(r)
    /\ UNCHANGED <<businesses, overlap, faults>>

(* updateBusinessProfile, of the business of a profile, and verifyBusiness *)

UpdateBusinessProfile(r, u, ch) ==
    /\ profiles[u] # NoRow /\ profiles[u].kind = "BUSINESS" /\ profiles[u].firm # NoFirm
    /\ Begin(r, "firm_save", Nobody, profiles[u].firm, ch)
    /\ ReadBusiness(r, profiles[u].firm)
    /\ UNCHANGED <<tables, profile, unlinked, faults>>

VerifyBusiness(r, f) ==
    /\ businesses[f] # NoRow
    /\ Begin(r, "firm_save", Nobody, f, [approved |-> TRUE])
    /\ ReadBusiness(r, f)
    /\ UNCHANGED <<tables, profile, unlinked, faults>>

\* Mutant: a business keeps its approval only when the request repeats it.
FirmSaveUnapproved(r) ==
    /\ pc[r] = "firm_save"
    /\ businesses' = [businesses EXCEPT ![firm[r]] =
                         With([business[r] EXCEPT !.approved = FALSE], change[r])]
    /\ Want(firm[r], With(wanted[firm[r]], change[r]))
    /\ Done(r)
    /\ UNCHANGED <<profiles, unlinked, overlap, faults>>

FirmSave(r) ==
    /\ pc[r] = "firm_save"
    /\ LET row == With(business[r], change[r])
       IN  \/ /\ ~ Taken(row.number, firm[r])
              /\ businesses' = [businesses EXCEPT ![firm[r]] = row]
              /\ Want(firm[r], With(wanted[firm[r]], change[r]))
           \/ /\ Taken(row.number, firm[r])
              /\ UNCHANGED <<businesses, wanted>>
    /\ Done(r)
    /\ UNCHANGED <<profiles, unlinked, overlap, faults>>

\* A call fails, or the process dies.
Abort(r) ==
    /\ faults < MaxFaults
    /\ faults' = faults + 1
    /\ pc[r] # "idle"
    /\ unlinked' = IF pc[r] = "link" /\ ~ Linked(firm[r])
                   THEN unlinked \cup {firm[r]} ELSE unlinked
    /\ Done(r)
    /\ UNCHANGED <<tables, wanted, overlap>>

-----------------------------------------------------------------------------
\* The seed makes the profiles of those who are not students.
Init ==
    /\ profiles = [u \in People |-> IF u \in Students THEN NoRow ELSE NewProfile]
    /\ businesses = [f \in Firms |-> NoRow]
    /\ pc = [r \in Requests |-> "idle"]
    /\ who = [r \in Requests |-> Nobody]
    /\ firm = [r \in Requests |-> NoFirm]
    /\ change = [r \in Requests |-> NoChange]
    /\ profile = [r \in Requests |-> NoRow]
    /\ business = [r \in Requests |-> NoRow]
    /\ wanted = [x \in People \cup Firms |->
                    IF x \in People \ Students THEN NewProfile ELSE NoRow]
    /\ unlinked = {}
    /\ overlap = {}
    /\ begun = 0
    /\ faults = 0

Arrive(r) ==
    \/ \E u \in People :
          \/ UpdateProfile(r, u)
          \/ \E ch \in [permit : BOOLEAN] : UpdateWorkPermit(r, u, ch)
          \/ \E n \in Numbers : CreateBusinessProfile(r, u, n)
          \/ \E ch \in [number : Numbers] \cup [approved : BOOLEAN] :
                UpdateBusinessProfile(r, u, ch)
          \/ ReadUser(r, u)
    \/ \E f \in Firms : VerifyBusiness(r, f)

Proceed(r) ==
    \/ ProfileSave(r) \/ PermitFind(r) \/ PermitSave(r) \/ UserSave(r)
    \/ FirmFind(r) \/ FirmInsert(r) \/ Link(r) \/ FirmSave(r)

Next == \E r \in Requests : Arrive(r) \/ Proceed(r) \/ Abort(r)

Spec == Init /\ [][Next]_vars

-----------------------------------------------------------------------------
(* Properties *)

\* ProfilesKept: a profile is what its columns were last set to - its link to a
\* business, its work permit, its kind - although five handlers save it whole,
\* two of them users with their profiles; unless two had read it at once.
ProfilesKept == \A u \in People \ overlap : profiles[u] = wanted[u]

\* ApprovalsKept: a business keeps an approval, and its number, through the saves
\* of updates and verifications, unless two had read it at once.
ApprovalsKept == \A f \in Firms \ overlap : businesses[f] = wanted[f]

\* BusinessesLinked: the business and the link are saved by two calls, and users may
\* ask for one registration number at once; a business nobody belongs to is one
\* about to be linked, or one whose creation failed between the two calls and was
\* not asked for again, or one whose link was put back by the save of a profile
\* that had been read before it.
BusinessesLinked ==
    \A f \in Firms : businesses[f] # NoRow =>
        \/ Linked(f)
        \/ \E r \in Requests : pc[r] = "link" /\ firm[r] = f
        \/ f \in unlinked
=============================================================================
