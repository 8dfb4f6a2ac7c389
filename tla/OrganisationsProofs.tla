------------------------ MODULE OrganisationsProofs ------------------------
(* Proofs about profiles and businesses, for every number of people,         *)
(* businesses and overlapping requests.                                      *)
EXTENDS Organisations, TLAPS

-----------------------------------------------------------------------------
(* Rows with columns set *)

LEMMA NewProfileType == NewProfile \in Profile
  BY DEF NewProfile, Profile

\* What updates of a profile, and of its link, may set keeps it a profile.
LEMMA WithProfile ==
    ASSUME NEW row \in Profile
    PROVE  /\ \A ch \in [permit : BOOLEAN] :
                 With(row, ch) \in Profile /\ With(row, ch).firm = row.firm
           /\ \A u : With(row, Kind(u)) \in Profile /\ With(row, Kind(u)).firm = row.firm
           /\ \A f \in Firms :
                 With(row, [firm |-> f]) \in Profile /\ With(row, [firm |-> f]).firm = f
  <1>1. \A ch \in [permit : BOOLEAN] :
           With(row, ch) \in Profile /\ With(row, ch).firm = row.firm
    BY DEF With, Profile
  <1>2. \A u : With(row, Kind(u)) \in Profile /\ With(row, Kind(u)).firm = row.firm
    <2> TAKE u
    <2>1. CASE u \in Students
      BY <2>1 DEF With, Profile, Kind
    <2>2. CASE u \notin Students
      BY <2>2 DEF With, Profile, Kind
    <2> QED
      BY <2>1, <2>2
  <1>3. \A f \in Firms :
           With(row, [firm |-> f]) \in Profile /\ With(row, [firm |-> f]).firm = f
    BY DEF With, Profile
  <1> QED
    BY <1>1, <1>2, <1>3

FirmChanges == [number : Numbers] \cup [approved : BOOLEAN]

LEMMA WithBusiness ==
    ASSUME NEW row \in Business, NEW ch \in FirmChanges
    PROVE  With(row, ch) \in Business
  <1>1. CASE ch \in [number : Numbers]
    BY <1>1 DEF With, Business
  <1>2. CASE ch \in [approved : BOOLEAN]
    BY <1>2 DEF With, Business
  <1> QED
    BY <1>1, <1>2 DEF FirmChanges

-----------------------------------------------------------------------------
(* The invariant *)

\* The business a profile names exists.
Known(row) == row # NoRow /\ row.firm # NoFirm => businesses[row.firm] # NoRow

LinkInv == \A u \in People : Known(profiles[u])

\* What a request has checked by each step.
RequestOK(r) ==
    /\ pc[r] \in Reading \cup {"permit_find"} => who[r] \in People
    /\ pc[r] = "permit_find" => profiles[who[r]] # NoRow
    /\ pc[r] \in {"permit_save", "firm_find", "firm_insert", "link"} => profile[r] # NoRow
    /\ pc[r] \in {"permit_find", "permit_save"} => change[r] \in [permit : BOOLEAN]
    /\ pc[r] \in {"firm_find", "firm_insert", "link"} => change[r] \in [number : Numbers]
    /\ pc[r] \in {"link", "firm_save"} => firm[r] \in Firms /\ businesses[firm[r]] # NoRow
    /\ pc[r] = "firm_save" => business[r] # NoRow /\ change[r] \in FirmChanges
    /\ Known(profile[r])

RequestInv == \A r \in Requests : RequestOK(r)

TypeInv == TypeOK /\ RequestInv /\ LinkInv

\* Unless two have read a row at once, the only slot that holds a copy of it to
\* save holds the row as it is, and the row is what it was meant to be.
ReadersOf(u) == {r \in Requests : who[r] = u /\ pc[r] \in Reading}

HoldersOf(f) == {r \in Requests : firm[r] = f /\ pc[r] = "firm_save"}

ProfileInv ==
    \A u \in People \ overlap :
        /\ profiles[u] = wanted[u]
        /\ \A r \in ReadersOf(u) : profile[r] = profiles[u]
        /\ \A r, s \in ReadersOf(u) : r = s

BusinessInv ==
    \A f \in Firms \ overlap :
        /\ businesses[f] = wanted[f]
        /\ \A r \in HoldersOf(f) : business[r] = businesses[f]
        /\ \A r, s \in HoldersOf(f) : r = s

Inv == TypeInv /\ ProfileInv /\ BusinessInv

-----------------------------------------------------------------------------
(* What steps leave alone *)

Same(s) ==
    /\ pc'[s] = pc[s] /\ who'[s] = who[s] /\ firm'[s] = firm[s]
    /\ change'[s] = change[s] /\ profile'[s] = profile[s] /\ business'[s] = business[s]

\* Rows are never deleted.
RowsKept ==
    /\ \A u \in People : profiles[u] # NoRow => profiles'[u] # NoRow
    /\ \A f \in Firms : businesses[f] # NoRow => businesses'[f] # NoRow

LEMMA LinkedKept ==
    ASSUME NEW row \in Profile \cup {NoRow}, Known(row), RowsKept
    PROVE  Known(row)'
  <1>1. row # NoRow /\ row.firm # NoFirm => row.firm \in Firms
    BY DEF Profile
  <1> QED
    BY <1>1 DEF Known, RowsKept

LEMMA RequestKept ==
    ASSUME TypeOK, NEW s \in Requests, RequestOK(s), Same(s), RowsKept
    PROVE  RequestOK(s)'
  <1>1. Known(profile[s])'
    <2>1. profile[s] \in Profile \cup {NoRow}
      BY DEF TypeOK
    <2>2. Known(profile[s])
      BY DEF RequestOK
    <2>3. profile'[s] = profile[s]
      BY DEF Same
    <2> QED
      BY <2>1, <2>2, <2>3, LinkedKept DEF Known
  <1> QED
    BY <1>1 DEF RequestOK, Same, RowsKept, Reading

\* The profiles are safe where nobody writes and no reader is added.
LEMMA ProfileElse ==
    ASSUME ProfileInv,
           NEW r \in Requests,
           profiles' = profiles, overlap \subseteq overlap',
           \A u \in People \ overlap' : wanted'[u] = wanted[u],
           \A s \in Requests \ {r} : Same(s),
           \A u \in People : r \in ReadersOf(u)' =>
               r \in ReadersOf(u) /\ profile'[r] = profile[r]
    PROVE  ProfileInv'
  <1>1. \A u \in People : ReadersOf(u)' \subseteq ReadersOf(u)
    BY DEF ReadersOf, Same
  <1>2. \A u \in People : \A s \in ReadersOf(u)' : profile'[s] = profile[s]
    BY <1>1 DEF ReadersOf, Same
  <1> QED
    BY <1>1, <1>2 DEF ProfileInv

LEMMA BusinessElse ==
    ASSUME BusinessInv,
           NEW r \in Requests,
           businesses' = businesses, overlap \subseteq overlap',
           \A f \in Firms \ overlap' : wanted'[f] = wanted[f],
           \A s \in Requests \ {r} : Same(s),
           \A f \in Firms : r \in HoldersOf(f)' =>
               r \in HoldersOf(f) /\ business'[r] = business[r]
    PROVE  BusinessInv'
  <1>1. \A f \in Firms : HoldersOf(f)' \subseteq HoldersOf(f)
    BY DEF HoldersOf, Same
  <1>2. \A f \in Firms : \A s \in HoldersOf(f)' : business'[s] = business[s]
    BY <1>1 DEF HoldersOf, Same
  <1> QED
    BY <1>1, <1>2 DEF BusinessInv

\* To read a row adds one that holds it as it is, or tells of a second.
LEMMA ProfileRead ==
    ASSUME TypeOK, ProfileInv,
           NEW r \in Requests, NEW u \in People,
           ReadProfile(r, u), profiles' = profiles,
           \A s \in Requests \ {r} : Same(s),
           \A v \in People : r \in ReadersOf(v)' => v = u
    PROVE  ProfileInv'
  <1> SUFFICES ASSUME NEW v \in People \ overlap'
               PROVE  /\ profiles'[v] = wanted'[v]
                      /\ \A s \in ReadersOf(v)' : profile'[s] = profiles'[v]
                      /\ \A s, t \in ReadersOf(v)' : s = t
    BY DEF ProfileInv
  <1>1. profile'[r] = profiles[u]
    BY DEF ReadProfile, TypeOK
  <1>2. \A s \in Requests \ {r} : s \in ReadersOf(v)' => s \in ReadersOf(v)
    BY DEF ReadersOf, Same
  <1>3. v \notin overlap /\ wanted'[v] = wanted[v]
    BY DEF ReadProfile, ReadAtOnce, TypeOK
  <1>4. v = u => \A s \in Requests \ {r} : s \notin ReadersOf(v)
    BY DEF ReadProfile, ReadAtOnce, ReadersOf
  <1>5. CASE v = u
    <2>1. ReadersOf(v)' \subseteq {r}
      BY <1>2, <1>4, <1>5 DEF ReadersOf
    <2> QED
      BY <1>1, <1>3, <1>5, <2>1 DEF ProfileInv
  <1>6. CASE v # u
    <2>1. r \notin ReadersOf(v)'
      BY <1>6
    <2>2. ReadersOf(v)' \subseteq ReadersOf(v) \ {r}
      BY <1>2, <2>1 DEF ReadersOf
    <2>3. \A s \in ReadersOf(v)' : profile'[s] = profile[s]
      BY <2>2 DEF ReadersOf, Same
    <2> QED
      BY <1>3, <2>2, <2>3 DEF ProfileInv
  <1> QED
    BY <1>5, <1>6

LEMMA BusinessRead ==
    ASSUME TypeOK, BusinessInv,
           NEW r \in Requests, NEW g \in Firms,
           ReadBusiness(r, g), businesses' = businesses,
           \A s \in Requests \ {r} : Same(s),
           \A f \in Firms : r \in HoldersOf(f)' => f = g
    PROVE  BusinessInv'
  <1> SUFFICES ASSUME NEW f \in Firms \ overlap'
               PROVE  /\ businesses'[f] = wanted'[f]
                      /\ \A s \in HoldersOf(f)' : business'[s] = businesses'[f]
                      /\ \A s, t \in HoldersOf(f)' : s = t
    BY DEF BusinessInv
  <1>1. business'[r] = businesses[g]
    BY DEF ReadBusiness, TypeOK
  <1>2. \A s \in Requests \ {r} : s \in HoldersOf(f)' => s \in HoldersOf(f)
    BY DEF HoldersOf, Same
  <1>3. f \notin overlap /\ wanted'[f] = wanted[f]
    BY DEF ReadBusiness, ReadAtOnce, TypeOK
  <1>4. f = g => \A s \in Requests \ {r} : s \notin HoldersOf(f)
    BY DEF ReadBusiness, ReadAtOnce, HoldersOf
  <1>5. CASE f = g
    <2>1. HoldersOf(f)' \subseteq {r}
      BY <1>2, <1>4, <1>5 DEF HoldersOf
    <2> QED
      BY <1>1, <1>3, <1>5, <2>1 DEF BusinessInv
  <1>6. CASE f # g
    <2>1. r \notin HoldersOf(f)'
      BY <1>6
    <2>2. HoldersOf(f)' \subseteq HoldersOf(f) \ {r}
      BY <1>2, <2>1 DEF HoldersOf
    <2>3. \A s \in HoldersOf(f)' : business'[s] = business[s]
      BY <2>2 DEF HoldersOf, Same
    <2> QED
      BY <1>3, <2>2, <2>3 DEF BusinessInv
  <1> QED
    BY <1>5, <1>6

\* To write one, by the slot that holds it, leaves none that holds it.
LEMMA ProfileWrite ==
    ASSUME TypeOK, ProfileInv,
           NEW u \in People, NEW r \in ReadersOf(u), NEW row,
           profiles' = [profiles EXCEPT ![u] = row], overlap' = overlap,
           u \notin overlap => wanted'[u] = row,
           \A v \in People \ {u} : wanted'[v] = wanted[v],
           \A s \in Requests \ {r} : Same(s),
           pc'[r] = "idle"
    PROVE  ProfileInv'
  <1> SUFFICES ASSUME NEW v \in People \ overlap
               PROVE  /\ profiles'[v] = wanted'[v]
                      /\ \A s \in ReadersOf(v)' : profile'[s] = profiles'[v]
                      /\ \A s, t \in ReadersOf(v)' : s = t
    BY DEF ProfileInv
  <1>1. ReadersOf(v)' \subseteq ReadersOf(v) \ {r}
    BY DEF ReadersOf, Same, Reading
  <1>2. CASE v = u
    <2>1. ReadersOf(v)' = {}
      BY <1>1, <1>2 DEF ProfileInv
    <2> QED
      BY <1>2, <2>1 DEF TypeOK
  <1>3. CASE v # u
    <2>1. \A s \in ReadersOf(v)' : profile'[s] = profile[s]
      BY <1>1 DEF ReadersOf, Same
    <2> QED
      BY <1>1, <1>3, <2>1 DEF ProfileInv, TypeOK
  <1> QED
    BY <1>2, <1>3

LEMMA BusinessWrite ==
    ASSUME TypeOK, BusinessInv,
           NEW g \in Firms, NEW r \in Requests, NEW row,
           businesses' = [businesses EXCEPT ![g] = row], overlap' = overlap,
           g \notin overlap => wanted'[g] = row,
           \A f \in Firms \ {g} : wanted'[f] = wanted[f],
           \A s \in Requests \ {r} : Same(s),
           HoldersOf(g) = {} \/ r \in HoldersOf(g),
           pc'[r] # "firm_save"
    PROVE  BusinessInv'
  <1> SUFFICES ASSUME NEW f \in Firms \ overlap
               PROVE  /\ businesses'[f] = wanted'[f]
                      /\ \A s \in HoldersOf(f)' : business'[s] = businesses'[f]
                      /\ \A s, t \in HoldersOf(f)' : s = t
    BY DEF BusinessInv
  <1>1. HoldersOf(f)' \subseteq HoldersOf(f) \ {r}
    BY DEF HoldersOf, Same
  <1>2. CASE f = g
    <2>1. HoldersOf(f)' = {}
      BY <1>1, <1>2 DEF BusinessInv
    <2> QED
      BY <1>2, <2>1 DEF TypeOK
  <1>3. CASE f # g
    <2>1. \A s \in HoldersOf(f)' : business'[s] = business[s]
      BY <1>1 DEF HoldersOf, Same
    <2> QED
      BY <1>1, <1>3, <2>1 DEF BusinessInv, TypeOK
  <1> QED
    BY <1>2, <1>3

-----------------------------------------------------------------------------
(* Saves: the last calls of the requests *)

LocalsType ==
    /\ pc \in [Requests -> Steps]
    /\ who \in [Requests -> People \cup {Nobody}]
    /\ firm \in [Requests -> Firms \cup {NoFirm}]
    /\ change \in [Requests -> Changes \cup {NoChange}]
    /\ profile \in [Requests -> Profile \cup {NoRow}]
    /\ business \in [Requests -> Business \cup {NoRow}]
    /\ begun \in Nat

LEMMA DoneEffect ==
    ASSUME TypeOK, NEW r \in Requests, Done(r)
    PROVE  /\ LocalsType'
           /\ \A s \in Requests \ {r} : Same(s)
           /\ pc'[r] = "idle"
           /\ RequestOK(r)'
  <1>1. LocalsType'
    BY DEF TypeOK, LocalsType, Done, Goto, Steps
  <1>2. \A s \in Requests \ {r} : Same(s)
    BY DEF TypeOK, Done, Goto, Same
  <1>3. pc'[r] = "idle" /\ profile'[r] = NoRow
    BY DEF TypeOK, Done, Goto
  <1> QED
    BY <1>1, <1>2, <1>3 DEF RequestOK, Reading, Known

\* A save of a profile writes one row, and tells of the link it puts back.
LEMMA SaveProfileEffect ==
    ASSUME TypeOK, NEW r \in Requests, who[r] \in People, NEW row \in Profile,
           SaveProfile(r, row)
    PROVE  /\ profiles' = [profiles EXCEPT ![who[r]] = row]
           /\ unlinked' \subseteq Firms
  <1>1. profiles[who[r]] # NoRow => profiles[who[r]].firm \in Firms \cup {NoFirm}
    BY DEF TypeOK, Profile
  <1> QED
    BY <1>1 DEF TypeOK, SaveProfile

LEMMA WantEffect ==
    ASSUME TypeOK, NEW x \in People \cup Firms, NEW row, Want(x, row),
           x \notin overlap => row \in Profile \cup Business \cup {NoRow}
    PROVE  /\ wanted' \in [People \cup Firms -> Profile \cup Business \cup {NoRow}]
           /\ x \notin overlap => wanted'[x] = row
           /\ \A y \in (People \cup Firms) \ {x} : wanted'[y] = wanted[y]
  BY DEF TypeOK, Want

\* A request that ends without writing.
LEMMA EndKeeps ==
    ASSUME Inv, NEW r \in Requests, Done(r), UNCHANGED <<tables, wanted, overlap>>,
           unlinked' \subseteq Firms, faults' \in Nat
    PROVE  Inv'
  <1>1. /\ LocalsType' /\ pc'[r] = "idle" /\ RequestOK(r)'
        /\ \A s \in Requests \ {r} : Same(s)
    BY DoneEffect DEF Inv, TypeInv
  <1>2. TypeOK'
    BY <1>1 DEF Inv, TypeInv, TypeOK, LocalsType, tables
  <1>3. \A s \in Requests \ {r} : RequestOK(s)'
    BY <1>1, RequestKept DEF Inv, TypeInv, RequestInv, RowsKept, tables
  <1>4. LinkInv'
    BY DEF Inv, TypeInv, LinkInv, Known, tables
  <1>5. ProfileInv'
    BY <1>1, ProfileElse DEF Inv, tables, ReadersOf, Reading
  <1>6. BusinessInv'
    BY <1>1, BusinessElse DEF Inv, tables, HoldersOf
  <1> QED
    BY <1>1, <1>2, <1>3, <1>4, <1>5, <1>6 DEF Inv, TypeInv, RequestInv

\* A request that ends by writing the profile it read.
LEMMA ProfileSaved ==
    ASSUME Inv, NEW u \in People, NEW r \in ReadersOf(u), NEW row \in Profile \cup {NoRow},
           Done(r), Known(row), row = NoRow => profiles[u] = NoRow,
           profiles' = [profiles EXCEPT ![u] = row],
           wanted' \in [People \cup Firms -> Profile \cup Business \cup {NoRow}],
           u \notin overlap => wanted'[u] = row,
           \A y \in (People \cup Firms) \ {u} : wanted'[y] = wanted[y],
           UNCHANGED <<businesses, overlap, faults>>, unlinked' \subseteq Firms
    PROVE  Inv'
  <1>1. r \in Requests
    BY DEF ReadersOf
  <1>2. /\ LocalsType' /\ pc'[r] = "idle" /\ RequestOK(r)'
        /\ \A s \in Requests \ {r} : Same(s)
    BY <1>1, DoneEffect DEF Inv, TypeInv
  <1>3. profiles' \in [People -> Profile \cup {NoRow}]
    BY DEF Inv, TypeInv, TypeOK
  <1>4. TypeOK'
    BY <1>2, <1>3 DEF Inv, TypeInv, TypeOK, LocalsType
  <1>5. RowsKept
    BY DEF Inv, TypeInv, TypeOK, RowsKept
  <1>6. \A s \in Requests \ {r} : RequestOK(s)'
    BY <1>2, <1>5, RequestKept DEF Inv, TypeInv, RequestInv
  <1>7. LinkInv'
    BY DEF Inv, TypeInv, TypeOK, LinkInv, Known
  <1>8. ProfileInv'
    BY <1>1, <1>2, ProfileWrite DEF Inv, TypeInv
  <1>9. BusinessInv'
    <2>1. \A f \in Firms \ overlap' : wanted'[f] = wanted[f]
      BY PeopleAssumption
    <2> QED
      BY <1>1, <1>2, <2>1, BusinessElse DEF Inv, HoldersOf
  <1> QED
    BY <1>2, <1>4, <1>6, <1>7, <1>8, <1>9 DEF Inv, TypeInv, RequestInv

\* The copy of one that reads alone is typed, and is what the row should be.
LEMMA ReaderCopy ==
    ASSUME Inv, NEW r \in Requests, pc[r] \in Reading
    PROVE  /\ who[r] \in People
           /\ r \in ReadersOf(who[r])
           /\ profile[r] \in Profile \cup {NoRow}
           /\ Known(profile[r])
           /\ who[r] \notin overlap => /\ wanted[who[r]] = profile[r]
                                       /\ profiles[who[r]] = profile[r]
  <1>1. who[r] \in People /\ Known(profile[r]) /\ profile[r] \in Profile \cup {NoRow}
    BY DEF Inv, TypeInv, RequestInv, RequestOK, TypeOK
  <1>2. r \in ReadersOf(who[r])
    BY DEF ReadersOf
  <1> QED
    BY <1>1, <1>2 DEF Inv, ProfileInv

LEMMA ProfileSaveKeeps ==
    ASSUME Inv, NEW r \in Requests, ProfileSave(r)
    PROVE  Inv'
  <1> DEFINE u == who[r]
             Set(row) == With(row, Kind(u))
  <1>1. /\ u \in People /\ r \in ReadersOf(u)
        /\ profile[r] \in Profile \cup {NoRow} /\ Known(profile[r])
        /\ u \notin overlap => wanted[u] = profile[r]
    BY ReaderCopy DEF ProfileSave, Reading
  <1>2. Done(r) /\ UNCHANGED <<businesses, overlap, faults>>
    BY DEF ProfileSave
  <1>3. CASE /\ profile[r] # NoRow
             /\ SaveProfile(r, Set(profile[r]))
             /\ Want(u, Set(wanted[u]))
    <2>1. Set(profile[r]) \in Profile /\ Known(Set(profile[r]))
      BY <1>1, <1>3, WithProfile DEF Known
    <2>2. Set(profile[r]) # NoRow
      BY <2>1, RowAssumption
    <2>3. u \notin overlap => Set(wanted[u]) = Set(profile[r])
      BY <1>1
    <2>4. profiles' = [profiles EXCEPT ![u] = Set(profile[r])] /\ unlinked' \subseteq Firms
      BY <1>1, <1>3, <2>1, SaveProfileEffect DEF Inv, TypeInv
    <2> HIDE DEF Set, u
    <2> QED
      BY <1>1, <1>2, <1>3, <2>1, <2>2, <2>3, <2>4, WantEffect, ProfileSaved DEF Inv, TypeInv
  <1>4. CASE /\ profile[r] = NoRow /\ profiles[u] = NoRow
             /\ SaveProfile(r, Set(NewProfile))
             /\ Want(u, Set(NewProfile))
    <2>1. Set(NewProfile) \in Profile /\ Known(Set(NewProfile))
      BY NewProfileType, WithProfile DEF Known, NewProfile
    <2>2. Set(NewProfile) # NoRow
      BY <2>1, RowAssumption
    <2>3. profiles' = [profiles EXCEPT ![u] = Set(NewProfile)] /\ unlinked' \subseteq Firms
      BY <1>1, <1>4, <2>1, SaveProfileEffect DEF Inv, TypeInv
    <2> HIDE DEF Set, u
    <2> QED
      BY <1>1, <1>2, <1>4, <2>1, <2>2, <2>3, WantEffect, ProfileSaved DEF Inv, TypeInv
  <1>5. CASE UNCHANGED <<profiles, wanted, unlinked>>
    BY <1>2, <1>5, EndKeeps DEF tables, Inv, TypeInv, TypeOK
  <1> QED
    BY <1>3, <1>4, <1>5 DEF ProfileSave

LEMMA PermitSaveKeeps ==
    ASSUME Inv, NEW r \in Requests, PermitSave(r)
    PROVE  Inv'
  <1> DEFINE u == who[r]
             row == With(profile[r], change[r])
  <1>1. /\ u \in People /\ r \in ReadersOf(u)
        /\ profile[r] \in Profile /\ Known(profile[r])
        /\ change[r] \in [permit : BOOLEAN]
        /\ u \notin overlap => wanted[u] = profile[r]
    BY ReaderCopy DEF PermitSave, Reading, Inv, TypeInv, RequestInv, RequestOK
  <1>2. row \in Profile /\ row.firm = profile[r].firm
    BY <1>1, WithProfile
  <1>3. row # NoRow /\ Known(row)
    BY <1>1, <1>2, RowAssumption DEF Known
  <1>4. /\ profiles' = [profiles EXCEPT ![u] = row] /\ unlinked' \subseteq Firms
        /\ Want(u, With(wanted[u], change[r]))
        /\ Done(r) /\ UNCHANGED <<businesses, overlap, faults>>
    BY <1>1, <1>2, SaveProfileEffect DEF PermitSave, Inv, TypeInv
  <1>5. u \notin overlap => With(wanted[u], change[r]) = row
    BY <1>1
  <1> HIDE DEF row, u
  <1> QED
    BY <1>1, <1>2, <1>3, <1>4, <1>5, WantEffect, ProfileSaved DEF Inv, TypeInv

LEMMA LinkKeeps ==
    ASSUME Inv, NEW r \in Requests, Link(r)
    PROVE  Inv'
  <1> DEFINE u == who[r]
             ch == [firm |-> firm[r]]
             row == With(profile[r], ch)
  <1>1. /\ u \in People /\ r \in ReadersOf(u)
        /\ profile[r] \in Profile
        /\ firm[r] \in Firms /\ businesses[firm[r]] # NoRow
        /\ u \notin overlap => wanted[u] = profile[r]
    BY ReaderCopy DEF Link, Reading, Inv, TypeInv, RequestInv, RequestOK
  <1>2. row \in Profile /\ row.firm = firm[r]
    BY <1>1, WithProfile
  <1>3. row # NoRow /\ Known(row)
    BY <1>1, <1>2, RowAssumption DEF Known
  <1>4. /\ profiles' = [profiles EXCEPT ![u] = row] /\ unlinked' \subseteq Firms
        /\ Want(u, With(wanted[u], ch))
        /\ Done(r) /\ UNCHANGED <<businesses, overlap, faults>>
    BY <1>1, <1>2, SaveProfileEffect DEF Link, Inv, TypeInv
  <1>5. u \notin overlap => With(wanted[u], ch) = row
    BY <1>1
  <1> HIDE DEF row, u, ch
  <1> QED
    BY <1>1, <1>2, <1>3, <1>4, <1>5, WantEffect, ProfileSaved DEF Inv, TypeInv

LEMMA UserSaveKeeps ==
    ASSUME Inv, NEW r \in Requests, UserSave(r)
    PROVE  Inv'
  <1> DEFINE u == who[r]
  <1>1. /\ u \in People /\ r \in ReadersOf(u)
        /\ profile[r] \in Profile \cup {NoRow} /\ Known(profile[r])
        /\ u \notin overlap => wanted[u] = profile[r]
    BY ReaderCopy DEF UserSave, Reading
  <1>2. Done(r) /\ UNCHANGED <<businesses, wanted, overlap, faults>>
    BY DEF UserSave
  <1>3. CASE profile[r] = NoRow
    <2>1. UNCHANGED <<profiles, unlinked>>
      BY <1>3 DEF UserSave
    <2> QED
      BY <1>2, <2>1, EndKeeps DEF tables, Inv, TypeInv, TypeOK
  <1>4. CASE profile[r] # NoRow
    <2>1. profiles' = [profiles EXCEPT ![u] = profile[r]] /\ unlinked' \subseteq Firms
      BY <1>1, <1>4, SaveProfileEffect DEF UserSave, Inv, TypeInv
    <2>2. wanted \in [People \cup Firms -> Profile \cup Business \cup {NoRow}]
      BY DEF Inv, TypeInv, TypeOK
    <2> HIDE DEF u
    <2> QED
      BY <1>1, <1>2, <1>4, <2>1, <2>2, ProfileSaved
  <1> QED
    BY <1>3, <1>4

-----------------------------------------------------------------------------
(* First calls and finds *)

LEMMA ReadProfileEffect ==
    ASSUME Inv, NEW r \in Requests, NEW u \in People, ReadProfile(r, u)
    PROVE  /\ profile' \in [Requests -> Profile \cup {NoRow}]
           /\ profile'[r] = profiles[u]
           /\ Known(profile'[r])
           /\ \A s \in Requests \ {r} : profile'[s] = profile[s]
           /\ wanted' \in [People \cup Firms -> Profile \cup Business \cup {NoRow}]
           /\ overlap \subseteq overlap' /\ overlap' \subseteq People \cup Firms
           /\ \A f \in Firms : wanted'[f] = wanted[f]
  BY PeopleAssumption DEF ReadProfile, ReadAtOnce, Inv, TypeInv, TypeOK, LinkInv

LEMMA ReadBusinessEffect ==
    ASSUME Inv, NEW r \in Requests, NEW f \in Firms, ReadBusiness(r, f)
    PROVE  /\ business' \in [Requests -> Business \cup {NoRow}]
           /\ business'[r] = businesses[f]
           /\ \A s \in Requests \ {r} : business'[s] = business[s]
           /\ wanted' \in [People \cup Firms -> Profile \cup Business \cup {NoRow}]
           /\ overlap \subseteq overlap' /\ overlap' \subseteq People \cup Firms
           /\ \A u \in People : wanted'[u] = wanted[u]
  BY PeopleAssumption DEF ReadBusiness, ReadAtOnce, Inv, TypeInv, TypeOK

LEMMA BeginEffect ==
    ASSUME TypeOK, NEW r \in Requests, NEW step \in Steps, NEW u \in People \cup {Nobody},
           NEW f \in Firms \cup {NoFirm}, NEW ch \in Changes \cup {NoChange},
           Begin(r, step, u, f, ch)
    PROVE  /\ pc' \in [Requests -> Steps]
           /\ who' \in [Requests -> People \cup {Nobody}]
           /\ firm' \in [Requests -> Firms \cup {NoFirm}]
           /\ change' \in [Requests -> Changes \cup {NoChange}]
           /\ begun' \in Nat
           /\ pc[r] = "idle"
           /\ pc'[r] = step /\ who'[r] = u /\ firm'[r] = f /\ change'[r] = ch
           /\ \A s \in Requests \ {r} :
                 /\ pc'[s] = pc[s] /\ who'[s] = who[s]
                 /\ firm'[s] = firm[s] /\ change'[s] = change[s]
  BY DEF TypeOK, Begin, Goto

\* A request that begins by reading a profile.
LEMMA BeginReadKeeps ==
    ASSUME Inv, NEW r \in Requests, NEW u \in People,
           NEW step \in {"profile_save", "user_save", "firm_find"},
           NEW ch \in Changes \cup {NoChange},
           step = "firm_find" => ch \in [number : Numbers] /\ profiles[u] # NoRow,
           Begin(r, step, u, NoFirm, ch), ReadProfile(r, u),
           UNCHANGED <<tables, business, unlinked, faults>>
    PROVE  Inv'
  <1> step \in Steps
    BY DEF Steps
  <1>1. /\ pc' \in [Requests -> Steps]
        /\ who' \in [Requests -> People \cup {Nobody}]
        /\ firm' \in [Requests -> Firms \cup {NoFirm}]
        /\ change' \in [Requests -> Changes \cup {NoChange}] /\ begun' \in Nat
        /\ pc'[r] = step /\ who'[r] = u /\ change'[r] = ch
        /\ \A s \in Requests \ {r} :
              /\ pc'[s] = pc[s] /\ who'[s] = who[s]
              /\ firm'[s] = firm[s] /\ change'[s] = change[s]
    BY BeginEffect DEF Inv, TypeInv
  <1>2. /\ profile' \in [Requests -> Profile \cup {NoRow}]
        /\ profile'[r] = profiles[u] /\ Known(profile'[r])
        /\ \A s \in Requests \ {r} : profile'[s] = profile[s]
        /\ wanted' \in [People \cup Firms -> Profile \cup Business \cup {NoRow}]
        /\ overlap \subseteq overlap' /\ overlap' \subseteq People \cup Firms
        /\ \A f \in Firms : wanted'[f] = wanted[f]
    BY ReadProfileEffect
  <1>3. \A s \in Requests \ {r} : Same(s)
    BY <1>1, <1>2 DEF Same
  <1>4. TypeOK'
    BY <1>1, <1>2 DEF Inv, TypeInv, TypeOK, tables
  <1>5. RequestOK(r)'
    BY <1>1, <1>2 DEF RequestOK, Known, tables
  <1>6. \A s \in Requests \ {r} : RequestOK(s)'
    BY <1>3, RequestKept DEF Inv, TypeInv, RequestInv, RowsKept, tables
  <1>7. LinkInv'
    BY DEF Inv, TypeInv, LinkInv, Known, tables
  <1>8. ProfileInv'
    <2>1. \A v \in People : r \in ReadersOf(v)' => v = u
      BY <1>1 DEF ReadersOf
    <2> QED
      BY <1>3, <2>1, ProfileRead DEF Inv, TypeInv, tables
  <1>9. BusinessInv'
    <2>1. \A f \in Firms : r \notin HoldersOf(f)'
      BY <1>1 DEF HoldersOf
    <2> QED
      BY <1>2, <1>3, <2>1, BusinessElse DEF Inv, tables
  <1> QED
    BY <1>4, <1>5, <1>6, <1>7, <1>8, <1>9 DEF Inv, TypeInv, RequestInv

\* A request that begins by reading a business, to save it.
LEMMA BeginHoldKeeps ==
    ASSUME Inv, NEW r \in Requests, NEW g \in Firms, businesses[g] # NoRow,
           NEW ch \in FirmChanges,
           Begin(r, "firm_save", Nobody, g, ch), ReadBusiness(r, g),
           UNCHANGED <<tables, profile, unlinked, faults>>
    PROVE  Inv'
  <1>1. /\ pc' \in [Requests -> Steps]
        /\ who' \in [Requests -> People \cup {Nobody}]
        /\ firm' \in [Requests -> Firms \cup {NoFirm}]
        /\ change' \in [Requests -> Changes \cup {NoChange}] /\ begun' \in Nat
        /\ pc'[r] = "firm_save" /\ firm'[r] = g /\ change'[r] = ch
        /\ \A s \in Requests \ {r} :
              /\ pc'[s] = pc[s] /\ who'[s] = who[s]
              /\ firm'[s] = firm[s] /\ change'[s] = change[s]
    <2>1. ch \in Changes \cup {NoChange} /\ "firm_save" \in Steps
      BY DEF FirmChanges, Changes, Steps
    <2> QED
      BY <2>1, BeginEffect DEF Inv, TypeInv
  <1>2. /\ business' \in [Requests -> Business \cup {NoRow}]
        /\ business'[r] = businesses[g]
        /\ \A s \in Requests \ {r} : business'[s] = business[s]
        /\ wanted' \in [People \cup Firms -> Profile \cup Business \cup {NoRow}]
        /\ overlap \subseteq overlap' /\ overlap' \subseteq People \cup Firms
        /\ \A u \in People : wanted'[u] = wanted[u]
    BY ReadBusinessEffect
  <1>3. \A s \in Requests \ {r} : Same(s)
    BY <1>1, <1>2 DEF Same
  <1>4. TypeOK'
    BY <1>1, <1>2 DEF Inv, TypeInv, TypeOK, tables
  <1>5. RequestOK(r)'
    <2>1. Known(profile[r])
      BY DEF Inv, TypeInv, RequestInv, RequestOK
    <2> QED
      BY <1>1, <1>2, <2>1 DEF RequestOK, Known, tables, Reading
  <1>6. \A s \in Requests \ {r} : RequestOK(s)'
    BY <1>3, RequestKept DEF Inv, TypeInv, RequestInv, RowsKept, tables
  <1>7. LinkInv'
    BY DEF Inv, TypeInv, LinkInv, Known, tables
  <1>8. ProfileInv'
    <2>1. \A v \in People : r \notin ReadersOf(v)'
      BY <1>1 DEF ReadersOf, Reading
    <2> QED
      BY <1>2, <1>3, <2>1, ProfileElse DEF Inv, tables
  <1>9. BusinessInv'
    <2>1. \A f \in Firms : r \in HoldersOf(f)' => f = g
      BY <1>1 DEF HoldersOf
    <2> QED
      BY <1>3, <2>1, BusinessRead DEF Inv, TypeInv, tables
  <1> QED
    BY <1>4, <1>5, <1>6, <1>7, <1>8, <1>9 DEF Inv, TypeInv, RequestInv

LEMMA ArriveKeeps ==
    ASSUME Inv, NEW r \in Requests, Arrive(r)
    PROVE  Inv'
  <1>1. ASSUME NEW u \in People, UpdateProfile(r, u) PROVE Inv'
    BY <1>1, BeginReadKeeps DEF UpdateProfile
  <1>2. ASSUME NEW u \in People, ReadUser(r, u) PROVE Inv'
    BY <1>2, BeginReadKeeps DEF ReadUser
  <1>3. ASSUME NEW u \in People, NEW n \in Numbers, CreateBusinessProfile(r, u, n)
        PROVE  Inv'
    <2>1. [number |-> n] \in [number : Numbers] /\ [number |-> n] \in Changes
      BY DEF Changes
    <2> QED
      BY <1>3, <2>1, BeginReadKeeps DEF CreateBusinessProfile
  <1>4. ASSUME NEW u \in People, NEW ch \in FirmChanges, UpdateBusinessProfile(r, u, ch)
        PROVE  Inv'
    <2>1. profiles[u].firm \in Firms /\ businesses[profiles[u].firm] # NoRow
      <3>1. profiles[u] \in Profile
        BY <1>4 DEF UpdateBusinessProfile, Inv, TypeInv, TypeOK
      <3> QED
        BY <1>4, <3>1 DEF UpdateBusinessProfile, Inv, TypeInv, LinkInv, Known, Profile
    <2> QED
      BY <1>4, <2>1, BeginHoldKeeps DEF UpdateBusinessProfile
  <1>5. ASSUME NEW f \in Firms, VerifyBusiness(r, f) PROVE Inv'
    <2>1. [approved |-> TRUE] \in FirmChanges
      BY DEF FirmChanges
    <2> QED
      BY <1>5, <2>1, BeginHoldKeeps DEF VerifyBusiness
  <1>6. ASSUME NEW u \in People, NEW ch \in [permit : BOOLEAN], UpdateWorkPermit(r, u, ch)
        PROVE  Inv'
    <2>1. /\ pc' \in [Requests -> Steps]
          /\ who' \in [Requests -> People \cup {Nobody}]
          /\ firm' \in [Requests -> Firms \cup {NoFirm}]
          /\ change' \in [Requests -> Changes \cup {NoChange}] /\ begun' \in Nat
          /\ pc'[r] = "permit_find" /\ who'[r] = u /\ change'[r] = ch
          /\ \A s \in Requests \ {r} :
                /\ pc'[s] = pc[s] /\ who'[s] = who[s]
                /\ firm'[s] = firm[s] /\ change'[s] = change[s]
      <3>1. ch \in Changes \cup {NoChange} /\ "permit_find" \in Steps
        BY DEF Changes, Steps
      <3> QED
        BY <1>6, <3>1, BeginEffect DEF UpdateWorkPermit, Inv, TypeInv
    <2>2. UNCHANGED <<tables, profile, business, history, faults>> /\ profiles[u] # NoRow
      BY <1>6 DEF UpdateWorkPermit
    <2>3. \A s \in Requests \ {r} : Same(s)
      BY <2>1, <2>2 DEF Same
    <2>4. TypeOK'
      BY <2>1, <2>2 DEF Inv, TypeInv, TypeOK, tables, history
    <2>5. RequestOK(r)'
      <3>1. Known(profile[r])
        BY DEF Inv, TypeInv, RequestInv, RequestOK
      <3> QED
        BY <2>1, <2>2, <3>1 DEF RequestOK, Known, tables
    <2>6. \A s \in Requests \ {r} : RequestOK(s)'
      BY <2>2, <2>3, RequestKept DEF Inv, TypeInv, RequestInv, RowsKept, tables
    <2>7. LinkInv'
      BY <2>2 DEF Inv, TypeInv, LinkInv, Known, tables
    <2>8. \A x : r \notin ReadersOf(x)' /\ r \notin HoldersOf(x)'
      BY <2>1 DEF ReadersOf, HoldersOf, Reading
    <2>9. ProfileInv' /\ BusinessInv'
      BY <2>2, <2>3, <2>8, ProfileElse, BusinessElse DEF Inv, tables, history
    <2> QED
      BY <2>4, <2>5, <2>6, <2>7, <2>9 DEF Inv, TypeInv, RequestInv
  <1> QED
    BY <1>1, <1>2, <1>3, <1>4, <1>5, <1>6 DEF Arrive, FirmChanges

LEMMA PermitFindKeeps ==
    ASSUME Inv, NEW r \in Requests, PermitFind(r)
    PROVE  Inv'
  <1> DEFINE u == who[r]
  <1>1. u \in People /\ profiles[u] # NoRow /\ change[r] \in [permit : BOOLEAN]
    BY DEF PermitFind, Inv, TypeInv, RequestInv, RequestOK
  <1>2. /\ ReadProfile(r, u)
        /\ UNCHANGED <<tables, who, firm, change, business, unlinked, begun, faults>>
    BY DEF PermitFind
  <1>3. /\ profile' \in [Requests -> Profile \cup {NoRow}]
        /\ profile'[r] = profiles[u] /\ Known(profile'[r])
        /\ \A s \in Requests \ {r} : profile'[s] = profile[s]
        /\ wanted' \in [People \cup Firms -> Profile \cup Business \cup {NoRow}]
        /\ overlap \subseteq overlap' /\ overlap' \subseteq People \cup Firms
        /\ \A f \in Firms : wanted'[f] = wanted[f]
    BY <1>1, <1>2, ReadProfileEffect
  <1>4. /\ pc' \in [Requests -> Steps] /\ pc'[r] = "permit_save"
        /\ \A s \in Requests \ {r} : pc'[s] = pc[s]
    BY DEF PermitFind, Goto, Steps, Inv, TypeInv, TypeOK
  <1>5. \A s \in Requests \ {r} : Same(s)
    BY <1>2, <1>3, <1>4 DEF Same
  <1>6. TypeOK'
    BY <1>2, <1>3, <1>4 DEF Inv, TypeInv, TypeOK, tables
  <1>7. RequestOK(r)'
    BY <1>1, <1>2, <1>3, <1>4 DEF RequestOK, Known, tables
  <1>8. \A s \in Requests \ {r} : RequestOK(s)'
    BY <1>2, <1>5, RequestKept DEF Inv, TypeInv, RequestInv, RowsKept, tables
  <1>9. LinkInv'
    BY <1>2 DEF Inv, TypeInv, LinkInv, Known, tables
  <1>10. ProfileInv'
    <2>1. \A v \in People : r \in ReadersOf(v)' => v = u
      BY <1>2 DEF ReadersOf
    <2> QED
      BY <1>1, <1>2, <1>5, <2>1, ProfileRead DEF Inv, TypeInv, tables
  <1>11. BusinessInv'
    <2>1. \A f \in Firms : r \notin HoldersOf(f)'
      BY <1>4 DEF HoldersOf
    <2> QED
      BY <1>2, <1>3, <1>5, <2>1, BusinessElse DEF Inv, tables
  <1> QED
    BY <1>6, <1>7, <1>8, <1>9, <1>10, <1>11 DEF Inv, TypeInv, RequestInv

\* createBusinessProfile: to go on to the link, or to the insert.
LEMMA FirmFindKeeps ==
    ASSUME Inv, NEW r \in Requests, FirmFind(r)
    PROVE  Inv'
  <1>1. /\ pc[r] = "firm_find"
        /\ UNCHANGED <<tables, who, change, profile, business, history, begun, faults>>
    BY DEF FirmFind
  <1>2. /\ pc' \in [Requests -> Steps] /\ pc'[r] \in {"link", "firm_insert"}
        /\ \A s \in Requests \ {r} : pc'[s] = pc[s] /\ firm'[s] = firm[s]
        /\ firm' \in [Requests -> Firms \cup {NoFirm}]
        /\ pc'[r] = "link" => firm'[r] \in Firms /\ businesses[firm'[r]] # NoRow
    BY DEF FirmFind, Goto, Steps, Inv, TypeInv, TypeOK
  <1>3. \A s \in Requests \ {r} : Same(s)
    BY <1>1, <1>2 DEF Same
  <1>4. TypeOK'
    BY <1>1, <1>2 DEF Inv, TypeInv, TypeOK, tables, history
  <1>5. RequestOK(r)'
    <2>1. RequestOK(r)
      BY DEF Inv, TypeInv, RequestInv
    <2> QED
      BY <1>1, <1>2, <2>1 DEF RequestOK, Known, tables, Reading
  <1>6. \A s \in Requests \ {r} : RequestOK(s)'
    BY <1>1, <1>3, RequestKept DEF Inv, TypeInv, RequestInv, RowsKept, tables
  <1>7. LinkInv'
    BY <1>1 DEF Inv, TypeInv, LinkInv, Known, tables
  <1>8. ProfileInv'
    <2>1. \A u \in People : r \in ReadersOf(u)' => r \in ReadersOf(u)
      BY <1>1 DEF ReadersOf, Reading
    <2> QED
      BY <1>1, <1>3, <2>1, ProfileElse DEF Inv, tables, history
  <1>9. BusinessInv'
    <2>1. \A f \in Firms : r \notin HoldersOf(f)'
      BY <1>2 DEF HoldersOf
    <2> QED
      BY <1>1, <1>3, <2>1, BusinessElse DEF Inv, tables, history
  <1> QED
    BY <1>4, <1>5, <1>6, <1>7, <1>8, <1>9 DEF Inv, TypeInv, RequestInv

\* A business is inserted where nobody can hold a copy of one.
LEMMA FirmInsertKeeps ==
    ASSUME Inv, NEW r \in Requests, FirmInsert(r)
    PROVE  Inv'
  <1> DEFINE row == [number |-> change[r].number, approved |-> FALSE]
  <1>1. pc[r] = "firm_insert" /\ UNCHANGED <<profiles, unlinked, overlap, faults>>
    BY DEF FirmInsert
  <1>2. row \in Business
    BY <1>1 DEF Inv, TypeInv, RequestInv, RequestOK, Business
  <1>3. ASSUME NEW f \in Firms,
               /\ businesses[f] = NoRow
               /\ businesses' = [businesses EXCEPT ![f] = row]
               /\ Want(f, row)
               /\ firm' = [firm EXCEPT ![r] = f],
               Goto(r, "link"), UNCHANGED <<who, change, profile, business, begun>>
        PROVE  Inv'
    <2> HIDE DEF row
    <2>1. /\ wanted' \in [People \cup Firms -> Profile \cup Business \cup {NoRow}]
          /\ f \notin overlap => wanted'[f] = row
          /\ \A y \in (People \cup Firms) \ {f} : wanted'[y] = wanted[y]
      BY <1>2, <1>3, WantEffect DEF Inv, TypeInv
    <2>2. /\ pc' \in [Requests -> Steps] /\ pc'[r] = "link"
          /\ firm' \in [Requests -> Firms \cup {NoFirm}] /\ firm'[r] = f
          /\ \A s \in Requests \ {r} : pc'[s] = pc[s] /\ firm'[s] = firm[s]
      BY <1>3 DEF Goto, Steps, Inv, TypeInv, TypeOK
    <2>3. \A s \in Requests \ {r} : Same(s)
      BY <1>3, <2>2 DEF Same
    <2>4. businesses' \in [Firms -> Business \cup {NoRow}]
      BY <1>2, <1>3 DEF Inv, TypeInv, TypeOK
    <2>6. TypeOK'
      BY <1>1, <1>3, <2>1, <2>2, <2>4 DEF Inv, TypeInv, TypeOK
    <2>7. RowsKept /\ businesses'[f] # NoRow
      BY <1>1, <1>2, <1>3, RowAssumption DEF RowsKept, Inv, TypeInv, TypeOK
    <2>8. RequestOK(r)'
      <3>1. RequestOK(r) /\ profile[r] \in Profile \cup {NoRow}
        BY DEF Inv, TypeInv, RequestInv, TypeOK
      <3>2. Known(profile[r])'
        <4>1. Known(profile[r])
          BY <3>1 DEF RequestOK
        <4> QED
          BY <1>3, <2>7, <3>1, <4>1, LinkedKept DEF Known
      <3> QED
        BY <1>1, <1>3, <2>2, <2>7, <3>1, <3>2 DEF RequestOK, Reading
    <2>9. \A s \in Requests \ {r} : RequestOK(s)'
      BY <2>3, <2>7, RequestKept DEF Inv, TypeInv, RequestInv
    <2>10. LinkInv'
      <3>1. \A u \in People : Known(profiles[u]) /\ profiles[u] \in Profile \cup {NoRow}
        BY DEF Inv, TypeInv, LinkInv, TypeOK
      <3>2. \A u \in People : Known(profiles[u])'
        BY <1>1, <2>7, <3>1, LinkedKept DEF Known
      <3> QED
        BY <3>2 DEF LinkInv
    <2>11. ProfileInv'
      <3>1. \A u \in People : r \in ReadersOf(u)' => r \in ReadersOf(u)
        BY <1>1, <1>3 DEF ReadersOf, Reading
      <3>2. \A u \in People \ overlap' : wanted'[u] = wanted[u]
        BY <2>1, PeopleAssumption
      <3> QED
        BY <1>1, <1>3, <2>3, <3>1, <3>2, ProfileElse DEF Inv
    <2>12. BusinessInv'
      <3>1. HoldersOf(f) = {}
        BY <1>3 DEF HoldersOf, Inv, TypeInv, RequestInv, RequestOK
      <3> QED
        BY <1>1, <1>3, <2>1, <2>2, <2>3, <3>1, BusinessWrite DEF Inv, TypeInv
    <2> QED
      BY <2>6, <2>8, <2>9, <2>10, <2>11, <2>12 DEF Inv, TypeInv, RequestInv
  <1>4. CASE Done(r) /\ UNCHANGED <<businesses, wanted>>
    BY <1>1, <1>4, EndKeeps DEF tables, Inv, TypeInv, TypeOK
  <1> QED
    BY <1>3, <1>4 DEF FirmInsert

LEMMA FirmSaveKeeps ==
    ASSUME Inv, NEW r \in Requests, FirmSave(r)
    PROVE  Inv'
  <1> DEFINE g == firm[r]
             row == With(business[r], change[r])
  <1>1. pc[r] = "firm_save" /\ Done(r) /\ UNCHANGED <<profiles, unlinked, overlap, faults>>
    BY DEF FirmSave
  <1>2. /\ g \in Firms /\ businesses[g] # NoRow
        /\ business[r] \in Business /\ change[r] \in FirmChanges
    BY <1>1 DEF Inv, TypeInv, RequestInv, RequestOK, TypeOK
  <1>3. row \in Business
    BY <1>2, WithBusiness
  <1>4. r \in HoldersOf(g) /\ (g \notin overlap => wanted[g] = business[r])
    BY <1>1, <1>2 DEF HoldersOf, Inv, BusinessInv
  <1>5. CASE /\ businesses' = [businesses EXCEPT ![g] = row]
             /\ Want(g, With(wanted[g], change[r]))
    <2>1. g \notin overlap => With(wanted[g], change[r]) = row
      BY <1>4
    <2> HIDE DEF row, g
    <2>2. /\ wanted' \in [People \cup Firms -> Profile \cup Business \cup {NoRow}]
          /\ g \notin overlap => wanted'[g] = row
          /\ \A y \in (People \cup Firms) \ {g} : wanted'[y] = wanted[y]
      BY <1>2, <1>3, <1>5, <2>1, WantEffect DEF Inv, TypeInv
    <2>3. /\ LocalsType' /\ pc'[r] = "idle" /\ RequestOK(r)'
          /\ \A s \in Requests \ {r} : Same(s)
      BY <1>1, DoneEffect DEF Inv, TypeInv
    <2>4. businesses' \in [Firms -> Business \cup {NoRow}]
      BY <1>3, <1>5 DEF Inv, TypeInv, TypeOK
    <2>5. TypeOK'
      BY <1>1, <2>2, <2>3, <2>4 DEF Inv, TypeInv, TypeOK, LocalsType
    <2>6. RowsKept
      BY <1>1, <1>3, <1>5, RowAssumption DEF RowsKept, Inv, TypeInv, TypeOK
    <2>7. \A s \in Requests \ {r} : RequestOK(s)'
      BY <2>3, <2>6, RequestKept DEF Inv, TypeInv, RequestInv
    <2>8. LinkInv'
      <3>1. \A u \in People : Known(profiles[u]) /\ profiles[u] \in Profile \cup {NoRow}
        BY DEF Inv, TypeInv, LinkInv, TypeOK
      <3>2. \A u \in People : Known(profiles[u])'
        BY <1>1, <2>6, <3>1, LinkedKept DEF Known
      <3> QED
        BY <3>2 DEF LinkInv
    <2>9. ProfileInv'
      <3>1. \A u \in People : r \notin ReadersOf(u)'
        BY <2>3 DEF ReadersOf, Reading
      <3>2. \A u \in People \ overlap' : wanted'[u] = wanted[u]
        BY <1>2, <2>2, PeopleAssumption
      <3> QED
        BY <1>1, <2>3, <3>1, <3>2, ProfileElse DEF Inv
    <2>10. BusinessInv'
      BY <1>1, <1>2, <1>4, <1>5, <2>2, <2>3, BusinessWrite DEF Inv, TypeInv
    <2> QED
      BY <2>3, <2>5, <2>7, <2>8, <2>9, <2>10 DEF Inv, TypeInv, RequestInv
  <1>6. CASE UNCHANGED <<businesses, wanted>>
    BY <1>1, <1>6, EndKeeps DEF tables, Inv, TypeInv, TypeOK
  <1> QED
    BY <1>5, <1>6 DEF FirmSave

-----------------------------------------------------------------------------
(* The theorems *)

LEMMA InitInv == Init => Inv
  <1> SUFFICES ASSUME Init PROVE Inv
    OBVIOUS
  <1>1. TypeOK
    BY NewProfileType DEF Init, TypeOK, Steps
  <1>2. RequestInv
    BY DEF Init, RequestInv, RequestOK, Reading, Known
  <1>3. LinkInv
    BY DEF Init, LinkInv, Known, NewProfile
  <1>4. ProfileInv /\ BusinessInv
    BY PeopleAssumption DEF Init, ProfileInv, BusinessInv, ReadersOf, HoldersOf, Reading
  <1> QED
    BY <1>1, <1>2, <1>3, <1>4 DEF Inv, TypeInv

LEMMA InvStep == Inv /\ [Next]_vars => Inv'
  <1> SUFFICES ASSUME Inv, [Next]_vars PROVE Inv'
    OBVIOUS
  <1>1. CASE UNCHANGED vars
    <2>1. TypeOK' /\ LinkInv'
      BY <1>1 DEF vars, Inv, TypeInv, TypeOK, LinkInv, Known
    <2>2. RequestInv'
      BY <1>1 DEF vars, Inv, TypeInv, RequestInv, RequestOK, Known
    <2>3. ProfileInv' /\ BusinessInv'
      BY <1>1 DEF vars, Inv, ProfileInv, BusinessInv, ReadersOf, HoldersOf
    <2> QED
      BY <2>1, <2>2, <2>3 DEF Inv, TypeInv
  <1>2. ASSUME NEW r \in Requests, Arrive(r) PROVE Inv'
    BY <1>2, ArriveKeeps
  <1>3. ASSUME NEW r \in Requests, Proceed(r) PROVE Inv'
    BY <1>3, ProfileSaveKeeps, PermitFindKeeps, PermitSaveKeeps, UserSaveKeeps,
       FirmFindKeeps, FirmInsertKeeps, LinkKeeps, FirmSaveKeeps DEF Proceed
  <1>4. ASSUME NEW r \in Requests, Abort(r) PROVE Inv'
    <2>1. unlinked' \subseteq Firms
      BY <1>4 DEF Abort, Inv, TypeInv, RequestInv, RequestOK, TypeOK
    <2> QED
      BY <1>4, <2>1, EndKeeps DEF Abort, Inv, TypeInv, TypeOK
  <1> QED
    BY <1>1, <1>2, <1>3, <1>4 DEF Next

LEMMA InvAlways == Spec => []Inv
  BY InitInv, InvStep, PTL DEF Spec

\* TypeCorrect: every variable keeps its type: in particular no save of a copy
\* read earlier writes one that was never read.
THEOREM TypeCorrect == Spec => []TypeOK
  <1>1. Inv => TypeOK
    BY DEF Inv, TypeInv
  <1> QED
    BY <1>1, InvAlways, PTL

\* ProfilesAlwaysKept: however many handlers save profiles whole, one that no two
\* have read at once is what its columns were last set to.
THEOREM ProfilesAlwaysKept == Spec => []ProfilesKept
  <1>1. Inv => ProfilesKept
    BY DEF Inv, ProfileInv, ProfilesKept
  <1> QED
    BY <1>1, InvAlways, PTL

\* ApprovalsAlwaysKept: nor does a business lose an approval or its number.
THEOREM ApprovalsAlwaysKept == Spec => []ApprovalsKept
  <1>1. Inv => ApprovalsKept
    BY DEF Inv, BusinessInv, ApprovalsKept
  <1> QED
    BY <1>1, InvAlways, PTL

-----------------------------------------------------------------------------
(* Businesses nobody belongs to: only a profile without a business is ever     *)
(* given one, and every other save writes the link it read, so that a link is  *)
(* lost only to a save of a profile read before it.                            *)

NoLinkInv ==
    \A r \in Requests :
        pc[r] \in {"firm_find", "firm_insert", "link"} => profile[r].firm = NoFirm

LinkComing(f) == \E r \in Requests : pc[r] = "link" /\ firm[r] = f

MemberInv == NoLinkInv /\ BusinessesLinked

\* A step that inserts no business.
LEMMA MemberElse ==
    ASSUME MemberInv, NEW r \in Requests,
           \A s \in Requests \ {r} : Same(s),
           \A f \in Firms : businesses'[f] # NoRow => businesses[f] # NoRow,
           \A f \in Firms : Linked(f) \/ f \in unlinked => Linked(f)' \/ f \in unlinked',
           \A f \in Firms : pc[r] = "link" /\ firm[r] = f => Linked(f)' \/ f \in unlinked',
           pc'[r] \in {"firm_find", "firm_insert", "link"} => profile'[r].firm = NoFirm
    PROVE  MemberInv'
  <1>1. NoLinkInv'
    BY DEF MemberInv, NoLinkInv, Same
  <1>2. ASSUME NEW f \in Firms, businesses'[f] # NoRow
        PROVE  Linked(f)' \/ LinkComing(f)' \/ f \in unlinked'
    <2>1. businesses[f] # NoRow
      BY <1>2
    <2>2. Linked(f) \/ f \in unlinked \/ LinkComing(f)
      BY <2>1 DEF MemberInv, BusinessesLinked, LinkComing
    <2>3. CASE LinkComing(f)
      <3>1. PICK s \in Requests : pc[s] = "link" /\ firm[s] = f
        BY <2>3 DEF LinkComing
      <3>2. CASE s = r
        BY <3>1, <3>2
      <3>3. CASE s # r
        BY <3>1, <3>3 DEF Same, LinkComing
      <3> QED
        BY <3>2, <3>3
    <2> QED
      BY <2>2, <2>3
  <1>3. BusinessesLinked'
    BY <1>2 DEF BusinessesLinked, LinkComing
  <1> QED
    BY <1>1, <1>3 DEF MemberInv

\* One that leaves the tables as they are.
LEMMA MemberRead ==
    ASSUME MemberInv, NEW r \in Requests, pc[r] # "link",
           \A s \in Requests \ {r} : Same(s), UNCHANGED <<tables, unlinked>>,
           pc'[r] \in {"firm_find", "firm_insert", "link"} => profile'[r].firm = NoFirm
    PROVE  MemberInv'
  BY MemberElse DEF Linked, tables

\* One that saves a profile with the link it was read with, or a first one.
LEMMA MemberSaved ==
    ASSUME Inv, MemberInv, NEW r \in Requests, who[r] \in People, Done(r),
           UNCHANGED businesses, NEW row \in Profile, SaveProfile(r, row),
           profiles[who[r]] # NoRow =>
               row.firm = profile[r].firm \/ profile[r].firm = NoFirm,
           pc[r] = "link" => firm[r] = row.firm
    PROVE  MemberInv'
  <1>1. pc'[r] = "idle" /\ \A s \in Requests \ {r} : Same(s)
    BY DoneEffect DEF Inv, TypeInv
  <1>2. /\ profiles'[who[r]] = row /\ row # NoRow
        /\ \A u \in People \ {who[r]} : profiles'[u] = profiles[u]
    BY RowAssumption DEF SaveProfile, Inv, TypeInv, TypeOK
  <1>3. ASSUME NEW f \in Firms, f = row.firm PROVE Linked(f)'
    BY <1>2, <1>3 DEF Linked
  <1>4. ASSUME NEW f \in Firms, f # row.firm, Linked(f) \/ f \in unlinked
        PROVE  Linked(f)' \/ f \in unlinked'
    <2>1. f # NoFirm
      BY FirmAssumption
    <2>2. CASE f \in unlinked
      BY <1>4, <2>1, <2>2 DEF SaveProfile
    <2>3. CASE Linked(f)
      <3>1. PICK u \in People : profiles[u] # NoRow /\ profiles[u].firm = f
        BY <2>3 DEF Linked
      <3>2. CASE u # who[r]
        BY <1>2, <3>1, <3>2 DEF Linked
      <3>3. CASE u = who[r]
        <4>1. f # profile[r].firm
          BY <1>4, <2>1, <3>1, <3>3
        <4> QED
          BY <1>4, <2>1, <3>1, <3>3, <4>1 DEF SaveProfile
      <3> QED
        BY <3>2, <3>3
    <2> QED
      BY <1>4, <2>2, <2>3
  <1>5. \A f \in Firms : pc[r] = "link" /\ firm[r] = f => Linked(f)'
    BY <1>3
  <1> QED
    BY <1>1, <1>3, <1>4, <1>5, MemberElse

\* One that ends with the tables as they are.
LEMMA MemberDone ==
    ASSUME Inv, MemberInv, NEW r \in Requests, Done(r), pc[r] # "link",
           UNCHANGED <<profiles, unlinked>>,
           \A f \in Firms : businesses'[f] # NoRow => businesses[f] # NoRow
    PROVE  MemberInv'
  <1>1. pc'[r] = "idle" /\ \A s \in Requests \ {r} : Same(s)
    BY DoneEffect DEF Inv, TypeInv
  <1> QED
    BY <1>1, MemberElse DEF Linked

LEMMA MemberArrive ==
    ASSUME Inv, MemberInv, NEW r \in Requests, Arrive(r)
    PROVE  MemberInv'
  <1>1. ASSUME NEW step \in Steps, NEW u \in People \cup {Nobody},
               NEW f \in Firms \cup {NoFirm}, NEW ch \in Changes \cup {NoChange},
               Begin(r, step, u, f, ch),
               \A s \in Requests \ {r} : profile'[s] = profile[s] /\ business'[s] = business[s],
               UNCHANGED <<tables, unlinked>>,
               step = "firm_find" => profile'[r].firm = NoFirm,
               step \notin {"firm_insert", "link"}
        PROVE  MemberInv'
    <2>1. /\ pc[r] = "idle" /\ pc'[r] = step
          /\ \A s \in Requests \ {r} :
                /\ pc'[s] = pc[s] /\ who'[s] = who[s]
                /\ firm'[s] = firm[s] /\ change'[s] = change[s]
      BY <1>1, BeginEffect DEF Inv, TypeInv
    <2>2. \A s \in Requests \ {r} : Same(s)
      BY <1>1, <2>1 DEF Same
    <2> QED
      BY <1>1, <2>1, <2>2, MemberRead
  <1>2. ASSUME NEW u \in People, UpdateProfile(r, u) \/ ReadUser(r, u) PROVE MemberInv'
    <2>1. /\ Begin(r, "profile_save", u, NoFirm, NoChange)
                \/ Begin(r, "user_save", u, NoFirm, NoChange)
          /\ ReadProfile(r, u) /\ UNCHANGED <<tables, business, unlinked, faults>>
      BY <1>2 DEF UpdateProfile, ReadUser
    <2>2. "profile_save" \in Steps /\ "user_save" \in Steps
      BY DEF Steps
    <2> QED
      BY <1>1, <2>1, <2>2, ReadProfileEffect
  <1>3. ASSUME NEW u \in People, NEW n \in Numbers, CreateBusinessProfile(r, u, n)
        PROVE  MemberInv'
    <2>1. /\ Begin(r, "firm_find", u, NoFirm, [number |-> n]) /\ profiles[u].firm = NoFirm
          /\ ReadProfile(r, u) /\ UNCHANGED <<tables, business, unlinked, faults>>
      BY <1>3 DEF CreateBusinessProfile
    <2>2. [number |-> n] \in Changes /\ "firm_find" \in Steps
      BY DEF Changes, Steps
    <2> QED
      BY <1>1, <2>1, <2>2, ReadProfileEffect
  <1>4. ASSUME NEW u \in People, NEW ch \in [permit : BOOLEAN], UpdateWorkPermit(r, u, ch)
        PROVE  MemberInv'
    <2>1. /\ Begin(r, "permit_find", u, NoFirm, ch)
          /\ UNCHANGED <<tables, profile, business, history, faults>>
      BY <1>4 DEF UpdateWorkPermit
    <2>2. ch \in Changes /\ "permit_find" \in Steps
      BY DEF Changes, Steps
    <2> QED
      BY <1>1, <2>1, <2>2 DEF history
  <1>5. ASSUME NEW g \in Firms, NEW ch \in FirmChanges, Begin(r, "firm_save", Nobody, g, ch),
               ReadBusiness(r, g), UNCHANGED <<tables, profile, unlinked, faults>>
        PROVE  MemberInv'
    <2>1. ch \in Changes /\ "firm_save" \in Steps
      BY DEF FirmChanges, Changes, Steps
    <2> QED
      BY <1>1, <1>5, <2>1, ReadBusinessEffect
  <1>6. ASSUME NEW u \in People, NEW ch \in FirmChanges, UpdateBusinessProfile(r, u, ch)
        PROVE  MemberInv'
    <2>1. profiles[u].firm \in Firms
      BY <1>6 DEF UpdateBusinessProfile, Inv, TypeInv, TypeOK, Profile
    <2> QED
      BY <1>5, <1>6, <2>1 DEF UpdateBusinessProfile
  <1>7. ASSUME NEW f \in Firms, VerifyBusiness(r, f) PROVE MemberInv'
    <2>1. [approved |-> TRUE] \in FirmChanges
      BY DEF FirmChanges
    <2> QED
      BY <1>5, <1>7, <2>1 DEF VerifyBusiness
  <1> QED
    BY <1>2, <1>3, <1>4, <1>6, <1>7 DEF Arrive, FirmChanges

LEMMA MemberProfileSave ==
    ASSUME Inv, MemberInv, NEW r \in Requests, ProfileSave(r)
    PROVE  MemberInv'
  <1> DEFINE Set(row) == With(row, Kind(who[r]))
  <1>1. /\ pc[r] = "profile_save" /\ Done(r) /\ profile[r] \in Profile \cup {NoRow}
        /\ who[r] \in People /\ UNCHANGED businesses
    BY DEF ProfileSave, Reading, Inv, TypeInv, RequestInv, RequestOK, TypeOK
  <1>2. CASE profile[r] # NoRow /\ SaveProfile(r, Set(profile[r]))
    <2>1. PICK row \in Profile : row = Set(profile[r]) /\ row.firm = profile[r].firm
      BY <1>1, <1>2, WithProfile
    <2>2. SaveProfile(r, row)
      BY <1>2, <2>1
    <2> QED
      BY <1>1, <2>1, <2>2, MemberSaved
  <1>3. CASE profiles[who[r]] = NoRow /\ SaveProfile(r, Set(NewProfile))
    <2>1. PICK row \in Profile : row = Set(NewProfile)
      BY NewProfileType, WithProfile
    <2>2. SaveProfile(r, row)
      BY <1>3, <2>1
    <2> QED
      BY <1>1, <1>3, <2>2, MemberSaved
  <1>4. CASE UNCHANGED <<profiles, wanted, unlinked>>
    BY <1>1, <1>4, MemberDone
  <1> QED
    BY <1>2, <1>3, <1>4 DEF ProfileSave

LEMMA MemberPermitSave ==
    ASSUME Inv, MemberInv, NEW r \in Requests, PermitSave(r)
    PROVE  MemberInv'
  <1>1. /\ pc[r] = "permit_save" /\ Done(r) /\ who[r] \in People
        /\ SaveProfile(r, With(profile[r], change[r])) /\ UNCHANGED businesses
    BY DEF PermitSave, Reading, Inv, TypeInv, RequestInv, RequestOK
  <1>2. profile[r] \in Profile /\ change[r] \in [permit : BOOLEAN]
    BY DEF PermitSave, Inv, TypeInv, RequestInv, RequestOK, TypeOK
  <1>3. PICK row \in Profile : row = With(profile[r], change[r]) /\ row.firm = profile[r].firm
    BY <1>2, WithProfile
  <1>4. SaveProfile(r, row)
    BY <1>1, <1>3
  <1> QED
    BY <1>1, <1>3, <1>4, MemberSaved

LEMMA MemberUserSave ==
    ASSUME Inv, MemberInv, NEW r \in Requests, UserSave(r)
    PROVE  MemberInv'
  <1>1. /\ pc[r] = "user_save" /\ Done(r) /\ profile[r] \in Profile \cup {NoRow}
        /\ who[r] \in People /\ UNCHANGED businesses
    BY DEF UserSave, Reading, Inv, TypeInv, RequestInv, RequestOK, TypeOK
  <1>2. CASE profile[r] = NoRow
    <2>1. UNCHANGED <<profiles, unlinked>>
      BY <1>2 DEF UserSave
    <2> QED
      BY <1>1, <2>1, MemberDone
  <1>3. CASE profile[r] # NoRow
    <2>1. SaveProfile(r, profile[r])
      BY <1>3 DEF UserSave
    <2> QED
      BY <1>1, <1>3, <2>1, MemberSaved
  <1> QED
    BY <1>2, <1>3

LEMMA MemberPermitFind ==
    ASSUME Inv, MemberInv, NEW r \in Requests, PermitFind(r)
    PROVE  MemberInv'
  <1>1. /\ pc[r] = "permit_find" /\ Goto(r, "permit_save") /\ ReadProfile(r, who[r])
        /\ UNCHANGED <<tables, who, firm, change, business, unlinked, begun, faults>>
    BY DEF PermitFind
  <1>2. who[r] \in People
    BY <1>1 DEF Inv, TypeInv, RequestInv, RequestOK
  <1>3. pc'[r] = "permit_save" /\ \A s \in Requests \ {r} : pc'[s] = pc[s]
    BY <1>1 DEF Goto, Inv, TypeInv, TypeOK
  <1>4. \A s \in Requests \ {r} : Same(s)
    BY <1>1, <1>2, <1>3, ReadProfileEffect DEF Same
  <1> QED
    BY <1>1, <1>3, <1>4, MemberRead

LEMMA MemberFirmFind ==
    ASSUME Inv, MemberInv, NEW r \in Requests, FirmFind(r)
    PROVE  MemberInv'
  <1>1. /\ pc[r] = "firm_find"
        /\ UNCHANGED <<tables, who, change, profile, business, history, begun, faults>>
    BY DEF FirmFind
  <1>2. \A s \in Requests \ {r} : Same(s)
    BY <1>1 DEF FirmFind, Goto, Same, Inv, TypeInv, TypeOK
  <1>3. profile'[r].firm = NoFirm
    BY <1>1 DEF MemberInv, NoLinkInv
  <1> QED
    BY <1>1, <1>2, <1>3, MemberRead DEF history

LEMMA MemberFirmInsert ==
    ASSUME Inv, MemberInv, NEW r \in Requests, FirmInsert(r)
    PROVE  MemberInv'
  <1>1. /\ pc[r] = "firm_insert" /\ UNCHANGED <<profiles, unlinked, overlap, faults>>
        /\ profile[r].firm = NoFirm
    BY DEF FirmInsert, MemberInv, NoLinkInv
  <1>2. ASSUME NEW row, NEW f \in Firms,
               businesses' = [businesses EXCEPT ![f] = row],
               firm' = [firm EXCEPT ![r] = f],
               Goto(r, "link"), UNCHANGED <<who, change, profile, business>>
        PROVE  MemberInv'
    <2>1. /\ pc'[r] = "link" /\ firm'[r] = f
          /\ \A s \in Requests \ {r} : Same(s)
          /\ \A g \in Firms \ {f} : businesses'[g] = businesses[g]
      BY <1>2 DEF Goto, Same, Inv, TypeInv, TypeOK
    <2>2. NoLinkInv'
      BY <1>1, <1>2, <2>1 DEF MemberInv, NoLinkInv, Same
    <2>3. LinkComing(f)'
      BY <2>1 DEF LinkComing
    <2>4. \A g \in Firms : LinkComing(g) => LinkComing(g)'
      BY <1>1, <2>1 DEF LinkComing, Same
    <2>5. \A g \in Firms : Linked(g) => Linked(g)'
      BY <1>1 DEF Linked
    <2>6. ASSUME NEW g \in Firms, businesses'[g] # NoRow
          PROVE  Linked(g)' \/ LinkComing(g)' \/ g \in unlinked'
      <3>1. CASE g = f
        BY <2>3, <3>1
      <3>2. CASE g # f
        <4>1. businesses[g] # NoRow
          BY <2>1, <2>6, <3>2
        <4>2. Linked(g) \/ LinkComing(g) \/ g \in unlinked
          BY <4>1 DEF MemberInv, BusinessesLinked, LinkComing
        <4> QED
          BY <1>1, <2>4, <2>5, <4>2
      <3> QED
        BY <3>1, <3>2
    <2>7. BusinessesLinked'
      BY <2>6 DEF BusinessesLinked, LinkComing
    <2> QED
      BY <2>2, <2>7 DEF MemberInv
  <1>3. CASE Done(r) /\ UNCHANGED <<businesses, wanted>>
    BY <1>1, <1>3, MemberDone
  <1> QED
    BY <1>2, <1>3 DEF FirmInsert

LEMMA MemberLink ==
    ASSUME Inv, MemberInv, NEW r \in Requests, Link(r)
    PROVE  MemberInv'
  <1>1. /\ pc[r] = "link" /\ Done(r) /\ UNCHANGED businesses
        /\ SaveProfile(r, With(profile[r], [firm |-> firm[r]]))
    BY DEF Link
  <1>2. /\ who[r] \in People /\ profile[r] \in Profile /\ profile[r].firm = NoFirm
        /\ firm[r] \in Firms
    BY <1>1 DEF Reading, Inv, TypeInv, TypeOK, RequestInv, RequestOK, MemberInv, NoLinkInv
  <1>3. PICK row \in Profile : row = With(profile[r], [firm |-> firm[r]]) /\ row.firm = firm[r]
    BY <1>2, WithProfile
  <1>4. SaveProfile(r, row)
    BY <1>1, <1>3
  <1> QED
    BY <1>1, <1>2, <1>3, <1>4, MemberSaved

LEMMA MemberFirmSave ==
    ASSUME Inv, MemberInv, NEW r \in Requests, FirmSave(r)
    PROVE  MemberInv'
  <1>1. pc[r] = "firm_save" /\ Done(r) /\ UNCHANGED <<profiles, unlinked, overlap, faults>>
    BY DEF FirmSave
  <1>2. firm[r] \in Firms /\ businesses[firm[r]] # NoRow
    BY <1>1 DEF Inv, TypeInv, RequestInv, RequestOK
  <1>3. \A f \in Firms : businesses'[f] # NoRow => businesses[f] # NoRow
    BY <1>2 DEF FirmSave, Inv, TypeInv, TypeOK
  <1> QED
    BY <1>1, <1>3, MemberDone

\* A creation that fails before the link leaves its business unlinked.
LEMMA MemberAbort ==
    ASSUME Inv, MemberInv, NEW r \in Requests, Abort(r)
    PROVE  MemberInv'
  <1>1. Done(r) /\ UNCHANGED tables
    BY DEF Abort
  <1>2. pc'[r] = "idle" /\ \A s \in Requests \ {r} : Same(s)
    BY <1>1, DoneEffect DEF Inv, TypeInv
  <1>3. \A f : Linked(f)' <=> Linked(f)
    BY <1>1 DEF Linked, tables
  <1>4. unlinked \subseteq unlinked'
    BY DEF Abort
  <1>5. pc[r] = "link" => Linked(firm[r]) \/ firm[r] \in unlinked'
    BY DEF Abort
  <1>6. businesses' = businesses
    BY <1>1 DEF tables
  <1> QED
    <2>1. \A f \in Firms : Linked(f) \/ f \in unlinked => Linked(f)' \/ f \in unlinked'
      BY <1>3, <1>4
    <2>2. \A f \in Firms : pc[r] = "link" /\ firm[r] = f => Linked(f)' \/ f \in unlinked'
      BY <1>3, <1>5
    <2> QED
      BY <1>2, <1>6, <2>1, <2>2, MemberElse

LEMMA MemberStep == Inv /\ MemberInv /\ [Next]_vars => MemberInv'
  <1> SUFFICES ASSUME Inv, MemberInv, [Next]_vars PROVE MemberInv'
    OBVIOUS
  <1>1. CASE UNCHANGED vars
    BY <1>1 DEF vars, MemberInv, NoLinkInv, BusinessesLinked, Linked
  <1>2. ASSUME NEW r \in Requests, Proceed(r) PROVE MemberInv'
    BY <1>2, MemberProfileSave, MemberPermitFind, MemberPermitSave, MemberUserSave,
       MemberFirmFind, MemberFirmInsert, MemberLink, MemberFirmSave DEF Proceed
  <1> QED
    BY <1>1, <1>2, MemberArrive, MemberAbort DEF Next

\* BusinessesAlwaysLinked: the insert of a business and its link are two saves, of
\* requests for one number that overlap, and yet a business nobody belongs to is
\* about to be linked, or its creation failed in between, or a save of a profile
\* read before the link put it back; for any users, numbers and requests.
THEOREM BusinessesAlwaysLinked == Spec => []BusinessesLinked
  <1>1. Init => MemberInv
    BY DEF Init, MemberInv, NoLinkInv, BusinessesLinked
  <1>2. MemberInv => BusinessesLinked
    BY DEF MemberInv
  <1> QED
    BY <1>1, <1>2, MemberStep, InvAlways, PTL DEF Spec
=============================================================================
