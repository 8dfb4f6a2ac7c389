------------------------------ MODULE Platform ------------------------------
(***************************************************************************)
(* The processes of a deployment and two requests they serve:              *)
(* src/src/main.ts and src/config/system/cluster.ts, the seed of           *)
(* src/src/seed/seed.service.ts, assignPrivilege of                        *)
(* src/src/auth/auth.service.ts and createBulkInvoices of                  *)
(* src/src/payment/payment.service.ts.                                     *)
(*                                                                         *)
(* NODE_ENV is neither production, which does not seed, nor development,   *)
(* which does not fork.  One role stands for each of the three whose       *)
(* privileges the seed sets; its name is a row among those of the          *)
(* privileges it has.  A worker that dies is not replaced: the handler of  *)
(* its exit logs that it starts another, and does not.                     *)
(***************************************************************************)
EXTENDS Naturals, FiniteSets

CONSTANTS Workers,
          Requests,
          Privileges,
          Defaults,    \* the privileges the seed gives the role
          Role,        \* the row of the role itself
          Items,       \* positions of the invoices of a bulk request: 1..n
          ChunkSize,
          MaxAssigns,  \* bound on assignments
          MaxBulks,    \* bound on bulk requests
          MaxCrashes,  \* bound on processes that die
          Nowhere      \* no worker: the slot is idle

ASSUME SeedAssumption == Defaults \subseteq Privileges /\ Role \notin Privileges

Primary == "primary"

ASSUME WorkerAssumption ==
    Nowhere \notin Workers /\ Workers \cap Requests = {} /\ Primary \notin Workers \cup Requests

ASSUME ItemAssumption == Items \subseteq Nat \ {0} /\ ChunkSize \in Nat \ {0}

ASSUME BoundAssumption == MaxAssigns \in Nat /\ MaxBulks \in Nat /\ MaxCrashes \in Nat

VARIABLES rows,     \* the role and its privileges
          primary,  \* the primary's next step
          worker,   \* worker -> its next step
          seen,     \* process or slot -> the rows it has read
          pc,       \* slot -> next call
          home,     \* slot -> the worker it runs in
          asked,    \* slot -> the privileges to assign
          found,    \* slot -> those of them its save takes
          item,     \* slot -> the state of each invoice of its last request
          assigns,  \* assignments begun
          bulks,    \* bulk requests begun
          target,   \* history: what the last to write was to give the role
          gap,      \* history: why the last save may have missed that
          since,    \* history: reader -> what others wrote since it read
          answered, \* history: slots whose last bulk request was answered
          mixed,    \* history: two had read the role's privileges at once
          refused,  \* history: workers whose seed failed
          crashes   \* history: processes that died

processes == <<primary, worker, refused>>
assigned == <<asked, found>>
bulk == <<item, answered, bulks>>
requests == <<pc, home, assigned, bulk>>
saved == <<rows, target, gap>>
history == <<target, gap, since, mixed>>
vars == <<rows, primary, worker, seen, pc, home, asked, found, item, assigns, target, gap,
          since, answered, bulks, mixed, refused, crashes>>

-----------------------------------------------------------------------------
AllRows == Privileges \cup {Role}
Readers == Workers \cup Requests \cup {Primary}
Idle == [i \in Items |-> "none"]
Change == [in : SUBSET AllRows, out : SUBSET AllRows]
Nothing == [in |-> {}, out |-> {}]

TypeOK ==
    /\ rows \subseteq AllRows
    /\ primary \in {"seed_read", "seed_write", "forked"}
    /\ worker \in [Workers -> {"none", "seed_read", "seed_write", "up", "dead"}]
    /\ seen \in [Readers -> SUBSET AllRows]
    /\ pc \in [Requests -> {"idle", "assign_load", "assign_write", "bulk"}]
    /\ home \in [Requests -> Workers \cup {Nowhere}]
    /\ asked \in [Requests -> SUBSET Privileges]
    /\ found \in [Requests -> SUBSET Privileges]
    /\ item \in [Requests -> [Items -> {"none", "waits", "sent", "made", "failed", "lost"}]]
    /\ assigns \in 0..MaxAssigns
    /\ bulks \in 0..MaxBulks
    /\ target \subseteq Privileges
    /\ gap \in [late : SUBSET Privileges, others : Change]
    /\ since \in [Readers -> Change]
    /\ answered \subseteq Requests
    /\ mixed \in BOOLEAN
    /\ refused \subseteq Workers
    /\ crashes \in 0..MaxCrashes

\* Those that have read the rows and have yet to write them.
Pending == {w \in Workers : worker[w] = "seed_write"}
               \cup {r \in Requests : pc[r] = "assign_write"}
               \cup {p \in {Primary} : primary = "seed_write"}

Read(x) ==
    /\ seen' = [seen EXCEPT ![x] = rows]
    /\ mixed' = (mixed \/ Pending \ {x} # {})

\* A save deletes and inserts the rows in which what it read differs from what
\* it should be; to insert one that another inserted meanwhile fails.
Clashes(x, wish) == ((wish \cup {Role}) \ seen[x]) \cap rows # {}

SaveDiff(x, wish, meant) ==
    LET in == wish \ seen[x]
        out == seen[x] \ wish
    IN  /\ rows' = (rows \ out) \cup in
        /\ gap' = [late |-> meant \ wish, others |-> since[x]]
        /\ since' = [y \in Readers |->
              IF y \in Pending \ {x}
              THEN [in |-> since[y].in \cup in, out |-> since[y].out \cup out]
              ELSE Nothing]
    /\ seen' = [seen EXCEPT ![x] = {}]

\* Mutant: the role is counted among its privileges.
SaveWhole(x, wish, meant) == SaveDiff(x, wish \cup {Role}, meant) /\ target' = meant \cup {Role}

\* x saves the privileges wish where it was to give the role those of meant.
Save(x, wish, meant) == SaveDiff(x, wish \cup {Role}, meant) /\ target' = meant

\* The save of x fails and leaves the rows alone.
SaveFails(x) ==
    /\ seen' = [seen EXCEPT ![x] = {}]
    /\ since' = [since EXCEPT ![x] = Nothing]
    /\ UNCHANGED saved

-----------------------------------------------------------------------------
(* bootstrap: the seed, one transaction, comes before the fork or the listen. *)

\* Mutant: the workers are forked, and then the primary seeds.
PrimaryReadForking ==
    /\ primary = "seed_read"
    /\ Read(Primary)
    /\ primary' = "seed_write"
    /\ worker' = [w \in Workers |-> "seed_read"]
    /\ UNCHANGED <<saved, since, requests, assigns, refused, crashes>>

PrimaryRead ==
    /\ primary = "seed_read"
    /\ Read(Primary)
    /\ primary' = "seed_write"
    /\ UNCHANGED <<saved, since, worker, requests, assigns, refused, crashes>>

PrimaryWrite ==
    /\ primary = "seed_write"
    /\ ~ Clashes(Primary, Defaults)
    /\ Save(Primary, Defaults, Defaults)
    /\ primary' = "forked"
    /\ worker' = [w \in Workers |-> IF worker[w] = "none" THEN "seed_read" ELSE worker[w]]
    /\ UNCHANGED <<requests, assigns, mixed, refused, crashes>>

WorkerRead(w) ==
    /\ worker[w] = "seed_read"
    /\ Read(w)
    /\ worker' = [worker EXCEPT ![w] = "seed_write"]
    /\ UNCHANGED <<saved, since, primary, requests, assigns, refused, crashes>>

\* A seed that fails ends the process: nothing handles the rejection.
WorkerWrite(w) ==
    /\ worker[w] = "seed_write"
    /\ \/ /\ ~ Clashes(w, Defaults)
          /\ Save(w, Defaults, Defaults)
          /\ worker' = [worker EXCEPT ![w] = "up"]
          /\ UNCHANGED refused
       \/ /\ Clashes(w, Defaults)
          /\ SaveFails(w)
          /\ worker' = [worker EXCEPT ![w] = "dead"]
          /\ refused' = refused \cup {w}
    /\ UNCHANGED <<primary, requests, assigns, mixed, crashes>>

\* The requests a process runs die with it; what they had yet to settle is lost.
Crash(w) ==
    /\ crashes < MaxCrashes
    /\ worker[w] \notin {"none", "dead"}
    /\ worker' = [worker EXCEPT ![w] = "dead"]
    /\ crashes' = crashes + 1
    /\ LET Lost(r) == home[r] = w
       IN  /\ pc' = [r \in Requests |-> IF Lost(r) THEN "idle" ELSE pc[r]]
           /\ home' = [r \in Requests |-> IF Lost(r) THEN Nowhere ELSE home[r]]
           /\ asked' = [r \in Requests |-> IF Lost(r) THEN {} ELSE asked[r]]
           /\ found' = [r \in Requests |-> IF Lost(r) THEN {} ELSE found[r]]
           /\ item' = [r \in Requests |-> [i \in Items |->
                  IF Lost(r) /\ item[r][i] \in {"waits", "sent"} THEN "lost" ELSE item[r][i]]]
           /\ LET Gone(x) == x = w \/ (x \in Requests /\ Lost(x))
              IN  /\ seen' = [x \in Readers |-> IF Gone(x) THEN {} ELSE seen[x]]
                  /\ since' = [x \in Readers |-> IF Gone(x) THEN Nothing ELSE since[x]]
    /\ UNCHANGED <<saved, primary, assigns, answered, bulks, mixed, refused>>

-----------------------------------------------------------------------------
Begin(r, w, step) ==
    /\ pc[r] = "idle"
    /\ worker[w] = "up"
    /\ pc' = [pc EXCEPT ![r] = step]
    /\ home' = [home EXCEPT ![r] = w]

Done(r) == /\ pc' = [pc EXCEPT ![r] = "idle"]
           /\ home' = [home EXCEPT ![r] = Nowhere]
           /\ asked' = [asked EXCEPT ![r] = {}]
           /\ found' = [found EXCEPT ![r] = {}]

(* assignPrivilege *)

AssignPrivilege(r, w, ps) ==
    /\ assigns < MaxAssigns
    /\ assigns' = assigns + 1
    /\ Begin(r, w, "assign_load")
    /\ asked' = [asked EXCEPT ![r] = ps]
    /\ UNCHANGED <<rows, processes, seen, found, bulk, history, crashes>>

\* The searches for the privileges are not waited for: the save takes those that
\* have come by the time it has read the role's own.
AssignLoad(r) ==
    /\ pc[r] = "assign_load"
    /\ Read(r)
    /\ \E ps \in SUBSET asked[r] : found' = [found EXCEPT ![r] = ps]
    /\ pc' = [pc EXCEPT ![r] = "assign_write"]
    /\ UNCHANGED <<saved, since, processes, home, asked, bulk, assigns, crashes>>

\* Mutant: the privileges are added to those the role has.
AssignWriteAdding(r) ==
    /\ pc[r] = "assign_write"
    /\ ~ Clashes(r, found[r])
    /\ Save(r, found[r] \cup (seen[r] \ {Role}), asked[r])
    /\ Done(r)
    /\ UNCHANGED <<processes, bulk, assigns, mixed, crashes>>

\* A save that fails is not reported.
AssignWrite(r) ==
    /\ pc[r] = "assign_write"
    /\ \/ ~ Clashes(r, found[r]) /\ Save(r, found[r], asked[r])
       \/ Clashes(r, found[r]) /\ SaveFails(r)
    /\ Done(r)
    /\ UNCHANGED <<processes, bulk, assigns, mixed, crashes>>

(* createBulkInvoices: chunk after chunk, the invoices of one all at once. *)

CreateBulkInvoices(r, w) ==
    /\ bulks < MaxBulks
    /\ bulks' = bulks + 1
    /\ Begin(r, w, "bulk")
    /\ item' = [item EXCEPT ![r] = [i \in Items |-> "waits"]]
    /\ answered' = answered \ {r}
    /\ UNCHANGED <<rows, processes, seen, assigned, assigns, history, crashes>>

InState(r, st) == {i \in Items : item[r][i] = st}

\* The invoices of the request in chunks, by position.
ChunkOf(i) == (i - 1) \div ChunkSize

NextChunk(r) ==
    {i \in InState(r, "waits") :
        \A k \in InState(r, "waits") : ChunkOf(i) <= ChunkOf(k)}

\* Mutant: an incomplete chunk is not sent.
SendChunkFull(r) ==
    /\ pc[r] = "bulk"
    /\ InState(r, "sent") = {}
    /\ Cardinality(NextChunk(r)) = ChunkSize
    /\ item' = [item EXCEPT ![r] = [i \in Items |->
                  IF i \in NextChunk(r) THEN "sent" ELSE @[i]]]
    /\ UNCHANGED <<rows, processes, seen, pc, home, assigned, answered, bulks, assigns,
                   history, crashes>>

SendChunk(r) ==
    /\ pc[r] = "bulk"
    /\ InState(r, "sent") = {} /\ InState(r, "waits") # {}
    /\ item' = [item EXCEPT ![r] = [i \in Items |->
                  IF i \in NextChunk(r) THEN "sent" ELSE @[i]]]
    /\ UNCHANGED <<rows, processes, seen, pc, home, assigned, answered, bulks, assigns,
                   history, crashes>>

\* createInvoice, of which Payments tells the calls: made or refused.
SettleInvoice(r) ==
    /\ \E i \in InState(r, "sent"), st \in {"made", "failed"} :
          item' = [item EXCEPT ![r][i] = st]
    /\ UNCHANGED <<rows, processes, seen, pc, home, assigned, answered, bulks, assigns,
                   history, crashes>>

\* Mutant: Promise.all, which rejects with the first refusal.
AnswerBulkFirst(r) ==
    /\ pc[r] = "bulk"
    /\ \/ InState(r, "failed") # {}
       \/ InState(r, "sent") = {} /\ InState(r, "waits") = {}
    /\ Done(r)
    /\ answered' = answered \cup {r}
    /\ UNCHANGED <<rows, processes, seen, item, bulks, assigns, history, crashes>>

AnswerBulk(r) ==
    /\ pc[r] = "bulk"
    /\ InState(r, "sent") = {} /\ InState(r, "waits") = {}
    /\ Done(r)
    /\ answered' = answered \cup {r}
    /\ UNCHANGED <<rows, processes, seen, item, bulks, assigns, history, crashes>>

-----------------------------------------------------------------------------
\* The first start: the tables are empty.
Init ==
    /\ rows = {}
    /\ primary = "seed_read"
    /\ worker = [w \in Workers |-> "none"]
    /\ seen = [x \in Readers |-> {}]
    /\ pc = [r \in Requests |-> "idle"]
    /\ home = [r \in Requests |-> Nowhere]
    /\ asked = [r \in Requests |-> {}]
    /\ found = [r \in Requests |-> {}]
    /\ item = [r \in Requests |-> Idle]
    /\ assigns = 0
    /\ target = {}
    /\ gap = [late |-> {}, others |-> Nothing]
    /\ since = [x \in Readers |-> Nothing]
    /\ answered = {}
    /\ bulks = 0
    /\ mixed = FALSE
    /\ refused = {}
    /\ crashes = 0

Bulk(r) == SendChunk(r) \/ SettleInvoice(r) \/ AnswerBulk(r)

Next ==
    \/ PrimaryRead \/ PrimaryWrite
    \/ \E w \in Workers : WorkerRead(w) \/ WorkerWrite(w) \/ Crash(w)
    \/ \E r \in Requests, w \in Workers :
          \/ \E ps \in SUBSET Privileges : AssignPrivilege(r, w, ps)
          \/ CreateBulkInvoices(r, w)
    \/ \E r \in Requests : AssignLoad(r) \/ AssignWrite(r) \/ Bulk(r)

Spec == Init /\ [][Next]_vars

\* A process that runs goes on with its requests.
FairSpec == Spec /\ \A r \in Requests : WF_vars(Bulk(r))

-----------------------------------------------------------------------------
(* Properties *)

\* SeedSurvived: although every process seeds, and inserts what it did not find,
\* no worker dies of it on a first start, for the primary seeds before it forks;
\* only an assignment made while others still start can make two seeds clash.
SeedSurvived == refused # {} => assigns > 0 /\ mixed

\* AssignedAsAsked: the role has what the last to save was asked to give it.  It
\* has more only where another, between this one's read and its save, inserted a
\* privilege that the save could not know of; and it lacks one only where such a
\* one deleted it, or where its lookup had not come back when the save went out.
AssignedAsAsked ==
    /\ rows \ {Role} \subseteq target \cup gap.others.in
    /\ target \subseteq rows \cup gap.late \cup gap.others.out

Settled(r) == InState(r, "made") \cup InState(r, "failed")

\* BulkSettled: a bulk request is answered when every invoice is made or refused,
\* whichever was refused first.  No more are under way at a time than a chunk has,
\* and none before the chunks ahead of it have settled, so that a process that
\* dies loses the chunk it was at and those after it, and no invoice before them.
BulkSettled ==
    \A r \in Requests :
        /\ r \in answered => Settled(r) = Items
        /\ Cardinality(InState(r, "sent")) <= ChunkSize
        /\ \A i \in InState(r, "sent") \cup Settled(r), k \in Items :
              ChunkOf(k) < ChunkOf(i) => k \in Settled(r)

\* BulkEnds: a bulk request is answered, whatever becomes of its invoices and
\* however many the last chunk has, or its process dies.
BulkEnds == \A r \in Requests : pc[r] = "bulk" ~> pc[r] = "idle"
=============================================================================
