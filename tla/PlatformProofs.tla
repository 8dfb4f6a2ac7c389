--------------------------- MODULE PlatformProofs ---------------------------
(* Proofs about the processes of a deployment, for every number of workers,  *)
(* requests, privileges and invoices, and every size of a chunk.             *)
EXTENDS Platform, FiniteSetTheorems, TLAPS

-----------------------------------------------------------------------------
(* Type correctness *)

States == {"none", "waits", "sent", "made", "failed", "lost"}

\* A slot that is given up, or taken, is typed as before.
LEMMA DoneType ==
    ASSUME TypeOK, NEW r \in Requests, Done(r)
    PROVE  /\ pc' \in [Requests -> {"idle", "assign_load", "assign_write", "bulk"}]
           /\ home' \in [Requests -> Workers \cup {Nowhere}]
           /\ asked' \in [Requests -> SUBSET Privileges]
           /\ found' \in [Requests -> SUBSET Privileges]
  BY DEF TypeOK, Done

LEMMA ReadType ==
    ASSUME TypeOK, NEW x \in Readers, Read(x)
    PROVE  seen' \in [Readers -> SUBSET AllRows] /\ mixed' \in BOOLEAN
  BY DEF TypeOK, Read

\* What a save touches: the rows, the copies and the histories of both.
SaveTyped ==
    /\ rows \subseteq AllRows
    /\ target \subseteq Privileges
    /\ gap \in [late : SUBSET Privileges, others : Change]
    /\ seen \in [Readers -> SUBSET AllRows]
    /\ since \in [Readers -> Change]

LEMMA SaveType ==
    ASSUME TypeOK, NEW x \in Readers, NEW ps \in SUBSET Privileges,
           NEW meant \in SUBSET Privileges, Save(x, ps, meant)
    PROVE  SaveTyped'
  <1> DEFINE in == (ps \cup {Role}) \ seen[x]
             out == seen[x] \ (ps \cup {Role})
  <1>1. in \subseteq AllRows /\ out \subseteq AllRows
    BY DEF TypeOK, AllRows
  <1>2. rows' \subseteq AllRows /\ target' \subseteq Privileges
    BY <1>1 DEF Save, SaveDiff, TypeOK
  <1>3. seen' \in [Readers -> SUBSET AllRows]
    BY DEF Save, SaveDiff, TypeOK
  <1>4. gap' \in [late : SUBSET Privileges, others : Change]
    BY DEF Save, SaveDiff, TypeOK
  <1>5. since' \in [Readers -> Change]
    <2>1. \A y \in Readers :
             [in |-> since[y].in \cup in, out |-> since[y].out \cup out] \in Change
      BY <1>1 DEF TypeOK, Change
    <2>2. Nothing \in Change
      BY DEF Nothing, Change
    <2> QED
      BY <2>1, <2>2 DEF Save, SaveDiff
  <1> QED
    BY <1>2, <1>3, <1>4, <1>5 DEF SaveTyped

LEMMA SaveFailsType ==
    ASSUME TypeOK, NEW x \in Readers, SaveFails(x)
    PROVE  SaveTyped'
  <1>1. Nothing \in Change
    BY DEF Nothing, Change
  <1> QED
    BY <1>1 DEF SaveTyped, TypeOK, SaveFails, saved

LEMMA InitType == Init => TypeOK
  <1> SUFFICES ASSUME Init PROVE TypeOK
    OBVIOUS
  <1>1. Idle \in [Items -> States]
    BY DEF Idle, States
  <1>2. [r \in Requests |-> Idle] \in [Requests -> [Items -> States]]
    BY <1>1
  <1>3. assigns \in 0..MaxAssigns /\ bulks \in 0..MaxBulks /\ crashes \in 0..MaxCrashes
    BY BoundAssumption DEF Init
  <1>4. Nothing \in Change
    BY DEF Nothing, Change
  <1>5. /\ gap \in [late : SUBSET Privileges, others : Change]
        /\ since \in [Readers -> Change]
    BY <1>4 DEF Init
  <1> QED
    BY <1>2, <1>3, <1>5 DEF Init, TypeOK, States

LEMMA ProcessType ==
    ASSUME TypeOK,
           PrimaryRead \/ PrimaryWrite \/ \E w \in Workers : WorkerRead(w) \/ WorkerWrite(w)
    PROVE  TypeOK'
  <1> USE DEF requests, assigned, bulk, saved
  <1>1. CASE PrimaryRead
    BY <1>1, ReadType DEF PrimaryRead, TypeOK, Readers
  <1>2. CASE PrimaryWrite
    <2>1. SaveTyped'
      BY <1>2, SaveType, SeedAssumption DEF PrimaryWrite, Readers
    <2>2. worker' \in [Workers -> {"none", "seed_read", "seed_write", "up", "dead"}]
      BY <1>2 DEF PrimaryWrite, TypeOK
    <2> QED
      BY <1>2, <2>1, <2>2 DEF PrimaryWrite, SaveTyped, TypeOK
  <1>3. ASSUME NEW w \in Workers, WorkerRead(w) PROVE TypeOK'
    BY <1>3, ReadType DEF WorkerRead, TypeOK, Readers
  <1>4. ASSUME NEW w \in Workers, WorkerWrite(w) PROVE TypeOK'
    <2>1. SaveTyped'
      BY <1>4, SaveType, SaveFailsType, SeedAssumption DEF WorkerWrite, Readers
    <2>2. /\ worker' \in [Workers -> {"none", "seed_read", "seed_write", "up", "dead"}]
          /\ refused' \subseteq Workers
      BY <1>4 DEF WorkerWrite, TypeOK
    <2> QED
      BY <1>4, <2>1, <2>2 DEF WorkerWrite, SaveTyped, TypeOK
  <1> QED
    BY <1>1, <1>2, <1>3, <1>4

LEMMA CrashType ==
    ASSUME TypeOK, NEW w \in Workers, Crash(w)
    PROVE  TypeOK'
  <1>1. Nothing \in Change
    BY DEF Nothing, Change
  <1>2. crashes' \in 0..MaxCrashes
    BY BoundAssumption DEF Crash, TypeOK
  <1>3. /\ pc' \in [Requests -> {"idle", "assign_load", "assign_write", "bulk"}]
        /\ home' \in [Requests -> Workers \cup {Nowhere}]
        /\ asked' \in [Requests -> SUBSET Privileges]
        /\ found' \in [Requests -> SUBSET Privileges]
    BY DEF Crash, TypeOK
  <1>4. item' \in [Requests -> [Items -> States]]
    BY DEF Crash, TypeOK, States
  <1>5. seen' \in [Readers -> SUBSET AllRows] /\ since' \in [Readers -> Change]
    BY <1>1 DEF Crash, TypeOK
  <1>6. worker' \in [Workers -> {"none", "seed_read", "seed_write", "up", "dead"}]
    BY DEF Crash, TypeOK
  <1> QED
    BY <1>2, <1>3, <1>4, <1>5, <1>6 DEF Crash, TypeOK, saved, States

LEMMA AssignType ==
    ASSUME TypeOK, NEW r \in Requests,
           \/ \E w \in Workers, ps \in SUBSET Privileges : AssignPrivilege(r, w, ps)
           \/ AssignLoad(r) \/ AssignWrite(r)
    PROVE  TypeOK'
  <1> USE DEF processes, bulk
  <1>1. ASSUME NEW w \in Workers, NEW ps \in SUBSET Privileges, AssignPrivilege(r, w, ps)
        PROVE  TypeOK'
    <2>1. assigns' \in 0..MaxAssigns
      BY <1>1, BoundAssumption DEF AssignPrivilege, TypeOK
    <2> QED
      BY <1>1, <2>1 DEF AssignPrivilege, Begin, TypeOK, history
  <1>2. CASE AssignLoad(r)
    <2>1. found' \in [Requests -> SUBSET Privileges]
      BY <1>2 DEF AssignLoad, TypeOK
    <2>2. seen' \in [Readers -> SUBSET AllRows] /\ mixed' \in BOOLEAN
      BY <1>2, ReadType DEF AssignLoad, Readers
    <2> QED
      BY <1>2, <2>1, <2>2 DEF AssignLoad, TypeOK, saved
  <1>3. CASE AssignWrite(r)
    <2>1. asked[r] \in SUBSET Privileges /\ found[r] \in SUBSET Privileges /\ r \in Readers
      BY DEF TypeOK, Readers
    <2>2. SaveTyped'
      BY <1>3, <2>1, SaveType, SaveFailsType DEF AssignWrite
    <2> QED
      BY <1>3, <2>2, DoneType DEF AssignWrite, SaveTyped, TypeOK
  <1> QED
    BY <1>1, <1>2, <1>3

LEMMA BulkType ==
    ASSUME TypeOK, NEW r \in Requests,
           (\E w \in Workers : CreateBulkInvoices(r, w)) \/ Bulk(r)
    PROVE  TypeOK'
  <1> USE DEF processes, assigned, States
  <1>1. ASSUME NEW row \in [Items -> States], item' = [item EXCEPT ![r] = row]
        PROVE  item' \in [Requests -> [Items -> States]]
    BY <1>1 DEF TypeOK
  <1>2. ASSUME NEW w \in Workers, CreateBulkInvoices(r, w) PROVE TypeOK'
    <2>1. item' \in [Requests -> [Items -> States]]
      BY <1>2, <1>1 DEF CreateBulkInvoices
    <2>2. bulks' \in 0..MaxBulks
      BY <1>2, BoundAssumption DEF CreateBulkInvoices, TypeOK
    <2> QED
      BY <1>2, <2>1, <2>2 DEF CreateBulkInvoices, Begin, TypeOK, history
  <1>3. CASE SendChunk(r)
    <2>1. item' \in [Requests -> [Items -> States]]
      BY <1>3 DEF SendChunk, TypeOK
    <2> QED
      BY <1>3, <2>1 DEF SendChunk, TypeOK, history
  <1>4. CASE SettleInvoice(r)
    <2>1. PICK i \in InState(r, "sent"), st \in {"made", "failed"} :
             item' = [item EXCEPT ![r][i] = st]
      BY <1>4 DEF SettleInvoice
    <2>2. [item[r] EXCEPT ![i] = st] \in [Items -> States]
      BY <2>1 DEF TypeOK, InState
    <2>3. item' = [item EXCEPT ![r] = [item[r] EXCEPT ![i] = st]]
      BY <2>1
    <2>4. item' \in [Requests -> [Items -> States]]
      BY <2>2, <2>3, <1>1
    <2> QED
      BY <1>4, <2>4 DEF SettleInvoice, TypeOK, history
  <1>5. CASE AnswerBulk(r)
    BY <1>5, DoneType DEF AnswerBulk, TypeOK, history
  <1> QED
    BY <1>2, <1>3, <1>4, <1>5 DEF Bulk

LEMMA TypeStep == TypeOK /\ [Next]_vars => TypeOK'
  <1> SUFFICES ASSUME TypeOK, [Next]_vars PROVE TypeOK'
    OBVIOUS
  <1>1. CASE UNCHANGED vars
    BY <1>1 DEF vars, TypeOK
  <1>2. CASE Next
    BY <1>2, ProcessType, CrashType, AssignType, BulkType DEF Next
  <1> QED
    BY <1>1, <1>2

\* TypeCorrect: every variable keeps its type, whatever processes seed, serve or
\* die, for every number of them.
THEOREM TypeCorrect == Spec => []TypeOK
  <1>1. Init => TypeOK
    BY InitType
  <1>2. TypeOK /\ [Next]_vars => TypeOK'
    BY TypeStep
  <1> QED
    BY <1>1, <1>2, PTL DEF Spec

-----------------------------------------------------------------------------
(* The copies of the role.  As long as no two read it at once, the one that   *)
(* has read it and has yet to write holds the rows as they are; and what      *)
(* stands between a copy and the rows is what others wrote since it was read. *)

Alone ==
    mixed \/ /\ \A x \in Pending : seen[x] = rows
             /\ \A x, y \in Pending : x = y

Explained ==
    /\ AssignedAsAsked
    /\ \A x \in Pending :
          rows \ seen[x] \subseteq since[x].in /\ seen[x] \ rows \subseteq since[x].out

\* What was looked up was asked for, and a free slot has looked nothing up.
Lookups ==
    \A r \in Requests : found[r] \subseteq asked[r] /\ (pc[r] = "idle" => found[r] = {})

Copies == Alone /\ Explained

LEMMA PendingReads ==
    ASSUME TypeOK, NEW x \in Pending
    PROVE  x \in Readers
  BY DEF Pending, Readers

\* To read is safe when nobody else has, and is told otherwise.
LEMMA ReadCopies ==
    ASSUME TypeOK, Copies, NEW x \in Readers, Read(x), UNCHANGED <<saved, since>>,
           Pending' \subseteq Pending \cup {x}
    PROVE  Copies'
  <1>1. /\ seen'[x] = rows
        /\ \A y \in Pending \ {x} : seen'[y] = seen[y]
        /\ mixed' = (mixed \/ Pending \ {x} # {})
    BY PendingReads DEF Read, TypeOK
  <1>2. Alone'
    BY <1>1 DEF Copies, Alone, saved
  <1>3. Explained'
    BY <1>1 DEF Copies, Explained, AssignedAsAsked, saved
  <1> QED
    BY <1>2, <1>3 DEF Copies

\* A save leaves what it was meant to, but for what others did since it read.
LEMMA SaveExplained ==
    ASSUME TypeOK, Explained, NEW x \in Pending, NEW meant \in SUBSET Privileges,
           NEW ps \in SUBSET meant, Save(x, ps, meant), Pending' \subseteq Pending \ {x}
    PROVE  Explained'
  <1> DEFINE wish == ps \cup {Role}
             in == wish \ seen[x]
             out == seen[x] \ wish
  <1>1. /\ rows' = (rows \ out) \cup in
        /\ target' = meant
        /\ gap'.late = meant \ wish
        /\ gap'.others = since[x]
    BY DEF Save, SaveDiff
  <1>2. rows \ seen[x] \subseteq since[x].in /\ seen[x] \ rows \subseteq since[x].out
    BY DEF Explained
  <1>3. AssignedAsAsked'
    <2>1. rows' \ {Role} \subseteq target' \cup since[x].in
      BY <1>1, <1>2
    <2>2. target' \subseteq rows' \cup (meant \ wish) \cup since[x].out
      BY <1>1, <1>2
    <2> QED
      BY <1>1, <2>1, <2>2 DEF AssignedAsAsked
  <1>4. ASSUME NEW y \in Pending'
        PROVE  rows' \ seen'[y] \subseteq since'[y].in /\ seen'[y] \ rows' \subseteq since'[y].out
    <2>1. y \in Pending \ {x} /\ y \in Readers
      BY <1>4, PendingReads
    <2>2. /\ seen'[y] = seen[y]
          /\ since'[y].in = since[y].in \cup in
          /\ since'[y].out = since[y].out \cup out
      BY <2>1 DEF Save, SaveDiff, TypeOK
    <2>3. rows \ seen[y] \subseteq since[y].in /\ seen[y] \ rows \subseteq since[y].out
      BY <2>1 DEF Explained
    <2> QED
      BY <1>1, <2>2, <2>3
  <1> QED
    BY <1>3, <1>4 DEF Explained

LEMMA SaveCopies ==
    ASSUME TypeOK, Copies, NEW x \in Pending, NEW meant \in SUBSET Privileges,
           NEW ps \in SUBSET meant, Save(x, ps, meant), Pending' \subseteq Pending \ {x},
           mixed' = mixed
    PROVE  Copies'
  <1>1. Alone'
    BY DEF Copies, Alone
  <1> QED
    BY <1>1, SaveExplained DEF Copies

\* Whatever neither reads nor writes the rows may only end a save before it.
LEMMA ElseCopies ==
    ASSUME Copies, UNCHANGED <<saved, mixed>>, Pending' \subseteq Pending,
           \A x \in Pending' : seen'[x] = seen[x] /\ since'[x] = since[x]
    PROVE  Copies'
  BY DEF Copies, Alone, Explained, AssignedAsAsked, saved

LEMMA LookupsStep == TypeOK /\ Lookups /\ [Next]_vars => Lookups'
  <1> SUFFICES ASSUME TypeOK, Lookups, [Next]_vars PROVE Lookups'
    OBVIOUS
  <1>1. ASSUME UNCHANGED assigned, \A r \in Requests : pc'[r] = "idle" => pc[r] = "idle"
        PROVE  Lookups'
    BY <1>1 DEF assigned, Lookups
  <1>2. CASE UNCHANGED vars
    BY <1>1, <1>2 DEF vars, assigned
  <1>3. CASE PrimaryRead \/ PrimaryWrite \/ \E w \in Workers : WorkerRead(w) \/ WorkerWrite(w)
    BY <1>1, <1>3 DEF PrimaryRead, PrimaryWrite, WorkerRead, WorkerWrite, requests
  <1>4. ASSUME NEW w \in Workers, Crash(w) PROVE Lookups'
    BY <1>4 DEF Crash, Lookups
  <1>5. ASSUME NEW r \in Requests, NEW w \in Workers, NEW ps \in SUBSET Privileges,
               AssignPrivilege(r, w, ps)
        PROVE  Lookups'
    BY <1>5 DEF AssignPrivilege, Begin, Lookups, TypeOK
  <1>6. ASSUME NEW r \in Requests, AssignLoad(r) PROVE Lookups'
    BY <1>6 DEF AssignLoad, Lookups, TypeOK
  <1>7. ASSUME NEW r \in Requests, Done(r) PROVE Lookups'
    BY <1>7 DEF Done, Lookups, TypeOK
  <1>8. ASSUME NEW r \in Requests, AssignWrite(r) \/ AnswerBulk(r) PROVE Lookups'
    BY <1>7, <1>8 DEF AssignWrite, AnswerBulk
  <1>9. ASSUME NEW r \in Requests,
               \/ \E w \in Workers : CreateBulkInvoices(r, w)
               \/ SendChunk(r) \/ SettleInvoice(r)
        PROVE  Lookups'
    BY <1>1, <1>9 DEF CreateBulkInvoices, SendChunk, SettleInvoice, Begin, TypeOK
  <1> QED
    BY <1>2, <1>3, <1>4, <1>5, <1>6, <1>8, <1>9 DEF Next, Bulk

LEMMA CopiesStep == TypeOK /\ Copies /\ Lookups /\ [Next]_vars => Copies'
  <1> SUFFICES ASSUME TypeOK, Copies, Lookups, [Next]_vars PROVE Copies'
    OBVIOUS
  <1> USE WorkerAssumption DEF requests, assigned
  <1>1. CASE UNCHANGED vars
    <2>1. Pending' = Pending
      BY <1>1 DEF vars, Pending
    <2> QED
      BY <1>1, <2>1, ElseCopies DEF vars, saved
  <1>2. CASE PrimaryRead
    <2>1. Pending' \subseteq Pending \cup {Primary}
      BY <1>2 DEF PrimaryRead, Pending
    <2> QED
      BY <1>2, <2>1, ReadCopies DEF PrimaryRead, Readers
  <1>3. CASE PrimaryWrite
    <2>1. Primary \in Pending
      BY <1>3 DEF PrimaryWrite, Pending
    <2>2. Pending' \subseteq Pending \ {Primary}
      BY <1>3 DEF PrimaryWrite, Pending, TypeOK
    <2> QED
      BY <1>3, <2>1, <2>2, SaveCopies, SeedAssumption DEF PrimaryWrite
  <1>4. ASSUME NEW w \in Workers, WorkerRead(w) PROVE Copies'
    <2>1. Pending' \subseteq Pending \cup {w}
      BY <1>4 DEF WorkerRead, Pending, TypeOK
    <2> QED
      BY <1>4, <2>1, ReadCopies DEF WorkerRead, Readers
  <1>5. ASSUME NEW w \in Workers, WorkerWrite(w) PROVE Copies'
    <2>1. w \in Pending
      BY <1>5 DEF WorkerWrite, Pending
    <2>2. Pending' \subseteq Pending \ {w}
      BY <1>5 DEF WorkerWrite, Pending, TypeOK
    <2>3. CASE Save(w, Defaults, Defaults)
      BY <1>5, <2>1, <2>2, <2>3, SaveCopies, SeedAssumption DEF WorkerWrite
    <2>4. CASE SaveFails(w)
      <3>1. \A x \in Pending' : seen'[x] = seen[x] /\ since'[x] = since[x]
        BY <2>2, <2>4, PendingReads DEF SaveFails, TypeOK
      <3> QED
        BY <1>5, <2>2, <2>4, <3>1, ElseCopies DEF WorkerWrite, SaveFails
    <2> QED
      BY <1>5, <2>3, <2>4 DEF WorkerWrite
  <1>6. ASSUME NEW w \in Workers, Crash(w) PROVE Copies'
    <2>1. /\ Pending' \subseteq Pending
          /\ \A x \in Pending' : seen'[x] = seen[x] /\ since'[x] = since[x]
      BY <1>6 DEF Crash, Pending, Readers, TypeOK
    <2> QED
      BY <1>6, <2>1, ElseCopies DEF Crash
  <1>7. ASSUME NEW r \in Requests, AssignLoad(r) PROVE Copies'
    <2>1. Pending' \subseteq Pending \cup {r}
      BY <1>7 DEF AssignLoad, Pending, processes, TypeOK
    <2> QED
      BY <1>7, <2>1, ReadCopies DEF AssignLoad, Readers
  <1>8. ASSUME NEW r \in Requests, AssignWrite(r) PROVE Copies'
    <2>1. r \in Pending
      BY <1>8 DEF AssignWrite, Pending
    <2>2. Pending' \subseteq Pending \ {r}
      BY <1>8 DEF AssignWrite, Done, Pending, processes, TypeOK
    <2>4. CASE Save(r, found[r], asked[r])
      <3>1. asked[r] \in SUBSET Privileges /\ found[r] \in SUBSET asked[r]
        BY DEF Lookups, TypeOK
      <3> QED
        BY <1>8, <2>1, <2>2, <2>4, <3>1, SaveCopies DEF AssignWrite
    <2>5. CASE SaveFails(r)
      <3>1. \A x \in Pending' : seen'[x] = seen[x] /\ since'[x] = since[x]
        BY <2>2, <2>5, PendingReads DEF SaveFails, TypeOK
      <3> QED
        BY <1>8, <2>2, <2>5, <3>1, ElseCopies DEF AssignWrite, SaveFails
    <2> QED
      BY <1>8, <2>4, <2>5 DEF AssignWrite
  <1>9. ASSUME NEW r \in Requests,
               \/ \E w \in Workers :
                     \/ \E ps \in SUBSET Privileges : AssignPrivilege(r, w, ps)
                     \/ CreateBulkInvoices(r, w)
               \/ Bulk(r)
        PROVE  Copies'
    <2>1. /\ UNCHANGED <<saved, since, mixed, seen, primary, worker>>
          /\ \A q \in Requests : pc'[q] = "assign_write" => pc[q] = "assign_write"
      BY <1>9 DEF AssignPrivilege, CreateBulkInvoices, Bulk, SendChunk, SettleInvoice,
                  AnswerBulk, Begin, Done, processes, history, saved, TypeOK
    <2>2. Pending' \subseteq Pending
      BY <2>1 DEF Pending
    <2> QED
      BY <2>1, <2>2, ElseCopies
  <1> QED
    BY <1>1, <1>2, <1>3, <1>4, <1>5, <1>6, <1>7, <1>8, <1>9 DEF Next

LEMMA InitCopies == Init => Copies /\ Lookups
  BY DEF Init, Copies, Lookups, Alone, Explained, AssignedAsAsked, Pending

\* AssignedExplained: for every number of privileges, workers and requests that
\* assign at once, the role has more than its last save was asked for only by an
\* insert, and less only by a lookup or a deletion, that this save could not see.
THEOREM AssignedExplained == Spec => []AssignedAsAsked
  <1>1. Init => TypeOK /\ Copies /\ Lookups
    BY InitType, InitCopies
  <1>2. TypeOK /\ Copies /\ Lookups /\ [Next]_vars => TypeOK' /\ Copies' /\ Lookups'
    BY TypeStep, CopiesStep, LookupsStep
  <1>3. Copies => AssignedAsAsked
    BY DEF Copies, Explained
  <1> QED
    BY <1>1, <1>2, <1>3, PTL DEF Spec

-----------------------------------------------------------------------------
(* Bulk requests.  What is being inserted at a time belongs to one chunk, and *)
(* a chunk is the positions of an interval.                                   *)

InChunk(m) == {i \in Items : ChunkOf(i) = m}

Begun(r) == InState(r, "sent") \cup Settled(r)

InOrder(r) ==
    \A i \in Begun(r), k \in Items : ChunkOf(k) < ChunkOf(i) => k \in Settled(r)

SlotInv(r) ==
    /\ InState(r, "sent") # {} => pc[r] = "bulk"
    /\ r \in answered => pc[r] # "bulk" /\ Settled(r) = Items
    /\ \E m \in Nat : InState(r, "sent") \subseteq InChunk(m)
    /\ pc[r] = "bulk" => Begun(r) \cup InState(r, "waits") = Items
    /\ InOrder(r)

BulkInv == \A r \in Requests : SlotInv(r)

\* The position of an invoice lies within those of its chunk.
LEMMA ChunkBounds ==
    ASSUME NEW i \in Items
    PROVE  /\ ChunkOf(i) \in Nat
           /\ i \in (ChunkSize * ChunkOf(i) + 1)..(ChunkSize * ChunkOf(i) + ChunkSize)
  <1>1. /\ i - 1 \in Nat
        /\ ChunkSize \in Nat \ {0}
        /\ i \in Nat
    BY ItemAssumption
  <1>2. \A j \in Nat, c \in Nat \ {0} :
           j \div c \in Nat /\ c * (j \div c) <= j /\ j < c * (j \div c) + c
    OBVIOUS
  <1>3. /\ (i - 1) \div ChunkSize \in Nat
        /\ ChunkSize * ((i - 1) \div ChunkSize) <= i - 1
        /\ i - 1 < ChunkSize * ((i - 1) \div ChunkSize) + ChunkSize
    BY <1>1, <1>2
  <1> DEFINE b == ChunkSize * ((i - 1) \div ChunkSize)
  <1>4. b \in Nat
    BY <1>1, <1>3
  <1>5. i \in (b + 1)..(b + ChunkSize)
    <2> HIDE DEF b
    <2>1. b <= i - 1 /\ i - 1 < b + ChunkSize
      BY <1>3 DEF b
    <2> QED
      BY <1>1, <1>4, <2>1
  <1> QED
    BY <1>3, <1>5 DEF ChunkOf

\* A chunk has no more invoices than its size.
LEMMA ChunkBounded ==
    ASSUME NEW m \in Nat, NEW S, S \subseteq InChunk(m)
    PROVE  Cardinality(S) <= ChunkSize
  <1> DEFINE a == ChunkSize * m
  <1>1. ChunkSize \in Nat \ {0} /\ a \in Nat
    BY ItemAssumption
  <1>2. S \subseteq (a + 1)..(a + ChunkSize)
    BY ChunkBounds DEF InChunk
  <1> HIDE DEF a
  <1>3. /\ IsFiniteSet((a + 1)..(a + ChunkSize))
        /\ Cardinality((a + 1)..(a + ChunkSize)) = ChunkSize
    <2>1. a + 1 \in Int /\ a + ChunkSize \in Int
      BY <1>1
    <2> QED
      BY <1>1, <2>1, FS_Interval
  <1>4. IsFiniteSet(S) /\ Cardinality(S) <= Cardinality((a + 1)..(a + ChunkSize))
    BY <1>2, <1>3, FS_Subset
  <1> QED
    BY <1>3, <1>4

\* The next chunk to send is one chunk.
LEMMA NextChunkIsOne ==
    ASSUME NEW r \in Requests
    PROVE  \E m \in Nat : NextChunk(r) \subseteq InChunk(m)
  <1>1. NextChunk(r) \subseteq Items
    BY DEF NextChunk, InState
  <1>2. \A i \in Items : ChunkOf(i) \in Nat
    BY ChunkBounds
  <1>3. CASE NextChunk(r) = {}
    BY <1>3, 0 \in Nat
  <1>4. CASE NextChunk(r) # {}
    <2>1. PICK i \in NextChunk(r) : TRUE
      BY <1>4
    <2>2. \A k \in NextChunk(r) : ChunkOf(i) <= ChunkOf(k) /\ ChunkOf(k) <= ChunkOf(i)
      BY <2>1 DEF NextChunk
    <2>3. \A k \in NextChunk(r) : ChunkOf(k) = ChunkOf(i)
      <3> HIDE DEF NextChunk
      <3> QED
        BY <1>1, <1>2, <2>1, <2>2
    <2> QED
      BY <1>1, <1>2, <2>1, <2>3 DEF InChunk
  <1> QED
    BY <1>3, <1>4

\* What does not touch a bulk request leaves it as it was.
LEMMA SlotFrame ==
    ASSUME NEW r \in Requests, SlotInv(r), item'[r] = item[r],
           pc'[r] = pc[r] \/ (pc'[r] # "bulk" /\ pc[r] # "bulk"),
           r \in answered' => r \in answered
    PROVE  SlotInv(r)'
  <1>1. /\ InState(r, "sent")' = InState(r, "sent")
        /\ InState(r, "waits")' = InState(r, "waits")
        /\ Settled(r)' = Settled(r)
    BY DEF InState, Settled
  <1> QED
    BY <1>1 DEF SlotInv, InOrder, Begun

LEMMA CrashSlot ==
    ASSUME TypeOK, NEW r \in Requests, SlotInv(r), NEW w \in Workers, Crash(w)
    PROVE  SlotInv(r)'
  <1>1. CASE home[r] # w
    <2>1. item'[r] = item[r] /\ pc'[r] = pc[r] /\ answered' = answered
      <3>1. item'[r] = [i \in Items |-> item[r][i]]
        BY <1>1 DEF Crash
      <3> QED
        BY <1>1, <3>1 DEF Crash, TypeOK
    <2> QED
      BY <2>1, SlotFrame
  <1>2. CASE home[r] = w
    <2>1. /\ pc'[r] = "idle" /\ answered' = answered
          /\ item'[r] = [i \in Items |->
                IF item[r][i] \in {"waits", "sent"} THEN "lost" ELSE item[r][i]]
      BY <1>2 DEF Crash
    <2>2. InState(r, "sent")' = {} /\ Settled(r)' = Settled(r)
      BY <2>1 DEF InState, Settled
    <2> QED
      BY <2>1, <2>2, 0 \in Nat DEF SlotInv, InOrder, Begun
  <1> QED
    BY <1>1, <1>2

LEMMA SendSlot ==
    ASSUME TypeOK, NEW r \in Requests, SlotInv(r), SendChunk(r)
    PROVE  SlotInv(r)'
  <1>1. /\ pc[r] = "bulk" /\ pc'[r] = "bulk" /\ answered' = answered
        /\ item'[r] = [i \in Items |-> IF i \in NextChunk(r) THEN "sent" ELSE item[r][i]]
        /\ InState(r, "sent") = {}
    BY DEF SendChunk, TypeOK
  <1>2. NextChunk(r) \subseteq InState(r, "waits") /\ NextChunk(r) \subseteq Items
    BY DEF NextChunk, InState
  <1>3. /\ InState(r, "sent")' = NextChunk(r)
        /\ InState(r, "waits")' = InState(r, "waits") \ NextChunk(r)
        /\ Settled(r)' = Settled(r)
    BY <1>1, <1>2 DEF InState, Settled
  <1>4. ASSUME NEW i \in NextChunk(r), NEW k \in Items, ChunkOf(k) < ChunkOf(i)
        PROVE  k \in Settled(r)
    <2>1. ChunkOf(i) \in Nat /\ ChunkOf(k) \in Nat
      BY <1>2, ChunkBounds
    <2>2. k \in InState(r, "waits") => ChunkOf(i) <= ChunkOf(k)
      BY DEF NextChunk
    <2> HIDE DEF NextChunk
    <2>3. k \notin InState(r, "waits")
      BY <1>4, <2>1, <2>2
    <2> QED
      BY <1>1, <2>3 DEF SlotInv, Begun
  <1>5. InOrder(r)'
    BY <1>1, <1>3, <1>4 DEF SlotInv, InOrder, Begun
  <1>6. \E m \in Nat : InState(r, "sent")' \subseteq InChunk(m)
    BY <1>3, NextChunkIsOne
  <1> QED
    BY <1>1, <1>2, <1>3, <1>5, <1>6 DEF SlotInv, Begun

LEMMA SettleSlot ==
    ASSUME TypeOK, NEW r \in Requests, SlotInv(r), SettleInvoice(r)
    PROVE  SlotInv(r)'
  <1>1. PICK i \in InState(r, "sent"), st \in {"made", "failed"} :
           item' = [item EXCEPT ![r][i] = st]
    BY DEF SettleInvoice
  <1>2. pc[r] = "bulk" /\ r \notin answered /\ i \in Items
    BY <1>1 DEF SlotInv, InState
  <1>3. pc' = pc /\ answered' = answered
    BY DEF SettleInvoice
  <1>4. item'[r] = [item[r] EXCEPT ![i] = st]
    BY <1>1 DEF TypeOK
  <1>5. /\ InState(r, "sent")' = InState(r, "sent") \ {i}
        /\ InState(r, "waits")' = InState(r, "waits")
        /\ Settled(r)' = Settled(r) \cup {i}
    BY <1>1, <1>2, <1>4 DEF InState, Settled, TypeOK
  <1> QED
    BY <1>1, <1>2, <1>3, <1>5 DEF SlotInv, InOrder, Begun

LEMMA BulkStep == TypeOK /\ BulkInv /\ [Next]_vars => BulkInv'
  <1> SUFFICES ASSUME TypeOK, BulkInv, [Next]_vars, NEW r \in Requests
               PROVE  SlotInv(r)'
    BY DEF BulkInv
  <1>1. SlotInv(r)
    BY DEF BulkInv
  <1>2. CASE UNCHANGED <<pc, item, answered>>
    BY <1>1, <1>2, SlotFrame
  <1>3. ASSUME NEW w \in Workers, Crash(w) PROVE SlotInv(r)'
    BY <1>1, <1>3, CrashSlot
  <1>4. ASSUME NEW q \in Requests,
               \/ \E w \in Workers, ps \in SUBSET Privileges : AssignPrivilege(q, w, ps)
               \/ AssignLoad(q) \/ AssignWrite(q)
        PROVE  SlotInv(r)'
    <2>1. /\ item' = item /\ answered' = answered
          /\ pc'[r] = pc[r] \/ (pc'[r] # "bulk" /\ pc[r] # "bulk")
      BY <1>4 DEF AssignPrivilege, AssignLoad, AssignWrite, Begin, Done, bulk, TypeOK
    <2> QED
      BY <1>1, <2>1, SlotFrame
  <1>5. ASSUME NEW q \in Requests, q # r,
               (\E w \in Workers : CreateBulkInvoices(q, w)) \/ Bulk(q)
        PROVE  SlotInv(r)'
    <2>1. item'[r] = item[r] /\ pc'[r] = pc[r] /\ (r \in answered' => r \in answered)
      BY <1>5 DEF CreateBulkInvoices, Bulk, SendChunk, SettleInvoice, AnswerBulk,
                  Begin, Done, TypeOK
    <2> QED
      BY <1>1, <2>1, SlotFrame
  <1>6. ASSUME NEW w \in Workers, CreateBulkInvoices(r, w) PROVE SlotInv(r)'
    <2>1. /\ pc'[r] = "bulk" /\ r \notin answered'
          /\ item'[r] = [i \in Items |-> "waits"]
      BY <1>6 DEF CreateBulkInvoices, Begin, TypeOK
    <2>2. InState(r, "sent")' = {} /\ Settled(r)' = {} /\ InState(r, "waits")' = Items
      BY <2>1 DEF InState, Settled
    <2> QED
      BY <2>1, <2>2, 0 \in Nat DEF SlotInv, InOrder, Begun
  <1>7. CASE AnswerBulk(r)
    <2>1. /\ pc[r] = "bulk" /\ pc'[r] = "idle" /\ item' = item
          /\ InState(r, "sent") = {} /\ InState(r, "waits") = {}
      BY <1>7 DEF AnswerBulk, Done, TypeOK
    <2>2. Settled(r) = Items
      BY <1>1, <2>1 DEF SlotInv, Begun
    <2>3. Settled(r)' = Settled(r) /\ InState(r, "sent")' = InState(r, "sent")
      BY <2>1 DEF Settled, InState
    <2> QED
      BY <1>1, <2>1, <2>2, <2>3 DEF SlotInv, InOrder, Begun
  <1>8. CASE \/ PrimaryRead \/ PrimaryWrite
             \/ \E w \in Workers : WorkerRead(w) \/ WorkerWrite(w)
    BY <1>2, <1>8 DEF PrimaryRead, PrimaryWrite, WorkerRead, WorkerWrite, requests, bulk
  <1>9. CASE UNCHANGED vars
    BY <1>2, <1>9 DEF vars
  <1> QED
    BY <1>1, <1>3, <1>4, <1>5, <1>6, <1>7, <1>8, <1>9, SendSlot, SettleSlot DEF Next, Bulk

\* BulkAlwaysSettled: a bulk request is answered with every invoice settled, has
\* never more under way than a chunk, and never one before the chunks ahead of it
\* have settled, wherever processes die, for every number and size of chunks.
THEOREM BulkAlwaysSettled == Spec => []BulkSettled
  <1>1. Init => TypeOK /\ BulkInv
    <2> SUFFICES ASSUME Init, NEW r \in Requests PROVE SlotInv(r)
      BY InitType DEF BulkInv
    <2>1. item[r] = Idle /\ pc[r] = "idle" /\ answered = {}
      BY DEF Init
    <2>2. InState(r, "sent") = {} /\ Settled(r) = {}
      BY <2>1 DEF InState, Settled, Idle
    <2> QED
      BY <2>1, <2>2, 0 \in Nat DEF SlotInv, InOrder, Begun
  <1>2. TypeOK /\ BulkInv /\ [Next]_vars => TypeOK' /\ BulkInv'
    BY TypeStep, BulkStep
  <1>3. BulkInv => BulkSettled
    <2> SUFFICES ASSUME BulkInv, NEW r \in Requests
                 PROVE  /\ r \in answered => Settled(r) = Items
                        /\ Cardinality(InState(r, "sent")) <= ChunkSize
                        /\ InOrder(r)
      BY DEF BulkSettled, InOrder, Begun
    <2>1. SlotInv(r)
      BY DEF BulkInv
    <2>2. PICK m \in Nat : InState(r, "sent") \subseteq InChunk(m)
      BY <2>1 DEF SlotInv
    <2> QED
      BY <2>1, <2>2, ChunkBounded DEF SlotInv
  <1> QED
    BY <1>1, <1>2, <1>3, PTL DEF Spec

-----------------------------------------------------------------------------
(* The seed.  Until the primary has forked nobody else runs; after it, and    *)
(* until something is assigned, every seed finds all it would insert.         *)

Whole == Defaults \cup {Role}

SeedInv ==
    /\ primary # "forked" =>
          /\ rows = {} /\ assigns = 0
          /\ seen = [x \in Readers |-> {}]
          /\ worker = [w \in Workers |-> "none"]
    /\ assigns = 0 =>
          /\ refused = {}
          /\ \A r \in Requests : pc[r] \in {"idle", "bulk"}
    /\ assigns = 0 /\ primary = "forked" =>
          /\ Whole \subseteq rows
          /\ \A w \in Workers : worker[w] = "seed_write" => Whole \subseteq seen[w]
    /\ refused # {} => mixed

\* A seed clashes only when something was assigned, and others had read.
LEMMA ClashNeedsBoth ==
    ASSUME TypeOK, Alone, SeedInv, NEW w \in Workers,
           worker[w] = "seed_write", Clashes(w, Defaults)
    PROVE  assigns # 0 /\ mixed
  <1>1. w \in Pending
    BY DEF Pending
  <1>2. primary = "forked"
    BY DEF SeedInv
  <1> QED
    BY <1>1, <1>2 DEF Alone, SeedInv, Clashes, Whole

LEMMA SeedStep == TypeOK /\ Copies /\ SeedInv /\ [Next]_vars => SeedInv'
  <1> SUFFICES ASSUME TypeOK, Alone, SeedInv, [Next]_vars PROVE SeedInv'
    BY DEF Copies
  <1> USE WorkerAssumption DEF requests, assigned, bulk, saved
  <1>1. CASE UNCHANGED vars
    BY <1>1 DEF vars, SeedInv
  <1>2. CASE PrimaryRead
    BY <1>2 DEF PrimaryRead, Read, SeedInv, requests, TypeOK
  <1>3. CASE PrimaryWrite
    <2>1. rows' = Whole
      BY <1>3 DEF PrimaryWrite, Save, SaveDiff, SeedInv, Whole, Readers, TypeOK
    <2>2. \A w \in Workers : worker'[w] = "seed_read"
      BY <1>3 DEF PrimaryWrite, SeedInv, TypeOK
    <2> QED
      BY <1>3, <2>1, <2>2 DEF PrimaryWrite, SeedInv, requests
  <1>4. ASSUME NEW w \in Workers, WorkerRead(w) PROVE SeedInv'
    <2>1. primary = "forked"
      BY <1>4 DEF WorkerRead, SeedInv
    <2>2. /\ seen'[w] = rows /\ \A v \in Workers : v # w => seen'[v] = seen[v]
          /\ mixed => mixed'
      BY <1>4 DEF WorkerRead, Read, Readers, TypeOK
    <2>3. \A v \in Workers : v # w => worker'[v] = worker[v]
      BY <1>4 DEF WorkerRead, TypeOK
    <2> QED
      BY <1>4, <2>1, <2>2, <2>3 DEF WorkerRead, SeedInv, requests
  <1>5. ASSUME NEW w \in Workers, WorkerWrite(w) PROVE SeedInv'
    <2>1. primary = "forked" /\ worker[w] = "seed_write"
      BY <1>5 DEF WorkerWrite, SeedInv
    <2>2. \A v \in Workers : v # w => seen'[v] = seen[v] /\ worker'[v] = worker[v]
      BY <1>5 DEF WorkerWrite, Save, SaveDiff, SaveFails, Readers, TypeOK
    <2>3. worker'[w] # "seed_write"
      BY <1>5 DEF WorkerWrite, TypeOK
    <2>4. /\ \/ Save(w, Defaults, Defaults) /\ refused' = refused
             \/ Clashes(w, Defaults) /\ UNCHANGED rows
          /\ UNCHANGED <<primary, pc, assigns, mixed>>
      BY <1>5 DEF WorkerWrite, SaveFails
    <2>5. CASE Save(w, Defaults, Defaults) /\ refused' = refused
      <3>1. Whole \subseteq rows => Whole \subseteq rows'
        BY <2>5 DEF Save, SaveDiff, Whole
      <3> QED
        BY <2>1, <2>2, <2>3, <2>4, <2>5, <3>1 DEF SeedInv
    <2>6. CASE Clashes(w, Defaults) /\ UNCHANGED rows
      <3>1. assigns # 0 /\ mixed
        BY <2>1, <2>6, ClashNeedsBoth
      <3> QED
        BY <2>1, <2>4, <2>6, <3>1 DEF SeedInv
    <2> QED
      BY <2>4, <2>5, <2>6
  <1>6. ASSUME NEW w \in Workers, Crash(w) PROVE SeedInv'
    <2>1. primary = "forked"
      BY <1>6 DEF Crash, SeedInv
    <2>2. /\ \A v \in Workers : worker'[v] = "seed_write" =>
                worker[v] = "seed_write" /\ seen'[v] = seen[v]
          /\ \A r \in Requests : pc'[r] \in {"idle", pc[r]}
      BY <1>6 DEF Crash, Readers, TypeOK
    <2>3. UNCHANGED <<rows, primary, assigns, mixed, refused>>
      BY <1>6 DEF Crash, history
    <2> QED
      BY <2>1, <2>2, <2>3 DEF SeedInv
  <1>7. ASSUME NEW r \in Requests,
               \E w \in Workers, ps \in SUBSET Privileges : AssignPrivilege(r, w, ps)
        PROVE  SeedInv'
    <2>1. /\ assigns' # 0 /\ primary = "forked"
          /\ UNCHANGED <<primary, refused, mixed>>
      BY <1>7 DEF AssignPrivilege, Begin, SeedInv, TypeOK, processes, history
    <2> QED
      BY <2>1 DEF SeedInv
  <1>8. ASSUME NEW r \in Requests, AssignLoad(r) \/ AssignWrite(r) PROVE SeedInv'
    <2>1. assigns # 0
      BY <1>8 DEF AssignLoad, AssignWrite, SeedInv
    <2>2. UNCHANGED <<primary, refused, assigns>> /\ (mixed => mixed')
      <3>1. CASE AssignLoad(r)
        BY <3>1 DEF AssignLoad, Read, processes
      <3>2. CASE AssignWrite(r)
        BY <3>2 DEF AssignWrite, processes
      <3> QED
        BY <1>8, <3>1, <3>2
    <2> QED
      BY <2>1, <2>2 DEF SeedInv
  <1>9. ASSUME NEW r \in Requests,
               (\E w \in Workers : CreateBulkInvoices(r, w)) \/ Bulk(r)
        PROVE  SeedInv'
    <2>1. /\ UNCHANGED <<rows, primary, worker, refused, seen, assigns, mixed>>
          /\ \A q \in Requests : pc'[q] \in {pc[q], "idle", "bulk"}
      BY <1>9 DEF CreateBulkInvoices, Bulk, SendChunk, SettleInvoice, AnswerBulk,
                  Begin, Done, processes, history, TypeOK
    <2> QED
      BY <2>1 DEF SeedInv
  <1> QED
    BY <1>1, <1>2, <1>3, <1>4, <1>5, <1>6, <1>7, <1>8, <1>9 DEF Next

\* FirstStartSurvived: no worker dies of its seed on a first start unless an
\* assignment was made while others had read the role, however many there are.
THEOREM FirstStartSurvived == Spec => []SeedSurvived
  <1>1. Init => TypeOK /\ Copies /\ Lookups /\ SeedInv
    BY InitType, InitCopies DEF Init, SeedInv
  <1>2. TypeOK /\ Copies /\ Lookups /\ SeedInv /\ [Next]_vars
            => TypeOK' /\ Copies' /\ Lookups' /\ SeedInv'
    BY TypeStep, CopiesStep, LookupsStep, SeedStep
  <1>3. TypeOK /\ SeedInv => SeedSurvived
    BY BoundAssumption DEF SeedInv, SeedSurvived, TypeOK
  <1> QED
    BY <1>1, <1>2, <1>3, PTL DEF Spec
=============================================================================
