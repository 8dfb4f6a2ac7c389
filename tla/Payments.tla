------------------------------ MODULE Payments ------------------------------
(***************************************************************************)
(* Invoices and their payment: src/src/payment/payment.service.ts, the     *)
(* webhook of src/src/payment/stripe.controller.ts, and Stripe as the code *)
(* uses it: checkout sessions a student may pay or let expire, and a       *)
(* signed event about each, delivered again until the webhook answers 2xx. *)
(*                                                                         *)
(* As in Attendance, a handler is a chain of actions, one per awaited      *)
(* call, a slot is a running handler, and a refusal at the first call has  *)
(* no action.                                                              *)
(***************************************************************************)
EXTENDS Naturals, FiniteSets, Sequences

CONSTANTS Invoices, Students, Requests,
          Sessions,       \* Stripe checkout session ids (a bound)
          NoInvoice,      \* no row under this id
          Nobody,         \* no student: the slot is idle or runs the webhook
          NoSession,      \* a session id Stripe has not given out; no event
          MaxIntents,     \* bound on payment intents, per invoice
          MaxBulk,        \* bound on the length of a bulk payment
          MaxDuplicates,  \* bound on deliveries of acknowledged events
          MaxFaults       \* bound on failed calls and crashes

ASSUME FiniteAssumption == IsFiniteSet(Requests) /\ Requests # {}

ASSUME BulkAssumption == MaxBulk \in Nat

ASSUME NullAssumption ==
    /\ NoInvoice \notin [studentId : Students, status : {"PENDING", "COMPLETED"},
                        paidAt : Nat]
    /\ NoSession \notin [invoice : Invoices, state : {"open", "paid", "expired"}]
    /\ NoSession \notin Sessions

VARIABLES invoices,    \* the table: id -> row or NoInvoice
          sessions,    \* Stripe: id -> session or NoSession
          unacked,     \* Stripe: closed sessions whose event is to be delivered
          intents,     \* Stripe: payment intents created, per invoice
          pc,          \* slot -> next call
          payer,       \* slot -> the student asking
          todo,        \* slot -> the invoices left to pay, the current first
          event,       \* slot -> the session whose event is being handled
          duplicates,  \* deliveries of acknowledged events so far
          dropped,     \* history: sessions whose event failed verification
          late,        \* history: charges prepared for a settled invoice
          faults       \* history: failed calls and crashes so far

stripe == <<sessions, unacked, intents>>
request == <<pc, payer, todo, event>>
history == <<duplicates, dropped, late, faults>>
vars == <<invoices, sessions, unacked, intents, pc, payer, todo, event,
          duplicates, dropped, late, faults>>

-----------------------------------------------------------------------------
Row == [studentId : Students, status : {"PENDING", "COMPLETED"}, paidAt : Nat]
Session == [invoice : Invoices, state : {"open", "paid", "expired"}]

Steps == {"idle", "session_create", "pay_find", "intent_create", "hook_find", "hook_save"}

TypeOK ==
    /\ invoices \in [Invoices -> Row \cup {NoInvoice}]
    /\ sessions \in [Sessions -> Session \cup {NoSession}]
    /\ unacked \subseteq Sessions
    /\ intents \in [Invoices -> Nat]
    /\ pc \in [Requests -> Steps]
    /\ payer \in [Requests -> Students \cup {Nobody}]
    /\ todo \in [Requests -> Seq(Invoices)]
    /\ event \in [Requests -> Sessions \cup {NoSession}]
    /\ duplicates \in Nat /\ faults \in Nat
    /\ dropped \subseteq Sessions
    /\ late \in [Invoices -> Nat]

Issued(i) == invoices[i] # NoInvoice
Completed(i) == Issued(i) /\ invoices[i].status = "COMPLETED"

\* findOne({ id, studentId }), refused when "Invoice already paid".
Payable(i, u) == Issued(i) /\ invoices[i].studentId = u /\ ~ Completed(i)

\* The invoices some checkout session was paid for.
PaidFor(i) == {s \in Sessions : /\ sessions[s] # NoSession
                                /\ sessions[s].invoice = i
                                /\ sessions[s].state = "paid"}

Paid == {i \in Invoices : PaidFor(i) # {}}

Goto(r, step) == pc' = [pc EXCEPT ![r] = step]

Done(r) == /\ Goto(r, "idle")
           /\ payer' = [payer EXCEPT ![r] = Nobody]
           /\ todo' = [todo EXCEPT ![r] = << >>]
           /\ event' = [event EXCEPT ![r] = NoSession]

\* Student u asks to pay the invoices in list, one after the other.
Begin(r, step, u, list) ==
    /\ pc[r] = "idle"
    /\ Goto(r, step)
    /\ payer' = [payer EXCEPT ![r] = u]
    /\ todo' = [todo EXCEPT ![r] = list]

Current(r) == Head(todo[r])

\* Bounds: a request that may create a session (an intent) starts only while
\* one is left for it and for every request in flight.
InFlight == {r \in Requests : pc[r] # "idle"}
RoomForSession ==
    Cardinality(InFlight) < Cardinality({s \in Sessions : sessions[s] = NoSession})
RoomForIntent(i) == Cardinality(InFlight) + intents[i] < MaxIntents

\* A session or intent is created for i: late, if i was settled meanwhile.
Prepare(i) == late' = [late EXCEPT ![i] = IF Completed(i) THEN @ + 1 ELSE @]

-----------------------------------------------------------------------------
(* createInvoice: one insert. *)

CreateInvoice(i, u) ==
    /\ ~ Issued(i)
    /\ invoices' = [invoices EXCEPT
          ![i] = [studentId |-> u, status |-> "PENDING", paidAt |-> 0]]
    /\ UNCHANGED <<stripe, request, history>>

(* createCheckoutSession *)

CreateCheckoutSession(r, i, u) ==
    /\ RoomForSession
    /\ Payable(i, u)
    /\ Begin(r, "session_create", u, <<i>>)
    /\ UNCHANGED <<invoices, stripe, event, history>>

SessionsCreate(r) ==
    /\ pc[r] = "session_create"
    /\ \E s \in Sessions :
          /\ sessions[s] = NoSession
          /\ sessions' = [sessions EXCEPT ![s] = [invoice |-> Current(r), state |-> "open"]]
    /\ Prepare(Current(r))
    /\ Done(r)
    /\ UNCHANGED <<invoices, unacked, intents, duplicates, dropped, faults>>

(* payInvoice, alone or in the loop of payBulkInvoices.  The intent is       *)
(* created, then the mail template is read from a directory that does not    *)
(* hold it: the call fails and its client secret is returned to nobody.      *)

PayInvoices(r, u, list) ==
    /\ \A k \in DOMAIN list : RoomForIntent(list[k])
    /\ Begin(r, "pay_find", u, list)
    /\ UNCHANGED <<invoices, stripe, event, history>>

\* The current invoice was refused or has failed: the loop goes on.
NextPayment(r) ==
    \/ /\ Len(todo[r]) > 1
       /\ todo' = [todo EXCEPT ![r] = Tail(@)]
       /\ Goto(r, "pay_find")
       /\ UNCHANGED <<payer, event>>
    \/ /\ Len(todo[r]) = 1
       /\ Done(r)

\* Mutant: the status is not checked.
PayFindUnchecked(r) ==
    /\ pc[r] = "pay_find"
    /\ Goto(r, "intent_create")
    /\ UNCHANGED <<invoices, stripe, payer, todo, event, history>>

PayFind(r) ==
    /\ pc[r] = "pay_find"
    /\ \/ /\ Payable(Current(r), payer[r])
          /\ Goto(r, "intent_create")
          /\ UNCHANGED <<payer, todo, event>>
       \/ /\ ~ Payable(Current(r), payer[r])
          /\ NextPayment(r)
    /\ UNCHANGED <<invoices, stripe, history>>

IntentsCreate(r) ==
    /\ pc[r] = "intent_create"
    /\ intents' = [intents EXCEPT ![Current(r)] = @ + 1]
    /\ Prepare(Current(r))
    /\ NextPayment(r)
    /\ UNCHANGED <<invoices, sessions, unacked, duplicates, dropped, faults>>

-----------------------------------------------------------------------------
(* Stripe: the student pays or abandons a session. *)

Closed(s, state) == [invoice |-> sessions[s].invoice, state |-> state]

PaySession(s) ==
    /\ sessions[s] # NoSession /\ sessions[s].state = "open"
    /\ sessions' = [sessions EXCEPT ![s] = Closed(s, "paid")]
    /\ unacked' = unacked \cup {s}
    /\ UNCHANGED <<invoices, intents, request, history>>

ExpireSession(s) ==
    /\ sessions[s] # NoSession /\ sessions[s].state = "open"
    /\ sessions' = [sessions EXCEPT ![s] = Closed(s, "expired")]
    /\ unacked' = unacked \cup {s}
    /\ UNCHANGED <<invoices, intents, request, history>>

(* handleWebhook and markInvoiceAsPaid.  A delivery whose signature verifies, *)
(* and tells of a completed session, finds the invoice named in the session's *)
(* metadata and saves it as paid; the 2xx follows the save.  An event of any  *)
(* other type is acknowledged and changes nothing.                            *)

HookFind(r, s) ==
    /\ Goto(r, "hook_find")
    /\ event' = [event EXCEPT ![r] = s]
    /\ UNCHANGED unacked

\* Mutant: the type of the event is not looked at.
HandleWebhookAny(r, s) ==
    /\ pc[r] = "idle"
    /\ HookFind(r, s)
    /\ UNCHANGED <<invoices, sessions, intents, payer, todo, dropped, late, faults>>

HandleWebhook(r, s) ==
    /\ pc[r] = "idle"
    /\ \/ sessions[s].state = "paid" /\ HookFind(r, s)
       \/ /\ sessions[s].state = "expired"
          /\ unacked' = unacked \ {s}
          /\ UNCHANGED <<pc, event>>
    /\ UNCHANGED <<invoices, sessions, intents, payer, todo, dropped, late, faults>>

Deliver(r, s) ==
    /\ s \in unacked
    /\ HandleWebhook(r, s)
    /\ UNCHANGED duplicates

\* Stripe may deliver an event it was told is received.
DeliverAgain(r, s) ==
    /\ duplicates < MaxDuplicates
    /\ duplicates' = duplicates + 1
    /\ sessions[s] # NoSession /\ sessions[s].state # "open"
    /\ s \notin unacked
    /\ HandleWebhook(r, s)

EventInvoice(r) == sessions[event[r]].invoice

\* Invoices are never deleted, so the one it looks for is there.
MarkFind(r) ==
    /\ pc[r] = "hook_find"
    /\ Issued(EventInvoice(r))
    /\ Goto(r, "hook_save")
    /\ UNCHANGED <<invoices, stripe, payer, todo, event, history>>

\* The save writes a new date each time; paidAt counts the dates written.
Settled(row) == [studentId |-> row.studentId, status |-> "COMPLETED",
                 paidAt |-> row.paidAt + 1]

\* Mutant: the save is fire-and-forget; the 2xx does not wait for it.
MarkSaveUnawaited(r) ==
    /\ pc[r] = "hook_save"
    /\ unacked' = unacked \ {event[r]}
    /\ \/ invoices' = [invoices EXCEPT ![EventInvoice(r)] = Settled(@)]
       \/ UNCHANGED invoices
    /\ Done(r)
    /\ UNCHANGED <<sessions, intents, history>>

\* Mutant: Stripe's word for it is saved in the place of the enumeration's.
MarkSaveMisspelt(r) ==
    /\ pc[r] = "hook_save"
    /\ invoices' = [invoices EXCEPT
                       ![EventInvoice(r)] = [Settled(@) EXCEPT !.status = "PAID"]]
    /\ unacked' = unacked \ {event[r]}
    /\ Done(r)
    /\ UNCHANGED <<sessions, intents, history>>

MarkSave(r) ==
    /\ pc[r] = "hook_save"
    /\ invoices' = [invoices EXCEPT ![EventInvoice(r)] = Settled(@)]
    /\ unacked' = unacked \ {event[r]}
    /\ Done(r)
    /\ UNCHANGED <<sessions, intents, history>>

-----------------------------------------------------------------------------
(* Failures *)

Fault == /\ faults < MaxFaults
         /\ faults' = faults + 1

\* A database or Stripe call fails, or the process dies.  A bulk payment
\* records the failure and goes on; a crash ends it.
Abort(r) ==
    /\ Fault
    /\ \/ pc[r] # "idle" /\ Done(r)
       \/ pc[r] \in {"pay_find", "intent_create"} /\ NextPayment(r)
    /\ UNCHANGED <<invoices, stripe, duplicates, dropped, late>>

\* The signature does not verify (a wrong secret, a body the middleware did
\* not keep): the handler returns, which Stripe takes for an acknowledgement.
RejectSignature(s) ==
    /\ Fault
    /\ s \in unacked
    /\ unacked' = unacked \ {s}
    /\ dropped' = dropped \cup {s}
    /\ UNCHANGED <<invoices, sessions, intents, request, duplicates, late>>

-----------------------------------------------------------------------------
Init ==
    /\ invoices = [i \in Invoices |-> NoInvoice]
    /\ sessions = [s \in Sessions |-> NoSession]
    /\ unacked = {}
    /\ intents = [i \in Invoices |-> 0]
    /\ pc = [r \in Requests |-> "idle"]
    /\ payer = [r \in Requests |-> Nobody]
    /\ todo = [r \in Requests |-> << >>]
    /\ event = [r \in Requests |-> NoSession]
    /\ duplicates = 0
    /\ dropped = {}
    /\ late = [i \in Invoices |-> 0]
    /\ faults = 0

\* The lists a student may ask to pay: any of at most MaxBulk invoices.
Lists == UNION {[1..n -> Invoices] : n \in 1..MaxBulk}

Arrive(r) ==
    \E u \in Students :
        \/ \E i \in Invoices : CreateCheckoutSession(r, i, u)
        \/ \E list \in Lists : PayInvoices(r, u, list)

Proceed(r) ==
    \/ SessionsCreate(r)
    \/ PayFind(r)
    \/ IntentsCreate(r)
    \/ MarkFind(r)
    \/ MarkSave(r)

Next ==
    \/ \E i \in Invoices, u \in Students : CreateInvoice(i, u)
    \/ \E r \in Requests : Arrive(r) \/ Proceed(r) \/ Abort(r)
    \/ \E s \in Sessions : PaySession(s) \/ ExpireSession(s) \/ RejectSignature(s)
    \/ \E r \in Requests, s \in Sessions : Deliver(r, s) \/ DeliverAgain(r, s)

Spec == Init /\ [][Next]_vars

\* Started handlers run on, and Stripe retries an event until it is
\* acknowledged; that a slot is free for it infinitely often is enough.
FairSpec ==
    /\ Spec
    /\ \A r \in Requests : WF_vars(Proceed(r))
    /\ \A s \in Sessions : SF_vars(\E r \in Requests : Deliver(r, s))

-----------------------------------------------------------------------------
(* Properties *)

\* LateBounded: "Invoice already paid" is checked before the call to Stripe,
\* so a settled invoice can still get a session or an intent, but only one
\* from each request that was past the check when another settled it.
LateBounded == \A i \in Invoices : late[i] < Cardinality(Requests)

\* The requests past the check of invoice i.
Checked(i) == {r \in Requests : /\ pc[r] \in {"session_create", "intent_create"}
                                /\ Current(r) = i}

\* LateInv: the inductive form: late charges, and those still to come.
LateInv ==
    \A i \in Invoices :
        /\ late[i] > 0 => Completed(i)
        /\ Completed(i) => late[i] + Cardinality(Checked(i)) < Cardinality(Requests)

\* ImplementsLedger: an invoice is settled only after a payment for it went
\* through, and stays settled, whatever is delivered twice or fails.
Ledger == INSTANCE InvoiceLedger WITH
    status <- [i \in Invoices |-> IF Issued(i) THEN invoices[i].status ELSE "none"],
    charged <- Paid

ImplementsLedger == Ledger!Spec

\* PaidIsSettled: a payment that went through settles its invoice, although
\* deliveries fail and are repeated; except when verification drops the event.
PaidIsSettled ==
    \A i \in Invoices : i \in Paid ~> Completed(i) \/ PaidFor(i) \subseteq dropped

\* ChargedOnce: "Invoice already paid" (payment.service.ts:359): a student is
\* charged once for an invoice.
ChargedOnce ==
    \A i \in Invoices : \A s, t \in PaidFor(i) : s = t
=============================================================================
