--------------------------- MODULE PaymentsProofs ---------------------------
(* Proofs about the payment service, for every number of invoices, students, *)
(* checkout sessions and overlapping requests.                              *)
EXTENDS Payments, FiniteSetTheorems, SequenceTheorems, TLAPS

-----------------------------------------------------------------------------
(* Type correctness.  A handler works on an invoice, or an event, that was   *)
(* there when it checked; it still is, because rows are never deleted and a  *)
(* paid session stays paid.                                                  *)

IsPaid(s) == sessions[s] # NoSession /\ sessions[s].state = "paid"

RequestOK(r) ==
    /\ pc[r] \in {"session_create", "pay_find", "intent_create"} => todo[r] # << >>
    /\ pc[r] \in {"session_create", "intent_create"} => Issued(Current(r))
    /\ pc[r] \in {"hook_find", "hook_save"} => event[r] \in Sessions /\ IsPaid(event[r])

RequestInv == \A r \in Requests : RequestOK(r)

SessionInv ==
    \A s \in Sessions : /\ sessions[s] # NoSession => Issued(sessions[s].invoice)
                        /\ s \in unacked => sessions[s] # NoSession

PayInv == TypeOK /\ RequestInv /\ SessionInv

\* Invoices stay issued, and paid sessions stay paid.
Stable == /\ \A i \in Invoices : Issued(i) => Issued(i)'
          /\ \A s \in Sessions : IsPaid(s) => IsPaid(s)'

\* The locals of every slot, typed.
SlotTypes ==
    /\ pc \in [Requests -> Steps]
    /\ payer \in [Requests -> Students \cup {Nobody}]
    /\ todo \in [Requests -> Seq(Invoices)]
    /\ event \in [Requests -> Sessions \cup {NoSession}]

\* A step of slot r leaves the locals of every other slot alone.
OthersKeep(r) ==
    \A q \in Requests \ {r} : /\ pc'[q] = pc[q]
                             /\ todo'[q] = todo[q]
                             /\ event'[q] = event[q]

\* The invoice a request works on is one of the invoices.
LEMMA CurrentType ==
    ASSUME SlotTypes, NEW r \in Requests, todo[r] # << >>
    PROVE  Current(r) \in Invoices
  BY DEF SlotTypes, Current

\* A step that keeps the other slots' locals, and is stable, need only see to
\* its own slot.
LEMMA OthersOK ==
    ASSUME TypeOK, RequestInv, Stable, NEW r \in Requests, OthersKeep(r), RequestOK(r)'
    PROVE  RequestInv'
  <1> SUFFICES ASSUME NEW q \in Requests \ {r} PROVE RequestOK(q)'
    BY DEF RequestInv
  <1>1. RequestOK(q) /\ UNCHANGED <<pc[q], todo[q], event[q]>>
    BY DEF RequestInv, OthersKeep
  <1>2. Current(q)' = Current(q)
    BY <1>1 DEF Current
  <1>3. todo[q] # << >> => Current(q) \in Invoices
    BY CurrentType DEF TypeOK, SlotTypes
  <1>4. \A i \in Invoices : Issued(i) => Issued(i)'
    BY DEF Stable
  <1>5. pc[q] \in {"session_create", "intent_create"} => Issued(Current(q))'
    BY <1>1, <1>2, <1>3, <1>4 DEF RequestOK, Issued
  <1>6. pc[q] \in {"hook_find", "hook_save"} => event[q]' \in Sessions /\ IsPaid(event[q])'
    BY <1>1 DEF RequestOK, Stable, IsPaid
  <1> QED
    BY <1>1, <1>5, <1>6 DEF RequestOK, Issued, IsPaid

\* Ending a request leaves an idle slot, and the others as they were.
LEMMA DoneStep ==
    ASSUME SlotTypes, NEW r \in Requests, Done(r)
    PROVE  SlotTypes' /\ OthersKeep(r) /\ RequestOK(r)' /\ pc'[r] = "idle"
  BY DEF SlotTypes, Done, Goto, Steps, OthersKeep, RequestOK

\* A request starts on a list of invoices.
LEMMA BeginStep ==
    ASSUME SlotTypes, NEW r \in Requests, NEW step \in Steps, NEW u \in Students,
           NEW list \in Seq(Invoices), Begin(r, step, u, list), UNCHANGED event
    PROVE  SlotTypes' /\ OthersKeep(r) /\ pc'[r] = step /\ todo'[r] = list
  BY DEF SlotTypes, Begin, Goto, OthersKeep

\* The rest of a list of two or more is a list.
LEMMA TailType ==
    ASSUME NEW list \in Seq(Invoices), Len(list) > 1
    PROVE  Tail(list) \in Seq(Invoices) /\ Tail(list) # << >>
  <1>1. Len(list) \in Nat
    BY LenProperties
  <1>2. Len(list) # 0
    BY <1>1
  <1>3. list # << >>
    BY <1>2, EmptySeq
  <1>4. Tail(list) \in Seq(Invoices) /\ Len(Tail(list)) = Len(list) - 1
    BY <1>3, HeadTailProperties
  <1>5. Len(Tail(list)) # 0
    BY <1>1, <1>4
  <1> QED
    BY <1>4, <1>5, EmptySeq

\* The loop of a bulk payment goes on to its next invoice, or ends.
LEMMA NextPaymentStep ==
    ASSUME SlotTypes, NEW r \in Requests, NextPayment(r)
    PROVE  /\ SlotTypes' /\ OthersKeep(r) /\ RequestOK(r)'
           /\ pc'[r] \in {"idle", "pay_find"}
  <1>1. CASE Len(todo[r]) = 1 /\ Done(r)
    BY <1>1, DoneStep
  <1>2. CASE /\ Len(todo[r]) > 1
             /\ todo' = [todo EXCEPT ![r] = Tail(@)]
             /\ Goto(r, "pay_find")
             /\ UNCHANGED <<payer, event>>
    <2>1. todo[r] \in Seq(Invoices)
      BY DEF SlotTypes
    <2>2. Tail(todo[r]) \in Seq(Invoices) /\ Tail(todo[r]) # << >>
      BY <1>2, <2>1, TailType
    <2> QED
      BY <1>2, <2>2 DEF SlotTypes, Goto, Steps, OthersKeep, RequestOK
  <1> QED
    BY <1>1, <1>2 DEF NextPayment

\* The lists a student may ask to pay are sequences, and not empty.
LEMMA ListType ==
    ASSUME NEW list \in Lists
    PROVE  list \in Seq(Invoices) /\ list # << >>
  <1>1. PICK n \in 1..MaxBulk : list \in [1..n -> Invoices]
    BY DEF Lists
  <1>2. n \in Nat /\ n > 0
    BY BulkAssumption
  <1>3. list \in Seq(Invoices) /\ Len(list) = n
    BY <1>1, <1>2
  <1> QED
    BY <1>2, <1>3

\* The empty service.
LEMMA InitPay == Init => PayInv
  BY DEF Init, PayInv, TypeOK, RequestInv, RequestOK, SessionInv, Steps

\* A new invoice takes a free id.
LEMMA CreateInvoicePay ==
    ASSUME PayInv, NEW i \in Invoices, NEW u \in Students, CreateInvoice(i, u)
    PROVE  PayInv' /\ Stable
  <1>1. invoices' \in [Invoices -> Row \cup {NoInvoice}]
    BY DEF PayInv, TypeOK, CreateInvoice, Row
  <1>2. Stable
    BY DEF PayInv, TypeOK, Stable, CreateInvoice, Issued, IsPaid, stripe
  <1>3. TypeOK'
    BY <1>1 DEF PayInv, TypeOK, CreateInvoice, stripe, request, history
  <1>4. SessionInv'
    BY <1>2 DEF PayInv, TypeOK, SessionInv, Stable, CreateInvoice, Issued, IsPaid,
                stripe, Session
  <1>5. RequestInv'
    BY <1>2, CurrentType DEF PayInv, TypeOK, SlotTypes, RequestInv, RequestOK, Stable,
       CreateInvoice, Current, Issued, IsPaid, stripe, request
  <1> QED
    BY <1>2, <1>3, <1>4, <1>5 DEF PayInv

\* What remains of TypeOK when the tables are unchanged.
CounterTypes ==
    /\ intents \in [Invoices -> Nat]
    /\ duplicates \in Nat /\ faults \in Nat
    /\ dropped \subseteq Sessions
    /\ late \in [Invoices -> Nat]

\* A step of slot r that leaves the invoices and the sessions alone.
LEMMA SlotStep ==
    ASSUME PayInv, NEW r \in Requests, SlotTypes', CounterTypes',
           OthersKeep(r), RequestOK(r)', UNCHANGED <<invoices, sessions>>,
           unacked' \subseteq unacked
    PROVE  PayInv' /\ Stable
  <1>1. Stable
    BY DEF Stable, Issued, IsPaid
  <1>2. RequestInv'
    BY <1>1, OthersOK DEF PayInv
  <1>3. TypeOK'
    BY DEF PayInv, TypeOK, SlotTypes, CounterTypes
  <1>4. SessionInv'
    BY DEF PayInv, SessionInv, Issued, IsPaid
  <1> QED
    BY <1>1, <1>2, <1>3, <1>4 DEF PayInv

\* The two requests a student makes.
LEMMA ArrivePay ==
    ASSUME PayInv, NEW r \in Requests, Arrive(r)
    PROVE  PayInv' /\ Stable
  <1>1. SlotTypes /\ CounterTypes
    BY DEF PayInv, TypeOK, SlotTypes, CounterTypes
  <1>2. ASSUME NEW u \in Students, NEW i \in Invoices, CreateCheckoutSession(r, i, u)
        PROVE  PayInv' /\ Stable
    <2>1. <<i>> \in Seq(Invoices) /\ <<i>> # << >> /\ Head(<<i>>) = i
      OBVIOUS
    <2>2. SlotTypes' /\ OthersKeep(r) /\ pc'[r] = "session_create" /\ todo'[r] = <<i>>
      BY <1>1, <1>2, <2>1, BeginStep DEF CreateCheckoutSession, Steps
    <2>3. Issued(i) /\ UNCHANGED <<invoices, sessions, unacked>>
      BY <1>2 DEF CreateCheckoutSession, Payable, stripe
    <2>4. RequestOK(r)'
      BY <2>1, <2>2, <2>3 DEF RequestOK, Current, Issued
    <2>5. CounterTypes'
      BY <1>1, <1>2 DEF CounterTypes, CreateCheckoutSession, stripe, history
    <2> QED
      BY <2>2, <2>3, <2>4, <2>5, SlotStep
  <1>3. ASSUME NEW u \in Students, NEW list \in Lists, PayInvoices(r, u, list)
        PROVE  PayInv' /\ Stable
    <2>1. list \in Seq(Invoices) /\ list # << >>
      BY ListType
    <2>2. SlotTypes' /\ OthersKeep(r) /\ pc'[r] = "pay_find" /\ todo'[r] = list
      BY <1>1, <1>3, <2>1, BeginStep DEF PayInvoices, Steps
    <2>3. RequestOK(r)'
      BY <2>1, <2>2 DEF RequestOK
    <2>4. CounterTypes' /\ UNCHANGED <<invoices, sessions, unacked>>
      BY <1>1, <1>3 DEF CounterTypes, PayInvoices, stripe, history
    <2> QED
      BY <2>2, <2>3, <2>4, SlotStep
  <1> QED
    BY <1>2, <1>3 DEF Arrive

\* Preparing a charge counts it when it is late.
LEMMA PrepareType ==
    ASSUME CounterTypes, NEW i \in Invoices, Prepare(i)
    PROVE  late' \in [Invoices -> Nat]
  BY DEF CounterTypes, Prepare

\* The webhook settles an issued invoice that a session was paid for.
LEMMA MarkEffect ==
    ASSUME PayInv, NEW r \in Requests, MarkSave(r)
    PROVE  LET i == EventInvoice(r)
           IN  /\ i \in Invoices /\ Issued(i) /\ i \in Paid
               /\ Settled(invoices[i]) \in Row
               /\ invoices' = [invoices EXCEPT ![i] = Settled(invoices[i])]
  <1> DEFINE i == EventInvoice(r)
  <1>1. event[r] \in Sessions /\ IsPaid(event[r])
    BY DEF PayInv, RequestInv, RequestOK, MarkSave
  <1>2. i \in Invoices
    BY <1>1 DEF PayInv, TypeOK, IsPaid, Session, EventInvoice
  <1>3. Issued(i)
    BY <1>1 DEF PayInv, SessionInv, IsPaid, EventInvoice
  <1>4. i \in Paid
    BY <1>1, <1>2 DEF Paid, PaidFor, IsPaid, EventInvoice
  <1>5. invoices[i] \in Row
    BY <1>2, <1>3 DEF PayInv, TypeOK, Issued
  <1>6. Settled(invoices[i]) \in Row
    BY <1>5 DEF Settled, Row
  <1>7. invoices' = [invoices EXCEPT ![i] = Settled(invoices[i])]
    BY DEF MarkSave
  <1> QED
    BY <1>2, <1>3, <1>4, <1>6, <1>7

\* Each later call of a handler.
LEMMA ProceedPay ==
    ASSUME PayInv, NEW r \in Requests, Proceed(r)
    PROVE  PayInv' /\ Stable
  <1>1. SlotTypes /\ CounterTypes /\ RequestOK(r)
    BY DEF PayInv, TypeOK, SlotTypes, CounterTypes, RequestInv
  <1>2. CASE SessionsCreate(r)
    <2>1. Current(r) \in Invoices /\ Issued(Current(r))
      BY <1>1, <1>2, CurrentType DEF SessionsCreate, RequestOK
    <2>2. PICK s \in Sessions :
            /\ sessions[s] = NoSession
            /\ sessions' = [sessions EXCEPT
                  ![s] = [invoice |-> Current(r), state |-> "open"]]
      BY <1>2 DEF SessionsCreate
    <2>3. sessions' \in [Sessions -> Session \cup {NoSession}]
      BY <2>1, <2>2 DEF PayInv, TypeOK, Session
    <2>4. Stable
      BY <1>2, <2>2 DEF PayInv, TypeOK, Stable, SessionsCreate, Issued, IsPaid
    <2>5. SlotTypes' /\ OthersKeep(r) /\ RequestOK(r)'
      BY <1>1, <1>2, DoneStep DEF SessionsCreate
    <2>6. late' \in [Invoices -> Nat]
      BY <1>1, <1>2, <2>1, PrepareType DEF SessionsCreate
    <2>7. TypeOK'
      BY <1>2, <2>3, <2>5, <2>6 DEF PayInv, TypeOK, SessionsCreate, SlotTypes
    <2>8. RequestInv'
      BY <2>4, <2>5, OthersOK DEF PayInv
    <2>9. SessionInv'
      BY <1>2, <2>1, <2>2, <2>4 DEF PayInv, TypeOK, SessionInv, SessionsCreate,
         Issued, IsPaid, Stable
    <2> QED
      BY <2>4, <2>7, <2>8, <2>9 DEF PayInv
  <1>3. CASE PayFind(r)
    <2>1. CASE NextPayment(r)
      <3>1. SlotTypes' /\ OthersKeep(r) /\ RequestOK(r)'
        BY <1>1, <2>1, NextPaymentStep
      <3>2. CounterTypes' /\ UNCHANGED <<invoices, sessions, unacked>>
        BY <1>1, <1>3 DEF CounterTypes, PayFind, stripe, history
      <3> QED
        BY <3>1, <3>2, SlotStep
    <2>2. CASE /\ Payable(Current(r), payer[r])
               /\ Goto(r, "intent_create")
               /\ UNCHANGED <<payer, todo, event>>
      <3>1. SlotTypes' /\ OthersKeep(r) /\ pc'[r] = "intent_create"
        BY <1>1, <2>2 DEF SlotTypes, Goto, Steps, OthersKeep
      <3>2. CounterTypes' /\ UNCHANGED <<invoices, sessions, unacked>>
        BY <1>1, <1>3 DEF CounterTypes, PayFind, stripe, history
      <3>3. RequestOK(r)'
        BY <1>1, <1>3, <2>2, <3>1, <3>2 DEF PayFind, RequestOK, Payable, Issued, Current
      <3> QED
        BY <3>1, <3>2, <3>3, SlotStep
    <2> QED
      BY <1>3, <2>1, <2>2 DEF PayFind
  <1>4. CASE IntentsCreate(r)
    <2>1. Current(r) \in Invoices
      BY <1>1, <1>4, CurrentType DEF IntentsCreate, RequestOK
    <2>2. SlotTypes' /\ OthersKeep(r) /\ RequestOK(r)'
      BY <1>1, <1>4, NextPaymentStep DEF IntentsCreate
    <2>3. late' \in [Invoices -> Nat]
      BY <1>1, <1>4, <2>1, PrepareType DEF IntentsCreate
    <2>4. intents' \in [Invoices -> Nat]
      BY <1>1, <1>4, <2>1 DEF CounterTypes, IntentsCreate
    <2>5. CounterTypes'
      BY <1>1, <1>4, <2>3, <2>4 DEF CounterTypes, IntentsCreate
    <2>6. UNCHANGED <<invoices, sessions, unacked>>
      BY <1>4 DEF IntentsCreate
    <2> QED
      BY <2>2, <2>5, <2>6, SlotStep
  <1>5. CASE MarkSave(r)
    <2> DEFINE i == EventInvoice(r)
    <2>1. /\ i \in Invoices /\ Issued(i) /\ Settled(invoices[i]) \in Row
          /\ invoices' = [invoices EXCEPT ![i] = Settled(invoices[i])]
      BY <1>5, MarkEffect
    <2>2. UNCHANGED sessions
      BY <1>5 DEF MarkSave
    <2>3. invoices' \in [Invoices -> Row \cup {NoInvoice}]
      BY <2>1 DEF PayInv, TypeOK
    <2>4. \A k \in Invoices : Issued(k) => Issued(k)'
      BY <2>1, NullAssumption DEF PayInv, TypeOK, Issued, Row
    <2>5. Stable
      BY <2>2, <2>4 DEF Stable, IsPaid
    <2>6. SlotTypes' /\ OthersKeep(r) /\ RequestOK(r)'
      BY <1>1, <1>5, DoneStep DEF MarkSave
    <2>7. TypeOK'
      BY <1>5, <2>3, <2>6 DEF PayInv, TypeOK, MarkSave, SlotTypes, history
    <2>8. RequestInv'
      BY <2>5, <2>6, OthersOK DEF PayInv
    <2>9. SessionInv'
      BY <1>5, <2>2, <2>4 DEF PayInv, TypeOK, SessionInv, MarkSave, IsPaid,
         Issued, Session
    <2> QED
      BY <2>5, <2>7, <2>8, <2>9 DEF PayInv
  <1>6. CASE MarkFind(r)
    <2>1. SlotTypes' /\ OthersKeep(r) /\ pc'[r] = "hook_save" /\ event' = event
      BY <1>1, <1>6 DEF SlotTypes, MarkFind, Goto, Steps, OthersKeep
    <2>2. CounterTypes' /\ UNCHANGED <<invoices, sessions, unacked>>
      BY <1>1, <1>6 DEF CounterTypes, MarkFind, stripe, history
    <2>3. RequestOK(r)'
      BY <1>1, <1>6, <2>1, <2>2 DEF MarkFind, RequestOK, IsPaid
    <2> QED
      BY <2>1, <2>2, <2>3, SlotStep
  <1> QED
    BY <1>2, <1>3, <1>4, <1>5, <1>6 DEF Proceed

\* A failed call or a crash.
LEMMA AbortPay ==
    ASSUME PayInv, NEW r \in Requests, Abort(r)
    PROVE  PayInv' /\ Stable
  <1>1. SlotTypes /\ CounterTypes
    BY DEF PayInv, TypeOK, SlotTypes, CounterTypes
  <1>2. SlotTypes' /\ OthersKeep(r) /\ RequestOK(r)'
    BY <1>1, DoneStep, NextPaymentStep DEF Abort
  <1>3. CounterTypes' /\ UNCHANGED <<invoices, sessions, unacked>>
    BY <1>1 DEF CounterTypes, Abort, Fault, stripe
  <1> QED
    BY <1>2, <1>3, SlotStep

\* The webhook receives the event of a closed session, and goes on with it when
\* it was paid.
LEMMA DeliverPay ==
    ASSUME PayInv, NEW r \in Requests, NEW s \in Sessions,
           Deliver(r, s) \/ DeliverAgain(r, s)
    PROVE  PayInv' /\ Stable
  <1>1. SlotTypes /\ CounterTypes /\ sessions[s] # NoSession /\ HandleWebhook(r, s)
    BY DEF PayInv, TypeOK, SlotTypes, CounterTypes, SessionInv, Deliver, DeliverAgain
  <1>2. /\ SlotTypes' /\ OthersKeep(r) /\ UNCHANGED <<invoices, sessions>>
        /\ RequestOK(r)' /\ unacked' \subseteq unacked
    <2>1. CASE sessions[s].state = "paid" /\ HookFind(r, s)
      <3>1. /\ SlotTypes' /\ OthersKeep(r) /\ pc'[r] = "hook_find" /\ event'[r] = s
            /\ UNCHANGED <<invoices, sessions, unacked>>
        BY <1>1, <2>1 DEF SlotTypes, HandleWebhook, HookFind, Goto, Steps, OthersKeep
      <3> QED
        BY <1>1, <2>1, <3>1 DEF RequestOK, IsPaid
    <2>2. CASE /\ unacked' = unacked \ {s}
               /\ UNCHANGED <<pc, event>>
      BY <1>1, <2>2 DEF HandleWebhook, SlotTypes, OthersKeep, PayInv, RequestInv, RequestOK,
                        Current, Issued, IsPaid
    <2> QED
      BY <1>1, <2>1, <2>2 DEF HandleWebhook
  <1>3. duplicates' \in Nat
    BY <1>1 DEF CounterTypes, Deliver, DeliverAgain
  <1>4. CounterTypes'
    BY <1>1, <1>3 DEF CounterTypes, HandleWebhook
  <1> QED
    BY <1>2, <1>4, SlotStep

\* What Stripe does to a session.
LEMMA StripePay ==
    ASSUME PayInv, NEW s \in Sessions,
           PaySession(s) \/ ExpireSession(s) \/ RejectSignature(s)
    PROVE  PayInv' /\ Stable
  <1>1. sessions' \in [Sessions -> Session \cup {NoSession}]
    BY DEF PayInv, TypeOK, Session, Closed, PaySession, ExpireSession, RejectSignature
  <1>2. UNCHANGED <<invoices, intents, pc, payer, todo, event, duplicates, late>>
    BY DEF PaySession, ExpireSession, RejectSignature, request, history
  <1>3. /\ unacked' \subseteq unacked \cup {s} /\ dropped' \subseteq dropped \cup {s}
        /\ faults' \in Nat
    BY DEF PayInv, TypeOK, PaySession, ExpireSession, RejectSignature, Fault, history
  <1>4. \A t \in Sessions :
            /\ sessions'[t] # NoSession <=> sessions[t] # NoSession
            /\ sessions[t] # NoSession => sessions'[t].invoice = sessions[t].invoice
            /\ IsPaid(t) => IsPaid(t)'
    BY <1>1, NullAssumption DEF PayInv, TypeOK, Session, Closed, PaySession,
       ExpireSession, RejectSignature, IsPaid
  <1>5. Stable
    BY <1>2, <1>4 DEF Stable, Issued
  <1>6. TypeOK'
    BY <1>1, <1>2, <1>3 DEF PayInv, TypeOK
  <1>7. RequestInv'
    BY <1>2, <1>4 DEF PayInv, RequestInv, RequestOK, Current, Issued
  <1>8. \A t \in unacked' : sessions'[t] # NoSession
    BY <1>4 DEF PayInv, TypeOK, SessionInv, PaySession, ExpireSession, RejectSignature
  <1>9. SessionInv'
    BY <1>2, <1>4, <1>8 DEF PayInv, SessionInv, Issued
  <1> QED
    BY <1>5, <1>6, <1>7, <1>9 DEF PayInv

\* Every step keeps the invariant, and is stable.
LEMMA PayStep == PayInv /\ [Next]_vars => PayInv' /\ Stable
  <1> SUFFICES ASSUME PayInv, [Next]_vars PROVE PayInv' /\ Stable
    OBVIOUS
  <1>1. CASE UNCHANGED vars
    <2>1. Stable
      BY <1>1 DEF vars, Stable, Issued, IsPaid
    <2>2. TypeOK' /\ SessionInv'
      BY <1>1 DEF vars, PayInv, TypeOK, SessionInv, Issued, IsPaid
    <2>3. RequestInv'
      BY <1>1 DEF vars, PayInv, RequestInv, RequestOK, Current, Issued, IsPaid
    <2> QED
      BY <2>1, <2>2, <2>3 DEF PayInv
  <1> QED
    BY <1>1, CreateInvoicePay, ArrivePay, ProceedPay, AbortPay, DeliverPay, StripePay
       DEF Next

\* The invariant holds in every reachable state.
LEMMA PayInvariant == Spec => []PayInv
  BY InitPay, PayStep, PTL DEF Spec

\* TypeCorrect: every reachable state is well typed: in particular the webhook
\* settles only an invoice that is issued, and a handler that charges for an
\* invoice has one to charge for.
THEOREM TypeCorrect == Spec => []TypeOK
  <1>1. PayInv => TypeOK
    BY DEF PayInv
  <1> QED
    BY <1>1, PayInvariant, PTL

-----------------------------------------------------------------------------
(* Late charges.  For one invoice, a step settles it; or charges it late, and *)
(* then a request that had checked it is done with it; or counts nothing, and *)
(* while it is settled lets no further request past the check.               *)

Effect(i) ==
    \/ /\ late'[i] = late[i]
       /\ Completed(i)' <=> Completed(i)
       /\ Completed(i) => Checked(i)' \subseteq Checked(i)
    \/ /\ late'[i] = late[i] /\ Completed(i)' /\ ~ Completed(i)
       /\ \E r \in Requests : Checked(i)' \subseteq Requests \ {r}
    \/ /\ late'[i] = late[i] + 1
       /\ Completed(i) /\ Completed(i)'
       /\ \E r \in Checked(i) : Checked(i)' \subseteq Checked(i) \ {r}

\* A slot that goes to a call that charges for nothing leaves Checked.
LEMMA Leaves ==
    ASSUME NEW r \in Requests, OthersKeep(r), NEW i,
           pc'[r] \notin {"session_create", "intent_create"}
    PROVE  Checked(i)' \subseteq Checked(i) \ {r}
  BY DEF Checked, OthersKeep, Current

\* A slot that goes to charge for an invoice joins Checked for that one only.
LEMMA Joins ==
    ASSUME NEW r \in Requests, OthersKeep(r), NEW i, Current(r)' # i
    PROVE  Checked(i)' \subseteq Checked(i)
  BY DEF Checked, OthersKeep, Current

\* Whether an invoice is settled depends on the table alone.
LEMMA CompletedSame ==
    ASSUME UNCHANGED invoices, NEW i
    PROVE  Completed(i)' <=> Completed(i)
  BY DEF Completed, Issued

\* A slot that only moves, to a call that charges for nothing.
LEMMA MovesOn ==
    ASSUME NEW r \in Requests, OthersKeep(r), UNCHANGED <<invoices, late>>,
           pc'[r] \notin {"session_create", "intent_create"}
    PROVE  \A i \in Invoices : Effect(i)
  BY Leaves, CompletedSame DEF Effect

\* A slot that passes the check of an invoice that is not settled.
LEMMA PassesCheck ==
    ASSUME NEW r \in Requests, OthersKeep(r), UNCHANGED <<invoices, late>>,
           ~ Completed(Current(r)')
    PROVE  \A i \in Invoices : Effect(i)
  <1> SUFFICES ASSUME NEW i \in Invoices PROVE Effect(i)
    OBVIOUS
  <1>1. Completed(i)' <=> Completed(i)
    BY CompletedSame
  <1>2. Completed(i) => Checked(i)' \subseteq Checked(i)
    BY Joins
  <1> QED
    BY <1>1, <1>2 DEF Effect

\* A slot that charges for its invoice, and goes on to something else.
LEMMA Charges ==
    ASSUME TypeOK, NEW r \in Requests, OthersKeep(r), UNCHANGED invoices,
           pc[r] \in {"session_create", "intent_create"},
           pc'[r] \notin {"session_create", "intent_create"},
           Prepare(Current(r))
    PROVE  \A i \in Invoices : Effect(i)
  <1> SUFFICES ASSUME NEW i \in Invoices PROVE Effect(i)
    OBVIOUS
  <1>1. Completed(i)' <=> Completed(i)
    BY CompletedSame
  <1>2. Checked(i)' \subseteq Checked(i) \ {r}
    BY Leaves
  <1>3. CASE i = Current(r) /\ Completed(i)
    <2>1. late'[i] = late[i] + 1
      BY <1>3 DEF TypeOK, Prepare
    <2>2. r \in Checked(i)
      BY <1>3 DEF Checked
    <2> QED
      BY <1>1, <1>2, <1>3, <2>1, <2>2 DEF Effect
  <1>4. CASE ~ (i = Current(r) /\ Completed(i))
    <2>1. late'[i] = late[i]
      BY <1>4 DEF TypeOK, Prepare
    <2> QED
      BY <1>1, <1>2, <2>1 DEF Effect
  <1> QED
    BY <1>3, <1>4

\* A step that leaves the requests, the counts and the settled invoices alone.
LEMMA Elsewhere ==
    ASSUME UNCHANGED <<pc, todo, late>>,
           \A i \in Invoices : Completed(i)' <=> Completed(i)
    PROVE  \A i \in Invoices : Effect(i)
  BY DEF Effect, Checked, Current

\* Requests that start.
LEMMA ArriveLate ==
    ASSUME PayInv, NEW r \in Requests, Arrive(r)
    PROVE  \A i \in Invoices : Effect(i)
  <1>1. SlotTypes
    BY DEF PayInv, TypeOK, SlotTypes
  <1>2. ASSUME NEW u \in Students, NEW i \in Invoices, CreateCheckoutSession(r, i, u)
        PROVE  \A k \in Invoices : Effect(k)
    <2>1. <<i>> \in Seq(Invoices) /\ Head(<<i>>) = i
      OBVIOUS
    <2>2. OthersKeep(r) /\ todo'[r] = <<i>>
      BY <1>1, <1>2, <2>1, BeginStep DEF CreateCheckoutSession, Steps
    <2>3. ~ Completed(Current(r)') /\ UNCHANGED <<invoices, late>>
      BY <1>2, <2>1, <2>2 DEF CreateCheckoutSession, Payable, Current, history
    <2> QED
      BY <2>2, <2>3, PassesCheck
  <1>3. ASSUME NEW u \in Students, NEW list \in Lists, PayInvoices(r, u, list)
        PROVE  \A k \in Invoices : Effect(k)
    <2>1. OthersKeep(r) /\ pc'[r] = "pay_find"
      BY <1>1, <1>3, ListType, BeginStep DEF PayInvoices, Steps
    <2>2. UNCHANGED <<invoices, late>>
      BY <1>3 DEF PayInvoices, history
    <2> QED
      BY <2>1, <2>2, MovesOn
  <1> QED
    BY <1>2, <1>3 DEF Arrive

\* Requests that go on.
LEMMA ProceedLate ==
    ASSUME PayInv, NEW r \in Requests, Proceed(r)
    PROVE  \A i \in Invoices : Effect(i)
  <1>1. SlotTypes /\ TypeOK
    BY DEF PayInv, TypeOK, SlotTypes
  <1>2. CASE SessionsCreate(r)
    <2>1. OthersKeep(r) /\ pc'[r] = "idle"
      BY <1>1, <1>2, DoneStep DEF SessionsCreate
    <2> QED
      BY <1>1, <1>2, <2>1, Charges DEF SessionsCreate
  <1>3. CASE PayFind(r)
    <2>1. UNCHANGED <<invoices, late>>
      BY <1>3 DEF PayFind, history
    <2>2. CASE NextPayment(r)
      BY <1>1, <2>1, <2>2, NextPaymentStep, MovesOn
    <2>3. CASE /\ Payable(Current(r), payer[r])
               /\ Goto(r, "intent_create")
               /\ UNCHANGED <<payer, todo, event>>
      <3>1. OthersKeep(r) /\ Current(r)' = Current(r)
        BY <1>1, <2>3 DEF SlotTypes, Goto, OthersKeep, Current
      <3>2. ~ Completed(Current(r)')
        BY <2>3, <3>1 DEF Payable
      <3> QED
        BY <2>1, <3>1, <3>2, PassesCheck
    <2> QED
      BY <1>3, <2>2, <2>3 DEF PayFind
  <1>4. CASE IntentsCreate(r)
    <2>1. OthersKeep(r) /\ pc'[r] \in {"idle", "pay_find"}
      BY <1>1, <1>4, NextPaymentStep DEF IntentsCreate
    <2> QED
      BY <1>1, <1>4, <2>1, Charges DEF IntentsCreate
  <1>5. CASE MarkSave(r)
    <2> DEFINE k == EventInvoice(r)
    <2>1. /\ k \in Invoices /\ Settled(invoices[k]) \in Row
          /\ invoices' = [invoices EXCEPT ![k] = Settled(invoices[k])]
      BY <1>5, MarkEffect
    <2>2. /\ OthersKeep(r) /\ pc'[r] = "idle" /\ late' = late
      BY <1>1, <1>5, DoneStep DEF MarkSave, history
    <2>3. ASSUME NEW i \in Invoices PROVE Effect(i)
      <3>1. Checked(i)' \subseteq Checked(i) \ {r}
        BY <2>2, Leaves
      <3>2. CASE i = k
        <4>1. Completed(i)'
          BY <1>1, <2>1, <3>2, NullAssumption DEF TypeOK, Completed, Issued, Settled, Row
        <4>2. Checked(i)' \subseteq Requests \ {r}
          BY <3>1 DEF Checked
        <4> QED
          BY <2>2, <3>1, <4>1, <4>2 DEF Effect
      <3>3. CASE i # k
        <4>1. Completed(i)' <=> Completed(i)
          BY <1>1, <2>1, <3>3 DEF TypeOK, Completed, Issued
        <4> QED
          BY <2>2, <3>1, <4>1 DEF Effect
      <3> QED
        BY <3>2, <3>3
    <2> QED
      BY <2>3
  <1>6. CASE MarkFind(r)
    <2>1. OthersKeep(r) /\ pc'[r] = "hook_save" /\ UNCHANGED <<invoices, late>>
      BY <1>1, <1>6 DEF SlotTypes, MarkFind, Goto, OthersKeep, history
    <2> QED
      BY <2>1, MovesOn
  <1> QED
    BY <1>2, <1>3, <1>4, <1>5, <1>6 DEF Proceed

\* Every step has one of the three effects on each invoice.
LEMMA LateStep ==
    ASSUME PayInv, [Next]_vars
    PROVE  \A i \in Invoices : Effect(i)
  <1>1. SlotTypes
    BY DEF PayInv, TypeOK, SlotTypes
  <1>2. ASSUME NEW i \in Invoices, NEW u \in Students, CreateInvoice(i, u)
        PROVE  \A k \in Invoices : Effect(k)
    <2>1. \A k \in Invoices : Completed(k)' <=> Completed(k)
      BY <1>2 DEF PayInv, TypeOK, CreateInvoice, Completed, Issued
    <2> QED
      BY <1>2, <2>1, Elsewhere DEF CreateInvoice, request, history
  <1>3. ASSUME NEW r \in Requests, Abort(r)
        PROVE  \A k \in Invoices : Effect(k)
    <2>1. OthersKeep(r) /\ pc'[r] \in {"idle", "pay_find"}
      BY <1>1, <1>3, DoneStep, NextPaymentStep DEF Abort
    <2> QED
      BY <1>3, <2>1, MovesOn DEF Abort
  <1>4. ASSUME NEW s \in Sessions, PaySession(s) \/ ExpireSession(s) \/ RejectSignature(s)
        PROVE  \A k \in Invoices : Effect(k)
    BY <1>4, CompletedSame, Elsewhere
       DEF PaySession, ExpireSession, RejectSignature, request, history
  <1>5. ASSUME NEW r \in Requests, NEW s \in Sessions,
               Deliver(r, s) \/ DeliverAgain(r, s)
        PROVE  \A k \in Invoices : Effect(k)
    <2>1. HandleWebhook(r, s)
      BY <1>5 DEF Deliver, DeliverAgain
    <2>2. UNCHANGED <<invoices, todo, late>>
      BY <2>1 DEF HandleWebhook
    <2>3. CASE HookFind(r, s)
      <3>1. OthersKeep(r) /\ pc'[r] = "hook_find"
        BY <1>1, <2>2, <2>3 DEF SlotTypes, HookFind, Goto, OthersKeep
      <3> QED
        BY <2>2, <3>1, MovesOn
    <2>4. CASE UNCHANGED <<pc, event>>
      BY <2>2, <2>4, CompletedSame, Elsewhere
    <2> QED
      BY <2>1, <2>3, <2>4 DEF HandleWebhook
  <1>6. CASE UNCHANGED vars
    BY <1>6, CompletedSame, Elsewhere DEF vars
  <1> QED
    BY <1>2, <1>3, <1>4, <1>5, <1>6, ArriveLate, ProceedLate DEF Next

\* Requests can be counted.
LEMMA Finite ==
    ASSUME NEW i
    PROVE  /\ IsFiniteSet(Checked(i)) /\ Cardinality(Checked(i)) \in Nat
           /\ Cardinality(Checked(i)) <= Cardinality(Requests)
           /\ Cardinality(Requests) \in Nat
  <1>1. Checked(i) \subseteq Requests
    BY DEF Checked
  <1> QED
    BY <1>1, FiniteAssumption, FS_Subset, FS_CardinalityType

\* The three effects keep LateInv.
LEMMA EffectBound ==
    ASSUME TypeOK, TypeOK', LateInv, \A i \in Invoices : Effect(i)
    PROVE  LateInv'
  <1> SUFFICES ASSUME NEW i \in Invoices
               PROVE  /\ late'[i] > 0 => Completed(i)'
                      /\ Completed(i)' => late'[i] + Cardinality(Checked(i)')
                                             < Cardinality(Requests)
    BY DEF LateInv
  <1>1. late[i] \in Nat /\ late'[i] \in Nat
    BY DEF TypeOK
  <1>2. /\ late[i] > 0 => Completed(i)
        /\ Completed(i) => late[i] + Cardinality(Checked(i)) < Cardinality(Requests)
    BY DEF LateInv
  <1>3. /\ IsFiniteSet(Checked(i)) /\ Cardinality(Checked(i)) \in Nat
        /\ Cardinality(Requests) \in Nat
    BY Finite
  <1>4. Cardinality(Checked(i)') \in Nat
    <2>1. Checked(i)' \subseteq Requests
      BY DEF Checked
    <2> QED
      BY <2>1, FiniteAssumption, FS_Subset, FS_CardinalityType
  <1>5. CASE /\ late'[i] = late[i]
             /\ Completed(i)' <=> Completed(i)
             /\ Completed(i) => Checked(i)' \subseteq Checked(i)
    <2>1. Completed(i) => Cardinality(Checked(i)') <= Cardinality(Checked(i))
      BY <1>3, <1>5, FS_Subset
    <2> QED
      BY <1>1, <1>2, <1>3, <1>4, <1>5, <2>1
  <1>6. CASE /\ late'[i] = late[i] /\ Completed(i)' /\ ~ Completed(i)
             /\ \E r \in Requests : Checked(i)' \subseteq Requests \ {r}
    <2>1. PICK r \in Requests : Checked(i)' \subseteq Requests \ {r}
      BY <1>6
    <2>2. /\ IsFiniteSet(Requests \ {r})
          /\ Cardinality(Requests \ {r}) = Cardinality(Requests) - 1
      BY FiniteAssumption, FS_RemoveElement
    <2>3. Cardinality(Checked(i)') <= Cardinality(Requests \ {r})
      BY <2>1, <2>2, FS_Subset
    <2>4. late[i] = 0
      BY <1>1, <1>2, <1>6
    <2> QED
      BY <1>3, <1>4, <1>6, <2>2, <2>3, <2>4
  <1>7. CASE /\ late'[i] = late[i] + 1
             /\ Completed(i) /\ Completed(i)'
             /\ \E r \in Checked(i) : Checked(i)' \subseteq Checked(i) \ {r}
    <2>1. PICK r \in Checked(i) : Checked(i)' \subseteq Checked(i) \ {r}
      BY <1>7
    <2>2. /\ IsFiniteSet(Checked(i) \ {r})
          /\ Cardinality(Checked(i) \ {r}) = Cardinality(Checked(i)) - 1
      BY <1>3, FS_RemoveElement
    <2>3. Cardinality(Checked(i)') <= Cardinality(Checked(i) \ {r})
      BY <2>1, <2>2, FS_Subset
    <2> QED
      BY <1>1, <1>2, <1>3, <1>4, <1>7, <2>2, <2>3
  <1> QED
    BY <1>5, <1>6, <1>7 DEF Effect

\* LateInvariant: what is charged late, and what is past the check of a settled
\* invoice, together are fewer than the requests.
THEOREM LateInvariant == Spec => []LateInv
  <1>1. Init => PayInv /\ LateInv
    <2>1. Init => LateInv
      BY DEF Init, LateInv, Completed, Issued
    <2> QED
      BY <2>1, InitPay
  <1>2. PayInv /\ LateInv /\ [Next]_vars => PayInv' /\ LateInv'
    BY PayStep, LateStep, EffectBound DEF PayInv
  <1> QED
    BY <1>1, <1>2, PTL DEF Spec

\* LateChargesBounded: however the handlers, Stripe and the deliveries
\* interleave, a settled invoice gets at most one late session or intent from
\* each request that was in flight when it was settled.
THEOREM LateChargesBounded == Spec => []LateBounded
  <1>1. TypeOK /\ LateInv => LateBounded
    <2> SUFFICES ASSUME TypeOK, LateInv, NEW i \in Invoices
                 PROVE  late[i] < Cardinality(Requests)
      BY DEF LateBounded
    <2>1. late[i] \in Nat
      BY DEF TypeOK
    <2>2. Cardinality(Requests) # 0
      BY FiniteAssumption, FS_EmptySet
    <2> QED
      BY <2>1, <2>2, Finite DEF LateInv
  <1> QED
    BY <1>1, TypeCorrect, LateInvariant, PTL

-----------------------------------------------------------------------------
(* Refinement.  Stripe's payment of a session is the ledger's Charge, the    *)
(* webhook's save its Settle, unless the invoice is settled already.         *)

LedgerStatus == [i \in Invoices |-> IF Issued(i) THEN invoices[i].status ELSE "none"]

\* A step that changes no invoice and no session is a stutter of the ledger.
LEMMA LedgerStutter ==
    ASSUME UNCHANGED <<invoices, sessions>>
    PROVE  UNCHANGED Ledger!vars
  BY DEF Ledger!vars, Issued, Paid, PaidFor

\* A session that is created, expires or is rejected pays nothing.
LEMMA PaidSame ==
    ASSUME TypeOK, NEW s \in Sessions, NEW new \in Session,
           sessions' = [sessions EXCEPT ![s] = new],
           ~ IsPaid(s), new.state # "paid"
    PROVE  Paid' = Paid
  BY DEF TypeOK, Paid, PaidFor, IsPaid, Session

\* ImplementsLedger for every step.
LEMMA LedgerStep ==
    ASSUME PayInv, [Next]_vars
    PROVE  [Ledger!Next]_(Ledger!vars)
  <1>1. ASSUME NEW i \in Invoices, NEW u \in Students, CreateInvoice(i, u)
        PROVE  Ledger!Issue(i)
    <2>1. Paid' = Paid /\ ~ Issued(i)
      BY <1>1 DEF CreateInvoice, Paid, PaidFor, stripe
    <2> DEFINE new == [studentId |-> u, status |-> "PENDING", paidAt |-> 0]
    <2>1a. new # NoInvoice /\ new.status = "PENDING"
      BY NullAssumption
    <2>1b. invoices' = [invoices EXCEPT ![i] = new]
      BY <1>1 DEF CreateInvoice
    <2> HIDE DEF new
    <2>2. LedgerStatus' = [LedgerStatus EXCEPT ![i] = "PENDING"]
      BY <2>1a, <2>1b DEF PayInv, TypeOK, LedgerStatus, Issued
    <2>3. LedgerStatus[i] = "none"
      BY <2>1 DEF LedgerStatus
    <2> QED
      BY <2>1, <2>2, <2>3 DEF Ledger!Issue, LedgerStatus
  <1>2. ASSUME NEW r \in Requests, Arrive(r) \/ Abort(r)
        PROVE  UNCHANGED Ledger!vars
    BY <1>2, LedgerStutter DEF Arrive, CreateCheckoutSession, PayInvoices, Abort, stripe
  <1>3. ASSUME NEW r \in Requests, SessionsCreate(r)
        PROVE  UNCHANGED Ledger!vars
    <2>1. Current(r) \in Invoices
      BY <1>3, CurrentType DEF PayInv, TypeOK, SlotTypes, RequestInv, RequestOK,
         SessionsCreate
    <2> DEFINE new == [invoice |-> Current(r), state |-> "open"]
    <2>2. PICK s \in Sessions : /\ sessions[s] = NoSession
                                /\ sessions' = [sessions EXCEPT ![s] = new]
      BY <1>3 DEF SessionsCreate
    <2>3. new \in Session /\ new.state # "paid"
      BY <2>1 DEF Session
    <2>4. ~ IsPaid(s) /\ TypeOK
      BY <2>2 DEF IsPaid, PayInv
    <2> HIDE DEF new
    <2>5. Paid' = Paid
      BY <2>2, <2>3, <2>4, PaidSame
    <2> QED
      BY <1>3, <2>5 DEF SessionsCreate, Ledger!vars, Issued
  <1>4. ASSUME NEW r \in Requests, PayFind(r) \/ IntentsCreate(r) \/ MarkFind(r)
        PROVE  UNCHANGED Ledger!vars
    BY <1>4, LedgerStutter DEF PayFind, IntentsCreate, MarkFind, stripe
  <1>5. ASSUME NEW r \in Requests, MarkSave(r)
        PROVE  [Ledger!Next]_(Ledger!vars)
    <2>1. PICK i \in Invoices :
          /\ Issued(i) /\ i \in Paid
          /\ Settled(invoices[i]) \in Row
          /\ invoices' = [invoices EXCEPT ![i] = Settled(invoices[i])]
      BY <1>5, MarkEffect
    <2>2. Paid' = Paid
      BY <1>5 DEF MarkSave, Paid, PaidFor
    <2>3. LedgerStatus' = [LedgerStatus EXCEPT ![i] = "COMPLETED"]
      BY <2>1, NullAssumption DEF PayInv, TypeOK, LedgerStatus, Issued, Settled, Row
    <2>4. LedgerStatus[i] \in {"PENDING", "COMPLETED"}
      BY <2>1 DEF PayInv, TypeOK, LedgerStatus, Issued, Row
    <2>5. CASE LedgerStatus[i] = "PENDING"
      <3>1. Ledger!Settle(i)
        BY <2>1, <2>2, <2>3, <2>5 DEF Ledger!Settle, LedgerStatus
      <3> QED
        BY <3>1 DEF Ledger!Next
    <2>6. CASE LedgerStatus[i] = "COMPLETED"
      <3>1. LedgerStatus' = LedgerStatus
        BY <2>3, <2>6 DEF LedgerStatus
      <3> QED
        BY <2>2, <3>1 DEF Ledger!vars, LedgerStatus
    <2> QED
      BY <2>4, <2>5, <2>6
  <1>6. ASSUME NEW s \in Sessions, PaySession(s)
        PROVE  [Ledger!Next]_(Ledger!vars)
    <2> DEFINE i == sessions[s].invoice
    <2>1. i \in Invoices /\ Issued(i)
      BY <1>6 DEF PayInv, TypeOK, SessionInv, PaySession, Session
    <2>2. Closed(s, "paid") \in Session /\ Closed(s, "paid").invoice = i
      BY <2>1 DEF Closed, Session
    <2>3. Paid' = Paid \cup {i}
      BY <1>6, <2>1, <2>2, NullAssumption
         DEF PayInv, TypeOK, PaySession, Paid, PaidFor, Closed, Session
    <2>4. LedgerStatus' = LedgerStatus
      BY <1>6 DEF PaySession, LedgerStatus, Issued
    <2>5. LedgerStatus[i] # "none"
      BY <2>1 DEF PayInv, TypeOK, LedgerStatus, Issued, Row
    <2>6. Ledger!Charge(i)
      BY <2>3, <2>4, <2>5 DEF Ledger!Charge, LedgerStatus
    <2> QED
      BY <2>1, <2>6 DEF Ledger!Next
  <1>7. ASSUME NEW s \in Sessions, ExpireSession(s)
        PROVE  UNCHANGED Ledger!vars
    <2>1. Closed(s, "expired") \in Session
      BY <1>7 DEF PayInv, TypeOK, ExpireSession, Closed, Session
    <2>2. Paid' = Paid
      BY <1>7, <2>1, PaidSame DEF PayInv, ExpireSession, Closed, IsPaid
    <2> QED
      BY <1>7, <2>2 DEF ExpireSession, Ledger!vars, Issued
  <1>8. ASSUME NEW s \in Sessions, RejectSignature(s)
        PROVE  UNCHANGED Ledger!vars
    BY <1>8, LedgerStutter DEF RejectSignature
  <1>9. ASSUME NEW r \in Requests, NEW s \in Sessions,
               Deliver(r, s) \/ DeliverAgain(r, s)
        PROVE  UNCHANGED Ledger!vars
    BY <1>9, LedgerStutter DEF Deliver, DeliverAgain, HandleWebhook
  <1>10. CASE UNCHANGED vars
    BY <1>10, LedgerStutter DEF vars
  <1> QED
    BY <1>1, <1>2, <1>3, <1>4, <1>5, <1>6, <1>7, <1>8, <1>9, <1>10
       DEF Next, Proceed, Ledger!Next

\* LedgerRefinement: the payment service implements the ledger: no invoice is
\* settled before a session for it was paid, and none goes back, whatever is
\* delivered twice, dropped, or fails.
THEOREM LedgerRefinement == Spec => ImplementsLedger
  <1>1. Init => Ledger!Init
    BY DEF Init, Ledger!Init, Issued, Paid, PaidFor
  <1>2. PayInv /\ [Next]_vars => [Ledger!Next]_(Ledger!vars)
    BY LedgerStep
  <1> QED
    BY <1>1, <1>2, PayInvariant, PTL DEF Spec, ImplementsLedger, Ledger!Spec
=============================================================================
