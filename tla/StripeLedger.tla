---------------------------- MODULE StripeLedger ----------------------------
(***************************************************************************)
(* One Stripe subscription and its rows in recurring_donations: the master *)
(* row, which follows the subscription's status, and one installment per   *)
(* paid cycle (recurring-donations-stripe.service.ts, called by            *)
(* handleStripeWebhook of donations.service.ts).                           *)
(*                                                                         *)
(* Stripe is the environment.  It posts events; an event is delivered      *)
(* late, again, or before an earlier one.  Whatever a handler throws is    *)
(* caught and answered with 200, so that Stripe repeats an event for good  *)
(* reason only when the process died with it.                              *)
(***************************************************************************)
EXTENDS Naturals, Sequences

CONSTANTS
    Calls,       \* the deliveries that may be handled at the same time
    Last,        \* the number of invoices; the first one opens the subscription
    Modes,       \* how the donor may pay first: "checkout", "embed"
    MaxPosted,   \* bound on the events Stripe posts
    MaxDeaths    \* bound on the deliveries the process dies with

ASSUME StripeAssumption ==
    /\ Last \in Nat \ {0}
    /\ Modes # {} /\ Modes \subseteq {"checkout", "embed"}
    /\ MaxPosted \in Nat \ {0}
    /\ MaxDeaths \in Nat

Invoices == 1 .. Last
Renewals == 2 .. Last

StripeStatus == {"none", "incomplete", "active", "past_due", "unpaid", "canceled"}

Types == {"checkout.session.completed", "payment_intent.succeeded", "invoice.paid",
          "invoice.payment_failed", "customer.subscription.updated",
          "customer.subscription.deleted"}

Event == [type : Types, inv : Invoices \union {0}, status : StripeStatus]

\* An event is known by its place in the sequence of those posted.
EventId == 1 .. MaxPosted

Master      == [status : {"active", "past_due", "canceled"}, event : EventId]
Installment == [inv : Renewals, event : EventId]

CallSteps == {"idle", "complete", "order", "event", "invoice", "find", "insert", "refind",
              "acknowledge", "enter", "reactivate", "update"}

VARIABLES
    mode,          \* how the donor pays first
    sub,           \* Stripe: the status of the subscription
    invoice,       \* Stripe: its invoices
    posted,        \* Stripe: the events so far
    completed,     \* the status of the donation is "completed"
    isSub,         \* its orderId is the subscription's
    masters,       \* subscription rows, in order of insertion
    installments,  \* installment rows, in order of insertion
    call,          \* the deliveries being handled
    answered,      \* the events a handler has come to the end with
    deaths,        \* how often the process has died
    upto,          \* history: the events up to this one have come in order
    disorder       \* history: the events have not come one by one and in order, or a
                   \* payment has left the subscription in arrears or ended

stripe == <<mode, sub, invoice, posted>>
ledger == <<completed, isSub, masters, installments>>
calls  == <<call, answered, deaths>>
vars   == <<stripe, ledger, calls, upto, disorder>>

Call == [pc : CallSteps,
         e : EventId \union {0},     \* the event
         m : Nat]                    \* the master in hand, 0 if none

On(type, inv, status) == [type |-> type, inv |-> inv, status |-> status]

NoCall == [pc |-> "idle", e |-> 0, m |-> 0]

\* No subscription yet; the donation may be completed by other means meanwhile.
Fresh ==
    /\ mode \in Modes
    /\ sub = "none"
    /\ invoice = [i \in Invoices |-> "none"]
    /\ posted = <<>>
    /\ completed \in BOOLEAN
    /\ isSub = (mode = "embed")
    /\ masters = <<>>
    /\ answered = {}
    /\ upto = 0

\* A subscription whose first payment is over, so that its mode no longer matters.
Established ==
    /\ mode = CHOOSE m \in Modes : TRUE
    /\ sub = "active"
    /\ invoice = [i \in Invoices |-> IF i = 1 THEN "paid" ELSE "none"]
    /\ posted = <<On("invoice.paid", 1, "active")>>
    /\ completed = TRUE
    /\ isSub = TRUE
    /\ masters = <<[status |-> "active", event |-> 1]>>
    /\ answered = {1}
    /\ upto = 1

Init ==
    /\ Fresh \/ Established
    /\ installments = <<>>
    /\ call = [c \in Calls |-> NoCall]
    /\ deaths = 0
    /\ disorder = FALSE

-----------------------------------------------------------------------------
Running(c) == call[c].pc # "idle"

Quiet == \A c \in Calls : ~Running(c)

EventOf(c) == posted[call[c].e]

\* mapSubscriptionStatus
Mapped(status) ==
    CASE status = "active"                   -> "active"
      [] status \in {"canceled", "unpaid"}   -> "canceled"
      [] status \in {"past_due", "incomplete"} -> "past_due"

\* eventAlreadyProcessed: a row of either kind holds the event.
Processed(e) ==
    \/ \E m \in DOMAIN masters : masters[m].event = e
    \/ \E r \in DOMAIN installments : installments[r].event = e

\* Invoice i has an installment row.
Entered(i) == \E r \in DOMAIN installments : installments[r].inv = i

\* Mutant: neither index is unique.
FreeAlways(i, e) == TRUE

\* The unique indexes of event and invoice.
Free(i, e) == ~Processed(e) /\ ~Entered(i)

-----------------------------------------------------------------------------
(* Stripe                                                                  *)

Post(events) ==
    /\ Len(posted) + Len(events) <= MaxPosted
    /\ posted' = posted \o events
    /\ UNCHANGED <<mode, ledger, calls, upto>>

Updated(status) == On("customer.subscription.updated", 0, status)

\* The donor checks out, and the first invoice is paid: the events of the two come in
\* either order.
CheckOut ==
    /\ mode = "checkout"
    /\ sub = "none"
    /\ sub' = "active"
    /\ invoice' = [invoice EXCEPT ![1] = "paid"]
    /\ LET opened == On("checkout.session.completed", 0, "active")
           paid   == On("invoice.paid", 1, "active")
       IN  Post(<<opened, paid>>) \/ Post(<<paid, opened>>)
    /\ UNCHANGED disorder

\* The embedded form creates the subscription before it is paid.
Subscribe ==
    /\ mode = "embed"
    /\ sub = "none"
    /\ sub' = "incomplete"
    /\ invoice' = [invoice EXCEPT ![1] = "open"]
    /\ Post(<<>>)
    /\ UNCHANGED disorder

PayFirst ==
    /\ sub = "incomplete"
    /\ sub' = "active"
    /\ invoice' = [invoice EXCEPT ![1] = "paid"]
    /\ Post(<<On("payment_intent.succeeded", 0, "active"), On("invoice.paid", 1, "active"),
              Updated("active")>>)
    /\ UNCHANGED disorder

\* Invoice i is the next one.
Due(i) ==
    /\ sub \in {"active", "past_due"}
    /\ invoice[i] = "none"
    /\ \A j \in 1 .. i - 1 : invoice[j] # "none"

Renew(i) ==
    /\ Due(i)
    /\ invoice' = [invoice EXCEPT ![i] = "paid"]
    /\ sub' = "active"
    /\ LET paid == On("invoice.paid", i, "active")
       IN  Post(IF sub = "active" THEN <<paid>> ELSE <<paid, Updated("active")>>)
    /\ UNCHANGED disorder

Decline(i) ==
    /\ Due(i)
    /\ invoice' = [invoice EXCEPT ![i] = "open"]
    /\ sub' = "past_due"
    /\ Post(<<On("invoice.payment_failed", i, "past_due"), Updated("past_due")>>)
    /\ UNCHANGED disorder

\* An open invoice is paid after all: the last one ends the arrears; an older one, or
\* one of a subscription that has ended, changes nothing for Stripe.
PayLate(i) ==
    /\ i > 1 /\ invoice[i] = "open"
    /\ invoice' = [invoice EXCEPT ![i] = "paid"]
    /\ IF sub # "canceled" /\ \A j \in i + 1 .. Last : invoice[j] = "none"
       THEN /\ sub' = "active"
            /\ Post(<<On("invoice.paid", i, "active"), Updated("active")>>)
            /\ UNCHANGED disorder
       ELSE /\ Post(<<On("invoice.paid", i, sub)>>)
            /\ disorder' = (disorder \/ sub # "active")
            /\ UNCHANGED sub

GiveUp ==
    /\ sub = "past_due"
    /\ sub' = "unpaid"
    /\ Post(<<Updated("unpaid")>>)
    /\ UNCHANGED <<invoice, disorder>>

Cancel ==
    /\ sub \in {"active", "past_due", "unpaid"}
    /\ sub' = "canceled"
    /\ Post(<<On("customer.subscription.deleted", 0, "canceled")>>)
    /\ UNCHANGED <<invoice, disorder>>

Stripe ==
    \/ CheckOut \/ Subscribe \/ PayFirst \/ GiveUp \/ Cancel
    \/ \E i \in Invoices : Renew(i) \/ Decline(i) \/ PayLate(i)

-----------------------------------------------------------------------------
(* handleStripeWebhook                                                     *)

Goto(c, pc) ==
    /\ call' = [call EXCEPT ![c].pc = pc]
    /\ UNCHANGED <<answered, deaths>>

\* The handler returns or throws: either way Stripe gets its answer.
End(c) ==
    /\ call' = [call EXCEPT ![c] = NoCall]
    /\ answered' = answered \union {call[c].e}
    /\ UNCHANGED deaths

\* Where the handler of an event begins.
First(type) ==
    CASE type = "checkout.session.completed" -> "event"
      [] type = "payment_intent.succeeded"   -> "order"
      [] type = "invoice.paid"               -> "invoice"
      [] OTHER                               -> "find"

Opening == {"checkout.session.completed", "payment_intent.succeeded"}

\* Event e arrives; for those of a first payment the donation is read.
Deliver(c, e) ==
    /\ call[c].pc = "idle"
    /\ e \in DOMAIN posted
    /\ LET type == posted[e].type
       IN  call' = [call EXCEPT ![c] = [NoCall EXCEPT
                        !.e = e,
                        !.pc = IF type \in Opening /\ ~completed THEN "complete"
                                                                 ELSE First(type)]]
    /\ disorder' = (disorder \/ ~Quiet \/ e # upto + 1)
    /\ upto' = IF disorder' THEN upto ELSE e
    /\ UNCHANGED <<stripe, ledger, answered, deaths>>

\* The donation is completed, its orderId replaced by the subscription's after a
\* checkout, by the payment's after a payment in the page.
CompleteDonation(c) ==
    /\ call[c].pc = "complete"
    /\ completed' = TRUE
    /\ isSub' = (EventOf(c).type = "checkout.session.completed")
    /\ Goto(c, First(EventOf(c).type))
    /\ UNCHANGED <<stripe, masters, installments, upto, disorder>>

\* onPaymentIntentSucceeded: only if the donation's orderId is a subscription's.
LoadOrder(c) ==
    /\ call[c].pc = "order"
    /\ IF isSub THEN Goto(c, "find") ELSE End(c)
    /\ UNCHANGED <<stripe, ledger, upto, disorder>>

CheckEvent(c) ==
    /\ call[c].pc = "event"
    /\ IF Processed(call[c].e) THEN End(c)
       ELSE Goto(c, CASE EventOf(c).type = "checkout.session.completed" -> "find"
                      [] EventOf(c).type = "payment_intent.succeeded"   -> "insert"
                      [] EventOf(c).type = "invoice.paid"               -> "acknowledge")
    /\ UNCHANGED <<stripe, ledger, upto, disorder>>

\* onInvoicePaid
CheckInvoice(c) ==
    /\ call[c].pc = "invoice"
    /\ IF Entered(EventOf(c).inv) THEN End(c) ELSE Goto(c, "find")
    /\ UNCHANGED <<stripe, ledger, upto, disorder>>

\* Where an event goes on with its master, and where without one.
AfterFound(ev) ==
    CASE ev.type = "invoice.paid" /\ ev.inv = 1    -> "event"
      [] ev.type = "invoice.paid" /\ ev.inv > 1    -> "enter"
      [] OTHER                                     -> "update"

\* Mutant: an invoice without a master is dropped.
AfterMissingDrops(ev) ==
    CASE ev.type = "checkout.session.completed"    -> "insert"
      [] ev.type = "payment_intent.succeeded"      -> "event"
      [] OTHER                                     -> "end"

AfterMissing(ev) ==
    CASE ev.type = "checkout.session.completed"    -> "insert"
      [] ev.type = "payment_intent.succeeded"      -> "event"
      [] ev.type = "invoice.paid"                  -> "insert"
      [] OTHER                                     -> "end"

\* Call c goes on with master m, or without one; a look-up after the insertion that
\* finds none ends the call.
WithMaster(c, m) ==
    IF EventOf(c).type \in Opening THEN End(c)
    ELSE /\ call' = [call EXCEPT ![c].m = m, ![c].pc = AfterFound(EventOf(c))]
         /\ UNCHANGED <<answered, deaths>>

WithoutMaster(c) ==
    LET next == AfterMissing(EventOf(c))
    IN  IF call[c].pc = "refind" \/ next = "end" THEN End(c) ELSE Goto(c, next)

\* Mutant: a first payment does not look for the master.
FindMasterLater(c) ==
    /\ call[c].pc \in {"find", "refind"}
    /\ IF EventOf(c).type \in Opening \/ masters = <<>> THEN WithoutMaster(c)
       ELSE \E m \in DOMAIN masters : WithMaster(c, m)
    /\ UNCHANGED <<stripe, ledger, upto, disorder>>

\* findSubscriptionMaster: of several rows, any.
FindMaster(c) ==
    /\ call[c].pc \in {"find", "refind"}
    /\ IF masters = <<>> THEN WithoutMaster(c)
       ELSE \E m \in DOMAIN masters : WithMaster(c, m)
    /\ UNCHANGED <<stripe, ledger, upto, disorder>>

\* A master is inserted with the event's id; an id another row has is an error, which
\* ends the call.
InsertMaster(c) ==
    /\ call[c].pc = "insert"
    /\ IF Processed(call[c].e)
       THEN End(c) /\ UNCHANGED masters
       ELSE /\ masters' = Append(masters, [status |-> "active", event |-> call[c].e])
            /\ IF EventOf(c).type \in Opening THEN End(c) ELSE Goto(c, "refind")
    /\ UNCHANGED <<stripe, completed, isSub, installments, upto, disorder>>

\* The invoice that opened the subscription.
Acknowledge(c) ==
    /\ call[c].pc = "acknowledge"
    /\ masters' = [masters EXCEPT ![call[c].m].status = "active"]
    /\ End(c)
    /\ UNCHANGED <<stripe, completed, isSub, installments, upto, disorder>>

\* Any later invoice: an installment with the event's and the invoice's id.
EnterInvoice(c) ==
    /\ call[c].pc = "enter"
    /\ LET i == EventOf(c).inv
           e == call[c].e
       IN  IF Free(i, e)
           THEN /\ installments' = Append(installments, [inv |-> i, event |-> e])
                /\ Goto(c, "reactivate")
           ELSE End(c) /\ UNCHANGED installments
    /\ UNCHANGED <<stripe, completed, isSub, masters, upto, disorder>>

Reactivate(c) ==
    /\ call[c].pc = "reactivate"
    /\ masters' = [masters EXCEPT ![call[c].m].status = "active"]
    /\ End(c)
    /\ UNCHANGED <<stripe, completed, isSub, installments, upto, disorder>>

\* Mutant: a deletion is taken for an update.
ReportedActive(ev) ==
    IF ev.type = "invoice.payment_failed" THEN "past_due" ELSE "active"

\* What onInvoicePaymentFailed, onSubscriptionUpdated and onSubscriptionDeleted write.
Reported(ev) ==
    CASE ev.type = "invoice.payment_failed"        -> "past_due"
      [] ev.type = "customer.subscription.updated" -> Mapped(ev.status)
      [] ev.type = "customer.subscription.deleted" -> "canceled"

UpdateMaster(c) ==
    /\ call[c].pc = "update"
    /\ masters' = [masters EXCEPT ![call[c].m].status = Reported(EventOf(c))]
    /\ End(c)
    /\ UNCHANGED <<stripe, completed, isSub, installments, upto, disorder>>

\* The process dies with the delivery.
Crash(c) ==
    /\ Running(c)
    /\ deaths < MaxDeaths
    /\ deaths' = deaths + 1
    /\ call' = [call EXCEPT ![c] = NoCall]
    /\ UNCHANGED <<stripe, ledger, answered, upto, disorder>>

-----------------------------------------------------------------------------
Step(c) ==
    \/ CompleteDonation(c)
    \/ LoadOrder(c)
    \/ CheckEvent(c)
    \/ CheckInvoice(c)
    \/ FindMaster(c)
    \/ InsertMaster(c)
    \/ Acknowledge(c)
    \/ EnterInvoice(c)
    \/ Reactivate(c)
    \/ UpdateMaster(c)

Next ==
    \/ Stripe
    \/ \E c \in Calls :
          \/ \E e \in EventId : Deliver(c, e)
          \/ Step(c)
          \/ Crash(c)

Spec == Init /\ [][Next]_vars

\* Stripe delivers an event until it is answered.
Redeliver(c, e) ==
    /\ e \notin answered
    /\ \A x \in Calls : call[x].e # e
    /\ Deliver(c, e)

\* A handler goes on, and Stripe tries again while there is an event without an answer.
\* Strong fairness, as the handlers are not in fact limited to Calls.
FairSpec ==
    /\ Spec
    /\ \A c \in Calls : WF_vars(Step(c))
    /\ SF_vars(\E c \in Calls, e \in EventId : Redeliver(c, e))

-----------------------------------------------------------------------------
\* Every variable is of its type.
TypeOK ==
    /\ mode \in Modes
    /\ sub \in StripeStatus
    /\ invoice \in [Invoices -> {"none", "open", "paid"}]
    /\ posted \in Seq(Event) /\ Len(posted) <= MaxPosted
    /\ completed \in BOOLEAN /\ isSub \in BOOLEAN
    /\ masters \in Seq(Master)
    /\ installments \in Seq(Installment)
    /\ call \in [Calls -> Call]
    /\ answered \subseteq DOMAIN posted
    /\ deaths \in 0 .. MaxDeaths
    /\ upto \in 0 .. Len(posted)
    /\ disorder \in BOOLEAN

\* A subscription has one master row, and one status, as long as its events come one
\* by one, in order.
OneMaster == ~disorder => Len(masters) <= 1

\* Event e has opened the master row.
Opened(e) == \E m \in DOMAIN masters : masters[m].event = e

\* The ledger has the status Stripe has, when all its events have come one by one, in
\* order, and no payment was taken that leaves the subscription in arrears or ended.
StatusFollows ==
    Quiet /\ ~disorder /\ upto = Len(posted) /\ deaths = 0 =>
        \A m \in DOMAIN masters : masters[m].status = Mapped(sub)

\* The installments are a book of the renewals that were paid.
Book == INSTANCE InvoiceBook WITH
    Invoices <- Renewals,
    Events   <- EventId,
    paid     <- {i \in Renewals : invoice[i] = "paid"},
    book     <- installments

\* However deliveries interleave, an invoice is entered once, after it was paid, and
\* stays as it was entered.
KeepsBook == Book!Spec

\* A paid renewal is entered in the end, though the process dies with some deliveries,
\* unless its event has opened the master row.
RenewalsSettle ==
    \A i \in Renewals :
        invoice[i] = "paid" ~>
            \/ Entered(i)
            \/ \E e \in DOMAIN posted : /\ posted[e].type = "invoice.paid" /\ posted[e].inv = i
                                        /\ Opened(e)
=============================================================================
