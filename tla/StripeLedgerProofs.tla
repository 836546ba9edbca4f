------------------------- MODULE StripeLedgerProofs -------------------------
(***************************************************************************)
(* Proofs that the rows of a Stripe subscription are of their types, that  *)
(* its installments are a book of the renewals that were paid, and that,   *)
(* while events come in order, there is one master row and it has the      *)
(* status Stripe has; for any number of invoices, deliveries, repetitions  *)
(* and deaths of the process.                                              *)
(*                                                                         *)
(* A handler acts on an event it has read at the start.  The invariant     *)
(* therefore says what each statement knows of its event (Fits), and that  *)
(* an event that reports a payment stays true once it is posted (Good).    *)
(***************************************************************************)
EXTENDS StripeLedger, TLAPS

\* What event ev says is so.
Good(ev) ==
    /\ ev.type = "invoice.paid" => ev.inv \in Invoices /\ invoice[ev.inv] = "paid"
    /\ ev.type = "customer.subscription.updated" => ev.status \in {"active", "past_due", "unpaid"}

Reports == {"invoice.payment_failed", "customer.subscription.updated",
            "customer.subscription.deleted"}

\* Statement pc is reached with events like ev only.
Fit(pc, ev) ==
    /\ pc = "complete" => ev.type \in Opening
    /\ pc = "order" => ev.type = "payment_intent.succeeded"
    /\ pc \in {"event", "insert"} => ev.type \in Opening \union {"invoice.paid"}
    /\ pc \in {"invoice", "refind", "acknowledge", "enter", "reactivate"} => ev.type = "invoice.paid"
    /\ pc = "enter" => ev.inv > 1
    /\ pc = "update" => ev.type \in Reports

\* Statement by statement.
Fits == \A c \in Calls : Running(c) => call[c].e \in DOMAIN posted /\ Fit(call[c].pc, EventOf(c))

\* The events that are posted.
PostedOK ==
    /\ posted \in Seq(Event) /\ Len(posted) <= MaxPosted
    /\ \A e \in DOMAIN posted : Good(posted[e])
    /\ sub = "none" => posted = <<>> /\ \A i \in Invoices : invoice[i] = "none"

LedgerInv == TypeOK /\ PostedOK /\ Fits

-----------------------------------------------------------------------------
(* Stripe                                                                  *)

\* Events are added to those before.
LEMMA PostEffect ==
    ASSUME posted \in Seq(Event), NEW events \in Seq(Event), Post(events)
    PROVE  /\ posted' \in Seq(Event) /\ Len(posted') <= MaxPosted
           /\ Len(posted) <= Len(posted')
           /\ DOMAIN posted \subseteq DOMAIN posted'
           /\ \A e \in DOMAIN posted : posted'[e] = posted[e]
           /\ \A e \in DOMAIN posted' \ DOMAIN posted : \E k \in DOMAIN events : posted'[e] = events[k]
           /\ UNCHANGED <<mode, ledger, calls, upto>>
<1>1. posted' = posted \o events /\ Len(posted) + Len(events) <= MaxPosted
        /\ UNCHANGED <<mode, ledger, calls, upto>>
      BY DEF Post
<1>2. /\ posted' \in Seq(Event) /\ Len(posted') = Len(posted) + Len(events)
      /\ \A e \in 1 .. Len(posted) : posted'[e] = posted[e]
      /\ \A e \in 1 .. Len(posted') : e > Len(posted) => posted'[e] = events[e - Len(posted)]
      BY <1>1
<1>3. DOMAIN posted = 1 .. Len(posted) /\ DOMAIN posted' = 1 .. Len(posted')
        /\ DOMAIN events = 1 .. Len(events) /\ Len(posted) \in Nat /\ Len(events) \in Nat
      BY <1>2
<1>4. \A e \in DOMAIN posted' \ DOMAIN posted : \E k \in DOMAIN events : posted'[e] = events[k]
  <2> SUFFICES ASSUME NEW e \in DOMAIN posted' \ DOMAIN posted
               PROVE  e - Len(posted) \in DOMAIN events /\ posted'[e] = events[e - Len(posted)]
      OBVIOUS
  <2>1. QED BY <1>2, <1>3
<1>5. QED BY <1>1, <1>2, <1>3, <1>4

\* A step of Stripe keeps the invariant if what it posts is so and no payment is undone.
LEMMA PostKeeps ==
    ASSUME LedgerInv, NEW events \in Seq(Event), Post(events),
           sub' \in StripeStatus \ {"none"},
           invoice' \in [Invoices -> {"none", "open", "paid"}],
           disorder' \in BOOLEAN,
           posted = <<>> \/ \A i \in Invoices : invoice[i] = "paid" => invoice'[i] = "paid",
           \A k \in DOMAIN events : Good(events[k])'
    PROVE  LedgerInv'
<1>1. /\ posted' \in Seq(Event) /\ Len(posted') <= MaxPosted
      /\ Len(posted) <= Len(posted')
      /\ DOMAIN posted \subseteq DOMAIN posted'
      /\ \A e \in DOMAIN posted : posted'[e] = posted[e]
      /\ \A e \in DOMAIN posted' \ DOMAIN posted : \E k \in DOMAIN events : posted'[e] = events[k]
      /\ UNCHANGED <<mode, ledger, calls, upto>>
      BY PostEffect DEF LedgerInv, PostedOK
<1>2. ASSUME NEW e \in DOMAIN posted PROVE Good(posted[e])'
  <2>1. Good(posted[e]) /\ posted'[e] = posted[e]
        BY <1>1, <1>2 DEF LedgerInv, PostedOK
  <2>2. posted # <<>>
        BY <1>2
  <2>3. QED BY <2>1, <2>2 DEF Good
<1>3. ASSUME NEW e \in DOMAIN posted' \ DOMAIN posted PROVE Good(posted[e])'
  <2>1. PICK k \in DOMAIN events : posted'[e] = events[k]
        BY <1>1
  <2>2. Good(events[k])'
        OBVIOUS
  <2>3. QED BY <2>1, <2>2 DEF Good
<1>4. PostedOK'
      BY <1>1, <1>2, <1>3 DEF PostedOK
<1>5. Fits'
      BY <1>1 DEF LedgerInv, Fits, EventOf, Running, calls
<1>6. TypeOK'
  <2>1. upto' \in 0 .. Len(posted')
        BY <1>1 DEF LedgerInv, TypeOK
  <2>2. QED BY <1>1, <2>1 DEF LedgerInv, TypeOK, ledger, calls
<1>7. QED BY <1>4, <1>5, <1>6 DEF LedgerInv

\* The events of the actions below are well formed, and so.
LEMMA OnEvent ==
    /\ \A type \in Types, i \in Invoices \union {0}, st \in StripeStatus :
          /\ On(type, i, st) \in Event
          /\ On(type, i, st).type = type /\ On(type, i, st).inv = i /\ On(type, i, st).status = st
    /\ 1 \in Invoices
BY StripeAssumption DEF On, Event, Invoices

\* What Stripe does keeps the invariant.
LEMMA StripeKeeps ==
    ASSUME LedgerInv, Stripe
    PROVE  LedgerInv'
<1>1. /\ sub \in StripeStatus /\ invoice \in [Invoices -> {"none", "open", "paid"}]
      /\ disorder \in BOOLEAN
      /\ sub = "none" => posted = <<>> /\ \A i \in Invoices : invoice[i] = "none"
      BY DEF LedgerInv, TypeOK, PostedOK
<1>2. CASE CheckOut
  <2> DEFINE a == On("checkout.session.completed", 0, "active")
             b == On("invoice.paid", 1, "active")
  <2>1. a \in Event /\ b \in Event /\ a.type = "checkout.session.completed"
          /\ b.type = "invoice.paid" /\ b.inv = 1
        BY OnEvent DEF Types, StripeStatus
  <2>2. sub = "none" /\ sub' = "active" /\ invoice' = [invoice EXCEPT ![1] = "paid"]
          /\ disorder' = disorder /\ (Post(<<a, b>>) \/ Post(<<b, a>>))
        BY <1>2 DEF CheckOut
  <2> HIDE DEF a, b
  <2>3. invoice' \in [Invoices -> {"none", "open", "paid"}] /\ invoice'[1] = "paid"
        BY <1>1, <2>2, OnEvent
  <2>4. Good(a)' /\ Good(b)'
        BY <2>1, <2>3, OnEvent DEF Good
  <2>5. PICK events \in {<<a, b>>, <<b, a>>} : Post(events)
        BY <2>2
  <2>6. events \in Seq(Event) /\ \A k \in DOMAIN events : events[k] \in {a, b}
    <3>1. CASE events = <<a, b>>
          BY <2>1, <3>1
    <3>2. CASE events = <<b, a>>
          BY <2>1, <3>2
    <3>3. QED BY <2>5, <3>1, <3>2
  <2>7. \A k \in DOMAIN events : Good(events[k])'
    <3> TAKE k \in DOMAIN events
    <3>1. CASE events[k] = a
          BY <3>1, <2>4
    <3>2. CASE events[k] = b
          BY <3>2, <2>4
    <3>3. QED BY <2>6, <3>1, <3>2
  <2>8. sub' \in StripeStatus \ {"none"}
        BY <2>2 DEF StripeStatus
  <2>9. QED BY <1>1, <2>2, <2>3, <2>5, <2>6, <2>7, <2>8, PostKeeps
<1>3. CASE Subscribe
  <2>1. sub = "none" /\ sub' = "incomplete" /\ invoice' = [invoice EXCEPT ![1] = "open"]
          /\ disorder' = disorder /\ Post(<<>>)
        BY <1>3 DEF Subscribe
  <2>2. invoice' \in [Invoices -> {"none", "open", "paid"}] /\ sub' \in StripeStatus \ {"none"}
        BY <1>1, <2>1 DEF StripeStatus
  <2>3. <<>> \in Seq(Event) /\ \A k \in DOMAIN <<>> : FALSE
        OBVIOUS
  <2>4. QED BY <1>1, <2>1, <2>2, <2>3, PostKeeps
<1>4. CASE PayFirst
  <2> DEFINE a == On("payment_intent.succeeded", 0, "active")
             b == On("invoice.paid", 1, "active")
             d == Updated("active")
  <2>1. a \in Event /\ b \in Event /\ d \in Event /\ a.type = "payment_intent.succeeded"
          /\ b.type = "invoice.paid" /\ b.inv = 1
          /\ d.type = "customer.subscription.updated" /\ d.status = "active"
        BY OnEvent DEF Types, StripeStatus, Updated
  <2>2. sub' = "active" /\ invoice' = [invoice EXCEPT ![1] = "paid"]
          /\ disorder' = disorder /\ Post(<<a, b, d>>)
        BY <1>4 DEF PayFirst
  <2> HIDE DEF a, b, d
  <2>3. invoice' \in [Invoices -> {"none", "open", "paid"}] /\ invoice'[1] = "paid"
          /\ \A i \in Invoices : invoice[i] = "paid" => invoice'[i] = "paid"
        BY <1>1, <2>2, OnEvent
  <2>4. Good(a)' /\ Good(b)' /\ Good(d)'
        BY <2>1, <2>3, OnEvent DEF Good
  <2> DEFINE events == <<a, b, d>>
  <2>5. events \in Seq(Event) /\ \A k \in DOMAIN events : events[k] \in {a, b, d}
        BY <2>1
  <2> HIDE DEF events
  <2>6. \A k \in DOMAIN events : Good(events[k])'
    <3> TAKE k \in DOMAIN events
    <3>1. CASE events[k] = a
          BY <3>1, <2>4
    <3>2. CASE events[k] = b
          BY <3>2, <2>4
    <3>3. CASE events[k] = d
          BY <3>3, <2>4
    <3>4. QED BY <2>5, <3>1, <3>2, <3>3
  <2>7. sub' \in StripeStatus \ {"none"}
        BY <2>2 DEF StripeStatus
  <2>8. Post(events)
        BY <2>2 DEF events
  <2>9. QED BY <1>1, <2>2, <2>3, <2>5, <2>6, <2>7, <2>8, PostKeeps
<1>5. CASE GiveUp
  <2> DEFINE d == Updated("unpaid")
  <2>1. d \in Event /\ d.type = "customer.subscription.updated" /\ d.status = "unpaid"
        BY OnEvent DEF Types, StripeStatus, Updated
  <2>2. sub' = "unpaid" /\ invoice' = invoice /\ disorder' = disorder /\ Post(<<d>>)
        BY <1>5 DEF GiveUp
  <2> HIDE DEF d
  <2>3. Good(d)' /\ sub' \in StripeStatus \ {"none"}
        BY <2>1, <2>2 DEF Good, StripeStatus
  <2>4. <<d>> \in Seq(Event) /\ \A k \in DOMAIN <<d>> : <<d>>[k] = d
        BY <2>1
  <2>5. \A k \in DOMAIN <<d>> : Good(<<d>>[k])'
        BY <2>3, <2>4 DEF Good
  <2>6. QED BY <1>1, <2>2, <2>3, <2>4, <2>5, PostKeeps
<1>6. CASE Cancel
  <2> DEFINE d == On("customer.subscription.deleted", 0, "canceled")
  <2>1. d \in Event /\ d.type = "customer.subscription.deleted"
        BY OnEvent DEF Types, StripeStatus
  <2>2. sub' = "canceled" /\ invoice' = invoice /\ disorder' = disorder /\ Post(<<d>>)
        BY <1>6 DEF Cancel
  <2> HIDE DEF d
  <2>3. Good(d)' /\ sub' \in StripeStatus \ {"none"}
        BY <2>1, <2>2 DEF Good, StripeStatus
  <2>4. <<d>> \in Seq(Event) /\ \A k \in DOMAIN <<d>> : <<d>>[k] = d
        BY <2>1
  <2>5. \A k \in DOMAIN <<d>> : Good(<<d>>[k])'
        BY <2>3, <2>4 DEF Good
  <2>6. QED BY <1>1, <2>2, <2>3, <2>4, <2>5, PostKeeps
<1>7. ASSUME NEW i \in Invoices, Renew(i) PROVE LedgerInv'
  <2> DEFINE b == On("invoice.paid", i, "active")
             d == Updated("active")
  <2>1. b \in Event /\ d \in Event /\ b.type = "invoice.paid" /\ b.inv = i
          /\ d.type = "customer.subscription.updated" /\ d.status = "active"
        BY OnEvent DEF Types, StripeStatus, Updated
  <2>2. /\ sub' = "active" /\ invoice' = [invoice EXCEPT ![i] = "paid"] /\ disorder' = disorder
        /\ Post(<<b>>) \/ Post(<<b, d>>)
        BY <1>7 DEF Renew
  <2> HIDE DEF b, d
  <2>3. invoice' \in [Invoices -> {"none", "open", "paid"}] /\ invoice'[i] = "paid"
          /\ \A j \in Invoices : invoice[j] = "paid" => invoice'[j] = "paid"
        BY <1>1, <2>2
  <2>4. Good(b)' /\ Good(d)' /\ sub' \in StripeStatus \ {"none"}
        BY <2>1, <2>2, <2>3 DEF Good, StripeStatus
  <2>6. PICK events \in {<<b>>, <<b, d>>} : Post(events)
        BY <2>2
  <2>7. events \in Seq(Event) /\ \A k \in DOMAIN events : events[k] \in {b, d}
    <3>1. CASE events = <<b>>
          BY <2>1, <3>1
    <3>2. CASE events = <<b, d>>
          BY <2>1, <3>2
    <3>3. QED BY <2>6, <3>1, <3>2
  <2>8. \A k \in DOMAIN events : Good(events[k])'
    <3> TAKE k \in DOMAIN events
    <3>1. CASE events[k] = b
          BY <3>1, <2>4
    <3>2. CASE events[k] = d
          BY <3>2, <2>4
    <3>3. QED BY <2>7, <3>1, <3>2
  <2>9. QED BY <1>1, <2>2, <2>3, <2>4, <2>6, <2>7, <2>8, PostKeeps
<1>8. ASSUME NEW i \in Invoices, Decline(i) PROVE LedgerInv'
  <2> DEFINE b == On("invoice.payment_failed", i, "past_due")
             d == Updated("past_due")
  <2>1. b \in Event /\ d \in Event /\ b.type = "invoice.payment_failed"
          /\ d.type = "customer.subscription.updated" /\ d.status = "past_due"
        BY OnEvent DEF Types, StripeStatus, Updated
  <2>2. /\ sub' = "past_due" /\ invoice' = [invoice EXCEPT ![i] = "open"] /\ disorder' = disorder
        /\ Post(<<b, d>>) /\ invoice[i] = "none"
        BY <1>8 DEF Decline, Due
  <2> HIDE DEF b, d
  <2>3. invoice' \in [Invoices -> {"none", "open", "paid"}]
          /\ \A j \in Invoices : invoice[j] = "paid" => invoice'[j] = "paid"
        BY <1>1, <2>2
  <2>4. Good(b)' /\ Good(d)' /\ sub' \in StripeStatus \ {"none"}
        BY <2>1, <2>2 DEF Good, StripeStatus
  <2> DEFINE events == <<b, d>>
  <2>5. events \in Seq(Event) /\ \A k \in DOMAIN events : events[k] \in {b, d}
        BY <2>1
  <2>6. Post(events)
        BY <2>2
  <2> HIDE DEF events
  <2>7. \A k \in DOMAIN events : Good(events[k])'
    <3> TAKE k \in DOMAIN events
    <3>1. CASE events[k] = b
          BY <3>1, <2>4
    <3>2. CASE events[k] = d
          BY <3>2, <2>4
    <3>3. QED BY <2>5, <3>1, <3>2
  <2>8. QED BY <1>1, <2>2, <2>3, <2>4, <2>5, <2>6, <2>7, PostKeeps
<1>9. ASSUME NEW i \in Invoices, PayLate(i) PROVE LedgerInv'
  <2> DEFINE b(st) == On("invoice.paid", i, st)
             d     == Updated("active")
  <2>1. \A st \in StripeStatus : b(st) \in Event /\ b(st).type = "invoice.paid" /\ b(st).inv = i
        BY OnEvent DEF Types, StripeStatus
  <2>2. d \in Event /\ d.type = "customer.subscription.updated" /\ d.status = "active"
        BY OnEvent DEF Types, StripeStatus, Updated
  <2>3. /\ invoice' = [invoice EXCEPT ![i] = "paid"]
        /\ \/ sub' = "active" /\ disorder' = disorder /\ Post(<<b("active"), d>>)
           \/ sub' = sub /\ disorder' = (disorder \/ sub # "active") /\ Post(<<b(sub)>>)
        /\ i > 1 /\ invoice[i] = "open"
        BY <1>9 DEF PayLate
  <2> HIDE DEF b, d
  <2>4. invoice' \in [Invoices -> {"none", "open", "paid"}] /\ invoice'[i] = "paid"
          /\ \A j \in Invoices : invoice[j] = "paid" => invoice'[j] = "paid"
        BY <1>1, <2>3
  <2>5. CASE sub' = "active" /\ disorder' = disorder /\ Post(<<b("active"), d>>)
    <3> DEFINE a == b("active")
               events == <<a, d>>
    <3>1. a \in Event /\ a.type = "invoice.paid" /\ a.inv = i
          BY <2>1 DEF StripeStatus
    <3>2. Post(events)
          BY <2>5
    <3> HIDE DEF a
    <3>3. events \in Seq(Event) /\ \A k \in DOMAIN events : events[k] \in {a, d}
          BY <3>1, <2>2
    <3>4. Good(a)' /\ Good(d)' /\ sub' \in StripeStatus \ {"none"}
          BY <2>2, <2>4, <2>5, <3>1 DEF Good, StripeStatus
    <3> HIDE DEF events
    <3>5. \A k \in DOMAIN events : Good(events[k])'
      <4> TAKE k \in DOMAIN events
      <4>1. CASE events[k] = a
            BY <4>1, <3>4
      <4>2. CASE events[k] = d
            BY <4>2, <3>4
      <4>3. QED BY <3>3, <4>1, <4>2
    <3>6. QED BY <1>1, <2>4, <2>5, <3>2, <3>3, <3>4, <3>5, PostKeeps
  <2>6. CASE sub' = sub /\ disorder' = (disorder \/ sub # "active") /\ Post(<<b(sub)>>)
    <3>0. PICK st \in StripeStatus : sub = st
          BY <1>1
    <3> DEFINE a == b(st)
    <3>1. a \in Event /\ a.type = "invoice.paid" /\ a.inv = i
          BY <2>1
    <3>2. Post(<<a>>)
          BY <2>6, <3>0
    <3> HIDE DEF a
    <3>3. <<a>> \in Seq(Event) /\ \A k \in DOMAIN <<a>> : <<a>>[k] = a
          BY <3>1
    <3>4. Good(a)'
          BY <2>4, <3>1 DEF Good
    <3>5. \A k \in DOMAIN <<a>> : Good(<<a>>[k])'
          BY <3>3, <3>4 DEF Good
    <3>6. disorder' \in BOOLEAN /\ sub' \in StripeStatus \ {"none"}
      <4>1. disorder' \in BOOLEAN
            BY <2>6, Zenon
      <4>2. sub' \in StripeStatus \ {"none"}
            BY <1>1, <2>3, <2>6
      <4>3. QED BY <4>1, <4>2
    <3>7. QED BY <1>1, <2>4, <2>6, <3>2, <3>3, <3>5, <3>6, PostKeeps
  <2>7. QED BY <2>3, <2>5, <2>6
<1>10. QED
       BY <1>2, <1>3, <1>4, <1>5, <1>6, <1>7, <1>8, <1>9 DEF Stripe

-----------------------------------------------------------------------------
(* The handlers                                                            *)

\* The rows are of their types.
Rows ==
    /\ completed \in BOOLEAN /\ isSub \in BOOLEAN
    /\ masters \in Seq(Master)
    /\ installments \in Seq(Installment)

\* One delivery goes on to what is fit for its event, or is over.
LEMMA CallKeeps ==
    ASSUME LedgerInv, NEW c \in Calls, NEW r \in Call, UNCHANGED stripe, Rows',
           call' = [call EXCEPT ![c] = r],
           r.pc = "idle" \/ (r.e \in DOMAIN posted /\ Fit(r.pc, posted[r.e])),
           answered' \subseteq DOMAIN posted, deaths' \in 0 .. MaxDeaths,
           upto' \in 0 .. Len(posted), disorder' \in BOOLEAN
    PROVE  LedgerInv'
<1>1. call \in [Calls -> Call]
      BY DEF LedgerInv, TypeOK
<1>2. call' \in [Calls -> Call] /\ call'[c] = r /\ \A x \in Calls \ {c} : call'[x] = call[x]
      BY <1>1
<1>3. Fits'
      BY <1>2 DEF LedgerInv, Fits, Running, EventOf, stripe
<1>4. PostedOK'
      BY DEF LedgerInv, PostedOK, Good, stripe
<1>5. TypeOK'
      BY <1>2 DEF LedgerInv, TypeOK, stripe, Rows
<1>6. QED BY <1>3, <1>4, <1>5 DEF LedgerInv

LEMMA GotoKeeps ==
    ASSUME LedgerInv, NEW c \in Calls, Running(c), NEW pc \in CallSteps, Goto(c, pc),
           Fit(pc, EventOf(c)), UNCHANGED <<stripe, upto, disorder>>, Rows'
    PROVE  LedgerInv'
<1> DEFINE r == [call[c] EXCEPT !.pc = pc]
<1>1. /\ call \in [Calls -> Call] /\ call[c].e \in DOMAIN posted
      /\ answered \subseteq DOMAIN posted /\ deaths \in 0 .. MaxDeaths
      /\ upto \in 0 .. Len(posted) /\ disorder \in BOOLEAN
      BY DEF LedgerInv, TypeOK, Fits
<1>2. r \in Call /\ r.pc = pc /\ r.e = call[c].e
      BY <1>1 DEF Call
<1>3. call' = [call EXCEPT ![c] = r] /\ answered' = answered /\ deaths' = deaths
      BY <1>1 DEF Goto
<1> HIDE DEF r
<1>4. Fit(r.pc, posted[r.e])
      BY <1>2 DEF EventOf
<1>5. UNCHANGED <<stripe, upto, disorder>>
      OBVIOUS
<1>6. QED BY <1>1, <1>2, <1>3, <1>4, <1>5, CallKeeps

LEMMA EndKeeps ==
    ASSUME LedgerInv, NEW c \in Calls, Running(c), End(c),
           UNCHANGED <<stripe, upto, disorder>>, Rows'
    PROVE  LedgerInv'
<1>1. /\ call[c].e \in DOMAIN posted
      /\ answered \subseteq DOMAIN posted /\ deaths \in 0 .. MaxDeaths
      /\ upto \in 0 .. Len(posted) /\ disorder \in BOOLEAN
      BY DEF LedgerInv, TypeOK, Fits
<1>2. NoCall \in Call /\ NoCall.pc = "idle"
      BY DEF NoCall, Call, CallSteps
<1>3. call' = [call EXCEPT ![c] = NoCall] /\ deaths' = deaths /\ answered' \subseteq DOMAIN posted
      BY <1>1 DEF End
<1>4. QED BY <1>1, <1>2, <1>3, CallKeeps

\* The status of one master is written.
LEMMA StatusType ==
    ASSUME masters \in Seq(Master), NEW m, NEW st \in {"active", "past_due", "canceled"},
           masters' = [masters EXCEPT ![m].status = st]
    PROVE  masters' \in Seq(Master)
<1>1. \A x \in DOMAIN masters : masters[x] \in Master
      OBVIOUS
<1>2. DOMAIN masters' = DOMAIN masters /\ DOMAIN masters = 1 .. Len(masters)
      OBVIOUS
<1>3. \A x \in DOMAIN masters : masters'[x] \in Master
      BY <1>1 DEF Master
<1>4. masters' \in [1 .. Len(masters) -> Master]
      BY <1>2, <1>3
<1>5. QED BY <1>4

\* An event arrives.
LEMMA DeliverKeeps ==
    ASSUME LedgerInv, NEW c \in Calls, NEW e \in EventId, Deliver(c, e)
    PROVE  LedgerInv'
<1> DEFINE type == posted[e].type
           pc   == IF type \in Opening /\ ~completed THEN "complete" ELSE First(type)
           r    == [NoCall EXCEPT !.e = e, !.pc = pc]
<1>1. e \in DOMAIN posted /\ posted[e] \in Event
      BY DEF Deliver, LedgerInv, PostedOK
<1>2. type \in Types
      BY <1>1 DEF Event
<1>3. pc \in CallSteps /\ Fit(pc, posted[e])
      BY <1>2 DEF First, Opening, Types, CallSteps, Fit, Reports
<1>4. call' = [call EXCEPT ![c] = r] /\ UNCHANGED <<stripe, ledger, answered, deaths>>
      BY DEF Deliver
<1> HIDE DEF pc
<1>5. r \in Call /\ r.e = e /\ r.pc = pc
      BY <1>3 DEF NoCall, Call
<1> HIDE DEF r
<1>6. disorder' \in BOOLEAN
      BY Zenon DEF Deliver
<1>7. upto' \in 0 .. Len(posted)
      BY <1>1 DEF Deliver, LedgerInv, TypeOK, EventId, PostedOK
<1>8. Rows'
      BY <1>4 DEF LedgerInv, TypeOK, Rows, ledger
<1>9. answered' \subseteq DOMAIN posted /\ deaths' \in 0 .. MaxDeaths
      BY <1>4 DEF LedgerInv, TypeOK
<1>10. QED BY <1>1, <1>3, <1>4, <1>5, <1>6, <1>7, <1>8, <1>9, CallKeeps

\* The process dies.
LEMMA CrashKeeps ==
    ASSUME LedgerInv, NEW c \in Calls, Crash(c)
    PROVE  LedgerInv'
<1>1. NoCall \in Call /\ NoCall.pc = "idle"
      BY DEF NoCall, Call, CallSteps
<1>2. call' = [call EXCEPT ![c] = NoCall] /\ deaths' = deaths + 1 /\ deaths < MaxDeaths
        /\ UNCHANGED <<stripe, ledger, answered, upto, disorder>>
      BY DEF Crash
<1>3. Rows'
      BY <1>2 DEF LedgerInv, TypeOK, Rows, ledger
<1>4. answered' \subseteq DOMAIN posted /\ deaths' \in 0 .. MaxDeaths /\ upto' \in 0 .. Len(posted)
        /\ disorder' \in BOOLEAN
      BY <1>2, StripeAssumption DEF LedgerInv, TypeOK
<1>5. QED BY <1>1, <1>2, <1>3, <1>4, CallKeeps

\* What a handler writes for an event fits the master row.
LEMMA ReportedType ==
    ASSUME NEW ev \in Event, Good(ev), ev.type \in Reports
    PROVE  Reported(ev) \in {"active", "past_due", "canceled"}
BY DEF Reports, Reported, Mapped, Good

\* The statements of the handlers keep the invariant.
LEMMA StepKeeps ==
    ASSUME LedgerInv, NEW c \in Calls, Step(c)
    PROVE  LedgerInv'
<1> DEFINE ev == EventOf(c)
<1>1. Running(c)
  <2>1. CASE CompleteDonation(c) \/ LoadOrder(c) \/ CheckEvent(c) \/ CheckInvoice(c)
        BY <2>1 DEF CompleteDonation, LoadOrder, CheckEvent, CheckInvoice, Running
  <2>2. CASE FindMaster(c)
        BY <2>2 DEF FindMaster, Running
  <2>3. CASE InsertMaster(c) \/ Acknowledge(c) \/ EnterInvoice(c) \/ Reactivate(c)
        BY <2>3 DEF InsertMaster, Acknowledge, EnterInvoice, Reactivate, Running
  <2>4. CASE UpdateMaster(c)
        BY <2>4 DEF UpdateMaster, Running
  <2>5. QED BY <2>1, <2>2, <2>3, <2>4 DEF Step
<1>2. call[c].e \in DOMAIN posted /\ Fit(call[c].pc, ev) /\ ev \in Event /\ Good(ev)
      BY <1>1 DEF LedgerInv, Fits, PostedOK, EventOf
<1>3. Rows /\ call \in [Calls -> Call]
      BY DEF LedgerInv, TypeOK, Rows
<1>4. call[c].e \in EventId
      BY <1>2, StripeAssumption DEF LedgerInv, PostedOK, EventId
<1>5. ASSUME NEW pc \in CallSteps, Goto(c, pc), Fit(pc, ev),
             UNCHANGED <<stripe, upto, disorder>>, Rows'
      PROVE  LedgerInv'
      BY <1>1, <1>5, GotoKeeps
<1>6. ASSUME End(c), UNCHANGED <<stripe, upto, disorder>>, Rows'
      PROVE  LedgerInv'
      BY <1>1, <1>6, EndKeeps
<1>7. UNCHANGED ledger => Rows'
      BY <1>3 DEF Rows, ledger
<1>8. ev.type \in Types /\ ev.inv \in Invoices \union {0}
      BY <1>2 DEF Event
<1>9. CASE CompleteDonation(c)
  <2>1. ev.type \in Opening
        BY <1>2, <1>9 DEF CompleteDonation, Fit
  <2>2. First(ev.type) \in CallSteps /\ Fit(First(ev.type), ev)
        BY <2>1 DEF Opening, First, CallSteps, Fit
  <2>3. Rows'
        BY <1>3, <1>9 DEF CompleteDonation, Rows
  <2>4. QED BY <1>5, <1>9, <2>2, <2>3 DEF CompleteDonation
<1>10. CASE LoadOrder(c)
  <2>1. "find" \in CallSteps /\ Fit("find", ev)
        BY DEF CallSteps, Fit
  <2>2. QED BY <1>5, <1>6, <1>7, <1>10, <2>1 DEF LoadOrder
<1>11. CASE CheckEvent(c)
  <2> DEFINE pc == CASE ev.type = "checkout.session.completed" -> "find"
                     [] ev.type = "payment_intent.succeeded"   -> "insert"
                     [] ev.type = "invoice.paid"               -> "acknowledge"
  <2>1. ev.type \in Opening \union {"invoice.paid"}
        BY <1>2, <1>11 DEF CheckEvent, Fit
  <2>2. pc \in CallSteps /\ Fit(pc, ev)
        BY <2>1 DEF Opening, CallSteps, Fit
  <2>3. (Goto(c, pc) \/ End(c)) /\ UNCHANGED <<stripe, ledger, upto, disorder>>
        BY <1>11 DEF CheckEvent
  <2> HIDE DEF pc
  <2>4. QED BY <1>5, <1>6, <1>7, <2>2, <2>3
<1>12. CASE CheckInvoice(c)
  <2>1. "find" \in CallSteps /\ Fit("find", ev)
        BY DEF CallSteps, Fit
  <2>2. QED BY <1>5, <1>6, <1>7, <1>12, <2>1 DEF CheckInvoice
<1>13. CASE FindMaster(c)
  <2>1. UNCHANGED <<stripe, ledger, upto, disorder>> /\ call[c].pc \in {"find", "refind"}
        BY <1>13 DEF FindMaster
  <2>2. ASSUME NEW m \in DOMAIN masters, WithMaster(c, m) PROVE LedgerInv'
    <3>1. CASE ev.type \in Opening
          BY <1>6, <1>7, <2>1, <2>2, <3>1 DEF WithMaster
    <3>2. CASE ev.type \notin Opening
      <4> DEFINE pc == AfterFound(ev)
                 r  == [call[c] EXCEPT !.m = m, !.pc = pc]
      <4>1. ev.type = "invoice.paid" => ev.inv = 1 \/ ev.inv > 1
            BY <1>2 DEF Good, Invoices
      <4>2. pc \in CallSteps /\ Fit(pc, ev)
            BY <1>8, <3>2, <4>1 DEF AfterFound, Opening, Types, CallSteps, Fit, Reports
      <4>3. call' = [call EXCEPT ![c].m = m, ![c].pc = pc] /\ UNCHANGED <<answered, deaths>>
            BY <2>2, <3>2 DEF WithMaster
      <4> HIDE DEF pc
      <4>4. m \in Nat
            BY <1>3 DEF Rows
      <4>5. r \in Call /\ r.pc = pc /\ r.e = call[c].e
            BY <1>3, <4>2, <4>4 DEF Call
      <4>6. call' = [call EXCEPT ![c] = r]
            BY <1>3, <4>3
      <4> HIDE DEF r
      <4>7. Fit(r.pc, posted[r.e]) /\ r.e \in DOMAIN posted
            BY <1>2, <4>2, <4>5 DEF EventOf
      <4>8. answered' \subseteq DOMAIN posted /\ deaths' \in 0 .. MaxDeaths
              /\ upto' \in 0 .. Len(posted) /\ disorder' \in BOOLEAN
            BY <2>1, <4>3 DEF LedgerInv, TypeOK
      <4>9. QED BY <1>7, <2>1, <4>5, <4>6, <4>7, <4>8, CallKeeps
    <3>3. QED BY <3>1, <3>2
  <2>3. ASSUME WithoutMaster(c) PROVE LedgerInv'
    <3> DEFINE next == AfterMissing(ev)
    <3>1. End(c) \/ (next # "end" /\ Goto(c, next))
          BY <2>3 DEF WithoutMaster
    <3>2. next # "end" => next \in CallSteps /\ Fit(next, ev)
          BY <1>8 DEF AfterMissing, Opening, Types, CallSteps, Fit
    <3> HIDE DEF next
    <3>3. QED BY <1>5, <1>6, <1>7, <2>1, <3>1, <3>2
  <2>4. QED BY <1>13, <2>2, <2>3 DEF FindMaster
<1>14. CASE InsertMaster(c)
  <2>1. UNCHANGED <<stripe, completed, isSub, installments, upto, disorder>>
        BY <1>14 DEF InsertMaster
  <2> DEFINE m == [status |-> "active", event |-> call[c].e]
  <2>2. m \in Master
        BY <1>4 DEF Master
  <2>3. masters' = masters \/ masters' = Append(masters, m)
        BY <1>14 DEF InsertMaster
  <2> HIDE DEF m
  <2>4. Rows'
        BY <1>3, <2>1, <2>2, <2>3 DEF Rows
  <2>5. End(c) \/ (ev.type \notin Opening /\ Goto(c, "refind"))
        BY <1>14 DEF InsertMaster
  <2>6. ev.type \notin Opening => Fit("refind", ev)
        BY <1>2, <1>14 DEF InsertMaster, Fit
  <2>7. "refind" \in CallSteps
        BY DEF CallSteps
  <2>8. QED BY <1>5, <1>6, <2>1, <2>4, <2>5, <2>6, <2>7
<1>15. CASE Acknowledge(c)
  <2>1. masters' \in Seq(Master)
        BY <1>3, <1>15, StatusType DEF Acknowledge, Rows
  <2>2. Rows'
        BY <1>3, <1>15, <2>1 DEF Acknowledge, Rows
  <2>3. QED BY <1>6, <1>15, <2>2 DEF Acknowledge
<1>16. CASE EnterInvoice(c)
  <2> DEFINE b == [inv |-> ev.inv, event |-> call[c].e]
  <2>1. ev.type = "invoice.paid" /\ ev.inv > 1
        BY <1>2, <1>16 DEF EnterInvoice, Fit
  <2>2. ev.inv \in Renewals
        BY <1>2, <2>1, StripeAssumption DEF Good, Invoices, Renewals
  <2>3. b \in Installment
        BY <1>4, <2>2 DEF Installment
  <2>4. /\ installments' = installments \/ installments' = Append(installments, b)
        /\ UNCHANGED <<stripe, completed, isSub, masters, upto, disorder>>
        /\ Goto(c, "reactivate") \/ End(c)
        BY <1>16 DEF EnterInvoice
  <2> HIDE DEF b
  <2>5. Rows'
        BY <1>3, <2>3, <2>4 DEF Rows
  <2>6. "reactivate" \in CallSteps /\ Fit("reactivate", ev)
        BY <2>1 DEF CallSteps, Fit
  <2>7. QED BY <1>5, <1>6, <2>4, <2>5, <2>6
<1>17. CASE Reactivate(c)
  <2>1. masters' \in Seq(Master)
        BY <1>3, <1>17, StatusType DEF Reactivate, Rows
  <2>2. Rows'
        BY <1>3, <1>17, <2>1 DEF Reactivate, Rows
  <2>3. QED BY <1>6, <1>17, <2>2 DEF Reactivate
<1>18. CASE UpdateMaster(c)
  <2>1. Reported(ev) \in {"active", "past_due", "canceled"}
        BY <1>2, <1>18, ReportedType DEF UpdateMaster, Fit
  <2>2. masters' \in Seq(Master)
        BY <1>3, <1>18, <2>1, StatusType DEF UpdateMaster, Rows
  <2>3. Rows'
        BY <1>3, <1>18, <2>2 DEF UpdateMaster, Rows
  <2>4. QED BY <1>6, <1>18, <2>3 DEF UpdateMaster
<1>19. QED
       BY <1>9, <1>10, <1>11, <1>12, <1>13, <1>14, <1>15, <1>16, <1>17, <1>18 DEF Step

\* The invariant holds at the start, and is kept.
LEMMA LedgerInit == Init => LedgerInv
<1> SUFFICES ASSUME Init PROVE LedgerInv
    OBVIOUS
<1>1. NoCall \in Call /\ NoCall.pc = "idle"
      BY DEF NoCall, Call, CallSteps
<1>2. call \in [Calls -> Call] /\ \A c \in Calls : call[c].pc = "idle"
      BY <1>1 DEF Init
<1>3. Fits
      BY <1>2 DEF Fits, Running
<1>4. installments \in Seq(Installment) /\ deaths \in 0 .. MaxDeaths /\ disorder \in BOOLEAN
  <2>1. installments = <<>> /\ deaths = 0 /\ disorder = FALSE
        BY DEF Init
  <2>2. <<>> \in Seq(Installment) /\ 0 \in 0 .. MaxDeaths
        BY StripeAssumption
  <2>3. disorder \in BOOLEAN
        BY <2>1, Zenon
  <2>4. QED BY <2>1, <2>2, <2>3
<1>5. CASE Fresh
  <2>1. PostedOK
        BY <1>5, StripeAssumption DEF Fresh, PostedOK
  <2>2. (mode = "embed") \in BOOLEAN
        OBVIOUS
  <2>3. isSub \in BOOLEAN
        BY <1>5, <2>2, Zenon DEF Fresh
  <2>4. TypeOK
        BY <1>2, <1>4, <1>5, <2>1, <2>3 DEF Fresh, TypeOK, StripeStatus, PostedOK
  <2>5. QED BY <1>3, <2>1, <2>4 DEF LedgerInv
<1>6. CASE Established
  <2> DEFINE a == On("invoice.paid", 1, "active")
             m == [status |-> "active", event |-> 1]
  <2>1. a \in Event /\ a.type = "invoice.paid" /\ a.inv = 1
        BY OnEvent DEF Types, StripeStatus
  <2>2. /\ mode = CHOOSE x \in Modes : TRUE
        /\ sub = "active" /\ invoice = [i \in Invoices |-> IF i = 1 THEN "paid" ELSE "none"]
        /\ posted = <<a>> /\ completed = TRUE /\ isSub = TRUE /\ masters = <<m>>
        /\ answered = {1} /\ upto = 1
        BY <1>6 DEF Established
  <2>3. MaxPosted >= 1
        BY StripeAssumption
  <2>4. m \in Master
        BY <2>3, StripeAssumption DEF Master, EventId
  <2> HIDE DEF a, m
  <2>5. posted \in Seq(Event) /\ Len(posted) = 1 /\ DOMAIN posted = {1} /\ posted[1] = a
        BY <2>1, <2>2
  <2>6. Good(a)
        BY <2>1, <2>2, OnEvent DEF Good
  <2>7. PostedOK
        BY <2>2, <2>3, <2>5, <2>6, StripeAssumption DEF PostedOK
  <2>8. masters \in Seq(Master) /\ mode \in Modes
        BY <2>2, <2>4, StripeAssumption
  <2>9. TypeOK
        BY <1>2, <1>4, <2>2, <2>5, <2>7, <2>8 DEF TypeOK, StripeStatus, PostedOK
  <2>10. QED BY <1>3, <2>7, <2>9 DEF LedgerInv
<1>7. QED BY <1>5, <1>6 DEF Init

LEMMA LedgerStep == LedgerInv /\ [Next]_vars => LedgerInv'
<1> SUFFICES ASSUME LedgerInv, [Next]_vars PROVE LedgerInv'
    OBVIOUS
<1>1. CASE UNCHANGED vars
      BY <1>1 DEF vars, stripe, ledger, calls, LedgerInv, TypeOK, PostedOK, Good, Fits, Running, EventOf
<1>2. QED BY <1>1, StripeKeeps, DeliverKeeps, StepKeeps, CrashKeeps DEF Next

\* Stripe posts sound events about a subscription that exists, and every handler is at a
\* statement that its event leads to (LedgerInv).
THEOREM LedgerKept == Spec => []LedgerInv
BY LedgerInit, LedgerStep, PTL DEF Spec

\* Every variable is of its type; in particular every status written to a master row
\* is one the ledger knows.
THEOREM LedgerTyped == Spec => []TypeOK
<1>1. LedgerInv => TypeOK
      BY DEF LedgerInv
<1>2. QED BY <1>1, LedgerKept, PTL

-----------------------------------------------------------------------------
(* The book of invoices                                                    *)

\* The renewals that are paid.
PaidRenewals == {i \in Renewals : invoice[i] = "paid"}

LEMMA BookInit == Init => Book!Init
<1> SUFFICES ASSUME Init PROVE PaidRenewals = {} /\ installments = <<>>
    BY DEF Book!Init, PaidRenewals
<1>1. \A i \in Renewals : invoice[i] = "none"
  <2>1. \A i \in Renewals : i \in Invoices /\ i # 1
        BY StripeAssumption DEF Renewals, Invoices
  <2>2. CASE Fresh
        BY <2>1, <2>2 DEF Fresh
  <2>3. CASE Established
        BY <2>1, <2>3 DEF Established
  <2>4. QED BY <2>2, <2>3 DEF Init
<1>2. QED BY <1>1 DEF PaidRenewals, Init

\* A payment is a payment in the book.
LEMMA InvoicePaid ==
    ASSUME TypeOK, NEW i \in Invoices, NEW st \in {"open", "paid"}, st = "paid" \/ invoice[i] # "paid",
           invoice' = [invoice EXCEPT ![i] = st], installments' = installments
    PROVE  [Book!Next]_(Book!vars)
<1>1. invoice'[i] = st /\ \A j \in Invoices \ {i} : invoice'[j] = invoice[j]
      BY DEF TypeOK
<1>2. Renewals \subseteq Invoices
      BY StripeAssumption DEF Renewals, Invoices
<1>3. CASE i \in Renewals /\ st = "paid"
  <2>1. PaidRenewals' = PaidRenewals \union {i}
        BY <1>1, <1>2, <1>3 DEF PaidRenewals
  <2>2. Book!PayInvoice(i)
        BY <2>1 DEF Book!PayInvoice, PaidRenewals
  <2>3. QED BY <1>3, <2>2 DEF Book!Next
<1>4. CASE ~(i \in Renewals /\ st = "paid")
  <2>1. PaidRenewals' = PaidRenewals
        BY <1>1, <1>2, <1>4 DEF PaidRenewals
  <2>2. QED BY <2>1 DEF Book!vars, PaidRenewals
<1>5. QED BY <1>3, <1>4

\* A step of Stripe, or of a handler, is a step of the book.
LEMMA BookStep == LedgerInv /\ [Next]_vars => [Book!Next]_(Book!vars)
<1> SUFFICES ASSUME LedgerInv, [Next]_vars PROVE [Book!Next]_(Book!vars)
    OBVIOUS
<1>1. TypeOK /\ 1 \in Invoices
      BY OnEvent DEF LedgerInv
<1>2. ASSUME invoice' = invoice, installments' = installments
      PROVE  [Book!Next]_(Book!vars)
      BY <1>2 DEF Book!vars
<1>3. CASE Stripe
  <2>1. installments' = installments
        BY <1>3 DEF Stripe, CheckOut, Subscribe, PayFirst, GiveUp, Cancel, Renew, Decline, PayLate,
           Post, ledger
  <2>2. CASE GiveUp \/ Cancel
        BY <1>2, <2>1, <2>2 DEF GiveUp, Cancel
  <2>3. CASE CheckOut \/ PayFirst
        BY <1>1, <2>1, <2>3, InvoicePaid DEF CheckOut, PayFirst
  <2>4. CASE Subscribe
    <3>1. invoice[1] = "none" /\ invoice' = [invoice EXCEPT ![1] = "open"]
          BY <1>1, <2>4 DEF Subscribe, LedgerInv, PostedOK
    <3>2. QED BY <1>1, <2>1, <3>1, InvoicePaid
  <2>5. ASSUME NEW i \in Invoices, Renew(i) \/ PayLate(i) PROVE [Book!Next]_(Book!vars)
    <3>1. invoice' = [invoice EXCEPT ![i] = "paid"]
          BY <2>5 DEF Renew, PayLate
    <3>2. QED BY <1>1, <2>1, <3>1, InvoicePaid
  <2>6. ASSUME NEW i \in Invoices, Decline(i) PROVE [Book!Next]_(Book!vars)
    <3>1. invoice[i] = "none" /\ invoice' = [invoice EXCEPT ![i] = "open"]
          BY <2>6 DEF Decline, Due
    <3>2. QED BY <1>1, <2>1, <3>1, InvoicePaid
  <2>7. QED BY <1>3, <2>2, <2>3, <2>4, <2>5, <2>6 DEF Stripe
<1>4. ASSUME NEW c \in Calls, EnterInvoice(c) PROVE [Book!Next]_(Book!vars)
  <2> DEFINE i == EventOf(c).inv
             e == call[c].e
  <2>1. invoice' = invoice /\ call[c].pc = "enter"
        BY <1>4 DEF EnterInvoice, stripe
  <2>2. e \in DOMAIN posted /\ Fit("enter", EventOf(c)) /\ Good(EventOf(c))
        BY <2>1 DEF LedgerInv, Fits, PostedOK, Running, EventOf
  <2>3. i \in Renewals /\ i \in PaidRenewals
        BY <2>2, StripeAssumption DEF Fit, Good, Invoices, Renewals, PaidRenewals
  <2>4. e \in EventId
        BY <2>2, StripeAssumption DEF LedgerInv, PostedOK, EventId
  <2>5. CASE Free(i, e)
    <3>1. installments' = Append(installments, [inv |-> i, event |-> e])
          BY <1>4, <2>5 DEF EnterInvoice
    <3>2. \A b \in DOMAIN installments : installments[b].inv # i
          BY <2>5 DEF Free, Entered
    <3>3. PaidRenewals' = PaidRenewals
          BY <2>1 DEF PaidRenewals
    <3>4. Book!Enter(i, e)
          BY <2>3, <3>1, <3>2, <3>3 DEF Book!Enter, PaidRenewals
    <3>5. QED BY <2>3, <2>4, <3>4 DEF Book!Next
  <2>6. CASE ~Free(i, e)
        BY <1>2, <1>4, <2>1, <2>6 DEF EnterInvoice
  <2>7. QED BY <2>5, <2>6
<1>5. ASSUME NEW c \in Calls, Step(c) PROVE [Book!Next]_(Book!vars)
  <2>1. CASE EnterInvoice(c)
        BY <1>4, <2>1
  <2>2. CASE ~EnterInvoice(c)
    <3>1. invoice' = invoice /\ installments' = installments
          BY <1>5, <2>2 DEF Step, CompleteDonation, LoadOrder, CheckEvent, CheckInvoice, FindMaster,
             InsertMaster, Acknowledge, Reactivate, UpdateMaster, stripe, ledger
    <3>2. QED BY <1>2, <3>1
  <2>3. QED BY <2>1, <2>2
<1>6. ASSUME NEW c \in Calls, NEW e, Deliver(c, e) \/ Crash(c) PROVE [Book!Next]_(Book!vars)
      BY <1>2, <1>6 DEF Deliver, Crash, stripe, ledger
<1>7. CASE UNCHANGED vars
      BY <1>2, <1>7 DEF vars, stripe, ledger
<1>8. QED BY <1>3, <1>5, <1>6, <1>7 DEF Next

\* The installments are a book of the paid renewals: an invoice is entered once, after
\* it was paid, and stays as it was entered, in whatever order events come, however
\* often, and wherever the process dies.
THEOREM LedgerKeepsBook == Spec => KeepsBook
BY BookInit, BookStep, LedgerKept, PTL DEF Spec, KeepsBook, Book!Spec
-----------------------------------------------------------------------------
(* One row and its status                                                  *)

(***************************************************************************)
(* That the events come in order is of use only because of what is posted: *)
(* the last event has the status Stripe has, an invoice is reported paid   *)
(* once, and nothing but activity is reported up to an opening event       *)
(* (Story).  In order, one delivery runs at a time (Serial), and the rows  *)
(* hold earlier events than its own until it writes them itself (OneRow).  *)
(* Then a statement knows the status of the row it is about to change      *)
(* (Following): that of the event before, or the one it has just inserted. *)
(***************************************************************************)

\* What is posted.
Story ==
    /\ posted = <<>> => sub \in {"none", "incomplete"} /\ \A i \in Renewals : invoice[i] = "none"
    /\ posted # <<>> => sub \notin {"none", "incomplete"} /\ posted[Len(posted)].status = sub
    /\ \A e \in DOMAIN posted :
          /\ posted[e].type = "invoice.payment_failed" => posted[e].status = "past_due"
          /\ posted[e].type = "customer.subscription.deleted" => posted[e].status = "canceled"
          /\ posted[e].type = "invoice.paid" /\ ~disorder => posted[e].status = "active"
          /\ posted[e].type \in Opening => \A d \in 1 .. e : posted[d].status = "active"
    /\ \A d, e \in DOMAIN posted :
          /\ posted[d].type = "invoice.paid" /\ posted[e].type = "invoice.paid"
          /\ posted[d].inv = posted[e].inv
          => d = e

\* Deliveries in order are handled one by one.
Serial == ~disorder =>
    /\ \A c, d \in Calls : Running(c) /\ Running(d) => c = d
    /\ \A c \in Calls : Running(c) => call[c].e = upto

\* An installment holds the event that reported its invoice paid.
FromEvents == \A r \in DOMAIN installments :
    /\ installments[r].event \in DOMAIN posted
    /\ posted[installments[r].event].type = "invoice.paid"
    /\ posted[installments[r].event].inv = installments[r].inv

\* Only "reactivate" comes after the call has entered its own invoice.
OneRow == ~disorder =>
    /\ Len(masters) <= 1
    /\ \A m \in DOMAIN masters : masters[m].event <= upto
    /\ \A r \in DOMAIN installments : installments[r].event <= upto
    /\ \A c \in Calls :
          /\ Running(c) /\ call[c].pc # "reactivate" =>
                \A r \in DOMAIN installments : installments[r].event < upto
          /\ call[c].pc = "insert" => masters = <<>>
          /\ call[c].pc = "event" /\ EventOf(c).type = "payment_intent.succeeded" => masters = <<>>

AllAre(status) == \A m \in DOMAIN masters : masters[m].status = status

\* The masters are as the events before e have left them.
Before(e) ==
    /\ \A m \in DOMAIN masters : masters[m].event < e
    /\ masters # <<>> => AllAre(Mapped(posted[e - 1].status))

\* A call a that runs alone.
Follows(a) ==
    /\ \/ a.pc \in {"complete", "order", "invoice", "find"}
       \/ a.pc = "event" /\ posted[a.e].type \in Opening
       => Before(a.e)
    /\ a.pc \in {"event", "enter"} /\ posted[a.e].type = "invoice.paid" =>
          /\ a.m \in DOMAIN masters
          /\ Processed(a.e) => AllAre("active")
    /\ a.pc = "refind" => AllAre("active")
    /\ a.pc \in {"acknowledge", "reactivate", "update"} => a.m \in DOMAIN masters

Following == ~disorder /\ deaths = 0 =>
    /\ Quiet /\ masters # <<>> => AllAre(Mapped(posted[upto].status))
    /\ \A c \in Calls : Running(c) => Follows(call[c])

RowInv == LedgerInv /\ Story /\ FromEvents /\ Serial /\ OneRow /\ Following

\* Stripe tells on, and what it told before stays.
LEMMA StoryPost ==
    ASSUME LedgerInv, Story, NEW events \in Seq(Event), events # <<>>, Post(events),
           disorder => disorder', sub' \notin {"none", "incomplete"},
           events[Len(events)].status = sub',
           \A k \in DOMAIN events :
              /\ events[k].type = "invoice.payment_failed" => events[k].status = "past_due"
              /\ events[k].type = "customer.subscription.deleted" => events[k].status = "canceled"
              /\ events[k].type = "invoice.paid" => /\ ~disorder' => events[k].status = "active"
                                                    /\ posted = <<>> \/ invoice[events[k].inv] # "paid"
              /\ events[k].type \in Opening => posted = <<>> /\ \A j \in 1 .. k : events[j].status = "active",
           \A j, k \in DOMAIN events :
              events[j].type = "invoice.paid" /\ events[k].type = "invoice.paid" => j = k
    PROVE  Story'
<1> DEFINE n == Len(posted)
<1>1. posted \in Seq(Event) /\ posted' = posted \o events
      BY DEF LedgerInv, PostedOK, Post
<1>2. /\ n \in Nat /\ Len(events) \in Nat \ {0} /\ posted' \in Seq(Event)
      /\ DOMAIN posted = 1 .. n /\ DOMAIN events = 1 .. Len(events)
      /\ Len(posted') = n + Len(events) /\ DOMAIN posted' = 1 .. n + Len(events)
      /\ \A e \in 1 .. n : posted'[e] = posted[e]
      /\ \A e \in n + 1 .. n + Len(events) : posted'[e] = events[e - n]
      BY <1>1
<1> HIDE DEF n
<1>3. posted' # <<>> /\ posted'[Len(posted')].status = sub'
  <2>1. n + Len(events) \in n + 1 .. n + Len(events) /\ (n + Len(events)) - n = Len(events)
        BY <1>2
  <2>2. posted'[Len(posted')] = events[Len(events)] /\ Len(posted') # 0
        BY <1>2, <2>1
  <2>3. QED BY <2>2
<1>4. \A e \in DOMAIN posted' : e \in 1 .. n \/ (e \in n + 1 .. n + Len(events) /\ e - n \in DOMAIN events)
      BY <1>2
<1>5. ASSUME NEW e \in DOMAIN posted'
      PROVE  /\ posted'[e].type = "invoice.payment_failed" => posted'[e].status = "past_due"
             /\ posted'[e].type = "customer.subscription.deleted" => posted'[e].status = "canceled"
             /\ posted'[e].type = "invoice.paid" /\ ~disorder' => posted'[e].status = "active"
             /\ posted'[e].type \in Opening => \A d \in 1 .. e : posted'[d].status = "active"
  <2>1. CASE e \in 1 .. n
    <3>1. \A d \in 1 .. e : d \in 1 .. n
          BY <1>2, <2>1
    <3>2. QED BY <1>2, <2>1, <3>1 DEF Story
  <2>2. CASE e \in n + 1 .. n + Len(events) /\ e - n \in DOMAIN events
    <3> DEFINE k == e - n
    <3>1. posted'[e] = events[k]
          BY <1>2, <2>2
    <3>2. posted = <<>> => n = 0
          BY DEF n
    <3>3. n = 0 => \A d \in 1 .. e : posted'[d] = events[d] /\ d \in 1 .. k
          BY <1>2, <2>2
    <3>4. events[k].type \in Opening => \A d \in 1 .. e : posted'[d].status = "active"
          BY <2>2, <3>2, <3>3
    <3>5. QED BY <2>2, <3>1, <3>4
  <2>3. QED BY <1>4, <2>1, <2>2
<1>6. ASSUME NEW d \in DOMAIN posted', NEW e \in DOMAIN posted',
             posted'[d].type = "invoice.paid", posted'[e].type = "invoice.paid",
             posted'[d].inv = posted'[e].inv
      PROVE  d = e
  <2>1. ASSUME NEW x \in 1 .. n, NEW y \in n + 1 .. n + Len(events), y - n \in DOMAIN events,
               posted'[x].type = "invoice.paid", posted'[y].type = "invoice.paid"
        PROVE  posted'[x].inv # posted'[y].inv
    <3>0. posted'[x] = posted[x] /\ x \in DOMAIN posted
          BY <1>2, <2>1
    <3>1. invoice[posted[x].inv] = "paid"
      <4>1. Good(posted[x])
            BY <3>0 DEF LedgerInv, PostedOK
      <4>2. QED BY <2>1, <3>0, <4>1 DEF Good
    <3>2. invoice[events[y - n].inv] # "paid" /\ posted'[y] = events[y - n]
      <4>1. posted # <<>>
            BY <3>0
      <4>2. QED BY <1>2, <2>1, <4>1
    <3>3. QED BY <3>0, <3>1, <3>2
  <2>2. CASE d \in 1 .. n /\ e \in 1 .. n
        BY <1>2, <1>6, <2>2 DEF Story
  <2>3. CASE ~(d \in 1 .. n) /\ ~(e \in 1 .. n)
    <3>1. d - n = e - n
      <4>1. d - n \in DOMAIN events /\ e - n \in DOMAIN events
              /\ posted'[d] = events[d - n] /\ posted'[e] = events[e - n]
            BY <1>2, <1>4, <2>3
      <4>2. QED BY <1>6, <4>1
    <3>2. QED BY <1>2, <3>1
  <2>4. QED BY <1>4, <1>6, <2>1, <2>2, <2>3
<1>7. QED BY <1>3, <1>5, <1>6 DEF Story

\* After the first payment: a report that is not of an opening, and perhaps an update.
LEMMA StoryShort ==
    ASSUME LedgerInv, Story, NEW a \in Event, NEW b \in Event, NEW events \in {<<a>>, <<a, b>>},
           Post(events), disorder => disorder', sub' \notin {"none", "incomplete"},
           a.status = sub', b.status = sub', b.type = "customer.subscription.updated",
           a.type \notin Opening,
           a.type = "invoice.payment_failed" => a.status = "past_due",
           a.type = "customer.subscription.deleted" => a.status = "canceled",
           a.type = "invoice.paid" => /\ ~disorder' => a.status = "active"
                                      /\ invoice[a.inv] # "paid"
    PROVE  Story'
<1>1. /\ events \in Seq(Event) /\ events # <<>> /\ DOMAIN events \in {{1}, {1, 2}}
      /\ events[1] = a /\ (2 \in DOMAIN events => events[2] = b)
      /\ Len(events) \in DOMAIN events
  <2>1. CASE events = <<a>>
        BY <2>1
  <2>2. CASE events = <<a, b>>
        BY <2>2
  <2>3. QED BY <2>1, <2>2
<1>2. \A k \in DOMAIN events : events[k] \in {a, b} /\ (events[k].type = "invoice.paid" => k = 1)
      BY <1>1
<1>3. \A j, k \in DOMAIN events :
        events[j].type = "invoice.paid" /\ events[k].type = "invoice.paid" => j = k
      BY <1>2
<1>4. \A k \in DOMAIN events :
        /\ events[k].type = "invoice.payment_failed" => events[k].status = "past_due"
        /\ events[k].type = "customer.subscription.deleted" => events[k].status = "canceled"
        /\ events[k].type = "invoice.paid" => /\ ~disorder' => events[k].status = "active"
                                              /\ posted = <<>> \/ invoice[events[k].inv] # "paid"
        /\ events[k].type \in Opening => posted = <<>> /\ \A j \in 1 .. k : events[j].status = "active"
      BY <1>2 DEF Opening
<1>5. events[Len(events)].status = sub'
      BY <1>1, <1>2
<1>6. QED BY <1>1, <1>3, <1>4, <1>5, StoryPost

\* What Stripe does keeps to the story.
LEMMA StoryStripe ==
    ASSUME LedgerInv, Story, Stripe
    PROVE  Story' /\ (disorder => disorder')
<1>2. \A type \in Types, i \in Invoices \union {0}, st \in StripeStatus :
          /\ On(type, i, st) \in Event
          /\ On(type, i, st).type = type /\ On(type, i, st).inv = i /\ On(type, i, st).status = st
      BY OnEvent
<1>3. 1 \in Invoices
      BY OnEvent
<1>4. posted = <<>> => sub \in {"none", "incomplete"}
      BY DEF Story
<1>5. posted # <<>> => sub \notin {"none", "incomplete"}
      BY DEF Story
<1>6. sub \in StripeStatus
      BY DEF LedgerInv, TypeOK
<1>7. CASE CheckOut
  <2> DEFINE a == On("checkout.session.completed", 0, "active")
             b == On("invoice.paid", 1, "active")
  <2>1. a \in Event /\ b \in Event /\ a.type = "checkout.session.completed" /\ a.status = "active"
          /\ b.type = "invoice.paid" /\ b.inv = 1 /\ b.status = "active"
        BY <1>2, <1>3 DEF Types, StripeStatus
  <2>2. sub = "none" /\ sub' = "active" /\ disorder' = disorder /\ (Post(<<a, b>>) \/ Post(<<b, a>>))
        BY <1>7 DEF CheckOut
  <2>3. posted = <<>>
        BY <1>5, <2>2
  <2> HIDE DEF a, b
  <2>4. PICK events \in {<<a, b>>, <<b, a>>} : Post(events)
        BY <2>2
  <2>5. /\ events \in Seq(Event) /\ Len(events) = 2 /\ DOMAIN events = {1, 2} /\ events # <<>>
        /\ (events[1] = a /\ events[2] = b) \/ (events[1] = b /\ events[2] = a)
    <3>1. CASE events = <<a, b>>
          BY <2>1, <3>1
    <3>2. CASE events = <<b, a>>
          BY <2>1, <3>2
    <3>3. QED BY <2>4, <3>1, <3>2
  <2>6. /\ \A k \in DOMAIN events : events[k].status = "active" /\ events[k] \in {a, b}
        /\ \A j, k \in DOMAIN events : events[j] = events[k] => j = k
        BY <2>1, <2>5
  <2>7. \A k \in DOMAIN events : \A j \in 1 .. k : events[j].status = "active"
        BY <2>5, <2>6
  <2>8. \A k \in DOMAIN events :
          /\ events[k].type = "invoice.payment_failed" => events[k].status = "past_due"
          /\ events[k].type = "customer.subscription.deleted" => events[k].status = "canceled"
          /\ events[k].type = "invoice.paid" => /\ ~disorder' => events[k].status = "active"
                                                /\ posted = <<>> \/ invoice[events[k].inv] # "paid"
          /\ events[k].type \in Opening => posted = <<>> /\ \A j \in 1 .. k : events[j].status = "active"
        BY <2>1, <2>3, <2>6, <2>7
  <2>9. \A j, k \in DOMAIN events :
          events[j].type = "invoice.paid" /\ events[k].type = "invoice.paid" => j = k
        BY <2>1, <2>6
  <2>10. events[Len(events)].status = sub' /\ sub' \notin {"none", "incomplete"}
        BY <2>2, <2>5, <2>6
  <2>11. QED BY <2>2, <2>4, <2>5, <2>8, <2>9, <2>10, StoryPost
<1>8. CASE Subscribe
  <2>1. sub = "none" /\ sub' = "incomplete" /\ disorder' = disorder /\ posted' = posted \o <<>>
        BY <1>8 DEF Subscribe, Post
  <2>2. posted = <<>>
        BY <1>5, <2>1
  <2>3. posted' = <<>> /\ DOMAIN <<>> = {}
        BY <2>1, <2>2
  <2>4. \A i \in Renewals : invoice'[i] = invoice[i]
    <3>1. invoice' = [invoice EXCEPT ![1] = "open"] /\ \A i \in Renewals : i # 1
          BY <1>8, StripeAssumption DEF Subscribe, Renewals
    <3>2. QED BY <3>1
  <2>5. QED BY <2>1, <2>2, <2>3, <2>4 DEF Story
<1>9. CASE PayFirst
  <2> DEFINE a == On("payment_intent.succeeded", 0, "active")
             b == On("invoice.paid", 1, "active")
             d == Updated("active")
             events == <<a, b, d>>
  <2>1. a \in Event /\ b \in Event /\ d \in Event
          /\ a.type = "payment_intent.succeeded" /\ a.status = "active"
          /\ b.type = "invoice.paid" /\ b.inv = 1 /\ b.status = "active"
          /\ d.type = "customer.subscription.updated" /\ d.status = "active"
        BY <1>2, <1>3 DEF Types, StripeStatus, Updated
  <2>2. sub = "incomplete" /\ sub' = "active" /\ disorder' = disorder /\ Post(events)
        BY <1>9 DEF PayFirst
  <2>3. posted = <<>>
        BY <1>5, <2>2
  <2> HIDE DEF a, b, d
  <2>5. /\ events \in Seq(Event) /\ Len(events) = 3 /\ DOMAIN events = {1, 2, 3} /\ events # <<>>
        /\ events[1] = a /\ events[2] = b /\ events[3] = d
        BY <2>1
  <2> HIDE DEF events
  <2>6. \A k \in DOMAIN events : events[k].status = "active" /\ \A j \in 1 .. k : events[j].status = "active"
    <3>1. events[1].status = "active" /\ events[2].status = "active" /\ events[3].status = "active"
          BY <2>1, <2>5
    <3>2. \A k \in DOMAIN events : \A j \in 1 .. k : j \in DOMAIN events
          BY <2>5
    <3>3. QED BY <2>5, <3>1, <3>2
  <2>8. \A k \in DOMAIN events :
          /\ events[k].type = "invoice.payment_failed" => events[k].status = "past_due"
          /\ events[k].type = "customer.subscription.deleted" => events[k].status = "canceled"
          /\ events[k].type = "invoice.paid" => /\ ~disorder' => events[k].status = "active"
                                                /\ posted = <<>> \/ invoice[events[k].inv] # "paid"
          /\ events[k].type \in Opening => posted = <<>> /\ \A j \in 1 .. k : events[j].status = "active"
        BY <2>1, <2>3, <2>5, <2>6 DEF Opening
  <2>9. \A j, k \in DOMAIN events :
          events[j].type = "invoice.paid" /\ events[k].type = "invoice.paid" => j = k
        BY <2>1, <2>5
  <2>10. events[Len(events)].status = sub' /\ sub' \notin {"none", "incomplete"}
        BY <2>2, <2>5, <2>6
  <2>11. QED BY <2>2, <2>5, <2>8, <2>9, <2>10, StoryPost
<1>10. \A st \in {"active", "past_due", "unpaid"} :
          /\ Updated(st) \in Event /\ Updated(st).type = "customer.subscription.updated"
          /\ Updated(st).status = st
       BY <1>2 DEF Updated, Types, StripeStatus
<1>11. ASSUME NEW i \in Invoices, Renew(i) \/ PayLate(i) PROVE Story' /\ (disorder => disorder')
  <2>1. PICK st \in StripeStatus : sub' = st
    <3>1. sub' \in StripeStatus
          BY <1>6, <1>11 DEF Renew, PayLate, StripeStatus
    <3>2. QED BY <3>1
  <2> DEFINE a == On("invoice.paid", i, st)
             b == Updated("active")
  <2>2. a \in Event /\ a.type = "invoice.paid" /\ a.inv = i /\ a.status = st
        BY <1>2 DEF Types
  <2>3. invoice[i] # "paid"
        BY <1>11 DEF Renew, Due, PayLate
  <2>4. \/ st = "active" /\ disorder' = disorder /\ (Post(<<a>>) \/ Post(<<a, b>>))
        \/ st = sub /\ disorder' = (disorder \/ sub # "active") /\ Post(<<a>>)
    <3>1. CASE Renew(i)
          BY <2>1, <3>1 DEF Renew
    <3>2. CASE PayLate(i)
          BY <2>1, <3>2 DEF PayLate
    <3>3. QED BY <1>11, <3>1, <3>2
  <2> HIDE DEF a
  <2>5. a.type \notin Opening /\ (disorder => disorder') /\ (~disorder' => st = "active")
    <3>1. a.type \notin Opening
          BY <2>2 DEF Opening
    <3>2. CASE st = "active" /\ disorder' = disorder
          BY <3>1, <3>2
    <3>3. CASE st = sub /\ disorder' = (disorder \/ sub # "active")
      <4>1. (disorder => disorder') /\ (~disorder' => sub = "active")
            BY <3>3, Zenon
      <4>2. QED BY <3>1, <3>3, <4>1
    <3>4. QED BY <2>4, <3>2, <3>3
  <2>6. st \notin {"none", "incomplete"}
    <3>1. CASE Renew(i)
          BY <2>1, <3>1 DEF Renew
    <3>2. CASE PayLate(i)
      <4>1. posted # <<>>
        <5>1. invoice[i] = "open" /\ i \in Renewals
              BY <3>2 DEF PayLate, Invoices, Renewals
        <5>2. QED BY <5>1 DEF Story
      <4>2. st = "active" \/ st = sub
            BY <2>4
      <4>3. QED BY <1>5, <4>1, <4>2
    <3>3. QED BY <1>11, <3>1, <3>2
  <2>7. CASE st = "active" /\ (Post(<<a>>) \/ Post(<<a, b>>))
    <3>1. PICK events \in {<<a>>, <<a, b>>} : Post(events)
          BY <2>7
    <3>2. b \in Event /\ b.type = "customer.subscription.updated" /\ b.status = "active"
          BY <1>10
    <3> HIDE DEF b
    <3>3. Story'
          BY <2>1, <2>2, <2>3, <2>5, <2>6, <2>7, <3>1, <3>2, StoryShort
    <3>4. QED BY <2>5, <3>3
  <2>8. CASE Post(<<a>>)
    <3> DEFINE d == On("customer.subscription.updated", 0, st)
    <3>1. d \in Event /\ d.type = "customer.subscription.updated" /\ d.status = st
          BY <1>2, <2>1 DEF Types
    <3> HIDE DEF d
    <3>2. Story'
          BY <2>1, <2>2, <2>3, <2>5, <2>6, <2>8, <3>1, StoryShort
    <3>3. QED BY <2>5, <3>2
  <2>9. QED BY <2>4, <2>7, <2>8
<1>12. ASSUME NEW i \in Invoices, Decline(i) PROVE Story' /\ (disorder => disorder')
  <2> DEFINE a == On("invoice.payment_failed", i, "past_due")
             b == Updated("past_due")
  <2>1. a \in Event /\ a.type = "invoice.payment_failed" /\ a.status = "past_due"
        BY <1>2 DEF Types, StripeStatus
  <2>2. sub' = "past_due" /\ disorder' = disorder /\ Post(<<a, b>>)
        BY <1>12 DEF Decline
  <2>3. b \in Event /\ b.type = "customer.subscription.updated" /\ b.status = "past_due"
        BY <1>10
  <2> HIDE DEF a, b
  <2>4. a.type \notin Opening
        BY <2>1 DEF Opening
  <2>5. Story'
        BY <2>1, <2>2, <2>3, <2>4, StoryShort
  <2>6. QED BY <2>2, <2>5
<1>13. CASE GiveUp
  <2> DEFINE a == Updated("unpaid")
  <2>1. sub' = "unpaid" /\ disorder' = disorder /\ Post(<<a>>)
        BY <1>13 DEF GiveUp
  <2>2. a \in Event /\ a.type = "customer.subscription.updated" /\ a.status = "unpaid"
        BY <1>10
  <2> HIDE DEF a
  <2>3. a.type \notin Opening
        BY <2>2 DEF Opening
  <2>4. Story'
        BY <2>1, <2>2, <2>3, StoryShort
  <2>5. QED BY <2>1, <2>4
<1>14. CASE Cancel
  <2> DEFINE a == On("customer.subscription.deleted", 0, "canceled")
             b == On("customer.subscription.updated", 0, "canceled")
  <2>1. sub' = "canceled" /\ disorder' = disorder /\ Post(<<a>>)
        BY <1>14 DEF Cancel
  <2>2. a \in Event /\ a.type = "customer.subscription.deleted" /\ a.status = "canceled"
          /\ b \in Event /\ b.type = "customer.subscription.updated" /\ b.status = "canceled"
        BY <1>2 DEF Types, StripeStatus
  <2> HIDE DEF a, b
  <2>3. a.type \notin Opening
        BY <2>2 DEF Opening
  <2>4. Story'
        BY <2>1, <2>2, <2>3, StoryShort
  <2>5. QED BY <2>1, <2>4
<1>15. QED
       BY <1>7, <1>8, <1>9, <1>11, <1>12, <1>13, <1>14 DEF Stripe

\* No event is added by the handlers.
LEMMA StoryStays ==
    ASSUME Story, UNCHANGED stripe, disorder => disorder'
    PROVE  Story'
BY DEF Story, stripe

LEMMA SerialQuiet ==
    ASSUME RowInv, ~disorder, NEW c \in Calls, Running(c)
    PROVE  call[c].e = upto /\ \A d \in Calls \ {c} : ~Running(d)
BY DEF RowInv, Serial

\* A delivery in order has gone on to a; the others are idle.
LEMMA AloneKeeps ==
    ASSUME RowInv, NEW c \in Calls, NEW a, call' = [call EXCEPT ![c] = a],
           \A d \in Calls \ {c} : ~Running(d),
           a.pc # "idle" => a.e = upto',
           Len(masters') <= 1,
           \A m \in DOMAIN masters' : masters'[m].event <= upto',
           \A r \in DOMAIN installments' : installments'[r].event <= upto',
           a.pc \notin {"idle", "reactivate"} =>
              \A r \in DOMAIN installments' : installments'[r].event < upto',
           a.pc = "insert" => masters' = <<>>,
           a.pc = "event" /\ posted'[a.e].type = "payment_intent.succeeded" => masters' = <<>>,
           deaths' = 0 =>
              /\ a.pc = "idle" /\ masters' # <<>> => AllAre(Mapped(posted[upto].status))'
              /\ a.pc # "idle" => Follows(a)'
    PROVE  Serial' /\ OneRow' /\ Following'
<1>1. call \in [Calls -> Call]
      BY DEF RowInv, LedgerInv, TypeOK
<1>2. call'[c] = a /\ \A d \in Calls \ {c} : call'[d] = call[d] /\ call[d].pc = "idle"
      BY <1>1 DEF Running
<1>3. /\ Running(c)' <=> a.pc # "idle"
      /\ \A d \in Calls : Running(d)' => d = c
      BY <1>2 DEF Running
<1>4. Serial'
      BY <1>2, <1>3 DEF Serial
<1>5. EventOf(c)' = posted'[a.e]
      BY <1>2 DEF EventOf
<1>6. OneRow'
  <2>1. ASSUME NEW d \in Calls
        PROVE  /\ Running(d)' /\ call'[d].pc # "reactivate" =>
                     \A r \in DOMAIN installments' : installments'[r].event < upto'
               /\ call'[d].pc = "insert" => masters' = <<>>
               /\ call'[d].pc = "event" /\ EventOf(d)'.type = "payment_intent.succeeded" => masters' = <<>>
    <3>1. CASE d = c
          BY <1>2, <1>3, <1>5, <3>1
    <3>2. CASE d # c
          BY <1>2, <1>3, <3>2
    <3>3. QED BY <3>1, <3>2
  <2>2. QED BY <2>1 DEF OneRow
<1>7. Following'
  <2> SUFFICES ASSUME deaths' = 0
               PROVE  /\ Quiet' /\ masters' # <<>> => AllAre(Mapped(posted[upto].status))'
                      /\ \A d \in Calls : Running(d)' => Follows(call[d])'
      BY DEF Following
  <2>1. Quiet' => a.pc = "idle"
        BY <1>3 DEF Quiet
  <2>2. a.pc # "idle" => Follows(call[c])'
    <3>1. SUFFICES ASSUME Follows(a)' PROVE Follows(call[c])'
          OBVIOUS
    <3>2. QED BY <1>2, <3>1 DEF Follows
  <2>3. QED BY <1>3, <2>1, <2>2
<1>8. QED BY <1>4, <1>6, <1>7

\* Out of order there is nothing to keep.
LEMMA DisorderKeeps ==
    ASSUME disorder'
    PROVE  Serial' /\ OneRow' /\ Following'
BY DEF Serial, OneRow, Following

\* Stripe does not touch the rows.
LEMMA RowsStripe ==
    ASSUME RowInv, Stripe
    PROVE  RowInv'
<1>1. LedgerInv' /\ Story' /\ (disorder => disorder')
      BY StripeKeeps, StoryStripe DEF RowInv
<1>2. /\ UNCHANGED <<ledger, calls, upto>>
      /\ \A e \in DOMAIN posted : e \in DOMAIN posted' /\ posted'[e] = posted[e]
  <2>1. PICK events \in Seq(Event) : Post(events)
    <3>1. \A type \in Types, i \in Invoices \union {0}, st \in StripeStatus : On(type, i, st) \in Event
          BY OnEvent
    <3>2. 1 \in Invoices /\ sub \in StripeStatus
          BY OnEvent DEF RowInv, LedgerInv, TypeOK
    <3>3. \A x, y, z \in Event : /\ <<>> \in Seq(Event) /\ <<x>> \in Seq(Event)
                                 /\ <<x, y>> \in Seq(Event) /\ <<x, y, z>> \in Seq(Event)
          OBVIOUS
    <3>4. \A st \in StripeStatus : Updated(st) \in Event
          BY <3>1 DEF Updated, Types
    <3>5. CASE CheckOut
      <4>1. /\ On("checkout.session.completed", 0, "active") \in Event
            /\ On("invoice.paid", 1, "active") \in Event
            BY <3>1, <3>2 DEF Types, StripeStatus
      <4>2. QED BY <3>3, <3>5, <4>1 DEF CheckOut
    <3>6. CASE Subscribe
      <4>1. <<>> \in Seq(Event)
            OBVIOUS
      <4>2. Post(<<>>)
            BY <3>6 DEF Subscribe
      <4>3. QED BY <4>1, <4>2
    <3>7. CASE PayFirst
      <4>1. /\ On("payment_intent.succeeded", 0, "active") \in Event
            /\ On("invoice.paid", 1, "active") \in Event /\ Updated("active") \in Event
            BY <3>1, <3>2, <3>4 DEF Types, StripeStatus
      <4>2. QED BY <3>3, <3>7, <4>1 DEF PayFirst
    <3>8. CASE GiveUp
      <4>1. Updated("unpaid") \in Event
            BY <3>4 DEF StripeStatus
      <4>2. QED BY <3>3, <3>8, <4>1 DEF GiveUp
    <3>9. CASE Cancel
      <4>1. On("customer.subscription.deleted", 0, "canceled") \in Event
            BY <3>1 DEF Types, StripeStatus
      <4>2. QED BY <3>3, <3>9, <4>1 DEF Cancel
    <3>10. ASSUME NEW i \in Invoices, Renew(i) \/ Decline(i) \/ PayLate(i)
           PROVE  \E events \in Seq(Event) : Post(events)
      <4>1. /\ On("invoice.paid", i, "active") \in Event /\ On("invoice.paid", i, sub) \in Event
            /\ On("invoice.payment_failed", i, "past_due") \in Event
            /\ Updated("active") \in Event /\ Updated("past_due") \in Event
            BY <3>1, <3>2, <3>4 DEF Types, StripeStatus
      <4>2. CASE Renew(i)
            BY <3>3, <4>1, <4>2 DEF Renew
      <4>3. CASE Decline(i)
            BY <3>3, <4>1, <4>3 DEF Decline
      <4>4. CASE PayLate(i)
            BY <3>3, <4>1, <4>4 DEF PayLate
      <4>5. QED BY <3>10, <4>2, <4>3, <4>4
    <3>11. QED BY <3>5, <3>6, <3>7, <3>8, <3>9, <3>10 DEF Stripe
  <2>2. posted \in Seq(Event)
        BY DEF RowInv, LedgerInv, PostedOK
  <2>3. QED BY <2>1, <2>2, PostEffect
<1>3. FromEvents'
      BY <1>2 DEF RowInv, FromEvents, ledger
<1>4. CASE disorder'
      BY <1>1, <1>3, <1>4, DisorderKeeps DEF RowInv
<1>5. CASE ~disorder'
  <2>1. ~disorder /\ UNCHANGED <<masters, installments, call, deaths, upto>>
        BY <1>1, <1>2, <1>5 DEF ledger, calls
  <2>2. Serial'
        BY <2>1 DEF RowInv, Serial, Running
  <2>3. OneRow'
    <3>1. \A c \in Calls : call[c].pc = "event" => EventOf(c)' = EventOf(c)
          BY <1>2, <2>1 DEF RowInv, LedgerInv, Fits, Running, EventOf
    <3>2. QED BY <2>1, <3>1 DEF RowInv, OneRow, Running
  <2>4. masters # <<>> => /\ upto \in DOMAIN posted
                          /\ \A c \in Calls : Running(c) /\ Before(call[c].e) => call[c].e - 1 \in DOMAIN posted
    <3> SUFFICES ASSUME masters # <<>>
                 PROVE  /\ upto \in DOMAIN posted
                        /\ \A c \in Calls : Running(c) /\ Before(call[c].e) => call[c].e - 1 \in DOMAIN posted
        OBVIOUS
    <3>1. masters \in Seq(Master) /\ upto \in 0 .. Len(posted) /\ posted \in Seq(Event)
          BY DEF RowInv, LedgerInv, TypeOK
    <3>2. 1 \in DOMAIN masters /\ masters[1].event \in Nat \ {0}
      <4>1. 1 \in DOMAIN masters /\ masters[1] \in Master
            BY <3>1
      <4>2. QED BY <4>1, StripeAssumption DEF Master, EventId
    <3>3. masters[1].event <= upto
          BY <2>1, <3>2 DEF RowInv, OneRow
    <3>4. upto \in DOMAIN posted
          BY <3>1, <3>2, <3>3
    <3>5. ASSUME NEW c \in Calls, Running(c), Before(call[c].e)
          PROVE  call[c].e - 1 \in DOMAIN posted
      <4>1. call[c].e = upto
            BY <2>1, <3>5 DEF RowInv, Serial
      <4>2. masters[1].event < upto
            BY <3>2, <3>5, <4>1 DEF Before
      <4>3. QED BY <3>1, <3>2, <3>4, <4>1, <4>2
    <3>6. QED BY <3>4, <3>5
  <2>5. Following'
    <3> SUFFICES ASSUME deaths = 0
                 PROVE  /\ Quiet' /\ masters # <<>> => AllAre(Mapped(posted[upto].status))'
                        /\ \A c \in Calls : Running(c)' => Follows(call[c])'
        BY <2>1 DEF Following
    <3>1. /\ Quiet /\ masters # <<>> => AllAre(Mapped(posted[upto].status))
          /\ \A c \in Calls : Running(c) => Follows(call[c])
          BY <2>1 DEF RowInv, Following
    <3>2. Quiet' /\ masters # <<>> => AllAre(Mapped(posted[upto].status))'
          BY <1>2, <2>1, <2>4, <3>1 DEF AllAre, Quiet, Running
    <3>3. ASSUME NEW c \in Calls, Running(c)' PROVE Follows(call[c])'
      <4>1. Running(c) /\ Follows(call[c]) /\ posted'[call[c].e] = posted[call[c].e]
            BY <1>2, <2>1, <3>1, <3>3 DEF Running, RowInv, LedgerInv, Fits
      <4>2. Before(call[c].e) => Before(call[c].e)'
            BY <1>2, <2>1, <2>4, <4>1 DEF Before, AllAre
      <4>3. QED BY <2>1, <4>1, <4>2 DEF Follows, AllAre, Processed
    <3>4. QED BY <3>2, <3>3
  <2>6. QED BY <1>1, <1>3, <2>2, <2>3, <2>5 DEF RowInv
<1>6. QED BY <1>4, <1>5

\* An event comes in order, while the ledger is at rest, or the rest is out of order.
LEMMA RowsDeliver ==
    ASSUME RowInv, NEW c \in Calls, NEW e \in EventId, Deliver(c, e)
    PROVE  RowInv'
<1> DEFINE type == posted[e].type
           pc   == IF type \in Opening /\ ~completed THEN "complete" ELSE First(type)
           a    == [NoCall EXCEPT !.e = e, !.pc = pc]
<1>1. LedgerInv'
      BY DeliverKeeps DEF RowInv
<1>2. /\ call' = [call EXCEPT ![c] = a] /\ UNCHANGED <<stripe, ledger, answered, deaths>>
      /\ disorder' = (disorder \/ ~Quiet \/ e # upto + 1)
      /\ upto' = IF disorder' THEN upto ELSE e
      BY DEF Deliver
<1>3. disorder => disorder'
      BY <1>2, Zenon
<1>4. Story' /\ FromEvents'
      BY <1>2, <1>3, StoryStays DEF RowInv, FromEvents, stripe, ledger
<1>5. CASE disorder'
      BY <1>1, <1>4, <1>5, DisorderKeeps DEF RowInv
<1>6. CASE ~disorder'
  <2>1. ~disorder /\ Quiet /\ e = upto + 1
        BY <1>2, <1>6, Zenon
  <2>2. upto' = e /\ upto \in Nat /\ posted' = posted /\ masters' = masters /\ installments' = installments
          /\ deaths' = deaths
        BY <1>2, <1>6 DEF stripe, ledger, RowInv, LedgerInv, TypeOK
  <2>3. /\ Len(masters) <= 1
        /\ \A m \in DOMAIN masters : masters[m].event <= upto
        /\ \A r \in DOMAIN installments : installments[r].event <= upto
        BY <2>1 DEF RowInv, OneRow
  <2>4. /\ \A m \in DOMAIN masters : masters[m].event \in Nat
        /\ \A r \in DOMAIN installments : installments[r].event \in Nat
    <3>1. masters \in Seq(Master) /\ installments \in Seq(Installment)
          BY DEF RowInv, LedgerInv, TypeOK
    <3>2. /\ \A m \in DOMAIN masters : masters[m] \in Master
          /\ \A r \in DOMAIN installments : installments[r] \in Installment
          BY <3>1
    <3>3. QED BY <3>2, StripeAssumption DEF Master, Installment, EventId
  <2>5. /\ \A m \in DOMAIN masters : masters[m].event < e
        /\ \A r \in DOMAIN installments : installments[r].event < e
        BY <2>1, <2>2, <2>3, <2>4
  <2>6. type \in Types
    <3>1. e \in DOMAIN posted /\ posted \in Seq(Event)
          BY DEF Deliver, RowInv, LedgerInv, TypeOK
    <3>2. posted[e] \in Event
          BY <3>1
    <3>3. QED BY <3>2 DEF Event
  <2>7. /\ pc \in {"complete", "order", "event", "invoice", "find"}
        /\ pc = "event" => type = "checkout.session.completed"
        BY <2>6 DEF First, Types, Opening
  <2> HIDE DEF pc
  <2>8. PICK b : b = a
        OBVIOUS
  <2>9. b.pc = pc /\ b.e = e
        BY <2>8 DEF NoCall
  <2>10. call' = [call EXCEPT ![c] = b]
        BY <1>2, <2>8
  <2> HIDE DEF a
  <2>11. deaths' = 0 => Follows(b)'
    <3> SUFFICES ASSUME deaths = 0 PROVE Follows(b)'
        BY <2>2
    <3>1. masters # <<>> => AllAre(Mapped(posted[upto].status))
          BY <2>1 DEF RowInv, Following
    <3>2. e - 1 = upto
          BY <2>1, <2>2
    <3>3. Before(e)'
          BY <2>2, <2>5, <3>1, <3>2 DEF Before, AllAre
    <3>4. posted'[b.e].type = type
          BY <2>2, <2>9
    <3>5. QED BY <2>7, <2>9, <3>3, <3>4 DEF Follows, Opening
  <2>12. \A d \in Calls \ {c} : ~Running(d)
        BY <2>1 DEF Quiet
  <2>13. /\ \A m \in DOMAIN masters : masters[m].event <= e
         /\ \A r \in DOMAIN installments : installments[r].event <= e
        BY <2>2, <2>4, <2>5, <2>1
  <2>14. posted'[b.e].type = type
        BY <2>2, <2>9
  <2>15. b.pc \notin {"idle", "insert"}
        BY <2>7, <2>9
  <2>16. b.pc = "event" => type # "payment_intent.succeeded"
        BY <2>7, <2>9
  <2> HIDE DEF type
  <2>17. Serial' /\ OneRow' /\ Following'
        BY <2>10, <2>2, <2>3, <2>5, <2>9, <2>11, <2>12, <2>13, <2>14, <2>15, <2>16, AloneKeeps
  <2>18. QED BY <1>1, <1>4, <2>17 DEF RowInv
<1>7. QED BY <1>5, <1>6

\* After a death nothing is said of the status.
LEMMA RowsCrash ==
    ASSUME RowInv, NEW c \in Calls, Crash(c)
    PROVE  RowInv'
<1>1. LedgerInv'
      BY CrashKeeps DEF RowInv
<1>2. call' = [call EXCEPT ![c] = NoCall] /\ deaths' = deaths + 1 /\ Running(c)
        /\ UNCHANGED <<stripe, ledger, answered, upto, disorder>>
      BY DEF Crash
<1>3. Story' /\ FromEvents'
      BY <1>2, StoryStays DEF RowInv, FromEvents, stripe, ledger
<1>4. CASE disorder
      BY <1>1, <1>2, <1>3, <1>4, DisorderKeeps DEF RowInv
<1>5. CASE ~disorder
  <2>1. \A d \in Calls \ {c} : ~Running(d)
        BY <1>2, <1>5, SerialQuiet
  <2>2. deaths' # 0
        BY <1>2 DEF RowInv, LedgerInv, TypeOK
  <2>3. UNCHANGED <<masters, installments, upto, posted>>
        BY <1>2 DEF stripe, ledger
  <2>4. /\ Len(masters) <= 1
        /\ \A m \in DOMAIN masters : masters[m].event <= upto
        /\ \A r \in DOMAIN installments : installments[r].event <= upto
        BY <1>5 DEF RowInv, OneRow
  <2>5. NoCall.pc = "idle"
        BY DEF NoCall
  <2>6. Serial' /\ OneRow' /\ Following'
        BY <1>2, <2>1, <2>2, <2>3, <2>4, <2>5, AloneKeeps
  <2>7. QED BY <1>1, <1>3, <2>6 DEF RowInv
<1>6. QED BY <1>4, <1>5

\* The masters an opening event finds are active, as the subscription was before it.
LEMMA BeforeOpening ==
    ASSUME RowInv, NEW e \in DOMAIN posted, posted[e].type \in Opening, Before(e), masters # <<>>
    PROVE  AllAre(Mapped(posted[e].status))
<1>1. posted \in Seq(Event) /\ masters \in Seq(Master)
      BY DEF RowInv, LedgerInv, TypeOK
<1>2. 1 \in DOMAIN masters /\ masters[1] \in Master
      BY <1>1
<1>3. masters[1].event \in Nat \ {0} /\ masters[1].event < e
      BY <1>2, StripeAssumption DEF Before, Master, EventId
<1>4. e \in Nat /\ e \in 1 .. e /\ e - 1 \in 1 .. e
      BY <1>1, <1>3
<1>5. posted[e].status = "active" /\ posted[e - 1].status = "active"
      BY <1>4 DEF RowInv, Story
<1>6. QED BY <1>5 DEF Before

\* An invoice is reported paid once: no other event has entered it.
LEMMA NotEntered ==
    ASSUME RowInv, NEW e \in DOMAIN posted, posted[e].type = "invoice.paid", Entered(posted[e].inv)
    PROVE  \E r \in DOMAIN installments : installments[r].event = e
<1>1. PICK r \in DOMAIN installments : installments[r].inv = posted[e].inv
      BY DEF Entered
<1>2. QED BY <1>1 DEF RowInv, FromEvents, Story

\* The row gets status st.
LEMMA SetStatus ==
    ASSUME masters \in Seq(Master), Len(masters) <= 1, NEW m, NEW st,
           masters' = [masters EXCEPT ![m].status = st]
    PROVE  /\ m \in DOMAIN masters => AllAre(st)'
           /\ Len(masters') <= 1 /\ DOMAIN masters' = DOMAIN masters
           /\ \A x \in DOMAIN masters : masters'[x].event = masters[x].event
<1>1. /\ DOMAIN masters = 1 .. Len(masters) /\ Len(masters) \in Nat
      /\ \A x \in DOMAIN masters : masters[x] \in Master
      OBVIOUS
<1>2. DOMAIN masters' = DOMAIN masters
      OBVIOUS
<1>3. \A x \in DOMAIN masters : masters'[x].event = masters[x].event
      BY <1>1 DEF Master
<1>4. m \in DOMAIN masters => \A x \in DOMAIN masters' : masters'[x].status = st
  <2> SUFFICES ASSUME m \in DOMAIN masters PROVE masters'[m].status = st /\ DOMAIN masters = {m}
      BY <1>2
  <2>1. DOMAIN masters = {m}
        BY <1>1
  <2>2. masters[m] \in Master /\ masters'[m] = [masters[m] EXCEPT !.status = st]
        BY <1>1
  <2>3. QED BY <2>1, <2>2 DEF Master
<1>5. Len(masters') <= 1
  <2>1. masters' \in [1 .. Len(masters) -> {masters'[x] : x \in DOMAIN masters}]
        BY <1>1, <1>2
  <2>2. Len(masters') = Len(masters)
        BY <1>1, <2>1
  <2>3. QED BY <2>2
<1>6. QED BY <1>2, <1>3, <1>4, <1>5 DEF AllAre

\* The call c goes on to a, and leaves the rows alone.
LEMMA OnlyCall ==
    ASSUME RowInv, LedgerInv', ~disorder, NEW c \in Calls, Running(c), call[c].pc # "reactivate", NEW a,
           call' = [call EXCEPT ![c] = a], deaths' = deaths,
           UNCHANGED <<stripe, masters, installments, upto, disorder>>,
           a.pc # "idle" => a.e = call[c].e,
           a.pc = "insert" => masters = <<>>,
           a.pc = "event" /\ EventOf(c).type = "payment_intent.succeeded" => masters = <<>>,
           deaths = 0 => /\ a.pc = "idle" /\ masters # <<>> => AllAre(Mapped(EventOf(c).status))
                         /\ a.pc # "idle" => Follows(a)
    PROVE  RowInv'
<1>1. call[c].e = upto /\ \A d \in Calls \ {c} : ~Running(d)
      BY SerialQuiet
<1>2. /\ Len(masters) <= 1
      /\ \A m \in DOMAIN masters : masters[m].event <= upto
      /\ \A r \in DOMAIN installments : installments[r].event <= upto
      /\ \A r \in DOMAIN installments : installments[r].event < upto
      BY DEF RowInv, OneRow
<1>3. Story' /\ FromEvents'
      BY StoryStays DEF RowInv, FromEvents, stripe
<1>4. masters' = masters /\ installments' = installments /\ upto' = upto /\ posted' = posted
      BY DEF stripe
<1>5. EventOf(c) = posted[upto]
      BY <1>1 DEF EventOf
<1>6. AllAre(Mapped(EventOf(c).status)) => AllAre(Mapped(posted[upto].status))'
      BY <1>4, <1>5 DEF AllAre
<1>7. Follows(a) => Follows(a)'
      BY <1>4 DEF Follows, AllAre, Before, Processed
<1>8. a.pc # "idle" => posted'[a.e] = EventOf(c)
      BY <1>1, <1>4 DEF EventOf
<1>9. Serial' /\ OneRow' /\ Following'
      BY <1>1, <1>2, <1>4, <1>6, <1>7, <1>8, AloneKeeps
<1>10. QED BY <1>3, <1>9 DEF RowInv

\* The call c has changed the master, or inserted it, and goes on to a.
LEMMA MasterWritten ==
    ASSUME RowInv, LedgerInv', ~disorder, NEW c \in Calls, Running(c), NEW a,
           call' = [call EXCEPT ![c] = a], deaths' = deaths,
           UNCHANGED <<stripe, installments, upto, disorder>>,
           a.pc \in {"idle", "refind"}, a.pc = "refind" => a.e = call[c].e /\ call[c].pc # "reactivate",
           Len(masters') <= 1,
           \A m \in DOMAIN masters' : masters'[m].event <= upto,
           NEW st, deaths = 0 => AllAre(st)',
           a.pc = "refind" => st = "active",
           a.pc = "idle" => st = Mapped(EventOf(c).status)
    PROVE  RowInv'
<1>1. call[c].e = upto /\ \A d \in Calls \ {c} : ~Running(d)
      BY SerialQuiet
<1>2. /\ \A r \in DOMAIN installments : installments[r].event <= upto
      /\ call[c].pc # "reactivate" => \A r \in DOMAIN installments : installments[r].event < upto
      BY DEF RowInv, OneRow
<1>3. Story' /\ FromEvents'
      BY StoryStays DEF RowInv, FromEvents, stripe
<1>4. installments' = installments /\ upto' = upto /\ posted' = posted
      BY DEF stripe
<1>5. EventOf(c) = posted[upto]
      BY <1>1 DEF EventOf
<1>6. a.pc = "idle" /\ deaths = 0 => AllAre(Mapped(posted[upto].status))'
      BY <1>4, <1>5 DEF AllAre
<1>7. a.pc = "refind" /\ deaths = 0 => Follows(a)'
      BY DEF Follows, AllAre
<1>8. Serial' /\ OneRow' /\ Following'
      BY <1>1, <1>2, <1>4, <1>6, <1>7, AloneKeeps
<1>9. QED BY <1>3, <1>8 DEF RowInv

\* What is left to show of a handler's statement while the events are in order.
LEMMA StepAlone ==
    ASSUME RowInv, LedgerInv', ~disorder, NEW c \in Calls, Step(c)
    PROVE  RowInv'
<1> DEFINE ev == EventOf(c)
           e  == call[c].e
<1>1. Running(c)
  <2>1. CASE CompleteDonation(c) \/ LoadOrder(c) \/ CheckEvent(c) \/ CheckInvoice(c)
        BY <2>1 DEF CompleteDonation, LoadOrder, CheckEvent, CheckInvoice, Running
  <2>2. CASE FindMaster(c)
        BY <2>2 DEF FindMaster, Running
  <2>3. CASE InsertMaster(c) \/ Acknowledge(c) \/ EnterInvoice(c) \/ Reactivate(c)
        BY <2>3 DEF InsertMaster, Acknowledge, EnterInvoice, Reactivate, Running
  <2>4. CASE UpdateMaster(c)
        BY <2>4 DEF UpdateMaster, Running
  <2>5. QED BY <2>1, <2>2, <2>3, <2>4 DEF Step
<1>2. /\ e \in DOMAIN posted /\ ev = posted[e] /\ e = upto /\ Fit(call[c].pc, ev)
      /\ ev.type \in Types /\ ev.inv \in Invoices \union {0}
  <2>1. e \in DOMAIN posted /\ ev = posted[e] /\ Fit(call[c].pc, ev)
        BY <1>1 DEF RowInv, LedgerInv, Fits, EventOf
  <2>2. posted \in Seq(Event)
        BY DEF RowInv, LedgerInv, TypeOK
  <2>3. ev \in Event
        BY <2>1, <2>2
  <2>4. QED BY <1>1, <2>1, <2>3, SerialQuiet DEF Event
<1>3. /\ Len(masters) <= 1 /\ masters \in Seq(Master) /\ call \in [Calls -> Call]
      /\ \A m \in DOMAIN masters : masters[m].event <= upto
      /\ \A r \in DOMAIN installments : installments[r].event <= upto
      /\ call[c].pc # "reactivate" => \A r \in DOMAIN installments : installments[r].event < e
      /\ call[c].pc = "insert" => masters = <<>>
      /\ call[c].pc = "event" /\ ev.type = "payment_intent.succeeded" => masters = <<>>
      BY <1>1, <1>2 DEF RowInv, LedgerInv, TypeOK, OneRow
<1>4. deaths = 0 => Follows(call[c])
      BY <1>1 DEF RowInv, Following
<1>5. /\ ev.type \in Opening \union {"invoice.paid"} => ev.status = "active"
      /\ ev.type = "invoice.payment_failed" => ev.status = "past_due"
      /\ ev.type = "customer.subscription.deleted" => ev.status = "canceled"
  <2>1. ev.type \in Opening => \A d \in 1 .. e : posted[d].status = "active"
        BY <1>2 DEF RowInv, Story
  <2>2. e \in 1 .. e
    <3>1. posted \in Seq(Event)
          BY DEF RowInv, LedgerInv, TypeOK
    <3>2. QED BY <1>2, <3>1
  <2>3. QED BY <1>2, <2>1, <2>2 DEF RowInv, Story
<1>6. Mapped("active") = "active" /\ Mapped("past_due") = "past_due" /\ Mapped("canceled") = "canceled"
      BY DEF Mapped
<1>7. /\ \A r \in DOMAIN installments : installments[r].event \in Nat
      /\ \A m \in DOMAIN masters : masters[m].event \in Nat \ {0}
      /\ e \in Nat
  <2>1. masters \in Seq(Master) /\ installments \in Seq(Installment) /\ posted \in Seq(Event)
        BY DEF RowInv, LedgerInv, TypeOK
  <2>2. /\ \A m \in DOMAIN masters : masters[m] \in Master
        /\ \A r \in DOMAIN installments : installments[r] \in Installment
        BY <2>1
  <2>3. QED BY <1>2, <2>1, <2>2, StripeAssumption DEF Master, Installment, EventId
<1>8. call[c].pc # "reactivate" => \A r \in DOMAIN installments : installments[r].event # e
      BY <1>3, <1>7
<1>9. call[c].pc # "reactivate" /\ Before(e) => ~Processed(e)
      BY <1>7, <1>8 DEF Before, Processed
<1>10. call[c].pc # "reactivate" /\ ev.type = "invoice.paid" => ~Entered(ev.inv)
      BY <1>2, <1>8, NotEntered
\* The call ends, or goes on to pc, and the rows are as they were.
<1>11. ASSUME End(c), UNCHANGED <<stripe, masters, installments, upto, disorder>>,
              call[c].pc # "reactivate",
              deaths = 0 /\ masters # <<>> => AllAre(Mapped(ev.status))
       PROVE  RowInv'
  <2>1. NoCall.pc = "idle" /\ call' = [call EXCEPT ![c] = NoCall] /\ deaths' = deaths
        BY <1>11 DEF End, NoCall
  <2>2. QED BY <1>1, <1>11, <2>1, OnlyCall
<1>12. ASSUME NEW pc \in CallSteps, NEW m, pc # "idle",
              call' = [call EXCEPT ![c].m = m, ![c].pc = pc] \/ (m = call[c].m /\ call' = [call EXCEPT ![c].pc = pc]),
              deaths' = deaths,
              UNCHANGED <<stripe, masters, installments, upto, disorder>>,
              call[c].pc # "reactivate",
              pc = "insert" => masters = <<>>,
              pc = "event" /\ ev.type = "payment_intent.succeeded" => masters = <<>>,
              deaths = 0 => Follows([pc |-> pc, e |-> e, m |-> m])
       PROVE  RowInv'
  <2> DEFINE a == [pc |-> pc, e |-> e, m |-> m]
  <2>1. call[c] = [pc |-> call[c].pc, e |-> e, m |-> call[c].m]
        BY <1>3 DEF Call
  <2>2. call' = [call EXCEPT ![c] = a]
        BY <1>3, <1>12, <2>1
  <2>3. PICK b : b = a
        OBVIOUS
  <2>4. b.pc = pc /\ b.e = e /\ Follows(b) = Follows(a) /\ call' = [call EXCEPT ![c] = b]
        BY <2>2, <2>3
  <2>5. QED BY <1>1, <1>12, <2>3, <2>4, OnlyCall
<1> HIDE DEF ev, e
<1>13. CASE CompleteDonation(c)
  <2> DEFINE pc == First(ev.type)
  <2>1. call[c].pc = "complete" /\ ev.type \in Opening
        BY <1>2, <1>13 DEF CompleteDonation, Fit
  <2>2. pc \in CallSteps /\ pc # "idle" /\ pc \in {"order", "event"}
          /\ (pc = "event" => ev.type = "checkout.session.completed")
        BY <2>1 DEF Opening, First, CallSteps
  <2>3. call' = [call EXCEPT ![c].pc = pc] /\ deaths' = deaths
          /\ UNCHANGED <<stripe, masters, installments, upto, disorder>>
        BY <1>13 DEF CompleteDonation, Goto, ev
  <2> HIDE DEF pc
  <2>4. deaths = 0 => Follows([pc |-> pc, e |-> e, m |-> call[c].m])
        BY <1>2, <1>4, <2>1, <2>2 DEF Follows, e
  <2>5. QED BY <1>12, <2>1, <2>2, <2>3, <2>4
<1>14. CASE LoadOrder(c)
  <2>1. call[c].pc = "order" /\ ev.type = "payment_intent.succeeded" /\ ev.type \in Opening
        BY <1>2, <1>14 DEF LoadOrder, Fit, Opening
  <2>2. UNCHANGED <<stripe, masters, installments, upto, disorder>> /\ (Goto(c, "find") \/ End(c))
        BY <1>14 DEF LoadOrder, ledger
  <2>3. CASE Goto(c, "find")
    <3>1. call' = [call EXCEPT ![c].pc = "find"] /\ deaths' = deaths /\ "find" \in CallSteps
          BY <2>3 DEF Goto, CallSteps
    <3>2. deaths = 0 => Follows([pc |-> "find", e |-> e, m |-> call[c].m])
          BY <1>4, <2>1 DEF Follows, e
    <3>3. QED BY <1>12, <2>1, <2>2, <3>1, <3>2
  <2>4. CASE End(c)
    <3>1. deaths = 0 => Before(e)
          BY <1>4, <2>1 DEF Follows, e
    <3>2. deaths = 0 /\ masters # <<>> => AllAre(Mapped(ev.status))
          BY <1>2, <1>5, <2>1, <3>1, BeforeOpening DEF RowInv
    <3>3. QED BY <1>11, <2>1, <2>2, <2>4, <3>2
  <2>5. QED BY <2>2, <2>3, <2>4
<1>15. CASE CheckEvent(c)
  <2>1. call[c].pc = "event" /\ ev.type \in Opening \union {"invoice.paid"}
          /\ UNCHANGED <<stripe, masters, installments, upto, disorder>>
        BY <1>2, <1>15 DEF CheckEvent, Fit, ledger
  <2>2. CASE Processed(e)
    <3>1. End(c)
          BY <1>15, <2>2 DEF CheckEvent, e
    <3>2. ASSUME deaths = 0 PROVE AllAre(Mapped(ev.status))
      <4>1. ev.type \notin Opening
            BY <1>2, <1>4, <1>9, <2>1, <2>2, <3>2 DEF Follows, e
      <4>2. QED BY <1>2, <1>4, <1>5, <1>6, <2>1, <2>2, <3>2, <4>1 DEF Follows, e
    <3>3. QED BY <1>11, <2>1, <3>1, <3>2
  <2>3. CASE ~Processed(e)
    <3> DEFINE pc == CASE ev.type = "checkout.session.completed" -> "find"
                       [] ev.type = "payment_intent.succeeded"   -> "insert"
                       [] ev.type = "invoice.paid"               -> "acknowledge"
    <3>1. pc \in {"find", "insert", "acknowledge"} /\ pc \in CallSteps
            /\ (pc = "find" => ev.type \in Opening)
            /\ (pc = "insert" => ev.type = "payment_intent.succeeded")
            /\ (pc = "acknowledge" => ev.type = "invoice.paid")
          BY <2>1 DEF Opening, CallSteps
    <3>2. Goto(c, pc)
          BY <1>15, <2>3 DEF CheckEvent, e, ev
    <3> HIDE DEF pc
    <3>3. call' = [call EXCEPT ![c].pc = pc] /\ deaths' = deaths
          BY <3>2 DEF Goto
    <3>4. deaths = 0 => Follows([pc |-> pc, e |-> e, m |-> call[c].m])
      <4>1. deaths = 0 => /\ ev.type \in Opening => Before(e)
                          /\ ev.type = "invoice.paid" => call[c].m \in DOMAIN masters
        <5>1. deaths = 0 => /\ posted[e].type \in Opening => Before(e)
                            /\ posted[e].type = "invoice.paid" => call[c].m \in DOMAIN masters
              BY <1>4, <2>1 DEF Follows, e
        <5>2. QED BY <1>2, <5>1
      <4>2. pc = "acknowledge" /\ deaths = 0 => call[c].m \in DOMAIN masters
            BY <3>1, <4>1
      <4>3. pc = "find" /\ deaths = 0 => Before(e)
            BY <3>1, <4>1
      <4>4. QED BY <3>1, <4>2, <4>3 DEF Follows
    <3>5. pc \notin {"idle", "event"} /\ (pc = "insert" => masters = <<>>)
          BY <1>3, <2>1, <3>1
    <3>6. QED BY <1>12, <2>1, <3>1, <3>3, <3>4, <3>5
  <2>4. QED BY <2>2, <2>3
<1>16. CASE CheckInvoice(c)
  <2>1. call[c].pc = "invoice" /\ ev.type = "invoice.paid"
          /\ UNCHANGED <<stripe, masters, installments, upto, disorder>>
        BY <1>2, <1>16 DEF CheckInvoice, Fit, ledger
  <2>2. ~Entered(ev.inv)
        BY <1>10, <2>1
  <2>3. call' = [call EXCEPT ![c].pc = "find"] /\ deaths' = deaths /\ "find" \in CallSteps
        BY <1>16, <2>2 DEF CheckInvoice, Goto, CallSteps, ev
  <2>4. deaths = 0 => Follows([pc |-> "find", e |-> e, m |-> call[c].m])
        BY <1>4, <2>1 DEF Follows, e
  <2>5. QED BY <1>12, <2>1, <2>3, <2>4
<1>17. CASE FindMaster(c)
  <2>1. call[c].pc \in {"find", "refind"}
          /\ UNCHANGED <<stripe, masters, installments, upto, disorder>>
        BY <1>17 DEF FindMaster, ledger
  <2>2. CASE masters = <<>>
    <3> DEFINE next == AfterMissing(ev)
    <3>1. End(c) \/ (next # "end" /\ Goto(c, next) /\ call[c].pc = "find")
          BY <1>17, <2>1, <2>2 DEF FindMaster, WithoutMaster, ev
    <3>2. next # "end" => /\ next \in {"insert", "event"} /\ next \in CallSteps
                          /\ next = "event" => ev.type \in Opening
          BY <1>2 DEF AfterMissing, Opening, Types, CallSteps
    <3> HIDE DEF next
    <3>3. CASE End(c)
          BY <1>11, <2>1, <2>2, <3>3
    <3>4. CASE next # "end" /\ Goto(c, next) /\ call[c].pc = "find"
      <4>1. call' = [call EXCEPT ![c].pc = next] /\ deaths' = deaths
            BY <3>4 DEF Goto
      <4>2. deaths = 0 => Follows([pc |-> next, e |-> e, m |-> call[c].m])
            BY <1>2, <1>4, <3>2, <3>4 DEF Follows, e, Opening
      <4>3. QED BY <1>12, <2>1, <2>2, <3>2, <3>4, <4>1, <4>2
    <3>5. QED BY <3>1, <3>3, <3>4
  <2>3. ASSUME NEW m \in DOMAIN masters, WithMaster(c, m) PROVE RowInv'
    <3>1. CASE ev.type \in Opening
      <4>1. End(c) /\ call[c].pc = "find"
            BY <1>2, <2>1, <2>3, <3>1 DEF WithMaster, Fit, Opening, ev
      <4>2. deaths = 0 => Before(e)
            BY <1>4, <4>1 DEF Follows, e
      <4>3. deaths = 0 /\ masters # <<>> => AllAre(Mapped(ev.status))
            BY <1>2, <1>5, <3>1, <4>2, BeforeOpening DEF RowInv
      <4>4. QED BY <1>11, <2>1, <4>1, <4>3
    <3>2. CASE ev.type \notin Opening
      <4> DEFINE pc == AfterFound(ev)
      <4>1. call' = [call EXCEPT ![c].m = m, ![c].pc = pc] /\ deaths' = deaths
            BY <2>3, <3>2 DEF WithMaster, ev
      <4>2. ev.type = "invoice.paid" => ev.inv = 1 \/ ev.inv > 1
            BY <1>2 DEF RowInv, LedgerInv, PostedOK, Good, Invoices
      <4>3. pc \in {"event", "enter", "update"} /\ pc \in CallSteps
              /\ (pc \in {"event", "enter"} => ev.type = "invoice.paid")
            BY <1>2, <3>2, <4>2 DEF AfterFound, Opening, Types, CallSteps
      <4> HIDE DEF pc
      <4>4. ASSUME deaths = 0, Processed(e), ev.type = "invoice.paid" PROVE AllAre("active")
            BY <1>4, <1>9, <2>1, <4>4 DEF Follows, e
      <4>5. deaths = 0 => Follows([pc |-> pc, e |-> e, m |-> m])
            BY <1>2, <2>3, <3>2, <4>3, <4>4 DEF Follows
      <4>6. QED BY <1>12, <2>1, <4>1, <4>3, <4>5
    <3>3. QED BY <3>1, <3>2
  <2>4. QED BY <1>17, <2>2, <2>3 DEF FindMaster
<1>18. CASE InsertMaster(c)
  <2>1. call[c].pc = "insert" /\ masters = <<>> /\ ev.type \in Opening \union {"invoice.paid"}
          /\ UNCHANGED <<stripe, installments, upto, disorder>>
        BY <1>2, <1>3, <1>18 DEF InsertMaster, Fit
  <2>2. CASE Processed(e)
    <3>1. End(c) /\ UNCHANGED masters
          BY <1>18, <2>2 DEF InsertMaster, e
    <3>2. QED BY <1>11, <2>1, <3>1
  <2>3. CASE ~Processed(e)
    <3>1. masters' = <<[status |-> "active", event |-> e]>>
          BY <1>18, <2>1, <2>3 DEF InsertMaster, e
    <3>2. Len(masters') <= 1 /\ (\A m \in DOMAIN masters' : masters'[m].event <= upto) /\ AllAre("active")'
          BY <1>2, <1>7, <3>1 DEF AllAre
    <3>3. CASE ev.type \in Opening
      <4>1. NoCall.pc = "idle" /\ call' = [call EXCEPT ![c] = NoCall] /\ deaths' = deaths
            BY <1>18, <2>3, <3>3 DEF InsertMaster, End, NoCall, e, ev
      <4>2. "active" = Mapped(EventOf(c).status)
            BY <1>5, <1>6, <3>3 DEF ev
      <4>3. QED BY <1>1, <2>1, <3>2, <4>1, <4>2, MasterWritten
    <3>4. CASE ev.type \notin Opening
      <4>1. call' = [call EXCEPT ![c].pc = "refind"] /\ deaths' = deaths
            BY <1>18, <2>3, <3>4 DEF InsertMaster, Goto, e, ev
      <4>2. PICK a : a = [call[c] EXCEPT !.pc = "refind"]
            OBVIOUS
      <4>3. call' = [call EXCEPT ![c] = a] /\ a.pc = "refind" /\ a.e = call[c].e
            BY <1>3, <4>1, <4>2 DEF Call
      <4>4. QED BY <1>1, <2>1, <3>2, <4>1, <4>3, MasterWritten
    <3>5. QED BY <3>3, <3>4
  <2>4. QED BY <2>2, <2>3
\* The master in hand is written, and the call is over.
<1>19. ASSUME NEW st, masters' = [masters EXCEPT ![call[c].m].status = st], End(c),
              UNCHANGED <<stripe, installments, upto, disorder>>, st = Mapped(ev.status),
              deaths = 0 => call[c].m \in DOMAIN masters
       PROVE  RowInv'
  <2>1. NoCall.pc = "idle" /\ call' = [call EXCEPT ![c] = NoCall] /\ deaths' = deaths
        BY <1>19 DEF End, NoCall
  <2>2. /\ deaths = 0 => AllAre(st)'
        /\ Len(masters') <= 1
        /\ \A x \in DOMAIN masters' : masters'[x].event <= upto
        BY <1>3, <1>19, SetStatus
  <2>3. QED BY <1>1, <1>19, <2>1, <2>2, MasterWritten DEF ev
<1>20. CASE Acknowledge(c) \/ Reactivate(c)
  <2>1. /\ masters' = [masters EXCEPT ![call[c].m].status = "active"] /\ End(c)
        /\ UNCHANGED <<stripe, installments, upto, disorder>>
        /\ call[c].pc \in {"acknowledge", "reactivate"}
        BY <1>20 DEF Acknowledge, Reactivate
  <2>2. deaths = 0 => call[c].m \in DOMAIN masters
        BY <1>4, <2>1 DEF Follows
  <2>3. "active" = Mapped(ev.status)
        BY <1>2, <1>5, <1>6, <2>1 DEF Fit
  <2>4. QED BY <1>19, <2>1, <2>2, <2>3
<1>21. CASE UpdateMaster(c)
  <2>1. /\ masters' = [masters EXCEPT ![call[c].m].status = Reported(ev)] /\ End(c)
        /\ UNCHANGED <<stripe, installments, upto, disorder>>
        /\ call[c].pc = "update" /\ ev.type \in Reports
        BY <1>2, <1>21 DEF UpdateMaster, Fit, ev
  <2>2. deaths = 0 => call[c].m \in DOMAIN masters
        BY <1>4, <2>1 DEF Follows
  <2>3. Reported(ev) = Mapped(ev.status)
        BY <1>5, <1>6, <2>1 DEF Reported, Reports
  <2>4. QED BY <1>19, <2>1, <2>2, <2>3
<1>22. CASE EnterInvoice(c)
  <2>1. call[c].pc = "enter" /\ ev.type = "invoice.paid"
          /\ UNCHANGED <<stripe, completed, isSub, masters, upto, disorder>>
        BY <1>2, <1>22 DEF EnterInvoice, Fit
  <2>2. ~Entered(ev.inv)
        BY <1>10, <2>1
  <2>3. CASE Processed(e)
    <3>1. End(c) /\ UNCHANGED installments
          BY <1>22, <2>3 DEF EnterInvoice, Free, e
    <3>2. deaths = 0 => AllAre(Mapped(ev.status))
          BY <1>2, <1>4, <1>5, <1>6, <2>1, <2>3 DEF Follows, e
    <3>3. QED BY <1>11, <2>1, <3>1, <3>2
  <2>4. CASE ~Processed(e)
    <3>1. installments' = Append(installments, [inv |-> ev.inv, event |-> e])
            /\ call' = [call EXCEPT ![c].pc = "reactivate"] /\ deaths' = deaths
          BY <1>22, <2>2, <2>4 DEF EnterInvoice, Free, Goto, e, ev
    <3>2. PICK a : a = [call[c] EXCEPT !.pc = "reactivate"]
          OBVIOUS
    <3>3. call' = [call EXCEPT ![c] = a] /\ a.pc = "reactivate" /\ a.e = e /\ a.m = call[c].m
          BY <1>3, <3>1, <3>2 DEF Call, e
    <3>4. installments \in Seq(Installment)
          BY DEF RowInv, LedgerInv, TypeOK
    <3>5. \A r \in DOMAIN installments' : \/ r \in DOMAIN installments /\ installments'[r] = installments[r]
                                          \/ installments'[r] = [inv |-> ev.inv, event |-> e]
          BY <3>1, <3>4
    <3>6. \A r \in DOMAIN installments' : installments'[r].event <= upto
          BY <1>2, <1>3, <1>7, <3>5
    <3>7. FromEvents'
          BY <1>2, <2>1, <3>5 DEF RowInv, FromEvents, stripe
    <3>8. Story'
          BY <2>1, StoryStays DEF RowInv
    <3>9. deaths = 0 => Follows(a)'
      <4>1. deaths = 0 => a.m \in DOMAIN masters
            BY <1>2, <1>4, <2>1, <3>3 DEF Follows, e
      <4>2. masters' = masters /\ a.pc = "reactivate"
            BY <2>1, <3>3
      <4>3. QED BY <4>1, <4>2 DEF Follows
    <3>10. a.pc = "reactivate" /\ a.e = upto' /\ upto' = upto /\ masters' = masters
          BY <1>2, <2>1, <3>3
    <3>11. \A d \in Calls \ {c} : ~Running(d)
          BY <1>1, SerialQuiet
    <3>12. /\ Len(masters') <= 1
           /\ \A m \in DOMAIN masters' : masters'[m].event <= upto'
           /\ \A r \in DOMAIN installments' : installments'[r].event <= upto'
          BY <1>3, <3>6, <3>10
    <3>13. a.pc \notin {"idle", "insert", "event"} /\ deaths' = deaths /\ call' = [call EXCEPT ![c] = a]
          BY <3>1, <3>3
    <3>14. Serial' /\ OneRow' /\ Following'
          BY <3>9, <3>10, <3>11, <3>12, <3>13, AloneKeeps
    <3>15. QED BY <3>7, <3>8, <3>14 DEF RowInv
  <2>5. QED BY <2>3, <2>4
<1>23. QED
       BY <1>13, <1>14, <1>15, <1>16, <1>17, <1>18, <1>20, <1>21, <1>22 DEF Step

LEMMA RowsStep ==
    ASSUME RowInv, NEW c \in Calls, Step(c)
    PROVE  RowInv'
<1>1. LedgerInv'
      BY StepKeeps DEF RowInv
<1>2. CASE ~disorder
      BY <1>1, <1>2, StepAlone
<1>3. CASE disorder
  <2>1. UNCHANGED <<stripe, disorder>>
        BY DEF Step, CompleteDonation, LoadOrder, CheckEvent, CheckInvoice, FindMaster, InsertMaster,
           Acknowledge, EnterInvoice, Reactivate, UpdateMaster
  <2>2. Story' /\ Serial' /\ OneRow' /\ Following'
        BY <1>3, <2>1, StoryStays, DisorderKeeps DEF RowInv
  <2>3. FromEvents'
    <3>1. CASE installments' = installments
          BY <2>1, <3>1 DEF RowInv, FromEvents, stripe
    <3>2. CASE EnterInvoice(c) /\ installments' = Append(installments, [inv |-> EventOf(c).inv, event |-> call[c].e])
      <4>1. /\ call[c].e \in DOMAIN posted /\ posted[call[c].e].type = "invoice.paid"
            /\ EventOf(c) = posted[call[c].e]
            BY <3>2 DEF EnterInvoice, RowInv, LedgerInv, Fits, Fit, Running, EventOf
      <4>2. installments \in Seq(Installment)
            BY DEF RowInv, LedgerInv, TypeOK
      <4>3. \A r \in DOMAIN installments' :
               \/ r \in DOMAIN installments /\ installments'[r] = installments[r]
               \/ installments'[r] = [inv |-> EventOf(c).inv, event |-> call[c].e]
            BY <3>2, <4>2
      <4>4. QED BY <2>1, <4>1, <4>3 DEF RowInv, FromEvents, stripe
    <3>3. QED
      <4>1. CASE EnterInvoice(c)
            BY <3>1, <3>2, <4>1 DEF EnterInvoice
      <4>2. CASE ~EnterInvoice(c)
            BY <3>1, <4>2 DEF Step, CompleteDonation, LoadOrder, CheckEvent, CheckInvoice, FindMaster,
               InsertMaster, Acknowledge, Reactivate, UpdateMaster, ledger
      <4>3. QED BY <4>1, <4>2
  <2>4. QED BY <1>1, <2>2, <2>3 DEF RowInv
<1>4. QED BY <1>2, <1>3

LEMMA RowsInit == Init => RowInv
<1> SUFFICES ASSUME Init PROVE RowInv
    OBVIOUS
<1>1. LedgerInv
      BY LedgerInit
<1>2. /\ installments = <<>> /\ deaths = 0 /\ disorder = FALSE
      /\ \A c \in Calls : ~Running(c) /\ call[c].pc = "idle"
      BY DEF Init, Running, NoCall
<1>3. DOMAIN <<>> = {} /\ Len(<<>>) = 0
      OBVIOUS
<1>4. FromEvents /\ Serial
      BY <1>2, <1>3 DEF FromEvents, Serial
<1>5. CASE Fresh
  <2>1. masters = <<>> /\ posted = <<>> /\ sub = "none" /\ upto = 0 /\ \A i \in Invoices : invoice[i] = "none"
        BY <1>5 DEF Fresh
  <2>2. \A i \in Renewals : i \in Invoices
        BY StripeAssumption DEF Renewals, Invoices
  <2>3. Story
        BY <1>3, <2>1, <2>2 DEF Story
  <2>4. OneRow /\ Following
        BY <1>2, <1>3, <2>1 DEF OneRow, Following
  <2>5. QED BY <1>1, <1>4, <2>3, <2>4 DEF RowInv
<1>6. CASE Established
  <2> DEFINE a == On("invoice.paid", 1, "active")
             m == [status |-> "active", event |-> 1]
  <2>1. a.type = "invoice.paid" /\ a.status = "active"
        BY DEF On
  <2>2. sub = "active" /\ posted = <<a>> /\ masters = <<m>> /\ upto = 1
        BY <1>6 DEF Established
  <2>3. m.status = "active" /\ m.event = 1
        OBVIOUS
  <2> HIDE DEF a, m
  <2>4. /\ posted # <<>> /\ Len(posted) = 1 /\ DOMAIN posted = {1} /\ posted[1] = a
        /\ masters # <<>> /\ Len(masters) = 1 /\ DOMAIN masters = {1} /\ masters[1] = m
        BY <2>2
  <2>5. Story
        BY <2>1, <2>2, <2>4 DEF Story, Opening
  <2>6. OneRow
        BY <1>2, <1>3, <2>2, <2>3, <2>4 DEF OneRow
  <2>7. AllAre(Mapped(posted[upto].status))
        BY <2>1, <2>2, <2>3, <2>4 DEF AllAre, Mapped
  <2>8. Following
        BY <1>2, <2>7 DEF Following
  <2>9. QED BY <1>1, <1>4, <2>5, <2>6, <2>8 DEF RowInv
<1>7. QED BY <1>5, <1>6 DEF Init

LEMMA RowsNext == RowInv /\ [Next]_vars => RowInv'
<1> SUFFICES ASSUME RowInv, [Next]_vars PROVE RowInv'
    OBVIOUS
<1>1. CASE UNCHANGED vars
  <2>1. LedgerInv'
        BY <1>1, LedgerStep DEF RowInv
  <2>2. UNCHANGED <<stripe, ledger, calls, upto, disorder>>
        BY <1>1 DEF vars
  <2>3. Story' /\ FromEvents' /\ Serial'
        BY <2>2, StoryStays DEF RowInv, FromEvents, Serial, Running, stripe, ledger, calls
  <2>4. OneRow'
        BY <2>2 DEF RowInv, OneRow, Running, EventOf, stripe, ledger, calls
  <2>5. Following'
        BY <2>2 DEF RowInv, Following, Quiet, Running, Follows, Before, AllAre, Processed,
           stripe, ledger, calls
  <2>6. QED BY <2>1, <2>3, <2>4, <2>5 DEF RowInv
<1>2. QED BY <1>1, RowsStripe, RowsDeliver, RowsStep, RowsCrash DEF Next

LEMMA RowsKept == Spec => []RowInv
BY RowsInit, RowsNext, PTL DEF Spec

\* As long as its events come one by one and in order, a subscription has one master
\* row, though both of the first events may insert it, and whatever they die with.
THEOREM MasterIsOne == Spec => []OneMaster
<1>1. RowInv => OneMaster
      BY DEF RowInv, OneRow, OneMaster
<1>2. QED BY <1>1, RowsKept, PTL

\* Then the row has the status Stripe has as soon as all is handled: no event, of those
\* that insert the row, enter an invoice or report a change, leaves a status behind that
\* is not that of the last.
THEOREM StatusIsFollowed == Spec => []StatusFollows
<1>1. RowInv => StatusFollows
  <2> SUFFICES ASSUME RowInv, Quiet, ~disorder, upto = Len(posted), deaths = 0, NEW m \in DOMAIN masters
               PROVE  masters[m].status = Mapped(sub)
      BY DEF StatusFollows
  <2>1. masters \in Seq(Master) /\ posted \in Seq(Event)
        BY DEF RowInv, LedgerInv, TypeOK
  <2>2. masters[m].event \in Nat \ {0} /\ masters[m].event <= upto
    <3>1. masters[m] \in Master
          BY <2>1
    <3>2. QED BY <3>1, StripeAssumption DEF Master, EventId, RowInv, OneRow
  <2>3. posted # <<>>
        BY <2>1, <2>2
  <2>4. posted[upto].status = sub
        BY <2>3 DEF RowInv, Story
  <2>5. masters # <<>>
        BY <2>1
  <2>6. QED BY <2>4, <2>5 DEF RowInv, Following, AllAre
<1>2. QED BY <1>1, RowsKept, PTL
=============================================================================
