-------------------------- MODULE DonationPayments --------------------------
(***************************************************************************)
(* The life of online donations in src/donations/donations.service.ts.     *)
(*                                                                         *)
(* Every HTTP request, gateway notification and cron tick that touches a   *)
(* donation is a call: a Node.js handler that runs until its next await,   *)
(* so several calls on one donation interleave at every await.  A call     *)
(* keeps what it read (seen, saved, stage) and acts on it later, when the  *)
(* row may have moved on.  The database gives the atomicity of one SQL     *)
(* statement and no more: none of these handlers opens a transaction.      *)
(*                                                                         *)
(* A donation is paid through a payment gateway.  The gateway is outside   *)
(* the program: it lets the customer try, and posts a notification of each *)
(* outcome, which may arrive late, out of order, several times or never.   *)
(***************************************************************************)
EXTENDS Naturals, FiniteSets

CONSTANTS
    Donations,     \* donation rows that may be created
    Donors,        \* donors
    DonorOf,       \* the donor of each donation
    Calls,         \* handler invocations, each used once
    Kinds,         \* the kinds of call the environment makes, a part of AllKinds
    Gateways,      \* the gateways checkouts choose from, a part of AllGateways
    Contact,       \* the channels (phone, email) each donation's donor has
    Qualifies,     \* donations eligible from the start: amount >= 5000 or marked recurring
    Linked,        \* donations the recurring ledger finds a subscription for
    Enrolls,       \* donations whose donor may ask for a pledge at the checkout
    Batchable,     \* donations with a tracker of a batchable template
    Faults,        \* the steps that may fail, a part of AllFaults
    MaxCrashes     \* bound on the calls that die between two steps

Channels    == {"message", "email"}
AllGateways == {"payfast", "blinq", "alfalah", "meezan", "jazzcash", "stripe", "manual"}
AllKinds    == {"create", "retry", "callback", "return", "poll", "staff", "edit",
                "public", "cron"}
AllFaults   == {"invoice", "send", "ledger", "pledge", "batch"}

ASSUME ConstantsAssumption ==
    /\ Donations # {}
    /\ IsFiniteSet(Calls)
    /\ DonorOf \in [Donations -> Donors]
    /\ Kinds \subseteq AllKinds
    /\ Gateways \subseteq AllGateways
    /\ Contact \in [Donations -> SUBSET Channels]
    /\ Linked \subseteq Donations
    /\ Faults \subseteq AllFaults
    /\ MaxCrashes \in Nat

\* "none": the row is not inserted yet.
Status  == {"none", "pending", "completed", "failed", "cancelled", "refunded"}
Intents == {"none", "enroll", "activated"}
Stages  == {"prospect", "donor"}
Row     == [status : Status, sent : [Channels -> BOOLEAN], intent : Intents,
            method : AllGateways]
Note    == [d : Donations, gw : AllGateways, to : Status]

Steps == {"idle", "done", "query", "abandon", "write", "recheck", "batch", "allocate",
          "reread", "invoice", "save", "activate", "findPledge", "checkPledge",
          "insertPledge", "markIntent", "saveDonor", "ledger", "thanks", "claim",
          "send", "release", "pipeline", "promote"}

\* "charge": a JazzCash checkout once the wallet answered.
Call == [pc : Steps, kind : AllKinds \union {"charge"}, gw : AllGateways,
         d : Donations, to : Status,
         seen : Row,       \* the row as this function last read it, with its local flags
         saved : Row,      \* the entity a checkout holds from insert to save
         stage : Stages,   \* the donor's stage as the activation read it
         todo : SUBSET Channels]   \* the channels still to be tried

VARIABLES
    row,        \* the donations table
    stage,      \* donors.pipeline_stage
    pledges,    \* active rows of manual_recurring_pledges, per donor
    allocated,  \* batch allocations made for each donation
    settled,    \* donations the recurring ledger has an installment for
    issued,     \* gateways that hold an open invoice for a donation
    notes,      \* outcomes the gateways have posted
    call,       \* the calls
    crashed,    \* the calls that died
    thanked,    \* thanks sends the provider accepted, per donation and channel
    abandoned,  \* abandon messages the provider accepted
    reverted,   \* times a write put a sent flag back from true to false
    enrolled    \* times the intent of a donation was activated

db   == <<row, stage, pledges, allocated, settled>>
net  == <<issued, notes>>
hist == <<thanked, abandoned, reverted, enrolled>>
vars == <<db, net, call, crashed, hist>>

Unsent == [ch \in Channels |-> FALSE]
NoRow  == [status |-> "none", sent |-> Unsent, intent |-> "none", method |-> "manual"]
Idle   == [pc |-> "idle", kind |-> "public", gw |-> "manual",
           d |-> CHOOSE d \in Donations : TRUE, to |-> "none", seen |-> NoRow,
           saved |-> NoRow, stage |-> "prospect", todo |-> {}]
Zero   == [d \in Donations |-> [ch \in Channels |-> 0]]

Init ==
    /\ row = [d \in Donations |-> NoRow]
    /\ stage = [p \in Donors |-> "prospect"]
    /\ pledges = [p \in Donors |-> 0]
    /\ allocated = [d \in Donations |-> 0]
    /\ settled = {}
    /\ issued = [d \in Donations |-> {}]
    /\ notes = {}
    /\ call = [c \in Calls |-> Idle]
    /\ crashed = {}
    /\ thanked = Zero
    /\ abandoned = Zero
    /\ reverted = Zero
    /\ enrolled = [d \in Donations |-> 0]

-----------------------------------------------------------------------------
(* What the handlers decide from.                                          *)

Successful(status) == status = "completed"

\* isThanksEligibleDonation: a large amount, or recurring, which an intent still to
\* enrol and an installment paid by this donation count as.
Eligible(d, r) == d \in Qualifies \/ r.intent = "enroll" \/ d \in settled

\* Channels a message may go out on: the donor has the address and the flag is unset.
OpenChannels(d, r) == {ch \in Contact[d] : ~r.sent[ch]}

\* WhatsApp first, then email.
NextChannel(todo) == IF "message" \in todo THEN "message" ELSE "email"

\* The donation status each notification maps to.
Outcomes == [payfast |-> {"completed", "failed"},
             blinq |-> {"completed", "failed"},
             alfalah |-> {"completed", "pending", "failed"},
             meezan |-> {"completed", "pending", "failed"},
             jazzcash |-> {"completed", "failed"},
             stripe |-> {"completed"},
             manual |-> {}]

\* Callbacks that write message_sent and email_sent back unless the payment succeeded.
FlagWriters == {"payfast", "blinq", "alfalah"}

\* Checkouts that save the whole entity after the gateway answered.
EntitySavers == {"meezan", "blinq", "stripe"}

\* Gateways getProviderStatus can ask.
Pollable == {"meezan", "jazzcash", "alfalah"}

Posted(d, gw, to) == [d |-> d, gw |-> gw, to |-> to] \in notes

\* What a provider answers when asked about d: the truth at that moment.
ProviderAnswers(d, gw) ==
    IF Posted(d, gw, "completed")
    THEN IF gw = "meezan" THEN {"completed", "cancelled", "refunded"} ELSE {"completed"}
    ELSE Outcomes[gw] \ {"completed"}

-----------------------------------------------------------------------------
(* Control flow of a call.                                                 *)

Running(c) == call[c].pc \notin {"idle", "done"} /\ c \notin crashed

At(c, pc) == call[c].pc = pc /\ c \notin crashed

\* The call goes to its next step; a finished call keeps its kind and no locals.
Become(c, r) ==
    call' = [call EXCEPT ![c] = 
                 IF r.pc = "done" THEN [Idle EXCEPT !.pc = "done", !.kind = r.kind] ELSE r]

Goto(c, pc) == Become(c, [call[c] EXCEPT !.pc = pc])

\* Handlers that write a status they were given, and what they do once it is written.
AfterWrite(r) ==
    IF r.gw = "stripe" /\ r.kind = "callback" THEN "recheck"
    ELSE IF ~Successful(r.to) \/ r.kind = "public" THEN "done"
    ELSE IF r.kind = "edit" THEN IF Successful(r.seen.status) THEN "done" ELSE "pipeline"
    ELSE IF r.kind \in {"callback", "return"} /\ r.gw \in {"payfast", "alfalah"} THEN "batch"
    ELSE "activate"

\* Mutant: a paid donation stops at its batches.
AfterBatchNothing(r) == IF r.kind = "create" THEN "invoice" ELSE "done"

AfterBatch(r) == IF r.kind = "create" THEN "invoice" ELSE "activate"

AfterActivate(r) ==
    IF r.kind = "create" THEN "batch" ELSE IF r.kind = "cron" THEN "done" ELSE "ledger"

\* Mutant: the checkout leaves the enrolment to the payment.
AfterPipelineNoEnrolment(r) ==
    IF r.kind = "create" THEN "batch" ELSE IF r.kind = "retry" THEN "invoice" ELSE "done"

AfterPipeline(r) ==
    IF r.kind = "create" THEN IF r.saved.intent = "enroll" THEN "activate" ELSE "batch"
    ELSE IF r.kind = "retry" THEN "invoice" ELSE "done"

\* A write to one row that carries sent flags counts each flag it takes back.
Overwrite(d, new) ==
    /\ row' = [row EXCEPT ![d] = new]
    /\ reverted' = [reverted EXCEPT ![d] =
                      [ch \in Channels |->
                         @[ch] + (IF row[d].sent[ch] /\ ~new.sent[ch] THEN 1 ELSE 0)]]

-----------------------------------------------------------------------------
(* The customer and the gateways.                                          *)

\* The customer tries to pay an open invoice; the gateway posts the outcome.
\* Once an invoice is paid the gateway takes no further attempt on it.
Attempt(d, gw, to) ==
    /\ gw \in issued[d]
    /\ to \in Outcomes[gw]
    /\ ~Posted(d, gw, "completed")
    /\ ~Posted(d, gw, to)
    /\ notes' = notes \union {[d |-> d, gw |-> gw, to |-> to]}
    /\ UNCHANGED <<db, issued, call, crashed, hist>>

-----------------------------------------------------------------------------
(* Arrivals: the first statements of each handler, up to its first await   *)
(* after reading the row.                                                  *)

Arrives(c, kind) == call[c].pc = "idle" /\ kind \in Kinds

\* create() without previous_donation_id: the row is inserted.  Staff may record
\* a manual payment that is already completed; a website row starts pending.
Create(c, d, gw, to, intent) ==
    /\ Arrives(c, "create")
    /\ row[d].status = "none"
    /\ gw \in Gateways
    /\ intent \in (IF d \in Enrolls /\ gw # "stripe" THEN {"none", "enroll"} ELSE {"none"})
    /\ to \in (IF gw = "manual" THEN {"pending", "completed"} ELSE {"pending"})
    /\ LET new == [status |-> to, sent |-> Unsent, method |-> gw,
                   intent |-> intent]
           r   == [Idle EXCEPT !.kind = "create", !.gw = gw, !.d = d, !.to = to,
                               !.seen = new, !.saved = new]
       IN  /\ Overwrite(d, new)
           /\ Become(c, [r EXCEPT !.pc = IF Successful(to) THEN "pipeline"
                                                           ELSE AfterPipeline(r)])
    /\ UNCHANGED <<stage, pledges, allocated, settled, net, crashed, thanked, abandoned,
                   enrolled>>

\* create() with previous_donation_id: the row is patched with the new method
\* and, when the request carries one, the status.
Retry(c, d, gw, to) ==
    /\ Arrives(c, "retry")
    /\ row[d].status # "none"
    /\ gw \in Gateways \ {"manual"}
    /\ to \in {"pending", row[d].status}
    /\ row' = [row EXCEPT ![d].method = gw, ![d].status = to]
    /\ Become(c, [Idle EXCEPT !.pc = "reread", !.kind = "retry", !.gw = gw, !.d = d,
                              !.to = "pending"])
    /\ UNCHANGED <<stage, pledges, allocated, settled, net, crashed, hist>>

\* A gateway notification reaches its handler, which reads the row and goes on at pc.
Deliver(c, n, pc) ==
    /\ Arrives(c, "callback")
    /\ Become(c, [Idle EXCEPT !.pc = pc, !.kind = "callback", !.gw = n.gw, !.d = n.d,
                              !.to = n.to, !.seen = row[n.d],
                              !.todo = IF pc = "abandon" THEN OpenChannels(n.d, row[n.d])
                                                         ELSE {}])
    /\ UNCHANGED <<db, net, crashed, hist>>

\* A failed payment of an eligible donation is followed up on every open channel.
AbandonOrWrite(d, to, seen) ==
    IF to = "failed" /\ Eligible(d, seen) /\ OpenChannels(d, seen) # {} THEN "abandon" ELSE "write"

\* No status stops the PayFast notification.
PayfastIpn(c, n) ==
    /\ n.gw = "payfast"
    /\ Deliver(c, n, AbandonOrWrite(n.d, n.to, row[n.d]))

\* Blinq: "Invoice already paid".
BlinqCallback(c, n) ==
    /\ n.gw = "blinq"
    /\ Deliver(c, n, IF row[n.d].status = "completed" THEN "done"
                     ELSE AbandonOrWrite(n.d, n.to, row[n.d]))

\* Alfalah's listener, with the outcome in its payload.
AlfalahListener(c, n) ==
    /\ n.gw = "alfalah"
    /\ Deliver(c, n, IF row[n.d].status = "completed" THEN "done"
                     ELSE AbandonOrWrite(n.d, n.to, row[n.d]))

\* The browser reports what Meezan told it.
MeezanUpdate(c, n) ==
    /\ n.gw = "meezan"
    /\ Deliver(c, n, IF row[n.d].status \in {"completed", "cancelled", "refunded"} THEN "done"
                     ELSE "write")

\* JazzCash confirms the charge; an equal status changes nothing.
JazzCashIpn(c, n) ==
    /\ n.gw = "jazzcash"
    /\ Deliver(c, n, IF row[n.d].status = n.to THEN "done" ELSE "write")

\* Mutant: a completed donation ends the webhook.
StripeWebhookSkips(c, n) ==
    /\ n.gw = "stripe"
    /\ Deliver(c, n, IF row[n.d].status = "completed" THEN "done" ELSE "write")

\* Stripe skips the write on a completed row, never the side effects.
StripeWebhook(c, n) ==
    /\ n.gw = "stripe"
    /\ Deliver(c, n, IF row[n.d].status = "completed" THEN "recheck" ELSE "write")

Callback(c, n) ==
    \/ PayfastIpn(c, n)
    \/ BlinqCallback(c, n)
    \/ AlfalahListener(c, n)
    \/ MeezanUpdate(c, n)
    \/ JazzCashIpn(c, n)
    \/ StripeWebhook(c, n)

\* The browser comes back from Alfalah: the row is read, then the bank is asked.
Return(c, d) ==
    /\ Arrives(c, "return")
    /\ "alfalah" \in issued[d]
    /\ row[d].status # "completed"
    /\ Become(c, [Idle EXCEPT !.pc = "query", !.kind = "return", !.gw = "alfalah", !.d = d,
                              !.seen = row[d]])
    /\ UNCHANGED <<db, net, crashed, hist>>

\* getProviderStatus, from the nightly sync or a staff member: the row is read,
\* then the provider of its current method is asked.
Poll(c, d) ==
    /\ Arrives(c, "poll")
    /\ row[d].method \in Pollable \intersect issued[d]
    /\ Become(c, [Idle EXCEPT !.pc = "query", !.kind = "poll", !.gw = row[d].method, !.d = d,
                              !.seen = row[d]])
    /\ UNCHANGED <<db, net, crashed, hist>>

\* A status given in the request is written after the row was read.
SetStatus(c, kind, d, to) ==
    /\ Arrives(c, kind)
    /\ row[d].status # "none"
    /\ to \in {"pending", "completed", "failed", "cancelled"}
    /\ Become(c, [Idle EXCEPT !.pc = "write", !.kind = kind, !.d = d, !.to = to,
                              !.seen = row[d]])
    /\ UNCHANGED <<db, net, crashed, hist>>

\* The staff status action returns early on an equal status.
UpdateStatusAction(c, d, to) == row[d].status # to /\ SetStatus(c, "staff", d, to)

\* The staff edit form.
EditDonation(c, d, to) == SetStatus(c, "edit", d, to)

\* The public update-status link.
UpdateFromPublic(c, d, to) == SetStatus(c, "public", d, to)

\* The enrolment cron picks rows whose intent was never activated.
Cron(c, d) ==
    /\ Arrives(c, "cron")
    /\ row[d].status \in {"pending", "completed"}
    /\ row[d].intent = "enroll"
    /\ Become(c, [Idle EXCEPT !.pc = "activate", !.kind = "cron", !.d = d])
    /\ UNCHANGED <<db, net, crashed, hist>>

-----------------------------------------------------------------------------
(* Deciding and writing the status.                                        *)

\* The provider answers.  A poll that learns nothing new writes nothing.
Query(c) ==
    /\ At(c, "query")
    /\ LET r == call[c]
           known == IF r.gw = "jazzcash" THEN {r.seen.status} ELSE {}
       IN  \E to \in ProviderAnswers(r.d, r.gw) \union known :
             LET pc == IF r.kind = "return" THEN AbandonOrWrite(r.d, to, r.seen)
                       ELSE IF to = r.seen.status THEN "done" ELSE "write"
             IN  Become(c, [r EXCEPT !.to = to, !.pc = pc,
                    !.todo = IF pc = "abandon" THEN OpenChannels(r.d, r.seen) ELSE {}])
    /\ UNCHANGED <<db, net, crashed, hist>>

\* A failed payment: one abandon message per open channel.  The senders return
\* false instead of throwing, so the local flag is set whatever happened.
Abandon(c, ok) ==
    /\ At(c, "abandon")
    /\ ok \/ "send" \in Faults
    /\ LET r == call[c]
           ch == NextChannel(r.todo)
       IN  /\ Become(c, [r EXCEPT !.seen.sent[ch] = TRUE, !.todo = @ \ {ch},
                                  !.pc = IF r.todo = {ch} THEN "write" ELSE "abandon"])
           /\ abandoned' = IF ok THEN [abandoned EXCEPT ![r.d][ch] = @ + 1] ELSE abandoned
    /\ UNCHANGED <<db, net, crashed, thanked, reverted, enrolled>>

\* The UPDATE of the status, unconditional in every handler.  A failed (or, for
\* Alfalah, unfinished) payment also writes the flags as the handler holds them.
Write(c) ==
    /\ At(c, "write")
    /\ LET r == call[c]
           flags == r.kind \in {"callback", "return"} /\ r.gw \in FlagWriters
                       /\ r.to # "completed"
       IN  /\ Overwrite(r.d, [row[r.d] EXCEPT !.status = r.to,
                                 !.sent = IF flags THEN r.seen.sent ELSE @])
           /\ Goto(c, AfterWrite(r))
    /\ UNCHANGED <<stage, pledges, allocated, settled, net, crashed, thanked, abandoned,
                   enrolled>>

\* The Stripe webhook reads the row again before the side effects.
Recheck(c) ==
    /\ At(c, "recheck")
    /\ Goto(c, IF Successful(row[call[c].d].status) THEN "activate" ELSE "done")
    /\ UNCHANGED <<db, net, crashed, hist>>

-----------------------------------------------------------------------------
(* Progress batches: check for an allocation, then allocate.               *)

BatchCheck(c) ==
    /\ At(c, "batch")
    /\ LET r == call[c]
       IN  Goto(c, IF /\ r.d \in Batchable
                      /\ allocated[r.d] = 0
                      /\ r.kind = "create" \/ Successful(row[r.d].status)
                   THEN "allocate" ELSE AfterBatch(r))
    /\ UNCHANGED <<db, net, crashed, hist>>

Allocate(c, ok) ==
    /\ At(c, "allocate")
    /\ ok \/ "batch" \in Faults
    /\ LET r == call[c]
       IN  /\ allocated' = IF ok THEN [allocated EXCEPT ![r.d] = @ + 1] ELSE allocated
           /\ Goto(c, AfterBatch(r))
    /\ UNCHANGED <<row, stage, pledges, settled, net, crashed, hist>>

-----------------------------------------------------------------------------
(* The checkout: an invoice at the gateway, then what each method writes.  *)

Reread(c) ==
    /\ At(c, "reread")
    /\ LET now == row[call[c].d]
       IN  Become(c, [call[c] EXCEPT !.saved = now,
                         !.pc = IF Successful(now.status) THEN "pipeline" ELSE "invoice"])
    /\ UNCHANGED <<db, net, crashed, hist>>

\* A PayFast token.  A manual payment needs no invoice.
TokenOrManual(c, ok) ==
    /\ At(c, "invoice")
    /\ ok \/ "invoice" \in Faults
    /\ LET r == call[c]
       IN  /\ r.gw \in {"payfast", "manual"}
           /\ issued' = IF ok THEN [issued EXCEPT ![r.d] = @ \union ({r.gw} \ {"manual"})]
                        ELSE issued
    /\ Goto(c, "done")
    /\ UNCHANGED <<db, notes, crashed, hist>>

\* Alfalah: an unconditional "pending", then the handshake with the bank.
AlfalahHandshake(c, ok) ==
    /\ At(c, "invoice")
    /\ ok \/ "invoice" \in Faults
    /\ LET r == call[c]
       IN  /\ r.gw = "alfalah"
           /\ row' = [row EXCEPT ![r.d].status = "pending"]
           /\ issued' = IF ok THEN [issued EXCEPT ![r.d] = @ \union {r.gw}] ELSE issued
    /\ Goto(c, "done")
    /\ UNCHANGED <<stage, pledges, allocated, settled, notes, crashed, hist>>

\* Mutant: the customer gets the payment link before the entity is saved.
RegisterInvoiceEarly(c, ok) ==
    /\ At(c, "invoice")
    /\ ok
    /\ call[c].gw \in EntitySavers
    /\ issued' = [issued EXCEPT ![call[c].d] = @ \union {call[c].gw}]
    /\ Goto(c, "save")
    /\ UNCHANGED <<db, notes, crashed, hist>>

\* Meezan, Blinq and Stripe answer with an order id, to be saved on the entity.
\* When the gateway refuses, only err_msg is written and the request fails.
RegisterInvoice(c, ok) ==
    /\ At(c, "invoice")
    /\ ok \/ "invoice" \in Faults
    /\ call[c].gw \in EntitySavers
    /\ Goto(c, IF ok THEN "save" ELSE "done")
    /\ UNCHANGED <<db, net, crashed, hist>>

\* repository.save(savedDonation): every column that differs from the entity the
\* call has held since its insert or re-read is written back.  Only then does the
\* customer get the payment link.
SaveEntity(c) ==
    /\ At(c, "save")
    /\ LET r == call[c]
       IN  /\ Overwrite(r.d, r.saved)
           /\ issued' = [issued EXCEPT ![r.d] = @ \union {r.gw}]
    /\ Goto(c, "done")
    /\ UNCHANGED <<stage, pledges, allocated, settled, notes, crashed, thanked, abandoned,
                   enrolled>>

\* JazzCash charges the wallet within the request and notifies as well.  When
\* the answer is lost (ok = FALSE) the charge may have happened all the same.
Charge(c, to, ok) ==
    /\ At(c, "invoice")
    /\ call[c].gw = "jazzcash"
    /\ to \in Outcomes["jazzcash"]
    /\ ok \/ "invoice" \in Faults
    /\ LET d == call[c].d
       IN  /\ notes' = notes \union {[d |-> d, gw |-> "jazzcash", to |-> to]}
           /\ issued' = [issued EXCEPT ![d] = @ \union {"jazzcash"}]
           /\ Become(c, [call[c] EXCEPT !.kind = "charge", !.to = to,
                                        !.pc = IF ok THEN "write" ELSE "done"])
    /\ UNCHANGED <<db, crashed, hist>>

-----------------------------------------------------------------------------
(* afterSuccessfulDonationPayment, first part: activating the pledge.      *)

Activate(c) ==
    /\ At(c, "activate")
    /\ LET r == call[c]
           seen == row[r.d]
           go == seen.status \in {"pending", "completed"} /\ seen.intent = "enroll"
       IN  Become(c, [r EXCEPT !.seen = seen, !.stage = stage[DonorOf[r.d]],
                               !.pc = IF go THEN "findPledge" ELSE AfterActivate(r)])
    /\ UNCHANGED <<db, net, crashed, hist>>

\* Mutant: the intent is marked whether or not there is a pledge.
FindPledgeNever(c) ==
    /\ At(c, "findPledge")
    /\ Goto(c, "markIntent")
    /\ UNCHANGED <<db, net, crashed, hist>>

\* createFromWebsiteCheckout: an active pledge is returned as it is.
FindPledge(c) ==
    /\ At(c, "findPledge")
    /\ Goto(c, IF pledges[DonorOf[call[c].d]] > 0 THEN "markIntent" ELSE "checkPledge")
    /\ UNCHANGED <<db, net, crashed, hist>>

\* create() looks again and throws when it now finds one: the activation is given up.
CheckPledge(c) ==
    /\ At(c, "checkPledge")
    /\ Goto(c, IF pledges[DonorOf[call[c].d]] > 0 THEN AfterActivate(call[c])
                                                  ELSE "insertPledge")
    /\ UNCHANGED <<db, net, crashed, hist>>

InsertPledge(c) ==
    /\ At(c, "insertPledge")
    /\ pledges' = [pledges EXCEPT ![DonorOf[call[c].d]] = @ + 1]
    /\ Goto(c, "markIntent")
    /\ UNCHANGED <<row, stage, allocated, settled, net, crashed, hist>>

\* Any statement of the activation may throw; the error is logged and swallowed.
PledgeFails(c) ==
    /\ call[c].pc \in {"findPledge", "checkPledge", "insertPledge", "markIntent", "saveDonor"}
    /\ c \notin crashed
    /\ "pledge" \in Faults
    /\ Goto(c, AfterActivate(call[c]))
    /\ UNCHANGED <<db, net, crashed, hist>>

MarkIntent(c) ==
    /\ At(c, "markIntent")
    /\ row' = [row EXCEPT ![call[c].d].intent = "activated"]
    /\ enrolled' = [enrolled EXCEPT ![call[c].d] = @ + 1]
    /\ Goto(c, "saveDonor")
    /\ UNCHANGED <<stage, pledges, allocated, settled, net, crashed, thanked, abandoned,
                   reverted>>

\* The donor entity read with the donation is saved whole.
SaveDonor(c) ==
    /\ At(c, "saveDonor")
    /\ stage' = [stage EXCEPT ![DonorOf[call[c].d]] = call[c].stage]
    /\ Goto(c, AfterActivate(call[c]))
    /\ UNCHANGED <<row, pledges, allocated, settled, net, crashed, hist>>

-----------------------------------------------------------------------------
(* Second part: the ledger, the thanks, the donor's stage.                 *)

\* recordNonStripeInstallmentFromDonation, keyed by the donation id.
Settle(c, ok) ==
    /\ At(c, "ledger")
    /\ ok \/ "ledger" \in Faults
    /\ LET d == call[c].d
       IN  settled' = IF ok /\ d \in Linked /\ Successful(row[d].status)
                      THEN settled \union {d} ELSE settled
    /\ Goto(c, "thanks")
    /\ UNCHANGED <<row, stage, pledges, allocated, net, crashed, hist>>

\* sendDonationThanksOnce reads the donation and its donor.
ThanksRead(c) ==
    /\ At(c, "thanks")
    /\ LET r == call[c]
           seen == row[r.d]
           todo == IF Successful(seen.status) /\ Eligible(r.d, seen)
                   THEN OpenChannels(r.d, seen) ELSE {}
       IN  Become(c, [r EXCEPT !.seen = seen, !.todo = todo,
                               !.pc = IF todo = {} THEN "pipeline" ELSE "claim"])
    /\ UNCHANGED <<db, net, crashed, hist>>

\* The step after channel ch: the next channel, or the donor's stage.
NextThanks(c, ch) ==
    LET rest == call[c].todo \ {ch}
    IN  Become(c, [call[c] EXCEPT !.todo = rest,
                                  !.pc = IF rest = {} THEN "pipeline" ELSE "claim"])

\* Mutant: the claim trusts the row as it was read.
ClaimableAsRead(r, ch) == ch \in OpenChannels(r.d, r.seen)

\* UPDATE ... WHERE flag is not set: only the call that affects the row sends.
Claimable(r, ch) == ~row[r.d].sent[ch]

Claim(c) ==
    /\ At(c, "claim")
    /\ LET r == call[c]
           ch == NextChannel(r.todo)
       IN  IF Claimable(r, ch)
           THEN row' = [row EXCEPT ![r.d].sent[ch] = TRUE] /\ Goto(c, "send")
           ELSE row' = row /\ NextThanks(c, ch)
    /\ UNCHANGED <<stage, pledges, allocated, settled, net, crashed, hist>>

Send(c, ok) ==
    /\ At(c, "send")
    /\ ok \/ "send" \in Faults
    /\ LET r == call[c]
           ch == NextChannel(r.todo)
       IN  IF ok
           THEN /\ thanked' = [thanked EXCEPT ![r.d][ch] = @ + 1]
                /\ NextThanks(c, ch)
           ELSE thanked' = thanked /\ Goto(c, "release")
    /\ UNCHANGED <<db, net, crashed, abandoned, reverted, enrolled>>

\* Mutant: a failed send keeps its claim.
ReleaseForgotten(c) ==
    /\ At(c, "release")
    /\ NextThanks(c, NextChannel(call[c].todo))
    /\ UNCHANGED <<db, net, crashed, hist>>

\* releaseDonationThanksFlag: the send failed, so a later call may try again.
Release(c) ==
    /\ At(c, "release")
    /\ LET r == call[c]
           ch == NextChannel(r.todo)
       IN  /\ row' = [row EXCEPT ![r.d].sent[ch] = FALSE]
           /\ NextThanks(c, ch)
    /\ UNCHANGED <<stage, pledges, allocated, settled, net, crashed, hist>>

\* advanceDonorPipelineIfDonationCompleted: read the donation, then move the donor.
PipelineCheck(c) ==
    /\ At(c, "pipeline")
    /\ Goto(c, IF Successful(row[call[c].d].status) THEN "promote" ELSE AfterPipeline(call[c]))
    /\ UNCHANGED <<db, net, crashed, hist>>

Promote(c) ==
    /\ At(c, "promote")
    /\ stage' = [stage EXCEPT ![DonorOf[call[c].d]] = "donor"]
    /\ Goto(c, AfterPipeline(call[c]))
    /\ UNCHANGED <<row, pledges, allocated, settled, net, crashed, hist>>

\* The process dies, or an error nobody catches ends the handler here.
Crash(c) ==
    /\ Running(c)
    /\ Cardinality(crashed) < MaxCrashes
    /\ crashed' = crashed \union {c}
    /\ UNCHANGED <<db, net, call, hist>>

-----------------------------------------------------------------------------
Arrive(c) ==
    \/ \E d \in Donations, gw \in AllGateways, to \in Status :
          Retry(c, d, gw, to) \/ \E intent \in Intents : Create(c, d, gw, to, intent)
    \/ \E n \in notes : Callback(c, n)
    \/ \E d \in Donations : Return(c, d) \/ Poll(c, d) \/ Cron(c, d)
    \/ \E d \in Donations, to \in Status :
          UpdateStatusAction(c, d, to) \/ EditDonation(c, d, to) \/ UpdateFromPublic(c, d, to)

Step(c) ==
    \/ Query(c)
    \/ \E ok \in BOOLEAN : Abandon(c, ok)
    \/ Write(c)
    \/ Recheck(c)
    \/ BatchCheck(c)
    \/ \E ok \in BOOLEAN : Allocate(c, ok)
    \/ Reread(c)
    \/ \E ok \in BOOLEAN : TokenOrManual(c, ok)
    \/ \E ok \in BOOLEAN : AlfalahHandshake(c, ok)
    \/ \E ok \in BOOLEAN : RegisterInvoice(c, ok)
    \/ SaveEntity(c)
    \/ \E to \in Status, ok \in BOOLEAN : Charge(c, to, ok)
    \/ Activate(c)
    \/ FindPledge(c)
    \/ CheckPledge(c)
    \/ InsertPledge(c)
    \/ PledgeFails(c)
    \/ MarkIntent(c)
    \/ SaveDonor(c)
    \/ \E ok \in BOOLEAN : Settle(c, ok)
    \/ ThanksRead(c)
    \/ Claim(c)
    \/ \E ok \in BOOLEAN : Send(c, ok)
    \/ Release(c)
    \/ PipelineCheck(c)
    \/ Promote(c)

Customer == \E d \in Donations, gw \in AllGateways, to \in Status : Attempt(d, gw, to)

Next ==
    \/ Customer
    \/ \E c \in Calls : Arrive(c) \/ Step(c) \/ Crash(c)

Spec == Init /\ [][Next]_vars

\* Every call goes on while its process lives.  A gateway repeats a notification
\* while every call that took one has died, and no longer: any answer stops it.
Redelivery ==
    /\ \A c \in Calls : call[c].kind = "callback" => c \in crashed
    /\ \E c \in Calls, n \in notes : Callback(c, n)

FairSpec == Spec /\ WF_vars(Redelivery) /\ \A c \in Calls : WF_vars(Step(c))

-----------------------------------------------------------------------------
\* Every variable is of its type: a donation's row, a donor's stage and the locals of a
\* call are what the handlers can store in them.
TypeOK ==
    /\ row \in [Donations -> Row]
    /\ stage \in [Donors -> Stages]
    /\ pledges \in [Donors -> Nat]
    /\ allocated \in [Donations -> Nat]
    /\ settled \subseteq Donations
    /\ issued \in [Donations -> SUBSET AllGateways]
    /\ notes \subseteq Note
    /\ call \in [Calls -> Call]
    /\ crashed \subseteq Calls
    /\ thanked \in [Donations -> [Channels -> Nat]]
    /\ abandoned \in [Donations -> [Channels -> Nat]]
    /\ reverted \in [Donations -> [Channels -> Nat]]
    /\ enrolled \in [Donations -> Nat]

\* A donor is thanked once per channel, and once more at most for each time a
\* write took the sent flag back: sendDonationThanksOnce's claim lets no two
\* calls through on one setting of the flag.
ThanksAccounted ==
    \A d \in Donations, ch \in Channels : thanked[d][ch] <= 1 + reverted[d][ch]

\* "Never double-sends a channel" as the comment on sendDonationThanksOnce has it.
ThanksAtMostOnce ==
    \A d \in Donations, ch \in Channels : thanked[d][ch] <= 1

\* Calls between the claim of a flag and the end of the send, dead ones included.
Holds(c, d, ch) ==
    /\ call[c].pc \in {"send", "release"}
    /\ call[c].d = d
    /\ NextChannel(call[c].todo) = ch

\* A set flag stands for a message: one was accepted, or is being sent, or the
\* call that claimed it died.
FlagHonest ==
    \A d \in Donations, ch \in Channels :
        row[d].sent[ch] => \/ thanked[d][ch] + abandoned[d][ch] > 0
                           \/ \E c \in Calls : Holds(c, d, ch)

Quiet == \A c \in Calls : ~Running(c)

\* Once nothing runs, a completed donation has had its side effects whatever the
\* order of the calls: the ledger entry, a set flag on every channel its donor has,
\* and, unless the enrolment of a pledge wrote the stage as well, the donor's stage.
EffectsComplete ==
    Quiet => \A d \in Donations :
        Successful(row[d].status) =>
            /\ d \in Linked => d \in settled
            /\ enrolled[d] = 0 => stage[DonorOf[d]] = "donor"
            /\ Eligible(d, row[d]) => OpenChannels(d, row[d]) = {}

\* An intent marked activated has a pledge behind it.
ActivatedHasPledge ==
    \A d \in Donations : row[d].intent = "activated" => pledges[DonorOf[d]] > 0

\* What is not to be repeated happens once though every handler checks and then acts in
\* separate statements: a donation is allocated into batches once and its intent
\* activated once, and a donor has one active pledge.
EffectsOnce ==
    /\ \A d \in Donations : allocated[d] <= 1 /\ enrolled[d] <= 1
    /\ \A p \in Donors : pledges[p] <= 1

\* A completed donation stays completed, however Stripe's events repeat, overlap and
\* meet the checkout that opened the session.
FinalKept ==
    [][\A d \in Donations :
         row[d].status = "completed" => row'[d].status = "completed"]_row

\* A payment Stripe has taken reaches the ledger and the donor's stage, though
\* handlers die, as long as one delivery survives.
PaidSettles ==
    \A d \in Linked :
        Posted(d, "stripe", "completed") ~> d \in settled /\ stage[DonorOf[d]] = "donor"
=============================================================================
