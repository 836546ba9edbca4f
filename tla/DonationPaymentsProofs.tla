----------------------- MODULE DonationPaymentsProofs -----------------------
(***************************************************************************)
(* Proofs about DonationPayments for every set of donations, donors and    *)
(* calls.  The first three parts hold for every choice of gateways, call   *)
(* kinds and faults, and any number of crashes: TypeOK, one lemma per      *)
(* group of actions; ThanksAccounted, strengthened to Accounting; and      *)
(* ActivatedHasPledge, strengthened to Backing.                            *)
(*                                                                         *)
(* Then what a step does to a call is stated action by action (BecomeIs to *)
(* ArriveIs), and the rest uses those lemmas:                              *)
(*   - Placed, where each handler may be and what it holds there, again    *)
(*     for every choice of constants;                                      *)
(*   - Opening, a first checkout has its donation to itself, from which    *)
(*     FinalKept follows for Stripe;                                       *)
(*   - Flags, what a set flag or a stale copy of one stands for;           *)
(*   - Once, what a checkout did before it handed out the payment link;    *)
(*   - Carried, what a paid donation is still to have, and from whom.      *)
(* Each of these four names the kinds of calls, gateways and faults it     *)
(* needs (NoEdits, StripeOnly, FlagsKept, OnlyOnce, AllServed).            *)
(***************************************************************************)
EXTENDS DonationPayments, FiniteSetTheorems, TLAPS

\* A call that has not started is well formed.
LEMMA IdleType == Idle \in Call
BY ConstantsAssumption
   DEF Idle, Call, Row, NoRow, Unsent, Status, Stages, Steps, AllKinds, AllGateways,
       Intents, Channels

\* Become installs a well formed record for one call and leaves the others alone.
LEMMA BecomeType ==
    ASSUME call \in [Calls -> Call], NEW c \in Calls, NEW r \in Call, Become(c, r)
    PROVE  /\ call' \in [Calls -> Call]
           /\ \A b \in Calls : b # c => call'[b] = call[b]
           /\ call'[c].pc = r.pc
<1>1. [Idle EXCEPT !.pc = "done", !.kind = r.kind] \in Call
      BY IdleType DEF Call, Steps
<1>2. QED BY <1>1 DEF Become

\* Every outcome a gateway posts is a donation status.
LEMMA OutcomesType ==
    \A gw \in AllGateways : Outcomes[gw] \subseteq Status \ {"none"}
BY DEF Outcomes, AllGateways, Status

\* Goto keeps the calls well formed and moves one of them.
LEMMA GotoType ==
    ASSUME call \in [Calls -> Call], NEW c \in Calls, NEW pc \in Steps, Goto(c, pc)
    PROVE  /\ call' \in [Calls -> Call]
           /\ \A b \in Calls : b # c => call'[b] = call[b]
           /\ call'[c].pc = pc
<1>1. [call[c] EXCEPT !.pc = pc] \in Call
      BY DEF Call
<1>2. [call[c] EXCEPT !.pc = pc].pc = pc
      BY DEF Call
<1>3. QED BY <1>1, <1>2, BecomeType DEF Goto
\* The absent row is well formed.
LEMMA NoRowType == NoRow \in Row
BY DEF NoRow, Row, Unsent, Status, Intents, Channels, AllGateways

\* What a call about to answer a notification looks like.
LEMMA DeliverType ==
    ASSUME TypeOK, NEW c \in Calls, NEW n \in notes, NEW pc \in Steps, Deliver(c, n, pc)
    PROVE  TypeOK'
<1> DEFINE r == [Idle EXCEPT !.pc = pc, !.kind = "callback", !.gw = n.gw, !.d = n.d,
                             !.to = n.to, !.seen = row[n.d],
                             !.todo = IF pc = "abandon" THEN OpenChannels(n.d, row[n.d])
                                                        ELSE {}]
<1>1. n \in Note /\ row[n.d] \in Row
      BY DEF TypeOK, Note
<1>2. OpenChannels(n.d, row[n.d]) \subseteq Channels
      BY <1>1, ConstantsAssumption DEF OpenChannels, Note
<1>3. r \in Call
      BY <1>1, <1>2, IdleType DEF Call, Note, AllKinds
<1>4. call' \in [Calls -> Call]
      BY <1>3, BecomeType DEF Deliver, TypeOK
<1>5. QED BY <1>4 DEF Deliver, TypeOK, db, net, hist

\* Each gateway's handler keeps the types when a notification arrives.
LEMMA CallbackType ==
    ASSUME TypeOK, NEW c \in Calls, NEW n \in notes, Callback(c, n)
    PROVE  TypeOK'
<1>1. \A d, to, seen : AbandonOrWrite(d, to, seen) \in Steps
      BY DEF AbandonOrWrite, Steps
<1>2. {"done", "write", "recheck"} \subseteq Steps
      BY DEF Steps
<1>3. QED BY <1>1, <1>2, DeliverType
          DEF Callback, PayfastIpn, BlinqCallback, AlfalahListener, MeezanUpdate,
              JazzCashIpn, StripeWebhook

\* Overwrite keeps the donations table and the count of reverted flags well formed.
LEMMA OverwriteType ==
    ASSUME TypeOK, NEW d \in Donations, NEW new \in Row, Overwrite(d, new)
    PROVE  /\ row' \in [Donations -> Row]
           /\ reverted' \in [Donations -> [Channels -> Nat]]
<1>1. [ch \in Channels |->
          reverted[d][ch] + (IF row[d].sent[ch] /\ ~new.sent[ch] THEN 1 ELSE 0)]
             \in [Channels -> Nat]
      BY DEF TypeOK
<1>2. QED BY <1>1 DEF Overwrite, TypeOK

\* Inserting a donation keeps the types.
LEMMA CreateType ==
    ASSUME TypeOK, NEW c \in Calls, NEW d \in Donations, NEW gw \in AllGateways,
           NEW to \in Status, NEW intent \in Intents, Create(c, d, gw, to, intent)
    PROVE  TypeOK'
<1> DEFINE new == [status |-> to, sent |-> Unsent, method |-> gw,
                   intent |-> intent]
           r   == [Idle EXCEPT !.kind = "create", !.gw = gw, !.d = d, !.to = to,
                               !.seen = new, !.saved = new]
<1>1. new \in Row
      BY DEF Row, Unsent, Channels, Intents
<1>2. r \in Call
      BY <1>1, IdleType DEF Call, AllKinds
<1>3. AfterPipeline(r) \in Steps /\ "pipeline" \in Steps
      BY <1>2 DEF AfterPipeline, Steps
<1> HIDE DEF r
<1>4. [r EXCEPT !.pc = IF Successful(to) THEN "pipeline" ELSE AfterPipeline(r)] \in Call
      BY <1>2, <1>3 DEF Call
<1>5. call' \in [Calls -> Call]
      BY <1>4, BecomeType DEF Create, TypeOK, r
<1>6. Overwrite(d, new)
      BY DEF Create
<1>7. row' \in [Donations -> Row] /\ reverted' \in [Donations -> [Channels -> Nat]]
      BY <1>1, <1>6, OverwriteType
<1>8. QED BY <1>5, <1>7 DEF Create, TypeOK, net

\* Patching a donation for a payment retry keeps the types.
LEMMA RetryType ==
    ASSUME TypeOK, NEW c \in Calls, NEW d \in Donations, NEW gw \in AllGateways,
           NEW to \in Status, Retry(c, d, gw, to)
    PROVE  TypeOK'
<1>1. [Idle EXCEPT !.pc = "reread", !.kind = "retry", !.gw = gw, !.d = d, !.to = "pending"]
         \in Call
      BY IdleType DEF Call, AllKinds, Steps, Status
<1>2. call' \in [Calls -> Call]
      BY <1>1, BecomeType DEF Retry, TypeOK
<1>3. [row[d] EXCEPT !.method = gw, !.status = to] \in Row
      BY DEF TypeOK, Row
<1>4. row' \in [Donations -> Row]
      BY <1>3 DEF Retry, TypeOK, Row
<1>5. QED BY <1>2, <1>4 DEF Retry, TypeOK, net, hist

\* Every arrival keeps the types.
LEMMA ArriveType ==
    ASSUME TypeOK, NEW c \in Calls, Arrive(c)
    PROVE  TypeOK'
<1>1. CASE \E d \in Donations, gw \in AllGateways, to \in Status :
              Retry(c, d, gw, to) \/ \E intent \in Intents : Create(c, d, gw, to, intent)
      BY <1>1, CreateType, RetryType
<1>2. CASE \E n \in notes : Callback(c, n)
      BY <1>2, CallbackType
<1>3. ASSUME NEW d \in Donations, Return(c, d)
      PROVE  TypeOK'
  <2>1. [Idle EXCEPT !.pc = "query", !.kind = "return", !.gw = "alfalah", !.d = d,
                     !.seen = row[d]] \in Call
        BY IdleType DEF Call, AllKinds, Steps, AllGateways, TypeOK
  <2>2. QED BY <1>3, <2>1, BecomeType DEF Return, TypeOK, db, net, hist
<1>4. ASSUME NEW d \in Donations, Poll(c, d)
      PROVE  TypeOK'
  <2>1. [Idle EXCEPT !.pc = "query", !.kind = "poll", !.gw = row[d].method, !.d = d,
                     !.seen = row[d]] \in Call
        BY IdleType DEF Call, AllKinds, Steps, TypeOK, Row
  <2>2. QED BY <1>4, <2>1, BecomeType DEF Poll, TypeOK, db, net, hist
<1>5. ASSUME NEW d \in Donations, Cron(c, d)
      PROVE  TypeOK'
  <2>1. [Idle EXCEPT !.pc = "activate", !.kind = "cron", !.d = d] \in Call
        BY IdleType DEF Call, AllKinds, Steps
  <2>2. QED BY <1>5, <2>1, BecomeType DEF Cron, TypeOK, db, net, hist
<1>6. ASSUME NEW d \in Donations, NEW to \in Status, NEW kind \in AllKinds,
             SetStatus(c, kind, d, to)
      PROVE  TypeOK'
  <2>1. [Idle EXCEPT !.pc = "write", !.kind = kind, !.d = d, !.to = to, !.seen = row[d]]
           \in Call
        BY IdleType DEF Call, Steps, TypeOK
  <2>2. QED BY <1>6, <2>1, BecomeType DEF SetStatus, TypeOK, db, net, hist
<1>7. {"staff", "edit", "public"} \subseteq AllKinds
      BY DEF AllKinds
<1>8. QED BY <1>1, <1>2, <1>3, <1>4, <1>5, <1>6, <1>7
          DEF Arrive, UpdateStatusAction, EditDonation, UpdateFromPublic

\* What follows a write, the batches, the activation or the promotion is a step.
LEMMA NextSteps ==
    \A r : {AfterWrite(r), AfterBatch(r), AfterActivate(r), AfterPipeline(r)} \subseteq Steps
BY DEF AfterWrite, AfterBatch, AfterActivate, AfterPipeline, Steps

\* Steps that only move the call on.
LEMMA MoveType ==
    ASSUME TypeOK, NEW c \in Calls, NEW pc \in Steps, Goto(c, pc),
           UNCHANGED <<db, net, crashed, hist>>
    PROVE  TypeOK'
BY GotoType DEF TypeOK, db, net, hist

\* Going on to the next channel keeps the calls well formed.
LEMMA NextThanksType ==
    ASSUME TypeOK, NEW c \in Calls, NEW ch, NextThanks(c, ch)
    PROVE  call' \in [Calls -> Call]
<1> DEFINE rest == call[c].todo \ {ch}
           r == [call[c] EXCEPT !.todo = rest,
                                !.pc = IF rest = {} THEN "pipeline" ELSE "claim"]
<1>1. rest \subseteq Channels
      BY DEF TypeOK, Call
<1>2. {"pipeline", "claim"} \subseteq Steps
      BY DEF Steps
<1> HIDE DEF rest
<1>3. r \in Call
      BY <1>1, <1>2 DEF TypeOK, Call
<1>4. QED BY <1>3, BecomeType DEF NextThanks, TypeOK, rest

\* A provider's answer keeps the types.
LEMMA QueryType ==
    ASSUME TypeOK, NEW c \in Calls, Query(c)
    PROVE  TypeOK'
<1> DEFINE r == call[c]
           known == IF r.gw = "jazzcash" THEN {r.seen.status} ELSE {}
           pc(to) == IF r.kind = "return" THEN AbandonOrWrite(r.d, to, r.seen)
                     ELSE IF to = r.seen.status THEN "done" ELSE "write"
           next(to) == [r EXCEPT !.to = to, !.pc = pc(to),
                           !.todo = IF pc(to) = "abandon" THEN OpenChannels(r.d, r.seen)
                                                          ELSE {}]
<1>1. r \in Call /\ r.seen \in Row /\ r.d \in Donations
      BY DEF TypeOK, Call
<1>2. PICK to \in ProviderAnswers(r.d, r.gw) \union known : Become(c, next(to))
      BY DEF Query
<1>3. ProviderAnswers(r.d, r.gw) \subseteq Status
      BY <1>1, OutcomesType DEF ProviderAnswers, Call, Status
<1>4. to \in Status
      BY <1>1, <1>2, <1>3 DEF Row
<1>5. pc(to) \in Steps
      BY DEF AbandonOrWrite, Steps
<1>6. OpenChannels(r.d, r.seen) \subseteq Channels
      BY <1>1, ConstantsAssumption DEF OpenChannels
<1> HIDE DEF pc
<1>7. next(to) \in Call
      BY <1>1, <1>4, <1>5, <1>6 DEF Call
<1>8. call' \in [Calls -> Call]
      BY <1>2, <1>7, BecomeType DEF TypeOK
<1>9. QED BY <1>8 DEF Query, TypeOK, db, net, hist

\* The channel tried next is a channel.
LEMMA NextChannelType == \A todo : NextChannel(todo) \in Channels
BY DEF NextChannel, Channels

\* Counting one more message keeps a table of counts well formed.
LEMMA CountedType ==
    ASSUME NEW f \in [Donations -> [Channels -> Nat]], NEW d \in Donations,
           NEW ch \in Channels
    PROVE  [f EXCEPT ![d][ch] = @ + 1] \in [Donations -> [Channels -> Nat]]
OBVIOUS

\* An abandon message keeps the types.
LEMMA AbandonType ==
    ASSUME TypeOK, NEW c \in Calls, NEW ok \in BOOLEAN, Abandon(c, ok)
    PROVE  TypeOK'
<1> DEFINE r == call[c]
           ch == NextChannel(r.todo)
           next == [r EXCEPT !.seen.sent[ch] = TRUE, !.todo = @ \ {ch},
                             !.pc = IF r.todo = {ch} THEN "write" ELSE "abandon"]
<1>1. r \in Call /\ ch \in Channels
      BY NextChannelType DEF TypeOK
<1>2. [r.seen EXCEPT !.sent[ch] = TRUE] \in Row
      BY <1>1 DEF Call, Row
<1> HIDE DEF ch
<1>3. next = [r EXCEPT !.seen = [r.seen EXCEPT !.sent[ch] = TRUE], !.todo = r.todo \ {ch},
                       !.pc = IF r.todo = {ch} THEN "write" ELSE "abandon"]
      BY <1>1 DEF Call, Row
<1>4. next \in Call
      BY <1>1, <1>2, <1>3 DEF Call, Steps
<1>5. call' \in [Calls -> Call]
      BY <1>4, BecomeType DEF Abandon, TypeOK, ch
<1>6. abandoned' \in [Donations -> [Channels -> Nat]]
      BY <1>1, CountedType DEF Abandon, TypeOK, Call, ch
<1>7. QED BY <1>5, <1>6 DEF Abandon, TypeOK, db, net

\* The update of a status keeps the types.
LEMMA WriteType ==
    ASSUME TypeOK, NEW c \in Calls, Write(c)
    PROVE  TypeOK'
<1> DEFINE r == call[c]
           flags == r.kind \in {"callback", "return"} /\ r.gw \in FlagWriters
                       /\ r.to # "completed"
           new == [row[r.d] EXCEPT !.status = r.to,
                                   !.sent = IF flags THEN r.seen.sent ELSE @]
<1>1. r.d \in Donations /\ r.to \in Status /\ r.seen \in Row /\ row[r.d] \in Row
      BY DEF TypeOK, Call
<1>2. new \in Row
      BY <1>1 DEF Row
<1>3. Overwrite(r.d, new) /\ Goto(c, AfterWrite(r))
      BY DEF Write
<1>4. row' \in [Donations -> Row] /\ reverted' \in [Donations -> [Channels -> Nat]]
      BY <1>1, <1>2, <1>3, OverwriteType
<1>5. call' \in [Calls -> Call]
      BY <1>3, GotoType, NextSteps DEF TypeOK
<1>6. QED BY <1>4, <1>5 DEF Write, TypeOK, net

\* The steps of a checkout at the gateway keep the types.
LEMMA CheckoutType ==
    ASSUME TypeOK, NEW c \in Calls, NEW ok \in BOOLEAN
    PROVE  /\ TokenOrManual(c, ok) => TypeOK'
           /\ AlfalahHandshake(c, ok) => TypeOK'
           /\ RegisterInvoice(c, ok) => TypeOK'
           /\ SaveEntity(c) => TypeOK'
           /\ \A to \in Status : Charge(c, to, ok) => TypeOK'
<1> DEFINE r == call[c]
<1>0. r \in Call /\ r.d \in Donations /\ r.gw \in AllGateways /\ row[r.d] \in Row
      BY DEF TypeOK, Call
<1>1. {"done", "save", "write"} \subseteq Steps /\ "pending" \in Status
      BY DEF Steps, Status
<1>2. [issued EXCEPT ![r.d] = @ \union {r.gw}] \in [Donations -> SUBSET AllGateways]
      BY <1>0 DEF TypeOK
<1>3. CASE TokenOrManual(c, ok)
  <2>1. [issued EXCEPT ![r.d] = @ \union ({r.gw} \ {"manual"})]
           \in [Donations -> SUBSET AllGateways]
        BY <1>0 DEF TypeOK
  <2>2. issued' \in [Donations -> SUBSET AllGateways]
        BY <1>3, <2>1 DEF TokenOrManual, TypeOK
  <2>3. call' \in [Calls -> Call]
        BY <1>1, <1>3, GotoType DEF TokenOrManual, TypeOK
  <2>4. QED BY <1>3, <2>2, <2>3 DEF TokenOrManual, TypeOK, db, hist
<1>4. CASE AlfalahHandshake(c, ok)
  <2>1. [row[r.d] EXCEPT !.status = "pending"] \in Row
        BY <1>0, <1>1 DEF Row
  <2>2. row' \in [Donations -> Row]
        BY <1>0, <1>4, <2>1 DEF AlfalahHandshake, TypeOK
  <2>3. issued' \in [Donations -> SUBSET AllGateways]
        BY <1>2, <1>4 DEF AlfalahHandshake, TypeOK
  <2>4. call' \in [Calls -> Call]
        BY <1>1, <1>4, GotoType DEF AlfalahHandshake, TypeOK
  <2>5. QED BY <1>4, <2>2, <2>3, <2>4 DEF AlfalahHandshake, TypeOK, hist
<1>5. CASE RegisterInvoice(c, ok)
  <2>1. QED BY <1>1, <1>5, MoveType DEF RegisterInvoice
<1>6. CASE SaveEntity(c)
  <2>1. r.saved \in Row /\ Overwrite(r.d, r.saved)
        BY <1>0, <1>6 DEF SaveEntity, Call
  <2>2. row' \in [Donations -> Row] /\ reverted' \in [Donations -> [Channels -> Nat]]
        BY <1>0, <2>1, OverwriteType
  <2>3. issued' \in [Donations -> SUBSET AllGateways]
        BY <1>2, <1>6 DEF SaveEntity
  <2>4. call' \in [Calls -> Call]
        BY <1>1, <1>6, GotoType DEF SaveEntity, TypeOK
  <2>5. QED BY <1>6, <2>2, <2>3, <2>4 DEF SaveEntity, TypeOK
<1>7. ASSUME NEW to \in Status, Charge(c, to, ok)
      PROVE  TypeOK'
  <2>1. [r EXCEPT !.kind = "charge", !.to = to, !.pc = IF ok THEN "write" ELSE "done"]
           \in Call
        BY <1>0, <1>1 DEF Call
  <2>2. call' \in [Calls -> Call]
        BY <1>7, <2>1, BecomeType DEF Charge, TypeOK
  <2>3. "jazzcash" \in AllGateways
        BY DEF AllGateways
  <2>4. issued' \in [Donations -> SUBSET AllGateways]
        BY <1>0, <1>7, <2>3 DEF Charge, TypeOK
  <2>5. notes' \subseteq Note
        BY <1>0, <1>7, <2>3 DEF Charge, TypeOK, Note
  <2>6. QED BY <1>7, <2>2, <2>4, <2>5 DEF Charge, TypeOK, db, hist
<1>8. QED BY <1>3, <1>4, <1>5, <1>6, <1>7

\* The steps of the pledge activation keep the types.
LEMMA ActivationType ==
    ASSUME TypeOK, NEW c \in Calls
    PROVE  /\ Activate(c) => TypeOK'
           /\ FindPledge(c) \/ CheckPledge(c) \/ PledgeFails(c) => TypeOK'
           /\ InsertPledge(c) => TypeOK'
           /\ MarkIntent(c) => TypeOK'
           /\ SaveDonor(c) => TypeOK'
<1> DEFINE r == call[c]
<1>0. r \in Call /\ r.d \in Donations /\ DonorOf[r.d] \in Donors /\ row[r.d] \in Row
      BY ConstantsAssumption DEF TypeOK, Call
<1>1. {"findPledge", "checkPledge", "insertPledge", "markIntent", "saveDonor"} \subseteq Steps
      BY DEF Steps
<1>2. CASE Activate(c)
  <2>1. PICK pc \in Steps : Become(c, [r EXCEPT !.seen = row[r.d], !.stage = stage[DonorOf[r.d]],
                                                !.pc = pc])
        BY <1>1, <1>2, NextSteps DEF Activate
  <2>2. [r EXCEPT !.seen = row[r.d], !.stage = stage[DonorOf[r.d]], !.pc = pc] \in Call
        BY <1>0 DEF Call, TypeOK
  <2>3. QED BY <1>2, <2>1, <2>2, BecomeType DEF Activate, TypeOK, db, net, hist
<1>3. CASE FindPledge(c) \/ CheckPledge(c) \/ PledgeFails(c)
      BY <1>1, <1>3, MoveType, NextSteps DEF FindPledge, CheckPledge, PledgeFails
<1>4. CASE InsertPledge(c)
  <2>1. call' \in [Calls -> Call]
        BY <1>1, <1>4, GotoType DEF InsertPledge, TypeOK
  <2>2. pledges' \in [Donors -> Nat]
        BY <1>0, <1>4 DEF InsertPledge, TypeOK
  <2>3. QED BY <1>4, <2>1, <2>2 DEF InsertPledge, TypeOK, net, hist
<1>5. CASE MarkIntent(c)
  <2>1. call' \in [Calls -> Call]
        BY <1>1, <1>5, GotoType DEF MarkIntent, TypeOK
  <2>2. [row[r.d] EXCEPT !.intent = "activated"] \in Row
        BY <1>0 DEF Row, Intents
  <2>3. row' \in [Donations -> Row]
        BY <1>0, <1>5, <2>2 DEF MarkIntent, TypeOK
  <2>4. enrolled' \in [Donations -> Nat]
        BY <1>0, <1>5 DEF MarkIntent, TypeOK
  <2>5. QED BY <1>5, <2>1, <2>3, <2>4 DEF MarkIntent, TypeOK, net
<1>6. CASE SaveDonor(c)
  <2>1. call' \in [Calls -> Call]
        BY <1>6, GotoType, NextSteps DEF SaveDonor, TypeOK
  <2>2. stage' \in [Donors -> Stages]
        BY <1>0, <1>6 DEF SaveDonor, TypeOK, Call
  <2>3. QED BY <1>6, <2>1, <2>2 DEF SaveDonor, TypeOK, net, hist
<1>7. QED BY <1>2, <1>3, <1>4, <1>5, <1>6

\* The steps of the thanks keep the types.
LEMMA ThanksType ==
    ASSUME TypeOK, NEW c \in Calls, NEW ok \in BOOLEAN
    PROVE  /\ ThanksRead(c) => TypeOK'
           /\ Claim(c) => TypeOK'
           /\ Send(c, ok) => TypeOK'
           /\ Release(c) => TypeOK'
<1> DEFINE r  == call[c]
           ch == NextChannel(r.todo)
<1>0. r \in Call /\ r.d \in Donations /\ row[r.d] \in Row /\ ch \in Channels
      BY NextChannelType DEF TypeOK, Call
<1>1. {"pipeline", "claim", "send", "release"} \subseteq Steps
      BY DEF Steps
<1>2. \A b \in BOOLEAN : [row EXCEPT ![r.d].sent[ch] = b] \in [Donations -> Row]
  <2>1. ASSUME NEW b \in BOOLEAN
        PROVE  [row[r.d] EXCEPT !.sent[ch] = b] \in Row
        BY <1>0 DEF Row
  <2>2. QED BY <1>0, <2>1 DEF TypeOK, Row
<1>3. CASE ThanksRead(c)
  <2> DEFINE seen == row[r.d]
             todo == IF Successful(seen.status) /\ Eligible(r.d, seen)
                     THEN OpenChannels(r.d, seen) ELSE {}
             pc   == IF todo = {} THEN "pipeline" ELSE "claim"
  <2>1. todo \subseteq Channels
        BY <1>0, ConstantsAssumption DEF OpenChannels
  <2>2. pc \in Steps
        BY <1>1
  <2>3. Become(c, [r EXCEPT !.seen = seen, !.todo = todo, !.pc = pc])
        BY <1>3 DEF ThanksRead
  <2> HIDE DEF todo, pc
  <2>4. [r EXCEPT !.seen = seen, !.todo = todo, !.pc = pc] \in Call
        BY <1>0, <2>1, <2>2 DEF Call
  <2>5. QED BY <1>3, <2>3, <2>4, BecomeType DEF ThanksRead, TypeOK, db, net, hist
<1>4. CASE Claim(c)
  <2>1. row' \in [Donations -> Row]
        BY <1>2, <1>4 DEF Claim, TypeOK
  <2>2. call' \in [Calls -> Call]
        BY <1>1, <1>4, GotoType, NextThanksType DEF Claim, TypeOK
  <2>3. QED BY <1>4, <2>1, <2>2 DEF Claim, TypeOK, net, hist
<1>5. CASE Send(c, ok)
  <2>1. thanked' = thanked \/ thanked' = [thanked EXCEPT ![r.d][ch] = @ + 1]
        BY <1>5 DEF Send
  <2>2. call' \in [Calls -> Call]
        BY <1>1, <1>5, GotoType, NextThanksType DEF Send, TypeOK
  <2> HIDE DEF r, ch
  <2>3. thanked \in [Donations -> [Channels -> Nat]]
        BY DEF TypeOK
  <2>4. [thanked EXCEPT ![r.d][ch] = @ + 1] \in [Donations -> [Channels -> Nat]]
        BY <1>0, <2>3, CountedType
  <2>5. thanked' \in [Donations -> [Channels -> Nat]]
        BY <2>1, <2>3, <2>4
  <2>6. QED BY <1>5, <2>2, <2>5 DEF Send, TypeOK, db, net
<1>6. CASE Release(c)
  <2>1. row' \in [Donations -> Row]
        BY <1>2, <1>6 DEF Release
  <2>2. call' \in [Calls -> Call]
        BY <1>6, NextThanksType DEF Release
  <2>3. QED BY <1>6, <2>1, <2>2 DEF Release, TypeOK, net, hist
<1>7. QED BY <1>3, <1>4, <1>5, <1>6

\* The remaining effects of a payment keep the types.
LEMMA EffectType ==
    ASSUME TypeOK, NEW c \in Calls, NEW ok \in BOOLEAN
    PROVE  /\ Recheck(c) \/ BatchCheck(c) \/ PipelineCheck(c) => TypeOK'
           /\ Allocate(c, ok) => TypeOK'
           /\ Reread(c) => TypeOK'
           /\ Settle(c, ok) => TypeOK'
           /\ Promote(c) => TypeOK'
<1> DEFINE r == call[c]
<1>0. r \in Call /\ r.d \in Donations /\ DonorOf[r.d] \in Donors /\ row[r.d] \in Row
      BY ConstantsAssumption DEF TypeOK, Call
<1>1. {"activate", "done", "allocate", "promote", "thanks", "pipeline", "invoice"}
         \subseteq Steps
      BY DEF Steps
<1>2. CASE Recheck(c) \/ BatchCheck(c) \/ PipelineCheck(c)
      BY <1>1, <1>2, MoveType, NextSteps DEF Recheck, BatchCheck, PipelineCheck
<1>3. CASE Allocate(c, ok)
  <2>1. call' \in [Calls -> Call]
        BY <1>3, GotoType, NextSteps DEF Allocate, TypeOK
  <2>2. allocated' \in [Donations -> Nat]
        BY <1>0, <1>3 DEF Allocate, TypeOK
  <2>3. QED BY <1>3, <2>1, <2>2 DEF Allocate, TypeOK, net, hist
<1>4. CASE Reread(c)
  <2>1. PICK pc \in Steps : Become(c, [r EXCEPT !.saved = row[r.d], !.pc = pc])
        BY <1>1, <1>4 DEF Reread
  <2>2. [r EXCEPT !.saved = row[r.d], !.pc = pc] \in Call
        BY <1>0 DEF Call
  <2>3. QED BY <1>4, <2>1, <2>2, BecomeType DEF Reread, TypeOK, db, net, hist
<1>5. CASE Settle(c, ok)
  <2>1. call' \in [Calls -> Call]
        BY <1>1, <1>5, GotoType DEF Settle, TypeOK
  <2>2. QED BY <1>0, <1>5, <2>1 DEF Settle, TypeOK, net, hist
<1>6. CASE Promote(c)
  <2>1. call' \in [Calls -> Call]
        BY <1>6, GotoType, NextSteps DEF Promote, TypeOK
  <2>2. stage' \in [Donors -> Stages]
        BY <1>0, <1>6 DEF Promote, TypeOK, Stages
  <2>3. QED BY <1>6, <2>1, <2>2 DEF Promote, TypeOK, net, hist
<1>7. QED BY <1>2, <1>3, <1>4, <1>5, <1>6

\* Every step of a call keeps the types.
LEMMA StepType ==
    ASSUME TypeOK, NEW c \in Calls, Step(c)
    PROVE  TypeOK'
<1>1. CASE Query(c) \/ (\E ok \in BOOLEAN : Abandon(c, ok)) \/ Write(c)
      BY <1>1, QueryType, AbandonType, WriteType
<1>2. CASE \/ Recheck(c) \/ BatchCheck(c) \/ (\E ok \in BOOLEAN : Allocate(c, ok))
           \/ Reread(c) \/ (\E ok \in BOOLEAN : Settle(c, ok)) \/ PipelineCheck(c)
           \/ Promote(c)
      BY <1>2, EffectType
<1>3. CASE \/ \E ok \in BOOLEAN : TokenOrManual(c, ok)
           \/ \E ok \in BOOLEAN : AlfalahHandshake(c, ok)
           \/ \E ok \in BOOLEAN : RegisterInvoice(c, ok)
           \/ SaveEntity(c)
           \/ \E to \in Status, ok \in BOOLEAN : Charge(c, to, ok)
      BY <1>3, CheckoutType
<1>4. CASE \/ Activate(c) \/ FindPledge(c) \/ CheckPledge(c) \/ PledgeFails(c)
           \/ InsertPledge(c) \/ MarkIntent(c) \/ SaveDonor(c)
      BY <1>4, ActivationType
<1>5. CASE ThanksRead(c) \/ Claim(c) \/ (\E ok \in BOOLEAN : Send(c, ok)) \/ Release(c)
      BY <1>5, ThanksType
<1>6. QED BY <1>1, <1>2, <1>3, <1>4, <1>5 DEF Step

\* Type correctness, for any number of donations, donors, calls and gateways.
THEOREM TypeCorrect == Spec => []TypeOK
<1>1. Init => TypeOK
  <2> SUFFICES ASSUME Init PROVE TypeOK
      OBVIOUS
  <2>1. row \in [Donations -> Row]
        BY NoRowType DEF Init
  <2>2. call \in [Calls -> Call]
        BY IdleType DEF Init
  <2>3. Zero \in [Donations -> [Channels -> Nat]]
        BY DEF Zero
  <2>4. QED BY <2>1, <2>2, <2>3 DEF Init, TypeOK, Stages
<1>2. TypeOK /\ [Next]_vars => TypeOK'
  <2> SUFFICES ASSUME TypeOK, [Next]_vars PROVE TypeOK'
      OBVIOUS
  <2>1. CASE UNCHANGED vars
        BY <2>1 DEF vars, db, net, hist, TypeOK
  <2>2. ASSUME NEW d \in Donations, NEW gw \in AllGateways, NEW to \in Status,
               Attempt(d, gw, to)
        PROVE  TypeOK'
        BY <2>2 DEF Attempt, TypeOK, Note, db, hist
  <2>3. ASSUME NEW c \in Calls, Crash(c)
        PROVE  TypeOK'
        BY <2>3 DEF Crash, TypeOK, db, net, hist
  <2>4. QED BY <2>1, <2>2, <2>3, ArriveType, StepType DEF Next, Customer
<1>3. QED BY <1>1, <1>2, PTL DEF Spec

-----------------------------------------------------------------------------
(* ThanksAccounted.  It is not inductive by itself: a call that has claimed *)
(* a flag is about to send.  Accounting counts those calls, too.            *)

\* The calls that hold the claim of a channel, dead ones included.
Holders(d, ch) == {c \in Calls : Holds(c, d, ch)}

\* The thanks the history of the flag allows.
Credit(d, ch) == reverted[d][ch] + (IF row[d].sent[ch] THEN 1 ELSE 0)

\* Every accepted thanks and every claim in progress is backed by a setting of the flag.
Accounting ==
    \A d \in Donations, ch \in Channels :
        thanked[d][ch] + Cardinality(Holders(d, ch)) <= Credit(d, ch)

Quietly(pc) == pc \notin {"send", "release"}

\* There are finitely many calls, hence finitely many holders of a claim.
LEMMA HoldersFinite ==
    \A d, ch : IsFiniteSet(Holders(d, ch)) /\ Cardinality(Holders(d, ch)) \in Nat
<1>1. \A d, ch : Holders(d, ch) \in SUBSET Calls
      BY DEF Holders
<1>2. QED BY <1>1, ConstantsAssumption, FS_Subset, FS_CardinalityType

\* Become sets the step of one call and leaves the others alone.
LEMMA BecomeMoves ==
    ASSUME TypeOK, NEW c \in Calls, NEW r, Become(c, r)
    PROVE  /\ call'[c].pc = r.pc
           /\ \A b \in Calls : b # c => call'[b] = call[b]
BY DEF Become, Idle, TypeOK

\* Goto sets the step of one call and leaves the others alone.
LEMMA GotoMoves ==
    ASSUME TypeOK, NEW c \in Calls, NEW pc, Goto(c, pc)
    PROVE  /\ call'[c].pc = pc
           /\ \A b \in Calls : b # c => call'[b] = call[b]
<1>1. [call[c] EXCEPT !.pc = pc].pc = pc
      BY DEF TypeOK, Call
<1>2. QED BY <1>1, BecomeMoves DEF Goto

\* A step of a call that neither claims, sends nor releases.
LEMMA NeutralStep ==
    ASSUME TypeOK, Accounting, NEW c \in Calls,
           Quietly(call[c].pc), Quietly(call'[c].pc),
           \A b \in Calls : b # c => call'[b] = call[b],
           thanked' = thanked,
           \A d \in Donations, ch \in Channels :
              Credit(d, ch)' \in Nat /\ Credit(d, ch)' >= Credit(d, ch)
    PROVE  Accounting'
<1> SUFFICES ASSUME NEW d \in Donations, NEW ch \in Channels
             PROVE  (thanked[d][ch] + Cardinality(Holders(d, ch)) <= Credit(d, ch))'
    BY DEF Accounting
<1>1. Holders(d, ch)' = Holders(d, ch)
      BY DEF Holders, Holds, Quietly
<1>2. Cardinality(Holders(d, ch)) \in Nat
      BY HoldersFinite
<1>3. thanked[d][ch] \in Nat /\ Credit(d, ch) \in Nat
      BY DEF TypeOK, Credit
<1>4. thanked[d][ch] + Cardinality(Holders(d, ch)) <= Credit(d, ch)
      BY DEF Accounting
<1>5. QED BY <1>1, <1>2, <1>3, <1>4

\* A step that leaves the flags and their history alone leaves the credit alone.
LEMMA SameFlags ==
    ASSUME TypeOK, TypeOK', reverted' = reverted,
           \A d \in Donations : row'[d].sent = row[d].sent
    PROVE  \A d \in Donations, ch \in Channels :
              Credit(d, ch)' \in Nat /\ Credit(d, ch)' >= Credit(d, ch)
BY DEF Credit, TypeOK

\* A write of a whole row never lowers the credit: a flag it takes back is counted.
LEMMA OverwriteCredit ==
    ASSUME TypeOK, TypeOK', NEW d \in Donations, NEW new, Overwrite(d, new)
    PROVE  \A e \in Donations, ch \in Channels :
              Credit(e, ch)' \in Nat /\ Credit(e, ch)' >= Credit(e, ch)
<1> SUFFICES ASSUME NEW e \in Donations, NEW ch \in Channels
             PROVE  Credit(e, ch)' \in Nat /\ Credit(e, ch)' >= Credit(e, ch)
    OBVIOUS
<1>1. row'[e] = IF e = d THEN new ELSE row[e]
      BY DEF Overwrite, TypeOK
<1>2. reverted'[e][ch] = IF e = d /\ row[e].sent[ch] /\ ~new.sent[ch]
                         THEN reverted[e][ch] + 1 ELSE reverted[e][ch]
      BY DEF Overwrite, TypeOK
<1>3. reverted[e][ch] \in Nat
      BY DEF TypeOK
<1>4. QED BY <1>1, <1>2, <1>3 DEF Credit

\* What follows a write, the batches, the activation or the promotion neither sends nor releases.
LEMMA QuietSteps ==
    \A r : /\ Quietly(AfterWrite(r)) /\ Quietly(AfterBatch(r))
           /\ Quietly(AfterActivate(r)) /\ Quietly(AfterPipeline(r))
BY DEF Quietly, AfterWrite, AfterBatch, AfterActivate, AfterPipeline

\* A call that starts does so neutrally.
LEMMA StartAccounting ==
    ASSUME TypeOK, TypeOK', Accounting, NEW c \in Calls, NEW kind, Arrives(c, kind),
           NEW r \in Call, Quietly(r.pc), Become(c, r), thanked' = thanked,
           \A d \in Donations, ch \in Channels :
              Credit(d, ch)' \in Nat /\ Credit(d, ch)' >= Credit(d, ch)
    PROVE  Accounting'
<1>1. Quietly(call[c].pc)
      BY DEF Arrives, Quietly
<1>2. QED BY <1>1, BecomeMoves, NeutralStep

\* Every arrival preserves Accounting.
LEMMA ArriveAccounting ==
    ASSUME TypeOK, TypeOK', Accounting, NEW c \in Calls, Arrive(c)
    PROVE  Accounting'
<1>1. ASSUME NEW d \in Donations, NEW gw \in AllGateways, NEW to \in Status,
             NEW intent \in Intents, Create(c, d, gw, to, intent)
      PROVE  Accounting'
  <2> DEFINE new == [status |-> to, sent |-> Unsent, method |-> gw,
                     intent |-> intent]
             r   == [Idle EXCEPT !.kind = "create", !.gw = gw, !.d = d, !.to = to,
                                 !.seen = new, !.saved = new]
             pc  == IF Successful(to) THEN "pipeline" ELSE AfterPipeline(r)
  <2>1. Overwrite(d, new) /\ Become(c, [r EXCEPT !.pc = pc]) /\ Arrives(c, "create")
        BY <1>1 DEF Create
  <2>2. new \in Row
        BY DEF Row, Unsent, Channels, Intents
  <2>3. r \in Call
        BY <2>2, IdleType DEF Call, AllKinds
  <2>4. Quietly(pc) /\ pc \in Steps
        BY QuietSteps, NextSteps DEF Quietly, Steps
  <2> HIDE DEF r, pc
  <2>5. [r EXCEPT !.pc = pc] \in Call /\ [r EXCEPT !.pc = pc].pc = pc
        BY <2>3, <2>4 DEF Call
  <2> HIDE DEF new
  <2>6. \A e \in Donations, ch \in Channels :
           Credit(e, ch)' \in Nat /\ Credit(e, ch)' >= Credit(e, ch)
        BY <2>1, OverwriteCredit
  <2>7. thanked' = thanked
        BY <1>1 DEF Create
  <2>8. QED BY <2>1, <2>4, <2>5, <2>6, <2>7, StartAccounting
<1>2. ASSUME NEW d \in Donations, NEW gw \in AllGateways, NEW to \in Status,
             Retry(c, d, gw, to)
      PROVE  Accounting'
  <2> DEFINE r == [Idle EXCEPT !.pc = "reread", !.kind = "retry", !.gw = gw, !.d = d,
                               !.to = "pending"]
  <2>1. r \in Call /\ r.pc = "reread"
        BY IdleType DEF Call, AllKinds, Steps, Status
  <2>2. Become(c, r) /\ Arrives(c, "retry") /\ thanked' = thanked /\ reverted' = reverted
        BY <1>2 DEF Retry, hist
  <2> HIDE DEF r
  <2>3. \A e \in Donations : row'[e].sent = row[e].sent
        BY <1>2 DEF Retry, TypeOK, Row
  <2>4. QED BY <2>1, <2>2, <2>3, SameFlags, StartAccounting DEF Quietly
<1>3. ASSUME NEW r \in Call, NEW kind, Arrives(c, kind), Become(c, r), Quietly(r.pc),
             UNCHANGED <<db, net, crashed, hist>>
      PROVE  Accounting'
      BY <1>3, SameFlags, StartAccounting DEF db, hist
<1>4. ASSUME NEW n \in notes, NEW pc \in Steps, Deliver(c, n, pc), Quietly(pc)
      PROVE  Accounting'
  <2> DEFINE r == [Idle EXCEPT !.pc = pc, !.kind = "callback", !.gw = n.gw, !.d = n.d,
                               !.to = n.to, !.seen = row[n.d],
                               !.todo = IF pc = "abandon" THEN OpenChannels(n.d, row[n.d])
                                                          ELSE {}]
  <2>1. n \in Note /\ row[n.d] \in Row
        BY DEF TypeOK, Note
  <2>2. OpenChannels(n.d, row[n.d]) \subseteq Channels
        BY <2>1, ConstantsAssumption DEF OpenChannels, Note
  <2>3. r \in Call /\ r.pc = pc
        BY <2>1, <2>2, IdleType DEF Call, Note, AllKinds
  <2>4. Become(c, r) /\ Arrives(c, "callback") /\ UNCHANGED <<db, net, crashed, hist>>
        BY <1>4 DEF Deliver
  <2> HIDE DEF r
  <2>5. QED BY <1>3, <1>4, <2>3, <2>4
<1>5. ASSUME NEW n \in notes, Callback(c, n)
      PROVE  Accounting'
  <2>1. \A d, to, seen : AbandonOrWrite(d, to, seen) \in Steps
                          /\ Quietly(AbandonOrWrite(d, to, seen))
        BY DEF AbandonOrWrite, Quietly, Steps
  <2>2. \A pc \in {"done", "write", "recheck"} : pc \in Steps /\ Quietly(pc)
        BY DEF Quietly, Steps
  <2>3. QED BY <1>4, <1>5, <2>1, <2>2
            DEF Callback, PayfastIpn, BlinqCallback, AlfalahListener, MeezanUpdate,
                JazzCashIpn, StripeWebhook
<1>6. ASSUME NEW d \in Donations, Return(c, d)
      PROVE  Accounting'
  <2> DEFINE r == [Idle EXCEPT !.pc = "query", !.kind = "return", !.gw = "alfalah", !.d = d,
                               !.seen = row[d]]
  <2>1. r \in Call /\ r.pc = "query"
        BY IdleType DEF Call, AllKinds, Steps, AllGateways, TypeOK
  <2>2. Become(c, r) /\ Arrives(c, "return") /\ UNCHANGED <<db, net, crashed, hist>>
        BY <1>6 DEF Return
  <2> HIDE DEF r
  <2>3. QED BY <1>3, <2>1, <2>2 DEF Quietly
<1>7. ASSUME NEW d \in Donations, Poll(c, d)
      PROVE  Accounting'
  <2> DEFINE r == [Idle EXCEPT !.pc = "query", !.kind = "poll", !.gw = row[d].method, !.d = d,
                               !.seen = row[d]]
  <2>1. r \in Call /\ r.pc = "query"
        BY IdleType DEF Call, AllKinds, Steps, TypeOK, Row
  <2>2. Become(c, r) /\ Arrives(c, "poll") /\ UNCHANGED <<db, net, crashed, hist>>
        BY <1>7 DEF Poll
  <2> HIDE DEF r
  <2>3. QED BY <1>3, <2>1, <2>2 DEF Quietly
<1>8. ASSUME NEW d \in Donations, Cron(c, d)
      PROVE  Accounting'
  <2> DEFINE r == [Idle EXCEPT !.pc = "activate", !.kind = "cron", !.d = d]
  <2>1. r \in Call /\ r.pc = "activate"
        BY IdleType DEF Call, AllKinds, Steps
  <2>2. Become(c, r) /\ Arrives(c, "cron") /\ UNCHANGED <<db, net, crashed, hist>>
        BY <1>8 DEF Cron
  <2> HIDE DEF r
  <2>3. QED BY <1>3, <2>1, <2>2 DEF Quietly
<1>9. ASSUME NEW d \in Donations, NEW to \in Status, NEW kind \in AllKinds,
             SetStatus(c, kind, d, to)
      PROVE  Accounting'
  <2> DEFINE r == [Idle EXCEPT !.pc = "write", !.kind = kind, !.d = d, !.to = to,
                               !.seen = row[d]]
  <2>1. r \in Call /\ r.pc = "write"
        BY IdleType DEF Call, Steps, TypeOK
  <2>2. Become(c, r) /\ Arrives(c, kind) /\ UNCHANGED <<db, net, crashed, hist>>
        BY <1>9 DEF SetStatus
  <2> HIDE DEF r
  <2>3. QED BY <1>3, <2>1, <2>2 DEF Quietly
<1>10. {"staff", "edit", "public"} \subseteq AllKinds
      BY DEF AllKinds
<1>11. QED BY <1>1, <1>2, <1>5, <1>6, <1>7, <1>8, <1>9, <1>10
           DEF Arrive, UpdateStatusAction, EditDonation, UpdateFromPublic

\* Steps that write neither flags nor thanks.
LEMMA UnflaggedStep ==
    ASSUME TypeOK, TypeOK', Accounting, NEW c \in Calls, NEW pc, Quietly(pc), Goto(c, pc),
           Quietly(call[c].pc), thanked' = thanked, reverted' = reverted,
           \A d \in Donations : row'[d].sent = row[d].sent
    PROVE  Accounting'
<1>1. call'[c].pc = pc /\ \A b \in Calls : b # c => call'[b] = call[b]
      BY GotoMoves
<1>2. QED BY <1>1, SameFlags, NeutralStep

\* The same for steps that also fill in the call's locals.
LEMMA LocalStep ==
    ASSUME TypeOK, TypeOK', Accounting, NEW c \in Calls, NEW r, Quietly(r.pc), Become(c, r),
           Quietly(call[c].pc), UNCHANGED <<row, thanked, reverted>>
    PROVE  Accounting'
BY BecomeMoves, SameFlags, NeutralStep

\* Steps that go on without touching locals or flags preserve Accounting.
LEMMA GotoAccounting ==
    ASSUME TypeOK, TypeOK', Accounting, NEW c \in Calls, NEW ok \in BOOLEAN,
           \/ Recheck(c) \/ BatchCheck(c) \/ Allocate(c, ok)
           \/ TokenOrManual(c, ok) \/ AlfalahHandshake(c, ok) \/ RegisterInvoice(c, ok)
           \/ FindPledge(c) \/ CheckPledge(c) \/ InsertPledge(c) \/ PledgeFails(c)
           \/ MarkIntent(c) \/ SaveDonor(c) \/ Settle(c, ok) \/ PipelineCheck(c) \/ Promote(c)
    PROVE  Accounting'
<1>1. Quietly(call[c].pc)
      BY DEF Recheck, BatchCheck, Allocate, TokenOrManual, AlfalahHandshake, RegisterInvoice,
             FindPledge, CheckPledge, InsertPledge, PledgeFails, MarkIntent, SaveDonor, Settle,
             PipelineCheck, Promote, At, Quietly
<1>2. \A pc \in {"activate", "done", "allocate", "save", "markIntent", "checkPledge",
                 "insertPledge", "saveDonor", "thanks", "promote"} : Quietly(pc)
      BY DEF Quietly
<1>3. CASE \/ Recheck(c) \/ BatchCheck(c) \/ RegisterInvoice(c, ok) \/ FindPledge(c)
           \/ CheckPledge(c) \/ PledgeFails(c) \/ PipelineCheck(c)
  <2>1. \E pc : Quietly(pc) /\ Goto(c, pc)
        BY <1>2, <1>3, QuietSteps
           DEF Recheck, BatchCheck, RegisterInvoice, FindPledge, CheckPledge, PledgeFails,
               PipelineCheck
  <2>2. UNCHANGED <<db, hist>>
        BY <1>3 DEF Recheck, BatchCheck, RegisterInvoice, FindPledge, CheckPledge, PledgeFails,
                    PipelineCheck
  <2>3. QED BY <1>1, <2>1, <2>2, UnflaggedStep DEF db, hist
<1>4. CASE \/ Allocate(c, ok) \/ TokenOrManual(c, ok) \/ InsertPledge(c) \/ SaveDonor(c)
           \/ Settle(c, ok) \/ Promote(c)
  <2>1. \E pc : Quietly(pc) /\ Goto(c, pc)
        BY <1>2, <1>4, QuietSteps
           DEF Allocate, TokenOrManual, InsertPledge, SaveDonor, Settle, Promote
  <2>2. UNCHANGED <<row, hist>>
        BY <1>4 DEF Allocate, TokenOrManual, InsertPledge, SaveDonor, Settle, Promote, db
  <2>3. QED BY <1>1, <2>1, <2>2, UnflaggedStep DEF hist
<1>5. CASE AlfalahHandshake(c, ok)
  <2>1. \A d \in Donations : row'[d].sent = row[d].sent
        BY <1>5 DEF AlfalahHandshake, TypeOK, Row
  <2>2. QED BY <1>1, <1>2, <1>5, <2>1, UnflaggedStep DEF AlfalahHandshake, hist
<1>6. CASE MarkIntent(c)
  <2>1. \A d \in Donations : row'[d].sent = row[d].sent
        BY <1>6 DEF MarkIntent, TypeOK, Row
  <2>2. QED BY <1>1, <1>2, <1>6, <2>1, UnflaggedStep DEF MarkIntent
<1>7. QED BY <1>3, <1>4, <1>5, <1>6

\* Steps that read the row or fill in the call's locals preserve Accounting.
LEMMA LocalAccounting ==
    ASSUME TypeOK, TypeOK', Accounting, NEW c \in Calls, NEW ok \in BOOLEAN,
           NEW to \in Status,
           \/ Query(c) \/ Abandon(c, ok) \/ Reread(c) \/ Charge(c, to, ok) \/ Activate(c)
           \/ ThanksRead(c)
    PROVE  Accounting'
<1> DEFINE r == call[c]
<1>1. Quietly(call[c].pc)
      BY DEF Query, Abandon, Reread, Charge, Activate, ThanksRead, At, Quietly
<1>2. UNCHANGED <<row, thanked, reverted>>
      BY DEF Query, Abandon, Reread, Charge, Activate, ThanksRead, db, hist
<1>3. \A pc \in {"done", "abandon", "write", "pipeline", "invoice", "findPledge", "claim"} :
         Quietly(pc)
      BY DEF Quietly
<1>4. r \in Call
      BY DEF TypeOK
<1>5. \E next : Quietly(next.pc) /\ Become(c, next)
  <2>1. CASE Query(c)
    <3> DEFINE pc(v) == IF r.kind = "return" THEN AbandonOrWrite(r.d, v, r.seen)
                        ELSE IF v = r.seen.status THEN "done" ELSE "write"
    <3>1. PICK v : Become(c, [r EXCEPT !.to = v, !.pc = pc(v),
                                 !.todo = IF pc(v) = "abandon" THEN OpenChannels(r.d, r.seen)
                                                               ELSE {}])
          BY <2>1 DEF Query
    <3>2. Quietly(pc(v))
          BY <1>3 DEF AbandonOrWrite
    <3> HIDE DEF pc
    <3>3. QED BY <1>4, <3>1, <3>2 DEF Call
  <2>2. CASE Abandon(c, ok)
    <3> DEFINE ch == NextChannel(r.todo)
               pc == IF r.todo = {ch} THEN "write" ELSE "abandon"
    <3>1. Become(c, [r EXCEPT !.seen.sent[ch] = TRUE, !.todo = @ \ {ch}, !.pc = pc])
          BY <2>2 DEF Abandon
    <3>2. Quietly(pc)
          BY <1>3
    <3> HIDE DEF pc, ch
    <3>3. QED BY <1>4, <3>1, <3>2 DEF Call
  <2>3. CASE Reread(c)
    <3>1. PICK pc \in {"pipeline", "invoice"} :
             Become(c, [r EXCEPT !.saved = row[r.d], !.pc = pc])
          BY <2>3 DEF Reread
    <3>2. QED BY <1>3, <1>4, <3>1 DEF Call
  <2>4. CASE Charge(c, to, ok)
    <3>1. PICK pc \in {"write", "done"} :
             Become(c, [r EXCEPT !.kind = "charge", !.to = to, !.pc = pc])
          BY <2>4 DEF Charge
    <3>2. QED BY <1>3, <1>4, <3>1 DEF Call
  <2>5. CASE Activate(c)
    <3>1. PICK pc : /\ Quietly(pc)
                    /\ Become(c, [r EXCEPT !.seen = row[r.d], !.stage = stage[DonorOf[r.d]],
                                           !.pc = pc])
          BY <1>3, <2>5, QuietSteps DEF Activate
    <3>2. QED BY <1>4, <3>1 DEF Call
  <2>6. CASE ThanksRead(c)
    <3> DEFINE seen == row[r.d]
               todo == IF Successful(seen.status) /\ Eligible(r.d, seen)
                       THEN OpenChannels(r.d, seen) ELSE {}
               pc   == IF todo = {} THEN "pipeline" ELSE "claim"
    <3>1. Become(c, [r EXCEPT !.seen = seen, !.todo = todo, !.pc = pc])
          BY <2>6 DEF ThanksRead
    <3>2. Quietly(pc)
          BY <1>3
    <3> HIDE DEF todo, pc
    <3>3. QED BY <1>4, <3>1, <3>2 DEF Call
  <2>7. QED BY <2>1, <2>2, <2>3, <2>4, <2>5, <2>6
<1>6. QED BY <1>1, <1>2, <1>5, LocalStep

\* Setting one flag of one donation changes no other flag.
LEMMA FlagSet ==
    ASSUME TypeOK, NEW d \in Donations, NEW ch \in Channels, NEW b \in BOOLEAN,
           row' = [row EXCEPT ![d].sent[ch] = b]
    PROVE  \A e \in Donations, k \in Channels :
              row'[e].sent[k] = IF e = d /\ k = ch THEN b ELSE row[e].sent[k]
<1> SUFFICES ASSUME NEW e \in Donations, NEW k \in Channels
             PROVE  row'[e].sent[k] = IF e = d /\ k = ch THEN b ELSE row[e].sent[k]
    OBVIOUS
<1>1. row[d] \in Row /\ row[d].sent \in [Channels -> BOOLEAN]
      BY DEF TypeOK, Row
<1>2. CASE e = d
  <2>1. row'[e] = [row[d] EXCEPT !.sent[ch] = b]
        BY <1>2 DEF TypeOK
  <2>2. row'[e].sent = [row[d].sent EXCEPT ![ch] = b]
        BY <1>1, <2>1 DEF Row
  <2>3. QED BY <1>1, <1>2, <2>2
<1>3. CASE e # d
      BY <1>3 DEF TypeOK
<1>4. QED BY <1>2, <1>3

\* The steps that claim a flag, use the claim and give it back.
LEMMA ClaimAccounting ==
    ASSUME TypeOK, TypeOK', Accounting, NEW c \in Calls, NEW ok \in BOOLEAN,
           Claim(c) \/ Send(c, ok) \/ Release(c)
    PROVE  Accounting'
<1> DEFINE r  == call[c]
           ch == NextChannel(r.todo)
           d  == r.d
<1>0. r \in Call /\ d \in Donations /\ ch \in Channels
      BY NextChannelType DEF TypeOK, Call
<1>1. ASSUME NextThanks(c, ch)
      PROVE  Quietly(call'[c].pc) /\ \A b \in Calls : b # c => call'[b] = call[b]
  <2> DEFINE rest == r.todo \ {ch}
             pc   == IF rest = {} THEN "pipeline" ELSE "claim"
  <2>1. Become(c, [r EXCEPT !.todo = rest, !.pc = pc])
        BY <1>1 DEF NextThanks
  <2>2. Quietly(pc)
        BY DEF Quietly
  <2> HIDE DEF rest, pc, ch
  <2>3. [r EXCEPT !.todo = rest, !.pc = pc].pc = pc
        BY <1>0 DEF Call
  <2>4. QED BY <2>1, <2>2, <2>3, BecomeMoves
<1>2. ASSUME NEW pc, Goto(c, pc)
      PROVE  /\ call'[c] = [r EXCEPT !.pc = pc] \/ pc = "done"
             /\ \A b \in Calls : b # c => call'[b] = call[b]
      BY <1>0, <1>2 DEF Goto, Become, TypeOK, Call
<1>3. CASE Claim(c) /\ ~Claimable(r, ch)
  <2>1. NextThanks(c, ch) /\ UNCHANGED <<row, hist>> /\ Quietly(r.pc)
        BY <1>3 DEF Claim, At, Quietly
  <2>2. QED BY <1>1, <2>1, SameFlags, NeutralStep DEF hist
<1>4. CASE Claim(c) /\ Claimable(r, ch)
  <2>1. /\ r.pc = "claim" /\ Goto(c, "send") /\ UNCHANGED hist
        /\ row' = [row EXCEPT ![d].sent[ch] = TRUE]
        BY <1>4 DEF Claim, At
  <2>2. ~row[d].sent[ch]
        BY <1>4 DEF Claimable
  <2>3. \A e \in Donations, k \in Channels :
           row'[e].sent[k] = IF e = d /\ k = ch THEN TRUE ELSE row[e].sent[k]
        BY <1>0, <2>1, FlagSet
  <2> SUFFICES ASSUME NEW e \in Donations, NEW k \in Channels
               PROVE  (thanked[e][k] + Cardinality(Holders(e, k)) <= Credit(e, k))'
      BY DEF Accounting
  <2>4. /\ thanked[e][k] \in Nat /\ reverted[e][k] \in Nat
        /\ thanked[e][k] + Cardinality(Holders(e, k)) <= Credit(e, k)
        /\ thanked'[e][k] = thanked[e][k] /\ reverted'[e][k] = reverted[e][k]
        BY <2>1 DEF Accounting, TypeOK, hist
  <2>5. call'[c] = [r EXCEPT !.pc = "send"] /\ \A b \in Calls : b # c => call'[b] = call[b]
        BY <1>2, <2>1
  <2>6. CASE e = d /\ k = ch
    <3>1. Holders(e, k)' = Holders(e, k) \union {c}
          BY <1>0, <2>1, <2>5, <2>6 DEF Holders, Holds, Call
    <3>2. c \notin Holders(e, k)
          BY <2>1 DEF Holders, Holds
    <3>3. Cardinality(Holders(e, k)') = Cardinality(Holders(e, k)) + 1
          BY <3>1, <3>2, HoldersFinite, FS_AddElement
    <3>4. Cardinality(Holders(e, k)) \in Nat
          BY HoldersFinite
    <3>5. row'[e].sent[k] /\ ~row[e].sent[k]
          BY <2>2, <2>3, <2>6
    <3>6. Credit(e, k)' = Credit(e, k) + 1
          BY <2>4, <3>5 DEF Credit
    <3>7. QED BY <2>4, <3>3, <3>4, <3>6 DEF Credit
  <2>7. CASE ~(e = d /\ k = ch)
    <3>1. Holders(e, k)' = Holders(e, k)
          BY <1>0, <2>1, <2>5, <2>7 DEF Holders, Holds, Call
    <3>2. Credit(e, k)' = Credit(e, k)
          BY <2>3, <2>4, <2>7 DEF Credit
    <3>3. QED BY <2>4, <3>1, <3>2
  <2>8. QED BY <2>6, <2>7
<1>5. CASE Send(c, ok) /\ ~ok
  <2>1. r.pc = "send" /\ Goto(c, "release") /\ UNCHANGED <<row, hist>>
        BY <1>5 DEF Send, At, db, hist
  <2>2. call'[c] = [r EXCEPT !.pc = "release"] /\ \A b \in Calls : b # c => call'[b] = call[b]
        BY <1>2, <2>1
  <2>3. \A e \in Donations, k \in Channels : Holders(e, k)' = Holders(e, k)
        BY <1>0, <2>1, <2>2 DEF Holders, Holds, Call
  <2>4. QED BY <2>1, <2>3 DEF Accounting, Credit, hist
<1>6. CASE Send(c, ok) /\ ok
  <2>1. /\ r.pc = "send" /\ NextThanks(c, ch) /\ UNCHANGED <<row, reverted>>
        /\ thanked' = [thanked EXCEPT ![d][ch] = @ + 1]
        BY <1>6 DEF Send, At, db
  <2>2. Quietly(call'[c].pc) /\ \A b \in Calls : b # c => call'[b] = call[b]
        BY <1>1, <2>1
  <2> SUFFICES ASSUME NEW e \in Donations, NEW k \in Channels
               PROVE  (thanked[e][k] + Cardinality(Holders(e, k)) <= Credit(e, k))'
      BY DEF Accounting
  <2>3. /\ thanked[e][k] \in Nat /\ Credit(e, k) \in Nat
        /\ thanked[e][k] + Cardinality(Holders(e, k)) <= Credit(e, k)
        /\ Credit(e, k)' = Credit(e, k)
        BY <2>1 DEF Accounting, TypeOK, Credit
  <2>4. Cardinality(Holders(e, k)) \in Nat
        BY HoldersFinite
  <2>5. CASE e = d /\ k = ch
    <3>1. c \in Holders(e, k)
          BY <1>0, <2>1, <2>5 DEF Holders, Holds
    <3>2. Holders(e, k)' = Holders(e, k) \ {c}
          BY <2>2 DEF Holders, Holds, Quietly
    <3>3. Cardinality(Holders(e, k)') = Cardinality(Holders(e, k)) - 1
          BY <3>1, <3>2, HoldersFinite, FS_RemoveElement
    <3>4. thanked'[e][k] = thanked[e][k] + 1
          BY <1>0, <2>1, <2>5 DEF TypeOK
    <3>5. QED BY <2>3, <2>4, <3>3, <3>4
  <2>6. CASE ~(e = d /\ k = ch)
    <3>1. Holders(e, k)' = Holders(e, k)
          BY <2>1, <2>2, <2>6 DEF Holders, Holds, Quietly
    <3>2. thanked'[e][k] = thanked[e][k]
          BY <1>0, <2>1, <2>6 DEF TypeOK
    <3>3. QED BY <2>3, <3>1, <3>2
  <2>7. QED BY <2>5, <2>6
<1>7. CASE Release(c)
  <2>1. /\ r.pc = "release" /\ NextThanks(c, ch) /\ UNCHANGED hist
        /\ row' = [row EXCEPT ![d].sent[ch] = FALSE]
        BY <1>7 DEF Release, At
  <2>2. Quietly(call'[c].pc) /\ \A b \in Calls : b # c => call'[b] = call[b]
        BY <1>1, <2>1
  <2>3. \A e \in Donations, k \in Channels :
           row'[e].sent[k] = IF e = d /\ k = ch THEN FALSE ELSE row[e].sent[k]
        BY <1>0, <2>1, FlagSet
  <2> SUFFICES ASSUME NEW e \in Donations, NEW k \in Channels
               PROVE  (thanked[e][k] + Cardinality(Holders(e, k)) <= Credit(e, k))'
      BY DEF Accounting
  <2>4. /\ thanked[e][k] \in Nat /\ reverted[e][k] \in Nat
        /\ thanked[e][k] + Cardinality(Holders(e, k)) <= Credit(e, k)
        /\ thanked'[e][k] = thanked[e][k] /\ reverted'[e][k] = reverted[e][k]
        BY <2>1 DEF Accounting, TypeOK, hist
  <2>5. Cardinality(Holders(e, k)) \in Nat
        BY HoldersFinite
  <2>6. CASE e = d /\ k = ch
    <3>1. c \in Holders(e, k)
          BY <1>0, <2>1, <2>6 DEF Holders, Holds
    <3>2. Holders(e, k)' = Holders(e, k) \ {c}
          BY <2>2 DEF Holders, Holds, Quietly
    <3>3. Cardinality(Holders(e, k)') = Cardinality(Holders(e, k)) - 1
          BY <3>1, <3>2, HoldersFinite, FS_RemoveElement
    <3>4. ~row'[e].sent[k]
          BY <2>6, <2>3
    <3>5. QED BY <2>4, <2>5, <3>3, <3>4 DEF Credit
  <2>7. CASE ~(e = d /\ k = ch)
    <3>1. Holders(e, k)' = Holders(e, k)
          BY <2>1, <2>2, <2>7 DEF Holders, Holds, Quietly
    <3>2. row'[e].sent[k] = row[e].sent[k]
          BY <2>7, <2>3
    <3>3. QED BY <2>4, <3>1, <3>2 DEF Credit
  <2>8. QED BY <2>6, <2>7
<1>8. QED BY <1>3, <1>4, <1>5, <1>6, <1>7

\* The status update and the save of a stale entity preserve Accounting.
LEMMA OverwriteAccounting ==
    ASSUME TypeOK, TypeOK', Accounting, NEW c \in Calls, Write(c) \/ SaveEntity(c)
    PROVE  Accounting'
<1>1. Quietly(call[c].pc) /\ thanked' = thanked
      BY DEF Write, SaveEntity, At, Quietly
<1>2. PICK pc : Quietly(pc) /\ Goto(c, pc)
  <2>1. Quietly("done")
        BY DEF Quietly
  <2>2. QED BY <2>1, QuietSteps DEF Write, SaveEntity
<1>3. \E new : Overwrite(call[c].d, new)
      BY DEF Write, SaveEntity
<1>4. call[c].d \in Donations
      BY DEF TypeOK, Call
<1>5. QED BY <1>1, <1>2, <1>3, <1>4, GotoMoves, OverwriteCredit, NeutralStep

\* Every step of a call preserves Accounting.
LEMMA StepAccounting ==
    ASSUME TypeOK, TypeOK', Accounting, NEW c \in Calls, Step(c)
    PROVE  Accounting'
<1>1. CASE \/ Recheck(c) \/ BatchCheck(c) \/ (\E ok \in BOOLEAN : Allocate(c, ok))
           \/ \E ok \in BOOLEAN :
                 TokenOrManual(c, ok) \/ AlfalahHandshake(c, ok) \/ RegisterInvoice(c, ok)
           \/ FindPledge(c) \/ CheckPledge(c) \/ InsertPledge(c) \/ PledgeFails(c)
           \/ MarkIntent(c) \/ SaveDonor(c) \/ (\E ok \in BOOLEAN : Settle(c, ok))
           \/ PipelineCheck(c) \/ Promote(c)
      BY <1>1, GotoAccounting
<1>2. CASE \/ Query(c) \/ (\E ok \in BOOLEAN : Abandon(c, ok)) \/ Reread(c)
           \/ (\E to \in Status, ok \in BOOLEAN : Charge(c, to, ok)) \/ Activate(c)
           \/ ThanksRead(c)
  <2>1. "pending" \in Status
        BY DEF Status
  <2>2. QED BY <1>2, <2>1, LocalAccounting
<1>3. CASE Claim(c) \/ (\E ok \in BOOLEAN : Send(c, ok)) \/ Release(c)
      BY <1>3, ClaimAccounting
<1>4. CASE Write(c) \/ SaveEntity(c)
      BY <1>4, OverwriteAccounting
<1>5. QED BY <1>1, <1>2, <1>3, <1>4 DEF Step

\* The claim on the sent flag lets one thanks through per setting of the flag, however
\* many notifications, polls, retries and staff changes run at once and wherever they die.
THEOREM ThanksAreAccounted == Spec => []ThanksAccounted
<1>1. Init => Accounting
  <2> SUFFICES ASSUME Init, NEW d \in Donations, NEW ch \in Channels
               PROVE  thanked[d][ch] + Cardinality(Holders(d, ch)) <= Credit(d, ch)
      BY DEF Accounting
  <2>1. Holders(d, ch) = {}
        BY DEF Init, Holders, Holds, Idle
  <2>2. Cardinality(Holders(d, ch)) = 0
        BY <2>1, FS_EmptySet
  <2>3. thanked[d][ch] = 0 /\ Credit(d, ch) = 0
        BY DEF Init, Zero, Credit, NoRow, Unsent
  <2>4. QED BY <2>2, <2>3
<1>2. TypeOK /\ TypeOK' /\ Accounting /\ [Next]_vars => Accounting'
  <2> SUFFICES ASSUME TypeOK, TypeOK', Accounting, [Next]_vars PROVE Accounting'
      OBVIOUS
  <2>1. ASSUME UNCHANGED <<row, call, thanked, reverted>>
        PROVE  Accounting'
        BY <2>1 DEF Accounting, Holders, Holds, Credit
  <2>2. CASE UNCHANGED vars
        BY <2>1, <2>2 DEF vars, db, hist
  <2>3. CASE Customer
        BY <2>1, <2>3 DEF Customer, Attempt, db, hist
  <2>4. ASSUME NEW c \in Calls, Crash(c)
        PROVE  Accounting'
        BY <2>1, <2>4 DEF Crash, db, hist
  <2>5. QED BY <2>2, <2>3, <2>4, ArriveAccounting, StepAccounting DEF Next
<1>3. TypeOK /\ Accounting => ThanksAccounted
  <2> SUFFICES ASSUME TypeOK, Accounting, NEW d \in Donations, NEW ch \in Channels
               PROVE  thanked[d][ch] <= 1 + reverted[d][ch]
      BY DEF ThanksAccounted
  <2>1. Cardinality(Holders(d, ch)) \in Nat
        BY HoldersFinite
  <2>2. QED BY <2>1 DEF Accounting, Credit, TypeOK
<1>4. QED BY <1>1, <1>2, <1>3, TypeCorrect, PTL DEF Spec

-----------------------------------------------------------------------------
(* ActivatedHasPledge.  Besides the rows, the entity a checkout will save and *)
(* a call about to mark an intent must have a pledge behind them.           *)

Backing ==
    /\ ActivatedHasPledge
    /\ \A c \in Calls :
          call[c].saved.intent = "activated" \/ call[c].pc = "markIntent" =>
             pledges[DonorOf[call[c].d]] > 0

\* No pledge is taken away, and what becomes activated has one.
PledgesBack ==
    /\ \A p \in Donors : pledges'[p] >= pledges[p]
    /\ \A d \in Donations : row'[d].intent = "activated" =>
          row[d].intent = "activated" \/ pledges'[DonorOf[d]] > 0

\* Backing is kept when the call that moves is backed.
LEMMA BackingStep ==
    ASSUME TypeOK, TypeOK', Backing, PledgesBack, NEW c \in Calls,
           \A b \in Calls : b # c => call'[b] = call[b],
           call'[c].saved.intent = "activated" \/ call'[c].pc = "markIntent" =>
              pledges'[DonorOf[call'[c].d]] > 0
    PROVE  Backing'
<1>1. \A d \in Donations : DonorOf[d] \in Donors
      BY ConstantsAssumption
<1>2. \A p \in Donors : pledges[p] \in Nat /\ pledges'[p] \in Nat /\ pledges'[p] >= pledges[p]
      BY DEF TypeOK, PledgesBack
<1>3. ActivatedHasPledge'
  <2> SUFFICES ASSUME NEW d \in Donations, row'[d].intent = "activated"
               PROVE  pledges'[DonorOf[d]] > 0
      BY DEF ActivatedHasPledge
  <2>1. CASE row[d].intent = "activated"
    <3>1. pledges[DonorOf[d]] > 0
          BY <2>1 DEF Backing, ActivatedHasPledge
    <3>2. QED BY <1>1, <1>2, <3>1
  <2>2. CASE row[d].intent # "activated"
        BY <2>2 DEF PledgesBack
  <2>3. QED BY <2>1, <2>2
<1>4. ASSUME NEW b \in Calls,
             call'[b].saved.intent = "activated" \/ call'[b].pc = "markIntent"
      PROVE  pledges'[DonorOf[call'[b].d]] > 0
  <2>1. CASE b = c
        BY <1>4, <2>1
  <2>2. CASE b # c
    <3>1. call'[b] = call[b] /\ call[b].d \in Donations
          BY <2>2 DEF TypeOK, Call
    <3>2. pledges[DonorOf[call[b].d]] > 0
          BY <1>4, <3>1 DEF Backing
    <3>3. QED BY <1>1, <1>2, <3>1, <3>2
  <2>3. QED BY <2>1, <2>2
<1>5. QED BY <1>3, <1>4 DEF Backing

\* Rows that keep their intents, and pledges that stay, are backed.
LEMMA SamePledges ==
    ASSUME TypeOK, pledges' = pledges,
           \A d \in Donations : row'[d].intent = row[d].intent
    PROVE  PledgesBack
BY DEF PledgesBack, TypeOK

\* A call that ends or keeps its entity, and does not come to mark an intent, stays backed.
LEMMA BecomeBacking ==
    ASSUME TypeOK, TypeOK', Backing, PledgesBack, NEW c \in Calls, NEW r, Become(c, r),
           r.pc # "markIntent",
           \/ r.saved.intent # "activated"
           \/ r.saved = call[c].saved /\ r.d = call[c].d
    PROVE  Backing'
<1>1. \A b \in Calls : b # c => call'[b] = call[b]
      BY BecomeMoves
<1>2. CASE r.pc = "done"
  <2>1. call'[c] = [Idle EXCEPT !.pc = "done", !.kind = r.kind]
        BY <1>2 DEF Become, TypeOK
  <2>2. call'[c].saved.intent = "none" /\ call'[c].pc = "done"
        BY <2>1 DEF Idle, NoRow
  <2>3. QED BY <1>1, <2>2, BackingStep
<1>3. CASE r.pc # "done"
  <2>1. call'[c] = r
        BY <1>3 DEF Become, TypeOK
  <2>2. CASE r.saved.intent # "activated"
        BY <1>1, <2>1, <2>2, BackingStep
  <2>3. CASE r.saved.intent = "activated" /\ r.saved = call[c].saved /\ r.d = call[c].d
    <3>1. pledges[DonorOf[r.d]] > 0
          BY <2>3 DEF Backing
    <3>2. DonorOf[r.d] \in Donors
      <4>1. r.d \in Donations
            BY <2>3 DEF TypeOK, Call
      <4>2. QED BY <4>1, ConstantsAssumption
    <3>3. pledges'[DonorOf[r.d]] > 0
          BY <3>1, <3>2 DEF PledgesBack, TypeOK
    <3>4. QED BY <1>1, <2>1, <3>3, BackingStep
  <2>4. QED BY <2>2, <2>3
<1>4. QED BY <1>2, <1>3

\* The same for a call that only goes on.
LEMMA GotoBacking ==
    ASSUME TypeOK, TypeOK', Backing, PledgesBack, NEW c \in Calls, NEW pc, pc # "markIntent",
           Goto(c, pc)
    PROVE  Backing'
<1> DEFINE r == [call[c] EXCEPT !.pc = pc]
<1>1. r.pc = pc /\ r.saved = call[c].saved /\ r.d = call[c].d
      BY DEF TypeOK, Call
<1>2. Become(c, r)
      BY DEF Goto
<1> HIDE DEF r
<1>3. QED BY <1>1, <1>2, BecomeBacking

\* A call that starts holds no entity but the one it inserts, which is not activated.
LEMMA ArriveBacking ==
    ASSUME TypeOK, TypeOK', Backing, NEW c \in Calls, Arrive(c)
    PROVE  Backing'
<1>1. ASSUME NEW r, Become(c, r), r.saved = NoRow, r.pc # "markIntent",
             UNCHANGED <<db, net, crashed, hist>>
      PROVE  Backing'
  <2>1. PledgesBack
        BY <1>1, SamePledges DEF db
  <2>2. QED BY <1>1, <2>1, BecomeBacking DEF NoRow
<1>2. ASSUME NEW d \in Donations, NEW gw \in AllGateways, NEW to \in Status,
             NEW intent \in Intents, Create(c, d, gw, to, intent)
      PROVE  Backing'
  <2> DEFINE new == [status |-> to, sent |-> Unsent, method |-> gw,
                     intent |-> intent]
             r   == [Idle EXCEPT !.kind = "create", !.gw = gw, !.d = d, !.to = to,
                                 !.seen = new, !.saved = new]
             pc  == IF Successful(to) THEN "pipeline" ELSE AfterPipeline(r)
  <2>1. /\ row' = [row EXCEPT ![d] = new] /\ pledges' = pledges
        /\ Become(c, [r EXCEPT !.pc = pc])
        BY <1>2 DEF Create, Overwrite
  <2>2. new.intent # "activated"
        BY <1>2 DEF Create
  <2>3. r.saved = new /\ pc # "markIntent" /\ DOMAIN r = DOMAIN Idle
        BY DEF Idle, AfterPipeline
  <2>4. "pc" \in DOMAIN Idle
        BY DEF Idle
  <2> HIDE DEF r, pc, new
  <2>5. [r EXCEPT !.pc = pc].pc = pc /\ [r EXCEPT !.pc = pc].saved = new
        BY <2>3, <2>4
  <2>6. PledgesBack
        BY <2>1, <2>2 DEF PledgesBack, TypeOK
  <2>7. QED BY <2>1, <2>2, <2>3, <2>5, <2>6, BecomeBacking
<1>3. ASSUME NEW d \in Donations, NEW gw \in AllGateways, NEW to \in Status,
             Retry(c, d, gw, to)
      PROVE  Backing'
  <2> DEFINE r == [Idle EXCEPT !.pc = "reread", !.kind = "retry", !.gw = gw, !.d = d,
                               !.to = "pending"]
  <2>1. r.saved = NoRow /\ r.pc = "reread"
        BY DEF Idle
  <2>2. Become(c, r) /\ pledges' = pledges
        BY <1>3 DEF Retry
  <2> HIDE DEF r
  <2>3. PledgesBack
        BY <1>3, <2>2, SamePledges DEF Retry, TypeOK, Row
  <2>4. QED BY <2>1, <2>2, <2>3, BecomeBacking DEF NoRow
<1>4. ASSUME NEW n \in notes, NEW pc, Deliver(c, n, pc), pc # "markIntent"
      PROVE  Backing'
  <2> DEFINE r == [Idle EXCEPT !.pc = pc, !.kind = "callback", !.gw = n.gw, !.d = n.d,
                               !.to = n.to, !.seen = row[n.d],
                               !.todo = IF pc = "abandon" THEN OpenChannels(n.d, row[n.d])
                                                          ELSE {}]
  <2>1. r.saved = NoRow /\ r.pc = pc
        BY DEF Idle
  <2>2. Become(c, r) /\ UNCHANGED <<db, net, crashed, hist>>
        BY <1>4 DEF Deliver
  <2> HIDE DEF r
  <2>3. QED BY <1>1, <1>4, <2>1, <2>2
<1>5. ASSUME NEW n \in notes, Callback(c, n)
      PROVE  Backing'
  <2>1. \A d, to, seen : AbandonOrWrite(d, to, seen) # "markIntent"
        BY DEF AbandonOrWrite
  <2>2. QED BY <1>4, <1>5, <2>1
            DEF Callback, PayfastIpn, BlinqCallback, AlfalahListener, MeezanUpdate,
                JazzCashIpn, StripeWebhook
<1>6. ASSUME NEW d \in Donations, Return(c, d)
      PROVE  Backing'
  <2> DEFINE r == [Idle EXCEPT !.pc = "query", !.kind = "return", !.gw = "alfalah", !.d = d,
                               !.seen = row[d]]
  <2>1. r.saved = NoRow /\ r.pc = "query"
        BY DEF Idle
  <2>2. Become(c, r) /\ UNCHANGED <<db, net, crashed, hist>>
        BY <1>6 DEF Return
  <2> HIDE DEF r
  <2>3. QED BY <1>1, <2>1, <2>2
<1>7. ASSUME NEW d \in Donations, Poll(c, d)
      PROVE  Backing'
  <2> DEFINE r == [Idle EXCEPT !.pc = "query", !.kind = "poll", !.gw = row[d].method, !.d = d,
                               !.seen = row[d]]
  <2>1. r.saved = NoRow /\ r.pc = "query"
        BY DEF Idle
  <2>2. Become(c, r) /\ UNCHANGED <<db, net, crashed, hist>>
        BY <1>7 DEF Poll
  <2> HIDE DEF r
  <2>3. QED BY <1>1, <2>1, <2>2
<1>8. ASSUME NEW d \in Donations, Cron(c, d)
      PROVE  Backing'
  <2> DEFINE r == [Idle EXCEPT !.pc = "activate", !.kind = "cron", !.d = d]
  <2>1. r.saved = NoRow /\ r.pc = "activate"
        BY DEF Idle
  <2>2. Become(c, r) /\ UNCHANGED <<db, net, crashed, hist>>
        BY <1>8 DEF Cron
  <2> HIDE DEF r
  <2>3. QED BY <1>1, <2>1, <2>2
<1>9. ASSUME NEW d \in Donations, NEW to \in Status, NEW kind, SetStatus(c, kind, d, to)
       PROVE  Backing'
  <2> DEFINE r == [Idle EXCEPT !.pc = "write", !.kind = kind, !.d = d, !.to = to,
                               !.seen = row[d]]
  <2>1. r.saved = NoRow /\ r.pc = "write"
        BY DEF Idle
  <2>2. Become(c, r) /\ UNCHANGED <<db, net, crashed, hist>>
        BY <1>9 DEF SetStatus
  <2> HIDE DEF r
  <2>3. QED BY <1>1, <2>1, <2>2
<1>10. QED BY <1>2, <1>3, <1>5, <1>6, <1>7, <1>8, <1>9
           DEF Arrive, UpdateStatusAction, EditDonation, UpdateFromPublic

\* No step but the find and the insertion of a pledge leads to the mark of an intent.
LEMMA UnmarkedSteps ==
    \A r : "markIntent" \notin {AfterWrite(r), AfterBatch(r), AfterActivate(r), AfterPipeline(r)}
BY DEF AfterWrite, AfterBatch, AfterActivate, AfterPipeline

\* Steps that go on without touching entities or pledges keep Backing.
LEMMA PlainBacking ==
    ASSUME TypeOK, TypeOK', Backing, NEW c \in Calls, NEW ok \in BOOLEAN,
           \/ Write(c) \/ Recheck(c) \/ BatchCheck(c) \/ Allocate(c, ok)
           \/ TokenOrManual(c, ok) \/ AlfalahHandshake(c, ok) \/ RegisterInvoice(c, ok)
           \/ CheckPledge(c) \/ PledgeFails(c)
           \/ SaveDonor(c) \/ Settle(c, ok) \/ PipelineCheck(c) \/ Promote(c)
    PROVE  Backing'
<1>1. \E pc : pc # "markIntent" /\ Goto(c, pc)
      BY UnmarkedSteps
         DEF Write, Recheck, BatchCheck, Allocate, TokenOrManual, AlfalahHandshake,
             RegisterInvoice, CheckPledge, PledgeFails, SaveDonor, Settle,
             PipelineCheck, Promote
<1>2. pledges' = pledges
      BY DEF Write, Recheck, BatchCheck, Allocate, TokenOrManual, AlfalahHandshake,
             RegisterInvoice, CheckPledge, PledgeFails, SaveDonor, Settle,
             PipelineCheck, Promote, db
<1>3. \A d \in Donations : row'[d].intent = row[d].intent
  <2>1. CASE Write(c)
    <3> DEFINE r     == call[c]
               flags == r.kind \in {"callback", "return"} /\ r.gw \in FlagWriters
                           /\ r.to # "completed"
               to    == r.to
               sent  == IF flags THEN r.seen.sent ELSE row[r.d].sent
               new   == [row[r.d] EXCEPT !.status = to, !.sent = sent]
    <3>1. Overwrite(r.d, new)
          BY <2>1 DEF Write
    <3>2. row[r.d] \in Row /\ r.d \in Donations
          BY DEF TypeOK, Call
    <3> HIDE DEF sent, to
    <3>3. new.intent = row[r.d].intent
          BY <3>2 DEF Row
    <3>4. row' = [row EXCEPT ![r.d] = new]
          BY <3>1 DEF Overwrite
    <3> HIDE DEF new
    <3>5. DOMAIN row = Donations
          BY DEF TypeOK
    <3>6. \A d \in Donations : row'[d] = IF d = r.d THEN new ELSE row[d]
          BY <3>4, <3>5
    <3>7. QED BY <3>3, <3>6
  <2>2. CASE AlfalahHandshake(c, ok)
        BY <2>2 DEF AlfalahHandshake, TypeOK, Row
  <2>3. CASE ~Write(c) /\ ~AlfalahHandshake(c, ok)
    <3>1. row' = row
          BY <2>3 DEF Recheck, BatchCheck, Allocate, TokenOrManual, RegisterInvoice,
                      CheckPledge, PledgeFails, SaveDonor, Settle,
                      PipelineCheck, Promote, db
    <3>2. QED BY <3>1
  <2>4. QED BY <2>1, <2>2, <2>3
<1>4. QED BY <1>1, <1>2, <1>3, SamePledges, GotoBacking

\* Steps that fill in other locals keep Backing.
LEMMA LocalBacking ==
    ASSUME TypeOK, TypeOK', Backing, NEW c \in Calls, NEW ok \in BOOLEAN, NEW to \in Status,
           \/ Query(c) \/ Abandon(c, ok) \/ Charge(c, to, ok) \/ Activate(c) \/ ThanksRead(c)
    PROVE  Backing'
<1> DEFINE r == call[c]
<1>1. r \in Call
      BY DEF TypeOK
<1>2. PledgesBack
      BY SamePledges DEF Query, Abandon, Charge, Activate, ThanksRead, db
<1>3. \E next : /\ next.pc # "markIntent" /\ next.saved = r.saved /\ next.d = r.d
                /\ Become(c, next)
  <2>1. CASE Query(c)
    <3> DEFINE pc(v) == IF r.kind = "return" THEN AbandonOrWrite(r.d, v, r.seen)
                        ELSE IF v = r.seen.status THEN "done" ELSE "write"
    <3>1. PICK v : Become(c, [r EXCEPT !.to = v, !.pc = pc(v),
                                 !.todo = IF pc(v) = "abandon" THEN OpenChannels(r.d, r.seen)
                                                               ELSE {}])
          BY <2>1 DEF Query
    <3>2. pc(v) # "markIntent"
          BY DEF AbandonOrWrite
    <3> HIDE DEF pc
    <3>3. QED BY <1>1, <3>1, <3>2 DEF Call
  <2>2. CASE Abandon(c, ok)
    <3> DEFINE ch == NextChannel(r.todo)
               pc == IF r.todo = {ch} THEN "write" ELSE "abandon"
    <3>1. Become(c, [r EXCEPT !.seen.sent[ch] = TRUE, !.todo = @ \ {ch}, !.pc = pc])
          BY <2>2 DEF Abandon
    <3>2. pc # "markIntent"
          OBVIOUS
    <3> HIDE DEF pc, ch
    <3>3. QED BY <1>1, <3>1, <3>2 DEF Call
  <2>3. CASE Charge(c, to, ok)
    <3>1. PICK pc \in {"write", "done"} :
             Become(c, [r EXCEPT !.kind = "charge", !.to = to, !.pc = pc])
          BY <2>3 DEF Charge
    <3>2. QED BY <1>1, <3>1 DEF Call
  <2>4. CASE Activate(c)
    <3>1. PICK pc : /\ pc # "markIntent"
                    /\ Become(c, [r EXCEPT !.seen = row[r.d], !.stage = stage[DonorOf[r.d]],
                                           !.pc = pc])
          BY <2>4, UnmarkedSteps DEF Activate
    <3>2. QED BY <1>1, <3>1 DEF Call
  <2>5. CASE ThanksRead(c)
    <3> DEFINE seen == row[r.d]
               todo == IF Successful(seen.status) /\ Eligible(r.d, seen)
                       THEN OpenChannels(r.d, seen) ELSE {}
               pc   == IF todo = {} THEN "pipeline" ELSE "claim"
    <3>1. Become(c, [r EXCEPT !.seen = seen, !.todo = todo, !.pc = pc])
          BY <2>5 DEF ThanksRead
    <3>2. pc # "markIntent"
          OBVIOUS
    <3> HIDE DEF todo, pc
    <3>3. QED BY <1>1, <3>1, <3>2 DEF Call
  <2>6. QED BY <2>1, <2>2, <2>3, <2>4, <2>5
<1>4. QED BY <1>2, <1>3, BecomeBacking

\* The thanks touch neither entities nor pledges.
LEMMA ThanksBacking ==
    ASSUME TypeOK, TypeOK', Backing, NEW c \in Calls, NEW ok \in BOOLEAN,
           Claim(c) \/ Send(c, ok) \/ Release(c)
    PROVE  Backing'
<1> DEFINE r  == call[c]
           ch == NextChannel(r.todo)
<1>1. r \in Call
      BY DEF TypeOK
<1>2. PledgesBack
  <2>1. pledges' = pledges
        BY DEF Claim, Send, Release, db
  <2>2. \A d \in Donations : row'[d].intent = row[d].intent
    <3>1. row' = row \/ \E b \in BOOLEAN : row' = [row EXCEPT ![r.d].sent[ch] = b]
          BY DEF Claim, Send, Release, db
    <3>2. CASE row' = row
          BY <3>2
    <3>3. ASSUME NEW b \in BOOLEAN, row' = [row EXCEPT ![r.d].sent[ch] = b]
          PROVE  \A d \in Donations : row'[d].intent = row[d].intent
      <4> HIDE DEF ch
      <4> DEFINE new == [row[r.d] EXCEPT !.sent[ch] = b]
      <4>1. r.d \in Donations /\ row[r.d] \in Row /\ DOMAIN row = Donations
            BY <1>1 DEF TypeOK, Call
      <4>2. new.intent = row[r.d].intent
            BY <4>1 DEF Row
      <4>3. \A d \in Donations : row'[d] = IF d = r.d THEN new ELSE row[d]
            BY <3>3, <4>1
      <4> HIDE DEF new
      <4>4. QED BY <4>2, <4>3
    <3>4. QED BY <3>1, <3>2, <3>3
  <2>3. QED BY <2>1, <2>2, SamePledges
<1>3. CASE NextThanks(c, ch)
  <2> DEFINE rest == r.todo \ {ch}
             pc   == IF rest = {} THEN "pipeline" ELSE "claim"
             next == [r EXCEPT !.todo = rest, !.pc = pc]
  <2>1. Become(c, next)
        BY <1>3 DEF NextThanks
  <2>2. pc # "markIntent"
        OBVIOUS
  <2> HIDE DEF rest, pc
  <2>3. next.pc = pc /\ next.saved = r.saved /\ next.d = r.d
        BY <1>1 DEF Call
  <2>4. QED BY <1>2, <2>1, <2>2, <2>3, BecomeBacking
<1>4. CASE Goto(c, "send") \/ Goto(c, "release")
      BY <1>2, <1>4, GotoBacking
<1>5. QED BY <1>3, <1>4 DEF Claim, Send, Release

\* Finding, inserting and marking: what is activated has a pledge by then.
LEMMA PledgeBacking ==
    ASSUME TypeOK, TypeOK', Backing, NEW c \in Calls,
           FindPledge(c) \/ InsertPledge(c) \/ MarkIntent(c)
    PROVE  Backing'
<1> DEFINE r == call[c]
           p == DonorOf[r.d]
<1>1. r \in Call /\ r.d \in Donations /\ p \in Donors
      BY ConstantsAssumption DEF TypeOK, Call
<1>2. ASSUME NEW pc, pc # "done", Goto(c, pc)
      PROVE  /\ call'[c].saved = r.saved /\ call'[c].d = r.d /\ call'[c].pc = pc
             /\ \A b \in Calls : b # c => call'[b] = call[b]
  <2>1. call'[c] = [r EXCEPT !.pc = pc]
        BY <1>1, <1>2 DEF Goto, Become, TypeOK, Call
  <2>2. QED BY <1>1, <1>2, <2>1, GotoMoves DEF Call
<1>3. CASE FindPledge(c)
  <2>1. PledgesBack /\ pledges' = pledges
        BY <1>3, SamePledges DEF FindPledge, db
  <2>2. CASE Goto(c, "checkPledge")
        BY <2>1, <2>2, GotoBacking
  <2>3. CASE pledges[p] > 0 /\ Goto(c, "markIntent")
        BY <1>2, <2>1, <2>3, BackingStep
  <2>4. QED BY <1>3, <2>2, <2>3 DEF FindPledge
<1>4. CASE InsertPledge(c)
  <2>1. /\ pledges' = [pledges EXCEPT ![p] = @ + 1] /\ row' = row
        /\ Goto(c, "markIntent")
        BY <1>4 DEF InsertPledge
  <2>2. PledgesBack /\ pledges'[p] > 0
        BY <1>1, <2>1 DEF PledgesBack, TypeOK
  <2>3. QED BY <1>2, <2>1, <2>2, BackingStep
<1>5. CASE MarkIntent(c)
  <2>1. /\ r.pc = "markIntent" /\ pledges' = pledges
        /\ row' = [row EXCEPT ![r.d].intent = "activated"]
        /\ Goto(c, "saveDonor")
        BY <1>5 DEF MarkIntent, At
  <2>2. pledges[p] > 0
        BY <2>1 DEF Backing
  <2>3. PledgesBack
        BY <1>1, <2>1, <2>2 DEF PledgesBack, TypeOK
  <2>4. QED BY <2>1, <2>3, GotoBacking
<1>6. QED BY <1>3, <1>4, <1>5

\* A checkout takes its entity from a row that is backed, and saves it so.
LEMMA EntityBacking ==
    ASSUME TypeOK, TypeOK', Backing, NEW c \in Calls, Reread(c) \/ SaveEntity(c)
    PROVE  Backing'
<1> DEFINE r == call[c]
<1>1. r \in Call /\ r.d \in Donations /\ pledges' = pledges
      BY DEF TypeOK, Call, Reread, SaveEntity, db
<1>2. CASE Reread(c)
  <2>1. PICK pc \in {"pipeline", "invoice"} : Become(c, [r EXCEPT !.saved = row[r.d], !.pc = pc])
        BY <1>2 DEF Reread
  <2>2. call'[c] = [r EXCEPT !.saved = row[r.d], !.pc = pc]
        BY <1>1, <2>1 DEF Become, TypeOK, Call
  <2>3. call'[c].saved = row[r.d] /\ call'[c].d = r.d /\ call'[c].pc = pc
        BY <1>1, <2>2 DEF Call
  <2>4. \A b \in Calls : b # c => call'[b] = call[b]
        BY <2>1, BecomeMoves
  <2>5. PledgesBack
        BY <1>1, <1>2, SamePledges DEF Reread, db
  <2>6. row[r.d].intent = "activated" => pledges[DonorOf[r.d]] > 0
        BY <1>1 DEF Backing, ActivatedHasPledge
  <2>7. QED BY <1>1, <2>3, <2>4, <2>5, <2>6, BackingStep
<1>3. CASE SaveEntity(c)
  <2>1. row' = [row EXCEPT ![r.d] = r.saved] /\ Goto(c, "done")
        BY <1>3 DEF SaveEntity, Overwrite
  <2>2. r.saved.intent = "activated" => pledges[DonorOf[r.d]] > 0
        BY DEF Backing
  <2>3. \A q \in Donors : pledges'[q] >= pledges[q]
        BY <1>1 DEF TypeOK
  <2>4. PledgesBack
        BY <1>1, <2>1, <2>2, <2>3 DEF PledgesBack, TypeOK
  <2>5. QED BY <2>1, <2>4, GotoBacking
<1>4. QED BY <1>2, <1>3

\* An intent marked activated has a pledge behind it, whichever of the checkout, the
\* notifications and the cron marked it, and whatever stale entity was saved since.
THEOREM ActivationsAreBacked == Spec => []ActivatedHasPledge
<1>1. Init => Backing
  <2> SUFFICES ASSUME Init PROVE Backing
      OBVIOUS
  <2>1. \A d \in Donations : row[d].intent = "none"
        BY DEF Init, NoRow
  <2>2. \A c \in Calls : call[c].saved.intent = "none" /\ call[c].pc = "idle"
        BY DEF Init, Idle, NoRow
  <2>3. QED BY <2>1, <2>2 DEF Backing, ActivatedHasPledge
<1>2. TypeOK /\ TypeOK' /\ Backing /\ [Next]_vars => Backing'
  <2> SUFFICES ASSUME TypeOK, TypeOK', Backing, [Next]_vars PROVE Backing'
      OBVIOUS
  <2>1. ASSUME UNCHANGED <<row, call, pledges>>
        PROVE  Backing'
        BY <2>1 DEF Backing, ActivatedHasPledge
  <2>2. CASE UNCHANGED vars
        BY <2>1, <2>2 DEF vars, db
  <2>3. CASE Customer
        BY <2>1, <2>3 DEF Customer, Attempt, db
  <2>4. ASSUME NEW c \in Calls, Crash(c)
        PROVE  Backing'
        BY <2>1, <2>4 DEF Crash, db
  <2>5. ASSUME NEW c \in Calls, Step(c)
        PROVE  Backing'
    <3>1. "pending" \in Status /\ TRUE \in BOOLEAN
          BY DEF Status
    <3>2. CASE \/ Query(c) \/ (\E ok \in BOOLEAN : Abandon(c, ok)) \/ Activate(c)
               \/ (\E to \in Status, ok \in BOOLEAN : Charge(c, to, ok)) \/ ThanksRead(c)
          BY <3>1, <3>2, LocalBacking
    <3>3. CASE Claim(c) \/ (\E ok \in BOOLEAN : Send(c, ok)) \/ Release(c)
          BY <3>3, ThanksBacking
    <3>4. CASE FindPledge(c) \/ InsertPledge(c) \/ MarkIntent(c)
          BY <3>4, PledgeBacking
    <3>5. CASE Reread(c) \/ SaveEntity(c)
          BY <3>5, EntityBacking
    <3>6. QED BY <2>5, <3>2, <3>3, <3>4, <3>5, PlainBacking DEF Step
  <2>6. QED BY <2>2, <2>3, <2>4, <2>5, ArriveBacking DEF Next
<1>3. Backing => ActivatedHasPledge
      BY DEF Backing
<1>4. QED BY <1>1, <1>2, <1>3, TypeCorrect, PTL DEF Spec

-----------------------------------------------------------------------------
(* What a step does to a call, field by field.                             *)

Active(k) == k.pc \notin {"idle", "done"}

\* Two states of a call that differ at most in where it is.
Alike(k, m) ==
    /\ m.kind = k.kind /\ m.gw = k.gw /\ m.d = k.d /\ m.to = k.to
    /\ m.seen = k.seen /\ m.saved = k.saved /\ m.todo = k.todo

\* The call goes to pc with what it has; one that ends keeps nothing but its kind.
Goes(k, m, pc) == m.pc = pc /\ (pc # "done" => Alike(k, m))

\* The only call that moves.
Alone(c) == \A b \in Calls : b # c => call'[b] = call[b]

\* Become leaves a call that is over, or the record it was given.
LEMMA BecomeIs ==
    ASSUME TypeOK, NEW c \in Calls, NEW r, Become(c, r)
    PROVE  /\ Alone(c)
           /\ call'[c].pc = r.pc
           /\ r.pc # "done" => call'[c] = r
           /\ r.pc = "done" => ~Active(call'[c])
<1>1. Alone(c) /\ call'[c].pc = r.pc
      BY BecomeMoves DEF Alone
<1>2. r.pc # "done" => call'[c] = r
      BY DEF Become, TypeOK
<1>3. QED BY <1>1, <1>2 DEF Active

\* Goto changes where the call is and nothing else.
LEMMA GotoIs ==
    ASSUME TypeOK, NEW c \in Calls, NEW pc, Goto(c, pc)
    PROVE  Alone(c) /\ Goes(call[c], call'[c], pc)
<1> DEFINE r == [call[c] EXCEPT !.pc = pc]
<1>1. r.pc = pc /\ Alike(call[c], r)
      BY DEF TypeOK, Call, Alike
<1>2. Become(c, r)
      BY DEF Goto
<1> HIDE DEF r
<1>3. QED BY <1>1, <1>2, BecomeIs DEF Goes

\* The rows after a write to one donation's status and flags.
LEMMA OverwriteIs ==
    ASSUME TypeOK, NEW d \in Donations, NEW new, Overwrite(d, new)
    PROVE  row'[d] = new /\ \A e \in Donations : e # d => row'[e] = row[e]
BY DEF Overwrite, TypeOK

\* A call that starts.
LEMMA StartIs ==
    ASSUME TypeOK, NEW c \in Calls, NEW kind \in AllKinds, NEW r \in Call, Become(c, r),
           Arrives(c, kind)
    PROVE  /\ Alone(c) /\ ~Active(call[c]) /\ kind \in Kinds
           /\ call'[c].pc = r.pc
           /\ Active(call'[c]) => call'[c] = r
BY BecomeIs DEF Arrives, Active

\* A provider's answer, as the call takes it.
LEMMA QueryIs ==
    ASSUME TypeOK, NEW c \in Calls, Query(c)
    PROVE  LET k == call[c]
               m == call'[c]
           IN  /\ Alone(c) /\ k.pc = "query" /\ m.pc \in {"done", "abandon", "write"}
               /\ \/ m.to \in ProviderAnswers(k.d, k.gw)
                  \/ k.gw = "jazzcash" /\ m.to = k.seen.status
                  \/ m.pc = "done"
               /\ m.pc # "done" => /\ m.kind = k.kind /\ m.gw = k.gw /\ m.d = k.d
                                   /\ m.seen = k.seen /\ m.saved = k.saved
               /\ m.pc = "abandon" => k.kind = "return"
<1> DEFINE k == call[c]
           m == call'[c]
           known == IF k.gw = "jazzcash" THEN {k.seen.status} ELSE {}
           pc(v) == IF k.kind = "return" THEN AbandonOrWrite(k.d, v, k.seen)
                    ELSE IF v = k.seen.status THEN "done" ELSE "write"
           next(v) == [k EXCEPT !.to = v, !.pc = pc(v),
                          !.todo = IF pc(v) = "abandon" THEN OpenChannels(k.d, k.seen) ELSE {}]
<1>1. k.pc = "query" /\ k \in Call
      BY DEF Query, At, TypeOK
<1>2. PICK v \in ProviderAnswers(k.d, k.gw) \union known : Become(c, next(v))
      BY Zenon DEF Query
<1>3. /\ pc(v) \in {"done", "abandon", "write"}
      /\ pc(v) = "abandon" => k.kind = "return"
      BY DEF AbandonOrWrite
<1> HIDE DEF pc
<1>4. /\ next(v).pc = pc(v) /\ next(v).to = v /\ next(v).kind = k.kind /\ next(v).gw = k.gw
      /\ next(v).d = k.d /\ next(v).seen = k.seen /\ next(v).saved = k.saved
      BY <1>1 DEF Call
<1> HIDE DEF next
<1>5. Alone(c) /\ m.pc = pc(v) /\ (pc(v) # "done" => m = next(v))
      BY <1>2, <1>4, BecomeIs
<1>6. m.pc # "done" => m.to = v
      BY <1>4, <1>5
<1>7. v \in ProviderAnswers(k.d, k.gw) \/ (k.gw = "jazzcash" /\ v = k.seen.status)
      BY <1>2
<1>8. QED BY <1>1, <1>3, <1>4, <1>5, <1>6, <1>7

\* One abandon message: its flag is set in the call's copy whether it was accepted or not.
LEMMA AbandonIs ==
    ASSUME TypeOK, NEW c \in Calls, NEW ok \in BOOLEAN, Abandon(c, ok)
    PROVE  LET k  == call[c]
               m  == call'[c]
               ch == NextChannel(k.todo)
           IN  /\ Alone(c) /\ k.pc = "abandon" /\ m.pc \in {"abandon", "write"}
               /\ m.kind = k.kind /\ m.gw = k.gw /\ m.d = k.d /\ m.to = k.to /\ m.saved = k.saved
               /\ ch \in Channels
               /\ \A x \in Channels : m.seen.sent[x] = (x = ch \/ k.seen.sent[x])
               /\ ok => abandoned'[k.d][ch] = abandoned[k.d][ch] + 1
               /\ \A e \in Donations, x \in Channels : abandoned'[e][x] >= abandoned[e][x]
<1> DEFINE k  == call[c]
           m  == call'[c]
           ch == NextChannel(k.todo)
           pc == IF k.todo = {ch} THEN "write" ELSE "abandon"
           seen == [k.seen EXCEPT !.sent[ch] = TRUE]
           next == [k EXCEPT !.seen = seen, !.todo = k.todo \ {ch}, !.pc = pc]
<1>1. k.pc = "abandon" /\ k \in Call /\ ch \in Channels /\ k.d \in Donations
      BY NextChannelType DEF Abandon, At, TypeOK, Call
<1>2. Become(c, [k EXCEPT !.seen.sent[ch] = TRUE, !.todo = @ \ {ch}, !.pc = pc])
      BY DEF Abandon
<1>3. pc \in {"abandon", "write"}
      OBVIOUS
<1> HIDE DEF ch, pc
<1>4. [k EXCEPT !.seen.sent[ch] = TRUE, !.todo = @ \ {ch}, !.pc = pc] = next
      BY <1>1 DEF Call, Row
<1>5. k.seen.sent \in [Channels -> BOOLEAN] /\ seen.sent = [k.seen.sent EXCEPT ![ch] = TRUE]
      BY <1>1 DEF Call, Row
<1>6. \A x \in Channels : seen.sent[x] = (x = ch \/ k.seen.sent[x])
      BY <1>5
<1> HIDE DEF seen
<1>7. /\ next.pc = pc /\ next.kind = k.kind /\ next.gw = k.gw /\ next.d = k.d /\ next.to = k.to
      /\ next.saved = k.saved /\ next.seen = seen
      BY <1>1 DEF Call
<1>8. Alone(c) /\ m.pc = pc /\ m = next
      BY <1>2, <1>3, <1>4, <1>7, BecomeIs
<1>9. /\ ok => abandoned'[k.d][ch] = abandoned[k.d][ch] + 1
      /\ \A e \in Donations, x \in Channels : abandoned'[e][x] >= abandoned[e][x]
  <2>1. abandoned' = IF ok THEN [abandoned EXCEPT ![k.d][ch] = @ + 1] ELSE abandoned
        BY DEF Abandon, ch
  <2>2. \A e \in Donations, x \in Channels : abandoned[e][x] \in Nat
        BY DEF TypeOK
  <2>3. abandoned \in [Donations -> [Channels -> Nat]]
        BY DEF TypeOK
  <2>4. QED BY <1>1, <2>1, <2>2, <2>3
<1>10. QED BY <1>1, <1>3, <1>6, <1>7, <1>8, <1>9 DEF ch

\* The update of a status.
LEMMA WriteIs ==
    ASSUME TypeOK, NEW c \in Calls, Write(c)
    PROVE  LET k == call[c]
           IN  /\ Alone(c) /\ k.pc = "write" /\ Goes(k, call'[c], AfterWrite(k))
               /\ \A e \in Donations : e # k.d => row'[e] = row[e]
               /\ row'[k.d].status = k.to
               /\ row'[k.d].intent = row[k.d].intent
               /\ \/ row'[k.d].sent = row[k.d].sent
                  \/ /\ k.kind \in {"callback", "return"} /\ k.gw \in FlagWriters
                     /\ k.to # "completed"
                     /\ row'[k.d].sent = k.seen.sent
<1> DEFINE k == call[c]
           flags == k.kind \in {"callback", "return"} /\ k.gw \in FlagWriters /\ k.to # "completed"
           sent == IF flags THEN k.seen.sent ELSE row[k.d].sent
           new == [row[k.d] EXCEPT !.status = k.to, !.sent = sent]
<1>1. k.pc = "write" /\ k \in Call /\ k.d \in Donations /\ row[k.d] \in Row
      BY DEF Write, At, TypeOK, Call
<1>2. Overwrite(k.d, [row[k.d] EXCEPT !.status = k.to, !.sent = IF flags THEN k.seen.sent ELSE @])
      BY DEF Write
<1>3. Overwrite(k.d, new)
      BY <1>1, <1>2 DEF Row
<1> HIDE DEF sent
<1>4. new.status = k.to /\ new.sent = sent /\ new.intent = row[k.d].intent
      BY <1>1 DEF Row
<1> HIDE DEF new
<1>5. row'[k.d] = new /\ \A e \in Donations : e # k.d => row'[e] = row[e]
      BY <1>1, <1>3, OverwriteIs
<1>6. Alone(c) /\ Goes(k, call'[c], AfterWrite(k))
      BY GotoIs DEF Write
<1>7. QED BY <1>1, <1>4, <1>5, <1>6 DEF sent

\* A retried checkout reads the row again.
LEMMA RereadIs ==
    ASSUME TypeOK, NEW c \in Calls, Reread(c)
    PROVE  LET k == call[c]
               m == call'[c]
           IN  /\ Alone(c) /\ k.pc = "reread" /\ m.pc \in {"pipeline", "invoice"}
               /\ m.kind = k.kind /\ m.gw = k.gw /\ m.d = k.d /\ m.seen = k.seen
               /\ m.saved = row[k.d]
<1> DEFINE k == call[c]
<1>1. PICK pc \in {"pipeline", "invoice"} : Become(c, [k EXCEPT !.saved = row[k.d], !.pc = pc])
      BY DEF Reread
<1>2. k \in Call /\ k.pc = "reread"
      BY DEF TypeOK, Reread, At
<1> DEFINE r == [k EXCEPT !.saved = row[k.d], !.pc = pc]
<1>3. /\ r.pc = pc /\ r.kind = k.kind /\ r.gw = k.gw /\ r.d = k.d /\ r.saved = row[k.d]
      /\ r.seen = k.seen
      BY <1>2 DEF Call
<1> HIDE DEF r
<1>4. Become(c, r)
      BY <1>1 DEF r
<1>5. Alone(c) /\ call'[c] = r
      BY <1>1, <1>3, <1>4, BecomeIs
<1>6. QED BY <1>1, <1>2, <1>3, <1>5

\* The charge of a wallet: the checkout goes on as a report of the payment.
LEMMA ChargeIs ==
    ASSUME TypeOK, NEW c \in Calls, NEW to \in Status, NEW ok \in BOOLEAN, Charge(c, to, ok)
    PROVE  LET k == call[c]
               m == call'[c]
           IN  /\ Alone(c) /\ k.pc = "invoice" /\ k.gw = "jazzcash" /\ m.pc \in {"write", "done"}
               /\ m.pc # "done" => /\ m.kind = "charge" /\ m.gw = k.gw /\ m.d = k.d /\ m.to = to
                                   /\ m.seen = k.seen /\ m.saved = k.saved
<1> DEFINE k == call[c]
<1>1. PICK pc \in {"write", "done"} : Become(c, [k EXCEPT !.kind = "charge", !.to = to, !.pc = pc])
      BY DEF Charge
<1>2. k \in Call /\ k.pc = "invoice" /\ k.gw = "jazzcash"
      BY DEF TypeOK, Charge, At
<1> DEFINE r == [k EXCEPT !.kind = "charge", !.to = to, !.pc = pc]
<1>3. /\ r.pc = pc /\ r.kind = "charge" /\ r.gw = k.gw /\ r.d = k.d /\ r.to = to
      /\ r.seen = k.seen /\ r.saved = k.saved
      BY <1>2 DEF Call
<1> HIDE DEF r
<1>4. Become(c, r)
      BY <1>1 DEF r
<1>5. Alone(c) /\ call'[c].pc = pc /\ (pc # "done" => call'[c] = r)
      BY <1>1, <1>3, <1>4, BecomeIs
<1>6. QED BY <1>1, <1>2, <1>3, <1>5

\* The start of an activation.
LEMMA ActivateIs ==
    ASSUME TypeOK, NEW c \in Calls, Activate(c)
    PROVE  LET k  == call[c]
               m  == call'[c]
               go == row[k.d].status \in {"pending", "completed"} /\ row[k.d].intent = "enroll"
           IN  /\ Alone(c) /\ k.pc = "activate"
               /\ m.pc = IF go THEN "findPledge" ELSE AfterActivate(k)
               /\ m.pc # "done" => /\ m.kind = k.kind /\ m.gw = k.gw /\ m.d = k.d
                                   /\ m.seen = row[k.d] /\ m.saved = k.saved
<1> DEFINE k  == call[c]
           go == row[k.d].status \in {"pending", "completed"} /\ row[k.d].intent = "enroll"
           pc == IF go THEN "findPledge" ELSE AfterActivate(k)
           r  == [k EXCEPT !.seen = row[k.d], !.stage = stage[DonorOf[k.d]], !.pc = pc]
<1>1. Become(c, r) /\ k \in Call /\ k.pc = "activate"
      BY DEF Activate, At, TypeOK
<1> HIDE DEF pc
<1>2. /\ r.pc = pc /\ r.kind = k.kind /\ r.gw = k.gw /\ r.d = k.d
      /\ r.seen = row[k.d] /\ r.saved = k.saved
      BY <1>1 DEF Call
<1> HIDE DEF r
<1>3. Alone(c) /\ call'[c].pc = pc /\ (pc # "done" => call'[c] = r)
      BY <1>1, <1>2, BecomeIs
<1>4. QED BY <1>1, <1>2, <1>3 DEF pc

\* The start of the thanks.
LEMMA ThanksReadIs ==
    ASSUME TypeOK, NEW c \in Calls, ThanksRead(c)
    PROVE  LET k == call[c]
               m == call'[c]
           IN  /\ Alone(c) /\ k.pc = "thanks" /\ m.pc \in {"pipeline", "claim"}
               /\ m.kind = k.kind /\ m.gw = k.gw /\ m.d = k.d
               /\ m.seen = row[k.d] /\ m.saved = k.saved
               /\ Successful(row[k.d].status) /\ Eligible(k.d, row[k.d]) =>
                     /\ m.todo = OpenChannels(k.d, row[k.d])
                     /\ m.pc = "pipeline" => m.todo = {}
<1> DEFINE k == call[c]
           todo == IF Successful(row[k.d].status) /\ Eligible(k.d, row[k.d])
                   THEN OpenChannels(k.d, row[k.d]) ELSE {}
           pc == IF todo = {} THEN "pipeline" ELSE "claim"
           r  == [k EXCEPT !.seen = row[k.d], !.todo = todo, !.pc = pc]
<1>1. Become(c, r) /\ k \in Call /\ k.pc = "thanks"
      BY DEF ThanksRead, At, TypeOK
<1>2. pc \in {"pipeline", "claim"} /\ (pc = "pipeline" => todo = {})
      OBVIOUS
<1> HIDE DEF pc, todo
<1>3. /\ r.pc = pc /\ r.kind = k.kind /\ r.gw = k.gw /\ r.d = k.d
      /\ r.seen = row[k.d] /\ r.saved = k.saved /\ r.todo = todo
      BY <1>1 DEF Call
<1> HIDE DEF r
<1>4. Alone(c) /\ call'[c] = r
      BY <1>1, <1>2, <1>3, BecomeIs
<1>5. QED BY <1>1, <1>2, <1>3, <1>4 DEF todo

\* The step after a channel.
LEMMA NextThanksIs ==
    ASSUME TypeOK, NEW c \in Calls, NEW ch, NextThanks(c, ch)
    PROVE  LET k == call[c]
               m == call'[c]
           IN  /\ Alone(c) /\ m.pc \in {"pipeline", "claim"}
               /\ m.kind = k.kind /\ m.gw = k.gw /\ m.d = k.d
               /\ m.seen = k.seen /\ m.saved = k.saved
               /\ m.todo = k.todo \ {ch}
               /\ m.pc = "pipeline" => m.todo = {}
<1> DEFINE k == call[c]
           todo == k.todo \ {ch}
           pc == IF todo = {} THEN "pipeline" ELSE "claim"
           r  == [k EXCEPT !.todo = todo, !.pc = pc]
<1>1. Become(c, r) /\ k \in Call
      BY DEF NextThanks, TypeOK
<1>2. pc \in {"pipeline", "claim"} /\ (pc = "pipeline" => todo = {})
      OBVIOUS
<1> HIDE DEF pc, todo
<1>3. /\ r.pc = pc /\ r.kind = k.kind /\ r.gw = k.gw /\ r.d = k.d
      /\ r.seen = k.seen /\ r.saved = k.saved /\ r.todo = todo
      BY <1>1 DEF Call
<1> HIDE DEF r
<1>4. Alone(c) /\ call'[c] = r
      BY <1>1, <1>2, <1>3, BecomeIs
<1>5. QED BY <1>1, <1>2, <1>3, <1>4 DEF todo

\* Setting a flag changes neither statuses nor intents.
LEMMA FlagOnly ==
    ASSUME TypeOK, NEW d \in Donations, NEW ch, NEW b,
           row' = [row EXCEPT ![d].sent[ch] = b]
    PROVE  \A e \in Donations :
              row'[e].status = row[e].status /\ row'[e].intent = row[e].intent
<1> DEFINE new == [row[d] EXCEPT !.sent[ch] = b]
<1>1. new.status = row[d].status /\ new.intent = row[d].intent
      BY DEF TypeOK, Row
<1>2. \A e \in Donations : row'[e] = IF e = d THEN new ELSE row[e]
      BY DEF TypeOK
<1> HIDE DEF new
<1>3. QED BY <1>1, <1>2

\* The claim of a channel's flag, or going on because it is set.
LEMMA ClaimIs ==
    ASSUME TypeOK, NEW c \in Calls, Claim(c)
    PROVE  LET k  == call[c]
               ch == NextChannel(k.todo)
           IN  /\ k.pc = "claim" /\ ch \in Channels /\ Alone(c)
               /\ \A e \in Donations :
                     row'[e].status = row[e].status /\ row'[e].intent = row[e].intent
               /\ \/ /\ Goes(k, call'[c], "send")
                     /\ \A e \in Donations, x \in Channels :
                           row'[e].sent[x] = ((e = k.d /\ x = ch) \/ row[e].sent[x])
                  \/ row' = row /\ row[k.d].sent[ch] /\ NextThanks(c, ch)
<1> DEFINE k  == call[c]
           ch == NextChannel(k.todo)
<1>1. k.pc = "claim" /\ ch \in Channels /\ k.d \in Donations
      BY NextChannelType DEF Claim, At, TypeOK, Call
<1>2. CASE ~row[k.d].sent[ch]
  <2>1. row' = [row EXCEPT ![k.d].sent[ch] = TRUE] /\ Goto(c, "send")
        BY <1>2 DEF Claim, Claimable
  <2>2. \A e \in Donations, x \in Channels :
           row'[e].sent[x] = IF e = k.d /\ x = ch THEN TRUE ELSE row[e].sent[x]
        BY <1>1, <2>1, FlagSet
  <2>3. \A e \in Donations :
           row'[e].status = row[e].status /\ row'[e].intent = row[e].intent
        BY <1>1, <2>1, FlagOnly
  <2>4. \A e \in Donations, x \in Channels : row[e].sent[x] \in BOOLEAN
        BY DEF TypeOK, Row
  <2>5. \A e \in Donations, x \in Channels :
           row'[e].sent[x] = ((e = k.d /\ x = ch) \/ row[e].sent[x])
    <3> SUFFICES ASSUME NEW e \in Donations, NEW x \in Channels
                 PROVE  row'[e].sent[x] = ((e = k.d /\ x = ch) \/ row[e].sent[x])
        OBVIOUS
    <3>1. CASE e = k.d /\ x = ch
      <4>1. row'[e].sent[x] = TRUE
            BY <2>2, <3>1
      <4>2. QED BY <3>1, <4>1
    <3>2. CASE ~(e = k.d /\ x = ch)
      <4>1. row'[e].sent[x] = row[e].sent[x]
            BY <2>2, <3>2
      <4>2. row[e].sent[x] \in BOOLEAN
            BY <2>4
      <4>3. QED BY <3>2, <4>1, <4>2
    <3>3. QED BY <3>1, <3>2
  <2>6. QED BY <1>1, <2>1, <2>3, <2>5, GotoIs
<1>3. CASE row[k.d].sent[ch]
  <2>1. row' = row /\ NextThanks(c, ch)
        BY <1>3 DEF Claim, Claimable
  <2>2. QED BY <1>1, <1>3, <2>1, NextThanksIs
<1>4. QED BY <1>2, <1>3

\* The release of a flag.
LEMMA ReleaseIs ==
    ASSUME TypeOK, NEW c \in Calls, Release(c)
    PROVE  LET k  == call[c]
               ch == NextChannel(k.todo)
           IN  /\ k.pc = "release" /\ ch \in Channels /\ NextThanks(c, ch)
               /\ \A e \in Donations :
                     row'[e].status = row[e].status /\ row'[e].intent = row[e].intent
               /\ \A e \in Donations, x \in Channels :
                     row'[e].sent[x] = IF e = k.d /\ x = ch THEN FALSE ELSE row[e].sent[x]
<1> DEFINE k  == call[c]
           ch == NextChannel(k.todo)
<1>1. k.pc = "release" /\ ch \in Channels /\ k.d \in Donations
      BY NextChannelType DEF Release, At, TypeOK, Call
<1>2. row' = [row EXCEPT ![k.d].sent[ch] = FALSE] /\ NextThanks(c, ch)
      BY DEF Release
<1>3. \A e \in Donations, x \in Channels :
         row'[e].sent[x] = IF e = k.d /\ x = ch THEN FALSE ELSE row[e].sent[x]
      BY <1>1, <1>2, FlagSet
<1>4. QED BY <1>1, <1>2, <1>3, FlagOnly

\* An accepted thanks, or one that failed.
LEMMA SendIs ==
    ASSUME TypeOK, NEW c \in Calls, NEW ok \in BOOLEAN, Send(c, ok)
    PROVE  LET k  == call[c]
               ch == NextChannel(k.todo)
           IN  /\ k.pc = "send" /\ ch \in Channels
               /\ \/ /\ ok /\ NextThanks(c, ch)
                     /\ thanked'[k.d][ch] = thanked[k.d][ch] + 1
                  \/ "send" \in Faults /\ Goto(c, "release")
               /\ \A e \in Donations, x \in Channels : thanked'[e][x] >= thanked[e][x]
<1> DEFINE k  == call[c]
           ch == NextChannel(k.todo)
<1>1. k.pc = "send" /\ ch \in Channels /\ k.d \in Donations
      BY NextChannelType DEF Send, At, TypeOK, Call
<1>2. thanked \in [Donations -> [Channels -> Nat]]
      BY DEF TypeOK
<1>3. CASE ok
  <2>1. thanked' = [thanked EXCEPT ![k.d][ch] = @ + 1] /\ NextThanks(c, ch)
        BY <1>3 DEF Send
  <2> HIDE DEF ch
  <2>2. QED BY <1>1, <1>2, <1>3, <2>1 DEF ch
<1>4. CASE ~ok
  <2>1. thanked' = thanked /\ Goto(c, "release") /\ "send" \in Faults
        BY <1>4 DEF Send
  <2>2. \A e \in Donations, x \in Channels : thanked[e][x] \in Nat
        BY <1>2
  <2>3. QED BY <1>1, <2>1, <2>2
<1>5. QED BY <1>3, <1>4

\* The steps that write one other field of a row.
LEMMA FieldIs ==
    ASSUME TypeOK, NEW c \in Calls, NEW ok \in BOOLEAN
    PROVE  LET k == call[c] IN
           /\ MarkIntent(c) =>
                 /\ k.pc = "markIntent" /\ Alone(c) /\ Goes(k, call'[c], "saveDonor")
                 /\ row'[k.d].intent = "activated"
                 /\ \A e \in Donations :
                       /\ row'[e].status = row[e].status /\ row'[e].sent = row[e].sent
                       /\ e # k.d => row'[e].intent = row[e].intent
           /\ AlfalahHandshake(c, ok) =>
                 /\ k.pc = "invoice" /\ k.gw = "alfalah" /\ Alone(c)
                 /\ call'[c].pc = "done" /\ row'[k.d].status = "pending"
                 /\ \A e \in Donations :
                       /\ row'[e].intent = row[e].intent /\ row'[e].sent = row[e].sent
                       /\ e # k.d => row'[e].status = row[e].status
           /\ SaveEntity(c) =>
                 /\ k.pc = "save" /\ Alone(c) /\ call'[c].pc = "done"
                 /\ row'[k.d] = k.saved
                 /\ \A e \in Donations : e # k.d => row'[e] = row[e]
<1> DEFINE k == call[c]
<1>1. k.d \in Donations /\ row[k.d] \in Row
      BY DEF TypeOK, Call
<1>2. ASSUME MarkIntent(c)
      PROVE  /\ k.pc = "markIntent" /\ Alone(c) /\ Goes(k, call'[c], "saveDonor")
             /\ row'[k.d].intent = "activated"
             /\ \A e \in Donations :
                   /\ row'[e].status = row[e].status /\ row'[e].sent = row[e].sent
                   /\ e # k.d => row'[e].intent = row[e].intent
  <2>1. k.pc = "markIntent" /\ Goto(c, "saveDonor") /\ row' = [row EXCEPT ![k.d].intent = "activated"]
        BY <1>2 DEF MarkIntent, At
  <2>2. QED BY <1>1, <2>1, GotoIs DEF TypeOK, Row
<1>3. ASSUME AlfalahHandshake(c, ok)
      PROVE  /\ k.pc = "invoice" /\ k.gw = "alfalah" /\ Alone(c)
             /\ call'[c].pc = "done" /\ row'[k.d].status = "pending"
             /\ \A e \in Donations :
                   /\ row'[e].intent = row[e].intent /\ row'[e].sent = row[e].sent
                   /\ e # k.d => row'[e].status = row[e].status
  <2>1. /\ k.pc = "invoice" /\ k.gw = "alfalah" /\ Goto(c, "done")
        /\ row' = [row EXCEPT ![k.d].status = "pending"]
        BY <1>3 DEF AlfalahHandshake, At
  <2>2. QED BY <1>1, <2>1, GotoIs DEF TypeOK, Row, Goes
<1>4. ASSUME SaveEntity(c)
      PROVE  /\ k.pc = "save" /\ Alone(c) /\ call'[c].pc = "done"
             /\ row'[k.d] = k.saved
             /\ \A e \in Donations : e # k.d => row'[e] = row[e]
      BY <1>1, <1>4, OverwriteIs, GotoIs DEF SaveEntity, At, Goes
<1>5. QED BY <1>2, <1>3, <1>4

\* A call that has read its row and changed nothing yet.
Begins(m) ==
    /\ m.kind \in Kinds /\ m.saved = NoRow
    /\ \/ /\ m.kind = "callback" /\ m.pc \in {"abandon", "write", "recheck"}
          /\ \E n \in notes : n.d = m.d /\ n.gw = m.gw /\ n.to = m.to
          /\ m.seen = row[m.d]
       \/ /\ m.kind = "return" /\ m.pc = "query" /\ m.gw = "alfalah" /\ m.gw \in issued[m.d]
          /\ m.seen = row[m.d]
       \/ /\ m.kind = "poll" /\ m.pc = "query" /\ m.gw \in Pollable \intersect issued[m.d]
          /\ m.seen = row[m.d]
       \/ /\ m.kind \in {"staff", "edit", "public"} /\ m.pc = "write" /\ m.to # "none"
          /\ row[m.d].status # "none" /\ m.seen = row[m.d]
       \/ /\ m.kind = "cron" /\ m.pc = "activate"
          /\ row[m.d].status # "none" /\ m.seen = NoRow

\* A checkout that has inserted its row.
Inserts(m) ==
    /\ m.kind = "create" /\ "create" \in Kinds /\ m.gw \in Gateways
    /\ row[m.d].status = "none"
    /\ row' = [row EXCEPT ![m.d] = m.saved] /\ m.seen = m.saved
    /\ m.saved.status = "pending" \/ (m.gw = "manual" /\ m.saved.status = "completed")
    /\ m.saved.sent = Unsent
    /\ m.saved.intent = "none" \/ (m.saved.intent = "enroll" /\ m.gw # "stripe")
    /\ m.pc = IF Successful(m.saved.status) THEN "pipeline" ELSE AfterPipeline(m)

\* A retried checkout that has patched its row.
Patches(m) ==
    /\ m.kind = "retry" /\ "retry" \in Kinds /\ m.gw \in Gateways \ {"manual"}
    /\ m.pc = "reread" /\ m.seen = NoRow /\ m.saved = NoRow
    /\ row[m.d].status # "none"
    /\ row'[m.d].status \in {"pending", row[m.d].status}
    /\ \A e \in Donations : /\ row'[e].sent = row[e].sent /\ row'[e].intent = row[e].intent
                            /\ e # m.d => row'[e] = row[e]

\* What an arrival does.
LEMMA ArriveIs ==
    ASSUME TypeOK, NEW c \in Calls, Arrive(c)
    PROVE  /\ Alone(c) /\ call[c].pc = "idle" /\ call'[c].pc # "idle"
           /\ UNCHANGED <<stage, pledges, allocated, settled, net, crashed, thanked, abandoned, enrolled>>
           /\ \/ Inserts(call'[c])
              \/ Patches(call'[c])
              \/ UNCHANGED <<row, reverted>> /\ (Active(call'[c]) => Begins(call'[c]))
<1> DEFINE m == call'[c]
           Rest == UNCHANGED <<stage, pledges, allocated, settled, net, crashed, thanked, abandoned, enrolled>>
           Goal == /\ Alone(c) /\ call[c].pc = "idle" /\ m.pc # "idle" /\ Rest
                   /\ \/ Inserts(m)
                      \/ Patches(m)
                      \/ UNCHANGED <<row, reverted>> /\ (Active(m) => Begins(m))
<1>0. SUFFICES Goal
      OBVIOUS
<1>1. ASSUME NEW d \in Donations, NEW gw \in AllGateways, NEW to \in Status,
             NEW intent \in Intents, Create(c, d, gw, to, intent)
      PROVE  Goal
  <2> DEFINE new == [status |-> to, sent |-> Unsent, method |-> gw, intent |-> intent]
             r   == [Idle EXCEPT !.kind = "create", !.gw = gw, !.d = d, !.to = to,
                                 !.seen = new, !.saved = new]
             pc  == IF Successful(to) THEN "pipeline" ELSE AfterPipeline(r)
             s   == [r EXCEPT !.pc = pc]
  <2>1. new \in Row
        BY DEF Row, Unsent, Channels, Intents
  <2>2. r \in Call
        BY <2>1, IdleType DEF Call, AllKinds
  <2>3. Overwrite(d, new) /\ Become(c, s) /\ Rest /\ Arrives(c, "create") /\ gw \in Gateways
        BY <1>1 DEF Create
  <2>4. /\ row[d].status = "none"
        /\ intent = "none" \/ (intent = "enroll" /\ gw # "stripe")
        /\ to = "pending" \/ (gw = "manual" /\ to = "completed")
        BY <1>1 DEF Create
  <2>5. new.status = to /\ new.sent = Unsent /\ new.intent = intent
        OBVIOUS
  <2>6. /\ r.kind = "create" /\ r.gw = gw /\ r.d = d /\ r.saved = new /\ r.seen = new
        BY DEF Idle
  <2>7. pc \in {"pipeline", "invoice", "activate", "batch"}
        BY <2>6 DEF AfterPipeline
  <2>8. \A q : AfterPipeline([r EXCEPT !.pc = q]) = AfterPipeline(r)
        BY <2>2 DEF AfterPipeline, Call
  <2> HIDE DEF r, pc, new
  <2>9. /\ s.pc = pc /\ s.kind = "create" /\ s.gw = gw /\ s.d = d /\ s.saved = new
        /\ s.seen = new
        BY <2>2, <2>6 DEF Call
  <2>10. AfterPipeline(s) = AfterPipeline(r)
        BY <2>8
  <2>11. pc = IF Successful(to) THEN "pipeline" ELSE AfterPipeline(r)
        BY DEF pc
  <2> HIDE DEF s
  <2>12. Alone(c) /\ m = s
        BY <2>3, <2>7, <2>9, BecomeIs
  <2>13. row' = [row EXCEPT ![d] = new]
        BY <2>3 DEF Overwrite
  <2>14. Inserts(m)
        BY <2>3, <2>4, <2>5, <2>9, <2>10, <2>11, <2>12, <2>13 DEF Inserts, Arrives
  <2>15. m.pc # "idle"
        BY <2>7, <2>9, <2>12
  <2>16. QED BY <2>3, <2>12, <2>14, <2>15 DEF Arrives
<1>2. ASSUME NEW d \in Donations, NEW gw \in AllGateways, NEW to \in Status,
             Retry(c, d, gw, to)
      PROVE  Goal
  <2> DEFINE r == [Idle EXCEPT !.pc = "reread", !.kind = "retry", !.gw = gw, !.d = d,
                               !.to = "pending"]
  <2>1. Become(c, r) /\ Arrives(c, "retry") /\ Rest /\ gw \in Gateways \ {"manual"}
        BY <1>2 DEF Retry, hist
  <2>2. r.pc = "reread" /\ r.kind = "retry" /\ r.gw = gw /\ r.d = d /\ r.seen = NoRow /\ r.saved = NoRow
        BY DEF Idle
  <2> HIDE DEF r
  <2>3. Alone(c) /\ m = r
        BY <2>1, <2>2, BecomeIs
  <2>4. row' = [row EXCEPT ![d].method = gw, ![d].status = to]
        BY <1>2 DEF Retry
  <2>5. /\ row[d].status # "none" /\ row'[d].status \in {"pending", row[d].status}
        /\ \A e \in Donations : /\ row'[e].sent = row[e].sent /\ row'[e].intent = row[e].intent
                                /\ e # d => row'[e] = row[e]
        BY <1>2, <2>4 DEF Retry, TypeOK, Row
  <2>6. Patches(m)
        BY <2>1, <2>2, <2>3, <2>5 DEF Patches, Arrives
  <2>7. QED BY <2>1, <2>2, <2>3, <2>6 DEF Arrives
<1>3. ASSUME NEW kind, Arrives(c, kind), NEW r, Become(c, r), UNCHANGED <<db, net, crashed, hist>>,
             r.pc \notin {"idle"}, r.pc # "done" => Begins(r)
      PROVE  Goal
  <2>1. Alone(c) /\ m.pc = r.pc /\ (r.pc # "done" => m = r)
        BY <1>3, BecomeIs
  <2>2. UNCHANGED <<row, reverted>> /\ Rest
        BY <1>3 DEF db, hist
  <2>3. Active(m) => Begins(m)
        BY <1>3, <2>1 DEF Active
  <2>4. QED BY <1>3, <2>1, <2>2, <2>3 DEF Arrives
<1>4. ASSUME NEW n \in notes, NEW pc \in {"done", "abandon", "write", "recheck"}, Deliver(c, n, pc)
      PROVE  Goal
  <2> DEFINE r == [Idle EXCEPT !.pc = pc, !.kind = "callback", !.gw = n.gw, !.d = n.d,
                               !.to = n.to, !.seen = row[n.d],
                               !.todo = IF pc = "abandon" THEN OpenChannels(n.d, row[n.d])
                                                          ELSE {}]
  <2>1. /\ r.pc = pc /\ r.kind = "callback" /\ r.gw = n.gw /\ r.d = n.d /\ r.to = n.to
        /\ r.seen = row[n.d] /\ r.saved = NoRow
        BY DEF Idle
  <2>2. Become(c, r) /\ Arrives(c, "callback") /\ UNCHANGED <<db, net, crashed, hist>>
        BY <1>4 DEF Deliver
  <2> HIDE DEF r
  <2>3. pc # "done" => Begins(r)
        BY <2>1, <2>2 DEF Begins, Arrives
  <2>4. QED BY <1>3, <2>1, <2>2, <2>3
<1>5. ASSUME NEW n \in notes, Callback(c, n)
      PROVE  Goal
  <2>1. \A d, to, seen : AbandonOrWrite(d, to, seen) \in {"abandon", "write"}
        BY DEF AbandonOrWrite
  <2> HIDE DEF Goal
  <2>2. QED BY <1>4, <1>5, <2>1
            DEF Callback, PayfastIpn, BlinqCallback, AlfalahListener, MeezanUpdate,
                JazzCashIpn, StripeWebhook
<1>6. ASSUME NEW d \in Donations, Return(c, d)
      PROVE  Goal
  <2> DEFINE r == [Idle EXCEPT !.pc = "query", !.kind = "return", !.gw = "alfalah", !.d = d,
                               !.seen = row[d]]
  <2>1. r.pc = "query" /\ r.kind = "return" /\ r.gw = "alfalah" /\ r.d = d /\ r.seen = row[d] /\ r.saved = NoRow
        BY DEF Idle
  <2>2. Become(c, r) /\ Arrives(c, "return") /\ UNCHANGED <<db, net, crashed, hist>> /\ "alfalah" \in issued[d]
        BY <1>6 DEF Return
  <2> HIDE DEF r
  <2>3. Begins(r)
        BY <2>1, <2>2 DEF Begins, Arrives
  <2>4. QED BY <1>3, <2>1, <2>2, <2>3
<1>7. ASSUME NEW d \in Donations, Poll(c, d)
      PROVE  Goal
  <2> DEFINE r == [Idle EXCEPT !.pc = "query", !.kind = "poll", !.gw = row[d].method, !.d = d,
                               !.seen = row[d]]
  <2>1. r.pc = "query" /\ r.kind = "poll" /\ r.gw = row[d].method /\ r.d = d /\ r.seen = row[d] /\ r.saved = NoRow
        BY DEF Idle
  <2>2. /\ Become(c, r) /\ Arrives(c, "poll") /\ UNCHANGED <<db, net, crashed, hist>>
        /\ row[d].method \in Pollable \intersect issued[d]
        BY <1>7 DEF Poll
  <2> HIDE DEF r
  <2>3. Begins(r)
        BY <2>1, <2>2 DEF Begins, Arrives
  <2>4. QED BY <1>3, <2>1, <2>2, <2>3
<1>8. ASSUME NEW d \in Donations, Cron(c, d)
      PROVE  Goal
  <2> DEFINE r == [Idle EXCEPT !.pc = "activate", !.kind = "cron", !.d = d]
  <2>1. r.pc = "activate" /\ r.kind = "cron" /\ r.d = d /\ r.seen = NoRow /\ r.saved = NoRow
        BY DEF Idle
  <2>2. /\ Become(c, r) /\ Arrives(c, "cron") /\ UNCHANGED <<db, net, crashed, hist>>
        /\ row[d].status # "none"
        BY <1>8 DEF Cron
  <2> HIDE DEF r
  <2>3. Begins(r)
        BY <2>1, <2>2 DEF Begins, Arrives
  <2>4. QED BY <1>3, <2>1, <2>2, <2>3
<1>9. ASSUME NEW d \in Donations, NEW to \in Status, NEW kind \in {"staff", "edit", "public"},
             SetStatus(c, kind, d, to)
      PROVE  Goal
  <2> DEFINE r == [Idle EXCEPT !.pc = "write", !.kind = kind, !.d = d, !.to = to,
                               !.seen = row[d]]
  <2>1. r.pc = "write" /\ r.kind = kind /\ r.d = d /\ r.to = to /\ r.seen = row[d] /\ r.saved = NoRow
        BY DEF Idle
  <2>2. /\ Become(c, r) /\ Arrives(c, kind) /\ UNCHANGED <<db, net, crashed, hist>>
        /\ row[d].status # "none" /\ to # "none"
        BY <1>9 DEF SetStatus
  <2> HIDE DEF r
  <2>3. Begins(r)
        BY <2>1, <2>2 DEF Begins, Arrives
  <2>4. QED BY <1>3, <2>1, <2>2, <2>3
<1> HIDE DEF Goal
<1>10. QED BY <1>1, <1>2, <1>5, <1>6, <1>7, <1>8, <1>9
           DEF Arrive, UpdateStatusAction, EditDonation, UpdateFromPublic

-----------------------------------------------------------------------------
(* Where the calls are.                                                    *)

Pledging  == {"activate", "findPledge", "checkPledge", "insertPledge", "markIntent", "saveDonor"}
Promoting == {"pipeline", "promote"}
Thanking  == {"ledger", "thanks", "claim", "send", "release"}
Answering == {"query", "abandon", "write", "recheck", "batch", "allocate"}

\* The calls that report a payment.
Reporting == {"callback", "return", "poll", "charge"}

\* Which statements belong to which handler.
PathOK(k) ==
    /\ k.kind = "create" =>
          k.pc \in Promoting \union Pledging \union {"batch", "allocate", "invoice", "save"}
    /\ k.kind = "retry" => k.pc \in Promoting \union {"reread", "invoice", "save"}
    /\ k.kind = "cron" => k.pc \in Pledging
    /\ k.kind = "public" => k.pc = "write"
    /\ k.kind = "edit" => k.pc \in Promoting \union {"write"}
    /\ k.kind = "staff" => k.pc \in Promoting \union Pledging \union Thanking \union {"write"}
    /\ k.kind \in Reporting =>
          k.pc \in Promoting \union Pledging \union Thanking \union Answering

\* What a checkout holds.
EntityOK(k) ==
    /\ k.kind = "create" =>
          /\ k.gw \in Gateways
          /\ k.saved.status = "pending" \/ (k.gw = "manual" /\ k.saved.status = "completed")
          /\ k.saved.sent = Unsent
          /\ k.saved.intent = "none" \/ (k.saved.intent = "enroll" /\ k.gw # "stripe")
    /\ k.kind = "retry" =>
          /\ k.gw \in Gateways \ {"manual"}
          /\ k.pc = "reread" \/ k.saved.status # "none"
    /\ k.pc = "save" => k.gw \in EntitySavers

\* What a call that reports a payment knows, given the invoices of its donation.
ReportOK(k, invoices) ==
    /\ k.kind \in Reporting => k.gw \in invoices
    /\ k.kind = "return" => k.gw = "alfalah"
    /\ k.kind = "poll" => k.gw \in Pollable
    /\ k.kind = "charge" => k.gw = "jazzcash"
    /\ k.pc = "query" => k.kind \in {"return", "poll"} /\ k.seen.status # "none"
    /\ k.pc \in {"abandon", "write"} => k.to # "none"
    /\ k.kind = "callback" /\ k.pc \in {"abandon", "write"} => k.to \in Outcomes[k.gw]

PlaceOK(k, invoices) ==
    k.kind \in Kinds \union {"charge"} /\ PathOK(k) /\ EntityOK(k) /\ ReportOK(k, invoices)

\* An invoice is of a gateway in use and for a donation there is, and so are the
\* outcomes posted; a call is where its handler may be.
Placed ==
    /\ \A d \in Donations : /\ issued[d] \subseteq Gateways \ {"manual"}
                            /\ issued[d] # {} => row[d].status # "none"
    /\ \A n \in notes : n.gw \in issued[n.d] /\ n.to \in Outcomes[n.gw]
    /\ \A c \in Calls : Active(call[c]) =>
          row[call[c].d].status # "none" /\ PlaceOK(call[c], issued[call[c].d])

\* Rows are not deleted, invoices are not taken back, and new ones are of a gateway in use.
Kept ==
    /\ \A d \in Donations :
          /\ row[d].status # "none" => row'[d].status # "none"
          /\ issued[d] \subseteq issued'[d]
          /\ issued'[d] \subseteq Gateways \ {"manual"}
          /\ issued'[d] # issued[d] => row'[d].status # "none"
    /\ \A n \in notes' : n \in Note /\ n.gw \in issued'[n.d] /\ n.to \in Outcomes[n.gw]

\* A call that moves leaves the others where they are.
LEMMA PlacedStep ==
    ASSUME TypeOK, Placed, Kept, NEW c \in Calls, Alone(c),
           Active(call'[c]) =>
              /\ row'[call'[c].d].status # "none"
              /\ PlaceOK(call'[c], issued'[call'[c].d])
    PROVE  Placed'
<1>1. ASSUME NEW d \in Donations
      PROVE  issued'[d] \subseteq Gateways \ {"manual"} /\ (issued'[d] # {} => row'[d].status # "none")
      BY DEF Placed, Kept
<1>2. ASSUME NEW b \in Calls, Active(call'[b])
      PROVE  row'[call'[b].d].status # "none" /\ PlaceOK(call'[b], issued'[call'[b].d])
  <2>1. CASE b = c
        BY <1>2, <2>1
  <2>2. CASE b # c
    <3>1. call'[b] = call[b] /\ call[b].d \in Donations
          BY <2>2 DEF Alone, TypeOK, Call
    <3>2. row[call[b].d].status # "none" /\ PlaceOK(call[b], issued[call[b].d])
          BY <1>2, <3>1 DEF Placed
    <3>3. issued[call[b].d] \subseteq issued'[call[b].d]
          BY <3>1 DEF Kept
    <3>4. PlaceOK(call[b], issued'[call[b].d])
          BY <3>2, <3>3 DEF PlaceOK, ReportOK
    <3>5. QED BY <3>1, <3>2, <3>4 DEF Kept
  <2>3. QED BY <2>1, <2>2
<1>3. QED BY <1>1, <1>2 DEF Placed, Kept

\* A call that goes on with what it has.
LEMMA PlacedGoes ==
    ASSUME TypeOK, Placed, Kept, NEW c \in Calls, Alone(c), Active(call[c]), NEW pc,
           Goes(call[c], call'[c], pc), call[c].pc # "reread",
           pc \notin {"idle", "query", "abandon", "write", "reread"},
           pc # "done" => PathOK([call[c] EXCEPT !.pc = pc]),
           pc = "save" => call[c].gw \in EntitySavers
    PROVE  Placed'
<1> DEFINE k == call[c]
           m == call'[c]
<1>1. k \in Call /\ k.d \in Donations
      BY DEF TypeOK, Call
<1>2. row[k.d].status # "none" /\ PlaceOK(k, issued[k.d]) /\ issued[k.d] \subseteq issued'[k.d]
      BY <1>1 DEF Placed, Kept
<1>3. ASSUME Active(m)
      PROVE  m.pc = pc /\ Alike(k, m) /\ PathOK([k EXCEPT !.pc = pc])
      BY <1>3 DEF Goes, Active
<1>4. ASSUME Active(m)
      PROVE  row'[m.d].status # "none" /\ PlaceOK(m, issued'[m.d])
  <2>1. row'[m.d].status # "none" /\ m.d = k.d
        BY <1>1, <1>2, <1>3, <1>4 DEF Kept, Alike
  <2>2. PathOK(m)
        BY <1>1, <1>3, <1>4 DEF PathOK, Alike, Call
  <2>3. EntityOK(m)
        BY <1>2, <1>3, <1>4 DEF EntityOK, Alike, PlaceOK
  <2>4. ReportOK(m, issued'[k.d])
        BY <1>2, <1>3, <1>4 DEF ReportOK, Alike, PlaceOK
  <2>5. QED BY <1>2, <1>3, <1>4, <2>1, <2>2, <2>3, <2>4 DEF PlaceOK, Alike
<1>5. QED BY <1>4, PlacedStep

\* Rows that keep their status, with the invoices and outcomes as they were.
LEMMA SameNet ==
    ASSUME TypeOK, Placed, UNCHANGED net,
           \A d \in Donations : row'[d].status = row[d].status
    PROVE  Kept
<1>1. \A n \in notes : n \in Note
      BY DEF TypeOK
<1>2. QED BY <1>1 DEF Kept, Placed, net

\* Steps that only move the call on.
LEMMA MovePlaced ==
    ASSUME TypeOK, Placed, NEW c \in Calls, NEW ok \in BOOLEAN,
           \/ Recheck(c) \/ BatchCheck(c) \/ Allocate(c, ok) \/ RegisterInvoice(c, ok)
           \/ FindPledge(c) \/ CheckPledge(c) \/ InsertPledge(c) \/ PledgeFails(c)
           \/ SaveDonor(c) \/ Settle(c, ok) \/ PipelineCheck(c) \/ Promote(c)
    PROVE  Placed'
<1> DEFINE k == call[c]
           m == call'[c]
<1>1. Active(k) /\ k \in Call
      BY DEF TypeOK, Recheck, BatchCheck, Allocate, RegisterInvoice, FindPledge, CheckPledge,
             InsertPledge, PledgeFails, SaveDonor, Settle, PipelineCheck, Promote, At, Active
<1>2. k.kind \in Kinds \union {"charge"} /\ PathOK(k) /\ k.kind \in AllKinds \union {"charge"}
      BY <1>1 DEF Placed, PlaceOK, Call
<1>3. UNCHANGED <<row, net>>
      BY DEF Recheck, BatchCheck, Allocate, RegisterInvoice, FindPledge, CheckPledge,
             InsertPledge, PledgeFails, SaveDonor, Settle, PipelineCheck, Promote, db
<1>4. Kept
      BY <1>3, SameNet
<1>5. ASSUME NEW pc, Goto(c, pc), k.pc # "reread",
             pc \notin {"idle", "query", "abandon", "write", "reread"},
             pc # "done" => PathOK([k EXCEPT !.pc = pc]),
             pc = "save" => k.gw \in EntitySavers
      PROVE  Placed'
      BY <1>1, <1>4, <1>5, GotoIs, PlacedGoes
<1>6. \A pc : [k EXCEPT !.pc = pc].pc = pc /\ [k EXCEPT !.pc = pc].kind = k.kind
      BY <1>1 DEF Call
<1>7. CASE Recheck(c)
  <2>1. PathOK([k EXCEPT !.pc = "activate"])
        BY <1>2, <1>6, <1>7 DEF Recheck, At, PathOK, Promoting, Pledging, Thanking, Answering,
                                Reporting
  <2>2. CASE Goto(c, "activate")
        BY <1>5, <1>7, <2>1, <2>2 DEF Recheck, At
  <2>3. CASE Goto(c, "done")
        BY <1>5, <1>7, <2>3 DEF Recheck, At
  <2>4. QED BY <1>7, <2>2, <2>3 DEF Recheck
<1>8. ASSUME k.pc \in {"batch", "allocate"}, Goto(c, AfterBatch(k))
      PROVE  Placed'
  <2>1. PathOK([k EXCEPT !.pc = AfterBatch(k)])
        BY <1>2, <1>6, <1>8 DEF AfterBatch, PathOK, Promoting, Pledging, Thanking, Answering,
                                Reporting, AllKinds
  <2>2. AfterBatch(k) \in {"invoice", "activate"}
        BY DEF AfterBatch
  <2>3. QED BY <1>5, <1>8, <2>1, <2>2
<1>9. CASE BatchCheck(c)
  <2>1. PathOK([k EXCEPT !.pc = "allocate"])
        BY <1>2, <1>6, <1>9 DEF BatchCheck, At, PathOK, Promoting, Pledging, Thanking, Answering,
                                Reporting
  <2>2. CASE Goto(c, "allocate")
        BY <1>5, <1>9, <2>1, <2>2 DEF BatchCheck, At
  <2>3. QED BY <1>8, <1>9, <2>2 DEF BatchCheck, At
<1>10. CASE Allocate(c, ok)
      BY <1>8, <1>10 DEF Allocate, At
<1>11. CASE RegisterInvoice(c, ok)
  <2>1. PathOK([k EXCEPT !.pc = "save"])
        BY <1>2, <1>6, <1>11 DEF RegisterInvoice, At, PathOK, Promoting, Pledging, Thanking,
                                 Answering, Reporting
  <2>2. CASE Goto(c, "save")
        BY <1>5, <1>11, <2>1, <2>2 DEF RegisterInvoice, At
  <2>3. CASE Goto(c, "done")
        BY <1>5, <1>11, <2>3 DEF RegisterInvoice, At
  <2>4. QED BY <1>11, <2>2, <2>3 DEF RegisterInvoice
<1>12. ASSUME k.pc \in Pledging, Goto(c, AfterActivate(k))
      PROVE  Placed'
  <2>1. AfterActivate(k) # "done" => PathOK([k EXCEPT !.pc = AfterActivate(k)])
        BY <1>2, <1>6, <1>12 DEF AfterActivate, PathOK, Promoting, Pledging, Thanking, Answering,
                                 Reporting, AllKinds
  <2>2. AfterActivate(k) \in {"batch", "done", "ledger"}
        BY DEF AfterActivate
  <2>3. k.pc # "reread"
        BY <1>12 DEF Pledging
  <2>4. QED BY <1>5, <1>12, <2>1, <2>2, <2>3
<1>13. ASSUME NEW pc \in {"checkPledge", "insertPledge", "markIntent"}, k.pc \in Pledging, Goto(c, pc)
      PROVE  Placed'
  <2>1. PathOK([k EXCEPT !.pc = pc])
        BY <1>2, <1>6, <1>13 DEF PathOK, Promoting, Pledging, Thanking, Answering, Reporting
  <2>2. k.pc # "reread"
        BY <1>13 DEF Pledging
  <2>3. QED BY <1>5, <1>13, <2>1, <2>2
<1>14. CASE FindPledge(c) \/ CheckPledge(c) \/ InsertPledge(c) \/ PledgeFails(c) \/ SaveDonor(c)
  <2>1. k.pc \in Pledging
        BY <1>14 DEF FindPledge, CheckPledge, InsertPledge, PledgeFails, SaveDonor, At, Pledging
  <2>2. QED BY <1>12, <1>13, <1>14, <2>1
            DEF FindPledge, CheckPledge, InsertPledge, PledgeFails, SaveDonor
<1>15. CASE Settle(c, ok)
  <2>1. PathOK([k EXCEPT !.pc = "thanks"])
        BY <1>2, <1>6, <1>15 DEF Settle, At, PathOK, Promoting, Pledging, Thanking, Answering,
                                 Reporting
  <2>2. QED BY <1>5, <1>15, <2>1 DEF Settle, At
<1>16. ASSUME k.pc \in Promoting, Goto(c, AfterPipeline(k))
      PROVE  Placed'
  <2>1. AfterPipeline(k) # "done" => PathOK([k EXCEPT !.pc = AfterPipeline(k)])
        BY <1>2, <1>6, <1>16 DEF AfterPipeline, PathOK, Promoting, Pledging, Thanking, Answering,
                                 Reporting
  <2>2. AfterPipeline(k) \in {"activate", "batch", "invoice", "done"} /\ k.pc # "reread"
        BY <1>16 DEF AfterPipeline, Promoting
  <2>3. QED BY <1>5, <1>16, <2>1, <2>2
<1>17. CASE PipelineCheck(c)
  <2>1. PathOK([k EXCEPT !.pc = "promote"])
        BY <1>2, <1>6, <1>17 DEF PipelineCheck, At, PathOK, Promoting, Pledging, Thanking,
                                 Answering, Reporting
  <2>2. CASE Goto(c, "promote")
        BY <1>5, <1>17, <2>1, <2>2 DEF PipelineCheck, At
  <2>3. QED BY <1>16, <1>17, <2>2 DEF PipelineCheck, At, Promoting
<1>18. CASE Promote(c)
      BY <1>16, <1>18 DEF Promote, At, Promoting
<1>19. QED BY <1>7, <1>9, <1>10, <1>11, <1>14, <1>15, <1>17, <1>18

\* Steps that fill in what the call knows, or end it.
LEMMA LocalPlaced ==
    ASSUME TypeOK, Placed, NEW c \in Calls, NEW ok \in BOOLEAN,
           \/ Query(c) \/ Abandon(c, ok) \/ Reread(c) \/ Activate(c) \/ ThanksRead(c)
    PROVE  Placed'
<1> DEFINE k == call[c]
           m == call'[c]
<1>1. Active(k) /\ k \in Call /\ k.d \in Donations
  <2>1. k.pc \in {"query", "abandon", "reread", "activate", "thanks"}
        BY QueryIs, AbandonIs, RereadIs, ActivateIs, ThanksReadIs
  <2>2. QED BY <2>1 DEF TypeOK, Call, Active
<1>2. row[k.d].status # "none" /\ PlaceOK(k, issued[k.d])
      BY <1>1 DEF Placed
<1>3. UNCHANGED <<row, net>>
  <2>1. CASE Query(c)
        BY <2>1, Zenon DEF Query, db
  <2>2. CASE Abandon(c, ok) \/ Reread(c) \/ Activate(c) \/ ThanksRead(c)
        BY <2>2 DEF Abandon, Reread, Activate, ThanksRead, db
  <2>3. QED BY <2>1, <2>2
<1>4. Kept
      BY <1>3, SameNet
<1>5. ASSUME Alone(c),
             Active(m) => m.d = k.d /\ PlaceOK(m, issued[k.d])
      PROVE  Placed'
  <2>1. issued' = issued
        BY <1>3 DEF net
  <2>2. QED BY <1>1, <1>2, <1>3, <1>4, <1>5, <2>1, PlacedStep
<1>6. CASE Query(c)
  <2> HIDE DEF k, m
  <2>1. /\ Alone(c) /\ k.pc = "query" /\ m.pc \in {"done", "abandon", "write"}
        /\ \/ m.to \in ProviderAnswers(k.d, k.gw)
           \/ k.gw = "jazzcash" /\ m.to = k.seen.status
           \/ m.pc = "done"
        /\ m.pc # "done" => /\ m.kind = k.kind /\ m.gw = k.gw /\ m.d = k.d
                            /\ m.seen = k.seen /\ m.saved = k.saved
        BY <1>6, QueryIs DEF k, m
  <2>2. k.kind \in {"return", "poll"} /\ k.seen.status # "none"
        BY <1>2, <2>1 DEF PlaceOK, ReportOK
  <2>3. "none" \notin ProviderAnswers(k.d, k.gw)
    <3>1. k.gw \in AllGateways
          BY <1>1 DEF Call
    <3>2. "none" \notin Outcomes[k.gw]
          BY <3>1, OutcomesType
    <3>3. QED BY <3>2 DEF ProviderAnswers
  <2>4. m.pc # "done" => m.to # "none"
        BY <2>1, <2>2, <2>3
  <2>5. Active(m) => PlaceOK(m, issued[k.d])
        BY <1>2, <2>1, <2>2, <2>4
           DEF PlaceOK, PathOK, EntityOK, ReportOK, Active, Reporting, Answering
  <2>6. QED BY <1>5, <2>1, <2>5 DEF k, m, Active
<1>7. CASE Abandon(c, ok)
  <2>1. /\ Alone(c) /\ k.pc = "abandon" /\ m.pc \in {"abandon", "write"}
        /\ m.kind = k.kind /\ m.gw = k.gw /\ m.d = k.d /\ m.to = k.to /\ m.saved = k.saved
        BY <1>7, AbandonIs
  <2>2. k.kind \in Reporting
        BY <1>1, <1>2, <2>1 DEF PlaceOK, PathOK, Reporting, Call, AllKinds, Promoting, Pledging, Thanking
  <2>3. PlaceOK(m, issued[k.d])
        BY <1>2, <2>1, <2>2
           DEF PlaceOK, PathOK, EntityOK, ReportOK, Active, Reporting, Answering
  <2>4. QED BY <1>5, <2>1, <2>3
<1>8. CASE Reread(c)
  <2>1. /\ Alone(c) /\ k.pc = "reread" /\ m.pc \in {"pipeline", "invoice"}
        /\ m.kind = k.kind /\ m.gw = k.gw /\ m.d = k.d /\ m.seen = k.seen
        /\ m.saved = row[k.d]
        BY <1>8, RereadIs
  <2>2. k.kind = "retry"
        BY <1>1, <1>2, <2>1 DEF PlaceOK, PathOK, Reporting, Answering, Promoting, Pledging, Thanking,
                                Call, AllKinds
  <2>3. PlaceOK(m, issued[k.d])
        BY <1>2, <2>1, <2>2
           DEF PlaceOK, PathOK, EntityOK, ReportOK, Promoting, Reporting
  <2>4. QED BY <1>5, <2>1, <2>3
<1>9. CASE Activate(c)
  <2>1. /\ Alone(c) /\ k.pc = "activate"
        /\ m.pc \in {"findPledge", AfterActivate(k)}
        /\ m.pc # "done" => /\ m.kind = k.kind /\ m.gw = k.gw /\ m.d = k.d
                            /\ m.saved = k.saved
        BY <1>9, ActivateIs
  <2>2. m.pc # "done" => PathOK(m)
        BY <1>1, <1>2, <2>1 DEF AfterActivate, PlaceOK, PathOK, Promoting, Pledging, Thanking,
                                Answering, Reporting, AllKinds
  <2>3. m.pc \in {"findPledge", "batch", "done", "ledger"}
        BY <2>1 DEF AfterActivate
  <2>4. Active(m) => PlaceOK(m, issued[k.d])
        BY <1>2, <2>1, <2>2, <2>3 DEF PlaceOK, EntityOK, ReportOK, Active
  <2>5. QED BY <1>5, <2>1, <2>4 DEF Active
<1>10. CASE ThanksRead(c)
  <2>1. /\ Alone(c) /\ k.pc = "thanks" /\ m.pc \in {"pipeline", "claim"}
        /\ m.kind = k.kind /\ m.gw = k.gw /\ m.d = k.d /\ m.saved = k.saved
        BY <1>10, ThanksReadIs
  <2>2. PlaceOK(m, issued[k.d])
        BY <1>2, <2>1 DEF PlaceOK, PathOK, EntityOK, ReportOK, Promoting, Pledging, Thanking,
                          Answering, Reporting
  <2>3. QED BY <1>5, <2>1, <2>2
<1>11. QED BY <1>6, <1>7, <1>8, <1>9, <1>10

\* The messages of a thanks.
LEMMA ThanksPlaced ==
    ASSUME TypeOK, Placed, NEW c \in Calls, NEW ok \in BOOLEAN,
           Claim(c) \/ Send(c, ok) \/ Release(c)
    PROVE  Placed'
<1> DEFINE k == call[c]
           m == call'[c]
<1>1. k.pc \in {"claim", "send", "release"} /\ k \in Call /\ k.d \in Donations
      BY DEF TypeOK, Call, Claim, Send, Release, At
<1>2. Active(k) /\ row[k.d].status # "none" /\ PlaceOK(k, issued[k.d])
      BY <1>1 DEF Placed, Active
<1>3. \A e \in Donations : row'[e].status = row[e].status
  <2>1. CASE Claim(c)
        BY <2>1, ClaimIs
  <2>2. CASE Send(c, ok)
        BY <2>2 DEF Send, db
  <2>3. CASE Release(c)
        BY <2>3, ReleaseIs
  <2>4. QED BY <2>1, <2>2, <2>3
<1>4. UNCHANGED net
      BY DEF Claim, Send, Release
<1>5. Kept
      BY <1>3, <1>4, SameNet
<1>6. ASSUME NEW ch, NextThanks(c, ch)
      PROVE  Placed'
  <2>1. /\ Alone(c) /\ m.pc \in {"pipeline", "claim"}
        /\ m.kind = k.kind /\ m.gw = k.gw /\ m.d = k.d /\ m.saved = k.saved
        BY <1>6, NextThanksIs
  <2>2. PlaceOK(m, issued[k.d])
        BY <1>1, <1>2, <2>1 DEF PlaceOK, PathOK, EntityOK, ReportOK, Promoting, Pledging, Thanking,
                                Answering, Reporting
  <2>3. row'[k.d].status # "none" /\ issued' = issued
        BY <1>1, <1>2, <1>3, <1>4 DEF net
  <2>4. QED BY <1>5, <2>1, <2>2, <2>3, PlacedStep
<1>7. ASSUME NEW pc \in {"send", "release"}, Alone(c), Goes(k, m, pc)
      PROVE  Placed'
  <2>1. [k EXCEPT !.pc = pc].pc = pc /\ [k EXCEPT !.pc = pc].kind = k.kind
        BY <1>1 DEF Call
  <2>2. PathOK([k EXCEPT !.pc = pc])
        BY <1>1, <1>2, <2>1 DEF PlaceOK, PathOK, Promoting, Pledging, Thanking, Answering, Reporting
  <2>3. QED BY <1>1, <1>2, <1>5, <1>7, <2>2, PlacedGoes
<1>8. CASE Claim(c)
      BY <1>6, <1>7, <1>8, ClaimIs
<1>9. CASE Send(c, ok)
  <2>1. Goto(c, "release") => Alone(c) /\ Goes(k, m, "release")
        BY GotoIs
  <2>2. QED BY <1>6, <1>7, <1>9, <2>1, SendIs
<1>10. CASE Release(c)
      BY <1>6, <1>10, ReleaseIs
<1>11. QED BY <1>8, <1>9, <1>10

\* Steps that write a row, or open an invoice.
LEMMA WritePlaced ==
    ASSUME TypeOK, TypeOK', Placed, NEW c \in Calls, NEW ok \in BOOLEAN, NEW to \in Status,
           \/ Write(c) \/ MarkIntent(c) \/ AlfalahHandshake(c, ok) \/ TokenOrManual(c, ok)
           \/ SaveEntity(c) \/ Charge(c, to, ok)
    PROVE  Placed'
<1> DEFINE k == call[c]
           m == call'[c]
<1>1. k \in Call /\ k.d \in Donations
      BY DEF TypeOK, Call
<1>2. Active(k) /\ row[k.d].status # "none" /\ PlaceOK(k, issued[k.d])
      BY DEF Placed, Active, Write, MarkIntent, AlfalahHandshake, TokenOrManual, SaveEntity, Charge, At
<1>3. \A n \in notes : n \in Note /\ n.gw \in issued[n.d] /\ n.to \in Outcomes[n.gw] /\ n.d \in Donations
      BY DEF Placed, TypeOK, Note
<1>4. k.pc \in {"invoice", "save"} =>
         k.kind \in {"create", "retry"} /\ k.gw \in Gateways
      BY <1>1, <1>2 DEF PlaceOK, PathOK, EntityOK, Call, AllKinds, Promoting, Pledging, Thanking,
                        Answering, Reporting
<1>5. CASE Write(c)
  <2>1. /\ Alone(c) /\ k.pc = "write" /\ Goes(k, m, AfterWrite(k))
        /\ \A e \in Donations : e # k.d => row'[e] = row[e]
        /\ row'[k.d].status = k.to
        BY <1>5, WriteIs
  <2>2. k.to # "none" /\ UNCHANGED net
        BY <1>2, <1>5, <2>1 DEF PlaceOK, ReportOK, Write
  <2>3. Kept
        BY <1>3, <2>1, <2>2 DEF Kept, Placed, net
  <2>4. \A pc : [k EXCEPT !.pc = pc].pc = pc /\ [k EXCEPT !.pc = pc].kind = k.kind
        BY <1>1 DEF Call
  <2>5. AfterWrite(k) # "done" => PathOK([k EXCEPT !.pc = AfterWrite(k)])
        BY <1>1, <1>2, <2>1, <2>4 DEF AfterWrite, PlaceOK, PathOK, Promoting, Pledging, Thanking,
                                      Answering, Reporting, Call, AllKinds
  <2>6. AfterWrite(k) \in {"recheck", "done", "pipeline", "batch", "activate"}
        BY DEF AfterWrite
  <2>7. QED BY <1>2, <2>1, <2>3, <2>5, <2>6, PlacedGoes
<1>6. CASE MarkIntent(c)
  <2>1. /\ k.pc = "markIntent" /\ Alone(c) /\ Goes(k, m, "saveDonor")
        /\ \A e \in Donations : row'[e].status = row[e].status
        BY <1>6, FieldIs
  <2>2. Kept
        BY <1>6, <2>1, SameNet DEF MarkIntent
  <2>3. [k EXCEPT !.pc = "saveDonor"].pc = "saveDonor" /\ [k EXCEPT !.pc = "saveDonor"].kind = k.kind
        BY <1>1 DEF Call
  <2>4. PathOK([k EXCEPT !.pc = "saveDonor"])
        BY <1>2, <2>1, <2>3 DEF PlaceOK, PathOK, Promoting, Pledging, Thanking, Answering, Reporting
  <2>5. QED BY <1>2, <2>1, <2>2, <2>4, PlacedGoes
<1>7. ASSUME Alone(c), ~Active(m), Kept
      PROVE  Placed'
      BY <1>7, PlacedStep
<1>8. CASE AlfalahHandshake(c, ok)
  <2>1. /\ k.pc = "invoice" /\ k.gw = "alfalah" /\ Alone(c)
        /\ m.pc = "done" /\ row'[k.d].status = "pending"
        /\ \A e \in Donations : e # k.d => row'[e].status = row[e].status
        BY <1>8, FieldIs
  <2>2. issued' \in {issued, [issued EXCEPT ![k.d] = @ \union {k.gw}]} /\ notes' = notes
        BY <1>8 DEF AlfalahHandshake
  <2>3. /\ issued'[k.d] \in {issued[k.d], issued[k.d] \union {k.gw}}
        /\ \A e \in Donations : e # k.d => issued'[e] = issued[e]
        BY <1>1, <2>2 DEF TypeOK
  <2>4. issued[k.d] \subseteq issued'[k.d] /\ issued'[k.d] \subseteq Gateways \ {"manual"}
        BY <1>1, <1>4, <2>1, <2>3 DEF Placed
  <2>5. \A n \in notes' : n \in Note /\ n.gw \in issued'[n.d] /\ n.to \in Outcomes[n.gw]
        BY <1>3, <2>2, <2>3, <2>4
  <2>6. Kept
        BY <2>1, <2>3, <2>4, <2>5 DEF Kept, Placed
  <2>7. QED BY <1>7, <2>1, <2>6 DEF Active
<1>9. CASE TokenOrManual(c, ok)
  <2>1. /\ k.pc = "invoice" /\ Goto(c, "done") /\ row' = row /\ notes' = notes
        /\ issued' \in {issued, [issued EXCEPT ![k.d] = @ \union ({k.gw} \ {"manual"})]}
        BY <1>9 DEF TokenOrManual, At, db
  <2>2. /\ issued'[k.d] \in {issued[k.d], issued[k.d] \union ({k.gw} \ {"manual"})}
        /\ \A e \in Donations : e # k.d => issued'[e] = issued[e]
        BY <1>1, <2>1 DEF TypeOK
  <2>3. issued[k.d] \subseteq issued'[k.d] /\ issued'[k.d] \subseteq Gateways \ {"manual"}
        BY <1>1, <1>4, <2>1, <2>2 DEF Placed
  <2>4. \A n \in notes' : n \in Note /\ n.gw \in issued'[n.d] /\ n.to \in Outcomes[n.gw]
        BY <1>3, <2>1, <2>2, <2>3
  <2>5. Kept
        BY <1>2, <2>1, <2>2, <2>3, <2>4 DEF Kept, Placed
  <2>6. Alone(c) /\ m.pc = "done"
        BY <2>1, GotoIs DEF Goes
  <2>7. QED BY <1>7, <2>5, <2>6 DEF Active
<1>10. CASE SaveEntity(c)
  <2>1. /\ k.pc = "save" /\ Alone(c) /\ m.pc = "done" /\ row'[k.d] = k.saved
        /\ \A e \in Donations : e # k.d => row'[e] = row[e]
        BY <1>10, FieldIs
  <2>2. issued' = [issued EXCEPT ![k.d] = @ \union {k.gw}] /\ notes' = notes
        BY <1>10 DEF SaveEntity
  <2>3. k.saved.status # "none" /\ k.gw # "manual"
        BY <1>2, <1>4, <2>1 DEF PlaceOK, EntityOK, EntitySavers
  <2>4. Kept
        BY <1>1, <1>2, <1>3, <1>4, <2>1, <2>2, <2>3 DEF Kept, Placed, TypeOK
  <2>5. QED BY <1>7, <2>1, <2>4 DEF Active
<1>11. CASE Charge(c, to, ok)
  <2>1. /\ Alone(c) /\ k.pc = "invoice" /\ k.gw = "jazzcash" /\ m.pc \in {"write", "done"}
        /\ m.pc # "done" => /\ m.kind = "charge" /\ m.gw = k.gw /\ m.d = k.d /\ m.to = to
                            /\ m.saved = k.saved
        BY <1>11, ChargeIs
  <2>2. /\ row' = row /\ to \in Outcomes["jazzcash"]
        /\ issued' = [issued EXCEPT ![k.d] = @ \union {"jazzcash"}]
        /\ notes' = notes \union {[d |-> k.d, gw |-> "jazzcash", to |-> to]}
        BY <1>11 DEF Charge, db
  <2>3. \A n \in notes' : n \in Note
        BY DEF TypeOK
  <2>4. issued'[k.d] = issued[k.d] \union {"jazzcash"} /\ \A e \in Donations : e # k.d => issued'[e] = issued[e]
        BY <1>1, <2>2 DEF TypeOK
  <2>5. \A n \in notes' : n.gw \in issued'[n.d] /\ n.to \in Outcomes[n.gw]
    <3> SUFFICES ASSUME NEW n \in notes'
                 PROVE  n.gw \in issued'[n.d] /\ n.to \in Outcomes[n.gw]
        OBVIOUS
    <3>1. CASE n \in notes
          BY <1>3, <2>4, <3>1
    <3>2. CASE n = [d |-> k.d, gw |-> "jazzcash", to |-> to]
          BY <2>2, <2>4, <3>2
    <3>3. QED BY <2>2, <3>1, <3>2
  <2>6. Kept
        BY <1>2, <1>4, <2>1, <2>2, <2>3, <2>4, <2>5 DEF Kept, Placed
  <2>7. to # "none"
        BY <2>2 DEF Outcomes
  <2>8. Active(m) => PlaceOK(m, issued'[k.d])
        BY <1>2, <1>4, <2>1, <2>4, <2>7
           DEF PlaceOK, PathOK, EntityOK, ReportOK, Active, Reporting, Answering
  <2>9. QED BY <1>2, <2>1, <2>2, <2>6, <2>8, PlacedStep DEF Active
<1>12. QED BY <1>5, <1>6, <1>8, <1>9, <1>10, <1>11

\* Nothing a call says of itself speaks of where another call is.
LEMMA ArrivePlaced ==
    ASSUME TypeOK, TypeOK', Placed, NEW c \in Calls, Arrive(c)
    PROVE  Placed'
<1> DEFINE m == call'[c]
<1>1. /\ Alone(c) /\ UNCHANGED net
      /\ \/ Inserts(m)
         \/ Patches(m)
         \/ row' = row /\ (Active(m) => Begins(m))
      BY ArriveIs
<1>2. m \in Call /\ m.d \in Donations /\ issued' = issued /\ notes' = notes
      BY <1>1 DEF TypeOK, Call, net
<1>3. /\ \A d \in Donations : issued[d] \subseteq Gateways \ {"manual"}
      /\ \A n \in notes : n \in Note /\ n.gw \in issued[n.d] /\ n.to \in Outcomes[n.gw]
      BY DEF Placed, TypeOK
<1>4. ASSUME \A d \in Donations : row[d].status # "none" => row'[d].status # "none"
      PROVE  Kept
      BY <1>2, <1>3, <1>4 DEF Kept
<1> HIDE DEF m
<1>5. CASE Inserts(m)
  <2>1. /\ m.kind = "create" /\ "create" \in Kinds /\ m.gw \in Gateways
        /\ row' = [row EXCEPT ![m.d] = m.saved]
        /\ m.saved.status = "pending" \/ (m.gw = "manual" /\ m.saved.status = "completed")
        /\ m.saved.sent = Unsent
        /\ m.saved.intent = "none" \/ (m.saved.intent = "enroll" /\ m.gw # "stripe")
        /\ m.pc = IF Successful(m.saved.status) THEN "pipeline" ELSE AfterPipeline(m)
        BY <1>5 DEF Inserts
  <2>2. row'[m.d].status # "none" /\ \A e \in Donations : e # m.d => row'[e] = row[e]
        BY <1>2, <2>1 DEF TypeOK
  <2>3. Kept
        BY <1>4, <2>2
  <2>4. m.pc \in {"pipeline", "activate", "batch"}
        BY <2>1 DEF AfterPipeline
  <2>5. PlaceOK(m, issued'[m.d])
        BY <2>1, <2>4 DEF PlaceOK, PathOK, EntityOK, ReportOK, Promoting, Pledging, Reporting
  <2>6. QED BY <1>1, <2>2, <2>3, <2>5, PlacedStep DEF m
<1>6. CASE Patches(m)
  <2>1. /\ m.kind = "retry" /\ "retry" \in Kinds /\ m.gw \in Gateways \ {"manual"}
        /\ m.pc = "reread"
        /\ row[m.d].status # "none"
        /\ row'[m.d].status \in {"pending", row[m.d].status}
        /\ \A e \in Donations : e # m.d => row'[e] = row[e]
        BY <1>6 DEF Patches
  <2>2. Kept
        BY <1>4, <2>1
  <2>3. PlaceOK(m, issued'[m.d])
        BY <2>1 DEF PlaceOK, PathOK, EntityOK, ReportOK, Reporting
  <2>4. QED BY <1>1, <2>1, <2>2, <2>3, PlacedStep DEF m
<1>7. CASE row' = row /\ (Active(m) => Begins(m))
  <2>1. Kept
        BY <1>4, <1>7
  <2>2. ASSUME Active(m)
        PROVE  row[m.d].status # "none" /\ PlaceOK(m, issued[m.d])
    <3>1. Begins(m) /\ m.kind \in Kinds /\ m.saved = NoRow
          BY <1>7, <2>2 DEF Begins
    <3>2. CASE m.kind = "callback"
      <4>1. /\ m.pc \in {"abandon", "write", "recheck"}
            /\ \E n \in notes : n.d = m.d /\ n.gw = m.gw /\ n.to = m.to
            BY <3>1, <3>2 DEF Begins
      <4>2. m.gw \in issued[m.d] /\ m.to \in Outcomes[m.gw] /\ m.gw \in AllGateways
            BY <1>2, <1>3, <4>1 DEF Call
      <4>3. m.to # "none"
            BY <4>2, OutcomesType
      <4>4. row[m.d].status # "none"
            BY <1>2, <4>2 DEF Placed
      <4>5. QED BY <3>1, <3>2, <4>1, <4>2, <4>3, <4>4
                DEF PlaceOK, PathOK, EntityOK, ReportOK, Reporting, Answering
    <3>3. CASE m.kind = "return"
      <4>1. m.pc = "query" /\ m.gw = "alfalah" /\ m.gw \in issued[m.d] /\ m.seen = row[m.d]
            BY <3>1, <3>3 DEF Begins
      <4>2. row[m.d].status # "none"
            BY <1>2, <4>1 DEF Placed
      <4>3. QED BY <3>1, <3>3, <4>1, <4>2
                DEF PlaceOK, PathOK, EntityOK, ReportOK, Reporting, Answering
    <3>4. CASE m.kind = "poll"
      <4>1. m.pc = "query" /\ m.gw \in Pollable /\ m.gw \in issued[m.d] /\ m.seen = row[m.d]
            BY <3>1, <3>4 DEF Begins
      <4>2. row[m.d].status # "none"
            BY <1>2, <4>1 DEF Placed
      <4>3. QED BY <3>1, <3>4, <4>1, <4>2
                DEF PlaceOK, PathOK, EntityOK, ReportOK, Reporting, Answering
    <3>5. CASE m.kind \in {"staff", "edit", "public"}
      <4>1. m.pc = "write" /\ m.to # "none" /\ row[m.d].status # "none"
            BY <3>1, <3>5 DEF Begins
      <4>2. QED BY <3>1, <3>5, <4>1 DEF PlaceOK, PathOK, EntityOK, ReportOK, Reporting
    <3>6. CASE m.kind = "cron"
      <4>1. m.pc = "activate" /\ row[m.d].status # "none"
            BY <3>1, <3>6 DEF Begins
      <4>2. QED BY <3>1, <3>6, <4>1 DEF PlaceOK, PathOK, EntityOK, ReportOK, Reporting, Pledging
    <3>7. QED BY <3>1, <3>2, <3>3, <3>4, <3>5, <3>6 DEF Begins
  <2>3. QED BY <1>1, <1>2, <1>7, <2>1, <2>2, PlacedStep DEF m
<1>8. QED BY <1>1, <1>5, <1>6, <1>7

\* A step of a call.
LEMMA StepPlaced ==
    ASSUME TypeOK, TypeOK', Placed, NEW c \in Calls, Step(c)
    PROVE  Placed'
<1>1. "pending" \in Status /\ TRUE \in BOOLEAN
      BY DEF Status
<1>2. CASE \/ Query(c) \/ (\E ok \in BOOLEAN : Abandon(c, ok)) \/ Reread(c)
           \/ Activate(c) \/ ThanksRead(c)
      BY <1>1, <1>2, LocalPlaced
<1>3. CASE Claim(c) \/ (\E ok \in BOOLEAN : Send(c, ok)) \/ Release(c)
      BY <1>1, <1>3, ThanksPlaced
<1>4. CASE \/ Write(c) \/ MarkIntent(c) \/ SaveEntity(c)
           \/ \E ok \in BOOLEAN : AlfalahHandshake(c, ok) \/ TokenOrManual(c, ok)
           \/ \E to \in Status, ok \in BOOLEAN : Charge(c, to, ok)
      BY <1>1, <1>4, WritePlaced
<1>5. CASE \/ Recheck(c) \/ BatchCheck(c) \/ FindPledge(c) \/ CheckPledge(c) \/ InsertPledge(c)
           \/ PledgeFails(c) \/ SaveDonor(c) \/ PipelineCheck(c) \/ Promote(c)
           \/ \E ok \in BOOLEAN : Allocate(c, ok) \/ RegisterInvoice(c, ok) \/ Settle(c, ok)
      BY <1>1, <1>5, MovePlaced
<1>6. QED BY <1>2, <1>3, <1>4, <1>5 DEF Step

\* Payments are reported for invoices that were opened, and every call is in a statement
\* of its own handler.
THEOREM CallsArePlaced == Spec => []Placed
<1>1. Init => Placed
  <2> SUFFICES ASSUME Init PROVE Placed
      OBVIOUS
  <2>1. \A c \in Calls : call[c].pc = "idle"
        BY DEF Init, Idle
  <2>2. \A d \in Donations : issued[d] = {}
        BY DEF Init
  <2>3. notes = {}
        BY DEF Init
  <2>4. QED BY <2>1, <2>2, <2>3 DEF Placed, Active
<1>2. TypeOK /\ TypeOK' /\ Placed /\ [Next]_vars => Placed'
  <2> SUFFICES ASSUME TypeOK, TypeOK', Placed, [Next]_vars PROVE Placed'
      OBVIOUS
  <2>1. ASSUME UNCHANGED <<row, issued, notes, call>>
        PROVE  Placed'
        BY <2>1 DEF Placed
  <2>2. CASE UNCHANGED vars
        BY <2>1, <2>2 DEF vars, db, net
  <2>3. CASE Customer
    <3>1. PICK d \in Donations, gw \in AllGateways, to \in Status : Attempt(d, gw, to)
          BY <2>3 DEF Customer
    <3>2. /\ gw \in issued[d] /\ to \in Outcomes[gw] /\ row' = row /\ issued' = issued
          /\ call' = call /\ notes' = notes \union {[d |-> d, gw |-> gw, to |-> to]}
          BY <3>1 DEF Attempt, db
    <3>3. \A n \in notes' : n.gw \in issued[n.d] /\ n.to \in Outcomes[n.gw]
      <4> SUFFICES ASSUME NEW n \in notes'
                   PROVE  n.gw \in issued[n.d] /\ n.to \in Outcomes[n.gw]
          OBVIOUS
      <4>1. CASE n \in notes
            BY <4>1 DEF Placed
      <4>2. CASE n = [d |-> d, gw |-> gw, to |-> to]
            BY <3>2, <4>2
      <4>3. QED BY <3>2, <4>1, <4>2
    <3>4. QED BY <3>2, <3>3 DEF Placed
  <2>4. ASSUME NEW c \in Calls, Crash(c)
        PROVE  Placed'
        BY <2>1, <2>4 DEF Crash, db, net
  <2>5. QED BY <2>2, <2>3, <2>4, ArrivePlaced, StepPlaced DEF Next
<1>3. QED BY <1>1, <1>2, TypeCorrect, PTL DEF Spec

-----------------------------------------------------------------------------
(* What a step of a call may do to its donation, and to no other.          *)

\* The statements that change a donation's status.
Writes(k, m, status) ==
    \/ k.pc = "write" /\ status = k.to
    \/ k.pc = "invoice" /\ k.gw = "alfalah" /\ status = "pending" /\ m.pc = "done"
    \/ k.pc = "save" /\ status = k.saved.status /\ m.pc = "done"

\* The call stays with its donation and its handler, but for a wallet's charge, after which
\* it reports the payment.
Continues(k, m) ==
    /\ m.d = k.d
    /\ m.saved = k.saved \/ k.pc = "reread"
    /\ m.kind = k.kind \/ (k.pc = "invoice" /\ m.kind = "charge")

\* Only the statements at the gateway open an invoice, and they are a checkout's last.
Framed(c) ==
    LET k == call[c]
        m == call'[c]
    IN  /\ Active(k) /\ Alone(c)
        /\ Active(m) => Continues(k, m)
        /\ \A e \in Donations : e # k.d => row'[e] = row[e] /\ issued'[e] = issued[e]
        /\ row'[k.d].status = row[k.d].status \/ Writes(k, m, row'[k.d].status)
        /\ \/ issued'[k.d] = issued[k.d]
           \/ k.pc \in {"invoice", "save"} /\ (m.pc = "done" \/ m.kind = "charge")

\* A step that moves the call on and leaves rows and invoices alone.
LEMMA GotoFramed ==
    ASSUME TypeOK, NEW c \in Calls, Active(call[c]), NEW pc, Goto(c, pc),
           row' = row, issued' = issued
    PROVE  Framed(c)
<1>1. Alone(c) /\ Goes(call[c], call'[c], pc)
      BY GotoIs
<1>2. QED BY <1>1 DEF Framed, Goes, Alike, Continues, Active

\* The steps that decide, and those that write what is no part of the row.
LEMMA MoveFramed ==
    ASSUME TypeOK, NEW c \in Calls, NEW ok \in BOOLEAN,
           \/ Recheck(c) \/ BatchCheck(c) \/ Allocate(c, ok) \/ RegisterInvoice(c, ok)
           \/ FindPledge(c) \/ CheckPledge(c) \/ InsertPledge(c) \/ PledgeFails(c)
           \/ SaveDonor(c) \/ Settle(c, ok) \/ PipelineCheck(c) \/ Promote(c)
    PROVE  Framed(c)
<1>1. Active(call[c])
      BY DEF Recheck, BatchCheck, Allocate, RegisterInvoice, FindPledge, CheckPledge,
             InsertPledge, PledgeFails, SaveDonor, Settle, PipelineCheck, Promote, At, Active
<1>2. row' = row /\ issued' = issued
      BY DEF Recheck, BatchCheck, Allocate, RegisterInvoice, FindPledge, CheckPledge,
             InsertPledge, PledgeFails, SaveDonor, Settle, PipelineCheck, Promote, db, net
<1>3. \E pc : Goto(c, pc)
  <2>1. CASE Recheck(c) \/ BatchCheck(c) \/ RegisterInvoice(c, ok)
        BY <2>1 DEF Recheck, BatchCheck, RegisterInvoice
  <2>2. CASE Allocate(c, ok) \/ FindPledge(c) \/ CheckPledge(c) \/ InsertPledge(c)
        BY <2>2 DEF Allocate, FindPledge, CheckPledge, InsertPledge
  <2>3. CASE PledgeFails(c) \/ SaveDonor(c) \/ Settle(c, ok) \/ PipelineCheck(c) \/ Promote(c)
        BY <2>3 DEF PledgeFails, SaveDonor, Settle, PipelineCheck, Promote
  <2>4. QED BY <2>1, <2>2, <2>3
<1>4. QED BY <1>1, <1>2, <1>3, GotoFramed

\* The steps that fill in what the call knows.
LEMMA LocalFramed ==
    ASSUME TypeOK, NEW c \in Calls, NEW ok \in BOOLEAN,
           \/ Query(c) \/ Abandon(c, ok) \/ Reread(c) \/ Activate(c) \/ ThanksRead(c)
    PROVE  Framed(c)
<1>1. row' = row /\ issued' = issued
  <2>1. CASE Query(c)
        BY <2>1, Zenon DEF Query, db, net
  <2>2. CASE Abandon(c, ok) \/ Reread(c) \/ Activate(c) \/ ThanksRead(c)
        BY <2>2 DEF Abandon, Reread, Activate, ThanksRead, db, net
  <2>3. QED BY <2>1, <2>2
<1>2. ASSUME Active(call[c]), Alone(c),
             call'[c].pc # "done" =>
                /\ call'[c].kind = call[c].kind /\ call'[c].d = call[c].d
                /\ call'[c].saved = call[c].saved \/ call[c].pc = "reread"
      PROVE  Framed(c)
      BY <1>1, <1>2 DEF Framed, Continues, Active
<1>3. CASE Query(c)
      BY <1>2, <1>3, QueryIs DEF Active
<1>4. CASE Abandon(c, ok)
      BY <1>2, <1>4, AbandonIs DEF Active
<1>5. CASE Reread(c)
      BY <1>2, <1>5, RereadIs DEF Active
<1>6. CASE Activate(c)
      BY <1>2, <1>6, ActivateIs DEF Active
<1>7. CASE ThanksRead(c)
      BY <1>2, <1>7, ThanksReadIs DEF Active
<1>8. QED BY <1>3, <1>4, <1>5, <1>6, <1>7

\* The messages of a thanks write flags only.
LEMMA ThanksFramed ==
    ASSUME TypeOK, NEW c \in Calls, NEW ok \in BOOLEAN,
           Claim(c) \/ Send(c, ok) \/ Release(c)
    PROVE  Framed(c)
<1> DEFINE k  == call[c]
           ch == NextChannel(k.todo)
<1>1. k.pc \in {"claim", "send", "release"} /\ k.d \in Donations /\ issued' = issued
      BY DEF TypeOK, Call, Claim, Send, Release, At, net
<1>2. /\ \A e \in Donations : e # k.d => row'[e] = row[e]
      /\ row'[k.d].status = row[k.d].status
  <2>1. CASE row' = row
        BY <2>1
  <2>2. ASSUME NEW b \in BOOLEAN, row' = [row EXCEPT ![k.d].sent[ch] = b]
        PROVE  /\ \A e \in Donations : e # k.d => row'[e] = row[e]
               /\ row'[k.d].status = row[k.d].status
    <3>1. \A e \in Donations : e # k.d => row'[e] = row[e]
          BY <1>1, <2>2 DEF TypeOK
    <3>2. QED BY <1>1, <2>2, <3>1, FlagOnly
  <2>3. QED BY <2>1, <2>2 DEF Claim, Send, Release, db
<1>3. Alone(c) /\ call'[c].kind = k.kind /\ call'[c].d = k.d /\ call'[c].saved = k.saved
  <2>1. CASE NextThanks(c, ch)
        BY <2>1, NextThanksIs
  <2>2. CASE Goto(c, "send") \/ Goto(c, "release")
        BY <2>2, GotoIs DEF Goes, Alike
  <2>3. QED BY <2>1, <2>2 DEF Claim, Send, Release
<1>4. QED BY <1>1, <1>2, <1>3 DEF Framed, Continues, Active

\* The steps that write a status, an intent or an entity, or open an invoice.
LEMMA WriteFramed ==
    ASSUME TypeOK, NEW c \in Calls, NEW ok \in BOOLEAN, NEW to \in Status,
           \/ Write(c) \/ MarkIntent(c) \/ AlfalahHandshake(c, ok) \/ TokenOrManual(c, ok)
           \/ SaveEntity(c) \/ Charge(c, to, ok)
    PROVE  Framed(c)
<1> DEFINE k == call[c]
           m == call'[c]
<1>1. k.d \in Donations
      BY DEF TypeOK, Call
<1>2. CASE Write(c)
  <2>1. /\ Alone(c) /\ k.pc = "write" /\ Goes(k, m, AfterWrite(k)) /\ row'[k.d].status = k.to
        /\ \A e \in Donations : e # k.d => row'[e] = row[e]
        BY <1>2, WriteIs
  <2>2. issued' = issued
        BY <1>2 DEF Write, net
  <2>3. Active(m) => Continues(k, m)
        BY <2>1 DEF Goes, Alike, Active, Continues
  <2>4. Active(k) /\ Writes(k, m, row'[k.d].status)
        BY <2>1 DEF Active, Writes
  <2>5. QED BY <2>1, <2>2, <2>3, <2>4 DEF Framed
<1>3. CASE MarkIntent(c)
  <2>1. /\ k.pc = "markIntent" /\ Alone(c) /\ Goes(k, m, "saveDonor")
        /\ row'[k.d].status = row[k.d].status
        BY <1>1, <1>3, FieldIs
  <2>2. issued' = issued /\ row' = [row EXCEPT ![k.d].intent = "activated"]
        BY <1>3 DEF MarkIntent, net
  <2>3. \A e \in Donations : e # k.d => row'[e] = row[e]
        BY <1>1, <2>2 DEF TypeOK
  <2>4. QED BY <2>1, <2>2, <2>3 DEF Framed, Goes, Alike, Active, Continues
<1>4. CASE AlfalahHandshake(c, ok)
  <2>1. /\ k.pc = "invoice" /\ k.gw = "alfalah" /\ Alone(c)
        /\ m.pc = "done" /\ row'[k.d].status = "pending"
        BY <1>1, <1>4, FieldIs
  <2>2. /\ row' = [row EXCEPT ![k.d].status = "pending"]
        /\ issued' \in {issued, [issued EXCEPT ![k.d] = @ \union {k.gw}]}
        BY <1>4 DEF AlfalahHandshake
  <2>3. \A e \in Donations : e # k.d => row'[e] = row[e] /\ issued'[e] = issued[e]
        BY <1>1, <2>2 DEF TypeOK
  <2>4. QED BY <2>1, <2>3 DEF Framed, Active, Writes
<1>5. CASE TokenOrManual(c, ok)
  <2>1. /\ k.pc = "invoice" /\ Goto(c, "done") /\ row' = row
        /\ issued' \in {issued, [issued EXCEPT ![k.d] = @ \union ({k.gw} \ {"manual"})]}
        BY <1>5 DEF TokenOrManual, At, db
  <2>2. Alone(c) /\ m.pc = "done"
        BY <2>1, GotoIs DEF Goes
  <2>3. \A e \in Donations : e # k.d => issued'[e] = issued[e]
        BY <1>1, <2>1 DEF TypeOK
  <2>4. QED BY <2>1, <2>2, <2>3 DEF Framed, Active
<1>6. CASE SaveEntity(c)
  <2>1. /\ k.pc = "save" /\ Alone(c) /\ m.pc = "done" /\ row'[k.d] = k.saved
        /\ \A e \in Donations : e # k.d => row'[e] = row[e]
        BY <1>6, FieldIs
  <2>2. issued' = [issued EXCEPT ![k.d] = @ \union {k.gw}]
        BY <1>6 DEF SaveEntity
  <2>3. \A e \in Donations : e # k.d => issued'[e] = issued[e]
        BY <1>1, <2>2 DEF TypeOK
  <2>4. QED BY <2>1, <2>3 DEF Framed, Active, Writes
<1>7. CASE Charge(c, to, ok)
  <2>1. /\ Alone(c) /\ k.pc = "invoice" /\ m.pc \in {"write", "done"}
        /\ m.pc # "done" => m.kind = "charge" /\ m.d = k.d /\ m.saved = k.saved
        BY <1>7, ChargeIs
  <2>2. row' = row /\ issued' = [issued EXCEPT ![k.d] = @ \union {"jazzcash"}]
        BY <1>7 DEF Charge, db
  <2>3. \A e \in Donations : e # k.d => issued'[e] = issued[e]
        BY <1>1, <2>2 DEF TypeOK
  <2>4. QED BY <2>1, <2>2, <2>3 DEF Framed, Active, Continues
<1>8. QED BY <1>2, <1>3, <1>4, <1>5, <1>6, <1>7

\* Every step.
LEMMA StepFramed ==
    ASSUME TypeOK, NEW c \in Calls, Step(c)
    PROVE  Framed(c)
<1>1. "pending" \in Status /\ TRUE \in BOOLEAN
      BY DEF Status
<1>2. CASE \/ Query(c) \/ (\E ok \in BOOLEAN : Abandon(c, ok)) \/ Reread(c)
           \/ Activate(c) \/ ThanksRead(c)
      BY <1>1, <1>2, LocalFramed
<1>3. CASE Claim(c) \/ (\E ok \in BOOLEAN : Send(c, ok)) \/ Release(c)
      BY <1>1, <1>3, ThanksFramed
<1>4. CASE \/ Write(c) \/ MarkIntent(c) \/ SaveEntity(c)
           \/ \E ok \in BOOLEAN : AlfalahHandshake(c, ok) \/ TokenOrManual(c, ok)
           \/ \E to \in Status, ok \in BOOLEAN : Charge(c, to, ok)
      BY <1>1, <1>4, WriteFramed
<1>5. CASE \/ Recheck(c) \/ BatchCheck(c) \/ FindPledge(c) \/ CheckPledge(c) \/ InsertPledge(c)
           \/ PledgeFails(c) \/ SaveDonor(c) \/ PipelineCheck(c) \/ Promote(c)
           \/ \E ok \in BOOLEAN : Allocate(c, ok) \/ RegisterInvoice(c, ok) \/ Settle(c, ok)
      BY <1>1, <1>5, MoveFramed
<1>6. QED BY <1>2, <1>3, <1>4, <1>5 DEF Step

-----------------------------------------------------------------------------
(* A checkout that has not handed out its payment link has its donation to *)
(* itself, but for the enrolment cron.                                     *)

\* Nobody sets a status by hand and no checkout is retried.
NoEdits == Kinds \intersect {"retry", "staff", "edit", "public"} = {}

\* A first checkout under way.
Opens(k) == Active(k) /\ k.kind = "create"

Opening ==
    \A c \in Calls : Opens(call[c]) =>
        /\ issued[call[c].d] = {}
        /\ row[call[c].d].status = call[c].saved.status
        /\ \A b \in Calls : b # c /\ Active(call[b]) /\ call[b].d = call[c].d =>
              call[b].kind = "cron"

\* The handlers there are without edits.
LEMMA KindsLeft ==
    ASSUME TypeOK, Placed, NoEdits, NEW c \in Calls, Active(call[c])
    PROVE  /\ call[c].kind \in {"create", "cron"} \union Reporting
           /\ call[c].kind \in Reporting => call[c].gw \in issued[call[c].d]
<1>1. call[c].kind \in Kinds \union {"charge"} /\ ReportOK(call[c], issued[call[c].d])
      BY DEF Placed, PlaceOK
<1>2. call[c].kind \in AllKinds \union {"charge"}
      BY DEF TypeOK, Call
<1>3. QED BY <1>1, <1>2 DEF NoEdits, AllKinds, Reporting, ReportOK

\* A step that is no arrival.
LEMMA FramedOpening ==
    ASSUME TypeOK, Placed, NoEdits, Opening, NEW c \in Calls, Framed(c)
    PROVE  Opening'
<1> DEFINE k == call[c]
           m == call'[c]
<1>1. Active(k) /\ k.d \in Donations /\ PathOK(k) /\ k.kind \in {"create", "cron"} \union Reporting
      BY KindsLeft DEF Framed, TypeOK, Call, Placed, PlaceOK
<1>2. /\ Alone(c)
      /\ Active(m) => Continues(k, m)
      /\ \A e \in Donations : e # k.d => row'[e] = row[e] /\ issued'[e] = issued[e]
      /\ row'[k.d].status = row[k.d].status \/ Writes(k, m, row'[k.d].status)
      /\ \/ issued'[k.d] = issued[k.d]
         \/ k.pc \in {"invoice", "save"} /\ (m.pc = "done" \/ m.kind = "charge")
      BY DEF Framed
<1> HIDE DEF k, m
<1>3. ASSUME NEW a \in Calls, Opens(call'[a])
      PROVE  /\ issued'[call'[a].d] = {}
             /\ row'[call'[a].d].status = call'[a].saved.status
             /\ \A b \in Calls : b # a /\ Active(call'[b]) /\ call'[b].d = call'[a].d =>
                   call'[b].kind = "cron"
  <2>1. CASE a = c
    <3>1. Active(m) /\ m.kind = "create" /\ call'[a] = m
          BY <1>3, <2>1 DEF Opens, m
    <3>2. k.kind = "create" /\ m.d = k.d /\ (m.saved = k.saved \/ k.pc = "reread")
          BY <1>2, <3>1 DEF Continues
    <3>3. k.pc \notin {"write", "reread"}
          BY <1>1, <3>2 DEF PathOK, Promoting, Pledging
    <3>4. /\ issued[k.d] = {} /\ row[k.d].status = k.saved.status
          /\ \A b \in Calls : b # c /\ Active(call[b]) /\ call[b].d = k.d => call[b].kind = "cron"
          BY <1>1, <3>2 DEF Opening, Opens, k
    <3>5. issued'[k.d] = issued[k.d] /\ row'[k.d].status = row[k.d].status
          BY <1>2, <3>1, <3>3 DEF Writes, Active
    <3>6. \A b \in Calls : b # c => call'[b] = call[b]
          BY <1>2 DEF Alone
    <3>7. QED BY <2>1, <3>1, <3>2, <3>3, <3>4, <3>5, <3>6
  <2>2. CASE a # c
    <3>1. call'[a] = call[a] /\ call[a].d \in Donations
          BY <1>2, <2>2 DEF Alone, TypeOK, Call
    <3>2. /\ issued[call[a].d] = {} /\ row[call[a].d].status = call[a].saved.status
          /\ \A b \in Calls : b # a /\ Active(call[b]) /\ call[b].d = call[a].d =>
                call[b].kind = "cron"
          BY <1>3, <3>1 DEF Opening
    <3>3. CASE k.d = call[a].d
      <4>1. k.kind = "cron"
            BY <1>1, <2>2, <3>2, <3>3 DEF k
      <4>2. k.pc \notin {"write", "invoice", "save"}
            BY <1>1, <4>1 DEF PathOK, Pledging
      <4>3. issued'[k.d] = issued[k.d] /\ row'[k.d].status = row[k.d].status
            BY <1>2, <4>2 DEF Writes
      <4>4. Active(m) => m.kind = "cron"
            BY <1>2, <4>1, <4>2 DEF Continues
      <4>5. \A b \in Calls : b # c => call'[b] = call[b]
            BY <1>2 DEF Alone
      <4>6. ASSUME NEW b \in Calls, b # a, Active(call'[b]), call'[b].d = call'[a].d
            PROVE  call'[b].kind = "cron"
        <5>1. CASE b = c
              BY <4>4, <4>6, <5>1 DEF m
        <5>2. CASE b # c
              BY <3>1, <3>2, <4>5, <4>6, <5>2
        <5>3. QED BY <5>1, <5>2
      <4>7. QED BY <3>1, <3>2, <3>3, <4>3, <4>6
    <3>4. CASE k.d # call[a].d
      <4>1. issued'[call[a].d] = issued[call[a].d] /\ row'[call[a].d] = row[call[a].d]
            BY <1>2, <3>1, <3>4
      <4>2. ASSUME NEW b \in Calls, b # a, Active(call'[b]), call'[b].d = call'[a].d
            PROVE  call'[b].kind = "cron"
        <5>1. CASE b = c
              BY <1>2, <3>1, <3>4, <4>2, <5>1 DEF m, Continues
        <5>2. CASE b # c
              BY <1>2, <3>1, <3>2, <4>2, <5>2 DEF Alone
        <5>3. QED BY <5>1, <5>2
      <4>3. QED BY <3>1, <3>2, <4>1, <4>2
    <3>5. QED BY <3>3, <3>4
  <2>3. QED BY <2>1, <2>2
<1>4. QED BY <1>3 DEF Opening

\* An arrival: a checkout inserts a row nobody knows, and only a payment already on
\* its way, or the cron, brings a call to a row there is.
LEMMA ArriveOpening ==
    ASSUME TypeOK, TypeOK', Placed, NoEdits, Opening, NEW c \in Calls, Arrive(c)
    PROVE  Opening'
<1> DEFINE m == call'[c]
<1>1. /\ Alone(c) /\ issued' = issued
      /\ \/ Inserts(m)
         \/ Patches(m)
         \/ row' = row /\ (Active(m) => Begins(m))
      BY ArriveIs DEF net
<1>2. m.d \in Donations /\ \A b \in Calls : call[b].d \in Donations
      BY DEF TypeOK, Call
<1>3. ~Patches(m)
      BY DEF Patches, NoEdits
<1>4. \A b \in Calls : b # c => call'[b] = call[b]
      BY <1>1 DEF Alone
<1>5. \A b \in Calls : Active(call[b]) => row[call[b].d].status # "none"
      BY DEF Placed
<1> HIDE DEF m
<1>6. CASE Inserts(m)
  <2>1. /\ m.kind = "create" /\ row[m.d].status = "none" /\ row' = [row EXCEPT ![m.d] = m.saved]
        BY <1>6 DEF Inserts
  <2>2. row'[m.d] = m.saved /\ \A e \in Donations : e # m.d => row'[e] = row[e]
        BY <1>2, <2>1 DEF TypeOK
  <2>3. issued[m.d] = {}
        BY <1>2, <2>1 DEF Placed
  <2>4. \A b \in Calls : Active(call[b]) => call[b].d # m.d
        BY <1>5, <2>1
  <2>5. ASSUME NEW a \in Calls, Opens(call'[a])
        PROVE  /\ issued'[call'[a].d] = {}
               /\ row'[call'[a].d].status = call'[a].saved.status
               /\ \A b \in Calls : b # a /\ Active(call'[b]) /\ call'[b].d = call'[a].d =>
                     call'[b].kind = "cron"
    <3>1. CASE a = c
      <4>1. \A b \in Calls : b # a /\ Active(call'[b]) => call'[b].d # m.d
            BY <1>4, <2>4, <3>1
      <4>2. QED BY <1>1, <2>2, <2>3, <3>1, <4>1 DEF m
    <3>2. CASE a # c
      <4>1. call'[a] = call[a] /\ Opens(call[a]) /\ call[a].d # m.d
            BY <1>4, <2>4, <2>5, <3>2 DEF Opens
      <4>2. /\ issued[call[a].d] = {} /\ row[call[a].d].status = call[a].saved.status
            /\ \A b \in Calls : b # a /\ Active(call[b]) /\ call[b].d = call[a].d =>
                  call[b].kind = "cron"
            BY <4>1 DEF Opening
      <4>3. ASSUME NEW b \in Calls, b # a, Active(call'[b]), call'[b].d = call[a].d
            PROVE  call'[b].kind = "cron"
        <5>1. b # c
              BY <4>1, <4>3 DEF m
        <5>2. QED BY <1>4, <4>2, <4>3, <5>1
      <4>4. row'[call[a].d] = row[call[a].d]
            BY <1>2, <2>2, <4>1
      <4>5. QED BY <1>1, <4>1, <4>2, <4>3, <4>4
    <3>3. QED BY <3>1, <3>2
  <2>6. QED BY <2>5 DEF Opening
<1>7. CASE row' = row /\ (Active(m) => Begins(m))
  <2>1. ASSUME Active(m), m.kind # "cron"
        PROVE  issued[m.d] # {} /\ m.kind # "create"
    <3>1. Begins(m) /\ m.kind \in Kinds
          BY <1>7, <2>1 DEF Begins
    <3>2. m.kind \in {"callback", "return", "poll"}
          BY <2>1, <3>1 DEF Begins, NoEdits
    <3>3. CASE m.kind = "callback"
          BY <3>1, <3>3 DEF Begins, Placed
    <3>4. CASE m.kind \in {"return", "poll"}
          BY <3>1, <3>4 DEF Begins
    <3>5. QED BY <3>2, <3>3, <3>4
  <2>2. ASSUME NEW a \in Calls, Opens(call'[a])
        PROVE  /\ issued'[call'[a].d] = {}
               /\ row'[call'[a].d].status = call'[a].saved.status
               /\ \A b \in Calls : b # a /\ Active(call'[b]) /\ call'[b].d = call'[a].d =>
                     call'[b].kind = "cron"
    <3>1. a # c
          BY <2>1, <2>2 DEF Opens, m
    <3>2. call'[a] = call[a] /\ Opens(call[a])
          BY <1>4, <2>2, <3>1
    <3>3. /\ issued[call[a].d] = {} /\ row[call[a].d].status = call[a].saved.status
          /\ \A b \in Calls : b # a /\ Active(call[b]) /\ call[b].d = call[a].d =>
                call[b].kind = "cron"
          BY <3>2 DEF Opening
    <3>4. ASSUME NEW b \in Calls, b # a, Active(call'[b]), call'[b].d = call[a].d
          PROVE  call'[b].kind = "cron"
      <4>1. CASE b = c
            BY <2>1, <3>3, <3>4, <4>1 DEF m
      <4>2. CASE b # c
            BY <1>4, <3>3, <3>4, <4>2
      <4>3. QED BY <4>1, <4>2
    <3>5. QED BY <1>1, <1>7, <3>2, <3>3, <3>4
  <2>3. QED BY <2>2 DEF Opening
<1>8. QED BY <1>1, <1>3, <1>6, <1>7

\* Until its invoice is open, a first checkout's row keeps the status it was inserted
\* with, and no other call but the cron's is on the donation.
THEOREM CheckoutsAreAlone == ASSUME NoEdits PROVE Spec => []Opening
<1>1. Init => Opening
      BY DEF Init, Idle, Opening, Opens, Active
<1>2. TypeOK /\ TypeOK' /\ Placed /\ Opening /\ [Next]_vars => Opening'
  <2> SUFFICES ASSUME TypeOK, TypeOK', Placed, Opening, [Next]_vars PROVE Opening'
      OBVIOUS
  <2>1. ASSUME UNCHANGED <<row, issued, call>>
        PROVE  Opening'
        BY <2>1 DEF Opening
  <2>2. CASE UNCHANGED vars
        BY <2>1, <2>2 DEF vars, db, net
  <2>3. CASE Customer
        BY <2>1, <2>3 DEF Customer, Attempt, db
  <2>4. ASSUME NEW c \in Calls, Crash(c)
        PROVE  Opening'
        BY <2>1, <2>4 DEF Crash, db, net
  <2>5. QED BY <2>2, <2>3, <2>4, ArriveOpening, StepFramed, FramedOpening DEF Next
<1>3. QED BY <1>1, <1>2, TypeCorrect, CallsArePlaced, PTL DEF Spec

-----------------------------------------------------------------------------
(* A payment through Stripe is final.                                      *)

StripeOnly == NoEdits /\ Gateways \subseteq {"stripe", "manual"}

\* Under Stripe a write can only complete, and the one stale entity there is was
\* saved before anyone could pay.
LEMMA FinalStep ==
    ASSUME TypeOK, Placed, Opening, StripeOnly, NEW c \in Calls, Step(c),
           NEW d \in Donations, row[d].status = "completed"
    PROVE  row'[d].status = "completed"
<1> DEFINE k == call[c]
           m == call'[c]
<1>1. Framed(c) /\ NoEdits
      BY StepFramed DEF StripeOnly
<1>2. /\ Active(k) /\ PlaceOK(k, issued[k.d]) /\ k.d \in Donations
      /\ k.kind \in {"create", "cron"} \union Reporting
      BY <1>1, KindsLeft DEF Framed, Placed, TypeOK, Call
<1>3. CASE d # k.d
      BY <1>1, <1>3 DEF Framed
<1>4. CASE d = k.d /\ k.pc = "write" /\ row'[d].status = k.to
  <2>1. k.kind \in Reporting /\ k.gw = "stripe"
        BY <1>2, <1>4 DEF PlaceOK, PathOK, ReportOK, Promoting, Pledging, Placed, StripeOnly
  <2>2. k.kind = "callback"
        BY <1>2, <2>1 DEF PlaceOK, ReportOK, Reporting, Pollable
  <2>3. k.to \in Outcomes["stripe"]
        BY <1>2, <1>4, <2>1, <2>2 DEF PlaceOK, ReportOK
  <2>4. QED BY <1>4, <2>3 DEF Outcomes
<1>5. CASE d = k.d /\ k.pc \in {"invoice", "save"}
  <2>1. k.kind = "create" /\ k.gw \in {"stripe", "manual"}
        BY <1>2, <1>5 DEF PlaceOK, PathOK, EntityOK, Promoting, Pledging, Thanking, Answering,
                          Reporting, StripeOnly
  <2>2. row[d].status = k.saved.status
        BY <1>2, <1>5, <2>1 DEF Opening, Opens
  <2>3. row'[k.d].status = row[k.d].status \/ Writes(k, m, row'[k.d].status)
        BY <1>1 DEF Framed
  <2>4. QED BY <1>5, <2>1, <2>2, <2>3 DEF Writes
<1>6. CASE d = k.d /\ k.pc \notin {"write", "invoice", "save"}
      BY <1>1, <1>6 DEF Framed, Writes
<1>7. QED BY <1>1, <1>3, <1>4, <1>5, <1>6 DEF Framed, Writes

\* Where only Stripe takes payments and no one sets a status by hand, a completed
\* donation stays completed, however the webhook's deliveries repeat and overlap.
THEOREM StripeIsFinal == ASSUME StripeOnly PROVE Spec => FinalKept
<1> DEFINE Final == \A d \in Donations :
                       row[d].status = "completed" => row'[d].status = "completed"
<1>1. TypeOK /\ TypeOK' /\ Placed /\ Opening /\ [Next]_vars => [Final]_row
  <2> SUFFICES ASSUME TypeOK, TypeOK', Placed, Opening, [Next]_vars PROVE Final \/ row' = row
      OBVIOUS
  <2>1. CASE UNCHANGED vars
        BY <2>1 DEF vars, db
  <2>2. CASE Customer
        BY <2>2 DEF Customer, Attempt, db
  <2>3. ASSUME NEW c \in Calls, Crash(c)
        PROVE  row' = row
        BY <2>3 DEF Crash, db
  <2>4. ASSUME NEW c \in Calls, Step(c)
        PROVE  Final
        BY <2>4, FinalStep
  <2>5. ASSUME NEW c \in Calls, Arrive(c)
        PROVE  Final \/ row' = row
    <3>1. \/ Inserts(call'[c])
          \/ Patches(call'[c])
          \/ row' = row
          BY <2>5, ArriveIs
    <3>2. ~Patches(call'[c])
          BY DEF Patches, StripeOnly, NoEdits
    <3>3. CASE Inserts(call'[c])
      <4>1. call'[c].d \in Donations /\ row[call'[c].d].status = "none"
            /\ row' = [row EXCEPT ![call'[c].d] = call'[c].saved]
            BY <3>3 DEF Inserts, TypeOK, Call
      <4>2. QED BY <4>1 DEF TypeOK
    <3>4. QED BY <3>1, <3>2, <3>3
  <2>6. QED BY <2>1, <2>2, <2>3, <2>4, <2>5 DEF Next
<1>2. NoEdits
      BY DEF StripeOnly
<1>3. Spec => []Opening
      BY <1>2, CheckoutsAreAlone
<1> HIDE DEF Final
<1>4. Spec => [][Final]_row
      BY <1>1, <1>3, TypeCorrect, CallsArePlaced, PTL DEF Spec
<1>5. QED BY <1>4 DEF FinalKept, Final

-----------------------------------------------------------------------------
(* The flags and the messages they stand for.                              *)

\* The call holds the claim on a flag.
Held(k, d, ch) == k.pc \in {"send", "release"} /\ k.d = d /\ NextChannel(k.todo) = ch

\* The copies of a flag that a step writes back to the row.
WritesFlag(k, ch) ==
    \/ /\ k.pc = "write" /\ k.kind \in {"callback", "return"} /\ k.gw \in FlagWriters
       /\ k.seen.sent[ch]
    \/ k.pc = "save" /\ k.saved.sent[ch]

\* What a step does to flags, claims and messages: a claim ends in an accepted message or
\* in the release of the flag, and a flag is set by a claim or from a copy.
Flagged(c) ==
    LET k == call[c]
        m == call'[c]
    IN  /\ \A d \in Donations, ch \in Channels :
              /\ thanked'[d][ch] >= thanked[d][ch] /\ abandoned'[d][ch] >= abandoned[d][ch]
              /\ Held(k, d, ch) => \/ Held(m, d, ch) \/ thanked'[d][ch] > 0
                                   \/ "send" \in Faults /\ ~row'[d].sent[ch]
              /\ row'[d].sent[ch] => \/ row[d].sent[ch] \/ Held(m, d, ch)
                                     \/ d = k.d /\ WritesFlag(k, ch)
        /\ m.pc = "release" => "send" \in Faults
        /\ Active(m) => \A ch \in Channels :
              /\ m.seen.sent[ch] => \/ k.seen.sent[ch] \/ row[k.d].sent[ch]
                                    \/ abandoned'[k.d][ch] > 0 \/ "send" \in Faults
              /\ m.saved.sent[ch] => k.saved.sent[ch] \/ row[k.d].sent[ch]

\* A step that touches no message and sets no flag.
LEMMA PlainFlagged ==
    ASSUME TypeOK, NEW c \in Calls, thanked' = thanked, abandoned' = abandoned,
           call[c].pc \notin {"send", "release"}, call'[c].pc # "release",
           \A d \in Donations, ch \in Channels :
              row'[d].sent[ch] => row[d].sent[ch] \/ (d = call[c].d /\ WritesFlag(call[c], ch)),
           Active(call'[c]) =>
              /\ call'[c].seen = call[c].seen \/ call'[c].seen = row[call[c].d]
              /\ call'[c].saved = call[c].saved \/ call'[c].saved = row[call[c].d]
    PROVE  Flagged(c)
<1> DEFINE k == call[c]
           m == call'[c]
<1>1. \A d \in Donations, ch \in Channels :
         thanked[d][ch] \in Nat /\ abandoned[d][ch] \in Nat
      BY DEF TypeOK
<1>2. \A d \in Donations, ch \in Channels :
         /\ thanked'[d][ch] >= thanked[d][ch] /\ abandoned'[d][ch] >= abandoned[d][ch]
         /\ ~Held(k, d, ch)
      BY <1>1 DEF Held
<1>3. Active(m) => \A ch \in Channels :
         /\ m.seen.sent[ch] => k.seen.sent[ch] \/ row[k.d].sent[ch]
         /\ m.saved.sent[ch] => k.saved.sent[ch] \/ row[k.d].sent[ch]
      OBVIOUS
<1> HIDE DEF k, m
<1>4. QED BY <1>2, <1>3 DEF Flagged, k, m

\* The steps that only move the call on.
LEMMA MoveFlagged ==
    ASSUME TypeOK, NEW c \in Calls, NEW ok \in BOOLEAN,
           \/ Recheck(c) \/ BatchCheck(c) \/ Allocate(c, ok) \/ RegisterInvoice(c, ok)
           \/ FindPledge(c) \/ CheckPledge(c) \/ InsertPledge(c) \/ PledgeFails(c)
           \/ SaveDonor(c) \/ Settle(c, ok) \/ PipelineCheck(c) \/ Promote(c)
           \/ TokenOrManual(c, ok)
    PROVE  Flagged(c)
<1>1. call[c].pc \notin {"send", "release"}
      BY DEF Recheck, BatchCheck, Allocate, RegisterInvoice, FindPledge, CheckPledge,
             InsertPledge, PledgeFails, SaveDonor, Settle, PipelineCheck, Promote, At,
             TokenOrManual
<1>2. row' = row /\ thanked' = thanked /\ abandoned' = abandoned
      BY DEF Recheck, BatchCheck, Allocate, RegisterInvoice, FindPledge, CheckPledge,
             InsertPledge, PledgeFails, SaveDonor, Settle, PipelineCheck, Promote, db, hist,
             TokenOrManual
<1>3. \E pc : Quietly(pc) /\ Goto(c, pc)
  <2>1. CASE Recheck(c) \/ BatchCheck(c) \/ RegisterInvoice(c, ok) \/ TokenOrManual(c, ok)
        BY <2>1, QuietSteps DEF Recheck, BatchCheck, RegisterInvoice, TokenOrManual, Quietly
  <2>2. CASE Allocate(c, ok) \/ FindPledge(c) \/ CheckPledge(c) \/ InsertPledge(c)
        BY <2>2, QuietSteps DEF Allocate, FindPledge, CheckPledge, InsertPledge, Quietly
  <2>3. CASE PledgeFails(c) \/ SaveDonor(c) \/ Settle(c, ok) \/ PipelineCheck(c) \/ Promote(c)
        BY <2>3, QuietSteps DEF PledgeFails, SaveDonor, Settle, PipelineCheck, Promote, Quietly
  <2>4. QED BY <2>1, <2>2, <2>3
<1>4. PICK pc : Quietly(pc) /\ Goto(c, pc)
      BY <1>3
<1>5. call'[c].pc # "release" /\ (Active(call'[c]) => Alike(call[c], call'[c]))
      BY <1>4, GotoIs DEF Goes, Quietly, Active
<1>6. QED BY <1>1, <1>2, <1>5, PlainFlagged DEF Alike

\* The steps that fill in what the call knows.
LEMMA LocalFlagged ==
    ASSUME TypeOK, NEW c \in Calls, NEW ok \in BOOLEAN, NEW to \in Status,
           \/ Query(c) \/ Abandon(c, ok) \/ Reread(c) \/ Activate(c) \/ ThanksRead(c)
           \/ Charge(c, to, ok)
    PROVE  Flagged(c)
<1> DEFINE k == call[c]
           m == call'[c]
<1>1. row' = row /\ thanked' = thanked
  <2>1. CASE Query(c)
        BY <2>1, Zenon DEF Query, db, hist
  <2>2. CASE Abandon(c, ok) \/ Reread(c) \/ Activate(c) \/ ThanksRead(c) \/ Charge(c, to, ok)
        BY <2>2 DEF Abandon, Reread, Activate, ThanksRead, Charge, db, hist
  <2>3. QED BY <2>1, <2>2
<1>2. ASSUME abandoned' = abandoned, k.pc \notin {"send", "release"}, m.pc # "release",
             Active(m) => /\ m.seen = k.seen \/ m.seen = row[k.d]
                          /\ m.saved = k.saved \/ m.saved = row[k.d]
      PROVE  Flagged(c)
      BY <1>1, <1>2, PlainFlagged
<1>3. CASE Query(c)
  <2>1. abandoned' = abandoned
        BY <1>3, Zenon DEF Query, hist
  <2>2. QED BY <1>2, <1>3, <2>1, QueryIs DEF Active
<1>4. CASE Abandon(c, ok)
  <2> DEFINE ch == NextChannel(k.todo)
  <2>1. /\ k.pc = "abandon" /\ m.pc \in {"abandon", "write"} /\ m.saved = k.saved
        /\ ch \in Channels
        /\ \A x \in Channels : m.seen.sent[x] = (x = ch \/ k.seen.sent[x])
        /\ ok => abandoned'[k.d][ch] = abandoned[k.d][ch] + 1
        /\ \A e \in Donations, x \in Channels : abandoned'[e][x] >= abandoned[e][x]
        BY <1>4, AbandonIs
  <2>2. k.d \in Donations /\ abandoned[k.d][ch] \in Nat
        BY <2>1 DEF TypeOK, Call
  <2>3. \A d \in Donations, x \in Channels : thanked'[d][x] >= thanked[d][x] /\ ~Held(k, d, x)
        BY <1>1, <2>1 DEF TypeOK, Held
  <2>4. abandoned'[k.d][ch] > 0 \/ "send" \in Faults
    <3>1. CASE ok
          BY <2>1, <2>2, <3>1
    <3>2. CASE ~ok
          BY <1>4, <3>2 DEF Abandon
    <3>3. QED BY <3>1, <3>2
  <2> HIDE DEF k, m, ch
  <2>5. \A x \in Channels : m.seen.sent[x] =>
           k.seen.sent[x] \/ abandoned'[k.d][x] > 0 \/ "send" \in Faults
        BY <2>1, <2>4
  <2>6. QED BY <1>1, <2>1, <2>3, <2>5 DEF Flagged, k, m
<1>5. CASE Reread(c)
  <2>1. abandoned' = abandoned
        BY <1>5 DEF Reread, hist
  <2>2. QED BY <1>2, <1>5, <2>1, RereadIs
<1>6. CASE Activate(c)
  <2>1. abandoned' = abandoned
        BY <1>6 DEF Activate, hist
  <2>2. /\ k.pc = "activate"
        /\ m.pc \in {"findPledge", AfterActivate(k)}
        /\ m.pc # "done" => m.seen = row[k.d] /\ m.saved = k.saved
        BY <1>6, ActivateIs
  <2>3. m.pc # "release"
        BY <2>2, QuietSteps DEF Quietly
  <2>4. QED BY <1>2, <2>1, <2>2, <2>3 DEF Active
<1>7. CASE ThanksRead(c)
  <2>1. abandoned' = abandoned
        BY <1>7 DEF ThanksRead, hist
  <2>2. QED BY <1>2, <1>7, <2>1, ThanksReadIs
<1>8. CASE Charge(c, to, ok)
  <2>1. abandoned' = abandoned
        BY <1>8 DEF Charge, hist
  <2>2. QED BY <1>2, <1>8, <2>1, ChargeIs DEF Active
<1>9. QED BY <1>3, <1>4, <1>5, <1>6, <1>7, <1>8

\* The claim, the message and the release.
LEMMA ThanksFlagged ==
    ASSUME TypeOK, NEW c \in Calls, NEW ok \in BOOLEAN,
           Claim(c) \/ Send(c, ok) \/ Release(c),
           call[c].pc = "release" => "send" \in Faults
    PROVE  Flagged(c)
<1> DEFINE k  == call[c]
           m  == call'[c]
           ch == NextChannel(k.todo)
<1>1. /\ k.d \in Donations /\ ch \in Channels
      /\ \A d \in Donations, x \in Channels : thanked[d][x] \in Nat /\ abandoned[d][x] \in Nat
      BY NextChannelType DEF TypeOK, Call
<1>2. abandoned' = abandoned
      BY DEF Claim, Send, Release, hist
<1>3. \A d \in Donations, x \in Channels : abandoned'[d][x] >= abandoned[d][x]
      BY <1>1, <1>2
<1>4. NextThanks(c, ch) => m.pc # "release" /\ m.seen = k.seen /\ m.saved = k.saved
      BY NextThanksIs
<1>5. CASE Claim(c)
  <2>1. /\ k.pc = "claim"
        /\ \/ /\ Goes(k, m, "send")
              /\ \A e \in Donations, x \in Channels :
                    row'[e].sent[x] = ((e = k.d /\ x = ch) \/ row[e].sent[x])
           \/ row' = row /\ NextThanks(c, ch)
        BY <1>5, ClaimIs
  <2>2. thanked' = thanked
        BY <1>5 DEF Claim, hist
  <2>3. \A d \in Donations, x \in Channels : thanked'[d][x] >= thanked[d][x] /\ ~Held(k, d, x)
        BY <1>1, <2>1, <2>2 DEF Held
  <2>4. m.pc # "release" /\ m.seen = k.seen /\ m.saved = k.saved
        BY <1>4, <2>1 DEF Goes, Alike
  <2>5. CASE Goes(k, m, "send") /\ \A e \in Donations, x \in Channels :
                    row'[e].sent[x] = ((e = k.d /\ x = ch) \/ row[e].sent[x])
    <3>1. m.pc = "send" /\ m.d = k.d /\ m.todo = k.todo
          BY <2>5 DEF Goes, Alike
    <3>2. Held(m, k.d, ch)
          BY <3>1 DEF Held
    <3> HIDE DEF ch, k, m
    <3>3. \A d \in Donations, x \in Channels :
             row'[d].sent[x] => row[d].sent[x] \/ Held(m, d, x)
          BY <2>5, <3>2
    <3>4. QED BY <1>3, <2>3, <2>4, <3>3 DEF Flagged, k, m
  <2>6. CASE row' = row
    <3> HIDE DEF ch, k, m
    <3>1. QED BY <1>3, <2>3, <2>4, <2>6 DEF Flagged, k, m
  <2>7. QED BY <2>1, <2>5, <2>6
<1>6. CASE Send(c, ok)
  <2>1. /\ k.pc = "send"
        /\ \/ ok /\ NextThanks(c, ch) /\ thanked'[k.d][ch] = thanked[k.d][ch] + 1
           \/ "send" \in Faults /\ Goto(c, "release")
        /\ \A e \in Donations, x \in Channels : thanked'[e][x] >= thanked[e][x]
        BY <1>6, SendIs
  <2>2. row' = row
        BY <1>6 DEF Send, db
  <2>3. CASE NextThanks(c, ch) /\ thanked'[k.d][ch] = thanked[k.d][ch] + 1
    <3>1. thanked'[k.d][ch] > 0
          BY <1>1, <2>3
    <3>2. \A d \in Donations, x \in Channels : Held(k, d, x) => thanked'[d][x] > 0
          BY <3>1 DEF Held
    <3>3. m.pc # "release" /\ m.seen = k.seen /\ m.saved = k.saved
          BY <1>4, <2>3
    <3> HIDE DEF ch, k, m
    <3>4. QED BY <1>3, <2>1, <2>2, <3>2, <3>3 DEF Flagged, k, m
  <2>4. CASE "send" \in Faults /\ Goto(c, "release")
    <3>1. m.pc = "release" /\ Alike(k, m)
          BY <2>4, GotoIs DEF Goes
    <3>2. \A d \in Donations, x \in Channels : Held(k, d, x) => Held(m, d, x)
          BY <3>1 DEF Held, Alike
    <3> HIDE DEF ch, k, m
    <3>3. QED BY <1>3, <2>1, <2>2, <2>4, <3>1, <3>2 DEF Flagged, Alike, k, m
  <2>5. QED BY <2>1, <2>3, <2>4
<1>7. CASE Release(c)
  <2>1. /\ k.pc = "release" /\ NextThanks(c, ch)
        /\ \A e \in Donations, x \in Channels :
              row'[e].sent[x] = IF e = k.d /\ x = ch THEN FALSE ELSE row[e].sent[x]
        BY <1>7, ReleaseIs
  <2>2. thanked' = thanked
        BY <1>7 DEF Release, hist
  <2>3. \A d \in Donations, x \in Channels : thanked'[d][x] >= thanked[d][x]
        BY <1>1, <2>2
  <2>4. m.pc # "release" /\ m.seen = k.seen /\ m.saved = k.saved
        BY <1>4, <2>1
  <2>5. \A d \in Donations, x \in Channels : Held(k, d, x) => ~row'[d].sent[x]
        BY <2>1 DEF Held
  <2>6. \A d \in Donations, x \in Channels : row'[d].sent[x] => row[d].sent[x]
        BY <2>1
  <2>7. "send" \in Faults
        BY <2>1
  <2> HIDE DEF ch, k, m
  <2>8. QED BY <1>3, <2>3, <2>4, <2>5, <2>6, <2>7 DEF Flagged, k, m
<1>8. QED BY <1>5, <1>6, <1>7

\* The steps that write a row.
LEMMA WriteFlagged ==
    ASSUME TypeOK, NEW c \in Calls, NEW ok \in BOOLEAN,
           Write(c) \/ MarkIntent(c) \/ AlfalahHandshake(c, ok) \/ SaveEntity(c)
    PROVE  Flagged(c)
<1> DEFINE k == call[c]
           m == call'[c]
<1>1. thanked' = thanked /\ abandoned' = abandoned
      BY DEF Write, MarkIntent, AlfalahHandshake, SaveEntity, hist
<1>2. ASSUME k.pc \notin {"send", "release"}, NEW pc, Goes(k, m, pc), Quietly(pc),
             \A d \in Donations, ch \in Channels :
                row'[d].sent[ch] => row[d].sent[ch] \/ (d = k.d /\ WritesFlag(k, ch))
      PROVE  Flagged(c)
  <2>1. m.pc # "release" /\ (Active(m) => m.seen = k.seen /\ m.saved = k.saved)
        BY <1>2 DEF Goes, Alike, Quietly, Active
  <2>2. QED BY <1>1, <1>2, <2>1, PlainFlagged
<1>3. CASE Write(c)
  <2>1. /\ k.pc = "write" /\ Goes(k, m, AfterWrite(k))
        /\ \A e \in Donations : e # k.d => row'[e] = row[e]
        /\ \/ row'[k.d].sent = row[k.d].sent
           \/ /\ k.kind \in {"callback", "return"} /\ k.gw \in FlagWriters
              /\ row'[k.d].sent = k.seen.sent
        BY <1>3, WriteIs
  <2>2. ASSUME NEW d \in Donations, NEW ch \in Channels, row'[d].sent[ch]
        PROVE  row[d].sent[ch] \/ (d = k.d /\ WritesFlag(k, ch))
    <3>1. CASE d # k.d
          BY <2>1, <2>2, <3>1
    <3>2. CASE d = k.d /\ row'[k.d].sent = row[k.d].sent
          BY <2>2, <3>2
    <3>3. CASE d = k.d /\ row'[k.d].sent = k.seen.sent /\ k.kind \in {"callback", "return"} /\ k.gw \in FlagWriters
          BY <2>1, <2>2, <3>3 DEF WritesFlag
    <3>4. QED BY <2>1, <3>1, <3>2, <3>3
  <2>3. QED BY <1>2, <2>1, <2>2, QuietSteps
<1>4. CASE MarkIntent(c)
  <2>1. /\ k.pc = "markIntent" /\ Goes(k, m, "saveDonor")
        /\ \A e \in Donations : row'[e].sent = row[e].sent
        BY <1>4, FieldIs
  <2>2. QED BY <1>2, <2>1 DEF Quietly
<1>5. CASE AlfalahHandshake(c, ok)
  <2>1. /\ k.pc = "invoice" /\ m.pc = "done" /\ \A e \in Donations : row'[e].sent = row[e].sent
        BY <1>5, FieldIs
  <2>2. QED BY <1>2, <2>1 DEF Quietly, Goes
<1>6. CASE SaveEntity(c)
  <2>1. /\ k.pc = "save" /\ m.pc = "done" /\ row'[k.d] = k.saved
        /\ \A e \in Donations : e # k.d => row'[e] = row[e]
        BY <1>6, FieldIs
  <2>2. \A d \in Donations, ch \in Channels :
           row'[d].sent[ch] => row[d].sent[ch] \/ (d = k.d /\ WritesFlag(k, ch))
        BY <2>1 DEF WritesFlag
  <2>3. QED BY <1>2, <2>1, <2>2 DEF Quietly, Goes
<1>7. QED BY <1>3, <1>4, <1>5, <1>6

\* Every step.
LEMMA StepFlagged ==
    ASSUME TypeOK, NEW c \in Calls, Step(c), call[c].pc = "release" => "send" \in Faults
    PROVE  Flagged(c)
<1>1. "pending" \in Status /\ TRUE \in BOOLEAN
      BY DEF Status
<1>2. CASE \/ Query(c) \/ (\E ok \in BOOLEAN : Abandon(c, ok)) \/ Reread(c)
           \/ Activate(c) \/ ThanksRead(c)
           \/ \E to \in Status, ok \in BOOLEAN : Charge(c, to, ok)
      BY <1>1, <1>2, LocalFlagged
<1>3. CASE Claim(c) \/ (\E ok \in BOOLEAN : Send(c, ok)) \/ Release(c)
      BY <1>1, <1>3, ThanksFlagged
<1>4. CASE \/ Write(c) \/ MarkIntent(c) \/ SaveEntity(c)
           \/ \E ok \in BOOLEAN : AlfalahHandshake(c, ok)
      BY <1>1, <1>4, WriteFlagged
<1>5. CASE \/ Recheck(c) \/ BatchCheck(c) \/ FindPledge(c) \/ CheckPledge(c) \/ InsertPledge(c)
           \/ PledgeFails(c) \/ SaveDonor(c) \/ PipelineCheck(c) \/ Promote(c)
           \/ \E ok \in BOOLEAN : \/ Allocate(c, ok) \/ RegisterInvoice(c, ok) \/ Settle(c, ok)
                                  \/ TokenOrManual(c, ok)
      BY <1>1, <1>5, MoveFlagged
<1>6. QED BY <1>2, <1>3, <1>4, <1>5 DEF Step

-----------------------------------------------------------------------------
(* A set flag stands for a message.                                        *)

\* Either no message fails, so that no flag is released, or no handler writes back a
\* flag it copied earlier: with both, a released flag may be set again from a copy.
FlagsKept ==
    \/ "send" \notin Faults
    \/ /\ Gateways \intersect FlagWriters = {}
       /\ "retry" \in Kinds => Gateways \intersect EntitySavers = {}

\* A message was accepted for the flag, or the flag is claimed.
Vouched(d, ch) ==
    \/ thanked[d][ch] + abandoned[d][ch] > 0
    \/ \E c \in Calls : Held(call[c], d, ch)

\* The flags a call has copied are as good as the row's.
Copies ==
    \A c \in Calls : Active(call[c]) =>
        /\ call[c].pc # "release"
        /\ \A d \in Donations, ch \in Channels :
              d = call[c].d /\ (call[c].seen.sent[ch] \/ call[c].saved.sent[ch]) => Vouched(d, ch)

Flags ==
    /\ \A d \in Donations, ch \in Channels : row[d].sent[ch] => Vouched(d, ch)
    /\ "send" \notin Faults => Copies

\* What vouches for a flag lasts, unless the flag goes with it.
LEMMA VouchedStep ==
    ASSUME TypeOK, TypeOK', NEW c \in Calls, Alone(c), Flagged(c),
           NEW d \in Donations, NEW ch \in Channels, Vouched(d, ch)
    PROVE  Vouched(d, ch)' \/ ("send" \in Faults /\ ~row'[d].sent[ch])
<1>1. /\ thanked[d][ch] \in Nat /\ abandoned[d][ch] \in Nat
      /\ thanked'[d][ch] \in Nat /\ abandoned'[d][ch] \in Nat
      BY DEF TypeOK
<1>2. /\ thanked'[d][ch] >= thanked[d][ch] /\ abandoned'[d][ch] >= abandoned[d][ch]
      /\ Held(call[c], d, ch) => \/ Held(call'[c], d, ch) \/ thanked'[d][ch] > 0
                                 \/ "send" \in Faults /\ ~row'[d].sent[ch]
      BY DEF Flagged
<1>3. CASE thanked[d][ch] + abandoned[d][ch] > 0
      BY <1>1, <1>2, <1>3 DEF Vouched
<1>4. ASSUME NEW b \in Calls, Held(call[b], d, ch)
      PROVE  Vouched(d, ch)' \/ ("send" \in Faults /\ ~row'[d].sent[ch])
  <2>1. CASE b # c
    <3>1. Held(call'[b], d, ch)
          BY <1>4, <2>1 DEF Alone
    <3>2. QED BY <3>1 DEF Vouched
  <2>2. CASE b = c /\ Held(call'[c], d, ch)
        BY <2>2 DEF Vouched
  <2>3. CASE b = c /\ thanked'[d][ch] > 0
        BY <1>1, <2>3 DEF Vouched
  <2>4. QED BY <1>2, <1>4, <2>1, <2>2, <2>3
<1>5. QED BY <1>3, <1>4 DEF Vouched

\* The copies a handler may write back are vouched for, or not in use.
LEMMA WrittenVouched ==
    ASSUME TypeOK, Placed, FlagsKept, Flags, NEW c \in Calls, Active(call[c]),
           NEW ch \in Channels, WritesFlag(call[c], ch)
    PROVE  "send" \notin Faults /\ Vouched(call[c].d, ch)
<1> DEFINE k == call[c]
<1>1. PlaceOK(k, issued[k.d]) /\ issued[k.d] \subseteq Gateways
      BY DEF Placed, TypeOK, Call
<1>2. k.kind \in AllKinds \union {"charge"}
      BY DEF TypeOK, Call
<1>3. "send" \notin Faults => Vouched(k.d, ch)
      BY DEF Flags, Copies, WritesFlag, TypeOK, Call
<1>4. CASE k.pc = "write" /\ k.kind \in {"callback", "return"} /\ k.gw \in FlagWriters
  <2>1. k.gw \in Gateways
        BY <1>1, <1>4 DEF PlaceOK, ReportOK, Reporting
  <2>2. QED BY <1>3, <1>4, <2>1 DEF FlagsKept
<1>5. CASE k.pc = "save" /\ k.saved.sent[ch]
  <2>1. k.kind \in {"create", "retry"} /\ k.gw \in EntitySavers
        BY <1>1, <1>2, <1>5 DEF PlaceOK, PathOK, EntityOK, AllKinds, Promoting, Pledging, Thanking,
                                Answering, Reporting
  <2>2. k.kind = "retry"
        BY <1>1, <1>5, <2>1 DEF PlaceOK, EntityOK, Unsent
  <2>3. "retry" \in Kinds /\ k.gw \in Gateways
        BY <1>1, <2>2 DEF PlaceOK, EntityOK
  <2>4. QED BY <1>3, <2>1, <2>3 DEF FlagsKept
<1>6. QED BY <1>4, <1>5 DEF WritesFlag

\* A step of a call.
LEMMA StepFlags ==
    ASSUME TypeOK, TypeOK', Placed, FlagsKept, Flags, NEW c \in Calls, Step(c)
    PROVE  Flags'
<1> DEFINE k == call[c]
           m == call'[c]
<1>1. Framed(c)
      BY StepFramed
<1>2. Active(k) /\ Alone(c) /\ (Active(m) => m.d = k.d) /\ k.d \in Donations
      BY <1>1 DEF Framed, Continues, TypeOK, Call
<1>3. k.pc = "release" => "send" \in Faults
      BY <1>2 DEF Flags, Copies
<1>4. Flagged(c)
      BY <1>3, StepFlagged
<1>5. ASSUME NEW d \in Donations, NEW ch \in Channels, row'[d].sent[ch]
      PROVE  Vouched(d, ch)'
  <2>1. row[d].sent[ch] \/ Held(m, d, ch) \/ (d = k.d /\ WritesFlag(k, ch))
        BY <1>4, <1>5 DEF Flagged
  <2>2. Vouched(d, ch) => Vouched(d, ch)'
        BY <1>2, <1>4, <1>5, VouchedStep
  <2>3. CASE row[d].sent[ch]
        BY <2>2, <2>3 DEF Flags
  <2>4. CASE Held(m, d, ch)
        BY <2>4 DEF Vouched
  <2>5. CASE d = k.d /\ WritesFlag(k, ch)
        BY <1>2, <2>2, <2>5, WrittenVouched
  <2>6. QED BY <2>1, <2>3, <2>4, <2>5
<1>6. ASSUME "send" \notin Faults
      PROVE  Copies'
  <2>1. \A d \in Donations, ch \in Channels : Vouched(d, ch) => Vouched(d, ch)'
        BY <1>2, <1>4, <1>6, VouchedStep
  <2>2. ASSUME NEW b \in Calls, Active(call'[b]), NEW d \in Donations, NEW ch \in Channels
        PROVE  /\ call'[b].pc # "release"
               /\ d = call'[b].d /\ (call'[b].seen.sent[ch] \/ call'[b].saved.sent[ch]) =>
                     Vouched(d, ch)'
    <3>1. CASE b # c
      <4>1. call'[b] = call[b]
            BY <1>2, <3>1 DEF Alone
      <4>2. /\ call[b].pc # "release"
            /\ d = call[b].d /\ (call[b].seen.sent[ch] \/ call[b].saved.sent[ch]) => Vouched(d, ch)
            BY <1>6, <2>2, <4>1 DEF Flags, Copies
      <4>3. QED BY <2>1, <4>1, <4>2
    <3>2. CASE b = c
      <4>1. /\ m.pc # "release" /\ m.d = k.d
            /\ m.seen.sent[ch] => k.seen.sent[ch] \/ row[k.d].sent[ch] \/ abandoned'[k.d][ch] > 0
            /\ m.saved.sent[ch] => k.saved.sent[ch] \/ row[k.d].sent[ch]
            BY <1>2, <1>4, <1>6, <2>2, <3>2 DEF Flagged
      <4>2. k.seen.sent[ch] \/ k.saved.sent[ch] => Vouched(k.d, ch)
            BY <1>2, <1>6 DEF Flags, Copies
      <4>3. row[k.d].sent[ch] => Vouched(k.d, ch)
            BY <1>2 DEF Flags
      <4>4. d = k.d /\ abandoned'[k.d][ch] > 0 => Vouched(d, ch)'
        <5>1. thanked'[d][ch] \in Nat /\ abandoned'[d][ch] \in Nat
              BY DEF TypeOK
        <5>2. QED BY <5>1 DEF Vouched
      <4>5. QED BY <2>1, <3>2, <4>1, <4>2, <4>3, <4>4
    <3>3. QED BY <3>1, <3>2
  <2>3. "message" \in Channels /\ \A b \in Calls : call'[b].d \in Donations
        BY DEF Channels, TypeOK, Call
  <2>4. QED BY <2>2, <2>3 DEF Copies
<1>7. QED BY <1>5, <1>6 DEF Flags

\* A call that starts has copied the row, or nothing.
LEMMA ArriveFlags ==
    ASSUME TypeOK, TypeOK', Flags, NEW c \in Calls, Arrive(c)
    PROVE  Flags'
<1> DEFINE k == call[c]
           m == call'[c]
<1>1. /\ Alone(c) /\ k.pc = "idle" /\ thanked' = thanked /\ abandoned' = abandoned
      /\ \/ Inserts(m)
         \/ Patches(m)
         \/ row' = row /\ (Active(m) => Begins(m))
      BY ArriveIs
<1>2. m.d \in Donations
      BY DEF TypeOK, Call
<1> HIDE DEF m
<1>3. \A x \in Channels : ~NoRow.sent[x] /\ ~Unsent[x]
      BY DEF NoRow, Unsent
<1>4. ASSUME NEW d \in Donations, NEW ch \in Channels, Vouched(d, ch)
      PROVE  Vouched(d, ch)'
  <2>1. \A b \in Calls : Held(call[b], d, ch) => Held(call'[b], d, ch)
        BY <1>1 DEF Alone, Held
  <2>2. QED BY <1>1, <1>4, <2>1 DEF Vouched
<1>5. ASSUME NEW d \in Donations, NEW ch \in Channels
      PROVE  row'[d].sent[ch] => row[d].sent[ch]
  <2>1. CASE Inserts(m)
        BY <1>2, <1>3, <2>1 DEF Inserts, TypeOK
  <2>2. CASE Patches(m)
        BY <2>2 DEF Patches
  <2>3. CASE row' = row
        BY <2>3
  <2>4. QED BY <1>1, <2>1, <2>2, <2>3
<1>6. ASSUME Active(m), NEW ch \in Channels
      PROVE  /\ m.pc # "release"
             /\ m.seen.sent[ch] \/ m.saved.sent[ch] => row[m.d].sent[ch]
  <2>1. CASE Inserts(m)
        BY <1>3, <2>1 DEF Inserts, AfterPipeline
  <2>2. CASE Patches(m)
        BY <1>3, <2>2 DEF Patches
  <2>3. CASE Begins(m)
        BY <1>3, <2>3 DEF Begins
  <2>4. QED BY <1>1, <1>6, <2>1, <2>2, <2>3
<1>7. ASSUME "send" \notin Faults, NEW b \in Calls, Active(call'[b]), NEW d \in Donations,
             NEW ch \in Channels
      PROVE  /\ call'[b].pc # "release"
             /\ d = call'[b].d /\ (call'[b].seen.sent[ch] \/ call'[b].saved.sent[ch]) =>
                   Vouched(d, ch)'
  <2>1. CASE b # c
    <3>1. call'[b] = call[b]
          BY <1>1, <2>1 DEF Alone
    <3>2. /\ call[b].pc # "release"
          /\ d = call[b].d /\ (call[b].seen.sent[ch] \/ call[b].saved.sent[ch]) => Vouched(d, ch)
          BY <1>7, <3>1 DEF Flags, Copies
    <3>3. QED BY <1>4, <3>1, <3>2
  <2>2. CASE b = c
    <3>1. row[d].sent[ch] => Vouched(d, ch)
          BY DEF Flags
    <3>2. QED BY <1>4, <1>6, <1>7, <2>2, <3>1 DEF m
  <2>3. QED BY <2>1, <2>2
<1>8. "send" \notin Faults => Copies'
  <2>1. "message" \in Channels /\ \A b \in Calls : call'[b].d \in Donations
        BY DEF Channels, TypeOK, Call
  <2>2. QED BY <1>7, <2>1 DEF Copies
<1>9. \A d \in Donations, ch \in Channels : row'[d].sent[ch] => Vouched(d, ch)'
      BY <1>4, <1>5 DEF Flags
<1>10. QED BY <1>8, <1>9 DEF Flags

\* A set flag stands for a message that was accepted, is being sent, or whose sender died,
\* as long as no failed message meets a handler that writes back a flag it copied.
THEOREM FlagsAreHonest == ASSUME FlagsKept PROVE Spec => []FlagHonest
<1>1. Init => Flags
      BY DEF Init, Flags, Copies, Active, Idle, NoRow, Unsent
<1>2. TypeOK /\ TypeOK' /\ Placed /\ Flags /\ [Next]_vars => Flags'
  <2> SUFFICES ASSUME TypeOK, TypeOK', Placed, Flags, [Next]_vars PROVE Flags'
      OBVIOUS
  <2>1. ASSUME UNCHANGED <<row, call, thanked, abandoned>>
        PROVE  Flags'
        BY <2>1 DEF Flags, Copies, Vouched
  <2>2. CASE UNCHANGED vars
        BY <2>1, <2>2 DEF vars, db, hist
  <2>3. CASE Customer
        BY <2>1, <2>3 DEF Customer, Attempt, db, hist
  <2>4. ASSUME NEW c \in Calls, Crash(c)
        PROVE  Flags'
        BY <2>1, <2>4 DEF Crash, db, hist
  <2>5. QED BY <2>2, <2>3, <2>4, ArriveFlags, StepFlags DEF Next
<1>3. Flags => FlagHonest
      BY DEF Flags, FlagHonest, Vouched, Held, Holds
<1>4. QED BY <1>1, <1>2, <1>3, TypeCorrect, CallsArePlaced, PTL DEF Spec

-----------------------------------------------------------------------------
(* The steps that are not to be repeated.                                  *)

\* The statements of an enrolment.
Enrolling == {"findPledge", "checkPledge", "insertPledge", "markIntent", "saveDonor"}

\* Which statement allocates, inserts a pledge, or marks or restores an intent, and what a
\* call has seen when it gets there.
Sparing(c) ==
    LET k == call[c]
        m == call'[c]
    IN  /\ k.pc # "allocate" => allocated' = allocated
        /\ k.pc # "insertPledge" => pledges' = pledges
        /\ k.pc # "markIntent" => enrolled' = enrolled
        /\ k.pc \notin {"markIntent", "save"} =>
              \A e \in Donations : row'[e].intent = row[e].intent
        /\ \A e \in Donations : e # k.d => allocated'[e] = allocated[e] /\ enrolled'[e] = enrolled[e]
        /\ \A p \in Donors : p # DonorOf[k.d] => pledges'[p] = pledges[p]
        /\ m.pc \in Enrolling =>
              \/ k.pc \in Enrolling
              \/ m.pc = "findPledge" /\ row[k.d].intent = "enroll"
        /\ m.pc = "allocate" => k.d \in Batchable /\ allocated[k.d] = 0

\* A step that has no such effect.
LEMMA PlainSparing ==
    ASSUME NEW c \in Calls, UNCHANGED <<pledges, allocated, enrolled>>,
           \A e \in Donations : row'[e].intent = row[e].intent,
           call'[c].pc \notin Enrolling, call'[c].pc # "allocate"
    PROVE  Sparing(c)
BY DEF Sparing

\* What follows a write, the batches, the activation or the promotion.
LEMMA NextPlaces ==
    \A r : /\ AfterWrite(r) \in {"recheck", "done", "pipeline", "batch", "activate"}
           /\ AfterBatch(r) \in {"invoice", "activate"}
           /\ AfterActivate(r) \in {"batch", "done", "ledger"}
           /\ AfterPipeline(r) \in {"activate", "batch", "invoice", "done"}
BY DEF AfterWrite, AfterBatch, AfterActivate, AfterPipeline

\* The steps that only move the call on.
LEMMA MoveSparing ==
    ASSUME TypeOK, NEW c \in Calls, NEW ok \in BOOLEAN,
           \/ Recheck(c) \/ RegisterInvoice(c, ok) \/ TokenOrManual(c, ok) \/ Settle(c, ok)
           \/ PipelineCheck(c) \/ Promote(c)
    PROVE  Sparing(c)
<1>1. UNCHANGED <<row, pledges, allocated, enrolled>>
      BY DEF Recheck, RegisterInvoice, TokenOrManual, Settle, PipelineCheck, Promote, db, hist
<1>2. \E pc \in {"activate", "done", "save", "thanks", "promote", "batch", "invoice"} : Goto(c, pc)
      BY NextPlaces DEF Recheck, RegisterInvoice, TokenOrManual, Settle, PipelineCheck, Promote
<1>3. call'[c].pc \notin Enrolling /\ call'[c].pc # "allocate"
      BY <1>2, GotoIs DEF Goes, Enrolling
<1>4. QED BY <1>1, <1>3, PlainSparing

\* The steps that fill in what the call knows.
LEMMA LocalSparing ==
    ASSUME TypeOK, NEW c \in Calls, NEW ok \in BOOLEAN, NEW to \in Status,
           \/ Query(c) \/ Abandon(c, ok) \/ Reread(c) \/ Activate(c) \/ ThanksRead(c)
           \/ Charge(c, to, ok)
    PROVE  Sparing(c)
<1> DEFINE k == call[c]
           m == call'[c]
<1>1. UNCHANGED <<row, pledges, allocated, enrolled>>
  <2>1. CASE Query(c)
        BY <2>1, Zenon DEF Query, db, hist
  <2>2. CASE Abandon(c, ok) \/ Reread(c) \/ Activate(c) \/ ThanksRead(c) \/ Charge(c, to, ok)
        BY <2>2 DEF Abandon, Reread, Activate, ThanksRead, Charge, db, hist
  <2>3. QED BY <2>1, <2>2
<1>2. ASSUME m.pc \in {"done", "abandon", "write", "pipeline", "invoice", "claim"}
      PROVE  Sparing(c)
  <2>1. m.pc \notin Enrolling /\ m.pc # "allocate"
        BY <1>2 DEF Enrolling
  <2>2. QED BY <1>1, <2>1, PlainSparing
<1>3. CASE Query(c)
      BY <1>2, <1>3, QueryIs
<1>4. CASE Abandon(c, ok)
      BY <1>2, <1>4, AbandonIs
<1>5. CASE Reread(c)
      BY <1>2, <1>5, RereadIs
<1>6. CASE ThanksRead(c)
      BY <1>2, <1>6, ThanksReadIs
<1>7. CASE Charge(c, to, ok)
      BY <1>2, <1>7, ChargeIs
<1>8. CASE Activate(c)
  <2>1. \/ m.pc = "findPledge" /\ row[k.d].intent = "enroll"
        \/ m.pc \in {"batch", "done", "ledger"}
        BY <1>8, ActivateIs, NextPlaces
  <2>2. QED BY <1>1, <2>1 DEF Sparing, Enrolling
<1>9. QED BY <1>3, <1>4, <1>5, <1>6, <1>7, <1>8

\* The messages of a thanks.
LEMMA ThanksSparing ==
    ASSUME TypeOK, NEW c \in Calls, NEW ok \in BOOLEAN,
           Claim(c) \/ Send(c, ok) \/ Release(c)
    PROVE  Sparing(c)
<1> DEFINE k == call[c]
           m == call'[c]
<1>1. UNCHANGED <<pledges, allocated, enrolled>>
      BY DEF Claim, Send, Release, db, hist
<1>2. \A ch : NextThanks(c, ch) => m.pc \in {"pipeline", "claim"}
      BY NextThanksIs
<1>3. \A e \in Donations : row'[e].intent = row[e].intent
  <2>1. CASE Claim(c)
        BY <2>1, ClaimIs
  <2>2. CASE Send(c, ok)
        BY <2>2 DEF Send, db
  <2>3. CASE Release(c)
        BY <2>3, ReleaseIs
  <2>4. QED BY <2>1, <2>2, <2>3
<1>4. m.pc \in {"pipeline", "claim", "send", "release"}
  <2>1. Goto(c, "send") \/ Goto(c, "release") => m.pc \in {"send", "release"}
        BY GotoIs DEF Goes
  <2>2. QED BY <1>2, <2>1 DEF Claim, Send, Release
<1>5. QED BY <1>1, <1>3, <1>4, PlainSparing DEF Enrolling

\* The batches and the enrolment.
LEMMA EffectSparing ==
    ASSUME TypeOK, NEW c \in Calls, NEW ok \in BOOLEAN,
           \/ BatchCheck(c) \/ Allocate(c, ok) \/ FindPledge(c) \/ CheckPledge(c)
           \/ InsertPledge(c) \/ PledgeFails(c) \/ MarkIntent(c) \/ SaveDonor(c)
    PROVE  Sparing(c)
<1> DEFINE k == call[c]
           m == call'[c]
<1>1. k.d \in Donations /\ DonorOf[k.d] \in Donors
      BY ConstantsAssumption DEF TypeOK, Call
<1>2. \A pc : Goto(c, pc) => m.pc = pc
      BY GotoIs DEF Goes
<1>3. CASE BatchCheck(c)
  <2>1. UNCHANGED <<row, pledges, allocated, enrolled>>
        BY <1>3 DEF BatchCheck, db, hist
  <2>2. \/ m.pc = "allocate" /\ k.d \in Batchable /\ allocated[k.d] = 0
        \/ m.pc \in {"invoice", "activate"}
        BY <1>2, <1>3, NextPlaces DEF BatchCheck
  <2>3. QED BY <2>1, <2>2 DEF Sparing, Enrolling
<1>4. CASE Allocate(c, ok)
  <2>1. UNCHANGED <<row, pledges, enrolled>> /\ k.pc = "allocate"
        BY <1>4 DEF Allocate, At, hist
  <2>2. m.pc \in {"invoice", "activate"}
        BY <1>2, <1>4, NextPlaces DEF Allocate
  <2>3. allocated' = allocated \/ allocated' = [allocated EXCEPT ![k.d] = @ + 1]
        BY <1>4 DEF Allocate
  <2>4. \A e \in Donations : e # k.d => allocated'[e] = allocated[e]
        BY <2>3 DEF TypeOK
  <2>5. QED BY <2>1, <2>2, <2>4 DEF Sparing, Enrolling
<1>5. CASE FindPledge(c) \/ CheckPledge(c) \/ PledgeFails(c) \/ SaveDonor(c)
  <2>1. UNCHANGED <<row, pledges, allocated, enrolled>> /\ k.pc \in Enrolling
        BY <1>5 DEF FindPledge, CheckPledge, PledgeFails, SaveDonor, db, hist, At, Enrolling
  <2>2. m.pc \in Enrolling \union {"batch", "done", "ledger"}
        BY <1>2, <1>5, NextPlaces DEF FindPledge, CheckPledge, PledgeFails, SaveDonor, Enrolling
  <2>3. QED BY <2>1, <2>2 DEF Sparing, Enrolling
<1>6. CASE InsertPledge(c)
  <2>1. /\ UNCHANGED <<row, allocated, enrolled>> /\ k.pc = "insertPledge" /\ m.pc = "markIntent"
        /\ pledges' = [pledges EXCEPT ![DonorOf[k.d]] = @ + 1]
        BY <1>2, <1>6 DEF InsertPledge, At, hist
  <2>2. \A p \in Donors : p # DonorOf[k.d] => pledges'[p] = pledges[p]
        BY <2>1 DEF TypeOK
  <2>3. QED BY <2>1, <2>2 DEF Sparing, Enrolling
<1>7. CASE MarkIntent(c)
  <2>1. /\ UNCHANGED <<allocated, pledges>> /\ k.pc = "markIntent" /\ m.pc = "saveDonor"
        /\ enrolled' = [enrolled EXCEPT ![k.d] = @ + 1]
        BY <1>2, <1>7 DEF MarkIntent, At
  <2>2. \A e \in Donations : e # k.d => enrolled'[e] = enrolled[e]
        BY <2>1 DEF TypeOK
  <2>3. QED BY <2>1, <2>2 DEF Sparing, Enrolling
<1>8. QED BY <1>3, <1>4, <1>5, <1>6, <1>7

\* The writes of a status or an entity.
LEMMA WriteSparing ==
    ASSUME TypeOK, NEW c \in Calls, NEW ok \in BOOLEAN,
           Write(c) \/ AlfalahHandshake(c, ok) \/ SaveEntity(c)
    PROVE  Sparing(c)
<1> DEFINE k == call[c]
           m == call'[c]
<1>1. UNCHANGED <<pledges, allocated, enrolled>>
      BY DEF Write, AlfalahHandshake, SaveEntity, hist
<1>2. CASE Write(c)
  <2>1. m.pc \in {"recheck", "done", "pipeline", "batch", "activate"}
        BY <1>2, WriteIs, NextPlaces DEF Goes
  <2>2. \A e \in Donations : row'[e].intent = row[e].intent
        BY <1>2, WriteIs
  <2>3. QED BY <1>1, <2>1, <2>2, PlainSparing DEF Enrolling
<1>3. CASE AlfalahHandshake(c, ok)
  <2>1. m.pc = "done" /\ \A e \in Donations : row'[e].intent = row[e].intent
        BY <1>3, FieldIs
  <2>2. QED BY <1>1, <2>1, PlainSparing DEF Enrolling
<1>4. CASE SaveEntity(c)
  <2>1. k.pc = "save" /\ m.pc = "done"
        BY <1>4, FieldIs
  <2>2. QED BY <1>1, <2>1 DEF Sparing, Enrolling
<1>5. QED BY <1>2, <1>3, <1>4

\* Every step.
LEMMA StepSparing ==
    ASSUME TypeOK, NEW c \in Calls, Step(c)
    PROVE  Sparing(c)
<1>1. "pending" \in Status /\ TRUE \in BOOLEAN
      BY DEF Status
<1>2. CASE \/ Query(c) \/ (\E ok \in BOOLEAN : Abandon(c, ok)) \/ Reread(c)
           \/ Activate(c) \/ ThanksRead(c)
           \/ \E to \in Status, ok \in BOOLEAN : Charge(c, to, ok)
      BY <1>1, <1>2, LocalSparing
<1>3. CASE Claim(c) \/ (\E ok \in BOOLEAN : Send(c, ok)) \/ Release(c)
      BY <1>1, <1>3, ThanksSparing
<1>4. CASE Write(c) \/ SaveEntity(c) \/ \E ok \in BOOLEAN : AlfalahHandshake(c, ok)
      BY <1>1, <1>4, WriteSparing
<1>5. CASE \/ BatchCheck(c) \/ FindPledge(c) \/ CheckPledge(c) \/ InsertPledge(c)
           \/ PledgeFails(c) \/ MarkIntent(c) \/ SaveDonor(c)
           \/ \E ok \in BOOLEAN : Allocate(c, ok)
      BY <1>1, <1>5, EffectSparing
<1>6. CASE \/ Recheck(c) \/ PipelineCheck(c) \/ Promote(c)
           \/ \E ok \in BOOLEAN : RegisterInvoice(c, ok) \/ Settle(c, ok) \/ TokenOrManual(c, ok)
      BY <1>1, <1>6, MoveSparing
<1>7. QED BY <1>2, <1>3, <1>4, <1>5, <1>6 DEF Step

\* Each action is at a statement of its own, but for a fault of the enrolment.
LEMMA StepAt ==
    ASSUME NEW c \in Calls, Step(c), Faults \intersect {"batch", "pledge"} = {}
    PROVE  LET pc == call[c].pc IN
           /\ pc = "pipeline" => PipelineCheck(c)
           /\ pc = "promote" => Promote(c)
           /\ pc = "activate" => Activate(c)
           /\ pc = "findPledge" => FindPledge(c)
           /\ pc = "checkPledge" => CheckPledge(c)
           /\ pc = "insertPledge" => InsertPledge(c)
           /\ pc = "markIntent" => MarkIntent(c)
           /\ pc = "saveDonor" => SaveDonor(c)
           /\ pc = "batch" => BatchCheck(c)
           /\ pc = "allocate" => Allocate(c, TRUE)
           /\ pc = "save" => SaveEntity(c)
           /\ pc = "invoice" => \/ \E ok \in BOOLEAN : TokenOrManual(c, ok)
                                \/ \E ok \in BOOLEAN : AlfalahHandshake(c, ok)
                                \/ \E ok \in BOOLEAN : RegisterInvoice(c, ok)
                                \/ \E to \in Status, ok \in BOOLEAN : Charge(c, to, ok)
<1> DEFINE pc == call[c].pc
<1>1. Query(c) => pc = "query"
      BY Zenon DEF Query, At
<1>2. /\ \A ok \in BOOLEAN : Abandon(c, ok) => pc = "abandon"
      /\ Write(c) => pc = "write"
      /\ Recheck(c) => pc = "recheck"
      /\ Reread(c) => pc = "reread"
      /\ \A ok \in BOOLEAN : Settle(c, ok) => pc = "ledger"
      /\ ThanksRead(c) => pc = "thanks"
      /\ Claim(c) => pc = "claim"
      /\ \A ok \in BOOLEAN : Send(c, ok) => pc = "send"
      /\ Release(c) => pc = "release"
      BY Zenon DEF Abandon, Write, Recheck, Reread, Settle, ThanksRead, Claim, Send, Release, At
<1>3. /\ PipelineCheck(c) => pc = "pipeline"
      /\ Promote(c) => pc = "promote"
      /\ Activate(c) => pc = "activate"
      /\ FindPledge(c) => pc = "findPledge"
      /\ CheckPledge(c) => pc = "checkPledge"
      /\ InsertPledge(c) => pc = "insertPledge"
      /\ MarkIntent(c) => pc = "markIntent"
      /\ SaveDonor(c) => pc = "saveDonor"
      /\ BatchCheck(c) => pc = "batch"
      /\ \A ok \in BOOLEAN : Allocate(c, ok) => pc = "allocate" /\ Allocate(c, TRUE)
      BY DEF PipelineCheck, Promote, Activate, FindPledge, CheckPledge, InsertPledge, MarkIntent,
             SaveDonor, BatchCheck, Allocate, At
<1>4. ~PledgeFails(c)
      BY DEF PledgeFails
<1>5. /\ SaveEntity(c) => pc = "save"
      /\ \A ok \in BOOLEAN : TokenOrManual(c, ok) \/ AlfalahHandshake(c, ok) \/ RegisterInvoice(c, ok)
            => pc = "invoice"
      /\ \A to \in Status, ok \in BOOLEAN : Charge(c, to, ok) => pc = "invoice"
      BY Zenon DEF SaveEntity, TokenOrManual, AlfalahHandshake, RegisterInvoice, Charge, At
<1> HIDE DEF pc
<1>6. QED BY <1>1, <1>2, <1>3, <1>4, <1>5 DEF Step, pc

\* No step is repeated by a call that was interrupted: the enrolment cron is off, no
\* checkout saves a stale intent after its enrolment, and no batch or pledge statement
\* fails between its check and its effect; a donor is told apart by the donation.
OnlyOnce ==
    /\ NoEdits /\ "cron" \notin Kinds
    /\ Gateways \intersect {"meezan", "blinq"} = {}
    /\ Faults \intersect {"batch", "pledge"} = {}
    /\ \A d, e \in Donations : DonorOf[d] = DonorOf[e] => d = e

\* Nothing is left of the enrolment and the batches for a payment to do.
Prepared(d, intent, times) == intent # "enroll" /\ (d \in Batchable => times = 1)

\* What was done for a donation once, given its row and its invoices.
OnceAt(d, r, invoices, times, marks, active) ==
    /\ times <= 1 /\ marks <= 1 /\ active <= 1
    /\ r.status = "none" => times = 0 /\ marks = 0 /\ active = 0
    /\ invoices # {} => Prepared(d, r.intent, times)

\* What a first checkout has done when it is where it is.
OnceOpen(k, intent, times, marks, active) ==
    /\ k.pc \notin {"invoice", "save"} => times = 0
    /\ k.pc \in {"invoice", "save"} => Prepared(k.d, intent, times)
    /\ k.pc \in {"batch", "allocate"} => intent # "enroll"
    /\ k.pc \in Promoting => intent = k.saved.intent
    /\ k.pc = "activate" => intent = "enroll"
    /\ k.pc \in Promoting \union {"activate", "findPledge", "checkPledge", "insertPledge"} =>
          marks = 0 /\ active = 0
    /\ k.pc = "markIntent" => marks = 0
    /\ k.pc = "saveDonor" => intent = "activated"

Once ==
    /\ \A p \in Donors : pledges[p] <= 1
    /\ \A d \in Donations :
          OnceAt(d, row[d], issued[d], allocated[d], enrolled[d], pledges[DonorOf[d]])
    /\ \A c \in Calls : Opens(call[c]) =>
          OnceOpen(call[c], row[call[c].d].intent, allocated[call[c].d], enrolled[call[c].d],
                   pledges[DonorOf[call[c].d]])
    /\ \A c \in Calls : call[c].pc \in Enrolling \union {"allocate"} => call[c].kind = "create"

\* A step keeps Once if it does for its own donation and call.
LEMMA OnceAdvance ==
    ASSUME TypeOK, TypeOK', Opening, Placed, OnlyOnce, Once, NEW c \in Calls, Framed(c), Sparing(c),
           LET k == call[c]
               m == call'[c]
               d == k.d
           IN  /\ OnceAt(d, row'[d], issued'[d], allocated'[d], enrolled'[d], pledges'[DonorOf[d]])
               /\ Opens(m) => OnceOpen(m, row'[d].intent, allocated'[d], enrolled'[d],
                                       pledges'[DonorOf[d]])
               /\ m.pc \in Enrolling \union {"allocate"} => m.kind = "create"
    PROVE  Once'
<1> DEFINE k == call[c]
           m == call'[c]
<1>1. /\ Active(k) /\ k.d \in Donations /\ DonorOf \in [Donations -> Donors]
      /\ \A b \in Calls : call[b].d \in Donations
      BY ConstantsAssumption DEF Framed, TypeOK, Call
<1>2. /\ \A b \in Calls : b # c => call'[b] = call[b]
      /\ Active(m) => m.d = k.d
      /\ \A e \in Donations : e # k.d => row'[e] = row[e] /\ issued'[e] = issued[e]
      BY DEF Framed, Alone, Continues
<1>3. /\ \A e \in Donations : e # k.d => allocated'[e] = allocated[e] /\ enrolled'[e] = enrolled[e]
      /\ \A p \in Donors : p # DonorOf[k.d] => pledges'[p] = pledges[p]
      BY DEF Sparing
<1>4. \A e \in Donations : e # k.d => pledges'[DonorOf[e]] = pledges[DonorOf[e]]
      BY <1>1, <1>3 DEF OnlyOnce
<1>5. k.kind # "cron"
      BY <1>1 DEF Placed, PlaceOK, OnlyOnce
<1>6. \A p \in Donors : pledges'[p] <= 1
      BY <1>3 DEF Once, OnceAt
<1>7. ASSUME NEW e \in Donations
      PROVE  OnceAt(e, row'[e], issued'[e], allocated'[e], enrolled'[e], pledges'[DonorOf[e]])
      BY <1>2, <1>3, <1>4 DEF Once
<1>8. ASSUME NEW b \in Calls, Opens(call'[b])
      PROVE  OnceOpen(call'[b], row'[call'[b].d].intent, allocated'[call'[b].d],
                      enrolled'[call'[b].d], pledges'[DonorOf[call'[b].d]])
  <2>1. CASE b = c
        BY <1>2, <1>8, <2>1 DEF Opens
  <2>2. CASE b # c
    <3>1. call'[b] = call[b] /\ Opens(call[b])
          BY <1>2, <1>8, <2>2
    <3>2. call[b].d # k.d
          BY <1>1, <1>5, <2>2, <3>1 DEF Opening
    <3>3. QED BY <1>1, <1>2, <1>3, <1>4, <3>1, <3>2 DEF Once
  <2>3. QED BY <2>1, <2>2
<1>9. ASSUME NEW b \in Calls, call'[b].pc \in Enrolling \union {"allocate"}
      PROVE  call'[b].kind = "create"
      BY <1>2, <1>9 DEF Once
<1>10. QED BY <1>6, <1>7, <1>8, <1>9 DEF Once

\* A call that reports a payment finds everything prepared.
LEMMA OnceReport ==
    ASSUME TypeOK, TypeOK', Opening, Placed, Placed', OnlyOnce, Once, NEW c \in Calls, Step(c),
           call[c].kind \in Reporting
    PROVE  Once'
<1> DEFINE k == call[c]
           m == call'[c]
<1>1. Framed(c) /\ Sparing(c)
      BY StepFramed, StepSparing
<1>2. Active(k) /\ k.d \in Donations /\ PlaceOK(k, issued[k.d])
      BY <1>1 DEF Framed, TypeOK, Call, Placed
<1>3. issued[k.d] # {} /\ k.pc \notin {"invoice", "save"} /\ k.kind # "create"
      BY <1>2 DEF PlaceOK, PathOK, ReportOK, Reporting, Promoting, Pledging, Thanking, Answering
<1>4. OnceAt(k.d, row[k.d], issued[k.d], allocated[k.d], enrolled[k.d], pledges[DonorOf[k.d]])
      BY <1>2 DEF Once
<1>5. Prepared(k.d, row[k.d].intent, allocated[k.d])
      BY <1>3, <1>4 DEF OnceAt
<1>6. k.pc \notin Enrolling \union {"allocate"}
      BY <1>3 DEF Once
<1>7. allocated' = allocated /\ pledges' = pledges /\ enrolled' = enrolled /\ row'[k.d].intent = row[k.d].intent
      BY <1>1, <1>2, <1>3, <1>6 DEF Sparing, Enrolling
<1>8. issued'[k.d] = issued[k.d]
      BY <1>1, <1>3 DEF Framed
<1>9. row'[k.d].status # "none"
      BY <1>2, <1>3, <1>8 DEF Placed
<1>10. OnceAt(k.d, row'[k.d], issued'[k.d], allocated'[k.d], enrolled'[k.d], pledges'[DonorOf[k.d]])
      BY <1>4, <1>5, <1>7, <1>9 DEF OnceAt
<1>11. ~Opens(m)
      BY <1>1, <1>3 DEF Framed, Continues, Opens
<1>12. allocated[k.d] \in Nat
      BY <1>2 DEF TypeOK
<1>13. m.pc \notin Enrolling \union {"allocate"}
      BY <1>1, <1>5, <1>6, <1>12 DEF Sparing, Prepared, Enrolling
<1>14. QED BY <1>1, <1>10, <1>11, <1>13, OnceAdvance

\* A first checkout does everything once, before anyone else can be on its donation.
LEMMA OnceCreate ==
    ASSUME TypeOK, TypeOK', Opening, Placed, OnlyOnce, Once, NEW c \in Calls, Step(c),
           call[c].kind = "create"
    PROVE  Once'
<1> DEFINE k == call[c]
           m == call'[c]
           d == k.d
           p == DonorOf[d]
<1>1. Framed(c) /\ Sparing(c) /\ Faults \intersect {"batch", "pledge"} = {}
      BY StepFramed, StepSparing DEF OnlyOnce
<1>2. Active(k) /\ k \in Call /\ d \in Donations /\ p \in Donors /\ PlaceOK(k, issued[d])
      BY <1>1, ConstantsAssumption DEF Framed, TypeOK, Call, Placed
<1>3. /\ allocated[d] \in Nat /\ enrolled[d] \in Nat /\ pledges[p] \in Nat
      /\ allocated[d] <= 1 /\ enrolled[d] <= 1 /\ pledges[p] <= 1
      BY <1>2 DEF TypeOK, Once, OnceAt
<1>4. /\ k.pc \in Promoting \union Pledging \union {"batch", "allocate", "invoice", "save"}
      /\ k.saved.status \in {"pending", "completed"}
      /\ k.saved.intent = "none" \/ (k.saved.intent = "enroll" /\ k.gw # "stripe")
      /\ k.pc = "save" => k.gw \in EntitySavers /\ k.gw \in Gateways
      BY <1>2 DEF PlaceOK, PathOK, EntityOK
<1>5. issued[d] = {} /\ row[d].status = k.saved.status
      BY <1>2 DEF Opening, Opens
<1>6. OnceOpen(k, row[d].intent, allocated[d], enrolled[d], pledges[p])
      BY <1>2 DEF Once, Opens
<1>7. row'[d].status # "none"
  <2>1. k.pc # "write"
        BY <1>4 DEF Promoting, Pledging
  <2>2. row'[d].status = row[d].status \/ Writes(k, m, row'[d].status)
        BY <1>1 DEF Framed
  <2>3. QED BY <1>4, <1>5, <2>1, <2>2 DEF Writes
<1>8. m.pc \in Enrolling \union {"allocate"} => m.kind = "create"
  <2>1. CASE k.pc = "invoice"
    <3>1. row[d].intent # "enroll" /\ (d \in Batchable => allocated[d] = 1)
          BY <1>6, <2>1 DEF OnceOpen, Prepared
    <3>2. m.pc \notin Enrolling \union {"allocate"}
          BY <1>1, <2>1, <3>1 DEF Sparing, Enrolling
    <3>3. QED BY <3>2
  <2>2. CASE k.pc # "invoice"
    <3>1. m.pc \in Enrolling \union {"allocate"} => Active(m)
          BY DEF Enrolling, Active
    <3>2. QED BY <1>1, <2>2, <3>1 DEF Framed, Continues
  <2>3. QED BY <2>1, <2>2
<1>9. ASSUME allocated'[d] <= 1, enrolled'[d] <= 1, pledges'[p] <= 1,
             issued'[d] # {} => Prepared(d, row'[d].intent, allocated'[d]),
             Opens(m) => OnceOpen(m, row'[d].intent, allocated'[d], enrolled'[d], pledges'[p])
      PROVE  Once'
  <2>1. OnceAt(d, row'[d], issued'[d], allocated'[d], enrolled'[d], pledges'[p])
        BY <1>7, <1>9 DEF OnceAt
  <2>2. QED BY <1>1, <1>8, <1>9, <2>1, OnceAdvance
<1>10. k.pc \notin {"invoice", "save"} => issued'[d] = {}
      BY <1>1, <1>5 DEF Framed
<1>11. ASSUME NEW pc, Goto(c, pc), pc # "done"
       PROVE  m.pc = pc /\ m.saved = k.saved /\ m.d = d /\ m.kind = "create" /\ m.gw = k.gw
       BY <1>11, GotoIs DEF Goes, Alike
<1>12. ASSUME UNCHANGED <<row, allocated, enrolled, pledges>>, k.pc \notin {"invoice", "save"},
              OnceOpen(m, row[d].intent, allocated[d], enrolled[d], pledges[p])
       PROVE  Once'
       BY <1>3, <1>9, <1>10, <1>12
<1>13. CASE k.pc \in Promoting
  <2>1. /\ allocated[d] = 0 /\ row[d].intent = k.saved.intent /\ enrolled[d] = 0 /\ pledges[p] = 0
        /\ k.pc \in {"pipeline", "promote"}
        BY <1>6, <1>13 DEF OnceOpen, Promoting
  <2>2. PipelineCheck(c) \/ Promote(c)
        BY <1>1, <2>1, StepAt
  <2>3. UNCHANGED <<row, allocated, enrolled, pledges>>
        BY <2>2 DEF PipelineCheck, Promote, db, hist
  <2>4. Goto(c, "promote") \/ Goto(c, AfterPipeline(k))
        BY <2>2 DEF PipelineCheck, Promote
  <2>5. AfterPipeline(k) = IF k.saved.intent = "enroll" THEN "activate" ELSE "batch"
        BY DEF AfterPipeline
  <2>6. \/ m.pc = "promote"
        \/ m.pc = "activate" /\ k.saved.intent = "enroll"
        \/ m.pc = "batch" /\ k.saved.intent # "enroll"
        BY <1>11, <2>4, <2>5
  <2>7. m.saved = k.saved
        BY <1>11, <2>4, <2>5
  <2>8. OnceOpen(m, row[d].intent, allocated[d], enrolled[d], pledges[p])
        BY <2>1, <2>6, <2>7 DEF OnceOpen, Promoting
  <2>9. QED BY <1>12, <2>1, <2>3, <2>8
<1>14. CASE k.pc = "activate"
  <2>1. allocated[d] = 0 /\ row[d].intent = "enroll" /\ enrolled[d] = 0 /\ pledges[p] = 0
        BY <1>6, <1>14 DEF OnceOpen
  <2>2. Activate(c)
        BY <1>1, <1>14, StepAt
  <2>3. UNCHANGED <<row, allocated, enrolled, pledges>>
        BY <2>2 DEF Activate, db, hist
  <2>4. row[d].status \in {"pending", "completed"}
        BY <1>4, <1>5
  <2>5. m.pc = "findPledge"
        BY <2>1, <2>2, <2>4, ActivateIs
  <2>6. OnceOpen(m, row[d].intent, allocated[d], enrolled[d], pledges[p])
        BY <2>1, <2>5 DEF OnceOpen, Promoting
  <2>7. QED BY <1>12, <1>14, <2>3, <2>6
<1>15. CASE k.pc \in {"findPledge", "checkPledge"}
  <2>1. allocated[d] = 0 /\ enrolled[d] = 0 /\ pledges[p] = 0
        BY <1>6, <1>15 DEF OnceOpen
  <2>2. FindPledge(c) \/ CheckPledge(c)
        BY <1>1, <1>15, StepAt
  <2>3. UNCHANGED <<row, allocated, enrolled, pledges>>
        BY <2>2 DEF FindPledge, CheckPledge, db, hist
  <2>4. Goto(c, "checkPledge") \/ Goto(c, "insertPledge")
        BY <2>1, <2>2 DEF FindPledge, CheckPledge
  <2>5. m.pc \in {"checkPledge", "insertPledge"}
        BY <1>11, <2>4
  <2>6. OnceOpen(m, row[d].intent, allocated[d], enrolled[d], pledges[p])
        BY <2>1, <2>5 DEF OnceOpen, Promoting
  <2>7. QED BY <1>12, <1>15, <2>3, <2>6
<1>16. CASE k.pc = "insertPledge"
  <2>1. allocated[d] = 0 /\ enrolled[d] = 0 /\ pledges[p] = 0
        BY <1>6, <1>16 DEF OnceOpen
  <2>2. /\ UNCHANGED <<row, allocated, enrolled>> /\ Goto(c, "markIntent")
        /\ pledges' = [pledges EXCEPT ![p] = @ + 1]
        BY <1>1, <1>16, StepAt DEF InsertPledge, hist
  <2>3. pledges'[p] = 1 /\ m.pc = "markIntent"
        BY <1>2, <1>11, <2>1, <2>2 DEF TypeOK
  <2>4. OnceOpen(m, row'[d].intent, allocated'[d], enrolled'[d], pledges'[p])
        BY <2>1, <2>2, <2>3 DEF OnceOpen, Promoting
  <2>5. allocated'[d] <= 1 /\ enrolled'[d] <= 1 /\ pledges'[p] <= 1
        BY <2>1, <2>2, <2>3
  <2>6. QED BY <1>9, <1>10, <1>16, <2>4, <2>5
<1>17. CASE k.pc = "markIntent"
  <2>1. allocated[d] = 0 /\ enrolled[d] = 0
        BY <1>6, <1>17 DEF OnceOpen
  <2>2. MarkIntent(c)
        BY <1>1, <1>17, StepAt
  <2>3. /\ UNCHANGED <<pledges, allocated>> /\ Goto(c, "saveDonor")
        /\ enrolled' = [enrolled EXCEPT ![d] = @ + 1]
        BY <2>2 DEF MarkIntent
  <2>4. enrolled'[d] = 1 /\ m.pc = "saveDonor"
        BY <1>2, <1>11, <2>1, <2>3 DEF TypeOK
  <2>5. row'[d].intent = "activated"
        BY <2>2, FieldIs
  <2>6. OnceOpen(m, row'[d].intent, allocated'[d], enrolled'[d], pledges'[p])
        BY <2>1, <2>3, <2>4, <2>5 DEF OnceOpen, Promoting
  <2>7. allocated'[d] <= 1 /\ enrolled'[d] <= 1 /\ pledges'[p] <= 1
        BY <1>3, <2>1, <2>3, <2>4
  <2>8. QED BY <1>9, <1>10, <1>17, <2>6, <2>7
<1>18. CASE k.pc = "saveDonor"
  <2>1. allocated[d] = 0 /\ row[d].intent = "activated"
        BY <1>6, <1>18 DEF OnceOpen
  <2>2. UNCHANGED <<row, allocated, enrolled, pledges>> /\ Goto(c, AfterActivate(k))
        BY <1>1, <1>18, StepAt DEF SaveDonor, hist
  <2>3. AfterActivate(k) = "batch"
        BY DEF AfterActivate
  <2>4. m.pc = "batch"
        BY <1>11, <2>2, <2>3
  <2>5. OnceOpen(m, row[d].intent, allocated[d], enrolled[d], pledges[p])
        BY <2>1, <2>4 DEF OnceOpen, Promoting
  <2>6. QED BY <1>12, <1>18, <2>2, <2>5
<1>19. CASE k.pc = "batch"
  <2>1. allocated[d] = 0 /\ row[d].intent # "enroll"
        BY <1>6, <1>19 DEF OnceOpen
  <2>2. BatchCheck(c)
        BY <1>1, <1>19, StepAt
  <2>3. UNCHANGED <<row, allocated, enrolled, pledges>>
        BY <2>2 DEF BatchCheck, db, hist
  <2>4. AfterBatch(k) = "invoice"
        BY DEF AfterBatch
  <2>5. Goto(c, IF d \in Batchable THEN "allocate" ELSE "invoice")
        BY <2>1, <2>2, <2>4 DEF BatchCheck
  <2>6. m.pc = IF d \in Batchable THEN "allocate" ELSE "invoice"
        BY <1>11, <2>5
  <2>7. m.d = d
        BY <1>11, <2>5
  <2>8. OnceOpen(m, row[d].intent, allocated[d], enrolled[d], pledges[p])
        BY <2>1, <2>6, <2>7 DEF OnceOpen, Promoting, Prepared
  <2>9. QED BY <1>12, <1>19, <2>3, <2>8
<1>20. CASE k.pc = "allocate"
  <2>1. allocated[d] = 0 /\ row[d].intent # "enroll"
        BY <1>6, <1>20 DEF OnceOpen
  <2>2. Allocate(c, TRUE)
        BY <1>1, <1>20, StepAt
  <2>3. AfterBatch(k) = "invoice"
        BY DEF AfterBatch
  <2>4. /\ UNCHANGED <<row, enrolled, pledges>> /\ Goto(c, "invoice")
        /\ allocated' = [allocated EXCEPT ![d] = @ + 1]
        BY <2>2, <2>3 DEF Allocate, hist
  <2>5. allocated'[d] = 1 /\ m.pc = "invoice" /\ m.d = d
        BY <1>2, <1>11, <2>1, <2>4 DEF TypeOK
  <2>6. OnceOpen(m, row'[d].intent, allocated'[d], enrolled'[d], pledges'[p])
        BY <2>1, <2>4, <2>5 DEF OnceOpen, Promoting, Prepared
  <2>7. allocated'[d] <= 1 /\ enrolled'[d] <= 1 /\ pledges'[p] <= 1
        BY <1>3, <2>4, <2>5
  <2>8. QED BY <1>9, <1>10, <1>20, <2>6, <2>7
<1>21. CASE k.pc = "invoice"
  <2>1. Prepared(d, row[d].intent, allocated[d])
        BY <1>6, <1>21 DEF OnceOpen
  <2>2. UNCHANGED <<allocated, enrolled, pledges>> /\ row'[d].intent = row[d].intent
        BY <1>1, <1>2, <1>21 DEF Sparing
  <2>3. m.pc \in {"done", "save"} \/ m.kind = "charge"
    <3>1. \/ \E ok \in BOOLEAN : TokenOrManual(c, ok)
          \/ \E ok \in BOOLEAN : AlfalahHandshake(c, ok)
          \/ \E ok \in BOOLEAN : RegisterInvoice(c, ok)
          \/ \E to \in Status, ok \in BOOLEAN : Charge(c, to, ok)
          BY <1>1, <1>21, StepAt
    <3>2. CASE \E ok \in BOOLEAN : TokenOrManual(c, ok) \/ AlfalahHandshake(c, ok) \/ RegisterInvoice(c, ok)
      <4>1. Goto(c, "done") \/ Goto(c, "save")
            BY <3>2 DEF TokenOrManual, AlfalahHandshake, RegisterInvoice
      <4>2. QED BY <4>1, GotoIs DEF Goes
    <3>3. CASE \E to \in Status, ok \in BOOLEAN : Charge(c, to, ok)
          BY <3>3, ChargeIs
    <3>4. QED BY <3>1, <3>2, <3>3
  <2>4. ASSUME Opens(m)
        PROVE  OnceOpen(m, row'[d].intent, allocated'[d], enrolled'[d], pledges'[p])
    <3>1. m.pc = "save" /\ m.d = d
          BY <1>1, <2>3, <2>4 DEF Opens, Active, Framed, Continues
    <3>2. QED BY <2>1, <2>2, <3>1 DEF OnceOpen, Promoting
  <2>5. QED BY <1>3, <1>9, <2>1, <2>2, <2>4
<1>22. CASE k.pc = "save"
  <2>1. Prepared(d, row[d].intent, allocated[d])
        BY <1>6, <1>22 DEF OnceOpen
  <2>2. UNCHANGED <<allocated, enrolled, pledges>>
        BY <1>1, <1>22 DEF Sparing
  <2>3. m.pc = "done" /\ row'[d] = k.saved
        BY <1>1, <1>22, StepAt, FieldIs
  <2>4. k.gw = "stripe"
        BY <1>4, <1>22 DEF EntitySavers, OnlyOnce
  <2>5. k.saved.intent = "none"
        BY <1>4, <2>4
  <2>6. Prepared(d, row'[d].intent, allocated'[d])
        BY <2>1, <2>2, <2>3, <2>5 DEF Prepared
  <2>7. QED BY <1>3, <1>9, <2>2, <2>3, <2>6 DEF Opens, Active
<1>23. QED BY <1>4, <1>13, <1>14, <1>15, <1>16, <1>17, <1>18, <1>19, <1>20, <1>21, <1>22
           DEF Pledging

\* An arrival does nothing yet; a first checkout starts on a row nothing was done for.
LEMMA ArriveOnce ==
    ASSUME TypeOK, TypeOK', Placed, OnlyOnce, Once, NEW c \in Calls, Arrive(c)
    PROVE  Once'
<1> DEFINE m == call'[c]
<1>1. /\ Alone(c) /\ call[c].pc = "idle" /\ issued' = issued
      /\ UNCHANGED <<allocated, enrolled, pledges>>
      /\ \/ Inserts(m)
         \/ Patches(m)
         \/ row' = row /\ (Active(m) => Begins(m))
      BY ArriveIs DEF net
<1>2. m.d \in Donations /\ m.pc \in Steps /\ \A b \in Calls : call[b].d \in Donations
      BY DEF TypeOK, Call
<1>3. ~Patches(m)
      BY DEF Patches, OnlyOnce, NoEdits
<1>4. \A b \in Calls : b # c => call'[b] = call[b]
      BY <1>1 DEF Alone
<1> HIDE DEF m
<1>5. CASE Inserts(m)
  <2>1. /\ m.kind = "create" /\ row[m.d].status = "none" /\ row' = [row EXCEPT ![m.d] = m.saved]
        /\ m.saved.intent \in {"none", "enroll"}
        /\ m.pc = IF Successful(m.saved.status) THEN "pipeline" ELSE AfterPipeline(m)
        /\ m.saved.status # "none"
        BY <1>5 DEF Inserts
  <2>2. row'[m.d] = m.saved /\ \A e \in Donations : e # m.d => row'[e] = row[e]
        BY <1>2, <2>1 DEF TypeOK
  <2>3. allocated[m.d] = 0 /\ enrolled[m.d] = 0 /\ pledges[DonorOf[m.d]] = 0
        BY <1>2, <2>1 DEF Once, OnceAt
  <2>4. issued[m.d] = {}
        BY <1>2, <2>1 DEF Placed
  <2>5. \/ m.pc = "pipeline"
        \/ m.pc = "activate" /\ m.saved.intent = "enroll"
        \/ m.pc = "batch" /\ m.saved.intent # "enroll"
        BY <2>1 DEF AfterPipeline
  <2>6. OnceOpen(m, m.saved.intent, 0, 0, 0)
        BY <2>5 DEF OnceOpen, Promoting
  <2>7. ASSUME NEW b \in Calls, Opens(call'[b])
        PROVE  OnceOpen(call'[b], row'[call'[b].d].intent, allocated'[call'[b].d],
                        enrolled'[call'[b].d], pledges'[DonorOf[call'[b].d]])
    <3>1. CASE b = c
          BY <1>1, <2>2, <2>3, <2>6, <3>1 DEF m
    <3>2. CASE b # c
      <4>1. call'[b] = call[b] /\ Opens(call[b]) /\ row[call[b].d].status # "none"
            BY <1>4, <2>7, <3>2 DEF Opens, Placed
      <4>2. row'[call[b].d] = row[call[b].d]
            BY <1>2, <2>1, <2>2, <4>1
      <4>3. QED BY <1>1, <4>1, <4>2 DEF Once
    <3>3. QED BY <3>1, <3>2
  <2>8. ASSUME NEW e \in Donations
        PROVE  OnceAt(e, row'[e], issued'[e], allocated'[e], enrolled'[e], pledges'[DonorOf[e]])
    <3>1. CASE e = m.d
          BY <1>1, <2>1, <2>2, <2>3, <2>4, <3>1 DEF OnceAt
    <3>2. CASE e # m.d
          BY <1>1, <2>2, <3>2 DEF Once
    <3>3. QED BY <3>1, <3>2
  <2>9. \A b \in Calls : call'[b].pc \in Enrolling \union {"allocate"} => call'[b].kind = "create"
    <3>1. m.kind = "create"
          BY <2>1
    <3>2. QED BY <1>4, <3>1 DEF Once, m
  <2>10. QED BY <1>1, <2>7, <2>8, <2>9 DEF Once
<1>6. CASE row' = row /\ (Active(m) => Begins(m))
  <2>1. Active(m) => m.kind # "create" /\ m.pc \notin Enrolling \union {"allocate"}
    <3>1. Begins(m) => m.kind # "create" /\ m.pc \in {"abandon", "write", "recheck", "query", "activate"}
          BY DEF Begins
    <3>2. QED BY <1>6, <3>1 DEF Enrolling
  <2>2. m.pc \notin Enrolling \union {"allocate"}
        BY <2>1 DEF Active, Enrolling
  <2>3. ~Opens(m)
        BY <2>1 DEF Opens
  <2>4. ASSUME NEW b \in Calls, Opens(call'[b])
        PROVE  call'[b] = call[b]
        BY <1>4, <2>3, <2>4 DEF m
  <2>5. \A b \in Calls : call'[b].pc \in Enrolling \union {"allocate"} => call'[b].kind = "create"
        BY <1>4, <2>2 DEF Once, m
  <2>6. QED BY <1>1, <1>6, <2>4, <2>5 DEF Once
<1>7. QED BY <1>1, <1>3, <1>5, <1>6

\* Where a checkout prepares its donation to the end before it hands out the payment link,
\* and does not fall back on what it read before, no notification, return or poll, however
\* many at once, allocates a donation again, marks its intent again or inserts a second pledge.
THEOREM EffectsAreOnce == ASSUME OnlyOnce PROVE Spec => []EffectsOnce
<1>1. Init => Once
  <2> SUFFICES ASSUME Init PROVE Once
      OBVIOUS
  <2>1. \A c \in Calls : call[c].pc = "idle"
        BY DEF Init, Idle
  <2>2. \A c \in Calls : ~Opens(call[c]) /\ call[c].pc \notin Enrolling \union {"allocate"}
        BY <2>1 DEF Opens, Active, Enrolling
  <2>3. /\ \A p \in Donors : pledges[p] = 0
        /\ \A d \in Donations : allocated[d] = 0 /\ enrolled[d] = 0 /\ issued[d] = {}
        BY DEF Init
  <2>4. \A d \in Donations : DonorOf[d] \in Donors
        BY ConstantsAssumption
  <2>5. QED BY <2>2, <2>3, <2>4 DEF Once, OnceAt
<1>2. TypeOK /\ TypeOK' /\ Placed /\ Placed' /\ Opening /\ Once /\ [Next]_vars => Once'
  <2> SUFFICES ASSUME TypeOK, TypeOK', Placed, Placed', Opening, Once, [Next]_vars PROVE Once'
      OBVIOUS
  <2>1. ASSUME UNCHANGED <<row, issued, call, allocated, enrolled, pledges>>
        PROVE  Once'
        BY <2>1 DEF Once
  <2>2. CASE UNCHANGED vars
        BY <2>1, <2>2 DEF vars, db, net, hist
  <2>3. CASE Customer
        BY <2>1, <2>3 DEF Customer, Attempt, db, hist
  <2>4. ASSUME NEW c \in Calls, Crash(c)
        PROVE  Once'
        BY <2>1, <2>4 DEF Crash, db, net, hist
  <2>5. ASSUME NEW c \in Calls, Step(c)
        PROVE  Once'
    <3>1. Active(call[c]) /\ call[c].kind \in Kinds \union {"charge"}
          BY <2>5, StepFramed DEF Framed, Placed, PlaceOK
    <3>2. call[c].kind \in {"create", "cron"} \union Reporting /\ call[c].kind # "cron"
          BY <3>1, KindsLeft DEF OnlyOnce
    <3>3. QED BY <2>5, <3>2, OnceCreate, OnceReport
  <2>6. QED BY <2>2, <2>3, <2>4, <2>5, ArriveOnce DEF Next
<1>3. Once => EffectsOnce
      BY DEF Once, OnceAt, EffectsOnce
<1>4. NoEdits
      BY DEF OnlyOnce
<1>5. Spec => []Opening
      BY <1>4, CheckoutsAreAlone
<1>6. QED BY <1>1, <1>2, <1>3, <1>5, TypeCorrect, CallsArePlaced, PTL DEF Spec

-----------------------------------------------------------------------------
(* What is owed to a paid donation.                                        *)

\* The handlers that bring a payment to its side effects.
Serving == Reporting \union {"staff"}

\* What a step leaves of the effects: who takes a stage back, a flag back, or stops halfway.
Lasting(c) ==
    LET k == call[c]
        m == call'[c]
    IN  /\ k.pc # "ledger" => settled' = settled
        /\ settled \subseteq settled'
        /\ \A e \in settled' : e # k.d => e \in settled
        /\ k.pc \notin {"promote", "saveDonor"} => stage' = stage
        /\ \A p \in Donors : p # DonorOf[k.d] => stage'[p] = stage[p]
        /\ k.pc = "promote" => stage'[DonorOf[k.d]] = "donor"
        /\ \A e \in Donations : enrolled[e] > 0 => enrolled'[e] > 0
        /\ m.pc = "saveDonor" => enrolled'[k.d] > 0
        /\ m.pc = "release" => "send" \in Faults
        /\ crashed' = crashed
        /\ row'[k.d].status = "completed" /\ k.pc \notin {"release", "save"} =>
              \A ch \in Channels : row[k.d].sent[ch] => row'[k.d].sent[ch]
        /\ k.pc # "save" /\ row'[k.d].intent = "enroll" => row[k.d].intent = "enroll"
        /\ k.pc = "save" => row'[k.d].status = k.saved.status
        /\ k.pc = "write" => m.pc = AfterWrite(k)

\* A step that has no such effect.
LEMMA PlainLasting ==
    ASSUME NEW c \in Calls, UNCHANGED <<stage, settled, enrolled, crashed>>,
           row'[call[c].d].status = "completed" =>
              \A ch \in Channels : row[call[c].d].sent[ch] => row'[call[c].d].sent[ch],
           row'[call[c].d].intent = row[call[c].d].intent,
           call'[c].pc \notin {"saveDonor", "release"},
           call[c].pc \notin {"promote", "save", "write"}
    PROVE  Lasting(c)
BY DEF Lasting

\* The steps that decide, and those that write elsewhere.
LEMMA MoveLasting ==
    ASSUME TypeOK, NEW c \in Calls, NEW ok \in BOOLEAN,
           \/ Recheck(c) \/ BatchCheck(c) \/ Allocate(c, ok) \/ RegisterInvoice(c, ok)
           \/ TokenOrManual(c, ok) \/ PipelineCheck(c) \/ FindPledge(c) \/ CheckPledge(c)
           \/ InsertPledge(c) \/ PledgeFails(c)
    PROVE  Lasting(c)
<1>1. UNCHANGED <<row, stage, settled, enrolled, crashed>>
      BY DEF Recheck, BatchCheck, Allocate, RegisterInvoice, TokenOrManual, PipelineCheck,
             FindPledge, CheckPledge, InsertPledge, PledgeFails, db, hist
<1>2. call[c].pc \notin {"promote", "save", "write"}
      BY DEF Recheck, BatchCheck, Allocate, RegisterInvoice, TokenOrManual, PipelineCheck,
             FindPledge, CheckPledge, InsertPledge, PledgeFails, At
<1>3. \E pc : Goto(c, pc) /\ pc \notin {"saveDonor", "release"}
  <2>1. CASE Recheck(c) \/ BatchCheck(c) \/ RegisterInvoice(c, ok) \/ TokenOrManual(c, ok)
        BY <2>1, NextPlaces DEF Recheck, BatchCheck, RegisterInvoice, TokenOrManual
  <2>2. CASE Allocate(c, ok) \/ FindPledge(c) \/ CheckPledge(c) \/ InsertPledge(c)
        BY <2>2, NextPlaces DEF Allocate, FindPledge, CheckPledge, InsertPledge
  <2>3. CASE PledgeFails(c) \/ PipelineCheck(c)
        BY <2>3, NextPlaces DEF PledgeFails, PipelineCheck
  <2>4. QED BY <2>1, <2>2, <2>3
<1>4. call'[c].pc \notin {"saveDonor", "release"}
      BY <1>3, GotoIs DEF Goes
<1>5. QED BY <1>1, <1>2, <1>4, PlainLasting

\* The steps that fill in what the call knows.
LEMMA LocalLasting ==
    ASSUME TypeOK, NEW c \in Calls, NEW ok \in BOOLEAN, NEW to \in Status,
           \/ Query(c) \/ Abandon(c, ok) \/ Reread(c) \/ Activate(c) \/ ThanksRead(c)
           \/ Charge(c, to, ok)
    PROVE  Lasting(c)
<1> DEFINE k == call[c]
           m == call'[c]
<1>1. UNCHANGED <<row, stage, settled, enrolled, crashed>>
  <2>1. CASE Query(c)
        BY <2>1, Zenon DEF Query, db, hist
  <2>2. CASE Abandon(c, ok) \/ Reread(c) \/ Activate(c) \/ ThanksRead(c) \/ Charge(c, to, ok)
        BY <2>2 DEF Abandon, Reread, Activate, ThanksRead, Charge, db, hist
  <2>3. QED BY <2>1, <2>2
<1>2. ASSUME m.pc \notin {"saveDonor", "release"}, k.pc \notin {"promote", "save", "write"}
      PROVE  Lasting(c)
      BY <1>1, <1>2, PlainLasting
<1>3. CASE Query(c)
      BY <1>2, <1>3, QueryIs
<1>4. CASE Abandon(c, ok)
      BY <1>2, <1>4, AbandonIs
<1>5. CASE Reread(c)
      BY <1>2, <1>5, RereadIs
<1>6. CASE ThanksRead(c)
      BY <1>2, <1>6, ThanksReadIs
<1>7. CASE Charge(c, to, ok)
      BY <1>2, <1>7, ChargeIs
<1>8. CASE Activate(c)
  <2>1. k.pc = "activate" /\ m.pc \in {"findPledge", "batch", "done", "ledger"}
        BY <1>8, ActivateIs, NextPlaces
  <2>2. QED BY <1>2, <2>1
<1>9. QED BY <1>3, <1>4, <1>5, <1>6, <1>7, <1>8

\* The messages of a thanks.
LEMMA ThanksLasting ==
    ASSUME TypeOK, NEW c \in Calls, NEW ok \in BOOLEAN,
           Claim(c) \/ Send(c, ok) \/ Release(c)
    PROVE  Lasting(c)
<1> DEFINE k == call[c]
           m == call'[c]
<1>1. /\ UNCHANGED <<stage, settled, enrolled, crashed>>
      /\ k.pc \in {"claim", "send", "release"} /\ k.d \in Donations
      BY DEF TypeOK, Call, Claim, Send, Release, At, db, hist
<1>2. \A ch : NextThanks(c, ch) => m.pc \in {"pipeline", "claim"}
      BY NextThanksIs
<1>3. CASE Claim(c)
  <2>1. m.pc \in {"send", "pipeline", "claim"}
        BY <1>2, <1>3, ClaimIs DEF Goes
  <2>2. /\ row'[k.d].intent = row[k.d].intent
        /\ \A ch \in Channels : row[k.d].sent[ch] => row'[k.d].sent[ch]
        BY <1>1, <1>3, ClaimIs
  <2>3. QED BY <1>1, <2>1, <2>2, PlainLasting
<1>4. CASE Send(c, ok)
  <2>1. row' = row
        BY <1>4 DEF Send, db
  <2>2. m.pc \in {"pipeline", "claim"} \/ (m.pc = "release" /\ "send" \in Faults)
        BY <1>2, <1>4, SendIs, GotoIs DEF Goes
  <2>3. QED BY <1>1, <2>1, <2>2 DEF Lasting
<1>5. CASE Release(c)
  <2>1. /\ k.pc = "release" /\ m.pc \in {"pipeline", "claim"}
        /\ row'[k.d].intent = row[k.d].intent
        BY <1>1, <1>2, <1>5, ReleaseIs
  <2>2. QED BY <1>1, <2>1 DEF Lasting
<1>6. QED BY <1>3, <1>4, <1>5

\* The writes of a status or an entity: the flags a callback writes back come with a status
\* that is not "completed".
LEMMA WriteLasting ==
    ASSUME TypeOK, NEW c \in Calls, NEW ok \in BOOLEAN,
           Write(c) \/ AlfalahHandshake(c, ok) \/ SaveEntity(c)
    PROVE  Lasting(c)
<1> DEFINE k == call[c]
           m == call'[c]
<1>1. UNCHANGED <<stage, settled, enrolled, crashed>> /\ k.d \in Donations
      BY DEF TypeOK, Call, Write, AlfalahHandshake, SaveEntity, hist
<1>2. CASE Write(c)
  <2>1. k.pc = "write" /\ m.pc \in {"recheck", "done", "pipeline", "batch", "activate"}
        BY <1>2, WriteIs, NextPlaces DEF Goes
  <2>2. /\ row'[k.d].status = "completed" => row'[k.d].sent = row[k.d].sent
        /\ row'[k.d].intent = row[k.d].intent
        /\ m.pc = AfterWrite(k)
        BY <1>2, WriteIs DEF Goes
  <2>3. QED BY <1>1, <2>1, <2>2 DEF Lasting
<1>3. CASE AlfalahHandshake(c, ok)
  <2>1. /\ k.pc = "invoice" /\ m.pc = "done" /\ row'[k.d].status = "pending"
        /\ row'[k.d].intent = row[k.d].intent
        BY <1>1, <1>3, FieldIs
  <2>2. QED BY <1>1, <2>1, PlainLasting
<1>4. CASE SaveEntity(c)
  <2>1. k.pc = "save" /\ m.pc = "done" /\ row'[k.d].status = k.saved.status
        BY <1>4, FieldIs
  <2>2. QED BY <1>1, <2>1 DEF Lasting
<1>5. QED BY <1>2, <1>3, <1>4

\* The ledger, the intent, the donor.
LEMMA EffectLasting ==
    ASSUME TypeOK, NEW c \in Calls, NEW ok \in BOOLEAN,
           Settle(c, ok) \/ Promote(c) \/ MarkIntent(c) \/ SaveDonor(c)
    PROVE  Lasting(c)
<1> DEFINE k == call[c]
           m == call'[c]
<1>1. k.d \in Donations /\ DonorOf[k.d] \in Donors
      BY ConstantsAssumption DEF TypeOK, Call
<1>2. \A pc : Goto(c, pc) => m.pc = pc
      BY GotoIs DEF Goes
<1>3. CASE Settle(c, ok)
  <2>1. /\ UNCHANGED <<row, stage, enrolled, crashed>> /\ k.pc = "ledger" /\ m.pc = "thanks"
        /\ settled' \in {settled, settled \union {k.d}}
        BY <1>2, <1>3 DEF Settle, At, hist
  <2>2. QED BY <2>1 DEF Lasting
<1>4. CASE Promote(c)
  <2>1. /\ UNCHANGED <<row, settled, enrolled, crashed>> /\ k.pc = "promote"
        /\ m.pc \in {"activate", "batch", "invoice", "done"}
        /\ stage' = [stage EXCEPT ![DonorOf[k.d]] = "donor"]
        BY <1>2, <1>4, NextPlaces DEF Promote, At, hist
  <2>2. /\ stage'[DonorOf[k.d]] = "donor"
        /\ \A p \in Donors : p # DonorOf[k.d] => stage'[p] = stage[p]
        BY <1>1, <2>1 DEF TypeOK
  <2>3. QED BY <2>1, <2>2 DEF Lasting
<1>5. CASE SaveDonor(c)
  <2>1. /\ UNCHANGED <<row, settled, enrolled, crashed>> /\ k.pc = "saveDonor"
        /\ m.pc \in {"batch", "done", "ledger"}
        /\ stage' = [stage EXCEPT ![DonorOf[k.d]] = k.stage]
        BY <1>2, <1>5, NextPlaces DEF SaveDonor, At, hist
  <2>2. \A p \in Donors : p # DonorOf[k.d] => stage'[p] = stage[p]
        BY <1>1, <2>1 DEF TypeOK
  <2>3. QED BY <2>1, <2>2 DEF Lasting
<1>6. CASE MarkIntent(c)
  <2>1. /\ UNCHANGED <<stage, settled, crashed>> /\ k.pc = "markIntent" /\ m.pc = "saveDonor"
        /\ enrolled' = [enrolled EXCEPT ![k.d] = @ + 1]
        BY <1>2, <1>6 DEF MarkIntent, At
  <2>2. enrolled'[k.d] > 0 /\ \A e \in Donations : enrolled[e] > 0 => enrolled'[e] > 0
        BY <1>1, <2>1 DEF TypeOK
  <2>3. row'[k.d].sent = row[k.d].sent /\ row'[k.d].intent = "activated"
        BY <1>1, <1>6, FieldIs
  <2>4. QED BY <2>1, <2>2, <2>3 DEF Lasting
<1>7. QED BY <1>3, <1>4, <1>5, <1>6

\* Every step.
LEMMA StepLasting ==
    ASSUME TypeOK, NEW c \in Calls, Step(c)
    PROVE  Lasting(c)
<1>1. "pending" \in Status /\ TRUE \in BOOLEAN
      BY DEF Status
<1>2. CASE \/ Query(c) \/ (\E ok \in BOOLEAN : Abandon(c, ok)) \/ Reread(c)
           \/ Activate(c) \/ ThanksRead(c)
           \/ \E to \in Status, ok \in BOOLEAN : Charge(c, to, ok)
      BY <1>1, <1>2, LocalLasting
<1>3. CASE Claim(c) \/ (\E ok \in BOOLEAN : Send(c, ok)) \/ Release(c)
      BY <1>1, <1>3, ThanksLasting
<1>4. CASE Write(c) \/ SaveEntity(c) \/ \E ok \in BOOLEAN : AlfalahHandshake(c, ok)
      BY <1>1, <1>4, WriteLasting
<1>5. CASE Promote(c) \/ MarkIntent(c) \/ SaveDonor(c) \/ \E ok \in BOOLEAN : Settle(c, ok)
      BY <1>1, <1>5, EffectLasting
<1>6. CASE \/ Recheck(c) \/ BatchCheck(c) \/ FindPledge(c) \/ CheckPledge(c) \/ InsertPledge(c)
           \/ PledgeFails(c) \/ PipelineCheck(c)
           \/ \E ok \in BOOLEAN : Allocate(c, ok) \/ RegisterInvoice(c, ok) \/ TokenOrManual(c, ok)
      BY <1>1, <1>6, MoveLasting
<1>7. QED BY <1>2, <1>3, <1>4, <1>5, <1>6 DEF Step

\* The statements before the thanks.
ForLedger == Pledging \union {"recheck", "batch", "allocate", "ledger"}

\* The statements between the ledger and the donor's stage.
ForStage == {"thanks", "claim", "send", "release"} \union Promoting

\* A call that is still to try a channel.
Awaits(k, d, ch) ==
    /\ k.d = d /\ ch \in k.todo
    /\ \/ k.pc = "claim"
       \/ k.pc = "send" /\ NextChannel(k.todo) # ch

\* A handler at work on a paid donation goes through the ledger, the thanks and the stage.
Pressing(c) ==
    LET k == call[c]
        m == call'[c]
        d == k.d
    IN  /\ Successful(row[d].status) /\ k.kind \in Serving =>
              /\ k.pc \in ForLedger =>
                    \/ m.pc \in ForLedger
                    \/ m.pc = "thanks" /\ (d \in Linked => d \in settled' \/ "ledger" \in Faults)
              /\ k.pc \in ForStage \ {"promote"} => m.pc \in ForStage
              /\ k.pc = "thanks" =>
                    \A ch \in Contact[d] : Eligible(d, row[d]) /\ ~row[d].sent[ch] => Awaits(m, d, ch)
        /\ \A ch \in Channels :
              Awaits(k, d, ch) => Awaits(m, d, ch) \/ row'[d].sent[ch] \/ m.pc = "release"

\* Before the thanks.
LEMMA LedgerPressing ==
    ASSUME TypeOK, NEW c \in Calls, NEW ok \in BOOLEAN,
           \/ Recheck(c) \/ BatchCheck(c) \/ Allocate(c, ok) \/ FindPledge(c) \/ CheckPledge(c)
           \/ InsertPledge(c) \/ PledgeFails(c) \/ MarkIntent(c) \/ SaveDonor(c) \/ Activate(c)
           \/ Settle(c, ok)
    PROVE  Pressing(c)
<1> DEFINE k == call[c]
           m == call'[c]
           d == k.d
<1>1. k.pc \in ForLedger
      BY DEF Recheck, BatchCheck, Allocate, FindPledge, CheckPledge, InsertPledge, PledgeFails,
             MarkIntent, SaveDonor, Activate, Settle, At, ForLedger, Pledging
<1>2. ASSUME Successful(row[d].status), k.kind \in Serving
      PROVE  \/ m.pc \in ForLedger
             \/ m.pc = "thanks" /\ (d \in Linked => d \in settled' \/ "ledger" \in Faults)
  <2>1. AfterBatch(k) = "activate" /\ AfterActivate(k) = "ledger"
        BY <1>2 DEF Serving, Reporting, AfterBatch, AfterActivate
  <2>2. \A pc : Goto(c, pc) => m.pc = pc
        BY GotoIs DEF Goes
  <2>3. CASE Recheck(c) \/ BatchCheck(c) \/ Allocate(c, ok) \/ FindPledge(c)
    <3>1. m.pc \in {"activate", "allocate", "markIntent", "checkPledge"}
          BY <1>2, <2>1, <2>2, <2>3 DEF Recheck, BatchCheck, Allocate, FindPledge
    <3>2. QED BY <3>1 DEF ForLedger, Pledging
  <2>4. CASE CheckPledge(c) \/ InsertPledge(c) \/ PledgeFails(c) \/ MarkIntent(c) \/ SaveDonor(c)
    <3>1. m.pc \in {"ledger", "insertPledge", "markIntent", "saveDonor"}
          BY <2>1, <2>2, <2>4 DEF CheckPledge, InsertPledge, PledgeFails, MarkIntent, SaveDonor
    <3>2. QED BY <3>1 DEF ForLedger, Pledging
  <2>5. CASE Activate(c)
    <3>1. m.pc \in {"findPledge", "ledger"}
          BY <2>1, <2>5, ActivateIs
    <3>2. QED BY <3>1 DEF ForLedger, Pledging
  <2>6. CASE Settle(c, ok)
    <3>1. m.pc = "thanks"
          BY <2>2, <2>6 DEF Settle
    <3>2. ok => settled' = IF d \in Linked THEN settled \union {d} ELSE settled
          BY <1>2, <2>6 DEF Settle
    <3>3. ok \/ "ledger" \in Faults
          BY <2>6 DEF Settle
    <3>4. d \in Linked => d \in settled' \/ "ledger" \in Faults
          BY <3>2, <3>3
    <3>5. QED BY <3>1, <3>4
  <2>7. QED BY <2>3, <2>4, <2>5, <2>6
<1>3. k.pc \notin ForStage
      BY <1>1 DEF ForStage, ForLedger, Pledging, Promoting
<1>4. k.pc \notin {"thanks", "claim", "send"}
      BY <1>3 DEF ForStage
<1>5. QED BY <1>2, <1>3, <1>4 DEF Pressing, Awaits

\* The thanks, message by message, up to the stage.
LEMMA ThanksPressing ==
    ASSUME TypeOK, NEW c \in Calls, NEW ok \in BOOLEAN,
           ThanksRead(c) \/ Claim(c) \/ Send(c, ok) \/ Release(c) \/ PipelineCheck(c)
    PROVE  Pressing(c)
<1> DEFINE k == call[c]
           m == call'[c]
           d == k.d
           next == NextChannel(k.todo)
<1>1. d \in Donations /\ Contact[d] \subseteq Channels
      BY ConstantsAssumption DEF TypeOK, Call
<1>2. ASSUME NEW ch, NextThanks(c, next), Awaits(k, d, ch), ch # next
      PROVE  Awaits(m, d, ch)
  <2>1. m.d = d /\ m.todo = k.todo \ {next} /\ m.pc \in {"pipeline", "claim"}
        /\ (m.pc = "pipeline" => m.todo = {})
        BY <1>2, NextThanksIs
  <2>2. ch \in m.todo
        BY <1>2, <2>1 DEF Awaits
  <2>3. QED BY <2>1, <2>2 DEF Awaits
<1>3. CASE ThanksRead(c)
  <2>1. /\ k.pc = "thanks" /\ m.pc \in {"pipeline", "claim"} /\ m.d = d
        /\ Successful(row[d].status) /\ Eligible(d, row[d]) =>
              /\ m.todo = OpenChannels(d, row[d])
              /\ m.pc = "pipeline" => m.todo = {}
        BY <1>3, ThanksReadIs
  <2>2. ASSUME NEW ch \in Contact[d], Successful(row[d].status), Eligible(d, row[d]), ~row[d].sent[ch]
        PROVE  Awaits(m, d, ch)
    <3>1. ch \in m.todo
          BY <2>1, <2>2 DEF OpenChannels
    <3>2. QED BY <2>1, <2>2, <3>1 DEF Awaits
  <2>3. QED BY <2>1, <2>2 DEF Pressing, Awaits, ForLedger, ForStage, Pledging, Promoting
<1>4. CASE Claim(c)
  <2>1. /\ k.pc = "claim" /\ next \in Channels
        /\ \/ /\ Goes(k, m, "send")
              /\ \A e \in Donations, x \in Channels :
                    row'[e].sent[x] = ((e = d /\ x = next) \/ row[e].sent[x])
           \/ row' = row /\ row[d].sent[next] /\ NextThanks(c, next)
        BY <1>4, ClaimIs
  <2>2. m.pc \in {"send", "claim", "pipeline"}
        BY <2>1, NextThanksIs DEF Goes
  <2>3. ASSUME NEW ch \in Channels, Awaits(k, d, ch)
        PROVE  Awaits(m, d, ch) \/ row'[d].sent[ch]
    <3>1. CASE ch = next
          BY <1>1, <2>1, <3>1
    <3>2. CASE ch # next /\ Goes(k, m, "send")
          BY <2>3, <3>2 DEF Goes, Alike, Awaits
    <3>3. CASE ch # next /\ NextThanks(c, next)
          BY <1>2, <2>3, <3>3
    <3>4. QED BY <2>1, <3>1, <3>2, <3>3
  <2>4. QED BY <2>1, <2>2, <2>3 DEF Pressing, ForLedger, ForStage, Pledging, Promoting
<1>5. CASE Send(c, ok)
  <2>1. k.pc = "send" /\ (NextThanks(c, next) \/ Goto(c, "release"))
        BY <1>5, SendIs
  <2>2. m.pc \in {"release", "claim", "pipeline"} /\ (m.pc # "release" => NextThanks(c, next))
        BY <2>1, NextThanksIs, GotoIs DEF Goes
  <2>3. ASSUME NEW ch \in Channels, Awaits(k, d, ch)
        PROVE  Awaits(m, d, ch) \/ m.pc = "release"
    <3>1. ch # next
          BY <2>1, <2>3 DEF Awaits
    <3>2. QED BY <1>2, <2>2, <2>3, <3>1
  <2>4. QED BY <2>1, <2>2, <2>3 DEF Pressing, ForLedger, ForStage, Pledging, Promoting
<1>6. CASE Release(c)
  <2>1. k.pc = "release" /\ m.pc \in {"claim", "pipeline"}
        BY <1>6, ReleaseIs, NextThanksIs
  <2>2. QED BY <2>1 DEF Pressing, Awaits, ForLedger, ForStage, Pledging, Promoting
<1>7. CASE PipelineCheck(c)
  <2>1. k.pc = "pipeline" /\ (Successful(row[d].status) => m.pc = "promote")
        BY <1>7, GotoIs DEF PipelineCheck, At, Goes
  <2>2. QED BY <2>1 DEF Pressing, Awaits, ForLedger, ForStage, Pledging, Promoting
<1>8. QED BY <1>3, <1>4, <1>5, <1>6, <1>7

\* Every step.
LEMMA StepPressing ==
    ASSUME TypeOK, NEW c \in Calls, Step(c)
    PROVE  Pressing(c)
<1> DEFINE pc == call[c].pc
<1>1. TRUE \in BOOLEAN
      OBVIOUS
<1>2. CASE \/ ThanksRead(c) \/ Claim(c) \/ (\E ok \in BOOLEAN : Send(c, ok)) \/ Release(c)
           \/ PipelineCheck(c)
      BY <1>1, <1>2, ThanksPressing
<1>3. CASE \/ Recheck(c) \/ BatchCheck(c) \/ FindPledge(c) \/ CheckPledge(c) \/ InsertPledge(c)
           \/ PledgeFails(c) \/ MarkIntent(c) \/ SaveDonor(c) \/ Activate(c)
           \/ \E ok \in BOOLEAN : Allocate(c, ok) \/ Settle(c, ok)
      BY <1>1, <1>3, LedgerPressing
<1>4. ASSUME pc \in {"query", "abandon", "write", "reread", "invoice", "save", "promote"}
      PROVE  Pressing(c)
      BY <1>4 DEF Pressing, Awaits, ForLedger, ForStage, Pledging, Promoting
<1>5. CASE \/ Query(c) \/ Write(c) \/ Reread(c) \/ SaveEntity(c) \/ Promote(c)
           \/ \E ok \in BOOLEAN : \/ Abandon(c, ok) \/ TokenOrManual(c, ok)
                                  \/ AlfalahHandshake(c, ok) \/ RegisterInvoice(c, ok)
           \/ \E to \in Status, ok \in BOOLEAN : Charge(c, to, ok)
  <2>1. /\ Query(c) => pc = "query"
        /\ \A ok \in BOOLEAN : Abandon(c, ok) => pc = "abandon"
        /\ Write(c) => pc = "write"
        /\ Reread(c) => pc = "reread"
        /\ SaveEntity(c) => pc = "save"
        /\ Promote(c) => pc = "promote"
        /\ \A ok \in BOOLEAN : TokenOrManual(c, ok) \/ AlfalahHandshake(c, ok) \/ RegisterInvoice(c, ok)
              => pc = "invoice"
        /\ \A to \in Status, ok \in BOOLEAN : Charge(c, to, ok) => pc = "invoice"
        BY Zenon DEF Query, Abandon, Write, Reread, SaveEntity, Promote, TokenOrManual,
                     AlfalahHandshake, RegisterInvoice, Charge, At
  <2> HIDE DEF pc
  <2>2. pc \in {"query", "abandon", "write", "reread", "invoice", "save", "promote"}
        BY <1>5, <2>1
  <2>3. QED BY <1>4, <2>2
<1>6. QED BY <1>2, <1>3, <1>5 DEF Step

\* Every handler that brings a payment is carried through: no process dies, the ledger and
\* the senders answer, and the status comes from a payment, not from an edit, the public
\* link, a manual record or a retried checkout; a donor is told apart by the donation.
AllServed ==
    /\ Kinds \intersect {"retry", "edit", "public"} = {}
    /\ "manual" \notin Gateways
    /\ Faults \intersect {"ledger", "send"} = {}
    /\ MaxCrashes = 0
    /\ \A d, e \in Donations : DonorOf[d] = DonorOf[e] => d = e

\* Some handler of a payment of d is at one of these statements.
On(d, pcs) == \E c \in Calls : call[c].d = d /\ call[c].kind \in Serving /\ call[c].pc \in pcs

\* What a paid donation has not had is still to come.
Served(d) ==
    Successful(row[d].status) =>
        /\ d \in Linked => d \in settled \/ On(d, ForLedger)
        /\ enrolled[d] = 0 => stage[DonorOf[d]] = "donor" \/ On(d, ForLedger \union ForStage)
        /\ \A ch \in Contact[d] : Eligible(d, row[d]) /\ ~row[d].sent[ch] =>
              \/ On(d, ForLedger \union {"thanks"})
              \/ \E c \in Calls : Awaits(call[c], d, ch)

Carried ==
    /\ crashed = {}
    /\ \A c \in Calls : /\ call[c].pc # "release"
                        /\ call[c].pc = "saveDonor" => enrolled[call[c].d] > 0
    /\ \A d \in Donations : Served(d)

\* What is to come for another donation does not depend on the call that moves.
LEMMA ServedElsewhere ==
    ASSUME Carried, NEW c \in Calls, NEW e \in Donations, e # call[c].d, Alone(c),
           row'[e] = row[e], enrolled'[e] = enrolled[e], e \in settled' <=> e \in settled,
           stage'[DonorOf[e]] = stage[DonorOf[e]]
    PROVE  Served(e)'
<1>1. \A b \in Calls : call[b].d = e => call'[b] = call[b]
      BY DEF Alone
<1>2. \A pcs : On(e, pcs) => \E b \in Calls : call'[b].d = e /\ call'[b].kind \in Serving /\ call'[b].pc \in pcs
      BY <1>1 DEF On
<1>3. On(e, ForLedger) => On(e, ForLedger)'
      BY <1>2 DEF On, ForLedger, Pledging
<1>4. On(e, ForLedger \union ForStage) => On(e, ForLedger \union ForStage)'
      BY <1>2 DEF On
<1>5. On(e, ForLedger \union {"thanks"}) => On(e, ForLedger \union {"thanks"})'
      BY <1>2 DEF On
<1>6. \A ch : (\E b \in Calls : Awaits(call[b], e, ch)) => \E b \in Calls : Awaits(call'[b], e, ch)
  <2>1. \A ch : \A b \in Calls : Awaits(call[b], e, ch) => call'[b] = call[b]
        BY <1>1 DEF Awaits
  <2>2. QED BY <2>1
<1>7. Eligible(e, row[e])' = Eligible(e, row[e])
      BY DEF Eligible
<1>8. Served(e)
      BY DEF Carried
<1>9. QED BY <1>3, <1>4, <1>5, <1>6, <1>7, <1>8 DEF Served

\* A step of a call serves its own donation on.
LEMMA ServedHere ==
    ASSUME TypeOK, TypeOK', Placed, AllServed, Carried, NEW c \in Calls, NEW d \in Donations,
           d = call[c].d, Framed(c), Lasting(c), Pressing(c)
    PROVE  Served(d)'
<1> DEFINE k == call[c]
           m == call'[c]
           p == DonorOf[d]
<1>1. SUFFICES ASSUME Successful(row'[d].status)
               PROVE  /\ d \in Linked => d \in settled' \/ On(d, ForLedger)'
                      /\ enrolled'[d] = 0 =>
                            stage'[p] = "donor" \/ On(d, ForLedger \union ForStage)'
                      /\ \A ch \in Contact[d] : Eligible(d, row[d])' /\ ~row'[d].sent[ch] =>
                            \/ On(d, ForLedger \union {"thanks"})'
                            \/ \E b \in Calls : Awaits(call'[b], d, ch)
      BY DEF Served, Successful
<1>2. /\ Active(k) /\ Alone(c) /\ p \in Donors /\ Contact[d] \subseteq Channels
      /\ k.kind \in Kinds \union {"charge"} /\ PathOK(k) /\ EntityOK(k)
      /\ k.kind \in AllKinds \union {"charge"}
      BY ConstantsAssumption DEF TypeOK, Call, Framed, Placed, PlaceOK
<1>3. k.kind \in {"create", "cron"} \union Serving
      BY <1>2 DEF AllServed, AllKinds, Serving, Reporting
<1>4. /\ \A b \in Calls : b # c => call'[b] = call[b]
      /\ Active(m) => m.d = d /\ (k.pc # "invoice" => m.kind = k.kind)
      BY <1>2 DEF Alone, Framed, Continues
<1>5. k.pc # "release" /\ m.pc # "release"
      BY DEF Carried, Lasting, AllServed
<1>6. k.pc \in {"write", "ledger", "thanks", "claim", "send", "recheck"} => k.kind \in Serving
      BY <1>2, <1>3 DEF PathOK, Promoting, Pledging, Serving
<1>7. ASSUME NEW pcs, k.kind \in Serving, k.pc # "invoice", m.pc \in pcs, Active(m)
      PROVE  \E b \in Calls : call'[b].d = d /\ call'[b].kind \in Serving /\ call'[b].pc \in pcs
      BY <1>4, <1>7
<1>8. /\ ForLedger' = ForLedger /\ ForStage' = ForStage
      /\ \A pc \in ForLedger \union ForStage : pc \notin {"idle", "done", "invoice", "save", "write"}
      BY DEF ForLedger, ForStage, Pledging, Promoting
<1>9. ASSUME k.kind \in Serving, k.pc # "invoice", m.pc \in ForLedger
      PROVE  /\ On(d, ForLedger)' /\ On(d, ForLedger \union ForStage)'
             /\ On(d, ForLedger \union {"thanks"})'
  <2>1. Active(m)
        BY <1>8, <1>9 DEF Active
  <2>2. \E b \in Calls : call'[b].d = d /\ call'[b].kind \in Serving /\ call'[b].pc \in ForLedger
        BY <1>7, <1>9, <2>1
  <2>3. QED BY <1>8, <2>2 DEF On
<1>10. CASE row[d].status # "completed"
  <2>1. Writes(k, m, "completed")
        BY <1>1, <1>10 DEF Framed, Successful
  <2>2. k.pc # "save"
    <3>1. k.pc = "save" => k.kind = "create" /\ k.saved.status = "completed"
          BY <1>2, <1>3, <2>1 DEF Writes, PathOK, Serving, Reporting, Promoting, Pledging, Thanking, Answering
    <3>2. k.kind = "create" => k.saved.status = "pending"
          BY <1>2 DEF EntityOK, AllServed
    <3>3. QED BY <3>1, <3>2
  <2>3. k.pc = "write" /\ k.to = "completed"
        BY <2>1, <2>2 DEF Writes
  <2>4. k.kind \in Serving /\ m.pc = AfterWrite(k)
        BY <1>6, <2>3 DEF Lasting
  <2>5. AfterWrite(k) \in {"recheck", "batch", "activate"}
        BY <2>3, <2>4 DEF AfterWrite, Serving, Reporting, Successful
  <2>6. m.pc \in ForLedger
        BY <2>4, <2>5 DEF ForLedger, Pledging
  <2>7. QED BY <1>9, <2>3, <2>4, <2>6
<1>11. CASE row[d].status = "completed"
  <2>1. Successful(row[d].status)
        BY <1>11 DEF Successful
  <2>2. k.pc # "save"
    <3>1. k.pc = "save" => k.saved.status = "completed"
          BY <1>1 DEF Lasting, Successful
    <3>2. k.pc = "save" => k.kind = "create"
          BY <1>2, <1>3 DEF PathOK, Serving, Reporting, Promoting, Pledging, Thanking, Answering
    <3>3. k.kind = "create" => k.saved.status = "pending"
          BY <1>2 DEF EntityOK, AllServed
    <3>4. QED BY <3>1, <3>2, <3>3
  <2>3. /\ d \in Linked => d \in settled \/ On(d, ForLedger)
        /\ enrolled[d] = 0 => stage[p] = "donor" \/ On(d, ForLedger \union ForStage)
        /\ \A ch \in Contact[d] : Eligible(d, row[d]) /\ ~row[d].sent[ch] =>
              \/ On(d, ForLedger \union {"thanks"})
              \/ \E b \in Calls : Awaits(call[b], d, ch)
        BY <2>1 DEF Carried, Served
  <2>4. ASSUME k.kind \in Serving, k.pc \in ForLedger
        PROVE  /\ k.pc # "invoice"
               /\ \/ m.pc \in ForLedger
                  \/ /\ m.pc = "thanks" /\ (d \in Linked => d \in settled')
                     /\ On(d, ForLedger \union {"thanks"})' /\ On(d, ForLedger \union ForStage)'
    <3>1. k.pc # "invoice"
          BY <1>8, <2>4
    <3>2. \/ m.pc \in ForLedger
          \/ m.pc = "thanks" /\ (d \in Linked => d \in settled')
          BY <2>1, <2>4 DEF Pressing, AllServed
    <3>3. ASSUME m.pc = "thanks"
          PROVE  On(d, ForLedger \union {"thanks"})' /\ On(d, ForLedger \union ForStage)'
      <4>1. \E b \in Calls : call'[b].d = d /\ call'[b].kind \in Serving /\ call'[b].pc = "thanks"
            BY <1>4, <2>4, <3>1, <3>3 DEF Active
      <4>2. QED BY <1>8, <4>1 DEF On, ForStage
    <3>4. QED BY <3>1, <3>2, <3>3
  <2>5. d \in Linked => d \in settled' \/ On(d, ForLedger)'
    <3> SUFFICES ASSUME d \in Linked, d \notin settled
                 PROVE  d \in settled' \/ On(d, ForLedger)'
        BY DEF Lasting
    <3>1. PICK b \in Calls : call[b].d = d /\ call[b].kind \in Serving /\ call[b].pc \in ForLedger
          BY <2>3 DEF On
    <3>2. CASE b # c
          BY <1>4, <1>8, <3>1, <3>2 DEF On
    <3>3. CASE b = c
          BY <1>9, <2>4, <3>1, <3>3
    <3>4. QED BY <3>2, <3>3
  <2>6. enrolled'[d] = 0 => stage'[p] = "donor" \/ On(d, ForLedger \union ForStage)'
    <3> SUFFICES ASSUME enrolled'[d] = 0
                 PROVE  stage'[p] = "donor" \/ On(d, ForLedger \union ForStage)'
        OBVIOUS
    <3>1. enrolled[d] = 0
      <4>1. enrolled[d] \in Nat
            BY DEF TypeOK
      <4>2. ~(enrolled[d] > 0)
            BY DEF Lasting
      <4>3. QED BY <4>1, <4>2
    <3>2. k.pc # "saveDonor"
          BY <3>1 DEF Carried
    <3>3. CASE stage[p] = "donor"
          BY <3>2, <3>3 DEF Lasting
    <3>4. CASE On(d, ForLedger \union ForStage)
      <4>1. PICK b \in Calls : /\ call[b].d = d /\ call[b].kind \in Serving
                               /\ call[b].pc \in ForLedger \union ForStage
            BY <3>4 DEF On
      <4>2. CASE b # c
            BY <1>4, <1>8, <4>1, <4>2 DEF On
      <4>3. CASE b = c /\ k.pc \in ForLedger
            BY <1>9, <2>4, <4>1, <4>3
      <4>4. CASE b = c /\ k.pc = "promote"
            BY <4>4 DEF Lasting
      <4>5. CASE b = c /\ k.pc \in ForStage \ {"promote"}
        <5>1. m.pc \in ForStage
              BY <2>1, <4>1, <4>5 DEF Pressing
        <5>2. k.pc # "invoice" /\ Active(m)
              BY <1>8, <4>5, <5>1 DEF Active
        <5>3. QED BY <1>4, <1>8, <4>1, <4>5, <5>1, <5>2 DEF On
      <4>6. QED BY <4>1, <4>2, <4>3, <4>4, <4>5
    <3>5. QED BY <2>3, <3>1, <3>3, <3>4
  <2>7. ASSUME NEW ch \in Contact[d], Eligible(d, row[d])', ~row'[d].sent[ch]
        PROVE  \/ On(d, ForLedger \union {"thanks"})'
               \/ \E b \in Calls : Awaits(call'[b], d, ch)
    <3>1. CASE k.pc = "ledger"
      <4>1. k.kind \in Serving /\ k.pc \in ForLedger
            BY <1>6, <3>1 DEF ForLedger
      <4>2. QED BY <1>9, <2>4, <4>1
    <3>2. CASE k.pc # "ledger"
      <4>1. settled' = settled /\ (row'[d].intent = "enroll" => row[d].intent = "enroll")
            BY <2>2, <3>2 DEF Lasting
      <4>2. Eligible(d, row[d])
            BY <2>7, <4>1 DEF Eligible
      <4>3. ch \in Channels /\ ~row[d].sent[ch]
            BY <1>1, <1>2, <1>5, <2>2, <2>7 DEF Lasting, Successful
      <4>4. CASE On(d, ForLedger \union {"thanks"})
        <5>1. PICK b \in Calls : /\ call[b].d = d /\ call[b].kind \in Serving
                                 /\ call[b].pc \in ForLedger \union {"thanks"}
              BY <4>4 DEF On
        <5>2. CASE b # c
              BY <1>4, <1>8, <5>1, <5>2 DEF On
        <5>3. CASE b = c /\ k.pc \in ForLedger
              BY <1>9, <2>4, <5>1, <5>3
        <5>4. CASE b = c /\ k.pc = "thanks"
              BY <2>1, <4>2, <4>3, <5>1, <5>4 DEF Pressing
        <5>5. QED BY <5>1, <5>2, <5>3, <5>4
      <4>5. ASSUME NEW b \in Calls, Awaits(call[b], d, ch)
            PROVE  \E a \in Calls : Awaits(call'[a], d, ch)
        <5>1. CASE b # c
              BY <1>4, <4>5, <5>1
        <5>2. CASE b = c
              BY <1>5, <2>7, <4>3, <4>5, <5>2 DEF Pressing
        <5>3. QED BY <5>1, <5>2
      <4>6. QED BY <2>3, <4>2, <4>3, <4>4, <4>5
    <3>3. QED BY <3>1, <3>2
  <2>8. QED BY <2>5, <2>6, <2>7
<1>12. QED BY <1>10, <1>11

\* An arrival owes nothing: a first checkout starts on a row that is not paid.
LEMMA ArriveCarried ==
    ASSUME TypeOK, AllServed, Carried, NEW c \in Calls, Arrive(c)
    PROVE  Carried'
<1> DEFINE m == call'[c]
<1>1. /\ Alone(c) /\ call[c].pc = "idle"
      /\ UNCHANGED <<stage, settled, enrolled, crashed>>
      /\ \/ Inserts(m)
         \/ Patches(m)
         \/ row' = row /\ (Active(m) => Begins(m))
      BY ArriveIs
<1>2. ~Patches(m)
      BY DEF Patches, AllServed
<1>3. \A b \in Calls : b # c => call'[b] = call[b]
      BY <1>1 DEF Alone
<1>4. m.pc \notin {"release", "saveDonor"}
  <2>1. CASE Inserts(m)
        BY <2>1, NextPlaces DEF Inserts
  <2>2. CASE Active(m) => Begins(m)
        BY <2>2 DEF Active, Begins
  <2>3. QED BY <1>1, <1>2, <2>1, <2>2
<1>5. ASSUME NEW d \in Donations, row'[d] = row[d]
      PROVE  Served(d)'
  <2>1. call[c].pc \notin ForLedger \union ForStage
        BY <1>1 DEF ForLedger, ForStage, Pledging, Promoting
  <2>2. /\ On(d, ForLedger) => On(d, ForLedger)'
        /\ On(d, ForLedger \union ForStage) => On(d, ForLedger \union ForStage)'
        /\ On(d, ForLedger \union {"thanks"}) => On(d, ForLedger \union {"thanks"})'
    <3>1. ForLedger' = ForLedger /\ ForStage' = ForStage
          BY DEF ForLedger, ForStage, Pledging, Promoting
    <3>2. "thanks" \in ForStage
          BY DEF ForStage
    <3>3. QED BY <1>3, <2>1, <3>1, <3>2 DEF On
  <2>3. \A b \in Calls, ch \in Channels : Awaits(call[b], d, ch) => b # c
        BY <1>1 DEF Awaits
  <2>4. Contact[d] \subseteq Channels
        BY ConstantsAssumption
  <2>5. \A ch \in Contact[d] :
           (\E b \in Calls : Awaits(call[b], d, ch)) => \E b \in Calls : Awaits(call'[b], d, ch)
        BY <1>3, <2>3, <2>4
  <2>6. Eligible(d, row[d])' = Eligible(d, row[d])
        BY <1>1, <1>5 DEF Eligible
  <2>7. Served(d)
        BY DEF Carried
  <2>8. QED BY <1>1, <1>5, <2>2, <2>5, <2>6, <2>7 DEF Served
<1>6. \A d \in Donations : Served(d)'
  <2>1. CASE Inserts(m)
    <3>1. /\ row' = [row EXCEPT ![m.d] = m.saved]
          /\ m.saved.status = "pending" \/ (m.gw = "manual" /\ m.gw \in Gateways)
          BY <2>1 DEF Inserts
    <3>2. m.saved.status = "pending"
          BY <3>1 DEF AllServed
    <3>3. ASSUME NEW d \in Donations
          PROVE  Served(d)'
      <4>1. CASE d = m.d
        <5>1. row'[d] = m.saved
              BY <3>1, <4>1 DEF TypeOK
        <5>2. QED BY <3>2, <5>1 DEF Served, Successful
      <4>2. CASE d # m.d
        <5>1. row'[d] = row[d]
              BY <3>1, <4>2 DEF TypeOK
        <5>2. QED BY <1>5, <5>1
      <4>3. QED BY <4>1, <4>2
    <3>4. QED BY <3>3
  <2>2. CASE row' = row
        BY <1>5, <2>2
  <2>3. QED BY <1>1, <1>2, <2>1, <2>2
<1>7. ASSUME NEW b \in Calls
      PROVE  call'[b].pc # "release" /\ (call'[b].pc = "saveDonor" => enrolled'[call'[b].d] > 0)
      BY <1>1, <1>3, <1>4 DEF Carried
<1>8. QED BY <1>1, <1>6, <1>7 DEF Carried

\* Every step serves every donation on.
LEMMA StepCarried ==
    ASSUME TypeOK, TypeOK', Placed, AllServed, Carried, NEW c \in Calls, Step(c)
    PROVE  Carried'
<1> DEFINE k == call[c]
           m == call'[c]
<1>1. Framed(c) /\ Lasting(c) /\ Pressing(c) /\ Sparing(c)
      BY StepFramed, StepLasting, StepPressing, StepSparing
<1>2. /\ Alone(c) /\ k.d \in Donations /\ DonorOf \in [Donations -> Donors]
      /\ Active(m) => m.d = k.d
      /\ \A b \in Calls : b # c => call'[b] = call[b] /\ call[b].d \in Donations
      BY <1>1, ConstantsAssumption DEF Framed, Continues, TypeOK, Call, Alone
<1>3. ASSUME NEW d \in Donations
      PROVE  Served(d)'
  <2>1. CASE d = k.d
        BY <1>1, <1>3, <2>1, ServedHere
  <2>2. CASE d # k.d
    <3>1. row'[d] = row[d] /\ enrolled'[d] = enrolled[d]
          BY <1>1, <2>2 DEF Framed, Sparing
    <3>2. d \in settled' <=> d \in settled
          BY <1>1, <2>2 DEF Lasting
    <3>3. DonorOf[d] # DonorOf[k.d] /\ DonorOf[d] \in Donors
          BY <1>2, <2>2 DEF AllServed
    <3>4. stage'[DonorOf[d]] = stage[DonorOf[d]]
          BY <1>1, <3>3 DEF Lasting
    <3>5. QED BY <1>2, <2>2, <3>1, <3>2, <3>4, ServedElsewhere
  <2>3. QED BY <2>1, <2>2
<1>4. ASSUME NEW b \in Calls
      PROVE  call'[b].pc # "release" /\ (call'[b].pc = "saveDonor" => enrolled'[call'[b].d] > 0)
  <2>1. CASE b = c
    <3>1. m.pc # "release" /\ (m.pc = "saveDonor" => enrolled'[k.d] > 0)
          BY <1>1 DEF Lasting, AllServed
    <3>2. QED BY <1>2, <2>1, <3>1 DEF Active
  <2>2. CASE b # c
    <3>1. call[b].pc # "release" /\ (call[b].pc = "saveDonor" => enrolled[call[b].d] > 0)
          BY DEF Carried
    <3>2. QED BY <1>1, <1>2, <2>2, <3>1 DEF Lasting
  <2>3. QED BY <2>1, <2>2
<1>5. crashed' = {}
      BY <1>1 DEF Lasting, Carried
<1>6. QED BY <1>3, <1>4, <1>5 DEF Carried

\* When every handler of a payment is carried through, the ledger, the thanks and the donor's
\* stage follow whatever the order of the notifications, returns, polls and staff actions,
\* and however many of them: each handler that sets a donation completed goes on to all three, and
\* none that overlaps it takes one back.
THEOREM EffectsFollow == ASSUME AllServed PROVE Spec => []EffectsComplete
<1>1. Init => Carried
  <2> SUFFICES ASSUME Init PROVE Carried
      OBVIOUS
  <2>1. \A c \in Calls : call[c].pc = "idle"
        BY DEF Init, Idle
  <2>2. \A d \in Donations : ~Successful(row[d].status)
        BY DEF Init, NoRow, Successful
  <2>3. crashed = {}
        BY DEF Init
  <2>4. QED BY <2>1, <2>2, <2>3 DEF Carried, Served
<1>2. TypeOK /\ TypeOK' /\ Placed /\ Carried /\ [Next]_vars => Carried'
  <2> SUFFICES ASSUME TypeOK, TypeOK', Placed, Carried, [Next]_vars PROVE Carried'
      OBVIOUS
  <2>1. ASSUME UNCHANGED <<row, stage, settled, enrolled, call, crashed>>
        PROVE  Carried'
        BY <2>1 DEF Carried, Served, On, Eligible
  <2>2. CASE UNCHANGED vars
        BY <2>1, <2>2 DEF vars, db, net, hist
  <2>3. CASE Customer
        BY <2>1, <2>3 DEF Customer, Attempt, db, hist
  <2>4. ASSUME NEW c \in Calls, Crash(c)
        PROVE  FALSE
    <3>1. Cardinality({}) = 0
          BY FS_EmptySet
    <3>2. crashed = {} /\ MaxCrashes = 0
          BY DEF Carried, AllServed
    <3>3. QED BY <2>4, <3>1, <3>2 DEF Crash
  <2>5. QED BY <2>2, <2>3, <2>4, ArriveCarried, StepCarried DEF Next
<1>3. Carried => EffectsComplete
  <2> SUFFICES ASSUME Carried, Quiet, NEW d \in Donations, Successful(row[d].status)
               PROVE  /\ d \in Linked => d \in settled
                      /\ enrolled[d] = 0 => stage[DonorOf[d]] = "donor"
                      /\ Eligible(d, row[d]) => OpenChannels(d, row[d]) = {}
      BY DEF EffectsComplete
  <2>1. \A c \in Calls : call[c].pc \in {"idle", "done"}
        BY DEF Quiet, Running, Carried
  <2>2. ~On(d, ForLedger) /\ ~On(d, ForLedger \union ForStage) /\ ~On(d, ForLedger \union {"thanks"})
        BY <2>1 DEF On, ForLedger, ForStage, Pledging, Promoting
  <2>3. \A ch : \A c \in Calls : ~Awaits(call[c], d, ch)
        BY <2>1 DEF Awaits
  <2>4. Served(d)
        BY DEF Carried
  <2>5. QED BY <2>2, <2>3, <2>4 DEF Served, OpenChannels
<1>4. QED BY <1>1, <1>2, <1>3, TypeCorrect, CallsArePlaced, PTL DEF Spec

=============================================================================
