# A TLA+ model of the ERP back end's core

The repository is a NestJS application on TypeORM and PostgreSQL: about 1,200
TypeScript files that serve a charity's web site, its donors and its staff. Most
of it creates, edits and lists rows. The parts with a logic of their own are
money and work in progress: donations that gateways report at any moment, the
recurring ledger that turns them into installments, the Stripe subscriptions beside
it, the batches that group donations for delivery and the trackers that report on
them, the daily run that reminds and thanks recurring donors, the tasks of the
staff, and the records staff collect without a network and upload later. Those parts are what these modules model.

Paths below are relative to `src/src/`.

## How the program runs

One Node.js process (or several behind a balancer) serves HTTP requests, gateway
notifications and cron ticks. A handler runs alone until it awaits; at every
`await` any other handler may run. The database gives the atomicity of one
statement. Of the handlers modelled here only the allocation into batches opens a
transaction and locks rows (PostgreSQL's READ COMMITTED); everywhere else *check,
then act* spans two statements, and `repository.save(entity)` writes what a handler
has held since it read the row.

The models take this literally. A **call** is one handler invocation, with a
program counter and the locals it will use later. One action is the code from one
`await` to the next: at most one statement, with the decisions that follow from
its result.

## Inventory

| Component | State it keeps | Operations | What is hard | What makes it correct |
|---|---|---|---|---|
| Donation payments (`donations/donations.service.ts`) | status, method, sent flags and enrolment intent of a donation | checkout, retry, notifications of six gateways, returns, polls, staff edits, cron | all of them race on one row; late, repeated and reordered notifications; sends fail; a handler dies | a paid donation has every effect, and each once; final states stay; no channel is thanked twice |
| Pledge enrolment (`dms/manual_recurring/manual-recurring.service.ts`) | pledges of a donor, the donor's recurring flag | find or create, staff create, update and remove | check and insert are two statements; the flag is computed from a count | an activated intent has a pledge, a donor has one; the flag follows the pledges |
| Donor pipeline (`dms/donor/donor.service.ts`) | the donor's stage | promotion after a payment; whole-entity saves | a stale save undoes a promotion | donors of completed donations are `donor` |
| Recurring donation ledger (`donations/recurring_donations/recurring-donations-ledger.service.ts` and the `*.util.ts` beside it) | subscription, installment rows by period | subscribe, record a payment, view, mark by staff, remind | period arithmetic at month ends; look-up then insert; payments recorded late | one credit per donation; oldest due first; prepaid coverage exact and credited in full |
| Stripe ledger (`.../recurring-donations-stripe.service.ts`) | master row, installments, keyed by Stripe ids | webhook events | events reordered, repeated, lost with a process; an event id stored in two kinds of row | an invoice yields one installment after it was paid; the status follows Stripe's |
| Progress batches (`progress_tracking/progress_batches`) | batches of parts, allocations | allocate under row locks, close, open the next | concurrent donations fill one batch, wait for each other, fail half-way | no part given twice, no batch overfilled, nothing counted that was rolled back |
| Progress trackers (`progress_tracking/progress_trackers`) | trackers, their step rows, an overall status | create, synchronise with batches, report a step, propagate it in the batch | staff and payments act on one batch; read then write | every batch of a donation has its steps, once; a final step is not overwritten from elsewhere; the overall status adds up |
| Scheduled jobs (`crons/`) | none | enrolment, gateway poll, reminders, cleanup, aggregates | a job acts on rows it read minutes ago | no job undoes a payment or a reminder's record |
| Pledge reminders (`dms/manual_recurring/manual-recurring-reminder.service.ts`) | the period reminded and thanked for, link donations | the due run, forced or daily | overlap with payments, staff and the cleanup; partial failure | one reminder and one open link per period, one thanks per donation, nobody left out |
| Tasks (`tasks/`) | status, checklist, approval record, recurrence | user transitions, approval, progress, three crons | requests and crons save whole rows they read earlier | approved by everybody, decisions and checklist kept, every occurrence created, none skipped |
| Offline sync (`dms/offline-sync`) and donation boxes (`dms/donation_box`) | donors, donations, collections; a box with its statistics | upload a batch; record a collection, count, assign, archive | an upload is repeated when its answer is lost; actions refer to one another; one of them fails; box rows are saved whole | repeats are accounted for, a row belongs to whom it was entered for, nothing is dropped, the box counts right |
| Aid, appeals, campaigns, reconciliation, portals, content, accounts, procurement, store, programs, dashboards, authentication | rows with a status field | single-row requests, queries | little: one request, one row | not modelled, see below |

`PROJECT.json` lists every component with its sources and what is left out, and
every hazard with the line where it bites.

How they interact: a checkout inserts a donation, may enrol a pledge, allocates
batches and asks a gateway for an invoice. The gateway notifies; the handler
writes the status and, when it is `completed`, runs the effects in order:
batches (and with them trackers),
`activateManualRecurringAfterSuccessfulPayment`,
`recordNonStripeInstallmentFromDonation` (the ledger), thanks by WhatsApp then
email, and the donor's stage. Polls, returns and staff edits run the same
sequence on the same rows. The ledger opens dues when a payment is recorded, when
staff look at a subscription, and when the reminder job reaches it. Stripe's
webhook completes the first donation and then hands every event to the Stripe ledger.
The due run creates link donations, which are paid like any other; the nightly cleanup
archives donations that stayed open. Staff who work without a network upload what
they entered as one batch, which goes through the handlers of donors, donations and box
collections one action after the other.

## Modules

| Module | Models | Composed with |
|---|---|---|
| `DonationPayments` | the life of a donation | steps stand for the ledger and the batches |
| `RecurringCalendar` | dates and periods, pure | extended by `RecurringLedger` |
| `RecurringLedger` | subscription and installments | |
| `PartAllocation` | abstract: parts of batches are given out atomically | implemented by `ProgressBatches` |
| `ProgressBatches` | the allocation transaction | extended by `ProgressTrackers` |
| `ProgressTrackers` | trackers, step reports, and the calls that allocate | |
| `InvoiceBook` | abstract: paid invoices are entered once | implemented by `StripeLedger` |
| `StripeLedger` | the Stripe webhook and its rows | |
| `TaskWorkflow` | requests on one task and its approval record | extended by `Tasks` |
| `Tasks` | the same task under the crons | |
| `PledgeReminders` | the due run, payments of links, cleanup, staff | |
| `OfflineSync` | uploads of a device, and the box beside them | steps stand for donor and donation handlers |
| `MC*` | the instances TLC checks | |
| `*Proofs` | theorems, one module per proved component (the batches are proved about beside the trackers); `PledgeReachingProofs` goes on from `PledgeRemindersProofs` with whom a run reaches | |

### DonationPayments

The life of donations, with the pledge and the donor as far as payments touch them.

- `row` is the donations table: `status`, `sent` (`message_sent`, `email_sent`),
  `intent` (`manual_recurring_intent`: none, to enrol, activated) and `method`.
  `stage`, `pledges` and `allocated` are the donor's pipeline stage, the active
  pledges and the batch allocations; `settled` says which donations the ledger
  has an installment for.
- `issued` and `notes` are the gateways: they hold open invoices and have posted
  outcomes. Notes are never consumed, so they arrive late, repeatedly, in any
  order or never. Once paid, an invoice takes no further attempt.
- `call[c]` keeps `seen` (the row as it was read), `saved` (the entity a checkout
  holds from insert to save), `stage` (the donor as the activation read it) and
  `todo` (channels still to try).
- `thanked`, `abandoned`, `reverted` and `enrolled` are history, for properties only.
- Arrivals (`Create`, `Retry`, one action per gateway handler, `Return`, `Poll`,
  `UpdateStatusAction`, `EditDonation`, `UpdateFromPublic`, `Cron`) are each
  handler up to the first await after its read. The steps after that are shared
  because the code shares them; `AfterWrite`, `AfterBatch`, `AfterActivate` and
  `AfterPipeline` say which step each handler takes next.
- `Crash` kills a call between any two steps. Failing sends, invoices, pledge
  statements, ledger and batch calls are enabled by `Faults`.

### RecurringCalendar

The dates and periods the ledger computes with, as pure functions on numbered
days: period keys, listing periods from a start date, prepaid coverage, start
dates for each billing mode, billing and early-reminder days. Day 1 is a Monday
and the first of the first month; `MonthLength` gives the calendar. The quirks of
the code are kept: adding a month to the 31st overflows into the month after (as
JavaScript's `Date` does), clamping is used elsewhere, a listing runs against the
15th of a month and goes on a day past it, 36 keys are listed at most. A listing is
written by the step its loop ends with (`LastStep`). The calendar has finitely many months,
as many as the plans of an instance need (`ReachAssumption`).

### RecurringLedger

One subscription that no gateway charges by itself, and the calls on it.

- `sub` is the subscription's plan, sign-up day, start date and covered periods;
  `rows` the installments in the order of their ids, with the key that says who
  paid them (`stripe_invoice_id`, unique); `paid` the completed donations.
- `Record` is `recordNonStripeInstallmentFromDonation`, `View` is `findOne`,
  `Mark` is `markInstallmentsPaid`, `Remind` is the reminder job's part
  that reaches the ledger. They go through `Exists`, the prepaid loop
  (`settlePrepaidPeriodsFromDonation`), `Dues`/`Open`
  (`ensurePeriodDuesForSubscription`) and `PickOldest`/`Settle`.
- `overlapped` is history: whether two calls ever ran at once. It separates what
  the code guarantees in every interleaving from what it guarantees only when
  calls come one after another.
- `DonationPayments` has this as the single step `Settle`: a donation the ledger
  finds a subscription for becomes settled.

### PartAllocation, ProgressBatches

`allocateDonationIntoBatches`: a donation asks one workflow template for parts, which
are handed out in numbered batches.

- A batch row has two versions, `batch` (newest, of the transaction that holds
  `lock`) and `base` (committed); `rows` are the allocations, those not committed
  included; `tx` are the transactions. One action is one statement at READ COMMITTED.
- `Begin`; `Select` (`SELECT ... FOR UPDATE` of the open batches, by the snapshot)
  and `Lock` (one row after another, looked at again as it is then); `Number` (the
  highest number plus one) and `Insert` of a batch; `Take` (parts of the batch in
  hand, closing it when full); `Commit`. Two transactions that insert the same number
  meet at the unique index: the second waits, and fails with `Duplicate` when the first
  commits. `BreakDeadlock` is the server's choice of a victim when they wait for each
  other; `Disconnect` a connection lost anywhere. Both roll back.
- `PartAllocation` is the promise: a request gets all its parts in one step, or none,
  and the parts of a batch go out one after the other. `AllocatesParts` says that the
  committed allocations implement it.

### ProgressTrackers

The trackers over those batches.

- `trackers` and `steps` are the tables; the identity of a step row is its tracker,
  batch (0 for the placeholder before payment), step key and the call that inserted it.
- A call is a donation created with or without a tracker (`Create`, `New`), a payment
  (`Paid`: the check outside the transaction, the allocation, then for each batch look up
  and insert of the missing steps, then the archiving of placeholders), extra parts
  (`More`) or a step report (`Update`: write the row, propagate to the same step of the
  other donations of the batch, recompute each tracker's overall status, notify).
- `overlapped`, `raced` and `grown` are history: on which donations two calls ran
  at once, whether an update ran beside another call, which trackers have got
  steps no update has counted.
- `Crash` kills a call; its open transaction is rolled back.

### InvoiceBook, StripeLedger

One Stripe subscription and its rows.

- `mode`, `sub`, `invoice` and `posted` are Stripe: how the donor pays first
  (checkout session or embedded payment), the subscription's status, its invoices,
  and the events in the order Stripe produced them. `Stripe` follows Stripe's life of
  a subscription: opening, renewal, failure, update, cancellation.
- `completed` and `isSub` are the donation, `masters` and `installments` the rows of
  `recurring_donations`. The columns for event and invoice are unique over both.
- `Deliver` hands any posted event to a call, at any time and again. Whatever a handler
  throws is caught and answered 200; only a death leaves an event unanswered.
- `InvoiceBook` says that a paid invoice is entered once and never changed;
  `KeepsBook` says that the installments implement it.
- `upto` and `disorder` are history: whether the events came one by one and in order.

### TaskWorkflow, Tasks

One task, its approval record, and the crons.

- `task` is the row: status, checklist (`mov_assignments`), ticks
  (`last_progress_notes`), next date, count and the overdue mark. `approval` is the
  row of `task_approvals` with everybody's decision.
- Requests are `update`, `transition`, `assign`, `reassign`, `approve`, `complete` and
  `progress`; each loads the row, checks and changes its copy, and saves it, some
  statements later, whole. An assignee is shown only his own items, and what
  `complete`, `approve` and `reassign` were shown is what they save.
- Crons run at one (overdue mail), at two (the occurrences of a recurring task) and
  every hour in the afternoon (completion on the eve of the next occurrence). `Clock`
  moves on; a server that is down misses a cron.
- The run at two goes through all recurring tasks in no order, and what one of them throws
  ends it. `dated` tasks throw; `beside` says that one which throws is due with this task,
  and then `Create` may end before it gets there.
- `ever`, `decided` and `hidden` are history; `overlaps` and `deaths` are bounds
  that count what went on at once or died.

### PledgeReminders

The due run, with what goes on beside it.

- `pledge`, `recurring`, `donation`, `mark` and `settled` are the pledges, the donor's
  flag, the donations (link or not, archived, status, sent flags), the subscription's
  last reminder and its paid periods.
- `Job` is the run: for each frequency that is due today, chunk by chunk, it looks up
  each pledge's payment of the period, thanks or sends a link (found or inserted),
  and after the chunk marks those it reached; then the subscription.
- `Pay` completes a donation, settles it and thanks under the claim of the sent flags;
  `Cleanup` is the nightly archiving; `Change` are staff. `Decline` is a failed payment.
- `forced`, `overlaps` and `deaths` count the runs that were forced, the handlers that
  began beside another, and those that died. `tried`, `reminders`, `thanks` and
  `crossed` are history.

### OfflineSync

The uploads of one device, with the box its collections are taken from.

- `queue`, `pending`, `known` and `waiting` are the device: what was entered, what is
  not yet answered, the ids it was told, and the batch it waits for. The device's program
  is not in the repository; the model takes from the interface what a device must do, to
  repeat what was not reported as done and to write known ids in the place of its own.
- `rows` are the donors, donations and collections, each with the action it comes from
  and the row it refers to; `box` is the row of the box.
- A batch is one call that goes through its actions (`processBatch`): `FindDonor` and
  `InsertDonor` (`register`), `LoadDonor`, `FindOther` and `SaveDonor` (`update`),
  `CreateDonation`, `ChangeDonation`, `CreateCollection` with `ReadBox` and `SaveBox`
  (`updateDonationBoxStats`). `Ref` is `resolveRef`, `Failed` the catch, `Complete` what
  comes after an insert and may still fail; so may what comes after the save of a donor.
- A donor comes with an e-mail address or with none, and an edit keeps it, changes it or
  takes it away. `Registered` is both the look-up of an address (`register` and `update`
  refuse one of another donor) and its unique index (which refuses one that was taken
  between look-up and save). A donor who is saved whole puts back the address that was read.
- Staff assign users, archive the box or ask for a count; all but the archiving read the
  row and save it whole.
- `timeouts`, `faults` and `overlapped` count and note the troubles; `owed` and
  `removed` what was asked of the box.

Definitions whose comment begins with `Mutant:` are plausible bugs: putting one in
the place of the definition that follows it makes TLC refute the property
`PROJECT.json` names for it.

## What the runs check

`CHECK_DEADLOCK FALSE` in every run: requests and calls are used up, or the last day has
come, and then the system rightly stops.

| Run | Question | Bounds |
|---|---|---|
| `donation_staff` | does a marked intent have a pledge behind it, and are thanks accounted for, with failing pledge and ledger steps? | 3 calls, 2 at once; staff, public edits, retries, cron; Meezan, Blinq, manual |
| `donation_effects` | does a completed donation have all its effects once nothing runs, and none twice, whatever races completed it? | 4 calls, 2 at once; both channels; PayFast, JazzCash, Alfalah, with polls and returns |
| `donation_stripe` | completed stays completed, a set flag stands for a message, and the effects are reached although two handlers die | 4 calls, failing sends and invoices, liveness, no symmetry |
| `recurring_ledger` | credits, coverage, order of settlement and the calendar | 3 calls of which 2 overlap, 2 donations, half a year |
| `progress` | are parts given as if each transaction ran alone; do trackers keep up with batches; does every call end? | 3 calls, 2 donations, batches of 3, requests of 2, 4 batch numbers |
| `stripe_ledger` | one installment per paid renewal in any order of events; the status in order; every renewal entered | 3 invoices, 5 events, 2 deliveries at once, 1 death |
| `tasks` | approvals, checklist and final states under overlapping requests; recurrence under crons, old copies, deaths and a failing task beside it | 2 calls, 3 requests, 1 overlap, 1 death, 3 days |
| `reminders` | nobody reminded, linked or thanked twice without a reason, nobody left out, the donor's flag right | 2 calls, 2 pledges and a subscription, 4 days, 3 requests, 1 overlap, death or forced run |
| `offline` | recorded once, or once more per upload cut short; done means stored; everything comes; the box counts right | 4 queues of up to 5 actions, 3 addresses, one taken, 2 calls, 2 staff requests, 2 troubles |
| `thanks_twice` | finding, below | 4 calls |
| `payment_kept`, `dues_through_current` | findings, below | 1 or 2 overlapping calls |

### The bounds

*Donations.* One donation is enough: donations meet only at their
donor's pledge and stage, and retries, several gateways and several calls already
race on those. Every call can be used once, so three or four calls are three or
four handlers on one donation. `Kinds`, `Gateways` and `Faults` differ by
run, to keep each question small.

*Recurring ledger.* The ledger's races are between two calls: each holds
one look-up while the other writes. A third call, before or after, sees the
result. The calendar has six months, with the lengths of January to June, and
donors sign up on days around the edges: the 12th and 13th, either side of the
gap of twenty days before the first of the next month; the 16th and 17th, either
side of the day a listing ends; the 31st. Plans: same date by week and
month, first of the month, the 15th, 29th and 31st, a custom date inside and
outside the gap, and two prepaid months (two prepaid weeks are among the plans, and
`Subscribe` refuses them as the column does, see below). `CallsAtTurnOfMonth` lets calls
run for one plan of each kind on 16 January, 31 January and 10 February (for weekly
plans not over that whole span, so that three weeks are due at most); on the other days
and for the other plans only the calendar is checked. Custom dates are days of the
calendar; years, quarters and half-years use the same `advanceByFrequency` and are
left out.

*Progress.* A batch of three and requests of two make the second request straddle two
batches, so that two transactions fill one batch and both want to open the next; three
transactions with lost connections need four numbers. Three calls may overlap when all
are transactions, two otherwise (`FewAtOnce`). `InOrder` and `Sorted` drop
orders that no state tells apart: the calls are alike but for the one that may lose its
connection, and the statements of a transaction before its commit share nothing with
the steps of the other handlers. `Focused`: the run starts with no tracker, and any
call may come; or with the trackers of both donations, and then extra parts and step
reports come, so that propagation has somebody to propagate to. One step key suffices
as the code never relates two keys but in the overall status.

*Stripe.* Of three invoices the first opens the subscription and two renew it, and
five events hold an opening, a renewal, its failure and an end in one sequence;
`Short` cuts sequences that begin with the opening to three events.
Two deliveries at once suffice, as each look-up is followed by one write.

*Tasks.* Two approvers, one of whom created the task, an administrator, a checklist of
two items with one owner each. `Focused` gives time to recurring tasks and requests to
the others: a task that is approved does not wait for days, and a recurring task gets
one edit, move or completion beside the crons. Three days hold two occurrences; the end
dates and counts fall between them, so that stopping early and late both show. One of the
recurring tasks is beside one that makes the runs fail.

*Reminders.* Day 1 is in an earlier month; days 2 and 3 are a weekend, when weeks are
reminded of, and the 1st and 2nd, the second of which is the day for months; day 4 is a Monday and a billing
day of the subscription, which is reminded of two days before as well. A
chunk has one row or two, so that a run writes its marks between two pledges or
after both. Both pledges are monthly or one is weekly. One trouble (an overlap, a death
or a forced run) is enough for a handler to act on something another one has
just changed; the properties count troubles, so they do not only hold without any.

*Offline sync.* The queues hold a new donor with two edits, one of the e-mail address, a
donation and its change; two donors, of whom the first is to get the address of the second,
and the second a registered one and then none; a donor without an address, whose
registration nothing makes unique, with a donation and two collections; and a donor who
is registered already, with a donation and a collection. Two calls are an
upload the device has given up and its repetition, or an upload and a staff request. Two
troubles (timeouts, deaths, failing statements) let an upload be repeated twice, or be
given up and then die. `Focused` brings staff in only where there are collections, and
counts their requests among the troubles.

### Fairness

- `DonationPayments!FairSpec` (`donation_stripe`): `WF_vars(Step(c))`
  says that a handler whose process lives goes on: Node schedules every continuation.
  `WF_vars(Redelivery)` says that a gateway repeats a notification while every call
  that took one has died, which Stripe does when it gets no answer, and no
  longer. The customer, staff and crons are under no fairness. Two deaths and four
  calls leave one call that survives; a gateway whose every delivery dies proves
  nothing about the program.
- `ProgressTrackers!FairSpec`: while some call or transaction can go on, one of them
  does. It is weak fairness of the disjunction, less than what Node and PostgreSQL give;
  it suffices since calls are finite. Nothing begins, fails or disconnects by fairness,
  `BreakDeadlock` does: PostgreSQL's deadlock check is periodic.
- `StripeLedger!FairSpec`: handlers go on, and Stripe delivers an event again until it
  is answered. That is strong fairness because `Calls` bounds the handlers that may
  be busy, which the program does not.
- `Tasks!FairSpec`: handlers go on, time passes, and the server is up at two on more
  than one night (strong fairness: it may miss any night, not all of them).
- `OfflineSync!FairSpec`: handlers go on, and a device that has something to upload and
  waits for nothing uploads it.

### The properties

`DonationPayments`

- `ThanksAccounted`: thanks sent on a channel never exceed one plus the times a
  write took the flag back. It needs the claim to be atomic, and nothing else.
- `FlagHonest`: a set flag stands for an accepted message, one under way, or a
  call that died holding it.
- `EffectsComplete`: once nothing runs, a completed donation is in the ledger, its
  donor is a donor, and every open channel was used.
- `EffectsOnce`: a donation is allocated and its intent activated once, and its donor
  has one pledge, though every handler checks and acts in separate statements. It
  rests on the checkout enrolling and allocating before it hands out a payment link.
- `FinalKept`: a completed donation stays completed, where Stripe reports.
- `ActivatedHasPledge`.
- `PaidSettles` (liveness): a payment Stripe took leads to its ledger row and the
  donor's stage.

`RecurringLedger`

- `CreditedOnce`: however its payment is reported, a donation pays one
  installment, or each covered period once.
- `CoverageCredited`: once a prepaid donation was recorded and nothing runs, all
  covered periods are paid, though other calls credited some of them, and a call that
  lost a race threw in the middle of its loop.
- `OneDuePerPeriod`, `SerialPaymentKept`, `OldestFirst`: what holds while calls do
  not overlap. With overlap none of them does: look-ups and inserts are separate
  statements, and periods have no unique index.
- `CalendarExact`: the calendar against direct definitions, an interval of periods
  (`DueListExact`), the least eligible day (`FirstBillingIsEarliest`) and a count
  (`CoverageExact`).

`ProgressBatches` and `ProgressTrackers`

- `PartsDisjoint`, `BatchesTally`: no part is given twice or beyond the size of its
  batch; what a batch counts is what committed allocations hold, a closed batch is full,
  and numbers have no gap, though transactions fail half-way.
- `AllocatesParts`: the refinement of `PartAllocation`.
- `StepSetsFollow`: once nothing runs, every batch a donation got parts of has a
  full step set, with no exception for overlap; and it is there once, as long as the
  calls on that donation do not overlap.
- `PlaceholdersReplaced`, `OverallHonest`: a tracker shows placeholders or batches; its
  overall status is what its steps add up to, with the exceptions their comments name.
- `FinalOnlyDirectly`: propagation never changes a final step.
- `CallsEnd` (liveness): calls that wait for locks, indexes and each other all end.

`StripeLedger`

- `KeepsBook`: the refinement of `InvoiceBook`, with no assumption about the order.
- `OneMaster`, `StatusFollows`: one master row, with Stripe's status, as long as events
  come one by one in order. Out of order neither holds.
- `RenewalsSettle` (liveness): a paid renewal is entered, unless its event had opened
  the master row.

`Tasks`

- `ApprovedByAll`: a task becomes approved only when everybody has approved it at some
  time; since the last rework, if nothing overlapped.
- `RecordFollows`: the approval record holds the decisions made and the status an
  approver's list needs, if nothing overlapped or died.
- `ChecklistKept`: the checklist is whole unless somebody who is shown part of it
  approved, completed or reassigned the task.
- `FinalLeft`: closed and cancelled tasks are reopened only by the handlers that do not
  look at the status.
- `NoDateSkipped`, `RepeatsAccounted`, `OccurrencesCome` (liveness): occurrences come in
  order, twice only after an overlap or a death, and every one comes, but for a task with a
  due date and those due with one that makes the runs fail.

`PledgeReminders`

- `RemindersAccounted`: a period is reminded of once, and has one open link, beyond
  what overlaps, deaths and forced runs account for.
- `ThanksNotRepeated`: payment and runs together thank once for a donation and channel.
- `RunReachesDue`: a run that ends has tried everybody it owed a message whom no other
  handler paid, thanked or changed meanwhile. A run that must store the key of a week ends
  there, and leaves out the weeks of later chunks, the months and the subscription.
- `RecurringFollows`: the donor's flag says whether a pledge is active, as long as
  changes of pledges do not overlap.

`OfflineSync`

- `RowsAccounted`: an action is recorded once, and once more at most per upload cut
  short, a donor with an e-mail address only after an edit has given its row another one;
  a row refers to the row its action was entered for, whatever failed before it and
  however often it was sent.
- `SyncedIsStored`: what the device strikes off is on the server under the id it was told,
  edits of donors included as long as handlers do not overlap.
- `BoxAccounted`: the box never counts more than it was asked to; it counts all of it, and
  stays archived, as long as handlers neither overlap nor fail.
- `UploadsCome` (liveness): everything that was entered is recorded, whatever fails before
  it in its batch, but for donors whose registration is refused and what belongs to them.

### Findings

Each is a run that TLC refutes, with the line of the repository it contradicts.

1. `thanks_twice`: `syncAlfalahDonationFromIpn` writes the sent flags back as it
   read them unless the payment is completed. A late `pending` takes back the flag a thanks
   has claimed; the next paid notification thanks the donor again.
2. `payment_kept`: the prepaid settlement looks up the row of a period without its
   status, so a first donation recorded late takes over the installment another
   donation has paid, which then keeps none. No overlap is needed.
3. `dues_through_current`: periods are listed by stepping whole months from the
   start date and stop a day after the 15th of the last month, so a subscription that
   started after the 16th has no due for the current month.

### Seen while modelling

Part of the models, without a property of their own or as the exception a
property names.

Donation payments

- The donor's stage can be put back. Call A, which activates an intent, reads the donor
  before the stage is `donor`; call B completes the donation and promotes the donor; A
  saves the donor it read (`donations.service.ts:1135`), so the promotion is lost,
  against `donor.service.ts:1380`. `EffectsComplete` excepts donors that were enrolled.
- Two `updateMeezanStatusFromPayload` may both read `pending`; the failed one then
  overwrites the completed one (`donations.service.ts:2733`, against the comment at
  2699). `FinalKept` fails for Meezan.
- A send the provider reports as failed may have been delivered; the release of
  the flag then lets it go out again.
- Two checkouts of one donor can insert two pledges; `EffectsOnce` is about one
  checkout and its notifications.
- A Meezan checkout saves the entity it held and can put an activated intent back.
  A retry of the same donation does so as well.
- The abandon senders return false on failure, and handlers set the flag all the
  same. `FlagHonest` is stated for gateways that do not write flags.
- A donation that is eligible for thanks only through its intent loses that
  once the intent is activated, unless the ledger recorded it.

Recurring ledger

- `prepaid_start_period_key` is `varchar(16)` and the key of a week has 21
  characters: a weekly prepaid checkout cannot store its subscription, nor does
  `Subscribe`.
- A prepayment of *n* months made on the 29th to 31st can cover one month more, as
  adding months overflows. `CoverageExact` is stated for the days up to the 28th.
- A start on the 29th to 31st can leave a month without a due (the walk
  overflows past it), and a billing day that a month lacks does not come in that
  month. `DueListExact` is stated for starts from which no listing overshoots.
- Two calls at once can open a due twice, pay a period that is due elsewhere, or
  credit one row with two donations, the second replacing the first.
- The branch that sends a prepaid donation from its coverage to the dues is never
  taken: the proof of `CreditIsGivenOnce` shows it.
- Reminders a couple of days early may precede the gap after sign-up.

Progress

- Two synchronisations of one donation at once insert two step sets for a batch, though
  a comment speaks of one full set: look-up and insert are separate.
- A donation that joins a batch late gets steps that are all pending, whatever
  the batch has already reached.
- A progress update of a tracker's part counter reads and writes it in two statements
  (`batch_parts_count`); one of two is lost. The counter is not modelled.
- The notification of a step can go out twice when two reports overlap.

Stripe

- A renewal whose event opened the master row gets no installment: the column of the
  event id is unique over both kinds of row.
- A payment that arrives after the cancellation makes the master active again, and so
  does an update delivered after it.
- What the Stripe ledger throws is swallowed (`donations.service.ts:4500`) and the event
  answered 200. The model has this for the unique indexes; when any other statement fails
  while a renewal is entered, the event does not come again and the renewal is lost.
  `RenewalsSettle` says nothing of such failures.

Tasks

- `complete`, `approve` and `reassign` save the checklist as their user was shown it,
  without the items of others.
- Progress sent without notes erases the ticks.
- `complete`, `approve` and `progress` do not look at the status, so that they reopen a
  cancelled task.
- Of two approvers who decide at the same time, one is lost from the record.
- A cancelled recurring task keeps recurring: the recurrence cron does not look at
  the status.
- Dates are loaded as texts: for a recurring task with a start and a due date
  `due_date.getTime()` throws (`tasks.service.ts:3871`). That is caught outside the loop
  (3954) and thrown again, so that this task and every recurring task after it in the
  run's list, which has no order, gets no occurrence, every night. What another task
  throws for other reasons does the same: an empty list of assignees (`IN ()`), a
  notification or a mail that fails. `OccurrencesCome` excepts dated tasks and those beside
  one that throws, for which none may ever come.
- For the same reason the comparison that should end the recurrence right after an
  occurrence is never true (the next run finds the end). Adding months overflows at
  their end.
- A death between the insert of an occurrence and the save of its task inserts it again.
- The reset of an approval record for a task that leaves approval is never reached.

Reminders

- `last_reminder_period_key` and `last_thanks_period_key` of a pledge are `varchar(10)`;
  keys of weeks have 21 characters or more and those of fortnights 13. The
  update throws after the messages went out, and the rest of the run is lost, in spite
  of the comment at `crons/dms_crons/dms-crons.service.ts:83`. `RunReachesDue` and
  `RemindersAccounted` name the exception.
- A link is the newest open donation for the pledge, also one whose date is in an earlier
  period; paying it does not count for the period it was sent for.
- When one of two channels fails, the period is marked all the same and that channel
  is not tried again.
- A run may mark a pledge as thanked while a payment holds the claim and then fails.
- Thanks from a campaign's own templates do not look at the sent flags.
- Subscription reminders skip a donor who has paid anything in the month.
- When the cleanup archives the first donation of a subscription, its reminders end.
- The second look for a paid installment in the subscription's reminder can only find
  one when a payment came between the two.
- `DONATION_PENDING_FOLLOW_UP_ENABLED`, described as a switch, is read nowhere.

Offline sync and boxes

- Nothing on the server looks at `queue_id`: an upload whose answer was lost records its
  donations, its collections and its donors without an e-mail address once more, and
  `depends_on` is not read.
- So is a donor with an address when the upload has an edit that gives the donor another:
  the edit frees the first address (`donor.service.ts:1744`), and a second donor is
  registered under it. `RowsAccounted` names the exception. Without such an edit the
  donor is refused (`Email already exists`), so the device never learns its id, and what
  refers to it fails for good (`sync parents first`). `UploadsCome` names that one.
- A donor is read, changed and saved whole: with three edits in the queue, an upload the
  device has given up can save its copy over what a later upload stored, and an edit that
  was reported as done is lost without any failure.
- What fails after the insert is reported as failed though the row is there: the link to
  an organisation, the items of a donation in kind, an unknown method (`Invalid donation
  method` is thrown after the donation was saved).
- Two collections recorded at once count as one, and a stale save of a box (users
  assigned, a collection counted) takes back the other's count and its archiving.
- A collection can be recorded for an archived box.
- `updateCollectionStats` counts without a collection; editing or archiving a collection
  leaves the statistics as they were; the date of the last collection is that of the last
  upload. The statistics' amount and date are not modelled.

## What is proved

`tlapm` checks these for every value of the constants that satisfies the named
assumptions (`ConstantsAssumption`, `CalendarAssumption`, `LedgerAssumption`,
`ReachAssumption`, `BatchAssumption`, `TrackerAssumption`, `StripeAssumption`, `TaskAssumption`,
`CronAssumption`, `ReminderAssumption`, `SyncAssumption`); TLC evaluates the assumptions in every run of the
modules that state them. They say what the constants are: finite sets of calls, limits
that are numbers, sizes a column can hold (`MaxInt`), queues a device may have filled,
tasks that are new or wait for an approval with their record, a calendar in which a month
has one 2nd and one billing day, and every way to assign frequencies to campaigns that has
a monthly one (`Init` puts the donor's other donation there).

The proofs of most components go the same way. One lemma says of each action what it does
in the terms of the invariant (`Acts`, `CallActs`), and every part of the invariant is
then carried over these effects, one case per effect.

**`TypeCorrect`** (`DonationPayments`). `TypeOK` is inductive: one lemma per
group of actions.

**`ThanksAreAccounted`** (`ThanksAccounted`). Not inductive: between the claim of a
flag and the send nothing has been sent yet, but will be. `Accounting` counts the calls
in between, the dead ones too:

    thanked[d][ch] + |Holders(d, ch)|  <=  reverted[d][ch] + (1 if the flag is set)

A claim moves one unit to the right-hand side and one call into `Holders`; a send
moves that call into `thanked`; a release takes both away; a write of a whole row
lowers the flag only by raising `reverted`. So the guarantee rests on the conditional
update alone, for any number of calls, crashes and gateways.

**`ActivationsAreBacked`** (`ActivatedHasPledge`). Handlers save whole entities they read
earlier, so the rows alone are not inductive. `Backing` adds that an entity a checkout
still has to save, if it is marked activated, and a call about to mark an intent have a
pledge behind them; pledges are never deleted. A stale save may take an activation
back, and never invents one.

The other theorems of `DonationPayments` rest on **`CallsArePlaced`**, for all constants.
`Placed` says at which statements each kind of call may be, which donation and gateway it
is about and what it holds there, and that invoices and notifications belong to a gateway
in use. Not every property holds for all gateways and edits, so the theorems below name
what they need. TLC shows a counterexample for each hypothesis when it is dropped, except
`NoEdits` in `CheckoutsAreAlone`, which is about the argument.

- **`CheckoutsAreAlone`** (`NoEdits`: nobody edits or retries). Until a checkout hands out
  a payment link nothing but the cron can touch its donation (`Opening`), since
  notifications need an invoice.
- **`StripeIsFinal`** (`FinalKept`, under `StripeOnly`). Every write of a Stripe handler
  completes, or comes from a checkout that nobody could have paid yet (`Opening`). An
  Alfalah or Meezan notification that arrives late breaks it, as does a retry or an edit.
- **`FlagsAreHonest`** (`FlagHonest`, under `FlagsKept`). Either no send fails, and then
  every flag in a row or in a copy of one (`Copies`) is vouched for for good; or sends fail
  and flags are released, and then no handler may write back a flag it copied before:
  no gateway whose notifications do, no retry of one whose checkout saves its entity.
- **`EffectsAreOnce`** (`EffectsOnce`, under `OnlyOnce`: no edits, retries, cron, Meezan,
  Blinq and failing batch or pledge statements, and one donation per donor). `Once`
  follows a checkout statement by statement: what it has allocated, marked and pledged so
  far, and that all of it is done (`Prepared`) by the time there is an invoice. So calls
  that come later find nothing left to check, however they interleave.
- **`EffectsFollow`** (`EffectsComplete`, under `AllServed`: no crash, retry, edit, public
  update or manual donation, the ledger and the senders answer, one donation per
  donor). `Carried` says of a paid donation that each effect is there or some handler is at
  a statement from which it will come (`Served`). It cannot say which handler: one that
  lost the claim of a flag leaves the send to another.

The donations and call kinds of the runs `donation_stripe` (`FinalKept`, `FlagHonest`) and
`donation_effects` (`EffectsOnce`, `EffectsComplete`) satisfy the hypotheses of their
properties.

**`CreditIsGivenOnce`** (`CreditedOnce`), for any number of overlapping calls. The
inductive invariant `Books` says:

- of the rows, that the keys a donor pays with are unique (`KeysUnique`), that a due
  row has no payer, that a prepaid key is the first donation's and names the period of
  its row, and that a donation with coverage never pays with a plain key;
- of the calls, what their locals mean: periods left in the prepaid loop are covered,
  those no longer in it are paid, the row to be updated is of that period, and a prepaid
  donation never reaches the dues;
- of the start, that there are no rows and calls before the subscription.

The look-ups before each write are not used: the unique index suffices.

**`DuesAreSingle`, `PaymentsAreKept`, `SettlesInOrder`** (`OneDuePerPeriod`,
`SerialPaymentKept`, `OldestFirst`). `Serial` says that as long as calls did not
overlap, at most one runs, what it has looked up still holds (`Current`: the periods
to open have no rows, the row to settle is the oldest due), no period is due twice,
and recorded donations keep their credits. `Oldest` exists because numbers are
well founded (`MinIsLeast`), not because the rows are finitely many.

**`CoverageIsCredited`** (`CoverageCredited`), for any number of overlapping calls and
every plan. A call that loses the race for a covered period throws in the middle of its
loop, so no call can be relied on by name. `Coverages` says that

- a period is only passed once it is paid: all covered periods are, or some call in the
  loop has only later ones to do, for every period it is past (`RunsAhead`);
- once the first installment was recorded all covered periods are paid, or a call is still
  in the loop (`StillCredits`).

When a call throws, another one wrote the row, and was then in the loop itself, or it is
paid; when the last call leaves the loop nothing is left to do.

What the calendar functions compute is not used in any of these proofs, only that their
results are sets of numbers.

**`CalendarIsExact`** (`CalendarExact`), on every calendar of months of 28 to 31 days and
for every plan the calendar is long enough for (`ReachAssumption`). The inductive invariant
is short (`Opened`: a subscription is what its plan made of it on the day of the checkout);
the work is in what the functions compute from there:

- `FirstDayIs` and `AdvanceByIs` show that the two recursive functions exist and what one
  step of them is. The provers have no induction over data; each of these proofs takes the
  least number for which there is no function up to it (`MinIsLeast`).
- Months follow each other without overlap (`MonthsApart`), so that a day has one month
  (`MonthIs`, `DayHasMonth`) and a date in a month is where it should be (`DateInMonth`).
- Stepping has a closed form for days, weeks, and months from one of the first 28 days on
  (`DaysOn`, `WeeksOn`, `MonthsOn`), and with it a listing is an interval (`ListIs`,
  `DuesListed`, `MonthsCovered`).
- The search for a month that is far enough from today finds the first (`FarEnoughIs`), and
  there is one by the second month after today's, so that no start date before the one that
  is stored was possible (`StartOnDayIs`, `WithMinGapIs`, `EarliestIs`).

The months up to the 16th of `DueListExact` and the 28th of `CoverageExact` are needed: a
listing from a later day misses a period (the run `dues_through_current`), and stepping from
a later day skips February.

**`PartsAreDisjoint`, `BatchesAddUp`** (`PartsDisjoint`, `BatchesTally`) of
`ProgressBatches`, for any number of transactions. The rows alone are not inductive,
as a rollback restores what was committed. `BatchInv` has three parts besides the types:

- `Locks`: whose lock a row carries when a transaction holds it, and that a row nobody
  has locked is as it was committed;
- `Sound`: the parts allocated in a batch are those it counts, one interval after the
  other, for the committed version with the committed rows and for the newest with all;
- `Chained`: for a reader and for each transaction, the batches they see have no gap,
  and the number a transaction is about to insert is the next one.

A rollback keeps these since only the transaction that holds a lock has changed the row.

**`BatchesAllocate`** (`AllocatesParts`): the transactions implement `PartAllocation`.
`Asked` says that the parts a transaction holds and those it still has to take are what
its request asked for, so that a commit gives all of them; `SizesUsed` that a batch has
a size the template had once. A commit is then one step of `PartAllocation` because the
rows between `base` and `batch` are those of the transaction that commits; all other
statements are stutters. It counts parts as a set, so that "all of them" is a cardinality
and not a sum over batches.

**`TrackersTyped`, `TrackersDisjoint`, `TrackersTally`, `TrackersAllocate`**: the same of
the composition, `ProgressTrackers`, from `TrackersInv`: the types, `Refs` (the rows a
call or a step refers to are there) and `BatchInv`. Every step of a tracker is a step of
the batches or leaves them unchanged.

**`TrackersFollow`, `TrackersReplaced`, `TrackersHonest`, `TrackersFinal`**
(`StepSetsFollow`, `PlaceholdersReplaced`, `OverallHonest`, `FinalOnlyDirectly`), for any
number of calls. `FollowInv` adds to `TrackersInv`

- what a call is about and the transaction that serves it (`ServesAll`), so that the
  batches it goes through are those committed for its donation;
- that a call inserts a set of steps whole, and a batch once (`Whole`, `NotYet`), and
  that a committed allocation is still in the list of its call or has its rows
  (`Synced`); `StepSetsFollow` is about the calls that got to their end;
- that two sets for one batch are of calls noted in `overlapped` (`Again`,
  `TwinsOverlap`);
- that where placeholders and batches are shown together a call is about to archive the
  placeholders, has died, or created the donation (`Replacing`);
- that an overall status is what the steps add up to, or is in the list of an update
  that will write it (`Honest`).

**`LedgerTyped`, `LedgerKeepsBook`** (`KeepsBook`) of `StripeLedger`. `LedgerInv` adds to
the types that an invoice with a posted `invoice.paid` is paid, that an event says what
its type requires (`PostedOK`), and that a call's step is one its event leads to
(`Fits`). With it each step is a step of `InvoiceBook` or a stutter: entering an
installment checks the unique columns in the same statement, and nothing deletes or
edits one.

**`MasterIsOne`, `StatusIsFollowed`** (`OneMaster`, `StatusFollows`), for any number of
invoices and events. `RowInv` says what Stripe can have told (`Story`: the last event
has the status the subscription has, before an opening event there is only success, an
invoice is paid once), that while events come in order one handler runs and has the
latest (`Serial`), that an installment holds the event that reported it (`FromEvents`),
that a handler about to insert the master row has found none (`OneRow`), and which
status the row has at each statement (`Following`).

**`TasksTyped`, `TasksRecord`, `TasksChecklist`, `TasksDates`, `TasksMails`,
`TasksRepeats`, `TasksApproved`, `TasksFinal`** (`TypeOK`, `RecordFollows`,
`ChecklistKept`, `NoDateSkipped`, `MailsAccounted`, `RepeatsAccounted`, `ApprovedByAll`,
`FinalLeft`) of `Tasks`, for any number of users, items, handlers, overlaps and deaths. A handler saves the row it read, so the
invariant is about every copy that may still be saved:

- `CopiesOK`: the row and all copies have the whole checklist unless one was cut, and all
  dates before their next one have an occurrence. Saves may then come in any order.
- `ApprovalsBacked`: whoever a record, or a copy of one, has as approving did approve;
  a handler about to save `approved` counted approvals of everybody. This needs no
  absence of overlap: of two decisions one may be lost, and none is invented.
- `Story` and `FinalsOK`: as long as nothing overlapped or died, the one handler that
  runs (`Alone`) knows the row and the record as they are, and what it has yet to write
  to the record is what the decision, or the new status, calls for.
- `MailsCounted`: the overdue mails sent and those that may come without any more trouble
  (`Unsent`: one about to be sent; one because a copy does not tell of the last mail; one
  because a handler beside the cron may save such a copy) are one and the overlaps and
  deaths so far. It takes an overlap or a death to raise the left-hand side.
- `RepeatsInv`: a copy of the row with an old next date makes the cron insert dates again,
  so the bound is on how old a copy may be. With `Begun` the occurrences inserted or about to
  be (one for each run of the cron at that statement), every copy that may be saved
  satisfies `Begun + First <= overlaps + deaths + next`, and one more while it is
  being inserted from (`CopiesPaced`); so does the row, and one more while only runs of
  the cron are at work (`RowPaced`), whose saves will bring it up to date. A run that
  inserts takes one from those about to; a handler that begins beside another one, or dies,
  pays for the date it leaves behind. The dates are inserted without a gap
  (`NoDateSkipped`), so a date that has an occurrence has all those before it, and one
  inserted again is paid for (`Reach`). `OnlyWanted` says that `Over` stops the cron at the
  end of the recurrence, by the count that goes with the next date (`CountOK`).

**`IdsSound`, `TypeCorrect`, `WhatIsSyncedIsStored`, `EveryRowAccounted`,
`BoxIsAccounted`** (`TypeOK`, `SyncedIsStored`, `RowsAccounted`, `BoxAccounted`) of
`OfflineSync`, for every queue a device may have filled, and any number of handlers,
timeouts, deaths and failing statements.

- `Sound` follows the ids: whatever id the device or a batch holds for an action is that
  of a row of this action, and what is struck off is stored. An edit of a donor is only
  stored as long as no handlers overlap, as a donor is saved whole.
- `InsertsCounted`: the rows of an action, the batches that may still insert one, and the
  upload the device may still make of it (`RowsOf`, `MayInsert`, `ToCome`) are at most
  one more than the timeouts and faults. An insert moves a batch into the rows, an upload
  moves what is to come into the batches, and only a timeout or a fault brings an upload
  back while a batch may still insert.
- `EmailsOK`: no two donors share an address, and a row, or a donor read by a handler that
  is to save it, has an address given by the row's action or by one of its edits. So two
  rows of one action that no edit has renamed would share its address.
- `CountsOwed`: the count of the box, or of a copy of it about to be saved, and the handlers
  that have yet to count are at most what is owed; a stale save only lowers the count.

**`PlacedInvariant`, `Types`, `FlagFollows`, `LinksInvariant`, `ThanksBound`,
`RemindersBound`, `ReachingInvariant`, `DueReached`** (`TypeOK`, `RecurringFollows`,
`ThanksNotRepeated`, `RemindersAccounted`, `RunReachesDue`) of `PledgeReminders`, for any number of pledges, channels, days and
handlers, any chunk size, and any number of overlaps, deaths and forced runs.

- `Placed` is where a handler is: a run at a pledge has it among the rows it read and
  not among those to come, the frequencies it still has are due today, a payment has a
  donation. `StepDoes` says of each action what it does in these terms, and the other
  proofs use nothing else of the actions.
- `Flagging`: while one change of a pledge is between its row and the flag, it knows what
  the flag has to be.
- `LinksCounted`: the open links of a target and the handlers that looked for one and
  found none are at most as many as have run beside each other.
- Thanks and reminders go by the same potential, `Pot`: of the handlers under way, those
  that will send whatever the row says (H), those that may take the note back (U), those
  that have yet to look (W) and those about to note what was sent (G). If the message is
  noted and nobody takes that back, H may still send; otherwise H, U and W may, and
  if they are none and nobody is about to note it, the next handler may. A send lowers
  `Pot` by one (`PotSending`), no other step of a handler raises it (`PotCalm`), a first
  handler does not (`PotStart`), and a second, a death or a forced run raises it by one
  at most (`PotTrouble`). So what was sent and `Pot` are at most one and the troubles there
  were (`ThanksInvariant`, `RemindersInvariant`).
- For thanks the note is the donation's flag; U are the payments that have claimed it
  and may release it (`OneHolder`: one payment at a time). For a pledge's reminder it is
  `last_reminder_period_key`; U are the changes that read the row before it was noted and
  will save all of it. That is why an overlapping edit of a pledge costs a
  reminder, and a forced run does not cost a thanks. The bound on the reminders of a day
  becomes one on those of a period because the keys of two days differ (`KeysApart`),
  which is where `ReminderAssumption` is used. A weekly pledge is not bounded: its key
  does not fit the column, so nothing is ever noted.
- `Reaching` is about whom a run still owes a message, `due` being what it owed when it
  began without those that other handlers took off its hands. Each of them has been tried
  today, or is still owed and still before the run: in a chunk to come, in this chunk
  and, by the run's copy of its row, not to be skipped, or at hand (`Reaches`). That
  cannot be kept up without what is known of the rows (`Notes`, `Noting`): a row, or a copy
  of one, only says that a period was reminded of if that was tried, and only that it was
  thanked for if something was paid in it; an unpaid donation has no flag set. So a
  skipped pledge was tried, or is not owed. A chunk may be cut off before a pledge only if
  it is full (`ChunkIsFull`), and then another is read, which is why `AfterChunk` matters.
  The proof goes by what each step leaves owed (`OwedStays`), where the run has its pledges
  after it (`RunReaches`) and what it knows after it (`HandlerNotes`, `NotesStay`).
  At most one pledge of the run's instance is weekly; that a run that ends at the mark
  of one chunk leaves out the weeks of the next is an exception which the proof called for.

### Only model-checked

Liveness under fairness (the properties marked as liveness
above) and anything about ENABLED are out of the prover's reach.

So is induction over data in the form of the library's theorems. Where the least
counterexample of one set of numbers, or one set of parts of a finite set, does instead, the
proofs use that (`MinIsLeast`, `PartsInduct`): for the calendar's stepping and for the sums
of `RepeatsAccounted`.

The type invariants that are proved are in no run.

## What is not modelled

- *Donation payments*: the legacy `updateDonationStatus`, `markDonationThanksSent` by
  hand, the refresh of aggregates, `paid_amount`, `err_msg`, order ids,
  the synonyms of `completed` in old rows, the matching of donors, amounts and currencies.
- *Ledger*: several subscriptions of a donor, rows without a period key, staff edits of
  a subscription, years and quarters, the unpaid-reminder counter (switched off in the
  code).
- *Batches and trackers*: several templates at once (they touch different rows),
  deletion and regeneration, templates and reports, `batch_parts_count`, the contents of
  notifications.
- *Stripe*: amounts, plans and products, the administrative syncs, several subscriptions,
  statements that fail for another reason than a unique index.
- *Tasks*: the other tasks of a run, but for `beside`; reminders of a due date, time entries, comments, attachments, removal, edits
  of the due date, recurrence other than every day.
- *Reminders*: dry runs, runs for a chosen frequency or period, donors who are skipped
  for their settings or a Stripe subscription, bi-weekly, quarterly and yearly campaigns,
  daily and weekly subscriptions, several pledges of one campaign, the dues the run opens
  (those are in `RecurringLedger`), a run that crosses midnight, follow-up tasks.
- *Offline sync and boxes*: payloads and their validation, donations without a donor or
  paid through a gateway, several devices, edits of what another device entered and of
  the donors who were registered before (`Taken` stays), archived donors, phone
  numbers (donors have one, so that an address may be taken away), edits and archiving of collections, imports and geography of boxes.
- *Gateways*: signatures, encodings and requests.
- The components `PROJECT.json` marks `not_modelled`. Most of the repository's lines are
  these: requests that validate, write one row and list rows with filters, where a
  model would repeat the code without a property worth checking.

## Plan

Done: `DonationPayments`, `RecurringCalendar` and `RecurringLedger` with their
theorems; then `PartAllocation`, `ProgressBatches` and `ProgressTrackers`; `InvoiceBook`
and `StripeLedger`; `TaskWorkflow` and `Tasks`; `PledgeReminders` with the nightly
cleanup; `OfflineSync` with the box.

Theorems are there for all of these: every safety invariant of a passing run has one.

Next, models: `DonationPayments` against `RecurringLedger`, with the step `Settle` as an
abstraction of a record call; reconciliation, and edits of box collections, where two
requests meet on one row.
