-------------------------- MODULE PledgeReminders ---------------------------
(***************************************************************************)
(* The reminders and thanks of recurring donors: the due run of            *)
(* manual-recurring-reminder.service.ts over the pledges of recurring      *)
(* campaigns and over a monthly subscription, beside the staff who change  *)
(* pledges, the payments it asks for, and the nightly cleanup of the       *)
(* dms-crons that archives donations.                                      *)
(*                                                                         *)
(* A call is one handler.  A run holds the rows of a chunk while it sends  *)
(* to their donors, and writes down who got a message after the chunk.     *)
(***************************************************************************)
EXTENDS Integers, Sequences, FiniteSetsExt

CONSTANTS
    Calls,         \* handlers that can run side by side
    Last,          \* pledges are 1 .. Last, in the order of their ids
    Plans,         \* the frequencies of their campaigns may be one of these
    OwnTemplates,  \* pledges whose campaign has thanks templates of its own
    Channels,      \* the donor's channels are 1 .. Channels, in the order they are used
    Days,          \* the days are 1 .. Days
    Weekends,      \* those on a weekend
    Seconds,       \* those that are the 2nd of a month
    Week, Month,   \* the period of a day
    EarlyFor,      \* of the days two days before a billing day, that billing day
    BillingDays,   \* the billing days of the subscription
    ChunkSizes,    \* rows read at a time
    Changes,       \* what staff change a pledge to: a status or "covered"
    MaxRequests,   \* bounds on handlers, and on how often one is forced, begins beside
    MaxTroubles    \* another or dies

Pledges == 1 .. Last
Channel == 1 .. Channels
Freqs   == {"daily", "weekly", "monthly"}

\* The subscription, its first donation, and what can be reminded of.
Sub     == 0
Initial == 1
Targets == {Sub} \union Pledges

\* A month has one 2nd and one billing day, with one day for the early reminder.
ASSUME ReminderAssumption ==
    /\ IsFiniteSet(Calls)
    /\ Last \in Nat /\ Channels \in Nat \ {0} /\ Days \in Nat \ {0}
    /\ Plans \subseteq {f \in [Pledges -> Freqs] : \E p \in Pledges : f[p] = "monthly"}
    /\ OwnTemplates \subseteq Pledges
    /\ Weekends \subseteq 1 .. Days /\ Seconds \subseteq 1 .. Days
    /\ Week \in [1 .. Days -> Nat \ {0}] /\ Month \in [1 .. Days -> Nat \ {0}]
    /\ DOMAIN EarlyFor \subseteq 1 .. Days
    /\ \A d \in DOMAIN EarlyFor : EarlyFor[d] \in 1 .. Days
    /\ BillingDays \subseteq 1 .. Days
    /\ \A d, e \in Seconds : Month[d] = Month[e] => d = e
    /\ \A d, e \in BillingDays : Month[d] = Month[e] => d = e
    /\ \A d, e \in DOMAIN EarlyFor : Month[EarlyFor[d]] = Month[EarlyFor[e]] => d = e
    /\ ChunkSizes \subseteq Nat \ {0}
    /\ Changes \subseteq {"active", "paused", "covered"}
    /\ MaxRequests \in Nat /\ MaxTroubles \in Nat

VARIABLES
    freq,          \* the frequency of each pledge's campaign
    pledge,        \* the pledges' rows
    recurring,     \* the donor's flag
    donation,      \* the donations, in the order of their ids
    mark,          \* last_reminder_period_key of the subscription
    settled,       \* its periods with a paid installment
    day,           \* today
    call,          \* the handlers
    left,          \* requests still to come
    \* and for the properties:
    tried,         \* targets and keys a message was tried for
    reminders,     \* the reminders that reached the donor: target, key, a number
    thanks,        \* the thanks that did: donation, channel, a number
    overlaps, deaths, forced,
    crossed        \* two changes of pledges overlapped, or one died

rowVars     == <<pledge, recurring>>
ledgerVars  == <<mark, settled>>
historyVars == <<tried, reminders, thanks>>
countVars   == <<freq, day, left, overlaps, deaths, forced, crossed>>
vars        == <<rowVars, donation, ledgerVars, call, historyVars, countVars>>

Key   == [period : Nat, tag : 0 .. Days]
NoKey == [period |-> 0, tag |-> 0]

Pledge   == [status : {"none", "active", "paused", "removed"}, covered : BOOLEAN,
             reminded : Key, thanked : Nat]
Donation == [for : Targets, link : BOOLEAN, day : 1 .. Days, archived : BOOLEAN,
             status : {"pending", "failed", "completed"}, sent : SUBSET Channel]

Open(s) == s \in {"pending", "failed"}

\* The statements a run goes through with a pledge, and with the subscription; those of
\* the other handlers.
Staff   == {"update", "remove", "create"}
Ops     == Staff \union {"none", "job", "pay", "cleanup"}
Working == {"findPaid", "thank", "flag", "template", "findOpen", "insert", "remind"}
RunPcs  == Working \union {"chunk", "lookup", "mark"}
SubPcs  == {"subRead", "subInitial", "subSettled", "subDonated", "subOpen", "subInsert",
            "subRemind", "subMark"}
PayPcs  == {"complete", "settle", "claim", "send", "release"}
Places  == RunPcs \union SubPcs \union PayPcs
              \union {"none", "today", "archive", "create", "load", "save", "count", "recurring"}

Call == [op : Ops, pc : Places, force : BOOLEAN, size : Nat, todo : Seq(Freqs), last : Targets,
         rows : UNION {[ps -> Pledge] : ps \in SUBSET Pledges}, given : SUBSET Pledges,
         ids : SUBSET Nat, p : Targets, d : Nat, chans : SUBSET Channel, ok : BOOLEAN,
         marks : SUBSET Pledges, thanked : SUBSET Pledges, key : Key, due : SUBSET Targets,
         want : Changes \union {"none", "removed"}]

NoCall == [op |-> "none", pc |-> "none", force |-> FALSE, size |-> 0, todo |-> <<>>,
           last |-> 0, rows |-> <<>>, given |-> {}, ids |-> {}, p |-> 0, d |-> 0,
           chans |-> {}, ok |-> FALSE, marks |-> {}, thanked |-> {}, key |-> NoKey,
           due |-> {}, want |-> "none"]

\* Donation 1 opened the subscription on day 1; the donor tried another one that day, for
\* the first of the monthly pledges.
Init ==
    /\ freq \in Plans
    /\ pledge \in [Pledges -> {[status |-> s, covered |-> FALSE, reminded |-> NoKey, thanked |-> 0] :
                                  s \in {"none", "active"}}]
    /\ recurring = \E p \in Pledges : pledge[p].status = "active"
    /\ donation = [i \in 1 .. 2 |->
           [for |-> IF i = Initial THEN Sub ELSE Min({p \in Pledges : freq[p] = "monthly"}),
            link |-> FALSE, day |-> 1, archived |-> FALSE, status |-> "pending", sent |-> {}]]
    /\ mark = NoKey
    /\ settled = {}
    /\ day = 1
    /\ call = [c \in Calls |-> NoCall]
    /\ left = MaxRequests
    /\ tried = {}
    /\ reminders = {}
    /\ thanks = {}
    /\ overlaps = 0 /\ deaths = 0 /\ forced = 0
    /\ crossed = FALSE

-----------------------------------------------------------------------------
Running(c) == call[c].op # "none"

Quiet == \A c \in Calls : ~Running(c)

Set(c, k) == call' = [call EXCEPT ![c] = k]

Goto(c, pc) == call' = [call EXCEPT ![c].pc = pc]

End(c) == Set(c, NoCall)

\* What another handler did meanwhile is no longer owed by the runs.
Excused(c, k, ts) ==
    call' = [x \in Calls |-> IF x = c THEN k ELSE [call[x] EXCEPT !.due = @ \ ts]]

\* The day changes while nothing runs: a run ends on the day it began.
NextDay ==
    /\ Quiet
    /\ day < Days
    /\ day' = day + 1
    /\ UNCHANGED <<rowVars, donation, ledgerVars, call, historyVars, freq, left, overlaps,
                   deaths, forced, crossed>>

\* A request comes, in a free slot, no matter which.
Begin(c, k) ==
    /\ left > 0
    /\ left' = left - 1
    /\ ~Running(c)
    /\ c = CHOOSE x \in Calls : ~Running(x)
    /\ Set(c, k)
    /\ overlaps' = IF Quiet THEN overlaps ELSE overlaps + 1
    /\ crossed' = (crossed \/ (k.op \in Staff /\ \E x \in Calls : call[x].op \in Staff))
    /\ forced' = IF k.force THEN forced + 1 ELSE forced
    /\ overlaps' + deaths + forced' <= MaxTroubles
    /\ UNCHANGED <<rowVars, donation, ledgerVars, historyVars, freq, day, deaths>>

-----------------------------------------------------------------------------
(* Periods and keys                                                        *)

PeriodOf(f, d) ==
    CASE f = "daily" -> d [] f = "weekly" -> Week[d] [] f = "monthly" -> Month[d]

\* getDueReminderFrequencies
DueOn(d) ==
    IF d \in Weekends
    THEN IF d \in Seconds THEN <<"daily", "weekly", "monthly">> ELSE <<"daily", "weekly">>
    ELSE IF d \in Seconds THEN <<"daily", "monthly">> ELSE <<"daily">>

\* getReminderDedupeKey: a week has a key for each of its days.
KeyOf(f, d) == [period |-> PeriodOf(f, d), tag |-> IF f = "weekly" THEN d ELSE 0]

\* last_reminder_period_key and last_thanks_period_key have ten characters, and those of
\* a week are longer.
Fits(f) == f # "weekly"

\* The subscription's key on a day with a reminder, two days before a billing day or on
\* one.
SubKey(d) ==
    IF d \in DOMAIN EarlyFor THEN [period |-> Month[EarlyFor[d]], tag |-> 1]
                             ELSE [period |-> Month[d], tag |-> 0]

\* The paid donations for a pledge's campaign, and those of anything in a month.
PaidFor(p, f) ==
    {d \in DOMAIN donation : /\ donation[d].for = p
                             /\ donation[d].status = "completed"
                             /\ PeriodOf(f, donation[d].day) = PeriodOf(f, day)}

PaidIn(m) ==
    {d \in DOMAIN donation : /\ ~donation[d].archived
                             /\ donation[d].status = "completed"
                             /\ Month[donation[d].day] = m}

SubOpen == donation[Initial].status = "completed" /\ ~donation[Initial].archived

-----------------------------------------------------------------------------
(* The due run                                                             *)

\* The run thanks with a campaign's own templates, or on channels not yet thanked on.
ToThank(p) ==
    /\ pledge[p].thanked # PeriodOf(freq[p], day)
    /\ p \in OwnTemplates \/ Channel \ donation[Max(PaidFor(p, freq[p]))].sent # {}

\* Who the run owes a message: pledges it is due for that are neither covered nor thanked
\* for, and the subscription if the donor has paid nothing in the month.
Owed ==
    {p \in Pledges :
        /\ pledge[p].status = "active"
        /\ \E i \in DOMAIN DueOn(day) : DueOn(day)[i] = freq[p]
        /\ IF PaidFor(p, freq[p]) = {} THEN ~(freq[p] = "monthly" /\ pledge[p].covered)
           ELSE ToThank(p)}
    \union {s \in {Sub} : /\ day \in DOMAIN EarlyFor \union BillingDays
                          /\ SubOpen
                          /\ PaidIn(SubKey(day).period) = {}
                          /\ SubKey(day).period \notin settled}

Job(c) ==
    \E force \in BOOLEAN, n \in ChunkSizes :
        Begin(c, [NoCall EXCEPT !.op = "job", !.pc = "chunk", !.force = force, !.size = n,
                                !.todo = DueOn(day), !.due = Owed])

NextFreq(k) == [k EXCEPT !.todo = Tail(@), !.last = 0, !.pc = "chunk"]

\* Mutant: a full chunk is the last one.
AfterChunkStops(k) == NextFreq(k)

\* A full chunk may not be the last one.
AfterChunk(k) ==
    IF Cardinality(DOMAIN k.rows) = k.size THEN [k EXCEPT !.pc = "chunk"] ELSE NextFreq(k)

\* Mutant: a reminder that was sent already is sent again.
WorkAlways(k, p) ==
    LET f == Head(k.todo)
    IN  IF p \in k.given
        THEN IF ~k.force /\ k.rows[p].thanked = PeriodOf(f, day) THEN "skip"
             ELSE IF p \in OwnTemplates THEN "template" ELSE "findPaid"
        ELSE IF f = "monthly" /\ k.rows[p].covered THEN "skip" ELSE "findOpen"

\* processOnePledge: what to do for a pledge of the chunk, as its row was read.
Work(k, p) ==
    LET f == Head(k.todo)
    IN  IF p \in k.given
        THEN IF ~k.force /\ k.rows[p].thanked = PeriodOf(f, day) THEN "skip"
             ELSE IF p \in OwnTemplates THEN "template" ELSE "findPaid"
        ELSE IF \/ f = "monthly" /\ k.rows[p].covered
                \/ ~k.force /\ k.rows[p].reminded = KeyOf(f, day)
             THEN "skip" ELSE "findOpen"

\* On to the next pledge that needs something, or to the marks, or to the next chunk.
Onward(k) ==
    LET ps == {p \in k.ids : Work(k, p) # "skip"}
    IN  IF ps # {}
        THEN [k EXCEPT !.p = Min(ps), !.ids = {p \in @ : p > Min(ps)}, !.ok = FALSE,
                       !.chans = Channel, !.pc = Work(k, Min(ps))]
        ELSE IF k.marks \union k.thanked # {} THEN [k EXCEPT !.pc = "mark"]
        ELSE AfterChunk(k)

\* The active pledges of a frequency, a chunk at a time.
Chunk(c) ==
    /\ call[c].pc = "chunk"
    /\ LET k    == call[c]
           ps   == {p \in Pledges : /\ p > k.last
                                    /\ pledge[p].status = "active"
                                    /\ freq[p] = Head(k.todo)}
           some == {p \in ps : Cardinality({q \in ps : q <= p}) <= k.size}
       IN  Set(c, IF k.todo = <<>> THEN [k EXCEPT !.pc = "subRead"]
                  ELSE IF ps = {} THEN NextFreq(k)
                  ELSE [k EXCEPT !.rows = [p \in some |-> pledge[p]], !.ids = some,
                                 !.given = {}, !.marks = {}, !.thanked = {},
                                 !.last = Max(some), !.pc = "lookup"])
    /\ UNCHANGED <<rowVars, donation, ledgerVars, historyVars, countVars>>

\* Who has donated, one campaign after the other.
Lookup(c) ==
    /\ call[c].pc = "lookup"
    /\ LET k == call[c]
           p == Min(k.ids)
           r == [k EXCEPT !.ids = @ \ {p},
                          !.given = IF PaidFor(p, freq[p]) # {} THEN @ \union {p} ELSE @]
       IN  Set(c, IF r.ids = {} THEN Onward([r EXCEPT !.ids = DOMAIN r.rows]) ELSE r)
    /\ UNCHANGED <<rowVars, donation, ledgerVars, historyVars, countVars>>

\* A pledge is done with; it is marked if something was sent.
Done(k) ==
    LET f == IF k.ok THEN {k.p} ELSE {}
    IN  Onward(IF k.p \in k.given THEN [k EXCEPT !.thanked = @ \union f]
                                  ELSE [k EXCEPT !.marks = @ \union f])

\* Mutant: thanks go out whatever the donation's flags say.
FindPaidAgain(c) ==
    /\ call[c].pc = "findPaid"
    /\ LET k  == call[c]
           ds == PaidFor(k.p, freq[k.p])
       IN  IF ds = {} THEN Set(c, Onward(k))
           ELSE Set(c, [k EXCEPT !.d = Max(ds), !.pc = "thank"])
    /\ UNCHANGED <<rowVars, donation, ledgerVars, historyVars, countVars>>

\* findPaidDonationForPeriod: the channels that are not yet thanked on.
FindPaid(c) ==
    /\ call[c].pc = "findPaid"
    /\ LET k    == call[c]
           ds   == PaidFor(k.p, freq[k.p])
           d    == Max(ds)
           new  == Channel \ donation[d].sent
           r    == [k EXCEPT !.d = d, !.chans = new, !.ok = new # Channel, !.pc = "thank"]
       IN  IF ds = {} THEN Set(c, Onward(k))
           ELSE Set(c, IF new = {} THEN Done(r) ELSE r)
    /\ UNCHANGED <<rowVars, donation, ledgerVars, historyVars, countVars>>

\* The channels that come after the first of those left.
First(k)  == Min(k.chans)
Others(k) == k.chans \ {First(k)}

NextChannel(k) == IF Others(k) = {} THEN Done([k EXCEPT !.chans = {}])
                                    ELSE [k EXCEPT !.chans = Others(k)]

Tried(c) == tried' = tried \union {<<call[c].p, KeyOf(freq[call[c].p], day)>>}

\* Another one of these is recorded.
Thanked(d, ch) ==
    thanks' = thanks \union {<<d, ch, Cardinality({t \in thanks : t[1] = d /\ t[2] = ch}) + 1>>}

\* sendDefaultThanksMessages: the flag follows the message.
Thank(c) ==
    /\ call[c].pc = "thank"
    /\ Tried(c)
    /\ LET k == call[c]
       IN  \/ /\ Thanked(k.d, First(k))
              /\ Set(c, [k EXCEPT !.ok = TRUE, !.pc = "flag"])
           \/ Set(c, NextChannel(k)) /\ UNCHANGED thanks
    /\ UNCHANGED <<rowVars, donation, ledgerVars, reminders, countVars>>

Flag(c) ==
    /\ call[c].pc = "flag"
    /\ LET k == call[c]
       IN  /\ donation' = [donation EXCEPT ![k.d].sent = @ \union {First(k)}]
           /\ Set(c, NextChannel([k EXCEPT !.pc = "thank"]))
    /\ UNCHANGED <<rowVars, ledgerVars, historyVars, countVars>>

\* sendSlotMessages: a campaign's own thanks pay no attention to the flags.
Template(c) ==
    /\ call[c].pc = "template"
    /\ Tried(c)
    /\ \E ok \in BOOLEAN : Set(c, NextChannel([call[c] EXCEPT !.ok = @ \/ ok]))
    /\ UNCHANGED <<rowVars, donation, ledgerVars, reminders, thanks, countVars>>
\* resolveOrCreatePendingDonation: a donation of the pledge's campaign that was never
\* paid, archived or not, or a new one.
FindOpen(c) ==
    /\ call[c].pc = "findOpen"
    /\ LET k  == call[c]
           ds == {d \in DOMAIN donation : donation[d].for = k.p /\ Open(donation[d].status)}
       IN  Set(c, IF ds = {} THEN [k EXCEPT !.pc = "insert"]
                             ELSE [k EXCEPT !.d = Max(ds), !.pc = "remind"])
    /\ UNCHANGED <<rowVars, donation, ledgerVars, historyVars, countVars>>

InsertLink(c) ==
    /\ call[c].pc \in {"insert", "subInsert"}
    /\ donation' = Append(donation, [for |-> call[c].p, link |-> TRUE, day |-> day,
                                     archived |-> FALSE, status |-> "pending", sent |-> {}])
    /\ Set(c, [call[c] EXCEPT !.d = Len(donation) + 1,
                              !.pc = IF @ = "insert" THEN "remind" ELSE "subRemind"])
    /\ UNCHANGED <<rowVars, ledgerVars, historyVars, countVars>>

\* A donor is reminded when the first message gets through.
Reminded(t, k) ==
    reminders' = reminders \union
        {<<t, k, Cardinality({r \in reminders : r[1] = t /\ r[2] = k}) + 1>>}

\* sendDefaultPaymentLinkMessages
Remind(c) ==
    /\ call[c].pc = "remind"
    /\ Tried(c)
    /\ LET k == call[c]
       IN  \/ /\ IF k.ok THEN UNCHANGED reminders ELSE Reminded(k.p, KeyOf(freq[k.p], day))
              /\ Set(c, NextChannel([k EXCEPT !.ok = TRUE]))
           \/ Set(c, NextChannel(k)) /\ UNCHANGED reminders
    /\ UNCHANGED <<rowVars, donation, ledgerVars, thanks, countVars>>

\* Mutant: the row is written as the chunk read it.
MarkWhole(c) ==
    /\ call[c].pc = "mark"
    /\ LET k  == call[c]
           f  == Head(k.todo)
           p  == Min(IF k.marks # {} THEN k.marks ELSE k.thanked)
           r  == [k EXCEPT !.marks = @ \ {p}, !.thanked = IF k.marks # {} THEN @ ELSE @ \ {p}]
       IN  IF ~Fits(f) THEN End(c) /\ UNCHANGED pledge
           ELSE /\ pledge' = [pledge EXCEPT ![p] =
                     IF k.marks # {} THEN [k.rows[p] EXCEPT !.reminded = KeyOf(f, day)]
                                     ELSE [k.rows[p] EXCEPT !.thanked = PeriodOf(f, day)]]
                /\ Set(c, IF r.marks \union r.thanked = {} THEN AfterChunk(r) ELSE r)
    /\ UNCHANGED <<recurring, donation, ledgerVars, historyVars, countVars>>

\* After a chunk the pledges that were reminded are marked, and then those thanked, one
\* statement each.  A key that does not fit is an error nobody catches before the end of
\* the whole run.
Mark(c) ==
    /\ call[c].pc = "mark"
    /\ LET k  == call[c]
           f  == Head(k.todo)
           p  == Min(IF k.marks # {} THEN k.marks ELSE k.thanked)
           r  == [k EXCEPT !.marks = @ \ {p}, !.thanked = IF k.marks # {} THEN @ ELSE @ \ {p}]
       IN  IF ~Fits(f) THEN End(c) /\ UNCHANGED pledge
           ELSE /\ pledge' = IF k.marks # {} THEN [pledge EXCEPT ![p].reminded = KeyOf(f, day)]
                                             ELSE [pledge EXCEPT ![p].thanked = PeriodOf(f, day)]
                /\ Excused(c, IF r.marks \union r.thanked = {} THEN AfterChunk(r) ELSE r,
                           IF k.marks # {} THEN {} ELSE {p})
    /\ UNCHANGED <<recurring, donation, ledgerVars, historyVars, countVars>>

-----------------------------------------------------------------------------
(* The subscription's part of the run: processNonStripeLedgerReminders     *)

SubRead(c) ==
    /\ call[c].pc = "subRead"
    /\ Set(c, [call[c] EXCEPT !.p = Sub, !.key = mark, !.ok = FALSE, !.chans = Channel,
                              !.pc = "subInitial"])
    /\ UNCHANGED <<rowVars, donation, ledgerVars, historyVars, countVars>>

\* Its first donation is paid, and today is a day for reminders.
SubInitial(c) ==
    /\ call[c].pc = "subInitial"
    /\ IF SubOpen /\ day \in DOMAIN EarlyFor \union BillingDays THEN Goto(c, "subSettled")
       ELSE End(c)
    /\ UNCHANGED <<rowVars, donation, ledgerVars, historyVars, countVars>>

\* The period is not paid for, and was not reminded of when the row was read.  The dues
\* opened here are those of RecurringLedger.
SubSettled(c) ==
    /\ call[c].pc = "subSettled"
    /\ IF \/ SubKey(day).period \in settled
          \/ ~call[c].force /\ call[c].key = SubKey(day)
       THEN End(c) ELSE Goto(c, "subDonated")
    /\ UNCHANGED <<rowVars, donation, ledgerVars, historyVars, countVars>>

\* A donor who has paid anything in the month is left alone.
SubDonated(c) ==
    /\ call[c].pc = "subDonated"
    /\ IF PaidIn(SubKey(day).period) # {} THEN End(c) ELSE Goto(c, "subOpen")
    /\ UNCHANGED <<rowVars, donation, ledgerVars, historyVars, countVars>>

\* resolveOrCreateInstallmentLinkDonation
SubLink(c) ==
    /\ call[c].pc = "subOpen"
    /\ LET ds == {d \in DOMAIN donation : /\ donation[d].for = Sub /\ ~donation[d].archived
                                          /\ Open(donation[d].status)}
       IN  Set(c, IF ds = {} THEN [call[c] EXCEPT !.pc = "subInsert"]
                             ELSE [call[c] EXCEPT !.d = Max(ds), !.pc = "subRemind"])
    /\ UNCHANGED <<rowVars, donation, ledgerVars, historyVars, countVars>>

SubRemind(c) ==
    /\ call[c].pc = "subRemind"
    /\ tried' = tried \union {<<Sub, SubKey(day)>>}
    /\ LET k == call[c]
       IN  \E got \in BOOLEAN :
              LET r == [k EXCEPT !.ok = @ \/ got, !.chans = Others(k)]
              IN  /\ IF got /\ ~k.ok THEN Reminded(Sub, SubKey(day)) ELSE UNCHANGED reminders
                  /\ IF r.chans # {} THEN Set(c, r)
                     ELSE IF r.ok THEN Set(c, [r EXCEPT !.pc = "subMark"]) ELSE End(c)
    /\ UNCHANGED <<rowVars, donation, ledgerVars, thanks, countVars>>

SubMark(c) ==
    /\ call[c].pc = "subMark"
    /\ mark' = SubKey(day)
    /\ End(c)
    /\ UNCHANGED <<rowVars, donation, settled, historyVars, countVars>>

-----------------------------------------------------------------------------
(* Payments, as far as the run and they read what the other writes         *)

Decline(d) ==
    /\ left > 0
    /\ left' = left - 1
    /\ donation[d].status = "pending"
    /\ donation' = [donation EXCEPT ![d].status = "failed"]
    /\ UNCHANGED <<rowVars, ledgerVars, call, historyVars, freq, day, overlaps, deaths, forced,
                   crossed>>

Pay(c) ==
    \E d \in DOMAIN donation :
        /\ Open(donation[d].status)
        /\ Begin(c, [NoCall EXCEPT !.op = "pay", !.pc = "complete", !.d = d, !.chans = Channel])

Complete(c) ==
    /\ call[c].pc = "complete"
    /\ LET d == call[c].d
       IN  /\ donation' = [donation EXCEPT ![d].status = "completed"]
           /\ Excused(c, [call[c] EXCEPT !.pc = IF donation[d].for = Sub /\ d # Initial
                                                THEN "settle" ELSE "claim"], {Sub})
    /\ UNCHANGED <<rowVars, ledgerVars, historyVars, countVars>>

\* The ledger pays the oldest open period; RecurringLedger has when periods open, here they
\* do on their first day for reminders.
Settle(c) ==
    /\ call[c].pc = "settle"
    /\ LET ms == {SubKey(d).period : d \in {x \in DOMAIN EarlyFor \union BillingDays : x <= day}}
       IN  settled' = IF ms \ settled = {} THEN settled ELSE settled \union {Min(ms \ settled)}
    /\ Excused(c, [call[c] EXCEPT !.pc = "claim"], {s \in {Sub} : SubKey(day).period \in settled'})
    /\ UNCHANGED <<rowVars, donation, mark, historyVars, countVars>>

NextClaim(c) ==
    IF Others(call[c]) = {} THEN End(c)
    ELSE Set(c, [call[c] EXCEPT !.chans = Others(call[c]), !.pc = "claim"])

\* A payment claims the flag before it sends, and releases it if it could not.
Claim(c) ==
    /\ call[c].pc = "claim"
    /\ LET d  == call[c].d
           ch == First(call[c])
       IN  /\ donation' = [donation EXCEPT ![d].sent = @ \union {ch}]
           /\ IF ch \in donation[d].sent THEN NextClaim(c)
              ELSE Excused(c, [call[c] EXCEPT !.pc = "send"], {donation[d].for})
    /\ UNCHANGED <<rowVars, ledgerVars, historyVars, countVars>>

SendThanks(c) ==
    /\ call[c].pc = "send"
    /\ \/ Thanked(call[c].d, First(call[c])) /\ NextClaim(c)
       \/ Goto(c, "release") /\ UNCHANGED thanks
    /\ UNCHANGED <<rowVars, donation, ledgerVars, tried, reminders, countVars>>

Release(c) ==
    /\ call[c].pc = "release"
    /\ donation' = [donation EXCEPT ![call[c].d].sent = @ \ {First(call[c])}]
    /\ NextClaim(c)
    /\ UNCHANGED <<rowVars, ledgerVars, historyVars, countVars>>

-----------------------------------------------------------------------------
(* The nightly cleanup                                                     *)

Cleanup(c) == Begin(c, [NoCall EXCEPT !.op = "cleanup", !.pc = "today"])

\* Of a donor with several donations today, the unpaid ones go if one is completed, and
\* otherwise the pending ones but the first.
Superfluous ==
    LET today == {d \in DOMAIN donation : donation[d].day = day /\ ~donation[d].archived}
        In(s) == {d \in today : donation[d].status = s}
    IN  IF Cardinality(today) <= 1 THEN {}
        ELSE IF In("completed") # {} THEN In("pending") \union In("failed")
        ELSE {d \in In("pending") : \E e \in In("pending") : e < d}

Today(c) ==
    /\ call[c].pc = "today"
    /\ IF Superfluous = {} THEN End(c)
       ELSE Set(c, [call[c] EXCEPT !.ids = Superfluous, !.pc = "archive"])
    /\ UNCHANGED <<rowVars, donation, ledgerVars, historyVars, countVars>>

Archive(c) ==
    /\ call[c].pc = "archive"
    /\ LET d == Min(call[c].ids)
       IN  /\ donation' = [donation EXCEPT ![d].archived = TRUE]
           /\ Excused(c, IF call[c].ids = {d} THEN NoCall ELSE [call[c] EXCEPT !.ids = @ \ {d}],
                      IF d = Initial THEN {Sub} ELSE {})
    /\ UNCHANGED <<rowVars, ledgerVars, historyVars, countVars>>

-----------------------------------------------------------------------------
(* Staff and checkouts change pledges                                      *)

Change(c) ==
    \E p \in Pledges :
       \/ /\ pledge[p].status \in {"active", "paused"}
          /\ \/ \E w \in Changes :
                   Begin(c, [NoCall EXCEPT !.op = "update", !.pc = "load", !.p = p, !.want = w])
             \/ Begin(c, [NoCall EXCEPT !.op = "remove", !.pc = "load", !.p = p,
                                        !.want = "removed"])
       \/ /\ pledge[p].status = "none"
          /\ Begin(c, [NoCall EXCEPT !.op = "create", !.pc = "create", !.p = p])

\* create: the pledge, and then the donor's flag.
CreatePledge(c) ==
    /\ call[c].pc = "create"
    /\ LET p == call[c].p
       IN  IF pledge[p].status = "none"
           THEN /\ pledge' = [pledge EXCEPT ![p].status = "active"]
                /\ Set(c, [call[c] EXCEPT !.ok = TRUE, !.pc = "recurring"])
           ELSE End(c) /\ UNCHANGED pledge
    /\ UNCHANGED <<recurring, donation, ledgerVars, historyVars, countVars>>

\* update and remove read the pledge,
Load(c) ==
    /\ call[c].pc = "load"
    /\ LET p == call[c].p
       IN  IF pledge[p].status = "removed" THEN End(c)
           ELSE Set(c, [call[c] EXCEPT !.rows = [q \in {p} |-> pledge[p]], !.pc = "save"])
    /\ UNCHANGED <<rowVars, donation, ledgerVars, historyVars, countVars>>

\* save all of it,
Save(c) ==
    /\ call[c].pc = "save"
    /\ LET k == call[c]
           r == k.rows[k.p]
       IN  /\ pledge' = [pledge EXCEPT ![k.p] = IF k.want = "covered"
                                                THEN [r EXCEPT !.covered = TRUE]
                                                ELSE [r EXCEPT !.status = k.want]]
           /\ Excused(c, [k EXCEPT !.pc = "count"], {k.p})
    /\ UNCHANGED <<recurring, donation, ledgerVars, historyVars, countVars>>

\* count the donor's active pledges,
Count(c) ==
    /\ call[c].pc = "count"
    /\ Set(c, [call[c] EXCEPT !.ok = \E p \in Pledges : pledge[p].status = "active",
                              !.pc = "recurring"])
    /\ UNCHANGED <<rowVars, donation, ledgerVars, historyVars, countVars>>

\* and flag the donor.
FlagDonor(c) ==
    /\ call[c].pc = "recurring"
    /\ recurring' = call[c].ok
    /\ End(c)
    /\ UNCHANGED <<pledge, donation, ledgerVars, historyVars, countVars>>

\* The process dies with the call.
Crash(c) ==
    /\ Running(c)
    /\ overlaps + deaths + forced < MaxTroubles
    /\ deaths' = deaths + 1
    /\ crossed' = (crossed \/ call[c].op \in Staff)
    /\ End(c)
    /\ UNCHANGED <<rowVars, donation, ledgerVars, historyVars, freq, day, left, overlaps, forced>>

-----------------------------------------------------------------------------
RunStep(c) ==
    \/ Chunk(c) \/ Lookup(c) \/ FindPaid(c) \/ Thank(c) \/ Flag(c) \/ Template(c)
    \/ FindOpen(c) \/ InsertLink(c) \/ Remind(c) \/ Mark(c)
    \/ SubRead(c) \/ SubInitial(c) \/ SubSettled(c) \/ SubDonated(c) \/ SubLink(c)
    \/ SubRemind(c) \/ SubMark(c)

OtherStep(c) ==
    \/ Complete(c) \/ Settle(c) \/ Claim(c) \/ SendThanks(c) \/ Release(c)
    \/ Today(c) \/ Archive(c)
    \/ CreatePledge(c) \/ Load(c) \/ Save(c) \/ Count(c) \/ FlagDonor(c)

Next ==
    \/ NextDay
    \/ \E d \in DOMAIN donation : Decline(d)
    \/ \E c \in Calls :
          \/ Job(c) \/ Pay(c) \/ Cleanup(c) \/ Change(c)
          \/ RunStep(c) \/ OtherStep(c)
          \/ Crash(c)

Spec == Init /\ [][Next]_vars

-----------------------------------------------------------------------------
\* Every variable is of its type.
TypeOK ==
    /\ freq \in Plans
    /\ pledge \in [Pledges -> Pledge]
    /\ recurring \in BOOLEAN
    /\ donation \in Seq(Donation)
    /\ mark \in Key
    /\ settled \subseteq Nat
    /\ day \in 1 .. Days
    /\ call \in [Calls -> Call]
    /\ left \in 0 .. MaxRequests
    /\ {overlaps, deaths, forced} \subseteq 0 .. MaxTroubles
    /\ crossed \in BOOLEAN

\* A donor is reminded of a period once, beyond what was forced and what overlapping
\* handlers and deaths account for, unless the key is one that cannot be stored; and has
\* one link at a time to pay with.
RemindersAccounted ==
    LET extra == overlaps + deaths + forced
    IN  /\ \A r \in reminders :
              (r[1] = Sub \/ Fits(freq[r[1]])) => r[3] <= 1 + extra
        /\ \A t \in Targets :
              Cardinality({d \in DOMAIN donation :
                  /\ donation[d].for = t /\ donation[d].link
                  /\ Open(donation[d].status) /\ ~donation[d].archived}) <= 1 + overlaps

\* A donation is thanked for once on a channel by its payment and by the runs together,
\* beyond what overlapping handlers and deaths account for, even if a run is forced.
ThanksNotRepeated == \A t \in thanks : t[3] <= 1 + overlaps + deaths

\* A run that comes to its end has tried everybody it owed a message, if no other handler
\* thanked, paid or changed them meanwhile.  One that must store the key of a week ends
\* there, and leaves out the weeks of the chunks to come, the months and the subscription.
RunReachesDue ==
    [][\A c \in Calls : call[c].op = "job" /\ ~Running(c)' /\ deaths' = deaths =>
         \A t \in call[c].due :
            \/ \E k \in {KeyOf(f, day) : f \in Freqs} \union {SubKey(day)} : <<t, k>> \in tried'
            \/ /\ call[c].pc = "mark" /\ Head(call[c].todo) = "weekly"
               /\ \/ t = Sub
                  \/ freq[t] = "monthly"
                  \/ freq[t] = "weekly" /\ t > call[c].last]_vars

\* The donor's flag says whether a pledge is active, whatever runs and payments overlap,
\* as long as changes of pledges do not.
RecurringFollows ==
    ~crossed /\ (\A c \in Calls : call[c].op \notin Staff) =>
        recurring = \E p \in Pledges : pledge[p].status = "active"
=============================================================================
