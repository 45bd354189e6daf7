------------------------------ MODULE Metering ------------------------------
(***************************************************************************)
(* What one organisation is billed for beyond its tier: the queue's        *)
(* consumers count messages into usage rows, the reporter turns a period's *)
(* overage into claims and the claims into meter events at Stripe, and a   *)
(* plan change raises the period's allowance floor before it asks Stripe.  *)
(* The billing columns follow Stripe through the webhook, some time later. *)
(***************************************************************************)
EXTENDS Integers, FiniteSets, FiniteSetsExt

CONSTANTS
  Devices, Consumers, Managers,
  Plans,            \* the paid tiers
  Free,             \* the tier served when no subscription is live
  Included,         \* messages each tier includes
  IncludedDevices,  \* devices each tier includes
  PoolPerDevice,    \* messages a billed extra device adds
  Batches,          \* how many readings a report may hold
  Faults,           \* which of "post", "resolve", "floor", "update", "killed" may happen
  SlotsPerDay, PeriodSlots, Periods, MaxTime,
  Cadence,          \* fewest slots between the starts of two reporter runs
  MaxMessages, MaxChanges

ASSUME MeteringAssumption ==
  /\ Free \notin Plans /\ IsFiniteSet(Devices)
  /\ Included \in [Plans \cup {Free} -> Nat] /\ IncludedDevices \in [Plans \cup {Free} -> Nat]
  /\ PoolPerDevice \in Nat /\ Batches \subseteq Nat \ {0}
  /\ {SlotsPerDay, PeriodSlots, Cadence} \subseteq Nat \ {0}
  /\ Periods \in Nat \ {0} /\ MaxTime \in 0..(Periods * PeriodSlots - 1)
  /\ MaxMessages \in Nat /\ MaxChanges \in Nat

VARIABLES
  now,          \* the clock, in slots of a day
  sold,         \* Stripe: the subscription as it is
  coming,       \* Stripe: subscription states the webhook has not brought yet
  row,          \* the organisation's billing columns
  usage,        \* billing_usage_periods
  active,       \* pigeons.last_billable_activity
  consumer,     \* the tallies under way
  change,       \* the plan changes under way
  lastRun,      \* billing_reporter_state
  run,          \* the reporter's run
  claims,       \* billing_meter_reports
  received,     \* Stripe: the meter events it took
  mails,        \* warnings sent for each usage row
  owed,         \* history: the most each period's overage ever came to
  best,         \* history: the largest tier allowance the row showed in each period
  seen,         \* history: devices whose report was tallied on each period
  overtaken     \* history: a plan was changed while another change was on its way

metering_vars == <<now, sold, coming, row, usage, active, consumer, change, lastRun, run,
                   claims, received, mails, owed, best, seen, overtaken>>
Stripe == <<sold, coming, received>>
Columns == <<row, usage, active, lastRun, claims>>
History == <<owed, best, seen, overtaken>>

----------------------------------------------------------------------------
(* Periods, tiers and usage rows. *)

Never == -1000
Month == 0                        \* the calendar month's row: MaxTime stays within one month
Start(p) == (p - 1) * PeriodSlots
End(p) == p * PeriodSlots
Day(t) == t \div SlotsPerDay
Within(a) == a.live /\ Start(a.period) <= now /\ now < End(a.period)

\* The row a message is counted on now: the subscription's period, or the month.
UsageKey == IF Within(row) THEN row.period ELSE Month
Served == IF row.live THEN row.plan ELSE Free

Connected(p) == Cardinality({d \in Devices : Start(p) <= active[d] /\ active[d] < End(p)})

\* Mutant of Beyond: what is left of the allowance counts too.
BeyondSigned(total, allowed) == total - allowed

Beyond(total, allowed) == IF total > allowed THEN total - allowed ELSE 0
ExtraDevices(plan, n) == IF plan = Free THEN 0 ELSE Beyond(n, IncludedDevices[plan])

\* The tier's own allowance or the floor, and the pool its extra devices bring.
Allowance(plan, floor, n) == Max({Included[plan], floor}) + ExtraDevices(plan, n) * PoolPerDevice

Counted == MapThenSumSet(LAMBDA k : usage[k].messages, 0..Periods)
Empty == [messages |-> 0, floor |-> 0, warned |-> FALSE, paused |-> FALSE]

\* History of the present period, after a step that changed what counts.
Recount(periods, devices) ==
  /\ best' = [p \in 1..Periods |-> IF row'.live /\ row'.period = p
                THEN Max({best[p], Included[row'.plan]}) ELSE best[p]]
  /\ owed' = [p \in 1..Periods |-> IF row'.live /\ row'.period = p
                THEN Max({owed[p], Beyond(usage'[p].messages, Allowance(row'.plan, best'[p], Connected(p)'))})
                ELSE owed[p]]
  /\ seen' = [p \in 1..Periods |-> IF p \in periods THEN seen[p] \cup devices ELSE seen[p]]
  /\ UNCHANGED overtaken

----------------------------------------------------------------------------
(* Stripe and its webhook. *)

Account == [plan : Plans \cup {Free}, live : BOOLEAN, period : 1..Periods, n : 0..MaxChanges + Periods]
Newer(a, s) == [a EXCEPT !.n = s.n + 1]
Emits(a) == sold' = Newer(a, sold) /\ coming' = coming \cup {Newer(a, sold)}

\* Time passes; a live subscription whose period ends is renewed.
Tick ==
  /\ now < MaxTime
  /\ now' = now + 1
  /\ IF sold.live /\ now' = End(sold.period)
       THEN Emits([sold EXCEPT !.period = @ + 1])
       ELSE UNCHANGED <<sold, coming>>
  /\ UNCHANGED <<row, usage, active, consumer, change, lastRun, run, claims, received, mails>>
  /\ UNCHANGED History

Cancel ==
  /\ sold.live /\ sold.n < MaxChanges
  /\ Emits([sold EXCEPT !.live = FALSE, !.plan = Free])
  /\ UNCHANGED <<now, row, usage, active, consumer, change, lastRun, run, claims, received, mails>>
  /\ UNCHANGED History

\* An older event finds the row newer, and is refused.
Webhook(a) ==
  /\ row' = a
  /\ coming' = {b \in coming : b.n > a.n}
  /\ UNCHANGED <<now, sold, usage, active, consumer, change, lastRun, run, claims, received, mails>>
  /\ Recount({}, {})

----------------------------------------------------------------------------
(* count_billable_messages. *)

Resting == [phase |-> "idle"]
Counting == [phase : {"pause", "warn", "mail"}, key : 0..Periods, count : 0..MaxMessages]

\* Mutant of Stamps: the start of the period does not matter.
StampsThrottled(d, key) == IF active[d] >= now - 1 THEN {active[d], now} ELSE {now}

\* A contact within six hours may leave the stamp, unless it is from before the period.
Stamps(d, key) ==
  IF active[d] >= now - 1 /\ (key = Month \/ active[d] >= Start(key))
    THEN {active[d], now} ELSE {now}

\* One statement finds the account's row, adds to it and stamps the device.
Tally(c, d) ==
  /\ consumer[c] = Resting
  /\ \E count \in Batches :
       LET total == usage[UsageKey].messages + count IN
       /\ Counted + count <= MaxMessages
       /\ usage' = [usage EXCEPT ![UsageKey].messages = total]
       /\ consumer' = [consumer EXCEPT ![c] = IF row.live THEN Resting
            ELSE [phase |-> IF total >= Included[Served] THEN "pause" ELSE "warn",
                  key |-> UsageKey, count |-> total]]
  /\ \E at \in Stamps(d, UsageKey) : active' = [active EXCEPT ![d] = at]
  /\ UNCHANGED <<now, sold, coming, row, change, lastRun, run, claims, received, mails>>
  /\ Recount({UsageKey}, {d})

StampPause(c) ==
  /\ consumer[c].phase = "pause"
  /\ usage' = [usage EXCEPT ![consumer[c].key].paused = TRUE]
  /\ consumer' = [consumer EXCEPT ![c].phase = "warn"]
  /\ UNCHANGED <<now, row, active, change, lastRun, run, claims, mails>>
  /\ UNCHANGED <<Stripe, History>>

\* Mutant of Warns: the count decides, and not the claim.
WarnsByCount(key, count) == count >= (Included[Free] * 8) \div 10

\* Four fifths are reached, and no other consumer has claimed the warning.
Warns(key, count) == count >= (Included[Free] * 8) \div 10 /\ ~usage[key].warned

ClaimWarning(c) ==
  /\ consumer[c].phase = "warn"
  /\ LET key == consumer[c].key IN
     IF Warns(key, consumer[c].count)
       THEN /\ usage' = [usage EXCEPT ![key].warned = TRUE]
            /\ consumer' = [consumer EXCEPT ![c].phase = "mail"]
       ELSE /\ consumer' = [consumer EXCEPT ![c] = Resting]
            /\ UNCHANGED usage
  /\ UNCHANGED <<now, row, active, change, lastRun, run, claims, mails>>
  /\ UNCHANGED <<Stripe, History>>

MailWarning(c) ==
  /\ consumer[c].phase = "mail"
  /\ mails' = [mails EXCEPT ![consumer[c].key] = @ + 1]
  /\ consumer' = [consumer EXCEPT ![c] = Resting]
  /\ UNCHANGED <<now, change, run>>
  /\ UNCHANGED <<Stripe, Columns, History>>

DropTally(c) ==
  /\ "killed" \in Faults /\ consumer[c] # Resting
  /\ consumer' = [consumer EXCEPT ![c] = Resting]
  /\ UNCHANGED <<now, change, run, mails>>
  /\ UNCHANGED <<Stripe, Columns, History>>

----------------------------------------------------------------------------
(* PUT /orgs/:org_id/billing/plan. *)

Requested == [phase : {"floor", "update"}, from : Plans \cup {Free}, key : 0..Periods, to : Plans]

ReadPlan(m, to) ==
  /\ change[m] = Resting /\ row.live /\ row.plan # to
  /\ change' = [change EXCEPT ![m] = [phase |-> "floor", from |-> row.plan, key |-> UsageKey, to |-> to]]
  /\ UNCHANGED <<now, consumer, run, mails>>
  /\ UNCHANGED <<Stripe, Columns, History>>

\* GREATEST keeps the highest floor of the period's changes.
Floored(old, new) == Max({old, new})

\* The outgoing tier's allowance, before Stripe: a write that fails refuses the change.
RaiseFloor(m) ==
  /\ change[m].phase = "floor"
  /\ \/ /\ usage' = [usage EXCEPT ![change[m].key].floor = Floored(@, Included[change[m].from])]
        /\ change' = [change EXCEPT ![m].phase = "update"]
     \/ /\ "floor" \in Faults
        /\ change' = [change EXCEPT ![m] = Resting] /\ UNCHANGED usage
  /\ UNCHANGED <<now, row, active, consumer, lastRun, run, claims, mails>>
  /\ UNCHANGED <<Stripe, History>>

\* Stripe reprices the subscription, or the request fails.
UpdateTier(m) ==
  /\ change[m].phase = "update"
  /\ change' = [change EXCEPT ![m] = Resting]
  /\ \/ /\ sold.live /\ sold.n < MaxChanges
        /\ Emits([sold EXCEPT !.plan = change[m].to])
        /\ overtaken' = (overtaken \/ coming # {} \/ row.plan # change[m].from
                                   \/ UsageKey # change[m].key)
     \/ /\ "update" \in Faults \/ ~sold.live
        /\ UNCHANGED <<sold, coming, overtaken>>
  /\ UNCHANGED <<now, consumer, run, received, mails, owed, best, seen>>
  /\ UNCHANGED Columns

----------------------------------------------------------------------------
(* report_billing_meters. *)

Meters == {"messages", "devices"}
\* An identifier names its meter and period, and the messages' one also a day.
Claim == [meter : Meters, period : 1..Periods, day : Nat, quantity : Nat, ident : Nat, posted : BOOLEAN]
Receipt == [meter : Meters, period : 1..Periods, quantity : Nat, ident : Nat, at : 0..MaxTime]
Reporting == [phase : {"sum", "claim", "mark", "post", "devices"}, meter : Meters, period : 1..Periods,
              plan : Plans, devices : Nat, figure : Nat, day : Nat, batch : SUBSET Claim]

Of(meter, p) == {c \in claims : c.meter = meter /\ c.period = p}
Billed(set) == MapThenSumSet(LAMBDA c : c.quantity, set)

\* At most one claim for a meter, a period and a day: ON CONFLICT DO NOTHING.
Claimed(meter, p, day, quantity, ident) ==
  IF \E c \in Of(meter, p) : c.day = day THEN claims
  ELSE claims \cup {[meter |-> meter, period |-> p, day |-> day, quantity |-> quantity,
                     ident |-> ident, posted |-> FALSE]}

\* The cron claims the run, and loads the organisation if its period covers now.
StartRun ==
  /\ run = Resting /\ now >= lastRun + Cadence
  /\ lastRun' = now
  /\ run' = [phase |-> "load"]
  /\ UNCHANGED <<now, row, usage, active, consumer, change, claims, mails>>
  /\ UNCHANGED <<Stripe, History>>

LoadOrg ==
  /\ run.phase = "load"
  /\ run' = IF ~Within(row) \/ row.plan = Free THEN Resting
            ELSE LET p == row.period IN
                 [phase |-> "sum", meter |-> "messages", period |-> p, plan |-> row.plan,
                  devices |-> Connected(p), day |-> 0, batch |-> {},
                  figure |-> Beyond(usage[p].messages, Allowance(row.plan, usage[p].floor, Connected(p)))]
  /\ UNCHANGED <<now, consumer, change, mails>>
  /\ UNCHANGED <<Stripe, Columns, History>>

\* The overage less all that was claimed of it, posted or not.
Delta(over, set) == over - Billed(set)

\* The identifier takes the date of this moment, the claim that of its insert.
SumClaims ==
  /\ run.phase = "sum"
  /\ LET delta == Delta(run.figure, Of("messages", run.period)) IN
     run' = IF delta > 0 THEN [run EXCEPT !.phase = "claim", !.figure = delta, !.day = Day(now)]
            ELSE [run EXCEPT !.phase = "mark", !.figure = 0]
  /\ UNCHANGED <<now, consumer, change, mails>>
  /\ UNCHANGED <<Stripe, Columns, History>>

ClaimMessages ==
  /\ run.phase = "claim"
  /\ claims' = Claimed("messages", run.period, Day(now), run.figure, run.day)
  /\ run' = [run EXCEPT !.phase = "mark", !.figure = 0, !.day = 0]
  /\ UNCHANGED <<now, row, usage, active, consumer, change, lastRun, mails>>
  /\ UNCHANGED <<Stripe, History>>

\* Mutant of Marked: a claim is only marked once Stripe has answered.
MarkedLater(batch) == claims

\* Marked before they are posted: what fails after this is never posted again.
Marked(batch) == (claims \ batch) \cup {[c EXCEPT !.posted = TRUE] : c \in batch}

\* A meter whose name cannot be resolved leaves its claims to a later run.
MarkPosted ==
  /\ run.phase = "mark"
  /\ \/ LET batch == {c \in Of(run.meter, run.period) : ~c.posted} IN
        /\ claims' = Marked(batch)
        /\ run' = [run EXCEPT !.phase = "post", !.batch = batch]
     \/ /\ "resolve" \in Faults
        /\ run' = [run EXCEPT !.phase = "post"] /\ UNCHANGED claims
  /\ UNCHANGED <<now, row, usage, active, consumer, change, lastRun, mails>>
  /\ UNCHANGED <<Stripe, History>>

\* Stripe drops a meter event whose identifier it took within the last day.
Taken(c) ==
  IF \E r \in received : r.meter = c.meter /\ r.period = c.period /\ r.ident = c.ident
                         /\ now < r.at + SlotsPerDay
    THEN received
    ELSE received \cup {[meter |-> c.meter, period |-> c.period, ident |-> c.ident,
                         quantity |-> c.quantity, at |-> now]}

\* A post that fails leaves an undercount.
Post ==
  /\ run.phase = "post"
  /\ \E c \in run.batch :
       /\ run' = [run EXCEPT !.batch = @ \ {c}]
       /\ \/ received' = Taken(c)
          \/ "post" \in Faults /\ UNCHANGED received
  /\ UNCHANGED <<now, sold, coming, consumer, change, mails>>
  /\ UNCHANGED <<Columns, History>>

\* After the messages the devices, and after the devices the run is over.
PostedAll ==
  /\ run.phase = "post" /\ run.batch = {}
  /\ run' = IF run.meter = "devices" THEN Resting ELSE [run EXCEPT !.phase = "devices"]
  /\ UNCHANGED <<now, consumer, change, mails>>
  /\ UNCHANGED <<Stripe, Columns, History>>

\* Mutant of DeviceDay: the claim is dated like the others, by its run.
DeviceDayOfRun(p) == Day(now)

\* The claim is dated at the period's end, so the period has one.
DeviceDay(p) == Day(End(p))

\* Only within the final day, and only above what the tier includes.
ClaimDevices ==
  /\ run.phase = "devices"
  /\ IF End(run.period) - now > SlotsPerDay
       THEN run' = Resting /\ UNCHANGED claims
       ELSE LET extra == ExtraDevices(run.plan, run.devices) IN
            /\ run' = [run EXCEPT !.phase = "mark", !.meter = "devices"]
            /\ claims' = IF extra = 0 THEN claims
                         ELSE Claimed("devices", run.period, DeviceDay(run.period), extra, 0)
  /\ UNCHANGED <<now, row, usage, active, consumer, change, lastRun, mails>>
  /\ UNCHANGED <<Stripe, History>>

KillRun ==
  /\ "killed" \in Faults /\ run # Resting
  /\ run' = Resting
  /\ UNCHANGED <<now, consumer, change, mails>>
  /\ UNCHANGED <<Stripe, Columns, History>>

----------------------------------------------------------------------------

Init ==
  /\ now = 0
  /\ \E plan \in Plans \cup {Free} :
       sold = [plan |-> plan, live |-> plan # Free, period |-> 1, n |-> 0]
  /\ row = sold /\ coming = {}
  /\ usage = [k \in 0..Periods |-> Empty]
  /\ active = [d \in Devices |-> Never]
  /\ consumer = [c \in Consumers |-> Resting] /\ change = [m \in Managers |-> Resting]
  /\ lastRun = Never /\ run = Resting
  /\ claims = {} /\ received = {}
  /\ mails = [k \in 0..Periods |-> 0]
  /\ owed = [p \in 1..Periods |-> 0]
  /\ best = [p \in 1..Periods |-> IF row.live /\ p = 1 THEN Included[row.plan] ELSE 0]
  /\ seen = [p \in 1..Periods |-> {}]
  /\ overtaken = FALSE

Reporter ==
  \/ StartRun \/ LoadOrg \/ SumClaims \/ ClaimMessages \/ MarkPosted
  \/ Post \/ PostedAll \/ ClaimDevices \/ KillRun

Next ==
  \/ Tick \/ Cancel \/ \E a \in coming : Webhook(a)
  \/ \E c \in Consumers :
       \/ \E d \in Devices : Tally(c, d)
       \/ StampPause(c) \/ ClaimWarning(c) \/ MailWarning(c) \/ DropTally(c)
  \/ \E m \in Managers :
       \/ \E to \in Plans : ReadPlan(m, to)
       \/ RaiseFloor(m) \/ UpdateTier(m)
  \/ Reporter

Spec == Init /\ [][Next]_metering_vars

----------------------------------------------------------------------------

MeterTypeOK ==
  /\ now \in 0..MaxTime /\ lastRun \in {Never} \cup 0..now
  /\ sold \in Account /\ row \in Account /\ coming \subseteq Account
  /\ usage \in [0..Periods -> [messages : 0..MaxMessages, floor : Nat, warned : BOOLEAN, paused : BOOLEAN]]
  /\ active \in [Devices -> {Never} \cup 0..now]
  /\ consumer \in [Consumers -> {Resting} \cup Counting]
  /\ change \in [Managers -> {Resting} \cup Requested]
  /\ run \in {Resting, [phase |-> "load"]} \cup Reporting
  /\ claims \subseteq Claim /\ received \subseteq Receipt
  /\ mails \in [0..Periods -> Nat]
  /\ owed \in [1..Periods -> Nat] /\ best \in [1..Periods -> Nat]
  /\ seen \in [1..Periods -> SUBSET Devices] /\ overtaken \in BOOLEAN

\* However the reporter's runs, their deaths and failed posts, late webhooks and plan changes
\* interleave, Stripe is never told of more overage than there has been over the best tier of
\* the period; unless a plan was changed while another change was on its way
\* (usage.rs report_message_overage, post_unposted_reports, raise_message_allowance_floor).
NeverOverbilled ==
  ~overtaken => \A p \in 1..Periods :
    Billed({r \in received : r.meter = "messages" /\ r.period = p}) <= owed[p]

\* A period's extra devices are billed once, whatever the runs of its final day see, and never
\* for more devices than reported since it began (usage.rs report_device_overage).
Reported(p) == {d \in Devices : active[d] >= Start(p)}
DevicesBilledOnce ==
  \A p \in 1..Periods :
    LET billed == {r \in received : r.meter = "devices" /\ r.period = p} IN
    /\ \A r, q \in billed : r = q
    /\ \A r \in billed : r.quantity <= Cardinality(Reported(p))

\* A device whose report was counted on a period is stamped inside it or later, though the
\* stamp is only renewed every six hours (usage.rs record_billable_messages).
CountedIsConnected == \A p \in 1..Periods : seen[p] \subseteq Reported(p)

\* Consumers that cross the threshold together, and die where they may, send one warning
\* between them for a usage row (usage.rs send_allowance_warning).
Mailing(c, k) == consumer[c].phase = "mail" /\ consumer[c].key = k
WarnedOnce ==
  \A k \in 0..Periods :
    /\ mails[k] <= 1
    /\ \A c \in Consumers : Mailing(c, k) => mails[k] = 0 /\ \A b \in Consumers : Mailing(b, k) => b = c
=============================================================================
