# PidgeIoT in TLA+

Specifications, model-checking configurations and machine-checked proofs for
the backend of PidgeIoT, kept beside its code. Paths are relative to the root of
the repository (`src/`).

PidgeIoT is an IoT platform. A Cloudflare Worker, `dovecote`, routes device and
dashboard requests. Each device (a *pigeon*) has a Durable Object that owns its
credential, its access list, its shadow (the configuration the dashboard wants
and the one the device reports) and its latest telemetry. Durable Objects run on
one thread but interleave at every `await`, so what the code has to get right is
what happens between two awaits: what was checked before and is used after, what
memory holds while storage says otherwise, and what is left when one step of
several fails.

## 1. Inventory

### Components

| Part | Source (`dovecote/src`) | State it keeps | Operations | Must hold |
|---|---|---|---|---|
| Pigeon object, NIDD side | `objects/pigeons.rs`, `helpers/nidd.rs` | `pigeon_nidd` row (claim, line, owed and pushed version, notice time, remembered keys), `pigeon_seen`, `NiddInFlight` in memory | uplink callback, dashboard write, delivery report, refresh, delete, create | a device send is stored once; no copy is acknowledged unstored; a claim stands for a live pigeon and its present key; what is owed to the device stays recorded |
| Pigeon object, socket side | `objects/pigeons.rs`, `objects/ws.rs` | the hibernating socket, `shell_waiters` in memory, `pigeon_shadow`, `pigeon_acl`, latest telemetry, log chunks | upgrade, frames, close events, shell command, shadow write, refresh, delete | one socket; one command in flight and always answered; an open socket knows the newest target; a revoked or deleted device keeps nothing |
| Gateway | `lib.rs` | none | routes, NIDD callback gates, NIDD create with its undo | a create that fails leaves nothing behind |
| ThingSpace session | `objects/thingspace.rs` | cached tokens, the session's expiry, login failures | fresh token, one login at a time, retry after a rejected token, latch | the account is never locked by logins; a fresh token is not dropped for a stale one |
| Telemetry queue consumer | `queue.rs` | queue messages | verify, write to the object, acknowledge, store, bill, alert | a reading is billed and stored; a redelivery does no harm |
| Alerts | `helpers/alerts.rs`, `scheduled.rs` | `alert_state` in Postgres | batch walk, transition, scheduled pass | at most one mail per transition |
| Metering | `helpers/usage.rs` | usage counters, meter claims, cadence row | tally, ingest fuse, claim a run, post reports | no double billing |
| Stripe | `helpers/billing.rs`, `helpers/stripe_*.rs` | `stripe_webhook_events`, plan of the organisation | claim event, apply, mark processed | an event has effect once and in order |
| Device limits | `helpers/device_limits.rs` | windows and penalties in memory | try, penalise, expire | a penalty holds for its time |
| Latest telemetry | `helpers/telemetry_latest.rs`, `helpers/telemetry_batch.rs` | the blob | merge, evict to cap, fold legacy rows | the newest value wins; the cap holds |
| Operations probe, status page | `helpers/ops_probe.rs`, `status/` | outcome and incidents in KV | probe, open, close | an incident closes once |
| Accounts, organisations, flocks | `helpers/orgs.rs`, `flocks.rs`, `access.rs` | Postgres rows | single statements or transactions | referential rules |
| Retention | `helpers/retention.rs` | none | deletes by age | idempotent |
| `fancier`, `capsules`, `mailcatch`, `infra`, `schemas`, `scripts` | their directories | none that correctness rests on | views, types, tooling | |

External to the repository: ThingSpace and the carrier, the CoAP (`loft`) and
MQTT (`pigeonhole`) terminators, the device library, Stripe, Kratos, Postgres,
Cloudflare's queue and Durable Object runtime.

### How they interact

A carrier delivers an uplink as an HTTP callback, possibly several times and
under several request ids. The gateway dispatches it into the pigeon's object,
which judges it, may await the telemetry queue, answers, and leaves a *tail*
(downlink through ThingSpace, billing, Postgres mirror) that runs after the
answer. A device with IP holds a WebSocket to the same object, or posts over
HTTPS; the dashboard's requests reach the object through the gateway. Inside the
object, handlers share the SQL tables and two in-memory maps: `NiddInFlight`
(frames being stored and who waits for them) and `shell_waiters` (commands whose
reply is awaited). A consumer drains the queue into the object, Postgres and the
alerts; a cron runs the scheduled alerts, retention and meter reports.

### What is hard

- A copy of a frame may arrive while the first is stored, after it failed, or
  after memory or the record was lost.
- A handler's authorisation, its clock and its view of the row are from before
  an await and are used after it, while delete, create, refresh or another
  device write ran in between.
- Closing a socket and its close event are two moments, and another socket may
  have taken its place in between.
- Four things may end a shell command: its reply, its timer, a dead socket, a
  failed send. A reset of the object takes the waiters away with the callers.
- `delete` is a sequence of statements of which the first removes the owner.
- Pushes are recorded before they are sent, and sent by a tail that may fail.
- The queue delivers at least once and in no order; a consumer acknowledges a
  message before it counts, stores and evaluates it, so what fails afterwards is lost.
- An alert's row is read, judged and written in separate statements by
  consumers, by the pigeon's object and by the scheduled pass, with no lock.
- Stripe's events come in any order, several times, with whole seconds for
  stamps, and the columns they write decide what metering bills meanwhile.
- A meter claim is written, marked as posted, and only then posted.
- Verizon locks the account after failed logins. The count of failures, the
  cached tokens and the login mutex live in three places, across awaits.

`PROJECT.json` lists every such hazard at its line, with the properties that
cover it, and those no module covers yet with the reason.

## 2. Plan

In order of importance. The first seven are done, with proofs of all their safety
properties (section 11).

1. **NiddUplink**: at-most-once ingest, claims and the push of a NIDD pigeon;
   it implements the abstract **UplinkIngest**.
2. **DeviceChannel**: socket, shell relay, shadow push and device writes; it
   implements the abstract **ShellRelay**.
3. **TelemetryQueue**, over **LatestStore** and **ConnectionState**: gateway, queue
   with redelivery, the object's merge, what is recorded after the
   acknowledgement, contact stamps.
4. **Alerts**, over **ConnectionState**: one definition's row between deliveries,
   the scheduled pass, edits and the operator's hold.
5. **Billing**: webhook claim and application under concurrent and unordered
   deliveries, and checkouts that race for the customer.
6. **Metering**: counting, claims, posts and plan changes.
7. **ThingSpaceSession**: login mutex, failure latch, cached tokens.
8. NIDD create: binding, undo, and uplinks that arrive meanwhile, composed with
   the claim part of NiddUplink.
9. Device limits: windows and penalties in a table that is cleared when full.
10. The FOTA span and frame encodings as pure operators.

| Module | Extends | What |
|---|---|---|
| `UplinkIngest` | standard modules | abstract: what a pigeon promises of a NIDD frame |
| `NiddUplink` | instantiates `UplinkIngest` | the NIDD side of one pigeon's object |
| `NiddUplink_proofs`, `NiddIngest_proofs` | `NiddUplink`; the first | theorems; the second holds the refinement |
| `ShellRelay` | none | abstract: what the relay promises a dashboard |
| `DeviceChannel`, `DeviceChannel_proofs` | instantiates `ShellRelay` | the socket side of one pigeon's object |
| `LatestStore` | standard modules | resolving times, merging, evicting, folding legacy rows, as operators |
| `ConnectionState` | standard modules | how long a device has been silent, as operators |
| `TelemetryQueue`, `TelemetryQueue_proofs` | `LatestStore`, `ConnectionState` | a report from the device to what keeps it |
| `Alerts`, `Alerts_proofs` | `ConnectionState` | one alert definition over one pigeon |
| `Billing`, `Billing_proofs` | standard modules | one organisation's billing columns |
| `Metering`, `Metering_proofs` | standard modules | one organisation's usage, claims and meter events |
| `ThingSpaceSession`, `ThingSpaceSession_proofs` | standard modules | the object of an environment that logs in and sends |
| `MC…` | each module | sets and symmetry for TLC |

The modules meet at named places. NiddUplink and DeviceChannel are two sides of
one object and share `refresh_token`, `delete` and the shadow but no in-memory
state; no handler spans both, so each has its own projection of those
operations. A NIDD telemetry frame that NiddUplink stores is TelemetryQueue's
`ReportObject`; what TelemetryQueue evaluates is a batch of Alerts, and the stamps it
leaves on the mirror are the ones Alerts judges; what it counts is a `Tally` of
Metering, whose `row` is the one Billing writes; the tails' downlinks of NiddUplink
are the requests of ThingSpaceSession.

## 3. NiddUplink

One action is one segment of a handler between two awaits; everything it does to
the state, its early returns included, belongs to it.

| Variable | Code |
|---|---|
| `pigeon` | rows `pigeons`, `pigeon_acl` (`owned`) and `pigeon_shadow`; `life` counts the pigeons created under the IMEI, `key` their public keys |
| `row` | `pigeon_nidd`; the claim holds the key that proved it where the code has a time |
| `contact` | `pigeon_seen`, with the life of the device that was seen |
| `inFlight` | `NiddInFlight`: key being stored to the copies waiting for it |
| `att` | the dispatched `nidd_uplink` calls and what each holds across its await |
| `tails` | the futures of `spawn_nidd_tail` and `plan_nidd_push` |
| `now` | the clock, read where the code reads it |
| `applied` | external: versions a downlink brought to the device |
| `stored`, `lapses`, `sent` | history, read by properties only: enqueues or kept logs per frame; losses of the record of a stored frame; pushes ThingSpace answered |

`nidd_uplink` awaits in two places: a copy waiting for the attempt that stores its
frame (`Wait`), and the telemetry enqueue (`StartTelemetry` to `EnqueueDone` or
`EnqueueFailed`). All other arms end in the segment they begin in: `Claim`,
`Unclaimed`, `AnswerFota`, `Paused`, `Repeat`, `RejectBody`, `StoreLog`,
`StoreReport` and so on, one action per arm. `SendAnswered`, `SendUnavailable` and
`SyncReport` are the tails' steps. `UpdateShadow`, `RefreshToken`, `Delete` (also
stopping after its first statements), `Create`, `Missed` and `ReportElsewhere` are
the object's other operations on this state. `Reset` is the runtime dropping what
the object held in memory; the attempt's enqueue may or may not have landed.

`Faults` names every failure a run admits: a refused read or store, a queue that
refuses or takes the message and errs, a row that cannot be read again or
written, an unreadable shadow or connector, an unavailable ThingSpace, an unsent push
that cannot be marked unsent, a partial refresh or delete, a reset.

Abstracted: FOTA chunk bytes, the frame encoding (a frame is its kind, a value
and whether its body decodes) and the signature of a hello (it proves the key it
names). A pigeon recreated under the IMEI keeps the object and so the in-memory
map, as in the code.

`ImplementsIngest` is `UplinkIngest!Spec` under a mapping that forgets everything
about keys, windows and waiting: what a callback carries is the telemetry or log
frame it was dispatched with, its verdict is the outcome it was answered
(ingested, known, judged, or "send again"), `ingested` is `stored` and `forgotten` is
`lapses`. The abstract step `Known` is the heart of it: a copy may be turned away
only if its frame was ingested or somebody judged it.

### Runs

| Run | Asks | Bounds |
|---|---|---|
| `nidd_copies` | `InFlightHeld`, `TurnedAwayWasJudged`, `StoredOncePerLapse`, `ImplementsIngest` | four callbacks, two request ids, two keys remembered, all failures around the enqueue. Four is a storing attempt, a copy under its id, one under another, and one after the key was pushed out. |
| `nidd_claim` | `ClaimedImpliesLive`, `ClaimMatchesKey` | three callbacks, hellos with two keys, two lines, three keys minted, two lives, failing rows, partial delete, reset |
| `nidd_push` | `PushRecordedIsReal`, `OwedStaysTracked` | two uplinks, two dashboard writes, three times, failing sends and rows |
| `nidd_frames` | `TypeOK`, `CallbacksAnswered` under `FairSpec` | two callbacks of any of twelve frames, claimed or not, paused or not, a dashboard write, with unreadable reports, shadows and connectors, failing sends and marks: fires every arm |

The windows (`DeliverySecs`, `PushHold`, `NoticeHold`, `SeenHold`) are small
numbers in the order the code's have; only comparisons with the clock read them.
`MaxTime`, `MaxTarget`, `MaxKey` and `MaxLives` cap the clock, the dashboard's
writes, the keys minted and the pigeons created; each appears in a guard.
Callbacks are symmetric where only safety is checked.

`StoredOncePerLapse` states "stored once" as strongly as the code can keep it: a
row that is not written, a window of keys that moves on, or a reset in the
middle of an enqueue loses the record, and `lapses` counts exactly those. A
frame with no lapse is stored at most once.

`PushRecordedIsReal` excludes two faults. A reset drops the tail that was to send the
push. And the UPDATE with which `send_nidd_downlink` marks an unsent push may itself fail
(`"unmark"`): the code logs it, the push stays recorded as sent, and nothing sends it
until a newer target comes, its delivery window is over or a delivery report says that
the device was missed. `nidd_frames`
admits that fault, `nidd_push` does not.

`OwedStaysTracked` names its one exception: a report of an *older* version over
another surface than NIDD lowers `current_version` without touching
`pigeon_nidd`, so the target is owed again and the row does not say so until the
next dashboard write.

### Fairness

`FairSpec` adds weak fairness to each callback's steps and to the tails: the
runtime resumes a handler whose await is over, and queue and ThingSpace calls end,
well or badly. Callers, the device and the carrier are never obliged to act, and
`Reset` is never fair. `CallbacksAnswered` needs the waiting copies to be woken by
the end of the attempt they wait for, whichever end that is.

## 4. DeviceChannel

| Variable | Code |
|---|---|
| `token` | the token `device_public_key` verifies; 0 without a `pigeons` row |
| `owned` | whether `pigeon_acl` has its rows |
| `target` | `pigeon_shadow.target_version` |
| `kept` | which of `pigeon_telemetry_latest` and `pigeon_log_chunks` hold device data |
| `link` | each upgrade request and the socket it becomes: awaiting the fuse, open, closed by the object but its event still to come, gone; the token it presented, the version it was last sent (`told`) |
| `cmd` | each `execute_shell_command` call: reading its body, waiting, done; what its oneshot channel holds |
| `waiters` | `shell_waiters` |
| `running` | external: the commands that reached the device and may be answered |
| `upload` | device writes between their authorisation and their store: a telemetry frame awaiting the fuse, a log chunk awaiting the fuse and its body, a verified report in the queue |

`Connect` is the token check, `Accept` everything from the fuse's answer to the
snapshot, `UpgradePaused` the 429. `RejectFrame` and `SocketGone` are the ends of
a socket, the second also the close event of one the object closed itself.
`AskShell` is the owner check, `RefuseBody`, `RefuseOffline`, `RefuseBusy` and
`SendShell` the segment after the body, `Resume` and `Timeout` the two arms of
`select!`. `Resume` reads what the channel held, so a timer that fires with a reply
ready may win. `ShellOutput` resolves a waiter, or finds none. `UpdateShadow`,
`RefreshToken`, `Delete` and `DeletePartly` are one segment each. `Reset` drops
the callers and their waiters, and leaves hibernating sockets open or not.

`get_websockets_with_tag` is external: it may or may not still list a socket that
the object closed and whose handshake is unfinished (`Listings`), and the code's
choice of the first listed socket is any of them.

Left out: pings, the flood window, the stamp `pigeon_seen` over the socket, the
content of reports and `current_version`, the Postgres mirror, the firmware check
of a dashboard write (it is an await, so `owned` does not guard the write).

`ImplementsRelay` is `ShellRelay!Spec` under `PhaseOf` and `AnswerOf`: a request is new,
asked, sent, heard (its channel holds output), cut (its channel was dropped) or
answered, and the HTTP status is read as what the dashboard learns. Sockets,
waiters and their order disappear from view; what remains is that one command is
outstanding, that output is only delivered after the device returned it, and
that every request is answered once and as it ended.

### Runs

| Run | Asks | Bounds |
|---|---|---|
| `channel_relay` | `OneOpenSocket`, `WaitersServed`, `ImplementsRelay` | three sockets (one open, two racing upgrades), two commands, one refresh, failing sends, reset |
| `channel_served` | `ChannelTypeOK`, `OpenSocketCurrent`, `AskedIsAnswered` under `FairSpec` | two sockets, a command, a device write, a dashboard write, a refresh, partial delete, reset; no failing send |
| `channel_cancel` | `CancelledByOwnSocket` is **violated** | two sockets and a command |

`MaxToken` bounds the tokens minted and `MaxTarget` the dashboard's writes. A push
or a snapshot whose send fails is logged and dropped, so `OpenSocketCurrent` is
stated where sends work; with failing sends the device catches up at its next
poll or reconnect.

`FairSpec` adds weak fairness to the handler's own steps: a request's body ends
or errs, a reply held is taken, a timer fires. The device, its socket and the
owner are obliged to nothing, which is the point of `AskedIsAnswered`.

## 5. Telemetry

`LatestStore` is the pure part: `ResolveAt` and `ResolveBatch` turn a device's
claims of time into chronological readings, `MergeBatch` folds them into the
latest values and keeps what stood there before each (`previous`), `EvictToCap` drops
the least recently reported keys but never the report's own, `FoldLegacyRows` is the
migration. A value is named for the reading that brought it. `Merged` takes the
readings one by one, as the code's loop does, and is a recursive function, so that
it can be reasoned about.

`TelemetryQueue` runs a delivery through them: `ReportHttp` (resolved at the gateway,
merged by the consumer), `ReportObject` (socket and NIDD, merged in the object and
enqueued as the outcome), `Take`, `StampSeen`, the two dispatch paths
(`WriteAnswered`, `EndpointRead`, with an answer that is lost as `WriteUnheard`, a
refusal as `CallFails`), and after the acknowledgement `CountMessages`,
`StoreHistory`, `CheckAlerts`. `NoteSeen`, `ContactHttp`, `ContactObject` and
`StampArrives` are the contact stamps: written at most once per `StampHold`, sent to
the mirror by the gateway or with a message, in any order.

The rows of the table a migration has not dropped may be of any time up to the
start of the behaviour, and of any keys (`Legacy`).

`telemetry` asks six questions of two deliveries and two consumers. The one body is
out of order, repeats a key, is backdated past the window and dated ahead of the
clock; the store holds two of three keys and an unfinished migration may run
twice. `MaxTries` 2 lets a message be given up. The run's faults are a lost or
unparsable answer, a refusal, a queue that refuses, a killed invocation and a
migration that does not drop its table. `"tail"` and `"stamp"` are in the module and
off in the run: a failed part of the tail records less, and a stamp that is not
written exempts `StampCoversContact`.

- `StoreHoldsNewest`: each key holds the newest reading merged since it entered the
  store, which stays within its cap; `MergeKeepsItsOwn`: a merge never evicts what it
  brought, nor takes an entry back in time.
- `RecordedOnce`: a reading is counted and kept at most once, because the
  acknowledgement comes first. A redelivery *after* an acknowledgement, which the
  queue's contract allows, is not modelled.
- `NoStepFromItself`: a rate of change is never judged against the reading itself.
  The exception is a write that was stored, whose answer was lost, and which is
  written again: its own values are then the previous ones.
- `StampCoversContact`: with no stamp lost or on its way, the mirror shows the object's
  newest stamp, and the window it is credited with reaches the last contact.

## 6. Alerts

One definition over one pigeon: `row` is its `alert_state` row, `job` the evaluations
under way, `hold` and `toggle` the operator's suspend and resume in the object and
on the mirror, `heard` what Postgres knows of the device. `LookUp` and `SweepLookUp`
are the two queries for the definitions that apply, `SweepSeen` the scheduled
pass's read of the silence, `ReadRow` the upsert that answers the row and the
decision on it, `WriteRow` the unconditional update, `SendMail` the best-effort
mail, `FailStatement` a failed statement (the loop goes on with the next reading) and
`Killed` the end of an invocation. `EditDefinition` leaves the row as it was,
`DeleteDefinition` takes it along. Suspend stamps the object, then the mirror, then
resets the row; resume clears the mirror first.

Pure parts: `NextTransition`, `ShouldFire`, `ShouldResolve`, `Debounce`, `Written`, and
`TransitionsToApply`, which keeps only the ends of runs of equal truth; the value
comparison of a reading is an input. `BatchIsSequential` checks that shortcut against
the definition it stands for, sending every reading through. An evaluation keeps
what is left to send on as places of its batch (`todo`), which stays whole: the
readings are those of the code's list, in its order.

`alerts` runs two evaluations and two toggles, one condition of each of the five
kinds (a device state is offline or stale), single readings and a buffered run, a window of two ticks over a clock of
two, four acts (reports, evaluations, edits, suspends and resumes) in any order.
The silence windows are small there, `StaleAfter` one tick and the others zero: what
they mean is `StampCoversContact`'s question. The code keeps its promises only where nothing overlaps, and each
property says which of the recorded `lapses` exempts it:

| Lapse | What happened | Exempts |
|---|---|---|
| `overlap` | an evaluation or a reset read the row while another had decided and not written | the mail, hold and start properties |
| `failed` | a statement failed or an invocation ended | the hold properties |
| `edit` | the condition changed under a row that keeps its start | the hold properties |
| `deleted` | the definition went, and its row | `OneMailPerTransition` |
| `late` | an evaluation that began before a suspend wrote after its reset | the reset half of `HeldPigeonRests` |
| `crossed` | a suspend and a resume were under way at once | `SplitOneWay` |

Everything else is inside: readings out of order, backdated batches, the pass
and deliveries in turn, edits and holds between any two steps.

## 7. Billing

Stripe is the environment: `Buy`, `Turn` and `Reprice` change a subscription and
create events in whole seconds; `inbox` holds what no delivery has answered with a
200, so events come again and in any order. `BeginCheckout` and `AttachCreated` are
the checkout route, which creates a customer and then attaches it if the column is
still empty. `Deliver` is the claim of an event, `Attach` and `Fetch` the two extra awaits
of a completed checkout, `Apply` the one UPDATE with its two guards (`Takes`: whose
row it is; `Fresh`: nothing newer is in it), `Mark` the `processed_at` and the answer,
`Die` the end of the invocation or a failed statement.

`billing` has two managers, two subscriptions, two deliveries at once and four
events. Statuses are one live, two ended. `Gaps = {1}`: events of the run have
distinct seconds; with a shared second the guard `<=` lets the later arrival win,
which section 10 records. The theorems hold for shared seconds too.

- `CustomerKept`: once chosen, the organisation's customer never changes.
- `NothingSwallowed`: an event marked processed was applied, found something at
  least as new, or was turned away by the match (`missed`); its own claim never
  hides it.
- `RowFollowsStripe`: once the deliveries are quiet and none of the subscription's
  events was turned away, the columns show what an event of its newest second says.

## 8. Metering

`Tally` is the consumer's statement that finds the period, adds to it and stamps
the device, with `Stamps` the six-hour throttle; `StampPause`, `ClaimWarning` and
`MailWarning` follow it. `ReadPlan`, `RaiseFloor` and `UpdateTier` are the plan change route,
which raises the period's allowance floor before it asks Stripe. The reporter is
`StartRun` (the cadence row), `LoadOrg`, `SumClaims`, `ClaimMessages`, `MarkPosted`,
`Post`, `PostedAll`, `ClaimDevices`, and may end anywhere (`KillRun`). Renewal,
cancellation and the webhook that brings them late are the environment, and
Stripe drops a meter event whose identifier it took within a day (`Taken`).

Time is in slots of eight hours: three to a day, periods of four, two periods
within one calendar month. A run may start two slots after the last
(`Cadence`), which admits every spacing the code's twenty hours do and some
shorter. `metering` has two devices, consumers and tiers, one manager, two messages,
one plan change or cancellation.

- `NeverOverbilled`: Stripe is never told of more overage than there has been over
  the best tier of the period, except where one plan change overtook another (`overtaken`).
- `DevicesBilledOnce`: one report of extra devices per period, of no more devices
  than reported since it began.
- `CountedIsConnected`: a device whose message was counted is stamped in the period
  or later, though the stamp is throttled.
- `WarnedOnce`: one warning for a usage row, whoever crosses the threshold.

Marking before posting trades a lost post for a double one: a failed post is an
undercount and no property says otherwise. A claim whose INSERT fails is not
modelled; complimentary grants count as the free tier.

## 9. ThingSpaceSession

An action runs from one answer of Verizon to the next call: the runtime lets
nothing in while the object awaits its storage. `EnsureTokens` and `Locked` are
`ensure_tokens` before and after the mutex, `OAuthAnswers`, `OAuthFails`, `LoginAnswers`,
`BearerFault` and `LoginFails` the login, `RunEnds` and `RunFails` what it leaves in
the count and the cache, `MailLatch` the email, `Sent`, `Rejected` and `SendFails` the
send with its one retry. `used` and `strikes` are Verizon's own view: when each
session was last used, and the failures in a row.

A slot of the clock is long enough for a request with all its waits and calls
(each call is given ten seconds), which the guard of `Tick` states. `SessionIdle` 1
and `VerizonIdle` 3 keep the order and the two-slot gap that fifteen and twenty
minutes have; `AccessMargin` is one slot. `WindowsAssumption` states what
`HeldAtVerizon` needs of these numbers and no more: two slots between the last time
a session is reused and the moment Verizon drops it, and an access token that
lives for two. `MaxLost` bounds the failures that go
unrecorded, by a failed write or a restart, and `MaxSessions` the sessions.

- `StrikesBounded`: Verizon sees at most two failed logins in a row plus those whose
  record was lost, and the latch mails once; exempt is a run that got an access
  token only and cleared the count (`spared`).
- `HeldAtVerizon`: a message goes out under a session that has not idled out and a
  token that has not expired, though both were judged before the waits. Writes of
  the cache succeed there: section 10 says what a failed one leaves behind.
- `LatchStands`: once latched, only changed credentials open it.

All runs set `CHECK_DEADLOCK FALSE`: when an instance has used up its callbacks,
messages, events or clock the system rests, since nobody has to call it.
## 10. Findings

- `channel_cancel`: the close event of a replaced socket clears every waiter, that
  of a command sent over the new socket included. The dashboard reads 502 and the
  device runs the command. The comment of `clear_shell_waiters` argues that this
  cannot happen because there is one socket; a closed socket's event outlives it.

Met while modelling and not given a run of their own. Those a property would
trip over appear in it as a named exception.

Pigeon object:

- An uplink awaiting its enqueue while its pigeon is deleted writes `pigeon_seen`
  back afterwards; a pigeon created next under the IMEI inherits the contact
  (`objects/pigeons.rs:1438`, `:3582`).
- An upgrade verifies the token, awaits the ingest fuse and is accepted without a
  second look: a refresh or delete meanwhile closes nothing (`:1926`;
  `docs/api.md:3121`).
- A device write authorised before a delete and resumed after it stores data in
  the emptied object (`:2872`, `:1419`).
- `nidd_uplink` reads its clock before the enqueue and plans its reply with it
  afterwards, so `pushed_at` may go back by the time the enqueue took.
- "A `SHADOW` that could not be sent is marked unpushed ... so it is due again at once"
  (`:3806`) does not hold when that UPDATE fails, which is only logged (`:3843`).

Alerts:

- Two overlapping evaluations decide on the same row and both mail
  (`helpers/alerts.rs:1300`); one begun before a suspend may write after its reset
  (`:1166`).
- A suspend and a resume under way at once may leave the mirror suspended and the
  object not (`lib.rs:2510`).
- An edited condition inherits `first_true_at` and may fire early.
- "A climb is measured step by step" (`:862`) does not hold for a backdated batch
  that arrives after a newer live report.

Billing and metering:

- A purchase whose events overtake the cancellation of the old subscription is
  turned away by the match and answered 200 (`lib.rs:6064`).
- Two events of one second are applied in the order of arrival.
- A checkout event whose fetch fails is answered 200, although the lifecycle
  events may have been turned away before it attached the customer (`lib.rs:6126`);
  when attaching fails while another manager's customer has won, the purchase stays
  with an orphan (`lib.rs:5580`).
- The allowance floor misses a tier when one change overtakes another
  (`helpers/usage.rs:221`); a stamp throttled before a late renewal may leave a
  device uncounted (`:1181`); messages during a late renewal land on the month's row.
- The identifier's date and the claim's are read at two moments: across midnight an
  identifier may repeat, and Stripe drop the second report. A device claim computed
  under one tier and not resolved may be posted to another tier's meter.

ThingSpace session:

- The comment of `count_after_run` (`objects/thingspace.rs:178`) argues that clearing
  the count after an OAuth-only run keeps the bound of two strikes. A send in flight
  may touch the old session fresh again; such a run then clears the count without
  Verizon having seen a login succeed, and it sees three failures in a row.
- An OAuth-only run writes back a session another request just dropped.
- "A failed write only costs a login later" (`write_tokens`): a later touch stamps the
  session the failed write was to replace.

## 11. Proofs

Proved with TLAPS, for every value of the constants that satisfies the named
assumptions: any number of callbacks, request ids, frames, sockets, commands,
deliveries, readings, keys, evaluations, subscriptions, devices, consumers and
requests, any windows and bounds, any set of admitted faults (where a theorem
excludes some, it says so). Every invariant, action property and refinement that a
passing run checks has its theorem; what is left to TLC is at the end of this
section.

The assumptions on constants are what the code gives: a batch is in the order of
its times, because `telemetry_batch.rs:135` sorts it; there are finitely many keys,
because a key has at most `MAX_TELEMETRY_KEY_BYTES` bytes; `SESSION_IDLE_SECS` is
fifteen minutes where ThingSpace drops a session after twenty of inactivity
(`docs/design/nidd-connector.md:85`), and a request takes less than half of the difference. The rest
type the constants.

Several properties are about values defined by recursion: the store after a batch,
a row after a run of readings, a sum over claims. The library's induction theorems
take an operator as a parameter and cannot be used here. Their place is taken by the
least counterexample: `LeastSet` and `LeastNat` find, from the library's `WFMin`, a
least element of a set of counterexamples, and a proof then shows that a smaller
one exists. The set is named in each proof, so no operator is a parameter.

`NiddUplink_proofs`:

- `TypesHold`: `[]TypeOK`. The inductive invariant is `TypeInv`, the type
  invariant and `Dispatched`: an attempt that is not idle carries a key.
- `HeldExactly`: `[]InFlightHeld`, inductive together with `TypeInv`. At most one
  attempt stores a frame, and the map holds exactly the waiting copies. The
  argument is per action: an arm that ends at once touches neither (`ArmsEnd`),
  `Wait` and `StartTelemetry` add to both, and the end of an enqueue removes the
  frame and wakes all its waiters (`SettledHeld`).
- `StoredOncePerLapseHolds`: the property is not inductive, since an attempt
  whose enqueue is under way is about to add a store. `Ledger` strengthens it: while
  a frame is being stored, or the row has no settled key of it, the count of stores
  is at most the count of lapses. That an attempt storing a frame is alone is
  `InFlightHeld`.
- `ClaimedHolds`: `[]ClaimedImpliesLive`, inductive with `TypeInv`, since no await
  lies between the check of the pigeon's key and the claim.
- `ClaimMatchesHolds`: `[]ClaimMatchesKey`, assuming that a refresh does not fail
  between its two statements (`"unclaim" \notin Faults`); with that failure
  it is false, which is why the assumption is stated.
- `PushRecordedHolds`: `[]PushRecordedIsReal`, assuming `"reset"` and `"unmark"` not in
  `Faults`: either leaves a push on record that nothing will send (section 3), and the
  property is false with it. The property
  says nothing of whose push it was, so `PushIsReal` adds it: the push of a row was
  answered in this pigeon's life, or a tail of this life carries exactly it. Every plan
  of the handler leaves the push as it is, drops it, or makes the one it records
  (`Pushing`), and a tail that fails marks only its own as unsent.
- `OwedTracked`: `OwedStaysTracked`, an action property, from the types alone: every
  plan records what is on record as owed or what is owed (`Owing`). It assumes that
  the shadow to push can be read and that a dashboard write's plan is written
  (`"shadowRead"`, `"planPush"` not in `Faults`): the code logs either failure and goes on,
  and what is owed then may not be on record.

`NiddIngest_proofs`:

- `JudgedHolds`: `[]TurnedAwayWasJudged`. A copy is turned away on the word of a
  remembered key, or woken by the attempt it waited for, so `Judgements` says of each
  key in the row and of each waiter what was decided about its frame, and that only
  a frame that does not decode was rejected.
- `IngestImplemented`: `Spec => ImplementsIngest`. Every action is one abstract step or a
  stutter, under `Judgements`, `Ledger` and `InFlightHeld`: the first permits `Known`,
  the second `Ingest`.

`DeviceChannel_proofs`:

- `ChannelTypesHold`: `[]ChannelTypeOK`, inductive by itself.
- `OneOpenHolds`: `[]OneOpenSocket`. `WhoOpens` shows that only `Accept` opens a
  socket and closes all others in the same segment; every other step leaves the
  set of open sockets or shrinks it.
- `WaitersHold`: `[]WaitersServed`, inductive with the types: each step that ends a
  command takes its waiter away, and `SendShell` adds one only to an empty map.
- `CurrentHolds`: `[]OpenSocketCurrent`, assuming `"send" \notin Faults`. The write
  and the push are one segment, and so are the acceptance and its snapshot.
- `RelayImplemented`: `Spec => ImplementsRelay`. The commands still unresolved are the
  waiters (`WaitersServed`), which is what makes `SendShell` the abstract `Send` with
  nothing outstanding.

`Billing_proofs`: `NothingIsSwallowed` and `CustomerIsKept`, from one invariant: the
types; `Known` (a running delivery works on an event that was created); `Bound` (a
row with a subscription has that subscription's customer, and so has whatever
`Apply` matches); `Judged` (a delivery about to mark was applied, refused as older, or
is in `missed`). `RowFollows` adds `Follows`, which ties four places to the events that
explain them: what Stripe holds is said by an event nothing is newer than
(`Mirrored`), what a delivery is about to write by one no older than its own
(`Carried`: the state is fetched after the event was made), the row by one no older
than its second (`Shown`), and an answered event is at most as new as the row
(`AnsweredFor`). When no event is left unanswered the row's event is therefore of the
newest second.

`TelemetryQueue_proofs`, from one invariant `IInv`:

- `NewestHeld`, `OwnKeysStay`: the store after a batch, for any batch. `Merged` only moves
  entries forward and keeps what it brought, and an eviction takes entries no newer
  than any it leaves, none of them the report's (`NewestIsOfStore`), down to the cap.
- `NothingTwice`: `OwnDelivery` gives a consumer at work its delivery alone, and
  `NothingRecorded` says that before its phase nothing was counted or stored of it.
- `StepsBetween`: `OwnSteps`, of the readings in a message and in a consumer's hands
  alike: a previous value of the same delivery is of an earlier reading of it, unless
  the delivery was merged twice.
- `ContactCovered`: `StampsBehind` bounds the object's stamp by the last contact and every
  copy of it by the stamp; `StampOnItsWay` says that the newest is on the mirror, under
  way, or in a message not yet acknowledged, while none was lost.
- `QueueTypes`: `[]QueueTypeOK`, whose readings and stores are the types a merge keeps.

`Alerts_proofs`:

- `StandingDecision` is the heart of it (`DecisionsStand`): without an overlap one
  evaluation has decided at a time, and its decision is the one it would still take
  over the row as it stands. `OneMail` follows with `MailsOfTurns`.
- `FiresAfterHold` and `NoisyHeld` need to know what the row says of the readings behind
  it: `RowKeepsSpell` reads the row, or the row an evaluation is about to write, as the
  spell of true readings so far, and `DecidedOnSpell` carries it to the decision.
- `StartKnown`, `HeldRests` and `SplitIsOneWay`: a firing row has its start; the row of
  a held pigeon is at rest (`HeldIsMirrored`); one request at a time holds or frees the
  pigeon, the object before the mirror and after it (`OneToggle`).
- `EndsAreEnough`: `BatchIsSequential`, by least counterexample over the prefixes of a
  batch: a reading inside a run of equal truth leaves the row as its neighbour left it.

`Metering_proofs`:

- `CountedConnected`: with `StampsPast`, a stamp is never ahead of the clock, so one the
  throttle leaves alone is from within the period.
- `OneWarning`: `Claims` says that a row whose flag is not claimed has had no mail and
  has nobody about to send one, so the claim makes its taker the only one.
- `MeterTypes`: `[]MeterTypeOK`. What it takes beyond the types is that claims and receipts
  stay finite, so that their sums are numbers, and that a change always finds a number
  (`Numbered`).
- `NoOverbilling`: `[]NeverOverbilled`, a chain of four inequalities between sums: what
  Stripe took of a period is at most what is marked and out of the batch (`Posts`),
  that is at most what was claimed, and that is at most what was owed (`WithinOwed`, for
  the figure in the run's hands as well). The last needs that the overage the columns
  show is within what is owed (`Covers`), hence that the floor was raised before a
  change shows (`Raised`, `Calm`), over the order in which Stripe's states come (`Ordered`).
  A day has one claim (`OneADay`), so that marking and posting move one quantity.
- `DevicesOnce`: `RunShaped` ties the run's step to its meter, `DeviceClaims` bounds the
  one claim a period has by the devices seen, `DevicePosts` follows it through the
  batch to Stripe: it is unposted, in the batch, or received, once.

`ThingSpaceSession_proofs`: `StrikesHold` and `LatchHolds`, from `Exclusive` (whoever is
logging in holds the mutex, and nobody else does), `HeldIsStored` (the count it read
is still the stored one), `Counted` (strikes are at most the stored count and the
lost records) and `Mailed`.

`HeldInTime` is `[]HeldAtVerizon`, by `InUse`: a cached session is the last one Verizon gave
and its time is at most a slot ahead of its use (`Timely`), and a request is in the slot
it began in or the next, so that the session it took was in use when it looked, or was
replaced since it began (`Current`). The gap of `WindowsAssumption` pays for both slots.
Where a write of the cache may fail the property promises nothing, and nothing is proved.

Only model-checked: the two liveness properties, `CallbacksAnswered` and `AskedIsAnswered`,
because fairness is stated with ENABLED, which the prover does not reason about; and the
violation `CancelledByOwnSocket`, which is a counterexample. Where a theorem excludes a
fault, the run of its property excludes it too, and the property is false with it.

## 12. Not modelled

The gateway's NIDD create with its undo and the callback gates, device limits and the
operations probe: section 2 has the first two in the plan. Accounts, organisations,
flocks, access control and retention are single Postgres statements or transactions
with no state between requests. The web client, the shared types and the tooling hold
no state the system's correctness rests on; whether a body is accepted by a shared
validation rule is a choice in the models. Frame and FOTA encodings are abstracted.
Of Stripe, the customer portal, the tax identity and the events that only mail or log
are left out; of metering, complimentary grants, the entitlement caps and the fuse's
own reading of the counter.

Most of the repository's lines are of that kind: routes that validate and run one
statement, views, message texts, types and their tests.
