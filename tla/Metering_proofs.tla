-------------------------- MODULE Metering_proofs --------------------------
(***************************************************************************)
(* What holds of metering for any number of devices, consumers, plan       *)
(* changes, runs and periods: a counted device is a connected one, one     *)
(* warning goes out for a usage row, a period's extra devices are billed   *)
(* once, and its messages are never billed beyond the overage there was.   *)
(*                                                                         *)
(* The last is about sums over sets of claims.  A fact about the sum of a  *)
(* set is proved by taking a least set that refutes it (LeastSet).         *)
(***************************************************************************)
EXTENDS Metering, WellFoundedInduction, FiniteSetTheorems, TLAPS

Subscription == [plan : Plans \cup {Free}, live : BOOLEAN, period : 1..Periods, n : Int]
UsageRow == [messages : Int, floor : Int, warned : BOOLEAN, paused : BOOLEAN]
Tallies == [phase : {"pause", "warn", "mail"}, key : 0..Periods, count : Int]

(* The part of the type invariant that the arguments below rest on. *)
Typed ==
  /\ now \in 0..MaxTime
  /\ sold \in Subscription /\ row \in Subscription /\ coming \subseteq Subscription
  /\ usage \in [0..Periods -> UsageRow]
  /\ active \in [Devices -> Int]
  /\ consumer \in [Consumers -> {Resting} \cup Tallies]
  /\ change \in [Managers -> {Resting} \cup Requested]
  /\ mails \in [0..Periods -> Nat]
  /\ seen \in [1..Periods -> SUBSET Devices]

(* A stamp is never ahead of the clock. *)
StampsPast == \A d \in Devices : active[d] <= now

(* A warning that went out, or is about to, was claimed in its usage row. *)
Claims ==
  \A k \in 0..Periods : ~usage[k].warned => mails[k] = 0 /\ \A c \in Consumers : ~Mailing(c, k)

----------------------------------------------------------------------------

LEMMA LargerOfTwo == ASSUME NEW a \in Int, NEW b \in Int PROVE Max({a, b}) \in {a, b}
  BY DEF Max

LEMMA Sizes ==
  /\ Periods \in Nat \ {0} /\ MaxTime \in Nat /\ Batches \subseteq Nat
  /\ Included \in [Plans \cup {Free} -> Nat]
  BY MeteringAssumption

LEMMA Multiples ==
  ASSUME NEW a \in Nat, NEW b \in Nat, NEW q \in Nat, a >= b PROVE a * q >= b * q
<1> DEFINE m == a - b
<1>1. m \in Nat /\ a = b + m OBVIOUS
<1>2. (b + m) * q = b * q + m * q BY <1>1
<1>3. m * q \in Nat /\ b * q \in Nat BY <1>1
<1> HIDE DEF m
<1> QED BY <1>1, <1>2, <1>3

LEMMA EmitsTyped ==
  ASSUME Typed, NEW a \in Subscription, Emits(a)
  PROVE sold' \in Subscription /\ coming' \subseteq Subscription
<1>1. Newer(a, sold) \in Subscription
  <2>1. sold.n + 1 \in Int BY DEF Typed, Subscription
  <2> QED BY <2>1 DEF Newer, Subscription
<1> QED BY <1>1 DEF Emits, Typed

LEMMA RowsTyped ==
  ASSUME Typed, NEW k \in 0..Periods
  PROVE /\ [usage[k] EXCEPT !.paused = TRUE] \in UsageRow
        /\ [usage[k] EXCEPT !.warned = TRUE] \in UsageRow
  <1>1. usage[k] \in UsageRow BY DEF Typed
  <1> QED BY <1>1 DEF UsageRow

LEMMA RowChanges ==
  ASSUME NEW u \in UsageRow, NEW n \in Int
  PROVE [u EXCEPT !.floor = n] \in UsageRow /\ [u EXCEPT !.messages = n] \in UsageRow
  BY DEF UsageRow

LEMMA KeyTyped == ASSUME Typed PROVE UsageKey \in 0..Periods
  BY MeteringAssumption DEF Typed, UsageKey, Within, Month, Subscription

LEMMA TypedInit == Init => Typed /\ StampsPast
  BY MeteringAssumption DEF Init, Typed, StampsPast, Subscription, UsageRow, Empty, Never

(* The clock ends before the last period does, so a renewal finds another. *)
LEMMA RenewalFits ==
  ASSUME Typed, Tick, sold.live, now' = End(sold.period) PROVE sold.period < Periods
<1>1. now' \in Nat /\ now' <= MaxTime /\ MaxTime < Periods * PeriodSlots /\ now' = sold.period * PeriodSlots
  BY MeteringAssumption DEF Tick, End, Typed
<1>2. sold.period \in Nat /\ Periods \in Nat /\ PeriodSlots \in Nat /\ MaxTime \in Nat
  BY MeteringAssumption, Sizes DEF Typed, Subscription
<1>3. sold.period * PeriodSlots \in Nat /\ Periods * PeriodSlots \in Nat BY <1>2
<1>4. ~(sold.period >= Periods) BY <1>1, <1>2, <1>3, Multiples
<1> QED BY <1>2, <1>4

LEMMA TickTyped == Typed /\ Tick => Typed'
<1> SUFFICES ASSUME Typed, Tick PROVE Typed' OBVIOUS
<1> USE Sizes
<1>1. now' \in 0..MaxTime BY DEF Typed, Tick
<1>2. sold' \in Subscription /\ coming' \subseteq Subscription
  <2>1. CASE sold.live /\ now' = End(sold.period)
    <3>2. sold.period < Periods BY <2>1, RenewalFits
    <3>3. [sold EXCEPT !.period = sold.period + 1] \in Subscription
      <4>1. sold \in Subscription /\ sold.period + 1 \in 1..Periods
        BY <3>2 DEF Typed, Subscription
      <4> QED BY <4>1 DEF Subscription
    <3> QED BY <2>1, <3>3, EmitsTyped DEF Tick
  <2>2. CASE ~(sold.live /\ now' = End(sold.period))
    BY <2>2 DEF Tick, Typed
  <2> QED BY <2>1, <2>2
<1> QED BY <1>1, <1>2 DEF Tick, Typed, History, Requested, Subscription

LEMMA TallyTyped ==
  ASSUME Typed, NEW c \in Consumers, NEW d \in Devices, Tally(c, d) PROVE Typed'
<1> USE Sizes
<1>1. UsageKey \in 0..Periods BY KeyTyped
<1>2. PICK count \in Batches :
        /\ usage' = [usage EXCEPT ![UsageKey].messages = usage[UsageKey].messages + count]
        /\ consumer' = [consumer EXCEPT ![c] = IF row.live THEN Resting
             ELSE [phase |-> IF usage[UsageKey].messages + count >= Included[Served] THEN "pause" ELSE "warn",
                   key |-> UsageKey, count |-> usage[UsageKey].messages + count]]
  BY DEF Tally
<1>3. usage[UsageKey].messages + count \in Int BY <1>1 DEF Typed, UsageRow
<1>4. consumer' \in [Consumers -> {Resting} \cup Tallies]
  BY <1>1, <1>2, <1>3 DEF Typed, Tallies
<1>5. usage' \in [0..Periods -> UsageRow]
  <2>1. usage[UsageKey] \in UsageRow BY <1>1 DEF Typed
  <2>2. [usage[UsageKey] EXCEPT !.messages = usage[UsageKey].messages + count] \in UsageRow
    BY <2>1, <1>3, RowChanges
  <2> QED BY <1>2, <2>2 DEF Typed
<1>6. active' \in [Devices -> Int] BY DEF Tally, Stamps, Typed
<1>7. seen' \in [1..Periods -> SUBSET Devices] BY DEF Tally, Recount, Typed
<1> QED BY <1>4, <1>5, <1>6, <1>7 DEF Tally, Typed

LEMMA FloorTyped == ASSUME Typed, NEW m \in Managers, RaiseFloor(m) PROVE Typed'
<1> USE Sizes
<1>1. change[m] \in Requested BY DEF RaiseFloor, Typed, Resting
<1>2. change' \in [Managers -> {Resting} \cup Requested]
  <2>1. [change[m] EXCEPT !.phase = "update"] \in Requested BY <1>1 DEF Requested
  <2> QED BY <2>1 DEF RaiseFloor, Typed
<1>3. usage[change[m].key].floor \in Int /\ Included[change[m].from] \in Int
  BY <1>1 DEF Typed, Requested, UsageRow
<1>4. Floored(usage[change[m].key].floor, Included[change[m].from]) \in Int
  BY <1>3, LargerOfTwo DEF Floored
<1>5. usage' \in [0..Periods -> UsageRow]
  <2>1. usage[change[m].key] \in UsageRow BY <1>1 DEF Requested, Typed
  <2>2. [usage[change[m].key] EXCEPT !.floor = Floored(usage[change[m].key].floor, Included[change[m].from])]
          \in UsageRow
    BY <1>4, <2>1, RowChanges
  <2> QED BY <2>1, <2>2 DEF RaiseFloor, Typed
<1> QED BY <1>2, <1>5 DEF RaiseFloor, Typed, History, Stripe

LEMMA TypedStep == Typed /\ [Next]_metering_vars => Typed'
<1> SUFFICES ASSUME Typed, [Next]_metering_vars PROVE Typed' OBVIOUS
<1> USE Sizes
<1>1. CASE Tick BY <1>1, TickTyped
<1>2. CASE Cancel
  <2>1. [sold EXCEPT !.live = FALSE, !.plan = Free] \in Subscription BY DEF Typed, Subscription
  <2> QED BY <1>2, <2>1, EmitsTyped DEF Cancel, Typed, History
<1>3. ASSUME NEW a \in coming, Webhook(a) PROVE Typed'
  <2>1. seen' \in [1..Periods -> SUBSET Devices] BY <1>3 DEF Webhook, Recount, Typed
  <2> QED BY <1>3, <2>1 DEF Webhook, Typed
<1>4. ASSUME NEW c \in Consumers, NEW d \in Devices, Tally(c, d) PROVE Typed'
  BY <1>4, TallyTyped
<1>5. ASSUME NEW c \in Consumers, StampPause(c) PROVE Typed'
  <2>1. consumer[c] \in Tallies BY <1>5 DEF StampPause, Typed, Resting
  <2>2. [usage[consumer[c].key] EXCEPT !.paused = TRUE] \in UsageRow
    <3>1. consumer[c].key \in 0..Periods BY <2>1 DEF Tallies
    <3> QED BY <3>1, RowsTyped
  <2>3. [consumer[c] EXCEPT !.phase = "warn"] \in Tallies BY <2>1 DEF Tallies
  <2> QED BY <1>5, <2>2, <2>3 DEF StampPause, Typed, Stripe, History
<1>6. ASSUME NEW c \in Consumers, ClaimWarning(c) PROVE Typed'
  <2>1. consumer[c] \in Tallies BY <1>6 DEF ClaimWarning, Typed, Resting
  <2>2. [usage[consumer[c].key] EXCEPT !.warned = TRUE] \in UsageRow
    <3>1. consumer[c].key \in 0..Periods BY <2>1 DEF Tallies
    <3> QED BY <3>1, RowsTyped
  <2>3. [consumer[c] EXCEPT !.phase = "mail"] \in Tallies BY <2>1 DEF Tallies
  <2> QED BY <1>6, <2>2, <2>3 DEF ClaimWarning, Typed, Stripe, History
<1>7. ASSUME NEW c \in Consumers, MailWarning(c) PROVE Typed'
  <2>1. consumer[c] \in Tallies BY <1>7 DEF MailWarning, Typed, Resting
  <2> QED BY <1>7, <2>1 DEF MailWarning, Typed, Tallies, Stripe, History, Columns
<1>8. ASSUME NEW c \in Consumers, DropTally(c) PROVE Typed'
  BY <1>8 DEF DropTally, Typed, Stripe, History, Columns
<1>9. ASSUME NEW m \in Managers, NEW to \in Plans, ReadPlan(m, to) PROVE Typed'
  <2>1. [phase |-> "floor", from |-> row.plan, key |-> UsageKey, to |-> to] \in Requested
    BY KeyTyped DEF Requested, Typed, Subscription
  <2> QED BY <1>9, <2>1 DEF ReadPlan, Typed, Stripe, History, Columns
<1>10. ASSUME NEW m \in Managers, RaiseFloor(m) PROVE Typed'
  BY <1>10, FloorTyped
<1>11. ASSUME NEW m \in Managers, UpdateTier(m) PROVE Typed'
  <2>1. change[m] \in Requested BY <1>11 DEF UpdateTier, Typed, Resting
  <2>2. change' \in [Managers -> {Resting} \cup Requested] BY <1>11 DEF UpdateTier, Typed
  <2>3. sold' \in Subscription /\ coming' \subseteq Subscription
    <3>1. [sold EXCEPT !.plan = change[m].to] \in Subscription
      BY <2>1 DEF Typed, Subscription, Requested
    <3> QED BY <1>11, <3>1, EmitsTyped DEF UpdateTier, Typed
  <2> QED BY <1>11, <2>2, <2>3 DEF UpdateTier, Typed, Columns
<1>12. CASE Reporter
  BY <1>12 DEF Reporter, StartRun, LoadOrg, SumClaims, ClaimMessages, MarkPosted, Post, PostedAll,
     ClaimDevices, KillRun, Typed, Stripe, Columns, History
<1>13. CASE UNCHANGED metering_vars BY <1>13 DEF metering_vars, Typed
<1> QED BY <1>1, <1>2, <1>3, <1>4, <1>5, <1>6, <1>7, <1>8, <1>9, <1>10, <1>11, <1>12, <1>13 DEF Next

----------------------------------------------------------------------------
(* A counted device is a connected one. *)

LEMMA CountedInit == Init => CountedIsConnected
  BY DEF Init, CountedIsConnected

(* A step that stamps no device and counts none leaves both as they are. *)
LEMMA StampsLeft ==
  ASSUME Typed, StampsPast, CountedIsConnected, now' \in Nat, now' >= now, active' = active, seen' = seen
  PROVE StampsPast' /\ CountedIsConnected'
  BY DEF Typed, StampsPast, CountedIsConnected, Reported, Start

LEMMA TallyCounts ==
  ASSUME Typed, StampsPast, CountedIsConnected, NEW c \in Consumers, NEW d \in Devices, Tally(c, d)
  PROVE StampsPast' /\ CountedIsConnected'
<1>1. PICK at \in Stamps(d, UsageKey) : active' = [active EXCEPT ![d] = at]
  BY DEF Tally
<1>2. at \in Int /\ active[d] <= at /\ at <= now
  BY <1>1 DEF Stamps, Typed, StampsPast
<1>3. ASSUME UsageKey # Month PROVE at >= Start(UsageKey)
  <2>1. UsageKey = row.period /\ Start(row.period) <= now
    BY <1>3 DEF UsageKey, Within
  <2> QED BY <1>1, <1>3, <2>1 DEF Stamps
<1>4. StampsPast' BY <1>1, <1>2 DEF StampsPast, Typed, Tally
<1>5. \A e \in Devices : active'[e] >= active[e] /\ active[e] \in Int /\ active'[e] \in Int
  BY <1>1, <1>2 DEF Typed
<1>6. ASSUME NEW p \in 1..Periods, NEW e \in seen'[p] PROVE e \in Reported(p)'
  <2>1. Start(p) \in Int BY MeteringAssumption DEF Start
  <2>2. CASE e \in seen[p]
    BY <2>1, <2>2, <1>5 DEF CountedIsConnected, Reported, Typed, Start
  <2>3. CASE e \notin seen[p]
    <3>1. p = UsageKey /\ e = d BY <1>6, <2>3 DEF Tally, Recount, Typed
    <3>2. p # Month BY DEF Month
    <3>3. active'[e] = at BY <1>1, <3>1 DEF Typed
    <3> QED BY <1>3, <3>1, <3>2, <3>3 DEF Reported, Start
  <2> QED BY <2>2, <2>3
<1> QED BY <1>4, <1>6 DEF CountedIsConnected

LEMMA CountedStep ==
  ASSUME Typed, StampsPast, CountedIsConnected, [Next]_metering_vars
  PROVE StampsPast' /\ CountedIsConnected'
<1>1. ASSUME NEW c \in Consumers, NEW d \in Devices, Tally(c, d) PROVE StampsPast' /\ CountedIsConnected'
  BY <1>1, TallyCounts
<1>2. CASE now' = now /\ active' = active /\ seen' = seen
  BY <1>2, StampsLeft DEF Typed
<1>3. CASE Tick
  <2>1. now' \in Nat /\ now' >= now BY <1>3 DEF Tick, Typed
  <2> QED BY <1>3, <2>1, StampsLeft DEF Tick, History
<1>4. ASSUME NEW a \in coming, Webhook(a) PROVE now' = now /\ active' = active /\ seen' = seen
  BY <1>4 DEF Webhook, Recount, Typed
<1>5. ASSUME NEW c \in Consumers, StampPause(c) \/ ClaimWarning(c) \/ MailWarning(c) \/ DropTally(c)
      PROVE now' = now /\ active' = active /\ seen' = seen
  BY <1>5 DEF StampPause, ClaimWarning, MailWarning, DropTally, History, Columns
<1>6. ASSUME NEW m \in Managers, (\E to \in Plans : ReadPlan(m, to)) \/ RaiseFloor(m) \/ UpdateTier(m)
      PROVE now' = now /\ active' = active /\ seen' = seen
  BY <1>6 DEF ReadPlan, RaiseFloor, UpdateTier, History, Columns
<1>7. ASSUME Reporter PROVE now' = now /\ active' = active /\ seen' = seen
  BY <1>7 DEF Reporter, StartRun, LoadOrg, SumClaims, ClaimMessages, MarkPosted, Post, PostedAll,
     ClaimDevices, KillRun, History, Columns
<1>8. ASSUME Cancel \/ UNCHANGED metering_vars PROVE now' = now /\ active' = active /\ seen' = seen
  BY <1>8 DEF Cancel, metering_vars, History
<1> QED BY <1>1, <1>2, <1>3, <1>4, <1>5, <1>6, <1>7, <1>8 DEF Next

(* Every device whose report was counted on a period is stamped in it or later. *)
THEOREM CountedConnected == Spec => []CountedIsConnected
<1>1. Init => Typed /\ StampsPast /\ CountedIsConnected BY TypedInit, CountedInit
<1>2. Typed /\ StampsPast /\ CountedIsConnected /\ [Next]_metering_vars
      => (Typed /\ StampsPast /\ CountedIsConnected)'
  BY TypedStep, CountedStep
<1> QED BY <1>1, <1>2, PTL DEF Spec

----------------------------------------------------------------------------
(* One warning for a usage row. *)

Warned == Claims /\ WarnedOnce

LEMMA WarnedInit == Init => Warned
  BY MeteringAssumption DEF Init, Warned, Claims, WarnedOnce, Mailing, Resting, Empty

(* A step that starts no mail, sends none and unclaims nothing cannot warn twice. *)
LEMMA NothingMailed ==
  ASSUME Typed, Warned, mails' = mails,
         \A k \in 0..Periods : usage[k].warned => usage'[k].warned,
         \A c \in Consumers, k \in 0..Periods : Mailing(c, k)' => Mailing(c, k)
  PROVE Warned'
  BY DEF Warned, Claims, WarnedOnce

LEMMA ConsumerWarns ==
  ASSUME Typed, Warned, NEW c \in Consumers, ClaimWarning(c) PROVE Warned'
<1>1. consumer[c] \in Tallies BY DEF ClaimWarning, Typed, Resting
<1> DEFINE key == consumer[c].key
<1>2. key \in 0..Periods BY <1>1 DEF Tallies
<1>3. CASE Warns(key, consumer[c].count)
  <2>1. /\ usage' = [usage EXCEPT ![key].warned = TRUE]
        /\ consumer' = [consumer EXCEPT ![c].phase = "mail"] /\ mails' = mails /\ ~usage[key].warned
    BY <1>3 DEF ClaimWarning, Warns
  <2>2. mails[key] = 0 /\ \A b \in Consumers : ~Mailing(b, key)
    BY <1>2, <2>1 DEF Warned, Claims
  <2>3. \A k \in 0..Periods : usage'[k].warned = (IF k = key THEN TRUE ELSE usage[k].warned)
    BY <1>2, <2>1 DEF Typed, UsageRow
  <2>4. \A b \in Consumers, k \in 0..Periods :
          Mailing(b, k)' <=> (IF b = c THEN k = key ELSE Mailing(b, k))
    BY <1>1, <2>1 DEF Mailing, Typed, Tallies
  <2>5. Claims' BY <2>1, <2>3, <2>4, <1>2 DEF Warned, Claims
  <2>6. ASSUME NEW k \in 0..Periods, NEW b \in Consumers, Mailing(b, k)'
        PROVE mails'[k] = 0 /\ \A d \in Consumers : Mailing(d, k)' => d = b
    <3>1. CASE k = key BY <3>1, <2>1, <2>2, <2>4, <2>6
    <3>2. CASE k # key BY <3>2, <2>1, <2>4, <2>6 DEF Warned, WarnedOnce
    <3> QED BY <3>1, <3>2
  <2>7. \A k \in 0..Periods : mails'[k] <= 1 BY <2>1 DEF Warned, WarnedOnce
  <2> QED BY <2>5, <2>6, <2>7 DEF Warned, WarnedOnce
<1>4. CASE ~Warns(key, consumer[c].count)
  <2>1. mails' = mails /\ usage' = usage /\ consumer' = [consumer EXCEPT ![c] = Resting]
    BY <1>4 DEF ClaimWarning
  <2>2. \A b \in Consumers, k \in 0..Periods : Mailing(b, k)' => Mailing(b, k)
    BY <2>1 DEF Mailing, Typed, Resting
  <2> QED BY <2>1, <2>2, NothingMailed
<1> QED BY <1>3, <1>4

LEMMA ConsumerMails ==
  ASSUME Typed, Warned, NEW c \in Consumers, MailWarning(c) PROVE Warned'
<1>1. consumer[c] \in Tallies BY DEF MailWarning, Typed, Resting
<1> DEFINE key == consumer[c].key
<1>2. key \in 0..Periods /\ Mailing(c, key) BY <1>1 DEF Tallies, Mailing, MailWarning
<1>3. usage' = usage BY DEF MailWarning, Columns
<1>4. \A b \in Consumers, k \in 0..Periods : Mailing(b, k)' <=> b # c /\ Mailing(b, k)
  BY DEF MailWarning, Mailing, Typed, Resting
<1>5. \A k \in 0..Periods : mails'[k] = (IF k = key THEN mails[k] + 1 ELSE mails[k])
  BY <1>2 DEF MailWarning, Typed
<1>6. mails[key] = 0 /\ usage[key].warned /\ \A b \in Consumers : Mailing(b, key) => b = c
  BY <1>2 DEF Warned, Claims, WarnedOnce
<1>7. Claims' BY <1>3, <1>4, <1>5, <1>6 DEF Warned, Claims
<1>8. WarnedOnce'
  <2>1. ASSUME NEW k \in 0..Periods PROVE mails'[k] <= 1
    BY <1>5, <1>6, <2>1 DEF Warned, WarnedOnce, Typed
  <2>2. ASSUME NEW k \in 0..Periods, NEW b \in Consumers, Mailing(b, k)'
        PROVE mails'[k] = 0 /\ \A d \in Consumers : Mailing(d, k)' => d = b
    <3>1. b # c /\ Mailing(b, k) BY <2>2, <1>4
    <3>2. k # key BY <3>1, <1>6
    <3> QED BY <3>1, <3>2, <1>4, <1>5 DEF Warned, WarnedOnce
  <2> QED BY <2>1, <2>2 DEF WarnedOnce
<1> QED BY <1>7, <1>8 DEF Warned

LEMMA WarnedStep == ASSUME Typed, Warned, [Next]_metering_vars PROVE Warned'
<1>1. ASSUME NEW c \in Consumers, NEW d \in Devices, Tally(c, d) PROVE Warned'
  <2>1. UsageKey \in 0..Periods BY KeyTyped
  <2>2. PICK count \in Batches :
          /\ usage' = [usage EXCEPT ![UsageKey].messages = usage[UsageKey].messages + count]
          /\ consumer' = [consumer EXCEPT ![c] = IF row.live THEN Resting
               ELSE [phase |-> IF usage[UsageKey].messages + count >= Included[Served] THEN "pause" ELSE "warn",
                     key |-> UsageKey, count |-> usage[UsageKey].messages + count]]
    BY <1>1 DEF Tally
  <2>3. \A k \in 0..Periods : usage'[k].warned = usage[k].warned BY <2>1, <2>2 DEF Typed, UsageRow
  <2>4. \A b \in Consumers, k \in 0..Periods : Mailing(b, k)' => Mailing(b, k)
    BY <2>2 DEF Mailing, Typed, Resting
  <2>5. mails' = mails BY <1>1 DEF Tally
  <2> QED BY <2>3, <2>4, <2>5, NothingMailed
<1>2. ASSUME NEW c \in Consumers, StampPause(c) PROVE Warned'
  <2>1. consumer[c] \in Tallies BY <1>2 DEF StampPause, Typed, Resting
  <2>2. \A k \in 0..Periods : usage'[k].warned = usage[k].warned
    BY <1>2, <2>1 DEF StampPause, Typed, UsageRow, Tallies
  <2>3. \A b \in Consumers, k \in 0..Periods : Mailing(b, k)' => Mailing(b, k)
    BY <1>2, <2>1 DEF StampPause, Mailing, Typed, Tallies
  <2>4. mails' = mails BY <1>2 DEF StampPause
  <2> QED BY <2>2, <2>3, <2>4, NothingMailed
<1>3. ASSUME NEW c \in Consumers, ClaimWarning(c) PROVE Warned' BY <1>3, ConsumerWarns
<1>4. ASSUME NEW c \in Consumers, MailWarning(c) PROVE Warned' BY <1>4, ConsumerMails
<1>5. ASSUME NEW c \in Consumers, DropTally(c) PROVE Warned'
  <2>1. \A b \in Consumers, k \in 0..Periods : Mailing(b, k)' => Mailing(b, k)
    BY <1>5 DEF DropTally, Mailing, Typed, Resting
  <2>2. mails' = mails /\ usage' = usage BY <1>5 DEF DropTally, Columns
  <2> QED BY <2>1, <2>2, NothingMailed
<1>6. ASSUME NEW m \in Managers, RaiseFloor(m) PROVE Warned'
  <2>1. change[m] \in Requested BY <1>6 DEF RaiseFloor, Typed, Resting
  <2>2. \A k \in 0..Periods : usage'[k].warned = usage[k].warned
    <3>1. change[m].key \in 0..Periods BY <2>1 DEF Requested
    <3>2. \A v : \A k \in 0..Periods :
            [usage EXCEPT ![change[m].key] = [usage[change[m].key] EXCEPT !.floor = v]][k].warned = usage[k].warned
      BY <3>1 DEF Typed, UsageRow
    <3>3. usage' = usage \/ \E v : usage' =
            [usage EXCEPT ![change[m].key] = [usage[change[m].key] EXCEPT !.floor = v]]
      BY <1>6 DEF RaiseFloor
    <3>4. CASE usage' = usage BY <3>4
    <3>5. ASSUME NEW v, usage' =
                   [usage EXCEPT ![change[m].key] = [usage[change[m].key] EXCEPT !.floor = v]]
          PROVE \A k \in 0..Periods : usage'[k].warned = usage[k].warned
      <4>1. \A k \in 0..Periods :
              [usage EXCEPT ![change[m].key] = [usage[change[m].key] EXCEPT !.floor = v]][k].warned
                = usage[k].warned
        BY <3>2
      <4> QED BY <3>5, <4>1
    <3> QED BY <3>3, <3>4, <3>5
  <2>3. mails' = mails /\ consumer' = consumer BY <1>6 DEF RaiseFloor
  <2> QED BY <2>2, <2>3, NothingMailed DEF Mailing
<1>7. CASE mails' = mails /\ usage' = usage /\ consumer' = consumer
  BY <1>7, NothingMailed DEF Mailing
<1>8. ASSUME Tick \/ Cancel \/ (\E a \in coming : Webhook(a)) \/ UNCHANGED metering_vars
      PROVE mails' = mails /\ usage' = usage /\ consumer' = consumer
  BY <1>8 DEF Tick, Cancel, Webhook, metering_vars
<1>9. ASSUME NEW m \in Managers, (\E to \in Plans : ReadPlan(m, to)) \/ UpdateTier(m)
      PROVE mails' = mails /\ usage' = usage /\ consumer' = consumer
  BY <1>9 DEF ReadPlan, UpdateTier, Columns
<1>10. ASSUME Reporter PROVE mails' = mails /\ usage' = usage /\ consumer' = consumer
  BY <1>10 DEF Reporter, StartRun, LoadOrg, SumClaims, ClaimMessages, MarkPosted, Post, PostedAll,
     ClaimDevices, KillRun, Columns
<1> QED BY <1>1, <1>2, <1>3, <1>4, <1>5, <1>6, <1>7, <1>8, <1>9, <1>10 DEF Next

(* However many consumers cross the threshold together, and die where they may, a usage row's
   owner gets one warning. *)
THEOREM OneWarning == Spec => []WarnedOnce
<1>1. Init => Typed /\ Warned BY TypedInit, WarnedInit
<1>2. Typed /\ Warned /\ [Next]_metering_vars => (Typed /\ Warned)'
  BY TypedStep, WarnedStep
<1>3. Warned => WarnedOnce BY DEF Warned
<1> QED BY <1>1, <1>2, <1>3, PTL DEF Spec

----------------------------------------------------------------------------
(* A period's extra devices are billed once. *)

Phases == {"idle", "load", "sum", "claim", "mark", "post", "devices"}

(* The run, and the claims, have their fields.  What a figure is does not matter here. *)
RunShaped ==
  /\ run.phase \in Phases
  /\ run.phase \notin {"idle", "load"} =>
       /\ run = [phase |-> run.phase, meter |-> run.meter, period |-> run.period, plan |-> run.plan,
                 devices |-> run.devices, day |-> run.day, batch |-> run.batch, figure |-> run.figure]
       /\ run.meter \in Meters /\ run.period \in 1..Periods /\ run.plan \in Plans
       /\ run.devices \in Nat /\ run.devices <= Cardinality(Reported(run.period))
  /\ run.phase \in {"sum", "claim"} => run.meter = "messages"

ClaimShaped(c) ==
  /\ c = [meter |-> c.meter, period |-> c.period, day |-> c.day, quantity |-> c.quantity,
          ident |-> c.ident, posted |-> c.posted]
  /\ c.posted \in BOOLEAN /\ c.period \in 1..Periods

ForDevices(set, p) == {c \in set : c.meter = "devices" /\ c.period = p}

(* A period has one claim for its devices, dated at the period's end. *)
DeviceClaims ==
  /\ \A c \in claims : ClaimShaped(c)
  /\ \A c \in claims : c.meter = "devices" =>
       c.day = DeviceDay(c.period) /\ c.quantity \in Nat /\ c.quantity <= Cardinality(Reported(c.period))
  /\ \A p \in 1..Periods : \A b, c \in ForDevices(claims, p) : b = c

Pending == IF run.phase = "post" THEN run.batch ELSE {}

(* What is being posted is marked already and not received; what was received is marked. *)
DevicePosts ==
  /\ run.phase \in {"sum", "claim", "mark", "devices"} => run.batch = {}
  /\ \A p \in 1..Periods :
       /\ \A c \in ForDevices(Pending, p) :
            /\ [c EXCEPT !.posted = TRUE] \in claims /\ ClaimShaped(c)
            /\ ForDevices(received, p) = {}
            /\ c.quantity \in Nat /\ c.quantity <= Cardinality(Reported(p))
       /\ \A b, c \in ForDevices(Pending, p) : b = c
       /\ \A r \in ForDevices(received, p) :
            /\ \E c \in ForDevices(claims, p) : c.posted
            /\ r.quantity \in Nat /\ r.quantity <= Cardinality(Reported(p))
       /\ \A r, q \in ForDevices(received, p) : r = q

DeviceInv == RunShaped /\ DeviceClaims /\ DevicePosts

LEMMA DeviceInit == Init => DeviceInv
  BY DEF Init, DeviceInv, RunShaped, DeviceClaims, DevicePosts, Pending, ForDevices, Resting, Phases

(* Devices that reported since a period began only grow in number. *)
LEMMA ReportedGrows ==
  ASSUME Typed, active' \in [Devices -> Int], \A d \in Devices : active'[d] >= active[d]
  PROVE \A p \in 1..Periods : /\ Cardinality(Reported(p)) \in Nat /\ Cardinality(Reported(p)') \in Nat
                              /\ Cardinality(Reported(p)) <= Cardinality(Reported(p)')
<1> SUFFICES ASSUME NEW p \in 1..Periods
             PROVE /\ Cardinality(Reported(p)) \in Nat /\ Cardinality(Reported(p)') \in Nat
                   /\ Cardinality(Reported(p)) <= Cardinality(Reported(p)')
  OBVIOUS
<1>1. Start(p) \in Int /\ Start(p)' = Start(p) BY MeteringAssumption DEF Start
<1>2. Reported(p) \subseteq Reported(p)' BY <1>1 DEF Reported, Typed
<1>3. IsFiniteSet(Reported(p)) /\ IsFiniteSet(Reported(p)')
  BY MeteringAssumption, FS_Subset DEF Reported
<1> QED BY <1>2, <1>3, FS_Subset, FS_CardinalityType

(* The stamp of a device never goes back. *)
LEMMA StampsForward ==
  ASSUME Typed, StampsPast, [Next]_metering_vars
  PROVE active' \in [Devices -> Int] /\ \A d \in Devices : active'[d] >= active[d]
<1>1. ASSUME NEW c \in Consumers, NEW d \in Devices, Tally(c, d)
      PROVE \A e \in Devices : active'[e] >= active[e]
  <2>1. PICK at \in Stamps(d, UsageKey) : active' = [active EXCEPT ![d] = at]
    BY <1>1 DEF Tally
  <2>2. at \in Int /\ active[d] <= at BY <2>1 DEF Stamps, Typed, StampsPast
  <2> QED BY <2>1, <2>2 DEF Typed
<1>2. ASSUME Tick \/ Cancel \/ (\E a \in coming : Webhook(a)) \/ UNCHANGED metering_vars
      PROVE active' = active
  BY <1>2 DEF Tick, Cancel, Webhook, metering_vars
<1>3. ASSUME NEW c \in Consumers, StampPause(c) \/ ClaimWarning(c) \/ MailWarning(c) \/ DropTally(c)
      PROVE active' = active
  BY <1>3 DEF StampPause, ClaimWarning, MailWarning, DropTally, Columns
<1>4. ASSUME NEW m \in Managers, (\E to \in Plans : ReadPlan(m, to)) \/ RaiseFloor(m) \/ UpdateTier(m)
      PROVE active' = active
  BY <1>4 DEF ReadPlan, RaiseFloor, UpdateTier, Columns
<1>5. ASSUME Reporter PROVE active' = active
  BY <1>5 DEF Reporter, StartRun, LoadOrg, SumClaims, ClaimMessages, MarkPosted, Post, PostedAll,
     ClaimDevices, KillRun, Columns
<1>6. Typed' BY TypedStep
<1> QED BY <1>1, <1>2, <1>3, <1>4, <1>5, <1>6 DEF Next, Typed

LEMMA RunLeft ==
  ASSUME Typed, StampsPast, [Next]_metering_vars, DeviceInv, UNCHANGED <<run, claims, received>>
  PROVE DeviceInv'
<1>1. \A p \in 1..Periods : /\ Cardinality(Reported(p)) \in Nat /\ Cardinality(Reported(p)') \in Nat
                            /\ Cardinality(Reported(p)) <= Cardinality(Reported(p)')
  BY ReportedGrows, StampsForward
<1>0. UNCHANGED <<run, claims, received>> OBVIOUS
<1>2. RunShaped' BY <1>0, <1>1 DEF DeviceInv, RunShaped
<1>3. DeviceClaims' BY <1>1 DEF DeviceInv, DeviceClaims, ClaimShaped, ForDevices
<1>4. DevicePosts'
  BY <1>1 DEF DeviceInv, DevicePosts, Pending, ForDevices, ClaimShaped
<1> QED BY <1>2, <1>3, <1>4 DEF DeviceInv

(* The reporter stamps no device. *)
LEMMA SameReports == ASSUME active' = active PROVE \A p \in 1..Periods : Reported(p)' = Reported(p)
  BY DEF Reported, Start

LEMMA CountTyped == \A p \in 1..Periods : Cardinality(Reported(p)) \in Nat
<1> SUFFICES ASSUME NEW p \in 1..Periods PROVE Cardinality(Reported(p)) \in Nat OBVIOUS
<1>1. IsFiniteSet(Reported(p)) BY MeteringAssumption, FS_Subset DEF Reported
<1> QED BY <1>1, FS_CardinalityType

(* The run is given nothing to post: what is to be posted only shrinks. *)
LEMMA PostsLeft ==
  ASSUME DevicePosts, claims' = claims, received' = received, active' = active,
         Pending' \subseteq Pending,
         run'.phase \in {"sum", "claim", "mark", "devices"} => run'.batch = {}
  PROVE DevicePosts'
  BY SameReports DEF DevicePosts, ForDevices, ClaimShaped

LEMMA LoadDevices ==
  ASSUME Typed, DeviceInv, LoadOrg PROVE DeviceInv'
<1>1. active' = active /\ claims' = claims /\ received' = received BY DEF LoadOrg, Columns, Stripe
<1>2. DeviceClaims' BY <1>1, SameReports DEF DeviceInv, DeviceClaims, ForDevices, ClaimShaped
<1>3. CASE run' = Resting
  <2>1. RunShaped' BY <1>3 DEF RunShaped, Resting, Phases
  <2>2. DevicePosts' BY <1>1, <1>3, PostsLeft DEF DeviceInv, Pending, Resting
  <2> QED BY <1>2, <2>1, <2>2 DEF DeviceInv
<1>4. CASE run' # Resting
  <2> DEFINE p == row.period
             figure == Beyond(usage[p].messages, Allowance(row.plan, usage[p].floor, Connected(p)))
  <2>1. /\ run' = [phase |-> "sum", meter |-> "messages", period |-> p, plan |-> row.plan,
                   devices |-> Connected(p), day |-> 0, batch |-> {}, figure |-> figure]
        /\ p \in 1..Periods /\ row.plan \in Plans
    BY <1>4 DEF LoadOrg, Typed, Subscription
  <2>2. Connected(p) \in Nat /\ Connected(p) <= Cardinality(Reported(p))
    <3>1. {d \in Devices : Start(p) <= active[d] /\ active[d] < End(p)} \subseteq Reported(p)
      BY MeteringAssumption, <2>1 DEF Reported, Start, Typed
    <3>2. IsFiniteSet(Reported(p)) BY MeteringAssumption, FS_Subset DEF Reported
    <3> QED BY <3>1, <3>2, FS_Subset, FS_CardinalityType DEF Connected
  <2> HIDE DEF figure
  <2>4. RunShaped'
    BY <2>1, <2>2, <1>1, SameReports DEF RunShaped, Phases, Meters
  <2>5. DevicePosts' BY <1>1, <2>1, PostsLeft DEF DeviceInv, Pending
  <2> QED BY <1>2, <2>4, <2>5 DEF DeviceInv
<1> QED BY <1>3, <1>4

(* Whatever a run puts in its figure, its next phase keeps the shape. *)
LEMMA SumDevices ==
  ASSUME Typed, DeviceInv, SumClaims PROVE DeviceInv'
<1>1. active' = active /\ claims' = claims /\ received' = received BY DEF SumClaims, Columns, Stripe
<1>2. DeviceClaims' BY <1>1, SameReports DEF DeviceInv, DeviceClaims, ForDevices, ClaimShaped
<1> DEFINE delta == Delta(run.figure, Of("messages", run.period))
<1>3. \/ run' = [run EXCEPT !.phase = "claim", !.figure = delta, !.day = Day(now)]
      \/ run' = [run EXCEPT !.phase = "mark", !.figure = 0]
  BY DEF SumClaims
<1> HIDE DEF delta
<1>4. run.phase = "sum" BY DEF SumClaims
<1>5. RunShaped'
  BY <1>1, <1>3, <1>4, SameReports DEF DeviceInv, RunShaped, Phases
<1>6. run'.batch = {} /\ run'.phase \in {"claim", "mark"}
  BY <1>3, <1>4 DEF DeviceInv, RunShaped, DevicePosts
<1>7. DevicePosts' BY <1>1, <1>6, PostsLeft DEF DeviceInv, Pending
<1> QED BY <1>2, <1>5, <1>7 DEF DeviceInv

(* A claim of messages is no claim of devices. *)
LEMMA MessageDevices ==
  ASSUME Typed, DeviceInv, ClaimMessages PROVE DeviceInv'
<1>1. active' = active /\ received' = received /\ run.phase = "claim"
  BY DEF ClaimMessages, Stripe
<1>2. run' = [run EXCEPT !.phase = "mark", !.figure = 0, !.day = 0] BY DEF ClaimMessages
<1>3. \/ claims' = claims
      \/ claims' = claims \cup {[meter |-> "messages", period |-> run.period, day |-> Day(now),
                                 quantity |-> run.figure, ident |-> run.day, posted |-> FALSE]}
  BY DEF ClaimMessages, Claimed
<1>4. RunShaped' BY <1>1, <1>2, SameReports DEF DeviceInv, RunShaped, Phases
<1>5. \A p \in 1..Periods : ForDevices(claims', p) = ForDevices(claims, p)
  BY <1>3 DEF ForDevices
<1>6. DeviceClaims'
  <2>1. run.period \in 1..Periods BY <1>1 DEF DeviceInv, RunShaped
  <2> DEFINE new == [meter |-> "messages", period |-> run.period, day |-> Day(now),
                     quantity |-> run.figure, ident |-> run.day, posted |-> FALSE]
  <2>4. ClaimShaped(new) /\ new.meter # "devices" BY <2>1 DEF ClaimShaped
  <2>5. claims' = claims \/ claims' = claims \cup {new} BY <1>3
  <2> HIDE DEF new
  <2>2. \A c \in claims' : c \in claims \/ (ClaimShaped(c) /\ c.meter # "devices")
    BY <2>4, <2>5
  <2>3. \A p \in 1..Periods : \A b, c \in ForDevices(claims', p) : b = c
    BY <1>5 DEF DeviceInv, DeviceClaims
  <2> QED BY <1>1, <2>2, <2>3, SameReports DEF DeviceInv, DeviceClaims, ClaimShaped, ForDevices
<1>7. Pending' = {} /\ Pending = {} /\ run'.batch = {}
  BY <1>1, <1>2 DEF DeviceInv, DevicePosts, RunShaped, Pending
<1>8. DevicePosts'
  BY <1>1, <1>5, <1>7, SameReports DEF DeviceInv, DevicePosts, ForDevices
<1> QED BY <1>4, <1>6, <1>8 DEF DeviceInv

LEMMA IdleDevices ==
  ASSUME Typed, DeviceInv, UNCHANGED <<claims, received, active>>, run' = Resting \/ run' = [phase |-> "load"]
  PROVE DeviceInv'
<1>1. RunShaped' BY DEF RunShaped, Resting, Phases
<1>2. DeviceClaims' BY SameReports DEF DeviceInv, DeviceClaims, ForDevices, ClaimShaped
<1>3. DevicePosts' BY PostsLeft DEF DeviceInv, Pending, Resting
<1> QED BY <1>1, <1>2, <1>3 DEF DeviceInv

LEMMA PostedDevices ==
  ASSUME Typed, DeviceInv, PostedAll PROVE DeviceInv'
<1>1. UNCHANGED <<claims, received, active>> /\ run.phase = "post" /\ run.batch = {}
  BY DEF PostedAll, Columns, Stripe
<1>2. CASE run' = Resting BY <1>1, <1>2, IdleDevices
<1>3. CASE run' # Resting
  <2>1. run' = [run EXCEPT !.phase = "devices"] BY <1>3 DEF PostedAll
  <2>2. RunShaped' BY <1>1, <2>1, SameReports DEF DeviceInv, RunShaped, Phases
  <2>3. DeviceClaims' BY <1>1, SameReports DEF DeviceInv, DeviceClaims, ForDevices, ClaimShaped
  <2>4. run'.batch = {} /\ run'.phase = "devices" BY <1>1, <2>1 DEF DeviceInv, RunShaped
  <2>5. DevicePosts' BY <1>1, <2>4, PostsLeft DEF DeviceInv, Pending
  <2> QED BY <2>2, <2>3, <2>5 DEF DeviceInv
<1> QED BY <1>2, <1>3

LEMMA ExtraTyped ==
  ASSUME NEW plan \in Plans, NEW n \in Nat
  PROVE ExtraDevices(plan, n) \in Nat /\ ExtraDevices(plan, n) <= n
<1>1. IncludedDevices[plan] \in Nat /\ plan # Free BY MeteringAssumption
<1> QED BY <1>1 DEF ExtraDevices, Beyond

(* A second run of the final day finds the period's claim under the same day. *)
LEMMA ClaimsDevices ==
  ASSUME Typed, DeviceInv, ClaimDevices PROVE DeviceInv'
<1>1. UNCHANGED <<active, received>> /\ run.phase = "devices" BY DEF ClaimDevices, Stripe
<1> DEFINE p == run.period
           extra == ExtraDevices(run.plan, run.devices)
           new == [meter |-> "devices", period |-> p, day |-> DeviceDay(p), quantity |-> extra,
                   ident |-> 0, posted |-> FALSE]
<1>2. CASE run' = Resting /\ claims' = claims BY <1>1, <1>2, IdleDevices
<1>3. CASE /\ run' = [run EXCEPT !.phase = "mark", !.meter = "devices"]
           /\ \/ claims' = claims
              \/ claims' = claims \cup {new} /\ \A c \in Of("devices", p) : c.day # DeviceDay(p)
  <2>1. /\ p \in 1..Periods /\ run.plan \in Plans /\ run.devices \in Nat
        /\ run.devices <= Cardinality(Reported(p)) /\ run.batch = {} /\ Pending = {}
    BY <1>1 DEF DeviceInv, RunShaped, DevicePosts, Pending
  <2>2. extra \in Nat /\ extra <= Cardinality(Reported(p)) BY <2>1, ExtraTyped, CountTyped
  <2> HIDE DEF extra
  <2>3. RunShaped' BY <1>1, <1>3, SameReports DEF DeviceInv, RunShaped, Phases, Meters
  <2>4. run'.batch = {} /\ run'.phase = "mark" /\ Pending' = {}
    BY <1>1, <1>3, <2>1 DEF DeviceInv, RunShaped, Pending
  <2>5. CASE claims' = claims
    <3>1. DeviceClaims' BY <1>1, <2>5, SameReports DEF DeviceInv, DeviceClaims, ForDevices, ClaimShaped
    <3>2. DevicePosts' BY <1>1, <2>4, <2>5, PostsLeft DEF DeviceInv
    <3> QED BY <2>3, <3>1, <3>2 DEF DeviceInv
  <2>6. CASE claims' = claims \cup {new} /\ \A c \in Of("devices", p) : c.day # DeviceDay(p)
    <3>1. ForDevices(claims, p) = {} BY <2>6 DEF DeviceInv, DeviceClaims, ForDevices, Of
    <3>2. \A q \in 1..Periods : ForDevices(claims', q) = IF q = p THEN {new} ELSE ForDevices(claims, q)
      BY <2>6, <3>1 DEF ForDevices
    <3>3. ClaimShaped(new) /\ new.day = DeviceDay(new.period) /\ new.quantity \in Nat
          /\ new.quantity <= Cardinality(Reported(new.period))
      BY <2>1, <2>2 DEF ClaimShaped
    <3> HIDE DEF new
    <3>4. \A q \in 1..Periods : \A b, c \in ForDevices(claims', q) : b = c
      BY <3>2 DEF DeviceInv, DeviceClaims
    <3>5. DeviceClaims'
      BY <1>1, <2>6, <3>3, <3>4, SameReports DEF DeviceInv, DeviceClaims, ClaimShaped, ForDevices
    <3>6. DevicePosts'
      <4>1. \A q \in 1..Periods : ForDevices(Pending', q) = {} BY <2>4 DEF ForDevices
      <4>2. \A q \in 1..Periods : \A r \in ForDevices(received', q) :
              \E c \in ForDevices(claims', q) : c.posted
        BY <1>1, <2>6 DEF DeviceInv, DevicePosts, ForDevices
      <4> QED BY <1>1, <2>4, <4>1, <4>2, SameReports DEF DeviceInv, DevicePosts, ForDevices
    <3> QED BY <2>3, <3>5, <3>6 DEF DeviceInv
  <2> QED BY <1>3, <2>5, <2>6
<1> QED BY <1>2, <1>3 DEF ClaimDevices, Claimed

LEMMA MarkedFields ==
  ASSUME NEW c, ClaimShaped(c)
  PROVE  /\ ClaimShaped([c EXCEPT !.posted = TRUE])
         /\ [c EXCEPT !.posted = TRUE].posted
         /\ [c EXCEPT !.posted = TRUE].meter = c.meter /\ [c EXCEPT !.posted = TRUE].period = c.period
         /\ [c EXCEPT !.posted = TRUE].day = c.day /\ [c EXCEPT !.posted = TRUE].quantity = c.quantity
<1> DEFINE mk == [c EXCEPT !.posted = TRUE]
<1>1. mk = [meter |-> c.meter, period |-> c.period, day |-> c.day, quantity |-> c.quantity,
            ident |-> c.ident, posted |-> TRUE]
  <2>1. PICK m, p, d, q, i, b : c = [meter |-> m, period |-> p, day |-> d, quantity |-> q,
                                     ident |-> i, posted |-> b]
    BY DEF ClaimShaped
  <2>2. c.meter = m /\ c.period = p /\ c.day = d /\ c.quantity = q /\ c.ident = i BY <2>1
  <2>3. c \in [meter : {m}, period : {p}, day : {d}, quantity : {q}, ident : {i}, posted : {b}]
    BY <2>1
  <2>4. mk \in [meter : {m}, period : {p}, day : {d}, quantity : {q}, ident : {i}, posted : {TRUE}]
    BY <2>3
  <2> HIDE DEF mk
  <2>5. mk = [meter |-> m, period |-> p, day |-> d, quantity |-> q, ident |-> i, posted |-> TRUE]
    BY <2>4
  <2> QED BY <2>2, <2>5
<1> HIDE DEF mk
<1>2. /\ mk.posted = TRUE /\ mk.meter = c.meter /\ mk.period = c.period /\ mk.day = c.day
      /\ mk.quantity = c.quantity /\ mk.ident = c.ident
  BY <1>1
<1>3. ClaimShaped(mk) BY <1>1, <1>2 DEF ClaimShaped
<1> QED BY <1>2, <1>3 DEF mk

(* A marked claim stands for the claim it was; what is posted was not marked before. *)
LEMMA MarksDevices ==
  ASSUME Typed, DeviceInv, MarkPosted PROVE DeviceInv'
<1>1. UNCHANGED <<active, received>> /\ run.phase = "mark" BY DEF MarkPosted, Stripe
<1> DEFINE batch == {c \in Of(run.meter, run.period) : ~c.posted}
           Mk(c) == [c EXCEPT !.posted = TRUE]
<1>0. run.period \in 1..Periods /\ run.batch = {} /\ Pending = {}
  BY <1>1 DEF DeviceInv, RunShaped, DevicePosts, Pending
<1>2. CASE run' = [run EXCEPT !.phase = "post"] /\ claims' = claims
  <2>1. RunShaped' BY <1>1, <1>2, SameReports DEF DeviceInv, RunShaped, Phases
  <2>2. DeviceClaims' BY <1>1, <1>2, SameReports DEF DeviceInv, DeviceClaims, ForDevices, ClaimShaped
  <2>3. run'.batch = {} /\ Pending' = {} BY <1>0, <1>1, <1>2 DEF DeviceInv, RunShaped, Pending
  <2>4. DevicePosts' BY <1>1, <1>2, <2>3, PostsLeft DEF DeviceInv
  <2> QED BY <2>1, <2>2, <2>4 DEF DeviceInv
<1>3. CASE run' = [run EXCEPT !.phase = "post", !.batch = batch] /\ claims' = Marked(batch)
  <2>1. RunShaped' BY <1>1, <1>3, SameReports DEF DeviceInv, RunShaped, Phases
  <2>2. Pending' = batch /\ run'.phase = "post" BY <1>1, <1>3 DEF DeviceInv, RunShaped, Pending
  <2>3. claims' = (claims \ batch) \cup {Mk(c) : c \in batch} BY <1>3 DEF Marked
  <2>4. \A c \in batch : c \in claims /\ ~c.posted /\ c.meter = run.meter /\ c.period = run.period
    BY DEF Of
  <2>5. \A c \in claims : /\ ClaimShaped(c) /\ ClaimShaped(Mk(c)) /\ Mk(c).posted
                          /\ Mk(c).meter = c.meter /\ Mk(c).period = c.period
                          /\ Mk(c).day = c.day /\ Mk(c).quantity = c.quantity
    BY MarkedFields DEF DeviceInv, DeviceClaims
  <2> HIDE DEF batch, Mk
  <2>6. \A x \in claims' : \E b \in claims : \/ x = b /\ b \notin batch
                                             \/ x = Mk(b) /\ b \in batch
    BY <2>3, <2>4
  <2>7. DeviceClaims'
    <3>1. \A x \in claims' :
            /\ ClaimShaped(x)
            /\ x.meter = "devices" =>
                 /\ x.day = DeviceDay(x.period) /\ x.quantity \in Nat
                 /\ x.quantity <= Cardinality(Reported(x.period))
      <4> SUFFICES ASSUME NEW x \in claims'
                   PROVE /\ ClaimShaped(x)
                         /\ x.meter = "devices" =>
                              /\ x.day = DeviceDay(x.period) /\ x.quantity \in Nat
                              /\ x.quantity <= Cardinality(Reported(x.period))
        OBVIOUS
      <4>1. PICK b \in claims : x = b \/ x = Mk(b) BY <2>6
      <4>2. b.meter = "devices" => /\ b.day = DeviceDay(b.period) /\ b.quantity \in Nat
                                   /\ b.quantity <= Cardinality(Reported(b.period))
        BY DEF DeviceInv, DeviceClaims
      <4>3. /\ ClaimShaped(x) /\ x.meter = b.meter /\ x.period = b.period
            /\ x.day = b.day /\ x.quantity = b.quantity
        BY <2>5, <4>1
      <4> QED BY <4>2, <4>3
    <3>2. \A q \in 1..Periods : \A x, y \in ForDevices(claims', q) : x = y
      <4> SUFFICES ASSUME NEW q \in 1..Periods, NEW x \in ForDevices(claims', q), NEW y \in ForDevices(claims', q)
                   PROVE x = y
        OBVIOUS
      <4>0. x \in claims' /\ y \in claims' /\ x.meter = "devices" /\ x.period = q
            /\ y.meter = "devices" /\ y.period = q
        BY DEF ForDevices
      <4>1. PICK b \in claims : (x = b /\ b \notin batch) \/ (x = Mk(b) /\ b \in batch) BY <2>6, <4>0
      <4>2. PICK c \in claims : (y = c /\ c \notin batch) \/ (y = Mk(c) /\ c \in batch) BY <2>6, <4>0
      <4>3. b \in ForDevices(claims, q) /\ c \in ForDevices(claims, q)
        BY <2>5, <4>0, <4>1, <4>2 DEF ForDevices
      <4>4. b = c BY <4>3 DEF DeviceInv, DeviceClaims
      <4> QED BY <4>1, <4>2, <4>4
    <3> QED BY <1>1, <3>1, <3>2, SameReports DEF DeviceClaims, ClaimShaped, ForDevices
  <2>8. DevicePosts'
    <3>1. ASSUME NEW q \in 1..Periods, NEW c \in ForDevices(Pending', q)
          PROVE /\ Mk(c) \in claims' /\ ClaimShaped(c) /\ c \in ForDevices(claims, q)
                /\ ForDevices(received, q) = {}
                /\ c.quantity \in Nat /\ c.quantity <= Cardinality(Reported(q))
      <4>1. c \in batch /\ c \in claims /\ ~c.posted /\ c.meter = "devices" /\ c.period = q
        BY <2>2, <2>4 DEF ForDevices
      <4>2. c \in ForDevices(claims, q) BY <4>1 DEF ForDevices
      <4>3. \A r \in ForDevices(received, q) : \E b \in ForDevices(claims, q) : b.posted
        BY DEF DeviceInv, DevicePosts
      <4>4. ForDevices(received, q) = {} BY <4>1, <4>2, <4>3 DEF DeviceInv, DeviceClaims
      <4>5. Mk(c) \in claims' BY <2>3, <4>1
      <4> QED BY <4>1, <4>2, <4>4, <4>5 DEF DeviceInv, DeviceClaims
    <3>2. \A q \in 1..Periods : \A b, c \in ForDevices(Pending', q) : b = c
      BY <3>1 DEF DeviceInv, DeviceClaims
    <3>3. ASSUME NEW q \in 1..Periods, NEW r \in ForDevices(received, q)
          PROVE \E c \in ForDevices(claims', q) : c.posted
      <4>1. PICK b \in ForDevices(claims, q) : b.posted BY DEF DeviceInv, DevicePosts
      <4>2. b \in claims' BY <2>3, <2>4, <4>1 DEF ForDevices
      <4> QED BY <4>1, <4>2 DEF ForDevices
    <3>4. \A q \in 1..Periods : \A r \in ForDevices(received, q) :
            r.quantity \in Nat /\ r.quantity <= Cardinality(Reported(q))
      BY DEF DeviceInv, DevicePosts
    <3>5. \A q \in 1..Periods : \A r, s \in ForDevices(received, q) : r = s BY DEF DeviceInv, DevicePosts
    <3>6. \A q \in 1..Periods : ForDevices(received', q) = ForDevices(received, q) /\ Reported(q)' = Reported(q)
      BY <1>1, SameReports
    <3> USE DEF Mk
    <3>7. \A q \in 1..Periods : \A c \in ForDevices(Pending', q) :
            /\ [c EXCEPT !.posted = TRUE] \in claims' /\ ClaimShaped(c)
            /\ ForDevices(received', q) = {}
            /\ c.quantity \in Nat /\ c.quantity <= Cardinality(Reported(q)')
      BY <3>1, <3>6
    <3> HIDE DEF Mk
    <3>8. ~ run'.phase \in {"sum", "claim", "mark", "devices"} BY <2>2
    <3>9. \A q \in 1..Periods :
            /\ \A c \in ForDevices(Pending', q) :
                 /\ [c EXCEPT !.posted = TRUE] \in claims' /\ ClaimShaped(c)
                 /\ ForDevices(received', q) = {}
                 /\ c.quantity \in Nat /\ c.quantity <= Cardinality(Reported(q)')
            /\ \A b, c \in ForDevices(Pending', q) : b = c
            /\ \A r \in ForDevices(received', q) :
                 /\ \E c \in ForDevices(claims', q) : c.posted
                 /\ r.quantity \in Nat /\ r.quantity <= Cardinality(Reported(q)')
            /\ \A r, s \in ForDevices(received', q) : r = s
      BY <3>2, <3>3, <3>4, <3>5, <3>6, <3>7
    <3> QED BY <3>8, <3>9 DEF DevicePosts, ForDevices, ClaimShaped
  <2> QED BY <2>1, <2>7, <2>8 DEF DeviceInv
<1> QED BY <1>2, <1>3 DEF MarkPosted

(* Stripe takes the one pending claim, and had none of the period before. *)
LEMMA PostDevices ==
  ASSUME Typed, DeviceInv, Post PROVE DeviceInv'
<1>1. UNCHANGED <<active, claims>> /\ run.phase = "post" BY DEF Post, Columns
<1>2. PICK c \in run.batch : /\ run' = [run EXCEPT !.batch = @ \ {c}]
                             /\ received' = Taken(c) \/ received' = received
  BY DEF Post
<1>3. RunShaped' BY <1>1, <1>2, SameReports DEF DeviceInv, RunShaped, Phases
<1>4. Pending = run.batch /\ Pending' = run.batch \ {c} /\ run'.phase = "post"
  BY <1>1, <1>2 DEF DeviceInv, RunShaped, Pending
<1>5. DeviceClaims' BY <1>1, SameReports DEF DeviceInv, DeviceClaims, ForDevices, ClaimShaped
<1>6. CASE received' = received
  <2>1. DevicePosts' BY <1>1, <1>4, <1>6, PostsLeft DEF DeviceInv
  <2> QED BY <1>3, <1>5, <2>1 DEF DeviceInv
<1>7. CASE received' # received
  <2> DEFINE new == [meter |-> c.meter, period |-> c.period, ident |-> c.ident,
                     quantity |-> c.quantity, at |-> now]
  <2>1. received' = received \cup {new} BY <1>2, <1>7 DEF Taken
  <2>2. new.meter = c.meter /\ new.period = c.period /\ new.quantity = c.quantity OBVIOUS
  <2> HIDE DEF new
  <2>3. ASSUME NEW q \in 1..Periods, c.meter # "devices" \/ c.period # q
        PROVE ForDevices(received', q) = ForDevices(received, q)
    BY <2>1, <2>2, <2>3 DEF ForDevices
  <2>4. ASSUME NEW q \in 1..Periods, c.meter = "devices", c.period = q
        PROVE /\ ForDevices(received', q) = {new} /\ ForDevices(Pending', q) = {}
              /\ \E d \in ForDevices(claims, q) : d.posted
              /\ new.quantity \in Nat /\ new.quantity <= Cardinality(Reported(q))
    <3>1. c \in ForDevices(Pending, q) BY <1>2, <1>4, <2>4 DEF ForDevices
    <3>2. ForDevices(received, q) = {} /\ [c EXCEPT !.posted = TRUE] \in claims /\ ClaimShaped(c)
          /\ c.quantity \in Nat /\ c.quantity <= Cardinality(Reported(q))
      BY <3>1 DEF DeviceInv, DevicePosts
    <3>3. ForDevices(received', q) = {new} BY <2>1, <2>2, <2>4, <3>2 DEF ForDevices
    <3>4. ForDevices(Pending', q) = {}
      <4>1. \A b \in ForDevices(Pending, q) : b = c BY <3>1 DEF DeviceInv, DevicePosts
      <4> QED BY <1>4, <4>1 DEF ForDevices
    <3>5. [c EXCEPT !.posted = TRUE] \in ForDevices(claims, q) /\ [c EXCEPT !.posted = TRUE].posted
      BY <2>4, <3>2, MarkedFields DEF ForDevices
    <3> QED BY <2>2, <3>2, <3>3, <3>4, <3>5
  <2>5. \A q \in 1..Periods : /\ ForDevices(Pending', q) \subseteq ForDevices(Pending, q)
                              /\ ForDevices(claims', q) = ForDevices(claims, q)
                              /\ Reported(q)' = Reported(q)
    BY <1>1, <1>4, SameReports DEF ForDevices
  <2>6. ASSUME NEW q \in 1..Periods
        PROVE /\ \A b \in ForDevices(Pending', q) :
                   /\ [b EXCEPT !.posted = TRUE] \in claims' /\ ClaimShaped(b)
                   /\ ForDevices(received', q) = {}
                   /\ b.quantity \in Nat /\ b.quantity <= Cardinality(Reported(q)')
              /\ \A b, d \in ForDevices(Pending', q) : b = d
              /\ \A r \in ForDevices(received', q) :
                   /\ \E d \in ForDevices(claims', q) : d.posted
                   /\ r.quantity \in Nat /\ r.quantity <= Cardinality(Reported(q)')
              /\ \A r, s \in ForDevices(received', q) : r = s
    <3>1. CASE c.meter # "devices" \/ c.period # q
      BY <1>1, <2>3, <2>5, <3>1 DEF DeviceInv, DevicePosts
    <3>2. CASE c.meter = "devices" /\ c.period = q
      BY <2>4, <2>5, <3>2
    <3> QED BY <3>1, <3>2
  <2>7. DevicePosts' BY <1>4, <2>6 DEF DevicePosts, ForDevices, ClaimShaped
  <2> QED BY <1>3, <1>5, <2>7 DEF DeviceInv
<1> QED BY <1>6, <1>7

(* What is not the reporter's leaves the run, the claims and what Stripe took alone. *)
LEMMA OthersLeave ==
  ASSUME [Next]_metering_vars, ~Reporter PROVE UNCHANGED <<run, claims, received>>
<1>1. ASSUME NEW c \in Consumers,
             (\E d \in Devices : Tally(c, d)) \/ StampPause(c) \/ ClaimWarning(c) \/ MailWarning(c) \/ DropTally(c)
      PROVE UNCHANGED <<run, claims, received>>
  BY <1>1 DEF Tally, StampPause, ClaimWarning, MailWarning, DropTally, Columns, Stripe
<1>2. ASSUME NEW m \in Managers, (\E to \in Plans : ReadPlan(m, to)) \/ RaiseFloor(m) \/ UpdateTier(m)
      PROVE UNCHANGED <<run, claims, received>>
  BY <1>2 DEF ReadPlan, RaiseFloor, UpdateTier, Columns, Stripe
<1>3. ASSUME Tick \/ Cancel \/ (\E a \in coming : Webhook(a)) \/ UNCHANGED metering_vars
      PROVE UNCHANGED <<run, claims, received>>
  BY <1>3 DEF Tick, Cancel, Webhook, metering_vars
<1> QED BY <1>1, <1>2, <1>3 DEF Next

LEMMA DeviceStep ==
  ASSUME Typed, StampsPast, DeviceInv, [Next]_metering_vars PROVE DeviceInv'
<1>1. CASE ~Reporter BY <1>1, OthersLeave, RunLeft
<1>2. CASE StartRun \/ KillRun
  <2>1. UNCHANGED <<claims, received, active>> /\ (run' = Resting \/ run' = [phase |-> "load"])
    BY <1>2 DEF StartRun, KillRun, Columns, Stripe
  <2> QED BY <2>1, IdleDevices
<1>3. CASE LoadOrg BY <1>3, LoadDevices
<1>4. CASE SumClaims BY <1>4, SumDevices
<1>5. CASE ClaimMessages BY <1>5, MessageDevices
<1>6. CASE MarkPosted BY <1>6, MarksDevices
<1>7. CASE Post BY <1>7, PostDevices
<1>8. CASE PostedAll BY <1>8, PostedDevices
<1>9. CASE ClaimDevices BY <1>9, ClaimsDevices
<1> QED BY <1>1, <1>2, <1>3, <1>4, <1>5, <1>6, <1>7, <1>8, <1>9 DEF Reporter

(* Whatever the runs of a period's final day see, and however they die, the period's extra    *)
(* devices reach Stripe once, and no more of them than reported since the period began        *)
(* (usage.rs report_device_overage, post_unposted_reports).                                    *)
THEOREM DevicesOnce == Spec => []DevicesBilledOnce
<1>1. Init => Typed /\ StampsPast /\ CountedIsConnected /\ DeviceInv BY TypedInit, CountedInit, DeviceInit
<1>2. Typed /\ StampsPast /\ CountedIsConnected /\ DeviceInv /\ [Next]_metering_vars
      => (Typed /\ StampsPast /\ CountedIsConnected /\ DeviceInv)'
  BY TypedStep, CountedStep, DeviceStep
<1>3. DeviceInv => DevicesBilledOnce
  BY DEF DeviceInv, DevicePosts, ForDevices, DevicesBilledOnce
<1> QED BY <1>1, <1>2, <1>3, PTL DEF Spec

----------------------------------------------------------------------------
(* Sums over finite sets, by least counterexamples: the fold that MapThenSumSet is  *)
(* takes the elements in the order CHOOSE gives, and the sum is that of any order.  *)

LEMMA LeastSet ==
  ASSUME NEW S, IsFiniteSet(S), NEW T, T \subseteq SUBSET S, T # {}
  PROVE \E x \in T : \A y \in T : y \subseteq x => y = x
<1>1. IsWellFoundedOn(StrictSubsetOrdering(S), SUBSET S)
  BY FS_FiniteSubsetsOfFinite, FS_StrictSubsetOrderingWellFounded
<1>2. PICK x \in T : \A y \in T : ~(<<y, x>> \in StrictSubsetOrdering(S)) BY <1>1, WFMin
<1> QED BY <1>2 DEF StrictSubsetOrdering

LEMMA LeastNat ==
  ASSUME NEW T, T \subseteq Nat, T # {}
  PROVE  \E n \in T : \A m \in T : n <= m
<1>1. PICK b \in T : TRUE
  OBVIOUS
<1> DEFINE Upto == {0..n : n \in {k \in T : k <= b}}
<1>2. IsFiniteSet(0..b)
  BY FS_Interval
<1>3. Upto \subseteq SUBSET (0..b) /\ Upto # {}
  <2>1. (0..b) \in Upto
    OBVIOUS
  <2> QED
    BY <2>1
<1>4. PICK x \in Upto : \A y \in Upto : y \subseteq x => y = x
  <2> DEFINE S0 == 0..b
  <2>1. IsFiniteSet(S0) /\ Upto \subseteq SUBSET S0 /\ Upto # {}
    BY <1>2, <1>3
  <2> HIDE DEF Upto, S0
  <2> QED
    BY <2>1, LeastSet
<1>5. PICK n \in T : n <= b /\ x = 0..n
  OBVIOUS
<1>6. ASSUME NEW m \in T, m < n PROVE FALSE
  <2>1. m <= b /\ (0..m) \in Upto
    BY <1>5, <1>6
  <2>2. 0..m \subseteq 0..n
    BY <1>6
  <2>4. 0..m = 0..n
    BY <1>4, <1>5, <2>1, <2>2
  <2>3. n \in 0..n /\ n \notin 0..m
    BY <1>6
  <2> QED
    BY <2>3, <2>4
<1> QED
  BY <1>6

First(s) == CHOOSE x \in s : TRUE

(* g gives the sum of the weights w of every part of S. *)
Sums(g, S, w) ==
  \A s \in SUBSET S : g[s] = IF s = {} THEN 0 ELSE w[First(s)] + g[s \ {First(s)}]

LEMMA FirstIn == \A s : s # {} => First(s) \in s
  BY DEF First

(* The recursion that defines them. *)
SumsFrom(g, S, w) ==
  g = [s \in SUBSET S |-> IF s = {} THEN 0 ELSE w[First(s)] + g[s \ {First(s)}]]

(* The recursion that defines a sum has a solution, by the size of the parts it covers. *)
LEMMA SumExists ==
  ASSUME NEW S, IsFiniteSet(S), NEW w
  PROVE \E g : SumsFrom(g, S, w)
<1> DEFINE Step(g, s) == IF s = {} THEN 0 ELSE w[First(s)] + g[s \ {First(s)}]
           Small(n) == {s \in SUBSET S : Cardinality(s) <= n}
           Goes(g, n) == g = [s \in Small(n) |-> Step(g, s)]
           Stuck == {n \in Nat : ~\E g : Goes(g, n)}
<1>1. \A s \in SUBSET S : IsFiniteSet(s) /\ Cardinality(s) \in Nat /\ Cardinality(s) <= Cardinality(S)
  BY FS_Subset, FS_CardinalityType
<1>2. \A n \in Nat : \A s \in Small(n) : s # {} => n # 0 /\ s \ {First(s)} \in Small(n - 1)
  <2> SUFFICES ASSUME NEW n \in Nat, NEW s \in Small(n), s # {}
               PROVE n # 0 /\ s \ {First(s)} \in Small(n - 1)
    OBVIOUS
  <2>1. First(s) \in s /\ s \in SUBSET S BY FirstIn
  <2>2. Cardinality(s \ {First(s)}) = Cardinality(s) - 1 /\ Cardinality(s \ {First(s)}) \in Nat
    BY <1>1, <2>1, FS_RemoveElement
  <2> QED BY <1>1, <2>1, <2>2
<1>3. Stuck = {}
  <2> SUFFICES ASSUME Stuck # {} PROVE FALSE OBVIOUS
  <2>1. PICK n \in Stuck : \A m \in Stuck : n <= m
    <3>1. Stuck \subseteq Nat OBVIOUS
    <3> HIDE DEF Stuck
    <3> QED BY <3>1, LeastNat
  <2>2. CASE n = 0
    <3> DEFINE h == [s \in Small(0) |-> 0]
    <3>1. \A s \in Small(0) : Step(h, s) = 0 BY <1>2
    <3>2. Goes(h, 0) BY <3>1
    <3> QED BY <2>1, <2>2, <3>2
  <2>3. CASE n # 0
    <3>1. n \in Nat /\ n - 1 \in Nat /\ n - 1 \notin Stuck
      <4>1. n \in Nat OBVIOUS
      <4> HIDE DEF Stuck
      <4> QED BY <2>1, <2>3, <4>1
    <3>2. PICK g : Goes(g, n - 1) BY <3>1
    <3> DEFINE h == [s \in Small(n) |-> Step(g, s)]
    <3>3. \A s \in Small(n - 1) : s \in Small(n) /\ g[s] = Step(g, s)
      <4>1. \A s \in Small(n - 1) : g[s] = Step(g, s)
        <5> HIDE DEF Step, Small
        <5> QED BY <3>2
      <4>2. \A s \in Small(n - 1) : s \in Small(n) BY <1>1, <3>1
      <4> QED BY <4>1, <4>2
    <3>4. \A s \in Small(n) : Step(g, s) = Step(h, s)
      <4> SUFFICES ASSUME NEW s \in Small(n), s # {} PROVE g[s \ {First(s)}] = h[s \ {First(s)}]
        OBVIOUS
      <4>1. s \ {First(s)} \in Small(n - 1) BY <1>2, <3>1
      <4> HIDE DEF Step, Small
      <4> QED BY <3>3, <4>1
    <3>5. Goes(h, n)
      <4> HIDE DEF Step, Small
      <4>1. h = [s \in Small(n) |-> Step(h, s)] BY <3>4
      <4> QED BY <4>1
    <3> QED BY <2>1, <3>1, <3>5
  <2> QED BY <2>2, <2>3
<1>4. PICK g : Goes(g, Cardinality(S)) BY <1>3, FS_CardinalityType
<1>5. Small(Cardinality(S)) = SUBSET S BY <1>1
<1> QED BY <1>4, <1>5 DEF SumsFrom

LEMMA SumTyped ==
  ASSUME NEW S, IsFiniteSet(S), NEW w \in [S -> Nat], NEW g, Sums(g, S, w)
  PROVE \A s \in SUBSET S : g[s] \in Nat
<1> DEFINE T == {s \in SUBSET S : g[s] \notin Nat}
<1> SUFFICES ASSUME T # {} PROVE FALSE OBVIOUS
<1>1. PICK s \in T : \A r \in T : r \subseteq s => r = s
  <2>1. T \subseteq SUBSET S OBVIOUS
  <2> HIDE DEF T
  <2> QED BY <2>1, LeastSet
<1>2. s \in SUBSET S /\ g[s] \notin Nat OBVIOUS
<1>3. CASE s = {}
  <2>1. g[s] = 0 BY <1>2, <1>3 DEF Sums
  <2> QED BY <1>2, <2>1
<1>4. CASE s # {}
  <2>1. First(s) \in s BY <1>4, FirstIn
  <2>2. s \ {First(s)} \notin T BY <1>1, <2>1
  <2>3. g[s \ {First(s)}] \in Nat BY <1>2, <2>2
  <2>4. g[s] = w[First(s)] + g[s \ {First(s)}] BY <1>2, <1>4 DEF Sums
  <2> QED BY <1>2, <2>1, <2>3, <2>4
<1> QED BY <1>3, <1>4

(* A sum is that of any element and the rest. *)
LEMMA SumAnyFirst ==
  ASSUME NEW S, IsFiniteSet(S), NEW w \in [S -> Nat], NEW g, Sums(g, S, w)
  PROVE \A s \in SUBSET S : \A x \in s : g[s] = w[x] + g[s \ {x}]
<1> DEFINE T == {s \in SUBSET S : \E x \in s : g[s] # w[x] + g[s \ {x}]}
<1> SUFFICES ASSUME T # {} PROVE FALSE OBVIOUS
<1>1. PICK s \in T : \A r \in T : r \subseteq s => r = s
  <2>1. T \subseteq SUBSET S OBVIOUS
  <2> HIDE DEF T
  <2> QED BY <2>1, LeastSet
<1>2. s \in SUBSET S OBVIOUS
<1>3. PICK x \in s : g[s] # w[x] + g[s \ {x}] OBVIOUS
<1> DEFINE y == First(s)
<1>4. y \in s BY <1>3, FirstIn
<1>5. g[s] = w[y] + g[s \ {y}] BY <1>2, <1>4 DEF Sums
<1> HIDE DEF y
<1>6. x # y BY <1>3, <1>5
<1>7. s \ {x} \notin T /\ s \ {y} \notin T BY <1>1, <1>3, <1>4
<1>8. \A r \in SUBSET S : r \notin T => \A z \in r : g[r] = w[z] + g[r \ {z}] OBVIOUS
<1> HIDE DEF T
<1>9. g[s \ {x}] = w[y] + g[(s \ {x}) \ {y}] BY <1>2, <1>4, <1>6, <1>7, <1>8
<1>10. g[s \ {y}] = w[x] + g[(s \ {y}) \ {x}] BY <1>2, <1>3, <1>6, <1>7, <1>8
<1>11. g[(s \ {y}) \ {x}] = g[(s \ {x}) \ {y}]
  <2>1. (s \ {x}) \ {y} = (s \ {y}) \ {x} OBVIOUS
  <2> QED BY <2>1
<1>12. w[x] \in Nat /\ w[y] \in Nat /\ g[(s \ {x}) \ {y}] \in Nat BY <1>2, <1>4, SumTyped
<1>13. g[s] = w[x] + g[s \ {x}] BY <1>5, <1>9, <1>10, <1>11, <1>12
<1> QED BY <1>3, <1>13

(* Two sums over sets that share elements and weights agree on what they share. *)
LEMMA SumsAgree ==
  ASSUME NEW S, IsFiniteSet(S), NEW w \in [S -> Nat], NEW g, Sums(g, S, w),
         NEW U, S \subseteq U, NEW v, NEW h, Sums(h, U, v), \A x \in S : v[x] = w[x]
  PROVE \A s \in SUBSET S : h[s] = g[s]
<1> DEFINE T == {s \in SUBSET S : h[s] # g[s]}
<1> SUFFICES ASSUME T # {} PROVE FALSE OBVIOUS
<1>1. PICK s \in T : \A r \in T : r \subseteq s => r = s
  <2>1. T \subseteq SUBSET S OBVIOUS
  <2> HIDE DEF T
  <2> QED BY <2>1, LeastSet
<1>2. s \in SUBSET S /\ s \in SUBSET U /\ h[s] # g[s] OBVIOUS
<1>3. CASE s = {} BY <1>2, <1>3 DEF Sums
<1>4. CASE s # {}
  <2>1. First(s) \in s BY <1>4, FirstIn
  <2>2. s \ {First(s)} \notin T BY <1>1, <2>1
  <2>3. h[s \ {First(s)}] = g[s \ {First(s)}] BY <1>2, <2>2
  <2>4. /\ g[s] = w[First(s)] + g[s \ {First(s)}]
        /\ h[s] = v[First(s)] + h[s \ {First(s)}]
    BY <1>2, <1>4 DEF Sums
  <2> QED BY <1>2, <2>1, <2>3, <2>4
<1> QED BY <1>3, <1>4

(* What is billed is such a sum. *)
LEMMA BilledIs ==
  ASSUME NEW S, IsFiniteSet(S)
  PROVE \E g : Sums(g, S, [c \in S |-> c.quantity]) /\ Billed(S) = g[S]
<1> DEFINE w == [c \in S |-> c.quantity]
           Goes(g) == g = [s \in SUBSET S |-> IF s = {} THEN 0
                             ELSE (CHOOSE x \in s : TRUE).quantity + g[s \ {CHOOSE x \in s : TRUE}]]
<1>1. PICK f : SumsFrom(f, S, w)
  <2> HIDE DEF w
  <2> QED BY SumExists
<1>2. \A s \in SUBSET S : s # {} => w[First(s)] = (CHOOSE x \in s : TRUE).quantity
  <2>1. \A s \in SUBSET S : s # {} => First(s) \in S BY FirstIn
  <2> QED BY <2>1 DEF First
<1>3. Goes(f) BY <1>1, <1>2 DEF First, SumsFrom
<1>4. Billed(S) = (CHOOSE g : Goes(g))[S] BY DEF Billed, MapThenSumSet, MapThenFoldSet
<1> DEFINE g == CHOOSE g : Goes(g)
<1>5. Goes(g)
  <2> HIDE DEF Goes
  <2> QED BY <1>3
<1>6. Sums(g, S, w)
  <2>1. \A s \in SUBSET S : g[s] = IF s = {} THEN 0
           ELSE (CHOOSE x \in s : TRUE).quantity + g[s \ {CHOOSE x \in s : TRUE}]
    BY <1>5
  <2> HIDE DEF g, w
  <2> QED BY <1>2, <2>1 DEF Sums, First
<1> QED BY <1>4, <1>6

Priced(S) == IsFiniteSet(S) /\ \A c \in S : c.quantity \in Nat

LEMMA PricedPart == ASSUME NEW S, Priced(S), NEW T, T \subseteq S PROVE Priced(T)
  BY FS_Subset DEF Priced

LEMMA BilledTyped == ASSUME NEW S, Priced(S) PROVE Billed(S) \in Nat /\ Billed({}) = 0
<1> DEFINE w == [c \in S |-> c.quantity]
<1>1. w \in [S -> Nat] BY DEF Priced
<1>2. IsFiniteSet(S) BY DEF Priced
<1>3. PICK g : Sums(g, S, w) /\ Billed(S) = g[S] BY <1>2, BilledIs
<1> HIDE DEF w
<1>4. g[S] \in Nat BY <1>1, <1>2, <1>3, SumTyped
<1>5. Billed({}) = 0
  <2> DEFINE v == [c \in {} |-> c.quantity]
  <2>1. PICK h : Sums(h, {}, v) /\ Billed({}) = h[{}] BY FS_EmptySet, BilledIs
  <2> HIDE DEF v
  <2> QED BY <2>1 DEF Sums
<1> QED BY <1>3, <1>4, <1>5

(* A bill is that of all but one of its entries, and that one's quantity. *)
LEMMA BilledWithout ==
  ASSUME NEW S, Priced(S), NEW x \in S
  PROVE Billed(S) = x.quantity + Billed(S \ {x})
<1> DEFINE w == [c \in S |-> c.quantity]
           R == S \ {x}
           v == [c \in R |-> c.quantity]
<1>1. w \in [S -> Nat] /\ v \in [R -> Nat] /\ IsFiniteSet(S) /\ IsFiniteSet(R)
  BY FS_Subset DEF Priced
<1>2. \A c \in R : w[c] = v[c] OBVIOUS
<1>3. w[x] = x.quantity OBVIOUS
<1>4. PICK g : Sums(g, S, w) /\ Billed(S) = g[S] BY <1>1, BilledIs
<1>5. PICK h : Sums(h, R, v) /\ Billed(R) = h[R] BY <1>1, BilledIs
<1>6. R \subseteq S OBVIOUS
<1> HIDE DEF w, v
<1>7. g[S] = w[x] + g[S \ {x}] BY <1>1, <1>4, SumAnyFirst
<1>8. g[R] = h[R]
  <2> HIDE DEF R
  <2> QED BY <1>1, <1>2, <1>4, <1>5, <1>6, SumsAgree
<1> QED BY <1>3, <1>4, <1>5, <1>7, <1>8

LEMMA BilledWith ==
  ASSUME NEW S, Priced(S), NEW x, x.quantity \in Nat, x \notin S
  PROVE Priced(S \cup {x}) /\ Billed(S \cup {x}) = Billed(S) + x.quantity
<1>1. Priced(S \cup {x}) BY FS_AddElement DEF Priced
<1>2. (S \cup {x}) \ {x} = S OBVIOUS
<1>3. Billed(S) \in Nat BY BilledTyped
<1>4. Billed(S \cup {x}) = x.quantity + Billed((S \cup {x}) \ {x})
  <2> DEFINE T == S \cup {x}
  <2>1. x \in T /\ Priced(T) BY <1>1
  <2> HIDE DEF T
  <2>2. Billed(T) = x.quantity + Billed(T \ {x}) BY <2>1, BilledWithout
  <2> QED BY <2>2 DEF T
<1>5. Billed((S \cup {x}) \ {x}) = Billed(S) BY <1>2
<1>6. Billed(S \cup {x}) = x.quantity + Billed(S) BY <1>4, <1>5
<1> QED BY <1>1, <1>3, <1>6

(* Less is billed by fewer entries. *)
LEMMA BilledPart ==
  ASSUME NEW S, Priced(S), NEW T, T \subseteq S PROVE Billed(T) <= Billed(S)
<1> DEFINE Bad == {R \in SUBSET S : T \subseteq R /\ ~(Billed(T) <= Billed(R))}
<1> SUFFICES ASSUME Bad # {} PROVE FALSE OBVIOUS
<1>1. PICK R \in Bad : \A Q \in Bad : Q \subseteq R => Q = R
  <2>1. Bad \subseteq SUBSET S /\ IsFiniteSet(S) BY DEF Priced
  <2> HIDE DEF Bad
  <2> QED BY <2>1, LeastSet
<1>2. R \subseteq S /\ T \subseteq R /\ ~(Billed(T) <= Billed(R)) OBVIOUS
<1>3. Priced(R) /\ Priced(T) BY <1>2, PricedPart
<1>4. Billed(R) \in Nat /\ Billed(T) \in Nat BY <1>3, BilledTyped
<1>5. R # T BY <1>2, <1>4
<1>6. PICK x \in R : x \notin T BY <1>2, <1>5
<1>7. Billed(R) = x.quantity + Billed(R \ {x}) BY <1>3, BilledWithout
<1>8. x.quantity \in Nat BY <1>3 DEF Priced
<1>9. Billed(R \ {x}) \in Nat
  <2>1. Priced(R \ {x}) BY <1>3, PricedPart
  <2> QED BY <2>1, BilledTyped
<1>10. R \ {x} \in Bad BY <1>2, <1>4, <1>6, <1>7, <1>8, <1>9
<1> QED BY <1>1, <1>6, <1>10

(* Entries rewritten at the same quantity bill no more than before. *)
LEMMA BilledImage ==
  ASSUME NEW S, Priced(S), NEW g, \A c \in S : g[c].quantity = c.quantity
  PROVE Priced({g[c] : c \in S}) /\ Billed({g[c] : c \in S}) <= Billed(S)
<1> DEFINE Im(R) == {g[c] : c \in R}
           Bad == {R \in SUBSET S : ~(Priced(Im(R)) /\ Billed(Im(R)) <= Billed(R))}
<1> SUFFICES ASSUME Bad # {} PROVE FALSE OBVIOUS
<1>1. PICK R \in Bad : \A Q \in Bad : Q \subseteq R => Q = R
  <2>1. Bad \subseteq SUBSET S /\ IsFiniteSet(S) BY DEF Priced
  <2> HIDE DEF Bad
  <2> QED BY <2>1, LeastSet
<1>2. R \subseteq S /\ ~(Priced(Im(R)) /\ Billed(Im(R)) <= Billed(R)) OBVIOUS
<1>3. Priced(R) BY <1>2, PricedPart
<1>4. CASE R = {}
  <2>1. Im(R) = {} BY <1>4
  <2>2. Billed(Im(R)) = 0 /\ Billed(R) = 0 BY <1>3, <1>4, <2>1, BilledTyped
  <2>3. Priced(Im(R)) BY <1>3, <1>4, <2>1
  <2> QED BY <1>2, <2>2, <2>3
<1>5. CASE R # {}
  <2>1. PICK x \in R : TRUE BY <1>5
  <2> DEFINE Q == R \ {x}
             y == g[x]
  <2>2. Q \subseteq S /\ Q \subseteq R /\ Q # R /\ x \notin Q /\ Q \cup {x} = R BY <1>2, <2>1
  <2>3. Im(R) = Im(Q) \cup {y} BY <2>2
  <2>4. y.quantity = x.quantity /\ x.quantity \in Nat BY <1>2, <1>3, <2>1 DEF Priced
  <2> HIDE DEF Q, y
  <2>5. Priced(Im(Q)) /\ Billed(Im(Q)) <= Billed(Q)
    <3>1. Q \notin Bad BY <1>1, <2>2
    <3> QED BY <2>2, <3>1
  <2>6. Priced(Q) BY <1>3, <2>2, PricedPart
  <2>7. Billed(R) = Billed(Q) + x.quantity
    <3>1. Billed(Q \cup {x}) = Billed(Q) + x.quantity BY <2>2, <2>4, <2>6, BilledWith
    <3> QED BY <2>2, <3>1
  <2>8. Billed(Q) \in Nat /\ Billed(Im(Q)) \in Nat BY <2>5, <2>6, BilledTyped
  <2> DEFINE I == Im(Q)
  <2>9. Priced(I) /\ Billed(I) <= Billed(Q) /\ Billed(I) \in Nat /\ Im(R) = I \cup {y}
    BY <2>3, <2>5, <2>8
  <2> HIDE DEF I, Im, Bad
  <2>10. CASE y \in I
    <3>1. I \cup {y} = I BY <2>10
    <3>2. Im(R) = I BY <2>9, <3>1
    <3>3. Priced(Im(R)) /\ Billed(Im(R)) = Billed(I) BY <2>9, <3>2
    <3>4. Billed(Im(R)) <= Billed(R) BY <2>4, <2>7, <2>8, <2>9, <3>3
    <3> QED BY <1>2, <3>3, <3>4
  <2>11. CASE y \notin I
    <3>1. Priced(I \cup {y}) /\ Billed(I \cup {y}) = Billed(I) + y.quantity
      BY <2>4, <2>9, <2>11, BilledWith
    <3> QED BY <1>2, <2>4, <2>7, <2>8, <2>9, <3>1
  <2> QED BY <2>10, <2>11
<1> QED BY <1>4, <1>5

(* No usage row counts more than all of them. *)
LEMMA CountedIs ==
  ASSUME \A k \in 0..Periods : usage[k].messages \in Nat
  PROVE Counted \in Nat /\ \A k \in 0..Periods : usage[k].messages <= Counted
<1> DEFINE S == 0..Periods
           w == [k \in S |-> usage[k].messages]
           Goes(g) == g = [s \in SUBSET S |-> IF s = {} THEN 0
                             ELSE usage[CHOOSE x \in s : TRUE].messages + g[s \ {CHOOSE x \in s : TRUE}]]
<1>0. IsFiniteSet(S) /\ w \in [S -> Nat] BY MeteringAssumption, FS_Interval
<1>1. PICK f : SumsFrom(f, S, w)
  <2> HIDE DEF w, S
  <2> QED BY <1>0, SumExists
<1>2. \A s \in SUBSET S : s # {} => w[First(s)] = usage[CHOOSE x \in s : TRUE].messages
  <2>1. \A s \in SUBSET S : s # {} => First(s) \in S BY FirstIn
  <2> QED BY <2>1 DEF First
<1>3. Goes(f)
  <2> HIDE DEF w, S
  <2> QED BY <1>1, <1>2 DEF First, SumsFrom
<1>4. Counted = (CHOOSE g : Goes(g))[S] BY DEF Counted, MapThenSumSet, MapThenFoldSet
<1> DEFINE g == CHOOSE g : Goes(g)
<1>5. Goes(g)
  <2> HIDE DEF Goes
  <2> QED BY <1>3
<1>6. Sums(g, S, w)
  <2>1. \A s \in SUBSET S : g[s] = IF s = {} THEN 0
           ELSE usage[CHOOSE x \in s : TRUE].messages + g[s \ {CHOOSE x \in s : TRUE}]
    BY <1>5
  <2> HIDE DEF g, w, S
  <2> QED BY <1>2, <2>1 DEF Sums, First
<1> HIDE DEF g, Goes
<1>7. \A k \in S : w[k] = usage[k].messages OBVIOUS
<1>8. Counted = g[S] BY <1>4 DEF g
<1> HIDE DEF w, S
<1>9. g[S] \in Nat BY <1>0, <1>6, SumTyped
<1>10. ASSUME NEW k \in S PROVE usage[k].messages <= Counted
  <2>1. g[S] = w[k] + g[S \ {k}] BY <1>0, <1>6, <1>10, SumAnyFirst
  <2>2. w[k] \in Nat BY <1>0, <1>10
  <2>3. g[S \ {k}] \in Nat
    <3>1. S \ {k} \in SUBSET S OBVIOUS
    <3> QED BY <1>0, <1>6, <3>1, SumTyped
  <2> QED BY <1>7, <1>8, <2>1, <2>2, <2>3
<1> QED BY <1>8, <1>9, <1>10 DEF S

----------------------------------------------------------------------------
(* Types.  A renewal is numbered too, and there is one for each period at most. *)

Numbered == sold.n < MaxChanges + sold.period
MeterInv == MeterTypeOK /\ IsFiniteSet(claims) /\ IsFiniteSet(received) /\ Numbered
CountedRow == [messages : 0..MaxMessages, floor : Nat, warned : BOOLEAN, paused : BOOLEAN]

LEMMA MoreSizes ==
  /\ PoolPerDevice \in Nat /\ IncludedDevices \in [Plans \cup {Free} -> Nat] /\ Free \notin Plans
  /\ SlotsPerDay \in Nat \ {0} /\ PeriodSlots \in Nat \ {0} /\ Cadence \in Nat \ {0}
  /\ MaxMessages \in Nat /\ MaxChanges \in Nat /\ IsFiniteSet(Devices)
  BY MeteringAssumption

LEMMA BeyondTyped ==
  ASSUME NEW a \in Nat, NEW b \in Nat PROVE Beyond(a, b) \in Nat
  BY DEF Beyond

LEMMA LargerNat == ASSUME NEW a \in Nat, NEW b \in Nat PROVE Max({a, b}) \in Nat
<1>1. a \in Int /\ b \in Int OBVIOUS
<1>2. Max({a, b}) \in {a, b} BY <1>1, LargerOfTwo
<1> QED BY <1>2

LEMMA AllowanceTyped ==
  ASSUME NEW plan \in Plans \cup {Free}, NEW floor \in Nat, NEW n \in Nat
  PROVE Included[plan] \in Nat /\ ExtraDevices(plan, n) * PoolPerDevice \in Nat /\ Allowance(plan, floor, n) \in Nat
<1>1. Included[plan] \in Nat BY Sizes
<1>2. ExtraDevices(plan, n) \in Nat BY MoreSizes, BeyondTyped DEF ExtraDevices
<1>3. Max({Included[plan], floor}) \in Nat BY <1>1, LargerNat
<1> DEFINE e == ExtraDevices(plan, n)
<1>4. e \in Nat BY <1>2
<1> HIDE DEF e
<1>5. e * PoolPerDevice \in Nat BY <1>4, MoreSizes
<1> QED BY <1>1, <1>3, <1>5 DEF Allowance, e

LEMMA ConnectedTyped == \A p : Connected(p) \in Nat
<1> SUFFICES ASSUME NEW p PROVE Connected(p) \in Nat OBVIOUS
<1>1. IsFiniteSet({d \in Devices : Start(p) <= active[d] /\ active[d] < End(p)})
  BY MoreSizes, FS_Subset
<1> QED BY <1>1, FS_CardinalityType DEF Connected

LEMMA DayTyped == ASSUME NEW t \in Nat PROVE Day(t) \in Nat
  BY MoreSizes DEF Day

LEMMA KeysTyped == ASSUME MeterTypeOK PROVE UsageKey \in 0..Periods
  BY Sizes DEF MeterTypeOK, UsageKey, Within, Month, Account

LEMMA MeterStarts == Init => MeterInv
<1> SUFFICES ASSUME Init PROVE MeterInv OBVIOUS
<1>1. sold \in Account /\ row \in Account BY Sizes, MoreSizes DEF Init, Account
<1>2. best \in [1..Periods -> Nat] BY <1>1, Sizes DEF Init, Account
<1>3. usage \in [0..Periods -> CountedRow] BY Sizes, MoreSizes DEF Init, Empty, CountedRow
<1>4. Numbered BY Sizes, MoreSizes DEF Init, Numbered
<1>5. IsFiniteSet(claims) /\ IsFiniteSet(received) BY FS_EmptySet DEF Init
<1>6. now \in 0..MaxTime /\ lastRun \in {Never} \cup 0..now BY Sizes DEF Init, Never
<1> QED BY <1>1, <1>2, <1>3, <1>4, <1>5, <1>6 DEF Init, MeterInv, MeterTypeOK, CountedRow

LEMMA AccountFields ==
  ASSUME NEW a \in Account
  PROVE /\ a.n \in Nat /\ a.n <= MaxChanges + Periods /\ a.live \in BOOLEAN
        /\ a.period \in Nat /\ a.period >= 1 /\ a.period <= Periods /\ a.plan \in Plans \cup {Free}
  BY Sizes, MoreSizes DEF Account

LEMMA RowFields ==
  ASSUME NEW u \in CountedRow
  PROVE /\ u.messages \in Nat /\ u.messages <= MaxMessages /\ u.floor \in Nat
        /\ \A n \in 0..MaxMessages : [u EXCEPT !.messages = n] \in CountedRow
        /\ \A n \in Nat : [u EXCEPT !.floor = n] \in CountedRow
        /\ [u EXCEPT !.paused = TRUE] \in CountedRow /\ [u EXCEPT !.warned = TRUE] \in CountedRow
<1>1. u.messages \in Nat /\ u.messages <= MaxMessages /\ u.floor \in Nat BY MoreSizes DEF CountedRow
<1>2. \A n \in 0..MaxMessages : [u EXCEPT !.messages = n] \in CountedRow BY DEF CountedRow
<1>3. \A n \in Nat : [u EXCEPT !.floor = n] \in CountedRow BY DEF CountedRow
<1>4. [u EXCEPT !.paused = TRUE] \in CountedRow /\ [u EXCEPT !.warned = TRUE] \in CountedRow
  BY DEF CountedRow
<1> QED BY <1>1, <1>2, <1>3, <1>4

LEMMA MeterTyped ==
  ASSUME MeterTypeOK
  PROVE /\ now \in Nat /\ sold \in Account /\ row \in Account /\ coming \subseteq Account
        /\ usage \in [0..Periods -> CountedRow] /\ active \in [Devices -> {Never} \cup 0..now]
<1>1. now \in 0..MaxTime /\ sold \in Account /\ row \in Account /\ coming \subseteq Account
  BY DEF MeterTypeOK
<1>2. usage \in [0..Periods -> CountedRow] /\ active \in [Devices -> {Never} \cup 0..now]
  BY DEF MeterTypeOK, CountedRow
<1>3. now \in Nat BY <1>1, Sizes
<1> QED BY <1>1, <1>2, <1>3

LEMMA TypesGiveTyped == ASSUME MeterTypeOK PROVE Typed
<1>1. CountedRow \subseteq UsageRow BY MoreSizes DEF CountedRow, UsageRow
<1>2. Account \subseteq Subscription BY Sizes, MoreSizes DEF Account, Subscription
<1>3. Counting \subseteq Tallies BY MoreSizes DEF Counting, Tallies
<1>4. active \in [Devices -> Int]
  <2>1. {Never} \cup 0..now \subseteq Int BY MeterTyped DEF Never
  <2> QED BY <2>1, MeterTyped
<1>5. sold \in Subscription /\ row \in Subscription /\ coming \subseteq Subscription BY <1>2, MeterTyped
<1>6. usage \in [0..Periods -> UsageRow] BY <1>1, MeterTyped
<1>7. consumer \in [Consumers -> {Resting} \cup Tallies] BY <1>3 DEF MeterTypeOK
<1> QED BY <1>4, <1>5, <1>6, <1>7 DEF MeterTypeOK, Typed

(* What a step told Stripe, and so the webhook, stays an account. *)
LEMMA EmitsAccount ==
  ASSUME MeterInv, NEW a \in Account, Emits(a), sold.n < MaxChanges + a.period - 1 
  PROVE sold' \in Account /\ coming' \subseteq Account /\ Numbered'
<1>1. sold.n \in Nat /\ a.period \in 1..Periods /\ sold.n + 1 \in 0..MaxChanges + Periods
  <2>1. sold \in Account BY MeterTyped DEF MeterInv
  <2> QED BY <2>1, AccountFields, Sizes, MoreSizes
<1>2. Newer(a, sold) \in Account BY <1>1 DEF Newer, Account
<1>3. Newer(a, sold).n = sold.n + 1 /\ Newer(a, sold).period = a.period BY DEF Newer, Account
<1>4. sold' = Newer(a, sold) /\ coming' = coming \cup {Newer(a, sold)} BY DEF Emits
<1>5. Numbered' BY <1>1, <1>3, <1>4, Sizes, MoreSizes DEF Numbered
<1> QED BY <1>2, <1>4, <1>5 DEF MeterInv, MeterTypeOK

LEMMA TickMeters == ASSUME MeterInv, Tick PROVE MeterInv'
<1>1. now' \in 0..MaxTime /\ now' = now + 1 /\ now \in Nat BY Sizes DEF Tick, MeterInv, MeterTypeOK
<1>2. sold' \in Account /\ coming' \subseteq Account /\ Numbered'
  <2>1. CASE sold.live /\ now' = End(sold.period)
    <3>1. sold.period < Periods
      <4>1. Typed BY TypesGiveTyped DEF MeterInv
      <4> QED BY <2>1, <4>1, RenewalFits
    <3> DEFINE a == [sold EXCEPT !.period = sold.period + 1]
    <3>2. a \in Account /\ a.period = sold.period + 1
      <4>1. sold \in Account /\ sold.period + 1 \in 1..Periods
        BY <3>1, Sizes, MeterTyped, AccountFields DEF MeterInv
      <4> QED BY <4>1 DEF Account
    <3>3. sold.n < MaxChanges + (sold.period + 1) - 1
      BY Sizes, MoreSizes DEF MeterInv, Numbered, MeterTypeOK, Account
    <3>4. Emits(a) BY <2>1 DEF Tick
    <3> HIDE DEF a
    <3> QED BY <3>2, <3>3, <3>4, EmitsAccount
  <2>2. CASE ~(sold.live /\ now' = End(sold.period))
    BY <2>2 DEF Tick, MeterInv, MeterTypeOK, Numbered
  <2> QED BY <2>1, <2>2
<1>3. lastRun' \in {Never} \cup 0..now' /\ active' \in [Devices -> {Never} \cup 0..now']
  <2>1. lastRun \in {Never} \cup 0..now /\ active \in [Devices -> {Never} \cup 0..now]
    BY DEF MeterInv, MeterTypeOK
  <2>2. {Never} \cup 0..now \subseteq {Never} \cup 0..now' BY <1>1
  <2>3. lastRun' = lastRun /\ active' = active BY DEF Tick
  <2> QED BY <2>1, <2>2, <2>3
<1> QED BY <1>1, <1>2, <1>3 DEF Tick, MeterInv, MeterTypeOK, History

LEMMA RecountTyped ==
  ASSUME MeterInv, NEW P, NEW D \in SUBSET Devices, Recount(P, D),
         row' \in Account, usage' \in [0..Periods -> CountedRow]
  PROVE /\ best' \in [1..Periods -> Nat] /\ owed' \in [1..Periods -> Nat]
        /\ seen' \in [1..Periods -> SUBSET Devices] /\ overtaken' \in BOOLEAN
<1>1. ASSUME NEW p \in 1..Periods PROVE Max({best[p], Included[row'.plan]}) \in Nat /\ best[p] \in Nat
  <2>1. best[p] \in Nat /\ Included[row'.plan] \in Nat BY Sizes DEF MeterInv, MeterTypeOK, Account
  <2> QED BY <2>1, LargerNat
<1>2. best' \in [1..Periods -> Nat] BY <1>1 DEF Recount
<1>3. ASSUME NEW p \in 1..Periods
      PROVE /\ Max({owed[p], Beyond(usage'[p].messages, Allowance(row'.plan, best'[p], Connected(p)'))}) \in Nat
            /\ owed[p] \in Nat
  <2>1. owed[p] \in Nat /\ usage'[p].messages \in Nat /\ best'[p] \in Nat
    <3>1. usage'[p] \in CountedRow BY Sizes
    <3> QED BY <1>2, <3>1, RowFields DEF MeterInv, MeterTypeOK
  <2>2. Connected(p)' \in Nat
    <3>1. IsFiniteSet({d \in Devices : Start(p) <= active'[d] /\ active'[d] < End(p)})
      BY MoreSizes, FS_Subset
    <3> QED BY <3>1, FS_CardinalityType DEF Connected, Start, End
  <2>3. Allowance(row'.plan, best'[p], Connected(p)') \in Nat
    <3>1. row'.plan \in Plans \cup {Free} BY DEF Account
    <3> DEFINE n == Connected(p)'
               b == best'[p]
               q == row'.plan
    <3>2. n \in Nat /\ b \in Nat /\ q \in Plans \cup {Free} BY <2>1, <2>2, <3>1
    <3> HIDE DEF n, b, q
    <3>3. Allowance(q, b, n) \in Nat BY <3>2, AllowanceTyped
    <3> QED BY <3>3 DEF n, b, q
  <2> QED BY <2>1, <2>3, BeyondTyped, LargerNat
<1>4. owed' \in [1..Periods -> Nat] BY <1>3 DEF Recount
<1> QED BY <1>2, <1>4 DEF Recount, MeterInv, MeterTypeOK

LEMMA TallyMeters ==
  ASSUME MeterInv, NEW c \in Consumers, NEW d \in Devices, Tally(c, d) PROVE MeterInv'
<1> DEFINE key == UsageKey
<1>1. key \in 0..Periods BY KeysTyped DEF MeterInv
<1>2. PICK count \in Batches :
        /\ Counted + count <= MaxMessages
        /\ usage' = [usage EXCEPT ![key].messages = usage[key].messages + count]
        /\ consumer' = [consumer EXCEPT ![c] = IF row.live THEN Resting
             ELSE [phase |-> IF usage[key].messages + count >= Included[Served] THEN "pause" ELSE "warn",
                   key |-> key, count |-> usage[key].messages + count]]
  BY DEF Tally
<1> HIDE DEF key
<1> DEFINE total == usage[key].messages + count
<1>3. total \in 0..MaxMessages
  <2>1. \A k \in 0..Periods : usage[k].messages \in Nat
    BY MeterTyped, RowFields DEF MeterInv
  <2>2. Counted \in Nat /\ usage[key].messages <= Counted BY <1>1, <2>1, CountedIs
  <2>3. count \in Nat BY Sizes
  <2>4. usage[key].messages \in Nat BY <1>1, <2>1
  <2> QED BY <1>2, <2>2, <2>3, <2>4, MoreSizes
<1>4. usage' \in [0..Periods -> CountedRow]
  <2>1. usage[key] \in CountedRow BY <1>1, MeterTyped DEF MeterInv
  <2>2. [usage[key] EXCEPT !.messages = total] \in CountedRow BY <1>3, <2>1, RowFields
  <2>3. usage' = [usage EXCEPT ![key] = [usage[key] EXCEPT !.messages = total]] BY <1>2
  <2> QED BY <2>2, <2>3, MeterTyped DEF MeterInv
<1>5. consumer' \in [Consumers -> {Resting} \cup Counting]
  <2>1. \A ph \in {"pause", "warn"} : [phase |-> ph, key |-> key, count |-> total] \in Counting
    BY <1>1, <1>3 DEF Counting
  <2> QED BY <1>2, <2>1 DEF MeterInv, MeterTypeOK
<1>6. active' \in [Devices -> {Never} \cup 0..now]
  <2>1. PICK at \in Stamps(d, UsageKey) : active' = [active EXCEPT ![d] = at] BY DEF Tally
  <2>2. now \in 0..now /\ active[d] \in {Never} \cup 0..now BY MeterTyped DEF MeterInv
  <2>3. at \in {Never} \cup 0..now BY <2>1, <2>2 DEF Stamps
  <2> QED BY <2>1, <2>3, MeterTyped DEF MeterInv
<1>7. /\ best' \in [1..Periods -> Nat] /\ owed' \in [1..Periods -> Nat]
      /\ seen' \in [1..Periods -> SUBSET Devices] /\ overtaken' \in BOOLEAN
  <2>1. row' \in Account BY MeterTyped DEF Tally, MeterInv
  <2>2. Recount({key}, {d}) BY DEF Tally, key
  <2> QED BY <1>4, <2>1, <2>2, RecountTyped
<1> QED BY <1>4, <1>5, <1>6, <1>7 DEF Tally, MeterInv, MeterTypeOK, CountedRow, Numbered

LEMMA ChangeMeters ==
  ASSUME MeterInv, NEW m \in Managers, (\E to \in Plans : ReadPlan(m, to)) \/ RaiseFloor(m) \/ UpdateTier(m)
  PROVE MeterInv'
<1>1. ASSUME NEW to \in Plans, ReadPlan(m, to) PROVE MeterInv'
  <2>1. [phase |-> "floor", from |-> row.plan, key |-> UsageKey, to |-> to] \in Requested
    BY MeterTyped, KeysTyped, AccountFields DEF Requested, MeterInv
  <2>2. change' \in [Managers -> {Resting} \cup Requested]
    BY <1>1, <2>1 DEF ReadPlan, MeterInv, MeterTypeOK
  <2> QED BY <1>1, <2>2 DEF ReadPlan, MeterInv, MeterTypeOK, Stripe, Columns, History, Numbered
<1>2. CASE RaiseFloor(m)
  <2>1. change[m] \in Requested BY <1>2 DEF RaiseFloor, MeterInv, MeterTypeOK, Resting
  <2>2. change[m].key \in 0..Periods /\ change[m].from \in Plans \cup {Free}
    BY <2>1 DEF Requested
  <2>3. change' \in [Managers -> {Resting} \cup Requested]
    <3>1. [change[m] EXCEPT !.phase = "update"] \in Requested BY <2>1 DEF Requested
    <3> QED BY <1>2, <3>1 DEF RaiseFloor, MeterInv, MeterTypeOK
  <2> DEFINE key == change[m].key
             high == Floored(usage[key].floor, Included[change[m].from])
  <2>4. usage[key] \in CountedRow BY <2>2, MeterTyped DEF MeterInv
  <2>5. high \in Nat
    <3>1. usage[key].floor \in Nat /\ Included[change[m].from] \in Nat BY <2>2, <2>4, RowFields, Sizes
    <3> QED BY <3>1, LargerNat DEF Floored
  <2>6. usage' = usage \/ usage' = [usage EXCEPT ![key] = [usage[key] EXCEPT !.floor = high]]
    BY <1>2 DEF RaiseFloor
  <2> HIDE DEF high, key
  <2>7. usage' \in [0..Periods -> CountedRow] BY <2>4, <2>5, <2>6, RowFields, MeterTyped DEF MeterInv
  <2> QED BY <1>2, <2>3, <2>7 DEF RaiseFloor, MeterInv, MeterTypeOK, Stripe, History, Numbered, CountedRow
<1>3. CASE UpdateTier(m)
  <2>1. change[m] \in Requested BY <1>3 DEF UpdateTier, MeterInv, MeterTypeOK, Resting
  <2>2. change' \in [Managers -> {Resting} \cup Requested] BY <1>3 DEF UpdateTier, MeterInv, MeterTypeOK
  <2>3. sold' \in Account /\ coming' \subseteq Account /\ Numbered'
    <3>1. CASE UNCHANGED <<sold, coming>> BY <3>1 DEF MeterInv, MeterTypeOK, Numbered
    <3>2. CASE sold.n < MaxChanges /\ Emits([sold EXCEPT !.plan = change[m].to])
      <4> DEFINE a == [sold EXCEPT !.plan = change[m].to]
      <4>1. a \in Account /\ a.period = sold.period
        <5>1. sold \in Account /\ change[m].to \in Plans BY <2>1, MeterTyped DEF MeterInv, Requested
        <5> QED BY <5>1 DEF Account
      <4>2. sold.n < MaxChanges + a.period - 1
        <5>1. a.period \in Nat /\ a.period >= 1 BY <4>1, AccountFields
        <5>2. sold.n \in Nat BY MeterTyped, AccountFields DEF MeterInv
        <5> HIDE DEF a
        <5> QED BY <3>2, <5>1, <5>2, MoreSizes
      <4>3. Emits(a) BY <3>2
      <4> HIDE DEF a
      <4> QED BY <4>1, <4>2, <4>3, EmitsAccount
    <3> QED BY <1>3, <3>1, <3>2 DEF UpdateTier
  <2>4. overtaken' \in BOOLEAN BY <1>3 DEF UpdateTier, MeterInv, MeterTypeOK
  <2> QED BY <1>3, <2>2, <2>3, <2>4 DEF UpdateTier, MeterInv, MeterTypeOK, Columns
<1> QED BY <1>1, <1>2, <1>3

LEMMA ConsumerMeters ==
  ASSUME MeterInv, NEW c \in Consumers, StampPause(c) \/ ClaimWarning(c) \/ MailWarning(c) \/ DropTally(c)
  PROVE MeterInv'
<1>1. consumer[c] \in Counting
  BY DEF StampPause, ClaimWarning, MailWarning, DropTally, MeterInv, MeterTypeOK, Resting
<1> DEFINE key == consumer[c].key
<1>2. key \in 0..Periods /\ usage[key] \in CountedRow
  <2>1. key \in 0..Periods BY <1>1 DEF Counting
  <2> QED BY <2>1, MeterTyped DEF MeterInv
<1>3. consumer' \in [Consumers -> {Resting} \cup Counting]
  <2>1. [consumer[c] EXCEPT !.phase = "warn"] \in Counting /\ [consumer[c] EXCEPT !.phase = "mail"] \in Counting
    BY <1>1 DEF Counting
  <2> QED BY <2>1 DEF StampPause, ClaimWarning, MailWarning, DropTally, MeterInv, MeterTypeOK
<1>4. \/ usage' = usage \/ usage' = [usage EXCEPT ![key] = [usage[key] EXCEPT !.paused = TRUE]]
      \/ usage' = [usage EXCEPT ![key] = [usage[key] EXCEPT !.warned = TRUE]]
  BY DEF StampPause, ClaimWarning, MailWarning, DropTally, Columns
<1>5. mails' \in [0..Periods -> Nat]
  <2>1. mails' = mails \/ mails' = [mails EXCEPT ![key] = mails[key] + 1]
    BY DEF StampPause, ClaimWarning, MailWarning, DropTally
  <2>2. mails \in [0..Periods -> Nat] BY DEF MeterInv, MeterTypeOK
  <2> QED BY <1>2, <2>1, <2>2
<1> HIDE DEF key
<1>6. usage' \in [0..Periods -> CountedRow] BY <1>2, <1>4, RowFields, MeterTyped DEF MeterInv
<1>7. UNCHANGED <<now, sold, coming, received, row, active, change, lastRun, run, claims, owed, best, seen, overtaken>>
  BY DEF StampPause, ClaimWarning, MailWarning, DropTally, Columns, Stripe, History
<1> QED BY <1>3, <1>5, <1>6, <1>7 DEF MeterInv, MeterTypeOK, CountedRow, Numbered

LEMMA WebhookMeters == ASSUME MeterInv, NEW a \in coming, Webhook(a) PROVE MeterInv'
<1>1. row' \in Account /\ usage' \in [0..Periods -> CountedRow] /\ coming' \subseteq Account
  BY MeterTyped DEF Webhook, MeterInv
<1>2. /\ best' \in [1..Periods -> Nat] /\ owed' \in [1..Periods -> Nat]
      /\ seen' \in [1..Periods -> SUBSET Devices] /\ overtaken' \in BOOLEAN
  <2>1. Recount({}, {}) BY DEF Webhook
  <2> QED BY <1>1, <2>1, RecountTyped
<1> QED BY <1>1, <1>2 DEF Webhook, MeterInv, MeterTypeOK, Numbered

LEMMA CancelMeters == ASSUME MeterInv, Cancel PROVE MeterInv'
<1> DEFINE a == [sold EXCEPT !.live = FALSE, !.plan = Free]
<1>1. a \in Account /\ a.period = sold.period
  <2>1. sold \in Account BY MeterTyped DEF MeterInv
  <2> QED BY <2>1 DEF Account
<1>2. sold.n < MaxChanges + a.period - 1
  BY <1>1, MeterTyped, AccountFields, MoreSizes DEF MeterInv, Cancel
<1>3. Emits(a) BY DEF Cancel
<1> HIDE DEF a
<1>4. sold' \in Account /\ coming' \subseteq Account /\ Numbered' BY <1>1, <1>2, <1>3, EmitsAccount
<1> QED BY <1>4 DEF Cancel, MeterInv, MeterTypeOK, History

(* The reporter. *)

LEMMA RunTyped ==
  ASSUME MeterTypeOK
  PROVE /\ run.phase \in Phases
        /\ run.phase \in {"sum", "claim", "mark", "post", "devices"} => run \in Reporting
        /\ run.phase = "load" => run = [phase |-> "load"]
        /\ run.phase = "idle" => run = Resting
  BY DEF MeterTypeOK, Resting, Reporting, Phases

LEMMA RunFields ==
  ASSUME NEW r \in Reporting
  PROVE /\ r.meter \in Meters /\ r.period \in 1..Periods /\ r.plan \in Plans /\ r.devices \in Nat
        /\ r.figure \in Nat /\ r.day \in Nat /\ r.batch \in SUBSET Claim
  BY DEF Reporting

LEMMA RunChanges ==
  ASSUME NEW r \in Reporting
  PROVE /\ \A ph \in {"sum", "claim", "mark", "post", "devices"} : [r EXCEPT !.phase = ph] \in Reporting
        /\ \A n \in Nat : [r EXCEPT !.figure = n] \in Reporting
        /\ \A n \in Nat : [r EXCEPT !.day = n] \in Reporting
        /\ \A b \in SUBSET Claim : [r EXCEPT !.batch = b] \in Reporting
        /\ \A m \in Meters : [r EXCEPT !.meter = m] \in Reporting
<1>1. \A ph \in {"sum", "claim", "mark", "post", "devices"} : [r EXCEPT !.phase = ph] \in Reporting
  BY DEF Reporting
<1>2. \A n \in Nat : [r EXCEPT !.figure = n] \in Reporting BY DEF Reporting
<1>3. \A n \in Nat : [r EXCEPT !.day = n] \in Reporting BY DEF Reporting
<1>4. \A b \in SUBSET Claim : [r EXCEPT !.batch = b] \in Reporting BY DEF Reporting
<1>5. \A m \in Meters : [r EXCEPT !.meter = m] \in Reporting BY DEF Reporting
<1> QED BY <1>1, <1>2, <1>3, <1>4, <1>5

(* A step of the reporter keeps the types when its run, claims and receipts do. *)
LEMMA ReporterKeeps ==
  ASSUME MeterInv, UNCHANGED <<now, sold, coming, row, usage, active, consumer, change, mails>>,
         UNCHANGED History, lastRun' = lastRun \/ lastRun' = now,
         run' \in {Resting, [phase |-> "load"]} \cup Reporting,
         claims' \subseteq Claim, IsFiniteSet(claims'), received' \subseteq Receipt, IsFiniteSet(received')
  PROVE MeterInv'
<1>1. lastRun' \in {Never} \cup 0..now'
  <2>1. lastRun \in {Never} \cup 0..now BY DEF MeterInv, MeterTypeOK
  <2>2. now \in 0..now BY MeterTyped DEF MeterInv
  <2> QED BY <2>1, <2>2
<1> QED BY <1>1 DEF MeterInv, MeterTypeOK, History, Numbered

LEMMA LoadMeters == ASSUME MeterInv, LoadOrg PROVE run' \in {Resting} \cup Reporting
<1>1. CASE ~Within(row) \/ row.plan = Free BY <1>1 DEF LoadOrg
<1>2. CASE ~(~Within(row) \/ row.plan = Free)
  <2> DEFINE p == row.period
             n == Connected(p)
             figure == Beyond(usage[p].messages, Allowance(row.plan, usage[p].floor, n))
  <2>1. /\ run' = [phase |-> "sum", meter |-> "messages", period |-> p, plan |-> row.plan,
                   devices |-> n, day |-> 0, batch |-> {}, figure |-> figure]
        /\ p \in 1..Periods /\ row.plan \in Plans
    BY <1>2, MeterTyped DEF LoadOrg, MeterInv, Account
  <2>2. n \in Nat BY ConnectedTyped
  <2>3. figure \in Nat
    <3>1. usage[p] \in CountedRow /\ row.plan \in Plans \cup {Free} BY <2>1, MeterTyped, Sizes DEF MeterInv
    <3>2. usage[p].messages \in Nat /\ usage[p].floor \in Nat BY <3>1, RowFields
    <3> HIDE DEF n
    <3>3. Allowance(row.plan, usage[p].floor, n) \in Nat BY <2>2, <3>1, <3>2, AllowanceTyped
    <3> QED BY <3>2, <3>3, BeyondTyped
  <2> HIDE DEF n, figure, p
  <2> QED BY <2>1, <2>2, <2>3 DEF Reporting, Meters
<1> QED BY <1>1, <1>2

LEMMA OfPriced ==
  ASSUME MeterInv, NEW meter, NEW p
  PROVE Priced(Of(meter, p)) /\ Billed(Of(meter, p)) \in Nat
<1>1. Priced(Of(meter, p)) BY FS_Subset DEF Priced, Of, MeterInv, MeterTypeOK, Claim
<1> QED BY <1>1, BilledTyped

LEMMA SumMeters == ASSUME MeterInv, SumClaims PROVE run' \in Reporting
<1>1. run \in Reporting /\ now \in Nat BY RunTyped, MeterTyped DEF SumClaims, MeterInv
<1> DEFINE delta == Delta(run.figure, Of("messages", run.period))
<1>2. delta \in Int BY <1>1, RunFields, OfPriced DEF Delta
<1>3. \/ delta > 0 /\ run' = [run EXCEPT !.phase = "claim", !.figure = delta, !.day = Day(now)]
      \/ run' = [run EXCEPT !.phase = "mark", !.figure = 0]
  BY DEF SumClaims
<1> HIDE DEF delta
<1>4. Day(now) \in Nat BY <1>1, DayTyped
<1>5. CASE delta > 0 /\ run' = [run EXCEPT !.phase = "claim", !.figure = delta, !.day = Day(now)]
  <2> DEFINE a == [run EXCEPT !.phase = "claim"]
             b == [a EXCEPT !.figure = delta]
             d == Day(now)
  <2>1. delta \in Nat BY <1>2, <1>5
  <2>2. a \in Reporting BY <1>1, RunChanges
  <2>3. b \in Reporting BY <2>1, <2>2, RunChanges
  <2>4. [b EXCEPT !.day = Day(now)] \in Reporting BY <1>4, <2>3, RunChanges
  <2>5. run' = [b EXCEPT !.day = Day(now)] BY <1>1, <1>5 DEF Reporting
  <2> QED BY <2>4, <2>5
<1>6. CASE run' = [run EXCEPT !.phase = "mark", !.figure = 0]
  <2> DEFINE a == [run EXCEPT !.phase = "mark"]
  <2>1. a \in Reporting BY <1>1, RunChanges
  <2>2. [a EXCEPT !.figure = 0] \in Reporting BY <2>1, RunChanges
  <2>3. run' = [a EXCEPT !.figure = 0] BY <1>1, <1>6 DEF Reporting
  <2> QED BY <2>2, <2>3
<1> QED BY <1>3, <1>5, <1>6

LEMMA ClaimMeters ==
  ASSUME MeterInv, NEW meter \in Meters, NEW p \in 1..Periods, NEW day \in Nat, NEW quantity \in Nat,
         NEW ident \in Nat, claims' = claims \/ claims' = Claimed(meter, p, day, quantity, ident)
  PROVE claims' \subseteq Claim /\ IsFiniteSet(claims')
<1> DEFINE new == [meter |-> meter, period |-> p, day |-> day, quantity |-> quantity,
                   ident |-> ident, posted |-> FALSE]
<1>1. new \in Claim BY DEF Claim
<1>2. claims' = claims \/ claims' = claims \cup {new} BY DEF Claimed
<1>3. claims \subseteq Claim /\ IsFiniteSet(claims) BY DEF MeterInv, MeterTypeOK
<1> HIDE DEF new
<1> QED BY <1>1, <1>2, <1>3, FS_AddElement

LEMMA MessageMeters ==
  ASSUME MeterInv, ClaimMessages
  PROVE run' \in Reporting /\ claims' \subseteq Claim /\ IsFiniteSet(claims')
<1>1. run \in Reporting /\ now \in Nat BY RunTyped, MeterTyped DEF ClaimMessages, MeterInv
<1>2. run' \in Reporting
  <2> DEFINE a == [run EXCEPT !.phase = "mark"]
             b == [a EXCEPT !.figure = 0]
  <2>1. a \in Reporting BY <1>1, RunChanges
  <2>2. b \in Reporting BY <2>1, RunChanges
  <2>3. [b EXCEPT !.day = 0] \in Reporting BY <2>2, RunChanges
  <2>4. run' = [b EXCEPT !.day = 0] BY <1>1 DEF ClaimMessages, Reporting
  <2> QED BY <2>3, <2>4
<1>3. Day(now) \in Nat /\ run.period \in 1..Periods /\ run.figure \in Nat /\ run.day \in Nat
  BY <1>1, DayTyped, RunFields
<1>4. "messages" \in Meters BY DEF Meters
<1>5. claims' = Claimed("messages", run.period, Day(now), run.figure, run.day) BY DEF ClaimMessages
<1> QED BY <1>2, <1>3, <1>4, <1>5, ClaimMeters

LEMMA MarkMeters ==
  ASSUME MeterInv, MarkPosted
  PROVE run' \in Reporting /\ claims' \subseteq Claim /\ IsFiniteSet(claims')
<1>1. run \in Reporting BY RunTyped DEF MarkPosted, MeterInv
<1>2. claims \subseteq Claim /\ IsFiniteSet(claims) BY DEF MeterInv, MeterTypeOK
<1> DEFINE batch == {c \in Of(run.meter, run.period) : ~c.posted}
           Mk(c) == [c EXCEPT !.posted = TRUE]
           a == [run EXCEPT !.phase = "post"]
<1>3. batch \subseteq claims BY DEF Of
<1>4. a \in Reporting BY <1>1, RunChanges
<1>5. CASE run' = a /\ claims' = claims BY <1>2, <1>4, <1>5
<1>6. CASE run' = [run EXCEPT !.phase = "post", !.batch = batch] /\ claims' = Marked(batch)
  <2>1. run' = [a EXCEPT !.batch = batch] BY <1>1, <1>6 DEF Reporting
  <2>2. batch \in SUBSET Claim BY <1>2, <1>3
  <2>3. \A c \in Claim : Mk(c) \in Claim BY DEF Claim
  <2>4. claims' = (claims \ batch) \cup {Mk(c) : c \in batch} BY <1>6 DEF Marked
  <2>5. run' \in Reporting
    <3> HIDE DEF a, batch
    <3> QED BY <1>4, <2>1, <2>2, RunChanges
  <2> HIDE DEF batch, Mk, a
  <2>6. IsFiniteSet({Mk(c) : c \in batch}) /\ IsFiniteSet(claims \ batch)
    <3>1. IsFiniteSet(batch) /\ IsFiniteSet(claims \ batch) BY <1>2, <1>3, FS_Subset
    <3> DEFINE T == {Mk(c) : c \in batch}
               f == [c \in batch |-> Mk(c)]
    <3>2. f \in Surjection(batch, T) BY DEF Surjection
    <3> HIDE DEF f, T
    <3>3. IsFiniteSet(T) BY <3>1, <3>2, FS_Surjection
    <3> QED BY <3>1, <3>3 DEF T
  <2>7. IsFiniteSet(claims') BY <2>4, <2>6, FS_Union
  <2>8. claims' \subseteq Claim BY <1>2, <2>2, <2>3, <2>4
  <2> QED BY <2>5, <2>7, <2>8
<1> QED BY <1>5, <1>6 DEF MarkPosted

LEMMA PostMeters ==
  ASSUME MeterInv, Post
  PROVE run' \in Reporting /\ received' \subseteq Receipt /\ IsFiniteSet(received')
<1>1. run \in Reporting BY RunTyped DEF Post, MeterInv
<1>2. PICK c \in run.batch : /\ run' = [run EXCEPT !.batch = @ \ {c}]
                             /\ received' = Taken(c) \/ received' = received
  BY DEF Post
<1>3. run.batch \in SUBSET Claim BY <1>1, RunFields
<1>4. run' \in Reporting
  <2> DEFINE b == run.batch \ {c}
  <2>1. b \in SUBSET Claim BY <1>3
  <2>2. run' = [run EXCEPT !.batch = b] BY <1>2
  <2> HIDE DEF b
  <2> QED BY <1>1, <2>1, <2>2, RunChanges
<1> DEFINE new == [meter |-> c.meter, period |-> c.period, ident |-> c.ident, quantity |-> c.quantity, at |-> now]
<1>5. new \in Receipt
  <2>1. c \in Claim /\ now \in 0..MaxTime BY <1>2, <1>3 DEF MeterInv, MeterTypeOK
  <2> QED BY <2>1 DEF Claim, Receipt
<1>6. received' = received \/ received' = received \cup {new} BY <1>2 DEF Taken
<1>7. received \subseteq Receipt /\ IsFiniteSet(received) BY DEF MeterInv, MeterTypeOK
<1> HIDE DEF new
<1> QED BY <1>4, <1>5, <1>6, <1>7, FS_AddElement

LEMMA DeviceMeters ==
  ASSUME MeterInv, ClaimDevices
  PROVE run' \in {Resting} \cup Reporting /\ claims' \subseteq Claim /\ IsFiniteSet(claims')
<1>1. run \in Reporting BY RunTyped DEF ClaimDevices, MeterInv
<1>2. "devices" \in Meters BY DEF Meters
<1> DEFINE a == [run EXCEPT !.phase = "mark"]
           extra == ExtraDevices(run.plan, run.devices)
<1>3. a \in Reporting BY <1>1, RunChanges
<1>4. [a EXCEPT !.meter = "devices"] \in Reporting BY <1>2, <1>3, RunChanges
<1>5. run' = Resting \/ run' = [a EXCEPT !.meter = "devices"] BY <1>1 DEF ClaimDevices, Reporting
<1>6. run.period \in 1..Periods /\ run.plan \in Plans /\ run.devices \in Nat BY <1>1, RunFields
<1>7. extra \in Nat BY <1>6, ExtraTyped
<1>8. DeviceDay(run.period) \in Nat
  <2>1. run.period * PeriodSlots \in Nat BY <1>6, Sizes, MoreSizes
  <2> QED BY <2>1, DayTyped DEF DeviceDay, End
<1>9. claims' = claims \/ claims' = Claimed("devices", run.period, DeviceDay(run.period), extra, 0)
  BY DEF ClaimDevices
<1> HIDE DEF a, extra
<1> QED BY <1>2, <1>4, <1>5, <1>6, <1>7, <1>8, <1>9, ClaimMeters

LEMMA ReporterMeters == ASSUME MeterInv, Reporter PROVE MeterInv'
<1>1. /\ UNCHANGED <<now, sold, coming, row, usage, active, consumer, change, mails>>
      /\ UNCHANGED History /\ (lastRun' = lastRun \/ lastRun' = now)
  BY DEF Reporter, StartRun, LoadOrg, SumClaims, ClaimMessages, MarkPosted, Post, PostedAll, ClaimDevices,
         KillRun, History, Stripe, Columns
<1>2. claims \subseteq Claim /\ IsFiniteSet(claims) /\ received \subseteq Receipt /\ IsFiniteSet(received)
  BY DEF MeterInv, MeterTypeOK
<1>3. claims' \subseteq Claim /\ IsFiniteSet(claims')
  <2>1. ClaimMessages \/ MarkPosted \/ ClaimDevices \/ claims' = claims
    BY DEF Reporter, StartRun, LoadOrg, SumClaims, Post, PostedAll, KillRun, Columns
  <2> QED BY <1>2, <2>1, MessageMeters, MarkMeters, DeviceMeters
<1>4. received' \subseteq Receipt /\ IsFiniteSet(received')
  <2>1. Post \/ received' = received
    BY DEF Reporter, StartRun, LoadOrg, SumClaims, ClaimMessages, MarkPosted, PostedAll, ClaimDevices,
           KillRun, Stripe
  <2> QED BY <1>2, <2>1, PostMeters
<1>5. run' \in {Resting, [phase |-> "load"]} \cup Reporting
  <2>1. CASE StartRun \/ KillRun BY <2>1 DEF StartRun, KillRun
  <2>2. CASE PostedAll
    <3>1. run \in Reporting BY <2>2, RunTyped DEF PostedAll, MeterInv
    <3>2. [run EXCEPT !.phase = "devices"] \in Reporting BY <3>1, RunChanges
    <3> QED BY <2>2, <3>2 DEF PostedAll
  <2> QED BY <2>1, <2>2, LoadMeters, SumMeters, MessageMeters, MarkMeters, PostMeters, DeviceMeters DEF Reporter
<1> QED BY <1>1, <1>3, <1>4, <1>5, ReporterKeeps

LEMMA MeterStep == MeterInv /\ [Next]_metering_vars => MeterInv'
<1> SUFFICES ASSUME MeterInv, [Next]_metering_vars PROVE MeterInv' OBVIOUS
<1>1. CASE UNCHANGED metering_vars BY <1>1 DEF metering_vars, MeterInv, MeterTypeOK, Numbered
<1> QED BY <1>1, TickMeters, CancelMeters, WebhookMeters, TallyMeters, ConsumerMeters, ChangeMeters,
           ReporterMeters DEF Next

(* Every column, row, claim and receipt keeps its type: no claim is of a negative quantity, no *)
(* usage row counts past the bound, and a renewal always finds the next period.               *)
THEOREM MeterTypes == Spec => []MeterTypeOK
<1>1. MeterInv => MeterTypeOK BY DEF MeterInv
<1> QED BY <1>1, MeterStarts, MeterStep, PTL DEF Spec

----------------------------------------------------------------------------
(* What the columns show of the subscription, and what they will show. *)

Known == coming \cup {row}

(* Events are applied in the order Stripe made them, and none brings back a period or a *)
(* subscription that is over.                                                            *)
Ordered ==
  /\ sold \in Known
  /\ sold.live => Within(sold)
  /\ \A a \in Known : a.n <= sold.n
  /\ \A a \in coming : row.n < a.n
  /\ \A a, b \in Known : a.n <= b.n => a.period <= b.period /\ (b.live => a.live)
  /\ \A a, b \in Known : a.n = b.n => a = b

LEMMA LargerIs ==
  ASSUME NEW a \in Nat, NEW b \in Nat
  PROVE Max({a, b}) \in Nat /\ Max({a, b}) >= a /\ Max({a, b}) >= b /\ Max({a, b}) \in {a, b}
  BY DEF Max

LEMMA Edges ==
  ASSUME NEW p \in Nat
  PROVE /\ Start(p) \in Int /\ End(p) \in Int
        /\ Start(p + 1) = End(p) /\ End(p) < End(p + 1)
<1>1. p * PeriodSlots \in Int /\ (p - 1) * PeriodSlots \in Int /\ (p + 1) * PeriodSlots = p * PeriodSlots + PeriodSlots
  BY MoreSizes
<1>2. (p + 1) - 1 = p OBVIOUS
<1> QED BY <1>1, <1>2, MoreSizes DEF Start, End

LEMMA KnownFields ==
  ASSUME MeterTypeOK
  PROVE Known \subseteq Account /\ sold \in Account /\ row \in Account /\ coming \subseteq Account
  BY MeterTyped DEF Known

(* Either the last state is on its way, or it is the one shown and nothing is. *)
LEMMA LastKnown ==
  ASSUME MeterTypeOK, Ordered PROVE sold \in coming \/ (sold = row /\ coming = {})
<1>1. sold = row => coming = {}
  <2>1. \A a \in coming : row.n < a.n /\ a.n <= sold.n BY DEF Ordered, Known
  <2>2. row.n \in Nat /\ \A a \in coming : a.n \in Nat BY KnownFields, AccountFields
  <2> QED BY <2>1, <2>2
<1> QED BY <1>1 DEF Ordered, Known

LEMMA OrderedInit == Init => Ordered
<1> SUFFICES ASSUME Init PROVE Ordered OBVIOUS
<1>1. sold = row /\ coming = {} /\ Known = {sold} BY DEF Init, Known
<1>2. sold.n = 0 /\ sold.period = 1 /\ now = 0 BY DEF Init
<1>3. sold.live => Within(sold)
  <2>1. Start(1) = 0 /\ End(1) = PeriodSlots BY MoreSizes DEF Start, End
  <2>2. Start(sold.period) <= now /\ now < End(sold.period) BY <1>2, <2>1, MoreSizes
  <2> QED BY <2>2 DEF Within
<1> QED BY <1>1, <1>2, <1>3 DEF Ordered

(* What Stripe does to a subscription takes neither its period back nor its end. *)
LEMMA EmitsOrdered ==
  ASSUME MeterTypeOK, Ordered, NEW a \in Account, Emits(a), row' = row,
         a.period >= sold.period, a.live => sold.live,
         a.live => Start(a.period) <= now' /\ now' < End(a.period)
  PROVE Ordered'
<1> DEFINE new == Newer(a, sold)
<1>1. new.n = sold.n + 1 /\ new.period = a.period /\ new.live = a.live BY DEF Newer, Account
<1>2. sold' = new /\ coming' = coming \cup {new} /\ Known' = Known \cup {new} BY DEF Emits, Known
<1>3. sold \in Account /\ Known \subseteq Account BY KnownFields
<1>4. sold.n \in Nat /\ sold.period \in Nat /\ a.period \in Nat /\ \A x \in Known : x.n \in Nat /\ x.period \in Nat
  BY <1>3, AccountFields
<1>5. \A x \in Known : x.n < new.n /\ x.period <= new.period /\ (new.live => x.live)
  BY <1>1, <1>4 DEF Ordered
<1> HIDE DEF new
<1>6. sold'.live => Within(sold)'
  <2>1. new.live => Start(new.period) <= now' /\ now' < End(new.period) BY <1>1
  <2>2. sold'.live => sold'.live /\ Start(sold'.period) <= now' /\ now' < End(sold'.period) BY <1>2, <2>1
  <2> QED BY <2>2 DEF Within, Start, End
<1>7. \A x \in Known' : x.n <= sold'.n BY <1>1, <1>2, <1>4, <1>5
<1>8. \A x \in coming' : row'.n < x.n BY <1>2, <1>5 DEF Ordered, Known
<1>9. new.n \in Nat /\ new.period \in Nat BY <1>1, <1>4
<1>10. ASSUME NEW x \in Known', NEW y \in Known', x.n <= y.n PROVE x.period <= y.period /\ (y.live => x.live)
  <2>1. CASE x \in Known /\ y \in Known BY <1>10, <2>1 DEF Ordered
  <2>2. CASE y = new BY <1>2, <1>5, <1>9, <2>2
  <2>3. CASE y # new /\ x = new BY <1>2, <1>4, <1>5, <1>9, <1>10, <2>3
  <2> QED BY <1>2, <2>1, <2>2, <2>3
<1>11. ASSUME NEW x \in Known', NEW y \in Known', x.n = y.n PROVE x = y
  <2>1. CASE x \in Known /\ y \in Known BY <1>11, <2>1 DEF Ordered
  <2>2. CASE ~(x \in Known /\ y \in Known) BY <1>2, <1>4, <1>5, <1>9, <1>11, <2>2
  <2> QED BY <2>1, <2>2
<1>12. sold' \in Known' BY <1>2
<1> QED BY <1>6, <1>7, <1>8, <1>10, <1>11, <1>12 DEF Ordered

LEMMA TickOrdered == ASSUME MeterInv, Ordered, Tick PROVE Ordered'
<1>0. MeterTypeOK /\ sold \in Account /\ now \in Nat /\ now' = now + 1 BY MeterTyped DEF MeterInv, Tick
<1>1. sold.period \in Nat /\ Start(sold.period) \in Int /\ End(sold.period) \in Int
  BY <1>0, AccountFields, Edges
<1>2. CASE sold.live /\ now' = End(sold.period)
  <2> DEFINE a == [sold EXCEPT !.period = sold.period + 1]
  <2>1. sold.period < Periods BY <1>0, <1>2, TypesGiveTyped, RenewalFits
  <2>2. a \in Account /\ a.period = sold.period + 1 /\ a.live = sold.live
    <3>1. sold.period + 1 \in 1..Periods BY <1>1, <2>1, Sizes
    <3> QED BY <1>0, <3>1 DEF Account
  <2>3. Emits(a) /\ row' = row BY <1>2 DEF Tick
  <2>4. Start(a.period) <= now' /\ now' < End(a.period)
    <3>1. Start(sold.period + 1) = End(sold.period) /\ End(sold.period) < End(sold.period + 1) BY <1>1, Edges
    <3>2. Start(a.period) = Start(sold.period + 1) /\ End(a.period) = End(sold.period + 1) BY <2>2
    <3> HIDE DEF a
    <3> QED BY <1>1, <1>2, <3>1, <3>2
  <2> HIDE DEF a
  <2> QED BY <1>0, <1>1, <2>2, <2>3, <2>4, EmitsOrdered
<1>3. CASE ~(sold.live /\ now' = End(sold.period))
  <2>1. UNCHANGED <<sold, coming, row>> BY <1>3 DEF Tick
  <2>2. sold.live => Start(sold.period) <= now' /\ now' < End(sold.period)
    BY <1>0, <1>1, <1>3 DEF Ordered, Within
  <2>3. sold'.live => Within(sold)' BY <2>1, <2>2 DEF Within, Start, End
  <2> QED BY <2>1, <2>3 DEF Ordered, Known
<1> QED BY <1>2, <1>3

LEMMA WebhookOrdered == ASSUME MeterTypeOK, Ordered, NEW a \in coming, Webhook(a) PROVE Ordered'
<1>1. row' = a /\ coming' = {b \in coming : b.n > a.n} /\ sold' = sold /\ now' = now BY DEF Webhook
<1>2. Known' = coming' \cup {a} /\ Known' \subseteq Known /\ a \in Known BY <1>1 DEF Known
<1>3. \A x \in Known : x.n \in Nat BY KnownFields, AccountFields
<1>4. sold' \in Known'
  <2>1. row.n < a.n /\ a.n <= sold.n /\ sold \in Known /\ row \in Known BY <1>2 DEF Ordered, Known
  <2>2. sold # row BY <1>2, <1>3, <2>1
  <2>3. sold \in coming BY <2>1, <2>2 DEF Known
  <2>4. CASE sold.n = a.n BY <1>1, <1>2, <2>1, <2>4 DEF Ordered
  <2>5. CASE sold.n > a.n BY <1>1, <1>2, <2>3, <2>5
  <2> QED BY <1>2, <1>3, <2>1, <2>4, <2>5
<1>5. \A b \in coming' : row'.n < b.n BY <1>1, <1>3 DEF Known
<1>6. sold'.live => Within(sold)' BY <1>1 DEF Ordered, Within, Start, End
<1> QED BY <1>1, <1>2, <1>4, <1>5, <1>6 DEF Ordered

LEMMA OrderedStep == ASSUME MeterInv, Ordered, [Next]_metering_vars PROVE Ordered'
<1>0. MeterTypeOK /\ sold \in Account BY MeterTyped DEF MeterInv
<1>1. CASE Tick BY <1>1, TickOrdered
<1>2. ASSUME NEW a \in coming, Webhook(a) PROVE Ordered' BY <1>0, <1>2, WebhookOrdered
<1>3. CASE Cancel
  <2> DEFINE a == [sold EXCEPT !.live = FALSE, !.plan = Free]
  <2>1. a \in Account /\ a.period = sold.period /\ ~a.live BY <1>0 DEF Account
  <2>2. Emits(a) /\ row' = row BY <1>3 DEF Cancel
  <2>3. sold.period \in Nat BY <1>0, AccountFields
  <2> HIDE DEF a
  <2> QED BY <1>0, <2>1, <2>2, <2>3, EmitsOrdered
<1>4. ASSUME NEW m \in Managers, UpdateTier(m) PROVE Ordered'
  <2>0. row' = row /\ now' = now BY <1>4 DEF UpdateTier, Columns
  <2>1. CASE UNCHANGED <<sold, coming>> BY <2>0, <2>1 DEF Ordered, Known, Within
  <2>2. CASE Emits([sold EXCEPT !.plan = change[m].to])
    <3> DEFINE a == [sold EXCEPT !.plan = change[m].to]
    <3>1. change[m].to \in Plans
      BY <1>4, <1>0 DEF UpdateTier, MeterTypeOK, Resting, Requested
    <3>2. a \in Account /\ a.period = sold.period /\ a.live = sold.live BY <1>0, <3>1 DEF Account
    <3>3. sold.period \in Nat BY <1>0, AccountFields
    <3>4. sold.live => Start(sold.period) <= now' /\ now' < End(sold.period) BY <2>0 DEF Ordered, Within
    <3>5. Emits(a) BY <2>2
    <3> HIDE DEF a
    <3>6. Start(a.period) = Start(sold.period) /\ End(a.period) = End(sold.period) BY <3>2
    <3> QED BY <1>0, <2>0, <3>2, <3>3, <3>4, <3>5, <3>6, EmitsOrdered
  <2> QED BY <1>4, <2>1, <2>2 DEF UpdateTier
<1>5. CASE UNCHANGED <<sold, coming, row, now>> BY <1>5 DEF Ordered, Known, Within
<1>6. ASSUME NEW c \in Consumers,
             (\E d \in Devices : Tally(c, d)) \/ StampPause(c) \/ ClaimWarning(c) \/ MailWarning(c) \/ DropTally(c)
      PROVE UNCHANGED <<sold, coming, row, now>>
  BY <1>6 DEF Tally, StampPause, ClaimWarning, MailWarning, DropTally, Columns, Stripe
<1>7. ASSUME NEW m \in Managers, (\E to \in Plans : ReadPlan(m, to)) \/ RaiseFloor(m)
      PROVE UNCHANGED <<sold, coming, row, now>>
  BY <1>7 DEF ReadPlan, RaiseFloor, Columns, Stripe
<1>8. ASSUME Reporter \/ UNCHANGED metering_vars PROVE UNCHANGED <<sold, coming, row, now>>
  BY <1>8 DEF Reporter, StartRun, LoadOrg, SumClaims, ClaimMessages, MarkPosted, Post, PostedAll, ClaimDevices,
         KillRun, Stripe, Columns, metering_vars
<1> QED BY <1>1, <1>2, <1>3, <1>4, <1>5, <1>6, <1>7, <1>8 DEF Next

----------------------------------------------------------------------------
(* The floor a run reads is no lower than the best tier its period had. *)

(* A change that asks Stripe has written the outgoing tier's allowance. *)
Raised ==
  \A m \in Managers : change[m].phase = "update" => usage[change[m].key].floor >= Included[change[m].from]

Shown == \A p \in 1..Periods : p > row.period => best[p] = 0

(* While no change overtakes another, what is on its way is one plan, and the plan it leaves *)
(* is in the floor already.                                                                   *)
Calm ==
  ~overtaken =>
    /\ \A a, b \in coming : a.live /\ b.live => a.plan = b.plan
    /\ \A a \in coming : a.live => a.plan = row.plan \/ Included[row.plan] <= usage[row.period].floor
    /\ row.live => best[row.period] <= Max({Included[row.plan], usage[row.period].floor})

Covers ==
  row.live => Beyond(usage[row.period].messages, Allowance(row.plan, best[row.period], Connected(row.period)))
                <= owed[row.period]

Floors == Raised /\ Shown /\ Calm /\ Covers

LEMMA RowsAt ==
  ASSUME MeterTypeOK
  PROVE /\ \A k \in 0..Periods : usage[k].messages \in Nat /\ usage[k].floor \in Nat
        /\ row.period \in 1..Periods /\ row.period \in 0..Periods /\ row.plan \in Plans \cup {Free}
        /\ \A q \in Plans \cup {Free} : Included[q] \in Nat
        /\ \A p \in 1..Periods : owed[p] \in Nat /\ best[p] \in Nat
<1>1. \A k \in 0..Periods : usage[k].messages \in Nat /\ usage[k].floor \in Nat BY MeterTyped, RowFields
<1>2. row.period \in 1..Periods /\ row.plan \in Plans \cup {Free} BY MeterTyped DEF Account
<1>3. row.period \in 0..Periods BY <1>2, Sizes
<1>4. \A p \in 1..Periods : owed[p] \in Nat /\ best[p] \in Nat BY DEF MeterTypeOK
<1> QED BY <1>1, <1>2, <1>3, <1>4, Sizes

LEMMA FloorsInit == Init => Floors
<1> SUFFICES ASSUME Init PROVE Floors OBVIOUS
<1>1. row.period = 1 /\ 1 \in 1..Periods /\ 1 \in 0..Periods /\ coming = {} /\ row.plan \in Plans \cup {Free}
  BY Sizes DEF Init
<1>2. usage[1].messages = 0 /\ usage[1].floor = 0 /\ owed[1] = 0 BY <1>1 DEF Init, Empty
<1>3. best = [p \in 1..Periods |-> IF row.live /\ p = 1 THEN Included[row.plan] ELSE 0] BY DEF Init
<1>4. Raised BY DEF Init, Raised, Resting
<1>5. Shown BY <1>1, <1>3 DEF Shown
<1>6. Included[row.plan] \in Nat BY <1>1, Sizes
<1>7. Calm
  <2>1. row.live => best[row.period] = Included[row.plan] BY <1>1, <1>3
  <2>2. usage[row.period].floor = 0 BY <1>1, <1>2
  <2>3. Max({Included[row.plan], 0}) >= Included[row.plan] BY <1>6, LargerIs
  <2>4. row.live => best[row.period] <= Max({Included[row.plan], usage[row.period].floor})
    BY <1>6, <2>1, <2>2, <2>3, LargerIs
  <2> QED BY <1>1, <2>4 DEF Calm
<1>8. Covers
  <2> DEFINE allowed == Allowance(row.plan, best[row.period], Connected(row.period))
  <2>1. allowed \in Nat
    <3>1. MeterTypeOK BY MeterStarts DEF MeterInv
    <3>2. best[row.period] \in Nat BY <3>1, RowsAt
    <3> DEFINE n == Connected(row.period)
    <3>3. n \in Nat BY ConnectedTyped
    <3> HIDE DEF n
    <3> QED BY <1>1, <3>2, <3>3, AllowanceTyped DEF n
  <2>2. usage[row.period].messages = 0 /\ owed[row.period] = 0 BY <1>1, <1>2
  <2> HIDE DEF allowed
  <2>3. Beyond(0, allowed) = 0 BY <2>1 DEF Beyond
  <2> QED BY <2>2, <2>3 DEF Covers, allowed
<1> QED BY <1>4, <1>5, <1>7, <1>8 DEF Floors

(* A row keeps the fields that are not rewritten, and so do the rows. *)
LEMMA FieldsKept ==
  ASSUME NEW u \in CountedRow, NEW n
  PROVE /\ [u EXCEPT !.messages = n].floor = u.floor /\ [u EXCEPT !.paused = n].floor = u.floor
        /\ [u EXCEPT !.warned = n].floor = u.floor /\ [u EXCEPT !.paused = n].messages = u.messages
        /\ [u EXCEPT !.warned = n].messages = u.messages /\ [u EXCEPT !.floor = n].messages = u.messages
        /\ [u EXCEPT !.floor = n].floor = n
  BY DEF CountedRow

LEMMA RowsKept ==
  ASSUME NEW key \in 0..Periods, NEW v, usage \in [0..Periods -> CountedRow], usage' = [usage EXCEPT ![key] = v]
  PROVE /\ v.floor = usage[key].floor => \A k \in 0..Periods : usage'[k].floor = usage[k].floor
        /\ v.messages = usage[key].messages => \A k \in 0..Periods : usage'[k].messages = usage[k].messages
        /\ usage'[key] = v
  OBVIOUS

LEMMA ConsumersKeep ==
  ASSUME MeterTypeOK, NEW c \in Consumers, StampPause(c) \/ ClaimWarning(c) \/ MailWarning(c) \/ DropTally(c)
  PROVE \A k \in 0..Periods : usage'[k].floor = usage[k].floor /\ usage'[k].messages = usage[k].messages
<1>0. usage \in [0..Periods -> CountedRow] BY MeterTyped
<1> DEFINE key == consumer[c].key
<1>1. key \in 0..Periods
  BY DEF StampPause, ClaimWarning, MailWarning, DropTally, MeterTypeOK, Resting, Counting
<1>2. \/ usage' = usage
      \/ usage' = [usage EXCEPT ![key] = [usage[key] EXCEPT !.paused = TRUE]]
      \/ usage' = [usage EXCEPT ![key] = [usage[key] EXCEPT !.warned = TRUE]]
  BY DEF StampPause, ClaimWarning, MailWarning, DropTally, Columns
<1> DEFINE v == [usage[key] EXCEPT !.paused = TRUE]
           w == [usage[key] EXCEPT !.warned = TRUE]
<1>3. /\ v.floor = usage[key].floor /\ v.messages = usage[key].messages
      /\ w.floor = usage[key].floor /\ w.messages = usage[key].messages
  BY <1>0, <1>1, FieldsKept
<1>4. usage' = usage \/ usage' = [usage EXCEPT ![key] = v] \/ usage' = [usage EXCEPT ![key] = w] BY <1>2
<1> HIDE DEF v, w, key
<1> QED BY <1>0, <1>1, <1>3, <1>4, RowsKept

(* No step lowers a floor, takes from what is owed, or forgets that a change was overtaken. *)
LEMMA FloorsGrow ==
  ASSUME MeterInv, [Next]_metering_vars
  PROVE \A k \in 0..Periods : usage'[k].floor >= usage[k].floor
<1>0. MeterTypeOK /\ usage \in [0..Periods -> CountedRow] BY MeterTyped DEF MeterInv
<1>1. \A k \in 0..Periods : usage[k].floor \in Nat BY <1>0, RowsAt
<1>2. CASE usage' = usage BY <1>1, <1>2
<1>3. ASSUME NEW c \in Consumers, NEW d \in Devices, Tally(c, d)
      PROVE \A k \in 0..Periods : usage'[k].floor = usage[k].floor
  <2>1. UsageKey \in 0..Periods BY <1>0, KeysTyped
  <2>2. PICK n : usage' = [usage EXCEPT ![UsageKey].messages = n] BY <1>3 DEF Tally
  <2> DEFINE v == [usage[UsageKey] EXCEPT !.messages = n]
  <2>3. v.floor = usage[UsageKey].floor BY <1>0, <2>1, FieldsKept
  <2>4. usage' = [usage EXCEPT ![UsageKey] = v] BY <2>2
  <2> HIDE DEF v
  <2> QED BY <1>0, <2>1, <2>3, <2>4, RowsKept
<1>5. ASSUME NEW c \in Consumers, StampPause(c) \/ ClaimWarning(c) \/ MailWarning(c) \/ DropTally(c)
      PROVE \A k \in 0..Periods : usage'[k].floor = usage[k].floor
  BY <1>0, <1>5, ConsumersKeep
<1>6. ASSUME NEW m \in Managers, RaiseFloor(m) PROVE \A k \in 0..Periods : usage'[k].floor >= usage[k].floor
  <2>1. change[m] \in Requested BY <1>0, <1>6 DEF RaiseFloor, MeterTypeOK, Resting
  <2> DEFINE key == change[m].key
             high == Floored(usage[key].floor, Included[change[m].from])
  <2>2. key \in 0..Periods /\ change[m].from \in Plans \cup {Free} BY <2>1 DEF Requested
  <2>3. high >= usage[key].floor BY <1>0, <2>2, RowsAt, LargerIs DEF Floored
  <2>4. usage' = usage \/ usage' = [usage EXCEPT ![key].floor = high] BY <1>6 DEF RaiseFloor
  <2> HIDE DEF key, high
  <2>5. CASE usage' = [usage EXCEPT ![key].floor = high]
    <3> DEFINE v == [usage[key] EXCEPT !.floor = high]
    <3>1. v.floor = high BY <1>0, <2>2, FieldsKept
    <3>2. usage' = [usage EXCEPT ![key] = v] BY <2>5
    <3> HIDE DEF v
    <3>3. \A k \in 0..Periods : usage'[k] = IF k = key THEN v ELSE usage[k] BY <1>0, <3>2
    <3> QED BY <1>1, <2>3, <3>1, <3>3
  <2> QED BY <2>4, <2>5, <1>2
<1>7. ASSUME NEW m \in Managers, (\E to \in Plans : ReadPlan(m, to)) \/ UpdateTier(m) PROVE usage' = usage
  BY <1>7 DEF ReadPlan, UpdateTier, Columns
<1>8. ASSUME Tick \/ Cancel \/ (\E a \in coming : Webhook(a)) \/ UNCHANGED metering_vars \/ Reporter
      PROVE usage' = usage
  BY <1>8 DEF Tick, Cancel, Webhook, metering_vars, Reporter, StartRun, LoadOrg, SumClaims, ClaimMessages,
     MarkPosted, Post, PostedAll, ClaimDevices, KillRun, Columns
<1>9. CASE \A k \in 0..Periods : usage'[k].floor = usage[k].floor BY <1>1, <1>9
<1> QED BY <1>2, <1>3, <1>5, <1>6, <1>7, <1>8, <1>9 DEF Next

(* Only a tally and the webhook recount; nothing else touches what a period owes. *)
LEMMA OthersCount ==
  ASSUME MeterInv, [Next]_metering_vars
  PROVE \/ \E c \in Consumers, d \in Devices : Tally(c, d)
        \/ \E a \in coming : Webhook(a)
        \/ /\ UNCHANGED <<row, active, best, owed>>
           /\ \A k \in 0..Periods : usage'[k].messages = usage[k].messages
<1>0. MeterTypeOK /\ usage \in [0..Periods -> CountedRow] BY MeterTyped DEF MeterInv
<1>1. ASSUME NEW c \in Consumers, StampPause(c) \/ ClaimWarning(c) \/ MailWarning(c) \/ DropTally(c)
      PROVE UNCHANGED <<row, active, best, owed>> /\ \A k \in 0..Periods : usage'[k].messages = usage[k].messages
  <2>1. \A k \in 0..Periods : usage'[k].messages = usage[k].messages BY <1>0, <1>1, ConsumersKeep
  <2> QED BY <1>1, <2>1 DEF StampPause, ClaimWarning, MailWarning, DropTally, Columns, History
<1>2. ASSUME NEW m \in Managers, RaiseFloor(m)
      PROVE UNCHANGED <<row, active, best, owed>> /\ \A k \in 0..Periods : usage'[k].messages = usage[k].messages
  <2> DEFINE key == change[m].key
             high == Floored(usage[key].floor, Included[change[m].from])
             v == [usage[key] EXCEPT !.floor = high]
  <2>1. key \in 0..Periods BY <1>0, <1>2 DEF RaiseFloor, MeterTypeOK, Resting, Requested
  <2>2. usage' = usage \/ usage' = [usage EXCEPT ![key] = v] BY <1>2 DEF RaiseFloor
  <2> HIDE DEF high
  <2>3. v.messages = usage[key].messages BY <1>0, <2>1, FieldsKept
  <2> HIDE DEF v, key
  <2>4. \A k \in 0..Periods : usage'[k].messages = usage[k].messages BY <1>0, <2>1, <2>2, <2>3, RowsKept
  <2> QED BY <1>2, <2>4 DEF RaiseFloor, History
<1>3. ASSUME NEW m \in Managers, (\E to \in Plans : ReadPlan(m, to)) \/ UpdateTier(m)
      PROVE UNCHANGED <<row, active, best, owed, usage>>
  BY <1>3 DEF ReadPlan, UpdateTier, Columns, History
<1>4. ASSUME Tick \/ Cancel \/ UNCHANGED metering_vars PROVE UNCHANGED <<row, active, best, owed, usage>>
  BY <1>4 DEF Tick, Cancel, metering_vars, History
<1>5. ASSUME Reporter PROVE UNCHANGED <<row, active, best, owed, usage>>
  BY <1>5 DEF Reporter, StartRun, LoadOrg, SumClaims, ClaimMessages, MarkPosted, Post, PostedAll,
     ClaimDevices, KillRun, Columns, History
<1> QED BY <1>1, <1>2, <1>3, <1>4, <1>5 DEF Next

LEMMA Overtakes ==
  ASSUME MeterInv, [Next]_metering_vars
  PROVE (overtaken => overtaken') /\ ((\A m \in Managers : ~UpdateTier(m)) => overtaken' = overtaken)
<1>1. ASSUME NEW m \in Managers, UpdateTier(m) PROVE overtaken => overtaken' BY <1>1 DEF UpdateTier
<1>2. ASSUME NEW m \in Managers, (\E to \in Plans : ReadPlan(m, to)) \/ RaiseFloor(m) PROVE overtaken' = overtaken
  BY <1>2 DEF ReadPlan, RaiseFloor, History
<1>3. ASSUME NEW c \in Consumers,
             (\E d \in Devices : Tally(c, d)) \/ StampPause(c) \/ ClaimWarning(c) \/ MailWarning(c) \/ DropTally(c)
      PROVE overtaken' = overtaken
  BY <1>3 DEF Tally, Recount, StampPause, ClaimWarning, MailWarning, DropTally, History
<1>4. ASSUME Tick \/ Cancel \/ (\E a \in coming : Webhook(a)) \/ UNCHANGED metering_vars PROVE overtaken' = overtaken
  BY <1>4 DEF Tick, Cancel, Webhook, Recount, metering_vars, History
<1>5. ASSUME Reporter PROVE overtaken' = overtaken
  BY <1>5 DEF Reporter, StartRun, LoadOrg, SumClaims, ClaimMessages, MarkPosted, Post, PostedAll,
     ClaimDevices, KillRun, History
<1> QED BY <1>1, <1>2, <1>3, <1>4, <1>5 DEF Next

LEMMA RaisedStep == ASSUME MeterInv, Raised, [Next]_metering_vars PROVE Raised'
<1>0. MeterTypeOK BY DEF MeterInv
<1>1. \A k \in 0..Periods : usage'[k].floor >= usage[k].floor /\ usage'[k].floor \in Nat /\ usage[k].floor \in Nat
  <2>1. MeterTypeOK' BY MeterStep DEF MeterInv
  <2>2. \A k \in 0..Periods : usage'[k].floor \in Nat
    <3>1. usage' \in [0..Periods -> CountedRow] BY <2>1 DEF MeterTypeOK, CountedRow
    <3> QED BY <3>1, RowFields
  <2> QED BY <1>0, <2>2, FloorsGrow, RowsAt
<1>2. \A m \in Managers : change[m] = Resting \/ (change[m] \in Requested /\ change[m].key \in 0..Periods
                                                   /\ change[m].from \in Plans \cup {Free})
  BY <1>0 DEF MeterTypeOK, Requested
<1>3. ASSUME NEW m \in Managers, change'[m] = change[m], change[m].phase = "update"
      PROVE usage'[change'[m].key].floor >= Included[change'[m].from]
  <2>1. change[m].key \in 0..Periods /\ change[m].from \in Plans \cup {Free} BY <1>2, <1>3 DEF Resting
  <2>2. usage[change[m].key].floor >= Included[change[m].from] BY <1>3 DEF Raised
  <2> QED BY <1>1, <1>3, <2>1, <2>2, Sizes
<1>4. CASE change' = change BY <1>3, <1>4 DEF Raised
<1>5. ASSUME NEW m \in Managers, NEW to \in Plans, ReadPlan(m, to) PROVE Raised'
  <2>1. \A n \in Managers : change'[n] = change[n] \/ change'[n].phase = "floor"
    BY <1>0, <1>5 DEF ReadPlan, MeterTypeOK
  <2> QED BY <1>3, <2>1 DEF Raised
<1>6. ASSUME NEW m \in Managers, UpdateTier(m) PROVE Raised'
  <2>1. \A n \in Managers : change'[n] = change[n] \/ change'[n].phase = "idle"
    BY <1>0, <1>6 DEF UpdateTier, MeterTypeOK, Resting
  <2> QED BY <1>3, <2>1 DEF Raised
<1>7. ASSUME NEW m \in Managers, RaiseFloor(m) PROVE Raised'
  <2>1. change[m] \in Requested /\ change[m].key \in 0..Periods /\ change[m].from \in Plans \cup {Free}
    BY <1>2, <1>7 DEF RaiseFloor, Resting
  <2> DEFINE key == change[m].key
             from == change[m].from
             high == Floored(usage[key].floor, Included[from])
  <2>2. \A n \in Managers : n # m => change'[n] = change[n]
    <3>1. change \in [Managers -> {Resting} \cup Requested] BY <1>0 DEF MeterTypeOK
    <3>2. \E v : change' = [change EXCEPT ![m] = v] BY <1>7 DEF RaiseFloor
    <3> QED BY <3>1, <3>2
  <2>3. CASE change' = [change EXCEPT ![m] = Resting]
    <3>1. change'[m].phase # "update" BY <1>0, <2>3 DEF MeterTypeOK, Resting
    <3> QED BY <1>3, <2>2, <3>1 DEF Raised
  <2>4. CASE change' = [change EXCEPT ![m].phase = "update"] /\ usage' = [usage EXCEPT ![key].floor = high]
    <3>1. change'[m].key = key /\ change'[m].from = from BY <1>0, <2>1, <2>4 DEF MeterTypeOK, Requested
    <3>2. usage'[key].floor = high
      <4> DEFINE v == [usage[key] EXCEPT !.floor = high]
      <4>1. usage \in [0..Periods -> CountedRow] BY <1>0, MeterTyped
      <4>2. v.floor = high BY <2>1, <4>1, FieldsKept
      <4>3. usage' = [usage EXCEPT ![key] = v] BY <2>4
      <4> HIDE DEF v
      <4> QED BY <2>1, <4>1, <4>2, <4>3
    <3>3. high >= Included[from] BY <1>0, <2>1, RowsAt, LargerIs DEF Floored
    <3>4. usage'[change'[m].key].floor >= Included[change'[m].from] BY <3>1, <3>2, <3>3
    <3> QED BY <1>3, <2>2, <3>4 DEF Raised
  <2> QED BY <1>7, <2>3, <2>4 DEF RaiseFloor
<1>8. ASSUME NEW c \in Consumers,
             (\E d \in Devices : Tally(c, d)) \/ StampPause(c) \/ ClaimWarning(c) \/ MailWarning(c) \/ DropTally(c)
      PROVE change' = change
  BY <1>8 DEF Tally, StampPause, ClaimWarning, MailWarning, DropTally
<1>9. ASSUME Tick \/ Cancel \/ (\E a \in coming : Webhook(a)) \/ UNCHANGED metering_vars \/ Reporter
      PROVE change' = change
  BY <1>9 DEF Tick, Cancel, Webhook, metering_vars, Reporter, StartRun, LoadOrg, SumClaims, ClaimMessages,
     MarkPosted, Post, PostedAll, ClaimDevices, KillRun
<1> QED BY <1>4, <1>5, <1>6, <1>7, <1>8, <1>9 DEF Next


(* What a recount makes of the present period. *)
LEMMA RecountIs ==
  ASSUME MeterTypeOK, MeterTypeOK', NEW P, NEW D, Recount(P, D)
  PROVE /\ \A p \in 1..Periods : ~(row'.live /\ row'.period = p) => best'[p] = best[p]
        /\ row'.live => best'[row'.period] = Max({best[row'.period], Included[row'.plan]})
        /\ \A p \in 1..Periods : owed'[p] >= owed[p]
        /\ Covers'
<1>1. \A p \in 1..Periods :
        /\ best'[p] = IF row'.live /\ row'.period = p THEN Max({best[p], Included[row'.plan]}) ELSE best[p]
        /\ owed'[p] = IF row'.live /\ row'.period = p
             THEN Max({owed[p], Beyond(usage'[p].messages, Allowance(row'.plan, best'[p], Connected(p)'))})
             ELSE owed[p]
  BY DEF Recount
<1>2. row' \in Account /\ usage' \in [0..Periods -> CountedRow] /\ best' \in [1..Periods -> Nat]
  BY DEF MeterTypeOK, CountedRow
<1>3. row'.period \in 1..Periods /\ row'.plan \in Plans \cup {Free} BY <1>2 DEF Account
<1>4. \A p \in 1..Periods : owed[p] \in Nat BY RowsAt
<1>5. ASSUME NEW p \in 1..Periods
      PROVE Beyond(usage'[p].messages, Allowance(row'.plan, best'[p], Connected(p)')) \in Nat
  <2> DEFINE n == Connected(p)'
             b == best'[p]
             q == row'.plan
             u == usage'[p].messages
  <2>1. n \in Nat
    <3>1. IsFiniteSet({d \in Devices : Start(p) <= active'[d] /\ active'[d] < End(p)})
      BY MoreSizes, FS_Subset
    <3> QED BY <3>1, FS_CardinalityType DEF Connected, Start, End
  <2>2. b \in Nat /\ q \in Plans \cup {Free} BY <1>2, <1>3
  <2>3. u \in Nat
    <3>1. usage'[p] \in CountedRow BY <1>2, Sizes
    <3> QED BY <3>1, RowFields
  <2> HIDE DEF n, b, q, u
  <2>4. Beyond(u, Allowance(q, b, n)) \in Nat BY <2>1, <2>2, <2>3, AllowanceTyped, BeyondTyped
  <2> QED BY <2>4 DEF n, b, q, u
<1>6. ASSUME NEW p \in 1..Periods, row'.live, row'.period = p
      PROVE /\ owed'[p] >= owed[p]
            /\ Beyond(usage'[p].messages, Allowance(row'.plan, best'[p], Connected(p)')) <= owed'[p]
  <2> DEFINE new == Beyond(usage'[p].messages, Allowance(row'.plan, best'[p], Connected(p)'))
  <2>1. new \in Nat /\ owed[p] \in Nat BY <1>4, <1>5
  <2>2. owed'[p] = Max({owed[p], new}) BY <1>1, <1>6
  <2> HIDE DEF new
  <2>3. owed'[p] >= owed[p] /\ new <= owed'[p] BY <2>1, <2>2, LargerIs
  <2> QED BY <2>3 DEF new
<1>7. ASSUME NEW p \in 1..Periods PROVE owed'[p] >= owed[p]
  <2>1. CASE row'.live /\ row'.period = p BY <1>6, <2>1
  <2>2. CASE ~(row'.live /\ row'.period = p)
    <3>1. owed'[p] = owed[p] BY <1>1, <2>2
    <3> QED BY <1>4, <3>1
  <2> QED BY <2>1, <2>2
<1>8. \A p \in 1..Periods : ~(row'.live /\ row'.period = p) => best'[p] = best[p] BY <1>1
<1>9. row'.live => best'[row'.period] = Max({best[row'.period], Included[row'.plan]}) BY <1>1, <1>3
<1>10. Covers'
  <2>1. ASSUME NEW p \in 1..Periods, p = row'.period, row'.live PROVE Covers'
    <3> DEFINE A(q) == {d \in Devices : Start(q) <= active'[d] /\ active'[d] < End(q)}
    <3>1. Connected(p)' = Cardinality(A(p)) BY DEF Connected, Start, End
    <3>2. Connected(row.period)' = Cardinality(A(row'.period)) BY DEF Connected, Start, End
    <3> HIDE DEF A
    <3>3. Connected(row.period)' = Connected(p)' BY <2>1, <3>1, <3>2
    <3> DEFINE n == Connected(p)'
               m == Connected(row.period)'
    <3>4. Beyond(usage'[p].messages, Allowance(row'.plan, best'[p], n)) <= owed'[p] BY <1>6, <2>1
    <3>5. m = n BY <3>3
    <3> HIDE DEF n, m
    <3>6. Beyond(usage'[row'.period].messages, Allowance(row'.plan, best'[row'.period], m)) <= owed'[row'.period]
      BY <2>1, <3>4, <3>5
    <3> QED BY <3>6 DEF Covers, m
  <2>2. ~row'.live => Covers' BY DEF Covers
  <2> QED BY <1>3, <2>1, <2>2
<1> QED BY <1>7, <1>8, <1>9, <1>10

LEMMA OwedGrows ==
  ASSUME MeterInv, [Next]_metering_vars PROVE \A p \in 1..Periods : owed'[p] >= owed[p]
<1>0. MeterTypeOK /\ MeterTypeOK' BY MeterStep DEF MeterInv
<1>1. CASE owed' = owed BY <1>0, <1>1, RowsAt
<1>2. ASSUME NEW c \in Consumers, NEW d \in Devices, Tally(c, d) PROVE \A p \in 1..Periods : owed'[p] >= owed[p]
  <2>1. Recount({UsageKey}, {d}) BY <1>2 DEF Tally
  <2> QED BY <1>0, <2>1, RecountIs
<1>3. ASSUME NEW a \in coming, Webhook(a) PROVE \A p \in 1..Periods : owed'[p] >= owed[p]
  <2>1. Recount({}, {}) BY <1>3 DEF Webhook
  <2> QED BY <1>0, <2>1, RecountIs
<1> QED BY <1>1, <1>2, <1>3, OthersCount

LEMMA CoversStep == ASSUME MeterInv, Covers, [Next]_metering_vars PROVE Covers'
<1>0. MeterTypeOK /\ MeterTypeOK' BY MeterStep DEF MeterInv
<1>1. ASSUME NEW P, NEW D, Recount(P, D) PROVE Covers' BY <1>0, <1>1, RecountIs
<1>2. ASSUME NEW c \in Consumers, NEW d \in Devices, Tally(c, d) PROVE Covers' BY <1>1, <1>2 DEF Tally
<1>3. ASSUME NEW a \in coming, Webhook(a) PROVE Covers' BY <1>1, <1>3 DEF Webhook
<1>4. CASE UNCHANGED <<row, active, best, owed>> /\ \A k \in 0..Periods : usage'[k].messages = usage[k].messages
  <2>1. usage'[row.period].messages = usage[row.period].messages BY <1>0, <1>4, RowsAt
  <2>2. Connected(row.period)' = Connected(row.period) BY <1>4 DEF Connected, Start, End
  <2> QED BY <1>4, <2>1, <2>2 DEF Covers
<1> QED BY <1>2, <1>3, <1>4, OthersCount

LEMMA ShownStep == ASSUME MeterInv, Ordered, Shown, [Next]_metering_vars PROVE Shown'
<1>0. MeterTypeOK /\ MeterTypeOK' BY MeterStep DEF MeterInv
<1>1. ASSUME NEW P, NEW D, Recount(P, D), row'.period >= row.period PROVE Shown'
  <2>1. \A p \in 1..Periods : ~(row'.live /\ row'.period = p) => best'[p] = best[p] BY <1>0, <1>1, RecountIs
  <2>2. row.period \in Nat /\ row'.period \in Nat
    <3>1. row' \in Account BY <1>0 DEF MeterTypeOK
    <3>2. row'.period \in Nat BY <3>1, AccountFields
    <3>3. row.period \in Nat BY <1>0, MeterTyped, AccountFields
    <3> QED BY <3>2, <3>3
  <2> QED BY <1>1, <2>1, <2>2 DEF Shown
<1>2. ASSUME NEW c \in Consumers, NEW d \in Devices, Tally(c, d) PROVE Shown'
  <2>1. Recount({UsageKey}, {d}) /\ row' = row BY <1>2 DEF Tally
  <2>2. row'.period >= row.period BY <1>0, <2>1, RowsAt
  <2> QED BY <1>1, <2>1, <2>2
<1>3. ASSUME NEW a \in coming, Webhook(a) PROVE Shown'
  <2>1. Recount({}, {}) /\ row' = a BY <1>3 DEF Webhook
  <2>2. row.n < a.n /\ a \in Known /\ row \in Known BY DEF Ordered, Known
  <2>3. row.n \in Nat /\ a.n \in Nat /\ row.period \in Nat /\ a.period \in Nat
    BY <1>0, <2>2, KnownFields, AccountFields
  <2>4. row.period <= a.period BY <2>2, <2>3 DEF Ordered
  <2> QED BY <1>1, <2>1, <2>3, <2>4
<1>4. CASE UNCHANGED <<row, best>> BY <1>4 DEF Shown
<1> QED BY <1>2, <1>3, <1>4, OthersCount

(* While what is on its way stays, or only an ended state joins it, floors may rise. *)
LEMMA CalmKept ==
  ASSUME MeterTypeOK, MeterTypeOK', Calm, overtaken' = overtaken, row' = row,
         row.live => best'[row.period] = best[row.period] \/ best'[row.period] <= Max({best[row.period], Included[row.plan]}),
         \A k \in 0..Periods : usage'[k].floor >= usage[k].floor,
         \A a \in coming' : a.live => a \in coming \/ \E b \in coming \cup {row} : b.live /\ b.plan = a.plan
                                                       /\ \A c \in coming : c.live => c.plan = a.plan
  PROVE Calm'
<1> SUFFICES ASSUME ~overtaken PROVE Calm' BY DEF Calm
<1>1. row.period \in 0..Periods /\ row.period \in 1..Periods /\ row.plan \in Plans \cup {Free} BY RowsAt
<1>2. /\ usage[row.period].floor \in Nat /\ usage'[row.period].floor \in Nat
      /\ usage'[row.period].floor >= usage[row.period].floor
      /\ Included[row.plan] \in Nat /\ best[row.period] \in Nat /\ best'[row.period] \in Nat
  <2>1. usage' \in [0..Periods -> CountedRow] /\ best' \in [1..Periods -> Nat] BY DEF MeterTypeOK, CountedRow
  <2> QED BY <1>1, <2>1, RowsAt, RowFields
<1>3. \A a, b \in coming' : a.live /\ b.live => a.plan = b.plan
  <2> SUFFICES ASSUME NEW a \in coming', NEW b \in coming', a.live, b.live PROVE a.plan = b.plan OBVIOUS
  <2>1. CASE a \in coming /\ b \in coming BY <2>1 DEF Calm
  <2>2. CASE a \in coming /\ b \notin coming BY <2>2
  <2>3. CASE a \notin coming /\ b \in coming BY <2>3
  <2>4. CASE a \notin coming /\ b \notin coming
    <3>1. PICK x \in coming \cup {row} : x.live /\ x.plan = a.plan /\ \A c \in coming : c.live => c.plan = a.plan
      BY <2>4
    <3>2. PICK y \in coming \cup {row} : y.live /\ y.plan = b.plan /\ \A c \in coming : c.live => c.plan = b.plan
      BY <2>4
    <3> QED BY <3>1, <3>2
  <2> QED BY <2>1, <2>2, <2>3, <2>4
<1>4. \A a \in coming' : a.live => a.plan = row.plan \/ Included[row.plan] <= usage'[row.period].floor
  <2> SUFFICES ASSUME NEW a \in coming', a.live, a.plan # row.plan
               PROVE Included[row.plan] <= usage'[row.period].floor
    OBVIOUS
  <2>1. \E b \in coming : b.live /\ b.plan = a.plan OBVIOUS
  <2>2. Included[row.plan] <= usage[row.period].floor BY <2>1 DEF Calm
  <2> QED BY <1>2, <2>2
<1>5. row.live => best'[row.period] <= Max({Included[row.plan], usage'[row.period].floor})
  <2> DEFINE i == Included[row.plan]
             f == usage[row.period].floor
             g == usage'[row.period].floor
             b == best[row.period]
             c == best'[row.period]
  <2>1. row.live => b <= Max({i, f}) BY DEF Calm
  <2>2. row.live => c = b \/ c <= Max({b, i}) OBVIOUS
  <2>3. i \in Nat /\ f \in Nat /\ g \in Nat /\ b \in Nat /\ c \in Nat /\ g >= f BY <1>2
  <2> HIDE DEF i, f, g, b, c
  <2>4. Max({i, f}) \in {i, f} /\ Max({b, i}) \in {b, i} /\ Max({i, g}) >= i /\ Max({i, g}) >= g /\ Max({i, g}) \in Nat
    BY <2>3, LargerIs
  <2>5. row.live => c <= Max({i, g}) BY <2>1, <2>2, <2>3, <2>4
  <2> QED BY <2>5 DEF i, g, c
<1> QED BY <1>3, <1>4, <1>5 DEF Calm


(* The webhook brings the next state, or a later one of the same plan. *)
LEMMA WebhookCalm ==
  ASSUME MeterInv, MeterTypeOK', Ordered, Shown, Calm, NEW a \in coming, Webhook(a), ~overtaken PROVE Calm'
<1>0. MeterTypeOK /\ row' = a /\ coming' = {b \in coming : b.n > a.n} /\ usage' = usage /\ Recount({}, {})
  BY DEF MeterInv, Webhook
<1>1. a \in Known /\ row \in Known /\ a \in Account /\ Known \subseteq Account BY <1>0, KnownFields DEF Known
<1>2. row.n < a.n /\ row.n \in Nat /\ a.n \in Nat /\ row.period \in Nat /\ a.period \in Nat
  BY <1>1, AccountFields DEF Ordered
<1>3. row.period <= a.period /\ (a.live => row.live) BY <1>1, <1>2 DEF Ordered
<1>4. \A b, c \in coming' : b.live /\ c.live => b.plan = c.plan BY <1>0 DEF Calm
<1>5. \A b \in coming' : b.live => a.live /\ b.plan = a.plan
  <2> SUFFICES ASSUME NEW b \in coming', b.live PROVE a.live /\ b.plan = a.plan OBVIOUS
  <2>1. b \in coming /\ b \in Known /\ a.n < b.n BY <1>0 DEF Known
  <2>2. b.n \in Nat BY <1>1, <2>1, AccountFields
  <2>3. a.live BY <1>1, <1>2, <2>1, <2>2 DEF Ordered
  <2> QED BY <2>1, <2>3 DEF Calm
<1>6. a.live => best'[a.period] <= Max({Included[a.plan], usage[a.period].floor})
  <2> SUFFICES ASSUME a.live PROVE best'[a.period] <= Max({Included[a.plan], usage[a.period].floor}) OBVIOUS
  <2>1. a.period \in 1..Periods /\ a.period \in 0..Periods /\ a.plan \in Plans \cup {Free} /\ row.plan \in Plans \cup {Free}
    BY <1>0, <1>1, Sizes, RowsAt DEF Account
  <2> DEFINE i == Included[a.plan]
             j == Included[row.plan]
             f == usage[a.period].floor
             b == best[a.period]
  <2>2. i \in Nat /\ j \in Nat /\ f \in Nat /\ b \in Nat BY <1>0, <2>1, RowsAt
  <2>3. best'[row'.period] = Max({best[row'.period], Included[row'.plan]})
    BY <1>0, RecountIs
  <2>4. best'[a.period] = Max({b, i}) BY <1>0, <2>3
  <2>5. b <= i \/ b <= f
    <3>1. CASE a.period = row.period
      <4>1. b <= Max({j, f}) BY <1>3, <3>1 DEF Calm
      <4>2. i = j \/ j <= f
        <5>1. a.plan = row.plan \/ Included[row.plan] <= usage[row.period].floor BY DEF Calm
        <5> QED BY <3>1, <5>1
      <4> HIDE DEF i, j, f, b
      <4>3. Max({j, f}) \in {j, f} BY <2>2, LargerIs
      <4> QED BY <2>2, <4>1, <4>2, <4>3
    <3>2. CASE a.period # row.period
      <4>1. b = 0 BY <1>2, <1>3, <2>1, <3>2 DEF Shown
      <4> QED BY <2>2, <4>1
    <3> QED BY <3>1, <3>2
  <2> HIDE DEF i, j, f, b
  <2>6. Max({b, i}) \in {b, i} /\ Max({i, f}) >= i /\ Max({i, f}) >= f /\ Max({i, f}) \in Nat BY <2>2, LargerIs
  <2>7. Max({b, i}) <= Max({i, f}) BY <2>2, <2>5, <2>6
  <2> QED BY <2>4, <2>7 DEF i, f
<1> QED BY <1>0, <1>4, <1>5, <1>6 DEF Calm

(* A change that overtakes none finds its own floor in the period the columns show. *)
LEMMA UpdateCalm ==
  ASSUME MeterInv, MeterTypeOK', Ordered, Raised, Calm, NEW m \in Managers, UpdateTier(m), ~overtaken' PROVE Calm'
<1>0. MeterTypeOK /\ ~overtaken /\ UNCHANGED <<row, usage, best>>
  <2>1. ~overtaken BY Zenon DEF UpdateTier
  <2>2. UNCHANGED <<row, usage, best>> BY DEF UpdateTier, Columns
  <2> QED BY <2>1, <2>2 DEF MeterInv
<1>1. CASE UNCHANGED <<sold, coming, overtaken>> BY <1>0, <1>1 DEF Calm
<1>2. CASE sold.live /\ Emits([sold EXCEPT !.plan = change[m].to])
           /\ coming = {} /\ row.plan = change[m].from /\ UsageKey = change[m].key
  <2> DEFINE new == Newer([sold EXCEPT !.plan = change[m].to], sold)
  <2>1. coming' = {new} BY <1>2 DEF Emits
  <2>2. sold = row BY <1>0, <1>2, LastKnown
  <2>3. UsageKey = row.period
    <3>1. Within(row) BY <1>2, <2>2 DEF Ordered
    <3> QED BY <3>1 DEF UsageKey
  <2>4. usage[row.period].floor >= Included[row.plan] BY <1>2, <2>3 DEF UpdateTier, Raised
  <2>5. usage[row.period].floor \in Nat /\ Included[row.plan] \in Nat BY <1>0, RowsAt
  <2> HIDE DEF new
  <2> QED BY <1>0, <2>1, <2>4, <2>5 DEF Calm
<1> QED BY <1>1, <1>2 DEF UpdateTier

LEMMA CalmStep ==
  ASSUME MeterInv, Ordered, Raised, Shown, Calm, [Next]_metering_vars PROVE Calm'
<1>0. MeterTypeOK /\ MeterTypeOK' /\ \A k \in 0..Periods : usage'[k].floor >= usage[k].floor
  BY MeterStep, FloorsGrow DEF MeterInv
<1> SUFFICES ASSUME ~overtaken' PROVE Calm' BY DEF Calm
<1>00. ~overtaken BY Overtakes
<1>1. ASSUME NEW m \in Managers, UpdateTier(m) PROVE Calm' BY <1>0, <1>1, UpdateCalm
<1>2. ASSUME NEW a \in coming, Webhook(a) PROVE Calm' BY <1>0, <1>00, <1>2, WebhookCalm
<1>3. ASSUME UNCHANGED <<coming, row, best>>, overtaken' = overtaken PROVE Calm'
  BY <1>0, <1>3, CalmKept
<1>4. CASE Tick
  <2>0. UNCHANGED <<row, best, overtaken>> BY <1>4 DEF Tick, History
  <2>1. CASE UNCHANGED coming BY <1>3, <2>0, <2>1
  <2>2. CASE sold.live /\ Emits([sold EXCEPT !.period = sold.period + 1])
    <3> DEFINE new == Newer([sold EXCEPT !.period = sold.period + 1], sold)
    <3>1. new.plan = sold.plan BY <1>0, MeterTyped DEF Newer, Account
    <3>2. coming' = coming \cup {new} BY <2>2 DEF Emits
    <3> HIDE DEF new
    <3>3. sold \in coming \cup {row} BY DEF Ordered, Known
    <3>4. \A c \in coming : c.live => c.plan = sold.plan
      <4>1. sold \in coming \/ coming = {} BY <1>0, LastKnown
      <4> QED BY <1>00, <2>2, <4>1 DEF Calm
    <3>5. \A a \in coming' : a.live => a \in coming \/ \E b \in coming \cup {row} : b.live /\ b.plan = a.plan
                                                        /\ \A c \in coming : c.live => c.plan = a.plan
      BY <2>2, <3>1, <3>2, <3>3, <3>4
    <3> QED BY <1>0, <2>0, <3>5, CalmKept
  <2> QED BY <1>4, <2>1, <2>2 DEF Tick
<1>5. CASE Cancel
  <2> DEFINE new == Newer([sold EXCEPT !.live = FALSE, !.plan = Free], sold)
  <2>1. ~new.live BY <1>0, MeterTyped DEF Newer, Account
  <2>2. coming' = coming \cup {new} /\ UNCHANGED <<row, best, overtaken>> BY <1>5 DEF Cancel, Emits, History
  <2> HIDE DEF new
  <2>3. \A a \in coming' : a.live => a \in coming BY <2>1, <2>2
  <2> QED BY <1>0, <2>2, <2>3, CalmKept
<1>6. ASSUME NEW c \in Consumers, NEW d \in Devices, Tally(c, d) PROVE Calm'
  <2>1. Recount({UsageKey}, {d}) /\ row' = row /\ coming' = coming BY <1>6 DEF Tally
  <2>2. overtaken' = overtaken BY <2>1 DEF Recount
  <2>3. row'.live => best'[row'.period] = Max({best[row'.period], Included[row'.plan]}) BY <1>0, <2>1, RecountIs
  <2>4. row.live => best'[row.period] = Max({best[row.period], Included[row.plan]}) BY <2>1, <2>3
  <2>5. row.live => best'[row.period] <= Max({best[row.period], Included[row.plan]})
    <3>1. Max({best[row.period], Included[row.plan]}) \in Nat BY <1>0, RowsAt, LargerIs
    <3> QED BY <2>4, <3>1
  <2> QED BY <1>0, <2>1, <2>2, <2>5, CalmKept
<1>7. ASSUME NEW c \in Consumers, StampPause(c) \/ ClaimWarning(c) \/ MailWarning(c) \/ DropTally(c) PROVE Calm'
  <2>1. UNCHANGED <<coming, row, best, overtaken>>
    BY <1>7 DEF StampPause, ClaimWarning, MailWarning, DropTally, Columns, Stripe, History
  <2> QED BY <1>3, <2>1
<1>8. ASSUME NEW m \in Managers, (\E to \in Plans : ReadPlan(m, to)) \/ RaiseFloor(m) PROVE Calm'
  <2>1. UNCHANGED <<coming, row, best, overtaken>> BY <1>8 DEF ReadPlan, RaiseFloor, Columns, Stripe, History
  <2> QED BY <1>3, <2>1
<1>9. ASSUME Reporter \/ UNCHANGED metering_vars PROVE Calm'
  <2>1. UNCHANGED <<coming, row, best, overtaken>>
    BY <1>9 DEF Reporter, StartRun, LoadOrg, SumClaims, ClaimMessages, MarkPosted, Post, PostedAll, ClaimDevices,
       KillRun, Columns, Stripe, History, metering_vars
  <2> QED BY <1>3, <2>1
<1> QED BY <1>1, <1>2, <1>4, <1>5, <1>6, <1>7, <1>8, <1>9 DEF Next

LEMMA FloorsStep == ASSUME MeterInv, Ordered, Floors, [Next]_metering_vars PROVE Floors'
  BY RaisedStep, ShownStep, CalmStep, CoversStep DEF Floors

----------------------------------------------------------------------------
(* What is claimed, and what was posted of it. *)

(* What is claimed of a period, and what a run is about to claim of it, was owed for it. *)
WithinOwed ==
  ~overtaken =>
    /\ \A p \in 1..Periods : Billed(Of("messages", p)) <= owed[p]
    /\ run.phase = "sum" => run.figure <= owed[run.period]
    /\ run.phase = "claim" => run.figure + Billed(Of("messages", run.period)) <= owed[run.period]

OneADay == \A b, c \in claims : b.meter = c.meter /\ b.period = c.period /\ b.day = c.day => b = c

(* The claims that are marked and no longer waiting in the run's batch. *)
Done(p) == {c \in Of("messages", p) : c.posted /\ [c EXCEPT !.posted = FALSE] \notin Pending}
Took(p) == {r \in received : r.meter = "messages" /\ r.period = p}

Posts ==
  /\ run.phase \in {"sum", "claim", "mark", "devices"} => run.batch = {}
  /\ \A c \in Pending : ~c.posted /\ [c EXCEPT !.posted = TRUE] \in claims
  /\ \A p \in 1..Periods : Billed(Took(p)) <= Billed(Done(p))

Bills == WithinOwed /\ OneADay /\ Posts

LEMMA ClaimsPriced ==
  ASSUME NEW C, IsFiniteSet(C), C \subseteq Claim, NEW S, S \subseteq C PROVE Priced(S) /\ Billed(S) \in Nat
<1>1. IsFiniteSet(S) BY FS_Subset
<1>2. \A c \in S : c.quantity \in Nat BY DEF Claim
<1>3. Priced(S) BY <1>1, <1>2 DEF Priced
<1> QED BY <1>3, BilledTyped

LEMMA ReceiptsPriced ==
  ASSUME NEW C, IsFiniteSet(C), C \subseteq Receipt, NEW S, S \subseteq C PROVE Priced(S) /\ Billed(S) \in Nat
<1>1. IsFiniteSet(S) BY FS_Subset
<1>2. \A c \in S : c.quantity \in Nat BY DEF Receipt
<1>3. Priced(S) BY <1>1, <1>2 DEF Priced
<1> QED BY <1>3, BilledTyped

LEMMA SetsPriced ==
  ASSUME MeterInv, NEW p
  PROVE /\ Priced(Of("messages", p)) /\ Priced(Done(p)) /\ Priced(Took(p))
        /\ Billed(Of("messages", p)) \in Nat /\ Billed(Done(p)) \in Nat /\ Billed(Took(p)) \in Nat
<1>1. Of("messages", p) \subseteq claims /\ Done(p) \subseteq claims /\ Took(p) \subseteq received
  BY DEF Of, Done, Took
<1>2. /\ claims \subseteq Claim /\ IsFiniteSet(claims) /\ received \subseteq Receipt /\ IsFiniteSet(received)
  BY DEF MeterInv, MeterTypeOK
<1> QED BY <1>1, <1>2, ClaimsPriced, ReceiptsPriced

LEMMA BillsInit == Init => Bills
<1> SUFFICES ASSUME Init PROVE Bills OBVIOUS
<1>1. claims = {} /\ received = {} /\ run = Resting /\ owed = [p \in 1..Periods |-> 0] BY DEF Init
<1>2. run.phase = "idle" BY <1>1 DEF Resting
<1>3. Billed({}) = 0
  <2>1. Priced({}) BY FS_EmptySet DEF Priced
  <2> QED BY <2>1, BilledTyped
<1>4. \A p \in 1..Periods : Of("messages", p) = {} /\ Done(p) = {} /\ Took(p) = {} BY <1>1 DEF Of, Done, Took
<1>5. \A p \in 1..Periods : /\ Billed(Of("messages", p)) = 0 /\ Billed(Done(p)) = 0 /\ Billed(Took(p)) = 0
                            /\ owed[p] = 0
  BY <1>1, <1>3, <1>4
<1>6. WithinOwed BY <1>2, <1>5 DEF WithinOwed
<1>7. Pending = {} BY <1>2 DEF Pending
<1>8. Posts BY <1>2, <1>5, <1>7 DEF Posts
<1> QED BY <1>1, <1>6, <1>8 DEF Bills, OneADay


(* What is not the reporter's leaves the claims, the receipts and the run; what is owed grows. *)
LEMMA OthersBill ==
  ASSUME MeterInv, Bills, [Next]_metering_vars, UNCHANGED <<run, claims, received>> PROVE Bills'
<1>1. \A p \in 1..Periods : Of("messages", p)' = Of("messages", p) /\ Done(p)' = Done(p) /\ Took(p)' = Took(p)
  BY DEF Of, Done, Took, Pending
<1>2. \A p \in 1..Periods : /\ Billed(Of("messages", p)') = Billed(Of("messages", p))
                            /\ Billed(Of("messages", p)) \in Nat /\ owed[p] \in Nat /\ owed'[p] \in Nat
                            /\ owed'[p] >= owed[p]
  <2>1. MeterTypeOK' /\ MeterTypeOK BY MeterStep DEF MeterInv
  <2>2. \A p \in 1..Periods : owed[p] \in Nat /\ owed'[p] \in Nat BY <2>1 DEF MeterTypeOK
  <2> QED BY <1>1, <2>2, SetsPriced, OwedGrows
<1>3. (overtaken => overtaken') BY Overtakes
<1>4. run.phase \in {"sum", "claim"} => run.period \in 1..Periods /\ run.figure \in Nat
  BY RunTyped, RunFields DEF MeterInv
<1>5. \A p \in 1..Periods : Billed(Of("messages", p))' = Billed(Of("messages", p)) BY <1>1
<1>6. WithinOwed'
  <2> SUFFICES ASSUME ~overtaken'
               PROVE /\ \A p \in 1..Periods : Billed(Of("messages", p))' <= owed'[p]
                     /\ run.phase = "sum" => run.figure <= owed'[run.period]
                     /\ run.phase = "claim" => run.figure + Billed(Of("messages", run.period)) <= owed'[run.period]
    <3>1. Of("messages", run.period)' = Of("messages", run.period) BY DEF Of
    <3>2. Billed(Of("messages", run.period))' = Billed(Of("messages", run.period)) BY <3>1
    <3> QED BY <3>2 DEF WithinOwed
  <2>1. /\ \A p \in 1..Periods : Billed(Of("messages", p)) <= owed[p]
        /\ run.phase = "sum" => run.figure <= owed[run.period]
        /\ run.phase = "claim" => run.figure + Billed(Of("messages", run.period)) <= owed[run.period]
    BY <1>3 DEF Bills, WithinOwed
  <2>2. \A p \in 1..Periods : Billed(Of("messages", p))' <= owed'[p] BY <1>2, <1>5, <2>1
  <2>3. run.phase = "sum" => run.figure <= owed'[run.period] BY <1>2, <1>4, <2>1
  <2>4. run.phase = "claim" => run.figure + Billed(Of("messages", run.period)) <= owed'[run.period]
    BY <1>2, <1>4, <2>1
  <2> QED BY <2>2, <2>3, <2>4
<1>7. Posts'
  <2>1. \A p \in 1..Periods : Billed(Took(p))' = Billed(Took(p)) /\ Billed(Done(p))' = Billed(Done(p))
    BY <1>1
  <2> QED BY <2>1 DEF Bills, Posts, Pending
<1> QED BY <1>6, <1>7 DEF Bills, OneADay

(* Posts stand while claims only join, receipts stay and the batch only shrinks. *)
LEMMA PostsKept ==
  ASSUME MeterInv, MeterInv', Posts, claims \subseteq claims', received' = received,
         Pending' \subseteq Pending, run'.phase \in {"sum", "claim", "mark", "devices"} => run'.batch = {}
  PROVE Posts'
<1>1. ASSUME NEW p \in 1..Periods PROVE Billed(Took(p))' <= Billed(Done(p))'
  <2> DEFINE D == Done(p)'
             T == Took(p)'
  <2>1. Done(p) \subseteq D BY DEF Done, Of
  <2>2. T = Took(p) BY DEF Took
  <2>3. Priced(D) /\ Billed(D) \in Nat
    <3>1. D \subseteq claims' BY DEF Done, Of
    <3>2. claims' \subseteq Claim /\ IsFiniteSet(claims') BY DEF MeterInv, MeterTypeOK
    <3> HIDE DEF D
    <3> QED BY <3>1, <3>2, ClaimsPriced
  <2> HIDE DEF D
  <2>4. Billed(Done(p)) <= Billed(D) BY <2>1, <2>3, BilledPart
  <2>5. Billed(T) = Billed(Took(p)) BY <2>2
  <2> HIDE DEF T
  <2>6. Billed(Took(p)) <= Billed(Done(p)) BY DEF Posts
  <2>7. Billed(Took(p)) \in Nat /\ Billed(Done(p)) \in Nat BY SetsPriced
  <2>8. Billed(T) <= Billed(D) BY <2>3, <2>4, <2>5, <2>6, <2>7
  <2> QED BY <2>8 DEF T, D
<1>2. \A c \in Pending' : ~c.posted /\ [c EXCEPT !.posted = TRUE] \in claims' BY DEF Posts
<1> QED BY <1>1, <1>2 DEF Posts


(* A step of the run that claims nothing bills nothing, if what it is about to claim was owed. *)
LEMMA RunBills ==
  ASSUME MeterInv, MeterInv', Bills, UNCHANGED <<claims, received, owed, overtaken>>, Pending' \subseteq Pending,
         run'.phase \in {"sum", "claim", "mark", "devices"} => run'.batch = {},
         ~overtaken /\ run'.phase = "sum" => run'.figure <= owed[run'.period],
         ~overtaken /\ run'.phase = "claim" =>
           run'.figure + Billed(Of("messages", run'.period)) <= owed[run'.period]
  PROVE Bills'
<1>1. Posts' BY PostsKept DEF Bills
<1>2. OneADay' BY DEF Bills, OneADay
<1>3. \A p \in 1..Periods : Of("messages", p)' = Of("messages", p) BY DEF Of
<1>4. \A p \in 1..Periods : Billed(Of("messages", p))' = Billed(Of("messages", p)) BY <1>3
<1>5. Of("messages", run.period)' = Of("messages", run'.period) BY DEF Of
<1>6. Billed(Of("messages", run.period))' = Billed(Of("messages", run'.period)) BY <1>5
<1>7. WithinOwed' BY <1>4, <1>6 DEF Bills, WithinOwed
<1> QED BY <1>1, <1>2, <1>7 DEF Bills

(* The figure a run reads is no more than was owed: its allowance counts the floor, which is no *)
(* lower than the best tier of the period.                                                     *)
LEMMA LoadBills ==
  ASSUME MeterInv, MeterInv', Floors, Bills, LoadOrg PROVE Bills'
<1>1. UNCHANGED <<claims, received, owed, overtaken>> /\ run.phase = "load"
  BY DEF LoadOrg, Columns, Stripe, History
<1>2. CASE run' = Resting
  <2>1. Pending' = {} /\ run'.phase = "idle" BY <1>2 DEF Pending, Resting
  <2> QED BY <1>1, <2>1, RunBills
<1>3. CASE run' # Resting
  <2> DEFINE p == row.period
             n == Connected(p)
             m == usage[p].messages
             figure == Beyond(m, Allowance(row.plan, usage[p].floor, n))
  <2>1. /\ run' = [phase |-> "sum", meter |-> "messages", period |-> p, plan |-> row.plan,
                   devices |-> n, day |-> 0, batch |-> {}, figure |-> figure]
        /\ row.live
    BY <1>3 DEF LoadOrg, Within
  <2>2. run'.phase = "sum" /\ run'.period = p /\ run'.batch = {} /\ run'.figure = figure BY <2>1
  <2>3. Pending' = {} BY <2>2 DEF Pending
  <2>4. ~overtaken => figure <= owed[p]
    <3> SUFFICES ASSUME ~overtaken PROVE figure <= owed[p] OBVIOUS
    <3> DEFINE i == Included[row.plan]
               f == usage[p].floor
               b == best[p]
               o == owed[p]
               e == ExtraDevices(row.plan, n) * PoolPerDevice
    <3>1. b <= Max({i, f}) BY <2>1 DEF Floors, Calm
    <3>2. Beyond(m, Allowance(row.plan, b, n)) <= o BY <2>1 DEF Floors, Covers
    <3>3. i \in Nat /\ f \in Nat /\ b \in Nat /\ o \in Nat /\ m \in Nat BY RowsAt DEF MeterInv
    <3>4. e \in Nat
      <4>1. row.plan \in Plans \cup {Free} BY RowsAt DEF MeterInv
      <4>2. n \in Nat BY ConnectedTyped
      <4> HIDE DEF n
      <4> QED BY <3>3, <4>1, <4>2, AllowanceTyped
    <3>5. Allowance(row.plan, b, n) = Max({i, b}) + e /\ Allowance(row.plan, f, n) = Max({i, f}) + e
      BY DEF Allowance
    <3>6. figure = Beyond(m, Max({i, f}) + e) /\ Beyond(m, Max({i, b}) + e) <= o BY <3>2, <3>5
    <3> HIDE DEF i, f, b, o, e, m, figure
    <3>7. Max({i, b}) \in {i, b} /\ Max({i, f}) >= i /\ Max({i, f}) \in Nat BY <3>3, LargerIs
    <3> DEFINE x == Max({i, f}) + e
               y == Max({i, b}) + e
    <3>8. x \in Nat /\ y \in Nat /\ y <= x BY <3>1, <3>3, <3>4, <3>7
    <3>9. figure = Beyond(m, x) /\ Beyond(m, y) <= o BY <3>6
    <3> HIDE DEF x, y
    <3>10. Beyond(m, x) <= Beyond(m, y) /\ Beyond(m, x) \in Nat /\ Beyond(m, y) \in Nat BY <3>3, <3>8 DEF Beyond
    <3> QED BY <3>3, <3>9, <3>10 DEF o
  <2> HIDE DEF figure
  <2>5. ~overtaken => run'.figure <= owed[run'.period] BY <2>2, <2>4
  <2> QED BY <1>1, <2>2, <2>3, <2>5, RunBills
<1> QED BY <1>2, <1>3

LEMMA SumBills ==
  ASSUME MeterInv, MeterInv', Bills, SumClaims PROVE Bills'
<1>1. /\ UNCHANGED <<claims, received, owed, overtaken>> /\ run.phase = "sum" /\ run \in Reporting
      /\ run.batch = {}
  BY RunTyped DEF SumClaims, Columns, Stripe, History, MeterInv, Bills, Posts
<1> DEFINE delta == Delta(run.figure, Of("messages", run.period))
<1>2. \/ run' = [run EXCEPT !.phase = "claim", !.figure = delta, !.day = Day(now)]
      \/ run' = [run EXCEPT !.phase = "mark", !.figure = 0]
  BY DEF SumClaims
<1>3. delta + Billed(Of("messages", run.period)) = run.figure
  <2> DEFINE b == Billed(Of("messages", run.period))
  <2>1. b \in Nat /\ run.figure \in Nat BY <1>1, RunFields, SetsPriced
  <2>2. delta = run.figure - b BY DEF Delta
  <2> HIDE DEF b, delta
  <2> QED BY <2>1, <2>2 DEF b
<1> HIDE DEF delta
<1>4. CASE run' = [run EXCEPT !.phase = "claim", !.figure = delta, !.day = Day(now)]
  <2>1. run'.phase = "claim" /\ run'.figure = delta /\ run'.period = run.period /\ run'.batch = {}
    BY <1>1, <1>4 DEF Reporting
  <2>2. Pending' = {} BY <2>1 DEF Pending
  <2>3. ~overtaken => run.figure <= owed[run.period] BY <1>1 DEF Bills, WithinOwed
  <2>4. ~overtaken => run'.figure + Billed(Of("messages", run'.period)) <= owed[run'.period]
    <3>1. Billed(Of("messages", run'.period)) = Billed(Of("messages", run.period)) BY <2>1
    <3>2. run'.figure + Billed(Of("messages", run'.period)) = run.figure BY <1>3, <2>1, <3>1
    <3> QED BY <2>1, <2>3, <3>2
  <2> QED BY <1>1, <2>1, <2>2, <2>4, RunBills
<1>5. CASE run' = [run EXCEPT !.phase = "mark", !.figure = 0]
  <2>1. run'.phase = "mark" /\ run'.batch = {} BY <1>1, <1>5 DEF Reporting
  <2>2. Pending' = {} BY <2>1 DEF Pending
  <2> QED BY <1>1, <2>1, <2>2, RunBills
<1> QED BY <1>2, <1>4, <1>5

(* A claim that joins is the only one of its meter, period and day. *)
LEMMA ClaimJoins ==
  ASSUME MeterInv, MeterInv', Bills, NEW meter, NEW p, NEW day, NEW quantity \in Nat, NEW ident,
         claims' = Claimed(meter, p, day, quantity, ident), received' = received,
         Pending' = {}, run'.batch = {}
  PROVE /\ OneADay' /\ Posts'
        /\ \A q \in 1..Periods : (meter # "messages" \/ q # p) => Of("messages", q)' = Of("messages", q)
        /\ meter = "messages" => \/ Of("messages", p)' = Of("messages", p)
                                 \/ Billed(Of("messages", p))' = Billed(Of("messages", p)) + quantity
<1> DEFINE new == [meter |-> meter, period |-> p, day |-> day, quantity |-> quantity,
                   ident |-> ident, posted |-> FALSE]
<1>1. \/ claims' = claims
      \/ claims' = claims \cup {new} /\ \A c \in claims : ~(c.meter = meter /\ c.period = p /\ c.day = day)
  BY DEF Claimed, Of
<1>2. new.meter = meter /\ new.period = p /\ new.day = day /\ new.quantity = quantity OBVIOUS
<1> HIDE DEF new
<1>3. OneADay' BY <1>1, <1>2 DEF Bills, OneADay
<1>4. Posts'
  <2>1. claims \subseteq claims' BY <1>1
  <2> QED BY <2>1, PostsKept DEF Bills
<1>5. ASSUME NEW q \in 1..Periods, meter # "messages" \/ q # p PROVE Of("messages", q)' = Of("messages", q)
  BY <1>1, <1>2, <1>5 DEF Of
<1>6. ASSUME meter = "messages"
      PROVE \/ Of("messages", p)' = Of("messages", p)
            \/ Billed(Of("messages", p))' = Billed(Of("messages", p)) + quantity
  <2>1. CASE claims' = claims BY <2>1 DEF Of
  <2>2. CASE claims' = claims \cup {new} /\ \A c \in claims : ~(c.meter = meter /\ c.period = p /\ c.day = day)
    <3> DEFINE S == Of("messages", p)
    <3>1. Of("messages", p)' = S \cup {new} BY <1>2, <1>6, <2>2 DEF Of
    <3>2. new \notin S BY <1>2, <1>6, <2>2 DEF Of
    <3>3. Priced(S) BY SetsPriced
    <3> HIDE DEF S
    <3>4. Billed(S \cup {new}) = Billed(S) + new.quantity BY <1>2, <3>2, <3>3, BilledWith
    <3> QED BY <1>2, <3>1, <3>4 DEF S
  <2> QED BY <1>1, <2>1, <2>2
<1> QED BY <1>3, <1>4, <1>5, <1>6

LEMMA MessageBills ==
  ASSUME MeterInv, MeterInv', Bills, ClaimMessages PROVE Bills'
<1>0. /\ run.phase = "claim" /\ run \in Reporting /\ run.period \in 1..Periods /\ run.figure \in Nat
      /\ run.batch = {}
  <2>1. run.phase = "claim" /\ run \in Reporting BY RunTyped DEF ClaimMessages, MeterInv
  <2> QED BY <2>1, RunFields DEF Bills, Posts
<1>1. PICK p \in 1..Periods, figure \in Nat, day \in {Day(now)}, ident \in {run.day} :
        p = run.period /\ figure = run.figure /\ day = Day(now) /\ ident = run.day
  BY <1>0
<1>2. /\ claims' = Claimed("messages", p, day, figure, ident) /\ received' = received
      /\ owed' = owed /\ overtaken' = overtaken
      /\ run' = [run EXCEPT !.phase = "mark", !.figure = 0, !.day = 0]
  BY <1>1 DEF ClaimMessages, Stripe, History
<1>3. run'.phase = "mark" /\ run'.batch = {} BY <1>0, <1>2 DEF Reporting
<1>4. Pending' = {} BY <1>3 DEF Pending
<1>6. /\ OneADay' /\ Posts'
      /\ \A q \in 1..Periods : q # p => Of("messages", q)' = Of("messages", q)
      /\ \/ Of("messages", p)' = Of("messages", p)
         \/ Billed(Of("messages", p))' = Billed(Of("messages", p)) + figure
  BY <1>2, <1>3, <1>4, ClaimJoins
<1>7. ~overtaken => /\ \A q \in 1..Periods : Billed(Of("messages", q)) <= owed[q]
                    /\ figure + Billed(Of("messages", p)) <= owed[p]
  BY <1>0, <1>1 DEF Bills, WithinOwed
<1>8. ASSUME NEW q \in 1..Periods, ~overtaken PROVE Billed(Of("messages", q))' <= owed[q]
  <2>1. Billed(Of("messages", q)) <= owed[q] BY <1>7, <1>8
  <2>2. CASE Of("messages", q)' = Of("messages", q)
    <3>1. Billed(Of("messages", q))' = Billed(Of("messages", q)) BY <2>2
    <3> QED BY <2>1, <3>1
  <2>3. CASE q = p /\ Billed(Of("messages", p))' = Billed(Of("messages", p)) + figure
    <3> DEFINE b == Billed(Of("messages", p))
               c == Billed(Of("messages", p))'
    <3>1. b \in Nat BY SetsPriced
    <3>2. c = b + figure /\ figure + b <= owed[p] BY <1>7, <1>8, <2>3
    <3> HIDE DEF b, c
    <3>3. c <= owed[p] BY <1>1, <3>1, <3>2
    <3>4. Billed(Of("messages", q))' = c
      <4>1. Of("messages", q)' = Of("messages", p)' BY <2>3
      <4> QED BY <4>1 DEF c
    <3> QED BY <2>3, <3>3, <3>4
  <2> QED BY <1>6, <2>2, <2>3
<1>9. WithinOwed' BY <1>2, <1>3, <1>8 DEF WithinOwed
<1> QED BY <1>6, <1>9 DEF Bills

LEMMA DeviceBills ==
  ASSUME MeterInv, MeterInv', Bills, ClaimDevices PROVE Bills'
<1>1. /\ run.phase = "devices" /\ run \in Reporting /\ run.batch = {} /\ received' = received
      /\ owed' = owed /\ overtaken' = overtaken
  BY RunTyped DEF ClaimDevices, Stripe, History, MeterInv, Bills, Posts
<1>2. run'.phase \in {"idle", "mark"} /\ (run'.phase = "mark" => run'.batch = {})
  <2>1. run' = Resting \/ run' = [run EXCEPT !.phase = "mark", !.meter = "devices"] BY DEF ClaimDevices
  <2>2. CASE run' = Resting BY <2>2 DEF Resting
  <2>3. CASE run' = [run EXCEPT !.phase = "mark", !.meter = "devices"] BY <1>1, <2>3 DEF Reporting
  <2> QED BY <2>1, <2>2, <2>3
<1>3. Pending' = {} BY <1>2 DEF Pending
<1>4. CASE claims' = claims BY <1>1, <1>2, <1>3, <1>4, RunBills
<1>5. CASE claims' # claims
  <2>0. ExtraDevices(run.plan, run.devices) \in Nat
    <3>1. run.plan \in Plans /\ run.devices \in Nat BY <1>1, RunFields
    <3> QED BY <3>1, ExtraTyped
  <2>1. PICK extra \in Nat, p \in {run.period}, day \in {DeviceDay(run.period)} :
          extra = ExtraDevices(run.plan, run.devices) /\ p = run.period /\ day = DeviceDay(run.period)
    BY <2>0
  <2>2. run' = [run EXCEPT !.phase = "mark", !.meter = "devices"] /\ claims' = Claimed("devices", p, day, extra, 0)
    BY <1>5, <2>1 DEF ClaimDevices
  <2>3. run'.batch = {} BY <1>1, <2>2 DEF Reporting
  <2>4. "devices" # "messages" OBVIOUS
  <2>5. OneADay' /\ Posts' /\ \A q \in 1..Periods : Of("messages", q)' = Of("messages", q)
    BY <1>1, <1>3, <2>2, <2>3, <2>4, ClaimJoins
  <2>6. \A q \in 1..Periods : Billed(Of("messages", q))' = Billed(Of("messages", q)) BY <2>5
  <2>7. WithinOwed' BY <1>1, <1>2, <2>6 DEF Bills, WithinOwed
  <2> QED BY <2>5, <2>7 DEF Bills
<1> QED BY <1>4, <1>5

LEMMA MarkFields ==
  ASSUME NEW c \in Claim
  PROVE /\ [c EXCEPT !.posted = TRUE] \in Claim /\ [c EXCEPT !.posted = TRUE].posted
        /\ [c EXCEPT !.posted = TRUE].meter = c.meter /\ [c EXCEPT !.posted = TRUE].period = c.period
        /\ [c EXCEPT !.posted = TRUE].day = c.day /\ [c EXCEPT !.posted = TRUE].quantity = c.quantity
        /\ [c EXCEPT !.posted = FALSE] \in Claim /\ ~[c EXCEPT !.posted = FALSE].posted
        /\ [c EXCEPT !.posted = FALSE].meter = c.meter /\ [c EXCEPT !.posted = FALSE].period = c.period
        /\ [c EXCEPT !.posted = FALSE].day = c.day
        /\ ~c.posted => [[c EXCEPT !.posted = TRUE] EXCEPT !.posted = FALSE] = c
  BY DEF Claim

(* Marking a claim changes neither what is billed nor whose day it is; what was marked before *)
(* is in no batch.                                                                             *)
LEMMA MarkBills ==
  ASSUME MeterInv, MeterInv', Bills, MarkPosted PROVE Bills'
<1>1. /\ run.phase = "mark" /\ run \in Reporting /\ run.batch = {} /\ received' = received
      /\ owed' = owed /\ overtaken' = overtaken /\ claims \subseteq Claim /\ IsFiniteSet(claims)
  BY RunTyped DEF MarkPosted, Stripe, History, MeterInv, MeterTypeOK, Bills, Posts
<1> DEFINE batch == {c \in Of(run.meter, run.period) : ~c.posted}
           Mk(c) == [c EXCEPT !.posted = TRUE]
<1>2. CASE run' = [run EXCEPT !.phase = "post"] /\ claims' = claims
  <2>1. run'.phase = "post" /\ run'.batch = {} BY <1>1, <1>2 DEF Reporting
  <2>2. Pending' = {} BY <2>1 DEF Pending
  <2> QED BY <1>1, <1>2, <2>1, <2>2, RunBills
<1>3. CASE run' = [run EXCEPT !.phase = "post", !.batch = batch] /\ claims' = Marked(batch)
  <2>1. run'.phase = "post" /\ Pending' = batch
    <3>1. run'.phase = "post" /\ run'.batch = batch BY <1>1, <1>3 DEF Reporting
    <3> QED BY <3>1 DEF Pending
  <2>2. claims' = (claims \ batch) \cup {Mk(c) : c \in batch} BY <1>3 DEF Marked
  <2>3. \A c \in batch : c \in claims /\ ~c.posted BY DEF Of
  <2>4. \A c \in claims : /\ Mk(c) \in Claim /\ Mk(c).posted /\ Mk(c).meter = c.meter /\ Mk(c).period = c.period
                          /\ Mk(c).day = c.day /\ Mk(c).quantity = c.quantity
    BY <1>1, MarkFields
  <2>5. Pending = {} BY <1>1 DEF Pending
  <2>6. \A c \in Pending' : ~c.posted /\ [c EXCEPT !.posted = TRUE] \in claims'
    <3>1. \A c \in batch : ~c.posted /\ Mk(c) \in claims' BY <2>2, <2>3
    <3> QED BY <2>1, <3>1
  <2>7. ASSUME NEW c \in claims, c.posted
        PROVE c \in claims' /\ [c EXCEPT !.posted = FALSE] \notin Pending'
    <3> DEFINE u == [c EXCEPT !.posted = FALSE]
    <3>1. ~u.posted /\ u.meter = c.meter /\ u.period = c.period /\ u.day = c.day BY <1>1, MarkFields
    <3>2. u \in batch => u = c BY <2>3, <3>1 DEF Bills, OneADay
    <3>3. u \notin batch
      <4> HIDE DEF u
      <4> QED BY <2>7, <3>1, <3>2
    <3>4. c \notin batch BY <2>3, <2>7
    <3> QED BY <2>1, <2>2, <3>3, <3>4
  <2> DEFINE g == [c \in claims |-> IF c \in batch THEN Mk(c) ELSE c]
  <2>8. \A c \in claims : /\ g[c] \in claims' /\ g[c].meter = c.meter /\ g[c].period = c.period
                          /\ g[c].day = c.day /\ g[c].quantity = c.quantity
    BY <2>2, <2>4
  <2>9. \A x \in claims' : \E c \in claims : x = g[c] BY <2>2, <2>3
  <2> HIDE DEF g, batch, Mk
  <2>10. OneADay'
    <3> SUFFICES ASSUME NEW x \in claims', NEW y \in claims', x.meter = y.meter, x.period = y.period, x.day = y.day
                 PROVE x = y
      BY DEF OneADay
    <3>1. PICK b \in claims : x = g[b] BY <2>9
    <3>2. PICK c \in claims : y = g[c] BY <2>9
    <3>3. b = c BY <2>8, <3>1, <3>2 DEF Bills, OneADay
    <3> QED BY <3>1, <3>2, <3>3
  <2>11. ASSUME NEW p \in 1..Periods PROVE Billed(Of("messages", p))' <= Billed(Of("messages", p))
    <3> DEFINE S == Of("messages", p)
               T == {g[c] : c \in S}
    <3>1. Of("messages", p)' = T BY <2>8, <2>9 DEF Of
    <3>2. Priced(S) /\ S \subseteq claims BY SetsPriced DEF Of
    <3>3. \A c \in S : g[c].quantity = c.quantity BY <2>8, <3>2
    <3> HIDE DEF S
    <3>4. Billed(T) <= Billed(S) BY <3>2, <3>3, BilledImage
    <3> QED BY <3>1, <3>4 DEF S
  <2>12. WithinOwed'
    <3>1. ASSUME NEW p \in 1..Periods, ~overtaken PROVE Billed(Of("messages", p))' <= owed[p]
      <4> DEFINE b == Billed(Of("messages", p))
                 c == Billed(Of("messages", p))'
      <4>1. c <= b BY <2>11
      <4>2. b <= owed[p] BY <3>1 DEF Bills, WithinOwed
      <4>3. b \in Nat /\ owed[p] \in Nat BY SetsPriced, RowsAt DEF MeterInv
      <4>4. c \in Nat
        <5>1. Of("messages", p)' \subseteq claims' BY DEF Of
        <5>2. claims' \subseteq Claim /\ IsFiniteSet(claims') BY DEF MeterInv, MeterTypeOK
        <5>3. Billed(Of("messages", p)') \in Nat BY <5>1, <5>2, ClaimsPriced
        <5> QED BY <5>3
      <4> HIDE DEF b, c
      <4>5. c <= owed[p] BY <4>1, <4>2, <4>3, <4>4
      <4> QED BY <4>5 DEF c
    <3> QED BY <1>1, <2>1, <3>1 DEF WithinOwed
  <2>13. ASSUME NEW p \in 1..Periods PROVE Billed(Took(p))' <= Billed(Done(p))'
    <3> DEFINE D == Done(p)'
               T == Took(p)'
    <3>1. Done(p) \subseteq D BY <2>7 DEF Done, Of
    <3>2. T = Took(p) BY <1>1 DEF Took
    <3>3. Priced(D) /\ Billed(D) \in Nat
      <4>1. D \subseteq claims' BY DEF Done, Of
      <4>2. claims' \subseteq Claim /\ IsFiniteSet(claims') BY DEF MeterInv, MeterTypeOK
      <4> HIDE DEF D
      <4> QED BY <4>1, <4>2, ClaimsPriced
    <3> HIDE DEF D
    <3>4. Billed(Done(p)) <= Billed(D) BY <3>1, <3>3, BilledPart
    <3>5. Billed(T) = Billed(Took(p)) BY <3>2
    <3> HIDE DEF T
    <3>6. Billed(Took(p)) <= Billed(Done(p)) BY DEF Bills, Posts
    <3>7. Billed(Took(p)) \in Nat /\ Billed(Done(p)) \in Nat BY SetsPriced
    <3>8. Billed(T) <= Billed(D) BY <3>3, <3>4, <3>5, <3>6, <3>7
    <3> QED BY <3>8 DEF T, D
  <2>14. Posts' BY <2>1, <2>6, <2>13 DEF Posts
  <2> QED BY <2>10, <2>12, <2>14 DEF Bills
<1> QED BY <1>2, <1>3 DEF MarkPosted

(* Stripe takes no more than the claim that leaves the batch is of. *)
LEMMA PostBills ==
  ASSUME MeterInv, MeterInv', Bills, Post PROVE Bills'
<1>1. /\ run.phase = "post" /\ run \in Reporting /\ UNCHANGED <<claims, owed, overtaken>>
      /\ claims \subseteq Claim /\ IsFiniteSet(claims)
  BY RunTyped DEF Post, Columns, History, MeterInv, MeterTypeOK
<1>2. PICK c \in run.batch : /\ run' = [run EXCEPT !.batch = @ \ {c}]
                             /\ received' = Taken(c) \/ received' = received
  BY DEF Post
<1>3. run'.phase = "post" /\ run'.batch = run.batch \ {c} BY <1>1, <1>2 DEF Reporting
<1>4. Pending = run.batch /\ Pending' = run.batch \ {c} BY <1>1, <1>3 DEF Pending
<1>5. c \in Claim /\ run.batch \subseteq Claim BY <1>1, <1>2, RunFields
<1>6. CASE received' = received
  <2>1. Pending' \subseteq Pending BY <1>4
  <2> QED BY <1>1, <1>3, <1>6, <2>1, RunBills
<1>7. CASE received' # received
  <2> DEFINE new == [meter |-> c.meter, period |-> c.period, ident |-> c.ident, quantity |-> c.quantity, at |-> now]
             k == [c EXCEPT !.posted = TRUE]
  <2>1. received' = received \cup {new} /\ new \notin received BY <1>2, <1>7 DEF Taken
  <2>2. new.meter = c.meter /\ new.period = c.period /\ new.quantity = c.quantity OBVIOUS
  <2>3. k \in claims /\ ~c.posted BY <1>2, <1>4 DEF Bills, Posts
  <2>4. /\ k.posted /\ k.meter = c.meter /\ k.period = c.period /\ k.quantity = c.quantity
        /\ [k EXCEPT !.posted = FALSE] = c
    BY <1>5, <2>3, MarkFields
  <2>5. c.quantity \in Nat BY <1>5 DEF Claim
  <2> HIDE DEF new, k
  <2>6. ASSUME NEW p \in 1..Periods PROVE Billed(Took(p))' <= Billed(Done(p))'
    <3> DEFINE D == Done(p)'
               T == Took(p)'
               A == Done(p)
               B == Took(p)
    <3>1. A \subseteq D BY <1>1, <1>4 DEF Done, Of
    <3>2. Priced(D) /\ Billed(D) \in Nat
      <4>1. D \subseteq claims' BY DEF Done, Of
      <4>2. claims' \subseteq Claim /\ IsFiniteSet(claims') BY DEF MeterInv, MeterTypeOK
      <4> HIDE DEF D
      <4> QED BY <4>1, <4>2, ClaimsPriced
    <3>3. /\ Priced(A) /\ Priced(B) /\ Billed(A) \in Nat /\ Billed(B) \in Nat /\ Billed(B) <= Billed(A)
      BY SetsPriced DEF Bills, Posts
    <3>4. CASE c.meter = "messages" /\ c.period = p
      <4>1. T = B \cup {new} /\ new \notin B BY <2>1, <2>2, <3>4 DEF Took
      <4>2. k \in D BY <1>1, <1>4, <2>3, <2>4, <3>4 DEF Done, Of
      <4>3. k \notin A BY <1>2, <1>4, <2>4 DEF Done
      <4>4. A \cup {k} \subseteq D BY <3>1, <4>2
      <4> HIDE DEF A, B, D, T
      <4>5. Billed(B \cup {new}) = Billed(B) + new.quantity BY <2>2, <2>5, <3>3, <4>1, BilledWith
      <4>6. Billed(A \cup {k}) = Billed(A) + k.quantity BY <2>4, <2>5, <3>3, <4>3, BilledWith
      <4>7. Billed(A \cup {k}) <= Billed(D) BY <3>2, <4>4, BilledPart
      <4>8. Billed(T) = Billed(B \cup {new}) BY <4>1
      <4>9. Billed(T) = Billed(B) + c.quantity /\ Billed(A) + c.quantity <= Billed(D)
        BY <2>2, <2>4, <4>5, <4>6, <4>7, <4>8
      <4>10. Billed(T) <= Billed(D) BY <2>5, <3>2, <3>3, <4>9
      <4> QED BY <4>10 DEF T, D
    <3>5. CASE ~(c.meter = "messages" /\ c.period = p)
      <4>1. T = B BY <2>1, <2>2, <3>5 DEF Took
      <4> HIDE DEF A, B, D, T
      <4>2. Billed(A) <= Billed(D) BY <3>1, <3>2, BilledPart
      <4>3. Billed(T) = Billed(B) BY <4>1
      <4>4. Billed(T) <= Billed(D) BY <3>2, <3>3, <4>2, <4>3
      <4> QED BY <4>4 DEF T, D
    <3> QED BY <3>4, <3>5
  <2>7. \A b \in Pending' : ~b.posted /\ [b EXCEPT !.posted = TRUE] \in claims'
    BY <1>1, <1>4 DEF Bills, Posts
  <2>8. Posts' BY <1>3, <2>6, <2>7 DEF Posts
  <2>9. OneADay' BY <1>1 DEF Bills, OneADay
  <2>10. \A p \in 1..Periods : Of("messages", p)' = Of("messages", p) BY <1>1 DEF Of
  <2>11. \A p \in 1..Periods : Billed(Of("messages", p))' = Billed(Of("messages", p)) BY <2>10
  <2>12. WithinOwed' BY <1>1, <1>3, <2>11 DEF Bills, WithinOwed
  <2> QED BY <2>8, <2>9, <2>12 DEF Bills
<1> QED BY <1>6, <1>7

LEMMA BillsStep ==
  ASSUME MeterInv, Floors, Bills, [Next]_metering_vars PROVE Bills'
<1>0. MeterInv' BY MeterStep
<1>1. CASE ~Reporter BY <1>1, OthersLeave, OthersBill
<1>2. CASE StartRun \/ KillRun
  <2>1. UNCHANGED <<claims, received, owed, overtaken>> /\ run'.phase \in {"idle", "load"}
    BY <1>2 DEF StartRun, KillRun, Columns, Stripe, History, Resting
  <2>2. Pending' = {} BY <2>1 DEF Pending
  <2> QED BY <1>0, <2>1, <2>2, RunBills
<1>3. CASE PostedAll
  <2>1. UNCHANGED <<claims, received, owed, overtaken>> /\ run \in Reporting /\ run.batch = {}
    BY <1>3, RunTyped DEF PostedAll, Columns, Stripe, History, MeterInv
  <2>2. run' = Resting \/ run' = [run EXCEPT !.phase = "devices"] BY <1>3 DEF PostedAll
  <2>3. CASE run' = Resting
    <3>1. run'.phase = "idle" BY <2>3 DEF Resting
    <3>2. Pending' = {} BY <3>1 DEF Pending
    <3> QED BY <1>0, <2>1, <3>1, <3>2, RunBills
  <2>4. CASE run' = [run EXCEPT !.phase = "devices"]
    <3>1. run'.phase = "devices" /\ run'.batch = {} BY <2>1, <2>4 DEF Reporting
    <3>2. Pending' = {} BY <3>1 DEF Pending
    <3> QED BY <1>0, <2>1, <3>1, <3>2, RunBills
  <2> QED BY <2>2, <2>3, <2>4
<1> QED BY <1>0, <1>1, <1>2, <1>3, LoadBills, SumBills, MessageBills, MarkBills, PostBills, DeviceBills DEF Reporter

(* However the reporter's runs, their deaths and failed posts, late webhooks and plan changes  *)
(* interleave, Stripe is never told of more overage than a period ever had over its best tier, *)
(* unless a change overtook another (usage.rs report_message_overage, post_unposted_reports,    *)
(* raise_message_allowance_floor).                                                              *)
THEOREM NoOverbilling == Spec => []NeverOverbilled
<1>1. Init => MeterInv /\ Ordered /\ Floors /\ Bills BY MeterStarts, OrderedInit, FloorsInit, BillsInit
<1>2. MeterInv /\ Ordered /\ Floors /\ Bills /\ [Next]_metering_vars => (MeterInv /\ Ordered /\ Floors /\ Bills)'
  BY MeterStep, OrderedStep, FloorsStep, BillsStep
<1>3. MeterInv /\ Bills => NeverOverbilled
  <2> SUFFICES ASSUME MeterInv, Bills, ~overtaken, NEW p \in 1..Periods PROVE Billed(Took(p)) <= owed[p]
    BY DEF NeverOverbilled, Took
  <2> DEFINE S == Of("messages", p)
             D == Done(p)
             T == Took(p)
  <2>1. Billed(T) <= Billed(D) /\ Billed(S) <= owed[p] BY DEF Bills, Posts, WithinOwed
  <2>2. Priced(S) /\ D \subseteq S /\ Billed(S) \in Nat /\ Billed(D) \in Nat /\ Billed(T) \in Nat
    BY SetsPriced DEF Done
  <2>3. owed[p] \in Nat BY RowsAt DEF MeterInv
  <2> HIDE DEF S, D, T
  <2>4. Billed(D) <= Billed(S) BY <2>2, BilledPart
  <2>5. Billed(T) <= owed[p] BY <2>1, <2>2, <2>3, <2>4
  <2> QED BY <2>5 DEF T
<1> QED BY <1>1, <1>2, <1>3, PTL DEF Spec
=============================================================================
