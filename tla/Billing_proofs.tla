--------------------------- MODULE Billing_proofs ---------------------------
(***************************************************************************)
(* What the billing columns keep whatever Stripe sends and however the     *)
(* deliveries fall between each other: types, the customer chosen once,    *)
(* no event swallowed by its own claim, and what the row shows.            *)
(***************************************************************************)
EXTENDS Billing, TLAPS

\* Whoever was bought has a customer, and every event, running or not, is of
\* a subscription that was bought.
Known ==
  /\ \A s \in Subs : held[s].status # "none" => held[s].customer \in Managers
  /\ \A e \in events : held[e.sub].status # "none"
  /\ \A h \in Handlers : job[h] # Idle => job[h].ev \in events

\* The row's subscription is its customer's.
Bound ==
  row.sub # None => /\ held[row.sub].status # "none"
                    /\ held[row.sub].customer = row.customer

\* A delivery about to be marked has been applied, refused or turned away.
Judged ==
  \A h \in Handlers :
    /\ job[h].phase \in {"attach", "fetch"} => job[h].ev.kind = "checkout"
    /\ job[h].phase = "mark" /\ job[h].ev.kind = "subscription" =>
         job[h].ev \in missed \/ job[h].ev.at <= row.at

IInv == BillingTypeOK /\ Known /\ Bound /\ Judged /\ NothingSwallowed

LEMMA BusyWorks ==
  ASSUME BillingTypeOK, NEW h \in Handlers, job[h].phase # "idle"
  PROVE  job[h] \in Working
BY DEF BillingTypeOK, Idle

LEMMA InitIInv == Init => IInv
<1> SUFFICES ASSUME Init PROVE IInv
  OBVIOUS
<1> USE BillingAssumption DEF Init
<1>1. BillingTypeOK
  BY DEF BillingTypeOK, Subscription, Statuses, Ended
<1>2. Known /\ Bound
  BY DEF Known, Bound
<1>3. Judged /\ NothingSwallowed
  BY DEF Judged, NothingSwallowed, Idle
<1> QED
  BY <1>1, <1>2, <1>3 DEF IInv

----------------------------------------------------------------------------
(* Stripe reports a change. *)

LEMMA CreatesKeeps ==
  ASSUME IInv, NEW s \in Subs, NEW kinds \in SUBSET {"subscription", "checkout"},
         NEW as \in Subscription, Creates(kinds, s, as),
         as.status # "none", as.customer \in Managers,
         held[s].status # "none" => as.customer = held[s].customer
  PROVE  IInv'
<1> USE BillingAssumption
<1> DEFINE made(gap) == [kind : kinds, sub : {s}, at : {now + gap}, status : {as.status}, plan : {as.plan}]
<1>1. /\ created' \in {created + 1, created + 2} /\ created' <= MaxEvents
      /\ held' = [held EXCEPT ![s] = as]
      /\ UNCHANGED <<row, processed, job, checkout, sessions, missed>>
  BY DEF Creates
<1>2. PICK gap \in Gaps : now' = now + gap /\ events' = events \cup made(gap) /\ inbox' = inbox \cup made(gap)
  BY DEF Creates
<1>3. now \in Nat /\ created \in Nat /\ now <= created /\ gap \in {0, 1}
  BY DEF IInv, BillingTypeOK
<1> HIDE DEF made
<1>4. now' \in 0..MaxEvents /\ created' \in 0..MaxEvents /\ now' <= created'
  BY <1>1, <1>2, <1>3
<1>5. made(gap) \subseteq Event /\ \A e \in made(gap) : e.sub = s
  BY <1>2, <1>4 DEF made, Event, Subscription
<1>6. BillingTypeOK'
  BY <1>1, <1>2, <1>4, <1>5 DEF IInv, BillingTypeOK
<1>7. /\ \A t \in Subs : held'[t].status = "none" => held[t].status = "none"
      /\ \A t \in Subs : held[t].status # "none" => held'[t].customer = held[t].customer
      /\ held'[s] = as
  BY <1>1 DEF IInv, BillingTypeOK
<1>8. \A t \in Subs : held'[t].status # "none" => held'[t].customer \in Managers
  <2> TAKE t \in Subs
  <2>1. CASE t = s
    BY <1>7, <2>1
  <2>2. CASE t # s
    BY <1>1, <2>2 DEF IInv, BillingTypeOK, Known
  <2> QED
    BY <2>1, <2>2
<1>9. \A e \in events' : held'[e.sub].status # "none"
  <2> SUFFICES ASSUME NEW e \in events' PROVE held'[e.sub].status # "none"
    OBVIOUS
  <2>1. CASE e \in events
    BY <1>7, <2>1 DEF IInv, BillingTypeOK, Known, Event
  <2>2. CASE e \in made(gap)
    BY <1>5, <1>7, <2>2
  <2> QED
    BY <1>2, <2>1, <2>2
<1>10. Known'
  BY <1>1, <1>2, <1>8, <1>9 DEF IInv, Known
<1>11. Bound'
  BY <1>1, <1>7 DEF IInv, BillingTypeOK, Bound
<1>12. Judged' /\ NothingSwallowed'
  BY <1>1 DEF IInv, Judged, NothingSwallowed
<1> QED
  BY <1>6, <1>10, <1>11, <1>12 DEF IInv

LEMMA StripeKeeps ==
  ASSUME IInv, NEW s \in Subs, Buy(s) \/ Turn(s) \/ Reprice(s)
  PROVE  IInv'
<1> USE BillingAssumption
<1>t. held[s] \in Subscription /\ sessions \subseteq Managers
  BY DEF IInv, BillingTypeOK
<1>1. CASE Buy(s)
  <2>1. PICK c \in sessions, p \in Plans :
          Creates({"subscription", "checkout"}, s, [status |-> "active", plan |-> p, customer |-> c])
    BY <1>1 DEF Buy
  <2>2. [status |-> "active", plan |-> p, customer |-> c] \in Subscription
    BY <1>t DEF Subscription, Statuses
  <2> QED
    BY <1>1, <1>t, <2>1, <2>2, CreatesKeeps DEF Buy
<1>2. CASE Turn(s)
  <2>1. PICK to \in Statuses : /\ <<held[s].status, to>> \in Moves
                               /\ Creates({"subscription"}, s, [held[s] EXCEPT !.status = to])
    BY <1>2 DEF Turn
  <2>2. held[s].status # "none" /\ to # "none"
    BY <2>1 DEF Moves
  <2>3. [held[s] EXCEPT !.status = to] \in Subscription
    BY <1>t DEF Subscription
  <2>4. held[s].customer \in Managers
    BY <2>2 DEF IInv, Known
  <2>5. /\ [held[s] EXCEPT !.status = to].status = to
        /\ [held[s] EXCEPT !.status = to].customer = held[s].customer
    BY <1>t DEF Subscription
  <2> QED
    BY <2>1, <2>2, <2>3, <2>4, <2>5, CreatesKeeps
<1>3. CASE Reprice(s)
  <2>1. PICK p \in (Plans \cup {None}) \ {held[s].plan} :
          Creates({"subscription"}, s, [held[s] EXCEPT !.plan = p])
    BY <1>3 DEF Reprice
  <2>2. held[s].status # "none"
    BY <1>3 DEF Reprice
  <2>3. [held[s] EXCEPT !.plan = p] \in Subscription
    BY <1>t DEF Subscription
  <2>4. held[s].customer \in Managers
    BY <2>2 DEF IInv, Known
  <2>5. /\ [held[s] EXCEPT !.plan = p].status = held[s].status
        /\ [held[s] EXCEPT !.plan = p].customer = held[s].customer
    BY <1>t DEF Subscription
  <2> QED
    BY <2>1, <2>2, <2>3, <2>4, <2>5, CreatesKeeps
<1> QED
  BY <1>1, <1>2, <1>3

----------------------------------------------------------------------------
(* The routes. *)

LEMMA CheckoutKeeps ==
  ASSUME IInv, NEW m \in Managers, BeginCheckout(m) \/ AttachCreated(m)
  PROVE  IInv' /\ (row.customer # None => row'.customer = row.customer)
<1> USE BillingAssumption
<1>1. row.customer # None => row'.customer = row.customer
  BY DEF BeginCheckout, AttachCreated, Attached, IInv, BillingTypeOK
<1>2. BillingTypeOK'
  BY DEF BeginCheckout, AttachCreated, Attached, IInv, BillingTypeOK
<1>3. row'.sub = row.sub /\ row'.at = row.at
  BY DEF BeginCheckout, AttachCreated, IInv, BillingTypeOK
<1>4. UNCHANGED <<held, events, job, processed, missed>>
  BY DEF BeginCheckout, AttachCreated
<1>5. Known' /\ Judged' /\ NothingSwallowed'
  BY <1>3, <1>4 DEF IInv, Known, Judged, NothingSwallowed
<1>6. Bound'
  BY <1>1, <1>3, <1>4 DEF IInv, Known, Bound, BillingTypeOK
<1> QED
  BY <1>1, <1>2, <1>5, <1>6 DEF IInv

LEMMA DeliverKeeps ==
  ASSUME IInv, NEW h \in Handlers, NEW e \in inbox, Deliver(h, e)
  PROVE  IInv'
<1> USE BillingAssumption
<1>e. e \in Event /\ e \in events
  BY DEF IInv, BillingTypeOK
<1>1. CASE Answered(e) /\ UNCHANGED <<job, processed>>
  BY <1>1 DEF Deliver, Answered, IInv, BillingTypeOK, Known, Bound, Judged, NothingSwallowed
<1>2. CASE Claims(h, e) /\ UNCHANGED inbox
  <2> DEFINE begun == [phase |-> IF e.kind = "subscription" THEN "apply" ELSE "attach",
                       ev |-> e, got |-> [status |-> e.status, plan |-> e.plan]]
  <2>1. /\ begun \in Working /\ begun.ev = e
        /\ begun.phase \in {"attach", "fetch"} => e.kind = "checkout"
        /\ begun.phase # "mark"
    BY <1>e DEF Working, Event, Phases, Snapshot
  <2>2. job' = [job EXCEPT ![h] = begun]
    BY <1>2 DEF Claims
  <2> HIDE DEF begun
  <2>3. UNCHANGED <<held, now, created, events, inbox, row, checkout, sessions, missed, processed>>
    BY <1>2 DEF Deliver, Claims
  <2>4. BillingTypeOK'
    BY <2>1, <2>2, <2>3 DEF IInv, BillingTypeOK
  <2>5. Known' /\ Bound' /\ NothingSwallowed'
    BY <1>e, <2>1, <2>2, <2>3 DEF IInv, BillingTypeOK, Known, Bound, NothingSwallowed
  <2>6. Judged'
    BY <2>1, <2>2, <2>3 DEF IInv, BillingTypeOK, Judged
  <2> QED
    BY <2>4, <2>5, <2>6 DEF IInv
<1> QED
  BY <1>1, <1>2 DEF Deliver

LEMMA AttachKeeps ==
  ASSUME IInv, NEW h \in Handlers, Attach(h)
  PROVE  IInv' /\ (row.customer # None => row'.customer = row.customer)
<1> USE BillingAssumption
<1>0. job[h] \in Working /\ job[h].ev \in events /\ job[h].ev \in Event
  BY BusyWorks DEF Attach, IInv, BillingTypeOK, Known, Idle
<1>1. held[job[h].ev.sub].customer \in Managers
  BY <1>0 DEF IInv, Known, Event
<1>2. row' = row \/ row' = [row EXCEPT !.customer = Attached(held[job[h].ev.sub].customer)]
  BY DEF Attach
<1>3. /\ row.customer # None => row'.customer = row.customer
      /\ row'.customer \in Managers \cup {None} /\ row'.sub = row.sub /\ row'.at = row.at
  BY <1>1, <1>2 DEF Attached, IInv, BillingTypeOK
<1>4. job' = [job EXCEPT ![h] = [job[h] EXCEPT !.phase = "fetch"]]
  BY DEF Attach, Moving
<1>5. [job[h] EXCEPT !.phase = "fetch"] \in Working
  BY <1>0 DEF Working, Phases
<1>6. UNCHANGED <<held, now, created, events, inbox, processed, checkout, sessions, missed>>
  BY DEF Attach
<1>7. BillingTypeOK'
  BY <1>1, <1>2, <1>4, <1>5, <1>6 DEF IInv, BillingTypeOK, Attached
<1>8. Known' /\ NothingSwallowed'
  BY <1>0, <1>3, <1>4, <1>6 DEF IInv, BillingTypeOK, Known, NothingSwallowed, Working
<1>9. Bound'
  BY <1>3, <1>6 DEF IInv, Known, Bound, BillingTypeOK
<1>10. Judged'
  BY <1>0, <1>3, <1>4, <1>6 DEF IInv, BillingTypeOK, Judged, Attach, Working
<1> QED
  BY <1>3, <1>7, <1>8, <1>9, <1>10 DEF IInv

LEMMA FetchKeeps ==
  ASSUME IInv, NEW h \in Handlers, Fetch(h)
  PROVE  IInv'
<1> USE BillingAssumption
<1>0. job[h] \in Working /\ job[h].ev \in events /\ job[h].ev \in Event /\ job[h].ev.kind = "checkout"
  BY BusyWorks DEF Fetch, IInv, BillingTypeOK, Known, Judged, Idle
<1>1. PICK next \in Working : /\ job' = [job EXCEPT ![h] = next] /\ next.ev = job[h].ev
                              /\ next.phase \in {"apply", "mark"}
  <2> DEFINE s == held[job[h].ev.sub]
             asked == [job[h] EXCEPT !.phase = "apply", !.got = [status |-> s.status, plan |-> s.plan]]
             left == [job[h] EXCEPT !.phase = "mark"]
  <2>1. s \in Subscription
    BY <1>0 DEF IInv, BillingTypeOK, Event
  <2>2. /\ asked \in Working /\ asked.ev = job[h].ev /\ asked.phase = "apply"
        /\ left \in Working /\ left.ev = job[h].ev /\ left.phase = "mark"
    BY <1>0, <2>1 DEF Working, Phases, Snapshot, Subscription
  <2>3. job' = [job EXCEPT ![h] = asked] \/ job' = [job EXCEPT ![h] = left]
    BY DEF Fetch, Moving
  <2> QED
    BY <2>2, <2>3
<1>2. UNCHANGED <<held, now, created, events, inbox, row, processed, checkout, sessions, missed>>
  BY DEF Fetch
<1>3. BillingTypeOK'
  BY <1>1, <1>2 DEF IInv, BillingTypeOK
<1>4. Known' /\ Bound' /\ NothingSwallowed'
  BY <1>0, <1>1, <1>2 DEF IInv, BillingTypeOK, Known, Bound, NothingSwallowed
<1>5. Judged'
  BY <1>0, <1>1, <1>2 DEF IInv, BillingTypeOK, Judged
<1> QED
  BY <1>3, <1>4, <1>5 DEF IInv

LEMMA ApplyKeeps ==
  ASSUME IInv, NEW h \in Handlers, Apply(h)
  PROVE  IInv' /\ (row.customer # None => row'.customer = row.customer)
<1> USE BillingAssumption
<1> DEFINE e == job[h].ev
           got == job[h].got
           taken == [customer |-> held[e.sub].customer, sub |-> e.sub, status |-> got.status,
                     plan |-> Kept(got), at |-> e.at]
           moved == [job[h] EXCEPT !.phase = "mark"]
<1>0. job[h] \in Working /\ e \in events /\ e \in Event /\ got \in Snapshot
  BY BusyWorks DEF Apply, IInv, BillingTypeOK, Known, Idle, Working
<1>1. /\ held[e.sub].status # "none" /\ held[e.sub].customer \in Managers
      /\ e.sub \in Subs /\ e.sub # None
  BY <1>0 DEF IInv, Known, Event
<1>2. /\ job' = [job EXCEPT ![h] = moved]
      /\ row' = IF Takes(e.sub) /\ Fresh(e) THEN taken ELSE row
      /\ missed' = IF Takes(e.sub) THEN missed \ {e} ELSE missed \cup {e}
      /\ UNCHANGED <<held, now, created, events, inbox, processed, checkout, sessions>>
  BY DEF Apply, Moving
<1>3. moved \in Working /\ moved.ev = e /\ moved.phase = "mark"
  BY <1>0 DEF Working, Phases
<1>4. Kept(got) \in Plans \cup {Free}
  BY <1>0 DEF Kept, Snapshot, IInv, BillingTypeOK
<1>5. row' \in [customer : Managers \cup {None}, sub : Subs \cup {None}, status : Statuses,
                plan : Plans \cup {Free}, at : 0..MaxEvents]
  BY <1>0, <1>1, <1>2, <1>4 DEF Event, Snapshot, IInv, BillingTypeOK
<1>6. row.at \in Nat /\ row.at <= row'.at
  BY <1>0, <1>2 DEF Fresh, Event, IInv, BillingTypeOK
<1>7. row.customer # None => row'.customer = row.customer
  BY <1>1, <1>2 DEF Takes, IInv, Bound
<1>8. e \in missed' \/ e.at <= row'.at
  BY <1>0, <1>2 DEF Fresh, Event, IInv, BillingTypeOK
<1>9. \A f \in missed : f \in missed' \/ f = e
  BY <1>2
<1>10. row'.sub # row.sub => row'.sub = e.sub /\ row'.customer = held[e.sub].customer
  BY <1>2
<1>13. row'.sub = row.sub => row' = row \/ row'.customer = held[row.sub].customer
  BY <1>2
<1> HIDE DEF e, got, taken, moved
<1>11. BillingTypeOK'
  BY <1>0, <1>2, <1>3, <1>5 DEF IInv, BillingTypeOK
<1>12. Known'
  BY <1>0, <1>2, <1>3 DEF IInv, BillingTypeOK, Known
<1>14. Bound'
  BY <1>1, <1>2, <1>10, <1>13 DEF IInv, Bound
<1>15. NothingSwallowed'
  <2> SUFFICES ASSUME NEW f \in processed, f.kind = "subscription"
               PROVE  f \in missed' \/ f.at <= row'.at
    BY <1>2 DEF NothingSwallowed
  <2>1. f \in Event
    BY DEF IInv, BillingTypeOK
  <2> QED
    BY <2>1, <1>5, <1>6, <1>8, <1>9 DEF IInv, NothingSwallowed, Event
<1>16. Judged'
  <2> SUFFICES ASSUME NEW g \in Handlers
               PROVE  /\ job'[g].phase \in {"attach", "fetch"} => job'[g].ev.kind = "checkout"
                      /\ job'[g].phase = "mark" /\ job'[g].ev.kind = "subscription" =>
                           job'[g].ev \in missed' \/ job'[g].ev.at <= row'.at
    BY DEF Judged
  <2>1. CASE g = h
    BY <2>1, <1>2, <1>3, <1>8 DEF IInv, BillingTypeOK
  <2>2. CASE g # h
    <3>1. job'[g] = job[g]
      BY <2>2, <1>2 DEF IInv, BillingTypeOK
    <3>2. job[g].phase = "mark" => job[g].ev \in Event
      BY BusyWorks DEF IInv, Working
    <3> QED
      BY <3>1, <3>2, <1>5, <1>6, <1>8, <1>9 DEF IInv, Judged, Event
  <2> QED
    BY <2>1, <2>2
<1> QED
  BY <1>7, <1>11, <1>12, <1>14, <1>15, <1>16 DEF IInv

LEMMA MarkKeeps ==
  ASSUME IInv, NEW h \in Handlers, Mark(h)
  PROVE  IInv'
<1> USE BillingAssumption
<1>0. job[h] \in Working /\ job[h].ev \in events
  BY BusyWorks DEF Mark, IInv, BillingTypeOK, Known, Idle
<1>1. /\ job' = [job EXCEPT ![h] = Idle]
      /\ processed' \in {processed, processed \cup {job[h].ev}}
      /\ inbox' \subseteq inbox
      /\ UNCHANGED <<held, now, created, events, row, checkout, sessions, missed>>
  BY DEF Mark, Answered
<1>2. BillingTypeOK'
  BY <1>0, <1>1 DEF IInv, BillingTypeOK
<1>3. Known' /\ Bound'
  BY <1>1 DEF IInv, BillingTypeOK, Known, Bound
<1>4. Judged'
  BY <1>1 DEF IInv, BillingTypeOK, Judged, Idle
<1>5. NothingSwallowed'
  BY <1>0, <1>1 DEF IInv, Judged, NothingSwallowed, Mark
<1> QED
  BY <1>2, <1>3, <1>4, <1>5 DEF IInv

LEMMA DieKeeps ==
  ASSUME IInv, NEW h \in Handlers, Die(h)
  PROVE  IInv'
<1>1. BillingTypeOK'
  BY DEF Die, IInv, BillingTypeOK
<1>2. Known' /\ Bound' /\ NothingSwallowed'
  BY DEF Die, IInv, BillingTypeOK, Known, Bound, NothingSwallowed
<1>3. Judged'
  BY DEF Die, IInv, BillingTypeOK, Judged, Idle
<1> QED
  BY <1>1, <1>2, <1>3 DEF IInv

----------------------------------------------------------------------------

LEMMA StepKeeps ==
  ASSUME IInv, [Next]_vars
  PROVE  IInv' /\ (row.customer # None => row'.customer = row.customer)
<1>1. CASE \E s \in Subs : Buy(s) \/ Turn(s) \/ Reprice(s)
  BY <1>1, StripeKeeps DEF Buy, Turn, Reprice, Creates
<1>2. CASE \E m \in Managers : BeginCheckout(m) \/ AttachCreated(m)
  BY <1>2, CheckoutKeeps
<1>3. CASE \E h \in Handlers, e \in inbox : Deliver(h, e)
  BY <1>3, DeliverKeeps DEF Deliver
<1>4. CASE \E h \in Handlers : Attach(h) \/ Apply(h)
  BY <1>4, AttachKeeps, ApplyKeeps
<1>5. CASE \E h \in Handlers : Fetch(h) \/ Mark(h) \/ Die(h)
  BY <1>5, FetchKeeps, MarkKeeps, DieKeeps DEF Fetch, Mark, Die
<1>6. CASE UNCHANGED vars
  BY <1>6 DEF vars, IInv, BillingTypeOK, Known, Bound, Judged, NothingSwallowed, Idle
<1> QED
  BY <1>1, <1>2, <1>3, <1>4, <1>5, <1>6 DEF Next

LEMMA Inductive == Spec => []IInv
<1>1. IInv /\ [Next]_vars => IInv'
  BY StepKeeps
<1> QED
  BY <1>1, InitIInv, PTL DEF Spec

\* The columns, the deliveries and what Stripe keeps have their types.
LEMMA BillingTyped == Spec => []BillingTypeOK
<1>1. IInv => BillingTypeOK
  BY DEF IInv
<1> QED
  BY <1>1, Inductive, PTL

\* Whatever dies, fails, is repeated or comes out of order, an event is
\* marked processed only after it was applied, refused as older than the
\* row, or turned away by the match (billing.rs claim_webhook_event).
THEOREM NothingIsSwallowed == Spec => []NothingSwallowed
<1>1. IInv => NothingSwallowed
  BY DEF IInv
<1> QED
  BY <1>1, Inductive, PTL

\* Racing checkouts, replayed checkout events and subscription events never
\* move an organisation to a second customer (billing.rs
\* attach_stripe_customer, apply_subscription).
THEOREM CustomerIsKept == Spec => CustomerKept
<1>1. IInv /\ [Next]_vars => [row.customer # None => row'.customer = row.customer]_row
  BY StepKeeps
<1> QED
  BY <1>1, Inductive, PTL DEF Spec, CustomerKept
----------------------------------------------------------------------------
(* What the row shows. *)

Says(f, as) == f.status = as.status /\ f.plan = as.plan

\* No event is ahead of Stripe's clock, and a checkout's has a twin of its second.
Dated == \A e \in events : e.at <= now /\ \E g \in Of(e.sub) : g.at = e.at

\* What Stripe holds, an event says that nothing of the subscription is newer than.
Mirrored ==
  \A s \in Subs : held[s].status # "none" =>
    \E f \in Of(s) : Says(f, held[s]) /\ \A e \in events : e.sub = s => e.at <= f.at

\* What a delivery is about to write, an event no older than its own says.
Carried ==
  \A h \in Handlers : job[h].phase = "apply" =>
    \E f \in Of(job[h].ev.sub) : Says(f, job[h].got) /\ job[h].ev.at <= f.at

\* The row's second is that of an event, and an event no older says what it shows.
Shown ==
  row.sub # None =>
    /\ \E g \in Of(row.sub) : g.at = row.at
    /\ \E f \in Of(row.sub) :
         /\ row.at <= f.at /\ row.status = f.status
         /\ row.plan = IF f.status = "canceled" THEN Free ELSE IF f.plan = None THEN row.plan ELSE f.plan

\* What was answered was turned away, or the row is at least as new.
AnsweredFor ==
  \A e \in events : e.kind = "subscription" /\ e \notin inbox => e \in missed \/ e.at <= row.at

Follows == Dated /\ Mirrored /\ Carried /\ Shown /\ AnsweredFor

LEMMA InitFollows == Init => Follows
BY DEF Init, Follows, Dated, Mirrored, Carried, Shown, AnsweredFor, Of, Idle

\* What a change at Stripe does to what is said of it.
LEMMA CreatesFollows ==
  ASSUME IInv, Follows, NEW s \in Subs, NEW kinds \in SUBSET {"subscription", "checkout"},
         "subscription" \in kinds, NEW as \in Subscription, Creates(kinds, s, as)
  PROVE  Follows'
<1> USE BillingAssumption
<1> DEFINE said(kind, gap) == [kind |-> kind, sub |-> s, at |-> now + gap,
                               status |-> as.status, plan |-> as.plan]
<1>1. held' = [held EXCEPT ![s] = as] /\ UNCHANGED <<row, processed, job, checkout, sessions, missed>>
  BY DEF Creates
<1>2. PICK gap \in Gaps :
        /\ now' = now + gap
        /\ events' = events \cup [kind : kinds, sub : {s}, at : {now + gap}, status : {as.status}, plan : {as.plan}]
        /\ inbox' = inbox \cup [kind : kinds, sub : {s}, at : {now + gap}, status : {as.status}, plan : {as.plan}]
  BY DEF Creates
<1> DEFINE twin == said("subscription", gap)
           made == [kind : kinds, sub : {s}, at : {now + gap}, status : {as.status}, plan : {as.plan}]
<1>3. \A e \in made : e.sub = s /\ e.at = now'
  BY <1>2
<1>4. /\ twin \in made /\ twin.kind = "subscription" /\ twin.sub = s /\ twin.at = now'
      /\ Says(twin, as)
  BY <1>2 DEF Says
<1>5. events' = events \cup made /\ inbox' = inbox \cup made
  BY <1>2
<1>6. now \in Int /\ now' \in Int /\ now <= now' /\ \A e \in events : e.at \in Int
  BY <1>2 DEF IInv, BillingTypeOK, Event
<1> HIDE DEF twin, made
<1>7. /\ \A t : Of(t) \subseteq Of(t)'
      /\ twin \in Of(s)'
  BY <1>4, <1>5 DEF Of
<1>8. \A e \in events' : e \in events \/ e \in made
  BY <1>5
<1>9. Dated'
  <2> SUFFICES ASSUME NEW e \in events' PROVE e.at <= now' /\ \E g \in Of(e.sub)' : g.at = e.at
    BY DEF Dated
  <2>1. CASE e \in events
    BY <2>1, <1>6, <1>7 DEF Follows, Dated
  <2>2. CASE e \in made
    BY <2>2, <1>3, <1>4, <1>6, <1>7
  <2> QED
    BY <2>1, <2>2, <1>8
<1>10. Mirrored'
  <2> SUFFICES ASSUME NEW t \in Subs, held'[t].status # "none"
               PROVE  \E f \in Of(t)' : Says(f, held'[t]) /\ \A e \in events' : e.sub = t => e.at <= f.at
    BY DEF Mirrored, Says
  <2>1. CASE t = s
    <3>1. held'[t] = as
      BY <1>1, <2>1 DEF IInv, BillingTypeOK
    <3>2. \A e \in events' : e.at <= twin.at
      BY <1>3, <1>4, <1>6, <1>8 DEF Follows, Dated
    <3> QED
      BY <2>1, <3>1, <3>2, <1>4, <1>7
  <2>2. CASE t # s
    <3>1. held'[t] = held[t]
      BY <1>1, <2>2 DEF IInv, BillingTypeOK
    <3>2. PICK f \in Of(t) : Says(f, held[t]) /\ \A e \in events : e.sub = t => e.at <= f.at
      BY <3>1 DEF Follows, Mirrored
    <3>3. \A e \in events' : e.sub = t => e \in events
      BY <1>3, <1>8, <2>2
    <3> QED
      BY <3>1, <3>2, <3>3, <1>7
  <2> QED
    BY <2>1, <2>2
<1>11. Carried'
  BY <1>1, <1>7 DEF Follows, Carried, Says
<1>12. Shown'
  BY <1>1, <1>7 DEF Follows, Shown
<1>13. AnsweredFor'
  BY <1>1, <1>5, <1>8 DEF Follows, AnsweredFor
<1> QED
  BY <1>9, <1>10, <1>11, <1>12, <1>13 DEF Follows

LEMMA StripeFollows ==
  ASSUME IInv, Follows, NEW s \in Subs, Buy(s) \/ Turn(s) \/ Reprice(s)
  PROVE  Follows'
<1> USE BillingAssumption
<1>t. held[s] \in Subscription /\ sessions \subseteq Managers
  BY DEF IInv, BillingTypeOK
<1>1. CASE Buy(s)
  <2>1. PICK c \in sessions, p \in Plans :
          Creates({"subscription", "checkout"}, s, [status |-> "active", plan |-> p, customer |-> c])
    BY <1>1 DEF Buy
  <2>2. [status |-> "active", plan |-> p, customer |-> c] \in Subscription
    BY <1>t DEF Subscription, Statuses
  <2> QED
    BY <2>1, <2>2, CreatesFollows
<1>2. CASE Turn(s)
  <2>1. PICK to \in Statuses : Creates({"subscription"}, s, [held[s] EXCEPT !.status = to])
    BY <1>2 DEF Turn
  <2>2. [held[s] EXCEPT !.status = to] \in Subscription
    BY <1>t DEF Subscription
  <2> QED
    BY <2>1, <2>2, CreatesFollows
<1>3. CASE Reprice(s)
  <2>1. PICK p \in (Plans \cup {None}) \ {held[s].plan} :
          Creates({"subscription"}, s, [held[s] EXCEPT !.plan = p])
    BY <1>3 DEF Reprice
  <2>2. [held[s] EXCEPT !.plan = p] \in Subscription
    BY <1>t DEF Subscription
  <2> QED
    BY <2>1, <2>2, CreatesFollows
<1> QED
  BY <1>1, <1>2, <1>3

\* The routes and the steps of a delivery leave what Stripe holds alone.
LEMMA RoutesFollow ==
  ASSUME IInv, Follows, NEW m \in Managers, BeginCheckout(m) \/ AttachCreated(m)
  PROVE  Follows'
<1>1. /\ row'.sub = row.sub /\ row'.at = row.at /\ row'.status = row.status /\ row'.plan = row.plan
      /\ UNCHANGED <<held, now, events, inbox, job, missed>>
  BY DEF BeginCheckout, AttachCreated, IInv, BillingTypeOK
<1>2. \A t : Of(t)' = Of(t)
  BY <1>1 DEF Of
<1> QED
  BY <1>1, <1>2 DEF Follows, Dated, Mirrored, Carried, Shown, AnsweredFor, Says

LEMMA DeliverFollows ==
  ASSUME IInv, Follows, NEW h \in Handlers, NEW e \in inbox, Deliver(h, e)
  PROVE  Follows'
<1>0. e \in Event /\ e \in events /\ processed \subseteq events
  BY DEF IInv, BillingTypeOK
<1>1. UNCHANGED <<held, now, events, row, missed, processed>> /\ \A t : Of(t)' = Of(t)
  BY DEF Deliver, Claims, Of
<1>2. Dated' /\ Mirrored' /\ Shown'
  BY <1>1 DEF Follows, Dated, Mirrored, Shown, Says
<1>3. CASE e \in processed /\ Answered(e) /\ UNCHANGED job
  <2>1. Carried'
    BY <1>1, <1>3 DEF Follows, Carried, Says
  <2>2. AnsweredFor'
    BY <1>1, <1>3 DEF Follows, AnsweredFor, Answered, IInv, NothingSwallowed
  <2> QED
    BY <1>2, <2>1, <2>2 DEF Follows
<1>4. CASE Claims(h, e) /\ UNCHANGED inbox
  <2> DEFINE begun == [phase |-> IF e.kind = "subscription" THEN "apply" ELSE "attach",
                       ev |-> e, got |-> [status |-> e.status, plan |-> e.plan]]
  <2>1. /\ begun.phase = "apply" => e.kind = "subscription"
        /\ begun.ev = e /\ Says(e, begun.got)
    BY DEF Says
  <2>2. job' = [job EXCEPT ![h] = begun]
    BY <1>4 DEF Claims
  <2> HIDE DEF begun
  <2>3. e.kind = "subscription" => e \in Of(e.sub) /\ e.at <= e.at
    BY <1>0 DEF Of, Event
  <2>4. Carried'
    <3> SUFFICES ASSUME NEW g \in Handlers, job'[g].phase = "apply"
                 PROVE  \E f \in Of(job'[g].ev.sub) : Says(f, job'[g].got) /\ job'[g].ev.at <= f.at
      BY <1>1 DEF Carried, Says
    <3>1. CASE g = h
      BY <2>1, <2>2, <2>3, <3>1 DEF IInv, BillingTypeOK
    <3>2. CASE g # h
      BY <2>2, <3>2 DEF IInv, BillingTypeOK, Follows, Carried
    <3> QED
      BY <3>1, <3>2
  <2>5. AnsweredFor'
    BY <1>1, <1>4 DEF Follows, AnsweredFor
  <2> QED
    BY <1>2, <2>4, <2>5 DEF Follows
<1> QED
  BY <1>3, <1>4 DEF Deliver

LEMMA AttachFollows ==
  ASSUME IInv, Follows, NEW h \in Handlers, Attach(h)
  PROVE  Follows'
<1>0. job[h] \in Working
  BY BusyWorks DEF Attach, IInv, Idle
<1>1. /\ row'.sub = row.sub /\ row'.at = row.at /\ row'.status = row.status /\ row'.plan = row.plan
      /\ job' = [job EXCEPT ![h] = [job[h] EXCEPT !.phase = "fetch"]]
      /\ UNCHANGED <<held, now, events, inbox, missed>>
  BY DEF Attach, Moving, IInv, BillingTypeOK
<1>2. \A t : Of(t)' = Of(t)
  BY <1>1 DEF Of
<1>3. \A g \in Handlers : job'[g].phase = "apply" => job'[g] = job[g]
  BY <1>0, <1>1 DEF IInv, BillingTypeOK, Working
<1>4. Carried'
  BY <1>2, <1>3 DEF Follows, Carried, Says
<1> QED
  BY <1>1, <1>2, <1>4 DEF Follows, Dated, Mirrored, Shown, AnsweredFor, Says

LEMMA FetchFollows ==
  ASSUME IInv, Follows, NEW h \in Handlers, Fetch(h)
  PROVE  Follows'
<1>0. job[h] \in Working /\ job[h].ev \in events /\ job[h].ev \in Event
  BY BusyWorks DEF Fetch, IInv, BillingTypeOK, Known, Idle
<1> DEFINE s == held[job[h].ev.sub]
           asked == [job[h] EXCEPT !.phase = "apply", !.got = [status |-> s.status, plan |-> s.plan]]
           left == [job[h] EXCEPT !.phase = "mark"]
<1>1. UNCHANGED <<held, now, events, inbox, row, missed>> /\ \A t : Of(t)' = Of(t)
  BY DEF Fetch, Of
<1>2. PICK next : /\ job' = [job EXCEPT ![h] = next]
                  /\ next.phase = "apply" => next.ev = job[h].ev /\ next.got = [status |-> s.status, plan |-> s.plan]
  <2>1. /\ asked.ev = job[h].ev /\ asked.got = [status |-> s.status, plan |-> s.plan]
        /\ left.phase = "mark"
    BY <1>0 DEF Working
  <2>2. job' = [job EXCEPT ![h] = asked] \/ job' = [job EXCEPT ![h] = left]
    BY DEF Fetch, Moving
  <2> QED
    BY <2>1, <2>2
<1>3. PICK f \in Of(job[h].ev.sub) : Says(f, s) /\ job[h].ev.at <= f.at
  <2>1. job[h].ev.sub \in Subs /\ s.status # "none"
    BY <1>0 DEF IInv, Known, Event
  <2> QED
    BY <2>1, <1>0 DEF Follows, Mirrored
<1>4. Says(f, [status |-> s.status, plan |-> s.plan])
  BY <1>3 DEF Says
<1> HIDE DEF s
<1>5. Carried'
  <2> SUFFICES ASSUME NEW g \in Handlers, job'[g].phase = "apply"
               PROVE  \E i \in Of(job'[g].ev.sub) : Says(i, job'[g].got) /\ job'[g].ev.at <= i.at
    BY <1>1 DEF Carried, Says
  <2>1. CASE g = h
    BY <1>2, <1>3, <1>4, <2>1 DEF IInv, BillingTypeOK
  <2>2. CASE g # h
    BY <1>2, <2>2 DEF IInv, BillingTypeOK, Follows, Carried
  <2> QED
    BY <2>1, <2>2
<1> QED
  BY <1>1, <1>5 DEF Follows, Dated, Mirrored, Shown, AnsweredFor, Says

LEMMA ApplyFollows ==
  ASSUME IInv, Follows, NEW h \in Handlers, Apply(h)
  PROVE  Follows'
<1> USE BillingAssumption
<1> DEFINE e == job[h].ev
           got == job[h].got
           taken == [customer |-> held[e.sub].customer, sub |-> e.sub, status |-> got.status,
                     plan |-> Kept(got), at |-> e.at]
<1>0. job[h] \in Working /\ e \in events /\ e \in Event
  BY BusyWorks DEF Apply, IInv, BillingTypeOK, Known, Idle
<1>1. /\ job' = [job EXCEPT ![h] = [job[h] EXCEPT !.phase = "mark"]]
      /\ row' = IF Takes(e.sub) /\ Fresh(e) THEN taken ELSE row
      /\ missed' = IF Takes(e.sub) THEN missed \ {e} ELSE missed \cup {e}
      /\ UNCHANGED <<held, now, events, inbox>>
  BY DEF Apply, Moving
<1>2. \A t : Of(t)' = Of(t)
  BY <1>1 DEF Of
<1>3. \A g \in Handlers : job'[g].phase = "apply" => job'[g] = job[g]
  BY <1>0, <1>1 DEF IInv, BillingTypeOK, Working
<1>4. Carried'
  BY <1>2, <1>3 DEF Follows, Carried, Says
<1>5. PICK f \in Of(e.sub) : Says(f, got) /\ e.at <= f.at
  BY DEF Apply, Follows, Carried
<1>6. PICK g \in Of(e.sub) : g.at = e.at
  BY <1>0 DEF Follows, Dated
<1>7. Shown'
  <2>1. CASE row' = row
    BY <1>2, <2>1 DEF Follows, Shown
  <2>2. CASE row' = taken
    <3>1. row'.sub = e.sub /\ row'.at = e.at /\ row'.status = f.status
      BY <2>2, <1>5 DEF Says
    <3>2. row'.plan = IF f.status = "canceled" THEN Free ELSE IF f.plan = None THEN row'.plan ELSE f.plan
      BY <2>2, <1>5 DEF Says, Kept
    <3> QED
      BY <3>1, <3>2, <1>2, <1>5, <1>6 DEF Shown
  <2> QED
    BY <1>1, <2>1, <2>2
<1>8. AnsweredFor'
  <2> SUFFICES ASSUME NEW i \in events, i.kind = "subscription", i \notin inbox
               PROVE  i \in missed' \/ i.at <= row'.at
    BY <1>1 DEF AnsweredFor
  <2>1. i \in Event /\ row.at \in Nat
    BY DEF IInv, BillingTypeOK
  <2>2. row.at <= row'.at /\ row'.at \in Nat
    BY <1>0, <1>1, <2>1 DEF Fresh, Event
  <2>3. e \in missed' \/ e.at <= row'.at
    BY <1>0, <1>1, <2>1 DEF Fresh, Event
  <2>4. i \in missed \/ i.at <= row.at
    BY DEF Follows, AnsweredFor
  <2> QED
    BY <1>1, <2>1, <2>2, <2>3, <2>4 DEF Event
<1> QED
  BY <1>1, <1>2, <1>4, <1>7, <1>8 DEF Follows, Dated, Mirrored, Says

LEMMA MarkFollows ==
  ASSUME IInv, Follows, NEW h \in Handlers, Mark(h) \/ Die(h)
  PROVE  Follows'
<1>1. /\ job' = [job EXCEPT ![h] = Idle]
      /\ UNCHANGED <<held, now, events, row, missed>>
      /\ \A t : Of(t)' = Of(t)
  BY DEF Mark, Die, Of
<1>2. inbox' = inbox \/ (job[h].phase = "mark" /\ inbox' = inbox \ {job[h].ev})
  BY DEF Mark, Die, Answered
<1>3. Carried'
  BY <1>1 DEF IInv, BillingTypeOK, Follows, Carried, Says, Idle
<1>4. AnsweredFor'
  BY <1>1, <1>2 DEF Follows, AnsweredFor, IInv, Judged
<1> QED
  BY <1>1, <1>3, <1>4 DEF Follows, Dated, Mirrored, Shown, Says

LEMMA StepFollows ==
  ASSUME IInv, Follows, [Next]_vars
  PROVE  Follows'
<1>1. CASE UNCHANGED vars
  BY <1>1 DEF vars, Follows, Dated, Mirrored, Carried, Shown, AnsweredFor, Of, Says
<1> QED
  BY <1>1, StripeFollows, RoutesFollow, DeliverFollows, AttachFollows, FetchFollows,
     ApplyFollows, MarkFollows DEF Next

\* When no delivery of the subscription is out and none was turned away, each of
\* its events is at most as new as the row, and the row's second is one of
\* theirs: it is the newest, and what the row shows an event of it says
\* (billing.rs apply_subscription), also when events share a second.
THEOREM RowFollows == Spec => []RowFollowsStripe
<1>1. IInv /\ Follows => RowFollowsStripe
  <2> SUFFICES ASSUME IInv, Follows, row.sub # None, Settled(row.sub), Of(row.sub) \cap missed = {}
               PROVE  \E e \in Newest(row.sub) :
                        /\ row.status = e.status
                        /\ row.plan = IF e.status = "canceled" THEN Free
                                      ELSE IF e.plan = None THEN row.plan ELSE e.plan
    BY DEF RowFollowsStripe
  <2>1. \A e \in Of(row.sub) : e.at <= row.at /\ e.at \in Int
    BY DEF Follows, AnsweredFor, Of, Settled, IInv, BillingTypeOK, Event
  <2>2. PICK f \in Of(row.sub) :
          /\ row.at <= f.at /\ row.status = f.status
          /\ row.plan = IF f.status = "canceled" THEN Free ELSE IF f.plan = None THEN row.plan ELSE f.plan
    BY DEF Follows, Shown
  <2>3. row.at \in Int
    BY DEF IInv, BillingTypeOK
  <2>4. f \in Newest(row.sub)
    BY <2>1, <2>2, <2>3 DEF Newest
  <2> QED
    BY <2>2, <2>4
<1>2. IInv /\ Follows /\ [Next]_vars => Follows'
  BY StepFollows
<1>3. Init => Follows
  BY InitFollows
<1> QED
  BY <1>1, <1>2, <1>3, Inductive, PTL DEF Spec
=============================================================================
