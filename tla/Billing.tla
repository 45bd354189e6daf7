------------------------------- MODULE Billing -------------------------------
(***************************************************************************)
(* The billing columns of one organisation, which only Stripe's webhook    *)
(* writes: checkout requests bind a customer, Stripe keeps subscriptions   *)
(* and sends an event for every change, at least once and in any order,    *)
(* and each delivery is claimed, applied and marked in statements of their *)
(* own, with another delivery possibly between any two.                    *)
(***************************************************************************)
EXTENDS Integers

CONSTANTS
  Managers,     \* checkout requests; each may create the customer of its name
  Subs,         \* subscriptions Stripe may come to hold
  Plans,        \* paid tiers
  Free,         \* the free tier
  None,         \* a NULL column; the plan of a subscription that names no tier
  Handlers,     \* deliveries that may be running at once
  Faults,       \* which of "attach", "fetch", "mark", "answer", "killed" may happen
  Gaps,         \* seconds that may pass between two changes Stripe reports
  MaxEvents     \* bound on the events Stripe creates

ASSUME BillingAssumption ==
  /\ None \notin Managers \cup Subs \cup Plans \cup {Free} /\ Free \notin Plans
  /\ Gaps \subseteq {0, 1} /\ MaxEvents \in Nat

VARIABLES
  held,         \* Stripe: what each subscription is now
  now,          \* Stripe: the second of the newest event
  created,      \* Stripe: how many events it created
  events,       \* Stripe: every event created, with the state it carries
  inbox,        \* Stripe: events that were not answered with a 200
  row,          \* the organisation's billing columns
  processed,    \* events with a processed_at
  job,          \* the deliveries that are running
  checkout,     \* where each checkout request stands
  sessions,     \* customers a checkout session was opened for
  missed        \* events whose subscription the row would not take

vars == <<held, now, created, events, inbox, row, processed, job, checkout, sessions, missed>>

----------------------------------------------------------------------------
(* Stripe. *)

Ended == {"canceled", "unpaid"}
Statuses == {"none", "active"} \cup Ended

\* How a status moves: "active" stands for every live one, "canceled" for every final one.
Moves == {<<"active", "unpaid">>, <<"unpaid", "active">>,
          <<"active", "canceled">>, <<"unpaid", "canceled">>}

Subscription == [status : Statuses, plan : Plans \cup {None}, customer : Managers \cup {None}]
Event == [kind : {"subscription", "checkout"}, sub : Subs,
          at : 0..MaxEvents, status : Statuses, plan : Plans \cup {None}]

\* An event is stamped in whole seconds, so several may share one.
Creates(kinds, s, as) ==
  /\ created' = created + (IF "checkout" \in kinds THEN 2 ELSE 1) /\ created' <= MaxEvents
  /\ \E gap \in Gaps :
       LET made == [kind : kinds, sub : {s}, at : {now + gap}, status : {as.status}, plan : {as.plan}]
       IN now' = now + gap /\ events' = events \cup made /\ inbox' = inbox \cup made
  /\ held' = [held EXCEPT ![s] = as]
  /\ UNCHANGED <<row, processed, job, checkout, sessions, missed>>

\* Somebody pays for a tier in an open session, which completes it.
Buy(s) ==
  /\ held[s].status = "none"
  /\ \E c \in sessions, p \in Plans :
       Creates({"subscription", "checkout"}, s, [status |-> "active", plan |-> p, customer |-> c])

Turn(s) ==
  \E to \in Statuses :
    /\ <<held[s].status, to>> \in Moves
    /\ Creates({"subscription"}, s, [held[s] EXCEPT !.status = to])

\* A plan change: by the dashboard, or by hand to a price that names no tier.
Reprice(s) ==
  /\ held[s].status = "active"
  /\ \E p \in (Plans \cup {None}) \ {held[s].plan} : Creates({"subscription"}, s, [held[s] EXCEPT !.plan = p])

----------------------------------------------------------------------------
(* POST /orgs/:org_id/billing/checkout. *)

\* Mutant of Attached: the newest customer wins.
AttachedLast(customer) == customer

\* What the COALESCE leaves in the column.
Attached(customer) == IF row.customer = None THEN customer ELSE row.customer

\* An organisation without a customer gets one created, which is another await.
BeginCheckout(m) ==
  /\ checkout[m] = "idle"
  /\ IF row.customer # None
       THEN sessions' = sessions \cup {row.customer} /\ UNCHANGED checkout
       ELSE checkout' = [checkout EXCEPT ![m] = "created"] /\ UNCHANGED sessions
  /\ UNCHANGED <<held, now, created, events, inbox, row, processed, job, missed>>

\* The session opens for whichever customer won, or for its own if the write fails.
AttachCreated(m) ==
  /\ checkout[m] = "created"
  /\ checkout' = [checkout EXCEPT ![m] = "done"]
  /\ \/ /\ row' = [row EXCEPT !.customer = Attached(m)]
        /\ sessions' = sessions \cup {Attached(m)}
     \/ /\ "attach" \in Faults
        /\ sessions' = sessions \cup {m} /\ UNCHANGED row
  /\ UNCHANGED <<held, now, created, events, inbox, processed, job, missed>>

----------------------------------------------------------------------------
(* POST /billing/webhook, one action for each await. *)

Idle == [phase |-> "idle"]
Phases == {"attach", "fetch", "apply", "mark"}
Snapshot == [status : Statuses, plan : Plans \cup {None}]
Working == [phase : Phases, ev : Event, got : Snapshot]

Moving(h, phase) == [job EXCEPT ![h].phase = phase]
Answered(e) == inbox' = inbox \ {e}

\* Mutant of Claims: claiming an event is taken for having applied it.
ClaimsProcess(h, e) ==
  /\ job' = [job EXCEPT ![h] = [phase |-> IF e.kind = "subscription" THEN "apply" ELSE "attach",
                                ev |-> e, got |-> [status |-> e.status, plan |-> e.plan]]]
  /\ processed' = processed \cup {e}

\* claim_webhook_event records the delivery, and nothing of what it carries.
Claims(h, e) ==
  /\ job' = [job EXCEPT ![h] = [phase |-> IF e.kind = "subscription" THEN "apply" ELSE "attach",
                                ev |-> e, got |-> [status |-> e.status, plan |-> e.plan]]]
  /\ UNCHANGED processed

\* A delivery of an event nothing answered yet: a first one or another.
Deliver(h, e) ==
  /\ job[h] = Idle /\ e \in inbox
  /\ \/ /\ e \in processed
        /\ Answered(e) /\ UNCHANGED <<job, processed>>
     \/ /\ e \notin processed
        /\ Claims(h, e) /\ UNCHANGED inbox
  /\ UNCHANGED <<held, now, created, events, row, checkout, sessions, missed>>

\* A completed checkout binds its customer first; a failure is only logged.
Attach(h) ==
  /\ job[h].phase = "attach"
  /\ job' = Moving(h, "fetch")
  /\ \/ row' = [row EXCEPT !.customer = Attached(held[job[h].ev.sub].customer)]
     \/ "attach" \in Faults /\ UNCHANGED row
  /\ UNCHANGED <<held, now, created, events, inbox, processed, checkout, sessions, missed>>

\* It then asks Stripe what the subscription is by now, or leaves that to its events.
Fetch(h) ==
  /\ job[h].phase = "fetch"
  /\ LET s == held[job[h].ev.sub] IN
     \/ job' = [job EXCEPT ![h].phase = "apply", ![h].got = [status |-> s.status, plan |-> s.plan]]
     \/ "fetch" \in Faults /\ job' = Moving(h, "mark")
  /\ UNCHANGED <<held, now, created, events, inbox, row, processed, checkout, sessions, missed>>

\* The row is this subscription's, or its customer's with no live one to defend.
Takes(s) ==
  \/ row.sub = s
  \/ row.customer = held[s].customer /\ (row.sub = None \/ row.status \in Ended)

\* Mutant of Fresh: no guard on the order of events.
FreshAlways(e) == TRUE

Fresh(e) == row.at <= e.at

\* A cancelled subscription drops to the free tier; one that names no tier keeps the stored one.
Kept(got) == IF got.status = "canceled" THEN Free
             ELSE IF got.plan = None THEN row.plan ELSE got.plan

\* apply_subscription: one UPDATE, which takes the state or matches no row.
Apply(h) ==
  /\ job[h].phase = "apply"
  /\ LET e == job[h].ev
         got == job[h].got
     IN /\ job' = Moving(h, "mark")
        /\ row' = IF Takes(e.sub) /\ Fresh(e)
                    THEN [customer |-> held[e.sub].customer, sub |-> e.sub, status |-> got.status,
                          plan |-> Kept(got), at |-> e.at]
                    ELSE row
        /\ missed' = IF Takes(e.sub) THEN missed \ {e} ELSE missed \cup {e}
  /\ UNCHANGED <<held, now, created, events, inbox, processed, checkout, sessions>>

\* The event is marked and answered; a mark that fails is answered all the same.
Mark(h) ==
  /\ job[h].phase = "mark"
  /\ job' = [job EXCEPT ![h] = Idle]
  /\ \E marked \in (IF "mark" \in Faults THEN BOOLEAN ELSE {TRUE}) :
       processed' = IF marked THEN processed \cup {job[h].ev} ELSE processed
  /\ \/ Answered(job[h].ev)
     \/ "answer" \in Faults /\ UNCHANGED inbox
  /\ UNCHANGED <<held, now, created, events, row, checkout, sessions, missed>>

\* The invocation dies, or a statement fails and it answers a 500: Stripe will try again.
Die(h) ==
  /\ "killed" \in Faults /\ job[h] # Idle
  /\ job' = [job EXCEPT ![h] = Idle]
  /\ UNCHANGED <<held, now, created, events, inbox, row, processed, checkout, sessions, missed>>

----------------------------------------------------------------------------

Init ==
  /\ held = [s \in Subs |-> [status |-> "none", plan |-> None, customer |-> None]]
  /\ now = 0 /\ created = 0 /\ events = {} /\ inbox = {}
  /\ row = [customer |-> None, sub |-> None, status |-> "none", plan |-> Free, at |-> 0]
  /\ processed = {} /\ missed = {}
  /\ job = [h \in Handlers |-> Idle]
  /\ checkout = [m \in Managers |-> "idle"]
  /\ sessions = {}

Next ==
  \/ \E s \in Subs : Buy(s) \/ Turn(s) \/ Reprice(s)
  \/ \E m \in Managers : BeginCheckout(m) \/ AttachCreated(m)
  \/ \E h \in Handlers :
       \/ \E e \in inbox : Deliver(h, e)
       \/ Attach(h) \/ Fetch(h) \/ Apply(h) \/ Mark(h) \/ Die(h)

Spec == Init /\ [][Next]_vars

----------------------------------------------------------------------------

BillingTypeOK ==
  /\ held \in [Subs -> Subscription]
  /\ now \in 0..MaxEvents /\ created \in 0..MaxEvents /\ now <= created
  /\ events \subseteq Event
  /\ inbox \subseteq events /\ processed \subseteq events /\ missed \subseteq events
  /\ row \in [customer : Managers \cup {None}, sub : Subs \cup {None}, status : Statuses,
              plan : Plans \cup {Free}, at : 0..MaxEvents]
  /\ job \in [Handlers -> {Idle} \cup Working]
  /\ checkout \in [Managers -> {"idle", "created", "done"}]
  /\ sessions \subseteq Managers

\* The customer of an organisation is chosen once: neither two managers who check out at the
\* same time, nor a replayed checkout event, nor a subscription of another customer moves it
\* (billing.rs attach_stripe_customer and apply_subscription).
CustomerKept == [][row.customer # None => row'.customer = row.customer]_row

\* Nothing is swallowed by its own claim: an event marked processed was applied, was refused
\* because the row had something at least as new, or was turned away by the match; and what
\* has been applied is never older than it (billing.rs claim_webhook_event).
NothingSwallowed ==
  \A e \in processed : e.kind = "subscription" => e \in missed \/ e.at <= row.at

Of(s) == {e \in events : e.kind = "subscription" /\ e.sub = s}
Newest(s) == {e \in Of(s) : \A f \in Of(s) : f.at <= e.at}
Settled(s) == /\ \A h \in Handlers : job[h] = Idle
              /\ \A e \in inbox : e.sub # s

\* Whatever the order, the copies, the deaths and the failed statements, once every event of
\* the subscription the row names was answered and none of them was turned away, the row shows
\* the newest second Stripe reported of it (billing.rs apply_subscription's two guards).
RowFollowsStripe ==
  row.sub # None /\ Settled(row.sub) /\ Of(row.sub) \cap missed = {} =>
    \E e \in Newest(row.sub) :
      /\ row.status = e.status
      /\ row.plan = IF e.status = "canceled" THEN Free ELSE IF e.plan = None THEN row.plan ELSE e.plan
=============================================================================
