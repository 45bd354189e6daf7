---------------------------- MODULE TelemetryQueue ----------------------------
(***************************************************************************)
(* A pigeon's telemetry from the device to everything that keeps it: the   *)
(* gateway route and the object's own ingest, the queue, the consumers that*)
(* write, count, store or forward and evaluate, and the contact stamps that*)
(* ride along. The queue delivers at least once and in no order; a consumer*)
(* works through awaited calls, each of which may fail or lose its answer. *)
(***************************************************************************)
EXTENDS LatestStore, ConnectionState

CONSTANTS
  Messages,    \* deliveries a device may make
  Consumers,   \* invocations of queue_consumer
  Bodies,      \* what a report may carry: sequences of [claim, keys]
  Legacy,      \* the retired table's rows, as an object may still hold them
  MaxTries,    \* deliveries before the queue gives a message up
  Faults,      \* the failures a run admits, see FaultKinds
  MaxTime

FaultKinds ==
  {"answer",   \* a write is stored and its answer lost or unreadable
   "refused",  \* a call to the object fails
   "enqueue",  \* the queue refuses the message
   "tail",     \* a part of what follows the ack fails
   "killed",   \* an invocation of the consumer ends where it stands
   "stamp",    \* a stamp is not written to the mirror
   "drop"}     \* a migration ends before the old table is dropped

\* The retired table's rows are of readings this queue never carried, taken
\* at any time before.
ASSUME QueueAssumption ==
  /\ Bodies \subseteq Seq(Reports)
  /\ DOMAIN Legacy \subseteq Keys
  /\ \A k \in DOMAIN Legacy : Legacy[k] \in [from : {Never}, at : {t \in Int : t <= 0}]
  /\ Faults \subseteq FaultKinds
  /\ MaxTries \in Nat /\ MaxTime \in Nat

VARIABLES
  now,
  store,       \* the object's latest values
  legacy,      \* rows of the table a migration has not dropped yet
  message,     \* the queue, and what became of each delivery
  consumer,    \* the invocations
  seen,        \* the object's contact stamp
  stamps,      \* stamps on their way to the mirror from the gateway
  lastSeen,    \* pigeons.last_seen_at on the mirror
  (* What only the properties read: *)
  newest,      \* for each key in the store, the newest reading merged since it came
  counted, stored, evaluated,   \* what the consumers have recorded, per delivery
  merged, repeated,             \* deliveries merged at least once, more than once
  contact, stampLost            \* the last contact; a stamp did not reach the mirror

store_vars == <<store, legacy, newest, merged>>
record_vars == <<counted, stored, evaluated>>
contact_vars == <<seen, stamps, lastSeen, contact, stampLost>>
vars == <<now, message, consumer, repeated, store_vars, record_vars, contact_vars>>

NoMessage == [state |-> "none", readings |-> <<>>, merged |-> FALSE, seen |-> Never, tries |-> 0]
IdleConsumer == [phase |-> "idle", of |-> Never, readings |-> <<>>, forward |-> FALSE]

Init ==
  /\ now = 0
  /\ legacy = Legacy /\ store = Empty
  /\ newest = [k \in Keys |-> Never]
  /\ message = [m \in Messages |-> NoMessage]
  /\ consumer = [c \in Consumers |-> IdleConsumer]
  /\ seen = Never /\ stamps = {} /\ lastSeen = Never /\ contact = Never /\ stampLost = FALSE
  /\ counted = [m \in Messages |-> 0] /\ stored = [m \in Messages |-> 0]
  /\ evaluated = {} /\ merged = {} /\ repeated = {}

Tick == /\ now < MaxTime /\ now' = now + 1
        /\ UNCHANGED <<message, consumer, repeated, store_vars, record_vars, contact_vars>>

----------------------------------------------------------------------------
(* The object. *)

Named(m, readings) ==
  [i \in DOMAIN readings |-> [at |-> readings[i].at, keys |-> readings[i].keys,
                              id |-> <<m, i>>, previous |-> Empty]]

NewestAfter(readings, after) ==
  [k \in Keys |->
     LET brought == {readings[i].at : i \in {j \in DOMAIN readings : k \in readings[j].keys}}
     IN IF k \notin DOMAIN after THEN Never ELSE LatestOf({newest[k]} \cup brought)]

\* Merging a delivery, and what the properties keep of it.
Merge(m, result) ==
  /\ store' = result.store
  /\ newest' = NewestAfter(result.readings, result.store)
  /\ merged' = merged \cup {m}
  /\ UNCHANGED legacy

\* The constructor folds the old table in and drops it, or fails to.
Migrate(dropped) ==
  /\ legacy # Empty
  /\ IF dropped THEN TRUE ELSE "drop" \in Faults
  /\ store' = FoldLegacyRows(store, legacy)
  /\ legacy' = IF dropped THEN Empty ELSE legacy
  /\ newest' = [k \in Keys |-> IF k \notin DOMAIN store' THEN Never
                               ELSE IF k \in DOMAIN store THEN newest[k] ELSE legacy[k].at]
  /\ UNCHANGED <<now, message, consumer, merged, repeated, record_vars, contact_vars>>

\* A contact is stamped when the last stamp has aged, and answers the stamp.
NoteSeen ==
  /\ contact' = now
  /\ seen' = IF StampDue(seen, now) THEN now ELSE seen

StampNoted == IF StampDue(seen, now) THEN now ELSE Never

\* Over HTTP the gateway resolves the report, has the token verified, stamps
\* the mirror by itself and enqueues what nothing has merged yet.
ReportHttp(m, body) ==
  /\ message[m].state = "none" /\ Acceptable(body)
  /\ NoteSeen
  /\ stamps' = IF StampDue(seen, now) THEN stamps \cup {now} ELSE stamps
  /\ \E enqueued \in (IF "enqueue" \in Faults THEN BOOLEAN ELSE {TRUE}) :
       message' = [message EXCEPT ![m] = IF ~enqueued THEN [NoMessage EXCEPT !.state = "lost"]
         ELSE [NoMessage EXCEPT !.state = "queued", !.readings = Named(m, ResolveBatch(body, now))]]
  /\ UNCHANGED <<now, consumer, repeated, lastSeen, stampLost, store_vars, record_vars>>

\* Over a socket or NIDD the object merges first and enqueues the outcome; a
\* stamp that could not ride along is sent alone.
ReportObject(m, body) ==
  LET result == MergeBatch(store, Named(m, ResolveBatch(body, now)))
  IN /\ message[m].state = "none" /\ Acceptable(body)
     /\ Merge(m, result)
     /\ NoteSeen
     /\ \E enqueued, alone \in (IF "enqueue" \in Faults THEN BOOLEAN ELSE {TRUE}) :
          /\ message' = [message EXCEPT ![m] =
               IF enqueued THEN [NoMessage EXCEPT !.state = "queued", !.readings = result.readings,
                                                  !.merged = TRUE, !.seen = StampNoted]
               ELSE IF alone /\ StampNoted # Never
               THEN [NoMessage EXCEPT !.state = "queued", !.seen = StampNoted]
               ELSE [NoMessage EXCEPT !.state = "lost"]]
          /\ stampLost' = (stampLost \/ (~enqueued /\ ~alone /\ StampNoted # Never))
     /\ UNCHANGED <<now, consumer, repeated, stamps, lastSeen, record_vars>>

\* Any other route of the device is contact too.
ContactHttp ==
  /\ NoteSeen
  /\ stamps' = IF StampDue(seen, now) THEN stamps \cup {now} ELSE stamps
  /\ UNCHANGED <<now, message, consumer, repeated, lastSeen, stampLost, store_vars, record_vars>>

\* A frame that reports nothing hands its stamp to the consumer all the same.
ContactObject(m) ==
  /\ message[m].state = "none" /\ StampDue(seen, now)
  /\ NoteSeen
  /\ message' = [message EXCEPT ![m] = [NoMessage EXCEPT !.state = "queued", !.seen = now]]
  /\ UNCHANGED <<now, consumer, repeated, stamps, lastSeen, stampLost, store_vars, record_vars>>

\* Mutant of Stamped: the last write wins.
StampedLast(last, at) == at

\* The mirror's stamp moves forward only, however late a write arrives.
Stamped(last, at) == IF last = Never \/ last < at THEN at ELSE last

StampArrives(at) ==
  /\ at \in stamps /\ stamps' = stamps \ {at}
  /\ \E lands \in (IF "stamp" \in Faults THEN BOOLEAN ELSE {TRUE}) :
       /\ lastSeen' = IF lands THEN Stamped(lastSeen, at) ELSE lastSeen
       /\ stampLost' = (stampLost \/ ~lands)
  /\ UNCHANGED <<now, message, consumer, repeated, seen, contact, store_vars, record_vars>>

----------------------------------------------------------------------------
(* The consumer. *)

Set(c, phase) == [consumer EXCEPT ![c].phase = phase]
Of(c) == consumer[c].of

\* Delivered again, or given up once the queue has tried often enough.
Retried(m) == [message EXCEPT ![m].state = IF @ # "taken" THEN @
                 ELSE IF message[m].tries >= MaxTries THEN "dead" ELSE "queued"]

\* Mutant of Acked: the delivery is left to the queue until it is recorded.
AckedLater(m) == [message EXCEPT ![m].state = "queued"]

Acked(m) == [message EXCEPT ![m].state = "acked"]

Take(c, m) ==
  /\ consumer[c].phase = "idle" /\ message[m].state = "queued"
  /\ message' = [message EXCEPT ![m].state = "taken", ![m].tries = @ + 1]
  /\ consumer' = [consumer EXCEPT ![c] = [IdleConsumer EXCEPT !.of = m,
       !.phase = IF message[m].seen # Never THEN "stamp" ELSE "dispatch"]]
  /\ UNCHANGED <<now, repeated, store_vars, record_vars, contact_vars>>

StampSeen(c) ==
  /\ consumer[c].phase = "stamp"
  /\ \E lands \in (IF "stamp" \in Faults THEN BOOLEAN ELSE {TRUE}) :
       /\ lastSeen' = IF lands THEN Stamped(lastSeen, message[Of(c)].seen) ELSE lastSeen
       /\ stampLost' = (stampLost \/ ~lands)
  /\ consumer' = Set(c, "dispatch")
  /\ UNCHANGED <<now, message, repeated, seen, stamps, contact, store_vars, record_vars>>

\* A stamp alone carries no readings by design.
DropEmpty(c) ==
  /\ consumer[c].phase = "dispatch" /\ message[Of(c)].readings = <<>>
  /\ message' = Acked(Of(c))
  /\ consumer' = [consumer EXCEPT ![c] = IdleConsumer]
  /\ UNCHANGED <<now, repeated, store_vars, record_vars, contact_vars>>

\* Mutant of Unmerged: what the object merged is written again.
UnmergedOrNot(c) == consumer[c].phase = "dispatch" /\ message[Of(c)].readings # <<>>

Unmerged(c) == /\ consumer[c].phase = "dispatch" /\ message[Of(c)].readings # <<>>
               /\ ~message[Of(c)].merged
Premerged(c) == /\ consumer[c].phase = "dispatch" /\ message[Of(c)].readings # <<>>
                /\ message[Of(c)].merged

\* The write is answered: acked before anything else is tried. An answer
\* that does not parse leaves the message's own readings, and no endpoint;
\* one that does says whether the owner has set one by now.
WriteAnswered(c, parsed, forward) ==
  LET m == Of(c)
      result == MergeBatch(store, message[m].readings)
  IN /\ Unmerged(c)
     /\ IF parsed THEN TRUE ELSE "answer" \in Faults /\ ~forward
     /\ Merge(m, result)
     /\ message' = Acked(m)
     /\ consumer' = [consumer EXCEPT ![c].phase = "count", ![c].forward = forward,
          ![c].readings = IF parsed THEN result.readings ELSE message[m].readings]
     /\ UNCHANGED <<now, repeated, record_vars, contact_vars>>

\* The object stored it and its answer is lost: it will be written again.
WriteUnheard(c) ==
  /\ "answer" \in Faults /\ Unmerged(c)
  /\ Merge(Of(c), MergeBatch(store, message[Of(c)].readings))
  /\ message' = Retried(Of(c))
  /\ repeated' = repeated \cup {Of(c)}
  /\ consumer' = [consumer EXCEPT ![c] = IdleConsumer]
  /\ UNCHANGED <<now, record_vars, contact_vars>>

\* No answer, or a refusal, on either path.
CallFails(c) ==
  /\ "refused" \in Faults /\ consumer[c].phase = "dispatch" /\ message[Of(c)].readings # <<>>
  /\ message' = Retried(Of(c))
  /\ consumer' = [consumer EXCEPT ![c] = IdleConsumer]
  /\ UNCHANGED <<now, repeated, store_vars, record_vars, contact_vars>>

\* What the object merged itself is only asked where it goes.
EndpointRead(c, parsed, forward) ==
  /\ Premerged(c)
  /\ IF parsed THEN TRUE ELSE "answer" \in Faults /\ ~forward
  /\ message' = Acked(Of(c))
  /\ consumer' = [consumer EXCEPT ![c].phase = "count", ![c].forward = forward,
                                  ![c].readings = message[Of(c)].readings]
  /\ UNCHANGED <<now, repeated, store_vars, record_vars, contact_vars>>

\* A failure of the tail is logged, and the next part goes ahead.
Lands == IF "tail" \in Faults THEN {0, 1} ELSE {1}

CountMessages(c) ==
  /\ consumer[c].phase = "count"
  /\ \E n \in Lands : counted' = [counted EXCEPT ![Of(c)] = @ + n * Len(consumer[c].readings)]
  /\ consumer' = Set(c, "store")
  /\ UNCHANGED <<now, message, repeated, stored, evaluated, store_vars, contact_vars>>

\* Forwarded, which ends it, or kept in the platform's history.
StoreHistory(c) ==
  /\ consumer[c].phase = "store"
  /\ \E n \in Lands : stored' = [stored EXCEPT ![Of(c)] = @ + n * Len(consumer[c].readings)]
  /\ consumer' = IF consumer[c].forward THEN [consumer EXCEPT ![c] = IdleConsumer]
                 ELSE Set(c, "alerts")
  /\ UNCHANGED <<now, message, repeated, counted, evaluated, store_vars, contact_vars>>

CheckAlerts(c) ==
  /\ consumer[c].phase = "alerts"
  /\ \E n \in Lands :
       evaluated' = IF n = 1 THEN evaluated \cup Range(consumer[c].readings) ELSE evaluated
  /\ consumer' = [consumer EXCEPT ![c] = IdleConsumer]
  /\ UNCHANGED <<now, message, repeated, counted, stored, store_vars, contact_vars>>

\* The invocation ends where it stands: what was not acked comes again.
Killed(c) ==
  /\ "killed" \in Faults /\ consumer[c].phase # "idle"
  /\ message' = Retried(Of(c))
  /\ stampLost' = (stampLost \/ consumer[c].phase = "stamp")
  /\ consumer' = [consumer EXCEPT ![c] = IdleConsumer]
  /\ UNCHANGED <<now, repeated, seen, stamps, lastSeen, contact, store_vars, record_vars>>

Consume(c) ==
  \/ \E m \in Messages : Take(c, m)
  \/ StampSeen(c) \/ DropEmpty(c)
  \/ \E parsed, forward \in BOOLEAN : WriteAnswered(c, parsed, forward) \/ EndpointRead(c, parsed, forward)
  \/ WriteUnheard(c) \/ CallFails(c)
  \/ CountMessages(c) \/ StoreHistory(c) \/ CheckAlerts(c)

Next ==
  \/ Tick
  \/ \E dropped \in BOOLEAN : Migrate(dropped)
  \/ \E m \in Messages :
       \/ \E body \in Bodies : ReportHttp(m, body) \/ ReportObject(m, body)
       \/ ContactObject(m)
  \/ ContactHttp
  \/ \E at \in stamps : StampArrives(at)
  \/ \E c \in Consumers : Consume(c) \/ Killed(c)

Spec == Init /\ [][Next]_vars

----------------------------------------------------------------------------
Times == (0 - Backdate)..MaxTime
Origins == (Messages \X (1..MaxReadings)) \cup {Never}
Past == {t \in Int : t <= MaxTime}
Entries == [from : Origins, at : Past]
IsStore(f) == DOMAIN f \subseteq Keys /\ \A k \in DOMAIN f : f[k] \in Entries
IsReading(r) == /\ r.at \in Times /\ r.keys \subseteq Keys /\ IsStore(r.previous)
                /\ r.id \in Messages \X (1..MaxReadings)

\* The variables have their types.
QueueTypeOK ==
  /\ now \in 0..MaxTime /\ stampLost \in BOOLEAN
  /\ IsStore(store)
  /\ legacy \in {Empty, Legacy}
  /\ newest \in [Keys -> Past \cup {Never}]
  /\ \A m \in Messages :
       /\ message[m].state \in {"none", "queued", "taken", "acked", "dead", "lost"}
       /\ message[m].tries \in Nat /\ message[m].merged \in BOOLEAN
       /\ message[m].seen \in Times \cup {Never}
       /\ \A i \in DOMAIN message[m].readings : IsReading(message[m].readings[i])
       /\ counted[m] \in Nat /\ stored[m] \in Nat
  /\ \A c \in Consumers :
       /\ consumer[c].phase \in {"idle", "stamp", "dispatch", "count", "store", "alerts"}
       /\ consumer[c].of \in Messages \cup {Never} /\ consumer[c].forward \in BOOLEAN
       /\ \A i \in DOMAIN consumer[c].readings : IsReading(consumer[c].readings[i])
  /\ seen \in Times \cup {Never} /\ lastSeen \in Times \cup {Never}
  /\ contact \in Times \cup {Never} /\ stamps \subseteq Times
  /\ (\A r \in evaluated : IsReading(r)) /\ merged \subseteq Messages /\ repeated \subseteq Messages

\* "the whole store's contract is that it holds the newest value per key":
\* backdated batches, redeliveries and a migration that runs again leave each
\* key with the newest reading merged since it entered the store, and the
\* store within its cap.
StoreHoldsNewest ==
  /\ Cardinality(DOMAIN store) <= MaxKeys
  /\ \A k \in DOMAIN store : store[k].at = newest[k]

\* A merge never evicts a key it has just delivered, and never takes an
\* entry back in time.
MergeKeepsItsOwn ==
  [][/\ \A m \in merged' \ merged : KeysOf(message'[m].readings) \subseteq DOMAIN store'
     /\ \A k \in DOMAIN store \cap DOMAIN store' : store'[k].at >= store[k].at]_vars

\* Retries record nothing twice: a delivery is acked before its readings are
\* counted, stored and evaluated, so whatever is lost, refused or written once
\* more, each reading is billed and kept at most once, and only once merged.
RecordedOnce ==
  \A m \in Messages :
    /\ counted[m] > 0 \/ stored[m] > 0 => m \in merged
    /\ counted[m] <= Len(message[m].readings) /\ stored[m] <= Len(message[m].readings)

\* A rate of change is judged against what stood before the reading: not the
\* reading itself and not a later one of its batch, unless the write of the
\* delivery was repeated.
NoStepFromItself ==
  \A r \in evaluated : r.id[1] \notin repeated =>
    \A k \in DOMAIN r.previous :
      r.previous[k].from # Never /\ r.previous[k].from[1] = r.id[1] => r.previous[k].from[2] < r.id[2]

Underway == stamps # {} \/ \E m \in Messages : message[m].seen # Never /\ message[m].state \in {"queued", "taken"}

\* A device in steady contact is never judged silent between two stamps: with
\* no stamp lost or under way, in whatever order they came, the mirror shows the
\* object's newest, and the time the sweep credits reaches the last contact,
\* which wrote none.
StampCoversContact ==
  contact # Never /\ ~stampLost /\ ~Underway =>
    /\ lastSeen = seen
    /\ ContactUntil(lastSeen, Never) # Never /\ ContactUntil(lastSeen, Never) >= contact
==============================================================================
