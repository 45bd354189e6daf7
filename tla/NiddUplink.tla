----------------------------- MODULE NiddUplink -----------------------------
(***************************************************************************)
(* One NIDD pigeon's Durable Object: the uplink handler, the copies of one *)
(* device send it has to tell apart, the claim, and the shadow push the    *)
(* pigeon owes its device (dovecote/src/objects/pigeons.rs, nidd_uplink,   *)
(* and dovecote/src/helpers/nidd.rs).                                      *)
(*                                                                         *)
(* The object is single threaded and interleaves only at awaits.  A        *)
(* handler segment between two awaits is one action.  The uplink awaits in *)
(* two places: a copy waiting for the attempt that stores its frame, and   *)
(* the telemetry enqueue.  Each tail (downlink, then bill and mirror) runs *)
(* after the answer, in steps of its own.                                  *)
(***************************************************************************)
EXTENDS Integers, Sequences

CONSTANTS
  Attempts,      \* callback dispatches into the object, each used once
  Requests,      \* ThingSpace request ids, one per carrier delivery
  Frames,        \* the uplink frames, see FrameType
  Lines,         \* the lines (ICCID or IMSI) a callback may name
  NoLine, NoKey, \* no line named; the key of an attempt not yet dispatched
  InitialClaims, \* whether a run starts unclaimed (0) or claimed (1)
  PausedAnswers, \* the free-tier answers the gateway may hand over
  Faults,        \* the failures a run admits, see FaultKinds
  DeliverySecs, PushHold, NoticeHold, SeenHold,  \* the code's windows
  SeenKeys,      \* keys the row remembers
  MaxTime,       \* bound: the clock
  MaxTarget,     \* bound: dashboard writes per pigeon
  MaxKey,        \* bound: claim keys minted by create and refresh
  MaxLives       \* bound: pigeons created under the IMEI

Kinds == {"hello", "telemetry", "log", "report", "fota", "unknown", "badheader"}

(* A frame: val is a hello's key, a report's version, else the send        *)
(* sequence; conf is a report's config; ok says that the body decodes.     *)
FrameType == [kind: Kinds, val: Nat, conf: Nat, ok: BOOLEAN]

FaultKinds ==
  {"refuse",      \* a read or a store fails before anything is written
   "reportRead",  \* a report is written but cannot be read back
   "enqueue",     \* the queue refuses the message
   "ambiguous",   \* the queue takes the message but the send errs
   "reread",      \* the row cannot be read again after the enqueue
   "rowWrite",    \* the row cannot be written
   "shadowRead",  \* the shadow to push cannot be read
   "identity",    \* the connector cannot be read for a downlink
   "send",        \* ThingSpace is unavailable to a downlink
   "unmark",      \* a push that was not sent cannot be marked unsent
   "planPush",    \* a dashboard write cannot read or write the row
   "unclaim",     \* a refresh rotates the key but cannot unclaim
   "delete",      \* a delete stops after its first statements
   "reset"}       \* the object is reset, losing what it held in memory

ASSUME FramesAssumption == Frames \subseteq FrameType
ASSUME FaultsAssumption == Faults \subseteq FaultKinds
ASSUME PausedAssumption == PausedAnswers \subseteq BOOLEAN
ASSUME ClaimsAssumption == InitialClaims \subseteq {0, 1}
ASSUME WindowsAssumption ==
  /\ {DeliverySecs, PushHold, NoticeHold, SeenHold, MaxTime} \subseteq Nat
  /\ {MaxTarget, MaxKey, MaxLives} \subseteq Nat
  /\ SeenKeys \in Nat \ {0}
  /\ NoticeHold <= MaxTime

(* One delivery of one frame: dedupe_key, a request id and a frame digest. *)
Keys == [request: Requests, frame: Frames]
ASSUME NoneAssumption == NoKey \notin Keys /\ NoLine \notin Lines

VARIABLES
  pigeon,    \* the pigeons and pigeon_shadow rows
  row,       \* the pigeon_nidd row; the default when there is none
  contact,   \* the pigeon_seen row: the life whose device was seen, and when
  inFlight,  \* NiddInFlight: the keys being stored, each with its waiters
  att,       \* the dispatched attempts
  tails,     \* the spawned tails still to run
  now,       \* the clock
  applied,   \* external: the shadow versions that reached the device
  stored,    \* history: how often each frame was enqueued or kept
  lapses,    \* history: how often the record of a stored frame was lost
  sent       \* history: the shadow pushes ThingSpace answered

vars == <<pigeon, row, contact, inFlight, att, tails, now, applied,
          stored, lapses, sent>>

-----------------------------------------------------------------------------
(* The state's shape.                                                      *)

Versions == 0..MaxTarget
Times == 0..MaxTime

DefaultRow == [claimed |-> 0, line |-> NoLine, awaiting |-> 0,
               pushedVersion |-> 0, pushedAt |-> 0, noticeAt |-> 0,
               seen |-> <<>>]
NoContact == [life |-> 0, at |-> 0]
NoPigeon(p) == [p EXCEPT !.exists = FALSE, !.owned = FALSE,
                         !.target = 0, !.current = 0, !.conf = 0]
NoDownlink == [kind |-> "none", version |-> 0, at |-> 0]
NoReport == -1

Outcomes == {"none", "claimed", "unclaimed", "rejected", "paused", "repeat",
             "stored", "duplicate", "answered", "badrequest", "notfound",
             "failed", "lost"}

(* claimed holds the key that was proved, the code's claimed_at a time.    *)
RowType == [claimed: Nat, line: Lines \cup {NoLine}, awaiting: Nat,
            pushedVersion: Nat, pushedAt: Times, noticeAt: Times,
            seen: Seq([key: Keys, settled: BOOLEAN])]
PigeonType == [exists: BOOLEAN, owned: BOOLEAN, life: Nat, key: Nat,
               target: Versions, current: Nat, conf: Nat]
AttemptType == [pc: {"idle", "arrived", "waiting", "woken", "enqueuing", "done"},
                key: Keys \cup {NoKey}, line: Lines \cup {NoLine},
                paused: BOOLEAN,
                verdict: {"none", "same", "elsewhere", "failed"},
                began: Times, life: Nat, onLine: BOOLEAN, outcome: Outcomes]
DownlinkType == [kind: {"none", "shadow", "status", "chunk"},
                 version: Nat, at: Times]
TailType == [from: Attempts \cup {"dashboard"}, life: Nat,
             downlink: DownlinkType, report: Int]

IdleAttempt == [pc |-> "idle", key |-> NoKey, line |-> NoLine, paused |-> FALSE,
                verdict |-> "none", began |-> 0, life |-> 0, onLine |-> FALSE,
                outcome |-> "none"]

(* Every variable has its shape: pigeon_nidd and the shadow hold what      *)
(* their columns may, and an attempt is in one of the handler's places.    *)
TypeOK ==
  /\ pigeon \in PigeonType
  /\ row \in RowType
  /\ contact \in [life: Nat, at: Times]
  /\ DOMAIN inFlight \subseteq Keys
  /\ inFlight \in [DOMAIN inFlight -> SUBSET Attempts]
  /\ att \in [Attempts -> AttemptType]
  /\ tails \subseteq TailType
  /\ now \in Times
  /\ applied \subseteq Nat
  /\ stored \in [Frames -> Nat]
  /\ lapses \in [Frames -> Nat]
  /\ sent \subseteq [life: Nat, version: Nat]

(* A pigeon as created, or one whose device claimed it long ago.           *)
Init ==
  /\ pigeon = [exists |-> TRUE, owned |-> TRUE, life |-> 1, key |-> 1,
               target |-> 0, current |-> 0, conf |-> 0]
  /\ \E claim \in InitialClaims:
       /\ row = [DefaultRow EXCEPT !.claimed = claim]
       /\ contact = [life |-> claim, at |-> 0]
  /\ inFlight = <<>>
  /\ att = [a \in Attempts |-> IdleAttempt]
  /\ tails = {}
  /\ now = NoticeHold
  /\ applied = {0}
  /\ stored = [f \in Frames |-> 0]
  /\ lapses = [f \in Frames |-> 0]
  /\ sent = {}

-----------------------------------------------------------------------------
(* NiddRow: what the row answers and records.                              *)

Entries(r) == {r.seen[i] : i \in DOMAIN r.seen}

HasSeen(r, key) == \E e \in Entries(r): e.key = key

Settled(r, frame) == \E e \in Entries(r): e.settled /\ e.key.frame = frame

Remember(r, key, settled) ==
  LET grown == Append(r.seen, [key |-> key, settled |-> settled])
  IN [r EXCEPT !.seen = IF Len(grown) > SeenKeys
                        THEN SubSeq(grown, Len(grown) - SeenKeys + 1, Len(grown))
                        ELSE grown]

Awaiting(p) == IF p.target > p.current THEN p.target ELSE 0

NoticeDue(r) == now - r.noticeAt >= NoticeHold

PushDue(r) ==
  /\ r.claimed # 0
  /\ r.awaiting # 0
  /\ r.pushedVersion < r.awaiting
  /\ now - r.pushedAt >= PushHold

ReplyDue(r, t) ==
  /\ r.claimed # 0
  /\ r.awaiting # 0
  /\ r.pushedVersion < r.awaiting \/ t - r.pushedAt > DeliverySecs

-----------------------------------------------------------------------------
(* Plans: the row as it will be written, and the downlink for the tail.    *)

Keep(r) == [row |-> r, downlink |-> NoDownlink]

Fault(kind, plans) == IF kind \in Faults THEN plans ELSE {}

(* Mutant of ShadowPush: what is pushed is taken as no longer owed.        *)
ShadowPushSettles(r, p, t) ==
  {[row |-> [r EXCEPT !.awaiting = 0, !.pushedVersion = p.target,
                      !.pushedAt = t],
    downlink |-> [kind |-> "shadow", version |-> p.target, at |-> t]]}
  \cup Fault("shadowRead", {Keep(r)})

(* plan_shadow_push of p's shadow at handler time t: planned, or the       *)
(* shadow not read.                                                        *)
ShadowPush(r, p, t) ==
  {[row |-> [r EXCEPT !.awaiting = Awaiting(p), !.pushedVersion = p.target,
                      !.pushedAt = t],
    downlink |-> [kind |-> "shadow", version |-> p.target, at |-> t]]}
  \cup Fault("shadowRead", {Keep(r)})

(* Mutant of Notice: the stamp is the next time the hint is due.           *)
NoticeAhead(r) ==
  IF NoticeDue(r)
  THEN [row |-> [r EXCEPT !.noticeAt = now + NoticeHold],
        downlink |-> [kind |-> "status", version |-> 0, at |-> now]]
  ELSE Keep(r)

Notice(r) ==
  IF NoticeDue(r)
  THEN [row |-> [r EXCEPT !.noticeAt = now],
        downlink |-> [kind |-> "status", version |-> 0, at |-> now]]
  ELSE Keep(r)

(* The owed shadow, when the device awake behind this uplink is due it.    *)
Reply(r, t) ==
  IF ReplyDue(r, t) THEN ShadowPush(r, pigeon, t) ELSE {Keep(r)}

(* Mutant of Withheld: the push is dropped, but stays recorded as sent.    *)
WithheldAsSent(plan) == [row |-> plan.row, downlink |-> NoDownlink]

(* A downlink whose connector cannot be read is dropped, and a push is     *)
(* marked unsent, so that the next uplink carries it.                      *)
Withheld(plan) ==
  [row |-> IF plan.downlink.kind = "shadow"
           THEN [plan.row EXCEPT !.pushedVersion = 0, !.pushedAt = 0]
           ELSE plan.row,
   downlink |-> NoDownlink]

Deliverable(plans) ==
  plans \cup Fault("identity", {Withheld(p) : p \in plans})

-----------------------------------------------------------------------------
(* The handler's ways in and out.                                          *)

Frame(a) == att[a].key.frame
Kind(a) == Frame(a).kind

(* Mutant of Holders: no copy waits for the attempt storing its frame.     *)
HoldersNone(frame) == {k \in DOMAIN inFlight : FALSE}

Holders(frame) == {k \in DOMAIN inFlight : k.frame = frame}

(* Past the wait loop, with nothing awaited since.                         *)
Judging(a) ==
  \/ /\ \/ att[a].pc = "arrived"
        \/ att[a].pc = "woken" /\ att[a].verdict = "failed"
     /\ Holders(Frame(a)) = {}
  \/ att[a].pc = "woken" /\ att[a].verdict = "elsewhere"

Judged(a) == Judging(a) /\ ~HasSeen(row, att[a].key)

DecidedElsewhere(a) == att[a].verdict = "elsewhere"

OnClaimedLine(a) ==
  /\ row.claimed # 0
  /\ row.line = NoLine \/ row.line = att[a].line

(* Only a claimed row, or a hello to an existing pigeon, gets past the     *)
(* identity read.                                                          *)
Admitted(a) ==
  Judged(a) /\ ((row.claimed = 0 \/ Kind(a) = "hello") => pigeon.exists)

Answered(base, a, outcome) ==
  [base EXCEPT ![a] = [@ EXCEPT !.pc = "done", !.outcome = outcome,
                                !.verdict = "none", !.began = 0, !.life = 0,
                                !.onLine = FALSE, !.paused = FALSE,
                                !.line = NoLine]]

(* stamp_contact, throttled.  The stamp itself is only a time; life is     *)
(* the pigeon the attempt proved its device to.                            *)
StampContact(isContact, life) ==
  contact' =
    IF isContact /\ (contact = NoContact \/ now >= contact.at + SeenHold)
    THEN [life |-> life, at |-> now]
    ELSE contact

(* The pigeon an attempt was judged against: the present one, unless it    *)
(* has awaited since.                                                      *)
LifeOf(a) == IF att[a].pc = "enqueuing" THEN att[a].life ELSE pigeon.life

Spawn(from, downlink, report) ==
  IF downlink = NoDownlink /\ report = NoReport THEN {}
  ELSE {[from |-> from, life |-> pigeon.life,
         downlink |-> downlink, report |-> report]}

(* History: a store that leaves no settled key, or a step that forgets the  *)
(* last one, whether by the window, a delete or a write that failed.       *)
NoteLapses ==
  lapses' = [f \in Frames |->
    IF (Settled(row, f) \/ stored'[f] # stored[f]) /\ ~Settled(row', f)
    THEN lapses[f] + 1 ELSE lapses[f]]

(* finish_nidd_uplink over the attempts as base leaves them: one write of  *)
(* the row, then the answer, the tail and the contact stamp.  A write that *)
(* fails answers 500, except after a store.                                *)
Finish(base, a, plan, outcome, isContact, report) ==
  LET recorded == IF Kind(a) = "fota" THEN plan.row
                  ELSE Remember(plan.row, att[a].key, outcome # "unclaimed")
      Complete == /\ att' = Answered(base, a, outcome)
                  /\ tails' = tails \cup Spawn(a, plan.downlink, report)
                  /\ StampContact(isContact, LifeOf(a))
  IN \/ row' = recorded /\ Complete
     \/ /\ "rowWrite" \in Faults
        /\ row' = row
        /\ IF outcome = "stored" THEN Complete
           ELSE /\ att' = Answered(base, a, "failed")
                /\ UNCHANGED <<tails, contact>>

(* What a handler leaves alone.                                           *)
Outside == <<now, applied, sent>>

-----------------------------------------------------------------------------
(* The uplink, one action per segment between awaits and per answer.       *)

(* The gateway hands the object one callback: a fresh delivery, a retry or *)
(* a resend.  Only ingest frames meet the fuse.  A device reports versions *)
(* that reached it and presents keys that were minted.                     *)
Arrive(a) ==
  /\ att[a].pc = "idle"
  /\ \E key \in Keys, line \in Lines \cup {NoLine}, paused \in PausedAnswers:
       /\ paused => key.frame.kind \in {"telemetry", "report", "log"}
       /\ key.frame.kind = "report" => key.frame.val \in applied
       /\ key.frame.kind = "hello" => key.frame.val <= pigeon.key
       /\ att' = [att EXCEPT ![a] = [IdleAttempt EXCEPT
                    !.pc = "arrived", !.key = key, !.line = line,
                    !.paused = paused]]
  /\ UNCHANGED <<pigeon, row, contact, inFlight, tails, stored, lapses, Outside>>

(* The wait loop: an attempt is storing this frame, under any request id.  *)
Wait(a) ==
  /\ \/ att[a].pc = "arrived"
     \/ att[a].pc = "woken" /\ att[a].verdict = "failed"
  /\ \E held \in Holders(Frame(a)):
       inFlight' = [inFlight EXCEPT ![held] = @ \cup {a}]
  /\ att' = [att EXCEPT ![a] = [@ EXCEPT !.pc = "waiting", !.verdict = "none"]]
  /\ UNCHANGED <<pigeon, row, contact, tails, stored, lapses, Outside>>

(* An answer that records nothing.                                         *)
Dismiss(a, outcome) ==
  /\ att' = Answered(att, a, outcome)
  /\ UNCHANGED <<pigeon, row, contact, inFlight, tails, stored, lapses, Outside>>

AnswerDuplicate(a) ==
  /\ \/ att[a].pc = "woken" /\ att[a].verdict = "same"
     \/ Judging(a) /\ HasSeen(row, att[a].key)
  /\ Dismiss(a, "duplicate")

AnswerNotFound(a) ==
  /\ Judged(a)
  /\ row.claimed = 0 \/ Kind(a) = "hello"
  /\ ~pigeon.exists
  /\ Dismiss(a, "notfound")

AnswerBadHeader(a) ==
  /\ Admitted(a)
  /\ Kind(a) = "badheader"
  /\ Dismiss(a, "badrequest")

(* A read, a merge or a store fails: a 5xx, with nothing remembered.       *)
Refuse(a) ==
  /\ "refuse" \in Faults
  /\ Judging(a)
  /\ Dismiss(a, "failed")

(* An outcome reached with no await, that stores nothing.                  *)
FinishAtOnce(a, plan, outcome, isContact) ==
  /\ Finish(att, a, plan, outcome, isContact, NoReport)
  /\ UNCHANGED <<pigeon, inFlight, stored, Outside>>
  /\ NoteLapses

(* An unknown type, or a hello that is not a key.                          *)
RejectUnread(a) ==
  /\ Admitted(a)
  /\ Kind(a) = "unknown" \/ (Kind(a) = "hello" /\ ~Frame(a).ok)
  /\ FinishAtOnce(a, Keep(row), "rejected", OnClaimedLine(a))

Claim(a) ==
  /\ Admitted(a)
  /\ Kind(a) = "hello" /\ Frame(a).ok /\ Frame(a).val = pigeon.key
  /\ LET claimed == [row EXCEPT !.claimed = Frame(a).val, !.line = att[a].line]
     IN \E plan \in ShadowPush(claimed, pigeon, now):
          FinishAtOnce(a, plan, "claimed", TRUE)

ClaimRefused(a) ==
  /\ Admitted(a)
  /\ Kind(a) = "hello" /\ Frame(a).ok /\ Frame(a).val # pigeon.key
  /\ FinishAtOnce(a, Notice(row), "unclaimed", FALSE)

(* The frame of a device that has not claimed the pigeon on this line.     *)
Unclaimed(a) ==
  /\ Admitted(a)
  /\ Kind(a) \in {"telemetry", "log", "report", "fota"} /\ ~OnClaimedLine(a)
  /\ \E plan \in IF row.claimed = 0 THEN {Notice(row)}
                 ELSE Deliverable({Notice(row)}):
       FinishAtOnce(a, plan, "unclaimed", FALSE)

OnLine(a, kinds) == Judged(a) /\ Kind(a) \in kinds /\ OnClaimedLine(a)

(* A FOTA request is answered from the target's image: chunks or a refusal *)
(* to send any, or nothing for a request or target that cannot be read.    *)
AnswerFota(a) ==
  /\ OnLine(a, {"fota"})
  /\ \E kind \in IF Frame(a).ok THEN {"none", "chunk", "status"} ELSE {"none"}:
       LET reply == [kind |-> kind, version |-> 0,
                     at |-> IF kind = "none" THEN 0 ELSE now]
       IN \E plan \in Deliverable({[row |-> row, downlink |-> reply]}):
            FinishAtOnce(a, plan, "answered", TRUE)

(* One reply per uplink: the paused notice when due, else the owed shadow. *)
Paused(a) ==
  /\ OnLine(a, {"telemetry", "log", "report"}) /\ att[a].paused
  /\ \E plan \in Deliverable(IF NoticeDue(row) THEN {Notice(row)}
                             ELSE Reply(row, now)):
       FinishAtOnce(a, plan, "paused", TRUE)

Fresh(a, kinds) == OnLine(a, kinds) /\ ~att[a].paused

(* A frame recognised by its digest alone.                                 *)
IsRepeat(a) == DecidedElsewhere(a) \/ Settled(row, Frame(a))

(* Mutant of Repeat: the copy is answered as one that was stored.          *)
RepeatAsStored(a) ==
  /\ Fresh(a, {"telemetry", "log"}) /\ IsRepeat(a)
  /\ \E plan \in Deliverable(Reply(row, now)):
       FinishAtOnce(a, plan, "stored", TRUE)

Repeat(a) ==
  /\ Fresh(a, {"telemetry", "log"}) /\ IsRepeat(a)
  /\ \E plan \in Deliverable(Reply(row, now)):
       FinishAtOnce(a, plan, "repeat", TRUE)

(* A body that does not decode, or breaks a rule, is refused for good.     *)
RejectBody(a) ==
  /\ Fresh(a, {"telemetry", "log", "report"}) /\ ~Frame(a).ok
  /\ Kind(a) # "report" => ~IsRepeat(a)
  /\ \E plan \in IF Kind(a) = "report" THEN {Keep(row)}
                 ELSE Deliverable(Reply(row, now)):
       FinishAtOnce(a, plan, "rejected", TRUE)

StoreLog(a) ==
  /\ Fresh(a, {"log"}) /\ Frame(a).ok /\ ~IsRepeat(a)
  /\ stored' = [stored EXCEPT ![Frame(a)] = @ + 1]
  /\ \E plan \in Deliverable(Reply(row, now)):
       Finish(att, a, plan, "stored", TRUE, NoReport)
  /\ UNCHANGED <<pigeon, inFlight, Outside>>
  /\ NoteLapses

(* The frame is claimed in memory, merged, and its enqueue awaited.        *)
StartTelemetry(a) ==
  /\ Fresh(a, {"telemetry"}) /\ Frame(a).ok /\ ~IsRepeat(a)
  /\ inFlight' = [k \in DOMAIN inFlight \cup {att[a].key} |->
                    IF k = att[a].key THEN {} ELSE inFlight[k]]
  /\ att' = [att EXCEPT ![a] = [@ EXCEPT !.pc = "enqueuing", !.verdict = "none",
                                         !.began = now, !.life = pigeon.life,
                                         !.onLine = OnClaimedLine(a)]]
  /\ UNCHANGED <<pigeon, row, contact, tails, stored, lapses, Outside>>

(* settle: the claim is dropped and every copy waiting on it is told.      *)
Waiters(key) == IF key \in DOMAIN inFlight THEN inFlight[key] ELSE {}

(* Mutant of Settle: the way out after a store tells nobody.               *)
SettleFailures(a, decided) ==
  [b \in Attempts |->
     IF b \in Waiters(att[a].key) /\ ~decided
     THEN [att[b] EXCEPT !.pc = "woken", !.verdict = "failed"]
     ELSE att[b]]

Settle(a, decided) ==
  [b \in Attempts |->
     IF b \in Waiters(att[a].key)
     THEN [att[b] EXCEPT !.pc = "woken",
             !.verdict = IF ~decided THEN "failed"
                         ELSE IF att[b].key = att[a].key THEN "same"
                         ELSE "elsewhere"]
     ELSE att[b]]

(* Mutant of Release: an early return that never settles its attempt.      *)
ReleaseForgotten(a) == inFlight' = inFlight

Release(a) ==
  inFlight' = [k \in DOMAIN inFlight \ {att[a].key} |-> inFlight[k]]

(* Mutant of EnqueueFailed: a failed attempt settles as decided.           *)
EnqueueFailedDecided(a) ==
  /\ att[a].pc = "enqueuing"
  /\ \/ "enqueue" \in Faults /\ stored' = stored
     \/ "ambiguous" \in Faults /\ stored' = [stored EXCEPT ![Frame(a)] = @ + 1]
  /\ Release(a)
  /\ att' = Answered(Settle(a, TRUE), a, "failed")
  /\ UNCHANGED <<pigeon, row, contact, tails, Outside>>
  /\ NoteLapses

(* The queue refused the message, or took it and still answered an error.  *)
EnqueueFailed(a) ==
  /\ att[a].pc = "enqueuing"
  /\ \/ "enqueue" \in Faults /\ stored' = stored
     \/ "ambiguous" \in Faults /\ stored' = [stored EXCEPT ![Frame(a)] = @ + 1]
  /\ Release(a)
  /\ att' = Answered(Settle(a, FALSE), a, "failed")
  /\ UNCHANGED <<pigeon, row, contact, tails, Outside>>
  /\ NoteLapses

(* The enqueue landed.  The row is read again, since it may have moved,    *)
(* while the handler's clock and claim check are those of before.          *)
EnqueueDone(a) ==
  /\ att[a].pc = "enqueuing"
  /\ stored' = [stored EXCEPT ![Frame(a)] = @ + 1]
  /\ Release(a)
  /\ \/ \E plan \in Deliverable(Reply(row, att[a].began)):
          Finish(Settle(a, TRUE), a, plan, "stored", att[a].onLine, NoReport)
     \/ /\ "reread" \in Faults
        /\ att' = Answered(Settle(a, TRUE), a, "stored")
        /\ StampContact(TRUE, LifeOf(a))
        /\ UNCHANGED <<row, tails>>
  /\ UNCHANGED <<pigeon, Outside>>
  /\ NoteLapses

(* A shadow report: written unless it repeats what is stored, and always   *)
(* answered, with the shadow while behind and else with its version.       *)
Reported(a) == [pigeon EXCEPT !.current = Frame(a).val, !.conf = Frame(a).conf]

ReportReply(a, p) ==
  LET owed == [row EXCEPT !.awaiting = Awaiting(p)]
  IN IF p.target > p.current THEN ShadowPush(owed, p, now)
     ELSE {[row |-> owed,
            downlink |-> [kind |-> "status", version |-> p.current, at |-> now]]}

StoreReport(a) ==
  /\ Fresh(a, {"report"}) /\ Frame(a).ok /\ Reported(a) # pigeon
  /\ pigeon' = Reported(a)
  /\ \E plan \in Deliverable(ReportReply(a, Reported(a))):
       Finish(att, a, plan, "stored", TRUE, Frame(a).val)
  /\ stored' = [stored EXCEPT ![Frame(a)] = @ + 1]
  /\ UNCHANGED <<inFlight, Outside>>
  /\ NoteLapses

RepeatReport(a) ==
  /\ Fresh(a, {"report"}) /\ Frame(a).ok /\ Reported(a) = pigeon
  /\ \E plan \in Deliverable(ReportReply(a, pigeon)):
       FinishAtOnce(a, plan, "repeat", TRUE)

(* The report is written, but reading it back fails: 503.                  *)
StoreReportUnread(a) ==
  /\ "reportRead" \in Faults
  /\ Fresh(a, {"report"}) /\ Frame(a).ok /\ Reported(a) # pigeon
  /\ pigeon' = Reported(a)
  /\ att' = Answered(att, a, "failed")
  /\ UNCHANGED <<row, contact, inFlight, tails, stored, lapses, Outside>>

Uplink(a) ==
  \/ Wait(a) \/ AnswerDuplicate(a) \/ AnswerNotFound(a) \/ AnswerBadHeader(a)
  \/ Refuse(a) \/ RejectUnread(a) \/ Claim(a) \/ ClaimRefused(a)
  \/ Unclaimed(a) \/ AnswerFota(a) \/ Paused(a) \/ Repeat(a) \/ RejectBody(a)
  \/ StoreLog(a) \/ StartTelemetry(a) \/ EnqueueFailed(a) \/ EnqueueDone(a)
  \/ StoreReport(a) \/ RepeatReport(a) \/ StoreReportUnread(a)
-----------------------------------------------------------------------------
(* The tails.                                                              *)

EndStep(tail) ==
  (tails \ {tail}) \cup
    IF tail.report = NoReport THEN {} ELSE {[tail EXCEPT !.downlink = NoDownlink]}

(* A downlink ThingSpace accepted, which may still miss the device, or     *)
(* refused for good: a push is left as sent either way.                    *)
SendAnswered(tail) ==
  /\ tail.downlink # NoDownlink
  /\ tails' = EndStep(tail)
  /\ IF tail.downlink.kind = "shadow"
     THEN /\ sent' = sent \cup {[life |-> tail.life, version |-> tail.downlink.version]}
          /\ \/ applied' = applied \cup {tail.downlink.version}
             \/ applied' = applied
     ELSE UNCHANGED <<sent, applied>>
  /\ UNCHANGED <<pigeon, row, contact, inFlight, att, now, stored, lapses>>

(* ThingSpace was never reached: a push is marked unsent, unless a newer   *)
(* one was planned meanwhile or the row cannot be written.                 *)
SendUnavailable(tail) ==
  /\ "send" \in Faults
  /\ tail.downlink # NoDownlink
  /\ tails' = EndStep(tail)
  /\ LET marked == IF /\ tail.downlink.kind = "shadow"
                      /\ row.pushedVersion = tail.downlink.version
                      /\ row.pushedAt = tail.downlink.at
                   THEN [row EXCEPT !.pushedVersion = 0, !.pushedAt = 0]
                   ELSE row
     IN row' \in {marked} \cup Fault("unmark", {row})
  /\ UNCHANGED <<pigeon, contact, inFlight, att, stored, lapses, Outside>>

(* The bill and the Postgres mirror of a stored report, best effort.       *)
SyncReport(tail) ==
  /\ tail.downlink = NoDownlink
  /\ tails' = tails \ {tail}
  /\ UNCHANGED <<pigeon, row, contact, inFlight, att, stored, lapses, Outside>>

RunTail ==
  \E tail \in tails:
    SendAnswered(tail) \/ SendUnavailable(tail) \/ SyncReport(tail)

-----------------------------------------------------------------------------
(* The rest of the object, as far as it touches this state.                *)

(* A dashboard write; the version moves only when the config does.  The    *)
(* new target is recorded as owed, and pushed when a push is due.  The     *)
(* owner was checked before an await, and may be gone.                     *)
UpdateShadow ==
  /\ pigeon.exists
  /\ \E changed \in BOOLEAN:
       LET p == IF changed THEN [pigeon EXCEPT !.target = @ + 1] ELSE pigeon
           owed == IF Awaiting(p) > row.awaiting
                   THEN [row EXCEPT !.awaiting = Awaiting(p)] ELSE row
       IN /\ p.target <= MaxTarget
          /\ pigeon' = p
          /\ \/ IF PushDue(owed)
                THEN /\ row' = [owed EXCEPT !.pushedVersion = p.target,
                                            !.pushedAt = now]
                     /\ tails' = tails \cup
                          Spawn("dashboard",
                                [kind |-> "shadow", version |-> p.target, at |-> now],
                                NoReport)
                ELSE row' = owed /\ UNCHANGED tails
             \/ /\ "planPush" \in Faults
                /\ UNCHANGED <<row, tails>>
  /\ UNCHANGED <<contact, inFlight, att, now, applied, stored, lapses, sent>>

(* A delivery report says that a downlink missed the device.               *)
Missed ==
  /\ row.awaiting # 0
  /\ row' = [row EXCEPT !.pushedVersion = 0]
  /\ UNCHANGED <<pigeon, contact, inFlight, att, tails, stored, lapses, Outside>>

(* The device reports over another surface of the object, HTTPS or the     *)
(* WebSocket, which leaves the NIDD row alone.                             *)
ReportElsewhere ==
  /\ pigeon.exists
  /\ \E f \in Frames:
       /\ f.kind = "report" /\ f.val \in applied
       /\ pigeon' = [pigeon EXCEPT !.current = f.val, !.conf = f.conf]
  /\ UNCHANGED <<row, contact, inFlight, att, tails, stored, lapses, Outside>>

(* Mutant of RefreshToken: the old claim outlives its key.                 *)
RefreshTokenKeepsClaim ==
  /\ pigeon.exists /\ pigeon.owned /\ pigeon.key < MaxKey
  /\ pigeon' = [pigeon EXCEPT !.key = @ + 1]
  /\ UNCHANGED <<row, contact, inFlight, att, tails, stored, lapses, Outside>>

(* refresh_token: a new claim key, then, in a second statement, the claim. *)
RefreshToken ==
  /\ pigeon.exists /\ pigeon.owned /\ pigeon.key < MaxKey
  /\ pigeon' = [pigeon EXCEPT !.key = @ + 1]
  /\ \/ row' = [row EXCEPT !.claimed = 0, !.line = NoLine]
     \/ "unclaim" \in Faults /\ row' = row
  /\ UNCHANGED <<contact, inFlight, att, tails, stored, lapses, Outside>>

(* Mutant of Delete: the NIDD row is left behind.                          *)
DeleteKeepsRow ==
  /\ pigeon.exists /\ pigeon.owned
  /\ pigeon' = NoPigeon(pigeon)
  /\ contact' = NoContact
  /\ UNCHANGED <<row, inFlight, att, tails, stored, lapses, Outside>>

(* delete: the ACL, the device's tables, then the pigeon and its shadow.   *)
Delete ==
  /\ pigeon.exists /\ pigeon.owned
  /\ \/ /\ pigeon' = NoPigeon(pigeon)
        /\ row' = DefaultRow
        /\ contact' = NoContact
     \/ /\ "delete" \in Faults
        /\ pigeon' = [pigeon EXCEPT !.owned = FALSE]
        /\ \/ row' = row /\ contact' = contact
           \/ row' = DefaultRow /\ contact' \in {contact, NoContact}
  /\ UNCHANGED <<inFlight, att, tails, stored, Outside>>
  /\ NoteLapses

(* create under the same IMEI reuses the object and mints a new key.       *)
Create ==
  /\ ~pigeon.exists /\ pigeon.life < MaxLives /\ pigeon.key < MaxKey
  /\ pigeon' = [pigeon EXCEPT !.exists = TRUE, !.owned = TRUE,
                              !.life = @ + 1, !.key = @ + 1]
  /\ UNCHANGED <<row, contact, inFlight, att, tails, stored, lapses, Outside>>

(* The object is reset: what it held in memory is gone.  An enqueue then   *)
(* under way may have landed.                                              *)
Reset ==
  /\ "reset" \in Faults
  /\ \E a \in Attempts: att[a].pc \notin {"idle", "done"}
  /\ \E landed \in SUBSET {a \in Attempts : att[a].pc = "enqueuing"}:
       stored' = [f \in Frames |->
                    IF \E a \in landed: Frame(a) = f THEN stored[f] + 1
                    ELSE stored[f]]
  /\ att' = [a \in Attempts |-> IF att[a].pc \in {"idle", "done"} THEN att[a]
                                ELSE Answered(att, a, "lost")[a]]
  /\ inFlight' = <<>>
  /\ tails' = {}
  /\ UNCHANGED <<pigeon, row, contact, Outside>>
  /\ NoteLapses

Tick ==
  /\ now < MaxTime
  /\ now' = now + 1
  /\ UNCHANGED <<pigeon, row, contact, inFlight, att, tails, applied, stored,
                 lapses, sent>>

Next ==
  \/ \E a \in Attempts: Arrive(a) \/ Uplink(a)
  \/ RunTail
  \/ UpdateShadow \/ RefreshToken \/ Delete \/ Create
  \/ Missed \/ ReportElsewhere \/ Reset \/ Tick

Spec == Init /\ [][Next]_vars

(* The runtime resumes every handler whose await is over, and every await  *)
(* of the queue and of ThingSpace ends; nothing obliges callers to act.    *)
Fairness == /\ \A a \in Attempts: WF_vars(Uplink(a))
            /\ WF_vars(RunTail)

FairSpec == Spec /\ Fairness
-----------------------------------------------------------------------------
(* What ThingSpace sees of the readings and logs, in the terms of          *)
(* UplinkIngest.                                                           *)

Counted == {f \in Frames : f.kind \in {"telemetry", "log"}}

Carried(a) ==
  IF att[a].pc # "idle" /\ Frame(a) \in Counted THEN {Frame(a)} ELSE {}

VerdictOf(outcome) ==
  IF outcome = "none" THEN "none"
  ELSE IF outcome = "stored" THEN "ingested"
  ELSE IF outcome \in {"duplicate", "repeat"} THEN "known"
  ELSE IF outcome \in {"paused", "unclaimed", "rejected"} THEN "judged"
  ELSE "again"

Told(a) == IF Carried(a) = {} THEN "none" ELSE VerdictOf(att[a].outcome)

Carries == [a \in Attempts |-> Carried(a)]
Verdicts == [a \in Attempts |-> Told(a)]
Ingested == [f \in Counted |-> stored[f]]
Forgotten == [f \in Counted |-> lapses[f]]

Ingest == INSTANCE UplinkIngest WITH
  Callbacks <- Attempts, Sends <- Counted, carries <- Carries,
  verdict <- Verdicts, ingested <- Ingested, forgotten <- Forgotten

-----------------------------------------------------------------------------
(* Safety.                                                                 *)

(* The key window, the memory of what is being stored, the wait loop and   *)
(* the early returns together keep the promise of UplinkIngest: nothing is *)
(* ingested twice while its record stands, and nothing is acknowledged as  *)
(* known that was neither ingested nor judged.                             *)
ImplementsIngest == Ingest!Spec

(* A claimed row implies a live pigeon, which nidd_uplink relies on to     *)
(* skip the identity read, although delete, create, refresh and an uplink  *)
(* that awaits its enqueue all write the row in an order of their own.     *)
ClaimedImpliesLive == row.claimed # 0 => pigeon.exists

(* A claim stands only while the key it proved is the pigeon's: a refresh  *)
(* or a recreate during an enqueue must not leave or bring back a claim    *)
(* made with the old key.                                                  *)
ClaimMatchesKey == row.claimed # 0 => row.claimed = pigeon.key

(* What NiddInFlight promises: a frame is held under one key, by the one   *)
(* attempt awaiting its enqueue, and the copies waiting on it are exactly  *)
(* the attempts of that frame the object holds back.                       *)
InFlightHeld ==
  /\ \A j, k \in DOMAIN inFlight: j.frame = k.frame => j = k
  /\ \A k \in DOMAIN inFlight:
       \E a \in Attempts: att[a].pc = "enqueuing" /\ att[a].key = k
  /\ \A a \in Attempts:
       att[a].pc = "enqueuing" =>
         /\ att[a].key \in DOMAIN inFlight
         /\ \A b \in Attempts: att[b].pc = "enqueuing" /\ Frame(b) = Frame(a)
                                 => a = b
  /\ \A a \in Attempts:
       att[a].pc = "waiting" <=> \E k \in DOMAIN inFlight: a \in inFlight[k]
  /\ \A k \in DOMAIN inFlight: \A a \in inFlight[k]: Frame(a) = k.frame

(* However the copies of a telemetry or log frame interleave with the      *)
(* enqueue, and whatever fails, the frame is stored again only after the   *)
(* record of having stored it was lost.                                    *)
StoredOncePerLapse ==
  \A f \in Frames: f.kind \in {"telemetry", "log"} => stored[f] <= lapses[f] + 1

(* A copy turned away as a duplicate or a repeat was judged before: its    *)
(* frame is stored, or a copy was refused while paused, or this very       *)
(* delivery was dropped as unclaimed.  Otherwise a reading is lost with an *)
(* acknowledgement.                                                        *)
TurnedAwayWasJudged ==
  \A a \in Attempts:
    /\ att[a].outcome \in {"duplicate", "repeat"}
    /\ Kind(a) \in {"telemetry", "log"} /\ Frame(a).ok
    => \/ stored[Frame(a)] > 0
       \/ \E b \in Attempts:
            \/ att[b].outcome = "paused" /\ Frame(b) = Frame(a)
            \/ /\ att[b].outcome = "unclaimed" /\ att[b].key = att[a].key
               /\ att[a].outcome = "duplicate"

(* The claimed device's unconfirmed target is recorded as owed.  Only a    *)
(* report of an older version over another surface, which leaves the NIDD  *)
(* row alone, loses track of it: neither an uplink interleaved with a      *)
(* dashboard write nor any other step does.                                *)
Tracked == row.claimed # 0 => row.awaiting >= Awaiting(pigeon)

OwedStaysTracked ==
  [][Tracked /\ ~Tracked' => pigeon'.current < pigeon.current /\ row' = row]_vars

(* A push the row records as sent was answered by ThingSpace or is still   *)
(* to be sent: one that never left is marked unsent, so the next uplink    *)
(* carries it instead of waiting out its delivery window.                  *)
(* Not where a reset loses the tail that was to send it ("reset"), nor     *)
(* where the marking itself fails, which the code logs ("unmark").         *)
PushRecordedIsReal ==
  row.pushedVersion # 0 =>
    \/ [life |-> pigeon.life, version |-> row.pushedVersion] \in sent
    \/ \E tail \in tails: /\ tail.downlink.kind = "shadow"
                          /\ tail.downlink.version = row.pushedVersion
                          /\ tail.downlink.at = row.pushedAt

(* Liveness: a dispatched callback is answered.  A copy held back by the   *)
(* attempt storing its frame is let go however that attempt ends.          *)
CallbacksAnswered ==
  \A a \in Attempts: att[a].pc = "arrived" ~> att[a].pc = "done"
=============================================================================
