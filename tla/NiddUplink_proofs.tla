-------------------------- MODULE NiddUplink_proofs --------------------------
(***************************************************************************)
(* Theorems of NiddUplink, for every device, carrier and failure it admits *)
(* and every value of its constants.                                       *)
(*                                                                         *)
(* The argument is layered.  TypeInv types the state and says that an      *)
(* attempt in play carries a key.  InFlightHeld is inductive beside it.    *)
(* The ledger of stored frames needs both, and the claim only the types.   *)
(* So do the record of a push and the track of what the device is owed.    *)
(***************************************************************************)
EXTENDS NiddUplink, TLAPS, SequenceTheorems

(* An attempt in play, or waited for by one, was dispatched with a key.    *)
Dispatched ==
  /\ \A a \in Attempts: att[a].pc # "idle" => att[a].key \in Keys
  /\ \A k \in DOMAIN inFlight: \A b \in inFlight[k]: att[b].key \in Keys

TypeInv == TypeOK /\ Dispatched

PlanType == [row: RowType, downlink: DownlinkType]
SeenEntry == [key: Keys, settled: BOOLEAN]

-----------------------------------------------------------------------------
(* What the helpers return.                                                *)

LEMMA WindowTypes ==
  /\ DeliverySecs \in Nat /\ PushHold \in Nat /\ NoticeHold \in Nat
  /\ SeenHold \in Nat /\ MaxTime \in Nat
  /\ MaxTarget \in Nat /\ MaxKey \in Nat /\ MaxLives \in Nat
  /\ SeenKeys \in Nat /\ SeenKeys > 0
  /\ NoticeHold \in Times /\ 0 \in Times
BY WindowsAssumption DEF Times

LEMMA FrameFields ==
  ASSUME NEW k \in Keys
  PROVE  /\ k.frame \in Frames /\ k.request \in Requests
         /\ k.frame.kind \in Kinds /\ k.frame.val \in Nat
         /\ k.frame.conf \in Nat /\ k.frame.ok \in BOOLEAN
BY FramesAssumption DEF Keys, FrameType

LEMMA DefaultRowType == DefaultRow \in RowType
<1>1. <<>> \in Seq([key: Keys, settled: BOOLEAN])
  OBVIOUS
<1> QED
  BY <1>1, WindowTypes DEF DefaultRow, RowType, Times

LEMMA RememberType ==
  ASSUME NEW r \in RowType, NEW key \in Keys, NEW settled \in BOOLEAN
  PROVE  Remember(r, key, settled) \in RowType
<1> DEFINE e == [key |-> key, settled |-> settled]
           grown == Append(r.seen, e)
<1>1. r.seen \in Seq(SeenEntry) /\ e \in SeenEntry
  BY DEF RowType, SeenEntry
<1>2. grown \in Seq(SeenEntry) /\ Len(grown) \in Nat
  BY <1>1
<1>3. Len(grown) > SeenKeys =>
        SubSeq(grown, Len(grown) - SeenKeys + 1, Len(grown)) \in Seq(SeenEntry)
  <2> HIDE DEF grown
  <2> SUFFICES ASSUME Len(grown) > SeenKeys
               PROVE SubSeq(grown, Len(grown) - SeenKeys + 1, Len(grown)) \in Seq(SeenEntry)
    OBVIOUS
  <2>1. Len(grown) - SeenKeys + 1 \in 1..Len(grown)
    BY <1>2, WindowTypes
  <2> QED
    BY <1>2, <2>1, SubSeqProperties
<1>4. \A s \in Seq(SeenEntry): [r EXCEPT !.seen = s] \in RowType
  BY DEF RowType, SeenEntry
<1> QED
  BY <1>2, <1>3, <1>4 DEF Remember

LEMMA AwaitingType ==
  ASSUME NEW p \in PigeonType
  PROVE  Awaiting(p) \in Nat /\ p.target \in Nat
BY WindowTypes DEF Awaiting, PigeonType, Versions

LEMMA KeepType ==
  ASSUME NEW r \in RowType
  PROVE  Keep(r) \in PlanType
BY WindowTypes DEF Keep, PlanType, NoDownlink, DownlinkType, Times

LEMMA ShadowPushType ==
  ASSUME NEW r \in RowType, NEW p \in PigeonType, NEW t \in Times
  PROVE  ShadowPush(r, p, t) \subseteq PlanType
<1>1. [r EXCEPT !.awaiting = Awaiting(p), !.pushedVersion = p.target,
                !.pushedAt = t] \in RowType
  BY AwaitingType DEF RowType
<1>2. [kind |-> "shadow", version |-> p.target, at |-> t] \in DownlinkType
  BY AwaitingType DEF DownlinkType
<1> QED
  BY <1>1, <1>2, KeepType DEF ShadowPush, Fault, PlanType

LEMMA NoticeType ==
  ASSUME NEW r \in RowType, now \in Times
  PROVE  Notice(r) \in PlanType
<1>1. [r EXCEPT !.noticeAt = now] \in RowType
  BY DEF RowType
<1>2. [kind |-> "status", version |-> 0, at |-> now] \in DownlinkType
  BY DEF DownlinkType
<1> QED
  BY <1>1, <1>2, KeepType DEF Notice, PlanType

LEMMA ReplyType ==
  ASSUME NEW r \in RowType, NEW t \in Times, pigeon \in PigeonType
  PROVE  Reply(r, t) \subseteq PlanType
BY KeepType, ShadowPushType DEF Reply

LEMMA WithheldType ==
  ASSUME NEW plan \in PlanType
  PROVE  Withheld(plan) \in PlanType
<1>1. \A r \in RowType: [r EXCEPT !.pushedVersion = 0, !.pushedAt = 0] \in RowType
  BY WindowTypes DEF RowType
<1>2. NoDownlink \in DownlinkType
  BY WindowTypes DEF NoDownlink, DownlinkType, Times
<1> QED
  BY <1>1, <1>2 DEF Withheld, PlanType

LEMMA DeliverableType ==
  ASSUME NEW plans \in SUBSET PlanType
  PROVE  Deliverable(plans) \subseteq PlanType
BY WithheldType DEF Deliverable, Fault

LEMMA AnsweredType ==
  ASSUME NEW base \in [Attempts -> AttemptType], NEW a \in Attempts,
         NEW outcome \in Outcomes
  PROVE  /\ Answered(base, a, outcome) \in [Attempts -> AttemptType]
         /\ \A b \in Attempts: Answered(base, a, outcome)[b].key = base[b].key
         /\ \A b \in Attempts \ {a}: Answered(base, a, outcome)[b] = base[b]
         /\ Answered(base, a, outcome)[a].pc = "done"
<1>1. \A x \in AttemptType:
        LET y == [x EXCEPT !.pc = "done", !.outcome = outcome, !.verdict = "none",
                           !.began = 0, !.life = 0, !.onLine = FALSE,
                           !.paused = FALSE, !.line = NoLine]
        IN y \in AttemptType /\ y.key = x.key /\ y.pc = "done"
  <2>1. 0 \in Times
    BY WindowTypes DEF Times
  <2> QED
    BY <2>1 DEF AttemptType
<1>2. base[a] \in AttemptType
  OBVIOUS
<1> QED
  BY <1>1, <1>2 DEF Answered

LEMMA SettleType ==
  ASSUME NEW a \in Attempts, NEW decided \in BOOLEAN,
         att \in [Attempts -> AttemptType]
  PROVE  /\ Settle(a, decided) \in [Attempts -> AttemptType]
         /\ \A b \in Attempts: Settle(a, decided)[b].key = att[b].key
         /\ \A b \in Attempts:
              \/ Settle(a, decided)[b] = att[b] /\ b \notin Waiters(att[a].key)
              \/ Settle(a, decided)[b].pc = "woken" /\ b \in Waiters(att[a].key)
<1> DEFINE verdict(b) == IF ~decided THEN "failed"
                         ELSE IF att[b].key = att[a].key THEN "same"
                         ELSE "elsewhere"
           woken(b) == [att[b] EXCEPT !.pc = "woken", !.verdict = verdict(b)]
<1>1. ASSUME NEW b \in Attempts
      PROVE  woken(b) \in AttemptType /\ woken(b).pc = "woken" /\ woken(b).key = att[b].key
  <2>1. att[b] \in AttemptType /\ verdict(b) \in {"none", "same", "elsewhere", "failed"}
    OBVIOUS
  <2> HIDE DEF verdict
  <2>2. PICK v \in AttemptType, w \in {"none", "same", "elsewhere", "failed"}:
          v = att[b] /\ w = verdict(b)
    BY <2>1
  <2>3. /\ [v EXCEPT !.pc = "woken", !.verdict = w] \in AttemptType
        /\ [v EXCEPT !.pc = "woken", !.verdict = w].pc = "woken"
        /\ [v EXCEPT !.pc = "woken", !.verdict = w].key = v.key
    BY DEF AttemptType
  <2> QED
    BY <2>2, <2>3
<1>2. Settle(a, decided) =
        [b \in Attempts |-> IF b \in Waiters(att[a].key) THEN woken(b) ELSE att[b]]
  BY DEF Settle
<1> HIDE DEF woken
<1> QED
  BY <1>1, <1>2

LEMMA SpawnType ==
  ASSUME NEW from \in Attempts \cup {"dashboard"}, NEW downlink \in DownlinkType,
         NEW report \in Int, pigeon \in PigeonType
  PROVE  Spawn(from, downlink, report) \subseteq TailType
BY DEF Spawn, TailType, PigeonType

LEMMA ContactType ==
  ASSUME contact \in [life: Nat, at: Times], now \in Times,
         NEW isContact \in BOOLEAN, NEW life \in Nat, StampContact(isContact, life)
  PROVE  contact' \in [life: Nat, at: Times]
BY WindowTypes DEF StampContact, Times

LEMMA LapsesType ==
  ASSUME lapses \in [Frames -> Nat], NoteLapses
  PROVE  lapses' \in [Frames -> Nat]
BY DEF NoteLapses

LEMMA OnLineType ==
  ASSUME NEW a \in Attempts
  PROVE  OnClaimedLine(a) \in BOOLEAN
BY DEF OnClaimedLine

(* Every answer of finish_nidd_uplink writes well-typed state, answers a   *)
(* alone, and leaves the row as it was or as the plan and the key make it. *)
LEMMA FinishType ==
  ASSUME TypeOK, NEW base \in [Attempts -> AttemptType],
         NEW a \in Attempts, att[a].key \in Keys, NEW plan \in PlanType,
         NEW outcome \in Outcomes, NEW isContact \in BOOLEAN, NEW report \in Int,
         Finish(base, a, plan, outcome, isContact, report)
  PROVE  /\ row' \in RowType
         /\ contact' \in [life: Nat, at: Times]
         /\ att' \in [Attempts -> AttemptType]
         /\ \A b \in Attempts: att'[b].key = base[b].key
         /\ \A b \in Attempts \ {a}: att'[b] = base[b]
         /\ att'[a].pc = "done"
         /\ tails' \subseteq TailType
<1> DEFINE recorded == IF Kind(a) = "fota" THEN plan.row
                       ELSE Remember(plan.row, att[a].key, outcome # "unclaimed")
<1>1. plan.row \in RowType /\ plan.downlink \in DownlinkType
  BY DEF PlanType
<1>2. recorded \in RowType
  BY <1>1, RememberType
<1>3. LifeOf(a) \in Nat
  BY DEF TypeOK, LifeOf, AttemptType, PigeonType
<1>4. Spawn(a, plan.downlink, report) \subseteq TailType
  BY <1>1, SpawnType DEF TypeOK
<1>5. \A o \in Outcomes: /\ Answered(base, a, o) \in [Attempts -> AttemptType]
                         /\ \A b \in Attempts: Answered(base, a, o)[b].key = base[b].key
                         /\ \A b \in Attempts \ {a}: Answered(base, a, o)[b] = base[b]
                         /\ Answered(base, a, o)[a].pc = "done"
  BY AnsweredType
<1>6. CASE /\ att' = Answered(base, a, outcome)
           /\ tails' = tails \cup Spawn(a, plan.downlink, report)
           /\ StampContact(isContact, LifeOf(a))
           /\ row' \in {row, recorded}
  <2>1. row \in RowType /\ tails \subseteq TailType
        /\ contact \in [life: Nat, at: Times] /\ now \in Times
    BY DEF TypeOK
  <2>2. contact' \in [life: Nat, at: Times]
    BY <1>3, <1>6, <2>1, ContactType
  <2>3. row' \in RowType
    BY <1>2, <1>6, <2>1
  <2>4. tails' \subseteq TailType
    BY <1>4, <1>6, <2>1
  <2> QED
    BY <1>5, <1>6, <2>2, <2>3, <2>4
<1>7. CASE /\ att' = Answered(base, a, "failed")
           /\ UNCHANGED <<tails, contact>>
           /\ row' = row
  <2>1. row' \in RowType /\ tails' \subseteq TailType
        /\ contact' \in [life: Nat, at: Times]
    BY <1>7 DEF TypeOK
  <2>2. "failed" \in Outcomes
    BY DEF Outcomes
  <2> QED
    BY <1>5, <1>7, <2>1, <2>2
<1> QED
  BY <1>6, <1>7 DEF Finish

-----------------------------------------------------------------------------
(* The state stays well typed.                                             *)

(* A step that moves attempts but keeps their keys.                        *)
LEMMA DispatchedKept ==
  ASSUME Dispatched, inFlight \in [DOMAIN inFlight -> SUBSET Attempts],
         inFlight' = inFlight,
         \A b \in Attempts: att'[b].key = att[b].key,
         \A b \in Attempts: att'[b] = att[b] \/ att[b].key \in Keys
  PROVE  Dispatched'
BY DEF Dispatched

LEMMA DismissType ==
  ASSUME TypeInv, NEW a \in Attempts, att[a].key \in Keys,
         NEW outcome \in Outcomes, Dismiss(a, outcome)
  PROVE  TypeInv'
<1>1. att' = Answered(att, a, outcome)
      /\ UNCHANGED <<pigeon, row, contact, inFlight, tails, stored, lapses>>
      /\ UNCHANGED <<now, applied, sent>>
  BY DEF Dismiss, Outside
<1>2. att \in [Attempts -> AttemptType]
  BY DEF TypeInv, TypeOK
<1>3. /\ att' \in [Attempts -> AttemptType]
      /\ \A b \in Attempts: att'[b].key = att[b].key
      /\ \A b \in Attempts \ {a}: att'[b] = att[b]
  BY <1>1, <1>2, AnsweredType
<1>4. Dispatched'
  BY <1>1, <1>3, DispatchedKept DEF TypeInv, TypeOK
<1>5. TypeOK'
  BY <1>1, <1>3 DEF TypeInv, TypeOK
<1> QED
  BY <1>4, <1>5 DEF TypeInv

(* Finish over the attempts as they are, whatever else moved with it.      *)
LEMMA FinishInPlaceType ==
  ASSUME TypeInv, NEW a \in Attempts, att[a].key \in Keys,
         NEW plan \in PlanType, NEW outcome \in Outcomes,
         NEW isContact \in BOOLEAN, NEW report \in Int,
         Finish(att, a, plan, outcome, isContact, report),
         pigeon' \in PigeonType, stored' \in [Frames -> Nat],
         inFlight' = inFlight, UNCHANGED Outside, NoteLapses
  PROVE  TypeInv'
<1>1. /\ TypeOK /\ Dispatched
      /\ UNCHANGED <<now, applied, sent>>
  BY DEF TypeInv, Outside
<1>2. att \in [Attempts -> AttemptType]
  BY <1>1 DEF TypeOK
<1>3. /\ row' \in RowType
      /\ contact' \in [life: Nat, at: Times]
      /\ att' \in [Attempts -> AttemptType]
      /\ \A b \in Attempts: att'[b].key = att[b].key
      /\ \A b \in Attempts \ {a}: att'[b] = att[b]
      /\ tails' \subseteq TailType
  BY <1>1, <1>2, FinishType
<1>4. lapses' \in [Frames -> Nat]
  BY <1>1, LapsesType DEF TypeOK
<1>5. Dispatched'
  BY <1>1, <1>3, DispatchedKept DEF TypeOK
<1>6. TypeOK'
  BY <1>1, <1>3, <1>4 DEF TypeOK
<1> QED
  BY <1>5, <1>6 DEF TypeInv

LEMMA FinishAtOnceType ==
  ASSUME TypeInv, NEW a \in Attempts, att[a].key \in Keys,
         NEW plan \in PlanType, NEW outcome \in Outcomes,
         NEW isContact \in BOOLEAN, FinishAtOnce(a, plan, outcome, isContact)
  PROVE  TypeInv'
<1>1. NoReport \in Int
  BY DEF NoReport
<1>2. pigeon' \in PigeonType /\ stored' \in [Frames -> Nat]
  BY DEF FinishAtOnce, TypeInv, TypeOK
<1> QED
  BY <1>1, <1>2, FinishInPlaceType DEF FinishAtOnce

LEMMA JudgingKey ==
  ASSUME TypeInv, NEW a \in Attempts, Judging(a)
  PROVE  /\ att[a].key \in Keys
         /\ Frame(a) \in Frames /\ Frame(a).val \in Nat /\ Frame(a).conf \in Nat
BY FrameFields DEF TypeInv, Dispatched, Judging, Frame

(* The plans of the row and pigeon as they are.                            *)
LEMMA PlansType ==
  ASSUME TypeOK, NEW a \in Attempts
  PROVE  /\ Keep(row) \in PlanType
         /\ Notice(row) \in PlanType
         /\ Deliverable({Notice(row)}) \subseteq PlanType
         /\ Deliverable(Reply(row, now)) \subseteq PlanType
         /\ Deliverable(Reply(row, att[a].began)) \subseteq PlanType
<1>1. row \in RowType /\ now \in Times /\ pigeon \in PigeonType
      /\ att[a].began \in Times
  BY DEF TypeOK, AttemptType
<1>2. Notice(row) \in PlanType /\ Keep(row) \in PlanType
  BY <1>1, NoticeType, KeepType
<1>3. Reply(row, now) \subseteq PlanType
      /\ Reply(row, att[a].began) \subseteq PlanType
  BY <1>1, ReplyType
<1> QED
  BY <1>2, <1>3, DeliverableType

LEMMA ClaimType ==
  ASSUME TypeInv, NEW a \in Attempts, Claim(a)
  PROVE  TypeInv'
<1> DEFINE claimed == [row EXCEPT !.claimed = Frame(a).val, !.line = att[a].line]
<1>1. att[a].key \in Keys /\ Frame(a).val \in Nat
  BY JudgingKey DEF Claim, Admitted, Judged
<1>2. claimed \in RowType
  <2>1. row \in RowType /\ att[a].line \in Lines \cup {NoLine}
    BY DEF TypeInv, TypeOK, AttemptType
  <2> QED
    BY <1>1, <2>1 DEF RowType
<1>3. PICK plan \in ShadowPush(claimed, pigeon, now):
        FinishAtOnce(a, plan, "claimed", TRUE)
  BY DEF Claim
<1>4. plan \in PlanType
  BY <1>2, <1>3, ShadowPushType DEF TypeInv, TypeOK
<1> QED
  BY <1>1, <1>3, <1>4, FinishAtOnceType DEF Outcomes

(* Every arm of the handler that ends at once and stores nothing.          *)
LEMMA AtOnceArmsType ==
  ASSUME TypeInv, NEW a \in Attempts,
         \/ RejectUnread(a) \/ ClaimRefused(a) \/ Unclaimed(a)
         \/ AnswerFota(a) \/ Paused(a) \/ Repeat(a) \/ RejectBody(a)
  PROVE  TypeInv'
<1>1. att[a].key \in Keys
  BY JudgingKey DEF RejectUnread, ClaimRefused, Unclaimed, AnswerFota, Paused,
       Repeat, RejectBody, Fresh, OnLine, Admitted, Judged
<1>2. TypeOK
  BY DEF TypeInv
<1>3. ASSUME NEW plan \in PlanType, NEW outcome \in Outcomes,
             NEW isContact \in BOOLEAN, FinishAtOnce(a, plan, outcome, isContact)
      PROVE  TypeInv'
  BY <1>1, <1>3, FinishAtOnceType
<1>4. CASE RejectUnread(a)
  BY <1>2, <1>3, <1>4, PlansType, OnLineType DEF RejectUnread, Outcomes
<1>5. CASE ClaimRefused(a)
  BY <1>2, <1>3, <1>5, PlansType DEF ClaimRefused, Outcomes
<1>6. CASE Unclaimed(a)
  BY <1>2, <1>3, <1>6, PlansType DEF Unclaimed, Outcomes
<1>7. CASE AnswerFota(a)
  <2>1. PICK kind \in {"none", "chunk", "status"}:
          LET reply == [kind |-> kind, version |-> 0,
                        at |-> IF kind = "none" THEN 0 ELSE now]
          IN \E plan \in Deliverable({[row |-> row, downlink |-> reply]}):
               FinishAtOnce(a, plan, "answered", TRUE)
    BY <1>7 DEF AnswerFota
  <2> DEFINE reply == [kind |-> kind, version |-> 0,
                       at |-> IF kind = "none" THEN 0 ELSE now]
  <2>2. [row |-> row, downlink |-> reply] \in PlanType
    BY <1>2, WindowTypes DEF TypeOK, PlanType, DownlinkType
  <2>3. Deliverable({[row |-> row, downlink |-> reply]}) \subseteq PlanType
    BY <2>2, DeliverableType
  <2> QED
    BY <1>3, <2>1, <2>3 DEF Outcomes
<1>8. CASE Paused(a)
  <2>1. Deliverable(IF NoticeDue(row) THEN {Notice(row)} ELSE Reply(row, now))
          \subseteq PlanType
    BY <1>2, PlansType
  <2> QED
    BY <1>3, <1>8, <2>1 DEF Paused, Outcomes
<1>9. CASE Repeat(a)
  BY <1>2, <1>3, <1>9, PlansType DEF Repeat, Outcomes
<1>10. CASE RejectBody(a)
  BY <1>2, <1>3, <1>10, PlansType DEF RejectBody, Outcomes
<1> QED
  BY <1>4, <1>5, <1>6, <1>7, <1>8, <1>9, <1>10

LEMMA CountType ==
  ASSUME stored \in [Frames -> Nat], NEW f \in Frames
  PROVE  [stored EXCEPT ![f] = @ + 1] \in [Frames -> Nat]
OBVIOUS

LEMMA StoreLogType ==
  ASSUME TypeInv, NEW a \in Attempts, StoreLog(a)
  PROVE  TypeInv'
<1>1. att[a].key \in Keys /\ Frame(a) \in Frames
  BY JudgingKey DEF StoreLog, Fresh, OnLine, Judged
<1>2. PICK plan \in Deliverable(Reply(row, now)):
        Finish(att, a, plan, "stored", TRUE, NoReport)
  BY DEF StoreLog
<1>3. plan \in PlanType
  BY <1>2, PlansType DEF TypeInv
<1>4. pigeon' \in PigeonType /\ stored' \in [Frames -> Nat]
  <2>1. pigeon' = pigeon /\ stored' = [stored EXCEPT ![Frame(a)] = @ + 1]
    BY DEF StoreLog
  <2> QED
    BY <1>1, <2>1, CountType DEF TypeInv, TypeOK
<1>5. "stored" \in Outcomes /\ NoReport \in Int
  BY DEF Outcomes, NoReport
<1> QED
  BY <1>1, <1>2, <1>3, <1>4, <1>5, FinishInPlaceType DEF StoreLog

LEMMA ReportType ==
  ASSUME TypeInv, NEW a \in Attempts, att[a].key \in Keys,
         NEW p \in PigeonType
  PROVE  /\ Reported(a) \in PigeonType
         /\ Deliverable(ReportReply(a, p)) \subseteq PlanType
<1>1. Frame(a).val \in Nat /\ Frame(a).conf \in Nat
  BY FrameFields DEF Frame
<1>2. Reported(a) \in PigeonType
  BY <1>1 DEF Reported, TypeInv, TypeOK, PigeonType
<1> DEFINE owed == [row EXCEPT !.awaiting = Awaiting(p)]
<1>3. owed \in RowType
  BY AwaitingType DEF TypeInv, TypeOK, RowType
<1>4. [kind |-> "status", version |-> p.current, at |-> now] \in DownlinkType
  BY DEF TypeInv, TypeOK, DownlinkType, PigeonType
<1>5. ReportReply(a, p) \subseteq PlanType
  BY <1>3, <1>4, ShadowPushType DEF ReportReply, PlanType, TypeInv, TypeOK
<1> QED
  BY <1>2, <1>5, DeliverableType

LEMMA ReportArmsType ==
  ASSUME TypeInv, NEW a \in Attempts,
         StoreReport(a) \/ RepeatReport(a) \/ StoreReportUnread(a)
  PROVE  TypeInv'
<1>1. /\ att[a].key \in Keys
      /\ Frame(a) \in Frames /\ Frame(a).val \in Nat
  BY JudgingKey DEF StoreReport, RepeatReport, StoreReportUnread, Fresh,
       OnLine, Judged
<1>2. pigeon \in PigeonType /\ Reported(a) \in PigeonType
  BY <1>1, ReportType DEF TypeInv, TypeOK
<1>3. "stored" \in Outcomes /\ "repeat" \in Outcomes /\ "failed" \in Outcomes
  BY DEF Outcomes
<1>4. CASE StoreReport(a)
  <2>1. PICK plan \in Deliverable(ReportReply(a, Reported(a))):
          Finish(att, a, plan, "stored", TRUE, Frame(a).val)
    BY <1>4 DEF StoreReport
  <2>2. plan \in PlanType
    BY <1>1, <1>2, <2>1, ReportType
  <2>3. pigeon' \in PigeonType /\ stored' \in [Frames -> Nat]
    <3>1. /\ pigeon' = Reported(a)
          /\ stored' = [stored EXCEPT ![Frame(a)] = @ + 1]
      BY <1>4 DEF StoreReport
    <3> QED
      BY <1>1, <1>2, <3>1, CountType DEF TypeInv, TypeOK
  <2>4. inFlight' = inFlight /\ UNCHANGED Outside /\ NoteLapses
    BY <1>4 DEF StoreReport
  <2>5. Frame(a).val \in Int
    BY <1>1
  <2> QED
    BY <1>1, <1>3, <2>1, <2>2, <2>3, <2>4, <2>5, FinishInPlaceType
<1>5. CASE RepeatReport(a)
  <2>1. PICK plan \in Deliverable(ReportReply(a, pigeon)):
          FinishAtOnce(a, plan, "repeat", TRUE)
    BY <1>5 DEF RepeatReport
  <2> QED
    BY <1>1, <1>2, <1>3, <2>1, ReportType, FinishAtOnceType
<1>6. CASE StoreReportUnread(a)
  <2>1. /\ att' = Answered(att, a, "failed") /\ pigeon' = Reported(a)
        /\ UNCHANGED <<row, contact, inFlight, tails, stored, lapses>>
        /\ UNCHANGED <<now, applied, sent>>
    BY <1>6 DEF StoreReportUnread, Outside
  <2>2. att \in [Attempts -> AttemptType]
    BY DEF TypeInv, TypeOK
  <2>3. /\ att' \in [Attempts -> AttemptType]
        /\ \A b \in Attempts: att'[b].key = att[b].key
        /\ \A b \in Attempts \ {a}: att'[b] = att[b]
    BY <1>3, <2>1, <2>2, AnsweredType
  <2>4. Dispatched'
    BY <1>1, <2>1, <2>3, DispatchedKept DEF TypeInv, TypeOK
  <2>5. TypeOK'
    BY <1>2, <2>1, <2>3 DEF TypeInv, TypeOK
  <2> QED
    BY <2>4, <2>5 DEF TypeInv
<1> QED
  BY <1>4, <1>5, <1>6

LEMMA WaitType ==
  ASSUME TypeInv, NEW a \in Attempts, Wait(a)
  PROVE  TypeInv'
<1>1. /\ UNCHANGED <<pigeon, row, contact, tails, stored, lapses>>
      /\ UNCHANGED <<now, applied, sent>>
  BY DEF Wait, Outside
<1>2. att[a].key \in Keys
  BY DEF Wait, TypeInv, Dispatched
<1>3. PICK held \in Holders(Frame(a)):
        inFlight' = [inFlight EXCEPT ![held] = @ \cup {a}]
  BY DEF Wait
<1>4. /\ DOMAIN inFlight' = DOMAIN inFlight
      /\ inFlight' \in [DOMAIN inFlight' -> SUBSET Attempts]
      /\ \A k \in DOMAIN inFlight: inFlight'[k] \subseteq inFlight[k] \cup {a}
  BY <1>3 DEF Holders, TypeInv, TypeOK
<1>5. /\ att' \in [Attempts -> AttemptType]
      /\ \A b \in Attempts: att'[b].key = att[b].key
      /\ \A b \in Attempts \ {a}: att'[b] = att[b]
  <2>1. att \in [Attempts -> AttemptType]
        /\ att' = [att EXCEPT ![a] = [@ EXCEPT !.pc = "waiting", !.verdict = "none"]]
    BY DEF Wait, TypeInv, TypeOK
  <2>2. \A x \in AttemptType:
          LET y == [x EXCEPT !.pc = "waiting", !.verdict = "none"]
          IN y \in AttemptType /\ y.key = x.key
    BY DEF AttemptType
  <2> QED
    BY <2>1, <2>2
<1>6. TypeOK'
  BY <1>1, <1>4, <1>5 DEF TypeInv, TypeOK
<1>7. Dispatched'
  <2>1. /\ \A b \in Attempts: att[b].pc # "idle" => att[b].key \in Keys
        /\ \A k \in DOMAIN inFlight: \A b \in inFlight[k]:
             b \in Attempts /\ att[b].key \in Keys
    BY DEF TypeInv, TypeOK, Dispatched
  <2> QED
    BY <1>2, <1>4, <1>5, <2>1 DEF Dispatched
<1> QED
  BY <1>6, <1>7 DEF TypeInv

LEMMA StartTelemetryType ==
  ASSUME TypeInv, NEW a \in Attempts, StartTelemetry(a)
  PROVE  TypeInv'
<1>1. /\ UNCHANGED <<pigeon, row, contact, tails, stored, lapses>>
      /\ UNCHANGED <<now, applied, sent>>
  BY DEF StartTelemetry, Outside
<1>2. att[a].key \in Keys
  BY JudgingKey DEF StartTelemetry, Fresh, OnLine, Judged
<1>3. /\ DOMAIN inFlight' = DOMAIN inFlight \cup {att[a].key}
      /\ inFlight' \in [DOMAIN inFlight' -> SUBSET Attempts]
      /\ \A k \in DOMAIN inFlight': k \in DOMAIN inFlight \/ inFlight'[k] = {}
      /\ \A k \in DOMAIN inFlight: inFlight'[k] \subseteq inFlight[k]
  BY DEF StartTelemetry, TypeInv, TypeOK
<1>4. /\ att' \in [Attempts -> AttemptType]
      /\ \A b \in Attempts: att'[b].key = att[b].key
      /\ \A b \in Attempts \ {a}: att'[b] = att[b]
  <2>1. now \in Times /\ pigeon.life \in Nat /\ OnClaimedLine(a) \in BOOLEAN
    BY OnLineType DEF TypeInv, TypeOK, PigeonType
  <2>2. \A x \in AttemptType:
          LET y == [x EXCEPT !.pc = "enqueuing", !.verdict = "none",
                             !.began = now, !.life = pigeon.life,
                             !.onLine = OnClaimedLine(a)]
          IN y \in AttemptType /\ y.key = x.key
    BY <2>1 DEF AttemptType
  <2> QED
    BY <2>2 DEF StartTelemetry, TypeInv, TypeOK
<1>5. TypeOK'
  BY <1>1, <1>2, <1>3, <1>4 DEF TypeInv, TypeOK
<1>6. Dispatched'
  <2>1. /\ \A b \in Attempts: att[b].pc # "idle" => att[b].key \in Keys
        /\ \A k \in DOMAIN inFlight: \A b \in inFlight[k]:
             b \in Attempts /\ att[b].key \in Keys
    BY DEF TypeInv, TypeOK, Dispatched
  <2> QED
    BY <1>2, <1>3, <1>4, <2>1 DEF Dispatched
<1> QED
  BY <1>5, <1>6 DEF TypeInv

(* Settling an attempt drops its hold and leaves its copies dispatched.    *)
LEMMA SettledDispatched ==
  ASSUME TypeInv, NEW a \in Attempts, att[a].key \in Keys,
         NEW decided \in BOOLEAN, Release(a),
         \A b \in Attempts: att'[b].key = Settle(a, decided)[b].key,
         \A b \in Attempts \ {a}: att'[b] = Settle(a, decided)[b]
  PROVE  /\ DOMAIN inFlight' \subseteq Keys
         /\ inFlight' \in [DOMAIN inFlight' -> SUBSET Attempts]
         /\ Dispatched'
<1>1. /\ DOMAIN inFlight \subseteq Keys
      /\ inFlight \in [DOMAIN inFlight -> SUBSET Attempts]
      /\ att \in [Attempts -> AttemptType]
      /\ \A b \in Attempts: att[b].pc # "idle" => att[b].key \in Keys
      /\ \A k \in DOMAIN inFlight: \A b \in inFlight[k]: att[b].key \in Keys
  BY DEF TypeInv, TypeOK, Dispatched
<1>2. /\ DOMAIN inFlight' = DOMAIN inFlight \ {att[a].key}
      /\ \A k \in DOMAIN inFlight': inFlight'[k] = inFlight[k]
      /\ inFlight' \in [DOMAIN inFlight' -> SUBSET Attempts]
  BY <1>1 DEF Release
<1>3. \A b \in Attempts: att'[b].key = att[b].key
  BY <1>1, SettleType
<1>4. \A b \in Attempts: att'[b].pc # "idle" => att[b].key \in Keys
  <2> SUFFICES ASSUME NEW b \in Attempts, att'[b].pc # "idle", b # a
               PROVE  att[b].key \in Keys
    OBVIOUS
  <2>1. att'[b] = Settle(a, decided)[b]
    OBVIOUS
  <2>2. CASE Settle(a, decided)[b] = att[b]
    BY <1>1, <2>1, <2>2
  <2>3. CASE b \in Waiters(att[a].key)
    BY <1>1, <2>3 DEF Waiters
  <2> QED
    BY <1>1, <2>2, <2>3, SettleType
<1>5. \A k \in DOMAIN inFlight': \A b \in inFlight'[k]: att'[b].key \in Keys
  BY <1>1, <1>2, <1>3
<1> QED
  BY <1>1, <1>2, <1>3, <1>4, <1>5 DEF Dispatched

LEMMA EnqueueFailedType ==
  ASSUME TypeInv, NEW a \in Attempts, EnqueueFailed(a)
  PROVE  TypeInv'
<1>1. /\ att' = Answered(Settle(a, FALSE), a, "failed") /\ Release(a)
      /\ UNCHANGED <<pigeon, row, contact, tails, now, applied, sent>>
      /\ NoteLapses
      /\ stored' \in {stored, [stored EXCEPT ![Frame(a)] = @ + 1]}
  BY DEF EnqueueFailed, Outside
<1>2. att[a].key \in Keys /\ Frame(a) \in Frames
  BY FrameFields DEF EnqueueFailed, TypeInv, Dispatched, Frame
<1>3. Settle(a, FALSE) \in [Attempts -> AttemptType] /\ "failed" \in Outcomes
  BY SettleType DEF TypeInv, TypeOK, Outcomes
<1>4. /\ att' \in [Attempts -> AttemptType]
      /\ \A b \in Attempts: att'[b].key = Settle(a, FALSE)[b].key
      /\ \A b \in Attempts \ {a}: att'[b] = Settle(a, FALSE)[b]
  <2> DEFINE base == Settle(a, FALSE)
  <2>1. att' = Answered(base, a, "failed") /\ base \in [Attempts -> AttemptType]
    BY <1>1, <1>3
  <2> HIDE DEF base
  <2>2. /\ att' \in [Attempts -> AttemptType]
        /\ \A b \in Attempts: att'[b].key = base[b].key
        /\ \A b \in Attempts \ {a}: att'[b] = base[b]
    BY <1>3, <2>1, AnsweredType
  <2> QED
    BY <2>2 DEF base
<1>5. /\ DOMAIN inFlight' \subseteq Keys
      /\ inFlight' \in [DOMAIN inFlight' -> SUBSET Attempts]
      /\ Dispatched'
  BY <1>1, <1>2, <1>4, SettledDispatched
<1>6. stored' \in [Frames -> Nat] /\ lapses' \in [Frames -> Nat]
  BY <1>1, <1>2, CountType, LapsesType DEF TypeInv, TypeOK
<1>7. TypeOK'
  BY <1>1, <1>4, <1>5, <1>6 DEF TypeInv, TypeOK
<1> QED
  BY <1>5, <1>7 DEF TypeInv

LEMMA EnqueueDoneType ==
  ASSUME TypeInv, NEW a \in Attempts, EnqueueDone(a)
  PROVE  TypeInv'
<1>1. /\ stored' = [stored EXCEPT ![Frame(a)] = @ + 1] /\ Release(a)
      /\ UNCHANGED <<pigeon, now, applied, sent>>
      /\ NoteLapses
  BY DEF EnqueueDone, Outside
<1>2. att[a].key \in Keys /\ Frame(a) \in Frames
  BY FrameFields DEF EnqueueDone, TypeInv, Dispatched, Frame
<1>3. TypeOK /\ Settle(a, TRUE) \in [Attempts -> AttemptType]
  BY SettleType DEF TypeInv, TypeOK
<1>4. "stored" \in Outcomes /\ NoReport \in Int /\ att[a].onLine \in BOOLEAN
      /\ LifeOf(a) \in Nat
  BY <1>3 DEF Outcomes, NoReport, TypeOK, AttemptType, PigeonType, LifeOf
<1> DEFINE base == Settle(a, TRUE)
           Typed == /\ row' \in RowType
                    /\ contact' \in [life: Nat, at: Times]
                    /\ att' \in [Attempts -> AttemptType]
                    /\ \A b \in Attempts: att'[b].key = base[b].key
                    /\ \A b \in Attempts \ {a}: att'[b] = base[b]
                    /\ tails' \subseteq TailType
<1>a. base \in [Attempts -> AttemptType]
  BY <1>3
<1>5. Typed
  <2>1. \/ \E plan \in Deliverable(Reply(row, att[a].began)):
             Finish(base, a, plan, "stored", att[a].onLine, NoReport)
        \/ /\ att' = Answered(base, a, "stored")
           /\ StampContact(TRUE, LifeOf(a))
           /\ UNCHANGED <<row, tails>>
    BY DEF EnqueueDone
  <2> HIDE DEF base
  <2>2. ASSUME NEW plan \in Deliverable(Reply(row, att[a].began)),
               Finish(base, a, plan, "stored", att[a].onLine, NoReport)
        PROVE  Typed
    <3>1. plan \in PlanType
      BY <1>3, PlansType
    <3> QED
      BY <1>2, <1>3, <1>4, <1>a, <2>2, <3>1, FinishType
  <2>3. ASSUME att' = Answered(base, a, "stored"), StampContact(TRUE, LifeOf(a)),
               UNCHANGED <<row, tails>>
        PROVE  Typed
    <3>1. contact' \in [life: Nat, at: Times]
      BY <1>3, <1>4, <2>3, ContactType DEF TypeOK
    <3>2. row' \in RowType /\ tails' \subseteq TailType
      BY <1>3, <2>3 DEF TypeOK
    <3>3. /\ att' \in [Attempts -> AttemptType]
          /\ \A b \in Attempts: att'[b].key = base[b].key
          /\ \A b \in Attempts \ {a}: att'[b] = base[b]
      BY <1>4, <1>a, <2>3, AnsweredType
    <3> QED
      BY <3>1, <3>2, <3>3
  <2> QED
    BY <2>1, <2>2, <2>3
<1>6. /\ DOMAIN inFlight' \subseteq Keys
      /\ inFlight' \in [DOMAIN inFlight' -> SUBSET Attempts]
      /\ Dispatched'
  BY <1>1, <1>2, <1>5, SettledDispatched
<1>7. stored' \in [Frames -> Nat] /\ lapses' \in [Frames -> Nat]
  BY <1>1, <1>2, <1>3, CountType, LapsesType DEF TypeOK
<1>8. TypeOK'
  BY <1>1, <1>3, <1>5, <1>6, <1>7 DEF TypeOK
<1> QED
  BY <1>6, <1>8 DEF TypeInv

LEMMA UplinkType ==
  ASSUME TypeInv, NEW a \in Attempts, Uplink(a)
  PROVE  TypeInv'
<1>1. CASE Wait(a)
  BY <1>1, WaitType
<1>2. CASE AnswerDuplicate(a)
  <2>1. att[a].key \in Keys
    BY <1>2, JudgingKey DEF AnswerDuplicate, TypeInv, Dispatched
  <2> QED
    BY <1>2, <2>1, DismissType DEF AnswerDuplicate, Outcomes
<1>3. CASE AnswerNotFound(a) \/ AnswerBadHeader(a) \/ Refuse(a)
  <2>1. att[a].key \in Keys
    BY <1>3, JudgingKey DEF AnswerNotFound, AnswerBadHeader, Refuse, Admitted, Judged
  <2> QED
    BY <1>3, <2>1, DismissType DEF AnswerNotFound, AnswerBadHeader, Refuse, Outcomes
<1>4. CASE Claim(a)
  BY <1>4, ClaimType
<1>5. CASE \/ RejectUnread(a) \/ ClaimRefused(a) \/ Unclaimed(a)
           \/ AnswerFota(a) \/ Paused(a) \/ Repeat(a) \/ RejectBody(a)
  BY <1>5, AtOnceArmsType
<1>6. CASE StoreLog(a)
  BY <1>6, StoreLogType
<1>7. CASE StartTelemetry(a)
  BY <1>7, StartTelemetryType
<1>8. CASE EnqueueFailed(a)
  BY <1>8, EnqueueFailedType
<1>9. CASE EnqueueDone(a)
  BY <1>9, EnqueueDoneType
<1>10. CASE StoreReport(a) \/ RepeatReport(a) \/ StoreReportUnread(a)
  BY <1>10, ReportArmsType
<1> QED
  BY <1>1, <1>2, <1>3, <1>4, <1>5, <1>6, <1>7, <1>8, <1>9, <1>10 DEF Uplink

LEMMA ArriveType ==
  ASSUME TypeInv, NEW a \in Attempts, Arrive(a)
  PROVE  TypeInv'
<1>1. /\ UNCHANGED <<pigeon, row, contact, inFlight, tails, stored, lapses>>
      /\ UNCHANGED <<now, applied, sent>>
  BY DEF Arrive, Outside
<1>2. PICK key \in Keys, line \in Lines \cup {NoLine}, paused \in PausedAnswers:
        att' = [att EXCEPT ![a] = [IdleAttempt EXCEPT
                  !.pc = "arrived", !.key = key, !.line = line, !.paused = paused]]
  BY DEF Arrive
<1> DEFINE fresh == [IdleAttempt EXCEPT
                       !.pc = "arrived", !.key = key, !.line = line, !.paused = paused]
<1>3. fresh \in AttemptType /\ fresh.key \in Keys
  BY <1>2, WindowTypes, PausedAssumption DEF IdleAttempt, AttemptType, Outcomes
<1>4. /\ att' \in [Attempts -> AttemptType]
      /\ \A b \in Attempts: att'[b] = IF b = a THEN fresh ELSE att[b]
  BY <1>2, <1>3 DEF TypeInv, TypeOK
<1>5. TypeOK'
  BY <1>1, <1>4 DEF TypeInv, TypeOK
<1>6. Dispatched'
  <2>1. /\ \A b \in Attempts: att[b].pc # "idle" => att[b].key \in Keys
        /\ \A k \in DOMAIN inFlight: \A b \in inFlight[k]:
             b \in Attempts /\ att[b].key \in Keys
    BY DEF TypeInv, TypeOK, Dispatched
  <2> HIDE DEF fresh
  <2> QED
    BY <1>1, <1>3, <1>4, <2>1 DEF Dispatched
<1> QED
  BY <1>5, <1>6 DEF TypeInv

LEMMA TailsType ==
  ASSUME TypeInv, RunTail
  PROVE  TypeInv'
<1>1. PICK tail \in tails: \/ SendAnswered(tail) \/ SendUnavailable(tail)
                           \/ SyncReport(tail)
  BY DEF RunTail
<1>2. tail \in TailType /\ tail.life \in Nat /\ tail.downlink.version \in Nat
  BY <1>1 DEF TypeInv, TypeOK, TailType, DownlinkType
<1>3. EndStep(tail) \subseteq TailType
  <2>1. [tail EXCEPT !.downlink = NoDownlink] \in TailType
    BY <1>2, WindowTypes DEF TailType, DownlinkType, NoDownlink
  <2> QED
    BY <2>1 DEF EndStep, TypeInv, TypeOK
<1>4. /\ UNCHANGED <<pigeon, contact, inFlight, att, now, stored, lapses>>
      /\ tails' \subseteq TailType
  BY <1>1, <1>3 DEF SendAnswered, SendUnavailable, SyncReport, Outside, TypeInv, TypeOK
<1>5. row' \in RowType
  <2>1. row \in RowType
        /\ [row EXCEPT !.pushedVersion = 0, !.pushedAt = 0] \in RowType
    BY WindowTypes DEF TypeInv, TypeOK, RowType
  <2> QED
    BY <1>1, <2>1 DEF SendAnswered, SendUnavailable, SyncReport, Fault
<1>6. applied' \subseteq Nat /\ sent' \subseteq [life: Nat, version: Nat]
  BY <1>1, <1>2 DEF SendAnswered, SendUnavailable, SyncReport, Outside, TypeInv, TypeOK
<1>7. TypeOK'
  BY <1>4, <1>5, <1>6 DEF TypeInv, TypeOK
<1>8. Dispatched'
  BY <1>4 DEF TypeInv, Dispatched
<1> QED
  BY <1>7, <1>8 DEF TypeInv

LEMMA UpdateShadowType ==
  ASSUME TypeInv, UpdateShadow
  PROVE  TypeInv'
<1>1. PICK changed \in BOOLEAN:
        LET p == IF changed THEN [pigeon EXCEPT !.target = @ + 1] ELSE pigeon
            owed == IF Awaiting(p) > row.awaiting
                    THEN [row EXCEPT !.awaiting = Awaiting(p)] ELSE row
        IN /\ p.target <= MaxTarget
           /\ pigeon' = p
           /\ row' \in {row, owed, [owed EXCEPT !.pushedVersion = p.target,
                                                !.pushedAt = now]}
           /\ \/ tails' = tails
              \/ tails' = tails \cup
                   Spawn("dashboard",
                         [kind |-> "shadow", version |-> p.target, at |-> now],
                         NoReport)
  BY DEF UpdateShadow
<1> DEFINE p == IF changed THEN [pigeon EXCEPT !.target = @ + 1] ELSE pigeon
           owed == IF Awaiting(p) > row.awaiting
                   THEN [row EXCEPT !.awaiting = Awaiting(p)] ELSE row
<1>2. UNCHANGED <<contact, inFlight, att, now, applied, stored, lapses, sent>>
  BY DEF UpdateShadow
<1>3. p \in PigeonType
  <2>1. p.target <= MaxTarget
    BY <1>1
  <2> QED
    BY <2>1, WindowTypes DEF TypeInv, TypeOK, PigeonType, Versions
<1> HIDE DEF p
<1>4. owed \in RowType
  BY <1>3, AwaitingType DEF TypeInv, TypeOK, RowType
<1> HIDE DEF owed
<1>5. row' \in RowType
  <2>1. [owed EXCEPT !.pushedVersion = p.target, !.pushedAt = now] \in RowType
    BY <1>3, <1>4, AwaitingType DEF RowType, TypeInv, TypeOK
  <2> QED
    BY <1>1, <1>4, <2>1 DEF p, owed, TypeInv, TypeOK
<1>6. tails' \subseteq TailType
  <2> DEFINE push == [kind |-> "shadow", version |-> p.target, at |-> now]
  <2>1. push \in DownlinkType
    BY <1>3, AwaitingType DEF DownlinkType, TypeInv, TypeOK
  <2> HIDE DEF push
  <2>2. Spawn("dashboard", push, NoReport) \subseteq TailType
    <3>1. NoReport \in Int /\ pigeon \in PigeonType
      BY DEF NoReport, TypeInv, TypeOK
    <3> QED
      BY <2>1, <3>1, SpawnType
  <2> QED
    BY <1>1, <2>2 DEF push, p, TypeInv, TypeOK
<1>7. pigeon' \in PigeonType
  BY <1>1, <1>3 DEF p, TypeInv, TypeOK
<1>8. TypeOK'
  BY <1>2, <1>5, <1>6, <1>7 DEF TypeInv, TypeOK
<1>9. Dispatched'
  BY <1>2 DEF TypeInv, Dispatched
<1> QED
  BY <1>8, <1>9 DEF TypeInv

(* The object's other operations write the pigeon, the row or the contact. *)
LEMMA OperationsType ==
  ASSUME TypeInv, Missed \/ ReportElsewhere \/ RefreshToken \/ Delete \/ Create
  PROVE  TypeInv'
<1>1. /\ UNCHANGED <<inFlight, att, tails, stored, now, applied, sent>>
  BY DEF Missed, ReportElsewhere, RefreshToken, Delete, Create, Outside
<1>2. /\ pigeon \in PigeonType /\ row \in RowType
      /\ contact \in [life: Nat, at: Times] /\ lapses \in [Frames -> Nat]
  BY DEF TypeInv, TypeOK
<1>3. pigeon' \in PigeonType
  <2>1. NoPigeon(pigeon) \in PigeonType
    <3>1. 0 \in Versions
      BY WindowTypes DEF Versions
    <3> QED
      BY <1>2, <3>1 DEF NoPigeon, PigeonType
  <2>2. \A f \in Frames: [pigeon EXCEPT !.current = f.val, !.conf = f.conf] \in PigeonType
    BY <1>2, FramesAssumption DEF FrameType, PigeonType
  <2>3. /\ [pigeon EXCEPT !.key = @ + 1] \in PigeonType
        /\ [pigeon EXCEPT !.owned = FALSE] \in PigeonType
    <3>1. \A n \in Nat: [pigeon EXCEPT !.key = n] \in PigeonType
      BY <1>2 DEF PigeonType
    <3>2. pigeon.key + 1 \in Nat
      BY <1>2 DEF PigeonType
    <3>3. [pigeon EXCEPT !.owned = FALSE] \in PigeonType
      BY <1>2 DEF PigeonType
    <3> QED
      BY <3>1, <3>2, <3>3
  <2>4. CASE Create
    <3>1. /\ pigeon' = [pigeon EXCEPT !.exists = TRUE, !.owned = TRUE,
                                      !.life = pigeon.life + 1, !.key = pigeon.key + 1]
          /\ pigeon.life + 1 \in Nat /\ pigeon.key + 1 \in Nat
      BY <1>2, <2>4 DEF Create, PigeonType
    <3>2. pigeon' = [exists |-> TRUE, owned |-> TRUE, life |-> pigeon.life + 1,
                     key |-> pigeon.key + 1, target |-> pigeon.target,
                     current |-> pigeon.current, conf |-> pigeon.conf]
      BY <1>2, <3>1 DEF PigeonType
    <3> QED
      BY <1>2, <3>1, <3>2 DEF PigeonType
  <2>5. CASE Missed \/ ReportElsewhere \/ RefreshToken \/ Delete
    BY <1>2, <2>1, <2>2, <2>3, <2>5 DEF Missed, ReportElsewhere, RefreshToken, Delete
  <2> QED
    BY <2>4, <2>5
<1>4. row' \in RowType
  <2>1. /\ [row EXCEPT !.pushedVersion = 0] \in RowType
        /\ [row EXCEPT !.claimed = 0, !.line = NoLine] \in RowType
    BY <1>2 DEF RowType
  <2> QED
    BY <1>2, <2>1, DefaultRowType
      DEF Missed, ReportElsewhere, RefreshToken, Delete, Create
<1>5. contact' \in [life: Nat, at: Times]
  <2>1. contact' \in {contact, NoContact}
    BY DEF Missed, ReportElsewhere, RefreshToken, Delete, Create
  <2> QED
    BY <1>2, <2>1, WindowTypes DEF NoContact
<1>6. lapses' \in [Frames -> Nat]
  BY <1>2, LapsesType DEF Missed, ReportElsewhere, RefreshToken, Delete, Create
<1>7. TypeOK'
  BY <1>1, <1>3, <1>4, <1>5, <1>6 DEF TypeInv, TypeOK
<1>8. Dispatched'
  BY <1>1 DEF TypeInv, Dispatched
<1> QED
  BY <1>7, <1>8 DEF TypeInv

LEMMA ResetType ==
  ASSUME TypeInv, Reset
  PROVE  TypeInv'
<1>1. /\ UNCHANGED <<pigeon, row, contact, now, applied, sent>>
      /\ inFlight' = <<>> /\ tails' = {} /\ NoteLapses
  BY DEF Reset, Outside
<1>2. stored' \in [Frames -> Nat]
  BY DEF Reset, TypeInv, TypeOK
<1>3. lapses' \in [Frames -> Nat]
  BY <1>1, LapsesType DEF TypeInv, TypeOK
<1>4. \A a \in Attempts: /\ Answered(att, a, "lost")[a] \in AttemptType
                         /\ Answered(att, a, "lost")[a].key = att[a].key
  BY AnsweredType DEF TypeInv, TypeOK, Outcomes
<1>5. /\ att' \in [Attempts -> AttemptType]
      /\ \A a \in Attempts: /\ att'[a].key = att[a].key
                            /\ att'[a] = att[a] \/ att[a].key \in Keys
  BY <1>4 DEF Reset, TypeInv, TypeOK, Dispatched
<1>6. DOMAIN inFlight' = {} /\ inFlight' \in [DOMAIN inFlight' -> SUBSET Attempts]
  BY <1>1
<1>7. TypeOK'
  BY <1>1, <1>2, <1>3, <1>5, <1>6 DEF TypeInv, TypeOK
<1>8. Dispatched'
  BY <1>5, <1>6 DEF TypeInv, Dispatched
<1> QED
  BY <1>7, <1>8 DEF TypeInv

LEMMA TickType ==
  ASSUME TypeInv, Tick
  PROVE  TypeInv'
BY WindowTypes DEF Tick, TypeInv, TypeOK, Dispatched, Times

LEMMA InitType == Init => TypeInv
<1> SUFFICES ASSUME Init PROVE TypeInv
  OBVIOUS
<1>1. pigeon \in PigeonType
  BY WindowTypes DEF Init, PigeonType, Versions
<1>2. row \in RowType /\ contact \in [life: Nat, at: Times]
  <2>1. PICK claim \in InitialClaims: row = [DefaultRow EXCEPT !.claimed = claim]
                                      /\ contact = [life |-> claim, at |-> 0]
    BY DEF Init
  <2>2. claim \in Nat
    BY ClaimsAssumption
  <2>3. [DefaultRow EXCEPT !.claimed = claim] \in RowType
    BY <2>2, DefaultRowType DEF RowType
  <2> QED
    BY <2>1, <2>2, <2>3, WindowTypes
<1>3. att \in [Attempts -> AttemptType] /\ \A a \in Attempts: att[a].pc = "idle"
  BY WindowTypes DEF Init, IdleAttempt, AttemptType, Outcomes
<1>4. DOMAIN inFlight = {} /\ inFlight \in [DOMAIN inFlight -> SUBSET Attempts]
  BY DEF Init
<1>5. TypeOK
  BY <1>1, <1>2, <1>3, <1>4, WindowTypes DEF Init, TypeOK
<1> QED
  BY <1>3, <1>4, <1>5 DEF TypeInv, Dispatched

LEMMA NextType == TypeInv /\ [Next]_vars => TypeInv'
<1> SUFFICES ASSUME TypeInv, [Next]_vars PROVE TypeInv'
  OBVIOUS
<1>1. CASE UNCHANGED vars
  BY <1>1 DEF vars, TypeInv, TypeOK, Dispatched
<1>2. CASE Next
  BY <1>2, ArriveType, UplinkType, TailsType, UpdateShadowType, OperationsType,
     ResetType, TickType DEF Next
<1> QED
  BY <1>1, <1>2

(* The types of the run nidd_frames, for any device, carrier and failures. *)
THEOREM TypesHold == Spec => []TypeOK
<1>1. TypeInv => TypeOK
  BY DEF TypeInv
<1> QED
  BY <1>1, InitType, NextType, PTL DEF Spec

-----------------------------------------------------------------------------
(* What NiddInFlight promises.                                             *)

Busy == {"enqueuing", "waiting"}

(* A step that leaves inFlight alone, and each attempt either as it was or *)
(* neither storing nor waiting, before and after.                          *)
LEMMA HeldKept ==
  ASSUME InFlightHeld, inFlight' = inFlight,
         \A b \in Attempts: \/ att'[b] = att[b]
                            \/ att[b].pc \notin Busy /\ att'[b].pc \notin Busy,
         inFlight \in [DOMAIN inFlight -> SUBSET Attempts]
  PROVE  InFlightHeld'
<1>1. \A k \in DOMAIN inFlight:
        \E a \in Attempts: att'[a].pc = "enqueuing" /\ att'[a].key = k
  BY DEF InFlightHeld, Busy
<1>2. \A a \in Attempts:
        att'[a].pc = "enqueuing" => att[a].pc = "enqueuing" /\ att'[a] = att[a]
  BY DEF Busy
<1>3. \A a \in Attempts: att'[a].pc = "waiting" <=> att[a].pc = "waiting"
  BY DEF Busy
<1>4. \A k \in DOMAIN inFlight: \A a \in inFlight[k]:
        a \in Attempts /\ att'[a] = att[a]
  BY DEF InFlightHeld, Busy
<1> QED
  BY <1>1, <1>2, <1>3, <1>4 DEF InFlightHeld, Frame

LEMMA AnsweredAlone ==
  ASSUME NEW base \in [Attempts -> AttemptType], NEW a \in Attempts, NEW outcome
  PROVE  /\ Answered(base, a, outcome)[a].pc = "done"
         /\ \A b \in Attempts \ {a}: Answered(base, a, outcome)[b] = base[b]
BY DEF Answered, AttemptType

LEMMA FinishAlone ==
  ASSUME NEW base \in [Attempts -> AttemptType], NEW a \in Attempts,
         NEW plan, NEW outcome, NEW isContact, NEW report,
         Finish(base, a, plan, outcome, isContact, report)
  PROVE  /\ att'[a].pc = "done"
         /\ \A b \in Attempts \ {a}: att'[b] = base[b]
<1>1. \E o \in {outcome, "failed"}: att' = Answered(base, a, o)
  BY DEF Finish
<1> QED
  BY <1>1, AnsweredAlone

(* Every segment but Wait and those of the enqueue ends its attempt alone. *)
LEMMA ArmsEnd ==
  ASSUME TypeInv, NEW a \in Attempts,
         \/ AnswerDuplicate(a) \/ AnswerNotFound(a) \/ AnswerBadHeader(a)
         \/ Refuse(a) \/ RejectUnread(a) \/ Claim(a) \/ ClaimRefused(a)
         \/ Unclaimed(a) \/ AnswerFota(a) \/ Paused(a) \/ Repeat(a)
         \/ RejectBody(a) \/ StoreLog(a)
         \/ StoreReport(a) \/ RepeatReport(a) \/ StoreReportUnread(a)
  PROVE  /\ att[a].pc \in {"arrived", "woken"}
         /\ inFlight' = inFlight
         /\ att'[a].pc = "done"
         /\ \A b \in Attempts \ {a}: att'[b] = att[b]
<1> DEFINE Ends == att'[a].pc = "done" /\ \A b \in Attempts \ {a}: att'[b] = att[b]
<1>1. att \in [Attempts -> AttemptType]
  BY DEF TypeInv, TypeOK
<1>2. ASSUME NEW outcome, Dismiss(a, outcome)
      PROVE  Ends /\ inFlight' = inFlight
  BY <1>1, <1>2, AnsweredAlone DEF Dismiss
<1>3. ASSUME NEW plan, NEW outcome, NEW isContact, NEW report,
             Finish(att, a, plan, outcome, isContact, report)
      PROVE  Ends
  BY <1>1, <1>3, FinishAlone
<1>4. ASSUME NEW plan, NEW outcome, NEW isContact,
             FinishAtOnce(a, plan, outcome, isContact)
      PROVE  Ends /\ inFlight' = inFlight
  BY <1>3, <1>4 DEF FinishAtOnce
<1>5. Judging(a) => att[a].pc \in {"arrived", "woken"}
  BY DEF Judging
<1> HIDE DEF Ends
<1>6. CASE \/ AnswerDuplicate(a) \/ AnswerNotFound(a) \/ AnswerBadHeader(a)
           \/ Refuse(a)
  <2>1. \E outcome: Dismiss(a, outcome)
    BY <1>6 DEF AnswerDuplicate, AnswerNotFound, AnswerBadHeader, Refuse
  <2>2. att[a].pc \in {"arrived", "woken"}
    BY <1>5, <1>6 DEF AnswerDuplicate, AnswerNotFound, AnswerBadHeader, Refuse,
         Admitted, Judged
  <2> QED
    BY <1>2, <2>1, <2>2 DEF Ends
<1>7. CASE \/ RejectUnread(a) \/ Claim(a) \/ ClaimRefused(a) \/ Unclaimed(a)
           \/ AnswerFota(a) \/ Paused(a) \/ Repeat(a) \/ RejectBody(a)
           \/ RepeatReport(a)
  <2>1. \E plan, outcome, isContact: FinishAtOnce(a, plan, outcome, isContact)
    BY <1>7 DEF RejectUnread, Claim, ClaimRefused, Unclaimed, AnswerFota,
         Paused, Repeat, RejectBody, RepeatReport
  <2>2. Judging(a)
    BY <1>7 DEF RejectUnread, Claim, ClaimRefused, Unclaimed, AnswerFota,
         Paused, Repeat, RejectBody, RepeatReport, Fresh, OnLine, Admitted, Judged
  <2> QED
    BY <1>4, <1>5, <2>1, <2>2 DEF Ends
<1>8. CASE StoreLog(a) \/ StoreReport(a)
  <2>1. /\ inFlight' = inFlight
        /\ \E plan, report: Finish(att, a, plan, "stored", TRUE, report)
    BY <1>8 DEF StoreLog, StoreReport
  <2>2. Judging(a)
    BY <1>8 DEF StoreLog, StoreReport, Fresh, OnLine, Judged
  <2> QED
    BY <1>3, <1>5, <2>1, <2>2 DEF Ends
<1>9. CASE StoreReportUnread(a)
  <2>1. att' = Answered(att, a, "failed") /\ inFlight' = inFlight
    BY <1>9 DEF StoreReportUnread
  <2>2. Judging(a)
    BY <1>9 DEF StoreReportUnread, Fresh, OnLine, Judged
  <2> QED
    BY <1>1, <1>5, <2>1, <2>2, AnsweredAlone
<1> QED
  BY <1>6, <1>7, <1>8, <1>9

LEMMA WaitHeld ==
  ASSUME TypeInv, InFlightHeld, NEW a \in Attempts, Wait(a)
  PROVE  InFlightHeld'
<1>1. PICK held \in DOMAIN inFlight:
        held.frame = Frame(a) /\ inFlight' = [inFlight EXCEPT ![held] = @ \cup {a}]
  BY DEF Wait, Holders
<1>2. /\ att \in [Attempts -> AttemptType]
      /\ inFlight \in [DOMAIN inFlight -> SUBSET Attempts]
  BY DEF TypeInv, TypeOK
<1>3. /\ att'[a].pc = "waiting" /\ att'[a].key = att[a].key
      /\ \A b \in Attempts \ {a}: att'[b] = att[b]
      /\ att[a].pc \notin Busy
  BY <1>2 DEF Wait, AttemptType, Busy
<1>4. /\ DOMAIN inFlight' = DOMAIN inFlight
      /\ \A k \in DOMAIN inFlight:
           inFlight'[k] = IF k = held THEN inFlight[k] \cup {a} ELSE inFlight[k]
  BY <1>1, <1>2
<1>5. \A b \in Attempts: att'[b].pc = "enqueuing" <=> att[b].pc = "enqueuing"
  BY <1>3 DEF Busy
<1>6. \A b \in Attempts: att'[b].key = att[b].key
  BY <1>3
<1>7. \A b \in Attempts: att'[b].pc = "waiting" <=> att[b].pc = "waiting" \/ b = a
  BY <1>3
<1>8. \A k \in DOMAIN inFlight': \A b \in inFlight'[k]: Frame(b)' = k.frame
  <2>1. \A k \in DOMAIN inFlight: \A b \in inFlight[k]: Frame(b) = k.frame /\ b \in Attempts
    BY <1>2 DEF InFlightHeld
  <2> QED
    BY <1>1, <1>4, <1>6, <2>1 DEF Frame
<1> QED
  BY <1>1, <1>4, <1>5, <1>6, <1>7, <1>8 DEF InFlightHeld, Frame

(* Nothing holds the frame of an attempt about to store it: no copy has    *)
(* claimed it since the wait loop.                                         *)
LEMMA FrameIsFree ==
  ASSUME NEW a \in Attempts, StartTelemetry(a)
  PROVE  /\ Holders(Frame(a)) = {}
         /\ att[a].pc \in {"arrived", "woken"}
         /\ ~Settled(row, Frame(a))
         /\ Kind(a) = "telemetry"
BY DEF StartTelemetry, Fresh, OnLine, Judged, Judging, IsRepeat, DecidedElsewhere

LEMMA StartTelemetryHeld ==
  ASSUME TypeInv, InFlightHeld, NEW a \in Attempts, StartTelemetry(a)
  PROVE  InFlightHeld'
<1>1. /\ att \in [Attempts -> AttemptType]
      /\ inFlight \in [DOMAIN inFlight -> SUBSET Attempts]
  BY DEF TypeInv, TypeOK
<1>2. \A k \in DOMAIN inFlight: k.frame # Frame(a)
  BY FrameIsFree DEF Holders
<1>3. /\ att'[a].pc = "enqueuing" /\ att'[a].key = att[a].key
      /\ \A b \in Attempts \ {a}: att'[b] = att[b]
      /\ att[a].pc \notin Busy
  BY <1>1, FrameIsFree DEF StartTelemetry, AttemptType, Busy
<1>4. /\ DOMAIN inFlight' = DOMAIN inFlight \cup {att[a].key}
      /\ att[a].key \notin DOMAIN inFlight
      /\ inFlight'[att[a].key] = {}
      /\ \A k \in DOMAIN inFlight: inFlight'[k] = inFlight[k]
  BY <1>2 DEF StartTelemetry, Frame
<1>5. \A b \in Attempts: att[b].pc = "enqueuing" => Frame(b) # Frame(a)
  BY <1>2 DEF InFlightHeld, Frame
<1>6. \A b \in Attempts: att'[b].pc = "waiting" <=> att[b].pc = "waiting"
  BY <1>3 DEF Busy
<1>7. \A b \in Attempts: att'[b].key = att[b].key /\ Frame(b)' = Frame(b)
  BY <1>3 DEF Frame
<1>8. \A j, k \in DOMAIN inFlight': j.frame = k.frame => j = k
  BY <1>2, <1>4 DEF InFlightHeld, Frame
<1>9. \A k \in DOMAIN inFlight':
        \E b \in Attempts: att'[b].pc = "enqueuing" /\ att'[b].key = k
  BY <1>3, <1>4 DEF InFlightHeld, Busy
<1>10. \A b \in Attempts: att'[b].pc = "enqueuing" =>
         /\ att'[b].key \in DOMAIN inFlight'
         /\ \A c \in Attempts: att'[c].pc = "enqueuing" /\ Frame(c)' = Frame(b)' => b = c
  BY <1>3, <1>4, <1>5, <1>7 DEF InFlightHeld
<1>11. \A b \in Attempts:
         att'[b].pc = "waiting" <=> \E k \in DOMAIN inFlight': b \in inFlight'[k]
  BY <1>4, <1>6 DEF InFlightHeld
<1>12. \A k \in DOMAIN inFlight': \A b \in inFlight'[k]: Frame(b)' = k.frame
  BY <1>1, <1>4, <1>7 DEF InFlightHeld
<1> QED
  BY <1>8, <1>9, <1>10, <1>11, <1>12 DEF InFlightHeld

(* However an enqueue ends: its attempt is done, its hold dropped, and the *)
(* copies it held back are woken.                                          *)
LEMMA SettledHeld ==
  ASSUME TypeInv, InFlightHeld, NEW a \in Attempts, NEW decided \in BOOLEAN,
         att[a].pc = "enqueuing", Release(a), att'[a].pc = "done",
         \A b \in Attempts \ {a}: att'[b] = Settle(a, decided)[b]
  PROVE  InFlightHeld'
<1> DEFINE key == att[a].key
<1>1. /\ att \in [Attempts -> AttemptType]
      /\ inFlight \in [DOMAIN inFlight -> SUBSET Attempts]
      /\ key \in DOMAIN inFlight
      /\ a \notin inFlight[key]
  BY DEF TypeInv, TypeOK, InFlightHeld
<1>2. /\ DOMAIN inFlight' = DOMAIN inFlight \ {key}
      /\ \A k \in DOMAIN inFlight': inFlight'[k] = inFlight[k]
  BY DEF Release
<1>3. \A b \in Attempts \ {a}:
        /\ b \in inFlight[key] => att'[b].pc = "woken"
        /\ b \notin inFlight[key] => att'[b] = att[b]
  BY <1>1, SettleType DEF Waiters
<1>4. \A b \in Attempts: att'[b].pc \in Busy
        => b # a /\ b \notin inFlight[key] /\ att'[b] = att[b]
  BY <1>3 DEF Busy
<1> HIDE DEF key
<1>5. \A k \in DOMAIN inFlight': \A b \in inFlight'[k]:
        /\ b \in Attempts /\ att[b].pc = "waiting" /\ Frame(b) = k.frame
        /\ b \notin inFlight[key] /\ b # a /\ att'[b] = att[b]
  <2> SUFFICES ASSUME NEW k \in DOMAIN inFlight', NEW b \in inFlight'[k]
               PROVE  /\ b \in Attempts /\ att[b].pc = "waiting" /\ Frame(b) = k.frame
                      /\ b \notin inFlight[key] /\ b # a /\ att'[b] = att[b]
    OBVIOUS
  <2>1. k \in DOMAIN inFlight /\ k # key /\ b \in inFlight[k] /\ b \in Attempts
    BY <1>1, <1>2
  <2>2. att[b].pc = "waiting" /\ Frame(b) = k.frame
    BY <2>1 DEF InFlightHeld
  <2>3. b \notin inFlight[key]
    BY <1>1, <2>1 DEF InFlightHeld
  <2>4. b # a
    BY <2>2
  <2> QED
    BY <1>3, <2>1, <2>2, <2>3, <2>4
<1>6. \A k \in DOMAIN inFlight':
        \E b \in Attempts: att'[b].pc = "enqueuing" /\ att'[b].key = k
  <2> SUFFICES ASSUME NEW k \in DOMAIN inFlight'
               PROVE  \E b \in Attempts: att'[b].pc = "enqueuing" /\ att'[b].key = k
    OBVIOUS
  <2>1. PICK b \in Attempts: att[b].pc = "enqueuing" /\ att[b].key = k
    BY <1>2 DEF InFlightHeld
  <2>2. b # a
    BY <1>2, <2>1 DEF key
  <2>3. b \notin inFlight[key]
    BY <1>1, <2>1 DEF InFlightHeld
  <2> QED
    BY <1>3, <2>1, <2>2, <2>3
<1>7. \A b \in Attempts: att'[b].pc = "enqueuing" =>
        /\ att[b].pc = "enqueuing" /\ Frame(b)' = Frame(b)
        /\ att'[b].key \in DOMAIN inFlight'
  <2> SUFFICES ASSUME NEW b \in Attempts, att'[b].pc = "enqueuing"
               PROVE  /\ att[b].pc = "enqueuing" /\ Frame(b)' = Frame(b)
                      /\ att'[b].key \in DOMAIN inFlight'
    OBVIOUS
  <2>1. b # a /\ att'[b] = att[b]
    BY <1>4 DEF Busy
  <2>2. att[b].key \in DOMAIN inFlight /\ Frame(b) # Frame(a)
    BY <2>1 DEF InFlightHeld
  <2>3. att[b].key # key
    BY <2>2 DEF key, Frame
  <2> QED
    BY <1>2, <2>1, <2>2, <2>3 DEF Frame
<1>8. \A b \in Attempts:
        att'[b].pc = "waiting" <=> \E k \in DOMAIN inFlight': b \in inFlight'[k]
  <2>1. \A b \in Attempts: att'[b].pc = "waiting" => att[b].pc = "waiting"
                                                    /\ b \notin inFlight[key]
    BY <1>4 DEF Busy
  <2>2. \A b \in Attempts: att'[b].pc = "waiting"
                             => \E k \in DOMAIN inFlight': b \in inFlight'[k]
    BY <1>2, <2>1 DEF InFlightHeld
  <2> QED
    BY <1>5, <2>2
<1>9. \A j, k \in DOMAIN inFlight': j.frame = k.frame => j = k
  BY <1>2 DEF InFlightHeld
<1>10. \A b, c \in Attempts: /\ att'[b].pc = "enqueuing" /\ att'[c].pc = "enqueuing"
                             /\ Frame(c)' = Frame(b)'
                             => b = c
  BY <1>7 DEF InFlightHeld
<1>11. \A k \in DOMAIN inFlight': \A b \in inFlight'[k]: Frame(b)' = k.frame
  BY <1>5 DEF Frame
<1> QED
  BY <1>6, <1>7, <1>8, <1>9, <1>10, <1>11 DEF InFlightHeld

LEMMA EnqueueEnds ==
  ASSUME TypeInv, NEW a \in Attempts, EnqueueFailed(a) \/ EnqueueDone(a)
  PROVE  /\ att[a].pc = "enqueuing" /\ Release(a) /\ att'[a].pc = "done"
         /\ \E decided \in BOOLEAN:
              \A b \in Attempts \ {a}: att'[b] = Settle(a, decided)[b]
<1>1. /\ Settle(a, TRUE) \in [Attempts -> AttemptType]
      /\ Settle(a, FALSE) \in [Attempts -> AttemptType]
  BY SettleType DEF TypeInv, TypeOK
<1>2. CASE EnqueueFailed(a)
  <2> DEFINE base == Settle(a, FALSE)
  <2>1. att' = Answered(base, a, "failed") /\ base \in [Attempts -> AttemptType]
    BY <1>1, <1>2 DEF EnqueueFailed
  <2> HIDE DEF base
  <2>2. att'[a].pc = "done" /\ \A b \in Attempts \ {a}: att'[b] = base[b]
    BY <2>1, AnsweredAlone
  <2> QED
    BY <1>2, <2>2 DEF base, EnqueueFailed
<1>3. CASE EnqueueDone(a)
  <2> DEFINE base == Settle(a, TRUE)
  <2>1. \/ att' = Answered(base, a, "stored")
        \/ \E plan, contacted: Finish(base, a, plan, "stored", contacted, NoReport)
    BY <1>3 DEF EnqueueDone
  <2>2. base \in [Attempts -> AttemptType]
    BY <1>1
  <2> HIDE DEF base
  <2>3. att'[a].pc = "done" /\ \A b \in Attempts \ {a}: att'[b] = base[b]
    BY <2>1, <2>2, AnsweredAlone, FinishAlone
  <2> QED
    BY <1>3, <2>3 DEF base, EnqueueDone
<1> QED
  BY <1>2, <1>3

(* What the other operations leave to the uplinks.                         *)
LEMMA OutsideUplinks ==
  ASSUME \/ RunTail \/ UpdateShadow \/ RefreshToken \/ Delete \/ Create
         \/ Missed \/ ReportElsewhere \/ Tick \/ UNCHANGED vars
  PROVE  inFlight' = inFlight /\ att' = att /\ stored' = stored
BY DEF RunTail, SendAnswered, SendUnavailable, SyncReport, UpdateShadow,
  RefreshToken, Delete, Create, Missed, ReportElsewhere, Tick, vars, Outside

LEMMA ArriveAlone ==
  ASSUME TypeInv, NEW a \in Attempts, Arrive(a)
  PROVE  /\ inFlight' = inFlight /\ stored' = stored
         /\ att[a].pc = "idle" /\ att'[a].pc = "arrived"
         /\ \A b \in Attempts \ {a}: att'[b] = att[b]
<1>1. PICK key \in Keys, line \in Lines \cup {NoLine}, paused \in PausedAnswers:
        att' = [att EXCEPT ![a] = [IdleAttempt EXCEPT
                  !.pc = "arrived", !.key = key, !.line = line, !.paused = paused]]
  BY DEF Arrive
<1>2. att \in [Attempts -> AttemptType]
  BY DEF TypeInv, TypeOK
<1>3. att'[a].pc = "arrived" /\ \A b \in Attempts \ {a}: att'[b] = att[b]
  BY <1>1, <1>2 DEF IdleAttempt
<1> QED
  BY <1>3 DEF Arrive

LEMMA NextHeld == TypeInv /\ InFlightHeld /\ [Next]_vars => InFlightHeld'
<1> SUFFICES ASSUME TypeInv, InFlightHeld, [Next]_vars PROVE InFlightHeld'
  OBVIOUS
<1>1. /\ att \in [Attempts -> AttemptType]
      /\ inFlight \in [DOMAIN inFlight -> SUBSET Attempts]
  BY DEF TypeInv, TypeOK
<1>2. ASSUME NEW a \in Attempts, Arrive(a) PROVE InFlightHeld'
  <2>1. /\ inFlight' = inFlight /\ att[a].pc = "idle" /\ att'[a].pc = "arrived"
        /\ \A b \in Attempts \ {a}: att'[b] = att[b]
    BY <1>2, ArriveAlone
  <2> QED
    BY <1>1, <2>1, HeldKept DEF Busy
<1>3. ASSUME NEW a \in Attempts, Uplink(a) PROVE InFlightHeld'
  <2>1. CASE Wait(a)
    BY <2>1, WaitHeld
  <2>2. CASE StartTelemetry(a)
    BY <2>2, StartTelemetryHeld
  <2>3. CASE EnqueueFailed(a) \/ EnqueueDone(a)
    BY <2>3, EnqueueEnds, SettledHeld
  <2>4. CASE /\ ~Wait(a) /\ ~StartTelemetry(a)
             /\ ~EnqueueFailed(a) /\ ~EnqueueDone(a)
    <3>1. /\ att[a].pc \in {"arrived", "woken"} /\ inFlight' = inFlight
          /\ att'[a].pc = "done" /\ \A b \in Attempts \ {a}: att'[b] = att[b]
      BY <1>3, <2>4, ArmsEnd DEF Uplink
    <3> QED
      BY <1>1, <3>1, HeldKept DEF Busy
  <2> QED
    BY <2>1, <2>2, <2>3, <2>4
<1>4. CASE Reset
  <2>1. DOMAIN inFlight' = {}
    BY <1>4 DEF Reset
  <2>2. \A b \in Attempts: att'[b].pc \in {"idle", "done"}
    BY <1>1, <1>4, AnsweredAlone DEF Reset
  <2> QED
    BY <2>1, <2>2 DEF InFlightHeld
<1>5. CASE \/ RunTail \/ UpdateShadow \/ RefreshToken \/ Delete \/ Create
           \/ Missed \/ ReportElsewhere \/ Tick \/ UNCHANGED vars
  BY <1>1, <1>5, OutsideUplinks, HeldKept
<1> QED
  BY <1>2, <1>3, <1>4, <1>5 DEF Next

LEMMA InitHeld == Init => InFlightHeld
<1> SUFFICES ASSUME Init PROVE InFlightHeld
  OBVIOUS
<1>1. DOMAIN inFlight = {} /\ \A a \in Attempts: att[a].pc = "idle"
  BY DEF Init, IdleAttempt
<1> QED
  BY <1>1 DEF InFlightHeld

(* However many callbacks interleave with however many enqueues, and       *)
(* whatever fails, a frame is being stored by at most one attempt, and the *)
(* copies held back are exactly those it will wake.                        *)
THEOREM HeldExactly == Spec => []InFlightHeld
BY InitType, NextType, InitHeld, NextHeld, PTL DEF Spec

-----------------------------------------------------------------------------
(* The ledger of stored frames.                                            *)

Storing(f) == \E a \in Attempts: att[a].pc = "enqueuing" /\ Frame(a) = f

(* StoredOncePerLapse is not inductive: a frame being stored, or one the   *)
(* row has no settled key of, must have no store left unaccounted, since   *)
(* it may be stored once more.                                             *)
LedgerOf(f) ==
  /\ stored[f] <= lapses[f] + 1
  /\ Storing(f) \/ ~Settled(row, f) => stored[f] <= lapses[f]

Ledger ==
  /\ \A a \in Attempts: att[a].pc = "enqueuing" => Kind(a) = "telemetry"
  /\ \A f \in Counted: LedgerOf(f)

(* A step accounts for a frame whose settled key it drops or never writes. *)
Accounted(f) ==
  \/ lapses'[f] = lapses[f] /\ Settled(row', f)
  \/ lapses'[f] = lapses[f] /\ ~Settled(row, f) /\ stored'[f] = stored[f]
  \/ lapses'[f] = lapses[f] + 1

(* A step stores a frame only when it was being stored or was unsettled,   *)
(* and begins to store it only when it was unsettled.                      *)
Guarded(f) ==
  \/ stored'[f] = stored[f] /\ (Storing(f)' => Storing(f) \/ ~Settled(row, f))
  \/ stored'[f] = stored[f] + 1 /\ ~Storing(f)' /\ (Storing(f) \/ ~Settled(row, f))

LEMMA LedgerKept ==
  ASSUME NEW f \in Frames, stored \in [Frames -> Nat], lapses \in [Frames -> Nat],
         LedgerOf(f), Accounted(f), Guarded(f)
  PROVE  LedgerOf(f)'
<1>1. stored[f] \in Nat /\ lapses[f] \in Nat
  OBVIOUS
<1>2. LedgerOf(f)' <=> /\ stored'[f] <= lapses'[f] + 1
                       /\ Storing(f)' \/ ~Settled(row', f) => stored'[f] <= lapses'[f]
  BY DEF LedgerOf, Settled, Entries
<1> QED
  BY <1>1, <1>2 DEF LedgerOf, Accounted, Guarded

LEMMA NotedAccounted ==
  ASSUME NEW f \in Frames, NoteLapses
  PROVE  Accounted(f)
BY DEF NoteLapses, Accounted

LEMMA SeenAccounted ==
  ASSUME NEW f \in Frames, row'.seen = row.seen,
         lapses' = lapses, stored' = stored
  PROVE  Accounted(f)
BY DEF Accounted, Settled, Entries

LEMMA UplinkAccounted ==
  ASSUME NEW a \in Attempts, Uplink(a), NEW f \in Frames
  PROVE  Accounted(f)
<1>1. \/ NoteLapses
      \/ row' = row /\ lapses' = lapses /\ stored' = stored
  BY DEF Uplink, Wait, AnswerDuplicate, AnswerNotFound, AnswerBadHeader, Refuse,
    Dismiss, RejectUnread, Claim, ClaimRefused, Unclaimed, AnswerFota, Paused,
    Repeat, RejectBody, RepeatReport, FinishAtOnce, StoreLog, StartTelemetry,
    EnqueueFailed, EnqueueDone, StoreReport, StoreReportUnread
<1> QED
  BY <1>1, NotedAccounted, SeenAccounted

(* Which uplinks store a counted frame, and when.                          *)
LEMMA UplinkStores ==
  ASSUME TypeInv, NEW a \in Attempts, Uplink(a), NEW f \in Counted
  PROVE  \/ stored'[f] = stored[f]
         \/ /\ stored'[f] = stored[f] + 1 /\ Frame(a) = f
            /\ \/ StoreLog(a)
               \/ EnqueueFailed(a) \/ EnqueueDone(a)
<1>1. CASE StoreLog(a) \/ EnqueueFailed(a) \/ EnqueueDone(a)
  <2>1. \/ stored' = stored
        \/ stored' = [stored EXCEPT ![Frame(a)] = @ + 1]
    BY <1>1 DEF StoreLog, EnqueueFailed, EnqueueDone
  <2> QED
    BY <1>1, <2>1 DEF Counted, TypeInv, TypeOK
<1>2. CASE StoreReport(a)
  <2>1. stored' = [stored EXCEPT ![Frame(a)] = @ + 1] /\ Frame(a).kind = "report"
    BY <1>2 DEF StoreReport, Fresh, OnLine, Kind
  <2> QED
    BY <2>1 DEF Counted, TypeInv, TypeOK
<1>3. CASE ~StoreLog(a) /\ ~EnqueueFailed(a) /\ ~EnqueueDone(a) /\ ~StoreReport(a)
  BY <1>3 DEF Uplink, Wait, AnswerDuplicate, AnswerNotFound, AnswerBadHeader, Refuse,
    Dismiss, RejectUnread, Claim, ClaimRefused, Unclaimed, AnswerFota, Paused,
    Repeat, RejectBody, RepeatReport, FinishAtOnce, StartTelemetry, StoreReportUnread
<1> QED
  BY <1>1, <1>2, <1>3

LEMMA UplinkLedger ==
  ASSUME TypeInv, InFlightHeld, Ledger, NEW a \in Attempts, Uplink(a)
  PROVE  Ledger'
<1>1. \A f \in Counted: f \in Frames
  BY DEF Counted
<1>2. stored \in [Frames -> Nat] /\ lapses \in [Frames -> Nat]
      /\ att \in [Attempts -> AttemptType]
      /\ inFlight \in [DOMAIN inFlight -> SUBSET Attempts]
  BY DEF TypeInv, TypeOK
<1>3. ASSUME \A b \in Attempts: att'[b].pc = "enqueuing" => Kind(b)' = "telemetry",
             \A f \in Counted: Guarded(f)
      PROVE  Ledger'
  <2>1. \A f \in Counted: LedgerOf(f)'
    BY <1>1, <1>2, <1>3, UplinkAccounted, LedgerKept DEF Ledger
  <2> QED
    BY <1>3, <2>1 DEF Ledger, Counted
<1>4. CASE ~Wait(a) /\ ~StartTelemetry(a) /\ ~EnqueueFailed(a) /\ ~EnqueueDone(a)
  <2>1. att'[a].pc = "done" /\ \A b \in Attempts \ {a}: att'[b] = att[b]
    BY <1>4, ArmsEnd DEF Uplink
  <2>2. \A b \in Attempts: att'[b].pc = "enqueuing" => att'[b] = att[b]
    BY <2>1
  <2>3. \A b \in Attempts: att'[b].pc = "enqueuing" => Kind(b)' = "telemetry"
    BY <2>2 DEF Ledger, Kind, Frame
  <2>4. \A f: Storing(f)' => Storing(f)
    BY <2>2 DEF Storing, Frame
  <2>5. ASSUME StoreLog(a), NEW f, f = Frame(a)
        PROVE  ~Settled(row, f) /\ ~Storing(f)'
    <3>1. ~Settled(row, f) /\ f.kind = "log"
      BY <2>5 DEF StoreLog, Fresh, OnLine, IsRepeat, Kind
    <3>2. Storing(f)' => f.kind = "telemetry"
      BY <2>3 DEF Storing, Kind, Frame
    <3> QED
      BY <3>1, <3>2
  <2>6. ASSUME NEW f \in Counted
        PROVE  Guarded(f)
    <3>1. CASE stored'[f] = stored[f]
      BY <3>1, <2>4 DEF Guarded
    <3>2. CASE stored'[f] = stored[f] + 1 /\ Frame(a) = f /\ StoreLog(a)
      BY <3>2, <2>5 DEF Guarded
    <3> QED
      BY <1>4, <3>1, <3>2, UplinkStores
  <2> QED
    BY <1>3, <2>3, <2>6
<1>5. CASE Wait(a)
  <2>1. /\ att'[a].pc = "waiting" /\ stored' = stored
        /\ \A b \in Attempts \ {a}: att'[b] = att[b]
    BY <1>2, <1>5 DEF Wait, AttemptType
  <2>2. \A b \in Attempts: att'[b].pc = "enqueuing" => att'[b] = att[b]
    BY <2>1
  <2>3. \A b \in Attempts: att'[b].pc = "enqueuing" => Kind(b)' = "telemetry"
    BY <2>2 DEF Ledger, Kind, Frame
  <2>4. \A f \in Counted: Guarded(f)
    BY <2>1, <2>2 DEF Guarded, Storing, Frame
  <2> QED
    BY <1>3, <2>3, <2>4
<1>6. CASE StartTelemetry(a)
  <2>1. /\ att'[a].key = att[a].key /\ stored' = stored
        /\ \A b \in Attempts \ {a}: att'[b] = att[b]
    BY <1>2, <1>6 DEF StartTelemetry, AttemptType
  <2>2. ~Settled(row, Frame(a)) /\ Kind(a) = "telemetry"
    BY <1>6, FrameIsFree
  <2>3. \A b \in Attempts: att'[b].pc = "enqueuing" => Kind(b)' = "telemetry"
    BY <2>1, <2>2 DEF Ledger, Kind, Frame
  <2>4. \A f \in Counted: Guarded(f)
    BY <2>1, <2>2 DEF Guarded, Storing, Frame
  <2> QED
    BY <1>3, <2>3, <2>4
<1>7. CASE EnqueueFailed(a) \/ EnqueueDone(a)
  <2>1. PICK decided \in BOOLEAN:
          \A b \in Attempts \ {a}: att'[b] = Settle(a, decided)[b]
    BY <1>7, EnqueueEnds
  <2>2. att[a].pc = "enqueuing" /\ att'[a].pc = "done"
    BY <1>7, EnqueueEnds
  <2>3. \A b \in Attempts: att'[b].pc = "enqueuing" => b # a /\ att'[b] = att[b]
    BY <1>2, <2>1, <2>2, SettleType
  <2>4. \A b \in Attempts: att'[b].pc = "enqueuing" => Kind(b)' = "telemetry"
    BY <2>3 DEF Ledger, Kind, Frame
  <2>5. ASSUME NEW f, f = Frame(a)
        PROVE  Storing(f) /\ ~Storing(f)'
    <3>1. Storing(f)
      BY <2>2, <2>5 DEF Storing
    <3>2. \A b \in Attempts: att'[b].pc = "enqueuing" => Frame(b)' # f
      BY <2>2, <2>3, <2>5 DEF InFlightHeld, Frame
    <3> QED
      BY <3>1, <3>2 DEF Storing
  <2>6. \A f: Storing(f)' => Storing(f)
    BY <2>3 DEF Storing, Frame
  <2>7. ASSUME NEW f \in Counted
        PROVE  Guarded(f)
    <3>1. CASE stored'[f] = stored[f]
      BY <3>1, <2>6 DEF Guarded
    <3>2. CASE stored'[f] = stored[f] + 1 /\ Frame(a) = f
      BY <3>2, <2>5 DEF Guarded
    <3> QED
      BY <3>1, <3>2, UplinkStores
  <2> QED
    BY <1>3, <2>4, <2>7
<1> QED
  BY <1>4, <1>5, <1>6, <1>7

(* No operation outside the uplinks but the delete touches the seen keys.   *)
LEMMA OutsideSeen ==
  ASSUME TypeInv,
         \/ RunTail \/ UpdateShadow \/ RefreshToken \/ Create
         \/ Missed \/ ReportElsewhere \/ Tick \/ UNCHANGED vars
  PROVE  row'.seen = row.seen /\ lapses' = lapses /\ stored' = stored
<1>1. row \in RowType
  BY DEF TypeInv, TypeOK
<1>2. lapses' = lapses /\ stored' = stored
  BY DEF RunTail, SendAnswered, SendUnavailable, SyncReport, UpdateShadow,
    RefreshToken, Create, Missed, ReportElsewhere, Tick, vars, Outside
<1>3. /\ [row EXCEPT !.pushedVersion = 0, !.pushedAt = 0].seen = row.seen
      /\ [row EXCEPT !.pushedVersion = 0].seen = row.seen
      /\ [row EXCEPT !.claimed = 0, !.line = NoLine].seen = row.seen
  BY <1>1 DEF RowType
<1>4. ASSUME UpdateShadow
      PROVE  row'.seen = row.seen
  <2>1. PICK changed \in BOOLEAN:
          LET p == IF changed THEN [pigeon EXCEPT !.target = @ + 1] ELSE pigeon
              owed == IF Awaiting(p) > row.awaiting
                      THEN [row EXCEPT !.awaiting = Awaiting(p)] ELSE row
          IN row' \in {row, owed, [owed EXCEPT !.pushedVersion = p.target,
                                              !.pushedAt = now]}
    BY <1>4 DEF UpdateShadow
  <2> DEFINE p == IF changed THEN [pigeon EXCEPT !.target = @ + 1] ELSE pigeon
             owed == IF Awaiting(p) > row.awaiting
                     THEN [row EXCEPT !.awaiting = Awaiting(p)] ELSE row
             pushed == [owed EXCEPT !.pushedVersion = p.target, !.pushedAt = now]
  <2>2. row' \in {row, owed, pushed}
    BY <2>1
  <2>3. owed.seen = row.seen /\ "seen" \in DOMAIN owed
    BY <1>1 DEF RowType
  <2> HIDE DEF owed, p
  <2>4. pushed.seen = owed.seen
    BY <2>3
  <2> QED
    BY <2>2, <2>3, <2>4
<1>5. row'.seen = row.seen
  BY <1>3, <1>4 DEF RunTail, SendAnswered, SendUnavailable, Fault, SyncReport,
    RefreshToken, Create, Missed, ReportElsewhere, Tick, vars, Outside
<1> QED
  BY <1>2, <1>5

(* A step outside the uplinks never touches the seen keys unnoticed.       *)
LEMMA OutsideAccounted ==
  ASSUME TypeInv, NEW f \in Frames,
         \/ RunTail \/ UpdateShadow \/ RefreshToken \/ Delete \/ Create
         \/ Missed \/ ReportElsewhere \/ Tick \/ UNCHANGED vars
  PROVE  Accounted(f)
<1>1. CASE Delete
  BY <1>1, NotedAccounted DEF Delete
<1>2. CASE ~Delete
  BY <1>2, OutsideSeen, SeenAccounted
<1> QED
  BY <1>1, <1>2

LEMMA ResetLedger ==
  ASSUME TypeInv, InFlightHeld, Ledger, Reset
  PROVE  Ledger'
<1>1. stored \in [Frames -> Nat] /\ lapses \in [Frames -> Nat]
      /\ att \in [Attempts -> AttemptType]
  BY DEF TypeInv, TypeOK
<1>2. \A b \in Attempts: att'[b].pc # "enqueuing"
  <2>1. \A b \in Attempts: att'[b].pc \in {"idle", "done"}
    BY <1>1, AnsweredAlone DEF Reset
  <2> QED
    BY <2>1
<1>3. ASSUME NEW f \in Counted PROVE LedgerOf(f)'
  <2>1. f \in Frames
    BY DEF Counted
  <2>2. \/ stored'[f] = stored[f]
        \/ stored'[f] = stored[f] + 1 /\ Storing(f)
    BY <2>1 DEF Reset, Storing
  <2>3. ~Storing(f)'
    BY <1>2 DEF Storing
  <2>4. Guarded(f) /\ Accounted(f)
    BY <2>1, <2>2, <2>3, NotedAccounted DEF Guarded, Reset
  <2> QED
    BY <1>1, <1>3, <2>1, <2>4, LedgerKept DEF Ledger
<1> QED
  BY <1>2, <1>3 DEF Ledger, Counted

LEMMA NextLedger == TypeInv /\ InFlightHeld /\ Ledger /\ [Next]_vars => Ledger'
<1> SUFFICES ASSUME TypeInv, InFlightHeld, Ledger, [Next]_vars PROVE Ledger'
  OBVIOUS
<1>1. stored \in [Frames -> Nat] /\ lapses \in [Frames -> Nat]
  BY DEF TypeInv, TypeOK
<1>2. ASSUME stored' = stored,
             \A b \in Attempts: att'[b].pc = "enqueuing" => att'[b] = att[b],
             \A f \in Frames: Accounted(f)
      PROVE  Ledger'
  <2>1. ASSUME NEW f \in Counted PROVE LedgerOf(f)'
    <3>1. f \in Frames /\ Guarded(f)
      BY <1>2 DEF Counted, Guarded, Storing, Frame
    <3> QED
      BY <1>1, <1>2, <2>1, <3>1, LedgerKept DEF Ledger
  <2>2. \A b \in Attempts: att'[b].pc = "enqueuing" => Kind(b)' = "telemetry"
    BY <1>2 DEF Ledger, Kind, Frame
  <2> QED
    BY <2>1, <2>2 DEF Ledger, Counted
<1>3. ASSUME NEW a \in Attempts, Arrive(a) PROVE Ledger'
  <2>1. \A b \in Attempts: att'[b].pc = "enqueuing" => att'[b] = att[b]
    BY <1>3, ArriveAlone
  <2>2. row' = row /\ lapses' = lapses /\ stored' = stored
    BY <1>3 DEF Arrive
  <2> QED
    BY <1>2, <2>1, <2>2, SeenAccounted
<1>4. ASSUME NEW a \in Attempts, Uplink(a) PROVE Ledger'
  BY <1>4, UplinkLedger
<1>5. CASE Reset
  BY <1>5, ResetLedger
<1>6. CASE \/ RunTail \/ UpdateShadow \/ RefreshToken \/ Delete \/ Create
           \/ Missed \/ ReportElsewhere \/ Tick \/ UNCHANGED vars
  BY <1>2, <1>6, OutsideUplinks, OutsideAccounted
<1> QED
  BY <1>3, <1>4, <1>5, <1>6 DEF Next

LEMMA InitLedger == Init => Ledger
<1> SUFFICES ASSUME Init PROVE Ledger
  OBVIOUS
<1>1. \A a \in Attempts: att[a].pc = "idle"
  BY DEF Init, IdleAttempt
<1>2. \A f \in Frames: stored[f] = 0 /\ lapses[f] = 0
  BY DEF Init
<1> QED
  BY <1>1, <1>2 DEF Ledger, LedgerOf, Counted

(* Whatever fails, and however many callbacks, keys remembered and resets: *)
(* a reading or a log is stored again only once the record of storing it   *)
(* was lost.                                                               *)
THEOREM StoredOncePerLapseHolds == Spec => []StoredOncePerLapse
<1>1. TypeInv /\ Ledger => StoredOncePerLapse
  BY DEF Ledger, LedgerOf, Counted, StoredOncePerLapse
<1> QED
  BY <1>1, InitType, NextType, InitHeld, NextHeld, InitLedger, NextLedger, PTL DEF Spec

-----------------------------------------------------------------------------
(* The claim.                                                              *)

(* The plans that leave a claim as it is: every one but Claim's own.       *)
Claiming(claim) == {plan \in PlanType : plan.row.claimed = claim}

LEMMA KeepClaims ==
  ASSUME NEW r \in RowType
  PROVE  Keep(r) \in Claiming(r.claimed)
BY KeepType DEF Claiming, Keep

LEMMA ShadowPushClaims ==
  ASSUME NEW r \in RowType, NEW p \in PigeonType, NEW t \in Times
  PROVE  ShadowPush(r, p, t) \subseteq Claiming(r.claimed)
<1> SUFFICES ASSUME NEW plan \in ShadowPush(r, p, t) PROVE plan \in Claiming(r.claimed)
  OBVIOUS
<1>1. plan \in PlanType
  BY ShadowPushType
<1>2. \/ plan.row = [r EXCEPT !.awaiting = Awaiting(p), !.pushedVersion = p.target,
                             !.pushedAt = t]
      \/ plan = Keep(r)
  BY DEF ShadowPush, Fault
<1>3. [r EXCEPT !.awaiting = Awaiting(p), !.pushedVersion = p.target,
                !.pushedAt = t].claimed = r.claimed
  BY DEF RowType
<1> QED
  BY <1>1, <1>2, <1>3, KeepClaims DEF Claiming

LEMMA NoticeClaims ==
  ASSUME NEW r \in RowType, now \in Times
  PROVE  Notice(r) \in Claiming(r.claimed)
<1>1. [r EXCEPT !.noticeAt = now].claimed = r.claimed
  BY DEF RowType
<1> QED
  BY <1>1, NoticeType, KeepClaims DEF Notice, Claiming

LEMMA ReplyClaims ==
  ASSUME NEW r \in RowType, NEW t \in Times, pigeon \in PigeonType
  PROVE  Reply(r, t) \subseteq Claiming(r.claimed)
BY KeepClaims, ShadowPushClaims DEF Reply

LEMMA DeliverableClaims ==
  ASSUME NEW claim, NEW plans \in SUBSET Claiming(claim)
  PROVE  Deliverable(plans) \subseteq Claiming(claim)
<1> SUFFICES ASSUME NEW plan \in plans PROVE Withheld(plan) \in Claiming(claim)
  BY DEF Deliverable, Fault
<1>1. plan \in PlanType /\ plan.row \in RowType /\ plan.row.claimed = claim
  BY DEF Claiming, PlanType
<1>2. [plan.row EXCEPT !.pushedVersion = 0, !.pushedAt = 0].claimed = claim
  BY <1>1 DEF RowType
<1> QED
  BY <1>1, <1>2, WithheldType DEF Claiming, Withheld

LEMMA PlansClaim ==
  ASSUME TypeOK, NEW a \in Attempts
  PROVE  /\ Keep(row) \in Claiming(row.claimed)
         /\ Notice(row) \in Claiming(row.claimed)
         /\ Deliverable({Notice(row)}) \subseteq Claiming(row.claimed)
         /\ Deliverable(Reply(row, now)) \subseteq Claiming(row.claimed)
         /\ Deliverable(Reply(row, att[a].began)) \subseteq Claiming(row.claimed)
<1>1. row \in RowType /\ now \in Times /\ pigeon \in PigeonType
      /\ att[a].began \in Times
  BY DEF TypeOK, AttemptType
<1>2. Notice(row) \in Claiming(row.claimed) /\ Keep(row) \in Claiming(row.claimed)
  BY <1>1, NoticeClaims, KeepClaims
<1>3. Reply(row, now) \subseteq Claiming(row.claimed)
      /\ Reply(row, att[a].began) \subseteq Claiming(row.claimed)
  BY <1>1, ReplyClaims
<1> QED
  BY <1>2, <1>3, DeliverableClaims

LEMMA FinishClaims ==
  ASSUME NEW base, NEW a, NEW plan \in PlanType, NEW outcome, NEW isContact,
         NEW report, Finish(base, a, plan, outcome, isContact, report)
  PROVE  row'.claimed \in {row.claimed, plan.row.claimed}
<1>1. \A key, settled: Remember(plan.row, key, settled).claimed = plan.row.claimed
  BY DEF Remember, PlanType, RowType
<1>2. \/ row' = row \/ row' = plan.row
      \/ \E key, settled: row' = Remember(plan.row, key, settled)
  BY DEF Finish
<1> QED
  BY <1>1, <1>2

(* A segment of an uplink keeps the claim, or claims the live pigeon.      *)
LEMMA UplinkClaims ==
  ASSUME TypeInv, NEW a \in Attempts, Uplink(a)
  PROVE  /\ pigeon'.exists = pigeon.exists /\ pigeon'.key = pigeon.key
         /\ \/ row'.claimed = row.claimed
            \/ row'.claimed = pigeon.key /\ pigeon.exists
<1>1. TypeOK
  BY DEF TypeInv
<1>2. ASSUME NEW plan \in Claiming(row.claimed), NEW base, NEW outcome,
             NEW isContact, NEW report,
             Finish(base, a, plan, outcome, isContact, report)
      PROVE  row'.claimed = row.claimed
  BY <1>2, FinishClaims DEF Claiming
<1>3. CASE Claim(a)
  <2> DEFINE claimed == [row EXCEPT !.claimed = Frame(a).val, !.line = att[a].line]
  <2>1. PICK plan \in ShadowPush(claimed, pigeon, now):
          Finish(att, a, plan, "claimed", TRUE, NoReport)
    BY <1>3 DEF Claim, FinishAtOnce
  <2>2. Frame(a).val \in Nat /\ att[a].line \in Lines \cup {NoLine}
    BY <1>1, <1>3, JudgingKey DEF Claim, Admitted, Judged, TypeOK, AttemptType
  <2>3. claimed \in RowType /\ claimed.claimed = Frame(a).val
    BY <1>1, <2>2 DEF TypeOK, RowType
  <2> HIDE DEF claimed
  <2>4. plan \in Claiming(Frame(a).val)
    BY <1>1, <2>1, <2>3, ShadowPushClaims DEF TypeOK
  <2>5. row'.claimed \in {row.claimed, Frame(a).val}
    BY <2>1, <2>4, FinishClaims DEF Claiming
  <2>6. Frame(a).val = pigeon.key /\ pigeon.exists /\ pigeon' = pigeon
    BY <1>3 DEF Claim, Admitted, FinishAtOnce
  <2> QED
    BY <2>5, <2>6
<1>4. CASE \/ RejectUnread(a) \/ ClaimRefused(a) \/ Unclaimed(a) \/ AnswerFota(a)
           \/ Paused(a) \/ Repeat(a) \/ RejectBody(a) \/ StoreLog(a)
  <2>1. pigeon' = pigeon
    BY <1>4 DEF RejectUnread, ClaimRefused, Unclaimed, AnswerFota, Paused, Repeat,
      RejectBody, StoreLog, FinishAtOnce
  <2>2. CASE AnswerFota(a)
    <3>1. PICK kind \in {"none", "chunk", "status"}:
            \E plan \in Deliverable({[row |-> row, downlink |->
                   [kind |-> kind, version |-> 0,
                    at |-> IF kind = "none" THEN 0 ELSE now]]}):
              Finish(att, a, plan, "answered", TRUE, NoReport)
      BY <2>2 DEF AnswerFota, FinishAtOnce
    <3> DEFINE asked == [row |-> row, downlink |->
                   [kind |-> kind, version |-> 0,
                    at |-> IF kind = "none" THEN 0 ELSE now]]
    <3>2. asked \in PlanType /\ asked.row = row
      BY <1>1, WindowTypes DEF TypeOK, PlanType, DownlinkType
    <3>3. asked \in Claiming(row.claimed)
      BY <3>2 DEF Claiming
    <3>4. Deliverable({asked}) \subseteq Claiming(row.claimed)
      BY <3>3, DeliverableClaims
    <3> QED
      BY <1>2, <2>1, <3>1, <3>4
  <2>3. CASE ~AnswerFota(a)
    <3>1. \E plan \in Claiming(row.claimed): \E outcome, isContact, report:
            Finish(att, a, plan, outcome, isContact, report)
      BY <1>1, <1>4, <2>3, PlansClaim DEF RejectUnread, ClaimRefused, Unclaimed,
        Paused, Repeat, RejectBody, StoreLog, FinishAtOnce
    <3> QED
      BY <1>2, <2>1, <3>1
  <2> QED
    BY <2>2, <2>3
<1>5. CASE StoreReport(a) \/ RepeatReport(a)
  <2>1. PICK p \in {pigeon, Reported(a)}:
          /\ pigeon' = p
          /\ \E plan \in Deliverable(ReportReply(a, p)): \E outcome, report:
               Finish(att, a, plan, outcome, TRUE, report)
    BY <1>5 DEF StoreReport, RepeatReport, FinishAtOnce
  <2>2. att[a].key \in Keys
    BY <1>5, JudgingKey DEF StoreReport, RepeatReport, Fresh, OnLine, Judged
  <2>3. p \in PigeonType /\ p.exists = pigeon.exists /\ p.key = pigeon.key
    BY <1>1, <2>1, <2>2, ReportType DEF Reported, TypeOK, PigeonType
  <2> DEFINE owed == [row EXCEPT !.awaiting = Awaiting(p)]
             answer == [kind |-> "status", version |-> p.current, at |-> now]
  <2>4. owed \in RowType /\ owed.claimed = row.claimed
    BY <1>1, <2>3, AwaitingType DEF TypeOK, RowType
  <2>5. answer \in DownlinkType
    BY <1>1, <2>3 DEF TypeOK, DownlinkType, PigeonType
  <2>6. ReportReply(a, p) = IF p.target > p.current THEN ShadowPush(owed, p, now)
                            ELSE {[row |-> owed, downlink |-> answer]}
    BY DEF ReportReply
  <2> HIDE DEF owed, answer
  <2>7. ReportReply(a, p) \subseteq Claiming(row.claimed)
    BY <1>1, <2>3, <2>4, <2>5, <2>6, ShadowPushClaims DEF Claiming, PlanType, TypeOK
  <2>8. Deliverable(ReportReply(a, p)) \subseteq Claiming(row.claimed)
    BY <2>7, DeliverableClaims
  <2> QED
    BY <1>2, <2>1, <2>3, <2>8
<1>6. CASE StoreReportUnread(a)
  <2>1. pigeon' = Reported(a) /\ row' = row
    BY <1>6 DEF StoreReportUnread
  <2> QED
    BY <1>1, <2>1 DEF Reported, TypeOK, PigeonType
<1>7. CASE EnqueueDone(a)
  <2>1. pigeon' = pigeon
    BY <1>7 DEF EnqueueDone
  <2>2. \/ row' = row
        \/ \E plan \in Deliverable(Reply(row, att[a].began)): \E base, isContact:
             Finish(base, a, plan, "stored", isContact, NoReport)
    BY <1>7 DEF EnqueueDone
  <2> QED
    BY <1>1, <1>2, <2>1, <2>2, PlansClaim
<1>8. CASE \/ Wait(a) \/ AnswerDuplicate(a) \/ AnswerNotFound(a)
           \/ AnswerBadHeader(a) \/ Refuse(a) \/ StartTelemetry(a) \/ EnqueueFailed(a)
  BY <1>8 DEF Wait, AnswerDuplicate, AnswerNotFound, AnswerBadHeader, Refuse,
    Dismiss, StartTelemetry, EnqueueFailed
<1> QED
  BY <1>3, <1>4, <1>5, <1>6, <1>7, <1>8 DEF Uplink

(* What the operations outside the uplinks do to the claim and the pigeon. *)
LEMMA OutsideClaims ==
  ASSUME TypeInv,
         \/ RunTail \/ UpdateShadow \/ Missed \/ ReportElsewhere \/ Reset \/ Tick
         \/ UNCHANGED vars \/ \E a \in Attempts: Arrive(a)
  PROVE  /\ row'.claimed = row.claimed
         /\ pigeon'.exists = pigeon.exists /\ pigeon'.key = pigeon.key
<1>1. row \in RowType /\ pigeon \in PigeonType
  BY DEF TypeInv, TypeOK
<1>2. CASE UpdateShadow
  <2>1. PICK changed \in BOOLEAN:
          LET p == IF changed THEN [pigeon EXCEPT !.target = @ + 1] ELSE pigeon
              owed == IF Awaiting(p) > row.awaiting
                      THEN [row EXCEPT !.awaiting = Awaiting(p)] ELSE row
          IN /\ pigeon' = p
             /\ row' \in {row, owed, [owed EXCEPT !.pushedVersion = p.target,
                                                  !.pushedAt = now]}
    BY <1>2 DEF UpdateShadow
  <2> DEFINE p == IF changed THEN [pigeon EXCEPT !.target = @ + 1] ELSE pigeon
             owed == IF Awaiting(p) > row.awaiting
                     THEN [row EXCEPT !.awaiting = Awaiting(p)] ELSE row
             pushed == [owed EXCEPT !.pushedVersion = p.target, !.pushedAt = now]
  <2>2. pigeon' = p /\ row' \in {row, owed, pushed}
    BY <2>1
  <2>3. p.exists = pigeon.exists /\ p.key = pigeon.key
    BY <1>1 DEF PigeonType
  <2>4. owed.claimed = row.claimed /\ "claimed" \in DOMAIN owed
    BY <1>1 DEF RowType
  <2> HIDE DEF owed, p
  <2>5. pushed.claimed = owed.claimed
    BY <2>4
  <2> QED
    BY <2>2, <2>3, <2>4, <2>5
<1>3. CASE RunTail \/ Missed
  <2>1. pigeon' = pigeon
    BY <1>3 DEF RunTail, SendAnswered, SendUnavailable, SyncReport, Missed
  <2>2. /\ [row EXCEPT !.pushedVersion = 0].claimed = row.claimed
        /\ [row EXCEPT !.pushedVersion = 0, !.pushedAt = 0].claimed = row.claimed
    BY <1>1 DEF RowType
  <2>3. row' \in {row, [row EXCEPT !.pushedVersion = 0],
                  [row EXCEPT !.pushedVersion = 0, !.pushedAt = 0]}
    BY <1>3 DEF RunTail, SendAnswered, SendUnavailable, Fault, SyncReport, Missed
  <2> QED
    BY <2>1, <2>2, <2>3
<1>4. CASE ReportElsewhere
  <2>1. PICK f \in Frames: pigeon' = [pigeon EXCEPT !.current = f.val, !.conf = f.conf]
    BY <1>4 DEF ReportElsewhere
  <2> QED
    BY <1>1, <1>4, <2>1 DEF ReportElsewhere, PigeonType
<1>5. CASE Reset \/ Tick \/ UNCHANGED vars \/ \E a \in Attempts: Arrive(a)
  BY <1>5 DEF Reset, Tick, vars, Arrive
<1> QED
  BY <1>2, <1>3, <1>4, <1>5

LEMMA NextClaimed ==
  TypeInv /\ ClaimedImpliesLive /\ [Next]_vars => ClaimedImpliesLive'
<1> SUFFICES ASSUME TypeInv, ClaimedImpliesLive, [Next]_vars
             PROVE  ClaimedImpliesLive'
  OBVIOUS
<1>1. row \in RowType /\ pigeon \in PigeonType
  BY DEF TypeInv, TypeOK
<1>2. ASSUME NEW a \in Attempts, Uplink(a) PROVE ClaimedImpliesLive'
  BY <1>2, UplinkClaims DEF ClaimedImpliesLive
<1>3. CASE \/ RunTail \/ UpdateShadow \/ Missed \/ ReportElsewhere \/ Reset \/ Tick
           \/ UNCHANGED vars \/ \E a \in Attempts: Arrive(a)
  BY <1>3, OutsideClaims DEF ClaimedImpliesLive
<1>4. CASE RefreshToken \/ Create
  <2>1. pigeon'.exists = TRUE
    BY <1>1, <1>4 DEF RefreshToken, Create, PigeonType
  <2> QED
    BY <2>1 DEF ClaimedImpliesLive
<1>5. CASE Delete
  <2>1. \/ row' = DefaultRow
        \/ row' = row /\ pigeon' = [pigeon EXCEPT !.owned = FALSE]
    BY <1>5 DEF Delete
  <2>2. DefaultRow.claimed = 0 /\ [pigeon EXCEPT !.owned = FALSE].exists = pigeon.exists
    BY <1>1 DEF DefaultRow, PigeonType
  <2> QED
    BY <2>1, <2>2 DEF ClaimedImpliesLive
<1> QED
  BY <1>2, <1>3, <1>4, <1>5 DEF Next

LEMMA InitClaim == Init => ClaimedImpliesLive /\ ClaimMatchesKey
<1> SUFFICES ASSUME Init PROVE ClaimedImpliesLive /\ ClaimMatchesKey
  OBVIOUS
<1>1. PICK claim \in {0, 1}: row = [DefaultRow EXCEPT !.claimed = claim]
  BY ClaimsAssumption DEF Init
<1>2. row.claimed = claim
  BY <1>1 DEF DefaultRow
<1> QED
  BY <1>2 DEF Init, ClaimedImpliesLive, ClaimMatchesKey

(* The uplink may skip the identity read of a claimed row: whatever fails, *)
(* and however delete, create and refresh interleave with an enqueue, a    *)
(* claimed row has a live pigeon.                                          *)
THEOREM ClaimedHolds == Spec => []ClaimedImpliesLive
BY InitType, NextType, InitClaim, NextClaimed, PTL DEF Spec

LEMMA NextMatches ==
  ASSUME "unclaim" \notin Faults
  PROVE  TypeInv /\ ClaimedImpliesLive /\ ClaimMatchesKey /\ [Next]_vars
           => ClaimMatchesKey'
<1> SUFFICES ASSUME TypeInv, ClaimedImpliesLive, ClaimMatchesKey, [Next]_vars
             PROVE  ClaimMatchesKey'
  OBVIOUS
<1>1. row \in RowType /\ pigeon \in PigeonType
  BY DEF TypeInv, TypeOK
<1>2. ASSUME NEW a \in Attempts, Uplink(a) PROVE ClaimMatchesKey'
  BY <1>2, UplinkClaims DEF ClaimMatchesKey
<1>3. CASE \/ RunTail \/ UpdateShadow \/ Missed \/ ReportElsewhere \/ Reset \/ Tick
           \/ UNCHANGED vars \/ \E a \in Attempts: Arrive(a)
  BY <1>3, OutsideClaims DEF ClaimMatchesKey
<1>4. CASE RefreshToken
  <2>1. row' = [row EXCEPT !.claimed = 0, !.line = NoLine]
    BY <1>4 DEF RefreshToken, Fault
  <2>2. row'.claimed = 0
    BY <1>1, <2>1 DEF RowType
  <2> QED
    BY <2>2 DEF ClaimMatchesKey
<1>5. CASE Create
  BY <1>5 DEF Create, ClaimedImpliesLive, ClaimMatchesKey
<1>6. CASE Delete
  <2>1. \/ row' = DefaultRow
        \/ row' = row /\ pigeon' = [pigeon EXCEPT !.owned = FALSE]
    BY <1>6 DEF Delete
  <2>2. DefaultRow.claimed = 0 /\ [pigeon EXCEPT !.owned = FALSE].key = pigeon.key
    BY <1>1 DEF DefaultRow, PigeonType
  <2> QED
    BY <2>1, <2>2 DEF ClaimMatchesKey
<1> QED
  BY <1>2, <1>3, <1>4, <1>5, <1>6 DEF Next

(* A device proved only an old key is never the claimed one, unless a      *)
(* refresh fails between its two statements.                               *)
THEOREM ClaimMatchesHolds ==
  ASSUME "unclaim" \notin Faults
  PROVE  Spec => []ClaimMatchesKey
BY InitType, NextType, InitClaim, NextClaimed, NextMatches, PTL DEF Spec

-----------------------------------------------------------------------------
(* The push on record.                                                     *)

(* The downlink that carries the push a row records.                       *)
PushOf(r) ==
  [kind |-> "shadow", version |-> r.pushedVersion, at |-> r.pushedAt]

(* PushRecordedIsReal, strengthened: the push was made for the pigeon that *)
(* lives now, and a deleted pigeon has none.                               *)
Underway == \E tail \in tails: tail.life = pigeon.life /\ tail.downlink = PushOf(row)

PushIsReal ==
  row.pushedVersion # 0 =>
    /\ pigeon.exists
    /\ \/ [life |-> pigeon.life, version |-> row.pushedVersion] \in sent
       \/ Underway

(* A row that records the same push as the present one.                    *)
SamePush(r) == r.pushedVersion = row.pushedVersion /\ r.pushedAt = row.pushedAt

(* The plans that leave the push as it is, drop it, or make the one they   *)
(* record: every plan of the handler.                                      *)
Pushing ==
  {plan \in PlanType :
     \/ SamePush(plan.row)
     \/ plan.row.pushedVersion = 0
     \/ pigeon.exists /\ plan.downlink = PushOf(plan.row)}

LEMMA KeepPushes ==
  ASSUME NEW r \in RowType, SamePush(r)
  PROVE  Keep(r) \in Pushing
BY KeepType DEF Pushing, Keep

LEMMA ShadowPushes ==
  ASSUME NEW r \in RowType, SamePush(r), NEW p \in PigeonType, NEW t \in Times,
         pigeon.exists
  PROVE  ShadowPush(r, p, t) \subseteq Pushing
<1> DEFINE pushed == [r EXCEPT !.awaiting = Awaiting(p), !.pushedVersion = p.target,
                               !.pushedAt = t]
<1> SUFFICES ASSUME NEW plan \in ShadowPush(r, p, t) PROVE plan \in Pushing
  OBVIOUS
<1>1. plan \in PlanType
  BY ShadowPushType
<1>2. \/ /\ plan.row = pushed
         /\ plan.downlink = [kind |-> "shadow", version |-> p.target, at |-> t]
      \/ plan = Keep(r)
  BY DEF ShadowPush, Fault
<1>3. pushed.pushedVersion = p.target /\ pushed.pushedAt = t
  BY DEF RowType
<1> HIDE DEF pushed
<1> QED
  BY <1>1, <1>2, <1>3, KeepPushes DEF Pushing, PushOf

LEMMA NoticePushes ==
  ASSUME row \in RowType, now \in Times
  PROVE  Notice(row) \in Pushing
<1>1. SamePush([row EXCEPT !.noticeAt = now]) /\ SamePush(row)
  BY DEF RowType, SamePush
<1> QED
  BY <1>1, NoticeType, KeepPushes DEF Notice, Pushing

LEMMA DeliverablePushes ==
  ASSUME NEW plans \in SUBSET Pushing
  PROVE  Deliverable(plans) \subseteq Pushing
<1> SUFFICES ASSUME NEW plan \in plans PROVE Withheld(plan) \in Pushing
  BY DEF Deliverable, Fault
<1>1. plan \in PlanType /\ plan.row \in RowType
  BY DEF Pushing, PlanType
<1>2. Withheld(plan) \in PlanType
  BY <1>1, WithheldType
<1>3. CASE plan.downlink.kind = "shadow"
  <2>1. [plan.row EXCEPT !.pushedVersion = 0, !.pushedAt = 0].pushedVersion = 0
    BY <1>1 DEF RowType
  <2> QED
    BY <1>2, <1>3, <2>1 DEF Withheld, Pushing
<1>4. CASE plan.downlink.kind # "shadow"
  <2>1. plan.downlink # PushOf(plan.row)
    BY <1>4 DEF PushOf
  <2> QED
    BY <1>2, <1>4, <2>1 DEF Withheld, Pushing
<1> QED
  BY <1>3, <1>4

LEMMA PlansPush ==
  ASSUME TypeOK, ClaimedImpliesLive, NEW a \in Attempts
  PROVE  /\ Keep(row) \in Pushing
         /\ Notice(row) \in Pushing
         /\ Deliverable({Notice(row)}) \subseteq Pushing
         /\ Deliverable(Reply(row, now)) \subseteq Pushing
         /\ Deliverable(Reply(row, att[a].began)) \subseteq Pushing
<1>1. row \in RowType /\ now \in Times /\ pigeon \in PigeonType
      /\ att[a].began \in Times /\ SamePush(row)
  BY DEF TypeOK, AttemptType, SamePush
<1>2. Notice(row) \in Pushing /\ Keep(row) \in Pushing
  BY <1>1, NoticePushes, KeepPushes
<1>3. ASSUME NEW t \in Times PROVE Reply(row, t) \subseteq Pushing
  <2>1. ReplyDue(row, t) => pigeon.exists
    BY DEF ReplyDue, ClaimedImpliesLive
  <2> QED
    BY <1>1, <1>2, <2>1, ShadowPushes DEF Reply
<1> QED
  BY <1>1, <1>2, <1>3, DeliverablePushes

(* finish_nidd_uplink spawns the tail of every push it records.            *)
LEMMA FinishPushes ==
  ASSUME TypeOK, PushIsReal, NEW plan \in Pushing, NEW base, NEW a, NEW outcome,
         NEW isContact, NEW report,
         Finish(base, a, plan, outcome, isContact, report),
         pigeon'.life = pigeon.life, pigeon'.exists = pigeon.exists, sent' = sent
  PROVE  PushIsReal'
<1>1. plan \in PlanType /\ plan.row \in RowType
  BY DEF Pushing, PlanType
<1>2. tails \subseteq tails'
  BY DEF Finish
<1>3. CASE SamePush(row')
  BY <1>2, <1>3 DEF PushIsReal, Underway, PushOf, SamePush
<1>4. CASE ~SamePush(row')
  <2>1. \A key, settled:
          /\ Remember(plan.row, key, settled).pushedVersion = plan.row.pushedVersion
          /\ Remember(plan.row, key, settled).pushedAt = plan.row.pushedAt
    BY <1>1 DEF Remember, RowType
  <2>2. row' # row
    BY <1>4 DEF SamePush
  <2>3. /\ row'.pushedVersion = plan.row.pushedVersion
        /\ row'.pushedAt = plan.row.pushedAt
        /\ tails' = tails \cup Spawn(a, plan.downlink, report)
    BY <2>1, <2>2 DEF Finish
  <2>4. CASE row'.pushedVersion = 0
    BY <2>4 DEF PushIsReal
  <2>5. CASE pigeon.exists /\ plan.downlink = PushOf(plan.row)
    <3>1. plan.downlink # NoDownlink
      BY <2>5 DEF PushOf, NoDownlink
    <3>2. [from |-> a, life |-> pigeon.life, downlink |-> plan.downlink,
           report |-> report] \in tails'
      BY <2>3, <3>1 DEF Spawn
    <3>3. plan.downlink = PushOf(row)'
      BY <2>3, <2>5 DEF PushOf
    <3>4. Underway'
      BY <3>2, <3>3 DEF Underway
    <3> QED
      BY <2>5, <3>4 DEF PushIsReal
  <2>6. ~SamePush(plan.row)
    BY <1>4, <2>3 DEF SamePush
  <2> QED
    BY <2>3, <2>4, <2>5, <2>6 DEF Pushing
<1> QED
  BY <1>3, <1>4

(* The plan of a report is one of them, whichever pigeon p it is made of.  *)
LEMMA ReportPushes ==
  ASSUME TypeOK, pigeon.exists, NEW a \in Attempts, NEW p \in PigeonType
  PROVE  Deliverable(ReportReply(a, p)) \subseteq Pushing
<1> DEFINE owed == [row EXCEPT !.awaiting = Awaiting(p)]
           answer == [kind |-> "status", version |-> p.current, at |-> now]
<1>1. owed \in RowType /\ SamePush(owed)
  BY AwaitingType DEF TypeOK, RowType, SamePush
<1>2. answer \in DownlinkType
  BY DEF TypeOK, DownlinkType, PigeonType
<1>3. ReportReply(a, p) = IF p.target > p.current THEN ShadowPush(owed, p, now)
                          ELSE {[row |-> owed, downlink |-> answer]}
  BY DEF ReportReply
<1> HIDE DEF owed, answer
<1>4. ShadowPush(owed, p, now) \subseteq Pushing
  BY <1>1, ShadowPushes DEF TypeOK
<1>5. [row |-> owed, downlink |-> answer] \in Pushing
  BY <1>1, <1>2 DEF Pushing, PlanType
<1>6. ReportReply(a, p) \subseteq Pushing
  BY <1>3, <1>4, <1>5
<1> QED
  BY <1>6, DeliverablePushes

LEMMA UplinkPushes ==
  ASSUME TypeInv, ClaimedImpliesLive, PushIsReal, NEW a \in Attempts, Uplink(a)
  PROVE  PushIsReal'
<1>1. TypeOK /\ row \in RowType /\ pigeon \in PigeonType
  BY DEF TypeInv, TypeOK
<1>2. CASE Claim(a)
  <2> DEFINE claimed == [row EXCEPT !.claimed = Frame(a).val, !.line = att[a].line]
  <2>1. PICK plan \in ShadowPush(claimed, pigeon, now):
          Finish(att, a, plan, "claimed", TRUE, NoReport)
    BY <1>2 DEF Claim, FinishAtOnce
  <2>2. Frame(a).val \in Nat /\ att[a].line \in Lines \cup {NoLine}
    BY <1>1, <1>2, JudgingKey DEF Claim, Admitted, Judged, TypeOK, AttemptType
  <2>3. claimed \in RowType /\ SamePush(claimed)
    BY <1>1, <2>2 DEF RowType, SamePush
  <2> HIDE DEF claimed
  <2>4. pigeon.exists /\ pigeon' = pigeon /\ sent' = sent
    BY <1>2 DEF Claim, Admitted, FinishAtOnce, Outside
  <2>5. plan \in Pushing
    BY <1>1, <2>1, <2>3, <2>4, ShadowPushes DEF TypeOK
  <2> QED
    BY <1>1, <2>1, <2>4, <2>5, FinishPushes
<1>3. CASE AnswerFota(a)
  <2>1. PICK kind \in {"none", "chunk", "status"}:
          \E plan \in Deliverable({[row |-> row, downlink |->
                 [kind |-> kind, version |-> 0,
                  at |-> IF kind = "none" THEN 0 ELSE now]]}):
            Finish(att, a, plan, "answered", TRUE, NoReport)
    BY <1>3 DEF AnswerFota, FinishAtOnce
  <2> DEFINE asked == [row |-> row, downlink |->
                 [kind |-> kind, version |-> 0,
                  at |-> IF kind = "none" THEN 0 ELSE now]]
  <2>2. asked \in PlanType /\ asked.row = row
    BY <1>1, WindowTypes DEF TypeOK, PlanType, DownlinkType
  <2>3. asked \in Pushing
    BY <2>2 DEF Pushing, SamePush
  <2>4. Deliverable({asked}) \subseteq Pushing
    BY <2>3, DeliverablePushes
  <2>5. pigeon' = pigeon /\ sent' = sent
    BY <1>3 DEF AnswerFota, FinishAtOnce, Outside
  <2> QED
    BY <1>1, <2>1, <2>4, <2>5, FinishPushes
<1>4. CASE \/ RejectUnread(a) \/ ClaimRefused(a) \/ Unclaimed(a) \/ Paused(a)
           \/ Repeat(a) \/ RejectBody(a) \/ StoreLog(a)
  <2>1. pigeon' = pigeon /\ sent' = sent
    BY <1>4 DEF RejectUnread, ClaimRefused, Unclaimed, Paused, Repeat, RejectBody,
      StoreLog, FinishAtOnce, Outside
  <2>2. \E plan \in Pushing: \E outcome, isContact, report:
          Finish(att, a, plan, outcome, isContact, report)
    BY <1>1, <1>4, PlansPush DEF RejectUnread, ClaimRefused, Unclaimed, Paused,
      Repeat, RejectBody, StoreLog, FinishAtOnce
  <2> QED
    BY <1>1, <2>1, <2>2, FinishPushes
<1>5. CASE StoreReport(a) \/ RepeatReport(a)
  <2>1. PICK p \in {pigeon, Reported(a)}:
          /\ pigeon' = p
          /\ \E plan \in Deliverable(ReportReply(a, p)): \E outcome, report:
               Finish(att, a, plan, outcome, TRUE, report)
    BY <1>5 DEF StoreReport, RepeatReport, FinishAtOnce
  <2>2. att[a].key \in Keys /\ pigeon.exists /\ sent' = sent
    BY <1>5, JudgingKey DEF StoreReport, RepeatReport, FinishAtOnce, Fresh, OnLine,
      Judged, OnClaimedLine, ClaimedImpliesLive, Outside
  <2>3. p \in PigeonType /\ p.exists = pigeon.exists /\ p.life = pigeon.life
    BY <1>1, <2>1, <2>2, ReportType DEF Reported, PigeonType
  <2>4. Deliverable(ReportReply(a, p)) \subseteq Pushing
    BY <1>1, <2>2, <2>3, ReportPushes
  <2> QED
    BY <1>1, <2>1, <2>2, <2>3, <2>4, FinishPushes
<1>6. CASE StoreReportUnread(a)
  <2>1. pigeon' = Reported(a) /\ row' = row /\ tails' = tails /\ sent' = sent
    BY <1>6 DEF StoreReportUnread, Outside
  <2>2. pigeon'.exists = pigeon.exists /\ pigeon'.life = pigeon.life
    BY <1>1, <2>1 DEF Reported, PigeonType
  <2> QED
    BY <2>1, <2>2 DEF PushIsReal, Underway, PushOf
<1>7. CASE EnqueueDone(a)
  <2>1. pigeon' = pigeon /\ sent' = sent
    BY <1>7 DEF EnqueueDone, Outside
  <2>2. \/ row' = row /\ tails' = tails
        \/ \E plan \in Deliverable(Reply(row, att[a].began)): \E base, isContact:
             Finish(base, a, plan, "stored", isContact, NoReport)
    BY <1>7 DEF EnqueueDone
  <2>3. CASE row' = row /\ tails' = tails
    BY <2>1, <2>3 DEF PushIsReal, Underway, PushOf
  <2>4. CASE ~(row' = row /\ tails' = tails)
    BY <1>1, <2>1, <2>2, <2>4, PlansPush, FinishPushes
  <2> QED
    BY <2>3, <2>4
<1>8. CASE \/ Wait(a) \/ AnswerDuplicate(a) \/ AnswerNotFound(a)
           \/ AnswerBadHeader(a) \/ Refuse(a) \/ StartTelemetry(a) \/ EnqueueFailed(a)
  <2>1. UNCHANGED <<pigeon, row, tails, sent>>
    BY <1>8 DEF Wait, AnswerDuplicate, AnswerNotFound, AnswerBadHeader, Refuse,
      Dismiss, StartTelemetry, EnqueueFailed, Outside
  <2> QED
    BY <2>1 DEF PushIsReal, Underway, PushOf
<1> QED
  BY <1>2, <1>3, <1>4, <1>5, <1>6, <1>7, <1>8 DEF Uplink

(* A tail that ends leaves its push answered, or taken back.               *)
LEMMA TailPushes ==
  ASSUME "unmark" \notin Faults, TypeInv, PushIsReal, RunTail
  PROVE  PushIsReal'
<1>1. row \in RowType /\ tails \subseteq TailType
  BY DEF TypeInv, TypeOK
<1>2. PICK tail \in tails: \/ SendAnswered(tail) \/ SendUnavailable(tail)
                           \/ SyncReport(tail)
  BY DEF RunTail
<1>3. pigeon' = pigeon /\ tails \ {tail} \subseteq tails' /\ sent \subseteq sent'
  BY <1>2 DEF SendAnswered, SendUnavailable, SyncReport, EndStep, Outside
<1>4. CASE row' # row
  <2>1. row' = [row EXCEPT !.pushedVersion = 0, !.pushedAt = 0]
    BY <1>2, <1>4 DEF SendAnswered, SendUnavailable, SyncReport, Fault
  <2>2. row'.pushedVersion = 0
    BY <1>1, <2>1 DEF RowType
  <2> QED
    BY <2>2 DEF PushIsReal
<1>5. CASE row' = row
  <2> SUFFICES ASSUME row.pushedVersion # 0,
                      [life |-> pigeon.life, version |-> row.pushedVersion] \notin sent'
               PROVE  Underway'
    BY <1>3, <1>5 DEF PushIsReal
  <2>1. PICK other \in tails: other.life = pigeon.life /\ other.downlink = PushOf(row)
    BY <1>3 DEF PushIsReal, Underway
  <2>2. /\ other.downlink # NoDownlink
        /\ other.downlink.kind = "shadow"
        /\ other.downlink.version = row.pushedVersion
        /\ other.downlink.at = row.pushedAt
    BY <2>1 DEF PushOf, NoDownlink
  <2>3. other # tail
    <3>1. ~(other = tail /\ SendAnswered(tail))
      BY <2>1, <2>2 DEF SendAnswered
    <3>2. ~(other = tail /\ SendUnavailable(tail))
      <4> SUFFICES ASSUME other = tail, SendUnavailable(tail) PROVE FALSE
        OBVIOUS
      <4>1. row' = [row EXCEPT !.pushedVersion = 0, !.pushedAt = 0]
        BY <2>2 DEF SendUnavailable, Fault
      <4>2. row'.pushedVersion = 0
        BY <1>1, <4>1 DEF RowType
      <4> QED
        BY <1>5, <4>2
    <3>3. ~(other = tail /\ SyncReport(tail))
      BY <2>2 DEF SyncReport
    <3> QED
      BY <1>2, <3>1, <3>2, <3>3
  <2>4. other \in tails' /\ PushOf(row)' = PushOf(row)
    BY <1>3, <1>5, <2>3 DEF PushOf
  <2> QED
    BY <1>3, <2>1, <2>4 DEF Underway
<1> QED
  BY <1>4, <1>5

LEMMA UpdateShadowPushes ==
  ASSUME TypeInv, PushIsReal, UpdateShadow
  PROVE  PushIsReal'
<1>1. row \in RowType /\ pigeon \in PigeonType
  BY DEF TypeInv, TypeOK
<1>2. PICK changed \in BOOLEAN:
        LET p == IF changed THEN [pigeon EXCEPT !.target = @ + 1] ELSE pigeon
            owed == IF Awaiting(p) > row.awaiting
                    THEN [row EXCEPT !.awaiting = Awaiting(p)] ELSE row
        IN /\ pigeon' = p
           /\ \/ row' \in {row, owed} /\ tails' = tails
              \/ /\ row' = [owed EXCEPT !.pushedVersion = p.target, !.pushedAt = now]
                 /\ tails' = tails \cup
                      Spawn("dashboard",
                            [kind |-> "shadow", version |-> p.target, at |-> now],
                            NoReport)
  BY DEF UpdateShadow
<1> DEFINE p == IF changed THEN [pigeon EXCEPT !.target = @ + 1] ELSE pigeon
           owed == IF Awaiting(p) > row.awaiting
                   THEN [row EXCEPT !.awaiting = Awaiting(p)] ELSE row
           push == [kind |-> "shadow", version |-> p.target, at |-> now]
<1>3. /\ pigeon' = p
      /\ \/ row' \in {row, owed} /\ tails' = tails
         \/ /\ row' = [owed EXCEPT !.pushedVersion = p.target, !.pushedAt = now]
            /\ tails' = tails \cup Spawn("dashboard", push, NoReport)
  BY <1>2
<1>4. p.exists = pigeon.exists /\ p.life = pigeon.life
  BY <1>1 DEF PigeonType
<1>5. SamePush(owed) /\ SamePush(row)
      /\ "pushedVersion" \in DOMAIN owed /\ "pushedAt" \in DOMAIN owed
  BY <1>1 DEF RowType, SamePush
<1>6. pigeon.exists /\ sent' = sent
  BY DEF UpdateShadow
<1> HIDE DEF p, owed
<1>7. CASE row' \in {row, owed} /\ tails' = tails
  <2>1. SamePush(row')
    BY <1>5, <1>7
  <2> QED
    BY <1>3, <1>4, <1>6, <1>7, <2>1 DEF PushIsReal, Underway, PushOf, SamePush
<1>8. CASE /\ row' = [owed EXCEPT !.pushedVersion = p.target, !.pushedAt = now]
           /\ tails' = tails \cup Spawn("dashboard", push, NoReport)
  <2>1. push = PushOf(row)'
    BY <1>5, <1>8 DEF PushOf
  <2>2. push # NoDownlink
    BY DEF NoDownlink
  <2> HIDE DEF push
  <2>3. [from |-> "dashboard", life |-> pigeon.life, downlink |-> push,
         report |-> NoReport] \in tails'
    BY <1>8, <2>2 DEF Spawn
  <2>4. Underway'
    BY <1>3, <1>4, <2>1, <2>3 DEF Underway
  <2> QED
    BY <1>3, <1>4, <1>6, <2>4 DEF PushIsReal
<1> QED
  BY <1>3, <1>7, <1>8

LEMMA NextPushes ==
  ASSUME "reset" \notin Faults, "unmark" \notin Faults
  PROVE  TypeInv /\ ClaimedImpliesLive /\ PushIsReal /\ [Next]_vars => PushIsReal'
<1> SUFFICES ASSUME TypeInv, ClaimedImpliesLive, PushIsReal, [Next]_vars
             PROVE  PushIsReal'
  OBVIOUS
<1>1. row \in RowType /\ pigeon \in PigeonType
  BY DEF TypeInv, TypeOK
<1>2. ASSUME NEW a \in Attempts, Uplink(a) PROVE PushIsReal'
  BY <1>2, UplinkPushes
<1>3. CASE RunTail \/ UpdateShadow
  BY <1>3, TailPushes, UpdateShadowPushes
<1>4. CASE Tick \/ UNCHANGED vars \/ \E a \in Attempts: Arrive(a)
  <2>1. UNCHANGED <<pigeon, row, tails, sent>>
    BY <1>4 DEF Tick, vars, Arrive, Outside
  <2> QED
    BY <2>1 DEF PushIsReal, Underway, PushOf
<1>5. CASE Missed
  <2>1. row' = [row EXCEPT !.pushedVersion = 0]
    BY <1>5 DEF Missed
  <2>2. row'.pushedVersion = 0
    BY <1>1, <2>1 DEF RowType
  <2> QED
    BY <2>2 DEF PushIsReal
<1>6. CASE ReportElsewhere \/ RefreshToken
  <2>1. tails' = tails /\ sent' = sent /\ SamePush(row')
    BY <1>1, <1>6 DEF ReportElsewhere, RefreshToken, Outside, SamePush, RowType
  <2>2. pigeon'.exists = pigeon.exists /\ pigeon'.life = pigeon.life
    BY <1>1, <1>6 DEF ReportElsewhere, RefreshToken, PigeonType
  <2> QED
    BY <2>1, <2>2 DEF PushIsReal, Underway, PushOf, SamePush
<1>7. CASE Delete
  <2>1. tails' = tails /\ sent' = sent
    BY <1>7 DEF Delete, Outside
  <2>2. \/ row' = DefaultRow
        \/ row' = row /\ pigeon' = [pigeon EXCEPT !.owned = FALSE]
    BY <1>7 DEF Delete
  <2>3. /\ DefaultRow.pushedVersion = 0
        /\ [pigeon EXCEPT !.owned = FALSE].exists = pigeon.exists
        /\ [pigeon EXCEPT !.owned = FALSE].life = pigeon.life
    BY <1>1 DEF DefaultRow, PigeonType
  <2> QED
    BY <2>1, <2>2, <2>3 DEF PushIsReal, Underway, PushOf
<1>8. CASE Create
  BY <1>8 DEF Create, PushIsReal
<1>9. ~Reset
  BY DEF Reset
<1> QED
  BY <1>2, <1>3, <1>4, <1>5, <1>6, <1>7, <1>8, <1>9 DEF Next

(* A push on record was answered by ThingSpace or is still to be sent, in  *)
(* this pigeon's own life, unless a reset of the object lost its tails or  *)
(* the write that marks an unsent push failed; any other step may fail.    *)
THEOREM PushRecordedHolds ==
  ASSUME "reset" \notin Faults, "unmark" \notin Faults
  PROVE  Spec => []PushRecordedIsReal
<1>1. Init => PushIsReal
  <2> SUFFICES ASSUME Init PROVE row.pushedVersion = 0
    BY DEF PushIsReal
  <2> QED
    BY DEF Init, DefaultRow
<1>2. PushIsReal => PushRecordedIsReal
  BY DEF PushIsReal, PushRecordedIsReal, Underway, PushOf
<1> QED
  BY <1>1, <1>2, InitType, NextType, InitClaim, NextClaimed, NextPushes, PTL DEF Spec

-----------------------------------------------------------------------------
(* The shadow that is owed.                                                *)

(* The plans that record one of these versions as owed.                    *)
Owing(versions) == {plan \in PlanType : plan.row.awaiting \in versions}

(* What is on record as owed, and what is owed.                            *)
Debts == {row.awaiting, Awaiting(pigeon)}

LEMMA KeepOwes ==
  ASSUME NEW r \in RowType, NEW versions, r.awaiting \in versions
  PROVE  Keep(r) \in Owing(versions)
BY KeepType DEF Owing, Keep

(* Only a shadow that was not read leaves the debt as it stood.            *)
LEMMA ShadowPushOwes ==
  ASSUME "shadowRead" \notin Faults,
         NEW r \in RowType, NEW p \in PigeonType, NEW t \in Times
  PROVE  ShadowPush(r, p, t) \subseteq Owing({Awaiting(p)})
<1> SUFFICES ASSUME NEW plan \in ShadowPush(r, p, t)
             PROVE  plan \in Owing({Awaiting(p)})
  OBVIOUS
<1>1. plan \in PlanType
  BY ShadowPushType
<1>2. plan.row = [r EXCEPT !.awaiting = Awaiting(p), !.pushedVersion = p.target,
                           !.pushedAt = t]
  BY DEF ShadowPush, Fault
<1>3. plan.row.awaiting = Awaiting(p)
  BY <1>2 DEF RowType
<1> QED
  BY <1>1, <1>3 DEF Owing

LEMMA DeliverableOwes ==
  ASSUME NEW versions, NEW plans \in SUBSET Owing(versions)
  PROVE  Deliverable(plans) \subseteq Owing(versions)
<1> SUFFICES ASSUME NEW plan \in plans PROVE Withheld(plan) \in Owing(versions)
  BY DEF Deliverable, Fault
<1>1. plan \in PlanType /\ plan.row \in RowType /\ plan.row.awaiting \in versions
  BY DEF Owing, PlanType
<1>2. [plan.row EXCEPT !.pushedVersion = 0, !.pushedAt = 0].awaiting = plan.row.awaiting
  BY <1>1 DEF RowType
<1> QED
  BY <1>1, <1>2, WithheldType DEF Owing, Withheld

(* What the plans of the row and pigeon as they are record as owed.        *)
LEMMA PlansOwe ==
  ASSUME "shadowRead" \notin Faults, TypeOK, NEW a \in Attempts
  PROVE  /\ Keep(row) \in Owing(Debts)
         /\ Notice(row) \in Owing(Debts)
         /\ Deliverable({Notice(row)}) \subseteq Owing(Debts)
         /\ Deliverable(Reply(row, now)) \subseteq Owing(Debts)
         /\ Deliverable(Reply(row, att[a].began)) \subseteq Owing(Debts)
<1>1. row \in RowType /\ now \in Times /\ pigeon \in PigeonType
      /\ att[a].began \in Times
  BY DEF TypeOK, AttemptType
<1>2. Keep(row) \in Owing(Debts)
  BY <1>1, KeepOwes DEF Debts
<1>3. Notice(row) \in Owing(Debts)
  <2>1. [row EXCEPT !.noticeAt = now].awaiting = row.awaiting
    BY <1>1 DEF RowType
  <2>2. Notice(row).row.awaiting = row.awaiting
    BY <2>1 DEF Notice, Keep
  <2> QED
    BY <1>1, <2>2, NoticeType DEF Owing, Debts
<1>4. ASSUME NEW t \in Times PROVE Reply(row, t) \subseteq Owing(Debts)
  <2>1. ShadowPush(row, pigeon, t) \subseteq Owing({Awaiting(pigeon)})
    BY <1>1, ShadowPushOwes
  <2> QED
    BY <1>2, <2>1 DEF Reply, Owing, Debts
<1> QED
  BY <1>1, <1>2, <1>3, <1>4, DeliverableOwes

LEMMA ReportOwes ==
  ASSUME "shadowRead" \notin Faults, TypeOK, NEW a \in Attempts, NEW p \in PigeonType
  PROVE  Deliverable(ReportReply(a, p)) \subseteq Owing({Awaiting(p)})
<1> DEFINE owed == [row EXCEPT !.awaiting = Awaiting(p)]
           answer == [kind |-> "status", version |-> p.current, at |-> now]
<1>1. owed \in RowType /\ owed.awaiting = Awaiting(p)
  BY AwaitingType DEF TypeOK, RowType
<1>2. answer \in DownlinkType
  BY DEF TypeOK, DownlinkType, PigeonType
<1>3. ReportReply(a, p) = IF p.target > p.current THEN ShadowPush(owed, p, now)
                          ELSE {[row |-> owed, downlink |-> answer]}
  BY DEF ReportReply
<1> HIDE DEF owed, answer
<1>4. ShadowPush(owed, p, now) \subseteq Owing({Awaiting(p)})
  BY <1>1, ShadowPushOwes DEF TypeOK
<1>5. [row |-> owed, downlink |-> answer] \in Owing({Awaiting(p)})
  BY <1>1, <1>2 DEF Owing, PlanType
<1>6. ReportReply(a, p) \subseteq Owing({Awaiting(p)})
  BY <1>3, <1>4, <1>5
<1> QED
  BY <1>6, DeliverableOwes

LEMMA FinishOwes ==
  ASSUME NEW plan \in PlanType, NEW base, NEW a, NEW outcome, NEW isContact,
         NEW report, Finish(base, a, plan, outcome, isContact, report)
  PROVE  \/ row' = row
         \/ row'.awaiting = plan.row.awaiting
<1>1. \A key, settled: Remember(plan.row, key, settled).awaiting = plan.row.awaiting
  BY DEF Remember, PlanType, RowType
<1>2. \/ row' = row \/ row' = plan.row
      \/ \E key, settled: row' = Remember(plan.row, key, settled)
  BY DEF Finish
<1> QED
  BY <1>1, <1>2

(* What a segment of an uplink does to the debt.                           *)
LEMMA UplinkOwes ==
  ASSUME "shadowRead" \notin Faults, TypeInv, NEW a \in Attempts, Uplink(a)
  PROVE  \/ row' = row /\ pigeon' \in {pigeon, Reported(a)}
         \/ row'.awaiting = Awaiting(pigeon')
         \/ /\ row'.awaiting = row.awaiting /\ row'.claimed = row.claimed
            /\ pigeon' = pigeon
<1>1. TypeOK /\ row \in RowType /\ pigeon \in PigeonType
  BY DEF TypeInv, TypeOK
<1> DEFINE Either == Owing(Debts) \cap Claiming(row.claimed)
<1>2. ASSUME NEW plan \in Either, NEW base, NEW outcome, NEW isContact, NEW report,
             Finish(base, a, plan, outcome, isContact, report), pigeon' = pigeon
      PROVE  \/ row' = row
             \/ row'.awaiting = Awaiting(pigeon')
             \/ row'.awaiting = row.awaiting /\ row'.claimed = row.claimed
  <2>1. plan \in PlanType /\ plan.row.awaiting \in {row.awaiting, Awaiting(pigeon)}
    BY DEF Owing, Debts
  <2>2. row'.claimed = row.claimed
    BY <1>2, FinishClaims DEF Claiming
  <2>3. row' = row \/ row'.awaiting = plan.row.awaiting
    BY <1>2, <2>1, FinishOwes
  <2> QED
    BY <1>2, <2>1, <2>2, <2>3
<1>3. CASE Claim(a)
  <2> DEFINE claimed == [row EXCEPT !.claimed = Frame(a).val, !.line = att[a].line]
  <2>1. PICK plan \in ShadowPush(claimed, pigeon, now):
          Finish(att, a, plan, "claimed", TRUE, NoReport)
    BY <1>3 DEF Claim, FinishAtOnce
  <2>2. Frame(a).val \in Nat /\ att[a].line \in Lines \cup {NoLine}
    BY <1>1, <1>3, JudgingKey DEF Claim, Admitted, Judged, TypeOK, AttemptType
  <2>3. claimed \in RowType
    BY <1>1, <2>2 DEF RowType
  <2> HIDE DEF claimed
  <2>4. plan \in Owing({Awaiting(pigeon)})
    BY <1>1, <2>1, <2>3, ShadowPushOwes DEF TypeOK
  <2>5. pigeon' = pigeon
    BY <1>3 DEF Claim, FinishAtOnce
  <2> QED
    BY <2>1, <2>4, <2>5, FinishOwes DEF Owing
<1>4. CASE AnswerFota(a)
  <2>1. PICK kind \in {"none", "chunk", "status"}:
          \E plan \in Deliverable({[row |-> row, downlink |->
                 [kind |-> kind, version |-> 0,
                  at |-> IF kind = "none" THEN 0 ELSE now]]}):
            Finish(att, a, plan, "answered", TRUE, NoReport)
    BY <1>4 DEF AnswerFota, FinishAtOnce
  <2> DEFINE asked == [row |-> row, downlink |->
                 [kind |-> kind, version |-> 0,
                  at |-> IF kind = "none" THEN 0 ELSE now]]
  <2>2. asked \in PlanType /\ asked.row = row
    BY <1>1, WindowTypes DEF TypeOK, PlanType, DownlinkType
  <2>3. Deliverable({asked}) \subseteq Either
    <3>1. asked \in Owing(Debts) /\ asked \in Claiming(row.claimed)
      BY <2>2 DEF Owing, Claiming, Debts
    <3> QED
      BY <3>1, DeliverableOwes, DeliverableClaims
  <2>4. pigeon' = pigeon
    BY <1>4 DEF AnswerFota, FinishAtOnce
  <2> HIDE DEF Either
  <2> QED
    BY <1>2, <2>1, <2>3, <2>4
<1>5. CASE \/ RejectUnread(a) \/ ClaimRefused(a) \/ Unclaimed(a) \/ Paused(a)
           \/ Repeat(a) \/ RejectBody(a) \/ StoreLog(a)
  <2>1. pigeon' = pigeon
    BY <1>5 DEF RejectUnread, ClaimRefused, Unclaimed, Paused, Repeat, RejectBody,
      StoreLog, FinishAtOnce
  <2>2. /\ Keep(row) \in Either /\ Notice(row) \in Either
        /\ Deliverable({Notice(row)}) \subseteq Either
        /\ Deliverable(Reply(row, now)) \subseteq Either
    BY <1>1, PlansOwe, PlansClaim
  <2> HIDE DEF Either
  <2>3. \E plan \in Either: \E outcome, isContact, report:
          Finish(att, a, plan, outcome, isContact, report)
    BY <1>5, <2>2 DEF RejectUnread, ClaimRefused, Unclaimed, Paused, Repeat,
      RejectBody, StoreLog, FinishAtOnce
  <2> QED
    BY <1>2, <2>1, <2>3
<1>6. CASE StoreReport(a) \/ RepeatReport(a)
  <2>1. PICK p \in {pigeon, Reported(a)}:
          /\ pigeon' = p
          /\ \E plan \in Deliverable(ReportReply(a, p)): \E outcome, report:
               Finish(att, a, plan, outcome, TRUE, report)
    BY <1>6 DEF StoreReport, RepeatReport, FinishAtOnce
  <2>2. att[a].key \in Keys
    BY <1>6, JudgingKey DEF StoreReport, RepeatReport, Fresh, OnLine, Judged
  <2>3. p \in PigeonType
    BY <1>1, <2>1, <2>2, ReportType
  <2>4. Deliverable(ReportReply(a, p)) \subseteq Owing({Awaiting(p)})
    BY <1>1, <2>3, ReportOwes
  <2>5. row' = row \/ row'.awaiting = Awaiting(p)
    <3>1. PICK plan \in Deliverable(ReportReply(a, p)): \E outcome, report:
            Finish(att, a, plan, outcome, TRUE, report)
      BY <2>1
    <3>2. plan \in PlanType /\ plan.row.awaiting = Awaiting(p)
      BY <2>4, <3>1 DEF Owing
    <3> QED
      BY <3>1, <3>2, FinishOwes
  <2> QED
    BY <2>1, <2>5
<1>7. CASE StoreReportUnread(a)
  BY <1>7 DEF StoreReportUnread
<1>8. CASE EnqueueDone(a)
  <2>1. pigeon' = pigeon
    BY <1>8 DEF EnqueueDone
  <2>2. \/ row' = row
        \/ \E plan \in Deliverable(Reply(row, att[a].began)): \E base, isContact:
             Finish(base, a, plan, "stored", isContact, NoReport)
    BY <1>8 DEF EnqueueDone
  <2>3. Deliverable(Reply(row, att[a].began)) \subseteq Either
    BY <1>1, PlansOwe, PlansClaim
  <2> HIDE DEF Either
  <2> QED
    BY <1>2, <2>1, <2>2, <2>3
<1>9. CASE \/ Wait(a) \/ AnswerDuplicate(a) \/ AnswerNotFound(a)
           \/ AnswerBadHeader(a) \/ Refuse(a) \/ StartTelemetry(a) \/ EnqueueFailed(a)
  BY <1>9 DEF Wait, AnswerDuplicate, AnswerNotFound, AnswerBadHeader, Refuse,
    Dismiss, StartTelemetry, EnqueueFailed
<1> QED
  BY <1>3, <1>4, <1>5, <1>6, <1>7, <1>8, <1>9 DEF Uplink

(* A pigeon that only reported something else: what it now owes, if more   *)
(* than before, it owes to a report of an older version.                   *)
LEMMA ReportedBehind ==
  ASSUME pigeon \in PigeonType, NEW version \in Nat, NEW conf \in Nat,
         pigeon' = [pigeon EXCEPT !.current = version, !.conf = conf],
         row' = row, Tracked, ~Tracked', row \in RowType
  PROVE  pigeon'.current < pigeon.current
<1>1. /\ pigeon.target \in Nat /\ pigeon.current \in Nat /\ row.awaiting \in Nat
      /\ pigeon'.target = pigeon.target /\ pigeon'.current = version
  BY AwaitingType DEF PigeonType, RowType
<1>2. row.awaiting >= Awaiting(pigeon) /\ ~(row.awaiting >= Awaiting(pigeon'))
  BY DEF Tracked
<1> QED
  BY <1>1, <1>2 DEF Awaiting

LEMMA NextOwes ==
  ASSUME "shadowRead" \notin Faults, "planPush" \notin Faults
  PROVE  TypeInv /\ [Next]_vars =>
           (Tracked /\ ~Tracked' => pigeon'.current < pigeon.current /\ row' = row)
<1> SUFFICES ASSUME TypeInv, [Next]_vars, Tracked, ~Tracked'
             PROVE  pigeon'.current < pigeon.current /\ row' = row
  OBVIOUS
<1>1. row \in RowType /\ pigeon \in PigeonType
  BY DEF TypeInv, TypeOK
<1>2. ~(row'.awaiting >= Awaiting(pigeon')) /\ row'.claimed # 0
  BY DEF Tracked
<1>3. ASSUME row'.claimed = row.claimed, row'.awaiting = row.awaiting,
             pigeon'.target = pigeon.target, pigeon'.current = pigeon.current
      PROVE  FALSE
  BY <1>2, <1>3 DEF Tracked, Awaiting
<1>4. ASSUME NEW a \in Attempts, Uplink(a)
      PROVE  pigeon'.current < pigeon.current /\ row' = row
  <2>1. row'.awaiting # Awaiting(pigeon')
    <3>1. Awaiting(pigeon') \in Nat
      BY NextType, AwaitingType DEF TypeInv, TypeOK
    <3> QED
      BY <1>2, <3>1
  <2>2. row' = row /\ pigeon' = Reported(a) /\ pigeon' # pigeon
    BY <1>3, <1>4, <2>1, UplinkOwes
  <2>3. StoreReport(a) \/ StoreReportUnread(a)
    BY <1>4, <2>2 DEF Uplink, Wait, AnswerDuplicate, AnswerNotFound, AnswerBadHeader,
      Refuse, Dismiss, RejectUnread, Claim, ClaimRefused, Unclaimed, AnswerFota,
      Paused, Repeat, RejectBody, StoreLog, StartTelemetry, EnqueueFailed,
      EnqueueDone, RepeatReport, FinishAtOnce
  <2>4. Frame(a).val \in Nat /\ Frame(a).conf \in Nat
    BY <2>3, JudgingKey DEF StoreReport, StoreReportUnread, Fresh, OnLine, Judged
  <2> QED
    BY <1>1, <2>2, <2>4, ReportedBehind DEF Reported
<1>5. CASE ReportElsewhere
  <2>1. PICK f \in Frames: pigeon' = [pigeon EXCEPT !.current = f.val, !.conf = f.conf]
    BY <1>5 DEF ReportElsewhere
  <2>2. f.val \in Nat /\ f.conf \in Nat /\ row' = row
    BY <1>5, FramesAssumption DEF ReportElsewhere, FrameType
  <2> QED
    BY <1>1, <2>1, <2>2, ReportedBehind
<1>6. CASE UpdateShadow
  <2>1. PICK changed \in BOOLEAN:
          LET p == IF changed THEN [pigeon EXCEPT !.target = @ + 1] ELSE pigeon
              owed == IF Awaiting(p) > row.awaiting
                      THEN [row EXCEPT !.awaiting = Awaiting(p)] ELSE row
          IN /\ pigeon' = p
             /\ row' \in {owed, [owed EXCEPT !.pushedVersion = p.target,
                                             !.pushedAt = now]}
    BY <1>6 DEF UpdateShadow
  <2> DEFINE p == IF changed THEN [pigeon EXCEPT !.target = @ + 1] ELSE pigeon
             owed == IF Awaiting(p) > row.awaiting
                     THEN [row EXCEPT !.awaiting = Awaiting(p)] ELSE row
             pushed == [owed EXCEPT !.pushedVersion = p.target, !.pushedAt = now]
  <2>2. pigeon' = p /\ row' \in {owed, pushed}
    BY <2>1
  <2>3. Awaiting(p) \in Nat /\ row.awaiting \in Nat
    BY <1>1, <2>2, NextType, AwaitingType DEF TypeInv, TypeOK, RowType
  <2>4. owed.awaiting >= Awaiting(p) /\ "awaiting" \in DOMAIN owed
    <3> HIDE DEF p
    <3> QED
      BY <1>1, <2>3 DEF RowType
  <2> HIDE DEF owed, p
  <2>5. pushed.awaiting = owed.awaiting
    BY <2>4
  <2> QED
    BY <1>2, <2>2, <2>4, <2>5
<1>7. CASE Create \/ RefreshToken
  <2>1. pigeon'.target = pigeon.target /\ pigeon'.current = pigeon.current
    BY <1>1, <1>7 DEF Create, RefreshToken, PigeonType
  <2>2. row'.awaiting = row.awaiting /\ row'.claimed \in {0, row.claimed}
    BY <1>1, <1>7 DEF Create, RefreshToken, RowType
  <2> QED
    BY <1>2, <1>3, <2>1, <2>2
<1>8. CASE Delete
  <2>1. \/ row' = DefaultRow
        \/ row' = row /\ pigeon' = [pigeon EXCEPT !.owned = FALSE]
    BY <1>8 DEF Delete
  <2>2. /\ DefaultRow.claimed = 0
        /\ [pigeon EXCEPT !.owned = FALSE].target = pigeon.target
        /\ [pigeon EXCEPT !.owned = FALSE].current = pigeon.current
    BY <1>1 DEF DefaultRow, PigeonType
  <2> QED
    BY <1>2, <1>3, <2>1, <2>2
<1>9. CASE \/ RunTail \/ Missed \/ Reset \/ Tick \/ UNCHANGED vars
           \/ \E a \in Attempts: Arrive(a)
  <2>1. pigeon' = pigeon
    BY <1>9 DEF RunTail, SendAnswered, SendUnavailable, SyncReport, Missed, Reset,
      Tick, vars, Arrive
  <2>2. row' \in {row, [row EXCEPT !.pushedVersion = 0],
                  [row EXCEPT !.pushedVersion = 0, !.pushedAt = 0]}
    BY <1>9 DEF RunTail, SendAnswered, SendUnavailable, Fault, SyncReport, Missed, Reset,
      Tick, vars, Arrive
  <2>3. row'.awaiting = row.awaiting /\ row'.claimed = row.claimed
    BY <1>1, <2>2 DEF RowType
  <2> QED
    BY <1>3, <2>1, <2>3
<1> QED
  BY <1>4, <1>5, <1>6, <1>7, <1>8, <1>9 DEF Next

(* No step loses track of what the device is owed but a report of an older *)
(* version that leaves the row alone, while the shadow can be read and the *)
(* plan of a dashboard write is written.                                   *)
THEOREM OwedTracked ==
  ASSUME "shadowRead" \notin Faults, "planPush" \notin Faults
  PROVE  Spec => OwedStaysTracked
<1>1. TypeInv /\ [Next]_vars =>
        [Tracked /\ ~Tracked' => pigeon'.current < pigeon.current /\ row' = row]_vars
  BY NextOwes
<1> QED
  BY <1>1, InitType, NextType, PTL DEF Spec, OwedStaysTracked

=============================================================================
