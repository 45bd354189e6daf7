------------------------- MODULE NiddIngest_proofs -------------------------
(***************************************************************************)
(* No reading is turned away that was never judged, and NiddUplink         *)
(* implements UplinkIngest, for every device, carrier and failure.         *)
(*                                                                         *)
(* What a copy is turned away for is a remembered key, or an attempt in    *)
(* memory.  Judged says that each of them goes back to a store or to a     *)
(* judgement of the same frame; the ledger of NiddUplink_proofs bounds the *)
(* stores.  Together they make each segment a step of UplinkIngest.        *)
(***************************************************************************)
EXTENDS NiddUplink_proofs

Decided(f) ==
  \/ stored[f] > 0
  \/ \E b \in Attempts: att[b].outcome \in {"paused", "rejected"} /\ Frame(b) = f

Disowned(k) == \E b \in Attempts: att[b].outcome = "unclaimed" /\ att[b].key = k

AnsweredIsDone == \A b \in Attempts: att[b].outcome # "none" <=> att[b].pc = "done"

WokenWasDecided ==
  \A b \in Attempts: att[b].verdict \in {"same", "elsewhere"} =>
    att[b].pc = "woken" /\ Decided(Frame(b))

SeenWasDecided ==
  \A e \in Entries(row): e.key.frame \in Counted =>
    Decided(e.key.frame) \/ (~e.settled /\ Disowned(e.key))

TurnedWasDecided ==
  \A b \in Attempts: att[b].outcome \in {"duplicate", "repeat"} /\ Frame(b) \in Counted
    => \/ Decided(Frame(b))
       \/ att[b].outcome = "duplicate" /\ Disowned(att[b].key)

RejectedIsGarbled ==
  \A b \in Attempts: att[b].outcome = "rejected" /\ Frame(b) \in Counted
    => ~Frame(b).ok

Judgements == /\ AnsweredIsDone /\ WokenWasDecided /\ SeenWasDecided
              /\ TurnedWasDecided /\ RejectedIsGarbled

-----------------------------------------------------------------------------
(* What the row remembers after an answer.                                 *)

LEMMA RememberEntries ==
  ASSUME NEW r \in RowType, NEW key \in Keys, NEW settled \in BOOLEAN
  PROVE  Entries(Remember(r, key, settled))
           \subseteq Entries(r) \cup {[key |-> key, settled |-> settled]}
<1> DEFINE e == [key |-> key, settled |-> settled]
           grown == Append(r.seen, e)
<1>1. r.seen \in Seq(SeenEntry) /\ e \in SeenEntry
  BY DEF RowType, SeenEntry
<1>2. /\ grown \in Seq(SeenEntry) /\ Len(grown) = Len(r.seen) + 1
      /\ \A i \in 1..Len(r.seen): grown[i] = r.seen[i]
      /\ grown[Len(r.seen) + 1] = e
      /\ Len(r.seen) \in Nat /\ DOMAIN r.seen = 1..Len(r.seen)
  BY <1>1
<1>3. \A i \in 1..Len(grown): grown[i] \in Entries(r) \cup {e}
  BY <1>2 DEF Entries
<1> HIDE DEF grown, e
<1>4. \A s: [r EXCEPT !.seen = s].seen = s
  BY DEF RowType
<1>5. CASE Len(grown) > SeenKeys
  <2> DEFINE kept == SubSeq(grown, Len(grown) - SeenKeys + 1, Len(grown))
  <2>1. Len(grown) \in Nat /\ Len(grown) - SeenKeys + 1 \in 1..Len(grown)
    BY <1>2, <1>5, WindowTypes
  <2>2. \A i \in DOMAIN kept: kept[i] \in Entries(r) \cup {e}
    <3>1. /\ DOMAIN kept = 1..SeenKeys
          /\ \A i \in 1..SeenKeys: kept[i] = grown[Len(grown) - SeenKeys + 1 + i - 1]
      BY <1>2, <2>1, WindowTypes
    <3>2. \A i \in 1..SeenKeys: Len(grown) - SeenKeys + 1 + i - 1 \in 1..Len(grown)
      BY <2>1, WindowTypes
    <3> QED
      BY <1>3, <3>1, <3>2
  <2>3. Remember(r, key, settled).seen = kept
    BY <1>4, <1>5 DEF Remember, grown, e
  <2> HIDE DEF kept
  <2> QED
    BY <2>2, <2>3 DEF Entries, e
<1>6. CASE ~(Len(grown) > SeenKeys)
  <2>1. Remember(r, key, settled).seen = grown
    BY <1>4, <1>6 DEF Remember, grown, e
  <2>2. DOMAIN grown = 1..Len(grown)
    BY <1>2
  <2> QED
    BY <1>3, <2>1, <2>2 DEF Entries, e
<1> QED
  BY <1>5, <1>6

(* The plans that leave the seen keys as they are: all of them.            *)
Recalling(seen) == {plan \in PlanType : plan.row.seen = seen}

LEMMA KeepRecalls ==
  ASSUME NEW r \in RowType
  PROVE  Keep(r) \in Recalling(r.seen)
BY KeepType DEF Recalling, Keep

LEMMA ShadowPushRecalls ==
  ASSUME NEW r \in RowType, NEW p \in PigeonType, NEW t \in Times
  PROVE  ShadowPush(r, p, t) \subseteq Recalling(r.seen)
<1> SUFFICES ASSUME NEW plan \in ShadowPush(r, p, t) PROVE plan \in Recalling(r.seen)
  OBVIOUS
<1>1. plan \in PlanType
  BY ShadowPushType
<1>2. \/ plan.row = [r EXCEPT !.awaiting = Awaiting(p), !.pushedVersion = p.target,
                             !.pushedAt = t]
      \/ plan = Keep(r)
  BY DEF ShadowPush, Fault
<1>3. [r EXCEPT !.awaiting = Awaiting(p), !.pushedVersion = p.target,
                !.pushedAt = t].seen = r.seen
  BY DEF RowType
<1> QED
  BY <1>1, <1>2, <1>3, KeepRecalls DEF Recalling

LEMMA NoticeRecalls ==
  ASSUME NEW r \in RowType, now \in Times
  PROVE  Notice(r) \in Recalling(r.seen)
<1>1. [r EXCEPT !.noticeAt = now].seen = r.seen
  BY DEF RowType
<1> QED
  BY <1>1, NoticeType, KeepRecalls DEF Notice, Recalling

LEMMA DeliverableRecalls ==
  ASSUME NEW seen, NEW plans \in SUBSET Recalling(seen)
  PROVE  Deliverable(plans) \subseteq Recalling(seen)
<1> SUFFICES ASSUME NEW plan \in plans PROVE Withheld(plan) \in Recalling(seen)
  BY DEF Deliverable, Fault
<1>1. plan \in PlanType /\ plan.row \in RowType /\ plan.row.seen = seen
  BY DEF Recalling, PlanType
<1>2. [plan.row EXCEPT !.pushedVersion = 0, !.pushedAt = 0].seen = seen
  BY <1>1 DEF RowType
<1> QED
  BY <1>1, <1>2, WithheldType DEF Recalling, Withheld

LEMMA PlansRecall ==
  ASSUME TypeOK, NEW a \in Attempts
  PROVE  /\ Keep(row) \in Recalling(row.seen)
         /\ Notice(row) \in Recalling(row.seen)
         /\ Deliverable({Notice(row)}) \subseteq Recalling(row.seen)
         /\ Deliverable(Reply(row, now)) \subseteq Recalling(row.seen)
         /\ Deliverable(Reply(row, att[a].began)) \subseteq Recalling(row.seen)
<1>1. row \in RowType /\ now \in Times /\ pigeon \in PigeonType
      /\ att[a].began \in Times
  BY DEF TypeOK, AttemptType
<1>2. Notice(row) \in Recalling(row.seen) /\ Keep(row) \in Recalling(row.seen)
  BY <1>1, NoticeRecalls, KeepRecalls
<1>3. Reply(row, now) \subseteq Recalling(row.seen)
      /\ Reply(row, att[a].began) \subseteq Recalling(row.seen)
  BY <1>1, KeepRecalls, ShadowPushRecalls DEF Reply
<1> QED
  BY <1>2, <1>3, DeliverableRecalls

LEMMA ReportRecalls ==
  ASSUME TypeOK, NEW a \in Attempts, att[a].key \in Keys, NEW p \in PigeonType
  PROVE  Deliverable(ReportReply(a, p)) \subseteq Recalling(row.seen)
<1> DEFINE owed == [row EXCEPT !.awaiting = Awaiting(p)]
           answer == [kind |-> "status", version |-> p.current, at |-> now]
<1>1. owed \in RowType /\ owed.seen = row.seen
  BY AwaitingType DEF TypeOK, RowType
<1>2. answer \in DownlinkType /\ now \in Times
  BY DEF TypeOK, DownlinkType, PigeonType
<1>3. ReportReply(a, p) = IF p.target > p.current THEN ShadowPush(owed, p, now)
                          ELSE {[row |-> owed, downlink |-> answer]}
  BY DEF ReportReply
<1> HIDE DEF owed, answer
<1>4. ReportReply(a, p) \subseteq Recalling(row.seen)
  BY <1>1, <1>2, <1>3, ShadowPushRecalls DEF Recalling, PlanType
<1> QED
  BY <1>4, DeliverableRecalls

(* An attempt's answer, and at most its own key remembered with it.        *)
Concluded(base, a, outcome) ==
  /\ att' = Answered(base, a, outcome)
  /\ Entries(row') \subseteq
       Entries(row) \cup {[key |-> att[a].key, settled |-> outcome # "unclaimed"]}
  /\ outcome \in {"failed", "notfound", "badrequest", "duplicate"} => row' = row

LEMMA FinishConcludes ==
  ASSUME TypeOK, NEW base, NEW a \in Attempts, att[a].key \in Keys,
         NEW plan \in Recalling(row.seen), NEW outcome, NEW isContact, NEW report,
         outcome \notin {"failed", "notfound", "badrequest", "duplicate"},
         Finish(base, a, plan, outcome, isContact, report)
  PROVE  \/ Concluded(base, a, outcome)
         \/ Concluded(base, a, "failed") /\ outcome # "stored"
<1> DEFINE key == att[a].key
           recorded == IF Kind(a) = "fota" THEN plan.row
                       ELSE Remember(plan.row, key, outcome # "unclaimed")
<1>1. plan.row \in RowType /\ plan.row.seen = row.seen
  BY DEF Recalling, PlanType
<1>2. Entries(plan.row) = Entries(row)
  BY <1>1 DEF Entries
<1>3. Entries(recorded)
        \subseteq Entries(row) \cup {[key |-> key, settled |-> outcome # "unclaimed"]}
  BY <1>1, <1>2, RememberEntries
<1>4. \/ row' = recorded /\ att' = Answered(base, a, outcome)
      \/ row' = row /\ att' = Answered(base, a, outcome)
      \/ row' = row /\ att' = Answered(base, a, "failed") /\ outcome # "stored"
  BY DEF Finish
<1> HIDE DEF recorded
<1> QED
  BY <1>3, <1>4 DEF Concluded

-----------------------------------------------------------------------------
(* What an attempt may be answered, and on what grounds.                   *)

Reading(a) == Kind(a) \in {"telemetry", "log"}

Warranted(a, outcome) ==
  /\ outcome # "none" /\ outcome # "lost"
  /\ outcome = "duplicate" => att[a].verdict = "same" \/ HasSeen(row, att[a].key)
  /\ Reading(a) =>
       /\ outcome = "repeat" => IsRepeat(a)
       /\ outcome = "rejected" => ~Frame(a).ok
       /\ outcome \notin {"claimed", "answered", "badrequest"}

(* The arms that answer at once and store nothing.                         *)
LEMMA ArmsConclude ==
  ASSUME TypeInv, NEW a \in Attempts,
         \/ AnswerDuplicate(a) \/ AnswerNotFound(a) \/ AnswerBadHeader(a)
         \/ Refuse(a) \/ RejectUnread(a) \/ Claim(a) \/ ClaimRefused(a)
         \/ Unclaimed(a) \/ AnswerFota(a) \/ Paused(a) \/ Repeat(a)
         \/ RejectBody(a) \/ RepeatReport(a) \/ StoreReportUnread(a)
  PROVE  \E outcome \in Outcomes \ {"stored"}:
           Concluded(att, a, outcome) /\ Warranted(a, outcome)
<1> DEFINE Goal == \E outcome \in Outcomes \ {"stored"}:
                     Concluded(att, a, outcome) /\ Warranted(a, outcome)
<1>t. TypeOK /\ row \in RowType /\ now \in Times /\ pigeon \in PigeonType
  BY DEF TypeInv, TypeOK
<1>d. ASSUME NEW outcome \in {"failed", "notfound", "badrequest", "duplicate"},
             row' = row, att' = Answered(att, a, outcome), Warranted(a, outcome)
      PROVE  Goal
  <2>1. outcome \in Outcomes \ {"stored"}
    BY DEF Outcomes
  <2> QED
    BY <1>d, <2>1 DEF Concluded
<1>f. ASSUME NEW plan \in Recalling(row.seen), NEW outcome \in Outcomes,
             NEW isContact, NEW report, att[a].key \in Keys,
             outcome \in {"claimed", "unclaimed", "rejected", "paused", "repeat",
                         "answered"},
             Finish(att, a, plan, outcome, isContact, report),
             Warranted(a, outcome)
      PROVE  Goal
  <2>1. Concluded(att, a, outcome) \/ Concluded(att, a, "failed")
    BY <1>t, <1>f, FinishConcludes
  <2>2. Warranted(a, "failed") /\ "failed" \in Outcomes
    BY DEF Warranted, Outcomes
  <2> QED
    BY <1>f, <2>1, <2>2
<1>o. {"claimed", "unclaimed", "rejected", "paused", "repeat", "answered"}
        \subseteq Outcomes
  BY DEF Outcomes
<1>k. Judging(a) => att[a].key \in Keys
  BY JudgingKey
<1> HIDE DEF Goal
<1>1. CASE AnswerDuplicate(a)
  <2>1. Dismiss(a, "duplicate") /\ Warranted(a, "duplicate")
    BY <1>1 DEF AnswerDuplicate, Warranted
  <2> QED
    BY <2>1, <1>d DEF Dismiss, Goal
<1>2. CASE AnswerNotFound(a) \/ Refuse(a) \/ AnswerBadHeader(a)
  <2>1. PICK outcome \in {"notfound", "failed", "badrequest"}:
          Dismiss(a, outcome) /\ Warranted(a, outcome)
    BY <1>2 DEF AnswerNotFound, Refuse, AnswerBadHeader, Warranted, Reading
  <2> QED
    BY <2>1, <1>d DEF Dismiss, Goal
<1>3. CASE Claim(a)
  <2> DEFINE claimed == [row EXCEPT !.claimed = Frame(a).val, !.line = att[a].line]
  <2>1. PICK plan \in ShadowPush(claimed, pigeon, now):
          Finish(att, a, plan, "claimed", TRUE, NoReport)
    BY <1>3 DEF Claim, FinishAtOnce
  <2>2. Frame(a).val \in Nat /\ att[a].line \in Lines \cup {NoLine}
    BY <1>t, <1>3, JudgingKey DEF Claim, Admitted, Judged, TypeOK, AttemptType
  <2>3. claimed \in RowType /\ claimed.seen = row.seen
    BY <1>t, <2>2 DEF RowType
  <2> HIDE DEF claimed
  <2>4. plan \in Recalling(row.seen)
    BY <1>t, <2>1, <2>3, ShadowPushRecalls
  <2>5. Warranted(a, "claimed")
    BY <1>3 DEF Claim, Warranted, Reading
  <2>6. Judging(a)
    BY <1>3 DEF Claim, Admitted, Judged
  <2> QED
    BY <1>f, <1>k, <1>o, <2>1, <2>4, <2>5, <2>6 DEF Goal
<1>4. CASE AnswerFota(a)
  <2>1. PICK kind \in {"none", "chunk", "status"}:
          \E plan \in Deliverable({[row |-> row, downlink |->
                 [kind |-> kind, version |-> 0,
                  at |-> IF kind = "none" THEN 0 ELSE now]]}):
            Finish(att, a, plan, "answered", TRUE, NoReport)
    BY <1>4 DEF AnswerFota, FinishAtOnce
  <2> DEFINE asked == [row |-> row, downlink |->
                 [kind |-> kind, version |-> 0,
                  at |-> IF kind = "none" THEN 0 ELSE now]]
  <2>2. asked \in PlanType /\ asked.row = row
    BY <1>t, WindowTypes DEF PlanType, DownlinkType
  <2>3. asked \in Recalling(row.seen)
    BY <2>2 DEF Recalling
  <2>4. Deliverable({asked}) \subseteq Recalling(row.seen)
    BY <2>3, DeliverableRecalls
  <2>5. Warranted(a, "answered") /\ Judging(a)
    BY <1>4 DEF AnswerFota, OnLine, Judged, Warranted, Reading
  <2> QED
    BY <1>f, <1>k, <1>o, <2>1, <2>4, <2>5 DEF Goal
<1>5. CASE \/ RejectUnread(a) \/ ClaimRefused(a) \/ Unclaimed(a) \/ Paused(a)
           \/ Repeat(a) \/ RejectBody(a)
  <2>1. Judging(a)
    BY <1>5 DEF RejectUnread, ClaimRefused, Unclaimed, Paused, Repeat, RejectBody,
      Admitted, Fresh, OnLine, Judged
  <2>2. \E outcome \in {"unclaimed", "rejected", "paused", "repeat"}:
          /\ Warranted(a, outcome)
          /\ \E plan \in Recalling(row.seen): \E isContact:
               Finish(att, a, plan, outcome, isContact, NoReport)
    <3>1. CASE RejectUnread(a)
      BY <1>t, <3>1, PlansRecall DEF RejectUnread, FinishAtOnce, Warranted, Reading
    <3>2. CASE ClaimRefused(a)
      BY <1>t, <3>2, PlansRecall DEF ClaimRefused, FinishAtOnce, Warranted
    <3>3. CASE Unclaimed(a)
      BY <1>t, <3>3, PlansRecall DEF Unclaimed, FinishAtOnce, Warranted
    <3>4. CASE Paused(a)
      BY <1>t, <3>4, PlansRecall DEF Paused, FinishAtOnce, Warranted
    <3>5. CASE Repeat(a)
      BY <1>t, <3>5, PlansRecall DEF Repeat, FinishAtOnce, Warranted
    <3>6. CASE RejectBody(a)
      BY <1>t, <3>6, PlansRecall DEF RejectBody, FinishAtOnce, Warranted
    <3> QED
      BY <1>5, <3>1, <3>2, <3>3, <3>4, <3>5, <3>6
  <2> QED
    BY <1>f, <1>k, <1>o, <2>1, <2>2 DEF Goal
<1>6. CASE RepeatReport(a)
  <2>1. PICK plan \in Deliverable(ReportReply(a, pigeon)):
          Finish(att, a, plan, "repeat", TRUE, NoReport)
    BY <1>6 DEF RepeatReport, FinishAtOnce
  <2>2. Judging(a) /\ Warranted(a, "repeat")
    BY <1>6 DEF RepeatReport, Fresh, OnLine, Judged, Warranted, Reading
  <2>3. plan \in Recalling(row.seen)
    BY <1>t, <1>k, <2>1, <2>2, ReportRecalls
  <2> QED
    BY <1>f, <1>k, <1>o, <2>1, <2>2, <2>3 DEF Goal
<1>7. CASE StoreReportUnread(a)
  <2>1. /\ row' = row /\ att' = Answered(att, a, "failed")
        /\ Warranted(a, "failed")
    BY <1>7 DEF StoreReportUnread, Warranted
  <2> QED
    BY <1>d, <2>1 DEF Goal
<1> QED
  BY <1>1, <1>2, <1>3, <1>4, <1>5, <1>6, <1>7 DEF Goal

(* The arms that store.                                                    *)
LEMMA StoresConclude ==
  ASSUME TypeInv, NEW a \in Attempts, StoreLog(a) \/ StoreReport(a)
  PROVE  Concluded(att, a, "stored") /\ Warranted(a, "stored")
<1>1. TypeOK /\ att[a].key \in Keys
  BY JudgingKey DEF TypeInv, StoreLog, StoreReport, Fresh, OnLine, Judged
<1>2. \E plan \in Recalling(row.seen): \E report:
        Finish(att, a, plan, "stored", TRUE, report)
  <2>1. CASE StoreLog(a)
    BY <1>1, <2>1, PlansRecall DEF StoreLog
  <2>2. CASE StoreReport(a)
    <3>1. Reported(a) \in PigeonType
      BY <1>1, ReportType DEF TypeOK
    <3> QED
      BY <1>1, <2>2, <3>1, ReportRecalls DEF StoreReport
  <2> QED
    BY <2>1, <2>2
<1>3. Concluded(att, a, "stored")
  BY <1>1, <1>2, FinishConcludes
<1> QED
  BY <1>3 DEF Warranted

LEMMA EnqueueConcludes ==
  ASSUME TypeInv, NEW a \in Attempts
  PROVE  /\ EnqueueFailed(a) => Concluded(Settle(a, FALSE), a, "failed")
         /\ EnqueueDone(a) => Concluded(Settle(a, TRUE), a, "stored")
<1>1. TypeOK
  BY DEF TypeInv
<1>2. ASSUME EnqueueFailed(a) PROVE Concluded(Settle(a, FALSE), a, "failed")
  BY <1>2 DEF EnqueueFailed, Concluded
<1>3. ASSUME EnqueueDone(a) PROVE Concluded(Settle(a, TRUE), a, "stored")
  <2>1. att[a].key \in Keys
    BY <1>3 DEF EnqueueDone, TypeInv, Dispatched
  <2> DEFINE base == Settle(a, TRUE)
  <2>2. \/ \E plan \in Recalling(row.seen): \E isContact:
             Finish(base, a, plan, "stored", isContact, NoReport)
        \/ att' = Answered(base, a, "stored") /\ row' = row
    BY <1>1, <1>3, PlansRecall DEF EnqueueDone
  <2> HIDE DEF base
  <2>3. Concluded(base, a, "stored")
    <3>1. CASE att' = Answered(base, a, "stored") /\ row' = row
      BY <3>1 DEF Concluded
    <3> QED
      BY <1>1, <2>1, <2>2, <3>1, FinishConcludes
  <2> QED
    BY <2>3 DEF base
<1> QED
  BY <1>2, <1>3

-----------------------------------------------------------------------------
(* What was judged stays judged.                                           *)

Growing ==
  /\ \A b \in Attempts: att[b].outcome # "none" =>
       att'[b].outcome = att[b].outcome /\ att'[b].key = att[b].key
  /\ \A f \in Frames: stored'[f] >= stored[f]

LEMMA DecidedStays ==
  ASSUME Growing, stored \in [Frames -> Nat], stored' \in [Frames -> Nat]
  PROVE  /\ \A f \in Frames: Decided(f) => Decided(f)'
         /\ \A k: Disowned(k) => Disowned(k)'
<1>1. ASSUME NEW f \in Frames, Decided(f) PROVE Decided(f)'
  <2>1. CASE stored[f] > 0
    BY <1>1, <2>1 DEF Growing, Decided
  <2>2. CASE \E b \in Attempts: att[b].outcome \in {"paused", "rejected"} /\ Frame(b) = f
    BY <2>2 DEF Growing, Decided, Frame
  <2> QED
    BY <1>1, <2>1, <2>2 DEF Decided
<1>2. \A k: Disowned(k) => Disowned(k)'
  BY DEF Growing, Disowned
<1> QED
  BY <1>1, <1>2

LEMMA CountedFrames == \A f \in Counted: f \in Frames
BY DEF Counted

(* An attempt that is not answered holds no verdict but a woken one's.     *)
Unanswered(b) == att[b].outcome = "none"

(* A step that answers or wakes nobody on a copy's grounds and forgets at  *)
(* most what the row remembers.                                            *)
LEMMA QuietJudges ==
  ASSUME Judgements, Growing, stored \in [Frames -> Nat], stored' \in [Frames -> Nat],
         Entries(row') \subseteq Entries(row),
         \A b \in Attempts:
           \/ att'[b] = att[b]
           \/ /\ att[b].outcome = "none" /\ att'[b].verdict = "none"
              /\ \/ att'[b].outcome = "none" /\ att'[b].pc # "done"
                 \/ att'[b].outcome = "lost" /\ att'[b].pc = "done",
         \A b \in Attempts: att[b].verdict \in {"same", "elsewhere"} => Frame(b) \in Frames
  PROVE  Judgements'
<1>1. /\ \A f \in Frames: Decided(f) => Decided(f)'
      /\ \A k: Disowned(k) => Disowned(k)'
  BY DecidedStays
<1>2. AnsweredIsDone'
  BY DEF Judgements, AnsweredIsDone
<1>3. WokenWasDecided'
  BY <1>1 DEF Judgements, WokenWasDecided, Frame
<1>4. SeenWasDecided'
  BY <1>1, CountedFrames DEF Judgements, SeenWasDecided
<1>5. TurnedWasDecided'
  BY <1>1, CountedFrames DEF Judgements, TurnedWasDecided, Frame
<1>6. RejectedIsGarbled'
  BY DEF Judgements, RejectedIsGarbled, Frame
<1> QED
  BY <1>2, <1>3, <1>4, <1>5, <1>6 DEF Judgements

(* The grounds of an answer, in terms of what was decided.                 *)
LEMMA WarrantDecided ==
  ASSUME TypeInv, Judgements, NEW a \in Attempts, Frame(a) \in Counted,
         NEW outcome, Warranted(a, outcome)
  PROVE  /\ outcome = "duplicate" => Decided(Frame(a)) \/ Disowned(att[a].key)
         /\ outcome = "repeat" => Decided(Frame(a))
<1>1. Reading(a)
  BY DEF Counted, Reading, Kind
<1>2. att[a].verdict \in {"same", "elsewhere"} => Decided(Frame(a))
  BY DEF Judgements, WokenWasDecided
<1>3. HasSeen(row, att[a].key) => Decided(Frame(a)) \/ Disowned(att[a].key)
  BY DEF Judgements, SeenWasDecided, HasSeen, Frame
<1>4. Settled(row, Frame(a)) => Decided(Frame(a))
  BY DEF Judgements, SeenWasDecided, Settled
<1> QED
  BY <1>1, <1>2, <1>3, <1>4 DEF Warranted, IsRepeat, DecidedElsewhere

(* An attempt answered on its grounds, with the copies it wakes.           *)
LEMMA ConcludedJudges ==
  ASSUME TypeInv, Judgements, NEW a \in Attempts, Unanswered(a),
         att[a].key \in Keys, NEW outcome \in Outcomes, Warranted(a, outcome),
         NEW base \in [Attempts -> AttemptType], Concluded(base, a, outcome),
         base[a].key = att[a].key,
         \A b \in Attempts \ {a}:
           \/ base[b] = att[b]
           \/ /\ Unanswered(b)
              /\ base[b].outcome = "none" /\ base[b].key = att[b].key
              /\ base[b].pc = "woken"
              /\ base[b].verdict \in {"same", "elsewhere"} =>
                   stored'[Frame(b)] > 0 /\ Frame(b) \in Frames,
         stored' \in [Frames -> Nat], \A f \in Frames: stored'[f] >= stored[f],
         outcome = "stored" /\ Frame(a) \in Counted => stored'[Frame(a)] > 0,
         \A b \in Attempts: att[b].verdict \in {"same", "elsewhere"} => Frame(b) \in Frames
  PROVE  Judgements'
<1>1. /\ att'[a].outcome = outcome /\ att'[a].pc = "done"
      /\ att'[a].verdict = "none" /\ att'[a].key = att[a].key
      /\ \A b \in Attempts \ {a}: att'[b] = base[b]
  BY DEF Concluded, Answered, AttemptType
<1>2. Growing /\ stored \in [Frames -> Nat]
  BY <1>1 DEF Growing, Unanswered, TypeInv, TypeOK
<1>3. /\ \A f \in Frames: Decided(f) => Decided(f)'
      /\ \A k: Disowned(k) => Disowned(k)'
  BY <1>2, DecidedStays
<1>4. AnsweredIsDone'
  <2>1. \A b \in Attempts \ {a}: att'[b].outcome # "none" <=> att'[b].pc = "done"
    BY <1>1 DEF Judgements, AnsweredIsDone, Unanswered
  <2>2. att'[a].outcome # "none" /\ att'[a].pc = "done"
    BY <1>1 DEF Warranted
  <2> QED
    BY <2>1, <2>2 DEF AnsweredIsDone
<1>5. WokenWasDecided'
  <2> SUFFICES ASSUME NEW b \in Attempts, att'[b].verdict \in {"same", "elsewhere"}
               PROVE  att'[b].pc = "woken" /\ Decided(Frame(b))'
    BY DEF WokenWasDecided
  <2>1. b # a /\ att'[b] = base[b]
    BY <1>1
  <2>2. CASE base[b] = att[b]
    BY <1>3, <2>1, <2>2 DEF Judgements, WokenWasDecided, Frame
  <2>3. CASE base[b] # att[b]
    <3>1. Frame(b)' = Frame(b) /\ stored'[Frame(b)] > 0 /\ att'[b].pc = "woken"
      BY <2>1, <2>3 DEF Frame
    <3> QED
      BY <3>1 DEF Decided
  <2> QED
    BY <2>2, <2>3
<1>6. SeenWasDecided'
  <2> SUFFICES ASSUME NEW e \in Entries(row'), e.key.frame \in Counted
               PROVE  Decided(e.key.frame)' \/ (~e.settled /\ Disowned(e.key)')
    BY DEF SeenWasDecided
  <2>1. CASE e \in Entries(row)
    BY <1>3, <2>1, CountedFrames DEF Judgements, SeenWasDecided
  <2>2. CASE e = [key |-> att[a].key, settled |-> outcome # "unclaimed"] /\ row' # row
    <3>1. e.key = att[a].key /\ e.settled = (outcome # "unclaimed")
          /\ Frame(a) = e.key.frame /\ Reading(a) /\ Frame(a) \in Frames
      BY <2>2 DEF Frame, Counted, Reading, Kind
    <3>2. CASE outcome = "unclaimed"
      BY <1>1, <3>1, <3>2 DEF Disowned
    <3>3. CASE outcome \in {"paused", "rejected"}
      BY <1>1, <3>1, <3>3 DEF Decided, Frame
    <3>4. CASE outcome = "repeat"
      BY <1>3, <3>1, <3>4, WarrantDecided
    <3>5. CASE outcome = "stored"
      BY <3>1, <3>5 DEF Decided
    <3>6. outcome \in {"unclaimed", "paused", "rejected", "repeat", "stored"}
      BY <2>2, <3>1 DEF Concluded, Warranted, Outcomes
    <3> QED
      BY <3>2, <3>3, <3>4, <3>5, <3>6
  <2> QED
    BY <2>1, <2>2 DEF Concluded
<1>7. TurnedWasDecided'
  <2> SUFFICES ASSUME NEW b \in Attempts, att'[b].outcome \in {"duplicate", "repeat"},
                      Frame(b)' \in Counted
               PROVE  \/ Decided(Frame(b))'
                      \/ att'[b].outcome = "duplicate" /\ Disowned(att[b].key)'
                         /\ att'[b].key = att[b].key
    BY DEF TurnedWasDecided, Disowned
  <2>1. CASE b = a
    BY <1>1, <1>3, <2>1, WarrantDecided, CountedFrames DEF Frame
  <2>2. CASE b # a
    BY <1>1, <1>3, <2>2, CountedFrames DEF Judgements, TurnedWasDecided, Frame
  <2> QED
    BY <2>1, <2>2
<1>8. RejectedIsGarbled'
  <2> SUFFICES ASSUME NEW b \in Attempts, att'[b].outcome = "rejected",
                      Frame(b)' \in Counted
               PROVE  ~Frame(b)'.ok
    BY DEF RejectedIsGarbled
  <2>1. CASE b = a
    BY <1>1, <2>1 DEF Frame, Warranted, Reading, Counted, Kind
  <2>2. CASE b # a
    BY <1>1, <2>2 DEF Judgements, RejectedIsGarbled, Frame
  <2> QED
    BY <2>1, <2>2
<1> QED
  BY <1>4, <1>5, <1>6, <1>7, <1>8 DEF Judgements

LEMMA InPlayUnanswered ==
  ASSUME Judgements, NEW b \in Attempts, att[b].pc # "done"
  PROVE  Unanswered(b)
BY DEF Judgements, AnsweredIsDone, Unanswered

LEMMA WokenFrames ==
  ASSUME TypeInv, Judgements
  PROVE  \A b \in Attempts: att[b].verdict \in {"same", "elsewhere"} => Frame(b) \in Frames
<1> SUFFICES ASSUME NEW b \in Attempts, att[b].verdict \in {"same", "elsewhere"}
             PROVE  Frame(b) \in Frames
  OBVIOUS
<1>1. att[b].key \in Keys
  BY DEF Judgements, WokenWasDecided, TypeInv, Dispatched
<1> QED
  BY <1>1, FrameFields DEF Frame

WokenIn(base, b) ==
  /\ Unanswered(b) /\ att[b].pc = "waiting"
  /\ base[b].outcome = "none" /\ base[b].key = att[b].key
  /\ base[b].pc = "woken"

(* The copies an enqueue wakes are of its frame.                           *)
LEMMA SettleWakes ==
  ASSUME TypeInv, InFlightHeld, Judgements, NEW a \in Attempts,
         att[a].pc = "enqueuing", NEW decided \in BOOLEAN
  PROVE  /\ Settle(a, decided) \in [Attempts -> AttemptType]
         /\ Settle(a, decided)[a].key = att[a].key
         /\ \A b \in Attempts \ {a}:
              \/ Settle(a, decided)[b] = att[b]
              \/ /\ WokenIn(Settle(a, decided), b)
                 /\ Settle(a, decided)[b].verdict \in {"same", "elsewhere"} =>
                      decided /\ Frame(b) = Frame(a)
<1>1. att \in [Attempts -> AttemptType] /\ att[a].key \in DOMAIN inFlight
  BY DEF TypeInv, TypeOK, InFlightHeld
<1>2. ASSUME NEW b \in Waiters(att[a].key)
      PROVE  /\ b \in Attempts /\ Unanswered(b) /\ att[b].pc = "waiting"
             /\ Frame(b) = Frame(a)
  <2>1. b \in inFlight[att[a].key]
    BY <1>1, <1>2 DEF Waiters
  <2>2. b \in Attempts
    BY <1>1, <2>1 DEF TypeInv, TypeOK
  <2>3. att[b].pc = "waiting" /\ Frame(b) = att[a].key.frame
    BY <1>1, <2>1, <2>2 DEF InFlightHeld
  <2> QED
    BY <2>2, <2>3, InPlayUnanswered DEF Frame
<1>3. ASSUME NEW b \in Attempts \ {a}, b \in Waiters(att[a].key)
      PROVE  /\ WokenIn(Settle(a, decided), b)
             /\ Settle(a, decided)[b].verdict \in {"same", "elsewhere"} => decided
  BY <1>1, <1>2, <1>3 DEF Settle, Unanswered, AttemptType, WokenIn
<1> QED
  BY <1>1, <1>2, <1>3, SettleType

(* Every segment that answers its attempt does so on its grounds, and      *)
(* wakes at most copies of the frame it stored.                            *)
Concludes(a, base, outcome) ==
  /\ outcome \in Outcomes
  /\ base \in [Attempts -> AttemptType]
  /\ Concluded(base, a, outcome)
  /\ Warranted(a, outcome)
  /\ base[a].key = att[a].key
  /\ \A b \in Attempts \ {a}:
       \/ base[b] = att[b]
       \/ /\ WokenIn(base, b)
          /\ base[b].verdict \in {"same", "elsewhere"} =>
               stored'[Frame(b)] > 0 /\ Frame(b) \in Frames
  /\ outcome = "stored" => stored' = [stored EXCEPT ![Frame(a)] = @ + 1]
  /\ outcome \notin {"stored", "failed"} => stored' = stored

LEMMA UplinkConcludes ==
  ASSUME TypeInv, InFlightHeld, Judgements, NEW a \in Attempts, Uplink(a)
  PROVE  \/ Wait(a) \/ StartTelemetry(a)
         \/ \E base, outcome: Concludes(a, base, outcome)
<1>t. att \in [Attempts -> AttemptType] /\ stored \in [Frames -> Nat]
  BY DEF TypeInv, TypeOK
<1>1. CASE \/ AnswerDuplicate(a) \/ AnswerNotFound(a) \/ AnswerBadHeader(a)
           \/ Refuse(a) \/ RejectUnread(a) \/ Claim(a) \/ ClaimRefused(a)
           \/ Unclaimed(a) \/ AnswerFota(a) \/ Paused(a) \/ Repeat(a)
           \/ RejectBody(a) \/ RepeatReport(a) \/ StoreReportUnread(a)
  <2>1. PICK outcome \in Outcomes \ {"stored"}:
          Concluded(att, a, outcome) /\ Warranted(a, outcome)
    BY <1>1, ArmsConclude
  <2>2. stored' = stored
    BY <1>1 DEF AnswerDuplicate, AnswerNotFound, AnswerBadHeader, Refuse, Dismiss,
      RejectUnread, Claim, ClaimRefused, Unclaimed, AnswerFota, Paused, Repeat,
      RejectBody, RepeatReport, FinishAtOnce, StoreReportUnread
  <2>3. Concludes(a, att, outcome)
    BY <1>t, <2>1, <2>2 DEF Concludes
  <2> QED
    BY <2>3
<1>2. CASE StoreLog(a) \/ StoreReport(a)
  <2>1. Concluded(att, a, "stored") /\ Warranted(a, "stored")
    BY <1>2, StoresConclude
  <2>2. stored' = [stored EXCEPT ![Frame(a)] = @ + 1]
    BY <1>2 DEF StoreLog, StoreReport
  <2>3. Concludes(a, att, "stored")
    BY <1>t, <2>1, <2>2 DEF Concludes, Outcomes
  <2> QED
    BY <2>3
<1>3. CASE EnqueueFailed(a)
  <2> DEFINE base == Settle(a, FALSE)
  <2>1. att[a].pc = "enqueuing"
    BY <1>3 DEF EnqueueFailed
  <2>2. Concluded(base, a, "failed")
    BY <1>3, EnqueueConcludes
  <2>3. Warranted(a, "failed")
    BY DEF Warranted
  <2>4. /\ base \in [Attempts -> AttemptType]
        /\ base[a].key = att[a].key
        /\ \A b \in Attempts \ {a}:
             \/ base[b] = att[b]
             \/ /\ WokenIn(base, b)
                /\ base[b].verdict \in {"same", "elsewhere"} => FALSE
    BY <2>1, SettleWakes
  <2> HIDE DEF base
  <2>5. Concludes(a, base, "failed")
    BY <2>2, <2>3, <2>4 DEF Concludes, Outcomes
  <2> QED
    BY <2>5
<1>4. CASE EnqueueDone(a)
  <2> DEFINE base == Settle(a, TRUE)
  <2>1. att[a].pc = "enqueuing" /\ stored' = [stored EXCEPT ![Frame(a)] = @ + 1]
    BY <1>4 DEF EnqueueDone
  <2>2. Concluded(base, a, "stored")
    BY <1>4, EnqueueConcludes
  <2>3. Warranted(a, "stored")
    BY DEF Warranted
  <2>4. /\ base \in [Attempts -> AttemptType]
        /\ base[a].key = att[a].key
        /\ \A b \in Attempts \ {a}:
             \/ base[b] = att[b]
             \/ /\ WokenIn(base, b)
                /\ base[b].verdict \in {"same", "elsewhere"} => Frame(b) = Frame(a)
    BY <2>1, SettleWakes
  <2>5. Frame(a) \in Frames /\ stored'[Frame(a)] > 0
    <3>1. Frame(a) \in Frames
      BY <2>1, FrameFields DEF TypeInv, Dispatched, Frame
    <3> QED
      BY <1>t, <2>1, <3>1
  <2> HIDE DEF base
  <2>6. Concludes(a, base, "stored")
    BY <2>1, <2>2, <2>3, <2>4, <2>5 DEF Concludes, Outcomes
  <2> QED
    BY <2>6
<1> QED
  BY <1>1, <1>2, <1>3, <1>4 DEF Uplink

LEMMA UplinkInPlay ==
  ASSUME TypeInv, Judgements, NEW a \in Attempts, Uplink(a)
  PROVE  /\ att[a].pc \in {"arrived", "woken", "enqueuing"}
         /\ Unanswered(a) /\ att[a].key \in Keys /\ Frame(a) \in Frames
<1>1. att[a].pc \in {"arrived", "woken", "enqueuing"}
  <2>1. CASE Wait(a) \/ EnqueueFailed(a) \/ EnqueueDone(a)
    BY <2>1 DEF Wait, EnqueueFailed, EnqueueDone
  <2>2. CASE StartTelemetry(a)
    BY <2>2, FrameIsFree
  <2> QED
    BY <2>1, <2>2, ArmsEnd DEF Uplink
<1>2. att[a].key \in Keys
  BY <1>1 DEF TypeInv, Dispatched
<1> QED
  BY <1>1, <1>2, InPlayUnanswered, FrameFields DEF Frame

LEMMA UplinkJudges ==
  ASSUME TypeInv, InFlightHeld, Judgements, NEW a \in Attempts, Uplink(a)
  PROVE  Judgements'
<1>1. /\ Unanswered(a) /\ att[a].key \in Keys /\ Frame(a) \in Frames
      /\ att \in [Attempts -> AttemptType]
  BY UplinkInPlay DEF TypeInv, TypeOK
<1>2. stored \in [Frames -> Nat] /\ stored' \in [Frames -> Nat]
  BY UplinkType DEF TypeInv, TypeOK
<1>3. CASE Wait(a) \/ StartTelemetry(a)
  <2>1. /\ stored' = stored /\ row' = row
        /\ att'[a].verdict = "none" /\ att'[a].outcome = "none"
        /\ att'[a].pc # "done"
        /\ \A b \in Attempts \ {a}: att'[b] = att[b]
    <3>1. att[a] \in AttemptType /\ att[a].outcome = "none"
      BY <1>1 DEF Unanswered
    <3>2. CASE Wait(a)
      <4>1. /\ stored' = stored /\ row' = row
            /\ att' = [att EXCEPT ![a] = [@ EXCEPT !.pc = "waiting", !.verdict = "none"]]
        BY <3>2 DEF Wait
      <4> QED
        BY <1>1, <3>1, <4>1 DEF AttemptType
    <3>3. CASE StartTelemetry(a)
      <4>1. /\ stored' = stored /\ row' = row
            /\ att' = [att EXCEPT ![a] =
                 [@ EXCEPT !.pc = "enqueuing", !.verdict = "none",
                           !.began = now, !.life = pigeon.life,
                           !.onLine = OnClaimedLine(a)]]
        BY <3>3 DEF StartTelemetry
      <4> HIDE DEF OnClaimedLine
      <4> QED
        BY <1>1, <3>1, <4>1 DEF AttemptType
    <3> QED
      BY <1>3, <3>2, <3>3
  <2>2. Growing
    BY <1>1, <1>2, <2>1 DEF Growing, Unanswered
  <2> QED
    BY <1>1, <1>2, <2>1, <2>2, QuietJudges, WokenFrames DEF Unanswered
<1>4. ASSUME NEW base, NEW outcome, Concludes(a, base, outcome)
      PROVE  Judgements'
  <2>1. /\ \A f \in Frames: stored'[f] >= stored[f]
        /\ outcome = "stored" => stored'[Frame(a)] > 0
    <3>1. stored' \in {stored, [stored EXCEPT ![Frame(a)] = @ + 1]}
      <4>1. CASE Uplink(a) /\ outcome = "failed"
        BY <4>1, <1>4 DEF Uplink, Concludes, Wait, AnswerDuplicate, AnswerNotFound,
          AnswerBadHeader, Refuse, Dismiss, RejectUnread, Claim, ClaimRefused,
          Unclaimed, AnswerFota, Paused, Repeat, RejectBody, RepeatReport,
          FinishAtOnce, StoreLog, StartTelemetry, EnqueueFailed, EnqueueDone,
          StoreReport, StoreReportUnread
      <4> QED
        BY <1>4, <4>1 DEF Concludes
    <3> QED
      BY <1>1, <1>2, <1>4, <3>1 DEF Concludes
  <2> QED
    BY <1>1, <1>2, <1>4, <2>1, ConcludedJudges, WokenFrames DEF Concludes, WokenIn
<1> QED
  BY <1>3, <1>4, UplinkConcludes

LEMMA NextJudges ==
  TypeInv /\ InFlightHeld /\ Judgements /\ [Next]_vars => Judgements'
<1> SUFFICES ASSUME TypeInv, InFlightHeld, Judgements, [Next]_vars
             PROVE  Judgements'
  OBVIOUS
<1>1. /\ stored \in [Frames -> Nat] /\ att \in [Attempts -> AttemptType]
      /\ stored' \in [Frames -> Nat]
  BY NextType DEF TypeInv, TypeOK
<1>2. ASSUME NEW a \in Attempts, Arrive(a) PROVE Judgements'
  <2>1. /\ stored' = stored /\ row' = row /\ Unanswered(a)
        /\ \A b \in Attempts \ {a}: att'[b] = att[b]
    BY <1>2, ArriveAlone, InPlayUnanswered DEF Arrive
  <2>2. /\ att'[a].verdict = "none" /\ att'[a].outcome = "none"
        /\ att'[a].pc # "done"
    BY <1>1, <1>2 DEF Arrive, IdleAttempt
  <2>3. Growing
    BY <1>1, <2>1 DEF Growing, Unanswered
  <2> QED
    BY <1>1, <2>1, <2>2, <2>3, QuietJudges, WokenFrames DEF Unanswered
<1>3. ASSUME NEW a \in Attempts, Uplink(a) PROVE Judgements'
  BY <1>3, UplinkJudges
<1>4. CASE Reset
  <2>1. \A b \in Attempts:
          \/ att'[b] = att[b]
          \/ /\ Unanswered(b) /\ att'[b].verdict = "none"
             /\ att'[b].outcome = "lost" /\ att'[b].pc = "done"
    <3> SUFFICES ASSUME NEW b \in Attempts, att[b].pc \notin {"idle", "done"}
                 PROVE  /\ Unanswered(b) /\ att'[b].verdict = "none"
                        /\ att'[b].outcome = "lost" /\ att'[b].pc = "done"
      BY <1>4 DEF Reset
    <3>1. att'[b] = Answered(att, b, "lost")[b]
      BY <1>4 DEF Reset
    <3> QED
      BY <1>1, <3>1, InPlayUnanswered DEF Answered, AttemptType
  <2>2. row' = row /\ \A f \in Frames: stored'[f] >= stored[f]
    BY <1>1, <1>4 DEF Reset
  <2>3. Growing
    BY <1>1, <2>1, <2>2 DEF Growing, Unanswered
  <2> QED
    BY <1>1, <2>1, <2>2, <2>3, QuietJudges, WokenFrames DEF Unanswered
<1>5. CASE Delete
  <2>1. att' = att /\ stored' = stored /\ row' \in {row, DefaultRow}
    BY <1>5 DEF Delete
  <2>2. Entries(row') \subseteq Entries(row)
    BY <2>1 DEF Entries, DefaultRow
  <2>3. Growing
    BY <1>1, <2>1 DEF Growing
  <2> QED
    BY <1>1, <2>1, <2>2, <2>3, QuietJudges, WokenFrames
<1>6. CASE \/ RunTail \/ UpdateShadow \/ RefreshToken \/ Create
           \/ Missed \/ ReportElsewhere \/ Tick \/ UNCHANGED vars
  <2>1. att' = att /\ stored' = stored /\ row'.seen = row.seen
    BY <1>6, OutsideUplinks, OutsideSeen
  <2>2. Entries(row') \subseteq Entries(row)
    BY <2>1 DEF Entries
  <2>3. Growing
    BY <1>1, <2>1 DEF Growing
  <2> QED
    BY <1>1, <2>1, <2>2, <2>3, QuietJudges, WokenFrames
<1> QED
  BY <1>2, <1>3, <1>4, <1>5, <1>6 DEF Next

LEMMA InitJudges == Init => Judgements
<1> SUFFICES ASSUME Init PROVE Judgements
  OBVIOUS
<1>1. \A b \in Attempts: /\ att[b].outcome = "none" /\ att[b].verdict = "none"
                        /\ att[b].pc # "done"
  BY DEF Init, IdleAttempt
<1>2. row.seen = <<>>
  BY DEF Init, DefaultRow
<1>3. Entries(row) = {}
  BY <1>2 DEF Entries
<1> QED
  BY <1>1, <1>3 DEF Judgements, AnsweredIsDone, WokenWasDecided, SeenWasDecided,
    TurnedWasDecided, RejectedIsGarbled

(* However copies, enqueues, faults and resets interleave, and however     *)
(* many keys the row remembers: a copy turned away was judged before.      *)
THEOREM JudgedHolds == Spec => []TurnedAwayWasJudged
<1>1. TypeInv /\ Judgements => TurnedAwayWasJudged
  <2> SUFFICES ASSUME TypeInv, Judgements, NEW a \in Attempts,
                      att[a].outcome \in {"duplicate", "repeat"},
                      Kind(a) \in {"telemetry", "log"}, Frame(a).ok
               PROVE  \/ stored[Frame(a)] > 0
                      \/ \E b \in Attempts:
                           \/ att[b].outcome = "paused" /\ Frame(b) = Frame(a)
                           \/ /\ att[b].outcome = "unclaimed" /\ att[b].key = att[a].key
                              /\ att[a].outcome = "duplicate"
    BY DEF TurnedAwayWasJudged
  <2>1. Frame(a) \in Counted
    <3>1. att[a].pc = "done"
      BY DEF Judgements, AnsweredIsDone
    <3> QED
      BY <3>1, FrameFields DEF TypeInv, Dispatched, Counted, Kind, Frame
  <2> QED
    BY <2>1 DEF Judgements, TurnedWasDecided, RejectedIsGarbled, Decided, Disowned
<1> QED
  BY <1>1, InitType, NextType, InitHeld, NextHeld, InitJudges, NextJudges, PTL DEF Spec

-----------------------------------------------------------------------------
(* Every step of NiddUplink, as UplinkIngest sees it.                      *)

LEMMA StepForgets ==
  ASSUME \A f \in Frames: Accounted(f)
  PROVE  Ingest!Forgets
<1> DEFINE lost == {f \in Counted : lapses'[f] = lapses[f] + 1}
<1>1. \A f \in Counted: lapses'[f] = IF f \in lost THEN lapses[f] + 1 ELSE lapses[f]
  BY CountedFrames DEF Accounted
<1>2. Forgotten' = Ingest!Grown(Forgotten, lost)
  BY <1>1 DEF Forgotten, Ingest!Grown, Counted
<1> QED
  BY <1>2 DEF Ingest!Forgets

LEMMA QuietIngests ==
  ASSUME \A f \in Frames: Accounted(f), Carries' = Carries, Verdicts' = Verdicts,
         \A f \in Counted: stored'[f] = stored[f]
  PROVE  Ingest!Next
<1>1. Ingested' = Ingested
  BY DEF Ingested, Counted
<1> QED
  BY <1>1, StepForgets DEF Ingest!Next, Ingest!Forget

LEMMA OutsideIngests ==
  ASSUME TypeInv,
         \/ RunTail \/ UpdateShadow \/ RefreshToken \/ Delete \/ Create
         \/ Missed \/ ReportElsewhere \/ Tick \/ UNCHANGED vars
  PROVE  Ingest!Next
<1>1. att' = att /\ stored' = stored
  BY OutsideUplinks
<1>2. Carries' = Carries /\ Verdicts' = Verdicts
  BY <1>1 DEF Carries, Carried, Verdicts, Told, Counted, Frame
<1> QED
  BY <1>1, <1>2, OutsideAccounted, QuietIngests

LEMMA ArriveIngests ==
  ASSUME TypeInv, Judgements, NEW a \in Attempts, Arrive(a)
  PROVE  Ingest!Next
<1>1. /\ stored' = stored /\ lapses' = lapses /\ row' = row
      /\ att[a].pc = "idle" /\ att'[a].pc = "arrived"
      /\ \A b \in Attempts \ {a}: att'[b] = att[b]
  BY ArriveAlone DEF Arrive
<1>2. att'[a].outcome = "none" /\ att'[a].key \in Keys
  BY DEF Arrive, IdleAttempt, TypeInv, TypeOK
<1>3. /\ Carried(a) = {} /\ Told(a) = "none" /\ Told(a)' = "none"
      /\ \A b \in Attempts \ {a}: Carried(b)' = Carried(b) /\ Told(b)' = Told(b)
  BY <1>1, <1>2 DEF Carried, Told, VerdictOf, Counted, Frame
<1>4. Verdicts' = Verdicts
  BY <1>3 DEF Verdicts
<1>5. CASE Frame(a)' \in Counted
  <2>1. Carried(a)' = {Frame(a)'}
    BY <1>1, <1>5 DEF Carried, Counted
  <2>2. Carries' = [Carries EXCEPT ![a] = {Frame(a)'}]
    BY <1>3, <2>1 DEF Carries
  <2>3. Ingest!Deliver(a, Frame(a)')
    BY <1>1, <1>3, <1>4, <2>2 DEF Ingest!Deliver, Carries, Ingested, Forgotten, Counted
  <2> QED
    BY <1>5, <2>3 DEF Ingest!Next
<1>6. CASE Frame(a)' \notin Counted
  <2>1. Carried(a)' = {}
    BY <1>6 DEF Carried, Counted
  <2>2. Carries' = Carries
    BY <1>3, <2>1 DEF Carries
  <2> QED
    BY <1>1, <1>4, <2>2, SeenAccounted, QuietIngests, CountedFrames
<1> QED
  BY <1>5, <1>6

(* What the answer of a reading or a log is in UplinkIngest.               *)
LEMMA ConcludedAnswers ==
  ASSUME TypeInv, Judgements, NEW a \in Attempts, Uplink(a), Frame(a) \in Counted,
         NEW base, NEW outcome, Concludes(a, base, outcome)
  PROVE  /\ Ingest!Answer(a, VerdictOf(outcome))
         /\ Carries[a] = {Frame(a)}
<1>1. /\ att[a].pc # "idle" /\ Unanswered(a)
      /\ att'[a].outcome = outcome /\ att'[a].pc = "done"
      /\ att'[a].key = att[a].key
      /\ \A b \in Attempts \ {a}: att'[b] = base[b]
  BY UplinkInPlay DEF Concludes, Concluded, Answered, AttemptType
<1>2. /\ Carried(a) = {Frame(a)} /\ Carried(a)' = {Frame(a)}
      /\ Told(a) = "none" /\ Told(a)' = VerdictOf(outcome)
  BY <1>1 DEF Carried, Told, VerdictOf, Unanswered, Counted, Frame
<1>3. ASSUME NEW b \in Attempts \ {a}
      PROVE  Carried(b)' = Carried(b) /\ Told(b)' = Told(b)
  <2>1. CASE base[b] = att[b]
    BY <1>1, <2>1 DEF Carried, Told, VerdictOf, Counted, Frame
  <2>2. CASE WokenIn(base, b)
    BY <1>1, <2>2 DEF WokenIn, Unanswered, Carried, Told, VerdictOf, Counted, Frame
  <2> QED
    BY <2>1, <2>2 DEF Concludes
<1>4. Carries' = Carries /\ Carries[a] = {Frame(a)}
  BY <1>2, <1>3 DEF Carries
<1>5. Verdicts' = [Verdicts EXCEPT ![a] = VerdictOf(outcome)] /\ Verdicts[a] = "none"
  BY <1>2, <1>3 DEF Verdicts
<1> QED
  BY <1>4, <1>5 DEF Ingest!Answer, Ingest!Pending

LEMMA ConcludedIngests ==
  ASSUME TypeInv, InFlightHeld, Ledger, Judgements, NEW a \in Attempts, Uplink(a),
         NEW base, NEW outcome, Concludes(a, base, outcome)
  PROVE  Ingest!Next
<1>1. \A f \in Frames: Accounted(f)
  BY UplinkAccounted
<1>2. CASE Frame(a) \notin Counted
  <2>1. /\ att[a].pc # "idle" /\ att'[a].pc = "done" /\ att'[a].key = att[a].key
        /\ \A b \in Attempts \ {a}: att'[b] = base[b]
    BY UplinkInPlay DEF Concludes, Concluded, Answered, AttemptType
  <2>2. Carried(a) = {} /\ Carried(a)' = {}
    BY <1>2, <2>1 DEF Carried, Counted, Frame
  <2>3. ASSUME NEW b \in Attempts \ {a}
        PROVE  Carried(b)' = Carried(b) /\ Told(b)' = Told(b)
    <3>1. CASE base[b] = att[b]
      BY <2>1, <3>1 DEF Carried, Told, VerdictOf, Counted, Frame
    <3>2. CASE WokenIn(base, b)
      BY <2>1, <3>2 DEF WokenIn, Unanswered, Carried, Told, VerdictOf, Counted, Frame
    <3> QED
      BY <3>1, <3>2 DEF Concludes
  <2>4. Carries' = Carries /\ Verdicts' = Verdicts
    BY <2>2, <2>3 DEF Carries, Verdicts, Told
  <2>5. \A f \in Counted: stored'[f] = stored[f]
    BY <1>2, UplinkStores
  <2> QED
    BY <1>1, <2>4, <2>5, QuietIngests
<1>3. CASE Frame(a) \in Counted
  <2> DEFINE f == Frame(a)
  <2>1. /\ Ingest!Answer(a, VerdictOf(outcome)) /\ Carries[a] = {f}
        /\ Ingest!Forgets
    BY <1>1, <1>3, ConcludedAnswers, StepForgets
  <2>2. CASE stored'[f] = stored[f] + 1 /\ outcome \in {"stored", "failed"}
    <3>1. stored[f] <= lapses[f]
      <4>1. StoreLog(a) \/ EnqueueFailed(a) \/ EnqueueDone(a)
        <5>1. stored[f] \in Nat
          BY <1>3, CountedFrames DEF TypeInv, TypeOK
        <5> QED
          BY <1>3, <2>2, <5>1, UplinkStores
      <4>2. CASE StoreLog(a)
        <5>1. ~Settled(row, f)
          BY <4>2 DEF StoreLog, IsRepeat
        <5> QED
          BY <1>3, <5>1 DEF Ledger, LedgerOf
      <4>3. CASE EnqueueFailed(a) \/ EnqueueDone(a)
        <5>1. Storing(f)
          BY <4>3 DEF EnqueueFailed, EnqueueDone, Storing
        <5> QED
          BY <1>3, <5>1 DEF Ledger, LedgerOf
      <4> QED
        BY <4>1, <4>2, <4>3
    <3>2. \A g \in Counted: g # f => stored'[g] = stored[g]
      BY UplinkStores
    <3>3. Ingested' = Ingest!Grown(Ingested, {f})
      BY <1>3, <2>2, <3>2 DEF Ingested, Ingest!Grown, Counted
    <3>4. VerdictOf(outcome) \in {"ingested", "again"}
      BY <2>2 DEF VerdictOf
    <3>5. Ingested[f] <= Forgotten[f]
      BY <1>3, <3>1 DEF Ingested, Forgotten
    <3>6. Ingest!Ingest(a)
      BY <2>1, <3>3, <3>4, <3>5 DEF Ingest!Ingest
    <3> QED
      BY <3>6 DEF Ingest!Next
  <2>3. CASE stored'[f] = stored[f] /\ outcome # "stored"
    <3>1. \A g \in Counted: stored'[g] = stored[g]
      BY <2>3, UplinkStores
    <3>2. Ingested' = Ingested
      BY <3>1 DEF Ingested, Counted
    <3>3. CASE outcome \in {"duplicate", "repeat"}
      <4>1. \/ Ingested[f] > 0
            \/ \E d \in Attempts: Carries[d] = Carries[a] /\ Verdicts[d] = "judged"
        <5>1. Decided(f) \/ Disowned(att[a].key)
          BY <1>3, <3>3, WarrantDecided DEF Concludes
        <5>2. ASSUME NEW d \in Attempts, Frame(d) = f,
                     att[d].outcome \in {"paused", "rejected", "unclaimed"}
              PROVE  Carries[d] = Carries[a] /\ Verdicts[d] = "judged"
          <6>1. att[d].pc = "done"
            BY <5>2 DEF Judgements, AnsweredIsDone
          <6>2. Carried(d) = {f}
            BY <1>3, <5>2, <6>1 DEF Carried
          <6> QED
            BY <2>1, <5>2, <6>2 DEF Carries, Verdicts, Told, VerdictOf
        <5>3. CASE stored[f] > 0
          BY <1>3, <5>3 DEF Ingested
        <5>4. CASE ~(stored[f] > 0)
          <6>1. \E d \in Attempts:
                  Frame(d) = f /\ att[d].outcome \in {"paused", "rejected", "unclaimed"}
            BY <5>1, <5>4 DEF Decided, Disowned, Frame
          <6> QED
            BY <5>2, <6>1
        <5> QED
          BY <5>3, <5>4
      <4>2. VerdictOf(outcome) = "known"
        BY <3>3 DEF VerdictOf
      <4>3. Ingest!Known(a)
        BY <2>1, <3>2, <4>1, <4>2 DEF Ingest!Known
      <4> QED
        BY <4>3 DEF Ingest!Next
    <3>4. CASE outcome \notin {"duplicate", "repeat"}
      <4>1. VerdictOf(outcome) \in {"judged", "again"}
        BY <2>3, <3>4 DEF VerdictOf, Concludes, Warranted
      <4>2. Ingest!TurnDown(a)
        BY <2>1, <3>2, <4>1 DEF Ingest!TurnDown
      <4> QED
        BY <4>2 DEF Ingest!Next
    <3> QED
      BY <3>3, <3>4
  <2>4. \/ stored'[f] = stored[f] + 1 /\ outcome \in {"stored", "failed"}
        \/ stored'[f] = stored[f] /\ outcome # "stored"
    <3>1. f \in Frames /\ stored \in [Frames -> Nat]
      BY <1>3, CountedFrames DEF TypeInv, TypeOK
    <3>2. CASE outcome = "stored"
      BY <3>1, <3>2 DEF Concludes
    <3>3. CASE outcome = "failed"
      BY <1>3, <3>3, UplinkStores
    <3>4. CASE outcome \notin {"stored", "failed"}
      BY <3>4 DEF Concludes
    <3> QED
      BY <3>2, <3>3, <3>4
  <2> QED
    BY <2>2, <2>3, <2>4
<1> QED
  BY <1>2, <1>3

LEMMA UplinkIngests ==
  ASSUME TypeInv, InFlightHeld, Ledger, Judgements, NEW a \in Attempts, Uplink(a)
  PROVE  Ingest!Next
<1>1. CASE Wait(a) \/ StartTelemetry(a)
  <2>1. att[a].pc # "idle" /\ Unanswered(a) /\ att[a] \in AttemptType
    BY UplinkInPlay DEF TypeInv, TypeOK
  <2>2. /\ stored' = stored
        /\ att'[a].pc # "idle" /\ att'[a].key = att[a].key
        /\ att'[a].outcome = "none"
        /\ \A b \in Attempts \ {a}: att'[b] = att[b]
    <3>1. CASE Wait(a)
      BY <2>1, <3>1 DEF Wait, Unanswered, AttemptType, TypeInv, TypeOK
    <3>2. CASE StartTelemetry(a)
      BY <2>1, <3>2 DEF StartTelemetry, Unanswered, AttemptType, TypeInv, TypeOK
    <3> QED
      BY <1>1, <3>1, <3>2
  <2>3. \A b \in Attempts: Carried(b)' = Carried(b) /\ Told(b)' = Told(b)
    BY <2>1, <2>2 DEF Carried, Told, VerdictOf, Unanswered, Counted, Frame
  <2>4. Carries' = Carries /\ Verdicts' = Verdicts
    BY <2>3 DEF Carries, Verdicts
  <2> QED
    BY <2>2, <2>4, UplinkAccounted, QuietIngests
<1> QED
  BY <1>1, UplinkConcludes, ConcludedIngests

LEMMA ResetIngests ==
  ASSUME TypeInv, Ledger, Judgements, Reset
  PROVE  Ingest!Next
<1>1. PICK landed \in SUBSET {a \in Attempts : att[a].pc = "enqueuing"}:
        stored' = [f \in Frames |->
                     IF \E a \in landed: Frame(a) = f THEN stored[f] + 1
                     ELSE stored[f]]
  BY DEF Reset
<1> DEFINE grown == {f \in Counted : \E a \in landed: Frame(a) = f}
<1>2. Ingested' = Ingest!Grown(Ingested, grown)
  BY <1>1, CountedFrames DEF Ingested, Ingest!Grown, Counted
<1>3. grown \subseteq {f \in Ingest!PendingSends : Ingested[f] <= Forgotten[f]}
  <2> SUFFICES ASSUME NEW a \in landed, Frame(a) \in Counted
               PROVE  /\ Frame(a) \in Ingest!PendingSends
                      /\ Ingested[Frame(a)] <= Forgotten[Frame(a)]
    OBVIOUS
  <2>1. att[a].pc = "enqueuing" /\ a \in Attempts /\ Unanswered(a)
    BY InPlayUnanswered
  <2>2. Storing(Frame(a))
    BY <2>1 DEF Storing
  <2>3. Carries[a] = {Frame(a)} /\ Verdicts[a] = "none"
    BY <2>1 DEF Carries, Carried, Verdicts, Told, VerdictOf, Unanswered
  <2> QED
    BY <2>1, <2>2, <2>3 DEF Ledger, LedgerOf, Ingested, Forgotten,
      Ingest!PendingSends, Ingest!Pending
<1>4. ASSUME NEW b \in Attempts
      PROVE  /\ Carried(b)' = Carried(b)
             /\ Told(b)' = IF Carried(b) # {} /\ Told(b) = "none" THEN "again"
                           ELSE Told(b)
  <2>1. CASE att[b].pc \in {"idle", "done"}
    <3>1. att'[b] = att[b]
      BY <2>1 DEF Reset
    <3>2. Carried(b) # {} => Told(b) # "none"
      BY <2>1 DEF Judgements, AnsweredIsDone, Carried, Told, VerdictOf
    <3> QED
      BY <3>1, <3>2 DEF Carried, Told, VerdictOf, Counted, Frame
  <2>2. CASE att[b].pc \notin {"idle", "done"}
    <3>1. att'[b] = Answered(att, b, "lost")[b]
      BY <2>2 DEF Reset
    <3>2. att'[b].pc = "done" /\ att'[b].outcome = "lost" /\ att'[b].key = att[b].key
      BY <3>1 DEF Answered, TypeInv, TypeOK, AttemptType
    <3> QED
      BY <2>2, <3>2, InPlayUnanswered DEF Unanswered, Carried, Told, VerdictOf, Counted, Frame
  <2> QED
    BY <2>1, <2>2
<1>5. /\ Carries' = Carries
      /\ Verdicts' = [c \in Attempts |-> IF Ingest!Pending(c) THEN "again"
                                         ELSE Verdicts[c]]
  BY <1>4 DEF Carries, Verdicts, Ingest!Pending
<1>6. Ingest!Forgets
  BY NotedAccounted, StepForgets DEF Reset
<1> HIDE DEF grown
<1>7. Ingest!Crash
  BY <1>2, <1>3, <1>5, <1>6 DEF Ingest!Crash
<1> QED
  BY <1>7 DEF Ingest!Next

LEMMA NextIngests ==
  TypeInv /\ InFlightHeld /\ Ledger /\ Judgements /\ [Next]_vars
    => [Ingest!Next]_<<Carries, Verdicts, Ingested, Forgotten>>
<1> SUFFICES ASSUME TypeInv, InFlightHeld, Ledger, Judgements, [Next]_vars
             PROVE  Ingest!Next
  OBVIOUS
<1> QED
  BY ArriveIngests, UplinkIngests, ResetIngests, OutsideIngests DEF Next

LEMMA InitIngests == Init => Ingest!Init
<1> SUFFICES ASSUME Init PROVE Ingest!Init
  OBVIOUS
<1>1. \A b \in Attempts: att[b].pc = "idle" /\ att[b].outcome = "none"
  BY DEF Init, IdleAttempt
<1>2. \A b \in Attempts: Carried(b) = {} /\ Told(b) = "none"
  BY <1>1 DEF Carried, Told
<1>3. \A f \in Counted: stored[f] = 0 /\ lapses[f] = 0
  BY CountedFrames DEF Init
<1> QED
  BY <1>2, <1>3 DEF Ingest!Init, Carries, Verdicts, Ingested, Forgotten

(* NiddUplink implements UplinkIngest for any number of callbacks, frames, *)
(* keys remembered and failures: whichever way the handler's segments      *)
(* interleave, each is a step of the promise.                              *)
THEOREM IngestImplemented == Spec => ImplementsIngest
<1>1. Spec => Ingest!Init /\ [][Ingest!Next]_<<Carries, Verdicts, Ingested, Forgotten>>
  BY InitIngests, NextIngests, InitType, NextType, InitHeld, NextHeld,
    InitLedger, NextLedger, InitJudges, NextJudges, PTL DEF Spec
<1> QED
  BY <1>1 DEF ImplementsIngest, Ingest!Spec, Ingest!vars
=============================================================================
