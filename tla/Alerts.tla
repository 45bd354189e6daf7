------------------------------- MODULE Alerts -------------------------------
(***************************************************************************)
(* One alert definition over one pigeon: its `alert_state` row, the        *)
(* evaluations that read it, decide and write it back, and the operator's  *)
(* hold, which keeps the pigeon out of every evaluation.                   *)
(*                                                                         *)
(* Evaluations run in queue consumers, in the pigeon's object and in the   *)
(* scheduled pass, each a few Postgres statements with nothing that locks  *)
(* the row between them: an action is what runs between two awaits.        *)
(***************************************************************************)
EXTENDS ConnectionState, Sequences, SequencesExt

CONSTANTS
  Evaluators,    \* invocations that may be evaluating at once
  Toggles,       \* dashboard requests that suspend or resume the pigeon
  Conditions,    \* what the definition may watch for
  Edits,         \* what an edit may set: [condition, enabled]
  Batches,       \* what a delivery may decide: sequences of [age, holds], oldest first
  FlockScoped,   \* the definition names a flock, not the pigeon
  Window,        \* ALERT_DEBOUNCE_SECS
  Faults,        \* which of "statement", "killed", "request" may happen
  MaxTime,       \* the clock's bound
  MaxActs        \* bound on reports, evaluations, edits, suspends and resumes together

\* The last two are DeviceState, by the state it names.
Kinds == {"threshold", "rate", "missing", "offline", "stale"}

ASSUME AlertsAssumption ==
  /\ \A c \in Conditions : c.kind \in Kinds /\ c.hold \in Nat
  /\ Edits \subseteq [condition : Conditions, enabled : BOOLEAN]
  /\ \A b \in Batches : b \in Seq([age : Nat, holds : BOOLEAN])
  /\ \A b \in Batches : \A i, j \in DOMAIN b : i <= j => b[j].age <= b[i].age
  /\ Window \in Nat /\ MaxTime \in Nat /\ MaxActs \in Nat
  /\ FlockScoped \in BOOLEAN

VARIABLES
  time,
  definition,    \* [condition, enabled, exists]
  row,           \* the `alert_state` row: status, and first_true_at
  heard,         \* what Postgres knows of the device: last report, last stamp
  hold,          \* suspended_at, in the pigeon's object and on the mirror
  job,           \* the evaluations
  toggle,        \* where each dashboard request stands
  mails,         \* the turns of the alert somebody was mailed about
  (* What only the properties read: *)
  turns,         \* turns of the row that evaluations have made
  spell,         \* the current run of true readings, as it was read
  held,          \* a suspend ran to its end and nothing resumed since
  lapses,        \* what has gone wrong so far
  acts           \* how many of the acts MaxActs bounds there were

row_vars == <<row, spell, turns>>
own_vars == <<definition, hold, toggle, held>>
vars == <<time, definition, row, heard, hold, job, toggle, mails, turns, spell, held, lapses, acts>>

----------------------------------------------------------------------------
(* The lifecycle of a row. *)

Fresh == [status |-> "ok", first |-> Never]

Noise == {"threshold", "rate"}
Debounce(c) == IF c.kind \in {"rate", "missing"} THEN 0
               ELSE IF c.kind = "threshold" THEN c.hold ELSE Window
HoldsResolve(c) == c.kind = "rate" \/ (c.kind = "threshold" /\ c.hold < Window)

ShouldFire(c, first, at) == (IF first = Never THEN 0 ELSE at - first) >= Debounce(c)
\* Mutant of ShouldResolve: any false reading resolves.
ResolveAtOnce(c, last, at) == TRUE

ShouldResolve(c, last, at) == ~HoldsResolve(c) \/ last = Never \/ at - last >= Window

NextTransition(c, r, holds, at) ==
  IF r.status = "ok" THEN
    IF holds THEN IF ShouldFire(c, r.first, at) THEN "fire"
                  ELSE IF r.first = Never THEN "open" ELSE "stay"
    ELSE IF r.first # Never THEN "reset" ELSE "stay"
  ELSE
    IF holds THEN IF HoldsResolve(c) /\ (r.first = Never \/ at > r.first) THEN "restep" ELSE "stay"
    ELSE IF ShouldResolve(c, r.first, at) THEN "resolve" ELSE "stay"

Since(c, r, at) == IF HoldsResolve(c) \/ r.first = Never THEN at ELSE r.first

\* Mutant of Written: a resolve leaves the start behind.
WrittenResolveKeeps(r, move) ==
  CASE move.kind \in {"open", "restep"} -> [r EXCEPT !.first = move.at]
    [] move.kind = "fire"    -> [status |-> "firing", first |-> move.since]
    [] move.kind = "reset"   -> [r EXCEPT !.first = Never]
    [] move.kind = "resolve" -> [r EXCEPT !.status = "ok"]
    [] move.kind = "stay"    -> r

\* Mutant of Written: firing leaves the start to the opening.
WrittenFireForgets(r, move) ==
  CASE move.kind \in {"open", "restep"} -> [r EXCEPT !.first = move.at]
    [] move.kind = "fire"    -> [r EXCEPT !.status = "firing"]
    [] move.kind = "reset"   -> [r EXCEPT !.first = Never]
    [] move.kind = "resolve" -> Fresh
    [] move.kind = "stay"    -> r

\* What the UPDATE of a transition leaves, over a row that may have moved.
Written(r, move) ==
  CASE move.kind \in {"open", "restep"} -> [r EXCEPT !.first = move.at]
    [] move.kind = "fire"    -> [status |-> "firing", first |-> move.since]
    [] move.kind = "reset"   -> [r EXCEPT !.first = Never]
    [] move.kind = "resolve" -> Fresh
    [] move.kind = "stay"    -> r

Move(c, r, v) == [kind |-> NextTransition(c, r, v.holds, v.at), at |-> v.at,
                  since |-> Since(c, r, v.at)]

Opens(verdicts, i) == i = 1 \/ (i > 1 /\ verdicts[i - 1].holds # verdicts[i].holds)
Closes(verdicts, i) ==
  i = Len(verdicts) \/ (i < Len(verdicts) /\ verdicts[i + 1].holds # verdicts[i].holds)

\* Mutant of TransitionsToApply: only the first reading of a run.
RunOpenings(verdicts) == {i \in DOMAIN verdicts : Opens(verdicts, i)}

\* Only the first and the last reading of a run of equal truth go through:
\* the places of a batch that are sent on, in their order.
TransitionsToApply(verdicts) ==
  {i \in DOMAIN verdicts : Opens(verdicts, i) \/ Closes(verdicts, i)}

\* The scheduled pass's verdict on the silence it finds.
ConditionHolds(c, now) ==
  IF c.kind = "missing" THEN heard.report = Never \/ now - heard.report >= c.hold
  ELSE LET contact == ContactUntil(heard.stamp, heard.report)
       IN /\ Classify(contact, now) = c.kind
          /\ now - contact - EnteredAfter(c.kind) >= c.hold

----------------------------------------------------------------------------
NoMove == [kind |-> "stay", at |-> 0, since |-> 0]
NoJob == [phase |-> "idle", condition |-> CHOOSE c \in Conditions : TRUE, todo |-> {},
          batch |-> <<>>, move |-> NoMove, turn |-> 0,
          now |-> 0, outlived |-> FALSE]
Quiet == [from |-> Never, last |-> Never]

Init ==
  /\ time = 0
  /\ definition \in [condition : Conditions, enabled : {TRUE}, exists : {TRUE}]
  /\ row = Fresh /\ spell = Quiet /\ turns = 0 /\ mails = {}
  /\ heard = [report |-> Never, stamp |-> Never]
  /\ hold = [object |-> FALSE, mirror |-> FALSE] /\ held = FALSE
  /\ job = [e \in Evaluators |-> NoJob]
  /\ toggle = [t \in Toggles |-> "unsent"]
  /\ lapses = {} /\ acts = 0

Act == acts < MaxActs /\ acts' = acts + 1
Deciding == {e \in Evaluators : job[e].phase = "write"}

Tick == /\ time < MaxTime /\ time' = time + 1
        /\ UNCHANGED <<definition, row, heard, hold, job, toggle, mails, turns, spell, held, lapses, acts>>

\* A report lands in the history, a contact stamp on the mirror.
Hear(stamped) ==
  /\ Act
  /\ heard' = IF stamped THEN [heard EXCEPT !.stamp = time] ELSE [heard EXCEPT !.report = time]
  /\ UNCHANGED <<time, lapses, job, mails, row_vars, own_vars>>

----------------------------------------------------------------------------
(* Evaluation. *)

\* Mutant of LookUp: the query takes a held pigeon too.
LookUpHeld(e, batch) ==
  /\ job[e].phase = "idle" /\ Act
  /\ definition.exists /\ definition.enabled
  /\ definition.condition.kind \in Noise
  /\ \A i \in DOMAIN batch : batch[i].age <= time
  /\ LET verdicts == [i \in DOMAIN batch |-> [at |-> time - batch[i].age, holds |-> batch[i].holds]]
     IN job' = [job EXCEPT ![e] = [NoJob EXCEPT
          !.phase = "next", !.condition = definition.condition, !.batch = verdicts,
          !.todo = TransitionsToApply(verdicts)]]
  /\ UNCHANGED <<time, lapses, heard, mails, row_vars, own_vars>>

\* The definitions that apply, in one query that leaves out a held pigeon.
LookUp(e, batch) ==
  /\ job[e].phase = "idle" /\ Act
  /\ definition.exists /\ definition.enabled /\ ~hold.mirror
  /\ definition.condition.kind \in Noise
  /\ \A i \in DOMAIN batch : batch[i].age <= time
  /\ LET verdicts == [i \in DOMAIN batch |-> [at |-> time - batch[i].age, holds |-> batch[i].holds]]
     IN job' = [job EXCEPT ![e] = [NoJob EXCEPT
          !.phase = "next", !.condition = definition.condition, !.batch = verdicts,
          !.todo = TransitionsToApply(verdicts)]]
  /\ UNCHANGED <<time, lapses, heard, mails, row_vars, own_vars>>

\* The scheduled pass reads its clock once, and the pigeons of a flock.
SweepLookUp(e) ==
  /\ job[e].phase = "idle" /\ Act
  /\ definition.exists /\ definition.enabled
  /\ definition.condition.kind \notin Noise
  /\ FlockScoped => ~hold.mirror
  /\ job' = [job EXCEPT ![e] = [NoJob EXCEPT !.phase = "seen", !.now = time,
                                !.condition = definition.condition]]
  /\ UNCHANGED <<time, lapses, heard, mails, row_vars, own_vars>>

\* What was last heard of the pigeon, and whether it is held.
SweepSeen(e) ==
  /\ job[e].phase = "seen"
  /\ job' = [job EXCEPT ![e] =
       IF hold.mirror THEN NoJob
       ELSE LET verdict == <<[at |-> @.now, holds |-> ConditionHolds(@.condition, @.now)]>>
            IN [@ EXCEPT !.phase = "next", !.batch = verdict, !.todo = {1}]]
  /\ UNCHANGED <<time, acts, heard, mails, lapses, row_vars, own_vars>>

\* The place in its batch that an evaluation is at, and what is left after it.
At(e) == Min(job[e].todo)
Rest(e) == job[e].todo \ {At(e)}

\* The run of true readings as the evaluations read it.
SpellAfter(s, r, v) ==
  IF v.holds
  THEN [from |-> IF s.from = Never THEN v.at ELSE s.from,
        last |-> IF s.last = Never \/ v.at > s.last THEN v.at ELSE s.last]
  ELSE IF r.status = "ok" THEN Quiet ELSE [s EXCEPT !.from = Never]

\* The upsert answers the row as it is, and the transition is decided on it.
ReadRow(e) ==
  LET v == job[e].batch[At(e)]
      move == Move(job[e].condition, row, v)
  IN /\ job[e].phase = "next" /\ job[e].todo # {} /\ definition.exists
     /\ job' = IF move.kind = "stay" THEN [job EXCEPT ![e].todo = Rest(e)]
               ELSE [job EXCEPT ![e].move = move, ![e].phase = "write"]
     /\ spell' = SpellAfter(spell, row, v)
     /\ lapses' = lapses \cup (IF Deciding = {} THEN {} ELSE {"overlap"})
     /\ UNCHANGED <<time, acts, heard, mails, row, turns, own_vars>>

\* Mutant of WriteRow: every transition is mailed.
WriteRowMails(e) ==
  LET now == IF definition.exists THEN Written(row, job[e].move) ELSE row
  IN /\ job[e].phase = "write"
     /\ row' = now
     /\ turns' = IF now.status # row.status THEN turns + 1 ELSE turns
     /\ job' = [job EXCEPT ![e].phase = "mail", ![e].turn = turns']
     /\ lapses' = lapses \cup (IF held /\ job[e].outlived THEN {"late"} ELSE {})
     /\ spell' = IF job[e].move.kind = "resolve" THEN Quiet ELSE spell
     /\ UNCHANGED <<time, acts, heard, mails, own_vars>>

\* An UPDATE with no condition on what the row holds by now.
WriteRow(e) ==
  LET now == IF definition.exists THEN Written(row, job[e].move) ELSE row
      mailing == job[e].move.kind \in {"fire", "resolve"}
  IN /\ job[e].phase = "write"
     /\ row' = now
     /\ turns' = IF now.status # row.status THEN turns + 1 ELSE turns
     /\ job' = IF mailing THEN [job EXCEPT ![e].phase = "mail", ![e].turn = turns']
               ELSE [job EXCEPT ![e].phase = "next", ![e].move = NoMove, ![e].todo = Rest(e)]
     /\ lapses' = lapses \cup (IF held /\ job[e].outlived THEN {"late"} ELSE {})
     /\ spell' = IF job[e].move.kind = "resolve" THEN Quiet ELSE spell
     /\ UNCHANGED <<time, acts, heard, mails, own_vars>>

\* Best effort: no recipient or a refused send is logged and forgotten.
SendMail(e) ==
  /\ job[e].phase = "mail"
  /\ \E sent \in BOOLEAN : mails' = IF sent THEN mails \cup {job[e].turn} ELSE mails
  /\ job' = [job EXCEPT ![e].phase = "next", ![e].move = NoMove, ![e].turn = 0, ![e].todo = Rest(e)]
  /\ UNCHANGED <<time, acts, heard, lapses, row_vars, own_vars>>

Finish(e) ==
  /\ job[e].phase = "next" /\ job[e].todo = {}
  /\ job' = [job EXCEPT ![e] = NoJob]
  /\ UNCHANGED <<time, acts, heard, mails, lapses, row_vars, own_vars>>

\* A failed statement costs its reading: the loop goes on with the next one.
FailStatement(e) ==
  /\ \/ "statement" \in Faults
     \/ job[e].phase = "next" /\ ~definition.exists
  /\ job[e].phase \in {"next", "write"} /\ job[e].todo # {}
  /\ job' = [job EXCEPT ![e].phase = "next", ![e].move = NoMove, ![e].todo = Rest(e)]
  /\ lapses' = lapses \cup {"failed"}
  /\ UNCHANGED <<time, acts, heard, mails, row_vars, own_vars>>

Killed(e) ==
  /\ "killed" \in Faults /\ job[e].phase # "idle"
  /\ job' = [job EXCEPT ![e] = NoJob]
  /\ lapses' = lapses \cup {"failed"}
  /\ UNCHANGED <<time, acts, heard, mails, row_vars, own_vars>>

----------------------------------------------------------------------------
(* The owner: the definition, and the operator's hold. *)

\* An edit leaves the row as the earlier condition left it.
EditDefinition(edit) ==
  /\ definition.exists /\ Act
  /\ definition' = [definition EXCEPT !.condition = edit.condition, !.enabled = edit.enabled]
  /\ lapses' = lapses \cup {"edit"}
  /\ UNCHANGED <<time, heard, hold, job, toggle, held, mails, row_vars>>

\* The rows go with the definition.
DeleteDefinition ==
  /\ definition.exists /\ Act
  /\ definition' = [definition EXCEPT !.exists = FALSE]
  /\ row' = Fresh
  /\ lapses' = lapses \cup {"deleted"}
  /\ UNCHANGED <<time, heard, hold, job, toggle, held, mails, turns, spell>>

InFlight == {t \in Toggles : toggle[t] \notin {"unsent", "answered"}}
Crossing(t) == IF InFlight \subseteq {t} THEN {} ELSE {"crossed"}

\* A suspend stamps the object first and mirrors after ...
SuspendObject(t) ==
  /\ toggle[t] = "unsent" /\ Act
  /\ hold' = [hold EXCEPT !.object = TRUE]
  /\ toggle' = [toggle EXCEPT ![t] = "mirror"]
  /\ lapses' = lapses \cup Crossing(t)
  /\ UNCHANGED <<time, definition, heard, job, mails, held, row_vars>>

Outlive == [e \in Evaluators |->
  IF job[e].phase \in {"next", "write", "mail"} THEN [job[e] EXCEPT !.outlived = TRUE] ELSE job[e]]

SuspendMirror(t) ==
  /\ toggle[t] = "mirror"
  /\ hold' = [hold EXCEPT !.mirror = TRUE]
  /\ toggle' = [toggle EXCEPT ![t] = "reset"]
  /\ job' = Outlive
  /\ UNCHANGED <<time, acts, definition, heard, mails, held, row_vars, lapses>>

\* ... and the state is put back last, with no mail.
SuspendReset(t) ==
  /\ toggle[t] = "reset"
  /\ row' = Fresh
  /\ spell' = Quiet
  /\ held' = hold.mirror
  /\ toggle' = [toggle EXCEPT ![t] = "answered"]
  /\ lapses' = lapses \cup (IF Deciding = {} THEN {} ELSE {"overlap"})
  /\ UNCHANGED <<time, acts, definition, heard, hold, job, mails, turns>>

\* Mutant of ResumeMirror: the object is cleared first.
ResumeObjectFirst(t) ==
  /\ toggle[t] = "unsent" /\ Act
  /\ hold' = [hold EXCEPT !.object = FALSE]
  /\ held' = FALSE
  /\ toggle' = [toggle EXCEPT ![t] = "object"]
  /\ lapses' = lapses \cup Crossing(t)
  /\ UNCHANGED <<time, definition, heard, job, mails, row_vars>>

\* A resume clears the mirror first, behind the object's owner check.
ResumeMirror(t) ==
  /\ toggle[t] = "unsent" /\ Act
  /\ hold' = [hold EXCEPT !.mirror = FALSE]
  /\ held' = FALSE
  /\ toggle' = [toggle EXCEPT ![t] = "object"]
  /\ lapses' = lapses \cup Crossing(t)
  /\ UNCHANGED <<time, definition, heard, job, mails, row_vars>>

ResumeObject(t) ==
  /\ toggle[t] = "object"
  /\ hold' = [hold EXCEPT !.object = FALSE]
  /\ toggle' = [toggle EXCEPT ![t] = "answered"]
  /\ UNCHANGED <<time, acts, definition, heard, job, mails, held, row_vars, lapses>>

\* A write fails and the rest of the request with it.
RequestFails(t) ==
  /\ "request" \in Faults /\ t \in InFlight
  /\ toggle' = [toggle EXCEPT ![t] = "answered"]
  /\ UNCHANGED <<time, acts, definition, heard, hold, job, mails, held, row_vars, lapses>>

Evaluate(e) ==
  \/ \E batch \in Batches : LookUp(e, batch)
  \/ SweepLookUp(e) \/ SweepSeen(e)
  \/ ReadRow(e) \/ WriteRow(e) \/ SendMail(e) \/ Finish(e)
  \/ FailStatement(e) \/ Killed(e)

Own(t) ==
  \/ SuspendObject(t) \/ SuspendMirror(t) \/ SuspendReset(t)
  \/ ResumeMirror(t) \/ ResumeObject(t) \/ RequestFails(t)

Next ==
  \/ Tick
  \/ \E stamped \in BOOLEAN : Hear(stamped)
  \/ \E e \in Evaluators : Evaluate(e)
  \/ \E edit \in Edits : EditDefinition(edit)
  \/ DeleteDefinition
  \/ \E t \in Toggles : Own(t)

Spec == Init /\ [][Next]_vars

----------------------------------------------------------------------------
Clean(kinds) == lapses \cap kinds = {}

\* "Sends at most one email per transition": unless one evaluation read the
\* row while another had decided and not yet written, no turn of the row is
\* about to be mailed that was mailed before or that another is mailing.
OneMailPerTransition ==
  Clean({"overlap", "deleted"}) =>
    \A e \in Evaluators : job[e].phase = "mail" =>
      /\ job[e].turn \notin mails
      /\ \A f \in Evaluators \ {e} : job[f].phase = "mail" => job[f].turn # job[e].turn

\* The lifecycle of AlertStatus: ok turns to firing only once the readings,
\* as they were read, were all true for the definition's own debounce.
FiresOnlyAfterHold ==
  Clean({"overlap", "failed", "edit"}) =>
    \A e \in Deciding : job[e].move.kind = "fire" =>
      job[e].move.at - spell.from >= Debounce(job[e].condition)

\* A noisy condition mails no pair for every alternation: it resolves a
\* whole window after the last true reading of the spell, however readings
\* were backdated.
NoisyResolveHeld ==
  Clean({"overlap", "failed", "edit"}) =>
    \A e \in Deciding : job[e].move.kind = "resolve" /\ HoldsResolve(job[e].condition) =>
      job[e].move.at - spell.last >= Window

\* A firing row says since when, so that a resolve hold has what to count from.
FiringKnowsItsStart ==
  Clean({"overlap"}) => (row.status = "firing" => row.first # Never)

\* While a pigeon is held no evaluation of it begins, and its row stays put
\* back, unless an evaluation that had begun before writes after the reset.
HeldPigeonRests ==
  /\ hold.mirror => \A e \in Evaluators :
                      job[e].phase \in {"next", "write", "mail"} => job[e].outlived
  /\ held /\ Clean({"late"}) => row = Fresh

\* "the only reachable split is a DO row that says suspended while Postgres
\* still evaluates", whichever write fails, as long as no suspend and resume
\* are under way at once.
SplitOneWay == Clean({"crossed"}) => (hold.mirror => hold.object)

\* What one reading does to a row and to the mails about it, and what those
\* places of a batch do that `sent` names.
Decided(c, s, v) ==
  LET m == Move(c, s.row, v)
  IN [row |-> Written(s.row, m),
      mailed |-> IF m.kind \in {"fire", "resolve"} THEN Append(s.mailed, m.kind) ELSE s.mailed]

Replay(c, r, verdicts, sent) ==
  LET after[i \in 0..Len(verdicts)] ==
        IF i = 0 THEN [row |-> r, mailed |-> <<>>]
        ELSE IF i \in sent THEN Decided(c, after[i - 1], verdicts[i]) ELSE after[i - 1]
  IN after

\* What is left of a batch to send through, the ends of its runs, does to the
\* row as it stands, and to the mails, what every reading of it would do.
BatchIsSequential ==
  \A e \in Evaluators :
    LET batch == job[e].batch
        after(sent) == Replay(job[e].condition, row, batch, sent)[Len(batch)]
    IN job[e].phase = "next" /\ job[e].todo = TransitionsToApply(batch) =>
         after(DOMAIN batch) = after(job[e].todo)
==============================================================================
