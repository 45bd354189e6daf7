---------------------------- MODULE Alerts_proofs ----------------------------
(***************************************************************************)
(* What the alert lifecycle keeps for any number of evaluations, requests, *)
(* definitions and readings: one mail a turn, the debounce, the resolve    *)
(* hold, the operator's hold and its split, and that the ends of a run of  *)
(* readings do what the whole run would.                                   *)
(***************************************************************************)
EXTENDS Alerts, WellFoundedInduction, FiniteSetTheorems, TLAPS

Moment == Nat \cup {Never}
Rows == [status : {"ok", "firing"}, first : Moment]
Spells == [from : Moment, last : Moment]
Verdicts == [at : Nat, holds : BOOLEAN]
Moves == [kind : {"stay", "open", "fire", "restep", "reset", "resolve"}, at : Nat, since : Nat]
Jobs ==
  [phase : {"idle", "seen", "next", "write", "mail"}, condition : Conditions,
   todo : SUBSET Nat, batch : Seq(Verdicts), move : Moves, turn : Nat, now : Nat,
   outlived : BOOLEAN]

\* The readings of a batch are in the order of their times, and what is left
\* to send on is among them.
JobOK(j) ==
  /\ j.todo \subseteq DOMAIN j.batch
  /\ \A a, b \in DOMAIN j.batch : a <= b => j.batch[a].at <= j.batch[b].at
  /\ j.phase \in {"write", "mail"} => j.todo # {}

Stages == {"unsent", "mirror", "reset", "object", "answered"}

TypeInv ==
  /\ time \in Nat
  /\ definition \in [condition : Conditions, enabled : BOOLEAN, exists : BOOLEAN]
  /\ row \in Rows /\ spell \in Spells
  /\ heard \in [report : Moment, stamp : Moment]
  /\ turns \in Nat /\ mails \subseteq Nat
  /\ hold \in [object : BOOLEAN, mirror : BOOLEAN] /\ held \in BOOLEAN
  /\ job \in [Evaluators -> Jobs]
  /\ toggle \in [Toggles -> Stages]
  /\ \A e \in Evaluators : JobOK(job[e])

\* The lapses that are recorded for what they are.
Lapsed ==
  /\ ~definition.exists => "deleted" \in lapses
  /\ Clean({"edit"}) => \A e \in Evaluators :
       job[e].phase # "idle" => job[e].condition = definition.condition

\* Without an overlap one evaluation at a time has decided, and its decision
\* is still the one it would take over the row as it stands.
Verdict(e) == job[e].batch[At(e)]
StandingDecision ==
  Clean({"overlap"}) =>
    /\ \A e, f \in Deciding : e = f
    /\ \A e \in Deciding :
         /\ job[e].move.kind # "stay"
         /\ definition.exists => job[e].move = Move(job[e].condition, row, Verdict(e))

\* A mail in flight, and a mail sent, is of a turn there was.
MailsOfTurns ==
  /\ mails \subseteq 0..turns
  /\ \A e \in Evaluators : job[e].phase = "mail" => job[e].turn \in 0..turns

\* What a row has of the spell behind it: the start of the spell while it
\* waits, its last true reading while a noisy condition fires.
SpellOf(r, s, c) ==
  IF r.status = "ok"
  THEN IF r.first = Never THEN s = Quiet
       ELSE s.from = r.first /\ s.last # Never /\ s.last >= s.from /\ s.last - s.from < Debounce(c)
  ELSE HoldsResolve(c) => s.last = r.first /\ r.first # Never

SpellAfterWrite(kind) == IF kind = "resolve" THEN Quiet ELSE spell

RowKeepsSpell ==
  Clean({"overlap", "failed", "edit"}) /\ definition.exists =>
    /\ Deciding = {} => SpellOf(row, spell, definition.condition)
    /\ \A e \in Deciding :
         SpellOf(Written(row, job[e].move), SpellAfterWrite(job[e].move.kind), definition.condition)

\* The debounce and the hold behind a decision.
DecidedOnSpell ==
  Clean({"overlap", "failed", "edit"}) =>
    \A e \in Deciding :
      /\ job[e].move.kind = "fire" =>
           spell.from # Never /\ job[e].move.at - spell.from >= Debounce(job[e].condition)
      /\ job[e].move.kind = "resolve" /\ HoldsResolve(job[e].condition) =>
           spell.last # Never /\ job[e].move.at - spell.last >= Window

HeldIsMirrored == held => hold.mirror

\* One request at a time holds or frees the pigeon, the object before and
\* after the mirror.
OneToggle ==
  Clean({"crossed"}) =>
    /\ \A t, u \in InFlight : t = u
    /\ \A t \in Toggles : /\ toggle[t] = "mirror" => hold.object
                          /\ toggle[t] = "object" => ~hold.mirror

IInv ==
  /\ TypeInv /\ Lapsed
  /\ StandingDecision /\ FiringKnowsItsStart
  /\ MailsOfTurns /\ OneMailPerTransition
  /\ RowKeepsSpell /\ DecidedOnSpell
  /\ HeldIsMirrored /\ HeldPigeonRests
  /\ OneToggle /\ SplitOneWay

----------------------------------------------------------------------------
(* Least elements, on which every induction below rests. *)

LEMMA LeastSet ==
  ASSUME NEW S, IsFiniteSet(S), NEW T, T \subseteq SUBSET S, T # {}
  PROVE  \E x \in T : \A y \in T : y \subseteq x => y = x
<1>1. FiniteSubsetsOf(S) = SUBSET S
  BY FS_FiniteSubsetsOfFinite
<1>2. IsWellFoundedOn(StrictSubsetOrdering(S), SUBSET S)
  BY <1>1, FS_StrictSubsetOrderingWellFounded
<1>3. PICK x \in T : \A y \in T : ~(<<y, x>> \in StrictSubsetOrdering(S))
  BY <1>2, WFMin
<1> QED
  BY <1>3 DEF StrictSubsetOrdering

LEMMA LeastNat ==
  ASSUME NEW T, T \subseteq Nat, T # {}
  PROVE  \E n \in T : \A m \in T : n <= m
<1>1. PICK b \in T : TRUE
  OBVIOUS
<1> DEFINE Upto == {0..n : n \in {k \in T : k <= b}}
<1>2. IsFiniteSet(0..b)
  BY FS_Interval
<1>3. Upto \subseteq SUBSET (0..b) /\ Upto # {}
  <2>1. (0..b) \in Upto
    OBVIOUS
  <2> QED
    BY <2>1
<1>4. PICK x \in Upto : \A y \in Upto : y \subseteq x => y = x
  <2> DEFINE S0 == 0..b
  <2>1. IsFiniteSet(S0) /\ Upto \subseteq SUBSET S0 /\ Upto # {}
    BY <1>2, <1>3
  <2> HIDE DEF Upto, S0
  <2> QED
    BY <2>1, LeastSet
<1>5. PICK n \in T : n <= b /\ x = 0..n
  OBVIOUS
<1>6. ASSUME NEW m \in T, m < n PROVE FALSE
  <2>1. m <= b /\ (0..m) \in Upto
    BY <1>5, <1>6
  <2>2. 0..m \subseteq 0..n
    BY <1>6
  <2>4. 0..m = 0..n
    BY <1>4, <1>5, <2>1, <2>2
  <2>3. n \in 0..n /\ n \notin 0..m
    BY <1>6
  <2> QED
    BY <2>3, <2>4
<1> QED
  BY <1>6

LEMMA Element ==
  ASSUME NEW S, NEW q \in Seq(S), NEW i \in DOMAIN q
  PROVE  q[i] \in S
OBVIOUS

LEMMA NextPlace ==
  ASSUME TypeInv, NEW e \in Evaluators, job[e].todo # {}
  PROVE  At(e) \in job[e].todo /\ At(e) \in DOMAIN job[e].batch /\ Verdict(e) \in Verdicts
<1>1. job[e] \in Jobs /\ JobOK(job[e])
  BY DEF TypeInv
<1>2. job[e].todo \subseteq Nat /\ job[e].batch \in Seq(Verdicts)
  BY <1>1 DEF Jobs
<1>3. \E n \in job[e].todo : \A m \in job[e].todo : n <= m
  BY <1>2, LeastNat
<1>4. At(e) \in job[e].todo
  BY <1>3 DEF At, Min
<1> QED
  BY <1>1, <1>2, <1>4 DEF JobOK, Verdict

----------------------------------------------------------------------------
(* The lifecycle of a row. *)

LEMMA MoveType ==
  ASSUME NEW c \in Conditions, NEW r \in Rows, NEW v \in Verdicts
  PROVE  /\ Move(c, r, v) \in Moves /\ Written(r, Move(c, r, v)) \in Rows
         /\ Move(c, r, v).kind = "stay" => Written(r, Move(c, r, v)) = r
<1>1. NextTransition(c, r, v.holds, v.at) \in {"stay", "open", "fire", "restep", "reset", "resolve"}
  BY DEF NextTransition
<1>2. v.at \in Nat /\ Since(c, r, v.at) \in Nat
  BY DEF Verdicts, Since, Rows, Moment
<1>3. Move(c, r, v) \in Moves
  BY <1>1, <1>2 DEF Move, Moves
<1>4. \A m \in Moves : Written(r, m) \in Rows
  BY DEF Written, Moves, Rows, Moment, Fresh
<1> QED
  BY <1>3, <1>4 DEF Written

LEMMA DebounceType ==
  ASSUME NEW c \in Conditions
  PROVE  Debounce(c) \in Nat
BY AlertsAssumption DEF Debounce

LEMMA MoveKinds ==
  ASSUME NEW c \in Conditions, NEW r \in Rows, NEW v \in Verdicts
  PROVE  LET m == Move(c, r, v) IN
         /\ m.kind \in {"open", "fire", "reset"} => r.status = "ok"
         /\ m.kind \in {"restep", "resolve"} => r.status = "firing"
         /\ m.kind = "fire" => Written(r, m).status = "firing" /\ Written(r, m).first # Never
         /\ m.kind = "resolve" => Written(r, m) = Fresh
         /\ m.kind \notin {"fire", "resolve"} => Written(r, m).status = r.status
         /\ m.kind = "restep" => Written(r, m).first # Never
         /\ m.kind = "stay" => Written(r, m) = r
<1> USE ConnectionAssumption
<1>1. v.at \in Nat /\ v.at # Never
  BY DEF Verdicts
<1>2. Since(c, r, v.at) # Never
  BY <1>1 DEF Since, Rows, Moment
<1> QED
  BY <1>1, <1>2 DEF Move, NextTransition, Written, Rows

LEMMA SpellStep ==
  ASSUME NEW c \in Conditions, NEW r \in Rows, NEW s \in Spells, NEW v \in Verdicts,
         SpellOf(r, s, c)
  PROVE  LET m == Move(c, r, v)
             t == SpellAfter(s, r, v)
         IN /\ t \in Spells
            /\ SpellOf(Written(r, m), IF m.kind = "resolve" THEN Quiet ELSE t, c)
            /\ m.kind = "fire" => t.from # Never /\ v.at - t.from >= Debounce(c)
            /\ m.kind = "resolve" /\ HoldsResolve(c) => t.last # Never /\ v.at - t.last >= Window
<1> USE ConnectionAssumption, AlertsAssumption
<1> DEFINE m == Move(c, r, v)
           t == SpellAfter(s, r, v)
           D == Debounce(c)
<1>1. v.at \in Nat /\ v.at # Never /\ v.holds \in BOOLEAN /\ D \in Nat /\ Window \in Nat
  BY DebounceType DEF Verdicts
<1>2. /\ s.from \in Moment /\ s.last \in Moment /\ r.first \in Moment /\ r.status \in {"ok", "firing"}
      /\ s.from # Never => s.from \in Nat
      /\ s.last # Never => s.last \in Nat
      /\ r.first # Never => r.first \in Nat
  BY DEF Spells, Rows, Moment
<1>3. t \in Spells
  BY <1>1, <1>2 DEF SpellAfter, Quiet, Spells, Moment
<1>4. m.kind = NextTransition(c, r, v.holds, v.at) /\ m.at = v.at /\ m.since = Since(c, r, v.at)
  BY DEF Move
<1> DEFINE X == /\ SpellOf(Written(r, m), IF m.kind = "resolve" THEN Quiet ELSE t, c)
                /\ m.kind = "fire" => t.from # Never /\ v.at - t.from >= D
                /\ m.kind = "resolve" /\ HoldsResolve(c) => t.last # Never /\ v.at - t.last >= Window
<1>5. CASE r.status = "ok" /\ v.holds
  <2>1. t = [from |-> IF s.from = Never THEN v.at ELSE s.from,
             last |-> IF s.last = Never \/ v.at > s.last THEN v.at ELSE s.last]
    BY <1>5 DEF SpellAfter
  <2>2. CASE r.first = Never
    <3>1. s.from = Never /\ s.last = Never
      BY <1>5, <2>2 DEF SpellOf, Quiet
    <3>2. t = [from |-> v.at, last |-> v.at]
      BY <2>1, <3>1
    <3>3. CASE 0 >= D
      <4>1. m.kind = "fire" /\ Written(r, m) = [status |-> "firing", first |-> v.at]
        BY <1>4, <1>5, <2>2, <3>3 DEF NextTransition, ShouldFire, Since, Written
      <4> QED
        BY <1>1, <1>3, <3>2, <3>3, <4>1 DEF SpellOf
    <3>4. CASE ~(0 >= D)
      <4>1. m.kind = "open" /\ Written(r, m) = [r EXCEPT !.first = v.at]
        BY <1>4, <1>5, <2>2, <3>4 DEF NextTransition, ShouldFire, Written
      <4>2. Written(r, m).status = "ok" /\ Written(r, m).first = v.at
        BY <1>5, <4>1 DEF Rows
      <4> QED
        BY <1>1, <1>3, <3>2, <3>4, <4>1, <4>2 DEF SpellOf
    <3> QED
      BY <3>3, <3>4
  <2>3. CASE r.first # Never
    <3>1. s.from = r.first /\ s.last \in Nat /\ s.from \in Nat /\ s.last >= s.from /\ s.last - s.from < D
      BY <1>2, <1>5, <2>3 DEF SpellOf
    <3>2. t.from = r.first /\ t.last = (IF v.at > s.last THEN v.at ELSE s.last)
      BY <1>1, <2>1, <3>1
    <3>3. CASE v.at - r.first >= D
      <4>1. m.kind = "fire" /\ Written(r, m) = [status |-> "firing", first |-> Since(c, r, v.at)]
        BY <1>4, <1>5, <2>3, <3>3 DEF NextTransition, ShouldFire, Written
      <4>2. t.last = v.at
        BY <1>1, <1>2, <3>1, <3>2, <3>3
      <4>3. HoldsResolve(c) => Since(c, r, v.at) = v.at
        BY DEF Since
      <4> QED
        BY <1>1, <1>3, <3>1, <3>2, <3>3, <4>1, <4>2, <4>3 DEF SpellOf
    <3>4. CASE ~(v.at - r.first >= D)
      <4>1. m.kind = "stay" /\ Written(r, m) = r
        BY <1>4, <1>5, <2>3, <3>4 DEF NextTransition, ShouldFire, Written
      <4> QED
        BY <1>1, <1>2, <1>3, <1>5, <2>3, <3>1, <3>2, <3>4, <4>1 DEF SpellOf
    <3> QED
      BY <3>3, <3>4
  <2> QED
    BY <2>2, <2>3
<1>6. CASE r.status = "ok" /\ ~v.holds
  <2>1. t = Quiet
    BY <1>6 DEF SpellAfter
  <2>2. Written(r, m) = Fresh /\ m.kind \in {"reset", "stay"}
    BY <1>4, <1>6 DEF NextTransition, Written, Rows, Fresh
  <2> QED
    BY <1>3, <2>1, <2>2 DEF SpellOf, Fresh
<1>7. CASE r.status # "ok" /\ v.holds
  <2>1. t.last = IF s.last = Never \/ v.at > s.last THEN v.at ELSE s.last
    BY <1>7 DEF SpellAfter
  <2>2. m.kind = IF HoldsResolve(c) /\ (r.first = Never \/ v.at > r.first) THEN "restep" ELSE "stay"
    BY <1>4, <1>7 DEF NextTransition
  <2>3. /\ Written(r, m).status = r.status
        /\ Written(r, m).first = IF m.kind = "restep" THEN v.at ELSE r.first
    BY <1>4, <2>2 DEF Written, Rows
  <2> QED
    BY <1>1, <1>2, <1>3, <1>7, <2>1, <2>2, <2>3 DEF SpellOf
<1>8. CASE r.status # "ok" /\ ~v.holds
  <2>1. t = [s EXCEPT !.from = Never] /\ t.last = s.last
    BY <1>8 DEF SpellAfter, Spells
  <2>2. m.kind = IF ShouldResolve(c, r.first, v.at) THEN "resolve" ELSE "stay"
    BY <1>4, <1>8 DEF NextTransition
  <2>3. CASE ShouldResolve(c, r.first, v.at)
    <3>1. m.kind = "resolve" /\ Written(r, m) = Fresh
      BY <2>2, <2>3 DEF Written
    <3>2. HoldsResolve(c) => s.last = r.first /\ r.first # Never /\ v.at - r.first >= Window
      BY <1>8, <2>3 DEF ShouldResolve, SpellOf
    <3> QED
      BY <1>3, <2>1, <3>1, <3>2 DEF SpellOf, Fresh
  <2>4. CASE ~ShouldResolve(c, r.first, v.at)
    <3>1. m.kind = "stay" /\ Written(r, m) = r
      BY <2>2, <2>4 DEF Written
    <3> QED
      BY <1>3, <1>8, <2>1, <3>1 DEF SpellOf
  <2> QED
    BY <2>3, <2>4
<1> QED
  BY <1>2, <1>1, <1>5, <1>6, <1>7, <1>8

----------------------------------------------------------------------------
(* Steps. *)

LEMMA InitIInv == Init => IInv
<1> SUFFICES ASSUME Init PROVE IInv
  OBVIOUS
<1> USE DEF Init
<1>1. NoJob \in Jobs /\ JobOK(NoJob) /\ NoJob.phase = "idle"
  BY DEF NoJob, NoMove, Jobs, Moves, JobOK
<1>2. TypeInv
  BY <1>1 DEF TypeInv, Fresh, Quiet, Rows, Spells, Moment, Stages
<1>3. Deciding = {} /\ InFlight = {}
  BY <1>1 DEF Deciding, InFlight
<1>4. Lapsed /\ StandingDecision /\ FiringKnowsItsStart
  BY <1>1, <1>3 DEF Lapsed, StandingDecision, FiringKnowsItsStart, Fresh
<1>5. MailsOfTurns /\ OneMailPerTransition
  BY <1>1 DEF MailsOfTurns, OneMailPerTransition
<1>6. RowKeepsSpell /\ DecidedOnSpell
  BY <1>3 DEF RowKeepsSpell, DecidedOnSpell, SpellOf, Fresh
<1>7. HeldIsMirrored /\ HeldPigeonRests
  BY DEF HeldIsMirrored, HeldPigeonRests
<1>8. OneToggle /\ SplitOneWay
  BY <1>3 DEF OneToggle, SplitOneWay
<1> QED
  BY <1>2, <1>4, <1>5, <1>6, <1>7, <1>8 DEF IInv

LEMMA JobType ==
  ASSUME TypeInv, NEW e \in Evaluators
  PROVE  /\ job[e] \in Jobs /\ JobOK(job[e])
         /\ job[e].phase \in {"idle", "seen", "next", "write", "mail"}
         /\ job[e].todo \subseteq Nat /\ job[e].batch \in Seq(Verdicts)
         /\ job[e].condition \in Conditions /\ job[e].move \in Moves
         /\ job[e].turn \in Nat /\ job[e].now \in Nat /\ job[e].outlived \in BOOLEAN
         /\ row \in Rows /\ spell \in Spells /\ time \in Nat /\ turns \in Nat
BY DEF TypeInv, Jobs

\* An evaluation that stops or goes on without having written the row leaves
\* what the others rely on.
LEMMA LeavesRow ==
  ASSUME IInv, NEW e \in Evaluators, NEW j \in Jobs, JobOK(j),
         j.phase \in {"idle", "seen", "next"},
         job' = [job EXCEPT ![e] = j],
         j.phase # "idle" =>
           j.condition = IF job[e].phase = "idle" THEN definition.condition ELSE job[e].condition,
         j.phase = "next" /\ hold.mirror => j.outlived,
         job[e].phase = "write" => "failed" \in lapses',
         lapses \subseteq lapses',
         mails' = mails \/ (job[e].phase = "mail" /\ mails' = mails \cup {job[e].turn}),
         UNCHANGED <<time, heard, row_vars, own_vars>>
  PROVE  IInv'
<1>0. UNCHANGED <<time, heard, row, spell, turns, definition, hold, toggle, held>>
  BY DEF row_vars, own_vars
<1>1. /\ job'[e] = j
      /\ \A f \in Evaluators \ {e} : job'[f] = job[f]
      /\ job' \in [Evaluators -> Jobs] /\ job[e] \in Jobs
  BY DEF IInv, TypeInv
<1>2. Deciding' = Deciding \ {e} /\ e \notin Deciding'
  BY <1>1 DEF Deciding
<1>3. job[e].turn \in Nat
  BY <1>1 DEF Jobs
<1>4. TypeInv'
  <2>1. mails' \subseteq Nat
    BY <1>3 DEF IInv, TypeInv
  <2>2. \A f \in Evaluators : JobOK(job'[f])
    BY <1>1 DEF IInv, TypeInv
  <2> QED
    BY <1>0, <1>1, <2>1, <2>2 DEF IInv, TypeInv
<1>5. Lapsed'
  <2>1. ~definition.exists => "deleted" \in lapses'
    BY DEF IInv, Lapsed
  <2>2. ASSUME Clean({"edit"})', NEW f \in Evaluators, job'[f].phase # "idle"
        PROVE  job'[f].condition = definition.condition
    <3>1. Clean({"edit"})
      BY <2>2 DEF Clean
    <3> QED
      BY <1>1, <2>2, <3>1 DEF IInv, Lapsed
  <2> QED
    BY <1>0, <2>1, <2>2 DEF Lapsed
<1>6. StandingDecision'
  <2> SUFFICES ASSUME Clean({"overlap"})'
               PROVE  /\ \A f, g \in Deciding' : f = g
                      /\ \A f \in Deciding' :
                           /\ job'[f].move.kind # "stay"
                           /\ definition.exists => job'[f].move = Move(job'[f].condition, row, Verdict(f)')
    BY <1>0 DEF StandingDecision, Move, Since
  <2>1. Clean({"overlap"})
    BY DEF Clean
  <2>2. \A f \in Deciding' : f \in Deciding /\ job'[f] = job[f] /\ Verdict(f)' = Verdict(f)
    BY <1>1, <1>2 DEF Deciding, Verdict, At
  <2> QED
    BY <2>1, <2>2 DEF IInv, StandingDecision
<1>7. FiringKnowsItsStart'
  BY <1>0 DEF IInv, FiringKnowsItsStart, Clean
<1>8. MailsOfTurns'
  <2>1. \A f \in Evaluators : job'[f].phase = "mail" => job'[f] = job[f]
    BY <1>1
  <2> QED
    BY <1>0, <2>1 DEF IInv, MailsOfTurns
<1>9. OneMailPerTransition'
  <2> SUFFICES ASSUME Clean({"overlap", "deleted"})', NEW f \in Evaluators, job'[f].phase = "mail"
               PROVE  /\ job'[f].turn \notin mails'
                      /\ \A g \in Evaluators \ {f} : job'[g].phase = "mail" => job'[g].turn # job'[f].turn
    BY DEF OneMailPerTransition
  <2>1. Clean({"overlap", "deleted"}) /\ f # e /\ job'[f] = job[f]
    BY <1>1 DEF Clean
  <2>2. /\ job[f].turn \notin mails
        /\ \A g \in Evaluators \ {f} : job[g].phase = "mail" => job[g].turn # job[f].turn
    BY <2>1 DEF IInv, OneMailPerTransition
  <2> QED
    BY <1>1, <2>1, <2>2
<1>10. RowKeepsSpell'
  <2> SUFFICES ASSUME Clean({"overlap", "failed", "edit"})', definition.exists
               PROVE  /\ Deciding' = {} => SpellOf(row, spell, definition.condition)
                      /\ \A f \in Deciding' :
                           SpellOf(Written(row, job'[f].move),
                                   SpellAfterWrite(job'[f].move.kind), definition.condition)
    BY <1>0 DEF RowKeepsSpell, SpellAfterWrite
  <2>1. Clean({"overlap", "failed", "edit"}) /\ job[e].phase # "write"
    BY DEF Clean
  <2>2. Deciding' = Deciding
    BY <1>2, <2>1 DEF Deciding
  <2>3. \A f \in Deciding' : job'[f] = job[f]
    BY <1>1, <1>2
  <2> QED
    BY <2>1, <2>2, <2>3 DEF IInv, RowKeepsSpell
<1>11. DecidedOnSpell'
  <2>1. Clean({"overlap", "failed", "edit"})' => Clean({"overlap", "failed", "edit"})
    BY DEF Clean
  <2>2. \A f \in Deciding' : f \in Deciding /\ job'[f] = job[f]
    BY <1>1, <1>2
  <2> QED
    BY <1>0, <2>1, <2>2 DEF IInv, DecidedOnSpell
<1>12. HeldIsMirrored' /\ HeldPigeonRests'
  <2>1. Clean({"late"})' => Clean({"late"})
    BY DEF Clean
  <2> QED
    BY <1>0, <1>1, <2>1 DEF IInv, HeldIsMirrored, HeldPigeonRests
<1>13. OneToggle' /\ SplitOneWay'
  <2>1. Clean({"crossed"})' => Clean({"crossed"})
    BY DEF Clean
  <2> QED
    BY <1>0, <2>1 DEF IInv, OneToggle, SplitOneWay, InFlight
<1> QED
  BY <1>4, <1>5, <1>6, <1>7, <1>8, <1>9, <1>10, <1>11, <1>12, <1>13 DEF IInv

LEMMA ClockMoves ==
  ASSUME IInv, time' \in Nat, heard' \in [report : Moment, stamp : Moment],
         UNCHANGED <<definition, row, hold, job, toggle, mails, turns, spell, held, lapses>>
  PROVE  IInv'
<1>1. Deciding' = Deciding /\ InFlight' = InFlight
  BY DEF Deciding, InFlight
<1>2. TypeInv' /\ Lapsed'
  BY DEF IInv, TypeInv, Lapsed, Clean
<1>3. StandingDecision'
  <2>1. \A e : Verdict(e)' = Verdict(e)
    BY DEF Verdict, At
  <2>2. \A c, v : Move(c, row, v)' = Move(c, row, v)
    BY DEF Move, Since
  <2> QED
    BY <1>1, <2>1, <2>2 DEF IInv, StandingDecision, Clean
<1>4. FiringKnowsItsStart' /\ MailsOfTurns' /\ OneMailPerTransition'
  BY DEF IInv, FiringKnowsItsStart, MailsOfTurns, OneMailPerTransition, Clean
<1>5. RowKeepsSpell' /\ DecidedOnSpell'
  BY <1>1 DEF IInv, RowKeepsSpell, DecidedOnSpell, Clean, SpellAfterWrite
<1>6. HeldIsMirrored' /\ HeldPigeonRests' /\ OneToggle' /\ SplitOneWay'
  BY <1>1 DEF IInv, HeldIsMirrored, HeldPigeonRests, OneToggle, SplitOneWay, Clean
<1> QED
  BY <1>2, <1>3, <1>4, <1>5, <1>6 DEF IInv

LEMMA TickKeeps ==
  ASSUME IInv, Tick
  PROVE  IInv'
<1>1. time' \in Nat /\ heard' \in [report : Moment, stamp : Moment]
  BY DEF Tick, IInv, TypeInv
<1> QED
  BY <1>1, ClockMoves DEF Tick

LEMMA HearKeeps ==
  ASSUME IInv, NEW stamped \in BOOLEAN, Hear(stamped)
  PROVE  IInv'
<1>1. time' \in Nat /\ heard' \in [report : Moment, stamp : Moment]
  BY DEF Hear, IInv, TypeInv, Moment
<1> QED
  BY <1>1, ClockMoves DEF Hear, row_vars, own_vars

----------------------------------------------------------------------------
(* Evaluation. *)

LEMMA NoJobType ==
  ASSUME TypeInv
  PROVE  NoJob \in Jobs /\ JobOK(NoJob) /\ NoJob.phase = "idle"
BY DEF TypeInv, NoJob, NoMove, Jobs, Moves, JobOK

LEMMA LookUpKeeps ==
  ASSUME IInv, NEW e \in Evaluators, NEW batch \in Batches, LookUp(e, batch)
  PROVE  IInv'
<1> DEFINE verdicts == [i \in DOMAIN batch |-> [at |-> time - batch[i].age, holds |-> batch[i].holds]]
           j == [NoJob EXCEPT !.phase = "next", !.condition = definition.condition,
                   !.batch = verdicts, !.todo = TransitionsToApply(verdicts)]
<1>1. /\ job' = [job EXCEPT ![e] = j] /\ job[e].phase = "idle" /\ ~hold.mirror
      /\ UNCHANGED <<time, lapses, heard, mails, row_vars, own_vars>>
      /\ \A i \in DOMAIN batch : batch[i].age <= time
  BY DEF LookUp
<1>2. /\ batch \in Seq([age : Nat, holds : BOOLEAN])
      /\ \A a, b \in DOMAIN batch : a <= b => batch[b].age <= batch[a].age
  BY AlertsAssumption
<1>t. \A i \in DOMAIN batch : batch[i].age \in Nat /\ batch[i].holds \in BOOLEAN
  <2> SUFFICES ASSUME NEW i \in DOMAIN batch PROVE batch[i] \in [age : Nat, holds : BOOLEAN]
    OBVIOUS
  <2> DEFINE A == [age : Nat, holds : BOOLEAN]
  <2>1. batch \in Seq(A)
    BY <1>2
  <2> HIDE DEF A
  <2>2. batch[i] \in A
    BY <2>1, Element
  <2> QED
    BY <2>2 DEF A
<1>3. time \in Nat /\ definition.condition \in Conditions
  BY DEF IInv, TypeInv
<1>4. \A i \in DOMAIN batch : verdicts[i] \in Verdicts
  BY <1>1, <1>3, <1>t DEF Verdicts
<1>5. DOMAIN verdicts = 1..Len(batch) /\ DOMAIN batch = 1..Len(batch) /\ Len(batch) \in Nat
  BY <1>2
<1>6. verdicts \in Seq(Verdicts)
  BY <1>4, <1>5
<1>7. \A a, b \in DOMAIN verdicts : a <= b => verdicts[a].at <= verdicts[b].at
  <2> SUFFICES ASSUME NEW a \in DOMAIN batch, NEW b \in DOMAIN batch, a <= b
               PROVE  time - batch[a].age <= time - batch[b].age
    OBVIOUS
  <2>1. batch[b].age <= batch[a].age /\ batch[a].age \in Nat /\ batch[b].age \in Nat
    BY <1>2, <1>t
  <2> QED
    BY <1>3, <2>1
<1>8. TransitionsToApply(verdicts) \subseteq DOMAIN verdicts /\ DOMAIN verdicts \subseteq Nat
  BY <1>5 DEF TransitionsToApply
<1> HIDE DEF verdicts
<1>9. j \in Jobs /\ j.phase = "next" /\ j.condition = definition.condition
      /\ j.todo \subseteq DOMAIN j.batch /\ j.batch = verdicts
  BY <1>3, <1>6, <1>8, NoJobType DEF IInv, Jobs
<1>10. JobOK(j)
  BY <1>7, <1>9 DEF JobOK
<1> HIDE DEF j
<1> QED
  BY <1>1, <1>9, <1>10, LeavesRow

LEMMA SweepLookUpKeeps ==
  ASSUME IInv, NEW e \in Evaluators, SweepLookUp(e)
  PROVE  IInv'
<1> DEFINE j == [NoJob EXCEPT !.phase = "seen", !.now = time, !.condition = definition.condition]
<1>1. job' = [job EXCEPT ![e] = j] /\ job[e].phase = "idle"
      /\ UNCHANGED <<time, lapses, heard, mails, row_vars, own_vars>>
  BY DEF SweepLookUp
<1>2. time \in Nat /\ definition.condition \in Conditions
  BY DEF IInv, TypeInv
<1>3. j \in Jobs /\ j.phase = "seen" /\ j.condition = definition.condition /\ JobOK(j)
  BY <1>2, NoJobType DEF IInv, Jobs, JobOK, NoJob
<1> HIDE DEF j
<1> QED
  BY <1>1, <1>3, LeavesRow

LEMMA SweepSeenKeeps ==
  ASSUME IInv, NEW e \in Evaluators, SweepSeen(e)
  PROVE  IInv'
<1>1. job[e] \in Jobs /\ job[e].phase = "seen" /\ job[e].now \in Nat
      /\ UNCHANGED <<time, lapses, heard, mails, row_vars, own_vars>>
  BY JobType DEF SweepSeen, IInv
<1>2. CASE hold.mirror
  <2>1. job' = [job EXCEPT ![e] = NoJob]
    BY <1>2 DEF SweepSeen
  <2> QED
    BY <1>1, <2>1, NoJobType, LeavesRow DEF IInv
<1>3. CASE ~hold.mirror
  <2> DEFINE v == [at |-> job[e].now, holds |-> ConditionHolds(job[e].condition, job[e].now)]
             q == <<v>>
             first == {1}
             j == [job[e] EXCEPT !.phase = "next", !.batch = q, !.todo = first]
  <2>1. job' = [job EXCEPT ![e] = j]
    BY <1>3 DEF SweepSeen
  <2>2. ConditionHolds(job[e].condition, job[e].now) \in BOOLEAN
    BY DEF ConditionHolds
  <2>3. v \in Verdicts
    BY <1>1, <2>2 DEF Verdicts
  <2> HIDE DEF v
  <2>4. q \in Seq(Verdicts) /\ DOMAIN q = {1} /\ q[1] = v
    BY <2>3
  <2>t. first \subseteq Nat
    OBVIOUS
  <2> HIDE DEF q, first
  <2>5. j \in Jobs /\ j.phase = "next" /\ j.condition = job[e].condition
        /\ j.todo = first /\ j.batch = q
    BY <1>1, <2>4, <2>t DEF Jobs
  <2>6. JobOK(j)
    BY <2>3, <2>4, <2>5 DEF JobOK, Verdicts, first
  <2> HIDE DEF j
  <2> QED
    BY <1>1, <1>3, <2>1, <2>5, <2>6, LeavesRow
<1> QED
  BY <1>2, <1>3

LEMMA FinishKeeps ==
  ASSUME IInv, NEW e \in Evaluators, Finish(e) \/ Killed(e)
  PROVE  IInv'
<1>1. job' = [job EXCEPT ![e] = NoJob] /\ mails' = mails /\ lapses \subseteq lapses'
      /\ (job[e].phase = "write" => "failed" \in lapses')
      /\ UNCHANGED <<time, heard, row_vars, own_vars>>
  BY DEF Finish, Killed
<1> QED
  BY <1>1, NoJobType, LeavesRow DEF IInv

LEMMA NextReading ==
  ASSUME IInv, NEW e \in Evaluators, job[e].todo # {}, job[e].phase \in {"next", "write", "mail"},
         NEW t \in Nat
  PROVE  LET j == [job[e] EXCEPT !.phase = "next", !.move = NoMove, !.turn = t, !.todo = Rest(e)]
         IN /\ j \in Jobs /\ JobOK(j) /\ j.phase = "next" /\ j.condition = job[e].condition
            /\ hold.mirror => j.outlived
<1>1. job[e] \in Jobs /\ JobOK(job[e])
  BY JobType DEF IInv
<1>2. Rest(e) \subseteq job[e].todo /\ job[e].todo \subseteq Nat
  BY <1>1 DEF Rest, Jobs
<1>3. NoMove \in Moves
  BY DEF NoMove, Moves
<1>4. hold.mirror => job[e].outlived
  BY DEF IInv, HeldPigeonRests
<1> QED
  BY <1>1, <1>2, <1>3, <1>4 DEF Jobs, JobOK

LEMMA SendMailKeeps ==
  ASSUME IInv, NEW e \in Evaluators, SendMail(e)
  PROVE  IInv'
<1> DEFINE j == [job[e] EXCEPT !.phase = "next", !.move = NoMove, !.turn = 0, !.todo = Rest(e)]
<1>1. job[e].phase = "mail" /\ job[e].todo # {} /\ job[e] \in Jobs
  BY JobType DEF SendMail, IInv, JobOK
<1>2. job' = [job EXCEPT ![e] = j]
  BY <1>1 DEF SendMail, Rest, At
<1>3. mails' = mails \/ mails' = mails \cup {job[e].turn}
  BY DEF SendMail
<1>4. j \in Jobs /\ JobOK(j) /\ j.phase = "next" /\ j.condition = job[e].condition
      /\ (hold.mirror => j.outlived)
  BY <1>1, NextReading
<1> HIDE DEF j
<1> QED
  BY <1>1, <1>2, <1>3, <1>4, LeavesRow DEF SendMail

LEMMA FailStatementKeeps ==
  ASSUME IInv, NEW e \in Evaluators, FailStatement(e)
  PROVE  IInv'
<1> DEFINE j == [job[e] EXCEPT !.phase = "next", !.move = NoMove, !.turn = job[e].turn, !.todo = Rest(e)]
<1>1. job[e].phase \in {"next", "write"} /\ job[e].todo # {} /\ job[e] \in Jobs /\ job[e].turn \in Nat
  BY JobType DEF FailStatement, IInv
<1>2. job' = [job EXCEPT ![e] = j]
  BY <1>1 DEF FailStatement, Rest, At, Jobs
<1>3. "failed" \in lapses' /\ lapses \subseteq lapses' /\ mails' = mails
      /\ UNCHANGED <<time, heard, row_vars, own_vars>>
  BY DEF FailStatement
<1>4. j \in Jobs /\ JobOK(j) /\ j.phase = "next" /\ j.condition = job[e].condition
      /\ (hold.mirror => j.outlived)
  BY <1>1, NextReading
<1> HIDE DEF j
<1> QED
  BY <1>1, <1>2, <1>3, <1>4, LeavesRow

\* A reading taken while nobody else has decided yields a decision on the row
\* as it stands.
LEMMA ReadRowKeeps ==
  ASSUME IInv, NEW e \in Evaluators, ReadRow(e)
  PROVE  IInv'
<1> DEFINE c == job[e].condition
           v == Verdict(e)
           m == Move(c, row, v)
           j == IF m.kind = "stay" THEN [job[e] EXCEPT !.todo = Rest(e)]
                ELSE [job[e] EXCEPT !.move = m, !.phase = "write"]
<1>1. /\ job[e].phase = "next" /\ job[e].todo # {} /\ definition.exists
      /\ spell' = SpellAfter(spell, row, v)
      /\ lapses' = lapses \cup (IF Deciding = {} THEN {} ELSE {"overlap"})
      /\ UNCHANGED <<time, heard, mails, row, turns, definition, hold, toggle, held>>
  BY DEF ReadRow, Verdict, own_vars
<1>2. job' = [job EXCEPT ![e] = j]
  BY DEF ReadRow, Verdict, IInv, TypeInv, Rest, At
<1>3. /\ job[e] \in Jobs /\ JobOK(job[e]) /\ c \in Conditions /\ row \in Rows /\ spell \in Spells
      /\ v \in Verdicts /\ m \in Moves
      /\ job[e].todo \subseteq Nat
  BY <1>1, JobType, NextPlace, MoveType DEF IInv
<1>4. /\ j \in Jobs /\ JobOK(j) /\ j.condition = c /\ j.outlived = job[e].outlived
      /\ j.phase = (IF m.kind = "stay" THEN "next" ELSE "write")
      /\ j.batch = job[e].batch
      /\ m.kind # "stay" => j.move = m /\ j.todo = job[e].todo
  <2> HIDE DEF v, m
  <2>1. CASE m.kind = "stay"
    BY <1>1, <1>3, <2>1 DEF Jobs, JobOK, Rest
  <2>2. CASE m.kind # "stay"
    BY <1>1, <1>3, <2>2 DEF Jobs, JobOK
  <2> QED
    BY <2>1, <2>2
<1> HIDE DEF m, j
<1>5. /\ job'[e] = j
      /\ \A f \in Evaluators \ {e} : job'[f] = job[f]
      /\ job' \in [Evaluators -> Jobs]
  BY <1>2, <1>4 DEF IInv, TypeInv
<1>6. Deciding' = Deciding \cup (IF m.kind = "stay" THEN {} ELSE {e})
  BY <1>1, <1>4, <1>5 DEF Deciding
<1>7. lapses \subseteq lapses' /\ (Clean({"overlap"})' => Deciding = {})
  BY <1>1 DEF Clean
<1>8. spell' \in Spells
  BY <1>1, <1>3 DEF SpellAfter, Spells, Moment, Quiet, Verdicts
<1>9. TypeInv'
  <2>1. \A f \in Evaluators : JobOK(job'[f])
    BY <1>4, <1>5 DEF IInv, TypeInv
  <2> QED
    BY <1>1, <1>5, <1>8, <2>1 DEF IInv, TypeInv
<1>10. Lapsed'
  BY <1>1, <1>4, <1>5, <1>7 DEF IInv, Lapsed, Clean
<1>11. StandingDecision'
  <2> SUFFICES ASSUME Clean({"overlap"})'
               PROVE  /\ \A f, g \in Deciding' : f = g
                      /\ \A f \in Deciding' :
                           /\ job'[f].move.kind # "stay"
                           /\ job'[f].move = Move(job'[f].condition, row, Verdict(f)')
    BY <1>1 DEF StandingDecision, Move, Since
  <2>1. \A f \in Deciding' : f = e /\ m.kind # "stay"
    BY <1>6, <1>7
  <2>2. m.kind # "stay" => Verdict(e)' = v
    BY <1>4, <1>5 DEF Verdict, At
  <2>3. m.kind # "stay" => job'[e].move = m /\ job'[e].condition = c
    BY <1>4, <1>5
  <2> QED
    BY <2>1, <2>2, <2>3 DEF m
<1>12. FiringKnowsItsStart' /\ MailsOfTurns'
  BY <1>1, <1>4, <1>5, <1>7 DEF IInv, FiringKnowsItsStart, MailsOfTurns, Clean
<1>13. OneMailPerTransition'
  BY <1>1, <1>4, <1>5, <1>7 DEF IInv, OneMailPerTransition, Clean
<1>14. ASSUME Clean({"overlap", "failed", "edit"})'
       PROVE  /\ Deciding = {} /\ c = definition.condition
              /\ SpellOf(row, spell, c)
              /\ SpellOf(Written(row, m), IF m.kind = "resolve" THEN Quiet ELSE spell', c)
              /\ m.kind = "fire" => spell'.from # Never /\ v.at - spell'.from >= Debounce(c)
              /\ m.kind = "resolve" /\ HoldsResolve(c) => spell'.last # Never /\ v.at - spell'.last >= Window
  <2>1. Clean({"overlap", "failed", "edit"}) /\ Clean({"edit"}) /\ Deciding = {}
    BY <1>7, <1>14 DEF Clean
  <2>2. c = definition.condition
    BY <1>1, <2>1 DEF IInv, Lapsed
  <2>3. SpellOf(row, spell, c)
    BY <1>1, <2>1, <2>2 DEF IInv, RowKeepsSpell
  <2> QED
    BY <1>1, <1>3, <2>1, <2>2, <2>3, SpellStep DEF m
<1>15. RowKeepsSpell'
  <2> SUFFICES ASSUME Clean({"overlap", "failed", "edit"})'
               PROVE  /\ Deciding' = {} => SpellOf(row, spell', definition.condition)
                      /\ \A f \in Deciding' :
                           SpellOf(Written(row, job'[f].move),
                                   IF job'[f].move.kind = "resolve" THEN Quiet ELSE spell',
                                   definition.condition)
    BY <1>1 DEF RowKeepsSpell, SpellAfterWrite
  <2>1. CASE m.kind = "stay"
    <3>1. Written(row, m) = row
      BY <2>1 DEF Written
    <3> QED
      BY <1>6, <1>14, <2>1, <3>1
  <2>2. CASE m.kind # "stay"
    BY <1>4, <1>5, <1>6, <1>14, <2>2
  <2> QED
    BY <2>1, <2>2
<1>16. DecidedOnSpell'
  <2>1. m.at = v.at
    BY DEF m, Move
  <2> QED
    BY <1>4, <1>5, <1>6, <1>14, <2>1 DEF DecidedOnSpell
<1>17. HeldIsMirrored' /\ HeldPigeonRests'
  <2>1. hold.mirror => job[e].outlived
    BY <1>1 DEF IInv, HeldPigeonRests
  <2> QED
    BY <1>1, <1>4, <1>5, <1>7, <2>1 DEF IInv, HeldIsMirrored, HeldPigeonRests, Clean
<1>18. OneToggle' /\ SplitOneWay'
  BY <1>1, <1>7 DEF IInv, OneToggle, SplitOneWay, InFlight, Clean
<1> QED
  BY <1>9, <1>10, <1>11, <1>12, <1>13, <1>15, <1>16, <1>17, <1>18 DEF IInv

LEMMA WriteRowKeeps ==
  ASSUME IInv, NEW e \in Evaluators, WriteRow(e)
  PROVE  IInv'
<1> DEFINE m == job[e].move
           now == IF definition.exists THEN Written(row, m) ELSE row
           mailing == m.kind \in {"fire", "resolve"}
           j == IF mailing THEN [job[e] EXCEPT !.phase = "mail", !.turn = turns']
                ELSE [job[e] EXCEPT !.phase = "next", !.move = NoMove, !.turn = job[e].turn, !.todo = Rest(e)]
<1>1. /\ job[e].phase = "write" /\ row' = now
      /\ turns' = (IF now.status # row.status THEN turns + 1 ELSE turns)
      /\ lapses' = lapses \cup (IF held /\ job[e].outlived THEN {"late"} ELSE {})
      /\ spell' = SpellAfterWrite(m.kind)
      /\ UNCHANGED <<time, heard, mails, definition, hold, toggle, held>>
  BY DEF WriteRow, SpellAfterWrite, own_vars
<1>2. /\ job[e] \in Jobs /\ JobOK(job[e]) /\ job[e].todo # {} /\ m \in Moves
      /\ row \in Rows /\ spell \in Spells /\ turns \in Nat /\ job[e].turn \in Nat
  BY <1>1, JobType DEF IInv, JobOK
<1>3. job' = [job EXCEPT ![e] = j]
  BY <1>2 DEF WriteRow, Rest, At, Jobs
<1>4. turns' \in Nat /\ turns <= turns'
  BY <1>1, <1>2
<1> HIDE DEF now
<1>5. /\ j \in Jobs /\ JobOK(j) /\ j.condition = job[e].condition
      /\ j.outlived = job[e].outlived
      /\ j.phase = IF mailing THEN "mail" ELSE "next"
      /\ mailing => j.turn = turns'
  <2>1. CASE mailing
    BY <1>2, <1>4, <2>1 DEF Jobs, JobOK
  <2>2. CASE ~mailing
    <3>1. [job[e] EXCEPT !.phase = "next", !.move = NoMove, !.turn = job[e].turn, !.todo = Rest(e)].outlived = job[e].outlived
      BY <1>2 DEF Jobs
    <3> QED
      BY <1>1, <1>2, <2>2, <3>1, NextReading
  <2> QED
    BY <2>1, <2>2
<1> HIDE DEF j
<1>6. /\ job'[e] = j
      /\ \A f \in Evaluators \ {e} : job'[f] = job[f]
      /\ job' \in [Evaluators -> Jobs]
  BY <1>3, <1>5 DEF IInv, TypeInv
<1>7. Deciding' = Deciding \ {e} /\ e \in Deciding
  BY <1>1, <1>5, <1>6 DEF Deciding
<1>8. lapses \subseteq lapses'
  BY <1>1
<1>9. Clean({"overlap"})' =>
        /\ Deciding = {e} /\ Deciding' = {} /\ Clean({"overlap"})
        /\ definition.exists => m = Move(job[e].condition, row, Verdict(e)) /\ m.kind # "stay"
  <2>1. Clean({"overlap"})' => Clean({"overlap"})
    BY <1>8 DEF Clean
  <2> QED
    BY <1>7, <2>1 DEF IInv, StandingDecision
<1>10. job[e].condition \in Conditions /\ Verdict(e) \in Verdicts
  BY <1>2, JobType, NextPlace DEF IInv
<1>11. now \in Rows
  BY <1>2 DEF now, Written, Moves, Rows, Moment, Fresh
<1>12. spell' \in Spells
  BY <1>1, <1>2 DEF SpellAfterWrite, Spells, Moment, Quiet
<1>13. TypeInv'
  <2>1. \A f \in Evaluators : JobOK(job'[f])
    BY <1>5, <1>6 DEF IInv, TypeInv
  <2> QED
    BY <1>1, <1>4, <1>6, <1>11, <1>12, <2>1 DEF IInv, TypeInv
<1>14. Lapsed'
  BY <1>1, <1>5, <1>6, <1>8 DEF IInv, Lapsed, Clean
<1>15. StandingDecision' /\ DecidedOnSpell'
  <2>1. Clean({"overlap", "failed", "edit"})' => Clean({"overlap"})'
    BY DEF Clean
  <2> QED
    BY <1>9, <2>1 DEF StandingDecision, DecidedOnSpell
<1>16. FiringKnowsItsStart'
  <2> SUFFICES ASSUME Clean({"overlap"})', now.status = "firing" PROVE now.first # Never
    BY <1>1 DEF FiringKnowsItsStart
  <2>1. row.status = "firing" => row.first # Never
    BY <1>9 DEF IInv, FiringKnowsItsStart
  <2>2. CASE ~definition.exists
    BY <2>1, <2>2 DEF now
  <2>3. CASE definition.exists
    <3>1. /\ m.kind \in {"open", "fire", "reset"} => row.status = "ok"
          /\ m.kind = "fire" => now.first # Never
          /\ m.kind = "restep" => now.first # Never
          /\ m.kind = "resolve" => now = Fresh
          /\ m.kind \notin {"fire", "resolve"} => now.status = row.status
          /\ m.kind = "stay" => now = row
      BY <1>2, <1>9, <1>10, <2>3, MoveKinds DEF now
    <3>2. m.kind \in {"stay", "open", "fire", "restep", "reset", "resolve"}
      BY <1>2 DEF Moves
    <3>3. Fresh.status = "ok"
      BY DEF Fresh
    <3> QED
      BY <2>1, <3>1, <3>2, <3>3
  <2> QED
    BY <2>2, <2>3
<1>17. MailsOfTurns'
  <2>1. mails \subseteq 0..turns /\ 0..turns \subseteq 0..turns'
    BY <1>2, <1>4 DEF IInv, MailsOfTurns
  <2>2. \A f \in Evaluators \ {e} : job[f].phase = "mail" => job[f].turn \in 0..turns'
    BY <2>1 DEF IInv, MailsOfTurns
  <2>3. turns' \in 0..turns'
    BY <1>4
  <2> QED
    BY <1>1, <1>5, <1>6, <2>1, <2>2, <2>3 DEF MailsOfTurns
<1>18. OneMailPerTransition'
  <2> SUFFICES ASSUME Clean({"overlap", "deleted"})', NEW f \in Evaluators, job'[f].phase = "mail"
               PROVE  /\ job'[f].turn \notin mails
                      /\ \A g \in Evaluators \ {f} : job'[g].phase = "mail" => job'[g].turn # job'[f].turn
    BY <1>1 DEF OneMailPerTransition
  <2>1. Clean({"overlap", "deleted"}) /\ Clean({"overlap"})' /\ definition.exists
    BY <1>8 DEF Clean, IInv, Lapsed
  <2>2. mailing => turns' = turns + 1
    <3>1. m = Move(job[e].condition, row, Verdict(e)) /\ now = Written(row, m)
      BY <1>9, <2>1 DEF now
    <3>2. /\ m.kind = "fire" => row.status = "ok" /\ now.status = "firing"
          /\ m.kind = "resolve" => row.status = "firing" /\ now.status = "ok"
      BY <1>2, <1>10, <3>1, MoveKinds DEF Fresh
    <3> QED
      BY <1>1, <3>2
  <2>3. \A g \in Evaluators : job[g].phase = "mail" => job[g].turn \in 0..turns
    BY DEF IInv, MailsOfTurns
  <2>4. turns + 1 \notin 0..turns /\ turns + 1 \notin mails
    BY <1>2 DEF IInv, MailsOfTurns
  <2>5. CASE f = e
    <3>1. job'[f].turn = turns + 1
      BY <1>5, <1>6, <2>2, <2>5
    <3> QED
      BY <1>6, <2>3, <2>4, <2>5, <3>1
  <2>6. CASE f # e
    <3>1. job'[f] = job[f] /\ job[f].turn \in 0..turns
      BY <1>6, <2>3, <2>6
    <3>2. /\ job[f].turn \notin mails
          /\ \A g \in Evaluators \ {f} : job[g].phase = "mail" => job[g].turn # job[f].turn
      BY <2>1, <3>1 DEF IInv, OneMailPerTransition
    <3>3. job'[e].phase = "mail" => job'[e].turn = turns + 1
      BY <1>5, <1>6, <2>2
    <3> QED
      BY <1>6, <2>4, <3>1, <3>2, <3>3
  <2> QED
    BY <2>5, <2>6
<1>19. RowKeepsSpell'
  <2> SUFFICES ASSUME Clean({"overlap", "failed", "edit"})', definition.exists
               PROVE  SpellOf(row', spell', definition.condition) /\ Deciding' = {}
    BY <1>1 DEF RowKeepsSpell
  <2>1. Clean({"overlap", "failed", "edit"}) /\ Clean({"overlap"})'
    BY <1>8 DEF Clean
  <2> QED
    BY <1>1, <1>7, <1>9, <2>1 DEF IInv, RowKeepsSpell, now
<1>20. HeldIsMirrored' /\ HeldPigeonRests'
  <2>1. hold.mirror => job[e].outlived
    BY <1>1 DEF IInv, HeldPigeonRests
  <2>2. held => ~Clean({"late"})'
    BY <1>1, <2>1 DEF IInv, HeldIsMirrored, Clean
  <2> QED
    BY <1>1, <1>5, <1>6, <2>1, <2>2 DEF IInv, HeldIsMirrored, HeldPigeonRests
<1>21. OneToggle' /\ SplitOneWay'
  BY <1>1, <1>8 DEF IInv, OneToggle, SplitOneWay, InFlight, Clean
<1> QED
  BY <1>13, <1>14, <1>15, <1>16, <1>17, <1>18, <1>19, <1>20, <1>21 DEF IInv

----------------------------------------------------------------------------
(* The owner. *)

LEMMA EditDefinitionKeeps ==
  ASSUME IInv, NEW edit \in Edits, EditDefinition(edit)
  PROVE  IInv'
<1>1. /\ definition' = [definition EXCEPT !.condition = edit.condition, !.enabled = edit.enabled]
      /\ lapses' = lapses \cup {"edit"}
      /\ UNCHANGED <<time, heard, hold, job, toggle, held, mails, row, spell, turns>>
  BY DEF EditDefinition, row_vars
<1>2. edit \in [condition : Conditions, enabled : BOOLEAN]
  BY AlertsAssumption
<1>3. definition'.exists = definition.exists /\ Deciding' = Deciding /\ InFlight' = InFlight
  BY <1>1 DEF IInv, TypeInv, Deciding, InFlight
<1>4. TypeInv'
  BY <1>1, <1>2 DEF IInv, TypeInv
<1>5. lapses \subseteq lapses' /\ ~Clean({"edit"})' /\ ~Clean({"overlap", "failed", "edit"})'
  BY <1>1 DEF Clean
<1>6. Lapsed' /\ RowKeepsSpell' /\ DecidedOnSpell'
  BY <1>3, <1>5 DEF IInv, Lapsed, RowKeepsSpell, DecidedOnSpell
<1>7. StandingDecision'
  <2>1. \A e : Verdict(e)' = Verdict(e)
    BY <1>1 DEF Verdict, At
  <2>2. \A c, v : Move(c, row, v)' = Move(c, row, v)
    BY <1>1 DEF Move, Since
  <2> QED
    BY <1>1, <1>3, <1>5, <2>1, <2>2 DEF IInv, StandingDecision, Clean
<1>8. FiringKnowsItsStart' /\ MailsOfTurns' /\ OneMailPerTransition'
  BY <1>1 DEF IInv, FiringKnowsItsStart, MailsOfTurns, OneMailPerTransition, Clean
<1>9. HeldIsMirrored' /\ HeldPigeonRests' /\ OneToggle' /\ SplitOneWay'
  BY <1>1, <1>3 DEF IInv, HeldIsMirrored, HeldPigeonRests, OneToggle, SplitOneWay, Clean
<1> QED
  BY <1>4, <1>6, <1>7, <1>8, <1>9 DEF IInv

LEMMA DeleteDefinitionKeeps ==
  ASSUME IInv, DeleteDefinition
  PROVE  IInv'
<1>1. /\ definition' = [definition EXCEPT !.exists = FALSE] /\ row' = Fresh
      /\ lapses' = lapses \cup {"deleted"}
      /\ UNCHANGED <<time, heard, hold, job, toggle, held, mails, turns, spell>>
  BY DEF DeleteDefinition
<1>2. /\ ~definition'.exists /\ definition'.condition = definition.condition
      /\ Deciding' = Deciding /\ InFlight' = InFlight
  BY <1>1 DEF IInv, TypeInv, Deciding, InFlight
<1>3. row' \in Rows /\ row'.status = "ok"
  BY <1>1 DEF Fresh, Rows, Moment
<1>4. TypeInv'
  BY <1>1, <1>3 DEF IInv, TypeInv
<1>5. lapses \subseteq lapses' /\ "deleted" \in lapses'
  BY <1>1
<1>6. Lapsed' /\ RowKeepsSpell' /\ DecidedOnSpell'
  BY <1>1, <1>2, <1>5 DEF IInv, Lapsed, RowKeepsSpell, DecidedOnSpell, Clean
<1>7. StandingDecision'
  BY <1>1, <1>2, <1>5 DEF IInv, StandingDecision, Clean
<1>8. FiringKnowsItsStart' /\ MailsOfTurns' /\ OneMailPerTransition'
  BY <1>1, <1>3 DEF IInv, FiringKnowsItsStart, MailsOfTurns, OneMailPerTransition, Clean
<1>9. HeldIsMirrored' /\ HeldPigeonRests' /\ OneToggle' /\ SplitOneWay'
  BY <1>1, <1>2 DEF IInv, HeldIsMirrored, HeldPigeonRests, OneToggle, SplitOneWay, Clean
<1> QED
  BY <1>4, <1>6, <1>7, <1>8, <1>9 DEF IInv

\* A suspend and a resume that do not cross stamp the object no later than
\* the mirror and clear it no earlier.
LEMMA TogglesKeep ==
  ASSUME IInv, NEW t \in Toggles, Own(t)
  PROVE  /\ OneToggle' /\ SplitOneWay' /\ lapses \subseteq lapses'
         /\ toggle' \in [Toggles -> Stages]
         /\ hold' \in [object : BOOLEAN, mirror : BOOLEAN]
<1>1. /\ toggle \in [Toggles -> Stages]
      /\ hold \in [object : BOOLEAN, mirror : BOOLEAN]
  BY DEF IInv, TypeInv
<1>2. /\ lapses \subseteq lapses'
      /\ hold' \in [object : BOOLEAN, mirror : BOOLEAN]
      /\ \E s \in Stages : toggle' = [toggle EXCEPT ![t] = s]
  BY <1>1 DEF Own, SuspendObject, SuspendMirror, SuspendReset, ResumeMirror, ResumeObject, RequestFails, Stages
<1>3. /\ toggle' \in [Toggles -> Stages] /\ toggle'[t] \in Stages
      /\ \A u \in Toggles \ {t} : toggle'[u] = toggle[u]
  BY <1>1, <1>2
<1>4. ASSUME Clean({"crossed"})'
      PROVE  /\ Clean({"crossed"}) /\ \A u \in InFlight : u = t
             /\ hold.mirror => hold.object
             /\ toggle[t] = "mirror" => hold.object
             /\ toggle[t] = "object" => ~hold.mirror
  <2>1. Clean({"crossed"})
    BY <1>2, <1>4 DEF Clean
  <2>2. t \in InFlight \/ Crossing(t) \subseteq lapses'
    BY DEF Own, SuspendObject, SuspendMirror, SuspendReset, ResumeMirror, ResumeObject, RequestFails, InFlight
  <2>3. \A u \in InFlight : u = t
    <3>1. CASE t \in InFlight
      BY <2>1, <3>1 DEF IInv, OneToggle
    <3>2. CASE Crossing(t) \subseteq lapses'
      BY <1>4, <3>2 DEF Crossing, Clean
    <3> QED
      BY <2>2, <3>1, <3>2
  <2> QED
    BY <2>1, <2>3 DEF IInv, OneToggle, SplitOneWay
<1>5. ASSUME Clean({"crossed"})'
      PROVE  /\ hold'.mirror => hold'.object
             /\ toggle'[t] = "mirror" => hold'.object
             /\ toggle'[t] = "object" => ~hold'.mirror
  <2>1. CASE SuspendObject(t)
    BY <1>1, <2>1 DEF SuspendObject
  <2>2. CASE SuspendMirror(t)
    BY <1>1, <1>4, <1>5, <2>2 DEF SuspendMirror
  <2>3. CASE SuspendReset(t)
    BY <1>1, <1>4, <1>5, <2>3 DEF SuspendReset
  <2>4. CASE ResumeMirror(t)
    BY <1>1, <2>4 DEF ResumeMirror
  <2>5. CASE ResumeObject(t)
    BY <1>1, <1>4, <1>5, <2>5 DEF ResumeObject
  <2>6. CASE RequestFails(t)
    BY <1>1, <1>4, <1>5, <2>6 DEF RequestFails
  <2> QED
    BY <2>1, <2>2, <2>3, <2>4, <2>5, <2>6 DEF Own
<1>6. ASSUME Clean({"crossed"})', NEW u \in Toggles, u # t
      PROVE  toggle'[u] \in {"unsent", "answered"}
  BY <1>3, <1>4, <1>6 DEF InFlight
<1>7. OneToggle'
  <2> SUFFICES ASSUME Clean({"crossed"})'
               PROVE  /\ \A u, w \in InFlight' : u = w
                      /\ \A u \in Toggles : /\ toggle'[u] = "mirror" => hold'.object
                                            /\ toggle'[u] = "object" => ~hold'.mirror
    BY DEF OneToggle
  <2>1. \A u \in InFlight' : u = t
    BY <1>6 DEF InFlight
  <2> QED
    BY <1>5, <1>6, <2>1
<1>8. SplitOneWay'
  BY <1>5 DEF SplitOneWay
<1> QED
  BY <1>2, <1>3, <1>7, <1>8

LEMMA OwnKeeps ==
  ASSUME IInv, NEW t \in Toggles, SuspendObject(t) \/ ResumeMirror(t) \/ ResumeObject(t) \/ RequestFails(t)
  PROVE  IInv'
<1>1. /\ OneToggle' /\ SplitOneWay' /\ lapses \subseteq lapses'
      /\ toggle' \in [Toggles -> Stages]
      /\ hold' \in [object : BOOLEAN, mirror : BOOLEAN]
  BY TogglesKeep DEF Own
<1>2. UNCHANGED <<time, definition, heard, job, mails, row, spell, turns>>
  BY DEF SuspendObject, ResumeMirror, ResumeObject, RequestFails, row_vars
<1>3. /\ held' \in BOOLEAN /\ (hold'.mirror => hold.mirror)
      /\ held' => held /\ hold'.mirror = hold.mirror
  <2>1. held \in BOOLEAN /\ hold \in [object : BOOLEAN, mirror : BOOLEAN]
    BY DEF IInv, TypeInv
  <2>2. CASE SuspendObject(t)
    BY <2>1, <2>2 DEF SuspendObject
  <2>3. CASE ResumeMirror(t)
    BY <2>1, <2>3 DEF ResumeMirror
  <2>4. CASE ResumeObject(t)
    BY <2>1, <2>4 DEF ResumeObject
  <2>5. CASE RequestFails(t)
    BY <2>1, <2>5 DEF RequestFails
  <2> QED
    BY <2>2, <2>3, <2>4, <2>5
<1>4. Deciding' = Deciding
  BY <1>2 DEF Deciding
<1>5. TypeInv' /\ Lapsed'
  BY <1>1, <1>2, <1>3 DEF IInv, TypeInv, Lapsed, Clean
<1>6. StandingDecision'
  <2>1. \A e : Verdict(e)' = Verdict(e)
    BY <1>2 DEF Verdict, At
  <2>2. \A c, v : Move(c, row, v)' = Move(c, row, v)
    BY <1>2 DEF Move, Since
  <2> QED
    BY <1>1, <1>2, <1>4, <2>1, <2>2 DEF IInv, StandingDecision, Clean
<1>7. FiringKnowsItsStart' /\ MailsOfTurns' /\ OneMailPerTransition'
  BY <1>1, <1>2 DEF IInv, FiringKnowsItsStart, MailsOfTurns, OneMailPerTransition, Clean
<1>8. RowKeepsSpell' /\ DecidedOnSpell'
  BY <1>1, <1>2, <1>4 DEF IInv, RowKeepsSpell, DecidedOnSpell, Clean, SpellAfterWrite
<1>9. HeldIsMirrored' /\ HeldPigeonRests'
  BY <1>1, <1>2, <1>3 DEF IInv, HeldIsMirrored, HeldPigeonRests, Clean
<1> QED
  BY <1>1, <1>5, <1>6, <1>7, <1>8, <1>9 DEF IInv

LEMMA SuspendMirrorKeeps ==
  ASSUME IInv, NEW t \in Toggles, SuspendMirror(t)
  PROVE  IInv'
<1>1. /\ OneToggle' /\ SplitOneWay' /\ lapses \subseteq lapses'
      /\ toggle' \in [Toggles -> Stages]
      /\ hold' \in [object : BOOLEAN, mirror : BOOLEAN]
  BY TogglesKeep DEF Own
<1>2. /\ hold' = [hold EXCEPT !.mirror = TRUE] /\ job' = Outlive
      /\ UNCHANGED <<time, definition, heard, mails, held, row, spell, turns, lapses>>
  BY DEF SuspendMirror, row_vars
<1>3. ASSUME NEW e \in Evaluators
      PROVE  /\ job'[e] \in Jobs /\ JobOK(job'[e])
             /\ job'[e].phase = job[e].phase /\ job'[e].condition = job[e].condition
             /\ job'[e].move = job[e].move /\ job'[e].turn = job[e].turn
             /\ job'[e].todo = job[e].todo /\ job'[e].batch = job[e].batch
             /\ job[e].phase \in {"next", "write", "mail"} => job'[e].outlived
  BY <1>2, JobType DEF Outlive, IInv, Jobs, JobOK
<1>4. job' \in [Evaluators -> Jobs]
  <2>1. job' = [e \in Evaluators |-> job'[e]]
    BY <1>2 DEF Outlive
  <2> QED
    BY <1>3, <2>1
<1>5. Deciding' = Deciding
  BY <1>3 DEF Deciding
<1>6. TypeInv' /\ Lapsed'
  BY <1>1, <1>2, <1>3, <1>4 DEF IInv, TypeInv, Lapsed, Clean
<1>7. StandingDecision'
  <2>1. \A e \in Evaluators : Verdict(e)' = Verdict(e)
    BY <1>3 DEF Verdict, At
  <2>2. \A c, v : Move(c, row, v)' = Move(c, row, v)
    BY <1>2 DEF Move, Since
  <2>3. Deciding \subseteq Evaluators
    BY DEF Deciding
  <2> SUFFICES ASSUME Clean({"overlap"})
               PROVE  /\ \A e, f \in Deciding : e = f
                      /\ \A e \in Deciding :
                           /\ job'[e].move.kind # "stay"
                           /\ definition.exists => job'[e].move = Move(job'[e].condition, row, Verdict(e))
    BY <1>2, <1>5, <2>1, <2>2, <2>3 DEF StandingDecision, Clean
  <2> QED
    BY <1>3, <2>3 DEF IInv, StandingDecision
<1>8. FiringKnowsItsStart' /\ MailsOfTurns' /\ OneMailPerTransition'
  BY <1>2, <1>3 DEF IInv, FiringKnowsItsStart, MailsOfTurns, OneMailPerTransition, Clean
<1>9. RowKeepsSpell' /\ DecidedOnSpell'
  <2>1. Deciding \subseteq Evaluators
    BY DEF Deciding
  <2> QED
    BY <1>2, <1>3, <1>5, <2>1 DEF IInv, RowKeepsSpell, DecidedOnSpell, Clean, SpellAfterWrite
<1>10. HeldIsMirrored' /\ HeldPigeonRests'
  BY <1>2, <1>3 DEF IInv, TypeInv, HeldIsMirrored, HeldPigeonRests, Clean
<1> QED
  BY <1>1, <1>6, <1>7, <1>8, <1>9, <1>10 DEF IInv

LEMMA SuspendResetKeeps ==
  ASSUME IInv, NEW t \in Toggles, SuspendReset(t)
  PROVE  IInv'
<1>1. /\ OneToggle' /\ SplitOneWay' /\ lapses \subseteq lapses'
      /\ toggle' \in [Toggles -> Stages]
      /\ hold' \in [object : BOOLEAN, mirror : BOOLEAN]
  BY TogglesKeep DEF Own
<1>2. /\ row' = Fresh /\ spell' = Quiet /\ held' = hold.mirror
      /\ lapses' = lapses \cup (IF Deciding = {} THEN {} ELSE {"overlap"})
      /\ UNCHANGED <<time, definition, heard, hold, job, mails, turns>>
  BY DEF SuspendReset
<1>3. Deciding' = Deciding /\ (Clean({"overlap"})' => Deciding = {})
  BY <1>2 DEF Deciding, Clean
<1>4. row' \in Rows /\ spell' \in Spells /\ row'.status = "ok" /\ row'.first = Never
  BY <1>2 DEF Fresh, Quiet, Rows, Spells, Moment
<1>5. TypeInv' /\ Lapsed'
  BY <1>1, <1>2, <1>4 DEF IInv, TypeInv, Lapsed, Clean
<1>6. StandingDecision' /\ FiringKnowsItsStart'
  BY <1>3, <1>4 DEF StandingDecision, FiringKnowsItsStart
<1>7. MailsOfTurns' /\ OneMailPerTransition'
  BY <1>1, <1>2 DEF IInv, MailsOfTurns, OneMailPerTransition, Clean
<1>8. RowKeepsSpell' /\ DecidedOnSpell'
  <2>1. Clean({"overlap", "failed", "edit"})' => Clean({"overlap"})'
    BY DEF Clean
  <2> QED
    BY <1>2, <1>3, <1>4, <2>1 DEF RowKeepsSpell, DecidedOnSpell, SpellOf
<1>9. HeldIsMirrored' /\ HeldPigeonRests'
  BY <1>2 DEF IInv, HeldIsMirrored, HeldPigeonRests
<1> QED
  BY <1>1, <1>5, <1>6, <1>7, <1>8, <1>9 DEF IInv

LEMMA StutterKeeps ==
  ASSUME IInv, UNCHANGED vars
  PROVE  IInv'
<1>1. time' \in Nat /\ heard' \in [report : Moment, stamp : Moment]
  BY DEF vars, IInv, TypeInv
<1> QED
  BY <1>1, ClockMoves DEF vars

LEMMA NextIInv == IInv /\ [Next]_vars => IInv'
<1> SUFFICES ASSUME IInv, [Next]_vars PROVE IInv'
  OBVIOUS
<1>1. CASE Tick
  BY <1>1, TickKeeps
<1>2. CASE \E stamped \in BOOLEAN : Hear(stamped)
  BY <1>2, HearKeeps
<1>3. ASSUME NEW e \in Evaluators, Evaluate(e) PROVE IInv'
  <2>1. CASE \E batch \in Batches : LookUp(e, batch)
    BY <2>1, LookUpKeeps
  <2>2. CASE SweepLookUp(e) \/ SweepSeen(e)
    BY <2>2, SweepLookUpKeeps, SweepSeenKeeps
  <2>3. CASE ReadRow(e) \/ WriteRow(e) \/ SendMail(e)
    BY <2>3, ReadRowKeeps, WriteRowKeeps, SendMailKeeps
  <2>4. CASE Finish(e) \/ FailStatement(e) \/ Killed(e)
    BY <2>4, FinishKeeps, FailStatementKeeps
  <2> QED
    BY <1>3, <2>1, <2>2, <2>3, <2>4 DEF Evaluate
<1>4. CASE \E edit \in Edits : EditDefinition(edit)
  BY <1>4, EditDefinitionKeeps
<1>5. CASE DeleteDefinition
  BY <1>5, DeleteDefinitionKeeps
<1>6. ASSUME NEW t \in Toggles, Own(t) PROVE IInv'
  BY <1>6, OwnKeeps, SuspendMirrorKeeps, SuspendResetKeeps DEF Own
<1>7. CASE UNCHANGED vars
  BY <1>7, StutterKeeps
<1> QED
  BY <1>1, <1>2, <1>3, <1>4, <1>5, <1>6, <1>7 DEF Next

----------------------------------------------------------------------------
(* What follows. *)

LEMMA Invariant == Spec => []IInv
BY InitIInv, NextIInv, PTL DEF Spec

\* Whatever evaluations, edits, holds and failures there are, no turn of an
\* alert is mailed twice as long as no evaluation reads the row between
\* another's read and its write (`apply_alert_transition`).
THEOREM OneMail == Spec => []OneMailPerTransition
<1>1. IInv => OneMailPerTransition
  BY DEF IInv
<1> QED
  BY <1>1, Invariant, PTL

\* `should_fire_now` counts from the start of the run of true readings, also
\* when readings come backdated, late or in batches.
THEOREM FiresAfterHold == Spec => []FiresOnlyAfterHold
<1>1. IInv => FiresOnlyAfterHold
  BY DEF IInv, DecidedOnSpell, FiresOnlyAfterHold
<1> QED
  BY <1>1, Invariant, PTL

\* `should_resolve_now` counts from the newest true reading of the spell.
THEOREM NoisyHeld == Spec => []NoisyResolveHeld
<1>1. IInv => NoisyResolveHeld
  BY DEF IInv, DecidedOnSpell, NoisyResolveHeld
<1> QED
  BY <1>1, Invariant, PTL

\* A row that fires has its `first_true_at`, across edits, failures and holds.
THEOREM StartKnown == Spec => []FiringKnowsItsStart
<1>1. IInv => FiringKnowsItsStart
  BY DEF IInv
<1> QED
  BY <1>1, Invariant, PTL

\* No evaluation begins on a held pigeon, and the row a suspend has put back
\* stays so, but for a write that was under way when it was.
THEOREM HeldRests == Spec => []HeldPigeonRests
<1>1. IInv => HeldPigeonRests
  BY DEF IInv
<1> QED
  BY <1>1, Invariant, PTL

\* The hold is on the mirror only while it is in the object, whichever
\* request fails half way, unless a suspend and a resume cross.
THEOREM SplitIsOneWay == Spec => []SplitOneWay
<1>1. IInv => SplitOneWay
  BY DEF IInv
<1> QED
  BY <1>1, Invariant, PTL

\* Without an overlap every decision pending is the one its reading would
\* get from the row as it stands: the unlocked read and write of
\* `apply_alert_transition` are as good as one statement.
THEOREM DecisionsStand == Spec => []StandingDecision
<1>1. IInv => StandingDecision
  BY DEF IInv
<1> QED
  BY <1>1, Invariant, PTL

----------------------------------------------------------------------------
(* The ends of a run do what the whole run would. *)

\* A replay is what its definition says it is: a function there is one of.
LEMMA ReplayStep ==
  ASSUME NEW c, NEW r, NEW q, Len(q) \in Nat, NEW sent, NEW f, f = Replay(c, r, q, sent)
  PROVE  /\ f[0] = [row |-> r, mailed |-> <<>>]
         /\ \A i \in 1..Len(q) : f[i] = IF i \in sent THEN Decided(c, f[i - 1], q[i]) ELSE f[i - 1]
<1> DEFINE Step(g, i) == IF i \in sent THEN Decided(c, g[i - 1], q[i]) ELSE g[i - 1]
           start == [row |-> r, mailed |-> <<>>]
           Goes(g, n) == g = [i \in 0..n |-> IF i = 0 THEN start ELSE Step(g, i)]
           Stuck == {n \in Nat : ~\E g : Goes(g, n)}
<1>1. Stuck = {}
  <2> SUFFICES ASSUME Stuck # {} PROVE FALSE
    OBVIOUS
  <2>1. Stuck \subseteq Nat
    OBVIOUS
  <2> HIDE DEF Stuck
  <2>2. PICK n \in Stuck : \A m \in Stuck : n <= m
    BY <2>1, LeastNat
  <2>3. n # 0
    <3>1. Goes([i \in 0..0 |-> start], 0)
      OBVIOUS
    <3> QED
      BY <3>1 DEF Stuck
  <2>4. n \in Nat /\ n - 1 \in Nat /\ n - 1 \notin Stuck
    BY <2>1, <2>2, <2>3
  <2>5. PICK g : Goes(g, n - 1)
    BY <2>4 DEF Stuck
  <2> DEFINE h == [i \in 0..n |-> IF i = n THEN Step(g, n) ELSE g[i]]
  <2>6. \A i \in 0..(n - 1) : h[i] = g[i]
    BY <2>4
  <2>7. \A i \in 0..n : h[i] = IF i = 0 THEN start ELSE Step(h, i)
    <3> SUFFICES ASSUME NEW i \in 0..n PROVE h[i] = IF i = 0 THEN start ELSE Step(h, i)
      OBVIOUS
    <3> HIDE DEF start
    <3>1. CASE i = 0
      BY <2>3, <2>4, <2>5, <2>6, <3>1
    <3>2. CASE i # 0
      <4>1. i - 1 \in 0..(n - 1) /\ h[i - 1] = g[i - 1]
        BY <2>4, <2>6, <3>2
      <4>2. h[i] = Step(g, i)
        <5>1. CASE i = n
          BY <5>1
        <5>2. CASE i # n
          <6>1. i \in 0..(n - 1) /\ h[i] = g[i]
            BY <2>4, <2>6, <5>2
          <6> QED
            BY <2>5, <3>2, <6>1
        <5> QED
          BY <5>1, <5>2
      <4> QED
        BY <3>2, <4>1, <4>2
    <3> QED
      BY <3>1, <3>2
  <2>8. Goes(h, n)
    <3>1. h = [i \in 0..n |-> h[i]]
      OBVIOUS
    <3> HIDE DEF h, Step, start
    <3> QED
      BY <2>7, <3>1
  <2> QED
    BY <2>2, <2>8 DEF Stuck
<1>2. \E g : Goes(g, Len(q))
  BY <1>1
<1>3. Replay(c, r, q, sent) = CHOOSE g : Goes(g, Len(q))
  BY DEF Replay
<1>4. Goes(f, Len(q))
  <2> HIDE DEF Goes
  <2> QED
    BY <1>2, <1>3
<1> QED
  BY <1>4

\* What a row is left as by a reading of one truth.
Settled(c, r, holds) ==
  IF holds THEN r.status = "ok" \/ HoldsResolve(c) => r.first # Never
  ELSE r.status = "ok" => r.first = Never

\* Within a run of readings of one truth, the latest of them at `at`: `a` has
\* seen them all and `b` only the first. What `a` may be ahead by.
Restepped(c, at, a, b) ==
  /\ HoldsResolve(c) /\ a.row.status = "firing" /\ b.row.status = "firing"
  /\ a.row.first \in Nat /\ a.row.first <= at
  /\ b.row.first \in Nat /\ b.row.first < a.row.first
  /\ a.mailed = b.mailed

FiredEarly(c, at, a, b) ==
  /\ a.row.status = "firing" /\ b.row.status = "ok"
  /\ b.row.first \in Nat /\ at - b.row.first >= Debounce(c)
  /\ IF HoldsResolve(c) THEN a.row.first \in Nat /\ a.row.first <= at
     ELSE a.row.first = b.row.first
  /\ a.mailed = Append(b.mailed, "fire")

ResolvedEarly(c, at, a, b) ==
  /\ a.row = Fresh /\ b.row.status = "firing"
  /\ ShouldResolve(c, b.row.first, at)
  /\ a.mailed = Append(b.mailed, "resolve")

Ahead(c, holds, at, a, b) ==
  \/ a.row = b.row /\ a.mailed = b.mailed /\ Settled(c, b.row, holds)
  \/ holds /\ Restepped(c, at, a, b)
  \/ holds /\ FiredEarly(c, at, a, b)
  \/ ~holds /\ ResolvedEarly(c, at, a, b)

LEMMA DecidedStep ==
  ASSUME NEW c \in Conditions, NEW s, s.row \in Rows, NEW v \in Verdicts
  PROVE  LET k == NextTransition(c, s.row, v.holds, v.at)
             d == Decided(c, s, v)
         IN /\ d.row = Written(s.row, [kind |-> k, at |-> v.at, since |-> Since(c, s.row, v.at)])
            /\ d.row \in Rows
            /\ d.mailed = IF k \in {"fire", "resolve"} THEN Append(s.mailed, k) ELSE s.mailed
            /\ Settled(c, d.row, v.holds)
            /\ d = [row |-> d.row, mailed |-> d.mailed]
<1> DEFINE k == NextTransition(c, s.row, v.holds, v.at)
           d == Decided(c, s, v)
<1>1. /\ d.row = Written(s.row, [kind |-> k, at |-> v.at, since |-> Since(c, s.row, v.at)])
      /\ d.mailed = (IF k \in {"fire", "resolve"} THEN Append(s.mailed, k) ELSE s.mailed)
      /\ d = [row |-> d.row, mailed |-> d.mailed]
  BY DEF Decided, Move
<1>2. d.row \in Rows
  BY MoveType DEF Decided
<1>3. v.at \in Nat /\ v.at # Never /\ s.row.status \in {"ok", "firing"} /\ v.holds \in BOOLEAN
      /\ (s.row.first # Never => s.row.first \in Nat)
  BY ConnectionAssumption DEF Verdicts, Rows, Moment
<1>4. Since(c, s.row, v.at) # Never
  BY <1>3 DEF Since
<1>5. Settled(c, d.row, v.holds)
  <2>1. CASE v.holds
    BY <1>1, <1>3, <1>4, <2>1 DEF NextTransition, Written, Settled, Rows
  <2>2. CASE ~v.holds
    BY <1>1, <1>3, <2>2 DEF NextTransition, Written, Settled, Rows, Fresh
  <2> QED
    BY <1>3, <2>1, <2>2
<1> QED
  BY <1>1, <1>2, <1>5

\* The last reading of a run brings both to the same row and mails.
LEMMA RunCloses ==
  ASSUME NEW c \in Conditions, NEW a, NEW b, a.row \in Rows, b.row \in Rows,
         NEW v \in Verdicts, NEW at \in Nat, at <= v.at, Ahead(c, v.holds, at, a, b)
  PROVE  Decided(c, a, v) = Decided(c, b, v)
<1> DEFINE da == Decided(c, a, v)
           db == Decided(c, b, v)
           ka == NextTransition(c, a.row, v.holds, v.at)
           kb == NextTransition(c, b.row, v.holds, v.at)
<1>0. v.at \in Nat /\ v.at # Never /\ v.holds \in BOOLEAN /\ Debounce(c) \in Nat
      /\ \A n \in Nat : n # Never
  BY ConnectionAssumption, DebounceType DEF Verdicts
<1>d. /\ da.row = Written(a.row, [kind |-> ka, at |-> v.at, since |-> Since(c, a.row, v.at)])
      /\ da.mailed = (IF ka \in {"fire", "resolve"} THEN Append(a.mailed, ka) ELSE a.mailed)
      /\ db.row = Written(b.row, [kind |-> kb, at |-> v.at, since |-> Since(c, b.row, v.at)])
      /\ db.mailed = (IF kb \in {"fire", "resolve"} THEN Append(b.mailed, kb) ELSE b.mailed)
  BY DEF Decided, Move
<1> SUFFICES da.row = db.row /\ da.mailed = db.mailed
  BY DEF Decided
<1> HIDE DEF da, db
<1>1. CASE a.row = b.row /\ a.mailed = b.mailed
  BY <1>1, <1>d
<1>2. CASE v.holds /\ Restepped(c, at, a, b)
  <2> USE DEF Restepped
  <2>1. db.row = [status |-> "firing", first |-> v.at] /\ db.mailed = b.mailed
    BY <1>0, <1>2, <1>d DEF NextTransition, Written, Rows
  <2>2. da.row = [status |-> "firing", first |-> v.at] /\ da.mailed = b.mailed
    <3>1. CASE v.at > a.row.first
      BY <1>0, <1>2, <3>1, <1>d DEF NextTransition, Written, Rows
    <3>2. CASE ~(v.at > a.row.first)
      <4>1. a.row.first = v.at
        BY <1>0, <1>2, <3>2
      <4> QED
        BY <1>0, <1>2, <3>2, <4>1, <1>d DEF NextTransition, Written, Rows
    <3> QED
      BY <3>1, <3>2
  <2> QED
    BY <2>1, <2>2, <1>d
<1>3. CASE v.holds /\ FiredEarly(c, at, a, b)
  <2> USE DEF FiredEarly
  <2>1. v.at - b.row.first >= Debounce(c)
    BY <1>0, <1>3
  <2>2. /\ db.row = [status |-> "firing", first |-> IF HoldsResolve(c) THEN v.at ELSE b.row.first]
        /\ db.mailed = Append(b.mailed, "fire")
    BY <1>0, <1>3, <2>1, <1>d DEF NextTransition, ShouldFire, Since, Written
  <2>3. CASE ~HoldsResolve(c)
    <3>1. da.row = [status |-> "firing", first |-> b.row.first] /\ da.mailed = a.mailed
      BY <1>0, <1>3, <2>3, <1>d DEF NextTransition, Written, Rows
    <3> QED
      BY <1>3, <2>2, <2>3, <3>1, <1>d
  <2>4. CASE HoldsResolve(c)
    <3>1. da.row = [status |-> "firing", first |-> v.at] /\ da.mailed = a.mailed
      <4>1. CASE v.at > a.row.first
        BY <1>0, <1>3, <2>4, <4>1, <1>d DEF NextTransition, Written, Rows
      <4>2. CASE ~(v.at > a.row.first)
        <5>1. a.row.first = v.at
          BY <1>0, <1>3, <2>4, <4>2
        <5> QED
          BY <1>0, <1>3, <2>4, <4>2, <5>1, <1>d DEF NextTransition, Written, Rows
      <4> QED
        BY <4>1, <4>2
    <3> QED
      BY <1>3, <2>2, <2>4, <3>1, <1>d
  <2> QED
    BY <2>3, <2>4
<1>4. CASE ~v.holds /\ ResolvedEarly(c, at, a, b)
  <2> USE DEF ResolvedEarly
  <2>1. ShouldResolve(c, b.row.first, v.at)
    BY <1>0, <1>4, AlertsAssumption DEF ShouldResolve, Rows, Moment
  <2>2. db.row = Fresh /\ db.mailed = Append(b.mailed, "resolve")
    BY <1>0, <1>4, <2>1, <1>d DEF NextTransition, Written
  <2>3. da.row = Fresh /\ da.mailed = a.mailed
    BY <1>0, <1>4, <1>d DEF NextTransition, Written, Fresh
  <2> QED
    BY <1>4, <2>2, <2>3, <1>d
<1> QED
  BY <1>1, <1>2, <1>3, <1>4 DEF Ahead

\* A reading between the first and the last puts the one that sees it ahead.
LEMMA RunGoesOn ==
  ASSUME NEW c \in Conditions, NEW a, NEW b, a.row \in Rows, b.row \in Rows,
         NEW v \in Verdicts, NEW at \in Nat, at <= v.at, Ahead(c, v.holds, at, a, b)
  PROVE  Ahead(c, v.holds, v.at, Decided(c, a, v), b)
<1> DEFINE da == Decided(c, a, v)
           ka == NextTransition(c, a.row, v.holds, v.at)
<1>d. /\ da.row = Written(a.row, [kind |-> ka, at |-> v.at, since |-> Since(c, a.row, v.at)])
      /\ da.mailed = (IF ka \in {"fire", "resolve"} THEN Append(a.mailed, ka) ELSE a.mailed)
  BY DEF Decided, Move
<1> SUFFICES Ahead(c, v.holds, v.at, da, b)
  OBVIOUS
<1> HIDE DEF da
<1>0. v.at \in Nat /\ v.at # Never /\ v.holds \in BOOLEAN /\ Debounce(c) \in Nat
      /\ (\A n \in Nat : n # Never) /\ Window \in Nat
      /\ a.row.status \in {"ok", "firing"} /\ b.row.status \in {"ok", "firing"}
      /\ (b.row.first # Never => b.row.first \in Nat) /\ (a.row.first # Never => a.row.first \in Nat)
  BY ConnectionAssumption, AlertsAssumption, DebounceType DEF Verdicts, Rows, Moment
<1>1. CASE a.row = b.row /\ a.mailed = b.mailed /\ Settled(c, b.row, v.holds)
  <2>1. CASE v.holds /\ b.row.status = "ok"
    <3>1. b.row.first # Never
      BY <1>1, <2>1 DEF Settled
    <3>2. CASE v.at - b.row.first >= Debounce(c)
      <4>1. /\ da.row = [status |-> "firing", first |-> IF HoldsResolve(c) THEN v.at ELSE b.row.first]
            /\ da.mailed = Append(b.mailed, "fire")
        BY <1>0, <1>1, <2>1, <3>1, <3>2, <1>d DEF NextTransition, ShouldFire, Since, Written
      <4>2. FiredEarly(c, v.at, da, b)
        BY <1>0, <2>1, <3>1, <3>2, <4>1 DEF FiredEarly
      <4> QED
        BY <2>1, <4>2 DEF Ahead
    <3>3. CASE ~(v.at - b.row.first >= Debounce(c))
      <4>1. da.row = b.row /\ da.mailed = b.mailed
        BY <1>0, <1>1, <2>1, <3>1, <3>3, <1>d DEF NextTransition, ShouldFire, Written
      <4> QED
        BY <1>1, <4>1 DEF Ahead
    <3> QED
      BY <3>2, <3>3
  <2>2. CASE v.holds /\ b.row.status = "firing"
    <3>1. CASE HoldsResolve(c) /\ v.at > b.row.first
      <4>1. da.row = [status |-> "firing", first |-> v.at] /\ da.mailed = b.mailed
        BY <1>0, <1>1, <2>2, <3>1, <1>d DEF NextTransition, Written, Rows
      <4>2. b.row.first \in Nat
        BY <1>0, <1>1, <2>2, <3>1 DEF Settled
      <4>3. Restepped(c, v.at, da, b)
        BY <1>0, <2>2, <3>1, <4>1, <4>2 DEF Restepped
      <4> QED
        BY <2>2, <4>3 DEF Ahead
    <3>2. CASE ~(HoldsResolve(c) /\ v.at > b.row.first)
      <4>1. da.row = b.row /\ da.mailed = b.mailed
        BY <1>0, <1>1, <2>2, <3>2, <1>d DEF NextTransition, Written, Settled
      <4> QED
        BY <1>1, <4>1 DEF Ahead
    <3> QED
      BY <3>1, <3>2
  <2>3. CASE ~v.holds /\ b.row.status = "ok"
    <3>1. b.row.first = Never
      BY <1>1, <2>3 DEF Settled
    <3>2. da.row = b.row /\ da.mailed = b.mailed
      BY <1>0, <1>1, <2>3, <3>1, <1>d DEF NextTransition, Written
    <3> QED
      BY <1>1, <3>2 DEF Ahead
  <2>4. CASE ~v.holds /\ b.row.status = "firing"
    <3>1. CASE ShouldResolve(c, b.row.first, v.at)
      <4>1. da.row = Fresh /\ da.mailed = Append(b.mailed, "resolve")
        BY <1>0, <1>1, <2>4, <3>1, <1>d DEF NextTransition, Written
      <4> QED
        BY <2>4, <3>1, <4>1 DEF Ahead, ResolvedEarly
    <3>2. CASE ~ShouldResolve(c, b.row.first, v.at)
      <4>1. da.row = b.row /\ da.mailed = b.mailed
        BY <1>0, <1>1, <2>4, <3>2, <1>d DEF NextTransition, Written
      <4> QED
        BY <1>1, <4>1 DEF Ahead
    <3> QED
      BY <3>1, <3>2
  <2> QED
    BY <1>0, <2>1, <2>2, <2>3, <2>4
<1>2. CASE v.holds /\ Restepped(c, at, a, b)
  <2> USE DEF Restepped
  <2>1. /\ da.row = [status |-> "firing", first |-> IF v.at > a.row.first THEN v.at ELSE a.row.first]
        /\ da.mailed = b.mailed
    BY <1>0, <1>2, <1>d DEF NextTransition, Written, Rows
  <2>2. Restepped(c, v.at, da, b)
    BY <1>0, <1>2, <2>1
  <2> QED
    BY <1>2, <2>2 DEF Ahead
<1>3. CASE v.holds /\ FiredEarly(c, at, a, b)
  <2> USE DEF FiredEarly
  <2>1. v.at - b.row.first >= Debounce(c)
    BY <1>0, <1>3
  <2>2. /\ da.row.status = "firing" /\ da.mailed = a.mailed
        /\ da.row.first = IF HoldsResolve(c) /\ v.at > a.row.first THEN v.at ELSE a.row.first
    BY <1>0, <1>3, <1>d DEF NextTransition, Written, Rows
  <2>3. FiredEarly(c, v.at, da, b)
    BY <1>0, <1>3, <2>1, <2>2
  <2> QED
    BY <1>3, <2>3 DEF Ahead
<1>4. CASE ~v.holds /\ ResolvedEarly(c, at, a, b)
  <2> USE DEF ResolvedEarly
  <2>1. ShouldResolve(c, b.row.first, v.at)
    BY <1>0, <1>4 DEF ShouldResolve
  <2>2. da.row = Fresh /\ da.mailed = a.mailed
    BY <1>0, <1>4, <1>d DEF NextTransition, Written, Fresh
  <2> QED
    BY <1>4, <2>1, <2>2 DEF Ahead
<1> QED
  BY <1>1, <1>2, <1>3, <1>4 DEF Ahead

\* Reading by reading, the replay of a whole batch and the replay of its ends
\* are the same row, or the first is ahead within a run.
LEMMA EndsFollow ==
  ASSUME NEW c \in Conditions, NEW r \in Rows, NEW q \in Seq(Verdicts),
         \A i, k \in DOMAIN q : i <= k => q[i].at <= q[k].at
  PROVE  Replay(c, r, q, DOMAIN q)[Len(q)] = Replay(c, r, q, TransitionsToApply(q))[Len(q)]
<1> DEFINE all == Replay(c, r, q, DOMAIN q)
           ends == Replay(c, r, q, TransitionsToApply(q))
           n == Len(q)
           Paired(i) == /\ all[i].row \in Rows /\ ends[i].row \in Rows
                        /\ i = 0 \/ Closes(q, i) => all[i] = ends[i]
                        /\ i # 0 => Ahead(c, q[i].holds, q[i].at, all[i], ends[i])
           Apart == {i \in 0..n : ~Paired(i)}
<1>1. n \in Nat /\ DOMAIN q = 1..n
  OBVIOUS
<1>2. \A i \in 1..n : q[i] \in Verdicts /\ q[i].at \in Nat /\ q[i].holds \in BOOLEAN
  <2>1. \A i \in 1..n : q[i] \in Verdicts
    BY <1>1, Element
  <2> QED
    BY <2>1 DEF Verdicts
<1>3. /\ all[0] = [row |-> r, mailed |-> <<>>]
      /\ \A i \in 1..n : all[i] = Decided(c, all[i - 1], q[i])
  BY <1>1, ReplayStep
<1>4. /\ ends[0] = [row |-> r, mailed |-> <<>>]
      /\ \A i \in 1..n : ends[i] = IF Opens(q, i) \/ Closes(q, i)
                                   THEN Decided(c, ends[i - 1], q[i]) ELSE ends[i - 1]
  BY <1>1, ReplayStep DEF TransitionsToApply
<1> HIDE DEF all, ends, n
<1>5. ASSUME NEW i \in 1..n, Paired(i - 1) PROVE Paired(i)
  <2> DEFINE a == all[i - 1]
             b == ends[i - 1]
             v == q[i]
  <2>1. /\ i - 1 \in 0..n /\ i \in Nat /\ v \in Verdicts /\ v.at \in Nat
        /\ a.row \in Rows /\ b.row \in Rows
        /\ all[i] = Decided(c, a, v)
    BY <1>1, <1>2, <1>3, <1>5
  <2>2. /\ Decided(c, a, v).row \in Rows /\ Decided(c, b, v).row \in Rows
        /\ Settled(c, Decided(c, b, v).row, v.holds)
    BY <2>1, DecidedStep
  <2>3. ASSUME Decided(c, a, v) = Decided(c, b, v), ends[i] = Decided(c, b, v)
        PROVE  Paired(i)
    BY <2>1, <2>2, <2>3 DEF Ahead
  <2>4. CASE Opens(q, i)
    <3>1. ends[i] = Decided(c, b, v)
      BY <1>4, <2>4
    <3>2. i - 1 = 0 \/ Closes(q, i - 1)
      BY <1>1, <2>1, <2>4 DEF Opens, Closes, n
    <3>3. a = b
      BY <1>5, <3>2
    <3> QED
      BY <2>3, <3>1, <3>3
  <2>5. CASE ~Opens(q, i)
    <3>1. i - 1 \in 1..n /\ q[i - 1].holds = v.holds
      BY <1>1, <2>1, <2>5 DEF Opens
    <3>2. q[i - 1].at \in Nat /\ q[i - 1].at <= v.at
      BY <1>1, <1>2, <3>1
    <3>3. Ahead(c, v.holds, q[i - 1].at, a, b)
      BY <1>5, <3>1
    <3>4. CASE Closes(q, i)
      <4>1. ends[i] = Decided(c, b, v)
        BY <1>4, <3>4
      <4>2. Decided(c, a, v) = Decided(c, b, v)
        BY <2>1, <3>2, <3>3, RunCloses
      <4> QED
        BY <2>3, <4>1, <4>2
    <3>5. CASE ~Closes(q, i)
      <4>1. ends[i] = b
        BY <1>4, <2>5, <3>5
      <4>2. Ahead(c, v.holds, v.at, Decided(c, a, v), b)
        BY <2>1, <3>2, <3>3, RunGoesOn
      <4> QED
        BY <2>1, <2>2, <3>5, <4>1, <4>2
    <3> QED
      BY <3>4, <3>5
  <2> QED
    BY <2>4, <2>5
<1>6. Paired(0)
  BY <1>1, <1>3, <1>4
<1>7. Apart = {}
  <2> SUFFICES ASSUME Apart # {} PROVE FALSE
    OBVIOUS
  <2>1. Apart \subseteq Nat
    BY <1>1
  <2> HIDE DEF Apart
  <2>2. PICK i \in Apart : \A k \in Apart : i <= k
    BY <2>1, LeastNat
  <2> HIDE DEF Paired
  <2>3. i \in 0..n /\ i # 0
    BY <1>6, <2>2 DEF Apart
  <2>4. i \in 1..n /\ i - 1 \in 0..n /\ i - 1 \notin Apart
    BY <1>1, <2>1, <2>2, <2>3
  <2>5. Paired(i - 1)
    BY <2>4 DEF Apart
  <2> QED
    BY <1>5, <2>2, <2>4, <2>5 DEF Apart
<1>8. Paired(n)
  <2> HIDE DEF Paired
  <2> QED
    BY <1>1, <1>7
<1>9. n # 0 => Closes(q, n)
  BY DEF Closes, n
<1>10. all[n] = ends[n]
  BY <1>8, <1>9
<1> QED
  BY <1>10 DEF all, ends, n

\* "That is enough to reproduce the sequential outcome": whatever the row, the
\* condition, and the length of the batch, `transitions_to_apply` leaves out
\* only readings that would have changed neither the row a batch ends with nor
\* the mails it sends.
THEOREM EndsAreEnough == Spec => []BatchIsSequential
<1>1. IInv => BatchIsSequential
  <2> SUFFICES ASSUME IInv, NEW e \in Evaluators, job[e].todo = TransitionsToApply(job[e].batch)
               PROVE  Replay(job[e].condition, row, job[e].batch, DOMAIN job[e].batch)[Len(job[e].batch)]
                        = Replay(job[e].condition, row, job[e].batch, job[e].todo)[Len(job[e].batch)]
    BY DEF BatchIsSequential
  <2>1. /\ job[e].condition \in Conditions /\ row \in Rows /\ job[e].batch \in Seq(Verdicts)
        /\ JobOK(job[e])
    BY JobType DEF IInv
  <2> QED
    BY <2>1, EndsFollow DEF JobOK
<1> QED
  BY <1>1, Invariant, PTL
==============================================================================
