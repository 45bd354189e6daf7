---------------------------- MODULE UplinkIngest ----------------------------
(***************************************************************************)
(* What a pigeon promises of the readings and logs its device sends over   *)
(* NIDD, however often ThingSpace and the carrier deliver each of them     *)
(* (dovecote/src/helpers/nidd.rs, NiddInFlight and NiddRow; docs/api.md):  *)
(* one is ingested again only once the record of having ingested it is     *)
(* gone, and a copy is turned away as known only when it was ingested or   *)
(* judged.  How copies are recognised is left to NiddUplink.               *)
(***************************************************************************)
EXTENDS Naturals

CONSTANTS Callbacks, Sends

VARIABLES
  carries,    \* the send a callback delivers, at most one
  verdict,    \* what each callback was answered
  ingested,   \* how often each send was ingested
  forgotten   \* how often the record of each was lost

vars == <<carries, verdict, ingested, forgotten>>

Init ==
  /\ carries = [c \in Callbacks |-> {}]
  /\ verdict = [c \in Callbacks |-> "none"]
  /\ ingested = [s \in Sends |-> 0]
  /\ forgotten = [s \in Sends |-> 0]

Pending(c) == carries[c] # {} /\ verdict[c] = "none"
PendingSends == {s \in Sends : \E c \in Callbacks: Pending(c) /\ s \in carries[c]}

Grown(count, sends) == [s \in Sends |-> IF s \in sends THEN count[s] + 1 ELSE count[s]]

(* The records that a step loses: pushed out by newer ones, deleted, or    *)
(* never written.                                                          *)
Forgets == \E lost \in SUBSET Sends: forgotten' = Grown(forgotten, lost)

Answer(c, given) ==
  /\ Pending(c)
  /\ verdict' = [verdict EXCEPT ![c] = given]
  /\ UNCHANGED carries

(* A delivery arrives: the first of its send, a copy or a retry.           *)
Deliver(c, s) ==
  /\ carries[c] = {}
  /\ carries' = [carries EXCEPT ![c] = {s}]
  /\ UNCHANGED <<verdict, ingested, forgotten>>

(* Ingested, with the record of it or without; the sender may still be     *)
(* told to send again.                                                     *)
Ingest(c) ==
  /\ \E s \in carries[c]:
       ingested[s] <= forgotten[s] /\ ingested' = Grown(ingested, {s})
  /\ \E given \in {"ingested", "again"}: Answer(c, given)
  /\ Forgets

(* Turned away as a copy of one that was ingested or judged.               *)
Known(c) ==
  /\ \E s \in carries[c]:
       \/ ingested[s] > 0
       \/ \E d \in Callbacks: carries[d] = carries[c] /\ verdict[d] = "judged"
  /\ Answer(c, "known")
  /\ Forgets
  /\ UNCHANGED ingested

(* Judged not to be ingested, or answered so that it is sent again.        *)
TurnDown(c) ==
  /\ \E given \in {"judged", "again"}: Answer(c, given)
  /\ Forgets
  /\ UNCHANGED ingested

Forget == Forgets /\ UNCHANGED <<carries, verdict, ingested>>

(* The object is reset: every delivery under way is lost, of which some    *)
(* had been ingested.                                                      *)
Crash ==
  /\ \E landed \in SUBSET {s \in PendingSends : ingested[s] <= forgotten[s]}:
       ingested' = Grown(ingested, landed)
  /\ verdict' = [c \in Callbacks |-> IF Pending(c) THEN "again" ELSE verdict[c]]
  /\ Forgets
  /\ UNCHANGED carries

Next ==
  \/ \E c \in Callbacks:
       \/ \E s \in Sends: Deliver(c, s)
       \/ Ingest(c) \/ Known(c) \/ TurnDown(c)
  \/ Forget
  \/ Crash

Spec == Init /\ [][Next]_vars
=============================================================================
