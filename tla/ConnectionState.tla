--------------------------- MODULE ConnectionState ---------------------------
(***************************************************************************)
(* How long a device has been silent, as `capsules/src/connection_state.rs`*)
(* judges it for the dashboard's badge and for the scheduled alert pass.   *)
(* A time is a number of ticks, `Never` the absence of one.                *)
(***************************************************************************)
EXTENDS Integers, FiniteSets

CONSTANTS
  Never,         \* no such signal was ever recorded
  StampHold,     \* LAST_SEEN_STAMP_SECS
  OnlineAfter,   \* silence up to which a device reads Online
  StaleAfter     \* silence up to which it reads Stale

ASSUME ConnectionAssumption ==
  /\ Never \notin Int
  /\ StampHold \in Nat
  /\ OnlineAfter \in Nat /\ StaleAfter \in Nat /\ OnlineAfter <= StaleAfter

LatestOf(times) ==
  IF times \subseteq {Never} THEN Never
  ELSE CHOOSE t \in times \ {Never} : \A u \in times \ {Never} : u <= t

\* Mutant of ContactUntil: a stamp counts for its own moment only.
ContactAtStamp(stamp, evidence) == LatestOf({stamp, evidence})

\* A stamp is credited with the window in which no newer one is written.
ContactUntil(stamp, evidence) ==
  LatestOf({IF stamp = Never THEN Never ELSE stamp + StampHold, evidence})

\* The future is the present: a negative age is no silence.
Silence(seen, now) == IF seen > now THEN 0 ELSE now - seen

Classify(seen, now) ==
  IF seen = Never THEN "unknown"
  ELSE IF Silence(seen, now) <= OnlineAfter THEN "online"
  ELSE IF Silence(seen, now) <= StaleAfter THEN "stale" ELSE "offline"

\* Silence past which a state is entered.
EnteredAfter(state) == IF state = "offline" THEN StaleAfter ELSE OnlineAfter

\* The least time between two stamps of one pigeon.
StampDue(last, at) == IF last = Never THEN TRUE ELSE at - last >= StampHold
==============================================================================
