------------------------------ MODULE MCAlerts ------------------------------
(* Instances of Alerts for TLC. *)
EXTENDS Alerts, TLC

V(age, holds) == [age |-> age, holds |-> holds]

\* Single readings, and a buffered run of which the middle is left out.
SmallBatches ==
  { <<V(0, TRUE)>>, <<V(0, FALSE)>>, <<V(2, TRUE), V(1, TRUE), V(0, TRUE)>> }

Late == [kind |-> "threshold", hold |-> 2]
Noisy == [kind |-> "rate", hold |-> 0]
Missing == [kind |-> "missing", hold |-> 1]
Offline == [kind |-> "offline", hold |-> 0]
Stale == [kind |-> "stale", hold |-> 0]
SomeConditions == {Late, Noisy, Missing, Offline, Stale}
SomeEdits == {[condition |-> Noisy, enabled |-> TRUE]}

Interchangeable == Permutations(Evaluators) \cup Permutations(Toggles)
=============================================================================
