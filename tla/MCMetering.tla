----------------------------- MODULE MCMetering -----------------------------
(* Instances of Metering for TLC: two paid tiers above a free one. *)
EXTENDS Metering, TLC

CONSTANTS low, high
TierMessages == [plan \in {low, high, Free} |-> IF plan = high THEN 2 ELSE 1]
TierDevices == [plan \in {low, high, Free} |-> IF plan = high THEN 2 ELSE 1]

Interchangeable == Permutations(Devices) \cup Permutations(Consumers) \cup Permutations(Managers)
=============================================================================
