-------------------------- MODULE MCTelemetryQueue --------------------------
(* Instances of TelemetryQueue for TLC. *)
EXTENDS TelemetryQueue, TLC

Age(n, keys) == [claim |-> [kind |-> "age", n |-> n], keys |-> keys]
At(n, keys) == [claim |-> [kind |-> "at", n |-> n], keys |-> keys]

\* A batch sent out of order that repeats a key and is dated ahead of the clock.
SmallBodies == { <<At(9, {1}), Age(2, {1, 3})>> }

Alike == Permutations(Messages) \cup Permutations(Consumers)

OldRows == [k \in {2} |-> [from |-> Never, at |-> -1]]
=============================================================================
