------------------------------ MODULE MCBilling ------------------------------
(* Instances of Billing for TLC. *)
EXTENDS Billing, TLC

Interchangeable == Permutations(Handlers) \cup Permutations(Managers) \cup Permutations(Subs)
=============================================================================
