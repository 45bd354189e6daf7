------------------------ MODULE MCThingSpaceSession ------------------------
(* Instances of ThingSpaceSession for TLC. *)
EXTENDS ThingSpaceSession, TLC

Interchangeable == Permutations(Senders)
=============================================================================
