--------------------------- MODULE MCDeviceChannel ---------------------------
(* Instances of DeviceChannel for TLC: sockets and commands only ever      *)
(* stand for "another one".                                                *)
EXTENDS DeviceChannel, TLC

Alike == Permutations(Sockets) \cup Permutations(Commands)
=============================================================================
