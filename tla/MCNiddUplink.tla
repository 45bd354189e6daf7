---------------------------- MODULE MCNiddUplink ----------------------------
(* Instances of NiddUplink for TLC: the frames a run's device sends, and   *)
(* the symmetry of the attempt slots, which only ever stand for "another   *)
(* callback".                                                              *)
EXTENDS NiddUplink, TLC

Hello(key) == [kind |-> "hello", val |-> key, conf |-> 0, ok |-> TRUE]
Telemetry(seq) == [kind |-> "telemetry", val |-> seq, conf |-> 0, ok |-> TRUE]
Log(seq) == [kind |-> "log", val |-> seq, conf |-> 0, ok |-> TRUE]
Report(version) == [kind |-> "report", val |-> version, conf |-> version, ok |-> TRUE]
Fota == [kind |-> "fota", val |-> 0, conf |-> 0, ok |-> TRUE]
Changed(report) == [report EXCEPT !.conf = @ + 1]
Garbled(frame) == [frame EXCEPT !.ok = FALSE]
Odd(kind) == [kind |-> kind, val |-> 0, conf |-> 0, ok |-> FALSE]

(* One claimed device sending one reading, delivered in copies.            *)
CopiesFrames == {Hello(1), Telemetry(7)}

(* Every kind of frame, well formed or not.                                *)
EveryFrame == {Hello(1), Garbled(Hello(1)), Telemetry(7), Garbled(Telemetry(8)),
               Log(9), Garbled(Log(10)), Report(0), Changed(Report(0)),
               Garbled(Report(0)), Fota,
               Odd("unknown"), Odd("badheader")}

(* A device rebuilt with each key in turn.                                 *)
ClaimFrames == {Hello(1), Hello(2), Telemetry(7)}

(* A device that applies the shadows it gets and reports them.             *)
PushFrames == {Hello(1), Telemetry(7), Report(1)}

Interchangeable == Permutations(Attempts)
=============================================================================
