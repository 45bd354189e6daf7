----------------------------- MODULE ShellRelay -----------------------------
(***************************************************************************)
(* What the shell relay promises a dashboard (dovecote/src/objects/        *)
(* pigeons.rs, execute_shell_command; docs/api.md): one command at a time, *)
(* each answered once, with output only after the device returned it and   *)
(* with a disconnect only after a socket ended.  How sockets are accepted, *)
(* replaced and found is left to DeviceChannel.                            *)
(***************************************************************************)

CONSTANT Requests

VARIABLES
  phase,  \* where each request stands
  answer  \* what it was answered

Pending == {"asked", "sent", "heard", "cut"}
Outstanding == {r \in Requests : phase[r] = "sent"}

Init ==
  /\ phase = [r \in Requests |-> "new"]
  /\ answer = [r \in Requests |-> "none"]

Move(r, from, to) ==
  /\ phase[r] = from
  /\ phase' = [phase EXCEPT ![r] = to]
  /\ UNCHANGED answer

Answer(rs, given) ==
  /\ phase' = [r \in Requests |-> IF r \in rs THEN "answered" ELSE phase[r]]
  /\ answer' = [r \in Requests |-> IF r \in rs THEN given ELSE answer[r]]

(* The request is its pigeon's owner's.                                    *)
Ask(r) == Move(r, "new", "asked")

(* Not the owner's, no command, no socket, or another command outstanding. *)
Refuse(r) == phase[r] \in {"new", "asked"} /\ Answer({r}, "refused")

(* The command goes to the device, of which it is then the only one.       *)
Send(r) == Outstanding = {} /\ Move(r, "asked", "sent")

SendFails(r) == phase[r] = "asked" /\ Answer({r}, "failed")

(* The device returns the outstanding command's output.                    *)
Hear(r) == Move(r, "sent", "heard")

(* The device's connection ends under the outstanding command.             *)
Cut(r) == Move(r, "sent", "cut")

Deliver(r) == phase[r] = "heard" /\ Answer({r}, "output")

Disconnected(r) == phase[r] = "cut" /\ Answer({r}, "lost")

(* The timer, which may win over an end that is also there.                *)
TimeOut(r) == phase[r] \in {"sent", "heard", "cut"} /\ Answer({r}, "late")

(* The object is reset: every request under way fails.                     *)
Abandon == Answer({r \in Requests : phase[r] \in Pending}, "failed")

Next ==
  \/ \E r \in Requests:
       \/ Ask(r) \/ Refuse(r) \/ Send(r) \/ SendFails(r) \/ Hear(r) \/ Cut(r)
       \/ Deliver(r) \/ Disconnected(r) \/ TimeOut(r)
  \/ Abandon

Spec == Init /\ [][Next]_<<phase, answer>>
=============================================================================
