---------------------------- MODULE DeviceChannel ----------------------------
(***************************************************************************)
(* The real-time side of one pigeon's Durable Object: the device's         *)
(* WebSocket, the shell commands relayed over it, the shadow pushed down   *)
(* it, and the device's own writes, all racing a token refresh and a       *)
(* delete (dovecote/src/objects/pigeons.rs).                               *)
(*                                                                         *)
(* The object is single threaded and a handler segment between two awaits  *)
(* is one action.  A socket is authenticated before an await and accepted  *)
(* after it, and one that is closed stays about until its close event is   *)
(* delivered.                                                              *)
(***************************************************************************)
EXTENDS Integers

CONSTANTS
  Sockets,    \* upgrade requests, each the socket it may become
  NoSocket,   \* no socket: a command not sent, a write over HTTP
  Commands,   \* requests to run a shell command
  Uploads,    \* device writes: a frame, a log chunk, a queued report
  Faults,     \* the failures a run admits, see FaultKinds
  MaxToken,   \* bound: tokens minted
  MaxTarget   \* bound: dashboard writes

FaultKinds ==
  {"send",    \* a frame to an open socket is not sent
   "delete",  \* a delete stops after its first statements
   "reset"}   \* the object is reset, losing what it held in memory

ASSUME NoSocketAssumption == NoSocket \notin Sockets
ASSUME ChannelFaultsAssumption == Faults \subseteq FaultKinds
ASSUME ChannelBoundsAssumption == MaxToken \in Nat \ {0} /\ MaxTarget \in Nat

VARIABLES
  token,    \* the token device_public_key verifies; 0 when no pigeons row
  owned,    \* whether pigeon_acl holds its rows
  target,   \* pigeon_shadow.target_version
  kept,     \* which of the pigeon's tables hold device data
  link,     \* the sockets
  cmd,      \* execute_shell_command, one per request
  waiters,  \* shell_waiters: the commands whose reply is awaited
  running,  \* external: the commands that reached the device
  upload    \* the device's writes under way

vars == <<token, owned, target, kept, link, cmd, waiters, running, upload>>

-----------------------------------------------------------------------------
(* The state's shape.                                                      *)

NeverTold == -1

(* A socket's upgrade awaits the fuse, then it is open.  "closing": closed *)
(* by the object, its close event still to come.                           *)
LinkType == [state: {"none", "checking", "refused", "open", "closing", "closed"},
             token: 0..MaxToken, told: (0..MaxTarget) \cup {NeverTold}]

Statuses == {0, 200, 400, 403, 409, 500, 502, 504}

(* reply is what the command's oneshot channel holds.                      *)
CommandType == [pc: {"idle", "reading", "waiting", "done"},
                on: Sockets \cup {NoSocket},
                reply: {"none", "output", "dropped"},
                status: Statuses]
UploadType == [pc: {"idle", "underway", "done"},
               kind: {"none", "frame", "log", "queued"},
               on: Sockets \cup {NoSocket}]

IdleLink == [state |-> "none", token |-> 0, told |-> NeverTold]
IdleCommand == [pc |-> "idle", on |-> NoSocket, reply |-> "none", status |-> 0]
IdleUpload == [pc |-> "idle", kind |-> "none", on |-> NoSocket]

(* Every variable has its shape: a handler is in one of its places and a   *)
(* socket in one stage of its life.                                        *)
ChannelTypeOK ==
  /\ token \in 0..MaxToken
  /\ owned \in BOOLEAN
  /\ target \in 0..MaxTarget
  /\ kept \subseteq {"latest", "log"}
  /\ link \in [Sockets -> LinkType]
  /\ cmd \in [Commands -> CommandType]
  /\ waiters \subseteq Commands
  /\ running \subseteq Commands
  /\ upload \in [Uploads -> UploadType]

(* A pigeon as created.                                                    *)
Init ==
  /\ token = 1 /\ owned = TRUE /\ target = 0 /\ kept = {}
  /\ link = [s \in Sockets |-> IdleLink]
  /\ cmd = [c \in Commands |-> IdleCommand]
  /\ waiters = {} /\ running = {}
  /\ upload = [u \in Uploads |-> IdleUpload]

InState(state) == {s \in Sockets : link[s].state = state}
Open == InState("open")
Live == Open \cup InState("closing")

(* get_websockets_with_tag: the runtime may still list a socket the object *)
(* closed while its closing handshake is unfinished.                       *)
Listings == {Open, Live}

(* close_device_sockets.                                                   *)
CloseAll == [s \in Sockets |->
  [link[s] EXCEPT !.state = IF @ = "open" THEN "closing" ELSE @]]

CloseOne(t) == [s \in Sockets |->
  [link[s] EXCEPT !.state = IF s = t /\ @ = "open" THEN "closing" ELSE @]]

(* What a send of a frame to these sockets reaches.                        *)
Reached(sockets) == IF "send" \in Faults THEN SUBSET sockets ELSE {sockets}

Data == <<token, owned, target, kept>>
Shell == <<cmd, waiters, running>>

-----------------------------------------------------------------------------
(* The upgrade.                                                            *)

(* is_authorized_device at the upgrade, before the fuse is read.           *)
Connect(s) ==
  /\ link[s].state = "none"
  /\ \E presented \in 1..MaxToken:
       link' = [link EXCEPT ![s] =
         [state |-> IF presented = token THEN "checking" ELSE "refused",
          token |-> presented, told |-> NeverTold]]
  /\ UNCHANGED <<Data, Shell, upload>>

UpgradePaused(s) ==
  /\ link[s].state = "checking"
  /\ link' = [link EXCEPT ![s] = [@ EXCEPT !.state = "refused"]]
  /\ UNCHANGED <<Data, Shell, upload>>

(* Mutant of Snapshot: the fresh socket is sent nothing.                   *)
SnapshotNone(s) == {NeverTold}

(* The snapshot a fresh socket is sent; none without a shadow to read.     *)
Snapshot(s) ==
  {IF token # 0 /\ s \in reached THEN target ELSE NeverTold
     : reached \in Reached({s})}

(* Mutant of Accept: the new socket coexists with the old.                 *)
AcceptBeside(s) ==
  /\ link[s].state = "checking"
  /\ \E told \in Snapshot(s):
       link' = [link EXCEPT ![s] = [@ EXCEPT !.state = "open", !.told = told]]
  /\ UNCHANGED <<Data, Shell, upload>>

(* The fuse let it pass: the old socket is replaced, the new one accepted  *)
(* and sent the shadow.                                                    *)
Accept(s) ==
  /\ link[s].state = "checking"
  /\ \E told \in Snapshot(s):
       link' = [CloseAll EXCEPT ![s] = [@ EXCEPT !.state = "open", !.told = told]]
  /\ UNCHANGED <<Data, Shell, upload>>

-----------------------------------------------------------------------------
(* Frames and socket events.                                               *)

(* A frame that is binary, oversize, malformed or one of a flood.          *)
RejectFrame(s) ==
  /\ s \in Live
  /\ link' = CloseOne(s)
  /\ UNCHANGED <<Data, Shell, upload>>

(* clear_shell_waiters: every sender is dropped.                           *)
Dropped == [c \in Commands |->
  [cmd[c] EXCEPT !.reply = IF c \in waiters THEN "dropped" ELSE @]]

(* websocket_close and websocket_error.                                    *)
SocketGone(s) ==
  /\ s \in Live
  /\ link' = [link EXCEPT ![s] = [@ EXCEPT !.state = "closed"]]
  /\ cmd' = Dropped
  /\ waiters' = {}
  /\ UNCHANGED <<Data, running, upload>>

(* A shell_output frame, from whichever live socket, once or again.        *)
ShellOutput(c) ==
  /\ Live # {} /\ c \in running
  /\ running' \in {running, running \ {c}}
  /\ cmd' = [cmd EXCEPT ![c] =
       [@ EXCEPT !.reply = IF c \in waiters THEN "output" ELSE cmd[c].reply]]
  /\ waiters' = waiters \ {c}
  /\ UNCHANGED <<Data, link, upload>>

(* A device write starts: a telemetry frame on a live socket, a log chunk  *)
(* or an HTTP report verified by token.  It awaits the fuse, its body or   *)
(* its turn in the queue.                                                  *)
BeginUpload(u) ==
  /\ upload[u].pc = "idle"
  /\ \/ \E s \in Live:
          upload' = [upload EXCEPT ![u] =
                       [pc |-> "underway", kind |-> "frame", on |-> s]]
     \/ /\ token # 0
        /\ \E kind \in {"log", "queued"}:
             upload' = [upload EXCEPT ![u] =
                          [pc |-> "underway", kind |-> kind, on |-> NoSocket]]
  /\ UNCHANGED <<Data, link, Shell>>

EndUpload(u) ==
  /\ upload[u].pc = "underway"
  /\ upload' = [upload EXCEPT ![u] = [@ EXCEPT !.pc = "done"]]

(* write_telemetry_batch or store_log_chunk; neither looks at pigeons.     *)
StoreUpload(u) ==
  /\ EndUpload(u)
  /\ kept' = kept \cup {IF upload[u].kind = "log" THEN "log" ELSE "latest"}
  /\ UNCHANGED <<token, owned, target, link, Shell>>

(* Paused by the fuse, which closes a frame's socket, or a body refused.   *)
RefuseUpload(u) ==
  /\ EndUpload(u)
  /\ link' = CloseOne(upload[u].on)
  /\ UNCHANGED <<Data, Shell>>

-----------------------------------------------------------------------------
(* execute_shell_command: owner check, body, one command to the socket,    *)
(* then the reply or the timeout, whichever is picked.                     *)

Ended(c, status) ==
  [cmd EXCEPT ![c] = [@ EXCEPT !.pc = "done", !.status = status]]

(* Answered without a waiter.                                              *)
Refuse(c, status) ==
  /\ cmd' = Ended(c, status)
  /\ UNCHANGED <<Data, link, waiters, running, upload>>

AskShell(c) ==
  /\ cmd[c].pc = "idle"
  /\ IF owned
     THEN /\ cmd' = [cmd EXCEPT ![c] = [@ EXCEPT !.pc = "reading"]]
          /\ UNCHANGED <<Data, link, waiters, running, upload>>
     ELSE Refuse(c, 403)

(* Unreadable or empty.                                                    *)
RefuseBody(c) == cmd[c].pc = "reading" /\ Refuse(c, 400)

RefuseOffline(c) ==
  /\ cmd[c].pc = "reading"
  /\ {} \in Listings
  /\ Refuse(c, 409)

Free == waiters = {}

RefuseBusy(c) ==
  /\ cmd[c].pc = "reading"
  /\ Live # {} /\ ~Free
  /\ Refuse(c, 409)

(* The socket picked is the first listed.  A send that fails takes its     *)
(* waiter back.                                                            *)
SendShell(c) ==
  /\ cmd[c].pc = "reading"
  /\ Free
  /\ \E listed \in Listings: \E s \in listed:
       \/ /\ s \in Open
          /\ cmd' = [cmd EXCEPT ![c] = [@ EXCEPT !.pc = "waiting", !.on = s,
                                                 !.reply = "none"]]
          /\ waiters' = waiters \cup {c}
          /\ running' = running \cup {c}
          /\ UNCHANGED <<Data, link, upload>>
       \/ /\ s \notin Open \/ "send" \in Faults
          /\ Refuse(c, 500)

(* Mutant of Resume: a dropped sender reads as an empty output.            *)
ResumeEmpty(c) ==
  cmd[c].pc = "waiting" /\ cmd[c].reply # "none" /\ Refuse(c, 200)

(* The reply, or a sender dropped by a socket's end.                       *)
Resume(c) ==
  /\ cmd[c].pc = "waiting"
  /\ cmd[c].reply # "none"
  /\ Refuse(c, IF cmd[c].reply = "output" THEN 200 ELSE 502)

(* Mutant of Timeout: the waiter is left in the map.                       *)
TimeoutKeepsWaiter(c) == cmd[c].pc = "waiting" /\ Refuse(c, 504)

(* Mutant of Timeout: nothing ends the wait but the device.                *)
TimeoutNever(c) ==
  cmd[c].pc = "waiting" /\ cmd[c].reply # "none" /\ Refuse(c, 504)

(* The timer may win over a reply that is also ready.                      *)
Timeout(c) ==
  /\ cmd[c].pc = "waiting"
  /\ cmd' = Ended(c, 504)
  /\ waiters' = waiters \ {c}
  /\ UNCHANGED <<Data, link, running, upload>>

-----------------------------------------------------------------------------
(* The owner's operations, each one segment.                               *)

(* Mutant of Bumped: the version grows twice, by trigger and statement.    *)
BumpedTwice(version) == version + 2

(* The trigger increment_pigeon_target_version.                            *)
Bumped(version) == version + 1

Told(version, reached) == [s \in Sockets |->
  [link[s] EXCEPT !.told = IF s \in reached THEN version ELSE @]]

(* update_shadow writes the target, which a config unlike the old one      *)
(* bumps, and pushes it.  The write of a deleted pigeon finds no row, and  *)
(* owned does not guard it: a firmware target's check is awaited before.   *)
UpdateShadow ==
  /\ token # 0
  /\ target' \in {target} \cup (IF target < MaxTarget THEN {Bumped(target)} ELSE {})
  /\ \E reached \in Reached(Open): link' = Told(target', reached)
  /\ UNCHANGED <<token, owned, kept, Shell, upload>>

(* refresh_token: the old token cannot verify again, its socket is closed. *)
RefreshToken ==
  /\ owned /\ token \in 1..(MaxToken - 1)
  /\ token' = token + 1
  /\ link' = CloseAll
  /\ UNCHANGED <<owned, target, kept, Shell, upload>>

(* delete: the ACL first, the pigeons row and its shadow last, then the    *)
(* socket.                                                                 *)
Delete ==
  /\ owned
  /\ owned' = FALSE /\ token' = 0 /\ target' = 0 /\ kept' = {}
  /\ link' = CloseAll
  /\ UNCHANGED <<Shell, upload>>

(* A delete one of whose later statements fails.                           *)
DeletePartly ==
  /\ "delete" \in Faults
  /\ owned
  /\ owned' = FALSE
  /\ kept' \in {kept, kept \ {"latest"}, {}}
  /\ UNCHANGED <<token, target, link, Shell, upload>>

(* External: the runtime resets the object.  What it held in memory is     *)
(* gone with its callers; its hibernating sockets stay or go together.  A  *)
(* queued report is retried.                                               *)
Reset ==
  /\ "reset" \in Faults
  /\ waiters' = {}
  /\ cmd' = [c \in Commands |->
       IF cmd[c].pc \in {"reading", "waiting"}
       THEN [cmd[c] EXCEPT !.pc = "done", !.status = 500] ELSE cmd[c]]
  /\ upload' = [u \in Uploads |->
       IF upload[u].pc = "underway" /\ upload[u].kind # "queued"
       THEN [upload[u] EXCEPT !.pc = "done"] ELSE upload[u]]
  /\ \E gone \in {{}, Live}:
       link' = [s \in Sockets |->
         [link[s] EXCEPT !.state = IF @ = "checking" THEN "refused"
                                   ELSE IF s \in gone THEN "closed" ELSE @]]
  /\ UNCHANGED <<Data, running>>

-----------------------------------------------------------------------------
Socket(s) == Connect(s) \/ UpgradePaused(s) \/ Accept(s) \/ RejectFrame(s)
             \/ SocketGone(s)

Command(c) == AskShell(c) \/ RefuseBody(c) \/ RefuseOffline(c) \/ RefuseBusy(c)
              \/ SendShell(c) \/ Resume(c) \/ Timeout(c) \/ ShellOutput(c)

Upload(u) == BeginUpload(u) \/ StoreUpload(u) \/ RefuseUpload(u)

Owner == UpdateShadow \/ RefreshToken \/ Delete \/ DeletePartly

Next ==
  \/ \E s \in Sockets: Socket(s)
  \/ \E c \in Commands: Command(c)
  \/ \E u \in Uploads: Upload(u)
  \/ Owner
  \/ Reset

Spec == Init /\ [][Next]_vars

(* The handler's own steps: its body ends, its timer fires.  No socket,    *)
(* device or owner is obliged to act.                                      *)
Handled(c) == RefuseBody(c) \/ RefuseOffline(c) \/ RefuseBusy(c)
              \/ SendShell(c) \/ Resume(c) \/ Timeout(c)

FairSpec == Spec /\ \A c \in Commands: WF_vars(Handled(c))

-----------------------------------------------------------------------------
(* What the relay shows its dashboards, in the terms of ShellRelay.        *)

PhaseOf(c) ==
  IF cmd[c].pc = "idle" THEN "new"
  ELSE IF cmd[c].pc = "reading" THEN "asked"
  ELSE IF cmd[c].pc = "done" THEN "answered"
  ELSE IF cmd[c].reply = "output" THEN "heard"
  ELSE IF cmd[c].reply = "dropped" THEN "cut" ELSE "sent"

AnswerOf(status) ==
  IF status = 0 THEN "none"
  ELSE IF status \in {400, 403, 409} THEN "refused"
  ELSE IF status = 200 THEN "output"
  ELSE IF status = 500 THEN "failed"
  ELSE IF status = 502 THEN "lost" ELSE "late"

Phases == [c \in Commands |-> PhaseOf(c)]
Answers == [c \in Commands |-> AnswerOf(cmd[c].status)]

Relay == INSTANCE ShellRelay WITH
  Requests <- Commands, phase <- Phases, answer <- Answers

-----------------------------------------------------------------------------
(* Properties.                                                             *)

(* However sockets end, are replaced, hang or answer twice, and whenever   *)
(* the timer fires, the handler and the socket events together keep the    *)
(* relay's promise: one command outstanding, each answered once and as it  *)
(* ended.                                                                  *)
ImplementsRelay == Relay!Spec

(* However upgrades overlap across their fuse check, refresh and delete,   *)
(* the object never holds two open sockets: the relay's choice of the      *)
(* first one and the push to all rely on it.                               *)
OneOpenSocket == \A s, t \in Open: s = t

(* The waiters are exactly the commands still to be answered that nothing  *)
(* has resolved, and there is at most one: no command ended by its timer,  *)
(* a failed send or a reset blocks the next with a 409.                    *)
WaitersServed ==
  /\ waiters = {c \in Commands : cmd[c].pc = "waiting" /\ cmd[c].reply = "none"}
  /\ \A c, d \in waiters: c = d

(* Where no send fails, an open socket has been sent the newest target,    *)
(* whether the dashboard wrote it before, during or after the upgrade.     *)
OpenSocketCurrent ==
  token # 0 => \A s \in Open: link[s].told = target

(* A dashboard's command is answered and its waiter gone, though the       *)
(* device says nothing, its socket hangs or the object is reset.           *)
AskedIsAnswered ==
  \A c \in Commands:
    cmd[c].pc = "reading" ~> cmd[c].pc = "done" /\ c \notin waiters

(* A command is told that the device disconnected only when the socket it  *)
(* went over has ended (clear_shell_waiters).                              *)
CancelledByOwnSocket ==
  \A c \in Commands: cmd[c].reply = "dropped" => cmd[c].on \notin Open
=============================================================================
