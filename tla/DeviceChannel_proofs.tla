------------------------ MODULE DeviceChannel_proofs ------------------------
(* What DeviceChannel promises for any number of sockets, commands and     *)
(* device writes, and whichever failures are admitted.                     *)
EXTENDS DeviceChannel, TLAPS

(* The links that the bulk operations leave are links.                     *)
LEMMA LinksKeepShape ==
  ASSUME link \in [Sockets -> LinkType]
  PROVE  /\ CloseAll \in [Sockets -> LinkType]
         /\ \A t: CloseOne(t) \in [Sockets -> LinkType]
         /\ \A v \in 0..MaxTarget: \A r: Told(v, r) \in [Sockets -> LinkType]
<1>1. \A s \in Sockets: link[s] \in LinkType
  OBVIOUS
<1>2. \A s \in Sockets:
        [link[s] EXCEPT !.state = IF @ = "open" THEN "closing" ELSE @] \in LinkType
  BY <1>1 DEF LinkType
<1>3. \A t: \A s \in Sockets:
        [link[s] EXCEPT !.state = IF s = t /\ @ = "open" THEN "closing" ELSE @]
          \in LinkType
  BY <1>1 DEF LinkType
<1>4. \A v \in 0..MaxTarget: \A r: \A s \in Sockets:
        [link[s] EXCEPT !.told = IF s \in r THEN v ELSE @] \in LinkType
  BY <1>1 DEF LinkType
<1> QED
  BY <1>2, <1>3, <1>4 DEF CloseAll, CloseOne, Told

(* The snapshot is a version or nothing, and nothing only for want of a    *)
(* shadow or of a send that works.                                         *)
LEMMA SnapshotTold ==
  ASSUME ChannelTypeOK, NEW s \in Sockets, NEW told \in Snapshot(s)
  PROVE  /\ told \in (0..MaxTarget) \cup {NeverTold}
         /\ token # 0 /\ "send" \notin Faults => told = target
  BY DEF Snapshot, Reached, ChannelTypeOK

(* A link whose stage or news changes is still a link.                     *)
LEMMA LinkSteps ==
  ASSUME NEW l \in LinkType
  PROVE  /\ [l EXCEPT !.state = "refused"] \in LinkType
         /\ [l EXCEPT !.state = "closed"] \in LinkType
         /\ \A told \in (0..MaxTarget) \cup {NeverTold}:
              [l EXCEPT !.state = "open", !.told = told] \in LinkType
  BY DEF LinkType

(* A command stays one through each place and answer of its handler.       *)
LEMMA CommandSteps ==
  ASSUME NEW c \in CommandType
  PROVE  /\ [c EXCEPT !.pc = "reading"] \in CommandType
         /\ \A s \in Sockets: [c EXCEPT !.pc = "waiting", !.on = s,
                               !.reply = "none"] \in CommandType
         /\ \A status \in Statuses:
              [c EXCEPT !.pc = "done", !.status = status] \in CommandType
         /\ \A reply \in {"none", "output", "dropped"}:
              [c EXCEPT !.reply = reply] \in CommandType
<1>1. [c EXCEPT !.pc = "reading"] \in CommandType
  BY DEF CommandType
<1>2. \A s \in Sockets: [c EXCEPT !.pc = "waiting", !.on = s,
                               !.reply = "none"] \in CommandType
  BY DEF CommandType
<1>3. \A status \in Statuses:
        [c EXCEPT !.pc = "done", !.status = status] \in CommandType
  BY DEF CommandType
<1>4. \A reply \in {"none", "output", "dropped"}:
        [c EXCEPT !.reply = reply] \in CommandType
  BY DEF CommandType
<1> QED
  BY <1>1, <1>2, <1>3, <1>4

(* A device write that ends is still one.                                  *)
LEMMA UploadSteps ==
  ASSUME NEW u \in UploadType
  PROVE  [u EXCEPT !.pc = "done"] \in UploadType
  BY DEF UploadType

(* The state's shape holds of a fresh object, whose first token is 1.      *)
LEMMA TypeInit == Init => ChannelTypeOK
<1> SUFFICES ASSUME Init PROVE ChannelTypeOK
  OBVIOUS
<1>1. token \in 0..MaxToken /\ target \in 0..MaxTarget
  BY ChannelBoundsAssumption DEF Init
<1>2. IdleLink \in LinkType
  BY ChannelBoundsAssumption DEF IdleLink, LinkType, NeverTold
<1>3. IdleCommand \in CommandType /\ IdleUpload \in UploadType
  BY DEF IdleCommand, CommandType, Statuses, IdleUpload, UploadType
<1> QED
  BY <1>1, <1>2, <1>3 DEF Init, ChannelTypeOK

(* Each step keeps the state's shape.                                      *)
LEMMA TypeStep == ChannelTypeOK /\ [Next]_vars => ChannelTypeOK'
<1> SUFFICES ASSUME ChannelTypeOK, [Next]_vars PROVE ChannelTypeOK'
  OBVIOUS
<1> USE ChannelBoundsAssumption, ChannelFaultsAssumption
<1> DEFINE Links == [Sockets -> LinkType]
           Cmds == [Commands -> CommandType]
           Ups == [Uploads -> UploadType]
           Rest == <<Data, Shell, upload>>
<1>t. /\ link \in Links /\ cmd \in Cmds /\ upload \in Ups
      /\ waiters \subseteq Commands /\ running \subseteq Commands
      /\ token \in 0..MaxToken /\ target \in 0..MaxTarget
      /\ owned \in BOOLEAN /\ kept \subseteq {"latest", "log"}
  BY DEF ChannelTypeOK
<1>l. /\ CloseAll \in Links
      /\ \A t: CloseOne(t) \in Links
      /\ \A v \in 0..MaxTarget: \A r: Told(v, r) \in Links
  BY <1>t, LinksKeepShape
<1>k. ASSUME link' \in Links, UNCHANGED <<Data, Shell, upload>>
      PROVE  ChannelTypeOK'
  BY <1>k, <1>t DEF ChannelTypeOK, Data, Shell
<1>c. ASSUME cmd' \in Cmds, waiters' \subseteq Commands,
             running' \subseteq Commands, UNCHANGED <<Data, link, upload>>
      PROVE  ChannelTypeOK'
  BY <1>c, <1>t DEF ChannelTypeOK, Data
<1>r. ASSUME NEW c \in Commands, NEW status \in Statuses
      PROVE  /\ Ended(c, status) \in Cmds
             /\ Refuse(c, status) => ChannelTypeOK'
  <2>1. [cmd[c] EXCEPT !.pc = "done", !.status = status] \in CommandType
    BY <1>t, CommandSteps
  <2>2. Ended(c, status) \in Cmds
    BY <2>1, <1>t DEF Ended
  <2> QED
    BY <2>2, <1>c, <1>t DEF Refuse
<1>s. /\ 200 \in Statuses /\ 400 \in Statuses /\ 403 \in Statuses
      /\ 409 \in Statuses /\ 500 \in Statuses /\ 502 \in Statuses
      /\ 504 \in Statuses
  BY DEF Statuses
<1>1. ASSUME NEW s \in Sockets, Connect(s)
      PROVE  ChannelTypeOK'
  <2>1. PICK presented \in 1..MaxToken: link' = [link EXCEPT ![s] =
          [state |-> IF presented = token THEN "checking" ELSE "refused",
           token |-> presented, told |-> NeverTold]]
    BY <1>1 DEF Connect
  <2>2. [state |-> IF presented = token THEN "checking" ELSE "refused",
         token |-> presented, told |-> NeverTold] \in LinkType
    BY DEF LinkType
  <2> QED
    BY <2>1, <2>2, <1>1, <1>t, <1>k DEF Connect
<1>2. ASSUME NEW s \in Sockets, UpgradePaused(s)
      PROVE  ChannelTypeOK'
  BY <1>2, <1>t, <1>k, LinkSteps DEF UpgradePaused
<1>3. ASSUME NEW s \in Sockets, Accept(s)
      PROVE  ChannelTypeOK'
  <2>1. PICK told \in Snapshot(s):
          link' = [CloseAll EXCEPT ![s] = [@ EXCEPT !.state = "open", !.told = told]]
    BY <1>3 DEF Accept
  <2>2. told \in (0..MaxTarget) \cup {NeverTold}
    BY SnapshotTold
  <2>3. [CloseAll[s] EXCEPT !.state = "open", !.told = told] \in LinkType
    BY <2>2, <1>l, LinkSteps
  <2> QED
    BY <2>1, <2>3, <1>3, <1>l, <1>k DEF Accept
<1>4. ASSUME NEW s \in Sockets, RejectFrame(s)
      PROVE  ChannelTypeOK'
  BY <1>4, <1>l, <1>k DEF RejectFrame
<1>5. ASSUME NEW s \in Sockets, SocketGone(s)
      PROVE  ChannelTypeOK'
  <2>1. link' \in Links
    BY <1>5, <1>t, LinkSteps DEF SocketGone
  <2>2. \A c \in Commands:
          [cmd[c] EXCEPT !.reply = IF c \in waiters THEN "dropped" ELSE @]
            \in CommandType
    <3> TAKE c \in Commands
    <3> DEFINE reply == IF c \in waiters THEN "dropped" ELSE cmd[c].reply
    <3>1. reply \in {"none", "output", "dropped"}
      BY <1>t DEF CommandType
    <3> HIDE DEF reply
    <3>2. [cmd[c] EXCEPT !.reply = reply] \in CommandType
      BY <3>1, <1>t, CommandSteps
    <3> QED
      BY <3>2 DEF reply
  <2>3. Dropped \in Cmds
    BY <2>2 DEF Dropped
  <2> QED
    BY <2>1, <2>3, <1>5, <1>t DEF SocketGone, ChannelTypeOK, Data
<1>6. ASSUME NEW c \in Commands, ShellOutput(c)
      PROVE  ChannelTypeOK'
  <2> DEFINE reply == IF c \in waiters THEN "output" ELSE cmd[c].reply
             told == [cmd[c] EXCEPT !.reply = reply]
  <2>1. reply \in {"none", "output", "dropped"}
    BY <1>t DEF CommandType
  <2>2. cmd' = [cmd EXCEPT ![c] = told]
    BY <1>6 DEF ShellOutput
  <2> HIDE DEF reply
  <2>3. told \in CommandType
    BY <2>1, <1>t, CommandSteps
  <2> HIDE DEF told
  <2>4. cmd' \in Cmds
    BY <2>2, <2>3, <1>t
  <2>5. waiters' \subseteq Commands /\ running' \subseteq Commands
    BY <1>6, <1>t DEF ShellOutput
  <2> QED
    BY <2>4, <2>5, <1>6, <1>c DEF ShellOutput
<1>7. ASSUME NEW u \in Uploads, Upload(u)
      PROVE  ChannelTypeOK'
  <2>1. CASE BeginUpload(u)
    <3>1. \A s \in Sockets:
            [pc |-> "underway", kind |-> "frame", on |-> s] \in UploadType
      BY DEF UploadType
    <3>2. \A kind \in {"log", "queued"}:
            [pc |-> "underway", kind |-> kind, on |-> NoSocket] \in UploadType
      BY DEF UploadType
    <3>3. upload' \in Ups
      BY <3>1, <3>2, <2>1, <1>t DEF BeginUpload, Live, Open, InState
    <3> QED
      BY <3>3, <2>1, <1>t DEF BeginUpload, ChannelTypeOK, Data, Shell
  <2>e. EndUpload(u) => upload' \in Ups
    BY <1>t, UploadSteps DEF EndUpload
  <2>2. CASE StoreUpload(u)
    BY <2>e, <2>2, <1>t DEF StoreUpload, ChannelTypeOK, Shell
  <2>3. CASE RefuseUpload(u)
    BY <2>e, <2>3, <1>t, <1>l DEF RefuseUpload, ChannelTypeOK, Data, Shell
  <2> QED
    BY <2>1, <2>2, <2>3, <1>7 DEF Upload
<1>8. ASSUME NEW c \in Commands, AskShell(c)
      PROVE  ChannelTypeOK'
  <2>1. CASE owned
    <3>1. /\ cmd' = [cmd EXCEPT ![c] = [@ EXCEPT !.pc = "reading"]]
          /\ UNCHANGED <<Data, link, waiters, running, upload>>
      BY <2>1, <1>8 DEF AskShell
    <3>2. [cmd[c] EXCEPT !.pc = "reading"] \in CommandType
      BY <1>t, CommandSteps
    <3>3. cmd' \in Cmds
      BY <3>1, <3>2, <1>t
    <3> QED
      BY <3>1, <3>3, <1>t, <1>c
  <2>2. CASE ~owned
    BY <2>2, <1>8, <1>r, <1>s DEF AskShell
  <2> QED
    BY <2>1, <2>2
<1>9. ASSUME NEW c \in Commands,
             RefuseBody(c) \/ RefuseOffline(c) \/ RefuseBusy(c) \/ Resume(c)
      PROVE  ChannelTypeOK'
  <2>1. CASE RefuseBody(c)
    BY <2>1, <1>r, <1>s DEF RefuseBody
  <2>2. CASE RefuseOffline(c) \/ RefuseBusy(c)
    BY <2>2, <1>r, <1>s DEF RefuseOffline, RefuseBusy
  <2>3. CASE Resume(c)
    BY <2>3, <1>r, <1>s DEF Resume
  <2> QED
    BY <2>1, <2>2, <2>3, <1>9
<1>10. ASSUME NEW c \in Commands, SendShell(c)
       PROVE  ChannelTypeOK'
  <2>1. PICK s \in Live:
          \/ /\ cmd' = [cmd EXCEPT ![c] = [@ EXCEPT !.pc = "waiting", !.on = s,
                                                    !.reply = "none"]]
             /\ waiters' = waiters \cup {c} /\ running' = running \cup {c}
             /\ UNCHANGED <<Data, link, upload>>
          \/ Refuse(c, 500)
    BY <1>10 DEF SendShell, Listings, Live
  <2>2. CASE Refuse(c, 500)
    BY <2>2, <1>r, <1>s
  <2>3. s \in Sockets
    BY DEF Live, Open, InState
  <2>4. [cmd[c] EXCEPT !.pc = "waiting", !.on = s, !.reply = "none"]
          \in CommandType
    BY <2>3, <1>t, CommandSteps
  <2> QED
    BY <2>1, <2>2, <2>4, <1>t, <1>c
<1>11. ASSUME NEW c \in Commands, Timeout(c)
       PROVE  ChannelTypeOK'
  <2>1. Ended(c, 504) \in Cmds
    BY <1>r, <1>s
  <2> QED
    BY <2>1, <1>11, <1>t, <1>c DEF Timeout
<1>12. CASE UpdateShadow
  <2>1. target' \in 0..MaxTarget
    BY <1>12, <1>t DEF UpdateShadow, Bumped
  <2>2. link' \in Links
    BY <2>1, <1>l, <1>12 DEF UpdateShadow
  <2> QED
    BY <2>1, <2>2, <1>12, <1>t DEF UpdateShadow, ChannelTypeOK, Shell
<1>13. CASE RefreshToken
  BY <1>13, <1>t, <1>l DEF RefreshToken, ChannelTypeOK, Shell
<1>14. CASE Delete
  <2>1. token' \in 0..MaxToken /\ target' \in 0..MaxTarget
    BY <1>14 DEF Delete
  <2>3. owned' \in BOOLEAN /\ kept' \subseteq {"latest", "log"}
    BY <1>14 DEF Delete
  <2>2. link' \in Links
    BY <1>14, <1>l DEF Delete
  <2> QED
    BY <2>1, <2>2, <2>3, <1>14, <1>t DEF Delete, ChannelTypeOK, Shell
<1>15. CASE DeletePartly
  BY <1>15, <1>t DEF DeletePartly, ChannelTypeOK, Shell
<1>16. CASE Reset
  <2>1. cmd' \in Cmds
    <3>1. \A c \in Commands:
            [cmd[c] EXCEPT !.pc = "done", !.status = 500] \in CommandType
      BY <1>s, <1>t, CommandSteps
    <3>2. cmd' = [c \in Commands |->
            IF cmd[c].pc \in {"reading", "waiting"}
            THEN [cmd[c] EXCEPT !.pc = "done", !.status = 500] ELSE cmd[c]]
      BY <1>16 DEF Reset
    <3> QED
      BY <3>1, <3>2, <1>t
  <2>2. upload' \in Ups
    BY <1>16, <1>t, UploadSteps DEF Reset
  <2>3. PICK gone \in {{}, Live}:
          link' = [s \in Sockets |->
            [link[s] EXCEPT !.state = IF @ = "checking" THEN "refused"
                                      ELSE IF s \in gone THEN "closed" ELSE @]]
    BY <1>16 DEF Reset
  <2>4. link' \in Links
    BY <2>3, <1>t DEF LinkType
  <2> QED
    BY <2>1, <2>2, <2>4, <1>16, <1>t DEF Reset, ChannelTypeOK, Data
<1>17. CASE UNCHANGED vars
  BY <1>17, <1>t DEF vars, ChannelTypeOK
<1> QED
  BY <1>1, <1>2, <1>3, <1>4, <1>5, <1>6, <1>7, <1>8, <1>9, <1>10, <1>11,
     <1>12, <1>13, <1>14, <1>15, <1>16, <1>17
     DEF Next, Socket, Command, Owner

(* The object's state keeps its shape for any sockets, commands and writes. *)
THEOREM ChannelTypesHold == Spec => []ChannelTypeOK
<1> QED
  BY TypeInit, TypeStep, PTL DEF Spec

(* A step that opens no socket opens no second one.                        *)
LEMMA OpenShrinks ==
  ASSUME link \in [Sockets -> LinkType]
  PROVE  /\ \A s \in Sockets: CloseAll[s].state # "open"
         /\ \A t: \A s \in Sockets:
              CloseOne(t)[s].state = "open" => link[s].state = "open"
         /\ \A v, r: \A s \in Sockets: Told(v, r)[s].state = link[s].state
  BY DEF CloseAll, CloseOne, Told, LinkType

(* What a step does to a socket already open: nothing opens but the socket *)
(* of an accepted upgrade, and then every other one is closed.             *)
LEMMA WhoOpens ==
  ASSUME ChannelTypeOK, [Next]_vars
  PROVE  \/ Open' \subseteq Open
         \/ \E s \in Sockets: Accept(s) /\ Open' = {s}
<1>t. link \in [Sockets -> LinkType]
  BY DEF ChannelTypeOK
<1>o. \A s \in Sockets: s \in Open <=> link[s].state = "open"
  BY DEF Open, InState
<1>p. \A s: s \in Open' <=> s \in Sockets /\ link'[s].state = "open"
  BY DEF Open, InState
<1>c. ASSUME UNCHANGED link PROVE Open' \subseteq Open
  BY <1>c DEF Open, InState
<1>1. ASSUME NEW s \in Sockets, Socket(s)
      PROVE  \/ Open' \subseteq Open
             \/ \E u \in Sockets: Accept(u) /\ Open' = {u}
  <2>1. CASE Connect(s)
    <3>1. link'[s].state # "open"
      BY <2>1, <1>t DEF Connect
    <3>2. \A u \in Sockets \ {s}: link'[u] = link[u]
      BY <2>1, <1>t DEF Connect
    <3> QED
      BY <3>1, <3>2, <1>o, <1>p
  <2>2. CASE UpgradePaused(s) \/ SocketGone(s)
    <3>1. link'[s].state # "open"
      BY <2>2, <1>t DEF UpgradePaused, SocketGone, LinkType
    <3>2. \A u \in Sockets \ {s}: link'[u] = link[u]
      BY <2>2, <1>t DEF UpgradePaused, SocketGone
    <3> QED
      BY <3>1, <3>2, <1>o, <1>p
  <2>3. CASE Accept(s)
    <3>1. PICK told \in Snapshot(s):
            link' = [CloseAll EXCEPT ![s] = [@ EXCEPT !.state = "open", !.told = told]]
      BY <2>3 DEF Accept
    <3>2. CloseAll \in [Sockets -> LinkType]
      BY <1>t, LinksKeepShape
    <3>3. link'[s].state = "open"
      BY <3>1, <3>2 DEF LinkType
    <3>4. \A u \in Sockets \ {s}: link'[u].state # "open"
      BY <3>1, <3>2, <1>t, OpenShrinks
    <3>5. Open' = {s}
      BY <3>3, <3>4, <1>p
    <3> QED
      BY <3>5, <2>3
  <2>4. CASE RejectFrame(s)
    BY <2>4, <1>t, <1>o, <1>p, OpenShrinks DEF RejectFrame
  <2> QED
    BY <2>1, <2>2, <2>3, <2>4, <1>1 DEF Socket
<1>2. ASSUME NEW c \in Commands, Command(c)
      PROVE  UNCHANGED link
  BY <1>2 DEF Command, AskShell, RefuseBody, RefuseOffline, RefuseBusy,
              SendShell, Refuse, Resume, Timeout, ShellOutput
<1>3. ASSUME NEW u \in Uploads, Upload(u)
      PROVE  Open' \subseteq Open
  <2>1. CASE BeginUpload(u) \/ StoreUpload(u)
    BY <2>1, <1>c DEF BeginUpload, StoreUpload
  <2>2. CASE RefuseUpload(u)
    BY <2>2, <1>t, <1>o, <1>p, OpenShrinks DEF RefuseUpload
  <2> QED
    BY <2>1, <2>2, <1>3 DEF Upload
<1>4. ASSUME Owner
      PROVE  Open' \subseteq Open
  <2>1. CASE UpdateShadow
    BY <2>1, <1>t, <1>o, <1>p, OpenShrinks DEF UpdateShadow
  <2>2. CASE RefreshToken \/ Delete
    BY <2>2, <1>t, <1>p, OpenShrinks DEF RefreshToken, Delete
  <2>3. CASE DeletePartly
    BY <2>3, <1>c DEF DeletePartly
  <2> QED
    BY <2>1, <2>2, <2>3, <1>4 DEF Owner
<1>5. ASSUME Reset
      PROVE  Open' \subseteq Open
  <2>1. \A s \in Sockets: link'[s].state = "open" => link[s].state = "open"
    BY <1>5, <1>t DEF Reset, LinkType
  <2> QED
    BY <2>1, <1>o, <1>p
<1>6. CASE UNCHANGED vars
  BY <1>6, <1>c DEF vars
<1> QED
  BY <1>1, <1>2, <1>3, <1>4, <1>5, <1>6, <1>c DEF Next

(* The object never holds two open device sockets, however upgrades        *)
(* overlap across their fuse check, a refresh, a delete and a reset.       *)
THEOREM OneOpenHolds == Spec => []OneOpenSocket
<1>1. Init => OneOpenSocket
  BY DEF Init, OneOpenSocket, Open, InState, IdleLink
<1>2. ChannelTypeOK /\ OneOpenSocket /\ [Next]_vars => OneOpenSocket'
  BY WhoOpens DEF OneOpenSocket
<1> QED
  BY <1>1, <1>2, ChannelTypesHold, PTL DEF Spec

(* Each step keeps the waiters the commands still unresolved, and one.     *)
LEMMA WaitersStep ==
  ChannelTypeOK /\ WaitersServed /\ [Next]_vars => WaitersServed'
<1> SUFFICES ASSUME ChannelTypeOK, WaitersServed, [Next]_vars
             PROVE  WaitersServed'
  OBVIOUS
<1> DEFINE Unresolved(x) == x.pc = "waiting" /\ x.reply = "none"
<1>t. cmd \in [Commands -> CommandType] /\ waiters \subseteq Commands
  BY DEF ChannelTypeOK
<1>w. \A c \in Commands: c \in waiters <=> Unresolved(cmd[c])
  BY DEF WaitersServed
<1>x. \A c, d \in waiters: c = d
  BY DEF WaitersServed
<1>q. ASSUME waiters' \subseteq Commands,
             \A c \in Commands: c \in waiters' <=> Unresolved(cmd'[c]),
             \A c, d \in waiters': c = d
      PROVE  WaitersServed'
  BY <1>q DEF WaitersServed
<1>u. ASSUME UNCHANGED <<cmd, waiters>> PROVE WaitersServed'
  BY <1>u DEF WaitersServed
(* A command not waited for that ends or is refused.                       *)
<1>r. ASSUME NEW c \in Commands, NEW status \in Statuses,
             ~Unresolved(cmd[c]), Refuse(c, status)
      PROVE  WaitersServed'
  <2>1. ~Unresolved(cmd'[c])
    BY <1>r, <1>t DEF Refuse, Ended, CommandType
  <2>2. \A d \in Commands \ {c}: cmd'[d] = cmd[d]
    BY <1>r, <1>t DEF Refuse, Ended
  <2>3. waiters' = waiters
    BY <1>r DEF Refuse
  <2> QED
    BY <2>1, <2>2, <2>3, <1>r, <1>t, <1>w, <1>x, <1>q
<1>s. /\ 200 \in Statuses /\ 400 \in Statuses /\ 403 \in Statuses
      /\ 409 \in Statuses /\ 500 \in Statuses /\ 502 \in Statuses
      /\ 504 \in Statuses
  BY DEF Statuses
<1>1. ASSUME NEW s \in Sockets, Socket(s)
      PROVE  WaitersServed'
  <2>1. CASE SocketGone(s)
    <3>1. \A c \in Commands: ~Unresolved(cmd'[c])
      <4> SUFFICES ASSUME NEW c \in Commands PROVE ~Unresolved(cmd'[c])
        OBVIOUS
      <4>1. cmd'[c] =
              [cmd[c] EXCEPT !.reply = IF c \in waiters THEN "dropped" ELSE @]
        BY <2>1 DEF SocketGone, Dropped
      <4>2. CASE c \in waiters
        BY <4>1, <4>2, <1>t DEF CommandType
      <4>3. CASE c \notin waiters
        BY <4>1, <4>3, <1>t, <1>w DEF CommandType
      <4> QED
        BY <4>2, <4>3
    <3> QED
      BY <3>1, <2>1, <1>q DEF SocketGone
  <2>2. CASE ~SocketGone(s)
    BY <2>2, <1>1, <1>u DEF Socket, Connect, UpgradePaused, Accept, RejectFrame,
                            Shell
  <2> QED
    BY <2>1, <2>2
<1>2. ASSUME NEW c \in Commands, ShellOutput(c)
      PROVE  WaitersServed'
  <2>1. cmd' = [cmd EXCEPT ![c] =
          [@ EXCEPT !.reply = IF c \in waiters THEN "output" ELSE cmd[c].reply]]
    BY <1>2 DEF ShellOutput
  <2>2. ~Unresolved(cmd'[c])
    <3>1. CASE c \in waiters
      BY <2>1, <3>1, <1>t DEF CommandType
    <3>2. CASE c \notin waiters
      BY <2>1, <3>2, <1>t, <1>w DEF CommandType
    <3> QED
      BY <3>1, <3>2
  <2>3. \A d \in Commands \ {c}: cmd'[d] = cmd[d]
    BY <2>1, <1>t
  <2>4. waiters' = waiters \ {c}
    BY <1>2 DEF ShellOutput
  <2> QED
    BY <2>2, <2>3, <2>4, <1>t, <1>w, <1>x, <1>q
<1>3. ASSUME NEW c \in Commands, AskShell(c)
      PROVE  WaitersServed'
  <2>i. ~Unresolved(cmd[c])
    BY <1>3 DEF AskShell
  <2>1. CASE owned
    <3>1. /\ cmd' = [cmd EXCEPT ![c] = [@ EXCEPT !.pc = "reading"]]
          /\ waiters' = waiters
      BY <2>1, <1>3 DEF AskShell
    <3>2. ~Unresolved(cmd'[c])
      BY <3>1, <1>t DEF CommandType
    <3>3. \A d \in Commands \ {c}: cmd'[d] = cmd[d]
      BY <3>1, <1>t
    <3> QED
      BY <3>1, <3>2, <3>3, <2>i, <1>t, <1>w, <1>x, <1>q
  <2>2. CASE ~owned
    BY <2>2, <2>i, <1>3, <1>r, <1>s DEF AskShell
  <2> QED
    BY <2>1, <2>2
<1>4. ASSUME NEW c \in Commands,
             RefuseBody(c) \/ RefuseOffline(c) \/ RefuseBusy(c) \/ Resume(c)
      PROVE  WaitersServed'
  <2>i. ~Unresolved(cmd[c])
    BY <1>4 DEF RefuseBody, RefuseOffline, RefuseBusy, Resume
  <2>1. CASE RefuseBody(c)
    BY <2>1, <2>i, <1>r, <1>s DEF RefuseBody
  <2>2. CASE RefuseOffline(c) \/ RefuseBusy(c)
    BY <2>2, <2>i, <1>r, <1>s DEF RefuseOffline, RefuseBusy
  <2>3. CASE Resume(c)
    BY <2>3, <2>i, <1>r, <1>s DEF Resume
  <2> QED
    BY <2>1, <2>2, <2>3, <1>4
<1>5. ASSUME NEW c \in Commands, SendShell(c)
      PROVE  WaitersServed'
  <2>i. ~Unresolved(cmd[c]) /\ waiters = {}
    BY <1>5 DEF SendShell, Free
  <2>1. CASE Refuse(c, 500)
    BY <2>1, <2>i, <1>r, <1>s
  <2>2. CASE ~Refuse(c, 500)
    <3>1. PICK s: cmd' = [cmd EXCEPT ![c] =
                      [@ EXCEPT !.pc = "waiting", !.on = s, !.reply = "none"]]
      BY <2>2, <1>5 DEF SendShell
    <3>2. waiters' = {c}
      BY <2>2, <2>i, <1>5 DEF SendShell
    <3>3. \A d \in Commands \ {c}: cmd'[d] = cmd[d]
      BY <3>1, <1>t
    <3>5. Unresolved(cmd'[c])
      BY <3>1, <1>t DEF CommandType
    <3> QED
      BY <3>2, <3>3, <3>5, <2>i, <1>w, <1>q
  <2> QED
    BY <2>1, <2>2
<1>6. ASSUME NEW c \in Commands, Timeout(c)
      PROVE  WaitersServed'
  <2>1. cmd' = [cmd EXCEPT ![c] = [@ EXCEPT !.pc = "done", !.status = 504]]
    BY <1>6 DEF Timeout, Ended
  <2>2. ~Unresolved(cmd'[c])
    BY <2>1, <1>t DEF CommandType
  <2>3. \A d \in Commands \ {c}: cmd'[d] = cmd[d]
    BY <2>1, <1>t
  <2>4. waiters' = waiters \ {c}
    BY <1>6 DEF Timeout
  <2> QED
    BY <2>2, <2>3, <2>4, <1>t, <1>w, <1>x, <1>q
<1>7. CASE Reset
  <2>1. \A c \in Commands: cmd'[c].pc # "waiting"
    BY <1>7, <1>t DEF Reset, CommandType
  <2> QED
    BY <2>1, <1>7, <1>q DEF Reset
<1>8. ASSUME NEW u \in Uploads, Upload(u)
      PROVE  WaitersServed'
  BY <1>8, <1>u DEF Upload, BeginUpload, StoreUpload, RefuseUpload, Shell
<1>9. CASE Owner
  BY <1>9, <1>u DEF Owner, UpdateShadow, RefreshToken, Delete, DeletePartly, Shell
<1>10. CASE UNCHANGED vars
  BY <1>10, <1>u DEF vars
<1> QED
  BY <1>1, <1>2, <1>3, <1>4, <1>5, <1>6, <1>7, <1>8, <1>9, <1>10
     DEF Next, Command

(* shell_waiters never holds a command that is no longer waiting, so none  *)
(* blocks the next, and never two.                                         *)
THEOREM WaitersHold == Spec => []WaitersServed
<1>1. Init => WaitersServed
  BY DEF Init, WaitersServed, IdleCommand
<1> QED
  BY <1>1, WaitersStep, ChannelTypesHold, PTL DEF Spec

(* Each step leaves every open socket told the newest target, if no send   *)
(* fails: what is told changes with the target, or with the socket.        *)
LEMMA CurrentStep ==
  ASSUME "send" \notin Faults
  PROVE  ChannelTypeOK /\ OpenSocketCurrent /\ [Next]_vars => OpenSocketCurrent'
<1> SUFFICES ASSUME ChannelTypeOK, OpenSocketCurrent, [Next]_vars
             PROVE  OpenSocketCurrent'
  OBVIOUS
<1>t. link \in [Sockets -> LinkType]
  BY DEF ChannelTypeOK
<1>p. \A s: s \in Open' <=> s \in Sockets /\ link'[s].state = "open"
  BY DEF Open, InState
<1>o. \A s \in Sockets: s \in Open <=> link[s].state = "open"
  BY DEF Open, InState
(* A step that moves neither the target nor what open sockets were told.   *)
<1>k. ASSUME UNCHANGED target, token' # 0 => token # 0, Open' \subseteq Open,
             \A s \in Open': link'[s].told = link[s].told
      PROVE  OpenSocketCurrent'
  BY <1>k DEF OpenSocketCurrent
<1>u. ASSUME UNCHANGED <<token, target, link>> PROVE OpenSocketCurrent'
  BY <1>u DEF OpenSocketCurrent, Open, InState
<1>c. /\ \A s \in Sockets: CloseAll[s].state # "open"
      /\ \A t: \A s \in Sockets:
           /\ CloseOne(t)[s].state = "open" => link[s].state = "open"
           /\ CloseOne(t)[s].told = link[s].told
  BY <1>t DEF CloseAll, CloseOne, LinkType
<1>1. ASSUME NEW s \in Sockets, Socket(s)
      PROVE  OpenSocketCurrent'
  <2>d. UNCHANGED <<token, target>>
    BY <1>1 DEF Socket, Connect, UpgradePaused, Accept, RejectFrame, SocketGone, Data
  <2>1. CASE Connect(s)
    <3>1. link'[s].state # "open" /\ \A u \in Sockets \ {s}: link'[u] = link[u]
      BY <2>1, <1>t DEF Connect
    <3> QED
      BY <3>1, <2>d, <1>k, <1>o, <1>p
  <2>2. CASE UpgradePaused(s) \/ SocketGone(s)
    <3>1. link'[s].state # "open"
      BY <2>2, <1>t DEF UpgradePaused, SocketGone, LinkType
    <3>2. \A u \in Sockets \ {s}: link'[u] = link[u]
      BY <2>2, <1>t DEF UpgradePaused, SocketGone
    <3> QED
      BY <3>1, <3>2, <2>d, <1>k, <1>o, <1>p
  <2>3. CASE Accept(s)
    <3>1. PICK told \in Snapshot(s):
            link' = [CloseAll EXCEPT ![s] = [@ EXCEPT !.state = "open", !.told = told]]
      BY <2>3 DEF Accept
    <3>2. token # 0 => told = target
      BY SnapshotTold
    <3>3. CloseAll \in [Sockets -> LinkType]
      BY <1>t, LinksKeepShape
    <3>4. link'[s].told = told
      BY <3>1, <3>3 DEF LinkType
    <3>5. \A u \in Sockets \ {s}: link'[u].state # "open"
      BY <3>1, <3>3, <1>c
    <3> QED
      BY <3>2, <3>4, <3>5, <2>d, <1>p DEF OpenSocketCurrent
  <2>4. CASE RejectFrame(s)
    BY <2>4, <2>d, <1>c, <1>k, <1>o, <1>p DEF RejectFrame
  <2> QED
    BY <2>1, <2>2, <2>3, <2>4, <1>1 DEF Socket
<1>2. ASSUME NEW c \in Commands, Command(c)
      PROVE  OpenSocketCurrent'
  <2>1. UNCHANGED <<token, target, link>>
    BY <1>2 DEF Command, AskShell, RefuseBody, RefuseOffline, RefuseBusy,
                SendShell, Refuse, Resume, Timeout, ShellOutput, Data
  <2> QED
    BY <2>1, <1>u
<1>3. ASSUME NEW u \in Uploads, Upload(u)
      PROVE  OpenSocketCurrent'
  <2>1. CASE BeginUpload(u) \/ StoreUpload(u)
    BY <2>1, <1>u DEF BeginUpload, StoreUpload, Data
  <2>2. CASE RefuseUpload(u)
    BY <2>2, <1>c, <1>k, <1>o, <1>p DEF RefuseUpload, Data
  <2> QED
    BY <2>1, <2>2, <1>3 DEF Upload
<1>4. CASE UpdateShadow
  <2>1. link' = Told(target', Open)
    BY <1>4 DEF UpdateShadow, Reached
  <2>2. \A s \in Sockets:
          /\ link'[s].state = link[s].state
          /\ s \in Open => link'[s].told = target'
    BY <2>1, <1>t DEF Told, LinkType
  <2> QED
    BY <2>2, <1>o, <1>p DEF OpenSocketCurrent
<1>5. CASE RefreshToken \/ Delete
  <2>1. Open' = {}
    BY <1>5, <1>c, <1>p DEF RefreshToken, Delete
  <2> QED
    BY <2>1 DEF OpenSocketCurrent
<1>6. CASE DeletePartly
  BY <1>6, <1>u DEF DeletePartly
<1>7. CASE Reset
  <2>1. PICK gone \in {{}, Live}:
          link' = [s \in Sockets |->
            [link[s] EXCEPT !.state = IF @ = "checking" THEN "refused"
                                      ELSE IF s \in gone THEN "closed" ELSE @]]
    BY <1>7 DEF Reset
  <2>2. \A s \in Sockets: link'[s].state = "open" => link[s].state = "open"
    BY <2>1, <1>t DEF LinkType
  <2>3. \A s \in Sockets: link'[s].told = link[s].told
    BY <2>1, <1>t DEF LinkType
  <2> QED
    BY <2>2, <2>3, <1>7, <1>k, <1>o, <1>p DEF Reset, Data
<1>8. CASE UNCHANGED vars
  BY <1>8, <1>u DEF vars
<1> QED
  BY <1>1, <1>2, <1>3, <1>4, <1>5, <1>6, <1>7, <1>8 DEF Next, Owner

(* Where every send works, an open socket has been sent the newest target, *)
(* however the dashboard's writes fall around its upgrade.                 *)
THEOREM CurrentHolds ==
  ASSUME "send" \notin Faults
  PROVE  Spec => []OpenSocketCurrent
<1>1. Init => OpenSocketCurrent
  <2>1. Init => Open = {}
    BY DEF Init, Open, InState, IdleLink
  <2> QED
    BY <2>1 DEF OpenSocketCurrent
<1> QED
  BY <1>1, CurrentStep, ChannelTypesHold, PTL DEF Spec

-----------------------------------------------------------------------------
(* The relay.                                                              *)

(* A command reads as sent exactly while its waiter stands.                *)
LEMMA SentIsWaiting ==
  ASSUME ChannelTypeOK, WaitersServed
  PROVE  /\ Relay!Outstanding = waiters
         /\ \A c \in Commands: Phases[c] = "sent" <=> c \in waiters
<1>1. \A c \in Commands:
        cmd[c] \in CommandType
  BY DEF ChannelTypeOK
<1>2. \A c \in Commands: PhaseOf(c) = "sent"
        <=> cmd[c].pc = "waiting" /\ cmd[c].reply = "none"
  BY <1>1 DEF CommandType, PhaseOf
<1>3. \A c \in Commands: Phases[c] = "sent" <=> c \in waiters
  BY <1>2 DEF Phases, WaitersServed
<1> QED
  BY <1>3 DEF Relay!Outstanding, ChannelTypeOK

(* A step that leaves the commands alone is no step of the relay.          *)
LEMMA CommandsStand ==
  ASSUME cmd' = cmd
  PROVE  UNCHANGED <<Phases, Answers>>
BY DEF Phases, Answers, PhaseOf, AnswerOf

(* A step that takes one command elsewhere without answering it moves it   *)
(* alone.                                                                  *)
LEMMA CommandMoves ==
  ASSUME ChannelTypeOK, NEW c \in Commands,
         NEW x \in CommandType, cmd' = [cmd EXCEPT ![c] = x],
         x.status = cmd[c].status
  PROVE  Relay!Move(c, PhaseOf(c), PhaseOf(c)')
<1>1. /\ cmd'[c] = x
      /\ \A d \in Commands \ {c}: cmd'[d] = cmd[d]
  BY DEF ChannelTypeOK
<1>2. \A d \in Commands \ {c}: PhaseOf(d)' = PhaseOf(d)
  BY <1>1 DEF PhaseOf
<1>3. Phases' = [Phases EXCEPT ![c] = PhaseOf(c)']
  BY <1>2 DEF Phases
<1>4. \A d \in Commands: cmd'[d].status = cmd[d].status
  BY <1>1
<1>5. Answers' = Answers
  BY <1>4 DEF Answers, AnswerOf
<1> QED
  BY <1>3, <1>5 DEF Relay!Move, Phases

(* Refuse answers its command and no other.                                *)
LEMMA RefuseAnswers ==
  ASSUME ChannelTypeOK, NEW c \in Commands, NEW status \in Statuses,
         cmd' = Ended(c, status)
  PROVE  Relay!Answer({c}, AnswerOf(status))
<1>1. /\ cmd'[c].pc = "done" /\ cmd'[c].status = status
      /\ \A d \in Commands \ {c}: cmd'[d] = cmd[d]
  BY DEF ChannelTypeOK, Ended, CommandType
<1>2. \A d \in Commands \ {c}: PhaseOf(d)' = PhaseOf(d)
  BY <1>1 DEF PhaseOf
<1>3. PhaseOf(c)' = "answered"
  BY <1>1 DEF PhaseOf
<1>4. Phases' = [d \in Commands |-> IF d \in {c} THEN "answered" ELSE Phases[d]]
  BY <1>2, <1>3 DEF Phases
<1>5. \A d \in Commands: AnswerOf(cmd[d].status)'
        = IF d \in {c} THEN AnswerOf(status) ELSE AnswerOf(cmd[d].status)
  BY <1>1 DEF AnswerOf
<1>6. Answers' = [d \in Commands |->
                   IF d \in {c} THEN AnswerOf(status) ELSE Answers[d]]
  BY <1>5 DEF Answers
<1> QED
  BY <1>4, <1>6 DEF Relay!Answer

(* Each step of the object is one of the relay's, or none.                 *)
LEMMA RelayStep ==
  ChannelTypeOK /\ WaitersServed /\ [Next]_vars
    => [Relay!Next]_<<Phases, Answers>>
<1> SUFFICES ASSUME ChannelTypeOK, WaitersServed, [Next]_vars
             PROVE  Relay!Next \/ UNCHANGED <<Phases, Answers>>
  OBVIOUS
<1>t. /\ cmd \in [Commands -> CommandType] /\ waiters \subseteq Commands
      /\ \A c \in Commands: Phases[c] = PhaseOf(c)
  BY DEF ChannelTypeOK, Phases
<1>a. /\ \A s \in {400, 403, 409}: s \in Statuses /\ AnswerOf(s) = "refused"
      /\ {200, 500, 502, 504} \subseteq Statuses
      /\ AnswerOf(200) = "output" /\ AnswerOf(500) = "failed"
      /\ AnswerOf(502) = "lost" /\ AnswerOf(504) = "late"
  BY DEF Statuses, AnswerOf
<1>r. \A c \in Commands: \A status \in Statuses:
        Refuse(c, status) => Relay!Answer({c}, AnswerOf(status))
  BY RefuseAnswers DEF Refuse
<1>p. \A c \in Commands:
        /\ cmd[c].pc = "idle" => PhaseOf(c) = "new"
        /\ cmd[c].pc = "reading" => PhaseOf(c) = "asked"
        /\ cmd[c].pc = "waiting" /\ cmd[c].reply = "output" => PhaseOf(c) = "heard"
        /\ cmd[c].pc = "waiting" /\ cmd[c].reply = "dropped" => PhaseOf(c) = "cut"
        /\ cmd[c].pc = "waiting" /\ cmd[c].reply = "none" => PhaseOf(c) = "sent"
        /\ cmd[c].pc = "done" => PhaseOf(c) = "answered"
  BY <1>t DEF CommandType, PhaseOf
<1>1. ASSUME NEW c \in Commands, AskShell(c)
      PROVE  Relay!Next
  <2>1. CASE owned
    <3>1. /\ cmd' = [cmd EXCEPT ![c] = [cmd[c] EXCEPT !.pc = "reading"]]
          /\ cmd[c].pc = "idle"
      BY <1>1, <2>1 DEF AskShell
    <3>2. [cmd[c] EXCEPT !.pc = "reading"] \in CommandType
      BY <1>t, CommandSteps
    <3>3. [cmd[c] EXCEPT !.pc = "reading"].status = cmd[c].status
      BY <1>t DEF CommandType
    <3>4. PhaseOf(c)' = "asked"
      BY <3>1, <1>t DEF PhaseOf, CommandType
    <3> QED
      BY <1>p, <3>1, <3>2, <3>3, <3>4, CommandMoves DEF Relay!Next, Relay!Ask
  <2>2. CASE ~owned
    BY <1>1, <2>2, <1>a, <1>p, <1>r, <1>t DEF AskShell, Relay!Next, Relay!Refuse
  <2> QED
    BY <2>1, <2>2
<1>2. ASSUME NEW c \in Commands,
             RefuseBody(c) \/ RefuseOffline(c) \/ RefuseBusy(c)
      PROVE  Relay!Next
  <2>1. cmd[c].pc = "reading" /\ (Refuse(c, 400) \/ Refuse(c, 409))
    BY <1>2 DEF RefuseBody, RefuseOffline, RefuseBusy
  <2> QED
    BY <2>1, <1>a, <1>p, <1>r, <1>t DEF Relay!Next, Relay!Refuse
<1>3. ASSUME NEW c \in Commands, SendShell(c)
      PROVE  Relay!Next
  <2>1. cmd[c].pc = "reading" /\ waiters = {}
    BY <1>3 DEF SendShell, Free
  <2>2. CASE Refuse(c, 500)
    BY <2>1, <2>2, <1>a, <1>p, <1>r, <1>t DEF Relay!Next, Relay!SendFails
  <2>3. CASE ~Refuse(c, 500)
    <3>1. PICK s \in Sockets:
            cmd' = [cmd EXCEPT ![c] = [cmd[c] EXCEPT !.pc = "waiting", !.on = s,
                                                     !.reply = "none"]]
      BY <1>3, <2>3 DEF SendShell, Listings, Open, Live, InState
    <3> DEFINE x == [cmd[c] EXCEPT !.pc = "waiting", !.on = s, !.reply = "none"]
    <3>2. x \in CommandType
      BY <1>t, CommandSteps
    <3>3. x.status = cmd[c].status /\ x.pc = "waiting" /\ x.reply = "none"
      BY <1>t DEF CommandType
    <3>4. cmd'[c] = x
      BY <3>1, <1>t
    <3>5. PhaseOf(c)' = "sent"
      BY <3>3, <3>4 DEF PhaseOf
    <3>6. Relay!Outstanding = {}
      BY <2>1, SentIsWaiting
    <3> HIDE DEF x
    <3> QED
      BY <2>1, <1>p, <3>1, <3>2, <3>3, <3>5, <3>6, CommandMoves
      DEF Relay!Next, Relay!Send, x
  <2> QED
    BY <2>2, <2>3
<1>4. ASSUME NEW c \in Commands, Resume(c)
      PROVE  Relay!Next
  <2>1. /\ cmd[c].pc = "waiting" /\ cmd[c].reply \in {"output", "dropped"}
        /\ Refuse(c, IF cmd[c].reply = "output" THEN 200 ELSE 502)
    BY <1>4, <1>t DEF Resume, CommandType
  <2> QED
    BY <2>1, <1>a, <1>p, <1>r, <1>t DEF Relay!Next, Relay!Deliver, Relay!Disconnected
<1>5. ASSUME NEW c \in Commands, Timeout(c)
      PROVE  Relay!Next
  <2>1. cmd[c].pc = "waiting" /\ cmd' = Ended(c, 504)
    BY <1>5 DEF Timeout
  <2>2. PhaseOf(c) \in {"sent", "heard", "cut"}
    BY <2>1, <1>p, <1>t DEF CommandType
  <2> QED
    BY <2>1, <2>2, <1>a, <1>t, RefuseAnswers DEF Relay!Next, Relay!TimeOut
<1>6. ASSUME NEW c \in Commands, ShellOutput(c)
      PROVE  Relay!Next \/ cmd' = cmd
  <2>1. cmd' = [cmd EXCEPT ![c] =
          [cmd[c] EXCEPT !.reply = IF c \in waiters THEN "output" ELSE cmd[c].reply]]
    BY <1>6 DEF ShellOutput
  <2>2. CASE c \in waiters
    <3> DEFINE x == [cmd[c] EXCEPT !.reply = "output"]
    <3>1. x \in CommandType
      BY <1>t, CommandSteps
    <3>2. x.status = cmd[c].status /\ x.pc = "waiting" /\ x.reply = "output"
      BY <1>t, <2>2 DEF CommandType, WaitersServed
    <3>3. cmd' = [cmd EXCEPT ![c] = x] /\ cmd'[c] = x
      BY <2>1, <2>2, <1>t
    <3>4. PhaseOf(c)' = "heard"
      BY <3>2, <3>3 DEF PhaseOf
    <3>5. PhaseOf(c) = "sent"
      BY <2>2, <1>p DEF WaitersServed
    <3> HIDE DEF x
    <3> QED
      BY <3>1, <3>2, <3>3, <3>4, <3>5, CommandMoves DEF Relay!Next, Relay!Hear
  <2>3. CASE c \notin waiters
    BY <2>1, <2>3, <1>t DEF CommandType
  <2> QED
    BY <2>2, <2>3
<1>7. ASSUME NEW s \in Sockets, SocketGone(s)
      PROVE  Relay!Next \/ cmd' = cmd
  <2>1. cmd' = Dropped
    BY <1>7 DEF SocketGone
  <2>2. CASE waiters = {}
    <3>1. \A c \in Commands:
            [cmd[c] EXCEPT !.reply = cmd[c].reply] = cmd[c]
      BY <1>t DEF CommandType
    <3>2. \A c \in Commands: Dropped[c] = cmd[c]
      BY <2>2, <3>1 DEF Dropped
    <3> QED
      BY <2>1, <3>2, <1>t DEF Dropped
  <2>3. CASE waiters # {}
    <3>1. PICK c \in Commands: waiters = {c}
      BY <2>3, <1>t DEF WaitersServed
    <3> DEFINE x == [cmd[c] EXCEPT !.reply = "dropped"]
    <3>2. \A d \in Commands \ {c}: cmd'[d] = cmd[d]
      BY <2>1, <3>1, <1>t DEF Dropped, CommandType
    <3>3. cmd'[c] = x
      BY <2>1, <3>1, <1>t DEF Dropped, CommandType
    <3>4. x \in CommandType
      BY <1>t, CommandSteps
    <3>5. x.status = cmd[c].status /\ x.pc = "waiting" /\ x.reply = "dropped"
      BY <1>t, <3>1 DEF CommandType, WaitersServed
    <3>6. PhaseOf(c)' = "cut"
      BY <3>3, <3>5 DEF PhaseOf
    <3>7. PhaseOf(c) = "sent"
      BY <3>1, <1>p DEF WaitersServed
    <3> HIDE DEF x
    <3>8. cmd' = [cmd EXCEPT ![c] = x]
      BY <2>1, <3>2, <3>3, <1>t DEF Dropped
    <3> QED
      BY <3>4, <3>5, <3>6, <3>7, <3>8, CommandMoves DEF Relay!Next, Relay!Cut
  <2> QED
    BY <2>2, <2>3
<1>8. CASE Reset
  <2> DEFINE gone == {c \in Commands : Phases[c] \in Relay!Pending}
  <2>1. cmd' = [c \in Commands |->
          IF cmd[c].pc \in {"reading", "waiting"}
          THEN [cmd[c] EXCEPT !.pc = "done", !.status = 500] ELSE cmd[c]]
    BY <1>8 DEF Reset
  <2>2. \A c \in Commands: c \in gone <=> cmd[c].pc \in {"reading", "waiting"}
    BY <1>p, <1>t DEF CommandType, Relay!Pending
  <2>3. ASSUME NEW c \in gone
        PROVE  cmd'[c].pc = "done" /\ cmd'[c].status = 500
    <3>1. c \in Commands /\ cmd[c] \in CommandType
      BY <1>t
    <3>2. cmd'[c] = [cmd[c] EXCEPT !.pc = "done", !.status = 500]
      BY <2>1, <2>2, <3>1
    <3> QED
      BY <3>1, <3>2 DEF CommandType
  <2>4. \A c \in Commands \ gone: cmd'[c] = cmd[c]
    BY <2>1, <2>2
  <2> HIDE DEF gone
  <2>5. \A c \in Commands:
          /\ PhaseOf(c)' = IF c \in gone THEN "answered" ELSE PhaseOf(c)
          /\ AnswerOf(cmd[c].status)'
               = IF c \in gone THEN AnswerOf(500) ELSE AnswerOf(cmd[c].status)
    BY <2>3, <2>4 DEF PhaseOf, AnswerOf
  <2>6. /\ Phases' = [c \in Commands |->
                       IF c \in gone THEN "answered" ELSE Phases[c]]
        /\ Answers' = [c \in Commands |->
                        IF c \in gone THEN "failed" ELSE Answers[c]]
    BY <2>5, <1>a DEF Phases, Answers
  <2> QED
    BY <2>6 DEF Relay!Next, Relay!Abandon, Relay!Answer, gone
<1>9. CASE UNCHANGED vars
  BY <1>9, CommandsStand DEF vars
<1>10. ASSUME \/ Owner
              \/ \E u \in Uploads: Upload(u)
              \/ \E s \in Sockets: Socket(s) /\ ~SocketGone(s)
       PROVE  cmd' = cmd
  BY <1>10 DEF Owner, UpdateShadow, RefreshToken, Delete, DeletePartly, Upload,
    BeginUpload, StoreUpload, RefuseUpload, EndUpload, Socket, Connect,
    UpgradePaused, Accept, RejectFrame, Shell
<1> QED
  BY <1>1, <1>2, <1>3, <1>4, <1>5, <1>6, <1>7, <1>8, <1>9, <1>10, CommandsStand
  DEF Next, Command, Socket

(* For every number of sockets and commands, and whatever fails, dashboards *)
(* see the relay ShellRelay promises.                                      *)
THEOREM RelayImplemented == Spec => ImplementsRelay
<1>1. Init => Relay!Init
  BY DEF Init, IdleCommand, Relay!Init, Phases, PhaseOf, Answers, AnswerOf
<1> QED
  BY <1>1, RelayStep, ChannelTypesHold, WaitersHold, PTL
  DEF Spec, ImplementsRelay, Relay!Spec
=============================================================================
