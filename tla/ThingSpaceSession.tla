-------------------------- MODULE ThingSpaceSession --------------------------
(***************************************************************************)
(* The one object of an environment that holds Verizon's tokens and sends  *)
(* downlinks.  Verizon locks the account after failed logins, so a login   *)
(* is made by one request at a time and stops after two failures of the    *)
(* present credentials.  An action runs from one answer of Verizon to the  *)
(* next call: the object lets nothing in while it reads or writes storage. *)
(***************************************************************************)
EXTENDS Integers, FiniteSets

CONSTANTS
  Senders,          \* requests that may be in the object together
  NoSender,
  Faults,           \* which of "read", "store", "cacheRead", "cacheWrite", "reset", "credentials" may happen
  SessionIdle,      \* a session is reused while it was used this recently
  VerizonIdle,      \* Verizon ends a session after this long
  AccessMargin, AccessLife,
  MaxTime, MaxSessions,
  MaxLost           \* how many failed logins may go unrecorded

LOGIN_FAILURE_LIMIT == 2

ASSUME SessionAssumption ==
  /\ NoSender \notin Senders
  /\ {SessionIdle, VerizonIdle, AccessMargin, AccessLife} \subseteq Nat \ {0}
  /\ {MaxTime, MaxSessions, MaxLost} \subseteq Nat

\* A session is dropped five minutes before Verizon drops it, which is more than
\* two slots, and an access token lasts beyond the slot it was asked for in.
ASSUME WindowsAssumption == SessionIdle + 2 <= VerizonIdle /\ 2 <= AccessLife

VARIABLES
  now,        \* in slots that a request with all its calls and waits fits into
  tokens,     \* storage: the cached tokens
  failures,   \* storage: the failed logins, and whether of the present credentials
  flight,     \* who holds the login mutex
  req,        \* the requests in the object
  used,       \* Verizon: when each session was last used
  strikes,    \* Verizon: failed session logins since the last that succeeded
  mails,      \* latch emails of the present credentials
  lost,       \* history: failed logins that were not recorded
  spared      \* history: a run without a session login cleared the count

session_vars == <<now, tokens, failures, flight, req, used, strikes, mails, lost, spared>>
History == <<mails, lost, spared>>

----------------------------------------------------------------------------

Empty == [expires |-> 0, session |-> 0, at |-> 0]
Tokens == [expires : 0..MaxTime + AccessLife, session : 0..MaxSessions, at : 0..MaxTime]
Idle == [phase |-> "idle"]
Requests == [phase : {"wait", "oauth", "login", "mail", "send"}, at : 0..MaxTime, own : Tokens,
             held : 0..LOGIN_FAILURE_LIMIT, again : BOOLEAN, retried : BOOLEAN]

\* Mutant of AccessFresh: no margin.
AccessUnexpired(t, at) == at < t.expires

AccessFresh(t, at) == at < t.expires - AccessMargin
SessionFresh(t, at) == t.session # 0 /\ at - t.at < SessionIdle
Fresh(t, at) == AccessFresh(t, at) /\ SessionFresh(t, at)

NoFailures == [ours |-> FALSE, count |-> 0]
Held == IF failures.ours THEN failures.count ELSE 0
Latched == Held >= LOGIN_FAILURE_LIMIT

\* A read of the count: what it holds of these credentials, or -1 when it fails.
CountRead == {Held} \cup (IF "read" \in Faults THEN {-1} ELSE {})

\* Mutant of LoginGate: a failed read is no count.
LoginGateOpen(count) == count < LOGIN_FAILURE_LIMIT

\* A login may go ahead below the limit, and never on a failed read.
LoginGate(count) == count \in 0..LOGIN_FAILURE_LIMIT - 1

\* A failed read of the cache is an empty cache.
Cached(store) == {store} \cup (IF "cacheRead" \in Faults THEN {Empty} ELSE {})
Caches(t, store) == {t} \cup (IF "cacheWrite" \in Faults THEN {store} ELSE {})

\* Mutant of CountAfterRun: every failure is a first one.
CountFromOne(held, verdict) ==
  IF verdict = "none" THEN 0
  ELSE IF verdict = "latch" THEN LOGIN_FAILURE_LIMIT
  ELSE IF verdict = "count" THEN 1
  ELSE held

CountAfterRun(held, verdict) ==
  IF verdict = "none" THEN 0
  ELSE IF verdict = "latch" THEN LOGIN_FAILURE_LIMIT
  ELSE IF verdict = "count" THEN held + 1
  ELSE held

Struck == IF strikes < LOGIN_FAILURE_LIMIT + MaxLost + 1 THEN strikes + 1 ELSE strikes

----------------------------------------------------------------------------
(* ensure_tokens. *)

Send(t, at, retried) ==
  [phase |-> "send", at |-> at, own |-> t, held |-> 0, again |-> FALSE, retried |-> retried]

\* With the mutex: the tokens another request may have brought, the latch, or a login.
Locked(s, store, at, retried) ==
  \E t \in Cached(store) :
    IF Fresh(t, at)
      THEN req' = [req EXCEPT ![s] = Send(t, at, retried)] /\ flight' = NoSender
      ELSE \E count \in CountRead :
             IF LoginGate(count)
               THEN /\ flight' = s
                    /\ req' = [req EXCEPT ![s] =
                         [phase |-> IF AccessFresh(t, at) THEN "login" ELSE "oauth", at |-> at, own |-> t,
                          held |-> IF count > 0 THEN count ELSE 0, again |-> FALSE, retried |-> retried]]
               ELSE req' = [req EXCEPT ![s] = Idle] /\ flight' = NoSender

EnsureTokens(s, store, retried) ==
  \E t \in Cached(store) :
    IF Fresh(t, now)
      THEN req' = [req EXCEPT ![s] = Send(t, now, retried)] /\ UNCHANGED flight
      ELSE IF flight = NoSender THEN Locked(s, store, now, retried)
      ELSE /\ req' = [req EXCEPT ![s] = [Send(Empty, now, retried) EXCEPT !.phase = "wait"]]
           /\ UNCHANGED flight

Begin(s) ==
  /\ req[s] = Idle
  /\ EnsureTokens(s, tokens, FALSE)
  /\ UNCHANGED <<now, tokens, failures, used, strikes, History>>

\* Judged by the clock of before the wait.
Enter(s) ==
  /\ req[s].phase = "wait" /\ flight = NoSender
  /\ Locked(s, tokens, req[s].at, req[s].retried)
  /\ UNCHANGED <<now, tokens, failures, used, strikes, History>>

\* The count a run leaves, unless its write fails.
StoreFailures(held, count) ==
  \/ /\ failures' = IF count = held THEN failures
                    ELSE IF count = 0 THEN NoFailures ELSE [ours |-> TRUE, count |-> count]
     /\ UNCHANGED lost
  \/ /\ "store" \in Faults /\ count # held /\ lost < MaxLost
     /\ lost' = lost + 1
     /\ UNCHANGED failures

\* A run that got its tokens clears the count, caches them and sends.
RunEnds(s, t) ==
  /\ StoreFailures(req[s].held, CountAfterRun(req[s].held, "none"))
  /\ tokens' \in Caches(t, tokens)
  /\ req' = [req EXCEPT ![s] = Send(t, req[s].at, req[s].retried)]
  /\ flight' = NoSender

\* A run that failed ends in the latch's email or in a refusal.
RunFails(s, verdict) ==
  LET count == CountAfterRun(req[s].held, verdict) IN
  /\ StoreFailures(req[s].held, count)
  /\ IF count >= LOGIN_FAILURE_LIMIT
       THEN req' = [req EXCEPT ![s].phase = "mail"] /\ UNCHANGED flight
       ELSE req' = [req EXCEPT ![s] = Idle] /\ flight' = NoSender
  /\ UNCHANGED <<now, tokens, used, mails, spared>>

\* The access token comes; a session that is still fresh is kept, but not after a bearer fault.
OAuthAnswers(s) ==
  /\ req[s].phase = "oauth"
  /\ LET t == [req[s].own EXCEPT !.expires = req[s].at + AccessLife] IN
     IF ~req[s].again /\ SessionFresh(t, req[s].at)
       THEN /\ RunEnds(s, t)
            /\ spared' = (spared \/ req[s].held > 0)
       ELSE /\ req' = [req EXCEPT ![s].phase = "login", ![s].own = t]
            /\ UNCHANGED <<tokens, failures, flight, lost, spared>>
  /\ UNCHANGED <<now, used, strikes, mails>>

OAuthFails(s) ==
  /\ req[s].phase = "oauth"
  /\ \E verdict \in {"latch", "count", "exempt"} : RunFails(s, verdict)
  /\ UNCHANGED strikes

\* Sessions are numbered in the order Verizon gives them.
Issued == {n \in 1..MaxSessions : used[n] >= 0}

LoginAnswers(s) ==
  /\ req[s].phase = "login"
  /\ \E n \in 1..MaxSessions :
       /\ Issued = 1..n - 1
       /\ used' = [used EXCEPT ![n] = now]
       /\ RunEnds(s, [req[s].own EXCEPT !.session = n, !.at = req[s].at])
  /\ strikes' = 0
  /\ UNCHANGED <<now, mails, spared>>

\* The bearer is at fault, not the password: once more, with another access token.
BearerFault(s) ==
  /\ req[s].phase = "login" /\ ~req[s].again
  /\ req' = [req EXCEPT ![s].phase = "oauth", ![s].again = TRUE]
  /\ UNCHANGED <<now, tokens, failures, flight, used, strikes, History>>

LoginFails(s) ==
  /\ req[s].phase = "login"
  /\ \/ /\ \E verdict \in {"latch", "count"} : RunFails(s, verdict)
        /\ strikes' = Struck
     \/ RunFails(s, "exempt") /\ UNCHANGED strikes

MailLatch(s) ==
  /\ req[s].phase = "mail"
  /\ mails' = mails + 1
  /\ req' = [req EXCEPT ![s] = Idle] /\ flight' = NoSender
  /\ UNCHANGED <<now, tokens, failures, used, strikes, lost, spared>>

----------------------------------------------------------------------------
(* send_route. *)

\* Whatever session is cached by now is taken to have been used.
Touched(t) == [t EXCEPT !.at = now]

Sent(s) ==
  /\ req[s].phase = "send"
  /\ used' = [used EXCEPT ![req[s].own.session] = now]
  /\ \E t \in Cached(tokens) : tokens' \in Caches(Touched(t), tokens)
  /\ req' = [req EXCEPT ![s] = Idle]
  /\ UNCHANGED <<now, failures, flight, strikes, History>>

\* A token Verizon found stale is dropped, and the message sent once more.
Rejected(s) ==
  /\ req[s].phase = "send" /\ ~req[s].retried
  /\ \E t \in Cached(tokens) :
       \/ tokens' \in Caches([t EXCEPT !.expires = 0], tokens)
       \/ tokens' \in Caches([t EXCEPT !.session = 0, !.at = 0], tokens)
  /\ EnsureTokens(s, tokens', TRUE)
  /\ UNCHANGED <<now, failures, used, strikes, History>>

\* Refused, unreachable, or rejected again.
SendFails(s) ==
  /\ req[s].phase = "send"
  /\ req' = [req EXCEPT ![s] = Idle]
  /\ UNCHANGED <<now, tokens, failures, flight, used, strikes, History>>

----------------------------------------------------------------------------

\* A request with its calls and waits is done within a slot of its clock.
Tick ==
  /\ now < MaxTime
  /\ \A s \in Senders : req[s] # Idle => req[s].at = now
  /\ now' = now + 1
  /\ UNCHANGED <<tokens, failures, flight, req, used, strikes, History>>

Forgotten == req' = [s \in Senders |-> Idle] /\ flight' = NoSender

\* The object restarts; a login it was waiting for may have failed at Verizon.
Reset ==
  /\ "reset" \in Faults /\ Forgotten
  /\ \/ UNCHANGED <<strikes, lost>>
     \/ /\ \E s \in Senders : req[s].phase = "login"
        /\ lost < MaxLost
        /\ strikes' = Struck /\ lost' = lost + 1
  /\ UNCHANGED <<now, tokens, failures, used, mails, spared>>

\* A changed secret or a bumped epoch: a new version of the object, and a new count.
ChangeCredentials ==
  /\ "credentials" \in Faults /\ Forgotten
  /\ failures' = [failures EXCEPT !.ours = FALSE]
  /\ strikes' = 0 /\ mails' = 0 /\ lost' = 0 /\ spared' = FALSE
  /\ UNCHANGED <<now, tokens, used>>

Init ==
  /\ now = 0 /\ tokens = Empty /\ failures = NoFailures
  /\ flight = NoSender /\ req = [s \in Senders |-> Idle]
  /\ used = [n \in 1..MaxSessions |-> -1]
  /\ strikes = 0 /\ mails = 0 /\ lost = 0 /\ spared = FALSE

Next ==
  \/ \E s \in Senders :
       \/ Begin(s) \/ Enter(s)
       \/ OAuthAnswers(s) \/ OAuthFails(s) \/ LoginAnswers(s) \/ BearerFault(s) \/ LoginFails(s) \/ MailLatch(s)
       \/ Sent(s) \/ Rejected(s) \/ SendFails(s)
  \/ Tick \/ Reset \/ ChangeCredentials

Spec == Init /\ [][Next]_session_vars

----------------------------------------------------------------------------

\* Once the latch holds only changed credentials open it, whichever reads and writes fail and
\* however requests overlap (thingspace.rs login_gate, store_failures).
LatchStands == [][Latched => failures'.count >= LOGIN_FAILURE_LIMIT]_session_vars

\* Verizon sees no more failed logins in a row than the limit and the records that were lost, and
\* the latch mails once, unless a run that did not log in cleared the count
\* (thingspace.rs ensure_tokens, count_after_run, report_latch).
StrikesBounded ==
  /\ ~spared => strikes <= LOGIN_FAILURE_LIMIT + lost
  /\ mails <= 1 + lost

\* A message is sent with a session Verizon has not let idle out and a token that has not
\* expired, though the session's time is judged before the waits and stamped by whichever send
\* succeeded last; unless a write of the cache failed, and what was to be replaced is stamped
\* (thingspace.rs ensure_tokens, touch_session, write_tokens).
HeldAtVerizon ==
  \A s \in Senders : "cacheWrite" \notin Faults /\ req[s].phase = "send" =>
    /\ now < req[s].own.expires
    /\ now - used[req[s].own.session] < VerizonIdle
=============================================================================
