---------------------- MODULE ThingSpaceSession_proofs ----------------------
(***************************************************************************)
(* What the login latch and the cached tokens of ThingSpaceSession         *)
(* promise, for every number of requests, whichever reads and writes fail. *)
(***************************************************************************)
EXTENDS ThingSpaceSession, TLAPS

Typed ==
  /\ now \in 0..MaxTime
  /\ tokens \in Tokens
  /\ failures \in [ours : BOOLEAN, count : 0..LOGIN_FAILURE_LIMIT]
  /\ flight \in Senders \cup {NoSender}
  /\ req \in [Senders -> {Idle} \cup Requests]
  /\ strikes \in Nat /\ mails \in Nat /\ lost \in Nat /\ spared \in BOOLEAN

\* The mutex is held exactly by the run that logs in or mails.
Exclusive == \A s \in Senders : req[s].phase \in {"oauth", "login", "mail"} <=> flight = s

\* What a run read of the count is what the storage still holds, and lets it log in.
HeldIsStored ==
  \A s \in Senders : req[s].phase \in {"oauth", "login"} => req[s].held = Held /\ Held < LOGIN_FAILURE_LIMIT

\* Every strike at Verizon is in the count, or was lost on the way there.
Counted == ~spared => strikes <= Held + lost

\* An email is for a latch that stands or for one that was not recorded.
Mailed ==
  /\ mails <= 1 + lost
  /\ ~Latched => mails <= lost
  /\ \A s \in Senders : req[s].phase = "mail" => mails <= lost /\ (~Latched => mails + 1 <= lost)

IInv == Typed /\ Exclusive /\ HeldIsStored /\ Counted /\ Mailed

----------------------------------------------------------------------------
(* What the parts of a step return. *)

\* The tokens of an empty cache are tokens.
LEMMA EmptyTyped == Empty \in Tokens
  BY SessionAssumption DEF Empty, Tokens

\* A request that sends is a request.
LEMMA SendTyped ==
  ASSUME NEW t \in Tokens, NEW at \in 0..MaxTime, NEW retried \in BOOLEAN
  PROVE  /\ Send(t, at, retried) \in Requests
         /\ Send(t, at, retried).phase = "send"
         /\ [Send(t, at, retried) EXCEPT !.phase = "wait"] \in Requests
         /\ [Send(t, at, retried) EXCEPT !.phase = "wait"].phase = "wait"
<1> DEFINE r == Send(t, at, retried)
<1>1. r \in Requests /\ r.phase = "send"
  BY DEF Send, Requests, LOGIN_FAILURE_LIMIT
<1> HIDE DEF r
<1>2. [r EXCEPT !.phase = "wait"] \in Requests /\ [r EXCEPT !.phase = "wait"].phase = "wait"
  BY <1>1 DEF Requests
<1> QED BY <1>1, <1>2 DEF r

\* A request that rests is in no phase of a run.
LEMMA IdlePhase == Idle.phase = "idle"
  BY DEF Idle

\* With the mutex free, a request leaves ensure_tokens with tokens, refused, or holding the
\* mutex with the count it read, below the limit.
LEMMA LockedOutcome ==
  ASSUME Typed, NEW s \in Senders, NEW store \in Tokens, NEW at \in 0..MaxTime, NEW retried \in BOOLEAN,
         Locked(s, store, at, retried)
  PROVE  \E r \in {Idle} \cup Requests :
           /\ req' = [req EXCEPT ![s] = r]
           /\ \/ r.phase \in {"idle", "send"} /\ flight' = NoSender
              \/ r.phase \in {"oauth", "login"} /\ flight' = s /\ r.held = Held /\ Held < LOGIN_FAILURE_LIMIT
<1>1. PICK t \in Cached(store) :
        IF Fresh(t, at)
          THEN req' = [req EXCEPT ![s] = Send(t, at, retried)] /\ flight' = NoSender
          ELSE \E count \in CountRead :
                 IF LoginGate(count)
                   THEN /\ flight' = s
                        /\ req' = [req EXCEPT ![s] =
                             [phase |-> IF AccessFresh(t, at) THEN "login" ELSE "oauth", at |-> at, own |-> t,
                              held |-> IF count > 0 THEN count ELSE 0, again |-> FALSE, retried |-> retried]]
                   ELSE req' = [req EXCEPT ![s] = Idle] /\ flight' = NoSender
  BY DEF Locked
<1>2. t \in Tokens
  BY EmptyTyped DEF Cached
<1>3. CASE Fresh(t, at)
  <2>1. req' = [req EXCEPT ![s] = Send(t, at, retried)] /\ flight' = NoSender
    BY <1>1, <1>3
  <2>2. Send(t, at, retried) \in Requests /\ Send(t, at, retried).phase = "send"
    BY <1>2, SendTyped
  <2> QED BY <2>1, <2>2
<1>4. CASE ~Fresh(t, at)
  <2>1. PICK count \in CountRead :
          IF LoginGate(count)
            THEN /\ flight' = s
                 /\ req' = [req EXCEPT ![s] =
                      [phase |-> IF AccessFresh(t, at) THEN "login" ELSE "oauth", at |-> at, own |-> t,
                       held |-> IF count > 0 THEN count ELSE 0, again |-> FALSE, retried |-> retried]]
            ELSE req' = [req EXCEPT ![s] = Idle] /\ flight' = NoSender
    BY <1>1, <1>4
  <2>2. CASE LoginGate(count)
    <3> DEFINE r == [phase |-> IF AccessFresh(t, at) THEN "login" ELSE "oauth", at |-> at, own |-> t,
                     held |-> IF count > 0 THEN count ELSE 0, again |-> FALSE, retried |-> retried]
    <3>1. count \in 0..1 /\ count = Held
      BY <2>2 DEF LoginGate, CountRead, LOGIN_FAILURE_LIMIT
    <3>2. r \in Requests /\ r.phase \in {"oauth", "login"} /\ r.held = Held
      BY <3>1, <1>2 DEF Requests, LOGIN_FAILURE_LIMIT
    <3>3. Held < LOGIN_FAILURE_LIMIT
      BY <3>1 DEF LOGIN_FAILURE_LIMIT
    <3>4. req' = [req EXCEPT ![s] = r] /\ flight' = s
      BY <2>1, <2>2
    <3> QED BY <3>2, <3>3, <3>4
  <2>3. CASE ~LoginGate(count)
    <3>1. req' = [req EXCEPT ![s] = Idle] /\ flight' = NoSender
      BY <2>1, <2>3
    <3> QED BY <3>1, IdlePhase
  <2> QED BY <2>2, <2>3
<1> QED BY <1>3, <1>4

\* The same of the whole of ensure_tokens, which may also wait for the mutex.
LEMMA EnsureOutcome ==
  ASSUME Typed, NEW s \in Senders, NEW store \in Tokens, NEW retried \in BOOLEAN,
         EnsureTokens(s, store, retried)
  PROVE  \E r \in {Idle} \cup Requests :
           /\ req' = [req EXCEPT ![s] = r]
           /\ \/ r.phase \in {"send", "wait"} /\ flight' = flight
              \/ r.phase \in {"idle", "send"} /\ flight = NoSender /\ flight' = NoSender
              \/ /\ r.phase \in {"oauth", "login"} /\ flight = NoSender /\ flight' = s
                 /\ r.held = Held /\ Held < LOGIN_FAILURE_LIMIT
<1>1. now \in 0..MaxTime
  BY DEF Typed
<1>2. PICK t \in Cached(store) :
        IF Fresh(t, now)
          THEN req' = [req EXCEPT ![s] = Send(t, now, retried)] /\ UNCHANGED flight
          ELSE IF flight = NoSender THEN Locked(s, store, now, retried)
          ELSE /\ req' = [req EXCEPT ![s] = [Send(Empty, now, retried) EXCEPT !.phase = "wait"]]
               /\ UNCHANGED flight
  BY DEF EnsureTokens
<1>3. t \in Tokens
  BY EmptyTyped DEF Cached
<1>4. CASE Fresh(t, now)
  <2>1. req' = [req EXCEPT ![s] = Send(t, now, retried)] /\ flight' = flight
    BY <1>2, <1>4
  <2>2. Send(t, now, retried) \in Requests /\ Send(t, now, retried).phase = "send"
    BY <1>1, <1>3, SendTyped
  <2> QED BY <2>1, <2>2
<1>5. CASE ~Fresh(t, now) /\ flight = NoSender
  <2>1. Locked(s, store, now, retried)
    BY <1>2, <1>5
  <2>2. PICK r \in {Idle} \cup Requests :
          /\ req' = [req EXCEPT ![s] = r]
          /\ \/ r.phase \in {"idle", "send"} /\ flight' = NoSender
             \/ r.phase \in {"oauth", "login"} /\ flight' = s /\ r.held = Held /\ Held < LOGIN_FAILURE_LIMIT
    BY <1>1, <2>1, LockedOutcome
  <2> QED BY <1>5, <2>2
<1>6. CASE ~Fresh(t, now) /\ flight # NoSender
  <2> DEFINE r == [Send(Empty, now, retried) EXCEPT !.phase = "wait"]
  <2>1. req' = [req EXCEPT ![s] = r] /\ flight' = flight
    BY <1>2, <1>6
  <2>2. r \in Requests /\ r.phase = "wait"
    BY <1>1, EmptyTyped, SendTyped
  <2> HIDE DEF r
  <2> QED BY <2>1, <2>2
<1> QED BY <1>4, <1>5, <1>6

\* A written count is the count of the present credentials, and a write that fails is lost.
LEMMA StoreOutcome ==
  ASSUME Typed, NEW count \in 0..LOGIN_FAILURE_LIMIT, StoreFailures(Held, count)
  PROVE  /\ failures' \in [ours : BOOLEAN, count : 0..LOGIN_FAILURE_LIMIT]
         /\ lost' \in Nat
         /\ \/ Held' = count /\ lost' = lost
            \/ Held' = Held /\ lost' = lost + 1 /\ count # Held
<1> DEFINE Records == [ours : BOOLEAN, count : 0..LOGIN_FAILURE_LIMIT]
           new == IF count = 0 THEN NoFailures ELSE [ours |-> TRUE, count |-> count]
<1>1. failures \in Records /\ lost \in Nat
  BY DEF Typed
<1>2. (failures' = failures => Held' = Held) /\ (failures' = new => Held' = IF new.ours THEN new.count ELSE 0)
  BY DEF Held
<1>3. new \in Records /\ (IF new.ours THEN new.count ELSE 0) = count
  BY DEF NoFailures, LOGIN_FAILURE_LIMIT
<1>4. \/ count = Held /\ failures' = failures /\ lost' = lost
      \/ count # Held /\ failures' = new /\ lost' = lost
      \/ count # Held /\ failures' = failures /\ lost' = lost + 1
  BY DEF StoreFailures
<1> HIDE DEF Records, new
<1>5. failures' \in Records /\ lost' \in Nat
  BY <1>1, <1>3, <1>4
<1>6. \/ Held' = count /\ lost' = lost
      \/ Held' = Held /\ lost' = lost + 1 /\ count # Held
  BY <1>2, <1>3, <1>4
<1> QED BY <1>5, <1>6 DEF Records
----------------------------------------------------------------------------
(* Steps of ensure_tokens that only read the count. *)

Kept == UNCHANGED <<failures, strikes, mails, lost, spared>>

\* A request that holds no mutex goes on, and takes the mutex only with the stored count.
LEMMA EnteredKeeps ==
  ASSUME IInv, NEW s \in Senders, NEW r \in {Idle} \cup Requests,
         req[s].phase \in {"idle", "wait", "send"},
         req' = [req EXCEPT ![s] = r], Kept, now' = now, tokens' \in Tokens,
         \/ r.phase \in {"idle", "send", "wait"} /\ flight' = flight
         \/ r.phase \in {"idle", "send"} /\ flight = NoSender /\ flight' = NoSender
         \/ /\ r.phase \in {"oauth", "login"} /\ flight = NoSender /\ flight' = s
            /\ r.held = Held /\ Held < LOGIN_FAILURE_LIMIT
  PROVE  IInv'
<1>1. req'[s] = r /\ \A o \in Senders : o # s => req'[o] = req[o]
  BY DEF IInv, Typed
<1>2. flight # s /\ NoSender \notin Senders
  BY SessionAssumption DEF IInv, Exclusive
<1>3. Held' = Held /\ (Latched <=> Latched')
  BY DEF Kept, Held, Latched
<1>4. Typed'
  BY DEF IInv, Typed, Kept
<1>5. Exclusive'
  BY <1>1, <1>2 DEF IInv, Exclusive
<1>6. HeldIsStored'
  BY <1>1, <1>3 DEF IInv, HeldIsStored
<1>7. Counted'
  BY <1>3 DEF IInv, Counted, Kept
<1>8. Mailed'
  BY <1>1, <1>3 DEF IInv, Mailed, Kept
<1> QED BY <1>4, <1>5, <1>6, <1>7, <1>8 DEF IInv

\* The holder of the mutex goes from one call to the next.
LEMMA RunGoesOn ==
  ASSUME IInv, NEW s \in Senders, NEW r \in Requests,
         req[s].phase \in {"oauth", "login"},
         req' = [req EXCEPT ![s] = r], Kept, now' = now, tokens' = tokens, flight' = flight,
         r.phase \in {"oauth", "login"}, r.held = req[s].held
  PROVE  IInv'
<1>1. req'[s] = r /\ \A o \in Senders : o # s => req'[o] = req[o]
  BY DEF IInv, Typed
<1>2. flight = s
  BY DEF IInv, Exclusive
<1>3. Held' = Held /\ (Latched <=> Latched')
  BY DEF Kept, Held, Latched
<1>4. Typed'
  BY DEF IInv, Typed, Kept
<1>5. Exclusive'
  BY <1>1, <1>2 DEF IInv, Exclusive
<1>6. HeldIsStored'
  BY <1>1, <1>3 DEF IInv, HeldIsStored
<1>7. Counted'
  BY <1>3 DEF IInv, Counted, Kept
<1>8. Mailed'
  BY <1>1, <1>3 DEF IInv, Mailed, Kept
<1> QED BY <1>4, <1>5, <1>6, <1>7, <1>8 DEF IInv

\* A run ends: its count was written or lost, and it mails only a latch.
LEMMA RunOver ==
  ASSUME IInv, NEW s \in Senders, NEW r \in {Idle} \cup Requests, NEW count \in 0..LOGIN_FAILURE_LIMIT,
         req[s].phase \in {"oauth", "login"}, StoreFailures(Held, count),
         req' = [req EXCEPT ![s] = r], now' = now, tokens' \in Tokens, mails' = mails,
         strikes' \in Nat, spared' \in BOOLEAN,
         ~spared' => strikes' <= count + lost /\ strikes' <= Held + lost + 1,
         \/ r.phase \in {"idle", "send"} /\ flight' = NoSender
         \/ r.phase = "mail" /\ flight' = flight /\ count = LOGIN_FAILURE_LIMIT
  PROVE  IInv'
<1>1. req'[s] = r /\ \A o \in Senders : o # s => req'[o] = req[o]
  BY DEF IInv, Typed
<1>2. flight = s /\ NoSender \notin Senders /\ Held < LOGIN_FAILURE_LIMIT
  BY SessionAssumption DEF IInv, Exclusive, HeldIsStored
<1>3. /\ failures' \in [ours : BOOLEAN, count : 0..LOGIN_FAILURE_LIMIT]
      /\ lost' \in Nat
      /\ \/ Held' = count /\ lost' = lost
         \/ Held' = Held /\ lost' = lost + 1 /\ count # Held
  BY StoreOutcome DEF IInv
<1>4. \A o \in Senders : o # s => req[o].phase \notin {"oauth", "login", "mail"}
  BY <1>2 DEF IInv, Exclusive
<1>5. Held \in Nat /\ lost \in Nat /\ mails \in Nat /\ mails <= lost
  BY <1>2 DEF IInv, Typed, Mailed, Latched, Held, LOGIN_FAILURE_LIMIT
<1>6. Typed'
  BY <1>2, <1>3 DEF IInv, Typed
<1>7. Exclusive'
  BY <1>1, <1>2, <1>4 DEF IInv, Exclusive
<1>8. HeldIsStored'
  BY <1>1, <1>4 DEF IInv, HeldIsStored
<1>9. Counted'
  BY <1>3, <1>5 DEF Counted
<1>10. Mailed'
  <2>1. mails' <= lost'
    BY <1>3, <1>5
  <2>2. ~Latched' /\ r.phase = "mail" => lost' = lost + 1
    <3>1. r.phase = "mail" => count = LOGIN_FAILURE_LIMIT
      OBVIOUS
    <3>2. Held' = LOGIN_FAILURE_LIMIT => Latched'
      BY DEF Latched, LOGIN_FAILURE_LIMIT
    <3> QED BY <1>3, <3>1, <3>2
  <2>3. \A o \in Senders : req'[o].phase = "mail" => o = s /\ r.phase = "mail"
    BY <1>1, <1>4
  <2>4. mails' <= 1 + lost' /\ (lost' = lost + 1 => mails' + 1 <= lost')
    <3>1. mails' = mails /\ mails \in Nat /\ lost \in Nat /\ lost' \in Nat /\ mails <= lost /\ mails' <= lost'
      BY <1>3, <1>5, <2>1
    <3>2. \A a, b, c \in Nat : (a <= c => a <= 1 + c) /\ (a <= b /\ c = b + 1 => a + 1 <= c)
      OBVIOUS
    <3>3. (mails <= lost' => mails <= 1 + lost') /\ (mails <= lost /\ lost' = lost + 1 => mails + 1 <= lost')
      BY <3>1, <3>2, Zenon
    <3> QED BY <3>1, <3>3, Zenon
  <2> QED BY <2>1, <2>2, <2>3, <2>4, Zenon DEF Mailed
<1> QED BY <1>6, <1>7, <1>8, <1>9, <1>10 DEF IInv
----------------------------------------------------------------------------

\* The initial state satisfies the invariant.
LEMMA Initially == Init => IInv
<1> SUFFICES ASSUME Init PROVE IInv
  OBVIOUS
<1>1. Typed
  <2>1. now \in 0..MaxTime /\ strikes \in Nat /\ mails \in Nat /\ lost \in Nat /\ spared \in BOOLEAN
    <3>1. now = 0 /\ strikes = 0 /\ mails = 0 /\ lost = 0 /\ spared = FALSE
      BY DEF Init
    <3>2. MaxTime \in Nat
      BY SessionAssumption
    <3>3. spared \in BOOLEAN
      BY <3>1
    <3> QED BY <3>1, <3>2, <3>3
  <2>2. tokens \in Tokens /\ req \in [Senders -> {Idle} \cup Requests] /\ flight \in Senders \cup {NoSender}
    BY EmptyTyped DEF Init
  <2>3. failures \in [ours : BOOLEAN, count : 0..LOGIN_FAILURE_LIMIT]
    BY DEF Init, NoFailures, LOGIN_FAILURE_LIMIT
  <2> QED BY <2>1, <2>2, <2>3 DEF Typed
<1>2. Exclusive /\ HeldIsStored
  BY IdlePhase, SessionAssumption DEF Init, Exclusive, HeldIsStored
<1>3. Counted /\ Mailed
  BY IdlePhase DEF Init, Counted, Mailed, Held, NoFailures
<1> QED BY <1>1, <1>2, <1>3 DEF IInv

\* No step of ensure_tokens that only reads disturbs it.
LEMMA Entering ==
  ASSUME IInv, NEW s \in Senders, Begin(s) \/ Enter(s) \/ Rejected(s)
  PROVE  IInv'
<1>1. tokens \in Tokens /\ now \in 0..MaxTime /\ req[s] \in {Idle} \cup Requests
  BY DEF IInv, Typed
<1>2. CASE Begin(s)
  <2>1. PICK r \in {Idle} \cup Requests :
          /\ req' = [req EXCEPT ![s] = r]
          /\ \/ r.phase \in {"send", "wait"} /\ flight' = flight
             \/ r.phase \in {"idle", "send"} /\ flight = NoSender /\ flight' = NoSender
             \/ /\ r.phase \in {"oauth", "login"} /\ flight = NoSender /\ flight' = s
                /\ r.held = Held /\ Held < LOGIN_FAILURE_LIMIT
    BY <1>1, <1>2, EnsureOutcome DEF IInv, Begin
  <2> QED BY <1>1, <1>2, <2>1, IdlePhase, EnteredKeeps DEF Begin, Kept, History
<1>3. CASE Enter(s)
  <2>1. req[s] \in Requests
    BY <1>1, <1>3, IdlePhase DEF Enter
  <2>2. req[s].at \in 0..MaxTime /\ req[s].retried \in BOOLEAN
    BY <2>1 DEF Requests
  <2>3. PICK r \in {Idle} \cup Requests :
          /\ req' = [req EXCEPT ![s] = r]
          /\ \/ r.phase \in {"idle", "send"} /\ flight' = NoSender
             \/ r.phase \in {"oauth", "login"} /\ flight' = s /\ r.held = Held /\ Held < LOGIN_FAILURE_LIMIT
    BY <1>1, <1>3, <2>2, LockedOutcome DEF IInv, Enter
  <2> QED BY <1>1, <1>3, <2>3, EnteredKeeps DEF Enter, Kept, History
<1>4. CASE Rejected(s)
  <2>1. PICK t \in Cached(tokens) : tokens' \in Caches([t EXCEPT !.expires = 0], tokens)
                                  \/ tokens' \in Caches([t EXCEPT !.session = 0, !.at = 0], tokens)
    BY <1>4 DEF Rejected
  <2>2. t \in Tokens
    BY <1>1, EmptyTyped DEF Cached
  <2>3. [t EXCEPT !.expires = 0] \in Tokens /\ [t EXCEPT !.session = 0, !.at = 0] \in Tokens
    <3>1. 0 \in 0..MaxTime + AccessLife /\ 0 \in 0..MaxSessions /\ 0 \in 0..MaxTime
      BY SessionAssumption
    <3> QED BY <2>2, <3>1 DEF Tokens
  <2>4. tokens' \in Tokens
    BY <1>1, <2>1, <2>3 DEF Caches
  <2>5. EnsureTokens(s, tokens', TRUE)
    BY <1>4 DEF Rejected
  <2>6. PICK r \in {Idle} \cup Requests :
          /\ req' = [req EXCEPT ![s] = r]
          /\ \/ r.phase \in {"send", "wait"} /\ flight' = flight
             \/ r.phase \in {"idle", "send"} /\ flight = NoSender /\ flight' = NoSender
             \/ /\ r.phase \in {"oauth", "login"} /\ flight = NoSender /\ flight' = s
                /\ r.held = Held /\ Held < LOGIN_FAILURE_LIMIT
    BY <2>4, <2>5, EnsureOutcome DEF IInv
  <2>7. Kept /\ now' = now /\ req[s].phase = "send"
    BY <1>4 DEF Rejected, Kept, History
  <2> QED BY <2>4, <2>6, <2>7, EnteredKeeps
<1> QED BY <1>2, <1>3, <1>4

\* What StoreFailures was given is what the storage holds.
LEMMA HeldOf ==
  ASSUME IInv, NEW s \in Senders, req[s].phase \in {"oauth", "login"}
  PROVE  /\ req[s].held = Held /\ Held \in 0..1 /\ flight = s
         /\ req[s] \in Requests /\ req[s].own \in Tokens /\ req[s].at \in 0..MaxTime
         /\ req[s].retried \in BOOLEAN /\ req[s].again \in BOOLEAN
<1>1. req[s].held = Held /\ Held < LOGIN_FAILURE_LIMIT /\ flight = s
  BY DEF IInv, HeldIsStored, Exclusive
<1>2. Held \in 0..LOGIN_FAILURE_LIMIT
  BY DEF IInv, Typed, Held, LOGIN_FAILURE_LIMIT
<1>3. req[s] \in Requests
  BY IdlePhase DEF IInv, Typed
<1> QED BY <1>1, <1>2, <1>3 DEF Requests, LOGIN_FAILURE_LIMIT

\* A run that got its tokens keeps it, whichever calls it made.
LEMMA EndKeeps ==
  ASSUME IInv, NEW s \in Senders, NEW t \in Tokens, req[s].phase \in {"oauth", "login"},
         RunEnds(s, t), now' = now, mails' = mails, strikes' \in Nat, spared' \in BOOLEAN,
         ~spared' => strikes' <= lost
  PROVE  IInv'
<1> DEFINE r == Send(t, req[s].at, req[s].retried)
<1>1. req[s].held = Held /\ Held \in 0..1 /\ req[s].at \in 0..MaxTime /\ req[s].retried \in BOOLEAN
  BY HeldOf
<1>2. r \in Requests /\ r.phase = "send"
  BY <1>1, SendTyped
<1>3. req' = [req EXCEPT ![s] = r] /\ flight' = NoSender /\ tokens' \in Tokens
  BY DEF RunEnds, Caches, IInv, Typed
<1>4. StoreFailures(Held, 0)
  BY <1>1 DEF RunEnds, CountAfterRun
<1>5. 0 \in 0..LOGIN_FAILURE_LIMIT
  BY DEF LOGIN_FAILURE_LIMIT
<1>6. ~spared' => strikes' <= 0 + lost /\ strikes' <= Held + lost + 1
  BY <1>1 DEF IInv, Typed
<1> HIDE DEF r
<1> QED BY <1>2, <1>3, <1>4, <1>5, <1>6, RunOver

\* So does one that failed: its strike is in the count it leaves.
LEMMA FailKeeps ==
  ASSUME IInv, NEW s \in Senders, NEW verdict \in {"latch", "count", "exempt"},
         req[s].phase \in {"oauth", "login"},
         RunFails(s, verdict), strikes' \in Nat, strikes' <= strikes + 1,
         verdict = "exempt" => strikes' = strikes
  PROVE  IInv'
<1> DEFINE count == CountAfterRun(req[s].held, verdict)
<1>1. req[s].held = Held /\ Held \in 0..1 /\ flight = s /\ req[s] \in Requests
  BY HeldOf
<1>2. count \in 0..LOGIN_FAILURE_LIMIT /\ count >= Held /\ (verdict # "exempt" => count >= Held + 1)
  BY <1>1 DEF CountAfterRun, LOGIN_FAILURE_LIMIT
<1>3. StoreFailures(Held, count)
  BY <1>1 DEF RunFails
<1>4. ~spared => strikes <= Held + lost
  BY DEF IInv, Counted
<1>5. Held \in Nat /\ lost \in Nat /\ strikes \in Nat /\ spared \in BOOLEAN /\ tokens \in Tokens
  BY <1>1 DEF IInv, Typed
<1>6. now' = now /\ tokens' = tokens /\ mails' = mails /\ spared' = spared
  BY DEF RunFails
<1>7. ~spared' => strikes' <= count + lost /\ strikes' <= Held + lost + 1
  BY <1>2, <1>4, <1>5, <1>6
<1>8. CASE count >= LOGIN_FAILURE_LIMIT
  <2> DEFINE r == [req[s] EXCEPT !.phase = "mail"]
  <2>1. r \in Requests /\ r.phase = "mail"
    BY <1>1 DEF Requests
  <2>2. req' = [req EXCEPT ![s] = r] /\ flight' = flight
    BY <1>8 DEF RunFails, IInv, Typed
  <2>3. count = LOGIN_FAILURE_LIMIT
    BY <1>2, <1>8 DEF LOGIN_FAILURE_LIMIT
  <2> HIDE DEF r, count
  <2> QED BY <1>2, <1>3, <1>5, <1>6, <1>7, <2>1, <2>2, <2>3, RunOver
<1>9. CASE ~(count >= LOGIN_FAILURE_LIMIT)
  <2>1. req' = [req EXCEPT ![s] = Idle] /\ flight' = NoSender
    BY <1>9 DEF RunFails
  <2> HIDE DEF count
  <2> QED BY <1>2, <1>3, <1>5, <1>6, <1>7, <2>1, IdlePhase, RunOver
<1> QED BY <1>8, <1>9

\* Steps that change no request, or let all of them go.
LEMMA Forgetting ==
  ASSUME IInv, req' = [o \in Senders |-> Idle], flight' = NoSender, now' = now, tokens' = tokens,
         \/ Kept
         \/ /\ strikes' \in Nat /\ strikes' <= strikes + 1 /\ lost' = lost + 1
            /\ UNCHANGED <<failures, mails, spared>>
         \/ /\ strikes' = 0 /\ mails' = 0 /\ lost' = 0 /\ spared' = FALSE
            /\ failures' = [failures EXCEPT !.ours = FALSE]
  PROVE  IInv'
<1>1. \A o \in Senders : req'[o] = Idle /\ req'[o].phase = "idle"
  BY IdlePhase
<1>2. req' \in [Senders -> {Idle} \cup Requests]
  OBVIOUS
<1>3. Exclusive' /\ HeldIsStored'
  BY <1>1, SessionAssumption DEF Exclusive, HeldIsStored
<1>4. Held \in Nat /\ lost \in Nat /\ mails \in Nat /\ strikes \in Nat
  BY DEF IInv, Typed, Held, LOGIN_FAILURE_LIMIT
<1>5. CASE Kept
  <2>1. Held' = Held /\ (Latched' <=> Latched)
    BY <1>5 DEF Kept, Held, Latched
  <2>2. Typed' /\ Counted' /\ Mailed'
    BY <1>1, <1>2, <1>5, <2>1 DEF IInv, Typed, Counted, Mailed, Kept
  <2> QED BY <1>3, <2>2 DEF IInv
<1>6. CASE strikes' \in Nat /\ strikes' <= strikes + 1 /\ lost' = lost + 1 /\ UNCHANGED <<failures, mails, spared>>
  <2>1. Held' = Held /\ (Latched' <=> Latched)
    BY <1>6 DEF Held, Latched
  <2>2. Typed'
    BY <1>2, <1>4, <1>6 DEF IInv, Typed
  <2>3. Counted'
    <3>1. (~spared' => strikes <= Held + lost) /\ strikes' <= strikes + 1
      BY <1>6 DEF IInv, Counted
    <3> QED BY <1>4, <1>6, <2>1, <3>1 DEF Counted
  <2>4. Mailed'
    BY <1>1, <1>4, <1>6, <2>1 DEF IInv, Mailed
  <2> QED BY <1>3, <2>2, <2>3, <2>4 DEF IInv
<1>7. CASE /\ strikes' = 0 /\ mails' = 0 /\ lost' = 0 /\ spared' = FALSE
           /\ failures' = [failures EXCEPT !.ours = FALSE]
  <2>1. failures' \in [ours : BOOLEAN, count : 0..LOGIN_FAILURE_LIMIT] /\ Held' = 0
    BY <1>7 DEF IInv, Typed, Held
  <2>2. spared' \in BOOLEAN
    BY <1>7
  <2>3. Typed'
    BY <1>2, <1>7, <2>1, <2>2 DEF IInv, Typed
  <2>4. Counted' /\ Mailed'
    BY <1>1, <1>7, <2>1 DEF Counted, Mailed
  <2> QED BY <1>3, <2>3, <2>4 DEF IInv
<1> QED BY <1>5, <1>6, <1>7

\* The step of a request that is not a run's, and touches neither count nor mutex.
LEMMA Leaving ==
  ASSUME IInv, NEW s \in Senders, req[s].phase = "send", req' = [req EXCEPT ![s] = Idle],
         Kept, now' = now, tokens' \in Tokens, flight' = flight
  PROVE  IInv'
  BY IdlePhase, EnteredKeeps

\* One strike more, or the cap.
LEMMA StruckTyped == strikes \in Nat => Struck \in Nat /\ Struck <= strikes + 1
  BY DEF Struck

\* The one email of a latch.
LEMMA Mailing ==
  ASSUME IInv, NEW s \in Senders, MailLatch(s)
  PROVE  IInv'
<1>1. /\ req[s].phase = "mail" /\ mails' = mails + 1 /\ flight' = NoSender
      /\ req' = [req EXCEPT ![s] = Idle]
      /\ UNCHANGED <<now, tokens, failures, used, strikes, lost, spared>>
  BY DEF MailLatch
<1>2. req'[s] = Idle /\ \A o \in Senders : o # s => req'[o] = req[o]
  BY <1>1 DEF IInv, Typed
<1>3. \A o \in Senders : req'[o].phase \notin {"oauth", "login", "mail"}
  BY <1>1, <1>2, IdlePhase DEF IInv, Exclusive
<1>4. Held' = Held /\ (Latched' <=> Latched)
  BY <1>1 DEF Held, Latched
<1>5. mails <= lost /\ (~Latched => mails + 1 <= lost) /\ mails \in Nat /\ lost \in Nat
  BY <1>1 DEF IInv, Typed, Mailed
<1>6. Typed'
  BY <1>1 DEF IInv, Typed
<1>7. Exclusive' /\ HeldIsStored'
  BY <1>1, <1>3, SessionAssumption DEF Exclusive, HeldIsStored
<1>8. Counted'
  BY <1>1, <1>4 DEF IInv, Counted
<1>9. Mailed'
  <2>1. mails + 1 <= 1 + lost
    BY <1>5
  <2> QED BY <1>1, <1>3, <1>4, <1>5, <2>1 DEF Mailed
<1> QED BY <1>6, <1>7, <1>8, <1>9 DEF IInv

\* An answer of Verizon to a run.
LEMMA Answered ==
  ASSUME IInv, NEW s \in Senders,
         OAuthAnswers(s) \/ OAuthFails(s) \/ LoginAnswers(s) \/ BearerFault(s) \/ LoginFails(s)
  PROVE  IInv'
<1>1. req[s].phase \in {"oauth", "login"}
  BY DEF OAuthAnswers, OAuthFails, LoginAnswers, BearerFault, LoginFails
<1>2. /\ req[s].held = Held /\ Held \in 0..1 /\ flight = s
      /\ req[s] \in Requests /\ req[s].own \in Tokens /\ req[s].at \in 0..MaxTime
  BY <1>1, HeldOf
<1>3. strikes \in Nat /\ lost \in Nat /\ spared \in BOOLEAN /\ (~spared => strikes <= Held + lost)
  BY DEF IInv, Typed, Counted
<1>4. CASE OAuthAnswers(s)
  <2> DEFINE t == [req[s].own EXCEPT !.expires = req[s].at + AccessLife]
  <2>1. t \in Tokens
    <3>1. req[s].at + AccessLife \in 0..MaxTime + AccessLife
      BY <1>2, SessionAssumption
    <3> QED BY <1>2, <3>1 DEF Tokens
  <2>2. now' = now /\ strikes' = strikes /\ mails' = mails
    BY <1>4 DEF OAuthAnswers
  <2>3. CASE ~req[s].again /\ SessionFresh(t, req[s].at)
    <3>1. RunEnds(s, t) /\ spared' = (spared \/ req[s].held > 0)
      BY <1>4, <2>3 DEF OAuthAnswers
    <3>2. spared' \in BOOLEAN
      BY <1>3, <3>1
    <3>3. ~spared' => ~spared /\ ~(req[s].held > 0)
      BY <3>1
    <3>4. ~(req[s].held > 0) => Held = 0
      BY <1>2
    <3>5. ~spared' => strikes' <= lost
      BY <1>3, <2>2, <3>3, <3>4
    <3> HIDE DEF t
    <3> QED BY <1>1, <1>3, <2>1, <2>2, <3>1, <3>2, <3>5, EndKeeps
  <2>4. CASE ~(~req[s].again /\ SessionFresh(t, req[s].at))
    <3> DEFINE r == [req[s] EXCEPT !.phase = "login", !.own = t]
    <3>1. /\ req' = [req EXCEPT ![s].phase = "login", ![s].own = t]
          /\ UNCHANGED <<tokens, failures, flight, lost, spared>>
      BY <1>4, <2>4 DEF OAuthAnswers
    <3> HIDE DEF t
    <3>2. req' = [req EXCEPT ![s] = r]
      BY <3>1 DEF IInv, Typed
    <3>3. r \in Requests /\ r.phase = "login" /\ r.held = req[s].held
      BY <1>2, <2>1 DEF Requests
    <3> HIDE DEF r
    <3> QED BY <1>1, <2>2, <3>1, <3>2, <3>3, RunGoesOn DEF Kept
  <2> QED BY <2>3, <2>4
<1>5. CASE OAuthFails(s)
  <2>1. PICK verdict \in {"latch", "count", "exempt"} : RunFails(s, verdict)
    BY <1>5 DEF OAuthFails
  <2>2. strikes' = strikes
    BY <1>5 DEF OAuthFails
  <2>3. strikes' \in Nat /\ strikes' <= strikes + 1
    BY <1>3, <2>2
  <2> QED BY <1>1, <2>1, <2>2, <2>3, FailKeeps
<1>6. CASE LoginAnswers(s)
  <2>1. PICK n \in 1..MaxSessions :
          RunEnds(s, [req[s].own EXCEPT !.session = n, !.at = req[s].at])
    BY <1>6 DEF LoginAnswers
  <2>2. [req[s].own EXCEPT !.session = n, !.at = req[s].at] \in Tokens
    <3>1. n \in 0..MaxSessions
      BY SessionAssumption
    <3>2. \A own \in Tokens, at \in 0..MaxTime : [own EXCEPT !.session = n, !.at = at] \in Tokens
      BY <3>1 DEF Tokens
    <3> QED BY <1>2, <3>2
  <2>3. now' = now /\ mails' = mails /\ strikes' = 0 /\ spared' = spared
    BY <1>6 DEF LoginAnswers
  <2>4. strikes' \in Nat /\ spared' \in BOOLEAN /\ strikes' <= lost
    BY <1>3, <2>3
  <2> QED BY <1>1, <2>1, <2>2, <2>3, <2>4, EndKeeps
<1>7. CASE BearerFault(s)
  <2> DEFINE r == [req[s] EXCEPT !.phase = "oauth", !.again = TRUE]
  <2>1. req' = [req EXCEPT ![s] = r]
    BY <1>7 DEF BearerFault, IInv, Typed
  <2>2. r \in Requests /\ r.phase = "oauth" /\ r.held = req[s].held
    BY <1>2 DEF Requests
  <2>3. Kept /\ now' = now /\ tokens' = tokens /\ flight' = flight
    BY <1>7 DEF BearerFault, Kept, History
  <2> HIDE DEF r
  <2> QED BY <1>1, <2>1, <2>2, <2>3, RunGoesOn
<1>8. CASE LoginFails(s)
  <2>1. CASE RunFails(s, "exempt") /\ strikes' = strikes
    <3>1. strikes' \in Nat /\ strikes' <= strikes + 1
      BY <1>3, <2>1
    <3> QED BY <1>1, <2>1, <3>1, FailKeeps
  <2>2. CASE (\E verdict \in {"latch", "count"} : RunFails(s, verdict)) /\ strikes' = Struck
    <3>1. PICK verdict \in {"latch", "count"} : RunFails(s, verdict)
      BY <2>2
    <3>2. strikes' \in Nat /\ strikes' <= strikes + 1
      BY <1>3, <2>2, StruckTyped
    <3> QED BY <1>1, <3>1, <3>2, FailKeeps
  <2> QED BY <1>8, <2>1, <2>2 DEF LoginFails
<1> QED BY <1>4, <1>5, <1>6, <1>7, <1>8

\* Every step keeps the invariant.
LEMMA Steps == IInv /\ [Next]_session_vars => IInv'
<1> SUFFICES ASSUME IInv, [Next]_session_vars PROVE IInv'
  OBVIOUS
<1>1. tokens \in Tokens /\ now \in 0..MaxTime
  BY DEF IInv, Typed
<1>2. ASSUME NEW s \in Senders, Sent(s) PROVE IInv'
  <2>1. PICK t \in Cached(tokens) : tokens' \in Caches(Touched(t), tokens)
    BY <1>2 DEF Sent
  <2>2. t \in Tokens
    BY <1>1, EmptyTyped DEF Cached
  <2>3. tokens' \in Tokens
    BY <1>1, <2>1, <2>2 DEF Caches, Touched, Tokens
  <2> QED BY <1>2, <2>3, Leaving DEF Sent, Kept, History
<1>3. ASSUME NEW s \in Senders, SendFails(s) PROVE IInv'
  BY <1>1, <1>3, Leaving DEF SendFails, Kept, History
<1>4. CASE Tick
  <2>1. now' \in 0..MaxTime /\ UNCHANGED <<tokens, failures, flight, req, strikes, mails, lost, spared>>
    BY <1>1, <1>4, SessionAssumption DEF Tick, History
  <2> QED BY <2>1 DEF IInv, Typed, Exclusive, HeldIsStored, Counted, Mailed, Held, Latched
<1>5. CASE Reset
  <2>1. strikes \in Nat
    BY DEF IInv, Typed
  <2> QED BY <1>5, <2>1, StruckTyped, Forgetting DEF Reset, Forgotten, Kept
<1>6. CASE ChangeCredentials
  BY <1>6, Forgetting DEF ChangeCredentials, Forgotten
<1>7. CASE UNCHANGED session_vars
  BY <1>7 DEF session_vars, History, IInv, Typed, Exclusive, HeldIsStored, Counted, Mailed, Held, Latched
<1> QED BY <1>2, <1>3, <1>4, <1>5, <1>6, <1>7, Entering, Mailing, Answered DEF Next

\* The invariant holds throughout.
LEMMA Inductive == Spec => []IInv
<1> QED BY Initially, Steps, PTL DEF Spec

----------------------------------------------------------------------------

\* For any number of requests and lost records: Verizon sees no more failed logins in a row than
\* the limit and what was lost, and each latch mails once (thingspace.rs ensure_tokens).
THEOREM StrikesHold == Spec => []StrikesBounded
<1>1. IInv => StrikesBounded
  <2> SUFFICES ASSUME IInv PROVE StrikesBounded
    OBVIOUS
  <2>1. Held <= LOGIN_FAILURE_LIMIT /\ Held \in Nat
    BY DEF IInv, Typed, Held, LOGIN_FAILURE_LIMIT
  <2>2. strikes \in Nat /\ lost \in Nat /\ mails <= 1 + lost /\ (~spared => strikes <= Held + lost)
    BY DEF IInv, Typed, Counted, Mailed
  <2> QED BY <2>1, <2>2 DEF StrikesBounded, LOGIN_FAILURE_LIMIT
<1> QED BY <1>1, Inductive, PTL

\* For any number of requests, whichever reads and writes fail: a latch that was recorded stands
\* until the credentials change (thingspace.rs login_gate, store_failures).
THEOREM LatchHolds == Spec => LatchStands
<1>1. IInv /\ [Next]_session_vars => [Latched => failures'.count >= LOGIN_FAILURE_LIMIT]_session_vars
  <2> SUFFICES ASSUME IInv, [Next]_session_vars, Latched, session_vars' # session_vars
               PROVE  failures'.count >= LOGIN_FAILURE_LIMIT
    OBVIOUS
  <2>1. failures \in [ours : BOOLEAN, count : 0..LOGIN_FAILURE_LIMIT] /\ failures.count >= LOGIN_FAILURE_LIMIT
    BY DEF IInv, Typed, Latched, Held, LOGIN_FAILURE_LIMIT
  <2>2. \A s \in Senders : req[s].phase \notin {"oauth", "login"}
    BY DEF IInv, HeldIsStored, Latched, Typed, Held, LOGIN_FAILURE_LIMIT
  <2>3. \A s \in Senders : ~(OAuthAnswers(s) \/ OAuthFails(s) \/ LoginAnswers(s) \/ LoginFails(s))
    BY <2>2 DEF OAuthAnswers, OAuthFails, LoginAnswers, LoginFails
  <2>4. failures' = failures \/ failures' = [failures EXCEPT !.ours = FALSE]
    BY <2>3 DEF Next, Begin, Enter, BearerFault, MailLatch, Sent, Rejected, SendFails, Tick, Reset,
                ChangeCredentials
  <2> QED BY <2>1, <2>4
<1> QED BY <1>1, Inductive, PTL DEF Spec, LatchStands

----------------------------------------------------------------------------
(* What Verizon makes of the tokens a message goes out with. *)

Sessions == 1..MaxSessions

\* The session Verizon gave last.
Newest(n) == n \in Sessions /\ used[n] >= 0 /\ \A m \in Sessions : used[m] >= 0 => m <= n

\* The time of a cached session is at most a slot ahead of its use: whoever
\* touched it without having used it found it made in its own slot.
Timely(t) == t.session # 0 => Newest(t.session) /\ t.at <= used[t.session] + 1

\* A request is in its slot or the next; a session another has replaced since
\* it took its own was made since it began.
Current(r) ==
  /\ r.phase # "idle" => r.at <= now /\ now <= r.at + 1
  /\ r.phase \in {"oauth", "login"} => Timely(r.own)
  /\ r.phase \in {"login", "send"} => r.at + 2 <= r.own.expires
  /\ r.phase = "send" =>
       /\ r.own.session \in Sessions /\ used[r.own.session] >= 0
       /\ r.at - r.own.at < SessionIdle
       /\ r.own.at <= used[r.own.session] + 1
       /\ \A n \in Sessions : used[n] >= 0 => n <= r.own.session \/ used[n] >= r.at

InUse ==
  /\ used \in [Sessions -> {-1} \cup 0..now]
  /\ Timely(tokens)
  /\ \A s \in Senders : Current(req[s])

LEMMA InitInUse == Init => InUse
  BY SessionAssumption DEF Init, InUse, Timely, Current, Sessions, Empty, Idle

\* A request that sets out with fresh tokens has them at hand.
LEMMA SendCurrent ==
  ASSUME Typed, InUse, NEW t \in Tokens, NEW at \in 0..MaxTime, NEW retried,
         at <= now, now <= at + 1, Timely(t), SessionFresh(t, at), at + 2 <= t.expires
  PROVE  Current(Send(t, at, retried))
<1> DEFINE r == Send(t, at, retried)
<1>1. r.phase = "send" /\ r.at = at /\ r.own = t
  BY DEF Send
<1>2. Newest(t.session) /\ t.at <= used[t.session] + 1 /\ at - t.at < SessionIdle
  BY DEF Timely, SessionFresh
<1> HIDE DEF r
<1>3. Current(r)
  BY <1>1, <1>2 DEF Current, Newest
<1> QED BY <1>3 DEF r

LEMMA FreshLasts ==
  ASSUME NEW t \in Tokens, NEW at \in 0..MaxTime, AccessFresh(t, at)
  PROVE  at + 2 <= t.expires
<1>1. t.expires \in Int /\ AccessMargin \in Nat /\ AccessMargin > 0 /\ at \in Int
  BY SessionAssumption DEF Tokens
<1> QED BY <1>1 DEF AccessFresh

LEMMA EmptyTimely == Timely(Empty)
  BY DEF Timely, Empty

LEMMA LockedCurrent ==
  ASSUME Typed, InUse, NEW s \in Senders, NEW store \in Tokens, NEW at \in 0..MaxTime, NEW retried \in BOOLEAN,
         at <= now, now <= at + 1, Timely(store), Locked(s, store, at, retried)
  PROVE  \E r : req' = [req EXCEPT ![s] = r] /\ Current(r)
<1>1. PICK t \in Cached(store) :
        IF Fresh(t, at)
          THEN req' = [req EXCEPT ![s] = Send(t, at, retried)] /\ flight' = NoSender
          ELSE \E count \in CountRead :
                 IF LoginGate(count)
                   THEN /\ flight' = s
                        /\ req' = [req EXCEPT ![s] =
                             [phase |-> IF AccessFresh(t, at) THEN "login" ELSE "oauth", at |-> at, own |-> t,
                              held |-> IF count > 0 THEN count ELSE 0, again |-> FALSE, retried |-> retried]]
                   ELSE req' = [req EXCEPT ![s] = Idle] /\ flight' = NoSender
  BY DEF Locked
<1>2. t \in Tokens /\ Timely(t)
  BY EmptyTyped, EmptyTimely DEF Cached
<1>3. CASE Fresh(t, at)
  <2>1. Current(Send(t, at, retried))
    BY <1>2, <1>3, SendCurrent, FreshLasts DEF Fresh
  <2> QED BY <1>1, <1>3, <2>1
<1>4. CASE ~Fresh(t, at)
  <2>1. PICK count \in CountRead :
          IF LoginGate(count)
            THEN req' = [req EXCEPT ![s] =
                   [phase |-> IF AccessFresh(t, at) THEN "login" ELSE "oauth", at |-> at, own |-> t,
                    held |-> IF count > 0 THEN count ELSE 0, again |-> FALSE, retried |-> retried]]
            ELSE req' = [req EXCEPT ![s] = Idle]
    BY <1>1, <1>4
  <2> DEFINE r == [phase |-> IF AccessFresh(t, at) THEN "login" ELSE "oauth", at |-> at, own |-> t,
                   held |-> IF count > 0 THEN count ELSE 0, again |-> FALSE, retried |-> retried]
  <2>2. Current(Idle)
    BY DEF Current, Idle
  <2>3. /\ r.phase \in {"oauth", "login"} /\ r.at = at /\ r.own = t
        /\ r.phase = "login" => AccessFresh(t, at)
    OBVIOUS
  <2>4. req' = [req EXCEPT ![s] = r] \/ req' = [req EXCEPT ![s] = Idle]
    BY <2>1
  <2> HIDE DEF r
  <2>5. Current(r)
    BY <1>2, <2>3, FreshLasts DEF Current
  <2> QED BY <2>2, <2>4, <2>5
<1> QED BY <1>3, <1>4

LEMMA EnsureCurrent ==
  ASSUME Typed, InUse, NEW s \in Senders, NEW store \in Tokens, NEW retried \in BOOLEAN,
         Timely(store), EnsureTokens(s, store, retried)
  PROVE  \E r : req' = [req EXCEPT ![s] = r] /\ Current(r)
<1>1. now \in 0..MaxTime /\ now <= now /\ now <= now + 1
  BY DEF Typed
<1>2. PICK t \in Cached(store) :
        IF Fresh(t, now)
          THEN req' = [req EXCEPT ![s] = Send(t, now, retried)] /\ UNCHANGED flight
          ELSE IF flight = NoSender THEN Locked(s, store, now, retried)
          ELSE /\ req' = [req EXCEPT ![s] = [Send(Empty, now, retried) EXCEPT !.phase = "wait"]]
               /\ UNCHANGED flight
  BY DEF EnsureTokens
<1>3. t \in Tokens /\ Timely(t)
  BY EmptyTyped, EmptyTimely DEF Cached
<1>4. CASE Fresh(t, now)
  <2>1. Current(Send(t, now, retried))
    BY <1>1, <1>3, <1>4, SendCurrent, FreshLasts DEF Fresh
  <2> QED BY <1>2, <1>4, <2>1
<1>5. CASE ~Fresh(t, now) /\ flight = NoSender
  BY <1>1, <1>2, <1>5, LockedCurrent
<1>6. CASE ~Fresh(t, now) /\ flight # NoSender
  <2> DEFINE r == [Send(Empty, now, retried) EXCEPT !.phase = "wait"]
  <2>1. r.phase = "wait" /\ r.at = now
    BY DEF Send
  <2> HIDE DEF r
  <2>2. Current(r)
    BY <1>1, <2>1 DEF Current
  <2> QED BY <1>2, <1>6, <2>2 DEF r
<1> QED BY <1>4, <1>5, <1>6

\* Nobody used a session meanwhile: only the request that stepped is to be looked at.
LEMMA OneCurrent ==
  ASSUME Typed, InUse, NEW s \in Senders, NEW r, req' = [req EXCEPT ![s] = r], Current(r),
         now' = now, used' = used, Timely(tokens')
  PROVE  InUse'
<1>1. \A o \in Senders : req'[o] = r \/ req'[o] = req[o]
  BY DEF Typed
<1>2. \A x : Current(x)' <=> Current(x)
  BY DEF Current, Timely, Newest
<1>3. \A o \in Senders : Current(req'[o])
  BY <1>1 DEF InUse
<1>4. \A o \in Senders : Current(req[o])'
  BY <1>3 DEF Current, Timely, Newest
<1>5. Timely(tokens)'
  BY DEF Timely, Newest
<1> QED BY <1>4, <1>5 DEF InUse

\* A session is used again: nothing that was timely is less so.
LEMMA UsedLater ==
  ASSUME Typed, InUse, NEW n \in Sessions, used[n] >= 0, used' = [used EXCEPT ![n] = now]
  PROVE  /\ \A m \in Sessions : used'[m] >= used[m] /\ (used'[m] >= 0 <=> used[m] >= 0)
         /\ \A m : Newest(m) => Newest(m)'
<1>1. used \in [Sessions -> {-1} \cup 0..now] /\ now \in Nat
  BY DEF InUse, Typed
<1>2. \A m \in Sessions : used'[m] >= used[m] /\ (used'[m] >= 0 <=> used[m] >= 0)
  <2> TAKE m \in Sessions
  <2>1. CASE m = n
    BY <1>1, <2>1
  <2>2. CASE m # n
    BY <1>1, <2>2
  <2> QED BY <2>1, <2>2
<1> QED BY <1>1, <1>2 DEF Newest

LEMMA SentInUse ==
  ASSUME IInv, InUse, "cacheWrite" \notin Faults, NEW s \in Senders, Sent(s)
  PROVE  InUse'
<1> DEFINE n == req[s].own.session
<1>1. /\ req[s].phase = "send" /\ used' = [used EXCEPT ![n] = now]
      /\ req' = [req EXCEPT ![s] = Idle] /\ now' = now
  BY DEF Sent
<1>2. PICK t \in Cached(tokens) : tokens' = Touched(t)
  BY DEF Sent, Caches
<1>3. Typed /\ used \in [Sessions -> {-1} \cup 0..now] /\ now \in Nat
  BY DEF IInv, InUse, Typed
<1>4. /\ n \in Sessions /\ used[n] >= 0 /\ now <= req[s].at + 1 /\ req[s].at \in Nat
      /\ \A m \in Sessions : used[m] >= 0 => m <= n \/ used[m] >= req[s].at
  <2>1. req[s] \in Requests
    BY <1>1, <1>3, IdlePhase DEF Typed
  <2> QED BY <1>1, <2>1 DEF InUse, Current, Requests
<1> HIDE DEF n
<1>5. /\ \A m \in Sessions : used'[m] >= used[m] /\ (used'[m] >= 0 <=> used[m] >= 0)
      /\ \A m : Newest(m) => Newest(m)'
  BY <1>1, <1>3, <1>4, UsedLater
<1>6. used' \in [Sessions -> {-1} \cup 0..now'] /\ used'[n] = now
  BY <1>1, <1>3, <1>4
<1>7. Timely(tokens)'
  <2> SUFFICES ASSUME tokens'.session # 0 PROVE Newest(tokens.session)' /\ tokens'.at <= used'[tokens'.session] + 1
    BY DEF Timely, Newest
  <2>1. t = tokens /\ tokens'.session = tokens.session /\ tokens'.at = now
    BY <1>2, <1>3 DEF Typed, Cached, Touched, Empty, Tokens
  <2> DEFINE m == tokens.session
  <2>2. Newest(m) /\ m \in Sessions
    BY <2>1 DEF InUse, Timely, Newest
  <2>3. n <= m /\ m \in Int /\ n \in Int
    BY <1>4, <2>2, SessionAssumption DEF Newest, Sessions
  <2>4. m = n \/ used[m] >= req[s].at
    BY <1>4, <2>2, <2>3 DEF Newest
  <2>5. now <= used'[m] + 1
    BY <1>3, <1>4, <1>5, <1>6, <2>2, <2>4
  <2> QED BY <1>5, <2>1, <2>2, <2>5
<1>8. \A o \in Senders : Current(req[o])'
  <2> SUFFICES ASSUME NEW o \in Senders PROVE Current(req[o])'
    OBVIOUS
  <2>1. CASE o = s
    <3>1. req'[o] = Idle
      BY <1>1, <1>3, <2>1 DEF Typed
    <3> QED BY <3>1 DEF Current, Idle
  <2>2. CASE o # s
    <3>0. PICK r : r = req[o]
      OBVIOUS
    <3>1. req'[o] = r /\ Current(r) /\ r \in {Idle} \cup Requests
      BY <1>1, <1>3, <2>2, <3>0 DEF Typed, InUse
    <3>2. \A x \in Tokens : Timely(x) => Timely(x)'
      <4> SUFFICES ASSUME NEW x \in Tokens, Timely(x), x.session # 0
                   PROVE  Newest(x.session)' /\ x.at <= used'[x.session] + 1
        BY DEF Timely, Newest
      <4>1. Newest(x.session) /\ x.session \in Sessions /\ x.at <= used[x.session] + 1 /\ x.at \in Int
        BY DEF Timely, Newest, Tokens
      <4> QED BY <1>3, <1>5, <1>6, <4>1
    <3>3. r.phase # "idle" => r \in Requests /\ r.own \in Tokens /\ r.at \in Nat /\ r.own.at \in Nat
      BY <3>1, IdlePhase DEF Requests, Tokens
    <3>4. r.phase \in {"oauth", "login"} => Timely(r.own)'
      BY <3>1, <3>2, <3>3 DEF Current
    <3>5. r.phase = "send" =>
            /\ r.own.session \in Sessions /\ used'[r.own.session] >= 0
            /\ r.own.at <= used'[r.own.session] + 1
            /\ \A k \in Sessions : used'[k] >= 0 => k <= r.own.session \/ used'[k] >= r.at
      <4> SUFFICES ASSUME r.phase = "send"
                   PROVE  /\ r.own.session \in Sessions /\ used'[r.own.session] >= 0
                          /\ r.own.at <= used'[r.own.session] + 1
                          /\ \A k \in Sessions : used'[k] >= 0 => k <= r.own.session \/ used'[k] >= r.at
        OBVIOUS
      <4>1. /\ r.own.session \in Sessions /\ used[r.own.session] >= 0
            /\ r.own.at <= used[r.own.session] + 1
            /\ \A k \in Sessions : used[k] >= 0 => k <= r.own.session \/ used[k] >= r.at
        BY <3>1 DEF Current
      <4> QED BY <1>3, <1>5, <1>6, <3>3, <4>1
    <3>6. Current(r)'
      BY <1>1, <3>1, <3>4, <3>5 DEF Current
    <3> QED BY <3>1, <3>6 DEF Current, Timely, Newest
  <2> QED BY <2>1, <2>2
<1> QED BY <1>6, <1>7, <1>8 DEF InUse

\* A new session: whoever sends under another began before it was made.
LEMMA LoginInUse ==
  ASSUME IInv, InUse, "cacheWrite" \notin Faults, NEW s \in Senders, LoginAnswers(s)
  PROVE  InUse'
<1>1. PICK n \in Sessions :
        /\ Issued = 1..n - 1 /\ used' = [used EXCEPT ![n] = now]
        /\ RunEnds(s, [req[s].own EXCEPT !.session = n, !.at = req[s].at])
  BY DEF LoginAnswers, Sessions
<1> DEFINE t == [req[s].own EXCEPT !.session = n, !.at = req[s].at]
           r == Send(t, req[s].at, req[s].retried)
<1>2. /\ req[s] \in Requests /\ req[s].own \in Tokens /\ req[s].at \in Nat /\ flight = s
      /\ req[s].phase = "login"
  BY HeldOf DEF LoginAnswers
<1>3. Typed /\ used \in [Sessions -> {-1} \cup 0..now] /\ now \in Nat /\ now' = now
  BY DEF IInv, InUse, Typed, LoginAnswers
<1>4. n \in Nat /\ n # 0 /\ used[n] < 0 /\ \A m \in Sessions : used[m] >= 0 => m < n
  <2>1. \A m \in Sessions : m \in Int /\ (used[m] >= 0 <=> m \in 1..n - 1)
    BY <1>1, SessionAssumption DEF Issued, Sessions
  <2>2. n \in Nat /\ n # 0
    BY SessionAssumption DEF Sessions
  <2>3. n \notin 1..n - 1 /\ \A m \in 1..n - 1 : m < n
    BY <2>2
  <2>4. ~(used[n] >= 0) /\ used[n] \in Int
    BY <1>3, <2>1, <2>3
  <2>5. used[n] < 0
    BY <2>4
  <2> QED BY <2>1, <2>2, <2>3, <2>5
<1>5. req' = [req EXCEPT ![s] = r] /\ tokens' = t
  BY <1>1 DEF RunEnds, Caches
<1>6. /\ t.session = n /\ t.at = req[s].at /\ t.expires = req[s].own.expires
      /\ r.phase = "send" /\ r.at = req[s].at /\ r.own = t
  BY <1>2 DEF Send, Tokens
<1>7. req[s].at <= now /\ now <= req[s].at + 1 /\ req[s].at + 2 <= req[s].own.expires
  BY <1>2 DEF InUse, Current
<1>0. PICK z : z = r
  OBVIOUS
<1> HIDE DEF t, r
<1>8. used' \in [Sessions -> {-1} \cup 0..now'] /\ used'[n] = now /\ \A m \in Sessions : m # n => used'[m] = used[m]
  BY <1>1, <1>3
<1>9. Newest(n)'
  BY <1>3, <1>4, <1>8 DEF Newest, Sessions
<1>10. Timely(tokens)'
  BY <1>2, <1>3, <1>5, <1>6, <1>7, <1>8, <1>9 DEF Timely
<1>11. Current(z)'
  <2>1. z.own.at <= used'[z.own.session] + 1 /\ z.at - z.own.at < SessionIdle
    <3>1. req[s].at <= now + 1 /\ req[s].at - req[s].at < SessionIdle
      BY <1>2, <1>3, <1>7, SessionAssumption
    <3> QED BY <1>0, <1>6, <1>8, <3>1
  <2>2. used'[z.own.session] >= 0
    BY <1>0, <1>3, <1>6, <1>8
  <2>3. \A k \in Sessions : used'[k] >= 0 => k <= z.own.session
    BY <1>0, <1>6, <1>9 DEF Newest
  <2> QED BY <1>0, <1>3, <1>6, <1>7, <2>1, <2>2, <2>3 DEF Current
<1>12. \A o \in Senders : Current(req[o])'
  <2> SUFFICES ASSUME NEW o \in Senders PROVE Current(req[o])'
    OBVIOUS
  <2>1. CASE o = s
    <3>1. req'[o] = z
      BY <1>0, <1>3, <1>5, <2>1 DEF Typed
    <3> QED BY <3>1, <1>11 DEF Current, Timely, Newest
  <2>2. CASE o # s
    <3>0. PICK q : q = req[o]
      OBVIOUS
    <3>1. req'[o] = q /\ Current(q) /\ q \in {Idle} \cup Requests
      BY <1>3, <1>5, <2>2, <3>0 DEF Typed, InUse
    <3>2. q.phase \notin {"oauth", "login"}
      BY <1>2, <2>2, <3>0 DEF IInv, Exclusive
    <3>3. q.phase # "idle" => q.at \in Nat
      BY <3>1, IdlePhase DEF Requests
    <3>4. q.phase = "send" =>
            /\ q.own.session \in Sessions /\ used'[q.own.session] = used[q.own.session]
            /\ \A k \in Sessions : used'[k] >= 0 => k <= q.own.session \/ used'[k] >= q.at
      <4> SUFFICES ASSUME q.phase = "send"
                   PROVE  /\ q.own.session \in Sessions /\ used'[q.own.session] = used[q.own.session]
                          /\ \A k \in Sessions : used'[k] >= 0 => k <= q.own.session \/ used'[k] >= q.at
        OBVIOUS
      <4>1. /\ q.own.session \in Sessions /\ used[q.own.session] >= 0 /\ q.at <= now /\ q.at \in Nat
            /\ \A k \in Sessions : used[k] >= 0 => k <= q.own.session \/ used[k] >= q.at
        BY <3>1, <3>3 DEF Current
      <4>2. q.own.session # n
        BY <1>3, <1>4, <4>1
      <4> QED BY <1>8, <4>1, <4>2
    <3>5. Current(q)'
      BY <1>3, <3>1, <3>2, <3>4 DEF Current
    <3> QED BY <3>1, <3>5 DEF Current, Timely, Newest
  <2> QED BY <2>1, <2>2
<1> QED BY <1>8, <1>10, <1>12 DEF InUse

\* The other answers of Verizon to a run use no session.
LEMMA RunInUse ==
  ASSUME IInv, InUse, "cacheWrite" \notin Faults, NEW s \in Senders,
         OAuthAnswers(s) \/ OAuthFails(s) \/ BearerFault(s) \/ LoginFails(s) \/ MailLatch(s)
  PROVE  InUse'
<1>1. Typed /\ Current(req[s]) /\ Timely(tokens)
  BY DEF IInv, InUse
<1>2. req[s].phase \in {"oauth", "login", "mail"} /\ now' = now /\ used' = used
  BY DEF OAuthAnswers, OAuthFails, BearerFault, LoginFails, RunFails, MailLatch
<1>3. req[s] \in Requests /\ req[s].at \in 0..MaxTime /\ req[s].own \in Tokens /\ req[s].retried \in BOOLEAN
  <2>1. req[s] \in Requests
    BY <1>1, <1>2, IdlePhase DEF Typed
  <2> QED BY <2>1 DEF Requests
<1>4. req[s].at <= now /\ now <= req[s].at + 1
  BY <1>1, <1>2 DEF Current
<1>i. Current(Idle)
  BY DEF Current, Idle
<1>5. CASE tokens' = tokens /\ req' = [req EXCEPT ![s] = Idle]
  BY <1>1, <1>2, <1>5, <1>i, OneCurrent DEF InUse
<1>6. CASE tokens' = tokens /\ req' = [req EXCEPT ![s].phase = "mail"]
  <2> DEFINE r == [req[s] EXCEPT !.phase = "mail"]
  <2>1. req' = [req EXCEPT ![s] = r] /\ r.phase = "mail" /\ r.at = req[s].at
    BY <1>1, <1>3, <1>6 DEF Typed, Requests
  <2> HIDE DEF r
  <2>2. Current(r)
    BY <1>4, <2>1 DEF Current
  <2> QED BY <1>1, <1>2, <1>6, <2>1, <2>2, OneCurrent
<1>7. CASE BearerFault(s)
  <2> DEFINE r == [req[s] EXCEPT !.phase = "oauth", !.again = TRUE]
  <2>1. req' = [req EXCEPT ![s] = r] /\ tokens' = tokens
    BY <1>1, <1>7 DEF BearerFault, Typed
  <2>2. r.phase = "oauth" /\ r.at = req[s].at /\ r.own = req[s].own
    BY <1>3 DEF Requests
  <2>3. Timely(req[s].own)
    BY <1>1, <1>7 DEF BearerFault, Current
  <2> HIDE DEF r
  <2>4. Current(r)
    BY <1>4, <2>2, <2>3 DEF Current
  <2> QED BY <1>1, <1>2, <2>1, <2>4, OneCurrent
<1>8. CASE OAuthAnswers(s)
  <2> DEFINE t == [req[s].own EXCEPT !.expires = req[s].at + AccessLife]
  <2>1. t \in Tokens /\ t.session = req[s].own.session /\ t.at = req[s].own.at /\ t.expires = req[s].at + AccessLife
    <3>1. req[s].at + AccessLife \in 0..MaxTime + AccessLife
      BY <1>3, SessionAssumption
    <3> QED BY <1>3, <3>1 DEF Tokens
  <2>2. Timely(t)
    BY <1>1, <1>8, <2>1 DEF OAuthAnswers, Current, Timely
  <2>3. req[s].at + 2 <= t.expires
    BY <1>3, <2>1, SessionAssumption, WindowsAssumption
  <2>4. CASE ~req[s].again /\ SessionFresh(t, req[s].at)
    <3>1. RunEnds(s, t)
      BY <1>8, <2>4 DEF OAuthAnswers
    <3> HIDE DEF t
    <3>2. tokens' = t /\ req' = [req EXCEPT ![s] = Send(t, req[s].at, req[s].retried)]
      BY <3>1 DEF RunEnds, Caches
    <3>3. Current(Send(t, req[s].at, req[s].retried))
      BY <1>1, <1>3, <1>4, <2>1, <2>2, <2>3, <2>4, SendCurrent
    <3>4. Timely(tokens')
      BY <2>2, <3>2
    <3> QED BY <1>1, <1>2, <3>2, <3>3, <3>4, OneCurrent
  <2>5. CASE ~(~req[s].again /\ SessionFresh(t, req[s].at))
    <3> DEFINE r == [req[s] EXCEPT !.phase = "login", !.own = t]
    <3>1. tokens' = tokens /\ req' = [req EXCEPT ![s].phase = "login", ![s].own = t]
      BY <1>8, <2>5 DEF OAuthAnswers
    <3> HIDE DEF t
    <3>2. req' = [req EXCEPT ![s] = r]
      BY <1>1, <3>1 DEF Typed
    <3>3. r.phase = "login" /\ r.at = req[s].at /\ r.own = t
      BY <1>3 DEF Requests
    <3> HIDE DEF r
    <3>4. Current(r)
      BY <1>4, <2>2, <2>3, <3>3 DEF Current
    <3> QED BY <1>1, <1>2, <3>1, <3>2, <3>4, OneCurrent
  <2> QED BY <2>4, <2>5
<1>9. OAuthFails(s) \/ LoginFails(s) \/ MailLatch(s) =>
        tokens' = tokens /\ (req' = [req EXCEPT ![s] = Idle] \/ req' = [req EXCEPT ![s].phase = "mail"])
  BY DEF OAuthFails, LoginFails, RunFails, MailLatch
<1> QED BY <1>5, <1>6, <1>7, <1>8, <1>9

\* The steps of a request outside a run.
LEMMA RequestInUse ==
  ASSUME IInv, InUse, "cacheWrite" \notin Faults, NEW s \in Senders,
         Begin(s) \/ Enter(s) \/ Rejected(s) \/ SendFails(s)
  PROVE  InUse'
<1>1. Typed /\ tokens \in Tokens /\ Timely(tokens) /\ Current(req[s])
  BY DEF IInv, Typed, InUse
<1>2. now' = now /\ used' = used
  BY DEF Begin, Enter, Rejected, SendFails
<1>3. CASE Begin(s)
  <2>1. \E r : req' = [req EXCEPT ![s] = r] /\ Current(r)
    BY <1>1, <1>3, EnsureCurrent DEF Begin
  <2>2. Timely(tokens')
    BY <1>1, <1>3 DEF Begin
  <2> QED BY <1>1, <1>2, <2>1, <2>2, OneCurrent
<1>4. CASE Enter(s)
  <2>1. req[s] \in Requests /\ req[s].phase = "wait"
    BY <1>1, <1>4, IdlePhase DEF Typed, Enter
  <2>2. /\ req[s].at \in 0..MaxTime /\ req[s].retried \in BOOLEAN
        /\ req[s].at <= now /\ now <= req[s].at + 1
    BY <1>1, <2>1 DEF Requests, Current
  <2>3. \E r : req' = [req EXCEPT ![s] = r] /\ Current(r)
    BY <1>1, <1>4, <2>2, LockedCurrent DEF Enter
  <2>4. Timely(tokens')
    BY <1>1, <1>4 DEF Enter
  <2> QED BY <1>1, <1>2, <2>3, <2>4, OneCurrent
<1>5. CASE Rejected(s)
  <2>1. PICK t \in Cached(tokens) :
          \/ tokens' = [t EXCEPT !.expires = 0]
          \/ tokens' = [t EXCEPT !.session = 0, !.at = 0]
    BY <1>5 DEF Rejected, Caches
  <2>2. t \in Tokens /\ Timely(t)
    BY <1>1, EmptyTyped, EmptyTimely DEF Cached
  <2>3. Timely(tokens') /\ tokens' \in Tokens
    <3>1. 0 \in 0..MaxTime + AccessLife /\ 0 \in 0..MaxSessions /\ 0 \in 0..MaxTime
      BY SessionAssumption
    <3>2. CASE tokens' = [t EXCEPT !.expires = 0]
      BY <2>2, <3>1, <3>2 DEF Tokens, Timely
    <3>3. CASE tokens' = [t EXCEPT !.session = 0, !.at = 0]
      <4>1. tokens' \in Tokens /\ tokens'.session = 0
        BY <2>2, <3>1, <3>3 DEF Tokens
      <4> QED BY <4>1 DEF Timely
    <3> QED BY <2>1, <3>2, <3>3
  <2>4. EnsureTokens(s, tokens', TRUE)
    BY <1>5 DEF Rejected
  <2>5. \E r : req' = [req EXCEPT ![s] = r] /\ Current(r)
    BY <1>1, <2>3, <2>4, EnsureCurrent
  <2> QED BY <1>1, <1>2, <2>3, <2>5, OneCurrent
<1>6. CASE SendFails(s)
  <2>1. Current(Idle)
    BY DEF Current, Idle
  <2> QED BY <1>1, <1>2, <1>6, <2>1, OneCurrent DEF SendFails
<1> QED BY <1>3, <1>4, <1>5, <1>6

\* The clock moves on only when every request is in its slot.
LEMMA TickInUse ==
  ASSUME IInv, InUse, Tick
  PROVE  InUse'
<1>1. /\ now' = now + 1 /\ UNCHANGED <<tokens, req, used>>
      /\ \A s \in Senders : req[s] # Idle => req[s].at = now
      /\ now \in Nat
  BY DEF Tick, IInv, Typed
<1>2. used' \in [Sessions -> {-1} \cup 0..now']
  BY <1>1 DEF InUse
<1>3. Timely(tokens)'
  BY <1>1 DEF InUse, Timely, Newest
<1>4. \A s \in Senders : Current(req[s])'
  <2> SUFFICES ASSUME NEW s \in Senders PROVE Current(req[s])'
    OBVIOUS
  <2>1. Current(req[s]) /\ (req[s].phase # "idle" => req[s].at = now)
    BY <1>1, IdlePhase DEF InUse
  <2> QED BY <1>1, <2>1 DEF Current, Timely, Newest
<1> QED BY <1>2, <1>3, <1>4 DEF InUse

LEMMA StepsInUse ==
  ASSUME IInv, InUse, "cacheWrite" \notin Faults, [Next]_session_vars
  PROVE  InUse'
<1>1. CASE Reset \/ ChangeCredentials
  <2>1. req' = [s \in Senders |-> Idle] /\ UNCHANGED <<now, tokens, used>>
    BY <1>1 DEF Reset, ChangeCredentials, Forgotten
  <2>2. \A s \in Senders : Current(req[s])'
    BY <2>1 DEF Current, Idle
  <2> QED BY <2>1, <2>2 DEF InUse, Timely, Newest
<1>2. CASE UNCHANGED session_vars
  BY <1>2 DEF session_vars, InUse, Timely, Newest, Current
<1> QED
  BY <1>1, <1>2, SentInUse, LoginInUse, RunInUse, RequestInUse, TickInUse DEF Next

\* Whatever is cached, dropped, refreshed, waited for or touched by another request meanwhile, a
\* message goes out under a session Verizon still holds and with a token that has not expired,
\* unless a write of the cache may fail (thingspace.rs ensure_tokens, touch_session).
THEOREM HeldInTime == Spec => []HeldAtVerizon
<1>1. CASE "cacheWrite" \in Faults
  <2>1. HeldAtVerizon
    BY <1>1 DEF HeldAtVerizon
  <2> QED BY <2>1, PTL
<1>2. CASE "cacheWrite" \notin Faults
  <2>1. IInv /\ InUse => HeldAtVerizon
    <3> SUFFICES ASSUME IInv, InUse, NEW s \in Senders, req[s].phase = "send"
                 PROVE  now < req[s].own.expires /\ now - used[req[s].own.session] < VerizonIdle
      BY DEF HeldAtVerizon
    <3> DEFINE at == req[s].at
               t == req[s].own
    <3>1. req[s] \in Requests
      BY IdlePhase DEF IInv, Typed
    <3>2. at \in Int /\ t.at \in Int /\ t.expires \in Int /\ now \in Int
      BY <3>1 DEF Requests, Tokens, IInv, Typed
    <3>3. /\ now <= at + 1 /\ at + 2 <= t.expires /\ at - t.at < SessionIdle
          /\ t.at <= used[t.session] + 1 /\ t.session \in Sessions
      BY DEF InUse, Current
    <3>4. used[t.session] \in Int /\ SessionIdle \in Int /\ VerizonIdle \in Int
      BY <3>2, <3>3, SessionAssumption DEF InUse
    <3> HIDE DEF at, t
    <3>5. now < t.expires /\ now - used[t.session] < VerizonIdle
      BY <3>2, <3>3, <3>4, WindowsAssumption
    <3> QED BY <3>5 DEF t
  <2>2. IInv /\ InUse /\ [Next]_session_vars => InUse'
    BY <1>2, StepsInUse
  <2>3. Init => InUse
    BY InitInUse
  <2> QED BY <2>1, <2>2, <2>3, Inductive, PTL DEF Spec
<1> QED BY <1>1, <1>2
=============================================================================
