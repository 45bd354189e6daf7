----------------------------- MODULE LatestStore -----------------------------
(***************************************************************************)
(* The latest-value store of a pigeon's object, one entry per key, and the *)
(* pure functions a report passes through on its way into it: resolving    *)
(* the device's times, merging a batch, evicting to the cap, folding in    *)
(* the table the store replaced. A value is named for the reading that     *)
(* brought it, so that an entry says where it came from.                   *)
(***************************************************************************)
EXTENDS Integers, Sequences, FiniteSets, Functions

CONSTANTS
  Keys,       \* metric keys, which sort as numbers
  MaxKeys,    \* MAX_TELEMETRY_KEYS
  MaxReadings,\* MAX_TELEMETRY_BATCH_READINGS
  Backdate    \* MAX_TELEMETRY_BACKDATE_SECS

\* A key has at most MAX_TELEMETRY_KEY_BYTES bytes: there are finitely many.
ASSUME StoreAssumption ==
  /\ Keys \subseteq Nat /\ IsFiniteSet(Keys)
  /\ MaxKeys \in Nat /\ MaxReadings \in Nat /\ Backdate \in Nat

\* A reading as the device sends it: what it says of its time, and its keys.
Claims == [kind : {"age", "at", "none"}, n : Int]
Reports == [claim : Claims, keys : SUBSET Keys]

Empty == [k \in {} |-> 0]

\* Mutant of ResolveAt: a clock that runs fast is believed.
ResolveAtFast(claim, now) ==
  IF claim.kind = "age" THEN now - claim.n ELSE IF claim.kind = "at" THEN claim.n ELSE now

\* A claim is relative, absolute or absent; the future is now, and the past
\* reaches back no further than the window.
ResolveAt(claim, now) ==
  LET claimed == CASE claim.kind = "age" -> now - (IF claim.n < 0 THEN 0 ELSE claim.n)
                   [] claim.kind = "at"  -> claim.n
                   [] claim.kind = "none" -> now
  IN IF claimed > now THEN now ELSE IF claimed < now - Backdate THEN now - Backdate ELSE claimed

KeysOf(readings) == UNION {readings[i].keys : i \in DOMAIN readings}

\* A batch is refused whole.
Acceptable(body) ==
  /\ Len(body) \in 1..MaxReadings
  /\ \A i \in DOMAIN body : body[i].keys # {}
  /\ Cardinality(KeysOf(body)) <= MaxKeys

\* Chronological, and as the device sent them where the times are the same.
ResolveBatch(body, now) ==
  LET at(i) == ResolveAt(body[i].claim, now)
      rank(i) == Cardinality({j \in DOMAIN body : at(j) < at(i) \/ (at(j) = at(i) /\ j <= i)})
      nth(p) == CHOOSE i \in DOMAIN body : rank(i) = p
  IN [p \in DOMAIN body |-> [at |-> at(nth(p)), keys |-> body[nth(p)].keys]]

----------------------------------------------------------------------------
\* Mutant of EvictToCap: the report's own keys are candidates too.
EvictAny(store, protected) ==
  LET older(j, k) == store[j].at < store[k].at \/ (store[j].at = store[k].at /\ j < k)
      victims == {k \in DOMAIN store : Cardinality({j \in DOMAIN store : older(j, k)})
                                       < Cardinality(DOMAIN store) - MaxKeys}
  IN [k \in DOMAIN store \ victims |-> store[k]]

\* The least recently reported keys go; the report's own never do.
EvictToCap(store, protected) ==
  LET candidates == DOMAIN store \ protected
      older(j, k) == store[j].at < store[k].at \/ (store[j].at = store[k].at /\ j < k)
      victims == {k \in candidates : Cardinality({j \in candidates : older(j, k)})
                                     < Cardinality(DOMAIN store) - MaxKeys}
  IN [k \in DOMAIN store \ victims |-> store[k]]

\* Mutant of MergeReading: the last to arrive wins.
MergeLast(store, reading) ==
  [k \in DOMAIN store \cup reading.keys |->
    IF k \in reading.keys THEN [from |-> reading.id, at |-> reading.at] ELSE store[k]]

\* A reading older than the entry it meets leaves the entry alone.
MergeReading(store, reading) ==
  [k \in DOMAIN store \cup reading.keys |->
    IF k \in reading.keys /\ ~(k \in DOMAIN store /\ store[k].at > reading.at)
    THEN [from |-> reading.id, at |-> reading.at] ELSE store[k]]

\* What stood in the store before the reading, for each key it brings.
PreviousOf(store, reading) == [k \in DOMAIN store \cap reading.keys |-> store[k]]

\* The store as each reading of a batch leaves it: at i, the first i are in.
Merged(store, readings) ==
  LET after[i \in 0..Len(readings)] ==
        IF i = 0 THEN store ELSE MergeReading(after[i - 1], readings[i])
  IN after

MergeBatch(store, readings) ==
  LET after == Merged(store, readings)
  IN [store |-> EvictToCap(after[Len(readings)], KeysOf(readings)),
      readings |-> [i \in DOMAIN readings |->
        [readings[i] EXCEPT !.previous = PreviousOf(after[i - 1], readings[i])]]]

\* The store wins over the rows of the retired table.
FoldLegacyRows(store, rows) ==
  EvictToCap([k \in DOMAIN store \cup DOMAIN rows |-> IF k \in DOMAIN store THEN store[k] ELSE rows[k]], {})
==============================================================================
