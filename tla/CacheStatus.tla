----------------------------- MODULE CacheStatus -----------------------------
(***************************************************************************)
(* How many keys a domain of the response cache holds: the status is read  *)
(* in batches from a SCAN whose guarantees are weak, while responses are   *)
(* stored, expire and are cleared.  A scan may return a key twice, and it  *)
(* returns for certain only the keys that are there from first to last.    *)
(***************************************************************************)
EXTENDS Integers, FiniteSets

CONSTANTS Key

\* What the constants must be.
ASSUME CacheStatusAssumption == IsFiniteSet(Key)

VARIABLES
  present,   \* the keys of the domain
  pc,        \* the next step of the reader
  batch,     \* the new keys of the last batch whose time to live is still to be read
  seen,      \* the keys of all batches
  count,     \* the keys it has counted
  returned,  \* what its scan has returned
  stable,    \* history: keys that have been there since it began
  ever       \* history: keys that have been there at any time since

statusVars == <<present, pc, batch, seen, count, returned, stable, ever>>

StatusInit ==
  /\ present \in SUBSET Key
  /\ pc = "idle" /\ batch = {} /\ seen = {} /\ count = 0
  /\ returned = {} /\ stable = {} /\ ever = {}

Store(k) ==
  /\ present' = present \cup {k}
  /\ ever' = IF pc = "idle" THEN ever ELSE ever \cup {k}
  /\ UNCHANGED <<pc, batch, seen, count, returned, stable>>

\* A key expires, or all of them are cleared.
Remove(ks) ==
  /\ present' = present \ ks
  /\ stable' = stable \ ks
  /\ UNCHANGED <<pc, batch, seen, count, returned, ever>>

GetDomainStatus ==
  /\ pc = "idle"
  /\ pc' = "scan"
  /\ batch' = {} /\ seen' = {} /\ count' = 0 /\ returned' = {}
  /\ stable' = present /\ ever' = present
  /\ UNCHANGED present

\* Mutant: a key is counted as often as the scan returns it.
ScanRepeated(keys) ==
  /\ pc = "scan"
  /\ batch' = keys
  /\ seen' = seen \cup keys
  /\ returned' = returned \cup keys
  /\ pc' = "count"
  /\ UNCHANGED <<present, count, stable, ever>>

Scan(keys) ==
  /\ pc = "scan"
  /\ batch' = keys \ seen
  /\ seen' = seen \cup keys
  /\ returned' = returned \cup keys
  /\ pc' = "count"
  /\ UNCHANGED <<present, count, stable, ever>>

\* The times to live are read one by one, and a key without one is not counted.
CountKey(k) ==
  /\ pc = "count" /\ k \in batch
  /\ count' = IF k \in present THEN count + 1 ELSE count
  /\ batch' = batch \ {k}
  /\ UNCHANGED <<present, pc, seen, returned, stable, ever>>

\* The scan is over when its cursor is back at zero.
NextBatch ==
  /\ pc = "count" /\ batch = {}
  /\ pc' = "scan" \/ (stable \subseteq returned /\ pc' = "done")
  /\ UNCHANGED <<present, batch, seen, count, returned, stable, ever>>

Answer ==
  /\ pc = "done" /\ pc' = "idle"
  /\ UNCHANGED <<present, batch, seen, count, returned, stable, ever>>

StatusNext ==
  \/ \E k \in Key : Store(k) \/ CountKey(k)
  \/ \E ks \in {{k} : k \in Key} \cup {Key} : Remove(ks)
  \/ GetDomainStatus \/ NextBatch \/ Answer
  \/ \E keys \in SUBSET present : Scan(keys)

StatusSpec == StatusInit /\ [][StatusNext]_statusVars

\* Every variable keeps its type, and no key is counted more than once.
StatusTypeOK ==
  /\ present \subseteq Key
  /\ pc \in {"idle", "scan", "count", "done"}
  /\ batch \subseteq seen /\ seen \subseteq Key
  /\ count \in 0 .. Cardinality(seen)
  /\ returned \subseteq Key
  /\ stable \subseteq present \cap ever
  /\ ever \subseteq Key

\* The number shown counts every key that was there all the time, and no key twice.
CountIsPlausible ==
  pc = "done" => Cardinality(stable) <= count /\ count <= Cardinality(ever)
=============================================================================
