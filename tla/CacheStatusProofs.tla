-------------------------- MODULE CacheStatusProofs --------------------------
(***************************************************************************)
(* Proofs about CacheStatus, for any finite set of keys.                   *)
(***************************************************************************)
EXTENDS CacheStatus, FiniteSetTheorems, TLAPS

\* What the reader's sets are to each other while keys come and go.
SetsInv ==
  /\ present \subseteq Key /\ ever \subseteq Key /\ seen \subseteq Key
  /\ batch \subseteq seen /\ returned = seen
  /\ stable \subseteq present \cap ever
  /\ pc \in {"idle", "scan", "count", "done"}
  /\ pc # "idle" => present \subseteq ever
  /\ pc \in {"scan", "done"} => batch = {}
  /\ pc = "done" => stable \subseteq returned

\* C is what has been counted: no key twice, none that never was there, and of the keys it
\* has dealt with every one that was there all the time.
Counts(C) ==
  /\ Cardinality(C) = count
  /\ C \subseteq ever /\ C \subseteq seen \ batch
  /\ (stable \cap seen) \ batch \subseteq C

IInv == SetsInv /\ \E C \in SUBSET Key : Counts(C)

\* Before the first reading nothing has been counted.
LEMMA InitIInv == StatusInit => IInv
<1>. SUFFICES ASSUME StatusInit PROVE IInv
  OBVIOUS
<1>1. SetsInv
  BY DEF StatusInit, SetsInv
<1>2. Counts({})
  BY FS_EmptySet DEF StatusInit, Counts
<1>. QED
  BY <1>1, <1>2 DEF IInv

\* Storing, expiring and every step of the reader keep its sets related.
LEMMA StepSetsInv == SetsInv /\ [StatusNext]_statusVars => SetsInv'
<1>. SUFFICES ASSUME SetsInv, [StatusNext]_statusVars PROVE SetsInv'
  OBVIOUS
<1>1. ASSUME NEW k \in Key, Store(k) PROVE SetsInv'
  BY <1>1 DEF Store, SetsInv
<1>2. ASSUME NEW k \in Key, CountKey(k) PROVE SetsInv'
  BY <1>2 DEF CountKey, SetsInv
<1>3. ASSUME NEW ks \in SUBSET Key, Remove(ks) PROVE SetsInv'
  BY <1>3 DEF Remove, SetsInv
<1>4. CASE GetDomainStatus
  BY <1>4 DEF GetDomainStatus, SetsInv
<1>5. CASE NextBatch
  BY <1>5 DEF NextBatch, SetsInv
<1>6. CASE Answer
  BY <1>6 DEF Answer, SetsInv
<1>7. ASSUME NEW keys \in SUBSET present, Scan(keys) PROVE SetsInv'
  BY <1>7 DEF Scan, SetsInv
<1>8. CASE UNCHANGED statusVars
  BY <1>8 DEF statusVars, SetsInv
<1>9. \A ks \in {{k} : k \in Key} \cup {Key} : ks \in SUBSET Key
  OBVIOUS
<1>. QED
  BY <1>1, <1>2, <1>3, <1>4, <1>5, <1>6, <1>7, <1>8, <1>9 DEF StatusNext

\* Only a key that is there when its time to live is read adds to the count, and a key is
\* in one batch only.
LEMMA StepCounts ==
  ASSUME IInv, [StatusNext]_statusVars
  PROVE  \E C \in SUBSET Key : Counts(C)'
<1>1. PICK C \in SUBSET Key : Counts(C)
  BY DEF IInv
<1>2. IsFiniteSet(C)
  BY CacheStatusAssumption, FS_Subset
<1>3. ASSUME NEW k \in Key, CountKey(k), k \in present
      PROVE  C \cup {k} \in SUBSET Key /\ Counts(C \cup {k})'
  <2>1. k \in batch /\ k \in ever /\ k \notin C
    BY <1>1, <1>3 DEF CountKey, Counts, IInv, SetsInv
  <2>2. Cardinality(C \cup {k}) = Cardinality(C) + 1
    BY <1>2, <2>1, FS_AddElement
  <2>3. Cardinality(C \cup {k}) = count'
    BY <1>1, <1>3, <2>2 DEF CountKey, Counts
  <2>4. C \cup {k} \subseteq ever' /\ C \cup {k} \subseteq seen' \ batch'
    BY <1>1, <1>3, <2>1 DEF CountKey, Counts, IInv, SetsInv
  <2>5. (stable' \cap seen') \ batch' \subseteq C \cup {k}
    BY <1>1, <1>3 DEF CountKey, Counts
  <2>. QED
    BY <2>3, <2>4, <2>5 DEF Counts
<1>4. ASSUME NEW k \in Key, CountKey(k), k \notin present PROVE Counts(C)'
  BY <1>1, <1>4 DEF CountKey, Counts, IInv, SetsInv
<1>5. ASSUME NEW k \in Key, Store(k) PROVE Counts(C)'
  BY <1>1, <1>5 DEF Store, Counts
<1>6. ASSUME NEW ks, Remove(ks) PROVE Counts(C)'
  BY <1>1, <1>6 DEF Remove, Counts
<1>7. CASE GetDomainStatus
  <2>1. Counts({})'
    BY <1>7, FS_EmptySet DEF GetDomainStatus, Counts
  <2>. QED
    BY <2>1
<1>8. CASE NextBatch \/ Answer \/ UNCHANGED statusVars
  BY <1>1, <1>8 DEF NextBatch, Answer, statusVars, Counts
<1>9. ASSUME NEW keys \in SUBSET present, Scan(keys) PROVE Counts(C)'
  <2>1. batch = {}
    BY <1>9 DEF Scan, IInv, SetsInv
  <2>. QED
    BY <1>1, <1>9, <2>1 DEF Scan, Counts
<1>. QED
  BY <1>1, <1>3, <1>4, <1>5, <1>6, <1>7, <1>8, <1>9 DEF StatusNext

\* Types, and a count that is at most the number of keys the scan has returned, whatever is
\* stored, expires or is cleared between two steps of the loop of get_domain_status.
THEOREM TypeCorrect == StatusSpec => []StatusTypeOK
<1>1. IInv /\ [StatusNext]_statusVars => IInv'
  BY StepSetsInv, StepCounts DEF IInv
<1>2. IInv => StatusTypeOK
  <2>. SUFFICES ASSUME IInv PROVE StatusTypeOK
    OBVIOUS
  <2>1. PICK C \in SUBSET Key : Counts(C)
    BY DEF IInv
  <2>2. IsFiniteSet(seen)
    BY CacheStatusAssumption, FS_Subset DEF IInv, SetsInv
  <2>3. Cardinality(C) <= Cardinality(seen)
    BY <2>1, <2>2, FS_Subset DEF Counts
  <2>4. Cardinality(C) \in Nat /\ Cardinality(seen) \in Nat
    BY <2>2, FS_Subset, FS_CardinalityType, CacheStatusAssumption
  <2>5. count \in 0 .. Cardinality(seen)
    BY <2>1, <2>3, <2>4 DEF Counts
  <2>. QED
    BY <2>5 DEF IInv, SetsInv, StatusTypeOK
<1>. QED
  BY <1>1, <1>2, InitIInv, PTL DEF StatusSpec

\* The number of cached responses that the page shows counts every key that was there from
\* the first batch to the last, and is no more than the keys that were there at any time:
\* repetitions of the scan and keys that come and go do not add to it.
THEOREM PlausibleCount == StatusSpec => []CountIsPlausible
<1>1. IInv /\ [StatusNext]_statusVars => IInv'
  BY StepSetsInv, StepCounts DEF IInv
<1>2. IInv => CountIsPlausible
  <2>. SUFFICES ASSUME IInv, pc = "done"
                PROVE  Cardinality(stable) <= count /\ count <= Cardinality(ever)
    BY DEF CountIsPlausible
  <2>1. PICK C \in SUBSET Key : Counts(C)
    BY DEF IInv
  <2>2. stable \subseteq C /\ C \subseteq ever
    BY <2>1 DEF IInv, SetsInv, Counts
  <2>3. IsFiniteSet(C) /\ IsFiniteSet(ever)
    BY CacheStatusAssumption, FS_Subset DEF IInv, SetsInv
  <2>4. Cardinality(stable) <= Cardinality(C) /\ Cardinality(C) <= Cardinality(ever)
    BY <2>2, <2>3, FS_Subset
  <2>. QED
    BY <2>1, <2>4 DEF Counts
<1>. QED
  BY <1>1, <1>2, InitIInv, PTL DEF StatusSpec
=============================================================================
