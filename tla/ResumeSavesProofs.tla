------------------------- MODULE ResumeSavesProofs -------------------------
(***************************************************************************)
(* Proofs about ResumeSaves, for any number of requests about any number   *)
(* of resumes, whatever they ask.                                          *)
(***************************************************************************)
EXTENDS ResumeSaves, TLAPS

Writes(p) == doing[p].op \in {"update", "create"}
\* No change of the resume of p was committed since its first statement.
Untouched(p) == \A j \in ChangesOf(Id(p)) : j <= began[p]

\* Who has written a row is about to commit, and who is about to commit has written its row,
\* but for a deletion that found none.
Locks ==
  /\ \A r \in ResumeId : \A p \in Call : held[r] = p => at[p] = "commit" /\ Id(p) = r
  /\ \A p \in Call :
       at[p] = "commit" =>
         /\ doing[p].op \in {"update", "create", "delete"}
         /\ Writes(p) => held[Id(p)] = p /\ left[p] \in ResumeRow
  /\ \A p \in Call : doing[p].op = "delete" => left[p] = NoRow

\* A request changes a row once, with its commit.
LogOnce ==
  /\ \A i \in DOMAIN log : at[log[i]] \in {"200", "201", "204"}
  /\ \A i, j \in DOMAIN log : log[i] = log[j] => i = j

\* Until a resume is created it has no row, no change, and nobody finds it.
NotYetCreated ==
  /\ \A p, q \in Call : doing[p].op = "create" /\ doing[q].op = "create" /\ p # q => Id(p) # Id(q)
  /\ \A p \in Call :
    doing[p].op = "create" /\ at[p] \in {"start", "commit"} =>
      /\ row[Id(p)] = NoRow /\ ChangesOf(Id(p)) = {}
      /\ held[Id(p)] = IF at[p] = "commit" THEN p ELSE Free
      /\ \A q \in Call \ {p} : Id(q) = Id(p) => at[q] \in {"start", "404"}

\* What is deleted does not come back; what is being saved is there.
Gone ==
  /\ \A i \in DOMAIN log : doing[log[i]].op = "delete" => row[Id(log[i])] = NoRow
  /\ \A p \in Call : at[p] = "commit" /\ doing[p].op = "update" => row[Id(p)] # NoRow

\* Only a save reads its resume again.
Reading == \A p \in Call : at[p] = "read" => doing[p].op = "update"

\* What a session holds is what is stored, until another request commits a change.
Fresh ==
  \A p \in Call :
    /\ at[p] \in {"read", "write"} /\ doing[p].op = "update" /\ Untouched(p) =>
         /\ first[p] = row[Id(p)]
         /\ at[p] = "write" => loaded[p] = row[Id(p)]
    /\ at[p] = "commit" /\ (Untouched(p) \/ doing[p].op = "create") /\ Writes(p) => left[p] = Sent(p)

\* Every column to be stored is one that was asked for or was there at first.
LeftColumns ==
  \A p \in Call :
    at[p] = "commit" /\ Writes(p) => \A c \in Columns : left[p][c] \in {w[c] : w \in Wholes(Id(p))}

IInv ==
  /\ SavesTypeOK /\ Locks /\ LogOnce /\ NotYetCreated /\ Gone /\ Reading /\ Fresh /\ LeftColumns
  /\ SavedWhole /\ MixedOnlyByOverlap /\ SavedWasKept

----------------------------------------------------------------------------
\* The type of every request's question.
LEMMA Asked == ASSUME SavesTypeOK, NEW p \in Call
               PROVE /\ doing[p].op \in {"create", "get", "export", "update", "delete"}
                     /\ Id(p) \in ResumeId
                     /\ doing[p].title \in Values /\ doing[p].content \in Values
                     /\ \A c \in Columns : doing[p][c] \in Values
                     /\ Sent(p) \in ResumeRow
  BY SavesAssumption DEF SavesTypeOK, Id, Columns, Sent, ResumeRow

\* What was asked does not change, nor what follows from it.
LEMMA AskedStays == ASSUME doing' = doing
                    PROVE /\ \A p : Id(p)' = Id(p) /\ Sent(p)' = Sent(p)
                          /\ \A p : Writes(p)' = Writes(p)
                          /\ \A r : Wholes(r)' = Wholes(r)
  BY DEF Id, Sent, Wholes, Writes

\* The steps but a commit.
Quiet(p) == GetResume(p) \/ GetResumeAgain(p) \/ Save(p) \/ Delete(p) \/ Create(p)

\* They leave committed rows, and the changes of them, as they are.
LEMMA QuietLeaves == ASSUME SavesTypeOK, Reading, NEW p \in Call, Quiet(p)
                     PROVE /\ row' = row /\ log' = log /\ doing' = doing
                           /\ \A r : ChangesOf(r)' = ChangesOf(r)
                           /\ \A q \in Call \ {p} : /\ at'[q] = at[q] /\ first'[q] = first[q]
                                                       /\ loaded'[q] = loaded[q] /\ left'[q] = left[q]
                                                       /\ began'[q] = began[q]
                           /\ at[p] # "start" => began' = began
                           /\ at[p] \in {"start", "read", "write"}
                           /\ at'[p] \in {"read", "write", "commit", "200", "404", "500"}
                           /\ at'[p] \in {"read", "write"} => doing[p].op \in {"update", "delete"}
                           /\ at'[p] = "200" => doing[p].op \in {"get", "export"}
                           /\ at'[p] = "read" => doing[p].op = "update"
<1>1. row' = row /\ log' = log /\ doing' = doing /\ at[p] \in {"start", "read", "write"}
  BY DEF Quiet, GetResume, GetResumeAgain, Save, Delete, Create
<1>2. \A r : ChangesOf(r)' = ChangesOf(r)
  BY <1>1 DEF ChangesOf, Id
<1>3. \A q \in Call \ {p} : /\ at'[q] = at[q] /\ first'[q] = first[q] /\ loaded'[q] = loaded[q]
                               /\ left'[q] = left[q] /\ began'[q] = began[q]
  BY DEF SavesTypeOK, Respond, Quiet, GetResume, GetResumeAgain, Save, Delete, Create
<1>4. at[p] # "start" => began' = began
  BY DEF Quiet, GetResume, GetResumeAgain, Save, Delete, Create
<1>5. /\ at'[p] \in {"read", "write", "commit", "200", "404", "500"}
      /\ at'[p] \in {"read", "write"} => doing[p].op \in {"update", "delete"}
      /\ at'[p] = "200" => doing[p].op \in {"get", "export"}
      /\ at'[p] = "read" => doing[p].op = "update"
  <2>1. CASE GetResume(p)
    BY <2>1, Asked DEF SavesTypeOK, Respond, GetResume
  <2>2. CASE GetResumeAgain(p)
    BY <2>2 DEF SavesTypeOK, Respond, GetResumeAgain, Reading
  <2>3. CASE Save(p) \/ Delete(p) \/ Create(p)
    BY <2>3 DEF SavesTypeOK, Respond, Save, Delete, Create
  <2>. QED
    BY <2>1, <2>2, <2>3 DEF Quiet
<1>. QED
  BY <1>1, <1>2, <1>3, <1>4, <1>5

\* At first nothing is under way.
LEMMA InitIInv == SavesInit => IInv
<1>. SUFFICES ASSUME SavesInit PROVE IInv
  OBVIOUS
<1>1. SavesTypeOK
  BY SavesAssumption DEF SavesInit, SavesTypeOK, ResumeRow, Free
<1>2. \A r : ChangesOf(r) = {}
  BY DEF SavesInit, ChangesOf
<1>3. Locks /\ LogOnce /\ Gone /\ Reading /\ Fresh /\ LeftColumns
  BY SavesAssumption DEF SavesInit, Locks, LogOnce, Gone, Reading, Fresh, LeftColumns, Free
<1>4. NotYetCreated
  <2>1. \A p \in Call : doing[p].op = "create" => row[Id(p)] = NoRow
    BY <1>1, Asked, SavesAssumption DEF SavesInit, Id, SavesTypeOK
  <2>. QED
    BY <1>1, <1>2, <2>1, Asked DEF NotYetCreated, SavesInit, Id
<1>5. SavedWhole /\ SavedWasKept
  BY DEF SavesInit, SavedWhole, SavedWasKept
<1>6. MixedOnlyByOverlap
  <2>. SUFFICES ASSUME NEW r \in ResumeId, row[r] # NoRow
                PROVE row[r] \in Wholes(r)
    BY DEF MixedOnlyByOverlap
  <2>. QED
    BY DEF SavesInit, Wholes
<1>. QED
  BY <1>1, <1>3, <1>4, <1>5, <1>6 DEF IInv

\* Rows of a save are made of what it asked and what it found.
LEMMA SavedRow == ASSUME SavesTypeOK, NEW p \in Call, Save(p), row[Id(p)] # NoRow
                  PROVE /\ left'[p] = [c \in Columns |-> IF c \in WrittenColumns(p) THEN doing[p][c]
                                                                                    ELSE row[Id(p)][c]]
                        /\ left'[p] \in ResumeRow
<1>1. Id(p) \in ResumeId /\ row[Id(p)] \in ResumeRow /\ \A c \in Columns : doing[p][c] \in Values
  BY Asked DEF SavesTypeOK
<1>2. left'[p] = [c \in Columns |-> IF c \in WrittenColumns(p) THEN doing[p][c] ELSE row[Id(p)][c]]
  BY DEF Save, SavesTypeOK
<1>. QED
  BY <1>1, <1>2 DEF ResumeRow

\* Every step keeps the variables in their types.
LEMMA QuietTypeOK == ASSUME SavesTypeOK, Reading, NEW p \in Call, Quiet(p) PROVE SavesTypeOK'
<1>. USE SavesAssumption, Asked, AskedStays DEF SavesTypeOK, Respond
<1>0. /\ row' = row /\ log' = log /\ doing' = doing /\ Id(p) \in ResumeId
      /\ Len(log) \in Nat
  BY QuietLeaves
<1>1. CASE GetResume(p)
  <2>1. began' \in [Call -> 0 .. Len(log)]
    BY <1>0, <1>1 DEF GetResume
  <2>2. at' \in [Call -> {"start", "read", "write", "commit", "200", "201", "204", "404", "500"}]
    BY <1>0, <1>1 DEF GetResume
  <2>3. first' \in [Call -> ResumeRow \cup {NoRow}] /\ loaded' \in [Call -> ResumeRow \cup {NoRow}]
    BY <1>0, <1>1 DEF GetResume
  <2>. QED
    BY <1>0, <1>1, <2>1, <2>2, <2>3 DEF GetResume
<1>2. CASE GetResumeAgain(p)
  <2>1. \A known \in {first[p], row[Id(p)]} : known \in ResumeRow \cup {NoRow}
    BY <1>0
  <2>. QED
    BY <1>0, <1>2, <2>1 DEF GetResumeAgain
<1>3. CASE Save(p)
  <2>1. CASE row[Id(p)] = NoRow
    BY <1>0, <1>3, <2>1 DEF Save
  <2>2. CASE row[Id(p)] # NoRow
    <3>1. left'[p] \in ResumeRow
      BY <1>3, <2>2, SavedRow
    <3>2. left' = [left EXCEPT ![p] = left'[p]]
      BY <1>3, <2>2 DEF Save
    <3>3. left' \in [Call -> ResumeRow \cup {NoRow}]
      BY <3>1, <3>2
    <3>4. /\ held' = [held EXCEPT ![Id(p)] = p] /\ at' = [at EXCEPT ![p] = "commit"]
          /\ UNCHANGED <<first, loaded, began>>
      BY <1>3, <2>2 DEF Save
    <3>. QED
      BY <1>0, <3>3, <3>4
  <2>. QED
    BY <2>1, <2>2
<1>4. CASE Delete(p)
  BY <1>0, <1>4 DEF Delete
<1>5. CASE Create(p)
  BY <1>0, <1>5 DEF Create, Sent
<1>. QED
  BY <1>1, <1>2, <1>3, <1>4, <1>5 DEF Quiet

\* What a commit does.
LEMMA CommitDoes == ASSUME SavesTypeOK, Locks, NEW p \in Call, Commit(p)
  PROVE /\ UNCHANGED <<doing, first, loaded, left, began>>
        /\ at[p] = "commit" /\ at'[p] \in {"200", "201", "204"}
        /\ \E done \in {"200", "201", "204"} : at' = [at EXCEPT ![p] = done]
        /\ \A q \in Call \ {p} : at'[q] = at[q]
        /\ doing[p].op = "update" => at'[p] = "200"
        /\ \/ held[Id(p)] # p /\ UNCHANGED <<row, held, log>> /\ doing[p].op = "delete"
           \/ /\ held[Id(p)] = p /\ row' = [row EXCEPT ![Id(p)] = left[p]]
              /\ held' = [held EXCEPT ![Id(p)] = Free]
              /\ log' = Append(log, p)
              /\ DOMAIN log' = DOMAIN log \cup {Len(log) + 1} /\ Len(log) + 1 \notin DOMAIN log
              /\ Len(log') = Len(log) + 1 /\ Len(log) \in Nat
              /\ log'[Len(log) + 1] = p /\ \A i \in DOMAIN log : log'[i] = log[i] /\ log[i] \in Call
              /\ \A r : ChangesOf(r)' = ChangesOf(r) \cup (IF r = Id(p) THEN {Len(log) + 1} ELSE {})
<1>1. /\ UNCHANGED <<doing, first, loaded, left, began>>
      /\ at[p] = "commit" /\ at'[p] \in {"200", "201", "204"}
      /\ \E done \in {"200", "201", "204"} : at' = [at EXCEPT ![p] = done]
      /\ \A q \in Call \ {p} : at'[q] = at[q]
      /\ doing[p].op = "update" => at'[p] = "200"
  BY DEF Commit, Respond, SavesTypeOK, Locks
<1>2. CASE held[Id(p)] # p
  BY <1>1, <1>2 DEF Commit, Locks, Writes
<1>3. CASE held[Id(p)] = p
  <2>1. /\ row' = [row EXCEPT ![Id(p)] = left[p]] /\ held' = [held EXCEPT ![Id(p)] = Free]
        /\ log' = Append(log, p)
    BY <1>3 DEF Commit
  <2>2. /\ DOMAIN log' = DOMAIN log \cup {Len(log) + 1} /\ Len(log) + 1 \notin DOMAIN log
        /\ Len(log') = Len(log) + 1 /\ Len(log) \in Nat
        /\ log'[Len(log) + 1] = p /\ \A i \in DOMAIN log : log'[i] = log[i] /\ log[i] \in Call
    BY <2>1 DEF SavesTypeOK
  <2>3. \A r : ChangesOf(r)' = ChangesOf(r) \cup (IF r = Id(p) THEN {Len(log) + 1} ELSE {})
    BY <1>1, <2>2 DEF ChangesOf, Id
  <2>. QED
    BY <1>1, <1>3, <2>1, <2>2, <2>3
<1>. QED
  BY <1>2, <1>3

\* A commit keeps the variables in their types.
LEMMA CommitTypeOK == ASSUME SavesTypeOK, Locks, NEW p \in Call, Commit(p) PROVE SavesTypeOK'
<1>1. Id(p) \in ResumeId /\ left[p] \in ResumeRow \cup {NoRow}
  BY Asked DEF SavesTypeOK
<1>2. at' \in [Call -> {"start", "read", "write", "commit", "200", "201", "204", "404", "500"}]
  <2>1. PICK done \in {"200", "201", "204"} : at' = [at EXCEPT ![p] = done]
    BY CommitDoes
  <2>. QED
    BY <2>1 DEF SavesTypeOK
<1>3. CASE UNCHANGED <<row, held, log>>
  <2>1. UNCHANGED <<doing, first, loaded, left, began>>
    BY CommitDoes
  <2>. QED
    BY <1>2, <1>3, <2>1 DEF SavesTypeOK
<1>4. CASE held[Id(p)] = p
  <2>1. /\ row' = [row EXCEPT ![Id(p)] = left[p]] /\ held' = [held EXCEPT ![Id(p)] = Free]
        /\ log' = Append(log, p) /\ Len(log') = Len(log) + 1 /\ Len(log) \in Nat
        /\ UNCHANGED <<doing, first, loaded, left, began>>
    BY <1>4, CommitDoes
  <2>2. log' \in Seq(Call)
    BY <2>1 DEF SavesTypeOK
  <2>3. began' \in [Call -> 0 .. Len(log')]
    BY <2>1 DEF SavesTypeOK
  <2>. QED
    BY <1>1, <1>2, <2>1, <2>2, <2>3 DEF SavesTypeOK
<1>. QED
  BY <1>3, <1>4, CommitDoes

\* Locks are taken by a write and let go by the commit.
LEMMA StepLocks == ASSUME IInv, NEW p \in Call, Step(p) PROVE Locks'
<1>0. SavesTypeOK /\ Locks /\ Reading /\ NotYetCreated /\ Id(p) \in ResumeId
  BY Asked DEF IInv
<1>1. CASE Commit(p)
  <2>1. Writes(p)' = Writes(p) /\ doing' = doing /\ left' = left
    BY <1>0, <1>1, CommitDoes DEF Writes
  <2>2. \A q \in Call : at'[q] = "commit" => q # p /\ at[q] = "commit"
    BY <1>0, <1>1, CommitDoes
  <2>3. ASSUME NEW r \in ResumeId, NEW q \in Call, held'[r] = q
        PROVE held[r] = q /\ q # p
    <3>1. CASE held[Id(p)] = p
      BY <1>0, <1>1, <2>3, <3>1, CommitDoes, SavesAssumption DEF SavesTypeOK, Locks
    <3>2. CASE held[Id(p)] # p
      BY <1>0, <1>1, <2>3, <3>2, CommitDoes DEF SavesTypeOK, Locks
    <3>. QED
      BY <3>1, <3>2
  <2>4. ASSUME NEW q \in Call \ {p}, at[q] = "commit", Writes(q)
        PROVE held'[Id(q)] = q
    <3>1. held[Id(q)] = q /\ Id(q) \in ResumeId
      BY <1>0, <2>4, Asked DEF Locks
    <3>. QED
      BY <1>0, <1>1, <3>1, CommitDoes DEF SavesTypeOK
  <2>5. \A q \in Call \ {p} : at'[q] = at[q]
    BY <1>0, <1>1, CommitDoes
  <2>6. \A q \in Call : Writes(q)' = Writes(q) /\ Id(q)' = Id(q)
    BY <2>1, AskedStays
  <2>7. \A r \in ResumeId : \A q \in Call : held'[r] = q => at'[q] = "commit" /\ Id(q) = r
    BY <1>0, <2>3, <2>5 DEF Locks
  <2>8. ASSUME NEW q \in Call
        PROVE /\ at'[q] = "commit" => /\ doing[q].op \in {"update", "create", "delete"}
                                      /\ Writes(q) => held'[Id(q)] = q /\ left[q] \in ResumeRow
              /\ doing[q].op = "delete" => left[q] = NoRow
    BY <1>0, <2>2, <2>4 DEF Locks
  <2>. QED
    BY <2>1, <2>6, <2>7, <2>8 DEF Locks
<1>2. CASE Quiet(p)
  <2>1. /\ doing' = doing /\ at[p] # "commit"
        /\ \A q \in Call \ {p} : at'[q] = at[q] /\ left'[q] = left[q]
    BY <1>0, <1>2, QuietLeaves
  <2>2. \/ held' = held
        \/ /\ held' = [held EXCEPT ![Id(p)] = p] /\ at'[p] = "commit"
           /\ held[Id(p)] = Free
    <3>1. CASE Create(p)
      BY <1>0, <3>1 DEF SavesTypeOK, Respond, Create, NotYetCreated
    <3>2. CASE ~Create(p)
      BY <1>0, <1>2, <3>2 DEF SavesTypeOK, Respond, Quiet, GetResume, GetResumeAgain, Save, Delete
    <3>. QED
      BY <3>1, <3>2
  <2>3. \A r \in ResumeId : \A q \in Call : held'[r] = q => at'[q] = "commit" /\ Id(q) = r
    <3>. SUFFICES ASSUME NEW r \in ResumeId, NEW q \in Call, held'[r] = q
                  PROVE at'[q] = "commit" /\ Id(q) = r
      OBVIOUS
    <3>1. CASE held[r] = q
      BY <1>0, <2>1, <3>1 DEF Locks
    <3>2. CASE held[r] # q
      BY <1>0, <2>2, <3>2 DEF SavesTypeOK
    <3>. QED
      BY <3>1, <3>2
  <2>4. \A q \in Call \ {p} : at[q] = "commit" /\ Writes(q) => held'[Id(q)] = q
    BY <1>0, <2>1, <2>2, Asked, SavesAssumption DEF Locks, SavesTypeOK
  <2>5. at'[p] = "commit" => /\ doing[p].op \in {"update", "create", "delete"}
                             /\ Writes(p) => held'[Id(p)] = p /\ left'[p] \in ResumeRow
    <3>1. CASE Save(p)
      BY <1>0, <3>1, SavedRow DEF Save, SavesTypeOK, Respond
    <3>2. CASE Create(p)
      BY <1>0, <3>2, Asked DEF Create, SavesTypeOK, Sent, Respond
    <3>3. CASE Delete(p) \/ GetResume(p) \/ GetResumeAgain(p)
      BY <1>0, <3>3, Asked DEF Delete, GetResume, GetResumeAgain, SavesTypeOK, Writes, Respond
    <3>. QED
      BY <1>2, <3>1, <3>2, <3>3 DEF Quiet
  <2>6. doing[p].op = "delete" => left'[p] = left[p]
    BY <1>0, <1>2 DEF Quiet, GetResume, GetResumeAgain, Save, Delete, Create, Reading
  <2>7. Writes(p)' = Writes(p) /\ \A q \in Call : Writes(q)' = Writes(q) /\ Id(q)' = Id(q)
    BY <2>1, AskedStays
  <2>9. ASSUME NEW q \in Call
        PROVE /\ at'[q] = "commit" => /\ doing[q].op \in {"update", "create", "delete"}
                                      /\ Writes(q) => held'[Id(q)] = q /\ left'[q] \in ResumeRow
              /\ doing[q].op = "delete" => left'[q] = NoRow
    BY <1>0, <2>1, <2>4, <2>5, <2>6 DEF Locks
  <2>. QED
    BY <2>1, <2>3, <2>7, <2>9 DEF Locks
<1>. QED
  BY <1>1, <1>2 DEF Step, Quiet

\* A request is noted in the log with its commit, which it makes once.
LEMMA StepLogOnce == ASSUME IInv, NEW p \in Call, Step(p) PROVE LogOnce'
<1>0. SavesTypeOK /\ Locks /\ Reading /\ LogOnce
  BY DEF IInv
<1>1. CASE Commit(p)
  <2>1. \A i \in DOMAIN log : log[i] # p
    BY <1>0, <1>1, CommitDoes DEF LogOnce
  <2>2. \A q \in Call \ {p} : at'[q] = at[q]
    BY <1>0, <1>1, CommitDoes
  <2>3. CASE UNCHANGED log
    BY <1>0, <1>1, <2>1, <2>2, <2>3, CommitDoes DEF LogOnce, SavesTypeOK
  <2>4. CASE ~UNCHANGED log
    BY <1>0, <1>1, <2>1, <2>2, <2>4, CommitDoes DEF LogOnce
  <2>. QED
    BY <2>3, <2>4
<1>2. CASE Quiet(p)
  <2>1. /\ log' = log /\ at[p] \notin {"200", "201", "204"}
        /\ \A q \in Call \ {p} : at'[q] = at[q]
        /\ \A i \in DOMAIN log : log[i] \in Call
    BY <1>0, <1>2, QuietLeaves DEF SavesTypeOK
  <2>. QED
    BY <1>0, <2>1 DEF LogOnce
<1>. QED
  BY <1>1, <1>2 DEF Step, Quiet

\* Nobody meets a resume that is still to be created.
LEMMA StepNotYetCreated == ASSUME IInv, NEW p \in Call, Step(p) PROVE NotYetCreated'
<1>0. SavesTypeOK /\ Locks /\ Reading /\ NotYetCreated /\ Id(p) \in ResumeId
  BY Asked DEF IInv
<1>1. doing' = doing
  BY <1>0, CommitDoes, QuietLeaves DEF Step, Quiet
<1>. SUFFICES ASSUME NEW x \in Call, doing[x].op = "create", at'[x] \in {"start", "commit"}
              PROVE /\ row'[Id(x)] = NoRow /\ \A r : r = Id(x) => ChangesOf(r)' = {}
                    /\ held'[Id(x)] = IF at'[x] = "commit" THEN x ELSE Free
                    /\ \A q \in Call \ {x} : Id(q) = Id(x) => at'[q] \in {"start", "404"}
  <2>1. \A q \in Call : Id(q)' = Id(q)
    BY <1>1, AskedStays
  <2>2. \A q \in Call : (\A r : r = Id(q) => ChangesOf(r)' = {}) => ChangesOf(Id(q))' = {}
    BY <2>1 DEF ChangesOf
  <2>. QED
    BY <1>0, <1>1, <2>1, <2>2 DEF NotYetCreated
<1>2. Id(x) \in ResumeId
  BY <1>0, Asked
<1>3. CASE Commit(p)
  <2>1. p # x /\ at'[x] = at[x]
    BY <1>0, <1>3, CommitDoes
  <2>2. Id(p) # Id(x)
    BY <1>0, <1>3, <2>1, CommitDoes DEF NotYetCreated
  <2>3. row'[Id(x)] = row[Id(x)] /\ held'[Id(x)] = held[Id(x)]
        /\ \A r : r = Id(x) => ChangesOf(r)' = ChangesOf(r)
    <3>1. CASE held[Id(p)] = p
      <4>1. /\ row' = [row EXCEPT ![Id(p)] = left[p]] /\ held' = [held EXCEPT ![Id(p)] = Free]
            /\ \A r : ChangesOf(r)' = ChangesOf(r) \cup (IF r = Id(p) THEN {Len(log) + 1} ELSE {})
        BY <1>0, <1>3, <3>1, CommitDoes
      <4>2. \A r : r # Id(p) => ChangesOf(r)' = ChangesOf(r)
        BY <4>1
      <4>. QED
        BY <1>0, <1>2, <2>2, <4>1, <4>2 DEF SavesTypeOK
    <3>2. CASE held[Id(p)] # p
      BY <1>0, <1>1, <1>3, <3>2, CommitDoes DEF ChangesOf, Id
    <3>. QED
      BY <3>1, <3>2
  <2>4. \A q \in Call \ {x} : Id(q) = Id(x) => at'[q] = at[q]
    BY <1>0, <1>3, <2>2, CommitDoes
  <2>. QED
    BY <1>0, <2>1, <2>3, <2>4 DEF NotYetCreated
<1>4. CASE Quiet(p)
  <2>1. /\ row' = row /\ \A r : ChangesOf(r)' = ChangesOf(r)
        /\ \A q \in Call \ {p} : at'[q] = at[q]
        /\ at[p] \in {"start", "read", "write"}
    BY <1>0, <1>4, QuietLeaves
  <2>2. CASE p = x
    <3>1. Create(p)
      BY <1>0, <1>4, <2>1, <2>2 DEF Quiet, GetResume, GetResumeAgain, Save, Delete, Reading, SavesTypeOK
    <3>2. at[p] = "start" /\ at'[p] = "commit" /\ held'[Id(p)] = p
      BY <1>0, <3>1 DEF Create, Respond, SavesTypeOK
    <3>. QED
      BY <1>0, <2>1, <2>2, <3>2 DEF NotYetCreated
  <2>3. CASE p # x /\ Id(p) # Id(x)
    <3>1. held'[Id(x)] = held[Id(x)]
      BY <1>0, <1>2, <1>4, <2>3 DEF Quiet, GetResume, GetResumeAgain, Save, Delete, Create, SavesTypeOK
    <3>. QED
      BY <1>0, <2>1, <2>3, <3>1 DEF NotYetCreated
  <2>4. CASE p # x /\ Id(p) = Id(x)
    <3>1. at[p] = "start" /\ doing[p].op # "create" /\ row[Id(p)] = NoRow
      BY <1>0, <2>1, <2>4 DEF NotYetCreated
    <3>2. GetResume(p)
      BY <1>4, <3>1 DEF Quiet, GetResumeAgain, Save, Delete, Create
    <3>3. at'[p] = "404" /\ held' = held
      BY <1>0, <3>1, <3>2 DEF GetResume, Respond, SavesTypeOK
    <3>. QED
      BY <1>0, <2>1, <2>4, <3>3 DEF NotYetCreated
  <2>. QED
    BY <2>2, <2>3, <2>4
<1>. QED
  BY <1>3, <1>4 DEF Step, Quiet

\* What is deleted stays away, and a row that is being saved is not taken away.
LEMMA StepGone == ASSUME IInv, NEW p \in Call, Step(p) PROVE Gone' /\ Reading'
<1>0. SavesTypeOK /\ Locks /\ Reading /\ NotYetCreated /\ Gone /\ LogOnce /\ Id(p) \in ResumeId
  BY Asked DEF IInv
<1>1. doing' = doing /\ \A q : Id(q)' = Id(q)
  BY <1>0, CommitDoes, QuietLeaves, AskedStays DEF Step, Quiet
<1>2. CASE Quiet(p)
  <2>1. /\ row' = row /\ log' = log
        /\ \A q \in Call \ {p} : at'[q] = at[q]
        /\ at'[p] = "read" => doing[p].op = "update"
    BY <1>0, <1>2, QuietLeaves
  <2>2. at'[p] = "commit" /\ doing[p].op = "update" => row[Id(p)] # NoRow
    BY <1>0, <1>2, QuietLeaves
       DEF Quiet, GetResume, GetResumeAgain, Save, Delete, Create, SavesTypeOK, Respond
  <2>. QED
    BY <1>0, <1>1, <2>1, <2>2 DEF Gone, Reading
<1>3. CASE Commit(p)
  <2>1. /\ \A q \in Call \ {p} : at'[q] = at[q]
        /\ at[p] = "commit" /\ at'[p] \in {"200", "201", "204"}
    BY <1>0, <1>3, CommitDoes
  <2>2. Reading'
    BY <1>0, <1>1, <2>1 DEF Reading
  <2>3. CASE UNCHANGED <<row, log>>
    BY <1>0, <1>1, <2>1, <2>2, <2>3 DEF Gone
  <2>4. CASE held[Id(p)] = p
    <3>1. /\ row' = [row EXCEPT ![Id(p)] = left[p]] /\ DOMAIN log' = DOMAIN log \cup {Len(log) + 1}
          /\ log'[Len(log) + 1] = p /\ \A i \in DOMAIN log : log'[i] = log[i] /\ log[i] \in Call
      BY <1>0, <1>3, <2>4, CommitDoes
    <3>2. \A i \in DOMAIN log : Id(log[i]) = Id(p) /\ doing[log[i]].op = "delete" => doing[p].op = "delete"
      <4>1. SUFFICES ASSUME NEW i \in DOMAIN log, Id(log[i]) = Id(p), doing[log[i]].op = "delete",
                            doing[p].op # "delete"
                     PROVE FALSE
        OBVIOUS
      <4>2. row[Id(p)] = NoRow /\ i \in ChangesOf(Id(p))
        BY <1>0, <4>1 DEF Gone, ChangesOf
      <4>. QED
        BY <1>0, <2>1, <4>1, <4>2 DEF Gone, Locks, NotYetCreated
    <3>3. \A i \in DOMAIN log' : doing[log'[i]].op = "delete" => row'[Id(log'[i])] = NoRow
      <4>. SUFFICES ASSUME NEW i \in DOMAIN log', doing[log'[i]].op = "delete"
                    PROVE row'[Id(log'[i])] = NoRow
        OBVIOUS
      <4>1. CASE i = Len(log) + 1
        BY <1>0, <3>1, <4>1 DEF Locks, SavesTypeOK
      <4>2. CASE i \in DOMAIN log
        <5>1. log'[i] = log[i] /\ row[Id(log[i])] = NoRow /\ Id(log[i]) \in ResumeId
          BY <1>0, <3>1, <4>2, Asked DEF Gone
        <5>2. Id(log[i]) = Id(p) => left[p] = NoRow
          BY <1>0, <3>1, <3>2, <4>2 DEF Locks
        <5>. QED
          BY <1>0, <3>1, <5>1, <5>2 DEF SavesTypeOK
      <4>. QED
        BY <3>1, <4>1, <4>2
    <3>4. \A q \in Call \ {p} : at[q] = "commit" /\ doing[q].op = "update" => Id(q) # Id(p)
      BY <1>0, <2>4 DEF Locks, Writes
    <3>5. ASSUME NEW q \in Call, at'[q] = "commit", doing[q].op = "update"
          PROVE row'[Id(q)] # NoRow
      <4>1. q # p /\ at[q] = "commit" /\ Id(q) # Id(p) /\ Id(q) \in ResumeId
        BY <1>0, <2>1, <3>4, <3>5, Asked
      <4>2. row'[Id(q)] = row[Id(q)]
        BY <1>0, <3>1, <4>1 DEF SavesTypeOK
      <4>. QED
        BY <1>0, <3>5, <4>1, <4>2 DEF Gone
    <3>. QED
      BY <1>1, <2>2, <3>3, <3>5 DEF Gone
  <2>. QED
    BY <1>0, <1>3, <2>3, <2>4, CommitDoes
<1>. QED
  BY <1>2, <1>3 DEF Step, Quiet

\* A commit changes the row of another request's resume only to disturb that request.
LEMMA CommitDisturbs == ASSUME IInv, NEW p \in Call, Commit(p), NEW x \in Call
                        PROVE \/ row'[Id(x)] = row[Id(x)] /\ Untouched(x)' = Untouched(x)
                              \/ ~Untouched(x)'
<1>0. SavesTypeOK /\ Locks /\ Id(p) \in ResumeId /\ Id(x) \in ResumeId
  BY Asked DEF IInv
<1>1. doing' = doing /\ began' = began /\ Id(x)' = Id(x)
  BY <1>0, CommitDoes, AskedStays
<1>2. CASE held[Id(p)] # p
  BY <1>0, <1>1, <1>2, CommitDoes DEF Untouched, ChangesOf, Id
<1>3. CASE held[Id(p)] = p
  <2>1. /\ row' = [row EXCEPT ![Id(p)] = left[p]] /\ Len(log) \in Nat
        /\ \A r : ChangesOf(r)' = ChangesOf(r) \cup (IF r = Id(p) THEN {Len(log) + 1} ELSE {})
    BY <1>0, <1>3, CommitDoes
  <2>2. ChangesOf(Id(x))' = ChangesOf(Id(x)) \cup (IF Id(x) = Id(p) THEN {Len(log) + 1} ELSE {})
    <3>1. \A r : r = Id(x) => ChangesOf(r)' = ChangesOf(Id(x))'
      BY <1>1 DEF ChangesOf
    <3>. QED
      BY <2>1, <3>1
  <2>3. began'[x] \in 0 .. Len(log)
    BY <1>0, <1>1 DEF SavesTypeOK
  <2>4. CASE Id(x) = Id(p)
    <3>1. Len(log) + 1 \in ChangesOf(Id(x))' /\ ~(Len(log) + 1 <= began'[x])
      BY <2>1, <2>2, <2>3, <2>4
    <3>. QED
      BY <3>1 DEF Untouched
  <2>5. CASE Id(x) # Id(p)
    <3>1. row'[Id(x)] = row[Id(x)]
      BY <1>0, <2>1, <2>5 DEF SavesTypeOK
    <3>2. ChangesOf(Id(x))' = ChangesOf(Id(x))
      BY <2>2, <2>5
    <3>. QED
      BY <1>1, <3>1, <3>2 DEF Untouched
  <2>. QED
    BY <2>4, <2>5
<1>. QED
  BY <1>2, <1>3

\* What a session has read stays what is stored until somebody commits a change of it.
LEMMA StepFresh == ASSUME IInv, NEW p \in Call, Step(p) PROVE Fresh'
<1>0. SavesTypeOK /\ Locks /\ Reading /\ NotYetCreated /\ Fresh /\ Id(p) \in ResumeId
  BY Asked DEF IInv
<1>1. /\ doing' = doing
      /\ \A q : Id(q)' = Id(q) /\ Sent(q)' = Sent(q) /\ Writes(q)' = Writes(q)
  BY <1>0, CommitDoes, QuietLeaves, AskedStays DEF Step, Quiet
<1>. SUFFICES ASSUME NEW x \in Call
              PROVE /\ at'[x] \in {"read", "write"} /\ doing[x].op = "update" /\ Untouched(x)' =>
                         /\ first'[x] = row'[Id(x)]
                         /\ at'[x] = "write" => loaded'[x] = row'[Id(x)]
                    /\ at'[x] = "commit" /\ (Untouched(x)' \/ doing[x].op = "create") /\ Writes(x)
                         => left'[x] = Sent(x)
  BY <1>1 DEF Fresh
<1>2. CASE Commit(p)
  <2>1. /\ UNCHANGED <<first, loaded, left>>
        /\ at'[x] \in {"read", "write", "commit"} => x # p /\ at'[x] = at[x]
    BY <1>0, <1>2, CommitDoes
  <2>2. \/ row'[Id(x)] = row[Id(x)] /\ Untouched(x)' = Untouched(x)
        \/ ~Untouched(x)'
    BY <1>2, CommitDisturbs
  <2>. QED
    BY <1>0, <2>1, <2>2 DEF Fresh
<1>3. CASE Quiet(p)
  <2>1. /\ row' = row /\ \A r : ChangesOf(r)' = ChangesOf(r)
        /\ x # p => /\ at'[x] = at[x] /\ first'[x] = first[x]
                    /\ loaded'[x] = loaded[x] /\ left'[x] = left[x] /\ began'[x] = began[x]
        /\ at[p] # "start" => began' = began
        /\ at[p] \in {"start", "read", "write"}
    BY <1>0, <1>3, QuietLeaves
  <2>2. ChangesOf(Id(x))' = ChangesOf(Id(x))
    BY <1>0, <1>1, <1>3, <2>1, QuietLeaves DEF ChangesOf, Id
  <2>3. x # p \/ at[p] # "start" => Untouched(x)' = Untouched(x)
    BY <2>1, <2>2 DEF Untouched
  <2>4. CASE x # p
    BY <1>0, <2>1, <2>3, <2>4 DEF Fresh
  <2>5. CASE x = p /\ GetResume(p)
    <3>1. at'[p] = "404" \/ (/\ first'[p] = row[Id(p)] /\ loaded'[p] = row[Id(p)]
                             /\ at'[p] \in {"read", "write", "200"})
      BY <1>0, <2>5, Asked DEF GetResume, SavesTypeOK, Respond
    <3>. QED
      BY <2>1, <2>5, <3>1
  <2>6. CASE x = p /\ GetResumeAgain(p)
    <3>1. at[p] = "read" /\ UNCHANGED first /\ at'[p] \in {"404", "write"}
          /\ (at'[p] = "write" => loaded'[p] \in {first[p], row[Id(p)]})
      BY <1>0, <2>6 DEF GetResumeAgain, SavesTypeOK, Respond
    <3>. QED
      BY <1>0, <2>1, <2>3, <2>6, <3>1 DEF Fresh
  <2>7. CASE x = p /\ Save(p)
    <3>1. CASE row[Id(p)] = NoRow
      BY <1>0, <2>7, <3>1 DEF Save, SavesTypeOK, Respond
    <3>2. CASE row[Id(p)] # NoRow
      <4>1. /\ left'[p] = [c \in Columns |-> IF c \in WrittenColumns(p) THEN doing[p][c] ELSE row[Id(p)][c]]
            /\ at[p] = "write" /\ doing[p].op = "update" /\ at'[p] = "commit"
        BY <1>0, <2>7, <3>2, SavedRow DEF Save, SavesTypeOK, Respond
      <4>2. Untouched(p) => left'[p] = Sent(p)
        BY <1>0, <4>1 DEF Fresh, Sent, WrittenColumns
      <4>. QED
        BY <2>3, <2>7, <4>1, <4>2
    <3>. QED
      BY <3>1, <3>2
  <2>8. CASE x = p /\ Delete(p)
    BY <1>0, <2>8 DEF Delete, SavesTypeOK, Writes, Respond
  <2>9. CASE x = p /\ Create(p)
    BY <1>0, <2>9 DEF Create, SavesTypeOK, Sent, Respond
  <2>. QED
    BY <1>3, <2>4, <2>5, <2>6, <2>7, <2>8, <2>9 DEF Quiet
<1>. QED
  BY <1>2, <1>3 DEF Step, Quiet

\* A save leaves nothing in a column but what was asked for or stored.
LEMMA StepLeftColumns == ASSUME IInv, NEW p \in Call, Step(p) PROVE LeftColumns'
<1>0. SavesTypeOK /\ Locks /\ Reading /\ LeftColumns /\ MixedOnlyByOverlap /\ Id(p) \in ResumeId
  BY Asked DEF IInv
<1>1. /\ doing' = doing
      /\ \A q : Id(q)' = Id(q) /\ Writes(q)' = Writes(q)
  BY <1>0, CommitDoes, QuietLeaves, AskedStays DEF Step, Quiet
<1>2. \A q : Wholes(Id(q))' = Wholes(Id(q))
  BY <1>1 DEF Wholes, Id, Sent
<1>3. Writes(p) => Sent(p) \in Wholes(Id(p))
  BY DEF Wholes, Writes
<1>. SUFFICES ASSUME NEW x \in Call, at'[x] = "commit", Writes(x), NEW c \in Columns
              PROVE left'[x][c] \in {w[c] : w \in Wholes(Id(x))}
  BY <1>1, <1>2 DEF LeftColumns
<1>4. CASE Commit(p)
  BY <1>0, <1>4, CommitDoes DEF LeftColumns
<1>5. CASE Quiet(p) /\ x # p
  BY <1>0, <1>5, QuietLeaves DEF LeftColumns
<1>6. CASE Quiet(p) /\ x = p
  <2>1. CASE Save(p)
    <3>1. row[Id(p)] # NoRow
      BY <1>0, <1>6, <2>1 DEF Save, Respond, SavesTypeOK
    <3>2. left'[p] = [d \in Columns |-> IF d \in WrittenColumns(p) THEN doing[p][d] ELSE row[Id(p)][d]]
      BY <1>0, <2>1, <3>1, SavedRow
    <3>3. row[Id(p)][c] \in {w[c] : w \in Wholes(Id(p))}
      BY <1>0, <3>1 DEF MixedOnlyByOverlap
    <3>4. left'[p][c] = Sent(p)[c] \/ left'[p][c] = row[Id(p)][c]
      BY <3>2 DEF Sent
    <3>. QED
      BY <1>3, <1>6, <3>3, <3>4
  <2>2. CASE Create(p)
    <3>1. left'[p] = Sent(p)
      BY <1>0, <2>2 DEF Create, SavesTypeOK, Sent
    <3>. QED
      BY <1>3, <1>6, <3>1
  <2>3. CASE GetResume(p) \/ GetResumeAgain(p) \/ Delete(p)
    BY <1>0, <1>6, <2>3, Asked DEF GetResume, GetResumeAgain, Delete, SavesTypeOK, Respond, Writes
  <2>. QED
    BY <1>6, <2>1, <2>2, <2>3 DEF Quiet
<1>. QED
  BY <1>4, <1>5, <1>6 DEF Step, Quiet

\* Whether a change was disturbed is settled when it is committed.
LEMMA UndisturbedStays == ASSUME IInv, NEW p \in Call, Step(p), NEW i \in DOMAIN log
  PROVE /\ i \in DOMAIN log' /\ log'[i] = log[i] /\ log[i] \in Call /\ Id(log[i])' = Id(log[i])
        /\ Undisturbed(i)' <=> Undisturbed(i)
        /\ \A r : {j \in ChangesOf(r)' : j < i} = {j \in ChangesOf(r) : j < i}
<1>0. SavesTypeOK /\ Locks /\ Reading /\ LogOnce /\ log[i] \in Call /\ i \in 1 .. Len(log) /\ Len(log) \in Nat
  BY DEF IInv, SavesTypeOK
<1>1. doing' = doing /\ \A q : Id(q)' = Id(q)
  BY <1>0, CommitDoes, QuietLeaves, AskedStays DEF Step, Quiet
<1>2. /\ i \in DOMAIN log' /\ log'[i] = log[i] /\ began'[log[i]] = began[log[i]]
      /\ \A r : {j \in ChangesOf(r)' : j < i} = {j \in ChangesOf(r) : j < i}
  <2>1. CASE Quiet(p)
    <3>1. log[i] # p
      BY <1>0, <2>1, QuietLeaves DEF LogOnce
    <3>. QED
      BY <1>0, <2>1, <3>1, QuietLeaves
  <2>2. CASE Commit(p) /\ held[Id(p)] = p
    <3>1. /\ DOMAIN log' = DOMAIN log \cup {Len(log) + 1} /\ \A j \in DOMAIN log : log'[j] = log[j]
          /\ began' = began
          /\ \A r : ChangesOf(r)' = ChangesOf(r) \cup (IF r = Id(p) THEN {Len(log) + 1} ELSE {})
      BY <1>0, <2>2, CommitDoes
    <3>. QED
      BY <1>0, <3>1
  <2>3. CASE Commit(p) /\ held[Id(p)] # p
    <3>1. log' = log /\ began' = began
      BY <1>0, <2>3, CommitDoes
    <3>. QED
      BY <1>0, <1>1, <3>1 DEF ChangesOf
  <2>. QED
    BY <2>1, <2>2, <2>3 DEF Step, Quiet
<1>3. Undisturbed(i) <=> \A j \in {k \in ChangesOf(Id(log[i])) : k < i} : j <= began[log[i]]
  BY DEF Undisturbed
<1>4. Id(log[i])' = Id(log[i])
  BY <1>1, <1>2 DEF Id
<1>5. Undisturbed(i)' <=> \A j \in {k \in ChangesOf(Id(log[i]))' : k < i} : j <= began'[log[i]]
  BY <1>2, <1>4 DEF Undisturbed, ChangesOf, Id
<1>6. {k \in ChangesOf(Id(log[i]))' : k < i} = {k \in ChangesOf(Id(log[i])) : k < i}
  <2>1. ASSUME NEW r, r = Id(log[i]) PROVE ChangesOf(r)' = ChangesOf(Id(log[i]))'
    BY <1>4, <2>1 DEF ChangesOf
  <2>. QED
    BY <1>2, <2>1
<1>7. Undisturbed(i)' <=> Undisturbed(i)
  BY <1>2, <1>3, <1>5, <1>6
<1>. QED
  BY <1>0, <1>2, <1>4, <1>7

\* What a commit adds to the log is undisturbed only if the request was.
LEMMA LastChange == ASSUME IInv, NEW p \in Call, Commit(p), held[Id(p)] = p, Writes(p),
                           NEW n, n = Len(log) + 1, Undisturbed(n)'
                    PROVE left[p] = Sent(p)
<1>0. SavesTypeOK /\ Locks /\ Fresh /\ at[p] = "commit"
  BY CommitDoes DEF IInv
<1>1. /\ doing' = doing /\ began' = began /\ Id(p)' = Id(p) /\ log'[n] = p
      /\ Len(log) \in Nat /\ DOMAIN log = 1 .. Len(log)
      /\ \A r : ChangesOf(r)' = ChangesOf(r) \cup (IF r = Id(p) THEN {Len(log) + 1} ELSE {})
  BY <1>0, CommitDoes, AskedStays DEF SavesTypeOK
<1>2. \A j \in ChangesOf(Id(p))' : j < n => j <= began[p]
  <2>1. Id(log[n])' = Id(p)' /\ ChangesOf(Id(log[n]))' = ChangesOf(Id(p))' /\ began'[log'[n]] = began[p]
    BY <1>1 DEF Id, ChangesOf
  <2>. QED
    BY <2>1 DEF Undisturbed
<1>3. ChangesOf(Id(p)) \subseteq ChangesOf(Id(p))'
  <2>1. ASSUME NEW r, r = Id(p) PROVE ChangesOf(r)' = ChangesOf(Id(p))'
    BY <1>1, <2>1 DEF ChangesOf
  <2>. QED
    BY <1>1, <2>1
<1>4. \A j \in ChangesOf(Id(p)) : j < n
  BY <1>1 DEF ChangesOf
<1>. QED
  BY <1>0, <1>2, <1>3, <1>4 DEF Untouched, Fresh

\* The last change of a resume is what is stored.
LEMMA StepSavedWhole == ASSUME IInv, NEW p \in Call, Step(p) PROVE SavedWhole'
<1>0. SavesTypeOK /\ Locks /\ Reading /\ SavedWhole /\ Id(p) \in ResumeId /\ Len(log) \in Nat
  BY Asked DEF IInv, SavesTypeOK
<1>1. doing' = doing /\ \A q : Id(q)' = Id(q) /\ Sent(q)' = Sent(q)
  BY <1>0, CommitDoes, QuietLeaves, AskedStays DEF Step, Quiet
<1>. SUFFICES ASSUME NEW i \in DOMAIN log', doing[log'[i]].op # "delete", Undisturbed(i)',
                     NEW q, q = log'[i], \A j \in ChangesOf(Id(q))' : j <= i
              PROVE row'[Id(q)] = Sent(q)
  <2>1. \A q, i : q = log'[i] => /\ Id(log[i])' = Id(q) /\ Sent(log[i])' = Sent(q)
                                 /\ ChangesOf(Id(log[i]))' = ChangesOf(Id(q))'
    BY <1>1 DEF Id, Sent, ChangesOf
  <2>. QED
    BY <1>1, <2>1 DEF SavedWhole
<1>2. \A r : r = Id(q) => ChangesOf(r)' = ChangesOf(Id(q))'
  BY <1>1 DEF ChangesOf
<1>3. CASE i \in DOMAIN log
  <2>1. q = log[i] /\ q \in Call /\ Undisturbed(i) /\ Id(q) \in ResumeId
    BY <1>0, <1>3, UndisturbedStays, Asked
  <2>2. CASE row'[Id(q)] = row[Id(q)] /\ ChangesOf(Id(q))' = ChangesOf(Id(q))
    BY <1>0, <1>1, <1>3, <2>1, <2>2 DEF SavedWhole
  <2>3. CASE ~(row'[Id(q)] = row[Id(q)] /\ ChangesOf(Id(q))' = ChangesOf(Id(q)))
    <3>1. Commit(p) /\ log' # log
      <4>1. log' = log /\ row' = row => FALSE
        BY <1>1, <2>3 DEF ChangesOf
      <4>. QED
        BY <1>0, <4>1, CommitDoes, QuietLeaves DEF Step, Quiet
    <3>2. /\ row' = [row EXCEPT ![Id(p)] = left[p]]
          /\ \A r : ChangesOf(r)' = ChangesOf(r) \cup (IF r = Id(p) THEN {Len(log) + 1} ELSE {})
      BY <1>0, <3>1, CommitDoes
    <3>3. Id(q) = Id(p)
      <4>1. Id(q) # Id(p) => row'[Id(q)] = row[Id(q)]
        BY <1>0, <2>1, <3>2 DEF SavesTypeOK
      <4>2. Id(q) # Id(p) => ChangesOf(Id(q))' = ChangesOf(Id(q))
        BY <1>2, <3>2
      <4>. QED
        BY <2>3, <4>1, <4>2
    <3>4. Len(log) + 1 \in ChangesOf(Id(q))'
      BY <1>2, <3>2, <3>3
    <3>. QED
      BY <1>0, <1>3, <3>4 DEF SavesTypeOK
  <2>. QED
    BY <2>2, <2>3
<1>4. CASE i \notin DOMAIN log
  <2>1. Commit(p) /\ held[Id(p)] = p
    BY <1>0, <1>4, CommitDoes, QuietLeaves DEF Step, Quiet
  <2>2. i = Len(log) + 1 /\ q = p /\ at[p] = "commit" /\ row'[Id(p)] = left[p]
    BY <1>0, <1>4, <2>1, CommitDoes DEF SavesTypeOK
  <2>3. Writes(p)
    BY <1>0, <2>2 DEF Locks, Writes
  <2>4. left[p] = Sent(p)
    BY <2>1, <2>2, <2>3, LastChange
  <2>. QED
    BY <2>2, <2>4
<1>. QED
  BY <1>3, <1>4

\* A row is mixed only where somebody was disturbed.
LEMMA StepMixed == ASSUME IInv, NEW p \in Call, Step(p) PROVE MixedOnlyByOverlap'
<1>0. /\ SavesTypeOK /\ Locks /\ Reading /\ LeftColumns /\ MixedOnlyByOverlap
      /\ Id(p) \in ResumeId /\ Len(log) \in Nat
  BY Asked DEF IInv, SavesTypeOK
<1>1. doing' = doing /\ \A r : Wholes(r)' = Wholes(r)
  BY <1>0, CommitDoes, QuietLeaves, AskedStays DEF Step, Quiet
<1>2. \A r : ChangesOf(r) \subseteq ChangesOf(r)'
  <2>1. CASE log' = log
    BY <1>1, <2>1 DEF ChangesOf, Id
  <2>2. CASE log' # log
    <3>1. Commit(p)
      BY <1>0, <2>2, QuietLeaves DEF Step, Quiet
    <3>2. \A r : ChangesOf(r)' = ChangesOf(r) \cup (IF r = Id(p) THEN {Len(log) + 1} ELSE {})
      BY <1>0, <2>2, <3>1, CommitDoes
    <3>. QED
      BY <3>2
  <2>. QED
    BY <2>1, <2>2
<1>. SUFFICES ASSUME NEW r \in ResumeId, row'[r] # NoRow
              PROVE /\ \A c \in Columns : row'[r][c] \in {w[c] : w \in Wholes(r)}
                    /\ row'[r] \notin Wholes(r) => \E i \in ChangesOf(r)' : ~Undisturbed(i)'
  <2>1. \A c, r : {w[c] : w \in Wholes(r)'} = {w[c] : w \in Wholes(r)}
    BY <1>1
  <2>. QED
    BY <1>1, <2>1 DEF MixedOnlyByOverlap
<1>3. CASE row'[r] = row[r]
  <2>1. \A i \in ChangesOf(r) : Undisturbed(i)' <=> Undisturbed(i)
    BY UndisturbedStays DEF ChangesOf
  <2>. QED
    BY <1>0, <1>2, <1>3, <2>1 DEF MixedOnlyByOverlap
<1>4. CASE row'[r] # row[r]
  <2>1. Commit(p) /\ held[Id(p)] = p
    BY <1>0, <1>4, CommitDoes, QuietLeaves DEF Step, Quiet
  <2>2. /\ row' = [row EXCEPT ![Id(p)] = left[p]] /\ at[p] = "commit"
        /\ \A s : ChangesOf(s)' = ChangesOf(s) \cup (IF s = Id(p) THEN {Len(log) + 1} ELSE {})
    BY <1>0, <2>1, CommitDoes
  <2>3. r = Id(p) /\ row'[r] = left[p]
    BY <1>0, <1>4, <2>2 DEF SavesTypeOK
  <2>4. Writes(p)
    BY <1>0, <2>2, <2>3 DEF Locks, Writes
  <2>5. \A c \in Columns : left[p][c] \in {w[c] : w \in Wholes(r)}
    BY <1>0, <2>2, <2>3, <2>4 DEF LeftColumns
  <2>6. Sent(p) \in Wholes(r)
    BY <2>3, <2>4 DEF Wholes, Writes
  <2>7. ASSUME NEW n, n = Len(log) + 1 PROVE Undisturbed(n)' => left[p] = Sent(p)
    BY <2>1, <2>4, <2>7, LastChange
  <2>8. ASSUME NEW n, n = Len(log) + 1 PROVE n \in ChangesOf(r)'
    BY <2>2, <2>3, <2>8
  <2>. QED
    BY <2>3, <2>5, <2>6, <2>7, <2>8
<1>. QED
  BY <1>3, <1>4

\* A save that succeeds is in the log, after no deletion.
LEMMA StepSavedWasKept == ASSUME IInv, NEW p \in Call, Step(p) PROVE SavedWasKept'
<1>0. /\ SavesTypeOK /\ Locks /\ Reading /\ Gone /\ SavedWasKept /\ Id(p) \in ResumeId /\ Len(log) \in Nat
      /\ DOMAIN log = 1 .. Len(log)
  BY Asked DEF IInv, SavesTypeOK
<1>1. doing' = doing /\ \A q : Id(q)' = Id(q)
  BY <1>0, CommitDoes, QuietLeaves, AskedStays DEF Step, Quiet
<1>. SUFFICES ASSUME NEW x \in Call, doing[x].op = "update", at'[x] = "200"
              PROVE \E i \in ChangesOf(Id(x))' :
                      /\ log'[i] = x
                      /\ \A j \in ChangesOf(Id(x))' : j < i => doing[log'[j]].op # "delete"
  BY <1>1 DEF SavedWasKept
<1>2. \A r : r = Id(x) => ChangesOf(r)' = ChangesOf(Id(x))'
  BY <1>1 DEF ChangesOf
<1>3. CASE at[x] = "200"
  <2>1. PICK i \in ChangesOf(Id(x)) :
          log[i] = x /\ \A j \in ChangesOf(Id(x)) : j < i => doing[log[j]].op # "delete"
    BY <1>0, <1>3 DEF SavedWasKept
  <2>2. i \in DOMAIN log /\ i \in DOMAIN log' /\ log'[i] = x
        /\ \A r : {j \in ChangesOf(r)' : j < i} = {j \in ChangesOf(r) : j < i}
    BY <2>1, UndisturbedStays DEF ChangesOf
  <2>3. i \in ChangesOf(Id(x))'
    BY <1>1, <2>2 DEF ChangesOf
  <2>4. ASSUME NEW j \in ChangesOf(Id(x))', j < i PROVE doing[log'[j]].op # "delete"
    <3>1. j \in ChangesOf(Id(x))
      BY <1>2, <2>2, <2>4
    <3>2. log'[j] = log[j]
      BY <3>1, UndisturbedStays DEF ChangesOf
    <3>. QED
      BY <2>1, <2>4, <3>1, <3>2
  <2>. QED
    BY <2>2, <2>3, <2>4
<1>4. CASE at[x] # "200"
  <2>1. Commit(p) /\ x = p
    <3>1. x = p
      BY <1>0, <1>4, CommitDoes, QuietLeaves DEF Step, Quiet
    <3>2. ~Quiet(p)
      BY <1>0, <3>1, QuietLeaves
    <3>. QED
      BY <3>1, <3>2 DEF Step, Quiet
  <2>2. at[p] = "commit" /\ held[Id(p)] = p /\ row[Id(p)] # NoRow
    BY <1>0, <2>1, CommitDoes DEF Locks, Writes, Gone
  <2>3. /\ log'[Len(log) + 1] = p /\ \A j \in DOMAIN log : log'[j] = log[j]
        /\ \A s : ChangesOf(s)' = ChangesOf(s) \cup (IF s = Id(p) THEN {Len(log) + 1} ELSE {})
    BY <1>0, <2>1, <2>2, CommitDoes
  <2>4. Len(log) + 1 \in ChangesOf(Id(x))'
    BY <1>2, <2>1, <2>3
  <2>5. ASSUME NEW j \in ChangesOf(Id(x))', j < Len(log) + 1 PROVE doing[log'[j]].op # "delete"
    <3>1. j \in ChangesOf(Id(p))
      BY <1>0, <1>2, <2>1, <2>3, <2>5
    <3>. QED
      BY <1>0, <2>2, <2>3, <3>1 DEF ChangesOf, Gone
  <2>. QED
    BY <2>1, <2>3, <2>4, <2>5
<1>. QED
  BY <1>3, <1>4

----------------------------------------------------------------------------
\* The invariant holds at first and is kept by every step.
THEOREM Invariance == SavesSpec => []IInv
<1>1. ASSUME IInv, [SavesNext]_savesVars PROVE IInv'
  <2>1. CASE UNCHANGED savesVars
    <3>. USE <2>1 DEF savesVars, Writes, Untouched, ChangesOf, Id, Sent, Wholes, Undisturbed
    <3>1. SavesTypeOK' /\ Locks' /\ LogOnce' /\ NotYetCreated'
      BY <1>1 DEF IInv, SavesTypeOK, Locks, LogOnce, NotYetCreated
    <3>2. Gone' /\ Reading' /\ Fresh'
      BY <1>1 DEF IInv, Gone, Reading, Fresh
    <3>3. LeftColumns'
      BY <1>1 DEF IInv, LeftColumns
    <3>4. SavedWhole'
      BY <1>1 DEF IInv, SavedWhole
    <3>5. MixedOnlyByOverlap'
      BY <1>1 DEF IInv, MixedOnlyByOverlap
    <3>6. SavedWasKept'
      BY <1>1 DEF IInv, SavedWasKept
    <3>. QED
      BY <3>1, <3>2, <3>3, <3>4, <3>5, <3>6 DEF IInv
  <2>2. ASSUME NEW p \in Call, Step(p) PROVE IInv'
    <3>1. SavesTypeOK'
      BY <1>1, <2>2, QuietTypeOK, CommitTypeOK DEF IInv, Step, Quiet
    <3>. QED
      BY <1>1, <2>2, <3>1, StepLocks, StepLogOnce, StepNotYetCreated, StepGone, StepFresh,
         StepLeftColumns, StepSavedWhole, StepMixed, StepSavedWasKept DEF IInv
  <2>. QED
    BY <1>1, <2>1, <2>2 DEF SavesNext
<1>. QED
  BY InitIInv, <1>1, PTL DEF SavesSpec

\* Every variable keeps to its type, whatever is asked of however many resumes.
THEOREM TypeCorrect == SavesSpec => []SavesTypeOK
<1>1. IInv => SavesTypeOK
  BY DEF IInv
<1>. QED
  BY <1>1, Invariance, PTL

\* A save that nothing disturbed, and that no later one changed, is there as it was sent.
THEOREM UndisturbedSavesWhole == SavesSpec => []SavedWhole
<1>1. IInv => SavedWhole
  BY DEF IInv
<1>. QED
  BY <1>1, Invariance, PTL

\* A resume is made of what was asked for; it is a mixture only if saves of it overlapped.
THEOREM MixturesOverlapped == SavesSpec => []MixedOnlyByOverlap
<1>1. IInv => MixedOnlyByOverlap
  BY DEF IInv
<1>. QED
  BY <1>1, Invariance, PTL

\* What is answered with success was stored, and never over a deletion.
THEOREM SuccessIsKept == SavesSpec => []SavedWasKept
<1>1. IInv => SavedWasKept
  BY DEF IInv
<1>. QED
  BY <1>1, Invariance, PTL

\* However many requests about however many resumes overlap, what they report is true of what is
\* stored: the three theorems above together.
THEOREM SavesKept == SavesSpec => []SavesHold
BY UndisturbedSavesWhole, MixturesOverlapped, SuccessIsKept, PTL DEF SavesHold
=============================================================================
