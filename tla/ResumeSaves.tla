------------------------------ MODULE ResumeSaves ------------------------------
(***************************************************************************)
(* Requests about one author's resumes, at the same time.  Each is a       *)
(* transaction of its own, whose statements see what is committed when     *)
(* they run.  A save reads the resume twice and then writes the columns    *)
(* that differ from what its session holds.  The content of a resume is    *)
(* ResumeDocument's; here it is a value.                                   *)
(***************************************************************************)
EXTENDS Naturals, Sequences, FiniteSets

CONSTANTS ResumeId,   \* ids, those of resumes still to be created too
          Call,       \* HTTP calls
          Operation,  \* what is asked: [op, id, title, content]
          Stored,     \* the resumes of the author at first: a function of ids
          NoRow

Columns == {"title", "content"}
\* What a column of a resume can hold.
Values == {Stored[r][c] : r \in DOMAIN Stored, c \in Columns}
            \cup {o.title : o \in Operation} \cup {o.content : o \in Operation}
ResumeRow == [Columns -> Values]
Free == "free"

\* What the constants must be; what is created gets an id that nothing has had (uuid4).
ASSUME SavesAssumption ==
  /\ DOMAIN Stored \subseteq ResumeId /\ Stored \in [DOMAIN Stored -> ResumeRow]
  /\ Operation \subseteq [op : {"create", "get", "export", "update", "delete"}, id : ResumeId,
                          title : Values, content : Values]
  /\ \A o \in Operation : o.op = "create" => o.id \notin DOMAIN Stored
  /\ NoRow \notin ResumeRow /\ Free \notin Call

VARIABLES row,     \* committed rows: [title, content], or NoRow
          held,    \* who has written a row and not committed
          doing,   \* what each request asks
          at,      \* its next statement, or its answer
          first,   \* the row its first statement found
          loaded,  \* the row its session holds
          left,    \* the row it will leave when it commits
          log,     \* history: the requests that changed a row, as they committed
          began    \* history: how many of them each request found
savesVars == <<row, held, doing, at, first, loaded, left, log, began>>

Id(p) == doing[p].id

----------------------------------------------------------------------------
SavesInit ==
  /\ row = [r \in ResumeId |-> IF r \in DOMAIN Stored THEN Stored[r] ELSE NoRow]
  /\ held = [r \in ResumeId |-> Free]
  /\ doing \in {d \in [Call -> Operation] :
                 \A p, q \in Call : d[p].op = "create" /\ d[q].op = "create" /\ p # q => d[p].id # d[q].id}
  /\ at = [p \in Call |-> "start"]
  /\ first = [p \in Call |-> NoRow]
  /\ loaded = [p \in Call |-> NoRow]
  /\ left = [p \in Call |-> NoRow]
  /\ log = <<>>
  /\ began = [p \in Call |-> 0]

Respond(p, status) == at' = [at EXCEPT ![p] = status]

\* get_resume of a save or an export, and the only read of a get or a delete.
GetResume(p) ==
  /\ at[p] = "start" /\ doing[p].op # "create"
  /\ IF row[Id(p)] = NoRow THEN Respond(p, "404") /\ UNCHANGED <<first, loaded>>
     ELSE /\ first' = [first EXCEPT ![p] = row[Id(p)]]
          /\ loaded' = [loaded EXCEPT ![p] = row[Id(p)]]
          /\ at' = [at EXCEPT ![p] = CASE doing[p].op = "update" -> "read"
                                      [] doing[p].op = "delete" -> "write"
                                      [] doing[p].op \in {"get", "export"} -> "200"]
  /\ began' = [began EXCEPT ![p] = Len(log)]
  /\ UNCHANGED <<row, held, doing, left, log>>

\* update_resume reads the row again.  The object of the first read is held by nobody, so the
\* session may have let it go; while it has not, it keeps the values it was read with.
GetResumeAgain(p) ==
  /\ at[p] = "read"
  /\ IF row[Id(p)] = NoRow THEN Respond(p, "404") /\ UNCHANGED loaded
     ELSE /\ \E known \in {first[p], row[Id(p)]} : loaded' = [loaded EXCEPT ![p] = known]
          /\ at' = [at EXCEPT ![p] = "write"]
  /\ UNCHANGED <<row, held, doing, first, left, log, began>>

\* Mutant: content changed in place is not seen to have changed.
WrittenColumnsTitleOnly(p) == {c \in {"title"} : doing[p][c] # loaded[p][c]}
\* The flush writes what differs from what the session holds (and the time of the save).
WrittenColumns(p) == {c \in Columns : doing[p][c] # loaded[p][c]}

\* Mutant: an UPDATE that matches no row is not noticed.
SaveUnnoticed(p) ==
  /\ at[p] = "write" /\ doing[p].op = "update" /\ held[Id(p)] = Free
  /\ IF row[Id(p)] = NoRow THEN UNCHANGED <<held, left>>
     ELSE /\ held' = [held EXCEPT ![Id(p)] = p]
          /\ left' = [left EXCEPT ![p] = [c \in Columns |-> IF c \in WrittenColumns(p) THEN doing[p][c] ELSE row[Id(p)][c]]]
  /\ Respond(p, "commit")
  /\ UNCHANGED <<row, doing, first, loaded, log, began>>

\* An UPDATE waits for a writer of the row; one that matches no row is an error of the session.
Save(p) ==
  /\ at[p] = "write" /\ doing[p].op = "update" /\ held[Id(p)] = Free
  /\ IF row[Id(p)] = NoRow THEN Respond(p, "500") /\ UNCHANGED <<held, left>>
     ELSE /\ held' = [held EXCEPT ![Id(p)] = p]
          /\ left' = [left EXCEPT ![p] = [c \in Columns |-> IF c \in WrittenColumns(p) THEN doing[p][c] ELSE row[Id(p)][c]]]
          /\ at' = [at EXCEPT ![p] = "commit"]
  /\ UNCHANGED <<row, doing, first, loaded, log, began>>

\* A DELETE that matches no row is only warned about.
Delete(p) ==
  /\ at[p] = "write" /\ doing[p].op = "delete" /\ held[Id(p)] = Free
  /\ held' = IF row[Id(p)] = NoRow THEN held ELSE [held EXCEPT ![Id(p)] = p]
  /\ at' = [at EXCEPT ![p] = "commit"]
  /\ UNCHANGED <<row, doing, first, loaded, left, log, began>>

\* A new row has an id nobody knows before it is answered.
Create(p) ==
  /\ at[p] = "start" /\ doing[p].op = "create"
  /\ held' = [held EXCEPT ![Id(p)] = p]
  /\ left' = [left EXCEPT ![p] = [c \in Columns |-> doing[p][c]]]
  /\ at' = [at EXCEPT ![p] = "commit"]
  /\ UNCHANGED <<row, doing, first, loaded, log, began>>

Commit(p) ==
  /\ at[p] = "commit"
  /\ IF held[Id(p)] = p
     THEN /\ row' = [row EXCEPT ![Id(p)] = left[p]]
          /\ held' = [held EXCEPT ![Id(p)] = Free]
          /\ log' = Append(log, p)
     ELSE UNCHANGED <<row, held, log>>
  /\ Respond(p, CASE doing[p].op = "update" -> "200" [] doing[p].op = "create" -> "201"
                 [] doing[p].op = "delete" -> "204")
  /\ UNCHANGED <<doing, first, loaded, left, began>>

Step(p) == GetResume(p) \/ GetResumeAgain(p) \/ Save(p) \/ Delete(p) \/ Create(p) \/ Commit(p)
SavesNext == \E p \in Call : Step(p)
SavesSpec == SavesInit /\ [][SavesNext]_savesVars

----------------------------------------------------------------------------
\* Properties

SavesTypeOK ==
  /\ row \in [ResumeId -> ResumeRow \cup {NoRow}]
  /\ held \in [ResumeId -> Call \cup {Free}]
  /\ doing \in [Call -> Operation]
  /\ at \in [Call -> {"start", "read", "write", "commit", "200", "201", "204", "404", "500"}]
  /\ first \in [Call -> ResumeRow \cup {NoRow}]
  /\ loaded \in [Call -> ResumeRow \cup {NoRow}]
  /\ left \in [Call -> ResumeRow \cup {NoRow}]
  /\ log \in Seq(Call)
  /\ began \in [Call -> 0 .. Len(log)]

Sent(p) == [c \in Columns |-> doing[p][c]]
Wholes(r) ==
  (IF r \in DOMAIN Stored THEN {Stored[r]} ELSE {})
    \cup {Sent(p) : p \in {q \in Call : doing[q].op \in {"update", "create"} /\ Id(q) = r}}

ChangesOf(r) == {i \in DOMAIN log : Id(log[i]) = r}
\* Nothing changed the resume between the first statement of the i-th change and its commit.
Undisturbed(i) == \A j \in ChangesOf(Id(log[i])) : j < i => j <= began[log[i]]

\* The last save to commit is what is stored, whole, if nothing was committed while it ran.
SavedWhole ==
  \A i \in DOMAIN log :
    (/\ doing[log[i]].op # "delete" /\ Undisturbed(i)
     /\ \A j \in ChangesOf(Id(log[i])) : j <= i) => row[Id(log[i])] = Sent(log[i])

\* Saves that overlap can leave the title of one over the content of the other, and only they:
\* every column is what one of them sent or what was there at first.
MixedOnlyByOverlap ==
  \A r \in ResumeId :
    row[r] # NoRow =>
      /\ \A c \in Columns : row[r][c] \in {w[c] : w \in Wholes(r)}
      /\ row[r] \notin Wholes(r) => \E i \in ChangesOf(r) : ~Undisturbed(i)

\* A save is answered with success only if it was kept: it never falls upon a resume that was
\* deleted meanwhile.
SavedWasKept ==
  \A p \in Call :
    doing[p].op = "update" /\ at[p] = "200" =>
      \E i \in ChangesOf(Id(p)) :
        log[i] = p /\ \A j \in ChangesOf(Id(p)) : j < i => doing[log[j]].op # "delete"

\* What somebody saved is stored or was replaced, whole; only overlapping saves mix, and no
\* success is reported of a save that was lost.
SavesHold == SavedWhole /\ MixedOnlyByOverlap /\ SavedWasKept
=============================================================================
