----------------------------- MODULE Revisions -----------------------------
(***************************************************************************)
(* How workspace-service publishes a change to a project's files as one    *)
(* revision, for one project.                                              *)
(*                                                                         *)
(* Three kinds of actor publish: a builder (an AI turn), a saver (a person *)
(* saving one file in the editor) and a restorer (a restore or an undo).   *)
(* All go through RevisionPublisherImpl.publish, whose steps are separate  *)
(* requests to PostgreSQL and MinIO, so steps of concurrent publishes      *)
(* interleave.  An editor renames the project or retries its template,     *)
(* which loads the project row and later writes all of it back.            *)
(*                                                                         *)
(* A content stands for its SHA-256 hash and the blob of that hash: blobs  *)
(* are immutable and never deleted, so the blob bucket needs no variable.  *)
(***************************************************************************)
EXTENDS Naturals, Sequences

CONSTANTS
    Path,         \* the paths a project may hold
    Content,      \* file contents, identified with their hashes
    Absent,       \* no object, no row, no hash
    NoHash,       \* a row whose content_hash is NULL
    Template,     \* [Path -> Content \cup {Absent}]: files written without a revision
    Builders,     \* AI turns that publish
    Savers,       \* people saving a file by hand
    Restorers,    \* people restoring or undoing
    Editors,      \* requests that load the project row and save it back
    Turns,        \* [Builders -> SUBSET Changes]: the change sets an AI turn may publish
    Faults,       \* which failures the environment may cause
    MaxRevision   \* bound: revisions recorded in a behaviour

Actor == Builders \cup Savers \cup Restorers

FaultKinds ==
    { "storage",    \* a MinIO call of the apply loop throws, having done nothing
      "ambiguous",  \* it throws after the object was changed (a lost answer)
      "rollback",   \* a MinIO call of the rollback throws
      "database",   \* a PostgreSQL transaction throws and is rolled back
      "crash" }     \* the service's process dies

Object == Content \cup {Absent}

\* A change set: for each named path its new content, Absent for a DELETE.
Changes == UNION {[S -> Object] : S \in SUBSET Path}

\* A row: its hash, and the revision that inserted it (0 for the template).
\* Two reads of one path found the same database row when they agree on "born".
Row == [hash : Content \cup {NoHash}, born : 0..MaxRevision]

ASSUME RevisionsAssumption ==
    /\ MaxRevision \in Nat
    /\ NoHash \notin Content
    /\ Absent \notin Content \cup {NoHash} \cup Row
    /\ Template \in [Path -> Content \cup {Absent}]
    /\ Turns \in [Builders -> SUBSET Changes]
    /\ Faults \subseteq FaultKinds

VARIABLES
    current,   \* projects.current_file_revision_id, 0 for NULL
    files,     \* the project_files rows
    live,      \* the live layout in MinIO
    revs,      \* project_file_revisions with their entries; the index is the id
    pub,       \* each actor's request in progress
    loaded,    \* each editor's copy of the pointer in its loaded project row
    history    \* history variable: the trees that landed, in the order they did

vars == <<current, files, live, revs, pub, loaded, history>>

----------------------------------------------------------------------------
(* Data *)

Hash   == Content \cup {Absent, NoHash}
RevId  == 0..MaxRevision

Source == {"AI_GENERATION", "MANUAL_EDIT", "RESTORE"}
Status == {"STAGING", "APPLIED", "FAILED", "CONFLICT"}

NotRestored == [target |-> 0, before |-> FALSE]

\* Every entry has the hash it writes and the hash it replaces.
Revision ==
    {r \in [parent : RevId, status : Status, source : Source, new : Changes,
            previous : Changes, restored : [target : RevId, before : BOOLEAN]] :
        DOMAIN r.previous = DOMAIN r.new}

Tree == [Path -> Hash]

Landing == [rev : RevId, tree : Tree]

HashOf(row) == IF row = Absent THEN Absent ELSE row.hash

HashTree == [x \in Path |-> HashOf(files[x])]

\* The content a hash of the tree stands for: a file with no hash is the
\* template's.
Denotes(x, h) == IF h = NoHash THEN Template[x] ELSE h

Applied == {r \in 1..Len(revs) : revs[r].status = "APPLIED"}

----------------------------------------------------------------------------
(* A request in progress *)

Phase == {"idle", "opened", "checked", "chosen", "begun", "staging",
          "applying", "undoing", "landed"}

NoRows == [x \in Path |-> Absent]

NoChange == [x \in {} |-> Absent]

Idle ==
    [pc |-> "idle", source |-> "AI_GENERATION", parent |-> 0, seen |-> NoRows,
     new |-> NoChange, previous |-> NoChange, rev |-> 0,
     todo |-> {}, undo |-> {}, verdict |-> "FAILED", restored |-> NotRestored]

Request ==
    [pc : Phase, source : Source, parent : RevId, seen : [Path -> Row \cup {Absent}],
     new : Changes, previous : Changes, rev : RevId,
     todo : SUBSET Path, undo : SUBSET Path, verdict : {"FAILED", "CONFLICT"},
     restored : [target : RevId, before : BOOLEAN]]

TypeOK ==
    /\ current \in RevId
    /\ files \in [Path -> Row \cup {Absent}]
    /\ live \in [Path -> Object]
    /\ revs \in Seq(Revision) /\ Len(revs) <= MaxRevision
    /\ pub \in [Actor -> Request]
    /\ loaded \in [Editors -> RevId \cup {Absent}]
    /\ history \in Seq(Landing)

Init ==
    /\ current = 0
    /\ files = [x \in Path |->
                   IF Template[x] = Absent THEN Absent ELSE [hash |-> NoHash, born |-> 0]]
    /\ live = Template
    /\ revs = <<>>
    /\ pub = [a \in Actor |-> Idle]
    /\ loaded = [e \in Editors |-> Absent]
    /\ history = <<[rev |-> 0, tree |-> HashTree]>>

Room == Len(revs) < MaxRevision

At(a, phase) == pub[a].pc = phase

----------------------------------------------------------------------------
(* What a project held at a revision *)

\* The revisions a recursive query over parents reaches from r.
Chain(r) ==
    {s \in DOMAIN revs :
        \A C \in SUBSET DOMAIN revs :
            (r \in C /\ \A t \in C : revs[t].parent # 0 => revs[t].parent \in C) => s \in C}

\* The latest and the earliest of a set of revision ids.
Latest(ids) == CHOOSE r \in ids : \A s \in ids : s <= r
Earliest(ids) == CHOOSE r \in ids : \A s \in ids : r <= s

Naming(ids, x) == {r \in ids : x \in DOMAIN revs[r].new}

\* Mutant: the entry farthest from r (the depths ordered the wrong way round).
SnapshotFarthest(r) ==
    [x \in Path |->
        LET naming == IF r = 0 THEN {} ELSE Naming(Chain(r), x)
        IN IF naming = {} THEN NoHash ELSE revs[Earliest(naming)].new[x]]

\* Each path's entry nearest to r on its chain: the latest, as a revision's id is
\* larger than its parent's.  NoHash where no revision of the chain names it.
Snapshot(r) ==
    [x \in Path |->
        LET naming == IF r = 0 THEN {} ELSE Naming(Chain(r), x)
        IN IF naming = {} THEN NoHash ELSE revs[Latest(naming)].new[x]]

\* Mutant: the previous hash in the last revision to name the path.
OriginalContentOfLast(x) ==
    LET naming == Naming(Applied, x)
    IN IF naming = {} THEN Absent ELSE revs[Latest(naming)].previous[x]

\* The previous hash in the first applied revision to name the path.
OriginalContent(x) ==
    LET naming == Naming(Applied, x)
    IN IF naming = {} THEN Absent ELSE revs[Earliest(naming)].previous[x]

\* Mutant: the snapshot alone, without the files no revision of the chain names.
StateForSnapshotOnly(r, before) ==
    LET snapshot == Snapshot(IF before THEN revs[r].parent ELSE r)
    IN [x \in Path |-> IF snapshot[x] = NoHash THEN Absent ELSE snapshot[x]]

\* The files to put back for a revision, or for just before it.  Absent: the
\* path is not among them.
StateFor(r, before) ==
    LET snapshot == Snapshot(IF before THEN revs[r].parent ELSE r)
    IN [x \in Path |-> IF snapshot[x] = NoHash THEN OriginalContent(x) ELSE snapshot[x]]

\* Mutant: files the target does not hold are left in the project.
DiffWithoutDeletes(state) == {x \in Path : HashOf(files[x]) # state[x] /\ state[x] # Absent}

\* The paths a restore to "state" changes: those it holds and the project does
\* not, or not with that hash, and tracked files it does not hold.
DiffAgainstCurrent(state) ==
    {x \in Path : /\ HashOf(files[x]) # state[x]
                  /\ state[x] = Absent => HashOf(files[x]) # NoHash}

----------------------------------------------------------------------------
(* The start of a request *)

\* An AI turn: publish reads the project row, and with it the parent the
\* compare-and-swap will be made against.  It passes no expected parent.
BeginBuild(a) ==
    /\ a \in Builders /\ At(a, "idle") /\ Room
    /\ \E new \in Turns[a] :
          pub' = [pub EXCEPT ![a] = [Idle EXCEPT !.pc = "begun", !.new = new,
                                                !.parent = current]]
    /\ UNCHANGED <<current, files, live, revs, loaded, history>>

\* A save by hand finds the file's row.  The row stays in the request's
\* persistence context, and later queries of the request answer with it.
OpenSave(a) ==
    /\ a \in Savers /\ At(a, "idle") /\ Room
    /\ \E x \in Path :
          /\ files[x] # Absent
          /\ pub' = [pub EXCEPT ![a] = [Idle EXCEPT !.pc = "opened", !.source = "MANUAL_EDIT",
                                                    !.seen[x] = files[x]]]
    /\ UNCHANGED <<current, files, live, revs, loaded, history>>

\* The save reads the stored file and compares its hash with the base the
\* person edited.  It goes on only when they agree and the new text differs.
CheckSave(a) ==
    /\ At(a, "opened")
    /\ \E x \in Path, text \in Content :
          /\ pub[a].seen[x] # Absent
          /\ live[x] \notin {Absent, text}
          /\ pub' = [pub EXCEPT ![a].pc = "checked", ![a].new = [y \in {x} |-> text]]
    /\ UNCHANGED <<current, files, live, revs, loaded, history>>

\* The 409 of a base that is no longer what is stored, the 404 of a file
\* storage does not have, and the save of what the file already holds.
EndSave(a) ==
    /\ At(a, "opened")
    /\ pub' = [pub EXCEPT ![a] = Idle]
    /\ UNCHANGED <<current, files, live, revs, loaded, history>>

\* The checked save calls publish, which reads the parent only now.
BeginSave(a) ==
    /\ At(a, "checked") /\ Room
    /\ pub' = [pub EXCEPT ![a].pc = "begun", ![a].parent = current]
    /\ UNCHANGED <<current, files, live, revs, loaded, history>>

\* A restore or an undo of an applied revision loads the project row.  That
\* copy is also what publish reads as the actual parent, so the expected
\* parent the restore passes always agrees with it.
ChooseRestore(a) ==
    /\ a \in Restorers /\ At(a, "idle") /\ Room
    /\ \E r \in Applied, before \in BOOLEAN :
          pub' = [pub EXCEPT ![a] = [Idle EXCEPT !.pc = "chosen", !.source = "RESTORE",
                                                !.parent = current,
                                                !.restored = [target |-> r, before |-> before]]]
    /\ UNCHANGED <<current, files, live, revs, loaded, history>>

\* It works out the files of the target and their difference from the rows,
\* which it loads into its persistence context.
BeginRestore(a) ==
    /\ At(a, "chosen")
    /\ LET state == StateFor(pub[a].restored.target, pub[a].restored.before)
       IN pub' = [pub EXCEPT ![a].pc = "begun", ![a].seen = files,
                             ![a].new = [x \in DiffAgainstCurrent(state) |-> state[x]]]
    /\ UNCHANGED <<current, files, live, revs, loaded, history>>

----------------------------------------------------------------------------
(* RevisionPublisherImpl.publish *)

\* The row a query of this request answers with: the one already loaded, if
\* it is still that row, and otherwise what the table holds.
RowInSession(a, x) ==
    LET seen == pub[a].seen[x]
    IN IF files[x] # Absent /\ seen # Absent /\ seen.born = files[x].born
       THEN seen ELSE files[x]

\* The size check loads every row into the request's persistence context, where
\* later queries find them.  When it throws, the change set is let through.
CheckSize(a) ==
    /\ At(a, "begun")
    /\ \/ pub' = [pub EXCEPT ![a].pc = "staging", ![a].seen = [x \in Path |-> RowInSession(a, x)]]
       \/ "database" \in Faults /\ pub' = [pub EXCEPT ![a].pc = "staging"]
    /\ UNCHANGED <<current, files, live, revs, loaded, history>>

\* Mutant: the live bytes are read even for a path whose row has a hash.
PreviousFromLive(a, x) == live[x]

\* Mutant: a template file is not adopted, as if it held nothing before.
PreviousWithoutAdoption(a, x) ==
    LET h == HashOf(RowInSession(a, x)) IN IF h = NoHash THEN Absent ELSE h

\* resolvePreviousState: a row's hash, or, for a row with none, the bytes the
\* live layout holds at this moment.
PreviousState(a, x) ==
    LET h == HashOf(RowInSession(a, x)) IN IF h = NoHash THEN live[x] ELSE h

\* One change's previous state is read and its new content stored.
StageEntry(a, x) ==
    /\ At(a, "staging") /\ x \in DOMAIN pub[a].new \ DOMAIN pub[a].previous
    /\ pub' = [pub EXCEPT ![a].previous =
                  [y \in DOMAIN @ \cup {x} |-> IF y = x THEN PreviousState(a, x) ELSE @[y]]]
    /\ UNCHANGED <<current, files, live, revs, loaded, history>>

\* A change set over the size limits, or a failure to store its content or to
\* record its manifest: FAILED, with nothing recorded.
RefuseOrFailStaging(a) ==
    /\ At(a, "begun") \/ At(a, "staging")
    /\ pub' = [pub EXCEPT ![a] = Idle]
    /\ UNCHANGED <<current, files, live, revs, loaded, history>>

\* Mutant: the parent is the newest revision recorded, not the project's current.
StageManifestOnNewest(a) ==
    /\ At(a, "staging") /\ DOMAIN pub[a].previous = DOMAIN pub[a].new /\ Room
    /\ revs' = Append(revs, [parent |-> Len(revs), status |-> "STAGING",
                             source |-> pub[a].source, new |-> pub[a].new,
                             previous |-> pub[a].previous, restored |-> NotRestored])
    /\ pub' = [pub EXCEPT ![a].pc = "applying", ![a].rev = Len(revs) + 1,
                          ![a].todo = DOMAIN pub[a].new]
    /\ UNCHANGED <<current, files, live, loaded, history>>

\* One transaction inserts the revision, in STAGING, with its entries.
StageManifest(a) ==
    /\ At(a, "staging") /\ DOMAIN pub[a].previous = DOMAIN pub[a].new /\ Room
    /\ revs' = Append(revs, [parent |-> pub[a].parent, status |-> "STAGING",
                             source |-> pub[a].source, new |-> pub[a].new,
                             previous |-> pub[a].previous, restored |-> NotRestored])
    /\ pub' = [pub EXCEPT ![a].pc = "applying", ![a].rev = Len(revs) + 1,
                          ![a].todo = DOMAIN pub[a].new]
    /\ UNCHANGED <<current, files, live, loaded, history>>

\* A validator refuses the revision before anything is applied.
Reject(a) ==
    /\ At(a, "applying") /\ pub[a].todo = DOMAIN pub[a].new
    /\ revs' = [revs EXCEPT ![pub[a].rev].status = "FAILED"]
    /\ pub' = [pub EXCEPT ![a] = Idle]
    /\ UNCHANGED <<current, files, live, loaded, history>>

\* Mutant: the rows are written in the apply loop, ahead of the publish point.
ApplyEntryWithRow(a, x) ==
    /\ At(a, "applying") /\ x \in pub[a].todo
    /\ live' = [live EXCEPT ![x] = pub[a].new[x]]
    /\ files' = [files EXCEPT ![x] = IF pub[a].new[x] = Absent THEN Absent
                                     ELSE [hash |-> pub[a].new[x], born |-> pub[a].rev]]
    /\ pub' = [pub EXCEPT ![a].todo = @ \ {x}, ![a].undo = @ \cup {x}]
    /\ UNCHANGED <<current, revs, loaded, history>>

\* One change is copied onto its live path, or its live path removed.
ApplyEntry(a, x) ==
    /\ At(a, "applying") /\ x \in pub[a].todo
    /\ live' = [live EXCEPT ![x] = pub[a].new[x]]
    /\ pub' = [pub EXCEPT ![a].todo = @ \ {x}, ![a].undo = @ \cup {x}]
    /\ UNCHANGED <<current, files, revs, loaded, history>>

\* The MinIO call throws.  The entries applied before it are to be rolled
\* back; this one is not among them, whatever became of its object.
ApplyEntryFails(a, x) ==
    /\ At(a, "applying") /\ x \in pub[a].todo
    /\ \/ "storage" \in Faults /\ UNCHANGED live
       \/ "ambiguous" \in Faults /\ live' = [live EXCEPT ![x] = pub[a].new[x]]
    /\ pub' = [pub EXCEPT ![a].pc = "undoing", ![a].verdict = "FAILED"]
    /\ UNCHANGED <<current, files, revs, loaded, history>>

\* Mutant: a DELETE keeps the row, with nothing in it.
FilesAfterKeepingDeleted(new, r) ==
    [x \in Path |->
        IF x \notin DOMAIN new THEN files[x]
        ELSE [hash |-> new[x], born |-> IF files[x] = Absent THEN r ELSE files[x].born]]

\* The rows after a change set landed as revision r.
FilesAfter(new, r) ==
    [x \in Path |->
        IF x \notin DOMAIN new THEN files[x]
        ELSE IF new[x] = Absent THEN Absent
        ELSE [hash |-> new[x], born |-> IF files[x] = Absent THEN r ELSE files[x].born]]

\* Mutant: the pointer is moved from whatever it holds.
CasAlwaysAdvances(parent) == TRUE

\* Mutant: compared with "=", which is not true of two NULLs.
CasNeverFromNull(parent) == current = parent /\ parent # 0

\* The compare-and-swap of the pointer, which only moves it from "parent"; NULL
\* is equal to NULL, so that a first revision lands.
CasAdvances(parent) == current = parent

\* The publish point: with the pointer moved, the rows and the revision's
\* status are written in the same transaction.
ApplyAndAdvance(a) ==
    LET me == pub[a] IN
    /\ At(a, "applying") /\ me.todo = {}
    /\ CasAdvances(me.parent)
    /\ current' = me.rev
    /\ files' = FilesAfter(me.new, me.rev)
    /\ revs' = [revs EXCEPT ![me.rev].status = "APPLIED"]
    /\ history' = Append(history, [rev |-> me.rev, tree |-> HashTree'])
    /\ pub' = [pub EXCEPT ![a] = IF me.source = "RESTORE" THEN [me EXCEPT !.pc = "landed"]
                                 ELSE Idle]
    /\ UNCHANGED <<live, loaded>>

\* Another publish moved the pointer first: everything applied is to be undone.
LoseRace(a) ==
    /\ At(a, "applying") /\ pub[a].todo = {} /\ ~CasAdvances(pub[a].parent)
    /\ pub' = [pub EXCEPT ![a].pc = "undoing", ![a].verdict = "CONFLICT"]
    /\ UNCHANGED <<current, files, live, revs, loaded, history>>

\* The transaction of the publish point, or the one that marks the verdict,
\* throws.  Nothing catches it: the request fails, with the live layout as the
\* apply loop or the rollback left it and the revision still in STAGING.
DatabaseThrows(a) ==
    /\ "database" \in Faults
    /\ \/ At(a, "applying") /\ pub[a].todo = {}
       \/ At(a, "undoing") /\ pub[a].undo = {}
    /\ pub' = [pub EXCEPT ![a] = Idle]
    /\ UNCHANGED <<current, files, live, revs, loaded, history>>

\* One applied entry is put back to the previous content recorded for it.
RollbackEntry(a, x) ==
    /\ At(a, "undoing") /\ x \in pub[a].undo
    /\ live' = [live EXCEPT ![x] = pub[a].previous[x]]
    /\ pub' = [pub EXCEPT ![a].undo = @ \ {x}]
    /\ UNCHANGED <<current, files, revs, loaded, history>>

\* Mutant: the failure of a rollback escapes, and the verdict is never recorded.
RollbackEntryFailsRequest(a, x) ==
    /\ "rollback" \in Faults
    /\ At(a, "undoing") /\ x \in pub[a].undo
    /\ pub' = [pub EXCEPT ![a] = Idle]
    /\ UNCHANGED <<current, files, live, revs, loaded, history>>

\* The rollback of one entry throws: it is logged, and the next one is tried.
RollbackEntryFails(a, x) ==
    /\ "rollback" \in Faults
    /\ At(a, "undoing") /\ x \in pub[a].undo
    /\ pub' = [pub EXCEPT ![a].undo = @ \ {x}]
    /\ UNCHANGED <<current, files, live, revs, loaded, history>>

\* Mutant: the verdict is given to the newest revision recorded.
MarkNewestVerdict(a) ==
    /\ At(a, "undoing") /\ pub[a].undo = {}
    /\ revs' = [revs EXCEPT ![Len(revs)].status = pub[a].verdict]
    /\ pub' = [pub EXCEPT ![a] = Idle]
    /\ UNCHANGED <<current, files, live, loaded, history>>

\* markFailed or markConflict.
MarkVerdict(a) ==
    /\ At(a, "undoing") /\ pub[a].undo = {}
    /\ revs' = [revs EXCEPT ![pub[a].rev].status = pub[a].verdict]
    /\ pub' = [pub EXCEPT ![a] = Idle]
    /\ UNCHANGED <<current, files, live, loaded, history>>

\* A restore that landed writes which revision it restored, in a transaction
\* of its own.
RecordRestoreTarget(a) ==
    /\ At(a, "landed")
    /\ revs' = [revs EXCEPT ![pub[a].rev].restored = pub[a].restored]
    /\ pub' = [pub EXCEPT ![a] = Idle]
    /\ UNCHANGED <<current, files, live, loaded, history>>

----------------------------------------------------------------------------
(* The rest of the service *)

\* The process dies and every request in progress with it.
Crash ==
    /\ "crash" \in Faults
    /\ pub' = [a \in Actor |-> Idle]
    /\ loaded' = [e \in Editors |-> Absent]
    /\ UNCHANGED <<current, files, live, revs, history>>

\* A rename, or a retry of the template, loads the project row ...
LoadProject(e) ==
    /\ loaded[e] = Absent
    /\ loaded' = [loaded EXCEPT ![e] = current]
    /\ UNCHANGED <<current, files, live, revs, pub, history>>

\* ... and its commit writes every column of it, the pointer among them.
SaveProject(e) ==
    /\ loaded[e] # Absent
    /\ current' = loaded[e]
    /\ loaded' = [loaded EXCEPT ![e] = Absent]
    /\ UNCHANGED <<files, live, revs, pub, history>>

\* What an actor's thread does without a fault.
Progress(a) ==
    \/ CheckSave(a) \/ EndSave(a) \/ BeginSave(a) \/ BeginRestore(a) \/ CheckSize(a)
    \/ RefuseOrFailStaging(a) \/ StageManifest(a) \/ Reject(a)
    \/ ApplyAndAdvance(a) \/ LoseRace(a) \/ MarkVerdict(a) \/ RecordRestoreTarget(a)
    \/ \E x \in Path : StageEntry(a, x) \/ ApplyEntry(a, x) \/ RollbackEntry(a, x)

Next ==
    \/ \E a \in Actor :
          \/ BeginBuild(a) \/ OpenSave(a) \/ ChooseRestore(a)
          \/ Progress(a)
          \/ DatabaseThrows(a)
          \/ \E x \in Path : ApplyEntryFails(a, x) \/ RollbackEntryFails(a, x)
    \/ \E e \in Editors : LoadProject(e) \/ SaveProject(e)
    \/ Crash

Spec == Init /\ [][Next]_vars

\* Every request's thread keeps running until it answers.
Fairness == \A a \in Actor : WF_vars(Progress(a))

FairSpec == Spec /\ Fairness

----------------------------------------------------------------------------
(* Properties of the history *)

\* The revisions that landed form one line: each one's parent is the one that
\* landed just before it, ids grow along it, and the pointer is at its end.  A
\* lost compare-and-swap, a parent read late or an id taken early would fork it,
\* and reconstructSnapshot, which follows parents, would miss a revision.
LinearHistory ==
    /\ current = history[Len(history)].rev
    /\ \A i \in 2..Len(history) :
          /\ history[i].rev \in DOMAIN revs
          /\ revs[history[i].rev].parent = history[i - 1].rev
          /\ history[i - 1].rev < history[i].rev

\* The parents reconstructSnapshot walks from a restore point are all applied
\* revisions, older than it: the query has no filter on status, so a parent that
\* was refused, lost its race or never finished would leak into a restore.
\* This holds even when a stale project row is written back.
ChainIsApplied ==
    /\ current \in Applied \cup {0}
    /\ \A r \in Applied :
          /\ revs[r].parent \in Applied \cup {0}
          /\ revs[r].parent < r

\* A publish is told CONFLICT only because another one, made against the same
\* parent, landed: of concurrent publishes exactly one wins.
ConflictHasOneWinner ==
    \A r \in DOMAIN revs :
        revs[r].status = "CONFLICT" =>
            \E s \in Applied :
                /\ revs[s].parent = revs[r].parent
                /\ \A t \in Applied : revs[t].parent = revs[r].parent => t = s

\* An entry's previous hash is what its revision replaced, so the rollback data
\* and the original content are real: no other publish changed the path between
\* the read of it and the publish point.  Not claimed of a save by hand, whose
\* row is loaded before its parent is read.
PreviousIsWhatWasReplaced ==
    \A i \in 2..Len(history) :
        LET r == revs[history[i].rev]
            before == history[i - 1].tree
        IN r.source # "MANUAL_EDIT" =>
             \A x \in DOMAIN r.new : before[x] # NoHash => r.previous[x] = before[x]

Touched(x) == Naming(Applied, x) # {}

\* What stateFor finds for a restore point, and for just before it, is what the
\* project held then, on every path a revision has named.
RestorePointsAreExact ==
    \A i \in 2..Len(history) : \A x \in Path :
        Touched(x) =>
            /\ StateFor(history[i].rev, FALSE)[x] = Denotes(x, history[i].tree[x])
            /\ StateFor(history[i].rev, TRUE)[x] = Denotes(x, history[i - 1].tree[x])

\* A revision labelled as a restore left the project holding exactly what it
\* held at, or just before, the revision it names.
RestoreIsExact ==
    \A i, j \in 2..Len(history) :
        LET restored == revs[history[i].rev].restored
            held == history[IF restored.before THEN j - 1 ELSE j].tree
        IN restored.target = history[j].rev =>
             \A x \in Path : Denotes(x, history[i].tree[x]) = Denotes(x, held[x])

\* What a restore would write, and what the restores that landed left, is what
\* the history held (RevisionSnapshotReader, RevisionServiceImpl.restore).
RestoresAreExact == RestorePointsAreExact /\ RestoreIsExact

----------------------------------------------------------------------------
(* Properties of the live layout *)

\* The paths an actor's requests may name.
Footprint(a) ==
    IF a \in Savers \cup Restorers THEN Path ELSE UNION {DOMAIN new : new \in Turns[a]}

InFlight(a) == pub[a].pc \in {"applying", "undoing"}

\* Whether live storage holds what the project's rows say it does.
Faithful(x) == live[x] = Denotes(x, HashOf(files[x]))

\* A path only one actor names is faithful whenever that actor is not applying
\* or undoing: whatever failed or lost its race was put back, byte for byte.
UncontendedPathsAreFaithful ==
    \A x \in Path : \A a \in Actor :
        /\ \A b \in Actor : x \in Footprint(b) => b = a
        /\ ~InFlight(a)
        => Faithful(x)

\* "A revision either lands completely or not at all": with no publish in
\* progress, live storage is what the rows say.
LandsCompletelyOrNotAtAll ==
    (\A a \in Actor : ~InFlight(a)) => \A x \in Path : Faithful(x)

----------------------------------------------------------------------------
(* Properties of steps *)

\* The pointer only ever moves to a later revision: history is forward-only.
ForwardOnly == [][current' >= current]_vars

\* A revision that left STAGING keeps the outcome it was given, and an applied
\* one keeps its parent and its entries: history is never rewritten.
OutcomesAreFinal ==
    [][\A r \in DOMAIN revs :
          revs[r].status # "STAGING" =>
              /\ revs'[r].status = revs[r].status
              /\ revs'[r].parent = revs[r].parent
              /\ revs'[r].new = revs[r].new]_vars

\* Every revision recorded is settled in the end, unless the process dies or the
\* database fails: none is left in STAGING.
EveryRevisionSettles ==
    \A r \in 1..MaxRevision :
        (r \in DOMAIN revs) ~> (r \in DOMAIN revs /\ revs[r].status # "STAGING")
=============================================================================
