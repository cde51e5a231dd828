------------------------- MODULE RevisionsInvariant -------------------------
(* The inductive invariants the theorems about Revisions rest on. *)
EXTENDS Revisions

\* What a request in progress holds agrees with the step it is at.
Fits(q) ==
    /\ q.todo \subseteq DOMAIN q.new
    /\ q.undo \subseteq DOMAIN q.previous
    /\ q.pc \in {"idle", "opened", "checked", "chosen", "begun", "staging"} =>
        q.todo = {} /\ q.undo = {}
    /\ q.pc \in {"idle", "opened", "checked", "chosen", "begun"} => q.previous = NoChange
    /\ q.pc \in {"applying", "undoing"} => DOMAIN q.previous = DOMAIN q.new

RequestsFit == \A a \in Actor : Fits(pub[a])

\* A request that applies or undoes has recorded a revision of its own, which is
\* in STAGING, with the parent and the entries the request works with.
RequestsOwnTheirRevision ==
    \A a \in Actor :
        /\ InFlight(a) =>
             /\ pub[a].rev \in DOMAIN revs
             /\ revs[pub[a].rev].status = "STAGING"
             /\ revs[pub[a].rev].parent = pub[a].parent
             /\ revs[pub[a].rev].new = pub[a].new
             /\ revs[pub[a].rev].previous = pub[a].previous
        /\ At(a, "landed") => pub[a].rev \in Applied
        /\ \A b \in Actor : InFlight(a) /\ InFlight(b) /\ pub[a].rev = pub[b].rev => a = b

Rooted == Applied \cup {0}

\* Whatever the pointer, a loaded project row, a request or a revision names as
\* the project's revision has landed, and a revision is newer than its parent.
ParentsLanded ==
    /\ current \in Rooted
    /\ \A e \in Editors : loaded[e] \in Rooted \cup {Absent}
    /\ \A a \in Actor : pub[a].parent \in Rooted
    /\ \A r \in DOMAIN revs : revs[r].parent \in Rooted /\ revs[r].parent < r

\* Holds whatever the constants are.
Consistent == RequestsFit /\ RequestsOwnTheirRevision /\ ParentsLanded

\* Holds when no project row is written back: the applied revisions are those of
\* the history, each once and in the order of their ids.
HistoryIsComplete ==
    /\ history # <<>>
    /\ history[1].rev = 0
    /\ history[Len(history)].tree = HashTree
    /\ Applied = {history[i].rev : i \in 2..Len(history)}
    /\ \A i, j \in 1..Len(history) : i < j => history[i].rev < history[j].rev

HasWinner(parent) == \E s \in Applied : revs[s].parent = parent

\* Whoever is told CONFLICT, or is about to be, was beaten by a revision with the
\* same parent.
LosersHaveAWinner ==
    /\ \A a \in Actor : At(a, "undoing") /\ pub[a].verdict = "CONFLICT" => HasWinner(pub[a].parent)
    /\ \A r \in DOMAIN revs : revs[r].status = "CONFLICT" => HasWinner(revs[r].parent)

\* Holds when no project row is written back.
Linear == LinearHistory /\ HistoryIsComplete /\ LosersHaveAWinner

Log == INSTANCE RevisionLog WITH pointer <- current, tree <- HashTree, log <- history

\* The published tree is an atomic, append-only log: concurrent, failing and
\* conflicting publishes are invisible in it.
ImplementsRevisionLog == Log!Spec

----------------------------------------------------------------------------
(* What a revision replaced *)

SourcesRecorded ==
    \A a \in Actor :
        /\ pub[a].pc \in {"opened", "checked"} => pub[a].source = "MANUAL_EDIT"
        /\ At(a, "chosen") => pub[a].source = "RESTORE"
        /\ InFlight(a) => revs[pub[a].rev].source = pub[a].source

\* What a request has read is what the rows still hold.
ReadingHolds(q) ==
    /\ \A x \in Path : q.seen[x] \in {Absent, files[x]}
    /\ \A x \in DOMAIN q.previous : HashTree[x] # NoHash => q.previous[x] = HashTree[x]

\* A request whose parent is still the pointer has read nothing that changed
\* since.  Not so of a save by hand, whose row is loaded before its parent.
ReadsAreCurrent ==
    \A a \in Actor :
        pub[a].parent = current /\ pub[a].source # "MANUAL_EDIT" => ReadingHolds(pub[a])

\* Holds when no project row is written back.
Replaced == SourcesRecorded /\ ReadsAreCurrent /\ PreviousIsWhatWasReplaced

----------------------------------------------------------------------------
(* A path only one actor names *)

OnlyFor(x, a) == \A b \in Actor : x \in Footprint(b) => b = a

RequestsNameTheirPaths ==
    \A a \in Actor :
        /\ DOMAIN pub[a].new \subseteq Footprint(a)
        /\ pub[a].pc \in {"opened", "chosen"} => Footprint(a) = Path

\* What q has read of x, and would put back, is what the row says.
Reads(x, q) ==
    /\ q.seen[x] \in {Absent, files[x]}
    /\ x \in DOMAIN q.previous => q.previous[x] = Denotes(x, HashOf(files[x]))

\* While its actor applies or undoes, a path only it names holds the new content
\* from the time that is copied to the time the recorded previous one, what the
\* rows still say, is put back.
Follows(x, q) ==
    /\ q.pc # "landed" => Reads(x, q)
    /\ IF q.pc \in {"applying", "undoing"} /\ x \in q.undo
       THEN live[x] = q.new[x]
       ELSE Faithful(x)

PathsFollowTheirActor ==
    \A x \in Path, a \in Actor : OnlyFor(x, a) => Follows(x, pub[a])

AppliedOrToDo ==
    \A a \in Actor :
        At(a, "applying") =>
            pub[a].todo \cup pub[a].undo = DOMAIN pub[a].new /\ pub[a].todo \cap pub[a].undo = {}

\* Holds when the worst that can happen is a MinIO call that throws, having done
\* nothing.
Uncontended == RequestsNameTheirPaths /\ PathsFollowTheirActor /\ AppliedOrToDo

----------------------------------------------------------------------------
(* What the history's trees hold *)

\* The template is put back byte for byte: nobody else changes the path while a
\* request is about it, and no worse than a throwing MinIO call can happen.
TemplateIsKept ==
    \A x \in Path :
        Template[x] # Absent =>
            /\ Faults \subseteq {"storage"}
            /\ \A a, b \in Actor : x \in Footprint(a) /\ x \in Footprint(b) => a = b

TemplateTree == [x \in Path |-> IF Template[x] = Absent THEN Absent ELSE NoHash]

Landed(i) == revs[history[i].rev]

Names(i, x) == x \in DOMAIN Landed(i).new

\* Of the first i landings, the k-th is the last to name x.
LastToName(k, i, x) == k \in 2..i /\ Names(k, x) /\ \A m \in 2..i : m > k => ~Names(m, x)

\* A tree holds what the last landing to name a path wrote, or the template.
TreesAreWritten ==
    \A i \in 1..Len(history), x \in Path :
        \/ \E k \in 2..i : LastToName(k, i, x) /\ history[i].tree[x] = Landed(k).new[x]
        \/ (\A k \in 2..i : ~Names(k, x)) /\ history[i].tree[x] = TemplateTree[x]

\* The first landing to name a path replaced what the template had.
FirstReplacesTheTemplate ==
    \A i \in 2..Len(history), x \in Path :
        Names(i, x) /\ (\A k \in 2..i : k < i => ~Names(k, x)) =>
            Landed(i).previous[x] = Template[x]

\* A save by hand finds a row, so the template's or a revision's.
SavesAreOfFiles ==
    \A a \in Actor :
        /\ \A x \in Path : pub[a].seen[x] # Absent => Template[x] # Absent \/ Touched(x)
        /\ pub[a].source = "MANUAL_EDIT" =>
              \A x \in DOMAIN pub[a].new : Template[x] # Absent \/ Touched(x)

\* Holds when no project row is written back and the template is kept.
Exact == TreesAreWritten /\ FirstReplacesTheTemplate /\ SavesAreOfFiles

Held(j, before) == history[IF before THEN j - 1 ELSE j].tree

\* A project left with "tree" holds what it is to be restored to.
Restores(tree, restored) ==
    \A j \in 2..Len(history) :
        history[j].rev = restored.target =>
            \A x \in Path : Denotes(x, tree[x]) = Denotes(x, Held(j, restored.before)[x])

\* The tree a request is to leave.
Aim(q) == [x \in Path |-> IF x \in DOMAIN q.new THEN q.new[x] ELSE HashTree[x]]

\* A restore that can still land leaves what its target held, and one that landed
\* and has not said so yet has left it.
Restoring(q) ==
    /\ q.source = "RESTORE" =>
         /\ q.restored.target \in Applied
         /\ q.pc \in {"begun", "staging", "applying"} /\ q.parent = current =>
              Restores(Aim(q), q.restored)
    /\ q.pc = "landed" =>
         /\ q.source = "RESTORE"
         /\ \A i \in 2..Len(history) :
               history[i].rev = q.rev => Restores(history[i].tree, q.restored)

RestoresAim ==
    /\ \A a \in Actor : Restoring(pub[a])
    /\ \A r \in DOMAIN revs :
          /\ revs[r].restored.target \in Rooted
          /\ revs[r].status = "STAGING" => revs[r].restored = NotRestored
    /\ \A i \in 2..Len(history) : Restores(history[i].tree, Landed(i).restored)
=============================================================================
