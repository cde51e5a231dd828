-------------------------- MODULE RevisionsProofs --------------------------
(* Theorems about Revisions, for any paths, contents, actors and faults. *)
EXTENDS RevisionsInvariant, Capture, TLAPS, WellFoundedInduction

----------------------------------------------------------------------------
(* The earliest and the latest of a set of ids exist *)

\* A nonempty set of naturals has a smallest element.
LEMMA SmallestOfNats ==
    ASSUME NEW S, S \subseteq Nat, S # {}
    PROVE  \E x \in S : \A y \in S : x <= y
<1> DEFINE R == OpToRel(<, Nat)
<1>1. IsWellFoundedOn(R, Nat)
  BY NatLessThanWellFounded
<1> HIDE DEF R
<1>2. PICK x \in S : \A y \in S : ~(<<y, x>> \in R)
  BY <1>1, WFMin
<1>3. ASSUME NEW y \in S PROVE x <= y
  <2>1. x \in Nat /\ y \in Nat
    OBVIOUS
  <2>2. ~(<<y, x>> \in R)
    BY <1>2
  <2>3. ~(y < x)
    BY <2>1, <2>2 DEF R, OpToRel
  <2> QED BY <2>1, <2>3
<1> QED BY <1>3

\* Earliest picks a member.
LEMMA EarliestIn ==
    ASSUME NEW S, S \subseteq Nat, S # {}
    PROVE  Earliest(S) \in S
BY SmallestOfNats DEF Earliest

\* Latest picks a member: n minus the smallest of the differences from n.
LEMMA LatestIn ==
    ASSUME NEW n \in Nat, NEW S, S \subseteq 1..n, S # {}
    PROVE  Latest(S) \in S
<1> DEFINE T == {n - s : s \in S}
<1>1. T \subseteq Nat
  <2> SUFFICES ASSUME NEW s \in S PROVE n - s \in Nat
    OBVIOUS
  <2> s \in 1..n
    OBVIOUS
  <2> QED OBVIOUS
<1>2. T # {}
  OBVIOUS
<1>3. PICK t \in T : \A u \in T : t <= u
  <2> HIDE DEF T
  <2> QED BY <1>1, <1>2, SmallestOfNats
<1>4. PICK s \in S : t = n - s
  OBVIOUS
<1>5. ASSUME NEW r \in S PROVE r <= s
  <2>1. t <= n - r
    BY <1>3
  <2>2. r \in 1..n /\ s \in 1..n
    OBVIOUS
  <2> QED BY <1>4, <2>1, <2>2
<1> QED BY <1>5 DEF Latest

----------------------------------------------------------------------------
(* What a restore puts back is well typed *)

\* The change sets of the type: a function on some paths.
LEMMA ChangesType ==
    /\ \A new \in Changes : DOMAIN new \subseteq Path /\ \A x \in DOMAIN new : new[x] \in Object
    /\ \A S \in SUBSET Path : [S -> Object] \subseteq Changes
    /\ NoChange \in Changes
<1>1. \A new \in Changes : DOMAIN new \subseteq Path /\ \A x \in DOMAIN new : new[x] \in Object
  BY DEF Changes
<1>2. \A S \in SUBSET Path : [S -> Object] \subseteq Changes
  BY DEF Changes
<1>3. NoChange \in [{} -> Object]
  BY DEF NoChange
<1> QED BY <1>1, <1>2, <1>3

\* A snapshot gives every path an object, or NoHash.
LEMMA SnapshotType ==
    ASSUME TypeOK, NEW r, NEW x \in Path
    PROVE  Snapshot(r)[x] \in Object \cup {NoHash}
<1> DEFINE naming == IF r = 0 THEN {} ELSE Naming(Chain(r), x)
<1>1. naming \subseteq 1..Len(revs)
  BY DEF Naming, Chain, TypeOK
<1>2. CASE naming = {}
  BY <1>2 DEF Snapshot
<1>3. CASE naming # {}
  <2>1. Len(revs) \in Nat
    BY DEF TypeOK
  <2>2. Latest(naming) \in naming
    <3> HIDE DEF naming
    <3> QED BY <1>1, <1>3, <2>1, LatestIn
  <2>3. Latest(naming) \in 1..Len(revs) /\ x \in DOMAIN revs[Latest(naming)].new
    <3>1. naming = Naming(Chain(r), x)
      BY <1>3
    <3>2. \A s \in Naming(Chain(r), x) : x \in DOMAIN revs[s].new
      BY DEF Naming
    <3>3. PICK s \in naming : s = Latest(naming)
      BY <2>2
    <3>4. s \in 1..Len(revs)
      BY <1>1
    <3>5. x \in DOMAIN revs[s].new
      BY <3>1, <3>2
    <3> HIDE DEF naming
    <3> QED BY <3>3, <3>4, <3>5
  <2>4. revs[Latest(naming)].new \in Changes
    BY <2>3 DEF TypeOK, Revision
  <2>5. revs[Latest(naming)].new[x] \in Object
    BY <2>3, <2>4, ChangesType
  <2> QED BY <1>3, <2>5 DEF Snapshot
<1> QED BY <1>2, <1>3

\* The original content of a path is an object, as its first entry's previous hash is.
LEMMA OriginalContentType ==
    ASSUME TypeOK, NEW x \in Path
    PROVE  OriginalContent(x) \in Object
<1> DEFINE naming == Naming(Applied, x)
<1>1. naming \subseteq 1..Len(revs)
  BY DEF Naming, Applied
<1>2. CASE naming = {}
  BY <1>2 DEF OriginalContent, Object
<1>3. CASE naming # {}
  <2>1. Earliest(naming) \in naming
    <3>1. naming \subseteq Nat
      BY <1>1 DEF TypeOK
    <3> HIDE DEF naming
    <3> QED BY <3>1, <1>3, EarliestIn
  <2>2. PICK r \in naming : r = Earliest(naming)
    BY <2>1
  <2>3. r \in 1..Len(revs) /\ x \in DOMAIN revs[r].new
    BY <1>1 DEF Naming
  <2>4. x \in DOMAIN revs[r].previous /\ revs[r].previous \in Changes
    BY <2>3 DEF TypeOK, Revision
  <2> QED BY <1>3, <2>2, <2>4, ChangesType DEF OriginalContent
<1> QED BY <1>2, <1>3

\* The change set of a restore is a change set.
LEMMA RestoreType ==
    ASSUME TypeOK, NEW r, NEW before
    PROVE  LET state == StateFor(r, before)
           IN [x \in DiffAgainstCurrent(state) |-> state[x]] \in Changes
<1> DEFINE state == StateFor(r, before)
           diff == DiffAgainstCurrent(state)
<1>1. ASSUME NEW x \in Path PROVE state[x] \in Object
  <2> DEFINE from == IF before THEN revs[r].parent ELSE r
  <2>1. state[x] = IF Snapshot(from)[x] = NoHash THEN OriginalContent(x) ELSE Snapshot(from)[x]
    BY DEF StateFor
  <2> HIDE DEF state
  <2> QED BY <2>1, SnapshotType, OriginalContentType
<1>2. diff \in SUBSET Path
  BY DEF DiffAgainstCurrent
<1>3. [x \in diff |-> state[x]] \in [diff -> Object]
  <2> HIDE DEF state, diff
  <2> QED BY <1>1, <1>2
<1> HIDE DEF state, diff
<1>4. [x \in diff |-> state[x]] \in Changes
  BY <1>2, <1>3, ChangesType
<1> QED BY <1>4 DEF state, diff

----------------------------------------------------------------------------
(* Type correctness *)

\* Updating one actor's request keeps the requests typed.
LEMMA RequestUpdate ==
    ASSUME pub \in [Actor -> Request], NEW a \in Actor, NEW q \in Request
    PROVE  [pub EXCEPT ![a] = q] \in [Actor -> Request]
OBVIOUS

\* The request of an idle actor is a request.
LEMMA IdleType == Idle \in Request
BY RevisionsAssumption, ChangesType DEF Idle, Request, Phase, Source, RevId, NoRows, NotRestored, Object

\* The initial state is well typed.
LEMMA InitType == Init => TypeOK
<1> SUFFICES ASSUME Init PROVE TypeOK
  OBVIOUS
<1> USE RevisionsAssumption
<1>1. current \in RevId
  BY DEF Init, RevId
<1>2. files \in [Path -> Row \cup {Absent}]
  BY DEF Init, Row
<1>3. live \in [Path -> Object]
  BY DEF Init, Object
<1>4. revs \in Seq(Revision) /\ Len(revs) <= MaxRevision
  BY DEF Init
<1>5. pub \in [Actor -> Request]
  BY IdleType DEF Init
<1>6. loaded \in [Editors -> RevId \cup {Absent}]
  BY DEF Init
<1>7. history \in Seq(Landing)
  <2>1. HashTree \in Tree
    BY <1>2 DEF HashTree, Tree, HashOf, Hash, Row
  <2> QED BY <2>1 DEF Init, RevId, Landing
<1> QED BY <1>1, <1>2, <1>3, <1>4, <1>5, <1>6, <1>7 DEF TypeOK

\* The steps that only move a request on.
LEMMA RequestSteps ==
    ASSUME TypeOK, NEW a \in Actor,
           \/ BeginBuild(a) \/ OpenSave(a) \/ CheckSave(a) \/ EndSave(a) \/ BeginSave(a)
           \/ ChooseRestore(a) \/ BeginRestore(a) \/ CheckSize(a) \/ RefuseOrFailStaging(a)
           \/ (\E x \in Path : StageEntry(a, x) \/ RollbackEntryFails(a, x))
           \/ LoseRace(a) \/ DatabaseThrows(a)
    PROVE  TypeOK'
<1> USE RevisionsAssumption
<1>1. UNCHANGED <<current, files, live, revs, loaded, history>>
  BY DEF BeginBuild, OpenSave, CheckSave, EndSave, BeginSave, ChooseRestore, BeginRestore,
         CheckSize, RefuseOrFailStaging, StageEntry, RollbackEntryFails, LoseRace, DatabaseThrows
<1>2. pub' \in [Actor -> Request]
  <2>0. /\ Idle \in Request /\ pub \in [Actor -> Request] /\ pub[a] \in Request
        /\ current \in RevId /\ files \in [Path -> Row \cup {Absent}]
        /\ live \in [Path -> Object]
    BY IdleType DEF TypeOK
  <2>1. CASE BeginBuild(a)
    <3>1. PICK new \in Turns[a] :
             pub' = [pub EXCEPT ![a] = [Idle EXCEPT !.pc = "begun", !.new = new, !.parent = current]]
      BY <2>1 DEF BeginBuild
    <3>2. new \in Changes
      BY <2>1 DEF BeginBuild
    <3>3. [Idle EXCEPT !.pc = "begun", !.new = new, !.parent = current] \in Request
      BY <2>0, <3>2 DEF Request, Phase
    <3> QED BY <2>0, <3>1, <3>3
  <2>2. CASE OpenSave(a)
    <3>1. PICK x \in Path :
             /\ files[x] # Absent
             /\ pub' = [pub EXCEPT ![a] = [Idle EXCEPT !.pc = "opened", !.source = "MANUAL_EDIT",
                                                       !.seen[x] = files[x]]]
      BY <2>2 DEF OpenSave
    <3>2. [Idle EXCEPT !.pc = "opened", !.source = "MANUAL_EDIT", !.seen[x] = files[x]] \in Request
      BY <2>0 DEF Request, Phase, Source
    <3> QED BY <2>0, <3>1, <3>2
  <2>3. CASE CheckSave(a)
    <3>1. PICK x \in Path, text \in Content :
             pub' = [pub EXCEPT ![a].pc = "checked", ![a].new = [y \in {x} |-> text]]
      BY <2>3 DEF CheckSave
    <3>2. [y \in {x} |-> text] \in [{x} -> Object]
      BY DEF Object
    <3>3. [y \in {x} |-> text] \in Changes
      BY <3>2, ChangesType
    <3> QED BY <2>0, <3>1, <3>3 DEF Request, Phase
  <2>4. CASE EndSave(a)
    BY <2>0, <2>4 DEF EndSave
  <2>5. CASE BeginSave(a)
    BY <2>0, <2>5 DEF BeginSave, Request, Phase
  <2>6. CASE ChooseRestore(a)
    <3>1. PICK r \in Applied, before \in BOOLEAN :
             pub' = [pub EXCEPT ![a] = [Idle EXCEPT !.pc = "chosen", !.source = "RESTORE",
                                                   !.parent = current,
                                                   !.restored = [target |-> r, before |-> before]]]
      BY <2>6 DEF ChooseRestore
    <3>2. r \in RevId
      BY DEF Applied, RevId, TypeOK
    <3>3. [Idle EXCEPT !.pc = "chosen", !.source = "RESTORE", !.parent = current,
                       !.restored = [target |-> r, before |-> before]] \in Request
      BY <2>0, <3>2 DEF Request, Phase, Source
    <3> QED BY <2>0, <3>1, <3>3
  <2>7. CASE BeginRestore(a)
    <3> DEFINE state == StateFor(pub[a].restored.target, pub[a].restored.before)
               new == [x \in DiffAgainstCurrent(state) |-> state[x]]
    <3>1. pub' = [pub EXCEPT ![a].pc = "begun", ![a].seen = files, ![a].new = new]
      BY <2>7 DEF BeginRestore
    <3>2. new \in Changes
      BY RestoreType
    <3> HIDE DEF new
    <3> QED BY <2>0, <3>1, <3>2 DEF Request, Phase
  <2>8. CASE RefuseOrFailStaging(a)
    BY <2>0, <2>8 DEF RefuseOrFailStaging
  <2>9. CASE \E x \in Path : StageEntry(a, x)
    <3>1. PICK x \in Path : StageEntry(a, x)
      BY <2>9
    <3> DEFINE previous == [y \in DOMAIN pub[a].previous \cup {x} |->
                              IF y = x THEN PreviousState(a, x) ELSE pub[a].previous[y]]
    <3>2. pub' = [pub EXCEPT ![a].previous = previous]
      BY <2>0, <3>1 DEF StageEntry
    <3>3. PreviousState(a, x) \in Object
      BY <2>0 DEF PreviousState, RowInSession, HashOf, Request, Row, Object
    <3>4. pub[a].previous \in Changes
      BY <2>0 DEF Request
    <3>5. previous \in [DOMAIN pub[a].previous \cup {x} -> Object]
      BY <3>3, <3>4, ChangesType
    <3>6. DOMAIN pub[a].previous \cup {x} \in SUBSET Path
      BY <3>4, ChangesType
    <3>7. previous \in Changes
      <4> HIDE DEF previous
      <4> QED BY <3>5, <3>6, ChangesType
    <3> HIDE DEF previous
    <3> QED BY <2>0, <3>2, <3>7 DEF Request
  <2>10. CASE \E x \in Path : RollbackEntryFails(a, x)
    <3>1. PICK x \in Path : pub' = [pub EXCEPT ![a].undo = @ \ {x}]
      BY <2>10 DEF RollbackEntryFails
    <3>2. pub[a].undo \ {x} \in SUBSET Path
      BY <2>0 DEF Request
    <3> QED BY <2>0, <3>1, <3>2 DEF Request
  <2>11. CASE LoseRace(a)
    BY <2>0, <2>11 DEF LoseRace, Request, Phase
  <2>12. CASE DatabaseThrows(a)
    BY <2>0, <2>12 DEF DatabaseThrows
  <2>13. CASE CheckSize(a)
    <3> DEFINE seen == [x \in Path |-> RowInSession(a, x)]
    <3>1. seen \in [Path -> Row \cup {Absent}]
      BY <2>0 DEF RowInSession, Request
    <3>2. \/ pub' = [pub EXCEPT ![a].pc = "staging", ![a].seen = seen]
          \/ pub' = [pub EXCEPT ![a].pc = "staging"]
      BY <2>13 DEF CheckSize
    <3> HIDE DEF seen
    <3>3. CASE pub' = [pub EXCEPT ![a].pc = "staging", ![a].seen = seen]
      BY <2>0, <3>1, <3>3 DEF Request, Phase
    <3>4. CASE pub' = [pub EXCEPT ![a].pc = "staging"]
      BY <2>0, <3>4 DEF Request, Phase
    <3> QED BY <3>2, <3>3, <3>4
  <2> QED
    BY <2>1, <2>2, <2>3, <2>4, <2>5, <2>6, <2>7, <2>8, <2>9, <2>10, <2>11, <2>12, <2>13
<1> QED BY <1>1, <1>2 DEF TypeOK

\* Updating one recorded revision keeps the recorded revisions typed.
LEMMA RevisionUpdate ==
    ASSUME revs \in Seq(Revision), NEW r, NEW q, r \in DOMAIN revs => q \in Revision
    PROVE  /\ [revs EXCEPT ![r] = q] \in Seq(Revision)
           /\ Len([revs EXCEPT ![r] = q]) = Len(revs)
<1>1. CASE r \in DOMAIN revs
  BY <1>1
<1>2. CASE r \notin DOMAIN revs
  <2>1. [revs EXCEPT ![r] = q] = revs
    BY <1>2
  <2> QED BY <2>1
<1> QED BY <1>1, <1>2

\* The steps that give a revision its outcome, or label it.
LEMMA OutcomeSteps ==
    ASSUME TypeOK, NEW a \in Actor, Reject(a) \/ MarkVerdict(a) \/ RecordRestoreTarget(a)
    PROVE  TypeOK'
<1>1. UNCHANGED <<current, files, live, loaded, history>> /\ pub' = [pub EXCEPT ![a] = Idle]
  BY DEF Reject, MarkVerdict, RecordRestoreTarget
<1>2. pub' \in [Actor -> Request]
  BY <1>1, IdleType DEF TypeOK
<1>3. revs' \in Seq(Revision) /\ Len(revs') = Len(revs)
  <2> DEFINE r == pub[a].rev
  <2>1. pub[a] \in Request /\ (r \in DOMAIN revs => revs[r] \in Revision)
    BY DEF TypeOK
  <2>2. \A status \in Status : revs[r] \in Revision => [revs[r] EXCEPT !.status = status] \in Revision
    BY DEF Revision
  <2>3. revs[r] \in Revision => [revs[r] EXCEPT !.restored = pub[a].restored] \in Revision
    BY <2>1 DEF Revision, Request
  <2>4. CASE Reject(a)
    <3>1. revs' = [revs EXCEPT ![r] = [revs[r] EXCEPT !.status = "FAILED"]]
      BY <2>4 DEF Reject
    <3> QED BY <2>1, <2>2, <3>1, RevisionUpdate DEF Status, TypeOK
  <2>5. CASE MarkVerdict(a)
    <3>1. revs' = [revs EXCEPT ![r] = [revs[r] EXCEPT !.status = pub[a].verdict]]
      BY <2>5 DEF MarkVerdict
    <3>2. pub[a].verdict \in Status
      BY <2>1 DEF Request, Status
    <3> QED BY <2>1, <2>2, <3>1, <3>2, RevisionUpdate DEF TypeOK
  <2>6. CASE RecordRestoreTarget(a)
    <3>1. revs' = [revs EXCEPT ![r] = [revs[r] EXCEPT !.restored = pub[a].restored]]
      BY <2>6 DEF RecordRestoreTarget
    <3> QED BY <2>1, <2>3, <3>1, RevisionUpdate DEF TypeOK
  <2> QED BY <2>4, <2>5, <2>6
<1> QED BY <1>1, <1>2, <1>3 DEF TypeOK

\* The steps that touch the live layout.
LEMMA StorageSteps ==
    ASSUME TypeOK, NEW a \in Actor, NEW x \in Path,
           ApplyEntry(a, x) \/ ApplyEntryFails(a, x) \/ RollbackEntry(a, x),
           RequestsFit
    PROVE  TypeOK'
<1>1. UNCHANGED <<current, files, revs, loaded, history>>
  BY DEF ApplyEntry, ApplyEntryFails, RollbackEntry
<1>2. pub[a] \in Request
  BY DEF TypeOK
<1>3. live' \in [Path -> Object]
  <2>1. x \in pub[a].todo => pub[a].new[x] \in Object
    BY <1>2, ChangesType DEF Request, RequestsFit, Fits
  <2>2. x \in pub[a].undo => pub[a].previous[x] \in Object
    BY <1>2, ChangesType DEF Request, RequestsFit, Fits
  <2> QED BY <2>1, <2>2 DEF TypeOK, ApplyEntry, ApplyEntryFails, RollbackEntry
<1>4. pub' \in [Actor -> Request]
  <2>1. /\ pub[a].todo \ {x} \in SUBSET Path
        /\ pub[a].undo \ {x} \in SUBSET Path
        /\ pub[a].undo \cup {x} \in SUBSET Path
    BY <1>2 DEF Request
  <2>2. CASE ApplyEntry(a, x)
    BY <1>2, <2>1, <2>2 DEF ApplyEntry, TypeOK, Request
  <2>3. CASE ApplyEntryFails(a, x)
    BY <1>2, <2>3 DEF ApplyEntryFails, TypeOK, Request, Phase
  <2>4. CASE RollbackEntry(a, x)
    BY <1>2, <2>1, <2>4 DEF RollbackEntry, TypeOK, Request
  <2> QED BY <2>2, <2>3, <2>4
<1> QED BY <1>1, <1>3, <1>4 DEF TypeOK

\* Recording a manifest keeps the state well typed: an entry for each staged path.
LEMMA StageManifestType ==
    ASSUME TypeOK, NEW a \in Actor, StageManifest(a)
    PROVE  TypeOK'
<1> USE RevisionsAssumption
<1> DEFINE me == pub[a]
           r == [parent |-> me.parent, status |-> "STAGING", source |-> me.source,
                 new |-> me.new, previous |-> me.previous, restored |-> NotRestored]
<1>1. /\ me \in Request /\ revs \in Seq(Revision) /\ Len(revs) < MaxRevision
      /\ DOMAIN me.previous = DOMAIN me.new
  BY DEF TypeOK, StageManifest, Room
<1>2. revs' = Append(revs, r)
  BY DEF StageManifest
<1>3. r \in Revision
  BY <1>1 DEF Request, Revision, Status, NotRestored, RevId
<1>4. revs' \in Seq(Revision) /\ Len(revs') = Len(revs) + 1
  <2> HIDE DEF r
  <2> QED BY <1>1, <1>2, <1>3
<1>5. pub' \in [Actor -> Request]
  <2>1. Len(revs) + 1 \in RevId
    BY <1>1 DEF RevId
  <2>2. DOMAIN me.new \in SUBSET Path
    BY <1>1, ChangesType DEF Request
  <2>3. pub' = [pub EXCEPT ![a].pc = "applying", ![a].rev = Len(revs) + 1, ![a].todo = DOMAIN me.new]
    BY DEF StageManifest
  <2> QED BY <1>1, <2>1, <2>2, <2>3 DEF TypeOK, Request, Phase
<1>6. UNCHANGED <<current, files, live, loaded, history>>
  BY DEF StageManifest
<1> QED BY <1>1, <1>4, <1>5, <1>6 DEF TypeOK

\* The publish point keeps the state well typed.
LEMMA ApplyAndAdvanceType ==
    ASSUME TypeOK, NEW a \in Actor, ApplyAndAdvance(a)
    PROVE  TypeOK'
<1> USE RevisionsAssumption
<1> DEFINE me == pub[a]
<1>1. me \in Request /\ revs \in Seq(Revision)
  BY DEF TypeOK
<1>2. current' \in RevId
  BY <1>1 DEF ApplyAndAdvance, Request
<1>3. files' \in [Path -> Row \cup {Absent}]
  <2>1. files' = FilesAfter(me.new, me.rev)
    BY DEF ApplyAndAdvance
  <2>2. ASSUME NEW x \in Path PROVE files'[x] \in Row \cup {Absent}
    <3>1. files[x] \in Row \cup {Absent}
      BY DEF TypeOK
    <3>2. x \in DOMAIN me.new => me.new[x] \in Object
      BY <1>1, ChangesType DEF Request
    <3>3. me.rev \in 0..MaxRevision
      BY <1>1 DEF Request, RevId
    <3> QED BY <2>1, <3>1, <3>2, <3>3 DEF FilesAfter, Row, Object
  <2> QED BY <2>1, <2>2 DEF FilesAfter
<1>4. revs' \in Seq(Revision) /\ Len(revs') = Len(revs)
  <2>1. revs' = [revs EXCEPT ![me.rev] = [revs[me.rev] EXCEPT !.status = "APPLIED"]]
    BY DEF ApplyAndAdvance
  <2>2. me.rev \in DOMAIN revs => revs[me.rev] \in Revision
    BY <1>1
  <2>3. revs[me.rev] \in Revision => [revs[me.rev] EXCEPT !.status = "APPLIED"] \in Revision
    BY DEF Revision, Status
  <2> QED BY <1>1, <2>1, <2>2, <2>3, RevisionUpdate
<1>5. pub' \in [Actor -> Request]
  <2>1. [me EXCEPT !.pc = "landed"] \in Request
    BY <1>1 DEF Request, Phase
  <2> QED BY <2>1, IdleType DEF ApplyAndAdvance, TypeOK
<1>6. history' \in Seq(Landing)
  <2>1. HashTree' \in Tree
    BY <1>3 DEF HashTree, Tree, HashOf, Hash, Row
  <2>2. me.rev \in RevId
    BY <1>1 DEF Request
  <2>3. history' = Append(history, [rev |-> me.rev, tree |-> HashTree'])
    BY DEF ApplyAndAdvance
  <2>4. [rev |-> me.rev, tree |-> HashTree'] \in Landing
    BY <2>1, <2>2 DEF Landing
  <2> QED BY <2>3, <2>4 DEF TypeOK
<1>7. UNCHANGED <<live, loaded>>
  BY DEF ApplyAndAdvance
<1> QED BY <1>2, <1>3, <1>4, <1>5, <1>6, <1>7 DEF TypeOK

\* The steps that are no actor's: a crash, and the loading and saving of a project row.
LEMMA ServiceSteps ==
    ASSUME TypeOK, Crash \/ \E e \in Editors : LoadProject(e) \/ SaveProject(e)
    PROVE  TypeOK'
<1> USE RevisionsAssumption
<1>1. CASE Crash
  BY <1>1, IdleType DEF Crash, TypeOK
<1>2. ASSUME NEW e \in Editors, LoadProject(e) PROVE TypeOK'
  BY <1>2 DEF LoadProject, TypeOK
<1>3. ASSUME NEW e \in Editors, SaveProject(e) PROVE TypeOK'
  BY <1>3 DEF SaveProject, TypeOK
<1> QED BY <1>1, <1>2, <1>3

\* Every step of one actor, for the proofs that take them one by one.
ActorStep(a) ==
    \/ BeginBuild(a) \/ OpenSave(a) \/ ChooseRestore(a) \/ Progress(a) \/ DatabaseThrows(a)
    \/ \E x \in Path : ApplyEntryFails(a, x) \/ RollbackEntryFails(a, x)

\* Every step of an actor keeps the state well typed.
LEMMA ActorStepType ==
    ASSUME TypeOK, RequestsFit, NEW a \in Actor, ActorStep(a)
    PROVE  TypeOK'
<1>1. CASE \/ BeginBuild(a) \/ OpenSave(a) \/ CheckSave(a) \/ EndSave(a) \/ BeginSave(a)
           \/ ChooseRestore(a) \/ BeginRestore(a) \/ CheckSize(a) \/ RefuseOrFailStaging(a)
           \/ (\E x \in Path : StageEntry(a, x) \/ RollbackEntryFails(a, x))
           \/ LoseRace(a) \/ DatabaseThrows(a)
  BY <1>1, RequestSteps
<1>2. CASE StageManifest(a)
  BY <1>2, StageManifestType
<1>3. CASE Reject(a) \/ MarkVerdict(a) \/ RecordRestoreTarget(a)
  BY <1>3, OutcomeSteps
<1>4. CASE \E x \in Path : ApplyEntry(a, x) \/ ApplyEntryFails(a, x) \/ RollbackEntry(a, x)
  BY <1>4, StorageSteps
<1>5. CASE ApplyAndAdvance(a)
  BY <1>5, ApplyAndAdvanceType
<1> QED BY <1>1, <1>2, <1>3, <1>4, <1>5 DEF ActorStep, Progress

\* A step of one actor leaves the requests of the others alone.
LEMMA OthersKeepTheirRequest ==
    ASSUME TypeOK, NEW a \in Actor, ActorStep(a), NEW b \in Actor, b # a
    PROVE  pub'[b] = pub[b]
<1>1. pub \in [Actor -> Request]
  BY DEF TypeOK
<1> QED
  BY <1>1 DEF ActorStep, Progress, BeginBuild, OpenSave, ChooseRestore, CheckSave, EndSave, BeginSave,
    BeginRestore, CheckSize, StageEntry, RefuseOrFailStaging, StageManifest, Reject, ApplyEntry, ApplyEntryFails,
    ApplyAndAdvance, LoseRace, DatabaseThrows, RollbackEntry, RollbackEntryFails, MarkVerdict,
    RecordRestoreTarget

\* A request keeps fitting the step it is at.
LEMMA ActorStepFits ==
    ASSUME TypeOK, RequestsFit, NEW a \in Actor, ActorStep(a)
    PROVE  RequestsFit'
<1> DEFINE q == pub[a]
<1>0. q \in Request /\ Fits(q) /\ pub \in [Actor -> Request]
  BY DEF TypeOK, RequestsFit
<1>1. Fits(Idle)
  BY DEF Fits, Idle, NoChange
<1> SUFFICES Fits(q')
  BY OthersKeepTheirRequest DEF RequestsFit
<1>3. CASE EndSave(a) \/ RefuseOrFailStaging(a) \/ Reject(a) \/ DatabaseThrows(a)
           \/ MarkVerdict(a) \/ RecordRestoreTarget(a)
  BY <1>0, <1>1, <1>3
     DEF EndSave, RefuseOrFailStaging, Reject, DatabaseThrows, MarkVerdict, RecordRestoreTarget
<1>4. CASE BeginBuild(a) \/ OpenSave(a) \/ ChooseRestore(a)
  <2>1. /\ q'.todo = {} /\ q'.undo = {} /\ q'.previous = NoChange
        /\ q'.pc \in {"begun", "opened", "chosen"}
    <3>1. CASE BeginBuild(a)
      BY <1>0, <3>1 DEF BeginBuild, Idle
    <3>2. CASE OpenSave(a)
      BY <1>0, <3>2 DEF OpenSave, Idle
    <3>3. CASE ChooseRestore(a)
      BY <1>0, <3>3 DEF ChooseRestore, Idle
    <3> QED BY <1>4, <3>1, <3>2, <3>3
  <2> QED BY <2>1 DEF Fits
<1>5. CASE CheckSave(a) \/ BeginSave(a) \/ BeginRestore(a) \/ CheckSize(a)
  <2>1. /\ q'.todo = q.todo /\ q'.undo = q.undo /\ q'.previous = q.previous
        /\ \/ q.pc = "opened" /\ q'.pc = "checked"
           \/ q.pc \in {"checked", "chosen"} /\ q'.pc = "begun"
           \/ q.pc = "begun" /\ q'.pc = "staging"
    <3>1. CASE CheckSave(a)
      BY <1>0, <3>1 DEF CheckSave, At, Request
    <3>2. CASE BeginSave(a)
      BY <1>0, <3>2 DEF BeginSave, At, Request
    <3>3. CASE BeginRestore(a)
      BY <1>0, <3>3 DEF BeginRestore, At, Request
    <3>4. CASE CheckSize(a)
      BY <1>0, <3>4 DEF CheckSize, At, Request
    <3> QED BY <1>5, <3>1, <3>2, <3>3, <3>4
  <2> QED BY <1>0, <2>1 DEF Fits
<1>6. CASE \E x \in Path : StageEntry(a, x)
  <2>1. q'.todo = q.todo /\ q'.undo = q.undo /\ q.pc = "staging" /\ q'.pc = "staging"
    BY <1>0, <1>6 DEF StageEntry, At, Request
  <2> QED BY <1>0, <2>1 DEF Fits
<1>7. CASE StageManifest(a)
  <2>1. /\ q'.new = q.new /\ q'.previous = q.previous
        /\ q'.todo = DOMAIN q.new /\ q'.undo = q.undo
        /\ q.pc = "staging" /\ q'.pc = "applying" /\ DOMAIN q.previous = DOMAIN q.new
    BY <1>0, <1>7 DEF StageManifest, At, Request
  <2> QED BY <1>0, <2>1 DEF Fits
<1>8. CASE \E x \in Path : \/ ApplyEntry(a, x) \/ ApplyEntryFails(a, x)
                           \/ RollbackEntry(a, x) \/ RollbackEntryFails(a, x)
  <2>1. PICK x \in Path : \/ ApplyEntry(a, x) \/ ApplyEntryFails(a, x)
                          \/ RollbackEntry(a, x) \/ RollbackEntryFails(a, x)
    BY <1>8
  <2>2. /\ q'.new = q.new /\ q'.previous = q.previous
        /\ q'.todo \subseteq q.todo
        /\ q'.undo \subseteq q.undo \cup {x}
        /\ x \in q.todo \/ q'.undo \subseteq q.undo
        /\ q.pc \in {"applying", "undoing"} /\ q'.pc \in {"applying", "undoing"}
    <3>1. CASE ApplyEntry(a, x)
      BY <1>0, <3>1 DEF ApplyEntry, At, Request
    <3>2. CASE ApplyEntryFails(a, x)
      BY <1>0, <3>2 DEF ApplyEntryFails, At, Request
    <3>3. CASE RollbackEntry(a, x)
      BY <1>0, <3>3 DEF RollbackEntry, At, Request
    <3>4. CASE RollbackEntryFails(a, x)
      BY <1>0, <3>4 DEF RollbackEntryFails, At, Request
    <3> QED BY <2>1, <3>1, <3>2, <3>3, <3>4
  <2> QED BY <1>0, <2>2 DEF Fits
<1>9. CASE ApplyAndAdvance(a) \/ LoseRace(a)
  <2>1. \/ q' = Idle
        \/ /\ q'.new = q.new /\ q'.previous = q.previous
           /\ q'.todo = q.todo /\ q'.undo = q.undo
           /\ q.pc = "applying" /\ q'.pc \in {"landed", "undoing"}
    <3>1. CASE ApplyAndAdvance(a)
      <4>1. q.pc = "applying" /\ (q' = Idle \/ q' = [q EXCEPT !.pc = "landed"])
        BY <1>0, <3>1 DEF ApplyAndAdvance, At
      <4> QED BY <1>0, <4>1 DEF Request
    <3>2. CASE LoseRace(a)
      BY <1>0, <3>2 DEF LoseRace, At, Request
    <3> QED BY <1>9, <3>1, <3>2
  <2> QED BY <1>0, <1>1, <2>1 DEF Fits
<1> QED BY <1>3, <1>4, <1>5, <1>6, <1>7, <1>8, <1>9 DEF ActorStep, Progress

\* Type correctness and the fit of the requests are preserved together.
LEMMA RequestsFitStep == TypeOK /\ RequestsFit /\ [Next]_vars => TypeOK' /\ RequestsFit'
<1> SUFFICES ASSUME TypeOK, RequestsFit, [Next]_vars PROVE TypeOK' /\ RequestsFit'
  OBVIOUS
<1>1. CASE UNCHANGED vars
  <2>1. TypeOK'
    BY <1>1 DEF vars, TypeOK
  <2>2. RequestsFit'
    BY <1>1 DEF vars, RequestsFit
  <2> QED BY <2>1, <2>2
<1>2. CASE Crash \/ \E e \in Editors : LoadProject(e) \/ SaveProject(e)
  <2>1. Fits(Idle)
    BY DEF Fits, Idle, NoChange
  <2>2. RequestsFit'
    BY <1>2, <2>1 DEF Crash, LoadProject, SaveProject, RequestsFit
  <2> QED BY <1>2, <2>2, ServiceSteps
<1>3. ASSUME NEW a \in Actor, ActorStep(a) PROVE TypeOK' /\ RequestsFit'
  BY <1>3, ActorStepType, ActorStepFits
<1> QED BY <1>1, <1>2, <1>3 DEF Next, ActorStep

\* Idle requests fit.
LEMMA RequestsFitInit == Init => RequestsFit
<1>1. Fits(Idle)
  BY DEF Fits, Idle, NoChange
<1> QED BY <1>1 DEF Init, RequestsFit

\* The state stays well typed: what every step reads back, a change set, a
\* previous hash, the files a restore puts back, is what it was when written.
THEOREM TypeCorrect == Spec => []TypeOK
<1>1. Init => TypeOK /\ RequestsFit
  BY InitType, RequestsFitInit
<1>2. TypeOK /\ RequestsFit /\ [Next]_vars => (TypeOK /\ RequestsFit)'
  BY RequestsFitStep
<1> QED BY <1>1, <1>2, PTL DEF Spec

----------------------------------------------------------------------------
(* A request owns its revision, and parents have landed *)

\* A step of one actor records at most one revision, and of those recorded it
\* changes at most the status of the one it is applying or undoing.
LEMMA RevisionsKept ==
    ASSUME TypeOK, RequestsFit, RequestsOwnTheirRevision, NEW a \in Actor, ActorStep(a)
    PROVE  /\ DOMAIN revs \subseteq DOMAIN revs'
           /\ \A r \in DOMAIN revs :
                 /\ revs'[r].parent = revs[r].parent
                 /\ revs'[r].new = revs[r].new
                 /\ revs'[r].previous = revs[r].previous
                 /\ ~(InFlight(a) /\ r = pub[a].rev) => revs'[r].status = revs[r].status
<1>0. /\ revs \in Seq(Revision)
      /\ \A r \in DOMAIN revs : revs[r] \in Revision
  BY DEF TypeOK
<1>1. CASE UNCHANGED revs
  BY <1>1
<1>2. CASE StageManifest(a)
  <2>1. PICK r : revs' = Append(revs, r)
    BY <1>2 DEF StageManifest
  <2>2. DOMAIN revs \subseteq DOMAIN revs' /\ \A s \in DOMAIN revs : revs'[s] = revs[s]
    BY <1>0, <2>1
  <2> QED BY <2>2
<1>3. CASE Reject(a) \/ MarkVerdict(a) \/ ApplyAndAdvance(a)
  <2>1. PICK status : revs' = [revs EXCEPT ![pub[a].rev].status = status]
    BY <1>3 DEF Reject, MarkVerdict, ApplyAndAdvance
  <2>2. InFlight(a)
    BY <1>3 DEF Reject, MarkVerdict, ApplyAndAdvance, At, InFlight
  <2> QED BY <1>0, <2>1, <2>2 DEF Revision
<1>4. CASE RecordRestoreTarget(a)
  BY <1>0, <1>4 DEF RecordRestoreTarget, Revision
<1> QED
  BY <1>1, <1>2, <1>3, <1>4 DEF ActorStep, Progress, BeginBuild, OpenSave, ChooseRestore, CheckSave,
    EndSave, BeginSave, BeginRestore, CheckSize, StageEntry, RefuseOrFailStaging, ApplyEntry, ApplyEntryFails,
    LoseRace, DatabaseThrows, RollbackEntry, RollbackEntryFails

\* An applied revision stays applied.
LEMMA AppliedKept ==
    ASSUME TypeOK, RequestsFit, RequestsOwnTheirRevision, NEW a \in Actor, ActorStep(a)
    PROVE  Applied \subseteq Applied'
<1>1. ASSUME NEW r \in Applied PROVE r \in Applied'
  <2>1. r \in DOMAIN revs /\ revs[r].status = "APPLIED"
    BY DEF Applied, TypeOK
  <2>2. ~(InFlight(a) /\ r = pub[a].rev)
    BY <2>1 DEF RequestsOwnTheirRevision
  <2>3. r \in DOMAIN revs' /\ revs'[r].status = "APPLIED"
    BY <2>1, <2>2, RevisionsKept
  <2>4. revs' \in Seq(Revision)
    BY ActorStepType DEF TypeOK
  <2> QED BY <2>3, <2>4 DEF Applied
<1> QED BY <1>1

\* Where a step takes its actor's request: before the apply loop, into it with a
\* new revision, on within it, or past the publish point.
LEMMA OwnRequest ==
    ASSUME TypeOK, RequestsFit, RequestsOwnTheirRevision, NEW a \in Actor, ActorStep(a)
    PROVE  \/ pub'[a].pc \in {"idle", "opened", "checked", "chosen", "begun", "staging"}
           \/ StageManifest(a)
           \/ /\ InFlight(a) /\ InFlight(a)' /\ UNCHANGED revs
              /\ pub'[a].rev = pub[a].rev
              /\ pub'[a].parent = pub[a].parent
              /\ pub'[a].new = pub[a].new
              /\ pub'[a].previous = pub[a].previous
              /\ At(a, "undoing")' /\ pub'[a].verdict = "CONFLICT" =>
                     LoseRace(a) \/ (At(a, "undoing") /\ pub[a].verdict = "CONFLICT")
           \/ ApplyAndAdvance(a) /\ pub'[a].pc = "landed" /\ pub'[a].rev = pub[a].rev
<1>0. pub \in [Actor -> Request] /\ pub[a] \in Request /\ Idle.pc = "idle"
  BY DEF TypeOK, Idle
<1>1. CASE EndSave(a) \/ RefuseOrFailStaging(a) \/ Reject(a) \/ DatabaseThrows(a)
           \/ MarkVerdict(a) \/ RecordRestoreTarget(a)
  BY <1>0, <1>1
     DEF EndSave, RefuseOrFailStaging, Reject, DatabaseThrows, MarkVerdict, RecordRestoreTarget
<1>2. CASE BeginBuild(a)
  BY <1>0, <1>2 DEF BeginBuild, Idle
<1>3. CASE OpenSave(a)
  BY <1>0, <1>3 DEF OpenSave, Idle
<1>4. CASE ChooseRestore(a)
  BY <1>0, <1>4 DEF ChooseRestore, Idle
<1>5. CASE CheckSave(a)
  BY <1>0, <1>5 DEF CheckSave, Request
<1>6. CASE BeginSave(a)
  BY <1>0, <1>6 DEF BeginSave, Request
<1>7. CASE BeginRestore(a) \/ CheckSize(a)
  BY <1>0, <1>7 DEF BeginRestore, CheckSize, Request
<1>8. CASE \E x \in Path : StageEntry(a, x)
  BY <1>0, <1>8 DEF StageEntry, Request, At
<1>9. CASE \E x \in Path : \/ ApplyEntry(a, x) \/ ApplyEntryFails(a, x)
                           \/ RollbackEntry(a, x) \/ RollbackEntryFails(a, x)
  <2>1. PICK x \in Path : \/ ApplyEntry(a, x) \/ ApplyEntryFails(a, x)
                          \/ RollbackEntry(a, x) \/ RollbackEntryFails(a, x)
    BY <1>9
  <2> QED
    BY <1>0, <2>1
       DEF ApplyEntry, ApplyEntryFails, RollbackEntry, RollbackEntryFails, At, InFlight, Request
<1>10. CASE LoseRace(a)
  BY <1>0, <1>10 DEF LoseRace, At, InFlight, Request
<1>11. CASE ApplyAndAdvance(a)
  <2>1. pub'[a] = Idle \/ pub'[a] = [pub[a] EXCEPT !.pc = "landed"]
    BY <1>0, <1>11 DEF ApplyAndAdvance
  <2> QED BY <1>0, <1>11, <2>1 DEF Request
<1> QED
  BY <1>1, <1>2, <1>3, <1>4, <1>5, <1>6, <1>7, <1>8, <1>9, <1>10, <1>11 DEF ActorStep, Progress

\* Each request keeps a revision of its own.
LEMMA ActorStepOwns ==
    ASSUME TypeOK, RequestsFit, RequestsOwnTheirRevision, NEW a \in Actor, ActorStep(a)
    PROVE  RequestsOwnTheirRevision'
<1> USE DEF InFlight, At
<1>0. /\ revs \in Seq(Revision) /\ revs' \in Seq(Revision)
      /\ pub \in [Actor -> Request] /\ pub' \in [Actor -> Request]
  BY ActorStepType DEF TypeOK
<1>1. \A b \in Actor : b # a => pub'[b] = pub[b]
  BY OthersKeepTheirRequest
<1>2. ASSUME NEW b \in Actor, b # a, InFlight(b)
      PROVE  /\ pub[b].rev \in DOMAIN revs'
             /\ revs'[pub[b].rev].status = "STAGING"
             /\ revs'[pub[b].rev].parent = pub[b].parent
             /\ revs'[pub[b].rev].new = pub[b].new
             /\ revs'[pub[b].rev].previous = pub[b].previous
  <2>1. ~(InFlight(a) /\ pub[b].rev = pub[a].rev)
    BY <1>2 DEF RequestsOwnTheirRevision
  <2> QED BY <1>2, <2>1, RevisionsKept DEF RequestsOwnTheirRevision
<1>3. ASSUME NEW b \in Actor, b # a, At(b, "landed") PROVE pub[b].rev \in Applied'
  BY <1>3, AppliedKept DEF RequestsOwnTheirRevision
<1>4. CASE pub'[a].pc \in {"idle", "opened", "checked", "chosen", "begun", "staging"}
  BY <1>1, <1>2, <1>3, <1>4 DEF RequestsOwnTheirRevision
<1>5. CASE StageManifest(a)
  <2>1. /\ pub'[a].rev = Len(revs) + 1 /\ pub'[a].pc = "applying"
        /\ pub'[a].parent = pub[a].parent /\ pub'[a].new = pub[a].new
        /\ pub'[a].previous = pub[a].previous
    BY <1>0, <1>5 DEF StageManifest, Request
  <2>2. /\ Len(revs) + 1 \in DOMAIN revs'
        /\ revs'[Len(revs) + 1].status = "STAGING"
        /\ revs'[Len(revs) + 1].parent = pub[a].parent
        /\ revs'[Len(revs) + 1].new = pub[a].new
        /\ revs'[Len(revs) + 1].previous = pub[a].previous
    BY <1>0, <1>5 DEF StageManifest
  <2>3. \A b \in Actor : b # a /\ InFlight(b) => pub[b].rev # Len(revs) + 1
    BY <1>0 DEF RequestsOwnTheirRevision
  <2> QED BY <1>1, <1>2, <1>3, <2>1, <2>2, <2>3 DEF RequestsOwnTheirRevision
<1>6. CASE /\ InFlight(a) /\ InFlight(a)' /\ UNCHANGED revs
           /\ pub'[a].rev = pub[a].rev
           /\ pub'[a].parent = pub[a].parent
           /\ pub'[a].new = pub[a].new
           /\ pub'[a].previous = pub[a].previous
  BY <1>1, <1>2, <1>3, <1>6 DEF RequestsOwnTheirRevision
<1>7. CASE ApplyAndAdvance(a) /\ pub'[a].pc = "landed" /\ pub'[a].rev = pub[a].rev
  <2>1. pub[a].rev \in DOMAIN revs
    BY <1>7 DEF ApplyAndAdvance, RequestsOwnTheirRevision
  <2>2. pub[a].rev \in DOMAIN revs' /\ revs'[pub[a].rev].status = "APPLIED"
    BY <1>0, <1>7, <2>1 DEF ApplyAndAdvance, Revision
  <2>3. pub[a].rev \in Applied'
    BY <1>0, <2>2 DEF Applied
  <2> QED BY <1>1, <1>2, <1>3, <1>7, <2>3 DEF RequestsOwnTheirRevision
<1> QED BY <1>4, <1>5, <1>6, <1>7, OwnRequest

\* Ids are below the next one to be given.
LEMMA RootedBelow ==
    ASSUME TypeOK
    PROVE  /\ Rooted \subseteq 0..Len(revs)
           /\ Len(revs) \in Nat
BY DEF Rooted, Applied, TypeOK

\* A step of an actor names no parent that has not landed.
LEMMA ActorStepParents ==
    ASSUME TypeOK, Consistent, NEW a \in Actor, ActorStep(a)
    PROVE  ParentsLanded'
<1> USE DEF Consistent
<1>0. /\ revs \in Seq(Revision) /\ revs' \in Seq(Revision)
      /\ pub \in [Actor -> Request] /\ pub' \in [Actor -> Request] /\ pub[a] \in Request
  BY ActorStepType DEF TypeOK
<1>1. Rooted \subseteq Rooted'
  BY AppliedKept DEF Rooted
<1>2. current' \in Rooted' /\ UNCHANGED loaded
  <2>1. CASE ApplyAndAdvance(a)
    <3>1. pub[a].rev \in DOMAIN revs
      BY <2>1 DEF ApplyAndAdvance, At, InFlight, RequestsOwnTheirRevision
    <3>2. pub[a].rev \in DOMAIN revs' /\ revs'[pub[a].rev].status = "APPLIED"
      BY <1>0, <2>1, <3>1 DEF ApplyAndAdvance, Revision
    <3> QED BY <1>0, <2>1, <3>2 DEF ApplyAndAdvance, Rooted, Applied
  <2>2. CASE ~ApplyAndAdvance(a)
    <3>1. UNCHANGED <<current, loaded>>
      BY <2>2 DEF ActorStep, Progress, BeginBuild, OpenSave, ChooseRestore, CheckSave, EndSave,
        BeginSave, BeginRestore, CheckSize, StageEntry, RefuseOrFailStaging, StageManifest, Reject, ApplyEntry,
        ApplyEntryFails, LoseRace, DatabaseThrows, RollbackEntry, RollbackEntryFails, MarkVerdict,
        RecordRestoreTarget
    <3> QED BY <1>1, <3>1 DEF ParentsLanded
  <2> QED BY <2>1, <2>2
<1>3. pub'[a].parent \in Rooted'
  <2>1. pub'[a].parent \in {pub[a].parent, current, 0}
    <3>1. CASE EndSave(a) \/ RefuseOrFailStaging(a) \/ Reject(a) \/ DatabaseThrows(a)
               \/ MarkVerdict(a) \/ RecordRestoreTarget(a)
      BY <1>0, <3>1 DEF EndSave, RefuseOrFailStaging, Reject, DatabaseThrows, MarkVerdict,
        RecordRestoreTarget, Idle
    <3>2. CASE BeginBuild(a)
      BY <1>0, <3>2 DEF BeginBuild, Idle
    <3>3. CASE OpenSave(a)
      BY <1>0, <3>3 DEF OpenSave, Idle
    <3>4. CASE ChooseRestore(a)
      BY <1>0, <3>4 DEF ChooseRestore, Idle
    <3>5. CASE CheckSave(a)
      BY <1>0, <3>5 DEF CheckSave, Request
    <3>6. CASE BeginSave(a)
      BY <1>0, <3>6 DEF BeginSave, Request
    <3>7. CASE BeginRestore(a) \/ CheckSize(a)
      BY <1>0, <3>7 DEF BeginRestore, CheckSize, Request
    <3>8. CASE \E x \in Path : StageEntry(a, x)
      BY <1>0, <3>8 DEF StageEntry, Request
    <3>9. CASE \E x \in Path : \/ ApplyEntry(a, x) \/ ApplyEntryFails(a, x)
                               \/ RollbackEntry(a, x) \/ RollbackEntryFails(a, x)
      <4>1. PICK x \in Path : \/ ApplyEntry(a, x) \/ ApplyEntryFails(a, x)
                              \/ RollbackEntry(a, x) \/ RollbackEntryFails(a, x)
        BY <3>9
      <4> QED
        BY <1>0, <4>1 DEF ApplyEntry, ApplyEntryFails, RollbackEntry, RollbackEntryFails, Request
    <3>10. CASE StageManifest(a)
      BY <1>0, <3>10 DEF StageManifest, Request
    <3>11. CASE LoseRace(a)
      BY <1>0, <3>11 DEF LoseRace, Request
    <3>12. CASE ApplyAndAdvance(a)
      <4>1. pub'[a] = Idle \/ pub'[a] = [pub[a] EXCEPT !.pc = "landed"]
        BY <1>0, <3>12 DEF ApplyAndAdvance
      <4> QED BY <1>0, <4>1 DEF Request, Idle
    <3> QED
      BY <3>1, <3>2, <3>3, <3>4, <3>5, <3>6, <3>7, <3>8, <3>9, <3>10, <3>11, <3>12
         DEF ActorStep, Progress
  <2> QED BY <1>1, <2>1 DEF ParentsLanded, Rooted
<1>4. \A b \in Actor : pub'[b].parent \in Rooted'
  BY <1>1, <1>3, OthersKeepTheirRequest DEF ParentsLanded
<1>5. ASSUME NEW r \in DOMAIN revs' PROVE revs'[r].parent \in Rooted' /\ revs'[r].parent < r
  <2>1. CASE r \in DOMAIN revs
    BY <1>1, <2>1, RevisionsKept DEF ParentsLanded
  <2>2. CASE r \notin DOMAIN revs
    <3>1. StageManifest(a)
      <4>1. CASE DOMAIN revs' = DOMAIN revs
        BY <2>2, <4>1
      <4>2. CASE DOMAIN revs' # DOMAIN revs
        BY <1>0, <4>2 DEF ActorStep, Progress, BeginBuild, OpenSave, ChooseRestore, CheckSave, EndSave,
          BeginSave, BeginRestore, CheckSize, StageEntry, RefuseOrFailStaging, Reject, ApplyEntry,
          ApplyEntryFails, ApplyAndAdvance, LoseRace, DatabaseThrows, RollbackEntry,
          RollbackEntryFails, MarkVerdict, RecordRestoreTarget
      <4> QED BY <4>1, <4>2
    <3>2. r = Len(revs) + 1 /\ revs'[r].parent = pub[a].parent
      BY <1>0, <2>2, <3>1 DEF StageManifest
    <3>3. pub[a].parent \in Rooted /\ pub[a].parent \in 0..Len(revs)
      BY RootedBelow DEF ParentsLanded
    <3> QED BY <1>1, <3>2, <3>3, RootedBelow
  <2> QED BY <2>1, <2>2
<1> QED BY <1>1, <1>2, <1>4, <1>5 DEF ParentsLanded

\* A crash, or a project row loaded or saved, keeps the state consistent.
LEMMA ServiceStepConsistent ==
    ASSUME TypeOK, Consistent, Crash \/ \E e \in Editors : LoadProject(e) \/ SaveProject(e)
    PROVE  Consistent'
<1> USE DEF Consistent
<1>1. Fits(Idle) /\ Idle.pc = "idle" /\ Idle.parent = 0
  BY DEF Fits, Idle, NoChange
<1>2. UNCHANGED revs /\ Rooted' = Rooted
  BY DEF Crash, LoadProject, SaveProject, Rooted, Applied
<1>3. CASE Crash
  BY <1>1, <1>2, <1>3 DEF Crash, RequestsFit, RequestsOwnTheirRevision, ParentsLanded, InFlight, At, Rooted
<1>4. ASSUME NEW e \in Editors, LoadProject(e) \/ SaveProject(e) PROVE Consistent'
  <2>1. UNCHANGED pub
    BY <1>4 DEF LoadProject, SaveProject
  <2>2. RequestsFit' /\ RequestsOwnTheirRevision'
    BY <1>2, <2>1 DEF RequestsFit, RequestsOwnTheirRevision, InFlight, At, Applied
  <2>3. loaded \in [Editors -> RevId \cup {Absent}]
    BY DEF TypeOK
  <2>5. ParentsLanded'
    BY <1>2, <1>4, <2>1, <2>3 DEF LoadProject, SaveProject, ParentsLanded
  <2> QED BY <2>2, <2>5
<1> QED BY <1>3, <1>4

\* The initial state is consistent.
LEMMA ConsistentInit == Init => Consistent
<1> SUFFICES ASSUME Init PROVE Consistent
  OBVIOUS
<1>1. Idle.pc = "idle" /\ Idle.parent = 0
  BY DEF Idle
<1>2. revs = <<>> /\ pub = [a \in Actor |-> Idle]
  BY DEF Init
<1>3. RequestsOwnTheirRevision
  BY <1>1, <1>2 DEF RequestsOwnTheirRevision, InFlight, At
<1>4. ParentsLanded
  BY <1>1, <1>2 DEF Init, ParentsLanded, Rooted
<1> QED BY <1>3, <1>4, RequestsFitInit DEF Consistent

\* Consistency is inductive, relative to type correctness.
LEMMA ConsistentStep == TypeOK /\ Consistent /\ [Next]_vars => TypeOK' /\ Consistent'
<1> SUFFICES ASSUME TypeOK, Consistent, [Next]_vars PROVE TypeOK' /\ Consistent'
  OBVIOUS
<1> USE DEF Consistent
<1>1. TypeOK' /\ RequestsFit'
  BY RequestsFitStep
<1>2. CASE UNCHANGED vars
  BY <1>1, <1>2
     DEF vars, RequestsOwnTheirRevision, ParentsLanded, InFlight, At, Rooted, Applied
<1>3. CASE Crash \/ \E e \in Editors : LoadProject(e) \/ SaveProject(e)
  BY <1>1, <1>3, ServiceStepConsistent
<1>4. ASSUME NEW a \in Actor, ActorStep(a) PROVE Consistent'
  BY <1>1, <1>4, ActorStepOwns, ActorStepParents
<1> QED BY <1>1, <1>2, <1>3, <1>4 DEF Next, ActorStep

\* Every request in progress agrees with the revision it recorded, and every
\* parent it could build on has landed.
THEOREM AlwaysConsistent == Spec => [](TypeOK /\ Consistent)
<1>1. Init => TypeOK /\ Consistent
  BY InitType, ConsistentInit
<1>2. TypeOK /\ Consistent /\ [Next]_vars => (TypeOK /\ Consistent)'
  BY ConsistentStep
<1> QED BY <1>1, <1>2, PTL DEF Spec

\* The chain a restore walks is made of applied revisions with decreasing ids,
\* whatever the faults, and even when stale project rows are written back.
THEOREM ChainAlwaysApplied == Spec => []ChainIsApplied
<1>1. TypeOK /\ Consistent => ChainIsApplied
  <2> SUFFICES ASSUME TypeOK, Consistent PROVE ChainIsApplied
    OBVIOUS
  <2>1. Applied \subseteq DOMAIN revs
    BY DEF Applied, TypeOK
  <2> QED BY <2>1 DEF Consistent, ParentsLanded, ChainIsApplied, Rooted
<1> QED BY <1>1, AlwaysConsistent, PTL

\* No step of any actor, and no crash, changes the outcome of a revision that has
\* one, or an applied revision's parent or entries.
THEOREM OutcomesStayFinal == Spec => OutcomesAreFinal
<1> DEFINE Final == \A r \in DOMAIN revs :
                      revs[r].status # "STAGING" =>
                          /\ revs'[r].status = revs[r].status
                          /\ revs'[r].parent = revs[r].parent
                          /\ revs'[r].new = revs[r].new
<1>1. TypeOK /\ Consistent /\ [Next]_vars => [Final]_vars
  <2> SUFFICES ASSUME TypeOK, Consistent, Next PROVE Final
    OBVIOUS
  <2>1. CASE Crash \/ \E e \in Editors : LoadProject(e) \/ SaveProject(e)
    BY <2>1 DEF Crash, LoadProject, SaveProject
  <2>2. ASSUME NEW a \in Actor, ActorStep(a) PROVE Final
    <3> SUFFICES ASSUME NEW r \in DOMAIN revs, revs[r].status # "STAGING"
                 PROVE  /\ revs'[r].status = revs[r].status
                        /\ revs'[r].parent = revs[r].parent
                        /\ revs'[r].new = revs[r].new
      OBVIOUS
    <3>1. ~(InFlight(a) /\ r = pub[a].rev)
      BY DEF Consistent, RequestsOwnTheirRevision
    <3> QED BY <2>2, <3>1, RevisionsKept DEF Consistent
  <2> QED BY <2>1, <2>2 DEF Next, ActorStep
<1>2. Spec => [][Final]_vars
  BY <1>1, AlwaysConsistent, PTL DEF Spec
<1> QED BY <1>2 DEF OutcomesAreFinal

----------------------------------------------------------------------------
(* Without a stale project row, history is one line *)

\* Only the publish point adds to the applied revisions.
LEMMA AppliedSame ==
    ASSUME TypeOK, Consistent, NEW a \in Actor, ActorStep(a), ~ApplyAndAdvance(a)
    PROVE  Applied' = Applied
<1>0. revs \in Seq(Revision) /\ revs' \in Seq(Revision) /\ pub[a] \in Request
  BY ActorStepType DEF TypeOK, Consistent
<1>1. Applied \subseteq Applied'
  BY AppliedKept DEF Consistent
<1>2. ASSUME NEW r \in Applied', r \notin Applied PROVE FALSE
  <2>1. r \in DOMAIN revs' /\ revs'[r].status = "APPLIED"
    BY <1>0, <1>2 DEF Applied
  <2>2. CASE r \notin DOMAIN revs
    <3>1. CASE StageManifest(a)
      <4>1. PICK q : revs' = Append(revs, q) /\ q.status = "STAGING"
        BY <3>1 DEF StageManifest
      <4> QED BY <1>0, <2>1, <2>2, <4>1
    <3>2. CASE ~StageManifest(a)
      BY <1>0, <2>1, <2>2, <3>2 DEF ActorStep, Progress, BeginBuild, OpenSave, ChooseRestore,
        CheckSave, EndSave, BeginSave, BeginRestore, CheckSize, StageEntry, RefuseOrFailStaging, Reject,
        ApplyEntry, ApplyEntryFails, ApplyAndAdvance, LoseRace, DatabaseThrows, RollbackEntry,
        RollbackEntryFails, MarkVerdict, RecordRestoreTarget
    <3> QED BY <3>1, <3>2
  <2>3. CASE r \in DOMAIN revs
    <3>1. revs[r].status # "APPLIED"
      BY <1>0, <1>2, <2>3 DEF Applied
    <3>2. InFlight(a) /\ r = pub[a].rev
      BY <2>1, <2>3, <3>1, RevisionsKept DEF Consistent
    <3>3. Reject(a) \/ MarkVerdict(a) \/ UNCHANGED revs
      BY <3>2 DEF InFlight, At, ActorStep, Progress, BeginBuild, OpenSave, ChooseRestore,
        CheckSave, EndSave, BeginSave, BeginRestore, CheckSize, StageEntry, RefuseOrFailStaging, StageManifest,
        ApplyEntry, ApplyEntryFails, LoseRace, DatabaseThrows, RollbackEntry,
        RollbackEntryFails, RecordRestoreTarget
    <3>4. CASE UNCHANGED revs
      BY <2>1, <3>1, <3>4
    <3>5. CASE Reject(a)
      <4>1. revs'[r].status = "FAILED"
        BY <1>0, <2>3, <3>2, <3>5 DEF Reject, Revision
      <4> QED BY <2>1, <4>1
    <3>6. CASE MarkVerdict(a)
      <4>1. revs'[r].status = pub[a].verdict
        BY <1>0, <2>3, <3>2, <3>6 DEF MarkVerdict, Revision
      <4> QED BY <1>0, <2>1, <4>1 DEF Request
    <3> QED BY <3>3, <3>4, <3>5, <3>6
  <2> QED BY <2>2, <2>3
<1> QED BY <1>1, <1>2

\* A publish point extends the line.
LEMMA AdvanceLinear ==
    ASSUME TypeOK, Consistent, LinearHistory, HistoryIsComplete, NEW a \in Actor, ApplyAndAdvance(a)
    PROVE  LinearHistory' /\ HistoryIsComplete'
<1> DEFINE r == pub[a].rev
           n == Len(history)
           e == [rev |-> r, tree |-> HashTree']
<1>0. ActorStep(a)
  BY DEF ActorStep, Progress
<1>1. /\ revs \in Seq(Revision) /\ revs' \in Seq(Revision)
      /\ history \in Seq(Landing) /\ n \in Nat \ {0}
  BY <1>0, ActorStepType DEF TypeOK, Consistent, HistoryIsComplete
<1>2. r \in DOMAIN revs /\ revs[r].parent = current /\ current < r
  BY DEF Consistent, RequestsOwnTheirRevision, ParentsLanded, InFlight, At, ApplyAndAdvance, CasAdvances
<1>3. history' = Append(history, e) /\ current' = r
  BY DEF ApplyAndAdvance
<1>4. /\ Len(history') = n + 1
      /\ \A i \in 1..n : history'[i] = history[i]
      /\ history'[n + 1] = e
  BY <1>1, <1>3
<1>5. revs'[r].status = "APPLIED" /\ revs'[r].parent = current
  BY <1>1, <1>2 DEF ApplyAndAdvance, Revision
<1>6. \A s \in DOMAIN revs :
        /\ s \in DOMAIN revs'
        /\ revs'[s].parent = revs[s].parent
        /\ s # r => revs'[s].status = revs[s].status
  BY <1>0, RevisionsKept DEF Consistent
<1>7. LinearHistory'
  <2>1. current' = history'[Len(history')].rev
    BY <1>1, <1>3, <1>4
  <2>2. ASSUME NEW i \in 2..Len(history')
        PROVE  /\ history'[i].rev \in DOMAIN revs'
               /\ revs'[history'[i].rev].parent = history'[i - 1].rev
               /\ history'[i - 1].rev < history'[i].rev
    <3>1. CASE i \in 2..n
      <4>1. i \in 1..n /\ i - 1 \in 1..n
        BY <1>1, <3>1
      <4>2. history'[i] = history[i] /\ history'[i - 1] = history[i - 1]
        BY <1>4, <4>1
      <4>3. /\ history[i].rev \in DOMAIN revs
            /\ revs[history[i].rev].parent = history[i - 1].rev
            /\ history[i - 1].rev < history[i].rev
        BY <3>1 DEF LinearHistory
      <4> QED BY <1>6, <4>2, <4>3
    <3>2. CASE i = n + 1
      <4>1. history'[i - 1].rev = current
        BY <1>1, <1>4, <3>2 DEF LinearHistory
      <4>2. history'[i].rev = r
        BY <1>4, <3>2
      <4> QED BY <1>2, <1>5, <1>6, <4>1, <4>2
    <3> QED BY <1>1, <1>4, <3>1, <3>2
  <2> QED BY <2>1, <2>2 DEF LinearHistory
<1>8. HistoryIsComplete'
  <2>1. history' # <<>> /\ history'[1].rev = 0 /\ history'[Len(history')].tree = HashTree'
    BY <1>1, <1>4 DEF HistoryIsComplete
  <2>2. Applied' = {history'[i].rev : i \in 2..Len(history')}
    <3>1. Applied' = Applied \cup {r}
      <4>1. DOMAIN revs' = DOMAIN revs
        BY <1>1 DEF ApplyAndAdvance
      <4>2. Applied' = {s \in DOMAIN revs : revs'[s].status = "APPLIED"}
        BY <1>1, <4>1 DEF Applied
      <4>3. Applied = {s \in DOMAIN revs : revs[s].status = "APPLIED"}
        BY <1>1 DEF Applied
      <4> HIDE DEF r
      <4> QED BY <1>2, <1>5, <1>6, <4>2, <4>3
    <3>2. {history'[i].rev : i \in 2..(n + 1)} = {history[i].rev : i \in 2..n} \cup {r}
      <4>1. \A i \in 2..(n + 1) : i \in 2..n \/ i = n + 1
        BY <1>1
      <4>2. \A i \in 2..n : i \in 2..(n + 1) /\ i \in 1..n
        BY <1>1
      <4>3. n + 1 \in 2..(n + 1)
        BY <1>1
      <4> QED BY <1>4, <4>1, <4>2, <4>3
    <3> QED BY <1>4, <3>1, <3>2 DEF HistoryIsComplete
  <2>3. ASSUME NEW i \in 1..Len(history'), NEW j \in 1..Len(history'), i < j
        PROVE  history'[i].rev < history'[j].rev
    <3>1. CASE j \in 1..n
      <4>1. i \in 1..n
        BY <1>1, <2>3, <3>1
      <4> QED BY <1>4, <2>3, <3>1, <4>1 DEF HistoryIsComplete
    <3>2. CASE j = n + 1
      <4>1. i \in 1..n /\ n \in 1..n
        BY <1>1, <1>4, <2>3, <3>2
      <4>2. history[i].rev < history[n].rev \/ i = n
        BY <1>1, <4>1 DEF HistoryIsComplete
      <4>3. /\ history[i].rev \in Nat /\ history[n].rev \in Nat
            /\ history[n].rev = current /\ r \in Nat
        <5>1. \A k \in 1..n : history[k].rev \in RevId
          <6>1. \A k \in 1..n : history[k] \in Landing
            BY <1>1
          <6> QED BY <6>1 DEF Landing
        <5>2. RevId \subseteq Nat /\ r \in Nat
          BY <1>1, <1>2 DEF RevId
        <5> QED BY <4>1, <5>1, <5>2 DEF LinearHistory
      <4> QED BY <1>2, <1>4, <3>2, <4>1, <4>2, <4>3
    <3> QED BY <1>1, <1>4, <3>1, <3>2
  <2> QED BY <2>1, <2>2, <2>3 DEF HistoryIsComplete
<1> QED BY <1>7, <1>8

\* Away from the publish point the tables' current state stands still.
LEMMA Quiet ==
    ASSUME NEW a \in Actor, ActorStep(a), ~ApplyAndAdvance(a)
    PROVE  UNCHANGED <<current, files, history, loaded>>
BY DEF ActorStep, Progress, BeginBuild, OpenSave, ChooseRestore, CheckSave, EndSave, BeginSave,
  BeginRestore, CheckSize, StageEntry, RefuseOrFailStaging, StageManifest, Reject, ApplyEntry, ApplyEntryFails,
  LoseRace, DatabaseThrows, RollbackEntry, RollbackEntryFails, MarkVerdict, RecordRestoreTarget

\* A step of an actor keeps the landed revisions on one line.
LEMMA ActorStepLinear ==
    ASSUME TypeOK, Consistent, LinearHistory, HistoryIsComplete, NEW a \in Actor, ActorStep(a)
    PROVE  LinearHistory' /\ HistoryIsComplete'
<1>1. CASE ApplyAndAdvance(a)
  BY <1>1, AdvanceLinear
<1>2. CASE ~ApplyAndAdvance(a)
  <2>1. UNCHANGED <<current, files, history>>
    BY <1>2, Quiet
  <2>2. Applied' = Applied
    BY <1>2, AppliedSame
  <2>3. HistoryIsComplete'
    BY <2>1, <2>2 DEF HistoryIsComplete, HashTree
  <2>4. LinearHistory'
    BY <2>1, RevisionsKept DEF LinearHistory, Consistent
  <2> QED BY <2>3, <2>4
<1> QED BY <1>1, <1>2

\* A pointer that is not where a parent was read has moved through a revision
\* made on that parent.
LEMMA BeatenByAWinner ==
    ASSUME TypeOK, Consistent, LinearHistory, HistoryIsComplete,
           NEW parent \in Rooted, current # parent
    PROVE  HasWinner(parent)
<1> DEFINE n == Len(history)
<1>0. history \in Seq(Landing) /\ n \in Nat \ {0}
  BY DEF TypeOK, HistoryIsComplete
<1>1. PICK i \in 1..n : history[i].rev = parent
  <2>1. CASE parent = 0
    BY <1>0, <2>1 DEF HistoryIsComplete
  <2>2. CASE parent \in Applied
    <3>1. PICK i \in 2..n : history[i].rev = parent
      BY <2>2 DEF HistoryIsComplete
    <3> QED BY <1>0, <3>1
  <2> QED BY <2>1, <2>2 DEF Rooted
<1>2. i # n
  BY <1>1 DEF LinearHistory
<1>3. i + 1 \in 2..n /\ (i + 1) - 1 = i
  BY <1>0, <1>2
<1>4. history[i + 1].rev \in Applied
  BY <1>3 DEF HistoryIsComplete
<1>5. revs[history[i + 1].rev].parent = history[i].rev
  BY <1>3 DEF LinearHistory
<1> QED BY <1>1, <1>4, <1>5 DEF HasWinner

\* A step of an actor makes no loser without a winner on the same parent.
LEMMA ActorStepLosers ==
    ASSUME TypeOK, Consistent, Linear, NEW a \in Actor, ActorStep(a)
    PROVE  LosersHaveAWinner'
<1> USE DEF Linear
<1>0. /\ revs \in Seq(Revision) /\ revs' \in Seq(Revision)
      /\ pub \in [Actor -> Request] /\ pub[a] \in Request
  BY ActorStepType DEF TypeOK, Consistent
<1>1. ASSUME NEW parent, HasWinner(parent) PROVE HasWinner(parent)'
  <2>1. PICK s \in Applied : revs[s].parent = parent
    BY <1>1 DEF HasWinner
  <2>2. s \in Applied' /\ s \in DOMAIN revs
    BY <1>0, AppliedKept DEF Consistent, Applied
  <2>3. revs'[s].parent = parent
    BY <2>1, <2>2, RevisionsKept DEF Consistent
  <2> QED BY <2>2, <2>3 DEF HasWinner
<1>2. ASSUME At(a, "undoing")', pub'[a].verdict = "CONFLICT" PROVE HasWinner(pub'[a].parent)
  <2>1. /\ pub'[a].parent = pub[a].parent
        /\ LoseRace(a) \/ (At(a, "undoing") /\ pub[a].verdict = "CONFLICT")
    <3>1. ~StageManifest(a)
      BY <1>0, <1>2 DEF StageManifest, At, Request
    <3> QED BY <1>2, <3>1, OwnRequest DEF Consistent, At
  <2>2. CASE LoseRace(a)
    <3>1. pub[a].parent \in Rooted /\ current # pub[a].parent
      BY <2>2 DEF LoseRace, CasAdvances, Consistent, ParentsLanded
    <3> QED BY <2>1, <3>1, BeatenByAWinner
  <2>3. CASE At(a, "undoing") /\ pub[a].verdict = "CONFLICT"
    BY <2>1, <2>3 DEF LosersHaveAWinner
  <2> QED BY <2>1, <2>2, <2>3
<1>3. ASSUME NEW b \in Actor, At(b, "undoing")', pub'[b].verdict = "CONFLICT"
      PROVE  HasWinner(pub[b].parent)'
  <2>1. HasWinner(pub'[b].parent)
    <3>1. CASE b = a
      BY <1>2, <1>3, <3>1
    <3>2. CASE b # a
      BY <1>3, <3>2, OthersKeepTheirRequest DEF LosersHaveAWinner, At
    <3> QED BY <3>1, <3>2
  <2>2. PICK p : p = pub'[b].parent
    OBVIOUS
  <2>3. HasWinner(p)
    BY <2>1, <2>2
  <2>4. HasWinner(p)'
    BY <1>1, <2>3
  <2> QED BY <2>2, <2>4
<1>4. ASSUME NEW r \in DOMAIN revs', revs'[r].status = "CONFLICT" PROVE HasWinner(revs[r].parent)'
  <2>1. HasWinner(revs'[r].parent)
    <3>1. CASE r \in DOMAIN revs /\ revs[r].status = "CONFLICT"
      BY <3>1, RevisionsKept DEF LosersHaveAWinner, Consistent
    <3>2. CASE r \in DOMAIN revs /\ revs[r].status # "CONFLICT"
      <4>1. InFlight(a) /\ r = pub[a].rev
        BY <1>4, <3>2, RevisionsKept DEF Consistent
      <4>2. revs[r].parent = pub[a].parent /\ revs'[r].parent = revs[r].parent
        BY <3>2, <4>1, RevisionsKept DEF Consistent, RequestsOwnTheirRevision
      <4>3. Reject(a) \/ MarkVerdict(a) \/ ApplyAndAdvance(a) \/ UNCHANGED revs
        BY <4>1 DEF InFlight, At, ActorStep, Progress, BeginBuild, OpenSave, ChooseRestore,
          CheckSave, EndSave, BeginSave, BeginRestore, CheckSize, StageEntry, RefuseOrFailStaging,
          StageManifest, ApplyEntry, ApplyEntryFails, LoseRace, DatabaseThrows, RollbackEntry,
          RollbackEntryFails, RecordRestoreTarget
      <4>4. CASE UNCHANGED revs
        BY <1>4, <3>2, <4>4
      <4>5. CASE Reject(a) \/ ApplyAndAdvance(a)
        <5>1. revs'[r].status \in {"FAILED", "APPLIED"}
          BY <1>0, <3>2, <4>1, <4>5 DEF Reject, ApplyAndAdvance, Revision
        <5> QED BY <1>4, <5>1
      <4>6. CASE MarkVerdict(a)
        <5>1. revs'[r].status = pub[a].verdict /\ At(a, "undoing")
          BY <1>0, <3>2, <4>1, <4>6 DEF MarkVerdict, Revision
        <5> QED BY <1>4, <4>2, <5>1 DEF LosersHaveAWinner
      <4> QED BY <4>3, <4>4, <4>5, <4>6
    <3>3. CASE r \notin DOMAIN revs
      <4>1. CASE StageManifest(a)
        <5>1. PICK q : revs' = Append(revs, q) /\ q.status = "STAGING"
          BY <4>1 DEF StageManifest
        <5> QED BY <1>0, <1>4, <3>3, <5>1
      <4>2. CASE ~StageManifest(a)
        <5>1. DOMAIN revs' = DOMAIN revs
          BY <1>0, <4>2 DEF ActorStep, Progress, BeginBuild, OpenSave, ChooseRestore, CheckSave,
            EndSave, BeginSave, BeginRestore, CheckSize, StageEntry, RefuseOrFailStaging, Reject, ApplyEntry,
            ApplyEntryFails, ApplyAndAdvance, LoseRace, DatabaseThrows, RollbackEntry,
            RollbackEntryFails, MarkVerdict, RecordRestoreTarget
        <5> QED BY <3>3, <5>1
      <4> QED BY <4>1, <4>2
    <3> QED BY <3>1, <3>2, <3>3
  <2>2. PICK p : p = revs'[r].parent
    OBVIOUS
  <2>3. HasWinner(p)
    BY <2>1, <2>2
  <2>4. HasWinner(p)'
    BY <1>1, <2>3
  <2> QED BY <2>2, <2>4
<1> QED BY <1>3, <1>4 DEF LosersHaveAWinner, At

\* The initial history, of nothing but the template, is linear.
LEMMA LinearInit == Init => Linear
<1> SUFFICES ASSUME Init PROVE Linear
  OBVIOUS
<1>1. /\ revs = <<>> /\ current = 0 /\ Applied = {}
      /\ history = <<[rev |-> 0, tree |-> HashTree]>>
      /\ \A a \in Actor : ~At(a, "undoing")
  BY DEF Init, Applied, At, Idle
<1>2. Len(history) = 1 /\ history[1].rev = 0 /\ history[1].tree = HashTree
  BY <1>1
<1>3. LinearHistory
  BY <1>1, <1>2 DEF LinearHistory
<1>4. HistoryIsComplete
  BY <1>1, <1>2 DEF HistoryIsComplete
<1>5. LosersHaveAWinner
  BY <1>1 DEF LosersHaveAWinner
<1> QED BY <1>3, <1>4, <1>5 DEF Linear

\* Without editors, linearity is inductive, relative to consistency.
LEMMA LinearStep ==
    ASSUME Editors = {}
    PROVE  TypeOK /\ Consistent /\ Linear /\ [Next]_vars => (TypeOK /\ Consistent /\ Linear)'
<1> SUFFICES ASSUME TypeOK, Consistent, Linear, [Next]_vars PROVE (TypeOK /\ Consistent /\ Linear)'
  OBVIOUS
<1> USE DEF Linear
<1>1. TypeOK' /\ Consistent'
  BY ConsistentStep
<1>2. CASE UNCHANGED vars
  BY <1>1, <1>2 DEF vars, LinearHistory, HistoryIsComplete, LosersHaveAWinner, HasWinner, Applied,
    HashTree, At
<1>3. CASE Crash
  <2>1. Idle.pc = "idle"
    BY DEF Idle
  <2> QED BY <1>1, <1>3, <2>1 DEF Crash, LinearHistory, HistoryIsComplete, LosersHaveAWinner, HasWinner,
        Applied, HashTree, At
<1>4. ASSUME NEW a \in Actor, ActorStep(a) PROVE Linear'
  BY <1>4, ActorStepLinear, ActorStepLosers
<1> QED BY <1>1, <1>2, <1>3, <1>4 DEF Next, ActorStep

\* The whole inductive invariant, when nobody writes a stale project row back.
THEOREM AlwaysLinear ==
    ASSUME Editors = {}
    PROVE  Spec => [](TypeOK /\ Consistent /\ Linear)
<1>1. Init => TypeOK /\ Consistent /\ Linear
  BY InitType, ConsistentInit, LinearInit
<1>2. TypeOK /\ Consistent /\ Linear /\ [Next]_vars => (TypeOK /\ Consistent /\ Linear)'
  BY LinearStep
<1> QED BY <1>1, <1>2, PTL DEF Spec

\* The revisions that landed form one line that ends at the pointer, whatever
\* publishes race, fail or are cut short.
THEOREM HistoryIsLinear ==
    ASSUME Editors = {}
    PROVE  Spec => []LinearHistory
<1>1. TypeOK /\ Consistent /\ Linear => LinearHistory
  BY DEF Linear
<1> QED BY <1>1, AlwaysLinear, PTL

\* On a line, a parent has one child.
LEMMA OneChild ==
    ASSUME TypeOK, LinearHistory, HistoryIsComplete,
           NEW s \in Applied, NEW t \in Applied, revs[s].parent = revs[t].parent
    PROVE  s = t
<1> DEFINE n == Len(history)
<1>0. history \in Seq(Landing) /\ n \in Nat
  BY DEF TypeOK
<1>1. PICK i \in 2..n : history[i].rev = s
  BY DEF HistoryIsComplete
<1>2. PICK j \in 2..n : history[j].rev = t
  BY DEF HistoryIsComplete
<1>3. history[i - 1].rev = history[j - 1].rev
  BY <1>1, <1>2 DEF LinearHistory
<1>4. i - 1 \in 1..n /\ j - 1 \in 1..n
  BY <1>0
<1>5. history[i - 1].rev \in Nat
  <2>1. \A k \in 1..n : history[k] \in Landing
    BY <1>0
  <2> QED BY <1>4, <2>1 DEF Landing, RevId
<1>6. ~(i - 1 < j - 1) /\ ~(j - 1 < i - 1)
  <2>1. \A k, l \in 1..n : k < l => history[k].rev < history[l].rev
    BY DEF HistoryIsComplete
  <2>2. ~(history[i - 1].rev < history[j - 1].rev)
    BY <1>3, <1>5
  <2>3. ~(history[j - 1].rev < history[i - 1].rev)
    BY <1>3, <1>5
  <2> QED BY <1>4, <2>1, <2>2, <2>3
<1>7. i = j
  BY <1>0, <1>6
<1> QED BY <1>1, <1>2, <1>7

\* Of the publishes made on one parent, exactly one lands, and only they lose.
THEOREM ConflictsHaveOneWinner ==
    ASSUME Editors = {}
    PROVE  Spec => []ConflictHasOneWinner
<1>1. TypeOK /\ Consistent /\ Linear => ConflictHasOneWinner
  <2> SUFFICES ASSUME TypeOK, Linear, NEW r \in DOMAIN revs, revs[r].status = "CONFLICT"
               PROVE  \E s \in Applied :
                         /\ revs[s].parent = revs[r].parent
                         /\ \A t \in Applied : revs[t].parent = revs[r].parent => t = s
    BY DEF ConflictHasOneWinner
  <2>1. PICK s \in Applied : revs[s].parent = revs[r].parent
    BY DEF Linear, LosersHaveAWinner, HasWinner
  <2>2. \A t \in Applied : revs[t].parent = revs[r].parent => t = s
    BY <2>1, OneChild DEF Linear
  <2> QED BY <2>1, <2>2
<1> QED BY <1>1, AlwaysLinear, PTL

----------------------------------------------------------------------------
(* Publishing implements an atomic log *)

\* The rows after a landing: what it names, it wrote.
LEMMA LandingWrites ==
    ASSUME TypeOK, Consistent, NEW a \in Actor, ApplyAndAdvance(a), NEW x \in Path
    PROVE  HashTree'[x] = IF x \in DOMAIN pub[a].new THEN pub[a].new[x] ELSE HashTree[x]
<1> DEFINE r == pub[a].rev
           new == pub[a].new
<1>0. pub[a] \in Request /\ new \in Changes /\ r \in 0..MaxRevision
  BY DEF TypeOK, Request, RevId
<1>1. files' = FilesAfter(new, r)
  BY DEF ApplyAndAdvance
<1>2. CASE x \notin DOMAIN new
  BY <1>1, <1>2 DEF FilesAfter, HashTree
<1>3. CASE x \in DOMAIN new /\ new[x] = Absent
  BY <1>1, <1>3 DEF FilesAfter, HashOf, HashTree
<1>4. CASE x \in DOMAIN new /\ new[x] # Absent
  <2>1. new[x] \in Content
    BY <1>0, <1>4, ChangesType DEF Object
  <2>2. PICK born \in 0..MaxRevision : files'[x] = [hash |-> new[x], born |-> born]
    <3>1. files[x] # Absent => files[x].born \in 0..MaxRevision
      BY DEF TypeOK, Row
    <3> QED BY <1>0, <1>1, <1>4, <3>1 DEF FilesAfter
  <2>3. files'[x] \in Row
    BY <2>1, <2>2 DEF Row
  <2>4. files'[x] # Absent
    BY <2>3, RevisionsAssumption
  <2> QED BY <1>4, <2>2, <2>4 DEF HashOf, HashTree
<1> QED BY <1>2, <1>3, <1>4

\* The publish point is a landing of the abstract log.
LEMMA AdvanceLands ==
    ASSUME TypeOK, Consistent, NEW a \in Actor, ApplyAndAdvance(a)
    PROVE  Log!Land
<1> USE RevisionsAssumption
<1> DEFINE r == pub[a].rev
           new == pub[a].new
<1>0. /\ pub[a] \in Request /\ revs \in Seq(Revision) /\ Len(revs) <= MaxRevision
      /\ current \in RevId
  BY DEF TypeOK
<1>1. r \in DOMAIN revs /\ current < r
  BY DEF Consistent, RequestsOwnTheirRevision, ParentsLanded, InFlight, At, ApplyAndAdvance, CasAdvances
<1>2. r \in 1..MaxRevision
  BY <1>0, <1>1
<1>3. new \in Changes
  BY <1>0 DEF Request
<1>4. DOMAIN new \in SUBSET Path /\ new \in [DOMAIN new -> Log!Object]
  <2>1. Log!Object = Object
    BY DEF Log!Object, Object
  <2>2. PICK S \in SUBSET Path : new \in [S -> Object]
    BY <1>3 DEF Changes
  <2> HIDE DEF new
  <2> QED BY <2>1, <2>2
<1>5. HashTree' = Log!Overlay(HashTree, new)
  <2>1. \A x \in Path : HashTree'[x] = IF x \in DOMAIN new THEN new[x] ELSE HashTree[x]
    BY LandingWrites
  <2> QED BY <2>1 DEF HashTree, Log!Overlay
<1>6. current' = r /\ history' = Append(history, [rev |-> r, tree |-> HashTree'])
  BY DEF ApplyAndAdvance
<1> QED BY <1>1, <1>2, <1>4, <1>5, <1>6 DEF Log!Land

\* Publishing implements RevisionLog: seen through the pointer and the rows, whole
\* change sets land one at a time, and nothing else ever shows.
THEOREM PublishingIsALog ==
    ASSUME Editors = {}
    PROVE  Spec => ImplementsRevisionLog
<1> DEFINE logvars == <<current, HashTree, history>>
<1>1. Init => Log!Init
  <2> SUFFICES ASSUME Init PROVE Log!Init
    OBVIOUS
  <2>1. HashTree \in [Path -> {Absent, NoHash}]
    <3>1. ASSUME NEW x \in Path PROVE HashOf(files[x]) \in {Absent, NoHash}
      BY DEF Init, HashOf
    <3> QED BY <3>1 DEF HashTree
  <2> QED BY <2>1 DEF Init, Log!Init
<1>2. TypeOK /\ Consistent /\ Linear /\ [Next]_vars => [Log!Land]_logvars
  <2> SUFFICES ASSUME TypeOK, Consistent, [Next]_vars PROVE [Log!Land]_logvars
    OBVIOUS
  <2>1. CASE UNCHANGED vars
    BY <2>1 DEF vars, HashTree
  <2>2. CASE Crash
    BY <2>2 DEF Crash, HashTree
  <2>3. ASSUME NEW a \in Actor, ActorStep(a) PROVE [Log!Land]_logvars
    <3>1. CASE ApplyAndAdvance(a)
      BY <3>1, AdvanceLands
    <3>2. CASE ~ApplyAndAdvance(a)
      BY <2>3, <3>2, Quiet DEF HashTree
    <3> QED BY <3>1, <3>2
  <2> QED BY <2>1, <2>2, <2>3 DEF Next, ActorStep
<1> QED BY <1>1, <1>2, AlwaysLinear, PTL DEF Spec, ImplementsRevisionLog, Log!Spec

----------------------------------------------------------------------------
(* What a revision replaced *)

\* A recorded revision keeps its source, and, until its restore says what it
\* restored, its label.
LEMMA SourcesKept ==
    ASSUME TypeOK, NEW a \in Actor, ActorStep(a)
    PROVE  \A r \in DOMAIN revs :
              /\ revs'[r].source = revs[r].source
              /\ ~(RecordRestoreTarget(a) /\ r = pub[a].rev) => revs'[r].restored = revs[r].restored
<1>0. /\ revs \in Seq(Revision)
      /\ \A r \in DOMAIN revs : revs[r] \in Revision
  BY DEF TypeOK
<1>1. CASE UNCHANGED revs
  BY <1>1
<1>2. CASE StageManifest(a)
  <2>1. PICK r : revs' = Append(revs, r)
    BY <1>2 DEF StageManifest
  <2>2. DOMAIN revs \subseteq DOMAIN revs' /\ \A s \in DOMAIN revs : revs'[s] = revs[s]
    BY <1>0, <2>1
  <2> QED BY <2>2
<1>3. CASE Reject(a) \/ MarkVerdict(a) \/ ApplyAndAdvance(a)
  <2>1. PICK status : revs' = [revs EXCEPT ![pub[a].rev].status = status]
    BY <1>3 DEF Reject, MarkVerdict, ApplyAndAdvance
  <2> QED BY <1>0, <2>1 DEF Revision
<1>4. CASE RecordRestoreTarget(a)
  BY <1>0, <1>4 DEF RecordRestoreTarget, Revision
<1> QED
  BY <1>1, <1>2, <1>3, <1>4 DEF ActorStep, Progress, BeginBuild, OpenSave, ChooseRestore, CheckSave,
    EndSave, BeginSave, BeginRestore, CheckSize, StageEntry, RefuseOrFailStaging, ApplyEntry, ApplyEntryFails,
    LoseRace, DatabaseThrows, RollbackEntry, RollbackEntryFails

\* Two states of a request that agree on what it read and means to write.
SameReading(q, p) ==
    /\ q.source = p.source
    /\ q.parent = p.parent
    /\ q.seen = p.seen
    /\ q.new = p.new
    /\ q.previous = p.previous
    /\ q.restored = p.restored

\* What a step makes of what its actor's request has read.
LEMMA OwnReading ==
    ASSUME TypeOK, NEW a \in Actor, ActorStep(a)
    PROVE  \/ pub'[a] = Idle
           \/ BeginBuild(a) \/ OpenSave(a) \/ ChooseRestore(a)
           \/ CheckSave(a) \/ BeginSave(a) \/ BeginRestore(a) \/ CheckSize(a)
           \/ \E x \in Path : StageEntry(a, x)
           \/ SameReading(pub'[a], pub[a])
<1>0. pub \in [Actor -> Request] /\ pub[a] \in Request
  BY DEF TypeOK
<1>1. CASE EndSave(a) \/ RefuseOrFailStaging(a) \/ Reject(a) \/ DatabaseThrows(a)
           \/ MarkVerdict(a) \/ RecordRestoreTarget(a)
  BY <1>0, <1>1
     DEF EndSave, RefuseOrFailStaging, Reject, DatabaseThrows, MarkVerdict, RecordRestoreTarget
<1>2. CASE StageManifest(a) \/ LoseRace(a)
  BY <1>0, <1>2 DEF StageManifest, LoseRace, SameReading, Request
<1>3. CASE \E x \in Path : \/ ApplyEntry(a, x) \/ ApplyEntryFails(a, x)
                           \/ RollbackEntry(a, x) \/ RollbackEntryFails(a, x)
  BY <1>0, <1>3
     DEF ApplyEntry, ApplyEntryFails, RollbackEntry, RollbackEntryFails, SameReading, Request
<1>4. CASE ApplyAndAdvance(a)
  <2>1. pub'[a] = Idle \/ pub'[a] = [pub[a] EXCEPT !.pc = "landed"]
    BY <1>0, <1>4 DEF ApplyAndAdvance
  <2> QED BY <1>0, <2>1 DEF Request, SameReading
<1> QED BY <1>1, <1>2, <1>3, <1>4 DEF ActorStep, Progress

\* A landing takes the pointer where no request has its parent.
LEMMA LandingIsNew ==
    ASSUME TypeOK, Consistent, NEW a \in Actor, ApplyAndAdvance(a)
    PROVE  \A b \in Actor : pub'[b].parent # current'
<1>0. pub \in [Actor -> Request] /\ pub[a] \in Request
  BY DEF TypeOK
<1>1. /\ current' = pub[a].rev
      /\ revs[pub[a].rev].status = "STAGING" /\ pub[a].rev \in DOMAIN revs
  BY DEF ApplyAndAdvance, Consistent, RequestsOwnTheirRevision, InFlight, At
<1>2. revs \in Seq(Revision)
  BY DEF TypeOK
<1>3. current' \notin Rooted
  BY <1>1, <1>2 DEF Rooted, Applied
<1>4. pub'[a] = Idle \/ pub'[a] = [pub[a] EXCEPT !.pc = "landed"]
  BY <1>0 DEF ApplyAndAdvance
<1>5. pub'[a].parent \in Rooted
  BY <1>0, <1>4 DEF Idle, Rooted, Request, Consistent, ParentsLanded
<1>6. ActorStep(a)
  BY DEF ActorStep, Progress
<1>7. \A b \in Actor : b # a => pub'[b].parent \in Rooted
  BY <1>6, OthersKeepTheirRequest DEF Consistent, ParentsLanded
<1> QED BY <1>3, <1>5, <1>7

\* Only three steps leave a request at its start.
LEMMA PastTheStart ==
    ASSUME TypeOK, NEW a \in Actor, ActorStep(a), ~OpenSave(a), ~ChooseRestore(a), ~CheckSave(a)
    PROVE  pub'[a].pc \notin {"opened", "checked", "chosen"}
<1>0. pub \in [Actor -> Request] /\ pub[a] \in Request /\ Idle.pc = "idle"
  BY DEF TypeOK, Idle
<1>1. CASE EndSave(a) \/ RefuseOrFailStaging(a) \/ Reject(a) \/ DatabaseThrows(a)
           \/ MarkVerdict(a) \/ RecordRestoreTarget(a)
  BY <1>0, <1>1
     DEF EndSave, RefuseOrFailStaging, Reject, DatabaseThrows, MarkVerdict, RecordRestoreTarget
<1>2. CASE BeginBuild(a)
  BY <1>0, <1>2 DEF BeginBuild, Idle
<1>3. CASE BeginSave(a) \/ BeginRestore(a) \/ CheckSize(a) \/ StageManifest(a) \/ LoseRace(a)
  BY <1>0, <1>3 DEF BeginSave, BeginRestore, CheckSize, StageManifest, LoseRace, Request
<1>4. CASE \E x \in Path : StageEntry(a, x)
  BY <1>0, <1>4 DEF StageEntry, Request, At
<1>5. CASE \E x \in Path : \/ ApplyEntry(a, x) \/ ApplyEntryFails(a, x)
                           \/ RollbackEntry(a, x) \/ RollbackEntryFails(a, x)
  <2>1. PICK x \in Path : \/ ApplyEntry(a, x) \/ ApplyEntryFails(a, x)
                          \/ RollbackEntry(a, x) \/ RollbackEntryFails(a, x)
    BY <1>5
  <2> QED
    BY <1>0, <2>1
       DEF ApplyEntry, ApplyEntryFails, RollbackEntry, RollbackEntryFails, At, Request
<1>6. CASE ApplyAndAdvance(a)
  <2>1. pub'[a] = Idle \/ pub'[a] = [pub[a] EXCEPT !.pc = "landed"]
    BY <1>0, <1>6 DEF ApplyAndAdvance
  <2> QED BY <1>0, <2>1 DEF Request
<1> QED BY <1>1, <1>2, <1>3, <1>4, <1>5, <1>6 DEF ActorStep, Progress

\* The row of a revision keeps the source its request was made with.
LEMMA SourcesRecordedStep ==
    ASSUME TypeOK, Consistent, SourcesRecorded, NEW a \in Actor, ActorStep(a)
    PROVE  SourcesRecorded'
<1>0. /\ revs \in Seq(Revision) /\ pub \in [Actor -> Request] /\ pub[a] \in Request
      /\ pub' \in [Actor -> Request]
  BY ActorStepType DEF TypeOK, Consistent
<1>1. ASSUME NEW b \in Actor, b # a, InFlight(b)' PROVE revs'[pub'[b].rev].source = pub'[b].source
  <2>1. pub'[b] = pub[b] /\ InFlight(b)
    BY <1>1, OthersKeepTheirRequest DEF InFlight
  <2>2. pub[b].rev \in DOMAIN revs
    BY <2>1 DEF Consistent, RequestsOwnTheirRevision
  <2> QED BY <2>1, <2>2, SourcesKept DEF SourcesRecorded
<1>2. ASSUME InFlight(a)' PROVE revs'[pub'[a].rev].source = pub'[a].source
  <2>1. CASE StageManifest(a)
    <3>1. pub'[a].rev = Len(revs) + 1 /\ pub'[a].source = pub[a].source
      BY <1>0, <2>1 DEF StageManifest, Request
    <3>2. revs'[Len(revs) + 1].source = pub[a].source
      BY <1>0, <2>1 DEF StageManifest
    <3> QED BY <3>1, <3>2
  <2>2. CASE ~StageManifest(a)
    <3>1. /\ InFlight(a) /\ UNCHANGED revs /\ pub'[a].rev = pub[a].rev
      BY <1>2, <2>2, OwnRequest DEF InFlight, Consistent
    <3>2. pub'[a].source = pub[a].source
      <4>1. pub'[a] # Idle
        BY <1>2 DEF InFlight, Idle
      <4>2. ~BeginBuild(a) /\ ~OpenSave(a) /\ ~ChooseRestore(a) /\ ~CheckSave(a) /\ ~BeginSave(a)
            /\ ~BeginRestore(a) /\ ~CheckSize(a) /\ ~\E x \in Path : StageEntry(a, x)
        BY <3>1 DEF InFlight, BeginBuild, OpenSave, ChooseRestore, CheckSave, BeginSave, BeginRestore,
          CheckSize, StageEntry, At
      <4> QED BY <4>1, <4>2, OwnReading DEF SameReading
    <3> QED BY <3>1, <3>2 DEF SourcesRecorded
  <2> QED BY <2>1, <2>2
<1>3. ASSUME NEW b \in Actor, InFlight(b)' PROVE (revs[pub[b].rev].source = pub[b].source)'
  BY <1>1, <1>2, <1>3
<1>4. /\ pub'[a].pc \in {"opened", "checked"} => pub'[a].source = "MANUAL_EDIT"
      /\ pub'[a].pc = "chosen" => pub'[a].source = "RESTORE"
  <2>1. CASE OpenSave(a)
    BY <1>0, <2>1 DEF OpenSave, Idle
  <2>3. CASE ChooseRestore(a)
    BY <1>0, <2>3 DEF ChooseRestore, Idle
  <2>2. CASE CheckSave(a)
    BY <1>0, <2>2 DEF CheckSave, At, Request, SourcesRecorded
  <2>4. CASE ~OpenSave(a) /\ ~ChooseRestore(a) /\ ~CheckSave(a)
    BY <2>4, PastTheStart
  <2> QED BY <2>1, <2>2, <2>3, <2>4
<1> QED BY <1>0, <1>3, <1>4, OthersKeepTheirRequest DEF SourcesRecorded, At

\* No step of an actor makes what another has read at the current revision stale
\* without moving the pointer.
LEMMA ReadsAreCurrentStep ==
    ASSUME TypeOK, Consistent, SourcesRecorded, ReadsAreCurrent, NEW a \in Actor, ActorStep(a)
    PROVE  ReadsAreCurrent'
<1>0. /\ pub \in [Actor -> Request] /\ pub[a] \in Request /\ files \in [Path -> Row \cup {Absent}]
      /\ \A b \in Actor : b # a => pub'[b] = pub[b]
  BY OthersKeepTheirRequest DEF TypeOK
<1>1. CASE ApplyAndAdvance(a)
  BY <1>1, LandingIsNew DEF ReadsAreCurrent
<1>2. CASE ~ApplyAndAdvance(a)
  <2>0. UNCHANGED <<current, files>>
    BY <1>2, Quiet
  <2>1. \A q : ReadingHolds(q)' <=> ReadingHolds(q)
    BY <2>0 DEF ReadingHolds, HashTree
  <2> DEFINE Good(q) == q.parent = current /\ q.source # "MANUAL_EDIT" => ReadingHolds(q)
  <2>2. Good(pub[a])
    BY DEF ReadsAreCurrent
  <2>3. Good(Idle)
    BY DEF Idle, ReadingHolds, NoRows, NoChange
  <2>4. Good(pub'[a])
    <3>1. CASE BeginBuild(a)
      <4>1. PICK new : pub'[a] = [Idle EXCEPT !.pc = "begun", !.new = new, !.parent = current]
        BY <1>0, <3>1 DEF BeginBuild
      <4> QED BY <4>1 DEF Idle, ReadingHolds, NoRows, NoChange
    <3>2. CASE OpenSave(a)
      <4>1. pub'[a].source = "MANUAL_EDIT"
        BY <1>0, <3>2 DEF OpenSave, Idle
      <4> QED BY <4>1
    <3>3. CASE ChooseRestore(a)
      <4>1. pub'[a].seen = NoRows /\ pub'[a].previous = NoChange
        BY <1>0, <3>3 DEF ChooseRestore, Idle
      <4> QED BY <4>1 DEF ReadingHolds, NoRows, NoChange
    <3>4. CASE CheckSave(a) \/ BeginSave(a)
      <4>1. pub[a].pc \in {"opened", "checked"}
        BY <3>4 DEF CheckSave, BeginSave, At
      <4>2. CASE CheckSave(a)
        <5>1. pub'[a].source = pub[a].source
          BY <1>0, <4>2 DEF CheckSave, Request
        <5> QED BY <4>1, <5>1 DEF SourcesRecorded
      <4>3. CASE BeginSave(a)
        <5>1. pub'[a].source = pub[a].source
          BY <1>0, <4>3 DEF BeginSave, Request
        <5> QED BY <4>1, <5>1 DEF SourcesRecorded
      <4> QED BY <3>4, <4>2, <4>3
    <3>5. CASE BeginRestore(a)
      <4>1. pub'[a].seen = files /\ pub'[a].previous = NoChange
        BY <1>0, <3>5 DEF BeginRestore, Request, Consistent, RequestsFit, Fits, At
      <4> QED BY <4>1 DEF ReadingHolds, NoChange
    <3>6. CASE CheckSize(a)
      <4>1. /\ pub'[a].source = pub[a].source /\ pub'[a].parent = pub[a].parent
            /\ pub'[a].previous = pub[a].previous
            /\ pub'[a].seen = pub[a].seen \/ pub'[a].seen = [x \in Path |-> RowInSession(a, x)]
        BY <1>0, <3>6 DEF CheckSize, Request
      <4>2. ReadingHolds(pub[a]) /\ pub'[a].seen = [x \in Path |-> RowInSession(a, x)] =>
              \A x \in Path : pub'[a].seen[x] \in {Absent, files[x]}
        BY DEF ReadingHolds, RowInSession
      <4> QED BY <2>2, <4>1, <4>2 DEF ReadingHolds
    <3>7. ASSUME NEW x \in Path, StageEntry(a, x) PROVE Good(pub'[a])
      <4>1. /\ pub'[a].source = pub[a].source /\ pub'[a].parent = pub[a].parent
            /\ pub'[a].seen = pub[a].seen
            /\ pub'[a].previous = [y \in DOMAIN pub[a].previous \cup {x} |->
                                     IF y = x THEN PreviousState(a, x) ELSE pub[a].previous[y]]
        BY <1>0, <3>7 DEF StageEntry, Request
      <4>2. ReadingHolds(pub[a]) => RowInSession(a, x) = files[x]
        BY DEF ReadingHolds, RowInSession
      <4>3. ReadingHolds(pub[a]) /\ HashTree[x] # NoHash => PreviousState(a, x) = HashTree[x]
        BY <4>2 DEF PreviousState, HashTree
      <4>4. ReadingHolds(pub[a]) => ReadingHolds(pub'[a])
        BY <4>1, <4>3 DEF ReadingHolds
      <4> QED BY <2>2, <4>1, <4>4
    <3>8. CASE SameReading(pub'[a], pub[a])
      BY <2>2, <3>8 DEF SameReading, ReadingHolds
    <3>9. CASE pub'[a] = Idle
      BY <2>3, <3>9
    <3> QED BY <3>1, <3>2, <3>3, <3>4, <3>5, <3>6, <3>7, <3>8, <3>9, OwnReading
  <2>5. \A b \in Actor : Good(pub'[b])
    <3>1. \A b \in Actor : Good(pub[b])
      BY DEF ReadsAreCurrent
    <3> QED BY <1>0, <2>4, <3>1
  <2>6. ASSUME NEW b \in Actor, pub'[b].parent = current', pub'[b].source # "MANUAL_EDIT"
        PROVE  ReadingHolds(pub[b])'
    <3>1. PICK q : q = pub'[b]
      OBVIOUS
    <3>2. ReadingHolds(q)
      BY <2>0, <2>5, <2>6, <3>1
    <3>3. ReadingHolds(q)'
      BY <2>1, <3>2
    <3> QED BY <3>1, <3>3 DEF ReadingHolds
  <2> QED BY <2>6 DEF ReadsAreCurrent
<1> QED BY <1>1, <1>2

\* A landing records, as what it replaced, the tree before it.
LEMMA LandingReplaces ==
    ASSUME TypeOK, Consistent, Linear, Replaced, NEW a \in Actor, ActorStep(a)
    PROVE  PreviousIsWhatWasReplaced'
<1> DEFINE n == Len(history)
           Replaces(r, before) == r.source # "MANUAL_EDIT" =>
             \A x \in DOMAIN r.new : before[x] # NoHash => r.previous[x] = before[x]
<1>0. /\ revs \in Seq(Revision) /\ pub \in [Actor -> Request]
      /\ history \in Seq(Landing) /\ n \in Nat \ {0}
  BY DEF TypeOK, Linear, HistoryIsComplete
<1>1. \A i \in 2..n : history[i].rev \in DOMAIN revs /\ i \in 1..n /\ i - 1 \in 1..n
  BY <1>0 DEF Linear, LinearHistory
<1>2. \A i \in 2..n : Replaces(revs'[history[i].rev], history[i - 1].tree)
  <2> SUFFICES ASSUME NEW i \in 2..n PROVE Replaces(revs'[history[i].rev], history[i - 1].tree)
    OBVIOUS
  <2>1. PICK r \in DOMAIN revs : r = history[i].rev
    BY <1>1
  <2>2. Replaces(revs[r], history[i - 1].tree)
    BY <2>1 DEF Replaced, PreviousIsWhatWasReplaced
  <2>3. /\ revs'[r].source = revs[r].source /\ revs'[r].new = revs[r].new
        /\ revs'[r].previous = revs[r].previous
    BY RevisionsKept, SourcesKept DEF Consistent
  <2> QED BY <2>1, <2>2, <2>3
<1>3. CASE ~ApplyAndAdvance(a)
  <2>1. history' = history
    BY <1>3, Quiet
  <2> QED BY <1>2, <2>1 DEF PreviousIsWhatWasReplaced
<1>4. CASE ApplyAndAdvance(a)
  <2> DEFINE r == pub[a].rev
  <2>1. /\ Len(history') = n + 1
        /\ \A i \in 1..n : history'[i] = history[i]
        /\ history'[n + 1].rev = r
    BY <1>0, <1>4 DEF ApplyAndAdvance
  <2>2. /\ InFlight(a) /\ r \in DOMAIN revs /\ pub[a].parent = current
        /\ At(a, "applying")
    BY <1>4 DEF ApplyAndAdvance, CasAdvances, InFlight, At, Consistent, RequestsOwnTheirRevision
  <2>3. /\ revs[r].source = pub[a].source /\ revs[r].new = pub[a].new
        /\ revs[r].previous = pub[a].previous
    BY <2>2 DEF Consistent, RequestsOwnTheirRevision, Replaced, SourcesRecorded
  <2>4. DOMAIN pub[a].new = DOMAIN pub[a].previous
    BY <2>2 DEF Consistent, RequestsFit, Fits, At
  <2>5. Replaces(revs[r], history[n].tree)
    <3>1. history[n].tree = HashTree
      BY DEF Linear, HistoryIsComplete
    <3> QED BY <2>2, <2>3, <2>4, <3>1 DEF Replaced, ReadsAreCurrent, ReadingHolds
  <2>6. Replaces(revs'[r], history[n].tree)
    <3>1. /\ revs'[r].source = revs[r].source /\ revs'[r].new = revs[r].new
          /\ revs'[r].previous = revs[r].previous
      BY <2>2, RevisionsKept, SourcesKept DEF Consistent
    <3> QED BY <2>5, <3>1
  <2>7. ASSUME NEW i \in 2..Len(history')
        PROVE  Replaces(revs'[history'[i].rev], history'[i - 1].tree)
    <3>1. CASE i \in 2..n
      <4>1. history'[i] = history[i] /\ history'[i - 1] = history[i - 1]
        BY <1>1, <2>1, <3>1
      <4> QED BY <1>2, <3>1, <4>1
    <3>2. CASE i = n + 1
      <4>1. history'[i].rev = r /\ history'[i - 1] = history[n]
        BY <1>0, <2>1, <3>2
      <4> QED BY <2>6, <4>1
    <3> QED BY <1>0, <2>1, <3>1, <3>2
  <2> QED BY <2>7 DEF PreviousIsWhatWasReplaced
<1> QED BY <1>3, <1>4

\* Nothing is read or replaced in the initial state.
LEMMA ReplacedInit == Init => Replaced
<1> SUFFICES ASSUME Init PROVE Replaced
  OBVIOUS
<1>1. /\ \A a \in Actor : pub[a] = Idle
      /\ Idle.pc = "idle" /\ Idle.seen = NoRows /\ Idle.previous = NoChange
  BY DEF Init, Idle
<1>2. SourcesRecorded
  BY <1>1 DEF SourcesRecorded, At, InFlight
<1>3. ReadsAreCurrent
  BY <1>1 DEF ReadsAreCurrent, ReadingHolds, NoRows, NoChange
<1>4. PreviousIsWhatWasReplaced
  <2>1. Len(history) = 1
    BY DEF Init
  <2> QED BY <2>1 DEF PreviousIsWhatWasReplaced
<1> QED BY <1>2, <1>3, <1>4 DEF Replaced

\* Every step keeps what revisions recorded as previous what they replaced.
LEMMA ReplacedStep ==
    ASSUME Editors = {}
    PROVE  TypeOK /\ Consistent /\ Linear /\ Replaced /\ [Next]_vars => Replaced'
<1> SUFFICES ASSUME TypeOK, Consistent, Linear, Replaced, [Next]_vars PROVE Replaced'
  OBVIOUS
<1>1. CASE UNCHANGED vars
  <2>1. SourcesRecorded'
    BY <1>1 DEF vars, Replaced, SourcesRecorded, At, InFlight
  <2>2. ReadsAreCurrent'
    BY <1>1 DEF vars, Replaced, ReadsAreCurrent, ReadingHolds, HashTree
  <2>3. PreviousIsWhatWasReplaced'
    BY <1>1 DEF vars, Replaced, PreviousIsWhatWasReplaced
  <2> QED BY <2>1, <2>2, <2>3 DEF Replaced
<1>2. CASE Crash
  <2>1. /\ \A a \in Actor : pub'[a] = Idle
        /\ Idle.pc = "idle" /\ Idle.seen = NoRows /\ Idle.previous = NoChange
    BY <1>2 DEF Crash, Idle
  <2>2. SourcesRecorded'
    BY <2>1 DEF SourcesRecorded, At, InFlight
  <2>3. ReadsAreCurrent'
    BY <2>1 DEF ReadsAreCurrent, ReadingHolds, NoRows, NoChange
  <2>4. PreviousIsWhatWasReplaced'
    BY <1>2 DEF Crash, Replaced, PreviousIsWhatWasReplaced
  <2> QED BY <2>2, <2>3, <2>4 DEF Replaced
<1>3. ASSUME NEW a \in Actor, ActorStep(a) PROVE Replaced'
  BY <1>3, SourcesRecordedStep, ReadsAreCurrentStep, LandingReplaces DEF Replaced
<1> QED BY <1>1, <1>2, <1>3 DEF Next, ActorStep

\* What a publish records as replaced, and would put back, is what it replaced:
\* no other publish changed the path between its read and the publish point.
THEOREM PreviousIsReplaced ==
    ASSUME Editors = {}
    PROVE  Spec => []PreviousIsWhatWasReplaced
<1>1. Spec => []Replaced
  BY AlwaysLinear, ReplacedInit, ReplacedStep, PTL DEF Spec
<1>2. Replaced => PreviousIsWhatWasReplaced
  BY DEF Replaced
<1> QED BY <1>1, <1>2, PTL

----------------------------------------------------------------------------
(* Paths that only one actor names *)

\* A request writes only what its actor may name.
LEMMA NamesStep ==
    ASSUME TypeOK, RequestsNameTheirPaths, NEW a \in Actor, ActorStep(a)
    PROVE  RequestsNameTheirPaths'
<1>0. /\ pub \in [Actor -> Request] /\ pub[a] \in Request
      /\ \A b \in Actor : b # a => pub'[b] = pub[b]
  BY OthersKeepTheirRequest DEF TypeOK
<1> DEFINE Good(q) == DOMAIN q.new \subseteq Footprint(a)
                      /\ (q.pc \in {"opened", "chosen"} => Footprint(a) = Path)
<1>1. Good(pub[a])
  BY DEF RequestsNameTheirPaths
<1>2. Good(pub'[a])
  <2>1. CASE BeginBuild(a)
    <3>1. PICK new \in Turns[a] : pub'[a] = [Idle EXCEPT !.pc = "begun", !.new = new, !.parent = current]
      BY <1>0, <2>1 DEF BeginBuild
    <3>2. new \in Changes
      BY <2>1, RevisionsAssumption DEF BeginBuild
    <3>3. DOMAIN new \subseteq Footprint(a)
      BY <3>2 DEF Footprint, Changes
    <3> QED BY <3>1, <3>3 DEF Idle
  <2>2. CASE OpenSave(a)
    <3>1. pub'[a].new = NoChange /\ pub'[a].pc = "opened" /\ Footprint(a) = Path
      BY <1>0, <2>2 DEF OpenSave, Idle, Footprint
    <3> QED BY <3>1 DEF NoChange
  <2>3. CASE ChooseRestore(a)
    <3>1. pub'[a].new = NoChange /\ pub'[a].pc = "chosen" /\ Footprint(a) = Path
      BY <1>0, <2>3 DEF ChooseRestore, Idle, Footprint
    <3> QED BY <3>1 DEF NoChange
  <2>4. CASE CheckSave(a)
    <3>1. PICK x \in Path, text \in Content :
             pub' = [pub EXCEPT ![a].pc = "checked", ![a].new = [y \in {x} |-> text]]
      BY <2>4 DEF CheckSave
    <3>2. pub'[a].new = [y \in {x} |-> text] /\ pub'[a].pc = "checked"
      BY <1>0, <3>1 DEF Request
    <3>3. Footprint(a) = Path
      BY <1>1, <2>4 DEF CheckSave, At
    <3> QED BY <3>2, <3>3
  <2>5. CASE BeginRestore(a)
    <3>1. Footprint(a) = Path
      BY <1>1, <2>5 DEF BeginRestore, At
    <3>2. PICK state : pub'[a].new = [x \in DiffAgainstCurrent(state) |-> state[x]]
      BY <1>0, <2>5 DEF BeginRestore, Request
    <3>3. pub'[a].pc = "begun"
      BY <1>0, <2>5 DEF BeginRestore, Request
    <3> QED BY <3>1, <3>2, <3>3 DEF DiffAgainstCurrent
  <2>6. CASE pub'[a] = Idle
    BY <2>6 DEF Idle, NoChange
  <2>7. CASE BeginSave(a) \/ CheckSize(a) \/ \E x \in Path : StageEntry(a, x)
    <3>1. CASE BeginSave(a)
      BY <1>0, <1>1, <3>1 DEF BeginSave, Request
    <3>2. CASE CheckSize(a)
      BY <1>0, <1>1, <3>2 DEF CheckSize, Request
    <3>3. ASSUME NEW x \in Path, StageEntry(a, x) PROVE Good(pub'[a])
      BY <1>0, <1>1, <3>3 DEF StageEntry, Request, At
    <3> QED BY <2>7, <3>1, <3>2, <3>3
  <2>8. CASE SameReading(pub'[a], pub[a]) /\ ~OpenSave(a) /\ ~ChooseRestore(a) /\ ~CheckSave(a)
    BY <1>1, <2>8, PastTheStart DEF SameReading
  <2> QED BY <2>1, <2>2, <2>3, <2>4, <2>5, <2>6, <2>7, <2>8, OwnReading
<1> QED BY <1>0, <1>1, <1>2 DEF RequestsNameTheirPaths, Footprint

\* While a request is applied, each of its paths is copied or still to copy.
LEMMA AppliedOrToDoStep ==
    ASSUME TypeOK, RequestsFit, AppliedOrToDo, NEW a \in Actor, ActorStep(a)
    PROVE  AppliedOrToDo'
<1>0. /\ pub \in [Actor -> Request] /\ pub[a] \in Request
      /\ \A b \in Actor : b # a => pub'[b] = pub[b]
  BY OthersKeepTheirRequest DEF TypeOK
<1> DEFINE Good(q) == q.todo \cup q.undo = DOMAIN q.new /\ q.todo \cap q.undo = {}
<1>1. pub[a].pc = "applying" => Good(pub[a])
  BY DEF AppliedOrToDo, At
<1>2. ASSUME pub'[a].pc = "applying" PROVE Good(pub'[a])
  <2>1. CASE StageManifest(a)
    <3>1. pub'[a].todo = DOMAIN pub[a].new /\ pub'[a].new = pub[a].new /\ pub'[a].undo = pub[a].undo
      BY <1>0, <2>1 DEF StageManifest, Request
    <3>2. pub[a].undo = {}
      BY <2>1 DEF StageManifest, At, RequestsFit, Fits
    <3> QED BY <3>1, <3>2
  <2>2. ASSUME NEW x \in Path, ApplyEntry(a, x) PROVE Good(pub'[a])
    <3>1. /\ pub'[a].todo = pub[a].todo \ {x} /\ pub'[a].undo = pub[a].undo \cup {x}
          /\ pub'[a].new = pub[a].new /\ x \in pub[a].todo /\ pub[a].pc = "applying"
      BY <1>0, <2>2 DEF ApplyEntry, Request, At
    <3> QED BY <1>1, <3>1
  <2>3. ASSUME ~StageManifest(a), \A x \in Path : ~ApplyEntry(a, x) PROVE FALSE
    <3>0. Idle.pc = "idle"
      BY DEF Idle
    <3>1. CASE LoseRace(a) \/ BeginSave(a) \/ BeginRestore(a) \/ CheckSize(a)
      <4>1. ~LoseRace(a)
        BY <1>0, <1>2 DEF LoseRace, Request
      <4>2. ~BeginSave(a)
        BY <1>0, <1>2 DEF BeginSave, Request
      <4>3. ~BeginRestore(a)
        BY <1>0, <1>2 DEF BeginRestore, Request
      <4>4. ~CheckSize(a)
        BY <1>0, <1>2 DEF CheckSize, Request
      <4> QED BY <3>1, <4>1, <4>2, <4>3, <4>4
    <3>7. ~BeginBuild(a)
      BY <1>0, <1>2 DEF BeginBuild, Idle
    <3>8. ~OpenSave(a)
      BY <1>0, <1>2 DEF OpenSave, Idle
    <3>9. ~ChooseRestore(a)
      BY <1>0, <1>2 DEF ChooseRestore, Idle
    <3>2. CASE CheckSave(a)
      BY <1>0, <1>2, <3>2 DEF CheckSave, Request
    <3>3. CASE \E x \in Path : StageEntry(a, x)
      BY <1>0, <1>2, <3>3 DEF StageEntry, Request, At
    <3>4. CASE \E x \in Path : ApplyEntryFails(a, x) \/ RollbackEntry(a, x) \/ RollbackEntryFails(a, x)
      BY <1>0, <1>2, <3>4 DEF ApplyEntryFails, RollbackEntry, RollbackEntryFails, Request, At
    <3>5. CASE ApplyAndAdvance(a)
      <4>1. pub'[a] = Idle \/ pub'[a] = [pub[a] EXCEPT !.pc = "landed"]
        BY <1>0, <3>5 DEF ApplyAndAdvance
      <4> QED BY <1>0, <1>2, <3>0, <4>1 DEF Request
    <3>6. CASE EndSave(a) \/ RefuseOrFailStaging(a) \/ Reject(a) \/ DatabaseThrows(a)
           \/ MarkVerdict(a) \/ RecordRestoreTarget(a)
      BY <1>0, <1>2, <3>0, <3>6
         DEF EndSave, RefuseOrFailStaging, Reject, DatabaseThrows, MarkVerdict, RecordRestoreTarget
    <3> QED BY <2>3, <3>1, <3>2, <3>3, <3>4, <3>5, <3>6, <3>7, <3>8, <3>9
      DEF ActorStep, Progress
  <2> QED BY <2>1, <2>2, <2>3
<1> QED BY <1>0, <1>2 DEF AppliedOrToDo, At

\* A step changes nothing of a path its actor's request does not name.
LEMMA PathsLeftAlone ==
    ASSUME TypeOK, RequestsFit, NEW a \in Actor, ActorStep(a),
           NEW x \in Path, x \notin DOMAIN pub[a].new
    PROVE  live'[x] = live[x] /\ files'[x] = files[x]
<1>0. /\ live \in [Path -> Object] /\ files \in [Path -> Row \cup {Absent}]
      /\ x \notin pub[a].todo
      /\ pub[a].pc \in {"applying", "undoing"} => x \notin pub[a].undo
  BY DEF TypeOK, RequestsFit, Fits
<1>1. CASE ApplyAndAdvance(a)
  <2>1. files'[x] = files[x]
    BY <1>1 DEF ApplyAndAdvance, FilesAfter
  <2> QED BY <1>1, <2>1 DEF ApplyAndAdvance
<1>2. CASE \E y \in Path : ApplyEntry(a, y) \/ ApplyEntryFails(a, y) \/ RollbackEntry(a, y)
  <2>1. PICK y \in Path : ApplyEntry(a, y) \/ ApplyEntryFails(a, y) \/ RollbackEntry(a, y)
    BY <1>2
  <2>2. x # y
    BY <1>0, <2>1 DEF ApplyEntry, ApplyEntryFails, RollbackEntry, At
  <2> QED BY <1>0, <2>1, <2>2 DEF ApplyEntry, ApplyEntryFails, RollbackEntry
<1>3. CASE ~ApplyAndAdvance(a) /\ ~\E y \in Path : ApplyEntry(a, y) \/ ApplyEntryFails(a, y)
                                                 \/ RollbackEntry(a, y)
  BY <1>3 DEF ActorStep, Progress, BeginBuild, OpenSave, ChooseRestore, CheckSave, EndSave, BeginSave,
    BeginRestore, CheckSize, StageEntry, RefuseOrFailStaging, StageManifest, Reject,
    LoseRace, DatabaseThrows, RollbackEntryFails, MarkVerdict, RecordRestoreTarget
<1> QED BY <1>1, <1>2, <1>3

\* A path follows the only actor that names it.
LEMMA OwnPathFollows ==
    ASSUME TypeOK, Consistent, AppliedOrToDo, Faults \subseteq {"storage"},
           NEW a \in Actor, ActorStep(a), NEW x \in Path, Follows(x, pub[a])
    PROVE  Follows(x, pub[a])'
<1> DEFINE q == pub[a]
           qq == pub'[a]
           Read(r, f) == /\ r.seen[x] \in {Absent, f}
                         /\ x \in DOMAIN r.previous => r.previous[x] = Denotes(x, HashOf(f))
           Moving(r) == r.pc \in {"applying", "undoing"} /\ x \in r.undo
           Right(r, f, l) == /\ r.pc # "landed" => Read(r, f)
                             /\ Moving(r) => l = r.new[x]
                             /\ ~Moving(r) => l = Denotes(x, HashOf(f))
<1>0. /\ pub \in [Actor -> Request] /\ q \in Request /\ Fits(q)
      /\ live \in [Path -> Object] /\ files \in [Path -> Row \cup {Absent}]
      /\ q.new \in Changes /\ q.previous \in Changes
      /\ Idle.pc = "idle" /\ Idle.seen[x] = Absent /\ x \notin DOMAIN Idle.previous
      /\ "database" \notin Faults /\ "rollback" \notin Faults /\ "ambiguous" \notin Faults
  BY DEF TypeOK, Consistent, RequestsFit, Request, Idle, NoRows, NoChange
<1>1. Right(q, files[x], live[x])
  BY DEF Follows, Reads, Faithful
<1>2. Right(qq, files'[x], live'[x]) => Follows(x, pub[a])'
  BY DEF Follows, Reads, Faithful
<1>3. \A f, l : l = Denotes(x, HashOf(f)) => Right(Idle, f, l)
  BY <1>0
<1>4. CASE UNCHANGED <<files, live>> /\ q.pc \notin {"applying", "undoing"}
  <2>1. CASE qq = Idle
    BY <1>1, <1>2, <1>3, <1>4, <2>1
  <2>2. CASE BeginBuild(a)
    <3>1. PICK new : qq = [Idle EXCEPT !.pc = "begun", !.new = new, !.parent = current]
      BY <1>0, <2>2 DEF BeginBuild
    <3>2. qq.pc = "begun" /\ qq.seen = Idle.seen /\ qq.previous = Idle.previous
      BY <3>1 DEF Idle
    <3> QED BY <1>0, <1>1, <1>2, <1>4, <3>2
  <2>3. CASE OpenSave(a)
    <3>1. PICK y \in Path : pub' = [pub EXCEPT ![a] = [Idle EXCEPT !.pc = "opened",
                                       !.source = "MANUAL_EDIT", !.seen[y] = files[y]]]
      BY <2>3 DEF OpenSave
    <3>2. qq.pc = "opened" /\ qq.seen = [NoRows EXCEPT ![y] = files[y]] /\ qq.previous = NoChange
      BY <1>0, <3>1 DEF Idle
    <3>3. qq.seen[x] \in {Absent, files[x]} /\ x \notin DOMAIN qq.previous
      BY <3>2 DEF NoRows, NoChange
    <3> QED BY <1>0, <1>1, <1>2, <1>4, <3>2, <3>3
  <2>4. CASE ChooseRestore(a)
    <3>1. qq.pc = "chosen" /\ qq.seen = Idle.seen /\ qq.previous = Idle.previous
      BY <1>0, <2>4 DEF ChooseRestore, Idle
    <3> QED BY <1>0, <1>1, <1>2, <1>4, <3>1
  <2>5. CASE CheckSave(a)
    <3>1. qq.pc = "checked" /\ qq.seen = q.seen /\ qq.previous = q.previous /\ q.pc = "opened"
      BY <1>0, <2>5 DEF CheckSave, Request, At
    <3> QED BY <1>0, <1>1, <1>2, <1>4, <3>1
  <2>6. CASE BeginSave(a)
    <3>1. qq.pc = "begun" /\ qq.seen = q.seen /\ qq.previous = q.previous /\ q.pc = "checked"
      BY <1>0, <2>6 DEF BeginSave, Request, At
    <3> QED BY <1>0, <1>1, <1>2, <1>4, <3>1
  <2>7. CASE BeginRestore(a)
    <3>1. qq.pc = "begun" /\ qq.seen = files /\ qq.previous = q.previous /\ q.pc = "chosen"
      BY <1>0, <2>7 DEF BeginRestore, Request, At
    <3> QED BY <1>0, <1>1, <1>2, <1>4, <3>1
  <2>8. CASE CheckSize(a)
    <3>1. /\ qq.pc = "staging" /\ qq.previous = q.previous /\ q.pc = "begun"
          /\ qq.seen = [y \in Path |-> RowInSession(a, y)]
      BY <1>0, <2>8 DEF CheckSize, Request, At
    <3>2. RowInSession(a, x) \in {q.seen[x], files[x]}
      BY DEF RowInSession
    <3> QED BY <1>0, <1>1, <1>2, <1>4, <3>1, <3>2
  <2>9. ASSUME NEW y \in Path, StageEntry(a, y) PROVE Right(qq, files'[x], live'[x])
    <3>1. /\ qq.pc = "staging" /\ q.pc = "staging" /\ qq.seen = q.seen
          /\ qq.previous = [z \in DOMAIN q.previous \cup {y} |->
                                     IF z = y THEN PreviousState(a, y) ELSE q.previous[z]]
      BY <1>0, <2>9 DEF StageEntry, Request, At
    <3>2. RowInSession(a, x) = files[x]
      BY <1>1, <3>1 DEF RowInSession
    <3>3. PreviousState(a, x) = Denotes(x, HashOf(files[x]))
      <4>1. live[x] = Denotes(x, HashOf(files[x]))
        BY <1>1, <3>1
      <4> QED BY <3>2, <4>1 DEF PreviousState, Denotes
    <3>4. x \in DOMAIN qq.previous => qq.previous[x] = Denotes(x, HashOf(files[x]))
      BY <1>1, <3>1, <3>3
    <3> QED BY <1>1, <1>4, <3>1, <3>4
  <2>10. CASE StageManifest(a)
    <3>1. /\ qq.pc = "applying" /\ q.pc = "staging" /\ qq.seen = q.seen
          /\ qq.previous = q.previous /\ qq.undo = q.undo
      BY <1>0, <2>10 DEF StageManifest, Request, At
    <3>2. q.undo = {}
      BY <1>0, <3>1 DEF Fits
    <3> QED BY <1>0, <1>1, <1>2, <1>4, <3>1, <3>2
  <2>11. CASE \/ ApplyAndAdvance(a) \/ LoseRace(a)
              \/ \E y \in Path : ApplyEntry(a, y) \/ ApplyEntryFails(a, y) \/ RollbackEntry(a, y)
                                \/ RollbackEntryFails(a, y)
    BY <1>4, <2>11 DEF ApplyAndAdvance, LoseRace, ApplyEntry, ApplyEntryFails, RollbackEntry,
      RollbackEntryFails, At
  <2>12. CASE EndSave(a) \/ RefuseOrFailStaging(a) \/ Reject(a) \/ DatabaseThrows(a)
           \/ MarkVerdict(a) \/ RecordRestoreTarget(a)
    <3>1. qq = Idle
      BY <1>0, <2>12 DEF EndSave, RefuseOrFailStaging, Reject, DatabaseThrows, MarkVerdict,
        RecordRestoreTarget
    <3> QED BY <2>1, <3>1
  <2> QED
    BY <1>2, <2>2, <2>3, <2>4, <2>5, <2>6, <2>7, <2>8, <2>9, <2>10, <2>11, <2>12 DEF ActorStep, Progress
<1>5. CASE q.pc \in {"applying", "undoing"}
  <2>1. CASE Reject(a)
    <3>1. q.todo = DOMAIN q.new /\ q.pc = "applying"
      BY <2>1 DEF Reject, At
    <3>2. x \notin q.undo
      BY <1>0, <3>1 DEF AppliedOrToDo, At, Fits
    <3>3. qq = Idle /\ files'[x] = files[x] /\ live'[x] = live[x]
      BY <1>0, <2>1 DEF Reject
    <3> QED BY <1>1, <1>2, <1>3, <3>2, <3>3
  <2>2. CASE MarkVerdict(a)
    <3>1. q.undo = {} /\ qq = Idle /\ files'[x] = files[x] /\ live'[x] = live[x]
      BY <1>0, <2>2 DEF MarkVerdict
    <3> QED BY <1>1, <1>2, <1>3, <3>1
  <2>3. ASSUME NEW y \in Path, ApplyEntry(a, y) PROVE Right(qq, files'[x], live'[x])
    <3>1. /\ qq.pc = "applying" /\ q.pc = "applying" /\ qq.seen = q.seen
          /\ qq.previous = q.previous /\ qq.undo = q.undo \cup {y} /\ qq.new = q.new
      BY <1>0, <2>3 DEF ApplyEntry, Request, At
    <3>2. files'[x] = files[x] /\ live'[x] = IF x = y THEN q.new[y] ELSE live[x]
      BY <1>0, <2>3 DEF ApplyEntry
    <3> QED BY <1>1, <3>1, <3>2
  <2>4. ASSUME NEW y \in Path, ApplyEntryFails(a, y) PROVE Right(qq, files'[x], live'[x])
    <3>1. /\ qq.pc = "undoing" /\ q.pc = "applying" /\ qq.seen = q.seen
          /\ qq.previous = q.previous /\ qq.undo = q.undo /\ qq.new = q.new
      BY <1>0, <2>4 DEF ApplyEntryFails, Request, At
    <3>2. files'[x] = files[x] /\ live'[x] = live[x]
      BY <1>0, <2>4 DEF ApplyEntryFails
    <3> QED BY <1>1, <3>1, <3>2
  <2>5. CASE LoseRace(a)
    <3>1. /\ qq.pc = "undoing" /\ q.pc = "applying" /\ qq.seen = q.seen
          /\ qq.previous = q.previous /\ qq.undo = q.undo /\ qq.new = q.new
      BY <1>0, <2>5 DEF LoseRace, Request, At
    <3>2. files'[x] = files[x] /\ live'[x] = live[x]
      BY <1>0, <2>5 DEF LoseRace
    <3> QED BY <1>1, <1>2, <3>1, <3>2
  <2>6. ASSUME NEW y \in Path, RollbackEntry(a, y) PROVE Right(qq, files'[x], live'[x])
    <3>1. /\ qq.pc = "undoing" /\ q.pc = "undoing" /\ qq.seen = q.seen /\ y \in q.undo
          /\ qq.previous = q.previous /\ qq.undo = q.undo \ {y} /\ qq.new = q.new
      BY <1>0, <2>6 DEF RollbackEntry, Request, At
    <3>2. files'[x] = files[x] /\ live'[x] = IF x = y THEN q.previous[y] ELSE live[x]
      BY <1>0, <2>6 DEF RollbackEntry
    <3>3. y \in DOMAIN q.previous
      BY <1>0, <3>1 DEF Fits
    <3> QED BY <1>1, <3>1, <3>2, <3>3
  <2>7. CASE ApplyAndAdvance(a)
    <3>1. q.pc = "applying" /\ q.todo = {} /\ files' = FilesAfter(q.new, q.rev) /\ live' = live
      BY <2>7 DEF ApplyAndAdvance, At
    <3>2. q.undo = DOMAIN q.new
      BY <3>1 DEF AppliedOrToDo, At
    <3>3. live'[x] = Denotes(x, HashOf(files'[x]))
      <4>1. CASE x \in DOMAIN q.new
        <5>1. live[x] = q.new[x] /\ q.new[x] # NoHash
          BY <1>0, <1>1, <3>1, <3>2, <4>1, RevisionsAssumption DEF Changes, Object
        <5>2. HashOf(files'[x]) = q.new[x]
          BY <2>7, <4>1, LandingWrites DEF HashTree
        <5> QED BY <3>1, <5>1, <5>2 DEF Denotes
      <4>2. CASE x \notin DOMAIN q.new
        BY <1>1, <3>1, <3>2, <4>2 DEF FilesAfter
      <4> QED BY <4>1, <4>2
    <3>4. qq = Idle \/ qq = [q EXCEPT !.pc = "landed"]
      BY <1>0, <2>7 DEF ApplyAndAdvance
    <3>5. CASE qq = Idle
      BY <1>2, <1>3, <3>3, <3>5
    <3>6. CASE qq = [q EXCEPT !.pc = "landed"]
      <4>1. qq.pc = "landed"
        BY <1>0, <3>6 DEF Request
      <4> QED BY <1>2, <3>3, <4>1
    <3> QED BY <3>4, <3>5, <3>6
  <2>8. ~DatabaseThrows(a) /\ \A y \in Path : ~RollbackEntryFails(a, y)
    BY <1>0 DEF DatabaseThrows, RollbackEntryFails
  <2>9. CASE \/ BeginBuild(a) \/ OpenSave(a) \/ CheckSave(a) \/ EndSave(a) \/ BeginSave(a)
             \/ ChooseRestore(a) \/ BeginRestore(a) \/ CheckSize(a) \/ RefuseOrFailStaging(a)
             \/ (\E y \in Path : StageEntry(a, y)) \/ StageManifest(a) \/ RecordRestoreTarget(a)
    BY <1>5, <2>9 DEF BeginBuild, OpenSave, CheckSave, EndSave, BeginSave, ChooseRestore, BeginRestore,
      CheckSize, RefuseOrFailStaging, StageEntry, StageManifest, RecordRestoreTarget, At
  <2> QED BY <1>2, <2>1, <2>2, <2>3, <2>4, <2>5, <2>6, <2>7, <2>8, <2>9 DEF ActorStep, Progress
<1>6. q.pc \notin {"applying", "undoing"} => UNCHANGED <<files, live>>
  BY DEF ActorStep, Progress, BeginBuild, OpenSave, ChooseRestore, CheckSave, EndSave, BeginSave,
    BeginRestore, CheckSize, StageEntry, RefuseOrFailStaging, StageManifest, Reject, ApplyEntry,
    ApplyEntryFails, ApplyAndAdvance, LoseRace, DatabaseThrows, RollbackEntry, RollbackEntryFails,
    MarkVerdict, RecordRestoreTarget, At
<1> QED BY <1>4, <1>5, <1>6

\* Every path is faithful in the initial state.
LEMMA UncontendedInit == Init => Uncontended
<1> SUFFICES ASSUME Init PROVE Uncontended
  OBVIOUS
<1>1. /\ \A a \in Actor : pub[a] = Idle
      /\ Idle.pc = "idle" /\ Idle.seen = NoRows /\ Idle.previous = NoChange /\ Idle.new = NoChange
  BY DEF Init, Idle
<1>2. RequestsNameTheirPaths /\ AppliedOrToDo
  BY <1>1 DEF RequestsNameTheirPaths, AppliedOrToDo, NoChange, At
<1>3. ASSUME NEW x \in Path PROVE Faithful(x) /\ Reads(x, Idle)
  <2>1. Faithful(x)
    <3>1. CASE Template[x] = Absent
      BY <3>1, RevisionsAssumption DEF Init, Faithful, HashOf, Denotes
    <3>2. CASE Template[x] # Absent
      <4>1. files[x] = [hash |-> NoHash, born |-> 0]
        BY <3>2 DEF Init
      <4>2. [hash |-> NoHash, born |-> 0] \in Row
        BY RevisionsAssumption DEF Row
      <4>3. HashOf(files[x]) = NoHash
        BY <4>1, <4>2, RevisionsAssumption DEF HashOf
      <4> QED BY <4>3 DEF Init, Faithful, Denotes
    <3> QED BY <3>1, <3>2
  <2>2. Reads(x, Idle)
    BY <1>1 DEF Reads, NoRows, NoChange
  <2> QED BY <2>1, <2>2
<1>4. PathsFollowTheirActor
  BY <1>1, <1>3 DEF PathsFollowTheirActor, Follows
<1> QED BY <1>2, <1>4 DEF Uncontended

\* Every step keeps a path that only one actor names where that actor left it.
LEMMA UncontendedStep ==
    ASSUME Faults \subseteq {"storage"}
    PROVE  TypeOK /\ Consistent /\ Uncontended /\ [Next]_vars => Uncontended'
<1> SUFFICES ASSUME TypeOK, Consistent, Uncontended, [Next]_vars PROVE Uncontended'
  OBVIOUS
<1> USE DEF Uncontended
<1>0. RequestsFit
  BY DEF Consistent
<1>1. CASE UNCHANGED vars \/ \E e \in Editors : LoadProject(e) \/ SaveProject(e)
  <2>1. pub' = pub /\ files' = files /\ live' = live
    BY <1>1 DEF vars, LoadProject, SaveProject
  <2>2. RequestsNameTheirPaths' /\ AppliedOrToDo'
    BY <2>1 DEF RequestsNameTheirPaths, AppliedOrToDo, At
  <2>3. PathsFollowTheirActor'
    BY <2>1 DEF PathsFollowTheirActor, Follows, Reads, Faithful
  <2> QED BY <2>2, <2>3
<1>2. ~Crash
  BY DEF Crash
<1>3. ASSUME NEW a \in Actor, ActorStep(a) PROVE Uncontended'
  <2>1. RequestsNameTheirPaths' /\ AppliedOrToDo'
    BY <1>0, <1>3, NamesStep, AppliedOrToDoStep
  <2>2. ASSUME NEW x \in Path, NEW b \in Actor, OnlyFor(x, b) PROVE Follows(x, pub[b])'
    <3>1. Follows(x, pub[b])
      BY <2>2 DEF PathsFollowTheirActor
    <3>2. CASE b = a
      BY <1>3, <3>1, <3>2, OwnPathFollows
    <3>3. CASE b # a
      <4>1. x \notin DOMAIN pub[a].new
        BY <2>2, <3>3 DEF OnlyFor, RequestsNameTheirPaths
      <4>2. live'[x] = live[x] /\ files'[x] = files[x]
        BY <1>0, <1>3, <4>1, PathsLeftAlone
      <4>3. pub'[b] = pub[b]
        BY <1>3, <3>3, OthersKeepTheirRequest
      <4> QED BY <3>1, <4>2, <4>3 DEF Follows, Reads, Faithful
    <3> QED BY <3>2, <3>3
  <2>3. PathsFollowTheirActor'
    BY <2>2 DEF PathsFollowTheirActor, OnlyFor, Footprint
  <2> QED BY <2>1, <2>3
<1> QED BY <1>1, <1>2, <1>3 DEF Next, ActorStep

\* Whatever is published, refused, thrown at or undone, a path that only one actor
\* names follows that actor's request (RevisionServiceImpl's apply and rollback).
THEOREM AlwaysUncontended ==
    ASSUME Faults \subseteq {"storage"}
    PROVE  Spec => []Uncontended
<1>1. TypeOK /\ Consistent /\ Uncontended /\ [Next]_vars => Uncontended'
  BY UncontendedStep
<1> QED BY <1>1, AlwaysConsistent, UncontendedInit, PTL DEF Spec

\* When the worst that happens is a storage call that throws, a path that only
\* one actor names is put back byte for byte by every publish that does not land.
THEOREM UncontendedStayFaithful ==
    ASSUME Faults \subseteq {"storage"}
    PROVE  Spec => []UncontendedPathsAreFaithful
<1>1. Uncontended => UncontendedPathsAreFaithful
  BY DEF Uncontended, PathsFollowTheirActor, Follows, UncontendedPathsAreFaithful, OnlyFor, InFlight
<1> QED BY <1>1, AlwaysUncontended, PTL

----------------------------------------------------------------------------
(* The history's trees are what landed *)

\* What a step adds to the history: nothing, or its actor's landing.
LEMMA HistorySteps ==
    ASSUME TypeOK, Consistent, Linear, NEW a \in Actor, ActorStep(a)
    PROVE  /\ Len(history) \in Nat \ {0} /\ Len(history') \in Nat
           /\ \A i \in 1..Len(history) : history'[i] = history[i]
           /\ ~ApplyAndAdvance(a) => Len(history') = Len(history) /\ UNCHANGED <<current, files, HashTree>>
           /\ ApplyAndAdvance(a) =>
                /\ Len(history') = Len(history) + 1
                /\ history'[Len(history')].rev = pub[a].rev
                /\ history'[Len(history')].tree = HashTree'
<1>0. history \in Seq(Landing) /\ Len(history) \in Nat \ {0}
  BY DEF TypeOK, Linear, HistoryIsComplete
<1>1. CASE ~ApplyAndAdvance(a)
  BY <1>0, <1>1, Quiet DEF HashTree
<1>2. CASE ApplyAndAdvance(a)
  <2>1. history' = Append(history, [rev |-> pub[a].rev, tree |-> HashTree'])
    BY <1>2 DEF ApplyAndAdvance
  <2>2. [rev |-> pub[a].rev, tree |-> HashTree'] \in Landing
    <3>1. history' \in Seq(Landing)
      BY ActorStepType DEF TypeOK, Consistent
    <3> QED BY <1>0, <2>1, <3>1
  <2> QED BY <1>0, <1>2, <2>1, <2>2
<1> QED BY <1>1, <1>2

\* The landings a step finds in the history keep their revisions' entries, and
\* the one it adds has those of its actor's request.
LEMMA LandingsKept ==
    ASSUME TypeOK, Consistent, Linear, SourcesRecorded, NEW a \in Actor, ActorStep(a)
    PROVE  /\ \A i \in 2..Len(history) :
                /\ Landed(i)'.new = Landed(i).new
                /\ Landed(i)'.previous = Landed(i).previous
           /\ ApplyAndAdvance(a) =>
                /\ Landed(Len(history))'.new = pub[a].new
                /\ Landed(Len(history))'.previous = pub[a].previous
<1>0. Len(history) \in Nat
  BY HistorySteps
<1>1. ASSUME NEW i \in 2..Len(history)
      PROVE  /\ Landed(i)'.new = Landed(i).new
             /\ Landed(i)'.previous = Landed(i).previous
  <2>1. history'[i] = history[i] /\ history[i].rev \in DOMAIN revs
    BY <1>0, HistorySteps DEF Linear, LinearHistory
  <2>2. PICK r \in DOMAIN revs : r = history[i].rev
    BY <2>1
  <2>3. revs'[r].new = revs[r].new /\ revs'[r].previous = revs[r].previous
    BY RevisionsKept DEF Consistent
  <2> QED BY <2>1, <2>2, <2>3 DEF Landed
<1>2. ASSUME ApplyAndAdvance(a)
      PROVE  /\ Landed(Len(history))'.new = pub[a].new
             /\ Landed(Len(history))'.previous = pub[a].previous
  <2>1. InFlight(a)
    BY <1>2 DEF ApplyAndAdvance, InFlight, At
  <2>2. PICK r \in DOMAIN revs : r = pub[a].rev
    BY <2>1 DEF Consistent, RequestsOwnTheirRevision
  <2>3. revs[r].new = pub[a].new /\ revs[r].previous = pub[a].previous
    BY <2>1, <2>2 DEF Consistent, RequestsOwnTheirRevision
  <2>4. revs'[r].new = revs[r].new /\ revs'[r].previous = revs[r].previous
    BY RevisionsKept DEF Consistent
  <2>5. history'[Len(history')].rev = r
    BY <1>2, <2>2, HistorySteps
  <2> QED BY <2>3, <2>4, <2>5 DEF Landed
<1> QED BY <1>1, <1>2

\* A landing writes the paths it names and keeps the others.
LEMMA TreesAreWrittenStep ==
    ASSUME TypeOK, Consistent, Linear, SourcesRecorded, TreesAreWritten, NEW a \in Actor, ActorStep(a)
    PROVE  TreesAreWritten'
<1> DEFINE n == Len(history)
<1>0. n \in Nat \ {0} /\ Len(history') \in Nat /\ \A i \in 1..n : history'[i] = history[i]
  BY HistorySteps
<1>1. \A i \in 2..n : \A x : Names(i, x)' <=> Names(i, x)
  BY LandingsKept DEF Names
<1>2. \A i \in 2..n : Landed(i)'.new = Landed(i).new
  BY LandingsKept
<1>3. ASSUME NEW i \in 1..n, NEW x \in Path
      PROVE  \/ \E k \in 2..i : LastToName(k, i, x)' /\ history'[i].tree[x] = Landed(k)'.new[x]
             \/ (\A k \in 2..i : ~Names(k, x)') /\ history'[i].tree[x] = TemplateTree[x]
  <2>1. 2..i \subseteq 2..n
    BY <1>0
  <2>2. \A k \in 2..i : LastToName(k, i, x)' <=> LastToName(k, i, x)
    BY <1>1, <2>1 DEF LastToName
  <2>3. history'[i].tree[x] = history[i].tree[x]
    BY <1>0
  <2>4. CASE \E k \in 2..i : LastToName(k, i, x) /\ history[i].tree[x] = Landed(k).new[x]
    BY <1>2, <2>1, <2>2, <2>3, <2>4
  <2>5. CASE (\A k \in 2..i : ~Names(k, x)) /\ history[i].tree[x] = TemplateTree[x]
    BY <1>1, <2>1, <2>3, <2>5
  <2> QED BY <2>4, <2>5 DEF TreesAreWritten
<1>4. CASE ~ApplyAndAdvance(a)
  <2>1. Len(history') = n
    BY <1>4, HistorySteps
  <2> QED BY <1>3, <2>1 DEF TreesAreWritten, TemplateTree
<1>5. CASE ApplyAndAdvance(a)
  <2>0. PICK m \in Nat : m = n + 1
    BY <1>0
  <2>1. /\ Len(history') = m /\ history'[m].tree = HashTree'
        /\ Landed(m)'.new = pub[a].new
    <3>1. Len(history') = m /\ history'[Len(history')].tree = HashTree'
      BY <1>5, <2>0, HistorySteps
    <3>2. Landed(Len(history))'.new = pub[a].new
      BY <1>5, LandingsKept
    <3> QED BY <3>1, <3>2 DEF Landed
  <2>2. ASSUME NEW x \in Path
        PROVE  \/ \E k \in 2..m : LastToName(k, m, x)' /\ history'[m].tree[x] = Landed(k)'.new[x]
               \/ (\A k \in 2..m : ~Names(k, x)') /\ history'[m].tree[x] = TemplateTree[x]
    <3>1. CASE x \in DOMAIN pub[a].new
      <4>1. history'[m].tree[x] = Landed(m)'.new[x]
        BY <1>5, <2>1, <3>1, LandingWrites
      <4>2. LastToName(m, m, x)'
        BY <1>0, <2>0, <2>1, <3>1 DEF LastToName, Names
      <4> QED BY <1>0, <2>0, <4>1, <4>2
    <3>2. CASE x \notin DOMAIN pub[a].new
      <4>1. history'[m].tree[x] = history[n].tree[x]
        <5>1. HashTree'[x] = HashTree[x]
          BY <1>5, <3>2, LandingWrites
        <5> QED BY <2>1, <5>1 DEF Linear, HistoryIsComplete
      <4>2. ~Names(m, x)'
        BY <2>1, <3>2 DEF Names
      <4>3. \A k \in 2..m : k \in 2..n \/ k = m
        BY <1>0, <2>0
      <4>4. CASE \E k \in 2..n : LastToName(k, n, x) /\ history[n].tree[x] = Landed(k).new[x]
        <5>1. PICK k \in 2..n : LastToName(k, n, x) /\ history[n].tree[x] = Landed(k).new[x]
          BY <4>4
        <5>2. k \in 2..m /\ n \in Nat
          BY <1>0, <2>0
        <5>3. LastToName(k, m, x)'
          BY <1>1, <4>2, <4>3, <5>1, <5>2 DEF LastToName
        <5> QED BY <1>2, <4>1, <5>1, <5>2, <5>3
      <4>5. CASE (\A k \in 2..n : ~Names(k, x)) /\ history[n].tree[x] = TemplateTree[x]
        BY <1>1, <4>1, <4>2, <4>3, <4>5
      <4> QED BY <1>0, <4>4, <4>5 DEF TreesAreWritten
    <3> QED BY <3>1, <3>2
  <2>3. \A i \in 1..m : i \in 1..n \/ i = m
    BY <1>0, <2>0
  <2> QED BY <1>3, <2>1, <2>2, <2>3 DEF TreesAreWritten, TemplateTree
<1> QED BY <1>4, <1>5

\* The paths an applied revision names are those a landing names.
LEMMA TouchedIsNamed ==
    ASSUME TypeOK, Linear, NEW x
    PROVE  Touched(x) <=> \E i \in 2..Len(history) : Names(i, x)
BY DEF Touched, Naming, Names, Landed, Linear, HistoryIsComplete

\* A path that some landing named stays one.
LEMMA TouchedKept ==
    ASSUME TypeOK, Consistent, NEW a \in Actor, ActorStep(a), NEW x, Touched(x)
    PROVE  Touched(x)'
<1>1. PICK r \in Applied : x \in DOMAIN revs[r].new
  BY DEF Touched, Naming
<1>2. r \in DOMAIN revs
  BY <1>1 DEF Applied, TypeOK
<1>3. r \in Applied' /\ x \in DOMAIN revs'[r].new
  BY <1>1, <1>2, AppliedKept, RevisionsKept DEF Consistent
<1> QED BY <1>3 DEF Touched, Naming

\* A path no landing named is as the template left it.
LEMMA UntouchedIsTemplate ==
    ASSUME TypeOK, Linear, TreesAreWritten, NEW x \in Path, ~Touched(x)
    PROVE  HashTree[x] = TemplateTree[x]
<1> DEFINE n == Len(history)
<1>0. n \in 1..n
  BY DEF TypeOK, Linear, HistoryIsComplete
<1>1. \A k \in 2..n : ~Names(k, x)
  BY TouchedIsNamed
<1>2. history[n].tree[x] = TemplateTree[x]
  BY <1>0, <1>1 DEF TreesAreWritten, LastToName
<1> QED BY <1>2 DEF Linear, HistoryIsComplete

\* A file has a row because the template or a landing gave it one.
LEMMA FilesAreTouchedOrTemplate ==
    ASSUME TypeOK, Linear, TreesAreWritten, NEW x \in Path, files[x] # Absent
    PROVE  Template[x] # Absent \/ Touched(x)
<1>1. HashTree[x] # Absent
  <2>1. files[x] \in Row
    BY DEF TypeOK
  <2> QED BY <2>1, RevisionsAssumption DEF Row, HashTree, HashOf
<1> QED BY <1>1, UntouchedIsTemplate DEF TemplateTree

\* What a restore needs of the template to put it back.
TemplateUncontended == (\E x \in Path : Template[x] # Absent) => Uncontended

\* The first landing to name a template path replaces the template's content.
LEMMA FirstReplacesStep ==
    ASSUME TemplateIsKept,
           TypeOK, Consistent, Linear, Replaced, TemplateUncontended, Exact, NEW a \in Actor, ActorStep(a)
    PROVE  FirstReplacesTheTemplate'
<1> DEFINE n == Len(history)
<1>0. n \in Nat \ {0} /\ Len(history') \in Nat
  BY HistorySteps
<1>1. \A i \in 2..n : \A x : Names(i, x)' <=> Names(i, x)
  BY LandingsKept DEF Names, Replaced
<1>2. \A i \in 2..n : Landed(i)'.previous = Landed(i).previous
  BY LandingsKept DEF Replaced
<1>3. ASSUME NEW i \in 2..n, NEW x \in Path, Names(i, x)', \A k \in 2..i : k < i => ~Names(k, x)'
      PROVE  Landed(i)'.previous[x] = Template[x]
  <2>1. 2..i \subseteq 2..n
    BY <1>0
  <2>2. Names(i, x) /\ \A k \in 2..i : k < i => ~Names(k, x)
    BY <1>1, <1>3, <2>1
  <2> QED BY <1>2, <2>2 DEF Exact, FirstReplacesTheTemplate
<1>4. CASE ~ApplyAndAdvance(a)
  <2>1. Len(history') = n
    BY <1>4, HistorySteps
  <2> QED BY <1>3, <2>1 DEF FirstReplacesTheTemplate
<1>5. CASE ApplyAndAdvance(a)
  <2>0. PICK m \in Nat : m = n + 1
    BY <1>0
  <2>1. Len(history') = m /\ Landed(m)'.new = pub[a].new /\ Landed(m)'.previous = pub[a].previous
    <3>1. Len(history') = m
      BY <1>5, <2>0, HistorySteps
    <3>2. Landed(Len(history))'.new = pub[a].new /\ Landed(Len(history))'.previous = pub[a].previous
      BY <1>5, LandingsKept DEF Replaced
    <3> QED BY <3>1, <3>2 DEF Landed
  <2>2. ASSUME NEW x \in Path, Names(m, x)', \A k \in 2..m : k < m => ~Names(k, x)'
        PROVE  Landed(m)'.previous[x] = Template[x]
    <3>1. x \in DOMAIN pub[a].new
      BY <2>1, <2>2 DEF Names
    <3>2. x \in DOMAIN pub[a].previous
      BY <1>5, <3>1 DEF ApplyAndAdvance, At, Consistent, RequestsFit, Fits
    <3>3. ~Touched(x)
      <4>1. \A k \in 2..n : k \in 2..m /\ k < m
        BY <1>0, <2>0
      <4>2. \A k \in 2..n : ~Names(k, x)
        BY <1>1, <2>2, <4>1
      <4> QED BY <4>2, TouchedIsNamed
    <3>4. HashTree[x] = TemplateTree[x]
      BY <3>3, UntouchedIsTemplate DEF Exact
    <3>5. CASE Template[x] = Absent
      <4>1. HashTree[x] = Absent /\ HashTree[x] # NoHash
        BY <3>4, <3>5, RevisionsAssumption DEF TemplateTree
      <4>2. pub[a].source # "MANUAL_EDIT"
        BY <3>1, <3>3, <3>5 DEF Exact, SavesAreOfFiles
      <4>3. pub[a].parent = current
        BY <1>5 DEF ApplyAndAdvance, CasAdvances
      <4>4. pub[a].previous[x] = HashTree[x]
        BY <3>2, <4>1, <4>2, <4>3 DEF Replaced, ReadsAreCurrent, ReadingHolds
      <4> QED BY <2>1, <3>5, <4>1, <4>4
    <3>6. CASE Template[x] # Absent
      <4>1. Uncontended
        BY <3>6 DEF TemplateUncontended
      <4>2. OnlyFor(x, a)
        BY <3>1, <3>6, <4>1 DEF Uncontended, RequestsNameTheirPaths, TemplateIsKept, OnlyFor
      <4>3. Reads(x, pub[a])
        BY <1>5, <4>1, <4>2 DEF Uncontended, PathsFollowTheirActor, Follows, ApplyAndAdvance, At
      <4>4. HashOf(files[x]) = NoHash
        BY <3>4, <3>6 DEF TemplateTree, HashTree
      <4>5. pub[a].previous[x] = Template[x]
        BY <3>2, <4>3, <4>4 DEF Reads, Denotes
      <4> QED BY <2>1, <4>5
    <3> QED BY <3>5, <3>6
  <2>3. \A i \in 2..m : i \in 2..n \/ i = m
    BY <1>0, <2>0
  <2>4. ASSUME NEW i \in 2..m, NEW x \in Path, Names(i, x)', \A k \in 2..i : k < i => ~Names(k, x)'
        PROVE  Landed(i)'.previous[x] = Template[x]
    BY <1>3, <2>2, <2>3, <2>4
  <2> QED BY <2>1, <2>4 DEF FirstReplacesTheTemplate
<1> QED BY <1>4, <1>5

\* A save by hand is of a file the template or a landing made.
LEMMA SavesAreOfFilesStep ==
    ASSUME TypeOK, Consistent, Linear, Replaced, TreesAreWritten, SavesAreOfFiles,
           NEW a \in Actor, ActorStep(a)
    PROVE  SavesAreOfFiles'
<1> DEFINE Held1(x) == Template[x] # Absent \/ Touched(x)
           Seen(q) == \A x \in Path : q.seen[x] # Absent => Held1(x)
           Saves(q) == q.source = "MANUAL_EDIT" => \A x \in DOMAIN q.new : Held1(x)
<1>0. /\ pub \in [Actor -> Request] /\ pub[a] \in Request
      /\ \A b \in Actor : b # a => pub'[b] = pub[b]
  BY OthersKeepTheirRequest DEF TypeOK
<1>1. Seen(pub[a]) /\ Saves(pub[a])
  BY DEF SavesAreOfFiles
<1>2. Seen(Idle) /\ Saves(Idle)
  BY DEF Idle, NoRows, NoChange
<1>3. \A x \in Path : files[x] # Absent => Held1(x)
  BY FilesAreTouchedOrTemplate
<1>4. Seen(pub'[a]) /\ Saves(pub'[a])
  <2> HIDE DEF Held1
  <2>1. CASE BeginBuild(a)
    <3>1. PICK new : pub'[a] = [Idle EXCEPT !.pc = "begun", !.new = new, !.parent = current]
      BY <1>0, <2>1 DEF BeginBuild
    <3>2. pub'[a].seen = NoRows /\ pub'[a].source # "MANUAL_EDIT"
      BY <3>1 DEF Idle
    <3> QED BY <3>2 DEF NoRows
  <2>2. CASE OpenSave(a)
    <3>1. PICK y \in Path : pub' = [pub EXCEPT ![a] = [Idle EXCEPT !.pc = "opened",
                                       !.source = "MANUAL_EDIT", !.seen[y] = files[y]]]
      BY <2>2 DEF OpenSave
    <3>2. pub'[a].seen = [NoRows EXCEPT ![y] = files[y]] /\ pub'[a].new = NoChange
      BY <1>0, <3>1 DEF Idle
    <3>3. \A x \in Path : pub'[a].seen[x] \in {Absent, files[x]}
      BY <3>2 DEF NoRows
    <3> QED BY <1>3, <3>2, <3>3 DEF NoChange
  <2>3. CASE ChooseRestore(a)
    <3>1. pub'[a].seen = NoRows /\ pub'[a].new = NoChange
      BY <1>0, <2>3 DEF ChooseRestore, Idle
    <3> QED BY <3>1 DEF NoRows, NoChange
  <2>4. CASE CheckSave(a)
    <3>1. PICK x \in Path, text \in Content :
             /\ pub[a].seen[x] # Absent
             /\ pub' = [pub EXCEPT ![a].pc = "checked", ![a].new = [y \in {x} |-> text]]
      BY <2>4 DEF CheckSave
    <3>2. pub'[a].new = [y \in {x} |-> text] /\ pub'[a].seen = pub[a].seen
      BY <1>0, <3>1 DEF Request
    <3> QED BY <1>1, <3>1, <3>2
  <2>5. CASE BeginSave(a)
    <3>1. pub'[a].seen = pub[a].seen /\ pub'[a].new = pub[a].new /\ pub'[a].source = pub[a].source
      BY <1>0, <2>5 DEF BeginSave, Request
    <3> QED BY <1>1, <3>1
  <2>6. CASE BeginRestore(a)
    <3>1. pub'[a].seen = files /\ pub'[a].source = pub[a].source
      BY <1>0, <2>6 DEF BeginRestore, Request
    <3>2. pub[a].source = "RESTORE"
      BY <2>6 DEF BeginRestore, Replaced, SourcesRecorded
    <3> QED BY <1>3, <3>1, <3>2
  <2>7. CASE CheckSize(a)
    <3>1. /\ pub'[a].new = pub[a].new /\ pub'[a].source = pub[a].source
          /\ pub'[a].seen = pub[a].seen \/ pub'[a].seen = [x \in Path |-> RowInSession(a, x)]
      BY <1>0, <2>7 DEF CheckSize, Request
    <3>2. \A x \in Path : RowInSession(a, x) \in {pub[a].seen[x], files[x]}
      BY DEF RowInSession
    <3> QED BY <1>1, <1>3, <3>1, <3>2
  <2>8. CASE \E x \in Path : StageEntry(a, x)
    <3>1. /\ pub'[a].new = pub[a].new /\ pub'[a].source = pub[a].source /\ pub'[a].seen = pub[a].seen
      BY <1>0, <2>8 DEF StageEntry, Request
    <3> QED BY <1>1, <3>1
  <2>9. CASE SameReading(pub'[a], pub[a])
    BY <1>1, <2>9 DEF SameReading
  <2>10. CASE pub'[a] = Idle
    BY <1>2, <2>10
  <2> QED BY <2>1, <2>2, <2>3, <2>4, <2>5, <2>6, <2>7, <2>8, <2>9, <2>10, OwnReading
<1>5. \A b \in Actor : Seen(pub'[b]) /\ Saves(pub'[b])
  <2>1. \A b \in Actor : Seen(pub[b]) /\ Saves(pub[b])
    BY DEF SavesAreOfFiles
  <2> HIDE DEF Seen, Saves
  <2> QED BY <1>0, <1>4, <2>1
<1>6. \A x : Touched(x) => Touched(x)'
  BY TouchedKept
<1> QED BY <1>5, <1>6 DEF SavesAreOfFiles

----------------------------------------------------------------------------
(* What a restore finds, and leaves *)

\* The first landing is the empty history's, the others are revisions.
LEMMA HistoryRevs ==
    ASSUME TypeOK, Linear
    PROVE  /\ Len(history) \in Nat \ {0}
           /\ \A i \in 1..Len(history) : history[i].rev \in Nat
           /\ \A i \in 2..Len(history) : history[i].rev \in DOMAIN revs \ {0}
           /\ history[1].rev = 0
<1> DEFINE n == Len(history)
<1>0. history \in Seq(Landing) /\ n \in Nat \ {0} /\ history[1].rev = 0
  BY DEF TypeOK, Linear, HistoryIsComplete
<1>1. ASSUME NEW i \in 1..n PROVE history[i].rev \in Nat
  <2>1. history[i] \in Landing
    BY <1>0
  <2> QED BY <2>1 DEF Landing, RevId
<1>2. ASSUME NEW i \in 2..n PROVE history[i].rev \in DOMAIN revs \ {0}
  <2>1. history[i].rev \in DOMAIN revs
    BY DEF Linear, LinearHistory
  <2>2. 1 \in 1..n /\ i \in 1..n /\ 1 < i
    BY <1>0
  <2>3. history[1].rev < history[i].rev
    BY <2>2 DEF Linear, HistoryIsComplete
  <2> QED BY <1>0, <2>1, <2>3
<1> QED BY <1>0, <1>1, <1>2

\* The chain of a landing is the landings up to it: the parents that
\* reconstructSnapshot's recursive query walks are the history's.
LEMMA ChainIsHistory ==
    ASSUME TypeOK, Linear, NEW i \in 2..Len(history)
    PROVE  Chain(history[i].rev) = {history[k].rev : k \in 2..i}
<1> DEFINE n == Len(history)
           H == {history[k].rev : k \in 2..i}
           Closed(C) == \A t \in C : revs[t].parent # 0 => revs[t].parent \in C
<1>0. n \in Nat \ {0} /\ 2..i \subseteq 2..n /\ i \in 2..i
  BY HistoryRevs
<1>1. \A k \in 2..n : revs[history[k].rev].parent = history[k - 1].rev
  BY DEF Linear, LinearHistory
<1>2. H \in SUBSET DOMAIN revs
  BY <1>0, HistoryRevs
<1>3. Closed(H)
  <2> SUFFICES ASSUME NEW k \in 2..i, revs[history[k].rev].parent # 0
               PROVE  revs[history[k].rev].parent \in H
    OBVIOUS
  <2>1. revs[history[k].rev].parent = history[k - 1].rev
    BY <1>0, <1>1
  <2>2. k # 2
    BY <2>1, HistoryRevs
  <2>3. k - 1 \in 2..i
    BY <1>0, <2>2
  <2> QED BY <2>1, <2>3
<1>4. history[i].rev \in H
  BY <1>0
<1>5. ASSUME NEW k \in 2..i, NEW C \in SUBSET DOMAIN revs, history[i].rev \in C, Closed(C)
      PROVE  history[k].rev \in C
  <2> SUFFICES ASSUME history[k].rev \notin C PROVE FALSE
    OBVIOUS
  <2> DEFINE S == {d \in Nat : i - d \in 2..i /\ history[i - d].rev \notin C}
  <2>1. i \in Nat /\ k \in Nat
    BY <1>0
  <2>2. i - k \in S
    BY <2>1
  <2>3. PICK d \in S : \A e \in S : d <= e
    <3> HIDE DEF S
    <3>1. S \subseteq Nat
      BY DEF S
    <3> QED BY <2>2, <3>1, SmallestOfNats
  <2>4. d # 0
    <3>1. i - 0 = i
      BY <2>1
    <3> QED BY <1>5, <3>1
  <2>5. d - 1 \in Nat /\ i - (d - 1) \in 2..i /\ i - (d - 1) = (i - d) + 1
    BY <2>1, <2>4
  <2>6. d - 1 \notin S
    BY <2>3, <2>5
  <2> DEFINE m == (i - d) + 1
  <2>7. history[m].rev \in C /\ m \in 2..n /\ m - 1 = i - d /\ m - 1 \in 2..n
    BY <1>0, <2>5, <2>6
  <2>8. revs[history[m].rev].parent = history[m - 1].rev /\ history[m - 1].rev # 0
    BY <1>1, <2>7, HistoryRevs
  <2>9. history[m - 1].rev \in C
    BY <1>5, <2>7, <2>8
  <2> QED BY <2>7, <2>9
<1>6. ASSUME NEW s \in Chain(history[i].rev) PROVE s \in H
  BY <1>2, <1>3, <1>4 DEF Chain
<1>7. ASSUME NEW s \in H PROVE s \in Chain(history[i].rev)
  <2>1. PICK k \in 2..i : s = history[k].rev
    OBVIOUS
  <2>2. \A C \in SUBSET DOMAIN revs : history[i].rev \in C /\ Closed(C) => s \in C
    BY <1>5, <2>1
  <2> QED BY <1>2, <2>2 DEF Chain
<1> QED BY <1>6, <1>7

\* The latest of a set of ids, when one is known to be.
LEMMA LatestIs ==
    ASSUME NEW S, S \subseteq Nat, NEW r \in S, \A s \in S : s <= r
    PROVE  Latest(S) = r
<1>1. Latest(S) \in S /\ \A s \in S : s <= Latest(S)
  BY DEF Latest
<1>2. Latest(S) \in Nat /\ r \in Nat /\ Latest(S) <= r /\ r <= Latest(S)
  BY <1>1
<1> QED BY <1>2

\* A member no other member is less than is the earliest.
LEMMA EarliestIs ==
    ASSUME NEW S, S \subseteq Nat, NEW r \in S, \A s \in S : r <= s
    PROVE  Earliest(S) = r
<1>1. Earliest(S) \in S /\ \A s \in S : Earliest(S) <= s
  BY DEF Earliest
<1>2. Earliest(S) \in Nat /\ r \in Nat /\ Earliest(S) <= r /\ r <= Earliest(S)
  BY <1>1
<1> QED BY <1>2

\* The snapshot of a landing is its tree, on the paths named up to it.
LEMMA SnapshotIsTree ==
    ASSUME TypeOK, Linear, TreesAreWritten, NEW i \in 1..Len(history), NEW x \in Path
    PROVE  \/ Snapshot(history[i].rev)[x] = history[i].tree[x] /\ history[i].tree[x] \in Object
           \/ Snapshot(history[i].rev)[x] = NoHash /\ history[i].tree[x] = TemplateTree[x]
<1> DEFINE n == Len(history)
           r == history[i].rev
           naming == IF r = 0 THEN {} ELSE Naming(Chain(r), x)
<1>0. n \in Nat \ {0}
  BY HistoryRevs
<1>1. Snapshot(r)[x] = IF naming = {} THEN NoHash ELSE revs[Latest(naming)].new[x]
  BY DEF Snapshot
<1>2. naming = {history[k].rev : k \in {k \in 2..i : Names(k, x)}}
  <2>1. CASE i = 1
    <3>1. r = 0 /\ 2..i = {}
      BY <2>1, HistoryRevs
    <3> QED BY <3>1
  <2>2. CASE i # 1
    <3>1. i \in 2..n
      BY <1>0, <2>2
    <3>2. r # 0
      BY <3>1, HistoryRevs
    <3>3. Chain(r) = {history[k].rev : k \in 2..i}
      BY <3>1, ChainIsHistory
    <3> QED BY <3>2, <3>3 DEF Naming, Names, Landed
  <2> QED BY <2>1, <2>2
<1>3. CASE \E k \in 2..i : LastToName(k, i, x) /\ history[i].tree[x] = Landed(k).new[x]
  <2>1. PICK k \in 2..i : LastToName(k, i, x) /\ history[i].tree[x] = Landed(k).new[x]
    BY <1>3
  <2>2. history[k].rev \in naming
    BY <1>2, <2>1 DEF LastToName
  <2>3. naming \subseteq Nat
    BY <1>0, <1>2, HistoryRevs
  <2>4. ASSUME NEW s \in naming PROVE s <= history[k].rev
    <3>1. PICK m \in 2..i : Names(m, x) /\ s = history[m].rev
      BY <1>2
    <3>2. m <= k
      BY <1>0, <2>1, <3>1 DEF LastToName
    <3>3. m \in 1..n /\ k \in 1..n
      BY <1>0
    <3>4. history[m].rev \in Nat /\ history[k].rev \in Nat
      BY <3>3, HistoryRevs
    <3>5. CASE m = k
      BY <3>1, <3>4, <3>5
    <3>6. CASE m # k
      <4>1. m < k
        BY <3>2, <3>3, <3>6
      <4>2. history[m].rev < history[k].rev
        BY <3>3, <4>1 DEF Linear, HistoryIsComplete
      <4> QED BY <3>1, <3>4, <4>2
    <3> QED BY <3>5, <3>6
  <2>5. Latest(naming) = history[k].rev
    <3> HIDE DEF naming
    <3> QED BY <2>2, <2>3, <2>4, LatestIs
  <2>6. Snapshot(r)[x] = Landed(k).new[x]
    BY <1>1, <2>2, <2>5 DEF Landed
  <2>7. Landed(k).new[x] \in Object
    <3>1. history[k].rev \in DOMAIN revs
      BY <1>0, HistoryRevs
    <3>2. Landed(k).new \in Changes
      BY <3>1 DEF Landed, TypeOK, Revision
    <3>3. x \in DOMAIN Landed(k).new
      BY <2>1 DEF LastToName, Names
    <3> QED BY <3>2, <3>3, ChangesType
  <2> QED BY <2>1, <2>6, <2>7
<1>4. CASE (\A k \in 2..i : ~Names(k, x)) /\ history[i].tree[x] = TemplateTree[x]
  <2>1. naming = {}
    BY <1>2, <1>4
  <2> QED BY <1>1, <1>4, <2>1
<1> QED BY <1>3, <1>4 DEF TreesAreWritten

\* The original content of a path a landing named is the template's.
LEMMA OriginalIsTemplate ==
    ASSUME TypeOK, Linear, Exact, NEW x \in Path, Touched(x)
    PROVE  OriginalContent(x) = Template[x]
<1> DEFINE n == Len(history)
           naming == Naming(Applied, x)
           S == {k \in 2..n : Names(k, x)}
<1>0. n \in Nat \ {0}
  BY HistoryRevs
<1>1. naming = {history[k].rev : k \in S}
  BY DEF Naming, Names, Landed, Linear, HistoryIsComplete
<1>2. S # {} /\ S \subseteq Nat
  BY <1>0, TouchedIsNamed
<1>3. PICK k \in S : \A m \in S : k <= m
  <2> HIDE DEF S
  <2> QED BY <1>2, SmallestOfNats
<1>4. naming \subseteq Nat /\ history[k].rev \in naming
  <2>1. 2..n \subseteq 1..n
    BY <1>0
  <2> QED BY <1>1, <2>1, HistoryRevs
<1>5. ASSUME NEW s \in naming PROVE history[k].rev <= s
  <2>1. PICK m \in S : s = history[m].rev
    BY <1>1
  <2>2. m \in 1..n /\ k \in 1..n /\ k <= m
    BY <1>0, <1>3
  <2>3. history[m].rev \in Nat /\ history[k].rev \in Nat
    BY <2>2, HistoryRevs
  <2>4. CASE m = k
    BY <2>1, <2>3, <2>4
  <2>5. CASE m # k
    <3>1. k < m
      BY <2>2, <2>5
    <3>2. history[k].rev < history[m].rev
      BY <2>2, <3>1 DEF Linear, HistoryIsComplete
    <3> QED BY <2>1, <2>3, <3>2
  <2> QED BY <2>4, <2>5
<1>6. Earliest(naming) = history[k].rev
  <2> HIDE DEF naming
  <2> QED BY <1>4, <1>5, EarliestIs
<1>7. OriginalContent(x) = Landed(k).previous[x]
  BY <1>4, <1>6 DEF OriginalContent, Landed
<1>8. Names(k, x) /\ \A m \in 2..k : m < k => ~Names(m, x)
  <2>1. ASSUME NEW m \in 2..k, m < k PROVE ~Names(m, x)
    <3>1. m \in 2..n /\ ~(k <= m)
      BY <1>0, <2>1
    <3> QED BY <1>3, <3>1
  <2> QED BY <2>1
<1> QED BY <1>7, <1>8 DEF Exact, FirstReplacesTheTemplate

\* What a restore aims at is the tree of one landing.
LEMMA HeldIsTree ==
    ASSUME TypeOK, Linear, NEW j \in 2..Len(history), NEW before \in BOOLEAN
    PROVE  \E i \in 1..Len(history) :
              /\ Held(j, before) = history[i].tree
              /\ history[i].rev = IF before THEN revs[history[j].rev].parent ELSE history[j].rev
<1>0. Len(history) \in Nat
  BY HistoryRevs
<1>1. revs[history[j].rev].parent = history[j - 1].rev
  BY DEF Linear, LinearHistory
<1>2. j \in 1..Len(history) /\ j - 1 \in 1..Len(history)
  BY <1>0
<1>3. CASE before
  BY <1>1, <1>2, <1>3 DEF Held
<1>4. CASE ~before
  BY <1>2, <1>4 DEF Held
<1> QED BY <1>3, <1>4

\* What stateFor finds for a landing, or for just before it.
LEMMA StateIsHeld ==
    ASSUME TypeOK, Linear, Exact, NEW j \in 2..Len(history), NEW before \in BOOLEAN, NEW x \in Path
    PROVE  /\ Touched(x) => StateFor(history[j].rev, before)[x] = Denotes(x, Held(j, before)[x])
           /\ ~Touched(x) => /\ StateFor(history[j].rev, before)[x] = Absent
                             /\ Held(j, before)[x] = TemplateTree[x]
<1> DEFINE r == history[j].rev
<1>0. /\ TemplateTree[x] = IF Template[x] = Absent THEN Absent ELSE NoHash
      /\ NoHash \notin Object /\ Absent # NoHash
  BY RevisionsAssumption DEF TemplateTree, Object
<1>1. PICK i \in 1..Len(history) :
         /\ Held(j, before) = history[i].tree
         /\ history[i].rev = IF before THEN revs[r].parent ELSE r
  BY HeldIsTree
<1>2. StateFor(r, before)[x] =
        IF Snapshot(history[i].rev)[x] = NoHash THEN OriginalContent(x)
        ELSE Snapshot(history[i].rev)[x]
  BY <1>1 DEF StateFor
<1>3. \/ Snapshot(history[i].rev)[x] = history[i].tree[x] /\ history[i].tree[x] \in Object
      \/ Snapshot(history[i].rev)[x] = NoHash /\ history[i].tree[x] = TemplateTree[x]
  BY SnapshotIsTree DEF Exact
<1>4. CASE Touched(x)
  <2>1. OriginalContent(x) = Template[x]
    BY <1>4, OriginalIsTemplate
  <2> QED BY <1>0, <1>1, <1>2, <1>3, <1>4, <2>1 DEF Denotes
<1>5. CASE ~Touched(x)
  <2>1. OriginalContent(x) = Absent
    BY <1>5 DEF OriginalContent, Touched
  <2>2. \A k \in 2..i : ~Names(k, x)
    <3>1. 2..i \subseteq 2..Len(history)
      BY HistoryRevs
    <3> QED BY <1>5, <3>1, TouchedIsNamed
  <2>3. history[i].tree[x] = TemplateTree[x]
    BY <2>2 DEF Exact, TreesAreWritten, LastToName
  <2>4. Snapshot(history[i].rev)[x] \in {NoHash, Absent}
    BY <1>0, <1>3, <2>3
  <2> QED BY <1>1, <1>2, <1>5, <2>1, <2>3, <2>4
<1> QED BY <1>4, <1>5

\* A tracked path a landing named is tracked still, or gone.
LEMMA TouchedIsTracked ==
    ASSUME TypeOK, Linear, Exact, NEW x \in Path, Touched(x)
    PROVE  HashTree[x] \in Object
<1> DEFINE n == Len(history)
<1>0. n \in 1..n
  BY HistoryRevs
<1>1. PICK k \in 2..n : LastToName(k, n, x) /\ history[n].tree[x] = Landed(k).new[x]
  BY <1>0, TouchedIsNamed DEF Exact, TreesAreWritten
<1>2. history[k].rev \in DOMAIN revs
  BY HistoryRevs
<1>3. Landed(k).new \in Changes
  BY <1>2 DEF Landed, TypeOK, Revision
<1>4. Landed(k).new[x] \in Object
  BY <1>1, <1>3, ChangesType DEF LastToName, Names
<1> QED BY <1>1, <1>4 DEF Linear, HistoryIsComplete

\* The changes a restore works out leave the project with what its target held.
LEMMA BeginRestoreAims ==
    ASSUME TypeOK, Linear, Exact, NEW j \in 2..Len(history), NEW before \in BOOLEAN,
           NEW state, state = StateFor(history[j].rev, before), NEW x \in Path
    PROVE  LET left == IF x \in DiffAgainstCurrent(state) THEN state[x] ELSE HashTree[x]
           IN  Denotes(x, left) = Denotes(x, Held(j, before)[x])
<1>0. /\ HashTree[x] = HashOf(files[x])
      /\ TemplateTree[x] = IF Template[x] = Absent THEN Absent ELSE NoHash
      /\ NoHash \notin Object /\ Absent # NoHash /\ Template[x] \in Object
  BY RevisionsAssumption DEF HashTree, TemplateTree, Object
<1>1. x \in DiffAgainstCurrent(state) <=>
        HashTree[x] # state[x] /\ (state[x] = Absent => HashTree[x] # NoHash)
  BY <1>0 DEF DiffAgainstCurrent
<1>2. CASE Touched(x)
  <2>1. state[x] = Denotes(x, Held(j, before)[x])
    BY <1>2, StateIsHeld
  <2>2. HashTree[x] \in Object
    BY <1>2, TouchedIsTracked
  <2>3. PICK d : d = Denotes(x, Held(j, before)[x])
    OBVIOUS
  <2>4. state[x] \in Object
    <3>1. PICK i \in 1..Len(history) : Held(j, before) = history[i].tree
      BY HeldIsTree
    <3>2. history[i].tree[x] \in Object \/ history[i].tree[x] = TemplateTree[x]
      BY SnapshotIsTree DEF Exact
    <3> QED BY <1>0, <2>1, <3>1, <3>2 DEF Denotes
  <2>5. (IF x \in DiffAgainstCurrent(state) THEN state[x] ELSE HashTree[x]) = state[x]
    BY <1>0, <1>1, <2>2
  <2>6. Denotes(x, state[x]) = state[x]
    BY <1>0, <2>4 DEF Denotes
  <2> QED BY <2>1, <2>5, <2>6
<1>3. CASE ~Touched(x)
  <2>1. state[x] = Absent /\ Held(j, before)[x] = TemplateTree[x]
    BY <1>3, StateIsHeld
  <2>2. HashTree[x] = TemplateTree[x]
    BY <1>3, UntouchedIsTemplate DEF Exact
  <2>3. x \notin DiffAgainstCurrent(state)
    BY <1>0, <1>1, <2>1, <2>2
  <2> QED BY <2>1, <2>2, <2>3
<1> QED BY <1>2, <1>3

\* What was to be restored stays what it was, as the history only grows.
LEMMA RestoresKept ==
    ASSUME TypeOK, Consistent, Linear, NEW a \in Actor, ActorStep(a),
           NEW tree, NEW restored, restored.target \in Rooted, restored.before \in BOOLEAN,
           Restores(tree, restored)
    PROVE  Restores(tree, restored)'
<1> DEFINE n == Len(history)
<1>0. n \in Nat \ {0} /\ \A i \in 1..n : history'[i] = history[i]
  BY HistorySteps
<1>1. ASSUME NEW j \in 2..Len(history'), history'[j].rev = restored.target
      PROVE  j \in 2..n
  <2>1. CASE ~ApplyAndAdvance(a)
    BY <2>1, HistorySteps
  <2>2. CASE ApplyAndAdvance(a)
    <3>1. Len(history') = n + 1 /\ history'[Len(history')].rev = pub[a].rev
      BY <2>2, HistorySteps
    <3>2. pub[a].rev \in DOMAIN revs /\ revs[pub[a].rev].status = "STAGING"
      BY <2>2 DEF ApplyAndAdvance, InFlight, At, Consistent, RequestsOwnTheirRevision
    <3>3. pub[a].rev \notin Rooted
      BY <3>2 DEF TypeOK, Rooted, Applied
    <3> QED BY <1>0, <1>1, <3>1, <3>3
  <2> QED BY <2>1, <2>2
<1>2. ASSUME NEW j \in 2..n PROVE Held(j, restored.before)' = Held(j, restored.before)
  <2>1. j \in 1..n /\ j - 1 \in 1..n
    BY <1>0
  <2> QED BY <1>0, <2>1 DEF Held
<1>3. ASSUME NEW j \in 2..Len(history'), history'[j].rev = restored.target, NEW x \in Path
      PROVE  Denotes(x, tree[x]) = Denotes(x, Held(j, restored.before)'[x])
  <2>1. j \in 2..n
    BY <1>1, <1>3
  <2>2. history[j].rev = restored.target
    BY <1>0, <1>3, <2>1
  <2>3. Denotes(x, tree[x]) = Denotes(x, Held(j, restored.before)[x])
    BY <2>1, <2>2 DEF Restores
  <2> QED BY <1>2, <2>1, <2>3
<1> QED BY <1>3 DEF Restores

\* A request a step leaves alone restores what it was to restore.
LEMMA RestoringKept ==
    ASSUME TypeOK, Consistent, Linear, NEW a \in Actor, ActorStep(a),
           NEW q \in Request, Restoring(q), ApplyAndAdvance(a) => q.parent # current',
           q.pc = "landed" => q.rev \in Applied
    PROVE  Restoring(q)'
<1>0. q.restored.before \in BOOLEAN /\ Applied \subseteq Rooted
  BY DEF Request, Rooted
<1>1. q.source = "RESTORE" => q.restored.target \in Applied /\ q.restored.target \in Applied'
  BY AppliedKept DEF Restoring, Consistent
<1>2. ASSUME q.source = "RESTORE", q.pc \in {"begun", "staging", "applying"}, q.parent = current'
      PROVE  Restores(Aim(q), q.restored)'
  <2>1. UNCHANGED <<current, HashTree>>
    BY <1>2, HistorySteps
  <2>2. PICK t : t = Aim(q)
    OBVIOUS
  <2>3. Aim(q)' = t
    BY <2>1, <2>2 DEF Aim
  <2>4. Restores(t, q.restored)
    BY <1>2, <2>1, <2>2 DEF Restoring
  <2>5. Restores(t, q.restored)'
    BY <1>0, <1>1, <1>2, <2>4, RestoresKept
  <2> QED BY <2>3, <2>5 DEF Restores
<1>3. ASSUME q.pc = "landed", NEW i \in 2..Len(history'), history'[i].rev = q.rev
      PROVE  Restores(history[i].tree, q.restored)'
  <2>1. i \in 2..Len(history) /\ history'[i] = history[i]
    <3>1. CASE ~ApplyAndAdvance(a)
      BY <3>1, HistorySteps
    <3>2. CASE ApplyAndAdvance(a)
      <4>1. history'[Len(history')].rev = pub[a].rev /\ Len(history') = Len(history) + 1
        BY <3>2, HistorySteps
      <4>2. pub[a].rev \in DOMAIN revs /\ revs[pub[a].rev].status = "STAGING"
        BY <3>2 DEF ApplyAndAdvance, InFlight, At, Consistent, RequestsOwnTheirRevision
      <4>3. pub[a].rev \notin Applied
        BY <4>2 DEF TypeOK, Applied
      <4>4. i # Len(history')
        BY <1>3, <4>1, <4>3
      <4>5. Len(history) \in Nat /\ \A k \in 1..Len(history) : history'[k] = history[k]
        BY HistorySteps
      <4> QED BY <4>1, <4>4, <4>5
    <3> QED BY <3>1, <3>2
  <2>2. PICK t : t = history[i].tree
    OBVIOUS
  <2>3. Restores(t, q.restored) /\ q.source = "RESTORE"
    BY <1>3, <2>1, <2>2 DEF Restoring
  <2>4. Restores(t, q.restored)'
    BY <1>0, <1>1, <2>3, RestoresKept
  <2> QED BY <2>1, <2>2, <2>4 DEF Restores
<1>4. q.pc = "landed" => q.source = "RESTORE"
  BY DEF Restoring
<1> QED BY <1>1, <1>2, <1>3, <1>4 DEF Restoring

\* The request of a step short of the publish point restores what it is to.
LEMMA OwnRestoring ==
    ASSUME TypeOK, Consistent, Linear, Replaced, Exact, RestoresAim,
           NEW a \in Actor, ActorStep(a), ~ApplyAndAdvance(a)
    PROVE  Restoring(pub'[a]) /\ pub'[a].pc # "landed"
<1> DEFINE q == pub[a]
           qq == pub'[a]
<1>0. /\ pub \in [Actor -> Request] /\ q \in Request
      /\ Idle.pc = "idle" /\ Idle.source # "RESTORE"
  BY DEF TypeOK, Idle
<1>1. Restoring(q)
  BY DEF RestoresAim
<1>2. CASE EndSave(a) \/ RefuseOrFailStaging(a) \/ Reject(a) \/ DatabaseThrows(a)
           \/ MarkVerdict(a) \/ RecordRestoreTarget(a)
  <2>1. qq = Idle
    BY <1>0, <1>2
       DEF EndSave, RefuseOrFailStaging, Reject, DatabaseThrows, MarkVerdict, RecordRestoreTarget
  <2> QED BY <1>0, <2>1 DEF Restoring
<1>3. CASE BeginBuild(a)
  <2>1. qq.source = "AI_GENERATION" /\ qq.pc = "begun"
    BY <1>0, <1>3 DEF BeginBuild, Idle
  <2> QED BY <2>1 DEF Restoring
<1>4. CASE OpenSave(a)
  <2>1. qq.source = "MANUAL_EDIT" /\ qq.pc = "opened"
    BY <1>0, <1>4 DEF OpenSave, Idle
  <2> QED BY <2>1 DEF Restoring
<1>5. CASE ChooseRestore(a)
  <2>1. PICK r \in Applied, before \in BOOLEAN :
          qq = [Idle EXCEPT !.pc = "chosen", !.source = "RESTORE", !.parent = current,
                            !.restored = [target |-> r, before |-> before]]
    BY <1>0, <1>5 DEF ChooseRestore
  <2>2. qq.pc = "chosen" /\ qq.restored = [target |-> r, before |-> before]
    BY <2>1 DEF Idle
  <2> QED BY <2>2 DEF Restoring
<1>6. CASE CheckSave(a)
  <2>1. qq.source = q.source /\ qq.pc = "checked" /\ q.pc = "opened"
    BY <1>0, <1>6 DEF CheckSave, Request, At
  <2> QED BY <2>1 DEF Restoring, Replaced, SourcesRecorded
<1>7. CASE BeginSave(a)
  <2>1. qq.source = q.source /\ qq.pc = "begun" /\ q.pc = "checked"
    BY <1>0, <1>7 DEF BeginSave, Request, At
  <2> QED BY <2>1 DEF Restoring, Replaced, SourcesRecorded
<1>8. CASE BeginRestore(a)
  <2>1. PICK state : /\ state = StateFor(q.restored.target, q.restored.before)
                     /\ qq.new = [x \in DiffAgainstCurrent(state) |-> state[x]]
    BY <1>0, <1>8 DEF BeginRestore, Request
  <2>2. qq.source = q.source /\ qq.pc = "begun" /\ qq.restored = q.restored /\ qq.parent = q.parent
    BY <1>0, <1>8 DEF BeginRestore, Request
  <2>3. q.restored.before \in BOOLEAN
    BY <1>0 DEF Request
  <2>4. Restores(Aim(qq), q.restored)
    <3> SUFFICES ASSUME NEW j \in 2..Len(history), history[j].rev = q.restored.target, NEW x \in Path
                 PROVE  Denotes(x, Aim(qq)[x]) = Denotes(x, Held(j, q.restored.before)[x])
      BY DEF Restores
    <3>1. Aim(qq)[x] = IF x \in DiffAgainstCurrent(state) THEN state[x] ELSE HashTree[x]
      BY <2>1 DEF Aim
    <3> QED BY <2>1, <2>3, <3>1, BeginRestoreAims
  <2>5. q.source = "RESTORE"
    BY <1>8 DEF BeginRestore, Replaced, SourcesRecorded
  <2> QED BY <1>1, <2>2, <2>4, <2>5 DEF Restoring
<1>9. CASE CheckSize(a) \/ (\E x \in Path : StageEntry(a, x))
  <2>1. CASE CheckSize(a)
    <3>1. /\ qq.source = q.source /\ qq.pc = "staging" /\ qq.restored = q.restored
          /\ qq.parent = q.parent /\ qq.new = q.new /\ q.pc = "begun"
      BY <1>0, <2>1 DEF CheckSize, Request, At
    <3> QED BY <1>1, <3>1 DEF Restoring, Aim
  <2>2. ASSUME NEW x \in Path, StageEntry(a, x) PROVE Restoring(qq) /\ qq.pc # "landed"
    <3>1. /\ qq.source = q.source /\ qq.pc = "staging" /\ qq.restored = q.restored
          /\ qq.parent = q.parent /\ qq.new = q.new /\ q.pc = "staging"
      BY <1>0, <2>2 DEF StageEntry, Request, At
    <3> QED BY <1>1, <3>1 DEF Restoring, Aim
  <2> QED BY <1>9, <2>1, <2>2
<1>10. CASE StageManifest(a)
  <2>1. /\ qq.source = q.source /\ qq.pc = "applying" /\ qq.restored = q.restored
        /\ qq.parent = q.parent /\ qq.new = q.new /\ q.pc = "staging"
    BY <1>0, <1>10 DEF StageManifest, Request, At
  <2> QED BY <1>1, <2>1 DEF Restoring, Aim
<1>11. CASE LoseRace(a)
  <2>1. /\ qq.source = q.source /\ qq.pc = "undoing" /\ qq.restored = q.restored
    BY <1>0, <1>11 DEF LoseRace, Request
  <2> QED BY <1>1, <2>1 DEF Restoring
<1>12. ASSUME NEW x \in Path,
              ApplyEntry(a, x) \/ ApplyEntryFails(a, x) \/ RollbackEntry(a, x) \/ RollbackEntryFails(a, x)
       PROVE  Restoring(qq) /\ qq.pc # "landed"
  <2>1. /\ qq.source = q.source /\ qq.restored = q.restored /\ qq.parent = q.parent /\ qq.new = q.new
        /\ (qq.pc = "applying" /\ q.pc = "applying") \/ qq.pc = "undoing"
    BY <1>0, <1>12 DEF ApplyEntry, ApplyEntryFails, RollbackEntry, RollbackEntryFails, Request, At
  <2> QED BY <1>1, <2>1 DEF Restoring, Aim
<1> QED BY <1>2, <1>3, <1>4, <1>5, <1>6, <1>7, <1>8, <1>9, <1>10, <1>11, <1>12 DEF ActorStep, Progress

\* A restore that lands leaves what its target held.
LEMMA LandedRestoring ==
    ASSUME TypeOK, Consistent, Linear, Replaced, RestoresAim, NEW a \in Actor, ApplyAndAdvance(a)
    PROVE  Restoring(pub[a])'
<1> DEFINE q == pub[a]
<1>0. /\ pub \in [Actor -> Request] /\ q \in Request /\ ActorStep(a)
      /\ Idle.pc = "idle" /\ Idle.source # "RESTORE"
  BY DEF TypeOK, Idle, ActorStep, Progress
<1>1. CASE pub'[a] = Idle
  BY <1>0, <1>1 DEF Restoring
<1>2. CASE q.source = "RESTORE" /\ pub'[a] = [q EXCEPT !.pc = "landed"]
  <2>1. /\ pub'[a].pc = "landed" /\ pub'[a].source = "RESTORE" /\ pub'[a].restored = q.restored
        /\ pub'[a].rev = q.rev
    BY <1>0, <1>2 DEF Request
  <2>2. q.restored.target \in Applied /\ q.restored.before \in BOOLEAN /\ Applied \subseteq Rooted
    BY <1>0, <1>2 DEF RestoresAim, Restoring, Request, Rooted
  <2>3. q.restored.target \in Applied'
    BY <1>0, <2>2, AppliedKept DEF Consistent
  <2>4. Restores(Aim(q), q.restored)
    BY <1>2 DEF RestoresAim, Restoring, ApplyAndAdvance, At, CasAdvances
  <2>5. PICK t : t = Aim(q)
    OBVIOUS
  <2>6. Restores(t, q.restored)'
    <3>1. Restores(t, q.restored)
      BY <2>4, <2>5
    <3>2. PICK restored : restored = q.restored
      OBVIOUS
    <3>3. restored.target \in Rooted /\ restored.before \in BOOLEAN
      BY <2>2, <3>2
    <3>4. Restores(t, restored)'
      BY <1>0, <3>1, <3>2, <3>3, RestoresKept
    <3>5. pub'[a].restored = restored
      BY <2>1, <3>2
    <3> QED BY <3>4, <3>5
  <2>7. \A x \in Path : HashTree'[x] = t[x]
    BY <2>5, LandingWrites DEF Aim
  <2>8. ASSUME NEW i \in 2..Len(history'), history'[i].rev = q.rev
        PROVE  Restores(history[i].tree, q.restored)'
    <3>1. i = Len(history')
      <4>1. q.rev \in DOMAIN revs /\ revs[q.rev].status = "STAGING"
        BY DEF ApplyAndAdvance, InFlight, At, Consistent, RequestsOwnTheirRevision
      <4>2. q.rev \notin Applied
        BY <4>1 DEF TypeOK, Applied
      <4>3. \A k \in 2..Len(history) : history[k].rev # q.rev
        BY <4>2 DEF Linear, HistoryIsComplete
      <4> QED BY <1>0, <2>8, <4>3, HistorySteps
    <3>2. history'[i].tree = HashTree'
      BY <1>0, <3>1, HistorySteps
    <3> QED BY <2>6, <2>7, <3>2 DEF Restores
  <2> QED BY <2>1, <2>3, <2>8 DEF Restoring
<1> QED BY <1>0, <1>1, <1>2 DEF ApplyAndAdvance

\* What a revision says it restored is written once, after it landed.
LEMMA LabelsStep ==
    ASSUME TypeOK, Consistent, Linear, RestoresAim, NEW a \in Actor, ActorStep(a),
           NEW r \in DOMAIN revs'
    PROVE  /\ revs'[r].restored.target \in Rooted'
           /\ revs'[r].status = "STAGING" => revs'[r].restored = NotRestored
<1>0. /\ revs \in Seq(Revision) /\ revs' \in Seq(Revision)
      /\ pub[a] \in Request
      /\ Rooted \subseteq Rooted' /\ 0 \in Rooted'
  BY ActorStepType, AppliedKept DEF TypeOK, Consistent, Rooted
<1>1. CASE r \notin DOMAIN revs
  <2>1. CASE StageManifest(a)
    <3>1. PICK q : revs' = Append(revs, q) /\ q.restored = NotRestored
      BY <2>1 DEF StageManifest
    <3>2. revs'[r].restored = NotRestored
      BY <1>0, <1>1, <3>1
    <3> QED BY <1>0, <3>2 DEF NotRestored
  <2>2. CASE ~StageManifest(a)
    <3>1. DOMAIN revs' = DOMAIN revs
      BY <1>0, <2>2 DEF ActorStep, Progress, BeginBuild, OpenSave, ChooseRestore, CheckSave,
        EndSave, BeginSave, BeginRestore, CheckSize, StageEntry, RefuseOrFailStaging, Reject, ApplyEntry,
        ApplyEntryFails, ApplyAndAdvance, LoseRace, DatabaseThrows, RollbackEntry,
        RollbackEntryFails, MarkVerdict, RecordRestoreTarget
    <3> QED BY <1>1, <3>1
  <2> QED BY <2>1, <2>2
<1>2. CASE r \in DOMAIN revs
  <2>0. /\ revs[r].restored.target \in Rooted
        /\ revs[r].status = "STAGING" => revs[r].restored = NotRestored
    BY <1>2 DEF RestoresAim
  <2>1. CASE RecordRestoreTarget(a) /\ r = pub[a].rev
    <3>1. At(a, "landed") /\ revs'[r].restored = pub[a].restored /\ revs'[r].status = revs[r].status
      BY <1>0, <1>2, <2>1 DEF RecordRestoreTarget, Revision
    <3>2. revs[r].status = "APPLIED"
      BY <2>1, <3>1 DEF Consistent, RequestsOwnTheirRevision, Applied
    <3>3. pub[a].restored.target \in Applied
      BY <3>1 DEF RestoresAim, Restoring, At
    <3> QED BY <1>0, <3>1, <3>2, <3>3 DEF Rooted
  <2>2. CASE ~(RecordRestoreTarget(a) /\ r = pub[a].rev)
    <3>1. revs'[r].restored = revs[r].restored
      BY <1>2, <2>2, SourcesKept
    <3>2. revs'[r].status = "STAGING" => revs[r].status = "STAGING"
      <4> SUFFICES ASSUME revs'[r].status = "STAGING", revs[r].status # "STAGING" PROVE FALSE
        OBVIOUS
      <4>1. ~(InFlight(a) /\ r = pub[a].rev)
        BY DEF Consistent, RequestsOwnTheirRevision
      <4> QED BY <1>2, <4>1, RevisionsKept DEF Consistent
    <3> QED BY <1>0, <2>0, <3>1, <3>2
  <2> QED BY <2>1, <2>2
<1> QED BY <1>1, <1>2

\* The landings that say what they restored have restored it.
LEMMA LabelledStep ==
    ASSUME TypeOK, Consistent, Linear, Linear', Replaced, RestoresAim, NEW a \in Actor, ActorStep(a)
    PROVE  (\A i \in 2..Len(history) : Restores(history[i].tree, Landed(i).restored))'
<1> DEFINE n == Len(history)
<1>0. /\ n \in Nat \ {0} /\ Len(history') \in Nat
      /\ \A i \in 1..n : history'[i] = history[i]
      /\ revs \in Seq(Revision) /\ pub[a] \in Request
  BY HistorySteps DEF TypeOK
<1> SUFFICES ASSUME NEW i \in 2..Len(history'), NEW t, t = history'[i].tree,
                    NEW l, l = revs'[history'[i].rev].restored
             PROVE  Restores(t, l)'
  BY DEF Landed
<1>1. CASE i \in 2..n
  <2>1. PICK r \in DOMAIN revs : r = history[i].rev
    BY <1>1, HistoryRevs
  <2>2. t = history[i].tree /\ l = revs'[r].restored
    BY <1>0, <1>1, <2>1
  <2>3. revs[r] \in Revision
    BY <1>0
  <2>4. CASE RecordRestoreTarget(a) /\ r = pub[a].rev
    <3>1. At(a, "landed") /\ revs'[r].restored = pub[a].restored
      BY <1>0, <2>3, <2>4 DEF RecordRestoreTarget, Revision
    <3>2. Restores(t, l) /\ l.target \in Applied
      BY <1>1, <2>1, <2>2, <2>4, <3>1 DEF RestoresAim, Restoring, At
    <3>3. l.target \in Rooted /\ l.before \in BOOLEAN
      BY <1>0, <2>2, <3>1, <3>2 DEF Request, Rooted
    <3> QED BY <3>2, <3>3, RestoresKept
  <2>5. CASE ~(RecordRestoreTarget(a) /\ r = pub[a].rev)
    <3>1. l = revs[r].restored
      BY <2>2, <2>5, SourcesKept
    <3>2. Restores(t, l)
      BY <1>1, <2>1, <2>2, <3>1 DEF RestoresAim, Landed
    <3>3. l.target \in Rooted /\ l.before \in BOOLEAN
      BY <2>3, <3>1 DEF RestoresAim, Revision
    <3> QED BY <3>2, <3>3, RestoresKept
  <2> QED BY <2>4, <2>5
<1>2. CASE i \notin 2..n
  <2>1. ApplyAndAdvance(a) /\ i = Len(history')
    BY <1>0, <1>2, HistorySteps
  <2>2. /\ pub[a].rev \in DOMAIN revs /\ revs[pub[a].rev].status = "STAGING"
        /\ ~RecordRestoreTarget(a)
    BY <2>1 DEF ApplyAndAdvance, InFlight, At, Consistent, RequestsOwnTheirRevision, RecordRestoreTarget
  <2>3. l = NotRestored
    <3>1. history'[i].rev = pub[a].rev
      BY <2>1, HistorySteps
    <3>2. revs'[pub[a].rev].restored = revs[pub[a].rev].restored
      BY <2>2, SourcesKept
    <3> QED BY <2>2, <3>1, <3>2 DEF RestoresAim
  <2>4. \A j \in 2..Len(history') : history'[j].rev # 0
    <3>1. /\ history'[1].rev = 0
          /\ \A j, k \in 1..Len(history') : j < k => history'[j].rev < history'[k].rev
      BY DEF Linear, HistoryIsComplete
    <3>2. \A j \in 2..Len(history') : 1 \in 1..Len(history') /\ j \in 1..Len(history') /\ 1 < j
      BY <1>0
    <3>3. \A j \in 2..Len(history') : 0 < history'[j].rev
      BY <3>1, <3>2
    <3> QED BY <3>3
  <2> QED BY <2>3, <2>4 DEF Restores, NotRestored
<1> QED BY <1>1, <1>2

\* Every step of an actor keeps restores aimed at what their target held.
LEMMA RestoresAimStep ==
    ASSUME TypeOK, Consistent, Linear, Linear', Replaced, Exact, RestoresAim,
           NEW a \in Actor, ActorStep(a)
    PROVE  RestoresAim'
<1>0. pub \in [Actor -> Request] /\ pub' \in [Actor -> Request]
  BY ActorStepType DEF TypeOK, Consistent
<1>1. ASSUME NEW b \in Actor PROVE Restoring(pub[b])'
  <2>1. CASE b = a /\ ApplyAndAdvance(a)
    BY <2>1, LandedRestoring
  <2>2. CASE ~(b = a /\ ApplyAndAdvance(a))
    <3>1. PICK q \in Request : q = pub'[b]
      BY <1>0
    <3>2. Restoring(q) /\ (q.pc = "landed" => q.rev \in Applied)
      <4>1. CASE b = a
        BY <2>2, <3>1, <4>1, OwnRestoring
      <4>2. CASE b # a
        <5>1. q = pub[b]
          BY <3>1, <4>2, OthersKeepTheirRequest
        <5> QED BY <5>1 DEF RestoresAim, Consistent, RequestsOwnTheirRevision, At
      <4> QED BY <4>1, <4>2
    <3>3. ApplyAndAdvance(a) => q.parent # current'
      BY <3>1, LandingIsNew
    <3>4. Restoring(q)'
      BY <3>2, <3>3, RestoringKept
    <3> QED BY <3>1, <3>4 DEF Restoring, Restores, Aim
  <2> QED BY <2>1, <2>2
<1>2. (\A r \in DOMAIN revs :
          /\ revs[r].restored.target \in Rooted
          /\ revs[r].status = "STAGING" => revs[r].restored = NotRestored)'
  BY LabelsStep
<1>3. (\A i \in 2..Len(history) : Restores(history[i].tree, Landed(i).restored))'
  BY LabelledStep
<1> QED BY <1>1, <1>2, <1>3 DEF RestoresAim

\* The template's tree is what the history starts with.
LEMMA ExactInit == Init => Exact /\ RestoresAim
<1> SUFFICES ASSUME Init PROVE Exact /\ RestoresAim
  OBVIOUS
<1>1. /\ \A a \in Actor : pub[a] = Idle
      /\ Idle.pc = "idle" /\ Idle.seen = NoRows /\ Idle.new = NoChange
      /\ Idle.source = "AI_GENERATION"
      /\ revs = <<>> /\ Len(history) = 1 /\ history[1].tree = HashTree
  BY DEF Init, Idle
<1>2. ASSUME NEW x \in Path PROVE HashTree[x] = TemplateTree[x]
  <2>1. CASE Template[x] = Absent
    BY <2>1 DEF Init, HashTree, HashOf, TemplateTree
  <2>2. CASE Template[x] # Absent
    <3>1. files[x] = [hash |-> NoHash, born |-> 0]
      BY <2>2 DEF Init
    <3>2. [hash |-> NoHash, born |-> 0] \in Row
      BY RevisionsAssumption DEF Row
    <3> QED BY <2>2, <3>1, <3>2, RevisionsAssumption DEF HashTree, HashOf, TemplateTree
  <2> QED BY <2>1, <2>2
<1>3. TreesAreWritten
  <2> SUFFICES ASSUME NEW i \in 1..Len(history), NEW x \in Path
               PROVE  (\A k \in 2..i : ~Names(k, x)) /\ history[i].tree[x] = TemplateTree[x]
    BY DEF TreesAreWritten
  <2>1. i = 1
    BY <1>1
  <2>2. 2..i = {}
    BY <2>1
  <2>3. history[i].tree[x] = TemplateTree[x]
    BY <1>1, <1>2, <2>1
  <2> QED BY <2>2, <2>3
<1>4. FirstReplacesTheTemplate /\ SavesAreOfFiles
  BY <1>1 DEF FirstReplacesTheTemplate, SavesAreOfFiles, NoRows, NoChange
<1>5. RestoresAim
  BY <1>1 DEF RestoresAim, Restoring
<1> QED BY <1>3, <1>4, <1>5 DEF Exact

\* Every step keeps restores exact, if no project row is written back and the
\* template is kept.
LEMMA ExactStep ==
    ASSUME Editors = {}, TemplateIsKept
    PROVE  /\ TypeOK /\ Consistent /\ Linear /\ Replaced /\ TemplateUncontended
           /\ Exact /\ RestoresAim /\ Linear' /\ [Next]_vars
           => Exact' /\ RestoresAim'
<1> SUFFICES ASSUME TypeOK, Consistent, Linear, Replaced, TemplateUncontended,
                    Exact, RestoresAim, Linear', [Next]_vars
             PROVE  Exact' /\ RestoresAim'
  OBVIOUS
<1>1. CASE UNCHANGED vars
  <2>1. Exact'
    BY <1>1 DEF vars, Exact, TreesAreWritten, FirstReplacesTheTemplate, SavesAreOfFiles, LastToName, Names,
      Landed, TemplateTree, Touched, Naming, Applied
  <2>2. RestoresAim'
    BY SMTT(60), <1>1 DEF vars, RestoresAim, Restoring, Restores, Aim, HashTree, Held, Landed, Applied, Rooted
  <2> QED BY <2>1, <2>2
<1>2. CASE Crash
  <2>1. /\ \A a \in Actor : pub'[a] = Idle
        /\ Idle.pc = "idle" /\ Idle.seen = NoRows /\ Idle.new = NoChange
        /\ Idle.source = "AI_GENERATION"
        /\ UNCHANGED <<current, files, revs, history>>
    BY <1>2 DEF Crash, Idle
  <2>2. TreesAreWritten' /\ FirstReplacesTheTemplate'
    BY <2>1 DEF Exact, TreesAreWritten, FirstReplacesTheTemplate, LastToName, Names, Landed, TemplateTree
  <2>3. SavesAreOfFiles'
    BY <2>1 DEF SavesAreOfFiles, NoRows, NoChange
  <2>4. RestoresAim'
    BY SMTT(60), <2>1 DEF RestoresAim, Restoring, Restores, Held, Landed, Applied, Rooted
  <2> QED BY <2>2, <2>3, <2>4 DEF Exact
<1>3. ASSUME NEW a \in Actor, ActorStep(a) PROVE Exact' /\ RestoresAim'
  <2>1. TreesAreWritten'
    BY <1>3, TreesAreWrittenStep DEF Exact, Replaced
  <2>2. FirstReplacesTheTemplate'
    BY <1>3, FirstReplacesStep
  <2>3. SavesAreOfFiles'
    BY <1>3, SavesAreOfFilesStep DEF Exact
  <2>4. RestoresAim'
    BY <1>3, RestoresAimStep
  <2> QED BY <2>1, <2>2, <2>3, <2>4 DEF Exact
<1> QED BY <1>1, <1>2, <1>3 DEF Next, ActorStep

\* stateFor finds, for a revision and for just before it, what the project held
\* then; and a restore that says what it restored has put exactly that back.
THEOREM RestoresStayExact ==
    ASSUME Editors = {}, TemplateIsKept
    PROVE  Spec => []RestoresAreExact
<1>1. Spec => []TemplateUncontended
  <2>1. CASE \E x \in Path : Template[x] # Absent
    <3>1. Faults \subseteq {"storage"}
      BY <2>1 DEF TemplateIsKept
    <3>2. Uncontended => TemplateUncontended
      BY DEF TemplateUncontended
    <3> QED BY <3>1, <3>2, AlwaysUncontended, PTL
  <2>2. CASE ~\E x \in Path : Template[x] # Absent
    <3>1. TemplateUncontended
      BY <2>2 DEF TemplateUncontended
    <3> QED BY <3>1, PTL
  <2> QED BY <2>1, <2>2
<1>2. Spec => []Replaced
  BY AlwaysLinear, ReplacedInit, ReplacedStep, PTL DEF Spec
<1>3. Spec => [](TypeOK /\ Consistent /\ Linear)
  BY AlwaysLinear
<1>4. Spec => [](Exact /\ RestoresAim)
  BY <1>1, <1>2, <1>3, ExactInit, ExactStep, PTL DEF Spec
<1>5. TypeOK /\ Linear /\ Exact /\ RestoresAim => RestoresAreExact
  <2> SUFFICES ASSUME TypeOK, Linear, Exact, RestoresAim PROVE RestoresAreExact
    OBVIOUS
  <2>1. RestorePointsAreExact
    <3> SUFFICES ASSUME NEW i \in 2..Len(history), NEW x \in Path, Touched(x)
                 PROVE  /\ StateFor(history[i].rev, FALSE)[x] = Denotes(x, history[i].tree[x])
                        /\ StateFor(history[i].rev, TRUE)[x] = Denotes(x, history[i - 1].tree[x])
      BY DEF RestorePointsAreExact
    <3>1. StateFor(history[i].rev, FALSE)[x] = Denotes(x, Held(i, FALSE)[x])
      BY StateIsHeld
    <3>2. StateFor(history[i].rev, TRUE)[x] = Denotes(x, Held(i, TRUE)[x])
      BY StateIsHeld
    <3> QED BY <3>1, <3>2 DEF Held
  <2>2. RestoreIsExact
    BY DEF RestoresAim, Restores, Landed, Held, RestoreIsExact
  <2> QED BY <2>1, <2>2 DEF RestoresAreExact
<1> QED BY <1>3, <1>4, <1>5, PTL

----------------------------------------------------------------------------
(* Capturing a project for a build that goes online *)

\* A capture leaves the project alone.
LEMMA CapturingIsPublishing ==
    CaptureSpec => Spec
<1>1. CaptureInit => Init
  BY DEF CaptureInit
<1>2. [CaptureNext]_captureVars => [Next]_vars
  BY DEF CaptureNext, CaptureStep, captureVars, StartCapture, ListFiles, ReadFile, ReadRevisionAgain
<1> QED BY <1>1, <1>2, PTL DEF CaptureSpec, Spec

\* The record of a capture is well typed.
LEMMA CaptureStepType ==
    ASSUME TypeOK, CaptureTypeOK, CaptureStep
    PROVE  CaptureTypeOK'
<1> USE DEF CaptureTypeOK
<1>0. /\ capture \in Capturing /\ current \in RevId /\ live \in [Path -> Object] /\ capture.attempt \in 0..3
      /\ NotCapturing.listed = {} /\ NotCapturing.got = [x \in Path |-> Absent]
      /\ NotCapturing \in Capturing
  BY RevisionsAssumption DEF TypeOK, Capturing, NotCapturing, RevId, Object
<1>1. \A n \in 0..3 : ReadRevision(n) \in Capturing
  BY <1>0 DEF ReadRevision, Capturing
<1>2. [NotCapturing EXCEPT !.pc = "failed"] \in Capturing
  BY <1>0 DEF Capturing
<1>3. CASE StartCapture
  BY <1>1, <1>3 DEF StartCapture
<1>4. CASE ListFiles
  BY <1>0, <1>4 DEF ListFiles, Capturing
<1>5. ASSUME NEW x \in Path, ReadFile(x) PROVE capture' \in Capturing
  <2>1. CASE live[x] = Absent
    BY <1>2, <1>5, <2>1 DEF ReadFile
  <2>2. CASE live[x] # Absent
    <3>1. capture' = [capture EXCEPT !.listed = @ \ {x}, !.got[x] = live[x]]
      BY <1>5, <2>2 DEF ReadFile
    <3>2. PICK got \in [Path -> Object] : got = [capture.got EXCEPT ![x] = live[x]]
      BY <1>0 DEF Capturing
    <3>3. capture' = [capture EXCEPT !.listed = @ \ {x}, !.got = got]
      BY <3>1, <3>2
    <3> QED BY <1>0, <3>3 DEF Capturing
  <2> QED BY <2>1, <2>2
<1>6. CASE ReadRevisionAgain
  <2>1. CASE SameRevision
    <3>1. capture' = [capture EXCEPT !.pc = "captured", !.unsettled = ~Settled]
      BY <1>6, <2>1 DEF ReadRevisionAgain
    <3>2. (~Settled) \in BOOLEAN
      BY DEF Settled
    <3> QED BY <1>0, <3>1, <3>2 DEF Capturing
  <2>2. CASE ~SameRevision /\ AttemptsLeft
    <3>1. capture.attempt + 1 \in 0..3
      BY <1>0, <2>2 DEF AttemptsLeft
    <3> QED BY <1>1, <1>6, <2>2, <3>1 DEF ReadRevisionAgain
  <2>3. CASE ~SameRevision /\ ~AttemptsLeft
    BY <1>2, <1>6, <2>3 DEF ReadRevisionAgain
  <2> QED BY <2>1, <2>2, <2>3
<1> QED BY <1>3, <1>4, <1>5, <1>6 DEF CaptureStep

\* Whatever publishes land meanwhile, at most three attempts are made, and what
\* is read is files of the project.
THEOREM CaptureIsWellTyped == CaptureSpec => []CaptureTypeOK
<1>1. CaptureInit => CaptureTypeOK
  BY RevisionsAssumption DEF CaptureInit, CaptureTypeOK, Capturing, NotCapturing, RevId, Object
<1>2. TypeOK /\ CaptureTypeOK /\ [CaptureNext]_captureVars => CaptureTypeOK'
  <2>1. CASE CaptureStep
    BY <2>1, CaptureStepType
  <2>2. CASE UNCHANGED capture
    BY <2>2 DEF CaptureTypeOK
  <2> QED BY <2>1, <2>2 DEF CaptureNext, captureVars
<1> QED BY <1>1, <1>2, TypeCorrect, CapturingIsPublishing, PTL DEF CaptureSpec

----------------------------------------------------------------------------
(* With nobody to race and nothing failing, a capture is one revision *)

\* A publish that starts to apply goes on to land.
LEMMA PublishesGoOnStep ==
    ASSUME Faults = {}, NEW me, Actor = {me},
           TypeOK, Consistent, PublishesGoOn, NEW a \in Actor, ActorStep(a)
    PROVE  PublishesGoOn'
<1> DEFINE Good(q) == /\ q.pc # "undoing"
                      /\ q.pc \in {"chosen", "begun", "staging", "applying"} => q.parent = current
<1>0. pub \in [Actor -> Request] /\ pub[a] \in Request /\ Idle.pc = "idle"
  BY DEF TypeOK, Idle
<1>1. Good(pub[a])
  BY DEF PublishesGoOn, At
<1>2. /\ ~LoseRace(a) /\ ~DatabaseThrows(a)
      /\ \A x \in Path : ~ApplyEntryFails(a, x) /\ ~RollbackEntryFails(a, x) /\ ~RollbackEntry(a, x)
      /\ ~MarkVerdict(a)
  BY <1>1 DEF LoseRace, CasAdvances, DatabaseThrows, ApplyEntryFails, RollbackEntryFails, RollbackEntry,
    MarkVerdict, At
<1>3. CASE ApplyAndAdvance(a)
  <2>1. pub'[a] = Idle \/ pub'[a] = [pub[a] EXCEPT !.pc = "landed"]
    BY <1>0, <1>3 DEF ApplyAndAdvance
  <2>2. pub'[a].pc \in {"idle", "landed"}
    BY <1>0, <2>1 DEF Request
  <2> QED BY <2>2 DEF PublishesGoOn, At
<1>4. CASE ~ApplyAndAdvance(a)
  <2>1. current' = current
    BY <1>4, Quiet
  <2>2. Good(pub'[a])
    <3>1. CASE BeginBuild(a) \/ ChooseRestore(a)
      <4>1. CASE BeginBuild(a)
        BY <1>0, <4>1 DEF BeginBuild, Idle
      <4>2. CASE ChooseRestore(a)
        BY <1>0, <4>2 DEF ChooseRestore, Idle
      <4> QED BY <3>1, <4>1, <4>2
    <3>2. CASE OpenSave(a)
      BY <1>0, <3>2 DEF OpenSave, Idle
    <3>3. CASE CheckSave(a)
      BY <1>0, <3>3 DEF CheckSave, Request
    <3>4. CASE BeginSave(a)
      BY <1>0, <3>4 DEF BeginSave, Request
    <3>5. CASE BeginRestore(a)
      BY <1>0, <1>1, <3>5 DEF BeginRestore, Request, At
    <3>6. CASE CheckSize(a)
      BY <1>0, <1>1, <3>6 DEF CheckSize, Request, At
    <3>7. CASE \E x \in Path : StageEntry(a, x)
      BY <1>0, <1>1, <3>7 DEF StageEntry, Request, At
    <3>8. CASE StageManifest(a)
      BY <1>0, <1>1, <3>8 DEF StageManifest, Request, At
    <3>9. CASE \E x \in Path : ApplyEntry(a, x)
      BY <1>0, <1>1, <3>9 DEF ApplyEntry, Request, At
    <3>10. CASE EndSave(a) \/ RefuseOrFailStaging(a) \/ Reject(a) \/ RecordRestoreTarget(a)
      BY <1>0, <3>10 DEF EndSave, RefuseOrFailStaging, Reject, RecordRestoreTarget
    <3> QED BY <1>2, <1>4, <3>1, <3>2, <3>3, <3>4, <3>5, <3>6, <3>7, <3>8, <3>9, <3>10
            DEF ActorStep, Progress
  <2> QED BY <2>1, <2>2 DEF PublishesGoOn, At
<1> QED BY <1>3, <1>4

\* What is being replaced stays so until the pointer moves.
LEMMA ReplacingGoesOn ==
    ASSUME Faults = {}, NEW me, Actor = {me},
           TypeOK, Consistent, Uncontended, PublishesGoOn, NEW a \in Actor, ActorStep(a),
           ~ApplyAndAdvance(a), NEW x \in Path, Replacing(x)
    PROVE  Replacing(x)'
<1>0. pub \in [Actor -> Request] /\ pub[a] \in Request
  BY DEF TypeOK
<1>1. InFlight(a) /\ x \in pub[a].undo /\ pub[a].pc = "applying"
  BY DEF Replacing, InFlight, PublishesGoOn, At
<1>2. /\ ~LoseRace(a) /\ ~DatabaseThrows(a)
      /\ \A y \in Path : ~ApplyEntryFails(a, y) /\ ~RollbackEntryFails(a, y) /\ ~RollbackEntry(a, y)
      /\ ~MarkVerdict(a)
  BY <1>1 DEF LoseRace, CasAdvances, DatabaseThrows, ApplyEntryFails, RollbackEntryFails, RollbackEntry,
    MarkVerdict, At, PublishesGoOn
<1>3. ~Reject(a)
  <2>1. pub[a].todo \cup pub[a].undo = DOMAIN pub[a].new /\ pub[a].todo \cap pub[a].undo = {}
    BY <1>1 DEF Uncontended, AppliedOrToDo, At
  <2> QED BY <1>1, <2>1 DEF Reject
<1>4. PICK y \in Path : ApplyEntry(a, y)
  BY <1>1, <1>2, <1>3 DEF ActorStep, Progress, At, BeginBuild, OpenSave, ChooseRestore, CheckSave, EndSave,
    BeginSave, BeginRestore, CheckSize, StageEntry, RefuseOrFailStaging, StageManifest, RecordRestoreTarget
<1>5. pub'[a].pc = "applying" /\ x \in pub'[a].undo
  BY <1>0, <1>1, <1>4 DEF ApplyEntry, Request, At
<1> QED BY <1>5 DEF Replacing, InFlight

\* A publish beside the capture leaves what was read what it was.
LEMMA PublishFollowed ==
    ASSUME Faults = {}, Editors = {}, NEW me, Actor = {me},
           TypeOK, Consistent, Linear, Uncontended, PublishesGoOn, CaptureFollows,
           NEW a \in Actor, ActorStep(a), UNCHANGED capture
    PROVE  CaptureFollows'
<1> DEFINE n == Len(history)
<1>0. /\ n \in Nat \ {0} /\ Len(history') \in Nat /\ history \in Seq(Landing) /\ history' \in Seq(Landing)
      /\ \A i \in 1..n : history'[i] = history[i]
      /\ Len(history') >= n
  <2>1. n \in Nat /\ (Len(history') = n \/ Len(history') = n + 1)
    BY HistorySteps
  <2>2. Len(history') >= n /\ n \in Nat \ {0} /\ Len(history') \in Nat
    BY <2>1, HistorySteps
  <2>3. \A i \in 1..n : history'[i] = history[i]
    BY HistorySteps
  <2>4. TypeOK'
    BY ActorStepType DEF Consistent
  <2>5. history \in Seq(Landing) /\ history' \in Seq(Landing)
    BY <2>4 DEF TypeOK
  <2> QED BY <2>2, <2>3, <2>5
<1>1. capture'.before \in {history'[i].rev : i \in DOMAIN history'}
  <2>1. PICK i \in 1..n : capture.before = history[i].rev
    BY <1>0 DEF CaptureFollows
  <2>2. i \in DOMAIN history' /\ history'[i] = history[i]
    BY <1>0
  <2> QED BY <2>1, <2>2
<1>2. capture'.pc = "listing" => capture'.got = NotCapturing.got
  BY DEF CaptureFollows
<1>3. ASSUME capture.pc = "reading", capture.before = current', NEW x \in Path
      PROVE  IF x \in capture.listed THEN files'[x] # Absent
             ELSE capture.got[x] = Denotes(x, HashOf(files'[x])) \/ Replacing(x)'
  <2>1. ~ApplyAndAdvance(a)
    <3> SUFFICES ASSUME ApplyAndAdvance(a) PROVE FALSE
      OBVIOUS
    <3>1. PICK i \in 1..n : capture.before = history[i].rev
      BY <1>0 DEF CaptureFollows
    <3>2. current' = pub[a].rev /\ pub[a].rev \notin Rooted
      <4>1. pub[a].rev \in DOMAIN revs /\ revs[pub[a].rev].status = "STAGING"
        BY DEF ApplyAndAdvance, InFlight, At, Consistent, RequestsOwnTheirRevision
      <4> QED BY <4>1 DEF ApplyAndAdvance, Rooted, Applied, TypeOK
    <3>3. history[i].rev \in Rooted
      <4>1. CASE i = 1
        BY <4>1 DEF Linear, HistoryIsComplete, Rooted
      <4>2. CASE i # 1
        <5>1. i \in 2..n
          BY <1>0, <4>2
        <5> QED BY <5>1 DEF Linear, HistoryIsComplete, Rooted
      <4> QED BY <4>1, <4>2
    <3> QED BY <1>3, <3>1, <3>2, <3>3
  <2>2. UNCHANGED <<current, files>>
    BY <2>1, Quiet
  <2>3. IF x \in capture.listed THEN files[x] # Absent
        ELSE capture.got[x] = Denotes(x, HashOf(files[x])) \/ Replacing(x)
    BY <1>3, <2>2 DEF CaptureFollows
  <2>4. Replacing(x) => Replacing(x)'
    BY <2>1, ReplacingGoesOn
  <2> QED BY <2>2, <2>3, <2>4
<1> QED BY <1>1, <1>2, <1>3 DEF CaptureFollows

\* A step of the capture reads what the rows say, or what is replacing it.
LEMMA CaptureStepFollows ==
    ASSUME NEW me, Actor = {me},
           TypeOK, CaptureTypeOK, Linear, Uncontended, CaptureFollows, CaptureStep
    PROVE  CaptureFollows'
<1> DEFINE n == Len(history)
           Follows1(c) ==
             /\ c.before \in {history[i].rev : i \in DOMAIN history}
             /\ c.pc = "listing" => c.got = NotCapturing.got
             /\ c.pc = "reading" /\ c.before = current =>
                   \A x \in Path :
                       IF x \in c.listed THEN files[x] # Absent
                       ELSE c.got[x] = Denotes(x, HashOf(files[x])) \/ Replacing(x)
<1>0. capture \in Capturing
  BY DEF CaptureTypeOK
<1>00. UNCHANGED vars
  BY DEF CaptureStep, StartCapture, ListFiles, ReadFile, ReadRevisionAgain
<1>01. DOMAIN history = 1..n /\ n \in Nat
  BY DEF TypeOK
<1>02. n # 0 /\ history[n].rev = current /\ history[1].rev = 0
  BY DEF Linear, LinearHistory, HistoryIsComplete
<1>03. /\ current \in {history[i].rev : i \in DOMAIN history}
       /\ 0 \in {history[i].rev : i \in DOMAIN history}
  <2>1. n \in DOMAIN history /\ 1 \in DOMAIN history
    BY <1>01, <1>02
  <2> QED BY <2>1, <1>02
<1>04. NotCapturing.before = 0 /\ NotCapturing.got = [x \in Path |-> Absent]
  BY DEF NotCapturing
<1>1. Follows1(capture)
  BY DEF CaptureFollows
<1>2. \A k : Follows1(ReadRevision(k))
  <2> SUFFICES ASSUME NEW k PROVE Follows1(ReadRevision(k))
    OBVIOUS
  <2>1. /\ ReadRevision(k).pc = "listing" /\ ReadRevision(k).before = current
        /\ ReadRevision(k).got = NotCapturing.got
    BY DEF ReadRevision, NotCapturing
  <2> QED BY <1>03, <2>1
<1>3. Follows1([NotCapturing EXCEPT !.pc = "failed"])
  <2>1. /\ [NotCapturing EXCEPT !.pc = "failed"].pc = "failed"
        /\ [NotCapturing EXCEPT !.pc = "failed"].before = 0
    BY DEF NotCapturing
  <2> QED BY <1>03, <2>1
<1>9. PICK c : c = capture'
  OBVIOUS
<1>4. ASSUME StartCapture PROVE Follows1(c)
  <2>1. c = ReadRevision(1)
    BY <1>4, <1>9 DEF StartCapture
  <2> HIDE DEF Follows1
  <2> QED BY <1>2, <2>1, Zenon
<1>5. ASSUME ListFiles PROVE Follows1(c)
  <2>1. /\ capture'.before = capture.before /\ capture'.pc = "reading" /\ capture'.got = capture.got
        /\ capture'.listed = {x \in Path : files[x] # Absent} /\ capture.pc = "listing"
    BY <1>0, <1>5 DEF ListFiles, Capturing
  <2>2. \A x \in Path : x \notin capture'.listed =>
          files[x] = Absent /\ capture'.got[x] = Absent /\ Denotes(x, HashOf(files[x])) = Absent
    BY <1>04, <1>1, <2>1, RevisionsAssumption DEF HashOf, Denotes
  <2>4. Follows1(c)
    <3>1. c.before \in {history[i].rev : i \in DOMAIN history} /\ c.pc = "reading"
      BY <1>1, <1>9, <2>1
    <3>2. ASSUME NEW x \in Path
          PROVE  IF x \in c.listed THEN files[x] # Absent
                 ELSE c.got[x] = Denotes(x, HashOf(files[x])) \/ Replacing(x)
      BY <1>9, <2>1, <2>2
    <3> QED BY <3>1, <3>2
  <2> QED BY <2>4
<1>6. ASSUME NEW x \in Path, ReadFile(x) PROVE Follows1(c)
  <2>1. CASE live[x] = Absent
    <3>1. c = [NotCapturing EXCEPT !.pc = "failed"]
      BY <1>6, <1>9, <2>1 DEF ReadFile
    <3> HIDE DEF Follows1
    <3> QED BY <1>3, <3>1, Zenon
  <2>2. CASE live[x] # Absent
    <3>1. capture' = [capture EXCEPT !.listed = @ \ {x}, !.got[x] = live[x]] /\ capture.pc = "reading"
      BY <1>6, <2>2 DEF ReadFile
    <3>2. PICK got : got = [capture.got EXCEPT ![x] = live[x]]
      OBVIOUS
    <3>3. capture' = [capture EXCEPT !.listed = @ \ {x}, !.got = got]
      BY <3>1, <3>2
    <3>4. /\ capture'.before = capture.before /\ capture'.pc = "reading"
          /\ capture'.listed = capture.listed \ {x} /\ capture'.got = got
      BY <1>0, <3>1, <3>3 DEF Capturing
    <3>5. got[x] = live[x] /\ \A y \in Path : y # x => got[y] = capture.got[y]
      BY <1>0, <3>2 DEF Capturing
    <3>6. live[x] = Denotes(x, HashOf(files[x])) \/ Replacing(x)
      <4>1. OnlyFor(x, me) /\ me \in Actor
        BY DEF OnlyFor
      <4>2. Follows(x, pub[me])
        BY <4>1 DEF Uncontended, PathsFollowTheirActor
      <4> QED BY <4>1, <4>2 DEF Follows, Faithful, Replacing, InFlight
    <3>7. ASSUME capture.before = current, NEW y \in Path
          PROVE  IF y \in capture'.listed THEN files[y] # Absent
                 ELSE capture'.got[y] = Denotes(y, HashOf(files[y])) \/ Replacing(y)
      <4>1. IF y \in capture.listed THEN files[y] # Absent
            ELSE capture.got[y] = Denotes(y, HashOf(files[y])) \/ Replacing(y)
        BY <1>1, <3>1, <3>7
      <4>2. CASE y = x
        BY <3>4, <3>5, <3>6, <4>2
      <4>3. CASE y # x
        BY <3>4, <3>5, <4>1, <4>3
      <4> QED BY <4>2, <4>3
    <3> QED BY <1>1, <1>9, <3>4, <3>7
  <2> QED BY <2>1, <2>2
<1>7. ASSUME ReadRevisionAgain PROVE Follows1(c)
  <2>1. CASE SameRevision
    <3>1. capture' = [capture EXCEPT !.pc = "captured", !.unsettled = ~Settled]
      BY <1>7, <2>1 DEF ReadRevisionAgain
    <3>2. capture'.before = capture.before /\ capture'.pc = "captured"
      BY <1>0, <3>1 DEF Capturing
    <3>4. Follows1(c)
      BY <1>1, <1>9, <3>2
    <3> QED BY <3>4
  <2>2. CASE ~SameRevision
    <3>1. (\E k : c = ReadRevision(k)) \/ c = [NotCapturing EXCEPT !.pc = "failed"]
      BY <1>7, <1>9, <2>2, Zenon DEF ReadRevisionAgain
    <3> HIDE DEF Follows1
    <3> QED BY <1>2, <1>3, <3>1, Zenon
  <2> QED BY <2>1, <2>2
<1>8. Follows1(c)
  <2> HIDE DEF Follows1
  <2> QED BY <1>4, <1>5, <1>6, <1>7 DEF CaptureStep
<1> QED BY <1>00, <1>8, <1>9 DEF CaptureFollows, vars, Replacing, InFlight, At

\* Ids name landings.
LEMMA TheLanding ==
    ASSUME NEW h, NEW i \in DOMAIN h, \A j, k \in DOMAIN h : h[j].rev = h[k].rev => j = k
    PROVE  (CHOOSE j \in DOMAIN h : h[j].rev = h[i].rev) = i
OBVIOUS

\* No two landings have the same id.
LEMMA LandingsDiffer ==
    ASSUME TypeOK, Linear
    PROVE  \A j, k \in DOMAIN history : history[j].rev = history[k].rev => j = k
<1>0. DOMAIN history = 1..Len(history) /\ Len(history) \in Nat
  BY DEF TypeOK
<1> SUFFICES ASSUME NEW j \in 1..Len(history), NEW k \in 1..Len(history),
                    history[j].rev = history[k].rev
             PROVE  j = k
  BY <1>0
<1>1. history[j].rev \in Nat /\ history[k].rev \in Nat
  BY HistoryRevs
<1>2. ~(j < k) /\ ~(k < j)
  <2>1. \A p, q \in 1..Len(history) : p < q => history[p].rev < history[q].rev
    BY DEF Linear, HistoryIsComplete
  <2>2. ~(history[j].rev < history[k].rev) /\ ~(history[k].rev < history[j].rev)
    BY <1>1
  <2> QED BY <2>1, <2>2
<1> QED BY <1>0, <1>2

\* Nothing is read in the initial state, and every publish goes on.
LEMMA CaptureFollowsInit ==
    CaptureInit => PublishesGoOn /\ CaptureFollows /\ CaptureIsOneRevision
<1> SUFFICES ASSUME CaptureInit PROVE PublishesGoOn /\ CaptureFollows /\ CaptureIsOneRevision
  OBVIOUS
<1>1. PublishesGoOn
  BY DEF CaptureInit, Init, Idle, PublishesGoOn, At
<1>2. capture.pc = "idle" /\ capture.before = 0
  BY DEF CaptureInit, NotCapturing
<1>3. 1 \in DOMAIN history /\ history[1].rev = 0
  BY DEF CaptureInit, Init
<1> QED BY <1>1, <1>2, <1>3 DEF CaptureFollows, CaptureIsOneRevision

\* What is read at the current revision, with nothing in flight, is the tree of
\* the last landing.
LEMMA CapturedAtCurrent ==
    ASSUME TypeOK, CaptureTypeOK, Linear, CaptureFollows, ReadRevisionAgain, SameRevision, Settled
    PROVE  capture'.got = HeldAt(capture'.before)
<1> DEFINE n == Len(history)
<1>0. n \in DOMAIN history /\ history[n].rev = current /\ history[n].tree = HashTree
  BY DEF TypeOK, Linear, LinearHistory, HistoryIsComplete
<1>1. (CHOOSE j \in DOMAIN history : history[j].rev = current) = n
  BY <1>0, LandingsDiffer, TheLanding
<1>2. capture'.before = current /\ capture'.got = capture.got /\ capture.got \in [Path -> Object]
  BY DEF ReadRevisionAgain, SameRevision, CaptureTypeOK, Capturing
<1>3. history' = history
  BY DEF ReadRevisionAgain, vars
<1>4. \A x \in Path : capture.got[x] = Denotes(x, HashOf(files[x]))
  <2>1. capture.pc = "reading" /\ capture.listed = {} /\ capture.before = current
    BY DEF ReadRevisionAgain, SameRevision
  <2>2. \A x \in Path : ~Replacing(x)
    BY DEF Settled, Replacing
  <2> QED BY <2>1, <2>2 DEF CaptureFollows
<1>5. capture.got = [x \in Path |-> Denotes(x, HashTree[x])]
  BY <1>2, <1>4 DEF HashTree
<1>6. HeldAt(current) = [x \in Path |-> Denotes(x, HashTree[x])]
  BY <1>0, <1>1 DEF HeldAt
<1> QED BY <1>2, <1>3, <1>5, <1>6 DEF HeldAt, Denotes

\* What was held at a revision stays what was held at it.
LEMMA HeldAtStays ==
    ASSUME Faults = {}, Editors = {}, TypeOK, Consistent, Linear, TypeOK',
           NEW a \in Actor, ActorStep(a), NEW i \in DOMAIN history, NEW r, r = history[i].rev,
           \A j, k \in DOMAIN history' : history'[j].rev = history'[k].rev => j = k
    PROVE  HeldAt(r)' = HeldAt(r)
<1>0. i \in DOMAIN history' /\ history'[i] = history[i]
  <2>1. DOMAIN history = 1..Len(history) /\ DOMAIN history' = 1..Len(history')
    BY DEF TypeOK
  <2>2. /\ Len(history) \in Nat \ {0} /\ Len(history') \in Nat
        /\ \A k \in 1..Len(history) : history'[k] = history[k]
    BY HistorySteps
  <2>3. Len(history') = Len(history) \/ Len(history') = Len(history) + 1
    BY HistorySteps
  <2>4. Len(history') >= Len(history)
    BY <2>2, <2>3
  <2>5. i \in 1..Len(history) /\ i \in 1..Len(history')
    <3>1. i \in 1..Len(history)
      BY <2>1
    <3> QED BY <2>2, <2>4, <3>1
  <2> QED BY <2>1, <2>2, <2>5
<1>1. (CHOOSE j \in DOMAIN history : history[j].rev = r) = i
  BY LandingsDiffer, TheLanding
<1>2. (CHOOSE j \in DOMAIN history' : history'[j].rev = r) = i
  <2>2. PICK h : h = history'
    OBVIOUS
  <2>3. (CHOOSE j \in DOMAIN h : h[j].rev = h[i].rev) = i
    BY <1>0, <2>2, TheLanding
  <2> QED BY <1>0, <2>2, <2>3
<1> QED BY <1>0, <1>1, <1>2 DEF HeldAt, Denotes

\* With nobody to race and nothing that fails, what a capture hands on is the
\* project as it was at the revision it is recorded under, however many publishes
\* of its one actor land while it is read (PublishSourceReader.capture).
THEOREM CaptureStaysOneRevision ==
    ASSUME Faults = {}, Editors = {}, NEW me, Actor = {me}
    PROVE  CaptureSpec => []CaptureIsOneRevision
<1> DEFINE Differ == \A j, k \in DOMAIN history : history[j].rev = history[k].rev => j = k
           Base == TypeOK /\ Consistent /\ Linear /\ Uncontended /\ CaptureTypeOK /\ Differ
           Here == PublishesGoOn /\ CaptureFollows /\ CaptureIsOneRevision
<1>1. CaptureSpec => []Base
  <2>1. Spec => []Uncontended
    BY AlwaysUncontended
  <2>2. TypeOK /\ Linear => Differ
    BY LandingsDiffer
  <2> QED BY <2>1, <2>2, CapturingIsPublishing, AlwaysLinear, CaptureIsWellTyped, PTL
<1>2. Base /\ Base' /\ Here /\ [CaptureNext]_captureVars => Here'
  <2> SUFFICES ASSUME Base, Base', Here, [CaptureNext]_captureVars PROVE Here'
    OBVIOUS
  <2>1. CASE CaptureStep
    <3>1. UNCHANGED vars
      BY <2>1 DEF CaptureStep, StartCapture, ListFiles, ReadFile, ReadRevisionAgain
    <3>2. PublishesGoOn'
      BY <3>1 DEF PublishesGoOn, At, vars
    <3>3. CaptureFollows'
      BY <2>1, CaptureStepFollows
    <3>4. ASSUME capture'.pc = "captured", ~capture'.unsettled
          PROVE  ReadRevisionAgain /\ SameRevision /\ Settled
      <4>1. ReadRevisionAgain /\ SameRevision
        BY <2>1, <3>4 DEF CaptureStep, StartCapture, ListFiles, ReadFile, ReadRevisionAgain, ReadRevision,
          NotCapturing, CaptureTypeOK, Capturing
      <4>2. capture'.unsettled = ~Settled
        BY <4>1 DEF ReadRevisionAgain, CaptureTypeOK, Capturing
      <4> QED BY <3>4, <4>1, <4>2
    <3>5. CaptureIsOneRevision'
      <4> SUFFICES ASSUME capture'.pc = "captured", ~capture'.unsettled
                   PROVE  capture'.got = HeldAt(capture'.before)
        BY <3>1 DEF CaptureIsOneRevision, HeldAt, Denotes, vars
      <4> QED BY <3>4, CapturedAtCurrent
    <3> QED BY <3>2, <3>3, <3>5
  <2>2. CASE Next /\ UNCHANGED capture
    <3>1. PICK a \in Actor : ActorStep(a)
      BY <2>2 DEF Next, ActorStep, Crash
    <3>2. PublishesGoOn'
      BY <3>1, PublishesGoOnStep
    <3>3. CaptureFollows'
      BY <2>2, <3>1, PublishFollowed
    <3>4. PICK i \in DOMAIN history : capture.before = history[i].rev
      BY DEF CaptureFollows
    <3>5. HeldAt(capture.before)' = HeldAt(capture.before)
      <4>1. PICK r : r = capture.before
        OBVIOUS
      <4>2. HeldAt(r)' = HeldAt(r)
        BY <3>1, <3>4, <4>1, HeldAtStays
      <4> QED BY <2>2, <4>1, <4>2 DEF HeldAt, Denotes
    <3>6. CaptureIsOneRevision'
      BY <2>2, <3>5 DEF CaptureIsOneRevision
    <3> QED BY <3>2, <3>3, <3>6
  <2>3. CASE UNCHANGED captureVars
    BY <2>3 DEF captureVars, vars, PublishesGoOn, At, CaptureFollows, Replacing, InFlight, CaptureIsOneRevision,
      HeldAt, Denotes
  <2> QED BY <2>1, <2>2, <2>3 DEF CaptureNext
<1>3. CaptureSpec => []Here
  BY <1>1, <1>2, CaptureFollowsInit, PTL DEF CaptureSpec
<1> QED BY <1>3, PTL
=============================================================================
