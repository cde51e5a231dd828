-------------------------- MODULE PublishingProofs --------------------------
(***************************************************************************)
(* Proofs about Publishing, for any number of apps, files and builds and    *)
(* with every request allowed.                                             *)
(*                                                                         *)
(* Three safety properties hold whatever fails, and rest on one inductive   *)
(* invariant about a row: build numbers are handed out in order, a build    *)
(* that was ended is not the one under way and never becomes it again, and  *)
(* what is live is older than the build under way.  That a live app is      *)
(* served needs more, Serving, and holds while no fault is worse than a     *)
(* storage call that throws, having done nothing.                          *)
(***************************************************************************)
EXTENDS Publishing, TLAPS

\* Build numbers only grow: what is live, and what was ended, was claimed.
RowsInOrder ==
    \A p \in App :
        /\ apps[p].live <= apps[p].build
        /\ apps[p].state = "BUILDING" => apps[p].live < apps[p].build
        /\ \A n \in ended[p] : n <= apps[p].build /\ ~Current(p, n)

\* The inductive invariant.
Invariant ==
    /\ TypeOK
    /\ RowsInOrder
    /\ EndedBuildsNeverGoLive
    /\ OneBuildUnderWay

\* Steps that leave the rows alone and start no thread.
Quiet ==
    /\ UNCHANGED <<apps, ended>>
    /\ \A p \in App, n \in Build : Active(p, n)' => Active(p, n)

----------------------------------------------------------------------------
(* Types *)

\* Replacing one thread keeps their type.
LEMMA ThreadPut ==
    ASSUME TypeOK, NEW p \in App, NEW n \in Build, NEW t \in Thread
    PROVE  [builder EXCEPT ![p][n] = t] \in [App -> [Build -> Thread]]
<1>1. builder[p] \in [Build -> Thread]
  BY DEF TypeOK
<1>2. [builder[p] EXCEPT ![n] = t] \in [Build -> Thread]
  BY <1>1
<1>3. QED
  BY <1>2 DEF TypeOK

\* Replacing one row keeps their type.
LEMMA RowPut ==
    ASSUME TypeOK, NEW p \in App, NEW row \in AppRow
    PROVE  [apps EXCEPT ![p] = row] \in [App -> AppRow]
BY DEF TypeOK

\* What the statements make of a row is a row.
LEMMA RowUpdates ==
    ASSUME NEW row \in AppRow, NEW status \in {"LIVE", "UNPUBLISHED"}, NEW live \in BuildId,
           NEW build \in BuildId, NEW state \in {"none", "BUILDING", "FAILED"},
           NEW retired \in BuildId
    PROVE  /\ [row EXCEPT !.status = status, !.live = live, !.state = state, !.retired = retired]
                  \in AppRow
           /\ [row EXCEPT !.state = state, !.build = build] \in AppRow
           /\ [row EXCEPT !.state = state] \in AppRow
           /\ [row EXCEPT !.retired = retired] \in AppRow
BY DEF AppRow

\* A row has the fields of a row.
LEMMA RowFields ==
    ASSUME TypeOK, NEW p \in App
    PROVE  /\ apps[p] \in AppRow
           /\ apps[p].live \in BuildId /\ apps[p].build \in BuildId /\ apps[p].retired \in BuildId
           /\ Retired(p) \in BuildId
BY DEF TypeOK, AppRow, Retired

\* A thread that goes on to another phase stays a thread.
LEMMA GoOnType ==
    ASSUME TypeOK, NEW p \in App, NEW n \in Build, NEW phase \in BuilderPhase, GoOn(p, n, phase)
    PROVE  /\ builder' \in [App -> [Build -> Thread]]
           /\ UNCHANGED <<publishing, taking, sharing, sweep>>
<1> DEFINE t == [builder[p][n] EXCEPT !.pc = phase]
<1>1. builder[p][n] \in Thread
  BY DEF TypeOK
<1>2. t \in Thread
  BY <1>1 DEF Thread
<1>3. builder' = [builder EXCEPT ![p][n] = t]
  BY DEF GoOn
<1> HIDE DEF t
<1>4. builder' \in [App -> [Build -> Thread]]
  BY <1>2, <1>3, ThreadPut
<1>5. QED
  BY <1>4 DEF GoOn

\* A sweep that goes on stays a sweep.
LEMMA SweepPut ==
    ASSUME TypeOK, NEW p \in App, NEW pc \in {"none", "deleting", "unpointing", "clearing"}
    PROVE  [sweep EXCEPT ![p].pc = pc] \in [App -> Sweep]
<1>1. sweep[p] \in Sweep
  BY DEF TypeOK
<1>2. [sweep[p] EXCEPT !.pc = pc] \in Sweep
  BY <1>1 DEF Sweep
<1>3. QED
  BY <1>2 DEF TypeOK

\* What a builder's thread does keeps every variable in its type.
LEMMA BuilderType ==
    ASSUME PublishingAssumption, TypeOK, NEW p \in App, NEW n \in Build,
           BuilderStep(p, n) \/ StorageThrows(p, n) \/ MarkLiveThrows(p, n) \/ DiscardThrows(p, n)
    PROVE  TypeOK'
<1> USE DEF PublishingAssumption
<1>1. CASE StartStoring(p, n)
  <2>1. builder' \in [App -> [Build -> Thread]]
    BY <1>1 DEF StartStoring, TypeOK, Thread, BuilderPhase
  <2>2. QED BY <1>1, <2>1 DEF StartStoring, TypeOK, rowsAndStorage
<1>2. CASE BuildFails(p, n)
  BY <1>2, GoOnType DEF BuildFails, BuilderPhase, TypeOK, rowsAndStorage
<1>3. CASE \E f \in File : StoreFile(p, n, f)
  <2>1. builder' \in [App -> [Build -> Thread]]
    <3>1. PICK f \in File : builder' = [builder EXCEPT ![p][n].todo = @ \ {f}]
      BY <1>3 DEF StoreFile
    <3> DEFINE t == [builder[p][n] EXCEPT !.todo = @ \ {f}]
    <3>2. builder[p][n] \in Thread
      BY DEF TypeOK
    <3>3. t \in Thread
      BY <3>2 DEF Thread
    <3>4. builder' = [builder EXCEPT ![p][n] = t]
      BY <3>1
    <3> HIDE DEF t
    <3>5. QED BY <3>3, <3>4, ThreadPut
  <2>2. stored' \in [App -> [Build -> SUBSET File]]
    BY <1>3 DEF StoreFile, TypeOK
  <2>3. QED BY <1>3, <2>1, <2>2 DEF StoreFile, TypeOK
<1>4. CASE Recheck(p, n)
  BY <1>4, GoOnType DEF Recheck, BuilderPhase, TypeOK, rowsAndStorage
<1>5. CASE FindOut(p, n)
  <2>1. Stopped(p, n) \in BuilderPhase
    BY DEF Stopped, BuilderPhase
  <2>2. QED BY <1>5, <2>1, GoOnType DEF FindOut, TypeOK, rowsAndStorage
<1>6. CASE WritePointer(p, n)
  <2>1. pointer' \in [App -> BuildId]
    BY <1>6 DEF WritePointer, TypeOK, BuildId, Build
  <2>2. QED BY <1>6, <2>1, GoOnType DEF WritePointer, BuilderPhase, TypeOK
<1>7. CASE MarkLive(p, n)
  <2>1. apps' \in [App -> AppRow]
    <3> DEFINE row == [apps[p] EXCEPT !.status = "LIVE", !.live = n, !.state = "none",
                                      !.retired = Retired(p)]
    <3>1. n \in BuildId
      BY DEF BuildId, Build
    <3>2. row \in AppRow
      BY <3>1, RowFields, RowUpdates
    <3>3. apps' = [apps EXCEPT ![p] = row]
      BY <1>7 DEF MarkLive
    <3> HIDE DEF row
    <3>4. QED BY <3>2, <3>3, RowPut
  <2>2. QED BY <1>7, <2>1, GoOnType DEF MarkLive, BuilderPhase, TypeOK
<1>8. CASE MarkLiveMisses(p, n)
  BY <1>8, GoOnType DEF MarkLiveMisses, BuilderPhase, TypeOK, rowsAndStorage
<1>9. CASE MarkFailed(p, n)
  <2>1. Stopped(p, n) \in BuilderPhase
    BY DEF Stopped, BuilderPhase
  <2>2. apps' \in [App -> AppRow]
    <3> DEFINE row == [apps[p] EXCEPT !.state = "FAILED"]
    <3>1. row \in AppRow
      BY RowFields, RowUpdates
    <3>2. apps' = [apps EXCEPT ![p] = row] \/ apps' = apps
      BY <1>9 DEF MarkFailed
    <3> HIDE DEF row
    <3>3. apps \in [App -> AppRow]
      BY DEF TypeOK
    <3>4. [apps EXCEPT ![p] = row] \in [App -> AppRow]
      BY <3>1, RowPut
    <3>5. QED BY <3>2, <3>3, <3>4
  <2>3. QED BY <1>9, <2>1, <2>2, GoOnType DEF MarkFailed, TypeOK
<1>10. CASE DiscardFiles(p, n)
  <2>1. stored' \in [App -> [Build -> SUBSET File]]
    BY <1>10 DEF DiscardFiles, TypeOK
  <2>2. QED BY <1>10, <2>1, GoOnType DEF DiscardFiles, BuilderPhase, TypeOK
<1>11. CASE DiscardReadsRow(p, n)
  BY <1>11, GoOnType DEF DiscardReadsRow, BuilderPhase, TypeOK, rowsAndStorage
<1>12. CASE DiscardPointer(p, n)
  <2>1. pointer' \in [App -> BuildId]
    BY <1>12 DEF DiscardPointer, TypeOK, BuildId
  <2>2. QED BY <1>12, <2>1, GoOnType DEF DiscardPointer, BuilderPhase, TypeOK
<1>13. CASE StorageThrows(p, n)
  <2>1. pointer' \in [App -> BuildId]
    <3>1. pointer' = pointer \/ pointer' = [pointer EXCEPT ![p] = n]
      BY <1>13 DEF StorageThrows
    <3>2. n \in BuildId /\ pointer \in [App -> BuildId]
      BY DEF TypeOK, BuildId, Build
    <3>3. [pointer EXCEPT ![p] = n] \in [App -> BuildId]
      BY <3>2
    <3>4. QED BY <3>1, <3>2, <3>3
  <2>2. QED BY <1>13, <2>1, GoOnType DEF StorageThrows, BuilderPhase, TypeOK
<1>14. CASE MarkLiveThrows(p, n)
  BY <1>14, GoOnType DEF MarkLiveThrows, BuilderPhase, TypeOK, rowsAndStorage
<1>15. CASE DiscardThrows(p, n)
  BY <1>15, GoOnType DEF DiscardThrows, BuilderPhase, TypeOK, rowsAndStorage
<1>16. QED
  BY <1>1, <1>2, <1>3, <1>4, <1>5, <1>6, <1>7, <1>8, <1>9, <1>10, <1>11, <1>12, <1>13, <1>14, <1>15
     DEF BuilderStep

\* So does what a request or the sweeper does.
LEMMA AppType ==
    ASSUME PublishingAssumption, TypeOK, RowsInOrder, NEW p \in App,
           \/ OpenPublish(p) \/ OpenUnpublish(p) \/ DeleteProject(p) \/ OpenSharing(p)
           \/ RequestStep(p) \/ DeletePointerThrows(p)
           \/ FailAbandoned(p) \/ SweepStep(p) \/ SweepThrows(p)
    PROVE  TypeOK'
<1> USE DEF PublishingAssumption
<1>1. CASE OpenPublish(p)
  BY <1>1 DEF OpenPublish, TypeOK, rowsAndStorage
<1>2. CASE OpenUnpublish(p)
  BY <1>2 DEF OpenUnpublish, TypeOK, rowsAndStorage
<1>3. CASE DeleteProject(p)
  BY <1>3 DEF DeleteProject, TypeOK
<1>4. CASE OpenSharing(p)
  <2>1. sharing' \in [App -> {"none", "on", "off"}]
    BY <1>4 DEF OpenSharing, TypeOK
  <2>2. QED BY <1>4, <2>1 DEF OpenSharing, TypeOK, rowsAndStorage
<1>5. CASE CheckAllowance(p)
  BY <1>5 DEF CheckAllowance, TypeOK, rowsAndStorage
<1>6. CASE ClaimBuild(p)
  <2>1. apps' \in [App -> AppRow]
    <3> DEFINE row == [apps[p] EXCEPT !.state = "BUILDING", !.build = apps[p].build + 1]
    <3>1. apps[p].build + 1 \in BuildId
      BY <1>6, RowFields DEF ClaimBuild, BuildId, Build
    <3>2. row \in AppRow
      BY <3>1, RowFields, RowUpdates
    <3>3. apps' = [apps EXCEPT ![p] = row]
      BY <1>6 DEF ClaimBuild
    <3> HIDE DEF row
    <3>4. QED BY <3>2, <3>3, RowPut
  <2>2. builder' \in [App -> [Build -> Thread]]
    <3> DEFINE n == apps[p].build + 1
               t == [builder[p][n] EXCEPT !.pc = "working"]
    <3>1. n \in Build
      BY <1>6 DEF ClaimBuild
    <3>2. builder' = [builder EXCEPT ![p][n] = t]
      BY <1>6 DEF ClaimBuild
    <3> HIDE DEF n
    <3>3. builder[p][n] \in Thread
      BY <3>1 DEF TypeOK
    <3>4. t \in Thread
      BY <3>3 DEF Thread, BuilderPhase
    <3> HIDE DEF t
    <3>5. QED BY <3>1, <3>2, <3>4, ThreadPut
  <2>3. QED BY <1>6, <2>1, <2>2 DEF ClaimBuild, TypeOK
<1>7. CASE RefuseClaim(p)
  BY <1>7 DEF RefuseClaim, TypeOK, rowsAndStorage
<1>8. CASE DeletePointer(p)
  BY <1>8 DEF DeletePointer, TypeOK, BuildId
<1>9. CASE DeletePointerThrows(p)
  <2>1. taking' \in [App -> {"none", "unpublish", "takeDown", "mark", "unshare"}]
    BY <1>9 DEF DeletePointerThrows, TypeOK
  <2>2. QED BY <1>9, <2>1 DEF DeletePointerThrows, TypeOK, rowsAndStorage
<1>10. CASE MarkUnpublished(p)
  <2>1. apps' \in [App -> AppRow]
    <3> DEFINE row == [apps[p] EXCEPT !.status = "UNPUBLISHED", !.live = 0, !.state = "none",
                                      !.retired = Retired(p)]
    <3>1. 0 \in BuildId
      BY DEF BuildId
    <3>2. row \in AppRow
      BY <3>1, RowFields, RowUpdates
    <3>3. apps' = [apps EXCEPT ![p] = row]
      BY <1>10 DEF MarkUnpublished, Unpublished
    <3> HIDE DEF row
    <3>4. QED BY <3>2, <3>3, RowPut
  <2>2. EndedNow(p) \subseteq Build
    BY RowFields DEF EndedNow, RowsInOrder, BuildId, Build
  <2>3. ended' \in [App -> SUBSET Build]
    BY <1>10, <2>2 DEF MarkUnpublished, TypeOK
  <2>4. QED BY <1>10, <2>1, <2>3 DEF MarkUnpublished, TypeOK
<1>11. CASE StopSharing(p)
  BY <1>11 DEF StopSharing, TypeOK
<1>12. CASE SetSharing(p)
  BY <1>12 DEF SetSharing, TypeOK
<1>13. CASE FailAbandoned(p)
  <2> DEFINE row == [apps[p] EXCEPT !.state = "FAILED"]
  <2>1. row \in AppRow
    BY RowFields, RowUpdates
  <2>2. apps' = [apps EXCEPT ![p] = row]
    BY <1>13 DEF FailAbandoned
  <2> HIDE DEF row
  <2>3. apps' \in [App -> AppRow]
    BY <2>1, <2>2, RowPut
  <2>4. apps[p].build \in Build
    BY <1>13, RowFields DEF FailAbandoned, RowsInOrder, BuildId, Build
  <2>5. ended' \in [App -> SUBSET Build]
    BY <1>13, <2>4 DEF FailAbandoned, TypeOK
  <2>6. QED BY <1>13, <2>3, <2>5 DEF FailAbandoned, TypeOK
<1>14. CASE SweepReads(p)
  <2>1. sweep' \in [App -> Sweep]
    BY <1>14 DEF SweepReads, Keep, TypeOK, Sweep, AppRow
  <2>2. QED BY <1>14, <2>1 DEF SweepReads, TypeOK, rowsAndStorage
<1>15. CASE SweepDeletes(p)
  <2>1. sweep' \in [App -> Sweep]
    BY <1>15, SweepPut DEF SweepDeletes
  <2>2. stored' \in [App -> [Build -> SUBSET File]]
    BY <1>15 DEF SweepDeletes, TypeOK
  <2>3. QED BY <1>15, <2>1, <2>2 DEF SweepDeletes, TypeOK
<1>16. CASE SweepUnpoints(p)
  <2>1. sweep' \in [App -> Sweep]
    BY <1>16, SweepPut DEF SweepUnpoints
  <2>2. QED BY <1>16, <2>1 DEF SweepUnpoints, TypeOK, BuildId
<1>17. CASE SweepClears(p)
  <2>1. apps' \in [App -> AppRow]
    <3> DEFINE row == [apps[p] EXCEPT !.retired = 0]
    <3>1. 0 \in BuildId
      BY DEF BuildId
    <3>2. row \in AppRow
      BY <3>1, RowFields, RowUpdates
    <3>3. apps' = [apps EXCEPT ![p] = row] \/ apps' = apps
      BY <1>17 DEF SweepClears
    <3> HIDE DEF row
    <3>4. apps \in [App -> AppRow]
      BY DEF TypeOK
    <3>5. [apps EXCEPT ![p] = row] \in [App -> AppRow]
      BY <3>2, RowPut
    <3>6. QED BY <3>3, <3>4, <3>5
  <2>2. sweep' \in [App -> Sweep]
    BY <1>17 DEF SweepClears, TypeOK, Sweep, NoSweep, BuildId
  <2>3. QED BY <1>17, <2>1, <2>2 DEF SweepClears, TypeOK
<1>18. CASE SweepThrows(p)
  <2>1. sweep' \in [App -> Sweep]
    BY <1>18 DEF SweepThrows, TypeOK, Sweep, NoSweep, BuildId
  <2>2. QED BY <1>18, <2>1 DEF SweepThrows, TypeOK, rowsAndStorage
<1>19. QED
  BY <1>1, <1>2, <1>3, <1>4, <1>5, <1>6, <1>7, <1>8, <1>9, <1>10, <1>11, <1>12, <1>13, <1>14,
     <1>15, <1>16, <1>17, <1>18
     DEF RequestStep, SweepStep

\* And so does a crash: every step keeps the types.
LEMMA StepType ==
    ASSUME PublishingAssumption, TypeOK, RowsInOrder, [Next]_vars
    PROVE  TypeOK'
<1>1. CASE Crash
  <2>1. builder' \in [App -> [Build -> Thread]]
    <3> DEFINE t(p, n) == [builder[p][n] EXCEPT !.pc = IF @ = "none" THEN "none" ELSE "done"]
    <3>1. ASSUME NEW p \in App, NEW n \in Build
          PROVE  t(p, n) \in Thread
      <4>1. builder[p][n] \in Thread
        BY DEF TypeOK
      <4>2. QED BY <4>1 DEF Thread, BuilderPhase
    <3>2. builder' = [p \in App |-> [n \in Build |-> t(p, n)]]
      BY <1>1 DEF Crash
    <3> HIDE DEF t
    <3>3. QED BY <3>1, <3>2
  <2>2. sweep' \in [App -> Sweep]
    BY <1>1 DEF Crash, NoSweep, Sweep, PublishingAssumption, BuildId
  <2>3. QED BY <1>1, <2>1, <2>2 DEF Crash, TypeOK, rowsAndStorage
<1>2. CASE UNCHANGED vars
  BY <1>2 DEF vars, TypeOK
<1>3. QED BY <1>1, <1>2, BuilderType, AppType DEF Next

----------------------------------------------------------------------------
(* The rows *)

\* Every step is quiet but those that change a row.
LEMMA StepKinds ==
    ASSUME TypeOK, [Next]_vars
    PROVE  \/ Quiet
           \/ \E p \in App :
                 \/ ClaimBuild(p) \/ MarkUnpublished(p) \/ FailAbandoned(p) \/ SweepClears(p)
                 \/ \E n \in Build : MarkLive(p, n) \/ MarkFailed(p, n)
<1>1. CASE UNCHANGED vars
  BY <1>1 DEF vars, Quiet, Active
<1>2. CASE Crash
  BY <1>2 DEF Crash, rowsAndStorage, Quiet, Active, TypeOK, Thread
<1>3. ASSUME NEW p \in App,
             \/ OpenPublish(p) \/ OpenUnpublish(p) \/ DeleteProject(p) \/ OpenSharing(p)
             \/ CheckAllowance(p) \/ RefuseClaim(p) \/ DeletePointer(p) \/ StopSharing(p)
             \/ SetSharing(p) \/ DeletePointerThrows(p) \/ SweepReads(p) \/ SweepDeletes(p)
             \/ SweepUnpoints(p) \/ SweepThrows(p)
      PROVE  Quiet
  <2>1. UNCHANGED <<apps, ended, builder>>
    BY <1>3 DEF OpenPublish, OpenUnpublish, DeleteProject, OpenSharing, CheckAllowance, RefuseClaim,
         DeletePointer, StopSharing, SetSharing, DeletePointerThrows, SweepReads, SweepDeletes,
         SweepUnpoints, SweepThrows, rowsAndStorage
  <2>2. QED BY <2>1 DEF Quiet, Active
<1>4. ASSUME NEW p \in App, NEW n \in Build,
             \/ StartStoring(p, n) \/ BuildFails(p, n) \/ (\E f \in File : StoreFile(p, n, f))
             \/ Recheck(p, n) \/ FindOut(p, n) \/ WritePointer(p, n) \/ MarkLiveMisses(p, n)
             \/ DiscardFiles(p, n) \/ DiscardReadsRow(p, n) \/ DiscardPointer(p, n)
             \/ StorageThrows(p, n) \/ MarkLiveThrows(p, n) \/ DiscardThrows(p, n)
      PROVE  Quiet
  <2>1. UNCHANGED <<apps, ended>>
    BY <1>4 DEF StartStoring, BuildFails, StoreFile, Recheck, FindOut, WritePointer, MarkLiveMisses,
         DiscardFiles, DiscardReadsRow, DiscardPointer, StorageThrows, MarkLiveThrows, DiscardThrows,
         rowsAndStorage
  <2>2. \E t : builder' = [builder EXCEPT ![p][n] = t] /\ (t.pc \in
              {"working", "storing", "pointing", "marking"} => Active(p, n))
    <3>1. CASE StartStoring(p, n)
      BY <3>1 DEF StartStoring, At, Active
    <3>2. CASE \E f \in File : StoreFile(p, n, f)
      BY <3>2 DEF StoreFile, At, Active, TypeOK, Thread
    <3>3. CASE ~StartStoring(p, n) /\ ~\E f \in File : StoreFile(p, n, f)
      <4>1. PICK phase : /\ GoOn(p, n, phase)
                         /\ phase \in {"pointing", "marking"} => Active(p, n)
                         /\ phase \notin {"working", "storing"}
        BY <1>4, <3>3 DEF BuildFails, Recheck, FindOut, WritePointer, MarkLiveMisses, DiscardFiles,
           DiscardReadsRow, DiscardPointer, StorageThrows, MarkLiveThrows, DiscardThrows, At, Active,
           Stopped
      <4>2. builder[p][n] \in Thread
        BY DEF TypeOK
      <4>3. [builder[p][n] EXCEPT !.pc = phase].pc = phase
        BY <4>2 DEF Thread
      <4>4. builder' = [builder EXCEPT ![p][n] = [builder[p][n] EXCEPT !.pc = phase]]
        BY <4>1 DEF GoOn
      <4>5. QED BY <4>1, <4>3, <4>4
    <3>4. QED BY <3>1, <3>2, <3>3
  <2>3. \A q \in App, m \in Build : Active(q, m)' => Active(q, m)
    BY <2>2 DEF Active, TypeOK, Thread
  <2>4. QED BY <2>1, <2>3 DEF Quiet
<1>5. QED
  BY <1>1, <1>2, <1>3, <1>4 DEF Next, RequestStep, SweepStep, BuilderStep
----------------------------------------------------------------------------
(* The invariant *)

\* Initially it holds.
LEMMA InitInvariant ==
    ASSUME PublishingAssumption, Init
    PROVE  Invariant
<1>1. TypeOK
  BY DEF PublishingAssumption, Init, TypeOK, AppRow, BuildId, Thread, NoThread, BuilderPhase, Sweep,
     NoSweep
<1>2. RowsInOrder /\ EndedBuildsNeverGoLive /\ OneBuildUnderWay
  BY DEF Init, RowsInOrder, EndedBuildsNeverGoLive, OneBuildUnderWay, Active, NoThread
<1>3. QED BY <1>1, <1>2 DEF Invariant

\* What a step may do to one row, as the invariant sees it: only the row of p
\* changes, and which builds are ended.
LEMMA OtherRows ==
    ASSUME TypeOK, NEW p \in App,
           \/ ClaimBuild(p) \/ MarkUnpublished(p) \/ FailAbandoned(p) \/ SweepClears(p)
           \/ \E n \in Build : MarkLive(p, n) \/ MarkFailed(p, n)
    PROVE  \A q \in App \ {p} : apps'[q] = apps[q] /\ ended'[q] = ended[q]
<1>1. apps \in [App -> AppRow] /\ ended \in [App -> SUBSET Build]
  BY DEF TypeOK
<1>2. CASE ClaimBuild(p) \/ SweepClears(p)
  BY <1>1, <1>2 DEF ClaimBuild, SweepClears
<1>3. CASE MarkUnpublished(p)
  BY <1>1, <1>3 DEF MarkUnpublished, Unpublished
<1>4. CASE FailAbandoned(p)
  BY <1>1, <1>4 DEF FailAbandoned
<1>5. CASE \E n \in Build : MarkLive(p, n) \/ MarkFailed(p, n)
  BY <1>1, <1>5 DEF MarkLive, MarkFailed
<1>6. QED
  BY <1>2, <1>3, <1>4, <1>5

\* The row of p after each statement that changes it.
LEMMA RowAfter ==
    ASSUME TypeOK, NEW p \in App
    PROVE  /\ ClaimBuild(p) =>
                  /\ apps'[p].live = apps[p].live /\ apps'[p].build = apps[p].build + 1
                  /\ apps'[p].state = "BUILDING" /\ ended'[p] = ended[p]
           /\ MarkUnpublished(p) =>
                  /\ apps'[p].live = 0 /\ apps'[p].build = apps[p].build
                  /\ apps'[p].state = "none" /\ ended'[p] = ended[p] \cup EndedNow(p)
           /\ FailAbandoned(p) =>
                  /\ apps'[p].live = apps[p].live /\ apps'[p].build = apps[p].build
                  /\ apps'[p].state = "FAILED" /\ ended'[p] = ended[p] \cup {apps[p].build}
           /\ SweepClears(p) =>
                  /\ apps'[p].live = apps[p].live /\ apps'[p].build = apps[p].build
                  /\ apps'[p].state = apps[p].state /\ ended'[p] = ended[p]
           /\ \A n \in Build : MarkLive(p, n) =>
                  /\ apps'[p].live = n /\ apps'[p].build = apps[p].build
                  /\ apps'[p].state = "none" /\ ended'[p] = ended[p]
           /\ \A n \in Build : MarkFailed(p, n) =>
                  /\ apps'[p].live = apps[p].live /\ apps'[p].build = apps[p].build
                  /\ apps'[p].state = apps[p].state \/ (Current(p, n) /\ apps'[p].state = "FAILED")
                  /\ ended'[p] = ended[p]
<1>1. apps[p] \in AppRow /\ apps \in [App -> AppRow] /\ ended \in [App -> SUBSET Build]
  BY DEF TypeOK
<1> DEFINE row == apps'[p]
           old == apps[p]
<1>2. ClaimBuild(p) => /\ row = [old EXCEPT !.state = "BUILDING", !.build = old.build + 1]
                       /\ ended'[p] = ended[p]
  BY <1>1 DEF ClaimBuild
<1>3. MarkUnpublished(p) =>
         /\ row = [old EXCEPT !.status = "UNPUBLISHED", !.live = 0, !.state = "none",
                              !.retired = Retired(p)]
         /\ ended'[p] = ended[p] \cup EndedNow(p)
  BY <1>1 DEF MarkUnpublished, Unpublished
<1>4. FailAbandoned(p) => /\ row = [old EXCEPT !.state = "FAILED"]
                          /\ ended'[p] = ended[p] \cup {old.build}
  BY <1>1 DEF FailAbandoned
<1>5. SweepClears(p) => (row = old \/ row = [old EXCEPT !.retired = 0]) /\ ended'[p] = ended[p]
  BY <1>1 DEF SweepClears
<1>6. \A n \in Build : MarkLive(p, n) =>
         /\ row = [old EXCEPT !.status = "LIVE", !.live = n, !.state = "none", !.retired = Retired(p)]
         /\ ended'[p] = ended[p]
  BY <1>1 DEF MarkLive
<1>7. \A n \in Build : MarkFailed(p, n) =>
         /\ row = old \/ (Current(p, n) /\ row = [old EXCEPT !.state = "FAILED"])
         /\ ended'[p] = ended[p]
  BY <1>1 DEF MarkFailed
<1>8. old \in AppRow
  BY <1>1
<1> HIDE DEF row, old
<1>9. ClaimBuild(p) =>
         /\ row.live = old.live /\ row.build = old.build + 1 /\ row.state = "BUILDING"
  BY <1>2, <1>8 DEF AppRow
<1>10. MarkUnpublished(p) => row.live = 0 /\ row.build = old.build /\ row.state = "none"
  BY <1>3, <1>8 DEF AppRow
<1>11. FailAbandoned(p) => row.live = old.live /\ row.build = old.build /\ row.state = "FAILED"
  BY <1>4, <1>8 DEF AppRow
<1>12. SweepClears(p) => row.live = old.live /\ row.build = old.build /\ row.state = old.state
  BY <1>5, <1>8 DEF AppRow
<1>13. \A n \in Build : MarkLive(p, n) =>
          row.live = n /\ row.build = old.build /\ row.state = "none"
  BY <1>6, <1>8 DEF AppRow
<1>14. \A n \in Build : MarkFailed(p, n) =>
          /\ row.live = old.live /\ row.build = old.build
          /\ row.state = old.state \/ (Current(p, n) /\ row.state = "FAILED")
  BY <1>7, <1>8 DEF AppRow
<1>15. QED
  BY <1>2, <1>3, <1>4, <1>5, <1>6, <1>7, <1>9, <1>10, <1>11, <1>12, <1>13, <1>14 DEF row, old

\* Every step keeps the build numbers in order.
LEMMA StepRows ==
    ASSUME PublishingAssumption, TypeOK, RowsInOrder, [Next]_vars
    PROVE  RowsInOrder'
<1>1. CASE Quiet
  BY <1>1 DEF Quiet, RowsInOrder, Current
<1>2. ASSUME NEW p \in App,
             \/ ClaimBuild(p) \/ MarkUnpublished(p) \/ FailAbandoned(p) \/ SweepClears(p)
             \/ \E n \in Build : MarkLive(p, n) \/ MarkFailed(p, n)
      PROVE  RowsInOrder'
  <2>1. SUFFICES ASSUME NEW q \in App
                 PROVE  /\ apps'[q].live <= apps'[q].build
                        /\ apps'[q].state = "BUILDING" => apps'[q].live < apps'[q].build
                        /\ \A n \in ended'[q] : n <= apps'[q].build /\ ~Current(q, n)'
    BY DEF RowsInOrder
  <2>2. CASE q # p
    BY <1>2, <2>2, OtherRows DEF RowsInOrder, Current
  <2>3. apps[p].live \in Nat /\ apps[p].build \in Nat /\ ended[p] \subseteq Nat
    BY RowFields DEF BuildId, Build, TypeOK, PublishingAssumption
  <2>4. ASSUME q = p, ClaimBuild(p)
        PROVE  /\ apps'[q].live <= apps'[q].build
               /\ apps'[q].state = "BUILDING" => apps'[q].live < apps'[q].build
               /\ \A n \in ended'[q] : n <= apps'[q].build /\ ~Current(q, n)'
    BY <2>3, <2>4, RowAfter DEF RowsInOrder, Current
  <2>5. CASE q = p /\ MarkUnpublished(p)
    BY <2>3, <2>5, RowAfter DEF RowsInOrder, Current, EndedNow
  <2>6. CASE q = p /\ FailAbandoned(p)
    BY <2>3, <2>6, RowAfter DEF RowsInOrder, Current
  <2>7. CASE q = p /\ SweepClears(p)
    BY <2>3, <2>7, RowAfter DEF RowsInOrder, Current
  <2>8. ASSUME q = p, NEW m \in Build, MarkLive(p, m)
        PROVE  /\ apps'[q].live <= apps'[q].build
               /\ apps'[q].state = "BUILDING" => apps'[q].live < apps'[q].build
               /\ \A n \in ended'[q] : n <= apps'[q].build /\ ~Current(q, n)'
    <3>1. m = apps[p].build
      BY <2>8 DEF MarkLive, Current
    <3>2. QED BY <2>3, <2>8, <3>1, RowAfter DEF RowsInOrder, Current
  <2>9. ASSUME q = p, NEW m \in Build, MarkFailed(p, m)
        PROVE  /\ apps'[q].live <= apps'[q].build
               /\ apps'[q].state = "BUILDING" => apps'[q].live < apps'[q].build
               /\ \A n \in ended'[q] : n <= apps'[q].build /\ ~Current(q, n)'
    BY <2>3, <2>9, RowAfter DEF RowsInOrder, Current
  <2>10. QED BY <1>2, <2>2, <2>4, <2>5, <2>6, <2>7, <2>8, <2>9
<1>3. QED BY <1>1, <1>2, StepKinds

\* Only the build under way goes live, and it was not ended.
LEMMA StepEnded ==
    ASSUME PublishingAssumption, TypeOK, RowsInOrder, EndedBuildsNeverGoLive, [Next]_vars
    PROVE  EndedBuildsNeverGoLive'
<1>1. CASE Quiet
  BY <1>1 DEF Quiet, EndedBuildsNeverGoLive
<1>2. ASSUME NEW p \in App,
             \/ ClaimBuild(p) \/ MarkUnpublished(p) \/ FailAbandoned(p) \/ SweepClears(p)
             \/ \E n \in Build : MarkLive(p, n) \/ MarkFailed(p, n)
      PROVE  EndedBuildsNeverGoLive'
  <2>1. SUFFICES ASSUME NEW q \in App
                 PROVE  apps'[q].live \notin ended'[q]
    BY DEF EndedBuildsNeverGoLive
  <2>2. CASE q # p
    BY <1>2, <2>2, OtherRows DEF EndedBuildsNeverGoLive
  <2>3. apps[p].live \in Nat /\ apps[p].build \in Nat /\ ended[p] \subseteq Build /\ 0 \notin Build
    BY RowFields DEF BuildId, Build, TypeOK, PublishingAssumption
  <2>4. CASE q = p /\ (ClaimBuild(p) \/ SweepClears(p) \/ \E n \in Build : MarkFailed(p, n))
    BY <2>4, RowAfter DEF EndedBuildsNeverGoLive
  <2>5. CASE q = p /\ MarkUnpublished(p)
    BY <2>3, <2>5, RowAfter DEF EndedNow, RowsInOrder
  <2>6. CASE q = p /\ FailAbandoned(p)
    <3>1. apps[p].live < apps[p].build
      BY <2>6 DEF FailAbandoned, RowsInOrder
    <3>2. QED BY <2>3, <2>6, <3>1, RowAfter DEF EndedBuildsNeverGoLive
  <2>7. CASE q = p /\ \E n \in Build : MarkLive(p, n)
    BY <2>7, RowAfter DEF MarkLive, RowsInOrder
  <2>8. QED BY <1>2, <2>2, <2>4, <2>5, <2>6, <2>7
<1>3. QED BY <1>1, <1>2, StepKinds

\* Phases of a thread after the steps that change a row.
LEMMA ThreadAfter ==
    ASSUME TypeOK, NEW p \in App
    PROVE  /\ ClaimBuild(p) =>
                  \A q \in App, n \in Build :
                     Active(q, n)' => Active(q, n) \/ (q = p /\ n = apps[p].build + 1)
           /\ MarkUnpublished(p) \/ FailAbandoned(p) \/ SweepClears(p) => UNCHANGED builder
           /\ \A m \in Build : MarkLive(p, m) \/ MarkFailed(p, m) =>
                  /\ \A q \in App, n \in Build : Active(q, n)' => Active(q, n)
                  /\ ~Active(p, m)'
<1>1. ClaimBuild(p) => \A q \in App, n \in Build :
             Active(q, n)' => Active(q, n) \/ (q = p /\ n = apps[p].build + 1)
  BY DEF ClaimBuild, Active, TypeOK
<1>2. MarkUnpublished(p) \/ FailAbandoned(p) \/ SweepClears(p) => UNCHANGED builder
  BY DEF MarkUnpublished, FailAbandoned, SweepClears
<1>3. ASSUME NEW m \in Build, MarkLive(p, m) \/ MarkFailed(p, m)
      PROVE  /\ \A q \in App, n \in Build : Active(q, n)' => Active(q, n)
             /\ ~Active(p, m)'
  <2>1. PICK phase \in {"done", "discarding"} : GoOn(p, m, phase)
    BY <1>3 DEF MarkLive, MarkFailed, Stopped
  <2>2. builder[p][m] \in Thread /\ builder \in [App -> [Build -> Thread]]
    BY DEF TypeOK
  <2>3. [builder[p][m] EXCEPT !.pc = phase].pc = phase
    BY <2>2 DEF Thread
  <2>4. builder' = [builder EXCEPT ![p][m] = [builder[p][m] EXCEPT !.pc = phase]]
    BY <2>1 DEF GoOn
  <2>5. QED BY <2>2, <2>3, <2>4 DEF Active
<1>4. QED BY <1>1, <1>2, <1>3

\* A build that can still win stays the one under way until it is done or ended.
LEMMA StepOneBuild ==
    ASSUME PublishingAssumption, TypeOK, RowsInOrder, OneBuildUnderWay, [Next]_vars
    PROVE  OneBuildUnderWay'
<1>1. CASE Quiet
  BY <1>1 DEF Quiet, OneBuildUnderWay, Current
<1>2. ASSUME NEW p \in App,
             \/ ClaimBuild(p) \/ MarkUnpublished(p) \/ FailAbandoned(p) \/ SweepClears(p)
             \/ \E n \in Build : MarkLive(p, n) \/ MarkFailed(p, n)
      PROVE  OneBuildUnderWay'
  <2>1. SUFFICES ASSUME NEW q \in App, NEW n \in Build, Active(q, n)', n \notin ended'[q]
                 PROVE  Current(q, n)'
    BY DEF OneBuildUnderWay
  <2>2. CASE q # p
    BY <1>2, <2>1, <2>2, OtherRows, ThreadAfter DEF OneBuildUnderWay, Current, Active
  <2>3. CASE q = p /\ ClaimBuild(p)
    <3>1. /\ ended'[p] = ended[p] /\ apps'[p].state = "BUILDING"
          /\ apps'[p].build = apps[p].build + 1
      BY <2>3, RowAfter
    <3>2. Active(p, n) \/ n = apps[p].build + 1
      BY <2>1, <2>3, ThreadAfter
    <3>3. apps[p].state # "BUILDING"
      BY <2>3 DEF ClaimBuild
    <3>4. ~Active(p, n)
      BY <2>1, <2>3, <3>1, <3>3 DEF OneBuildUnderWay, Current
    <3>5. QED
      BY <2>3, <3>1, <3>2, <3>4 DEF Current
  <2>4. CASE q = p /\ MarkUnpublished(p)
    BY <2>1, <2>4, RowAfter, ThreadAfter DEF OneBuildUnderWay, Current, Active, EndedNow
  <2>5. CASE q = p /\ FailAbandoned(p)
    BY <2>1, <2>5, RowAfter, ThreadAfter DEF OneBuildUnderWay, Current, Active
  <2>6. CASE q = p /\ SweepClears(p)
    BY <2>1, <2>6, RowAfter, ThreadAfter DEF OneBuildUnderWay, Current, Active
  <2>7. ASSUME q = p, NEW m \in Build, MarkLive(p, m)
        PROVE  FALSE
    <3>1. Active(p, n) /\ n # m
      BY <2>1, <2>7, ThreadAfter
    <3>2. ended'[p] = ended[p]
      BY <2>7, RowAfter
    <3>3. n \notin ended[p]
      BY <2>1, <2>7, <3>2
    <3>4. apps[p].build = n
      BY <3>1, <3>3 DEF OneBuildUnderWay, Current
    <3>5. apps[p].build = m
      BY <2>7 DEF MarkLive, Current
    <3>6. QED
      BY <3>1, <3>4, <3>5
  <2>8. ASSUME q = p, NEW m \in Build, MarkFailed(p, m)
        PROVE  Current(q, n)'
    <3>1. n # m /\ Current(p, n)
      BY <2>1, <2>8, RowAfter, ThreadAfter DEF OneBuildUnderWay
    <3>2. ~Current(p, m)
      BY <3>1 DEF Current
    <3>3. QED BY <2>8, <3>1, <3>2, RowAfter DEF Current
  <2>9. QED BY <1>2, <2>2, <2>3, <2>4, <2>5, <2>6, <2>7, <2>8
<1>3. QED BY <1>1, <1>2, StepKinds

\* What is live after a step is what was, nothing, or the newer build under way.
LEMMA StepAdvances ==
    ASSUME PublishingAssumption, TypeOK, RowsInOrder, [Next]_vars, NEW q \in App, apps'[q].live # 0
    PROVE  apps'[q].live >= apps[q].live
<1>1. apps[q].live \in Nat
  BY RowFields DEF BuildId, PublishingAssumption
<1>2. CASE Quiet
  BY <1>1, <1>2 DEF Quiet
<1>3. ASSUME NEW p \in App,
             \/ ClaimBuild(p) \/ MarkUnpublished(p) \/ FailAbandoned(p) \/ SweepClears(p)
             \/ \E n \in Build : MarkLive(p, n) \/ MarkFailed(p, n)
      PROVE  apps'[q].live >= apps[q].live
  <2>1. CASE q # p
    BY <1>1, <1>3, <2>1, OtherRows
  <2>2. CASE q = p /\ ~\E n \in Build : MarkLive(p, n)
    BY <1>1, <1>3, <2>2, RowAfter
  <2>3. ASSUME q = p, NEW n \in Build, MarkLive(p, n)
        PROVE  apps'[q].live >= apps[q].live
    <3>1. n = apps[p].build /\ apps[p].live < apps[p].build
      BY <2>3 DEF MarkLive, Current, RowsInOrder
    <3>2. apps[p].build \in Nat
      BY RowFields DEF BuildId, PublishingAssumption
    <3>3. QED BY <1>1, <2>3, <3>1, <3>2, RowAfter
  <2>4. QED BY <2>1, <2>2, <2>3
<1>4. QED BY <1>2, <1>3, StepKinds

\* The invariant is inductive.
LEMMA InvariantHolds == Spec => []Invariant
<1>1. Init => Invariant
  BY PublishingAssumption, InitInvariant
<1>2. Invariant /\ [Next]_vars => Invariant'
  BY PublishingAssumption, StepType, StepRows, StepEnded, StepOneBuild DEF Invariant
<1>3. QED
  BY <1>1, <1>2, PTL DEF Spec

----------------------------------------------------------------------------
(* Theorems *)

\* Every variable keeps its type, whatever is requested and whatever fails.
THEOREM TypeCorrect == Spec => []TypeOK
<1>1. Invariant => TypeOK
  BY DEF Invariant
<1>2. QED BY <1>1, InvariantHolds, PTL

\* A build that an unpublish, a deletion or the sweeper ended never goes live: the
\* conditional updates of the row keep its thread from writing over them.
THEOREM EndedBuildsStayEnded == Spec => []EndedBuildsNeverGoLive
<1>1. Invariant => EndedBuildsNeverGoLive
  BY DEF Invariant
<1>2. QED BY <1>1, InvariantHolds, PTL

\* Of the threads of an app at most the newest build's can still win.
THEOREM OneBuildAtATime == Spec => []OneBuildUnderWay
<1>1. Invariant => OneBuildUnderWay
  BY DEF Invariant
<1>2. QED BY <1>1, InvariantHolds, PTL

\* What the row says is live only moves on to newer builds, or is taken down.
THEOREM LiveAdvances == Spec => LiveOnlyAdvances
<1>1. Invariant /\ [Next]_vars =>
          [\A p \in App : apps'[p].live # 0 => apps'[p].live >= apps[p].live]_vars
  BY PublishingAssumption, StepAdvances DEF Invariant
<1>2. QED
  BY <1>1, InvariantHolds, PTL DEF Spec, LiveOnlyAdvances

----------------------------------------------------------------------------
(* What is live is served *)

\* An app whose row, threads, files, pointer and sweep are left alone stays in
\* order, unless the taking down of its pointer is forgotten.
LEMMA CalmStep ==
    ASSUME NEW p, AppInOrder(p), apps'[p] = apps[p], pointer'[p] = pointer[p], stored'[p] = stored[p],
           builder'[p] = builder[p], sweep'[p] = sweep[p], taking[p] = "mark" => taking'[p] = "mark"
    PROVE  AppInOrder(p)'
<1>1. \A n \in Build : ThreadInOrder(p, n)'
  BY DEF AppInOrder, ThreadInOrder, Busy, At, Current
<1>2. SweepInOrder(p)' /\ ServedUntilTaken(p)'
  BY DEF AppInOrder, SweepInOrder, ServedUntilTaken, Complete, At, Current
<1> QED BY <1>1, <1>2 DEF AppInOrder, Busy, At

\* A step is about one app.
LEMMA OtherApps ==
    ASSUME TypeOK, NEW p \in App,
           \/ OpenPublish(p) \/ OpenUnpublish(p) \/ DeleteProject(p) \/ OpenSharing(p)
           \/ RequestStep(p) \/ DeletePointerThrows(p)
           \/ FailAbandoned(p) \/ SweepStep(p) \/ SweepThrows(p)
           \/ \E n \in Build :
                 \/ BuilderStep(p, n)
                 \/ StorageThrows(p, n) \/ MarkLiveThrows(p, n) \/ DiscardThrows(p, n),
           NEW q \in App, q # p
    PROVE  /\ apps'[q] = apps[q] /\ pointer'[q] = pointer[q] /\ stored'[q] = stored[q]
           /\ builder'[q] = builder[q] /\ sweep'[q] = sweep[q] /\ taking'[q] = taking[q]
<1>1. CASE \/ OpenPublish(p) \/ OpenUnpublish(p) \/ DeleteProject(p) \/ OpenSharing(p)
           \/ RequestStep(p) \/ DeletePointerThrows(p)
  BY <1>1 DEF TypeOK, OpenPublish, OpenUnpublish, DeleteProject, OpenSharing, RequestStep, CheckAllowance,
    ClaimBuild, RefuseClaim, DeletePointer, MarkUnpublished, Unpublished, StopSharing, SetSharing,
    DeletePointerThrows, rowsAndStorage
<1>2. CASE FailAbandoned(p) \/ SweepStep(p) \/ SweepThrows(p)
  BY <1>2 DEF TypeOK, FailAbandoned, SweepStep, SweepReads, SweepDeletes, SweepUnpoints, SweepClears,
    SweepThrows, rowsAndStorage
<1>3. ASSUME NEW n \in Build,
             \/ BuilderStep(p, n)
             \/ StorageThrows(p, n) \/ MarkLiveThrows(p, n) \/ DiscardThrows(p, n)
      PROVE  /\ apps'[q] = apps[q] /\ pointer'[q] = pointer[q] /\ stored'[q] = stored[q]
             /\ builder'[q] = builder[q] /\ sweep'[q] = sweep[q] /\ taking'[q] = taking[q]
  <2>1. UNCHANGED <<sweep, taking>> /\ \E t : builder' = [builder EXCEPT ![p][n] = t]
    BY <1>3 DEF BuilderStep, StartStoring, BuildFails, StoreFile, Recheck, FindOut, WritePointer,
      MarkLive, MarkLiveMisses, MarkFailed, DiscardFiles, DiscardReadsRow, DiscardPointer, StorageThrows,
      MarkLiveThrows, DiscardThrows, GoOn
  <2>2. stored'[q] = stored[q]
    BY <1>3 DEF TypeOK, BuilderStep, StartStoring, BuildFails, StoreFile, Recheck, FindOut, WritePointer,
      MarkLive, MarkLiveMisses, MarkFailed, DiscardFiles, DiscardReadsRow, DiscardPointer, StorageThrows,
      MarkLiveThrows, DiscardThrows, rowsAndStorage
  <2>3. pointer'[q] = pointer[q]
    BY <1>3 DEF TypeOK, BuilderStep, StartStoring, BuildFails, StoreFile, Recheck, FindOut, WritePointer,
      MarkLive, MarkLiveMisses, MarkFailed, DiscardFiles, DiscardReadsRow, DiscardPointer, StorageThrows,
      MarkLiveThrows, DiscardThrows, rowsAndStorage
  <2>4. apps'[q] = apps[q]
    BY <1>3 DEF TypeOK, BuilderStep, StartStoring, BuildFails, StoreFile, Recheck, FindOut, WritePointer,
      MarkLive, MarkLiveMisses, MarkFailed, DiscardFiles, DiscardReadsRow, DiscardPointer, StorageThrows,
      MarkLiveThrows, DiscardThrows, rowsAndStorage
  <2> QED BY <2>1, <2>2, <2>3, <2>4 DEF TypeOK
<1> QED BY <1>1, <1>2, <1>3

\* Requests that only wait, count or share.
LEMMA RequestsKeepOrder ==
    ASSUME TypeOK, NEW p \in App, AppInOrder(p),
           \/ OpenPublish(p) \/ OpenUnpublish(p) \/ DeleteProject(p) \/ OpenSharing(p)
           \/ CheckAllowance(p) \/ RefuseClaim(p) \/ StopSharing(p) \/ SetSharing(p)
           \/ DeletePointerThrows(p)
    PROVE  AppInOrder(p)'
<1>1. UNCHANGED <<apps, pointer, stored, builder, sweep>>
  BY DEF OpenPublish, OpenUnpublish, DeleteProject, OpenSharing, CheckAllowance, RefuseClaim, StopSharing,
    SetSharing, DeletePointerThrows, rowsAndStorage
<1>2. taking[p] = "mark" => taking'[p] = "mark"
  BY DEF OpenPublish, OpenUnpublish, DeleteProject, OpenSharing, CheckAllowance, RefuseClaim, StopSharing,
    SetSharing, DeletePointerThrows, TypeOK
<1> QED BY <1>1, <1>2, CalmStep

\* Taking an app down.
LEMMA TakingKeepsOrder ==
    ASSUME PublishingAssumption, TypeOK, RowsInOrder, NEW p \in App, AppInOrder(p),
           DeletePointer(p) \/ MarkUnpublished(p)
    PROVE  AppInOrder(p)'
<1>1. CASE DeletePointer(p)
  <2>1. /\ UNCHANGED <<apps, stored, builder, sweep>> /\ taking'[p] = "mark"
    BY <1>1 DEF DeletePointer, TypeOK
  <2>2. \A n \in Build : ThreadInOrder(p, n)'
    BY <2>1 DEF AppInOrder, ThreadInOrder, Busy, At, Current
  <2>3. SweepInOrder(p)' /\ ServedUntilTaken(p)'
    BY <2>1 DEF AppInOrder, SweepInOrder, ServedUntilTaken
  <2> QED BY <2>1, <2>2, <2>3 DEF AppInOrder, Busy, At
<1>2. CASE MarkUnpublished(p)
  <2>1. /\ UNCHANGED <<pointer, stored, builder, sweep>>
        /\ apps'[p].status = "UNPUBLISHED" /\ apps'[p].live = 0 /\ apps'[p].state = "none"
        /\ apps'[p].build = apps[p].build
    BY <1>2, RowFields DEF MarkUnpublished, Unpublished, TypeOK, AppRow
  <2>2. 0 \notin Build
    BY DEF Build
  <2>3. \A n \in Build : ThreadInOrder(p, n)'
    BY <2>1, <2>2 DEF AppInOrder, ThreadInOrder, Busy, At, Current
  <2>4. SweepInOrder(p)' /\ ServedUntilTaken(p)'
    BY <2>1 DEF AppInOrder, SweepInOrder, ServedUntilTaken
  <2> QED BY <2>1, <2>3, <2>4 DEF AppInOrder, Busy, At
<1> QED BY <1>1, <1>2

\* A build is claimed only when none is under way.
LEMMA ClaimKeepsOrder ==
    ASSUME PublishingAssumption, TypeOK, RowsInOrder, NEW p \in App, AppInOrder(p), ClaimBuild(p)
    PROVE  AppInOrder(p)'
<1> DEFINE k == apps[p].build + 1
<1>1. /\ k \in Build /\ apps[p].state # "BUILDING" /\ apps[p].build \in Nat /\ apps[p].live \in Nat
      /\ apps[p].live < k
  BY RowFields DEF ClaimBuild, RowsInOrder, BuildId, PublishingAssumption, Build
<1>2. /\ UNCHANGED <<pointer, stored, sweep, taking>>
      /\ apps'[p].status = apps[p].status /\ apps'[p].live = apps[p].live
      /\ apps'[p].state = "BUILDING" /\ apps'[p].build = k
  BY RowFields DEF ClaimBuild, TypeOK, AppRow
<1>3. /\ builder'[p][k].pc = "working" /\ ~builder'[p][k].kept
      /\ \A n \in Build : n # k => builder'[p][n] = builder[p][n]
  <2>1. builder[p][k] \in Thread
    BY <1>1 DEF TypeOK
  <2>2. ~builder[p][k].kept
    BY <1>1 DEF AppInOrder, ThreadInOrder
  <2>3. builder'[p] = [builder[p] EXCEPT ![k].pc = "working"]
    BY DEF ClaimBuild, TypeOK
  <2> QED BY <1>1, <2>1, <2>2, <2>3 DEF TypeOK, Thread
<1>4. \A n \in Build : ThreadInOrder(p, n)'
  <2> SUFFICES ASSUME NEW n \in Build PROVE ThreadInOrder(p, n)'
    OBVIOUS
  <2>1. CASE n = k
    <3>1. /\ builder'[p][n].pc = "working" /\ ~builder'[p][n].kept /\ ~(n > apps'[p].build)
          /\ n # apps'[p].live
      BY <1>1, <1>2, <1>3, <2>1
    <3> QED BY <3>1 DEF ThreadInOrder, Busy, At, Current
  <2>2. CASE n # k
    <3>1. n > k => n > apps[p].build
      BY <1>1 DEF Build
    <3> QED BY <1>1, <1>2, <1>3, <2>2, <3>1 DEF AppInOrder, ThreadInOrder, Busy, At, Current
  <2> QED BY <2>1, <2>2
<1>5. SweepInOrder(p)'
  BY <1>2 DEF AppInOrder, SweepInOrder
<1>6. ServedUntilTaken(p)'
  <2>1. ~Current(p, pointer[p])
    BY <1>1 DEF Current
  <2> QED BY <1>2, <2>1 DEF AppInOrder, ServedUntilTaken, Complete
<1> QED BY <1>2, <1>3, <1>4, <1>5, <1>6 DEF AppInOrder, Busy, At

\* The sweeper's steps.
LEMMA SweepKeepsOrder ==
    ASSUME Faults \subseteq {"storage"}, PublishingAssumption, TypeOK, RowsInOrder, NEW p \in App,
           AppInOrder(p), FailAbandoned(p) \/ SweepStep(p) \/ SweepThrows(p)
    PROVE  AppInOrder(p)'
<1>1. CASE FailAbandoned(p)
  <2>1. /\ UNCHANGED <<pointer, stored, builder, sweep, taking>>
        /\ apps'[p].status = apps[p].status /\ apps'[p].live = apps[p].live
        /\ apps'[p].state = "FAILED" /\ apps'[p].build = apps[p].build
    BY <1>1 DEF FailAbandoned, TypeOK, AppRow
  <2>2. \A n \in Build : Current(p, n) => builder[p][n].pc \notin {"pointing", "marking"}
    BY <1>1 DEF FailAbandoned, Current
  <2>3. \A n \in Build : ThreadInOrder(p, n)'
    BY <2>1, <2>2 DEF AppInOrder, ThreadInOrder, Busy, At, Current
  <2>4. SweepInOrder(p)'
    BY <2>1 DEF AppInOrder, SweepInOrder
  <2>5. ServedUntilTaken(p)'
    <3>1. ASSUME apps[p].status = "LIVE", taking[p] # "mark"
          PROVE  Complete(p, pointer[p]) /\ pointer[p] = apps[p].live
      <4>1. pointer[p] \in Build
        BY <3>1 DEF AppInOrder, ServedUntilTaken, Complete, TypeOK, BuildId, Build, PublishingAssumption
      <4> QED BY <2>2, <3>1, <4>1 DEF AppInOrder, ServedUntilTaken, At
    <3> QED BY <2>1, <3>1 DEF ServedUntilTaken, Complete
  <2> QED BY <2>1, <2>3, <2>4, <2>5 DEF AppInOrder, Busy, At
<1>2. CASE SweepReads(p)
  <2>1. /\ UNCHANGED <<apps, pointer, stored, builder, taking>>
        /\ sweep'[p].pc = "deleting" /\ sweep'[p].keep = Keep(p)
        /\ sweep'[p].offline = (apps[p].status = "UNPUBLISHED" /\ apps[p].state = "none")
    BY <1>2 DEF SweepReads, TypeOK, rowsAndStorage
  <2>2. \A n \in Build : ThreadInOrder(p, n)'
    BY <2>1 DEF AppInOrder, ThreadInOrder, Busy, At, Current, Keep
  <2>3. SweepInOrder(p)'
    <3>1. apps[p].status = "UNPUBLISHED" /\ apps[p].state = "none" => Keep(p) = {}
      BY DEF AppInOrder, Keep, Current, Build
    <3>2. apps[p].status = "LIVE" => apps[p].live \in Keep(p)
      BY RowFields DEF AppInOrder, Keep, BuildId, Build, PublishingAssumption
    <3> QED BY <2>1, <3>1, <3>2 DEF SweepInOrder
  <2>4. ServedUntilTaken(p)'
    BY <2>1 DEF AppInOrder, ServedUntilTaken, Complete, At, Current
  <2> QED BY <2>1, <2>2, <2>3, <2>4 DEF AppInOrder, Busy, At
<1>3. CASE SweepDeletes(p)
  <2>1. /\ UNCHANGED <<apps, pointer, builder, taking>>
        /\ sweep[p].pc = "deleting"
        /\ sweep'[p].pc = IF sweep[p].offline THEN "unpointing" ELSE "clearing"
        /\ sweep'[p].keep = sweep[p].keep /\ sweep'[p].offline = sweep[p].offline
        /\ stored'[p] = [n \in Build |-> IF n \in sweep[p].keep THEN stored[p][n] ELSE {}]
    BY <1>3 DEF SweepDeletes, TypeOK, Sweep
  <2>2. \A n \in Build : ThreadInOrder(p, n)'
    BY <2>1 DEF AppInOrder, ThreadInOrder, Busy, At, Current
  <2>3. SweepInOrder(p)'
    BY <2>1 DEF AppInOrder, SweepInOrder
  <2>4. ServedUntilTaken(p)'
    <3>1. ASSUME apps[p].status = "LIVE", taking[p] # "mark"
          PROVE  pointer[p] \in sweep[p].keep /\ pointer[p] \in Build
      <4>1. pointer[p] \in Build
        BY <3>1 DEF AppInOrder, ServedUntilTaken, Complete, TypeOK, BuildId, Build, PublishingAssumption
      <4>2. CASE pointer[p] = apps[p].live
        BY <2>1, <3>1, <4>1, <4>2 DEF AppInOrder, SweepInOrder
      <4>3. CASE At(p, pointer[p], "marking") /\ Current(p, pointer[p])
        BY <2>1, <4>1, <4>3 DEF AppInOrder, ThreadInOrder, At
      <4> QED BY <3>1, <4>1, <4>2, <4>3 DEF AppInOrder, ServedUntilTaken
    <3> QED BY <2>1, <3>1 DEF AppInOrder, ServedUntilTaken, Complete, At, Current
  <2> QED BY <2>1, <2>2, <2>3, <2>4 DEF AppInOrder, Busy, At
<1>4. CASE SweepUnpoints(p)
  <2>1. /\ UNCHANGED <<apps, stored, builder, taking>>
        /\ sweep[p].pc = "unpointing" /\ sweep'[p].pc = "clearing"
        /\ sweep'[p].keep = sweep[p].keep /\ sweep'[p].offline = sweep[p].offline
    BY <1>4 DEF SweepUnpoints, TypeOK, Sweep
  <2>2. sweep[p].keep = {} /\ apps[p].status = "UNPUBLISHED"
    BY <2>1 DEF AppInOrder, SweepInOrder
  <2>3. \A n \in Build : ThreadInOrder(p, n)'
    BY <2>1, <2>2 DEF AppInOrder, ThreadInOrder, Busy, At, Current
  <2>4. SweepInOrder(p)' /\ ServedUntilTaken(p)'
    BY <2>1, <2>2 DEF AppInOrder, SweepInOrder, ServedUntilTaken
  <2> QED BY <2>1, <2>3, <2>4 DEF AppInOrder, Busy, At
<1>5. CASE SweepClears(p) \/ SweepThrows(p)
  <2>1. /\ UNCHANGED <<pointer, stored, builder, taking>>
        /\ sweep'[p].pc = "none"
        /\ apps'[p].status = apps[p].status /\ apps'[p].live = apps[p].live
        /\ apps'[p].state = apps[p].state /\ apps'[p].build = apps[p].build
    BY <1>5 DEF SweepClears, SweepThrows, TypeOK, AppRow, NoSweep, rowsAndStorage
  <2>2. \A n \in Build : ThreadInOrder(p, n)'
    BY <2>1 DEF AppInOrder, ThreadInOrder, Busy, At, Current
  <2>3. SweepInOrder(p)' /\ ServedUntilTaken(p)'
    BY <2>1 DEF AppInOrder, SweepInOrder, ServedUntilTaken, Complete, At, Current
  <2> QED BY <2>1, <2>2, <2>3 DEF AppInOrder, Busy, At
<1> QED BY <1>1, <1>2, <1>3, <1>4, <1>5 DEF SweepStep

\* A thread that goes on keeps what it carries.
LEMMA ThreadMoves ==
    ASSUME TypeOK, NEW p \in App, NEW n \in Build, NEW phase, GoOn(p, n, phase)
    PROVE  /\ builder'[p][n].pc = phase
           /\ builder'[p][n].todo = builder[p][n].todo /\ builder'[p][n].kept = builder[p][n].kept
           /\ \A m \in Build : m # n => builder'[p][m] = builder[p][m]
           /\ UNCHANGED <<sweep, taking>>
<1>1. builder[p][n] \in Thread
  BY DEF TypeOK
<1>2. builder'[p] = [builder[p] EXCEPT ![n] = [builder[p][n] EXCEPT !.pc = phase]]
  BY DEF GoOn, TypeOK
<1> QED BY <1>1, <1>2 DEF GoOn, TypeOK, Thread

\* A thread that goes on to a phase in which it is not about to write or delete
\* the pointer, with nothing else changed.
LEMMA MovingOn ==
    ASSUME TypeOK, NEW p \in App, AppInOrder(p), NEW n \in Build, NEW phase, GoOn(p, n, phase),
           UNCHANGED <<apps, pointer, stored>>, ~At(p, n, "marking") \/ ~Current(p, n),
           builder[p][n].pc # "none", phase \in {"failing", "discarding", "checking", "unpointing", "done"},
           phase = "unpointing" => apps[p].status = "UNPUBLISHED",
           phase \in {"discarding", "checking", "unpointing"} => builder[p][n].kept,
           ~At(p, n, "done")
    PROVE  AppInOrder(p)'
<1>1. /\ builder'[p][n].pc = phase /\ builder'[p][n].kept = builder[p][n].kept
      /\ \A m \in Build : m # n => builder'[p][m] = builder[p][m]
      /\ UNCHANGED <<sweep, taking>>
  BY ThreadMoves
<1>2. \A m \in Build : ThreadInOrder(p, m)'
  BY <1>1 DEF AppInOrder, ThreadInOrder, Busy, At, Current
<1>3. \A m \in Build : Busy(p, m)' => Busy(p, m)
  BY <1>1 DEF Busy, At
<1>4. SweepInOrder(p)'
  BY <1>1 DEF AppInOrder, SweepInOrder
<1>5. ServedUntilTaken(p)'
  <2>1. pointer[p] \in Build /\ At(p, pointer[p], "marking") /\ Current(p, pointer[p]) =>
            At(p, pointer[p], "marking")'
    BY <1>1 DEF At
  <2>2. Complete(p, pointer[p]) => pointer[p] \in Build
    BY DEF Complete, TypeOK, BuildId, Build
  <2> QED BY <1>1, <2>1, <2>2 DEF AppInOrder, ServedUntilTaken, Complete, Current
<1> QED BY <1>2, <1>3, <1>4, <1>5 DEF AppInOrder

\* The steps of a thread that stops, fails or discards what it stored.
LEMMA StoppingKeepsOrder ==
    ASSUME Faults \subseteq {"storage"}, PublishingAssumption, TypeOK, RowsInOrder, NEW p \in App,
           AppInOrder(p), NEW n \in Build,
           \/ BuildFails(p, n) \/ FindOut(p, n) \/ MarkLiveMisses(p, n) \/ DiscardReadsRow(p, n)
           \/ DiscardThrows(p, n) \/ StorageThrows(p, n)
    PROVE  AppInOrder(p)'
<1>1. builder[p][n] \in Thread /\ ThreadInOrder(p, n)
  BY DEF TypeOK, AppInOrder
<1>2. UNCHANGED <<apps, pointer, stored>>
  BY DEF BuildFails, FindOut, MarkLiveMisses, DiscardReadsRow, DiscardThrows, StorageThrows, rowsAndStorage
<1>3. CASE BuildFails(p, n)
  BY <1>2, <1>3, MovingOn DEF BuildFails, At
<1>4. CASE FindOut(p, n)
  <2>1. Stopped(p, n) \in {"discarding", "done"} /\ (Stopped(p, n) = "discarding" => builder[p][n].kept)
    BY DEF Stopped
  <2> QED BY <1>2, <1>4, <2>1, MovingOn DEF FindOut, At
<1>5. CASE MarkLiveMisses(p, n)
  BY <1>1, <1>2, <1>5, MovingOn DEF MarkLiveMisses, At, ThreadInOrder
<1>6. CASE DiscardReadsRow(p, n)
  <2>1. builder[p][n].kept
    BY <1>1, <1>6 DEF DiscardReadsRow, At, ThreadInOrder
  <2> QED BY <1>2, <1>6, <2>1, MovingOn DEF DiscardReadsRow, At
<1>7. CASE DiscardThrows(p, n)
  BY <1>2, <1>7, MovingOn DEF DiscardThrows, At
<1>8. CASE StorageThrows(p, n)
  BY <1>2, <1>8, MovingOn DEF StorageThrows, At
<1> QED BY <1>3, <1>4, <1>5, <1>6, <1>7, <1>8

\* A failed build is marked so, if it is the one under way.
LEMMA FailingKeepsOrder ==
    ASSUME Faults \subseteq {"storage"}, PublishingAssumption, TypeOK, RowsInOrder, NEW p \in App,
           AppInOrder(p), NEW n \in Build, MarkFailed(p, n)
    PROVE  AppInOrder(p)'
<1>1. /\ At(p, n, "failing") /\ Stopped(p, n) \in {"discarding", "done"}
      /\ Stopped(p, n) = "discarding" => builder[p][n].kept
      /\ UNCHANGED <<pointer, stored>>
  BY DEF MarkFailed, Stopped
<1>2. /\ builder'[p][n].pc = Stopped(p, n) /\ builder'[p][n].kept = builder[p][n].kept
      /\ \A m \in Build : m # n => builder'[p][m] = builder[p][m]
      /\ UNCHANGED <<sweep, taking>>
  BY ThreadMoves DEF MarkFailed
<1>3. /\ apps'[p].status = apps[p].status /\ apps'[p].live = apps[p].live
      /\ apps'[p].build = apps[p].build
      /\ \A m \in Build : m # n => Current(p, m)' = Current(p, m)
  BY DEF MarkFailed, Current, TypeOK, AppRow
<1>4. ASSUME NEW m \in Build PROVE ThreadInOrder(p, m)'
  <2>1. CASE m = n
    BY <1>1, <1>2, <1>3, <2>1 DEF AppInOrder, ThreadInOrder, Busy, At
  <2>2. CASE m # n
    BY <1>1, <1>2, <1>3, <2>2 DEF AppInOrder, ThreadInOrder, Busy, At
  <2> QED BY <2>1, <2>2
<1>5. \A m \in Build : Busy(p, m)' => Busy(p, m)
  BY <1>1, <1>2 DEF Busy, At
<1>6. SweepInOrder(p)'
  BY <1>2, <1>3 DEF AppInOrder, SweepInOrder
<1>7. ServedUntilTaken(p)'
  <2>1. Complete(p, pointer[p]) => pointer[p] \in Build
    BY DEF Complete, TypeOK, BuildId, Build
  <2>2. pointer[p] \in Build /\ At(p, pointer[p], "marking") /\ Current(p, pointer[p]) =>
            At(p, pointer[p], "marking")' /\ Current(p, pointer[p])'
    BY <1>1, <1>2, <1>3 DEF At
  <2> QED BY <1>1, <1>2, <1>3, <2>1, <2>2 DEF AppInOrder, ServedUntilTaken, Complete
<1> QED BY <1>3, <1>4, <1>5, <1>6, <1>7 DEF AppInOrder

\* A thread starts to store only when no older one, and no sweep of an older row,
\* is still at work.
LEMMA StartingKeepsOrder ==
    ASSUME Faults \subseteq {"storage"}, PublishingAssumption, TypeOK, RowsInOrder, NEW p \in App,
           AppInOrder(p), NEW n \in Build, StartStoring(p, n)
    PROVE  AppInOrder(p)'
<1>1. /\ At(p, n, "working") /\ Current(p, n)
      /\ sweep[p].pc = "none" \/ n \in sweep[p].keep
      /\ \A m \in Build : m # n => builder[p][m].pc \in {"none", "working", "done"}
  BY DEF StartStoring, NotOvertaking
<1>2. /\ builder'[p][n].pc = "storing" /\ builder'[p][n].todo = File /\ builder'[p][n].kept
      /\ \A m \in Build : m # n => builder'[p][m] = builder[p][m]
      /\ UNCHANGED <<apps, pointer, stored, sweep, taking>>
  BY DEF StartStoring, TypeOK, rowsAndStorage
<1>3. n # apps[p].live
  <2>1. apps[p].live < apps[p].build /\ n = apps[p].build /\ apps[p].live \in Nat
    BY <1>1, RowFields DEF Current, RowsInOrder, BuildId, PublishingAssumption
  <2> QED BY <2>1
<1>4. ASSUME NEW m \in Build PROVE ThreadInOrder(p, m)'
  <2>1. CASE m = n
    <3>1. ~(n > apps[p].build)
      BY <1>1 DEF Current, Build
    <3> QED BY <1>1, <1>2, <1>3, <2>1, <3>1 DEF ThreadInOrder, Busy, At, Current
  <2>2. CASE m # n
    BY <1>2, <2>2 DEF AppInOrder, ThreadInOrder, Busy, At, Current
  <2> QED BY <2>1, <2>2
<1>5. \A m \in Build : m # n => ~Busy(p, m)'
  BY <1>1, <1>2 DEF AppInOrder, ThreadInOrder, Busy, At
<1>6. SweepInOrder(p)'
  BY <1>2 DEF AppInOrder, SweepInOrder
<1>7. ServedUntilTaken(p)'
  <2>1. Complete(p, pointer[p]) => pointer[p] \in Build
    BY DEF Complete, TypeOK, BuildId, Build
  <2>2. pointer[p] \in Build /\ At(p, pointer[p], "marking") => At(p, pointer[p], "marking")'
    BY <1>1, <1>2 DEF At
  <2> QED BY <1>2, <2>1, <2>2 DEF AppInOrder, ServedUntilTaken, Complete, Current
<1> QED BY <1>2, <1>4, <1>5, <1>6, <1>7 DEF AppInOrder

\* The files of a build are stored one by one, and then it may be pointed at.
LEMMA StoringKeepsOrder ==
    ASSUME Faults \subseteq {"storage"}, PublishingAssumption, TypeOK, RowsInOrder, NEW p \in App,
           AppInOrder(p), NEW n \in Build, (\E f \in File : StoreFile(p, n, f)) \/ Recheck(p, n)
    PROVE  AppInOrder(p)'
<1>0. builder[p][n] \in Thread
  BY DEF TypeOK
<1>1. /\ builder[p][n].pc = "storing" /\ builder'[p][n].pc \in {"storing", "pointing"}
      /\ builder'[p][n].kept = builder[p][n].kept
      /\ builder'[p][n].pc = "pointing" => builder'[p][n].todo = {} /\ Current(p, n)
      /\ \A m \in Build : m # n => builder'[p][m] = builder[p][m] /\ stored'[p][m] = stored[p][m]
      /\ File \ builder[p][n].todo \subseteq stored[p][n] => File \ builder'[p][n].todo \subseteq stored'[p][n]
      /\ UNCHANGED <<apps, pointer, sweep, taking>>
  <2>1. CASE Recheck(p, n)
    <3>1. /\ builder'[p][n].pc = "pointing"
          /\ builder'[p][n].todo = builder[p][n].todo /\ builder'[p][n].kept = builder[p][n].kept
          /\ \A m \in Build : m # n => builder'[p][m] = builder[p][m]
          /\ UNCHANGED <<sweep, taking>>
      BY <2>1, ThreadMoves DEF Recheck
    <3> QED BY <2>1, <3>1 DEF Recheck, At, rowsAndStorage
  <2>2. CASE \E f \in File : StoreFile(p, n, f)
    <3>1. PICK f \in File : StoreFile(p, n, f)
      BY <2>2
    <3>2. UNCHANGED <<apps, pointer, sweep, taking>> /\ builder[p][n].pc = "storing"
      BY <3>1 DEF StoreFile, At
    <3>3. stored'[p][n] = stored[p][n] \cup {f} /\ \A m \in Build : m # n => stored'[p][m] = stored[p][m]
      BY <3>1 DEF StoreFile, TypeOK
    <3>4. PICK t : t = [builder[p][n] EXCEPT !.todo = @ \ {f}]
      OBVIOUS
    <3>5. t.pc = "storing" /\ t.kept = builder[p][n].kept /\ t.todo = builder[p][n].todo \ {f}
      BY <1>0, <3>2, <3>4 DEF Thread
    <3>6. builder'[p][n] = t /\ \A m \in Build : m # n => builder'[p][m] = builder[p][m]
      BY <3>1, <3>4 DEF StoreFile, TypeOK
    <3> QED BY <3>2, <3>3, <3>5, <3>6
  <2> QED BY <2>1, <2>2
<1>2. ASSUME NEW m \in Build PROVE ThreadInOrder(p, m)'
  <2>1. CASE m = n
    BY <1>1, <2>1 DEF AppInOrder, ThreadInOrder, Busy, At, Current
  <2>2. CASE m # n
    BY <1>1, <2>2 DEF AppInOrder, ThreadInOrder, Busy, At, Current
  <2> QED BY <2>1, <2>2
<1>3. \A m \in Build : Busy(p, m)' => Busy(p, m)
  BY <1>1 DEF Busy, At
<1>4. SweepInOrder(p)'
  BY <1>1 DEF AppInOrder, SweepInOrder
<1>5. ServedUntilTaken(p)'
  <2>1. Busy(p, n) /\ n # apps[p].live
    BY <1>1 DEF AppInOrder, ThreadInOrder, Busy, At
  <2>2. Complete(p, pointer[p]) => pointer[p] \in Build
    BY DEF Complete, TypeOK, BuildId, Build
  <2>3. pointer[p] \in Build /\ At(p, pointer[p], "marking") => At(p, pointer[p], "marking")' /\ pointer[p] # n
    BY <1>1 DEF At
  <2> QED BY <1>1, <2>1, <2>2, <2>3 DEF AppInOrder, ServedUntilTaken, Complete, Current
<1> QED BY <1>1, <1>2, <1>3, <1>4, <1>5 DEF AppInOrder

\* The pointer is written when the files are there.
LEMMA PointingKeepsOrder ==
    ASSUME Faults \subseteq {"storage"}, PublishingAssumption, TypeOK, RowsInOrder, NEW p \in App,
           AppInOrder(p), NEW n \in Build, WritePointer(p, n)
    PROVE  AppInOrder(p)'
<1>1. At(p, n, "pointing") /\ pointer'[p] = n /\ UNCHANGED <<apps, stored>>
  BY DEF WritePointer, TypeOK
<1>2. /\ builder'[p][n].pc = "marking"
      /\ builder'[p][n].todo = builder[p][n].todo /\ builder'[p][n].kept = builder[p][n].kept
      /\ \A m \in Build : m # n => builder'[p][m] = builder[p][m]
      /\ UNCHANGED <<sweep, taking>>
  BY ThreadMoves DEF WritePointer
<1>3. Busy(p, n) /\ \A m \in Build : m # n => ~Busy(p, m)
  BY <1>1 DEF AppInOrder, ThreadInOrder, Busy, At
<1>4. ASSUME NEW m \in Build PROVE ThreadInOrder(p, m)'
  <2>1. CASE m = n
    BY <1>1, <1>2, <2>1 DEF AppInOrder, ThreadInOrder, Busy, At, Current
  <2>2. CASE m # n
    <3>1. ~At(p, m, "marking")
      BY <1>3, <2>2 DEF AppInOrder, ThreadInOrder, Busy, At
    <3> QED BY <1>1, <1>2, <2>2, <3>1 DEF AppInOrder, ThreadInOrder, Busy, At, Current
  <2> QED BY <2>1, <2>2
<1>5. \A m \in Build : Busy(p, m)' => Busy(p, m)
  BY <1>1, <1>2 DEF Busy, At
<1>6. SweepInOrder(p)'
  BY <1>1, <1>2 DEF AppInOrder, SweepInOrder
<1>7. ServedUntilTaken(p)'
  <2>1. SUFFICES ASSUME apps[p].status = "LIVE"
                 PROVE  stored[p][n] = File /\ Current(p, n)
    BY <1>1, <1>2 DEF ServedUntilTaken, Complete, At, Current, Build
  <2>2. Current(p, n)
    BY <1>1, <2>1 DEF AppInOrder, ThreadInOrder, At
  <2>3. stored[p][n] \subseteq File
    BY DEF TypeOK
  <2> QED BY <1>1, <2>2, <2>3 DEF AppInOrder, ThreadInOrder, At
<1> QED BY <1>4, <1>5, <1>6, <1>7, <1>1 DEF AppInOrder

\* The row follows the pointer.
LEMMA MarkingKeepsOrder ==
    ASSUME Faults \subseteq {"storage"}, PublishingAssumption, TypeOK, RowsInOrder, NEW p \in App,
           AppInOrder(p), NEW n \in Build, MarkLive(p, n)
    PROVE  AppInOrder(p)'
<1>1. At(p, n, "marking") /\ Current(p, n) /\ UNCHANGED <<pointer, stored>>
  BY DEF MarkLive
<1>2. /\ builder'[p][n].pc = "done" /\ builder'[p][n].kept = builder[p][n].kept
      /\ \A m \in Build : m # n => builder'[p][m] = builder[p][m]
      /\ UNCHANGED <<sweep, taking>>
  BY ThreadMoves DEF MarkLive
<1>3. /\ apps'[p].status = "LIVE" /\ apps'[p].live = n /\ apps'[p].state = "none"
      /\ apps'[p].build = apps[p].build
  BY DEF MarkLive, TypeOK, AppRow
<1>4. \A m \in Build : m # n => ~Busy(p, m)
  BY <1>1 DEF AppInOrder, ThreadInOrder, Busy, At
<1>5. ASSUME NEW m \in Build PROVE ThreadInOrder(p, m)'
  <2>1. CASE m = n
    <3>1. ~(n > apps[p].build)
      BY <1>1 DEF Current, Build
    <3> QED BY <1>2, <1>3, <2>1, <3>1 DEF ThreadInOrder, Busy, At
  <2>2. CASE m # n
    <3>1. /\ builder[p][m].pc \notin {"storing", "pointing", "marking", "unpointing"}
          /\ ~Busy(p, m)' /\ (m > apps[p].build => builder[p][m].pc = "none")
      BY <1>2, <1>4, <2>2 DEF AppInOrder, ThreadInOrder, Busy, At
    <3> QED BY <1>2, <1>3, <2>2, <3>1 DEF AppInOrder, ThreadInOrder
  <2> QED BY <2>1, <2>2
<1>6. \A m \in Build : Busy(p, m)' => Busy(p, m)
  BY <1>1, <1>2 DEF Busy, At
<1>7. SweepInOrder(p)'
  <2>1. sweep[p].pc = "none" \/ n \in sweep[p].keep
    BY <1>1 DEF AppInOrder, ThreadInOrder, At
  <2>2. sweep[p].pc = "none" \/ ~sweep[p].offline
    BY <2>1 DEF AppInOrder, SweepInOrder
  <2>3. sweep[p].pc = "unpointing" => sweep[p].offline
    BY DEF AppInOrder, SweepInOrder
  <2> QED BY <1>2, <1>3, <2>1, <2>2, <2>3 DEF SweepInOrder
<1>8. ServedUntilTaken(p)'
  <2>1. SUFFICES ASSUME taking[p] # "mark"
                 PROVE  pointer[p] = n /\ stored[p][n] = File
    BY <1>1, <1>2, <1>3 DEF ServedUntilTaken, Complete, Build
  <2>2. stored[p][n] \subseteq File
    BY DEF TypeOK
  <2> QED BY <1>1, <2>1, <2>2 DEF AppInOrder, ThreadInOrder, At
<1>9. apps'[p].live # 0
  BY <1>3 DEF Build
<1> QED BY <1>3, <1>5, <1>6, <1>7, <1>8, <1>9 DEF AppInOrder

\* What a stopped build stored is deleted, and the pointer of an app offline.
LEMMA DiscardingKeepsOrder ==
    ASSUME Faults \subseteq {"storage"}, PublishingAssumption, TypeOK, RowsInOrder, NEW p \in App,
           AppInOrder(p), NEW n \in Build, DiscardFiles(p, n) \/ DiscardPointer(p, n)
    PROVE  AppInOrder(p)'
<1>1. CASE DiscardFiles(p, n)
  <2>1. /\ At(p, n, "discarding") /\ UNCHANGED <<apps, pointer>>
        /\ \A m \in Build : m # n => stored'[p][m] = stored[p][m]
    BY <1>1 DEF DiscardFiles, TypeOK
  <2>2. /\ builder'[p][n].pc = "checking" /\ builder'[p][n].kept = builder[p][n].kept
        /\ \A m \in Build : m # n => builder'[p][m] = builder[p][m]
        /\ UNCHANGED <<sweep, taking>>
    BY <1>1, ThreadMoves DEF DiscardFiles
  <2>3. ASSUME NEW m \in Build PROVE ThreadInOrder(p, m)'
    <3>1. CASE m = n
      BY <2>1, <2>2, <3>1 DEF AppInOrder, ThreadInOrder, Busy, At, Current
    <3>2. CASE m # n
      BY <2>1, <2>2, <3>2 DEF AppInOrder, ThreadInOrder, Busy, At, Current
    <3> QED BY <3>1, <3>2
  <2>4. \A m \in Build : Busy(p, m)' => Busy(p, m)
    BY <2>1, <2>2 DEF Busy, At
  <2>5. SweepInOrder(p)'
    BY <2>1, <2>2 DEF AppInOrder, SweepInOrder
  <2>6. ServedUntilTaken(p)'
    <3>1. n # apps[p].live
      BY <2>1 DEF AppInOrder, ThreadInOrder, Busy, At
    <3>2. Complete(p, pointer[p]) => pointer[p] \in Build
      BY DEF Complete, TypeOK, BuildId, Build
    <3>3. pointer[p] \in Build /\ At(p, pointer[p], "marking") => At(p, pointer[p], "marking")' /\ pointer[p] # n
      BY <2>1, <2>2 DEF At
    <3> QED BY <2>1, <2>2, <3>1, <3>2, <3>3 DEF AppInOrder, ServedUntilTaken, Complete, Current
  <2> QED BY <2>1, <2>3, <2>4, <2>5, <2>6 DEF AppInOrder
<1>2. CASE DiscardPointer(p, n)
  <2>1. At(p, n, "unpointing") /\ UNCHANGED <<apps, stored>>
    BY <1>2 DEF DiscardPointer
  <2>2. /\ builder'[p][n].pc = "done" /\ builder'[p][n].kept = builder[p][n].kept
        /\ \A m \in Build : m # n => builder'[p][m] = builder[p][m]
        /\ UNCHANGED <<sweep, taking>>
    BY <1>2, ThreadMoves DEF DiscardPointer
  <2>3. apps[p].status = "UNPUBLISHED" /\ \A m \in Build : m # n => ~Busy(p, m)
    BY <2>1 DEF AppInOrder, ThreadInOrder, Busy, At
  <2>4. ASSUME NEW m \in Build PROVE ThreadInOrder(p, m)'
    <3>1. CASE m = n
      BY <2>1, <2>2, <3>1 DEF AppInOrder, ThreadInOrder, Busy, At, Current
    <3>2. CASE m # n
      <4>1. ~At(p, m, "marking")
        BY <2>3, <3>2 DEF AppInOrder, ThreadInOrder, Busy, At
      <4> QED BY <2>1, <2>2, <3>2, <4>1 DEF AppInOrder, ThreadInOrder, Busy, At, Current
    <3> QED BY <3>1, <3>2
  <2>5. \A m \in Build : Busy(p, m)' => Busy(p, m)
    BY <2>1, <2>2 DEF Busy, At
  <2>6. SweepInOrder(p)' /\ ServedUntilTaken(p)'
    BY <2>1, <2>2, <2>3 DEF AppInOrder, SweepInOrder, ServedUntilTaken
  <2> QED BY <2>1, <2>4, <2>5, <2>6 DEF AppInOrder
<1> QED BY <1>1, <1>2

\* Every step keeps every app in order.
LEMMA ServingStep ==
    ASSUME Faults \subseteq {"storage"}, PublishingAssumption, TypeOK, RowsInOrder, Serving, [Next]_vars
    PROVE  Serving'
<1>1. CASE UNCHANGED vars
  BY <1>1, CalmStep DEF vars, Serving
<1>2. ~Crash
  BY DEF Crash
<1>3. ASSUME NEW p \in App,
             \/ OpenPublish(p) \/ OpenUnpublish(p) \/ DeleteProject(p) \/ OpenSharing(p)
             \/ RequestStep(p) \/ DeletePointerThrows(p)
             \/ FailAbandoned(p) \/ SweepStep(p) \/ SweepThrows(p)
             \/ \E n \in Build :
                   \/ BuilderStep(p, n)
                   \/ StorageThrows(p, n) \/ MarkLiveThrows(p, n) \/ DiscardThrows(p, n)
      PROVE  Serving'
  <2>1. AppInOrder(p)'
    <3>0. AppInOrder(p)
      BY DEF Serving
    <3>1. CASE \/ OpenPublish(p) \/ OpenUnpublish(p) \/ DeleteProject(p) \/ OpenSharing(p)
               \/ RequestStep(p) \/ DeletePointerThrows(p)
      BY <3>0, <3>1, RequestsKeepOrder, TakingKeepsOrder, ClaimKeepsOrder DEF RequestStep
    <3>2. CASE FailAbandoned(p) \/ SweepStep(p) \/ SweepThrows(p)
      BY <3>0, <3>2, SweepKeepsOrder
    <3>3. ASSUME NEW n \in Build,
                 \/ BuilderStep(p, n)
                 \/ StorageThrows(p, n) \/ MarkLiveThrows(p, n) \/ DiscardThrows(p, n)
          PROVE  AppInOrder(p)'
      <4>1. ~MarkLiveThrows(p, n)
        BY DEF MarkLiveThrows
      <4> QED BY <3>0, <3>3, <4>1, StoppingKeepsOrder, FailingKeepsOrder, StartingKeepsOrder,
            StoringKeepsOrder, PointingKeepsOrder, MarkingKeepsOrder, DiscardingKeepsOrder DEF BuilderStep
    <3> QED BY <1>3, <3>1, <3>2, <3>3
  <2>2. ASSUME NEW q \in App, q # p PROVE AppInOrder(q)'
    <3>1. /\ apps'[q] = apps[q] /\ pointer'[q] = pointer[q] /\ stored'[q] = stored[q]
          /\ builder'[q] = builder[q] /\ sweep'[q] = sweep[q] /\ taking'[q] = taking[q]
      BY <1>3, <2>2, OtherApps
    <3> QED BY <3>1, CalmStep DEF Serving
  <2> QED BY <2>1, <2>2 DEF Serving
<1> QED BY <1>1, <1>2, <1>3 DEF Next

\* As long as the worst that happens is a storage call that throws, a live app
\* that is not being taken down is served, whole, from the build its row names
\* or the one about to replace it: across publishes, updates, failed builds,
\* unpublishing, deletion and sweeps (PublishServiceImpl, PublishBuilder,
\* PublishSweeper).
THEOREM LiveStaysServed ==
    ASSUME Faults \subseteq {"storage"}
    PROVE  Spec => []LiveIsServed
<1>1. PublishingAssumption /\ Init => Serving
  <2> SUFFICES ASSUME PublishingAssumption, Init, NEW p \in App PROVE AppInOrder(p)
    BY DEF Serving
  <2>1. \A n \in Build : builder[p][n] = NoThread
    BY DEF Init
  <2>2. \A n \in Build : ThreadInOrder(p, n)
    BY <2>1 DEF ThreadInOrder, NoThread, Busy, At
  <2>3. SweepInOrder(p) /\ ServedUntilTaken(p)
    BY DEF Init, SweepInOrder, ServedUntilTaken, NoSweep
  <2>4. apps[p].status = "UNPUBLISHED" /\ apps[p].live = 0
    BY DEF Init
  <2> QED BY <2>1, <2>2, <2>3, <2>4 DEF AppInOrder, Busy, NoThread
<1>2. Serving => LiveIsServed
  BY DEF Serving, AppInOrder, ServedUntilTaken, LiveIsServed
<1>3. Invariant /\ Serving /\ [Next]_vars => Serving'
  BY PublishingAssumption, ServingStep DEF Invariant
<1> QED BY PublishingAssumption, <1>1, <1>2, <1>3, InvariantHolds, PTL DEF Spec
=============================================================================
