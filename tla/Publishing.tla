----------------------------- MODULE Publishing -----------------------------
(***************************************************************************)
(* How workspace-service puts an owner's projects online as built apps, and *)
(* takes them down again.                                                  *)
(*                                                                         *)
(* Three places hold an app's state: its row in published_apps, the files  *)
(* of its builds in object storage, and there one pointer object, which is *)
(* all that the proxy serves from.  A request (publish, unpublish, share,  *)
(* the deletion of the project), a builder thread per build and the        *)
(* scheduled sweeper change them one statement or one storage call at a    *)
(* time, so their steps interleave.                                        *)
(*                                                                         *)
(* Time is left out: a heartbeat may go stale, and a retired build may come *)
(* of age, whenever that is possible at all.                               *)
(***************************************************************************)
EXTENDS Naturals, FiniteSets

CONSTANTS
    App,       \* the projects of one owner, and the app of each
    File,      \* the files of a build, the sources stored beside it included
    Limit,     \* the apps the owner's plan keeps live
    MaxBuild,  \* bound: builds started of an app
    Requests,  \* which requests are made
    Faults     \* which failures happen

RequestKinds == {"publish", "unpublish", "share", "delete"}

FaultKinds ==
    { "storage",    \* a storage call throws, having done nothing
      "ambiguous",  \* writing the pointer throws after it was done (a lost answer)
      "database",   \* a statement of the builder throws
      "overtake",   \* a thread stands still for as long as a whole later build takes
      "crash" }     \* the service's process dies

Build == 1..MaxBuild

ASSUME PublishingAssumption ==
    /\ MaxBuild \in Nat
    /\ Limit \in Nat
    /\ Requests \subseteq RequestKinds
    /\ Faults \subseteq FaultKinds

VARIABLES
    apps,        \* the published_apps rows
    deleted,     \* the projects that are deleted
    shared,      \* the projects with is_public set
    pointer,     \* the build each app's pointer object names, 0 for no pointer
    stored,      \* the files in storage of each build
    builder,     \* the thread of each build
    publishing,  \* publish requests
    taking,      \* unpublish and delete requests
    sharing,     \* requests to share the code, or to stop
    sweep,       \* the sweeper's copy of a row it is cleaning up after
    ended        \* history variable: builds that were ended from outside

vars == <<apps, deleted, shared, pointer, stored, builder, publishing, taking, sharing, sweep,
          ended>>

rowsAndStorage == <<apps, deleted, shared, pointer, stored, ended>>

----------------------------------------------------------------------------
(* State *)

BuildId == 0..MaxBuild

\* The build columns are "none" when no build is under way and the last one
\* did not fail.
AppRow == [status : {"LIVE", "UNPUBLISHED"}, live : BuildId, build : BuildId,
         state : {"none", "BUILDING", "FAILED"}, retired : BuildId]

BuilderPhase ==
    {"none", "working", "storing", "pointing", "marking", "failing", "discarding", "checking",
     "unpointing", "done"}

\* "kept" is the builder's flag that it has stored something to discard.
Thread == [pc : BuilderPhase, todo : SUBSET File, kept : BOOLEAN]

NoThread == [pc |-> "none", todo |-> {}, kept |-> FALSE]

Sweep == [pc : {"none", "deleting", "unpointing", "clearing"}, keep : SUBSET Build,
          offline : BOOLEAN, retired : BuildId]

NoSweep == [pc |-> "none", keep |-> {}, offline |-> FALSE, retired |-> 0]

TypeOK ==
    /\ apps \in [App -> AppRow]
    /\ deleted \subseteq App
    /\ shared \subseteq App
    /\ pointer \in [App -> BuildId]
    /\ stored \in [App -> [Build -> SUBSET File]]
    /\ builder \in [App -> [Build -> Thread]]
    /\ publishing \in [App -> {"none", "opened", "allowed"}]
    /\ taking \in [App -> {"none", "unpublish", "takeDown", "mark", "unshare"}]
    /\ sharing \in [App -> {"none", "on", "off"}]
    /\ sweep \in [App -> Sweep]
    /\ ended \in [App -> SUBSET Build]

Init ==
    /\ apps = [p \in App |-> [status |-> "UNPUBLISHED", live |-> 0, build |-> 0,
                              state |-> "none", retired |-> 0]]
    /\ deleted = {} /\ shared = {}
    /\ pointer = [p \in App |-> 0]
    /\ stored = [p \in App |-> [n \in Build |-> {}]]
    /\ builder = [p \in App |-> [n \in Build |-> NoThread]]
    /\ publishing = [p \in App |-> "none"]
    /\ taking = [p \in App |-> "none"]
    /\ sharing = [p \in App |-> "none"]
    /\ sweep = [p \in App |-> NoSweep]
    /\ ended = [p \in App |-> {}]

\* The condition of every statement that names a build number: it applies only
\* while that build is the one under way.
Current(p, n) == apps[p].build = n /\ apps[p].state = "BUILDING"

At(p, n, phase) == builder[p][n].pc = phase

\* The thread can still store files, write the pointer or mark the build live.
Active(p, n) == builder[p][n].pc \in {"working", "storing", "pointing", "marking"}

LiveApps == {p \in App \ deleted : apps[p].status = "LIVE"}

----------------------------------------------------------------------------
(* publish: under a lock per person *)

\* A request that finds the project, takes the lock and finds no build running.
OpenPublish(p) ==
    /\ "publish" \in Requests
    /\ p \notin deleted
    /\ \A q \in App : publishing[q] = "none"
    /\ apps[p].state # "BUILDING"
    /\ publishing' = [publishing EXCEPT ![p] = "opened"]
    /\ UNCHANGED <<rowsAndStorage, builder, taking, sharing, sweep>>

\* The allowance is only for an app that is not live yet, and counts live ones.
WithinAllowance(p) == apps[p].status = "LIVE" \/ Cardinality(LiveApps) < Limit

CheckAllowance(p) ==
    /\ publishing[p] = "opened"
    /\ publishing' = [publishing EXCEPT ![p] = IF WithinAllowance(p) THEN "allowed" ELSE "none"]
    /\ UNCHANGED <<rowsAndStorage, builder, taking, sharing, sweep>>

\* The claim of a build, and the start of its thread.
ClaimBuild(p) ==
    LET n == apps[p].build + 1 IN
    /\ publishing[p] = "allowed"
    /\ apps[p].state # "BUILDING" /\ n \in Build
    /\ apps' = [apps EXCEPT ![p].state = "BUILDING", ![p].build = n]
    /\ builder' = [builder EXCEPT ![p][n].pc = "working"]
    /\ publishing' = [publishing EXCEPT ![p] = "none"]
    /\ UNCHANGED <<deleted, shared, pointer, stored, taking, sharing, sweep, ended>>

\* The claim refused: too soon after the last build started.
RefuseClaim(p) ==
    /\ publishing[p] = "allowed"
    /\ publishing' = [publishing EXCEPT ![p] = "none"]
    /\ UNCHANGED <<rowsAndStorage, builder, taking, sharing, sweep>>

----------------------------------------------------------------------------
(* The thread of a build *)

\* The thread goes on to another phase, with nothing else changed.
GoOn(p, n, phase) ==
    /\ builder' = [builder EXCEPT ![p][n].pc = phase]
    /\ UNCHANGED <<publishing, taking, sharing, sweep>>

\* Where a thread that stops goes: to discard what it stored, if it did.
Stopped(p, n) == IF builder[p][n].kept THEN "discarding" ELSE "done"

\* Unless a thread may be overtaken, an older build's thread, and a sweep that
\* read the row before this build was claimed, are done before it stores files.
NotOvertaking(p, n) ==
    \/ "overtake" \in Faults
    \/ /\ sweep[p].pc = "none" \/ n \in sweep[p].keep
       /\ \A m \in Build \ {n} : builder[p][m].pc \in {"none", "working", "done"}

\* The files are captured, built in a runner pod and collected; the phase is
\* set to PUBLISHING.
StartStoring(p, n) ==
    /\ At(p, n, "working") /\ Current(p, n) /\ NotOvertaking(p, n)
    /\ builder' = [builder EXCEPT ![p][n] = [pc |-> "storing", todo |-> File, kept |-> TRUE]]
    /\ UNCHANGED <<rowsAndStorage, publishing, taking, sharing, sweep>>

\* The capture, the pod, the installation or the build itself fails.
BuildFails(p, n) ==
    /\ At(p, n, "working")
    /\ GoOn(p, n, "failing")
    /\ UNCHANGED rowsAndStorage

StoreFile(p, n, f) ==
    /\ At(p, n, "storing") /\ f \in builder[p][n].todo
    /\ stored' = [stored EXCEPT ![p][n] = @ \cup {f}]
    /\ builder' = [builder EXCEPT ![p][n].todo = @ \ {f}]
    /\ UNCHANGED <<apps, deleted, shared, pointer, ended, publishing, taking, sharing, sweep>>

\* The phase is set to PUBLISHING again, which only the current build can.
Recheck(p, n) ==
    /\ At(p, n, "storing") /\ builder[p][n].todo = {}
    /\ Current(p, n)
    /\ GoOn(p, n, "pointing")
    /\ UNCHANGED rowsAndStorage

\* A build that was ended finds out when it sets its next phase.
FindOut(p, n) ==
    /\ At(p, n, "working") \/ (At(p, n, "storing") /\ builder[p][n].todo = {})
    /\ ~Current(p, n)
    /\ GoOn(p, n, Stopped(p, n))
    /\ UNCHANGED rowsAndStorage

\* The one object that puts the build online.
WritePointer(p, n) ==
    /\ At(p, n, "pointing")
    /\ pointer' = [pointer EXCEPT ![p] = n]
    /\ GoOn(p, n, "marking")
    /\ UNCHANGED <<apps, deleted, shared, stored, ended>>

\* A storage call of the thread throws, or the statement between two of them.
StorageThrows(p, n) ==
    /\ \/ /\ At(p, n, "storing") /\ {"storage", "database"} \cap Faults # {}
          /\ UNCHANGED pointer
       \/ /\ At(p, n, "pointing")
          /\ \/ "storage" \in Faults /\ UNCHANGED pointer
             \/ "ambiguous" \in Faults /\ pointer' = [pointer EXCEPT ![p] = n]
    /\ GoOn(p, n, "failing")
    /\ UNCHANGED <<apps, deleted, shared, stored, ended>>

\* The prefix waiting to be deleted: the row remembers only the first.
Retired(p) == IF apps[p].retired = 0 THEN apps[p].live ELSE apps[p].retired

\* Mutant: the update is not conditional on the build number.
MarkLiveAnyway(p, n) ==
    /\ At(p, n, "marking")
    /\ apps' = [apps EXCEPT ![p].status = "LIVE", ![p].live = n, ![p].state = "none",
                            ![p].retired = Retired(p)]
    /\ GoOn(p, n, "done")
    /\ UNCHANGED <<deleted, shared, pointer, stored, ended>>

\* The row follows, if the build is still the one under way.
MarkLive(p, n) ==
    /\ At(p, n, "marking") /\ Current(p, n)
    /\ apps' = [apps EXCEPT ![p].status = "LIVE", ![p].live = n, ![p].state = "none",
                            ![p].retired = Retired(p)]
    /\ GoOn(p, n, "done")
    /\ UNCHANGED <<deleted, shared, pointer, stored, ended>>

\* It is not: the build was ended after its pointer was due.
MarkLiveMisses(p, n) ==
    /\ At(p, n, "marking") /\ ~Current(p, n)
    /\ GoOn(p, n, "discarding")
    /\ UNCHANGED rowsAndStorage

MarkLiveThrows(p, n) ==
    /\ "database" \in Faults
    /\ At(p, n, "marking")
    /\ GoOn(p, n, "failing")
    /\ UNCHANGED rowsAndStorage

\* Mutant: the update is not conditional on the build number.
MarkFailedAnyway(p, n) ==
    /\ At(p, n, "failing")
    /\ apps' = [apps EXCEPT ![p].state = IF @ = "BUILDING" THEN "FAILED" ELSE @]
    /\ GoOn(p, n, Stopped(p, n))
    /\ UNCHANGED <<deleted, shared, pointer, stored, ended>>

\* Mutant: the failure is written to the app's own status.
MarkFailedStatus(p, n) ==
    /\ At(p, n, "failing")
    /\ \/ apps' = IF Current(p, n) THEN [apps EXCEPT ![p].status = "FAILED"] ELSE apps
       \/ "database" \in Faults /\ UNCHANGED apps
    /\ GoOn(p, n, Stopped(p, n))
    /\ UNCHANGED <<deleted, shared, pointer, stored, ended>>

\* markFailed, of the current build only; a failure of its own is swallowed by
\* the end of the thread.
MarkFailed(p, n) ==
    /\ At(p, n, "failing")
    /\ \/ apps' = IF Current(p, n) THEN [apps EXCEPT ![p].state = "FAILED"] ELSE apps
       \/ "database" \in Faults /\ UNCHANGED apps
    /\ GoOn(p, n, Stopped(p, n))
    /\ UNCHANGED <<deleted, shared, pointer, stored, ended>>

\* The end of a stopped build: its files are deleted ...
DiscardFiles(p, n) ==
    /\ At(p, n, "discarding")
    /\ stored' = [stored EXCEPT ![p][n] = {}]
    /\ GoOn(p, n, "checking")
    /\ UNCHANGED <<apps, deleted, shared, pointer, ended>>

\* ... and, when the row it reads now says the app is unpublished ...
DiscardReadsRow(p, n) ==
    /\ At(p, n, "checking")
    /\ GoOn(p, n, IF apps[p].status = "UNPUBLISHED" THEN "unpointing" ELSE "done")
    /\ UNCHANGED rowsAndStorage

\* ... the pointer too.
DiscardPointer(p, n) ==
    /\ At(p, n, "unpointing")
    /\ pointer' = [pointer EXCEPT ![p] = 0]
    /\ GoOn(p, n, "done")
    /\ UNCHANGED <<apps, deleted, shared, stored, ended>>

\* A failure there is only logged.
DiscardThrows(p, n) ==
    /\ \/ "storage" \in Faults /\ builder[p][n].pc \in {"discarding", "unpointing"}
       \/ "database" \in Faults /\ At(p, n, "checking")
    /\ GoOn(p, n, "done")
    /\ UNCHANGED rowsAndStorage

BuilderStep(p, n) ==
    \/ StartStoring(p, n) \/ BuildFails(p, n) \/ (\E f \in File : StoreFile(p, n, f))
    \/ Recheck(p, n) \/ FindOut(p, n) \/ WritePointer(p, n) \/ MarkLive(p, n)
    \/ MarkLiveMisses(p, n) \/ MarkFailed(p, n) \/ DiscardFiles(p, n)
    \/ DiscardReadsRow(p, n) \/ DiscardPointer(p, n)

----------------------------------------------------------------------------
(* unpublish, takeDown and setSharing *)

\* What a row becomes when its app is unpublished, and whom that ends.
Unpublished(p) == [apps EXCEPT ![p].status = "UNPUBLISHED", ![p].live = 0, ![p].state = "none",
                               ![p].retired = Retired(p)]

EndedNow(p) == IF apps[p].state = "BUILDING" THEN {apps[p].build} ELSE {}

OpenUnpublish(p) ==
    /\ "unpublish" \in Requests
    /\ taking[p] = "none" /\ p \notin deleted
    /\ apps[p].status = "LIVE" \/ apps[p].state # "none"
    /\ taking' = [taking EXCEPT ![p] = "unpublish"]
    /\ UNCHANGED <<rowsAndStorage, builder, publishing, sharing, sweep>>

\* The project's row is marked deleted, and taking its app down follows.
DeleteProject(p) ==
    /\ "delete" \in Requests
    /\ taking[p] = "none" /\ p \notin deleted
    /\ deleted' = deleted \cup {p}
    /\ taking' = [taking EXCEPT ![p] = "takeDown"]
    /\ UNCHANGED <<apps, shared, pointer, stored, ended, builder, publishing, sharing, sweep>>

\* The pointer goes first.
DeletePointer(p) ==
    /\ taking[p] \in {"unpublish", "takeDown"}
    /\ pointer' = [pointer EXCEPT ![p] = 0]
    /\ taking' = [taking EXCEPT ![p] = "mark"]
    /\ UNCHANGED <<apps, deleted, shared, stored, ended, builder, publishing, sharing, sweep>>

\* Storage cannot be reached: an unpublish ends there, a deletion goes on.
DeletePointerThrows(p) ==
    /\ "storage" \in Faults
    /\ \/ taking[p] = "unpublish" /\ taking' = [taking EXCEPT ![p] = "none"]
       \/ taking[p] = "takeDown" /\ taking' = [taking EXCEPT ![p] = "mark"]
    /\ UNCHANGED <<rowsAndStorage, builder, publishing, sharing, sweep>>

\* Then the row, which ends a build under way.
MarkUnpublished(p) ==
    /\ taking[p] = "mark"
    /\ apps' = Unpublished(p)
    /\ ended' = [ended EXCEPT ![p] = @ \cup EndedNow(p)]
    /\ taking' = [taking EXCEPT ![p] = "unshare"]
    /\ UNCHANGED <<deleted, shared, pointer, stored, builder, publishing, sharing, sweep>>

StopSharing(p) ==
    /\ taking[p] = "unshare"
    /\ shared' = shared \ {p}
    /\ taking' = [taking EXCEPT ![p] = "none"]
    /\ UNCHANGED <<apps, deleted, pointer, stored, ended, builder, publishing, sharing, sweep>>

\* A request to share the code, or to stop, of an app it finds live.
OpenSharing(p) ==
    /\ "share" \in Requests
    /\ sharing[p] = "none" /\ p \notin deleted /\ apps[p].status = "LIVE"
    /\ \E flag \in {"on", "off"} : sharing' = [sharing EXCEPT ![p] = flag]
    /\ UNCHANGED <<rowsAndStorage, builder, publishing, taking, sweep>>

SetSharing(p) ==
    /\ sharing[p] # "none"
    /\ shared' = IF sharing[p] = "on" THEN shared \cup {p} ELSE shared \ {p}
    /\ sharing' = [sharing EXCEPT ![p] = "none"]
    /\ UNCHANGED <<apps, deleted, pointer, stored, ended, builder, publishing, taking, sweep>>

RequestStep(p) ==
    \/ CheckAllowance(p) \/ ClaimBuild(p) \/ RefuseClaim(p) \/ DeletePointer(p)
    \/ MarkUnpublished(p) \/ StopSharing(p) \/ SetSharing(p)

----------------------------------------------------------------------------
(* The sweeper *)

\* Mutant: the failure is recorded, but the build's state stays.
FailAbandonedInName(p) ==
    /\ apps[p].state = "BUILDING" /\ \A q \in App : sweep[q].pc = "none"
    /\ "overtake" \in Faults \/ builder[p][apps[p].build].pc \notin {"pointing", "marking"}
    /\ ended' = [ended EXCEPT ![p] = @ \cup {apps[p].build}]
    /\ UNCHANGED <<apps, deleted, shared, pointer, stored, publishing, taking, sharing, sweep,
                   builder>>

\* A build whose heartbeat is stale is failed, before the same pass cleans up.
\* A thread that is storing may go that long without one; a thread about to write
\* its pointer has just set its phase.
FailAbandoned(p) ==
    LET n == apps[p].build IN
    /\ apps[p].state = "BUILDING" /\ \A q \in App : sweep[q].pc = "none"
    /\ "overtake" \in Faults \/ builder[p][n].pc \notin {"pointing", "marking"}
    /\ apps' = [apps EXCEPT ![p].state = "FAILED"]
    /\ ended' = [ended EXCEPT ![p] = @ \cup {n}]
    /\ UNCHANGED <<deleted, shared, pointer, stored, builder, publishing, taking, sharing, sweep>>

\* Mutant: the build being made is not kept.
KeepLiveOnly(p) == {apps[p].live} \ {0}

\* The builds to keep: the one that is live and the one being made.
Keep(p) == {n \in Build : n = apps[p].live \/ Current(p, n)}

\* A pass reads a row with a retired prefix ...
SweepReads(p) ==
    /\ sweep[p].pc = "none" /\ apps[p].retired # 0
    /\ sweep' = [sweep EXCEPT ![p] =
                    [pc |-> "deleting", keep |-> Keep(p), retired |-> apps[p].retired,
                     offline |-> apps[p].status = "UNPUBLISHED" /\ apps[p].state = "none"]]
    /\ UNCHANGED <<rowsAndStorage, builder, publishing, taking, sharing>>

\* ... deletes every build in storage but those that row has to keep ...
SweepDeletes(p) ==
    /\ sweep[p].pc = "deleting"
    /\ stored' = [stored EXCEPT ![p] = [n \in Build |-> IF n \in sweep[p].keep THEN @[n] ELSE {}]]
    /\ sweep' = [sweep EXCEPT ![p].pc = IF sweep[p].offline THEN "unpointing" ELSE "clearing"]
    /\ UNCHANGED <<apps, deleted, shared, pointer, ended, builder, publishing, taking, sharing>>

\* ... the pointer of an app that is unpublished and is not being built ...
SweepUnpoints(p) ==
    /\ sweep[p].pc = "unpointing"
    /\ pointer' = [pointer EXCEPT ![p] = 0]
    /\ sweep' = [sweep EXCEPT ![p].pc = "clearing"]
    /\ UNCHANGED <<apps, deleted, shared, stored, ended, builder, publishing, taking, sharing>>

\* ... and clears the retired prefix, if it is still the one it read.
SweepClears(p) ==
    /\ sweep[p].pc = "clearing"
    /\ apps' = IF apps[p].retired = sweep[p].retired THEN [apps EXCEPT ![p].retired = 0] ELSE apps
    /\ sweep' = [sweep EXCEPT ![p] = NoSweep]
    /\ UNCHANGED <<deleted, shared, pointer, stored, ended, builder, publishing, taking, sharing>>

\* Storage cannot be reached: the row is left for the next pass.
SweepThrows(p) ==
    /\ "storage" \in Faults
    /\ sweep[p].pc \in {"deleting", "unpointing"}
    /\ sweep' = [sweep EXCEPT ![p] = NoSweep]
    /\ UNCHANGED <<rowsAndStorage, builder, publishing, taking, sharing>>

SweepStep(p) == SweepReads(p) \/ SweepDeletes(p) \/ SweepUnpoints(p) \/ SweepClears(p)

----------------------------------------------------------------------------

\* The process dies, and every thread and request with it.
Crash ==
    /\ "crash" \in Faults
    /\ builder' = [p \in App |-> [n \in Build |-> [builder[p][n] EXCEPT !.pc =
                                     IF @ = "none" THEN "none" ELSE "done"]]]
    /\ publishing' = [p \in App |-> "none"]
    /\ taking' = [p \in App |-> "none"]
    /\ sharing' = [p \in App |-> "none"]
    /\ sweep' = [p \in App |-> NoSweep]
    /\ UNCHANGED rowsAndStorage

Next ==
    \/ \E p \in App :
          \/ OpenPublish(p) \/ OpenUnpublish(p) \/ DeleteProject(p) \/ OpenSharing(p)
          \/ RequestStep(p) \/ DeletePointerThrows(p)
          \/ FailAbandoned(p) \/ SweepStep(p) \/ SweepThrows(p)
          \/ \E n \in Build :
                \/ BuilderStep(p, n)
                \/ StorageThrows(p, n) \/ MarkLiveThrows(p, n) \/ DiscardThrows(p, n)
    \/ Crash

Spec == Init /\ [][Next]_vars

\* Requests and builder threads run to their end, since every wait of theirs is
\* bounded, and the sweeper keeps passing: each pass first fails the builds whose
\* thread is gone, so cleaning up does not put that off for good.
Fairness ==
    \A p \in App :
        /\ WF_vars(RequestStep(p))
        /\ WF_vars(SweepStep(p))
        /\ SF_vars(FailAbandoned(p) /\ builder[p][apps[p].build].pc = "done")
        /\ \A n \in Build : WF_vars(BuilderStep(p, n))

FairSpec == Spec /\ Fairness

----------------------------------------------------------------------------
(* Properties *)

\* A build that was ended, by an unpublish, the project's deletion or the
\* sweeper, never becomes what the row says is live.
EndedBuildsNeverGoLive == \A p \in App : apps[p].live \notin ended[p]

\* What is live only moves on to a newer build, or is taken down: a slow build
\* never writes its result over the one that replaced it.
LiveOnlyAdvances ==
    [][\A p \in App : apps'[p].live # 0 => apps'[p].live >= apps[p].live]_vars

\* A thread that can still store, point or go live is that of the newest build,
\* unless its build was ended: of two builds of an app only one can win.
OneBuildUnderWay ==
    \A p \in App : \A n \in Build :
        Active(p, n) /\ n \notin ended[p] => Current(p, n)

Complete(p, n) == n # 0 /\ stored[p][n] = File

\* A live app that is not being taken down is served, and what is served is a
\* whole build: the live one or, just before its row says so, the one replacing
\* it.  Across updates, failed builds, unpublishing and sweeps.
LiveIsServed ==
    \A p \in App :
        apps[p].status = "LIVE" /\ taking[p] = "none" =>
            /\ Complete(p, pointer[p])
            /\ pointer[p] = apps[p].live \/ At(p, pointer[p], "marking")

\* No build stays under way for good, whatever fails and whenever the process dies.
BuildsEnd == \A p \in App : \A n \in Build : Current(p, n) ~> ~Current(p, n)

\* "Two presses cannot both pass the allowance check before either has taken
\* effect": no more apps are live than the plan keeps.
WithinPlan == Cardinality(LiveApps) <= Limit

----------------------------------------------------------------------------
(* The invariant the theorem about LiveIsServed rests on *)

\* The thread has stored something and is not done.
Busy(p, n) == builder[p][n].kept /\ ~At(p, n, "done")

\* The one thread that is busy holds what it stored, unless its build was ended;
\* an ended one can still write or delete the pointer only of an app that is not
\* live.
ThreadInOrder(p, n) ==
    LET thread == builder[p][n] IN
    /\ n > apps[p].build => thread.pc = "none"
    /\ thread.pc \in {"none", "working"} => ~thread.kept
    /\ thread.pc \in {"storing", "pointing", "marking", "discarding", "checking", "unpointing"} =>
          thread.kept
    /\ thread.pc \in {"pointing", "marking"} => thread.todo = {}
    /\ thread.pc \in {"storing", "pointing", "marking"} /\ Current(p, n) =>
          /\ File \ thread.todo \subseteq stored[p][n]
          /\ sweep[p].pc = "none" \/ n \in sweep[p].keep
    /\ \/ thread.pc \in {"pointing", "marking"} /\ ~Current(p, n)
       \/ thread.pc = "unpointing"
       => apps[p].status = "UNPUBLISHED"
    /\ thread.pc = "marking" /\ Current(p, n) /\ taking[p] # "mark" => pointer[p] = n
    /\ Busy(p, n) => n # apps[p].live

\* The sweeper takes the pointer only of an app that stays offline meanwhile, and
\* never the files of the live build.
SweepInOrder(p) ==
    /\ sweep[p].pc # "none" /\ sweep[p].offline =>
          sweep[p].keep = {} /\ apps[p].status = "UNPUBLISHED"
    /\ sweep[p].pc = "unpointing" => sweep[p].offline
    /\ sweep[p].pc = "deleting" /\ apps[p].status = "LIVE" => apps[p].live \in sweep[p].keep

\* LiveIsServed, until the pointer of an app to be unpublished is gone.
ServedUntilTaken(p) ==
    apps[p].status = "LIVE" /\ taking[p] # "mark" =>
        /\ Complete(p, pointer[p])
        /\ \/ pointer[p] = apps[p].live
           \/ At(p, pointer[p], "marking") /\ Current(p, pointer[p])

\* What is so of one app.
AppInOrder(p) ==
    /\ apps[p].status = "UNPUBLISHED" <=> apps[p].live = 0
    /\ \A n \in Build : ThreadInOrder(p, n)
    /\ \A m, n \in Build : Busy(p, m) /\ Busy(p, n) => m = n
    /\ SweepInOrder(p)
    /\ ServedUntilTaken(p)

\* Holds when the worst that can happen is a storage call that throws, having
\* done nothing.
Serving == \A p \in App : AppInOrder(p)
=============================================================================
