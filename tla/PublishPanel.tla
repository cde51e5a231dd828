----------------------------- MODULE PublishPanel -----------------------------
(***************************************************************************)
(* The Publish button and its panel in a project's header (PublishMenu),   *)
(* the polling behind them (use-publish.ts), the "Published" mark of the   *)
(* list of projects beside them, and the public page of a shared app       *)
(* (SharedApp).                                                            *)
(***************************************************************************)
EXTENDS Naturals, FiniteSets, TLC

CONSTANTS
  MaxVersions,        \* bound: builds started
  MaxEdits,           \* bound: edits of the project after a publish
  Slugs               \* what may be typed as the link's name: "" and names

VARIABLES
  app,                \* the server: the published app of the project
  buildsMade, editsMade,
  menu,              \* the panel as it is shown
  state,              \* the query's data: the app as the panel knows it, or NoState
  poll,               \* a read of it on its way
  publishAsks,        \* publishing, unpublishing and sharing on their way
  lastSeenApp,           \* use-publish.ts: what the effect saw last
  mark,               \* the list of projects: the mark, its read on its way, whether it follows a change the panel saw
  reader,             \* the shared page
  crossed             \* history variable: an answer was lost, or two readings of the app crossed on the way

panelVars == <<app, buildsMade, editsMade, menu, state, poll, publishAsks, lastSeenApp, mark, reader, crossed>>

Failures == {"BUILD", "PLATFORM"}     \* one that trying again as it is may cure, and one that it will not
NeverPublished == [live |-> 0, build |-> "none", failure |-> "none", named |-> FALSE, shared |-> FALSE, hasChanges |-> FALSE]
NoState == [live |-> 0, build |-> "unknown", failure |-> "none", named |-> FALSE, shared |-> FALSE, hasChanges |-> FALSE]
NoPoll == [stage |-> "none"]
NothingSeen == [live |-> FALSE, building |-> FALSE, seen |-> FALSE]
NoReader == [version |-> 0, file |-> 0, forking |-> FALSE]

PanelInit ==
  /\ app = NeverPublished /\ buildsMade = 0 /\ editsMade = 0
  /\ \E who \in {"owner", "member", "visitor"} :
       menu = [who |-> who, open |-> FALSE, slug |-> "", confirm |-> FALSE, quota |-> FALSE]
  /\ state = NoState /\ poll = NoPoll /\ publishAsks = {} /\ lastSeenApp = NothingSeen
  /\ mark = [shown |-> FALSE, read |-> FALSE, follows |-> FALSE]
  /\ reader = NoReader /\ crossed = FALSE

-----------------------------------------------------------------------------
(* lib/publish.ts: what the panel says and offers in each state. *)
IsBuilding(s) == s.build = "BUILDING"
PublishPhase(s) == CASE s.build = "unknown" -> "never"
                     [] s.live # 0 -> IF IsBuilding(s) THEN "live-building" ELSE IF s.build = "FAILED" THEN "live-failed" ELSE "live"
                     [] IsBuilding(s) -> "building"
                     [] s.build = "FAILED" -> "failed"
                     [] OTHER -> IF s.named THEN "unpublished" ELSE "never"
ButtonLabel(s) == CASE PublishPhase(s) \in {"building", "live-building"} -> "Publishing"
                    [] PublishPhase(s) \in {"live", "live-failed"} -> IF s.hasChanges THEN "Update" ELSE "Published"
                    [] OTHER -> "Publish"
Tone(s) == CASE PublishPhase(s) \in {"never", "unpublished"} -> "idle"
             [] PublishPhase(s) \in {"building", "live-building"} -> "busy"
             [] PublishPhase(s) \in {"failed", "live-failed"} -> "bad"
             [] OTHER -> IF s.hasChanges THEN "warn" ELSE "good"
IsRetryableAsIs(failure) == failure = "PLATFORM"
FailureAdvice(failure) == IF IsRetryableAsIs(failure) THEN "try again" ELSE "ask the chat"
SlugProblem(slug) == slug = "reserved"

(* How soon the query is read again by itself, if at all. *)
PublishPollInterval(s) == IF IsBuilding(s) THEN "fast" ELSE IF menu.open THEN "slow" ELSE IF s.live # 0 THEN "rare" ELSE "never"

UnderWay(kind) == \E a \in publishAsks : a.kind = kind
BuildUnderWay == IsBuilding(state) \/ UnderWay("publish")
ButtonShows == IF BuildUnderWay THEN "Publishing" ELSE ButtonLabel(state)
StepsShown == BuildUnderWay
InReach == menu.open /\ menu.who = "owner" /\ ~menu.confirm
PublishIsOffered == InReach /\ ~BuildUnderWay
  /\ \/ PublishPhase(state) \in {"unpublished", "failed"}
     \/ PublishPhase(state) = "never" /\ ~SlugProblem(menu.slug)
UpdateIsOffered == InReach /\ ~BuildUnderWay /\ state.live # 0 /\ (state.hasChanges \/ PublishPhase(state) = "live-failed")
OwnersFoot == InReach /\ state.live # 0

-----------------------------------------------------------------------------
(* The server's side: builds end, people edit, the owner works elsewhere while others look on, and the reads. *)
AppBuildEnds == \E failure \in {"none"} \cup Failures :
  /\ IsBuilding(app)
  /\ app' = IF failure = "none"
            THEN [app EXCEPT !.live = buildsMade, !.build = "SUCCEEDED", !.failure = "none", !.hasChanges = FALSE]
            ELSE [app EXCEPT !.build = "FAILED", !.failure = failure]
  /\ UNCHANGED <<buildsMade, editsMade, menu, state, poll, publishAsks, lastSeenApp, mark, reader, crossed>>

StartedBuild == [app EXCEPT !.build = "BUILDING", !.failure = "none", !.named = TRUE]
TakenDown == [app EXCEPT !.live = 0, !.build = "none", !.failure = "none", !.shared = FALSE, !.hasChanges = FALSE]
OwnerElsewhere ==
  /\ menu.who # "owner"
  /\ \/ ~IsBuilding(app) /\ buildsMade < MaxVersions /\ app' = StartedBuild /\ buildsMade' = buildsMade + 1
     \/ app.live # 0 /\ app' \in {TakenDown, [app EXCEPT !.shared = ~@]} /\ UNCHANGED buildsMade
  /\ UNCHANGED <<editsMade, menu, state, poll, publishAsks, lastSeenApp, mark, reader, crossed>>

SomebodyEdits ==
  /\ editsMade < MaxEdits /\ app.live # 0
  /\ editsMade' = editsMade + 1 /\ app' = [app EXCEPT !.hasChanges = TRUE]
  /\ UNCHANGED <<buildsMade, menu, state, poll, publishAsks, lastSeenApp, mark, reader, crossed>>

(* React Query reads when a page comes into view, and by the interval. *)
PollFires(why) ==
  /\ poll = NoPoll
  /\ menu.who # "visitor"
  /\ why = "interval" => PublishPollInterval(state) # "never"
  /\ poll' = [stage |-> "sent"]
  /\ UNCHANGED <<app, buildsMade, editsMade, menu, state, publishAsks, lastSeenApp, mark, reader, crossed>>
PollStatus == \E why \in {"interval", "focus"} : PollFires(why)

GetStatus ==
  /\ poll.stage = "sent"
  /\ poll' = [stage |-> "read", data |-> app]
  /\ UNCHANGED <<app, buildsMade, editsMade, menu, state, publishAsks, lastSeenApp, mark, reader, crossed>>

(* The effect that watches the data: the list of projects is read again when a build ended or the app went up or down. *)
Seen(s) == [live |-> s.live # 0, building |-> IsBuilding(s), seen |-> TRUE]
\* Mutant: only the end of a build is watched for.
FollowsBuilds(now) == lastSeenApp.seen /\ lastSeenApp.building /\ ~now.building
Follows(now) == lastSeenApp.seen /\ (lastSeenApp.live # now.live \/ (lastSeenApp.building /\ ~now.building))
Moved(s) == s # state /\ Follows(Seen(s))
Shows(s) ==
  /\ state' = s
  /\ lastSeenApp' = IF s = state THEN lastSeenApp ELSE Seen(s)

(* What unpublishing waits for: the read of the app, and then that of the list. *)
Refreshing == [kind |-> "unpublish", stage |-> "refreshing"]
PollEnds == poll' = NoPoll /\ publishAsks' = publishAsks \ {Refreshing}
Readings == {a \in publishAsks : a.stage = "done" /\ a.kind # "unpublish"}

PollArrives ==
  /\ poll.stage = "read"
  /\ Shows(poll.data) /\ PollEnds
  /\ mark' = [mark EXCEPT !.read = @ \/ Moved(poll.data) \/ Refreshing \in publishAsks, !.follows = @ \/ Moved(poll.data)]
  /\ crossed' = (crossed \/ Readings # {})
  /\ UNCHANGED <<app, buildsMade, editsMade, menu, reader>>

(* A poll that fails shows nothing, whether before or after the server has read: before stands for both. *)
PollFails ==
  /\ poll.stage = "sent" /\ PollEnds
  /\ mark' = [mark EXCEPT !.read = @ \/ Refreshing \in publishAsks]
  /\ UNCHANGED <<app, buildsMade, editsMade, menu, state, lastSeenApp, reader, crossed>>

ListReadAgain ==
  /\ mark.read
  /\ mark' = [mark EXCEPT !.shown = app.live # 0, !.read = FALSE]
  /\ UNCHANGED <<app, buildsMade, editsMade, menu, state, poll, publishAsks, lastSeenApp, reader, crossed>>

-----------------------------------------------------------------------------
TogglePanel ==
  /\ menu.who # "visitor" /\ ~menu.confirm
  /\ menu' = [menu EXCEPT !.open = ~@]
  /\ UNCHANGED <<app, buildsMade, editsMade, state, poll, publishAsks, lastSeenApp, mark, reader, crossed>>

TypeSlug == \E slug \in Slugs :
  /\ InReach /\ PublishPhase(state) = "never" /\ slug # menu.slug
  /\ menu' = [menu EXCEPT !.slug = slug]
  /\ UNCHANGED <<app, buildsMade, editsMade, state, poll, publishAsks, lastSeenApp, mark, reader, crossed>>

Press(kind) ==
  /\ publishAsks' = publishAsks \cup {[kind |-> kind, stage |-> "sent", to |-> ~state.shared]}
  /\ UNCHANGED <<app, buildsMade, editsMade, state, poll, lastSeenApp, mark, reader, crossed>>
Run == (PublishIsOffered \/ UpdateIsOffered) /\ Press("publish") /\ UNCHANGED menu
AskToUnpublish ==
  /\ OwnersFoot /\ ~UnderWay("unpublish")
  /\ menu' = [menu EXCEPT !.confirm = TRUE]
  /\ UNCHANGED <<app, buildsMade, editsMade, state, poll, publishAsks, lastSeenApp, mark, reader, crossed>>
Unpublish == menu.confirm /\ Press("unpublish") /\ menu' = [menu EXCEPT !.confirm = FALSE]
KeepOnline ==
  /\ menu.confirm /\ menu' = [menu EXCEPT !.confirm = FALSE]
  /\ UNCHANGED <<app, buildsMade, editsMade, state, poll, publishAsks, lastSeenApp, mark, reader, crossed>>
SetShared == OwnersFoot /\ ~UnderWay("share") /\ Press("share") /\ UNCHANGED menu
CloseQuota ==
  /\ menu.quota /\ menu' = [menu EXCEPT !.quota = FALSE]
  /\ UNCHANGED <<app, buildsMade, editsMade, state, poll, publishAsks, lastSeenApp, mark, reader, crossed>>

(* What the server answers: the app as it then is, or why not; a publish while a build runs starts no other. *)
ServerPublishes(a) ==
  /\ a.kind = "publish"
  /\ IF IsBuilding(app) \/ buildsMade = MaxVersions
     THEN UNCHANGED <<app, buildsMade>> /\ publishAsks' = (publishAsks \ {a})
            \cup {IF IsBuilding(app) THEN [kind |-> "publish", stage |-> "done", data |-> app] ELSE [kind |-> "publish", stage |-> "quota"]}
     ELSE /\ app' = StartedBuild /\ buildsMade' = buildsMade + 1
          /\ publishAsks' = (publishAsks \ {a}) \cup {[kind |-> "publish", stage |-> "done", data |-> app']}
ServerUnpublishes(a) ==
  /\ a.kind = "unpublish"
  /\ app' = TakenDown
  /\ publishAsks' = (publishAsks \ {a}) \cup {[kind |-> "unpublish", stage |-> "done", data |-> app']}
  /\ UNCHANGED buildsMade
ServerShares(a) ==
  /\ a.kind = "share"
  /\ app' = IF app.live # 0 THEN [app EXCEPT !.shared = a.to] ELSE app
  /\ publishAsks' = (publishAsks \ {a}) \cup {IF app.live # 0 THEN [kind |-> "share", stage |-> "done", data |-> app']
                                              ELSE [kind |-> "share", stage |-> "refused"]}
  /\ UNCHANGED buildsMade
ServerDoesAsked == \E a \in publishAsks :
  /\ a.stage = "sent"
  /\ ServerPublishes(a) \/ ServerUnpublishes(a) \/ ServerShares(a)
  /\ UNCHANGED <<editsMade, menu, state, poll, lastSeenApp, mark, reader, crossed>>

(* Publishing and sharing put their answer in the query's data - a poll on its way may still overwrite it; unpublishing
   gives up such a poll, reads again, and then the list of projects too.  A failure is only told. *)
Crosses(a, lost) ==
  /\ a.stage = "done"
  /\ IF lost THEN a.kind # "share" ELSE a.kind # "unpublish" /\ (poll.stage = "read" \/ Readings # {a})
AskedReturns == \E a \in publishAsks, lost \in BOOLEAN :
  /\ a.stage \notin {"sent", "refreshing"}
  /\ publishAsks' = (publishAsks \ {a}) \cup (IF a.kind = "unpublish" /\ ~lost THEN {Refreshing} ELSE {})
  /\ menu' = [menu EXCEPT !.quota = @ \/ (a.stage = "quota" /\ ~lost)]
  /\ IF a.stage = "done" /\ ~lost
     THEN IF a.kind = "unpublish"
          THEN poll' = [stage |-> "sent"] /\ UNCHANGED <<state, lastSeenApp, mark>>
          ELSE /\ Shows(a.data) /\ UNCHANGED poll
               /\ mark' = [mark EXCEPT !.read = @ \/ Moved(a.data), !.follows = @ \/ Moved(a.data)]
     ELSE UNCHANGED <<state, lastSeenApp, mark, poll>>
  /\ crossed' = (crossed \/ Crosses(a, lost))
  /\ UNCHANGED <<app, buildsMade, editsMade, reader>>

-----------------------------------------------------------------------------
(* The public page: the code of the live version, if it is shared; each file is kept once it was fetched. *)
IsShared == app.live # 0 /\ app.shared
OpenSharedApp ==
  /\ menu.who = "visitor" /\ reader = NoReader /\ IsShared
  /\ reader' = [version |-> app.live, file |-> 0, forking |-> FALSE]
  /\ UNCHANGED <<app, buildsMade, editsMade, menu, state, poll, publishAsks, lastSeenApp, mark, crossed>>
PickFile ==
  /\ reader.version # 0 /\ reader.file = 0 /\ IsShared
  /\ reader' = [reader EXCEPT !.file = app.live]
  /\ UNCHANGED <<app, buildsMade, editsMade, menu, state, poll, publishAsks, lastSeenApp, mark, crossed>>
ForkShared ==
  /\ reader.version # 0
  /\ reader' = [reader EXCEPT !.forking = ~@]
  /\ UNCHANGED <<app, buildsMade, editsMade, menu, state, poll, publishAsks, lastSeenApp, mark, crossed>>

PanelNext ==
  \/ AppBuildEnds \/ OwnerElsewhere \/ SomebodyEdits \/ PollStatus \/ GetStatus \/ PollArrives \/ PollFails \/ ListReadAgain
  \/ TogglePanel \/ TypeSlug \/ Run \/ AskToUnpublish \/ Unpublish \/ KeepOnline \/ SetShared \/ CloseQuota
  \/ ServerDoesAsked \/ AskedReturns \/ OpenSharedApp \/ PickFile \/ ForkShared

PanelSpec == PanelInit /\ [][PanelNext]_panelVars

-----------------------------------------------------------------------------
PanelTypeOK ==
  /\ {app.live, state.live, reader.version, reader.file} \subseteq 0..MaxVersions /\ buildsMade <= MaxVersions /\ editsMade <= MaxEdits
  /\ {app.build, state.build} \subseteq {"none", "unknown", "BUILDING", "SUCCEEDED", "FAILED"}
  /\ menu.slug \in Slugs /\ poll.stage \in {"none", "sent", "read"}
  /\ \A a \in publishAsks : a.kind \in {"publish", "unpublish", "share"} /\ a.stage \in {"sent", "done", "quota", "refused", "refreshing"}
  /\ mark.follows => lastSeenApp.seen

(* Once the owner's panel has seen the app go up or down, the "Published" mark in the list of projects follows it: with no read
   of the list on its way, and the panel knowing what the server has, the mark is the server's (use-publish.ts: "so the
   Published mark on every card follows").  With one build, whatever was lost or late; with more, unless an answer was lost
   or two readings of the app crossed: the app may then go down or up without the panel having seen it otherwise. *)
MarkFollows ==
  (menu.who = "owner" /\ mark.follows /\ ~mark.read /\ state = app /\ publishAsks = {} /\ (crossed => buildsMade <= 1))
    => mark.shown = (app.live # 0)

(* Why it does, of the owner's panel.  Unless something crossed: while the *)
(* first build of a version runs, the panel will show or shows that no app *)
(* is up, and so sees it go up; and what took it down still waits for its  *)
(* answer, which has the list read.  With one build: what is on its way    *)
(* once the app was up is of an app that is up, building or taken down, so *)
(* that the panel sees it go down. *)
IsUp(s) == s.live # 0
Apps == [live : Nat, build : {"none", "unknown", "BUILDING", "SUCCEEDED", "FAILED"}, failure : {"none"} \cup Failures,
         named : BOOLEAN, shared : BOOLEAN, hasChanges : BOOLEAN]
Down == [live |-> 0, build |-> "none", failure |-> "none", named |-> TRUE, shared |-> FALSE, hasChanges |-> FALSE]
MenuShape == menu = [who |-> menu.who, open |-> menu.open, slug |-> menu.slug, confirm |-> menu.confirm, quota |-> menu.quota]
PanelShapes ==
  /\ app \in Apps /\ state \in Apps /\ buildsMade \in Nat
  /\ poll.stage = "read" => poll.data \in Apps
  /\ \A a \in publishAsks : (a.stage = "sent" => a.to \in BOOLEAN) /\ (a.stage = "done" => a.data \in Apps) /\ (a.stage = "refreshing" => a = Refreshing)
  /\ mark = [shown |-> mark.shown, read |-> mark.read, follows |-> mark.follows] /\ mark.shown \in BOOLEAN
  /\ MenuShape
EffectSawTheState ==
  /\ lastSeenApp = Seen(state) \/ lastSeenApp = NothingSeen
  /\ mark.follows => lastSeenApp.seen
PublishUnanswered == \E a \in publishAsks : a.kind = "publish" /\ a.stage = "done" /\ ~IsUp(a.data)
UnpublishUnanswered == \E a \in publishAsks : a.kind = "unpublish" /\ a.stage \in {"done", "refreshing"}
PollSaysDown == poll.stage = "read" => ~IsUp(poll.data)
GoingUpIsSeen ==
  (IsBuilding(app) /\ ~IsUp(app)) =>
    \/ PublishUnanswered
    \/ ~IsUp(state) /\ PollSaysDown /\ \A a \in Readings : ~IsUp(a.data)
MarkIsRight ==
  \/ mark.shown = IsUp(app)
  \/ UnpublishUnanswered
  \/ IsUp(app) /\ (PublishUnanswered \/ ~IsUp(state))
Uncrossed == GoingUpIsSeen /\ (mark.follows /\ ~mark.read => MarkIsRight)

AnswersSayBuilding == \A a \in publishAsks : a.kind = "publish" /\ a.stage = "done" => IsBuilding(a.data) /\ ~IsUp(a.data)
NotYetUp == IF buildsMade = 0 THEN app = NeverPublished ELSE app.live = 0 /\ app.named /\ app.build \in {"BUILDING", "FAILED"}
NobodySawItUp ==
  /\ ~IsUp(state) /\ state # Down /\ ~menu.confirm /\ ~mark.shown
  /\ poll.stage = "read" => ~IsUp(poll.data) /\ poll.data # Down
  /\ \A a \in publishAsks : a.kind = "publish"
WasUp == app = Down \/ (IsUp(app) /\ app.named /\ app.build = "SUCCEEDED")
Fits(s) == IsUp(s) \/ IsBuilding(s) \/ (s = Down /\ app = Down)
SawItUp ==
  /\ \A a \in publishAsks : a.stage = "done" => Fits(a.data)
  /\ (app = Down \/ IsUp(state) \/ menu.confirm \/ \E a \in publishAsks : a.kind # "publish") =>
       Fits(state) /\ (poll.stage = "read" => Fits(poll.data))
  /\ (poll.stage = "read" /\ poll.data = Down) => app = Down
  /\ state = Down => app = Down
  /\ (mark.follows /\ ~mark.read) =>
       \/ mark.shown = IsUp(app)
       \/ IsUp(app) /\ ~IsUp(state)
       \/ app = Down /\ (IsUp(state) \/ IsBuilding(state))
OneBuild == AnswersSayBuilding /\ IF NotYetUp THEN NobodySawItUp ELSE WasUp /\ buildsMade = 1 /\ SawItUp
PanelInvariant ==
  /\ MenuShape
  /\ menu.who = "owner" =>
       /\ PanelShapes
       /\ EffectSawTheState
       /\ ~crossed => Uncrossed
       /\ buildsMade <= 1 => OneBuild
=============================================================================
