# A TLA+ model of Vibecraft

Vibecraft builds a person's web application from a conversation: an AI turn
writes files, the files are kept as revisions, a preview runs them, and a
published build serves them to everyone.  This directory models the services in
which several actors change shared state one database statement or storage call
at a time, the proxies in front of previews and published apps, and the browser
application, whose pages act on copies of what the server has while answers,
streams and polls are under way.  TLC checks the models on small instances, and
TLAPS proves nearly every property the runs check for all values of the constants:
every safety invariant but the type invariant of the browser's parts, every action
property but one, and the refinement of the revision store (section 4).

All source paths below are relative to `src/`; `ws/`, `ai/` and `acc/` stand for the
`java/com/singularity/...` trees of `workspace-service`, `intelligence-service` and
`account-service`, and `web/` for `frontend/src/`.

## 1. The system

| Component | State it keeps | Operations | Talks to | What is hard | What makes it correct |
|---|---|---|---|---|---|
| File revisions (`ws/service/impl/RevisionPublisherImpl`, `RevisionManifestStore`, `RevisionServiceImpl`, `FileEditServiceImpl`) | `projects.current_file_revision_id`, `project_files`, `project_file_revisions` and their entries, the live layout in MinIO | publish, save by hand, restore, undo | PostgreSQL and MinIO, one call at a time; called by AI turns, the editor and history | publishes race; storage fails, or fails after it acted; rollbacks fail; the process dies half-way | one line of history, one winner per parent, exact restore points, storage that agrees with the rows |
| Live layout, blobs, starter template (`BlobStoreImpl`, `ProjectTemplateServiceImpl`) | objects under a project's prefix; immutable blobs by hash | copy, delete, adopt, seed and retry | used by revisions, previews and the capture | files without a hash are adopted later from whatever is live | a template file's original content is never lost |
| Publishing (`PublishServiceImpl`, `PublishBuilder`, `PublishSweeper`, `PublishedStore`) | the `published_apps` row, stored builds, one pointer object per app, locks in memory | publish, unpublish, share, take down, build, sweep | a builder thread, a runner pod, the scheduled sweeper, the proxy which reads the pointer | all of them interleave; failures leave the pointer, the row and the files apart | an ended build never goes live, a live app is served a whole build, every build ends |
| Publish source reader (`PublishSourceReader`) | none | capture: revision, files, revision again | reads what revisions write | publishes land between its reads | what is built is one revision |
| Live preview, runner pool (`PreviewDeploymentServiceImpl`, `PreviewLifecycle`, `PreviewReaper`, `PreviewRunnerPool`) | preview rows, pods, routes in Redis | start, stop, restart, sync, reap, claim a pod | Kubernetes, Redis, the proxy | stop during start, reaping during use, two claims of one pod | a pod serves at most one project; what is stopped stays stopped |
| Projects, quota, members (`ProjectServiceImpl`, `ProjectQuota`, `ProjectMemberServiceImpl`) | project, member and invite rows | create, rename, delete, retry template, invite, accept, leave | account-service for plans, revisions for the pointer | loaded rows written back whole; counting before inserting | pointer and quota survive concurrent requests |
| Build turns (`ai/service/impl/BuildTurn`, `ActiveGeneration`, `GenerationRegistry`, `AiGenerationServiceImpl`, `TurnRecorder`, `GenerationShutdown`) | the turns in memory: status, text, viewers, reservation | start, watch, stop, save, finish, replace a stale one, shut down | the model, workspace-service's publish, the chat tables | stop races save; viewers join at any time; 45-minute replacement | one turn per project; every viewer is told the outcome; a stopped turn changes nothing |
| Usage budget (`UsageServiceImpl`, `BudgetHolds`) | the day's usage rows, holds in memory or Redis | reserve, settle, reconcile, charge | turns and insights | requests in flight, lost holds | what is spent and held stays within the limit |
| Model output, edits, review (`ai/llm`) | none | parse, apply edits, check syntax | build turns | overlapping and repeated snippets | an edit changes what it names and nothing else |
| Subscriptions, billing (`acc/service/impl/SubscriptionServiceImpl`, `StripePaymentProcessor`) | subscription rows | activate, renew, cancel, sync | Stripe webhooks | events duplicated, late and out of order | the row ends up as Stripe's latest event says |
| Sessions (`SessionServiceImpl`, `SessionCache`, `RemoteSessionAuthenticator`) | session rows, caches in three services | sign in, rotate, revoke | every service | a cache answers after a revocation | a revoked session stops being accepted within the cache's life |
| Proxy (`proxy/*.js`) | remembered pointers, routes in Redis, visits it tracks | serve a published app, exchange a link's token for a cookie, forward to a preview | pointer objects, Redis, pods | what is remembered outlives what it names; nobody tells the proxy of a removal | an answer is no older than its time to live, an update is no outage, access ends |
| Build chat (`web/lib/project-chat-store.ts`, `generation-protocol.ts`, `hooks/use-smooth-stream.ts`, `components/ChatPanel.tsx`, `ChatEventRenderer.tsx`) | messages, the turn in progress, a failed prompt kept in the browser, a cursor over the text, the scroll | send, stop, retry, resume, adopt, load; parse, reveal, scroll | the turn's stream, the saved conversation | streams break anywhere; the text is split anywhere | an answer stands under its question; every turn ends on screen; nothing half-read |
| Sessions in the browser (`web/lib/api.ts`, `session.ts`, `firebase-auth.ts`, `pages/AuthPage.tsx`, `SecuritySettings.tsx`) | the session, everything held for a person, forms | sign in, second factor, renew, sign out, confirm, change factors | Firebase, account-service | answers outlive the session they were asked under | what is held is of whom the session is |
| Workspace (`web/pages/ProjectView.tsx`, `components/PreviewPanel.tsx`, `CodePanel.tsx`, `CodeSearchPanel.tsx`, `lib/code-lens-store.ts`, `lesson-store.ts`, `revisions.ts`) | the tab's copies of preview, files, notes, lessons | start, stop, fix; edit, save, restore; explain, ask; rename, delete | previews, files, insight | the copy is old when it is acted on; saves, streams and polls cross | no blind save; what was stopped or withdrawn stays so; nothing is asked twice |
| Home and settings (`web/pages/ProjectsDashboard.tsx`, `lib/idea-interview.ts`, `components/ShareDialog.tsx`, `PublishMenu.tsx`, `pages/Pricing.tsx`, `BillingSettings.tsx`, `UsageInsights.tsx`) | queries in the client's cache, interviews, dialogs | create, pin, star, rename, delete; invite, remove; publish; change plan | all services | optimistic changes, rollbacks, reads that join or overtake | once nothing is under way, what is shown is the server's |
| Code check, insight, ideas, suggestions, landing page, gateway, deployment | little or none | | | | out of scope, see section 7 |

Interaction in one sentence: a build turn reserves budget, asks the model, and
publishes a revision; a revision changes the live layout that previews and
publish captures read; a publish turns a captured revision into a stored build
and moves the app's pointer; deleting a project takes its app down.

## 2. The modules

| Module | What it is |
|---|---|
| `Revisions` | The revision store of one project and everybody who writes to it. |
| `RevisionsInvariant` | The inductive invariant of `Revisions` (`Consistent`, `Linear`) and the refinement mapping to `RevisionLog`. |
| `RevisionLog` | The abstract promise: a tree of files and an append-only log; one atomic step lands a whole change set on the newest revision. |
| `RevisionsProofs` | The proofs about `Revisions`. |
| `Publishing` | One owner's published apps: rows, stored builds, pointers, builder threads, requests, sweeper. |
| `PublishingProofs` | The proofs about `Publishing`. |
| `Capture` | `PublishSourceReader.capture`, composed with `Revisions`: it reads while publishes run. |
| `ChatTurn` | One person's build chat: the browser's chat store and the server's one running turn, its recording and its stream. |
| `PublishedApp` | How the proxy serves one published app from a pointer it remembers. |
| `ChatTurnProofs` | The proofs about the build chat. |
| `PreviewGate` | How the proxy lets people reach a preview: routes, tokens, cookies, visits. |
| `Session`, `SignInForm`, `SecurityPage` | A tab's session and what it holds; the forms of the sign-in page; the changes of how one signs in. |
| `ChatText`, `ChatReveal` | The reading of a reply's tagged text, and the pace it is shown at while it arrives (over `ChatText`). |
| `ChatScroll`, `TurnCard` | The conversation's scrolling, jumps and composer; the cards of one reply. |
| `PreviewFrame`, `PreviewStart` | The preview's frame, the errors it reports and what the workspace does with them; starting and stopping it. |
| `FileEditor`, `CodeSearch`, `HistoryLog` | The code tab over files that others write; find-in-files; the wording of the history. |
| `CodeNotes`, `Lessons` | The thread of explanations; what teaching mode writes on demand. |
| `IdeaInterview`, `ProjectList`, `Sharing`, `PublishPanel` | From an idea to a project; the list and its optimistic changes; members and invites; the publish menu. |
| `Billing`, `PlanPages`, `UsagePage` | The provider's subscriptions and their mirror; the plan pages; the usage page. |
| `Workspace`, `ProjectHeader` | A project's page and its notices; its header and dialogs. |
| `MCRevisions`, `MCPublishing`, `MCCapture`, `MCChatTurn` | Small instances for TLC. |
| `BrowserState` | The constants and the shared variables of the twenty-five page, proxy and ledger modules. |
| `MCBrowser` | These modules in one run, each by itself. |
| `PageProofs`, `ShownProofs`, `ProxyProofs` | The proofs about the single parts: thirteen pages, the eight parts that show what a server has or how a reply reads, the two proxies. |
| `BrowserProofs` | The theorems about the run as a whole. |
| `KeptElements`, `KeptElementsProofs` | The list operation "keep what satisfies", as a recursive function, and the facts about it the proofs need. |

### Revisions

| Variable | Code |
|---|---|
| `current` | `projects.current_file_revision_id`, 0 for NULL |
| `files` | `project_files`: `hash` is `content_hash` (`NoHash` for NULL); `born` tells two rows of one path apart |
| `live` | the live objects in MinIO |
| `revs` | `project_file_revisions` and entries; the index is the IDENTITY id |
| `pub` | the local variables, and the persistence context, of each request |
| `loaded` | a `Project` entity that another request has loaded and will save |
| `history` | history variable: the trees that landed |

An action is one transaction or one storage call of the code, in the code's
order: read the parent, check the size (`CheckSize` is also where Hibernate's
first-level cache is filled, since the services run with open-in-view and later
queries answer with the entities already loaded), stage each entry (`StageEntry`
adopts a template file's bytes from the live layout), record the manifest,
validate (`Reject`), apply each entry, compare-and-swap together with rows and
status (`ApplyAndAdvance`) or lose (`LoseRace`), roll back entry by entry, mark the
verdict.  A save by hand has `OpenSave`, `CheckSave`, `BeginSave` before it, a restore
`ChooseRestore` and `BeginRestore`, and `RecordRestoreTarget` after it.
`reconstructSnapshot`, `findOriginalContent`, `stateFor` and `diffAgainstCurrent` are
operators.  A rename, a soft delete and a template retry are `LoadProject` and
`SaveProject`: `Project` has neither `@Version` nor `@DynamicUpdate`, so saving it
writes the pointer it loaded.

### Publishing

`apps` is the row, `pointer` the object the proxy reads, `stored` the files of each
build, `builder` the thread of each build (`PublishBuilder.run`), `publishing`, `taking`
and `sharing` the requests, `sweep` the row a pass of `PublishSweeper` works from.
Every conditional UPDATE of `PublishedAppRepository` is one atomic step with its
WHERE clause as guard (`Current`).  Time is abstracted: a heartbeat can go stale
whenever the code sends none (45 s while files are stored), a retired prefix can
come of age at once.  `NotOvertaking` says what the timings rule out unless the
fault "overtake" is on: a thread that stands still for as long as a whole later
build (more than 30 s and an installation) takes.

### Capture

`CaptureSpec` runs `StartCapture`, `ListFiles`, `ReadFile` and `ReadRevisionAgain` (at most
three attempts) between any steps of `Revisions`.

### ChatTurn

`ui` is the chat store (`useProjectChat`), with a pair of messages per prompt;
`tasks` are its pending requests, each with what it will do with the answer;
`conn` is the open stream, whose own end is read before anything after it; `registry`,
`gens` and `history` are the server's one running turn, all turns it ran, and the
saved conversation.  A text is abstracted to the turn it belongs to, so "whose
answer is this" is what the model tells apart.  `RecordTurn` (the events are saved)
and `FinishTurn` (the registry forgets the turn and its viewers are told) are two
steps, in that order, with a restart of the service possible before and between.
The browser's part is one action per callback: a stream that opens, fails to open,
ends, breaks off or errs; the reconnect, which asks whether a turn runs and then what
was saved (`Reconnected`, `AdoptSavedTurn`); adoption of a saved turn; giving up, which
keeps the prompt; the first load of a page, which resumes or shows a failed turn
kept from before.

### The pages, the proxies, the ledgers

Each of these modules is one actor's copy of some state, the state itself where
it matters, and the requests between them.  The conventions are the same in all:

* a request under way is a record, or a member of a set; the server reads or
  carries out at one step and the answer arrives at a later one, so anything may
  happen in between; an answer may also be a failure, before or after the server
  acted, where the code tells the two apart or fails to;
* a handler is one action from its early returns to the last state it sets; what
  follows an `await` is the action of the answer;
* refs, module variables and closures that outlive a render are variables or fields of
  their own, as stale as the code leaves them;
* which button is offered is a guard named `...Offered`, from the code's `disabled` and
  conditional rendering;
* "server" actions that other people or the platform take (another member saves, a
  preview idles out, a card is declined, a build is swept) are `\E` over what the code
  of the services can do, and are marked external in `PROJECT.json` where that code is
  not in the repository;
* React Query is modelled by what it does for this code: an invalidation cancels a
  read under way if there is data already and joins it if there is none, and setting a
  query's data cancels nothing.

Widths, wording, icons, animation and focus are left out.  Time is a bounded clock
in `PublishedApp` and `PreviewGate`, whose properties are about durations; elsewhere a
timer is an action that may happen at any time after it was set.

### MCBrowser

A run for each of twenty-five small modules would say nothing that one run does not:
they share no state.  `MCBrowser` has each over the same variables `v1` to
`v20` (`P == INSTANCE Page WITH state <- v1, ...`), with `part` naming the one that
moves; the instances are declared where they are proved about, in `PageProofs`,
`ShownProofs` and `ProxyProofs`, which `MCBrowser` extends or instantiates; the variables a part does not have stay "unused".  Every behaviour of every
part is a behaviour of `BrowserSpec` and vice versa.  A property of several parts is
one `CASE` over `part` where it says the same thing of each of them (what is shown is
the server's, nothing is asked for twice).

## 3. What is checked

| Run | Instance | What it shows |
|---|---|---|
| `RevisionsRaces` | 2 paths, 2 contents, one AI turn of 2 change sets, one restorer, 3 revisions; storage, lost answers, failing rollbacks; fair | types; `LinearHistory`; `ConflictHasOneWinner`; `PreviousIsWhatWasReplaced`; the invariant `Linear`; `RestoresAreExact`; the publisher implements `RevisionLog`; `EveryRevisionSettles` |
| `RevisionsUser` | a template file; one person builds, saves, restores, undoes; another turn on the other path; storage failures; 3 revisions | `RestoresAreExact`, also where restore points need original contents; `UncontendedPathsAreFaithful` |
| `RevisionsRename` | a template file, 2 turns, a rename; storage, database, crash; 3 revisions | `ChainIsApplied`, the invariant `Consistent`, `OutcomesAreFinal` although the pointer may be put back |
| `RevisionsLostRace` | 2 turns over one template file | VIOLATION of `LandsCompletelyOrNotAtAll` |
| `RevisionsStaleProject` | 1 turn, 1 rename | VIOLATION of `ForwardOnly` |
| `CaptureSettled` | 1 turn beside the capture, 5 revisions, so that every attempt can be overtaken | types; `CaptureIsOneRevision`: what is captured is one revision, if none was half applied at the second read |
| `CaptureMixed` | 1 turn | VIOLATION of `CaptureIsTheRevision` |
| `PublishingFaults` | 1 app, 2 builds, publish, unpublish, delete, all faults; fair | types; `EndedBuildsNeverGoLive`; `OneBuildUnderWay`; `LiveOnlyAdvances`; `BuildsEnd` |
| `PublishingServes` | 1 app, 3 builds of 2 files, publish, unpublish, share | `LiveIsServed` |
| `PublishingAllowance` | 2 apps, 1 build of each, a plan for 1 | VIOLATION of `WithinPlan` |
| `ChatTurns` | 2 prompts, 2 turns, 1 fault, 2 reconnects, 1 retry of a read; fair | types; `OnlyTheTurnInProgressIsFollowed`; `AnswersItsQuestion`; `FailedPromptIsKept`; `LostIsNotSaved`; `StreamingEnds` |
| `Browser` | every page, proxy and ledger by itself, 1.7 million states together | types and twelve properties, below |

The properties of `Browser`, and the modules they are about:

| Property | Says | Of |
|---|---|---|
| `ServedAsPublished` | A visitor is answered by what the pointer said no longer ago than it is remembered for and storage takes, and a pointer's absence is remembered for less; a page is missing for want of its build only when the pointer moved around the time the request began | `PublishedApp` |
| `AccessEnds` | A person removed from a project reaches its preview no longer than a token made before lasts; whom the owner was told is removed is | `PreviewGate`, `Sharing` |
| `HeldIsTheirs` | What a page holds is of the person the session is of | `Session` |
| `NothingWithdrawn` | An error of a page that was left is not shown; an exchange that was cleared or deleted is not saved | `PreviewFrame`, `CodeNotes` |
| `StopStands` | The tab does not start again what the person stopped | `PreviewStart` |
| `NothingUnchecked` | A save never overwrites contents its writer has not seen; a form is sent with the fields that were checked | `FileEditor`, `SignInForm` |
| `AnswersAreForTheQuestion` | Questions and brief are of the idea as it reads now; hits are for the text in the box | `IdeaInterview`, `CodeSearch` |
| `ShownIsTheServers` | Once nothing is under way: the list, the published mark, the plan one was told of, the "same as now" revision, the listed authenticator and the mirrored subscription are the server's or the provider's | `ProjectList`, `PublishPanel`, `PlanPages`, `HistoryLog`, `SecurityPage`, `Billing` |
| `NoHalfReading` | While a reply arrives, no tag of which only half came is shown | `ChatReveal` |
| `ReadingGoesForward` | The key that goes up goes up; a lesson being written only grows | `ChatScroll`, `TurnCard` |
| `TurnReadsAsWritten` | A reply reads as the model wrote it, however it was split on the way; a ticked step stays ticked | `ChatText` |
| `NothingTwice` | One paid request per lesson at a time, each event listed once, a carried prompt sent once, a name and a code asked for once | `Lessons`, `UsagePage`, `Workspace`, `ProjectHeader`, `SignInForm` |

**Bounds.** `MaxRevision` and `MaxBuild` bound ids, so the system stops when they are
used up and deadlock is not checked.  Two paths distinguish a change set that is
half applied, three revisions a history with a middle (a first change, one on top
of it, a restore to before either), five revisions let two landings fall in each
of the first attempts of a capture.  `ChatTurns` has two prompts, so that an answer
can stand under the wrong one, and two turns, so that one can be followed while
another is current; one fault falls at any step, and two reconnects reach the limit
after one that succeeded.  In `Browser` each bound is the least at which the part's
hazard happens (with one publish and one second per mirrored event, the excuses that
`MarkFollows` and `MirrorCatchesUp` make for answers that cross never apply in the run); `PublishedApp` runs the clock
to 5 with a pointer kept for 3, so that a pointer expires while a request waits;
its invariants also hold with two concurrent visits (22.8 million states), too many
to keep in the run.  Two builds give one that replaces another,
three give a second retired prefix.  Two contents suffice because code only
compares hashes.

**Fairness.** `Revisions`: each request's thread keeps running (weak fairness of
`Progress(a)`); nothing blocks it, since every call has a timeout that ends in one
of the modelled failures.  `Publishing`: requests, builder threads and the sweeper
are weakly fair for the same reason and because the sweeper is scheduled with a
fixed delay; failing a build whose thread is gone is strongly fair, because each
pass does it before anything else and a pass that began cannot postpone the next
for good.  `ChatTurn`: weak fairness of the server's steps (calls to the model have
timeouts), of the browser's pending requests (each settles) and of reading the stream;
nobody obliges the person or a fault to act, and the bounds on faults and turns
(`MaxFaults`, `MaxTurns`) only limit what they do.  `Browser` has no fairness: its
properties are safety, and "once nothing is under way" is a state.

**Mutants.** Each property is paired in `PROJECT.json` with a changed definition (a
compare-and-swap that always advances, a snapshot that takes the farthest entry,
a sweep that keeps only the live build ...) under which its run fails.

## 4. What is proved

Every theorem holds for all values of the constants that satisfy the module's
assumption (`RevisionsAssumption`, `PublishingAssumption`, `BrowserAssumption`; none for
the chat), unless it names a hypothesis; each hypothesis is explained here.  The
theorems with the property each states are listed in `PROJECT.json`.

**`RevisionsProofs`**

* Without a hypothesis, whatever fails and crashes and whoever writes a project row
  back: `TypeCorrect`, `AlwaysConsistent`, `ChainAlwaysApplied`, `OutcomesStayFinal`.
  `Consistent` is inductive: each request's sets fit its step (`RequestsFit`), it owns
  the one STAGING revision it recorded (`RequestsOwnTheirRevision`), and whatever is
  named as a parent has landed and is older (`ParentsLanded`).  Ownership is what makes
  outcomes final: only the owner's step changes a STAGING revision.  A crash drops
  the owner and leaves the revision in STAGING for good, which no step then touches.
* Where nobody writes a project row back (`Editors = {}`; a stale row puts the pointer
  back, as `RevisionsStaleProject` shows): `AlwaysLinear`, `HistoryIsLinear`,
  `ConflictsHaveOneWinner`, `PublishingIsALog`, `PreviousIsReplaced`.  `LinearHistory` alone is
  not inductive: that a landing extends the line needs the request to own its
  revision, newer than the pointer (`Consistent`), and that a loser has one winner
  needs the history to hold exactly the applied revisions, in the order of their
  ids (`HistoryIsComplete`), and the winner to be there when the compare-and-swap
  fails (`LosersHaveAWinner`).  `PublishingIsALog` is the refinement: every step of
  `Revisions` is a landing of `RevisionLog` or leaves tree and log alone.  For
  `PreviousIsReplaced` the invariant `Replaced` adds that a revision names the kind of request
  it is of (`SourcesRecorded`) and that what a request has read is still what the rows
  say, as long as the parent it read is the current one (`ReadsAreCurrent`; not so of a
  save by hand, which loads its row before its parent).
* Where the worst that happens is a storage call that throws
  (`Faults \subseteq {"storage"}`): `AlwaysUncontended` and `UncontendedStayFaithful`.  A call that acted
  and then failed, a rollback that fails or a crash leave what they leave, as the code
  says.  Of a path that one actor alone names, the requests name only their own paths
  (`RequestsNameTheirPaths`), the live object is what the row says or what its actor's
  request is putting there (`PathsFollowTheirActor`), and each path of a request in its
  apply loop is applied or to do (`AppliedOrToDo`).
* `RestoresStayExact`, where `Editors = {}` and, if there is a template, only one actor names
  each of its paths and no worse happens than a storage call that throws
  (`TemplateIsKept`; without a template any fault may): a template file has no hash until
  a publish adopts its live bytes, which another publish may have replaced by then.  `Exact` says
  of each tree in the history, path by path, that it is what the last landing to name
  the path wrote (`TreesAreWritten`), that the first to name a path of the template recorded
  what it replaced (`FirstReplacesTheTemplate`), and that a save is of a file there is
  (`SavesAreOfFiles`); with it the chain a restore walks computes the tree it aims at,
  from the choosing of the target to the landing (`RestoresAim`).
* `CaptureIsWellTyped` without a hypothesis, and `CaptureStaysOneRevision` where nothing
  fails, no row is written back and one actor publishes: what a capture returns after its
  second look at the pointer, if nothing was half applied then, is one revision.  With two
  publishers or a rollback it is false of the code (`CaptureMixed`).

**`PublishingProofs`**, any number of apps, files and
builds, with every fault: `TypeCorrect`, `EndedBuildsStayEnded`, `OneBuildAtATime`,
`LiveAdvances`.  The invariant adds `RowsInOrder` (no build is newer than the row's
counter, and one under way is newer than the live one); the conditional updates
then make an ended build powerless over the row.  `LiveStaysServed`, where the worst is a
storage call that throws: `Serving` follows every build, request and sweep through the
phases between which the row, the pointer and the files disagree.  Each of the other
faults (a lost answer, a failing statement, a crash, a thread that stands still for a whole later
build) really takes a live app off the air until the sweeper or the next publish; they are
in section 5.

**`ChatTurnProofs`**: `OnlyOneTurnIsFollowed`, `ChatIsWellTyped`,
`AnswersStandUnderTheirQuestions`, `FailedPromptsAreKept`, `LostTurnsAreLost`.  A request
that opens a stream comes from one that asked whether to, so `FollowingInvariant` speaks
of all that may lead to a stream (`Carries`): of those about the turn in progress there is
at most one, and none beside a stream; those about a turn that was stopped or
overtaken find it no longer live and send nothing on.  `StoreInOrder` adds that the turn in
progress is the newest, is not stopped, and streams, so that a prompt or a load, which
look at `streaming`, begin a turn only when none is followed.  `ConversationInvariant` adds
the server's turns, the saved conversation and the one turn that runs (`ServerFits`), that each
pair of messages fits the turns of the tab and of the server (`TalkFits`), that a failed prompt is
kept or saved (`FailedKept`), and that what each request under way has read is saved (`TasksFit`).

**`ProxyProofs`**, for any numbers of builds and requests, any
times to live (`Lifetimes`: they are natural numbers): `AnswersStayRecent`, `UpdatesAreNoOutage`, `AccessEnded`,
`VisitsAreBounded`.  `ServingInvariant`
adds to what the answers say that a pointer which is remembered was the app's when it
was read (`RememberedWasTrue`), and keeps for each request, at each phase, how old what
it was told may be; the history variable `lastTrue` only grows (`HistoryIsOfThePast`).
`GateInvariant`: a cookie or a link's token was made for someone who was a member then
(`MadeForAMember`).  `VisitsInvariant`, for a finite set of hostnames: the proxy remembers
at most `MaxTracked` visits, since a visit that is written down drops
as many of the others as there are too many.

**`BrowserProofs`** states what the run `Browser` checks, over the parts: `StopStanding`,
`WithdrawnIsGone`, `UncheckedIsNotSent`, `AnswersMatch`, `OnceIsEnough`, `HoldingsAreTheirs`,
`AccessHasEnded`, `AppsAreServed`, `ShownStaysTheServers`, `HalvesAreNotRead`, `ReadingStaysForward`.
A behaviour stays with its part (`PartsTakeNoTurns`), so a theorem is the conjunction of
its parts' inductive invariants, each named `...Invariant` in the part's own module and
proved of it, action by action, in `PageProofs` or `ShownProofs`.  Those that say most:

* `SessionInvariant`: a page without a session is left for one only by signing in, which clears
  what is held; what a page holds or loads is of its person, or was asked for under an earlier
  session and is marked `late`; and the cookie it loads with is of that person or gone.
* `EditorInvariant`: the person has seen the text that is edited and the one it began as, which
  is the one its save replaces, while it is edited and while it is being saved.
* `FrameInvariant`, `NotesInvariant`, `IdeaInvariant`, `SearchInvariant`: a message, a stream or an
  answer under way still names what it is of; what names something left, cleared or retyped is
  dropped when it arrives.
* Of the six things shown: while no change of a project is under way, the list and a
  read that has been answered agree with the server, and a copy being made is under a name
  that is in neither (`ListInvariant`); the mark
  follows because the panel sees an app go up and down (`PanelInvariant`, with the
  two readings of "saw": `Uncrossed` for any number of builds, `OneBuild` whatever was
  lost or late); the plan page's copies are each at least as recent as what was told
  (`PlanInvariant`); the revision that is the same as now is computed from a chain whose
  files are the recorded ones (`LogInvariant`); the last change of a subscription either was
  taken, or comes with an event that will be, or is named as missed (`BillingInvariant`).
  `MarkFollows` and `MirrorCatchesUp` except what was `crossed`, `unordered` or `missed`
  because the code is wrong there (section 5); the invariants show that nothing else is.
* `ScrollInvariant`: the panel knows which message it is jumping to until the person breaks the
  jump off, so "up" starts from there and not from where the scrolling has come.
* `CardInvariant`: a lesson's text reads alike however its lines are grouped, since sections are
  keyed by the line of their heading.
* `RevealInvariant`: the position kept for a remount is the cursor's, and neither passes the
  end of what can safely be shown, unless a replay has taken the text back.

**How much of a recursive definition can be proved.**  The induction theorems of the library
take an operator and cannot be instantiated by the provers, but a recursive function can be
reasoned about directly: that it exists, and then what its least counterexample would be.  `KeptElementsProofs`,
`ScanProtocol` and `AdvanceCursor` of the reveal are done so.  `SelectSeq`, folds and RECURSIVE
operators stay out of reach (no module declares a RECURSIVE one:
`Chain`, the recursive query over parents, is written as the least set closed
under "parent of", and the folds of the code are functions over paths).

**Only model-checked.**  Liveness under fairness, which with ENABLED is beyond the
provers: `EveryRevisionSettles`, `BuildsEnd`, `StreamingEnds`.  `TurnReadsAsWritten`: what the parser's
fold computes for every text.  `BrowserTypeOK`: the proofs of a part carry
the types they need in its invariant (`BillingShapes`, `ListShapes`, `PlanShapes` ...) rather than
all of it.  The inductive invariants were checked by TLC on the
instances of section 3 before they were proved; those that say nothing a reader of the
runs needs beside the property they support (`Replaced`, `Uncontended`, `Exact`, `RestoresAim`,
`Serving`) are not among the properties of the runs.

## 5. Where the code and its documents disagree

Shown by a run:

* **A lost race damages the winner's files** (`RevisionsLostRace`).  The loser rolls
  back, after the winner landed, to the content it read while staging.
* **A rename can put the pointer back** (`RevisionsStaleProject`).
* **A capture can mix two revisions** (`CaptureMixed`): files are applied before the
  pointer moves, so reading the pointer twice does not detect it.
* **Two first publishes pass one allowance** (`PublishingAllowance`): only live apps count.

Behaviours the same modules reach, for which no run is kept:

* `applyAndAdvance` throwing leaves the change set applied (`DatabaseThrows`), although
  `file-revisions.md:53` says in-request failures roll back cleanly.
* A save by hand lands over a build that finished after its check
  (`FileEditServiceImpl:73`), although the comment above says the build wins.
* A template file adopted while another publish has its bytes applied records an
  original content the project never held (`RevisionPublisherImpl:230`).
* A builder that stands still between its last phase and its pointer writes it over a
  newer build's (`PublishBuilder:178`).
* A failing `markLive` leaves a live app's pointer on the discarded build (`PublishBuilder:198`).
* An unpublish that crosses the end of a build leaves the app online with an unpublished
  row until the sweeper comes (`PublishServiceImpl:145`), and for good if the sweep has
  cleared the retired prefix by then (`PublishSweeper:80`).
* A deletion between finding the project and claiming the build does not stop the build
  (`PublishServiceImpl:117`).
* Two updates in quick succession retire two prefixes and the row remembers one; a sweep
  that read the row before the second forgets it (`PublishSweeper:80`).

Of the browser and the proxies, found while modelling.  The properties are stated so
as to hold of the code; what they leave out is named here.

* The chat: a resumed stream may be of another turn (`project-chat-store:434-473`);
  a prompt repeated word for word may adopt the earlier reply (347-356); a resume
  refused outright is shown as a failure though the turn runs (558-596); an older load
  of the history may overwrite a newer turn (664-709); clearing checks for a stream
  only before it asks (821-835); a retry that joins a running turn forgets the kept prompt.
* The sign-in page and the security page ask the password policy before the form is shown
  as busy (`AuthPage:214-232`), so it may be sent twice or switched meanwhile.
* A renewal under way when the person signs out signs them back in; an answer asked for
  under one session may arrive under the next (`late` in `Session`, left out of `HeldIsTheirs`).
* The security page: the answer of a change closes a later setup; confirming with Google
  accepts another account; a change that was made and then failed to renew is reported
  as failed.
* The preview: a held error is released in the very render in which the build turns out
  finished (`PreviewPanel:193-218`), before the refresh the header comment (32-35) says is
  awaited; a 401 or 404 status page that comes within the throttle is ignored; a blank-page
  report is lost when a build error overwrites it.
* The editor: Edit pressed on a second file while the first is opened replaces what was
  typed meanwhile (`CodePanel:335-359`); a save answered while a reply streams does not
  re-read (`project-chat-store:805-807`); a restore drops an unsaved draft.
* Notes: an explanation asked for while another is written is dropped silently
  (`code-lens-store:380-383`), although its header (18) says it is not; an exchange deleted
  while its save is under way comes back on the next load.
* Lessons: a later numbered section drops the closing section already shown
  (`lesson.ts:184-203`).
* Home: a creation under way when the person leaves still navigates (`ProjectsDashboard:345-350`).
* Lists: a rollback restores the whole list as it was, undoing what else changed
  (`use-project-actions:79-100`); the next read repairs it.
* Sharing: accepting an invitation while its role is changed gives the old role
  (`ProjectMemberServiceImpl:112-186`).
* Publishing: a stale poll may overwrite the answer of a press (`use-publish:53-69`), and the
  mark of the menu stays wrong when a press is carried out and its answer is lost, until
  the next read (`MarkFollows` speaks of the marks no such crossing spoiled); a public
  page's files may be of two versions (`SharedApp:9-12` says they are not).
* Billing: two events of one second are ordered by arrival; an event for an unknown
  subscription is acknowledged and dropped; two checkouts opened before either is paid
  make two subscriptions.  A live read of the provider is stamped with the moment it was
  begun and an event with the whole second it was created in, and an older stamp loses
  (`StripePaymentProcessor:397-400`, `BillingController:115`): an event created after a read, in the
  same second, is dropped, although both comments say that any later event applies
  (`SubscriptionServiceImpl:56-58`).
* The sign-in form: an account asked for while a code is being checked ends the waiting for the
  code too, when it is refused, and then another code may be sent (`AuthPage:214-232`);
  `OneCodeAtATime` leaves this out (`crossed`).
* The proxy does not judge an open websocket again; it remembers a visit before Redis has it.
* The usage page appends an earlier visit's pages below newer ones (`UsageInsights:160-164`).

## 6. Properties and hazards

`PROJECT.json` lists each hazard with its line and the properties that watch it, and
says why where none does.

## 7. Plan, and what is not modelled

Done: `Revisions`, its log, `Capture`, `Publishing`, `ChatTurn`, the pages, the proxies and
billing, and the proofs of section 4.

Left, in order:

1. The server's side of a build turn in full, with the usage budget: stop against save,
   the 45-minute replacement, shutdown, reservations and settlements.
2. `Preview` with the runner pool: rows, pods and the reaper; a pod serves one project.
3. The caches of sessions in three services; the project quota.
4. The template retry as an action of `Revisions`.
5. Proofs: the grammar of `ChatText` as a recursive function, so that `TurnReadsAsWritten` can
   be proved by its least counterexample as the reveal's was.

Partly modelled: the live preview (its session as a tab sees it, and the gate before it),
build turns (as the browser can tell them apart), members (invites and roles, not the quota).

Not to be modelled: prompts, the wording parsers of the model's output on the server, the
code check, the landing page's demonstrations, layout and icons, gateway, discovery and
deployment manifests: text, drawing, wiring or I/O with no state shared between actors.

The map of `PROJECT.json` names, for each definition, the lines it models; a definition whose
lines all lie inside lines that other entries of its module name has no entry of its own.
