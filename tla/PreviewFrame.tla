----------------------------- MODULE PreviewFrame -----------------------------
(***************************************************************************)
(* The frame of the Preview tab: what the page inside says (the proxy's    *)
(* reporter.js, its status pages), what the panel makes of it              *)
(* (PreviewPanel.tsx, preview-frame.ts), and what the workspace does with  *)
(* an error it was told of (ProjectView.tsx, preview-fix.ts).              *)
(*                                                                         *)
(* The runner takes a change in, or restarts, on its own; the tab knows    *)
(* what it was told when it last asked.  Messages of a page that was       *)
(* replaced in the same frame are still on their way; those of a frame     *)
(* that was unmounted are not heard.                                       *)
(***************************************************************************)
EXTENDS Naturals, Sequences

CONSTANTS
  MaxLinkRefreshes,  \* MAX_LINK_REFRESHES
  MaxFixAttempts,    \* MAX_FIX_ATTEMPTS
  MaxLoads,          \* bound: pages loaded
  MaxChannel,        \* bound: messages on their way
  MaxErrors,         \* bound: errors the pages report
  MaxBuildTurns,     \* bound: responses, each of which may change files
  Statuses           \* the proxy's own pages that may come, of 401, 404 and 502

VARIABLES
  runner,    \* the server's preview: status, when it was ready, its revision, whether it is updating
  inside,    \* the page in the frame
  channel,   \* its messages on their way to the tab
  tab,       \* PreviewPanel's state and refs, and what ProjectView keeps of the preview
  asks,      \* what the server is being asked about the preview for
  withdrawn  \* history variable: held errors the page took back

frameVars == <<runner, inside, channel, tab, asks, withdrawn>>

NoError == [kind |-> "none", n |-> 0, turn |-> 0]
BlankPageError(turn, n) == [kind |-> "blank", n |-> n, turn |-> turn]
NoPage  == [kind |-> "none", load |-> 0, status |-> 0, overlay |-> FALSE, blank |-> FALSE]

RunnerAtFirst == [status |-> "RUNNING", ready |-> 1, revision |-> 0, updating |-> FALSE]

FrameInit ==
  /\ runner = RunnerAtFirst
  /\ inside = [NoPage EXCEPT !.kind = "loading"]
  /\ channel = <<>> /\ asks = {} /\ withdrawn = {}
  /\ tab = [known |-> RunnerAtFirst, view |-> "loading", spoken |-> FALSE, status |-> 0,
            mounts |-> 0, young |-> TRUE, atLoad |-> 0, refreshes |-> 0, throttled |-> FALSE,
            held |-> NoError, shown |-> NoError, hadError |-> FALSE,
            building |-> FALSE, settling |-> FALSE, turn |-> 0,
            reloadDue |-> FALSE, attempts |-> 0, errors |-> 0]

-----------------------------------------------------------------------------
(* The runner.  Synchronizer and bootstrapper, as the tab sees them.       *)

TakesInAChange ==
  /\ runner.status = "RUNNING" /\ ~runner.updating
  /\ runner.revision < MaxBuildTurns
  /\ tab.building
  /\ runner' = [runner EXCEPT !.revision = @ + 1, !.updating = TRUE]
  /\ UNCHANGED <<inside, channel, tab, asks, withdrawn>>

Synced ==
  /\ runner.updating
  /\ runner' = [runner EXCEPT !.updating = FALSE]
  /\ UNCHANGED <<inside, channel, tab, asks, withdrawn>>

(* A new package is installed: the dev server is bounced. *)
Bounced ==
  /\ runner.updating
  /\ runner' = [runner EXCEPT !.status = "CREATING", !.updating = FALSE]
  /\ UNCHANGED <<inside, channel, tab, asks, withdrawn>>

Ready ==
  /\ runner.status = "CREATING"
  /\ runner' = [runner EXCEPT !.status = "RUNNING", !.ready = @ + 1]
  /\ UNCHANGED <<inside, channel, tab, asks, withdrawn>>

-----------------------------------------------------------------------------
(* The page inside. *)

Post(message) == channel' = Append(channel, message)

(* The proxy's page for a runner that does not answer reloads itself; the  *)
(* others stay. *)
ReloadsItself(status) == status \in {502, 503}

(* A page starts: it is the app, one of the proxy's pages, or one that     *)
(* says nothing. *)
PageStarts ==
  /\ inside.kind \in {"loading", "app"} \/ ReloadsItself(inside.status)
  /\ inside.load < MaxLoads /\ Len(channel) < MaxChannel
  /\ \/ inside' = [NoPage EXCEPT !.kind = "app", !.load = inside.load + 1] /\ Post([kind |-> "ready"])
     \/ \E status \in Statuses :
          /\ inside' = [NoPage EXCEPT !.kind = "statusPage", !.load = inside.load + 1, !.status = status]
          /\ Post([kind |-> "statusPage", status |-> status])
     \/ inside' = [NoPage EXCEPT !.kind = "other", !.load = inside.load + 1] /\ UNCHANGED channel
  /\ UNCHANGED <<runner, tab, asks, withdrawn>>

(* report and checkOverlay: the compile error's overlay stays up until it  *)
(* is taken down, an error in the running page is reported and gone. *)
Reports(kind) ==
  /\ inside.kind = "app" /\ Len(channel) < MaxChannel /\ tab.errors < MaxErrors
  /\ kind = "BuildError" => ~inside.overlay
  /\ inside' = [inside EXCEPT !.overlay = @ \/ kind = "BuildError"]
  /\ Post([kind |-> "error", source |-> kind])
  /\ UNCHANGED <<runner, tab, asks, withdrawn>>

(* checkOverlayGone *)
OverlayGone ==
  /\ inside.overlay /\ Len(channel) < MaxChannel
  /\ inside' = [inside EXCEPT !.overlay = FALSE]
  /\ Post([kind |-> "errorCleared", source |-> "BuildError"])
  /\ UNCHANGED <<runner, tab, asks, withdrawn>>

(* checkBlank: a page with its overlay up does not count as blank. *)
CheckBlank ==
  /\ inside.kind = "app" /\ Len(channel) < MaxChannel
  /\ \/ /\ ~inside.blank /\ ~inside.overlay /\ tab.errors < MaxErrors
        /\ inside' = [inside EXCEPT !.blank = TRUE] /\ Post([kind |-> "blank"])
     \/ /\ inside.blank
        /\ inside' = [inside EXCEPT !.blank = FALSE] /\ Post([kind |-> "rendered"])
  /\ UNCHANGED <<runner, tab, asks, withdrawn>>

(* The page moves within itself: by its own links, or because the toolbar  *)
(* or the address asked it to. *)
Location ==
  /\ inside.kind = "app" /\ Len(channel) < MaxChannel
  /\ Post([kind |-> "location"])
  /\ UNCHANGED <<runner, inside, tab, asks, withdrawn>>

-----------------------------------------------------------------------------
(* The panel's effects, as functions of its state.                         *)

HoldsPreviewErrors(t) == t.building \/ t.settling \/ t.known.updating

(* onRuntimeError: ProjectView remembers that the preview had one. *)
Show(t, error) == [t EXCEPT !.shown = error, !.hadError = TRUE]

(* A held error is shown once nothing holds it. *)
Released(t) ==
  IF HoldsPreviewErrors(t) \/ t.held = NoError THEN t ELSE [Show(t, t.held) EXCEPT !.held = NoError]

(* The effect that follows the frame's key and the time the preview was    *)
(* ready. *)
Mounted(t) ==
  [t EXCEPT !.view = "loading", !.spoken = FALSE, !.status = 0, !.held = NoError,
            !.young = TRUE, !.atLoad = t.known.revision]

(* reloadKey: the frame is another element. *)
Reloaded(t) == Mounted([t EXCEPT !.mounts = @ + 1])

FrameMissedAnUpdate(t) == t.known.revision # t.atLoad /\ t.young

(* What the tab was told, and the effects that follow it, in their order.  *)
Learn(t, told) ==
  LET was      == t.known
      released == Released([t EXCEPT !.known = told])
      mounted  == IF told.ready # was.ready \/ told.status # was.status
                  THEN [Mounted(released) EXCEPT !.refreshes = 0]
                  ELSE released
      current  == IF told.status = "RUNNING" /\ told.revision # was.revision /\ FrameMissedAnUpdate(mounted)
                  THEN Reloaded(mounted)
                  ELSE mounted
  IN  IF told.status = "CREATING" /\ was.status # "CREATING"
      THEN [current EXCEPT !.held = NoError, !.shown = NoError]
      ELSE current

(* The frame is there while the preview runs; another element hears        *)
(* nothing of the one before. *)
Becomes(t) ==
  /\ tab' = t
  /\ IF t.known.status # "RUNNING" THEN inside' = NoPage /\ channel' = <<>>
     ELSE IF t.mounts # tab.mounts \/ tab.known.status # "RUNNING"
     THEN inside' = [NoPage EXCEPT !.kind = "loading", !.load = inside.load] /\ channel' = <<>>
     ELSE UNCHANGED <<inside, channel>>

-----------------------------------------------------------------------------
(* Messages. *)

\* Mutant: an error the page takes back stays held.
WithoutHeldNot(t, source) == t

WithoutHeld(t, source) == [t EXCEPT !.held = IF @.kind = source THEN NoError ELSE @]

WithoutShown(t, source) == [t EXCEPT !.shown = IF @.kind = source THEN NoError ELSE @]

StatusPageAction(status) ==
  CASE status \in {401, 403} -> "freshLink"
    [] status = 404          -> "askServer"
    [] OTHER                 -> "wait"

(* handleStatusPage: what the tab asks for with a purpose; asking the      *)
(* server what happened is a poll. *)
AsksFor(t, status) ==
  IF ~t.throttled /\ StatusPageAction(status) = "freshLink" /\ t.refreshes < MaxLinkRefreshes
  THEN {"link"}
  ELSE {}

GivesUp(t, status) ==
  ~t.throttled /\ StatusPageAction(status) = "freshLink" /\ t.refreshes >= MaxLinkRefreshes

Received(t, message) ==
  LET error == [kind |-> message.source, n |-> t.errors + 1, turn |-> t.turn]
      blank == BlankPageError(t.turn, t.errors + 1)
      count == [t EXCEPT !.errors = @ + 1]
  IN
  CASE message.kind \in {"ready", "location"} ->
         [t EXCEPT !.refreshes = 0, !.view = "app", !.spoken = TRUE, !.status = 0]
    [] message.kind = "error" ->
         IF HoldsPreviewErrors(t) THEN [count EXCEPT !.held = error] ELSE Show(count, error)
    [] message.kind = "errorCleared" -> WithoutShown(WithoutHeld(t, message.source), message.source)
    [] message.kind = "blank" ->
         IF HoldsPreviewErrors(t) THEN [count EXCEPT !.held = IF @ = NoError THEN blank ELSE @]
         ELSE IF t.shown = NoError THEN Show(count, blank) ELSE count
    [] message.kind = "rendered" -> WithoutShown(WithoutHeld(t, "blank"), "blank")
    [] message.kind = "statusPage" ->
         [t EXCEPT !.view = IF GivesUp(t, message.status) THEN "silent" ELSE "statusPage",
                   !.status = message.status, !.throttled = TRUE]

TakenBack(message) ==
  CASE message.kind = "errorCleared" -> message.source
    [] message.kind = "rendered"      -> "blank"
    [] OTHER                          -> "nothing"

OnMessage ==
  /\ channel # <<>>
  /\ LET message == Head(channel) IN
       /\ tab' = Received(tab, message)
       /\ asks' = IF message.kind = "statusPage" THEN asks \cup AsksFor(tab, message.status) ELSE asks
       /\ withdrawn' = IF tab.held.kind = TakenBack(message) THEN withdrawn \cup {tab.held.n} ELSE withdrawn
  /\ channel' = Tail(channel)
  /\ UNCHANGED <<runner, inside>>

-----------------------------------------------------------------------------
(* Asking the server, and time. *)

(* The tab asks every now and then, and is told. *)
Poll ==
  /\ runner # tab.known
  /\ Becomes(Learn(tab, runner))
  /\ UNCHANGED <<runner, asks, withdrawn>>

(* An answer.  A fresh link is counted and loaded when the preview runs;   *)
(* a turn that ended is settled whether or not it could be asked about. *)
Answered(purpose) ==
  /\ purpose \in asks /\ asks' = asks \ {purpose}
  /\ \E reached \in BOOLEAN :
       LET told == IF reached THEN Learn(tab, runner) ELSE tab
           next ==
             CASE purpose = "link" /\ reached /\ runner.status = "RUNNING" ->
                    Reloaded([told EXCEPT !.refreshes = @ + 1])
               [] purpose = "reload" -> Reloaded(told)
               [] purpose = "settle" -> Released([told EXCEPT !.settling = FALSE])
               [] OTHER -> told
       IN Becomes(next)
  /\ tab'.mounts =< MaxLoads
  /\ UNCHANGED <<runner, withdrawn>>

(* FRAME_SILENCE_MS, FRAME_SETTLE_MS and STATUS_PAGE_THROTTLE_MS pass. *)
Silence ==
  /\ tab.known.status = "RUNNING" /\ tab.view = "loading" /\ ~tab.spoken
  /\ tab' = [tab EXCEPT !.view = "silent"]
  /\ UNCHANGED <<runner, inside, channel, asks, withdrawn>>

Ages ==
  /\ tab.young \/ tab.throttled
  /\ \/ tab.young /\ tab' = [tab EXCEPT !.young = FALSE]
     \/ tab.throttled /\ tab' = [tab EXCEPT !.throttled = FALSE]
  /\ UNCHANGED <<runner, inside, channel, asks, withdrawn>>

-----------------------------------------------------------------------------
(* The person, and the responses they ask for. *)

(* The buttons of the toolbar that are live. *)
ToolbarOffers(t) ==
  (IF t.known.status = "RUNNING" THEN {"reload", "device", "copyLink", "open"} ELSE {})
    \cup (IF t.known.status = "RUNNING" /\ t.view = "app" THEN {"back", "forward", "address"} ELSE {})

FixOffer(t) == IF t.attempts >= MaxFixAttempts THEN "exhausted" ELSE "offer"

(* What the notice of an error offers. *)
AlertOffers(t) ==
  IF t.shown = NoError THEN {}
  ELSE {"dismiss"} \cup (IF ~t.building /\ FixOffer(t) = "offer" THEN {"fix"} ELSE {})

BuildStarts(t) == [t EXCEPT !.building = TRUE, !.turn = @ + 1]

BuildBegins ==
  /\ ~tab.building /\ tab.turn < MaxBuildTurns
  /\ tab' = BuildStarts(tab)
  /\ UNCHANGED <<runner, inside, channel, asks, withdrawn>>

(* handleFixError *)
FixThis ==
  /\ "fix" \in AlertOffers(tab) /\ tab.turn < MaxBuildTurns
  /\ tab' = [BuildStarts(tab) EXCEPT !.attempts = @ + 1, !.shown = NoError]
  /\ UNCHANGED <<runner, inside, channel, asks, withdrawn>>

Dismiss ==
  /\ "dismiss" \in AlertOffers(tab)
  /\ tab' = [tab EXCEPT !.shown = NoError]
  /\ UNCHANGED <<runner, inside, channel, asks, withdrawn>>

HandleReload ==
  /\ "reload" \in ToolbarOffers(tab) /\ "reload" \notin asks
  /\ asks' = asks \cup {"reload"}
  /\ UNCHANGED <<runner, inside, channel, tab, withdrawn>>

(* previewFollowUp: a preview that had an error is loaded again after a    *)
(* response that saved files without touching its packages. *)
PreviewFollowUp(t, saved, packages) ==
  IF t.known.status = "RUNNING" /\ saved /\ ~packages /\ t.hadError THEN "reload" ELSE "none"

(* A response ends.  The panel's effects run in the order they are         *)
(* written, in the render in which it has ended: what was held is let go   *)
(* of as that render sees it, then the workspace's effect runs. *)
BuildEnds ==
  /\ tab.building
  /\ \E saved, packages \in BOOLEAN :
       LET released == Released([tab EXCEPT !.building = FALSE])
           settling == [released EXCEPT !.settling = TRUE]
       IN  tab' = IF PreviewFollowUp(settling, saved, packages) = "reload"
                  THEN [settling EXCEPT !.hadError = FALSE, !.reloadDue = TRUE]
                  ELSE settling
  /\ asks' = asks \cup {"settle"}
  /\ UNCHANGED <<runner, inside, channel, withdrawn>>

(* PREVIEW_SYNC_GRACE_MS later. *)
FollowUpReload ==
  /\ tab.reloadDue /\ tab.mounts < MaxLoads
  /\ Becomes(Reloaded([tab EXCEPT !.reloadDue = FALSE, !.shown = NoError]))
  /\ UNCHANGED <<runner, asks, withdrawn>>

FrameNext ==
  \/ TakesInAChange \/ Synced \/ Bounced \/ Ready
  \/ PageStarts \/ Location \/ OverlayGone \/ CheckBlank
  \/ \E kind \in {"BuildError", "RuntimeError"} : Reports(kind)
  \/ OnMessage \/ Poll \/ Silence \/ Ages
  \/ \E purpose \in {"link", "reload", "settle"} : Answered(purpose)
  \/ BuildBegins \/ FixThis \/ Dismiss \/ HandleReload \/ BuildEnds \/ FollowUpReload

FrameSpec == FrameInit /\ [][FrameNext]_frameVars

-----------------------------------------------------------------------------
FrameTypeOK ==
  /\ tab.view \in {"loading", "app", "statusPage", "silent"}
  /\ tab.refreshes \in 0..MaxLinkRefreshes + 1
  /\ Len(channel) =< MaxChannel
  /\ tab.attempts =< MaxFixAttempts

(* An error that the page took back while it was held is never shown:      *)
(* "shown only if it is still there". *)
WithdrawnIsNotShown == tab.shown.n \notin withdrawn

-----------------------------------------------------------------------------
(* Why it is not. *)

ErrorSources == {"BuildError", "RuntimeError"}
Messages ==
  [kind : {"ready", "location", "blank", "rendered"}]
    \cup [kind : {"statusPage"}, status : Statuses]
    \cup [kind : {"error", "errorCleared"}, source : ErrorSources]

ErrorFits(e, t) == e.n \in 0..t.errors /\ e.kind \in ErrorSources \cup {"none", "blank"} /\ (e.n = 0 <=> e.kind = "none")

(* Each error has a number of its own; the one held and the one shown are  *)
(* two, and not among those taken back. *)
TabFits(t, taken) ==
  /\ {"known", "held", "shown", "errors"} \subseteq DOMAIN t
  /\ t.errors \in Nat /\ ErrorFits(t.held, t) /\ ErrorFits(t.shown, t)
  /\ t.held.n = t.shown.n => t.held.n = 0
  /\ taken \subseteq 1..t.errors /\ t.held.n \notin taken /\ t.shown.n \notin taken

FrameInvariant == channel \in Seq(Messages) /\ TabFits(tab, withdrawn)
=============================================================================
