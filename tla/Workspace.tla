------------------------------- MODULE Workspace -------------------------------
(* The page of one project (pages/ProjectView): opening it, the prompt it is  *)
(* handed by the home page, the first-run guide, and the notice of a response *)
(* already under way with its Stop it.  The header, with the name edited in   *)
(* place and the dialogs, is ProjectHeader's; the chat's turn is ChatTurn's,  *)
(* the preview PreviewFrame's and PreviewStart's, the code FileEditor's.  A   *)
(* prompt that came with the navigation is kept in the history entry as well  *)
(* as in the page, so a page that is loaded again, or gone back to, would     *)
(* find it there.                                                             *)
EXTENDS Naturals

CONSTANTS
  PageRoles,         \* the roles the page may be opened with
  GuideLength,       \* how many of the guide's steps point at the page
  MaxVisits          \* bound: how often the page is opened

VARIABLES
  workPage,              \* what the page shows
  memberRole,        \* project?.role; "none" before it is read
  workVisits,            \* how often the page was opened, for the bound
  carried,           \* the history entry's state carries the prompt
  heldPrompt,        \* initialPromptRef holds it
  given,             \* how often the chat took it
  chatRead,          \* chat.isHistoryLoaded
  chatReading,       \* a loadHistory is under way
  answering,         \* chat.isStreaming
  serverTurn,        \* whose turn the server runs in the project
  toastShown,        \* the one toast: "plain", "stop" with Stop it, or "none"
  stopping,          \* Stop it was pressed and is not answered
  guideSeen,         \* the browser's mark that the guide was seen
  guideAt,           \* the guide's step; 0: closed
  guidesShown        \* how often the guide opened by itself

pageVars == <<workPage, memberRole, workVisits>>
promptVars == <<carried, heldPrompt, given>>
chatReadVars == <<chatRead, chatReading>>
turnNowVars == <<answering, serverTurn>>
toastVars == <<toastShown, stopping>>
guideVars == <<guideSeen, guideAt, guidesShown>>
workVars == <<pageVars, promptVars, chatReadVars, turnNowVars, toastVars, guideVars>>

Builders == {"OWNER", "EDITOR"}

WorkTypeOK ==
  /\ workPage \in {"reading", "shown", "unavailable", "error"}
  /\ memberRole \in PageRoles \cup {"none"} /\ workVisits \in 1..MaxVisits
  /\ {carried, heldPrompt, chatRead, chatReading, answering, stopping,
      guideSeen} \subseteq BOOLEAN
  /\ given \in Nat /\ guidesShown \in Nat /\ guideAt \in 0..GuideLength
  /\ serverTurn \in {"none", "ours", "theirs"}
  /\ toastShown \in {"none", "plain", "stop"}

WorkInit ==
  /\ workPage = "reading" /\ memberRole = "none" /\ workVisits = 1
  /\ carried \in BOOLEAN /\ heldPrompt = carried /\ given = 0
  /\ chatRead = FALSE /\ chatReading = FALSE
  /\ answering = FALSE /\ serverTurn = "none"
  /\ toastShown = "none" /\ stopping = FALSE
  /\ guideSeen \in BOOLEAN /\ guideAt = 0 /\ guidesShown = 0

-------------------------------------------------------------------------------
(* What every rendering sets off.                                             *)

\* Mutant: the prompt is forgotten by the page but stays in the history entry.
StillCarried(hand) == carried

(* The hand over replaces the history entry's state with null.                *)
Carried(hand) == carried /\ ~hand

(* The guide shows itself where something can be built and it was never seen. *)
ShowsGuide(role, read) == read /\ role \in Builders /\ ~guideSeen

(* A notice offers Stop it only where the chat follows nothing (`busy`).      *)
Notice(role, busy) == IF busy \/ role \notin Builders THEN "plain" ELSE "stop"

(* The effects of a page that is read as `role`, holds a prompt or not and    *)
(* has its chat `read`: the prompt is given to the chat, which refuses it     *)
(* with a notice while it follows a turn or the server runs one; and a        *)
(* refused prompt is not kept.                                                *)
Effects(role, read, held, busy, toastNow) ==
  LET hand == read /\ held
      free == serverTurn = "none"
      show == ShowsGuide(role, read) IN
  /\ heldPrompt' = (held /\ ~hand)
  /\ carried' = Carried(hand)
  /\ given' = IF hand /\ free THEN given + 1 ELSE given
  /\ answering' = (busy \/ (hand /\ free))
  /\ serverTurn' = IF hand /\ free THEN "ours" ELSE serverTurn
  /\ toastShown' = IF ~hand \/ free THEN toastNow
                   ELSE Notice(role, busy)
  /\ guideSeen' = (guideSeen \/ show)
  /\ guideAt' = IF show THEN 1 ELSE guideAt
  /\ guidesShown' = IF show THEN guidesShown + 1 ELSE guidesShown

-------------------------------------------------------------------------------
(* Opening the page.                                                          *)

(* loadHistory reads nothing while the chat follows a turn.                   *)
ProjectArrives(role) ==
  /\ workPage = "reading"
  /\ workPage' = "shown" /\ memberRole' = role
  /\ chatReading' = (chatReading \/ ~answering)
  /\ chatRead' = (chatRead \/ answering)
  /\ Effects(role, chatRead \/ answering, heldPrompt, answering, toastShown)
  /\ UNCHANGED <<workVisits, stopping>>

(* projectLoadFailure tells a project one may not see from a failed request.  *)
PageTurns(from, to) ==
  /\ workPage = from /\ workPage' = to
  /\ UNCHANGED <<memberRole, workVisits, promptVars, chatReadVars, turnNowVars,
                 toastVars, guideVars>>

ProjectFails(kind) == PageTurns("reading", kind)
TryAgain == PageTurns("error", "reading")

(* loadHistory's end: a turn of this person that the server still runs is     *)
(* followed, and a failure is told.                                           *)
ChatArrives(ok) ==
  /\ chatReading
  /\ chatReading' = FALSE /\ chatRead' = TRUE
  /\ Effects(memberRole, TRUE, heldPrompt,
             answering \/ (ok /\ serverTurn = "ours"),
             IF ok THEN toastShown ELSE "plain")
  /\ UNCHANGED <<pageVars, stopping>>

(* The page is left and opened again through its history entry: by a reload,  *)
(* which loses the chat store, or from another page of the app, which keeps   *)
(* it.                                                                        *)
OpenAgain(storeIsKept) ==
  /\ workVisits < MaxVisits
  /\ workVisits' = workVisits + 1
  /\ workPage' = "reading" /\ memberRole' = "none"
  /\ chatRead' = (storeIsKept /\ chatRead)
  /\ chatReading' = (storeIsKept /\ chatReading)
  /\ Effects("none", storeIsKept /\ chatRead, carried, storeIsKept /\ answering,
             IF storeIsKept THEN toastShown ELSE "none")
  /\ stopping' = FALSE

-------------------------------------------------------------------------------
(* Turns, as far as the page itself has to do with them.                      *)

(* A request that the project's turn refuses is taken back with a notice, and *)
(* the chat is read again; the notice offers Stop it, for the chat follows    *)
(* nothing at that moment.                                                    *)
HandleSendMessage ==
  /\ workPage = "shown" /\ memberRole \in Builders /\ chatRead /\ ~answering
  /\ IF serverTurn = "none"
     THEN /\ serverTurn' = "ours" /\ answering' = TRUE
          /\ UNCHANGED <<toastShown, chatReading>>
     ELSE /\ toastShown' = "stop" /\ chatReading' = TRUE
          /\ UNCHANGED turnNowVars
  /\ UNCHANGED <<pageVars, promptVars, chatRead, stopping, guideVars>>

TurnIsOver ==
  /\ serverTurn # "none"
  /\ serverTurn' = "none" /\ answering' = FALSE
  /\ UNCHANGED <<pageVars, promptVars, chatReadVars, toastVars, guideVars>>

(* A turn of this person in another window, or of another member.             *)
TurnElsewhere(whose) ==
  /\ serverTurn = "none"
  /\ serverTurn' = whose
  /\ UNCHANGED <<pageVars, promptVars, chatReadVars, answering, toastVars, guideVars>>

(* Stop it: the toast's own closure, which outlives the notice.               *)
StopIt ==
  /\ toastShown = "stop" /\ ~stopping
  /\ stopping' = TRUE /\ toastShown' = "none"
  /\ UNCHANGED <<pageVars, promptVars, chatReadVars, turnNowVars, guideVars>>

(* The server stops whatever turn the project then has, and the chat is read  *)
(* again.                                                                     *)
StopItAnswered(ok) ==
  /\ stopping /\ stopping' = FALSE /\ toastShown' = "plain"
  /\ serverTurn' = IF ok THEN "none" ELSE serverTurn
  /\ answering' = (answering /\ ~ok)
  /\ chatReading' = (chatReading \/ ok)
  /\ UNCHANGED <<pageVars, promptVars, chatRead, guideVars>>

-------------------------------------------------------------------------------
(* The guide.                                                                 *)

GuideMoves(next) ==
  /\ workPage = "shown" /\ guideAt' = next
  /\ UNCHANGED <<guideSeen, guidesShown, pageVars, promptVars, chatReadVars,
                 turnNowVars, toastVars>>

CloseGuide == guideAt > 0 /\ GuideMoves(0)
NextStep == guideAt \in 1..GuideLength - 1 /\ GuideMoves(guideAt + 1)
StepBack == guideAt > 1 /\ GuideMoves(guideAt - 1)
ShowMeAround == memberRole \in Builders /\ guideAt = 0 /\ GuideMoves(1)

WorkNext ==
  \/ \E role \in PageRoles : ProjectArrives(role)
  \/ \E kind \in {"unavailable", "error"} : ProjectFails(kind)
  \/ TryAgain
  \/ \E ok \in BOOLEAN : ChatArrives(ok) \/ StopItAnswered(ok)
  \/ \E storeIsKept \in BOOLEAN : OpenAgain(storeIsKept)
  \/ HandleSendMessage \/ TurnIsOver \/ StopIt
  \/ \E whose \in {"ours", "theirs"} : TurnElsewhere(whose)
  \/ CloseGuide \/ NextStep \/ StepBack \/ ShowMeAround

WorkSpec == WorkInit /\ [][WorkNext]_workVars

-------------------------------------------------------------------------------

(* The home page's prompt is given to the chat once, and the guide shows      *)
(* itself once, however often the page is reloaded or come back to            *)
(* (initialPromptRef with the replaced history entry, markGuideSeen).         *)
GivenOnce == given <= 1 /\ guidesShown <= 1

-------------------------------------------------------------------------------

(* Why it does: a prompt that is still held, or in the history entry, was     *)
(* never given, and a guide that showed itself was marked as seen.            *)
WorkInvariant ==
  /\ {carried, heldPrompt, guideSeen} \subseteq BOOLEAN /\ {given, guidesShown} \subseteq Nat
  /\ heldPrompt => carried
  /\ carried => given = 0
  /\ ~guideSeen => guidesShown = 0
  /\ GivenOnce
===============================================================================
