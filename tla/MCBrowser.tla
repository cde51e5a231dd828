------------------------------- MODULE MCBrowser -------------------------------
(***************************************************************************)
(* The pages of the browser, the two proxies behind which previews and     *)
(* published apps are read, and the billing that the plan pages show, in   *)
(* one run.  Each is checked by itself: in a behaviour one part moves,     *)
(* from each of its initial states.  The parts take turns in the variables *)
(* v1, ..., v20; one that has fewer leaves the last ones "unused".         *)
(* Most parts are instantiated where they are proved about (PageProofs,    *)
(* ShownProofs, ProxyProofs), for BrowserProofs to say of this run; the    *)
(* proofs are not part of it.                                              *)
(***************************************************************************)
EXTENDS PageProofs, ShownProofs

Proxy == INSTANCE ProxyProofs WITH current <- v1, sites <- v2,
  remembered <- v3, visits <- v4, now <- v5, lastTrue <- v6, clock <- v1,
  member <- v2, link <- v3, accessCookie <- v4, routes <- v5, redisUp <- v6,
  lastSeen <- v7, reply <- v8, lastMember <- v9
Text == INSTANCE ChatText WITH turnText <- v1, writing <- v2, wrote <- v3

-----------------------------------------------------------------------------
Moves(p) == part = p

(* The variables after the first n, which a part with n variables leaves   *)
(* alone. *)
Unused(n) ==
  /\ n < 3 => v3 = "unused"
  /\ n < 4 => v4 = "unused"
  /\ n < 5 => v5 = "unused"
  /\ n < 6 => v6 = "unused"
  /\ n < 7 => v7 = "unused"
  /\ n < 8 => v8 = "unused"
  /\ n < 9 => v9 = "unused"
  /\ n < 10 => v10 = "unused"
  /\ n < 11 => v11 = "unused"
  /\ n < 12 => v12 = "unused"
  /\ n < 13 => v13 = "unused"
  /\ n < 14 => v14 = "unused"
  /\ n < 15 => v15 = "unused"
  /\ n < 16 => v16 = "unused"
  /\ n < 17 => v17 = "unused"
  /\ n < 18 => v18 = "unused"
  /\ n < 19 => v19 = "unused"
  /\ n < 20 => v20 = "unused"
StillUnused(n) ==
  /\ n < 3 => UNCHANGED v3
  /\ n < 4 => UNCHANGED v4
  /\ n < 5 => UNCHANGED v5
  /\ n < 6 => UNCHANGED v6
  /\ n < 7 => UNCHANGED v7
  /\ n < 8 => UNCHANGED v8
  /\ n < 9 => UNCHANGED v9
  /\ n < 10 => UNCHANGED v10
  /\ n < 11 => UNCHANGED v11
  /\ n < 12 => UNCHANGED v12
  /\ n < 13 => UNCHANGED v13
  /\ n < 14 => UNCHANGED v14
  /\ n < 15 => UNCHANGED v15
  /\ n < 16 => UNCHANGED v16
  /\ n < 17 => UNCHANGED v17
  /\ n < 18 => UNCHANGED v18
  /\ n < 19 => UNCHANGED v19
  /\ n < 20 => UNCHANGED v20

BrowserInit ==
  \/ part = "Published" /\ Proxy!PublishedInit /\ Unused(6)
  \/ part = "Gate" /\ Proxy!GateInit /\ Unused(9)
  \/ part = "Session" /\ Session!SessionInit /\ Unused(14)
  \/ part = "Security" /\ Security!SecurityInit /\ Unused(13)
  \/ part = "Frame" /\ Frame!FrameInit /\ Unused(6)
  \/ part = "Start" /\ Start!StartInit /\ Unused(6)
  \/ part = "Editor" /\ Editor!EditorInit /\ Unused(14)
  \/ part = "Log" /\ Log!LogInit /\ Unused(2)
  \/ part = "Notes" /\ Notes!NotesInit /\ Unused(9)
  \/ part = "Lessons" /\ Lessons!LessonsInit /\ Unused(6)
  \/ part = "Idea" /\ Idea!IdeaInit /\ Unused(8)
  \/ part = "List" /\ List!ListInit /\ Unused(10)
  \/ part = "Share" /\ Share!ShareInit /\ Unused(9)
  \/ part = "Panel" /\ Panel!PanelInit /\ Unused(11)
  \/ part = "Billing" /\ Billing!BillingInit /\ Unused(11)
  \/ part = "Plan" /\ Plan!PlanInit /\ Unused(6)
  \/ part = "Usage" /\ Usage!UsageInit /\ Unused(6)
  \/ part = "Text" /\ Text!TextInit /\ Unused(3)
  \/ part = "Reveal" /\ Reveal!RevealInit /\ Reveal!TextInit /\ Unused(12)
  \/ part = "Scroll" /\ Scroll!ScrollInit /\ Unused(20)
  \/ part = "Card" /\ Card!CardInit /\ Unused(7)
  \/ part = "Search" /\ Search!SearchInit /\ Unused(8)
  \/ part = "Work" /\ Work!WorkInit /\ Unused(15)
  \/ part = "Header" /\ Header!HeaderInit /\ Unused(11)
  \/ part = "SignIn" /\ SignIn!SignInInit /\ Unused(12)

BrowserNext ==
  /\ UNCHANGED part
  /\ \/ Moves("Published") /\ StillUnused(6) /\ Proxy!PublishedNext
     \/ Moves("Gate") /\ StillUnused(9) /\ Proxy!GateNext
     \/ Moves("Session") /\ StillUnused(14) /\ Session!SessionNext
     \/ Moves("Security") /\ StillUnused(13) /\ Security!SecurityNext
     \/ Moves("Frame") /\ StillUnused(6) /\ Frame!FrameNext
     \/ Moves("Start") /\ StillUnused(6) /\ Start!StartNext
     \/ Moves("Editor") /\ StillUnused(14) /\ Editor!EditorNext
     \/ Moves("Log") /\ StillUnused(2) /\ Log!LogNext
     \/ Moves("Notes") /\ StillUnused(9) /\ Notes!NotesNext
     \/ Moves("Lessons") /\ StillUnused(6) /\ Lessons!LessonsNext
     \/ Moves("Idea") /\ StillUnused(8) /\ Idea!IdeaNext
     \/ Moves("List") /\ StillUnused(10) /\ List!ListNext
     \/ Moves("Share") /\ StillUnused(9) /\ Share!ShareNext
     \/ Moves("Panel") /\ StillUnused(11) /\ Panel!PanelNext
     \/ Moves("Billing") /\ StillUnused(11) /\ Billing!BillingNext
     \/ Moves("Plan") /\ StillUnused(6) /\ Plan!PlanNext
     \/ Moves("Usage") /\ StillUnused(6) /\ Usage!UsageNext
     \/ Moves("Text") /\ StillUnused(3) /\ Text!TextNext
     \/ Moves("Reveal") /\ StillUnused(12) /\ Reveal!RevealNext /\ UNCHANGED <<v1, v2, v3>>
     \/ Moves("Scroll") /\ StillUnused(20) /\ Scroll!ScrollNext
     \/ Moves("Card") /\ StillUnused(7) /\ Card!CardNext
     \/ Moves("Search") /\ StillUnused(8) /\ Search!SearchNext
     \/ Moves("Work") /\ StillUnused(15) /\ Work!WorkNext
     \/ Moves("Header") /\ StillUnused(11) /\ Header!HeaderNext
     \/ Moves("SignIn") /\ StillUnused(12) /\ SignIn!SignInNext

browserVars == <<part, v1, v2, v3, v4, v5, v6, v7, v8, v9, v10, v11, v12,
                 v13, v14, v15, v16, v17, v18, v19, v20>>

BrowserSpec == BrowserInit /\ [][BrowserNext]_browserVars

-----------------------------------------------------------------------------
(* Every part's state is one its module speaks of. *)
BrowserTypeOK ==
  CASE Moves("Share") -> Share!ShareTypeOK
    [] Moves("List") -> List!ListTypeOK
    [] Moves("Session") -> Session!SessionTypeOK
    [] Moves("Panel") -> Panel!PanelTypeOK
    [] Moves("Scroll") -> Scroll!ScrollTypeOK
    [] Moves("Gate") -> Proxy!GateTypeOK
    [] Moves("SignIn") -> SignIn!SignInTypeOK
    [] Moves("Published") -> Proxy!PublishedTypeOK
    [] Moves("Frame") -> Frame!FrameTypeOK
    [] Moves("Idea") -> Idea!IdeaTypeOK
    [] Moves("Plan") -> Plan!PlanTypeOK
    [] Moves("Billing") -> Billing!BillingTypeOK
    [] Moves("Security") -> Security!SecurityTypeOK
    [] Moves("Start") -> Start!StartTypeOK
    [] Moves("Editor") -> Editor!EditorTypeOK
    [] Moves("Log") -> Log!LogTypeOK
    [] Moves("Notes") -> Notes!NotesTypeOK
    [] Moves("Lessons") -> Lessons!LessonsTypeOK
    [] Moves("Usage") -> Usage!UsageTypeOK
    [] Moves("Text") -> Text!TextTypeOK
    [] Moves("Reveal") -> Reveal!RevealTypeOK
    [] Moves("Card") -> Card!CardTypeOK
    [] Moves("Search") -> Search!SearchTypeOK
    [] Moves("Work") -> Work!WorkTypeOK
    [] Moves("Header") -> Header!HeaderTypeOK

(* Who is off a project has no access to it: somebody who left reaches its *)
(* preview no longer than a token made for them before lasts (proxy), and  *)
(* whom the owner was told is off the project is (ShareDialog.tsx).        *)
AccessEnds ==
  CASE Moves("Gate") -> Proxy!AccessEndsWithMembership
    [] Moves("Share") -> Share!GoneHasNoAccess
    [] OTHER -> TRUE

(* A published app is served: its host's answers are never older than its  *)
(* pointer is remembered for, and an update of it is no outage             *)
(* (published-proxy).                                                      *)
ServedAsPublished == Moves("Published") => Proxy!AnswersAreRecent /\ Proxy!UpdateIsNoOutage

(* What a page holds is of the person its session is of (firebase-auth.ts, *)
(* api.ts). *)
HeldIsTheirs == Moves("Session") => Session!HeldIsTheirs

(* A preview somebody stopped is not started again by the page itself      *)
(* (PreviewPanel.tsx). *)
StopStands == Moves("Start") => Start!StopStands

(* What was taken back is gone: the error of a page that was left is not   *)
(* shown in the preview (PreviewPanel.tsx), and an exchange whose          *)
(* selection was cleared or deleted is not kept (code-lens-store.ts).      *)
NothingWithdrawn ==
  CASE Moves("Frame") -> Frame!WithdrawnIsNotShown
    [] Moves("Notes") -> Notes!WithdrawnIsNotSaved
    [] OTHER -> TRUE

(* Nothing is sent unchecked: a save never overwrites contents its writer  *)
(* has not seen (CodePanel.tsx), and a sign-in form is sent only with the  *)
(* fields that were checked (AuthPage.tsx).                                *)
NothingUnchecked ==
  CASE Moves("Editor") -> Editor!NoBlindSave
    [] Moves("SignIn") -> SignIn!SentWasChecked
    [] OTHER -> TRUE

(* What is shown answers what was asked: an idea's questions and brief are *)
(* those of the idea as it now reads (idea-interview), and the hits are    *)
(* those of the text typed (CodeSearch.tsx).                               *)
AnswersAreForTheQuestion ==
  CASE Moves("Idea") -> Idea!AnswersAreForThisIdea
    [] Moves("Search") -> Search!HitsAreForTheText
    [] OTHER -> TRUE

(* What a page shows once nothing is under way is what the server has: the *)
(* list of projects, the marks of the publish menu, the plan the person    *)
(* was told of, the revision that is the same as now, and whether the      *)
(* account has an authenticator app; and the mirrored subscription is the  *)
(* provider's once every event came.                                       *)
ShownIsTheServers ==
  CASE Moves("List") -> List!ListIsTheServers
    [] Moves("Panel") -> Panel!MarkFollows
    [] Moves("Plan") -> Plan!ToldIsShown
    [] Moves("Log") -> Log!SameAsNowIsTheSame
    [] Moves("Billing") -> Billing!MirrorCatchesUp
    [] Moves("Security") -> Security!ListedIsEnrolled
    [] OTHER -> TRUE

(* While a reply arrives, nothing of a tag of which only half has come is  *)
(* shown (use-smooth-stream.ts).                                           *)
NoHalfReading == Moves("Reveal") => Reveal!NothingHalfShown

(* Reading only goes forward: the key that goes up the chat goes up, and a *)
(* lesson being written only grows (ChatPanel.tsx, lesson.ts).             *)
ReadingGoesForward ==
  [][CASE Moves("Scroll") -> Scroll!UpGoesUp
       [] Moves("Card") -> Card!ReadingOnlyGrows
       [] OTHER -> TRUE]_browserVars

(* A turn's text reads as it was written, whole, however it was split on   *)
(* the way, and a step ticked off in it stays so (lib/generation-parser).  *)
TurnReadsAsWritten ==
  [][Moves("Text") => Text!ReadsAsWritten /\ Text!TickedStaysTicked]_browserVars

(* Nothing is done twice: a lesson is asked for once at a time, an event   *)
(* of the usage page is listed once, a prompt carried into a new project   *)
(* is sent once, a name is asked for once, and so is a code.               *)
NothingTwice ==
  CASE Moves("Lessons") -> Lessons!AskedOnce
    [] Moves("Usage") -> Usage!ListedOnce
    [] Moves("Work") -> Work!GivenOnce
    [] Moves("Header") -> Header!RenameIsAskedOnce
    [] Moves("SignIn") -> SignIn!OneCodeAtATime
    [] OTHER -> TRUE
=============================================================================
