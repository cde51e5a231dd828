----------------------------- MODULE BrowserProofs -----------------------------
(***************************************************************************)
(* The theorems about the browser: what PageProofs and ShownProofs show of *)
(* each part by itself, and ProxyProofs of the two proxies, holds of the   *)
(* parts that MCBrowser puts in one run, for any value of the constants.   *)
(***************************************************************************)
EXTENDS MCBrowser

\* A behaviour is of one part from its beginning, and each of its steps is one of that part.
LEMMA PartsTakeNoTurns ==
  ASSUME [BrowserNext]_browserVars
  PROVE  /\ part' = part
         /\ part = "Start" => [Start!StartNext]_(Start!startVars)
         /\ part = "Editor" => [Editor!EditorNext]_(Editor!editorVars)
         /\ part = "Frame" => [Frame!FrameNext]_(Frame!frameVars)
         /\ part = "Notes" => [Notes!NotesNext]_(Notes!noteVars)
         /\ part = "Lessons" => [Lessons!LessonsNext]_(Lessons!lessonVars)
         /\ part = "Idea" => [Idea!IdeaNext]_(Idea!ideaVars)
         /\ part = "Search" => [Search!SearchNext]_(Search!searchVars)
         /\ part = "Usage" => [Usage!UsageNext]_(Usage!usageVars)
         /\ part = "Session" => [Session!SessionNext]_(Session!sessionVars)
         /\ part = "Share" => [Share!ShareNext]_(Share!shareVars)
         /\ part = "SignIn" => [SignIn!SignInNext]_(SignIn!signInVars)
         /\ part = "Work" => [Work!WorkNext]_(Work!workVars)
         /\ part = "Header" => [Header!HeaderNext]_(Header!headerVars)
         /\ part = "Gate" => [Proxy!GateNext]_(Proxy!gateVars)
         /\ part = "Published" => [Proxy!PublishedNext]_(Proxy!publishedVars)
         /\ part = "List" => [List!ListNext]_(List!listVars)
         /\ part = "Panel" => [Panel!PanelNext]_(Panel!panelVars)
         /\ part = "Billing" => [Billing!BillingNext]_(Billing!billingVars)
         /\ part = "Plan" => [Plan!PlanNext]_(Plan!planVars)
         /\ part = "Log" => [Log!LogNext]_(Log!revVars)
         /\ part = "Security" => [Security!SecurityNext]_(Security!securityVars)
         /\ part = "Scroll" => [Scroll!ScrollNext]_(Scroll!chatVars)
         /\ part = "Card" => [Card!CardNext]_(Card!cardVars)
         /\ part = "Reveal" => [Reveal!RevealNext]_(Reveal!revealVars)
<1>1. CASE UNCHANGED browserVars
  <2>1. UNCHANGED Start!startVars
    BY <1>1 DEF browserVars, Start!startVars
  <2>2. UNCHANGED Editor!editorVars
    BY <1>1 DEF browserVars, Editor!editorVars
  <2>3. UNCHANGED Frame!frameVars
    BY <1>1 DEF browserVars, Frame!frameVars
  <2>4. UNCHANGED Notes!noteVars
    BY <1>1 DEF browserVars, Notes!noteVars
  <2>5. UNCHANGED Lessons!lessonVars
    BY <1>1 DEF browserVars, Lessons!lessonVars
  <2>6. UNCHANGED Idea!ideaVars
    BY <1>1 DEF browserVars, Idea!ideaVars
  <2>7. UNCHANGED Search!searchVars
    BY <1>1 DEF browserVars, Search!searchVars
  <2>8. UNCHANGED Usage!usageVars
    BY <1>1 DEF browserVars, Usage!usageVars
  <2>9. UNCHANGED Session!sessionVars
    BY <1>1 DEF browserVars, Session!sessionVars
  <2>10. UNCHANGED Share!shareVars
    BY <1>1 DEF browserVars, Share!shareVars
  <2>11. UNCHANGED SignIn!signInVars
    BY <1>1 DEF browserVars, SignIn!signInVars
  <2>12. UNCHANGED Work!workVars
    BY <1>1 DEF browserVars, Work!workVars, Work!pageVars, Work!promptVars, Work!chatReadVars, Work!turnNowVars, Work!toastVars, Work!guideVars
  <2>13. UNCHANGED Header!headerVars
    BY <1>1 DEF browserVars, Header!headerVars, Header!nameVars, Header!chatNowVars, Header!chromeVars
  <2>14. UNCHANGED Proxy!gateVars
    BY <1>1 DEF browserVars, Proxy!gateVars
  <2>15. UNCHANGED Proxy!publishedVars
    BY <1>1 DEF browserVars, Proxy!publishedVars
  <2>16. UNCHANGED List!listVars
    BY <1>1 DEF browserVars, List!listVars
  <2>17. UNCHANGED Panel!panelVars
    BY <1>1 DEF browserVars, Panel!panelVars
  <2>18. UNCHANGED Billing!billingVars
    BY <1>1 DEF browserVars, Billing!billingVars
  <2>19. UNCHANGED Plan!planVars
    BY <1>1 DEF browserVars, Plan!planVars
  <2>20. UNCHANGED Log!revVars
    BY <1>1 DEF browserVars, Log!revVars
  <2>21. UNCHANGED Security!securityVars
    BY <1>1 DEF browserVars, Security!securityVars
  <2>22. UNCHANGED Scroll!chatVars
    BY <1>1 DEF browserVars, Scroll!chatVars, Scroll!placeVars, Scroll!paneVars, Scroll!pressVars
  <2>23. UNCHANGED Card!cardVars
    BY <1>1 DEF browserVars, Card!cardVars
  <2>24. UNCHANGED Reveal!revealVars
    BY <1>1 DEF browserVars, Reveal!revealVars
  <2>25. QED
    BY <1>1, <2>1, <2>2, <2>3, <2>4, <2>5, <2>6, <2>7, <2>8, <2>9, <2>10, <2>11, <2>12, <2>13, <2>14, <2>15, <2>16, <2>17, <2>18, <2>19, <2>20, <2>21, <2>22, <2>23, <2>24 DEF browserVars
<1>2. CASE BrowserNext
  BY <1>2 DEF BrowserNext, Moves
<1>3. QED
  BY <1>1, <1>2

\* The lifetimes and times of the two proxies are numbers.
LEMMA LifetimesAreNatural == TokenTtl \in Nat /\ Proxy!Lifetimes
<1>1. {PointerTtl, MissingTtl, MinReread, Wait, MaxBuilds, TokenTtl} \subseteq Nat
  BY Zenon, BrowserAssumption DEF BrowserAssumption
<1>2. QED
  BY <1>1 DEF Proxy!Lifetimes

\* A preview somebody stopped is not started again by the page itself, however
\* often it is looked at or fails (PreviewPanel.tsx).
THEOREM StopStanding == BrowserSpec => []StopStands
<1> DEFINE Inv == (Moves("Start") => Start!StartInvariant)
<1>1. BrowserInit => Inv
  BY StartInitially DEF BrowserInit, Moves
<1>2. Inv /\ [BrowserNext]_browserVars => Inv'
  BY PartsTakeNoTurns, StartStep DEF Moves
<1>3. Inv => StopStands
  BY DEF StopStands, Start!StartInvariant
<1>4. QED
  BY <1>1, <1>2, <1>3, PTL DEF BrowserSpec

\* The error of a page that was left is not shown in the preview, and an
\* exchange deleted while its answer was written is never saved
\* (PreviewPanel.tsx, code-lens-store.ts).
THEOREM WithdrawnIsGone == BrowserSpec => []NothingWithdrawn
<1> DEFINE Inv == /\ (Moves("Frame") => Frame!FrameInvariant)
             /\ (Moves("Notes") => Notes!NotesInvariant)
<1>1. BrowserInit => Inv
  BY FrameInitially, NotesInitially DEF BrowserInit, Moves
<1>2. Inv /\ [BrowserNext]_browserVars => Inv'
  BY PartsTakeNoTurns, FrameStep, NotesStep DEF Moves
<1>3. Inv => NothingWithdrawn
  BY WithdrawnIsNotShown, WithdrawnIsNotSaved DEF NothingWithdrawn, Moves
<1>4. QED
  BY <1>1, <1>2, <1>3, PTL DEF BrowserSpec

\* A save overwrites no contents its writer has not seen, and a sign-in form is
\* sent only with the fields that were checked (CodePanel.tsx, AuthPage.tsx).
THEOREM UncheckedIsNotSent == BrowserSpec => []NothingUnchecked
<1> DEFINE Inv == /\ (Moves("Editor") => Editor!EditorInvariant)
             /\ (Moves("SignIn") => SignIn!SignInInvariant)
<1>1. BrowserInit => Inv
  BY EditorInitially, SignInInitially DEF BrowserInit, Moves
<1>2. Inv /\ [BrowserNext]_browserVars => Inv'
  BY PartsTakeNoTurns, EditorStep, SignInStep DEF Moves
<1>3. Inv => NothingUnchecked
  BY DEF NothingUnchecked, Moves, Editor!EditorInvariant, SignIn!SignInInvariant
<1>4. QED
  BY <1>1, <1>2, <1>3, PTL DEF BrowserSpec

\* The questions and the brief shown are of the idea as it now reads, and the
\* hits are those of the text typed (idea-interview.ts, CodeSearchPanel.tsx).
THEOREM AnswersMatch == BrowserSpec => []AnswersAreForTheQuestion
<1> DEFINE Inv == /\ (Moves("Idea") => Idea!IdeaInvariant)
             /\ (Moves("Search") => Search!SearchInvariant)
<1>1. BrowserInit => Inv
  BY IdeaInitially, SearchInitially DEF BrowserInit, Moves
<1>2. Inv /\ [BrowserNext]_browserVars => Inv'
  BY PartsTakeNoTurns, IdeaStep, SearchStep DEF Moves
<1>3. Inv => AnswersAreForTheQuestion
  BY IdeaAnswers DEF AnswersAreForTheQuestion, Moves, Search!SearchInvariant
<1>4. QED
  BY <1>1, <1>2, <1>3, PTL DEF BrowserSpec

\* A lesson is asked for once at a time, a request is listed once, a prompt
\* carried into a new project is sent once, a name is asked for once, and so is
\* a code (lesson-store.ts, UsageInsights.tsx, ProjectView.tsx,
\* AuthPage.tsx).
THEOREM OnceIsEnough == BrowserSpec => []NothingTwice
<1> DEFINE Inv == /\ (Moves("Lessons") => Lessons!LessonsInvariant)
             /\ (Moves("Usage") => Usage!UsageInvariant)
             /\ (Moves("Work") => Work!WorkInvariant)
             /\ (Moves("Header") => Header!HeaderInvariant)
             /\ (Moves("SignIn") => SignIn!SignInInvariant)
<1>1. BrowserInit => Inv
  BY LessonsInitially, UsageInitially, WorkInitially, HeaderInitially, SignInInitially DEF BrowserInit, Moves
<1>2. Inv /\ [BrowserNext]_browserVars => Inv'
  BY PartsTakeNoTurns, LessonsStep, UsageStep, WorkStep, HeaderStep, SignInStep DEF Moves
<1>3. Inv => NothingTwice
  BY ListedOnce, OneCode DEF NothingTwice, Moves, Lessons!LessonsInvariant, Work!WorkInvariant, Header!HeaderInvariant
<1>4. QED
  BY <1>1, <1>2, <1>3, PTL DEF BrowserSpec

\* What a page holds is of the person its session is of, unless another tab
\* signed somebody else in (firebase-auth.ts, api.ts).
THEOREM HoldingsAreTheirs == BrowserSpec => []HeldIsTheirs
<1> DEFINE Inv == (Moves("Session") => Session!SessionInvariant)
<1>1. BrowserInit => Inv
  BY SessionInitially DEF BrowserInit, Moves
<1>2. Inv /\ [BrowserNext]_browserVars => Inv'
  BY PartsTakeNoTurns, SessionStep DEF Moves
<1>3. Inv => HeldIsTheirs
  BY SessionHolds DEF HeldIsTheirs
<1>4. QED
  BY <1>1, <1>2, <1>3, PTL DEF BrowserSpec

\* Whom the owner was told is off the project is, and somebody who left reaches
\* its preview no longer than a token lasts (ShareDialog.tsx, proxy/auth.js).
THEOREM AccessHasEnded == BrowserSpec => []AccessEnds
<1> DEFINE Inv == /\ (Moves("Gate") => Proxy!GateInvariant)
             /\ (Moves("Share") => Share!ShareInvariant)
<1>1. BrowserInit => Inv
  BY LifetimesAreNatural, Proxy!GateInitially, ShareInitially DEF BrowserInit, Moves
<1>2. Inv /\ [BrowserNext]_browserVars => Inv'
  BY PartsTakeNoTurns, LifetimesAreNatural, Proxy!GateStep, ShareStep DEF Moves
<1>3. Inv => AccessEnds
  BY DEF AccessEnds, Moves, Proxy!GateInvariant, Share!ShareInvariant, Share!ToldAreNotAsked, Share!DoneIsOff, Share!IsOff, Share!GoneHasNoAccess
<1>4. QED
  BY <1>1, <1>2, <1>3, PTL DEF BrowserSpec

\* A published app is served: its host's answers are never older than its
\* pointer is remembered for, after the time storage takes, and an update of it
\* is no outage (published-server.js).
THEOREM AppsAreServed == BrowserSpec => []ServedAsPublished
<1> DEFINE Inv == (Moves("Published") => Proxy!ServingInvariant)
<1>1. BrowserInit => Inv
  BY LifetimesAreNatural, Proxy!ServingInitially DEF BrowserInit, Moves
<1>2. Inv /\ [BrowserNext]_browserVars => Inv'
  BY PartsTakeNoTurns, LifetimesAreNatural, Proxy!ServingStep DEF Moves
<1>3. Inv => ServedAsPublished
  BY DEF ServedAsPublished, Proxy!ServingInvariant, Proxy!VisitInvariant, Proxy!Answered, Proxy!AnswersAreRecent, Proxy!TtlOf,
     Proxy!UpdateIsNoOutage
<1>4. QED
  BY <1>1, <1>2, <1>3, PTL DEF BrowserSpec

\* The plans, the changes of a factor and the subdivisions of a second are
\* counted, and a copy of a project is a new project.
LEMMA PlansAreNumbers ==
  /\ MaxManagings \in Nat /\ DearestPlan \in Nat /\ TopPlan \in Nat /\ SubSeconds \in Nat \ {0}
  /\ Copies \cap (Owned \cup Edited) = {}
<1>1. {MaxManagings, DearestPlan, TopPlan, RevealLength} \subseteq Nat /\ SubSeconds \in Nat \ {0} /\ Copies \cap (Owned \cup Edited) = {}
  BY Zenon, BrowserAssumption DEF BrowserAssumption
<1>2. QED
  BY <1>1

\* What a page shows, once nothing is under way, is what the server has: the
\* list of projects, the publish menu's mark, the plan told of, the revision
\* that is the same as now and the authenticator app; and the mirrored
\* subscription is the provider's once every event came
\* (ProjectsDashboard.tsx, PublishMenu.tsx, BillingSettings.tsx,
\* HistoryPanel.tsx, SecuritySettings.tsx, SubscriptionServiceImpl.java).
THEOREM ShownStaysTheServers == BrowserSpec => []ShownIsTheServers
<1> DEFINE Inv == /\ (Moves("List") => List!ListInvariant)
             /\ (Moves("Panel") => Panel!PanelInvariant)
             /\ (Moves("Plan") => Plan!PlanInvariant)
             /\ (Moves("Log") => Log!LogInvariant)
             /\ (Moves("Billing") => Billing!BillingInvariant)
             /\ (Moves("Security") => Security!SecurityInvariant)
<1>1. BrowserInit => Inv
  BY PlansAreNumbers, ListInitially, PanelInitially, PlanInitially, LogInitially, BillingInitially, SecurityInitially DEF BrowserInit, Moves
<1>2. Inv /\ [BrowserNext]_browserVars => Inv'
  BY PlansAreNumbers, PartsTakeNoTurns, ListStep, PanelStep, PlanStep, LogStep, BillingStep, SecurityStep DEF Moves
<1>3. Inv => ShownIsTheServers
  BY PlansAreNumbers, ListHolds, PanelHolds, PlanHolds, LogHolds, BillingHolds, SecurityHolds DEF ShownIsTheServers, Moves
<1>4. QED
  BY <1>1, <1>2, <1>3, PTL DEF BrowserSpec

\* The length of a reply is a number.
LEMMA RepliesHaveALength ==
  RevealLength \in Nat
<1>1. {MaxManagings, DearestPlan, TopPlan, RevealLength} \subseteq Nat
  BY Zenon, BrowserAssumption DEF BrowserAssumption
<1>2. QED
  BY <1>1

\* Of a reply that arrives, nothing of a tag of which only half has come is
\* shown, in whatever order its chunks, the replays of a lost connection,
\* replaced texts, frames and remounts come; but for a cursor that a replay
\* has not caught up with (use-smooth-stream.ts, generation-protocol.ts).
THEOREM HalvesAreNotRead == BrowserSpec => []NoHalfReading
<1> DEFINE Inv == (Moves("Reveal") => Reveal!RevealInvariant)
<1>1. BrowserInit => Inv
  BY RepliesHaveALength, RevealInitially DEF BrowserInit, Moves
<1>2. Inv /\ [BrowserNext]_browserVars => Inv'
  BY RepliesHaveALength, PartsTakeNoTurns, RevealInvariantStays DEF Moves
<1>3. Inv => NoHalfReading
  BY RepliesHaveALength, NothingHalfIsShown DEF NoHalfReading
<1>4. QED
  BY <1>1, <1>2, <1>3, PTL DEF BrowserSpec

\* Reading only goes forward: the key that goes up the chat goes up, and a
\* lesson being written only grows (ChatPanel.tsx, lesson.ts).
THEOREM ReadingStaysForward == BrowserSpec => ReadingGoesForward
<1> DEFINE Inv == (Moves("Scroll") => Scroll!ScrollInvariant) /\ (Moves("Card") => Card!CardInvariant)
<1>1. BrowserInit => Inv
  BY ScrollInitially, CardInitially DEF BrowserInit, Moves
<1>2. Inv /\ [BrowserNext]_browserVars => Inv'
  BY PartsTakeNoTurns, ScrollStep, CardStep DEF Moves
<1>3. Inv /\ [BrowserNext]_browserVars =>
        [CASE Moves("Scroll") -> Scroll!UpGoesUp
           [] Moves("Card") -> Card!ReadingOnlyGrows
           [] OTHER -> TRUE]_browserVars
  BY PartsTakeNoTurns, UpGoesUp, CardStep DEF Moves
<1>4. QED
  BY <1>1, <1>2, <1>3, PTL DEF BrowserSpec, ReadingGoesForward
=============================================================================
