------------------------------ MODULE BrowserState ------------------------------
(***************************************************************************)
(* What the parts of the browser that are checked in one run share: the    *)
(* constants of each, and the variables they take turns in.                *)
(***************************************************************************)
EXTENDS Naturals

CONSTANTS
  Visits, PointerTtl, MissingTtl, MinReread, Wait, MaxBuilds, MaxNow,   \* PublishedApp
  Hosts, TokenTtl, SeenEvery, MaxTracked, MaxClock,   \* PreviewGate
  People, MaxAttempts,   \* Session
  MaxManagings, MaxForms, MaxSecurityChanges,   \* SecurityPage
  MaxLinkRefreshes, MaxFixAttempts, MaxLoads, MaxChannel, MaxErrors, MaxBuildTurns, Statuses,   \* PreviewFrame
  MaxRetries, MaxSessions,   \* PreviewStart
  Files, MaxContents, MaxOutside,   \* FileEditor
  MaxRevisions,   \* HistoryLog
  Selections, MaxExchanges, MaxDeletes,   \* CodeNotes
  Writings, Repeatable, Words, MaxRequests,   \* Lessons
  Ideas, NoIdea, Options, MultiSelect, MaxQuestions, MaxInterviews, MaxCreations,   \* IdeaInterview
  Owned, Edited, Copies, Names, MaxChanges,   \* ProjectList
  Guests, GuestRoles, MaxAsks,   \* Sharing
  MaxVersions, MaxEdits, Slugs,   \* PublishPanel
  TopPlan, MaxProviderChanges, MaxSyncs, SubSeconds,   \* Billing
  DearestPlan, MaxTruths,   \* PlanPages
  DayLimit, BuildMinimum, UnitsPerBuild, PageSize, MaxMade,   \* UsagePage
  TurnPaths, MaxBlocks, MaxBody, MaxChecklistSteps,   \* ChatText
  RevealLength, MaxRestarts,   \* ChatReveal
  Roles, Kinds, MaxMessages, MaxPresses,   \* ChatScroll
  StepFiles, AnswerOptions, MaxLines, MaxThoughts,   \* TurnCard
  Texts, Short, MaxTyped,   \* CodeSearch
  PageRoles, GuideLength, MaxVisits,   \* Workspace
  HeaderRoles, ProjectNames,   \* ProjectHeader
  CodeLength, MaxSubmits   \* SignInForm

VARIABLES
  part,   \* which part moves
  v1, v2, v3, v4, v5, v6, v7, v8, v9, v10, v11, v12, v13, v14, v15, v16, v17,
  v18, v19, v20

ASSUME BrowserAssumption ==
  /\ "none" \notin Selections \cup Files /\ NoIdea \notin Ideas /\ "nobody" \notin People
  /\ "" \notin Texts \cup Short \cup ProjectNames /\ Texts \cap Short = {}
  /\ Repeatable \cup Words \subseteq Writings
  /\ HeaderRoles \cup PageRoles \subseteq {"OWNER", "EDITOR", "VIEWER"}
  /\ {CodeLength, GuideLength, PageSize} \subseteq Nat \ {0}
  /\ {PointerTtl, MissingTtl, MinReread, Wait, MaxBuilds, TokenTtl, MaxMade} \subseteq Nat
  /\ {MaxManagings, DearestPlan, TopPlan, RevealLength} \subseteq Nat /\ SubSeconds \in Nat \ {0}
  /\ Copies \cap (Owned \cup Edited) = {}
=============================================================================
