--------------------------- MODULE IdeaInterview ---------------------------
(***************************************************************************)
(* From an idea to a project: the idea a visitor leaves on the landing     *)
(* page, the prompt of the home page, the short interview kept in module   *)
(* state (lib/idea-interview.ts), which outlives the page that draws it,   *)
(* its two requests to the AI, and the creation that follows.              *)
(*                                                                         *)
(* An interview has an id; an answer that arrives for another one is       *)
(* dropped.  Questions are numbered, an answer is a set of options, and    *)
(* the message a project is built from is the idea with the answers.       *)
(***************************************************************************)
EXTENDS Naturals, FiniteSets

CONSTANTS
  Ideas,            \* what a person may type
  NoIdea,
  Options,          \* the options of a question, their own answers included
  MultiSelect,      \* the questions that take several options
  MaxQuestions,     \* bound: questions of an interview
  MaxInterviews,    \* bound: interviews started
  MaxCreations      \* bound: projects asked for

VARIABLES
  interview,        \* lib/idea-interview.ts: current
  lastId,           \* the last id given out
  ideaAsks,         \* requests to the AI on their way
  home,             \* the home page: its own state, lost when it is left
  creations,        \* project creations on their way, or made and about to be opened
  opened,           \* the projects opened, with the message they are built from
  keptIdea,         \* lib/pending-idea.ts: what the landing page left in storage
  visitor           \* who is there: signed in, and whether the next turn teaches

ideaVars == <<interview, lastId, ideaAsks, home, creations, opened, keptIdea, visitor>>

(* A message a project is built from.  No answer at all is the idea as it was typed. *)
NoAnswers == [q \in 1..MaxQuestions |-> {}]
Message == [idea : Ideas, answers : [1..MaxQuestions -> SUBSET Options]]
Plain(idea) == [idea |-> idea, answers |-> NoAnswers]

NoOutcome == [kind |-> "none"]
BuildsFrom(message) == [kind |-> "build", message |-> message]
Spent == [kind |-> "quota"]
NoInterview == [id |-> 0]

NoKept == [text |-> NoIdea]
Home(at) == [at |-> at, prompt |-> NoIdea, creating |-> "no", blocked |-> FALSE, timer |-> FALSE, own |-> FALSE]

IdeaInit ==
  /\ interview = NoInterview /\ lastId = 0 /\ ideaAsks = {}
  /\ home = Home("landing") /\ creations = {} /\ opened = {}
  /\ keptIdea = NoKept /\ visitor = [signedIn |-> FALSE, teaching |-> FALSE]

-----------------------------------------------------------------------------
(* What the page reads: an interview that is not too old (getInterview), and with it what is offered. *)
IsFresh(i) == i # NoInterview /\ i.fresh
InterviewShown == home.at = "home" /\ IsFresh(interview) /\ home.creating = "no"
IsFocused == home.creating # "no" \/ IsFresh(interview)
Asking == InterviewShown /\ ~interview.loading /\ interview.phase = "asking"
Reviewing == InterviewShown /\ ~interview.loading /\ interview.phase = "review"
Offered == IF Asking THEN {"choose", "own", "next", "skip", "edit"} \cup (IF interview.index > 1 THEN {"back"} ELSE {})
           ELSE IF Reviewing THEN {"goto", "back", "build", "edit"}
           ELSE IF InterviewShown /\ interview.loading THEN {"edit"}
           ELSE IF home.at = "home" /\ ~IsFocused THEN {"type"} \cup (IF home.prompt # NoIdea THEN {"create"} ELSE {})
           ELSE {}

(* createProject: the interview is done with, and the project asked for. *)
Creation(description, message) == [description |-> description, message |-> message, stage |-> "asked", shown |-> TRUE]
CreateProject(page, description, message) ==
  /\ Cardinality(creations \cup opened) < MaxCreations
  /\ interview' = NoInterview
  /\ creations' = creations \cup {Creation(description, message)}
  /\ home' = [page EXCEPT !.creating = "asked", !.timer = FALSE, !.own = FALSE]

(* What the clarifier does with the state it draws: an outcome, also one that came while the page was away, is handed
   to the page as soon as both are there. *)
Publish(i, page) ==
  LET due == page.at = "home" /\ IsFresh(i) /\ page.creating = "no" IN
  CASE due /\ i.outcome.kind = "build" -> CreateProject(page, i.idea, i.outcome.message)
    [] due /\ i.outcome.kind = "quota" ->
         /\ interview' = NoInterview /\ home' = [page EXCEPT !.blocked = TRUE, !.timer = FALSE, !.own = FALSE]
         /\ UNCHANGED creations
    [] OTHER -> interview' = i /\ home' = page /\ UNCHANGED creations

(* An answer only lands on the interview that asked for it. *)
\* Mutant: whatever interview is there takes the answer.
MineWhatever(id) == interview # NoInterview
Mine(id) == interview # NoInterview /\ interview.id = id
Update(id, patched) == IF Mine(id) THEN Publish(patched, home) ELSE UNCHANGED <<interview, home, creations>>

-----------------------------------------------------------------------------
(* The landing page leaves an idea behind and goes to sign up; only a visitor who is not signed in is shown it. *)
SavePendingIdea == \E idea \in Ideas, teaching \in BOOLEAN :
  /\ ~visitor.signedIn
  /\ keptIdea' = [text |-> idea, teaching |-> teaching, fresh |-> TRUE]
  /\ UNCHANGED <<interview, lastId, ideaAsks, home, creations, opened, visitor>>

KeptIdeaAges ==
  /\ keptIdea # NoKept /\ keptIdea.fresh
  /\ keptIdea' = [keptIdea EXCEPT !.fresh = FALSE]
  /\ UNCHANGED <<interview, lastId, ideaAsks, home, creations, opened, visitor>>

(* Signing in resets every store, then the first home page takes the idea out of storage, once. *)
TakePendingIdea(page) == IF keptIdea # NoKept /\ keptIdea.fresh THEN [page EXCEPT !.prompt = keptIdea.text] ELSE page
SignInHere ==
  /\ ~visitor.signedIn
  /\ visitor' = [signedIn |-> TRUE, teaching |-> keptIdea # NoKept /\ keptIdea.fresh /\ keptIdea.teaching]
  /\ interview' = NoInterview /\ home' = TakePendingIdea(Home("home")) /\ keptIdea' = NoKept
  /\ UNCHANGED <<lastId, ideaAsks, creations, opened>>

SignOutHere ==
  /\ visitor.signedIn
  /\ visitor' = [signedIn |-> FALSE, teaching |-> FALSE]
  /\ interview' = NoInterview /\ home' = Home("landing")
  /\ creations' = {[c EXCEPT !.shown = FALSE] : c \in creations}
  /\ UNCHANGED <<lastId, ideaAsks, opened, keptIdea>>

Type == \E idea \in Ideas :
  /\ "type" \in Offered
  /\ home' = [home EXCEPT !.prompt = idea]
  /\ UNCHANGED <<interview, lastId, ideaAsks, creations, opened, keptIdea, visitor>>

ChooseMode ==
  /\ "type" \in Offered
  /\ visitor' = [visitor EXCEPT !.teaching = ~@]
  /\ UNCHANGED <<interview, lastId, ideaAsks, home, creations, opened, keptIdea>>

-----------------------------------------------------------------------------
(* handleCreate: the allowances the page knows of are looked at first; then the interview starts.  (One that is
   still fresh is on the screen, so startInterview's early return is never met from here.) *)
Interview(idea) ==
  [id |-> lastId + 1, idea |-> idea, fresh |-> TRUE, loading |-> TRUE, asked |-> 0, askedOf |-> NoIdea,
   tailored |-> TRUE, phase |-> "asking", index |-> 1, fromReview |-> FALSE, chosen |-> NoAnswers, outcome |-> NoOutcome]

HandleCreate == \E spent \in BOOLEAN :
  /\ "create" \in Offered
  /\ IF spent
     THEN home' = [home EXCEPT !.blocked = TRUE] /\ UNCHANGED <<interview, lastId, ideaAsks>>
     ELSE /\ UNCHANGED home
          /\ lastId < MaxInterviews
          /\ interview' = Interview(home.prompt) /\ lastId' = lastId + 1
          /\ ideaAsks' = ideaAsks \cup {[kind |-> "questions", id |-> lastId + 1, idea |-> home.prompt]}
  /\ UNCHANGED <<creations, opened, keptIdea, visitor>>

(* loadQuestions: questions written for the idea, none needed, the general ones, or a spent allowance. *)
QuestionsArrive == \E a \in ideaAsks, n \in 0..MaxQuestions, answer \in {"tailored", "general", "quota", "failed"} :
  /\ a.kind = "questions"
  /\ answer # "tailored" => n = MaxQuestions
  /\ ideaAsks' = ideaAsks \ {a}
  /\ Update(a.id,
       CASE answer = "quota" -> [interview EXCEPT !.loading = FALSE, !.outcome = Spent]
         [] answer = "tailored" /\ n = 0 -> [interview EXCEPT !.loading = FALSE, !.outcome = BuildsFrom(Plain(a.idea))]
         [] OTHER -> [interview EXCEPT !.loading = FALSE, !.asked = n, !.tailored = (answer = "tailored"),
                                       !.askedOf = IF answer = "tailored" THEN a.idea ELSE NoIdea])
  /\ UNCHANGED <<lastId, opened, keptIdea, visitor>>

(* choose: of a question that takes one option, picking a new one goes on to the next question by itself. *)
Chosen(o) == LET now == interview.chosen[interview.index] IN
  IF o \in now THEN now \ {o} ELSE IF interview.index \in MultiSelect THEN now \cup {o} ELSE {o}
Pick(o) == /\ interview' = [interview EXCEPT !.chosen[interview.index] = Chosen(o)]
           /\ home' = [home EXCEPT !.own = FALSE, !.timer = interview.index \notin MultiSelect /\ o \in Chosen(o)]
Choose == \E o \in Options :
  /\ "choose" \in Offered /\ interview.index <= interview.asked
  /\ interview' = [interview EXCEPT !.chosen[interview.index] = Chosen(o)]
  /\ home' = [home EXCEPT !.timer = interview.index \notin MultiSelect /\ o \in Chosen(o)]
  /\ UNCHANGED <<lastId, ideaAsks, creations, opened, keptIdea, visitor>>

WriteOwn ==
  /\ "own" \in Offered
  /\ home' = [home EXCEPT !.own = ~@]
  /\ UNCHANGED <<interview, lastId, ideaAsks, creations, opened, keptIdea, visitor>>

AddOwnAnswer == \E o \in Options :
  /\ "own" \in Offered /\ home.own /\ interview.index <= interview.asked
  /\ IF o \in interview.chosen[interview.index]
     THEN home' = [home EXCEPT !.own = FALSE] /\ UNCHANGED interview
     ELSE Pick(o)
  /\ UNCHANGED <<lastId, ideaAsks, creations, opened, keptIdea, visitor>>

-----------------------------------------------------------------------------
(* Moving through the questions; every move ends the wait that would move on by itself (settle). *)
Settled == home' = [home EXCEPT !.timer = FALSE, !.own = FALSE]
Advanced(i) == IF i.fromReview \/ i.index >= i.asked
               THEN [i EXCEPT !.phase = "review", !.fromReview = FALSE]
               ELSE [i EXCEPT !.index = @ + 1]
GoTo(q, review) == [interview EXCEPT !.index = q, !.phase = "asking", !.fromReview = review]
NextQuestion ==
  /\ "next" \in Offered \/ (InterviewShown /\ home.timer)
  /\ Settled /\ interview' = Advanced(interview)
  /\ UNCHANGED <<lastId, ideaAsks, creations, opened, keptIdea, visitor>>

Back ==
  /\ "back" \in Offered
  /\ Settled
  /\ interview' = GoTo(IF interview.phase = "review" THEN interview.asked ELSE interview.index - 1, FALSE)
  /\ UNCHANGED <<lastId, ideaAsks, creations, opened, keptIdea, visitor>>

GoToQuestion == \E q \in 1..MaxQuestions :
  /\ "goto" \in Offered /\ q <= interview.asked
  /\ Settled /\ interview' = GoTo(q, TRUE)
  /\ UNCHANGED <<lastId, ideaAsks, creations, opened, keptIdea, visitor>>

EditIdea ==
  /\ "edit" \in Offered
  /\ interview' = NoInterview /\ Settled
  /\ UNCHANGED <<lastId, ideaAsks, creations, opened, keptIdea, visitor>>

SkipQuestions ==
  /\ "skip" \in Offered
  /\ CreateProject(home, interview.idea, Plain(interview.idea))
  /\ UNCHANGED <<lastId, ideaAsks, opened, keptIdea, visitor>>

(* compileInterview: the answers as they stand go to the AI; when it cannot be reached a brief is put together here. *)
Build ==
  /\ "build" \in Offered
  /\ interview' = [interview EXCEPT !.phase = "compiling"]
  /\ ideaAsks' = ideaAsks \cup
       {[kind |-> "brief", id |-> interview.id, idea |-> interview.idea, answers |-> interview.chosen]}
  /\ UNCHANGED <<lastId, home, creations, opened, keptIdea, visitor>>

BriefArrives == \E a \in ideaAsks, spent \in BOOLEAN :
  /\ a.kind = "brief"
  /\ ideaAsks' = ideaAsks \ {a}
  /\ Update(a.id, IF spent THEN [interview EXCEPT !.phase = "review", !.outcome = Spent]
                  ELSE [interview EXCEPT !.outcome = BuildsFrom([idea |-> a.idea, answers |-> a.answers])])
  /\ UNCHANGED <<lastId, opened, keptIdea, visitor>>

-----------------------------------------------------------------------------
(* The creation, which goes on when the page is left: the answer then draws nothing, but the project is still opened. *)
Made == \E c \in creations :
  /\ c.stage = "asked"
  /\ creations' = (creations \ {c}) \cup {[c EXCEPT !.stage = "made"]}
  /\ home' = IF c.shown THEN [home EXCEPT !.creating = "made"] ELSE home
  /\ UNCHANGED <<interview, lastId, ideaAsks, opened, keptIdea, visitor>>

NotMade == \E c \in creations, spent \in BOOLEAN :
  /\ c.stage = "asked"
  /\ creations' = creations \ {c}
  /\ home' = IF c.shown THEN [home EXCEPT !.creating = "no", !.blocked = spent] ELSE home
  /\ UNCHANGED <<interview, lastId, ideaAsks, opened, keptIdea, visitor>>

OpenProject == \E c \in creations :
  /\ c.stage = "made"
  /\ opened' = opened \cup {[c EXCEPT !.stage = "opened", !.shown = FALSE]}
  /\ creations' = {[d EXCEPT !.shown = FALSE] : d \in creations \ {c}}
  /\ home' = IF visitor.signedIn THEN Home("away") ELSE home
  /\ UNCHANGED <<interview, lastId, ideaAsks, keptIdea, visitor>>

(* Leaving the page drops what only it held; coming back finds the interview where it was. *)
Leave ==
  /\ home.at = "home"
  /\ home' = Home("away")
  /\ creations' = {[c EXCEPT !.shown = FALSE] : c \in creations}
  /\ UNCHANGED <<interview, lastId, ideaAsks, opened, keptIdea, visitor>>

ComeBack ==
  /\ home.at = "away" /\ visitor.signedIn
  /\ Publish(interview, TakePendingIdea(Home("home")))
  /\ keptIdea' = NoKept
  /\ UNCHANGED <<lastId, ideaAsks, opened, visitor>>

InterviewAges ==
  /\ IsFresh(interview)
  /\ interview' = [interview EXCEPT !.fresh = FALSE]
  /\ UNCHANGED <<lastId, ideaAsks, home, creations, opened, keptIdea, visitor>>

CloseBlocked ==
  /\ home.blocked
  /\ home' = [home EXCEPT !.blocked = FALSE]
  /\ UNCHANGED <<interview, lastId, ideaAsks, creations, opened, keptIdea, visitor>>

IdeaNext ==
  \/ SavePendingIdea \/ KeptIdeaAges \/ SignInHere \/ SignOutHere \/ Type \/ ChooseMode \/ HandleCreate
  \/ QuestionsArrive \/ Choose \/ WriteOwn \/ AddOwnAnswer \/ NextQuestion \/ Back \/ GoToQuestion \/ EditIdea
  \/ SkipQuestions \/ Build \/ BriefArrives \/ Made \/ NotMade \/ OpenProject \/ Leave \/ ComeBack
  \/ InterviewAges \/ CloseBlocked

IdeaSpec == IdeaInit /\ [][IdeaNext]_ideaVars

-----------------------------------------------------------------------------
IdeaTypeOK ==
  /\ interview # NoInterview => /\ interview.id \in 1..lastId /\ interview.idea \in Ideas
                                /\ interview.phase \in {"asking", "review", "compiling"}
                                /\ interview.index \in 1..MaxQuestions /\ interview.asked \in 0..MaxQuestions
                                /\ interview.chosen \in [1..MaxQuestions -> SUBSET Options]
  /\ \A a \in ideaAsks : a.id \in 1..lastId /\ a.idea \in Ideas
  /\ home.at \in {"landing", "home", "away"} /\ home.prompt \in Ideas \cup {NoIdea}
  /\ home.creating \in {"no", "asked", "made"} /\ visitor \in [signedIn : BOOLEAN, teaching : BOOLEAN]
  /\ \A c \in creations \cup opened : c.message \in Message

(* The questions shown, the brief compiled and the message a project is opened with are those of the idea the person
   gave, and the brief is made of the answers that stand, whatever interviews were dropped while their answers were
   on their way (idea-interview.ts: update). *)
AnswersAreForThisIdea ==
  /\ interview # NoInterview =>
       /\ interview.askedOf \in {NoIdea, interview.idea}
       /\ interview.outcome.kind = "build" =>
            /\ interview.outcome.message.idea = interview.idea
            /\ interview.outcome.message.answers \in {NoAnswers, interview.chosen}
  /\ \A c \in creations \cup opened : c.message.idea = c.description

-----------------------------------------------------------------------------
(* Why they are. *)

(* An interview's questions and its brief are of its idea; a brief with answers is made while nothing can be chosen. *)
InterviewFits(i) ==
  /\ i = [id |-> i.id, idea |-> i.idea, fresh |-> i.fresh, loading |-> i.loading, asked |-> i.asked,
          askedOf |-> i.askedOf, tailored |-> i.tailored, phase |-> i.phase, index |-> i.index,
          fromReview |-> i.fromReview, chosen |-> i.chosen, outcome |-> i.outcome]
  /\ i.askedOf \in {NoIdea, i.idea}
  /\ i.outcome.kind = "build" =>
       /\ i.outcome.message.idea = i.idea
       /\ \/ i.outcome.message.answers = NoAnswers
          \/ i.outcome.message.answers = i.chosen /\ i.phase = "compiling"

(* A request is of the interview that has its id; one for a brief has the answers, which stand until it is answered. *)
AskFits(a, i) ==
  a.id = i.id => a.idea = i.idea /\ (a.kind = "brief" => i.phase = "compiling" /\ a.answers = i.chosen)

(* The wait that moves on by itself is one between two questions. *)
WaitFits(i, page) ==
  /\ page = [at |-> page.at, prompt |-> page.prompt, creating |-> page.creating, blocked |-> page.blocked,
             timer |-> page.timer, own |-> page.own]
  /\ i # NoInterview /\ i.phase # "asking" => page.timer = FALSE

CreationFits(c) ==
  /\ c = [description |-> c.description, message |-> c.message, stage |-> c.stage, shown |-> c.shown]
  /\ c.message.idea = c.description

IdeaInvariant ==
  /\ lastId \in Nat
  /\ interview # NoInterview =>
       /\ interview.id \in 1..lastId /\ InterviewFits(interview)
       /\ \A a \in ideaAsks : AskFits(a, interview)
  /\ \A a \in ideaAsks : a.id \in 1..lastId
  /\ \A a, b \in ideaAsks : a.kind = "brief" /\ b.kind = "brief" /\ a.id = b.id => a = b
  /\ WaitFits(interview, home)
  /\ \A c \in creations \cup opened : CreationFits(c)
=============================================================================
