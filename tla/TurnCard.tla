------------------------------ MODULE TurnCard ------------------------------
(* What one reply of the assistant shows and offers once its events are     *)
(* known (ChatEventRenderer.tsx): the model's thoughts let out one at a     *)
(* time, the questions it asks, and in teaching mode the build card whose   *)
(* files open a lesson that is read while it is still being written         *)
(* (lesson.ts).  The events themselves are in ChatText; who pays for a      *)
(* lesson and keeps it is in Lessons.                                       *)
EXTENDS Naturals, Sequences, SequencesExt

CONSTANTS
    StepFiles,      \* the files of the build's steps
    AnswerOptions,  \* answers suggested for a question
    MaxLines,       \* bound: lines of the lesson
    MaxThoughts     \* bound: lines of the model's thoughts

NoFileOpen == "none"
NoAnswer == "none"

\* A lesson's line: text, the heading of a numbered section, another heading,
\* the heading "Check yourself"; "hash" is a line that starts with # only.
LineKinds == {"text", "note", "extra", "check", "hash"}
Headings == {"note", "extra", "check"}

\* What the reply is mostly made of; one kind of block moves in a behaviour.
ReplyKinds == {"thinking", "asking", "building"}

VARIABLES
    cardReply,      \* [kind, streaming, teaching, newest, saved]
    thought,    \* [lines, arriving, shown, settled]: the thinking block
    answers,    \* the picks of the question block, one for each question
    answered,   \* the answers sent as the next message
    card,       \* [steps, picture, lesson, asked]: what is unfolded, what was last asked
    lesson,     \* [status, lines, cut, again]: the lesson's text as it comes
    task        \* [set, verdict]: the exercise under the lesson

cardVars == <<cardReply, thought, answers, answered, card, lesson, task>>

CardReplies == [kind : ReplyKinds, streaming : BOOLEAN, teaching : BOOLEAN,
            newest : BOOLEAN, saved : SUBSET StepFiles]

CardTypeOK ==
    /\ cardReply \in CardReplies
    /\ thought \in [lines : 0 .. MaxThoughts, arriving : BOOLEAN, shown : 0 .. MaxThoughts, settled : BOOLEAN]
    /\ answers \in [1 .. 2 -> AnswerOptions \cup {NoAnswer}]
    /\ answered \in Seq(AnswerOptions) /\ Len(answered) \in {0, 2}
    /\ card \in [steps : BOOLEAN, picture : BOOLEAN, lesson : StepFiles \cup {NoFileOpen},
                asked : {"nothing", "section", "answer"}]
    /\ lesson.status \in {"none", "loading", "done", "error"}
    /\ lesson.lines \in Seq(LineKinds) /\ lesson.cut \in BOOLEAN /\ lesson.again \in BOOLEAN
    /\ task \in [set : {"none", "loading", "done", "error"}, verdict : {"none", "loading", "done", "not yet", "error"}]

NoText == [status |-> "none", lines |-> <<>>, cut |-> FALSE, again |-> FALSE]

CardInit ==
    /\ cardReply \in {r \in CardReplies : r.newest /\ r.saved = {}}
    /\ LET paced == cardReply.streaming /\ cardReply.kind = "thinking" IN
       thought = [lines |-> IF paced THEN 0 ELSE MaxThoughts, arriving |-> paced,
                  shown |-> IF paced THEN 0 ELSE MaxThoughts, settled |-> ~paced]
    /\ answers = [q \in 1 .. 2 |-> NoAnswer] /\ answered = <<>>
    /\ card = [steps |-> FALSE, picture |-> FALSE, lesson |-> NoFileOpen, asked |-> "nothing"]
    /\ lesson = NoText
    /\ task = [set |-> "none", verdict |-> "none"]

Is(kind) == cardReply.kind = kind

ReplyEnds ==
    /\ cardReply.streaming /\ ~thought.arriving
    /\ cardReply' = [cardReply EXCEPT !.streaming = FALSE]
    /\ UNCHANGED <<thought, answers, answered, card, lesson, task>>

\* Another turn follows this one, or the mode of the next message is switched,
\* which changes nothing here: teaching is a property of the turn.
NextTurnBegins ==
    /\ ~cardReply.streaming /\ cardReply.newest
    /\ cardReply' = [cardReply EXCEPT !.newest = FALSE]
    /\ UNCHANGED <<thought, answers, answered, card, lesson, task>>

--------------------------------------------------------------------------
(* Thoughts.  The last line is held back while it may still grow.           *)

ThoughtSteps == IF thought.arriving /\ thought.lines > 0 THEN thought.lines - 1 ELSE thought.lines
VisibleSteps == IF thought.shown < ThoughtSteps THEN thought.shown ELSE ThoughtSteps
IsRevealing == thought.arriving \/ VisibleSteps < ThoughtSteps \/ ~thought.settled

ThoughtArrives ==
    /\ thought.arriving
    /\ \/ /\ thought.lines < MaxThoughts
          /\ thought' = [thought EXCEPT !.lines = @ + 1]
       \/ thought' = [thought EXCEPT !.arriving = FALSE]
    /\ UNCHANGED <<cardReply, answers, answered, card, lesson, task>>

StepIsShown ==
    /\ thought.shown < ThoughtSteps
    /\ thought' = [thought EXCEPT !.shown = @ + 1]
    /\ UNCHANGED <<cardReply, answers, answered, card, lesson, task>>

ThoughtsSettle ==
    /\ ~thought.arriving /\ ~thought.settled
    /\ ThoughtSteps > 0 /\ thought.shown >= ThoughtSteps
    /\ thought' = [thought EXCEPT !.settled = TRUE]
    /\ UNCHANGED <<cardReply, answers, answered, card, lesson, task>>

--------------------------------------------------------------------------
(* Questions.  A single question is answered by a press; several are        *)
(* collected and sent together, one line for each.                          *)

AnswerIsOffered == Is("asking") /\ ~cardReply.streaming /\ cardReply.newest
IsFullyAnswered(given) == \A q \in DOMAIN given : given[q] # NoAnswer
FormatAnswers(given) == SelectSeq(given, LAMBDA answer : answer # NoAnswer)

\* Pressing the answer picked before takes it back.
PickAnswer(q, option) ==
    /\ AnswerIsOffered
    /\ answers' = [answers EXCEPT ![q] = IF @ = option THEN NoAnswer ELSE option]
    /\ UNCHANGED <<cardReply, thought, answered, card, lesson, task>>

SendAnswers ==
    /\ AnswerIsOffered /\ IsFullyAnswered(answers)
    /\ answered' = FormatAnswers(answers)
    /\ cardReply' = [cardReply EXCEPT !.newest = FALSE]
    /\ UNCHANGED <<thought, answers, card, lesson, task>>

--------------------------------------------------------------------------
(* The build card.                                                          *)

Teaches == Is("building") /\ cardReply.teaching /\ ~cardReply.streaming
CanTeach(file) == Teaches /\ file \in StepFiles

TeachableLessons == {file \in StepFiles : CanTeach(file)}
LessonsRead == {file \in TeachableLessons : file \in cardReply.saved}
               \cup {file \in TeachableLessons : card.lesson = file /\ lesson.status = "done"}

ToggleSteps ==
    /\ Is("building")
    /\ card' = [card EXCEPT !.steps = ~@]
    /\ UNCHANGED <<cardReply, thought, answers, answered, lesson, task>>

\* The big picture is asked for when it is first unfolded.
TogglePicture ==
    /\ Teaches /\ TeachableLessons # {}
    /\ card' = [card EXCEPT !.picture = ~@]
    /\ UNCHANGED <<cardReply, thought, answers, answered, lesson, task>>

\* Opening another file's lesson closes the one open: its text is asked for
\* unless it came with the conversation.
ToggleLesson(file) ==
    /\ card.steps /\ CanTeach(file)
    /\ IF card.lesson = file
       THEN card' = [card EXCEPT !.lesson = NoFileOpen, !.asked = "nothing"] /\ lesson' = NoText
       ELSE card' = [card EXCEPT !.lesson = file, !.asked = "nothing"]
            /\ lesson' = [NoText EXCEPT !.status = IF file \in cardReply.saved THEN "none" ELSE "loading", !.again = TRUE]
    /\ task' = [set |-> "none", verdict |-> "none"]
    /\ UNCHANGED <<cardReply, thought, answers, answered>>

TryLessonAgain ==
    /\ card.lesson # NoFileOpen /\ lesson.status = "error"
    /\ lesson' = [NoText EXCEPT !.status = "loading", !.again = TRUE]
    /\ UNCHANGED <<cardReply, thought, answers, answered, card, task>>

--------------------------------------------------------------------------
(* Reading a lesson.  `lines` are those that arrived whole; `cut` says that *)
(* a line beginning with # is still being written after them.               *)

\* Mutant: a heading still being written is read as a line of its own.
LinesReadAll(text) == IF text.cut THEN Append(text.lines, "hash") ELSE text.lines

LinesRead(text) == IF text.cut /\ text.status = "done" THEN Append(text.lines, "hash") ELSE text.lines

BodyFrom(lines, i) ==
    LET heads == {j \in DOMAIN lines : j > i /\ lines[j] \in Headings}
        end   == IF heads = {} THEN Len(lines) ELSE (CHOOSE j \in heads : \A k \in heads : j <= k) - 1
    IN  SubSeq(lines, i + 1, end)

\* A section is known by the line its heading is on.
HeadingsAt(lines, kinds) == {i \in DOMAIN lines : lines[i] \in kinds}

\* The sections after the last numbered one; a numbered one forgets those
\* that came before it.
ExtrasOf(lines) ==
    {i \in HeadingsAt(lines, {"extra", "check"}) : \A n \in HeadingsAt(lines, {"note"}) : n < i}

ParseWalkthrough(text) ==
    LET lines  == LinesRead(text)
        whole  == text.status = "done"
        notes  == HeadingsAt(lines, {"note"})
        extras == ExtrasOf(lines)
        checks == {i \in extras : lines[i] = "check"}
        first  == CHOOSE i \in checks : \A c \in checks : i <= c
        checkIsWhole == checks # {} /\ (whole \/ \E i \in extras : first < i)
    IN  [overview |-> BodyFrom(lines, 0),
         notes    |-> [n \in notes |->
                        [body     |-> BodyFrom(lines, n),
                         complete |-> whole \/ extras # {} \/ \E m \in notes : n < m]],
         closing  |-> \E i \in extras : lines[i] = "extra",
         check    |-> checkIsWhole /\ BodyFrom(lines, first) # <<>>]

\* The big picture: an opening and its headed sections.
ParseBigPicture(text) ==
    LET lines == LinesRead(text)
    IN  [intro    |-> BodyFrom(lines, 0),
         sections |-> [n \in HeadingsAt(lines, Headings) |-> BodyFrom(lines, n)]]

HasText(text) == ParseWalkthrough(text).overview # <<>> \/ DOMAIN ParseWalkthrough(text).notes # {}
StillWriting == lesson.status = "loading" /\ HasText(lesson)

LineArrives(kind) ==
    /\ lesson.status = "loading" /\ Len(lesson.lines) < MaxLines
    /\ \/ /\ kind # "text" /\ ~lesson.cut
          /\ lesson' = [lesson EXCEPT !.cut = TRUE, !.again = FALSE]
       \/ /\ kind = "text" \/ lesson.cut
          /\ kind # "text" \/ ~lesson.cut
          /\ lesson' = [lesson EXCEPT !.lines = Append(@, kind), !.cut = FALSE, !.again = FALSE]
    /\ UNCHANGED <<cardReply, thought, answers, answered, card, task>>

LessonEnds ==
    /\ lesson.status = "loading"
    /\ \/ lesson' = [lesson EXCEPT !.status = "error", !.again = FALSE]
       \/ /\ lesson.lines # <<>> \/ lesson.cut
          /\ lesson' = [lesson EXCEPT !.status = "done", !.again = FALSE]
    /\ UNCHANGED <<cardReply, thought, answers, answered, card, task>>

\* The conversation is loaded again, with the lessons the server kept.
LessonIsKept ==
    /\ lesson.status = "done" /\ card.lesson \notin cardReply.saved
    /\ cardReply' = [cardReply EXCEPT !.saved = @ \cup {card.lesson}]
    /\ UNCHANGED <<thought, answers, answered, card, lesson, task>>

\* A finished section offers its three deeper questions to the explainer.
DeeperQuestions(text) == {n \in DOMAIN ParseWalkthrough(text).notes : ParseWalkthrough(text).notes[n].complete}

AskDeeper ==
    /\ card.lesson # NoFileOpen /\ DeeperQuestions(lesson) # {}
    /\ card' = [card EXCEPT !.asked = "section"]
    /\ UNCHANGED <<cardReply, thought, answers, answered, lesson, task>>

\* The answer to the lesson's question goes to the explainer to be checked.
AnswerCheck ==
    /\ card.lesson # NoFileOpen /\ ParseWalkthrough(lesson).check
    /\ card' = [card EXCEPT !.asked = "answer"]
    /\ UNCHANGED <<cardReply, thought, answers, answered, lesson, task>>

--------------------------------------------------------------------------
(* The exercise under a finished lesson, and its check.                     *)

TaskIsOffered == lesson.status = "done"
HasTask == task.set = "done"

AskTask ==
    /\ TaskIsOffered /\ task.set \in {"none", "error"}
    /\ task' = [task EXCEPT !.set = "loading"]
    /\ UNCHANGED <<cardReply, thought, answers, answered, card, lesson>>

TaskAnswered ==
    /\ task.set = "loading"
    /\ \E how \in {"done", "error"} : task' = [task EXCEPT !.set = how]
    /\ UNCHANGED <<cardReply, thought, answers, answered, card, lesson>>

\* "Not yet" may be checked again; "Done" is final.
CheckTask ==
    /\ HasTask /\ task.verdict \notin {"loading", "done"}
    /\ task' = [task EXCEPT !.verdict = "loading"]
    /\ UNCHANGED <<cardReply, thought, answers, answered, card, lesson>>

VerdictArrives ==
    /\ task.verdict = "loading"
    /\ \E how \in {"done", "not yet", "error"} : task' = [task EXCEPT !.verdict = how]
    /\ UNCHANGED <<cardReply, thought, answers, answered, card, lesson>>

CardNext ==
    \/ ReplyEnds \/ NextTurnBegins
    \/ ThoughtArrives \/ StepIsShown \/ ThoughtsSettle
    \/ \E q \in 1 .. 2, option \in AnswerOptions : PickAnswer(q, option)
    \/ SendAnswers
    \/ ToggleSteps \/ TogglePicture \/ \E file \in StepFiles : ToggleLesson(file)
    \/ TryLessonAgain \/ AskDeeper \/ AnswerCheck \/ LessonEnds \/ LessonIsKept
    \/ \E kind \in LineKinds : LineArrives(kind)
    \/ AskTask \/ TaskAnswered \/ CheckTask \/ VerdictArrives

CardSpec == CardInit /\ [][CardNext]_cardVars

--------------------------------------------------------------------------
\* A lesson's text; that it has this form is all the reading of it rests on.
LessonTexts == [status : {"none", "loading", "done", "error"}, lines : Seq(LineKinds), cut : BOOLEAN, again : BOOLEAN]
CardInvariant == lesson \in LessonTexts

Extends(later, earlier) == IsPrefix(earlier, later)

\* What was read of a lesson, in a later reading of it.
OnlyAddedTo(earlier, later) ==
    LET before == ParseWalkthrough(earlier)
        after  == ParseWalkthrough(later)
        seen   == ParseBigPicture(earlier).sections
        now    == ParseBigPicture(later).sections
    IN  /\ Extends(after.overview, before.overview)
        /\ \A n \in DOMAIN before.notes :
               /\ n \in DOMAIN after.notes
               /\ Extends(after.notes[n].body, before.notes[n].body)
               /\ before.notes[n].complete => after.notes[n].body = before.notes[n].body
        /\ \A n \in DOMAIN seen : n \in DOMAIN now /\ Extends(now[n], seen[n])

\* A half-written lesson reads sensibly at every point (lesson.ts, header):
\* what the reader has seen of its opening and of its sections is only ever
\* added to, and a section said to be finished is never written on.
ReadingOnlyGrows == ~lesson'.again /\ lesson'.lines # <<>> => OnlyAddedTo(lesson, lesson')
=============================================================================
