----------------------------- MODULE ChatScroll -----------------------------
(* The chat panel around its messages: where the conversation is scrolled,  *)
(* the jumps from one of the person's messages to the next, the rail of     *)
(* ticks, the composer and what each message offers.  Every message of the  *)
(* person and every reply is as tall as the window, so message i starts at  *)
(* 2 * i and the conversation ends at 2 * Count; a smooth scroll moves one  *)
(* such unit at a time and may be interrupted by the wheel.                 *)
EXTENDS Naturals, Integers, Sequences

CONSTANTS
    Roles,          \* who is here: subset of {"editor", "guest", "viewer"}
    Kinds,          \* kinds of message sent: subset of {"short", "long", "brief"}
    MaxMessages,    \* bound: messages of the person
    MaxPresses      \* bound: presses beside the scrolling (copy, unfold, rail, mode)

Nowhere == -1

Levels == {"new", "some", "developer"}

VARIABLES
    role,           \* "guest": an editor the project was shared with
    loading,        \* the conversation is still loading
    streaming,      \* a turn is under way
    quota,          \* the day's allowance is used up
    kinds,          \* the person's messages, oldest first
    draft,          \* text is in the composer
    top,            \* the scroll position
    goal,           \* where a smooth scroll is heading, or Nowhere
    pinned,         \* isPinnedRef: follow the newest text
    active,         \* activeJumpRef: the message jumped to, or Nowhere
    jumping,        \* isJumpScrollingRef
    position,       \* jumpPosition: 1 + the current message, Count when at the end
    toLatest,       \* showJumpToLatest
    highlighted,    \* the message just jumped to, or Nowhere
    rail,           \* "closed", "open" or "closing" (open, with the close delay running)
    unfolded,       \* messages whose "Show more" is open
    copiedMessage,         \* a copy button shows its tick
    mode,           \* what the mode picker holds: teaching, level, and whether it is open
    presses,        \* presses made so far
    interrupted     \* a jump was broken off by the wheel or a new message (ghost)

placeVars == <<top, goal, pinned, active, jumping, position, toLatest, interrupted>>
paneVars == <<role, loading, streaming, quota, kinds, draft>>
pressVars == <<rail, unfolded, copiedMessage, mode, presses>>
chatVars == <<placeVars, paneVars, pressVars, highlighted>>

Count == Len(kinds)
Messages == 0 .. Count - 1
TopOf(i) == 2 * i
Bottom == 2 * Count

PanelModes == [teaching : BOOLEAN, level : Levels, open : BOOLEAN]

ScrollTypeOK ==
    /\ role \in Roles
    /\ {loading, streaming, quota, draft, pinned, jumping, toLatest, copiedMessage, interrupted} \subseteq BOOLEAN
    /\ kinds \in Seq(Kinds \cup {"short"}) /\ Count <= MaxMessages
    /\ top \in 0 .. Bottom
    /\ goal \in {Nowhere} \cup 0 .. Bottom
    /\ active \in {Nowhere} \cup 0 .. Count
    /\ position \in 0 .. Count
    /\ highlighted \in {Nowhere} \cup 0 .. MaxMessages
    /\ rail \in {"closed", "open", "closing"}
    /\ unfolded \subseteq 0 .. MaxMessages
    /\ mode \in PanelModes
    /\ presses \in 0 .. MaxPresses

ScrollInit ==
    /\ role \in Roles
    /\ loading = TRUE /\ streaming = FALSE /\ quota = FALSE
    /\ kinds = <<>> /\ draft = FALSE
    /\ top = 0 /\ goal = Nowhere /\ pinned = TRUE /\ active = Nowhere
    /\ jumping = FALSE /\ position = 0 /\ toLatest = FALSE /\ interrupted = FALSE
    /\ highlighted = Nowhere
    /\ rail = "closed" /\ unfolded = {} /\ copiedMessage = FALSE /\ presses = 0
    /\ mode = [teaching |-> FALSE, level |-> "new", open |-> FALSE]

--------------------------------------------------------------------------
(* What the panel shows.                                                    *)

ReadOnly == role = "viewer"

BodyShows ==
    CASE loading -> "loading"
      [] ~loading /\ Count > 0 -> "conversation"
      [] ~loading /\ Count = 0 /\ role = "editor" -> "suggestions"
      [] OTHER -> "welcome"

SuggestionsOffered == ~loading /\ Count = 0 /\ ~ReadOnly
ComposerShows == IF ReadOnly THEN "reading" ELSE IF quota THEN "upgrade" ELSE "prompt"
StopOffered == ComposerShows = "prompt" /\ streaming
EditPromptOffered == ~ReadOnly /\ ~streaming
AnswerOffered == EditPromptOffered /\ ~quota
HasRail == ~loading /\ Count > 1
ToLatestOffered == toLatest /\ Count > 0

\* A long message is folded until its toggle is pressed; the compiled brief of
\* an interview shows its first sentence and keeps the rest behind the toggle.
HasToggle(i) == kinds[i + 1] # "short"
ShownOf(i) ==
    CASE kinds[i + 1] = "short" \/ i \in unfolded -> "whole"
      [] kinds[i + 1] = "brief" /\ i \notin unfolded -> "headline"
      [] OTHER -> "folded"

\* The ticks drawn: at most `most` of them, around the current message.
RailStart(items, current, most) ==
    LET anchor == IF current < 0 THEN items - 1 ELSE current
        first  == IF anchor - most \div 2 < 0 THEN 0 ELSE anchor - most \div 2
    IN  IF items <= most THEN 0
        ELSE IF first > items - most THEN items - most ELSE first

--------------------------------------------------------------------------
(* Scrolling.                                                               *)

NearestTo(place) == IF place \div 2 >= Count THEN Count - 1 ELSE place \div 2
NearestUserMessage == NearestTo(top)

HandleScroll(to) ==
    LET held == to = Bottom \/ (pinned /\ to >= top)
    IN  /\ top' = to
        /\ pinned' = held
        /\ toLatest' = ~held
        /\ IF jumping
           THEN UNCHANGED <<active, position>>
           ELSE /\ active' = Nowhere
                /\ position' = IF held THEN Count ELSE NearestTo(to) + 1

\* The wheel, the scroll bar or a key: it ends a smooth scroll under way.
UserScrolls ==
    /\ BodyShows = "conversation"
    /\ \E to \in {top - 1, top + 1} \cap 0 .. Bottom : HandleScroll(to)
    /\ goal' = Nowhere
    /\ interrupted' = (interrupted \/ goal # Nowhere)
    /\ UNCHANGED <<jumping, highlighted, paneVars, pressVars>>

SmoothStep ==
    /\ goal \notin {Nowhere, top}
    /\ HandleScroll(IF top < goal THEN top + 1 ELSE top - 1)
    /\ UNCHANGED <<goal, jumping, interrupted, highlighted, paneVars, pressVars>>

\* The browser's scrollend: the smooth scroll arrived or was cut short.
ScrollEnd ==
    /\ goal \in {Nowhere, top}
    /\ goal # Nowhere \/ jumping
    /\ goal' = Nowhere
    /\ jumping' = FALSE
    /\ UNCHANGED <<top, pinned, active, position, toLatest, interrupted, highlighted, paneVars, pressVars>>

\* The timer that stands in for a scrollend that never comes.
JumpTimesOut ==
    /\ jumping
    /\ jumping' = FALSE
    /\ UNCHANGED <<top, goal, pinned, active, position, toLatest, interrupted, highlighted, paneVars, pressVars>>

\* Opening anything that folds stops the view from following new text.
HoldWhenSomethingIsOpened ==
    /\ BodyShows = "conversation"
    /\ pinned
    /\ pinned' = FALSE
    /\ UNCHANGED <<top, goal, active, jumping, position, toLatest, interrupted, highlighted, paneVars, pressVars>>

ScrollToLatest ==
    /\ pinned' = TRUE
    /\ active' = Count
    /\ jumping' = TRUE
    /\ position' = Count
    /\ goal' = Bottom
    /\ UNCHANGED <<top, toLatest, highlighted>>

ScrollToUserMessage(i) ==
    /\ pinned' = FALSE
    /\ active' = i
    /\ jumping' = TRUE
    /\ position' = i + 1
    /\ goal' = TopOf(i)
    /\ highlighted' = i
    /\ UNCHANGED <<top, toLatest>>

\* Mutant: a jump forgets the one under way and starts from where the view is.
StandingForgetful == IF pinned THEN Count ELSE Nowhere

\* Where the person's reading stands for the next jump: the message last
\* jumped to, else the end when the view follows it, else unknown.
Standing == IF active # Nowhere THEN active ELSE IF pinned THEN Count ELSE Nowhere

TargetUp ==
    CASE Standing # Nowhere -> Standing - 1
      [] Standing = Nowhere /\ NearestUserMessage = Nowhere -> 0
      [] Standing = Nowhere /\ NearestUserMessage # Nowhere ->
             IF TopOf(NearestUserMessage) = top THEN NearestUserMessage - 1 ELSE NearestUserMessage

TargetDown == IF Standing # Nowhere THEN Standing + 1 ELSE NearestUserMessage + 1

JumpUp ==
    /\ BodyShows = "conversation"
    /\ ScrollToUserMessage(IF TargetUp < 0 THEN 0 ELSE TargetUp)
    /\ interrupted' = FALSE
    /\ UNCHANGED <<paneVars, pressVars>>

JumpDown ==
    /\ BodyShows = "conversation"
    /\ IF TargetDown >= Count THEN ScrollToLatest ELSE ScrollToUserMessage(TargetDown)
    /\ interrupted' = FALSE
    /\ UNCHANGED <<paneVars, pressVars>>

PressToLatest ==
    /\ ToLatestOffered
    /\ ScrollToLatest
    /\ interrupted' = FALSE
    /\ UNCHANGED <<paneVars, pressVars>>

HighlightEnds ==
    /\ highlighted # Nowhere
    /\ highlighted' = Nowhere
    /\ UNCHANGED <<placeVars, paneVars, pressVars>>

--------------------------------------------------------------------------
(* The conversation and the composer.                                       *)

HistoryArrives ==
    /\ loading
    /\ loading' = FALSE
    /\ UNCHANGED <<role, streaming, quota, kinds, draft, placeVars, pressVars, highlighted>>

\* A message of the person joins the list: the effect on the count forgets the
\* jump.
Joins(kind) ==
    /\ Count < MaxMessages
    /\ kinds' = Append(kinds, kind)
    /\ active' = Nowhere
    /\ position' = Count + 1
    /\ interrupted' = (interrupted \/ goal # Nowhere)
    /\ UNCHANGED <<jumping, highlighted>>

\* The observer keeps a pinned view at the new end.
FollowsTheEnd == top' = Bottom + 2 /\ goal' = Nowhere /\ pinned' = TRUE /\ toLatest' = FALSE

HandleChatSubmit ==
    /\ ~loading /\ ComposerShows = "prompt" /\ draft /\ ~streaming
    /\ \E kind \in Kinds : Joins(kind)
    /\ FollowsTheEnd
    /\ draft' = FALSE
    /\ streaming' = TRUE
    /\ UNCHANGED <<role, loading, quota, pressVars>>

\* An answer picked in the newest reply is sent as it is: nothing is pinned
\* for it, so the view stays where it was unless it already followed the end.
SendAnswer ==
    /\ BodyShows = "conversation" /\ AnswerOffered
    /\ Joins("short")
    /\ IF pinned THEN FollowsTheEnd ELSE UNCHANGED <<top, goal, pinned, toLatest>>
    /\ streaming' = TRUE
    /\ UNCHANGED <<role, loading, quota, draft, pressVars>>

\* The turn ends; its cost may use up the day's allowance.
TurnEnds ==
    /\ streaming
    /\ streaming' = FALSE
    /\ quota' \in {quota, TRUE}
    /\ UNCHANGED <<role, loading, kinds, draft, placeVars, pressVars, highlighted>>

ClearChat ==
    /\ BodyShows = "conversation" /\ ~streaming /\ ~ReadOnly
    /\ kinds' = <<>>
    /\ top' = 0 /\ goal' = Nowhere /\ active' = Nowhere /\ position' = 0
    /\ unfolded' = {}
    /\ UNCHANGED <<role, loading, streaming, quota, draft, pinned, jumping, toLatest, interrupted,
                   highlighted, rail, copiedMessage, mode, presses>>

\* Typing, a suggestion, or Edit on an older message fills the composer.
FillComposer ==
    /\ ComposerShows = "prompt" \/ SuggestionsOffered \/ (Count > 0 /\ EditPromptOffered)
    /\ draft' = TRUE
    /\ UNCHANGED <<role, loading, streaming, quota, kinds, placeVars, pressVars, highlighted>>

--------------------------------------------------------------------------
(* The presses beside the scrolling.                                        *)

Pressed == presses < MaxPresses /\ presses' = presses + 1

ToggleMessage(i) ==
    /\ Pressed
    /\ HasToggle(i)
    /\ unfolded' = IF i \in unfolded THEN unfolded \ {i} ELSE unfolded \cup {i}
    /\ pinned' = FALSE
    /\ UNCHANGED <<top, goal, active, jumping, position, toLatest, interrupted, highlighted,
                   paneVars, rail, copiedMessage, mode>>

\* Copying may be refused by the browser, which changes nothing.
Copy ==
    /\ Pressed
    /\ Count > 0
    /\ copiedMessage' \in {copiedMessage, TRUE}
    /\ UNCHANGED <<placeVars, paneVars, rail, unfolded, mode, highlighted>>

CopyFeedbackEnds ==
    /\ copiedMessage
    /\ copiedMessage' = FALSE
    /\ UNCHANGED <<placeVars, paneVars, rail, unfolded, mode, presses, highlighted>>

\* Pointing at the rail or focusing it opens the list and cancels a close.
OpenRail ==
    /\ Pressed
    /\ HasRail
    /\ rail' = "open"
    /\ UNCHANGED <<placeVars, paneVars, unfolded, copiedMessage, mode, highlighted>>

\* Leaving it starts the close delay; Escape closes it at once.
LeaveRail ==
    /\ rail = "open"
    /\ rail' \in {"closing", "closed"}
    /\ UNCHANGED <<placeVars, paneVars, unfolded, copiedMessage, mode, presses, highlighted>>

CloseDelayEnds ==
    /\ rail = "closing"
    /\ rail' = "closed"
    /\ UNCHANGED <<placeVars, paneVars, unfolded, copiedMessage, mode, presses, highlighted>>

PickFromRail ==
    /\ rail # "closed" /\ HasRail
    /\ \E i \in Messages : ScrollToUserMessage(i)
    /\ interrupted' = FALSE
    /\ rail' = "closed"
    /\ UNCHANGED <<paneVars, unfolded, copiedMessage, mode, presses>>

OpenModeMenu ==
    /\ Pressed
    /\ ComposerShows = "prompt" /\ ~mode.open
    /\ mode' = [mode EXCEPT !.open = TRUE]
    /\ UNCHANGED <<placeVars, paneVars, rail, unfolded, copiedMessage, highlighted>>

\* Choosing Teach me leaves the menu open, for the level it then asks about.
ChooseChatMode ==
    /\ mode.open
    /\ \E teaching \in BOOLEAN :
           mode' = [mode EXCEPT !.teaching = teaching, !.open = teaching /\ ~mode.teaching]
    /\ UNCHANGED <<placeVars, paneVars, rail, unfolded, copiedMessage, presses, highlighted>>

ChooseLevel ==
    /\ mode.open /\ mode.teaching
    /\ \E level \in Levels : mode' = [mode EXCEPT !.level = level]
    /\ UNCHANGED <<placeVars, paneVars, rail, unfolded, copiedMessage, presses, highlighted>>

ScrollNext ==
    \/ UserScrolls \/ SmoothStep \/ ScrollEnd \/ JumpTimesOut
    \/ HoldWhenSomethingIsOpened \/ JumpUp \/ JumpDown \/ PressToLatest \/ HighlightEnds
    \/ HistoryArrives \/ HandleChatSubmit \/ SendAnswer \/ TurnEnds \/ ClearChat \/ FillComposer
    \/ \E i \in Messages : ToggleMessage(i)
    \/ Copy \/ CopyFeedbackEnds
    \/ OpenRail \/ LeaveRail \/ CloseDelayEnds \/ PickFromRail
    \/ OpenModeMenu \/ ChooseChatMode \/ ChooseLevel

ScrollSpec == ScrollInit /\ [][ScrollNext]_chatVars

--------------------------------------------------------------------------
(* Until a jump is broken off, the panel knows where it leads: the target   *)
(* is the message jumped to, there is one as long as the scrolling is a     *)
(* jump, and a view that follows the end is there or on its way to it.      *)
KnowsTheTarget == active # Nowhere => IF goal = Nowhere THEN top = TopOf(active) ELSE goal = TopOf(active)
JumpHasATarget == jumping => (goal = Nowhere <=> active = Nowhere)
FollowsToTheEnd == pinned => IF goal = Nowhere THEN top = Bottom ELSE goal = Bottom
ScrollInvariant ==
    /\ kinds \in Seq(Kinds \cup {"short"})
    /\ top \in 0 .. Bottom
    /\ goal \in {Nowhere} \cup 0 .. Bottom
    /\ active \in {Nowhere} \cup 0 .. Count
    /\ pinned \in BOOLEAN /\ jumping \in BOOLEAN /\ interrupted \in BOOLEAN
    /\ ~interrupted => KnowsTheTarget /\ JumpHasATarget /\ FollowsToTheEnd

(* Where the reader is: at the goal of the jump they asked for, as long as  *)
(* the panel still knows of it; else at the lower of the two, and where the *)
(* view stands when nothing is moving.                                      *)
Whereabouts ==
    IF goal = Nowhere THEN top
    ELSE IF jumping \/ goal > top THEN goal ELSE top

\* Alt+Up never takes the reader further down: several presses in a row, in
\* the middle of a smooth scroll or from anywhere, never head for a later
\* message than the one the reader was at or heading for (ChatPanel,
\* jumpToUserMessage).  A jump broken off is excepted: after the wheel the
\* panel goes on taking the reader to be at its target, and a message that
\* joins makes it forget the target while the view still moves there.
UpGoesUp == JumpUp /\ ~interrupted => goal' <= Whereabouts
=============================================================================
