------------------------------ MODULE CodeNotes ------------------------------
(***************************************************************************)
(* ExplainLLM's thread of notes for one project (code-lens-store.ts,       *)
(* CodeLensPanel.tsx): questions about selected code, answers streamed     *)
(* into place, finished exchanges saved as notes, notes loaded, deleted    *)
(* and cleared while all of that is under way.                             *)
(***************************************************************************)
EXTENDS Naturals, Sequences, SequencesExt, FiniteSets, KeptElements

CONSTANTS
  Selections,      \* pieces of code a question can be about
  MaxExchanges,    \* bound: questions asked
  MaxDeletes       \* bound: deletions on their way at once

NoSelection == "none"

VARIABLES
  notes,      \* the server's notes
  thread,     \* the open thread, as the page has it
  loaded,     \* whether the notes were asked for
  notesLoading,    \* the notes on their way
  streams,    \* answers being written
  saves,      \* finished exchanges on their way to be saved, and their answers
  deletes,    \* deletions on their way
  asked,      \* bound; numbers the exchanges
  deletedEarly   \* history variable: exchanges deleted before they were sent to be saved

noteVars == <<notes, thread, loaded, notesLoading, streams, saves, deletes, asked, deletedEarly>>

NoThread == [open |-> FALSE, selection |-> NoSelection, turns |-> <<>>, busy |-> FALSE, error |-> FALSE]
NotLoading == [on |-> FALSE, answered |-> FALSE, got |-> {}]

NotesInit ==
  /\ notes \in {{}, {0}}   \* a note of an earlier visit
  /\ thread = NoThread /\ loaded = FALSE /\ notesLoading = NotLoading
  /\ streams = {} /\ saves = {} /\ deletes = {} /\ asked = 0 /\ deletedEarly = {}

-----------------------------------------------------------------------------
(* The server. *)

NotesServerReads ==
  /\ notesLoading.on /\ ~notesLoading.answered
  /\ notesLoading' = [notesLoading EXCEPT !.answered = TRUE, !.got = notes]
  /\ UNCHANGED <<notes, thread, loaded, streams, saves, deletes, asked, deletedEarly>>

(* A note is named after the exchange it keeps. *)
SaveReaches(s) ==
  /\ s \in saves /\ s.answer = "none"
  /\ \/ /\ notes' = notes \cup {s.ex}
        /\ saves' = (saves \ {s}) \cup {[s EXCEPT !.answer = "saved"]}
     \/ /\ saves' = saves \ {s}    \* refused, or lost: only the console is told
        /\ UNCHANGED notes
  /\ UNCHANGED <<thread, loaded, notesLoading, streams, deletes, asked, deletedEarly>>

-----------------------------------------------------------------------------
(* Loading. *)

LoadNotes ==
  IF loaded THEN UNCHANGED <<loaded, notesLoading>>
  ELSE loaded' = TRUE /\ notesLoading' = [NotLoading EXCEPT !.on = TRUE]

NoteToTurns(n) == [ex |-> n, note |-> TRUE, quote |-> NoSelection, streaming |-> FALSE, text |-> TRUE]

(* The saved notes come first; what the thread had and is not one of them  *)
(* stays behind them. *)
NotesLoaded ==
  /\ notesLoading.answered
  /\ notesLoading' = NotLoading
  /\ \/ /\ thread' = [thread EXCEPT !.turns =
                        SetToSeq({NoteToTurns(n) : n \in notesLoading.got})
                          \o Kept(@, {t \in ToSet(@) : ~(t.note /\ t.ex \in notesLoading.got)})]
        /\ UNCHANGED loaded
     \/ /\ thread' = [thread EXCEPT !.error = TRUE]
        /\ loaded' = FALSE
  /\ UNCHANGED <<notes, streams, saves, deletes, asked, deletedEarly>>

-----------------------------------------------------------------------------
(* Opening and asking. *)

OpenThread(selection) ==
  /\ thread' = [thread EXCEPT !.open = TRUE, !.selection = selection, !.error = FALSE]
  /\ LoadNotes
  /\ UNCHANGED <<streams, asked>>

SelectionKey(t) == t.quote
SelectionForNextTurn(s) ==
  LET quoted == SelectSeq(thread.turns, LAMBDA t : t.quote # NoSelection)
  IN  IF quoted # <<>> /\ SelectionKey(Last(quoted)) = s THEN NoSelection ELSE s

(* The question, and under it the answer that is to be written. *)
StreamAnswer(selection, quote) ==
  /\ asked < MaxExchanges
  /\ asked' = asked + 1
  /\ thread' = [thread EXCEPT !.open = TRUE, !.busy = TRUE, !.error = FALSE, !.selection = NoSelection,
                              !.turns = Append(@, [ex |-> asked + 1, note |-> FALSE, quote |-> quote,
                                                   streaming |-> TRUE, text |-> FALSE])]
  /\ streams' = streams \cup {asked + 1}

Explain(selection) == StreamAnswer(selection, selection)
AskQuestion(selection) == StreamAnswer(selection, SelectionForNextTurn(selection))

(* Code is selected in the editor, to ask about or to have explained; the  *)
(* panel is opened again. *)
SelectCode(s) ==
  /\ OpenThread(s)
  /\ UNCHANGED <<notes, saves, deletes, deletedEarly>>

OpenAndExplain(s) ==
  /\ IF thread.busy THEN OpenThread(s)
     ELSE /\ Explain(s) /\ LoadNotes
  /\ UNCHANGED <<notes, saves, deletes, deletedEarly>>

(* A step of a build is to be explained; a lesson asks about code of its   *)
(* own.  While an answer is being written the first only opens the panel,  *)
(* the second says so. *)
ExplainStep ==
  /\ IF thread.busy THEN OpenThread(NoSelection)
     ELSE /\ StreamAnswer(NoSelection, NoSelection) /\ LoadNotes
  /\ UNCHANGED <<notes, saves, deletes, deletedEarly>>

AskAbout(s) ==
  /\ IF thread.busy
     THEN /\ thread' = [thread EXCEPT !.open = TRUE, !.error = TRUE]
          /\ LoadNotes /\ UNCHANGED <<streams, asked>>
     ELSE AskQuestion(s) /\ LoadNotes
  /\ UNCHANGED <<notes, saves, deletes, deletedEarly>>

(* What the panel offers. *)
PanelOffers == thread.open
NoteSendOffered == PanelOffers /\ ~thread.busy

AskInPanel ==
  /\ NoteSendOffered
  /\ \/ AskQuestion(thread.selection)
     \/ thread.selection # NoSelection /\ Explain(thread.selection)
  /\ UNCHANGED <<notes, loaded, notesLoading, saves, deletes, deletedEarly>>

CloseOrDismiss ==
  /\ PanelOffers
  /\ \/ thread' = [thread EXCEPT !.open = FALSE]
     \/ thread.error /\ thread' = [thread EXCEPT !.error = FALSE]
     \/ thread.selection # NoSelection /\ thread' = [thread EXCEPT !.selection = NoSelection]
  /\ UNCHANGED <<notes, loaded, notesLoading, streams, saves, deletes, asked, deletedEarly>>

-----------------------------------------------------------------------------
(* The answer arrives. *)

AnswerChunk(ex) ==
  /\ ex \in streams
  /\ \E i \in 1..Len(thread.turns) :
       /\ thread.turns[i].ex = ex /\ ~thread.turns[i].text
       /\ thread' = [thread EXCEPT !.turns[i].text = TRUE]
  /\ UNCHANGED <<notes, loaded, notesLoading, streams, saves, deletes, asked, deletedEarly>>

(* An answer that stayed empty goes; its question stays. *)
Settle(ex) == [i \in 1..Len(thread.turns) |->
                 IF thread.turns[i].ex = ex THEN [thread.turns[i] EXCEPT !.streaming = FALSE] ELSE thread.turns[i]]

\* Mutant: the exchange is saved from what was asked, not from what the thread holds.
AnswerOfAsked(ex) == ex \in streams

AnswerOf(ex) == \E i \in 1..Len(thread.turns) : thread.turns[i].ex = ex /\ thread.turns[i].text

(* A finished answer is sent to be saved if the thread still has it; one   *)
(* that failed keeps what arrived, and is not saved. *)
StreamFinishes(ex) ==
  /\ ex \in streams
  /\ streams' = streams \ {ex}
  /\ \E failed \in BOOLEAN :
       /\ thread' = [thread EXCEPT !.busy = FALSE, !.turns = Settle(ex), !.error = @ \/ failed]
       /\ saves' = IF ~failed /\ AnswerOf(ex) THEN saves \cup {[ex |-> ex, answer |-> "none"]} ELSE saves
  /\ UNCHANGED <<notes, loaded, notesLoading, deletes, asked, deletedEarly>>

(* persistExchange: the exchange learns which note it is. *)
SaveAnsweredNote(s) ==
  /\ s \in saves /\ s.answer = "saved"
  /\ saves' = saves \ {s}
  /\ thread' = [thread EXCEPT !.turns = [i \in 1..Len(@) |->
                  IF @[i].ex = s.ex THEN [@[i] EXCEPT !.note = TRUE] ELSE @[i]]]
  /\ UNCHANGED <<notes, loaded, notesLoading, streams, deletes, asked, deletedEarly>>

-----------------------------------------------------------------------------
(* Deleting. *)

(* A question goes with its answer; the server is told when the exchange   *)
(* is known to be a note. *)
DeleteExchange(ex) ==
  /\ PanelOffers /\ Cardinality(deletes) < MaxDeletes
  /\ \E i \in 1..Len(thread.turns) :
       /\ thread.turns[i].ex = ex
       /\ deletes' = IF thread.turns[i].note THEN deletes \cup {{ex}} ELSE deletes
  /\ thread' = [thread EXCEPT !.turns = Kept(@, {t \in ToSet(@) : t.ex # ex}), !.error = FALSE]
  /\ deletedEarly' = IF ex \in streams THEN deletedEarly \cup {ex} ELSE deletedEarly
  /\ UNCHANGED <<notes, loaded, notesLoading, streams, saves, asked>>

(* All of them: whatever the server has when it is told. *)
Everything == 0..MaxExchanges
ClearNotes ==
  /\ PanelOffers /\ thread.turns # <<>> /\ Cardinality(deletes) < MaxDeletes
  /\ thread' = [thread EXCEPT !.turns = <<>>, !.error = FALSE]
  /\ deletes' = deletes \cup {Everything}
  /\ deletedEarly' = deletedEarly \cup streams
  /\ UNCHANGED <<notes, loaded, notesLoading, streams, saves, asked>>

(* A deletion that failed asks for the notes again. *)
DeletionAnswered(d) ==
  /\ d \in deletes
  /\ deletes' = deletes \ {d}
  /\ \/ /\ notes' = notes \ d
        /\ UNCHANGED <<thread, loaded, notesLoading>>
     \/ /\ thread' = [thread EXCEPT !.error = TRUE]
        /\ loaded' = TRUE /\ notesLoading' = [NotLoading EXCEPT !.on = TRUE]
        /\ UNCHANGED notes
  /\ UNCHANGED <<streams, saves, asked, deletedEarly>>

NotesNext ==
  \/ NotesServerReads \/ NotesLoaded \/ ExplainStep \/ AskInPanel \/ CloseOrDismiss \/ ClearNotes
  \/ \E s \in Selections : SelectCode(s) \/ OpenAndExplain(s) \/ AskAbout(s)
  \/ \E s \in saves : SaveReaches(s) \/ SaveAnsweredNote(s)
  \/ \E ex \in Everything : AnswerChunk(ex) \/ StreamFinishes(ex) \/ DeleteExchange(ex)
  \/ \E d \in deletes : DeletionAnswered(d)

NotesSpec == NotesInit /\ [][NotesNext]_noteVars

-----------------------------------------------------------------------------
NotesTypeOK ==
  /\ notes \subseteq Everything /\ asked \in 0..MaxExchanges
  /\ thread.selection \in Selections \cup {NoSelection}
  /\ \A i \in 1..Len(thread.turns) : thread.turns[i].ex \in Everything
  /\ Cardinality(streams) =< 1 /\ (thread.busy <=> streams # {})

(* An exchange that is deleted while its answer is being written, by       *)
(* itself or with the whole thread, is never saved, however the answer     *)
(* goes on to arrive. *)
WithdrawnIsNotSaved == deletedEarly \cap (notes \cup {s.ex : s \in saves}) = {}

-----------------------------------------------------------------------------
(* Why it is not. *)

Exchanges == 0..asked
Turns == [ex : Nat, note : BOOLEAN, quote : Selections \cup {NoSelection}, streaming : BOOLEAN, text : BOOLEAN]
Threads ==
  [open : BOOLEAN, selection : Selections \cup {NoSelection}, turns : Seq(Turns), busy : BOOLEAN, error : BOOLEAN]

(* What was deleted early is not in the thread, so it is not found there   *)
(* when its answer ends; what is being written was not sent to be saved.   *)
NotesInvariant ==
  /\ asked \in Nat /\ thread \in Threads
  /\ notesLoading = [on |-> notesLoading.on, answered |-> notesLoading.answered, got |-> notesLoading.got]
  /\ \A s \in saves : s = [ex |-> s.ex, answer |-> s.answer]
  /\ streams \cup deletedEarly \subseteq Exchanges
  /\ notes \cup notesLoading.got \cup {s.ex : s \in saves} \subseteq Exchanges \ (streams \cup deletedEarly)
  /\ \A i \in 1..Len(thread.turns) : thread.turns[i].ex \in Exchanges \ deletedEarly
=============================================================================
