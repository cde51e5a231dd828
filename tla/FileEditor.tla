----------------------------- MODULE FileEditor -----------------------------
(***************************************************************************)
(* A project's files in the browser: the Code tab's list, tabs and editor  *)
(* (CodePanel.tsx), what a response being written lays over the files of   *)
(* the server (project-chat-store.ts), and going back to an earlier        *)
(* version from History (RestoreDialog.tsx).                               *)
(*                                                                         *)
(* A content is a number, and stands for the hash of it too; 0 is "no such *)
(* file".  Another member, and the model, write files of their own accord. *)
(* Which files are marked as changed, and the view of a diff, are left     *)
(* out.                                                                    *)
(***************************************************************************)
EXTENDS Naturals, Sequences, SequencesExt

CONSTANTS
  Files,
  MaxContents,   \* bound: contents a file has over its life
  MaxOutside     \* bound: responses, restores and writes of others

NoFile == "none"

VARIABLES
  disk,       \* the server's files
  latest,     \* the contents made so far, of every file
  layer,      \* what the response has written: the chat store's part
  pane,       \* the open tabs, the active one, and the server's files as last listed
  cached,     \* fetchedContents
  reading,    \* the file's text on its way to the pane
  treeLoads,  \* lists of the files asked for, and why
  edit,       \* the file being edited by hand
  opening,    \* the file on its way to be edited
  saving,     \* the save under way
  restore,    \* the restore dialog
  outside,    \* bound
  known,      \* history variable: contents the editor put before the person
  blind       \* history variable: contents a save replaced that it had not

editorVars == <<disk, latest, layer, pane, cached, reading, treeLoads, edit, opening, saving, restore, outside, known, blind>>
history == <<known, blind>>
byHand == <<edit, opening, saving>>

NoContents == [f \in Files |-> 0]
NoLayer == [streaming |-> FALSE, done |-> NoContents, gone |-> {}, writing |-> NoFile, changed |-> {}]
NoRead == [path |-> NoFile, got |-> 0, answered |-> FALSE]
AskFile(f) == [path |-> f, got |-> 0, answered |-> FALSE]
NoEdit == [path |-> NoFile, base |-> 0, saved |-> 0, draft |-> 0]
NoSave == [path |-> NoFile, draft |-> 0, base |-> 0, answer |-> "none"]

(* The tabs are kept in the browser, with the one that was active. *)
ReadSavedTabs == {[tabs |-> <<>>, active |-> NoFile, listed |-> {}]} \cup
                 {[tabs |-> <<f>>, active |-> f, listed |-> {}] : f \in Files}

EditorInit ==
  /\ \E there \in (SUBSET Files) \ {{}} : disk = [f \in Files |-> IF f \in there THEN 1 ELSE 0]
  /\ latest = [f \in Files |-> 1]
  /\ layer = NoLayer /\ pane \in ReadSavedTabs /\ cached = NoContents
  /\ reading = IF pane.active = NoFile THEN NoRead ELSE AskFile(pane.active)
  /\ treeLoads = {"first"}
  /\ edit = NoEdit /\ opening = NoRead /\ saving = NoSave /\ restore = "closed" /\ outside = 0
  /\ known = {} /\ blind = {}

Dirty == edit # NoEdit /\ edit.draft # edit.saved
EditingActive == edit # NoEdit /\ edit.path = pane.active
IsBeingWritten == pane.active # NoFile /\ layer.writing = pane.active

AddTab(tabs, f) == IF Contains(tabs, f) THEN tabs ELSE Append(tabs, f)
WithoutTabs(tabs, gone) == SelectSeq(tabs, LAMBDA f : f \notin gone)

(* The text of the active file is asked for when another file becomes the  *)
(* active one, when the response has its text no longer, and after a       *)
(* restore; an answer to an earlier question is dropped. *)
SkipFetch == layer.done[pane.active] # 0 \/ layer.writing = pane.active
Wants == IF pane.active = NoFile \/ SkipFetch THEN NoFile ELSE pane.active
ReadsAgain == reading' = IF Wants' = Wants THEN reading ELSE IF Wants' = NoFile THEN NoRead ELSE AskFile(Wants')

-----------------------------------------------------------------------------
(* The server, and whoever else writes to the project. *)

Others ==
  /\ outside < MaxOutside /\ outside' = outside + 1
  /\ \E f \in Files : \E c \in {0, latest[f] + 1} :
       /\ c # disk[f] /\ c =< MaxContents
       /\ disk' = [disk EXCEPT ![f] = c]
       /\ latest' = [latest EXCEPT ![f] = IF c = 0 THEN @ ELSE c]
  /\ UNCHANGED <<layer, pane, cached, reading, treeLoads, byHand, restore, history>>

(* The server answers with what the file is at that moment. *)
ServerReads ==
  /\ \/ /\ reading.path # NoFile /\ ~reading.answered
        /\ reading' = [reading EXCEPT !.got = disk[reading.path], !.answered = TRUE]
        /\ UNCHANGED opening
     \/ /\ opening.path # NoFile /\ ~opening.answered
        /\ opening' = [opening EXCEPT !.got = disk[opening.path], !.answered = TRUE]
        /\ UNCHANGED reading
  /\ UNCHANGED <<disk, latest, layer, pane, cached, treeLoads, edit, saving, restore, outside, history>>

(* A save is carried out if the file is still the one it was made from. *)
ServerSaves ==
  /\ saving.answer = "asked"
  /\ \/ /\ saving.base = disk[saving.path]
        /\ disk' = [disk EXCEPT ![saving.path] = saving.draft]
        /\ blind' = IF <<saving.path, disk[saving.path]>> \in known THEN blind
                    ELSE blind \cup {<<saving.path, disk[saving.path]>>}
        /\ \E answer \in {"saved", "lost"} : saving' = [saving EXCEPT !.answer = answer]
     \/ /\ saving.base # disk[saving.path]
        /\ saving' = [saving EXCEPT !.answer = "conflict"]
        /\ UNCHANGED <<disk, blind>>
  /\ UNCHANGED <<latest, layer, pane, cached, reading, treeLoads, edit, opening, restore, outside, known>>

-----------------------------------------------------------------------------
(* The response: files it begins, finishes and deletes are laid over the   *)
(* server's at once; they are saved when it ends well. *)

StreamBegins ==
  /\ outside < MaxOutside /\ outside' = outside + 1
  /\ ~layer.streaming
  /\ layer' = [layer EXCEPT !.streaming = TRUE, !.changed = {}]
  /\ UNCHANGED <<disk, latest, pane, cached, reading, treeLoads, byHand, restore, history>>

Writes(f) ==
  /\ layer.streaming /\ layer.writing = NoFile
  /\ layer' = [layer EXCEPT !.writing = f, !.gone = @ \ {f}]
  /\ UNCHANGED pane /\ ReadsAgain
  /\ UNCHANGED <<disk, latest, cached, treeLoads, byHand, restore, outside, history>>

WithTurnFiles ==
  /\ layer.writing # NoFile /\ latest[layer.writing] < MaxContents
  /\ latest' = [latest EXCEPT ![layer.writing] = @ + 1]
  /\ layer' = [layer EXCEPT !.done[layer.writing] = latest'[layer.writing],
                            !.gone = @ \ {layer.writing}, !.changed = @ \cup {layer.writing}, !.writing = NoFile]
  /\ UNCHANGED pane /\ ReadsAgain
  /\ UNCHANGED <<disk, cached, treeLoads, byHand, restore, outside, history>>

(* The tab of a file that the response deletes closes. *)
DeletesFile(f) ==
  /\ layer.streaming /\ layer.writing = NoFile /\ f \notin layer.gone
  /\ layer' = [layer EXCEPT !.gone = @ \cup {f}, !.done[f] = 0]
  /\ pane' = [pane EXCEPT !.tabs = WithoutTabs(@, {f}), !.active = IF @ = f THEN NoFile ELSE @]
  /\ ReadsAgain
  /\ UNCHANGED <<disk, latest, cached, treeLoads, byHand, restore, outside, history>>

(* The turn ends: saved, or kept from being saved, or its files taken back *)
(* (failTurn).  The tabs of what it changed open and the list is asked for. *)
StreamEnds ==
  /\ layer.streaming
  /\ \/ /\ disk' = [f \in Files |-> IF f \in layer.gone THEN 0
                                    ELSE IF f \in layer.changed /\ layer.done[f] # 0 THEN layer.done[f] ELSE disk[f]]
        /\ layer' = [layer EXCEPT !.streaming = FALSE, !.writing = NoFile]
        /\ pane' = [pane EXCEPT !.tabs = FoldSet(LAMBDA f, tabs : AddTab(tabs, f), @, layer.changed)]
     \/ /\ layer' = NoLayer
        /\ UNCHANGED <<disk, pane>>
  /\ treeLoads' = treeLoads \cup {"after"}
  /\ ReadsAgain
  /\ UNCHANGED <<latest, cached, byHand, restore, outside, history>>

-----------------------------------------------------------------------------
(* The pane.                                                               *)

Listed == {f \in Files : disk[f] # 0}

(* The list of files: at first a file is opened when no tab was kept; after *)
(* a restore the tabs of files that are gone close. *)
LoadTree(why) ==
  /\ why \in treeLoads
  /\ treeLoads' = treeLoads \ {why}
  /\ \/ LET kept == WithoutTabs(pane.tabs, Files \ Listed)
        IN  pane' = CASE why = "first" /\ pane.tabs = <<>> /\ Listed # {} ->
                           LET f == CHOOSE x \in Listed : TRUE
                           IN  [tabs |-> <<f>>, active |-> IF pane.active = NoFile THEN f ELSE pane.active,
                                listed |-> Listed]
                      [] why = "restored" ->
                           [tabs |-> kept, active |-> IF pane.active \in Listed THEN pane.active ELSE NoFile,
                            listed |-> Listed]
                      [] OTHER -> [pane EXCEPT !.listed = Listed]
     \/ UNCHANGED pane    \* it could not be loaded
  /\ UNCHANGED layer /\ ReadsAgain
  /\ UNCHANGED <<disk, latest, cached, byHand, restore, outside, history>>

(* files: what the list shows. *)
ShownFiles == (pane.listed \ layer.gone) \cup {f \in Files : layer.done[f] # 0}

(* The active file's text; 0 when it is not there yet. *)
Content == IF EditingActive THEN edit.draft
           ELSE IF layer.done[pane.active] # 0 THEN layer.done[pane.active] ELSE cached[pane.active]

EditorBody == IF pane.active # NoFile /\ Content # 0 THEN "text"
              ELSE IF IsBeingWritten THEN "being written" ELSE "loading"

(* What can be pressed: the files of the list, and the tabs. *)
TreeOffers(f) == f \in ShownFiles
TabsOffer(f) == Contains(pane.tabs, f)

SelectFile(f) ==
  /\ TreeOffers(f) \/ TabsOffer(f)
  /\ pane' = [pane EXCEPT !.tabs = AddTab(@, f), !.active = f] /\ pane' # pane
  /\ UNCHANGED layer /\ ReadsAgain
  /\ UNCHANGED <<disk, latest, cached, treeLoads, byHand, restore, outside, history>>

(* The neighbour of the active tab takes its place. *)
CloseTab(f) ==
  /\ TabsOffer(f)
  /\ LET next  == WithoutTabs(pane.tabs, {f})
         index == CHOOSE i \in 1..Len(pane.tabs) : pane.tabs[i] = f
     IN  pane' = [pane EXCEPT !.tabs = next,
                              !.active = IF @ # f THEN @ ELSE IF next = <<>> THEN NoFile
                                         ELSE next[IF index > Len(next) THEN Len(next) ELSE index]]
  /\ UNCHANGED layer /\ ReadsAgain
  /\ UNCHANGED <<disk, latest, cached, treeLoads, byHand, restore, outside, history>>

FileArrives ==
  /\ reading.answered
  /\ cached' = [cached EXCEPT ![reading.path] = reading.got]
  /\ reading' = NoRead
  /\ UNCHANGED <<disk, latest, layer, pane, treeLoads, byHand, restore, outside, history>>

-----------------------------------------------------------------------------
(* Editing by hand.                                                        *)

EditOffered == pane.active # NoFile /\ ~EditingActive /\ ~layer.streaming /\ ~IsBeingWritten /\ ~Dirty

(* The file is read again, with its hash, before it is edited. *)
StartEditing ==
  /\ EditOffered /\ opening = NoRead
  /\ opening' = AskFile(pane.active)
  /\ UNCHANGED <<disk, latest, layer, pane, cached, reading, treeLoads, edit, saving, restore, outside, history>>

\* Mutant: the text the pane already had is edited, under the hash of the file.
EditOfShown(f, got) ==
  LET shown == IF layer.done[f] # 0 THEN layer.done[f] ELSE cached[f]
  IN  [path |-> f, base |-> got, saved |-> shown, draft |-> shown]

EditOf(f, got) == [path |-> f, base |-> got, saved |-> got, draft |-> got]

EditOpens ==
  /\ opening.answered
  /\ opening' = NoRead
  /\ IF opening.got = 0 THEN UNCHANGED <<cached, edit, known>>
     ELSE /\ cached' = [cached EXCEPT ![opening.path] = opening.got]
          /\ edit' = EditOf(opening.path, opening.got)
          /\ known' = known \cup {<<opening.path, edit'.saved>>}
  /\ UNCHANGED <<disk, latest, layer, pane, reading, treeLoads, saving, restore, outside, blind>>

DraftChange ==
  /\ EditingActive /\ EditorBody = "text" /\ latest[edit.path] < MaxContents
  /\ edit.draft = edit.saved \/ saving # NoSave
  /\ latest' = [latest EXCEPT ![edit.path] = @ + 1]
  /\ edit' = [edit EXCEPT !.draft = latest'[edit.path]]
  /\ known' = known \cup {<<edit.path, edit'.draft>>}
  /\ UNCHANGED <<disk, layer, pane, cached, reading, treeLoads, opening, saving, restore, outside, blind>>

SaveOffered == EditingActive /\ Dirty /\ saving = NoSave /\ ~layer.streaming
DiscardOffered == EditingActive /\ saving = NoSave

SaveEdit ==
  /\ SaveOffered
  /\ saving' = [path |-> edit.path, draft |-> edit.draft, base |-> edit.base, answer |-> "asked"]
  /\ UNCHANGED <<disk, latest, layer, pane, cached, reading, treeLoads, edit, opening, restore, outside, history>>

(* The response's copy of what was saved is dropped, unless another one is *)
(* being written: filesChangedOutside. *)
FilesChangedOutside(paths) ==
  IF layer.streaming THEN layer
  ELSE [layer EXCEPT !.done = [f \in Files |-> IF f \in paths THEN 0 ELSE layer.done[f]],
                     !.changed = @ \ paths, !.gone = IF paths = Files THEN {} ELSE @]

SaveAnswered ==
  /\ saving.answer \notin {"none", "asked"}
  /\ saving' = NoSave
  /\ IF saving.answer = "saved"
     THEN /\ cached' = [cached EXCEPT ![saving.path] = saving.draft]
          /\ edit' = IF edit.path # saving.path THEN edit
                     ELSE [edit EXCEPT !.base = saving.draft, !.saved = saving.draft]
          /\ layer' = FilesChangedOutside({saving.path})
     ELSE UNCHANGED <<cached, edit, layer>>
  /\ UNCHANGED pane /\ ReadsAgain
  /\ UNCHANGED <<disk, latest, treeLoads, opening, restore, outside, history>>

Discard ==
  /\ DiscardOffered
  /\ edit' = NoEdit
  /\ UNCHANGED <<disk, latest, layer, pane, cached, reading, treeLoads, opening, saving, restore, outside, history>>

-----------------------------------------------------------------------------
(* Going back to an earlier version. *)

(* The dialog is opened, shows what would change, and can be closed until  *)
(* it restores.  History opens it only between two responses. *)
RestoreDialog ==
  /\ \/ restore = "closed" /\ ~layer.streaming /\ outside < MaxOutside /\ restore' = "open"
     \/ restore = "open" /\ restore' \in {"closed", "restoring"}
  /\ UNCHANGED <<disk, latest, layer, pane, cached, reading, treeLoads, byHand, outside, history>>

RestoreApplied ==
  /\ outside < MaxOutside /\ outside' = outside + 1
  /\ restore = "restoring"
  /\ \E f \in Files : \E c \in 0..latest[f] : disk' = [disk EXCEPT ![f] = c]
  /\ restore' = "applied"
  /\ UNCHANGED <<latest, layer, pane, cached, reading, treeLoads, byHand, history>>

RestoreFails ==
  /\ restore = "restoring"
  /\ restore' = "open"
  /\ UNCHANGED <<disk, latest, layer, pane, cached, reading, treeLoads, byHand, outside, history>>

(* filesVersion: the pane starts over; what was typed is dropped. *)
HandleRestored ==
  /\ restore = "applied"
  /\ restore' = "closed"
  /\ layer' = FilesChangedOutside(Files)
  /\ edit' = NoEdit /\ cached' = NoContents
  /\ treeLoads' = treeLoads \cup {"restored"}
  /\ UNCHANGED pane
  /\ reading' = IF Wants' = NoFile THEN NoRead ELSE AskFile(Wants')
  /\ UNCHANGED <<disk, latest, opening, saving, outside, history>>

EditorNext ==
  \/ Others \/ ServerReads \/ ServerSaves
  \/ StreamBegins \/ WithTurnFiles \/ StreamEnds
  \/ \E f \in Files : Writes(f) \/ DeletesFile(f) \/ SelectFile(f) \/ CloseTab(f)
  \/ \E why \in {"first", "after", "restored"} : LoadTree(why)
  \/ FileArrives \/ StartEditing \/ EditOpens \/ DraftChange \/ SaveEdit \/ SaveAnswered \/ Discard
  \/ RestoreDialog \/ RestoreApplied \/ RestoreFails \/ HandleRestored

EditorSpec == EditorInit /\ [][EditorNext]_editorVars

-----------------------------------------------------------------------------
EditorTypeOK ==
  /\ disk \in [Files -> 0..MaxContents] /\ latest \in [Files -> 1..MaxContents]
  /\ pane.active = NoFile \/ Contains(pane.tabs, pane.active)
  /\ edit.path \in Files \cup {NoFile} /\ edit.draft \in 0..MaxContents
  /\ restore \in {"closed", "open", "restoring", "applied"}

(* A save by hand never replaces a version of the file that the editor did *)
(* not put before the person: not the model's, not another member's, not   *)
(* one a restore put back while they typed. *)
NoBlindSave == blind = {}

-----------------------------------------------------------------------------
(* Why it does.                                                            *)

(* What is edited, on its way to be edited and being saved has its fields. *)
EditIsOne == edit = [path |-> edit.path, base |-> edit.base, saved |-> edit.saved, draft |-> edit.draft]
OpeningIsOne == opening = [path |-> opening.path, got |-> opening.got, answered |-> opening.answered]
SavingIsOne ==
  saving = [path |-> saving.path, draft |-> saving.draft, base |-> saving.base, answer |-> saving.answer]

(* The person has seen the text that is edited, and the one it began as or *)
(* was last saved as, which is the one its save replaces. *)
EditIsKnown == edit # NoEdit => edit.path # NoFile /\ {<<edit.path, edit.base>>, <<edit.path, edit.draft>>} \subseteq known
SavingIsKnown ==
  saving.answer # "none" =>
    saving.path # NoFile /\ {<<saving.path, saving.base>>, <<saving.path, saving.draft>>} \subseteq known

(* A file on its way is asked for by its name. *)
OpeningIsNamed == opening # NoRead => opening.path # NoFile

EditorInvariant ==
  /\ EditIsOne /\ OpeningIsOne /\ SavingIsOne
  /\ EditIsKnown /\ SavingIsKnown /\ OpeningIsNamed
  /\ NoBlindSave
=============================================================================
