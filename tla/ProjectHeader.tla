----------------------------- MODULE ProjectHeader -----------------------------
(* The header of a project's page (pages/ProjectView): the name edited in     *)
(* place, the two views, and the dialogs with the requests they confirm.  A   *)
(* field may be finished by Enter, by Escape and by its blur, and one that is *)
(* disabled or removed still gives the event that was on its way.             *)
EXTENDS Naturals, Sequences

CONSTANTS
  HeaderRoles,       \* the roles the project may be open with
  ProjectNames       \* what the project may be called

VARIABLES
  headerRole,              \* the role the project is open with
  nameField,         \* EditableProjectName: [editing, draft, saving, finishing]
  lateBlur,          \* a field that was finished may still give an event
  projectName,       \* the name, as the server has it and the page shows it
  nameAsks,          \* the renames under way, oldest first
  chatHolds,         \* chat.messages is not empty
  inTurn,            \* chat.isStreaming
  headerDialog,            \* the dialog that is open
  pageAsks,          \* the header's requests under way
  viewMode,          \* "preview" or "code"
  left               \* the page went to the list of projects

nameVars == <<nameField, lateBlur, projectName, nameAsks>>
chatNowVars == <<chatHolds, inTurn>>
chromeVars == <<headerDialog, pageAsks, viewMode, left>>
headerVars == <<headerRole, nameVars, chatNowVars, chromeVars>>

NoText == ""
NoField == [editing |-> FALSE, draft |-> NoText, saving |-> FALSE, finishing |-> FALSE]
Dialogs == {"clear", "delete", "history", "fork"}
CanEdit == headerRole \in {"OWNER", "EDITOR"}

HeaderTypeOK ==
  /\ headerRole \in HeaderRoles
  /\ nameField \in [editing : BOOLEAN, draft : ProjectNames \cup {NoText},
                    saving : BOOLEAN, finishing : BOOLEAN]
  /\ projectName \in ProjectNames
  /\ \A i \in DOMAIN nameAsks : nameAsks[i] \in ProjectNames
  /\ {lateBlur, chatHolds, inTurn, left} \subseteq BOOLEAN
  /\ headerDialog \in Dialogs \cup {"none"}
  /\ pageAsks \subseteq {"clear", "delete", "zip"}
  /\ viewMode \in {"code", "preview"}

HeaderInit ==
  /\ headerRole \in HeaderRoles
  /\ nameField = NoField /\ lateBlur = FALSE
  /\ projectName \in ProjectNames /\ nameAsks = <<>>
  /\ chatHolds \in BOOLEAN /\ inTurn = FALSE
  /\ headerDialog = "none" /\ pageAsks = {} /\ viewMode = "code" /\ left = FALSE

(* A dialog is modal: nothing of the page is pressed under it.                *)
AtHand == headerDialog = "none" /\ ~left

-------------------------------------------------------------------------------
(* The name.                                                                  *)

StartRenaming ==
  /\ AtHand /\ CanEdit /\ ~nameField.editing
  /\ nameField' = [NoField EXCEPT !.editing = TRUE, !.draft = projectName]
  /\ lateBlur' = FALSE
  /\ UNCHANGED <<headerRole, projectName, nameAsks, chatNowVars, chromeVars>>

TypeName(draft) ==
  /\ AtHand /\ nameField.editing /\ ~nameField.saving /\ draft # nameField.draft
  /\ nameField' = [nameField EXCEPT !.draft = draft]
  /\ UNCHANGED <<headerRole, lateBlur, projectName, nameAsks, chatNowVars, chromeVars>>

\* Mutant: finish does not look whether it ran already.
MayFinishAgain == TRUE

(* isFinishingRef: a field is finished once.                                  *)
MayFinish == ~nameField.finishing

(* finish: a new name is asked for, and the field stays, disabled, until the  *)
(* answer; any other end closes it.                                           *)
Finish(shouldSave) ==
  LET asks == shouldSave /\ nameField.draft \notin {NoText, projectName} IN
  /\ nameField' = IF ~MayFinish THEN nameField
                  ELSE [nameField EXCEPT !.finishing = TRUE, !.editing = asks,
                                         !.saving = asks]
  /\ nameAsks' = IF MayFinish /\ asks THEN Append(nameAsks, nameField.draft)
                 ELSE nameAsks

EndEditing(shouldSave) ==
  /\ AtHand /\ nameField.editing /\ ~nameField.saving
  /\ Finish(shouldSave)
  /\ lateBlur' = TRUE
  /\ UNCHANGED <<headerRole, projectName, chatNowVars, chromeVars>>

BlurComesLate ==
  /\ lateBlur /\ ~left
  /\ Finish(TRUE)
  /\ lateBlur' = FALSE
  /\ UNCHANGED <<headerRole, projectName, chatNowVars, chromeVars>>

(* What the field does with the answer.                                       *)
RequestAnswered(ok) ==
  [nameField EXCEPT !.saving = FALSE, !.finishing = ok,
                    !.editing = nameField.editing /\ ~ok]

(* A refused name keeps the field open, to be finished again; a saved one     *)
(* removes it, which gives its blur.                                          *)
HandleRename(ok) ==
  /\ nameAsks # <<>>
  /\ nameAsks' = Tail(nameAsks)
  /\ projectName' = IF ok THEN Head(nameAsks) ELSE projectName
  /\ nameField' = RequestAnswered(ok)
  /\ lateBlur' = ok
  /\ UNCHANGED <<headerRole, chatNowVars, chromeVars>>

-------------------------------------------------------------------------------
(* The views and the dialogs.                                                 *)

ChatMoves(holds, streaming) ==
  /\ <<chatHolds, inTurn>> # <<holds, streaming>>
  /\ chatHolds' = holds /\ inTurn' = streaming
  /\ UNCHANGED <<headerRole, nameVars, chromeVars>>

TurnBegins == ~inTurn /\ ~left /\ ChatMoves(TRUE, TRUE)
TurnCeases == inTurn /\ ChatMoves(chatHolds, FALSE)

ChromeMoves(nextDialog, asks, view) ==
  /\ headerDialog' = nextDialog /\ pageAsks' = asks /\ viewMode' = view
  /\ UNCHANGED <<headerRole, nameVars, chatNowVars, left>>

ChooseView(mode) == AtHand /\ viewMode # mode /\ ChromeMoves("none", pageAsks, mode)

(* A file of the chat, a step to explain, a question about the code and the   *)
(* notes that open all show the code.                                         *)
HandleOpenFile == AtHand /\ viewMode = "preview" /\ ChromeMoves("none", pageAsks, "code")

(* The buttons the header offers; Share and Publish are modules of their own. *)
DialogOffered(which) ==
  \/ which = "clear" /\ headerRole # "VIEWER" /\ chatHolds /\ ~inTurn
  \/ which = "fork" /\ headerRole = "EDITOR"
  \/ which \in {"delete", "history"}

(* A click elsewhere takes the focus first, which finishes the name.          *)
OpenDialog(which) ==
  /\ AtHand /\ (nameField.editing => nameField.saving)
  /\ DialogOffered(which)
  /\ ChromeMoves(which, pageAsks, viewMode)

CancelDialog == headerDialog # "none" /\ ~left /\ ChromeMoves("none", pageAsks, viewMode)

(* The dialog closes as its action is pressed, so it may be opened again      *)
(* while the request is under way; a chat is not cleared while a turn that    *)
(* began under the dialog streams.                                            *)
ConfirmDialog ==
  /\ headerDialog \in {"clear", "delete"} /\ ~left
  /\ ChromeMoves("none",
                 IF headerDialog = "clear" /\ inTurn THEN pageAsks ELSE pageAsks \cup {headerDialog},
                 viewMode)

HandleDownloadProject ==
  /\ AtHand /\ "zip" \notin pageAsks
  /\ ChromeMoves("none", pageAsks \cup {"zip"}, viewMode)

(* A chat that is cleared is empty, the turn it has meanwhile begun included. *)
ClearAnswered(ok) ==
  /\ "clear" \in pageAsks /\ pageAsks' = pageAsks \ {"clear"}
  /\ chatHolds' = (chatHolds /\ ~ok)
  /\ UNCHANGED <<headerRole, nameVars, inTurn, headerDialog, viewMode, left>>

DeleteAnswered(ok) ==
  /\ "delete" \in pageAsks /\ pageAsks' = pageAsks \ {"delete"}
  /\ left' = (left \/ ok)
  /\ UNCHANGED <<headerRole, nameVars, chatNowVars, headerDialog, viewMode>>

DownloadAnswered ==
  "zip" \in pageAsks /\ ChromeMoves(headerDialog, pageAsks \ {"zip"}, viewMode)

HeaderNext ==
  \/ StartRenaming \/ BlurComesLate \/ TurnBegins \/ TurnCeases
  \/ \E draft \in ProjectNames \cup {NoText} : TypeName(draft)
  \/ \E shouldSave \in BOOLEAN : EndEditing(shouldSave)
  \/ \E ok \in BOOLEAN : HandleRename(ok) \/ ClearAnswered(ok) \/ DeleteAnswered(ok)
  \/ \E mode \in {"code", "preview"} : ChooseView(mode)
  \/ \E which \in Dialogs : OpenDialog(which)
  \/ HandleOpenFile \/ CancelDialog \/ ConfirmDialog
  \/ HandleDownloadProject \/ DownloadAnswered

HeaderSpec == HeaderInit /\ [][HeaderNext]_headerVars

-------------------------------------------------------------------------------

(* A name is asked for once for every time the field is finished: never by    *)
(* the blur that follows Enter, and never for a draft Escape gave up          *)
(* (isFinishingRef).                                                          *)
RenameIsAskedOnce ==
  Len(nameAsks) <= 1 /\ (nameAsks # <<>> => nameField.editing)

-------------------------------------------------------------------------------

(* Why it does: while a name is asked for the field is being saved, and its   *)
(* finish ran already; a field that is not edited has none to finish.         *)
HeaderInvariant ==
  /\ nameField = [editing |-> nameField.editing, draft |-> nameField.draft,
                  saving |-> nameField.saving, finishing |-> nameField.finishing]
  /\ {nameField.editing, nameField.saving, nameField.finishing} \subseteq BOOLEAN
  /\ nameAsks \in Seq(ProjectNames) /\ projectName \in ProjectNames
  /\ nameField.draft \in ProjectNames \cup {NoText}
  /\ nameAsks # <<>> => nameField.saving /\ nameField.finishing
  /\ nameField.saving => nameField.editing
  /\ RenameIsAskedOnce
===============================================================================
