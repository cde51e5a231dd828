----------------------------- MODULE HistoryLog -----------------------------
(***************************************************************************)
(* The History of a project as the browser words it (revisions.ts,         *)
(* HistoryPanel.tsx): which entry is the version the project has now, which *)
(* older one has the same files, what each is called, and which turns can  *)
(* be undone.  The server's revisions grow one at a time; the files after  *)
(* one are a number.                                                       *)
(***************************************************************************)
EXTENDS Naturals, Sequences, FiniteSets

CONSTANT MaxRevisions   \* bound: revisions made

VARIABLES
  revs,      \* the server's revisions, oldest first
  filesNow   \* the files the project has: 0 is how it began

revVars == <<revs, filesNow>>

Sources == {"GENERATION", "MANUAL_EDIT"}
AppliedState == {i \in 1..Len(revs) : revs[i].applied}
LastRevisionOf(ids) == IF ids = {} THEN 0 ELSE CHOOSE i \in ids : \A j \in ids : j =< i

LogInit == revs = <<>> /\ filesNow = 0

AddRevision(r, files) ==
  /\ Len(revs) < MaxRevisions
  /\ revs' = Append(revs, r) /\ filesNow' = files

(* A turn or a save by hand, which may not have been applied. *)
Change ==
  \E source \in Sources, ok \in BOOLEAN :
    AddRevision([source |-> source, applied |-> ok, parent |-> LastRevisionOf(AppliedState), chosen |-> 0, before |-> FALSE,
                 files |-> IF ok THEN Len(revs) + 1 ELSE filesNow],
                IF ok THEN Len(revs) + 1 ELSE filesNow)

(* Going back to how the project was after a revision, or just before it. *)
GoBackTo(chosen, before) ==
  /\ chosen \in AppliedState
  /\ LET files == IF ~before THEN revs[chosen].files
                  ELSE IF revs[chosen].parent = 0 THEN 0 ELSE revs[revs[chosen].parent].files
     IN  AddRevision([source |-> "RESTORE", applied |-> TRUE, parent |-> LastRevisionOf(AppliedState), chosen |-> chosen,
                      before |-> before, files |-> files], files)

-----------------------------------------------------------------------------
(* What the browser makes of it; it is told everything but the files.      *)

\* Mutant: the version before the chosen one is taken for the chosen one.
SettlesOnChosen(id) ==
  LET s[i \in 0..Len(revs)] ==
        IF i = 0 \/ revs[i].source # "RESTORE" THEN i ELSE s[revs[i].chosen]
  IN  s[id]

(* The revision whose files the project holds after this one; 0 is how it  *)
(* was before any change. *)
SettlesOn(id) ==
  LET s[i \in 0..Len(revs)] ==
        IF i = 0 \/ revs[i].source # "RESTORE" THEN i
        ELSE IF ~revs[i].before THEN s[revs[i].chosen]
        ELSE s[revs[revs[i].chosen].parent]
  IN  s[id]

IsNow(i) == i = LastRevisionOf(AppliedState)
MatchesCurrent(i) == ~IsNow(i) /\ SettlesOn(LastRevisionOf(AppliedState)) = i

(* What an entry is called after, and how many times it was undone. *)
TitleFor(id) ==
  LET t[i \in 1..Len(revs)] ==
        IF revs[i].source # "RESTORE" THEN [of |-> i, undone |-> 0, back |-> FALSE]
        ELSE IF revs[i].before THEN [t[revs[i].chosen] EXCEPT !.undone = @ + 1]
        ELSE IF revs[revs[i].chosen].source = "RESTORE" THEN t[revs[i].chosen]
        ELSE [t[revs[i].chosen] EXCEPT !.back = TRUE]
  IN  t[id]

(* The list of entries, and what is offered for each. *)
HistoryEntries ==
  {[id |-> i, title |-> TitleFor(i),
    mark |-> IF IsNow(i) THEN "You are here" ELSE IF MatchesCurrent(i) THEN "Same as now" ELSE "Go back"] :
     i \in AppliedState}

(* The person goes back to an entry of the list, or undoes a turn whose    *)
(* files were saved: canUndoTurn. *)
GoBack ==
  \/ \E e \in HistoryEntries : e.mark = "Go back" /\ GoBackTo(e.id, FALSE)
  \/ \E i \in AppliedState : revs[i].source = "GENERATION" /\ GoBackTo(i, TRUE)

LogNext == Change \/ GoBack

LogSpec == LogInit /\ [][LogNext]_revVars

-----------------------------------------------------------------------------
LogTypeOK ==
  /\ Len(revs) =< MaxRevisions /\ filesNow \in 0..MaxRevisions
  /\ \A i \in AppliedState : revs[i].parent \in AppliedState \cup {0} /\ revs[i].parent < i

(* The entries marked "You are here" and "Same as now" have exactly the    *)
(* files the project has, through any chain of going back and undoing; and *)
(* a change of the person's or the model's that has them is marked.        *)
SameAsNowIsTheSame ==
  \A e \in HistoryEntries :
    /\ e.mark # "Go back" => revs[e.id].files = filesNow
    /\ (e.mark = "Go back" /\ revs[e.id].source # "RESTORE") => revs[e.id].files # filesNow

(* Why they do: a revision that was applied and is no going back has the   *)
(* files it is numbered by, and one that is has those of the one it goes   *)
(* back to, or of the one before it. *)
FilesBefore(i) == IF i = 0 THEN 0 ELSE revs[i].files
LogShapes == revs \in Seq([source : Sources \cup {"RESTORE"}, applied : BOOLEAN, parent : Nat, chosen : Nat, before : BOOLEAN, files : Nat])
AppliedAsRecorded == \A i \in AppliedState :
  /\ revs[i].parent \in AppliedState \cup {0} /\ revs[i].parent < i
  /\ revs[i].source # "RESTORE" => revs[i].files = i
  /\ revs[i].source = "RESTORE" =>
       /\ revs[i].chosen \in AppliedState /\ revs[i].chosen < i
       /\ revs[i].files = FilesBefore(IF revs[i].before THEN revs[revs[i].chosen].parent ELSE revs[i].chosen)
FilesAreOfAChange == \A i \in AppliedState :
  revs[i].files # 0 => revs[i].files \in AppliedState /\ revs[revs[i].files].source # "RESTORE"
RestoresAreApplied == \A i \in 1..Len(revs) : revs[i].source = "RESTORE" => revs[i].applied
LogInvariant ==
  /\ LogShapes /\ AppliedAsRecorded /\ FilesAreOfAChange /\ RestoresAreApplied
  /\ filesNow = FilesBefore(LastRevisionOf(AppliedState))
=============================================================================
