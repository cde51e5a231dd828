---------------------------- MODULE ProjectList ----------------------------
(***************************************************************************)
(* The list of projects that the home page, the page of all projects, the  *)
(* sidebar and the command palette share: one query in the client's cache, *)
(* changed before the server has agreed (pin, star, rename), rolled back   *)
(* to the whole list as it stood when the change was made, and read again  *)
(* after each change.                                                      *)
(***************************************************************************)
EXTENDS Naturals, FiniteSets

CONSTANTS
  Owned, Edited,      \* the projects there are at first, by the person's role in them
  Copies,             \* what a fork may be called by
  Names,              \* the names a project may be given
  MaxChanges          \* bound: changes asked of the server

Projects == Owned \cup Edited \cup Copies

VARIABLES
  kept,               \* what the server keeps of each project
  list,               \* the query's data
  listRead,           \* the read of the list on its way, and whether the last one failed
  listChanges,        \* changes asked of the server
  changesMade,        \* how many
  renaming,           \* the project whose name is being typed
  over,               \* the dialog or palette over the page
  leaving,            \* lib/project-leaving.ts: the project that fades out
  nav,                \* the page, and whether the sidebar is open
  copied              \* the names forks were given: the server gives none twice

listVars == <<kept, list, listRead, listChanges, changesMade, renaming, over, leaving, nav, copied>>

NoProject == "no project"
NoListRead == [stage |-> "none"]
Closed == [what |-> "nothing"]
RoleIn(p) == IF p \in Edited THEN "EDITOR" ELSE "OWNER"
Fresh == [name |-> CHOOSE n \in Names : TRUE, pinned |-> FALSE, starred |-> FALSE]

ListInit ==
  /\ kept = [p \in Owned \cup Edited |-> Fresh]
  /\ list = <<>> /\ listRead = [stage |-> "sent"]
  /\ listChanges = {} /\ changesMade = 0
  /\ renaming = NoProject /\ over = Closed /\ leaving = NoProject
  /\ nav = [page |-> "dashboard", expanded |-> TRUE]
  /\ copied = {}

-----------------------------------------------------------------------------
(* What is offered for a project, in a card, a row and the sidebar alike. *)
CanManage(p) == RoleIn(p) \in {"OWNER", "EDITOR"}
CanFork(p) == RoleIn(p) = "EDITOR"
DeleteIsForEveryone(p) == RoleIn(p) = "OWNER"
CardOffers(p) == IF renaming = p THEN {"type"} ELSE {"open", "pin", "star", "download", "delete"}
                 \cup (IF CanManage(p) THEN {"rename"} ELSE {}) \cup (IF CanFork(p) THEN {"fork"} ELSE {})
RowOffers(p) == CardOffers(p)

(* The filters of the tabs, and the groups of the sidebar: each project is in one group. *)
Matches(p, filter) == CASE filter = "owned" -> RoleIn(p) = "OWNER"
                        [] filter = "shared" -> RoleIn(p) # "OWNER"
                        [] filter = "pinned" -> list[p].pinned
                        [] filter = "starred" -> list[p].starred
                        [] OTHER -> TRUE
ListedProjects(filter) == {p \in DOMAIN list : Matches(p, filter)}
(* The home page shows the four last edited ones of a filter; when each was edited is not modelled. *)
RecentProjects(filter) == {some \in SUBSET ListedProjects(filter) :
  Cardinality(some) = IF Cardinality(ListedProjects(filter)) < 4 THEN Cardinality(ListedProjects(filter)) ELSE 4}
Section(p) == IF list[p].pinned THEN "pinned" ELSE IF list[p].starred THEN "starred" ELSE "recent"
SidebarShows == [s \in {"pinned", "starred", "recent"} |-> {p \in DOMAIN list : Section(p) = s}]

(* invalidateQueries: a read on its way is given up and the list is read from the start. *)
\* Mutant: a read that is on its way is taken as the new one.
Joined == IF listRead.stage \in {"sent", "read"} THEN listRead ELSE [stage |-> "sent"]
Invalidated == [stage |-> "sent"]

-----------------------------------------------------------------------------
(* React Query reads the list when a page that shows it is opened or comes back into view. *)
ReadList ==
  /\ listRead.stage \in {"none", "failed"}
  /\ listRead' = [stage |-> "sent"]
  /\ UNCHANGED <<kept, list, listChanges, changesMade, renaming, over, leaving, nav, copied>>

ServerListsProjects ==
  /\ listRead.stage = "sent"
  /\ listRead' = [stage |-> "read", data |-> kept]
  /\ UNCHANGED <<kept, list, listChanges, changesMade, renaming, over, leaving, nav, copied>>

ListArrives ==
  /\ listRead.stage = "read"
  /\ list' = listRead.data /\ listRead' = NoListRead
  /\ UNCHANGED <<kept, listChanges, changesMade, renaming, over, leaving, nav, copied>>

ListFails ==
  /\ listRead.stage \in {"sent", "read"}
  /\ listRead' = [stage |-> "failed"]
  /\ UNCHANGED <<kept, list, listChanges, changesMade, renaming, over, leaving, nav, copied>>

-----------------------------------------------------------------------------
(* A change shown before the server has it: the list as it stood is kept for the case it is refused. *)
Optimistic(kind, p, changed) ==
  /\ changesMade < MaxChanges
  /\ changesMade' = changesMade + 1
  /\ list' = [list EXCEPT ![p] = changed]
  /\ listChanges' = listChanges \cup {[kind |-> kind, of |-> p, to |-> changed, previous |-> list, stage |-> "sent"]}

Here(p, offer) == over = Closed /\ p \in DOMAIN list /\ offer \in CardOffers(p)

TogglePin == \E p \in Projects :
  /\ Here(p, "pin")
  /\ Optimistic("pin", p, [list[p] EXCEPT !.pinned = ~@])
  /\ UNCHANGED <<kept, listRead, renaming, over, leaving, nav, copied>>

ToggleStar == \E p \in Projects :
  /\ Here(p, "star")
  /\ Optimistic("star", p, [list[p] EXCEPT !.starred = ~@])
  /\ UNCHANGED <<kept, listRead, renaming, over, leaving, nav, copied>>

StartRename == \E p \in Projects :
  /\ Here(p, "rename")
  /\ renaming' = p
  /\ UNCHANGED <<kept, list, listRead, listChanges, changesMade, over, leaving, nav, copied>>

(* Enter and leaving the field keep a name that is another one; Escape, and the same name, change nothing. *)
FinishRename == \E name \in Names :
  /\ renaming \in DOMAIN list
  /\ renaming' = NoProject
  /\ IF name = list[renaming].name
     THEN UNCHANGED <<list, listChanges, changesMade>>
     ELSE Optimistic("rename", renaming, [list[renaming] EXCEPT !.name = name])
  /\ UNCHANGED <<kept, listRead, over, leaving, nav, copied>>

(* The server makes the one change asked for, or refuses: the project may be gone by then. *)
Applied(c) == CASE c.kind = "pin" -> [kept EXCEPT ![c.of].pinned = c.to.pinned]
                [] c.kind = "star" -> [kept EXCEPT ![c.of].starred = c.to.starred]
                [] c.kind = "rename" -> [kept EXCEPT ![c.of].name = c.to.name]
                [] c.kind = "delete" -> [p \in DOMAIN kept \ {c.of} |-> kept[p]]
                [] c.kind = "fork" -> [p \in DOMAIN kept \cup {c.to} |-> IF p = c.to THEN Fresh ELSE kept[p]]
ServerChanges == \E c \in listChanges, accepted \in BOOLEAN :
  /\ c.stage = "sent"
  /\ c.of \notin DOMAIN kept => ~accepted
  /\ kept' = IF accepted THEN Applied(c) ELSE kept
  /\ listChanges' = (listChanges \ {c}) \cup {[c EXCEPT !.stage = IF accepted THEN "made" ELSE "refused"]}
  /\ UNCHANGED <<list, listRead, changesMade, renaming, over, leaving, nav, copied>>

(* The answer, or its loss on the way: what failed puts the whole list back as it stood; either way it is read again. *)
ChangeAnswered == \E c \in listChanges, lost \in BOOLEAN :
  /\ c.kind \in {"pin", "star", "rename"} /\ c.stage \in {"made", "refused"}
  /\ listChanges' = listChanges \ {c}
  /\ list' = IF c.stage = "made" /\ ~lost THEN list ELSE c.previous
  /\ listRead' = Invalidated
  /\ UNCHANGED <<kept, changesMade, renaming, over, leaving, nav, copied>>

-----------------------------------------------------------------------------
(* Deleting, and forking, behind a dialog. *)
AskServer(kind, p, to) ==
  /\ changesMade < MaxChanges
  /\ changesMade' = changesMade + 1
  /\ listChanges' = listChanges \cup {[kind |-> kind, of |-> p, to |-> to, stage |-> "sent"]}

RequestDelete == \E p \in Projects :
  /\ Here(p, "delete")
  /\ over' = [what |-> "delete", of |-> p]
  /\ UNCHANGED <<kept, list, listRead, listChanges, changesMade, renaming, leaving, nav, copied>>

DeleteProject ==
  /\ over.what = "delete"
  /\ AskServer("delete", over.of, NoProject) /\ over' = Closed
  /\ UNCHANGED <<kept, list, listRead, renaming, leaving, nav, copied>>

CloseDialog ==
  /\ over.what \in {"delete", "palette"} \/ (over.what = "fork" /\ ~over.busy)
  /\ over' = Closed
  /\ UNCHANGED <<kept, list, listRead, listChanges, changesMade, renaming, leaving, nav, copied>>

(* Deleted: the card fades, then the list is read again.  Failed: only a message - and whichever delete dialog is open
   by then closes, in both cases. *)
DialogAfterDelete == IF over.what = "delete" THEN Closed ELSE over
ProjectDeleteAnswered == \E c \in listChanges, lost \in BOOLEAN :
  /\ c.kind = "delete" /\ c.stage \in {"made", "refused"}
  /\ IF c.stage = "made" /\ ~lost
     THEN /\ leaving' = c.of /\ UNCHANGED over
          /\ listChanges' = (listChanges \ {c}) \cup {[c EXCEPT !.stage = "leaving"]}
     ELSE leaving' = NoProject /\ over' = DialogAfterDelete /\ listChanges' = listChanges \ {c}
  /\ UNCHANGED <<kept, list, listRead, changesMade, renaming, nav, copied>>

FadeEnds == \E c \in listChanges :
  /\ c.stage = "leaving"
  /\ listChanges' = (listChanges \ {c}) \cup {[c EXCEPT !.stage = "left"]}
  /\ listRead' = Invalidated
  /\ UNCHANGED <<kept, list, changesMade, renaming, over, leaving, nav, copied>>

DeleteDone == \E c \in listChanges :
  /\ c.kind = "delete" /\ c.stage = "left" /\ listRead.stage \in {"none", "failed"}
  /\ listChanges' = listChanges \ {c}
  /\ leaving' = NoProject /\ over' = DialogAfterDelete
  /\ nav' = IF nav.page = c.of THEN [nav EXCEPT !.page = "dashboard"] ELSE nav
  /\ UNCHANGED <<kept, list, listRead, changesMade, renaming, copied>>

RequestFork == \E p \in Projects :
  /\ Here(p, "fork")
  /\ over' = [what |-> "fork", of |-> p, busy |-> FALSE]
  /\ UNCHANGED <<kept, list, listRead, listChanges, changesMade, renaming, leaving, nav, copied>>

Fork == \E copy \in Copies :
  /\ over.what = "fork" /\ ~over.busy
  /\ copy \notin copied /\ copied' = copied \cup {copy}
  /\ AskServer("fork", over.of, copy)
  /\ over' = [over EXCEPT !.busy = TRUE]
  /\ UNCHANGED <<kept, list, listRead, renaming, leaving, nav>>

ForkAnswered == \E c \in listChanges, lost \in BOOLEAN :
  /\ c.kind = "fork" /\ c.stage \in {"made", "refused"}
  /\ listChanges' = listChanges \ {c}
  /\ IF c.stage = "made" /\ ~lost
     THEN listRead' = Invalidated /\ over' = Closed /\ nav' = [nav EXCEPT !.page = c.to]
     ELSE UNCHANGED <<listRead, nav>> /\ over' = [over EXCEPT !.busy = FALSE]
  /\ UNCHANGED <<kept, list, changesMade, renaming, leaving, copied>>

-----------------------------------------------------------------------------
(* Going about: cards, sidebar rows and the palette open a page, and on a narrow screen the open sidebar closes. *)
Go == \E page \in {"dashboard", "all"} \cup DOMAIN list, narrow \in BOOLEAN :
  /\ over.what \in {"nothing", "palette"} /\ page # nav.page
  /\ nav' = [page |-> page, expanded |-> nav.expanded /\ ~narrow]
  /\ over' = Closed /\ renaming' = NoProject
  /\ UNCHANGED <<kept, list, listRead, listChanges, changesMade, leaving, copied>>

ToggleSidebar ==
  /\ over = Closed
  /\ nav' = [nav EXCEPT !.expanded = ~@]
  /\ UNCHANGED <<kept, list, listRead, listChanges, changesMade, renaming, over, leaving, copied>>

OpenPalette ==
  /\ over = Closed
  /\ over' = [what |-> "palette"]
  /\ UNCHANGED <<kept, list, listRead, listChanges, changesMade, renaming, leaving, nav, copied>>

ListNext ==
  \/ ReadList \/ ServerListsProjects \/ ListArrives \/ ListFails
  \/ TogglePin \/ ToggleStar \/ StartRename \/ FinishRename \/ ServerChanges \/ ChangeAnswered
  \/ RequestDelete \/ DeleteProject \/ CloseDialog \/ ProjectDeleteAnswered \/ FadeEnds \/ DeleteDone
  \/ RequestFork \/ Fork \/ ForkAnswered \/ Go \/ ToggleSidebar \/ OpenPalette

ListSpec == ListInit /\ [][ListNext]_listVars

-----------------------------------------------------------------------------
Kept == [name : Names, pinned : BOOLEAN, starred : BOOLEAN]
ListTypeOK ==
  /\ \A p \in DOMAIN kept : p \in Projects /\ kept[p] \in Kept
  /\ \A p \in DOMAIN list : p \in Projects /\ list[p] \in Kept
  /\ listRead.stage \in {"none", "sent", "read", "failed"}
  /\ \A c \in listChanges : c.of \in Projects /\ c.stage \in {"sent", "made", "refused", "leaving", "left"}
  /\ {renaming, leaving} \subseteq Projects \cup {NoProject}
  /\ over.what \in {"nothing", "palette", "delete", "fork"}
  /\ nav.page \in {"dashboard", "all"} \cup Projects

(* Once every change is answered and the list has been read, nothing shown is something that did not happen: a project
   in the list that still exists shows the name, pin and star the server has, whatever changes overlapped, were
   refused or answered late (use-project-preferences.ts: "the list never sits showing something that did not happen"). *)
ListIsTheServers ==
  (listRead = NoListRead /\ \A c \in listChanges : c.kind \in {"delete", "fork"}) =>
    \A p \in DOMAIN list \cap DOMAIN kept : list[p] = kept[p]

(* Why they do: while no change of a project is under way, the list and a  *)
(* read that has been answered agree with the server; and a fork asked for *)
(* is under a name nobody was given, so that it is in no list when it is   *)
(* made. *)
Changing == \E c \in listChanges : c.kind \in {"pin", "star", "rename"}
AgreesNow(some) == \A p \in DOMAIN some \cap DOMAIN kept : some[p] = kept[p]
GivenNames == Owned \cup Edited \cup copied
ForkedYet(p) == p \in GivenNames /\ \A c \in listChanges : c.kind = "fork" /\ c.stage = "sent" => p # c.to
ListShapes ==
  \A c \in listChanges :
    \/ c.kind \in {"pin", "star", "rename"} /\ c = [kind |-> c.kind, of |-> c.of, to |-> c.to, previous |-> c.previous, stage |-> c.stage]
    \/ c.kind \in {"delete", "fork"} /\ c = [kind |-> c.kind, of |-> c.of, to |-> c.to, stage |-> c.stage]
NamesAreNew ==
  /\ copied \subseteq Copies
  /\ \A c \in listChanges : c.kind = "fork" => c.to \in copied
  /\ \A c, d \in listChanges : c.kind = "fork" /\ d.kind = "fork" /\ c.to = d.to => c = d
OnlyWhatWasMadeIsListed ==
  /\ \A p \in DOMAIN kept \cup DOMAIN list : ForkedYet(p)
  /\ listRead.stage = "read" => \A p \in DOMAIN listRead.data : ForkedYet(p)
  /\ \A c \in listChanges : c.kind \in {"pin", "star", "rename"} => \A p \in DOMAIN c.previous : ForkedYet(p)
ListInvariant ==
  /\ ListShapes /\ NamesAreNew /\ OnlyWhatWasMadeIsListed
  /\ (listRead.stage = "none" /\ ~Changing) => AgreesNow(list)
  /\ (listRead.stage = "read" /\ ~Changing) => AgreesNow(listRead.data)
=============================================================================
