------------------------------- MODULE Sharing -------------------------------
(***************************************************************************)
(* Sharing a project: the dialog that lists who has access and who is      *)
(* invited (ShareDialog), and the invitations on the dashboard of those    *)
(* invited (InvitationsList), each with its own copy of what the server    *)
(* keeps, and with requests under way at once.                             *)
(***************************************************************************)
EXTENDS Naturals, FiniteSets

CONSTANTS
  Guests,             \* the people who may be invited; the owner is not one of them
  GuestRoles,         \* EDITOR, VIEWER
  MaxAsks             \* bound: requests the owner makes

VARIABLES
  memberRoles,        \* the server: the guests who are on the project, with their roles
  invited,            \* the server: the open invitations, by address
  inviteIds,          \* the server: the ids given to invitations so far
  dialog,             \* the dialog as it is shown
  peopleReads,        \* reads of the people on their way
  ownerAsks,          \* the owner's requests on their way
  asksMade,
  inbox,              \* of each guest: the dashboard's invitation and the answer on its way
  told                \* the guests the owner was told are off the project, and has not asked back

shareVars == <<memberRoles, invited, inviteIds, dialog, peopleReads, ownerAsks, asksMade, inbox, told>>

NoOneThere == <<>>
(* What the server sends in one list, told apart by the ids the rows have; without the right to manage, no invitations. *)
SplitPeople == [people |-> memberRoles, open |-> IF dialog.manages THEN invited ELSE NoOneThere]

ShareInit ==
  /\ memberRoles \in {NoOneThere, [g \in Guests |-> CHOOSE r \in GuestRoles : TRUE]} /\ invited = NoOneThere /\ inviteIds = 0
  /\ \E manages \in BOOLEAN :
       dialog = [open |-> FALSE, manages |-> manages, people |-> NoOneThere, invites |-> NoOneThere,
                 inviting |-> FALSE, withdrawing |-> {}, removing |-> {}, confirm |-> {}]
  /\ peopleReads = {[after |-> "opening", stage |-> "sent"]}
  /\ ownerAsks = {} /\ asksMade = 0 /\ told = {}
  /\ inbox = [g \in Guests |-> [shown |-> FALSE, page |-> "dashboard", stage |-> "idle"]]

Without(f, gone) == [p \in DOMAIN f \ gone |-> f[p]]
With(f, p, value) == [q \in DOMAIN f \cup {p} |-> IF q = p THEN value ELSE f[q]]

-----------------------------------------------------------------------------
(* The list is read when the project's page opens, and each time the dialog opens or closes: the read before that is
   given up.  The one after an invitation is not, and whichever answers last is what is shown. *)
ToggleDialog ==
  /\ dialog' = [dialog EXCEPT !.open = ~@, !.confirm = IF dialog.open THEN {} ELSE @]
  /\ peopleReads' = {r \in peopleReads : r.after # "opening"} \cup {[after |-> "opening", stage |-> "sent"]}
  /\ UNCHANGED <<memberRoles, invited, inviteIds, ownerAsks, asksMade, inbox, told>>

ServerListsPeople == \E r \in peopleReads :
  /\ r.stage = "sent"
  /\ peopleReads' = (peopleReads \ {r}) \cup {[after |-> r.after, stage |-> "read", data |-> SplitPeople]}
  /\ UNCHANGED <<memberRoles, invited, inviteIds, dialog, ownerAsks, asksMade, inbox, told>>

Showing(data) == [dialog EXCEPT !.people = data.people, !.invites = data.open]
PeopleArrive == \E r \in peopleReads :
  /\ r.stage = "read"
  /\ dialog' = Showing(r.data)
  /\ peopleReads' = peopleReads \ {r}
  /\ UNCHANGED <<memberRoles, invited, inviteIds, ownerAsks, asksMade, inbox, told>>

(* A read that fails shows nothing, whether before or after the server has read: before stands for both. *)
PeopleFail == \E r \in peopleReads :
  /\ r.stage = "sent"
  /\ peopleReads' = peopleReads \ {r}
  /\ UNCHANGED <<memberRoles, invited, inviteIds, dialog, ownerAsks, asksMade, inbox, told>>

-----------------------------------------------------------------------------
(* What the owner may press: the form, a member's menu or its confirmation, and an open invitation. *)
MayManage == dialog.open /\ dialog.manages
MenuOf(p) == MayManage /\ p \in DOMAIN dialog.people /\ p \notin dialog.confirm
ConfirmationOf(p) == MayManage /\ p \in dialog.confirm /\ p \in DOMAIN dialog.people /\ p \notin dialog.removing
InvitationOf(p) == MayManage /\ p \in DOMAIN dialog.invites /\ dialog.invites[p].id \notin dialog.withdrawing

(* "again": the guest is asked back while this request is on its way. *)
OwnerAsks(request) ==
  /\ asksMade < MaxAsks
  /\ asksMade' = asksMade + 1
  /\ LET comesBack(a) == request.kind = "invite" /\ a.of = request.of
     IN ownerAsks' = {[a EXCEPT !.again = @ \/ comesBack(a)] : a \in ownerAsks}
          \cup {With(With(request, "stage", "sent"),
                     "again", \E a \in ownerAsks : a.kind = "invite" /\ a.of = request.of)}

(* Whoever is on the list already is not asked again: the form only says so. *)
HandleInvite == \E p \in Guests \ DOMAIN dialog.people, r \in GuestRoles :
  /\ MayManage /\ ~dialog.inviting
  /\ OwnerAsks([kind |-> "invite", of |-> p, role |-> r])
  /\ dialog' = [dialog EXCEPT !.inviting = TRUE]
  /\ told' = told \ {p}
  /\ UNCHANGED <<memberRoles, invited, inviteIds, peopleReads, inbox>>

(* Shown before the server has it; the members as they stood are kept for the case it is refused. *)
HandleRoleChange == \E p \in Guests, r \in GuestRoles :
  /\ MenuOf(p) /\ r # dialog.people[p]
  /\ OwnerAsks([kind |-> "role", of |-> p, role |-> r, previous |-> dialog.people])
  /\ dialog' = [dialog EXCEPT !.people[p] = r]
  /\ UNCHANGED <<memberRoles, invited, inviteIds, peopleReads, inbox, told>>

(* Removing is asked twice; one confirmation is open at a time. *)
AskToRemove == \E p \in Guests :
  /\ MenuOf(p)
  /\ dialog' = [dialog EXCEPT !.confirm = {p}]
  /\ UNCHANGED <<memberRoles, invited, inviteIds, peopleReads, ownerAsks, asksMade, inbox, told>>

CancelRemove == \E p \in Guests :
  /\ ConfirmationOf(p)
  /\ dialog' = [dialog EXCEPT !.confirm = {}]
  /\ UNCHANGED <<memberRoles, invited, inviteIds, peopleReads, ownerAsks, asksMade, inbox, told>>

HandleRemoveMember == \E p \in Guests :
  /\ ConfirmationOf(p)
  /\ OwnerAsks([kind |-> "remove", of |-> p])
  /\ dialog' = [dialog EXCEPT !.removing = {p}]
  /\ UNCHANGED <<memberRoles, invited, inviteIds, peopleReads, inbox, told>>

HandleWithdraw == \E p \in Guests :
  /\ InvitationOf(p)
  /\ OwnerAsks([kind |-> "withdraw", of |-> p, id |-> dialog.invites[p].id])
  /\ dialog' = [dialog EXCEPT !.withdrawing = {dialog.invites[p].id}]
  /\ UNCHANGED <<memberRoles, invited, inviteIds, peopleReads, inbox, told>>

-----------------------------------------------------------------------------
(* The server: each request is one transaction, refused when what it names is not there. *)
NamesWhatIs(a) ==
  \/ a.kind = "invite" /\ a.of \notin DOMAIN memberRoles
  \/ a.kind \in {"role", "remove"} /\ a.of \in DOMAIN memberRoles
  \/ a.kind = "withdraw" /\ a.of \in DOMAIN invited /\ invited[a.of].id = a.id

(* A second invitation to an address changes the first one's role and keeps its id. *)
InviteMember(a) ==
  /\ a.kind = "invite"
  /\ invited' = With(invited, a.of, [id |-> IF a.of \in DOMAIN invited THEN invited[a.of].id ELSE inviteIds + 1, role |-> a.role])
  /\ inviteIds' = IF a.of \in DOMAIN invited THEN inviteIds ELSE inviteIds + 1
  /\ UNCHANGED memberRoles
UpdateMemberRole(a) ==
  a.kind = "role" /\ memberRoles' = [memberRoles EXCEPT ![a.of] = a.role] /\ UNCHANGED <<invited, inviteIds>>
RemoveProjectMember(a) ==
  a.kind = "remove" /\ memberRoles' = Without(memberRoles, {a.of}) /\ UNCHANGED <<invited, inviteIds>>
WithdrawInvite(a) ==
  a.kind = "withdraw" /\ invited' = Without(invited, {a.of}) /\ UNCHANGED <<memberRoles, inviteIds>>

ServerAnswersAsk == \E a \in ownerAsks :
  /\ a.stage = "sent"
  /\ IF NamesWhatIs(a)
     THEN InviteMember(a) \/ UpdateMemberRole(a) \/ RemoveProjectMember(a) \/ WithdrawInvite(a)
     ELSE UNCHANGED <<memberRoles, invited, inviteIds>>
  /\ ownerAsks' = (ownerAsks \ {a}) \cup {[a EXCEPT !.stage = IF NamesWhatIs(a) THEN "done" ELSE "refused"]}
  /\ UNCHANGED <<dialog, peopleReads, asksMade, inbox, told>>

(* The answers, which may be lost on the way.  What failed leaves the list as it is, except for a role, which puts the
   whole list of members back as it stood. *)
\* Mutant: what was asked is taken for done once it is answered at all.
SucceededAnyway(a, lost) == a.stage # "sent"
Succeeded(a, lost) == a.stage = "done" /\ ~lost
InviteAnswered(a, ok) ==
  /\ a.kind = "invite"
  /\ dialog' = [dialog EXCEPT !.inviting = FALSE]
  /\ peopleReads' = IF ok THEN peopleReads \cup {[after |-> "inviting", stage |-> "sent"]} ELSE peopleReads
  /\ UNCHANGED told
RoleAnswered(a, ok) ==
  /\ a.kind = "role"
  /\ dialog' = IF ok THEN dialog ELSE [dialog EXCEPT !.people = a.previous]
  /\ UNCHANGED <<peopleReads, told>>
NowOff(a, ok) == told' = IF ok /\ ~a.again THEN told \cup {a.of} ELSE told
RemoveAnswered(a, ok) ==
  /\ a.kind = "remove"
  /\ dialog' = [dialog EXCEPT !.people = IF ok THEN Without(@, {a.of}) ELSE @, !.removing = {}, !.confirm = {}]
  /\ NowOff(a, ok) /\ UNCHANGED peopleReads
WithdrawAnswered(a, ok) ==
  /\ a.kind = "withdraw"
  /\ dialog' = [dialog EXCEPT !.invites = IF ok THEN Without(@, {p \in DOMAIN @ : @[p].id = a.id}) ELSE @, !.withdrawing = {}]
  /\ NowOff(a, ok) /\ UNCHANGED peopleReads
OwnerAskAnswered == \E a \in ownerAsks, lost \in BOOLEAN :
  /\ a.stage \in {"done", "refused"}
  /\ LET ok == Succeeded(a, lost)
     IN InviteAnswered(a, ok) \/ RoleAnswered(a, ok) \/ RemoveAnswered(a, ok) \/ WithdrawAnswered(a, ok)
  /\ ownerAsks' = ownerAsks \ {a}
  /\ UNCHANGED <<memberRoles, invited, inviteIds, asksMade, inbox>>

-----------------------------------------------------------------------------
(* A guest's dashboard: the invitations as they were last read, and one answer at a time. *)
ReadInvitations == \E g \in Guests :
  /\ inbox[g].page = "dashboard"
  /\ inbox' = [inbox EXCEPT ![g].shown = g \in DOMAIN invited]
  /\ UNCHANGED <<memberRoles, invited, inviteIds, dialog, peopleReads, ownerAsks, asksMade, told>>

AnswerInvitation == \E g \in Guests, choice \in {"accept", "decline"} :
  /\ inbox[g].shown /\ inbox[g].page = "dashboard" /\ inbox[g].stage = "idle"
  /\ inbox' = [inbox EXCEPT ![g].stage = choice]
  /\ UNCHANGED <<memberRoles, invited, inviteIds, dialog, peopleReads, ownerAsks, asksMade, told>>

(* Accepting reads the invitation, then adds the member and deletes the row it read: a row that is gone by then undoes
   both. *)
FindInvitation == \E g \in Guests :
  /\ inbox[g].stage = "accept"
  /\ inbox' = [inbox EXCEPT ![g] = IF g \in DOMAIN invited
                                   THEN [shown |-> TRUE, page |-> "dashboard", stage |-> "found", invitation |-> invited[g]]
                                   ELSE [@ EXCEPT !.stage = "refused"]]
  /\ UNCHANGED <<memberRoles, invited, inviteIds, dialog, peopleReads, ownerAsks, asksMade, told>>

RowIsThere(g) == g \in DOMAIN invited /\ invited[g].id = inbox[g].invitation.id
AcceptInvite == \E g \in Guests :
  /\ inbox[g].stage = "found"
  /\ IF RowIsThere(g)
     THEN /\ memberRoles' = IF g \in DOMAIN memberRoles THEN memberRoles ELSE With(memberRoles, g, inbox[g].invitation.role)
          /\ invited' = Without(invited, {g})
          /\ inbox' = [inbox EXCEPT ![g] = [shown |-> TRUE, page |-> "dashboard", stage |-> "accepted"]]
     ELSE /\ UNCHANGED <<memberRoles, invited>>
          /\ inbox' = [inbox EXCEPT ![g] = [shown |-> TRUE, page |-> "dashboard", stage |-> "refused"]]
  /\ UNCHANGED <<inviteIds, dialog, peopleReads, ownerAsks, asksMade, told>>

DeclineInvite == \E g \in Guests :
  /\ inbox[g].stage = "decline"
  /\ invited' = Without(invited, {g})
  /\ inbox' = [inbox EXCEPT ![g].stage = "declined"]
  /\ UNCHANGED <<memberRoles, inviteIds, dialog, peopleReads, ownerAsks, asksMade, told>>

(* What is accepted opens the project once the list is read again; what failed, or whose answer was lost, stays listed. *)
AnswerReturns == \E g \in Guests, lost \in BOOLEAN :
  /\ inbox[g].stage \in {"accepted", "declined", "refused"}
  /\ LET ok == inbox[g].stage # "refused" /\ ~lost
     IN inbox' = [inbox EXCEPT ![g] = [shown |-> IF ok THEN g \in DOMAIN invited ELSE TRUE, stage |-> "idle",
                                       page |-> IF ok /\ @.stage = "accepted" THEN "project" ELSE "dashboard"]]
  /\ UNCHANGED <<memberRoles, invited, inviteIds, dialog, peopleReads, ownerAsks, asksMade, told>>

BackToDashboard == \E g \in Guests :
  /\ inbox[g].page = "project"
  /\ inbox' = [inbox EXCEPT ![g].page = "dashboard"]
  /\ UNCHANGED <<memberRoles, invited, inviteIds, dialog, peopleReads, ownerAsks, asksMade, told>>

ShareNext ==
  \/ ToggleDialog \/ ServerListsPeople \/ PeopleArrive \/ PeopleFail
  \/ HandleInvite \/ HandleRoleChange \/ AskToRemove \/ CancelRemove \/ HandleRemoveMember \/ HandleWithdraw
  \/ ServerAnswersAsk \/ OwnerAskAnswered
  \/ ReadInvitations \/ AnswerInvitation \/ FindInvitation \/ AcceptInvite \/ DeclineInvite \/ AnswerReturns \/ BackToDashboard

ShareSpec == ShareInit /\ [][ShareNext]_shareVars

-----------------------------------------------------------------------------
ShareTypeOK ==
  /\ DOMAIN memberRoles \cup DOMAIN invited \cup told \subseteq Guests
  /\ DOMAIN dialog.people \cup DOMAIN dialog.invites \cup dialog.confirm \cup dialog.removing \subseteq Guests
  /\ inviteIds <= MaxAsks /\ asksMade <= MaxAsks /\ Cardinality(ownerAsks) <= MaxAsks
  /\ \A a \in ownerAsks : a.kind \in {"invite", "role", "remove", "withdraw"} /\ a.stage \in {"sent", "done", "refused"}
  /\ \A r \in peopleReads : r.after \in {"opening", "inviting"} /\ r.stage \in {"sent", "read"}
  /\ \A g \in Guests : inbox[g].stage \in {"idle", "accept", "decline", "found", "accepted", "declined", "refused"}

(* Whom the dialog told the owner is off the project - removed, or the invitation withdrawn - has no access and no way to
   take it, until the owner asks them again: not when the guest was accepting at the same time, nor when a request failed,
   was refused or overlapped another (ShareDialog.tsx: "Withdraw", "Remove access"). *)
GoneHasNoAccess == \A p \in told : p \notin DOMAIN memberRoles /\ p \notin DOMAIN invited

-----------------------------------------------------------------------------
(* What the theorem about GoneHasNoAccess rests on: nobody is both on a project and invited to it, a request that took
   somebody off it knows when they are asked back, and as long as they are not, nothing brings them back. *)
Asks(a) ==
  /\ a = [f \in DOMAIN a |-> a[f]] /\ {"kind", "of", "stage", "again"} \subseteq DOMAIN a
  /\ a.again \in BOOLEAN

IsOff(p) == p \notin DOMAIN memberRoles /\ p \notin DOMAIN invited
TakesOff(a) == a.kind \in {"remove", "withdraw"}

AskedBackIsKnown ==
  \A a, b \in ownerAsks : TakesOff(a) /\ b.kind = "invite" /\ b.of = a.of => a.again

DoneIsOff ==
  \A a \in ownerAsks : TakesOff(a) /\ a.stage = "done" /\ ~a.again => IsOff(a.of)

ToldAreNotAsked ==
  \A p \in told : IsOff(p) /\ \A a \in ownerAsks : a.kind = "invite" => a.of # p

ShareInvariant ==
  /\ \A a \in ownerAsks : Asks(a)
  /\ DOMAIN memberRoles \cap DOMAIN invited = {}
  /\ AskedBackIsKnown /\ DoneIsOff /\ ToldAreNotAsked
=============================================================================
