----------------------------- MODULE SecurityPage -----------------------------
(***************************************************************************)
(* What a person changes of how they sign in (SecuritySettings.tsx): the   *)
(* authenticator app is set up or removed, the password is changed, and    *)
(* every session is ended.                                                 *)
(*                                                                         *)
(* A change is made at Firebase and the session is renewed after it; its   *)
(* answer comes back to a page where the person may have pressed Done, and *)
(* confirmed who they are again, meanwhile.                                *)
(***************************************************************************)
EXTENDS Naturals

CONSTANTS
  MaxManagings,  \* bound: times the person confirms who they are
  MaxForms,      \* bound: setups and password forms opened
  MaxSecurityChanges     \* bound: changes asked for

VARIABLES
  enrolled,    \* Firebase: the account has an authenticator app
  managings,   \* how often the person has confirmed who they are
  manager,     \* which of those the page manages with; 0 when with none
  knownFactors,       \* what the Firebase user of each knows of the account's app
  listed,      \* the page: an app is listed
  setup,       \* the page: the setup of an app
  newPassword, \* the page: the form for a new password
  isRemoving,  \* the page: the listed app's removal is under way
  changes,     \* the changes under way
  secChangesMade,        \* bound; numbers the changes
  activity,    \* the list of what happened
  ending,      \* "no", "asked" or "ended": every session
  misled       \* history variable: the answer to a change went amiss

securityVars == <<enrolled, managings, manager, knownFactors, listed, setup, newPassword, isRemoving,
                  changes, secChangesMade, activity, ending, misled>>
pageOnly == <<enrolled, managings, manager, knownFactors, misled>>

FormClosed == [stage |-> "closed", form |-> 0]
ActivityLoading == [reading |-> TRUE, shows |-> "nothing"]

SecurityInit ==
  /\ enrolled \in BOOLEAN
  /\ managings = 0 /\ manager = 0 /\ knownFactors = [m \in 1..MaxManagings |-> FALSE] /\ listed = FALSE
  /\ setup = FormClosed /\ newPassword = FormClosed /\ isRemoving = FALSE
  /\ changes = {} /\ secChangesMade = 0
  /\ activity = ActivityLoading /\ ending = "no" /\ misled = FALSE

-----------------------------------------------------------------------------
(* The page. *)

ManageOffered == manager = 0 /\ managings < MaxManagings

(* onConfirmed: the list is what this Firebase user knows. *)
Confirmed ==
  /\ ManageOffered
  /\ managings' = managings + 1 /\ manager' = managings'
  /\ knownFactors' = [knownFactors EXCEPT ![managings'] = enrolled]
  /\ listed' = enrolled
  /\ misled' = FALSE
  /\ UNCHANGED <<enrolled, setup, newPassword, isRemoving, changes, secChangesMade, activity, ending>>

(* finishManaging: what was asked for goes on. *)
Done ==
  /\ manager # 0
  /\ manager' = 0 /\ setup' = FormClosed /\ newPassword' = FormClosed
  /\ UNCHANGED <<enrolled, managings, knownFactors, listed, isRemoving, changes, secChangesMade, activity, ending, misled>>

(* A number that no form shown has, nor one a change came from. *)
NewForm == setup.form + newPassword.form + secChangesMade + 1

SetupOffered == manager # 0 /\ ~listed /\ setup = FormClosed
OpenSetup ==
  /\ SetupOffered /\ NewForm <= MaxForms
  /\ setup' = [stage |-> "preparing", form |-> NewForm]
  /\ UNCHANGED <<pageOnly, listed, newPassword, isRemoving, changes, secChangesMade, activity, ending>>

(* startTotpEnrollment: a secret, or a setup that says what is wrong. *)
SecretReady ==
  /\ setup.stage = "preparing"
  /\ \E to \in {"ready", "failed"} : setup' = [setup EXCEPT !.stage = to]
  /\ UNCHANGED <<pageOnly, listed, newPassword, isRemoving, changes, secChangesMade, activity, ending>>

CancelSetup ==
  /\ setup.stage = "ready"
  /\ setup' = FormClosed
  /\ UNCHANGED <<pageOnly, listed, newPassword, isRemoving, changes, secChangesMade, activity, ending>>

AskForChange(kind, form, stage) ==
  /\ secChangesMade < MaxSecurityChanges
  /\ secChangesMade' = secChangesMade + 1
  /\ changes' = changes \cup {[n |-> secChangesMade', kind |-> kind, by |-> manager, form |-> form, stage |-> stage]}

TurnOn ==
  /\ setup.stage = "ready"
  /\ AskForChange("enroll", setup.form, "change")
  /\ setup' = [setup EXCEPT !.stage = "saving"]
  /\ UNCHANGED <<pageOnly, listed, newPassword, isRemoving, activity, ending>>

RemoveOffered == manager # 0 /\ listed /\ ~isRemoving
RemoveApp ==
  /\ RemoveOffered
  /\ AskForChange("remove", 0, "change")
  /\ isRemoving' = TRUE
  /\ UNCHANGED <<pageOnly, listed, setup, newPassword, activity, ending>>

(* The account signs in with a password. *)
PasswordOffered == manager # 0 /\ newPassword = FormClosed
OpenPassword ==
  /\ PasswordOffered /\ NewForm <= MaxForms
  /\ newPassword' = [stage |-> "open", form |-> NewForm]
  /\ UNCHANGED <<pageOnly, listed, setup, isRemoving, changes, secChangesMade, activity, ending>>

(* The policy is asked about first, with the form still open to another    *)
(* submit. *)
SubmitPassword ==
  /\ newPassword.stage = "open"
  /\ AskForChange("password", newPassword.form, "policy")
  /\ UNCHANGED <<pageOnly, listed, setup, newPassword, isRemoving, activity, ending>>

(* The stage of the form that asked for a change, when it is still there. *)
Stage(form, n, to) == IF n # 0 /\ form.form = n THEN [form EXCEPT !.stage = to] ELSE form

NewPasswordAllowed(c) ==
  /\ c \in changes /\ c.stage = "policy"
  /\ \/ /\ changes' = changes \ {c}
        /\ UNCHANGED newPassword
     \/ /\ changes' = (changes \ {c}) \cup {[c EXCEPT !.stage = "change"]}
        /\ newPassword' = Stage(newPassword, c.form, "saving")
  /\ UNCHANGED <<pageOnly, listed, setup, isRemoving, secChangesMade, activity, ending>>

SignOutEverywhereOffered == ending = "no"
SignOutEverywhere ==
  /\ SignOutEverywhereOffered
  /\ ending' = "asked"
  /\ UNCHANGED <<pageOnly, listed, setup, newPassword, isRemoving, changes, secChangesMade, activity>>

(* Once they are ended the sign-in page is loaded, as a new document. *)
EveryoneOut ==
  /\ ending = "asked"
  /\ ending' \in {"ended", "no"}
  /\ UNCHANGED <<pageOnly, listed, setup, newPassword, isRemoving, changes, secChangesMade, activity>>

ActivityRead ==
  /\ activity.reading
  /\ \E shows \in {"events", "error"} : activity' = [reading |-> FALSE, shows |-> shows]
  /\ UNCHANGED <<pageOnly, listed, setup, newPassword, isRemoving, changes, secChangesMade, ending>>

-----------------------------------------------------------------------------
(* The changes. *)

(* multiFactor(user).enroll and .unenroll, updatePassword *)
Takes(c) ==
  CASE c.kind = "enroll" -> ~enrolled
    [] c.kind = "remove" -> enrolled
    [] OTHER -> TRUE

MadeAtFirebase(c) ==
  /\ c \in changes /\ c.stage = "change" /\ Takes(c)
  /\ changes' = (changes \ {c}) \cup {[c EXCEPT !.stage = "renew"]}
  /\ enrolled' = IF c.kind = "password" THEN enrolled ELSE c.kind = "enroll"
  /\ knownFactors' = IF c.kind = "password" THEN knownFactors ELSE [knownFactors EXCEPT ![c.by] = enrolled']
  /\ isRemoving' = IF c.kind = "enroll" THEN FALSE ELSE isRemoving
  /\ UNCHANGED <<managings, manager, listed, setup, newPassword, secChangesMade, activity, ending, misled>>

Finished(c) ==
  /\ changes' = changes \ {c}
  /\ isRemoving' = IF c.kind = "remove" THEN FALSE ELSE isRemoving

\* Mutant: the list is left as it was.
AfterChangeUnlisted(c) ==
  /\ setup' = FormClosed /\ newPassword' = FormClosed
  /\ activity' = [activity EXCEPT !.reading = TRUE]
  /\ UNCHANGED listed

AfterChange(c) ==
  /\ setup' = FormClosed /\ newPassword' = FormClosed
  /\ activity' = [activity EXCEPT !.reading = TRUE]
  /\ listed' = knownFactors[c.by]

(* The session is renewed: the person is told, and the list and the forms  *)
(* are those of after the change. *)
Renewed(c) ==
  /\ c \in changes /\ c.stage = "renew"
  /\ Finished(c) /\ AfterChange(c)
  /\ misled' = (misled \/ c.by # manager)
  /\ UNCHANGED <<enrolled, managings, manager, knownFactors, secChangesMade, ending>>

(* Refused by Firebase, or made and the session not renewed: the person is *)
(* told it failed. *)
ChangeFailed(c) ==
  /\ c \in changes /\ c.stage \in {"change", "renew"}
  /\ Finished(c)
  /\ setup' = IF c.kind = "enroll" THEN Stage(setup, c.form, "ready") ELSE setup
  /\ newPassword' = IF c.kind = "password" THEN Stage(newPassword, c.form, "open") ELSE newPassword
  /\ misled' = (misled \/ (c.stage = "renew" /\ c.kind # "password"))
  /\ UNCHANGED <<enrolled, managings, manager, knownFactors, listed, secChangesMade, activity, ending>>

SecurityNext ==
  /\ ending # "ended"
  /\ \/ Confirmed \/ Done \/ OpenSetup \/ SecretReady \/ CancelSetup \/ TurnOn \/ RemoveApp
     \/ OpenPassword \/ SubmitPassword \/ SignOutEverywhere \/ EveryoneOut \/ ActivityRead
     \/ \E c \in changes : NewPasswordAllowed(c) \/ MadeAtFirebase(c) \/ Renewed(c) \/ ChangeFailed(c)

SecuritySpec == SecurityInit /\ [][SecurityNext]_securityVars

-----------------------------------------------------------------------------
SecurityTypeOK ==
  /\ manager \in 0..managings /\ managings \in 0..MaxManagings
  /\ setup.stage \in {"closed", "preparing", "failed", "ready", "saving"}
  /\ newPassword.stage \in {"closed", "open", "saving"}
  /\ \A c \in changes : c.by \in 1..managings /\ c.n \in 1..secChangesMade
  /\ activity.shows \in {"nothing", "events", "error"}

(* Setups, removals and password changes may follow and overlap one        *)
(* another: while no app is being turned on or off, the page lists one     *)
(* exactly when the account has one, so that "Set up" and "RemoveApp" do what *)
(* they say. Not after a change whose session could not be renewed, or     *)
(* whose answer came to a later confirmation: both show until the next.    *)
ListedIsEnrolled ==
  \/ manager = 0 \/ misled
  \/ \E c \in changes : c.stage = "renew" /\ c.kind # "password"
  \/ listed = enrolled

(* Why it does: the list is what the Firebase user of the page knows, and  *)
(* that user knows of the account's app, but for a change whose answer is  *)
(* under way - one asked for with that user for the first, with another    *)
(* for the second. *)
Changes == [n : Nat, kind : {"enroll", "remove", "password"}, by : Nat, form : Nat, stage : {"policy", "change", "renew"}]
Forms == [stage : {"closed", "preparing", "failed", "ready", "open", "saving"}, form : Nat]
SecurityShapes ==
  /\ managings \in Nat /\ manager \in 0..managings /\ managings <= MaxManagings
  /\ knownFactors \in [1..MaxManagings -> BOOLEAN] /\ enrolled \in BOOLEAN
  /\ changes \subseteq Changes /\ setup \in Forms /\ newPassword \in Forms
  /\ secChangesMade \in Nat
Renewing(c) == c.stage = "renew" /\ c.kind # "password"
KnowsTheApp == \/ knownFactors[manager] = enrolled
               \/ \E c \in changes : Renewing(c) /\ c.by # manager
ListsWhatItKnows == \/ listed = knownFactors[manager]
                    \/ \E c \in changes : Renewing(c) /\ c.by = manager
SecurityInvariant == SecurityShapes /\ (manager # 0 /\ ~misled => KnowsTheApp /\ ListsWhatItKnows)
=============================================================================
