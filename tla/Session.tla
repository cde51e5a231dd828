------------------------------- MODULE Session -------------------------------
(***************************************************************************)
(* Who a browser tab is signed in as, and what it holds for them:          *)
(* the sign-in page (AuthPage.tsx), what it asks of Firebase               *)
(* (firebase-auth.ts), the session in browser storage (api.ts), the        *)
(* clearing of everything held for a person (session.ts) and the security  *)
(* page (SecuritySettings.tsx).                                            *)
(*                                                                         *)
(* Signing out and an expired hint differ: the first loads the sign-in     *)
(* page as a new document, the second moves to it within the page, with    *)
(* requests still under way.                                               *)
(***************************************************************************)
EXTENDS Naturals

CONSTANTS
  People,
  MaxAttempts   \* bound: sign-ins begun

NoOne == "nobody"

VARIABLES
  cookie,     \* the server's session the browser's cookie is for
  hint,       \* session_expires_at: "none", "live" or "past"
  info,       \* user_info
  held,       \* whose data the page's stores hold
  loads,      \* whose data is on its way to this page
  page,       \* "login", "home", "app", "security" or "leaving"
  form,       \* the sign-in page: its step and what it is busy with
  attempt,    \* the sign-in under way, whoever it is for
  firebase,   \* Firebase's current user
  managing,   \* the security page: the confirmation dialog
  renewing,   \* whose session is being renewed, after a change of theirs
  attempts,   \* bound
  late,       \* history variable: whose data was still on its way when the session began
  displaced    \* history variable: a renewal came after its session's pages were left, or
              \* took another's place

sessionVars == <<cookie, hint, info, held, loads, page, form, attempt, firebase, managing, renewing, attempts, late, displaced>>
storage == <<cookie, hint, info, held, loads, late>>

NoAttempt  == [who |-> NoOne, stage |-> "none"]
EmptyForm  == [step |-> "form", busy |-> "none"]
NoManaging == [open |-> FALSE, busy |-> "none", code |-> FALSE, user |-> NoOne]

SessionInit ==
  /\ \E who \in People :
       \/ cookie = NoOne /\ hint = "none" /\ info = NoOne /\ page = "login"
       \/ cookie = who /\ hint = "live" /\ info = who /\ page = "app"
  /\ held = {} /\ loads = {} /\ late = {}
  /\ form = EmptyForm /\ attempt = NoAttempt /\ firebase = NoOne
  /\ managing = NoManaging /\ renewing = NoOne /\ attempts = 0 /\ displaced = FALSE

IsAuthenticated == hint = "live" /\ info # NoOne

-----------------------------------------------------------------------------
(* Browser storage.                                                        *)

\* Mutant: the stores keep what they hold.
ClearSignedInStateNot == UNCHANGED held

(* Every store is reset and the session storage is cleared. *)
ClearSignedInState == held' = {}

StartSession(who) ==
  /\ ClearSignedInState
  /\ hint' = "live" /\ info' = who
  /\ late' = loads

RenewSession(who) ==
  /\ hint' = "live" /\ info' = who

(* The server is asked to end the session, which may not reach it. *)
SignOut ==
  /\ cookie' \in {cookie, NoOne}
  /\ hint' = "none" /\ info' = NoOne
  /\ ClearSignedInState
  /\ page' = IF page = "login" THEN page ELSE "leaving"

(* signOutRedirect: a new document; nothing of the old one is left.  The   *)
(* sign-in page moves on when a renewal that was under way signed the      *)
(* person in again.                                                        *)
NewDocument ==
  /\ page = "leaving"
  /\ page' = IF IsAuthenticated THEN "app" ELSE "login"
  /\ held' = {} /\ loads' = {} /\ late' = {}
  /\ form' = EmptyForm /\ attempt' = NoAttempt /\ managing' = NoManaging /\ renewing' = NoOne
  /\ UNCHANGED <<cookie, hint, info, firebase, attempts, displaced>>

-----------------------------------------------------------------------------
(* The signed-in pages. *)

(* A page asks for data, which is of whoever the cookie is for. *)
Load ==
  /\ page \in {"app", "security"}
  /\ cookie # NoOne
  /\ loads' = loads \cup {cookie}
  /\ UNCHANGED <<cookie, hint, info, held, late, page, form, attempt, firebase, managing, renewing, attempts, displaced>>

Loaded(who) ==
  /\ who \in loads
  /\ loads' = loads \ {who} /\ late' = late
  /\ held' = held \cup {who}
  /\ UNCHANGED <<cookie, hint, info, page, form, attempt, firebase, managing, renewing, attempts, displaced>>

(* A request is refused: ensureOk ends a session the browser believes in. *)
EndSession ==
  /\ page \in {"app", "security"} /\ cookie = NoOne
  /\ IsAuthenticated
  /\ SignOut
  /\ UNCHANGED <<loads, late, form, attempt, firebase, managing, renewing, attempts, displaced>>

PersonSignsOut ==
  /\ page \in {"app", "security"}
  /\ SignOut
  /\ UNCHANGED <<loads, late, form, attempt, firebase, managing, renewing, attempts, displaced>>

(* The server's session ends, or the hint's time passes. *)
SessionExpires ==
  /\ \/ cookie # NoOne /\ cookie' = NoOne /\ UNCHANGED hint
     \/ hint = "live" /\ hint' = "past" /\ UNCHANGED cookie
  /\ UNCHANGED <<info, held, loads, late, page, form, attempt, firebase, managing, renewing, attempts, displaced>>

(* A page that opens without a session moves to the sign-in page, which    *)
(* moves on when there is one; leaving the security page lets go of the    *)
(* Firebase user.                                                          *)
Navigate ==
  /\ \E to \in {"app", "security", "login", "home"} :
       /\ to # page /\ page # "leaving"
       /\ page' = IF to \in {"login", "home"} /\ IsAuthenticated THEN "app"
                  ELSE IF to \in {"app", "security"} /\ ~IsAuthenticated THEN "login"
                  ELSE to
  /\ page' # page
  /\ firebase' = IF page = "security" THEN NoOne ELSE firebase
  /\ managing' = NoManaging
  /\ form' = EmptyForm
  /\ UNCHANGED <<storage, attempt, renewing, attempts, displaced>>

-----------------------------------------------------------------------------
(* The sign-in page.                                                       *)

Busy == form.busy # "none"

(* The form is checked first, and a new password asked of the provider. *)
ValidateAuthForm == form.step = "form"
FriendlyError == [form EXCEPT !.busy = "none"]

(* handleSubmit and handleGoogle *)
Submit(who, kind) ==
  /\ page = "login" /\ ValidateAuthForm /\ ~Busy
  /\ attempt = NoAttempt /\ attempts < MaxAttempts
  /\ form' = [form EXCEPT !.busy = kind]
  /\ attempt' = [who |-> who, stage |-> "provider"]
  /\ attempts' = attempts + 1
  /\ UNCHANGED <<storage, page, firebase, managing, renewing, displaced>>

(* The attempt goes on when its page was left; only its form is gone. *)
OnForm(change) == form' = IF page = "login" THEN change ELSE form

SignInWithPassword ==
  /\ attempt.stage = "provider"
  /\ \/ /\ firebase' = attempt.who   \* signed in, and verified
        /\ attempt' = [attempt EXCEPT !.stage = "exchange"] /\ UNCHANGED form
     \/ /\ attempt' = [attempt EXCEPT !.stage = "secondFactor"]
        /\ OnForm([EmptyForm EXCEPT !.step = "code"]) /\ UNCHANGED firebase
     \/ /\ attempt' = NoAttempt      \* not verified: a new link was sent
        /\ OnForm([EmptyForm EXCEPT !.step = "inbox"]) /\ firebase' = NoOne
     \/ /\ attempt' = NoAttempt
        /\ OnForm(FriendlyError) /\ UNCHANGED firebase
  /\ UNCHANGED <<storage, page, managing, renewing, attempts, displaced>>

CompleteSecondFactor ==
  /\ page = "login" /\ form.step = "code" /\ ~Busy
  /\ attempt.stage = "secondFactor"
  /\ \/ /\ firebase' = attempt.who
        /\ attempt' = [attempt EXCEPT !.stage = "exchange"]
        /\ form' = [form EXCEPT !.busy = "code"]
     \/ form' = FriendlyError /\ UNCHANGED <<firebase, attempt>>
  /\ UNCHANGED <<storage, page, managing, renewing, attempts, displaced>>

BackToForm ==
  /\ page = "login" /\ form.step # "form" /\ ~Busy
  /\ form' = EmptyForm /\ attempt' = NoAttempt
  /\ UNCHANGED <<storage, page, firebase, managing, renewing, attempts, displaced>>

(* Leaving the page forgets a sign-in that waits for its code. *)
Forgotten ==
  /\ attempt.stage = "secondFactor" /\ ~(page = "login" /\ form.step = "code")
  /\ attempt' = NoAttempt
  /\ UNCHANGED <<storage, page, form, firebase, managing, renewing, attempts, displaced>>

(* exchangeForSession: the cookie is the server's doing, the rest the      *)
(* browser's; Firebase's user is let go of however it went.                *)
ExchangeForSession ==
  /\ attempt.stage = "exchange"
  /\ cookie' = attempt.who
  /\ attempt' = [attempt EXCEPT !.stage = "started"]
  /\ UNCHANGED <<hint, info, held, loads, late, page, form, firebase, managing, renewing, attempts, displaced>>

FinishSignIn ==
  /\ attempt.stage = "started"
  /\ page # "leaving"
  /\ StartSession(attempt.who)
  /\ page' = "app" /\ form' = EmptyForm
  /\ firebase' = NoOne /\ attempt' = NoAttempt
  /\ managing' = NoManaging
  /\ UNCHANGED <<cookie, loads, renewing, attempts, displaced>>

ExchangeFails ==
  /\ attempt.stage \in {"exchange", "started"}
  /\ OnForm(FriendlyError)
  /\ firebase' = NoOne /\ attempt' = NoAttempt
  /\ UNCHANGED <<storage, page, managing, renewing, attempts, displaced>>

-----------------------------------------------------------------------------
(* The security page. *)

OpenConfirm ==
  /\ page = "security" /\ managing.user = NoOne /\ ~managing.open
  /\ managing' = [managing EXCEPT !.open = TRUE]
  /\ UNCHANGED <<storage, page, form, attempt, firebase, renewing, attempts, displaced>>

(* confirmWithPassword, confirmWithGoogle *)
ConfirmIdentity ==
  /\ managing.open /\ managing.busy = "none"
  /\ managing' = [managing EXCEPT !.busy = "confirm"]
  /\ UNCHANGED <<storage, page, form, attempt, firebase, renewing, attempts, displaced>>

(* Closing the dialog forgets its code; what it asked is answered all the  *)
(* same. *)
CloseConfirm ==
  /\ managing.open
  /\ managing' = [managing EXCEPT !.open = FALSE, !.code = FALSE]
  /\ UNCHANGED <<storage, page, form, attempt, firebase, renewing, attempts, displaced>>

(* A password confirms whose it is; the account picked at Google may be     *)
(* another's. *)
ConfirmAnswered ==
  /\ managing.busy = "confirm"
  /\ \/ \E who \in People :
          /\ firebase' = who
          /\ managing' = [managing EXCEPT !.busy = "none", !.open = FALSE, !.user = who]
     \/ /\ managing' = [managing EXCEPT !.busy = "none", !.code = TRUE] /\ UNCHANGED firebase
     \/ /\ managing' = [managing EXCEPT !.busy = "none"] /\ UNCHANGED firebase
  /\ UNCHANGED <<storage, page, form, attempt, renewing, attempts, displaced>>

(* A change is made at Firebase, then the session is renewed with a token  *)
(* made after it, wherever the page has gone meanwhile. *)
ChangeAtFirebase ==
  /\ managing.user # NoOne /\ renewing = NoOne
  /\ renewing' = managing.user
  /\ UNCHANGED <<storage, page, form, attempt, firebase, managing, attempts, displaced>>

RefreshSessionAfter ==
  /\ renewing # NoOne
  /\ renewing' = NoOne
  /\ \/ /\ cookie' = renewing
        /\ RenewSession(renewing)
        /\ displaced' = (displaced \/ renewing # info \/ page \in {"login", "home"})
     \/ UNCHANGED <<cookie, hint, info, displaced>>
  /\ UNCHANGED <<held, loads, late, page, form, attempt, firebase, managing, attempts>>

FinishManaging ==
  /\ managing.user # NoOne
  /\ managing' = NoManaging /\ firebase' = NoOne
  /\ UNCHANGED <<storage, page, form, attempt, renewing, attempts, displaced>>

SessionNext ==
  \/ NewDocument \/ Load \/ EndSession \/ PersonSignsOut \/ SessionExpires \/ Navigate
  \/ \E who \in People : Loaded(who)
  \/ \E who \in People, kind \in {"submit", "google"} : Submit(who, kind)
  \/ SignInWithPassword \/ CompleteSecondFactor \/ BackToForm \/ Forgotten
  \/ ExchangeForSession \/ FinishSignIn \/ ExchangeFails
  \/ OpenConfirm \/ ConfirmIdentity \/ CloseConfirm \/ ConfirmAnswered
  \/ ChangeAtFirebase \/ RefreshSessionAfter \/ FinishManaging

SessionSpec == SessionInit /\ [][SessionNext]_sessionVars

-----------------------------------------------------------------------------
SessionTypeOK ==
  /\ {cookie, info, firebase, attempt.who, managing.user, renewing} \subseteq People \cup {NoOne}
  /\ held \cup loads \cup late \subseteq People
  /\ page \in {"login", "home", "app", "security", "leaving"}
  /\ form.step \in {"form", "code", "inbox"}

(* What a page holds for a person is never shown to the next one to sign   *)
(* in on it: apart from answers that were on their way when the session    *)
(* began, and unless a renewal came when its person's pages were left     *)
(* already, a signed-in page holds only the data of whoever is signed in.  *)
HeldIsTheirs ==
  (IsAuthenticated /\ ~displaced /\ page \in {"app", "security"}) => held \subseteq {info} \cup late

-----------------------------------------------------------------------------
(* What the theorem about HeldIsTheirs rests on: a page without a session  *)
(* is left for one only by signing in, which clears what is held, and the  *)
(* cookie that a signed-in page loads with is of whoever it shows.         *)
Attempts == [who : People, stage : {"provider", "secondFactor", "exchange", "started"}] \cup {NoAttempt}

NoSessionWithoutSignIn ==
  /\ page \in {"login", "home"} => ~IsAuthenticated
  /\ page = "leaving" => info = NoOne
  /\ attempt # NoAttempt => page \in {"login", "home"}

PageIsOfItsPerson ==
  /\ (page \in {"app", "security"} /\ info # NoOne) =>
       held \cup loads \subseteq {info} \cup late /\ cookie \in {info, NoOne}
  /\ attempt.stage = "started" => cookie \in {attempt.who, NoOne}

SessionInvariant ==
  /\ attempt \in Attempts /\ displaced \in BOOLEAN
  /\ page \in {"login", "home", "app", "security", "leaving"}
  /\ ~displaced => NoSessionWithoutSignIn /\ PageIsOfItsPerson
=============================================================================
