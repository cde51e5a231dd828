------------------------------ MODULE SignInForm ------------------------------
(* The forms of the sign-in page (pages/AuthPage with components/auth/AuthForm*)
(* and lib/auth-form): the two modes, the fields and their checks, the code   *)
(* of the second factor, and what is asked of the provider.  What a field     *)
(* holds is one of "empty", "bad" and "good".  A new password is put to the   *)
(* provider's policy before anything is shown as busy, so the form may be     *)
(* changed, switched or sent again while that is under way.  The session an   *)
(* answer starts is Session's.                                                *)
EXTENDS Naturals, Sequences, SequencesExt

CONSTANTS
  CodeLength,        \* digits of an authenticator's code
  MaxSubmits         \* bound: how often the provider is asked

VARIABLES
  signMode,          \* "login" or "signup"
  step,              \* "form", "secondFactor", "checkInbox", or "in": signed in
  fields,            \* what the fields hold
  refusedFields,     \* the fields shown with an error
  formError,         \* the form is shown with one
  isLoading,         \* the submit waits
  isGoogleLoading,   \* Google's button waits
  policies,          \* the new passwords whose policy is being asked, as fields
  signInAsks,             \* what the provider was asked and has not answered
  digits,            \* how many digits of the code are typed
  submits,           \* for the bound
  crossed            \* history variable: an account was asked for while another
                     \* answer was awaited

signInVars == <<signMode, step, fields, refusedFields, formError, isLoading,
                isGoogleLoading, policies, signInAsks, digits, submits, crossed>>

FieldNames == {"name", "email", "password"}
NoFields == [field \in FieldNames |-> "empty"]
IsBusy == isLoading \/ isGoogleLoading

SignInTypeOK ==
  /\ signMode \in {"login", "signup"}
  /\ step \in {"form", "secondFactor", "checkInbox", "in"}
  /\ fields \in [FieldNames -> {"empty", "bad", "good"}]
  /\ refusedFields \subseteq FieldNames
  /\ {formError, isLoading, isGoogleLoading} \subseteq BOOLEAN
  /\ \A i \in DOMAIN signInAsks : signInAsks[i].kind \in {"login", "signup", "google", "code"}
  /\ digits \in 0..CodeLength /\ submits \in 0..MaxSubmits /\ crossed \in BOOLEAN

SignInInit ==
  /\ signMode \in {"login", "signup"} /\ step = "form"
  /\ fields = NoFields /\ refusedFields = {} /\ formError = FALSE
  /\ isLoading = FALSE /\ isGoogleLoading = FALSE
  /\ policies = <<>> /\ signInAsks = <<>> /\ digits = 0 /\ submits = 0
  /\ crossed = FALSE

-------------------------------------------------------------------------------
(* The fields.                                                                *)

(* validateAuthForm: an account needs a name and a password that is long      *)
(* enough; signing in, any password will do.                                  *)
Invalid(mode, values) ==
  {field \in FieldNames :
     \/ field = "name" /\ mode = "signup" /\ values.name # "good"
     \/ field = "email" /\ values.email # "good"
     \/ field = "password" /\ \/ values.password = "empty"
                              \/ mode = "signup" /\ values.password = "bad"}

FieldIsOpen(field) ==
  step = "form" /\ ~IsBusy /\ (field = "name" => signMode = "signup")

(* A name is cut to its longest length as it is typed, so it is never bad.    *)
Edit(field, value) ==
  /\ FieldIsOpen(field) /\ fields[field] # value
  /\ field = "name" => value # "bad"
  /\ fields' = [fields EXCEPT ![field] = value]
  /\ refusedFields' = refusedFields \ {field}
  /\ formError' = FALSE
  /\ UNCHANGED <<signMode, step, isLoading, isGoogleLoading, policies, signInAsks, digits, submits, crossed>>

(* The switch over the form, and the error's own "Sign in instead".           *)
SwitchMode ==
  /\ step = "form" /\ ~IsBusy
  /\ signMode' = IF signMode = "login" THEN "signup" ELSE "login"
  /\ refusedFields' = {} /\ formError' = FALSE
  /\ UNCHANGED <<step, fields, isLoading, isGoogleLoading, policies, signInAsks, digits, submits, crossed>>

-------------------------------------------------------------------------------
(* Asking the provider.                                                       *)

AskProvider(kind, values) == signInAsks' = Append(signInAsks, [kind |-> kind, with |-> values])

(* The end of handleSubmit's checks: the refused fields are shown, or the     *)
(* provider is asked.                                                         *)
Proceed(mode, values, errors) ==
  /\ refusedFields' = errors /\ formError' = FALSE
  /\ isLoading' = (isLoading \/ errors = {})
  /\ IF errors = {} THEN AskProvider(mode, values) ELSE UNCHANGED signInAsks
  /\ crossed' = (crossed \/ (errors = {} /\ signInAsks # <<>>))

(* The button is disabled while the form waits.                               *)
SubmitIsOffered == step = "form" /\ ~IsBusy /\ submits < MaxSubmits

(* handleSubmit of an account whose password is worth putting to the policy.  *)
SubmitSignUp ==
  /\ SubmitIsOffered /\ signMode = "signup"
  /\ "password" \notin Invalid("signup", fields)
  /\ policies' = Append(policies, fields)
  /\ submits' = submits + 1
  /\ UNCHANGED <<signMode, step, fields, refusedFields, formError, isLoading,
                 isGoogleLoading, signInAsks, digits, crossed>>

(* handleSubmit of anything else.                                             *)
HandleSubmit ==
  /\ SubmitIsOffered
  /\ signMode = "signup" => "password" \in Invalid("signup", fields)
  /\ Proceed(signMode, fields, Invalid(signMode, fields))
  /\ submits' = submits + 1
  /\ UNCHANGED <<signMode, step, fields, isGoogleLoading, policies, digits>>

\* Mutant: what is sent is read from the form once the policy has answered.
SubmittedNow(i) == fields

(* What is sent is what was submitted: handleSubmit's own closure.            *)
Submitted(i) == policies[i]

PolicyAnswered(i, problem) ==
  /\ Proceed("signup", Submitted(i),
             Invalid("signup", policies[i]) \cup (IF problem THEN {"password"} ELSE {}))
  /\ policies' = RemoveAt(policies, i)
  /\ UNCHANGED <<signMode, step, fields, isGoogleLoading, digits, submits>>

HandleGoogle ==
  /\ SubmitIsOffered
  /\ formError' = FALSE /\ isGoogleLoading' = TRUE
  /\ AskProvider("google", fields)
  /\ submits' = submits + 1
  /\ UNCHANGED <<signMode, step, fields, refusedFields, isLoading, policies, digits, crossed>>

-------------------------------------------------------------------------------
(* The code.                                                                  *)

\* Mutant: the code is asked for whatever is under way.
MayVerifyAnyway == TRUE

(* verifyCode returns at once while it waits.                                 *)
MayVerify == ~isLoading

(* A whole code is asked for; less of one is refused by the form.             *)
VerifyCode(typed) ==
  /\ formError' = (typed < CodeLength)
  /\ isLoading' = (typed = CodeLength)
  /\ signInAsks' = IF typed = CodeLength THEN Append(signInAsks, [kind |-> "code", with |-> fields])
              ELSE signInAsks

(* CodeField: typing takes the error away, and the last digit sends the code. *)
TypeCode(typed) ==
  /\ step = "secondFactor" /\ ~isLoading /\ typed # digits
  /\ digits' = typed
  /\ IF typed = CodeLength /\ MayVerify /\ submits < MaxSubmits
     THEN VerifyCode(typed) /\ submits' = submits + 1
     ELSE formError' = FALSE /\ UNCHANGED <<isLoading, signInAsks, submits>>
  /\ UNCHANGED <<signMode, step, fields, refusedFields, isGoogleLoading, policies, crossed>>

(* Verify, and Enter in the field, which the last digit may just have sent.   *)
SubmitCode ==
  /\ step = "secondFactor" /\ MayVerify /\ submits < MaxSubmits
  /\ VerifyCode(digits)
  /\ submits' = submits + 1
  /\ UNCHANGED <<signMode, step, fields, refusedFields, isGoogleLoading, policies, digits, crossed>>

-------------------------------------------------------------------------------
(* The provider's answers.                                                    *)

SignInAnswer(i) ==
  /\ i \in DOMAIN signInAsks /\ step # "in"
  /\ signInAsks' = RemoveAt(signInAsks, i)
  /\ UNCHANGED <<policies, submits, crossed>>

(* handleOutcome.                                                             *)
SignedIn(i) ==
  /\ SignInAnswer(i) /\ signInAsks[i].kind # "signup"
  /\ step' = "in"
  /\ UNCHANGED <<signMode, fields, refusedFields, formError, isLoading,
                 isGoogleLoading, digits>>

WantsMore(i, next) ==
  /\ SignInAnswer(i) /\ signInAsks[i].kind # "signup"
  /\ signInAsks[i].kind = "code" => next = "checkInbox"
  /\ step' = next
  /\ digits' = IF next = "secondFactor" THEN 0 ELSE digits
  /\ isLoading' = FALSE /\ isGoogleLoading' = FALSE
  /\ UNCHANGED <<signMode, fields, refusedFields, formError>>

AccountMade(i) ==
  /\ SignInAnswer(i) /\ signInAsks[i].kind = "signup"
  /\ step' = "checkInbox"
  /\ fields' = [fields EXCEPT !.password = "empty"]
  /\ isLoading' = FALSE
  /\ UNCHANGED <<signMode, refusedFields, formError, isGoogleLoading, digits>>

Refused(i) ==
  /\ SignInAnswer(i)
  /\ formError' = TRUE
  /\ isLoading' = (isLoading /\ signInAsks[i].kind = "google")
  /\ isGoogleLoading' = (isGoogleLoading /\ signInAsks[i].kind # "google")
  /\ UNCHANGED <<signMode, step, fields, refusedFields, digits>>

BackToTheForm ==
  /\ \/ step = "secondFactor" /\ ~isLoading
     \/ step = "checkInbox"
  /\ step' = "form" /\ signMode' = "login"
  /\ digits' = 0 /\ formError' = FALSE
  /\ UNCHANGED <<fields, refusedFields, isLoading, isGoogleLoading, policies, signInAsks, submits, crossed>>

SignInNext ==
  \/ \E field \in FieldNames, value \in {"empty", "bad", "good"} : Edit(field, value)
  \/ SwitchMode \/ SubmitSignUp \/ HandleSubmit \/ HandleGoogle
  \/ \E i \in DOMAIN policies, problem \in BOOLEAN : PolicyAnswered(i, problem)
  \/ \E typed \in 0..CodeLength : TypeCode(typed)
  \/ SubmitCode \/ BackToTheForm
  \/ \E i \in DOMAIN signInAsks : \/ SignedIn(i) \/ AccountMade(i) \/ Refused(i)
                            \/ \E next \in {"secondFactor", "checkInbox"} : WantsMore(i, next)

SignInSpec == SignInInit /\ [][SignInNext]_signInVars

-------------------------------------------------------------------------------

(* What the provider is asked with passed the checks of what it is asked for, *)
(* whatever became of the form while the policy was asked (handleSubmit).     *)
SentWasChecked ==
  \A i \in DOMAIN signInAsks :
    signInAsks[i].kind \in {"login", "signup"} =>
      Invalid(signInAsks[i].kind, signInAsks[i].with) = {}

(* One code is asked for at a time: the last digit and Enter do not both send *)
(* it (verifyCode).  An account asked for while a code is being checked ends  *)
(* the waiting for the code too, when it is refused; then another may be sent *)
(* (setIsLoading).                                                            *)
OneCodeAtATime ==
  ~crossed => \A i, j \in DOMAIN signInAsks :
    signInAsks[i].kind = "code" /\ signInAsks[j].kind = "code" => i = j

-------------------------------------------------------------------------------
(* What the theorems about the two rest on: as long as no account was asked   *)
(* for meanwhile, one answer is awaited at a time, and the form waits for it. *)
AskedOf == [kind : {"login", "signup", "google", "code"}, with : [FieldNames -> {"empty", "bad", "good"}]]

OneAnswerIsAwaited ==
  /\ Len(signInAsks) =< 1
  /\ \A i \in DOMAIN signInAsks :
       IF signInAsks[i].kind = "google" THEN isGoogleLoading /\ step \in {"form", "in"} ELSE isLoading

SignInInvariant ==
  /\ signInAsks \in Seq(AskedOf) /\ policies \in Seq([FieldNames -> {"empty", "bad", "good"}])
  /\ fields \in [FieldNames -> {"empty", "bad", "good"}] /\ signMode \in {"login", "signup"}
  /\ {isLoading, isGoogleLoading, crossed} \subseteq BOOLEAN
  /\ SentWasChecked
  /\ ~crossed => OneAnswerIsAwaited
===============================================================================
