--------------------------------- MODULE PageProofs ---------------------------------
(***************************************************************************)
(* Proofs about the pages of a person, of their projects, and of a         *)
(* project's code, preview and use, one part of the browser after the      *)
(* other: for each, an invariant its module states holds at first, and     *)
(* every step of the part keeps it. BrowserProofs puts the parts together. *)
(***************************************************************************)
EXTENDS BrowserState, KeptElementsProofs, FiniteSetTheorems

-----------------------------------------------------------------------------
(* Session: what a page holds is of the person its session is of. *)
Session == INSTANCE Session WITH cookie <- v1, hint <- v2, info <- v3,
  held <- v4, loads <- v5, page <- v6, form <- v7, attempt <- v8,
  firebase <- v9, managing <- v10, renewing <- v11, attempts <- v12,
  late <- v13, displaced <- v14

\* Nobody is not somebody who may sign in.
LEMMA NobodySignsIn == "nobody" \notin People
BY BrowserAssumption, Zenon

\* The page opens signed in or signed out, and holds nothing.
LEMMA SessionInitially ==
  ASSUME Session!SessionInit
  PROVE  Session!SessionInvariant
BY Zenon, NobodySignsIn DEF Session!SessionInit, Session!SessionInvariant, Session!Attempts, Session!NoAttempt,
       Session!NoSessionWithoutSignIn, Session!PageIsOfItsPerson, Session!IsAuthenticated, Session!NoOne

\* A sign-in under way that goes on is still whoever it was for.
LEMMA AttemptGoesOn ==
  ASSUME v8 \in Session!Attempts, v8.stage # "none", NEW stage \in {"secondFactor", "exchange", "started"},
         NEW a, a = [v8 EXCEPT !.stage = stage]
  PROVE  /\ a \in Session!Attempts /\ a # Session!NoAttempt
         /\ a.stage = stage /\ a.who = v8.who /\ a.who \in People
<1>1. v8 \in [who : People, stage : {"provider", "secondFactor", "exchange", "started"}]
  BY DEF Session!Attempts, Session!NoAttempt, Session!NoOne
<1>2. a = [who |-> v8.who, stage |-> stage]
  BY <1>1
<1>3. QED
  BY <1>1, <1>2 DEF Session!Attempts, Session!NoAttempt

\* Every step of the tab, its server and Firebase keeps the invariant.
LEMMA SessionStep ==
  ASSUME Session!SessionInvariant, [Session!SessionNext]_(Session!sessionVars)
  PROVE  Session!SessionInvariant'
<1> USE NobodySignsIn DEF Session!SessionInvariant, Session!NoSessionWithoutSignIn, Session!PageIsOfItsPerson,
        Session!IsAuthenticated, Session!NoOne, Session!storage
<1>1. CASE UNCHANGED Session!sessionVars
  BY <1>1 DEF Session!sessionVars
<1>2. CASE Session!NewDocument
  BY <1>2 DEF Session!NewDocument, Session!NoAttempt, Session!Attempts
<1>3. CASE Session!Load
  BY <1>3 DEF Session!Load
<1>4. CASE Session!EndSession \/ Session!PersonSignsOut
  BY <1>4 DEF Session!EndSession, Session!PersonSignsOut, Session!SignOut, Session!ClearSignedInState
<1>5. CASE Session!SessionExpires
  BY <1>5 DEF Session!SessionExpires
<1>6. CASE Session!Navigate
  BY <1>6 DEF Session!Navigate
<1>7. ASSUME NEW who \in People, Session!Loaded(who)
      PROVE  Session!SessionInvariant'
  BY <1>7 DEF Session!Loaded
<1>8. ASSUME NEW who \in People, NEW kind \in {"submit", "google"}, Session!Submit(who, kind)
      PROVE  Session!SessionInvariant'
  BY <1>8 DEF Session!Submit, Session!Attempts
<1>9. CASE Session!SignInWithPassword
  <2>1. CASE v8' = [v8 EXCEPT !.stage = "exchange"] \/ v8' = [v8 EXCEPT !.stage = "secondFactor"]
    <3>1. v8.stage = "provider" /\ UNCHANGED <<v1, v2, v3, v4, v5, v6, v13, v14>>
      BY <1>9 DEF Session!SignInWithPassword
    <3>2. v8' \in Session!Attempts /\ v8'.stage # "started" /\ v8 # Session!NoAttempt
      <4>1. PICK stage \in {"exchange", "secondFactor"} : v8' = [v8 EXCEPT !.stage = stage]
        BY <2>1
      <4>2. QED
        BY <3>1, <4>1, AttemptGoesOn DEF Session!NoAttempt
    <3>3. QED
      BY <3>1, <3>2
  <2>2. CASE v8' = Session!NoAttempt
    BY <1>9, <2>2 DEF Session!SignInWithPassword, Session!NoAttempt, Session!Attempts
  <2>3. QED
    BY <1>9, <2>1, <2>2 DEF Session!SignInWithPassword
<1>10. CASE Session!CompleteSecondFactor
  <2>1. CASE v8' = [v8 EXCEPT !.stage = "exchange"]
    BY <1>10, <2>1, AttemptGoesOn DEF Session!CompleteSecondFactor, Session!NoAttempt
  <2>2. CASE v8' = v8
    BY <1>10, <2>2 DEF Session!CompleteSecondFactor
  <2>3. QED
    BY <1>10, <2>1, <2>2 DEF Session!CompleteSecondFactor
<1>11. CASE Session!BackToForm \/ Session!Forgotten \/ Session!ExchangeFails
  <2>1. /\ v8' = Session!NoAttempt /\ v8'.stage = "none" /\ v8' \in Session!Attempts
        /\ UNCHANGED <<v1, v2, v3, v4, v5, v6, v13, v14>>
    <3>1. v8' = Session!NoAttempt /\ UNCHANGED <<v1, v2, v3, v4, v5, v6, v13, v14>>
      BY <1>11 DEF Session!BackToForm, Session!Forgotten, Session!ExchangeFails
    <3>2. QED
      BY <3>1 DEF Session!Attempts, Session!NoAttempt
  <2>2. QED
    BY <2>1
<1>12. CASE Session!ExchangeForSession
  <2>1. /\ v8' \in Session!Attempts /\ v8'.stage = "started" /\ v8'.who = v8.who /\ v8 # Session!NoAttempt
        /\ v1' = v8.who
        /\ UNCHANGED <<v2, v3, v4, v5, v6, v13, v14>>
    BY <1>12, AttemptGoesOn DEF Session!ExchangeForSession, Session!NoAttempt
  <2>2. QED
    BY <2>1, AttemptGoesOn
<1>13. CASE Session!FinishSignIn
  BY <1>13 DEF Session!FinishSignIn, Session!StartSession, Session!ClearSignedInState, Session!Attempts, Session!NoAttempt
<1>14. CASE Session!OpenConfirm \/ Session!ConfirmIdentity \/ Session!CloseConfirm \/ Session!ConfirmAnswered
            \/ Session!ChangeAtFirebase \/ Session!FinishManaging
  BY Zenon, <1>14 DEF Session!OpenConfirm, Session!ConfirmIdentity, Session!CloseConfirm, Session!ConfirmAnswered,
            Session!ChangeAtFirebase, Session!FinishManaging
<1>15. CASE Session!RefreshSessionAfter
  <2>1. CASE UNCHANGED <<v1, v2, v3, v14>>
    BY <1>15, <2>1 DEF Session!RefreshSessionAfter
  <2>2. CASE /\ v1' = v11 /\ Session!RenewSession(v11)
             /\ v14' = (v14 \/ v11 # v3 \/ v6 \in {"login", "home"})
    <3>1. v14' \in BOOLEAN
      BY <2>2
    <3>2. CASE ~v14'
      <4>1. ~v14 /\ v11 = v3 /\ v6 \notin {"login", "home"} /\ v11 # Session!NoOne
        BY Zenon, <1>15, <2>2, <3>2 DEF Session!RefreshSessionAfter
      <4>2. v1' = v3 /\ v3' = v3 /\ UNCHANGED <<v4, v5, v6, v8, v13>>
        BY <1>15, <2>2, <4>1 DEF Session!RefreshSessionAfter, Session!RenewSession
      <4>3. v6 # "leaving" /\ v8 = Session!NoAttempt
        BY <4>1
      <4>4. QED
        BY <3>1, <4>1, <4>2, <4>3 DEF Session!NoAttempt
    <3>3. QED
      BY <1>15, <3>1, <3>2 DEF Session!RefreshSessionAfter
  <2>3. QED
    BY <1>15, <2>1, <2>2 DEF Session!RefreshSessionAfter
<1>16. QED
  BY <1>1, <1>2, <1>3, <1>4, <1>5, <1>6, <1>7, <1>8, <1>9, <1>10, <1>11, <1>12, <1>13, <1>14, <1>15
  DEF Session!SessionNext

\* What the invariant says of what a page holds.
LEMMA SessionHolds ==
  ASSUME Session!SessionInvariant
  PROVE  Session!HeldIsTheirs
BY DEF Session!SessionInvariant, Session!HeldIsTheirs, Session!PageIsOfItsPerson, Session!IsAuthenticated

-----------------------------------------------------------------------------
(* SignInForm: what is sent was checked. *)
SignIn == INSTANCE SignInForm WITH signMode <- v1, step <- v2, fields <- v3,
  refusedFields <- v4, formError <- v5, isLoading <- v6,
  isGoogleLoading <- v7, policies <- v8, signInAsks <- v9, digits <- v10,
  submits <- v11, crossed <- v12

\* What is left of a sequence without one of its elements.
LEMMA SignInRemoveAt ==
  ASSUME NEW S, NEW s \in Seq(S), NEW i \in DOMAIN s, NEW t, t = SignIn!RemoveAt(s, i)
  PROVE  /\ t \in Seq(S) /\ Len(t) = Len(s) - 1
         /\ \A j \in DOMAIN t : t[j] = IF j < i THEN s[j] ELSE s[j + 1]
         /\ \A j \in DOMAIN t : \E k \in DOMAIN s : t[j] = s[k]
<1> DEFINE a == SubSeq(s, 1, i - 1)
           b == SubSeq(s, i + 1, Len(s))
<1>1. i \in 1..Len(s) /\ Len(s) \in Nat /\ DOMAIN s = 1..Len(s)
  BY LenProperties
<1>2. a \in Seq(S) /\ Len(a) = i - 1 /\ \A j \in 1..(i - 1) : a[j] = s[j]
  BY <1>1, SubSeqProperties
<1>3. b \in Seq(S) /\ Len(b) = Len(s) - i /\ \A j \in 1..(Len(s) - i) : b[j] = s[i + j]
  BY <1>1, SubSeqProperties
<1>4. t = a \o b
  BY DEF SignIn!RemoveAt
<1> HIDE DEF a, b
<1>5. t \in Seq(S) /\ Len(t) = Len(s) - 1 /\ DOMAIN t = 1..(Len(s) - 1)
  <2>1. t \in Seq(S) /\ Len(t) = Len(a) + Len(b)
    BY <1>2, <1>3, <1>4, ConcatProperties
  <2>2. DOMAIN t = 1..Len(t)
    BY <2>1, LenProperties
  <2>3. QED
    BY <1>1, <1>2, <1>3, <2>1, <2>2
<1>6. \A j \in DOMAIN t : t[j] = IF j < i THEN s[j] ELSE s[j + 1]
  <2> SUFFICES ASSUME NEW j \in 1..(Len(s) - 1)
               PROVE  t[j] = IF j < i THEN s[j] ELSE s[j + 1]
    BY <1>5
  <2>1. t[j] = IF j <= Len(a) THEN a[j] ELSE b[j - Len(a)]
    BY <1>1, <1>2, <1>3, <1>4, ConcatProperties
  <2>2. CASE j < i
    BY <2>1, <2>2, <1>1, <1>2
  <2>3. CASE j >= i
    <3>1. PICK m : m = j - Len(a)
      OBVIOUS
    <3>2. m \in 1..(Len(s) - i) /\ i + m = j + 1 /\ ~(j <= Len(a))
      BY <2>3, <3>1, <1>1, <1>2
    <3>3. t[j] = b[m]
      BY <2>1, <3>1, <3>2
    <3>4. b[m] = s[j + 1]
      BY <3>2, <1>3
    <3>5. ~(j < i)
      BY <2>3, <1>1
    <3>6. QED
      BY <3>3, <3>4, <3>5
  <2>4. QED
    BY <2>2, <2>3, <1>1
<1>7. \A j \in DOMAIN t : \E k \in DOMAIN s : t[j] = s[k]
  BY <1>1, <1>5, <1>6
<1>8. QED
  BY <1>5, <1>6, <1>7

\* Nothing is asked when the form opens.
LEMMA SignInInitially ==
  ASSUME SignIn!SignInInit
  PROVE  SignIn!SignInInvariant
<1>1. \A S : <<>> \in Seq(S)
  BY EmptySeq
<1>2. SignIn!NoFields \in [SignIn!FieldNames -> {"empty", "bad", "good"}]
  BY DEF SignIn!NoFields
<1>3. v9 \in Seq(SignIn!AskedOf) /\ Len(v9) = 0 /\ DOMAIN v9 = {}
  <2>1. v9 = <<>>
    BY DEF SignIn!SignInInit
  <2>2. QED
    BY <1>1, <2>1, EmptySeq, LenProperties
<1>4. SignIn!SentWasChecked /\ SignIn!OneAnswerIsAwaited
  BY <1>3 DEF SignIn!SentWasChecked, SignIn!OneAnswerIsAwaited
<1>5. v8 \in Seq([SignIn!FieldNames -> {"empty", "bad", "good"}])
  BY <1>1 DEF SignIn!SignInInit
<1>6. QED
  BY <1>2, <1>3, <1>4, <1>5 DEF SignIn!SignInInit, SignIn!SignInInvariant

\* Asking the provider for what was checked.
LEMMA ProviderIsAsked ==
  ASSUME SignIn!SignInInvariant, NEW kind \in {"login", "signup", "google", "code"},
         NEW values \in [SignIn!FieldNames -> {"empty", "bad", "good"}], SignIn!AskProvider(kind, values),
         kind \in {"login", "signup"} => SignIn!Invalid(kind, values) = {}
  PROVE  /\ v9' \in Seq(SignIn!AskedOf) /\ SignIn!SentWasChecked' /\ Len(v9') = Len(v9) + 1
         /\ v9 = <<>> => Len(v9') = 1 /\ \A i \in DOMAIN v9' : v9'[i].kind = kind
<1> DEFINE ask == [kind |-> kind, with |-> values]
<1>1. ask \in SignIn!AskedOf /\ ask.kind = kind /\ ask.with = values
  BY DEF SignIn!AskedOf
<1>2. v9' = Append(v9, ask)
  BY DEF SignIn!AskProvider
<1> HIDE DEF ask
<1>3. /\ v9' \in Seq(SignIn!AskedOf) /\ Len(v9') = Len(v9) + 1 /\ v9'[Len(v9) + 1] = ask
      /\ \A i \in 1..Len(v9) : v9'[i] = v9[i]
  BY <1>1, <1>2, AppendProperties DEF SignIn!SignInInvariant
<1>4. \A i \in DOMAIN v9' : i = Len(v9) + 1 \/ i \in DOMAIN v9
  BY <1>3 DEF SignIn!SignInInvariant
<1>5. SignIn!SentWasChecked'
  BY <1>1, <1>3, <1>4 DEF SignIn!SentWasChecked, SignIn!Invalid, SignIn!SignInInvariant
<1>6. QED
  BY <1>1, <1>3, <1>5

\* When nothing keeps the form waiting for a sign-in, nothing is awaited.
LEMMA NothingIsAwaited ==
  ASSUME SignIn!SignInInvariant, v6 = FALSE, v7 = FALSE \/ v2 = "secondFactor", ~v12
  PROVE  v9 = <<>>
<1> USE DEF SignIn!SignInInvariant, SignIn!OneAnswerIsAwaited
<1> SUFFICES ASSUME v9 # <<>>
             PROVE  FALSE
  OBVIOUS
<1>1. Len(v9) \in Nat \ {0} /\ DOMAIN v9 = 1..Len(v9)
  BY EmptySeq, LenProperties
<1>2. 1 \in DOMAIN v9
  BY <1>1
<1>3. QED
  BY <1>2

\* The end of a submit's checks.
LEMMA ProceedKeeps ==
  ASSUME SignIn!SignInInvariant, NEW mode \in {"login", "signup"},
         NEW values \in [SignIn!FieldNames -> {"empty", "bad", "good"}],
         NEW errors, SignIn!Invalid(mode, values) \subseteq errors, SignIn!Proceed(mode, values, errors),
         v8' \in Seq([SignIn!FieldNames -> {"empty", "bad", "good"}]), UNCHANGED <<v1, v2, v3, v7>>
  PROVE  SignIn!SignInInvariant'
<1> USE DEF SignIn!SignInInvariant, SignIn!Proceed, SignIn!OneAnswerIsAwaited
<1>1. CASE errors = {}
  <2>1. /\ v9' \in Seq(SignIn!AskedOf) /\ SignIn!SentWasChecked'
        /\ v9 = <<>> => Len(v9') = 1 /\ \A i \in DOMAIN v9' : v9'[i].kind = mode
    BY <1>1, ProviderIsAsked
  <2>2. v6' = TRUE /\ v12' \in BOOLEAN /\ (~v12' => ~v12 /\ v9 = <<>>)
    BY <1>1
  <2>3. {v6', v7', v12'} \subseteq BOOLEAN
    BY <2>2
  <2>4. ~v12' => SignIn!OneAnswerIsAwaited'
    <3>1. mode # "google"
      OBVIOUS
    <3>2. ASSUME ~v12'
          PROVE  Len(v9') = 1 /\ \A i \in DOMAIN v9' : v9'[i].kind # "google"
      BY <2>1, <2>2, <3>1, <3>2
    <3>7. \A n : n = 1 => n =< 1
      OBVIOUS
    <3>3. ~v12' => Len(v9') =< 1
      BY Zenon, <3>2, <3>7
    <3>4. v6'
      BY Zenon, <2>2
    <3>5. ~v12' => \A i \in DOMAIN v9' : IF v9'[i].kind = "google" THEN v7' /\ v2' \in {"form", "in"} ELSE v6'
      BY Zenon, <3>2, <3>4
    <3>6. QED
      BY Zenon, <3>3, <3>5
  <2>5. v3' \in [SignIn!FieldNames -> {"empty", "bad", "good"}] /\ v1' \in {"login", "signup"}
    OBVIOUS
  <2> HIDE DEF SignIn!Proceed, SignIn!OneAnswerIsAwaited
  <2>6. QED
    BY <2>1, <2>3, <2>4, <2>5
<1>2. CASE errors # {}
  BY <1>2 DEF SignIn!SentWasChecked, SignIn!Invalid
<1>3. QED
  BY <1>1, <1>2

\* An answer takes away what was asked.
LEMMA AnswerTakes ==
  ASSUME SignIn!SignInInvariant, NEW i \in DOMAIN v9, SignIn!SignInAnswer(i)
  PROVE  /\ v9' \in Seq(SignIn!AskedOf) /\ SignIn!SentWasChecked'
         /\ ~v12 => Len(v9') = 0 /\ DOMAIN v9' = {}
         /\ UNCHANGED <<v8, v12>>
<1> USE DEF SignIn!SignInInvariant
<1>1. v9' = SignIn!RemoveAt(v9, i) /\ UNCHANGED <<v8, v12>>
  BY DEF SignIn!SignInAnswer
<1>2. /\ v9' \in Seq(SignIn!AskedOf) /\ Len(v9') = Len(v9) - 1
      /\ \A j \in DOMAIN v9' : \E k \in DOMAIN v9 : v9'[j] = v9[k]
  BY <1>1, SignInRemoveAt
<1>3. SignIn!SentWasChecked'
  BY <1>2 DEF SignIn!SentWasChecked, SignIn!Invalid
<1>4. ~v12 => Len(v9') = 0 /\ DOMAIN v9' = {}
  BY <1>2 DEF SignIn!OneAnswerIsAwaited
<1>5. QED
  BY <1>1, <1>2, <1>3, <1>4

\* A code that is asked for is the only thing asked for, unless an account was meanwhile.
LEMMA CodeIsAsked ==
  ASSUME SignIn!SignInInvariant, v6 = FALSE, v2 = "secondFactor", NEW typed, SignIn!VerifyCode(typed),
         UNCHANGED <<v1, v2, v3, v7, v8, v12>>
  PROVE  SignIn!SignInInvariant'
<1> USE DEF SignIn!SignInInvariant, SignIn!OneAnswerIsAwaited, SignIn!VerifyCode
<1>1. v6' \in BOOLEAN
  OBVIOUS
<1>2. CASE typed = CodeLength
  <2>1. SignIn!AskProvider("code", v3)
    BY <1>2 DEF SignIn!AskProvider
  <2>2. /\ v9' \in Seq(SignIn!AskedOf) /\ SignIn!SentWasChecked'
        /\ v9 = <<>> => Len(v9') = 1 /\ \A i \in DOMAIN v9' : v9'[i].kind = "code"
    BY <2>1, ProviderIsAsked
  <2>3. ~v12 => v9 = <<>>
    BY NothingIsAwaited
  <2>4. v6' = TRUE
    BY <1>2
  <2>5. QED
    BY <1>1, <2>2, <2>3, <2>4
<1>3. CASE typed # CodeLength
  BY <1>1, <1>3 DEF SignIn!SentWasChecked, SignIn!Invalid
<1>4. QED
  BY <1>2, <1>3

\* Every step of the forms and the provider keeps the invariant.
LEMMA SignInStep ==
  ASSUME SignIn!SignInInvariant, [SignIn!SignInNext]_(SignIn!signInVars)
  PROVE  SignIn!SignInInvariant'
<1> USE DEF SignIn!SignInInvariant, SignIn!OneAnswerIsAwaited
<1>1. ASSUME UNCHANGED <<v6, v7, v9, v12>>, v2' = v2 \/ (v2 # "form" /\ v2' = "form"),
             v8' \in Seq([SignIn!FieldNames -> {"empty", "bad", "good"}]),
             v3' \in [SignIn!FieldNames -> {"empty", "bad", "good"}], v1' \in {"login", "signup"}
      PROVE  SignIn!SignInInvariant'
  BY <1>1 DEF SignIn!SentWasChecked, SignIn!Invalid
<1>2. CASE UNCHANGED SignIn!signInVars
  BY <1>1, <1>2 DEF SignIn!signInVars
<1>3. ASSUME NEW field \in SignIn!FieldNames, NEW value \in {"empty", "bad", "good"}, SignIn!Edit(field, value)
      PROVE  SignIn!SignInInvariant'
  BY <1>1, <1>3 DEF SignIn!Edit
<1>4. CASE SignIn!SwitchMode
  BY <1>1, <1>4 DEF SignIn!SwitchMode
<1>5. CASE SignIn!SubmitSignUp
  <2>1. v8' \in Seq([SignIn!FieldNames -> {"empty", "bad", "good"}])
    BY <1>5, AppendProperties DEF SignIn!SubmitSignUp
  <2>2. QED
    BY <1>1, <1>5, <2>1 DEF SignIn!SubmitSignUp
<1>6. CASE SignIn!HandleSubmit
  BY <1>6, ProceedKeeps DEF SignIn!HandleSubmit
<1>7. CASE SignIn!HandleGoogle
  <2>1. v6 = FALSE /\ v7 = FALSE /\ v2 = "form" /\ SignIn!AskProvider("google", v3) /\ v7' = TRUE
        /\ UNCHANGED <<v1, v2, v3, v6, v8, v12>>
    BY <1>7 DEF SignIn!HandleGoogle, SignIn!SubmitIsOffered, SignIn!IsBusy
  <2>2. /\ v9' \in Seq(SignIn!AskedOf) /\ SignIn!SentWasChecked'
        /\ v9 = <<>> => Len(v9') = 1 /\ \A i \in DOMAIN v9' : v9'[i].kind = "google"
    BY <2>1, ProviderIsAsked
  <2>3. ~v12 => v9 = <<>>
    BY <2>1, NothingIsAwaited
  <2>4. QED
    BY <2>1, <2>2, <2>3
<1>8. ASSUME NEW i \in DOMAIN v8, NEW problem \in BOOLEAN, SignIn!PolicyAnswered(i, problem)
      PROVE  SignIn!SignInInvariant'
  <2>1. v8[i] \in [SignIn!FieldNames -> {"empty", "bad", "good"}]
    OBVIOUS
  <2>2. v8' \in Seq([SignIn!FieldNames -> {"empty", "bad", "good"}])
    BY <1>8, SignInRemoveAt DEF SignIn!PolicyAnswered
  <2>3. QED
    BY <1>8, <2>1, <2>2, ProceedKeeps DEF SignIn!PolicyAnswered, SignIn!Submitted
<1>9. ASSUME NEW typed \in 0..CodeLength, SignIn!TypeCode(typed)
      PROVE  SignIn!SignInInvariant'
  <2>1. CASE SignIn!VerifyCode(typed)
    BY <1>9, <2>1, CodeIsAsked DEF SignIn!TypeCode
  <2>2. CASE UNCHANGED <<v6, v9>>
    BY <1>1, <1>9, <2>2 DEF SignIn!TypeCode
  <2>3. QED
    BY <1>9, <2>1, <2>2 DEF SignIn!TypeCode
<1>10. CASE SignIn!SubmitCode
  BY <1>10, CodeIsAsked DEF SignIn!SubmitCode, SignIn!MayVerify
<1>11. CASE SignIn!BackToTheForm
  BY <1>1, <1>11 DEF SignIn!BackToTheForm
<1>12. ASSUME NEW i \in DOMAIN v9, \/ SignIn!SignedIn(i) \/ SignIn!AccountMade(i) \/ SignIn!Refused(i)
                                   \/ \E next \in {"secondFactor", "checkInbox"} : SignIn!WantsMore(i, next)
       PROVE  SignIn!SignInInvariant'
  <2>1. SignIn!SignInAnswer(i)
    BY <1>12 DEF SignIn!SignedIn, SignIn!AccountMade, SignIn!Refused, SignIn!WantsMore
  <2>2. v1' = v1 /\ v3' \in [SignIn!FieldNames -> {"empty", "bad", "good"}] /\ v6' \in BOOLEAN /\ v7' \in BOOLEAN
    BY <1>12 DEF SignIn!SignedIn, SignIn!AccountMade, SignIn!Refused, SignIn!WantsMore
  <2>3. QED
    BY <2>1, <2>2, AnswerTakes
<1>13. QED
  BY <1>2, <1>3, <1>4, <1>5, <1>6, <1>7, <1>8, <1>9, <1>10, <1>11, <1>12 DEF SignIn!SignInNext

\* What the invariant says of the codes asked about.
LEMMA OneCode ==
  ASSUME SignIn!SignInInvariant
  PROVE  SignIn!OneCodeAtATime
<1>1. Len(v9) \in Nat /\ DOMAIN v9 = 1..Len(v9)
  BY LenProperties DEF SignIn!SignInInvariant
<1>2. ~v12 => Len(v9) =< 1
  BY Zenon DEF SignIn!SignInInvariant, SignIn!OneAnswerIsAwaited
<1>3. Len(v9) =< 1 => \A i, j \in DOMAIN v9 : i = j
  BY <1>1
<1>4. QED
  BY Zenon, <1>2, <1>3 DEF SignIn!OneCodeAtATime

-----------------------------------------------------------------------------
(* Sharing: whom the owner was told is off the project is. *)
Share == INSTANCE Sharing WITH memberRoles <- v1, invited <- v2,
  inviteIds <- v3, dialog <- v4, peopleReads <- v5, ownerAsks <- v6,
  asksMade <- v7, inbox <- v8, told <- v9

\* Nobody was asked for anything, or told anything, when the dialog is first read.
LEMMA ShareInitially ==
  ASSUME Share!ShareInit
  PROVE  Share!ShareInvariant
BY DEF Share!ShareInit, Share!ShareInvariant, Share!AskedBackIsKnown, Share!DoneIsOff, Share!ToldAreNotAsked,
       Share!IsOff, Share!NoOneThere

\* A request that is made.
LEMMA RequestMade ==
  ASSUME NEW q, q = [f \in DOMAIN q |-> q[f]], {"kind", "of"} \subseteq DOMAIN q,
         "stage" \notin DOMAIN q, "again" \notin DOMAIN q,
         NEW again \in BOOLEAN, NEW b, b = Share!With(Share!With(q, "stage", "sent"), "again", again)
  PROVE  Share!Asks(b) /\ b.kind = q.kind /\ b.of = q.of /\ b.stage = "sent" /\ b.again = again
<1> DEFINE c == Share!With(q, "stage", "sent")
<1>1. /\ DOMAIN c = DOMAIN q \cup {"stage"} /\ c["kind"] = q["kind"] /\ c["of"] = q["of"] /\ c["stage"] = "sent"
  BY DEF Share!With
<1>2. /\ b = [f \in DOMAIN c \cup {"again"} |-> IF f = "again" THEN again ELSE c[f]]
  BY DEF Share!With
<1> HIDE DEF c
<1>3. /\ DOMAIN b = DOMAIN q \cup {"stage", "again"}
      /\ b["kind"] = q["kind"] /\ b["of"] = q["of"] /\ b["stage"] = "sent" /\ b["again"] = again
      /\ b = [f \in DOMAIN b |-> b[f]]
  BY <1>1, <1>2
<1>4. QED
  BY <1>3 DEF Share!Asks

\* A request that is on its way while the person is, or is not, asked back.
LEMMA AskedBack ==
  ASSUME NEW a, Share!Asks(a), NEW back \in BOOLEAN, NEW b, b = [a EXCEPT !.again = @ \/ back]
  PROVE  Share!Asks(b) /\ b.kind = a.kind /\ b.of = a.of /\ b.stage = a.stage /\ b.again = (a.again \/ back)
BY DEF Share!Asks

\* A request that the server has answered.
LEMMA AskAnswered ==
  ASSUME NEW a, Share!Asks(a), NEW stage, NEW b, b = [a EXCEPT !.stage = stage]
  PROVE  Share!Asks(b) /\ b.kind = a.kind /\ b.of = a.of /\ b.again = a.again /\ b.stage = stage
BY DEF Share!Asks

\* The owner may make any request, as long as whom it asks back is not among those they were told are off.
LEMMA OwnerAsksKeeps ==
  ASSUME Share!ShareInvariant, NEW q, q = [f \in DOMAIN q |-> q[f]], {"kind", "of"} \subseteq DOMAIN q,
         "stage" \notin DOMAIN q, "again" \notin DOMAIN q,
         Share!OwnerAsks(q), UNCHANGED <<v1, v2>>, v9' \subseteq v9, q.kind = "invite" => q.of \notin v9'
  PROVE  Share!ShareInvariant'
<1> USE DEF Share!ShareInvariant
<1> DEFINE back(a) == q.kind = "invite" /\ a.of = q.of
           again == \E a \in v6 : a.kind = "invite" /\ a.of = q.of
           old(a) == [a EXCEPT !.again = @ \/ back(a)]
           new == Share!With(Share!With(q, "stage", "sent"), "again", again)
<1>1. v6' = {old(a) : a \in v6} \cup {new}
  BY DEF Share!OwnerAsks
<1>2. PICK b : b = new
  BY Zenon
<1>3. Share!Asks(b) /\ b.kind = q.kind /\ b.of = q.of /\ b.stage = "sent" /\ b.again = again
  <2>1. again \in BOOLEAN
    OBVIOUS
  <2> HIDE DEF again
  <2>2. QED
    BY <1>2, <2>1, RequestMade
<1>4. ASSUME NEW a \in v6, NEW c, c = old(a)
      PROVE  Share!Asks(c) /\ c.kind = a.kind /\ c.of = a.of /\ c.stage = a.stage /\ c.again = (a.again \/ back(a))
  <2>1. back(a) \in BOOLEAN
    OBVIOUS
  <2>2. c = [a EXCEPT !.again = @ \/ back(a)] /\ Share!Asks(a)
    BY <1>4
  <2> HIDE DEF back
  <2>3. QED
    BY <2>1, <2>2, AskedBack
<1> DEFINE Came(c) == \E a \in v6 : /\ c.kind = a.kind /\ c.of = a.of /\ c.stage = a.stage /\ Share!Asks(c)
                                   /\ c.again = (a.again \/ back(a))
<1>5. \A c \in v6' : c = b \/ Came(c)
  <2> HIDE DEF back, again, new
  <2>1. \A c : (\E a \in v6 : c = old(a)) => Came(c)
    <3> SUFFICES ASSUME NEW c, NEW a \in v6, c = old(a)
                 PROVE  Came(c)
      OBVIOUS
    <3> HIDE DEF old
    <3>1. QED
      BY <1>4
  <2> HIDE DEF old, Came
  <2>2. QED
    BY <1>1, <1>2, <2>1
<1> HIDE DEF old, new
<1>6. \A c \in v6' : Share!Asks(c)
  BY <1>3, <1>5
<1>7. Share!AskedBackIsKnown'
  <2> SUFFICES ASSUME NEW c \in v6', NEW d \in v6', Share!TakesOff(c), d.kind = "invite", d.of = c.of
               PROVE  c.again
    BY DEF Share!AskedBackIsKnown, Share!TakesOff
  <2>1. CASE c = b
    <3>1. d # b
      BY <2>1, <1>3 DEF Share!TakesOff
    <3>2. QED
      BY <2>1, <3>1, <1>3, <1>5
  <2>2. CASE Came(c)
    <3>1. CASE d = b
      BY Zenon, <2>2, <3>1, <1>3
    <3>2. CASE Came(d)
      BY Zenon, <2>2, <3>2 DEF Share!AskedBackIsKnown, Share!TakesOff
    <3>3. QED
      BY <3>1, <3>2, <1>5
  <2>3. QED
    BY <2>1, <2>2, <1>5
<1>8. Share!DoneIsOff'
  BY Zenon, <1>3, <1>5 DEF Share!DoneIsOff, Share!TakesOff, Share!IsOff
<1>9. Share!ToldAreNotAsked'
  BY <1>3, <1>5 DEF Share!ToldAreNotAsked, Share!IsOff
<1>10. QED
  BY <1>6, <1>7, <1>8, <1>9

\* The server keeps what a request says true: only an invitation brings somebody back.
LEMMA ServerKeeps ==
  ASSUME Share!ShareInvariant, Share!ServerAnswersAsk
  PROVE  Share!ShareInvariant'
<1> USE DEF Share!ShareInvariant
<1>1. PICK a \in v6 :
        /\ IF Share!NamesWhatIs(a)
           THEN Share!InviteMember(a) \/ Share!UpdateMemberRole(a) \/ Share!RemoveProjectMember(a) \/ Share!WithdrawInvite(a)
           ELSE UNCHANGED <<v1, v2, v3>>
        /\ v6' = (v6 \ {a}) \cup {[a EXCEPT !.stage = IF Share!NamesWhatIs(a) THEN "done" ELSE "refused"]}
        /\ v9' = v9
  BY DEF Share!ServerAnswersAsk
<1>2. PICK b : b = [a EXCEPT !.stage = IF Share!NamesWhatIs(a) THEN "done" ELSE "refused"]
  BY Zenon
<1>3. /\ Share!Asks(b) /\ b.kind = a.kind /\ b.of = a.of /\ b.again = a.again
      /\ b.stage = "done" => Share!NamesWhatIs(a)
  BY <1>2, AskAnswered
<1>4. v6' = (v6 \ {a}) \cup {b}
  BY <1>1, <1>2
<1>5. /\ DOMAIN v1' \cap DOMAIN v2' = {}
      /\ \A p : Share!IsOff(p) /\ (a.kind = "invite" => a.of # p) => Share!IsOff(p)'
      /\ Share!NamesWhatIs(a) /\ Share!TakesOff(a) => Share!IsOff(a.of)'
  <2>1. CASE ~Share!NamesWhatIs(a)
    BY <1>1, <2>1 DEF Share!IsOff
  <2>2. CASE Share!NamesWhatIs(a) /\ Share!InviteMember(a)
    <3>1. DOMAIN v2' = DOMAIN v2 \cup {a.of} /\ v1' = v1 /\ a.kind = "invite"
      BY <2>2 DEF Share!InviteMember, Share!With
    <3>2. a.of \notin DOMAIN v1
      BY <2>2, <3>1 DEF Share!NamesWhatIs
    <3>3. QED
      BY <3>1, <3>2 DEF Share!IsOff, Share!TakesOff
  <2>3. CASE Share!NamesWhatIs(a) /\ Share!UpdateMemberRole(a)
    BY <2>3 DEF Share!UpdateMemberRole, Share!IsOff, Share!TakesOff
  <2>4. CASE Share!NamesWhatIs(a) /\ Share!RemoveProjectMember(a)
    <3>1. DOMAIN v1' = DOMAIN v1 \ {a.of} /\ v2' = v2 /\ a.kind = "remove"
      BY <2>4 DEF Share!RemoveProjectMember, Share!Without
    <3>2. a.of \in DOMAIN v1
      BY <2>4, <3>1 DEF Share!NamesWhatIs
    <3>3. QED
      BY <3>1, <3>2 DEF Share!IsOff
  <2>5. CASE Share!NamesWhatIs(a) /\ Share!WithdrawInvite(a)
    <3>1. DOMAIN v2' = DOMAIN v2 \ {a.of} /\ v1' = v1 /\ a.kind = "withdraw"
      BY <2>5 DEF Share!WithdrawInvite, Share!Without
    <3>2. a.of \in DOMAIN v2
      BY <2>5, <3>1 DEF Share!NamesWhatIs
    <3>3. QED
      BY <3>1, <3>2 DEF Share!IsOff
  <2>6. QED
    BY <1>1, <2>1, <2>2, <2>3, <2>4, <2>5
<1>6. \A c \in v6' : \E d \in v6 :
        /\ Share!Asks(c) /\ c.kind = d.kind /\ c.of = d.of /\ c.again = d.again
        /\ c = d \/ (d = a /\ (c.stage = "done" => Share!NamesWhatIs(a)))
  <2> SUFFICES ASSUME NEW c \in v6'
               PROVE  \E d \in v6 :
                        /\ Share!Asks(c) /\ c.kind = d.kind /\ c.of = d.of /\ c.again = d.again
                        /\ c = d \/ (d = a /\ (c.stage = "done" => Share!NamesWhatIs(a)))
    OBVIOUS
  <2>1. CASE c = b
    BY <2>1, <1>3
  <2>2. CASE c \in v6
    <3>1. Share!Asks(c)
      BY <2>2
    <3>2. WITNESS c \in v6
    <3>3. QED
      BY <3>1
  <2>3. QED
    BY <2>1, <2>2, <1>4
<1>7. Share!AskedBackIsKnown'
  BY <1>6 DEF Share!AskedBackIsKnown, Share!TakesOff
<1>8. Share!DoneIsOff'
  <2> SUFFICES ASSUME NEW c \in v6', Share!TakesOff(c), c.stage = "done", ~c.again
               PROVE  Share!IsOff(c.of)'
    BY DEF Share!DoneIsOff, Share!TakesOff
  <2>1. PICK d \in v6 : /\ c.kind = d.kind /\ c.of = d.of /\ c.again = d.again
                        /\ c = d \/ (d = a /\ (c.stage = "done" => Share!NamesWhatIs(a)))
    BY <1>6
  <2>2. CASE c = d
    <3>1. Share!IsOff(c.of)
      BY <2>2 DEF Share!DoneIsOff
    <3>2. a.kind = "invite" => a.of # c.of
      BY <2>1 DEF Share!AskedBackIsKnown, Share!TakesOff
    <3>3. QED
      BY <1>5, <3>1, <3>2
  <2>3. CASE d = a /\ Share!NamesWhatIs(a)
    BY <1>5, <2>1, <2>3 DEF Share!TakesOff
  <2>4. QED
    BY <2>1, <2>2, <2>3
<1>9. Share!ToldAreNotAsked'
  <2> SUFFICES ASSUME NEW p \in v9
               PROVE  Share!IsOff(p)' /\ \A c \in v6' : c.kind = "invite" => c.of # p
    BY <1>1 DEF Share!ToldAreNotAsked
  <2>1. Share!IsOff(p) /\ \A c \in v6 : c.kind = "invite" => c.of # p
    BY DEF Share!ToldAreNotAsked
  <2>2. QED
    BY <2>1, <1>5, <1>6
<1>10. QED
  BY <1>5, <1>6, <1>7, <1>8, <1>9

\* Every step of the dialog, the dashboards and the server keeps the invariant.
LEMMA ShareStep ==
  ASSUME Share!ShareInvariant, [Share!ShareNext]_(Share!shareVars)
  PROVE  Share!ShareInvariant'
<1> DEFINE Calm == UNCHANGED <<v1, v2, v6, v9>>
<1>1. ASSUME Calm PROVE Share!ShareInvariant'
  BY <1>1 DEF Share!ShareInvariant, Share!AskedBackIsKnown, Share!DoneIsOff, Share!ToldAreNotAsked, Share!IsOff
<1>2. CASE UNCHANGED Share!shareVars
  BY <1>1, <1>2 DEF Share!shareVars
<1>3. CASE Share!HandleInvite
  <2>1. PICK p, r : /\ Share!OwnerAsks([kind |-> "invite", of |-> p, role |-> r])
                    /\ v9' = v9 \ {p} /\ UNCHANGED <<v1, v2>>
    BY Zenon, <1>3 DEF Share!HandleInvite
  <2>2. PICK q : q = [kind |-> "invite", of |-> p, role |-> r]
    BY Zenon
  <2>3. QED
    BY <2>1, <2>2, OwnerAsksKeeps
<1>4. CASE Share!HandleRoleChange
  <2>1. PICK p, r : /\ Share!OwnerAsks([kind |-> "role", of |-> p, role |-> r, previous |-> v4.people])
                    /\ UNCHANGED <<v1, v2, v9>>
    BY Zenon, <1>4 DEF Share!HandleRoleChange
  <2>2. PICK q : q = [kind |-> "role", of |-> p, role |-> r, previous |-> v4.people]
    BY Zenon
  <2>3. QED
    BY <2>1, <2>2, OwnerAsksKeeps
<1>5. CASE Share!HandleRemoveMember
  <2>1. PICK p : /\ Share!OwnerAsks([kind |-> "remove", of |-> p])
                 /\ UNCHANGED <<v1, v2, v9>>
    BY Zenon, <1>5 DEF Share!HandleRemoveMember
  <2>2. PICK q : q = [kind |-> "remove", of |-> p]
    BY Zenon
  <2>3. QED
    BY <2>1, <2>2, OwnerAsksKeeps
<1>6. CASE Share!HandleWithdraw
  <2>1. PICK p : /\ Share!OwnerAsks([kind |-> "withdraw", of |-> p, id |-> v4.invites[p].id])
                 /\ UNCHANGED <<v1, v2, v9>>
    BY <1>6 DEF Share!HandleWithdraw
  <2>2. PICK q : q = [kind |-> "withdraw", of |-> p, id |-> v4.invites[p].id]
    BY Zenon
  <2>3. QED
    BY <2>1, <2>2, OwnerAsksKeeps
<1>7. CASE Share!ServerAnswersAsk
  BY <1>7, ServerKeeps
<1>8. CASE Share!OwnerAskAnswered
  <2>1. PICK a \in v6, lost \in BOOLEAN :
          /\ v6' = v6 \ {a} /\ UNCHANGED <<v1, v2>>
          /\ \/ v9' = v9
             \/ v9' = v9 \cup {a.of} /\ Share!TakesOff(a) /\ Share!Succeeded(a, lost) /\ ~a.again
    <3>1. PICK a \in v6, lost \in BOOLEAN :
            /\ LET ok == Share!Succeeded(a, lost)
               IN \/ Share!InviteAnswered(a, ok) \/ Share!RoleAnswered(a, ok)
                  \/ Share!RemoveAnswered(a, ok) \/ Share!WithdrawAnswered(a, ok)
            /\ v6' = v6 \ {a} /\ UNCHANGED <<v1, v2>>
      BY <1>8 DEF Share!OwnerAskAnswered
    <3>2. v9' = v9 \/ (Share!TakesOff(a) /\ Share!NowOff(a, Share!Succeeded(a, lost)))
      <4> DEFINE ok == Share!Succeeded(a, lost)
      <4> HIDE DEF ok
      <4>1. CASE Share!InviteAnswered(a, ok)
        BY <4>1 DEF Share!InviteAnswered
      <4>2. CASE Share!RoleAnswered(a, ok)
        BY <4>2 DEF Share!RoleAnswered
      <4>3. CASE Share!RemoveAnswered(a, ok)
        BY <4>3 DEF Share!RemoveAnswered, Share!TakesOff, ok
      <4>4. CASE Share!WithdrawAnswered(a, ok)
        BY <4>4 DEF Share!WithdrawAnswered, Share!TakesOff, ok
      <4>5. QED
        BY <3>1, <4>1, <4>2, <4>3, <4>4 DEF ok
    <3>3. CASE v9' = v9
      BY <3>1, <3>3
    <3>4. CASE Share!TakesOff(a) /\ Share!NowOff(a, Share!Succeeded(a, lost))
      <4>1. v9' = IF Share!Succeeded(a, lost) /\ ~a.again THEN v9 \cup {a.of} ELSE v9
        BY <3>4 DEF Share!NowOff
      <4>2. QED
        BY <3>1, <3>4, <4>1
    <3>5. QED
      BY <3>2, <3>3, <3>4
  <2>2. CASE v9' = v9
    BY <2>1, <2>2 DEF Share!ShareInvariant, Share!AskedBackIsKnown, Share!DoneIsOff, Share!ToldAreNotAsked, Share!IsOff
  <2>3. CASE v9' = v9 \cup {a.of} /\ Share!TakesOff(a) /\ Share!Succeeded(a, lost) /\ ~a.again
    <3>1. Share!IsOff(a.of) /\ \A b \in v6 : b.kind = "invite" => b.of # a.of
      BY <2>3 DEF Share!ShareInvariant, Share!AskedBackIsKnown, Share!DoneIsOff, Share!Succeeded
    <3>2. QED
      BY <2>1, <2>3, <3>1
      DEF Share!ShareInvariant, Share!AskedBackIsKnown, Share!DoneIsOff, Share!ToldAreNotAsked, Share!IsOff
  <2>4. QED
    BY <2>1, <2>2, <2>3
<1>9. CASE Share!AcceptInvite \/ Share!DeclineInvite
  <2>1. /\ DOMAIN v1' \cap DOMAIN v2' = {} /\ UNCHANGED <<v6, v9>>
        /\ \A p : Share!IsOff(p) => Share!IsOff(p)'
    <3>1. CASE Share!DeclineInvite
      BY <3>1 DEF Share!DeclineInvite, Share!Without, Share!IsOff, Share!ShareInvariant
    <3>2. CASE Share!AcceptInvite
      <4>1. PICK g \in Guests :
              \/ UNCHANGED <<v1, v2>>
              \/ /\ g \in DOMAIN v2
                 /\ v1' = v1 \/ v1' = Share!With(v1, g, v8[g].invitation.role)
                 /\ v2' = Share!Without(v2, {g})
        BY <3>2 DEF Share!AcceptInvite, Share!RowIsThere
      <4>2. QED
        BY <3>2, <4>1 DEF Share!AcceptInvite, Share!With, Share!Without, Share!IsOff, Share!ShareInvariant
    <3>3. QED
      BY <1>9, <3>1, <3>2
  <2>2. QED
    BY <2>1 DEF Share!ShareInvariant, Share!AskedBackIsKnown, Share!DoneIsOff, Share!ToldAreNotAsked
<1>10. CASE \/ Share!ToggleDialog \/ Share!ServerListsPeople \/ Share!PeopleArrive \/ Share!PeopleFail
            \/ Share!AskToRemove \/ Share!CancelRemove \/ Share!ReadInvitations \/ Share!AnswerInvitation
            \/ Share!FindInvitation \/ Share!AnswerReturns \/ Share!BackToDashboard
  <2>1. Calm
    BY Zenon, <1>10 DEF Share!ToggleDialog, Share!ServerListsPeople, Share!PeopleArrive, Share!PeopleFail,
                 Share!AskToRemove, Share!CancelRemove, Share!ReadInvitations, Share!AnswerInvitation,
                 Share!FindInvitation, Share!AnswerReturns, Share!BackToDashboard
  <2>2. QED
    BY <1>1, <2>1
<1>11. QED
  BY <1>2, <1>3, <1>4, <1>5, <1>6, <1>7, <1>8, <1>9, <1>10 DEF Share!ShareNext

-----------------------------------------------------------------------------
(* IdeaInterview: answers are for the idea as it reads. *)
Idea == INSTANCE IdeaInterview WITH interview <- v1, lastId <- v2,
  ideaAsks <- v3, home <- v4, creations <- v5, opened <- v6, keptIdea <- v7,
  visitor <- v8

\* A page that was just opened waits for nothing.
LEMMA HomeFits ==
  ASSUME NEW at, NEW i
  PROVE  Idea!WaitFits(i, Idea!Home(at)) /\ Idea!WaitFits(i, Idea!TakePendingIdea(Idea!Home(at)))
<1> DEFINE h == Idea!Home(at)
<1>1. h = [at |-> at, prompt |-> NoIdea, creating |-> "no", blocked |-> FALSE, timer |-> FALSE, own |-> FALSE]
  BY DEF Idea!Home
<1> HIDE DEF h
<1>2. Idea!WaitFits(i, h)
  BY <1>1 DEF Idea!WaitFits
<1>3. PICK k : k = [h EXCEPT !.prompt = v7.text]
  OBVIOUS
<1>4. k = [at |-> at, prompt |-> v7.text, creating |-> "no", blocked |-> FALSE, timer |-> FALSE, own |-> FALSE]
  BY <1>1, <1>3
<1>5. Idea!WaitFits(i, k)
  BY <1>4 DEF Idea!WaitFits
<1>6. QED
  BY <1>2, <1>3, <1>5 DEF Idea!TakePendingIdea, h

\* There is no interview, nor anything asked for, when the landing page opens.
LEMMA IdeaInitially ==
  ASSUME Idea!IdeaInit
  PROVE  Idea!IdeaInvariant
BY HomeFits DEF Idea!IdeaInit, Idea!IdeaInvariant

\* An interview that goes on with the same id and the same idea.
LEMMA InterviewGoesOn ==
  ASSUME Idea!IdeaInvariant, NEW j, Idea!InterviewFits(j), j.id = v1.id, v1 # Idea!NoInterview,
         \A a \in v3' : Idea!AskFits(a, j),
         v3' \subseteq v3, v1' = j, Idea!WaitFits(j, v4'), UNCHANGED <<v2, v5, v6>>
  PROVE  Idea!IdeaInvariant'
BY DEF Idea!IdeaInvariant, Idea!InterviewFits, Idea!AskFits, Idea!WaitFits, Idea!CreationFits, Idea!NoAnswers

\* An interview that is dropped.
LEMMA InterviewIsDropped ==
  ASSUME Idea!IdeaInvariant, v1' = Idea!NoInterview, v3' \subseteq v3, Idea!WaitFits(Idea!NoInterview, v4'),
         \A c \in v5' \cup v6' : Idea!CreationFits(c), v2' = v2
  PROVE  Idea!IdeaInvariant'
BY DEF Idea!IdeaInvariant, Idea!WaitFits, Idea!CreationFits, Idea!NoInterview

\* Creations that are still those of their ideas, while the interview stays as it is.
LEMMA CreationsGoOn ==
  ASSUME Idea!IdeaInvariant, UNCHANGED <<v1, v2, v3>>, Idea!WaitFits(v1, v4'),
         \A c \in v5' \cup v6' : Idea!CreationFits(c)
  PROVE  Idea!IdeaInvariant'
BY DEF Idea!IdeaInvariant, Idea!InterviewFits, Idea!AskFits, Idea!WaitFits, Idea!CreationFits, Idea!NoInterview,
       Idea!NoAnswers

\* A creation that goes on, or that the page no longer draws.
LEMMA CreationGoesOn ==
  ASSUME NEW c, Idea!CreationFits(c), NEW stage, NEW shown, NEW d
  PROVE  /\ d = [c EXCEPT !.shown = shown] => Idea!CreationFits(d)
         /\ d = [c EXCEPT !.stage = stage] => Idea!CreationFits(d)
         /\ d = [c EXCEPT !.stage = stage, !.shown = shown] => Idea!CreationFits(d)
<1> USE DEF Idea!CreationFits
<1>1. ASSUME d = [c EXCEPT !.shown = shown] PROVE Idea!CreationFits(d)
  <2>1. d = [description |-> c.description, message |-> c.message, stage |-> c.stage, shown |-> shown]
    BY <1>1
  <2>2. QED
    BY <2>1
<1>2. ASSUME d = [c EXCEPT !.stage = stage] PROVE Idea!CreationFits(d)
  <2>1. d = [description |-> c.description, message |-> c.message, stage |-> stage, shown |-> c.shown]
    BY <1>2
  <2>2. QED
    BY <2>1
<1>3. ASSUME d = [c EXCEPT !.stage = stage, !.shown = shown] PROVE Idea!CreationFits(d)
  <2>1. d = [description |-> c.description, message |-> c.message, stage |-> stage, shown |-> shown]
    BY <1>3
  <2>2. QED
    BY <2>1
<1>4. QED
  BY <1>1, <1>2, <1>3

\* What the page still draws of the creations it leaves is of their ideas.
LEMMA CreationsAreLeft ==
  ASSUME NEW S, \A c \in S : Idea!CreationFits(c)
  PROVE  \A d \in {[c EXCEPT !.shown = FALSE] : c \in S} : Idea!CreationFits(d)
BY CreationGoesOn

\* A project is asked for with a message that is of its idea.
LEMMA CreateKeeps ==
  ASSUME Idea!IdeaInvariant, NEW page, NEW i, Idea!WaitFits(i, page), NEW description, NEW message,
         message.idea = description, Idea!CreateProject(page, description, message),
         v3' \subseteq v3, UNCHANGED <<v2, v6>>
  PROVE  Idea!IdeaInvariant'
<1>1. v4' = [page EXCEPT !.creating = "asked", !.timer = FALSE, !.own = FALSE]
  BY DEF Idea!CreateProject
<1>2. v4' = [at |-> page.at, prompt |-> page.prompt, creating |-> "asked", blocked |-> page.blocked,
             timer |-> FALSE, own |-> FALSE]
  BY <1>1 DEF Idea!WaitFits
<1>3. Idea!WaitFits(Idea!NoInterview, v4')
  BY <1>2 DEF Idea!WaitFits
<1>4. Idea!CreationFits(Idea!Creation(description, message))
  BY DEF Idea!CreationFits, Idea!Creation
<1>5. \A c \in v5' \cup v6' : Idea!CreationFits(c)
  BY <1>4 DEF Idea!CreateProject, Idea!IdeaInvariant
<1>6. QED
  BY <1>3, <1>5, InterviewIsDropped DEF Idea!CreateProject

\* An outcome is handed to the page, or waits in the interview.
LEMMA PublishKeeps ==
  ASSUME Idea!IdeaInvariant, NEW i, NEW page, Idea!WaitFits(i, page), Idea!Publish(i, page),
         i # Idea!NoInterview => /\ v1 # Idea!NoInterview /\ i.id = v1.id /\ Idea!InterviewFits(i)
                                 /\ \A a \in v3' : Idea!AskFits(a, i),
         v3' \subseteq v3, UNCHANGED <<v2, v6>>
  PROVE  Idea!IdeaInvariant'
<1>1. CASE i # Idea!NoInterview /\ i.outcome.kind = "build" /\ Idea!CreateProject(page, i.idea, i.outcome.message)
  <2>1. i.outcome.message.idea = i.idea
    BY <1>1 DEF Idea!InterviewFits
  <2>2. QED
    BY <1>1, <2>1, CreateKeeps
<1>2. CASE v1' = Idea!NoInterview /\ v4' = [page EXCEPT !.blocked = TRUE, !.timer = FALSE, !.own = FALSE] /\ v5' = v5
  <2>1. v4' = [at |-> page.at, prompt |-> page.prompt, creating |-> page.creating, blocked |-> TRUE,
               timer |-> FALSE, own |-> FALSE]
    BY <1>2 DEF Idea!WaitFits
  <2>2. Idea!WaitFits(Idea!NoInterview, v4')
    BY <2>1 DEF Idea!WaitFits
  <2>3. QED
    BY <1>2, <2>2, InterviewIsDropped DEF Idea!IdeaInvariant
<1>3. CASE v1' = i /\ v4' = page /\ v5' = v5
  <2>1. CASE i = Idea!NoInterview
    BY <1>3, <2>1, InterviewIsDropped DEF Idea!IdeaInvariant
  <2>2. CASE i # Idea!NoInterview
    BY <1>3, <2>2, InterviewGoesOn
  <2>3. QED
    BY <2>1, <2>2
<1>4. QED
  BY <1>1, <1>2, <1>3 DEF Idea!Publish, Idea!IsFresh

\* Questions that arrive are of the interview's idea, as is the message that needs none.
LEMMA QuestionsKeep ==
  ASSUME Idea!IdeaInvariant, Idea!QuestionsArrive
  PROVE  Idea!IdeaInvariant'
<1>1. PICK a \in v3, n \in 0..MaxQuestions, answer \in {"tailored", "general", "quota", "failed"} :
        /\ a.kind = "questions" /\ v3' = v3 \ {a} /\ UNCHANGED <<v2, v6>>
        /\ Idea!Update(a.id,
             CASE answer = "quota" -> [v1 EXCEPT !.loading = FALSE, !.outcome = Idea!Spent]
               [] answer = "tailored" /\ n = 0 ->
                    [v1 EXCEPT !.loading = FALSE, !.outcome = Idea!BuildsFrom(Idea!Plain(a.idea))]
               [] OTHER -> [v1 EXCEPT !.loading = FALSE, !.asked = n, !.tailored = (answer = "tailored"),
                                      !.askedOf = IF answer = "tailored" THEN a.idea ELSE NoIdea])
  BY ZenonT(60) DEF Idea!QuestionsArrive
<1>2. CASE ~Idea!Mine(a.id)
  BY <1>1, <1>2 DEF Idea!Update, Idea!IdeaInvariant, Idea!InterviewFits, Idea!AskFits, Idea!WaitFits,
     Idea!CreationFits, Idea!NoInterview, Idea!NoAnswers
<1>3. CASE Idea!Mine(a.id)
  <2>1. PICK i : /\ \/ i = [v1 EXCEPT !.loading = FALSE, !.outcome = Idea!Spent]
                    \/ i = [v1 EXCEPT !.loading = FALSE, !.outcome = Idea!BuildsFrom(Idea!Plain(a.idea))]
                    \/ i = [v1 EXCEPT !.loading = FALSE, !.asked = n, !.tailored = (answer = "tailored"),
                                      !.askedOf = IF answer = "tailored" THEN a.idea ELSE NoIdea]
                 /\ Idea!Publish(i, v4)
    BY <1>1, <1>3 DEF Idea!Update
  <2>2. /\ v1 # Idea!NoInterview /\ a.id = v1.id /\ Idea!InterviewFits(v1) /\ a.idea = v1.idea
        /\ \A b \in v3 : Idea!AskFits(b, v1)
    BY <1>1, <1>3 DEF Idea!Mine, Idea!IdeaInvariant, Idea!AskFits
  <2>3. PICK loading, asked, tailored, askedOf, outcome :
          /\ i = [id |-> v1.id, idea |-> v1.idea, fresh |-> v1.fresh, loading |-> loading, asked |-> asked,
                  askedOf |-> askedOf, tailored |-> tailored, phase |-> v1.phase, index |-> v1.index,
                  fromReview |-> v1.fromReview, chosen |-> v1.chosen, outcome |-> outcome]
          /\ askedOf \in {v1.askedOf, NoIdea, a.idea}
          /\ outcome \in {v1.outcome, Idea!Spent, Idea!BuildsFrom(Idea!Plain(a.idea))}
    <3>1. CASE i = [v1 EXCEPT !.loading = FALSE, !.outcome = Idea!Spent]
      BY <2>2, <3>1 DEF Idea!InterviewFits
    <3>2. CASE i = [v1 EXCEPT !.loading = FALSE, !.outcome = Idea!BuildsFrom(Idea!Plain(a.idea))]
      <4>1. PICK outcome : outcome = Idea!BuildsFrom(Idea!Plain(a.idea))
        OBVIOUS
      <4>2. i = [id |-> v1.id, idea |-> v1.idea, fresh |-> v1.fresh, loading |-> FALSE, asked |-> v1.asked,
                 askedOf |-> v1.askedOf, tailored |-> v1.tailored, phase |-> v1.phase, index |-> v1.index,
                 fromReview |-> v1.fromReview, chosen |-> v1.chosen, outcome |-> outcome]
        BY <2>2, <3>2, <4>1 DEF Idea!InterviewFits
      <4>3. QED
        BY <4>1, <4>2
    <3>3. CASE i = [v1 EXCEPT !.loading = FALSE, !.asked = n, !.tailored = (answer = "tailored"),
                              !.askedOf = IF answer = "tailored" THEN a.idea ELSE NoIdea]
      <4>1. PICK tailored, askedOf : /\ tailored = (answer = "tailored")
                                     /\ askedOf = IF answer = "tailored" THEN a.idea ELSE NoIdea
        OBVIOUS
      <4>2. i = [v1 EXCEPT !.loading = FALSE, !.asked = n, !.tailored = tailored, !.askedOf = askedOf]
        BY <3>3, <4>1
      <4>3. i = [id |-> v1.id, idea |-> v1.idea, fresh |-> v1.fresh, loading |-> FALSE, asked |-> n,
                 askedOf |-> askedOf, tailored |-> tailored, phase |-> v1.phase, index |-> v1.index,
                 fromReview |-> v1.fromReview, chosen |-> v1.chosen, outcome |-> v1.outcome]
        BY <2>2, <4>2 DEF Idea!InterviewFits
      <4>4. askedOf \in {NoIdea, a.idea}
        BY <4>1
      <4>5. QED
        BY <4>3, <4>4
    <3>4. QED
      BY <2>1, <3>1, <3>2, <3>3
  <2>4. Idea!InterviewFits(i)
    BY <2>2, <2>3 DEF Idea!InterviewFits, Idea!Spent, Idea!BuildsFrom, Idea!Plain
  <2>5. i.id = v1.id /\ i.phase = v1.phase /\ \A b \in v3 : Idea!AskFits(b, i)
    BY <2>2, <2>3 DEF Idea!AskFits
  <2>6. Idea!WaitFits(i, v4)
    BY <2>2, <2>5 DEF Idea!WaitFits, Idea!IdeaInvariant
  <2>7. QED
    BY <1>1, <2>1, <2>2, <2>4, <2>5, <2>6, PublishKeeps
<1>4. QED
  BY <1>2, <1>3

\* A brief is made of the answers as they stand.
LEMMA BriefKeeps ==
  ASSUME Idea!IdeaInvariant, Idea!BriefArrives
  PROVE  Idea!IdeaInvariant'
<1>1. PICK a \in v3, spent \in BOOLEAN :
        /\ a.kind = "brief" /\ v3' = v3 \ {a} /\ UNCHANGED <<v2, v6>>
        /\ Idea!Update(a.id, IF spent THEN [v1 EXCEPT !.phase = "review", !.outcome = Idea!Spent]
                             ELSE [v1 EXCEPT !.outcome = Idea!BuildsFrom([idea |-> a.idea, answers |-> a.answers])])
  BY DEF Idea!BriefArrives
<1>2. CASE ~Idea!Mine(a.id)
  BY <1>1, <1>2 DEF Idea!Update, Idea!IdeaInvariant, Idea!InterviewFits, Idea!AskFits, Idea!WaitFits,
     Idea!CreationFits, Idea!NoInterview, Idea!NoAnswers
<1>3. CASE Idea!Mine(a.id)
  <2>1. PICK i : /\ \/ i = [v1 EXCEPT !.phase = "review", !.outcome = Idea!Spent]
                    \/ i = [v1 EXCEPT !.outcome = Idea!BuildsFrom([idea |-> a.idea, answers |-> a.answers])]
                 /\ Idea!Publish(i, v4)
    BY <1>1, <1>3 DEF Idea!Update
  <2>2. /\ v1 # Idea!NoInterview /\ a.id = v1.id /\ Idea!InterviewFits(v1) /\ a.idea = v1.idea
        /\ a.answers = v1.chosen /\ v1.phase = "compiling"
        /\ \A b \in v3 : Idea!AskFits(b, v1)
        /\ \A b \in v3 \ {a} : b.id = v1.id => b.kind # "brief"
    BY <1>1, <1>3 DEF Idea!Mine, Idea!IdeaInvariant, Idea!AskFits
  <2>3. PICK phase, outcome :
          /\ i = [id |-> v1.id, idea |-> v1.idea, fresh |-> v1.fresh, loading |-> v1.loading, asked |-> v1.asked,
                  askedOf |-> v1.askedOf, tailored |-> v1.tailored, phase |-> phase, index |-> v1.index,
                  fromReview |-> v1.fromReview, chosen |-> v1.chosen, outcome |-> outcome]
          /\ \/ phase = "review" /\ outcome = Idea!Spent
             \/ phase = "compiling" /\ outcome = Idea!BuildsFrom([idea |-> a.idea, answers |-> a.answers])
    <3>1. CASE i = [v1 EXCEPT !.phase = "review", !.outcome = Idea!Spent]
      BY <2>2, <3>1 DEF Idea!InterviewFits
    <3>2. CASE i = [v1 EXCEPT !.outcome = Idea!BuildsFrom([idea |-> a.idea, answers |-> a.answers])]
      BY <2>2, <3>2 DEF Idea!InterviewFits
    <3>3. QED
      BY <2>1, <3>1, <3>2
  <2>4. Idea!InterviewFits(i)
    BY <2>2, <2>3 DEF Idea!InterviewFits, Idea!Spent, Idea!BuildsFrom
  <2>5. i.id = v1.id /\ \A b \in v3' : Idea!AskFits(b, i)
    BY <1>1, <2>2, <2>3 DEF Idea!AskFits
  <2>6. Idea!WaitFits(i, v4)
    BY <2>2, <2>3 DEF Idea!WaitFits, Idea!IdeaInvariant
  <2>7. QED
    BY <1>1, <2>1, <2>2, <2>4, <2>5, <2>6, PublishKeeps
<1>4. QED
  BY <1>2, <1>3

\* An interview starts with an id that no request has.
LEMMA StartKeeps ==
  ASSUME Idea!IdeaInvariant, Idea!HandleCreate
  PROVE  Idea!IdeaInvariant'
<1>1. CASE v4' = [v4 EXCEPT !.blocked = TRUE] /\ UNCHANGED <<v1, v2, v3, v5, v6>>
  <2>1. v4' = [at |-> v4.at, prompt |-> v4.prompt, creating |-> v4.creating, blocked |-> TRUE,
               timer |-> v4.timer, own |-> v4.own]
    BY <1>1 DEF Idea!IdeaInvariant, Idea!WaitFits
  <2>2. Idea!WaitFits(v1, v4')
    BY <2>1 DEF Idea!IdeaInvariant, Idea!WaitFits
  <2>3. QED
    BY <1>1, <2>2, CreationsGoOn DEF Idea!IdeaInvariant
<1>2. CASE /\ UNCHANGED <<v4, v5, v6>> /\ v1' = Idea!Interview(v4.prompt) /\ v2' = v2 + 1
           /\ v3' = v3 \cup {[kind |-> "questions", id |-> v2 + 1, idea |-> v4.prompt]}
  <2>1. PICK a : a = [kind |-> "questions", id |-> v2 + 1, idea |-> v4.prompt]
    OBVIOUS
  <2>2. PICK i : i = [id |-> v2 + 1, idea |-> v4.prompt, fresh |-> TRUE, loading |-> TRUE, asked |-> 0,
                      askedOf |-> NoIdea, tailored |-> TRUE, phase |-> "asking", index |-> 1,
                      fromReview |-> FALSE, chosen |-> Idea!NoAnswers, outcome |-> Idea!NoOutcome] /\ v1' = i
    BY <1>2 DEF Idea!Interview
  <2>3. v3' = v3 \cup {a} /\ v2' \in Nat /\ v2 \in Nat
    BY <1>2, <2>1 DEF Idea!IdeaInvariant
  <2>4. Idea!InterviewFits(i)
    BY <2>2 DEF Idea!InterviewFits, Idea!NoOutcome
  <2>5. \A b \in v3 : b.id # v2 + 1 /\ b.id \in 1..v2'
    BY <1>2, <2>3 DEF Idea!IdeaInvariant
  <2>6. \A b \in v3' : Idea!AskFits(b, i) /\ b.id \in 1..v2'
    BY <1>2, <2>1, <2>2, <2>3, <2>5 DEF Idea!AskFits
  <2>7. \A b, c \in v3' : b.kind = "brief" /\ c.kind = "brief" /\ b.id = c.id => b = c
    BY <2>1, <2>3 DEF Idea!IdeaInvariant
  <2>8. Idea!WaitFits(i, v4)
    BY <2>2 DEF Idea!IdeaInvariant, Idea!WaitFits
  <2>9. i.id \in 1..v2'
    BY <1>2, <2>2, <2>3
  <2>10. \A c \in v5 \cup v6 : Idea!CreationFits(c)
    BY DEF Idea!IdeaInvariant
  <2>11. QED
    BY <1>2, <2>2, <2>3, <2>4, <2>6, <2>7, <2>8, <2>9, <2>10 DEF Idea!IdeaInvariant, Idea!InterviewFits,
       Idea!AskFits, Idea!WaitFits, Idea!CreationFits, Idea!NoAnswers
<1>3. QED
  BY <1>1, <1>2 DEF Idea!HandleCreate

\* What is chosen, and a move between the questions, leaves the interview one of its idea.
LEMMA MoveFits ==
  ASSUME Idea!IdeaInvariant, v1 # Idea!NoInterview, NEW fresh, NEW phase, NEW index, NEW fromReview, NEW chosen,
         NEW i, i = [id |-> v1.id, idea |-> v1.idea, fresh |-> fresh, loading |-> v1.loading, asked |-> v1.asked,
                     askedOf |-> v1.askedOf, tailored |-> v1.tailored, phase |-> phase, index |-> index,
                     fromReview |-> fromReview, chosen |-> chosen, outcome |-> v1.outcome],
         \/ v1.phase # "compiling"
         \/ phase = v1.phase /\ chosen = v1.chosen
  PROVE  Idea!InterviewFits(i) /\ i.id = v1.id /\ \A a \in v3 : Idea!AskFits(a, i)
BY DEF Idea!IdeaInvariant, Idea!InterviewFits, Idea!AskFits

\* An answer is chosen, or written by hand, while the questions are asked.
LEMMA ChooseKeeps ==
  ASSUME Idea!IdeaInvariant, Idea!Asking, UNCHANGED <<v2, v3, v5, v6>>, NEW answer, NEW timer, NEW own,
         v1' = [v1 EXCEPT !.chosen[v1.index] = answer] \/ v1' = v1,
         v4' = [v4 EXCEPT !.timer = timer] \/ v4' = [v4 EXCEPT !.own = own]
               \/ v4' = [v4 EXCEPT !.own = own, !.timer = timer]
  PROVE  Idea!IdeaInvariant'
<1>1. v1 # Idea!NoInterview /\ v1.phase = "asking" /\ Idea!InterviewFits(v1)
  BY DEF Idea!Asking, Idea!InterviewShown, Idea!IsFresh, Idea!IdeaInvariant
<1>2. PICK chosen, i :
        /\ i = [id |-> v1.id, idea |-> v1.idea, fresh |-> v1.fresh, loading |-> v1.loading, asked |-> v1.asked,
                askedOf |-> v1.askedOf, tailored |-> v1.tailored, phase |-> v1.phase, index |-> v1.index,
                fromReview |-> v1.fromReview, chosen |-> chosen, outcome |-> v1.outcome]
        /\ v1' = i
  <2>1. CASE v1' = v1
    BY <1>1, <2>1 DEF Idea!InterviewFits
  <2>2. CASE v1' = [v1 EXCEPT !.chosen[v1.index] = answer]
    <3>1. PICK chosen : chosen = [v1.chosen EXCEPT ![v1.index] = answer]
      OBVIOUS
    <3>2. v1' = [v1 EXCEPT !.chosen = chosen]
      BY <2>2, <3>1
    <3>3. QED
      BY <1>1, <3>2 DEF Idea!InterviewFits
  <2>3. QED
    BY <2>1, <2>2
<1>3. Idea!InterviewFits(i) /\ i.id = v1.id /\ \A a \in v3 : Idea!AskFits(a, i)
  BY <1>1, <1>2, MoveFits
<1>4. PICK t, o : v4' = [at |-> v4.at, prompt |-> v4.prompt, creating |-> v4.creating, blocked |-> v4.blocked,
                         timer |-> t, own |-> o]
  BY DEF Idea!IdeaInvariant, Idea!WaitFits
<1>5. Idea!WaitFits(i, v4')
  BY <1>1, <1>2, <1>4 DEF Idea!WaitFits
<1>6. QED
  BY <1>1, <1>2, <1>3, <1>5, InterviewGoesOn

\* A move between the questions, which ends the wait.
LEMMA SettledKeeps ==
  ASSUME Idea!IdeaInvariant, Idea!Settled, UNCHANGED <<v2, v3, v5, v6>>, v1 # Idea!NoInterview,
         v1.phase # "compiling", NEW q, NEW review, NEW i, v1' = i,
         \/ i = [v1 EXCEPT !.phase = "review", !.fromReview = FALSE]
         \/ i = [v1 EXCEPT !.index = q]
         \/ i = [v1 EXCEPT !.index = q, !.phase = "asking", !.fromReview = review]
  PROVE  Idea!IdeaInvariant'
<1>1. Idea!InterviewFits(v1)
  BY DEF Idea!IdeaInvariant
<1>2. PICK phase, index, fromReview :
        i = [id |-> v1.id, idea |-> v1.idea, fresh |-> v1.fresh, loading |-> v1.loading, asked |-> v1.asked,
             askedOf |-> v1.askedOf, tailored |-> v1.tailored, phase |-> phase, index |-> index,
             fromReview |-> fromReview, chosen |-> v1.chosen, outcome |-> v1.outcome]
  <2>1. CASE i = [v1 EXCEPT !.phase = "review", !.fromReview = FALSE]
    BY <1>1, <2>1 DEF Idea!InterviewFits
  <2>2. CASE i = [v1 EXCEPT !.index = q]
    BY <1>1, <2>2 DEF Idea!InterviewFits
  <2>3. CASE i = [v1 EXCEPT !.index = q, !.phase = "asking", !.fromReview = review]
    BY <1>1, <2>3 DEF Idea!InterviewFits
  <2>4. QED
    BY <2>1, <2>2, <2>3
<1>3. Idea!InterviewFits(i) /\ i.id = v1.id /\ \A a \in v3 : Idea!AskFits(a, i)
  BY <1>2, MoveFits
<1>4. v4' = [at |-> v4.at, prompt |-> v4.prompt, creating |-> v4.creating, blocked |-> v4.blocked,
             timer |-> FALSE, own |-> FALSE]
  BY DEF Idea!Settled, Idea!IdeaInvariant, Idea!WaitFits
<1>5. Idea!WaitFits(i, v4')
  BY <1>4 DEF Idea!WaitFits
<1>6. QED
  BY <1>3, <1>5, InterviewGoesOn

\* When each thing is offered.
LEMMA IdeaOffers ==
  /\ {"choose", "own", "next", "skip"} \cap Idea!Offered # {} => Idea!Asking
  /\ {"goto", "build"} \cap Idea!Offered # {} => Idea!Reviewing
  /\ "back" \in Idea!Offered => Idea!Asking \/ Idea!Reviewing
BY DEF Idea!Offered

\* A move between the questions is one of an interview whose brief is not being made.
LEMMA MovesKeep ==
  ASSUME Idea!IdeaInvariant, Idea!NextQuestion \/ Idea!Back \/ Idea!GoToQuestion
  PROVE  Idea!IdeaInvariant'
<1>1. v1 # Idea!NoInterview /\ v1.phase # "compiling"
  <2>1. CASE Idea!Asking \/ Idea!Reviewing
    BY <2>1 DEF Idea!Asking, Idea!Reviewing, Idea!InterviewShown, Idea!IsFresh
  <2>2. CASE Idea!InterviewShown /\ v4.timer
    BY <2>2 DEF Idea!InterviewShown, Idea!IsFresh, Idea!IdeaInvariant, Idea!WaitFits
  <2>3. QED
    BY <2>1, <2>2, IdeaOffers DEF Idea!NextQuestion, Idea!Back, Idea!GoToQuestion
<1>2. Idea!Settled /\ UNCHANGED <<v2, v3, v5, v6>>
  BY DEF Idea!NextQuestion, Idea!Back, Idea!GoToQuestion
<1>3. CASE Idea!NextQuestion
  <2>1. CASE v1' = [v1 EXCEPT !.phase = "review", !.fromReview = FALSE]
    BY <1>1, <1>2, <2>1, SettledKeeps
  <2>2. CASE v1' = [v1 EXCEPT !.index = v1.index + 1]
    BY <1>1, <1>2, <2>2, SettledKeeps
  <2>3. QED
    BY <1>3, <2>1, <2>2 DEF Idea!NextQuestion, Idea!Advanced
<1>4. ASSUME NEW q, NEW review, v1' = Idea!GoTo(q, review)
      PROVE  Idea!IdeaInvariant'
  BY <1>1, <1>2, <1>4, SettledKeeps DEF Idea!GoTo
<1>5. QED
  BY <1>3, <1>4 DEF Idea!Back, Idea!GoToQuestion

\* The answers go to be made a brief of, and stand until it arrives.
LEMMA BuildKeeps ==
  ASSUME Idea!IdeaInvariant, Idea!Build
  PROVE  Idea!IdeaInvariant'
<1>1. /\ v1 # Idea!NoInterview /\ v1.phase = "review"
      /\ v1' = [v1 EXCEPT !.phase = "compiling"] /\ UNCHANGED <<v2, v4, v5, v6>>
  BY IdeaOffers DEF Idea!Build, Idea!Reviewing, Idea!InterviewShown, Idea!IsFresh
<1>2. PICK a : /\ a = [kind |-> "brief", id |-> v1.id, idea |-> v1.idea, answers |-> v1.chosen]
               /\ v3' = v3 \cup {a}
  BY DEF Idea!Build
<1>3. PICK i : /\ i = [id |-> v1.id, idea |-> v1.idea, fresh |-> v1.fresh, loading |-> v1.loading, asked |-> v1.asked,
                       askedOf |-> v1.askedOf, tailored |-> v1.tailored, phase |-> "compiling", index |-> v1.index,
                       fromReview |-> v1.fromReview, chosen |-> v1.chosen, outcome |-> v1.outcome]
               /\ v1' = i
  BY <1>1 DEF Idea!IdeaInvariant, Idea!InterviewFits
<1>4. Idea!InterviewFits(i) /\ i.id = v1.id /\ \A b \in v3 : Idea!AskFits(b, i)
  BY <1>1, <1>3, MoveFits
<1>5. \A b \in v3' : Idea!AskFits(b, i)
  BY <1>2, <1>3, <1>4 DEF Idea!AskFits
<1>6. v1.id \in 1..v2 /\ \A b \in v3 : b.id = v1.id => b.kind # "brief"
  BY <1>1 DEF Idea!IdeaInvariant, Idea!AskFits
<1>7. \A b, c \in v3' : b.kind = "brief" /\ c.kind = "brief" /\ b.id = c.id => b = c
  BY <1>2, <1>6 DEF Idea!IdeaInvariant
<1>8. \A b \in v3' : b.id \in 1..v2
  BY <1>2, <1>6 DEF Idea!IdeaInvariant
<1>9. Idea!WaitFits(i, v4)
  BY <1>1 DEF Idea!IdeaInvariant, Idea!WaitFits
<1>10. QED
  BY <1>1, <1>3, <1>4, <1>5, <1>6, <1>7, <1>8, <1>9 DEF Idea!IdeaInvariant, Idea!CreationFits, Idea!InterviewFits,
     Idea!AskFits, Idea!WaitFits, Idea!NoAnswers

\* A creation goes on when the page is left, and its project is still opened.
LEMMA CreationStepKeeps ==
  ASSUME Idea!IdeaInvariant, Idea!Made \/ Idea!NotMade \/ Idea!OpenProject \/ Idea!Leave
  PROVE  Idea!IdeaInvariant'
<1>1. \A c \in v5 \cup v6 : Idea!CreationFits(c)
  BY DEF Idea!IdeaInvariant
<1>2. CASE Idea!Made
  <2>1. PICK c \in v5 : /\ v5' = (v5 \ {c}) \cup {[c EXCEPT !.stage = "made"]}
                        /\ v4' = [v4 EXCEPT !.creating = "made"] \/ v4' = v4
    BY <1>2 DEF Idea!Made
  <2>2. \A d \in v5' \cup v6 : Idea!CreationFits(d)
    BY <1>1, <2>1, CreationGoesOn
  <2>3. CASE v4' = v4
    BY <1>2, <2>2, <2>3, CreationsGoOn DEF Idea!Made, Idea!IdeaInvariant
  <2>4. CASE v4' = [v4 EXCEPT !.creating = "made"]
    <3>1. v4' = [at |-> v4.at, prompt |-> v4.prompt, creating |-> "made", blocked |-> v4.blocked,
                 timer |-> v4.timer, own |-> v4.own]
      BY <2>4 DEF Idea!IdeaInvariant, Idea!WaitFits
    <3>2. Idea!WaitFits(v1, v4')
      BY <3>1 DEF Idea!IdeaInvariant, Idea!WaitFits
    <3>3. QED
      BY <1>2, <2>2, <3>2, CreationsGoOn DEF Idea!Made
  <2>5. QED
    BY <2>1, <2>3, <2>4
<1>3. CASE Idea!NotMade
  <2>1. PICK c \in v5, spent \in BOOLEAN :
          /\ v5' = v5 \ {c}
          /\ v4' = [v4 EXCEPT !.creating = "no", !.blocked = spent] \/ v4' = v4
    BY <1>3 DEF Idea!NotMade
  <2>2. \A d \in v5' \cup v6 : Idea!CreationFits(d)
    BY <1>1, <2>1
  <2>3. CASE v4' = v4
    BY <1>3, <2>2, <2>3, CreationsGoOn DEF Idea!NotMade, Idea!IdeaInvariant
  <2>4. CASE v4' = [v4 EXCEPT !.creating = "no", !.blocked = spent]
    <3>1. v4' = [at |-> v4.at, prompt |-> v4.prompt, creating |-> "no", blocked |-> spent,
                 timer |-> v4.timer, own |-> v4.own]
      BY <2>4 DEF Idea!IdeaInvariant, Idea!WaitFits
    <3>2. Idea!WaitFits(v1, v4')
      BY <3>1 DEF Idea!IdeaInvariant, Idea!WaitFits
    <3>3. QED
      BY <1>3, <2>2, <3>2, CreationsGoOn DEF Idea!NotMade
  <2>5. QED
    BY <2>1, <2>3, <2>4
<1>4. CASE Idea!OpenProject
  <2>1. PICK c \in v5 : /\ v6' = v6 \cup {[c EXCEPT !.stage = "opened", !.shown = FALSE]}
                        /\ v5' = {[d EXCEPT !.shown = FALSE] : d \in v5 \ {c}}
                        /\ v4' = Idea!Home("away") \/ v4' = v4
    BY <1>4 DEF Idea!OpenProject
  <2>2. \A d \in v5' : Idea!CreationFits(d)
    BY <1>1, <2>1, CreationsAreLeft
  <2>3. PICK o : o = [c EXCEPT !.stage = "opened", !.shown = FALSE]
    OBVIOUS
  <2>4. Idea!CreationFits(o)
    BY <1>1, <2>1, <2>3, CreationGoesOn
  <2>5. \A d \in v6' : Idea!CreationFits(d)
    BY <1>1, <2>1, <2>3, <2>4
  <2>6. Idea!WaitFits(v1, v4')
    BY <2>1, HomeFits DEF Idea!IdeaInvariant
  <2>7. QED
    BY <1>4, <2>2, <2>5, <2>6, CreationsGoOn DEF Idea!OpenProject
<1>5. CASE Idea!Leave
  <2>1. \A d \in v5' \cup v6' : Idea!CreationFits(d)
    BY <1>1, <1>5, CreationsAreLeft DEF Idea!Leave
  <2>2. Idea!WaitFits(v1, v4')
    BY <1>5, HomeFits DEF Idea!Leave
  <2>3. QED
    BY <1>5, <2>1, <2>2, CreationsGoOn DEF Idea!Leave
<1>6. QED
  BY <1>2, <1>3, <1>4, <1>5

\* Every step of the interview, the pages and the servers keeps the invariant.
LEMMA IdeaStep ==
  ASSUME Idea!IdeaInvariant, [Idea!IdeaNext]_(Idea!ideaVars)
  PROVE  Idea!IdeaInvariant'
<1>1. \A c \in v5 \cup v6 : Idea!CreationFits(c)
  BY DEF Idea!IdeaInvariant
<1>2. CASE (UNCHANGED Idea!ideaVars) \/ Idea!SavePendingIdea \/ Idea!KeptIdeaAges \/ Idea!ChooseMode
  <2>1. UNCHANGED <<v1, v2, v3, v4, v5, v6>>
    BY <1>2 DEF Idea!ideaVars, Idea!SavePendingIdea, Idea!KeptIdeaAges, Idea!ChooseMode
  <2>2. QED
    BY <1>1, <2>1, CreationsGoOn DEF Idea!IdeaInvariant
<1>3. CASE Idea!SignInHere
  BY <1>1, <1>3, HomeFits, InterviewIsDropped DEF Idea!SignInHere
<1>4. CASE Idea!SignOutHere
  <2>1. \A d \in v5' \cup v6' : Idea!CreationFits(d)
    BY <1>1, <1>4, CreationsAreLeft DEF Idea!SignOutHere
  <2>2. QED
    BY <1>4, <2>1, HomeFits, InterviewIsDropped DEF Idea!SignOutHere
<1>5. CASE Idea!Type \/ Idea!WriteOwn \/ Idea!CloseBlocked
  <2>1. PICK prompt, blocked, own :
          v4' = [at |-> v4.at, prompt |-> prompt, creating |-> v4.creating, blocked |-> blocked,
                 timer |-> v4.timer, own |-> own]
    BY <1>5 DEF Idea!Type, Idea!WriteOwn, Idea!CloseBlocked, Idea!IdeaInvariant, Idea!WaitFits
  <2>2. Idea!WaitFits(v1, v4')
    BY <2>1 DEF Idea!IdeaInvariant, Idea!WaitFits
  <2>3. QED
    BY <1>1, <1>5, <2>2, CreationsGoOn DEF Idea!Type, Idea!WriteOwn, Idea!CloseBlocked
<1>6. CASE Idea!HandleCreate
  BY <1>6, StartKeeps
<1>7. CASE Idea!QuestionsArrive
  BY <1>7, QuestionsKeep
<1>8. CASE Idea!Choose
  BY <1>8, IdeaOffers, ChooseKeeps DEF Idea!Choose
<1>9. CASE Idea!AddOwnAnswer
  BY <1>9, IdeaOffers, ChooseKeeps DEF Idea!AddOwnAnswer, Idea!Pick
<1>10. CASE Idea!NextQuestion \/ Idea!Back \/ Idea!GoToQuestion
  BY <1>10, MovesKeep
<1>11. CASE Idea!EditIdea
  <2>1. v4' = [at |-> v4.at, prompt |-> v4.prompt, creating |-> v4.creating, blocked |-> v4.blocked,
               timer |-> FALSE, own |-> FALSE]
    BY <1>11 DEF Idea!EditIdea, Idea!Settled, Idea!IdeaInvariant, Idea!WaitFits
  <2>2. Idea!WaitFits(Idea!NoInterview, v4')
    BY <2>1 DEF Idea!WaitFits
  <2>3. QED
    BY <1>1, <1>11, <2>2, InterviewIsDropped DEF Idea!EditIdea
<1>12. CASE Idea!SkipQuestions
  <2>1. Idea!Plain(v1.idea).idea = v1.idea
    BY DEF Idea!Plain
  <2>2. QED
    BY <1>12, <2>1, CreateKeeps DEF Idea!SkipQuestions, Idea!IdeaInvariant
<1>13. CASE Idea!Build
  BY <1>13, BuildKeeps
<1>14. CASE Idea!BriefArrives
  BY <1>14, BriefKeeps
<1>15. CASE Idea!Made \/ Idea!NotMade \/ Idea!OpenProject \/ Idea!Leave
  BY <1>15, CreationStepKeeps
<1>16. CASE Idea!ComeBack
  BY <1>16, HomeFits, PublishKeeps DEF Idea!ComeBack, Idea!IdeaInvariant
<1>17. CASE Idea!InterviewAges
  <2>1. v1 # Idea!NoInterview /\ v1' = [v1 EXCEPT !.fresh = FALSE] /\ UNCHANGED <<v2, v3, v4, v5, v6>>
    BY <1>17 DEF Idea!InterviewAges, Idea!IsFresh
  <2>2. PICK i : /\ i = [id |-> v1.id, idea |-> v1.idea, fresh |-> FALSE, loading |-> v1.loading, asked |-> v1.asked,
                         askedOf |-> v1.askedOf, tailored |-> v1.tailored, phase |-> v1.phase, index |-> v1.index,
                         fromReview |-> v1.fromReview, chosen |-> v1.chosen, outcome |-> v1.outcome]
                 /\ v1' = i
    BY <2>1 DEF Idea!IdeaInvariant, Idea!InterviewFits
  <2>3. Idea!InterviewFits(i) /\ i.id = v1.id /\ \A a \in v3 : Idea!AskFits(a, i)
    BY <2>1, <2>2, MoveFits
  <2>4. Idea!WaitFits(i, v4)
    BY <2>1, <2>2 DEF Idea!IdeaInvariant, Idea!WaitFits
  <2>5. QED
    BY <2>1, <2>2, <2>3, <2>4, InterviewGoesOn
<1>18. QED
  BY <1>2, <1>3, <1>4, <1>5, <1>6, <1>7, <1>8, <1>9, <1>10, <1>11, <1>12, <1>13, <1>14, <1>15, <1>16, <1>17
     DEF Idea!IdeaNext

\* What the invariant says of what is shown and opened.
LEMMA IdeaAnswers ==
  ASSUME Idea!IdeaInvariant
  PROVE  Idea!AnswersAreForThisIdea
BY DEF Idea!IdeaInvariant, Idea!AnswersAreForThisIdea, Idea!InterviewFits, Idea!CreationFits

-----------------------------------------------------------------------------
(* ProjectHeader: a name is asked for once. *)
Header == INSTANCE ProjectHeader WITH headerRole <- v1, nameField <- v2,
  lateBlur <- v3, projectName <- v4, nameAsks <- v5, chatHolds <- v6,
  inTurn <- v7, headerDialog <- v8, pageAsks <- v9, viewMode <- v10,
  left <- v11

\* No name is edited when the page opens.
LEMMA HeaderInitially ==
  ASSUME Header!HeaderInit
  PROVE  Header!HeaderInvariant
<1>1. v2 = [editing |-> FALSE, draft |-> Header!NoText, saving |-> FALSE, finishing |-> FALSE]
  BY DEF Header!HeaderInit, Header!NoField
<1>2. v5 = <<>> /\ v5 \in Seq(ProjectNames) /\ Len(v5) = 0 /\ v4 \in ProjectNames
  BY EmptySeq DEF Header!HeaderInit
<1>3. QED
  BY <1>1, <1>2 DEF Header!HeaderInvariant, Header!RenameIsAskedOnce

\* The end of a field asks for its name only when none is asked for.
LEMMA FinishKeeps ==
  ASSUME Header!HeaderInvariant, NEW shouldSave \in BOOLEAN, Header!Finish(shouldSave), v4' = v4
  PROVE  Header!HeaderInvariant'
<1> DEFINE asks == shouldSave /\ v2.draft \notin {Header!NoText, v4}
<1>1. CASE v2.finishing
  <2>1. v2' = v2 /\ v5' = v5
    BY <1>1 DEF Header!Finish, Header!MayFinish
  <2>2. QED
    BY <2>1 DEF Header!HeaderInvariant, Header!RenameIsAskedOnce
<1>2. CASE ~v2.finishing
  <2>1. v2' = [v2 EXCEPT !.finishing = TRUE, !.editing = asks, !.saving = asks]
        /\ v5' = IF asks THEN Append(v5, v2.draft) ELSE v5
    BY <1>2 DEF Header!Finish, Header!MayFinish
  <2>2. v2' = [editing |-> asks, draft |-> v2.draft, saving |-> asks, finishing |-> TRUE]
    BY <2>1 DEF Header!HeaderInvariant
  <2>3. v5 = <<>> /\ Len(v5) = 0
    BY <1>2, EmptySeq DEF Header!HeaderInvariant
  <2>4. asks => v2.draft \in ProjectNames
    BY DEF Header!HeaderInvariant
  <2>5. v5' \in Seq(ProjectNames) /\ Len(v5') <= 1 /\ (v5' # <<>> => asks)
    BY <2>1, <2>3, <2>4, AppendProperties DEF Header!HeaderInvariant
  <2>6. QED
    BY <2>2, <2>5 DEF Header!HeaderInvariant, Header!RenameIsAskedOnce
<1>3. QED
  BY <1>1, <1>2 DEF Header!HeaderInvariant

\* Every step of the header and its server keeps the invariant.
LEMMA HeaderStep ==
  ASSUME Header!HeaderInvariant, [Header!HeaderNext]_(Header!headerVars)
  PROVE  Header!HeaderInvariant'
<1>1. ASSUME UNCHANGED <<v2, v4, v5>>
      PROVE  Header!HeaderInvariant'
  BY <1>1 DEF Header!HeaderInvariant, Header!RenameIsAskedOnce
<1>2. CASE UNCHANGED Header!headerVars
  BY <1>1, <1>2 DEF Header!headerVars, Header!nameVars
<1>3. CASE Header!StartRenaming
  <2>1. v2' = [editing |-> TRUE, draft |-> v4, saving |-> FALSE, finishing |-> FALSE] /\ ~v2.editing
        /\ UNCHANGED <<v4, v5>>
    BY <1>3 DEF Header!StartRenaming, Header!NoField
  <2>2. v5 = <<>>
    BY <2>1 DEF Header!HeaderInvariant
  <2>3. QED
    BY <2>1, <2>2 DEF Header!HeaderInvariant, Header!RenameIsAskedOnce
<1>4. ASSUME NEW draft \in ProjectNames \cup {Header!NoText}, Header!TypeName(draft)
      PROVE  Header!HeaderInvariant'
  <2>1. v2' = [v2 EXCEPT !.draft = draft] /\ UNCHANGED <<v4, v5>>
    BY <1>4 DEF Header!TypeName
  <2>2. v2' = [editing |-> v2.editing, draft |-> draft, saving |-> v2.saving, finishing |-> v2.finishing]
    BY <2>1 DEF Header!HeaderInvariant
  <2>3. QED
    BY <2>1, <2>2 DEF Header!HeaderInvariant, Header!RenameIsAskedOnce
<1>5. ASSUME NEW shouldSave \in BOOLEAN, Header!EndEditing(shouldSave)
      PROVE  Header!HeaderInvariant'
  BY <1>5, FinishKeeps DEF Header!EndEditing
<1>6. CASE Header!BlurComesLate
  BY <1>6, FinishKeeps DEF Header!BlurComesLate
<1>7. ASSUME NEW ok \in BOOLEAN, Header!HandleRename(ok)
      PROVE  Header!HeaderInvariant'
  <2>1. v5 # <<>> /\ v5 \in Seq(ProjectNames) /\ Len(v5) <= 1
    BY <1>7 DEF Header!HandleRename, Header!HeaderInvariant, Header!RenameIsAskedOnce
  <2>2. v5' \in Seq(ProjectNames) /\ Len(v5') = Len(v5) - 1 /\ Len(v5) \in Nat /\ Head(v5) \in ProjectNames
    BY <1>7, <2>1, HeadTailProperties, LenProperties DEF Header!HandleRename
  <2>3. v5' = <<>> /\ Len(v5') = 0
    BY <2>1, <2>2, EmptySeq
  <2>4. v4' \in ProjectNames
    BY <1>7, <2>2 DEF Header!HandleRename, Header!HeaderInvariant
  <2>5. v2' = [v2 EXCEPT !.saving = FALSE, !.finishing = ok, !.editing = v2.editing /\ ~ok]
    BY <1>7 DEF Header!HandleRename, Header!RequestAnswered
  <2>6. v2' = [editing |-> v2.editing /\ ~ok, draft |-> v2.draft, saving |-> FALSE, finishing |-> ok]
    BY <2>5 DEF Header!HeaderInvariant
  <2>7. QED
    BY <2>2, <2>3, <2>4, <2>6 DEF Header!HeaderInvariant, Header!RenameIsAskedOnce
<1>8. CASE \/ Header!TurnBegins \/ Header!TurnCeases
           \/ \E ok \in BOOLEAN : Header!ClearAnswered(ok) \/ Header!DeleteAnswered(ok)
  BY <1>1, <1>8 DEF Header!TurnBegins, Header!TurnCeases, Header!ChatMoves, Header!ClearAnswered,
     Header!DeleteAnswered, Header!nameVars
<1>9. CASE \/ \E mode \in {"code", "preview"} : Header!ChooseView(mode)
           \/ \E which \in Header!Dialogs : Header!OpenDialog(which)
           \/ Header!HandleOpenFile \/ Header!CancelDialog \/ Header!ConfirmDialog
           \/ Header!HandleDownloadProject \/ Header!DownloadAnswered
  BY <1>1, <1>9 DEF Header!ChooseView, Header!OpenDialog, Header!HandleOpenFile, Header!CancelDialog,
     Header!ConfirmDialog, Header!HandleDownloadProject, Header!DownloadAnswered, Header!ChromeMoves, Header!nameVars
<1>10. QED
  BY <1>2, <1>3, <1>4, <1>5, <1>6, <1>7, <1>8, <1>9 DEF Header!HeaderNext

-----------------------------------------------------------------------------
(* Workspace: a prompt carried into a project is sent once. *)
Work == INSTANCE Workspace WITH workPage <- v1, memberRole <- v2,
  workVisits <- v3, carried <- v4, heldPrompt <- v5, given <- v6,
  chatRead <- v7, chatReading <- v8, answering <- v9, serverTurn <- v10,
  toastShown <- v11, stopping <- v12, guideSeen <- v13, guideAt <- v14,
  guidesShown <- v15

\* Nothing was given when the page opens.
LEMMA WorkInitially ==
  ASSUME Work!WorkInit
  PROVE  Work!WorkInvariant
BY DEF Work!WorkInit, Work!WorkInvariant, Work!GivenOnce

\* A rendering gives the prompt away with its last copy, and marks the guide it shows.
LEMMA EffectsKeep ==
  ASSUME Work!WorkInvariant, NEW role, NEW read \in BOOLEAN, NEW held \in BOOLEAN, NEW busy, NEW toastNow,
         held => v4, Work!Effects(role, read, held, busy, toastNow)
  PROVE  Work!WorkInvariant'
<1> USE DEF Work!WorkInvariant, Work!GivenOnce
<1>1. /\ v4' \in BOOLEAN /\ v5' \in BOOLEAN /\ v6' \in Nat /\ v6' <= 1
      /\ v5' => v4'
      /\ v4' => v6' = 0
  <2>1. v4 \in BOOLEAN /\ v6 \in Nat /\ (v4 => v6 = 0) /\ v6 <= 1
    OBVIOUS
  <2>2. CASE read /\ held
    <3>1. v4' = FALSE /\ v5' = FALSE /\ v6' \in {v6, v6 + 1}
      BY <2>1, <2>2 DEF Work!Effects, Work!Carried
    <3>2. v6 = 0
      BY <2>1, <2>2
    <3>3. v6' = 0 \/ v6' = 1
      BY <3>1, <3>2
    <3>4. v6' \in Nat /\ v6' <= 1
      BY <3>3
    <3>5. v4' \in BOOLEAN /\ v5' \in BOOLEAN /\ ~v4' /\ ~v5'
      BY Zenon, <3>1
    <3>6. QED
      BY Zenon, <3>4, <3>5
  <2>3. CASE ~(read /\ held)
    <3>1. v4' = v4 /\ v5' = held /\ v6' = v6
      BY <2>1, <2>3 DEF Work!Effects, Work!Carried
    <3>2. QED
      BY <2>1, <2>3, <3>1
  <2>4. QED
    BY <2>2, <2>3
<1>2. /\ v13' \in BOOLEAN /\ v15' \in Nat /\ v15' <= 1
      /\ ~v13' => v15' = 0
  BY DEF Work!Effects, Work!ShowsGuide
<1>3. QED
  BY <1>1, <1>2

\* Every step of the page, its chat and its server keeps the invariant.
LEMMA WorkStep ==
  ASSUME Work!WorkInvariant, [Work!WorkNext]_(Work!workVars)
  PROVE  Work!WorkInvariant'
<1>1. ASSUME UNCHANGED <<v4, v5, v6, v13, v15>>
      PROVE  Work!WorkInvariant'
  BY <1>1 DEF Work!WorkInvariant, Work!GivenOnce
<1>2. CASE UNCHANGED Work!workVars
  BY <1>1, <1>2 DEF Work!workVars, Work!promptVars, Work!guideVars
<1>3. ASSUME NEW role \in PageRoles, Work!ProjectArrives(role)
      PROVE  Work!WorkInvariant'
  BY <1>3, EffectsKeep DEF Work!ProjectArrives, Work!WorkInvariant
<1>4. CASE (\E kind \in {"unavailable", "error"} : Work!ProjectFails(kind)) \/ Work!TryAgain
  BY <1>1, <1>4 DEF Work!ProjectFails, Work!TryAgain, Work!PageTurns, Work!promptVars, Work!guideVars
<1>5. ASSUME NEW ok \in BOOLEAN, Work!ChatArrives(ok)
      PROVE  Work!WorkInvariant'
  BY <1>5, EffectsKeep DEF Work!ChatArrives, Work!WorkInvariant
<1>6. ASSUME NEW storeIsKept \in BOOLEAN, Work!OpenAgain(storeIsKept)
      PROVE  Work!WorkInvariant'
  BY <1>6, EffectsKeep DEF Work!OpenAgain, Work!WorkInvariant
<1>7. CASE \/ \E ok \in BOOLEAN : Work!StopItAnswered(ok)
           \/ Work!HandleSendMessage \/ Work!TurnIsOver \/ Work!StopIt
           \/ \E whose \in {"ours", "theirs"} : Work!TurnElsewhere(whose)
  BY <1>1, <1>7 DEF Work!StopItAnswered, Work!HandleSendMessage, Work!TurnIsOver, Work!StopIt, Work!TurnElsewhere,
     Work!promptVars, Work!guideVars
<1>8. CASE Work!CloseGuide \/ Work!NextStep \/ Work!StepBack \/ Work!ShowMeAround
  BY <1>1, <1>8 DEF Work!CloseGuide, Work!NextStep, Work!StepBack, Work!ShowMeAround, Work!GuideMoves, Work!promptVars
<1>9. QED
  BY <1>2, <1>3, <1>4, <1>5, <1>6, <1>7, <1>8 DEF Work!WorkNext

-----------------------------------------------------------------------------
(* PreviewStart: a preview somebody stopped is not started by the page. *)
Start == INSTANCE PreviewStart WITH session <- v1, limited <- v2, copy <- v3,
  panel <- v4, requests <- v5, wish <- v6

\* Nothing was asked for when the page opens.
LEMMA StartInitially ==
  ASSUME Start!StartInit
  PROVE  Start!StartInvariant
BY DEF Start!StartInit, Start!StartInvariant, Start!NoSession, Start!FreshPanel, Start!Sessions, Start!Panels,
       Start!KnowsOfStop, Start!StopStands, Start!Active

\* A session that ended.
LEMMA EndedFits ==
  ASSUME v1 \in Start!Sessions, NEW detail \in {"idle", "Stopped"}
  PROVE  LET s == Start!Ended(detail) IN
         s \in Start!Sessions /\ s.status = "TERMINATED" /\ s.detail = detail
<1> DEFINE t == [v1 EXCEPT !.status = "TERMINATED"]
<1>1. t = [n |-> v1.n, status |-> "TERMINATED", detail |-> v1.detail]
  BY DEF Start!Sessions
<1>2. Start!Ended(detail) = [t EXCEPT !.detail = detail]
  BY DEF Start!Ended
<1> HIDE DEF t
<1>3. Start!Ended(detail) = [n |-> v1.n, status |-> "TERMINATED", detail |-> detail]
  BY <1>1, <1>2
<1>4. QED
  BY <1>3 DEF Start!Sessions

\* What a request that is carried out does to the session.
LEMMA CarriedOutFits ==
  ASSUME Start!StartInvariant, NEW what
  PROVE  LET s == Start!CarriedOut(what) IN
         /\ s \in Start!Sessions
         /\ s.detail = "Stopped" => s.status = "TERMINATED"
         /\ Start!Active(s) => s.detail = "none"
<1> DEFINE s == Start!CarriedOut(what)
<1> USE DEF Start!StartInvariant, Start!Active
<1>1. CASE s = v1
  BY <1>1
<1>2. CASE s = Start!Ended("Stopped")
  BY <1>2, EndedFits
<1>3. CASE s = [v1 EXCEPT !.status = "CREATING"] /\ v1.status = "RUNNING"
  BY <1>3 DEF Start!Sessions
<1>4. CASE s = Start!Opened
  BY <1>4 DEF Start!Opened, Start!Sessions
<1>5. QED
  BY <1>1, <1>2, <1>3, <1>4 DEF Start!CarriedOut

\* A request tells whether a Stop stood when it was made.
LEMMA RequestTells ==
  ASSUME NEW what \in {"start", "restart", "stop"}, NEW by \in {"tab", "build", "person"}
  PROVE  LET r == Start!Request(what, by) IN
         /\ r \in Start!StartRequests /\ r.by = by
         /\ r.over => v6 = "stop" /\ v1.detail = "Stopped"
BY Zenon DEF Start!Request, Start!StartRequests, Start!NoSession, Start!Sessions

\* The tab asks by itself only when it knows of no Stop.
LEMMA TabKnows ==
  ASSUME Start!StartInvariant, Start!AutoStart \/ Start!AutoRetry
  PROVE  v6 # "stop" \/ v1.detail # "Stopped"
BY DEF Start!AutoStart, Start!AutoRetry, Start!Retries, Start!ShouldAutoStart, Start!IsLoaded, Start!Failure,
       Start!StartInvariant, Start!KnowsOfStop, Start!Active

\* Every step of the Preview tab and its server keeps the invariant.
LEMMA StartStep ==
  ASSUME Start!StartInvariant, [Start!StartNext]_(Start!startVars)
  PROVE  Start!StartInvariant'
<1> USE DEF Start!StartInvariant, Start!KnowsOfStop, Start!StopStands, Start!Active
<1>1. CASE UNCHANGED Start!startVars
  BY <1>1 DEF Start!startVars
<1>2. CASE Start!SessionGoesOn
  BY Zenon, <1>2, EndedFits DEF Start!SessionGoesOn, Start!Sessions
<1>3. CASE Start!Asked
  BY <1>3 DEF Start!Asked, Start!Panels
<1>4. CASE Start!AutoStart
  <2>1. v4' \in Start!Panels /\ v4'.stoppedByUser = v4.stoppedByUser
    BY <1>4 DEF Start!AutoStart, Start!Panels, Start!Sessions
  <2>2. QED
    BY <1>4, <2>1, TabKnows, RequestTells DEF Start!AutoStart, Start!ShouldAutoStart, Start!IsLoaded
<1>5. CASE Start!AutoRetry
  <2>1. v4' \in Start!Panels /\ v4'.stoppedByUser = v4.stoppedByUser
    <3>1. v4' = [v4 EXCEPT !.retries = v4.retries + 1, !.startError = "none"]
      BY <1>5 DEF Start!AutoRetry
    <3>2. v4' = [visible |-> v4.visible, stoppedByUser |-> v4.stoppedByUser, lastAutoStart |-> v4.lastAutoStart,
                 retries |-> v4.retries + 1, startError |-> "none"]
      BY Zenon, <3>1 DEF Start!Panels
    <3>3. QED
      BY <3>2 DEF Start!Panels
  <2>2. QED
    BY Zenon, <1>5, <2>1, TabKnows, RequestTells DEF Start!AutoRetry, Start!Retries
<1>6. CASE Start!StartForBuild
  <2>1. v4' \in Start!Panels /\ v4'.stoppedByUser = v4.stoppedByUser
    BY <1>6 DEF Start!StartForBuild, Start!Panels
  <2>2. QED
    BY <1>6, <2>1, RequestTells DEF Start!StartForBuild, Start!ShouldStartForBuild, Start!IsLoaded
<1>7. ASSUME NEW r \in v5, Start!ServerAnswers(r)
      PROVE  Start!StartInvariant'
  <2>1. PICK answer \in {"ok", "limit", "lost"} :
          /\ v1' = Start!CarriedOut(r.what) \/ v1' = v1
          /\ v5' = (v5 \ {r}) \cup {[r EXCEPT !.answer = answer, !.got = v1']}
    BY Zenon, <1>7 DEF Start!ServerAnswers
  <2>2. /\ v1' \in Start!Sessions
        /\ v1'.detail = "Stopped" => v1'.status = "TERMINATED"
        /\ Start!Active(v1') => v1'.detail = "none"
    BY Zenon, <2>1, CarriedOutFits
  <2>3. PICK q : q = [r EXCEPT !.answer = answer, !.got = v1']
    OBVIOUS
  <2>4. r \in Start!StartRequests
    OBVIOUS
  <2>5. q = [what |-> r.what, by |-> r.by, over |-> r.over, answer |-> answer, got |-> v1']
    BY Zenon, <2>3, <2>4 DEF Start!StartRequests
  <2>6. q \in Start!StartRequests /\ q.by = r.by /\ q.over = r.over
    BY <2>2, <2>4, <2>5 DEF Start!StartRequests
  <2>7. v5' = (v5 \ {r}) \cup {q} /\ UNCHANGED <<v3, v4, v6>>
    BY <1>7, <2>1, <2>3 DEF Start!ServerAnswers
  <2>8. QED
    BY <2>2, <2>6, <2>7
<1>8. ASSUME NEW r \in v5, Start!StartAnswered(r)
      PROVE  Start!StartInvariant'
  BY <1>8 DEF Start!StartAnswered, Start!StartRequests, Start!Panels
<1>9. CASE Start!HandleStart
  <2>1. v4' \in Start!Panels
    BY Zenon, <1>9 DEF Start!HandleStart, Start!Panels
  <2>2. QED
    BY Zenon, <1>9, <2>1, RequestTells DEF Start!HandleStart
<1>10. CASE Start!HandleRestart
  <2>1. v4' \in Start!Panels
    BY <1>10 DEF Start!HandleRestart, Start!Panels
  <2>2. QED
    BY <1>10, <2>1, RequestTells DEF Start!HandleRestart
<1>11. CASE Start!HandleStop
  <2>1. v4' \in Start!Panels /\ v4'.stoppedByUser = TRUE
    BY Zenon, <1>11 DEF Start!HandleStop, Start!Panels
  <2>2. QED
    BY <1>11, <2>1, RequestTells DEF Start!HandleStop
<1>12. CASE Start!SwitchView
  BY Zenon, <1>12 DEF Start!SwitchView, Start!Panels
<1>13. CASE Start!PageLoads
  <2>1. v4' \in Start!Panels /\ v4'.startError = "none" /\ v3' \in Start!Sessions /\ v3'.status = "unknown"
    BY <1>13 DEF Start!PageLoads, Start!FreshPanel, Start!NoSession, Start!Panels, Start!Sessions
  <2>2. /\ v1' \in Start!Sessions
        /\ v1'.detail = "Stopped" => v1'.status = "TERMINATED"
        /\ Start!Active(v1') => v1'.detail = "none"
    BY Zenon, <1>13, CarriedOutFits DEF Start!PageLoads
  <2>3. QED
    BY <1>13, <2>1, <2>2 DEF Start!PageLoads
<1>14. QED
  BY Zenon, <1>1, <1>2, <1>3, <1>4, <1>5, <1>6, <1>7, <1>8, <1>9, <1>10, <1>11, <1>12, <1>13 DEF Start!StartNext

-----------------------------------------------------------------------------
(* PreviewFrame: an error the page took back is not shown. *)
Frame == INSTANCE PreviewFrame WITH runner <- v1, inside <- v2,
  channel <- v3, tab <- v4, asks <- v5, withdrawn <- v6

\* No error is an error that fits any tab.
LEMMA NoErrorFits ==
  ASSUME NEW t, t.errors \in Nat
  PROVE  Frame!ErrorFits(Frame!NoError, t) /\ Frame!NoError.n = 0 /\ Frame!NoError.kind = "none"
BY DEF Frame!ErrorFits, Frame!NoError

\* A tab with the same errors fits as well.
LEMMA SameErrorsFit ==
  ASSUME NEW t, NEW u, NEW taken, Frame!TabFits(t, taken), DOMAIN u = DOMAIN t,
         u.held = t.held, u.shown = t.shown, u.errors = t.errors
  PROVE  Frame!TabFits(u, taken)
BY DEF Frame!TabFits, Frame!ErrorFits

\* A tab that no longer holds, or no longer shows, an error fits as well.
LEMMA FewerErrorsFit ==
  ASSUME NEW t, NEW u, NEW taken, Frame!TabFits(t, taken), DOMAIN u = DOMAIN t,
         u.held = t.held \/ u.held = Frame!NoError, u.shown = t.shown \/ u.shown = Frame!NoError,
         u.errors = t.errors
  PROVE  Frame!TabFits(u, taken)
BY NoErrorFits DEF Frame!TabFits, Frame!ErrorFits

\* An error that is held no longer is shown.
LEMMA ReleasedKeeps ==
  ASSUME NEW t, NEW taken, Frame!TabFits(t, taken)
  PROVE  Frame!TabFits(Frame!Released(t), taken) /\ DOMAIN Frame!Released(t) = DOMAIN t
<1>1. CASE Frame!Released(t) = t
  BY <1>1
<1>2. CASE Frame!Released(t) = [Frame!Show(t, t.held) EXCEPT !.held = Frame!NoError]
  <2>1. PICK u : u = Frame!Show(t, t.held)
    OBVIOUS
  <2>2. u = [t EXCEPT !.shown = t.held, !.hadError = TRUE]
    BY <2>1 DEF Frame!Show
  <2>3. DOMAIN u = DOMAIN t /\ u.shown = t.held /\ u.errors = t.errors
    BY <2>2 DEF Frame!TabFits
  <2>4. PICK r : r = [u EXCEPT !.held = Frame!NoError]
    OBVIOUS
  <2>5. DOMAIN r = DOMAIN t /\ r.shown = t.held /\ r.errors = t.errors /\ r.held = Frame!NoError
    BY <2>3, <2>4 DEF Frame!TabFits
  <2>6. Frame!TabFits(r, taken)
    BY <2>5, NoErrorFits DEF Frame!TabFits, Frame!ErrorFits
  <2>7. QED
    BY <1>2, <2>1, <2>4, <2>5, <2>6
<1>3. QED
  BY <1>1, <1>2 DEF Frame!Released

\* A frame that is mounted holds no error.
LEMMA MountedKeeps ==
  ASSUME NEW t, NEW taken, Frame!TabFits(t, taken)
  PROVE  Frame!TabFits(Frame!Mounted(t), taken) /\ DOMAIN Frame!Mounted(t) = DOMAIN t
<1>1. PICK u : u = Frame!Mounted(t)
  OBVIOUS
<1>2. DOMAIN u = DOMAIN t /\ u.held = Frame!NoError /\ u.shown = t.shown /\ u.errors = t.errors
  BY <1>1 DEF Frame!Mounted, Frame!TabFits
<1>3. QED
  BY <1>1, <1>2, FewerErrorsFit

\* As is one that is another element.
LEMMA ReloadedKeeps ==
  ASSUME NEW t, NEW taken, Frame!TabFits(t, taken)
  PROVE  Frame!TabFits(Frame!Reloaded(t), taken) /\ DOMAIN Frame!Reloaded(t) = DOMAIN t
<1>1. PICK u : u = [t EXCEPT !.mounts = @ + 1]
  OBVIOUS
<1>2. DOMAIN u = DOMAIN t /\ u.held = t.held /\ u.shown = t.shown /\ u.errors = t.errors
  BY <1>1 DEF Frame!TabFits
<1>3. Frame!TabFits(u, taken)
  BY <1>2, SameErrorsFit
<1>4. QED
  BY <1>1, <1>2, <1>3, MountedKeeps DEF Frame!Reloaded

\* What the tab is told changes no error but to show or drop one.
LEMMA LearnKeeps ==
  ASSUME NEW t, NEW taken, Frame!TabFits(t, taken), NEW told
  PROVE  Frame!TabFits(Frame!Learn(t, told), taken) /\ DOMAIN Frame!Learn(t, told) = DOMAIN t
<1>1. PICK k : k = [t EXCEPT !.known = told]
  OBVIOUS
<1>2. DOMAIN k = DOMAIN t /\ k.held = t.held /\ k.shown = t.shown /\ k.errors = t.errors
  BY <1>1 DEF Frame!TabFits
<1>3. PICK released : released = Frame!Released(k)
  OBVIOUS
<1>4. Frame!TabFits(released, taken) /\ DOMAIN released = DOMAIN t
  BY <1>2, <1>3, SameErrorsFit, ReleasedKeeps
<1>5. PICK m : m = Frame!Mounted(released)
  OBVIOUS
<1>6. Frame!TabFits(m, taken) /\ DOMAIN m = DOMAIN t
  BY <1>4, <1>5, MountedKeeps
<1>7. PICK again : again = [m EXCEPT !.refreshes = 0]
  OBVIOUS
<1>8. Frame!TabFits(again, taken) /\ DOMAIN again = DOMAIN t
  <2>1. DOMAIN again = DOMAIN m /\ again.held = m.held /\ again.shown = m.shown /\ again.errors = m.errors
    BY <1>6, <1>7 DEF Frame!TabFits
  <2>2. QED
    BY <1>6, <2>1, SameErrorsFit
<1>9. PICK mounted : mounted = IF told.ready # t.known.ready \/ told.status # t.known.status THEN again ELSE released
  OBVIOUS
<1>10. Frame!TabFits(mounted, taken) /\ DOMAIN mounted = DOMAIN t
  BY <1>4, <1>8, <1>9
<1>11. PICK current : current = IF told.status = "RUNNING" /\ told.revision # t.known.revision
                                   /\ Frame!FrameMissedAnUpdate(mounted)
                                THEN Frame!Reloaded(mounted) ELSE mounted
  OBVIOUS
<1>12. Frame!TabFits(current, taken) /\ DOMAIN current = DOMAIN t
  BY <1>10, <1>11, ReloadedKeeps
<1>13. PICK none : none = [current EXCEPT !.held = Frame!NoError, !.shown = Frame!NoError]
  OBVIOUS
<1>14. Frame!TabFits(none, taken) /\ DOMAIN none = DOMAIN t
  <2>1. DOMAIN none = DOMAIN current /\ none.held = Frame!NoError /\ none.shown = Frame!NoError
        /\ none.errors = current.errors
    BY <1>12, <1>13 DEF Frame!TabFits
  <2>2. QED
    BY <1>12, <2>1, FewerErrorsFit
<1>15. Frame!Learn(t, told) = IF told.status = "CREATING" /\ t.known.status # "CREATING" THEN none ELSE current
  BY <1>1, <1>3, <1>5, <1>7, <1>9, <1>11, <1>13 DEF Frame!Learn
<1>16. QED
  BY <1>12, <1>14, <1>15

\* An error with a new number, held or shown, fits.
LEMMA NewErrorFits ==
  ASSUME NEW t, NEW taken, Frame!TabFits(t, taken), NEW e, e.n = t.errors + 1,
         e.kind \in Frame!ErrorSources \cup {"blank"}, NEW u, DOMAIN u = DOMAIN t, u.errors = t.errors + 1,
         \/ u.held = e /\ u.shown = t.shown
         \/ u.held = t.held /\ u.shown = e
         \/ u.held = t.held /\ u.shown = t.shown
  PROVE  Frame!TabFits(u, taken)
<1>1. e.kind # "none"
  BY DEF Frame!ErrorSources
<1>2. Frame!ErrorFits(e, u)
  BY <1>1 DEF Frame!ErrorFits, Frame!TabFits
<1>3. Frame!ErrorFits(t.held, u) /\ Frame!ErrorFits(t.shown, u)
  BY DEF Frame!ErrorFits, Frame!TabFits
<1>4. taken \subseteq 1..u.errors /\ e.n \notin taken
  BY DEF Frame!TabFits
<1>5. t.held.n \in 0..t.errors /\ t.shown.n \in 0..t.errors /\ e.n # t.held.n /\ e.n # t.shown.n
  BY DEF Frame!ErrorFits, Frame!TabFits
<1>6. QED
  BY <1>2, <1>3, <1>4, <1>5 DEF Frame!TabFits

\* An error the page takes back is held no longer, and was not shown.
LEMMA TakenBackFits ==
  ASSUME NEW t, NEW taken, Frame!TabFits(t, taken), NEW kind, kind \in Frame!ErrorSources \cup {"blank"},
         NEW u, u = Frame!WithoutShown(Frame!WithoutHeld(t, kind), kind)
  PROVE  Frame!TabFits(u, IF t.held.kind = kind THEN taken \cup {t.held.n} ELSE taken)
<1>1. PICK h : h = Frame!WithoutHeld(t, kind)
  OBVIOUS
<1>2. h = [t EXCEPT !.held = IF t.held.kind = kind THEN Frame!NoError ELSE t.held]
  BY <1>1 DEF Frame!WithoutHeld, Frame!TabFits
<1>3. /\ DOMAIN h = DOMAIN t /\ h.shown = t.shown /\ h.errors = t.errors
      /\ h.held = IF t.held.kind = kind THEN Frame!NoError ELSE t.held
  BY <1>2 DEF Frame!TabFits
<1>4. /\ DOMAIN u = DOMAIN t /\ u.held = h.held /\ u.errors = t.errors
      /\ u.shown = t.shown \/ u.shown = Frame!NoError
  BY <1>1, <1>3 DEF Frame!WithoutShown, Frame!TabFits
<1>5. CASE t.held.kind # kind
  BY <1>3, <1>4, <1>5, FewerErrorsFit
<1>6. CASE t.held.kind = kind
  <2>1. kind # "none"
    BY DEF Frame!ErrorSources
  <2>2. t.held.n \in 1..t.errors /\ t.held.n # t.shown.n
    BY <1>6, <2>1 DEF Frame!TabFits, Frame!ErrorFits
  <2>3. Frame!TabFits(u, taken)
    BY <1>3, <1>4, FewerErrorsFit
  <2>4. u.held.n = 0 /\ (u.shown.n = t.shown.n \/ u.shown.n = 0)
    BY <1>3, <1>4, <1>6 DEF Frame!NoError
  <2>5. u.held.n # t.held.n /\ u.shown.n # t.held.n
    BY <2>2, <2>4
  <2>6. QED
    BY <1>4, <1>6, <2>2, <2>3, <2>5 DEF Frame!TabFits
<1>7. QED
  BY <1>5, <1>6

\* What the tab makes of a message.
LEMMA ReceivedKeeps ==
  ASSUME NEW t, NEW taken, Frame!TabFits(t, taken), NEW m \in Frame!Messages,
         NEW u, u = Frame!Received(t, m)
  PROVE  Frame!TabFits(u, IF t.held.kind = Frame!TakenBack(m) THEN taken \cup {t.held.n} ELSE taken)
<1>1. PICK count : count = [t EXCEPT !.errors = @ + 1]
  OBVIOUS
<1>2. /\ DOMAIN count = DOMAIN t /\ count.held = t.held /\ count.shown = t.shown /\ count.errors = t.errors + 1
      /\ t.errors \in Nat
  BY <1>1 DEF Frame!TabFits
<1>3. PICK error : error = [kind |-> m.source, n |-> t.errors + 1, turn |-> t.turn]
  OBVIOUS
<1>4. error.n = t.errors + 1 /\ error.kind = m.source
  BY <1>3
<1>5. PICK blank : blank = Frame!BlankPageError(t.turn, t.errors + 1)
  OBVIOUS
<1>6. blank.n = t.errors + 1 /\ blank.kind = "blank"
  BY <1>5 DEF Frame!BlankPageError
<1>7. t.held.kind # "nothing"
  BY DEF Frame!TabFits, Frame!ErrorFits, Frame!ErrorSources
<1>8. ASSUME NEW e
      PROVE  LET s == Frame!Show(count, e) IN DOMAIN s = DOMAIN t /\ s.held = t.held /\ s.shown = e
                                              /\ s.errors = t.errors + 1
  <2>1. PICK s : s = Frame!Show(count, e)
    OBVIOUS
  <2>2. s = [count EXCEPT !.shown = e, !.hadError = TRUE]
    BY <2>1 DEF Frame!Show
  <2>3. DOMAIN s = DOMAIN t /\ s.held = t.held /\ s.shown = e /\ s.errors = t.errors + 1
    BY <1>2, <2>2 DEF Frame!TabFits
  <2>4. QED
    BY <2>1, <2>3
<1>9. ASSUME NEW e
      PROVE  LET s == [count EXCEPT !.held = e] IN DOMAIN s = DOMAIN t /\ s.held = e /\ s.shown = t.shown
                                                   /\ s.errors = t.errors + 1
  <2>1. PICK s : s = [count EXCEPT !.held = e]
    OBVIOUS
  <2>2. DOMAIN s = DOMAIN t /\ s.held = e /\ s.shown = t.shown /\ s.errors = t.errors + 1
    BY <1>2, <2>1 DEF Frame!TabFits
  <2>3. QED
    BY <2>1, <2>2
<1>10. CASE m.kind \in {"ready", "location"}
  <2>1. Frame!TakenBack(m) = "nothing"
    BY <1>10 DEF Frame!TakenBack
  <2>2. u = [t EXCEPT !.refreshes = 0, !.view = "app", !.spoken = TRUE, !.status = 0]
    BY <1>10 DEF Frame!Received
  <2>3. DOMAIN u = DOMAIN t /\ u.held = t.held /\ u.shown = t.shown /\ u.errors = t.errors
    BY <2>2 DEF Frame!TabFits
  <2>4. QED
    BY <1>7, <2>1, <2>3, SameErrorsFit
<1>11. CASE m.kind = "error"
  <2>1. Frame!TakenBack(m) = "nothing"
    BY <1>11 DEF Frame!TakenBack
  <2>2. m.source \in Frame!ErrorSources
    BY <1>11 DEF Frame!Messages
  <2>3. u = IF Frame!HoldsPreviewErrors(t) THEN [count EXCEPT !.held = error] ELSE Frame!Show(count, error)
    BY <1>1, <1>3, <1>11 DEF Frame!Received
  <2>4. /\ DOMAIN u = DOMAIN t /\ u.errors = t.errors + 1
        /\ (u.held = error /\ u.shown = t.shown) \/ (u.held = t.held /\ u.shown = error)
    BY <1>8, <1>9, <2>3
  <2>5. Frame!TabFits(u, taken)
    BY <1>4, <2>2, <2>4, NewErrorFits
  <2>6. QED
    BY <1>7, <2>1, <2>5
<1>12. CASE m.kind = "blank"
  <2>1. Frame!TakenBack(m) = "nothing"
    BY <1>12 DEF Frame!TakenBack
  <2>2. PICK e : e = IF t.held = Frame!NoError THEN blank ELSE t.held
    OBVIOUS
  <2>3. u = IF Frame!HoldsPreviewErrors(t) THEN [count EXCEPT !.held = e]
            ELSE IF t.shown = Frame!NoError THEN Frame!Show(count, blank) ELSE count
    BY <1>1, <1>2, <1>5, <1>12, <2>2 DEF Frame!Received, Frame!TabFits
  <2>4. /\ DOMAIN u = DOMAIN t /\ u.errors = t.errors + 1
        /\ \/ u.held = blank /\ u.shown = t.shown
           \/ u.held = t.held /\ u.shown = blank
           \/ u.held = t.held /\ u.shown = t.shown
    BY <1>2, <1>8, <1>9, <2>2, <2>3
  <2>5. Frame!TabFits(u, taken)
    BY <1>6, <2>4, NewErrorFits
  <2>6. QED
    BY <1>7, <2>1, <2>5
<1>13. CASE m.kind = "errorCleared"
  <2>1. Frame!TakenBack(m) = m.source
    BY <1>13 DEF Frame!TakenBack
  <2>2. m.source \in Frame!ErrorSources
    BY <1>13 DEF Frame!Messages
  <2>3. u = Frame!WithoutShown(Frame!WithoutHeld(t, m.source), m.source)
    BY <1>13 DEF Frame!Received
  <2>4. PICK source : source = m.source
    OBVIOUS
  <2>5. source \in Frame!ErrorSources \cup {"blank"}
    BY <2>2, <2>4
  <2>6. u = Frame!WithoutShown(Frame!WithoutHeld(t, source), source)
    BY <2>3, <2>4
  <2>7. Frame!TabFits(u, IF t.held.kind = source THEN taken \cup {t.held.n} ELSE taken)
    BY Zenon, <2>5, <2>6, TakenBackFits
  <2>8. QED
    BY <2>1, <2>4, <2>7
<1>14. CASE m.kind = "rendered"
  <2>1. Frame!TakenBack(m) = "blank"
    BY <1>14 DEF Frame!TakenBack
  <2>2. u = Frame!WithoutShown(Frame!WithoutHeld(t, "blank"), "blank")
    BY <1>14 DEF Frame!Received
  <2>3. "blank" \in Frame!ErrorSources \cup {"blank"}
    OBVIOUS
  <2>4. Frame!TabFits(u, IF t.held.kind = "blank" THEN taken \cup {t.held.n} ELSE taken)
    BY Zenon, <2>2, <2>3, TakenBackFits
  <2>5. QED
    BY <2>1, <2>4
<1>15. CASE m.kind = "statusPage"
  <2>1. Frame!TakenBack(m) = "nothing"
    BY <1>15 DEF Frame!TakenBack
  <2>2. PICK view : view = IF Frame!GivesUp(t, m.status) THEN "silent" ELSE "statusPage"
    OBVIOUS
  <2>3. u = [t EXCEPT !.view = view, !.status = m.status, !.throttled = TRUE]
    BY <1>15, <2>2 DEF Frame!Received
  <2>4. DOMAIN u = DOMAIN t /\ u.held = t.held /\ u.shown = t.shown /\ u.errors = t.errors
    BY <2>3 DEF Frame!TabFits
  <2>5. QED
    BY <1>7, <2>1, <2>4, SameErrorsFit
<1>16. QED
  BY <1>10, <1>11, <1>12, <1>13, <1>14, <1>15 DEF Frame!Messages

\* No error is held or shown when the tab opens.
LEMMA FrameInitially ==
  ASSUME Frame!FrameInit
  PROVE  Frame!FrameInvariant
<1>1. v4.errors = 0 /\ v4.held = Frame!NoError /\ v4.shown = Frame!NoError /\ v6 = {} /\ v3 = <<>>
      /\ {"known", "held", "shown", "errors"} \subseteq DOMAIN v4
  BY DEF Frame!FrameInit
<1>2. v3 \in Seq(Frame!Messages)
  BY <1>1, EmptySeq
<1>3. Frame!TabFits(v4, v6)
  BY <1>1, NoErrorFits DEF Frame!TabFits
<1>4. QED
  BY <1>2, <1>3 DEF Frame!FrameInvariant

\* A message that the page inside can send.
LEMMA PostKeeps ==
  ASSUME Frame!FrameInvariant, NEW m \in Frame!Messages, Frame!Post(m), UNCHANGED <<v4, v6>>
  PROVE  Frame!FrameInvariant'
BY AppendProperties DEF Frame!FrameInvariant, Frame!Post, Frame!TabFits, Frame!ErrorFits

\* A tab that fits is what the tab becomes.
LEMMA BecomesKeeps ==
  ASSUME Frame!FrameInvariant, NEW t, Frame!TabFits(t, v6), Frame!Becomes(t), v6' = v6
  PROVE  Frame!FrameInvariant'
<1>1. <<>> \in Seq(Frame!Messages)
  BY EmptySeq
<1>2. v3' \in Seq(Frame!Messages)
  BY <1>1 DEF Frame!FrameInvariant, Frame!Becomes
<1>3. v4' = t
  BY DEF Frame!Becomes
<1>4. QED
  BY <1>2, <1>3 DEF Frame!FrameInvariant, Frame!TabFits, Frame!ErrorFits

\* A tab that fits is what the tab is, while no message comes or goes.
LEMMA TabKeeps ==
  ASSUME Frame!FrameInvariant, Frame!TabFits(v4', v6), v3' = v3, v6' = v6
  PROVE  Frame!FrameInvariant'
BY DEF Frame!FrameInvariant, Frame!TabFits, Frame!ErrorFits

\* Every step keeps the invariant.
LEMMA FrameStep ==
  ASSUME Frame!FrameInvariant, [Frame!FrameNext]_(Frame!frameVars)
  PROVE  Frame!FrameInvariant'
<1>0. Frame!TabFits(v4, v6) /\ v3 \in Seq(Frame!Messages)
  BY DEF Frame!FrameInvariant
<1>1. CASE UNCHANGED <<v3, v4, v6>>
  BY <1>0, <1>1, TabKeeps
<1>2. CASE UNCHANGED Frame!frameVars
  BY <1>1, <1>2 DEF Frame!frameVars
<1>3. CASE Frame!TakesInAChange \/ Frame!Synced \/ Frame!Bounced \/ Frame!Ready \/ Frame!HandleReload
  BY <1>1, <1>3 DEF Frame!TakesInAChange, Frame!Synced, Frame!Bounced, Frame!Ready, Frame!HandleReload
<1>4. CASE Frame!PageStarts
  <2>1. UNCHANGED <<v4, v6>>
    BY <1>4 DEF Frame!PageStarts
  <2>2. \/ Frame!Post([kind |-> "ready"])
        \/ \E status \in Statuses : Frame!Post([kind |-> "statusPage", status |-> status])
        \/ v3' = v3
    BY <1>4 DEF Frame!PageStarts
  <2>3. [kind |-> "ready"] \in Frame!Messages
    BY DEF Frame!Messages
  <2>4. \A status \in Statuses : [kind |-> "statusPage", status |-> status] \in Frame!Messages
    BY DEF Frame!Messages
  <2>5. QED
    BY <1>1, <2>1, <2>2, <2>3, <2>4, PostKeeps
<1>5. ASSUME NEW kind \in Frame!ErrorSources, Frame!Reports(kind)
      PROVE  Frame!FrameInvariant'
  <2>1. [kind |-> "error", source |-> kind] \in Frame!Messages
    BY DEF Frame!Messages
  <2>2. QED
    BY <1>5, <2>1, PostKeeps DEF Frame!Reports
<1>6. CASE Frame!OverlayGone
  <2>1. [kind |-> "errorCleared", source |-> "BuildError"] \in Frame!Messages
    BY DEF Frame!Messages, Frame!ErrorSources
  <2>2. QED
    BY <1>6, <2>1, PostKeeps DEF Frame!OverlayGone
<1>7. CASE Frame!CheckBlank
  <2>1. [kind |-> "blank"] \in Frame!Messages /\ [kind |-> "rendered"] \in Frame!Messages
    BY DEF Frame!Messages
  <2>2. QED
    BY <1>7, <2>1, PostKeeps DEF Frame!CheckBlank
<1>8. CASE Frame!Location
  <2>1. [kind |-> "location"] \in Frame!Messages
    BY DEF Frame!Messages
  <2>2. QED
    BY <1>8, <2>1, PostKeeps DEF Frame!Location
<1>9. CASE Frame!OnMessage
  <2>1. PICK m : m = Head(v3)
    OBVIOUS
  <2>2. v3 # <<>> /\ v3' = Tail(v3) /\ v4' = Frame!Received(v4, m)
        /\ v6' = IF v4.held.kind = Frame!TakenBack(m) THEN v6 \cup {v4.held.n} ELSE v6
    BY <1>9, <2>1 DEF Frame!OnMessage
  <2>3. m \in Frame!Messages /\ v3' \in Seq(Frame!Messages)
    BY <1>0, <2>1, <2>2, HeadTailProperties
  <2>4. PICK u, w : u = v4' /\ w = v6'
    OBVIOUS
  <2>5. Frame!TabFits(u, w)
    BY <1>0, <2>2, <2>3, <2>4, ReceivedKeeps
  <2>6. QED
    BY <2>3, <2>4, <2>5 DEF Frame!FrameInvariant, Frame!TabFits, Frame!ErrorFits
<1>10. CASE Frame!Poll
  BY <1>0, <1>10, LearnKeeps, BecomesKeeps DEF Frame!Poll
<1>11. ASSUME NEW purpose, Frame!Answered(purpose)
       PROVE  Frame!FrameInvariant'
  <2>1. PICK told, again, settled, next :
          /\ told = Frame!Learn(v4, v1) \/ told = v4
          /\ again = [told EXCEPT !.refreshes = @ + 1]
          /\ settled = [told EXCEPT !.settling = FALSE]
          /\ \/ next = Frame!Reloaded(again)
             \/ next = Frame!Reloaded(told)
             \/ next = Frame!Released(settled)
             \/ next = told
          /\ Frame!Becomes(next)
    BY <1>11 DEF Frame!Answered
  <2>2. Frame!TabFits(told, v6)
    BY <1>0, <2>1, LearnKeeps
  <2>3. Frame!TabFits(again, v6)
    <3>1. DOMAIN again = DOMAIN told /\ again.held = told.held /\ again.shown = told.shown
          /\ again.errors = told.errors
      BY <2>1, <2>2 DEF Frame!TabFits
    <3>2. QED
      BY <2>2, <3>1, SameErrorsFit
  <2>4. Frame!TabFits(settled, v6)
    <3>1. DOMAIN settled = DOMAIN told /\ settled.held = told.held /\ settled.shown = told.shown
          /\ settled.errors = told.errors
      BY <2>1, <2>2 DEF Frame!TabFits
    <3>2. QED
      BY <2>2, <3>1, SameErrorsFit
  <2>5. Frame!TabFits(next, v6)
    BY <2>1, <2>2, <2>3, <2>4, ReleasedKeeps, ReloadedKeeps
  <2>6. QED
    BY <1>11, <2>1, <2>5, BecomesKeeps DEF Frame!Answered
<1>12. ASSUME UNCHANGED <<v3, v6>>, DOMAIN v4' = DOMAIN v4, v4'.held = v4.held,
              v4'.shown = v4.shown \/ v4'.shown = Frame!NoError, v4'.errors = v4.errors
       PROVE  Frame!FrameInvariant'
  <2>1. PICK u : u = v4'
    OBVIOUS
  <2>2. Frame!TabFits(u, v6)
    BY <1>0, <1>12, <2>1, FewerErrorsFit
  <2>3. QED
    BY <1>12, <2>1, <2>2, TabKeeps
<1>13. CASE Frame!Silence \/ Frame!Ages
  <2>1. /\ UNCHANGED <<v3, v6>>
        /\ \/ v4' = [v4 EXCEPT !.view = "silent"]
           \/ v4' = [v4 EXCEPT !.young = FALSE]
           \/ v4' = [v4 EXCEPT !.throttled = FALSE]
    BY <1>13 DEF Frame!Silence, Frame!Ages
  <2>2. DOMAIN v4' = DOMAIN v4 /\ v4'.held = v4.held /\ v4'.shown = v4.shown /\ v4'.errors = v4.errors
    BY <1>0, <2>1 DEF Frame!TabFits
  <2>3. QED
    BY <1>12, <2>1, <2>2
<1>14. CASE Frame!BuildBegins \/ Frame!FixThis
  <2>1. PICK b : b = Frame!BuildStarts(v4)
    OBVIOUS
  <2>2. DOMAIN b = DOMAIN v4 /\ b.held = v4.held /\ b.shown = v4.shown /\ b.errors = v4.errors
    BY <1>0, <2>1 DEF Frame!TabFits, Frame!BuildStarts
  <2>3. /\ UNCHANGED <<v3, v6>>
        /\ v4' = b \/ v4' = [b EXCEPT !.attempts = @ + 1, !.shown = Frame!NoError]
    BY <1>14, <2>1 DEF Frame!BuildBegins, Frame!FixThis
  <2>4. /\ DOMAIN v4' = DOMAIN v4 /\ v4'.held = v4.held /\ v4'.errors = v4.errors
        /\ v4'.shown = v4.shown \/ v4'.shown = Frame!NoError
    BY <1>0, <2>2, <2>3 DEF Frame!TabFits
  <2>5. QED
    BY <1>12, <2>3, <2>4
<1>15. CASE Frame!Dismiss
  <2>1. v4' = [v4 EXCEPT !.shown = Frame!NoError] /\ UNCHANGED <<v3, v6>>
    BY <1>15 DEF Frame!Dismiss
  <2>2. DOMAIN v4' = DOMAIN v4 /\ v4'.held = v4.held /\ v4'.shown = Frame!NoError /\ v4'.errors = v4.errors
    BY <1>0, <2>1 DEF Frame!TabFits
  <2>3. QED
    BY <1>12, <2>1, <2>2
<1>16. CASE Frame!BuildEnds
  <2>1. PICK quiet, released, settling, due :
          /\ quiet = [v4 EXCEPT !.building = FALSE]
          /\ released = Frame!Released(quiet)
          /\ settling = [released EXCEPT !.settling = TRUE]
          /\ due = [settling EXCEPT !.hadError = FALSE, !.reloadDue = TRUE]
    OBVIOUS
  <2>2. (v4' = settling \/ v4' = due) /\ UNCHANGED <<v3, v6>>
    BY <1>16, <2>1 DEF Frame!BuildEnds
  <2>3. DOMAIN quiet = DOMAIN v4 /\ quiet.held = v4.held /\ quiet.shown = v4.shown /\ quiet.errors = v4.errors
    BY <1>0, <2>1 DEF Frame!TabFits
  <2>4. Frame!TabFits(released, v6)
    BY <1>0, <2>1, <2>3, SameErrorsFit, ReleasedKeeps
  <2>5. DOMAIN settling = DOMAIN released /\ settling.held = released.held /\ settling.shown = released.shown
        /\ settling.errors = released.errors
    BY <2>1, <2>4 DEF Frame!TabFits
  <2>6. Frame!TabFits(settling, v6)
    BY <2>4, <2>5, SameErrorsFit
  <2>7. DOMAIN due = DOMAIN settling /\ due.held = settling.held /\ due.shown = settling.shown
        /\ due.errors = settling.errors
    BY <2>1, <2>6 DEF Frame!TabFits
  <2>8. Frame!TabFits(due, v6)
    BY <2>6, <2>7, SameErrorsFit
  <2>9. QED
    BY <2>2, <2>6, <2>8, TabKeeps
<1>17. CASE Frame!FollowUpReload
  <2>1. PICK t : t = [v4 EXCEPT !.reloadDue = FALSE, !.shown = Frame!NoError]
    OBVIOUS
  <2>2. DOMAIN t = DOMAIN v4 /\ t.held = v4.held /\ t.shown = Frame!NoError /\ t.errors = v4.errors
    BY <1>0, <2>1 DEF Frame!TabFits
  <2>3. Frame!TabFits(t, v6)
    BY <1>0, <2>2, FewerErrorsFit
  <2>4. Frame!TabFits(Frame!Reloaded(t), v6)
    BY <2>3, ReloadedKeeps
  <2>5. QED
    BY <1>17, <2>1, <2>4, BecomesKeeps DEF Frame!FollowUpReload
<1>18. QED
  BY <1>2, <1>3, <1>4, <1>5, <1>6, <1>7, <1>8, <1>9, <1>10, <1>11, <1>13, <1>14, <1>15, <1>16, <1>17
     DEF Frame!FrameNext, Frame!ErrorSources

\* What the invariant says of errors the page took back.
LEMMA WithdrawnIsNotShown ==
  ASSUME Frame!FrameInvariant
  PROVE  Frame!WithdrawnIsNotShown
BY DEF Frame!FrameInvariant, Frame!TabFits, Frame!WithdrawnIsNotShown

-----------------------------------------------------------------------------
(* FileEditor: a save overwrites no contents its writer has not seen. *)
Editor == INSTANCE FileEditor WITH disk <- v1, latest <- v2, layer <- v3,
  pane <- v4, cached <- v5, reading <- v6, treeLoads <- v7, edit <- v8,
  opening <- v9, saving <- v10, restore <- v11, outside <- v12, known <- v13,
  blind <- v14

\* Nothing is edited when the Code tab opens.
LEMMA EditorInitially ==
  ASSUME Editor!EditorInit
  PROVE  Editor!EditorInvariant
<1>1. v8 = Editor!NoEdit /\ v9 = Editor!NoRead /\ v10 = Editor!NoSave /\ v14 = {}
  BY DEF Editor!EditorInit
<1>2. Editor!EditIsOne /\ Editor!EditIsKnown
  BY <1>1 DEF Editor!EditIsOne, Editor!EditIsKnown, Editor!NoEdit
<1>3. Editor!OpeningIsOne /\ Editor!OpeningIsNamed
  BY <1>1 DEF Editor!OpeningIsOne, Editor!OpeningIsNamed, Editor!NoRead
<1>4. Editor!SavingIsOne /\ Editor!SavingIsKnown
  BY <1>1 DEF Editor!SavingIsOne, Editor!SavingIsKnown, Editor!NoSave
<1>5. QED
  BY <1>1, <1>2, <1>3, <1>4 DEF Editor!EditorInvariant, Editor!NoBlindSave

\* What is known of the edit, the file on its way and the save stays known.
LEMMA NothingIsForgotten ==
  ASSUME Editor!EditorInvariant, v13 \subseteq v13'
  PROVE  /\ UNCHANGED v8 => Editor!EditIsOne' /\ Editor!EditIsKnown'
         /\ UNCHANGED v9 => Editor!OpeningIsOne' /\ Editor!OpeningIsNamed'
         /\ UNCHANGED v10 => Editor!SavingIsOne' /\ Editor!SavingIsKnown'
         /\ UNCHANGED v14 => Editor!NoBlindSave'
BY DEF Editor!EditorInvariant, Editor!EditIsOne, Editor!EditIsKnown, Editor!OpeningIsOne, Editor!OpeningIsNamed,
       Editor!SavingIsOne, Editor!SavingIsKnown, Editor!NoBlindSave, Editor!NoEdit, Editor!NoRead

\* Every step of the Code tab, its server and the others keeps the invariant.
LEMMA EditorStep ==
  ASSUME Editor!EditorInvariant, [Editor!EditorNext]_(Editor!editorVars)
  PROVE  Editor!EditorInvariant'
<1>1. ASSUME UNCHANGED <<v8, v9, v10, v13, v14>>
      PROVE  Editor!EditorInvariant'
  BY <1>1, NothingIsForgotten DEF Editor!EditorInvariant
<1>2. CASE UNCHANGED Editor!editorVars
  BY <1>1, <1>2 DEF Editor!editorVars
<1>3. CASE \/ Editor!Others \/ Editor!StreamBegins \/ Editor!WithTurnFiles \/ Editor!StreamEnds \/ Editor!FileArrives
           \/ Editor!RestoreDialog \/ Editor!RestoreApplied \/ Editor!RestoreFails
  BY <1>1, <1>3 DEF Editor!Others, Editor!StreamBegins, Editor!WithTurnFiles, Editor!StreamEnds, Editor!FileArrives,
     Editor!RestoreDialog, Editor!RestoreApplied, Editor!RestoreFails, Editor!byHand, Editor!history
<1>4. ASSUME NEW f \in Files,
             Editor!Writes(f) \/ Editor!DeletesFile(f) \/ Editor!SelectFile(f) \/ Editor!CloseTab(f)
      PROVE  Editor!EditorInvariant'
  BY <1>1, <1>4 DEF Editor!Writes, Editor!DeletesFile, Editor!SelectFile, Editor!CloseTab, Editor!byHand, Editor!history
<1>5. ASSUME NEW why \in {"first", "after", "restored"}, Editor!LoadTree(why)
      PROVE  Editor!EditorInvariant'
  BY <1>1, <1>5 DEF Editor!LoadTree, Editor!byHand, Editor!history
<1>6. CASE Editor!ServerReads
  <2>1. UNCHANGED <<v8, v10, v13, v14>>
    BY <1>6 DEF Editor!ServerReads, Editor!history
  <2>2. CASE UNCHANGED v9
    BY <1>1, <2>1, <2>2
  <2>3. CASE v9.path # Editor!NoFile /\ v9' = [v9 EXCEPT !.got = v1[v9.path], !.answered = TRUE]
    <3>1. v9' = [path |-> v9.path, got |-> v1[v9.path], answered |-> TRUE]
      BY <2>3 DEF Editor!EditorInvariant, Editor!OpeningIsOne
    <3>2. Editor!OpeningIsOne' /\ Editor!OpeningIsNamed'
      BY <2>3, <3>1 DEF Editor!OpeningIsOne, Editor!OpeningIsNamed, Editor!NoFile
    <3>3. QED
      BY <2>1, <3>2, NothingIsForgotten DEF Editor!EditorInvariant
  <2>4. QED
    BY <1>6, <2>2, <2>3 DEF Editor!ServerReads
<1>7. CASE Editor!ServerSaves
  <2>1. UNCHANGED <<v8, v9, v13>> /\ v10.answer = "asked"
    BY <1>7 DEF Editor!ServerSaves
  <2>2. PICK answer \in {"saved", "lost", "conflict"} : v10' = [v10 EXCEPT !.answer = answer]
    BY <1>7 DEF Editor!ServerSaves
  <2>3. v10' = [path |-> v10.path, draft |-> v10.draft, base |-> v10.base, answer |-> answer]
    BY <2>2 DEF Editor!EditorInvariant, Editor!SavingIsOne
  <2>4. Editor!SavingIsOne' /\ Editor!SavingIsKnown'
    BY <2>1, <2>3 DEF Editor!EditorInvariant, Editor!SavingIsOne, Editor!SavingIsKnown, Editor!NoFile
  <2>5. UNCHANGED v14
    BY <1>7, <2>1 DEF Editor!ServerSaves, Editor!EditorInvariant, Editor!SavingIsKnown
  <2>6. QED
    BY <2>1, <2>4, <2>5, NothingIsForgotten DEF Editor!EditorInvariant
<1>8. CASE Editor!StartEditing
  <2>1. v9' = [path |-> v4.active, got |-> 0, answered |-> FALSE] /\ v4.active # Editor!NoFile
        /\ UNCHANGED <<v8, v10, v13, v14>>
    BY <1>8 DEF Editor!StartEditing, Editor!EditOffered, Editor!AskFile, Editor!history
  <2>2. Editor!OpeningIsOne' /\ Editor!OpeningIsNamed'
    BY <2>1 DEF Editor!OpeningIsOne, Editor!OpeningIsNamed, Editor!NoFile
  <2>3. QED
    BY <2>1, <2>2, NothingIsForgotten DEF Editor!EditorInvariant
<1>9. CASE Editor!EditOpens
  <2>1. v9.answered /\ v9' = Editor!NoRead /\ v13 \subseteq v13' /\ UNCHANGED <<v10, v14>>
    BY <1>9 DEF Editor!EditOpens
  <2>2. Editor!OpeningIsOne' /\ Editor!OpeningIsNamed'
    BY <2>1 DEF Editor!OpeningIsOne, Editor!OpeningIsNamed, Editor!NoRead
  <2>3. v9.path # Editor!NoFile
    BY <2>1 DEF Editor!EditorInvariant, Editor!OpeningIsNamed, Editor!NoRead
  <2>4. CASE v9.got = 0
    BY <1>9, <2>1, <2>2, <2>4, NothingIsForgotten DEF Editor!EditOpens, Editor!EditorInvariant
  <2>5. CASE v9.got # 0
    <3>1. v8' = [path |-> v9.path, base |-> v9.got, saved |-> v9.got, draft |-> v9.got]
          /\ <<v9.path, v8'.saved>> \in v13'
      BY <1>9, <2>5 DEF Editor!EditOpens, Editor!EditOf
    <3>2. Editor!EditIsOne' /\ Editor!EditIsKnown'
      BY <2>3, <3>1 DEF Editor!EditIsOne, Editor!EditIsKnown, Editor!NoFile
    <3>3. QED
      BY <2>1, <2>2, <3>2, NothingIsForgotten DEF Editor!EditorInvariant
  <2>6. QED
    BY <2>4, <2>5
<1>10. CASE Editor!DraftChange
  <2>1. PICK draft : v8' = [v8 EXCEPT !.draft = draft]
    BY <1>10 DEF Editor!DraftChange
  <2>2. v8' = [path |-> v8.path, base |-> v8.base, saved |-> v8.saved, draft |-> draft]
    BY <2>1 DEF Editor!EditorInvariant, Editor!EditIsOne
  <2>3. v8 # Editor!NoEdit /\ v13' = v13 \cup {<<v8.path, v8'.draft>>} /\ UNCHANGED <<v9, v10, v14>>
    BY <1>10 DEF Editor!DraftChange, Editor!EditingActive
  <2>4. Editor!EditIsOne' /\ Editor!EditIsKnown'
    BY <2>2, <2>3 DEF Editor!EditorInvariant, Editor!EditIsOne, Editor!EditIsKnown, Editor!NoFile
  <2>5. QED
    BY <2>3, <2>4, NothingIsForgotten DEF Editor!EditorInvariant
<1>11. CASE Editor!SaveEdit
  <2>1. /\ v10' = [path |-> v8.path, draft |-> v8.draft, base |-> v8.base, answer |-> "asked"]
        /\ v8 # Editor!NoEdit /\ UNCHANGED <<v8, v9, v13, v14>>
    BY <1>11 DEF Editor!SaveEdit, Editor!SaveOffered, Editor!Dirty, Editor!history
  <2>2. Editor!SavingIsOne' /\ Editor!SavingIsKnown'
    BY <2>1 DEF Editor!EditorInvariant, Editor!EditIsKnown, Editor!SavingIsOne, Editor!SavingIsKnown, Editor!NoFile
  <2>3. QED
    BY <2>1, <2>2, NothingIsForgotten DEF Editor!EditorInvariant
<1>12. CASE Editor!SaveAnswered
  <2>1. v10.answer # "none" /\ v10' = Editor!NoSave /\ UNCHANGED <<v9, v13, v14>>
    BY <1>12 DEF Editor!SaveAnswered, Editor!history
  <2>2. Editor!SavingIsOne' /\ Editor!SavingIsKnown'
    BY <2>1 DEF Editor!SavingIsOne, Editor!SavingIsKnown, Editor!NoSave
  <2>3. CASE UNCHANGED v8
    BY <2>1, <2>2, <2>3, NothingIsForgotten DEF Editor!EditorInvariant
  <2>4. CASE v8.path = v10.path /\ v8' = [v8 EXCEPT !.base = v10.draft, !.saved = v10.draft]
    <3>1. v8' = [path |-> v8.path, base |-> v10.draft, saved |-> v10.draft, draft |-> v8.draft]
      BY <2>4 DEF Editor!EditorInvariant, Editor!EditIsOne
    <3>2. v8 # Editor!NoEdit
      BY <2>1, <2>4 DEF Editor!EditorInvariant, Editor!SavingIsKnown, Editor!NoEdit
    <3>3. Editor!EditIsOne' /\ Editor!EditIsKnown'
      <4>1. /\ v8.path # Editor!NoFile /\ <<v8.path, v8.draft>> \in v13 /\ <<v8.path, v10.draft>> \in v13
        BY <2>1, <2>4, <3>2 DEF Editor!EditorInvariant, Editor!EditIsKnown, Editor!SavingIsKnown
      <4>2. Editor!EditIsOne'
        BY <3>1 DEF Editor!EditIsOne
      <4>3. v8'.path = v8.path /\ v8'.base = v10.draft /\ v8'.draft = v8.draft
        BY <3>1
      <4>4. Editor!EditIsKnown'
        BY <2>1, <4>1, <4>3 DEF Editor!EditIsKnown
      <4>5. QED
        BY <4>2, <4>4
    <3>4. QED
      BY <2>1, <2>2, <3>3, NothingIsForgotten DEF Editor!EditorInvariant
  <2>5. QED
    BY <1>12, <2>3, <2>4 DEF Editor!SaveAnswered
<1>13. CASE Editor!Discard \/ Editor!HandleRestored
  <2>1. v8' = Editor!NoEdit /\ UNCHANGED <<v9, v10, v13, v14>>
    BY <1>13 DEF Editor!Discard, Editor!HandleRestored, Editor!history
  <2>2. Editor!EditIsOne' /\ Editor!EditIsKnown'
    BY <2>1 DEF Editor!EditIsOne, Editor!EditIsKnown, Editor!NoEdit
  <2>3. QED
    BY <2>1, <2>2, NothingIsForgotten DEF Editor!EditorInvariant
<1>14. QED
  BY <1>2, <1>3, <1>4, <1>5, <1>6, <1>7, <1>8, <1>9, <1>10, <1>11, <1>12, <1>13 DEF Editor!EditorNext

-----------------------------------------------------------------------------
(* CodeSearch: the hits are those of the text typed. *)
Search == INSTANCE CodeSearch WITH boxText <- v1, waiting <- v2,
  searches <- v3, hits <- v4, searchError <- v5, searching <- v6,
  openedHit <- v7, typed <- v8

\* What is left of a sequence without one of its elements has no others.
LEMMA SearchRemoveAt ==
  ASSUME NEW S, NEW s \in Seq(S), NEW i \in DOMAIN s
  PROVE  Search!RemoveAt(s, i) \in Seq(S)
<1> DEFINE a == SubSeq(s, 1, i - 1)
           b == SubSeq(s, i + 1, Len(s))
<1>1. i \in 1..Len(s) /\ Len(s) \in Nat
  BY LenProperties
<1>2. a \in Seq(S) /\ b \in Seq(S)
  BY <1>1, SubSeqProperties
<1>3. Search!RemoveAt(s, i) = a \o b
  BY DEF Search!RemoveAt
<1> HIDE DEF a, b
<1>4. QED
  BY <1>2, <1>3, ConcatProperties

\* Nothing is searched when the panel opens.
LEMMA SearchInitially ==
  ASSUME Search!SearchInit
  PROVE  Search!SearchInvariant
BY EmptySeq DEF Search!SearchInit, Search!SearchInvariant, Search!HitsAreForTheText

\* A change of the box calls off every search.
LEMMA TypeSearchKeeps ==
  ASSUME NEW text, Search!TypeSearch(text)
  PROVE  Search!SearchInvariant'
<1>1. v3' = <<>>
  BY DEF Search!TypeSearch, Search!Aborted
<1>2. v3' \in Seq({v1'})
  BY <1>1, EmptySeq
<1>3. CASE Search!LongEnough(text)
  BY <1>2, <1>3 DEF Search!TypeSearch, Search!SearchInvariant, Search!HitsAreForTheText
<1>4. CASE ~Search!LongEnough(text)
  BY <1>2, <1>4 DEF Search!TypeSearch, Search!SearchInvariant, Search!HitsAreForTheText
<1>5. QED
  BY <1>3, <1>4

\* Every step of the panel and its server keeps the invariant.
LEMMA SearchStep ==
  ASSUME Search!SearchInvariant, [Search!SearchNext]_(Search!searchVars)
  PROVE  Search!SearchInvariant'
<1> USE DEF Search!SearchInvariant, Search!HitsAreForTheText
<1>1. CASE UNCHANGED Search!searchVars
  BY <1>1 DEF Search!searchVars
<1>2. CASE (\E text \in Texts \cup Short : Search!TypeSearch(text)) \/ Search!ClearSearch
  BY <1>2, TypeSearchKeeps DEF Search!ClearSearch
<1>3. CASE Search!SearchSent
  <2>1. v3' = Append(v3, v1) /\ UNCHANGED <<v1, v4, v6>>
    BY <1>3 DEF Search!SearchSent
  <2>2. v3' \in Seq({v1})
    BY <2>1, AppendProperties
  <2>3. QED
    BY <2>1, <2>2
<1>4. ASSUME NEW i \in DOMAIN v3, NEW hit \in BOOLEAN, Search!SearchFound(i, hit)
      PROVE  Search!SearchInvariant'
  <2>1. v4' = [for |-> v3[i], hit |-> hit] /\ v3' = Search!RemoveAt(v3, i) /\ v1' = v1
    BY <1>4 DEF Search!SearchFound
  <2>2. v3[i] = v1
    OBVIOUS
  <2>3. v3' \in Seq({v1}) /\ v4'.for = v1
    BY <2>1, <2>2, SearchRemoveAt
  <2>4. QED
    BY <2>1, <2>3
<1>5. ASSUME NEW i \in DOMAIN v3, Search!SearchFailed(i)
      PROVE  Search!SearchInvariant'
  <2>1. v4' = Search!NothingFound /\ v3' = Search!RemoveAt(v3, i) /\ v1' = v1
    BY <1>5 DEF Search!SearchFailed
  <2>2. v3' \in Seq({v1})
    BY <2>1, SearchRemoveAt
  <2>3. QED
    BY <2>1, <2>2
<1>6. CASE Search!OpenHit
  BY <1>6 DEF Search!OpenHit
<1>7. QED
  BY <1>1, <1>2, <1>3, <1>4, <1>5, <1>6 DEF Search!SearchNext

-----------------------------------------------------------------------------
(* Lessons: a lesson is asked for once at a time. *)
Lessons == INSTANCE Lessons WITH written <- v1, lessonAsks <- v2,
  keptText <- v3, copied <- v4, learn <- v5, requested <- v6

\* A word of the glossary can be asked for.
LEMMA WordsAreWritings == Words \subseteq Writings
BY Zenon, BrowserAssumption DEF BrowserAssumption

\* Nothing is asked for when the page opens.
LEMMA LessonsInitially ==
  ASSUME Lessons!LessonsInit
  PROVE  Lessons!LessonsInvariant
BY DEF Lessons!LessonsInit, Lessons!LessonsInvariant, Lessons!AsksWrite, Lessons!AskedOnce

\* What is asked for is written once, for it was not being written.
LEMMA RequestIsTheOnlyOne ==
  ASSUME Lessons!LessonsInvariant, NEW k \in Writings, NEW again, Lessons!RequestWriting(k, again)
  PROVE  Lessons!LessonsInvariant'
<1> USE DEF Lessons!LessonsInvariant, Lessons!AsksWrite, Lessons!AskedOnce
<1>1. CASE UNCHANGED <<v1, v2>>
  BY <1>1
<1>2. CASE v1[k] # "loading" /\ v2' = v2 \cup {[key |-> k, n |-> v6']} /\ v1' = [v1 EXCEPT ![k] = "loading"]
  <2>1. PICK ask : ask = [key |-> k, n |-> v6']
    OBVIOUS
  <2>2. \A a \in v2 : a.key # k
    BY <1>2
  <2>3. v1' = [j \in Writings |-> IF j = k THEN "loading" ELSE v1[j]]
    BY <1>2
  <2>4. QED
    BY <1>2, <2>1, <2>2, <2>3
<1>3. QED
  BY <1>1, <1>2 DEF Lessons!RequestWriting

\* Every step of the cards, the panel and their server keeps the invariant.
LEMMA LessonsStep ==
  ASSUME Lessons!LessonsInvariant, [Lessons!LessonsNext]_(Lessons!lessonVars)
  PROVE  Lessons!LessonsInvariant'
<1>1. ASSUME UNCHANGED <<v1, v2>>
      PROVE  Lessons!LessonsInvariant'
  BY <1>1 DEF Lessons!LessonsInvariant, Lessons!AsksWrite, Lessons!AskedOnce
<1>2. CASE UNCHANGED Lessons!lessonVars
  BY <1>1, <1>2 DEF Lessons!lessonVars
<1>3. ASSUME NEW k \in Writings, Lessons!OpenCard(k) \/ Lessons!CloseCard(k) \/ Lessons!AskAgain(k)
      PROVE  Lessons!LessonsInvariant'
  BY <1>1, <1>3, RequestIsTheOnlyOne DEF Lessons!OpenCard, Lessons!CloseCard, Lessons!AskAgain
<1>4. ASSUME NEW w \in Words, Lessons!OpenTerm(w) \/ Lessons!SelectTerm(w)
      PROVE  Lessons!LessonsInvariant'
  BY <1>1, <1>4, WordsAreWritings, RequestIsTheOnlyOne DEF Lessons!OpenTerm, Lessons!SelectTerm
<1>5. ASSUME NEW w \in Words, Lessons!RemoveWord(w)
      PROVE  Lessons!LessonsInvariant'
  <2>1. v2' = v2 /\ v1' = IF v1[w] = "loading" THEN v1 ELSE [v1 EXCEPT ![w] = "none"]
    BY <1>5 DEF Lessons!RemoveWord, Lessons!Forget
  <2>2. QED
    BY <2>1 DEF Lessons!LessonsInvariant, Lessons!AsksWrite, Lessons!AskedOnce
<1>6. ASSUME NEW a \in v2, Lessons!AskAnswered(a)
      PROVE  Lessons!LessonsInvariant'
  <2>1. PICK how \in {"done", "error"} : v2' = v2 \ {a} /\ v1' = [v1 EXCEPT ![a.key] = how]
    BY <1>6 DEF Lessons!AskAnswered
  <2>2. \A b \in v2' : b \in v2 /\ b.key # a.key
    BY <2>1 DEF Lessons!LessonsInvariant, Lessons!AskedOnce
  <2>3. QED
    BY <2>1, <2>2 DEF Lessons!LessonsInvariant, Lessons!AsksWrite, Lessons!AskedOnce
<1>7. CASE Lessons!ReadKept
  BY <1>1, <1>7 DEF Lessons!ReadKept
<1>8. QED
  BY <1>2, <1>3, <1>4, <1>5, <1>6, <1>7 DEF Lessons!LessonsNext

-----------------------------------------------------------------------------
(* CodeNotes: an exchange that was deleted early is not saved. *)
Notes == INSTANCE CodeNotes WITH notes <- v1, thread <- v2, loaded <- v3,
  notesLoading <- v4, streams <- v5, saves <- v6, deletes <- v7, asked <- v8,
  deletedEarly <- v9

\* The turns kept of a thread.
LEMMA KeptTurns ==
  ASSUME NEW U, NEW turns \in Seq(U), NEW some, NEW r, r = Notes!Kept(turns, some)
  PROVE  /\ r \in Seq(U)
         /\ \A i \in 1..Len(r) : r[i] \in some /\ \E j \in 1..Len(turns) : r[i] = turns[j]
<1>1. r = Kept(turns, some)
  BY Zenon DEF Notes!Kept, Kept
<1>2. r \in Seq(U) /\ \A i \in DOMAIN r : r[i] \in some /\ \E j \in DOMAIN turns : r[i] = turns[j]
  BY <1>1, KeptKeeps
<1>3. DOMAIN r = 1..Len(r) /\ DOMAIN turns = 1..Len(turns)
  BY <1>2, LenProperties
<1>4. QED
  BY <1>2, <1>3

\* The elements of a finite set in some order.
LEMMA SetAsSequence ==
  ASSUME NEW S, IsFiniteSet(S)
  PROVE  Notes!SetToSeq(S) \in Seq(S)
<1>1. Cardinality(S) \in Nat /\ ExistsBijection(1..Cardinality(S), S)
  BY FS_CardinalityType
<1>2. PICK f \in [1..Cardinality(S) -> S] : \A a, b \in 1..Cardinality(S) : f[a] = f[b] => a = b
  BY <1>1 DEF ExistsBijection, Bijection, Injection, IsInjective
<1>9. Notes!Cardinality(S) = Cardinality(S)
  BY Zenon DEF Notes!Cardinality, Cardinality
<1>3. Notes!SetToSeq(S) \in [1..Cardinality(S) -> S]
  BY <1>2, <1>9 DEF Notes!SetToSeq, Notes!IsInjective
<1>4. QED
  BY <1>1, <1>3

\* A thread made of parts that fit.
LEMMA ThreadFits ==
  ASSUME NEW t, NEW open \in BOOLEAN, NEW selection \in Selections \cup {Notes!NoSelection},
         NEW turns \in Seq(Notes!Turns), NEW busy \in BOOLEAN, NEW error \in BOOLEAN,
         t = [open |-> open, selection |-> selection, turns |-> turns, busy |-> busy, error |-> error]
  PROVE  t \in Notes!Threads /\ t.turns = turns
BY DEF Notes!Threads

\* The parts of a thread.
LEMMA ThreadParts ==
  ASSUME v2 \in Notes!Threads
  PROVE  /\ v2 = [open |-> v2.open, selection |-> v2.selection, turns |-> v2.turns, busy |-> v2.busy,
                  error |-> v2.error]
         /\ v2.open \in BOOLEAN /\ v2.busy \in BOOLEAN /\ v2.error \in BOOLEAN
         /\ v2.selection \in Selections \cup {Notes!NoSelection}
         /\ v2.turns \in Seq(Notes!Turns) /\ Len(v2.turns) \in Nat
<1>1. v2.turns \in Seq(Notes!Turns)
  BY DEF Notes!Threads
<1>2. Len(v2.turns) \in Nat
  BY <1>1, LenProperties
<1>3. QED
  BY <1>1, <1>2 DEF Notes!Threads

\* A turn made of parts that fit.
LEMMA TurnFits ==
  ASSUME NEW t, NEW ex \in Nat, NEW note \in BOOLEAN, NEW quote \in Selections \cup {Notes!NoSelection},
         NEW streaming \in BOOLEAN, NEW text \in BOOLEAN,
         t = [ex |-> ex, note |-> note, quote |-> quote, streaming |-> streaming, text |-> text]
  PROVE  t \in Notes!Turns /\ t.ex = ex
BY DEF Notes!Turns

\* A turn with another flag is a turn, of the same exchange.
LEMMA TurnChanges ==
  ASSUME NEW t \in Notes!Turns
  PROVE  /\ [t EXCEPT !.streaming = FALSE] \in Notes!Turns /\ [t EXCEPT !.streaming = FALSE].ex = t.ex
         /\ [t EXCEPT !.note = TRUE] \in Notes!Turns /\ [t EXCEPT !.note = TRUE].ex = t.ex
         /\ [t EXCEPT !.text = TRUE] \in Notes!Turns /\ [t EXCEPT !.text = TRUE].ex = t.ex
<1>1. [t EXCEPT !.streaming = FALSE] \in Notes!Turns /\ [t EXCEPT !.streaming = FALSE].ex = t.ex
  BY DEF Notes!Turns
<1>2. [t EXCEPT !.note = TRUE] \in Notes!Turns /\ [t EXCEPT !.note = TRUE].ex = t.ex
  BY DEF Notes!Turns
<1>3. [t EXCEPT !.text = TRUE] \in Notes!Turns /\ [t EXCEPT !.text = TRUE].ex = t.ex
  BY DEF Notes!Turns
<1>4. QED
  BY <1>1, <1>2, <1>3

\* Turns of the same exchanges, each perhaps with another flag.
LEMMA TurnsChange ==
  ASSUME NEW turns \in Seq(Notes!Turns), NEW m, m = [i \in 1..Len(turns) |-> m[i]],
         \A i \in 1..Len(turns) : m[i] \in Notes!Turns /\ m[i].ex = turns[i].ex
  PROVE  m \in Seq(Notes!Turns) /\ Len(m) = Len(turns)
<1>1. Len(turns) \in Nat
  BY LenProperties
<1>2. m \in [1..Len(turns) -> Notes!Turns]
  OBVIOUS
<1>3. m \in Seq(Notes!Turns)
  BY <1>1, <1>2
<1>4. QED
  BY <1>1, <1>2, <1>3, LenProperties

\* The thread moves on, with turns of exchanges that were not deleted early.
LEMMA ThreadGoesOn ==
  ASSUME Notes!NotesInvariant, v2' \in Notes!Threads,
         \A i \in 1..Len(v2'.turns) : v2'.turns[i].ex \in Notes!Exchanges \ v9,
         UNCHANGED <<v1, v4, v5, v6, v8, v9>>
  PROVE  Notes!NotesInvariant'
BY DEF Notes!NotesInvariant, Notes!Exchanges

\* Asking for the notes brings no answer yet.
LEMMA LoadingKeeps ==
  ASSUME Notes!NotesInvariant, Notes!LoadNotes
  PROVE  /\ v4' = [on |-> v4'.on, answered |-> v4'.answered, got |-> v4'.got]
         /\ v4'.got \subseteq v4.got
<1>1. CASE v4' = v4
  BY <1>1 DEF Notes!NotesInvariant
<1>2. CASE v4' = [Notes!NotLoading EXCEPT !.on = TRUE]
  BY <1>2 DEF Notes!NotLoading
<1>3. QED
  BY <1>1, <1>2 DEF Notes!LoadNotes

\* There is no thread when the project opens.
LEMMA NotesInitially ==
  ASSUME Notes!NotesInit
  PROVE  Notes!NotesInvariant
<1>1. <<>> \in Seq(Notes!Turns) /\ Len(<<>>) = 0
  BY EmptySeq
<1>2. v2 \in Notes!Threads /\ v2.turns = <<>>
  BY <1>1, ThreadFits DEF Notes!NotesInit, Notes!NoThread
<1>3. v1 \subseteq {0} /\ v4.got = {} /\ v6 = {} /\ v5 = {} /\ v9 = {} /\ v8 = 0
  BY DEF Notes!NotesInit, Notes!NotLoading
<1>4. v4 = [on |-> v4.on, answered |-> v4.answered, got |-> v4.got]
  BY DEF Notes!NotesInit, Notes!NotLoading
<1>5. QED
  BY <1>1, <1>2, <1>3, <1>4 DEF Notes!NotesInvariant, Notes!Exchanges

\* The panel opens with some code to ask about.
LEMMA OpenThreadKeeps ==
  ASSUME Notes!NotesInvariant, NEW s \in Selections \cup {Notes!NoSelection}, Notes!OpenThread(s),
         UNCHANGED <<v1, v6, v7, v9>>
  PROVE  Notes!NotesInvariant'
<1>1. v2 \in Notes!Threads
  BY DEF Notes!NotesInvariant
<1>2. v2' = [open |-> TRUE, selection |-> s, turns |-> v2.turns, busy |-> v2.busy, error |-> FALSE]
  BY <1>1, ThreadParts DEF Notes!OpenThread
<1>3. v2' \in Notes!Threads /\ v2'.turns = v2.turns
  BY <1>1, <1>2, ThreadFits, ThreadParts
<1>4. v4' = [on |-> v4'.on, answered |-> v4'.answered, got |-> v4'.got] /\ v4'.got \subseteq v4.got
  BY LoadingKeeps DEF Notes!OpenThread
<1>5. QED
  BY <1>3, <1>4 DEF Notes!NotesInvariant, Notes!Exchanges, Notes!OpenThread

\* A question opens an exchange that none of the others is.
LEMMA StreamAnswerKeeps ==
  ASSUME Notes!NotesInvariant, NEW s, NEW quote \in Selections \cup {Notes!NoSelection},
         Notes!StreamAnswer(s, quote), UNCHANGED <<v1, v6, v7, v9>>,
         Notes!LoadNotes \/ UNCHANGED <<v3, v4>>
  PROVE  Notes!NotesInvariant'
<1>1. v2 \in Notes!Threads /\ v8 \in Nat
  BY DEF Notes!NotesInvariant
<1>2. PICK turn : turn = [ex |-> v8 + 1, note |-> FALSE, quote |-> quote, streaming |-> TRUE, text |-> FALSE]
  OBVIOUS
<1>3. turn \in Notes!Turns /\ turn.ex = v8 + 1
  <2>1. v8 + 1 \in Nat /\ FALSE \in BOOLEAN /\ TRUE \in BOOLEAN
    BY <1>1
  <2>2. QED
    BY Zenon, <1>2, <2>1, TurnFits
<1>4. PICK turns : turns = Append(v2.turns, turn)
  OBVIOUS
<1>5. /\ turns \in Seq(Notes!Turns) /\ Len(turns) = Len(v2.turns) + 1 /\ turns[Len(v2.turns) + 1] = turn
      /\ \A i \in 1..Len(v2.turns) : turns[i] = v2.turns[i]
  BY <1>1, <1>3, <1>4, ThreadParts, AppendProperties
<1>6. v2' = [open |-> TRUE, selection |-> Notes!NoSelection, turns |-> turns, busy |-> TRUE, error |-> FALSE]
  BY <1>1, <1>2, <1>4, ThreadParts DEF Notes!StreamAnswer
<1>7. v2' \in Notes!Threads /\ v2'.turns = turns
  BY <1>5, <1>6, ThreadFits
<1>8. \A i \in 1..Len(turns) : i \in 1..Len(v2.turns) \/ i = Len(v2.turns) + 1
  BY <1>1, <1>5, ThreadParts
<1>9. \A i \in 1..Len(turns) : turns[i].ex \in (Notes!Exchanges \ v9) \cup {v8 + 1}
  BY <1>3, <1>5, <1>8 DEF Notes!NotesInvariant
<1>10. v4' = [on |-> v4'.on, answered |-> v4'.answered, got |-> v4'.got] /\ v4'.got \subseteq v4.got
  BY LoadingKeeps DEF Notes!NotesInvariant
<1>11. v8' = v8 + 1 /\ v5' = v5 \cup {v8 + 1}
  BY DEF Notes!StreamAnswer
<1>12. v8 + 1 \notin Notes!Exchanges /\ Notes!Exchanges' = Notes!Exchanges \cup {v8 + 1}
  BY <1>1, <1>11 DEF Notes!Exchanges
<1>13. \A i \in 1..Len(v2'.turns) : v2'.turns[i].ex \in Notes!Exchanges' \ v9'
  <2>1. v9' = v9 /\ v8 + 1 \notin v9
    BY <1>12 DEF Notes!NotesInvariant
  <2>2. QED
    BY <1>7, <1>9, <1>12, <2>1
<1>14. v5' \cup v9' \subseteq Notes!Exchanges'
  BY <1>11, <1>12 DEF Notes!NotesInvariant
<1>15. v1' \cup v4'.got \cup {s1.ex : s1 \in v6'} \subseteq Notes!Exchanges' \ (v5' \cup v9')
  BY <1>10, <1>11, <1>12 DEF Notes!NotesInvariant
<1>16. QED
  BY <1>1, <1>7, <1>10, <1>11, <1>13, <1>14, <1>15 DEF Notes!NotesInvariant

\* The code a question is about is some selection, or none.
LEMMA QuotesAreSelections ==
  ASSUME NEW s \in Selections \cup {Notes!NoSelection}
  PROVE  Notes!SelectionForNextTurn(s) \in Selections \cup {Notes!NoSelection}
BY DEF Notes!SelectionForNextTurn

\* Ways to ask.
LEMMA AskingKeeps ==
  ASSUME Notes!NotesInvariant,
         \/ \E s \in Selections : Notes!SelectCode(s) \/ Notes!OpenAndExplain(s) \/ Notes!AskAbout(s)
         \/ Notes!ExplainStep
         \/ Notes!AskInPanel
  PROVE  Notes!NotesInvariant'
<1>1. ASSUME NEW s \in Selections, Notes!SelectCode(s)
      PROVE  Notes!NotesInvariant'
  BY <1>1, OpenThreadKeeps DEF Notes!SelectCode
<1>2. ASSUME NEW s \in Selections, Notes!OpenAndExplain(s)
      PROVE  Notes!NotesInvariant'
  BY <1>2, OpenThreadKeeps, StreamAnswerKeeps DEF Notes!OpenAndExplain, Notes!Explain
<1>3. ASSUME NEW s \in Selections, Notes!AskAbout(s)
      PROVE  Notes!NotesInvariant'
  <2>1. CASE v2' = [v2 EXCEPT !.open = TRUE, !.error = TRUE] /\ Notes!LoadNotes /\ UNCHANGED <<v5, v8>>
    <3>1. v2 \in Notes!Threads
      BY DEF Notes!NotesInvariant
    <3>2. v2' = [open |-> TRUE, selection |-> v2.selection, turns |-> v2.turns, busy |-> v2.busy, error |-> TRUE]
      BY <2>1, <3>1, ThreadParts
    <3>3. v2' \in Notes!Threads /\ v2'.turns = v2.turns
      BY <3>1, <3>2, ThreadFits, ThreadParts
    <3>4. v4' = [on |-> v4'.on, answered |-> v4'.answered, got |-> v4'.got] /\ v4'.got \subseteq v4.got
      BY <2>1, LoadingKeeps
    <3>5. UNCHANGED <<v1, v6, v7, v9>>
      BY <1>3 DEF Notes!AskAbout
    <3>6. QED
      BY <2>1, <3>3, <3>4, <3>5 DEF Notes!NotesInvariant, Notes!Exchanges
  <2>2. CASE Notes!AskQuestion(s) /\ Notes!LoadNotes
    BY <1>3, <2>2, QuotesAreSelections, StreamAnswerKeeps DEF Notes!AskAbout, Notes!AskQuestion
  <2>3. QED
    BY <1>3, <2>1, <2>2 DEF Notes!AskAbout
<1>4. ASSUME Notes!ExplainStep
      PROVE  Notes!NotesInvariant'
  BY <1>4, OpenThreadKeeps, StreamAnswerKeeps DEF Notes!ExplainStep
<1>5. ASSUME Notes!AskInPanel
      PROVE  Notes!NotesInvariant'
  <2>1. v2.selection \in Selections \cup {Notes!NoSelection}
    BY ThreadParts DEF Notes!NotesInvariant
  <2>2. UNCHANGED <<v1, v3, v4, v6, v7, v9>>
    BY <1>5 DEF Notes!AskInPanel
  <2>3. CASE Notes!AskQuestion(v2.selection)
    BY <2>1, <2>2, <2>3, QuotesAreSelections, StreamAnswerKeeps DEF Notes!AskQuestion
  <2>4. CASE Notes!Explain(v2.selection)
    BY <2>1, <2>2, <2>4, StreamAnswerKeeps DEF Notes!Explain
  <2>5. QED
    BY <1>5, <2>3, <2>4 DEF Notes!AskInPanel
<1>6. QED
  BY <1>1, <1>2, <1>3, <1>4, <1>5

\* An answer arrives, and ends.
LEMMA AnsweringKeeps ==
  ASSUME Notes!NotesInvariant, NEW ex, Notes!AnswerChunk(ex) \/ Notes!StreamFinishes(ex)
  PROVE  Notes!NotesInvariant'
<1>1. v2 \in Notes!Threads /\ v2.turns \in Seq(Notes!Turns) /\ Len(v2.turns) \in Nat
  BY ThreadParts DEF Notes!NotesInvariant
<1>2. \A i \in 1..Len(v2.turns) : v2.turns[i] \in Notes!Turns
  BY <1>1
<1>3. ASSUME Notes!AnswerChunk(ex)
      PROVE  Notes!NotesInvariant'
  <2>1. PICK i \in 1..Len(v2.turns) : v2' = [v2 EXCEPT !.turns[i].text = TRUE]
    BY <1>3 DEF Notes!AnswerChunk
  <2>2. PICK turns : turns = [v2.turns EXCEPT ![i].text = TRUE]
    OBVIOUS
  <2>3. turns = [j \in 1..Len(v2.turns) |-> IF j = i THEN [v2.turns[i] EXCEPT !.text = TRUE] ELSE v2.turns[j]]
    <3>1. PICK e : e = [v2.turns[i] EXCEPT !.text = TRUE]
      OBVIOUS
    <3>2. turns = [v2.turns EXCEPT ![i] = e]
      BY <2>2, <3>1
    <3>3. v2.turns = [j \in 1..Len(v2.turns) |-> v2.turns[j]]
      BY <1>1
    <3>4. turns = [j \in 1..Len(v2.turns) |-> IF j = i THEN e ELSE v2.turns[j]]
      BY <3>2, <3>3
    <3>5. QED
      BY <3>1, <3>4
  <2>4. turns = [j \in 1..Len(v2.turns) |-> turns[j]]
    BY <2>3
  <2>5. \A j \in 1..Len(v2.turns) : turns[j] \in Notes!Turns /\ turns[j].ex = v2.turns[j].ex
    BY <1>2, <2>3, TurnChanges
  <2>6. turns \in Seq(Notes!Turns) /\ Len(turns) = Len(v2.turns)
    BY <1>1, <2>4, <2>5, TurnsChange
  <2>7. v2' = [v2 EXCEPT !.turns = turns]
    BY <2>1, <2>2
  <2>8. v2' = [open |-> v2.open, selection |-> v2.selection, turns |-> turns, busy |-> v2.busy, error |-> v2.error]
    BY <1>1, <2>7, ThreadParts
  <2>9. v2' \in Notes!Threads /\ v2'.turns = turns
    BY <1>1, <2>6, <2>8, ThreadFits, ThreadParts
  <2>10. \A j \in 1..Len(v2'.turns) : v2'.turns[j].ex \in Notes!Exchanges \ v9
    BY <2>5, <2>6, <2>9 DEF Notes!NotesInvariant
  <2>11. QED
    BY <1>3, <2>9, <2>10, ThreadGoesOn DEF Notes!AnswerChunk
<1>4. ASSUME Notes!StreamFinishes(ex)
      PROVE  Notes!NotesInvariant'
  <2>1. PICK failed \in BOOLEAN :
          /\ v2' = [v2 EXCEPT !.busy = FALSE, !.turns = Notes!Settle(ex), !.error = @ \/ failed]
          /\ v6' = IF ~failed /\ Notes!AnswerOf(ex) THEN v6 \cup {[ex |-> ex, answer |-> "none"]} ELSE v6
    BY <1>4 DEF Notes!StreamFinishes
  <2>2. PICK turns : turns = Notes!Settle(ex)
    OBVIOUS
  <2>3. turns = [j \in 1..Len(v2.turns) |->
                   IF v2.turns[j].ex = ex THEN [v2.turns[j] EXCEPT !.streaming = FALSE] ELSE v2.turns[j]]
    BY <2>2 DEF Notes!Settle
  <2>4. turns = [j \in 1..Len(v2.turns) |-> turns[j]]
    BY <2>3
  <2>5. \A j \in 1..Len(v2.turns) : turns[j] \in Notes!Turns /\ turns[j].ex = v2.turns[j].ex
    BY <1>2, <2>3, TurnChanges
  <2>6. turns \in Seq(Notes!Turns) /\ Len(turns) = Len(v2.turns)
    BY <1>1, <2>4, <2>5, TurnsChange
  <2>7. PICK error \in BOOLEAN : error = (v2.error \/ failed)
    BY <1>1, ThreadParts
  <2>8. v2' = [open |-> v2.open, selection |-> v2.selection, turns |-> turns, busy |-> FALSE, error |-> error]
    BY <1>1, <2>1, <2>2, <2>7, ThreadParts
  <2>9. v2' \in Notes!Threads /\ v2'.turns = turns
    BY <1>1, <2>6, <2>8, ThreadFits, ThreadParts
  <2>10. \A j \in 1..Len(v2'.turns) : v2'.turns[j].ex \in Notes!Exchanges \ v9
    BY <2>5, <2>6, <2>9 DEF Notes!NotesInvariant
  <2>11. \A s \in v6' : s = [ex |-> s.ex, answer |-> s.answer]
    BY <2>1 DEF Notes!NotesInvariant
  <2>12. v5' = v5 \ {ex} /\ ex \in v5 /\ UNCHANGED <<v1, v3, v4, v7, v8, v9>>
    BY <1>4 DEF Notes!StreamFinishes
  <2>13. Notes!AnswerOf(ex) => ex \in Notes!Exchanges \ v9
    BY DEF Notes!AnswerOf, Notes!NotesInvariant
  <2>14. \A s \in v6' : s.ex \in Notes!Exchanges \ (v5' \cup v9)
    BY <2>1, <2>12, <2>13 DEF Notes!NotesInvariant
  <2>15. QED
    BY <2>9, <2>10, <2>11, <2>12, <2>14 DEF Notes!NotesInvariant, Notes!Exchanges
<1>5. QED
  BY <1>3, <1>4

\* The notes that were read are put before the turns that are not of one of them.
LEMMA NotesLoadedKeeps ==
  ASSUME Notes!NotesInvariant, Notes!NotesLoaded
  PROVE  Notes!NotesInvariant'
<1>1. v2 \in Notes!Threads /\ v2.turns \in Seq(Notes!Turns) /\ Len(v2.turns) \in Nat /\ v8 \in Nat
  BY ThreadParts DEF Notes!NotesInvariant
<1>2. v4' = Notes!NotLoading /\ UNCHANGED <<v1, v5, v6, v7, v8, v9>>
  BY DEF Notes!NotesLoaded
<1>3. v4' = [on |-> v4'.on, answered |-> v4'.answered, got |-> v4'.got] /\ v4'.got = {}
  BY <1>2 DEF Notes!NotLoading
<1>4. v4.got \subseteq Notes!Exchanges \ v9
  BY DEF Notes!NotesInvariant
<1>5. ASSUME NEW some, v2' = [v2 EXCEPT !.turns = Notes!SetToSeq({Notes!NoteToTurns(n) : n \in v4.got})
                                                    \o Notes!Kept(@, some)]
      PROVE  v2' \in Notes!Threads /\ \A i \in 1..Len(v2'.turns) : v2'.turns[i].ex \in Notes!Exchanges \ v9
  <2> DEFINE S == {Notes!NoteToTurns(n) : n \in v4.got}
             T == {t \in Notes!Turns : t.ex \in Notes!Exchanges \ v9}
  <2>1. IsFiniteSet(v4.got)
    <3>1. IsFiniteSet(0..v8) /\ v4.got \subseteq 0..v8
      <4>1. v8 \in Int /\ 0 \in Int
        BY <1>1
      <4>2. IsFiniteSet(0..v8)
        BY <4>1, FS_Interval
      <4>3. QED
        BY <1>4, <4>2 DEF Notes!Exchanges
    <3>2. QED
      BY <3>1, FS_Subset
  <2>2. IsFiniteSet(S)
    <3>1. PICK f : f = [n \in v4.got |-> Notes!NoteToTurns(n)]
      OBVIOUS
    <3>2. f \in Surjection(v4.got, S)
      BY <3>1 DEF Surjection
    <3>3. QED
      BY <2>1, <3>2, FS_Surjection
  <2>3. S \subseteq T
    <3>1. ASSUME NEW n \in v4.got
          PROVE  Notes!NoteToTurns(n) \in T
      <4>1. n \in Nat /\ n \in Notes!Exchanges \ v9
        BY <1>1, <1>4 DEF Notes!Exchanges
      <4>2. Notes!NoteToTurns(n) \in Notes!Turns /\ Notes!NoteToTurns(n).ex = n
        BY <4>1, TurnFits DEF Notes!NoteToTurns
      <4>3. QED
        BY <4>1, <4>2
    <3>2. QED
      BY <3>1
  <2>4. PICK first : first = Notes!SetToSeq(S)
    OBVIOUS
  <2> HIDE DEF S
  <2>5. first \in Seq(T)
    <3>1. first \in Seq(S)
      BY <2>2, <2>4, SetAsSequence
    <3>2. QED
      BY <2>3, <3>1
  <2>6. v2.turns \in Seq(T)
    <3>1. \A i \in 1..Len(v2.turns) : v2.turns[i] \in T
      BY <1>1 DEF Notes!NotesInvariant
    <3>2. v2.turns \in [1..Len(v2.turns) -> T]
      BY <1>1, <3>1
    <3>3. QED
      BY <1>1, <3>2
  <2> HIDE DEF T
  <2>7. PICK rest : rest = Notes!Kept(v2.turns, some)
    OBVIOUS
  <2>8. rest \in Seq(T)
    BY <2>6, <2>7, KeptTurns
  <2>9. PICK all : all = first \o rest
    OBVIOUS
  <2>10. all \in Seq(T)
    BY <2>5, <2>8, <2>9, ConcatProperties
  <2>11. all \in Seq(Notes!Turns) /\ \A i \in 1..Len(all) : all[i].ex \in Notes!Exchanges \ v9
    <3>1. \A i \in 1..Len(all) : all[i] \in T
      BY <2>10
    <3>2. Len(all) \in Nat /\ all \in [1..Len(all) -> T]
      BY <2>10, LenProperties
    <3>3. QED
      BY <3>1, <3>2 DEF T
  <2>12. v2' = [v2 EXCEPT !.turns = all]
    BY <1>5, <2>4, <2>7, <2>9 DEF S
  <2>13. v2' = [open |-> v2.open, selection |-> v2.selection, turns |-> all, busy |-> v2.busy, error |-> v2.error]
    BY <1>1, <2>12, ThreadParts
  <2>14. QED
    BY <1>1, <2>11, <2>13, ThreadFits, ThreadParts
<1>6. CASE v2' = [v2 EXCEPT !.error = TRUE]
  <2>1. v2' = [open |-> v2.open, selection |-> v2.selection, turns |-> v2.turns, busy |-> v2.busy, error |-> TRUE]
    BY <1>1, <1>6, ThreadParts
  <2>2. v2' \in Notes!Threads /\ v2'.turns = v2.turns
    BY <1>1, <2>1, ThreadFits, ThreadParts
  <2>3. QED
    BY <1>2, <1>3, <2>2 DEF Notes!NotesInvariant, Notes!Exchanges
<1>7. CASE \E some : v2' = [v2 EXCEPT !.turns = Notes!SetToSeq({Notes!NoteToTurns(n) : n \in v4.got})
                                                  \o Notes!Kept(@, some)]
  BY <1>2, <1>3, <1>5, <1>7 DEF Notes!NotesInvariant, Notes!Exchanges
<1>8. QED
  BY <1>6, <1>7 DEF Notes!NotesLoaded

\* Exchanges are saved, and the thread learns of it.
LEMMA SavingKeeps ==
  ASSUME Notes!NotesInvariant, NEW s \in v6, Notes!SaveReaches(s) \/ Notes!SaveAnsweredNote(s)
  PROVE  Notes!NotesInvariant'
<1>1. v2 \in Notes!Threads /\ v2.turns \in Seq(Notes!Turns) /\ Len(v2.turns) \in Nat
  BY ThreadParts DEF Notes!NotesInvariant
<1>2. s = [ex |-> s.ex, answer |-> s.answer]
  BY DEF Notes!NotesInvariant
<1>3. ASSUME Notes!SaveReaches(s)
      PROVE  Notes!NotesInvariant'
  <2>1. PICK saved : saved = [s EXCEPT !.answer = "saved"]
    OBVIOUS
  <2>2. saved = [ex |-> s.ex, answer |-> "saved"]
    BY <1>2, <2>1
  <2>3. saved = [ex |-> saved.ex, answer |-> saved.answer] /\ saved.ex = s.ex
    BY <2>2
  <2>4. v6' \subseteq v6 \cup {saved} /\ v1' \subseteq v1 \cup {s.ex}
    BY <1>3, <2>1 DEF Notes!SaveReaches
  <2>5. {r.ex : r \in v6'} \subseteq {r.ex : r \in v6}
    BY <2>3, <2>4
  <2>6. v1' \cup {r.ex : r \in v6'} \subseteq v1 \cup {r.ex : r \in v6}
    BY <2>4, <2>5
  <2>7. \A r \in v6' : r = [ex |-> r.ex, answer |-> r.answer]
    BY <2>3, <2>4 DEF Notes!NotesInvariant
  <2>8. UNCHANGED <<v2, v3, v4, v5, v7, v8, v9>>
    BY <1>3 DEF Notes!SaveReaches
  <2>9. QED
    BY <2>6, <2>7, <2>8 DEF Notes!NotesInvariant, Notes!Exchanges
<1>4. ASSUME Notes!SaveAnsweredNote(s)
      PROVE  Notes!NotesInvariant'
  <2>1. PICK turns : turns = [i \in 1..Len(v2.turns) |->
                  IF v2.turns[i].ex = s.ex THEN [v2.turns[i] EXCEPT !.note = TRUE] ELSE v2.turns[i]]
    OBVIOUS
  <2>2. turns = [i \in 1..Len(v2.turns) |-> turns[i]]
    BY <2>1
  <2>3. \A i \in 1..Len(v2.turns) : turns[i] \in Notes!Turns /\ turns[i].ex = v2.turns[i].ex
    <3>1. ASSUME NEW i \in 1..Len(v2.turns)
          PROVE  turns[i] \in Notes!Turns /\ turns[i].ex = v2.turns[i].ex
      <4>1. v2.turns[i] \in Notes!Turns
        BY <1>1
      <4>2. turns[i] = [v2.turns[i] EXCEPT !.note = TRUE] \/ turns[i] = v2.turns[i]
        BY <2>1
      <4>3. QED
        BY <4>1, <4>2, TurnChanges
    <3>2. QED
      BY <3>1
  <2>4. turns \in Seq(Notes!Turns) /\ Len(turns) = Len(v2.turns)
    BY <1>1, <2>2, <2>3, TurnsChange
  <2>5. v2' = [v2 EXCEPT !.turns = turns]
    BY <1>4, <2>1 DEF Notes!SaveAnsweredNote
  <2>6. v2' = [open |-> v2.open, selection |-> v2.selection, turns |-> turns, busy |-> v2.busy, error |-> v2.error]
    BY <1>1, <2>5, ThreadParts
  <2>7. v2' \in Notes!Threads /\ v2'.turns = turns
    BY <1>1, <2>4, <2>6, ThreadFits, ThreadParts
  <2>8. \A i \in 1..Len(v2'.turns) : v2'.turns[i].ex \in Notes!Exchanges \ v9
    BY <2>3, <2>4, <2>7 DEF Notes!NotesInvariant
  <2>9. v6' \subseteq v6 /\ UNCHANGED <<v1, v3, v4, v5, v7, v8, v9>>
    BY <1>4 DEF Notes!SaveAnsweredNote
  <2>10. {r.ex : r \in v6'} \subseteq {r.ex : r \in v6}
    BY <2>9
  <2>11. QED
    BY <2>7, <2>8, <2>9, <2>10 DEF Notes!NotesInvariant, Notes!Exchanges
<1>5. QED
  BY <1>3, <1>4

\* An exchange deleted early is no longer in the thread.
LEMMA DeletingKeeps ==
  ASSUME Notes!NotesInvariant, NEW ex, Notes!DeleteExchange(ex)
  PROVE  Notes!NotesInvariant'
<1>1. v2 \in Notes!Threads /\ v2.turns \in Seq(Notes!Turns) /\ Len(v2.turns) \in Nat
  BY ThreadParts DEF Notes!NotesInvariant
<1>2. PICK some : some = {t \in Notes!ToSet(v2.turns) : t.ex # ex}
  OBVIOUS
<1>3. PICK turns : turns = Notes!Kept(v2.turns, some)
  OBVIOUS
<1>4. /\ turns \in Seq(Notes!Turns)
      /\ \A i \in 1..Len(turns) : turns[i] \in some /\ \E j \in 1..Len(v2.turns) : turns[i] = v2.turns[j]
  BY <1>1, <1>3, KeptTurns
<1>5. \A i \in 1..Len(turns) : turns[i].ex # ex /\ turns[i].ex \in Notes!Exchanges \ v9
  BY <1>2, <1>4 DEF Notes!NotesInvariant
<1>6. v2' = [v2 EXCEPT !.turns = turns, !.error = FALSE]
  BY <1>2, <1>3 DEF Notes!DeleteExchange
<1>7. v2' = [open |-> v2.open, selection |-> v2.selection, turns |-> turns, busy |-> v2.busy, error |-> FALSE]
  BY <1>1, <1>6, ThreadParts
<1>8. v2' \in Notes!Threads /\ v2'.turns = turns
  BY <1>1, <1>4, <1>7, ThreadFits, ThreadParts
<1>9. v9' \subseteq v9 \cup {ex} /\ (v9' = v9 \/ ex \in v5) /\ UNCHANGED <<v1, v3, v4, v5, v6, v8>>
  BY DEF Notes!DeleteExchange
<1>10. v9' \subseteq v9 \cup v5
  BY <1>9
<1>11. \A i \in 1..Len(v2'.turns) : v2'.turns[i].ex \in Notes!Exchanges \ v9'
  BY <1>5, <1>8, <1>9
<1>12. QED
  BY <1>8, <1>9, <1>10, <1>11 DEF Notes!NotesInvariant, Notes!Exchanges

\* Every step keeps the invariant.
LEMMA NotesStep ==
  ASSUME Notes!NotesInvariant, [Notes!NotesNext]_(Notes!noteVars)
  PROVE  Notes!NotesInvariant'
<1>0. /\ v2 \in Notes!Threads /\ v2.turns \in Seq(Notes!Turns) /\ Len(v2.turns) \in Nat
      /\ v4 = [on |-> v4.on, answered |-> v4.answered, got |-> v4.got]
  BY ThreadParts DEF Notes!NotesInvariant
<1>1. CASE UNCHANGED Notes!noteVars
  BY <1>1 DEF Notes!NotesInvariant, Notes!noteVars, Notes!Exchanges
<1>2. CASE Notes!NotesServerReads
  <2>1. v4' = [v4 EXCEPT !.answered = TRUE, !.got = v1] /\ UNCHANGED <<v1, v2, v3, v5, v6, v7, v8, v9>>
    BY <1>2 DEF Notes!NotesServerReads
  <2>2. v4' = [on |-> v4.on, answered |-> TRUE, got |-> v1]
    BY <1>0, <2>1
  <2>3. v4' = [on |-> v4'.on, answered |-> v4'.answered, got |-> v4'.got] /\ v4'.got = v1
    BY <2>2
  <2>4. QED
    BY <2>1, <2>3 DEF Notes!NotesInvariant, Notes!Exchanges
<1>3. CASE Notes!CloseOrDismiss
  <2>1. \/ v2' = [v2 EXCEPT !.open = FALSE]
        \/ v2' = [v2 EXCEPT !.error = FALSE]
        \/ v2' = [v2 EXCEPT !.selection = Notes!NoSelection]
    BY <1>3 DEF Notes!CloseOrDismiss
  <2>2. \E open, error \in BOOLEAN, selection \in Selections \cup {Notes!NoSelection} :
          v2' = [open |-> open, selection |-> selection, turns |-> v2.turns, busy |-> v2.busy, error |-> error]
    BY <1>0, <2>1, ThreadParts
  <2>3. v2' \in Notes!Threads /\ v2'.turns = v2.turns
    BY <1>0, <2>2, ThreadFits, ThreadParts
  <2>4. \A i \in 1..Len(v2'.turns) : v2'.turns[i].ex \in Notes!Exchanges \ v9
    BY <2>3 DEF Notes!NotesInvariant
  <2>5. QED
    BY <1>3, <2>3, <2>4, ThreadGoesOn DEF Notes!CloseOrDismiss
<1>4. CASE Notes!ClearNotes
  <2>1. v2' = [v2 EXCEPT !.turns = <<>>, !.error = FALSE] /\ v9' = v9 \cup v5 /\ UNCHANGED <<v1, v3, v4, v5, v6, v8>>
    BY <1>4 DEF Notes!ClearNotes
  <2>2. v2' = [open |-> v2.open, selection |-> v2.selection, turns |-> <<>>, busy |-> v2.busy, error |-> FALSE]
    BY <1>0, <2>1, ThreadParts
  <2>3. <<>> \in Seq(Notes!Turns) /\ Len(<<>>) = 0
    BY EmptySeq
  <2>4. v2' \in Notes!Threads /\ v2'.turns = <<>>
    BY <1>0, <2>2, <2>3, ThreadFits, ThreadParts
  <2>5. QED
    BY <2>1, <2>3, <2>4 DEF Notes!NotesInvariant, Notes!Exchanges
<1>5. ASSUME NEW d \in v7, Notes!DeletionAnswered(d)
      PROVE  Notes!NotesInvariant'
  <2>1. UNCHANGED <<v5, v6, v8, v9>>
    BY <1>5 DEF Notes!DeletionAnswered
  <2>2. CASE v1' = v1 \ d /\ UNCHANGED <<v2, v3, v4>>
    BY <2>1, <2>2 DEF Notes!NotesInvariant, Notes!Exchanges
  <2>3. CASE v2' = [v2 EXCEPT !.error = TRUE] /\ v4' = [Notes!NotLoading EXCEPT !.on = TRUE] /\ v1' = v1
    <3>1. v2' = [open |-> v2.open, selection |-> v2.selection, turns |-> v2.turns, busy |-> v2.busy, error |-> TRUE]
      BY <1>0, <2>3, ThreadParts
    <3>2. v2' \in Notes!Threads /\ v2'.turns = v2.turns
      BY <1>0, <3>1, ThreadFits, ThreadParts
    <3>3. v4' = [on |-> v4'.on, answered |-> v4'.answered, got |-> v4'.got] /\ v4'.got = {}
      BY <2>3 DEF Notes!NotLoading
    <3>4. QED
      BY <2>1, <2>3, <3>2, <3>3 DEF Notes!NotesInvariant, Notes!Exchanges
  <2>4. QED
    BY <1>5, <2>2, <2>3 DEF Notes!DeletionAnswered
<1>6. CASE Notes!NotesNext
  BY <1>2, <1>3, <1>4, <1>5, <1>6, NotesLoadedKeeps, AskingKeeps, AnsweringKeeps, SavingKeeps, DeletingKeeps
     DEF Notes!NotesNext
<1>7. QED
  BY <1>1, <1>6

\* What the invariant says of exchanges deleted early.
LEMMA WithdrawnIsNotSaved ==
  ASSUME Notes!NotesInvariant
  PROVE  Notes!WithdrawnIsNotSaved
BY DEF Notes!NotesInvariant, Notes!WithdrawnIsNotSaved

-----------------------------------------------------------------------------
(* UsagePage: a request is listed once. *)
Usage == INSTANCE UsagePage WITH made <- v1, today <- v2, meterRead <- v3,
  cachedPages <- v4, cachedRanges <- v5, usageList <- v6

\* What a page adds to a list is not in it, and each once.
LEMMA NewOnesAreNew ==
  ASSUME NEW shown, NEW ids \in Usage!Listing
  PROVE  /\ Usage!NewOnes(shown, ids) \in Usage!Listing
         /\ \A i \in 1..Len(Usage!NewOnes(shown, ids)) : Usage!NewOnes(shown, ids)[i] \notin Usage!ToSet(shown)
<1> DEFINE old == Usage!ToSet(shown)
           some == Usage!ToSet(ids) \ old
           r == Usage!NewOnes(shown, ids)
<1>1. ids \in Seq(Nat) /\ Len(ids) \in Nat /\ DOMAIN ids = 1..Len(ids)
  BY LenProperties DEF Usage!Listing
<1>2. \A i, j \in DOMAIN ids : ids[i] = ids[j] => i = j
  BY <1>1 DEF Usage!Listing
<1>3. r = Kept(ids, some)
  BY Zenon DEF Usage!NewOnes, Usage!Kept, Kept
<1> HIDE DEF r
<1>4. /\ r \in Seq(Nat) /\ \A i \in DOMAIN r : r[i] \in some
      /\ \A i, j \in DOMAIN r : r[i] = r[j] => i = j
  <2> HIDE DEF some
  <2>1. r \in Seq(Nat) /\ (\A i \in DOMAIN r : r[i] \in some) /\ (Once(ids) => Once(r))
    BY <1>1, <1>3, KeptKeeps
  <2>2. QED
    BY <1>2, <2>1 DEF Once
<1>5. DOMAIN r = 1..Len(r)
  BY <1>4, LenProperties
<1> HIDE DEF old
<1>6. QED
  BY <1>4, <1>5 DEF r, old, Usage!Listing

\* A list with a page added lists each request once.
LEMMA AddingKeeps ==
  ASSUME NEW shown \in Usage!Listing, NEW p, NEW ids \in Usage!Listing
  PROVE  Usage!PageAdded(shown, p, ids) \in Usage!Listing
<1>1. PICK new : new = Usage!NewOnes(shown, ids)
  OBVIOUS
<1>2. new \in Usage!Listing /\ \A i \in 1..Len(new) : new[i] \notin Usage!ToSet(shown)
  BY <1>1, NewOnesAreNew
<1>3. PICK all : all = shown \o new
  OBVIOUS
<1>4. /\ all \in Seq(Nat) /\ Len(all) = Len(shown) + Len(new)
      /\ \A i \in 1..Len(all) : all[i] = IF i <= Len(shown) THEN shown[i] ELSE new[i - Len(shown)]
  BY <1>2, <1>3, ConcatProperties DEF Usage!Listing
<1>5. Len(shown) \in Nat /\ Len(new) \in Nat /\ DOMAIN shown = 1..Len(shown)
  BY <1>2, LenProperties DEF Usage!Listing
<1>6. \A i \in 1..Len(shown) : shown[i] \in Usage!ToSet(shown)
  BY <1>5 DEF Usage!ToSet
<1>7. ASSUME NEW i \in 1..Len(all), NEW j \in 1..Len(all), all[i] = all[j]
      PROVE  i = j
  <2>1. CASE i <= Len(shown) /\ j <= Len(shown)
    BY <1>4, <1>5, <1>7, <2>1 DEF Usage!Listing
  <2>2. CASE i > Len(shown) /\ j > Len(shown)
    <3>1. i - Len(shown) \in 1..Len(new) /\ j - Len(shown) \in 1..Len(new)
      BY <1>4, <1>5, <2>2
    <3>2. new[i - Len(shown)] = new[j - Len(shown)]
      BY <1>4, <1>5, <1>7, <2>2
    <3>3. i - Len(shown) = j - Len(shown)
      BY <1>2, <3>1, <3>2 DEF Usage!Listing
    <3>4. QED
      BY <1>5, <3>3
  <2>3. CASE i <= Len(shown) /\ j > Len(shown)
    <3>1. j - Len(shown) \in 1..Len(new) /\ i \in 1..Len(shown)
      BY <1>4, <1>5, <2>3
    <3>2. shown[i] = new[j - Len(shown)]
      BY <1>4, <1>5, <1>7, <2>3
    <3>3. QED
      BY <1>2, <1>6, <3>1, <3>2
  <2>4. CASE j <= Len(shown) /\ i > Len(shown)
    <3>1. i - Len(shown) \in 1..Len(new) /\ j \in 1..Len(shown)
      BY <1>4, <1>5, <2>4
    <3>2. shown[j] = new[i - Len(shown)]
      BY <1>4, <1>5, <1>7, <2>4
    <3>3. QED
      BY <1>2, <1>6, <3>1, <3>2
  <2>5. QED
    BY <1>4, <1>5, <2>1, <2>2, <2>3, <2>4
<1>8. all \in Usage!Listing
  BY <1>4, <1>7 DEF Usage!Listing
<1>9. QED
  BY <1>1, <1>3, <1>8 DEF Usage!PageAdded

\* The numbers a page of the list is of.
LEMMA PagesArePositive ==
  ASSUME NEW p \in Nat
  PROVE  PageSize \in Nat /\ p * PageSize \in Nat /\ (p + 1) * PageSize \in Nat /\ (p + 1) * PageSize >= p + 1
         /\ (p + 1) * PageSize = p * PageSize + PageSize
<1>1. PageSize \in Nat /\ PageSize # 0
  BY BrowserAssumption
<1>2. PageSize - 1 \in Nat
  BY <1>1
<1>3. (p + 1) * PageSize = p * PageSize + PageSize
  BY <1>1
<1>4. p * PageSize >= p /\ p * PageSize \in Nat
  BY <1>1
<1>5. QED
  BY <1>1, <1>3, <1>4

\* A page that is read lists each request once.
LEMMA PageReadFits ==
  ASSUME NEW p \in Nat, v1 \in Nat
  PROVE  Usage!PageOf(p).ids \in Usage!Listing
<1>1. PICK m, n : m = p * PageSize + 1 /\ n = IF v1 < (p + 1) * PageSize THEN v1 ELSE (p + 1) * PageSize
  OBVIOUS
<1>2. m \in Nat \ {0} /\ n \in Nat /\ n <= v1
  <2>1. p * PageSize \in Nat /\ (p + 1) * PageSize \in Nat
    BY PagesArePositive
  <2>2. QED
    BY <1>1, <2>1
<1>3. PICK s : s = [i \in 1..v1 |-> v1 + 1 - i]
  OBVIOUS
<1>4. \A i \in m..n : s[i] \in Nat
  BY <1>2, <1>3
<1>5. PICK ids : ids = SubSeq(s, m, n)
  OBVIOUS
<1>6. /\ ids \in Seq(Nat) /\ Len(ids) = IF m <= n THEN n - m + 1 ELSE 0
      /\ \A i \in 1..(n - m + 1) : ids[i] = s[m + i - 1]
  BY <1>2, <1>4, <1>5, SubSeqProperties
<1>7. \A i \in 1..Len(ids) : ids[i] = v1 + 1 - (m + i - 1)
  <2>1. ASSUME NEW i \in 1..Len(ids)
        PROVE  ids[i] = v1 + 1 - (m + i - 1)
    <3>1. i \in 1..(n - m + 1) /\ m + i - 1 \in 1..v1
      BY <1>2, <1>6
    <3>2. ids[i] = s[m + i - 1]
      BY <1>6, <3>1
    <3>3. QED
      BY <1>3, <3>1, <3>2
  <2>2. QED
    BY <2>1
<1>8. \A i, j \in 1..Len(ids) : ids[i] = ids[j] => i = j
  BY <1>2, <1>6, <1>7
<1>9. ids \in Usage!Listing
  BY <1>6, <1>8 DEF Usage!Listing
<1>10. QED
  BY <1>1, <1>3, <1>5, <1>9 DEF Usage!PageOf, Usage!NewestFirst

\* Nothing is listed before the page is opened.
LEMMA NothingListed == <<>> \in Usage!Listing
<1>1. <<>> \in Seq(Nat) /\ Len(<<>>) = 0
  BY EmptySeq
<1>2. QED
  BY <1>1 DEF Usage!Listing

\* The list is empty, and the browser has no page of it, at first.
LEMMA UsageInitially ==
  ASSUME Usage!UsageInit
  PROVE  Usage!UsageInvariant
<1>1. MaxMade \in Nat
  BY BrowserAssumption
<1>2. v1 = 0 /\ v1 \in 0..MaxMade /\ 0 \in 0..MaxMade
  BY <1>1 DEF Usage!UsageInit
<1>3. v6 = [open |-> FALSE, page |-> 0, reading |-> FALSE, shown |-> <<>>, range |-> "7d", exporting |-> FALSE]
  BY DEF Usage!UsageInit, Usage!Unopened
<1>4. v4 = [p \in Usage!PagesMade |-> Usage!NoListPage]
  BY DEF Usage!UsageInit
<1>5. \A p \in Usage!PagesMade : Usage!PageFits(p)
  BY <1>4, NothingListed DEF Usage!PageFits, Usage!NoListPage
<1>6. QED
  BY <1>2, <1>3, <1>4, <1>5, NothingListed DEF Usage!UsageInvariant, Usage!PagesMade

\* The page is opened, or shows one page more.
LEMMA GoesToKeeps ==
  ASSUME Usage!UsageInvariant, NEW p \in Usage!PagesMade, NEW shown \in Usage!Listing, Usage!GoesTo(p, shown),
         UNCHANGED <<v1, v4>>
  PROVE  Usage!UsageInvariant'
<1>1. PICK all : all = IF v4[p].known THEN Usage!PageAdded(shown, p, v4[p].ids) ELSE shown
  OBVIOUS
<1>2. all \in Usage!Listing
  BY <1>1, AddingKeeps DEF Usage!UsageInvariant, Usage!PageFits
<1>3. v6' = [v6 EXCEPT !.open = TRUE, !.page = p, !.reading = TRUE, !.shown = all]
  BY <1>1 DEF Usage!GoesTo
<1>4. v6' = [open |-> TRUE, page |-> p, reading |-> TRUE, shown |-> all, range |-> v6.range,
             exporting |-> v6.exporting]
  BY <1>3 DEF Usage!UsageInvariant
<1>5. QED
  BY <1>2, <1>4 DEF Usage!UsageInvariant, Usage!PageFits, Usage!PagesMade

\* Every step keeps the invariant.
LEMMA UsageStep ==
  ASSUME Usage!UsageInvariant, [Usage!UsageNext]_(Usage!usageVars)
  PROVE  Usage!UsageInvariant'
<1>0. /\ v1 \in Nat /\ MaxMade \in Nat /\ v1 \in 0..MaxMade
      /\ v6 = [open |-> v6.open, page |-> v6.page, reading |-> v6.reading, shown |-> v6.shown,
               range |-> v6.range, exporting |-> v6.exporting]
      /\ v6.page \in 0..MaxMade /\ v6.page \in Nat
  <2>1. MaxMade \in Nat
    BY BrowserAssumption
  <2>2. QED
    BY <2>1 DEF Usage!UsageInvariant, Usage!PagesMade
<1>1. CASE UNCHANGED <<v1, v4, v6>>
  BY <1>1 DEF Usage!UsageInvariant, Usage!PageFits
<1>2. CASE Usage!UsesAI
  <2>1. v1' = v1 + 1 /\ v1 < MaxMade /\ UNCHANGED <<v4, v6>>
    BY <1>2 DEF Usage!UsesAI
  <2>2. \A p \in Usage!PagesMade : p \in Nat /\ (p + 1) * PageSize \in Nat
    BY <1>0, PagesArePositive DEF Usage!PagesMade
  <2>3. \A p \in Usage!PagesMade : Usage!PageFits(p)'
    BY <1>0, <2>1, <2>2 DEF Usage!UsageInvariant, Usage!PageFits
  <2>4. v1' \in 0..MaxMade
    BY <1>0, <2>1
  <2>5. QED
    BY <2>1, <2>3, <2>4 DEF Usage!UsageInvariant, Usage!PagesMade
<1>3. CASE Usage!OpenUsage
  <2>1. 0 \in Usage!PagesMade
    BY <1>0 DEF Usage!PagesMade
  <2>2. QED
    BY <1>3, <2>1, NothingListed, GoesToKeeps DEF Usage!OpenUsage
<1>4. CASE Usage!LeaveUsage
  <2>1. v6' = [Usage!Unopened EXCEPT !.range = v6.range] /\ UNCHANGED <<v1, v4>>
    BY <1>4 DEF Usage!LeaveUsage
  <2>2. v6' = [open |-> FALSE, page |-> 0, reading |-> FALSE, shown |-> <<>>, range |-> v6.range, exporting |-> FALSE]
    BY <2>1 DEF Usage!Unopened
  <2>3. 0 \in Usage!PagesMade
    BY <1>0 DEF Usage!PagesMade
  <2>4. QED
    <3>1. v6'.page = 0 /\ v6'.shown = <<>>
      BY <2>2
    <3>2. v6' = [open |-> v6'.open, page |-> v6'.page, reading |-> v6'.reading, shown |-> v6'.shown,
                 range |-> v6'.range, exporting |-> v6'.exporting]
      BY <2>2
    <3>3. v6'.page \in Usage!PagesMade /\ v6'.shown \in Usage!Listing
      BY <2>3, <3>1, NothingListed
    <3>4. QED
      BY <2>1, <3>2, <3>3 DEF Usage!UsageInvariant, Usage!PageFits, Usage!PagesMade
<1>5. CASE Usage!LoadMore
  <2>1. v4[v6.page].more /\ Usage!GoesTo(v6.page + 1, v6.shown) /\ UNCHANGED <<v1, v4>>
    BY <1>5 DEF Usage!LoadMore, Usage!LoadMoreIsOffered
  <2>2. (v6.page + 1) * PageSize < v1
    BY <1>0, <2>1 DEF Usage!UsageInvariant, Usage!PageFits
  <2>3. v6.page + 1 < v1
    BY <1>0, <2>2, PagesArePositive
  <2>4. v6.page + 1 \in Usage!PagesMade
    BY <1>0, <2>3 DEF Usage!PagesMade
  <2>5. v6.shown \in Usage!Listing
    BY DEF Usage!UsageInvariant
  <2>6. QED
    BY <2>1, <2>4, <2>5, GoesToKeeps
<1>6. CASE Usage!GetUsageEvents
  <2>1. PICK page : page = Usage!PageOf(v6.page)
    OBVIOUS
  <2>2. /\ v4' = [v4 EXCEPT ![v6.page] = page]
        /\ v6' = [v6 EXCEPT !.reading = FALSE, !.shown = Usage!PageAdded(@, v6.page, page.ids)]
        /\ v1' = v1
    BY <1>6, <2>1 DEF Usage!GetUsageEvents
  <2>3. /\ page = [known |-> page.known, ids |-> page.ids, more |-> page.more]
        /\ page.more => v1 > (v6.page + 1) * PageSize
    BY <2>1 DEF Usage!PageOf
  <2>4. page.ids \in Usage!Listing
    BY <1>0, <2>1, PageReadFits
  <2>5. PICK all : all = Usage!PageAdded(v6.shown, v6.page, page.ids)
    OBVIOUS
  <2>6. all \in Usage!Listing
    BY <2>4, <2>5, AddingKeeps DEF Usage!UsageInvariant
  <2>7. v6' = [v6 EXCEPT !.reading = FALSE, !.shown = all]
    BY <2>2, <2>5
  <2>8. v6' = [open |-> v6.open, page |-> v6.page, reading |-> FALSE, shown |-> all,
               range |-> v6.range, exporting |-> v6.exporting]
    BY <1>0, <2>7
  <2>9. v4' = [p \in Usage!PagesMade |-> IF p = v6.page THEN page ELSE v4[p]]
    BY <2>2 DEF Usage!UsageInvariant
  <2>10. (v6.page + 1) * PageSize \in Nat
    BY <1>0, PagesArePositive
  <2>11. \A p \in Usage!PagesMade : Usage!PageFits(p)'
    BY <1>0, <2>2, <2>3, <2>4, <2>9, <2>10 DEF Usage!UsageInvariant, Usage!PageFits
  <2>12. QED
    <3>1. v6' = [open |-> v6'.open, page |-> v6'.page, reading |-> v6'.reading, shown |-> v6'.shown,
                 range |-> v6'.range, exporting |-> v6'.exporting]
      BY <2>8
    <3>2. v6'.page \in Usage!PagesMade /\ v6'.shown \in Usage!Listing
      BY <2>6, <2>8 DEF Usage!UsageInvariant
    <3>3. v4' = [p \in Usage!PagesMade |-> v4'[p]]
      BY <2>9
    <3>4. v1' \in 0..MaxMade
      BY <1>0, <2>2
    <3>5. QED
      BY <2>11, <3>1, <3>2, <3>3, <3>4 DEF Usage!UsageInvariant, Usage!PagesMade
<1>7. CASE UNCHANGED <<v1, v4>> /\ \/ \E r : v6' = [v6 EXCEPT !.reading = r]
                                   \/ \E r : v6' = [v6 EXCEPT !.range = r]
                                   \/ \E r : v6' = [v6 EXCEPT !.exporting = r]
  <2>1. \E r, s, t : v6' = [open |-> v6.open, page |-> v6.page, reading |-> r, shown |-> v6.shown,
                            range |-> s, exporting |-> t]
    BY <1>0, <1>7
  <2>2. QED
    BY <1>7, <2>1 DEF Usage!UsageInvariant, Usage!PageFits, Usage!PagesMade
<1>8. CASE Usage!LookAtUsageAgain \/ Usage!ReadingFails \/ Usage!SetRange \/ Usage!ExportCsv \/ Usage!Exported
  BY <1>7, <1>8 DEF Usage!LookAtUsageAgain, Usage!ReadingFails, Usage!SetRange, Usage!ExportCsv, Usage!Exported
<1>9. CASE Usage!DayEnds \/ Usage!ReadMeter \/ Usage!GetUsageToday \/ Usage!GetUsageInsights
  BY <1>1, <1>9 DEF Usage!DayEnds, Usage!ReadMeter, Usage!GetUsageToday, Usage!GetUsageInsights
<1>10. CASE UNCHANGED Usage!usageVars
  BY <1>1, <1>10 DEF Usage!usageVars
<1>11. QED
  BY <1>2, <1>3, <1>4, <1>5, <1>6, <1>8, <1>9, <1>10 DEF Usage!UsageNext

\* A list that lists each request once is what the page shows.
LEMMA ListedOnce ==
  ASSUME Usage!UsageInvariant
  PROVE  Usage!ListedOnce
<1>1. v6.shown \in Usage!Listing
  BY DEF Usage!UsageInvariant
<1>2. DOMAIN v6.shown = 1..Len(v6.shown)
  BY <1>1, LenProperties DEF Usage!Listing
<1>3. QED
  BY <1>1, <1>2 DEF Usage!ListedOnce, Usage!IsInjective, Usage!Listing
=============================================================================
