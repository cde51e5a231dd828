------------------------------ MODULE PlanPages ------------------------------
(***************************************************************************)
(* The pricing and billing pages, and the dialog that confirms a change of *)
(* plan: what they offer by their copy of the subscription, and how the    *)
(* copy follows what was asked for.  The server (Billing) is seen as a     *)
(* subscription that changes, by request or of itself.  Plans are numbered *)
(* by price; 0 is the free one.                                            *)
(***************************************************************************)
EXTENDS Naturals

CONSTANTS
  DearestPlan,
  MaxTruths           \* bound: changes of the subscription

VARIABLES
  truth,              \* the server: the subscription, numbered
  subCopy,            \* the browser's copy of it, 0 while there is none
  copyRead,           \* the read of it on its way
  planPage,           \* the page
  planAsk,            \* its request on its way
  toldOf              \* the change the person was last told is made

planVars == <<truth, subCopy, copyRead, planPage, planAsk, toldOf>>

CatalogPlans == 0..DearestPlan
Gratis == [plan |-> 0, cancelling |-> FALSE, failing |-> FALSE]
NoCopy == [v |-> 0, sub |-> Gratis]
NoCopyRead == [stage |-> "idle", got |-> NoCopy, refreshes |-> FALSE]
NoPlanAsk == [kind |-> "none", plan |-> 0, stage |-> "none", made |-> 0]
FreshPage == [page |-> "pricing", signedIn |-> TRUE, dialog |-> {}, starting |-> {}, confirming |-> FALSE, stale |-> FALSE]

PlanInit ==
  /\ \E p \in CatalogPlans : truth = [v |-> 1, sub |-> [Gratis EXCEPT !.plan = p]]
  /\ subCopy = NoCopy
  /\ \E signedIn \in BOOLEAN :
       /\ planPage = [FreshPage EXCEPT !.signedIn = signedIn]
       /\ copyRead = [NoCopyRead EXCEPT !.stage = IF signedIn THEN "sent" ELSE "idle"]
  /\ planAsk = NoPlanAsk /\ toldOf = 0

-----------------------------------------------------------------------------
(* What the pages make of the copy. *)
IsKnown == subCopy.v > 0
HasPaidSubscription == IsKnown /\ subCopy.sub.plan # 0
PlanAction(plan) ==
  IF ~planPage.signedIn THEN "signIn"
  ELSE IF ~IsKnown THEN IF plan = 0 THEN "current" ELSE "upgrade"
  ELSE IF HasPaidSubscription /\ subCopy.sub.cancelling /\ plan = subCopy.sub.plan THEN "resume"
  ELSE IF HasPaidSubscription /\ subCopy.sub.cancelling /\ plan = 0 THEN "scheduled"
  ELSE IF plan = subCopy.sub.plan THEN "current"
  ELSE IF plan > subCopy.sub.plan THEN "upgrade" ELSE "downgrade"
PlanActionLabel(plan) ==
  CASE PlanAction(plan) = "resume" -> "keep"
    [] PlanAction(plan) \in {"current", "scheduled"} -> PlanAction(plan)
    [] PlanAction(plan) = "downgrade" -> "switch"
    [] OTHER -> IF plan = 0 THEN "get started" ELSE "upgrade"
DescribePlanChange(target) ==
  CASE target = subCopy.sub.plan /\ subCopy.sub.cancelling -> "keep"
    [] target = 0 -> "cancel"
    [] target > subCopy.sub.plan -> "upgrade"
    [] OTHER -> "switch"
IsDestructive(target) == DescribePlanChange(target) = "cancel"
SubscriptionStatusLabel ==
  IF ~HasPaidSubscription THEN "no subscription"
  ELSE IF subCopy.sub.cancelling THEN "cancels"
  ELSE IF subCopy.sub.failing THEN "payment failed" ELSE "renews"
NeedsAttention == IsKnown /\ subCopy.sub.failing
IsRecommended(plan) == plan # 0 /\ \A other \in CatalogPlans \ {0} : plan <= other

(* The buttons: of a card on the pricing page, and of the plan on the billing page. *)
CardIsLocked(plan) == PlanAction(plan) \in {"current", "scheduled"} \/ plan \in planPage.starting
NotReady == planPage.confirming \/ ~IsKnown
KeepIsOffered == ~NotReady /\ HasPaidSubscription /\ subCopy.sub.cancelling
CancelIsOffered == ~NotReady /\ HasPaidSubscription /\ ~subCopy.sub.cancelling
PortalIsOffered == ~NotReady /\ HasPaidSubscription /\ planAsk.kind # "portal"

-----------------------------------------------------------------------------
(* The copy.  A read is begun when a page opens or is looked at again, unless one is on its way; what was changed begins
   a new one, and gives up the one on its way - if there is a subCopy: else that one is waited for. *)
\* Mutant: a read on its way is waited for always.
RefreshedJoins(read) == IF read.stage = "idle" THEN [NoCopyRead EXCEPT !.stage = "sent", !.refreshes = TRUE] ELSE [read EXCEPT !.refreshes = TRUE]
Refreshed(read) ==
  IF read.stage # "idle" /\ ~IsKnown THEN [read EXCEPT !.refreshes = TRUE]
  ELSE [NoCopyRead EXCEPT !.stage = "sent", !.refreshes = TRUE]

LookAgain ==
  /\ planPage.signedIn /\ planPage.page # "provider" /\ copyRead.stage = "idle"
  /\ copyRead' = [NoCopyRead EXCEPT !.stage = "sent"]
  /\ UNCHANGED <<truth, subCopy, planPage, planAsk, toldOf>>

GetMySubscription ==
  /\ copyRead.stage = "sent"
  /\ copyRead' = [copyRead EXCEPT !.stage = "answered", !.got = truth]
  /\ UNCHANGED <<truth, subCopy, planPage, planAsk, toldOf>>

(* The refresh a change waits for ends with the read, be it that the read failed. *)
RefreshEnds ==
  IF copyRead.refreshes
  THEN /\ planAsk' = NoPlanAsk
       /\ toldOf' = IF planAsk.kind = "change" THEN planAsk.made ELSE toldOf
       /\ planPage' = [planPage EXCEPT !.dialog = IF planAsk.kind = "change" THEN {} ELSE @, !.confirming = FALSE,
                                       !.stale = copyRead.stage # "answered"]
  ELSE planPage' = [planPage EXCEPT !.stale = @ /\ copyRead.stage # "answered"] /\ UNCHANGED <<planAsk, toldOf>>
CopyArrives ==
  /\ copyRead.stage = "answered"
  /\ subCopy' = copyRead.got
  /\ copyRead' = NoCopyRead
  /\ RefreshEnds
  /\ UNCHANGED truth

CopyFails ==
  /\ copyRead.stage = "sent"
  /\ copyRead' = NoCopyRead
  /\ RefreshEnds
  /\ UNCHANGED <<truth, subCopy>>

-----------------------------------------------------------------------------
(* The pricing page: a plan is chosen, by the copy as far as there is one.  Cancelling and keeping are on the billing page. *)
ChoosePlan == \E plan \in CatalogPlans :
  /\ planPage.page = "pricing" /\ planPage.dialog = {} /\ ~CardIsLocked(plan)
  /\ \/ /\ ~planPage.signedIn
        /\ planPage' = [planPage EXCEPT !.page = "login"] /\ UNCHANGED planAsk
     \/ /\ planPage.signedIn /\ HasPaidSubscription
        /\ planPage' = [planPage EXCEPT !.dialog = {plan}] /\ UNCHANGED planAsk
     \/ /\ planPage.signedIn /\ ~HasPaidSubscription /\ plan # 0 /\ planAsk = NoPlanAsk
        /\ planPage' = [planPage EXCEPT !.starting = {plan}]
        /\ planAsk' = [kind |-> "checkout", plan |-> plan, stage |-> "sent", made |-> 0]
  /\ UNCHANGED <<truth, subCopy, copyRead, toldOf>>

KeepPlan ==
  /\ planPage.page = "billing" /\ planPage.dialog = {} /\ KeepIsOffered
  /\ planPage' = [planPage EXCEPT !.dialog = {subCopy.sub.plan}]
  /\ UNCHANGED <<truth, subCopy, copyRead, planAsk, toldOf>>

CancelPlan ==
  /\ planPage.page = "billing" /\ planPage.dialog = {} /\ CancelIsOffered
  /\ planPage' = [planPage EXCEPT !.dialog = {0}]
  /\ UNCHANGED <<truth, subCopy, copyRead, planAsk, toldOf>>

(* The dialog is of the copy as it now is; it stays open while it works. *)
IsWorking == planAsk.kind = "change"
ConfirmChange == \E target \in planPage.dialog :
  /\ planAsk = NoPlanAsk
  /\ planAsk' = [kind |-> "change", plan |-> target, stage |-> "sent", made |-> 0]
  /\ UNCHANGED <<truth, subCopy, copyRead, planPage, toldOf>>

CloseChange ==
  /\ planPage.dialog # {} /\ ~IsWorking
  /\ planPage' = [planPage EXCEPT !.dialog = {}]
  /\ UNCHANGED <<truth, subCopy, copyRead, planAsk, toldOf>>

OpenPortal ==
  /\ planPage.page = "billing" /\ planPage.dialog = {} /\ PortalIsOffered /\ planAsk = NoPlanAsk
  /\ planAsk' = [kind |-> "portal", plan |-> 0, stage |-> "sent", made |-> 0]
  /\ UNCHANGED <<truth, subCopy, copyRead, planPage, toldOf>>

SeeBilling ==
  /\ planPage.page = "pricing" /\ planPage.signedIn /\ planAsk = NoPlanAsk
  /\ planPage' = [planPage EXCEPT !.page = "billing", !.dialog = {}]
  /\ copyRead' = IF copyRead.stage = "idle" THEN [NoCopyRead EXCEPT !.stage = "sent"] ELSE copyRead
  /\ UNCHANGED <<truth, subCopy, planAsk, toldOf>>

SeePlans ==
  /\ planPage.page = "billing" /\ planAsk = NoPlanAsk
  /\ planPage' = [planPage EXCEPT !.page = "pricing", !.dialog = {}]
  /\ copyRead' = IF copyRead.stage = "idle" THEN [NoCopyRead EXCEPT !.stage = "sent"] ELSE copyRead
  /\ UNCHANGED <<truth, subCopy, planAsk, toldOf>>

-----------------------------------------------------------------------------
(* The server changes the subscription, by request - refused when it no longer fits - or of itself. *)
BecomesNow(sub) == truth.v < MaxTruths /\ truth' = [v |-> truth.v + 1, sub |-> sub]
AsChanged(target) ==
  IF target = 0 THEN [truth.sub EXCEPT !.cancelling = TRUE]
  ELSE [truth.sub EXCEPT !.plan = target, !.cancelling = FALSE]
ServerDoesChange ==
  /\ planAsk.kind = "change" /\ planAsk.stage = "sent"
  /\ IF truth.sub.plan = 0 \/ (planAsk.plan = truth.sub.plan /\ ~truth.sub.cancelling)
     THEN planAsk' = [planAsk EXCEPT !.stage = "refused"] /\ UNCHANGED truth
     ELSE BecomesNow(AsChanged(planAsk.plan)) /\ planAsk' = [planAsk EXCEPT !.stage = "done", !.made = truth.v + 1]
  /\ UNCHANGED <<subCopy, copyRead, planPage, toldOf>>
ServerDoesCheckout ==
  /\ planAsk.kind \in {"checkout", "portal"} /\ planAsk.stage = "sent"
  /\ planAsk' = [planAsk EXCEPT !.stage = IF (planAsk.kind = "checkout") = (truth.sub.plan = 0) THEN "done" ELSE "refused"]
  /\ UNCHANGED <<truth, subCopy, copyRead, planPage, toldOf>>
ServerConfirms ==
  /\ planAsk.kind = "confirm" /\ planAsk.stage = "sent"
  /\ IF truth.sub.plan = 0 THEN BecomesNow([Gratis EXCEPT !.plan = planAsk.plan]) ELSE UNCHANGED truth
  /\ planAsk' = [planAsk EXCEPT !.stage = "done", !.made = truth'.v]
  /\ UNCHANGED <<subCopy, copyRead, planPage, toldOf>>
ServerOfItself ==
  /\ \/ truth.sub.plan # 0 /\ BecomesNow(Gratis)
     \/ truth.sub.plan # 0 /\ BecomesNow([truth.sub EXCEPT !.failing = ~@])
     \/ truth.sub.plan = 0 /\ planAsk.kind = "confirm" /\ BecomesNow([Gratis EXCEPT !.plan = planAsk.plan])
  /\ UNCHANGED <<subCopy, copyRead, planPage, planAsk, toldOf>>

(* The answers, which may be lost.  What is done is followed by a refresh; what failed leaves the page as it is. *)
Leaves(page, ask) ==
  /\ planPage' = [FreshPage EXCEPT !.page = page, !.starting = planPage.starting]
  /\ subCopy' = NoCopy /\ copyRead' = NoCopyRead /\ planAsk' = ask
PlanAnswered == \E lost \in BOOLEAN :
  /\ planAsk.stage \in {"done", "refused"}
  /\ IF planAsk.stage = "refused" \/ lost
     THEN /\ planPage' = [planPage EXCEPT !.starting = {}, !.confirming = FALSE]
          /\ planAsk' = NoPlanAsk /\ UNCHANGED <<subCopy, copyRead>>
     ELSE \/ /\ planAsk.kind \in {"checkout", "portal"}
             /\ Leaves("provider", NoPlanAsk)
          \/ /\ planAsk.kind \in {"change", "confirm"}
             /\ planAsk' = [planAsk EXCEPT !.stage = "refreshing"]
             /\ copyRead' = Refreshed(copyRead)
             /\ UNCHANGED <<subCopy, planPage>>
  /\ UNCHANGED <<truth, toldOf>>

(* Back from the provider: the pages start anew, with a payment to confirm if one was made. *)
BackUnpaid ==
  /\ planPage.page = "provider"
  /\ planPage' = [FreshPage EXCEPT !.page = IF planPage.starting = {} THEN "billing" ELSE "pricing"]
  /\ copyRead' = [NoCopyRead EXCEPT !.stage = "sent"]
  /\ UNCHANGED <<truth, subCopy, planAsk, toldOf>>
BackPaid == \E plan \in planPage.starting :
  /\ planPage.page = "provider"
  /\ planPage' = [FreshPage EXCEPT !.page = "billing", !.confirming = TRUE]
  /\ copyRead' = [NoCopyRead EXCEPT !.stage = "sent"]
  /\ planAsk' = [kind |-> "confirm", plan |-> plan, stage |-> "sent", made |-> 0]
  /\ UNCHANGED <<truth, subCopy, toldOf>>

PlanNext ==
  \/ LookAgain \/ GetMySubscription \/ CopyArrives \/ CopyFails
  \/ ChoosePlan \/ KeepPlan \/ CancelPlan \/ ConfirmChange \/ CloseChange \/ OpenPortal \/ SeeBilling \/ SeePlans
  \/ ServerDoesChange \/ ServerDoesCheckout \/ ServerConfirms \/ ServerOfItself
  \/ PlanAnswered \/ BackUnpaid \/ BackPaid

PlanSpec == PlanInit /\ [][PlanNext]_planVars

-----------------------------------------------------------------------------
PlanTypeOK ==
  /\ truth.v <= MaxTruths /\ subCopy.v <= MaxTruths /\ toldOf <= MaxTruths
  /\ truth.sub.plan \in CatalogPlans /\ subCopy.sub.plan \in CatalogPlans
  /\ copyRead.stage \in {"idle", "sent", "answered"}
  /\ planPage.page \in {"pricing", "billing", "provider", "login"} /\ planPage.dialog \subseteq CatalogPlans
  /\ planAsk.kind \in {"none", "checkout", "portal", "change", "confirm"}

(* A person told that the plan is updated is not shown, nor offered, what was before: no read begun earlier puts the older
   subscription back, and a page that shows it knows that its subCopy is not current (PlanChangeDialog, confirm; use-billing,
   refresh). *)
ToldIsShown == IsKnown => subCopy.v >= toldOf \/ planPage.stale

(* Why it does: a read that has been answered is no older than what the    *)
(* person was told, and the read that a change waits for no older than the *)
(* change; a dialog is of a known copy, and while there is no page there   *)
(* is no copy either. *)
Subscriptions == [v : Nat, sub : [plan : CatalogPlans, cancelling : BOOLEAN, failing : BOOLEAN]]
PlanShapes ==
  /\ truth \in Subscriptions /\ subCopy \in Subscriptions /\ toldOf \in Nat
  /\ copyRead \in [stage : {"idle", "sent", "answered"}, got : Subscriptions, refreshes : BOOLEAN]
  /\ planPage \in [page : {"pricing", "billing", "provider", "login"}, signedIn : BOOLEAN, dialog : SUBSET CatalogPlans,
                   starting : SUBSET CatalogPlans, confirming : BOOLEAN, stale : BOOLEAN]
  /\ planAsk \in [kind : {"none", "checkout", "portal", "change", "confirm"}, plan : CatalogPlans,
                  stage : {"none", "sent", "done", "refused", "refreshing"}, made : Nat]
NothingIsNewerThanTheTruth ==
  /\ 1 <= truth.v /\ subCopy.v <= truth.v /\ copyRead.got.v <= truth.v
  /\ toldOf <= truth.v /\ planAsk.made <= truth.v
DialogsAreOfACopy ==
  /\ planPage.dialog # {} => IsKnown
  /\ planAsk.kind = "change" => planPage.dialog # {}
NoPageNoCopy == planPage.page = "provider" => ~IsKnown /\ copyRead.stage = "idle" /\ planAsk.kind = "none"
ReadsAreRecent ==
  /\ copyRead.refreshes => planAsk.stage = "refreshing"
  /\ copyRead.stage = "answered" =>
       /\ copyRead.got.v >= toldOf /\ copyRead.got.v >= 1
       /\ (copyRead.refreshes /\ planAsk.kind = "change") => copyRead.got.v >= planAsk.made
PlanInvariant ==
  PlanShapes /\ NothingIsNewerThanTheTruth /\ DialogsAreOfACopy /\ NoPageNoCopy /\ ReadsAreRecent /\ ToldIsShown
=============================================================================
