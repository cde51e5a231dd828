------------------------------- MODULE Billing -------------------------------
(***************************************************************************)
(* What a person pays for: the payment provider's own record of the        *)
(* subscriptions, and account-service's mirror of it, kept by webhooks     *)
(* that come late, twice or out of order, and by reads of its own after a  *)
(* checkout is confirmed or a plan changed.  Plans are numbered by price;  *)
(* 0 is the free one.  A subscription is named by the plan it was bought   *)
(* as.                                                                     *)
(***************************************************************************)
EXTENDS Naturals, FiniteSets

CONSTANTS
  TopPlan,            \* the dearest plan; one checkout of each plan is followed (bound)
  MaxProviderChanges,        \* bound: changes at the provider
  MaxSyncs,           \* bound: reads of the provider under way at once
  SubSeconds          \* moments of the server's clock in a second, the unit of the events' times

VARIABLES
  provider,           \* the provider: its subscriptions
  sessions,           \* the provider: the checkout sessions
  moment,             \* the clock, moved by what happens at the provider
  rows,               \* account-service: the mirrored subscriptions
  intent,             \* account-service: the plan of the checkout under way, 0 for none
  deliveries,         \* webhooks on their way
  syncs,              \* reads of the provider under way at account-service
  payAsk,             \* account-service: the browser's request under way
  missed,             \* history variable: the events acknowledged of a subscription before it was known, unless it was read since
  changed,            \* history variable: when each subscription last changed, 0 for never
  unordered           \* history variable: those changed in the second of an earlier change, or of a read begun

billingVars == <<provider, sessions, moment, rows, intent, deliveries, syncs, payAsk, missed, changed, unordered>>
atTheProvider == <<provider, moment, deliveries, changed, unordered>>

Paid == 1..TopPlan
FreePlan == 0
MirroredStatuses == {"active", "past_due", "canceled"}
NotThere == [status |-> "none", plan |-> 0, cancelling |-> FALSE]
NoAsk == [kind |-> "none", of |-> 0, stage |-> "none"]
Unread == [NotThere EXCEPT !.status = "unknown"]

BillingInit ==
  /\ provider = [s \in Paid |-> NotThere] /\ sessions = [s \in Paid |-> "none"]
  /\ moment = 0
  /\ rows = [s \in Paid |-> [sub |-> NotThere, at |-> 0, pending |-> FALSE, lapsed |-> FALSE]]
  /\ intent = FreePlan /\ deliveries = {} /\ syncs = {}
  /\ payAsk = NoAsk /\ missed = {}
  /\ changed = [s \in Paid |-> 0] /\ unordered = {}

-----------------------------------------------------------------------------
(* The one subscription that entitles, if there is one. *)
IsCurrentlyEntitling(s) == rows[s].sub.status \in {"active", "past_due"} /\ ~rows[s].lapsed
ActiveSubscription == {s \in Paid : IsCurrentlyEntitling(s)}

-----------------------------------------------------------------------------
(* The provider.  Each change is told in events that carry the subscription as it then is, and the time in whole
   seconds; "when" is the moment itself, which the event does not have. *)
Second(time) == time - (time % SubSeconds)
Tell(kinds, s, sub) == {[kind |-> k, of |-> s, at |-> Second(moment + 1), sub |-> sub] : k \in kinds}
(* Whether the next change's time tells that it is later than what was told, or begun to be read, before. *)
ToldApart(s) == changed[s] # 0 => /\ Second(moment + 1) > changed[s] /\ Second(moment + 1) > rows[s].at
                                  /\ \A r \in syncs : r.of = s => Second(moment + 1) > r.asOf
ProviderChanges(s, sub, kinds) ==
  /\ moment < MaxProviderChanges
  /\ moment' = moment + 1
  /\ provider' = [provider EXCEPT ![s] = sub]
  /\ deliveries' = deliveries \cup Tell(kinds, s, sub)
  /\ changed' = [changed EXCEPT ![s] = moment + 1]
  /\ unordered' = IF ToldApart(s) THEN unordered ELSE unordered \cup {s}

(* The person pays on the provider's page, in the last tab or in an older one, and is sent back to the billing page, which
   confirms the session - unless the tab was closed first. *)
Pays == \E s \in Paid :
  /\ sessions[s] = "open"
  /\ ProviderChanges(s, [status |-> "active", plan |-> s, cancelling |-> FALSE], {"checkout", "paid"})
  /\ sessions' = [sessions EXCEPT ![s] = "complete"]
  /\ payAsk' \in {payAsk} \cup {a \in {[kind |-> "confirm", of |-> s, stage |-> "sent"]} : payAsk = NoAsk}
  /\ UNCHANGED <<rows, intent, syncs, missed>>

Runs(s) == provider[s].status \in {"active", "past_due"}
Renewal(s) == \/ ProviderChanges(s, [provider[s] EXCEPT !.status = "active"], {"updated", "paid"})
              \/ ProviderChanges(s, [provider[s] EXCEPT !.status = "past_due"], {"updated", "failed"})
Ends(s) == ProviderChanges(s, [provider[s] EXCEPT !.status = "canceled"], {"deleted"})
ChangedInPortal(s) == ProviderChanges(s, [provider[s] EXCEPT !.cancelling = ~@], {"updated"})
ProviderActs == \E s \in Paid :
  /\ Runs(s)
  /\ Renewal(s) \/ Ends(s) \/ ChangedInPortal(s)
  /\ UNCHANGED <<sessions, rows, intent, syncs, payAsk, missed>>

-----------------------------------------------------------------------------
(* account-service: what the mirror is told.  An event older than the last one taken is dropped. *)
\* Mutant: the mirror takes whatever comes.
IsStaleNever(s, at) == FALSE
IsStale(s, at) == at < rows[s].at
Known(s) == rows[s].sub.status # "none"
Mirror(s, sub, at) ==
  rows' = [rows EXCEPT ![s] = [sub |-> sub, at |-> at, pending |-> FALSE,
                               lapsed |-> sub.status = "past_due" /\ rows[s].sub.status = "past_due" /\ rows[s].lapsed]]

(* A person has one subscription that has not ended: a second one is refused, and then is not known. *)
ActivateSubscription(s, at) ==
  IF Known(s) \/ \E o \in Paid \ {s} : rows[o].sub.status \notin {"none", "canceled"}
  THEN UNCHANGED rows
  ELSE rows' = [rows EXCEPT ![s].sub = [status |-> "incomplete", plan |-> s, cancelling |-> FALSE], ![s].at = at]
StartSync(s, activates) ==
  /\ Cardinality(syncs) < MaxSyncs
  /\ syncs' = syncs \cup {[of |-> s, asOf |-> moment, sub |-> Unread, activates |-> activates]}

HandleCheckoutCompleted(e) ==
  /\ e.kind = "checkout"
  /\ ActivateSubscription(e.of, e.at)
  /\ StartSync(e.of, TRUE)
HandleUpdated(e) == /\ e.kind = "updated"
                    /\ Mirror(e.of, e.sub, e.at)
HandleDeleted(e) == /\ e.kind = "deleted"
                    /\ Mirror(e.of, [rows[e.of].sub EXCEPT !.status = "canceled"], e.at)
HandleInvoicePaid(e) == /\ e.kind = "paid"
                        /\ Mirror(e.of, [rows[e.of].sub EXCEPT !.status = IF @ = "canceled" THEN @ ELSE "active"], e.at)
HandlePaymentFailed(e) == /\ e.kind = "failed" /\ rows[e.of].sub.status # "past_due"
                          /\ Mirror(e.of, [rows[e.of].sub EXCEPT !.status = "past_due"], e.at)

(* A delivery is taken and marked as done; one whose handling broke off is delivered again. *)
HandleWebhookEvent == \E e \in deliveries, again \in BOOLEAN :
  /\ IF e.kind = "checkout" THEN HandleCheckoutCompleted(e)
     ELSE /\ UNCHANGED syncs
          /\ IF Known(e.of) /\ ~IsStale(e.of, e.at) /\ ~(e.kind = "failed" /\ rows[e.of].sub.status = "past_due")
             THEN HandleUpdated(e) \/ HandleDeleted(e) \/ HandleInvoicePaid(e) \/ HandlePaymentFailed(e)
             ELSE UNCHANGED rows
  /\ missed' = IF e.kind # "checkout" /\ ~Known(e.of) THEN missed \cup {e} ELSE missed
  /\ deliveries' = IF again THEN deliveries ELSE deliveries \ {e}
  /\ UNCHANGED <<provider, sessions, moment, intent, payAsk, changed, unordered>>

(* A read of the provider counts as of the moment it was begun, whatever it then finds. *)
SyncReads == \E r \in syncs :
  /\ r.sub = Unread
  /\ syncs' = (syncs \ {r}) \cup {[r EXCEPT !.sub = provider[r.of]]}
  /\ UNCHANGED <<provider, sessions, moment, rows, intent, deliveries, payAsk, missed, changed, unordered>>

(* A subscription that is not known fails what asked for the read; an activation that is through ends the checkout. *)
SyncEnds(r) ==
  /\ syncs' = syncs \ {r}
  /\ intent' = IF r.activates /\ Known(r.of) THEN FreePlan ELSE intent
  /\ payAsk' = IF payAsk.stage = "syncing" /\ payAsk.of = r.of
               THEN [payAsk EXCEPT !.stage = IF Known(r.of) THEN "done" ELSE "refused"] ELSE payAsk

UpdateSubscription == \E r \in syncs :
  /\ r.sub # Unread
  /\ IF Known(r.of) /\ ~IsStale(r.of, r.asOf)
     THEN Mirror(r.of, r.sub, r.asOf) /\ missed' = {e \in missed : e.of = r.of => e.at > r.asOf}
     ELSE UNCHANGED <<rows, missed>>
  /\ SyncEnds(r)
  /\ UNCHANGED <<provider, sessions, moment, deliveries, changed, unordered>>

MarkSyncPending == \E r \in syncs :
  /\ r.sub = Unread
  /\ rows' = [rows EXCEPT ![r.of].pending = @ \/ Known(r.of)]
  /\ SyncEnds(r)
  /\ UNCHANGED <<provider, sessions, moment, deliveries, missed, changed, unordered>>

GraceEnds == \E s \in Paid :
  /\ rows[s].sub.status = "past_due" /\ ~rows[s].lapsed
  /\ rows' = [rows EXCEPT ![s].lapsed = TRUE]
  /\ UNCHANGED <<provider, sessions, moment, intent, deliveries, syncs, payAsk, missed, changed, unordered>>

-----------------------------------------------------------------------------
(* The requests of the browser at account-service, one at a time (PlanPages). *)
Asks == \E kind \in {"checkout", "change"}, plan \in 0..TopPlan :
  /\ payAsk = NoAsk
  /\ kind = "checkout" => plan # FreePlan
  /\ payAsk' = [kind |-> kind, of |-> plan, stage |-> "sent"]
  /\ UNCHANGED <<provider, sessions, moment, rows, intent, deliveries, syncs, missed, changed, unordered>>

PayAnswered ==
  /\ payAsk.stage \in {"done", "refused"}
  /\ payAsk' = NoAsk
  /\ UNCHANGED <<provider, sessions, moment, rows, intent, deliveries, syncs, missed, changed, unordered>>

CreateCheckout ==
  /\ payAsk.kind = "checkout" /\ payAsk.stage = "sent"
  /\ IF ActiveSubscription # {}
     THEN payAsk' = [payAsk EXCEPT !.stage = "refused"] /\ UNCHANGED <<sessions, intent>>
     ELSE /\ sessions[payAsk.of] # "complete"
          /\ sessions' = [sessions EXCEPT ![payAsk.of] = "open"]
          /\ intent' = payAsk.of
          /\ payAsk' = [payAsk EXCEPT !.stage = "done"]
  /\ UNCHANGED <<provider, moment, rows, deliveries, syncs, missed, changed, unordered>>

ConfirmCheckoutSession ==
  /\ payAsk.kind = "confirm" /\ payAsk.stage = "sent"
  /\ ActivateSubscription(payAsk.of, 0)
  /\ StartSync(payAsk.of, TRUE)
  /\ payAsk' = [payAsk EXCEPT !.stage = "syncing"]
  /\ UNCHANGED <<provider, sessions, moment, intent, deliveries, missed, changed, unordered>>

ChangedTo(sub, current, target) ==
  IF target = FreePlan THEN [sub EXCEPT !.cancelling = TRUE]
  ELSE IF target = current.plan THEN [sub EXCEPT !.cancelling = FALSE]
  ELSE [sub EXCEPT !.plan = target, !.cancelling = @ /\ ~current.cancelling]
(* The plan and the scheduled end are changed in one request: what fails, by a declined card or otherwise, changes
   neither, though the answer of one that was done may be lost too. *)
ChangesNothing(current, target) == target = FreePlan /\ current.cancelling
ChangePlan ==
  /\ payAsk.kind = "change" /\ payAsk.stage = "sent"
  /\ \/ payAsk' = [payAsk EXCEPT !.stage = "refused"] /\ UNCHANGED atTheProvider
     \/ \E s \in ActiveSubscription : LET target == payAsk.of
                                         current == rows[s].sub
        IN /\ target # current.plan \/ current.cancelling
           /\ IF ChangesNothing(current, target) THEN UNCHANGED atTheProvider
              ELSE Runs(s) /\ ProviderChanges(s, ChangedTo(provider[s], current, target), {"updated"})
           /\ \E stage \in {"changed", "refused"} : payAsk' = [kind |-> "change", of |-> s, stage |-> stage]
  /\ UNCHANGED <<sessions, rows, intent, syncs, missed>>

ChangeSyncs ==
  /\ payAsk.stage = "changed"
  /\ StartSync(payAsk.of, FALSE)
  /\ payAsk' = [payAsk EXCEPT !.stage = "syncing"]
  /\ UNCHANGED <<provider, sessions, moment, rows, intent, deliveries, missed, changed, unordered>>

BillingNext ==
  \/ Pays \/ ProviderActs
  \/ HandleWebhookEvent \/ SyncReads \/ UpdateSubscription \/ MarkSyncPending \/ GraceEnds
  \/ Asks \/ PayAnswered \/ CreateCheckout \/ ConfirmCheckoutSession \/ ChangePlan \/ ChangeSyncs

BillingSpec == BillingInit /\ [][BillingNext]_billingVars

-----------------------------------------------------------------------------
BillingTypeOK ==
  /\ \A s \in Paid : provider[s].status \in MirroredStatuses \cup {"none"} /\ provider[s].plan <= TopPlan
  /\ \A s \in Paid : rows[s].sub.status \in MirroredStatuses \cup {"none", "incomplete"}
  /\ \A s \in Paid : sessions[s] \in {"none", "open", "complete"}
  /\ moment <= MaxProviderChanges /\ intent <= TopPlan
  /\ payAsk.kind \in {"none", "checkout", "confirm", "change"}

Mirrors(sub, theirs) == sub.status = theirs.status /\ (sub.status # "canceled" => sub = theirs)
(* Once every event was delivered, a mirrored subscription is what the provider has: however late, often or out of order
   the events came, whatever was read in between and whichever of those reads are under way
   (SubscriptionServiceImpl: "any later legitimate webhook ... still applies normally afterward").  Not after an event that
   came before the subscription was known, and that no read begun later made up for; nor when the events' whole seconds do
   not tell their order: an event of the second in which a read was begun may be dropped for older than it. *)
MirrorCatchesUp == \A s \in Paid \ unordered :
  (Known(s) /\ \A e \in deliveries \cup missed : e.of # s) => Mirrors(rows[s].sub, provider[s])

(* Why it does: what last changed of a subscription either was taken, or   *)
(* an event that tells all of it still comes and will be taken, or it was  *)
(* acknowledged too early; and a read begun after the change finds it. *)
Subs(statuses) == [status : statuses, plan : Nat, cancelling : BOOLEAN]
Events == [kind : {"checkout", "updated", "deleted", "paid", "failed"}, of : Paid, at : Nat, sub : Subs(MirroredStatuses)]
Reads == [of : Paid, asOf : Nat, sub : Subs(MirroredStatuses) \cup {Unread}, activates : BOOLEAN]
Rows == [sub : Subs(MirroredStatuses \cup {"none", "incomplete"}), at : Nat, pending : BOOLEAN, lapsed : BOOLEAN]
PayAsks == [kind : {"none", "checkout", "confirm", "change"}, of : Nat, stage : {"none", "sent", "done", "refused", "changed", "syncing"}]
BillingShapes ==
  /\ moment \in Nat /\ changed \in [Paid -> Nat] /\ sessions \in [Paid -> {"none", "open", "complete"}]
  /\ provider \in [Paid -> Subs(MirroredStatuses \cup {"none"})] /\ rows \in [Paid -> Rows]
  /\ deliveries \cup missed \subseteq Events /\ syncs \subseteq Reads
  /\ payAsk \in PayAsks /\ (payAsk.kind = "confirm" \/ payAsk.stage = "changed" => payAsk.of \in Paid)
LastChangeAt(s) == Second(changed[s])
TellsAll(e) == e.kind \in {"updated", "deleted"}
Bought(s) == [status |-> "active", plan |-> s, cancelling |-> FALSE]
Incomplete(s) == [status |-> "incomplete", plan |-> s, cancelling |-> FALSE]
EventsOf(s) == {e \in deliveries : e.of = s}
ReadsOf(s) == {r \in syncs : r.of = s}
NotBought(s) ==
  /\ provider[s] = NotThere /\ changed[s] = 0 /\ rows[s].sub = NotThere /\ rows[s].at = 0
  /\ EventsOf(s) = {} /\ ReadsOf(s) = {} /\ \A e \in missed : e.of # s
  /\ ~(payAsk.kind = "confirm" /\ payAsk.of = s) /\ ~(payAsk.stage = "changed" /\ payAsk.of = s)
UnknownIsUntold(s) == Known(s) \/ (rows[s].at = 0 /\ rows[s].sub = NotThere)
EventsTell(s) == \A e \in EventsOf(s) :
  /\ e.at <= LastChangeAt(s)
  /\ e.at = LastChangeAt(s) => e.sub = provider[s]
  /\ e.kind = "deleted" => e.sub.status = "canceled"
  /\ e.kind = "paid" => e.sub.status = "active"
  /\ e.kind = "failed" => e.sub.status = "past_due"
  /\ e.kind = "checkout" => e.sub = Bought(s)
ReadsFind(s) == \A r \in ReadsOf(s) :
  /\ r.asOf <= moment
  /\ r.asOf >= LastChangeAt(s) => r.asOf >= changed[s] /\ r.sub \in {Unread, provider[s]}
Taken(s) == Known(s) /\ rows[s].at >= LastChangeAt(s) /\ Mirrors(rows[s].sub, provider[s])
Comes(s) == \E e \in EventsOf(s) : TellsAll(e) /\ e.at = LastChangeAt(s) /\ rows[s].at <= e.at
MissedIt(s) == \E e \in missed : e.of = s /\ e.at = LastChangeAt(s)
JustBought(s) ==
  /\ provider[s] = Bought(s) /\ rows[s].sub \in {NotThere, Incomplete(s)} /\ rows[s].at <= LastChangeAt(s)
  /\ \A e \in EventsOf(s) : e.kind \in {"checkout", "paid"} /\ e.at = LastChangeAt(s)
  /\ \E e \in EventsOf(s) : e.kind = "paid"
  /\ \A r \in ReadsOf(s) : r.asOf >= changed[s]
Follows(s) == EventsTell(s) /\ ReadsFind(s) /\ (Taken(s) \/ Comes(s) \/ MissedIt(s) \/ JustBought(s))
IsInStep(s) ==
  /\ changed[s] <= moment /\ UnknownIsUntold(s)
  /\ IF sessions[s] = "complete" THEN changed[s] # 0 /\ provider[s].status # "none" /\ (s \in unordered \/ Follows(s))
     ELSE NotBought(s)
BillingInvariant == BillingShapes /\ \A s \in Paid : IsInStep(s)
=============================================================================
