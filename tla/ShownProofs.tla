--------------------------------- MODULE ShownProofs ---------------------------------
(***************************************************************************)
(* Proofs that what is shown or kept of something of the server's is what  *)
(* the server has, one part of the browser after the other, as in          *)
(* PageProofs: the mirror of a subscription, the publish menu, the list of *)
(* projects, the plan pages, the history and the page of an account's      *)
(* factors; that no half of a tag is shown of a reply; and that the chat   *)
(* is read forward: the jumps in it and the lessons.  BrowserProofs puts   *)
(* the parts together.                                                     *)
(***************************************************************************)
EXTENDS BrowserState, KeptElementsProofs, FiniteSetTheorems

-----------------------------------------------------------------------------
(* Billing: the mirror of what a person pays for catches up. *)
Billing == INSTANCE Billing WITH provider <- v1, sessions <- v2,
  moment <- v3, rows <- v4, intent <- v5, deliveries <- v6, syncs <- v7,
  payAsk <- v8, missed <- v9, changed <- v10, unordered <- v11

\* A second begins no later than any moment in it.
LEMMA SecondBegins ==
  ASSUME SubSeconds \in Nat \ {0}, NEW t \in Nat
  PROVE  Billing!Second(t) \in Nat /\ Billing!Second(t) <= t
<1>1. t % SubSeconds \in Nat
  OBVIOUS
<1>2. t = SubSeconds * (t \div SubSeconds) + (t % SubSeconds)
  OBVIOUS
<1>3. t \div SubSeconds \in Nat
  OBVIOUS
<1>4. SubSeconds * (t \div SubSeconds) \in Nat
  BY <1>3
<1>5. t % SubSeconds <= t
  BY <1>1, <1>2, <1>4
<1>6. QED
  BY <1>1, <1>5 DEF Billing!Second

\* Nothing is bought, told or read at first.
LEMMA BillingInitially ==
  ASSUME TopPlan \in Nat, Billing!BillingInit
  PROVE  Billing!BillingInvariant
<1>1. Billing!BillingShapes
  <2>1. Billing!NotThere \in Billing!Subs(Billing!MirroredStatuses \cup {"none"})
    BY DEF Billing!NotThere, Billing!Subs, Billing!MirroredStatuses
  <2>2. [sub |-> Billing!NotThere, at |-> 0, pending |-> FALSE, lapsed |-> FALSE] \in Billing!Rows
    BY DEF Billing!NotThere, Billing!Subs, Billing!MirroredStatuses, Billing!Rows
  <2>3. v1 \in [Billing!Paid -> Billing!Subs(Billing!MirroredStatuses \cup {"none"})] /\ v4 \in [Billing!Paid -> Billing!Rows]
    BY <2>1, <2>2 DEF Billing!BillingInit
  <2>4. v10 \in [Billing!Paid -> Nat] /\ v2 \in [Billing!Paid -> {"none", "open", "complete"}] /\ v3 \in Nat
    BY DEF Billing!BillingInit
  <2>5. v6 = {} /\ v7 = {} /\ v9 = {} /\ v8 = Billing!NoAsk
    BY DEF Billing!BillingInit
  <2>6. v8 \in Billing!PayAsks /\ v8.kind = "none" /\ v8.stage = "none"
    BY <2>5 DEF Billing!NoAsk, Billing!PayAsks
  <2>7. QED
    BY <2>3, <2>4, <2>5, <2>6 DEF Billing!BillingShapes
<1>2. ASSUME NEW s \in Billing!Paid PROVE Billing!IsInStep(s)
  <2>1. /\ v1[s] = Billing!NotThere /\ v2[s] = "none" /\ v3 = 0 /\ v10[s] = 0
        /\ v4[s].sub = Billing!NotThere /\ v4[s].at = 0
        /\ v6 = {} /\ v7 = {} /\ v9 = {} /\ v8.kind = "none" /\ v8.stage = "none"
    BY DEF Billing!BillingInit, Billing!NoAsk
  <2>2. QED
    BY <2>1 DEF Billing!IsInStep, Billing!UnknownIsUntold, Billing!NotBought, Billing!EventsOf, Billing!ReadsOf
<1>3. QED
  BY <1>1, <1>2 DEF Billing!BillingInvariant

\* A subscription of which nothing that matters changes stays in step.
LEMMA StaysInStep ==
  ASSUME NEW s, Billing!IsInStep(s),
         v1'[s] = v1[s], v2'[s] = "complete" <=> v2[s] = "complete", v4'[s].sub = v4[s].sub, v4'[s].at = v4[s].at, v10'[s] = v10[s],
         v3 \in Nat, v3' \in Nat, v10[s] \in Nat, v3 <= v3', s \in v11 => s \in v11',
         Billing!EventsOf(s)' = Billing!EventsOf(s), Billing!ReadsOf(s)' = Billing!ReadsOf(s),
         {e \in v9' : e.of = s} = {e \in v9 : e.of = s},
         v2[s] # "complete" => (~(v8'.kind = "confirm" /\ v8'.of = s) /\ ~(v8'.stage = "changed" /\ v8'.of = s)),
         \A r \in Billing!ReadsOf(s) : r.asOf \in Nat
  PROVE  Billing!IsInStep(s)'
<1>1. Billing!UnknownIsUntold(s)' /\ (Billing!Known(s)' <=> Billing!Known(s))
  BY DEF Billing!IsInStep, Billing!UnknownIsUntold, Billing!Known
<1>2. Billing!LastChangeAt(s)' = Billing!LastChangeAt(s)
  BY DEF Billing!LastChangeAt, Billing!Second
<1>3. Billing!NotBought(s) /\ v2[s] # "complete" => Billing!NotBought(s)'
  BY DEF Billing!NotBought
<1>4. Billing!Follows(s) => Billing!Follows(s)'
  <2>1. Billing!EventsTell(s) => Billing!EventsTell(s)'
    BY <1>2 DEF Billing!EventsTell
  <2>2. ASSUME v10[s] <= v3, Billing!ReadsFind(s) PROVE Billing!ReadsFind(s)'
    BY <1>2, <2>2 DEF Billing!ReadsFind
  <2>3. Billing!Taken(s) => Billing!Taken(s)'
    BY <1>1, <1>2 DEF Billing!Taken, Billing!Mirrors
  <2>4. Billing!Comes(s) => Billing!Comes(s)'
    BY <1>2 DEF Billing!Comes, Billing!TellsAll
  <2>5. Billing!MissedIt(s) => Billing!MissedIt(s)'
    BY <1>2 DEF Billing!MissedIt
  <2>6. Billing!JustBought(s) => Billing!JustBought(s)'
    BY <1>2 DEF Billing!JustBought
  <2>7. QED
    BY <2>1, <2>2, <2>3, <2>4, <2>5, <2>6 DEF Billing!Follows, Billing!IsInStep
<1>5. QED
  BY <1>1, <1>3, <1>4 DEF Billing!IsInStep

\* A change at the provider: its shapes, and the subscriptions it is not about.
LEMMA ChangeKeepsShapes ==
  ASSUME TopPlan \in Nat, SubSeconds \in Nat \ {0}, Billing!BillingShapes,
         NEW s \in Billing!Paid, NEW sub \in Billing!Subs(Billing!MirroredStatuses),
         NEW kinds, kinds \subseteq {"checkout", "updated", "deleted", "paid", "failed"}, Billing!ProviderChanges(s, sub, kinds)
  PROVE  /\ v1' \in [Billing!Paid -> Billing!Subs(Billing!MirroredStatuses \cup {"none"})]
         /\ v3' = v3 + 1 /\ v3' \in Nat /\ v10' \in [Billing!Paid -> Nat] /\ v6' \subseteq Billing!Events
         /\ v1'[s] = sub /\ v10'[s] = v3'
         /\ \A t \in Billing!Paid : t # s => (v1'[t] = v1[t] /\ v10'[t] = v10[t] /\ Billing!EventsOf(t)' = Billing!EventsOf(t))
<1>1. /\ v3' = v3 + 1 /\ v1' = [v1 EXCEPT ![s] = sub] /\ v6' = v6 \cup Billing!Tell(kinds, s, sub)
      /\ v10' = [v10 EXCEPT ![s] = v3 + 1]
  BY DEF Billing!ProviderChanges
<1>2. v3 \in Nat /\ v1 \in [Billing!Paid -> Billing!Subs(Billing!MirroredStatuses \cup {"none"})] /\ v10 \in [Billing!Paid -> Nat]
      /\ v6 \subseteq Billing!Events
  BY DEF Billing!BillingShapes
<1>3. sub \in Billing!Subs(Billing!MirroredStatuses \cup {"none"})
  BY DEF Billing!Subs, Billing!MirroredStatuses
<1>4. Billing!Second(v3 + 1) \in Nat
  BY <1>2, SecondBegins
<1>5. \A e \in Billing!Tell(kinds, s, sub) : e \in Billing!Events /\ e.of = s
  BY <1>4 DEF Billing!Tell, Billing!Events
<1>6. v1' \in [Billing!Paid -> Billing!Subs(Billing!MirroredStatuses \cup {"none"})] /\ v1'[s] = sub /\ \A t \in Billing!Paid : t # s => v1'[t] = v1[t]
  BY <1>1, <1>2, <1>3
<1>7. v10' \in [Billing!Paid -> Nat] /\ v10'[s] = v3' /\ \A t \in Billing!Paid : t # s => v10'[t] = v10[t]
  BY <1>1, <1>2
<1>8. v6' \subseteq Billing!Events /\ \A t \in Billing!Paid : t # s => Billing!EventsOf(t)' = Billing!EventsOf(t)
  BY <1>1, <1>2, <1>5 DEF Billing!EventsOf
<1>9. QED
  BY <1>1, <1>2, <1>6, <1>7, <1>8

LEMMA OthersStayInStep ==
  ASSUME TopPlan \in Nat, SubSeconds \in Nat \ {0}, Billing!BillingShapes,
         NEW s \in Billing!Paid, NEW sub \in Billing!Subs(Billing!MirroredStatuses),
         NEW kinds, kinds \subseteq {"checkout", "updated", "deleted", "paid", "failed"}, Billing!ProviderChanges(s, sub, kinds),
         UNCHANGED <<v4, v7, v9>>, NEW t \in Billing!Paid, t # s, v2'[t] = v2[t], Billing!IsInStep(t),
         v8'.kind = "confirm" \/ v8'.stage = "changed" => (v8'.of = s \/ v8' = v8)
  PROVE  Billing!IsInStep(t)'
<1>1. v1'[t] = v1[t] /\ v10'[t] = v10[t] /\ Billing!EventsOf(t)' = Billing!EventsOf(t) /\ v3 <= v3' /\ v3' \in Nat /\ v3 \in Nat
  <2>1. v1'[t] = v1[t] /\ v10'[t] = v10[t] /\ Billing!EventsOf(t)' = Billing!EventsOf(t) /\ v3' = v3 + 1
    BY ChangeKeepsShapes
  <2>2. v3 \in Nat
    BY DEF Billing!BillingShapes
  <2>3. QED
    BY <2>1, <2>2
<1>2. v10[t] \in Nat /\ (t \in v11 => t \in v11') /\ \A r \in Billing!ReadsOf(t) : r.asOf \in Nat
  BY DEF Billing!BillingShapes, Billing!ProviderChanges, Billing!Reads, Billing!ReadsOf
<1>3. v2[t] # "complete" => (~(v8'.kind = "confirm" /\ v8'.of = t) /\ ~(v8'.stage = "changed" /\ v8'.of = t))
  BY DEF Billing!IsInStep, Billing!NotBought
<1>4. Billing!ReadsOf(t)' = Billing!ReadsOf(t) /\ {e \in v9' : e.of = t} = {e \in v9 : e.of = t}
  BY DEF Billing!ReadsOf
<1>5. QED
  BY <1>1, <1>2, <1>3, <1>4, StaysInStep

\* What changes at the provider is told.
LEMMA ChangeIsTold ==
  ASSUME TopPlan \in Nat, SubSeconds \in Nat \ {0}, Billing!BillingShapes,
         NEW s \in Billing!Paid, NEW sub \in Billing!Subs(Billing!MirroredStatuses),
         NEW kinds, kinds \subseteq {"updated", "deleted", "paid", "failed"}, "updated" \in kinds \/ "deleted" \in kinds,
         "deleted" \in kinds => sub.status = "canceled", "paid" \in kinds => sub.status = "active",
         "failed" \in kinds => sub.status = "past_due",
         Billing!ProviderChanges(s, sub, kinds), UNCHANGED <<v2, v4, v7, v9>>, v2[s] = "complete", Billing!IsInStep(s)
  PROVE  Billing!IsInStep(s)'
<1>1. /\ v1'[s] = sub /\ v10'[s] = v3' /\ v3' = v3 + 1 /\ v3 \in Nat /\ v3' \in Nat
      /\ sub.status # "none" /\ v10[s] \in Nat /\ v4[s].at \in Nat /\ v10[s] <= v3 /\ v10[s] # 0
  <2>1. sub.status # "none" /\ v10[s] \in Nat /\ v4[s].at \in Nat
    BY DEF Billing!BillingShapes, Billing!Subs, Billing!MirroredStatuses, Billing!Rows
  <2>2. QED
    BY <2>1, ChangeKeepsShapes DEF Billing!BillingShapes, Billing!IsInStep
<1>2. Billing!UnknownIsUntold(s)'
  BY DEF Billing!IsInStep, Billing!UnknownIsUntold, Billing!Known
<1>3. CASE s \in v11'
  BY <1>1, <1>2, <1>3 DEF Billing!IsInStep
<1>4. CASE s \notin v11'
  <2>1. Billing!ToldApart(s) /\ s \notin v11
    BY <1>4 DEF Billing!ProviderChanges
  <2>2. DEFINE now == Billing!Second(v3 + 1)
  <2>3. /\ now \in Nat /\ now > v10[s] /\ now > v4[s].at /\ \A r \in Billing!ReadsOf(s) : now > r.asOf
        /\ Billing!LastChangeAt(s) \in Nat /\ Billing!LastChangeAt(s) <= v10[s]
    BY <1>1, <2>1, SecondBegins DEF Billing!ToldApart, Billing!ReadsOf, Billing!LastChangeAt
  <2>4. Billing!LastChangeAt(s)' = now
    BY <1>1 DEF Billing!LastChangeAt, Billing!Second
  <2>5. PICK told : told = Billing!Tell(kinds, s, sub)
    OBVIOUS
  <2>6. v6' = v6 \cup told /\ \A e \in told : e.kind \in kinds /\ e.of = s /\ e.at = now /\ e.sub = sub
    BY <2>5 DEF Billing!ProviderChanges, Billing!Tell
  <2>7. Billing!Follows(s)
    BY <2>1 DEF Billing!IsInStep
  <2>8. Billing!EventsOf(s)' = Billing!EventsOf(s) \cup told
    BY <2>6 DEF Billing!EventsOf
  <2>9. \A e \in Billing!EventsOf(s) : e.at \in Nat /\ e.at < now
    <3>1. \A e \in Billing!EventsOf(s) : e.at <= Billing!LastChangeAt(s) /\ e.at \in Nat
      BY <2>7 DEF Billing!Follows, Billing!EventsTell, Billing!BillingShapes, Billing!Events, Billing!EventsOf
    <3>2. QED
      BY <1>1, <2>3, <3>1
  <2>10. Billing!EventsTell(s)'
    <3>1. \A e \in Billing!EventsOf(s)' : e.at <= now
      BY <2>3, <2>6, <2>8, <2>9
    <3>2. \A e \in Billing!EventsOf(s)' : e.at = now => e.sub = sub
      BY <2>3, <2>6, <2>8, <2>9
    <3>3. \A e \in Billing!EventsOf(s)' : /\ (e.kind = "deleted" => e.sub.status = "canceled")
                                           /\ (e.kind = "paid" => e.sub.status = "active")
                                           /\ (e.kind = "failed" => e.sub.status = "past_due")
                                           /\ (e.kind = "checkout" => e.sub = Billing!Bought(s))
      BY <2>6, <2>7, <2>8 DEF Billing!Follows, Billing!EventsTell
    <3>4. QED
      BY <1>1, <2>4, <3>1, <3>2, <3>3 DEF Billing!EventsTell, Billing!Bought
  <2>11. Billing!ReadsFind(s)'
    <3>1. \A r \in Billing!ReadsOf(s) : r.asOf \in Nat /\ r.asOf <= v3 /\ ~(r.asOf >= now)
      BY <2>3, <2>7 DEF Billing!Follows, Billing!ReadsFind, Billing!BillingShapes, Billing!Reads, Billing!ReadsOf
    <3>2. \A r \in Billing!ReadsOf(s) : r.asOf <= v3' /\ ~(r.asOf >= now)
      BY <1>1, <3>1
    <3>3. Billing!ReadsOf(s)' = Billing!ReadsOf(s)
      BY DEF Billing!ReadsOf
    <3>4. QED
      BY <2>4, <3>2, <3>3 DEF Billing!ReadsFind
  <2>12. Billing!Comes(s)'
    <3>1. PICK k \in kinds : k \in {"updated", "deleted"}
      OBVIOUS
    <3>2. [kind |-> k, of |-> s, at |-> now, sub |-> sub] \in told
      BY <2>5 DEF Billing!Tell
    <3>3. PICK e \in told : e.kind \in {"updated", "deleted"}
      BY <3>1, <3>2
    <3>4. v4'[s].at <= now
      BY <1>1, <2>3
    <3>5. QED
      BY <2>4, <2>6, <2>8, <3>3, <3>4 DEF Billing!Comes, Billing!TellsAll
  <2>13. QED
    BY <1>1, <1>2, <2>10, <2>11, <2>12 DEF Billing!IsInStep, Billing!Follows
<1>5. QED
  BY <1>3, <1>4

\* A person pays.
LEMMA PaidIsTold ==
  ASSUME TopPlan \in Nat, SubSeconds \in Nat \ {0}, Billing!BillingInvariant, Billing!Pays
  PROVE  Billing!BillingInvariant'
<1>1. PICK s \in Billing!Paid :
        /\ v2[s] = "open" /\ Billing!ProviderChanges(s, Billing!Bought(s), {"checkout", "paid"})
        /\ v2' = [v2 EXCEPT ![s] = "complete"]
        /\ v8' = v8 \/ v8' = [kind |-> "confirm", of |-> s, stage |-> "sent"]
        /\ UNCHANGED <<v4, v7, v9>>
  BY DEF Billing!Pays, Billing!Bought
<1>2. Billing!Bought(s) \in Billing!Subs(Billing!MirroredStatuses)
  BY DEF Billing!Bought, Billing!Subs, Billing!MirroredStatuses, Billing!Paid
<1>3. Billing!BillingShapes
  BY DEF Billing!BillingInvariant
<1>4. /\ v1' \in [Billing!Paid -> Billing!Subs(Billing!MirroredStatuses \cup {"none"})]
      /\ v3' = v3 + 1 /\ v3' \in Nat /\ v10' \in [Billing!Paid -> Nat] /\ v6' \subseteq Billing!Events
      /\ v1'[s] = Billing!Bought(s) /\ v10'[s] = v3'
  BY <1>1, <1>2, <1>3, ChangeKeepsShapes
<1>5. v8' = v8 \/ (v8'.kind = "confirm" /\ v8'.stage = "sent" /\ v8'.of = s /\ v8' \in Billing!PayAsks)
  <2>1. [kind |-> "confirm", of |-> s, stage |-> "sent"] \in Billing!PayAsks
    BY DEF Billing!PayAsks, Billing!Paid
  <2>2. QED
    BY <1>1, <2>1
<1>6. Billing!BillingShapes'
  <2>1. v2' \in [Billing!Paid -> {"none", "open", "complete"}] /\ v4' \in [Billing!Paid -> Billing!Rows]
    BY <1>1, <1>3 DEF Billing!BillingShapes
  <2>2. v6' \cup v9' \subseteq Billing!Events /\ v7' \subseteq Billing!Reads
    BY <1>1, <1>3, <1>4 DEF Billing!BillingShapes
  <2>3. v8' \in Billing!PayAsks /\ (v8'.kind = "confirm" \/ v8'.stage = "changed" => v8'.of \in Billing!Paid)
    BY <1>3, <1>5 DEF Billing!BillingShapes
  <2>4. QED
    BY <1>4, <2>1, <2>2, <2>3 DEF Billing!BillingShapes
<1>7. Billing!IsInStep(s)'
  <2>1. Billing!NotBought(s) /\ Billing!UnknownIsUntold(s) /\ v2'[s] = "complete"
    BY <1>1, <1>3 DEF Billing!BillingInvariant, Billing!IsInStep, Billing!BillingShapes
  <2>2. DEFINE now == Billing!Second(v3 + 1)
  <2>3. now \in Nat /\ now <= v3' /\ v3 \in Nat
    BY <1>3, <1>4, SecondBegins DEF Billing!BillingShapes
  <2>4. Billing!LastChangeAt(s)' = now
    BY <1>4 DEF Billing!LastChangeAt, Billing!Second
  <2>5. PICK told : told = Billing!Tell({"checkout", "paid"}, s, Billing!Bought(s))
    OBVIOUS
  <2>6. v6' = v6 \cup told /\ \A e \in told : e.kind \in {"checkout", "paid"} /\ e.of = s /\ e.at = now /\ e.sub = Billing!Bought(s)
    BY <1>1, <2>5 DEF Billing!ProviderChanges, Billing!Tell
  <2>7. Billing!EventsOf(s)' = told
    BY <2>1, <2>6 DEF Billing!EventsOf, Billing!NotBought
  <2>8. Billing!ReadsOf(s)' = {}
    BY <1>1, <2>1 DEF Billing!ReadsOf, Billing!NotBought
  <2>9. Billing!EventsTell(s)'
    <3>1. Billing!Bought(s).status = "active" /\ v1'[s] = Billing!Bought(s)
      BY <1>4 DEF Billing!Bought
    <3>2. \A e \in told : /\ e.at <= now /\ (e.at = now => e.sub = v1'[s])
                         /\ (e.kind = "deleted" => e.sub.status = "canceled")
                         /\ (e.kind = "paid" => e.sub.status = "active")
                         /\ (e.kind = "failed" => e.sub.status = "past_due")
                         /\ (e.kind = "checkout" => e.sub = Billing!Bought(s))
      BY <2>3, <2>6, <3>1
    <3>3. QED
      BY <2>4, <2>7, <3>2 DEF Billing!EventsTell, Billing!Bought
  <2>10. Billing!ReadsFind(s)'
    BY <2>8 DEF Billing!ReadsFind
  <2>11. Billing!JustBought(s)'
    <3>1. [kind |-> "paid", of |-> s, at |-> now, sub |-> Billing!Bought(s)] \in told
      BY <2>5 DEF Billing!Tell
    <3>2. \E e \in told : e.kind = "paid"
      BY <3>1
    <3>3. v4'[s].sub = Billing!NotThere /\ v4'[s].at = 0
      BY <1>1, <2>1 DEF Billing!NotBought
    <3>4. v4'[s].at <= now
      BY <2>3, <3>3
    <3>5. v1'[s] = Billing!Bought(s)' /\ v4'[s].sub \in {Billing!NotThere, Billing!Incomplete(s)}'
      BY <1>4, <3>3 DEF Billing!Bought, Billing!Incomplete
    <3>6. QED
      BY <2>4, <2>6, <2>7, <2>8, <3>2, <3>4, <3>5 DEF Billing!JustBought
  <2>12. Billing!UnknownIsUntold(s)'
    BY <1>1, <2>1 DEF Billing!UnknownIsUntold, Billing!Known
  <2>13. v10'[s] # 0 /\ v10'[s] <= v3' /\ v1'[s].status # "none"
    BY <1>4, <2>3 DEF Billing!Bought
  <2>14. QED
    BY <2>1, <2>9, <2>10, <2>11, <2>12, <2>13 DEF Billing!IsInStep, Billing!Follows
<1>8. ASSUME NEW t \in Billing!Paid, t # s PROVE Billing!IsInStep(t)'
  <2>1. v2'[t] = v2[t] /\ Billing!IsInStep(t)
    BY <1>1, <1>3, <1>8 DEF Billing!BillingShapes, Billing!BillingInvariant
  <2>2. QED
    BY <1>1, <1>2, <1>3, <1>5, <1>8, <2>1, OthersStayInStep
<1>9. QED
  BY <1>6, <1>7, <1>8 DEF Billing!BillingInvariant, Billing!Paid

\* A change of one that was bought.
LEMMA ChangeIsFollowed ==
  ASSUME TopPlan \in Nat, SubSeconds \in Nat \ {0}, Billing!BillingInvariant,
         NEW s \in Billing!Paid, NEW sub \in Billing!Subs(Billing!MirroredStatuses),
         NEW kinds, kinds \subseteq {"updated", "deleted", "paid", "failed"}, "updated" \in kinds \/ "deleted" \in kinds,
         "deleted" \in kinds => sub.status = "canceled", "paid" \in kinds => sub.status = "active",
         "failed" \in kinds => sub.status = "past_due",
         Billing!ProviderChanges(s, sub, kinds), UNCHANGED <<v2, v4, v7, v9>>, v1[s].status # "none",
         v8' = v8 \/ (v8' \in Billing!PayAsks /\ v8'.kind = "change" /\ v8'.of = s)
  PROVE  Billing!BillingInvariant'
<1>1. Billing!BillingShapes /\ Billing!IsInStep(s)
  BY DEF Billing!BillingInvariant
<1>2. v2[s] = "complete"
  BY <1>1 DEF Billing!IsInStep, Billing!NotBought, Billing!NotThere
<1>3. /\ v1' \in [Billing!Paid -> Billing!Subs(Billing!MirroredStatuses \cup {"none"})]
      /\ v3' \in Nat /\ v10' \in [Billing!Paid -> Nat] /\ v6' \subseteq Billing!Events
  BY <1>1, ChangeKeepsShapes
<1>4. Billing!BillingShapes'
  <2>1. v8' \in Billing!PayAsks /\ (v8'.kind = "confirm" \/ v8'.stage = "changed" => v8'.of \in Billing!Paid)
    BY <1>1 DEF Billing!BillingShapes
  <2>2. v6' \cup v9' \subseteq Billing!Events
    BY <1>1, <1>3 DEF Billing!BillingShapes
  <2>3. QED
    BY <1>1, <1>3, <2>1, <2>2 DEF Billing!BillingShapes
<1>5. Billing!IsInStep(s)'
  BY <1>1, <1>2, ChangeIsTold
<1>6. ASSUME NEW t \in Billing!Paid, t # s PROVE Billing!IsInStep(t)'
  <2>1. v2'[t] = v2[t] /\ Billing!IsInStep(t)
    BY DEF Billing!BillingInvariant
  <2>2. v8'.kind = "confirm" \/ v8'.stage = "changed" => (v8'.of = s \/ v8' = v8)
    OBVIOUS
  <2>3. QED
    BY <1>1, <1>6, <2>1, <2>2, OthersStayInStep
<1>7. QED
  BY <1>4, <1>5, <1>6 DEF Billing!BillingInvariant, Billing!Paid

\* What runs at the provider is renewed, ends, or is changed on its pages.
LEMMA ActsAreTold ==
  ASSUME TopPlan \in Nat, SubSeconds \in Nat \ {0}, Billing!BillingInvariant, Billing!ProviderActs
  PROVE  Billing!BillingInvariant'
<1>1. PICK s \in Billing!Paid : Billing!Runs(s) /\ (Billing!Renewal(s) \/ Billing!Ends(s) \/ Billing!ChangedInPortal(s))
  BY DEF Billing!ProviderActs
<1>2. UNCHANGED <<v2, v4, v7, v8, v9>> /\ v1[s].status \in {"active", "past_due"}
  BY <1>1 DEF Billing!ProviderActs, Billing!Runs
<1>3. v1[s] \in Billing!Subs(Billing!MirroredStatuses \cup {"none"})
  BY DEF Billing!BillingInvariant, Billing!BillingShapes
<1>4. CASE Billing!ProviderChanges(s, [v1[s] EXCEPT !.status = "active"], {"updated", "paid"})
  <2>1. PICK sub : sub = [v1[s] EXCEPT !.status = "active"]
    OBVIOUS
  <2>2. sub \in Billing!Subs(Billing!MirroredStatuses) /\ sub.status = "active"
    BY <1>3, <2>1 DEF Billing!Subs, Billing!MirroredStatuses
  <2>3. QED
    BY <1>2, <1>4, <2>1, <2>2, ChangeIsFollowed
<1>5. CASE Billing!ProviderChanges(s, [v1[s] EXCEPT !.status = "past_due"], {"updated", "failed"})
  <2>1. PICK sub : sub = [v1[s] EXCEPT !.status = "past_due"]
    OBVIOUS
  <2>2. sub \in Billing!Subs(Billing!MirroredStatuses) /\ sub.status = "past_due"
    BY <1>3, <2>1 DEF Billing!Subs, Billing!MirroredStatuses
  <2>3. QED
    BY <1>2, <1>5, <2>1, <2>2, ChangeIsFollowed
<1>6. CASE Billing!ProviderChanges(s, [v1[s] EXCEPT !.status = "canceled"], {"deleted"})
  <2>1. PICK sub : sub = [v1[s] EXCEPT !.status = "canceled"]
    OBVIOUS
  <2>2. sub \in Billing!Subs(Billing!MirroredStatuses) /\ sub.status = "canceled"
    BY <1>3, <2>1 DEF Billing!Subs, Billing!MirroredStatuses
  <2>3. QED
    BY <1>2, <1>6, <2>1, <2>2, ChangeIsFollowed
<1>7. CASE Billing!ProviderChanges(s, [v1[s] EXCEPT !.cancelling = ~@], {"updated"})
  <2>1. PICK sub : sub = [v1[s] EXCEPT !.cancelling = ~@]
    OBVIOUS
  <2>2. sub \in Billing!Subs(Billing!MirroredStatuses)
    BY <1>2, <1>3, <2>1 DEF Billing!Subs, Billing!MirroredStatuses
  <2>3. QED
    BY <1>2, <1>7, <2>1, <2>2, ChangeIsFollowed
<1>8. QED
  BY <1>1, <1>4, <1>5, <1>6, <1>7 DEF Billing!Renewal, Billing!Ends, Billing!ChangedInPortal

\* A step that changes nothing at the provider leaves the others in step.
LEMMA QuietStaysInStep ==
  ASSUME Billing!BillingShapes, UNCHANGED <<v1, v3, v10, v11>>, NEW s \in Billing!Paid, Billing!IsInStep(s),
         v2'[s] = "complete" <=> v2[s] = "complete", v4'[s].sub = v4[s].sub, v4'[s].at = v4[s].at,
         Billing!EventsOf(s)' = Billing!EventsOf(s), Billing!ReadsOf(s)' = Billing!ReadsOf(s),
         {e \in v9' : e.of = s} = {e \in v9 : e.of = s},
         v2[s] # "complete" => (~(v8'.kind = "confirm" /\ v8'.of = s) /\ ~(v8'.stage = "changed" /\ v8'.of = s))
  PROVE  Billing!IsInStep(s)'
<1>1. v3 \in Nat /\ v3' \in Nat /\ v10[s] \in Nat /\ v3 <= v3' /\ \A r \in Billing!ReadsOf(s) : r.asOf \in Nat
  BY DEF Billing!BillingShapes, Billing!Reads, Billing!ReadsOf
<1>2. QED
  BY <1>1, StaysInStep

\* What the request under way is about, the next stage of it is too.
LEMMA AskGoesOn ==
  ASSUME Billing!BillingShapes, NEW stage \in {"sent", "done", "refused", "changed", "syncing"}, v8' = [v8 EXCEPT !.stage = stage]
  PROVE  v8' \in Billing!PayAsks /\ v8'.kind = v8.kind /\ v8'.of = v8.of /\ v8'.stage = stage
BY DEF Billing!BillingShapes, Billing!PayAsks

\* An activation adds the subscription to the mirror, if at all.
LEMMA ActivationAdds ==
  ASSUME Billing!BillingShapes, NEW s \in Billing!Paid, NEW at \in Nat, Billing!ActivateSubscription(s, at)
  PROVE  /\ v4' \in [Billing!Paid -> Billing!Rows]
         /\ \A t \in Billing!Paid : t # s => v4'[t] = v4[t]
         /\ \/ v4'[s] = v4[s]
            \/ ~Billing!Known(s) /\ v4'[s].sub = Billing!Incomplete(s) /\ v4'[s].at = at
<1>1. v4 \in [Billing!Paid -> Billing!Rows]
  BY DEF Billing!BillingShapes
<1>2. CASE v4' = v4
  BY <1>1, <1>2
<1>3. CASE v4' # v4
  <2>1. PICK sub : sub = Billing!Incomplete(s)
    OBVIOUS
  <2>2. sub \in Billing!Subs(Billing!MirroredStatuses \cup {"none", "incomplete"})
    BY <2>1 DEF Billing!Incomplete, Billing!Subs, Billing!Paid
  <2>3. v4' = [v4 EXCEPT ![s].sub = sub, ![s].at = at] /\ ~Billing!Known(s)
    BY <1>3, <2>1 DEF Billing!ActivateSubscription, Billing!Incomplete
  <2>4. v4[s] \in Billing!Rows
    BY <1>1
  <2>5. PICK row : row = [v4[s] EXCEPT !.sub = sub, !.at = at]
    OBVIOUS
  <2>6. row \in Billing!Rows /\ row.sub = sub /\ row.at = at
    BY <2>2, <2>4, <2>5 DEF Billing!Rows
  <2>7. v4' = [v4 EXCEPT ![s] = row]
    BY <1>1, <2>3, <2>4, <2>5 DEF Billing!Rows
  <2>8. QED
    BY <1>1, <2>1, <2>3, <2>6, <2>7
<1>4. QED
  BY <1>2, <1>3

\* A read is begun.
LEMMA ReadBegins ==
  ASSUME Billing!BillingShapes, NEW s \in Billing!Paid, NEW activates \in BOOLEAN, Billing!StartSync(s, activates)
  PROVE  /\ v7' \subseteq Billing!Reads
         /\ \A t \in Billing!Paid : t # s => Billing!ReadsOf(t)' = Billing!ReadsOf(t)
         /\ \E r : Billing!ReadsOf(s)' = Billing!ReadsOf(s) \cup {r} /\ r.asOf = v3 /\ r.sub = Billing!Unread
<1>1. PICK r : r = [of |-> s, asOf |-> v3, sub |-> Billing!Unread, activates |-> activates]
  OBVIOUS
<1>2. v7' = v7 \cup {r} /\ r.of = s /\ r.asOf = v3 /\ r.sub = Billing!Unread
  BY <1>1 DEF Billing!StartSync
<1>3. r \in Billing!Reads
  <2>1. v3 \in Nat
    BY DEF Billing!BillingShapes
  <2>2. QED
    BY <1>1, <2>1 DEF Billing!Reads
<1>4. QED
  BY <1>2, <1>3 DEF Billing!BillingShapes, Billing!ReadsOf

\* An activation, and the read begun with it, keep the subscription in step.
LEMMA ActivationInStep ==
  ASSUME SubSeconds \in Nat \ {0}, Billing!BillingShapes, UNCHANGED <<v1, v2, v3, v10, v11>>, NEW s \in Billing!Paid, Billing!IsInStep(s),
         v2[s] = "complete",
         NEW at \in Nat, at = 0 \/ (\E e \in Billing!EventsOf(s) : e.at = at),
         \/ v4'[s] = v4[s]
         \/ ~Billing!Known(s) /\ v4'[s].sub = Billing!Incomplete(s) /\ v4'[s].at = at,
         Billing!EventsOf(s)' \subseteq Billing!EventsOf(s),
         \A e \in Billing!EventsOf(s) : e.kind # "checkout" => e \in Billing!EventsOf(s)',
         \A e \in v9 : e \in v9',
         NEW r, Billing!ReadsOf(s)' = Billing!ReadsOf(s) \cup {r}, r.asOf = v3, r.sub = Billing!Unread
  PROVE  Billing!IsInStep(s)'
<1>1. v10[s] \in Nat /\ v3 \in Nat /\ v10[s] <= v3 /\ v10[s] # 0 /\ v1[s].status # "none" /\ v4[s].at \in Nat
  BY DEF Billing!BillingShapes, Billing!IsInStep, Billing!Rows
<1>2. /\ Billing!LastChangeAt(s) \in Nat /\ Billing!LastChangeAt(s) <= v10[s]
      /\ Billing!LastChangeAt(s)' = Billing!LastChangeAt(s)
  BY <1>1, SecondBegins DEF Billing!LastChangeAt, Billing!Second
<1>3. Billing!UnknownIsUntold(s)' /\ (Billing!Known(s) => v4'[s] = v4[s])
  <2>1. Billing!Incomplete(s).status = "incomplete"
    BY DEF Billing!Incomplete
  <2>2. QED
    BY <2>1 DEF Billing!IsInStep, Billing!UnknownIsUntold, Billing!Known
<1>4. ASSUME s \notin v11 PROVE Billing!Follows(s)'
  <2>1. Billing!EventsTell(s) /\ Billing!ReadsFind(s) /\ (Billing!Taken(s) \/ Billing!Comes(s) \/ Billing!MissedIt(s) \/ Billing!JustBought(s))
    BY <1>4 DEF Billing!IsInStep, Billing!Follows
  <2>2. at <= Billing!LastChangeAt(s)
    BY <1>2, <2>1 DEF Billing!EventsTell
  <2>3. Billing!EventsTell(s)'
    BY <1>2, <2>1 DEF Billing!EventsTell, Billing!Bought
  <2>4. Billing!ReadsFind(s)'
    <3>1. r.asOf <= v3 /\ r.asOf >= v10[s]
      BY <1>1
    <3>2. QED
      BY <1>2, <2>1, <3>1 DEF Billing!ReadsFind, Billing!Unread, Billing!NotThere
  <2>5. Billing!Taken(s) => Billing!Taken(s)'
    BY <1>2, <1>3 DEF Billing!Taken, Billing!Known, Billing!Mirrors
  <2>6. Billing!Comes(s) => Billing!Comes(s)'
    BY <1>1, <1>2, <2>2 DEF Billing!Comes, Billing!TellsAll
  <2>7. Billing!MissedIt(s) => Billing!MissedIt(s)'
    BY <1>2 DEF Billing!MissedIt
  <2>8. ASSUME Billing!JustBought(s) PROVE Billing!JustBought(s)'
    <3>1. v4'[s].sub \in {Billing!NotThere, Billing!Incomplete(s)} /\ v4'[s].at <= Billing!LastChangeAt(s)
      BY <1>2, <2>2, <2>8 DEF Billing!JustBought
    <3>2. r.asOf >= v10[s]
      BY <1>1
    <3>3. (\E e \in Billing!EventsOf(s)' : e.kind = "paid") /\ \A e \in Billing!EventsOf(s)' : e.kind \in {"checkout", "paid"} /\ e.at = Billing!LastChangeAt(s)
      BY <2>8 DEF Billing!JustBought
    <3>4. \A q \in Billing!ReadsOf(s)' : q.asOf >= v10[s]
      BY <2>8, <3>2 DEF Billing!JustBought
    <3>5. v1'[s] = Billing!Bought(s)
      BY <2>8 DEF Billing!JustBought
    <3>6. QED
      BY <1>2, <3>1, <3>3, <3>4, <3>5 DEF Billing!JustBought, Billing!Bought, Billing!NotThere, Billing!Incomplete
  <2>9. QED
    BY <2>1, <2>3, <2>4, <2>5, <2>6, <2>7, <2>8 DEF Billing!Follows
<1>5. QED
  BY <1>1, <1>3, <1>4 DEF Billing!IsInStep

\* The mirror takes what it is told.
LEMMA MirrorTakes ==
  ASSUME Billing!BillingShapes, NEW s \in Billing!Paid, NEW at \in Nat,
         NEW sub \in Billing!Subs(Billing!MirroredStatuses \cup {"none", "incomplete"}), Billing!Mirror(s, sub, at)
  PROVE  /\ v4' \in [Billing!Paid -> Billing!Rows] /\ v4'[s].sub = sub /\ v4'[s].at = at
         /\ \A t \in Billing!Paid : t # s => v4'[t] = v4[t]
<1>1. PICK row : row = [sub |-> sub, at |-> at, pending |-> FALSE,
                        lapsed |-> sub.status = "past_due" /\ v4[s].sub.status = "past_due" /\ v4[s].lapsed]
  OBVIOUS
<1>2. (sub.status = "past_due" /\ v4[s].sub.status = "past_due" /\ v4[s].lapsed) \in BOOLEAN
  BY DEF Billing!BillingShapes, Billing!Rows
<1>3. row \in Billing!Rows /\ row.sub = sub /\ row.at = at
  BY <1>1, <1>2 DEF Billing!Rows
<1>4. v4' = [v4 EXCEPT ![s] = row] /\ v4 \in [Billing!Paid -> Billing!Rows]
  BY <1>1 DEF Billing!Mirror, Billing!BillingShapes
<1>5. QED
  BY <1>3, <1>4

\* An event is taken as of its time.
LEMMA EventIsTaken ==
  ASSUME SubSeconds \in Nat \ {0}, Billing!BillingShapes, UNCHANGED <<v1, v2, v3, v7, v9, v10, v11>>, NEW s \in Billing!Paid, Billing!IsInStep(s),
         NEW e \in Billing!EventsOf(s), e.kind # "checkout", Billing!Known(s), ~Billing!IsStale(s, e.at),
         ~(e.kind = "failed" /\ v4[s].sub.status = "past_due"),
         \/ e.kind = "updated" /\ v4'[s].sub = e.sub
         \/ e.kind = "deleted" /\ v4'[s].sub = [v4[s].sub EXCEPT !.status = "canceled"]
         \/ e.kind = "paid" /\ v4'[s].sub = [v4[s].sub EXCEPT !.status = IF @ = "canceled" THEN @ ELSE "active"]
         \/ e.kind = "failed" /\ v4'[s].sub = [v4[s].sub EXCEPT !.status = "past_due"],
         v4'[s].at = e.at,
         Billing!EventsOf(s)' \subseteq Billing!EventsOf(s), \A o \in Billing!EventsOf(s) : o # e => o \in Billing!EventsOf(s)'
  PROVE  Billing!IsInStep(s)'
<1>1. /\ v10[s] \in Nat /\ v4[s].at \in Nat /\ v4[s].sub \in Billing!Subs(Billing!MirroredStatuses \cup {"none", "incomplete"})
      /\ e.at \in Nat /\ e.sub \in Billing!Subs(Billing!MirroredStatuses)
  BY DEF Billing!BillingShapes, Billing!Rows, Billing!EventsOf, Billing!Events
<1>2. /\ Billing!LastChangeAt(s) \in Nat /\ Billing!LastChangeAt(s)' = Billing!LastChangeAt(s)
  BY <1>1, SecondBegins DEF Billing!LastChangeAt, Billing!Second
<1>3. e.at >= v4[s].at
  BY <1>1 DEF Billing!IsStale
<1>4. v2[s] = "complete"
  BY DEF Billing!IsInStep, Billing!NotBought
<1>5. PICK sub : sub = v4'[s].sub
  OBVIOUS
<1>6. /\ sub.status # "none"
      /\ e.kind = "updated" => sub = e.sub
      /\ e.kind = "deleted" => sub.status = "canceled"
      /\ e.kind = "paid" => (sub = [v4[s].sub EXCEPT !.status = IF @ = "canceled" THEN @ ELSE "active"])
      /\ e.kind = "failed" => sub.status = "past_due"
      /\ e.kind \in {"updated", "deleted", "paid", "failed"}
  BY <1>1, <1>5 DEF Billing!Subs, Billing!MirroredStatuses, Billing!Known
<1>7. Billing!Known(s)' /\ Billing!UnknownIsUntold(s)'
  BY <1>5, <1>6 DEF Billing!Known, Billing!UnknownIsUntold
<1>8. ASSUME s \notin v11 PROVE Billing!Follows(s)'
  <2>1. Billing!EventsTell(s) /\ Billing!ReadsFind(s) /\ (Billing!Taken(s) \/ Billing!Comes(s) \/ Billing!MissedIt(s) \/ Billing!JustBought(s))
    BY <1>4, <1>8 DEF Billing!IsInStep, Billing!Follows
  <2>2. Billing!EventsTell(s)' /\ Billing!ReadsFind(s)'
    BY <1>2, <2>1 DEF Billing!EventsTell, Billing!ReadsFind, Billing!Bought, Billing!ReadsOf, Billing!Unread, Billing!NotThere
  <2>3. /\ e.at <= Billing!LastChangeAt(s)
        /\ e.at = Billing!LastChangeAt(s) => e.sub = v1[s]
        /\ e.kind = "deleted" => e.sub.status = "canceled"
        /\ e.kind = "paid" => e.sub.status = "active"
        /\ e.kind = "failed" => e.sub.status = "past_due"
    BY <2>1 DEF Billing!EventsTell
  <2>4. ASSUME e.at = Billing!LastChangeAt(s), Billing!Mirrors(sub, v1[s]) PROVE Billing!Taken(s)'
    BY <1>1, <1>2, <1>5, <1>7, <2>4 DEF Billing!Taken, Billing!Mirrors
  <2>5. ASSUME Billing!Taken(s) PROVE Billing!Taken(s)'
    <3>1. e.at = Billing!LastChangeAt(s)
      BY <1>1, <1>2, <1>3, <2>3, <2>5 DEF Billing!Taken
    <3>2. e.sub = v1[s] /\ Billing!Mirrors(v4[s].sub, v1[s])
      BY <2>3, <2>5, <3>1 DEF Billing!Taken
    <3>3. CASE e.kind = "updated"
      BY <1>6, <2>4, <3>1, <3>2, <3>3 DEF Billing!Mirrors
    <3>4. CASE e.kind = "deleted"
      BY <1>6, <2>3, <2>4, <3>1, <3>2, <3>4 DEF Billing!Mirrors
    <3>5. CASE e.kind = "paid"
      <4>1. v4[s].sub = v1[s] /\ v4[s].sub.status = "active"
        BY <2>3, <3>2, <3>5 DEF Billing!Mirrors
      <4>2. sub = v4[s].sub
        BY <1>1, <1>6, <3>5, <4>1 DEF Billing!Subs
      <4>3. QED
        BY <2>4, <3>1, <3>2, <4>2
    <3>6. CASE e.kind = "failed"
      BY <2>3, <3>2, <3>6 DEF Billing!Mirrors
    <3>7. QED
      BY <1>6, <3>3, <3>4, <3>5, <3>6
  <2>6. ASSUME Billing!Comes(s) PROVE Billing!Taken(s)' \/ Billing!Comes(s)'
    <3>1. PICK o \in Billing!EventsOf(s) : Billing!TellsAll(o) /\ o.at = Billing!LastChangeAt(s) /\ v4[s].at <= o.at
      BY <2>6 DEF Billing!Comes
    <3>2. CASE o # e
      BY <1>2, <2>3, <3>1, <3>2 DEF Billing!Comes, Billing!TellsAll
    <3>3. CASE o = e
      <4>1. e.at = Billing!LastChangeAt(s) /\ e.kind \in {"updated", "deleted"} /\ e.sub = v1[s]
        BY <2>3, <3>1, <3>3 DEF Billing!TellsAll
      <4>2. Billing!Mirrors(sub, v1[s])
        BY <1>6, <2>3, <4>1 DEF Billing!Mirrors
      <4>3. QED
        BY <2>4, <4>1, <4>2
    <3>4. QED
      BY <3>2, <3>3
  <2>7. Billing!MissedIt(s) => Billing!MissedIt(s)'
    BY <1>2 DEF Billing!MissedIt
  <2>8. ASSUME Billing!JustBought(s) PROVE Billing!Taken(s)'
    <3>1. v4[s].sub = Billing!Incomplete(s) /\ v1[s] = Billing!Bought(s) /\ e.kind = "paid" /\ e.at = Billing!LastChangeAt(s)
      BY <2>8 DEF Billing!JustBought, Billing!Known, Billing!NotThere
    <3>2. sub = Billing!Bought(s)
      <4>1. PICK old : old = v4[s].sub
        OBVIOUS
      <4>2. old.status = "incomplete" /\ old.plan = s /\ old.cancelling = FALSE
        BY <3>1, <4>1 DEF Billing!Incomplete
      <4>3. sub = [old EXCEPT !.status = IF @ = "canceled" THEN @ ELSE "active"]
        BY <1>6, <3>1, <4>1
      <4>4. sub = [status |-> "active", plan |-> s, cancelling |-> FALSE]
        BY <1>1, <4>1, <4>2, <4>3 DEF Billing!Subs
      <4>5. QED
        BY <4>4 DEF Billing!Bought
    <3>3. QED
      BY <2>4, <3>1, <3>2 DEF Billing!Mirrors
  <2>9. QED
    BY <2>1, <2>2, <2>5, <2>6, <2>7, <2>8 DEF Billing!Follows
<1>9. QED
  BY <1>4, <1>7, <1>8 DEF Billing!IsInStep

\* An event is dropped, or acknowledged too early.
LEMMA EventIsDropped ==
  ASSUME SubSeconds \in Nat \ {0}, Billing!BillingShapes, UNCHANGED <<v1, v2, v3, v7, v8, v10, v11>>, NEW s \in Billing!Paid, Billing!IsInStep(s),
         NEW e \in Billing!EventsOf(s), e.kind # "checkout", v4'[s] = v4[s],
         \/ ~Billing!Known(s) /\ v9' = v9 \cup {e}
         \/ v9' = v9 /\ Billing!Known(s) /\ (Billing!IsStale(s, e.at) \/ e.kind = "failed"),
         Billing!EventsOf(s)' \subseteq Billing!EventsOf(s), \A o \in Billing!EventsOf(s) : o # e => o \in Billing!EventsOf(s)'
  PROVE  Billing!IsInStep(s)'
<1>1. v10[s] \in Nat /\ v4[s].at \in Nat /\ e.at \in Nat
  BY DEF Billing!BillingShapes, Billing!Rows, Billing!EventsOf, Billing!Events
<1>2. /\ Billing!LastChangeAt(s) \in Nat /\ Billing!LastChangeAt(s)' = Billing!LastChangeAt(s)
  BY <1>1, SecondBegins DEF Billing!LastChangeAt, Billing!Second
<1>3. v2[s] = "complete" /\ e.of = s
  BY DEF Billing!IsInStep, Billing!NotBought, Billing!EventsOf
<1>4. Billing!UnknownIsUntold(s)' /\ (Billing!Known(s)' <=> Billing!Known(s))
  BY DEF Billing!Known, Billing!UnknownIsUntold, Billing!IsInStep
<1>5. ASSUME s \notin v11 PROVE Billing!Follows(s)'
  <2>1. Billing!EventsTell(s) /\ Billing!ReadsFind(s) /\ (Billing!Taken(s) \/ Billing!Comes(s) \/ Billing!MissedIt(s) \/ Billing!JustBought(s))
    BY <1>3, <1>5 DEF Billing!IsInStep, Billing!Follows
  <2>2. Billing!EventsTell(s)' /\ Billing!ReadsFind(s)'
    BY <1>2, <2>1 DEF Billing!EventsTell, Billing!ReadsFind, Billing!Bought, Billing!ReadsOf, Billing!Unread, Billing!NotThere
  <2>3. Billing!Taken(s) => Billing!Taken(s)'
    BY <1>2, <1>4 DEF Billing!Taken, Billing!Mirrors
  <2>4. ASSUME e.at = Billing!LastChangeAt(s), v9' = v9 \cup {e} PROVE Billing!MissedIt(s)'
    BY <1>2, <1>3, <2>4 DEF Billing!MissedIt
  <2>5. ASSUME Billing!Comes(s) PROVE Billing!Comes(s)' \/ Billing!MissedIt(s)'
    <3>1. PICK o \in Billing!EventsOf(s) : Billing!TellsAll(o) /\ o.at = Billing!LastChangeAt(s) /\ v4[s].at <= o.at
      BY <2>5 DEF Billing!Comes
    <3>2. CASE o # e
      BY <1>2, <3>1, <3>2 DEF Billing!Comes, Billing!TellsAll
    <3>3. CASE o = e
      BY <1>1, <1>2, <2>4, <3>1, <3>3 DEF Billing!TellsAll, Billing!IsStale
    <3>4. QED
      BY <3>2, <3>3
  <2>6. Billing!MissedIt(s) => Billing!MissedIt(s)'
    BY <1>2 DEF Billing!MissedIt
  <2>7. ASSUME Billing!JustBought(s) PROVE Billing!MissedIt(s)'
    <3>1. e.kind = "paid" /\ e.at = Billing!LastChangeAt(s) /\ v4[s].at <= Billing!LastChangeAt(s)
      BY <2>7 DEF Billing!JustBought
    <3>2. ~Billing!IsStale(s, e.at)
      BY <1>1, <1>2, <3>1 DEF Billing!IsStale
    <3>3. QED
      BY <2>4, <3>1, <3>2
  <2>8. QED
    BY <2>1, <2>2, <2>3, <2>5, <2>6, <2>7 DEF Billing!Follows
<1>6. QED
  BY <1>3, <1>4, <1>5 DEF Billing!IsInStep

\* An event is delivered.
LEMMA EventsAreHandled ==
  ASSUME TopPlan \in Nat, SubSeconds \in Nat \ {0}, Billing!BillingInvariant, Billing!HandleWebhookEvent
  PROVE  Billing!BillingInvariant'
<1>1. PICK e \in v6 :
        /\ IF e.kind = "checkout" THEN Billing!HandleCheckoutCompleted(e)
           ELSE /\ UNCHANGED v7
                /\ IF Billing!Known(e.of) /\ ~Billing!IsStale(e.of, e.at) /\ ~(e.kind = "failed" /\ v4[e.of].sub.status = "past_due")
                   THEN Billing!HandleUpdated(e) \/ Billing!HandleDeleted(e) \/ Billing!HandleInvoicePaid(e) \/ Billing!HandlePaymentFailed(e)
                   ELSE UNCHANGED v4
        /\ v9' = IF e.kind # "checkout" /\ ~Billing!Known(e.of) THEN v9 \cup {e} ELSE v9
        /\ v6' = v6 \/ v6' = v6 \ {e}
        /\ UNCHANGED <<v1, v2, v3, v5, v8, v10, v11>>
  BY DEF Billing!HandleWebhookEvent
<1>2. PICK s : s = e.of
  OBVIOUS
<1>3. Billing!BillingShapes
  BY DEF Billing!BillingInvariant
<1>4. s \in Billing!Paid /\ e.at \in Nat /\ e \in Billing!Events /\ e.sub \in Billing!Subs(Billing!MirroredStatuses) /\ Billing!IsInStep(s)
  BY <1>1, <1>2, <1>3 DEF Billing!BillingShapes, Billing!Events, Billing!BillingInvariant
<1>5. /\ e \in Billing!EventsOf(s) /\ Billing!EventsOf(s)' \subseteq Billing!EventsOf(s)
      /\ \A o \in Billing!EventsOf(s) : o # e => o \in Billing!EventsOf(s)'
      /\ \A t \in Billing!Paid : t # s => (Billing!EventsOf(t)' = Billing!EventsOf(t) /\ {o \in v9' : o.of = t} = {o \in v9 : o.of = t})
  BY <1>1, <1>2 DEF Billing!EventsOf
<1>6. v2[s] = "complete"
  BY <1>4, <1>5 DEF Billing!IsInStep, Billing!NotBought
<1>7. v6' \cup v9' \subseteq Billing!Events
  BY <1>1, <1>3, <1>4 DEF Billing!BillingShapes
<1>8. /\ v4' \in [Billing!Paid -> Billing!Rows] /\ v7' \subseteq Billing!Reads
      /\ \A t \in Billing!Paid : t # s => (v4'[t] = v4[t] /\ Billing!ReadsOf(t)' = Billing!ReadsOf(t))
      /\ Billing!IsInStep(s)'
  <2>1. CASE e.kind = "checkout"
    <3>1. Billing!ActivateSubscription(s, e.at) /\ Billing!StartSync(s, TRUE) /\ v9' = v9
      BY <1>1, <1>2, <2>1 DEF Billing!HandleCheckoutCompleted
    <3>2. /\ v4' \in [Billing!Paid -> Billing!Rows] /\ \A t \in Billing!Paid : t # s => v4'[t] = v4[t]
          /\ \/ v4'[s] = v4[s]
             \/ ~Billing!Known(s) /\ v4'[s].sub = Billing!Incomplete(s) /\ v4'[s].at = e.at
      BY <1>3, <1>4, <3>1, ActivationAdds
    <3>3. /\ v7' \subseteq Billing!Reads /\ \A t \in Billing!Paid : t # s => Billing!ReadsOf(t)' = Billing!ReadsOf(t)
          /\ \E r : Billing!ReadsOf(s)' = Billing!ReadsOf(s) \cup {r} /\ r.asOf = v3 /\ r.sub = Billing!Unread
      BY <1>3, <1>4, <3>1, ReadBegins
    <3>4. PICK r : Billing!ReadsOf(s)' = Billing!ReadsOf(s) \cup {r} /\ r.asOf = v3 /\ r.sub = Billing!Unread
      BY <3>3
    <3>5. \A o \in Billing!EventsOf(s) : o.kind # "checkout" => o \in Billing!EventsOf(s)'
      BY <1>5, <2>1
    <3>6. Billing!IsInStep(s)'
      BY <1>1, <1>3, <1>4, <1>5, <1>6, <3>1, <3>2, <3>4, <3>5, ActivationInStep
    <3>7. QED
      BY <3>2, <3>3, <3>6
  <2>2. CASE e.kind # "checkout" /\ Billing!Known(s) /\ ~Billing!IsStale(s, e.at) /\ ~(e.kind = "failed" /\ v4[s].sub.status = "past_due")
    <3>1. PICK sub \in Billing!Subs(Billing!MirroredStatuses \cup {"none", "incomplete"}) :
            /\ Billing!Mirror(s, sub, e.at)
            /\ \/ e.kind = "updated" /\ sub = e.sub
               \/ e.kind = "deleted" /\ sub = [v4[s].sub EXCEPT !.status = "canceled"]
               \/ e.kind = "paid" /\ sub = [v4[s].sub EXCEPT !.status = IF @ = "canceled" THEN @ ELSE "active"]
               \/ e.kind = "failed" /\ sub = [v4[s].sub EXCEPT !.status = "past_due"]
      <4>1. v4[s].sub \in Billing!Subs(Billing!MirroredStatuses \cup {"none", "incomplete"})
        BY <1>3, <1>4 DEF Billing!BillingShapes, Billing!Rows
      <4>2. Billing!HandleUpdated(e) \/ Billing!HandleDeleted(e) \/ Billing!HandleInvoicePaid(e) \/ Billing!HandlePaymentFailed(e)
        BY <1>1, <1>2, <2>2
      <4>3. CASE Billing!HandleUpdated(e)
        <5>1. e.sub \in Billing!Subs(Billing!MirroredStatuses \cup {"none", "incomplete"})
          BY <1>4 DEF Billing!Subs
        <5>2. QED
          BY <1>2, <4>3, <5>1 DEF Billing!HandleUpdated
      <4>4. CASE Billing!HandleDeleted(e)
        <5>1. PICK sub : sub = [v4[s].sub EXCEPT !.status = "canceled"]
          OBVIOUS
        <5>2. sub \in Billing!Subs(Billing!MirroredStatuses \cup {"none", "incomplete"})
          BY <4>1, <5>1 DEF Billing!Subs, Billing!MirroredStatuses
        <5>3. QED
          BY <1>2, <4>4, <5>1, <5>2 DEF Billing!HandleDeleted
      <4>5. CASE Billing!HandleInvoicePaid(e)
        <5>1. PICK sub : sub = [v4[s].sub EXCEPT !.status = IF @ = "canceled" THEN @ ELSE "active"]
          OBVIOUS
        <5>2. sub \in Billing!Subs(Billing!MirroredStatuses \cup {"none", "incomplete"})
          BY <4>1, <5>1 DEF Billing!Subs, Billing!MirroredStatuses
        <5>3. QED
          BY <1>2, <4>5, <5>1, <5>2 DEF Billing!HandleInvoicePaid
      <4>6. CASE Billing!HandlePaymentFailed(e)
        <5>1. PICK sub : sub = [v4[s].sub EXCEPT !.status = "past_due"]
          OBVIOUS
        <5>2. sub \in Billing!Subs(Billing!MirroredStatuses \cup {"none", "incomplete"})
          BY <4>1, <5>1 DEF Billing!Subs, Billing!MirroredStatuses
        <5>3. QED
          BY <1>2, <4>6, <5>1, <5>2 DEF Billing!HandlePaymentFailed
      <4>7. QED
        BY <4>2, <4>3, <4>4, <4>5, <4>6
    <3>2. /\ v4' \in [Billing!Paid -> Billing!Rows] /\ v4'[s].sub = sub /\ v4'[s].at = e.at
          /\ \A t \in Billing!Paid : t # s => v4'[t] = v4[t]
      BY <1>3, <1>4, <3>1, MirrorTakes
    <3>3. v7' = v7 /\ v9' = v9
      BY <1>1, <1>2, <2>2
    <3>4. v7' \subseteq Billing!Reads /\ \A t \in Billing!Paid : t # s => Billing!ReadsOf(t)' = Billing!ReadsOf(t)
      BY <1>3, <3>3 DEF Billing!BillingShapes, Billing!ReadsOf
    <3>5. Billing!IsInStep(s)'
      <4>1. \/ e.kind = "updated" /\ v4'[s].sub = e.sub
            \/ e.kind = "deleted" /\ v4'[s].sub = [v4[s].sub EXCEPT !.status = "canceled"]
            \/ e.kind = "paid" /\ v4'[s].sub = [v4[s].sub EXCEPT !.status = IF @ = "canceled" THEN @ ELSE "active"]
            \/ e.kind = "failed" /\ v4'[s].sub = [v4[s].sub EXCEPT !.status = "past_due"]
        BY <3>1, <3>2
      <4>2. QED
        BY <1>1, <1>3, <1>4, <1>5, <2>2, <3>2, <3>3, <4>1, EventIsTaken
    <3>6. QED
      BY <3>2, <3>4, <3>5
  <2>3. CASE e.kind # "checkout" /\ ~(Billing!Known(s) /\ ~Billing!IsStale(s, e.at) /\ ~(e.kind = "failed" /\ v4[s].sub.status = "past_due"))
    <3>1. v7' = v7 /\ v4' = v4
      BY <1>1, <1>2, <2>3
    <3>2. /\ v7' \subseteq Billing!Reads /\ v4' \in [Billing!Paid -> Billing!Rows]
          /\ \A t \in Billing!Paid : Billing!ReadsOf(t)' = Billing!ReadsOf(t)
      BY <1>3, <3>1 DEF Billing!BillingShapes, Billing!ReadsOf
    <3>3. \/ ~Billing!Known(s) /\ v9' = v9 \cup {e}
          \/ v9' = v9 /\ Billing!Known(s) /\ (Billing!IsStale(s, e.at) \/ e.kind = "failed")
      BY <1>1, <1>2, <2>3
    <3>4. Billing!IsInStep(s)'
      BY <1>1, <1>3, <1>4, <1>5, <2>3, <3>1, <3>3, EventIsDropped
    <3>5. QED
      BY <3>1, <3>2, <3>4
  <2>4. QED
    BY <2>1, <2>2, <2>3
<1>9. Billing!BillingShapes'
  BY <1>1, <1>3, <1>7, <1>8 DEF Billing!BillingShapes
<1>10. ASSUME NEW t \in Billing!Paid, t # s PROVE Billing!IsInStep(t)'
  <2>1. Billing!IsInStep(t) /\ v8' = v8 /\ v2' = v2
    BY <1>1 DEF Billing!BillingInvariant
  <2>2. v2[t] # "complete" => (~(v8'.kind = "confirm" /\ v8'.of = t) /\ ~(v8'.stage = "changed" /\ v8'.of = t))
    BY <2>1 DEF Billing!IsInStep, Billing!NotBought
  <2>3. QED
    BY <1>1, <1>3, <1>5, <1>8, <1>10, <2>1, <2>2, QuietStaysInStep
<1>11. QED
  BY <1>8, <1>9, <1>10 DEF Billing!BillingInvariant, Billing!Paid

\* With fewer reads under way, or with more of one known, a subscription stays in step.
LEMMA ReadsGoOn ==
  ASSUME SubSeconds \in Nat \ {0}, Billing!BillingShapes, UNCHANGED <<v1, v2, v3, v6, v9, v10, v11>>, NEW s \in Billing!Paid, Billing!IsInStep(s),
         v2[s] = "complete", v4'[s].sub = v4[s].sub, v4'[s].at = v4[s].at,
         \A r \in Billing!ReadsOf(s)' : \/ r \in Billing!ReadsOf(s)
                                        \/ \E q \in Billing!ReadsOf(s) : r.asOf = q.asOf /\ r.sub = v1[s]
                                        \/ r.asOf = v3 /\ r.sub = Billing!Unread
  PROVE  Billing!IsInStep(s)'
<1>1. v10[s] \in Nat /\ v3 \in Nat /\ v10[s] <= v3
  BY DEF Billing!BillingShapes, Billing!IsInStep
<1>2. /\ Billing!LastChangeAt(s) \in Nat /\ Billing!LastChangeAt(s) <= v10[s]
      /\ Billing!LastChangeAt(s)' = Billing!LastChangeAt(s)
  BY <1>1, SecondBegins DEF Billing!LastChangeAt, Billing!Second
<1>3. Billing!UnknownIsUntold(s)' /\ (Billing!Known(s)' <=> Billing!Known(s)) /\ Billing!EventsOf(s)' = Billing!EventsOf(s)
  BY DEF Billing!Known, Billing!UnknownIsUntold, Billing!IsInStep, Billing!EventsOf
<1>4. ASSUME s \notin v11 PROVE Billing!Follows(s)'
  <2>1. Billing!EventsTell(s) /\ Billing!ReadsFind(s) /\ (Billing!Taken(s) \/ Billing!Comes(s) \/ Billing!MissedIt(s) \/ Billing!JustBought(s))
    BY <1>4 DEF Billing!IsInStep, Billing!Follows
  <2>2. Billing!EventsTell(s)'
    BY <1>2, <1>3, <2>1 DEF Billing!EventsTell, Billing!Bought
  <2>3. Billing!ReadsFind(s)'
    <3>1. \A r \in Billing!ReadsOf(s)' : /\ r.asOf <= v3
                                         /\ (r.asOf >= Billing!LastChangeAt(s)) => (r.asOf >= v10[s] /\ r.sub \in {Billing!Unread, v1[s]})
      <4>1. \A q \in Billing!ReadsOf(s) : /\ q.asOf <= v3
                                          /\ (q.asOf >= Billing!LastChangeAt(s)) => (q.asOf >= v10[s] /\ q.sub \in {Billing!Unread, v1[s]})
        BY <2>1 DEF Billing!ReadsFind
      <4>2. QED
        BY <1>1, <4>1
    <3>2. QED
      BY <1>2, <3>1 DEF Billing!ReadsFind, Billing!Unread, Billing!NotThere
  <2>4. Billing!Taken(s) => Billing!Taken(s)'
    BY <1>2, <1>3 DEF Billing!Taken, Billing!Mirrors
  <2>5. Billing!Comes(s) => Billing!Comes(s)'
    BY <1>2, <1>3 DEF Billing!Comes, Billing!TellsAll
  <2>6. Billing!MissedIt(s) => Billing!MissedIt(s)'
    BY <1>2 DEF Billing!MissedIt
  <2>7. ASSUME Billing!JustBought(s) PROVE Billing!JustBought(s)'
    <3>1. \A r \in Billing!ReadsOf(s)' : r.asOf >= v10[s]
      <4>1. \A q \in Billing!ReadsOf(s) : q.asOf >= v10[s]
        BY <2>7 DEF Billing!JustBought
      <4>2. QED
        BY <1>1, <4>1
    <3>2. QED
      BY <1>2, <1>3, <2>7, <3>1 DEF Billing!JustBought, Billing!Bought, Billing!NotThere, Billing!Incomplete
  <2>8. QED
    BY <2>1, <2>2, <2>3, <2>4, <2>5, <2>6, <2>7 DEF Billing!Follows
<1>5. QED
  BY <1>3, <1>4 DEF Billing!IsInStep

\* What a read found is taken as of when it was begun.
LEMMA ReadIsTaken ==
  ASSUME SubSeconds \in Nat \ {0}, Billing!BillingShapes, UNCHANGED <<v1, v2, v3, v6, v10, v11>>, NEW s \in Billing!Paid, Billing!IsInStep(s),
         v2[s] = "complete", NEW r \in Billing!ReadsOf(s), r.sub # Billing!Unread, ~Billing!IsStale(s, r.asOf),
         r.sub.status \in Billing!MirroredStatuses,
         v4'[s].sub = r.sub, v4'[s].at = r.asOf, Billing!ReadsOf(s)' \subseteq Billing!ReadsOf(s),
         \A e \in v9 : (e.of = s /\ e.at > r.asOf) => e \in v9'
  PROVE  Billing!IsInStep(s)'
<1>1. v10[s] \in Nat /\ v3 \in Nat /\ v10[s] <= v3 /\ v4[s].at \in Nat /\ r.asOf \in Nat
  BY DEF Billing!BillingShapes, Billing!IsInStep, Billing!Rows, Billing!ReadsOf, Billing!Reads
<1>2. /\ Billing!LastChangeAt(s) \in Nat /\ Billing!LastChangeAt(s) <= v10[s]
      /\ Billing!LastChangeAt(s)' = Billing!LastChangeAt(s)
  BY <1>1, SecondBegins DEF Billing!LastChangeAt, Billing!Second
<1>3. Billing!UnknownIsUntold(s)' /\ Billing!Known(s)' /\ Billing!EventsOf(s)' = Billing!EventsOf(s)
  BY DEF Billing!Known, Billing!UnknownIsUntold, Billing!EventsOf, Billing!MirroredStatuses
<1>4. ASSUME s \notin v11 PROVE Billing!Follows(s)'
  <2>1. Billing!EventsTell(s) /\ Billing!ReadsFind(s) /\ (Billing!Taken(s) \/ Billing!Comes(s) \/ Billing!MissedIt(s) \/ Billing!JustBought(s))
    BY <1>4 DEF Billing!IsInStep, Billing!Follows
  <2>2. Billing!EventsTell(s)' /\ Billing!ReadsFind(s)'
    BY <1>2, <1>3, <2>1 DEF Billing!EventsTell, Billing!ReadsFind, Billing!Bought, Billing!Unread, Billing!NotThere
  <2>3. CASE r.asOf >= Billing!LastChangeAt(s)
    <3>1. r.sub = v1[s]
      BY <2>1, <2>3 DEF Billing!ReadsFind
    <3>2. Billing!Taken(s)'
      BY <1>2, <1>3, <2>3, <3>1 DEF Billing!Taken, Billing!Mirrors
    <3>3. QED
      BY <2>2, <3>2 DEF Billing!Follows
  <2>4. CASE r.asOf < Billing!LastChangeAt(s)
    <3>1. ~Billing!Taken(s)
      BY <1>1, <1>2, <2>4 DEF Billing!Taken, Billing!IsStale
    <3>2. ~Billing!JustBought(s)
      BY <1>1, <1>2, <2>4 DEF Billing!JustBought
    <3>3. Billing!Comes(s) => Billing!Comes(s)'
      BY <1>1, <1>2, <1>3, <2>4 DEF Billing!Comes, Billing!TellsAll
    <3>4. Billing!MissedIt(s) => Billing!MissedIt(s)'
      BY <1>2, <2>4 DEF Billing!MissedIt
    <3>5. QED
      BY <2>1, <2>2, <3>1, <3>2, <3>3, <3>4 DEF Billing!Follows
  <2>5. QED
    BY <1>1, <1>2, <2>3, <2>4
<1>5. QED
  BY <1>3, <1>4 DEF Billing!IsInStep

\* A read of the provider comes back, ends or fails.
LEMMA ReadsKeepStep ==
  ASSUME TopPlan \in Nat, SubSeconds \in Nat \ {0}, Billing!BillingInvariant,
         Billing!SyncReads \/ Billing!UpdateSubscription \/ Billing!MarkSyncPending
  PROVE  Billing!BillingInvariant'
<1>1. Billing!BillingShapes /\ UNCHANGED <<v1, v2, v3, v6, v10, v11>>
  BY DEF Billing!BillingInvariant, Billing!SyncReads, Billing!UpdateSubscription, Billing!MarkSyncPending
<1>2. PICK r \in v7 :
        \/ r.sub = Billing!Unread /\ v7' = (v7 \ {r}) \cup {[r EXCEPT !.sub = v1[r.of]]} /\ UNCHANGED <<v4, v8, v9>>
        \/ /\ r.sub # Billing!Unread /\ Billing!Known(r.of) /\ ~Billing!IsStale(r.of, r.asOf)
           /\ Billing!Mirror(r.of, r.sub, r.asOf) /\ v9' = {e \in v9 : e.of = r.of => e.at > r.asOf} /\ Billing!SyncEnds(r)
        \/ UNCHANGED <<v4, v9>> /\ Billing!SyncEnds(r)
        \/ r.sub = Billing!Unread /\ v4' = [v4 EXCEPT ![r.of].pending = @ \/ Billing!Known(r.of)] /\ UNCHANGED v9 /\ Billing!SyncEnds(r)
  BY DEF Billing!SyncReads, Billing!UpdateSubscription, Billing!MarkSyncPending
<1>3. PICK s : s = r.of
  OBVIOUS
<1>4. s \in Billing!Paid /\ r \in Billing!ReadsOf(s) /\ r \in Billing!Reads
  BY <1>1, <1>3 DEF Billing!BillingShapes, Billing!Reads, Billing!ReadsOf
<1>5. Billing!IsInStep(s)
  BY <1>4 DEF Billing!BillingInvariant
<1>6. v2[s] = "complete" /\ v1[s].status # "none"
  BY <1>4, <1>5 DEF Billing!IsInStep, Billing!NotBought
<1>7. v1[s] \in Billing!Subs(Billing!MirroredStatuses)
  <2>1. v1[s] \in Billing!Subs(Billing!MirroredStatuses \cup {"none"})
    BY <1>1, <1>4 DEF Billing!BillingShapes
  <2>2. QED
    BY <1>6, <2>1 DEF Billing!Subs
<1>8. /\ v8' \in Billing!PayAsks /\ (v8'.kind = "confirm" \/ v8'.stage = "changed" => v8'.of \in Billing!Paid)
      /\ v8'.kind = v8.kind /\ v8'.of = v8.of /\ (v8'.stage = "changed" => v8.stage = "changed")
  <2>1. v8' = v8 \/ \E stage \in {"done", "refused"} : v8' = [v8 EXCEPT !.stage = stage]
    BY <1>2 DEF Billing!SyncEnds
  <2>2. CASE v8' = v8
    BY <1>1, <2>2 DEF Billing!BillingShapes
  <2>3. CASE \E stage \in {"done", "refused"} : v8' = [v8 EXCEPT !.stage = stage]
    <3>1. PICK stage \in {"done", "refused"} : v8' = [v8 EXCEPT !.stage = stage]
      BY <2>3
    <3>2. v8' \in Billing!PayAsks /\ v8'.kind = v8.kind /\ v8'.of = v8.of /\ v8'.stage = stage
      BY <1>1, <3>1, AskGoesOn
    <3>3. QED
      BY <1>1, <3>1, <3>2 DEF Billing!BillingShapes
  <2>4. QED
    BY <2>1, <2>2, <2>3
<1>9. ASSUME /\ v4' \in [Billing!Paid -> Billing!Rows] /\ v7' \subseteq Billing!Reads /\ v9' \subseteq v9 /\ Billing!IsInStep(s)'
             /\ \A t \in Billing!Paid : t # s => (v4'[t] = v4[t] /\ Billing!ReadsOf(t)' = Billing!ReadsOf(t) /\ {e \in v9' : e.of = t} = {e \in v9 : e.of = t})
      PROVE  Billing!BillingInvariant'
  <2>1. Billing!BillingShapes'
    BY <1>1, <1>8, <1>9 DEF Billing!BillingShapes
  <2>2. ASSUME NEW t \in Billing!Paid, t # s PROVE Billing!IsInStep(t)'
    <3>1. Billing!IsInStep(t) /\ v2' = v2 /\ Billing!EventsOf(t)' = Billing!EventsOf(t)
      BY <1>1 DEF Billing!BillingInvariant, Billing!EventsOf
    <3>2. v2[t] # "complete" => (~(v8'.kind = "confirm" /\ v8'.of = t) /\ ~(v8'.stage = "changed" /\ v8'.of = t))
      BY <1>8, <3>1 DEF Billing!IsInStep, Billing!NotBought
    <3>3. QED
      BY <1>1, <1>9, <2>2, <3>1, <3>2, QuietStaysInStep
  <2>3. QED
    BY <1>9, <2>1, <2>2 DEF Billing!BillingInvariant, Billing!Paid
<1>10. CASE r.sub = Billing!Unread /\ v7' = (v7 \ {r}) \cup {[r EXCEPT !.sub = v1[r.of]]} /\ UNCHANGED <<v4, v8, v9>>
  <2>1. PICK q : q = [r EXCEPT !.sub = v1[s]]
    OBVIOUS
  <2>2. q \in Billing!Reads /\ q.of = s /\ q.asOf = r.asOf /\ q.sub = v1[s]
    BY <1>3, <1>4, <1>7, <2>1 DEF Billing!Reads
  <2>3. v7' = (v7 \ {r}) \cup {q}
    BY <1>3, <1>10, <2>1
  <2>4. v7' \subseteq Billing!Reads /\ \A t \in Billing!Paid : t # s => Billing!ReadsOf(t)' = Billing!ReadsOf(t)
    BY <1>1, <1>3, <2>2, <2>3 DEF Billing!BillingShapes, Billing!ReadsOf
  <2>5. \A o \in Billing!ReadsOf(s)' : o \in Billing!ReadsOf(s) \/ o = q
    BY <2>3 DEF Billing!ReadsOf
  <2>6. Billing!IsInStep(s)'
    BY <1>1, <1>4, <1>5, <1>6, <1>10, <2>2, <2>5, ReadsGoOn
  <2>7. QED
    BY <1>1, <1>9, <1>10, <2>4, <2>6 DEF Billing!BillingShapes
<1>11. CASE Billing!SyncEnds(r)
  <2>1. v7' = v7 \ {r} /\ v7' \subseteq Billing!Reads
    BY <1>1, <1>11 DEF Billing!SyncEnds, Billing!BillingShapes
  <2>2. Billing!ReadsOf(s)' \subseteq Billing!ReadsOf(s) /\ \A t \in Billing!Paid : t # s => Billing!ReadsOf(t)' = Billing!ReadsOf(t)
    BY <1>3, <2>1 DEF Billing!ReadsOf
  <2>3. CASE v9' = v9 /\ (v4' = v4 \/ v4' = [v4 EXCEPT ![r.of].pending = @ \/ Billing!Known(r.of)])
    <3>1. /\ v4' \in [Billing!Paid -> Billing!Rows] /\ v4'[s].sub = v4[s].sub /\ v4'[s].at = v4[s].at
          /\ \A t \in Billing!Paid : t # s => v4'[t] = v4[t]
      <4>1. v4 \in [Billing!Paid -> Billing!Rows] /\ v4[s] \in Billing!Rows
        BY <1>1, <1>4 DEF Billing!BillingShapes
      <4>2. PICK pending \in BOOLEAN : v4' = v4 \/ v4' = [v4 EXCEPT ![s].pending = pending]
        BY <1>3, <2>3, <4>1 DEF Billing!Rows, Billing!Known
      <4>3. PICK row : row = [v4[s] EXCEPT !.pending = pending]
        OBVIOUS
      <4>4. row \in Billing!Rows /\ row.sub = v4[s].sub /\ row.at = v4[s].at
        BY <4>1, <4>3 DEF Billing!Rows
      <4>5. v4' = v4 \/ v4' = [v4 EXCEPT ![s] = row]
        BY <4>1, <4>2, <4>3
      <4>6. QED
        BY <1>4, <4>1, <4>4, <4>5
    <3>2. Billing!IsInStep(s)'
      BY <1>1, <1>4, <1>5, <1>6, <2>2, <2>3, <3>1, ReadsGoOn
    <3>3. QED
      BY <1>9, <2>1, <2>2, <2>3, <3>1, <3>2
  <2>4. CASE /\ r.sub # Billing!Unread /\ Billing!Known(r.of) /\ ~Billing!IsStale(r.of, r.asOf)
             /\ Billing!Mirror(r.of, r.sub, r.asOf) /\ v9' = {e \in v9 : e.of = r.of => e.at > r.asOf}
    <3>1. r.sub \in Billing!Subs(Billing!MirroredStatuses) /\ r.asOf \in Nat
      BY <1>4, <2>4 DEF Billing!Reads
    <3>2. r.sub.status \in Billing!MirroredStatuses /\ r.sub \in Billing!Subs(Billing!MirroredStatuses \cup {"none", "incomplete"})
      BY <3>1 DEF Billing!Subs
    <3>3. /\ v4' \in [Billing!Paid -> Billing!Rows] /\ v4'[s].sub = r.sub /\ v4'[s].at = r.asOf
          /\ \A t \in Billing!Paid : t # s => v4'[t] = v4[t]
      BY <1>1, <1>3, <1>4, <2>4, <3>1, <3>2, MirrorTakes
    <3>4. \A e \in v9 : (e.of = s /\ e.at > r.asOf) => e \in v9'
      BY <1>3, <2>4
    <3>5. Billing!IsInStep(s)'
      BY <1>1, <1>3, <1>4, <1>5, <1>6, <2>2, <2>4, <3>2, <3>3, <3>4, ReadIsTaken
    <3>6. v9' \subseteq v9 /\ \A t \in Billing!Paid : t # s => {e \in v9' : e.of = t} = {e \in v9 : e.of = t}
      BY <1>3, <2>4
    <3>7. QED
      BY <1>9, <2>1, <2>2, <3>3, <3>5, <3>6
  <2>5. QED
    BY <1>2, <1>11, <2>3, <2>4
<1>12. QED
  BY <1>2, <1>10, <1>11

\* A step of the browser's requests, and the end of a grace period, tell the mirror nothing.
LEMMA RequestsKeepStep ==
  ASSUME Billing!BillingInvariant, UNCHANGED <<v1, v3, v6, v7, v9, v10, v11>>,
         v2' \in [Billing!Paid -> {"none", "open", "complete"}], v4' \in [Billing!Paid -> Billing!Rows],
         v8' \in Billing!PayAsks, v8'.kind = "confirm" \/ v8'.stage = "changed" => v8' = v8,
         \A s \in Billing!Paid : /\ v2'[s] = "complete" <=> v2[s] = "complete"
                                 /\ v4'[s].sub = v4[s].sub /\ v4'[s].at = v4[s].at
  PROVE  Billing!BillingInvariant'
<1>1. Billing!BillingShapes
  BY DEF Billing!BillingInvariant
<1>2. Billing!BillingShapes'
  BY <1>1 DEF Billing!BillingShapes
<1>3. ASSUME NEW s \in Billing!Paid PROVE Billing!IsInStep(s)'
  <2>1. Billing!IsInStep(s) /\ Billing!EventsOf(s)' = Billing!EventsOf(s) /\ Billing!ReadsOf(s)' = Billing!ReadsOf(s)
    BY DEF Billing!BillingInvariant, Billing!EventsOf, Billing!ReadsOf
  <2>2. v2[s] # "complete" => (~(v8'.kind = "confirm" /\ v8'.of = s) /\ ~(v8'.stage = "changed" /\ v8'.of = s))
    BY <2>1 DEF Billing!IsInStep, Billing!NotBought
  <2>3. QED
    BY <1>1, <2>1, <2>2, QuietStaysInStep
<1>4. QED
  BY <1>2, <1>3 DEF Billing!BillingInvariant, Billing!Paid

LEMMA GraceKeepsStep ==
  ASSUME Billing!BillingInvariant, Billing!GraceEnds
  PROVE  Billing!BillingInvariant'
<1>1. PICK s \in Billing!Paid : v4' = [v4 EXCEPT ![s].lapsed = TRUE]
  BY DEF Billing!GraceEnds
<1>2. v4 \in [Billing!Paid -> Billing!Rows] /\ v4[s] \in Billing!Rows
  BY DEF Billing!BillingInvariant, Billing!BillingShapes
<1>3. PICK row : row = [v4[s] EXCEPT !.lapsed = TRUE]
  OBVIOUS
<1>4. row \in Billing!Rows /\ row.sub = v4[s].sub /\ row.at = v4[s].at
  BY <1>2, <1>3 DEF Billing!Rows
<1>5. v4' = [v4 EXCEPT ![s] = row]
  BY <1>1, <1>2, <1>3
<1>6. v4' \in [Billing!Paid -> Billing!Rows] /\ \A t \in Billing!Paid : v4'[t].sub = v4[t].sub /\ v4'[t].at = v4[t].at
  BY <1>2, <1>4, <1>5
<1>7. UNCHANGED <<v1, v2, v3, v6, v7, v8, v9, v10, v11>>
  BY DEF Billing!GraceEnds
<1>8. v2 \in [Billing!Paid -> {"none", "open", "complete"}] /\ v8 \in Billing!PayAsks
  BY DEF Billing!BillingInvariant, Billing!BillingShapes
<1>9. QED
  BY <1>6, <1>7, <1>8, RequestsKeepStep

LEMMA AsksKeepStep ==
  ASSUME TopPlan \in Nat, Billing!BillingInvariant, Billing!Asks \/ Billing!PayAnswered \/ Billing!CreateCheckout
  PROVE  Billing!BillingInvariant'
<1>1. Billing!BillingShapes
  BY DEF Billing!BillingInvariant
<1>2. UNCHANGED <<v1, v3, v4, v6, v7, v9, v10, v11>> /\ v4 \in [Billing!Paid -> Billing!Rows]
      /\ v2 \in [Billing!Paid -> {"none", "open", "complete"}] /\ v8 \in Billing!PayAsks
  BY <1>1 DEF Billing!Asks, Billing!PayAnswered, Billing!CreateCheckout, Billing!BillingShapes
<1>3. /\ v2' \in [Billing!Paid -> {"none", "open", "complete"}] /\ \A s \in Billing!Paid : v2'[s] = "complete" <=> v2[s] = "complete"
      /\ v8' \in Billing!PayAsks /\ (v8'.kind = "confirm" \/ v8'.stage = "changed" => v8' = v8)
  <2>1. CASE Billing!Asks
    <3>1. PICK kind \in {"checkout", "change"}, plan \in 0..TopPlan : v8' = [kind |-> kind, of |-> plan, stage |-> "sent"]
      BY <2>1 DEF Billing!Asks
    <3>2. v8' \in Billing!PayAsks /\ v8'.kind = kind /\ v8'.stage = "sent"
      BY <3>1 DEF Billing!PayAsks
    <3>3. QED
      BY <1>2, <2>1, <3>1, <3>2 DEF Billing!Asks
  <2>2. CASE Billing!PayAnswered
    <3>1. v8' \in Billing!PayAsks /\ v8'.kind = "none" /\ v8'.stage = "none" /\ v2' = v2
      BY <2>2 DEF Billing!PayAnswered, Billing!NoAsk, Billing!PayAsks
    <3>2. QED
      BY <1>2, <3>1
  <2>3. CASE Billing!CreateCheckout
    <3>1. PICK stage \in {"refused", "done"} : v8' = [v8 EXCEPT !.stage = stage]
      BY <2>3 DEF Billing!CreateCheckout
    <3>2. v8' \in Billing!PayAsks /\ v8'.kind = "checkout" /\ v8'.stage = stage
      BY <1>1, <2>3, <3>1, AskGoesOn DEF Billing!CreateCheckout
    <3>3. v2' = v2 \/ (v2' = [v2 EXCEPT ![v8.of] = "open"] /\ v2[v8.of] # "complete")
      BY <2>3 DEF Billing!CreateCheckout
    <3>4. QED
      BY <1>2, <3>1, <3>2, <3>3
  <2>4. QED
    BY <2>1, <2>2, <2>3
<1>4. QED
  BY <1>2, <1>3, RequestsKeepStep

\* A read that a request begins.
LEMMA RequestReads ==
  ASSUME SubSeconds \in Nat \ {0}, Billing!BillingInvariant, Billing!ConfirmCheckoutSession \/ Billing!ChangeSyncs
  PROVE  Billing!BillingInvariant'
<1>1. Billing!BillingShapes /\ UNCHANGED <<v1, v2, v3, v6, v9, v10, v11>> /\ v8' = [v8 EXCEPT !.stage = "syncing"]
  BY DEF Billing!BillingInvariant, Billing!ConfirmCheckoutSession, Billing!ChangeSyncs
<1>2. v8' \in Billing!PayAsks /\ v8'.kind = v8.kind /\ v8'.of = v8.of /\ v8'.stage = "syncing"
  BY <1>1, AskGoesOn
<1>3. PICK s \in Billing!Paid, activates \in BOOLEAN :
        /\ s = v8.of /\ Billing!StartSync(s, activates) /\ (v8.kind = "confirm" \/ v8.stage = "changed")
        /\ Billing!ActivateSubscription(s, 0) \/ v4' = v4
  BY <1>1 DEF Billing!ConfirmCheckoutSession, Billing!ChangeSyncs, Billing!BillingShapes
<1>4. Billing!IsInStep(s) /\ v2[s] = "complete"
  BY <1>3 DEF Billing!BillingInvariant, Billing!IsInStep, Billing!NotBought
<1>5. /\ v7' \subseteq Billing!Reads /\ \A t \in Billing!Paid : t # s => Billing!ReadsOf(t)' = Billing!ReadsOf(t)
      /\ \E r : Billing!ReadsOf(s)' = Billing!ReadsOf(s) \cup {r} /\ r.asOf = v3 /\ r.sub = Billing!Unread
  BY <1>1, <1>3, ReadBegins
<1>6. PICK r : Billing!ReadsOf(s)' = Billing!ReadsOf(s) \cup {r} /\ r.asOf = v3 /\ r.sub = Billing!Unread
  BY <1>5
<1>7. /\ v4' \in [Billing!Paid -> Billing!Rows] /\ \A t \in Billing!Paid : t # s => v4'[t] = v4[t]
      /\ \/ v4'[s] = v4[s]
         \/ ~Billing!Known(s) /\ v4'[s].sub = Billing!Incomplete(s) /\ v4'[s].at = 0
  <2>1. CASE v4' = v4
    BY <1>1, <2>1 DEF Billing!BillingShapes
  <2>2. CASE Billing!ActivateSubscription(s, 0)
    BY <1>1, <2>2, ActivationAdds
  <2>3. QED
    BY <1>3, <2>1, <2>2
<1>8. Billing!EventsOf(s)' = Billing!EventsOf(s)
  BY <1>1 DEF Billing!EventsOf
<1>9. Billing!IsInStep(s)'
  BY <1>1, <1>4, <1>6, <1>7, <1>8, ActivationInStep
<1>10. ASSUME NEW t \in Billing!Paid, t # s PROVE Billing!IsInStep(t)'
  <2>1. Billing!IsInStep(t) /\ Billing!EventsOf(t)' = Billing!EventsOf(t)
    BY <1>1 DEF Billing!BillingInvariant, Billing!EventsOf
  <2>2. v2[t] # "complete" => (~(v8'.kind = "confirm" /\ v8'.of = t) /\ ~(v8'.stage = "changed" /\ v8'.of = t))
    BY <1>2, <1>3, <1>10
  <2>3. QED
    BY <1>1, <1>5, <1>7, <1>10, <2>1, <2>2, QuietStaysInStep
<1>11. Billing!BillingShapes'
  BY <1>1, <1>2, <1>3, <1>5, <1>7 DEF Billing!BillingShapes
<1>12. QED
  BY <1>9, <1>10, <1>11 DEF Billing!BillingInvariant, Billing!Paid

\* A plan is changed, or the request refused.
LEMMA PlanChangeKeepsStep ==
  ASSUME TopPlan \in Nat, SubSeconds \in Nat \ {0}, Billing!BillingInvariant, Billing!ChangePlan
  PROVE  Billing!BillingInvariant'
<1>1. Billing!BillingShapes /\ UNCHANGED <<v2, v4, v7, v9>> /\ v8.kind = "change"
  BY DEF Billing!BillingInvariant, Billing!ChangePlan
<1>2. CASE v8' = [v8 EXCEPT !.stage = "refused"] /\ UNCHANGED Billing!atTheProvider
  <2>1. UNCHANGED <<v1, v3, v6, v10, v11>>
    BY <1>2 DEF Billing!atTheProvider
  <2>2. v8' \in Billing!PayAsks /\ v8'.kind = "change" /\ v8'.stage = "refused"
    BY <1>1, <1>2, AskGoesOn
  <2>3. QED
    BY <1>1, <2>1, <2>2, RequestsKeepStep DEF Billing!BillingShapes
<1>3. ASSUME NEW s \in Billing!ActiveSubscription, NEW current, NEW target, current = v4[s].sub, target = v8.of,
             \/ UNCHANGED Billing!atTheProvider
             \/ Billing!Runs(s) /\ Billing!ProviderChanges(s, Billing!ChangedTo(v1[s], current, target), {"updated"}),
             NEW stage \in {"changed", "refused"}, v8' = [kind |-> "change", of |-> s, stage |-> stage]
      PROVE  Billing!BillingInvariant'
  <2>1. s \in Billing!Paid /\ Billing!Known(s) /\ Billing!IsInStep(s)
    BY <1>3 DEF Billing!ActiveSubscription, Billing!IsCurrentlyEntitling, Billing!Known, Billing!BillingInvariant
  <2>2. v2[s] = "complete" /\ v1[s].status # "none"
    BY <2>1 DEF Billing!IsInStep, Billing!NotBought, Billing!Known, Billing!NotThere
  <2>3. v8' \in Billing!PayAsks /\ v8'.kind = "change" /\ v8'.of = s /\ v8'.stage = stage
    BY <1>3, <2>1 DEF Billing!PayAsks, Billing!Paid
  <2>4. CASE UNCHANGED Billing!atTheProvider
    <3>1. UNCHANGED <<v1, v3, v6, v10, v11>>
      BY <2>4 DEF Billing!atTheProvider
    <3>2. Billing!BillingShapes'
      BY <1>1, <2>1, <2>3, <3>1 DEF Billing!BillingShapes
    <3>3. ASSUME NEW t \in Billing!Paid PROVE Billing!IsInStep(t)'
      <4>1. Billing!IsInStep(t) /\ Billing!EventsOf(t)' = Billing!EventsOf(t) /\ Billing!ReadsOf(t)' = Billing!ReadsOf(t)
        BY <1>1, <3>1 DEF Billing!BillingInvariant, Billing!EventsOf, Billing!ReadsOf
      <4>2. v2[t] # "complete" => (~(v8'.kind = "confirm" /\ v8'.of = t) /\ ~(v8'.stage = "changed" /\ v8'.of = t))
        BY <2>2, <2>3
      <4>3. QED
        BY <1>1, <3>1, <4>1, <4>2, QuietStaysInStep
    <3>4. QED
      BY <3>2, <3>3 DEF Billing!BillingInvariant, Billing!Paid
  <2>5. CASE Billing!Runs(s) /\ Billing!ProviderChanges(s, Billing!ChangedTo(v1[s], current, target), {"updated"})
    <3>1. PICK sub : sub = Billing!ChangedTo(v1[s], current, target)
      OBVIOUS
    <3>2. v1[s] \in Billing!Subs(Billing!MirroredStatuses) /\ target \in Nat /\ current.cancelling \in BOOLEAN
      <4>1. v1[s] \in Billing!Subs(Billing!MirroredStatuses \cup {"none"}) /\ v8 \in Billing!PayAsks /\ v4[s] \in Billing!Rows
        BY <1>1, <2>1 DEF Billing!BillingShapes
      <4>2. QED
        BY <1>3, <2>2, <4>1 DEF Billing!Subs, Billing!PayAsks, Billing!Rows
    <3>3. sub \in Billing!Subs(Billing!MirroredStatuses)
      <4>1. [v1[s] EXCEPT !.cancelling = TRUE] \in Billing!Subs(Billing!MirroredStatuses)
        BY <3>2 DEF Billing!Subs
      <4>2. [v1[s] EXCEPT !.cancelling = FALSE] \in Billing!Subs(Billing!MirroredStatuses)
        BY <3>2 DEF Billing!Subs
      <4>3. [v1[s] EXCEPT !.plan = target, !.cancelling = @ /\ ~current.cancelling] \in Billing!Subs(Billing!MirroredStatuses)
        BY <3>2 DEF Billing!Subs
      <4>4. QED
        BY <3>1, <4>1, <4>2, <4>3 DEF Billing!ChangedTo
    <3>4. QED
      BY <1>1, <2>1, <2>2, <2>3, <2>5, <3>1, <3>3, ChangeIsFollowed
  <2>6. QED
    BY <1>3, <2>4, <2>5
<1>4. QED
  <2>1. CASE ~(v8' = [v8 EXCEPT !.stage = "refused"] /\ UNCHANGED Billing!atTheProvider)
    <3>1. PICK s \in Billing!ActiveSubscription, stage \in {"changed", "refused"} :
            /\ \/ UNCHANGED Billing!atTheProvider
               \/ Billing!Runs(s) /\ Billing!ProviderChanges(s, Billing!ChangedTo(v1[s], v4[s].sub, v8.of), {"updated"})
            /\ v8' = [kind |-> "change", of |-> s, stage |-> stage]
      BY <2>1 DEF Billing!ChangePlan
    <3>2. QED
      BY <1>3, <3>1
  <2>2. QED
    BY <1>2, <2>1

\* A step of what is paid for keeps its invariant.
LEMMA BillingStep ==
  ASSUME TopPlan \in Nat, SubSeconds \in Nat \ {0}, Billing!BillingInvariant, [Billing!BillingNext]_Billing!billingVars
  PROVE  Billing!BillingInvariant'
<1>1. CASE UNCHANGED Billing!billingVars
  BY <1>1, RequestsKeepStep DEF Billing!billingVars, Billing!BillingInvariant, Billing!BillingShapes
<1>2. CASE Billing!BillingNext
  BY <1>2, PaidIsTold, ActsAreTold, EventsAreHandled, ReadsKeepStep, GraceKeepsStep, AsksKeepStep, RequestReads, PlanChangeKeepsStep
  DEF Billing!BillingNext
<1>3. QED
  BY <1>1, <1>2

\* The mirror catches up.
LEMMA BillingHolds ==
  ASSUME Billing!BillingInvariant
  PROVE  Billing!MirrorCatchesUp
<1>1. SUFFICES ASSUME NEW s \in Billing!Paid, s \notin v11, Billing!Known(s), \A e \in v6 \cup v9 : e.of # s
               PROVE  Billing!Mirrors(v4[s].sub, v1[s])
  BY DEF Billing!MirrorCatchesUp
<1>2. Billing!IsInStep(s)
  BY DEF Billing!BillingInvariant
<1>3. v2[s] = "complete"
  BY <1>1, <1>2 DEF Billing!IsInStep, Billing!NotBought, Billing!Known, Billing!NotThere
<1>4. Billing!Taken(s) \/ Billing!Comes(s) \/ Billing!MissedIt(s) \/ Billing!JustBought(s)
  BY <1>1, <1>2, <1>3 DEF Billing!IsInStep, Billing!Follows
<1>5. Billing!EventsOf(s) = {}
  BY <1>1 DEF Billing!EventsOf
<1>6. QED
  BY <1>1, <1>4, <1>5 DEF Billing!Taken, Billing!Comes, Billing!MissedIt, Billing!JustBought

-----------------------------------------------------------------------------
(* PublishPanel: the "Published" mark follows what the panel has seen. *)
Panel == INSTANCE PublishPanel WITH app <- v1, buildsMade <- v2,
  editsMade <- v3, menu <- v4, state <- v5, poll <- v6, publishAsks <- v7,
  lastSeenApp <- v8, mark <- v9, reader <- v10, crossed <- v11

\* Nothing is published at first, and nobody has seen it.
LEMMA PanelInitially ==
  ASSUME Panel!PanelInit
  PROVE  Panel!PanelInvariant
<1>1. Panel!PanelShapes
  BY DEF Panel!PanelInit, Panel!PanelShapes, Panel!MenuShape, Panel!Apps, Panel!NeverPublished, Panel!NoState, Panel!NoPoll
<1>2. /\ v1 = Panel!NeverPublished /\ v2 = 0 /\ v5 = Panel!NoState /\ v6.stage = "none" /\ v7 = {} /\ v8 = Panel!NothingSeen
      /\ v9.shown = FALSE /\ v9.read = FALSE /\ v9.follows = FALSE /\ v4.confirm = FALSE
  <2>1. v4.confirm = FALSE
    <3>1. PICK who \in {"owner", "member", "visitor"} : v4 = [who |-> who, open |-> FALSE, slug |-> "", confirm |-> FALSE, quota |-> FALSE]
      BY DEF Panel!PanelInit
    <3>2. QED
      BY <3>1
  <2>2. v9.shown = FALSE /\ v9.read = FALSE /\ v9.follows = FALSE
    BY DEF Panel!PanelInit
  <2>3. QED
    BY <2>1, <2>2 DEF Panel!PanelInit, Panel!NoPoll
<1>3. Panel!EffectSawTheState /\ Panel!Uncrossed
  BY <1>2 DEF Panel!EffectSawTheState, Panel!Uncrossed, Panel!GoingUpIsSeen, Panel!IsBuilding, Panel!NeverPublished
<1>4. Panel!OneBuild
  BY <1>2 DEF Panel!OneBuild, Panel!AnswersSayBuilding, Panel!NotYetUp, Panel!NobodySawItUp, Panel!IsUp, Panel!NoState, Panel!Down
<1>5. QED
  BY <1>1, <1>3, <1>4 DEF Panel!PanelInvariant, Panel!PanelShapes

\* The effect takes what it sees for a move when the app went up or down, or a
\* build ended.
LEMMA PanelMoves ==
  ASSUME v8 = Panel!Seen(v5), NEW s, ~Panel!Moved(s)
  PROVE  /\ Panel!IsUp(s) <=> Panel!IsUp(v5)
         /\ Panel!IsBuilding(v5) => Panel!IsBuilding(s)
<1>1. CASE s = v5
  BY <1>1
<1>2. CASE s # v5
  <2>1. v8.seen = TRUE /\ v8.live = (v5.live # 0) /\ v8.building = Panel!IsBuilding(v5)
    BY DEF Panel!Seen
  <2>2. Panel!Seen(s).live = (s.live # 0) /\ Panel!Seen(s).building = Panel!IsBuilding(s)
    BY DEF Panel!Seen
  <2>3. ~Panel!Follows(Panel!Seen(s))
    BY <1>2 DEF Panel!Moved
  <2>4. v8.live = Panel!Seen(s).live
    BY Zenon, <2>1, <2>3 DEF Panel!Follows
  <2>5. ~(v8.building /\ ~Panel!Seen(s).building)
    BY Zenon, <2>1, <2>3 DEF Panel!Follows
  <2>6. QED
    BY <2>1, <2>2, <2>4, <2>5 DEF Panel!IsUp
<1>3. QED
  BY <1>1, <1>2

\* What is shown, the effect has seen.
LEMMA PanelShown ==
  ASSUME Panel!EffectSawTheState, NEW s, Panel!Shows(s), v9'.follows = (v9.follows \/ Panel!Moved(s))
  PROVE  /\ Panel!EffectSawTheState'
         /\ (v9.follows /\ ~Panel!Moved(s)) =>
              ((Panel!IsUp(s) <=> Panel!IsUp(v5)) /\ (Panel!IsBuilding(v5) => Panel!IsBuilding(s)))
<1>1. v9.follows => v8 = Panel!Seen(v5)
  BY DEF Panel!EffectSawTheState, Panel!NothingSeen
<1>2. Panel!EffectSawTheState'
  <2>1. CASE s = v5
    <3>1. v5' = v5 /\ v8' = v8 /\ ~Panel!Moved(s)
      BY <2>1 DEF Panel!Shows, Panel!Moved
    <3>2. QED
      BY <3>1 DEF Panel!EffectSawTheState, Panel!Seen, Panel!IsBuilding
  <2>2. CASE s # v5
    <3>1. v5' = s /\ v8' = Panel!Seen(s)
      BY <2>2 DEF Panel!Shows
    <3>2. v8' = Panel!Seen(v5)' /\ v8'.seen
      BY <3>1 DEF Panel!Seen, Panel!IsBuilding
    <3>3. QED
      BY <3>2 DEF Panel!EffectSawTheState
  <2>3. QED
    BY <2>1, <2>2
<1>3. QED
  BY <1>1, <1>2, PanelMoves

\* What the panel's invariant says of the owner's.
PanelOfOwner ==
  /\ Panel!EffectSawTheState
  /\ ~v11 => Panel!Uncrossed
  /\ v2 <= 1 => Panel!OneBuild

\* A step that changes neither the app nor what is on its way nor the mark.
LEMMA PanelLooks ==
  ASSUME Panel!PanelShapes, PanelOfOwner, UNCHANGED <<v1, v2, v5, v6, v7, v8, v9, v11>>,
         v4'.confirm => v4.confirm \/ Panel!IsUp(v5)
  PROVE  PanelOfOwner'
<1>1. Panel!EffectSawTheState'
  BY DEF PanelOfOwner, Panel!EffectSawTheState, Panel!Seen, Panel!IsBuilding
<1>2. ~v11' => Panel!Uncrossed'
  BY DEF PanelOfOwner, Panel!Uncrossed, Panel!GoingUpIsSeen, Panel!IsBuilding, Panel!IsUp, Panel!PublishUnanswered, Panel!PollSaysDown,
    Panel!Readings, Panel!MarkIsRight, Panel!UnpublishUnanswered
<1>3. ASSUME v2' <= 1 PROVE Panel!OneBuild'
  <2>1. Panel!OneBuild
    BY <1>3 DEF PanelOfOwner
  <2>2. Panel!AnswersSayBuilding' /\ (Panel!NotYetUp' <=> Panel!NotYetUp) /\ (Panel!WasUp' <=> Panel!WasUp)
    BY <2>1 DEF Panel!OneBuild, Panel!AnswersSayBuilding, Panel!IsBuilding, Panel!IsUp, Panel!NotYetUp, Panel!WasUp
  <2>3. Panel!NobodySawItUp => Panel!NobodySawItUp'
    BY DEF Panel!NobodySawItUp, Panel!IsUp
  <2>4. Panel!SawItUp => Panel!SawItUp'
    BY DEF Panel!SawItUp, Panel!IsUp, Panel!IsBuilding, Panel!Fits
  <2>5. QED
    BY <2>1, <2>2, <2>3, <2>4 DEF Panel!OneBuild
<1>4. QED
  BY <1>1, <1>2, <1>3 DEF PanelOfOwner

\* A build ends.
LEMMA PanelBuildEnds ==
  ASSUME Panel!PanelShapes, PanelOfOwner, Panel!AppBuildEnds
  PROVE  Panel!PanelShapes' /\ PanelOfOwner'
<1>1. UNCHANGED <<v2, v4, v5, v6, v7, v8, v9, v11>> /\ Panel!IsBuilding(v1)
  BY DEF Panel!AppBuildEnds
<1>2. \/ v1' = [v1 EXCEPT !.live = v2, !.build = "SUCCEEDED", !.failure = "none", !.hasChanges = FALSE]
      \/ \E failure \in Panel!Failures : v1' = [v1 EXCEPT !.build = "FAILED", !.failure = failure]
  BY DEF Panel!AppBuildEnds
<1>3. v1 \in Panel!Apps /\ v2 \in Nat
  BY DEF Panel!PanelShapes, Panel!MenuShape
<1>4. v1' \in Panel!Apps /\ v1'.named = v1.named
  BY <1>2, <1>3 DEF Panel!Apps
<1>5. \/ v1'.live = v2 /\ v1'.build = "SUCCEEDED"
      \/ v1'.live = v1.live /\ v1'.build = "FAILED"
  BY <1>2, <1>3 DEF Panel!Apps
<1>6. v2 # 0
  <2>1. SUFFICES ASSUME v2 = 0 PROVE FALSE
    OBVIOUS
  <2>2. Panel!OneBuild
    BY <2>1 DEF PanelOfOwner
  <2>3. v1 = Panel!NeverPublished
    BY <2>1, <2>2 DEF Panel!OneBuild, Panel!NotYetUp
  <2>4. QED
    BY <1>1, <2>3 DEF Panel!IsBuilding, Panel!NeverPublished
<1>7. ~Panel!IsBuilding(v1)' /\ ~(Panel!IsBuilding(v1'))
  BY <1>5 DEF Panel!IsBuilding
<1>8. Panel!PanelShapes'
  BY <1>1, <1>4 DEF Panel!PanelShapes, Panel!MenuShape, Panel!Refreshing
<1>9. Panel!EffectSawTheState'
  BY <1>1 DEF PanelOfOwner, Panel!EffectSawTheState, Panel!Seen, Panel!IsBuilding
<1>10. ASSUME ~v11' PROVE Panel!Uncrossed'
  <2>1. Panel!Uncrossed
    BY <1>1, <1>10 DEF PanelOfOwner
  <2>2. Panel!GoingUpIsSeen'
    BY <1>7 DEF Panel!GoingUpIsSeen
  <2>3. ASSUME v9'.follows, ~v9'.read PROVE Panel!MarkIsRight'
    <3>1. Panel!MarkIsRight
      BY <1>1, <2>1, <2>3 DEF Panel!Uncrossed
    <3>2. (Panel!PublishUnanswered' <=> Panel!PublishUnanswered) /\ (Panel!UnpublishUnanswered' <=> Panel!UnpublishUnanswered)
      BY <1>1 DEF Panel!PublishUnanswered, Panel!UnpublishUnanswered, Panel!IsUp
    <3>3. CASE Panel!IsUp(v1)
      <4>1. Panel!IsUp(v1')
        BY <1>3, <1>5, <1>6, <3>3 DEF Panel!IsUp
      <4>2. QED
        BY <1>1, <3>1, <3>2, <3>3, <4>1 DEF Panel!MarkIsRight, Panel!IsUp
    <3>4. CASE ~Panel!IsUp(v1)
      <4>1. Panel!PublishUnanswered \/ ~Panel!IsUp(v5)
        BY <1>1, <2>1, <3>4 DEF Panel!Uncrossed, Panel!GoingUpIsSeen
      <4>2. QED
        BY <1>1, <3>1, <3>2, <3>4, <4>1 DEF Panel!MarkIsRight, Panel!IsUp
    <3>5. QED
      BY <3>3, <3>4
  <2>4. QED
    BY <2>2, <2>3 DEF Panel!Uncrossed
<1>11. ASSUME v2' <= 1 PROVE Panel!OneBuild'
  <2>1. Panel!OneBuild /\ v2 = 1
    BY <1>1, <1>3, <1>6, <1>11 DEF PanelOfOwner
  <2>2. Panel!NotYetUp
    BY <1>1, <2>1 DEF Panel!OneBuild, Panel!WasUp, Panel!IsBuilding, Panel!Down
  <2>3. Panel!NobodySawItUp /\ Panel!AnswersSayBuilding /\ v1.live = 0 /\ v1.named
    BY <2>1, <2>2 DEF Panel!OneBuild, Panel!NotYetUp
  <2>4. Panel!AnswersSayBuilding'
    BY <1>1, <2>3 DEF Panel!AnswersSayBuilding, Panel!IsUp, Panel!IsBuilding
  <2>5. CASE v1'.live = v2 /\ v1'.build = "SUCCEEDED"
    <3>1. ~Panel!NotYetUp' /\ Panel!WasUp' /\ Panel!IsUp(v1')
      BY <1>1, <1>4, <2>1, <2>3, <2>5 DEF Panel!NotYetUp, Panel!WasUp, Panel!IsUp
    <3>2. v1' # Panel!Down
      BY <2>5 DEF Panel!Down
    <3>3. Panel!SawItUp'
      BY <1>1, <2>3, <3>1, <3>2 DEF Panel!SawItUp, Panel!NobodySawItUp, Panel!AnswersSayBuilding, Panel!IsUp, Panel!IsBuilding, Panel!Fits
    <3>4. QED
      BY <1>1, <2>1, <2>4, <3>1, <3>3 DEF Panel!OneBuild
  <2>6. CASE v1'.live = v1.live /\ v1'.build = "FAILED"
    <3>1. Panel!NotYetUp'
      BY <1>1, <1>4, <2>1, <2>3, <2>6 DEF Panel!NotYetUp
    <3>2. Panel!NobodySawItUp'
      BY <1>1, <2>3 DEF Panel!NobodySawItUp, Panel!IsUp
    <3>3. QED
      BY <2>4, <3>1, <3>2 DEF Panel!OneBuild
  <2>7. QED
    BY <1>5, <2>5, <2>6
<1>12. QED
  BY <1>8, <1>9, <1>10, <1>11 DEF PanelOfOwner

\* Somebody edits the project of an app that is up.
LEMMA PanelEdited ==
  ASSUME Panel!PanelShapes, PanelOfOwner, Panel!SomebodyEdits
  PROVE  Panel!PanelShapes' /\ PanelOfOwner'
<1>1. UNCHANGED <<v2, v4, v5, v6, v7, v8, v9, v11>> /\ v1.live # 0 /\ v1' = [v1 EXCEPT !.hasChanges = TRUE]
  BY DEF Panel!SomebodyEdits
<1>2. /\ v1' \in Panel!Apps /\ v1'.live = v1.live /\ v1'.build = v1.build /\ v1'.named = v1.named
      /\ v1'.live # 0
  BY <1>1 DEF Panel!PanelShapes, Panel!MenuShape, Panel!Apps
<1>3. Panel!PanelShapes'
  BY <1>1, <1>2 DEF Panel!PanelShapes, Panel!MenuShape, Panel!Refreshing
<1>4. Panel!EffectSawTheState'
  BY <1>1 DEF PanelOfOwner, Panel!EffectSawTheState, Panel!Seen, Panel!IsBuilding
<1>5. ~v11' => Panel!Uncrossed'
  BY <1>1, <1>2 DEF PanelOfOwner, Panel!Uncrossed, Panel!GoingUpIsSeen, Panel!IsBuilding, Panel!IsUp, Panel!PublishUnanswered,
    Panel!MarkIsRight, Panel!UnpublishUnanswered
<1>6. ASSUME v2' <= 1 PROVE Panel!OneBuild'
  <2>1. Panel!OneBuild /\ v1 # Panel!Down /\ v1' # Panel!Down /\ ~Panel!NotYetUp /\ ~Panel!NotYetUp'
    BY <1>1, <1>2, <1>6 DEF PanelOfOwner, Panel!Down, Panel!NotYetUp, Panel!NeverPublished
  <2>2. Panel!WasUp' /\ Panel!AnswersSayBuilding'
    BY <1>1, <1>2, <2>1 DEF Panel!OneBuild, Panel!WasUp, Panel!AnswersSayBuilding, Panel!IsUp, Panel!IsBuilding
  <2>3. Panel!SawItUp'
    BY <1>1, <1>2, <2>1 DEF Panel!OneBuild, Panel!SawItUp, Panel!IsUp, Panel!IsBuilding, Panel!Fits
  <2>4. QED
    BY <1>1, <2>1, <2>2, <2>3 DEF Panel!OneBuild
<1>7. QED
  BY <1>3, <1>4, <1>5, <1>6 DEF PanelOfOwner

\* The app is read again, and the server answers.
LEMMA PanelReads ==
  ASSUME Panel!PanelShapes, PanelOfOwner, Panel!PollStatus \/ Panel!GetStatus
  PROVE  Panel!PanelShapes' /\ PanelOfOwner'
<1>1. UNCHANGED <<v1, v2, v4, v5, v7, v8, v9, v11>> /\ (v6'.stage = "read" => v6'.data = v1)
  BY DEF Panel!PollStatus, Panel!PollFires, Panel!GetStatus
<1>2. Panel!PanelShapes'
  BY <1>1 DEF Panel!PanelShapes, Panel!MenuShape, Panel!Refreshing
<1>3. Panel!EffectSawTheState'
  BY <1>1 DEF PanelOfOwner, Panel!EffectSawTheState, Panel!Seen, Panel!IsBuilding
<1>4. ~v11' => Panel!Uncrossed'
  BY <1>1 DEF PanelOfOwner, Panel!Uncrossed, Panel!GoingUpIsSeen, Panel!IsBuilding, Panel!IsUp, Panel!PublishUnanswered, Panel!PollSaysDown,
    Panel!Readings, Panel!MarkIsRight, Panel!UnpublishUnanswered
<1>5. ASSUME v2' <= 1 PROVE Panel!OneBuild'
  <2>1. Panel!OneBuild
    BY <1>1, <1>5 DEF PanelOfOwner
  <2>2. Panel!AnswersSayBuilding' /\ (Panel!NotYetUp' <=> Panel!NotYetUp) /\ (Panel!WasUp' <=> Panel!WasUp)
    BY <1>1, <2>1 DEF Panel!OneBuild, Panel!AnswersSayBuilding, Panel!IsBuilding, Panel!IsUp, Panel!NotYetUp, Panel!WasUp
  <2>3. Panel!NotYetUp => ~Panel!IsUp(v1) /\ v1 # Panel!Down
    BY DEF Panel!NotYetUp, Panel!IsUp, Panel!Down, Panel!NeverPublished
  <2>4. Panel!NotYetUp /\ Panel!NobodySawItUp => Panel!NobodySawItUp'
    BY <1>1, <2>3 DEF Panel!NobodySawItUp, Panel!IsUp
  <2>5. Panel!WasUp => Panel!Fits(v1)
    BY DEF Panel!WasUp, Panel!Fits
  <2>6. Panel!WasUp /\ Panel!SawItUp => Panel!SawItUp'
    BY <1>1, <2>5 DEF Panel!SawItUp, Panel!IsUp, Panel!IsBuilding, Panel!Fits
  <2>7. QED
    BY <1>1, <2>1, <2>2, <2>4, <2>6 DEF Panel!OneBuild
<1>6. QED
  BY <1>2, <1>3, <1>4, <1>5 DEF PanelOfOwner

\* The answer is shown.
LEMMA PanelPollArrives ==
  ASSUME Panel!PanelShapes, PanelOfOwner, Panel!PollArrives
  PROVE  Panel!PanelShapes' /\ PanelOfOwner'
<1>1. /\ UNCHANGED <<v1, v2, v4>> /\ v6.stage = "read" /\ v5' = v6.data /\ v6'.stage = "none"
      /\ v7' = v7 \ {Panel!Refreshing} /\ Panel!Shows(v6.data) /\ (v11' <=> v11 \/ Panel!Readings # {})
  BY DEF Panel!PollArrives, Panel!PollEnds, Panel!Shows, Panel!NoPoll
<1>2. v9' = [v9 EXCEPT !.read = @ \/ Panel!Moved(v6.data) \/ Panel!Refreshing \in v7, !.follows = @ \/ Panel!Moved(v6.data)]
  BY DEF Panel!PollArrives
<1>3. v9' = [shown |-> v9.shown, read |-> v9.read \/ Panel!Moved(v6.data) \/ Panel!Refreshing \in v7, follows |-> v9.follows \/ Panel!Moved(v6.data)]
  BY <1>2 DEF Panel!PanelShapes, Panel!MenuShape
<1>4. v9'.shown = v9.shown /\ v9'.follows = (v9.follows \/ Panel!Moved(v6.data))
  BY <1>3
<1>5. v9'.read <=> (v9.read \/ Panel!Moved(v6.data) \/ Panel!Refreshing \in v7)
  BY <1>3
<1>6. Panel!PanelShapes'
  <2>1. v9' = [shown |-> v9'.shown, read |-> v9'.read, follows |-> v9'.follows]
    BY <1>3
  <2>2. QED
    BY <1>1, <1>4, <2>1 DEF Panel!PanelShapes, Panel!MenuShape, Panel!Refreshing
<1>7. /\ Panel!EffectSawTheState'
      /\ (v9.follows /\ ~Panel!Moved(v6.data)) =>
            ((Panel!IsUp(v6.data) <=> Panel!IsUp(v5)) /\ (Panel!IsBuilding(v5) => Panel!IsBuilding(v6.data)))
  BY <1>1, <1>4, PanelShown DEF PanelOfOwner
<1>8. ASSUME ~v11' PROVE Panel!Uncrossed'
  <2>1. Panel!Uncrossed /\ Panel!Readings = {}
    BY <1>1, <1>8 DEF PanelOfOwner
  <2>2. ~Panel!PublishUnanswered
    BY <2>1 DEF Panel!PublishUnanswered, Panel!Readings
  <2>3. Panel!Readings' = {}
    BY <1>1, <2>1 DEF Panel!Readings
  <2>4. Panel!GoingUpIsSeen'
    BY <1>1, <2>1, <2>2, <2>3 DEF Panel!Uncrossed, Panel!GoingUpIsSeen, Panel!PollSaysDown, Panel!IsBuilding, Panel!IsUp
  <2>5. ASSUME v9'.follows, ~v9'.read PROVE Panel!MarkIsRight'
    <3>1. v9.follows /\ ~v9.read /\ ~Panel!Moved(v6.data) /\ Panel!Refreshing \notin v7
      BY <1>4, <1>5, <2>5
    <3>2. v7' = v7
      BY <1>1, <3>1
    <3>3. Panel!UnpublishUnanswered' <=> Panel!UnpublishUnanswered
      BY <3>2 DEF Panel!UnpublishUnanswered
    <3>4. Panel!MarkIsRight
      BY <2>1, <3>1 DEF Panel!Uncrossed
    <3>5. Panel!IsUp(v5') <=> Panel!IsUp(v5)
      BY <1>1, <1>7, <3>1
    <3>6. QED
      BY <1>1, <1>4, <2>2, <3>3, <3>4, <3>5 DEF Panel!MarkIsRight, Panel!IsUp
  <2>6. QED
    BY <2>4, <2>5 DEF Panel!Uncrossed
<1>9. ASSUME v2' <= 1 PROVE Panel!OneBuild'
  <2>1. Panel!OneBuild
    BY <1>1, <1>9 DEF PanelOfOwner
  <2>2. Panel!AnswersSayBuilding' /\ (Panel!NotYetUp' <=> Panel!NotYetUp) /\ (Panel!WasUp' <=> Panel!WasUp)
    BY <1>1, <2>1 DEF Panel!OneBuild, Panel!AnswersSayBuilding, Panel!IsBuilding, Panel!IsUp, Panel!NotYetUp, Panel!WasUp
  <2>3. Panel!NobodySawItUp => Panel!NobodySawItUp'
    BY <1>1, <1>4 DEF Panel!NobodySawItUp, Panel!IsUp
  <2>4. ASSUME Panel!SawItUp, Panel!WasUp PROVE Panel!SawItUp'
    <3>1. \A a \in v7' : a.stage = "done" => Panel!Fits(a.data)'
      BY <1>1, <2>4 DEF Panel!SawItUp, Panel!Fits, Panel!IsUp, Panel!IsBuilding
    <3>2. (v1 = Panel!Down \/ Panel!IsUp(v6.data) \/ v4.confirm \/ \E a \in v7' : a.kind # "publish") => Panel!Fits(v6.data)
      BY <1>1, <2>4 DEF Panel!SawItUp, Panel!Fits
    <3>3. v6.data = Panel!Down => v1 = Panel!Down
      BY <1>1, <2>4 DEF Panel!SawItUp
    <3>4. ASSUME v9'.follows, ~v9'.read
          PROVE  \/ v9.shown = Panel!IsUp(v1)
                 \/ Panel!IsUp(v1) /\ ~Panel!IsUp(v6.data)
                 \/ v1 = Panel!Down /\ (Panel!IsUp(v6.data) \/ Panel!IsBuilding(v6.data))
      <4>1. v9.follows /\ ~v9.read /\ ~Panel!Moved(v6.data)
        BY <1>4, <1>5, <3>4
      <4>2. QED
        BY <1>7, <2>4, <4>1 DEF Panel!SawItUp
    <3>5. QED
      BY <1>1, <1>4, <3>1, <3>2, <3>3, <3>4 DEF Panel!SawItUp, Panel!Fits, Panel!IsUp, Panel!IsBuilding
  <2>5. QED
    BY <1>1, <2>1, <2>2, <2>3, <2>4 DEF Panel!OneBuild
<1>10. QED
  BY <1>6, <1>7, <1>8, <1>9 DEF PanelOfOwner

\* A reading fails.
LEMMA PanelPollFails ==
  ASSUME Panel!PanelShapes, PanelOfOwner, Panel!PollFails
  PROVE  Panel!PanelShapes' /\ PanelOfOwner'
<1>1. UNCHANGED <<v1, v2, v4, v5, v8, v11>> /\ v6'.stage = "none" /\ v7' = v7 \ {Panel!Refreshing}
  BY DEF Panel!PollFails, Panel!PollEnds, Panel!NoPoll
<1>2. v9' = [v9 EXCEPT !.read = @ \/ Panel!Refreshing \in v7]
  BY DEF Panel!PollFails
<1>3. v9' = [shown |-> v9.shown, read |-> v9.read \/ Panel!Refreshing \in v7, follows |-> v9.follows]
  BY <1>2 DEF Panel!PanelShapes, Panel!MenuShape
<1>4. v9'.shown = v9.shown /\ v9'.follows = v9.follows /\ (v9'.read <=> (v9.read \/ Panel!Refreshing \in v7))
  BY <1>3
<1>5. Panel!PanelShapes'
  <2>1. v9' = [shown |-> v9'.shown, read |-> v9'.read, follows |-> v9'.follows]
    BY <1>3
  <2>2. QED
    BY <1>1, <1>4, <2>1 DEF Panel!PanelShapes, Panel!MenuShape, Panel!Refreshing
<1>6. Panel!EffectSawTheState'
  BY <1>1, <1>4 DEF PanelOfOwner, Panel!EffectSawTheState, Panel!Seen, Panel!IsBuilding
<1>7. ASSUME ~v11' PROVE Panel!Uncrossed'
  <2>1. Panel!Uncrossed
    BY <1>1, <1>7 DEF PanelOfOwner
  <2>2. Panel!PublishUnanswered' <=> Panel!PublishUnanswered
    BY <1>1 DEF Panel!PublishUnanswered, Panel!Refreshing, Panel!IsUp
  <2>3. Panel!GoingUpIsSeen'
    BY <1>1, <2>1, <2>2 DEF Panel!Uncrossed, Panel!GoingUpIsSeen, Panel!PollSaysDown, Panel!IsBuilding, Panel!IsUp, Panel!Readings
  <2>4. ASSUME v9'.follows, ~v9'.read PROVE Panel!MarkIsRight'
    <3>1. v9.follows /\ ~v9.read /\ v7' = v7
      BY <1>1, <1>4, <2>4
    <3>2. QED
      BY <1>1, <1>4, <2>1, <2>2, <3>1 DEF Panel!Uncrossed, Panel!MarkIsRight, Panel!UnpublishUnanswered, Panel!IsUp
  <2>5. QED
    BY <2>3, <2>4 DEF Panel!Uncrossed
<1>8. ASSUME v2' <= 1 PROVE Panel!OneBuild'
  <2>1. Panel!OneBuild
    BY <1>1, <1>8 DEF PanelOfOwner
  <2>2. Panel!AnswersSayBuilding' /\ (Panel!NotYetUp' <=> Panel!NotYetUp) /\ (Panel!WasUp' <=> Panel!WasUp)
    BY <1>1, <2>1 DEF Panel!OneBuild, Panel!AnswersSayBuilding, Panel!IsBuilding, Panel!IsUp, Panel!NotYetUp, Panel!WasUp
  <2>3. Panel!NobodySawItUp => Panel!NobodySawItUp'
    BY <1>1, <1>4 DEF Panel!NobodySawItUp, Panel!IsUp
  <2>4. Panel!SawItUp => Panel!SawItUp'
    BY <1>1, <1>4 DEF Panel!SawItUp, Panel!IsUp, Panel!IsBuilding, Panel!Fits
  <2>5. QED
    BY <1>1, <2>1, <2>2, <2>3, <2>4 DEF Panel!OneBuild
<1>9. QED
  BY <1>5, <1>6, <1>7, <1>8 DEF PanelOfOwner

\* The list of projects is read.
LEMMA PanelListRead ==
  ASSUME Panel!PanelShapes, PanelOfOwner, Panel!ListReadAgain
  PROVE  Panel!PanelShapes' /\ PanelOfOwner'
<1>1. UNCHANGED <<v1, v2, v4, v5, v6, v7, v8, v11>> /\ v9' = [v9 EXCEPT !.shown = v1.live # 0, !.read = FALSE]
  BY DEF Panel!ListReadAgain
<1>2. v9' = [shown |-> v1.live # 0, read |-> FALSE, follows |-> v9.follows]
  BY <1>1 DEF Panel!PanelShapes, Panel!MenuShape
<1>3. v9'.shown = Panel!IsUp(v1) /\ v9'.follows = v9.follows
  BY <1>2 DEF Panel!IsUp
<1>4. Panel!PanelShapes'
  <2>1. v9' = [shown |-> v9'.shown, read |-> v9'.read, follows |-> v9'.follows]
    BY <1>2
  <2>2. QED
    BY <1>1, <2>1 DEF Panel!PanelShapes, Panel!MenuShape, Panel!Refreshing
<1>5. Panel!EffectSawTheState'
  BY <1>1, <1>3 DEF PanelOfOwner, Panel!EffectSawTheState, Panel!Seen, Panel!IsBuilding
<1>6. ~v11' => Panel!Uncrossed'
  BY <1>1, <1>3 DEF PanelOfOwner, Panel!Uncrossed, Panel!GoingUpIsSeen, Panel!IsBuilding, Panel!IsUp, Panel!PublishUnanswered, Panel!PollSaysDown,
    Panel!Readings, Panel!MarkIsRight
<1>7. ASSUME v2' <= 1 PROVE Panel!OneBuild'
  <2>1. Panel!OneBuild
    BY <1>1, <1>7 DEF PanelOfOwner
  <2>2. Panel!AnswersSayBuilding' /\ (Panel!NotYetUp' <=> Panel!NotYetUp) /\ (Panel!WasUp' <=> Panel!WasUp)
    BY <1>1, <2>1 DEF Panel!OneBuild, Panel!AnswersSayBuilding, Panel!IsBuilding, Panel!IsUp, Panel!NotYetUp, Panel!WasUp
  <2>3. Panel!NotYetUp => ~Panel!IsUp(v1)
    BY DEF Panel!NotYetUp, Panel!IsUp, Panel!NeverPublished
  <2>4. Panel!NotYetUp /\ Panel!NobodySawItUp => Panel!NobodySawItUp'
    BY <1>1, <1>3, <2>3 DEF Panel!NobodySawItUp, Panel!IsUp
  <2>5. Panel!SawItUp => Panel!SawItUp'
    BY <1>1, <1>3 DEF Panel!SawItUp, Panel!IsUp, Panel!IsBuilding, Panel!Fits
  <2>6. QED
    BY <1>1, <2>1, <2>2, <2>4, <2>5 DEF Panel!OneBuild
<1>8. QED
  BY <1>4, <1>5, <1>6, <1>7 DEF PanelOfOwner

\* The owner asks for the app to be published, taken down or shared.
LEMMA PanelPressed ==
  ASSUME Panel!PanelShapes, PanelOfOwner, Panel!Run \/ Panel!Unpublish \/ Panel!SetShared
  PROVE  Panel!PanelShapes' /\ PanelOfOwner'
<1>1. UNCHANGED <<v1, v2, v5, v6, v8, v9, v11>>
  BY DEF Panel!Run, Panel!Unpublish, Panel!SetShared, Panel!Press
<1>2. PICK q : v7' = v7 \cup {q} /\ q.stage = "sent" /\ (q.kind = "publish" \/ Panel!IsUp(v5) \/ v4.confirm) /\ q.to \in BOOLEAN
  <2>1. PICK kind \in {"publish", "unpublish", "share"} : Panel!Press(kind) /\ (kind = "publish" \/ Panel!IsUp(v5) \/ v4.confirm)
    BY DEF Panel!Run, Panel!Unpublish, Panel!SetShared, Panel!OwnersFoot, Panel!IsUp
  <2>2. DEFINE sent == [kind |-> kind, stage |-> "sent", to |-> ~v5.shared]
  <2>3. v7' = v7 \cup {sent} /\ sent.stage = "sent" /\ sent.kind = kind /\ sent.to \in BOOLEAN
    BY <2>1 DEF Panel!Press
  <2>4. QED
    BY <2>1, <2>3
<1>3. v4' = v4 \/ v4' = [v4 EXCEPT !.confirm = FALSE]
  BY DEF Panel!Run, Panel!Unpublish, Panel!SetShared
<1>4. v4' = [who |-> v4.who, open |-> v4.open, slug |-> v4.slug, confirm |-> v4'.confirm, quota |-> v4.quota] /\ (v4'.confirm => v4.confirm)
  BY <1>3 DEF Panel!PanelShapes, Panel!MenuShape
<1>5. Panel!PanelShapes'
  <2>1. v4' = [who |-> v4'.who, open |-> v4'.open, slug |-> v4'.slug, confirm |-> v4'.confirm, quota |-> v4'.quota]
    BY <1>4
  <2>2. QED
    BY <1>1, <1>2, <2>1 DEF Panel!PanelShapes, Panel!MenuShape, Panel!Refreshing
<1>6. Panel!EffectSawTheState'
  BY <1>1 DEF PanelOfOwner, Panel!EffectSawTheState, Panel!Seen, Panel!IsBuilding
<1>7. ~v11' => Panel!Uncrossed'
  <2>1. Panel!Readings' = Panel!Readings
    BY <1>2 DEF Panel!Readings
  <2>2. (Panel!PublishUnanswered' <=> Panel!PublishUnanswered) /\ (Panel!UnpublishUnanswered' <=> Panel!UnpublishUnanswered)
    BY <1>2 DEF Panel!PublishUnanswered, Panel!UnpublishUnanswered, Panel!IsUp
  <2>3. QED
    BY <1>1, <2>1, <2>2 DEF PanelOfOwner, Panel!Uncrossed, Panel!GoingUpIsSeen, Panel!IsBuilding, Panel!IsUp, Panel!PollSaysDown, Panel!MarkIsRight
<1>8. ASSUME v2' <= 1 PROVE Panel!OneBuild'
  <2>1. Panel!OneBuild
    BY <1>1, <1>8 DEF PanelOfOwner
  <2>2. Panel!AnswersSayBuilding' /\ (Panel!NotYetUp' <=> Panel!NotYetUp) /\ (Panel!WasUp' <=> Panel!WasUp)
    BY <1>1, <1>2, <2>1 DEF Panel!OneBuild, Panel!AnswersSayBuilding, Panel!IsBuilding, Panel!IsUp, Panel!NotYetUp, Panel!WasUp
  <2>3. Panel!NobodySawItUp => Panel!NobodySawItUp'
    BY <1>1, <1>2, <1>4 DEF Panel!NobodySawItUp, Panel!IsUp
  <2>4. Panel!SawItUp => Panel!SawItUp'
    BY <1>1, <1>2, <1>4 DEF Panel!SawItUp, Panel!IsUp, Panel!IsBuilding, Panel!Fits
  <2>5. QED
    BY <1>1, <2>1, <2>2, <2>3, <2>4 DEF Panel!OneBuild
<1>9. QED
  BY <1>5, <1>6, <1>7, <1>8 DEF PanelOfOwner

\* The server publishes.
LEMMA PanelPublishes ==
  ASSUME Panel!PanelShapes, PanelOfOwner, UNCHANGED <<v4, v5, v6, v8, v9, v11>>,
         NEW a \in v7, a.stage = "sent", Panel!ServerPublishes(a)
  PROVE  Panel!PanelShapes' /\ PanelOfOwner'
<1>1. PICK r : /\ v7' = (v7 \ {a}) \cup {r} /\ r.kind = "publish"
               /\ \/ v1' = v1 /\ v2' = v2 /\ r.stage = "done" /\ r.data = v1 /\ Panel!IsBuilding(v1)
                  \/ v1' = v1 /\ v2' = v2 /\ r.stage = "quota"
                  \/ v1' = Panel!StartedBuild /\ ~Panel!IsBuilding(v1) /\ v2' = v2 + 1 /\ r.stage = "done" /\ r.data = v1'
  <2>1. CASE Panel!IsBuilding(v1) \/ v2 = MaxVersions
    <3>1. DEFINE answer == IF Panel!IsBuilding(v1) THEN [kind |-> "publish", stage |-> "done", data |-> v1]
                           ELSE [kind |-> "publish", stage |-> "quota"]
    <3>2. v1' = v1 /\ v2' = v2 /\ v7' = (v7 \ {a}) \cup {answer}
      BY <2>1 DEF Panel!ServerPublishes
    <3>3. answer.kind = "publish" /\ (answer.stage = "quota" \/ (answer.stage = "done" /\ answer.data = v1 /\ Panel!IsBuilding(v1)))
      BY SMT
    <3>4. QED
      BY <3>2, <3>3
  <2>2. CASE ~(Panel!IsBuilding(v1) \/ v2 = MaxVersions)
    <3>1. PICK now : now = v1'
      OBVIOUS
    <3>2. DEFINE answer == [kind |-> "publish", stage |-> "done", data |-> now]
    <3>3. v1' = Panel!StartedBuild /\ v2' = v2 + 1 /\ v7' = (v7 \ {a}) \cup {answer}
      BY <2>2, <3>1 DEF Panel!ServerPublishes
    <3>4. answer.kind = "publish" /\ answer.stage = "done" /\ answer.data = v1'
      BY <3>1
    <3>5. QED
      BY <2>2, <3>3, <3>4
  <2>3. QED
    BY <2>1, <2>2
<1>2. v1 \in Panel!Apps /\ v2 \in Nat
  BY DEF Panel!PanelShapes, Panel!MenuShape
<1>3. \/ v1' = v1
      \/ v1' \in Panel!Apps /\ v1'.live = v1.live /\ v1'.build = "BUILDING" /\ v1'.named = TRUE
  BY <1>1, <1>2 DEF Panel!StartedBuild, Panel!Apps
<1>4. /\ v1' \in Panel!Apps /\ v2' \in Nat /\ v1'.live = v1.live
      /\ r.stage = "done" => (r.data = v1' /\ Panel!IsBuilding(v1'))
      /\ r.stage \in {"done", "quota"}
  <2>1. v1' \in Panel!Apps /\ v1'.live = v1.live /\ v2' \in Nat /\ r.stage \in {"done", "quota"}
    BY <1>1, <1>2, <1>3
  <2>2. v1' = Panel!StartedBuild => Panel!IsBuilding(v1')
    BY <1>2 DEF Panel!IsBuilding, Panel!StartedBuild, Panel!Apps
  <2>3. QED
    BY <1>1, <2>1, <2>2
<1>5. Panel!PanelShapes'
  BY <1>1, <1>4 DEF Panel!PanelShapes, Panel!MenuShape, Panel!Refreshing
<1>6. Panel!EffectSawTheState'
  BY DEF PanelOfOwner, Panel!EffectSawTheState, Panel!Seen, Panel!IsBuilding
<1>7. ASSUME ~v11' PROVE Panel!Uncrossed'
  <2>1. Panel!Uncrossed
    BY <1>7 DEF PanelOfOwner
  <2>2. Panel!PublishUnanswered => Panel!PublishUnanswered'
    BY <1>1 DEF Panel!PublishUnanswered, Panel!IsUp
  <2>3. Panel!UnpublishUnanswered => Panel!UnpublishUnanswered'
    BY <1>1 DEF Panel!UnpublishUnanswered
  <2>4. Panel!MarkIsRight => Panel!MarkIsRight'
    BY <1>4, <2>2, <2>3 DEF Panel!MarkIsRight, Panel!IsUp
  <2>5. Panel!GoingUpIsSeen'
    <3>1. CASE r.stage = "done"
      <4>1. ~Panel!IsUp(v1') => Panel!PublishUnanswered'
        BY <1>1, <1>4, <3>1 DEF Panel!PublishUnanswered, Panel!IsUp
      <4>2. QED
        BY <4>1 DEF Panel!GoingUpIsSeen, Panel!IsUp
    <3>2. CASE r.stage = "quota"
      <4>1. v1' = v1
        BY <1>1, <3>2
      <4>2. Panel!Readings' = Panel!Readings
        BY <1>1, <3>2 DEF Panel!Readings
      <4>3. QED
        BY <2>1, <2>2, <4>1, <4>2 DEF Panel!Uncrossed, Panel!GoingUpIsSeen, Panel!IsBuilding, Panel!IsUp, Panel!PollSaysDown
    <3>3. QED
      BY <1>4, <3>1, <3>2
  <2>6. QED
    BY <2>1, <2>4, <2>5 DEF Panel!Uncrossed
<1>8. ASSUME v2' <= 1 PROVE Panel!OneBuild'
  <2>1. Panel!OneBuild
    BY <1>1, <1>2, <1>8 DEF PanelOfOwner
  <2>2. CASE v1' = v1 /\ v2' = v2
    <3>1. Panel!WasUp => ~Panel!IsBuilding(v1)
      BY DEF Panel!WasUp, Panel!Down, Panel!IsBuilding
    <3>2. Panel!IsBuilding(v1) => ~Panel!IsUp(v1)
      BY <2>1, <3>1 DEF Panel!OneBuild, Panel!NotYetUp, Panel!IsUp, Panel!NeverPublished
    <3>3. Panel!AnswersSayBuilding'
      BY <1>1, <1>4, <2>1, <2>2, <3>2 DEF Panel!OneBuild, Panel!AnswersSayBuilding, Panel!IsUp, Panel!IsBuilding
    <3>4. (Panel!NotYetUp' <=> Panel!NotYetUp) /\ (Panel!WasUp' <=> Panel!WasUp)
      BY <2>2 DEF Panel!NotYetUp, Panel!WasUp, Panel!IsUp
    <3>5. Panel!NobodySawItUp => Panel!NobodySawItUp'
      BY <1>1 DEF Panel!NobodySawItUp, Panel!IsUp
    <3>6. ASSUME Panel!WasUp, Panel!SawItUp PROVE Panel!SawItUp'
      <4>1. r.stage = "quota"
        BY <1>1, <1>4, <2>2, <3>1, <3>6
      <4>2. QED
        BY <1>1, <2>2, <3>6, <4>1 DEF Panel!SawItUp, Panel!IsUp, Panel!IsBuilding, Panel!Fits
    <3>7. QED
      BY <2>1, <2>2, <3>3, <3>4, <3>5, <3>6 DEF Panel!OneBuild
  <2>3. CASE v1' = Panel!StartedBuild /\ v2' = v2 + 1
    <3>1. v2 = 0 /\ v2' = 1
      BY <1>2, <1>8, <2>3
    <3>2. Panel!NotYetUp /\ Panel!NobodySawItUp
      BY <2>1, <3>1 DEF Panel!OneBuild
    <3>3. v1.live = 0
      BY <3>1, <3>2 DEF Panel!NotYetUp, Panel!NeverPublished
    <3>4. v1'.live = 0 /\ v1'.named /\ v1'.build = "BUILDING"
      BY <1>2, <2>3, <3>3 DEF Panel!StartedBuild, Panel!Apps
    <3>5. Panel!NotYetUp'
      BY <3>1, <3>4 DEF Panel!NotYetUp
    <3>6. Panel!NobodySawItUp'
      BY <1>1, <3>2 DEF Panel!NobodySawItUp, Panel!IsUp
    <3>7. Panel!AnswersSayBuilding'
      BY <1>1, <1>4, <2>1, <3>4 DEF Panel!OneBuild, Panel!AnswersSayBuilding, Panel!IsUp, Panel!IsBuilding
    <3>8. QED
      BY <3>5, <3>6, <3>7 DEF Panel!OneBuild
  <2>4. QED
    BY <1>1, <2>2, <2>3
<1>9. QED
  BY <1>5, <1>6, <1>7, <1>8 DEF PanelOfOwner

\* The server takes the app down.
LEMMA PanelUnpublishes ==
  ASSUME Panel!PanelShapes, PanelOfOwner, UNCHANGED <<v4, v5, v6, v8, v9, v11>>,
         NEW a \in v7, a.stage = "sent", Panel!ServerUnpublishes(a)
  PROVE  Panel!PanelShapes' /\ PanelOfOwner'
<1>1. PICK r : /\ v7' = (v7 \ {a}) \cup {r} /\ r.kind = "unpublish" /\ r.stage = "done" /\ r.data = v1'
  <2>1. PICK now : now = v1'
    OBVIOUS
  <2>2. DEFINE answer == [kind |-> "unpublish", stage |-> "done", data |-> now]
  <2>3. v7' = (v7 \ {a}) \cup {answer}
    BY <2>1 DEF Panel!ServerUnpublishes
  <2>4. answer.kind = "unpublish" /\ answer.stage = "done" /\ answer.data = v1'
    BY <2>1
  <2>5. QED
    BY <2>3, <2>4
<1>2. v1' = Panel!TakenDown /\ v2' = v2 /\ a.kind = "unpublish" /\ v1 \in Panel!Apps
  BY DEF Panel!ServerUnpublishes, Panel!PanelShapes, Panel!MenuShape
<1>3. v1' = [live |-> 0, build |-> "none", failure |-> "none", named |-> v1.named, shared |-> FALSE, hasChanges |-> FALSE] /\ v1.named \in BOOLEAN
  BY <1>2 DEF Panel!TakenDown, Panel!Apps
<1>4. v1' \in Panel!Apps /\ v1'.live = 0 /\ v1'.build = "none"
  BY <1>3 DEF Panel!Apps
<1>5. Panel!PanelShapes'
  BY <1>1, <1>2, <1>4 DEF Panel!PanelShapes, Panel!MenuShape, Panel!Refreshing
<1>6. Panel!EffectSawTheState'
  BY DEF PanelOfOwner, Panel!EffectSawTheState, Panel!Seen, Panel!IsBuilding
<1>7. Panel!Uncrossed'
  <2>1. Panel!UnpublishUnanswered'
    BY <1>1 DEF Panel!UnpublishUnanswered
  <2>2. Panel!GoingUpIsSeen'
    BY <1>4 DEF Panel!GoingUpIsSeen, Panel!IsBuilding
  <2>3. QED
    BY <2>1, <2>2 DEF Panel!Uncrossed, Panel!MarkIsRight
<1>8. ASSUME v2' <= 1 PROVE Panel!OneBuild'
  <2>1. Panel!OneBuild
    BY <1>2, <1>8 DEF PanelOfOwner
  <2>2. Panel!WasUp /\ v2 = 1 /\ Panel!SawItUp
    BY <1>2, <2>1 DEF Panel!OneBuild, Panel!NobodySawItUp
  <2>3. v1' = Panel!Down
    <3>1. v1.named = TRUE
      BY <1>3, <2>2 DEF Panel!WasUp, Panel!Down
    <3>2. QED
      BY <1>3, <3>1 DEF Panel!Down
  <2>4. ~Panel!NotYetUp' /\ Panel!WasUp'
    BY <1>2, <1>4, <2>2, <2>3 DEF Panel!NotYetUp, Panel!WasUp, Panel!Down
  <2>5. Panel!AnswersSayBuilding'
    BY <1>1, <2>1 DEF Panel!OneBuild, Panel!AnswersSayBuilding, Panel!IsUp, Panel!IsBuilding
  <2>6. \A s : Panel!Fits(s) => Panel!IsUp(s) \/ Panel!IsBuilding(s) \/ s = Panel!Down
    BY DEF Panel!Fits
  <2>7. \A b \in v7' : b.stage = "done" => Panel!IsUp(b.data) \/ Panel!IsBuilding(b.data) \/ b.data = Panel!Down
    BY <1>1, <2>2, <2>3, <2>6 DEF Panel!SawItUp
  <2>8. Panel!Fits(v5) /\ (v6.stage = "read" => Panel!Fits(v6.data))
    BY <1>2, <2>2 DEF Panel!SawItUp
  <2>9. ASSUME v9.follows, ~v9.read
        PROVE  v9.shown = Panel!IsUp(v1') \/ Panel!IsUp(v5) \/ Panel!IsBuilding(v5)
    <3>1. CASE v5 = Panel!Down /\ v1 = Panel!Down
      <4>1. ~Panel!IsUp(v5) /\ ~Panel!IsBuilding(v5) /\ ~Panel!IsUp(v1)
        BY <3>1 DEF Panel!IsUp, Panel!Down, Panel!IsBuilding
      <4>2. v9.shown = Panel!IsUp(v1)
        BY <2>2, <2>9, <4>1 DEF Panel!SawItUp
      <4>3. QED
        BY <2>3, <3>1, <4>2
    <3>2. QED
      BY <2>8, <3>1 DEF Panel!Fits
  <2>10. Panel!SawItUp'
    BY <2>3, <2>6, <2>7, <2>8, <2>9 DEF Panel!SawItUp, Panel!IsUp, Panel!IsBuilding, Panel!Fits
  <2>11. QED
    BY <1>2, <2>2, <2>4, <2>5, <2>10 DEF Panel!OneBuild
<1>9. QED
  BY <1>5, <1>6, <1>7, <1>8 DEF PanelOfOwner

\* The server shares the app, or no longer does.
LEMMA PanelShares ==
  ASSUME Panel!PanelShapes, PanelOfOwner, UNCHANGED <<v4, v5, v6, v8, v9, v11>>,
         NEW a \in v7, a.stage = "sent", Panel!ServerShares(a), a.to \in BOOLEAN
  PROVE  Panel!PanelShapes' /\ PanelOfOwner'
<1>1. v1 \in Panel!Apps /\ v2' = v2 /\ a.kind = "share"
  BY DEF Panel!ServerShares, Panel!PanelShapes, Panel!MenuShape
<1>2. PICK r : /\ v7' = (v7 \ {a}) \cup {r} /\ r.kind = "share"
               /\ \/ v1' = [v1 EXCEPT !.shared = a.to] /\ v1.live # 0 /\ r.stage = "done" /\ r.data = v1'
                  \/ v1' = v1 /\ v1.live = 0 /\ r.stage = "refused"
  <2>1. PICK now : now = v1'
    OBVIOUS
  <2>2. CASE v1.live # 0
    <3>1. DEFINE answer == [kind |-> "share", stage |-> "done", data |-> now]
    <3>2. v7' = (v7 \ {a}) \cup {answer} /\ v1' = [v1 EXCEPT !.shared = a.to]
      BY <2>1, <2>2 DEF Panel!ServerShares
    <3>3. answer.kind = "share" /\ answer.stage = "done" /\ answer.data = v1'
      BY <2>1
    <3>4. QED
      BY <2>2, <3>2, <3>3
  <2>3. CASE v1.live = 0
    <3>1. DEFINE answer == [kind |-> "share", stage |-> "refused"]
    <3>2. v7' = (v7 \ {a}) \cup {answer} /\ v1' = v1
      BY <2>3 DEF Panel!ServerShares
    <3>3. answer.kind = "share" /\ answer.stage = "refused"
      OBVIOUS
    <3>4. QED
      BY <2>3, <3>2, <3>3
  <2>4. QED
    BY <2>2, <2>3
<1>3. v1' \in Panel!Apps /\ v1'.live = v1.live /\ v1'.build = v1.build /\ v1'.named = v1.named
  BY <1>1, <1>2 DEF Panel!Apps
<1>4. r.stage = "done" => (r.data \in Panel!Apps /\ Panel!IsUp(r.data) /\ Panel!IsUp(v1) /\ Panel!IsUp(v1'))
  BY <1>2, <1>3 DEF Panel!IsUp
<1>5. Panel!PanelShapes'
  BY <1>1, <1>2, <1>3, <1>4 DEF Panel!PanelShapes, Panel!MenuShape, Panel!Refreshing
<1>6. Panel!EffectSawTheState'
  BY DEF PanelOfOwner, Panel!EffectSawTheState, Panel!Seen, Panel!IsBuilding
<1>7. ASSUME ~v11' PROVE Panel!Uncrossed'
  <2>1. Panel!Uncrossed
    BY <1>7 DEF PanelOfOwner
  <2>2. (Panel!PublishUnanswered => Panel!PublishUnanswered') /\ (Panel!UnpublishUnanswered => Panel!UnpublishUnanswered')
    BY <1>1, <1>2 DEF Panel!PublishUnanswered, Panel!UnpublishUnanswered, Panel!IsUp
  <2>3. Panel!MarkIsRight => Panel!MarkIsRight'
    BY <1>3, <2>2 DEF Panel!MarkIsRight, Panel!IsUp
  <2>4. Panel!GoingUpIsSeen'
    <3>1. CASE r.stage = "done"
      BY <1>4, <3>1 DEF Panel!GoingUpIsSeen, Panel!IsUp
    <3>2. CASE r.stage = "refused"
      <4>1. Panel!Readings' = Panel!Readings /\ v1' = v1
        BY <1>2, <3>2 DEF Panel!Readings
      <4>2. QED
        BY <2>1, <2>2, <4>1 DEF Panel!Uncrossed, Panel!GoingUpIsSeen, Panel!IsBuilding, Panel!IsUp, Panel!PollSaysDown
    <3>3. QED
      BY <1>2, <3>1, <3>2
  <2>5. QED
    BY <2>1, <2>3, <2>4 DEF Panel!Uncrossed
<1>8. ASSUME v2' <= 1 PROVE Panel!OneBuild'
  <2>1. Panel!OneBuild
    BY <1>1, <1>8 DEF PanelOfOwner
  <2>2. Panel!WasUp /\ v2 = 1 /\ Panel!SawItUp /\ ~Panel!NotYetUp
    BY <1>1, <2>1 DEF Panel!OneBuild, Panel!NobodySawItUp
  <2>3. Panel!AnswersSayBuilding'
    BY <1>2, <2>1 DEF Panel!OneBuild, Panel!AnswersSayBuilding, Panel!IsUp, Panel!IsBuilding
  <2>4. CASE r.stage = "done"
    <3>1. v1 # Panel!Down /\ v1' # Panel!Down
      BY <1>4, <2>4 DEF Panel!Down, Panel!IsUp
    <3>2. Panel!WasUp' /\ ~Panel!NotYetUp'
      BY <1>1, <1>3, <1>4, <2>2, <2>4, <3>1 DEF Panel!WasUp, Panel!NotYetUp, Panel!IsUp
    <3>3. Panel!SawItUp'
      BY <1>1, <1>2, <1>4, <2>2, <2>4, <3>1 DEF Panel!SawItUp, Panel!IsUp, Panel!IsBuilding, Panel!Fits
    <3>4. QED
      BY <1>1, <2>2, <2>3, <3>2, <3>3 DEF Panel!OneBuild
  <2>5. CASE r.stage = "refused"
    <3>1. v1' = v1
      BY <1>2, <2>5
    <3>2. Panel!WasUp' /\ ~Panel!NotYetUp'
      BY <1>1, <2>2, <3>1 DEF Panel!WasUp, Panel!NotYetUp, Panel!IsUp
    <3>3. Panel!SawItUp'
      BY <1>1, <1>2, <2>2, <2>5, <3>1 DEF Panel!SawItUp, Panel!IsUp, Panel!IsBuilding, Panel!Fits
    <3>4. QED
      BY <1>1, <2>2, <2>3, <3>2, <3>3 DEF Panel!OneBuild
  <2>6. QED
    BY <1>2, <2>4, <2>5
<1>9. QED
  BY <1>5, <1>6, <1>7, <1>8 DEF PanelOfOwner

\* An answer comes that shows nothing: a failure, one lost, or the app taken down.
LEMMA PanelAnswerHidden ==
  ASSUME Panel!PanelShapes, PanelOfOwner, UNCHANGED <<v1, v2, v5, v8, v9>>, v4'.confirm = v4.confirm,
         NEW a \in v7, a.stage \notin {"sent", "refreshing"},
         \/ v7' = v7 \ {a} /\ (~v11' => (a.stage # "done" \/ a.kind = "share"))
         \/ v7' = (v7 \ {a}) \cup {Panel!Refreshing} /\ a.kind = "unpublish",
         v6'.stage = "read" => v6' = v6,
         v11 => v11'
  PROVE  PanelOfOwner'
<1>1. Panel!EffectSawTheState'
  BY DEF PanelOfOwner, Panel!EffectSawTheState, Panel!Seen, Panel!IsBuilding
<1>2. Panel!Refreshing.kind = "unpublish" /\ Panel!Refreshing.stage = "refreshing"
  BY DEF Panel!Refreshing
<1>3. ASSUME ~v11' PROVE Panel!Uncrossed'
  <2>1. Panel!Uncrossed
    BY <1>3 DEF PanelOfOwner
  <2>2. Panel!Readings' \subseteq Panel!Readings
    BY <1>2 DEF Panel!Readings
  <2>3. Panel!PublishUnanswered => Panel!PublishUnanswered'
    BY <1>2, <1>3 DEF Panel!PublishUnanswered, Panel!IsUp
  <2>4. Panel!UnpublishUnanswered => Panel!UnpublishUnanswered'
    BY <1>2, <1>3 DEF Panel!UnpublishUnanswered
  <2>5. Panel!GoingUpIsSeen'
    BY <2>1, <2>2, <2>3 DEF Panel!Uncrossed, Panel!GoingUpIsSeen, Panel!IsBuilding, Panel!IsUp, Panel!PollSaysDown
  <2>6. Panel!MarkIsRight => Panel!MarkIsRight'
    BY <2>3, <2>4 DEF Panel!MarkIsRight, Panel!IsUp
  <2>7. QED
    BY <2>1, <2>5, <2>6 DEF Panel!Uncrossed
<1>4. ASSUME v2' <= 1 PROVE Panel!OneBuild'
  <2>1. Panel!OneBuild
    BY <1>4 DEF PanelOfOwner
  <2>2. Panel!AnswersSayBuilding' /\ (Panel!NotYetUp' <=> Panel!NotYetUp) /\ (Panel!WasUp' <=> Panel!WasUp)
    BY <1>2, <2>1 DEF Panel!OneBuild, Panel!AnswersSayBuilding, Panel!IsBuilding, Panel!IsUp, Panel!NotYetUp, Panel!WasUp
  <2>3. Panel!NobodySawItUp => Panel!NobodySawItUp'
    BY DEF Panel!NobodySawItUp, Panel!IsUp
  <2>4. (\E b \in v7' : b.kind # "publish") => (\E b \in v7 : b.kind # "publish")
    BY <1>2
  <2>5. \A b \in v7' : b.stage = "done" => b \in v7
    BY <1>2
  <2>6. Panel!SawItUp => Panel!SawItUp'
    BY <2>4, <2>5 DEF Panel!SawItUp, Panel!IsUp, Panel!IsBuilding, Panel!Fits
  <2>7. QED
    BY <2>1, <2>2, <2>3, <2>6 DEF Panel!OneBuild
<1>5. QED
  BY <1>1, <1>3, <1>4 DEF PanelOfOwner

\* An answer comes and is shown.
LEMMA PanelAnswerShown ==
  ASSUME Panel!PanelShapes, PanelOfOwner, UNCHANGED <<v1, v2, v6>>, v4'.confirm = v4.confirm,
         NEW a \in v7, a.stage = "done", a.kind # "unpublish", v7' = v7 \ {a},
         Panel!Shows(a.data), v9'.shown = v9.shown, v9'.follows = (v9.follows \/ Panel!Moved(a.data)),
         v9'.read <=> (v9.read \/ Panel!Moved(a.data)),
         ~v11' => (~v11 /\ v6.stage # "read" /\ Panel!Readings = {a})
  PROVE  PanelOfOwner'
<1>1. /\ Panel!EffectSawTheState'
      /\ (v9.follows /\ ~Panel!Moved(a.data)) =>
            ((Panel!IsUp(a.data) <=> Panel!IsUp(v5)) /\ (Panel!IsBuilding(v5) => Panel!IsBuilding(a.data)))
  BY PanelShown DEF PanelOfOwner
<1>2. v5' = a.data
  BY DEF Panel!Shows
<1>3. ASSUME ~v11' PROVE Panel!Uncrossed'
  <2>1. Panel!Uncrossed /\ v6.stage # "read" /\ Panel!Readings = {a}
    BY <1>3 DEF PanelOfOwner
  <2>2. Panel!Readings' = {}
    BY <2>1 DEF Panel!Readings
  <2>3. Panel!PublishUnanswered => ~Panel!IsUp(a.data)
    BY <2>1 DEF Panel!PublishUnanswered, Panel!Readings
  <2>4. Panel!GoingUpIsSeen'
    BY <1>2, <2>1, <2>2, <2>3 DEF Panel!Uncrossed, Panel!GoingUpIsSeen, Panel!IsBuilding, Panel!IsUp, Panel!PollSaysDown
  <2>5. ASSUME v9'.follows, ~v9'.read PROVE Panel!MarkIsRight'
    <3>1. v9.follows /\ ~v9.read /\ ~Panel!Moved(a.data)
      BY <2>5
    <3>2. Panel!MarkIsRight
      BY <2>1, <3>1 DEF Panel!Uncrossed
    <3>3. Panel!UnpublishUnanswered => Panel!UnpublishUnanswered'
      BY DEF Panel!UnpublishUnanswered
    <3>4. (Panel!PublishUnanswered \/ ~Panel!IsUp(v5)) => ~Panel!IsUp(a.data)
      BY <1>1, <2>3, <3>1
    <3>5. QED
      BY <1>2, <3>2, <3>3, <3>4 DEF Panel!MarkIsRight, Panel!IsUp
  <2>6. QED
    BY <2>4, <2>5 DEF Panel!Uncrossed
<1>4. ASSUME v2' <= 1 PROVE Panel!OneBuild'
  <2>1. Panel!OneBuild
    BY <1>4 DEF PanelOfOwner
  <2>2. Panel!AnswersSayBuilding' /\ (Panel!NotYetUp' <=> Panel!NotYetUp) /\ (Panel!WasUp' <=> Panel!WasUp)
    BY <2>1 DEF Panel!OneBuild, Panel!AnswersSayBuilding, Panel!IsBuilding, Panel!IsUp, Panel!NotYetUp, Panel!WasUp
  <2>3. a.kind = "publish" => (Panel!IsBuilding(a.data) /\ ~Panel!IsUp(a.data))
    BY <2>1 DEF Panel!OneBuild, Panel!AnswersSayBuilding
  <2>4. Panel!NobodySawItUp => Panel!NobodySawItUp'
    <3>1. a.data = Panel!Down => ~Panel!IsBuilding(a.data)
      BY DEF Panel!Down, Panel!IsBuilding
    <3>2. QED
      BY <1>2, <2>3, <3>1 DEF Panel!NobodySawItUp, Panel!IsUp
  <2>5. ASSUME Panel!SawItUp PROVE Panel!SawItUp'
    <3>1. Panel!Fits(a.data) /\ \A b \in v7' : b.stage = "done" => Panel!Fits(b.data)
      BY <2>5 DEF Panel!SawItUp
    <3>2. (v1 = Panel!Down \/ Panel!IsUp(a.data) \/ v4.confirm \/ \E b \in v7' : b.kind # "publish")
             => (v6.stage = "read" => Panel!Fits(v6.data))
      BY <2>3, <2>5 DEF Panel!SawItUp
    <3>3. a.data = Panel!Down => v1 = Panel!Down
      BY <3>1 DEF Panel!Fits, Panel!Down, Panel!IsUp, Panel!IsBuilding
    <3>4. ASSUME v9'.follows, ~v9'.read
          PROVE  \/ v9.shown = Panel!IsUp(v1)
                 \/ Panel!IsUp(v1) /\ ~Panel!IsUp(a.data)
                 \/ v1 = Panel!Down /\ (Panel!IsUp(a.data) \/ Panel!IsBuilding(a.data))
      <4>1. v9.follows /\ ~v9.read /\ ~Panel!Moved(a.data)
        BY <3>4
      <4>2. QED
        BY <1>1, <2>5, <4>1 DEF Panel!SawItUp
    <3>5. QED
      BY <1>2, <2>5, <3>1, <3>2, <3>3, <3>4 DEF Panel!SawItUp, Panel!Fits, Panel!IsUp, Panel!IsBuilding
  <2>6. QED
    BY <2>1, <2>2, <2>4, <2>5 DEF Panel!OneBuild
<1>5. QED
  BY <1>1, <1>3, <1>4 DEF PanelOfOwner

\* An answer comes to what was asked.
LEMMA PanelAnswered ==
  ASSUME Panel!PanelShapes, PanelOfOwner, Panel!AskedReturns
  PROVE  Panel!PanelShapes' /\ PanelOfOwner'
<1>1. PICK a \in v7, lost \in BOOLEAN :
        /\ a.stage \notin {"sent", "refreshing"}
        /\ v7' = (v7 \ {a}) \cup (IF a.kind = "unpublish" /\ ~lost THEN {Panel!Refreshing} ELSE {})
        /\ v4' = [v4 EXCEPT !.quota = @ \/ (a.stage = "quota" /\ ~lost)]
        /\ IF a.stage = "done" /\ ~lost
           THEN IF a.kind = "unpublish"
                THEN v6' = [stage |-> "sent"] /\ UNCHANGED <<v5, v8, v9>>
                ELSE /\ Panel!Shows(a.data) /\ UNCHANGED v6
                     /\ v9' = [v9 EXCEPT !.read = @ \/ Panel!Moved(a.data), !.follows = @ \/ Panel!Moved(a.data)]
           ELSE UNCHANGED <<v5, v8, v9, v6>>
        /\ v11' = (v11 \/ Panel!Crosses(a, lost))
        /\ UNCHANGED <<v1, v2>>
  BY DEF Panel!AskedReturns
<1>2. /\ v4'.confirm = v4.confirm
      /\ v4' = [who |-> v4'.who, open |-> v4'.open, slug |-> v4'.slug, confirm |-> v4'.confirm, quota |-> v4'.quota]
  <2>1. v4' = [who |-> v4.who, open |-> v4.open, slug |-> v4.slug, confirm |-> v4.confirm, quota |-> v4.quota \/ (a.stage = "quota" /\ ~lost)]
    BY <1>1 DEF Panel!PanelShapes, Panel!MenuShape
  <2>2. QED
    BY <2>1
<1>3. /\ \A b \in v7' : b \in v7 \/ b = Panel!Refreshing
      /\ Panel!Refreshing.stage = "refreshing"
  BY <1>1 DEF Panel!Refreshing
<1>4. CASE a.stage = "done" /\ ~lost /\ a.kind # "unpublish"
  <2>1. v7' = v7 \ {a} /\ v6' = v6 /\ Panel!Shows(a.data) /\ v5' = a.data
    BY <1>1, <1>4 DEF Panel!Shows
  <2>2. v9' = [shown |-> v9.shown, read |-> v9.read \/ Panel!Moved(a.data), follows |-> v9.follows \/ Panel!Moved(a.data)]
    <3>1. v9' = [v9 EXCEPT !.read = @ \/ Panel!Moved(a.data), !.follows = @ \/ Panel!Moved(a.data)]
      BY <1>1, <1>4
    <3>2. QED
      BY <3>1 DEF Panel!PanelShapes, Panel!MenuShape
  <2>3. /\ v9'.shown = v9.shown /\ v9'.follows = (v9.follows \/ Panel!Moved(a.data)) /\ (v9'.read <=> (v9.read \/ Panel!Moved(a.data)))
        /\ v9' = [shown |-> v9'.shown, read |-> v9'.read, follows |-> v9'.follows]
    BY <2>2
  <2>4. Panel!PanelShapes'
    BY <1>1, <1>2, <1>4, <2>1, <2>3 DEF Panel!PanelShapes, Panel!MenuShape, Panel!Refreshing
  <2>5. ~v11' => (~v11 /\ v6.stage # "read" /\ Panel!Readings = {a})
    BY <1>1, <1>4 DEF Panel!Crosses
  <2>6. PanelOfOwner'
    BY <1>1, <1>2, <1>4, <2>1, <2>3, <2>5, PanelAnswerShown
  <2>7. QED
    BY <2>4, <2>6
<1>5. CASE ~(a.stage = "done" /\ ~lost /\ a.kind # "unpublish")
  <2>1. UNCHANGED <<v5, v8, v9>> /\ (v6' = v6 \/ v6' = [stage |-> "sent"])
    BY <1>1, <1>5
  <2>2. v6'.stage = "read" => v6' = v6
    <3>1. [stage |-> "sent"].stage = "sent"
      OBVIOUS
    <3>2. QED
      BY <2>1, <3>1
  <2>3. Panel!PanelShapes'
    BY <1>1, <1>2, <1>3, <2>1, <2>2 DEF Panel!PanelShapes, Panel!MenuShape, Panel!Refreshing
  <2>4. \/ v7' = v7 \ {a} /\ (~v11' => (a.stage # "done" \/ a.kind = "share"))
        \/ v7' = (v7 \ {a}) \cup {Panel!Refreshing} /\ a.kind = "unpublish"
    <3>1. CASE a.kind = "unpublish" /\ ~lost
      BY <1>1, <3>1
    <3>2. CASE ~(a.kind = "unpublish" /\ ~lost)
      <4>1. v7' = v7 \ {a}
        BY <1>1, <3>2
      <4>2. a.stage = "done" => lost
        BY <1>5, <3>2
      <4>3. ~v11' => ~Panel!Crosses(a, lost)
        BY <1>1
      <4>4. QED
        BY <4>1, <4>2, <4>3 DEF Panel!Crosses
    <3>3. QED
      BY <3>1, <3>2
  <2>5. v11 => v11'
    BY <1>1
  <2>6. PanelOfOwner'
    BY <1>1, <1>2, <2>1, <2>2, <2>4, <2>5, PanelAnswerHidden
  <2>7. QED
    BY <2>3, <2>6
<1>6. QED
  BY <1>4, <1>5

\* What is looked at, typed and asked about in the panel and on the public page.
LEMMA PanelIsLookedAt ==
  ASSUME Panel!PanelShapes, PanelOfOwner,
         \/ Panel!TogglePanel \/ Panel!TypeSlug \/ Panel!AskToUnpublish \/ Panel!KeepOnline \/ Panel!CloseQuota
         \/ Panel!OpenSharedApp \/ Panel!PickFile \/ Panel!ForkShared
  PROVE  Panel!PanelShapes' /\ PanelOfOwner'
<1>1. UNCHANGED <<v1, v2, v5, v6, v7, v8, v9, v11>>
  BY DEF Panel!TogglePanel, Panel!TypeSlug, Panel!AskToUnpublish, Panel!KeepOnline, Panel!CloseQuota, Panel!OpenSharedApp,
    Panel!PickFile, Panel!ForkShared
<1>2. /\ v4' = [who |-> v4'.who, open |-> v4'.open, slug |-> v4'.slug, confirm |-> v4'.confirm, quota |-> v4'.quota]
      /\ v4'.confirm => v4.confirm \/ Panel!IsUp(v5)
  <2>1. \/ v4' = v4
        \/ v4' = [v4 EXCEPT !.open = ~@]
        \/ \E slug : v4' = [v4 EXCEPT !.slug = slug]
        \/ v4' = [v4 EXCEPT !.confirm = TRUE] /\ Panel!IsUp(v5)
        \/ v4' = [v4 EXCEPT !.confirm = FALSE]
        \/ v4' = [v4 EXCEPT !.quota = FALSE]
    BY DEF Panel!TogglePanel, Panel!TypeSlug, Panel!AskToUnpublish, Panel!OwnersFoot, Panel!IsUp, Panel!KeepOnline, Panel!CloseQuota,
      Panel!OpenSharedApp, Panel!PickFile, Panel!ForkShared
  <2>2. v4 = [who |-> v4.who, open |-> v4.open, slug |-> v4.slug, confirm |-> v4.confirm, quota |-> v4.quota]
    BY DEF Panel!PanelShapes, Panel!MenuShape
  <2>3. CASE v4' = v4
    BY <2>2, <2>3
  <2>4. CASE v4' = [v4 EXCEPT !.open = ~@]
    <3>1. v4' = [who |-> v4.who, open |-> ~v4.open, slug |-> v4.slug, confirm |-> v4.confirm, quota |-> v4.quota]
      BY <2>2, <2>4
    <3>2. QED
      BY <3>1
  <2>5. CASE \E slug : v4' = [v4 EXCEPT !.slug = slug]
    <3>1. PICK slug : v4' = [v4 EXCEPT !.slug = slug]
      BY <2>5
    <3>2. v4' = [who |-> v4.who, open |-> v4.open, slug |-> slug, confirm |-> v4.confirm, quota |-> v4.quota]
      BY <2>2, <3>1
    <3>3. QED
      BY <3>2
  <2>6. CASE v4' = [v4 EXCEPT !.confirm = TRUE] /\ Panel!IsUp(v5)
    <3>1. v4' = [who |-> v4.who, open |-> v4.open, slug |-> v4.slug, confirm |-> TRUE, quota |-> v4.quota]
      BY <2>2, <2>6
    <3>2. QED
      BY <2>6, <3>1
  <2>7. CASE v4' = [v4 EXCEPT !.confirm = FALSE]
    <3>1. v4' = [who |-> v4.who, open |-> v4.open, slug |-> v4.slug, confirm |-> FALSE, quota |-> v4.quota]
      BY <2>2, <2>7
    <3>2. QED
      BY <3>1
  <2>8. CASE v4' = [v4 EXCEPT !.quota = FALSE]
    <3>1. v4' = [who |-> v4.who, open |-> v4.open, slug |-> v4.slug, confirm |-> v4.confirm, quota |-> FALSE]
      BY <2>2, <2>8
    <3>2. QED
      BY <3>1
  <2>9. QED
    BY <2>1, <2>3, <2>4, <2>5, <2>6, <2>7, <2>8
<1>3. Panel!PanelShapes'
  BY <1>1, <1>2 DEF Panel!PanelShapes, Panel!MenuShape, Panel!Refreshing
<1>4. QED
  BY <1>1, <1>2, <1>3, PanelLooks

\* Nobody becomes somebody else.
LEMMA PanelKeepsItsReader ==
  ASSUME Panel!MenuShape, [Panel!PanelNext]_Panel!panelVars
  PROVE  Panel!MenuShape' /\ v4'.who = v4.who
<1>1. \/ v4' = v4
      \/ v4' = [v4 EXCEPT !.open = ~@]
      \/ \E slug : v4' = [v4 EXCEPT !.slug = slug]
      \/ v4' = [v4 EXCEPT !.confirm = TRUE]
      \/ v4' = [v4 EXCEPT !.confirm = FALSE]
      \/ \E quota : v4' = [v4 EXCEPT !.quota = quota]
  BY DEF Panel!PanelNext, Panel!AppBuildEnds, Panel!OwnerElsewhere, Panel!SomebodyEdits, Panel!PollStatus, Panel!PollFires, Panel!GetStatus,
    Panel!PollArrives, Panel!PollFails, Panel!ListReadAgain, Panel!TogglePanel, Panel!TypeSlug, Panel!Run, Panel!AskToUnpublish,
    Panel!Unpublish, Panel!KeepOnline, Panel!SetShared, Panel!CloseQuota, Panel!ServerDoesAsked, Panel!AskedReturns,
    Panel!OpenSharedApp, Panel!PickFile, Panel!ForkShared, Panel!panelVars
<1>2. v4 = [who |-> v4.who, open |-> v4.open, slug |-> v4.slug, confirm |-> v4.confirm, quota |-> v4.quota]
  BY DEF Panel!MenuShape
<1>3. QED
  BY <1>1, <1>2 DEF Panel!MenuShape

\* A step of the panel keeps its invariant.
LEMMA PanelStep ==
  ASSUME Panel!PanelInvariant, [Panel!PanelNext]_Panel!panelVars
  PROVE  Panel!PanelInvariant'
<1>1. Panel!MenuShape' /\ v4'.who = v4.who
  BY PanelKeepsItsReader DEF Panel!PanelInvariant
<1>2. ASSUME v4.who = "owner" PROVE Panel!PanelShapes' /\ PanelOfOwner'
  <2>1. Panel!PanelShapes /\ PanelOfOwner /\ ~Panel!OwnerElsewhere
    BY <1>2 DEF Panel!PanelInvariant, PanelOfOwner, Panel!OwnerElsewhere
  <2>2. CASE UNCHANGED Panel!panelVars
    <3>1. Panel!PanelShapes'
      BY <1>1, <2>1, <2>2 DEF Panel!PanelShapes, Panel!Refreshing, Panel!panelVars
    <3>2. QED
      BY <2>1, <2>2, <3>1, PanelLooks DEF Panel!panelVars
  <2>3. CASE Panel!ServerDoesAsked
    <3>1. PICK a \in v7 : /\ a.stage = "sent"
                          /\ Panel!ServerPublishes(a) \/ Panel!ServerUnpublishes(a) \/ Panel!ServerShares(a)
                          /\ UNCHANGED <<v4, v5, v6, v8, v9, v11>>
      BY <2>3 DEF Panel!ServerDoesAsked
    <3>2. a.to \in BOOLEAN
      BY <2>1, <3>1 DEF Panel!PanelShapes
    <3>3. QED
      BY <2>1, <3>1, <3>2, PanelPublishes, PanelUnpublishes, PanelShares
  <2>4. CASE Panel!PanelNext /\ ~Panel!ServerDoesAsked
    BY <2>1, <2>4, PanelBuildEnds, PanelEdited, PanelReads, PanelPollArrives, PanelPollFails, PanelListRead, PanelPressed, PanelAnswered,
      PanelIsLookedAt DEF Panel!PanelNext
  <2>5. QED
    BY <2>2, <2>3, <2>4
<1>3. QED
  BY <1>1, <1>2 DEF Panel!PanelInvariant, PanelOfOwner

\* The mark follows.
LEMMA PanelHolds ==
  ASSUME Panel!PanelInvariant
  PROVE  Panel!MarkFollows
<1>1. SUFFICES ASSUME v4.who = "owner", v9.follows, ~v9.read, v5 = v1, v7 = {}, v11 => v2 <= 1
               PROVE  v9.shown = (v1.live # 0)
  BY DEF Panel!MarkFollows
<1>2. CASE ~v11
  BY <1>1, <1>2 DEF Panel!PanelInvariant, Panel!Uncrossed, Panel!MarkIsRight, Panel!UnpublishUnanswered, Panel!PublishUnanswered, Panel!IsUp
<1>3. CASE v11
  <2>1. Panel!OneBuild
    BY <1>1, <1>3 DEF Panel!PanelInvariant
  <2>2. CASE Panel!NotYetUp
    <3>1. v1.live = 0
      BY <2>2 DEF Panel!NotYetUp, Panel!NeverPublished
    <3>2. v9.shown = FALSE
      BY <1>1, <2>1, <2>2 DEF Panel!PanelInvariant, Panel!PanelShapes, Panel!OneBuild, Panel!NobodySawItUp
    <3>3. QED
      BY <3>1, <3>2
  <2>3. CASE ~Panel!NotYetUp
    <3>1. v1 = Panel!Down => (~Panel!IsUp(v5) /\ ~Panel!IsBuilding(v5))
      BY <1>1 DEF Panel!Down, Panel!IsUp, Panel!IsBuilding
    <3>2. QED
      BY <1>1, <2>1, <2>3, <3>1 DEF Panel!OneBuild, Panel!SawItUp, Panel!IsUp
  <2>4. QED
    BY <2>2, <2>3
<1>4. QED
  BY <1>2, <1>3

-----------------------------------------------------------------------------
(* ProjectList: nothing shown is something that did not happen. *)
List == INSTANCE ProjectList WITH kept <- v1, list <- v2, listRead <- v3,
  listChanges <- v4, changesMade <- v5, renaming <- v6, over <- v7,
  leaving <- v8, nav <- v9, copied <- v10

\* The list is empty and on its way at first.
LEMMA ListInitially ==
  ASSUME List!ListInit
  PROVE  List!ListInvariant
<1>1. DOMAIN v1 = Owned \cup Edited /\ v2 = <<>> /\ v3.stage = "sent" /\ v4 = {} /\ v10 = {}
  BY DEF List!ListInit
<1>2. DOMAIN v2 = {}
  BY <1>1
<1>3. QED
  BY <1>1, <1>2 DEF List!ListInvariant, List!ListShapes, List!NamesAreNew, List!OnlyWhatWasMadeIsListed, List!ForkedYet, List!GivenNames,
    List!Changing

\* A change that goes on is the same but for how far it is.
LEMMA ListChangeMoves ==
  ASSUME List!ListShapes, NEW c \in v4, NEW stage
  PROVE  \E d : /\ d = [c EXCEPT !.stage = stage]
                /\ d.kind = c.kind /\ d.to = c.to /\ d.stage = stage
                /\ c.kind \in {"pin", "star", "rename"} =>
                     d.previous = c.previous /\ d = [kind |-> d.kind, of |-> d.of, to |-> d.to, previous |-> d.previous, stage |-> d.stage]
                /\ c.kind \in {"delete", "fork"} => d = [kind |-> d.kind, of |-> d.of, to |-> d.to, stage |-> d.stage]
<1>. PICK d : d = [c EXCEPT !.stage = stage]
  OBVIOUS
<1>1. CASE c.kind \in {"pin", "star", "rename"} /\ c = [kind |-> c.kind, of |-> c.of, to |-> c.to, previous |-> c.previous, stage |-> c.stage]
  <2>1. d = [kind |-> c.kind, of |-> c.of, to |-> c.to, previous |-> c.previous, stage |-> stage]
    BY <1>1
  <2>2. d.kind = c.kind /\ d.of = c.of /\ d.to = c.to /\ d.stage = stage /\ d.previous = c.previous
    BY <2>1
  <2>3. QED
    BY <1>1, <2>1, <2>2
<1>2. CASE c.kind \in {"delete", "fork"} /\ c = [kind |-> c.kind, of |-> c.of, to |-> c.to, stage |-> c.stage]
  <2>1. d = [kind |-> c.kind, of |-> c.of, to |-> c.to, stage |-> stage]
    BY <1>2
  <2>2. d.kind = c.kind /\ d.of = c.of /\ d.to = c.to /\ d.stage = stage
    BY <2>1
  <2>3. QED
    BY <1>2, <2>1, <2>2
<1>3. QED
  BY <1>1, <1>2 DEF List!ListShapes

\* When one change is over, or goes on, the others are as they were.
LEMMA ListChangeOver ==
  ASSUME List!ListShapes, List!NamesAreNew, v10' = v10, NEW c \in v4, v4' = v4 \ {c}
  PROVE  /\ List!ListShapes' /\ List!NamesAreNew'
         /\ \A p : List!ForkedYet(p) => List!ForkedYet(p)'
         /\ \A e \in v4' : e \in v4
         /\ c.kind \in {"delete", "fork"} => List!Changing' = List!Changing
<1>1. List!ListShapes'
  BY DEF List!ListShapes
<1>2. List!NamesAreNew'
  BY DEF List!NamesAreNew
<1>3. \A p : List!ForkedYet(p) => List!ForkedYet(p)'
  BY DEF List!ForkedYet, List!GivenNames
<1>4. c.kind \in {"delete", "fork"} => (List!Changing' <=> List!Changing)
  BY DEF List!Changing
<1>5. QED
  BY <1>1, <1>2, <1>3, <1>4 DEF List!Changing

LEMMA ListChangeGoesOn ==
  ASSUME List!ListShapes, List!NamesAreNew, v10' = v10, NEW c \in v4, NEW stage, stage # "sent",
         v4' = (v4 \ {c}) \cup {[c EXCEPT !.stage = stage]}
  PROVE  /\ List!ListShapes' /\ List!NamesAreNew'
         /\ \A p : List!ForkedYet(p) => List!ForkedYet(p)'
         /\ \A e \in v4' : e.kind \in {"pin", "star", "rename"} => \E g \in v4 : g.kind = e.kind /\ g.previous = e.previous
         /\ List!Changing' = List!Changing
         /\ c.kind = "fork" /\ c.stage = "sent" /\ c.to \in List!GivenNames => List!ForkedYet(c.to)'
<1>1. PICK d : /\ d = [c EXCEPT !.stage = stage]
               /\ d.kind = c.kind /\ d.to = c.to /\ d.stage = stage
               /\ c.kind \in {"pin", "star", "rename"} =>
                    d.previous = c.previous /\ d = [kind |-> d.kind, of |-> d.of, to |-> d.to, previous |-> d.previous, stage |-> d.stage]
               /\ c.kind \in {"delete", "fork"} => d = [kind |-> d.kind, of |-> d.of, to |-> d.to, stage |-> d.stage]
  BY ListChangeMoves
<1>2. v4' = (v4 \ {c}) \cup {d}
  BY <1>1
<1>3. List!ListShapes'
  <2>1. c.kind \in {"pin", "star", "rename"} \/ c.kind \in {"delete", "fork"}
    BY DEF List!ListShapes
  <2>2. \A e \in v4 \ {c} :
    \/ e.kind \in {"pin", "star", "rename"} /\ e = [kind |-> e.kind, of |-> e.of, to |-> e.to, previous |-> e.previous, stage |-> e.stage]
    \/ e.kind \in {"delete", "fork"} /\ e = [kind |-> e.kind, of |-> e.of, to |-> e.to, stage |-> e.stage]
    BY DEF List!ListShapes
  <2>3. \/ d.kind \in {"pin", "star", "rename"} /\ d = [kind |-> d.kind, of |-> d.of, to |-> d.to, previous |-> d.previous, stage |-> d.stage]
        \/ d.kind \in {"delete", "fork"} /\ d = [kind |-> d.kind, of |-> d.of, to |-> d.to, stage |-> d.stage]
    BY Zenon, <1>1, <2>1
  <2>4. QED
    BY Zenon, <1>2, <2>2, <2>3 DEF List!ListShapes
<1>4. d.kind = c.kind /\ d.to = c.to /\ d.stage # "sent"
  BY <1>1
<1>5. List!NamesAreNew'
  BY <1>2, <1>4 DEF List!NamesAreNew
<1>6. \A p : List!ForkedYet(p) => List!ForkedYet(p)'
  BY <1>2, <1>4 DEF List!ForkedYet, List!GivenNames
<1>7. List!Changing' <=> List!Changing
  BY <1>2, <1>4 DEF List!Changing
<1>8. c.kind = "fork" /\ c.stage = "sent" /\ c.to \in List!GivenNames => List!ForkedYet(c.to)'
  BY <1>2, <1>4 DEF List!ForkedYet, List!GivenNames, List!NamesAreNew
<1>9. \A e \in v4' : e.kind \in {"pin", "star", "rename"} => \E g \in v4 : g.kind = e.kind /\ g.previous = e.previous
  <2>1. c.kind \in {"pin", "star", "rename"} => d.previous = c.previous
    BY <1>1
  <2>2. QED
    BY <1>2, <1>4, <2>1
<1>10. QED
  BY <1>3, <1>5, <1>6, <1>7, <1>8, <1>9 DEF List!Changing

\* Every step keeps the invariant.
LEMMA ListStep ==
  ASSUME List!ListInvariant, Copies \cap (Owned \cup Edited) = {}, [List!ListNext]_(List!listVars)
  PROVE  List!ListInvariant'
<1>0. /\ List!ListShapes /\ List!NamesAreNew
      /\ \A p \in DOMAIN v1 \cup DOMAIN v2 : List!ForkedYet(p)
      /\ v3.stage = "read" => \A p \in DOMAIN v3.data : List!ForkedYet(p)
      /\ \A c \in v4 : c.kind \in {"pin", "star", "rename"} => \A p \in DOMAIN c.previous : List!ForkedYet(p)
      /\ v3.stage = "none" /\ ~List!Changing => List!AgreesNow(v2)
      /\ v3.stage = "read" /\ ~List!Changing => List!AgreesNow(v3.data)
  BY DEF List!ListInvariant, List!OnlyWhatWasMadeIsListed
<1> DEFINE Same == UNCHANGED <<v4, v10>>
<1>s. ASSUME UNCHANGED <<v4, v10>>
      PROVE  /\ List!ListShapes' /\ List!NamesAreNew' /\ (List!Changing' <=> List!Changing)
             /\ \A p : List!ForkedYet(p)' <=> List!ForkedYet(p)
             /\ \A c \in v4' : c.kind \in {"pin", "star", "rename"} => \A p \in DOMAIN c.previous : List!ForkedYet(p)'
  <2>1. \A p : List!ForkedYet(p)' <=> List!ForkedYet(p)
    BY <1>s DEF List!ForkedYet, List!GivenNames
  <2>2. List!Changing' <=> List!Changing
    BY <1>s DEF List!Changing
  <2>3. List!ListShapes' /\ List!NamesAreNew'
    BY <1>0, <1>s DEF List!ListShapes, List!NamesAreNew
  <2>4. QED
    BY <1>0, <1>s, <2>1, <2>2, <2>3
<1>1. CASE UNCHANGED <<v1, v2, v3, v4, v10>>
  <2>1. List!AgreesNow(v2)' <=> List!AgreesNow(v2)
    BY <1>1 DEF List!AgreesNow
  <2>2. List!AgreesNow(v3.data)' <=> List!AgreesNow(v3.data)
    BY <1>1 DEF List!AgreesNow
  <2>3. QED
    BY <1>0, <1>1, <1>s, <2>1, <2>2 DEF List!ListInvariant, List!OnlyWhatWasMadeIsListed
\* The list is asked for again, or its reading failed.
<1>2. CASE v3'.stage \in {"sent", "failed"} /\ UNCHANGED <<v1, v2, v4, v10>>
  BY <1>0, <1>2, <1>s DEF List!ListInvariant, List!OnlyWhatWasMadeIsListed
<1>3. CASE List!ServerListsProjects
  <2>1. v3'.stage = "read" /\ v3'.data = v1 /\ UNCHANGED <<v1, v2, v4, v10>>
    BY <1>3 DEF List!ServerListsProjects
  <2>2. List!AgreesNow(v3.data)'
    BY <2>1 DEF List!AgreesNow
  <2>3. QED
    BY <1>0, <1>s, <2>1, <2>2 DEF List!ListInvariant, List!OnlyWhatWasMadeIsListed
<1>4. CASE List!ListArrives
  <2>1. v3.stage = "read" /\ v3'.stage = "none" /\ v2' = v3.data /\ UNCHANGED <<v1, v4, v10>>
    BY <1>4 DEF List!ListArrives, List!NoListRead
  <2>2. List!AgreesNow(v2)' <=> List!AgreesNow(v3.data)
    BY <2>1 DEF List!AgreesNow
  <2>3. QED
    BY <1>0, <1>s, <2>1, <2>2 DEF List!ListInvariant, List!OnlyWhatWasMadeIsListed
\* A change shown at once.
<1>5. ASSUME NEW kind \in {"pin", "star", "rename"}, NEW p, NEW changed, List!Optimistic(kind, p, changed), UNCHANGED <<v1, v3, v10>>
      PROVE  List!ListInvariant'
  <2>. PICK c : c = [kind |-> kind, of |-> p, to |-> changed, previous |-> v2, stage |-> "sent"]
    OBVIOUS
  <2>1. v4' = v4 \cup {c} /\ DOMAIN v2' = DOMAIN v2 /\ c.kind = kind /\ c.previous = v2 /\ c.kind # "fork"
    BY <1>5 DEF List!Optimistic
  <2>2. List!Changing'
    BY <2>1 DEF List!Changing
  <2>3. \A q : List!ForkedYet(q)' <=> List!ForkedYet(q)
    BY <1>5, <2>1 DEF List!ForkedYet, List!GivenNames
  <2>4. List!NamesAreNew'
    BY <1>0, <1>5, <2>1 DEF List!NamesAreNew
  <2>5. List!ListShapes'
    BY <1>0, <2>1 DEF List!ListShapes
  <2>6. List!OnlyWhatWasMadeIsListed'
    BY <1>0, <1>5, <2>1, <2>3 DEF List!OnlyWhatWasMadeIsListed
  <2>7. QED
    BY <2>2, <2>4, <2>5, <2>6 DEF List!ListInvariant
<1>6. CASE List!TogglePin \/ List!ToggleStar
  BY <1>5, <1>6 DEF List!TogglePin, List!ToggleStar
<1>7. CASE List!FinishRename
  <2>1. UNCHANGED <<v1, v3, v10>>
    BY <1>7 DEF List!FinishRename
  <2>2. UNCHANGED <<v2, v4>> \/ \E p, changed : List!Optimistic("rename", p, changed)
    BY <1>7 DEF List!FinishRename
  <2>3. QED
    BY <1>1, <1>5, <2>1, <2>2
<1>8. CASE List!ServerChanges
  <2>1. PICK c \in v4, accepted \in BOOLEAN :
          /\ c.stage = "sent" /\ v1' = (IF accepted THEN List!Applied(c) ELSE v1)
          /\ v4' = (v4 \ {c}) \cup {[c EXCEPT !.stage = IF accepted THEN "made" ELSE "refused"]}
          /\ UNCHANGED <<v2, v3, v10>>
    BY <1>8 DEF List!ServerChanges
  <2>. PICK stage : stage = IF accepted THEN "made" ELSE "refused"
    OBVIOUS
  <2>2. stage # "sent" /\ v4' = (v4 \ {c}) \cup {[c EXCEPT !.stage = stage]}
    BY <2>1
  <2>3. /\ List!ListShapes' /\ List!NamesAreNew'
        /\ \A p : List!ForkedYet(p) => List!ForkedYet(p)'
        /\ \A e \in v4' : e.kind \in {"pin", "star", "rename"} => \E g \in v4 : g.kind = e.kind /\ g.previous = e.previous
        /\ List!Changing' = List!Changing
        /\ c.kind = "fork" /\ c.stage = "sent" /\ c.to \in List!GivenNames => List!ForkedYet(c.to)'
    BY <1>0, <2>1, <2>2, ListChangeGoesOn
  <2>4. \A e \in v4' : e.kind \in {"pin", "star", "rename"} => \A p \in DOMAIN e.previous : List!ForkedYet(p)'
    BY <1>0, <2>3
  <2>5. c.kind \in {"pin", "star", "rename", "delete", "fork"}
    BY <1>0 DEF List!ListShapes
  <2>6. CASE ~accepted
    <3>1. v1' = v1
      BY <2>1, <2>6
    <3>2. List!OnlyWhatWasMadeIsListed'
      BY <1>0, <2>1, <2>3, <2>4, <3>1 DEF List!OnlyWhatWasMadeIsListed
    <3>3. (List!AgreesNow(v2) => List!AgreesNow(v2)') /\ (List!AgreesNow(v3.data) => List!AgreesNow(v3.data)')
      BY <2>1, <3>1 DEF List!AgreesNow
    <3>4. QED
      BY <1>0, <2>1, <2>3, <3>2, <3>3 DEF List!ListInvariant
  <2>7. CASE accepted /\ c.kind \in {"pin", "star", "rename"}
    <3>1. DOMAIN v1' = DOMAIN v1
      BY <2>1, <2>7 DEF List!Applied
    <3>2. List!OnlyWhatWasMadeIsListed'
      BY <1>0, <2>1, <2>3, <2>4, <3>1 DEF List!OnlyWhatWasMadeIsListed
    <3>3. List!Changing'
      BY <2>3, <2>7 DEF List!Changing
    <3>4. QED
      BY <2>3, <3>2, <3>3 DEF List!ListInvariant
  <2>8. CASE accepted /\ c.kind = "delete"
    <3>1. v1' = [p \in DOMAIN v1 \ {c.of} |-> v1[p]]
      BY <2>1, <2>8 DEF List!Applied
    <3>2. List!OnlyWhatWasMadeIsListed'
      BY <1>0, <2>1, <2>3, <2>4, <3>1 DEF List!OnlyWhatWasMadeIsListed
    <3>3. (List!AgreesNow(v2) => List!AgreesNow(v2)') /\ (List!AgreesNow(v3.data) => List!AgreesNow(v3.data)')
      BY <2>1, <3>1 DEF List!AgreesNow
    <3>4. QED
      BY <1>0, <2>1, <2>3, <3>2, <3>3 DEF List!ListInvariant
  <2>9. CASE accepted /\ c.kind = "fork"
    <3>1. v1' = [p \in DOMAIN v1 \cup {c.to} |-> IF p = c.to THEN List!Fresh ELSE v1[p]]
      BY <2>1, <2>9 DEF List!Applied
    <3>2. c.to \in List!GivenNames
      BY <1>0, <2>9 DEF List!NamesAreNew, List!GivenNames
    <3>3. List!OnlyWhatWasMadeIsListed'
      BY <1>0, <2>1, <2>3, <2>4, <2>9, <3>1, <3>2 DEF List!OnlyWhatWasMadeIsListed
    <3>4. ~List!ForkedYet(c.to)
      BY <2>1, <2>9 DEF List!ForkedYet
    <3>5. c.to \notin DOMAIN v2 /\ (v3.stage = "read" => c.to \notin DOMAIN v3.data)
      BY <1>0, <3>4
    <3>6. (List!AgreesNow(v2) => List!AgreesNow(v2)') /\ (v3.stage = "read" /\ List!AgreesNow(v3.data) => List!AgreesNow(v3.data)')
      BY <2>1, <3>1, <3>5 DEF List!AgreesNow
    <3>7. QED
      BY <1>0, <2>1, <2>3, <3>3, <3>6 DEF List!ListInvariant
  <2>10. QED
    BY <2>5, <2>6, <2>7, <2>8, <2>9
<1>9. CASE List!ChangeAnswered
  <2>1. PICK c \in v4 :
          /\ c.kind \in {"pin", "star", "rename"} /\ v4' = v4 \ {c} /\ v2' \in {v2, c.previous}
          /\ v3'.stage = "sent" /\ UNCHANGED <<v1, v10>>
    BY <1>9 DEF List!ChangeAnswered, List!Invalidated
  <2>2. /\ List!ListShapes' /\ List!NamesAreNew'
        /\ \A p : List!ForkedYet(p) => List!ForkedYet(p)'
        /\ \A e \in v4' : e \in v4
    BY <1>0, <2>1, ListChangeOver
  <2>3. \A p \in DOMAIN v2' : List!ForkedYet(p)
    BY <1>0, <2>1
  <2>4. List!OnlyWhatWasMadeIsListed'
    BY <1>0, <2>1, <2>2, <2>3 DEF List!OnlyWhatWasMadeIsListed
  <2>5. QED
    BY <2>1, <2>2, <2>4 DEF List!ListInvariant
\* A delete or a copy: asked for, gone on with, or over.
<1>10. ASSUME NEW c \in v4, c.kind \in {"delete", "fork"}, v4' = v4 \ {c}, UNCHANGED <<v1, v2, v10>>,
              v3' = v3 \/ v3'.stage = "sent"
       PROVE  List!ListInvariant'
  <2>1. /\ List!ListShapes' /\ List!NamesAreNew'
        /\ \A p : List!ForkedYet(p) => List!ForkedYet(p)'
        /\ \A e \in v4' : e \in v4
        /\ List!Changing' = List!Changing
    BY <1>0, <1>10, ListChangeOver
  <2>2. List!OnlyWhatWasMadeIsListed'
    BY <1>0, <1>10, <2>1 DEF List!OnlyWhatWasMadeIsListed
  <2>3. List!AgreesNow(v2)' <=> List!AgreesNow(v2)
    BY <1>10 DEF List!AgreesNow
  <2>4. v3' = v3 => (List!AgreesNow(v3.data)' <=> List!AgreesNow(v3.data))
    BY <1>10 DEF List!AgreesNow
  <2>5. QED
    BY <1>0, <1>10, <2>1, <2>2, <2>3, <2>4 DEF List!ListInvariant
<1>11. ASSUME NEW c \in v4, NEW stage, stage # "sent", v4' = (v4 \ {c}) \cup {[c EXCEPT !.stage = stage]}, UNCHANGED <<v1, v2, v10>>,
              v3' = v3 \/ v3'.stage = "sent"
       PROVE  List!ListInvariant'
  <2>1. /\ List!ListShapes' /\ List!NamesAreNew'
        /\ \A p : List!ForkedYet(p) => List!ForkedYet(p)'
        /\ \A e \in v4' : e.kind \in {"pin", "star", "rename"} => \E g \in v4 : g.kind = e.kind /\ g.previous = e.previous
        /\ List!Changing' = List!Changing
    BY <1>0, <1>11, ListChangeGoesOn
  <2>2. List!OnlyWhatWasMadeIsListed'
    BY <1>0, <1>11, <2>1 DEF List!OnlyWhatWasMadeIsListed
  <2>3. List!AgreesNow(v2)' <=> List!AgreesNow(v2)
    BY <1>11 DEF List!AgreesNow
  <2>4. v3' = v3 => (List!AgreesNow(v3.data)' <=> List!AgreesNow(v3.data))
    BY <1>11 DEF List!AgreesNow
  <2>5. QED
    BY <1>0, <1>11, <2>1, <2>2, <2>3, <2>4 DEF List!ListInvariant
<1>12. CASE List!DeleteProject
  <2>. PICK c : c = [kind |-> "delete", of |-> v7.of, to |-> List!NoProject, stage |-> "sent"]
    OBVIOUS
  <2>1. v4' = v4 \cup {c} /\ c.kind = "delete" /\ UNCHANGED <<v1, v2, v3, v10>>
    BY <1>12 DEF List!DeleteProject, List!AskServer
  <2>2. List!ListShapes' /\ (List!Changing' <=> List!Changing)
    BY <1>0, <2>1 DEF List!ListShapes, List!Changing
  <2>3. List!NamesAreNew' /\ \A p : List!ForkedYet(p)' <=> List!ForkedYet(p)
    BY <1>0, <2>1 DEF List!NamesAreNew, List!ForkedYet, List!GivenNames
  <2>4. List!OnlyWhatWasMadeIsListed'
    BY <1>0, <2>1, <2>3 DEF List!OnlyWhatWasMadeIsListed
  <2>5. (List!AgreesNow(v2)' <=> List!AgreesNow(v2)) /\ (List!AgreesNow(v3.data)' <=> List!AgreesNow(v3.data))
    BY <2>1 DEF List!AgreesNow
  <2>6. QED
    BY <1>0, <2>1, <2>2, <2>3, <2>4, <2>5 DEF List!ListInvariant
<1>13. CASE List!Fork
  <2>1. PICK copy \in Copies : copy \notin v10 /\ v10' = v10 \cup {copy} /\ List!AskServer("fork", v7.of, copy) /\ UNCHANGED <<v1, v2, v3>>
    BY <1>13 DEF List!Fork
  <2>. PICK c : c = [kind |-> "fork", of |-> v7.of, to |-> copy, stage |-> "sent"]
    OBVIOUS
  <2>2. v4' = v4 \cup {c} /\ c.kind = "fork" /\ c.to = copy
    BY <2>1 DEF List!AskServer
  <2>3. List!ListShapes' /\ (List!Changing' <=> List!Changing)
    BY <1>0, <2>2 DEF List!ListShapes, List!Changing
  <2>4. List!NamesAreNew'
    BY <1>0, <2>1, <2>2 DEF List!NamesAreNew
  <2>5. copy \notin List!GivenNames
    BY <2>1 DEF List!GivenNames
  <2>6. \A p : List!ForkedYet(p) => List!ForkedYet(p)'
    BY <2>1, <2>2, <2>5 DEF List!ForkedYet, List!GivenNames
  <2>7. List!OnlyWhatWasMadeIsListed'
    BY <1>0, <2>1, <2>2, <2>6 DEF List!OnlyWhatWasMadeIsListed
  <2>8. (List!AgreesNow(v2)' <=> List!AgreesNow(v2)) /\ (List!AgreesNow(v3.data)' <=> List!AgreesNow(v3.data))
    BY <2>1 DEF List!AgreesNow
  <2>9. QED
    BY <1>0, <2>1, <2>3, <2>4, <2>7, <2>8 DEF List!ListInvariant
<1>14. CASE List!ProjectDeleteAnswered
  <2>1. PICK c \in v4 : /\ c.kind = "delete" /\ UNCHANGED <<v1, v2, v3, v10>>
                        /\ v4' = v4 \ {c} \/ v4' = (v4 \ {c}) \cup {[c EXCEPT !.stage = "leaving"]}
    BY <1>14 DEF List!ProjectDeleteAnswered
  <2>2. "leaving" # "sent"
    OBVIOUS
  <2>3. QED
    BY <1>10, <1>11, <2>1, <2>2
<1>15. CASE List!FadeEnds
  <2>1. PICK c \in v4 : UNCHANGED <<v1, v2, v10>> /\ v3'.stage = "sent" /\ v4' = (v4 \ {c}) \cup {[c EXCEPT !.stage = "left"]}
    BY <1>15 DEF List!FadeEnds, List!Invalidated
  <2>2. "left" # "sent"
    OBVIOUS
  <2>3. QED
    BY <1>11, <2>1, <2>2
<1>16. CASE List!DeleteDone
  <2>1. PICK c \in v4 : c.kind = "delete" /\ UNCHANGED <<v1, v2, v3, v10>> /\ v4' = v4 \ {c}
    BY <1>16 DEF List!DeleteDone
  <2>2. QED
    BY <1>10, <2>1
<1>17. CASE List!ForkAnswered
  <2>1. PICK c \in v4 : c.kind = "fork" /\ UNCHANGED <<v1, v2, v10>> /\ v4' = v4 \ {c} /\ (v3' = v3 \/ v3'.stage = "sent")
    BY <1>17 DEF List!ForkAnswered, List!Invalidated
  <2>2. QED
    BY <1>10, <2>1
<1>18. CASE List!ReadList \/ List!ListFails
  BY <1>2, <1>18 DEF List!ReadList, List!ListFails
<1>19. CASE List!StartRename \/ List!RequestDelete \/ List!CloseDialog \/ List!RequestFork \/ List!Go \/ List!ToggleSidebar \/ List!OpenPalette
  BY <1>1, <1>19 DEF List!StartRename, List!RequestDelete, List!CloseDialog, List!RequestFork, List!Go, List!ToggleSidebar, List!OpenPalette
<1>20. CASE UNCHANGED List!listVars
  BY <1>1, <1>20 DEF List!listVars
<1>21. QED
  BY <1>3, <1>4, <1>6, <1>7, <1>8, <1>9, <1>12, <1>13, <1>14, <1>15, <1>16, <1>17, <1>18, <1>19, <1>20 DEF List!ListNext

\* So the list shows what the server has.
LEMMA ListHolds ==
  ASSUME List!ListInvariant
  PROVE  List!ListIsTheServers
<1>1. ASSUME v3 = List!NoListRead, \A c \in v4 : c.kind \in {"delete", "fork"}
      PROVE  List!AgreesNow(v2)
  BY <1>1 DEF List!ListInvariant, List!NoListRead, List!Changing
<1>2. QED
  BY <1>1 DEF List!ListIsTheServers, List!AgreesNow

-----------------------------------------------------------------------------
(* PlanPages: nobody who was told of a change is shown what was before. *)
Plan == INSTANCE PlanPages WITH truth <- v1, subCopy <- v2, copyRead <- v3,
  planPage <- v4, planAsk <- v5, toldOf <- v6

\* The pages know no subscription at first.
LEMMA PlanInitially ==
  ASSUME Plan!PlanInit, DearestPlan \in Nat
  PROVE  Plan!PlanInvariant
<1> USE DEF Plan!CatalogPlans, Plan!Gratis, Plan!NoCopy, Plan!NoCopyRead, Plan!NoPlanAsk, Plan!FreshPage, Plan!Subscriptions
<1>1. Plan!PlanShapes
  <2>1. v1 \in Plan!Subscriptions /\ v2 \in Plan!Subscriptions
    <3>1. PICK p \in Plan!CatalogPlans : \E sub : sub = [Plan!Gratis EXCEPT !.plan = p] /\ v1 = [v |-> 1, sub |-> sub]
      BY DEF Plan!PlanInit
    <3>. PICK sub : sub = [Plan!Gratis EXCEPT !.plan = p] /\ v1 = [v |-> 1, sub |-> sub]
      BY <3>1
    <3>2. sub \in [plan : Plan!CatalogPlans, cancelling : BOOLEAN, failing : BOOLEAN]
      OBVIOUS
    <3>3. v1 \in Plan!Subscriptions
      BY <3>2
    <3>4. v2 \in Plan!Subscriptions
      BY DEF Plan!PlanInit
    <3>5. QED
      BY <3>3, <3>4
  <2>2. PICK signedIn \in BOOLEAN :
          /\ v4 = [Plan!FreshPage EXCEPT !.signedIn = signedIn]
          /\ v3 = [Plan!NoCopyRead EXCEPT !.stage = IF signedIn THEN "sent" ELSE "idle"]
    BY DEF Plan!PlanInit
  <2>3. v3 \in [stage : {"idle", "sent", "answered"}, got : Plan!Subscriptions, refreshes : BOOLEAN]
    <3>1. Plan!NoCopyRead \in [stage : {"idle", "sent", "answered"}, got : Plan!Subscriptions, refreshes : BOOLEAN]
      OBVIOUS
    <3>2. QED
      BY <2>2, <3>1
  <2>4. v4 \in [page : {"pricing", "billing", "provider", "login"}, signedIn : BOOLEAN, dialog : SUBSET Plan!CatalogPlans,
                starting : SUBSET Plan!CatalogPlans, confirming : BOOLEAN, stale : BOOLEAN]
    BY <2>2
  <2>5. QED
    BY <2>1, <2>3, <2>4 DEF Plan!PlanInit, Plan!PlanShapes
<1>2. v1.v = 1 /\ v2.v = 0 /\ v3.got.v = 0 /\ v6 = 0 /\ v5.made = 0 /\ v3.stage # "answered" /\ v3.refreshes = FALSE
      /\ v4.dialog = {} /\ v5.kind = "none" /\ v4.page = "pricing"
  BY DEF Plan!PlanInit
<1>3. QED
  BY <1>1, <1>2 DEF Plan!PlanInvariant, Plan!NothingIsNewerThanTheTruth, Plan!DialogsAreOfACopy, Plan!NoPageNoCopy,
    Plan!ReadsAreRecent, Plan!ToldIsShown, Plan!IsKnown

\* No copy, and a read that has not been answered, know of nothing.
LEMMA NothingKnown ==
  ASSUME DearestPlan \in Nat
  PROVE  Plan!NoCopy \in Plan!Subscriptions /\ Plan!NoCopy.v = 0 /\ 0 \in Plan!CatalogPlans
BY DEF Plan!NoCopy, Plan!Gratis, Plan!Subscriptions, Plan!CatalogPlans

\* A read that is begun, or that a change waits for.
LEMMA ReadBegun ==
  ASSUME NEW read, read = [Plan!NoCopyRead EXCEPT !.stage = "sent"]
  PROVE  read = [stage |-> "sent", got |-> Plan!NoCopy, refreshes |-> FALSE]
<1>1. Plan!NoCopyRead \in [stage : {"idle"}, got : {Plan!NoCopy}, refreshes : {FALSE}]
  BY DEF Plan!NoCopyRead
<1>2. QED
  BY <1>1
LEMMA ReadWaitedFor ==
  ASSUME NEW read, read = [Plan!NoCopyRead EXCEPT !.stage = "sent", !.refreshes = TRUE]
  PROVE  read = [stage |-> "sent", got |-> Plan!NoCopy, refreshes |-> TRUE]
<1>1. Plan!NoCopyRead \in [stage : {"idle"}, got : {Plan!NoCopy}, refreshes : {FALSE}]
  BY DEF Plan!NoCopyRead
<1>2. QED
  BY <1>1

\* Every step of the pages and of the server keeps the invariant.
LEMMA PlanStep ==
  ASSUME Plan!PlanInvariant, DearestPlan \in Nat, [Plan!PlanNext]_(Plan!planVars)
  PROVE  Plan!PlanInvariant'
<1> USE DEF Plan!PlanInvariant, Plan!NothingIsNewerThanTheTruth, Plan!DialogsAreOfACopy, Plan!NoPageNoCopy,
    Plan!ReadsAreRecent, Plan!ToldIsShown, Plan!IsKnown
<1> DEFINE Reads == [stage : {"idle", "sent", "answered"}, got : Plan!Subscriptions, refreshes : BOOLEAN]
           Pages == [page : {"pricing", "billing", "provider", "login"}, signedIn : BOOLEAN, dialog : SUBSET Plan!CatalogPlans,
                     starting : SUBSET Plan!CatalogPlans, confirming : BOOLEAN, stale : BOOLEAN]
           Asks == [kind : {"none", "checkout", "portal", "change", "confirm"}, plan : Plan!CatalogPlans,
                    stage : {"none", "sent", "done", "refused", "refreshing"}, made : Nat]
<1>0. Plan!PlanShapes /\ v1.v \in Nat /\ v2.v \in Nat /\ v3.got.v \in Nat /\ v5.made \in Nat /\ v6 \in Nat
      /\ v1 \in Plan!Subscriptions /\ v2 \in Plan!Subscriptions /\ v3.got \in Plan!Subscriptions
      /\ v5.plan \in Plan!CatalogPlans /\ v4.starting \in SUBSET Plan!CatalogPlans
  BY DEF Plan!PlanShapes, Plan!Subscriptions
<1>n. Plan!NoCopy \in Plan!Subscriptions /\ Plan!NoCopy.v = 0 /\ 0 \in Plan!CatalogPlans
  BY NothingKnown
<1>1. CASE UNCHANGED Plan!planVars
  BY <1>0, <1>1 DEF Plan!planVars, Plan!PlanShapes
<1>2. CASE Plan!LookAgain
  <2>1. v3' = [stage |-> "sent", got |-> Plan!NoCopy, refreshes |-> FALSE]
    BY <1>2, ReadBegun DEF Plan!LookAgain
  <2>2. v4.page # "provider" /\ UNCHANGED <<v1, v2, v4, v5, v6>>
    BY <1>2 DEF Plan!LookAgain
  <2>3. Plan!PlanShapes'
    BY <1>0, <1>n, <2>1, <2>2 DEF Plan!PlanShapes
  <2>4. QED
    BY <1>0, <1>n, <2>1, <2>2, <2>3
<1>3. CASE Plan!GetMySubscription
  <2>1. v3' = [stage |-> "answered", got |-> v1, refreshes |-> v3.refreshes]
    BY <1>0, <1>3 DEF Plan!GetMySubscription, Plan!PlanShapes
  <2>2. Plan!PlanShapes'
    BY <1>0, <1>3, <2>1 DEF Plan!GetMySubscription, Plan!PlanShapes
  <2>3. QED
    BY <1>0, <1>3, <2>1, <2>2 DEF Plan!GetMySubscription
<1>4. CASE Plan!CopyArrives
  <2>0. /\ v3.stage = "answered" /\ v2' = v3.got /\ v3' = [stage |-> "idle", got |-> Plan!NoCopy, refreshes |-> FALSE]
        /\ v1' = v1 /\ Plan!RefreshEnds /\ v4.page # "provider"
    BY <1>4 DEF Plan!CopyArrives, Plan!NoCopyRead
  <2>1. v2'.v >= v6 /\ v2'.v >= 1
    BY <2>0
  <2>2. CASE v3.refreshes
    <3>1. /\ v5' = [kind |-> "none", plan |-> 0, stage |-> "none", made |-> 0]
          /\ v6' = (IF v5.kind = "change" THEN v5.made ELSE v6)
          /\ v4' = [v4 EXCEPT !.dialog = IF v5.kind = "change" THEN {} ELSE @, !.confirming = FALSE, !.stale = v3.stage # "answered"]
      BY <2>0, <2>2 DEF Plan!RefreshEnds, Plan!NoPlanAsk
    <3>. PICK shown : shown = IF v5.kind = "change" THEN {} ELSE v4.dialog
      OBVIOUS
    <3>2. /\ v4' = [v4 EXCEPT !.dialog = shown, !.confirming = FALSE, !.stale = FALSE] /\ shown \in SUBSET Plan!CatalogPlans
          /\ v4'.page = v4.page /\ v4'.dialog = shown /\ v4'.stale = FALSE
      BY <1>0, <2>0, <3>1 DEF Plan!PlanShapes
    <3>3. Plan!PlanShapes'
      <4>1. v6' \in Nat /\ v4' \in Pages /\ v5' \in Asks /\ v3' \in Reads
        BY <1>0, <1>n, <2>0, <3>1, <3>2 DEF Plan!PlanShapes
      <4>2. QED
        BY <1>0, <2>0, <4>1 DEF Plan!PlanShapes
    <3>4. v6' <= v2'.v /\ v6' <= v1.v
      BY <1>0, <2>0, <2>1, <2>2, <3>1
    <3>5. QED
      BY <1>0, <1>n, <2>0, <2>1, <3>1, <3>2, <3>3, <3>4
  <2>3. CASE ~v3.refreshes
    <3>1. v5' = v5 /\ v6' = v6 /\ v4' = [v4 EXCEPT !.stale = @ /\ v3.stage # "answered"]
      BY <2>0, <2>3 DEF Plan!RefreshEnds
    <3>2. v4' = [page |-> v4.page, signedIn |-> v4.signedIn, dialog |-> v4.dialog, starting |-> v4.starting,
                 confirming |-> v4.confirming, stale |-> FALSE]
      BY <1>0, <2>0, <3>1 DEF Plan!PlanShapes
    <3>3. Plan!PlanShapes'
      BY <1>0, <1>n, <2>0, <3>1, <3>2 DEF Plan!PlanShapes
    <3>4. QED
      BY <1>0, <1>n, <2>0, <2>1, <3>1, <3>2, <3>3
  <2>4. QED
    BY <2>2, <2>3
<1>5. CASE Plan!CopyFails
  <2>0. /\ v3.stage = "sent" /\ v3' = [stage |-> "idle", got |-> Plan!NoCopy, refreshes |-> FALSE]
        /\ v1' = v1 /\ v2' = v2 /\ Plan!RefreshEnds /\ v4.page # "provider"
    BY <1>5 DEF Plan!CopyFails, Plan!NoCopyRead
  <2>2. CASE v3.refreshes
    <3>1. /\ v5' = [kind |-> "none", plan |-> 0, stage |-> "none", made |-> 0]
          /\ v6' = (IF v5.kind = "change" THEN v5.made ELSE v6)
          /\ v4' = [v4 EXCEPT !.dialog = IF v5.kind = "change" THEN {} ELSE @, !.confirming = FALSE, !.stale = v3.stage # "answered"]
      BY <2>0, <2>2 DEF Plan!RefreshEnds, Plan!NoPlanAsk
    <3>. PICK shown : shown = IF v5.kind = "change" THEN {} ELSE v4.dialog
      OBVIOUS
    <3>2. /\ v4' = [v4 EXCEPT !.dialog = shown, !.confirming = FALSE, !.stale = TRUE] /\ shown \in SUBSET Plan!CatalogPlans
          /\ v4'.page = v4.page /\ v4'.dialog = shown /\ v4'.stale = TRUE
      BY <1>0, <2>0, <3>1 DEF Plan!PlanShapes
    <3>3. Plan!PlanShapes'
      <4>1. v6' \in Nat /\ v4' \in Pages /\ v5' \in Asks /\ v3' \in Reads
        BY <1>0, <1>n, <2>0, <3>1, <3>2 DEF Plan!PlanShapes
      <4>2. QED
        BY <1>0, <2>0, <4>1 DEF Plan!PlanShapes
    <3>4. v6' <= v1.v
      BY <1>0, <3>1
    <3>5. v4'.dialog # {} => v2.v > 0
      BY <1>0, <2>0, <3>2
    <3>6. QED
      BY <1>0, <1>n, <2>0, <3>1, <3>2, <3>3, <3>4, <3>5
  <2>3. CASE ~v3.refreshes
    <3>1. v5' = v5 /\ v6' = v6 /\ v4' = [v4 EXCEPT !.stale = @ /\ v3.stage # "answered"]
      BY <2>0, <2>3 DEF Plan!RefreshEnds
    <3>2. v4' = [page |-> v4.page, signedIn |-> v4.signedIn, dialog |-> v4.dialog, starting |-> v4.starting,
                 confirming |-> v4.confirming, stale |-> v4.stale]
      BY <1>0, <2>0, <3>1 DEF Plan!PlanShapes
    <3>3. Plan!PlanShapes'
      BY <1>0, <1>n, <2>0, <3>1, <3>2 DEF Plan!PlanShapes
    <3>4. QED
      BY <1>0, <1>n, <2>0, <3>1, <3>2, <3>3
  <2>4. QED
    BY <2>2, <2>3
<1>6. CASE Plan!ChoosePlan
  <2>0. v4.page = "pricing" /\ UNCHANGED <<v1, v2, v3, v6>>
    BY <1>6 DEF Plan!ChoosePlan
  <2>1. PICK plan \in Plan!CatalogPlans :
          \/ v4' = [v4 EXCEPT !.page = "login"] /\ UNCHANGED v5
          \/ Plan!IsKnown /\ v4' = [v4 EXCEPT !.dialog = {plan}] /\ UNCHANGED v5
          \/ /\ v5 = Plan!NoPlanAsk /\ v4' = [v4 EXCEPT !.starting = {plan}]
             /\ v5' = [kind |-> "checkout", plan |-> plan, stage |-> "sent", made |-> 0]
    BY <1>6 DEF Plan!ChoosePlan, Plan!HasPaidSubscription
  <2>2. CASE v4' = [v4 EXCEPT !.page = "login"] /\ UNCHANGED v5
    BY <1>0, <2>0, <2>2 DEF Plan!PlanShapes
  <2>3. CASE Plan!IsKnown /\ v4' = [v4 EXCEPT !.dialog = {plan}] /\ UNCHANGED v5
    BY <1>0, <2>0, <2>3 DEF Plan!PlanShapes
  <2>4. CASE /\ v5 = Plan!NoPlanAsk /\ v4' = [v4 EXCEPT !.starting = {plan}]
             /\ v5' = [kind |-> "checkout", plan |-> plan, stage |-> "sent", made |-> 0]
    BY <1>0, <2>0, <2>4 DEF Plan!PlanShapes, Plan!NoPlanAsk
  <2>5. QED
    BY <2>1, <2>2, <2>3, <2>4
<1>7. CASE Plan!KeepPlan
  BY <1>0, <1>7 DEF Plan!KeepPlan, Plan!KeepIsOffered, Plan!HasPaidSubscription, Plan!PlanShapes, Plan!Subscriptions
<1>8. CASE Plan!CancelPlan
  BY <1>0, <1>8 DEF Plan!CancelPlan, Plan!CancelIsOffered, Plan!HasPaidSubscription, Plan!PlanShapes, Plan!CatalogPlans
<1>9. CASE Plan!ConfirmChange
  BY <1>0, <1>9 DEF Plan!ConfirmChange, Plan!NoPlanAsk, Plan!PlanShapes
<1>10. CASE Plan!CloseChange
  BY <1>0, <1>10 DEF Plan!CloseChange, Plan!IsWorking, Plan!PlanShapes
<1>11. CASE Plan!OpenPortal
  BY <1>0, <1>11 DEF Plan!OpenPortal, Plan!NoPlanAsk, Plan!PlanShapes, Plan!CatalogPlans
<1>12. CASE Plan!SeeBilling \/ Plan!SeePlans
  <2>0. v5 = Plan!NoPlanAsk /\ UNCHANGED <<v1, v2, v5, v6>>
    BY <1>12 DEF Plan!SeeBilling, Plan!SeePlans
  <2>1. \/ v3' = [stage |-> "sent", got |-> Plan!NoCopy, refreshes |-> FALSE]
        \/ v3' = v3
    BY <1>12, ReadBegun DEF Plan!SeeBilling, Plan!SeePlans
  <2>2. PICK page \in {"billing", "pricing"} : v4' = [v4 EXCEPT !.page = page, !.dialog = {}]
    BY <1>12 DEF Plan!SeeBilling, Plan!SeePlans
  <2>3. Plan!PlanShapes'
    <3>1. v3' \in Reads
      <4>1. v3 \in Reads
        BY <1>0 DEF Plan!PlanShapes
      <4>2. CASE v3' = [stage |-> "sent", got |-> Plan!NoCopy, refreshes |-> FALSE]
        BY <1>n, <4>2
      <4>3. QED
        BY <2>1, <4>1, <4>2
    <3>2. QED
      BY <1>0, <2>0, <2>2, <3>1 DEF Plan!PlanShapes
  <2>4. v4'.page = page /\ v4'.dialog = {} /\ v4'.stale = v4.stale
    BY <1>0, <2>2 DEF Plan!PlanShapes
  <2>5. QED
    BY <1>0, <1>n, <2>0, <2>1, <2>3, <2>4 DEF Plan!NoPlanAsk
<1>14. CASE Plan!ServerDoesChange
  <2>0. v5.kind = "change" /\ v5.stage = "sent" /\ UNCHANGED <<v2, v3, v4, v6>> /\ v3.refreshes = FALSE
    BY <1>0, <1>14 DEF Plan!ServerDoesChange, Plan!PlanShapes
  <2>1. CASE v5' = [v5 EXCEPT !.stage = "refused"] /\ UNCHANGED v1
    BY <1>0, <2>0, <2>1 DEF Plan!PlanShapes
  <2>2. CASE Plan!BecomesNow(Plan!AsChanged(v5.plan)) /\ v5' = [v5 EXCEPT !.stage = "done", !.made = v1.v + 1]
    <3>1. Plan!AsChanged(v5.plan) \in [plan : Plan!CatalogPlans, cancelling : BOOLEAN, failing : BOOLEAN]
      BY <1>0 DEF Plan!AsChanged, Plan!Subscriptions
    <3>2. v1' \in Plan!Subscriptions /\ v1'.v = v1.v + 1
      BY <1>0, <2>2, <3>1 DEF Plan!BecomesNow, Plan!Subscriptions
    <3>3. v5' = [kind |-> "change", plan |-> v5.plan, stage |-> "done", made |-> v1.v + 1]
      BY <1>0, <2>0, <2>2 DEF Plan!PlanShapes
    <3>4. Plan!PlanShapes'
      BY <1>0, <2>0, <3>2, <3>3 DEF Plan!PlanShapes
    <3>5. QED
      BY <1>0, <2>0, <3>2, <3>3, <3>4
  <2>3. QED
    BY <1>14, <2>1, <2>2 DEF Plan!ServerDoesChange
<1>15. CASE Plan!ServerDoesCheckout
  <2>1. PICK stage \in {"done", "refused"} : v5' = [v5 EXCEPT !.stage = stage]
    BY <1>15 DEF Plan!ServerDoesCheckout
  <2>2. QED
    BY <1>0, <1>15, <2>1 DEF Plan!ServerDoesCheckout, Plan!PlanShapes
<1>16. CASE Plan!ServerConfirms
  <2>0. v5.kind = "confirm" /\ v5.stage = "sent" /\ UNCHANGED <<v2, v3, v4, v6>> /\ v3.refreshes = FALSE
    BY <1>0, <1>16 DEF Plan!ServerConfirms, Plan!PlanShapes
  <2>1. v1' \in Plan!Subscriptions /\ v1'.v >= v1.v
    <3>. PICK bought : bought = [Plan!Gratis EXCEPT !.plan = v5.plan]
      OBVIOUS
    <3>1. bought \in [plan : Plan!CatalogPlans, cancelling : BOOLEAN, failing : BOOLEAN]
      BY <1>0 DEF Plan!Gratis
    <3>2. v1' = v1 \/ v1' = [v |-> v1.v + 1, sub |-> bought]
      BY <1>16 DEF Plan!ServerConfirms, Plan!BecomesNow
    <3>3. v1' \in Plan!Subscriptions
      BY <1>0, <3>1, <3>2 DEF Plan!Subscriptions
    <3>4. QED
      BY <1>0, <3>2, <3>3
  <2>2. v5' = [kind |-> "confirm", plan |-> v5.plan, stage |-> "done", made |-> v1'.v]
    BY <1>0, <1>16 DEF Plan!ServerConfirms, Plan!PlanShapes
  <2>3. v1'.v \in Nat
    BY <2>1 DEF Plan!Subscriptions
  <2>4. Plan!PlanShapes'
    BY <1>0, <2>0, <2>1, <2>2, <2>3 DEF Plan!PlanShapes
  <2>5. QED
    BY <1>0, <2>0, <2>1, <2>2, <2>3, <2>4
<1>17. CASE Plan!ServerOfItself
  <2>0. UNCHANGED <<v2, v3, v4, v5, v6>>
    BY <1>17 DEF Plan!ServerOfItself
  <2>1. PICK sub \in [plan : Plan!CatalogPlans, cancelling : BOOLEAN, failing : BOOLEAN] : v1' = [v |-> v1.v + 1, sub |-> sub]
    <3>. PICK bought : bought = [Plan!Gratis EXCEPT !.plan = v5.plan]
      OBVIOUS
    <3>. PICK failed : failed = [v1.sub EXCEPT !.failing = ~@]
      OBVIOUS
    <3>1. bought \in [plan : Plan!CatalogPlans, cancelling : BOOLEAN, failing : BOOLEAN]
      BY <1>0 DEF Plan!Gratis
    <3>2. Plan!Gratis \in [plan : Plan!CatalogPlans, cancelling : BOOLEAN, failing : BOOLEAN]
      BY DEF Plan!Gratis, Plan!CatalogPlans
    <3>3. failed \in [plan : Plan!CatalogPlans, cancelling : BOOLEAN, failing : BOOLEAN]
      BY <1>0 DEF Plan!Subscriptions
    <3>4. \E sub \in {bought, failed, Plan!Gratis} : Plan!BecomesNow(sub)
      BY <1>17 DEF Plan!ServerOfItself
    <3>5. QED
      BY <3>1, <3>2, <3>3, <3>4 DEF Plan!BecomesNow
  <2>2. v1' \in Plan!Subscriptions /\ v1'.v >= v1.v /\ v1'.v \in Nat
    BY <1>0, <2>1 DEF Plan!Subscriptions
  <2>3. Plan!PlanShapes'
    BY <1>0, <2>0, <2>2 DEF Plan!PlanShapes
  <2>4. QED
    BY <1>0, <2>0, <2>2, <2>3
<1>18. CASE Plan!PlanAnswered
  <2>0. v5.stage \in {"done", "refused"} /\ v3.refreshes = FALSE /\ v1' = v1 /\ v6' = v6
    BY <1>0, <1>18 DEF Plan!PlanAnswered, Plan!PlanShapes
  <2>1. CASE /\ v4' = [v4 EXCEPT !.starting = {}, !.confirming = FALSE] /\ v5' = Plan!NoPlanAsk
             /\ UNCHANGED <<v2, v3>>
    <3>1. v5' = [kind |-> "none", plan |-> 0, stage |-> "none", made |-> 0]
      BY <2>1 DEF Plan!NoPlanAsk
    <3>2. v4' = [page |-> v4.page, signedIn |-> v4.signedIn, dialog |-> v4.dialog, starting |-> {}, confirming |-> FALSE, stale |-> v4.stale]
      BY <1>0, <2>1 DEF Plan!PlanShapes
    <3>3. Plan!PlanShapes'
      <4>1. v4' \in Pages
        BY <1>0, <2>1 DEF Plan!PlanShapes
      <4>2. QED
        BY <1>0, <1>n, <2>0, <2>1, <3>1, <4>1 DEF Plan!PlanShapes
    <3>4. QED
      BY <1>0, <2>0, <2>1, <3>1, <3>2, <3>3
  <2>2. CASE Plan!Leaves("provider", Plan!NoPlanAsk)
    <3>1. /\ v4' = [page |-> "provider", signedIn |-> TRUE, dialog |-> {}, starting |-> v4.starting, confirming |-> FALSE, stale |-> FALSE]
          /\ v5' = [kind |-> "none", plan |-> 0, stage |-> "none", made |-> 0]
      BY <2>2 DEF Plan!Leaves, Plan!FreshPage, Plan!NoPlanAsk
    <3>2. v2' = Plan!NoCopy /\ v3' = [stage |-> "idle", got |-> Plan!NoCopy, refreshes |-> FALSE]
      BY <2>2 DEF Plan!Leaves, Plan!NoCopyRead
    <3>3. Plan!PlanShapes'
      BY <1>0, <1>n, <2>0, <3>1, <3>2 DEF Plan!PlanShapes
    <3>4. QED
      BY <1>0, <1>n, <2>0, <3>1, <3>2, <3>3
  <2>3. CASE /\ v5.kind \in {"change", "confirm"} /\ v5' = [v5 EXCEPT !.stage = "refreshing"]
             /\ v3' = Plan!Refreshed(v3) /\ UNCHANGED <<v2, v4>>
    <3>0. v5' = [kind |-> v5.kind, plan |-> v5.plan, stage |-> "refreshing", made |-> v5.made] /\ v4.page # "provider"
      BY <1>0, <2>3 DEF Plan!PlanShapes
    <3>1. CASE v3.stage # "idle" /\ ~Plan!IsKnown
      <4>1. v3' = [v3 EXCEPT !.refreshes = TRUE] /\ v5.kind = "confirm"
        BY <1>0, <2>3, <3>1 DEF Plan!Refreshed
      <4>2. v3' = [stage |-> v3.stage, got |-> v3.got, refreshes |-> TRUE]
        BY <1>0, <4>1 DEF Plan!PlanShapes
      <4>3. Plan!PlanShapes'
        BY <1>0, <2>0, <2>3, <3>0, <4>2 DEF Plan!PlanShapes
      <4>4. QED
        BY <1>0, <2>0, <2>3, <3>0, <4>1, <4>2, <4>3
    <3>2. CASE ~(v3.stage # "idle" /\ ~Plan!IsKnown)
      <4>1. v3' = [Plan!NoCopyRead EXCEPT !.stage = "sent", !.refreshes = TRUE]
        BY <2>3, <3>2 DEF Plan!Refreshed
      <4>2. v3' = [stage |-> "sent", got |-> Plan!NoCopy, refreshes |-> TRUE]
        BY <4>1, ReadWaitedFor
      <4>3. Plan!PlanShapes'
        BY <1>0, <1>n, <2>0, <2>3, <3>0, <4>2 DEF Plan!PlanShapes
      <4>4. QED
        BY <1>0, <1>n, <2>0, <2>3, <3>0, <4>2, <4>3
    <3>3. QED
      BY <3>1, <3>2
  <2>4. QED
    BY <1>18, <2>1, <2>2, <2>3 DEF Plan!PlanAnswered
<1>19. CASE Plan!BackUnpaid
  <2>1. PICK page \in {"billing", "pricing"} : v4' = [Plan!FreshPage EXCEPT !.page = page]
    BY <1>19 DEF Plan!BackUnpaid
  <2>2. v3' = [stage |-> "sent", got |-> Plan!NoCopy, refreshes |-> FALSE]
    BY <1>19, ReadBegun DEF Plan!BackUnpaid
  <2>3. v4' = [page |-> page, signedIn |-> TRUE, dialog |-> {}, starting |-> {}, confirming |-> FALSE, stale |-> FALSE]
    BY <2>1 DEF Plan!FreshPage
  <2>4. v4.page = "provider" /\ UNCHANGED <<v1, v2, v5, v6>>
    BY <1>19 DEF Plan!BackUnpaid
  <2>5. Plan!PlanShapes'
    BY <1>0, <1>n, <2>2, <2>3, <2>4 DEF Plan!PlanShapes, Plan!CatalogPlans
  <2>6. QED
    BY <1>0, <1>n, <2>2, <2>3, <2>4, <2>5
<1>20. CASE Plan!BackPaid
  <2>1. PICK plan \in v4.starting : v5' = [kind |-> "confirm", plan |-> plan, stage |-> "sent", made |-> 0]
    BY <1>20 DEF Plan!BackPaid
  <2>2. v4' = [page |-> "billing", signedIn |-> TRUE, dialog |-> {}, starting |-> {}, confirming |-> TRUE, stale |-> FALSE]
    BY <1>20 DEF Plan!BackPaid, Plan!FreshPage
  <2>3. v3' = [stage |-> "sent", got |-> Plan!NoCopy, refreshes |-> FALSE]
    BY <1>20, ReadBegun DEF Plan!BackPaid
  <2>4. v4.page = "provider" /\ UNCHANGED <<v1, v2, v6>>
    BY <1>20 DEF Plan!BackPaid
  <2>5. Plan!PlanShapes'
    BY <1>0, <1>n, <2>1, <2>2, <2>3, <2>4 DEF Plan!PlanShapes, Plan!CatalogPlans
  <2>6. QED
    BY <1>0, <1>n, <2>1, <2>2, <2>3, <2>4, <2>5
<1>21. QED
  BY <1>1, <1>2, <1>3, <1>4, <1>5, <1>6, <1>7, <1>8, <1>9, <1>10, <1>11, <1>12, <1>14, <1>15, <1>16, <1>17, <1>18,
    <1>19, <1>20 DEF Plan!PlanNext

\* What a person was told of is shown.
LEMMA PlanHolds ==
  ASSUME Plan!PlanInvariant
  PROVE  Plan!ToldIsShown
BY DEF Plan!PlanInvariant

-----------------------------------------------------------------------------
(* HistoryLog: the entries marked as what the project has now have its files. *)
Log == INSTANCE HistoryLog WITH revs <- v1, filesNow <- v2

\* A set of numbers up to n that is not empty has a greatest.
LEMMA LastIsOne ==
  ASSUME NEW n \in Nat, NEW ids, ids \subseteq 1..n, ids # {}
  PROVE  Log!LastRevisionOf(ids) \in ids /\ \A j \in ids : j <= Log!LastRevisionOf(ids)
<1> DEFINE T == {m \in Nat : \A j \in ids : j <= m}
<1>1. T \subseteq Nat /\ T # {}
  <2>1. n \in T
    OBVIOUS
  <2>2. QED
    BY <2>1
<1> HIDE DEF T
<1>2. PICK m \in T : \A y \in T : m <= y
  BY <1>1, LeastNumber
<1>2a. m \in Nat /\ \A j \in ids : j <= m /\ j \in Nat /\ j >= 1
  BY <1>2 DEF T
<1>3. m \in ids
  <2>1. SUFFICES ASSUME m \notin ids PROVE FALSE
    OBVIOUS
  <2>2. \A j \in ids : j <= m - 1
    BY <1>2a, <2>1
  <2>. PICK j : j \in ids
    OBVIOUS
  <2>3. m - 1 \in Nat
    BY <1>2a, <2>2
  <2>4. m - 1 \in T
    BY <2>2, <2>3 DEF T
  <2>5. QED
    BY <1>2, <1>2a, <2>4
<1>4. \E i \in ids : \A j \in ids : j <= i
  BY <1>2, <1>3 DEF T
<1>5. QED
  BY Zenon, <1>4 DEF Log!LastRevisionOf

\* A revision greater than those there are is the last with them.
LEMMA LastIsTheNew ==
  ASSUME NEW n \in Nat, NEW ids, ids \subseteq 1..n
  PROVE  Log!LastRevisionOf(ids \cup {n + 1}) = n + 1
<1> DEFINE more == ids \cup {n + 1}
<1>1. more \subseteq 1..(n + 1) /\ more # {} /\ n + 1 \in more
  OBVIOUS
<1> HIDE DEF more
<1>2. PICK m \in Nat : m = n + 1
  OBVIOUS
<1>3. /\ Log!LastRevisionOf(more) \in more
      /\ \A j \in more : j <= Log!LastRevisionOf(more)
  BY <1>1, <1>2, LastIsOne
<1>4. Log!LastRevisionOf(more) = n + 1
  <2>1. PICK l : l = Log!LastRevisionOf(more)
    OBVIOUS
  <2>2. l \in 1..(n + 1) /\ n + 1 <= l
    BY <1>1, <1>3, <2>1
  <2>3. QED
    BY <2>1, <2>2
<1>5. QED
  BY <1>4 DEF more

\* There is no revision at first.
LEMMA LogInitially ==
  ASSUME Log!LogInit
  PROVE  Log!LogInvariant
<1>1. v1 = <<>> /\ v2 = 0 /\ Len(v1) = 0 /\ Log!AppliedState = {}
  BY DEF Log!LogInit, Log!AppliedState
<1>2. Log!LastRevisionOf({}) = 0
  BY DEF Log!LastRevisionOf
<1>3. Log!LogShapes
  BY <1>1 DEF Log!LogShapes
<1>4. QED
  BY <1>1, <1>2, <1>3 DEF Log!LogInvariant, Log!AppliedAsRecorded, Log!FilesAreOfAChange, Log!RestoresAreApplied, Log!FilesBefore

\* What is kept of the revisions when one is added.
LEMMA RevisionAdded ==
  ASSUME Log!LogInvariant, NEW r, NEW files, Log!AddRevision(r, files),
         r \in [source : Log!Sources \cup {"RESTORE"}, applied : BOOLEAN, parent : Nat, chosen : Nat, before : BOOLEAN, files : Nat],
         r.parent = Log!LastRevisionOf(Log!AppliedState),
         r.applied => r.files = files,
         ~r.applied => files = v2,
         r.source # "RESTORE" /\ r.applied => files = Len(v1) + 1,
         r.source = "RESTORE" => /\ r.applied /\ r.chosen \in Log!AppliedState
                                 /\ files = Log!FilesBefore(IF r.before THEN v1[r.chosen].parent ELSE r.chosen)
  PROVE  Log!LogInvariant'
<1> DEFINE n == Len(v1)
           A == Log!AppliedState
           Rev == [source : Log!Sources \cup {"RESTORE"}, applied : BOOLEAN, parent : Nat, chosen : Nat, before : BOOLEAN, files : Nat]
<1>0. n \in Nat /\ v1 \in Seq(Rev) /\ v1' = Append(v1, r) /\ v2' = files
  BY DEF Log!LogInvariant, Log!LogShapes, Log!AddRevision
<1>1. /\ v1' \in Seq(Rev) /\ Len(v1') = n + 1 /\ v1'[n + 1] = r
      /\ \A i \in 1..n : v1'[i] = v1[i]
  BY <1>0
<1>2. A \subseteq 1..n /\ \A i \in A : v1'[i] = v1[i] /\ i # n + 1 /\ i < n + 1
  BY SMTT(60), <1>0, <1>1 DEF Log!AppliedState
<1>3. Log!AppliedState' = IF r.applied THEN A \cup {n + 1} ELSE A
  BY <1>0, <1>1 DEF Log!AppliedState
<1> HIDE DEF n, A
<1>4. r.parent \in A \cup {0}
  <2>1. CASE A = {}
    BY <2>1 DEF A, Log!LastRevisionOf
  <2>2. CASE A # {}
    BY <1>0, <1>2, <2>2, LastIsOne DEF A
  <2>3. QED
    BY <2>1, <2>2
<1>5. /\ \A i \in A : /\ v1[i].parent \in A \cup {0} /\ v1[i].parent < i
                      /\ v1[i].source # "RESTORE" => v1[i].files = i
                      /\ v1[i].source = "RESTORE" =>
                           /\ v1[i].chosen \in A /\ v1[i].chosen < i
                           /\ v1[i].files = Log!FilesBefore(IF v1[i].before THEN v1[v1[i].chosen].parent ELSE v1[i].chosen)
                      /\ v1[i].files # 0 => v1[i].files \in A /\ v1[v1[i].files].source # "RESTORE"
      /\ \A i \in 1..n : v1[i].source = "RESTORE" => v1[i].applied
      /\ v2 = Log!FilesBefore(Log!LastRevisionOf(A))
  BY DEF Log!LogInvariant, Log!AppliedAsRecorded, Log!FilesAreOfAChange, Log!RestoresAreApplied, A, n
<1>6. \A i \in A \cup {0} : Log!FilesBefore(i)' = Log!FilesBefore(i)
  BY <1>2 DEF Log!FilesBefore
<1>7. \A i \in A \cup {0} : Log!FilesBefore(i) # 0 => Log!FilesBefore(i) \in A /\ v1[Log!FilesBefore(i)].source # "RESTORE"
  BY <1>5 DEF Log!FilesBefore
<1>8. Log!LogShapes'
  BY <1>1 DEF Log!LogShapes
<1>9. ASSUME NEW i \in Log!AppliedState'
      PROVE  /\ v1'[i].parent \in Log!AppliedState' \cup {0} /\ v1'[i].parent < i
             /\ v1'[i].source # "RESTORE" => v1'[i].files = i
             /\ v1'[i].source = "RESTORE" =>
                  /\ v1'[i].chosen \in Log!AppliedState' /\ v1'[i].chosen < i
                  /\ \E at : at = (IF v1'[i].before THEN v1'[v1'[i].chosen].parent ELSE v1'[i].chosen)
                             /\ v1'[i].files = Log!FilesBefore(at)'
             /\ v1'[i].files # 0 => v1'[i].files \in Log!AppliedState' /\ v1'[v1'[i].files].source # "RESTORE"
  <2>1. CASE i \in A
    <3>1. v1'[i] = v1[i]
      BY <1>2, <2>1
    <3>2. v1[i].parent \in Log!AppliedState' \cup {0} /\ v1[i].parent < i /\ (v1[i].source # "RESTORE" => v1[i].files = i)
      BY <1>3, <1>5, <2>1
    <3>3. ASSUME v1[i].source = "RESTORE"
          PROVE  /\ v1[i].chosen \in Log!AppliedState' /\ v1[i].chosen < i
                 /\ \E at : at = (IF v1[i].before THEN v1'[v1[i].chosen].parent ELSE v1[i].chosen)
                            /\ v1[i].files = Log!FilesBefore(at)'
      <4>1. v1[i].chosen \in A /\ v1[i].chosen < i /\ v1'[v1[i].chosen] = v1[v1[i].chosen] /\ v1[v1[i].chosen].parent \in A \cup {0}
        BY <1>2, <1>5, <2>1, <3>3
      <4>. PICK at : at = IF v1[i].before THEN v1[v1[i].chosen].parent ELSE v1[i].chosen
        OBVIOUS
      <4>2. at \in A \cup {0} /\ v1[i].files = Log!FilesBefore(at)
        BY <1>5, <2>1, <3>3, <4>1
      <4>3. Log!FilesBefore(at)' = v1[i].files
        BY <1>6, <4>2
      <4>4. QED
        BY <1>3, <4>1, <4>3
    <3>4. v1[i].files # 0 => v1[i].files \in Log!AppliedState' /\ v1'[v1[i].files].source # "RESTORE"
      BY <1>2, <1>3, <1>5, <2>1
    <3>5. QED
      BY <3>1, <3>2, <3>3, <3>4
  <2>2. CASE i \notin A
    <3>1. i = n + 1 /\ r.applied /\ v1'[i] = r /\ r.files = files
      BY <1>1, <1>3, <2>2
    <3>2. r.parent \in Log!AppliedState' \cup {0} /\ r.parent < i
      BY <1>0, <1>2, <1>3, <1>4, <3>1
    <3>3. CASE r.source # "RESTORE"
      <4>1. r.files = i
        BY <3>1, <3>3 DEF n
      <4>2. QED
        BY <3>1, <3>2, <3>3, <4>1
    <3>4. CASE r.source = "RESTORE"
      <4>1. r.chosen \in A /\ v1'[r.chosen] = v1[r.chosen] /\ v1[r.chosen].parent \in A \cup {0} /\ r.chosen < i
        BY <1>2, <1>5, <3>1, <3>4 DEF A
      <4>. PICK at : at = IF r.before THEN v1[r.chosen].parent ELSE r.chosen
        OBVIOUS
      <4>2. at \in A \cup {0} /\ r.files = Log!FilesBefore(at)
        BY <3>1, <3>4, <4>1
      <4>3. Log!FilesBefore(at)' = r.files
        BY <1>6, <4>2
      <4>4. r.files # 0 => r.files \in A /\ v1[r.files].source # "RESTORE"
        BY <1>7, <4>2
      <4>5. r.files # 0 => r.files \in Log!AppliedState' /\ v1'[r.files].source # "RESTORE"
        BY <1>2, <1>3, <4>4
      <4>6. at = (IF v1'[i].before THEN v1'[v1'[i].chosen].parent ELSE v1'[i].chosen) /\ v1'[i].files = Log!FilesBefore(at)'
        BY <3>1, <4>1, <4>3
      <4>7. v1'[i].chosen \in Log!AppliedState' /\ v1'[i].chosen < i
        BY <1>3, <3>1, <4>1
      <4>8. QED
        BY Zenon, <3>1, <3>2, <3>4, <4>5, <4>6, <4>7
    <3>5. QED
      BY <3>3, <3>4
  <2>3. QED
    BY <2>1, <2>2
<1>10. Log!AppliedAsRecorded' /\ Log!FilesAreOfAChange'
  <2>1. Log!FilesAreOfAChange'
    BY <1>9 DEF Log!FilesAreOfAChange
  <2>2. Log!AppliedAsRecorded'
    BY <1>9 DEF Log!AppliedAsRecorded, Log!FilesBefore
  <2>3. QED
    BY <2>1, <2>2
<1>11. Log!RestoresAreApplied'
  BY <1>0, <1>1, <1>5 DEF Log!RestoresAreApplied
<1>12. v2' = Log!FilesBefore(Log!LastRevisionOf(Log!AppliedState))'
  <2>1. CASE r.applied
    <3>1. Log!LastRevisionOf(Log!AppliedState)' = n + 1
      BY <1>0, <1>2, <1>3, <2>1, LastIsTheNew
    <3>2. n + 1 # 0
      BY <1>0 DEF n
    <3>3. QED
      BY <1>0, <1>1, <2>1, <3>1, <3>2 DEF Log!FilesBefore
  <2>2. CASE ~r.applied
    <3>1. Log!AppliedState' = A
      BY <1>3, <2>2
    <3>2. Log!LastRevisionOf(Log!AppliedState)' = r.parent
      BY <3>1 DEF A
    <3>3. Log!FilesBefore(r.parent)' = Log!FilesBefore(r.parent)
      BY <1>4, <1>6
    <3>4. v2 = Log!FilesBefore(r.parent)
      BY <1>5 DEF A
    <3>5. QED
      BY <1>0, <2>2, <3>2, <3>3, <3>4
  <2>3. QED
    BY <2>1, <2>2
<1>13. QED
  BY <1>8, <1>10, <1>11, <1>12 DEF Log!LogInvariant

\* Every step keeps the invariant.
LEMMA LogStep ==
  ASSUME Log!LogInvariant, [Log!LogNext]_(Log!revVars)
  PROVE  Log!LogInvariant'
<1> DEFINE last == Log!LastRevisionOf(Log!AppliedState)
           Rev == [source : Log!Sources \cup {"RESTORE"}, applied : BOOLEAN, parent : Nat, chosen : Nat, before : BOOLEAN, files : Nat]
<1>0. Len(v1) \in Nat /\ v2 \in Nat /\ last \in Nat /\ \A i \in Log!AppliedState : i \in Nat /\ v1[i].files \in Nat /\ v1[i].parent \in Log!AppliedState \cup {0}
  <2>1. v1 \in Seq(Rev) /\ Len(v1) \in Nat
    BY DEF Log!LogInvariant, Log!LogShapes
  <2>2. Log!AppliedState \subseteq 1..Len(v1) /\ \A i \in Log!AppliedState : v1[i] \in Rev
    <3>2. Log!AppliedState \subseteq 1..Len(v1)
      BY DEF Log!AppliedState
    <3> HIDE DEF Rev
    <3>1. \A i \in 1..Len(v1) : v1[i] \in Rev
      BY <2>1
    <3>3. QED
      BY <3>1, <3>2
  <2>2a. \A i \in Log!AppliedState : i \in Nat /\ v1[i].files \in Nat
    BY <2>1, <2>2
  <2>3. last \in Log!AppliedState \cup {0}
    <3>1. CASE Log!AppliedState = {}
      BY <3>1 DEF Log!LastRevisionOf
    <3>2. CASE Log!AppliedState # {}
      BY <2>1, <2>2, <3>2, LastIsOne
    <3>3. QED
      BY <3>1, <3>2
  <2>4. v2 = Log!FilesBefore(last)
    BY DEF Log!LogInvariant
  <2>5. QED
    <3>1. \A i \in Log!AppliedState : v1[i].parent \in Log!AppliedState \cup {0}
      BY DEF Log!LogInvariant, Log!AppliedAsRecorded
    <3>2. last \in Nat /\ v2 \in Nat
      BY <2>2a, <2>3, <2>4 DEF Log!FilesBefore
    <3>3. QED
      BY <2>1, <2>2a, <3>1, <3>2
<1> HIDE DEF last
<1>1. CASE UNCHANGED Log!revVars
  BY <1>1 DEF Log!revVars, Log!LogInvariant, Log!LogShapes, Log!AppliedAsRecorded, Log!FilesAreOfAChange, Log!RestoresAreApplied,
    Log!FilesBefore, Log!AppliedState
<1>2. CASE Log!Change
  <2>1. PICK source \in Log!Sources, ok \in BOOLEAN :
          Log!AddRevision([source |-> source, applied |-> ok, parent |-> last, chosen |-> 0, before |-> FALSE,
                           files |-> IF ok THEN Len(v1) + 1 ELSE v2], IF ok THEN Len(v1) + 1 ELSE v2)
    BY <1>2 DEF Log!Change, last
  <2>. PICK files : files = IF ok THEN Len(v1) + 1 ELSE v2
    OBVIOUS
  <2>. PICK r : r = [source |-> source, applied |-> ok, parent |-> last, chosen |-> 0, before |-> FALSE, files |-> files]
    OBVIOUS
  <2>2. files \in Nat /\ source # "RESTORE"
    BY <1>0 DEF Log!Sources
  <2>3. r \in Rev
    BY <1>0, <2>2
  <2>4. Log!AddRevision(r, files)
    BY <2>1
  <2>5. r.source # "RESTORE" /\ r.parent = last /\ r.applied = ok /\ r.files = files
    BY <2>2
  <2>6. (ok => files = Len(v1) + 1) /\ (~ok => files = v2)
    OBVIOUS
  <2>7. QED
    BY <2>3, <2>4, <2>5, <2>6, RevisionAdded DEF last
<1>3. ASSUME NEW chosen, NEW before \in BOOLEAN, Log!GoBackTo(chosen, before)
      PROVE  Log!LogInvariant'
  <2>. PICK files : files = IF ~before THEN v1[chosen].files
                            ELSE IF v1[chosen].parent = 0 THEN 0 ELSE v1[v1[chosen].parent].files
    OBVIOUS
  <2>1. chosen \in Log!AppliedState /\ files \in Nat
    BY <1>0, <1>3 DEF Log!GoBackTo
  <2>. PICK r : r = [source |-> "RESTORE", applied |-> TRUE, parent |-> last, chosen |-> chosen, before |-> before, files |-> files]
    OBVIOUS
  <2>2. Log!AddRevision(r, files)
    BY <1>3 DEF Log!GoBackTo, last
  <2>3. r \in Rev
    BY <1>0, <2>1
  <2>4. files = Log!FilesBefore(IF before THEN v1[chosen].parent ELSE chosen)
    BY <1>0, <2>1 DEF Log!FilesBefore, Log!AppliedState
  <2>5. r.source = "RESTORE" /\ r.applied /\ r.parent = last /\ r.chosen = chosen /\ r.before = before /\ r.files = files
    OBVIOUS
  <2>6. QED
    BY <2>1, <2>2, <2>3, <2>4, <2>5, RevisionAdded DEF last
<1>4. CASE Log!GoBack
  BY <1>3, <1>4 DEF Log!GoBack
<1>5. QED
  BY <1>1, <1>2, <1>4 DEF Log!LogNext

\* What the browser takes an entry to have settled on is what it has.
LEMMA SettlesOnItsFiles ==
  ASSUME Log!LogInvariant, NEW id \in Log!AppliedState
  PROVE  Log!SettlesOn(id) = v1[id].files
<1> DEFINE n == Len(v1)
           A == Log!AppliedState
           Of(s) == s = [i \in 0..n |->
                           IF i = 0 \/ v1[i].source # "RESTORE" THEN i
                           ELSE IF ~v1[i].before THEN s[v1[i].chosen]
                           ELSE s[v1[v1[i].chosen].parent]]
           w == [i \in 0..n |-> IF i = 0 \/ v1[i].source # "RESTORE" THEN i ELSE v1[i].files]
           g == CHOOSE s : Of(s)
<1>1. n \in Nat /\ A \subseteq 1..n
  BY DEF Log!LogInvariant, Log!LogShapes, Log!AppliedState
<1>2. /\ \A i \in A : v1[i].parent \in A \cup {0} /\ v1[i].parent < i /\ (v1[i].source # "RESTORE" => v1[i].files = i)
      /\ \A i \in 1..n : v1[i].source = "RESTORE" =>
           /\ i \in A /\ v1[i].chosen \in A /\ v1[i].chosen < i
           /\ v1[i].files = Log!FilesBefore(IF v1[i].before THEN v1[v1[i].chosen].parent ELSE v1[i].chosen)
  BY DEF Log!LogInvariant, Log!AppliedAsRecorded, Log!RestoresAreApplied, Log!AppliedState
<1>3. w[0] = 0 /\ \A i \in A : w[i] = v1[i].files
  BY <1>1, <1>2
<1>4. \A i \in A \cup {0} : w[i] = Log!FilesBefore(i)
  <2> HIDE DEF A, w
  <2>1. 0 \notin A
    BY <1>1
  <2>2. QED
    BY <1>3, <2>1 DEF Log!FilesBefore
<1> DEFINE step(s, i) == IF i = 0 \/ v1[i].source # "RESTORE" THEN i
                           ELSE IF ~v1[i].before THEN s[v1[i].chosen]
                           ELSE s[v1[v1[i].chosen].parent]
<1> HIDE DEF A
<1>5. \A i \in 0..n : w[i] = step(w, i)
  <2>1. SUFFICES ASSUME NEW i \in 0..n, i # 0, v1[i].source = "RESTORE" PROVE w[i] = step(w, i)
    OBVIOUS
  <2>2. w[i] = v1[i].files /\ i \in 1..n
    BY <1>1, <2>1
  <2> HIDE DEF w
  <2>3. v1[i].chosen \in A /\ v1[v1[i].chosen].parent \in A \cup {0}
    BY <1>2, <2>1, <2>2
  <2>4. QED
    BY <1>2, <1>4, <2>1, <2>2, <2>3
<1>6. \E s : Of(s)
  <2>1. w = [i \in 0..n |-> step(w, i)]
    <3>1. w = [i \in 0..n |-> w[i]]
      OBVIOUS
    <3> HIDE DEF w
    <3>2. QED
      BY <1>5, <3>1
  <2>2. Of(w)
    <3> HIDE DEF w
    <3>1. QED
      BY <2>1
  <2> HIDE DEF Of, w
  <2>3. QED
    BY <2>2
<1>7. Of(g)
  BY Zenon, <1>6
<1>8. Log!SettlesOn(id) = g[id]
  BY Zenon DEF Log!SettlesOn
<1>9. \A i \in 0..n : g[i] = step(g, i)
  <2> HIDE DEF g
  <2>1. QED
    BY <1>7
<1> HIDE DEF g, w, Of
<1>10. \A i \in 0..n : g[i] = w[i]
  <2>1. SUFFICES ASSUME NEW j \in 0..n, g[j] # w[j] PROVE FALSE
    OBVIOUS
  <2> DEFINE T == {i \in 0..n : g[i] # w[i]}
  <2>2. T \subseteq Nat /\ T # {}
    BY <1>1, <2>1
  <2> HIDE DEF T
  <2>3. PICK x \in T : \A y \in T : x <= y
    BY <2>2, LeastNumber
  <2>4. x \in 0..n /\ g[x] # w[x] /\ \A y \in 0..n : y < x => g[y] = w[y]
    BY <1>1, <2>3 DEF T
  <2>5. g[x] = step(g, x) /\ w[x] = step(w, x)
    BY <1>5, <1>9, <2>4
  <2>6. x # 0 /\ v1[x].source = "RESTORE"
    BY <2>4, <2>5
  <2>7. /\ v1[x].chosen \in 0..n /\ v1[x].chosen < x
        /\ v1[v1[x].chosen].parent \in 0..n /\ v1[v1[x].chosen].parent < x
    <3>1. x \in 1..n
      BY <1>1, <2>4, <2>6
    <3>. PICK c : c = v1[x].chosen
      OBVIOUS
    <3>2. c \in A /\ c < x /\ c \in 1..n
      BY <1>1, <1>2, <2>6, <3>1
    <3>3. v1[c].parent \in A \cup {0} /\ v1[c].parent < c
      BY <1>2, <3>2
    <3>4. v1[c].parent \in 0..n
      <4>. PICK p : p = v1[c].parent
        OBVIOUS
      <4>1. p \in A \cup {0}
        BY <3>3
      <4>2. p \in 0..n
        BY <1>1, <4>1
      <4>3. QED
        BY <4>2
    <3>5. QED
      BY <1>1, <3>1, <3>2, <3>3, <3>4
  <2>8. QED
    BY <2>4, <2>5, <2>6, <2>7
<1>11. QED
  BY <1>1, <1>3, <1>8, <1>10 DEF A

\* So the entries marked are right.
LEMMA LogHolds ==
  ASSUME Log!LogInvariant
  PROVE  Log!SameAsNowIsTheSame
<1> SUFFICES ASSUME NEW i \in Log!AppliedState
             PROVE  LET mark == IF Log!IsNow(i) THEN "You are here" ELSE IF Log!MatchesCurrent(i) THEN "Same as now" ELSE "Go back"
                    IN  /\ mark # "Go back" => v1[i].files = v2
                        /\ (mark = "Go back" /\ v1[i].source # "RESTORE") => v1[i].files # v2
  <2>1. ASSUME NEW e \in Log!HistoryEntries
        PROVE  \E i \in Log!AppliedState :
                 /\ e.id = i
                 /\ e.mark = IF Log!IsNow(i) THEN "You are here" ELSE IF Log!MatchesCurrent(i) THEN "Same as now" ELSE "Go back"
    <3>1. PICK i \in Log!AppliedState : \E title : e =
            [id |-> i, title |-> title,
             mark |-> IF Log!IsNow(i) THEN "You are here" ELSE IF Log!MatchesCurrent(i) THEN "Same as now" ELSE "Go back"]
      BY Zenon DEF Log!HistoryEntries
    <3>. PICK mark : mark = IF Log!IsNow(i) THEN "You are here" ELSE IF Log!MatchesCurrent(i) THEN "Same as now" ELSE "Go back"
      OBVIOUS
    <3>2. PICK title : e = [id |-> i, title |-> title, mark |-> mark]
      BY <3>1
    <3>3. e.id = i /\ e.mark = mark
      BY <3>2
    <3>4. QED
      BY <3>3
  <2>2. QED
    BY <2>1 DEF Log!SameAsNowIsTheSame
<1> DEFINE last == Log!LastRevisionOf(Log!AppliedState)
<1>1. last \in Log!AppliedState
  <2>1. Len(v1) \in Nat /\ Log!AppliedState \subseteq 1..Len(v1) /\ Log!AppliedState # {}
    BY SMTT(60) DEF Log!LogInvariant, Log!LogShapes, Log!AppliedState
  <2>2. QED
    BY <2>1, LastIsOne
<1>2. 0 \notin Log!AppliedState
  BY DEF Log!AppliedState
<1>3. v2 = v1[last].files
  BY <1>1, <1>2 DEF Log!LogInvariant, Log!FilesBefore
<1>4. Log!SettlesOn(last) = v2
  BY <1>1, <1>3, SettlesOnItsFiles
<1> HIDE DEF last
<1>5. \A j \in Log!AppliedState : v1[j].source # "RESTORE" => v1[j].files = j
  BY DEF Log!LogInvariant, Log!AppliedAsRecorded
<1>6. v2 # 0 => v2 \in Log!AppliedState /\ v1[v2].source # "RESTORE"
  BY <1>1, <1>3 DEF Log!LogInvariant, Log!FilesAreOfAChange
<1>7. CASE Log!IsNow(i)
  BY <1>3, <1>7 DEF Log!IsNow, last
<1>8. CASE ~Log!IsNow(i) /\ Log!MatchesCurrent(i)
  <2>1. v2 = i
    BY <1>4, <1>8 DEF Log!MatchesCurrent, last
  <2>2. QED
    BY <1>2, <1>5, <1>6, <1>8, <2>1
<1>9. CASE ~Log!IsNow(i) /\ ~Log!MatchesCurrent(i)
  <2>1. v2 # i
    BY <1>4, <1>9 DEF Log!MatchesCurrent, last
  <2>2. QED
    BY <1>5, <1>9, <2>1
<1>10. QED
  BY <1>7, <1>8, <1>9

-----------------------------------------------------------------------------
(* SecurityPage: the page lists an app exactly when the account has one. *)
Security == INSTANCE SecurityPage WITH enrolled <- v1, managings <- v2,
  manager <- v3, knownFactors <- v4, listed <- v5, setup <- v6,
  newPassword <- v7, isRemoving <- v8, changes <- v9, secChangesMade <- v10,
  activity <- v11, ending <- v12, misled <- v13

\* The page manages with nobody at first.
LEMMA SecurityInitially ==
  ASSUME Security!SecurityInit, MaxManagings \in Nat
  PROVE  Security!SecurityInvariant
BY DEF Security!SecurityInit, Security!SecurityInvariant, Security!SecurityShapes, Security!FormClosed, Security!Changes, Security!Forms

\* A change under way that goes on is still of whom and of what it was.
LEMMA ChangeGoesOn ==
  ASSUME Security!SecurityShapes, NEW c \in v9, NEW to \in {"change", "renew"}
  PROVE  \E d \in Security!Changes :
           d = [c EXCEPT !.stage = to] /\ d.by = c.by /\ d.kind = c.kind /\ d.stage = to
<1>1. c \in Security!Changes
  BY DEF Security!SecurityShapes
<1>. PICK d : d = [c EXCEPT !.stage = to]
  OBVIOUS
<1>2. d = [n |-> c.n, kind |-> c.kind, by |-> c.by, form |-> c.form, stage |-> to]
  BY <1>1 DEF Security!Changes
<1>3. d \in Security!Changes
  BY <1>1, <1>2 DEF Security!Changes
<1>4. d.by = c.by /\ d.kind = c.kind /\ d.stage = to
  BY <1>2
<1>5. QED
  BY <1>3, <1>4

\* Every step of the page and of Firebase keeps the invariant.
LEMMA SecurityStep ==
  ASSUME Security!SecurityInvariant, MaxManagings \in Nat, [Security!SecurityNext]_(Security!securityVars)
  PROVE  Security!SecurityInvariant'
<1>0. Security!SecurityShapes
  BY DEF Security!SecurityInvariant
<1> USE DEF Security!SecurityInvariant, Security!Changes, Security!Forms, Security!SecurityShapes, Security!KnowsTheApp, Security!ListsWhatItKnows, Security!Renewing
<1>1. CASE UNCHANGED Security!securityVars
  BY <1>1 DEF Security!securityVars
<1>2. CASE Security!Confirmed
  <2>0. /\ v3 = 0 /\ v2 < MaxManagings /\ v2' = v2 + 1 /\ v3' = v2 + 1 /\ v5' = v1 /\ v4' = [v4 EXCEPT ![v2 + 1] = v1]
        /\ UNCHANGED <<v1, v6, v7, v9, v10>>
    BY <1>2 DEF Security!Confirmed, Security!ManageOffered
  <2>1. v2 + 1 \in 1..MaxManagings
    BY <2>0
  <2>2. v4' \in [1..MaxManagings -> BOOLEAN] /\ v4'[v2 + 1] = v1
    BY <2>0, <2>1
  <2>3. QED
    BY <2>0, <2>1, <2>2
<1>3. CASE Security!Done
  BY <1>3 DEF Security!Done, Security!FormClosed
<1>4. CASE Security!OpenSetup \/ Security!OpenPassword
  <2>1. Security!NewForm \in Nat
    BY DEF Security!NewForm
  <2>2. QED
    BY SMTT(60), <1>4, <2>1 DEF Security!OpenSetup, Security!OpenPassword, Security!pageOnly
<1>5. CASE Security!SecretReady
  BY <1>5 DEF Security!SecretReady, Security!pageOnly
<1>6. CASE Security!CancelSetup
  BY <1>6 DEF Security!CancelSetup, Security!FormClosed, Security!pageOnly
<1>7. ASSUME NEW kind \in {"enroll", "remove", "password"}, NEW form \in Nat, NEW stage \in {"change", "policy"}, Security!AskForChange(kind, form, stage)
      PROVE  /\ v9' \subseteq Security!Changes /\ v9 \subseteq v9' /\ v10' \in Nat
             /\ \A d \in v9' : d \in v9 \/ d.stage # "renew"
  BY SMTT(60), <1>7 DEF Security!AskForChange
<1>8. CASE Security!TurnOn
  <2>1. Security!AskForChange("enroll", v6.form, "change") /\ v6.form \in Nat
    BY <1>8 DEF Security!TurnOn
  <2>2. QED
    BY <1>7, <1>8, <2>1 DEF Security!TurnOn, Security!pageOnly
<1>9. CASE Security!RemoveApp
  <2>1. Security!AskForChange("remove", 0, "change")
    BY <1>9 DEF Security!RemoveApp
  <2>2. QED
    BY <1>7, <1>9, <2>1 DEF Security!RemoveApp, Security!pageOnly
<1>10. CASE Security!SubmitPassword
  <2>1. Security!AskForChange("password", v7.form, "policy") /\ v7.form \in Nat
    BY <1>10 DEF Security!SubmitPassword
  <2>2. QED
    BY <1>7, <1>10, <2>1 DEF Security!SubmitPassword, Security!pageOnly
<1>11. CASE Security!SignOutEverywhere \/ Security!EveryoneOut \/ Security!ActivityRead
  BY <1>11 DEF Security!SignOutEverywhere, Security!EveryoneOut, Security!ActivityRead, Security!pageOnly
<1>12. ASSUME NEW c \in v9, Security!NewPasswordAllowed(c)
       PROVE  Security!SecurityInvariant'
  <2>0. c.stage = "policy" /\ UNCHANGED <<v1, v2, v3, v4, v5, v6, v10, v13>>
    BY <1>12 DEF Security!NewPasswordAllowed, Security!pageOnly
  <2>1. CASE v9' = v9 \ {c} /\ UNCHANGED v7
    BY <2>0, <2>1
  <2>2. CASE v9' = (v9 \ {c}) \cup {[c EXCEPT !.stage = "change"]} /\ v7' = Security!Stage(v7, c.form, "saving")
    <3>1. v7' \in Security!Forms
      BY <2>2 DEF Security!Stage
    <3>2. PICK d \in Security!Changes : d = [c EXCEPT !.stage = "change"] /\ d.stage = "change"
      BY <1>0, ChangeGoesOn
    <3>3. QED
      BY <2>0, <2>2, <3>1, <3>2
  <2>3. QED
    BY <1>12, <2>1, <2>2 DEF Security!NewPasswordAllowed
<1>13. ASSUME NEW c \in v9, Security!MadeAtFirebase(c)
       PROVE  Security!SecurityInvariant'
  <2>0. /\ c.stage = "change" /\ UNCHANGED <<v2, v3, v5, v6, v7, v10, v13>>
        /\ v9' = (v9 \ {c}) \cup {[c EXCEPT !.stage = "renew"]}
        /\ v1' = (IF c.kind = "password" THEN v1 ELSE c.kind = "enroll")
        /\ v4' = (IF c.kind = "password" THEN v4 ELSE [v4 EXCEPT ![c.by] = v1'])
    BY <1>13 DEF Security!MadeAtFirebase
  <2>1. v1' \in BOOLEAN /\ v4' \in [1..MaxManagings -> BOOLEAN]
    BY <2>0
  <2>. PICK d \in Security!Changes : d = [c EXCEPT !.stage = "renew"] /\ d.by = c.by /\ d.kind = c.kind /\ d.stage = "renew"
    BY <1>0, ChangeGoesOn
  <2>1a. v9' = (v9 \ {c}) \cup {d}
    BY <2>0
  <2>2. CASE c.kind = "password"
    BY <2>0, <2>1a, <2>2
  <2>3. CASE c.kind # "password"
    <3>1. d \in v9'
      BY <2>1a
    <3>2. v9' \subseteq Security!Changes
      BY <2>1a
    <3>3. v3 \in 1..MaxManagings \/ v3 = 0
      OBVIOUS
    <3>4. CASE c.by = v3 /\ v3 # 0
      BY <2>0, <2>1, <2>3, <3>1, <3>2, <3>3, <3>4
    <3>5. CASE c.by # v3
      <4>1. v4'[v3] = v4[v3] \/ v3 = 0
        BY <2>0, <2>3, <3>3, <3>5
      <4>2. \A e \in v9 : Security!Renewing(e) => e \in v9'
        BY <2>0 DEF Security!Renewing
      <4>3. QED
        BY <2>0, <2>1, <2>3, <3>1, <3>2, <3>5, <4>1, <4>2
    <3>6. CASE v3 = 0
      BY <2>0, <2>1, <3>2, <3>6
    <3>7. QED
      BY <3>4, <3>5, <3>6
  <2>4. QED
    BY <2>2, <2>3
<1>14. ASSUME NEW c \in v9, Security!Renewed(c)
       PROVE  Security!SecurityInvariant'
  <2>0. /\ c.stage = "renew" /\ UNCHANGED <<v1, v2, v3, v4, v10>> /\ v9' = v9 \ {c}
        /\ v13' = (v13 \/ c.by # v3) /\ v5' = v4[c.by]
        /\ v6' = Security!FormClosed /\ v7' = Security!FormClosed
    BY <1>14 DEF Security!Renewed, Security!Finished, Security!AfterChange
  <2>1. Security!SecurityShapes'
    BY <2>0 DEF Security!FormClosed
  <2>2. ASSUME v3 # 0, ~v13'
        PROVE  Security!KnowsTheApp' /\ Security!ListsWhatItKnows'
    <3>1. ~v13 /\ c.by = v3
      BY <2>0, <2>2
    <3>2. Security!ListsWhatItKnows'
      BY <2>0, <3>1
    <3>3. Security!KnowsTheApp'
      BY <2>0, <2>2, <3>1
    <3>4. QED
      BY <3>2, <3>3
  <2>3. QED
    BY <2>0, <2>1, <2>2
<1>15. ASSUME NEW c \in v9, Security!ChangeFailed(c)
       PROVE  Security!SecurityInvariant'
  <2>0. /\ c.stage \in {"change", "renew"} /\ UNCHANGED <<v1, v2, v3, v4, v5, v10>> /\ v9' = v9 \ {c}
        /\ v13' = (v13 \/ (c.stage = "renew" /\ c.kind # "password"))
    BY <1>15 DEF Security!ChangeFailed, Security!Finished
  <2>1. v6' \in Security!Forms /\ v7' \in Security!Forms
    BY <1>15 DEF Security!ChangeFailed, Security!Stage
  <2>2. Security!SecurityShapes'
    BY <2>0, <2>1
  <2>3. ~v13' => ~v13 /\ \A d \in v9 : Security!Renewing(d) => d \in v9'
    BY <2>0
  <2>4. QED
    BY <2>0, <2>2, <2>3
<1>16. QED
  BY <1>1, <1>2, <1>3, <1>4, <1>5, <1>6, <1>8, <1>9, <1>10, <1>11, <1>12, <1>13, <1>14, <1>15 DEF Security!SecurityNext

\* So the list is right, but for a change under way or gone amiss.
LEMMA SecurityHolds ==
  ASSUME Security!SecurityInvariant
  PROVE  Security!ListedIsEnrolled
BY DEF Security!SecurityInvariant, Security!KnowsTheApp, Security!ListsWhatItKnows, Security!Renewing, Security!ListedIsEnrolled

-----------------------------------------------------------------------------
(* ChatScroll: the key that goes up the chat goes up. *)
Scroll == INSTANCE ChatScroll WITH role <- v1, loading <- v2,
  streaming <- v3, quota <- v4, kinds <- v5, draft <- v6, top <- v7,
  goal <- v8, pinned <- v9, active <- v10, jumping <- v11, position <- v12,
  toLatest <- v13, highlighted <- v14, rail <- v15, unfolded <- v16,
  copiedMessage <- v17, mode <- v18, presses <- v19, interrupted <- v20

\* The chat opens at its end, empty.
LEMMA ScrollInitially ==
  ASSUME Scroll!ScrollInit
  PROVE  Scroll!ScrollInvariant
<1>1. v9 \in BOOLEAN /\ v11 \in BOOLEAN /\ v20 \in BOOLEAN /\ ~v11
  BY Zenon DEF Scroll!ScrollInit
<1>2. v5 = <<>> /\ v7 = 0 /\ v8 = -1 /\ v10 = -1
  BY DEF Scroll!ScrollInit, Scroll!Nowhere
<1>3. QED
  BY <1>1, <1>2 DEF Scroll!ScrollInvariant, Scroll!KnowsTheTarget, Scroll!JumpHasATarget,
       Scroll!FollowsToTheEnd, Scroll!Nowhere, Scroll!Count, Scroll!Bottom

\* A conversation has a message.
LEMMA ConversationHasMessages ==
  ASSUME Scroll!BodyShows = "conversation"
  PROVE  Scroll!Count > 0
BY DEF Scroll!BodyShows

\* The message nearest to the top of the view starts at it or above, unless it is the last.
LEMMA NearestIsAMessage ==
  ASSUME Scroll!ScrollInvariant, Scroll!Count > 0
  PROVE  /\ Scroll!NearestUserMessage \in 0..(Scroll!Count - 1)
         /\ 2 * Scroll!NearestUserMessage <= v7
<1>1. Scroll!Count \in Nat /\ v7 \in Nat
  BY DEF Scroll!ScrollInvariant, Scroll!Count, Scroll!Bottom
<1>2. v7 \div 2 \in Nat /\ 2 * (v7 \div 2) <= v7
  BY <1>1
<1>3. QED
  BY <1>1, <1>2 DEF Scroll!NearestUserMessage, Scroll!NearestTo


\* What does not move the view or the jump keeps the invariant.
LEMMA PlaceKeeps ==
  ASSUME Scroll!ScrollInvariant, UNCHANGED <<v5, v7, v8, v9, v10, v11, v20>>
  PROVE  Scroll!ScrollInvariant'
BY DEF Scroll!ScrollInvariant, Scroll!KnowsTheTarget, Scroll!JumpHasATarget, Scroll!FollowsToTheEnd, Scroll!Count,
       Scroll!Bottom, Scroll!TopOf

\* A jump to a message heads for it, and is not broken off yet.
LEMMA JumpKeeps ==
  ASSUME Scroll!ScrollInvariant, NEW i \in 0..(Scroll!Count - 1), Scroll!ScrollToUserMessage(i), v5' = v5, v20' = FALSE
  PROVE  Scroll!ScrollInvariant'
<1>1. v9' \in BOOLEAN /\ v11' \in BOOLEAN /\ v20' \in BOOLEAN /\ ~v9' /\ v11' /\ ~v20'
  BY Zenon DEF Scroll!ScrollToUserMessage
<1>2. QED
  BY <1>1 DEF Scroll!ScrollInvariant, Scroll!KnowsTheTarget, Scroll!JumpHasATarget, Scroll!FollowsToTheEnd, Scroll!Count,
       Scroll!Bottom, Scroll!TopOf, Scroll!Nowhere, Scroll!ScrollToUserMessage

\* So does a jump to the end.
LEMMA ToLatestKeeps ==
  ASSUME Scroll!ScrollInvariant, Scroll!ScrollToLatest, v5' = v5, v20' = FALSE
  PROVE  Scroll!ScrollInvariant'
<1>1. v9' \in BOOLEAN /\ v11' \in BOOLEAN /\ v20' \in BOOLEAN /\ v9' /\ v11' /\ ~v20'
  BY Zenon DEF Scroll!ScrollToLatest
<1>2. QED
  BY <1>1 DEF Scroll!ScrollInvariant, Scroll!KnowsTheTarget, Scroll!JumpHasATarget, Scroll!FollowsToTheEnd, Scroll!Count,
       Scroll!Bottom, Scroll!TopOf, Scroll!Nowhere, Scroll!ScrollToLatest

\* A message that joins breaks off the jump under way; the view follows it or stays.
LEMMA JoinKeeps ==
  ASSUME Scroll!ScrollInvariant, NEW kind \in Kinds \cup {"short"}, Scroll!Joins(kind),
         Scroll!FollowsTheEnd \/ (~v9 /\ UNCHANGED <<v7, v8, v9>>)
  PROVE  Scroll!ScrollInvariant'
<1> USE DEF Scroll!ScrollInvariant, Scroll!Nowhere
<1>1. v5' \in Seq(Kinds \cup {"short"}) /\ Len(v5') = Len(v5) + 1 /\ Len(v5) \in Nat
  BY DEF Scroll!Joins
<1>2. v20' \in BOOLEAN /\ v11' \in BOOLEAN /\ v9' \in BOOLEAN
  BY Zenon DEF Scroll!Joins, Scroll!FollowsTheEnd
<1>3. ~v20' => ~v20 /\ v8 = -1
  BY Zenon DEF Scroll!Joins
<1>4. CASE Scroll!FollowsTheEnd
  BY <1>1, <1>2, <1>3, <1>4 DEF Scroll!KnowsTheTarget, Scroll!JumpHasATarget, Scroll!FollowsToTheEnd, Scroll!Count,
       Scroll!Bottom, Scroll!TopOf, Scroll!Joins, Scroll!FollowsTheEnd
<1>5. CASE ~v9 /\ UNCHANGED <<v7, v8, v9>>
  BY <1>1, <1>2, <1>3, <1>5 DEF Scroll!KnowsTheTarget, Scroll!JumpHasATarget, Scroll!FollowsToTheEnd, Scroll!Count,
       Scroll!Bottom, Scroll!TopOf, Scroll!Joins
<1>6. QED
  BY <1>4, <1>5

\* Where the next jump up leads: to a message.
LEMMA UpIsAMessage ==
  ASSUME Scroll!ScrollInvariant, Scroll!Count > 0
  PROVE  /\ Scroll!TargetUp \in Int /\ Scroll!TargetUp < Scroll!Count
         /\ Scroll!TargetUp >= -1
<1>1. Scroll!Count \in Nat
  BY DEF Scroll!ScrollInvariant, Scroll!Count
<1>2. Scroll!NearestUserMessage \in 0..(Scroll!Count - 1)
  BY NearestIsAMessage
<1>3. Scroll!Standing \in -1..Scroll!Count
  BY <1>1 DEF Scroll!ScrollInvariant, Scroll!Standing, Scroll!Nowhere
<1>4. QED
  BY <1>1, <1>2, <1>3 DEF Scroll!TargetUp, Scroll!Nowhere

\* Every step of the chat panel keeps the invariant.
LEMMA ScrollStep ==
  ASSUME Scroll!ScrollInvariant, [Scroll!ScrollNext]_(Scroll!chatVars)
  PROVE  Scroll!ScrollInvariant'
<1> USE DEF Scroll!paneVars, Scroll!pressVars, Scroll!placeVars
<1>1. CASE UNCHANGED Scroll!chatVars
  BY <1>1, PlaceKeeps DEF Scroll!chatVars
<1>2. CASE Scroll!UserScrolls
  BY <1>2 DEF Scroll!UserScrolls, Scroll!HandleScroll, Scroll!ScrollInvariant, Scroll!KnowsTheTarget, Scroll!JumpHasATarget,
       Scroll!FollowsToTheEnd, Scroll!Count, Scroll!Bottom, Scroll!TopOf, Scroll!Nowhere
<1>3. CASE Scroll!SmoothStep
  BY <1>3 DEF Scroll!SmoothStep, Scroll!HandleScroll, Scroll!ScrollInvariant, Scroll!KnowsTheTarget, Scroll!JumpHasATarget,
       Scroll!FollowsToTheEnd, Scroll!Count, Scroll!Bottom, Scroll!TopOf, Scroll!Nowhere
<1>4. CASE Scroll!ScrollEnd
  BY <1>4 DEF Scroll!ScrollEnd, Scroll!ScrollInvariant, Scroll!KnowsTheTarget, Scroll!JumpHasATarget,
       Scroll!FollowsToTheEnd, Scroll!Count, Scroll!Bottom, Scroll!TopOf, Scroll!Nowhere
<1>5. CASE Scroll!JumpTimesOut \/ Scroll!HoldWhenSomethingIsOpened
  <2>1. /\ v9' = v9 \/ (v9' \in BOOLEAN /\ ~v9')
        /\ v11' = v11 \/ (v11' \in BOOLEAN /\ ~v11')
        /\ UNCHANGED <<v5, v7, v8, v10, v20>>
    BY Zenon, <1>5 DEF Scroll!JumpTimesOut, Scroll!HoldWhenSomethingIsOpened
  <2>2. QED
    BY <2>1 DEF Scroll!ScrollInvariant, Scroll!KnowsTheTarget, Scroll!JumpHasATarget, Scroll!FollowsToTheEnd,
       Scroll!Count, Scroll!Bottom, Scroll!TopOf, Scroll!Nowhere
<1>6. CASE Scroll!JumpUp
  <2>1. Scroll!Count > 0 /\ Scroll!Count \in Nat
    BY <1>6, ConversationHasMessages DEF Scroll!JumpUp, Scroll!ScrollInvariant, Scroll!Count
  <2>2. PICK i \in 0..(Scroll!Count - 1) : Scroll!ScrollToUserMessage(i)
    BY <1>6, <2>1, UpIsAMessage DEF Scroll!JumpUp
  <2>3. v5' = v5 /\ v20' = FALSE
    BY <1>6 DEF Scroll!JumpUp
  <2>4. QED
    BY Zenon, <2>2, <2>3, JumpKeeps
<1>7. CASE Scroll!JumpDown
  <2>1. Scroll!Count > 0 /\ Scroll!Count \in Nat
    BY <1>7, ConversationHasMessages DEF Scroll!JumpDown, Scroll!ScrollInvariant, Scroll!Count
  <2>2. Scroll!TargetDown \in Nat
    BY <2>1, NearestIsAMessage DEF Scroll!TargetDown, Scroll!Standing, Scroll!ScrollInvariant, Scroll!Nowhere
  <2>3. Scroll!ScrollToLatest \/ \E i \in 0..(Scroll!Count - 1) : Scroll!ScrollToUserMessage(i)
    BY <1>7, <2>1, <2>2 DEF Scroll!JumpDown
  <2>4. v5' = v5 /\ v20' = FALSE
    BY <1>7 DEF Scroll!JumpDown
  <2>5. QED
    BY Zenon, <2>3, <2>4, JumpKeeps, ToLatestKeeps
<1>8. CASE Scroll!PressToLatest
  BY <1>8, ToLatestKeeps DEF Scroll!PressToLatest
<1>9. CASE Scroll!PickFromRail
  BY <1>9, JumpKeeps DEF Scroll!PickFromRail, Scroll!Messages
<1>10. CASE Scroll!HandleChatSubmit
  BY <1>10, JoinKeeps DEF Scroll!HandleChatSubmit
<1>11. CASE Scroll!SendAnswer
  BY <1>11, JoinKeeps DEF Scroll!SendAnswer
<1>12. CASE \E i \in Scroll!Messages : Scroll!ToggleMessage(i)
  <2>1. v9' \in BOOLEAN /\ ~v9' /\ UNCHANGED <<v5, v7, v8, v10, v11, v20>>
    BY Zenon, <1>12 DEF Scroll!ToggleMessage
  <2>2. QED
    BY <2>1 DEF Scroll!ScrollInvariant, Scroll!KnowsTheTarget, Scroll!JumpHasATarget, Scroll!FollowsToTheEnd,
       Scroll!Count, Scroll!Bottom, Scroll!TopOf
<1>13. CASE Scroll!ClearChat
  <2>1. v5' = <<>> /\ v7' = 0 /\ v8' = -1 /\ v10' = -1 /\ UNCHANGED <<v9, v11, v20>>
    BY <1>13 DEF Scroll!ClearChat, Scroll!Nowhere
  <2>2. QED
    BY <2>1 DEF Scroll!ScrollInvariant, Scroll!KnowsTheTarget, Scroll!JumpHasATarget, Scroll!FollowsToTheEnd,
       Scroll!Count, Scroll!Bottom, Scroll!TopOf, Scroll!Nowhere
<1>14. CASE Scroll!HighlightEnds \/ Scroll!HistoryArrives \/ Scroll!TurnEnds \/ Scroll!FillComposer \/ Scroll!Copy
            \/ Scroll!CopyFeedbackEnds \/ Scroll!OpenRail \/ Scroll!LeaveRail \/ Scroll!CloseDelayEnds
            \/ Scroll!OpenModeMenu \/ Scroll!ChooseChatMode \/ Scroll!ChooseLevel
  BY <1>14, PlaceKeeps DEF Scroll!HighlightEnds, Scroll!HistoryArrives, Scroll!TurnEnds, Scroll!FillComposer, Scroll!Copy,
       Scroll!CopyFeedbackEnds, Scroll!OpenRail, Scroll!LeaveRail, Scroll!CloseDelayEnds, Scroll!OpenModeMenu,
       Scroll!ChooseChatMode, Scroll!ChooseLevel
<1>15. QED
  BY <1>1, <1>2, <1>3, <1>4, <1>5, <1>6, <1>7, <1>8, <1>9, <1>10, <1>11, <1>12, <1>14, <1>13 DEF Scroll!ScrollNext

\* A jump up heads for no later message than the reader was at or heading for.
LEMMA UpGoesUp ==
  ASSUME Scroll!ScrollInvariant
  PROVE  Scroll!UpGoesUp
<1> SUFFICES ASSUME Scroll!JumpUp, ~v20 PROVE v8' <= Scroll!Whereabouts
  BY DEF Scroll!UpGoesUp
<1> USE DEF Scroll!ScrollInvariant, Scroll!Nowhere, Scroll!Bottom, Scroll!TopOf
<1>1. Scroll!Count > 0 /\ Scroll!Count \in Nat
  BY ConversationHasMessages DEF Scroll!JumpUp, Scroll!Count
<1>2. v8' = 2 * (IF Scroll!TargetUp < 0 THEN 0 ELSE Scroll!TargetUp)
  BY DEF Scroll!JumpUp, Scroll!ScrollToUserMessage
<1>3. Scroll!NearestUserMessage \in 0..(Scroll!Count - 1) /\ 2 * Scroll!NearestUserMessage <= v7
  BY <1>1, NearestIsAMessage
<1>4. Scroll!Whereabouts \in Nat /\ (v8 = -1 => Scroll!Whereabouts = v7) /\ (v8 # -1 => Scroll!Whereabouts >= v8)
      /\ (~v11 => Scroll!Whereabouts >= v7)
  BY DEF Scroll!Whereabouts
<1>5. CASE v10 # -1
  BY <1>1, <1>2, <1>4, <1>5 DEF Scroll!TargetUp, Scroll!Standing, Scroll!KnowsTheTarget
<1>6. CASE v10 = -1 /\ v9
  BY <1>1, <1>2, <1>4, <1>6 DEF Scroll!TargetUp, Scroll!Standing, Scroll!FollowsToTheEnd
<1>7. CASE v10 = -1 /\ ~v9
  BY <1>1, <1>2, <1>3, <1>4, <1>7 DEF Scroll!TargetUp, Scroll!Standing, Scroll!JumpHasATarget
<1>8. QED
  BY <1>5, <1>6, <1>7

-----------------------------------------------------------------------------
(* ChatReveal: nothing of a tag of which only half has come is shown.      *)
Reveal == INSTANCE ChatReveal WITH turnText <- v1, writing <- v2,
  wrote <- v3, sent <- v4, got <- v5, isArriving <- v6, instantUpTo <- v7,
  awaitingBacklog <- v8, reveal <- v9, revealKept <- v10, rewound <- v11,
  restarts <- v12

\* The first of some positions is one of them, unless there is none.
LEMMA FirstIsOneOfThem ==
  ASSUME NEW T, T \subseteq Nat, NEW otherwise
  PROVE  Reveal!FirstOf(T, otherwise) \in T \cup {otherwise}
<1>1. CASE T = {}
  BY Zenon, <1>1 DEF Reveal!FirstOf
<1>2. CASE T # {}
  <2>1. PICK x \in T : \A y \in T : x <= y
    BY <1>2, LeastNumber
  <2>2. PICK b : b = CHOOSE i \in T : \A j \in T : i <= j
    OBVIOUS
  <2>3. b \in T
    BY Zenon, <2>1, <2>2
  <2>4. Reveal!FirstOf(T, otherwise) = b
    BY Zenon, <1>2, <2>2 DEF Reveal!FirstOf, Reveal!Least
  <2>5. QED
    BY Zenon, <2>3, <2>4
<1>3. QED
  BY Zenon, <1>1, <1>2

\* So is the last of them.
LEMMA LastIsOneOfThem ==
  ASSUME NEW n \in Nat, NEW T, T \subseteq 0..n, NEW otherwise
  PROVE  Reveal!LastOf(T, otherwise) \in T \cup {otherwise}
<1>1. CASE T = {}
  BY Zenon, <1>1 DEF Reveal!LastOf
<1>2. CASE T # {}
  <2> DEFINE fromTheEnd == {n - x : x \in T}
  <2>1. fromTheEnd \subseteq Nat /\ fromTheEnd # {}
    <3>1. PICK x \in T : TRUE
      BY <1>2
    <3>2. n - x \in fromTheEnd
      BY <3>1
    <3>3. \A x1 \in T : n - x1 \in Nat
      OBVIOUS
    <3>4. QED
      BY <3>2, <3>3
  <2>2. PICK m \in fromTheEnd : \A y \in fromTheEnd : m <= y
    BY <2>1, LeastNumber
  <2>3. PICK x \in T : m = n - x
    BY <2>2
  <2>4. \A y \in T : y <= x
    <3> TAKE y \in T
    <3>1. n - x <= n - y
      BY <2>2, <2>3
    <3>2. QED
      BY <3>1
  <2>5. PICK b : b = CHOOSE i \in T : \A j \in T : j <= i
    OBVIOUS
  <2>6. b \in T
    BY Zenon, <2>4, <2>5
  <2>7. Reveal!LastOf(T, otherwise) = b
    BY Zenon, <1>2, <2>5 DEF Reveal!LastOf, Reveal!Greatest
  <2>8. QED
    BY Zenon, <2>6, <2>7
<1>3. QED
  BY Zenon, <1>1, <1>2

\* The positions after i and before k.
LEMMA BetweenPositions ==
  ASSUME NEW n \in Nat, NEW i \in 1..n, NEW k \in 1..(n + 1)
  PROVE  (i + 1)..(k - 1) \subseteq 0..n
OBVIOUS

\* A block closes at a position of the text, or at 0: not yet.
LEMMA ClosesInTheText ==
  ASSUME NEW U, NEW text \in Seq(U), NEW i \in 1..Len(text)
  PROVE  Reveal!CloseOf(text, i) \in 0..Len(text)
<1> PICK n \in Nat : n = Len(text)
  BY LenProperties
<1>0. n \in Nat /\ i \in 1..n
  OBVIOUS
<1>1. Reveal!Opens(text) \subseteq 1..n
  BY LenProperties DEF Reveal!Opens
<1>2. Reveal!PlainClose(text, i) \in 0..n
  <2> PICK S : S = {j \in Reveal!Opens(text) : j > i}
    OBVIOUS
  <2> PICK next : next = Reveal!FirstOf(S, n + 1)
    OBVIOUS
  <2>1. S \subseteq 1..n /\ S \subseteq Nat
    BY <1>1
  <2>2. next \in S \cup {n + 1}
    BY <2>1, FirstIsOneOfThem
  <2>3. next \in 1..(n + 1)
    BY <2>1, <2>2
  <2> PICK T : T = Reveal!Closes(text, text[i].tag, i + 1, next - 1)
    OBVIOUS
  <2>4. T \subseteq (i + 1)..(next - 1)
    BY Zenon DEF Reveal!Closes
  <2>5. T \subseteq 0..n
    <3>1. (i + 1)..(next - 1) \subseteq 0..n
      BY <1>0, <2>3, BetweenPositions
    <3>2. QED
      BY Zenon, <2>4, <3>1
  <2>6. Reveal!LastOf(T, 0) \in T \cup {0}
    BY Zenon, <2>5, LastIsOneOfThem
  <2>7. Reveal!PlainClose(text, i) = Reveal!LastOf(T, 0)
    BY Zenon DEF Reveal!PlainClose
  <2>8. QED
    BY <2>5, <2>6, <2>7
<1>3. Reveal!OpaqueClose(text, i) \in 0..n
  <2> PICK S : S = {j \in Reveal!Opens(text) : j > i /\ Reveal!IsOpaque(text[j].tag)}
    OBVIOUS
  <2> PICK next : next = Reveal!NextOpaqueStart(text, i)
    OBVIOUS
  <2>1. S \subseteq 1..n /\ S \subseteq Nat
    BY <1>1
  <2>2. next = Reveal!FirstOf(S, n + 1)
    BY Zenon DEF Reveal!NextOpaqueStart
  <2>3. next \in S \cup {n + 1}
    BY <2>1, <2>2, FirstIsOneOfThem
  <2>4. next \in 1..(n + 1)
    BY <2>1, <2>3
  <2> PICK T : T = Reveal!Closes(text, text[i].tag, i + 1, next - 1)
    OBVIOUS
  <2>5. T \subseteq (i + 1)..(next - 1)
    BY Zenon DEF Reveal!Closes
  <2>6. T \subseteq 0..n
    BY <2>4, <2>5
  <2> PICK last : last = Reveal!LastOf(T, 0)
    OBVIOUS
  <2>7. last \in T \cup {0}
    BY Zenon, <2>6, LastIsOneOfThem
  <2> PICK followed : followed = {c \in T : \E d \in T :
                      /\ d > c /\ \A e \in T : e <= c \/ e >= d
                      /\ Reveal!HasOpenBetween(text, c + 1, d)}
    OBVIOUS
  <2>8. followed \subseteq T /\ followed \subseteq Nat
    BY <2>6
  <2>9. Reveal!FirstOf(followed, last) \in followed \cup {last}
    BY Zenon, <2>8, FirstIsOneOfThem
  <2>10. Reveal!OpaqueClose(text, i) = Reveal!FirstOf(followed, last)
    BY Zenon DEF Reveal!OpaqueClose
  <2>11. QED
    BY <2>6, <2>7, <2>8, <2>9, <2>10
<1>4. QED
  BY Zenon, <1>2, <1>3 DEF Reveal!CloseOf

\* What a reading of the text has found: blocks at positions, and the one it stops inside of.
IsScan(scan) ==
  \E U, c, blocks, dangling :
    /\ scan = [cursor |-> c, blocks |-> blocks, dangling |-> dangling]
    /\ blocks \in Seq(U) /\ (\A b \in U : b.at \in Nat /\ b.end \in Nat) /\ dangling.at \in Nat

\* So it is after one more position of the text.
LEMMA TagIsScanned ==
  ASSUME NEW U, NEW text \in Seq(U), NEW i \in 1..Len(text), NEW scan, IsScan(scan)
  PROVE  IsScan(Reveal!ScanTag(text, scan, i))
<1>1. PICK W, c, blocks, dangling :
        /\ scan = [cursor |-> c, blocks |-> blocks, dangling |-> dangling]
        /\ blocks \in Seq(W) /\ (\A b \in W : b.at \in Nat /\ b.end \in Nat) /\ dangling.at \in Nat
  BY DEF IsScan
<1>2. scan \in [cursor : {c}, blocks : {blocks}, dangling : {dangling}]
  BY <1>1
<1>3. PICK close \in 0..Len(text) : close = Reveal!CloseOf(text, i)
  BY ClosesInTheText
<1>4. i \in Nat /\ close \in Nat
  BY LenProperties
<1>5. PICK body : body = Reveal!BlockAt(text, i, close - 1)
  OBVIOUS
<1>6. PICK rest : rest = Reveal!BlockAt(text, i, Len(text))
  OBVIOUS
<1>7. PICK found : found = [at |-> i, end |-> close, block |-> body]
  OBVIOUS
<1>8. PICK opened : opened = [at |-> i, block |-> rest]
  OBVIOUS
<1>9. CASE Reveal!ScanTag(text, scan, i) = [[scan EXCEPT !.cursor = close + 1] EXCEPT !.blocks = Append(scan.blocks, found)]
  <2>1. Reveal!ScanTag(text, scan, i) = [cursor |-> close + 1, blocks |-> Append(scan.blocks, found), dangling |-> dangling]
    BY Zenon, <1>1, <1>2, <1>9
  <2>2. scan.blocks = blocks
    BY <1>1
  <2>3. PICK all : all = Append(blocks, found)
    OBVIOUS
  <2>4. all \in Seq(W \cup {found})
    BY <1>1, <2>3
  <2>5. found.at \in Nat /\ found.end \in Nat
    BY <1>4, <1>7
  <2>6. \A b \in W \cup {found} : b.at \in Nat /\ b.end \in Nat
    BY Zenon, <1>1, <2>5
  <2>7. QED
    BY Zenon, <1>1, <2>1, <2>2, <2>3, <2>4, <2>6 DEF IsScan
<1>10. CASE Reveal!ScanTag(text, scan, i) = [scan EXCEPT !.dangling = opened]
  <2>1. Reveal!ScanTag(text, scan, i) = [cursor |-> c, blocks |-> blocks, dangling |-> opened]
    BY Zenon, <1>1, <1>2, <1>10
  <2>2. opened.at \in Nat
    BY <1>4, <1>8
  <2>3. QED
    BY Zenon, <1>1, <2>1, <2>2 DEF IsScan
<1>11. \/ Reveal!ScanTag(text, scan, i) = scan
       \/ Reveal!ScanTag(text, scan, i) = [[scan EXCEPT !.cursor = close + 1] EXCEPT !.blocks = Append(scan.blocks, found)]
       \/ Reveal!ScanTag(text, scan, i) = [scan EXCEPT !.dangling = opened]
  BY Zenon, <1>3, <1>5, <1>6, <1>7, <1>8 DEF Reveal!ScanTag
<1>12. QED
  BY Zenon, <1>9, <1>10, <1>11

\* Reading the first n positions of a text.
Scanning(f, text, n) ==
  f = [i \in 0..n |-> IF i = 0 THEN Reveal!NothingScanned ELSE Reveal!ScanTag(text, f[i - 1], i)]

\* There is such a reading.
LEMMA ScanExists ==
  ASSUME NEW text, NEW n \in Nat
  PROVE  \E f : Scanning(f, text, n)
<1> DEFINE S == {m \in Nat : \E f : Scanning(f, text, m)}
<1>1. 0 \in S
  <2> DEFINE f == [i \in 0..0 |-> Reveal!NothingScanned]
  <2>1. Scanning(f, text, 0)
    BY DEF Scanning
  <2>2. QED
    BY <2>1
<1>2. ASSUME NEW m \in Nat, m \in S
      PROVE  m + 1 \in S
  <2>1. PICK f : Scanning(f, text, m)
    BY <1>2
  <2>2. f = [i \in 0..m |-> IF i = 0 THEN Reveal!NothingScanned ELSE Reveal!ScanTag(text, f[i - 1], i)]
    BY Zenon, <2>1 DEF Scanning
  <2>3. PICK last : last = Reveal!ScanTag(text, f[m], m + 1)
    OBVIOUS
  <2>4. PICK g : g = [i \in 0..(m + 1) |-> IF i = m + 1 THEN last ELSE f[i]]
    OBVIOUS
  <2>5. \A i \in 0..m : g[i] = f[i]
    BY <2>4
  <2>6. ASSUME NEW i \in 0..(m + 1)
        PROVE  g[i] = IF i = 0 THEN Reveal!NothingScanned ELSE Reveal!ScanTag(text, g[i - 1], i)
    <3>1. CASE i = m + 1
      <4>1. i # 0 /\ i - 1 = m /\ g[m] = f[m] /\ g[i] = last
        BY <2>4, <2>5, <3>1
      <4>2. QED
        BY Zenon, <2>3, <3>1, <4>1
    <3>2. CASE i = 0
      <4>1. i \in 0..m
        BY <3>2
      <4>2. QED
        BY Zenon, <2>2, <2>5, <3>2, <4>1
    <3>3. CASE i \in 1..m
      <4>1. i - 1 \in 0..m /\ i \in 0..m /\ i # 0
        BY <3>3
      <4>2. g[i] = f[i] /\ g[i - 1] = f[i - 1]
        BY <2>5, <4>1
      <4>3. f[i] = IF i = 0 THEN Reveal!NothingScanned ELSE Reveal!ScanTag(text, f[i - 1], i)
        BY Zenon, <2>2, <4>1
      <4>4. QED
        BY Zenon, <4>1, <4>2, <4>3
    <3>4. QED
      BY <3>1, <3>2, <3>3
  <2>7. g = [i \in 0..(m + 1) |-> IF i = 0 THEN Reveal!NothingScanned ELSE Reveal!ScanTag(text, g[i - 1], i)]
    BY Zenon, <2>4, <2>6
  <2>8. Scanning(g, text, m + 1)
    BY Zenon, <2>7 DEF Scanning
  <2>9. QED
    BY <2>8
<1> HIDE DEF S
<1>3. n \in S
  BY <1>1, <1>2, AllNumbers
<1>4. QED
  BY <1>3 DEF S

\* The reading of a whole text finds blocks at positions.
LEMMA TextIsScanned ==
  ASSUME NEW U, NEW text \in Seq(U)
  PROVE  IsScan(Reveal!ScanProtocol(text))
<1>1. PICK n \in Nat : n = Len(text)
  BY LenProperties
<1> DEFINE Of(k) == k = [i \in 0..n |-> IF i = 0 THEN Reveal!NothingScanned ELSE Reveal!ScanTag(text, k[i - 1], i)]
<1>2. PICK h : Scanning(h, text, n)
  BY ScanExists
<1>3. Of(h)
  BY Zenon, <1>2 DEF Scanning
<1>4. PICK f : f = CHOOSE k : Of(k)
  OBVIOUS
<1>5. Of(f)
  BY Zenon, <1>3, <1>4
<1>6. Reveal!ScanProtocol(text) = f[n]
  BY Zenon, <1>1, <1>4 DEF Reveal!ScanProtocol
<1> DEFINE S == {m \in Nat : m <= n => IsScan(f[m])}
<1>7. 0 \in S
  <2>1. f[0] = Reveal!NothingScanned
    <3>1. 0 \in 0..n
      BY <1>1
    <3>2. QED
      BY Zenon, <1>5, <3>1
  <2>2. IsScan(Reveal!NothingScanned)
    <3>1. Reveal!NoDangling.at \in Nat
      BY DEF Reveal!NoDangling
    <3>2. PICK none : none = {}
      OBVIOUS
    <3>3. <<>> \in Seq(none) /\ \A b \in none : b.at \in Nat /\ b.end \in Nat
      BY <3>2
    <3>4. QED
      BY Zenon, <3>1, <3>3 DEF IsScan, Reveal!NothingScanned
  <2>3. QED
    BY Zenon, <2>1, <2>2
<1>8. ASSUME NEW m \in Nat, m \in S
      PROVE  m + 1 \in S
  <2> SUFFICES ASSUME m + 1 <= n
               PROVE  IsScan(f[m + 1])
    OBVIOUS
  <2>1. m + 1 \in 0..n /\ m + 1 # 0 /\ (m + 1) - 1 = m /\ m <= n /\ m + 1 \in 1..Len(text)
    BY <1>1
  <2>2. f[m + 1] = IF m + 1 = 0 THEN Reveal!NothingScanned ELSE Reveal!ScanTag(text, f[(m + 1) - 1], m + 1)
    BY Zenon, <1>5, <2>1
  <2>3. f[m + 1] = Reveal!ScanTag(text, f[m], m + 1)
    BY Zenon, <2>1, <2>2
  <2>4. IsScan(f[m])
    BY <1>8, <2>1
  <2>5. QED
    BY Zenon, <2>1, <2>3, <2>4, TagIsScanned
<1> HIDE DEF S
<1>9. n \in S
  BY <1>1, <1>7, <1>8, AllNumbers
<1>10. QED
  BY <1>1, <1>6, <1>9 DEF S

\* The ranges of prose are pairs of numbers.
LEMMA RangesAreRanges ==
  ASSUME RevealLength \in Nat, Reveal!RevealInvariant, NEW n \in Reveal!Positions
  PROVE  Reveal!FindVisibleRanges(n) \in Seq(Int \X Int)
<1>1. v4 \in [1..RevealLength -> Reveal!Tokens]
  BY Zenon DEF Reveal!RevealInvariant, Reveal!RevealTypeOK
<1>2. PICK half : half = n \div 2
  OBVIOUS
<1>3. half \in Nat /\ half <= RevealLength /\ n \in Nat
  BY <1>2 DEF Reveal!Positions
<1>4. PICK text : text = SubSeq(v4, 1, half)
  OBVIOUS
<1>5. text \in Seq(Reveal!Tokens)
  <2>1. v4 \in Seq(Reveal!Tokens) /\ Len(v4) = RevealLength
    BY <1>1
  <2>2. QED
    BY <1>3, <1>4, <2>1
<1>6. PICK scan : scan = Reveal!ScanProtocol(text)
  OBVIOUS
<1>7. IsScan(scan)
  BY <1>5, <1>6, TextIsScanned
<1>8. PICK U, c, found, dangling :
        /\ scan = [cursor |-> c, blocks |-> found, dangling |-> dangling]
        /\ found \in Seq(U) /\ (\A b \in U : b.at \in Nat /\ b.end \in Nat) /\ dangling.at \in Nat
  BY Zenon, <1>7 DEF IsScan
<1>9. PICK blocks : blocks = Reveal!BlocksBefore(scan)
  OBVIOUS
<1>10. blocks \in Seq(U)
  <2>1. PICK some : blocks = Reveal!Kept(scan.blocks, some)
    BY Zenon, <1>9 DEF Reveal!BlocksBefore
  <2>2. scan.blocks = found
    BY <1>8
  <2>3. blocks = Kept(found, some)
    BY Zenon, <2>1, <2>2 DEF Reveal!Kept, Kept
  <2>4. QED
    BY <1>8, <2>3, KeptKeeps
<1>11. PICK prose : prose = Reveal!Kept(blocks, {b \in Reveal!Range(blocks) : b.block.tag = "message"})
  OBVIOUS
<1>12. prose \in Seq(U)
  <2>1. PICK some : some = {b \in Reveal!Range(blocks) : b.block.tag = "message"}
    OBVIOUS
  <2>2. prose = Kept(blocks, some)
    BY Zenon, <1>11, <2>1 DEF Reveal!Kept, Kept
  <2>3. QED
    BY <1>10, <2>2, KeptKeeps
<1>13. PICK m \in Nat : m = Len(prose)
  BY <1>12, LenProperties
<1>14. PICK ends : ends = [i \in 1..m |-> <<2 * prose[i].at, 2 * (prose[i].end - 1)>>]
  OBVIOUS
<1>15. ends \in Seq(Int \X Int)
  <2>1. \A i \in 1..m : prose[i] \in U
    BY <1>12, <1>13, ElementOfSeq
  <2>2. \A i \in 1..m : prose[i].at \in Nat /\ prose[i].end \in Nat
    BY Zenon, <1>8, <2>1
  <2>3. \A i \in 1..m : <<2 * prose[i].at, 2 * (prose[i].end - 1)>> \in Int \X Int
    BY <2>2
  <2>4. ends \in [1..m -> Int \X Int]
    BY Zenon, <1>14, <2>3
  <2>5. QED
    BY <1>13, <2>4
<1>16. scan.dangling = dangling
  BY <1>8
<1>17. PICK open : open = <<2 * dangling.at, n>>
  OBVIOUS
<1>18. open \in Int \X Int
  BY <1>3, <1>8, <1>17
<1>19. Append(ends, open) \in Seq(Int \X Int)
  BY Zenon, <1>15, <1>18, AppendProperties
<1>20. Reveal!Arrived(n) = text
  BY Zenon, <1>2, <1>4 DEF Reveal!Arrived
<1>21. Reveal!FindVisibleRanges(n) = IF dangling.block.tag = "message" THEN Append(ends, open) ELSE ends
  BY Zenon, <1>6, <1>9, <1>11, <1>13, <1>14, <1>16, <1>17, <1>20 DEF Reveal!FindVisibleRanges
<1>22. QED
  BY Zenon, <1>15, <1>19, <1>21

\* A cursor on its way to the end, from where it was.
OnItsWay(at, far) ==
  \E c, b, stopped : c \in 0..far /\ b \in Nat /\ at = [cursor |-> c, budget |-> b, stopped |-> stopped]

\* It stays on its way over a range.
LEMMA RangeIsPassed ==
  ASSUME NEW far \in Nat, NEW end \in 0..far, NEW range \in Int \X Int, NEW at, OnItsWay(at, far)
  PROVE  OnItsWay(Reveal!PassRange(at, range, end), far)
<1>1. PICK c, b, stopped : c \in 0..far /\ b \in Nat /\ at = [cursor |-> c, budget |-> b, stopped |-> stopped]
  BY Zenon DEF OnItsWay
<1>2. at \in [cursor : {c}, budget : {b}, stopped : {stopped}]
  BY <1>1
<1>3. at.cursor = c /\ at.budget = b /\ at.stopped = stopped
  BY <1>1
<1>4. PICK left, right : left = range[1] /\ right = range[2]
  OBVIOUS
<1>5. left \in Int /\ right \in Int
  BY <1>4
<1>6. PICK stop, from, take :
        /\ stop = Reveal!AtMost(right, end) /\ from = Reveal!AtLeast(c, Reveal!AtMost(left, end))
        /\ take = Reveal!AtMost(b, stop - from)
  OBVIOUS
<1>7. /\ stop \in Int /\ stop <= end
      /\ from \in Nat /\ c <= from /\ from <= far
      /\ take \in Int /\ take <= b /\ take <= stop - from /\ (take = b \/ take = stop - from)
  BY <1>1, <1>5, <1>6 DEF Reveal!AtMost, Reveal!AtLeast
<1>8. CASE Reveal!PassRange(at, range, end) = at
  BY Zenon, <1>8
<1>9. CASE Reveal!PassRange(at, range, end) = [[at EXCEPT !.cursor = end] EXCEPT !.stopped = TRUE]
  <2>1. Reveal!PassRange(at, range, end) = [cursor |-> end, budget |-> b, stopped |-> TRUE]
    BY Zenon, <1>1, <1>2, <1>9
  <2>2. QED
    BY Zenon, <1>1, <2>1 DEF OnItsWay
<1>10. CASE Reveal!PassRange(at, range, end) = [cursor |-> from + take, budget |-> b - take, stopped |-> from + take < stop]
            /\ ~(stop <= c)
  <2>1. PICK there, rest, halted : there = from + take /\ rest = b - take /\ halted = (from + take < stop)
    OBVIOUS
  <2>2. there \in 0..far /\ rest \in Nat
    BY <1>1, <1>7, <1>10, <2>1
  <2>3. Reveal!PassRange(at, range, end) = [cursor |-> there, budget |-> rest, stopped |-> halted]
    BY Zenon, <1>10, <2>1
  <2>4. QED
    BY Zenon, <2>2, <2>3 DEF OnItsWay
<1>11. \/ Reveal!PassRange(at, range, end) = at
       \/ Reveal!PassRange(at, range, end) = [[at EXCEPT !.cursor = end] EXCEPT !.stopped = TRUE]
       \/ /\ Reveal!PassRange(at, range, end) = [cursor |-> from + take, budget |-> b - take, stopped |-> from + take < stop]
          /\ ~(stop <= c)
  BY Zenon, <1>3, <1>4, <1>6 DEF Reveal!PassRange
<1>12. QED
  BY Zenon, <1>8, <1>9, <1>10, <1>11

\* Passing the first n of some ranges.
Passing(f, ranges, cursor, end, budget, n) ==
  f = [i \in 0..n |-> IF i = 0 THEN Reveal!SetOut(cursor, budget)
                      ELSE Reveal!PassRange(f[i - 1], ranges[i], end)]

\* There is such a way.
LEMMA PassExists ==
  ASSUME NEW ranges, NEW cursor, NEW end, NEW budget, NEW n \in Nat
  PROVE  \E f : Passing(f, ranges, cursor, end, budget, n)
<1> PICK start : start = Reveal!SetOut(cursor, budget)
  OBVIOUS
<1> DEFINE S == {m \in Nat : \E f : Passing(f, ranges, cursor, end, budget, m)}
<1>1. 0 \in S
  <2>1. PICK f : f = [i \in 0..0 |-> start]
    OBVIOUS
  <2>2. \A i \in 0..0 : i = 0
    OBVIOUS
  <2>3. Passing(f, ranges, cursor, end, budget, 0)
    BY Zenon, <2>1, <2>2 DEF Passing
  <2>4. QED
    BY <2>3
<1>2. ASSUME NEW m \in Nat, m \in S
      PROVE  m + 1 \in S
  <2>1. PICK f : Passing(f, ranges, cursor, end, budget, m)
    BY <1>2
  <2>2. f = [i \in 0..m |-> IF i = 0 THEN start ELSE Reveal!PassRange(f[i - 1], ranges[i], end)]
    BY Zenon, <2>1 DEF Passing
  <2>3. PICK last : last = Reveal!PassRange(f[m], ranges[m + 1], end)
    OBVIOUS
  <2>4. PICK g : g = [i \in 0..(m + 1) |-> IF i = m + 1 THEN last ELSE f[i]]
    OBVIOUS
  <2>5. \A i \in 0..m : g[i] = f[i]
    BY <2>4
  <2>6. ASSUME NEW i \in 0..(m + 1)
        PROVE  g[i] = IF i = 0 THEN start ELSE Reveal!PassRange(g[i - 1], ranges[i], end)
    <3>1. CASE i = m + 1
      <4>1. i # 0 /\ i - 1 = m /\ g[m] = f[m] /\ g[i] = last
        BY <2>4, <2>5, <3>1
      <4>2. QED
        BY Zenon, <2>3, <3>1, <4>1
    <3>2. CASE i = 0
      <4>1. i \in 0..m
        BY <3>2
      <4>2. QED
        BY Zenon, <2>2, <2>5, <3>2, <4>1
    <3>3. CASE i \in 1..m
      <4>1. i - 1 \in 0..m /\ i \in 0..m /\ i # 0
        BY <3>3
      <4>2. g[i] = f[i] /\ g[i - 1] = f[i - 1]
        BY <2>5, <4>1
      <4>3. f[i] = IF i = 0 THEN start ELSE Reveal!PassRange(f[i - 1], ranges[i], end)
        BY Zenon, <2>2, <4>1
      <4>4. QED
        BY Zenon, <4>1, <4>2, <4>3
    <3>4. QED
      BY <3>1, <3>2, <3>3
  <2>7. g = [i \in 0..(m + 1) |-> IF i = 0 THEN start ELSE Reveal!PassRange(g[i - 1], ranges[i], end)]
    BY Zenon, <2>4, <2>6
  <2>8. Passing(g, ranges, cursor, end, budget, m + 1)
    BY Zenon, <2>7 DEF Passing
  <2>9. QED
    BY <2>8
<1> HIDE DEF S
<1>3. n \in S
  BY <1>1, <1>2, AllNumbers
<1>4. QED
  BY <1>3 DEF S

\* The cursor goes to a position between where it was and the end, whatever the ranges.
LEMMA CursorAdvances ==
  ASSUME NEW far \in Nat, NEW cursor \in 0..far, NEW end \in 0..far, NEW budget \in Nat,
         NEW ranges \in Seq(Int \X Int)
  PROVE  Reveal!AdvanceCursor(ranges, cursor, end, budget) \in 0..far
<1>1. PICK n \in Nat : n = Len(ranges)
  BY LenProperties
<1>2. PICK start : start = Reveal!SetOut(cursor, budget)
  OBVIOUS
<1> DEFINE Of(k) == k = [i \in 0..Len(ranges) |-> IF i = 0 THEN Reveal!SetOut(cursor, budget)
                                        ELSE Reveal!PassRange(k[i - 1], ranges[i], end)]
<1>3. PICK h : Passing(h, ranges, cursor, end, budget, n)
  BY PassExists
<1>4. Of(h)
  BY Zenon, <1>1, <1>3 DEF Passing
<1>5. PICK f : f = CHOOSE k : Of(k)
  OBVIOUS
<1>6. Of(f)
  BY Zenon, <1>4, <1>5
<1>7. Reveal!AdvanceCursor(ranges, cursor, end, budget) = IF f[n].stopped THEN f[n].cursor ELSE end
  <2>1. Reveal!AdvanceCursor(ranges, cursor, end, budget) = IF f[Len(ranges)].stopped THEN f[Len(ranges)].cursor ELSE end
    BY <1>5 DEF Reveal!AdvanceCursor
  <2>2. QED
    BY Zenon, <1>1, <2>1
<1> DEFINE S == {m \in Nat : m <= n => OnItsWay(f[m], far)}
<1>8. 0 \in S
  <2>1. 0 \in 0..n
    BY <1>1
  <2>2. f[0] = start
    BY Zenon, <1>1, <1>2, <1>6, <2>1
  <2>3. OnItsWay(start, far)
    BY Zenon, <1>2 DEF OnItsWay, Reveal!SetOut
  <2>4. QED
    BY <2>2, <2>3
<1>9. ASSUME NEW m \in Nat, m \in S
      PROVE  m + 1 \in S
  <2> SUFFICES ASSUME m + 1 <= n
               PROVE  OnItsWay(f[m + 1], far)
    OBVIOUS
  <2>1. m + 1 \in 0..n /\ m + 1 # 0 /\ (m + 1) - 1 = m /\ m <= n /\ m + 1 \in 1..n
    BY <1>1
  <2>2. f[m + 1] = IF m + 1 = 0 THEN Reveal!SetOut(cursor, budget)
                   ELSE Reveal!PassRange(f[(m + 1) - 1], ranges[m + 1], end)
    BY Zenon, <1>1, <1>6, <2>1
  <2>3. f[m + 1] = Reveal!PassRange(f[m], ranges[m + 1], end)
    BY Zenon, <2>1, <2>2
  <2>4. OnItsWay(f[m], far)
    BY <1>9, <2>1
  <2>5. ranges[m + 1] \in Int \X Int
    BY <1>1, <2>1, ElementOfSeq
  <2>6. QED
    BY Zenon, <2>3, <2>4, <2>5, RangeIsPassed
<1> HIDE DEF S
<1>10. n \in S
  BY <1>1, <1>8, <1>9, AllNumbers
<1>11. OnItsWay(f[n], far)
  BY <1>1, <1>10 DEF S
<1>12. f[n].cursor \in 0..far
  <2>1. PICK c, b, stopped : c \in 0..far /\ b \in Nat /\ f[n] = [cursor |-> c, budget |-> b, stopped |-> stopped]
    BY Zenon, <1>11 DEF OnItsWay
  <2>2. QED
    BY <2>1
<1>13. QED
  BY Zenon, <1>7, <1>12

\* What the hook of a chat keeps.
Hook == [mounted : BOOLEAN, cursor : Reveal!Positions, animated : BOOLEAN, ticking : BOOLEAN]

\* The safe end of what has arrived is not past it, and moves with it.
LEMMA SafeEnds ==
  ASSUME RevealLength \in Nat, NEW n \in Reveal!Positions
  PROVE  /\ Reveal!FindSafeEnd(n) \in Reveal!Positions /\ Reveal!FindSafeEnd(n) <= n /\ n \in Nat
         /\ \A m \in Reveal!Positions : m <= n => Reveal!FindSafeEnd(m) <= Reveal!FindSafeEnd(n)
<1>1. n \in Nat /\ n <= 2 * RevealLength
  BY DEF Reveal!Positions
<1>2. n \div 2 \in Nat /\ 2 * (n \div 2) <= n /\ n <= 2 * (n \div 2) + 1
  BY <1>1
<1>3. ASSUME NEW m \in Reveal!Positions, m <= n
      PROVE  2 * (m \div 2) <= 2 * (n \div 2)
  <2>1. m \in Nat
    BY DEF Reveal!Positions
  <2>2. m \div 2 \in Nat /\ 2 * (m \div 2) <= m
    BY <2>1
  <2>3. QED
    BY <1>1, <1>2, <1>3, <2>1, <2>2
<1>4. QED
  BY <1>1, <1>2, <1>3 DEF Reveal!FindSafeEnd, Reveal!Positions

\* What had been written is shown up to a position of the text, while it arrives up to its safe end.
LEMMA SeenIsSafe ==
  ASSUME RevealLength \in Nat, NEW n \in Reveal!Positions, NEW instant \in Reveal!Positions, NEW streaming \in BOOLEAN
  PROVE  /\ Reveal!AlreadySeen(n, instant, streaming) \in Reveal!Positions
         /\ streaming => Reveal!AlreadySeen(n, instant, streaming) <= Reveal!FindSafeEnd(n)
<1>1. instant \in Nat /\ instant <= 2 * RevealLength
  BY DEF Reveal!Positions
<1>2. QED
  BY <1>1, SafeEnds DEF Reveal!AlreadySeen, Reveal!AtMost, Reveal!Positions

\* The hook's effect: it stays mounted or not, and where it is and where the cursor stands after it.
LEMMA EffectIs ==
  ASSUME RevealLength \in Nat, NEW n \in Reveal!Positions, NEW instant \in Reveal!Positions, NEW streaming \in BOOLEAN,
         NEW r \in Hook, NEW e, e = Reveal!Effect(r, n, instant, streaming)
  PROVE  /\ e \in Hook /\ e.mounted = r.mounted
         /\ streaming /\ r.mounted /\ r.cursor <= Reveal!FindSafeEnd(n) => e.cursor <= Reveal!FindSafeEnd(n)
<1>1. PICK m, c, a, t : m = r.mounted /\ c = r.cursor /\ a = r.animated /\ t = r.ticking
  OBVIOUS
<1>2. m \in BOOLEAN /\ a \in BOOLEAN /\ t \in BOOLEAN
  BY Zenon, <1>1 DEF Hook
<1>3. c \in Reveal!Positions
  BY Zenon, <1>1 DEF Hook
<1>4. c \in Nat /\ c <= 2 * RevealLength /\ n \in Nat /\ n <= 2 * RevealLength
  BY <1>3 DEF Reveal!Positions
<1>5. PICK back : back = IF n < c THEN 0 ELSE c
  OBVIOUS
<1>6. PICK seen : seen = Reveal!AlreadySeen(n, instant, streaming)
  OBVIOUS
<1>7. seen \in Reveal!Positions /\ (streaming => seen <= Reveal!FindSafeEnd(n))
  BY Zenon, <1>6, SeenIsSafe
<1>8. PICK there : there = Reveal!AtLeast(back, seen)
  OBVIOUS
<1>9. there \in Reveal!Positions
  BY <1>4, <1>5, <1>7, <1>8 DEF Reveal!AtLeast, Reveal!Positions
<1>10. CASE e = r
  <2>1. QED
    BY Zenon, <1>10
<1>11. CASE e = [r EXCEPT !.cursor = n] /\ ~streaming
  <2>1. e = [mounted |-> m, cursor |-> n, animated |-> a, ticking |-> t]
    BY Zenon, <1>1, <1>11 DEF Hook
  <2>2. e \in Hook
    BY <1>2, <2>1 DEF Hook
  <2>3. e.mounted = m
    BY <2>1
  <2>4. QED
    BY Zenon, <1>1, <1>11, <2>2, <2>3
<1>12. CASE e = [[[r EXCEPT !.animated = (a \/ streaming)] EXCEPT !.ticking = TRUE] EXCEPT !.cursor = there]
  <2>1. PICK b : b = (a \/ streaming)
    OBVIOUS
  <2>2. b \in BOOLEAN
    BY Zenon, <2>1
  <2>3. e = [mounted |-> m, cursor |-> there, animated |-> b, ticking |-> TRUE]
    BY Zenon, <1>1, <1>12, <2>1 DEF Hook
  <2>4. e \in Hook
    BY <1>2, <1>9, <2>2, <2>3 DEF Hook
  <2>5. e.mounted = m /\ e.cursor = there
    BY <2>3
  <2>6. streaming /\ c <= Reveal!FindSafeEnd(n) => there <= Reveal!FindSafeEnd(n)
    <3>1. Reveal!FindSafeEnd(n) \in Nat
      BY SafeEnds DEF Reveal!Positions
    <3>2. seen \in Nat
      BY <1>7 DEF Reveal!Positions
    <3>3. QED
      BY <1>4, <1>5, <1>7, <1>8, <3>1, <3>2 DEF Reveal!AtLeast
  <2>7. QED
    BY Zenon, <1>1, <2>4, <2>5, <2>6
<1>13. \/ e = r /\ ~m
       \/ e = [r EXCEPT !.cursor = n] /\ ~streaming
       \/ e = [[[r EXCEPT !.animated = (a \/ streaming)] EXCEPT !.ticking = TRUE] EXCEPT !.cursor = there]
  BY Zenon, <1>1, <1>5, <1>6, <1>8 DEF Reveal!Effect
<1>14. QED
  BY Zenon, <1>10, <1>11, <1>12, <1>13

\* The tags and words of a reply are those of a text.
LEMMA RepliesAreTexts ==
  Reveal!RevealReplies \subseteq [1..RevealLength -> Reveal!Tokens]
<1>1. Reveal!Word \in Reveal!Tokens
  BY DEF Reveal!Tokens
<1>2. ASSUME NEW t \in {"message", "file"}
      PROVE  Reveal!Close(t) \in Reveal!Tokens
  <2>1. t \in Reveal!Tags
    BY DEF Reveal!Tags
  <2>2. QED
    BY <2>1 DEF Reveal!Tokens
<1>3. Reveal!Open("message", Reveal!NoPath) \in Reveal!Tokens
  <2>1. "message" \in Reveal!Tags
    BY DEF Reveal!Tags
  <2>2. QED
    BY <2>1 DEF Reveal!Tokens
<1>4. Reveal!FileOpens \subseteq Reveal!Tokens
  <2>1. "file" \in Reveal!Tags
    BY DEF Reveal!Tags
  <2>2. QED
    BY <2>1 DEF Reveal!Tokens, Reveal!FileOpens
<1>5. Reveal!Sentence \cup Reveal!FileOpens \cup {Reveal!Close("file")} \subseteq Reveal!Tokens
  BY Zenon, <1>1, <1>2, <1>3, <1>4 DEF Reveal!Sentence
<1>6. PICK some : some = Reveal!Sentence \cup Reveal!FileOpens \cup {Reveal!Close("file")}
  OBVIOUS
<1>7. Reveal!RevealReplies \subseteq [1..RevealLength -> some]
  BY Zenon, <1>6 DEF Reveal!RevealReplies
<1>8. some \subseteq Reveal!Tokens
  BY Zenon, <1>5, <1>6
<1>9. QED
  BY <1>7, <1>8

\* What is kept for a remount is a position, or nothing.
MayBeKept == Reveal!Positions \cup {Reveal!NotKept}
\* The cursor and what is kept of it are where they may be when n of the reply has arrived.
Safe(r, k, n) ==
  /\ r.mounted => r.cursor <= Reveal!FindSafeEnd(n)
  /\ k # Reveal!NotKept => k <= Reveal!FindSafeEnd(n)

\* The invariant, by its parts.
LEMMA RevealInvariantIs ==
  Reveal!RevealInvariant <=>
    /\ v4 \in [1..RevealLength -> Reveal!Tokens] /\ v5 \in Reveal!Positions /\ v7 \in Reveal!Positions
    /\ v9 \in Hook /\ v9.cursor \in Reveal!Positions /\ v10 \in MayBeKept /\ v6 \in BOOLEAN /\ v11 \in BOOLEAN
    /\ (v6 /\ v9.mounted => v10 = v9.cursor)
    /\ (v6 /\ ~v11 => Safe(v9, v10, v5))
BY Zenon DEF Reveal!RevealInvariant, Reveal!RevealTypeOK, Hook, MayBeKept, Safe

\* Nothing has arrived, and no chat is open.
LEMMA RevealInitially ==
  ASSUME RevealLength \in Nat, Reveal!RevealInit
  PROVE  Reveal!RevealInvariant
<1>1. v4 \in [1..RevealLength -> Reveal!Tokens]
  BY RepliesAreTexts DEF Reveal!RevealInit
<1>2. v5 = 0 /\ v7 = 0 /\ v6 = TRUE /\ v11 = FALSE /\ v10 = Reveal!NotKept
  BY Zenon DEF Reveal!RevealInit
<1>3. v9 = [mounted |-> FALSE, cursor |-> 0, animated |-> FALSE, ticking |-> FALSE]
  BY Zenon DEF Reveal!RevealInit, Reveal!Unmounted
<1>4. 0 \in Reveal!Positions
  BY DEF Reveal!Positions
<1>5. v9 \in Hook /\ ~v9.mounted /\ v9.cursor = 0
  BY <1>3, <1>4 DEF Hook
<1>6. QED
  BY Zenon, <1>1, <1>2, <1>4, <1>5, RevealInvariantIs DEF MayBeKept, Safe

\* The invariant after a step, by its parts.
LEMMA RevealInvariantAfter ==
  Reveal!RevealInvariant' <=>
    /\ v4' \in [1..RevealLength -> Reveal!Tokens] /\ v5' \in Reveal!Positions /\ v7' \in Reveal!Positions
    /\ v9' \in Hook /\ v9'.cursor \in Reveal!Positions /\ v10' \in MayBeKept /\ v6' \in BOOLEAN /\ v11' \in BOOLEAN
    /\ (v6' /\ v9'.mounted => v10' = v9'.cursor)
    /\ (v6' /\ ~v11' => Safe(v9', v10', v5'))
BY Zenon DEF Reveal!RevealInvariant, Reveal!RevealTypeOK, Hook, MayBeKept, Safe

\* After the chat is rendered with a text, while the turn goes on, the cursor is kept, and is safe unless a replay is under it.
LEMMA RenderedKeeps ==
  ASSUME RevealLength \in Nat, Reveal!RevealInvariant, NEW n \in Reveal!Positions, NEW instant \in Reveal!Positions,
         NEW streaming \in BOOLEAN, NEW w \in BOOLEAN, Reveal!Rendered(n, instant, streaming, w),
         streaming /\ ~w => Safe(v9, v10, n)
  PROVE  /\ v9' \in Hook /\ v9'.cursor \in Reveal!Positions /\ v10' \in MayBeKept /\ v11' \in BOOLEAN
         /\ (streaming /\ v9'.mounted => v10' = v9'.cursor)
         /\ (streaming /\ ~v11' => Safe(v9', v10', n))
<1>1. v9 \in Hook /\ v10 \in MayBeKept
  BY Zenon, RevealInvariantIs
<1>2. PICK e : e = v9'
  OBVIOUS
<1>3. PICK k : k = v10'
  OBVIOUS
<1>4. PICK safe : safe = Reveal!FindSafeEnd(n)
  OBVIOUS
<1>5. safe \in Nat
  BY <1>4, SafeEnds DEF Reveal!Positions
<1>6. /\ e = Reveal!Effect(v9, n, instant, streaming)
      /\ k = Reveal!KeptAfter(e, v10, streaming)
      /\ v11' = (w /\ Reveal!IsAhead(e, k, n))
  BY Zenon, <1>2, <1>3 DEF Reveal!Rendered
<1>7. /\ e \in Hook /\ e.mounted = v9.mounted
      /\ streaming /\ v9.mounted /\ v9.cursor <= safe => e.cursor <= safe
  <2>1. v9 \in Hook /\ e = Reveal!Effect(v9, n, instant, streaming)
    BY Zenon, <1>1, <1>6
  <2>2. /\ e \in Hook /\ e.mounted = v9.mounted
        /\ streaming /\ v9.mounted /\ v9.cursor <= Reveal!FindSafeEnd(n) => e.cursor <= Reveal!FindSafeEnd(n)
    BY SMTT(60), <2>1, EffectIs
  <2>3. QED
    BY Zenon, <1>4, <2>2
<1>8. e.cursor \in Reveal!Positions
  BY Zenon, <1>7 DEF Hook
<1>9. k = IF ~e.mounted THEN v10 ELSE IF streaming THEN e.cursor ELSE Reveal!NotKept
  BY Zenon, <1>6 DEF Reveal!KeptAfter
<1>10. k \in MayBeKept
  BY Zenon, <1>1, <1>8, <1>9 DEF MayBeKept
<1>11. v11' \in BOOLEAN
  BY Zenon, <1>6
<1>12. ASSUME streaming, ~v11'
       PROVE  Safe(e, k, n)
  <2>1. CASE ~w
    <3>1. Safe(v9, v10, n)
      BY Zenon, <1>12, <2>1
    <3>2. QED
      BY Zenon, <1>4, <1>7, <1>9, <1>12, <3>1 DEF Safe
  <2>2. CASE w
    <3>1. ~Reveal!IsAhead(e, k, n)
      BY Zenon, <1>6, <1>12, <2>2
    <3>2. IF e.mounted THEN ~(e.cursor > safe) ELSE k = Reveal!NotKept
      BY Zenon, <1>4, <3>1 DEF Reveal!IsAhead
    <3>3. e.cursor \in Nat
      BY <1>8 DEF Reveal!Positions
    <3>4. e.mounted => e.cursor <= safe
      BY <1>5, <3>2, <3>3
    <3>5. QED
      BY Zenon, <1>4, <1>9, <1>12, <3>2, <3>4 DEF Safe
  <2>3. QED
    BY Zenon, <2>1, <2>2
<1>13. QED
  BY Zenon, <1>2, <1>3, <1>7, <1>8, <1>9, <1>10, <1>11, <1>12

\* What is safe stays so when more arrives.
LEMMA SafeStays ==
  ASSUME RevealLength \in Nat, NEW m \in Reveal!Positions, NEW n \in Reveal!Positions, m <= n,
         NEW r \in Hook, NEW k \in MayBeKept, Safe(r, k, m)
  PROVE  Safe(r, k, n)
<1>1. PICK before, after : before = Reveal!FindSafeEnd(m) /\ after = Reveal!FindSafeEnd(n)
  OBVIOUS
<1>2. before \in Nat /\ after \in Nat
  BY <1>1, SafeEnds DEF Reveal!Positions
<1>3. before <= after
  BY <1>1, SafeEnds
<1>4. r.cursor \in Reveal!Positions
  BY Zenon DEF Hook
<1>5. r.cursor \in Nat /\ k \in Nat
  BY <1>4 DEF MayBeKept, Reveal!Positions, Reveal!NotKept
<1>6. PICK c : c = r.cursor
  OBVIOUS
<1>7. (c <= before => c <= after) /\ (k <= before => k <= after)
  BY <1>2, <1>3, <1>5, <1>6
<1>8. QED
  BY Zenon, <1>1, <1>6, <1>7 DEF Safe

\* More of the reply arrives.
LEMMA ChunkKeeps ==
  ASSUME RevealLength \in Nat, Reveal!RevealInvariant, Reveal!Chunk
  PROVE  Reveal!RevealInvariant'
<1>1. PICK n \in Reveal!Positions :
        /\ v6 /\ n > v5 /\ v5' = n /\ v7' = (IF v8 THEN n ELSE v7)
        /\ Reveal!Rendered(n, v7', TRUE, v11) /\ UNCHANGED <<v4, v6, v12>>
  BY Zenon DEF Reveal!Chunk
<1>2. PICK instant : instant = v7'
  OBVIOUS
<1>3. /\ v4 \in [1..RevealLength -> Reveal!Tokens] /\ v5 \in Reveal!Positions /\ v7 \in Reveal!Positions
      /\ v9 \in Hook /\ v10 \in MayBeKept /\ v11 \in BOOLEAN /\ (v6 /\ ~v11 => Safe(v9, v10, v5)) /\ v6 \in BOOLEAN
  BY Zenon, RevealInvariantIs
<1>4. instant \in Reveal!Positions /\ Reveal!Rendered(n, instant, TRUE, v11)
  BY Zenon, <1>1, <1>2, <1>3
<1>5. v5 <= n
  BY <1>1, <1>3 DEF Reveal!Positions
<1>6. ~v11 => Safe(v9, v10, n)
  BY Zenon, <1>1, <1>3, <1>5, SafeStays
<1>7. /\ v9' \in Hook /\ v9'.cursor \in Reveal!Positions /\ v10' \in MayBeKept /\ v11' \in BOOLEAN
      /\ (v9'.mounted => v10' = v9'.cursor)
      /\ (~v11' => Safe(v9', v10', n))
  BY Zenon, <1>3, <1>4, <1>6, RenderedKeeps
<1>8. v4' = v4 /\ v6' = v6
  BY Zenon, <1>1
<1>9. QED
  BY Zenon, <1>1, <1>2, <1>3, <1>4, <1>7, <1>8, RevealInvariantAfter

\* A connection is lost, and the reply is read again.
LEMMA ReconnectKeeps ==
  ASSUME RevealLength \in Nat, Reveal!RevealInvariant, Reveal!Reconnect
  PROVE  Reveal!RevealInvariant'
<1>1. /\ v4 \in [1..RevealLength -> Reveal!Tokens] /\ v9 \in Hook /\ v9.cursor \in Reveal!Positions /\ v10 \in MayBeKept
      /\ v6 \in BOOLEAN /\ (v6 /\ v9.mounted => v10 = v9.cursor)
  BY Zenon, RevealInvariantIs
<1>2. /\ v6 /\ v5' = 0 /\ v7' = 0 /\ v4' = v4 /\ v6' = v6
      /\ (Reveal!Rendered(0, 0, TRUE, TRUE) \/ (v9' = v9 /\ v10' = v10 /\ v11' = TRUE))
  BY Zenon DEF Reveal!Reconnect
<1>3. 0 \in Reveal!Positions
  BY DEF Reveal!Positions
<1>4. /\ v9' \in Hook /\ v9'.cursor \in Reveal!Positions /\ v10' \in MayBeKept /\ v11' \in BOOLEAN
      /\ (v9'.mounted => v10' = v9'.cursor)
      /\ (~v11' => Safe(v9', v10', 0))
  <2>1. CASE Reveal!Rendered(0, 0, TRUE, TRUE)
    BY Zenon, <1>3, <2>1, RenderedKeeps
  <2>2. CASE v9' = v9 /\ v10' = v10 /\ v11' = TRUE
    BY Zenon, <1>1, <1>2, <2>2
  <2>3. QED
    BY Zenon, <1>2, <2>1, <2>2
<1>5. QED
  BY Zenon, <1>1, <1>2, <1>3, <1>4, RevealInvariantAfter

\* The server puts another text in the place of its reply.
LEMMA ReplaceKeeps ==
  ASSUME RevealLength \in Nat, Reveal!RevealInvariant, Reveal!Replace
  PROVE  Reveal!RevealInvariant'
<1>1. PICK token \in {Reveal!Word, Reveal!Close("message")}, n \in 2..(2 * RevealLength) :
        /\ v6 /\ v4' = [v4 EXCEPT ![2] = token] /\ v5' = n /\ v7' = n /\ v6' = v6
        /\ Reveal!Rendered(n, n, TRUE, TRUE)
  BY Zenon DEF Reveal!Replace
<1>2. v4 \in [1..RevealLength -> Reveal!Tokens] /\ v6 \in BOOLEAN
  BY Zenon, RevealInvariantIs
<1>3. token \in Reveal!Tokens
  BY <1>1 DEF Reveal!Tokens, Reveal!Tags
<1>4. v4' \in [1..RevealLength -> Reveal!Tokens]
  BY <1>1, <1>2, <1>3
<1>5. n \in Reveal!Positions
  BY DEF Reveal!Positions
<1>6. /\ v9' \in Hook /\ v9'.cursor \in Reveal!Positions /\ v10' \in MayBeKept /\ v11' \in BOOLEAN
      /\ (v9'.mounted => v10' = v9'.cursor)
      /\ (~v11' => Safe(v9', v10', n))
  BY Zenon, <1>1, <1>5, RenderedKeeps
<1>7. QED
  BY Zenon, <1>1, <1>2, <1>4, <1>5, <1>6, RevealInvariantAfter

\* The turn ends: the rest may be shown.
LEMMA TurnOverKeeps ==
  ASSUME RevealLength \in Nat, Reveal!RevealInvariant, Reveal!TurnOver
  PROVE  Reveal!RevealInvariant'
<1>1. /\ ~v6' /\ v6' \in BOOLEAN /\ Reveal!Rendered(v5, v7, FALSE, FALSE) /\ v4' = v4 /\ v5' = v5 /\ v7' = v7
  BY Zenon DEF Reveal!TurnOver
<1>2. v4 \in [1..RevealLength -> Reveal!Tokens] /\ v5 \in Reveal!Positions /\ v7 \in Reveal!Positions
  BY Zenon, RevealInvariantIs
<1>3. v9' \in Hook /\ v9'.cursor \in Reveal!Positions /\ v10' \in MayBeKept /\ v11' \in BOOLEAN
  BY Zenon, <1>1, <1>2, RenderedKeeps
<1>4. QED
  BY Zenon, <1>1, <1>2, <1>3, RevealInvariantAfter

\* A frame shows more, up to what may be shown.
LEMMA TickKeeps ==
  ASSUME RevealLength \in Nat, Reveal!RevealInvariant, Reveal!Tick
  PROVE  Reveal!RevealInvariant'
<1>1. /\ v4 \in [1..RevealLength -> Reveal!Tokens] /\ v5 \in Reveal!Positions /\ v7 \in Reveal!Positions
      /\ v9 \in Hook /\ v9.cursor \in Reveal!Positions /\ v10 \in MayBeKept /\ v6 \in BOOLEAN /\ v11 \in BOOLEAN
      /\ (v6 /\ v9.mounted => v10 = v9.cursor)
      /\ (v6 /\ ~v11 => Safe(v9, v10, v5))
  BY Zenon, RevealInvariantIs
<1>2. PICK ranges : ranges = Reveal!FindVisibleRanges(v5)
  OBVIOUS
<1>3. PICK safe : safe = Reveal!FindSafeEnd(v5)
  OBVIOUS
<1>4. PICK end : end = IF v6 THEN safe ELSE v5
  OBVIOUS
<1>5. PICK c : c = v9.cursor
  OBVIOUS
<1> DEFINE Next(budget) == Reveal!AtLeast(c, Reveal!AdvanceCursor(ranges, c, end, budget))
<1>6. PICK budget \in {0, 2, 2 * RevealLength} :
          /\ v9.mounted /\ v9' = [[v9 EXCEPT !.cursor = Next(budget)] EXCEPT !.ticking = (Next(budget) < end)]
          /\ v10' = (IF Next(budget) # c THEN Next(budget) ELSE v10)
          /\ v11' = (v11 /\ Next(budget) > safe)
          /\ v4' = v4 /\ v5' = v5 /\ v6' = v6 /\ v7' = v7
  BY Zenon, <1>2, <1>3, <1>4, <1>5 DEF Reveal!Tick
<1>7. PICK at, next, ticking :
          /\ at = Reveal!AdvanceCursor(ranges, c, end, budget) /\ next = Reveal!AtLeast(c, at) /\ ticking = (next < end)
          /\ v9.mounted /\ v9' = [[v9 EXCEPT !.cursor = next] EXCEPT !.ticking = ticking]
          /\ v10' = (IF next # c THEN next ELSE v10)
          /\ v11' = (v11 /\ next > safe)
          /\ v4' = v4 /\ v5' = v5 /\ v6' = v6 /\ v7' = v7
  BY Zenon, <1>6
<1>8. safe \in Reveal!Positions /\ safe <= v5
  BY Zenon, <1>1, <1>3, SafeEnds
<1>9. safe \in Nat /\ v5 \in Nat /\ c \in Nat /\ end \in Nat /\ budget \in Nat /\ end <= 2 * RevealLength /\ c <= 2 * RevealLength
  BY <1>1, <1>4, <1>5, <1>8 DEF Reveal!Positions
<1>10. ranges \in Seq(Int \X Int)
  BY <1>1, <1>2, RangesAreRanges
<1>11. PICK far \in Nat : far = IF c < end THEN end ELSE c
  BY <1>9
<1>12. c \in 0..far /\ end \in 0..far
  BY <1>9, <1>11
<1>13. at \in 0..far
  BY Zenon, <1>7, <1>9, <1>10, <1>12, CursorAdvances
<1>14. next \in 0..far /\ next \in Reveal!Positions
  BY <1>7, <1>9, <1>11, <1>12, <1>13 DEF Reveal!AtLeast, Reveal!Positions
<1>15. PICK animated \in BOOLEAN : animated = v9.animated
  BY Zenon, <1>1 DEF Hook
<1>16. v9' = [mounted |-> TRUE, cursor |-> next, animated |-> animated, ticking |-> ticking]
  <2>1. v9.mounted = TRUE
    BY Zenon, <1>1, <1>7 DEF Hook
  <2>2. QED
    BY Zenon, <1>1, <1>7, <1>15, <2>1 DEF Hook
<1>17. ticking \in BOOLEAN /\ v11' \in BOOLEAN
  <2>1. ticking \in BOOLEAN
    BY <1>7
  <2>2. v11' \in BOOLEAN
    BY Zenon, <1>1, <1>7
  <2>3. QED
    BY Zenon, <2>1, <2>2
<1>18. v9' \in Hook
  BY <1>14, <1>16, <1>17 DEF Hook
<1>19. v9'.mounted /\ v9'.cursor = next
  BY <1>16
<1>20. v10' \in MayBeKept
  BY Zenon, <1>1, <1>7, <1>14 DEF MayBeKept
<1>21. v6 => v10' = next
  BY Zenon, <1>1, <1>5, <1>7
<1>22. ASSUME v6, ~v11'
       PROVE  next <= safe
  <2>1. CASE ~v11
    <3>1. c <= safe
      BY Zenon, <1>1, <1>3, <1>5, <1>7, <1>22, <2>1 DEF Safe
    <3>2. far <= safe
      BY <1>4, <1>9, <1>11, <1>22, <3>1
    <3>3. QED
      BY <1>9, <1>14, <3>2
  <2>2. CASE v11
    <3>1. ~(next > safe)
      BY Zenon, <1>7, <1>22, <2>2
    <3>2. QED
      BY <1>9, <1>14, <3>1
  <2>3. QED
    BY Zenon, <1>1, <2>1, <2>2
<1>23. v6 /\ ~v11' => Safe(v9', v10', v5)
  BY Zenon, <1>3, <1>19, <1>21, <1>22 DEF Safe
<1>24. QED
  BY Zenon, <1>1, <1>7, <1>14, <1>17, <1>18, <1>19, <1>20, <1>21, <1>23, RevealInvariantAfter

\* The chat is opened, at the position that was kept of it.
LEMMA MountKeeps ==
  ASSUME RevealLength \in Nat, Reveal!RevealInvariant, Reveal!Mount
  PROVE  Reveal!RevealInvariant'
<1>1. /\ v4 \in [1..RevealLength -> Reveal!Tokens] /\ v5 \in Reveal!Positions /\ v7 \in Reveal!Positions
      /\ v10 \in MayBeKept /\ v6 \in BOOLEAN /\ v11 \in BOOLEAN
      /\ (v6 /\ ~v11 => Safe(v9, v10, v5))
  BY Zenon, RevealInvariantIs
<1>2. PICK from : from = Reveal!InitialCursor
  OBVIOUS
<1>3. PICK r : r = [[[Reveal!Unmounted EXCEPT !.mounted = TRUE] EXCEPT !.cursor = from] EXCEPT !.animated = v6]
  OBVIOUS
<1>4. PICK e : e = v9'
  OBVIOUS
<1>5. PICK k : k = v10'
  OBVIOUS
<1>6. /\ e = Reveal!Effect(r, v5, v7, v6) /\ k = Reveal!KeptAfter(e, v10, v6)
      /\ v11' = (v11 /\ v6 /\ Reveal!IsAhead(e, k, v5)) /\ v4' = v4 /\ v5' = v5 /\ v6' = v6 /\ v7' = v7
  BY Zenon, <1>2, <1>3, <1>4, <1>5 DEF Reveal!Mount
<1>7. PICK safe : safe = Reveal!FindSafeEnd(v5)
  OBVIOUS
<1>8. safe \in Nat /\ v5 \in Nat /\ v5 <= 2 * RevealLength /\ v10 \in Nat
  BY <1>1, <1>7, SafeEnds DEF Reveal!Positions, MayBeKept, Reveal!NotKept
<1>9. from = IF v6 /\ v10 # Reveal!NotKept THEN Reveal!AtMost(v10, v5) ELSE IF v6 THEN 0 ELSE v5
  BY Zenon, <1>2 DEF Reveal!InitialCursor
<1>10. from \in Reveal!Positions
  BY <1>8, <1>9 DEF Reveal!AtMost, Reveal!Positions
<1>11. r = [mounted |-> TRUE, cursor |-> from, animated |-> v6, ticking |-> FALSE]
  <2>1. Reveal!Unmounted \in [mounted : {FALSE}, cursor : {0}, animated : {FALSE}, ticking : {FALSE}]
    BY DEF Reveal!Unmounted
  <2>2. Reveal!Unmounted.ticking = FALSE
    BY DEF Reveal!Unmounted
  <2>3. QED
    BY Zenon, <1>3, <2>1, <2>2
<1>12. r \in Hook /\ r.mounted /\ r.cursor = from
  BY <1>1, <1>10, <1>11 DEF Hook
<1>13. /\ e \in Hook /\ e.mounted = r.mounted
       /\ v6 /\ r.mounted /\ r.cursor <= Reveal!FindSafeEnd(v5) => e.cursor <= Reveal!FindSafeEnd(v5)
  <2>1. PICK n, q, s : n = v5 /\ q = v7 /\ s = v6
    OBVIOUS
  <2>2. /\ n \in Reveal!Positions /\ q \in Reveal!Positions /\ s \in BOOLEAN
        /\ r \in Hook /\ e = Reveal!Effect(r, n, q, s)
    BY Zenon, <1>1, <1>6, <1>12, <2>1
  <2>3. /\ e \in Hook /\ e.mounted = r.mounted
        /\ s /\ r.mounted /\ r.cursor <= Reveal!FindSafeEnd(n) => e.cursor <= Reveal!FindSafeEnd(n)
    BY SMTT(60), <2>2, EffectIs
  <2>4. QED
    BY Zenon, <2>1, <2>3
<1>14. e.mounted /\ e.cursor \in Reveal!Positions
  BY Zenon, <1>12, <1>13 DEF Hook
<1>15. k = IF v6 THEN e.cursor ELSE Reveal!NotKept
  BY Zenon, <1>6, <1>14 DEF Reveal!KeptAfter
<1>16. k \in MayBeKept
  BY Zenon, <1>14, <1>15 DEF MayBeKept
<1>17. v11' \in BOOLEAN
  BY Zenon, <1>6
<1>18. ASSUME v6, ~v11'
       PROVE  e.cursor <= safe
  <2>1. CASE ~v11
    <3>1. v10 # Reveal!NotKept => v10 <= safe
      BY Zenon, <1>1, <1>7, <1>18, <2>1 DEF Safe
    <3>2. from <= safe
      BY <1>8, <1>9, <1>18, <3>1 DEF Reveal!AtMost
    <3>3. QED
      BY Zenon, <1>7, <1>12, <1>13, <1>18, <3>2
  <2>2. CASE v11
    <3>1. ~Reveal!IsAhead(e, k, v5)
      BY Zenon, <1>6, <1>18, <2>2
    <3>2. ~(e.cursor > safe)
      BY Zenon, <1>7, <1>14, <3>1 DEF Reveal!IsAhead
    <3>3. e.cursor \in Nat
      BY <1>14 DEF Reveal!Positions
    <3>4. QED
      BY <1>8, <3>2, <3>3
  <2>3. QED
    BY Zenon, <1>1, <2>1, <2>2
<1>19. v6 /\ ~v11' => Safe(e, k, v5)
  BY Zenon, <1>7, <1>15, <1>18 DEF Safe
<1>20. QED
  BY Zenon, <1>1, <1>4, <1>5, <1>6, <1>13, <1>14, <1>15, <1>16, <1>17, <1>19, RevealInvariantAfter

\* The chat is left.
LEMMA UnmountKeeps ==
  ASSUME RevealLength \in Nat, Reveal!RevealInvariant, Reveal!Unmount
  PROVE  Reveal!RevealInvariant'
<1>1. /\ v4 \in [1..RevealLength -> Reveal!Tokens] /\ v5 \in Reveal!Positions /\ v7 \in Reveal!Positions
      /\ v10 \in MayBeKept /\ v6 \in BOOLEAN /\ v11 \in BOOLEAN
      /\ (v6 /\ ~v11 => Safe(v9, v10, v5))
  BY Zenon, RevealInvariantIs
<1>2. /\ v9' = [mounted |-> FALSE, cursor |-> 0, animated |-> FALSE, ticking |-> FALSE]
      /\ v4' = v4 /\ v5' = v5 /\ v6' = v6 /\ v7' = v7 /\ v10' = v10 /\ v11' = v11
  BY Zenon DEF Reveal!Unmount, Reveal!Unmounted
<1>3. 0 \in Reveal!Positions
  BY DEF Reveal!Positions
<1>4. v9' \in Hook /\ ~v9'.mounted /\ v9'.cursor = 0
  BY <1>2, <1>3 DEF Hook
<1>5. v6 /\ ~v11 => Safe(v9', v10, v5)
  BY Zenon, <1>1, <1>4 DEF Safe
<1>6. QED
  BY Zenon, <1>1, <1>2, <1>3, <1>4, <1>5, RevealInvariantAfter

\* A step of the reply keeps where the cursor may stand.
LEMMA RevealInvariantStays ==
  ASSUME RevealLength \in Nat, Reveal!RevealInvariant, [Reveal!RevealNext]_Reveal!revealVars
  PROVE  Reveal!RevealInvariant'
<1>1. CASE UNCHANGED Reveal!revealVars
  <2>1. v4' = v4 /\ v5' = v5 /\ v6' = v6 /\ v7' = v7 /\ v9' = v9 /\ v10' = v10 /\ v11' = v11
    BY Zenon, <1>1 DEF Reveal!revealVars
  <2>2. QED
    BY Zenon, <2>1, RevealInvariantIs, RevealInvariantAfter
<1>2. QED
  BY Zenon, <1>1, ChunkKeeps, ReconnectKeeps, ReplaceKeeps, TurnOverKeeps, TickKeeps, MountKeeps, UnmountKeeps
     DEF Reveal!RevealNext

\* So nothing of half a tag is shown.
LEMMA NothingHalfIsShown ==
  ASSUME RevealLength \in Nat, Reveal!RevealInvariant
  PROVE  Reveal!NothingHalfShown
<1>1. v5 \in Reveal!Positions /\ v9.cursor \in Reveal!Positions /\ (v6 /\ ~v11 => Safe(v9, v10, v5))
  BY Zenon, RevealInvariantIs
<1>2. PICK c, safe : c = v9.cursor /\ safe = Reveal!FindSafeEnd(v5)
  OBVIOUS
<1>3. c \in Nat /\ v5 \in Nat /\ safe \in Nat
  BY <1>1, <1>2, SafeEnds DEF Reveal!Positions
<1>4. c <= safe => Reveal!AtMost(c, v5) <= safe
  BY <1>3 DEF Reveal!AtMost
<1>5. QED
  BY Zenon, <1>1, <1>2, <1>4 DEF Reveal!NothingHalfShown, Reveal!ShownTo, Safe

-----------------------------------------------------------------------------
(* TurnCard: a lesson read while it is written is only ever added to. *)
Card == INSTANCE TurnCard WITH cardReply <- v1, thought <- v2, answers <- v3,
  answered <- v4, card <- v5, lesson <- v6, task <- v7

\* Two sequences that agree as far as the shorter goes have the same beginning.
LEMMA SameBeginning ==
  ASSUME NEW S, NEW short \in Seq(S), NEW long \in Seq(S), Len(short) <= Len(long),
         \A k \in 1..Len(short) : short[k] = long[k]
  PROVE  SubSeq(short, 1, Len(short)) = SubSeq(long, 1, Len(short))
<1>1. SubSeq(short, 1, Len(short)) = short
  BY SubSeqFull
<1>2. PICK p : p = SubSeq(long, 1, Len(short))
  OBVIOUS
<1>3. p \in Seq(S) /\ Len(p) = Len(short) /\ \A k \in 1..Len(short) : p[k] = long[k]
  <2>1. Len(short) \in Nat /\ \A k \in 1..Len(short) : long[k] \in S
    OBVIOUS
  <2>2. p \in Seq(S) /\ Len(p) = (IF 1 <= Len(short) THEN Len(short) - 1 + 1 ELSE 0)
        /\ \A k \in 1..(Len(short) - 1 + 1) : p[k] = long[1 + k - 1]
    BY <1>2, <2>1, SubSeqProperties
  <2>3. PICK n : n = Len(short)
    OBVIOUS
  <2>4. n \in Nat /\ Len(p) = IF 1 <= n THEN n - 1 + 1 ELSE 0
    BY Zenon, <2>1, <2>2, <2>3
  <2>5. Len(p) = n
    BY <2>4
  <2>6. ASSUME NEW k \in 1..n
        PROVE  p[k] = long[k]
    <3>1. 1 + k - 1 = k /\ k \in 1..(n - 1 + 1)
      BY <2>4, <2>6
    <3>2. p[k] = long[1 + k - 1]
      BY Zenon, <2>2, <2>3, <3>1
    <3>3. QED
      BY Zenon, <3>1, <3>2
  <2>7. QED
    BY Zenon, <2>2, <2>3, <2>5, <2>6
<1>4. p = short
  BY <1>3, SeqEqual
<1>5. QED
  BY <1>1, <1>2, <1>4

\* A part of a sequence from one element to another.
LEMMA PartOfSequence ==
  ASSUME NEW S, NEW s \in Seq(S), NEW n \in 0..Len(s), NEW i \in 0..n, NEW p, p = SubSeq(s, i + 1, n)
  PROVE  p \in Seq(S) /\ Len(p) = n - i /\ \A k \in 1..(n - i) : p[k] = s[i + k]
<1>1. i \in Nat /\ n \in Nat /\ \A k \in (i + 1)..n : s[k] \in S
  OBVIOUS
<1>2. p \in Seq(S) /\ Len(p) = (IF i + 1 <= n THEN n - (i + 1) + 1 ELSE 0)
      /\ \A k \in 1..(n - (i + 1) + 1) : p[k] = s[(i + 1) + k - 1]
  BY <1>1, SubSeqProperties
<1>3. Len(p) = n - i
  BY <1>1, <1>2
<1>4. ASSUME NEW k \in 1..(n - i)
      PROVE  p[k] = s[i + k]
  <2>1. (i + 1) + k - 1 = i + k /\ k \in 1..(n - (i + 1) + 1)
    BY <1>1
  <2>2. p[k] = s[(i + 1) + k - 1]
    BY <1>2, <2>1
  <2>3. QED
    BY <2>1, <2>2
<1>5. QED
  BY <1>2, <1>3, <1>4

\* What follows a line up to the next heading, in lines to which one is added: the same if a heading follows it, and
\* else its beginning.
LEMMA BodyOnlyGrows ==
  ASSUME NEW S, NEW lines \in Seq(S), NEW kind \in S, NEW i \in 0..Len(lines),
         NEW more, more = Append(lines, kind)
  PROVE  /\ Card!Extends(Card!BodyFrom(more, i), Card!BodyFrom(lines, i))
         /\ \A j \in DOMAIN lines : j > i /\ lines[j] \in Card!Headings =>
              Card!BodyFrom(more, i) = Card!BodyFrom(lines, i)
<1> DEFINE before == {j \in DOMAIN lines : j > i /\ lines[j] \in Card!Headings}
           after == {j \in DOMAIN more : j > i /\ more[j] \in Card!Headings}
           upTo(heads, all) == IF heads = {} THEN Len(all) ELSE (CHOOSE j \in heads : \A k \in heads : j <= k) - 1
<1>1. /\ Len(lines) \in Nat /\ more \in Seq(S) /\ Len(more) = Len(lines) + 1
      /\ DOMAIN lines = 1..Len(lines) /\ DOMAIN more = 1..Len(more)
      /\ \A j \in 1..Len(lines) : more[j] = lines[j]
  OBVIOUS
<1>2. before = after \cap 1..Len(lines) /\ after \subseteq before \cup {Len(lines) + 1}
  BY <1>1
<1>3. /\ Card!BodyFrom(lines, i) = SubSeq(lines, i + 1, upTo(before, lines))
      /\ Card!BodyFrom(more, i) = SubSeq(more, i + 1, upTo(after, more))
  BY Zenon DEF Card!BodyFrom
<1>4. before \subseteq Nat /\ after \subseteq Nat /\ \A j \in after : j > i
  BY <1>1
<1> HIDE DEF before, after
<1>5. ASSUME before # {}
      PROVE  Card!BodyFrom(more, i) = Card!BodyFrom(lines, i) /\ Card!BodyFrom(lines, i) \in Seq(S)
  <2>1. PICK e \in before : \A k \in before : e <= k
    BY Zenon, <1>4, <1>5, LeastNumber
  <2>2. e \in after /\ \A k \in after : e <= k
    <3>1. PICK n : n = Len(lines)
      OBVIOUS
    <3>2. n \in Nat /\ before = after \cap 1..n /\ after \subseteq before \cup {n + 1} /\ after \subseteq Nat
      BY Zenon, <1>1, <1>2, <1>4, <3>1
    <3>3. e \in after /\ e \in 1..n
      BY Zenon, <2>1, <3>2
    <3>4. ASSUME NEW k \in after
          PROVE  e <= k
      <4>1. CASE k \in before
        BY Zenon, <2>1, <4>1
      <4>2. CASE k = n + 1
        BY <3>2, <3>3, <4>2
      <4>3. QED
        BY Zenon, <3>2, <3>4, <4>1, <4>2
    <3>5. QED
      BY Zenon, <3>3, <3>4
  <2>3. PICK b : b = CHOOSE j \in before : \A k \in before : j <= k
    OBVIOUS
  <2>4. PICK a : a = CHOOSE j \in after : \A k \in after : j <= k
    OBVIOUS
  <2>8. b \in before /\ \A k \in before : b <= k
    BY Zenon, <2>1, <2>3
  <2>9. a \in after /\ \A k \in after : a <= k
    BY Zenon, <2>2, <2>4
  <2>10. b = e /\ a = e
    BY <1>4, <2>1, <2>2, <2>8, <2>9
  <2>5. upTo(before, lines) = e - 1 /\ upTo(after, more) = e - 1 /\ e \in 1..Len(lines) /\ e > i
    BY <1>2, <1>4, <2>1, <2>2, <2>3, <2>4, <2>10
  <2>6. SubSeq(lines, i + 1, e - 1) = SubSeq(more, i + 1, e - 1)
    BY <1>1, <2>5
  <2>7. SubSeq(lines, i + 1, e - 1) \in Seq(S)
    <3>1. lines \in Seq(S) /\ e - 1 \in 0..Len(lines) /\ i \in 0..(e - 1)
      BY <1>1, <2>5
    <3>2. QED
      BY Zenon, <3>1, PartOfSequence
  <2>11. QED
    BY <1>3, <2>5, <2>6, <2>7
<1>6. ASSUME before = {}
      PROVE  Card!Extends(Card!BodyFrom(more, i), Card!BodyFrom(lines, i))
  <2>1. upTo(before, lines) = Len(lines)
    BY <1>6
  <2>2. after = {} \/ after = {Len(lines) + 1}
    BY <1>2, <1>6
  <2>3. upTo(after, more) \in {Len(lines), Len(lines) + 1}
    BY <1>1, <2>2
  <2>4. PICK n \in {Len(lines), Len(lines) + 1} : Card!BodyFrom(more, i) = SubSeq(more, i + 1, n)
    BY <1>3, <2>3
  <2>5. PICK short : short = SubSeq(lines, i + 1, Len(lines))
    OBVIOUS
  <2>6. PICK long : long = SubSeq(more, i + 1, n)
    OBVIOUS
  <2>7. short \in Seq(S) /\ Len(short) = Len(lines) - i /\ \A k \in 1..(Len(lines) - i) : short[k] = lines[i + k]
    <3>1. lines \in Seq(S) /\ Len(lines) \in 0..Len(lines) /\ i \in 0..Len(lines)
      BY <1>1
    <3>2. \A to \in 0..Len(lines) : \A from \in 0..to : \A p : p = SubSeq(lines, from + 1, to) =>
            p \in Seq(S) /\ Len(p) = to - from /\ \A k \in 1..(to - from) : p[k] = lines[from + k]
      BY ZenonT(60), <3>1, PartOfSequence
    <3>3. QED
      BY ZenonT(60), <2>5, <3>1, <3>2
  <2>8. long \in Seq(S) /\ Len(long) = n - i /\ \A k \in 1..(n - i) : long[k] = more[i + k]
    BY SMTT(60), <1>1, <2>4, <2>6, PartOfSequence
  <2>11. Len(short) <= Len(long)
    BY <1>1, <2>4, <2>7, <2>8
  <2>12. ASSUME NEW k \in 1..Len(short)
         PROVE  short[k] = long[k]
    <3>1. k \in 1..(Len(lines) - i) /\ k \in 1..(n - i) /\ i + k \in 1..Len(lines)
      BY <1>1, <2>4, <2>7, <2>12
    <3>2. QED
      BY <1>1, <2>7, <2>8, <3>1
  <2>9. Len(short) <= Len(long) /\ SubSeq(short, 1, Len(short)) = SubSeq(long, 1, Len(short))
    BY <2>7, <2>8, <2>11, <2>12, SameBeginning
  <2>10. QED
    BY Zenon, <1>3, <2>1, <2>4, <2>5, <2>6, <2>9 DEF Card!Extends, Card!IsPrefix
<1>7. ASSUME before # {}
      PROVE  Card!Extends(Card!BodyFrom(more, i), Card!BodyFrom(lines, i))
  <2>1. Len(Card!BodyFrom(lines, i)) \in Nat
    BY <1>5, <1>7
  <2>2. Len(Card!BodyFrom(lines, i)) <= Len(Card!BodyFrom(lines, i))
    BY <2>1
  <2>3. QED
    BY Zenon, <1>5, <1>7, <2>2 DEF Card!Extends, Card!IsPrefix
<1>8. \A j \in DOMAIN lines : j > i /\ lines[j] \in Card!Headings => before # {}
  BY DEF before
<1>9. QED
  BY Zenon, <1>5, <1>6, <1>7, <1>8

\* A body that a heading follows stays as it is.
LEMMA FinishedBodyStays ==
  ASSUME NEW S, NEW lines \in Seq(S), NEW kind \in S, NEW i \in 0..Len(lines),
         NEW j \in DOMAIN lines, j > i, lines[j] \in Card!Headings
  PROVE  Card!BodyFrom(Append(lines, kind), i) = Card!BodyFrom(lines, i)
BY BodyOnlyGrows

\* What follows a line is a sequence of lines.
LEMMA BodyIsLines ==
  ASSUME NEW S, NEW lines \in Seq(S), NEW i \in 0..Len(lines)
  PROVE  Card!BodyFrom(lines, i) \in Seq(S)
<1> DEFINE heads == {j \in DOMAIN lines : j > i /\ lines[j] \in Card!Headings}
           first == CHOOSE j \in heads : \A k \in heads : j <= k
           to == IF heads = {} THEN Len(lines) ELSE first - 1
<1>1. Len(lines) \in Nat /\ DOMAIN lines = 1..Len(lines) /\ heads \subseteq Nat
  OBVIOUS
<1>2. Card!BodyFrom(lines, i) = SubSeq(lines, i + 1, to)
  BY Zenon DEF Card!BodyFrom
<1>3. ASSUME heads # {}
      PROVE  first \in heads
  <2>1. \E j \in heads : \A k \in heads : j <= k
    BY Zenon, <1>1, <1>3, LeastNumber
  <2>2. QED
    BY Zenon, <2>1
<1>4. first \in heads => first \in (i + 1)..Len(lines)
  BY <1>1
<1> HIDE DEF first
<1>5. to \in i..Len(lines)
  BY <1>1, <1>3, <1>4
<1>6. lines \in Seq(S) /\ to \in 0..Len(lines) /\ i \in 0..to
  BY <1>1, <1>5
<1> HIDE DEF to
<1>7. QED
  BY Zenon, <1>2, <1>6, PartOfSequence

\* A sequence extends itself.
LEMMA ExtendsItself ==
  ASSUME NEW S, NEW s \in Seq(S)
  PROVE  Card!Extends(s, s)
BY DEF Card!Extends, Card!IsPrefix

\* The opening and the sections of a walkthrough.
LEMMA WalkthroughParts ==
  ASSUME NEW text, NEW lines, lines = Card!LinesRead(text), NEW parts, parts = Card!ParseWalkthrough(text)
  PROVE  /\ parts.overview = Card!BodyFrom(lines, 0)
         /\ DOMAIN parts.notes = Card!HeadingsAt(lines, {"note"})
         /\ \A n \in DOMAIN parts.notes :
              /\ parts.notes[n].body = Card!BodyFrom(lines, n)
              /\ parts.notes[n].complete =>
                   \/ text.status = "done"
                   \/ Card!ExtrasOf(lines) # {}
                   \/ \E m \in Card!HeadingsAt(lines, {"note"}) : n < m
<1> DEFINE notes == [n \in Card!HeadingsAt(lines, {"note"}) |->
                      [body |-> Card!BodyFrom(lines, n),
                       complete |-> \/ text.status = "done"
                                    \/ Card!ExtrasOf(lines) # {}
                                    \/ \E m \in Card!HeadingsAt(lines, {"note"}) : n < m]]
<1>1. parts.overview = Card!BodyFrom(lines, 0) /\ parts.notes = notes
  BY Zenon DEF Card!ParseWalkthrough
<1>2. QED
  BY <1>1

\* And of a big picture.
LEMMA BigPictureParts ==
  ASSUME NEW text, NEW lines, lines = Card!LinesRead(text), NEW parts, parts = Card!ParseBigPicture(text)
  PROVE  /\ DOMAIN parts.sections = Card!HeadingsAt(lines, Card!Headings)
         /\ \A n \in DOMAIN parts.sections : parts.sections[n] = Card!BodyFrom(lines, n)
BY DEF Card!ParseBigPicture

\* A text of which the same lines are read, or one more before it is done.
LEMMA MoreIsRead ==
  ASSUME NEW S, NEW a, NEW b, NEW lines \in Seq(S), lines = Card!LinesRead(a),
         Card!LinesRead(b) = lines \/ (a.status # "done" /\ \E kind \in S : Card!LinesRead(b) = Append(lines, kind))
  PROVE  Card!OnlyAddedTo(a, b)
<1>1. PICK more : more = Card!LinesRead(b)
  OBVIOUS
<1>2. Len(lines) \in Nat /\ DOMAIN lines = 1..Len(lines)
  OBVIOUS
<1>3. ASSUME NEW i \in 0..Len(lines)
      PROVE  /\ Card!Extends(Card!BodyFrom(more, i), Card!BodyFrom(lines, i))
             /\ (a.status = "done" \/ \E j \in DOMAIN lines : j > i /\ lines[j] \in Card!Headings) =>
                   Card!BodyFrom(more, i) = Card!BodyFrom(lines, i)
  <2>1. CASE more = lines
    BY Zenon, <2>1, BodyIsLines, ExtendsItself
  <2>2. ASSUME a.status # "done", NEW kind \in S, more = Append(lines, kind)
        PROVE  /\ Card!Extends(Card!BodyFrom(more, i), Card!BodyFrom(lines, i))
               /\ (\E j \in DOMAIN lines : j > i /\ lines[j] \in Card!Headings) =>
                     Card!BodyFrom(more, i) = Card!BodyFrom(lines, i)
    <3>1. lines \in Seq(S) /\ kind \in S /\ i \in 0..Len(lines) /\ more = Append(lines, kind)
      BY <2>2
    <3>2. Card!Extends(Card!BodyFrom(more, i), Card!BodyFrom(lines, i))
      BY Zenon, <3>1, BodyOnlyGrows
    <3>3. ASSUME NEW j \in DOMAIN lines, j > i, lines[j] \in Card!Headings
          PROVE  Card!BodyFrom(more, i) = Card!BodyFrom(lines, i)
      BY Zenon, <3>1, <3>3, FinishedBodyStays
    <3>4. QED
      BY Zenon, <3>2, <3>3
  <2>3. QED
    BY Zenon, <1>1, <2>1, <2>2
<1>4. ASSUME NEW kinds, NEW n \in Card!HeadingsAt(lines, kinds)
      PROVE  n \in Card!HeadingsAt(more, kinds) /\ n \in 1..Len(lines) /\ lines[n] \in kinds
  BY <1>1, <1>2 DEF Card!HeadingsAt
<1>5. PICK before : before = Card!ParseWalkthrough(a)
  OBVIOUS
<1>6. PICK after : after = Card!ParseWalkthrough(b)
  OBVIOUS
<1>7. /\ before.overview = Card!BodyFrom(lines, 0)
      /\ DOMAIN before.notes = Card!HeadingsAt(lines, {"note"})
      /\ \A n \in DOMAIN before.notes :
           /\ before.notes[n].body = Card!BodyFrom(lines, n)
           /\ before.notes[n].complete =>
                \/ a.status = "done"
                \/ Card!ExtrasOf(lines) # {}
                \/ \E m \in Card!HeadingsAt(lines, {"note"}) : n < m
  BY <1>5, WalkthroughParts
<1>15. /\ after.overview = Card!BodyFrom(more, 0)
       /\ DOMAIN after.notes = Card!HeadingsAt(more, {"note"})
       /\ \A n \in DOMAIN after.notes : after.notes[n].body = Card!BodyFrom(more, n)
  BY <1>1, <1>6, WalkthroughParts
<1>8. Card!Extends(after.overview, before.overview)
  <2>1. 0 \in 0..Len(lines)
    BY <1>2
  <2>2. QED
    BY Zenon, <1>3, <1>7, <1>15, <2>1
<1>9. ASSUME NEW n \in DOMAIN before.notes
      PROVE  /\ n \in DOMAIN after.notes
             /\ Card!Extends(after.notes[n].body, before.notes[n].body)
             /\ before.notes[n].complete => after.notes[n].body = before.notes[n].body
  <2>1. n \in DOMAIN after.notes /\ n \in 1..Len(lines) /\ lines[n] = "note" /\ n \in Card!HeadingsAt(lines, {"note"})
    BY <1>4, <1>7, <1>15
  <2>2. n \in 0..Len(lines)
    BY <1>2, <2>1
  <2>3. before.notes[n].body = Card!BodyFrom(lines, n) /\ after.notes[n].body = Card!BodyFrom(more, n)
    BY Zenon, <1>7, <1>15, <2>1
  <2>4. ASSUME before.notes[n].complete
        PROVE  a.status = "done" \/ \E j \in DOMAIN lines : j > n /\ lines[j] \in Card!Headings
    <3>1. CASE a.status = "done"
      BY <3>1
    <3>2. CASE Card!ExtrasOf(lines) # {}
      BY <1>2, <2>1, <3>2 DEF Card!ExtrasOf, Card!HeadingsAt, Card!Headings
    <3>3. CASE \E m \in Card!HeadingsAt(lines, {"note"}) : n < m
      BY <1>2, <2>1, <3>3 DEF Card!HeadingsAt, Card!Headings
    <3>4. QED
      BY Zenon, <1>7, <2>4, <3>1, <3>2, <3>3
  <2>5. QED
    BY Zenon, <1>3, <2>1, <2>2, <2>3, <2>4
<1>10. PICK seen : seen = Card!ParseBigPicture(a).sections
  OBVIOUS
<1>11. PICK now : now = Card!ParseBigPicture(b).sections
  OBVIOUS
<1>12. /\ DOMAIN seen = Card!HeadingsAt(lines, Card!Headings) /\ DOMAIN now = Card!HeadingsAt(more, Card!Headings)
       /\ \A n \in DOMAIN seen : seen[n] = Card!BodyFrom(lines, n)
       /\ \A n \in DOMAIN now : now[n] = Card!BodyFrom(more, n)
  BY ZenonT(60), <1>1, <1>10, <1>11, BigPictureParts
<1>13. ASSUME NEW n \in DOMAIN seen
       PROVE  n \in DOMAIN now /\ Card!Extends(now[n], seen[n])
  <2>1. n \in DOMAIN now /\ n \in 1..Len(lines)
    BY Zenon, <1>4, <1>12
  <2>2. n \in 0..Len(lines)
    BY <1>2, <2>1
  <2>3. QED
    BY Zenon, <1>3, <1>12, <2>1, <2>2
<1>14. QED
  BY Zenon, <1>5, <1>6, <1>8, <1>9, <1>10, <1>11, <1>13 DEF Card!OnlyAddedTo

\* The lesson of a card is a text of lines.
LEMMA CardInitially ==
  ASSUME Card!CardInit
  PROVE  Card!CardInvariant
BY DEF Card!CardInit, Card!CardInvariant, Card!NoText, Card!LessonTexts

\* The steps of a card that touch its lesson.
LEMMA CardSteps ==
  ASSUME [Card!CardNext]_(Card!cardVars)
  PROVE  \/ v6' = v6
         \/ \E file \in StepFiles : Card!ToggleLesson(file)
         \/ Card!TryLessonAgain \/ Card!LessonEnds
         \/ \E kind \in Card!LineKinds : Card!LineArrives(kind)
BY Zenon DEF Card!CardNext, Card!cardVars, Card!ReplyEnds, Card!NextTurnBegins, Card!ThoughtArrives, Card!StepIsShown,
   Card!ThoughtsSettle, Card!PickAnswer, Card!SendAnswers, Card!ToggleSteps, Card!TogglePicture, Card!AskDeeper,
   Card!AnswerCheck, Card!LessonIsKept, Card!AskTask, Card!TaskAnswered, Card!CheckTask, Card!VerdictArrives

\* Every step of a card leaves its lesson a text of lines, and what was read of it is only added to.
LEMMA CardStep ==
  ASSUME Card!CardInvariant, [Card!CardNext]_(Card!cardVars)
  PROVE  Card!CardInvariant' /\ Card!ReadingOnlyGrows
<1> SUFFICES v6' \in Card!LessonTexts /\ (~v6'.again /\ v6'.lines # <<>> => Card!OnlyAddedTo(v6, v6'))
  BY DEF Card!CardInvariant, Card!ReadingOnlyGrows
<1> USE DEF Card!LessonTexts
<1>1. v6 \in Card!LessonTexts
  BY DEF Card!CardInvariant
<1>2. PICK lines : lines = Card!LinesRead(v6)
  OBVIOUS
<1>3. lines \in Seq(Card!LineKinds) /\ (v6.status # "done" => lines = v6.lines)
  BY <1>1, <1>2 DEF Card!LinesRead, Card!LineKinds
<1>4. PICK now : now = v6'
  OBVIOUS
<1>5. CASE v6' = v6
  BY <1>1, <1>2, <1>3, <1>5, MoreIsRead
<1>6. ASSUME NEW status \in {"none", "loading"}, NEW again \in BOOLEAN,
             v6' = [[Card!NoText EXCEPT !.status = status] EXCEPT !.again = again]
      PROVE  v6' \in Card!LessonTexts /\ v6'.lines = <<>>
  <2>1. PICK t : t = Card!NoText
    OBVIOUS
  <2>2. t \in Card!LessonTexts /\ t.lines = <<>>
    BY <2>1 DEF Card!NoText
  <2>3. now = [status |-> status, lines |-> t.lines, cut |-> t.cut, again |-> again]
    BY Zenon, <1>4, <1>6, <2>1, <2>2
  <2>4. now \in Card!LessonTexts /\ now.lines = <<>>
    BY <2>2, <2>3
  <2>5. QED
    BY Zenon, <1>4, <2>4
<1>7. CASE Card!TryLessonAgain \/ \E file \in StepFiles : Card!ToggleLesson(file)
  <2>1. \/ v6' = Card!NoText
        \/ \E status \in {"none", "loading"}, again \in BOOLEAN :
             v6' = [[Card!NoText EXCEPT !.status = status] EXCEPT !.again = again]
    BY Zenon, <1>7 DEF Card!TryLessonAgain, Card!ToggleLesson
  <2>2. Card!NoText \in Card!LessonTexts /\ Card!NoText.lines = <<>>
    BY DEF Card!NoText
  <2>3. QED
    BY Zenon, <1>6, <2>1, <2>2
<1>8. CASE Card!LessonEnds
  <2>1. now \in Card!LessonTexts /\ now.lines = v6.lines /\ v6.status # "done"
    BY <1>1, <1>4, <1>8 DEF Card!LessonEnds
  <2>2. Card!LinesRead(now) = lines \/ Card!LinesRead(now) = Append(lines, "hash")
    BY <1>3, <2>1 DEF Card!LinesRead
  <2>3. QED
    BY <1>2, <1>3, <1>4, <2>1, <2>2, MoreIsRead DEF Card!LineKinds
<1>9. ASSUME NEW kind \in Card!LineKinds, Card!LineArrives(kind)
      PROVE  v6' \in Card!LessonTexts /\ Card!OnlyAddedTo(v6, v6')
  <2>1. now \in Card!LessonTexts /\ now.status = "loading" /\ v6.status = "loading"
        /\ (now.lines = v6.lines \/ now.lines = Append(v6.lines, kind))
    <3>1. CASE now = [[v6 EXCEPT !.cut = TRUE] EXCEPT !.again = FALSE] /\ v6.status = "loading"
      <4>1. now = [status |-> v6.status, lines |-> v6.lines, cut |-> TRUE, again |-> FALSE]
        BY Zenon, <1>1, <3>1
      <4>2. QED
        BY <1>1, <3>1, <4>1
    <3>2. CASE now = [[[v6 EXCEPT !.lines = Append(v6.lines, kind)] EXCEPT !.cut = FALSE] EXCEPT !.again = FALSE]
               /\ v6.status = "loading"
      <4>1. now = [status |-> v6.status, lines |-> Append(v6.lines, kind), cut |-> FALSE, again |-> FALSE]
        BY Zenon, <1>1, <3>2
      <4>2. Append(v6.lines, kind) \in Seq(Card!LineKinds)
        BY <1>1, <1>9
      <4>3. QED
        BY <1>1, <3>2, <4>1, <4>2
    <3>3. QED
      BY Zenon, <1>4, <1>9, <3>1, <3>2 DEF Card!LineArrives
  <2>2. Card!LinesRead(now) = lines \/ Card!LinesRead(now) = Append(lines, kind)
    BY <1>3, <2>1 DEF Card!LinesRead
  <2>3. QED
    BY <1>2, <1>3, <1>4, <2>1, <2>2, MoreIsRead
<1>10. QED
  BY <1>5, <1>6, <1>7, <1>8, <1>9, CardSteps
=============================================================================
