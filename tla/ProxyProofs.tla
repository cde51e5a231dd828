--------------------------------- MODULE ProxyProofs ---------------------------------
(***************************************************************************)
(* Proofs about the two hosts of the proxy, for any number of requests and *)
(* builds, any hostnames, any lifetimes and any time that storage takes:   *)
(* of a published app (PublishedApp), and of a preview behind its token    *)
(* and cookie (PreviewGate).                                               *)
(***************************************************************************)
EXTENDS PublishedApp, PreviewGate, FiniteSetTheorems, TLAPS

-----------------------------------------------------------------------------
(* PublishedApp: an update is no outage, and what is answered is recent. *)

Pointer == {NotPublished} \cup Builds

Visit == [phase : {"idle", "asking", "asked", "unreached", "fetching", "answered"}, page : BOOLEAN,
          began : Nat, asked : Nat, value : Pointer, age : Nat, tried : Pointer, fresh : BOOLEAN,
          answer : {"none", "page", "badRequest", "notPublished", "notFound", "unavailable"}]

TypesInvariant ==
  /\ current \in Pointer /\ now \in Nat
  /\ remembered \in [value : Pointer, expires : Nat, at : Nat]
  /\ visits \in [Visits -> Visit]
  /\ lastTrue \in [Pointer -> Nat]

\* The history is of what the pointer named up to now.
HistoryIsOfThePast ==
  /\ lastTrue[current] = now
  /\ \A b \in Pointer : lastTrue[b] =< now

\* What is remembered was so when storage was asked, and is kept from when it
\* answered.
RememberedWasTrue ==
  /\ remembered.at =< now
  /\ lastTrue[remembered.value] + Wait >= remembered.at
  /\ lastTrue[remembered.value] + TtlOf(remembered.value) + Wait >= remembered.expires

\* A request that asks has begun before, and is answered in time; what it was
\* told was so since it asked.
Asking(visit) ==
  /\ visit.began =< visit.asked /\ visit.asked =< now
  /\ visit.phase \in {"asking", "asked"} => now =< visit.asked + Wait
  /\ visit.phase = "asked" => lastTrue[visit.value] >= visit.asked
  /\ visit.fresh => visit.tried # NotPublished

\* A request that looks for files does so for a pointer whose age it knows.
Fetching(visit) ==
  /\ visit.value # NotPublished
  /\ lastTrue[visit.value] + TtlOf(visit.value) + Wait >= visit.began
  /\ lastTrue[visit.value] + visit.age + Wait >= visit.began
  /\ visit.fresh => lastTrue[visit.value] >= visit.began
  /\ visit.began =< now

\* What was answered is what the two properties speak of.
Answered(visit) ==
  /\ visit.answer = "page" => lastTrue[visit.value] + TtlOf(visit.value) + Wait >= visit.began
  /\ visit.answer = "notPublished" => lastTrue[NotPublished] + MissingTtl + Wait >= visit.began
  /\ (visit.answer = "notFound" /\ visit.tried = 0) =>
       lastTrue[visit.value] + MinReread + Wait >= visit.began

VisitInvariant(visit) ==
  /\ visit.phase \in {"asking", "asked", "unreached"} => Asking(visit)
  /\ visit.phase = "fetching" => Fetching(visit)
  /\ visit.phase = "answered" => Answered(visit)

\* The inductive invariant.
ServingInvariant ==
  /\ TypesInvariant
  /\ HistoryIsOfThePast
  /\ RememberedWasTrue
  /\ \A v \in Visits : VisitInvariant(visits[v])

Lifetimes == PointerTtl \in Nat /\ MissingTtl \in Nat /\ MinReread \in Nat /\ Wait \in Nat /\ MaxBuilds \in Nat

-----------------------------------------------------------------------------
(* Storage and the clock change nothing the requests were told. *)

\* A pointer is remembered for a natural time, whatever it is.
LEMMA TtlIsNatural ==
  ASSUME Lifetimes, NEW value
  PROVE  TtlOf(value) \in Nat
BY DEF Lifetimes, TtlOf

\* What was told stays as recent as it was, when the history only grows.
LEMMA StorageMoves ==
  ASSUME Lifetimes, ServingInvariant,
         TypesInvariant', HistoryIsOfThePast', UNCHANGED <<remembered, visits>>,
         now' = now \/ now' = now + 1,
         \A b \in Pointer : lastTrue'[b] >= lastTrue[b],
         \A v \in Visits : visits[v].phase \in {"asking", "asked"} => now' =< visits[v].asked + Wait
  PROVE  ServingInvariant'
<1> USE DEF Lifetimes
<1>1. RememberedWasTrue'
  <2>1. remembered.value \in Pointer /\ remembered.expires \in Nat /\ remembered.at \in Nat
    BY DEF ServingInvariant, TypesInvariant
  <2>2. lastTrue[remembered.value] \in Nat /\ lastTrue'[remembered.value] \in Nat
        /\ lastTrue'[remembered.value] >= lastTrue[remembered.value] /\ now \in Nat
    BY <2>1 DEF ServingInvariant, TypesInvariant
  <2>3. TtlOf(remembered.value) \in Nat /\ TtlOf(remembered.value)' = TtlOf(remembered.value)
    BY DEF TtlOf
  <2>4. QED
    BY <2>1, <2>2, <2>3 DEF ServingInvariant, RememberedWasTrue, TtlOf
<1>2. ASSUME NEW v \in Visits
      PROVE  VisitInvariant(visits[v])'
  <2>1. visits[v] \in Visit /\ visits'[v] = visits[v]
    BY DEF ServingInvariant, TypesInvariant
  <2>2. visits[v].value \in Pointer /\ visits[v].began \in Nat /\ visits[v].asked \in Nat
        /\ visits[v].age \in Nat
    BY <2>1 DEF Visit
  <2>3. lastTrue[visits[v].value] \in Nat /\ lastTrue'[visits[v].value] \in Nat
        /\ lastTrue'[visits[v].value] >= lastTrue[visits[v].value] /\ now \in Nat
        /\ lastTrue[NotPublished] \in Nat /\ lastTrue'[NotPublished] \in Nat
        /\ lastTrue'[NotPublished] >= lastTrue[NotPublished]
    BY <2>2 DEF ServingInvariant, TypesInvariant, Pointer
  <2>4. VisitInvariant(visits[v])
    BY DEF ServingInvariant
  <2>5. visits[v].phase \in {"asking", "asked"} => now' =< visits[v].asked + Wait
    OBVIOUS
  <2>6. CASE visits[v].phase \in {"asking", "asked", "unreached"}
    BY <2>1, <2>2, <2>3, <2>4, <2>5, <2>6 DEF VisitInvariant, Asking
  <2>7. CASE visits[v].phase = "fetching"
    BY <2>1, <2>2, <2>3, <2>4, <2>7, TtlIsNatural DEF VisitInvariant, Fetching, TtlOf
  <2>8. CASE visits[v].phase = "answered"
    BY <2>1, <2>2, <2>3, <2>4, <2>8, TtlIsNatural DEF VisitInvariant, Answered, TtlOf
  <2>9. CASE visits[v].phase = "idle"
    BY <2>1, <2>9 DEF VisitInvariant
  <2>10. QED
    BY <2>1, <2>6, <2>7, <2>8, <2>9 DEF Visit
<1>3. QED
  BY <1>1, <1>2 DEF ServingInvariant

\* A build put up or taken down, and time, leave the answers as recent as allowed.
LEMMA StorageKeeps ==
  ASSUME Lifetimes, ServingInvariant,
         PublishBuild \/ TakeDown \/ Passes \/ (\E b \in Builds : SweepBuild(b))
  PROVE  ServingInvariant'
<1>0. /\ current \in Pointer /\ now \in Nat /\ lastTrue \in [Pointer -> Nat] /\ lastTrue[current] = now
      /\ \A b \in Pointer : lastTrue[b] \in Nat /\ lastTrue[b] =< now
      /\ \A v \in Visits : visits[v].phase \in {"asking", "asked"} => now =< visits[v].asked + Wait
  <2>1. \A v \in Visits : visits[v].phase \in {"asking", "asked"} => now =< visits[v].asked + Wait
    BY DEF ServingInvariant, VisitInvariant, Asking
  <2>2. QED
    BY <2>1 DEF ServingInvariant, TypesInvariant, HistoryIsOfThePast
<1>1. CASE PublishBuild
  <2>1. PICK b \in Builds :
          /\ current' = b
          /\ lastTrue' = [lastTrue EXCEPT ![b] = now, ![current] = now]
          /\ UNCHANGED <<remembered, visits, now>>
    BY <1>1 DEF PublishBuild
  <2>2. b \in Pointer
    BY DEF Pointer
  <2>3. lastTrue' \in [Pointer -> Nat] /\ lastTrue'[b] = now
        /\ \A c \in Pointer : lastTrue'[c] >= lastTrue[c] /\ lastTrue'[c] =< now
    BY <1>0, <2>1, <2>2
  <2>4. TypesInvariant' /\ HistoryIsOfThePast'
    BY <2>1, <2>2, <2>3 DEF ServingInvariant, TypesInvariant, HistoryIsOfThePast
  <2>5. QED
    BY <1>0, <2>1, <2>3, <2>4, StorageMoves
<1>2. CASE TakeDown
  <2>1. /\ current' = 0
        /\ lastTrue' = [lastTrue EXCEPT ![0] = now, ![current] = now]
        /\ UNCHANGED <<remembered, visits, now>>
    BY <1>2 DEF TakeDown
  <2>2. 0 \in Pointer
    BY DEF Pointer, NotPublished
  <2>3. lastTrue' \in [Pointer -> Nat] /\ lastTrue'[0] = now
        /\ \A c \in Pointer : lastTrue'[c] >= lastTrue[c] /\ lastTrue'[c] =< now
    BY <1>0, <2>1, <2>2
  <2>4. TypesInvariant' /\ HistoryIsOfThePast'
    BY <2>1, <2>2, <2>3 DEF ServingInvariant, TypesInvariant, HistoryIsOfThePast
  <2>5. QED
    BY <1>0, <2>1, <2>3, <2>4, StorageMoves
<1>3. CASE Passes
  <2>1. /\ now' = now + 1
        /\ lastTrue' = [lastTrue EXCEPT ![current] = now + 1]
        /\ UNCHANGED <<current, remembered, visits>>
        /\ \A v \in Visits : visits[v].phase \in {"asking", "asked"} => now < visits[v].asked + Wait
    BY <1>3 DEF Passes
  <2>2. lastTrue' \in [Pointer -> Nat] /\ lastTrue'[current] = now + 1
        /\ \A c \in Pointer : lastTrue'[c] >= lastTrue[c] /\ lastTrue'[c] =< now + 1
    BY <1>0, <2>1
  <2>3. TypesInvariant' /\ HistoryIsOfThePast'
    BY <1>0, <2>1, <2>2 DEF ServingInvariant, TypesInvariant, HistoryIsOfThePast
  <2>4. \A v \in Visits : visits[v].phase \in {"asking", "asked"} => now' =< visits[v].asked + Wait
    BY <1>0, <2>1 DEF ServingInvariant, TypesInvariant, Visit, Lifetimes
  <2>5. QED
    BY <2>1, <2>2, <2>3, <2>4, StorageMoves
<1>4. CASE \E b \in Builds : SweepBuild(b)
  <2>1. UNCHANGED <<current, remembered, visits, now, lastTrue>>
    BY <1>4 DEF SweepBuild
  <2>2. TypesInvariant' /\ HistoryIsOfThePast'
    BY <2>1 DEF ServingInvariant, TypesInvariant, HistoryIsOfThePast
  <2>3. QED
    BY <1>0, <2>1, <2>2, StorageMoves
<1>5. QED
  BY <1>1, <1>2, <1>3, <1>4

-----------------------------------------------------------------------------
(* The handler. *)

\* A step of one request, which leaves what is remembered in order.
LEMMA VisitPut ==
  ASSUME Lifetimes, ServingInvariant, NEW v \in Visits, NEW w \in Visit,
         visits' = [visits EXCEPT ![v] = w], VisitInvariant(w),
         remembered' \in [value : Pointer, expires : Nat, at : Nat], RememberedWasTrue',
         UNCHANGED <<current, now, lastTrue>>
  PROVE  ServingInvariant'
<1>1. TypesInvariant' /\ HistoryIsOfThePast'
  BY DEF ServingInvariant, TypesInvariant, HistoryIsOfThePast
<1>2. ASSUME NEW u \in Visits
      PROVE  VisitInvariant(visits[u])'
  <2>1. visits'[u] = IF u = v THEN w ELSE visits[u]
    BY DEF ServingInvariant, TypesInvariant
  <2>2. VisitInvariant(visits'[u])
    BY <2>1 DEF ServingInvariant
  <2>3. QED
    BY <2>2 DEF VisitInvariant, Asking, Fetching, Answered, TtlOf
<1>3. QED
  BY <1>1, <1>2 DEF ServingInvariant

\* What is remembered stays in order when it is left alone.
LEMMA RememberedStays ==
  ASSUME ServingInvariant, UNCHANGED <<remembered, now, lastTrue>>
  PROVE  remembered' \in [value : Pointer, expires : Nat, at : Nat] /\ RememberedWasTrue'
BY DEF ServingInvariant, TypesInvariant, RememberedWasTrue, TtlOf

\* The facts about one request that every step below starts from.
LEMMA VisitFacts ==
  ASSUME ServingInvariant, NEW v \in Visits
  PROVE  /\ visits[v] \in Visit /\ VisitInvariant(visits[v])
         /\ visits[v].value \in Pointer /\ visits[v].began \in Nat /\ visits[v].asked \in Nat
         /\ visits[v].age \in Nat /\ visits[v].tried \in Pointer
         /\ current \in Pointer /\ now \in Nat
         /\ NotPublished \in Pointer /\ NotPublished = 0
         /\ \A b \in Pointer : lastTrue[b] \in Nat
BY DEF ServingInvariant, TypesInvariant, Visit, Pointer, NotPublished

\* An answer changes a request's phase and answer, and nothing it was told.
LEMMA AnswerIsVisit ==
  ASSUME NEW visit \in Visit,
         NEW answer \in {"none", "page", "badRequest", "notPublished", "notFound", "unavailable"}
  PROVE  /\ Answer(visit, answer) \in Visit
         /\ Answer(visit, answer).phase = "answered" /\ Answer(visit, answer).answer = answer
         /\ Answer(visit, answer).value = visit.value /\ Answer(visit, answer).began = visit.began
         /\ Answer(visit, answer).tried = visit.tried
BY DEF Answer, Visit

\* A pointer as recent as it is remembered for is served from.
LEMMA WithPointerInvariant ==
  ASSUME Lifetimes, NEW visit \in Visit, NEW value \in Pointer, NEW at \in Nat, at =< now,
         now \in Nat, visit.began =< now, \A b \in Pointer : lastTrue[b] \in Nat,
         lastTrue[value] + TtlOf(value) + Wait >= visit.began,
         lastTrue[value] + (now - at) + Wait >= visit.began,
         visit.fresh => lastTrue[value] >= visit.began
  PROVE  WithPointer(visit, value, at) \in Visit /\ VisitInvariant(WithPointer(visit, value, at))
<1>1. CASE value = NotPublished
  <2>1. WithPointer(visit, value, at) = Answer(visit, "notPublished")
    BY <1>1 DEF WithPointer
  <2>2. lastTrue[NotPublished] + MissingTtl + Wait >= visit.began
    BY <1>1 DEF TtlOf
  <2>3. QED
    BY <2>1, <2>2, AnswerIsVisit DEF VisitInvariant, Answered
<1>2. CASE value # NotPublished
  <2> DEFINE w == [visit EXCEPT !.phase = "fetching", !.value = value, !.age = now - at, !.tried = 0]
  <2>1. WithPointer(visit, value, at) = w
    BY <1>2 DEF WithPointer
  <2>2. 0 \in Pointer /\ now - at \in Nat
    BY DEF Pointer, NotPublished
  <2>3. /\ w \in Visit /\ w.phase = "fetching" /\ w.value = value /\ w.age = now - at
        /\ w.began = visit.began /\ w.fresh = visit.fresh
    BY <2>2 DEF Visit
  <2> HIDE DEF w
  <2>4. QED
    BY <1>2, <2>1, <2>3 DEF VisitInvariant, Fetching
<1>3. QED
  BY <1>1, <1>2

\* A request that asks storage now.
LEMMA AskInvariant ==
  ASSUME Lifetimes, NEW visit \in Visit, NEW fresh \in BOOLEAN, NEW tried \in Pointer,
         now \in Nat, visit.began =< now, fresh = TRUE => tried # NotPublished
  PROVE  /\ [Ask(visit, fresh) EXCEPT !.tried = tried] \in Visit
         /\ VisitInvariant([Ask(visit, fresh) EXCEPT !.tried = tried])
<1> DEFINE w == [Ask(visit, fresh) EXCEPT !.tried = tried]
<1>1. /\ w \in Visit /\ w.phase = "asking" /\ w.began = visit.began /\ w.asked = now
      /\ w.fresh = fresh /\ w.tried = tried
  BY DEF Ask, Visit
<1> HIDE DEF w
<1>2. VisitInvariant(w)
  BY <1>1 DEF VisitInvariant, Asking, Lifetimes
<1>3. QED
  BY <1>1, <1>2 DEF w

\* A request that arrives reads what is remembered, or asks storage.
LEMMA HandleKeeps ==
  ASSUME Lifetimes, ServingInvariant, NEW v \in Visits,
         NEW host \in HostKinds, NEW path \in PathKinds, Handle(v, host, path)
  PROVE  ServingInvariant'
<1> DEFINE visit == [Idle EXCEPT !.page = FindsPage(path), !.began = now]
           w == IF path = "refused" THEN Answer(visit, "badRequest")
                ELSE IF remembered.expires > now THEN WithPointer(visit, remembered.value, remembered.at)
                ELSE Ask(visit, FALSE)
<1>1. visits' = [visits EXCEPT ![v] = w] /\ UNCHANGED <<current, remembered, now, lastTrue>>
  BY DEF Handle
<1>2. now \in Nat /\ NotPublished \in Pointer /\ 0 \in Pointer /\ \A b \in Pointer : lastTrue[b] \in Nat
  BY VisitFacts DEF Pointer, NotPublished
<1>3. FindsPage(path) \in BOOLEAN
  BY DEF FindsPage
<1>4. visit \in Visit /\ visit.began = now /\ visit.fresh = FALSE /\ visit.tried = 0
  BY <1>2, <1>3 DEF Idle, Visit
<1> HIDE DEF visit
<1>5. w \in Visit /\ VisitInvariant(w)
  <2>1. CASE path = "refused"
    BY <2>1, <1>4, AnswerIsVisit DEF VisitInvariant, Answered
  <2>2. CASE path # "refused" /\ remembered.expires > now
    <3>1. /\ remembered.value \in Pointer /\ remembered.at \in Nat /\ remembered.expires \in Nat
          /\ RememberedWasTrue
      BY DEF ServingInvariant, TypesInvariant
    <3>2. lastTrue[remembered.value] \in Nat /\ TtlOf(remembered.value) \in Nat /\ Wait \in Nat
      BY <3>1, <1>2, TtlIsNatural DEF Lifetimes
    <3>3. /\ lastTrue[remembered.value] + TtlOf(remembered.value) + Wait >= visit.began
          /\ lastTrue[remembered.value] + (now - remembered.at) + Wait >= visit.began
          /\ remembered.at =< now
      BY <1>2, <1>4, <2>2, <3>1, <3>2 DEF RememberedWasTrue
    <3>4. w = WithPointer(visit, remembered.value, remembered.at)
      BY <2>2
    <3> HIDE DEF w
    <3>5. QED
      BY <1>2, <1>4, <3>1, <3>3, <3>4, WithPointerInvariant
  <2>3. CASE path # "refused" /\ ~(remembered.expires > now)
    <3>1. w = [Ask(visit, FALSE) EXCEPT !.tried = 0]
      <4>1. w = Ask(visit, FALSE)
        BY <2>3
      <4>2. Ask(visit, FALSE) \in Visit /\ Ask(visit, FALSE).tried = 0
        BY <1>2, <1>4 DEF Ask, Visit
      <4>3. Ask(visit, FALSE) = [Ask(visit, FALSE) EXCEPT !.tried = 0]
        BY <4>2 DEF Visit
      <4>4. QED
        BY <4>1, <4>3
    <3>2. visit.began =< now
      BY <1>2, <1>4
    <3>3. /\ [Ask(visit, FALSE) EXCEPT !.tried = 0] \in Visit
          /\ VisitInvariant([Ask(visit, FALSE) EXCEPT !.tried = 0])
      BY <1>2, <1>4, <3>2, AskInvariant
    <3> HIDE DEF w
    <3>4. QED
      BY <3>1, <3>3
  <2>4. QED
    BY <2>1, <2>2, <2>3
<1> HIDE DEF w
<1>6. QED
  BY <1>1, <1>5, RememberedStays, VisitPut

\* What storage says is as recent as the moment it says it.
LEMMA ReadPointerKeeps ==
  ASSUME Lifetimes, ServingInvariant, NEW v \in Visits, ReadPointer(v)
  PROVE  ServingInvariant'
<1>1. visits[v] \in Visit /\ visits[v].phase = "asking" /\ Asking(visits[v])
      /\ UNCHANGED <<current, remembered, now, lastTrue>>
  BY VisitFacts DEF ReadPointer, VisitInvariant
<1>2. /\ current \in Pointer /\ now \in Nat /\ lastTrue[current] = now
      /\ visits[v].asked \in Nat /\ visits[v].began \in Nat /\ visits \in [Visits -> Visit]
  BY VisitFacts DEF ServingInvariant, HistoryIsOfThePast, TypesInvariant
<1>3. CASE visits' = [visits EXCEPT ![v].phase = "asked", ![v].value = current]
  <2> DEFINE w == [visits[v] EXCEPT !.phase = "asked", !.value = current]
  <2>1. visits' = [visits EXCEPT ![v] = w]
    BY <1>3, <1>2
  <2>2. /\ w \in Visit /\ w.phase = "asked" /\ w.value = current /\ w.began = visits[v].began
        /\ w.asked = visits[v].asked /\ w.fresh = visits[v].fresh /\ w.tried = visits[v].tried
    BY <1>1, <1>2 DEF Visit
  <2> HIDE DEF w
  <2>3. VisitInvariant(w)
    BY <1>1, <1>2, <2>2 DEF VisitInvariant, Asking
  <2>4. QED
    BY <1>1, <2>1, <2>2, <2>3, RememberedStays, VisitPut
<1>4. CASE visits' = [visits EXCEPT ![v].phase = "unreached"]
  <2> DEFINE w == [visits[v] EXCEPT !.phase = "unreached"]
  <2>1. visits' = [visits EXCEPT ![v] = w]
    BY <1>4, <1>2
  <2>2. /\ w \in Visit /\ w.phase = "unreached" /\ w.began = visits[v].began
        /\ w.asked = visits[v].asked /\ w.fresh = visits[v].fresh /\ w.tried = visits[v].tried
    BY <1>1 DEF Visit
  <2> HIDE DEF w
  <2>3. VisitInvariant(w)
    BY <1>1, <1>2, <2>2 DEF VisitInvariant, Asking
  <2>4. QED
    BY <1>1, <2>1, <2>2, <2>3, RememberedStays, VisitPut
<1>5. QED
  BY <1>3, <1>4 DEF ReadPointer

\* What storage said is remembered as of now, which is soon after it was asked.
LEMMA PointerForKeeps ==
  ASSUME Lifetimes, ServingInvariant, NEW v \in Visits, PointerFor(v)
  PROVE  ServingInvariant'
<1> DEFINE visit == visits[v]
           w == IF visit.phase = "unreached"
                THEN Answer(visit, IF visit.fresh THEN "notFound" ELSE "unavailable")
                ELSE IF visit.fresh /\ visit.value = visit.tried THEN Answer(visit, "notFound")
                ELSE WithPointer(visit, visit.value, now)
<1>1. /\ visits' = [visits EXCEPT ![v] = w] /\ UNCHANGED <<current, now, lastTrue>>
      /\ visit.phase \in {"asked", "unreached"}
      /\ remembered' = IF visit.phase = "unreached" THEN remembered
                       ELSE Remember(visit.value, TtlOf(visit.value))
  BY DEF PointerFor
<1>2. /\ visit \in Visit /\ Asking(visit) /\ visit.value \in Pointer /\ visit.began \in Nat
      /\ visit.asked \in Nat /\ visit.tried \in Pointer /\ now \in Nat
      /\ \A b \in Pointer : lastTrue[b] \in Nat
  BY <1>1, VisitFacts DEF VisitInvariant
<1> HIDE DEF visit
<1>3. TtlOf(visit.value) \in Nat /\ Wait \in Nat
  BY TtlIsNatural DEF Lifetimes
<1>4. visit.phase = "asked" => lastTrue[visit.value] >= visit.asked /\ now =< visit.asked + Wait
  BY <1>2 DEF Asking
<1>5. remembered' \in [value : Pointer, expires : Nat, at : Nat] /\ RememberedWasTrue'
  <2>1. CASE visit.phase = "unreached"
    BY <1>1, <2>1, RememberedStays
  <2>2. CASE visit.phase = "asked"
    <3>1. remembered' = [value |-> visit.value, expires |-> now + TtlOf(visit.value), at |-> now]
      BY <1>1, <2>2 DEF Remember
    <3>2. remembered' \in [value : Pointer, expires : Nat, at : Nat]
      BY <1>2, <1>3, <3>1
    <3>3. /\ remembered'.value = visit.value /\ remembered'.at = now
          /\ remembered'.expires = now + TtlOf(visit.value)
      BY <3>1
    <3>4. TtlOf(remembered.value)' = TtlOf(visit.value)
      BY <3>3 DEF TtlOf
    <3>5. lastTrue[visit.value] + Wait >= now /\ lastTrue[visit.value] \in Nat
      BY <1>2, <1>3, <1>4, <2>2
    <3>6. QED
      BY <1>1, <1>2, <1>3, <3>2, <3>3, <3>4, <3>5 DEF RememberedWasTrue
  <2>3. QED
    BY <1>1, <2>1, <2>2
<1>6. w \in Visit /\ VisitInvariant(w)
  <2>1. CASE visit.phase = "unreached" /\ visit.fresh
    BY <1>2, <2>1, AnswerIsVisit DEF VisitInvariant, Answered, Asking, NotPublished
  <2>2. CASE visit.phase = "unreached" /\ ~visit.fresh
    BY <1>2, <2>2, AnswerIsVisit DEF VisitInvariant, Answered
  <2>3. CASE visit.phase = "asked" /\ visit.fresh /\ visit.value = visit.tried
    BY <1>2, <2>3, AnswerIsVisit DEF VisitInvariant, Answered, Asking, NotPublished
  <2>4. CASE visit.phase = "asked" /\ ~(visit.fresh /\ visit.value = visit.tried)
    <3>1. w = WithPointer(visit, visit.value, now)
      BY <2>4
    <3>2. /\ lastTrue[visit.value] >= visit.began /\ visit.began =< now
          /\ lastTrue[visit.value] + TtlOf(visit.value) + Wait >= visit.began
          /\ lastTrue[visit.value] + (now - now) + Wait >= visit.began
      BY <1>2, <1>3, <1>4, <2>4 DEF Asking
    <3> HIDE DEF w
    <3>3. QED
      BY <1>2, <3>1, <3>2, WithPointerInvariant
  <2>5. QED
    BY <1>1, <2>1, <2>2, <2>3, <2>4
<1> HIDE DEF w
<1>7. QED
  BY <1>1, <1>5, <1>6, VisitPut

\* A file that is found or missing, the retry under a pointer read anew included.
LEMMA FetchFirstKeeps ==
  ASSUME Lifetimes, ServingInvariant, NEW v \in Visits, FetchFirst(v)
  PROVE  ServingInvariant'
<1> DEFINE visit == visits[v]
<1>1. /\ visit \in Visit /\ Fetching(visit) /\ visit.value \in Pointer /\ visit.began \in Nat
      /\ visit.age \in Nat /\ now \in Nat /\ \A b \in Pointer : lastTrue[b] \in Nat
      /\ UNCHANGED <<current, remembered, now, lastTrue>>
  BY VisitFacts DEF VisitInvariant, FetchFirst
<1>2. PICK w : /\ visits' = [visits EXCEPT ![v] = w]
               /\ \/ w = Answer(visit, "page")
                  \/ Rereads(visit) /\ w = [Ask(visit, TRUE) EXCEPT !.tried = visit.value]
                  \/ ~Rereads(visit) /\ w = Answer(visit, "notFound")
                  \/ w = Answer(visit, "unavailable")
  BY DEF FetchFirst
<1> HIDE DEF visit
<1>3. CASE w = Answer(visit, "page")
  <2>1. w \in Visit /\ VisitInvariant(w)
    BY <1>1, <1>3, AnswerIsVisit DEF VisitInvariant, Answered, Fetching
  <2>2. QED
    BY <1>1, <1>2, <2>1, RememberedStays, VisitPut
<1>4. CASE Rereads(visit) /\ w = [Ask(visit, TRUE) EXCEPT !.tried = visit.value]
  <2>1. visit.began =< now /\ visit.value # NotPublished
    BY <1>1 DEF Fetching
  <2>2. w \in Visit /\ VisitInvariant(w)
    BY <1>1, <1>4, <2>1, AskInvariant
  <2>3. QED
    BY <1>1, <1>2, <2>2, RememberedStays, VisitPut
<1>5. CASE ~Rereads(visit) /\ w = Answer(visit, "notFound")
  <2>1. lastTrue[visit.value] \in Nat /\ Wait \in Nat /\ MinReread \in Nat /\ visit.fresh \in BOOLEAN
    BY <1>1 DEF Lifetimes, Visit
  <2>2. visit.fresh \/ visit.age =< MinReread
    BY <1>1, <1>5, <2>1 DEF Rereads
  <2>3. lastTrue[visit.value] + MinReread + Wait >= visit.began
    BY <1>1, <2>1, <2>2 DEF Fetching
  <2>4. w \in Visit /\ VisitInvariant(w)
    BY <1>1, <1>5, <2>3, AnswerIsVisit DEF VisitInvariant, Answered
  <2>5. QED
    BY <1>1, <1>2, <2>4, RememberedStays, VisitPut
<1>6. CASE w = Answer(visit, "unavailable")
  <2>1. w \in Visit /\ VisitInvariant(w)
    BY <1>1, <1>6, AnswerIsVisit DEF VisitInvariant, Answered
  <2>2. QED
    BY <1>1, <1>2, <2>1, RememberedStays, VisitPut
<1>7. QED
  BY <1>2, <1>3, <1>4, <1>5, <1>6

\* A request that was answered is forgotten.
LEMMA SentKeeps ==
  ASSUME Lifetimes, ServingInvariant, NEW v \in Visits, Sent(v)
  PROVE  ServingInvariant'
<1>1. Idle \in Visit /\ VisitInvariant(Idle)
  <2>1. Idle \in Visit
    BY DEF Idle, Visit, Pointer, NotPublished
  <2>2. Idle.phase = "idle"
    BY DEF Idle
  <2>3. VisitInvariant(Idle)
    BY <2>2 DEF VisitInvariant
  <2>4. QED
    BY <2>1, <2>3
<1>2. QED
  BY <1>1, RememberedStays, VisitPut DEF Sent

\* A map that was cleared remembers nothing, which was so at the beginning.
LEMMA ClearedKeeps ==
  ASSUME Lifetimes, ServingInvariant, Cleared
  PROVE  ServingInvariant'
<1>1. remembered' = Nothing /\ UNCHANGED <<current, visits, now, lastTrue>>
  BY DEF Cleared
<1>2. 0 \in Pointer /\ now \in Nat /\ lastTrue[0] \in Nat
  BY DEF ServingInvariant, TypesInvariant, Pointer, NotPublished
<1>3. TypesInvariant' /\ HistoryIsOfThePast'
  BY <1>1, <1>2 DEF ServingInvariant, TypesInvariant, HistoryIsOfThePast, Nothing, NotPublished
<1>4. RememberedWasTrue'
  BY <1>1, <1>2 DEF RememberedWasTrue, Nothing, NotPublished, Lifetimes, TtlOf
<1>5. ASSUME NEW v \in Visits
      PROVE  VisitInvariant(visits[v])'
  BY <1>1 DEF ServingInvariant, VisitInvariant, Asking, Fetching, Answered, TtlOf
<1>6. QED
  BY <1>3, <1>4, <1>5 DEF ServingInvariant

-----------------------------------------------------------------------------

\* The proxy starts with nothing remembered and nobody asking.
LEMMA ServingInitially ==
  ASSUME Lifetimes, PublishedInit
  PROVE  ServingInvariant
<1>1. TypesInvariant
  BY DEF PublishedInit, TypesInvariant, Pointer, NotPublished, Nothing, Idle, Visit
<1>2. HistoryIsOfThePast
  BY DEF PublishedInit, HistoryIsOfThePast, Pointer, NotPublished
<1>3. RememberedWasTrue
  BY DEF PublishedInit, RememberedWasTrue, Nothing, NotPublished, Lifetimes, TtlOf
<1>4. ASSUME NEW v \in Visits
      PROVE  VisitInvariant(visits[v])
  BY DEF PublishedInit, VisitInvariant, Idle
<1>5. QED
  BY <1>1, <1>2, <1>3, <1>4 DEF ServingInvariant

\* Every step of the published apps' host keeps the invariant.
LEMMA ServingStep ==
  ASSUME Lifetimes, ServingInvariant, [PublishedNext]_publishedVars
  PROVE  ServingInvariant'
<1>1. CASE PublishBuild \/ TakeDown \/ Passes \/ (\E b \in Builds : SweepBuild(b))
  BY <1>1, StorageKeeps
<1>2. CASE Cleared
  BY <1>2, ClearedKeeps
<1>3. ASSUME NEW v \in Visits, NEW host \in HostKinds, NEW path \in PathKinds, Handle(v, host, path)
      PROVE  ServingInvariant'
  BY <1>3, HandleKeeps
<1>4. ASSUME NEW v \in Visits, ReadPointer(v)
      PROVE  ServingInvariant'
  BY <1>4, ReadPointerKeeps
<1>5. ASSUME NEW v \in Visits, PointerFor(v)
      PROVE  ServingInvariant'
  BY <1>5, PointerForKeeps
<1>6. ASSUME NEW v \in Visits, FetchFirst(v)
      PROVE  ServingInvariant'
  BY <1>6, FetchFirstKeeps
<1>7. ASSUME NEW v \in Visits, Sent(v)
      PROVE  ServingInvariant'
  BY <1>7, SentKeeps
<1>8. CASE UNCHANGED publishedVars
  <2>1. TypesInvariant' /\ HistoryIsOfThePast' /\ UNCHANGED <<remembered, visits, now, lastTrue>>
    BY <1>8 DEF publishedVars, ServingInvariant, TypesInvariant, HistoryIsOfThePast
  <2>2. RememberedWasTrue'
    BY <2>1, RememberedStays
  <2>3. ASSUME NEW v \in Visits
        PROVE  VisitInvariant(visits[v])'
    BY <2>1 DEF ServingInvariant, VisitInvariant, Asking, Fetching, Answered, TtlOf
  <2>4. QED
    BY <2>1, <2>2, <2>3 DEF ServingInvariant
<1>9. QED
  BY <1>1, <1>2, <1>3, <1>4, <1>5, <1>6, <1>7, <1>8 DEF PublishedNext

\* The answers of a published app's host are never older than its pointer is
\* remembered for, after the time that storage takes (published-server.js).
THEOREM AnswersStayRecent ==
  ASSUME Lifetimes
  PROVE  PublishedSpec => []AnswersAreRecent
<1>1. PublishedInit => ServingInvariant
  BY ServingInitially
<1>2. ServingInvariant /\ [PublishedNext]_publishedVars => ServingInvariant'
  BY ServingStep
<1>3. ServingInvariant => AnswersAreRecent
  BY DEF ServingInvariant, VisitInvariant, Answered, AnswersAreRecent, TtlOf
<1>4. QED
  BY <1>1, <1>2, <1>3, PTL DEF PublishedSpec

\* A page is missing for want of its build only when the pointer moved around
\* the time the request began: an update is no outage (published-server.js).
THEOREM UpdatesAreNoOutage ==
  ASSUME Lifetimes
  PROVE  PublishedSpec => []UpdateIsNoOutage
<1>1. PublishedInit => ServingInvariant
  BY ServingInitially
<1>2. ServingInvariant /\ [PublishedNext]_publishedVars => ServingInvariant'
  BY ServingStep
<1>3. ServingInvariant => UpdateIsNoOutage
  BY DEF ServingInvariant, VisitInvariant, Answered, UpdateIsNoOutage
<1>4. QED
  BY <1>1, <1>2, <1>3, PTL DEF PublishedSpec

-----------------------------------------------------------------------------
(* PreviewGate: access ends with the membership. *)

\* What the proxy may still accept was made while the person was a member.
MadeForAMember ==
  /\ clock \in Nat \ {0} /\ lastMember \in Nat
  /\ lastMember =< clock /\ (member => lastMember = clock)
  /\ link.expires \in Nat /\ link.expires =< lastMember + TokenTtl
  /\ accessCookie \in [Hosts -> Nat]
  /\ \A h \in Hosts : accessCookie[h] =< lastMember + TokenTtl

\* The inductive invariant.
GateInvariant ==
  /\ MadeForAMember
  /\ reply.at \in Nat
  /\ AccessEndsWithMembership

\* Nobody holds a token before a member asked for a link.
LEMMA GateInitially ==
  ASSUME TokenTtl \in Nat, GateInit
  PROVE  GateInvariant
BY DEF GateInit, GateInvariant, MadeForAMember, AccessEndsWithMembership, NoLink

\* A request changes cookies only to what the link's token is, and is served
\* only while the cookie lasts.
LEMMA ServeKeeps ==
  ASSUME TokenTtl \in Nat, GateInvariant, NEW h \in Hosts, Serve(h)
  PROVE  GateInvariant'
<1> USE DEF GateInvariant, MadeForAMember, AccessEndsWithMembership, Serve, Replied
<1>1. CASE NoTarget(h)
  BY <1>1 DEF NoTarget, ClassifyMissingRoute
<1>2. CASE ExchangeToken(h)
  BY <1>2 DEF ExchangeToken, AccessCookie
<1>3. CASE Unauthorized(h)
  BY <1>3 DEF Unauthorized
<1>4. CASE \E isPageLoad \in BOOLEAN : Forwarded(h, isPageLoad)
  BY <1>4 DEF Forwarded, IsAuthorized, VerifyToken
<1>5. QED
  BY <1>1, <1>2, <1>3, <1>4

\* Every step of the preview's gate keeps the invariant.
LEMMA GateStep ==
  ASSUME TokenTtl \in Nat, GateInvariant, [GateNext]_gateVars
  PROVE  GateInvariant'
<1> USE DEF GateInvariant, MadeForAMember, AccessEndsWithMembership
<1>1. CASE UNCHANGED gateVars
  BY <1>1 DEF gateVars
<1>2. CASE RemoveMember
  BY <1>2 DEF RemoveMember
<1>3. CASE RedisChanges
  BY <1>3 DEF RedisChanges
<1>4. CASE ClockTicks
  BY <1>4 DEF ClockTicks
<1>5. ASSUME NEW h \in Hosts, Serve(h)
      PROVE  GateInvariant'
  BY <1>5, ServeKeeps
<1>6. ASSUME NEW h \in Hosts, Upgrade(h)
      PROVE  GateInvariant'
  BY <1>6 DEF Upgrade, Replied, IsAuthorized, VerifyToken
<1>7. ASSUME NEW h \in Hosts, GetLink(h)
      PROVE  GateInvariant'
  BY <1>7 DEF GetLink
<1>8. ASSUME NEW h \in Hosts, Route(h)
      PROVE  GateInvariant'
  BY <1>8 DEF Route
<1>9. QED
  BY <1>1, <1>2, <1>3, <1>4, <1>5, <1>6, <1>7, <1>8 DEF GateNext

\* A person who was removed from a project reaches its preview no longer than
\* a token lasts that was made for them before (proxy/auth.js, proxy/index.js).
THEOREM AccessEnded ==
  ASSUME TokenTtl \in Nat
  PROVE  GateSpec => []AccessEndsWithMembership
<1>1. GateInit => GateInvariant
  BY GateInitially
<1>2. GateInvariant /\ [GateNext]_gateVars => GateInvariant'
  BY GateStep
<1>3. GateInvariant => AccessEndsWithMembership
  BY DEF GateInvariant
<1>4. QED
  BY <1>1, <1>2, <1>3, PTL DEF GateSpec

-----------------------------------------------------------------------------
(* The map of visits is bounded. *)

VisitsInvariant ==
  /\ lastSeen \in [Hosts -> Nat]
  /\ Cardinality(Tracked) =< MaxTracked

\* A visit that is written down drops enough of the others.
LEMMA RecordVisitBounds ==
  ASSUME IsFiniteSet(Hosts), MaxTracked \in Nat \ {0}, clock \in Nat,
         VisitsInvariant, NEW h \in Hosts, RecordVisit(h)
  PROVE  VisitsInvariant'
<1> DEFINE full  == Cardinality(Tracked) >= MaxTracked
           swept == IF full THEN Stale ELSE {}
           clear == Cardinality(Tracked \ swept) >= MaxTracked
           kept  == IF clear THEN {} ELSE Tracked \ swept
<1>1. CASE lastSeen' = lastSeen
  BY <1>1 DEF VisitsInvariant, Tracked
<1>2. CASE lastSeen' = [g \in Hosts |-> IF g = h THEN clock
                                        ELSE IF clear \/ g \in swept THEN 0 ELSE lastSeen[g]]
  <2>1. lastSeen' \in [Hosts -> Nat]
    BY <1>2 DEF VisitsInvariant
  <2>2. Tracked' \subseteq kept \cup {h}
    BY <1>2 DEF Tracked
  <2>3. IsFiniteSet(Tracked) /\ IsFiniteSet(Tracked \ swept)
    BY FS_Subset DEF Tracked
  <2>4. Cardinality(Tracked \ swept) \in Nat
    BY <2>3, FS_CardinalityType
  <2>5. IsFiniteSet(kept) /\ Cardinality(kept) \in Nat /\ Cardinality(kept) + 1 =< MaxTracked
    <3>1. CASE clear
      BY <3>1, FS_EmptySet
    <3>2. CASE ~clear
      BY <3>2, <2>3, <2>4
    <3>3. QED
      BY <3>1, <3>2
  <2> HIDE DEF kept
  <2>6. IsFiniteSet(kept \cup {h}) /\ Cardinality(kept \cup {h}) =< MaxTracked
    <3>1. /\ IsFiniteSet(kept \cup {h})
          /\ Cardinality(kept \cup {h}) = IF h \in kept THEN Cardinality(kept) ELSE Cardinality(kept) + 1
      BY <2>5, FS_AddElement, Zenon
    <3>2. QED
      BY <2>5, <3>1
  <2>7. Cardinality(Tracked') =< Cardinality(kept \cup {h}) /\ Cardinality(Tracked') \in Nat
    BY <2>2, <2>6, FS_Subset, FS_CardinalityType
  <2>8. Cardinality(kept \cup {h}) \in Nat
    BY <2>6, FS_CardinalityType
  <2>9. QED
    BY <2>1, <2>6, <2>7, <2>8 DEF VisitsInvariant
<1>3. QED
  BY <1>1, <1>2 DEF RecordVisit

\* Every step keeps the number of remembered hostnames bounded.
LEMMA VisitsStep ==
  ASSUME IsFiniteSet(Hosts), MaxTracked \in Nat \ {0}, clock \in Nat,
         VisitsInvariant, [GateNext]_gateVars
  PROVE  VisitsInvariant'
<1>1. CASE UNCHANGED lastSeen
  BY <1>1 DEF VisitsInvariant, Tracked
<1>2. ASSUME NEW h \in Hosts, Serve(h)
      PROVE  VisitsInvariant'
  <2>1. CASE RecordVisit(h)
    BY <2>1, RecordVisitBounds
  <2>2. CASE UNCHANGED lastSeen
    BY <2>2, <1>1
  <2>3. QED
    BY <1>2, <2>1, <2>2 DEF Serve, NoTarget, ExchangeToken, Unauthorized, Forwarded
<1>3. QED
  BY <1>1, <1>2 DEF GateNext, gateVars, RemoveMember, RedisChanges, ClockTicks, Upgrade, GetLink, Route

\* However many hostnames are visited, the proxy remembers at most MaxTracked
\* of them (recordVisit of proxy/index.js).
THEOREM VisitsAreBounded ==
  ASSUME IsFiniteSet(Hosts), MaxTracked \in Nat \ {0}, TokenTtl \in Nat
  PROVE  GateSpec => [](Cardinality(Tracked) =< MaxTracked)
<1>1. GateInit => GateInvariant /\ VisitsInvariant
  <2>1. GateInit => Tracked = {}
    BY DEF GateInit, Tracked
  <2>2. QED
    BY <2>1, GateInitially, FS_EmptySet DEF GateInit, VisitsInvariant
<1>2. GateInvariant /\ VisitsInvariant /\ [GateNext]_gateVars => GateInvariant' /\ VisitsInvariant'
  BY GateStep, VisitsStep DEF GateInvariant, MadeForAMember
<1>3. VisitsInvariant => Cardinality(Tracked) =< MaxTracked
  BY DEF VisitsInvariant
<1>4. QED
  BY <1>1, <1>2, <1>3, PTL DEF GateSpec
=============================================================================
