---------------------------- MODULE ChatTurnProofs ----------------------------
(***************************************************************************)
(* Proofs about ChatTurn, for any prompts, any number of turns and faults  *)
(* and any limits of the retries: first which turn is followed, then what  *)
(* is shown of the conversation, which rests on it.                        *)
(***************************************************************************)
EXTENDS ChatTurn, KeptElementsProofs, FiniteSetTheorems

\* Requests that may open a stream, those that carry a turn on until one does,
\* and those that are sent when the turn is over.
Opens   == {"open", "resume"}
Carries == Opens \cup {"attach", "reconnect", "adoptLost"}
After   == {"adoptDone", "adoptStopped", "stop"}
Loads   == {"load", "loadHistory", "stopOther"}

IsTask(task) == "kind" \in DOMAIN task /\ "turn" \in DOMAIN task

\* The store: the turn in progress is the newest, is not stopped, and streams.
StoreInOrder(u) ==
  /\ u = [pairs |-> u.pairs, streaming |-> u.streaming, unsaved |-> u.unsaved, latest |-> u.latest,
          inProgress |-> u.inProgress, turns |-> u.turns, kept |-> u.kept,
          offersStop |-> u.offersStop]
  /\ \A i \in 1..Len(u.turns) :
       u.turns[i] = [prompt |-> u.turns[i].prompt, reconnects |-> u.turns[i].reconnects,
                     stopped |-> u.turns[i].stopped]
  /\ u.latest = Len(u.turns)
  /\ u.inProgress \in {0, u.latest}
  /\ u.inProgress # 0 => u.streaming = TRUE /\ u.turns[u.inProgress].stopped = FALSE

\* Only the turn in progress is carried on, by one request or by one stream.
Followed(u, c, requests) ==
  /\ \A k \in requests : IsTask(k) /\ k.kind \in Carries \cup After \cup Loads
  /\ \A k \in requests : k.kind \in Carries \cup After => k.turn \in 1..Len(u.turns)
  /\ \A k \in requests : k.kind \in Opens => k.turn = u.inProgress
  /\ \A k \in requests : k.kind \in Carries /\ IsLive(u, k.turn) => k.turn = u.inProgress
  /\ \A k \in requests : k.kind \in After => k.turn # u.inProgress
  /\ \A k, l \in requests :
       k.kind \in Carries /\ l.kind \in Carries /\ k.turn = u.inProgress /\ l.turn = u.inProgress => k = l
  /\ c # NoConn =>
       /\ c.turn = u.inProgress /\ u.inProgress # 0
       /\ \A k \in requests : k.kind \in Carries => k.turn # u.inProgress

Store(u) == (\E S : u.turns \in Seq(S)) /\ StoreInOrder(u)

\* The inductive invariant.
FollowingInvariant == Store(ui) /\ Followed(ui, conn, tasks)

\* No turn began, and none that was stopped goes on.
SameTurns(u, v) ==
  /\ v.latest = u.latest /\ Len(v.turns) = Len(u.turns)
  /\ \A i \in 1..Len(u.turns) : ~v.turns[i].stopped => ~u.turns[i].stopped

-----------------------------------------------------------------------------
(* What the store's helpers do to the turns. *)

\* What is shown concerns no turn.
LEMMA PutPairs ==
  ASSUME NEW u, Store(u), NEW x
  PROVE  LET v == [u EXCEPT !.pairs = x] IN
         Store(v) /\ SameTurns(u, v) /\ v.inProgress = u.inProgress /\ v.streaming = u.streaming
BY DEF Store, StoreInOrder, SameTurns

\* Nor does whether they are saved.
LEMMA PutUnsaved ==
  ASSUME NEW u, Store(u), NEW x
  PROVE  LET v == [u EXCEPT !.unsaved = x] IN
         Store(v) /\ SameTurns(u, v) /\ v.inProgress = u.inProgress /\ v.streaming = u.streaming
BY DEF Store, StoreInOrder, SameTurns

\* Nor does the kept prompt.
LEMMA PutKept ==
  ASSUME NEW u, Store(u), NEW x
  PROVE  LET v == [u EXCEPT !.kept = x] IN
         Store(v) /\ SameTurns(u, v) /\ v.inProgress = u.inProgress /\ v.streaming = u.streaming
BY DEF Store, StoreInOrder, SameTurns

\* Nor does the offer to stop another turn.
LEMMA PutOffer ==
  ASSUME NEW u, Store(u), NEW x
  PROVE  LET v == [u EXCEPT !.offersStop = x] IN
         Store(v) /\ SameTurns(u, v) /\ v.inProgress = u.inProgress /\ v.streaming = u.streaming
BY DEF Store, StoreInOrder, SameTurns

\* Nothing streams any more once no turn is in progress.
LEMMA PutStreaming ==
  ASSUME NEW u, Store(u), u.inProgress = 0, NEW x
  PROVE  LET v == [u EXCEPT !.streaming = x] IN
         Store(v) /\ SameTurns(u, v) /\ v.inProgress = 0 /\ v.streaming = x
BY DEF Store, StoreInOrder, SameTurns

\* A turn that ends is no longer in progress.
LEMMA EndTurnEnds ==
  ASSUME NEW u, Store(u), NEW t
  PROVE  LET v == EndTurn(u, t) IN
         /\ Store(v) /\ SameTurns(u, v) /\ v.streaming = u.streaming
         /\ v.inProgress = (IF u.inProgress = t THEN 0 ELSE u.inProgress)
BY DEF Store, StoreInOrder, SameTurns, EndTurn

\* Marking a turn's messages changes no turn.
LEMMA MarkedKeeps ==
  ASSUME NEW u, Store(u), NEW t, NEW mark
  PROVE  LET v == Marked(u, t, mark) IN
         Store(v) /\ SameTurns(u, v) /\ v.inProgress = u.inProgress /\ v.streaming = u.streaming
<1> DEFINE marked == [i \in DOMAIN u.pairs |-> IF u.pairs[i].turn = t THEN [u.pairs[i] EXCEPT !.mark = mark] ELSE u.pairs[i]]
<1>1. Marked(u, t, mark) = [u EXCEPT !.pairs = marked]
  BY DEF Marked
<1> HIDE DEF marked
<1>2. QED
  BY <1>1, PutPairs

\* Two changes that begin no turn begin none together.
LEMMA SameTurnsTwice ==
  ASSUME NEW u, NEW v, NEW w, SameTurns(u, v), SameTurns(v, w)
  PROVE  SameTurns(u, w)
BY DEF SameTurns

\* A turn that failed, given up or not, is over.
LEMMA FailTurnEnds ==
  ASSUME NEW u, Store(u), NEW t, t = u.inProgress, NEW mark
  PROVE  LET v == FailTurn(u, t, mark) IN
         Store(v) /\ SameTurns(u, v) /\ v.inProgress = 0
<1> DEFINE e == EndTurn(u, t)
           m == Marked(e, t, mark)
<1>1. Store(e) /\ SameTurns(u, e) /\ e.inProgress = 0
  BY EndTurnEnds
<1> HIDE DEF e
<1>2. Store(m) /\ SameTurns(e, m) /\ m.inProgress = 0
  BY <1>1, MarkedKeeps
<1>3. FailTurn(u, t, mark) = [m EXCEPT !.streaming = FALSE]
  BY DEF FailTurn, e
<1> HIDE DEF m
<1>4. QED
  BY <1>1, <1>2, <1>3, PutStreaming, SameTurnsTwice

\* A turn that is given up is over, and its prompt is kept.
LEMMA GiveUpEnds ==
  ASSUME NEW u, Store(u), NEW t, t = u.inProgress, NEW mark
  PROVE  LET v == GiveUp(u, t, mark) IN
         Store(v) /\ SameTurns(u, v) /\ v.inProgress = 0
<1> DEFINE f == FailTurn(u, t, mark)
           prompt == u.turns[t].prompt
<1>1. Store(f) /\ SameTurns(u, f) /\ f.inProgress = 0
  BY FailTurnEnds
<1>2. GiveUp(u, t, mark) = [f EXCEPT !.kept = prompt]
  BY DEF GiveUp
<1> HIDE DEF f, prompt
<1>3. QED
  BY <1>1, <1>2, PutKept, SameTurnsTwice

\* A turn that begins is the newest and the one in progress.
LEMMA BeginTurnBegins ==
  ASSUME NEW u, Store(u), NEW pairs, NEW prompt
  PROVE  LET v == BeginTurn(u, pairs, prompt) IN
         /\ Store(v)
         /\ Len(u.turns) \in Nat /\ Len(v.turns) = Len(u.turns) + 1
         /\ v.latest = Len(u.turns) + 1 /\ v.inProgress = Len(u.turns) + 1
<1> DEFINE begun == [prompt |-> prompt, reconnects |-> 0, stopped |-> FALSE]
           turns == Append(u.turns, begun)
           v == BeginTurn(u, pairs, prompt)
<1>1. PICK S : u.turns \in Seq(S)
  BY DEF Store
<1>2. /\ turns \in Seq(S \cup {begun})
      /\ Len(u.turns) \in Nat /\ Len(turns) = Len(u.turns) + 1
      /\ \A i \in 1..Len(u.turns) : turns[i] = u.turns[i]
      /\ turns[Len(u.turns) + 1] = begun
  BY <1>1
<1>3. /\ begun = [prompt |-> begun.prompt, reconnects |-> begun.reconnects, stopped |-> begun.stopped]
      /\ begun.stopped = FALSE
  OBVIOUS
<1> HIDE DEF begun, turns
<1> DEFINE grown == Append(pairs, [turn |-> Len(u.turns) + 1, prompt |-> prompt, mark |-> "streaming", shows |-> 0])
<1>4. v = [pairs |-> grown, streaming |-> TRUE, unsaved |-> u.unsaved, latest |-> Len(u.turns) + 1,
           inProgress |-> Len(u.turns) + 1, turns |-> turns, kept |-> u.kept,
          offersStop |-> u.offersStop]
  <2> HIDE DEF grown
  <2>1. v = [u EXCEPT !.pairs = grown, !.streaming = TRUE, !.latest = Len(u.turns) + 1,
                      !.inProgress = Len(u.turns) + 1, !.turns = turns]
    BY DEF BeginTurn, grown, turns, begun
  <2> HIDE DEF v
  <2>2. QED
    BY <2>1 DEF Store, StoreInOrder
<1> HIDE DEF v, grown
<1>5. /\ v.turns = turns /\ v.latest = Len(u.turns) + 1 /\ v.inProgress = Len(u.turns) + 1
      /\ v.streaming = TRUE
  BY <1>4
<1>6. \A i \in 1..Len(turns) :
        turns[i] = [prompt |-> turns[i].prompt, reconnects |-> turns[i].reconnects, stopped |-> turns[i].stopped]
  <2>1. TAKE i \in 1..Len(turns)
  <2>2. CASE i \in 1..Len(u.turns)
    BY <1>2, <2>2 DEF Store, StoreInOrder
  <2>3. CASE i = Len(u.turns) + 1
    BY <1>2, <1>3, <2>3
  <2>4. QED
    BY <1>2, <2>1, <2>2, <2>3
<1>7. v = [pairs |-> v.pairs, streaming |-> v.streaming, unsaved |-> v.unsaved, latest |-> v.latest,
           inProgress |-> v.inProgress, turns |-> v.turns, kept |-> v.kept,
          offersStop |-> v.offersStop]
  BY <1>4
<1>8. StoreInOrder(v)
  BY <1>2, <1>3, <1>5, <1>6, <1>7 DEF StoreInOrder
<1>9. QED
  BY <1>2, <1>5, <1>8 DEF Store, v

\* Counting a reconnect changes nothing else of the turn.
LEMMA CountsReconnect ==
  ASSUME NEW u, Store(u), NEW t \in 1..Len(u.turns)
  PROVE  LET v == [u EXCEPT !.turns[t].reconnects = @ + 1] IN
         Store(v) /\ SameTurns(u, v) /\ v.inProgress = u.inProgress
<1> DEFINE counted == [u.turns[t] EXCEPT !.reconnects = u.turns[t].reconnects + 1]
           turns == [u.turns EXCEPT ![t] = counted]
           v == [u EXCEPT !.turns[t].reconnects = @ + 1]
<1>1. PICK S : u.turns \in Seq(S)
  BY DEF Store
<1>2. /\ counted = [prompt |-> counted.prompt, reconnects |-> counted.reconnects, stopped |-> counted.stopped]
      /\ counted.stopped = u.turns[t].stopped
  <2> DEFINE turn == u.turns[t]
  <2>1. turn = [prompt |-> turn.prompt, reconnects |-> turn.reconnects, stopped |-> turn.stopped]
    BY DEF Store, StoreInOrder
  <2> HIDE DEF turn
  <2>2. counted = [turn EXCEPT !.reconnects = turn.reconnects + 1]
    BY DEF turn
  <2> HIDE DEF counted
  <2>3. counted = [prompt |-> turn.prompt, reconnects |-> turn.reconnects + 1, stopped |-> turn.stopped]
    BY <2>1, <2>2
  <2>4. QED
    BY <2>3 DEF turn
<1> HIDE DEF counted
<1>3. /\ turns \in Seq(S \cup {counted})
      /\ Len(u.turns) \in Nat /\ Len(turns) = Len(u.turns)
      /\ \A i \in 1..Len(u.turns) : turns[i] = IF i = t THEN counted ELSE u.turns[i]
  BY <1>1
<1>4. v = [u EXCEPT !.turns = turns]
  BY DEF counted
<1> HIDE DEF turns, v
<1>5. v = [pairs |-> u.pairs, streaming |-> u.streaming, unsaved |-> u.unsaved, latest |-> u.latest,
           inProgress |-> u.inProgress, turns |-> turns, kept |-> u.kept,
          offersStop |-> u.offersStop]
  BY <1>4 DEF Store, StoreInOrder
<1>6. \A i \in 1..Len(u.turns) :
        /\ turns[i] = [prompt |-> turns[i].prompt, reconnects |-> turns[i].reconnects, stopped |-> turns[i].stopped]
        /\ turns[i].stopped = u.turns[i].stopped
  BY <1>2, <1>3 DEF Store, StoreInOrder
<1>7. v = [pairs |-> v.pairs, streaming |-> v.streaming, unsaved |-> v.unsaved, latest |-> v.latest,
           inProgress |-> v.inProgress, turns |-> v.turns, kept |-> v.kept,
          offersStop |-> v.offersStop]
  BY <1>5
<1>8. /\ v.turns = turns /\ v.latest = u.latest /\ v.inProgress = u.inProgress /\ v.streaming = u.streaming
  BY <1>5
<1>9. StoreInOrder(v)
  <2>1. /\ v.latest = Len(v.turns) /\ v.inProgress \in {0, v.latest}
        /\ v.inProgress # 0 => v.streaming = TRUE /\ u.turns[u.inProgress].stopped = FALSE
    BY <1>3, <1>8 DEF StoreInOrder, Store
  <2>2. v.inProgress # 0 => v.inProgress \in 1..Len(u.turns)
    BY <1>3, <1>8, <2>1
  <2>3. v.inProgress # 0 => v.turns[v.inProgress].stopped = FALSE
    BY <1>6, <1>8, <2>1, <2>2
  <2>4. QED
    BY <1>3, <1>6, <1>7, <1>8, <2>1, <2>3 DEF StoreInOrder
<1>10. QED
  BY <1>3, <1>6, <1>8, <1>9 DEF Store, SameTurns, v

-----------------------------------------------------------------------------
(* Who follows the turn in progress. *)

\* The numbers that tell a turn from none.
LEMMA TurnsAreNumbers ==
  ASSUME NEW u, Store(u)
  PROVE  Len(u.turns) \in Nat /\ 0 \notin 1..Len(u.turns)
BY DEF Store

\* What the store changes beside the turns is nobody's to follow.
LEMMA FollowedStill ==
  ASSUME NEW u, NEW v, NEW c, NEW requests, NEW rest, rest \subseteq requests,
         Followed(u, c, requests), SameTurns(u, v), v.inProgress = u.inProgress
  PROVE  Followed(v, c, rest)
BY DEF Followed, SameTurns, IsLive, IsCurrent, Carries, Opens, After, Loads

\* Nor is a request that is settled.
LEMMA FollowedLess ==
  ASSUME NEW u, NEW c, NEW requests, NEW rest, rest \subseteq requests, Followed(u, c, requests)
  PROVE  Followed(u, c, rest)
BY DEF Followed

\* A request that carries no turn on.
LEMMA FollowedAside ==
  ASSUME NEW u, NEW c, NEW requests, NEW k, Followed(u, c, requests), IsTask(k),
         k.kind \in After \cup Loads,
         k.kind \in After => k.turn \in 1..Len(u.turns) /\ k.turn # u.inProgress
  PROVE  Followed(u, c, requests \cup {k})
BY DEF Followed, Carries, Opens, After, Loads

\* The turn in progress is over, and nothing is left that carries it on.
LEMMA FollowedNoMore ==
  ASSUME NEW u, Store(u), NEW v, NEW c, NEW requests, NEW rest, rest \subseteq requests,
         Followed(u, c, requests), SameTurns(u, v), v.inProgress = 0,
         \A k \in rest : k.kind \in Carries => k.turn # u.inProgress
  PROVE  Followed(v, NoConn, rest)
BY TurnsAreNumbers DEF Followed, SameTurns, IsLive, IsCurrent, Carries, Opens, After, Loads

\* A turn in progress is live, and whatever carries on what is live carries on
\* the turn in progress.
LEMMA InProgressIsLive ==
  ASSUME NEW u, Store(u), u.inProgress # 0
  PROVE  IsLive(u, u.inProgress) /\ u.inProgress \in 1..Len(u.turns) /\ u.streaming = TRUE
BY TurnsAreNumbers DEF Store, StoreInOrder, IsLive, IsCurrent

\* One request carries the turn in progress on, and no stream beside it.
LEMMA OneCarries ==
  ASSUME NEW u, Store(u), NEW c, NEW requests, Followed(u, c, requests), NEW k \in requests,
         k.kind \in Carries, k.kind \in Opens \/ IsLive(u, k.turn)
  PROVE  /\ k.turn = u.inProgress /\ k.turn \in 1..Len(u.turns) /\ k.turn # 0
         /\ c = NoConn
         /\ \A l \in requests \ {k} : l.kind \in Carries => l.turn # u.inProgress
BY TurnsAreNumbers DEF Followed, Carries, Opens

\* A request that carries the turn in progress on when nothing does.
LEMMA FollowedAnew ==
  ASSUME NEW u, Store(u), NEW c, NEW requests, NEW rest, NEW l,
         Followed(u, c, requests), rest \subseteq requests,
         \A k \in rest : k.kind \in Carries => k.turn # u.inProgress,
         IsTask(l), l.kind \in Carries, l.turn = u.inProgress, u.inProgress # 0
  PROVE  Followed(u, NoConn, rest \cup {l})
BY InProgressIsLive DEF Followed, Carries, Opens, After, Loads

\* A stream that is opened when nothing carries the turn in progress on.
LEMMA FollowedByStream ==
  ASSUME NEW u, NEW c, NEW requests, NEW rest, NEW g,
         Followed(u, c, requests), rest \subseteq requests, u.inProgress # 0,
         \A k \in rest : k.kind \in Carries => k.turn # u.inProgress
  PROVE  Followed(u, [turn |-> u.inProgress, gen |-> g], rest)
BY DEF Followed, Carries, Opens, After, Loads

\* The same request again.
LEMMA FollowedAgain ==
  ASSUME NEW u, NEW c, NEW requests, NEW k \in requests, NEW l, Followed(u, c, requests),
         IsTask(l), l.kind = k.kind, l.turn = k.turn
  PROVE  Followed(u, c, (requests \ {k}) \cup {l})
BY DEF Followed, Carries, Opens, After, Loads, IsLive, IsCurrent

\* A request that is sent has its kind and its turn.
LEMMA TaskIsTask ==
  ASSUME NEW kind, NEW t, NEW n
  PROVE  IsTask(Task(kind, t, n)) /\ Task(kind, t, n).kind = kind /\ Task(kind, t, n).turn = t
BY DEF IsTask, Task

\* A load that starts carries nothing on.
LEMMA LoadStarts ==
  ASSUME NEW u, NEW c, NEW rest, Followed(u, c, rest), StartLoad(rest)
  PROVE  Followed(u, c, tasks')
<1>1. PICK n \in 1..MaxLoads : tasks' = rest \cup {Task("load", 0, n)}
  BY DEF StartLoad
<1> DEFINE l == Task("load", 0, n)
<1>2. IsTask(l) /\ l.kind = "load"
  BY TaskIsTask
<1> HIDE DEF l
<1>3. Followed(u, c, rest \cup {l})
  BY <1>2, FollowedAside DEF Loads, After
<1>4. QED
  BY <1>1, <1>3 DEF l

\* The turn in progress fails, is given up or is lost, and nothing carries it on.
LEMMA GivenUp ==
  ASSUME NEW u, Store(u), NEW c, NEW requests, Followed(u, c, requests), NEW rest, rest \subseteq requests,
         \A k \in rest : k.kind \in Carries => k.turn # u.inProgress, NEW mark
  PROVE  Store(GiveUp(u, u.inProgress, mark)) /\ Followed(GiveUp(u, u.inProgress, mark), NoConn, rest)
<1> DEFINE v == GiveUp(u, u.inProgress, mark)
<1>1. Store(v) /\ SameTurns(u, v) /\ v.inProgress = 0
  BY GiveUpEnds
<1> HIDE DEF v
<1>2. Followed(v, NoConn, rest)
  BY <1>1, FollowedNoMore
<1>3. QED
  BY <1>1, <1>2 DEF v

\* A reconnect of the turn in progress, or the end of it.
LEMMA ReconnectKeeps ==
  ASSUME NEW u, Store(u), NEW c, NEW requests, Followed(u, c, requests), NEW rest, rest \subseteq requests,
         u.inProgress # 0, \A k \in rest : k.kind \in Carries => k.turn # u.inProgress, NEW n,
         StartReconnect(u, u.inProgress, n, rest)
  PROVE  Store(ui') /\ Followed(ui', NoConn, tasks')
<1> DEFINE t == u.inProgress
<1>1. IsLive(u, t) /\ t \in 1..Len(u.turns)
  BY InProgressIsLive
<1>2. ui' = Reconnect(u, t, n).ui /\ tasks' = rest \cup Reconnect(u, t, n).sends
  BY <1>1 DEF StartReconnect
<1>3. CASE u.turns[t].reconnects >= MaxReconnects
  <2> DEFINE v == GiveUp(u, t, "failed")
  <2>1. Store(v) /\ Followed(v, NoConn, rest)
    BY GivenUp
  <2> HIDE DEF v
  <2>2. Reconnect(u, t, n) = [ui |-> v, sends |-> {}]
    BY <1>3 DEF Reconnect, v
  <2>3. QED
    BY <1>2, <2>1, <2>2
<1>4. CASE ~(u.turns[t].reconnects >= MaxReconnects)
  <2> DEFINE v == [u EXCEPT !.turns[t].reconnects = @ + 1]
             l == Task("reconnect", t, n)
  <2>1. Store(v) /\ SameTurns(u, v) /\ v.inProgress = t
    BY <1>1, CountsReconnect
  <2>2. IsTask(l) /\ l.kind = "reconnect" /\ l.turn = t
    BY TaskIsTask
  <2>3. Reconnect(u, t, n) = [ui |-> v, sends |-> {l}]
    BY <1>4 DEF Reconnect
  <2> HIDE DEF v, l
  <2>4. Followed(u, NoConn, rest \cup {l})
    BY <2>2, FollowedAnew DEF Carries
  <2>5. Followed(v, NoConn, rest \cup {l})
    BY <2>1, <2>4, FollowedStill
  <2>6. QED
    BY <1>2, <2>1, <2>3, <2>5
<1>5. QED
  BY <1>3, <1>4

\* The handler of a request that opens a stream in vain.
LEMMA FailOpeningKeeps ==
  ASSUME NEW u, Store(u), NEW c, NEW requests, Followed(u, c, requests), NEW rest, rest \subseteq requests,
         \A k \in rest : k.kind \in Carries => k.turn # u.inProgress, NEW mark,
         FailOpening(u, u.inProgress, mark, rest)
  PROVE  Store(ui') /\ Followed(ui', NoConn, tasks')
<1>1. ui' = GiveUp(u, u.inProgress, mark) /\ tasks' = rest
  BY DEF FailOpening, GiveUp
<1>2. QED
  BY <1>1, GivenUp

-----------------------------------------------------------------------------
(* The requests that carry a turn on. *)

\* One request for the turn in progress takes the place of another.
LEMMA PassedOn ==
  ASSUME FollowingInvariant, NEW task \in tasks, NEW kind \in Carries, ui.inProgress # 0, conn = NoConn,
         \A k \in Rest(task) : k.kind \in Carries => k.turn # ui.inProgress,
         tasks' = Rest(task) \cup {Task(kind, ui.inProgress, 0)}, UNCHANGED <<ui, conn>>
  PROVE  FollowingInvariant'
<1> DEFINE l == Task(kind, ui.inProgress, 0)
<1>1. IsTask(l) /\ l.kind \in Carries /\ l.turn = ui.inProgress
  BY TaskIsTask
<1>2. tasks' = Rest(task) \cup {l} /\ Rest(task) \subseteq tasks
  BY DEF Rest
<1> HIDE DEF l
<1>3. Followed(ui, NoConn, Rest(task) \cup {l})
  BY <1>1, <1>2, FollowedAnew DEF FollowingInvariant
<1>4. QED
  BY <1>2, <1>3 DEF FollowingInvariant

\* The answer to a prompt: its stream, or the conversation of another turn.
LEMMA OpenStreamKeeps ==
  ASSUME FollowingInvariant, NEW task \in tasks, OpenStream(task)
  PROVE  FollowingInvariant'
<1> DEFINE t == ui.inProgress
<1>1. Store(ui) /\ Followed(ui, conn, tasks) /\ task.kind = "open"
  BY DEF FollowingInvariant, OpenStream
<1>2. /\ task.turn = t /\ t # 0 /\ conn = NoConn
      /\ \A l \in Rest(task) : l.kind \in Carries => l.turn # t
  BY <1>1, OneCarries DEF Carries, Opens, Rest
<1>3. CASE registry = 0
  <2>1. conn' = [turn |-> t, gen |-> Len(gens) + 1] /\ tasks' = Rest(task) /\ ui' = ui
    BY <1>2, <1>3 DEF OpenStream, Follow
  <2>2. Followed(ui, conn', Rest(task))
    BY <1>1, <1>2, <2>1, FollowedByStream DEF Rest
  <2>3. QED
    BY <1>1, <2>1, <2>2 DEF FollowingInvariant
<1>4. CASE registry # 0
  <2> DEFINE e == EndTurn(ui, t)
             v == [e EXCEPT !.streaming = FALSE]
             kept == Others(e.pairs, task.turn)
             w == [v EXCEPT !.pairs = kept]
  <2>1. ui' = [e EXCEPT !.streaming = FALSE, !.pairs = kept, !.offersStop = TRUE]
    BY <1>2, <1>4 DEF OpenStream
  <2>2. StartLoad(Rest(task)) /\ conn' = NoConn
    BY <1>2, <1>4 DEF OpenStream
  <2>3. Store(e) /\ SameTurns(ui, e) /\ e.inProgress = 0
    BY <1>1, EndTurnEnds
  <2> HIDE DEF e, kept
  <2>4. Store(v) /\ SameTurns(e, v) /\ v.inProgress = 0
    BY <2>3, PutStreaming
  <2>5. ui' = [w EXCEPT !.offersStop = TRUE]
    BY <2>1, <2>3 DEF Store, StoreInOrder
  <2> HIDE DEF v
  <2>6. Store(w) /\ SameTurns(v, w) /\ w.inProgress = 0
    BY <2>4, PutPairs
  <2> HIDE DEF w
  <2>7. Store(ui') /\ SameTurns(w, ui') /\ ui'.inProgress = 0
    BY <2>5, <2>6, PutOffer
  <2>8. SameTurns(ui, ui')
    BY <2>3, <2>4, <2>6, <2>7, SameTurnsTwice
  <2>9. Followed(ui', NoConn, Rest(task))
    BY <1>1, <1>2, <2>7, <2>8, FollowedNoMore DEF Rest
  <2>10. Followed(ui', NoConn, tasks')
    BY <2>2, <2>9, LoadStarts
  <2>11. QED
    BY <2>2, <2>7, <2>10 DEF FollowingInvariant
<1>5. QED
  BY <1>3, <1>4

\* A prompt whose request failed fails with it, or asks whether it was started.
LEMMA OpenFailsKeeps ==
  ASSUME FollowingInvariant, NEW task \in tasks, OpenFails(task)
  PROVE  FollowingInvariant'
<1> DEFINE t == ui.inProgress
<1>1. Store(ui) /\ Followed(ui, conn, tasks) /\ task.kind = "open" /\ conn' = conn
  BY DEF FollowingInvariant, OpenFails
<1>2. /\ task.turn = t /\ t # 0 /\ conn = NoConn
      /\ \A l \in Rest(task) : l.kind \in Carries => l.turn # t
  BY <1>1, OneCarries DEF Carries, Opens, Rest
<1>3. CASE FailOpening(ui, t, "failed", Rest(task))
  BY <1>1, <1>2, <1>3, FailOpeningKeeps DEF Rest, FollowingInvariant
<1>4. CASE tasks' = Rest(task) \cup {Task("attach", t, 0)} /\ UNCHANGED ui
  BY <1>1, <1>2, <1>4, PassedOn DEF Carries
<1>5. QED
  BY <1>2, <1>3, <1>4 DEF OpenFails

\* A request answered 401 ends the turn it was for.
LEMMA RefusedKeeps ==
  ASSUME FollowingInvariant, NEW task \in tasks, Refused(task)
  PROVE  FollowingInvariant'
<1>1. Store(ui) /\ Followed(ui, conn, tasks) /\ task.kind \in Opens /\ conn' = conn
  BY DEF FollowingInvariant, Refused, Opens
<1>2. /\ task.turn = ui.inProgress /\ conn = NoConn
      /\ \A l \in Rest(task) : l.kind \in Carries => l.turn # ui.inProgress
  BY <1>1, OneCarries DEF Carries, Rest
<1> DEFINE v == FailTurn(ui, ui.inProgress, "refused")
<1>3. Store(v) /\ SameTurns(ui, v) /\ v.inProgress = 0
  BY <1>1, FailTurnEnds
<1>4. ui' = v /\ tasks' = Rest(task)
  BY <1>2 DEF Refused
<1> HIDE DEF v
<1>5. Followed(v, NoConn, Rest(task))
  BY <1>1, <1>2, <1>3, FollowedNoMore DEF Rest
<1>6. QED
  BY <1>1, <1>2, <1>3, <1>4, <1>5 DEF FollowingInvariant

\* A request of which nothing comes.
LEMMA DroppedKeeps ==
  ASSUME FollowingInvariant, NEW task \in tasks, tasks' = Rest(task), UNCHANGED <<ui, conn>>
  PROVE  FollowingInvariant'
<1>1. SameTurns(ui, ui)
  BY DEF SameTurns
<1>2. Followed(ui, conn, Rest(task))
  BY <1>1, FollowedStill DEF FollowingInvariant, Rest
<1>3. QED
  BY <1>2 DEF FollowingInvariant

\* A turn that was started all the same is resumed.
LEMMA AttachKeeps ==
  ASSUME FollowingInvariant, NEW task \in tasks, Attach(task)
  PROVE  FollowingInvariant'
<1> DEFINE t == ui.inProgress
<1>1. Store(ui) /\ Followed(ui, conn, tasks) /\ task.kind = "attach" /\ conn' = conn
  BY DEF FollowingInvariant, Attach
<1>2. CASE ~IsLive(ui, task.turn)
  BY <1>1, <1>2, DroppedKeeps DEF Attach
<1>3. CASE IsLive(ui, task.turn)
  <2>1. /\ task.turn = t /\ t # 0 /\ conn = NoConn
        /\ \A l \in Rest(task) : l.kind \in Carries => l.turn # t
    BY <1>1, <1>3, OneCarries DEF Carries, Opens, Rest
  <2>2. CASE FailOpening(ui, t, "failed", Rest(task))
    BY <1>1, <2>1, <2>2, FailOpeningKeeps DEF Rest, FollowingInvariant
  <2>3. CASE tasks' = Rest(task) \cup {Task("resume", t, 0)} /\ UNCHANGED ui
    BY <1>1, <2>1, <2>3, PassedOn DEF Carries, Opens
  <2>4. QED
    BY <1>3, <2>1, <2>2, <2>3 DEF Attach
<1>4. QED
  BY <1>2, <1>3

\* A resumed stream takes its request's place.
LEMMA ResumeStreamKeeps ==
  ASSUME FollowingInvariant, NEW task \in tasks, ResumeStream(task)
  PROVE  FollowingInvariant'
<1> DEFINE t == ui.inProgress
<1>1. Store(ui) /\ Followed(ui, conn, tasks) /\ task.kind = "resume"
  BY DEF FollowingInvariant, ResumeStream
<1>2. /\ task.turn = t /\ t # 0 /\ conn = NoConn
      /\ \A l \in Rest(task) : l.kind \in Carries => l.turn # t
  BY <1>1, OneCarries DEF Carries, Opens, Rest
<1>3. CASE conn' = [turn |-> t, gen |-> registry] /\ tasks' = Rest(task) /\ UNCHANGED ui
  <2>1. Followed(ui, conn', Rest(task))
    BY <1>1, <1>2, <1>3, FollowedByStream DEF Rest
  <2>2. QED
    BY <1>1, <1>3, <2>1 DEF FollowingInvariant
<1>4. CASE StartReconnect(ui, t, 0, Rest(task)) /\ UNCHANGED conn
  BY <1>1, <1>2, <1>4, ReconnectKeeps DEF Rest, FollowingInvariant
<1>5. CASE FailOpening(ui, t, "failed", Rest(task)) /\ UNCHANGED conn
  BY <1>1, <1>2, <1>5, FailOpeningKeeps DEF Rest, FollowingInvariant
<1>6. QED
  BY <1>2, <1>3, <1>4, <1>5 DEF ResumeStream, Follow

\* A reconnect resumes, adopts what was saved, or tries again.
LEMMA ReconnectedKeeps ==
  ASSUME FollowingInvariant, NEW task \in tasks, Reconnected(task)
  PROVE  FollowingInvariant'
<1> DEFINE t == ui.inProgress
<1>1. Store(ui) /\ Followed(ui, conn, tasks) /\ task.kind = "reconnect" /\ conn' = conn
  BY DEF FollowingInvariant, Reconnected
<1>2. CASE ~IsLive(ui, task.turn)
  BY <1>1, <1>2, DroppedKeeps DEF Reconnected
<1>3. CASE IsLive(ui, task.turn)
  <2>1. /\ task.turn = t /\ t # 0 /\ conn = NoConn
        /\ \A l \in Rest(task) : l.kind \in Carries => l.turn # t
    BY <1>1, <1>3, OneCarries DEF Carries, Opens, Rest
  <2>2. ASSUME NEW kind \in Carries, tasks' = Rest(task) \cup {Task(kind, t, 0)}, UNCHANGED ui
        PROVE  FollowingInvariant'
    BY <1>1, <2>1, <2>2, PassedOn
  <2>3. CASE ui' = GiveUp(ui, t, "failed") /\ tasks' = Rest(task)
    <3>1. Store(ui') /\ Followed(ui', NoConn, tasks')
      BY <1>1, <2>1, <2>3, GivenUp DEF Rest
    <3>2. QED
      BY <1>1, <2>1, <3>1 DEF FollowingInvariant
  <2>4. CASE StartReconnect(ui, t, task.n + 1, Rest(task))
    BY <1>1, <2>1, <2>4, ReconnectKeeps DEF Rest, FollowingInvariant
  <2>5. (IF registry # 0 THEN "resume" ELSE "adoptLost") \in Carries
    BY DEF Carries, Opens
  <2>6. QED
    BY <1>3, <2>1, <2>2, <2>3, <2>4, <2>5 DEF Reconnected
<1>4. QED
  BY <1>2, <1>3

-----------------------------------------------------------------------------
(* The stream, and the saved conversation. *)

\* The facts about the stream that every step of it starts from.
LEMMA StreamIsTheTurns ==
  ASSUME FollowingInvariant, conn # NoConn
  PROVE  /\ Store(ui) /\ Followed(ui, conn, tasks)
         /\ conn.turn = ui.inProgress /\ ui.inProgress # 0 /\ ui.inProgress \in 1..Len(ui.turns)
         /\ \A k \in tasks : k.kind \in Carries => k.turn # ui.inProgress
BY InProgressIsLive DEF FollowingInvariant, Followed

\* The end of the stream is the end of the turn, and asks for what was saved.
LEMMA ReadDoneKeeps ==
  ASSUME FollowingInvariant, ReadDone
  PROVE  FollowingInvariant'
<1> DEFINE t == ui.inProgress
           e == EndTurn(ui, t)
           m == Marked(e, t, "done")
           v == [m EXCEPT !.streaming = FALSE]
           w == [v EXCEPT !.unsaved = TRUE]
           l == Task("adoptDone", t, 0)
<1>1. /\ Store(ui) /\ Followed(ui, conn, tasks)
      /\ conn.turn = t /\ t # 0 /\ t \in 1..Len(ui.turns)
      /\ \A k \in tasks : k.kind \in Carries => k.turn # t
  BY StreamIsTheTurns DEF ReadDone
<1>2. /\ ui' = [m EXCEPT !.streaming = FALSE, !.unsaved = TRUE, !.kept = NoPrompt]
      /\ tasks' = tasks \cup {l} /\ conn' = NoConn
  BY <1>1 DEF ReadDone
<1>3. Store(e) /\ SameTurns(ui, e) /\ e.inProgress = 0
  BY <1>1, EndTurnEnds
<1>4. IsTask(l) /\ l.kind = "adoptDone" /\ l.turn = t
  BY TaskIsTask
<1> HIDE DEF e, l
<1>5. Store(m) /\ SameTurns(e, m) /\ m.inProgress = 0
  BY <1>3, MarkedKeeps
<1> HIDE DEF m
<1>6. Store(v) /\ SameTurns(m, v) /\ v.inProgress = 0
  BY <1>5, PutStreaming
<1>7. ui' = [w EXCEPT !.kept = NoPrompt]
  BY <1>2, <1>5 DEF Store, StoreInOrder
<1> HIDE DEF v
<1>8. Store(w) /\ SameTurns(v, w) /\ w.inProgress = 0
  BY <1>6, PutUnsaved
<1> HIDE DEF w
<1>9. Store(ui') /\ SameTurns(w, ui') /\ ui'.inProgress = 0
  BY <1>7, <1>8, PutKept
<1>10. SameTurns(ui, ui')
  BY <1>3, <1>5, <1>6, <1>8, <1>9, SameTurnsTwice
<1>11. Followed(ui', NoConn, tasks)
  BY <1>1, <1>9, <1>10, FollowedNoMore
<1>12. t \in 1..Len(ui'.turns)
  BY <1>1, <1>10 DEF SameTurns
<1>13. Followed(ui', NoConn, tasks \cup {l})
  BY <1>1, <1>4, <1>9, <1>11, <1>12, FollowedAside DEF After, Loads
<1>14. QED
  BY <1>2, <1>9, <1>13 DEF FollowingInvariant

\* An error of the stream is the end of the turn.
LEMMA ReadErrorKeeps ==
  ASSUME FollowingInvariant, ReadError
  PROVE  FollowingInvariant'
<1>1. FailOpening(ui, ui.inProgress, "failed", tasks) /\ conn' = NoConn
  BY StreamIsTheTurns DEF ReadError
<1>2. QED
  BY <1>1, StreamIsTheTurns, FailOpeningKeeps DEF FollowingInvariant, ReadError

\* A stream that broke is followed by one request to reconnect.
LEMMA ConnectionLostKeeps ==
  ASSUME FollowingInvariant, ConnectionLost
  PROVE  FollowingInvariant'
<1>1. StartReconnect(ui, ui.inProgress, 0, tasks) /\ conn' = NoConn
  BY StreamIsTheTurns DEF ConnectionLost
<1>2. QED
  BY <1>1, StreamIsTheTurns, ReconnectKeeps DEF FollowingInvariant, ConnectionLost

\* The messages take what was saved, whether the turn was over already or ends
\* with it.
LEMMA AdoptKeeps ==
  ASSUME NEW u, Store(u), NEW t, NEW g
  PROVE  /\ u.inProgress = 0 =>
              Store(Adopt(u, t, g)) /\ SameTurns(u, Adopt(u, t, g)) /\ Adopt(u, t, g).inProgress = 0
         /\ u.inProgress = t =>
              LET v == EndTurn(Adopt(u, t, g), t) IN Store(v) /\ SameTurns(u, v) /\ v.inProgress = 0
<1> DEFINE shown == [i \in DOMAIN u.pairs |-> IF u.pairs[i].turn = t
                                              THEN [u.pairs[i] EXCEPT !.mark = "saved", !.shows = g] ELSE u.pairs[i]]
           adopted == [pairs |-> shown, streaming |-> FALSE, unsaved |-> FALSE, latest |-> u.latest,
                       inProgress |-> u.inProgress, turns |-> u.turns, kept |-> u.kept,
          offersStop |-> u.offersStop]
           ended == [pairs |-> shown, streaming |-> FALSE, unsaved |-> FALSE, latest |-> u.latest,
                     inProgress |-> 0, turns |-> u.turns, kept |-> u.kept,
          offersStop |-> u.offersStop]
           a == Adopt(u, t, g)
<1>1. a = u \/ a = [u EXCEPT !.pairs = shown, !.streaming = FALSE, !.unsaved = FALSE]
  BY DEF Adopt
<1> HIDE DEF shown, a
<1>2. a = u \/ a = adopted
  BY <1>1 DEF Store, StoreInOrder
<1>3. SameTurns(u, adopted) /\ SameTurns(u, ended) /\ SameTurns(u, u)
  BY DEF SameTurns
<1>4. Store(ended) /\ ended.inProgress = 0
  BY DEF Store, StoreInOrder
<1>5. ASSUME u.inProgress = 0
      PROVE  Store(a) /\ SameTurns(u, a) /\ a.inProgress = 0
  <2>1. adopted = ended
    BY <1>5
  <2> HIDE DEF adopted, ended
  <2>2. QED
    BY <1>2, <1>3, <1>4, <1>5, <2>1
<1>6. ASSUME u.inProgress = t
      PROVE  Store(EndTurn(a, t)) /\ SameTurns(u, EndTurn(a, t)) /\ EndTurn(a, t).inProgress = 0
  <2>1. CASE a = u
    BY <1>6, <2>1, EndTurnEnds
  <2>2. CASE a = adopted
    <3>1. EndTurn(a, t) = ended
      <4>1. a.inProgress = t
        BY <1>6, <2>2
      <4>2. EndTurn(a, t) = [a EXCEPT !.inProgress = IF a.inProgress = t THEN 0 ELSE a.inProgress]
        BY DEF EndTurn
      <4>3. QED
        BY <2>2, <4>1, <4>2
    <3> HIDE DEF adopted, ended
    <3>2. QED
      BY <1>3, <1>4, <3>1
  <2>3. QED
    BY <1>2, <2>1, <2>2
<1>7. QED
  BY <1>5, <1>6 DEF a

\* What the store makes of an answer about a turn that is over, or was lost.
LEMMA AdoptSavedTurnKeeps ==
  ASSUME FollowingInvariant, NEW task \in tasks, AdoptSavedTurn(task)
  PROVE  FollowingInvariant'
<1> DEFINE t == task.turn
<1>1. /\ Store(ui) /\ Followed(ui, conn, tasks) /\ conn' = conn
      /\ task.kind \in {"adoptDone", "adoptLost", "adoptStopped"}
  BY DEF FollowingInvariant, AdoptSavedTurn
<1>2. t \in 1..Len(ui.turns)
  BY <1>1 DEF Followed, Carries, After
<1>3. PICK reached \in BOOLEAN :
        LET found == reached /\ LastIs(history, ui.turns[t].prompt)
            after == IF found /\ IsCurrent(ui, t) THEN Adopt(ui, t, history[Len(history)].gen) ELSE ui
        IN \/ /\ tasks' = Rest(task) \cup {Task(task.kind, t, task.n + 1)}
              /\ UNCHANGED ui
           \/ /\ tasks' = Rest(task)
              /\ ui' = IF task.kind = "adoptLost" /\ IsLive(ui, t)
                       THEN IF found THEN EndTurn(after, t)
                            ELSE GiveUp(ui, t, IF reached THEN "lost" ELSE "failed")
                       ELSE after
  BY DEF AdoptSavedTurn
<1> DEFINE found == reached /\ LastIs(history, ui.turns[t].prompt)
           g == history[Len(history)].gen
<1>4. CASE tasks' = Rest(task) \cup {Task(task.kind, t, task.n + 1)} /\ UNCHANGED ui
  <2> DEFINE l == Task(task.kind, t, task.n + 1)
  <2>1. IsTask(l) /\ l.kind = task.kind /\ l.turn = t
    BY TaskIsTask
  <2> HIDE DEF l
  <2>2. Followed(ui, conn, (tasks \ {task}) \cup {l})
    BY <1>1, <2>1, FollowedAgain
  <2>3. QED
    BY <1>1, <1>4, <2>2 DEF FollowingInvariant, Rest, l
<1>5. CASE /\ task.kind = "adoptLost" /\ IsLive(ui, t) /\ tasks' = Rest(task)
           /\ ui' = IF found THEN EndTurn(Adopt(ui, t, g), t)
                    ELSE GiveUp(ui, t, IF reached THEN "lost" ELSE "failed")
  <2>1. /\ t = ui.inProgress /\ t # 0 /\ conn = NoConn
        /\ \A l \in Rest(task) : l.kind \in Carries => l.turn # t
    BY <1>1, <1>5, OneCarries DEF Carries, Opens, Rest
  <2>2. CASE found
    <3>1. Store(ui') /\ SameTurns(ui, ui') /\ ui'.inProgress = 0
      BY <1>1, <1>5, <2>1, <2>2, AdoptKeeps
    <3>2. Followed(ui', NoConn, tasks')
      BY <1>1, <1>5, <2>1, <3>1, FollowedNoMore DEF Rest
    <3>3. QED
      BY <1>1, <2>1, <3>1, <3>2 DEF FollowingInvariant
  <2>3. CASE ~found
    <3>1. ui' = GiveUp(ui, t, "lost") \/ ui' = GiveUp(ui, t, "failed")
      BY <1>5, <2>3
    <3>2. Store(ui') /\ Followed(ui', NoConn, tasks')
      BY <1>1, <1>5, <2>1, <3>1, GivenUp DEF Rest
    <3>3. QED
      BY <1>1, <2>1, <3>2 DEF FollowingInvariant
  <2>4. QED
    BY <2>2, <2>3
<1>6. CASE tasks' = Rest(task) /\ ui' = ui
  BY <1>1, <1>6, DroppedKeeps
<1>7. CASE /\ ~(task.kind = "adoptLost" /\ IsLive(ui, t)) /\ tasks' = Rest(task)
           /\ IsCurrent(ui, t) /\ ui' = Adopt(ui, t, g)
  <2>1. ui.inProgress = 0
    BY <1>1, <1>7, InProgressIsLive DEF Followed, After, IsCurrent, Store, StoreInOrder
  <2>2. Store(ui') /\ SameTurns(ui, ui') /\ ui'.inProgress = 0
    BY <1>1, <1>7, <2>1, AdoptKeeps
  <2>3. Followed(ui', conn, tasks')
    BY <1>1, <1>7, <2>1, <2>2, FollowedStill DEF Rest
  <2>4. QED
    BY <1>1, <2>2, <2>3 DEF FollowingInvariant
<1>8. QED
  BY <1>3, <1>4, <1>5, <1>6, <1>7 DEF IsLive

\* The stop leaves the turn alone: the store stopped it before.
LEMMA StopOnServerKeeps ==
  ASSUME FollowingInvariant, NEW task \in tasks, StopOnServer(task)
  PROVE  FollowingInvariant'
<1> DEFINE l == Task("adoptStopped", task.turn, 0)
<1>1. /\ Store(ui) /\ Followed(ui, conn, tasks) /\ UNCHANGED <<ui, conn>>
      /\ task.kind = "stop"
  BY DEF FollowingInvariant, StopOnServer
<1>2. tasks' = Rest(task) \/ tasks' = Rest(task) \cup {l}
  BY DEF StopOnServer
<1>3. CASE tasks' = Rest(task)
  BY <1>1, <1>3, DroppedKeeps
<1>4. CASE tasks' = Rest(task) \cup {l}
  <2>1. IsTask(l) /\ l.kind = "adoptStopped" /\ l.turn = task.turn
    BY TaskIsTask
  <2>2. task.turn \in 1..Len(ui.turns) /\ task.turn # ui.inProgress
    BY <1>1 DEF Followed, Carries, After
  <2> HIDE DEF l
  <2>3. SameTurns(ui, ui)
    BY DEF SameTurns
  <2>4. Followed(ui, conn, Rest(task))
    BY <1>1, <2>3, FollowedStill DEF Rest
  <2>5. Followed(ui, conn, Rest(task) \cup {l})
    BY <2>1, <2>2, <2>4, FollowedAside DEF After, Loads
  <2>6. QED
    BY <1>1, <1>4, <2>5 DEF FollowingInvariant
<1>5. QED
  BY <1>2, <1>3, <1>4

-----------------------------------------------------------------------------
(* The conversation is loaded. *)

\* A load asks what is running, and then for what is saved.
LEMMA LoadActiveKeeps ==
  ASSUME FollowingInvariant, NEW task \in tasks, LoadActive(task)
  PROVE  FollowingInvariant'
<1>1. Store(ui) /\ Followed(ui, conn, tasks) /\ UNCHANGED <<ui, conn>>
  BY DEF FollowingInvariant, LoadActive
<1>2. PICK running : tasks' = Rest(task) \cup {Task("loadHistory", running, task.n)}
  BY DEF LoadActive
<1> DEFINE l == Task("loadHistory", running, task.n)
<1>3. IsTask(l) /\ l.kind = "loadHistory"
  BY TaskIsTask
<1>4. tasks' = Rest(task) \cup {l}
  BY <1>2
<1> HIDE DEF l
<1>5. Followed(ui, conn, Rest(task))
  BY <1>1, FollowedLess DEF Rest
<1>6. Followed(ui, conn, Rest(task) \cup {l})
  BY <1>3, <1>5, FollowedAside DEF After, Loads
<1>7. QED
  BY <1>1, <1>4, <1>6 DEF FollowingInvariant

\* A turn stopped for another's sake is followed by a load, or by nothing.
LEMMA StopOtherOnServerKeeps ==
  ASSUME FollowingInvariant, NEW task \in tasks, StopOtherOnServer(task)
  PROVE  FollowingInvariant'
<1>1. Store(ui) /\ Followed(ui, conn, tasks) /\ UNCHANGED <<ui, conn>>
  BY DEF FollowingInvariant, StopOtherOnServer
<1>2. tasks' = Rest(task) \/ StartLoad(Rest(task))
  BY DEF StopOtherOnServer
<1>3. Followed(ui, conn, Rest(task))
  BY <1>1, FollowedLess DEF Rest
<1>4. QED
  BY <1>1, <1>2, <1>3, LoadStarts DEF FollowingInvariant

\* An answer changes only what its request has read.
LEMMA AnsweredIsTask ==
  ASSUME NEW task, IsTask(task), NEW read, NEW saved
  PROVE  LET l == [task EXCEPT !.read = read, !.saved = saved] IN
         IsTask(l) /\ l.kind = task.kind /\ l.turn = task.turn
<1> DEFINE l == [task EXCEPT !.read = read, !.saved = saved]
<1>1. DOMAIN l = DOMAIN task
  OBVIOUS
<1>2. l.kind = task.kind /\ l.turn = task.turn
  BY DEF IsTask
<1>3. QED
  BY <1>1, <1>2 DEF IsTask

\* The answer to a load waits to be handled.
LEMMA ReadHistoryKeeps ==
  ASSUME FollowingInvariant, NEW task \in tasks, ReadHistory(task)
  PROVE  FollowingInvariant'
<1> DEFINE l == [task EXCEPT !.read = TRUE, !.saved = history]
<1>1. Store(ui) /\ Followed(ui, conn, tasks) /\ UNCHANGED <<ui, conn>>
  BY DEF FollowingInvariant, ReadHistory
<1>2. tasks' = Rest(task) \/ tasks' = Rest(task) \cup {l}
  BY DEF ReadHistory
<1>3. CASE tasks' = Rest(task)
  BY <1>1, <1>3, DroppedKeeps
<1>4. CASE tasks' = Rest(task) \cup {l}
  <2>1. IsTask(task)
    BY <1>1 DEF Followed
  <2>2. IsTask(l) /\ l.kind = task.kind /\ l.turn = task.turn
    BY <2>1, AnsweredIsTask
  <2> HIDE DEF l
  <2>3. Followed(ui, conn, (tasks \ {task}) \cup {l})
    BY <1>1, <2>2, FollowedAgain
  <2>4. QED
    BY <1>1, <1>4, <2>3 DEF FollowingInvariant, Rest
<1>5. QED
  BY <1>2, <1>3, <1>4

\* A turn that begins when none is in progress is followed by its request.
LEMMA Begins ==
  ASSUME NEW u, Store(u), NEW c, NEW requests, Followed(u, c, requests), u.inProgress = 0,
         NEW v, Store(v), Len(u.turns) \in Nat, Len(v.turns) = Len(u.turns) + 1,
         v.latest = Len(u.turns) + 1, v.inProgress = Len(u.turns) + 1,
         NEW rest, rest \subseteq requests,
         NEW l, IsTask(l), l.kind \in Opens, l.turn = Len(u.turns) + 1
  PROVE  Followed(v, c, rest \cup {l})
<1>1. \A k \in rest : k.kind \in Carries \cup After => k.turn \in 1..Len(u.turns)
  BY DEF Followed
<1>2. \A k \in rest : k.kind \in Carries \cup After => k.turn \in 1..Len(v.turns) /\ k.turn # v.inProgress /\ k.turn # v.latest
  BY <1>1
<1>3. c = NoConn
  BY DEF Followed
<1>4. \A k \in rest : k.kind \notin Opens
  <2>1. \A k \in rest : k.kind \in Opens => k.turn = 0
    BY DEF Followed
  <2>2. QED
    BY <1>1, <2>1 DEF Carries
<1>5. l.turn \in 1..Len(v.turns)
  OBVIOUS
<1>6. QED
  BY <1>2, <1>3, <1>4, <1>5 DEF Followed, IsLive, IsCurrent, Carries, Opens, After, Loads

\* The messages are replaced by what was saved.
LEMMA PutMessages ==
  ASSUME NEW u, Store(u), NEW x
  PROVE  LET v == [u EXCEPT !.pairs = x, !.unsaved = FALSE] IN
         Store(v) /\ SameTurns(u, v) /\ v.inProgress = u.inProgress
<1> DEFINE v == [u EXCEPT !.pairs = x, !.unsaved = FALSE]
<1>1. v = [u EXCEPT !.pairs = x, !.unsaved = FALSE]
  OBVIOUS
<1> HIDE DEF v
<1>2. v = [pairs |-> x, streaming |-> u.streaming, unsaved |-> FALSE, latest |-> u.latest,
           inProgress |-> u.inProgress, turns |-> u.turns, kept |-> u.kept,
          offersStop |-> u.offersStop]
  BY <1>1 DEF Store, StoreInOrder
<1>3. QED
  BY <1>2 DEF Store, StoreInOrder, SameTurns, v

\* A load resumes a running turn only when nothing streams.
LEMMA LoadHistoryKeeps ==
  ASSUME FollowingInvariant, NEW task \in tasks, LoadHistory(task)
  PROVE  FollowingInvariant'
<1> DEFINE prompt == gens[task.turn].prompt
           msgs == ToMessages(task.saved)
           begun == BeginTurn(ui, msgs, prompt)
           l == Task("resume", Len(ui.turns) + 1, 0)
           forgot == [ui EXCEPT !.kept = NoPrompt]
           restored == Append(msgs, RestoredFailedTurn(ui.kept))
<1>1. Store(ui) /\ Followed(ui, conn, tasks) /\ conn' = conn
  BY DEF FollowingInvariant, LoadHistory
<1>2. CASE /\ ~ui.streaming /\ ui' = [begun EXCEPT !.unsaved = FALSE]
           /\ tasks' = Rest(task) \cup {l}
  <2>1. ui.inProgress = 0
    BY <1>1, <1>2, InProgressIsLive
  <2>2. /\ Store(begun) /\ Len(ui.turns) \in Nat /\ Len(begun.turns) = Len(ui.turns) + 1
        /\ begun.latest = Len(ui.turns) + 1 /\ begun.inProgress = Len(ui.turns) + 1
    BY <1>1, BeginTurnBegins
  <2>3. IsTask(l) /\ l.kind = "resume" /\ l.turn = Len(ui.turns) + 1
    BY TaskIsTask
  <2> HIDE DEF begun, l
  <2>4. Store(ui') /\ SameTurns(begun, ui') /\ ui'.inProgress = begun.inProgress
    BY <1>2, <2>2, PutUnsaved
  <2>5. Followed(begun, conn, Rest(task) \cup {l})
    BY <1>1, <2>1, <2>2, <2>3, Begins DEF Opens, Rest
  <2>6. Followed(ui', conn, Rest(task) \cup {l})
    BY <2>4, <2>5, FollowedStill
  <2>7. QED
    BY <1>1, <1>2, <2>4, <2>6 DEF FollowingInvariant
<1>3. Store(forgot) /\ SameTurns(ui, forgot) /\ forgot.inProgress = ui.inProgress
  BY <1>1, PutKept
<1>4. ASSUME NEW x, tasks' = Rest(task),
             \/ ui' = ui \/ ui' = [ui EXCEPT !.pairs = x, !.unsaved = FALSE]
             \/ ui' = forgot \/ ui' = [forgot EXCEPT !.pairs = x, !.unsaved = FALSE]
      PROVE  FollowingInvariant'
  <2> HIDE DEF forgot
  <2>1. Store(ui') /\ SameTurns(ui, ui') /\ ui'.inProgress = ui.inProgress
    <3>1. CASE ui' = ui
      BY <1>1, <3>1 DEF SameTurns
    <3>2. CASE ui' = [ui EXCEPT !.pairs = x, !.unsaved = FALSE]
      BY <1>1, <3>2, PutMessages
    <3>3. CASE ui' = forgot
      BY <1>3, <3>3
    <3>4. CASE ui' = [forgot EXCEPT !.pairs = x, !.unsaved = FALSE]
      BY <1>3, <3>4, PutMessages, SameTurnsTwice
    <3>5. QED
      BY <1>4, <3>1, <3>2, <3>3, <3>4
  <2>2. Followed(ui', conn, Rest(task))
    BY <1>1, <2>1, FollowedStill DEF Rest
  <2>3. QED
    BY <1>1, <1>4, <2>1, <2>2 DEF FollowingInvariant
<1>5. \/ ~ui.streaming /\ ui' = [begun EXCEPT !.unsaved = FALSE] /\ tasks' = Rest(task) \cup {l}
      \/ tasks' = Rest(task) /\ (ui' = ui \/ ui' = [ui EXCEPT !.pairs = restored, !.unsaved = FALSE])
      \/ /\ tasks' = Rest(task)
         /\ \/ ui' = ui \/ ui' = [ui EXCEPT !.pairs = msgs, !.unsaved = FALSE]
            \/ ui' = forgot \/ ui' = [forgot EXCEPT !.pairs = msgs, !.unsaved = FALSE]
  <2> HIDE DEF msgs, restored, l
  <2>1. CASE Resumes(task.turn, task.saved)
    BY <2>1 DEF LoadHistory, Resumes, msgs, l
  <2>2. CASE ~Resumes(task.turn, task.saved)
    BY <2>2 DEF LoadHistory, msgs, restored
  <2>3. QED
    BY <2>1, <2>2
<1> HIDE DEF msgs, restored, forgot, begun, l
<1>6. QED
  BY <1>2, <1>4, <1>5

-----------------------------------------------------------------------------
(* The person. *)

\* A prompt is sent only when nothing streams.
LEMMA SendKeeps ==
  ASSUME FollowingInvariant, NEW prompt, Send(prompt)
  PROVE  FollowingInvariant'
<1> DEFINE begun == BeginTurn(ui, ui.pairs, prompt)
           l == Task("open", Len(ui.turns) + 1, 0)
<1>1. /\ Store(ui) /\ Followed(ui, conn, tasks) /\ conn' = conn
      /\ ~ui.streaming /\ ui' = [begun EXCEPT !.kept = NoPrompt] /\ tasks' = tasks \cup {l}
  BY DEF FollowingInvariant, Send, SendOffered
<1>2. ui.inProgress = 0
  BY <1>1, InProgressIsLive
<1>3. /\ Store(begun) /\ Len(ui.turns) \in Nat /\ Len(begun.turns) = Len(ui.turns) + 1
      /\ begun.latest = Len(ui.turns) + 1 /\ begun.inProgress = Len(ui.turns) + 1
  BY <1>1, BeginTurnBegins
<1>4. IsTask(l) /\ l.kind = "open" /\ l.turn = Len(ui.turns) + 1
  BY TaskIsTask
<1> HIDE DEF begun, l
<1>5. Store(ui') /\ SameTurns(begun, ui') /\ ui'.inProgress = begun.inProgress
  BY <1>1, <1>3, PutKept
<1>6. Followed(begun, conn, tasks \cup {l})
  BY <1>1, <1>2, <1>3, <1>4, Begins DEF Opens
<1>7. Followed(ui', conn, tasks \cup {l})
  BY <1>5, <1>6, FollowedStill
<1>8. QED
  BY <1>1, <1>5, <1>7 DEF FollowingInvariant

\* A turn that is stopped is in progress no more.
LEMMA StoppedTurn ==
  ASSUME NEW u, Store(u), NEW t \in 1..Len(u.turns), NEW x
  PROVE  LET v == [u EXCEPT !.turns[t].stopped = TRUE, !.inProgress = 0, !.streaming = FALSE,
                            !.kept = NoPrompt, !.pairs[x].mark = "stopped"]
         IN  Store(v) /\ SameTurns(u, v) /\ v.inProgress = 0
<1> DEFINE turn == u.turns[t]
           stopped == [turn EXCEPT !.stopped = TRUE]
           turns == [u.turns EXCEPT ![t] = stopped]
           pairs == [u.pairs EXCEPT ![x] = [u.pairs[x] EXCEPT !.mark = "stopped"]]
           v == [u EXCEPT !.turns[t].stopped = TRUE, !.inProgress = 0, !.streaming = FALSE,
                          !.kept = NoPrompt, !.pairs[x].mark = "stopped"]
<1>1. PICK S : u.turns \in Seq(S)
  BY DEF Store
<1>2. stopped = [prompt |-> stopped.prompt, reconnects |-> stopped.reconnects, stopped |-> stopped.stopped]
      /\ stopped.stopped = TRUE
  <2>1. turn = [prompt |-> turn.prompt, reconnects |-> turn.reconnects, stopped |-> turn.stopped]
    BY DEF Store, StoreInOrder
  <2>2. stopped = [turn EXCEPT !.stopped = TRUE]
    OBVIOUS
  <2> HIDE DEF turn, stopped
  <2>3. stopped = [prompt |-> turn.prompt, reconnects |-> turn.reconnects, stopped |-> TRUE]
    BY <2>1, <2>2
  <2>4. QED
    BY <2>3
<1>3. v = [u EXCEPT !.turns = turns, !.inProgress = 0, !.streaming = FALSE,
                    !.kept = NoPrompt, !.pairs = pairs]
  BY DEF stopped
<1> HIDE DEF turn, stopped
<1>4. /\ turns \in Seq(S \cup {stopped})
      /\ Len(u.turns) \in Nat /\ Len(turns) = Len(u.turns)
      /\ \A i \in 1..Len(u.turns) : turns[i] = IF i = t THEN stopped ELSE u.turns[i]
  BY <1>1
<1> HIDE DEF turns, pairs, v
<1>5. v = [pairs |-> pairs, streaming |-> FALSE, unsaved |-> u.unsaved, latest |-> u.latest,
           inProgress |-> 0, turns |-> turns, kept |-> NoPrompt,
          offersStop |-> u.offersStop]
  BY <1>3 DEF Store, StoreInOrder
<1>6. \A i \in 1..Len(u.turns) :
        /\ turns[i] = [prompt |-> turns[i].prompt, reconnects |-> turns[i].reconnects, stopped |-> turns[i].stopped]
        /\ ~turns[i].stopped => ~u.turns[i].stopped
  BY <1>2, <1>4 DEF Store, StoreInOrder
<1>7. v.turns = turns /\ v.latest = u.latest /\ v.inProgress = 0
  BY <1>5
<1>8. StoreInOrder(v)
  BY <1>4, <1>5, <1>6, <1>7 DEF StoreInOrder, Store
<1>9. QED
  BY <1>4, <1>6, <1>7, <1>8 DEF Store, SameTurns, v

\* A stop ends the stream and whatever would open it again.
LEMMA StopKeeps ==
  ASSUME FollowingInvariant, Stop
  PROVE  FollowingInvariant'
<1> DEFINE t == ui.inProgress
           mine == {task \in tasks : task.turn = t /\ task.kind \in {"open", "resume"}}
           rest == tasks \ mine
           l == Task("stop", t, 0)
           x == Len(ui.pairs)
           v == [ui EXCEPT !.turns[t].stopped = TRUE, !.inProgress = 0, !.streaming = FALSE,
                           !.kept = NoPrompt, !.pairs[x].mark = "stopped"]
<1>1. /\ Store(ui) /\ Followed(ui, conn, tasks) /\ t # 0
      /\ ui' = v /\ conn' = NoConn /\ tasks' = rest \cup {l}
  BY DEF FollowingInvariant, Stop
<1>2. t \in 1..Len(ui.turns) /\ ui.latest = t /\ Len(ui.turns) \in Nat
  BY <1>1, InProgressIsLive, TurnsAreNumbers DEF IsLive, IsCurrent
<1> HIDE DEF x
<1>3. Store(v) /\ SameTurns(ui, v) /\ v.inProgress = 0
  <2> HIDE DEF t
  <2>1. Store(ui) /\ t \in 1..Len(ui.turns)
    BY <1>1, <1>2
  <2>2. QED
    BY <2>1, StoppedTurn
<1>4. v.turns[t].stopped = TRUE
  BY <1>2 DEF Store, StoreInOrder
<1>5. IsTask(l) /\ l.kind = "stop" /\ l.turn = t
  BY TaskIsTask
<1> HIDE DEF v, l
<1>6. Followed(v, NoConn, rest)
  <2>1. \A k \in rest : k \in tasks /\ k.kind \notin Opens
    BY <1>1 DEF Followed, Opens
  <2>2. \A k \in rest : k.kind \in Carries => k.turn # 0 /\ ~IsLive(v, k.turn)
    BY <1>1, <1>2, <1>3, <1>4, <2>1, TurnsAreNumbers DEF Followed, IsLive, IsCurrent, SameTurns
  <2>3. \A k \in rest : k.kind \in Carries \cup After => k.turn # 0 /\ k.turn \in 1..Len(v.turns)
    BY <1>1, <1>2, <1>3, <2>1, TurnsAreNumbers DEF Followed, SameTurns
  <2> HIDE DEF rest
  <2>4. \A k \in rest : IsTask(k) /\ k.kind \in Carries \cup After \cup Loads
    BY <1>1, <2>1 DEF Followed
  <2>5. QED
    BY <1>3, <2>1, <2>2, <2>3, <2>4 DEF Followed, After
<1>7. t \in 1..Len(v.turns)
  BY <1>2, <1>3 DEF SameTurns
<1>8. Followed(v, NoConn, rest \cup {l})
  BY <1>1, <1>3, <1>5, <1>6, <1>7, FollowedAside DEF After, Loads
<1>9. QED
  BY <1>1, <1>3, <1>8 DEF FollowingInvariant

-----------------------------------------------------------------------------

\* Another's turn is stopped by one more request.
LEMMA StopTheOtherKeeps ==
  ASSUME FollowingInvariant, StopTheOther
  PROVE  FollowingInvariant'
<1> DEFINE l == Task("stopOther", 0, 0)
           v == [ui EXCEPT !.offersStop = FALSE]
<1>1. Store(ui) /\ Followed(ui, conn, tasks) /\ conn' = conn
  BY DEF FollowingInvariant, StopTheOther
<1>2. ui' = v /\ tasks' = tasks \cup {l}
  BY DEF StopTheOther
<1>3. Store(v) /\ SameTurns(ui, v) /\ v.inProgress = ui.inProgress
  BY <1>1, PutOffer
<1>4. IsTask(l) /\ l.kind = "stopOther"
  BY TaskIsTask
<1> HIDE DEF v, l
<1>5. Followed(v, conn, tasks)
  BY <1>1, <1>3, FollowedStill
<1>6. Followed(v, conn, tasks \cup {l})
  BY <1>4, <1>5, FollowedAside DEF After, Loads
<1>7. QED
  BY <1>1, <1>2, <1>3, <1>6 DEF FollowingInvariant

\* A visit starts a load.
LEMMA VisitKeeps ==
  ASSUME FollowingInvariant, Visit
  PROVE  FollowingInvariant'
BY LoadStarts DEF FollowingInvariant, Visit

\* A page starts with no turn of its own, whatever prompt was kept.
LEMMA PageStarts ==
  ASSUME NEW kept, NEW v, v = [InitialUi EXCEPT !.kept = kept]
  PROVE  Store(v) /\ v.inProgress = 0 /\ Followed(v, NoConn, {})
<1>1. v = [pairs |-> <<>>, streaming |-> FALSE, unsaved |-> FALSE, latest |-> 0,
           inProgress |-> 0, turns |-> <<>>, kept |-> kept, offersStop |-> FALSE]
  BY DEF InitialUi
<1>2. v.turns = <<>> /\ v.inProgress = 0
  BY <1>1
<1>3. <<>> \in Seq(Nat)
  OBVIOUS
<1>4. StoreInOrder(v)
  <2>1. Len(v.turns) = 0 /\ v.latest = 0
    BY <1>1, <1>2
  <2>2. v = [pairs |-> v.pairs, streaming |-> v.streaming, unsaved |-> v.unsaved, latest |-> v.latest,
             inProgress |-> v.inProgress, turns |-> v.turns, kept |-> v.kept, offersStop |-> v.offersStop]
    BY <1>1
  <2>3. QED
    BY <1>2, <2>1, <2>2 DEF StoreInOrder
<1>5. QED
  BY <1>2, <1>3, <1>4 DEF Store, Followed

\* A page that has just been opened satisfies the invariant.
LEMMA FollowingInitially ==
  ASSUME Init
  PROVE  FollowingInvariant
<1>1. InitialUi = [InitialUi EXCEPT !.kept = InitialUi.kept]
  BY DEF InitialUi
<1>2. QED
  BY <1>1, PageStarts DEF Init, FollowingInvariant

\* And when it is left for another.
LEMMA LeavePageKeeps ==
  ASSUME FollowingInvariant, LeavePage
  PROVE  FollowingInvariant'
<1>1. PICK kept : ui' = [InitialUi EXCEPT !.kept = kept]
  BY DEF LeavePage
<1>2. conn' = NoConn /\ tasks' = {}
  BY DEF LeavePage
<1>3. QED
  BY <1>1, <1>2, PageStarts DEF FollowingInvariant

\* Every step keeps the invariant; the server's own steps leave the store, the
\* stream and the requests alone.
LEMMA FollowingStep ==
  ASSUME FollowingInvariant, [Next]_vars
  PROVE  FollowingInvariant'
<1>1. CASE UNCHANGED <<ui, conn, tasks>>
  BY <1>1 DEF FollowingInvariant
<1>2. CASE ServerStep
  BY <1>1, <1>2 DEF ServerStep, BeginSaving, SaveMessages, PublishFiles, RecordTurn, FinishTurn
<1>3. CASE Stream
  BY <1>3, ReadDoneKeeps, ReadErrorKeeps, ConnectionLostKeeps DEF Stream
<1>4. CASE Browser
  <2>1. PICK task \in tasks :
          \/ OpenStream(task) \/ OpenFails(task) \/ Refused(task) \/ Attach(task)
          \/ ResumeStream(task) \/ Reconnected(task) \/ AdoptSavedTurn(task)
          \/ StopOnServer(task) \/ StopOtherOnServer(task)
          \/ LoadActive(task) \/ ReadHistory(task) \/ LoadHistory(task)
    BY <1>4 DEF Browser
  <2>2. QED
    BY <2>1, OpenStreamKeeps, OpenFailsKeeps, RefusedKeeps, AttachKeeps, ResumeStreamKeeps, ReconnectedKeeps,
       AdoptSavedTurnKeeps, StopOnServerKeeps, StopOtherOnServerKeeps, LoadActiveKeeps, ReadHistoryKeeps,
       LoadHistoryKeeps
<1>5. CASE Faults
  BY <1>1, <1>5 DEF Faults, Restart, CannotSave
<1>6. CASE Person
  BY <1>6, SendKeeps, StopKeeps, StopTheOtherKeeps, VisitKeeps, LeavePageKeeps DEF Person, RetryLast
<1>7. CASE UNCHANGED vars
  BY <1>1, <1>7 DEF vars
<1>8. QED
  BY <1>2, <1>3, <1>4, <1>5, <1>6, <1>7 DEF Next

\* One request or one stream follows a turn, and it is the turn in progress.
LEMMA FollowingIsEnough ==
  ASSUME FollowingInvariant
  PROVE  OnlyTheTurnInProgressIsFollowed
<1> DEFINE opening == {task \in tasks : task.kind \in {"open", "resume"}}
<1>1. Store(ui) /\ Followed(ui, conn, tasks)
  BY DEF FollowingInvariant
<1>2. \A k, l \in opening : k = l
  BY <1>1 DEF Followed, Carries, Opens
<1>3. Cardinality(opening) =< 1
  <2>1. CASE opening = {}
    BY <2>1, FS_EmptySet
  <2>2. CASE opening # {}
    <3> HIDE DEF opening
    <3>1. PICK k : k \in opening
      BY <2>2
    <3>2. opening = {k}
      BY <1>2, <3>1
    <3>3. Cardinality({k}) = 1
      BY FS_Singleton
    <3>4. QED
      BY <3>2, <3>3
  <2>3. QED
    BY <2>1, <2>2
<1>4. QED
  BY <1>1, <1>3 DEF OnlyTheTurnInProgressIsFollowed, Followed, Carries, Opens

\* However streams break, servers restart and the person stops and asks again,
\* only the newest turn is ever followed, and by one stream
\* (project-chat-store.ts).
THEOREM OnlyOneTurnIsFollowed == Spec => []OnlyTheTurnInProgressIsFollowed
<1>1. Init => FollowingInvariant
  BY FollowingInitially
<1>2. FollowingInvariant /\ [Next]_vars => FollowingInvariant'
  BY FollowingStep
<1>3. FollowingInvariant => OnlyTheTurnInProgressIsFollowed
  BY FollowingIsEnough
<1>4. QED
  BY <1>1, <1>2, <1>3, PTL DEF Spec

-----------------------------------------------------------------------------
(* What was asked and what answers it.                                     *)

Phases    == UnderWay \cup {"finished", "failed", "dead"}
Turn      == [prompt : Prompts, phase : Phases, stopped : BOOLEAN, cut : BOOLEAN]

\* The saved messages are of turns of the server.
SavedFits(saved, g) ==
  /\ saved \in Seq([gen : Nat, events : BOOLEAN])
  /\ \A i \in 1..Len(saved) : saved[i].gen \in 1..Len(g)

\* The registry holds the one turn that is not over.
ServerFits(g, r, h) ==
  /\ g \in Seq(Turn)
  /\ r \in 0..Len(g)
  /\ \A n \in 1..Len(g) : g[n].phase \in UnderWay => r = n
  /\ SavedFits(h, g)

\* The saved reply says what was done for turn n.
IsTold(h, n) == \E i \in 1..Len(h) : h[i].gen = n /\ h[i].events

\* The last message is of the turn that is being saved, and a turn whose files
\* were published was saved whole, was cut short or is still being saved.
FilesFit(g, h, c) ==
  /\ \A n \in 1..Len(g) : g[n].phase \in {"replied", "published"} => Len(h) # 0 /\ h[Len(h)].gen = n
  /\ c \subseteq 1..Len(g)
  /\ \A n \in c : \/ g[n].phase = "published"
                  \/ g[n].phase \in {"recorded", "finished", "failed", "dead"} /\ (g[n].cut \/ IsTold(h, n))

\* What the server has it keeps; a reply may come to say more.
Grown(g, h, g2, h2) ==
  /\ Len(g) <= Len(g2) /\ \A n \in 1..Len(g) : g2[n].prompt = g[n].prompt
  /\ Len(h) <= Len(h2) /\ \A n \in 1..Len(h) : h2[n].gen = h[n].gen

\* A sequence of records of the server has a length.
LEMMA ServerHasLengths ==
  ASSUME NEW g, NEW r, NEW h, ServerFits(g, r, h)
  PROVE  Len(g) \in Nat /\ Len(h) \in Nat /\ r \in Nat
BY LenProperties DEF ServerFits, SavedFits

\* A turn goes on in its phase, or is stopped.
LEMMA TurnChanges ==
  ASSUME NEW g, NEW r, NEW h, ServerFits(g, r, h), NEW n \in 1..Len(g), NEW turn \in Turn,
         turn.prompt = g[n].prompt,
         turn.phase \in UnderWay => g[n].phase \in UnderWay,
         NEW g2, g2 = [g EXCEPT ![n] = turn]
  PROVE  /\ ServerFits(g2, r, h) /\ Grown(g, h, g2, h)
         /\ Len(g2) = Len(g) /\ \A m \in 1..Len(g) : g2[m] = IF m = n THEN turn ELSE g[m]
<1>1. g \in Seq(Turn) /\ Len(g) \in Nat /\ Len(h) \in Nat
  BY ServerHasLengths DEF ServerFits
<1>2. g2 \in Seq(Turn) /\ Len(g2) = Len(g) /\ \A m \in 1..Len(g) : g2[m] = IF m = n THEN turn ELSE g[m]
  BY <1>1, ExceptSeq
<1>3. \A m \in 1..Len(g2) : g2[m].phase \in UnderWay => r = m
  BY <1>2 DEF ServerFits
<1>4. QED
  BY <1>1, <1>2, <1>3 DEF ServerFits, SavedFits, Grown

\* A turn is started when none is under way.
LEMMA TurnStarts ==
  ASSUME NEW g, NEW h, ServerFits(g, 0, h), NEW turn \in Turn, NEW g2, g2 = Append(g, turn)
  PROVE  /\ ServerFits(g2, Len(g) + 1, h) /\ Grown(g, h, g2, h)
         /\ Len(g2) = Len(g) + 1 /\ g2[Len(g) + 1] = turn /\ \A m \in 1..Len(g) : g2[m] = g[m]
<1>1. g \in Seq(Turn) /\ Len(g) \in Nat /\ Len(h) \in Nat
  BY ServerHasLengths DEF ServerFits
<1>2. /\ g2 \in Seq(Turn) /\ Len(g2) = Len(g) + 1 /\ g2[Len(g) + 1] = turn
      /\ \A m \in 1..Len(g) : g2[m] = g[m]
  BY <1>1, AppendProperties
<1>3. \A m \in 1..Len(g) : g[m].phase \notin UnderWay
  BY <1>1 DEF ServerFits
<1>4. \A m \in 1..Len(g2) : g2[m].phase \in UnderWay => m = Len(g) + 1
  BY <1>1, <1>2, <1>3
<1>5. QED
  BY <1>1, <1>2, <1>4 DEF ServerFits, SavedFits, Grown

\* A turn is saved.
LEMMA TurnIsSaved ==
  ASSUME NEW g, NEW r, NEW h, ServerFits(g, r, h), NEW n \in 1..Len(g), NEW events \in BOOLEAN,
         NEW h2, h2 = Append(h, [gen |-> n, events |-> events])
  PROVE  /\ ServerFits(g, r, h2) /\ Grown(g, h, g, h2)
         /\ Len(h2) = Len(h) + 1 /\ h2[Len(h) + 1].gen = n /\ \A m \in 1..Len(h) : h2[m] = h[m]
<1> DEFINE Message == [gen : Nat, events : BOOLEAN]
           saved == [gen |-> n, events |-> events]
<1>1. h \in Seq(Message) /\ Len(g) \in Nat /\ Len(h) \in Nat
  BY ServerHasLengths DEF ServerFits, SavedFits
<1>2. saved \in Message /\ saved.gen = n
  BY <1>1
<1> HIDE DEF saved, Message
<1>3. h2 = Append(h, saved)
  BY DEF saved
<1>4. h2 \in Seq(Message) /\ Len(h2) = Len(h) + 1 /\ h2[Len(h) + 1] = saved /\ \A m \in 1..Len(h) : h2[m] = h[m]
  BY <1>1, <1>2, <1>3, AppendProperties
<1>5. \A m \in 1..Len(h2) : h2[m].gen \in 1..Len(g)
  BY <1>1, <1>2, <1>4 DEF ServerFits, SavedFits
<1>6. QED
  BY <1>1, <1>2, <1>4, <1>5 DEF ServerFits, SavedFits, Grown, Message

\* The last reply says what was done.
LEMMA ReplyIsTold ==
  ASSUME NEW g, NEW r, NEW h, ServerFits(g, r, h), Len(h) # 0, NEW h2, h2 = [h EXCEPT ![Len(h)].events = TRUE]
  PROVE  /\ ServerFits(g, r, h2) /\ Grown(g, h, g, h2)
         /\ Len(h2) = Len(h) /\ h2[Len(h)].events
         /\ \A m \in 1..Len(h) : h2[m].gen = h[m].gen /\ (h[m].events => h2[m].events)
<1> DEFINE Message == [gen : Nat, events : BOOLEAN]
<1>1. h \in Seq(Message) /\ Len(g) \in Nat /\ Len(h) \in Nat
  BY ServerHasLengths DEF ServerFits, SavedFits
<1>2. PICK n : n = Len(h)
  OBVIOUS
<1>3. PICK old : old = h[n]
  OBVIOUS
<1>4. PICK told : told = [old EXCEPT !.events = TRUE]
  OBVIOUS
<1>5. n \in 1..Len(h)
  BY <1>1, <1>2
<1>6. old \in Message
  BY <1>1, <1>3, <1>5, ElementOfSeq
<1>7. told \in Message /\ told.gen = old.gen /\ told.events = TRUE
  BY <1>4, <1>6
<1>8. h2 = [h EXCEPT ![n] = told]
  BY <1>2, <1>3, <1>4
<1> HIDE DEF Message
<1>9. h2 \in Seq(Message) /\ Len(h2) = Len(h) /\ \A m \in 1..Len(h) : h2[m] = IF m = n THEN told ELSE h[m]
  <2>1. h \in Seq(Message) /\ told \in Message
    BY <1>1, <1>7
  <2>2. PICK x : x = [h EXCEPT ![n] = told]
    OBVIOUS
  <2>3. x \in Seq(Message) /\ Len(x) = Len(h) /\ \A m \in 1..Len(h) : x[m] = IF m = n THEN told ELSE h[m]
    BY <1>5, <2>1, <2>2, ExceptSeq
  <2>4. QED
    BY <1>8, <2>2, <2>3
<1>10. \A m \in 1..Len(h) : h2[m].gen = h[m].gen /\ (h[m].events => h2[m].events)
  BY <1>3, <1>7, <1>9
<1>11. h2[Len(h)].events
  BY <1>2, <1>5, <1>7, <1>9
<1>12. SavedFits(h2, g)
  BY <1>9, <1>10 DEF ServerFits, SavedFits, Message
<1>13. ServerFits(g, r, h2) /\ Grown(g, h, g, h2)
  BY <1>1, <1>9, <1>10, <1>12 DEF ServerFits, Grown
<1>14. QED
  BY <1>9, <1>10, <1>11, <1>13

\* The registry forgets a turn that is over.
LEMMA RegistryForgets ==
  ASSUME NEW g, NEW r, NEW h, ServerFits(g, r, h), NEW n \in 1..Len(g), g[n].phase \notin UnderWay,
         NEW r2, r2 = IF r = n THEN 0 ELSE r
  PROVE  ServerFits(g, r2, h)
BY ServerHasLengths DEF ServerFits

\* What grew twice has grown.
LEMMA GrownTwice ==
  ASSUME NEW g, NEW h, NEW g2, NEW h2, NEW g3, NEW h3, Grown(g, h, g2, h2), Grown(g2, h2, g3, h3),
         Len(g) \in Nat, Len(g2) \in Nat, Len(g3) \in Nat, Len(h) \in Nat, Len(h2) \in Nat, Len(h3) \in Nat
  PROVE  Grown(g, h, g3, h3)
BY DEF Grown

\* A turn in another phase.
InPhase(g, n, to, cut) == [g EXCEPT ![n].phase = to, ![n].cut = cut]

Moved(g, g2, n, to, cut) ==
  /\ Len(g2) = Len(g)
  /\ \A m \in 1..Len(g) : /\ g2[m].phase = IF m = n THEN to ELSE g[m].phase
                          /\ g2[m].cut = IF m = n THEN cut ELSE g[m].cut

\* A turn moves to another phase.
LEMMA PhaseMoves ==
  ASSUME NEW g, NEW r, NEW h, ServerFits(g, r, h), NEW n \in 1..Len(g), NEW to \in Phases, NEW cut \in BOOLEAN,
         to \in UnderWay => g[n].phase \in UnderWay, NEW g2, g2 = InPhase(g, n, to, cut)
  PROVE  ServerFits(g2, r, h) /\ Grown(g, h, g2, h) /\ Moved(g, g2, n, to, cut)
<1>1. g \in Seq(Turn) /\ Len(g) \in Nat
  BY ServerHasLengths DEF ServerFits
<1>2. PICK old : old = g[n]
  OBVIOUS
<1>3. old \in Turn
  BY <1>1, <1>2
<1>4. PICK turn : turn = [old EXCEPT !.phase = to, !.cut = cut]
  OBVIOUS
<1>5. turn \in Turn /\ turn.prompt = old.prompt /\ turn.phase = to /\ turn.cut = cut
  BY <1>3, <1>4 DEF Turn
<1>6. g2 = [g EXCEPT ![n] = turn]
  BY <1>2, <1>4 DEF InPhase
<1>7. turn.prompt = g[n].prompt /\ (turn.phase \in UnderWay => g[n].phase \in UnderWay)
  BY <1>2, <1>5
<1>8. turn \in Turn
  BY <1>5
<1>9. ServerFits(g2, r, h) /\ Grown(g, h, g2, h)
  BY <1>6, <1>7, <1>8, TurnChanges
<1>10. Len(g2) = Len(g) /\ \A m \in 1..Len(g) : g2[m] = IF m = n THEN turn ELSE g[m]
  BY <1>6, <1>7, <1>8, TurnChanges
<1>11. QED
  BY <1>5, <1>9, <1>10 DEF Moved

\* What is told in the messages stays told when they grow or say more.
LEMMA ToldStill ==
  ASSUME NEW h, NEW h2, NEW n, IsTold(h, n), Len(h) \in Nat, Len(h2) \in Nat, Len(h) <= Len(h2),
         \A m \in 1..Len(h) : h2[m].gen = h[m].gen /\ (h[m].events => h2[m].events)
  PROVE  IsTold(h2, n)
<1>1. PICK i \in 1..Len(h) : h[i].gen = n /\ h[i].events
  BY DEF IsTold
<1>2. i \in 1..Len(h2) /\ h2[i].gen = n /\ h2[i].events
  BY <1>1
<1>3. QED
  BY <1>2 DEF IsTold

\* A turn that is not being saved has no files or is settled, and stays so.
LEMMA FilesStill ==
  ASSUME NEW g, NEW h, NEW c, FilesFit(g, h, c), Len(g) \in Nat, NEW g2, Len(g2) \in Nat, Len(g) <= Len(g2),
         \A n \in 1..Len(g) : g2[n].phase = g[n].phase /\ g2[n].cut = g[n].cut,
         \A n \in 1..Len(g2) : n \notin 1..Len(g) => g2[n].phase = "running"
  PROVE  FilesFit(g2, h, c)
<1>1. c \subseteq 1..Len(g2)
  BY DEF FilesFit
<1>2. \A n \in 1..Len(g2) : g2[n].phase \in {"replied", "published"} => Len(h) # 0 /\ h[Len(h)].gen = n
  BY DEF FilesFit
<1>3. \A n \in c : n \in 1..Len(g)
  BY DEF FilesFit
<1>4. QED
  BY <1>1, <1>2, <1>3 DEF FilesFit

\* The turn under way goes from one phase to another; the others are settled.
LEMMA FilesMove ==
  ASSUME NEW g, NEW r, NEW h, NEW c, ServerFits(g, r, h), FilesFit(g, h, c), NEW n \in 1..Len(g),
         g[n].phase \in UnderWay, NEW g2, NEW to, NEW cut \in BOOLEAN, Moved(g, g2, n, to, cut),
         NEW h2, Len(h2) \in Nat, Len(h) <= Len(h2),
         \A m \in 1..Len(h) : h2[m].gen = h[m].gen /\ (h[m].events => h2[m].events),
         to \in {"replied", "published"} => Len(h2) # 0 /\ h2[Len(h2)].gen = n,
         NEW c2, c2 = c \/ c2 = c \cup {n},
         n \in c2 => \/ to = "published"
                     \/ to \in {"recorded", "finished", "failed", "dead"} /\ (cut \/ IsTold(h2, n))
  PROVE  FilesFit(g2, h2, c2)
<1>1. Len(g) \in Nat /\ Len(h) \in Nat /\ Len(g2) = Len(g)
  BY ServerHasLengths DEF Moved
<1>2. ASSUME NEW m \in 1..Len(g2), g2[m].phase \in {"replied", "published"}
      PROVE  Len(h2) # 0 /\ h2[Len(h2)].gen = m
  <2>1. CASE m = n
    BY <1>1, <1>2, <2>1 DEF Moved
  <2>2. CASE m # n
    <3>1. g[m].phase \in UnderWay
      BY <1>1, <1>2, <2>2 DEF Moved, UnderWay
    <3>2. r = m /\ r = n
      BY <1>1, <3>1 DEF ServerFits
    <3>3. QED
      BY <2>2, <3>2
  <2>3. QED
    BY <2>1, <2>2
<1>3. c2 \subseteq 1..Len(g2)
  <2>1. c \subseteq 1..Len(g)
    BY DEF FilesFit
  <2>2. QED
    BY <1>1, <2>1
<1>4. ASSUME NEW m \in c2
      PROVE  \/ g2[m].phase = "published"
             \/ g2[m].phase \in {"recorded", "finished", "failed", "dead"} /\ (g2[m].cut \/ IsTold(h2, m))
  <2>1. CASE m = n
    BY <1>1, <1>4, <2>1 DEF Moved
  <2>2. CASE m # n
    <3>1. m \in c /\ m \in 1..Len(g)
      BY <1>4, <2>2 DEF FilesFit
    <3>2. g2[m].phase = g[m].phase /\ g2[m].cut = g[m].cut
      BY <2>2, <3>1 DEF Moved
    <3>3. IsTold(h, m) => IsTold(h2, m)
      BY <1>1, ToldStill
    <3>4. QED
      BY <3>1, <3>2, <3>3 DEF FilesFit
  <2>3. QED
    BY <2>1, <2>2
<1>5. QED
  BY <1>2, <1>3, <1>4 DEF FilesFit

\* What the server holds, and what a step makes of it.
ServerHolds == ServerFits(gens, registry, history) /\ FilesFit(gens, history, changed)

ServerGoesOn ==
  /\ ServerFits(gens', registry', history') /\ Grown(gens, history, gens', history')
  /\ FilesFit(gens', history', changed')

\* Nothing of it changes.
LEMMA ServerStays ==
  ASSUME ServerHolds, gens' = gens, registry' = registry, history' = history, changed' = changed
  PROVE  ServerGoesOn
BY ServerHasLengths DEF ServerHolds, ServerGoesOn, Grown

\* A new prompt starts a turn of its own.
LEMMA StartTurnFits ==
  ASSUME ServerHolds, registry = 0, NEW prompt \in Prompts, StartTurn(prompt), history' = history, changed' = changed
  PROVE  ServerGoesOn
<1>1. PICK turn : turn = NewTurn(prompt)
  OBVIOUS
<1>2. turn \in Turn /\ turn.phase = "running"
  BY <1>1 DEF NewTurn, Turn, Phases, UnderWay
<1>3. gens' = Append(gens, turn) /\ registry' = Len(gens) + 1
  BY <1>1 DEF StartTurn
<1>4. ServerFits(gens, 0, history) /\ FilesFit(gens, history, changed) /\ Len(gens) \in Nat
  BY ServerHasLengths DEF ServerHolds
<1>5. PICK g2 : g2 = Append(gens, turn)
  OBVIOUS
<1>6. /\ ServerFits(g2, Len(gens) + 1, history) /\ Grown(gens, history, g2, history)
      /\ Len(g2) = Len(gens) + 1 /\ g2[Len(gens) + 1] = turn /\ \A m \in 1..Len(gens) : g2[m] = gens[m]
  <2>1. turn \in Turn /\ ServerFits(gens, 0, history)
    BY <1>2, <1>4
  <2>2. ServerFits(g2, Len(gens) + 1, history) /\ Grown(gens, history, g2, history)
    BY <1>5, <2>1, TurnStarts
  <2>3. Len(g2) = Len(gens) + 1 /\ g2[Len(gens) + 1] = turn /\ \A m \in 1..Len(gens) : g2[m] = gens[m]
    BY <1>5, <2>1, TurnStarts
  <2>4. QED
    BY <2>2, <2>3
<1>7. \A n \in 1..Len(g2) : n \notin 1..Len(gens) => g2[n].phase = "running"
  BY <1>2, <1>4, <1>6
<1>8. FilesFit(g2, history, changed)
  BY <1>4, <1>6, <1>7, FilesStill
<1>9. QED
  BY <1>3, <1>5, <1>6, <1>8 DEF ServerGoesOn

\* The turn under way moves to another of its phases.
LEMMA TurnGoesOn ==
  ASSUME ServerHolds, NEW g \in 1..Len(gens), gens[g].phase \in UnderWay, NEW to \in Phases, NEW cut \in BOOLEAN,
         gens' = [gens EXCEPT ![g].phase = to, ![g].cut = cut],
         NEW h, ServerFits(gens, registry, h), Grown(gens, history, gens, h),
         \A m \in 1..Len(history) : history[m].events => h[m].events,
         history' = h,
         registry' = registry \/ (to \notin UnderWay /\ registry' = IF registry = g THEN 0 ELSE registry),
         to \in {"replied", "published"} => Len(h) # 0 /\ h[Len(h)].gen = g,
         changed' = changed \/ changed' = changed \cup {g},
         g \in changed' => \/ to = "published"
                           \/ to \in {"recorded", "finished", "failed", "dead"} /\ (cut \/ IsTold(h, g))
  PROVE  ServerGoesOn
<1>1. PICK g2 : g2 = InPhase(gens, g, to, cut)
  OBVIOUS
<1>2. gens' = g2
  BY <1>1 DEF InPhase
<1>3. ServerFits(gens, registry, history) /\ FilesFit(gens, history, changed)
  BY DEF ServerHolds
<1>4. ServerFits(g2, registry, h) /\ Grown(gens, h, g2, h) /\ Moved(gens, g2, g, to, cut)
  BY <1>1, PhaseMoves
<1>5. Len(gens) \in Nat /\ Len(history) \in Nat /\ Len(h) \in Nat /\ Len(g2) \in Nat
  BY <1>3, <1>4, ServerHasLengths
<1>6. Grown(gens, history, g2, h)
  BY <1>4, <1>5, GrownTwice
<1>7. ServerFits(g2, registry', h)
  <2>1. CASE registry' = registry
    BY <1>4, <2>1
  <2>2. CASE to \notin UnderWay /\ registry' = IF registry = g THEN 0 ELSE registry
    <3>1. g \in 1..Len(g2) /\ g2[g].phase \notin UnderWay
      BY <1>4, <2>2 DEF Moved
    <3>2. QED
      BY <1>4, <2>2, <3>1, RegistryForgets
  <2>3. QED
    BY <2>1, <2>2
<1>8. FilesFit(g2, h, changed')
  <2>1. Len(history) <= Len(h) /\ \A m \in 1..Len(history) : h[m].gen = history[m].gen
    BY DEF Grown
  <2>2. PICK c2 : c2 = changed'
    OBVIOUS
  <2>3. FilesFit(g2, h, c2)
    BY <1>3, <1>4, <1>5, <2>1, <2>2, FilesMove
  <2>4. QED
    BY <2>2, <2>3
<1>9. QED
  BY <1>2, <1>6, <1>7, <1>8 DEF ServerGoesOn

\* The messages of a server that leaves them alone.
LEMMA MessagesStay ==
  ASSUME ServerHolds
  PROVE  /\ ServerFits(gens, registry, history) /\ Grown(gens, history, gens, history)
         /\ \A m \in 1..Len(history) : history[m].events => history[m].events
         /\ gens \in Seq(Turn) /\ Len(gens) \in Nat /\ Len(history) \in Nat
BY ServerHasLengths DEF ServerHolds, ServerFits, Grown

\* A turn that is not yet being saved has no files.
LEMMA NoFilesYet ==
  ASSUME ServerHolds, NEW g \in 1..Len(gens), gens[g].phase \in {"running", "saving", "replied"}
  PROVE  g \notin changed
BY DEF ServerHolds, FilesFit

\* The saving begins.
LEMMA BeginSavingFits ==
  ASSUME ServerHolds, NEW g \in 1..Len(gens), BeginSaving(g)
  PROVE  ServerGoesOn
<1>1. PICK to : to = "saving"
  OBVIOUS
<1>2. /\ gens[g].phase = "running" /\ gens' = [gens EXCEPT ![g].phase = to, ![g].cut = FALSE]
      /\ registry' = registry /\ history' = history /\ changed' = changed
  BY <1>1 DEF BeginSaving, Phase
<1>3. g \notin changed
  BY <1>2, NoFilesYet
<1>4. gens[g].phase \in UnderWay /\ to \in Phases /\ to \notin {"replied", "published"}
  BY <1>1, <1>2 DEF UnderWay, Phases
<1>5. QED
  BY <1>2, <1>3, <1>4, MessagesStay, TurnGoesOn

\* The question and a blank reply are saved.
LEMMA SaveMessagesFits ==
  ASSUME ServerHolds, NEW g \in 1..Len(gens), SaveMessages(g)
  PROVE  ServerGoesOn
<1>1. PICK to : to = "replied"
  OBVIOUS
<1>2. PICK h : h = Append(history, [gen |-> g, events |-> FALSE])
  OBVIOUS
<1>3. /\ gens[g].phase = "saving" /\ gens' = [gens EXCEPT ![g].phase = to, ![g].cut = FALSE]
      /\ registry' = registry /\ history' = h /\ changed' = changed
  BY <1>1, <1>2 DEF SaveMessages, Phase
<1>4. g \notin changed
  BY <1>3, NoFilesYet
<1>5. gens[g].phase \in UnderWay /\ to \in Phases
  BY <1>1, <1>3 DEF UnderWay, Phases
<1>6. /\ ServerFits(gens, registry, h) /\ Grown(gens, history, gens, h)
      /\ Len(h) = Len(history) + 1 /\ h[Len(history) + 1].gen = g /\ \A m \in 1..Len(history) : h[m] = history[m]
  <2>1. PICK events \in BOOLEAN : events = FALSE
    OBVIOUS
  <2>2. ServerFits(gens, registry, history) /\ h = Append(history, [gen |-> g, events |-> events])
    BY <1>2, <2>1, MessagesStay
  <2>3. ServerFits(gens, registry, h)
    BY <2>2, TurnIsSaved
  <2>4. Len(h) = Len(history) + 1 /\ h[Len(history) + 1].gen = g /\ \A m \in 1..Len(history) : h[m] = history[m]
    BY <2>2, TurnIsSaved
  <2>5. Grown(gens, history, gens, h)
    BY <2>4, MessagesStay DEF Grown
  <2>6. QED
    BY <2>3, <2>4, <2>5
<1>7. Len(h) # 0 /\ h[Len(h)].gen = g
  BY <1>6, MessagesStay
<1>8. QED
  BY <1>3, <1>4, <1>5, <1>6, <1>7, TurnGoesOn

\* The files are published, or refused.
LEMMA PublishFilesFits ==
  ASSUME ServerHolds, NEW g \in 1..Len(gens), PublishFiles(g)
  PROVE  ServerGoesOn
<1>1. PICK to : to = "published"
  OBVIOUS
<1>2. /\ gens[g].phase = "replied" /\ gens' = [gens EXCEPT ![g].phase = to, ![g].cut = FALSE]
      /\ registry' = registry /\ history' = history /\ (changed' = changed \/ changed' = changed \cup {g})
  BY <1>1 DEF PublishFiles, Phase
<1>3. gens[g].phase \in UnderWay /\ to \in Phases
  BY <1>1, <1>2 DEF UnderWay, Phases
<1>4. Len(history) # 0 /\ history[Len(history)].gen = g
  BY <1>2 DEF ServerHolds, FilesFit
<1>5. QED
  BY <1>1, <1>2, <1>3, <1>4, MessagesStay, TurnGoesOn

\* The reply is saved whole, or cut short.
LEMMA RecordTurnFits ==
  ASSUME ServerHolds, NEW g \in 1..Len(gens), RecordTurn(g)
  PROVE  ServerGoesOn
<1>1. PICK to : to = "recorded"
  OBVIOUS
<1>2. gens[g].phase = "published" /\ registry' = registry /\ changed' = changed
  BY DEF RecordTurn, Phase
<1>3. gens[g].phase \in UnderWay /\ to \in Phases /\ to \notin {"replied", "published"}
  BY <1>1, <1>2 DEF UnderWay, Phases
<1>4. Len(history) # 0 /\ history[Len(history)].gen = g
  BY <1>2 DEF ServerHolds, FilesFit
<1>5. CASE /\ gens' = [gens EXCEPT ![g].phase = to, ![g].cut = TRUE]
           /\ history' = history
  BY <1>1, <1>2, <1>3, <1>5, MessagesStay, TurnGoesOn
<1>6. CASE /\ gens' = [gens EXCEPT ![g].phase = to, ![g].cut = FALSE]
           /\ history' = [history EXCEPT ![Len(history)].events = TRUE]
  <2>1. PICK h : h = [history EXCEPT ![Len(history)].events = TRUE]
    OBVIOUS
  <2>2. /\ ServerFits(gens, registry, h) /\ Grown(gens, history, gens, h)
        /\ Len(h) = Len(history) /\ h[Len(history)].events
        /\ \A m \in 1..Len(history) : h[m].gen = history[m].gen /\ (history[m].events => h[m].events)
    <3>1. ServerFits(gens, registry, history) /\ Len(history) # 0
      BY <1>4, MessagesStay
    <3>2. ServerFits(gens, registry, h) /\ Grown(gens, history, gens, h)
      BY <2>1, <3>1, ReplyIsTold
    <3>3. Len(h) = Len(history) /\ h[Len(history)].events
      BY <2>1, <3>1, ReplyIsTold
    <3>4. \A m \in 1..Len(history) : h[m].gen = history[m].gen /\ (history[m].events => h[m].events)
      BY <2>1, <3>1, ReplyIsTold
    <3>5. QED
      BY <3>2, <3>3, <3>4
  <2>3. IsTold(h, g)
    <3>1. Len(history) \in 1..Len(h) /\ h[Len(history)].gen = g
      BY <1>4, <2>2, MessagesStay
    <3>2. QED
      BY <2>2, <3>1 DEF IsTold
  <2>4. history' = h
    BY <1>6, <2>1
  <2>5. QED
    BY <1>1, <1>2, <1>3, <1>6, <2>2, <2>3, <2>4, TurnGoesOn
<1>7. QED
  BY <1>1, <1>5, <1>6 DEF RecordTurn, Phase

\* The turn is done.
LEMMA FinishTurnFits ==
  ASSUME ServerHolds, NEW g \in 1..Len(gens), FinishTurn(g)
  PROVE  ServerGoesOn
<1>1. PICK to, cut : to = "finished" /\ cut = gens[g].cut
  OBVIOUS
<1>2. /\ gens[g].phase = "recorded" /\ gens' = [gens EXCEPT ![g].phase = to, ![g].cut = cut]
      /\ registry' = (IF registry = g THEN 0 ELSE registry) /\ history' = history /\ changed' = changed
  BY <1>1 DEF FinishTurn, Phase, Forgets
<1>3. gens[g].phase \in UnderWay /\ to \in Phases /\ to \notin UnderWay /\ to \notin {"replied", "published"}
  BY <1>1, <1>2 DEF UnderWay, Phases
<1>4. cut \in BOOLEAN
  <2>1. gens[g] \in Turn
    BY MessagesStay, ElementOfSeq
  <2>2. QED
    BY <1>1, <2>1 DEF Turn
<1>5. g \in changed => cut \/ IsTold(history, g)
  BY <1>1, <1>2 DEF ServerHolds, FilesFit
<1>6. QED
  BY <1>1, <1>2, <1>3, <1>4, <1>5, MessagesStay, TurnGoesOn

\* A turn is cut short.
LEMMA CutTurnFits ==
  ASSUME ServerHolds, NEW g \in 1..Len(gens), gens[g].phase \in UnderWay, NEW to \in {"failed", "dead"},
         gens' = [gens EXCEPT ![g].phase = to, ![g].cut = TRUE],
         registry' = (IF registry = g THEN 0 ELSE registry), history' = history, changed' = changed
  PROVE  ServerGoesOn
<1>1. /\ to \in Phases /\ to \notin UnderWay /\ to \notin {"replied", "published"}
      /\ to \in {"recorded", "finished", "failed", "dead"}
  BY DEF UnderWay, Phases
<1>2. QED
  BY <1>1, MessagesStay, TurnGoesOn

\* The server's own steps, and its faults.
LEMMA ServerStepFits ==
  ASSUME ServerHolds, ServerStep \/ Faults
  PROVE  ServerGoesOn
<1>1. DOMAIN gens = 1..Len(gens)
  BY MessagesStay, LenProperties
<1>2. ASSUME NEW g \in 1..Len(gens),
             BeginSaving(g) \/ SaveMessages(g) \/ PublishFiles(g) \/ RecordTurn(g) \/ FinishTurn(g)
      PROVE  ServerGoesOn
  BY <1>2, BeginSavingFits, SaveMessagesFits, PublishFilesFits, RecordTurnFits, FinishTurnFits
<1>3. ASSUME NEW g \in 1..Len(gens), CannotSave(g)
      PROVE  ServerGoesOn
  <2>1. /\ gens[g].phase \in UnderWay /\ gens' = [gens EXCEPT ![g].phase = "failed", ![g].cut = TRUE]
        /\ registry' = (IF registry = g THEN 0 ELSE registry) /\ history' = history /\ changed' = changed
    BY <1>3 DEF CannotSave, Phase, Forgets
  <2>2. QED
    BY <2>1, CutTurnFits
<1>4. CASE Restart
  <2>1. registry \in 1..Len(gens)
    BY <1>4, MessagesStay DEF Restart, ServerFits
  <2>2. PICK g \in 1..Len(gens) : g = registry
    BY <2>1
  <2>3. /\ gens[g].phase \in UnderWay /\ gens' = [gens EXCEPT ![g].phase = "dead", ![g].cut = TRUE]
        /\ registry' = (IF registry = g THEN 0 ELSE registry) /\ history' = history /\ changed' = changed
    BY <1>4, <2>2 DEF Restart, Phase
  <2>4. QED
    BY <2>3, CutTurnFits
<1>5. QED
  BY <1>1, <1>2, <1>3, <1>4 DEF ServerStep, Faults

\* A stop that reaches the server marks the turn it runs.
LEMMA StopFits ==
  ASSUME ServerHolds, StopArrives, registry' = registry, history' = history, changed' = changed
  PROVE  ServerGoesOn
<1>1. CASE gens' = gens
  BY <1>1, ServerStays
<1>2. CASE registry # 0 /\ gens' = [gens EXCEPT ![registry].stopped = TRUE]
  <2>1. registry \in 1..Len(gens) /\ gens \in Seq(Turn)
    BY <1>2, MessagesStay DEF ServerFits
  <2>2. PICK old : old = gens[registry]
    OBVIOUS
  <2>3. old \in Turn
    BY <2>1, <2>2
  <2>4. PICK turn : turn = [old EXCEPT !.stopped = TRUE]
    OBVIOUS
  <2>5. turn \in Turn /\ turn.prompt = old.prompt /\ turn.phase = old.phase /\ turn.cut = old.cut
    BY <2>3, <2>4 DEF Turn
  <2>6. PICK g2 : g2 = [gens EXCEPT ![registry] = turn]
    OBVIOUS
  <2>7. gens' = g2
    BY <1>2, <2>2, <2>4, <2>6
  <2>8. turn.prompt = gens[registry].prompt /\ (turn.phase \in UnderWay => gens[registry].phase \in UnderWay)
    BY <2>2, <2>5
  <2>9. /\ ServerFits(g2, registry, history) /\ Grown(gens, history, g2, history)
        /\ Len(g2) = Len(gens) /\ \A m \in 1..Len(gens) : g2[m] = IF m = registry THEN turn ELSE gens[m]
    <3>1. ServerFits(gens, registry, history) /\ turn \in Turn
      BY <2>5, MessagesStay
    <3>2. ServerFits(g2, registry, history) /\ Grown(gens, history, g2, history)
      BY <2>1, <2>6, <2>8, <3>1, TurnChanges
    <3>3. Len(g2) = Len(gens) /\ \A m \in 1..Len(gens) : g2[m] = IF m = registry THEN turn ELSE gens[m]
      BY <2>1, <2>6, <2>8, <3>1, TurnChanges
    <3>4. QED
      BY <3>2, <3>3
  <2>10. \A n \in 1..Len(gens) : g2[n].phase = gens[n].phase /\ g2[n].cut = gens[n].cut
    BY <2>2, <2>5, <2>9
  <2>11. FilesFit(gens, history, changed) /\ Len(gens) \in Nat /\ Len(g2) \in Nat /\ Len(gens) <= Len(g2)
    BY <2>9, MessagesStay DEF ServerHolds
  <2>12. FilesFit(g2, history, changed)
    BY <2>9, <2>10, <2>11, FilesStill
  <2>13. QED
    BY <2>7, <2>9, <2>12 DEF ServerGoesOn
<1>3. QED
  BY <1>1, <1>2 DEF StopArrives

-----------------------------------------------------------------------------
(* What the browser shows of it.                                           *)

\* A pair is of the turn its question began, and what it shows answers it.
PairFits(p, turns, g) ==
  /\ p.shows # 0 => p.shows \in 1..Len(g) /\ g[p.shows].prompt = p.prompt
  /\ p.turn # 0 => p.turn \in 1..Len(turns) /\ turns[p.turn].prompt = p.prompt

\* The conversation; the newest turn's pair is the last.
TalkFits(u, g) ==
  /\ u.pairs \in Seq(Pair)
  /\ u.kept \in Prompts \cup {NoPrompt}
  /\ \A i \in 1..Len(u.turns) : u.turns[i].prompt \in Prompts
  /\ \A i \in 1..Len(u.pairs) : PairFits(u.pairs[i], u.turns, g)
  /\ \A i \in 1..Len(u.pairs) : (u.pairs[i].turn # 0 /\ u.pairs[i].turn = u.latest) => i = Len(u.pairs)

IsSaved(prompt, g, h) == \E i \in 1..Len(h) : g[h[i].gen].prompt = prompt

FailedKept(u, g, h) ==
  (/\ Len(u.pairs) # 0 /\ u.pairs[Len(u.pairs)].turn = u.latest
   /\ u.pairs[Len(u.pairs)].mark \in {"failed", "lost"}) =>
     u.kept = u.pairs[Len(u.pairs)].prompt \/ IsSaved(u.pairs[Len(u.pairs)].prompt, g, h)

\* Nothing is called lost that was not before.
NoneLost(u, v) ==
  \A i \in 1..Len(v.pairs) : v.pairs[i].mark = "lost" => i \in 1..Len(u.pairs) /\ u.pairs[i].mark = "lost"

\* A change of what the browser shows after which all of it fits.
Talks(u, v, g, h) == TalkFits(v, g) /\ FailedKept(v, g, h) /\ NoneLost(u, v)

UiRecord(u) ==
  u = [pairs |-> u.pairs, streaming |-> u.streaming, unsaved |-> u.unsaved, latest |-> u.latest,
       inProgress |-> u.inProgress, turns |-> u.turns, kept |-> u.kept,
          offersStop |-> u.offersStop]

\* No turn began, none that was stopped goes on, and each asks what it asked.
SamePrompts(u, v) ==
  /\ v.latest = u.latest /\ Len(v.turns) = Len(u.turns)
  /\ \A i \in 1..Len(u.turns) : /\ v.turns[i].prompt = u.turns[i].prompt
                                /\ ~v.turns[i].stopped => ~u.turns[i].stopped

\* The same questions, some with another mark or an answer that is theirs.
Retold(u, v, g) ==
  /\ v.pairs \in Seq(Pair) /\ Len(v.pairs) <= Len(u.pairs)
  /\ \A i \in 1..Len(v.pairs) :
       /\ v.pairs[i].turn = u.pairs[i].turn /\ v.pairs[i].prompt = u.pairs[i].prompt
       /\ \/ v.pairs[i].shows = u.pairs[i].shows
          \/ v.pairs[i].shows \in 1..Len(g) /\ g[v.pairs[i].shows].prompt = v.pairs[i].prompt

\* A store is a record, and its turns are numbered.
LEMMA StoreIsRecord ==
  ASSUME NEW u, Store(u)
  PROVE  UiRecord(u) /\ Len(u.turns) \in Nat /\ u.latest = Len(u.turns)
BY LenProperties DEF Store, StoreInOrder, UiRecord

\* A conversation retold fits.
LEMMA RetoldFits ==
  ASSUME NEW u, NEW v, NEW g, TalkFits(u, g), SamePrompts(u, v), v.kept \in Prompts \cup {NoPrompt}, Retold(u, v, g)
  PROVE  TalkFits(v, g)
<1>1. Len(u.pairs) \in Nat /\ Len(v.pairs) \in Nat /\ Len(v.pairs) <= Len(u.pairs) /\ v.pairs \in Seq(Pair)
  BY LenProperties DEF TalkFits, Retold
<1>2. \A i \in 1..Len(v.turns) : v.turns[i].prompt \in Prompts
  BY DEF TalkFits, SamePrompts
<1>3. ASSUME NEW i \in 1..Len(v.pairs)
      PROVE  PairFits(v.pairs[i], v.turns, g)
  <2>1. i \in 1..Len(u.pairs)
    BY <1>1
  <2>2. PICK p, q : p = u.pairs[i] /\ q = v.pairs[i]
    OBVIOUS
  <2>3. /\ q.turn = p.turn /\ q.prompt = p.prompt
        /\ q.shows = p.shows \/ (q.shows \in 1..Len(g) /\ g[q.shows].prompt = q.prompt)
    BY <2>2 DEF Retold
  <2>4. PairFits(p, u.turns, g)
    BY <2>1, <2>2 DEF TalkFits
  <2>5. PairFits(q, v.turns, g)
    BY <2>3, <2>4 DEF PairFits, SamePrompts
  <2>6. QED
    BY <2>2, <2>5
<1>4. ASSUME NEW i \in 1..Len(v.pairs), v.pairs[i].turn # 0, v.pairs[i].turn = v.latest
      PROVE  i = Len(v.pairs)
  <2>1. i \in 1..Len(u.pairs) /\ u.pairs[i].turn = v.pairs[i].turn /\ u.latest = v.latest
    BY <1>1 DEF Retold, SamePrompts
  <2>2. i = Len(u.pairs)
    BY <1>4, <2>1 DEF TalkFits
  <2>3. QED
    BY <1>1, <2>2
<1>5. QED
  BY <1>1, <1>2, <1>3, <1>4 DEF TalkFits

\* What is neither said nor kept differently.
LEMMA SameTalk ==
  ASSUME NEW u, NEW v, NEW g, NEW h, TalkFits(u, g), FailedKept(u, g, h), SamePrompts(u, v),
         v.pairs = u.pairs, v.kept = u.kept
  PROVE  Talks(u, v, g, h)
<1>1. u.pairs \in Seq(Pair) /\ Len(u.pairs) \in Nat
  BY LenProperties DEF TalkFits
<1>2. Retold(u, v, g)
  BY <1>1 DEF Retold
<1>3. TalkFits(v, g)
  BY <1>2, RetoldFits DEF TalkFits
<1>4. FailedKept(v, g, h)
  BY DEF FailedKept, SamePrompts
<1>5. QED
  BY <1>3, <1>4 DEF Talks, NoneLost

\* A question's mark.
MarkedPairs(pairs, t, mark) ==
  [i \in DOMAIN pairs |-> IF pairs[i].turn = t THEN [pairs[i] EXCEPT !.mark = mark] ELSE pairs[i]]

\* A mark changes nothing else.
LEMMA MarkedPairsFit ==
  ASSUME NEW pairs \in Seq(Pair), NEW t, NEW mark \in Marks, NEW m, m = MarkedPairs(pairs, t, mark)
  PROVE  /\ m \in Seq(Pair) /\ Len(m) = Len(pairs)
         /\ \A i \in 1..Len(pairs) :
              /\ m[i].turn = pairs[i].turn /\ m[i].prompt = pairs[i].prompt /\ m[i].shows = pairs[i].shows
              /\ m[i].mark = IF pairs[i].turn = t THEN mark ELSE pairs[i].mark
<1>1. Len(pairs) \in Nat /\ DOMAIN pairs = 1..Len(pairs) /\ \A i \in 1..Len(pairs) : pairs[i] \in Pair
  BY LenProperties, ElementOfSeq
<1>2. \A i \in 1..Len(pairs) : m[i] = IF pairs[i].turn = t THEN [pairs[i] EXCEPT !.mark = mark] ELSE pairs[i]
  BY <1>1 DEF MarkedPairs
<1>3. DOMAIN m = 1..Len(pairs)
  BY <1>1 DEF MarkedPairs
<1>4. ASSUME NEW i \in 1..Len(pairs)
      PROVE  /\ m[i] \in Pair
             /\ m[i].turn = pairs[i].turn /\ m[i].prompt = pairs[i].prompt /\ m[i].shows = pairs[i].shows
             /\ m[i].mark = IF pairs[i].turn = t THEN mark ELSE pairs[i].mark
  <2>1. PICK p, q : p = pairs[i] /\ q = m[i]
    OBVIOUS
  <2>2. p \in Pair /\ q = IF p.turn = t THEN [p EXCEPT !.mark = mark] ELSE p
    BY <1>1, <1>2, <2>1
  <2>3. /\ q \in Pair /\ q.turn = p.turn /\ q.prompt = p.prompt /\ q.shows = p.shows
        /\ q.mark = IF p.turn = t THEN mark ELSE p.mark
    BY <2>2 DEF Pair
  <2>4. QED
    BY <2>1, <2>3
<1>5. m \in [1..Len(pairs) -> Pair]
  BY <1>3, <1>4 DEF MarkedPairs
<1>6. m \in Seq(Pair) /\ Len(m) = Len(pairs)
  BY <1>1, <1>5, SeqDef, LenProperties
<1>7. QED
  BY <1>4, <1>6

-----------------------------------------------------------------------------

\* What one of the store's records has after some of it changed.
LEMMA EndTurnFields ==
  ASSUME NEW u, UiRecord(u), NEW t
  PROVE  LET v == EndTurn(u, t) IN
         UiRecord(v) /\ v.pairs = u.pairs /\ v.kept = u.kept /\ v.latest = u.latest /\ v.turns = u.turns
BY DEF UiRecord, EndTurn

\* Marking a turn marks its pair.
LEMMA MarkedFields ==
  ASSUME NEW u, UiRecord(u), NEW t, NEW mark
  PROVE  LET v == Marked(u, t, mark) IN
         /\ UiRecord(v) /\ v.pairs = MarkedPairs(u.pairs, t, mark)
         /\ v.kept = u.kept /\ v.latest = u.latest /\ v.turns = u.turns
<1> DEFINE m == MarkedPairs(u.pairs, t, mark)
<1>1. Marked(u, t, mark) = [u EXCEPT !.pairs = m]
  BY DEF Marked, MarkedPairs
<1> HIDE DEF m
<1>2. QED
  BY <1>1 DEF UiRecord, m

\* A turn that fails is marked.
LEMMA FailTurnFields ==
  ASSUME NEW u, UiRecord(u), NEW t, NEW mark
  PROVE  LET v == FailTurn(u, t, mark) IN
         /\ UiRecord(v) /\ v.pairs = MarkedPairs(u.pairs, t, mark)
         /\ v.kept = u.kept /\ v.latest = u.latest /\ v.turns = u.turns
<1>1. PICK e : e = EndTurn(u, t)
  OBVIOUS
<1>2. PICK m : m = Marked(e, t, mark)
  OBVIOUS
<1>3. UiRecord(e) /\ e.pairs = u.pairs /\ e.kept = u.kept /\ e.latest = u.latest /\ e.turns = u.turns
  BY <1>1, EndTurnFields
<1>4. /\ UiRecord(m) /\ m.pairs = MarkedPairs(u.pairs, t, mark)
      /\ m.kept = u.kept /\ m.latest = u.latest /\ m.turns = u.turns
  BY <1>2, <1>3, MarkedFields
<1>5. FailTurn(u, t, mark) = [m EXCEPT !.streaming = FALSE]
  BY <1>1, <1>2 DEF FailTurn
<1>6. QED
  BY <1>4, <1>5 DEF UiRecord

\* A turn that is given up has its prompt kept.
LEMMA GiveUpFields ==
  ASSUME NEW u, UiRecord(u), NEW t, NEW mark
  PROVE  LET v == GiveUp(u, t, mark) IN
         /\ UiRecord(v) /\ v.pairs = MarkedPairs(u.pairs, t, mark)
         /\ v.kept = u.turns[t].prompt /\ v.latest = u.latest /\ v.turns = u.turns
<1>1. PICK f, prompt : f = FailTurn(u, t, mark) /\ prompt = u.turns[t].prompt
  OBVIOUS
<1>2. /\ UiRecord(f) /\ f.pairs = MarkedPairs(u.pairs, t, mark)
      /\ f.kept = u.kept /\ f.latest = u.latest /\ f.turns = u.turns
  BY <1>1, FailTurnFields
<1>3. GiveUp(u, t, mark) = [f EXCEPT !.kept = prompt]
  BY <1>1 DEF GiveUp
<1>4. QED
  BY <1>1, <1>2, <1>3 DEF UiRecord

\* The same turns ask the same.
LEMMA TheSameTurns ==
  ASSUME NEW u, NEW v, v.latest = u.latest, v.turns = u.turns
  PROVE  SamePrompts(u, v)
BY DEF SamePrompts

\* The same pairs, of which those of turn t have the mark.
Remarked(u, v, t, mark) ==
  /\ Len(v.pairs) = Len(u.pairs)
  /\ \A i \in 1..Len(u.pairs) :
       /\ v.pairs[i].turn = u.pairs[i].turn /\ v.pairs[i].prompt = u.pairs[i].prompt
       /\ v.pairs[i].mark = IF u.pairs[i].turn = t THEN mark ELSE u.pairs[i].mark

\* A conversation in which a turn got a mark.
LEMMA MarkedFits ==
  ASSUME NEW u, NEW v, NEW g, TalkFits(u, g), SamePrompts(u, v), v.kept \in Prompts \cup {NoPrompt},
         NEW t, NEW mark \in Marks, v.pairs = MarkedPairs(u.pairs, t, mark)
  PROVE  TalkFits(v, g) /\ Len(u.pairs) \in Nat /\ Remarked(u, v, t, mark)
<1>1. u.pairs \in Seq(Pair) /\ Len(u.pairs) \in Nat
  BY LenProperties DEF TalkFits
<1>2. PICK m : m = MarkedPairs(u.pairs, t, mark)
  OBVIOUS
<1>3. /\ m \in Seq(Pair) /\ Len(m) = Len(u.pairs)
      /\ \A i \in 1..Len(u.pairs) :
              /\ m[i].turn = u.pairs[i].turn /\ m[i].prompt = u.pairs[i].prompt /\ m[i].shows = u.pairs[i].shows
              /\ m[i].mark = IF u.pairs[i].turn = t THEN mark ELSE u.pairs[i].mark
  BY <1>1, <1>2, MarkedPairsFit
<1>4. v.pairs = m
  BY <1>2
<1>5. Retold(u, v, g)
  BY <1>1, <1>3, <1>4 DEF Retold
<1>6. TalkFits(v, g)
  BY <1>5, RetoldFits
<1>7. QED
  BY <1>1, <1>3, <1>4, <1>6 DEF Remarked

\* What is called lost that was not is what was asked by the prompt.
LostIsOf(u, v, prompt) ==
  \A i \in 1..Len(v.pairs) :
    v.pairs[i].mark = "lost" => (i \in 1..Len(u.pairs) /\ u.pairs[i].mark = "lost") \/ v.pairs[i].prompt = prompt

\* The newest turn is given up: its prompt is kept.
LEMMA GiveUpTalks ==
  ASSUME NEW u, NEW g, NEW h, Store(u), TalkFits(u, g), NEW t \in 1..Len(u.turns), t = u.latest,
         NEW mark \in {"failed", "lost"}, NEW v, v = GiveUp(u, t, mark)
  PROVE  /\ TalkFits(v, g) /\ FailedKept(v, g, h) /\ SamePrompts(u, v)
         /\ mark # "lost" => NoneLost(u, v)
         /\ LostIsOf(u, v, u.turns[t].prompt)
<1>1. UiRecord(u) /\ Len(u.turns) \in Nat
  BY StoreIsRecord
<1>2. /\ v.pairs = MarkedPairs(u.pairs, t, mark) /\ v.kept = u.turns[t].prompt
      /\ v.latest = u.latest /\ v.turns = u.turns
  BY <1>1, GiveUpFields
<1>3. v.kept \in Prompts \cup {NoPrompt} /\ SamePrompts(u, v) /\ mark \in Marks
  BY <1>2, TheSameTurns DEF TalkFits, Marks
<1>4. TalkFits(v, g) /\ Len(u.pairs) \in Nat /\ Remarked(u, v, t, mark)
  BY <1>2, <1>3, MarkedFits
<1>5. ASSUME NEW i \in 1..Len(v.pairs), v.pairs[i].turn = t
      PROVE  v.pairs[i].prompt = u.turns[t].prompt
  <2>1. PairFits(v.pairs[i], v.turns, g) /\ t # 0
    BY <1>1, <1>4 DEF TalkFits, Remarked
  <2>2. QED
    BY <1>2, <1>5, <2>1 DEF PairFits
<1>6. FailedKept(v, g, h)
  <2>1. Len(v.pairs) \in Nat /\ v.latest = t /\ v.kept = u.turns[t].prompt
    BY <1>2, <1>4 DEF Remarked
  <2>2. QED
    BY <1>5, <2>1 DEF FailedKept
<1>7. ASSUME NEW i \in 1..Len(v.pairs), v.pairs[i].mark = "lost"
      PROVE  \/ i \in 1..Len(u.pairs) /\ u.pairs[i].mark = "lost"
             \/ mark = "lost" /\ v.pairs[i].prompt = u.turns[t].prompt
  <2>1. CASE u.pairs[i].turn = t
    BY <1>4, <1>5, <1>7, <2>1 DEF Remarked
  <2>2. CASE u.pairs[i].turn # t
    BY <1>4, <1>7, <2>2 DEF Remarked
  <2>3. QED
    BY <2>1, <2>2
<1>8. QED
  BY <1>3, <1>4, <1>6, <1>7 DEF NoneLost, LostIsOf

\* The newest turn has not failed.
NewestIsWell(u) ==
  \A i \in 1..Len(u.pairs) : u.pairs[i].turn = u.latest => u.pairs[i].mark \notin {"failed", "lost"}

\* Then there is nothing to keep.
LEMMA NoFailure ==
  ASSUME NEW v, NEW g, NEW h, Len(v.pairs) \in Nat, NewestIsWell(v)
  PROVE  FailedKept(v, g, h)
BY DEF FailedKept, NewestIsWell

\* A turn that is done: its answer is marked so, and nothing is kept.
LEMMA DoneTalks ==
  ASSUME NEW u, NEW g, NEW h, Store(u), TalkFits(u, g), NEW t \in 1..Len(u.turns), t = u.latest, NEW v,
         v = [Marked(EndTurn(u, t), t, "done") EXCEPT !.streaming = FALSE, !.unsaved = TRUE, !.kept = NoPrompt]
  PROVE  Talks(u, v, g, h) /\ SamePrompts(u, v)
<1>1. UiRecord(u) /\ Len(u.turns) \in Nat
  BY StoreIsRecord
<1>2. PICK e : e = EndTurn(u, t)
  OBVIOUS
<1>3. PICK m : m = Marked(e, t, "done")
  OBVIOUS
<1>4. UiRecord(e) /\ e.pairs = u.pairs /\ e.latest = u.latest /\ e.turns = u.turns
  BY <1>1, <1>2, EndTurnFields
<1>5. UiRecord(m) /\ m.pairs = MarkedPairs(u.pairs, t, "done") /\ m.latest = u.latest /\ m.turns = u.turns
  BY <1>3, <1>4, MarkedFields
<1>6. v = [m EXCEPT !.streaming = FALSE, !.unsaved = TRUE, !.kept = NoPrompt]
  BY <1>2, <1>3
<1>7. v.pairs = MarkedPairs(u.pairs, t, "done") /\ v.latest = u.latest /\ v.turns = u.turns /\ v.kept = NoPrompt
  BY <1>5, <1>6 DEF UiRecord
<1>8. SamePrompts(u, v) /\ "done" \in Marks
  BY <1>7, TheSameTurns DEF Marks
<1>9. TalkFits(v, g) /\ Len(u.pairs) \in Nat /\ Remarked(u, v, t, "done")
  BY <1>7, <1>8, MarkedFits
<1>10. FailedKept(v, g, h)
  <2>1. Len(v.pairs) \in Nat /\ v.latest = t
    BY <1>7, <1>9 DEF Remarked
  <2>2. NewestIsWell(v)
    BY <1>9, <2>1 DEF NewestIsWell, Remarked
  <2>3. QED
    BY <2>1, <2>2, NoFailure
<1>11. NoneLost(u, v)
  BY <1>9 DEF NoneLost, Remarked
<1>12. QED
  BY <1>8, <1>9, <1>10, <1>11 DEF Talks

\* A turn that is refused is marked so; what is kept stays.
LEMMA RefusedTalks ==
  ASSUME NEW u, NEW g, NEW h, Store(u), TalkFits(u, g), NEW t \in 1..Len(u.turns), t = u.latest, NEW v,
         v = FailTurn(u, t, "refused")
  PROVE  Talks(u, v, g, h) /\ SamePrompts(u, v)
<1>1. UiRecord(u) /\ Len(u.turns) \in Nat
  BY StoreIsRecord
<1>2. /\ v.pairs = MarkedPairs(u.pairs, t, "refused") /\ v.kept = u.kept
      /\ v.latest = u.latest /\ v.turns = u.turns
  BY <1>1, FailTurnFields
<1>3. SamePrompts(u, v) /\ "refused" \in Marks /\ v.kept \in Prompts \cup {NoPrompt}
  BY <1>2, TheSameTurns DEF Marks, TalkFits
<1>4. TalkFits(v, g) /\ Len(u.pairs) \in Nat /\ Remarked(u, v, t, "refused")
  BY <1>2, <1>3, MarkedFits
<1>5. FailedKept(v, g, h)
  <2>1. Len(v.pairs) \in Nat /\ v.latest = t
    BY <1>2, <1>4 DEF Remarked
  <2>2. NewestIsWell(v)
    BY <1>4, <2>1 DEF NewestIsWell, Remarked
  <2>3. QED
    BY <2>1, <2>2, NoFailure
<1>6. NoneLost(u, v)
  BY <1>4 DEF NoneLost, Remarked
<1>7. QED
  BY <1>3, <1>4, <1>5, <1>6 DEF Talks

-----------------------------------------------------------------------------

\* Counting a reconnect leaves the pairs alone.
LEMMA CountFields ==
  ASSUME NEW u, Store(u), NEW t \in 1..Len(u.turns), NEW v, v = [u EXCEPT !.turns[t].reconnects = @ + 1]
  PROVE  v.pairs = u.pairs /\ v.kept = u.kept /\ SamePrompts(u, v)
<1>1. PICK S : u.turns \in Seq(S)
  BY DEF Store
<1>2. PICK turn : turn = u.turns[t]
  OBVIOUS
<1>3. turn = [prompt |-> turn.prompt, reconnects |-> turn.reconnects, stopped |-> turn.stopped]
  BY <1>2 DEF Store, StoreInOrder
<1>4. PICK counted : counted = [turn EXCEPT !.reconnects = turn.reconnects + 1]
  OBVIOUS
<1>5. counted.prompt = turn.prompt /\ counted.stopped = turn.stopped
  BY <1>3, <1>4
<1>6. PICK turns : turns = [u.turns EXCEPT ![t] = counted]
  OBVIOUS
<1>7. v = [u EXCEPT !.turns = turns]
  BY <1>2, <1>4, <1>6
<1>8. v.pairs = u.pairs /\ v.kept = u.kept /\ v.latest = u.latest /\ v.turns = turns
  BY <1>7, StoreIsRecord DEF UiRecord
<1>9. Len(turns) = Len(u.turns) /\ \A i \in 1..Len(u.turns) : turns[i] = IF i = t THEN counted ELSE u.turns[i]
  <2>1. u.turns \in Seq(S \cup {counted}) /\ counted \in S \cup {counted}
    BY <1>1
  <2>2. QED
    BY <1>6, <2>1, ExceptSeq
<1>10. QED
  BY <1>2, <1>5, <1>8, <1>9 DEF SamePrompts

\* A function of the first numbers is a sequence.
LEMMA FunctionIsSeq ==
  ASSUME NEW S, NEW n \in Nat, NEW m \in [1..n -> S]
  PROVE  m \in Seq(S) /\ Len(m) = n
<1>1. m \in Seq(S)
  BY SeqDef
<1>2. QED
  BY <1>1, LenProperties

\* What is shown under turn t.
AdoptedPairs(pairs, t, g) ==
  [i \in DOMAIN pairs |-> IF pairs[i].turn = t THEN [pairs[i] EXCEPT !.mark = "saved", !.shows = g] ELSE pairs[i]]

\* The saved turn is shown under its question.
LEMMA AdoptTalks ==
  ASSUME NEW u, NEW g, NEW h, Store(u), TalkFits(u, g), FailedKept(u, g, h), NEW t \in 1..Len(u.turns),
         t = u.latest, NEW n \in 1..Len(g), Len(g) \in Nat, g[n].prompt = u.turns[t].prompt, NEW v, v = Adopt(u, t, n)
  PROVE  Talks(u, v, g, h) /\ SamePrompts(u, v) /\ UiRecord(v)
<1>1. UiRecord(u) /\ Len(u.turns) \in Nat
  BY StoreIsRecord
<1>2. CASE v = u
  BY <1>1, <1>2, SameTalk, TheSameTurns
<1>3. CASE v # u
  <2>1. PICK m : m = AdoptedPairs(u.pairs, t, n)
    OBVIOUS
  <2>2. v = [u EXCEPT !.pairs = m, !.streaming = FALSE, !.unsaved = FALSE]
    BY <1>3, <2>1 DEF Adopt, AdoptedPairs
  <2>3. v.pairs = m /\ v.kept = u.kept /\ v.latest = u.latest /\ v.turns = u.turns /\ UiRecord(v)
    BY <1>1, <2>2 DEF UiRecord
  <2>4. /\ u.pairs \in Seq(Pair) /\ Len(u.pairs) \in Nat /\ DOMAIN u.pairs = 1..Len(u.pairs)
        /\ \A i \in 1..Len(u.pairs) : u.pairs[i] \in Pair
    BY LenProperties, ElementOfSeq DEF TalkFits
  <2>5. DOMAIN m = 1..Len(u.pairs)
    BY <2>1, <2>4 DEF AdoptedPairs
  <2>6. ASSUME NEW i \in 1..Len(u.pairs)
        PROVE  /\ m[i] \in Pair
               /\ m[i].turn = u.pairs[i].turn /\ m[i].prompt = u.pairs[i].prompt
               /\ m[i].shows = (IF u.pairs[i].turn = t THEN n ELSE u.pairs[i].shows)
               /\ m[i].mark = (IF u.pairs[i].turn = t THEN "saved" ELSE u.pairs[i].mark)
    <3>1. PICK p, q : p = u.pairs[i] /\ q = m[i]
      OBVIOUS
    <3>2. p \in Pair /\ q = IF p.turn = t THEN [p EXCEPT !.mark = "saved", !.shows = n] ELSE p
      BY <2>1, <2>4, <3>1 DEF AdoptedPairs
    <3>3. /\ q \in Pair /\ q.turn = p.turn /\ q.prompt = p.prompt
          /\ q.shows = (IF p.turn = t THEN n ELSE p.shows)
          /\ q.mark = (IF p.turn = t THEN "saved" ELSE p.mark)
      <4>1. n \in Nat
        OBVIOUS
      <4>2. CASE p.turn = t
        <5>1. PICK x : x = "saved"
          OBVIOUS
        <5>2. q = [p EXCEPT !.mark = x, !.shows = n] /\ x \in Marks
          BY <3>2, <4>2, <5>1 DEF Marks
        <5>3. q \in Pair /\ q.turn = p.turn /\ q.prompt = p.prompt /\ q.shows = n /\ q.mark = x
          BY <3>2, <4>1, <5>2 DEF Pair
        <5>4. QED
          BY <4>2, <5>1, <5>3
      <4>3. CASE p.turn # t
        BY <3>2, <4>3
      <4>4. QED
        BY <4>2, <4>3
    <3>4. QED
      BY <3>1, <3>3
  <2>7. m \in [1..Len(u.pairs) -> Pair]
    BY <2>1, <2>5, <2>6 DEF AdoptedPairs
  <2>8. m \in Seq(Pair) /\ Len(m) = Len(u.pairs)
    BY <2>4, <2>7, FunctionIsSeq
  <2>9. ASSUME NEW i \in 1..Len(u.pairs), u.pairs[i].turn = t
        PROVE  u.pairs[i].prompt = u.turns[t].prompt
    <3>1. PairFits(u.pairs[i], u.turns, g)
      BY DEF TalkFits
    <3>2. t # 0
      BY <1>1
    <3>3. QED
      BY <2>9, <3>1, <3>2 DEF PairFits
  <2>10. Retold(u, v, g)
    <3>1. ASSUME NEW i \in 1..Len(u.pairs)
          PROVE  m[i].shows = u.pairs[i].shows \/ (m[i].shows \in 1..Len(g) /\ g[m[i].shows].prompt = m[i].prompt)
      <4>1. CASE u.pairs[i].turn = t
        BY <2>6, <2>9, <4>1
      <4>2. CASE u.pairs[i].turn # t
        BY <2>6, <4>2
      <4>3. QED
        BY <4>1, <4>2
    <3>2. QED
      BY <2>3, <2>4, <2>6, <2>8, <3>1 DEF Retold
  <2>11. SamePrompts(u, v)
    BY <2>3, TheSameTurns
  <2>12. v.kept \in Prompts \cup {NoPrompt}
    BY <2>3 DEF TalkFits
  <2>13. TalkFits(v, g)
    BY <2>10, <2>11, <2>12, RetoldFits
  <2>14. NewestIsWell(v)
    BY <2>3, <2>6, <2>8 DEF NewestIsWell
  <2>15. NoneLost(u, v)
    BY <2>3, <2>6, <2>8 DEF NoneLost
  <2>16. QED
    BY <2>3, <2>4, <2>8, <2>11, <2>13, <2>14, <2>15, NoFailure DEF Talks
<1>4. QED
  BY <1>2, <1>3

\* The pair that is taken back is the last.
LEMMA OthersTalk ==
  ASSUME NEW u, NEW g, NEW h, Store(u), TalkFits(u, g), NEW t \in 1..Len(u.turns), t = u.latest, NEW v,
         v = [EndTurn(u, t) EXCEPT !.streaming = FALSE, !.pairs = Others(@, t), !.offersStop = TRUE]
  PROVE  Talks(u, v, g, h) /\ SamePrompts(u, v)
<1>1. UiRecord(u) /\ Len(u.turns) \in Nat
  BY StoreIsRecord
<1>2. PICK e : e = EndTurn(u, t)
  OBVIOUS
<1>3. UiRecord(e) /\ e.pairs = u.pairs /\ e.kept = u.kept /\ e.latest = u.latest /\ e.turns = u.turns
  BY <1>1, <1>2, EndTurnFields
<1>4. PICK rest : rest = Others(u.pairs, t)
  OBVIOUS
<1>5. v = [e EXCEPT !.streaming = FALSE, !.pairs = rest, !.offersStop = TRUE]
  BY <1>2, <1>3, <1>4 DEF UiRecord
<1>6. v.pairs = rest /\ v.kept = u.kept /\ v.latest = u.latest /\ v.turns = u.turns
  BY <1>3, <1>5 DEF UiRecord
<1>7. /\ u.pairs \in Seq(Pair) /\ Len(u.pairs) \in Nat /\ DOMAIN u.pairs = 1..Len(u.pairs)
      /\ \A i \in 1..Len(u.pairs) : u.pairs[i].turn = t => i = Len(u.pairs)
  BY <1>1, LenProperties DEF TalkFits
<1>8. PICK some : some = {u.pairs[i] : i \in {j \in DOMAIN u.pairs : u.pairs[j].turn # t}}
  OBVIOUS
<1>9. \A i \in 1..(Len(u.pairs) - 1) : u.pairs[i] \in some
  BY <1>7, <1>8
<1>10. rest = Kept(u.pairs, some)
  BY <1>4, <1>8 DEF Others
<1>11. /\ rest \in Seq(Pair) /\ Len(rest) \in {Len(u.pairs) - 1, Len(u.pairs)}
       /\ \A i \in 1..Len(rest) : rest[i] = u.pairs[i] /\ u.pairs[i] \in some
  BY <1>7, <1>9, <1>10, KeptButLast
<1>12. Len(rest) \in Nat /\ \A i \in 1..Len(rest) : rest[i].turn # t
  BY <1>8, <1>11, LenProperties
<1>13. Retold(u, v, g)
  BY <1>6, <1>7, <1>11, <1>12 DEF Retold
<1>14. SamePrompts(u, v) /\ v.kept \in Prompts \cup {NoPrompt}
  BY <1>6, TheSameTurns DEF TalkFits
<1>15. TalkFits(v, g)
  BY <1>13, <1>14, RetoldFits
<1>16. NewestIsWell(v)
  BY <1>6, <1>12 DEF NewestIsWell
<1>17. NoneLost(u, v)
  BY <1>6, <1>7, <1>11, <1>12 DEF NoneLost
<1>18. QED
  BY <1>6, <1>12, <1>14, <1>15, <1>16, <1>17, NoFailure DEF Talks

\* A turn that is stopped: its pair is the last, if the page shows it.
LEMMA StopTalks ==
  ASSUME NEW u, NEW g, NEW h, Store(u), TalkFits(u, g), NEW t \in 1..Len(u.turns), t = u.latest, NEW v,
         v = [u EXCEPT !.turns[t].stopped = TRUE, !.inProgress = 0, !.streaming = FALSE, !.kept = NoPrompt,
                       !.pairs[Len(u.pairs)].mark = "stopped"]
  PROVE  Talks(u, v, g, h) /\ SamePrompts(u, v)
<1>1. UiRecord(u) /\ Len(u.turns) \in Nat
  BY StoreIsRecord
<1>2. PICK turn, last, n : turn = u.turns[t] /\ n = Len(u.pairs) /\ last = u.pairs[n]
  OBVIOUS
<1>3. turn = [prompt |-> turn.prompt, reconnects |-> turn.reconnects, stopped |-> turn.stopped]
  BY <1>2 DEF Store, StoreInOrder
<1>4. PICK stopped : stopped = [turn EXCEPT !.stopped = TRUE]
  OBVIOUS
<1>5. stopped.prompt = turn.prompt /\ stopped.stopped = TRUE
  BY <1>3, <1>4
<1>6. PICK turns : turns = [u.turns EXCEPT ![t] = stopped]
  OBVIOUS
<1>7. PICK marked : marked = [last EXCEPT !.mark = "stopped"]
  OBVIOUS
<1>8. PICK pairs : pairs = [u.pairs EXCEPT ![n] = marked]
  OBVIOUS
<1>9. v = [u EXCEPT !.turns = turns, !.inProgress = 0, !.streaming = FALSE, !.kept = NoPrompt, !.pairs = pairs]
  BY <1>2, <1>4, <1>6, <1>7, <1>8
<1>10. v.pairs = pairs /\ v.kept = NoPrompt /\ v.latest = u.latest /\ v.turns = turns
  BY <1>1, <1>9 DEF UiRecord
<1>11. Len(turns) = Len(u.turns) /\ \A i \in 1..Len(u.turns) : turns[i] = IF i = t THEN stopped ELSE u.turns[i]
  <2>1. PICK S : u.turns \in Seq(S)
    BY DEF Store
  <2>2. u.turns \in Seq(S \cup {stopped}) /\ stopped \in S \cup {stopped}
    BY <2>1
  <2>3. QED
    BY <1>6, <2>2, ExceptSeq
<1>12. SamePrompts(u, v)
  BY <1>2, <1>5, <1>10, <1>11 DEF SamePrompts
<1>13. u.pairs \in Seq(Pair) /\ n \in Nat /\ DOMAIN u.pairs = 1..n
  BY <1>2, LenProperties DEF TalkFits
<1>14. /\ pairs \in Seq(Pair) /\ Len(pairs) = n
       /\ \A i \in 1..n : /\ pairs[i].turn = u.pairs[i].turn /\ pairs[i].prompt = u.pairs[i].prompt
                          /\ pairs[i].shows = u.pairs[i].shows
                          /\ pairs[i].mark = (IF i = n THEN "stopped" ELSE u.pairs[i].mark)
  <2>1. CASE n = 0
    <3>1. pairs = u.pairs
      BY <1>8, <1>13, <2>1
    <3>2. pairs \in Seq(Pair) /\ Len(pairs) = n
      BY <1>2, <1>13, <3>1
    <3>3. \A i \in 1..n : FALSE
      BY <2>1
    <3>4. QED
      BY <3>2, <3>3
  <2>2. CASE n # 0
    <3>1. last \in Pair /\ n \in 1..n
      BY <1>2, <1>13, <2>2, ElementOfSeq
    <3>2. /\ marked \in Pair /\ marked.turn = last.turn /\ marked.prompt = last.prompt /\ marked.shows = last.shows
          /\ marked.mark = "stopped"
      BY <1>7, <3>1 DEF Pair, Marks
    <3>3. /\ pairs \in Seq(Pair) /\ Len(pairs) = n
          /\ \A i \in 1..n : pairs[i] = IF i = n THEN marked ELSE u.pairs[i]
      BY <1>2, <1>8, <1>13, <3>1, <3>2, ExceptSeq
    <3>4. QED
      BY <1>2, <3>2, <3>3
  <2>3. QED
    BY <2>1, <2>2
<1>15. Retold(u, v, g)
  <2>1. v.pairs \in Seq(Pair) /\ Len(v.pairs) = n /\ Len(u.pairs) = n /\ n \in Nat
    BY <1>2, <1>10, <1>13, <1>14
  <2>2. QED
    BY <1>10, <1>14, <2>1 DEF Retold
<1>16. TalkFits(v, g)
  BY <1>10, <1>12, <1>15, RetoldFits
<1>17. NewestIsWell(v)
  <2>1. \A i \in 1..n : u.pairs[i].turn = t => i = n
    BY <1>1, <1>2 DEF TalkFits
  <2>2. QED
    BY <1>10, <1>14, <2>1 DEF NewestIsWell
<1>18. NoneLost(u, v)
  BY <1>2, <1>10, <1>14 DEF NoneLost
<1>19. QED
  BY <1>10, <1>12, <1>13, <1>14, <1>16, <1>17, <1>18, NoFailure DEF Talks

-----------------------------------------------------------------------------

\* Pairs that fit the turns begun so far.
PairsFit(pairs, turns, g) == pairs \in Seq(Pair) /\ \A i \in 1..Len(pairs) : PairFits(pairs[i], turns, g)

\* What a turn that begins adds to the conversation.
LEMMA BeginFields ==
  ASSUME NEW u, Store(u), NEW pairs, NEW prompt, NEW t, t = Len(u.turns) + 1
  PROVE  LET v == BeginTurn(u, pairs, prompt) IN
         /\ UiRecord(v) /\ v.latest = t /\ v.kept = u.kept
         /\ v.pairs = Append(pairs, [turn |-> t, prompt |-> prompt, mark |-> "streaming", shows |-> 0])
         /\ Len(v.turns) = t /\ v.turns[t].prompt = prompt
         /\ \A i \in 1..Len(u.turns) : v.turns[i] = u.turns[i]
<1> DEFINE v == BeginTurn(u, pairs, prompt)
<1>1. UiRecord(u) /\ Len(u.turns) \in Nat
  BY StoreIsRecord
<1>2. PICK begun, grown : /\ begun = [prompt |-> prompt, reconnects |-> 0, stopped |-> FALSE]
                          /\ grown = Append(pairs, [turn |-> t, prompt |-> prompt, mark |-> "streaming", shows |-> 0])
  OBVIOUS
<1>3. PICK turns : turns = Append(u.turns, begun)
  OBVIOUS
<1>4. v = [u EXCEPT !.pairs = grown, !.streaming = TRUE, !.latest = t, !.inProgress = t, !.turns = turns]
  BY <1>2, <1>3 DEF BeginTurn
<1> HIDE DEF v
<1>5. UiRecord(v) /\ v.latest = t /\ v.kept = u.kept /\ v.pairs = grown /\ v.turns = turns
  BY <1>1, <1>4 DEF UiRecord
<1>6. Len(turns) = t /\ turns[t] = begun /\ \A i \in 1..Len(u.turns) : turns[i] = u.turns[i]
  <2>1. PICK S : u.turns \in Seq(S)
    BY DEF Store
  <2>2. u.turns \in Seq(S \cup {begun}) /\ begun \in S \cup {begun}
    BY <2>1
  <2>3. QED
    BY <1>3, <2>2, AppendProperties
<1>7. begun.prompt = prompt
  BY <1>2
<1>8. QED
  BY <1>2, <1>5, <1>6, <1>7 DEF v

\* Of the pairs of v, those that are called lost are among the ones given.
LostAmong(pairs, v) ==
  \A i \in 1..Len(v.pairs) : v.pairs[i].mark = "lost" => i \in 1..Len(pairs) /\ pairs[i].mark = "lost"

\* No turn of u goes on in v.
NoneLive(u, v) == \A k \in 1..Len(u.turns) : ~IsLive(v, k)

\* A turn begins under a conversation that fits.
LEMMA BeginTalks ==
  ASSUME NEW u, NEW g, NEW h, Store(u), TalkFits(u, g), NEW pairs, PairsFit(pairs, u.turns, g),
         NEW prompt \in Prompts, NEW v, NEW b, b = BeginTurn(u, pairs, prompt),
         v = [b EXCEPT !.kept = NoPrompt] \/ v = [b EXCEPT !.unsaved = FALSE]
  PROVE  TalkFits(v, g) /\ FailedKept(v, g, h) /\ LostAmong(pairs, v) /\ NoneLive(u, v)
<1>1. Len(u.turns) \in Nat
  BY StoreIsRecord
<1>2. PICK t : t = Len(u.turns) + 1
  OBVIOUS
<1>3. PICK new : new = [turn |-> t, prompt |-> prompt, mark |-> "streaming", shows |-> 0]
  OBVIOUS
<1>4. /\ UiRecord(b) /\ b.latest = t /\ b.kept = u.kept /\ b.pairs = Append(pairs, new)
      /\ Len(b.turns) = t /\ b.turns[t].prompt = prompt
      /\ \A i \in 1..Len(u.turns) : b.turns[i] = u.turns[i]
  BY <1>2, <1>3, BeginFields
<1>5. v.latest = t /\ v.kept \in {u.kept, NoPrompt} /\ v.pairs = Append(pairs, new) /\ v.turns = b.turns
  <2>1. CASE v = [b EXCEPT !.kept = NoPrompt]
    BY <1>4, <2>1 DEF UiRecord
  <2>2. CASE v = [b EXCEPT !.unsaved = FALSE]
    BY <1>4, <2>2 DEF UiRecord
  <2>3. QED
    BY <2>1, <2>2
<1>6. new \in Pair /\ new.turn = t /\ new.prompt = prompt /\ new.shows = 0 /\ new.mark = "streaming"
  BY <1>1, <1>2, <1>3 DEF Pair, Marks
<1>7. PICK n : n = Len(pairs) + 1
  OBVIOUS
<1>8. /\ v.pairs \in Seq(Pair) /\ Len(v.pairs) = n /\ Len(pairs) \in Nat
      /\ v.pairs[n] = new /\ \A i \in 1..Len(pairs) : v.pairs[i] = pairs[i]
  BY <1>5, <1>6, <1>7, AppendProperties, LenProperties DEF PairsFit
<1>9. \A i \in 1..n : i = n \/ i \in 1..Len(pairs)
  BY <1>7, <1>8
<1>10. ASSUME NEW i \in 1..Len(v.pairs)
       PROVE  PairFits(v.pairs[i], v.turns, g)
  <2>1. CASE i = n
    BY <1>1, <1>2, <1>4, <1>5, <1>6, <1>8, <2>1 DEF PairFits
  <2>2. CASE i \in 1..Len(pairs)
    <3>1. PairFits(pairs[i], u.turns, g) /\ v.pairs[i] = pairs[i]
      BY <1>8, <2>2 DEF PairsFit
    <3>2. \A j \in 1..Len(u.turns) : j \in 1..Len(v.turns) /\ v.turns[j].prompt = u.turns[j].prompt
      BY <1>1, <1>2, <1>4, <1>5
    <3>3. QED
      BY <3>1, <3>2 DEF PairFits
  <2>3. QED
    BY <1>8, <1>9, <2>1, <2>2
<1>11. \A i \in 1..Len(v.turns) : v.turns[i].prompt \in Prompts
  <2>1. TAKE i \in 1..Len(v.turns)
  <2>2. i = t \/ i \in 1..Len(u.turns)
    BY <1>1, <1>2, <1>4, <1>5
  <2>3. QED
    BY <1>4, <1>5, <2>2 DEF TalkFits
<1>12. ASSUME NEW i \in 1..Len(pairs)
       PROVE  v.pairs[i].turn # t
  <2>1. PairFits(pairs[i], u.turns, g) /\ v.pairs[i] = pairs[i] /\ t # 0 /\ t \notin 1..Len(u.turns)
    BY <1>1, <1>2, <1>8 DEF PairsFit
  <2>2. QED
    BY <2>1 DEF PairFits
<1>13. v.kept \in Prompts \cup {NoPrompt}
  BY <1>5 DEF TalkFits
<1>14. TalkFits(v, g)
  <2>1. ASSUME NEW i \in 1..Len(v.pairs), v.pairs[i].turn = v.latest
        PROVE  i = Len(v.pairs)
    BY <1>5, <1>8, <1>9, <1>12, <2>1
  <2>2. QED
    BY <1>8, <1>10, <1>11, <1>13, <2>1 DEF TalkFits
<1>15. NewestIsWell(v)
  <2>1. SUFFICES ASSUME NEW i \in 1..Len(v.pairs), v.pairs[i].turn = v.latest
                 PROVE  v.pairs[i].mark \notin {"failed", "lost"}
    BY DEF NewestIsWell
  <2>2. CASE i = n
    BY <1>6, <1>8, <2>2
  <2>3. CASE i \in 1..Len(pairs)
    BY <1>5, <1>12, <2>1, <2>3
  <2>4. QED
    BY <1>8, <1>9, <2>2, <2>3
<1>16. FailedKept(v, g, h)
  <2>1. Len(v.pairs) \in Nat
    BY <1>7, <1>8
  <2>2. QED
    BY <1>15, <2>1, NoFailure
<1>17. LostAmong(pairs, v)
  BY <1>6, <1>8, <1>9 DEF LostAmong
<1>18. NoneLive(u, v)
  BY <1>1, <1>2, <1>5 DEF NoneLive, IsLive, IsCurrent
<1>19. QED
  BY <1>14, <1>16, <1>17, <1>18

\* Pairs of no turn of this page.
OldPairs(pairs, marks) == \A i \in 1..Len(pairs) : pairs[i].turn = 0 /\ pairs[i].mark \in marks

\* The saved messages as pairs.
LEMMA MessagesFit ==
  ASSUME NEW saved, SavedFits(saved, gens), gens \in Seq(Turn), NEW turns, NEW msgs, msgs = ToMessages(saved)
  PROVE  /\ PairsFit(msgs, turns, gens) /\ Len(msgs) = Len(saved) /\ Len(saved) \in Nat
         /\ OldPairs(msgs, {"saved", "blank"})
<1>1. Len(saved) \in Nat /\ DOMAIN saved = 1..Len(saved) /\ \A i \in 1..Len(saved) : saved[i] \in [gen : Nat, events : BOOLEAN]
  BY LenProperties, ElementOfSeq DEF SavedFits
<1>2. Len(gens) \in Nat /\ \A n \in 1..Len(gens) : gens[n].prompt \in Prompts
  <2>1. Len(gens) \in Nat
    BY LenProperties
  <2>2. ASSUME NEW n \in 1..Len(gens)
        PROVE  gens[n].prompt \in Prompts
    <3>1. gens[n] \in Turn
      BY ElementOfSeq
    <3>2. QED
      BY <3>1 DEF Turn
  <2>3. QED
    BY <2>1, <2>2
<1>3. ASSUME NEW i \in 1..Len(saved)
      PROVE  /\ msgs[i] \in Pair /\ msgs[i].turn = 0 /\ msgs[i].mark \in {"saved", "blank"}
             /\ PairFits(msgs[i], turns, gens)
  <2>1. PICK n, mark : n = saved[i].gen /\ mark = IF saved[i].events THEN "saved" ELSE "blank"
    OBVIOUS
  <2>2. mark \in {"saved", "blank"} /\ mark \in Marks
    BY <2>1 DEF Marks
  <2>3. n \in 1..Len(gens) /\ n \in Nat /\ gens[n].prompt \in Prompts
    BY <1>2, <2>1 DEF SavedFits
  <2>4. PICK p : p = [turn |-> 0, prompt |-> gens[n].prompt, shows |-> n, mark |-> mark]
    OBVIOUS
  <2>5. msgs[i] = p
    BY <1>1, <2>1, <2>4 DEF ToMessages
  <2>6. p \in Pair /\ p.turn = 0 /\ p.mark = mark /\ p.prompt = gens[n].prompt /\ p.shows = n
    BY <2>2, <2>3, <2>4 DEF Pair
  <2>7. QED
    BY <2>2, <2>3, <2>5, <2>6 DEF PairFits
<1>4. msgs \in [1..Len(saved) -> Pair]
  BY <1>1, <1>3 DEF ToMessages
<1>5. msgs \in Seq(Pair) /\ Len(msgs) = Len(saved)
  BY <1>1, <1>4, FunctionIsSeq
<1>6. QED
  BY <1>1, <1>3, <1>5 DEF PairsFit, OldPairs

\* A conversation that is replaced as a whole.
LEMMA ReplacedTalks ==
  ASSUME NEW u, NEW g, NEW h, UiRecord(u), TalkFits(u, g), NEW pairs, PairsFit(pairs, u.turns, g),
         OldPairs(pairs, {"saved", "blank", "failed"}),
         NEW v, v = [u EXCEPT !.pairs = pairs, !.unsaved = FALSE],
         \/ OldPairs(pairs, {"saved", "blank"})
         \/ pairs[Len(pairs)].prompt = u.kept
  PROVE  Talks(u, v, g, h) /\ SamePrompts(u, v)
<1>1. v.pairs = pairs /\ v.kept = u.kept /\ v.latest = u.latest /\ v.turns = u.turns
  BY DEF UiRecord
<1>2. TalkFits(v, g)
  BY <1>1 DEF TalkFits, PairsFit, OldPairs
<1>3. NoneLost(u, v)
  BY <1>1 DEF NoneLost, OldPairs
<1>4. Len(pairs) \in Nat
  BY LenProperties DEF PairsFit
<1>5. FailedKept(v, g, h)
  <2>1. CASE pairs[Len(pairs)].prompt = u.kept
    <3>1. v.pairs[Len(v.pairs)].prompt = v.kept
      BY <1>1, <2>1
    <3>2. QED
      BY <3>1 DEF FailedKept
  <2>2. CASE OldPairs(pairs, {"saved", "blank"})
    <3>1. NewestIsWell(v)
      BY <1>1, <2>2 DEF NewestIsWell, OldPairs
    <3>2. QED
      BY <1>1, <1>4, <3>1, NoFailure
  <2>3. QED
    BY <2>1, <2>2
<1>6. QED
  BY <1>1, <1>2, <1>3, <1>5, TheSameTurns DEF Talks

\* A prompt that was saved need not be kept.
LEMMA ForgottenTalks ==
  ASSUME NEW u, NEW g, NEW h, UiRecord(u), TalkFits(u, g), FailedKept(u, g, h), IsSaved(u.kept, g, h),
         NEW v, v = [u EXCEPT !.kept = NoPrompt]
  PROVE  Talks(u, v, g, h) /\ SamePrompts(u, v) /\ UiRecord(v)
<1>1. v.pairs = u.pairs /\ v.kept = NoPrompt /\ v.latest = u.latest /\ v.turns = u.turns /\ UiRecord(v)
  BY DEF UiRecord
<1>2. TalkFits(v, g)
  BY <1>1 DEF TalkFits
<1>3. FailedKept(v, g, h)
  BY <1>1 DEF FailedKept
<1>4. QED
  BY <1>1, <1>2, <1>3, TheSameTurns DEF Talks, NoneLost

-----------------------------------------------------------------------------
(* The requests under way, and the invariant.                              *)

\* A request has its fields.  A load carries a turn of the server or none, and
\* what it has read is saved.  While the newest turn's last resort is asked for,
\* no turn runs.
TaskFits(k, u, g, r, h) ==
  /\ k = [kind |-> k.kind, turn |-> k.turn, n |-> k.n, read |-> k.read, saved |-> k.saved]
  /\ k.kind = "loadHistory" => k.turn \in 0..Len(g)
  /\ k.read =>
       /\ k.kind = "loadHistory" /\ SavedFits(k.saved, g)
       /\ \A i \in 1..Len(k.saved) : \E j \in 1..Len(h) : h[j].gen = k.saved[i].gen
  /\ k.kind = "adoptLost" /\ IsLive(u, k.turn) => r = 0

TasksFit(requests, u, g, r, h) == \A k \in requests : TaskFits(k, u, g, r, h)

\* The inductive invariant.
ConversationInvariant ==
  /\ FollowingInvariant
  /\ ServerFits(gens, registry, history)
  /\ FilesFit(gens, history, changed)
  /\ TalkFits(ui, gens)
  /\ FailedKept(ui, gens, history)
  /\ conn # NoConn => conn.gen \in 1..Len(gens)
  /\ TasksFit(tasks, ui, gens, registry, history)

\* Whoever is told that a turn was lost is told the truth.
LostIsLost(v) ==
  \A i \in 1..Len(v.pairs) :
    (v.pairs[i].mark = "lost" /\ ~(i \in 1..Len(ui.pairs) /\ ui.pairs[i].mark = "lost")) =>
      /\ \A g \in 1..Len(gens) : gens[g].phase \notin UnderWay
      /\ ~LastIs(history, v.pairs[i].prompt)
      /\ \A g \in changed : gens[g].prompt = v.pairs[i].prompt =>
            gens[g].cut \/ \E k \in 1..(Len(history) - 1) : history[k].gen = g

\* No turn that was over goes on.
LiveBefore(v) == \A t \in 1..Len(ui.turns) : IsLive(v, t) => IsLive(ui, t)

\* What a step may make of what the browser shows.
UiFits(v) == TalkFits(v, gens) /\ FailedKept(v, gens, history) /\ LostIsLost(v) /\ LiveBefore(v)

\* A change that calls nothing lost.
LEMMA TalkIsFit ==
  ASSUME NEW v, Talks(ui, v, gens, history), SamePrompts(ui, v)
  PROVE  UiFits(v)
<1>1. LostIsLost(v)
  BY DEF LostIsLost, Talks, NoneLost
<1>2. LiveBefore(v)
  BY DEF LiveBefore, SamePrompts, IsLive, IsCurrent
<1>3. QED
  BY <1>1, <1>2 DEF UiFits, Talks

\* Nothing shown changes.
LEMMA SameIsFit ==
  ASSUME Store(ui), TalkFits(ui, gens), FailedKept(ui, gens, history), NEW v, v = ui
  PROVE  UiFits(v)
<1>1. SamePrompts(ui, v)
  BY TheSameTurns
<1>2. Talks(ui, v, gens, history)
  BY <1>1, SameTalk
<1>3. QED
  BY <1>1, <1>2, TalkIsFit

\* The newest turn fails, and its prompt is kept.
LEMMA GivenUpIsFit ==
  ASSUME Store(ui), TalkFits(ui, gens), NEW t \in 1..Len(ui.turns), t = ui.latest, NEW v,
         v = GiveUp(ui, t, "failed")
  PROVE  UiFits(v)
<1>1. PICK mark : mark = "failed"
  OBVIOUS
<1>2. mark \in {"failed", "lost"} /\ mark # "lost" /\ v = GiveUp(ui, t, mark)
  BY <1>1
<1>3. TalkFits(v, gens) /\ FailedKept(v, gens, history) /\ SamePrompts(ui, v) /\ NoneLost(ui, v)
  BY <1>2, GiveUpTalks
<1>4. QED
  BY <1>3, TalkIsFit DEF Talks

\* A stream that is reconnected, given up or left.
LEMMA ReconnectIsFit ==
  ASSUME Store(ui), TalkFits(ui, gens), FailedKept(ui, gens, history), NEW t \in 1..Len(ui.turns), NEW n, NEW rest,
         StartReconnect(ui, t, n, rest)
  PROVE  UiFits(ui')
<1>1. CASE ui' = ui
  BY <1>1, SameIsFit
<1>2. CASE IsLive(ui, t) /\ ui' = Reconnect(ui, t, n).ui
  <2>1. t = ui.latest
    BY <1>2 DEF IsLive, IsCurrent
  <2>2. CASE ui' = GiveUp(ui, t, "failed")
    BY <2>1, <2>2, GivenUpIsFit
  <2>3. CASE ui' = [ui EXCEPT !.turns[t].reconnects = @ + 1]
    <3>1. ui'.pairs = ui.pairs /\ ui'.kept = ui.kept /\ SamePrompts(ui, ui')
      BY <2>3, CountFields
    <3>2. QED
      BY <3>1, SameTalk, TalkIsFit
  <2>4. ui' = GiveUp(ui, t, "failed") \/ ui' = [ui EXCEPT !.turns[t].reconnects = @ + 1]
    <3>1. CASE ui.turns[t].reconnects >= MaxReconnects
      BY <1>2, <3>1 DEF Reconnect
    <3>2. CASE ~(ui.turns[t].reconnects >= MaxReconnects)
      BY <1>2, <3>2 DEF Reconnect
    <3>3. QED
      BY <3>1, <3>2
  <2>5. QED
    BY <2>2, <2>3, <2>4
<1>3. QED
  BY <1>1, <1>2 DEF StartReconnect

\* A prompt that failed before any of its answer came is kept.
LEMMA FailOpeningIsFit ==
  ASSUME Store(ui), TalkFits(ui, gens), NEW t \in 1..Len(ui.turns), t = ui.latest, NEW rest,
         FailOpening(ui, t, "failed", rest)
  PROVE  UiFits(ui')
<1>1. ui' = GiveUp(ui, t, "failed")
  BY DEF FailOpening, GiveUp
<1>2. QED
  BY <1>1, GivenUpIsFit

\* A request that carries the newest turn on is of that turn.
LEMMA CarriedIsNewest ==
  ASSUME FollowingInvariant, NEW k \in tasks, k.kind \in Carries, k.kind \in Opens \/ IsLive(ui, k.turn)
  PROVE  /\ k.turn \in 1..Len(ui.turns) /\ k.turn = ui.latest /\ k.turn = ui.inProgress /\ conn = NoConn
         /\ \A l \in tasks \ {k} : l.kind \in Carries => l.turn # ui.inProgress
<1>1. Store(ui) /\ Followed(ui, conn, tasks)
  BY DEF FollowingInvariant
<1>2. /\ k.turn = ui.inProgress /\ k.turn \in 1..Len(ui.turns) /\ k.turn # 0 /\ conn = NoConn
      /\ \A l \in tasks \ {k} : l.kind \in Carries => l.turn # ui.inProgress
  BY <1>1, OneCarries
<1>3. ui.inProgress \in {0, ui.latest}
  BY <1>1 DEF Store, StoreInOrder
<1>4. QED
  BY <1>2, <1>3

\* The requests that open a stream.
LEMMA OpeningIsFit ==
  ASSUME ConversationInvariant, NEW task \in tasks,
         OpenStream(task) \/ OpenFails(task) \/ Refused(task) \/ Attach(task) \/ ResumeStream(task) \/ Reconnected(task)
  PROVE  UiFits(ui')
<1>1. /\ FollowingInvariant /\ Store(ui) /\ TalkFits(ui, gens) /\ FailedKept(ui, gens, history)
      /\ Followed(ui, conn, tasks)
  BY DEF ConversationInvariant, FollowingInvariant
<1>2. CASE ui' = ui
  BY <1>1, <1>2, SameIsFit
<1>3. CASE OpenStream(task) /\ ui' # ui
  <2>1. task.turn \in 1..Len(ui.turns) /\ task.turn = ui.latest
    BY <1>1, <1>3, CarriedIsNewest DEF OpenStream, Carries, Opens
  <2>2. ui' = [EndTurn(ui, task.turn) EXCEPT !.streaming = FALSE, !.pairs = Others(@, task.turn), !.offersStop = TRUE]
    BY <1>3 DEF OpenStream
  <2>3. QED
    BY <1>1, <2>1, <2>2, OthersTalk, TalkIsFit
<1>4. CASE OpenFails(task) /\ ui' # ui
  <2>1. task.turn \in 1..Len(ui.turns) /\ task.turn = ui.latest
    BY <1>1, <1>4, CarriedIsNewest DEF OpenFails, Carries, Opens
  <2>2. FailOpening(ui, task.turn, "failed", Rest(task))
    BY <1>4 DEF OpenFails
  <2>3. QED
    BY <1>1, <2>1, <2>2, FailOpeningIsFit
<1>5. CASE Attach(task) /\ ui' # ui
  <2>1. IsLive(ui, task.turn) /\ FailOpening(ui, task.turn, "failed", Rest(task)) /\ task.kind = "attach"
    BY <1>5 DEF Attach
  <2>2. task.turn \in 1..Len(ui.turns) /\ task.turn = ui.latest
    BY <1>1, <2>1, CarriedIsNewest DEF Carries
  <2>3. QED
    BY <1>1, <2>1, <2>2, FailOpeningIsFit
<1>6. CASE ResumeStream(task) /\ ui' # ui
  <2>1. task.turn \in 1..Len(ui.turns) /\ task.turn = ui.latest
    BY <1>1, <1>6, CarriedIsNewest DEF ResumeStream, Carries, Opens
  <2>2. FailOpening(ui, task.turn, "failed", Rest(task)) \/ StartReconnect(ui, task.turn, 0, Rest(task))
    BY <1>6 DEF ResumeStream
  <2>3. QED
    BY <1>1, <2>1, <2>2, FailOpeningIsFit, ReconnectIsFit
<1>7. CASE Reconnected(task) /\ ui' # ui
  <2>1. /\ IsLive(ui, task.turn) /\ task.kind = "reconnect"
        /\ ui' = GiveUp(ui, task.turn, "failed") \/ StartReconnect(ui, task.turn, task.n + 1, Rest(task))
    BY <1>7 DEF Reconnected
  <2>2. task.turn \in 1..Len(ui.turns) /\ task.turn = ui.latest
    BY <1>1, <2>1, CarriedIsNewest DEF Carries
  <2>3. QED
    BY <1>1, <2>1, <2>2, GivenUpIsFit, ReconnectIsFit
<1>8. CASE Refused(task)
  <2>1. task.turn \in 1..Len(ui.turns) /\ task.turn = ui.latest
    BY <1>1, <1>8, CarriedIsNewest DEF Refused, Carries, Opens
  <2>2. ui' = FailTurn(ui, task.turn, "refused")
    BY <1>8 DEF Refused
  <2>3. QED
    BY <1>1, <2>1, <2>2, RefusedTalks, TalkIsFit
<1>9. QED
  BY <1>2, <1>3, <1>4, <1>5, <1>6, <1>7, <1>8

\* The stream.
LEMMA StreamIsFit ==
  ASSUME ConversationInvariant, Stream
  PROVE  UiFits(ui')
<1>1. /\ FollowingInvariant /\ Store(ui) /\ TalkFits(ui, gens) /\ FailedKept(ui, gens, history)
      /\ Followed(ui, conn, tasks) /\ conn # NoConn
  BY DEF ConversationInvariant, FollowingInvariant, Stream, ReadDone, ReadError, ConnectionLost
<1>2. conn.turn \in 1..Len(ui.turns) /\ conn.turn = ui.latest
  <2>1. conn.turn = ui.inProgress /\ ui.inProgress # 0 /\ ui.inProgress \in 1..Len(ui.turns)
    BY <1>1, StreamIsTheTurns
  <2>2. ui.inProgress \in {0, ui.latest}
    BY <1>1 DEF Store, StoreInOrder
  <2>3. QED
    BY <2>1, <2>2
<1>3. CASE ReadDone
  <2>1. PICK t : t = conn.turn
    OBVIOUS
  <2>2. ui' = [Marked(EndTurn(ui, t), t, "done") EXCEPT !.streaming = FALSE, !.unsaved = TRUE, !.kept = NoPrompt]
    BY <1>3, <2>1 DEF ReadDone
  <2>3. t \in 1..Len(ui.turns) /\ t = ui.latest
    BY <1>2, <2>1
  <2>4. QED
    BY <1>1, <2>2, <2>3, DoneTalks, TalkIsFit
<1>4. CASE ReadError
  BY <1>1, <1>2, <1>4, FailOpeningIsFit DEF ReadError
<1>5. CASE ConnectionLost
  BY <1>1, <1>2, <1>5, ReconnectIsFit DEF ConnectionLost
<1>6. QED
  BY <1>3, <1>4, <1>5 DEF Stream

-----------------------------------------------------------------------------

\* The saved turn is shown under its question, and the turn ends.
LEMMA AdoptIsFit ==
  ASSUME ConversationInvariant, NEW t \in 1..Len(ui.turns), t = ui.latest, LastIs(history, ui.turns[t].prompt),
         NEW a, a = Adopt(ui, t, history[Len(history)].gen), NEW v, v = a \/ v = EndTurn(a, t)
  PROVE  UiFits(v)
<1>1. Store(ui) /\ TalkFits(ui, gens) /\ FailedKept(ui, gens, history) /\ ServerFits(gens, registry, history)
  BY DEF ConversationInvariant, FollowingInvariant
<1>2. PICK n : n = history[Len(history)].gen
  OBVIOUS
<1>3. n \in 1..Len(gens) /\ gens[n].prompt = ui.turns[t].prompt /\ Len(gens) \in Nat
  <2>1. Len(history) \in Nat /\ Len(gens) \in Nat /\ Len(history) # 0
    BY <1>1, ServerHasLengths, EmptySeq DEF LastIs, ServerFits, SavedFits
  <2>2. Len(history) \in 1..Len(history)
    BY <2>1
  <2>3. QED
    BY <1>1, <1>2, <2>1, <2>2 DEF LastIs, ServerFits, SavedFits
<1>4. Talks(ui, a, gens, history) /\ SamePrompts(ui, a) /\ UiRecord(a)
  BY <1>1, <1>2, <1>3, AdoptTalks
<1>5. CASE v = a
  BY <1>4, <1>5, TalkIsFit
<1>6. CASE v = EndTurn(a, t)
  <2>1. v.pairs = a.pairs /\ v.kept = a.kept /\ v.latest = a.latest /\ v.turns = a.turns
    BY <1>4, <1>6, EndTurnFields
  <2>2. SamePrompts(a, v)
    BY <2>1, TheSameTurns
  <2>3. TalkFits(a, gens) /\ FailedKept(a, gens, history) /\ NoneLost(ui, a)
    BY <1>4 DEF Talks
  <2>4. Talks(a, v, gens, history)
    BY <2>1, <2>2, <2>3, SameTalk
  <2>5. Talks(ui, v, gens, history)
    BY <2>1, <2>3, <2>4 DEF Talks, NoneLost
  <2>6. SamePrompts(ui, v)
    BY <1>4, <2>1 DEF SamePrompts
  <2>7. QED
    BY <2>5, <2>6, TalkIsFit
<1>7. QED
  BY <1>5, <1>6

\* A turn is called lost when no turn runs and its prompt was not the last saved.
LEMMA LostIsFit ==
  ASSUME ConversationInvariant, NEW t \in 1..Len(ui.turns), t = ui.latest, registry = 0,
         ~LastIs(history, ui.turns[t].prompt), NEW v, v = GiveUp(ui, t, "lost")
  PROVE  UiFits(v)
<1>1. /\ Store(ui) /\ TalkFits(ui, gens) /\ ServerFits(gens, registry, history)
      /\ FilesFit(gens, history, changed)
  BY DEF ConversationInvariant, FollowingInvariant
<1>2. PICK mark : mark = "lost"
  OBVIOUS
<1>3. mark \in {"failed", "lost"} /\ v = GiveUp(ui, t, mark)
  BY <1>2
<1>4. /\ TalkFits(v, gens) /\ FailedKept(v, gens, history) /\ SamePrompts(ui, v)
      /\ LostIsOf(ui, v, ui.turns[t].prompt)
  BY <1>1, <1>3, GiveUpTalks
<1>5. \A g \in 1..Len(gens) : gens[g].phase \notin UnderWay
  BY <1>1, ServerHasLengths DEF ServerFits
<1>6. ASSUME NEW g \in changed, gens[g].prompt = ui.turns[t].prompt, ~gens[g].cut
      PROVE  \E k \in 1..(Len(history) - 1) : history[k].gen = g
  <2>1. g \in 1..Len(gens) /\ IsTold(history, g)
    BY <1>1, <1>5, <1>6 DEF FilesFit, UnderWay
  <2>2. PICK k \in 1..Len(history) : history[k].gen = g /\ history[k].events
    BY <2>1 DEF IsTold
  <2>3. Len(history) \in Nat /\ history # <<>>
    BY <1>1, <2>2, ServerHasLengths DEF ServerFits, SavedFits
  <2>4. k # Len(history)
    BY <1>6, <2>2, <2>3 DEF LastIs
  <2>5. k \in 1..(Len(history) - 1)
    BY <2>3, <2>4
  <2>6. QED
    BY <2>2, <2>5
<1>7. LostIsLost(v)
  BY <1>4, <1>5, <1>6 DEF LostIsLost, LostIsOf
<1>8. LiveBefore(v)
  BY <1>4 DEF LiveBefore, SamePrompts, IsLive, IsCurrent
<1>9. QED
  BY <1>4, <1>7, <1>8 DEF UiFits

\* What was saved is asked for after the turn.
LEMMA AdoptSavedTurnIsFit ==
  ASSUME ConversationInvariant, NEW task \in tasks, AdoptSavedTurn(task)
  PROVE  UiFits(ui')
<1> DEFINE t == task.turn
<1>1. /\ Store(ui) /\ TalkFits(ui, gens) /\ FailedKept(ui, gens, history) /\ Followed(ui, conn, tasks)
      /\ task.kind \in {"adoptDone", "adoptLost", "adoptStopped"}
      /\ TaskFits(task, ui, gens, registry, history)
  BY DEF ConversationInvariant, FollowingInvariant, AdoptSavedTurn, TasksFit
<1>2. t \in 1..Len(ui.turns)
  BY <1>1 DEF Followed, Carries, After
<1>3. PICK reached \in BOOLEAN :
        LET found == reached /\ LastIs(history, ui.turns[t].prompt)
            after == IF found /\ IsCurrent(ui, t) THEN Adopt(ui, t, history[Len(history)].gen) ELSE ui
        IN \/ UNCHANGED ui
           \/ ui' = IF task.kind = "adoptLost" /\ IsLive(ui, t)
                    THEN IF found THEN EndTurn(after, t)
                         ELSE GiveUp(ui, t, IF reached THEN "lost" ELSE "failed")
                    ELSE after
  BY DEF AdoptSavedTurn
<1> DEFINE found == reached /\ LastIs(history, ui.turns[t].prompt)
<1>4. PICK a : a = Adopt(ui, t, history[Len(history)].gen)
  OBVIOUS
<1>5. IsLive(ui, t) => t = ui.latest
  BY DEF IsLive, IsCurrent
<1>6. CASE ui' = ui
  BY <1>1, <1>6, SameIsFit
<1>7. CASE IsCurrent(ui, t) /\ found /\ (ui' = a \/ ui' = EndTurn(a, t))
  <2>1. t = ui.latest /\ LastIs(history, ui.turns[t].prompt)
    BY <1>7 DEF IsCurrent
  <2> HIDE DEF t
  <2>2. QED
    BY <1>2, <1>4, <1>7, <2>1, AdoptIsFit
<1>8. CASE task.kind = "adoptLost" /\ IsLive(ui, t) /\ ~found /\ reached /\ ui' = GiveUp(ui, t, "lost")
  <2>1. registry = 0 /\ t = ui.latest
    BY <1>1, <1>5, <1>8 DEF TaskFits
  <2>2. ~LastIs(history, ui.turns[t].prompt)
    BY <1>8
  <2> HIDE DEF t
  <2>3. QED
    BY <1>2, <1>8, <2>1, <2>2, LostIsFit
<1>9. CASE IsLive(ui, t) /\ ui' = GiveUp(ui, t, "failed")
  <2> HIDE DEF t
  <2>1. QED
    BY <1>1, <1>2, <1>5, <1>9, GivenUpIsFit
<1>10. \/ ui' = ui
       \/ IsCurrent(ui, t) /\ found /\ (ui' = a \/ ui' = EndTurn(a, t))
       \/ task.kind = "adoptLost" /\ IsLive(ui, t) /\ ~found /\ reached /\ ui' = GiveUp(ui, t, "lost")
       \/ IsLive(ui, t) /\ ui' = GiveUp(ui, t, "failed")
  <2>1. IsLive(ui, t) => IsCurrent(ui, t)
    BY DEF IsLive
  <2>2. CASE task.kind = "adoptLost" /\ IsLive(ui, t)
    <3>1. CASE found
      BY <1>3, <1>4, <2>1, <2>2, <3>1
    <3>2. CASE ~found /\ reached
      BY <1>3, <2>2, <3>2
    <3>3. CASE ~found /\ ~reached
      BY <1>3, <2>2, <3>3
    <3>4. QED
      BY <3>1, <3>2, <3>3
  <2>3. CASE ~(task.kind = "adoptLost" /\ IsLive(ui, t))
    BY <1>3, <1>4, <2>3
  <2>4. QED
    BY <2>2, <2>3
<1>11. QED
  BY <1>6, <1>7, <1>8, <1>9, <1>10

\* The newest turn begins with its prompt.
LEMMA SendIsFit ==
  ASSUME ConversationInvariant, NEW prompt \in Prompts, Send(prompt)
  PROVE  UiFits(ui')
<1>1. Store(ui) /\ TalkFits(ui, gens)
  BY DEF ConversationInvariant, FollowingInvariant
<1>2. PICK b, pairs : pairs = ui.pairs /\ b = BeginTurn(ui, pairs, prompt)
  OBVIOUS
<1>3. ui' = [b EXCEPT !.kept = NoPrompt]
  BY <1>2 DEF Send
<1>4. PairsFit(pairs, ui.turns, gens)
  BY <1>1, <1>2 DEF TalkFits, PairsFit
<1>5. /\ TalkFits(ui', gens) /\ FailedKept(ui', gens, history)
      /\ LostAmong(pairs, ui') /\ NoneLive(ui, ui')
  BY <1>1, <1>2, <1>3, <1>4, BeginTalks
<1>6. LostIsLost(ui') /\ LiveBefore(ui')
  BY <1>2, <1>5 DEF LostIsLost, LiveBefore, LostAmong, NoneLive
<1>7. QED
  BY <1>5, <1>6 DEF UiFits

\* The newest turn is stopped.
LEMMA StopIsFit ==
  ASSUME ConversationInvariant, Stop
  PROVE  UiFits(ui')
<1>1. Store(ui) /\ TalkFits(ui, gens) /\ ui.inProgress # 0
  BY DEF ConversationInvariant, FollowingInvariant, Stop
<1>2. PICK t : t = ui.inProgress
  OBVIOUS
<1>3. t \in 1..Len(ui.turns) /\ t = ui.latest
  BY <1>1, <1>2, InProgressIsLive DEF Store, StoreInOrder
<1>4. ui' = [ui EXCEPT !.turns[t].stopped = TRUE, !.inProgress = 0, !.streaming = FALSE, !.kept = NoPrompt,
                       !.pairs[Len(ui.pairs)].mark = "stopped"]
  BY <1>2 DEF Stop
<1>5. Talks(ui, ui', gens, history) /\ SamePrompts(ui, ui')
  BY <1>1, <1>3, <1>4, StopTalks
<1>6. QED
  BY <1>5, TalkIsFit

\* The other turn is stopped: the word that there was one is taken away.
LEMMA StopTheOtherIsFit ==
  ASSUME ConversationInvariant, StopTheOther
  PROVE  UiFits(ui')
<1>1. Store(ui) /\ TalkFits(ui, gens) /\ FailedKept(ui, gens, history)
  BY DEF ConversationInvariant, FollowingInvariant
<1>2. ui' = [ui EXCEPT !.offersStop = FALSE]
  BY DEF StopTheOther
<1>3. ui'.pairs = ui.pairs /\ ui'.kept = ui.kept /\ ui'.latest = ui.latest /\ ui'.turns = ui.turns
  BY <1>1, <1>2, StoreIsRecord DEF UiRecord
<1>4. SamePrompts(ui, ui')
  BY <1>3, TheSameTurns
<1>5. QED
  BY <1>1, <1>3, <1>4, SameTalk, TalkIsFit

\* A page that has just been opened shows nothing yet.
LEMMA FreshFits ==
  ASSUME NEW kept \in Prompts \cup {NoPrompt}, NEW v, v = [InitialUi EXCEPT !.kept = kept], NEW g, NEW h
  PROVE  TalkFits(v, g) /\ FailedKept(v, g, h) /\ Len(v.pairs) = 0 /\ v.latest = 0
<1>1. v.pairs = <<>> /\ v.turns = <<>> /\ v.kept = kept /\ v.latest = 0
  BY DEF InitialUi
<1>2. Len(v.pairs) = 0 /\ v.pairs \in Seq(Pair)
  <2>1. <<>> \in Seq(Pair) /\ Len(<<>>) = 0
    OBVIOUS
  <2>2. QED
    BY <1>1, <2>1
<1>3. Len(v.turns) = 0
  BY <1>1
<1>4. QED
  BY <1>1, <1>2, <1>3 DEF TalkFits, FailedKept

\* The page is left.
LEMMA LeavePageIsFit ==
  ASSUME ConversationInvariant, LeavePage
  PROVE  UiFits(ui')
<1>1. ui.kept \in Prompts \cup {NoPrompt}
  BY DEF ConversationInvariant, TalkFits
<1>2. PICK kept \in {ui.kept, NoPrompt} : ui' = [InitialUi EXCEPT !.kept = kept]
  BY DEF LeavePage
<1>3. kept \in Prompts \cup {NoPrompt}
  BY <1>1, <1>2
<1>4. PICK v : v = ui'
  OBVIOUS
<1>5. TalkFits(v, gens) /\ FailedKept(v, gens, history) /\ Len(v.pairs) = 0 /\ v.latest = 0
  BY <1>2, <1>3, <1>4, FreshFits
<1>6. LostIsLost(v)
  BY <1>5 DEF LostIsLost
<1>7. LiveBefore(v)
  BY <1>5 DEF LiveBefore, IsLive, IsCurrent
<1>8. QED
  BY <1>4, <1>5, <1>6, <1>7 DEF UiFits

\* A question restored below the saved ones.
LEMMA RestoredFits ==
  ASSUME NEW msgs, NEW turns, NEW g, PairsFit(msgs, turns, g), NEW prompt \in Prompts,
         OldPairs(msgs, {"saved", "blank"}), NEW r, r = Append(msgs, RestoredFailedTurn(prompt))
  PROVE  /\ PairsFit(r, turns, g) /\ r[Len(r)].prompt = prompt
         /\ OldPairs(r, {"saved", "blank", "failed"})
<1>1. PICK p, n : p = RestoredFailedTurn(prompt) /\ n = Len(msgs) + 1
  OBVIOUS
<1>2. p \in Pair /\ p.turn = 0 /\ p.shows = 0 /\ p.prompt = prompt /\ p.mark = "failed"
  BY <1>1 DEF RestoredFailedTurn, Pair, Marks
<1>3. /\ Len(msgs) \in Nat /\ r \in Seq(Pair) /\ Len(r) = n /\ r[n] = p
      /\ \A i \in 1..Len(msgs) : r[i] = msgs[i]
  BY <1>1, <1>2, AppendProperties, LenProperties DEF PairsFit
<1>4. \A i \in 1..n : i = n \/ i \in 1..Len(msgs)
  BY <1>1, <1>3
<1>5. PairFits(p, turns, g)
  BY <1>2 DEF PairFits
<1>6. PairsFit(r, turns, g)
  BY <1>3, <1>4, <1>5 DEF PairsFit
<1>7. OldPairs(r, {"saved", "blank", "failed"})
  BY <1>2, <1>3, <1>4 DEF OldPairs
<1>8. QED
  BY <1>2, <1>3, <1>6, <1>7

\* What a load has read is shown, or a running turn is resumed.
LEMMA LoadHistoryIsFit ==
  ASSUME ConversationInvariant, NEW task \in tasks, LoadHistory(task)
  PROVE  UiFits(ui')
<1>1. /\ Store(ui) /\ TalkFits(ui, gens) /\ FailedKept(ui, gens, history)
      /\ ServerFits(gens, registry, history) /\ TaskFits(task, ui, gens, registry, history)
      /\ task.read
  BY DEF ConversationInvariant, FollowingInvariant, TasksFit, LoadHistory
<1>2. PICK active, saved, msgs : active = task.turn /\ saved = task.saved /\ msgs = ToMessages(saved)
  OBVIOUS
<1>3. /\ active \in 0..Len(gens) /\ SavedFits(saved, gens)
      /\ \A i \in 1..Len(saved) : \E j \in 1..Len(history) : history[j].gen = saved[i].gen
  BY <1>1, <1>2 DEF TaskFits
<1>4. gens \in Seq(Turn) /\ Len(gens) \in Nat /\ UiRecord(ui)
  BY <1>1, ServerHasLengths, StoreIsRecord DEF ServerFits
<1>5. /\ PairsFit(msgs, ui.turns, gens) /\ Len(saved) \in Nat
      /\ OldPairs(msgs, {"saved", "blank"})
  BY <1>2, <1>3, <1>4, MessagesFit
<1>6. CASE active # 0 /\ ui' = [BeginTurn(ui, msgs, gens[active].prompt) EXCEPT !.unsaved = FALSE]
  <2>1. PICK prompt, b : prompt = gens[active].prompt /\ b = BeginTurn(ui, msgs, prompt)
    OBVIOUS
  <2>2. prompt \in Prompts
    <3>1. active \in 1..Len(gens)
      BY <1>3, <1>4, <1>6
    <3>2. gens[active] \in Turn
      BY <1>4, <3>1, ElementOfSeq
    <3>3. QED
      BY <2>1, <3>2 DEF Turn
  <2>3. ui' = [b EXCEPT !.unsaved = FALSE]
    BY <1>6, <2>1
  <2>4. /\ TalkFits(ui', gens) /\ FailedKept(ui', gens, history)
        /\ LostAmong(msgs, ui') /\ NoneLive(ui, ui')
    BY <1>1, <1>5, <2>1, <2>2, <2>3, BeginTalks
  <2>5. LostIsLost(ui') /\ LiveBefore(ui')
    BY <1>5, <2>4 DEF LostIsLost, LiveBefore, LostAmong, NoneLive, OldPairs
  <2>6. QED
    BY <2>4, <2>5 DEF UiFits
<1>7. CASE ui.kept # NoPrompt /\ ui' = [ui EXCEPT !.pairs = Append(msgs, RestoredFailedTurn(ui.kept)), !.unsaved = FALSE]
  <2>1. PICK r, prompt : prompt = ui.kept /\ r = Append(msgs, RestoredFailedTurn(prompt))
    OBVIOUS
  <2>2. prompt \in Prompts
    BY <1>1, <1>7, <2>1 DEF TalkFits
  <2>3. /\ PairsFit(r, ui.turns, gens) /\ r[Len(r)].prompt = prompt
        /\ OldPairs(r, {"saved", "blank", "failed"})
    <3>1. r = Append(msgs, RestoredFailedTurn(prompt)) /\ OldPairs(msgs, {"saved", "blank"})
      BY <1>5, <2>1
    <3>2. PICK turns, g : turns = ui.turns /\ g = gens
      OBVIOUS
    <3>3. PairsFit(msgs, turns, g)
      BY <1>5, <3>2
    <3>4. PairsFit(r, turns, g)
      BY <2>2, <3>1, <3>3, RestoredFits
    <3>5. r[Len(r)].prompt = prompt
      BY <2>2, <3>1, <3>3, RestoredFits
    <3>6. OldPairs(r, {"saved", "blank", "failed"})
      BY <2>2, <3>1, <3>3, RestoredFits
    <3>7. QED
      BY <3>2, <3>4, <3>5, <3>6
  <2>4. ui' = [ui EXCEPT !.pairs = r, !.unsaved = FALSE]
    BY <1>7, <2>1
  <2>5. Talks(ui, ui', gens, history) /\ SamePrompts(ui, ui')
    BY <1>1, <1>4, <2>1, <2>3, <2>4, ReplacedTalks
  <2>6. QED
    BY <2>5, TalkIsFit
<1>8. ASSUME NEW u, Talks(ui, u, gens, history), SamePrompts(ui, u), UiRecord(u),
             ui' = u \/ ui' = [u EXCEPT !.pairs = msgs, !.unsaved = FALSE]
      PROVE  UiFits(ui')
  <2>1. CASE ui' = u
    BY <1>8, <2>1, TalkIsFit
  <2>2. CASE ui' = [u EXCEPT !.pairs = msgs, !.unsaved = FALSE]
    <3>1. PairsFit(msgs, u.turns, gens)
      BY <1>5, <1>8 DEF PairsFit, PairFits, SamePrompts
    <3>2. OldPairs(msgs, {"saved", "blank", "failed"})
      BY <1>5 DEF OldPairs
    <3>3. TalkFits(u, gens)
      BY <1>8 DEF Talks
    <3>4. Talks(u, ui', gens, history) /\ SamePrompts(u, ui')
      BY <1>5, <1>8, <2>2, <3>1, <3>2, <3>3, ReplacedTalks
    <3>5. ui'.pairs = msgs
      BY <1>8, <2>2 DEF UiRecord
    <3>6. Talks(ui, ui', gens, history)
      BY <1>5, <3>4, <3>5 DEF Talks, NoneLost, OldPairs
    <3>7. SamePrompts(ui, ui')
      BY <1>8, <3>4 DEF SamePrompts
    <3>8. QED
      BY <3>6, <3>7, TalkIsFit
  <2>3. QED
    BY <1>8, <2>1, <2>2
<1>9. PICK forgot : forgot = [ui EXCEPT !.kept = NoPrompt]
  OBVIOUS
<1>10. ASSUME \E i \in DOMAIN saved : gens[saved[i].gen].prompt = ui.kept
       PROVE  Talks(ui, forgot, gens, history) /\ SamePrompts(ui, forgot) /\ UiRecord(forgot)
  <2>1. PICK i \in DOMAIN saved : gens[saved[i].gen].prompt = ui.kept
    BY <1>10
  <2>2. i \in 1..Len(saved)
    BY <1>3, LenProperties DEF SavedFits
  <2>3. PICK j \in 1..Len(history) : history[j].gen = saved[i].gen
    BY <1>3, <2>2
  <2>4. IsSaved(ui.kept, gens, history)
    BY <2>1, <2>3 DEF IsSaved
  <2>5. QED
    BY <1>1, <1>4, <1>9, <2>4, ForgottenTalks
<1>11. Talks(ui, ui, gens, history) /\ SamePrompts(ui, ui)
  BY <1>1, TheSameTurns, SameTalk
<1>12. \/ active # 0 /\ ui' = [BeginTurn(ui, msgs, gens[active].prompt) EXCEPT !.unsaved = FALSE]
       \/ ui' = ui
       \/ ui.kept # NoPrompt /\ ui' = [ui EXCEPT !.pairs = Append(msgs, RestoredFailedTurn(ui.kept)), !.unsaved = FALSE]
       \/ ui' = [ui EXCEPT !.pairs = msgs, !.unsaved = FALSE]
       \/ /\ \E i \in DOMAIN saved : gens[saved[i].gen].prompt = ui.kept
          /\ ui' = forgot \/ ui' = [forgot EXCEPT !.pairs = msgs, !.unsaved = FALSE]
  <2>1. CASE Resumes(active, saved)
    BY <1>2, <2>1 DEF LoadHistory, Resumes
  <2>2. CASE ~Resumes(active, saved)
    <3> DEFINE known == \E i \in DOMAIN saved : gens[saved[i].gen].prompt = ui.kept
               u == IF active = 0 /\ known THEN forgot ELSE ui
    <3>1. \/ /\ ui.kept # NoPrompt
             /\ ui' = ui \/ ui' = [ui EXCEPT !.pairs = Append(msgs, RestoredFailedTurn(ui.kept)), !.unsaved = FALSE]
          \/ ui' = u \/ ui' = [u EXCEPT !.pairs = msgs, !.unsaved = FALSE]
      BY <1>2, <1>9, <2>2 DEF LoadHistory
    <3>2. CASE active = 0 /\ known
      BY <3>1, <3>2
    <3>3. CASE ~(active = 0 /\ known)
      BY <3>1, <3>3
    <3>4. QED
      BY <3>2, <3>3
  <2>3. QED
    BY <2>1, <2>2
<1>13. QED
  BY <1>4, <1>6, <1>7, <1>8, <1>10, <1>11, <1>12

-----------------------------------------------------------------------------
(* What a step does to the server, to the requests and to the stream.      *)

\* A turn's prompt is one of the prompts.
LEMMA PromptOfTurn ==
  ASSUME ConversationInvariant, NEW t \in 1..Len(ui.turns)
  PROVE  ui.turns[t].prompt \in Prompts
BY DEF ConversationInvariant, TalkFits

\* A request that opens a stream starts its turn.
LEMMA RequestStarts ==
  ASSUME ConversationInvariant, NEW task \in tasks, task.kind = "open", registry = 0,
         StartTurn(ui.turns[task.turn].prompt), history' = history, changed' = changed
  PROVE  ServerGoesOn
<1>1. ServerHolds /\ FollowingInvariant
  BY DEF ConversationInvariant, ServerHolds
<1>2. task.turn \in 1..Len(ui.turns)
  BY <1>1, CarriedIsNewest DEF Carries, Opens
<1>3. ui.turns[task.turn].prompt \in Prompts
  BY <1>2, PromptOfTurn
<1>4. QED
  BY <1>1, <1>3, StartTurnFits

\* Opening a stream starts the turn of the request, or none.
LEMMA OpeningServer ==
  ASSUME ConversationInvariant, NEW task \in tasks, OpenStream(task) \/ OpenFails(task)
  PROVE  ServerGoesOn
<1>1. task.kind = "open" /\ history' = history /\ changed' = changed
  BY DEF OpenStream, OpenFails
<1>2. UNCHANGED <<gens, registry>> \/ (StartTurn(ui.turns[task.turn].prompt) /\ registry = 0)
  BY DEF OpenStream, OpenFails
<1>3. ServerHolds
  BY DEF ConversationInvariant, ServerHolds
<1>4. QED
  BY <1>1, <1>2, <1>3, ServerStays, RequestStarts

\* So does a stop that comes while the request is under way.
LEMMA StopServer ==
  ASSUME ConversationInvariant, Stop
  PROVE  /\ ServerGoesOn
         /\ registry' \in {registry, 0} \/ \E task \in tasks : task.kind = "open"
<1>1. ServerHolds /\ Store(ui) /\ history' = history /\ changed' = changed /\ ui.inProgress # 0
  BY DEF ConversationInvariant, FollowingInvariant, ServerHolds, Stop
<1>2. ui.turns[ui.inProgress].prompt \in Prompts
  BY <1>1, InProgressIsLive, PromptOfTurn
<1>3. \/ UNCHANGED <<gens, registry>>
      \/ /\ StartTurn(ui.turns[ui.inProgress].prompt) /\ registry = 0
         /\ \E task \in tasks : task.kind = "open"
  BY DEF Stop
<1>4. CASE UNCHANGED <<gens, registry>>
  BY <1>1, <1>4, ServerStays
<1>5. CASE /\ StartTurn(ui.turns[ui.inProgress].prompt) /\ registry = 0
           /\ \E task \in tasks : task.kind = "open"
  BY <1>1, <1>2, <1>5, StartTurnFits
<1>6. QED
  BY <1>3, <1>4, <1>5

\* So may the request of a page that is left, and a stop may reach the turn that runs.
LEMMA LeavePageServer ==
  ASSUME ConversationInvariant, LeavePage
  PROVE  /\ ServerGoesOn
         /\ registry' \in {registry, 0} \/ \E task \in tasks : task.kind = "open"
<1>1. ServerHolds /\ history' = history /\ changed' = changed
  BY DEF ConversationInvariant, ServerHolds, LeavePage
<1>2. CASE UNCHANGED <<gens, registry>>
  BY <1>1, <1>2, ServerStays
<1>3. CASE \E task \in tasks : task.kind = "open" /\ registry = 0 /\ StartTurn(ui.turns[task.turn].prompt)
  BY <1>1, <1>3, RequestStarts
<1>4. CASE StopArrives /\ registry' = registry
  BY <1>1, <1>4, StopFits
<1>5. QED
  BY <1>2, <1>3, <1>4 DEF LeavePage

\* While the newest turn's last resort is asked for, nothing is started.
LastResort == \A k \in tasks : k.kind = "adoptLost" /\ IsLive(ui, k.turn) => registry' = 0

\* No request that opens a stream is under way beside it.
LEMMA LastResortIsAlone ==
  ASSUME ConversationInvariant, NEW task \in tasks, task.kind = "open",
         NEW k \in tasks, k.kind = "adoptLost", IsLive(ui, k.turn)
  PROVE  FALSE
<1>1. FollowingInvariant
  BY DEF ConversationInvariant
<1>2. task.turn = ui.inProgress /\ \A l \in tasks \ {task} : l.kind \in Carries => l.turn # ui.inProgress
  BY <1>1, CarriedIsNewest DEF Carries, Opens
<1>3. k.turn = ui.inProgress /\ k.kind \in Carries
  BY <1>1, CarriedIsNewest DEF Carries, Opens
<1>4. k \in tasks \ {task}
  OBVIOUS
<1>5. QED
  BY <1>2, <1>3, <1>4

\* The registry keeps its turn, forgets it, or takes one that a request opens.
LEMMA RegistryKept ==
  ASSUME ConversationInvariant, registry' \in {registry, 0} \/ \E task \in tasks : task.kind = "open"
  PROVE  LastResort
<1>1. CASE registry' \in {registry, 0}
  BY <1>1 DEF LastResort, ConversationInvariant, TasksFit, TaskFits
<1>2. CASE \E task \in tasks : task.kind = "open"
  BY <1>2, LastResortIsAlone DEF LastResort
<1>3. QED
  BY <1>1, <1>2

\* What every step does to the server.
LEMMA ServerChanges ==
  ASSUME ConversationInvariant, [Next]_vars
  PROVE  ServerGoesOn /\ LastResort
<1>1. ServerHolds
  BY DEF ConversationInvariant, ServerHolds
<1>2. CASE UNCHANGED server
  BY <1>1, <1>2, ServerStays, RegistryKept DEF server
<1>3. CASE ServerStep \/ Faults
  <2>1. registry' \in {registry, 0}
    BY <1>3 DEF ServerStep, BeginSaving, SaveMessages, PublishFiles, RecordTurn, FinishTurn, Forgets, Faults, CannotSave, Restart
  <2>2. QED
    BY <1>1, <1>3, <2>1, ServerStepFits, RegistryKept
<1>4. CASE \E task \in tasks : OpenStream(task) \/ OpenFails(task)
  <2>1. PICK task \in tasks : OpenStream(task) \/ OpenFails(task)
    BY <1>4
  <2>2. task.kind = "open"
    BY <2>1 DEF OpenStream, OpenFails
  <2>3. QED
    BY <2>1, <2>2, OpeningServer, RegistryKept
<1>5. CASE \E task \in tasks : StopOnServer(task) \/ StopOtherOnServer(task)
  <2>1. PICK task \in tasks : StopOnServer(task) \/ StopOtherOnServer(task)
    BY <1>5
  <2>2. /\ registry' = registry /\ history' = history /\ changed' = changed
        /\ StopArrives \/ gens' = gens
    BY <2>1 DEF StopOnServer, StopOtherOnServer
  <2>3. QED
    BY <1>1, <2>2, StopFits, ServerStays, RegistryKept
<1>6. CASE Stop
  BY <1>6, StopServer, RegistryKept
<1>7. CASE Browser
  <2>1. PICK task \in tasks :
          \/ OpenStream(task) \/ OpenFails(task) \/ Refused(task) \/ Attach(task) \/ ResumeStream(task)
          \/ Reconnected(task) \/ AdoptSavedTurn(task) \/ StopOnServer(task) \/ StopOtherOnServer(task)
          \/ LoadActive(task) \/ ReadHistory(task) \/ LoadHistory(task)
    BY <1>7 DEF Browser
  <2>2. \/ OpenStream(task) \/ OpenFails(task) \/ StopOnServer(task) \/ StopOtherOnServer(task) \/ UNCHANGED server
    BY <2>1 DEF Refused, Attach, ResumeStream, Reconnected, AdoptSavedTurn, LoadActive, ReadHistory, LoadHistory
  <2>3. QED
    BY <1>2, <1>4, <1>5, <2>2
<1>8. CASE Stream
  BY <1>2, <1>8 DEF Stream, ReadDone, ReadError, ConnectionLost
<1>9. CASE LeavePage
  BY <1>9, LeavePageServer, RegistryKept
<1>10. CASE Person
  BY <1>2, <1>6, <1>9, <1>10 DEF Person, RetryLast, Send, StopTheOther, Visit
<1>11. CASE UNCHANGED vars
  BY <1>2, <1>11 DEF vars, server
<1>12. QED
  BY <1>3, <1>7, <1>8, <1>10, <1>11 DEF Next

\* What every step makes of what the browser shows.
LEMMA UiChanges ==
  ASSUME ConversationInvariant, [Next]_vars
  PROVE  UiFits(ui')
<1>1. CASE UNCHANGED ui
  BY <1>1, SameIsFit DEF ConversationInvariant, FollowingInvariant
<1>2. CASE Browser
  <2>1. PICK task \in tasks :
          \/ OpenStream(task) \/ OpenFails(task) \/ Refused(task) \/ Attach(task) \/ ResumeStream(task)
          \/ Reconnected(task) \/ AdoptSavedTurn(task) \/ StopOnServer(task) \/ StopOtherOnServer(task)
          \/ LoadActive(task) \/ ReadHistory(task) \/ LoadHistory(task)
    BY <1>2 DEF Browser
  <2>2. CASE \/ OpenStream(task) \/ OpenFails(task) \/ Refused(task) \/ Attach(task) \/ ResumeStream(task)
             \/ Reconnected(task)
    BY <2>2, OpeningIsFit
  <2>3. CASE AdoptSavedTurn(task)
    BY <2>3, AdoptSavedTurnIsFit
  <2>4. CASE StopOnServer(task) \/ StopOtherOnServer(task) \/ LoadActive(task) \/ ReadHistory(task)
    BY <1>1, <2>4 DEF StopOnServer, StopOtherOnServer, LoadActive, ReadHistory
  <2>5. CASE LoadHistory(task)
    BY <2>5, LoadHistoryIsFit
  <2>6. QED
    BY <2>1, <2>2, <2>3, <2>4, <2>5
<1>3. CASE Stream
  BY <1>3, StreamIsFit
<1>4. CASE Person
  <2>1. CASE RetryLast
    <3>1. ui.pairs \in Seq(Pair) /\ Len(ui.pairs) \in Nat
      BY LenProperties DEF ConversationInvariant, TalkFits
    <3>2. Len(ui.pairs) # 0 /\ Send(ui.pairs[Len(ui.pairs)].prompt)
      BY <2>1, <3>1, EmptySeq DEF RetryLast, CanRetry
    <3>3. ui.pairs[Len(ui.pairs)] \in Pair
      BY <3>1, <3>2, ElementOfSeq
    <3>4. ui.pairs[Len(ui.pairs)].prompt \in Prompts
      BY <3>3 DEF Pair
    <3>5. QED
      BY <3>2, <3>4, SendIsFit
  <2>2. CASE Visit
    BY <1>1, <2>2 DEF Visit
  <2>3. QED
    BY <1>4, <2>1, <2>2, SendIsFit, StopIsFit, StopTheOtherIsFit, LeavePageIsFit DEF Person
<1>5. CASE ServerStep \/ Faults
  BY <1>1, <1>5 DEF ServerStep, BeginSaving, SaveMessages, PublishFiles, RecordTurn, FinishTurn, Faults, CannotSave, Restart
<1>6. CASE UNCHANGED vars
  BY <1>1, <1>6 DEF vars
<1>7. QED
  BY <1>2, <1>3, <1>4, <1>5, <1>6 DEF Next

-----------------------------------------------------------------------------

\* What was saved stays saved, and what fits goes on to fit.
LEMMA SavedStill ==
  ASSUME NEW saved, NEW g, NEW h, NEW g2, NEW h2, SavedFits(saved, g), Grown(g, h, g2, h2),
         Len(g) \in Nat, Len(g2) \in Nat
  PROVE  SavedFits(saved, g2)
BY DEF SavedFits, Grown

\* A request goes on to fit.
LEMMA TaskFitsStill ==
  ASSUME NEW k, NEW u, NEW g, NEW r, NEW h, TaskFits(k, u, g, r, h), NEW v, NEW g2, NEW r2, NEW h2,
         Grown(g, h, g2, h2), Len(g) \in Nat, Len(g2) \in Nat, Len(h) \in Nat, Len(h2) \in Nat,
         k.kind = "adoptLost" /\ IsLive(v, k.turn) => r2 = 0
  PROVE  TaskFits(k, v, g2, r2, h2)
<1>1. k = [kind |-> k.kind, turn |-> k.turn, n |-> k.n, read |-> k.read, saved |-> k.saved]
  BY DEF TaskFits
<1>2. k.kind = "loadHistory" => k.turn \in 0..Len(g2)
  BY DEF TaskFits, Grown
<1>3. ASSUME k.read
      PROVE  /\ k.kind = "loadHistory" /\ SavedFits(k.saved, g2)
             /\ \A i \in 1..Len(k.saved) : \E j \in 1..Len(h2) : h2[j].gen = k.saved[i].gen
  <2>1. /\ k.kind = "loadHistory" /\ SavedFits(k.saved, g)
        /\ \A i \in 1..Len(k.saved) : \E j \in 1..Len(h) : h[j].gen = k.saved[i].gen
    BY <1>3 DEF TaskFits
  <2>2. SavedFits(k.saved, g2)
    BY <2>1, SavedStill
  <2>3. ASSUME NEW i \in 1..Len(k.saved)
        PROVE  \E j \in 1..Len(h2) : h2[j].gen = k.saved[i].gen
    <3>1. PICK j \in 1..Len(h) : h[j].gen = k.saved[i].gen
      BY <2>1
    <3>2. j \in 1..Len(h2) /\ h2[j].gen = h[j].gen
      BY DEF Grown
    <3>3. QED
      BY <3>1, <3>2
  <2>4. QED
    BY <2>1, <2>2, <2>3
<1>4. QED
  BY <1>1, <1>2, <1>3 DEF TaskFits

\* A request that is sent has read nothing yet.
LEMMA NewTaskFits ==
  ASSUME NEW kind, NEW t, NEW n, NEW u, NEW g, NEW r, NEW h, NEW k, k = Task(kind, t, n),
         kind = "loadHistory" => t \in 0..Len(g), kind = "adoptLost" => r = 0
  PROVE  TaskFits(k, u, g, r, h)
BY DEF TaskFits, Task

\* What a load reads is saved.
LEMMA ReadTaskFits ==
  ASSUME NEW task, NEW u, NEW g, NEW r, NEW h, TaskFits(task, u, g, r, h), SavedFits(h, g), task.kind = "loadHistory",
         NEW k, k = [task EXCEPT !.read = TRUE, !.saved = h]
  PROVE  TaskFits(k, u, g, r, h)
<1>1. task = [kind |-> task.kind, turn |-> task.turn, n |-> task.n, read |-> task.read, saved |-> task.saved]
  BY DEF TaskFits
<1>2. k = [kind |-> task.kind, turn |-> task.turn, n |-> task.n, read |-> TRUE, saved |-> h]
  BY <1>1
<1>3. k.kind = "loadHistory" /\ k.turn = task.turn /\ k.saved = h
      /\ k = [kind |-> k.kind, turn |-> k.turn, n |-> k.n, read |-> k.read, saved |-> k.saved]
  BY <1>2
<1>4. QED
  BY <1>3 DEF TaskFits

\* The requests a step sends.
IsSent(k) == k \in tasks \/ TaskFits(k, ui', gens', registry', history')

\* One of a kind that only has to be answered.
LEMMA PlainlySent ==
  ASSUME NEW kind, kind \notin {"loadHistory", "adoptLost"}, NEW t, NEW n
  PROVE  IsSent(Task(kind, t, n))
BY NewTaskFits DEF IsSent

\* The requests that open a stream send others.
LEMMA OpeningSends ==
  ASSUME ConversationInvariant, NEW task \in tasks,
         OpenStream(task) \/ OpenFails(task) \/ Refused(task) \/ Attach(task) \/ ResumeStream(task) \/ Reconnected(task),
         NEW k \in tasks'
  PROVE  IsSent(k)
<1>1. CASE k \in tasks
  BY <1>1 DEF IsSent
<1>2. CASE OpenStream(task) /\ k \notin tasks
  <2>1. PICK n : k = Task("load", 0, n)
    BY <1>2 DEF OpenStream, Rest, StartLoad
  <2>2. QED
    BY <2>1, PlainlySent
<1>3. CASE OpenFails(task) /\ k \notin tasks
  <2>1. k = Task("attach", task.turn, 0)
    BY <1>3 DEF OpenFails, Rest, FailOpening
  <2>2. QED
    BY <2>1, PlainlySent
<1>4. CASE Attach(task) /\ k \notin tasks
  <2>1. k = Task("resume", task.turn, 0)
    BY <1>4 DEF Attach, Rest, FailOpening
  <2>2. QED
    BY <2>1, PlainlySent
<1>5. CASE ResumeStream(task) /\ k \notin tasks
  <2>1. k = Task("reconnect", task.turn, 0)
    BY <1>5 DEF ResumeStream, Rest, FailOpening, StartReconnect, Reconnect
  <2>2. QED
    BY <2>1, PlainlySent
<1>6. CASE Reconnected(task) /\ k \notin tasks
  <2>1. \/ k = Task("reconnect", task.turn, task.n + 1)
        \/ k = Task("resume", task.turn, 0)
        \/ registry = 0 /\ k = Task("adoptLost", task.turn, 0)
    BY <1>6 DEF Reconnected, Rest, StartReconnect, Reconnect
  <2>2. registry' = registry
    BY <1>6 DEF Reconnected, server
  <2>3. CASE registry = 0 /\ k = Task("adoptLost", task.turn, 0)
    <3>1. TaskFits(k, ui', gens', registry', history')
      BY <2>2, <2>3, NewTaskFits
    <3>2. QED
      BY <3>1 DEF IsSent
  <2>4. QED
    BY <2>1, <2>3, PlainlySent
<1>7. CASE Refused(task)
  BY <1>1, <1>7 DEF Refused, Rest
<1>8. QED
  BY <1>1, <1>2, <1>3, <1>4, <1>5, <1>6, <1>7

\* The requests for what is saved, and the stop.
LEMMA SavedSends ==
  ASSUME ConversationInvariant, NEW task \in tasks,
         \/ AdoptSavedTurn(task) \/ StopOnServer(task) \/ StopOtherOnServer(task)
         \/ LoadActive(task) \/ ReadHistory(task) \/ LoadHistory(task),
         NEW k \in tasks'
  PROVE  IsSent(k)
<1>1. CASE k \in tasks
  BY <1>1 DEF IsSent
<1>2. TaskFits(task, ui, gens, registry, history) /\ ServerFits(gens, registry, history)
  BY DEF ConversationInvariant, TasksFit
<1>3. CASE AdoptSavedTurn(task) /\ k \notin tasks
  <2>1. /\ k = Task(task.kind, task.turn, task.n + 1) /\ IsCurrent(ui, task.turn)
        /\ ui' = ui /\ UNCHANGED server /\ task.kind \in {"adoptDone", "adoptLost", "adoptStopped"}
    BY <1>3 DEF AdoptSavedTurn, Rest
  <2>2. k.kind = task.kind /\ k.turn = task.turn /\ ~k.read
        /\ k = [kind |-> k.kind, turn |-> k.turn, n |-> k.n, read |-> k.read, saved |-> k.saved]
    BY <2>1 DEF Task
  <2>3. TaskFits(k, ui, gens, registry, history)
    BY <1>2, <2>1, <2>2 DEF TaskFits
  <2>4. QED
    BY <2>1, <2>3 DEF IsSent, server
<1>4. CASE StopOnServer(task) /\ k \notin tasks
  <2>1. k = Task("adoptStopped", task.turn, 0)
    BY <1>4 DEF StopOnServer, Rest
  <2>2. QED
    BY <2>1, PlainlySent
<1>5. CASE LoadActive(task) /\ k \notin tasks
  <2>1. PICK running \in {registry, 0} : k = Task("loadHistory", running, task.n)
    BY <1>5 DEF LoadActive, Rest
  <2>2. running \in 0..Len(gens) /\ gens' = gens
    BY <1>2, <1>5, ServerHasLengths DEF ServerFits, LoadActive, server
  <2>3. TaskFits(k, ui', gens', registry', history')
    BY <2>1, <2>2, NewTaskFits
  <2>4. QED
    BY <2>3 DEF IsSent
<1>6. CASE ReadHistory(task) /\ k \notin tasks
  <2>1. /\ k = [task EXCEPT !.read = TRUE, !.saved = history] /\ task.kind = "loadHistory"
        /\ UNCHANGED server /\ ui' = ui
    BY <1>6 DEF ReadHistory, Rest
  <2>2. SavedFits(history, gens)
    BY <1>2 DEF ServerFits
  <2>3. TaskFits(k, ui, gens, registry, history)
    BY <1>2, <2>1, <2>2, ReadTaskFits
  <2>4. QED
    BY <2>1, <2>3 DEF IsSent, server
<1>7. CASE LoadHistory(task) /\ k \notin tasks
  <2>1. k = Task("resume", Len(ui.turns) + 1, 0)
    BY <1>7 DEF LoadHistory, Rest
  <2>2. QED
    BY <2>1, PlainlySent
<1>8. CASE StopOtherOnServer(task) /\ k \notin tasks
  <2>1. PICK n : k = Task("load", 0, n)
    BY <1>8 DEF StopOtherOnServer, Rest, StartLoad
  <2>2. QED
    BY <2>1, PlainlySent
<1>9. QED
  BY <1>1, <1>3, <1>4, <1>5, <1>6, <1>7, <1>8

\* Every request after a step was there before it or fits.
LEMMA EveryRequestIsSent ==
  ASSUME ConversationInvariant, [Next]_vars, NEW k \in tasks'
  PROVE  IsSent(k)
<1>1. CASE k \in tasks
  BY <1>1 DEF IsSent
<1>2. CASE Browser
  <2>1. PICK task \in tasks :
          \/ OpenStream(task) \/ OpenFails(task) \/ Refused(task) \/ Attach(task) \/ ResumeStream(task)
          \/ Reconnected(task) \/ AdoptSavedTurn(task) \/ StopOnServer(task) \/ StopOtherOnServer(task)
          \/ LoadActive(task) \/ ReadHistory(task) \/ LoadHistory(task)
    BY <1>2 DEF Browser
  <2>2. QED
    BY <2>1, OpeningSends, SavedSends
<1>3. CASE Stream /\ k \notin tasks
  <2>1. k = Task("adoptDone", conn.turn, 0) \/ k = Task("reconnect", conn.turn, 0)
    BY <1>3 DEF Stream, ReadDone, ReadError, ConnectionLost, FailOpening, StartReconnect, Reconnect
  <2>2. QED
    BY <2>1, PlainlySent
<1>4. CASE Person /\ k \notin tasks
  <2>1. CASE Visit
    <3>1. PICK n : k = Task("load", 0, n)
      BY <1>4, <2>1 DEF Visit, StartLoad
    <3>2. QED
      BY <3>1, PlainlySent
  <2>2. CASE \E prompt : Send(prompt)
    <3>1. k = Task("open", Len(ui.turns) + 1, 0)
      BY <1>4, <2>2 DEF Send
    <3>2. QED
      BY <3>1, PlainlySent
  <2>3. CASE Stop
    <3>1. k = Task("stop", ui.inProgress, 0)
      BY <1>4, <2>3 DEF Stop
    <3>2. QED
      BY <3>1, PlainlySent
  <2>4. CASE StopTheOther
    <3>1. k = Task("stopOther", 0, 0)
      BY <1>4, <2>4 DEF StopTheOther
    <3>2. QED
      BY <3>1, PlainlySent
  <2>5. CASE LeavePage
    BY <2>5 DEF LeavePage
  <2>6. QED
    BY <1>4, <2>1, <2>2, <2>3, <2>4, <2>5 DEF Person, RetryLast
<1>5. CASE ServerStep \/ Faults \/ UNCHANGED vars
  BY <1>1, <1>5 DEF ServerStep, BeginSaving, SaveMessages, PublishFiles, RecordTurn, FinishTurn, Faults, CannotSave, Restart, vars
<1>6. QED
  BY <1>1, <1>2, <1>3, <1>4, <1>5 DEF Next

\* The stream is of a turn of the server.
LEMMA ConnectionFits ==
  ASSUME ConversationInvariant, [Next]_vars, conn' # NoConn
  PROVE  conn'.gen \in 1..Len(gens')
<1>1. /\ ServerFits(gens, registry, history) /\ ServerFits(gens', registry', history')
      /\ Grown(gens, history, gens', history')
  BY ServerChanges DEF ConversationInvariant, ServerGoesOn
<1>2. Len(gens) \in Nat /\ Len(gens') \in Nat /\ Len(gens) <= Len(gens')
  BY <1>1, ServerHasLengths DEF Grown
<1>3. CASE conn' = conn
  BY <1>2, <1>3 DEF ConversationInvariant
<1>4. CASE \E task \in tasks : OpenStream(task) \/ ResumeStream(task)
  <2>1. PICK task \in tasks : OpenStream(task) \/ ResumeStream(task)
    BY <1>4
  <2>2. CASE registry = 0 /\ StartTurn(ui.turns[task.turn].prompt) /\ Follow(task.turn, Len(gens) + 1)
    <3>1. conn'.gen = Len(gens) + 1
      BY <2>2 DEF Follow
    <3>2. PICK turn : gens' = Append(gens, turn)
      BY <2>2 DEF StartTurn
    <3>3. Len(gens') = Len(gens) + 1
      BY <1>1, <3>2 DEF ServerFits
    <3>4. QED
      BY <1>2, <3>1, <3>3
  <2>3. CASE registry # 0 /\ Follow(task.turn, registry)
    <3>1. conn'.gen = registry
      BY <2>3 DEF Follow
    <3>2. registry \in 1..Len(gens)
      BY <1>1, <1>2, <2>3 DEF ServerFits
    <3>3. QED
      BY <1>2, <3>1, <3>2
  <2>4. QED
    BY <1>3, <2>1, <2>2, <2>3 DEF OpenStream, ResumeStream
<1>5. conn' = conn \/ conn' = NoConn \/ \E task \in tasks : OpenStream(task) \/ ResumeStream(task)
  <2>1. CASE Browser
    BY <2>1 DEF Browser, OpenFails, Refused, Attach, Reconnected, AdoptSavedTurn, StopOnServer, StopOtherOnServer,
                LoadActive, ReadHistory, LoadHistory
  <2>2. CASE Stream
    BY <2>2 DEF Stream, ReadDone, ReadError, ConnectionLost
  <2>3. CASE Person
    BY <2>3 DEF Person, RetryLast, Send, Stop, StopTheOther, Visit, LeavePage
  <2>4. CASE ServerStep \/ Faults \/ UNCHANGED vars
    BY <2>4 DEF ServerStep, BeginSaving, SaveMessages, PublishFiles, RecordTurn, FinishTurn, Faults, CannotSave, Restart, vars
  <2>5. QED
    BY <2>1, <2>2, <2>3, <2>4 DEF Next
<1>6. QED
  BY <1>3, <1>4, <1>5

-----------------------------------------------------------------------------
(* The invariant is inductive.                                             *)

\* What fits goes on to fit when the server has more.
LEMMA TalkFitsStill ==
  ASSUME NEW u, NEW g, NEW h, NEW g2, NEW h2, TalkFits(u, g), Grown(g, h, g2, h2), Len(g) \in Nat, Len(g2) \in Nat
  PROVE  TalkFits(u, g2)
<1>1. ASSUME NEW i \in 1..Len(u.pairs)
      PROVE  PairFits(u.pairs[i], u.turns, g2)
  <2>1. PICK p : p = u.pairs[i]
    OBVIOUS
  <2>2. PairFits(p, u.turns, g)
    BY <2>1 DEF TalkFits
  <2>3. PairFits(p, u.turns, g2)
    BY <2>2 DEF PairFits, Grown
  <2>4. QED
    BY <2>1, <2>3
<1>2. QED
  BY <1>1 DEF TalkFits

\* What is saved stays so.
LEMMA IsSavedStill ==
  ASSUME NEW prompt, NEW g, NEW h, NEW g2, NEW h2, Grown(g, h, g2, h2), SavedFits(h, g),
         Len(g) \in Nat, Len(g2) \in Nat, Len(h) \in Nat, Len(h2) \in Nat, IsSaved(prompt, g, h)
  PROVE  IsSaved(prompt, g2, h2)
<1>1. PICK i \in 1..Len(h) : g[h[i].gen].prompt = prompt
  BY DEF IsSaved
<1>2. i \in 1..Len(h2) /\ h2[i].gen = h[i].gen /\ h[i].gen \in 1..Len(g)
  BY DEF Grown, SavedFits
<1>3. g2[h[i].gen].prompt = g[h[i].gen].prompt
  BY <1>2 DEF Grown
<1>4. QED
  BY <1>1, <1>2, <1>3 DEF IsSaved

\* A failed question that is kept or saved stays so.
LEMMA FailedKeptStill ==
  ASSUME NEW u, NEW g, NEW h, NEW g2, NEW h2, FailedKept(u, g, h), Grown(g, h, g2, h2), SavedFits(h, g),
         Len(g) \in Nat, Len(g2) \in Nat, Len(h) \in Nat, Len(h2) \in Nat
  PROVE  FailedKept(u, g2, h2)
BY IsSavedStill DEF FailedKept

\* A request that stays goes on to fit.
LEMMA RequestFits ==
  ASSUME ConversationInvariant, [Next]_vars, NEW k \in tasks'
  PROVE  TaskFits(k, ui', gens', registry', history')
<1>1. CASE k \in tasks
  <2>1. /\ ServerFits(gens, registry, history) /\ ServerFits(gens', registry', history')
        /\ Grown(gens, history, gens', history') /\ LastResort
    BY ServerChanges DEF ConversationInvariant, ServerGoesOn
  <2>2. TaskFits(k, ui, gens, registry, history) /\ Followed(ui, conn, tasks) /\ LiveBefore(ui')
    BY <1>1, UiChanges DEF ConversationInvariant, TasksFit, FollowingInvariant, UiFits
  <2>3. ASSUME k.kind = "adoptLost" /\ IsLive(ui', k.turn)
        PROVE  registry' = 0
    <3>1. k.turn \in 1..Len(ui.turns)
      BY <1>1, <2>2, <2>3 DEF Followed, Carries
    <3>2. IsLive(ui, k.turn)
      BY <2>2, <2>3, <3>1 DEF LiveBefore
    <3>3. QED
      BY <1>1, <2>1, <2>3, <3>2 DEF LastResort
  <2>4. PICK v, g, r, h : v = ui' /\ g = gens' /\ r = registry' /\ h = history'
    OBVIOUS
  <2>5. Len(gens) \in Nat /\ Len(g) \in Nat /\ Len(history) \in Nat /\ Len(h) \in Nat
    BY <2>1, <2>4, ServerHasLengths
  <2>6. TaskFits(k, v, g, r, h)
    BY <2>1, <2>2, <2>3, <2>4, <2>5, TaskFitsStill
  <2>7. QED
    BY <2>4, <2>6
<1>2. QED
  BY <1>1, EveryRequestIsSent DEF IsSent

\* Every step keeps the invariant.
LEMMA ConversationStep ==
  ASSUME ConversationInvariant, [Next]_vars
  PROVE  ConversationInvariant'
<1>1. FollowingInvariant'
  BY FollowingStep DEF ConversationInvariant
<1>2. /\ ServerFits(gens, registry, history) /\ ServerFits(gens', registry', history')
      /\ Grown(gens, history, gens', history') /\ FilesFit(gens', history', changed')
  BY ServerChanges DEF ConversationInvariant, ServerGoesOn
<1>3. TalkFits(ui', gens) /\ FailedKept(ui', gens, history)
  BY UiChanges DEF UiFits
<1>4. PICK v, g, r, h : v = ui' /\ g = gens' /\ r = registry' /\ h = history'
  OBVIOUS
<1>5. Len(gens) \in Nat /\ Len(g) \in Nat /\ Len(history) \in Nat /\ Len(h) \in Nat /\ SavedFits(history, gens)
  BY <1>2, <1>4, ServerHasLengths DEF ServerFits
<1>6. TalkFits(v, g)
  BY <1>2, <1>3, <1>4, <1>5, TalkFitsStill
<1>7. FailedKept(v, g, h)
  BY <1>2, <1>3, <1>4, <1>5, FailedKeptStill
<1>8. conn' # NoConn => conn'.gen \in 1..Len(gens')
  BY ConnectionFits
<1>9. TasksFit(tasks', ui', gens', registry', history')
  BY RequestFits DEF TasksFit
<1>10. QED
  BY <1>1, <1>2, <1>4, <1>6, <1>7, <1>8, <1>9 DEF ConversationInvariant

\* A page that is opened satisfies it.
LEMMA ConversationInitially ==
  ASSUME Init
  PROVE  ConversationInvariant
<1>1. FollowingInvariant
  BY FollowingInitially
<1>2. /\ gens = <<>> /\ registry = 0 /\ history = <<>> /\ changed = {}
      /\ ui = InitialUi /\ tasks = {} /\ conn = NoConn
  BY DEF Init
<1>3. history \in Seq([gen : Nat, events : BOOLEAN]) /\ Len(history) = 0 /\ gens \in Seq(Turn) /\ Len(gens) = 0
  <2>1. history \in Seq([gen : Nat, events : BOOLEAN]) /\ Len(history) = 0
    BY <1>2
  <2>2. gens \in Seq(Turn) /\ Len(gens) = 0
    BY <1>2
  <2>3. QED
    BY <2>1, <2>2
<1>4. ServerFits(gens, registry, history) /\ FilesFit(gens, history, changed)
  BY <1>2, <1>3 DEF ServerFits, SavedFits, FilesFit
<1>5. InitialUi = [InitialUi EXCEPT !.kept = InitialUi.kept] /\ InitialUi.kept = NoPrompt
  BY DEF InitialUi
<1>6. TalkFits(ui, gens) /\ FailedKept(ui, gens, history)
  <2>1. PICK kept \in Prompts \cup {NoPrompt} : kept = NoPrompt
    OBVIOUS
  <2>2. ui = [InitialUi EXCEPT !.kept = kept]
    BY <1>2, <1>5, <2>1
  <2>3. QED
    BY <2>2, FreshFits
<1>7. TasksFit(tasks, ui, gens, registry, history)
  BY <1>2 DEF TasksFit
<1>8. QED
  BY <1>1, <1>2, <1>4, <1>6, <1>7 DEF ConversationInvariant

-----------------------------------------------------------------------------
(* What follows from it.                                                   *)

\* What the stream and the requests name exists.
LEMMA ConversationHasTypes ==
  ASSUME ConversationInvariant
  PROVE  ChatTypeOK
<1>1. ui.pairs \in Seq(Pair) /\ ui.kept \in Prompts \cup {NoPrompt} /\ registry \in 0..Len(gens)
  BY DEF ConversationInvariant, TalkFits, ServerFits
<1>2. ASSUME conn # NoConn
      PROVE  conn.turn \in DOMAIN ui.turns /\ conn.gen \in DOMAIN gens
  <2>1. conn.turn \in 1..Len(ui.turns)
    BY <1>2, StreamIsTheTurns DEF ConversationInvariant
  <2>2. conn.gen \in 1..Len(gens) /\ DOMAIN gens = 1..Len(gens)
    BY <1>2, LenProperties DEF ConversationInvariant, ServerFits
  <2>3. PICK S : ui.turns \in Seq(S)
    BY DEF ConversationInvariant, FollowingInvariant, Store
  <2>4. DOMAIN ui.turns = 1..Len(ui.turns)
    BY <2>3, LenProperties
  <2>5. QED
    BY <2>1, <2>2, <2>4
<1>3. \A task \in tasks : task.kind \in Kinds
  BY DEF ConversationInvariant, FollowingInvariant, Followed, Carries, Opens, After, Loads, Kinds
<1>4. QED
  BY <1>1, <1>2, <1>3 DEF ChatTypeOK

\* The sequences are numbered from one.
LEMMA PairsAreNumbered ==
  ASSUME ConversationInvariant
  PROVE  /\ ui.pairs \in Seq(Pair) /\ Len(ui.pairs) \in Nat /\ DOMAIN ui.pairs = 1..Len(ui.pairs)
         /\ gens \in Seq(Turn) /\ Len(gens) \in Nat /\ DOMAIN gens = 1..Len(gens)
         /\ DOMAIN history = 1..Len(history)
BY LenProperties DEF ConversationInvariant, TalkFits, ServerFits, SavedFits

\* What is shown under a question answers it.
LEMMA ConversationAnswers ==
  ASSUME ConversationInvariant
  PROVE  AnswersItsQuestion
<1>1. ASSUME NEW i \in DOMAIN ui.pairs, ui.pairs[i].shows # 0
      PROVE  gens[ui.pairs[i].shows].prompt = ui.pairs[i].prompt
  <2>1. PairFits(ui.pairs[i], ui.turns, gens)
    BY PairsAreNumbered DEF ConversationInvariant, TalkFits
  <2>2. QED
    BY <1>1, <2>1 DEF PairFits
<1>2. QED
  BY <1>1 DEF AnswersItsQuestion

\* The newest question, when it failed, is kept or saved.
LEMMA ConversationIsKept ==
  ASSUME ConversationInvariant
  PROVE  FailedPromptIsKept
<1> DEFINE newest == ui.pairs[Len(ui.pairs)]
<1>1. SUFFICES ASSUME ui.pairs # <<>>, newest.turn = ui.latest, newest.mark \in {"failed", "lost"}
               PROVE  ui.kept = newest.prompt \/ \E i \in DOMAIN history : gens[history[i].gen].prompt = newest.prompt
  BY DEF FailedPromptIsKept
<1>2. Len(ui.pairs) # 0 /\ DOMAIN history = 1..Len(history)
  BY <1>1, PairsAreNumbered, EmptySeq
<1>3. ui.kept = newest.prompt \/ IsSaved(newest.prompt, gens, history)
  BY <1>1, <1>2 DEF ConversationInvariant, FailedKept
<1>4. QED
  BY <1>2, <1>3 DEF IsSaved

\* The step that tells of a loss tells the truth.
TellsTruly ==
  \A i \in DOMAIN ui'.pairs :
    (ui'.pairs[i].mark = "lost" /\ ~(i \in DOMAIN ui.pairs /\ ui.pairs[i].mark = "lost")) =>
      /\ \A g \in DOMAIN gens : gens[g].phase \notin UnderWay
      /\ ~LastIs(history, ui'.pairs[i].prompt)
      /\ \A g \in changed : gens[g].prompt = ui'.pairs[i].prompt =>
            gens[g].cut \/ \E k \in 1..(Len(history) - 1) : history[k].gen = g

\* Every step tells it truly.
LEMMA StepTellsTruly ==
  ASSUME ConversationInvariant, [Next]_vars
  PROVE  TellsTruly
<1>1. LostIsLost(ui')
  BY UiChanges DEF UiFits
<1>2. DOMAIN ui.pairs = 1..Len(ui.pairs) /\ DOMAIN gens = 1..Len(gens)
  BY PairsAreNumbered
<1>3. DOMAIN ui'.pairs = 1..Len(ui'.pairs)
  <2>1. TalkFits(ui', gens)
    BY UiChanges DEF UiFits
  <2>2. ui'.pairs \in Seq(Pair)
    BY <2>1 DEF TalkFits
  <2>3. QED
    BY <2>2, LenProperties
<1>4. QED
  BY <1>1, <1>2, <1>3 DEF TellsTruly, LostIsLost

\* The conversation invariant holds throughout.
LEMMA ConversationAlways == Spec => []ConversationInvariant
<1>1. Init => ConversationInvariant
  BY ConversationInitially
<1>2. ConversationInvariant /\ [Next]_vars => ConversationInvariant'
  BY ConversationStep
<1>3. QED
  BY <1>1, <1>2, PTL DEF Spec

\* The chat's state keeps its shape: whatever is followed, saved or asked for is
\* of a turn that exists (project-chat-store.ts, GenerationRegistry).
THEOREM ChatIsWellTyped == Spec => []ChatTypeOK
<1>1. ConversationInvariant => ChatTypeOK
  BY ConversationHasTypes
<1>2. QED
  BY <1>1, ConversationAlways, PTL

\* However late, repeated or lost the answers are, a saved turn that is shown
\* under a question answers that question (adoptSavedTurn, toChatMessages).
THEOREM AnswersStandUnderTheirQuestions == Spec => []AnswersItsQuestion
<1>1. ConversationInvariant => AnswersItsQuestion
  BY ConversationAnswers
<1>2. QED
  BY <1>1, ConversationAlways, PTL

\* The question of the newest turn, when it failed, is kept in the browser or is
\* saved on the server (rememberFailedTurn, forgetFailedTurn).  One that was
\* answered 401, which the code does not keep, is marked "refused" and no part of
\* this.
THEOREM FailedPromptsAreKept == Spec => []FailedPromptIsKept
<1>1. ConversationInvariant => FailedPromptIsKept
  BY ConversationIsKept
<1>2. QED
  BY <1>1, ConversationAlways, PTL

\* Nobody is told that a turn was lost while one is carried on or when it is the
\* last one saved, and files were then changed for the question only by a turn
\* that was cut short or is saved further up (reconnect, adoptLostTurn; TurnRecorder
\* saves the reply before the files, and the registry forgets a turn once it is
\* saved).
THEOREM LostTurnsAreLost == Spec => LostIsNotSaved
<1>1. ConversationInvariant /\ [Next]_vars => [TellsTruly]_vars
  BY StepTellsTruly
<1>2. Spec => [][TellsTruly]_vars
  BY <1>1, ConversationAlways, PTL DEF Spec
<1>3. QED
  BY <1>2 DEF LostIsNotSaved, TellsTruly
=============================================================================
