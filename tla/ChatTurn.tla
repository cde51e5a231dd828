------------------------------ MODULE ChatTurn ------------------------------
(***************************************************************************)
(* One person's build chat in one project: the browser's chat store        *)
(* (project-chat-store.ts, the stream reader of api.ts and sse.ts, the     *)
(* composer of ChatPanel.tsx) and the server's generation of one turn      *)
(* (GenerationRegistry, ActiveGeneration, BuildTurn, TurnRecorder).        *)
(*                                                                         *)
(* The text of an answer is abstracted to the turn it belongs to.          *)
(***************************************************************************)
EXTENDS Naturals, Sequences, FiniteSets, KeptElements

CONSTANTS
  Prompts,           \* what the person may ask; a retry asks the same again
  MaxTurns,          \* bound: turns begun in this browser, turns started by the server
  MaxFaults,         \* bound: lost connections, failed requests, restarts
  MaxLoads,          \* bound: loads of the conversation under way at once
  MaxRequests,       \* bound: requests under way that a visit to the page adds to
  MaxReconnects,     \* MAX_RECONNECTS
  ReconnectRetries,  \* RECONNECT_RETRIES
  SavedTurnRetries   \* SAVED_TURN_RETRIES

VARIABLES
  gens,      \* the server's turns, in the order they were started
  registry,  \* GenerationRegistry: the turn that is running, or 0
  history,   \* the saved conversation
  changed,   \* turns whose files were published
  ui,        \* the browser's chat state
  conn,      \* the stream being read, or NoConn
  tasks,     \* the browser's requests under way and the answers that are back
  faults

vars == <<gens, registry, history, changed, ui, conn, tasks, faults>>
server == <<gens, registry, history, changed>>

NoPrompt == "none"

\* The person has something to ask, and no question is no prompt.
ASSUME ChatAssumption == Prompts # {} /\ NoPrompt \notin Prompts

FirstPrompt == CHOOSE prompt \in Prompts : TRUE   \* prompts are interchangeable
NoConn   == [turn |-> 0, gen |-> 0]

(***************************************************************************)
(* The browser's state as one record, and the store's helpers as functions *)
(* of it.                                                                  *)
(***************************************************************************)
Marks == {"streaming", "done", "saved", "blank", "stopped", "failed", "refused", "lost"}
Pair  == [turn : Nat, prompt : Prompts, mark : Marks, shows : Nat]

InitialUi == [pairs |-> <<>>, streaming |-> FALSE, unsaved |-> FALSE, latest |-> 0,
              inProgress |-> 0, turns |-> <<>>, kept |-> NoPrompt, offersStop |-> FALSE]

(* The pairs but those of turn t. *)
Others(pairs, t) == Kept(pairs, {pairs[i] : i \in {j \in DOMAIN pairs : pairs[j].turn # t}})

IsCurrent(u, t) == u.latest = t
\* Mutant: a stopped turn still counts.
IsLiveIfCurrent(u, t) == IsCurrent(u, t)

IsLive(u, t)    == IsCurrent(u, t) /\ ~u.turns[t].stopped
EndTurn(u, t)   == [u EXCEPT !.inProgress = IF @ = t THEN 0 ELSE @]

Marked(u, t, mark) ==
  [u EXCEPT !.pairs = [i \in DOMAIN @ |-> IF @[i].turn = t THEN [@[i] EXCEPT !.mark = mark] ELSE @[i]]]

FailTurn(u, t, mark) == [Marked(EndTurn(u, t), t, mark) EXCEPT !.streaming = FALSE]

\* Mutant: the question is not written to the browser's storage.
GiveUpUnkept(u, t, mark) == FailTurn(u, t, mark)

GiveUp(u, t, mark)   == [FailTurn(u, t, mark) EXCEPT !.kept = u.turns[t].prompt]

BeginTurn(u, pairs, prompt) ==
  LET t == Len(u.turns) + 1
  IN  [u EXCEPT !.pairs = Append(pairs, [turn |-> t, prompt |-> prompt, mark |-> "streaming", shows |-> 0]),
                !.streaming = TRUE,
                !.latest = t, !.inProgress = t,
                !.turns = Append(@, [prompt |-> prompt, reconnects |-> 0, stopped |-> FALSE])]

ToMessages(saved) ==
  [i \in DOMAIN saved |-> [turn |-> 0, prompt |-> gens[saved[i].gen].prompt, shows |-> saved[i].gen,
                           mark |-> IF saved[i].events THEN "saved" ELSE "blank"]]

\* Mutant: whatever was saved last is taken.
LastIsAny(saved, prompt) == saved # <<>> /\ saved[Len(saved)].events

LastIs(saved, prompt) ==
  /\ saved # <<>>
  /\ saved[Len(saved)].events
  /\ gens[saved[Len(saved)].gen].prompt = prompt

HasCaughtUp(saved, u) == Len(saved) >= Len(u.pairs) /\ saved # <<>> /\ saved[Len(saved)].events

(***************************************************************************)
(* Requests.  A task is sent by one step and settled by a later one, in    *)
(* which the server acts on it, or it fails, and the browser handles what  *)
(* comes back.  A load asks twice, and what its second request read is     *)
(* handled in a further step, when both answers may be out of date.  Loads *)
(* may overlap: n tells them apart.                                        *)
(***************************************************************************)
Task(kind, t, n) == [kind |-> kind, turn |-> t, n |-> n, read |-> FALSE, saved |-> <<>>]

Kinds == {"open", "attach", "resume", "reconnect", "adoptDone", "adoptLost", "adoptStopped",
          "stop", "stopOther", "load", "loadHistory"}

Rest(task) == tasks \ {task}

MayFail  == faults < MaxFaults
Fails    == MayFail /\ faults' = faults + 1
Succeeds == UNCHANGED faults

IsLoad(task, n) == task.kind \in {"load", "loadHistory"} /\ task.n = n

(* loadHistory, called where nothing is streaming: with something streaming *)
(* it does nothing at all. *)
StartLoad(rest) == \E n \in 1..MaxLoads :
  /\ ~\E task \in rest : IsLoad(task, n)
  /\ \A m \in 1..(n - 1) : \E task \in rest : IsLoad(task, m)
  /\ tasks' = rest \cup {Task("load", 0, n)}

(* What a step that reconnects does, after the stream of turn t was lost. *)
Reconnect(u, t, n) ==
  IF u.turns[t].reconnects >= MaxReconnects
  THEN [ui |-> GiveUp(u, t, "failed"), sends |-> {}]
  ELSE [ui |-> [u EXCEPT !.turns[t].reconnects = @ + 1], sends |-> {Task("reconnect", t, n)}]

\* Mutant: a stream that broke is left at that.
StartReconnectNever(u, t, n, rest) == ui' = u /\ tasks' = rest

StartReconnect(u, t, n, rest) ==
  IF IsLive(u, t)
  THEN /\ ui' = Reconnect(u, t, n).ui
       /\ tasks' = rest \cup Reconnect(u, t, n).sends
  ELSE ui' = u /\ tasks' = rest

FailOpening(u, t, mark, rest) ==
  /\ ui' = [FailTurn(u, t, mark) EXCEPT !.kept = u.turns[t].prompt]
  /\ tasks' = rest

(* A project nobody has asked anything of, open in a page. *)
Init ==
  /\ gens = <<>> /\ registry = 0
  /\ history = <<>> /\ changed = {}
  /\ ui = InitialUi /\ tasks = {}
  /\ conn = NoConn
  /\ faults = 0

-----------------------------------------------------------------------------
(* The server: one turn from its start to the word that it is done.        *)

UnderWay == {"running", "saving", "replied", "published", "recorded"}

(* It goes from one phase to the next.  "cut" says that something kept it   *)
(* from being recorded whole. *)
Phase(g, from, to, cut) ==
  /\ gens[g].phase \in from
  /\ gens' = [gens EXCEPT ![g].phase = to, ![g].cut = cut]

Forgets(g) == registry' = IF registry = g THEN 0 ELSE registry

(* beginSaving: from here on a stop comes too late *)
BeginSaving(g) ==
  /\ Phase(g, {"running"}, "saving", FALSE)
  /\ UNCHANGED <<registry, history, changed, ui, conn, tasks, faults>>

(* record, its first part: the question and a reply that is still blank *)
SaveMessages(g) ==
  /\ Phase(g, {"saving"}, "replied", FALSE)
  /\ history' = Append(history, [gen |-> g, events |-> FALSE])
  /\ UNCHANGED <<registry, changed, ui, conn, tasks, faults>>

(* then the files, as one revision, unless the turn was stopped.  The      *)
(* revision may be refused; a reply without files would leave "changed"    *)
(* alone too, and what is said of "changed" holds the more. *)
PublishFiles(g) ==
  /\ Phase(g, {"replied"}, "published", FALSE)
  /\ \/ Succeeds /\ changed' = IF gens[g].stopped THEN changed ELSE changed \cup {g}
     \/ Fails /\ UNCHANGED changed
  /\ UNCHANGED <<registry, history, ui, conn, tasks>>

(* and then what the reply says.  Those of its events that cannot be saved *)
(* are left out, if need be all of them. *)
RecordTurn(g) ==
  /\ \/ /\ Succeeds
        /\ Phase(g, {"published"}, "recorded", FALSE)
        /\ history' = [history EXCEPT ![Len(history)].events = TRUE]
     \/ /\ Fails
        /\ Phase(g, {"published"}, "recorded", TRUE)
        /\ UNCHANGED history
  /\ UNCHANGED <<registry, changed, ui, conn, tasks>>

\* Mutant: a turn leaves the registry before it is recorded.
FinishTurnEarly(g) ==
  /\ gens[g].phase \in UnderWay
  /\ gens' = IF gens[g].phase = "recorded" THEN [gens EXCEPT ![g].phase = "finished"] ELSE gens
  /\ Forgets(g)
  /\ UNCHANGED <<history, changed, ui, conn, tasks, faults>>

(* The registry forgets the turn, and its viewers are told that it is done *)
FinishTurn(g) ==
  /\ Phase(g, {"recorded"}, "finished", gens[g].cut)
  /\ Forgets(g)
  /\ UNCHANGED <<history, changed, ui, conn, tasks, faults>>

(* Something threw on the way: what was saved by then stays. *)
CannotSave(g) ==
  /\ Fails
  /\ Phase(g, UnderWay \ {"recorded"}, "failed", TRUE)
  /\ Forgets(g)
  /\ UNCHANGED <<history, changed, ui, conn, tasks>>

(* The process dies: nothing of a turn under way survives in memory. *)
Restart ==
  /\ Fails
  /\ registry # 0
  /\ Phase(registry, UnderWay, "dead", TRUE)
  /\ registry' = 0
  /\ UNCHANGED <<history, changed, ui, conn, tasks>>

ServerStep == \E g \in DOMAIN gens :
  BeginSaving(g) \/ SaveMessages(g) \/ PublishFiles(g) \/ RecordTurn(g) \/ FinishTurn(g)

-----------------------------------------------------------------------------
(* The chat stream's requests. *)

NewTurn(prompt) == [prompt |-> prompt, phase |-> "running", stopped |-> FALSE, cut |-> FALSE]

\* Mutant: the turn is registered under the next number.
StartTurnOffByOne(prompt) ==
  /\ gens' = Append(gens, NewTurn(prompt))
  /\ registry' = Len(gens) + 2

StartTurn(prompt) ==
  /\ gens' = Append(gens, NewTurn(prompt))
  /\ registry' = Len(gens) + 1

(* The stream is of whatever turn is running: nothing says which was meant. *)
Follow(t, g) == conn' = [turn |-> t, gen |-> g]

(* Opening the stream starts a turn, or is refused because one is running, *)
(* which takes the pair back, loads the conversation and offers to stop    *)
(* the other one. *)
OpenStream(task) ==
  /\ task.kind = "open" /\ Succeeds
  /\ \/ /\ registry = 0
        /\ StartTurn(ui.turns[task.turn].prompt)
        /\ Follow(task.turn, Len(gens) + 1)
        /\ tasks' = Rest(task) /\ UNCHANGED ui
     \/ /\ registry # 0
        /\ ui' = [EndTurn(ui, task.turn) EXCEPT
                    !.streaming = FALSE, !.pairs = Others(@, task.turn), !.offersStop = TRUE]
        /\ StartLoad(Rest(task))
        /\ UNCHANGED <<gens, registry, conn>>
  /\ UNCHANGED <<history, changed>>

(* It fails: the turn may have been started all the same, which is asked   *)
(* when the error was the server's. *)
OpenFails(task) ==
  /\ task.kind = "open" /\ Fails
  /\ \/ UNCHANGED <<gens, registry>>
     \/ registry = 0 /\ StartTurn(ui.turns[task.turn].prompt)
  /\ \/ FailOpening(ui, task.turn, "failed", Rest(task))
     \/ tasks' = Rest(task) \cup {Task("attach", task.turn, 0)} /\ UNCHANGED ui
  /\ UNCHANGED <<history, changed, conn>>

(* A request for the stream is answered 401 in a browser that has already  *)
(* forgotten its session: the question is not kept. *)
Refused(task) ==
  /\ task.kind \in {"open", "resume"} /\ Fails
  /\ ui' = FailTurn(ui, task.turn, "refused")
  /\ tasks' = Rest(task)
  /\ UNCHANGED <<server, conn>>

(* attachIfItStarted *)
IsRunning(prompt) == registry # 0 /\ gens[registry].prompt = prompt

Attach(task) ==
  LET t == task.turn IN
  /\ task.kind = "attach"
  /\ \/ ~IsLive(ui, t) /\ Succeeds /\ tasks' = Rest(task) /\ UNCHANGED ui
     \/ /\ IsLive(ui, t) /\ Succeeds
        /\ IsRunning(ui.turns[t].prompt)
        /\ tasks' = Rest(task) \cup {Task("resume", t, 0)} /\ UNCHANGED ui
     \/ /\ IsLive(ui, t)
        /\ Fails \/ (Succeeds /\ ~IsRunning(ui.turns[t].prompt))
        /\ FailOpening(ui, t, "failed", Rest(task))
  /\ UNCHANGED <<server, conn>>

ResumeStream(task) ==
  /\ task.kind = "resume"
  /\ \/ /\ Succeeds /\ registry # 0
        /\ Follow(task.turn, registry)
        /\ tasks' = Rest(task) /\ UNCHANGED ui
     \/ /\ Succeeds /\ registry = 0
        /\ StartReconnect(ui, task.turn, 0, Rest(task)) /\ UNCHANGED conn
     \/ /\ Fails
        /\ FailOpening(ui, task.turn, "failed", Rest(task)) /\ UNCHANGED conn
  /\ UNCHANGED server

(* reconnect, once it is known whether a turn is running *)
Reconnected(task) ==
  LET t == task.turn IN
  /\ task.kind = "reconnect"
  /\ \/ ~IsLive(ui, t) /\ Succeeds /\ tasks' = Rest(task) /\ UNCHANGED ui
     \/ /\ IsLive(ui, t) /\ Succeeds
        /\ tasks' = Rest(task) \cup {Task(IF registry # 0 THEN "resume" ELSE "adoptLost", t, 0)}
        /\ UNCHANGED ui
     \/ /\ IsLive(ui, t) /\ Fails
        /\ IF task.n >= ReconnectRetries
           THEN ui' = GiveUp(ui, t, "failed") /\ tasks' = Rest(task)
           ELSE StartReconnect(ui, t, task.n + 1, Rest(task))
  /\ UNCHANGED <<server, conn>>

-----------------------------------------------------------------------------
(* The stream.                                                             *)

ReadDone ==
  /\ conn # NoConn
  /\ gens[conn.gen].phase = "finished"
  /\ ui' = [Marked(EndTurn(ui, conn.turn), conn.turn, "done")
              EXCEPT !.streaming = FALSE, !.unsaved = TRUE, !.kept = NoPrompt]
  /\ tasks' = tasks \cup {Task("adoptDone", conn.turn, 0)}
  /\ conn' = NoConn
  /\ UNCHANGED <<server, faults>>

ReadError ==
  /\ conn # NoConn
  /\ gens[conn.gen].phase = "failed"
  /\ FailOpening(ui, conn.turn, "failed", tasks)
  /\ conn' = NoConn
  /\ UNCHANGED <<server, faults>>

ConnectionLost ==
  /\ conn # NoConn
  /\ \/ gens[conn.gen].phase = "dead" /\ UNCHANGED faults
     \/ Fails
  /\ StartReconnect(ui, conn.turn, 0, tasks)
  /\ conn' = NoConn
  /\ UNCHANGED server

-----------------------------------------------------------------------------
(* The saved conversation. *)

(* adoptSavedTurn: the saved turn replaces the preview *)
Adopt(u, t, g) ==
  IF \E i \in DOMAIN u.pairs : u.pairs[i].turn = t
  THEN [u EXCEPT !.pairs = [i \in DOMAIN @ |-> IF @[i].turn = t
                                               THEN [@[i] EXCEPT !.mark = "saved", !.shows = g] ELSE @[i]],
                 !.streaming = FALSE, !.unsaved = FALSE]
  ELSE u

(* Asked after the turn was done, lost or stopped; asked again if the turn *)
(* is not there yet.  A lost turn that is not there is given up. *)
AdoptSavedTurn(task) ==
  LET t == task.turn IN
  /\ task.kind \in {"adoptDone", "adoptLost", "adoptStopped"}
  /\ \E reached \in BOOLEAN :
       LET found == reached /\ LastIs(history, ui.turns[t].prompt)
           after == IF found /\ IsCurrent(ui, t) THEN Adopt(ui, t, history[Len(history)].gen) ELSE ui
       IN
       /\ IF reached THEN Succeeds ELSE Fails
       /\ \/ /\ ~found /\ task.n < SavedTurnRetries /\ IsCurrent(ui, t)
             /\ tasks' = Rest(task) \cup {Task(task.kind, t, task.n + 1)}
             /\ UNCHANGED ui
          \/ /\ found \/ task.n >= SavedTurnRetries \/ ~IsCurrent(ui, t)
             /\ tasks' = Rest(task)
             /\ ui' = IF task.kind = "adoptLost" /\ IsLive(ui, t)
                      THEN IF found THEN EndTurn(after, t)
                           ELSE GiveUp(ui, t, IF reached THEN "lost" ELSE "failed")
                      ELSE after
  /\ UNCHANGED <<server, conn>>

StopArrives == gens' = IF registry # 0 /\ gens[registry].phase = "running"
                       THEN [gens EXCEPT ![registry].stopped = TRUE] ELSE gens

(* The stop is told to the server, whose answer makes the store look for   *)
(* the stopped turn among the saved ones; a failure is only logged. *)
StopOnServer(task) ==
  /\ task.kind = "stop"
  /\ \/ Succeeds /\ StopArrives /\ tasks' = Rest(task) \cup {Task("adoptStopped", task.turn, 0)}
     \/ Fails /\ tasks' = Rest(task) /\ UNCHANGED gens
  /\ UNCHANGED <<registry, history, changed, ui, conn>>

(* Another's turn is stopped, and the conversation is loaded. *)
StopOtherOnServer(task) ==
  /\ task.kind = "stopOther"
  /\ \/ Succeeds /\ StopArrives /\ IF ui.streaming THEN tasks' = Rest(task) ELSE StartLoad(Rest(task))
     \/ Fails /\ tasks' = Rest(task) /\ UNCHANGED gens
  /\ UNCHANGED <<registry, history, changed, ui, conn>>

(* A load asks whether a turn is running (an error counts as no), then     *)
(* what is saved, whatever has begun meanwhile.  The turn the first answer *)
(* named travels in the second request's turn field. *)
LoadActive(task) ==
  /\ task.kind = "load"
  /\ \E running \in {registry, 0} :
       /\ IF running = registry THEN Succeeds ELSE Fails
       /\ tasks' = Rest(task) \cup {Task("loadHistory", running, task.n)}
  /\ UNCHANGED <<server, ui, conn>>

ReadHistory(task) ==
  /\ task.kind = "loadHistory" /\ ~task.read
  /\ \/ Succeeds /\ tasks' = Rest(task) \cup {[task EXCEPT !.read = TRUE, !.saved = history]}
     \/ Fails /\ tasks' = Rest(task)
  /\ UNCHANGED <<server, ui, conn>>

RestoredFailedTurn(prompt) == [turn |-> 0, prompt |-> prompt, mark |-> "failed", shows |-> 0]

(* The running turn is resumed, unless it was saved between the two reads. *)
Resumes(active, saved) == active # 0 /\ ~ui.streaming /\ ~LastIs(saved, gens[active].prompt)

LoadHistory(task) ==
  LET active == task.turn
      saved  == task.saved
      msgs   == ToMessages(saved)
      known  == \E i \in DOMAIN saved : gens[saved[i].gen].prompt = ui.kept
      u      == IF active = 0 /\ known THEN [ui EXCEPT !.kept = NoPrompt] ELSE ui
  IN
  /\ task.read
  /\ \/ /\ Resumes(active, saved) /\ Len(ui.turns) < MaxTurns
        /\ ui' = [BeginTurn(ui, msgs, gens[active].prompt) EXCEPT !.unsaved = FALSE]
        /\ tasks' = Rest(task) \cup {Task("resume", Len(ui.turns) + 1, 0)}
     \/ /\ ~Resumes(active, saved) /\ active = 0 /\ ui.kept # NoPrompt /\ ~known
        /\ tasks' = Rest(task)
        /\ ui' = IF ui.streaming \/ Len(ui.pairs) > Len(saved) THEN ui
                 ELSE [ui EXCEPT !.pairs = Append(msgs, RestoredFailedTurn(ui.kept)), !.unsaved = FALSE]
     \/ /\ ~Resumes(active, saved) /\ (active # 0 \/ ui.kept = NoPrompt \/ known)
        /\ tasks' = Rest(task)
        /\ ui' = IF u.streaming \/ (u.unsaved /\ ~HasCaughtUp(saved, u)) THEN u
                 ELSE [u EXCEPT !.pairs = msgs, !.unsaved = FALSE]
  /\ UNCHANGED <<server, conn, faults>>

Browser == \E task \in tasks :
  \/ OpenStream(task) \/ OpenFails(task) \/ Refused(task) \/ Attach(task)
  \/ ResumeStream(task) \/ Reconnected(task) \/ AdoptSavedTurn(task)
  \/ StopOnServer(task) \/ StopOtherOnServer(task)
  \/ LoadActive(task) \/ ReadHistory(task) \/ LoadHistory(task)

-----------------------------------------------------------------------------
(* The person.                                                             *)

(* The composer offers to send whenever nothing is streaming, and to stop  *)
(* while something is. *)
SendOffered == ~ui.streaming
StopOffered == ui.streaming

(* sendMessage *)
Send(prompt) ==
  /\ SendOffered
  /\ gens = <<>> => prompt = FirstPrompt
  /\ Len(ui.turns) < MaxTurns /\ Len(gens) < MaxTurns
  /\ ui' = [BeginTurn(ui, ui.pairs, prompt) EXCEPT !.kept = NoPrompt]
  /\ tasks' = tasks \cup {Task("open", Len(ui.turns) + 1, 0)}
  /\ UNCHANGED <<server, conn, faults>>

CanRetry ==
  ui.pairs # <<>> /\ ui.pairs[Len(ui.pairs)].mark \in {"failed", "refused", "lost", "stopped", "saved"}

RetryLast == CanRetry /\ Send(ui.pairs[Len(ui.pairs)].prompt)

(* stopStreaming.  Its stream is aborted; an open that is under way is     *)
(* dropped, or has just started the turn.                                  *)
Stop ==
  LET t == ui.inProgress
      mine == {task \in tasks : task.turn = t /\ task.kind \in {"open", "resume"}}
  IN
  /\ StopOffered /\ t # 0
  /\ ui' = [ui EXCEPT !.turns[t].stopped = TRUE, !.inProgress = 0, !.streaming = FALSE, !.kept = NoPrompt,
                      !.pairs[Len(ui.pairs)].mark = "stopped"]
  /\ conn' = NoConn
  /\ tasks' = (tasks \ mine) \cup {Task("stop", t, 0)}
  /\ \/ UNCHANGED <<gens, registry>>
     \/ /\ \E task \in mine : task.kind = "open"
        /\ registry = 0
        /\ StartTurn(ui.turns[t].prompt)
  /\ UNCHANGED <<history, changed, faults>>

(* "Stop it", offered with the word that another turn is in progress *)
StopTheOther ==
  /\ ui.offersStop
  /\ Task("stopOther", 0, 0) \notin tasks
  /\ ui' = [ui EXCEPT !.offersStop = FALSE]
  /\ tasks' = tasks \cup {Task("stopOther", 0, 0)}
  /\ UNCHANGED <<server, conn, faults>>

(* The page of the project is opened, or its failed load tried again. *)
Visit ==
  /\ ~ui.streaming /\ Cardinality(tasks) < MaxRequests
  /\ StartLoad(tasks)
  /\ UNCHANGED <<server, ui, conn, faults>>

(* The page is loaded again, which leaves what the browser's storage kept; *)
(* or the session ends, by the person or by a request answered 401, which  *)
(* clears that too.  What was on its way may have arrived.                 *)
LeavePage ==
  /\ Fails
  /\ \E kept \in {ui.kept, NoPrompt} : ui' = [InitialUi EXCEPT !.kept = kept]
  /\ conn' = NoConn /\ tasks' = {}
  /\ \/ UNCHANGED <<gens, registry>>
     \/ \E task \in tasks : task.kind = "open" /\ registry = 0 /\ StartTurn(ui.turns[task.turn].prompt)
     \/ \E task \in tasks : task.kind \in {"stop", "stopOther"} /\ StopArrives /\ UNCHANGED registry
  /\ UNCHANGED <<history, changed>>

Stream == ReadDone \/ ReadError \/ ConnectionLost

Faults == Restart \/ \E g \in DOMAIN gens : CannotSave(g)

Person == (\E prompt \in Prompts : Send(prompt)) \/ RetryLast \/ Stop \/ StopTheOther \/ Visit \/ LeavePage

Next == ServerStep \/ Stream \/ Browser \/ Faults \/ Person

(***************************************************************************)
(* Fairness: the server carries a turn to its end (its model calls have    *)
(* timeouts), every request settles and what the stream holds is read.     *)
(* Nothing obliges the person or a fault to act.                           *)
(***************************************************************************)
Fairness == WF_vars(ServerStep) /\ WF_vars(Stream) /\ WF_vars(Browser)

Spec == Init /\ [][Next]_vars /\ Fairness

-----------------------------------------------------------------------------
ChatTypeOK ==
  /\ ui.pairs \in Seq(Pair)
  /\ ui.kept \in Prompts \cup {NoPrompt}
  /\ registry \in 0..Len(gens)
  /\ conn = NoConn \/ (conn.turn \in DOMAIN ui.turns /\ conn.gen \in DOMAIN gens)
  /\ \A task \in tasks : task.kind \in Kinds

(* Only the newest turn is ever followed, and by one stream: a stream, or  *)
(* a request that may open one, belongs to the turn in progress.           *)
OnlyTheTurnInProgressIsFollowed ==
  /\ conn # NoConn => conn.turn = ui.inProgress /\ ~\E task \in tasks : task.kind \in {"open", "resume"}
  /\ Cardinality({task \in tasks : task.kind \in {"open", "resume"}}) =< 1
  /\ \A task \in tasks : task.kind \in {"open", "resume"} => task.turn = ui.inProgress

(* When the person is told that a turn was lost ("interrupted before it    *)
(* could be saved, so nothing was changed"), no turn is being carried on   *)
(* and the saved conversation does not end with an answer to it.  Files    *)
(* were changed for that question all the same only by a turn that was cut *)
(* short while it was saved, after its files, or that is saved but no      *)
(* longer last.                                                            *)
LostIsNotSaved == [][
  \A i \in DOMAIN ui'.pairs :
    (ui'.pairs[i].mark = "lost" /\ ~(i \in DOMAIN ui.pairs /\ ui.pairs[i].mark = "lost")) =>
      /\ \A g \in DOMAIN gens : gens[g].phase \notin UnderWay
      /\ ~LastIs(history, ui'.pairs[i].prompt)
      /\ \A g \in changed : gens[g].prompt = ui'.pairs[i].prompt =>
            gens[g].cut \/ \E k \in 1..(Len(history) - 1) : history[k].gen = g]_vars

(* A saved turn that stands under a question answers that question. *)
AnswersItsQuestion ==
  \A i \in DOMAIN ui.pairs :
    ui.pairs[i].shows # 0 =>
      gens[ui.pairs[i].shows].prompt = ui.pairs[i].prompt

(* When the newest turn failed, its question is not lost with the page: it *)
(* is kept in this browser, or is in the saved conversation.  One answered *)
(* 401 is not kept, and is marked "refused" here.                          *)
FailedPromptIsKept ==
  LET newest == ui.pairs[Len(ui.pairs)] IN
  (ui.pairs # <<>> /\ newest.turn = ui.latest /\ newest.mark \in {"failed", "lost"}) =>
    \/ ui.kept = newest.prompt
    \/ \E i \in DOMAIN history : gens[history[i].gen].prompt = newest.prompt

(* However its connection and its server fare, a turn stops being shown as *)
(* running.                                                                *)
StreamingEnds == ui.streaming ~> ~ui.streaming
=============================================================================
