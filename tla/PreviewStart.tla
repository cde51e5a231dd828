----------------------------- MODULE PreviewStart -----------------------------
(***************************************************************************)
(* Starting and stopping a person's preview from the Preview tab: the      *)
(* buttons, the start by itself after an idle stop, the tries again after  *)
(* a failure of the platform, the start that a build asks for              *)
(* (PreviewPanel.tsx, preview.ts, use-preview.ts, ProjectView.tsx).        *)
(*                                                                         *)
(* The server's session of the preview goes its own way, and the tab acts  *)
(* on its copy of it, which is as old as its last answer.                  *)
(***************************************************************************)
EXTENDS Naturals, FiniteSets

CONSTANTS
  MaxRetries,    \* the length of AUTO_RETRY_DELAYS_MS
  MaxSessions    \* bound: sessions the server opens

VARIABLES
  session,    \* the server's last session: its number, status and why it ended
  limited,    \* another preview of the person takes up the plan's limit
  copy,       \* the tab's copy of the session
  panel,      \* PreviewPanel's state
  requests,   \* its requests, under way or answered
  wish        \* history variable: whether the person's last word was Stop

startVars == <<session, limited, copy, panel, requests, wish>>

NoSession == [n |-> 0, status |-> "none", detail |-> "none"]
FreshPanel == [visible |-> FALSE, stoppedByUser |-> FALSE, lastAutoStart |-> 0, retries |-> 0,
               startError |-> "none"]

Active(s) == s.status \in {"CREATING", "RUNNING"}
Ended(detail) == [session EXCEPT !.status = "TERMINATED", !.detail = detail]

StartInit ==
  /\ \/ session = NoSession
     \/ session = [n |-> 1, status |-> "RUNNING", detail |-> "none"]
     \/ session = [n |-> 1, status |-> "TERMINATED", detail |-> "idle"]
  /\ limited \in BOOLEAN
  /\ copy = [NoSession EXCEPT !.status = "unknown"] /\ panel = FreshPanel /\ requests = {} /\ wish = "run"

-----------------------------------------------------------------------------
(* The server.                                                             *)

Opened == [n |-> session.n + 1, status |-> "CREATING", detail |-> "none"]

SessionGoesOn ==
  /\ \/ session.status = "CREATING" /\ session' = [session EXCEPT !.status = "RUNNING"]
     \/ /\ session.status = "CREATING"
        /\ \E cause \in {"project", "platform"} :
             session' = [session EXCEPT !.status = "FAILED", !.detail = cause]
     \/ session.status = "RUNNING" /\ session' = Ended("idle")
  /\ UNCHANGED <<limited, copy, panel, requests, wish>>

(* A request is carried out, is refused, or fails; one that fails may have *)
(* been carried out.  A restart of what is not running is a start. *)
CarriedOut(what) ==
  CASE what = "stop"                             -> IF Active(session) THEN Ended("Stopped") ELSE session
    [] what = "start" /\ Active(session)         -> session
    [] what = "restart" /\ session.status = "RUNNING" -> [session EXCEPT !.status = "CREATING"]
    [] what = "restart" /\ Active(session)       -> session
    [] OTHER                                     -> Opened

Refuses(what) == what # "stop" /\ ~Active(session) /\ limited

ServerAnswers(r) ==
  /\ r \in requests /\ r.answer = "none"
  /\ \E answer \in {"ok", "limit", "lost"} :
       /\ \/ /\ answer \in {"ok", "lost"} /\ ~Refuses(r.what)
             /\ session' = CarriedOut(r.what) /\ session'.n =< MaxSessions
          \/ answer = "limit" /\ Refuses(r.what) /\ UNCHANGED session
          \/ answer = "lost" /\ UNCHANGED session
       /\ requests' = (requests \ {r}) \cup {[r EXCEPT !.answer = answer, !.got = session']}
  /\ UNCHANGED <<limited, copy, panel, wish>>

-----------------------------------------------------------------------------
(* useProjectPreview: what is pending, and what the answers do.            *)

Pending(what) == \E r \in requests : r.what = what
IsStarting == Pending("start") \/ Pending("restart")

Request(what, by) ==
  [what |-> what, by |-> by, over |-> wish = "stop" /\ session.detail = "Stopped",
   answer |-> "none", got |-> NoSession]

StartAnswered(r) ==
  /\ r \in requests /\ r.answer # "none"
  /\ requests' = requests \ {r}
  /\ copy' = IF r.answer # "ok" THEN copy ELSE IF r.what = "stop" THEN session ELSE r.got
  /\ panel' = IF r.answer # "ok" /\ r.what # "stop" THEN [panel EXCEPT !.startError = r.answer]
              ELSE IF copy'.status = "RUNNING" THEN [panel EXCEPT !.retries = 0]
              ELSE panel
  /\ UNCHANGED <<session, limited, wish>>

Asked ==
  /\ copy # session
  /\ copy' = session
  /\ panel' = IF session.status = "RUNNING" THEN [panel EXCEPT !.retries = 0] ELSE panel
  /\ UNCHANGED <<session, limited, requests, wish>>

-----------------------------------------------------------------------------
(* What the panel does by itself.                                          *)

IsLoaded == copy.status # "unknown"

\* Mutant: a preview is started again however it ended.
ShouldAutoStartAnyway ==
  panel.visible /\ IsLoaded /\ ~panel.stoppedByUser /\ copy.status = "TERMINATED" /\ panel.lastAutoStart # copy.n

ShouldAutoStart ==
  /\ panel.visible /\ IsLoaded /\ ~panel.stoppedByUser
  /\ copy.status = "TERMINATED"
  /\ copy.detail # "Stopped"
  /\ panel.lastAutoStart # copy.n

AutoStart ==
  /\ ~IsStarting /\ panel.startError = "none"
  /\ ShouldAutoStart
  /\ panel' = [panel EXCEPT !.lastAutoStart = copy.n]
  /\ requests' = requests \cup {Request("start", "tab")}
  /\ UNCHANGED <<session, limited, copy, wish>>

(* A failure: of the start that was asked for, or of the session. *)
Failure ==
  IF Active(copy) THEN "none"
  ELSE IF panel.startError # "none" THEN panel.startError
  ELSE IF copy.status = "FAILED" THEN copy.detail
  ELSE "none"

(* autoRetryDelay: only what is the platform's is tried again. *)
Retries ==
  /\ panel.visible /\ ~IsStarting /\ ~panel.stoppedByUser
  /\ Failure \in {"lost", "platform"}
  /\ panel.retries < MaxRetries

AutoRetry ==
  /\ Retries
  /\ panel' = [panel EXCEPT !.retries = @ + 1, !.startError = "none"]
  /\ requests' = requests \cup {Request("start", "tab")}
  /\ UNCHANGED <<session, limited, copy, wish>>

(* A response was asked for: shouldStartPreviewForBuild. *)
ShouldStartForBuild ==
  /\ IsLoaded /\ ~IsStarting
  /\ ~Active(copy)
  /\ copy.detail # "Stopped"

StartForBuild ==
  /\ ShouldStartForBuild
  /\ requests' = requests \cup {Request("start", "build")}
  /\ panel' = [panel EXCEPT !.startError = "none"]
  /\ UNCHANGED <<session, limited, copy, wish>>

-----------------------------------------------------------------------------
(* What the panel shows, and what the person does with it.                 *)

IsRecovering == Retries \/ (IsStarting /\ panel.retries > 0 /\ ~Active(copy))

Body ==
  IF IsRecovering THEN "starting"
  ELSE IF panel.startError # "none" /\ ~Active(copy) THEN "start error"
  ELSE IF ~IsLoaded \/ (IsStarting /\ copy.status = "none") THEN "starting"
  ELSE IF copy.status = "CREATING" THEN "starting"
  ELSE IF copy.status = "RUNNING" THEN "frame"
  ELSE IF copy.status = "FAILED" THEN "failed"
  ELSE "stopped"

StartOffered == Body \in {"start error", "failed"} \/ (Body = "stopped" /\ ~IsStarting)
RestartOffered == copy.status = "RUNNING" /\ ~IsStarting
PreviewStopOffered == Active(copy) /\ ~Pending("stop")

(* At the plan's limit the other preview is stopped first: stopAndRetry. *)
HandleStart ==
  /\ panel.visible /\ StartOffered /\ ~Pending("start")
  /\ limited' = (limited /\ ~(Body = "start error" /\ panel.startError = "limit"))
  /\ panel' = [panel EXCEPT !.startError = "none", !.retries = 0, !.stoppedByUser = FALSE]
  /\ requests' = requests \cup {Request("start", "person")}
  /\ wish' = "run"
  /\ UNCHANGED <<session, copy>>

HandleRestart ==
  /\ panel.visible /\ RestartOffered
  /\ panel' = [panel EXCEPT !.startError = "none"]
  /\ requests' = requests \cup {Request("restart", "person")}
  /\ wish' = "run"
  /\ UNCHANGED <<session, limited, copy>>

HandleStop ==
  /\ panel.visible /\ PreviewStopOffered
  /\ panel' = [panel EXCEPT !.stoppedByUser = TRUE]
  /\ requests' = requests \cup {Request("stop", "person")}
  /\ wish' = "stop"
  /\ UNCHANGED <<session, limited, copy>>

SwitchView ==
  /\ panel' = [panel EXCEPT !.visible = ~@]
  /\ UNCHANGED <<session, limited, copy, requests, wish>>

(* The page is loaded again, and knows nothing of what was pressed; what   *)
(* it had asked may still be carried out. *)
PageLoads ==
  /\ panel' = FreshPanel /\ copy' = [NoSession EXCEPT !.status = "unknown"]
  /\ \E carriedOut \in SUBSET {r \in requests : r.answer = "none"} :
       /\ Cardinality(carriedOut) =< 1
       /\ session' = IF carriedOut = {} THEN session ELSE CarriedOut((CHOOSE r \in carriedOut : TRUE).what)
       /\ session'.n =< MaxSessions
  /\ requests' = {}
  /\ wish' = IF session'.detail = "Stopped" THEN wish ELSE "run"
  /\ UNCHANGED limited

StartNext ==
  \/ SessionGoesOn \/ Asked \/ AutoStart \/ AutoRetry \/ StartForBuild
  \/ \E r \in requests : ServerAnswers(r) \/ StartAnswered(r)
  \/ HandleStart \/ HandleRestart \/ HandleStop \/ SwitchView \/ PageLoads

StartSpec == StartInit /\ [][StartNext]_startVars

-----------------------------------------------------------------------------
StartTypeOK ==
  /\ session.n \in 0..MaxSessions /\ copy.n \in 0..MaxSessions
  /\ panel.retries \in 0..MaxRetries
  /\ wish \in {"run", "stop"}

(* A stop the person pressed stands until they ask for the preview again:  *)
(* the tab does not start it by itself, also after a reload, when only the *)
(* server knows of the stop.  (A build that is sent while the Stop is      *)
(* overtaking an idle end, which the tab was told of, still starts it.) *)
StopStands == \A r \in requests : r.by = "tab" => ~r.over
-----------------------------------------------------------------------------
(* What the theorem about StopStands rests on: the panel knows of the Stop *)
(* the person pressed, or its page was loaded again when the Stop had been *)
(* carried out, nothing is under way, and all it can learn is the Stop.    *)
Sessions ==
  [n : Nat, status : {"none", "unknown", "CREATING", "RUNNING", "FAILED", "TERMINATED"},
   detail : {"none", "idle", "Stopped", "project", "platform"}]

Panels ==
  [visible : BOOLEAN, stoppedByUser : BOOLEAN, lastAutoStart : Nat, retries : Nat,
   startError : {"none", "limit", "lost"}]

StartRequests ==
  [what : {"start", "restart", "stop"}, by : {"tab", "build", "person"}, over : BOOLEAN,
   answer : {"none", "ok", "limit", "lost"}, got : Sessions]

KnowsOfStop ==
  wish = "stop" =>
    \/ panel.stoppedByUser = TRUE
    \/ /\ session.detail = "Stopped" /\ requests = {} /\ panel.startError = "none"
       /\ copy = session \/ copy.status = "unknown"

StartInvariant ==
  /\ session \in Sessions /\ copy \in Sessions /\ panel \in Panels
  /\ requests \subseteq StartRequests
  /\ session.detail = "Stopped" => session.status = "TERMINATED"
  /\ Active(session) => session.detail = "none"
  /\ KnowsOfStop
  /\ StopStands
=============================================================================
