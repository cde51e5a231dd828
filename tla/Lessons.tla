------------------------------- MODULE Lessons -------------------------------
(***************************************************************************)
(* What teaching mode writes on demand (lesson-store.ts): a step's lesson, *)
(* a turn's big picture, a task and the check of it, the project's tour, a *)
(* word of the glossary; and the panel and the cards that ask for them     *)
(* (LearnPanel.tsx, learn-panel-store.ts, ChatEventRenderer.tsx).          *)
(*                                                                         *)
(* Every request spends the person's allowance, unless the server has kept *)
(* what it asks for.                                                    *)
(***************************************************************************)
EXTENDS Naturals, FiniteSets

CONSTANTS
  Writings,      \* the things that can be asked for
  Repeatable,    \* those that are asked for again on purpose: the tour, the check
  Words,         \* the glossary's words
  MaxRequests    \* bound

VARIABLES
  written,    \* the store: what it has of each writing
  lessonAsks,       \* requests being answered: one for each stream
  keptText,   \* what the server keeps
  copied,     \* what of that came with the conversation, or with a query
  learn,      \* the cards and the panel: which are open
  requested   \* bound; numbers the requests

lessonVars == <<written, lessonAsks, keptText, copied, learn, requested>>

LessonsInit ==
  /\ written = [k \in Writings |-> "none"]
  /\ lessonAsks = {} /\ keptText \in {{}, Words} /\ copied = keptText /\ learn = {} /\ requested = 0

(* What is shown of it: what was written here, or what came saved. *)
Shown(k) == IF written[k] # "none" THEN written[k] ELSE IF k \in copied THEN "done" ELSE "none"

(* Asked for unless it is being written, or was written and is not asked   *)
(* for again. *)
RequestWriting(k, again) ==
  IF written[k] = "loading" \/ (written[k] = "done" /\ ~again)
  THEN UNCHANGED <<written, lessonAsks, requested>>
  ELSE /\ requested < MaxRequests
       /\ requested' = requested + 1
       /\ lessonAsks' = lessonAsks \cup {[key |-> k, n |-> requested']}
       /\ written' = [written EXCEPT ![k] = "loading"]

-----------------------------------------------------------------------------
(* The cards and the panel. *)

(* Opening a step's lesson, or a big picture, asks for what was not saved. *)
OpenCard(k) ==
  /\ k \notin learn /\ k \notin Words
  /\ learn' = learn \cup {k}
  /\ IF Shown(k) = "none" \/ (k \notin copied /\ k \notin Repeatable) THEN RequestWriting(k, FALSE)
     ELSE UNCHANGED <<written, lessonAsks, requested>>
  /\ UNCHANGED <<keptText, copied>>

CloseCard(k) ==
  /\ k \in learn
  /\ learn' = learn \ {k}
  /\ UNCHANGED <<written, lessonAsks, keptText, copied, requested>>

(* Write it again, check again, try again. *)
AskAgainOffered(k) == k \in learn /\ Shown(k) # "loading" /\ (k \in Repeatable \/ Shown(k) = "error")
AskAgain(k) ==
  /\ AskAgainOffered(k)
  /\ RequestWriting(k, k \in Repeatable)
  /\ UNCHANGED <<keptText, copied, learn>>

(* A word pressed anywhere is asked for, and the glossary opens on it; a   *)
(* word of the list is only shown. *)
OpenTerm(w) ==
  /\ RequestWriting(w, FALSE)
  /\ learn' = (learn \ Words) \cup {w}
  /\ UNCHANGED <<keptText, copied>>

SelectTerm(w) ==
  /\ w \in copied \ learn
  /\ learn' = (learn \ Words) \cup {w}
  /\ UNCHANGED <<written, lessonAsks, keptText, copied, requested>>

\* Mutant: a word is forgotten although it is being written.
ForgetAlways(w) == written' = [written EXCEPT ![w] = "none"]

Forget(w) == written' = IF written[w] = "loading" THEN written ELSE [written EXCEPT ![w] = "none"]

(* A word is removed from the glossary on the server, then here. *)
RemoveWord(w) ==
  /\ w \in learn \cap copied
  /\ keptText' = keptText \ {w} /\ copied' = copied \ {w}
  /\ Forget(w)
  /\ learn' = learn \ {w}
  /\ UNCHANGED <<lessonAsks, requested>>

-----------------------------------------------------------------------------
(* The answers. *)

(* The server keeps what it wrote to the end, but for a check. *)
Keeps(k) == IF k \in Repeatable THEN keptText ELSE keptText \cup {k}

(* A stream ends: with its text, with nothing or with an error; the server *)
(* may have kept what the browser did not see the end of. *)
AskAnswered(a) ==
  /\ a \in lessonAsks
  /\ lessonAsks' = lessonAsks \ {a}
  /\ \E how \in {"done", "error"} : written' = [written EXCEPT ![a.key] = how]
  /\ keptText' \in {keptText, Keeps(a.key)}
  /\ written'[a.key] = "done" => keptText' = Keeps(a.key)
  /\ UNCHANGED <<copied, learn, requested>>

(* The conversation, the tour or the glossary is read again. *)
ReadKept ==
  /\ copied # keptText
  /\ copied' = keptText
  /\ UNCHANGED <<written, lessonAsks, keptText, learn, requested>>

LessonsNext ==
  \/ \E k \in Writings : OpenCard(k) \/ CloseCard(k) \/ AskAgain(k)
  \/ \E w \in Words : OpenTerm(w) \/ SelectTerm(w) \/ RemoveWord(w)
  \/ \E a \in lessonAsks : AskAnswered(a)
  \/ ReadKept

LessonsSpec == LessonsInit /\ [][LessonsNext]_lessonVars

-----------------------------------------------------------------------------
LessonsTypeOK ==
  /\ written \in [Writings -> {"none", "loading", "done", "error"}]
  /\ {a.key : a \in lessonAsks} \subseteq Writings
  /\ copied \cup keptText \cup learn \subseteq Writings

(* However it is opened, closed, asked for again, removed and asked for    *)
(* once more, nothing is being written twice at a time: one request for    *)
(* each, and two streams never fill one text. *)
AskedOnce == \A a, b \in lessonAsks : a.key = b.key => a = b

-----------------------------------------------------------------------------
(* Why it does. *)

(* What is asked for is being written, so it is not asked for again. *)
AsksWrite == \A a \in lessonAsks : a.key \in Writings /\ written[a.key] = "loading"

LessonsInvariant ==
  /\ written = [k \in Writings |-> written[k]]
  /\ AsksWrite /\ AskedOnce
=============================================================================
