---------------------------- MODULE PublishedApp ----------------------------
(***************************************************************************)
(* How the preview proxy serves one published app from storage             *)
(* (published-server.js, the rules of published.js, the client of s3.js).  *)
(*                                                                         *)
(* Storage holds a pointer object that names the live build, and the files *)
(* of the builds.  The proxy remembers the pointer for a while, and the    *)
(* requests being answered share what it remembers: each waits on storage, *)
(* and in between the app is updated, taken down or swept.                 *)
(* Files are told apart only by how a path finds them.                     *)
(***************************************************************************)
EXTENDS Naturals, Sequences

CONSTANTS
  Visits,       \* the requests being answered
  PointerTtl,   \* POINTER_TTL_MS
  MissingTtl,   \* MISSING_TTL_MS
  MinReread,    \* MIN_POINTER_AGE_FOR_REREAD_MS
  Wait,         \* bound: how long storage takes to read the pointer
  MaxBuilds,    \* bound: builds published
  MaxNow        \* bound: the clock

VARIABLES
  current,      \* storage: the build the pointer names, or 0
  sites,        \* storage: the builds whose files are there
  remembered,   \* the proxy's pointers map, for this app
  visits,
  now,
  lastTrue      \* history variable: when the pointer last named each build

publishedVars == <<current, sites, remembered, visits, now, lastTrue>>

Builds == 1..MaxBuilds

NotPublished == 0
Nothing == [value |-> NotPublished, expires |-> 0, at |-> 0]

(* A host is an app's when its label is a name that can be published: not  *)
(* reserved, not too short, and not a preview's.                           *)
HostKinds == {"app", "preview", "reserved", "elsewhere"}
PublishedSlug(host) == host = "app"

(* A path is refused, or is the root, a file's, a folder's or a route's.   *)
PathKinds == {"refused", "root", "file", "folder", "route"}

CandidatesFor(path) ==
  CASE path = "root"   -> <<"index">>
    [] path = "file"   -> <<"file">>
    [] path = "folder" -> <<"folder", "index">>
    [] path = "route"  -> <<"route", "html", "folder", "index">>

(* Every build holds its front page; this app's builds hold nothing else.  *)
FindsPage(path) == path # "refused" /\ \E i \in DOMAIN CandidatesFor(path) : CandidatesFor(path)[i] = "index"

Idle == [phase |-> "idle", page |-> FALSE, began |-> 0, asked |-> 0, value |-> NotPublished,
         age |-> 0, tried |-> 0, fresh |-> FALSE, answer |-> "none"]

PublishedInit ==
  /\ current = 0 /\ sites = {}
  /\ remembered = Nothing
  /\ visits = [v \in Visits |-> Idle]
  /\ now = 0
  /\ lastTrue = [b \in {0} \cup Builds |-> 0]

-----------------------------------------------------------------------------
(* Storage, as workspace-service changes it.                               *)

(* The pointer is written after the build's files are there. *)
PublishBuild ==
  \E b \in Builds :
    /\ \A c \in Builds : c < b => lastTrue[c] > 0
    /\ lastTrue[b] = 0 /\ now > 0
    /\ current' = b
    /\ sites' = sites \cup {b}
    /\ lastTrue' = [lastTrue EXCEPT ![b] = now, ![current] = now]
    /\ UNCHANGED <<remembered, visits, now>>

TakeDown ==
  /\ current # 0
  /\ current' = 0
  /\ lastTrue' = [lastTrue EXCEPT ![0] = now, ![current] = now]
  /\ UNCHANGED <<sites, remembered, visits, now>>

(* The sweeper deletes the builds that are not live. *)
SweepBuild(b) ==
  /\ b \in sites /\ b # current
  /\ sites' = sites \ {b}
  /\ UNCHANGED <<current, remembered, visits, now, lastTrue>>

(* Storage reads the pointer within Wait of being asked. *)
Passes ==
  /\ now < MaxNow
  /\ \A v \in Visits : visits[v].phase \in {"asking", "asked"} => now < visits[v].asked + Wait
  /\ now' = now + 1
  /\ lastTrue' = [lastTrue EXCEPT ![current] = now + 1]
  /\ UNCHANGED <<current, sites, remembered, visits>>

-----------------------------------------------------------------------------
(* The handler.                                                            *)

\* Mutant: what storage said is remembered from when it expires.
RememberLonger(value, ttl) == [value |-> value, expires |-> now + 2 * ttl + 1, at |-> now]

Remember(value, ttl) == [value |-> value, expires |-> now + ttl, at |-> now]

Answer(visit, answer) == [visit EXCEPT !.phase = "answered", !.answer = answer]

(* The pointer is known: an app that is not published is answered at once, *)
(* otherwise its files are tried; the pointer's age is taken here.         *)
WithPointer(visit, value, at) ==
  IF value = NotPublished
  THEN Answer(visit, "notPublished")
  ELSE [visit EXCEPT !.phase = "fetching", !.value = value, !.age = now - at, !.tried = 0]

Ask(visit, fresh) == [visit EXCEPT !.phase = "asking", !.asked = now, !.fresh = fresh]

(* A request other than GET and HEAD, or for a refused path, asks nothing. *)
Handle(v, host, path) ==
  /\ visits[v].phase = "idle" /\ now > 0
  /\ PublishedSlug(host)
  /\ visits' = [visits EXCEPT ![v] =
       LET visit == [Idle EXCEPT !.page = FindsPage(path), !.began = now] IN
       IF path = "refused" THEN Answer(visit, "badRequest")
       ELSE IF remembered.expires > now THEN WithPointer(visit, remembered.value, remembered.at)
       ELSE Ask(visit, FALSE)]
  /\ UNCHANGED <<current, sites, remembered, now, lastTrue>>

(* Storage reads the pointer, or cannot be reached. *)
ReadPointer(v) ==
  /\ visits[v].phase = "asking"
  /\ \/ visits' = [visits EXCEPT ![v].phase = "asked", ![v].value = current]
     \/ visits' = [visits EXCEPT ![v].phase = "unreached"]
  /\ UNCHANGED <<current, sites, remembered, now, lastTrue>>

(* How long an answer of storage is remembered.                            *)
TtlOf(value) == IF value = NotPublished THEN MissingTtl ELSE PointerTtl

(* pointerFor and what handle makes of it: an answer is remembered, also   *)
(* that there is none; a failure is not.                                   *)
PointerFor(v) ==
  LET visit == visits[v] IN
  /\ visit.phase \in {"asked", "unreached"}
  /\ remembered' = IF visit.phase = "unreached" THEN remembered
                   ELSE Remember(visit.value, TtlOf(visit.value))
  /\ visits' = [visits EXCEPT ![v] =
       IF visit.phase = "unreached" THEN Answer(visit, IF visit.fresh THEN "notFound" ELSE "unavailable")
       ELSE IF visit.fresh /\ visit.value = visit.tried THEN Answer(visit, "notFound")
       ELSE WithPointer(visit, visit.value, now)]
  /\ UNCHANGED <<current, sites, now, lastTrue>>

(* fetchFirst, and the pointer is read again, once, when nothing was found *)
(* by one that is not new.                                                 *)
\* Mutant: whatever was not found is a missing file.
RereadsNever(visit) == FALSE

Rereads(visit) == ~visit.fresh /\ visit.age > MinReread

FetchFirst(v) ==
  LET visit == visits[v]
      found == visit.page /\ visit.value \in sites
  IN
  /\ visit.phase = "fetching"
  /\ \/ visits' = [visits EXCEPT ![v] =
          IF found THEN Answer(visit, "page")
          ELSE IF Rereads(visit) THEN [Ask(visit, TRUE) EXCEPT !.tried = visit.value]
          ELSE Answer(visit, "notFound")]
     \/ visits' = [visits EXCEPT ![v] = Answer(visit, "unavailable")]
  /\ UNCHANGED <<current, sites, remembered, now, lastTrue>>

(* send: the page goes out with the mark added, or as storage sends it. *)
Sent(v) ==
  /\ visits[v].phase = "answered"
  /\ visits' = [visits EXCEPT ![v] = Idle]
  /\ UNCHANGED <<current, sites, remembered, now, lastTrue>>

(* The map of pointers is full, and is cleared. *)
Cleared ==
  /\ remembered # Nothing
  /\ remembered' = Nothing
  /\ UNCHANGED <<current, sites, visits, now, lastTrue>>

PublishedNext ==
  \/ PublishBuild \/ TakeDown \/ Passes \/ Cleared
  \/ \E b \in Builds : SweepBuild(b)
  \/ \E v \in Visits :
       \/ \E host \in HostKinds, path \in PathKinds : Handle(v, host, path)
       \/ ReadPointer(v) \/ PointerFor(v) \/ FetchFirst(v) \/ Sent(v)

PublishedSpec == PublishedInit /\ [][PublishedNext]_publishedVars

-----------------------------------------------------------------------------
PublishedTypeOK ==
  /\ current \in {0} \cup Builds /\ sites \subseteq Builds
  /\ remembered.value \in {0} \cup Builds
  /\ \A v \in Visits : visits[v].value \in {0} \cup Builds /\ visits[v].page \in BOOLEAN

(* What an answer says was so a moment before the request at the earliest: *)
(* an app that was taken down, or updated, is not served from what is      *)
(* remembered for longer than the pointer is kept, however slow storage    *)
(* was when it was read; and one that was published is not missing for     *)
(* longer than its absence is.                                             *)
AnswersAreRecent ==
  \A v \in Visits :
    LET visit == visits[v]
        said  == IF visit.answer = "notPublished" THEN NotPublished ELSE visit.value
    IN (visit.phase = "answered" /\ visit.answer \in {"page", "notPublished"}) =>
         lastTrue[said] + TtlOf(said) + Wait >= visit.began

(* An update is not an outage: a page is only missing for want of its      *)
(* build when the pointer moved around the time the request began, not for *)
(* as long as the old pointer is remembered.  (A reread that cannot reach  *)
(* storage, "tried", says missing too.)                                    *)
UpdateIsNoOutage ==
  \A v \in Visits :
    LET visit == visits[v] IN
    (visit.phase = "answered" /\ visit.answer = "notFound" /\ visit.page /\ visit.tried = 0) =>
      lastTrue[visit.value] + MinReread + Wait >= visit.began
=============================================================================
