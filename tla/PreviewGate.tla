----------------------------- MODULE PreviewGate -----------------------------
(***************************************************************************)
(* How the preview proxy lets a person reach a running preview (index.js,  *)
(* auth.js, routing.js): the route of a hostname is looked up in Redis, a  *)
(* token in the link is exchanged for a cookie, and every later request is *)
(* judged by the cookie alone.  Nothing tells the proxy that a person was  *)
(* removed from a project.                                                 *)
(***************************************************************************)
EXTENDS Naturals, FiniteSets

CONSTANTS
  Hosts,       \* preview hostnames
  TokenTtl,    \* preview.access-token-ttl
  SeenEvery,   \* SEEN_WRITE_EVERY_MS
  MaxTracked,  \* MAX_TRACKED_HOSTNAMES
  MaxClock     \* bound: the clock

VARIABLES
  clock,
  member,      \* whether the person is a member of the project
  link,        \* the link they last got: a hostname and when its token expires
  accessCookie,    \* when the cookie of each hostname expires, or 0
  routes,      \* Redis: the hostnames with a route
  redisUp,
  lastSeen,    \* the proxy: when it last wrote each hostname's last-seen key, or 0
  reply,       \* the last answer, and when
  lastMember   \* history variable: when the person last was a member

gateVars == <<clock, member, link, accessCookie, routes, redisUp, lastSeen, reply, lastMember>>

NoLink == [host |-> CHOOSE h \in Hosts : TRUE, expires |-> 0]

Replies == {"none", "unavailable", "not running", "redirect", "unauthorized", "served", "restarting",
            "refused"}

GateInit ==
  /\ clock = 1
  /\ member = TRUE /\ link = NoLink
  /\ accessCookie = [h \in Hosts |-> 0]
  /\ routes = {} /\ redisUp = TRUE
  /\ lastSeen = [h \in Hosts |-> 0]
  /\ reply = [kind |-> "none", at |-> 0]
  /\ lastMember = 1

(* A token is of one hostname and expires. *)
VerifyToken(expires) == expires # 0 /\ clock =< expires

IsAuthorized(h) == VerifyToken(accessCookie[h])

\* Mutant: the cookie is as good as a token made now.
AccessCookieRenewed(expires) == clock + TokenTtl

(* The cookie is the token, with its expiry. *)
AccessCookie(expires) == expires

Replied(kind) == reply' = [kind |-> kind, at |-> clock]

(* getTarget: no answer is told apart from no route. *)
ClassifyMissingRoute == IF redisUp THEN "not running" ELSE "unavailable"

Routed(h) == redisUp /\ h \in routes

(* A page load is written down at most once in SeenEvery; a full map drops *)
(* what is old, or everything.                                             *)
Stale == {h \in Hosts : clock - lastSeen[h] > SeenEvery}
Tracked == {h \in Hosts : lastSeen[h] # 0}

\* Mutant: a full map drops only what is old.
RecordVisitUncleared(h) ==
  lastSeen' = LET swept == IF Cardinality(Tracked) >= MaxTracked THEN Stale ELSE {}
              IN [g \in Hosts |-> IF g = h THEN clock ELSE IF g \in swept THEN 0 ELSE lastSeen[g]]

RecordVisit(h) ==
  lastSeen' = IF clock - lastSeen[h] < SeenEvery /\ lastSeen[h] # 0 THEN lastSeen
              ELSE LET full  == Cardinality(Tracked) >= MaxTracked
                       swept == IF full THEN Stale ELSE {}
                       clear == Cardinality(Tracked \ swept) >= MaxTracked
                   IN [g \in Hosts |-> IF g = h THEN clock
                                       ELSE IF clear \/ g \in swept THEN 0 ELSE lastSeen[g]]

-----------------------------------------------------------------------------
(* Requests.  An answer comes from the runner, or the runner does not      *)
(* answer in time.                                                         *)

NoTarget(h) ==
  /\ ~Routed(h)
  /\ Replied(ClassifyMissingRoute)
  /\ UNCHANGED <<accessCookie, lastSeen>>

ExchangeToken(h) ==
  /\ Routed(h)
  /\ link.host = h /\ VerifyToken(link.expires)
  /\ accessCookie' = [accessCookie EXCEPT ![h] = AccessCookie(link.expires)]
  /\ Replied("redirect")
  /\ UNCHANGED lastSeen

Unauthorized(h) ==
  /\ Routed(h)
  /\ ~IsAuthorized(h)
  /\ Replied("unauthorized")
  /\ UNCHANGED <<accessCookie, lastSeen>>

Forwarded(h, isPageLoad) ==
  /\ Routed(h)
  /\ IsAuthorized(h)
  /\ IF isPageLoad THEN RecordVisit(h) ELSE UNCHANGED lastSeen
  /\ \E kind \in {"served", "restarting"} : Replied(kind)
  /\ UNCHANGED accessCookie

(* server.on("request"), with or without the link's token in the address *)
Serve(h) ==
  /\ \/ NoTarget(h) \/ ExchangeToken(h)
     \/ Unauthorized(h)
     \/ \E isPageLoad \in BOOLEAN : Forwarded(h, isPageLoad)
  /\ UNCHANGED <<clock, member, link, routes, redisUp, lastMember>>

(* server.on("upgrade"): a socket that may not be opened is destroyed, and *)
(* no token is exchanged.                                                  *)
Upgrade(h) ==
  /\ \/ (~Routed(h) \/ ~IsAuthorized(h)) /\ Replied("refused")
     \/ Routed(h) /\ IsAuthorized(h) /\ \E kind \in {"served", "refused"} : Replied(kind)
  /\ UNCHANGED <<clock, member, link, accessCookie, routes, redisUp, lastSeen, lastMember>>

-----------------------------------------------------------------------------
(* workspace-service: only a member is given a link; a route comes and     *)
(* goes with the preview.                                                  *)

GetLink(h) ==
  /\ member
  /\ link' = [host |-> h, expires |-> clock + TokenTtl]
  /\ UNCHANGED <<clock, member, accessCookie, routes, redisUp, lastSeen, reply, lastMember>>

RemoveMember ==
  /\ member /\ member' = FALSE
  /\ UNCHANGED <<clock, link, accessCookie, routes, redisUp, lastSeen, reply, lastMember>>

Route(h) ==
  /\ routes' = IF h \in routes THEN routes \ {h} ELSE routes \cup {h}
  /\ UNCHANGED <<clock, member, link, accessCookie, redisUp, lastSeen, reply, lastMember>>

RedisChanges ==
  /\ redisUp' = ~redisUp
  /\ UNCHANGED <<clock, member, link, accessCookie, routes, lastSeen, reply, lastMember>>

ClockTicks ==
  /\ clock < MaxClock /\ clock' = clock + 1
  /\ lastMember' = IF member THEN clock + 1 ELSE lastMember
  /\ UNCHANGED <<member, link, accessCookie, routes, redisUp, lastSeen, reply>>

GateNext ==
  \/ RemoveMember \/ RedisChanges \/ ClockTicks
  \/ \E h \in Hosts : Serve(h) \/ Upgrade(h) \/ GetLink(h) \/ Route(h)

GateSpec == GateInit /\ [][GateNext]_gateVars

-----------------------------------------------------------------------------
GateTypeOK ==
  /\ routes \subseteq Hosts
  /\ reply.kind \in Replies
  /\ \A h \in Hosts : lastSeen[h] =< clock /\ accessCookie[h] =< clock + TokenTtl
  /\ Cardinality(Tracked) =< MaxTracked

(* A person who was removed from a project reaches its preview no longer   *)
(* than a token made for them while they were a member lasts, whatever     *)
(* links and cookies they use.  (A socket that is open is not judged again.) *)
AccessEndsWithMembership ==
  reply.kind = "served" => reply.at =< lastMember + TokenTtl
=============================================================================
