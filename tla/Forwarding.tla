----------------------------- MODULE Forwarding -----------------------------
(***************************************************************************)
(* One client query from the socket to the reply: the listeners' slot      *)
(* handling (internal/proxy/listen.go), Server.forward and                 *)
(* resolveViaFallback (internal/proxy/proxy.go) and Resolver.Resolve       *)
(* (internal/fallback/fallback.go).  Health verdicts, the servers'         *)
(* reachability, the fallback list and the shutdown signal change at any   *)
(* step.                                                                   *)
(*                                                                         *)
(* A Pi-hole has one path or several.  Plan is one step here, but with     *)
(* every outcome its unlocked loads can have when verdicts and drain marks *)
(* change while it runs (module Planning has it load by load).  The        *)
(* verdicts forward's reports bring about are EndpointHealth's; here they  *)
(* turn freely.                                                            *)
(***************************************************************************)
EXTENDS Naturals, SequencesExt

CONSTANTS
    Owner,              \* sequence: the Pi-hole of each endpoint, as configured
    PublicServers,      \* sequence: the fallback list when it is enabled
    UDPClients,         \* slots for queries that arrive as datagrams
    TCPClients,         \* client connections, each serving query after query
    MaxAttempts,        \* query.max_attempts
    MaxConcurrent,      \* query.max_concurrent
    MaxChanges          \* changes of the environment in one behaviour

ASSUME LimitAssumption ==
    /\ MaxAttempts \in Nat \ {0}
    /\ MaxConcurrent \in Nat \ {0}
    /\ MaxChanges \in Nat

ASSUME ClientAssumption == UDPClients \cap TCPClients = {}

Paths == DOMAIN Owner
Piholes == {Owner[p] : p \in Paths}
PathsOf(u) == {p \in Paths : Owner[p] = u}

\* Validate wants an upstream, and a path for each; PublicServers is a list,
\* perhaps an empty one.
ASSUME ServerAssumption ==
    /\ Owner \in Seq(ToSet(Owner)) /\ Owner # <<>>
    /\ PublicServers \in Seq(ToSet(PublicServers))
    /\ Paths \cap ToSet(PublicServers) = {}

Clients == UDPClients \cup TCPClients

OutageProbeAttempts == 1

\* What comes of an exchange: an answer, a code to be retried, or an error.
Outcomes == {"answer", "rcode", "error"}

\* Requests: ordinary; with a header but an unreadable question; or without a
\* usable header (or with the response bit set).
Requests == {"plain", "odd", "malformed"}

\* Who the reply comes from; "none": the query is dropped.
Replies == {"none", "pihole", "public", "rcode", "servfail"}

VARIABLES
    reach,      \* external: what exchanging with each server would yield
    up,         \* health verdicts of the paths
    drained,    \* the Pi-holes with the drain mark
    servers,    \* Resolver.servers
    canceled,   \* ctx is done
    sem,        \* slots taken, the length of Server.sem
    query,      \* the query each client is having served
    changes     \* environment changes so far

env == <<reach, up, drained, servers, canceled, changes>>
vars == <<env, sem, query>>

Reachable == Paths \cup ToSet(PublicServers)

\* A client between queries.  Of a query's fields, at to reply are forward's and
\* Resolve's locals (todo: the paths HealthyUpstreams has yet to look at;
\* last: lastResp is set; list: Resolve's copy) and held says whether it has a slot.  The rest is
\* history: turned has the paths whose verdicts turned, in order, and marked the
\* Pi-holes whose drain mark changed, from the query's arrival to the end of Plan;
\* steady is who has been answering ever since, with the same mark; fixed, that
\* the fallback list has not changed.
NoQuery == [at |-> "idle", req |-> "plain", plan |-> <<>>, attempts |-> 0, todo |-> {},
            i |-> 0, last |-> FALSE, list |-> <<>>, k |-> 0, reply |-> "none", held |-> FALSE,
            turned |-> <<>>, marked |-> {}, steady |-> {}, fixed |-> TRUE]

Places == {"idle", "plan", "budget", "census", "mark", "attempt", "exchange", "fallback",
           "servers", "public", "ask", "failed", "reply", "release"}

TypeOK ==
    /\ reach \in [Reachable -> Outcomes]
    /\ up \in [Paths -> BOOLEAN]
    /\ drained \subseteq Piholes
    /\ servers \in {<<>>, PublicServers}
    /\ canceled \in BOOLEAN
    /\ sem \in 0..MaxConcurrent
    /\ changes \in 0..MaxChanges
    /\ DOMAIN query = Clients
    /\ \A c \in Clients :
          /\ query[c].at \in Places
          /\ query[c].req \in Requests
          /\ ToSet(query[c].plan) \subseteq Paths
          /\ query[c].attempts \in 0..MaxAttempts
          /\ query[c].todo \subseteq Paths
          /\ query[c].i \in 0..query[c].attempts
          /\ ToSet(query[c].list) \subseteq ToSet(PublicServers)
          /\ query[c].k \in 0..Len(query[c].list)
          /\ query[c].reply \in Replies
          /\ query[c].steady \subseteq Reachable

Init ==
    /\ reach \in [Reachable -> Outcomes]
    /\ up \in [Paths -> BOOLEAN]
    /\ drained \in SUBSET Piholes
    /\ servers \in {<<>>, PublicServers}
    /\ canceled = FALSE
    /\ sem = 0
    /\ query = [c \in Clients |-> NoQuery]
    /\ changes = 0
-----------------------------------------------------------------------------
(***************************************************************************)
(* The environment.                                                        *)
(***************************************************************************)
At(c, place) == query[c].at = place

Changing == changes < MaxChanges /\ changes' = changes + 1

\* External: a server starts to answer, to refuse or to be silent.
ReachChanges(s) ==
    /\ Changing
    /\ \E o \in Outcomes \ {reach[s]} : reach' = [reach EXCEPT ![s] = o]
    /\ query' = [c \in Clients |-> [query[c] EXCEPT !.steady = @ \ {s}]]
    /\ UNCHANGED <<up, drained, servers, canceled, sem>>

\* A verdict turns (module EndpointHealth).
Turn(p) ==
    /\ Changing
    /\ up' = [up EXCEPT ![p] = ~@]
    /\ query' = [c \in Clients |->
          [query[c] EXCEPT !.turned = IF At(c, "plan") THEN Append(@, p) ELSE @]]
    /\ UNCHANGED <<reach, drained, servers, canceled, sem>>

\* SetDrained: a Pi-hole is taken out for maintenance, or put back.
SetDrained(u) ==
    /\ Changing
    /\ drained' = IF u \in drained THEN drained \ {u} ELSE drained \cup {u}
    /\ query' = [c \in Clients |->
          [query[c] EXCEPT !.marked = IF At(c, "plan") THEN @ \cup {u} ELSE @,
                           !.steady = @ \ PathsOf(u)]]
    /\ UNCHANGED <<reach, up, servers, canceled, sem>>

\* SetServers: fallback is switched on or off while queries run.
SetServers ==
    /\ Changing
    /\ servers' = IF servers = <<>> THEN PublicServers ELSE <<>>
    /\ query' = [c \in Clients |-> [query[c] EXCEPT !.fixed = FALSE]]
    /\ UNCHANGED <<reach, up, drained, canceled, sem>>

\* The shutdown signal cancels every query's context.
Shutdown ==
    /\ Changing
    /\ ~canceled
    /\ canceled' = TRUE
    /\ UNCHANGED <<reach, up, drained, servers, sem, query>>
-----------------------------------------------------------------------------
\* Client c's query moves on; nothing shared changes.
Step(c, r) == query' = [query EXCEPT ![c] = r] /\ UNCHANGED <<env, sem>>

\* The outcomes of an exchange with s.  Once ctx is done it fails, unless the
\* reply is read before the watcher moves the deadline.
Exchanged(s) == {reach[s]} \cup (IF canceled THEN {"error"} ELSE {})

\* Resolve returns this reply; its locals are gone.
Returned(q, reply) ==
    [NoQuery EXCEPT !.at = "reply", !.req = q.req, !.reply = reply, !.held = TRUE]

\* The synthetic SERVFAIL, which needs a readable question.
ErrorResponse(req) == IF req = "plain" THEN "servfail" ELSE "none"

\* acquire succeeds: serveUDP and serveTCPConn hand the query to Resolve,
\* which drops a request without a usable header.  The sockets close only some
\* time after the shutdown signal.
Accept(c, req) ==
    /\ At(c, "idle")
    /\ sem < MaxConcurrent
    /\ sem' = sem + 1
    /\ query' = [query EXCEPT ![c] =
          [NoQuery EXCEPT !.req = req, !.held = TRUE,
                          !.at = IF req = "malformed" THEN "reply" ELSE "plan",
                          !.steady = {s \in Reachable : reach[s] = "answer"}]]
    /\ UNCHANGED env

\* acquire fails: the query is shed with a synthetic SERVFAIL, if the request
\* can be answered at all.
Shed(c, req) ==
    /\ At(c, "idle")
    /\ sem = MaxConcurrent
    /\ Step(c, [NoQuery EXCEPT !.req = req, !.at = "reply",
                               !.reply = ErrorResponse(req)])

\* The first of some paths, in configuration order.
First(S) == {p \in S : \A r \in S : p <= r}

(***************************************************************************)
(* Plan loads a path's verdict up to five times: 1 in the classification,  *)
(* 2 for the preferred paths, 3 and 4 for the secondary ones (Active, then *)
(* Healthy) and 5 for the last resort.  A view is what the loads see; each *)
(* verdict that turned did so before one of them or after the last.  How   *)
(* turns of different paths fall is not related: a few more views than the *)
(* code has.                                                               *)
(***************************************************************************)
Later(q, when, k, p) == {m \in DOMAIN q.turned : q.turned[m] = p /\ when[m] > k}

Seen(q, when) ==
    [k \in 1..5 |-> {p \in Paths : up[p] = (Cardinality(Later(q, when, k, p)) % 2 = 0)}]

Views(q) == {Seen(q, when) : when \in [DOMAIN q.turned -> 1..6]}

\* The Pi-holes whose mark the classification sees, each mark loaded once.
Marks(q) == {m \in SUBSET Piholes : \A u \in Piholes \ q.marked : u \in m <=> u \in drained}

UpOf(v, k, u) == PathsOf(u) \cap v[k]

\* Upstream.Active in the k-th loads: the first healthy path, if any.
Active(v, k, u) == First(UpOf(v, k, u))

Healthy(v, m) == {u \in Piholes \ m : UpOf(v, 1, u) # {}}
Down(v, m) == (Piholes \ m) \ Healthy(v, m)

\* The three tiers, and the drained Pi-holes when there is nothing else.
Preferred(v, m) == UNION {Active(v, 2, u) : u \in Healthy(v, m)}

\* Mutant of Secondary: other paths to the same Pi-hole are not planned.
SecondaryNone(v, m) == {}

Secondary(v, m) == UNION {UpOf(v, 4, u) \ Active(v, 3, u) : u \in Healthy(v, m)}

\* Mutant of LastResort: the Pi-holes believed down are not planned.
LastResortHealthy(v, m) == UNION {PathsOf(u) \ UpOf(v, 5, u) : u \in Healthy(v, m)}

LastResort(v, m) == UNION ({PathsOf(u) \ UpOf(v, 5, u) : u \in Healthy(v, m)}
                           \cup {PathsOf(u) : u \in Down(v, m)})

Aside(v, m) ==
    IF Preferred(v, m) \cup Secondary(v, m) \cup LastResort(v, m) = {}
    THEN UNION {PathsOf(u) : u \in m} ELSE {}

\* Each tier is in an order of the strategy's or of chance.
Plans(v, m) ==
    {a \o b \o d \o e : a \in SetToSeqs(Preferred(v, m)), b \in SetToSeqs(Secondary(v, m)),
                        d \in SetToSeqs(LastResort(v, m)), e \in SetToSeqs(Aside(v, m))}

\* Mutant of Least: the limit on attempts is forgotten.
LeastUnlimited(m, n) == n

Least(m, n) == IF m < n THEN m ELSE n

\* Plan, and the attempts it allows.
MakePlan(c) ==
    /\ At(c, "plan")
    /\ \E v \in Views(query[c]), m \in Marks(query[c]) :
          \E p \in Plans(v, m) :
             Step(c, [query[c] EXCEPT !.at = "budget", !.plan = p,
                                      !.attempts = Least(MaxAttempts, Len(p))])

\* The outage shortcut's first test: s.fallback.Enabled().
Budget(c) ==
    /\ At(c, "budget")
    /\ Step(c, IF servers # <<>> THEN [query[c] EXCEPT !.at = "census", !.todo = Paths]
               ELSE [query[c] EXCEPT !.at = "attempt"])

\* Its second test, s.pool.HealthyUpstreams() == 0, path by path: with no Pi-hole
\* counted the attempts are cut.
Census(c) ==
    LET q == query[c]
    IN  /\ At(c, "census")
        /\ \/ /\ q.todo = {}
              /\ Step(c, [q EXCEPT !.at = "attempt",
                                   !.attempts = Least(@, OutageProbeAttempts)])
           \/ \E p \in First(q.todo) :
                 Step(c, IF up[p] THEN [q EXCEPT !.at = "mark"]
                         ELSE [q EXCEPT !.todo = @ \ {p}])

\* A Pi-hole with a healthy path counts unless it is drained; one that counts
\* decides the test.
CensusMark(c) ==
    LET q == query[c]
    IN  /\ At(c, "mark")
        /\ \E p \in First(q.todo) :
              Step(c, IF Owner[p] \in drained
                      THEN [q EXCEPT !.at = "census", !.todo = @ \ PathsOf(Owner[p])]
                      ELSE [q EXCEPT !.at = "attempt", !.todo = {}])

\* The loop goes on: attempts are left and the context is not done.
Continues(q) == q.i < q.attempts /\ ~canceled

Attempt(c) ==
    /\ At(c, "attempt")
    /\ Step(c, [query[c] EXCEPT !.at =
          IF Continues(query[c]) THEN "exchange" ELSE "fallback"])

\* Mutant of Tried: a code to be retried does not use up the attempt.
TriedOnError(q, o) == IF o = "error" THEN q.i + 1 ELSE q.i

\* Every failed attempt counts.
Tried(q, o) == q.i + 1

\* One exchange with a Pi-hole and its report: a usable answer is returned, a
\* code to be retried is kept in case nothing better comes.
Exchange(c) ==
    LET q == query[c]
    IN  /\ At(c, "exchange")
        /\ \E o \in Exchanged(q.plan[q.i + 1]) :
              \/ /\ o = "answer"
                 /\ Step(c, Returned(q, "pihole"))
              \/ /\ o # "answer"
                 /\ Step(c, [q EXCEPT !.at = "attempt", !.i = Tried(q, o),
                                      !.last = @ \/ o = "rcode"])

\* resolveViaFallback's own test of Enabled.
Fallback(c) ==
    /\ At(c, "fallback")
    /\ Step(c, [query[c] EXCEPT !.at = IF servers # <<>> THEN "servers" ELSE "failed"])

Rotations(s) == {[n \in 1..Len(s) |-> s[((start + n - 1) % Len(s)) + 1]] :
                    start \in 0..(Len(s) - 1)}

\* Resolve takes a copy of the list and starts at the next place of the rotation.
TakeServers(c) ==
    /\ At(c, "servers")
    /\ IF servers = <<>>
       THEN Step(c, [query[c] EXCEPT !.at = "failed"])
       ELSE \E l \in Rotations(servers) :
               Step(c, [query[c] EXCEPT !.at = "public", !.list = l])

\* Mutant of Goes: the loop does not look at the context.
GoesAnyway(q) == q.k < Len(q.list)

\* Mutant of Goes: only the first resolver of the rotation is asked.
GoesOnce(q) == q.k = 0 /\ ~canceled

\* The loop goes on to ask the next public resolver.
Goes(q) == q.k < Len(q.list) /\ ~canceled

PublicAttempt(c) ==
    /\ At(c, "public")
    /\ Step(c, [query[c] EXCEPT !.at = IF Goes(query[c]) THEN "ask" ELSE "failed"])

\* The next resolver is asked after an error, and after a code to be retried
\* unless this was the last one.
Moves(q, o) == o = "error" \/ (o = "rcode" /\ q.k + 1 < Len(q.list))

\* One exchange with a public resolver, counted by the tracker.
AskPublic(c) ==
    LET q == query[c]
    IN  /\ At(c, "ask")
        /\ \E o \in Exchanged(q.list[q.k + 1]) :
              \/ /\ Moves(q, o)
                 /\ Step(c, [q EXCEPT !.at = "public", !.k = @ + 1])
              \/ /\ ~Moves(q, o)
                 /\ Step(c, Returned(q, "public"))

\* Mutant of Failure: without a kept reply the query is dropped.
FailureSilent(q) == IF q.last THEN "rcode" ELSE "none"

\* Every attempt failed: a kept reply, or a synthetic one.
Failure(q) == IF q.last THEN "rcode" ELSE ErrorResponse(q.req)

Fail(c) ==
    /\ At(c, "failed")
    /\ Step(c, Returned(query[c], Failure(query[c])))

\* Mutant of Written: a dropped query returns before its slot is given back.
WrittenOrLost(q) == IF q.held /\ q.reply # "none" THEN [q EXCEPT !.at = "release"]
                    ELSE NoQuery

\* After the reply, if any, is written: serveUDP's deferred release is still due.
Written(q) == IF q.held THEN [q EXCEPT !.at = "release"] ELSE NoQuery

\* The reply, if any, is handed to the socket; serveTCPConn has released the slot
\* before.  Whether it is sent is the socket's: it may be closed by then, and an
\* error of the write is dropped with the reply.  The handler ends either way.
Write(c) ==
    /\ At(c, "reply")
    /\ c \in TCPClients => ~query[c].held
    /\ Step(c, Written(query[c]))

\* serveUDP's deferred release.
ReleaseUDP(c) ==
    /\ c \in UDPClients
    /\ At(c, "release")
    /\ sem' = sem - 1
    /\ query' = [query EXCEPT ![c] = NoQuery]
    /\ UNCHANGED env

\* serveTCPConn releases as soon as Resolve returns.
ReleaseTCP(c) ==
    /\ c \in TCPClients
    /\ At(c, "reply")
    /\ query[c].held
    /\ sem' = sem - 1
    /\ query' = [query EXCEPT ![c].held = FALSE]
    /\ UNCHANGED env

Serve(c) ==
    \/ MakePlan(c)
    \/ Budget(c)
    \/ Census(c)
    \/ CensusMark(c)
    \/ Attempt(c)
    \/ Exchange(c)
    \/ Fallback(c)
    \/ TakeServers(c)
    \/ PublicAttempt(c)
    \/ AskPublic(c)
    \/ Fail(c)
    \/ Write(c)
    \/ ReleaseUDP(c)
    \/ ReleaseTCP(c)

Next ==
    \/ \E c \in Clients :
          \/ \E req \in Requests : Accept(c, req) \/ Shed(c, req)
          \/ Serve(c)
    \/ \E s \in Reachable : ReachChanges(s)
    \/ \E p \in Paths : Turn(p)
    \/ \E u \in Piholes : SetDrained(u)
    \/ SetServers
    \/ Shutdown

Spec == Init /\ [][Next]_vars

\* A query's goroutine keeps running: every exchange ends within its timeout.
\* Nothing is assumed of clients or of the environment.
FairSpec == Spec /\ \A c \in Clients : WF_vars(Serve(c))
-----------------------------------------------------------------------------
(***************************************************************************)
(* Properties.                                                             *)
(***************************************************************************)

\* A verdict of Pi-hole u turned twice before Plan was done.
Flickered(q, u) ==
    \E m, n \in DOMAIN q.turned : m # n /\ q.turned[m] = q.turned[n] /\ Owner[q.turned[m]] = u

\* No verdict of path p's Pi-hole turned before Plan was done.
Undisturbed(q, p) == \A m \in DOMAIN q.turned : Owner[q.turned[m]] # Owner[p]

\* A public resolver is asked only when every attempt the budget allows has
\* been spent on a path that was not answering all along; a query cut short by
\* shutdown never leaks to public DNS.  It can go there without any attempt, Plan
\* having returned nothing, only if each Pi-hole had a verdict that turned and
\* turned back while Plan ran (proxy.go, forward; pool.go, Plan; fallback.go,
\* Resolve).  The README's "While any Pi-hole answers, no query reaches a public
\* resolver" is more than the code does: Plan may return nothing, or leave out a
\* path that answers, and the outage shortcut stops after one attempt.
PublicOnlyAfterAttempts ==
    \A c \in Clients : At(c, "ask") =>
        LET q == query[c]
        IN  /\ q.i = q.attempts
            /\ \A n \in 1..q.i : q.plan[n] \notin q.steady
            /\ q.i = 0 => \A u \in Piholes : Flickered(q, u)

\* A query fails only for want of servers: unless it was cut short or the
\* fallback list changed meanwhile, no path it was allowed to try and no public
\* resolver answered all along; without fallback it has used up max_attempts, or
\* else no path answers of a Pi-hole in service whose verdicts stayed while Plan
\* ran.
NoNeedlessFailure ==
    \A c \in Clients : At(c, "failed") /\ ~canceled /\ query[c].fixed =>
        LET q == query[c]
        IN  /\ \A n \in 1..q.attempts : q.plan[n] \notin q.steady
            /\ IF servers = <<>>
               THEN \/ q.i = MaxAttempts
                    \/ \A p \in Paths : Undisturbed(q, p) /\ Owner[p] \notin drained =>
                          p \notin q.steady
               ELSE ToSet(servers) \cap q.steady = {}

\* Resolve and the shed path make a reply for every request with a readable
\* question, even when everything is down, overloaded or cut short by the
\* shutdown signal; that the socket sends it is not claimed.
ReplyComposed ==
    \A c \in Clients :
        At(c, "reply") /\ query[c].req = "plain" => query[c].reply # "none"

\* The slots taken are exactly those of the queries in flight: none is leaked
\* by a query that is dropped, shed or fails, and none is given back twice.
SlotsAccounted == sem = Cardinality({c \in Clients : query[c].held})

\* Every query that is taken up comes to an end, whatever the servers do.
EveryQueryEnds == \A c \in Clients : ~At(c, "idle") ~> At(c, "idle")
=============================================================================
