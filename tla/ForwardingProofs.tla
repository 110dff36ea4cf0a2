-------------------------- MODULE ForwardingProofs --------------------------
(***************************************************************************)
(* Proofs about Forwarding, for any Pi-holes and paths, public resolvers,  *)
(* clients and limits: type correctness, the accounting of slots, and what *)
(* a reply, a question to public DNS and a failure say about the servers,  *)
(* whatever changes while Plan runs.                                       *)
(***************************************************************************)
EXTENDS Forwarding, FiniteSetTheorems, NaturalsInduction, WellFoundedInduction, TLAPS

\* What a client's query can be.
QueryStates ==
    [at : Places, req : Requests, plan : Seq(Paths), attempts : Nat, todo : SUBSET Paths,
     i : Nat, last : BOOLEAN, list : Seq(ToSet(PublicServers)), k : Nat, reply : Replies,
     held : BOOLEAN, turned : Seq(Paths), marked : SUBSET Piholes,
     steady : SUBSET Reachable, fixed : BOOLEAN]

\* The counters stay within the budget, the plan and the list.
Bounded(q) ==
    /\ q.i <= q.attempts /\ q.attempts <= MaxAttempts
    /\ q.attempts <= Len(q.plan) /\ q.k <= Len(q.list)

Planned == {"budget", "census", "mark", "attempt", "exchange", "fallback", "servers", "public",
            "ask", "failed"}

\* What a place in forward, in Resolve or in the listener implies.
Placed(q) ==
    /\ q.at \in {"plan", "budget", "census", "mark"} => q.i = 0
    /\ q.at \in {"plan", "budget", "census", "mark", "attempt", "exchange", "fallback",
                  "servers"} => q.k = 0
    /\ q.at \in Planned \cup {"plan"} => q.held
    /\ q.at = "exchange" => q.i < q.attempts
    /\ q.at = "ask" => q.k < Len(q.list)
    /\ q.at = "idle" => ~q.held
    /\ q.at = "release" => q.held

Dry(s, n, steady) == \A m \in 1..n : s[m] \notin steady

\* Unless the query was cut short, what has been tried was not answering all
\* along, and the whole budget is spent where the fallback begins.  A resolver is
\* asked only by a query that was not cut short before.
Spent(q) ==
    /\ canceled \/ (Dry(q.plan, q.i, q.steady) /\ Dry(q.list, q.k, q.steady))
    /\ q.at \in {"fallback", "servers", "public", "failed"} => canceled \/ q.i = q.attempts
    /\ q.at = "ask" => q.i = q.attempts /\ Dry(q.plan, q.i, q.steady)

\* History is right about who answers.
Answering(q) == \A s \in q.steady : reach[s] = "answer"

\* While the fallback list stays: without one the budget is never cut, with one
\* the copy has every resolver and a failure means that none of them answered.
Settled(q) ==
    q.fixed =>
        /\ q.at \in {"census", "mark"} => servers # <<>>
        /\ q.at \in Planned /\ servers = <<>> =>
              q.attempts = Least(MaxAttempts, Len(q.plan))
        /\ q.at \in {"public", "ask"} => servers # <<>> /\ ToSet(q.list) = ToSet(servers)
        /\ q.at = "failed" /\ servers # <<>> =>
              canceled \/ \A s \in ToSet(servers) : s \notin q.steady

\* A request with a readable question has a reply.
Replied(q) == q.at = "reply" /\ q.req = "plain" => q.reply # "none"

\* What Plan returned: nothing only if every Pi-hole flickered, and every path of a
\* Pi-hole that is in service and whose verdicts stayed.  While it runs, a Pi-hole
\* whose mark changed has no steady path.
Complete(q) ==
    /\ q.at \in Planned =>
          /\ q.attempts = 0 => q.plan = <<>>
          /\ q.plan = <<>> => \A u \in Piholes : Flickered(q, u)
          /\ \A p \in Paths : Undisturbed(q, p) /\ p \in q.steady /\ Owner[p] \notin drained =>
                p \in ToSet(q.plan)
    /\ q.at = "plan" => \A p \in Paths : p \in q.steady => Owner[p] \notin q.marked

QueryOK(q) ==
    /\ Bounded(q) /\ Placed(q) /\ Spent(q) /\ Answering(q) /\ Settled(q) /\ Replied(q)
    /\ Complete(q)

\* The environment and the slots.
Shared ==
    /\ reach \in [Reachable -> Outcomes]
    /\ up \in [Paths -> BOOLEAN]
    /\ drained \subseteq Piholes
    /\ servers \in {<<>>, PublicServers}
    /\ canceled \in BOOLEAN
    /\ changes \in 0..MaxChanges

Held == {c \in Clients : query[c].held}

Slots == sem \in 0..MaxConcurrent /\ IsFiniteSet(Held) /\ sem = Cardinality(Held)

ForwardInv ==
    /\ Shared
    /\ Slots
    /\ query \in [Clients -> QueryStates]
    /\ \A c \in Clients : QueryOK(query[c])
-----------------------------------------------------------------------------
\* A client between queries satisfies whatever is asked of a query.
LEMMA NoQueryOK ==
    /\ NoQuery \in QueryStates
    /\ NoQuery.at = "idle" /\ NoQuery.i = 0 /\ NoQuery.attempts = 0 /\ NoQuery.k = 0
    /\ NoQuery.plan = <<>> /\ NoQuery.list = <<>> /\ NoQuery.held = FALSE
    /\ NoQuery.steady = {} /\ NoQuery.fixed = TRUE /\ NoQuery.reply = "none"
    /\ NoQuery.turned = <<>> /\ NoQuery.marked = {}
    /\ QueryOK(NoQuery)
<1>1. NoQuery \in QueryStates
  BY DEF NoQuery, QueryStates, Places, Requests, Replies
<1>2. /\ NoQuery.at = "idle" /\ NoQuery.i = 0 /\ NoQuery.attempts = 0 /\ NoQuery.k = 0
      /\ NoQuery.plan = <<>> /\ NoQuery.list = <<>> /\ NoQuery.held = FALSE
      /\ NoQuery.steady = {} /\ NoQuery.fixed = TRUE /\ NoQuery.reply = "none"
    /\ NoQuery.turned = <<>> /\ NoQuery.marked = {}
  BY DEF NoQuery
<1>3. Bounded(NoQuery)
  BY <1>2, LimitAssumption DEF Bounded
<1>4. Placed(NoQuery)
  BY <1>2 DEF Placed, Planned
<1>5. Spent(NoQuery) /\ Answering(NoQuery)
  BY <1>2 DEF Spent, Dry, Answering
<1>6. Settled(NoQuery) /\ Replied(NoQuery) /\ Complete(NoQuery)
  BY <1>2 DEF Settled, Planned, Replied, Complete
<1> QED
  BY <1>1, <1>2, <1>3, <1>4, <1>5, <1>6 DEF QueryOK

\* Init establishes the invariant.
LEMMA ForwardInit == Init => ForwardInv
<1> SUFFICES ASSUME Init PROVE ForwardInv
  OBVIOUS
<1>1. query \in [Clients -> QueryStates] /\ \A c \in Clients : query[c] = NoQuery
  BY NoQueryOK DEF Init
<1>2. Held = {}
  BY <1>1, NoQueryOK DEF Held
<1>3. Slots
  BY <1>2, FS_EmptySet, LimitAssumption DEF Init, Slots
<1>4. Shared
  <2>1. 0 \in 0..MaxChanges
    BY LimitAssumption
  <2> QED
    BY <2>1, Zenon DEF Init, Shared
<1> QED
  BY <1>1, <1>3, <1>4, NoQueryOK DEF ForwardInv

\* The invariant implies the type invariant.
LEMMA ForwardTypes == ForwardInv => TypeOK
<1> SUFFICES ASSUME ForwardInv PROVE TypeOK
  OBVIOUS
<1>1. ASSUME NEW c \in Clients
      PROVE  /\ query[c].at \in Places
             /\ query[c].req \in Requests
             /\ ToSet(query[c].plan) \subseteq Paths /\ query[c].todo \subseteq Paths
             /\ query[c].attempts \in 0..MaxAttempts
             /\ query[c].i \in 0..query[c].attempts
             /\ ToSet(query[c].list) \subseteq ToSet(PublicServers)
             /\ query[c].k \in 0..Len(query[c].list)
             /\ query[c].reply \in Replies
             /\ query[c].steady \subseteq Reachable
  <2> DEFINE q == query[c]
  <2>1. q \in QueryStates /\ Bounded(q)
    BY DEF ForwardInv, QueryOK
  <2>2. /\ q.at \in Places /\ q.req \in Requests /\ q.plan \in Seq(Paths)
        /\ q.todo \subseteq Paths /\ q.attempts \in Nat /\ q.i \in Nat /\ q.list \in Seq(ToSet(PublicServers))
        /\ q.k \in Nat /\ q.reply \in Replies /\ q.steady \subseteq Reachable
    BY <2>1 DEF QueryStates
  <2> HIDE DEF q
  <2>3. ToSet(q.plan) \subseteq Paths
    BY <2>2 DEF ToSet
  <2>4. ASSUME NEW S, NEW l \in Seq(S) PROVE {l[n] : n \in DOMAIN l} \subseteq S
    BY <2>4
  <2>5. ToSet(q.list) \subseteq ToSet(PublicServers)
    BY <2>2, <2>4 DEF ToSet
  <2>6. q.attempts \in 0..MaxAttempts /\ q.i \in 0..q.attempts /\ q.k \in 0..Len(q.list)
    BY <2>1, <2>2, LimitAssumption DEF Bounded
  <2> QED
    BY <2>2, <2>3, <2>5, <2>6 DEF q
<1> QED
  BY <1>1 DEF ForwardInv, Shared, Slots, TypeOK

\* A step that moves one query on, to a state that is right and with the slot it
\* had, keeps the invariant.
LEMMA OneQuery ==
    ASSUME ForwardInv, NEW c \in Clients, NEW r \in QueryStates, Step(c, r),
           QueryOK(r), r.held = query[c].held
    PROVE  ForwardInv'
<1>1. /\ query' = [query EXCEPT ![c] = r]
      /\ reach' = reach /\ up' = up /\ drained' = drained /\ servers' = servers /\ canceled' = canceled
      /\ changes' = changes /\ sem' = sem
  BY DEF Step, env
<1>2. query' \in [Clients -> QueryStates]
  BY <1>1 DEF ForwardInv
<1>3. \A d \in Clients : query'[d] = IF d = c THEN r ELSE query[d]
  BY <1>1 DEF ForwardInv
<1>4. Held' = Held
  BY <1>3 DEF Held
<1>5. Slots'
  BY <1>1, <1>4 DEF ForwardInv, Slots
<1>6. Shared'
  BY <1>1 DEF ForwardInv, Shared
<1>7. \A d \in Clients : QueryOK(query'[d])
  BY <1>3 DEF ForwardInv
<1> QED
  BY <1>1, <1>2, <1>5, <1>6, <1>7
     DEF ForwardInv, QueryOK, Bounded, Placed, Spent, Answering, Settled, Replied, Complete

\* What the invariant says about one query.
LEMMA QueryFacts ==
    ASSUME ForwardInv, NEW c \in Clients
    PROVE  /\ query[c] \in QueryStates /\ QueryOK(query[c])
           /\ query[c].at \in Places /\ query[c].req \in Requests
           /\ query[c].plan \in Seq(Paths) /\ query[c].list \in Seq(ToSet(PublicServers))
           /\ query[c].attempts \in Nat /\ query[c].i \in Nat /\ query[c].k \in Nat
           /\ query[c].held \in BOOLEAN /\ query[c].last \in BOOLEAN
           /\ query[c].steady \subseteq Reachable
           /\ query[c].todo \subseteq Paths /\ query[c].marked \subseteq Piholes
           /\ query[c].turned \in Seq(Paths)
<1>1. query[c] \in QueryStates /\ QueryOK(query[c])
  BY DEF ForwardInv
<1> QED
  BY <1>1 DEF QueryStates

\* Every query holds what Plan has returned, as long as its plan stays.
LEMMA CompleteKept ==
    ASSUME NEW q, NEW r, Complete(q), r.at # "plan", r.at \in Planned => q.at \in Planned,
           r.plan = q.plan, r.turned = q.turned, r.steady = q.steady,
           r.attempts = 0 => q.attempts = 0
    PROVE  Complete(r)
<1>1. \A u : Flickered(q, u) => Flickered(r, u)
  BY DEF Flickered
<1>2. \A p : Undisturbed(r, p) => Undisturbed(q, p)
  BY DEF Undisturbed
<1> QED
  BY <1>1, <1>2 DEF Complete

\* Resolve returns: only the request, the reply and the slot are left.
LEMMA ReturnedOK ==
    ASSUME NEW q, q.req \in Requests, NEW reply \in Replies,
           q.req = "plain" => reply # "none"
    PROVE  /\ Returned(q, reply) \in QueryStates /\ Returned(q, reply).held = TRUE
           /\ QueryOK(Returned(q, reply))
<1> DEFINE r == Returned(q, reply)
<1>1. /\ r \in QueryStates /\ r.at = "reply" /\ r.reply = reply /\ r.req = q.req
      /\ r.plan = <<>> /\ r.attempts = 0 /\ r.i = 0 /\ r.list = <<>> /\ r.k = 0
      /\ r.held = TRUE /\ r.steady = {} /\ r.fixed = TRUE
  BY NoQueryOK DEF Returned, QueryStates, Places
<1> HIDE DEF r
<1>2. Bounded(r) /\ Placed(r) /\ Replied(r)
  BY <1>1, LimitAssumption DEF Bounded, Placed, Planned, Replied
<1>3. Spent(r) /\ Answering(r) /\ Settled(r) /\ Complete(r)
  BY <1>1 DEF Spent, Dry, Answering, Settled, Complete, Planned
<1>4. QueryOK(r)
  BY <1>2, <1>3 DEF QueryOK
<1> QED
  BY <1>1, <1>4 DEF r

\* A query that moves to another place keeps everything else.
LEMMA Moved ==
    ASSUME NEW q \in QueryStates, NEW place \in Places
    PROVE  LET r == [q EXCEPT !.at = place]
           IN  /\ r \in QueryStates /\ r.at = place
               /\ r.req = q.req /\ r.plan = q.plan /\ r.attempts = q.attempts /\ r.i = q.i
               /\ r.list = q.list /\ r.k = q.k /\ r.reply = q.reply /\ r.held = q.held
               /\ r.steady = q.steady /\ r.fixed = q.fixed /\ r.turned = q.turned
  BY DEF QueryStates

\* The smaller of two numbers.
LEMMA LeastFacts ==
    ASSUME NEW m \in Nat, NEW n \in Nat
    PROVE  /\ Least(m, n) \in Nat /\ Least(m, n) <= m /\ Least(m, n) <= n
           /\ Least(m, n) = m \/ Least(m, n) = n
  BY DEF Least

\* The permutations of a finite set.
LEMMA PermutationFacts ==
    ASSUME NEW S, IsFiniteSet(S), NEW t \in SetToSeqs(S)
    PROVE  t \in Seq(S) /\ ToSet(t) = S /\ (S # {} => Len(t) # 0)
<1> DEFINE n == Cardinality(S)
<1>1. n \in Nat /\ (S # {} => n # 0)
  BY FS_CardinalityType, FS_EmptySet
<1>2. t \in [1..n -> S] /\ \A k, l \in 1..n : k # l => t[k] # t[l]
  BY DEF SetToSeqs
<1>3. Cardinality(1..n) = Cardinality(S)
  BY <1>1, FS_Interval
<1> HIDE DEF n
<1>4. t \in Seq(S) /\ Len(t) = n /\ DOMAIN t = 1..n
  BY <1>1, <1>2
<1>5. t \in Injection(1..n, S)
  BY <1>2, <1>4 DEF Injection, IsInjective
<1>6. t \in Surjection(1..n, S)
  BY <1>3, <1>5, FS_Injection
<1>7. \A x \in S : \E k \in 1..n : t[k] = x
  BY <1>6 DEF Surjection
<1>8. ToSet(t) = S
  BY <1>2, <1>4, <1>7 DEF ToSet
<1> QED
  BY <1>1, <1>4, <1>8

\* Two sequences one after the other.
LEMMA JoinFacts ==
    ASSUME NEW S, NEW a \in Seq(S), NEW b \in Seq(S)
    PROVE  /\ a \o b \in Seq(S) /\ Len(a \o b) = Len(a) + Len(b)
           /\ ToSet(a \o b) = ToSet(a) \cup ToSet(b)
<1>1. /\ a \o b \in Seq(S) /\ Len(a \o b) = Len(a) + Len(b) /\ Len(a) \in Nat /\ Len(b) \in Nat
      /\ \A n \in 1..(Len(a) + Len(b)) :
            (a \o b)[n] = IF n <= Len(a) THEN a[n] ELSE b[n - Len(a)]
      /\ DOMAIN (a \o b) = 1..(Len(a) + Len(b)) /\ DOMAIN a = 1..Len(a) /\ DOMAIN b = 1..Len(b)
  OBVIOUS
<1>2. ToSet(a \o b) \subseteq ToSet(a) \cup ToSet(b)
  <2> SUFFICES ASSUME NEW n \in DOMAIN (a \o b) PROVE (a \o b)[n] \in ToSet(a) \cup ToSet(b)
    BY DEF ToSet
  <2>1. CASE n <= Len(a)
    BY <1>1, <2>1 DEF ToSet
  <2>2. CASE ~(n <= Len(a))
    <3>1. n - Len(a) \in DOMAIN b /\ (a \o b)[n] = b[n - Len(a)]
      BY <1>1, <2>2
    <3> QED
      BY <3>1 DEF ToSet
  <2> QED
    BY <2>1, <2>2
<1>3. ToSet(a) \subseteq ToSet(a \o b)
  <2> SUFFICES ASSUME NEW n \in DOMAIN a PROVE a[n] \in ToSet(a \o b)
    BY DEF ToSet
  <2>1. n \in DOMAIN (a \o b) /\ (a \o b)[n] = a[n]
    BY <1>1
  <2> QED
    BY <2>1 DEF ToSet
<1>4. ToSet(b) \subseteq ToSet(a \o b)
  <2> SUFFICES ASSUME NEW n \in DOMAIN b PROVE b[n] \in ToSet(a \o b)
    BY DEF ToSet
  <2>1. n + Len(a) \in DOMAIN (a \o b) /\ (a \o b)[n + Len(a)] = b[n]
    BY <1>1
  <2> QED
    BY <2>1 DEF ToSet
<1> QED
  BY <1>1, <1>2, <1>3, <1>4

\* Paths are numbered, and there are finitely many.
LEMMA PathFacts ==
    /\ Paths = 1..Len(Owner) /\ Paths \subseteq Nat /\ IsFiniteSet(Paths)
    /\ \A p \in Paths : Owner[p] \in Piholes /\ p \in PathsOf(Owner[p])
    /\ \A u \in Piholes : PathsOf(u) # {} /\ PathsOf(u) \subseteq Paths
<1>1. Paths = 1..Len(Owner) /\ Len(Owner) \in Nat
  BY ServerAssumption DEF Paths
<1>2. IsFiniteSet(Paths)
  BY <1>1, FS_Interval
<1> QED
  BY <1>1, <1>2 DEF Piholes, PathsOf

\* Of some paths, one is the first.
LEMMA FirstFacts ==
    ASSUME NEW S \in SUBSET Paths
    PROVE  First(S) \subseteq S /\ (S # {} => First(S) # {})
<1>1. ASSUME S # {} PROVE \E m \in S : \A k \in S : m <= k
  <2>1. S \subseteq Nat
    BY PathFacts
  <2>2. PICK m \in S : \A k \in S : ~(<<k, m>> \in OpToRel(<, Nat))
    BY <1>1, <2>1, NatLessThanWellFounded, WFMin, Zenon
  <2>3. ASSUME NEW k \in S PROVE ~(k < m)
    BY <2>1, <2>2, <2>3, Zenon DEF OpToRel
  <2> QED
    BY <2>1, <2>3
<1> QED
  BY <1>1 DEF First

\* The tiers are made of paths; a plan has exactly theirs.
LEMMA PlanFacts ==
    ASSUME NEW v, NEW m \in SUBSET Piholes, NEW t \in Plans(v, m)
    PROVE  /\ t \in Seq(Paths)
           /\ ToSet(t) = Preferred(v, m) \cup Secondary(v, m) \cup LastResort(v, m) \cup Aside(v, m)
           /\ t = <<>> => ToSet(t) = {}
<1>1. PICK a \in SetToSeqs(Preferred(v, m)), b \in SetToSeqs(Secondary(v, m)),
           d \in SetToSeqs(LastResort(v, m)), e \in SetToSeqs(Aside(v, m)) :
         t = a \o b \o d \o e
  BY DEF Plans
<1>2. /\ Preferred(v, m) \subseteq Paths /\ Secondary(v, m) \subseteq Paths
      /\ LastResort(v, m) \subseteq Paths /\ Aside(v, m) \subseteq Paths
  BY DEF Preferred, Secondary, LastResort, Aside, Active, First, UpOf, PathsOf
<1>3. ASSUME NEW S \in SUBSET Paths, NEW x \in SetToSeqs(S)
      PROVE  x \in Seq(Paths) /\ ToSet(x) = S
  <2>1. IsFiniteSet(S)
    BY PathFacts, FS_Subset
  <2>2. x \in Seq(S) /\ ToSet(x) = S
    BY <2>1, PermutationFacts
  <2> QED
    BY <2>2
<1>4. /\ a \in Seq(Paths) /\ b \in Seq(Paths) /\ d \in Seq(Paths) /\ e \in Seq(Paths)
      /\ ToSet(a) = Preferred(v, m) /\ ToSet(b) = Secondary(v, m)
      /\ ToSet(d) = LastResort(v, m) /\ ToSet(e) = Aside(v, m)
  BY <1>2, <1>3
<1>5. a \o b \in Seq(Paths) /\ ToSet(a \o b) = ToSet(a) \cup ToSet(b)
  BY <1>4, JoinFacts
<1> DEFINE x == a \o b
           y == x \o d
<1>6. t = y \o e /\ x \in Seq(Paths) /\ ToSet(x) = ToSet(a) \cup ToSet(b)
  BY <1>1, <1>5
<1> HIDE DEF x
<1>7. y \in Seq(Paths) /\ ToSet(y) = ToSet(x) \cup ToSet(d)
  BY <1>4, <1>6, JoinFacts
<1> HIDE DEF y
<1>8. t \in Seq(Paths) /\ ToSet(t) = ToSet(y) \cup ToSet(e)
  BY <1>4, <1>6, <1>7, JoinFacts
<1>9. t = <<>> => ToSet(t) = {}
  BY DEF ToSet
<1> QED
  BY <1>4, <1>6, <1>7, <1>8, <1>9

\* The loads of a path that did not turn agree.
LEMMA StayedFacts ==
    ASSUME ForwardInv, NEW q \in QueryStates, NEW v \in Views(q), NEW p \in Paths,
           \A n \in DOMAIN q.turned : q.turned[n] # p, NEW k \in 1..5
    PROVE  p \in v[k] <=> up[p]
<1>1. PICK when \in [DOMAIN q.turned -> 1..6] : v = Seen(q, when)
  BY DEF Views
<1>2. Later(q, when, k, p) = {}
  BY DEF Later
<1>3. Cardinality(Later(q, when, k, p)) % 2 = 0
  BY <1>2, FS_EmptySet
<1>4. p \in v[k] <=> up[p] = (Cardinality(Later(q, when, k, p)) % 2 = 0)
  BY <1>1 DEF Seen
<1>5. up[p] \in BOOLEAN
  BY DEF ForwardInv, Shared
<1> QED
  BY <1>3, <1>4, <1>5

\* A path seen up, then down, then up again turned twice.
LEMMA FlickeredFacts ==
    ASSUME NEW q \in QueryStates, NEW v \in Views(q), NEW p \in Paths,
           p \in v[1], p \notin v[2], p \in v[5]
    PROVE  Flickered(q, Owner[p])
<1>1. PICK when \in [DOMAIN q.turned -> 1..6] : v = Seen(q, when)
  BY DEF Views
<1> DEFINE L(k) == Later(q, when, k, p)
<1>2. ASSUME NEW k \in 1..5 PROVE p \in v[k] <=> up[p] = (Cardinality(L(k)) % 2 = 0)
  BY <1>1 DEF Seen
<1>3. 1 \in 1..5 /\ 2 \in 1..5 /\ 5 \in 1..5
  OBVIOUS
<1>4. /\ p \in v[1] <=> up[p] = (Cardinality(L(1)) % 2 = 0)
      /\ p \in v[2] <=> up[p] = (Cardinality(L(2)) % 2 = 0)
      /\ p \in v[5] <=> up[p] = (Cardinality(L(5)) % 2 = 0)
  BY <1>2, <1>3
<1>n. \A n \in DOMAIN q.turned : when[n] \in 1..6
  OBVIOUS
<1>5. L(2) \subseteq L(1) /\ L(5) \subseteq L(2)
  BY <1>n DEF Later
<1> HIDE DEF L
<1>6. L(1) # L(2) /\ L(2) # L(5)
  BY <1>4
<1>7. PICK x \in L(1) : x \notin L(2)
  BY <1>5, <1>6
<1>8. PICK y \in L(2) : y \notin L(5)
  BY <1>5, <1>6
<1>9. /\ x \in DOMAIN q.turned /\ q.turned[x] = p
      /\ y \in DOMAIN q.turned /\ q.turned[y] = p /\ x # y
  BY <1>7, <1>8 DEF L, Later
<1> QED
  BY <1>9 DEF Flickered

\* The last resort has the paths of a Pi-hole seen down, and those of another that are
\* not seen up in the end.
LEMMA LastResortFacts ==
    ASSUME NEW v, NEW m, NEW u, NEW p \in PathsOf(u)
    PROVE  /\ u \in Down(v, m) => p \in LastResort(v, m)
           /\ u \in Healthy(v, m) /\ p \notin UpOf(v, 5, u) => p \in LastResort(v, m)
<1>1. ASSUME u \in Down(v, m) PROVE p \in LastResort(v, m)
  <2>1. PathsOf(u) \in {PathsOf(w) : w \in Down(v, m)}
    BY <1>1
  <2> QED
    BY <2>1 DEF LastResort
<1>2. ASSUME u \in Healthy(v, m), p \notin UpOf(v, 5, u) PROVE p \in LastResort(v, m)
  <2>1. PathsOf(u) \ UpOf(v, 5, u) \in {PathsOf(w) \ UpOf(v, 5, w) : w \in Healthy(v, m)}
    BY <1>2
  <2> QED
    BY <1>2, <2>1 DEF LastResort
<1> QED
  BY <1>1, <1>2

\* Plan returns nothing only if every Pi-hole flickered: with a mark seen, the
\* drained ones would be planned, and of a Pi-hole seen healthy and then with no path
\* up, every path must be up again when the last resort is collected.
LEMMA EmptyFacts ==
    ASSUME ForwardInv, NEW q \in QueryStates, NEW v \in Views(q), NEW m \in SUBSET Piholes,
           Preferred(v, m) \cup Secondary(v, m) \cup LastResort(v, m) \cup Aside(v, m) = {},
           NEW u \in Piholes
    PROVE  Flickered(q, u)
<1>0. /\ Preferred(v, m) \cup Secondary(v, m) \cup LastResort(v, m) = {}
      /\ Preferred(v, m) = {} /\ LastResort(v, m) = {} /\ Aside(v, m) = {}
  OBVIOUS
<1>1. m = {}
  <2> SUFFICES ASSUME NEW w \in m PROVE FALSE
    OBVIOUS
  <2>1. PathsOf(w) # {} /\ PathsOf(w) \in {PathsOf(x) : x \in m}
    BY PathFacts
  <2>2. UNION {PathsOf(x) : x \in m} = {}
    BY <1>0 DEF Aside
  <2> QED
    BY <2>1, <2>2
<1>2. u \notin Down(v, m)
  BY <1>0, PathFacts, LastResortFacts
<1>3. u \in Healthy(v, m)
  BY <1>1, <1>2 DEF Down
<1>4. PICK p \in PathsOf(u) : p \in v[1]
  BY <1>3 DEF Healthy, UpOf
<1>5. p \in Paths /\ Owner[p] = u
  BY <1>4 DEF PathsOf
<1>7. p \in v[5]
  BY <1>0, <1>3, <1>4, LastResortFacts DEF UpOf
<1>8. Active(v, 2, u) = {}
  BY <1>0, <1>3 DEF Preferred
<1>9. UpOf(v, 2, u) = {}
  <2>1. UpOf(v, 2, u) \in SUBSET Paths
    BY DEF UpOf, PathsOf
  <2> QED
    BY <1>8, <2>1, FirstFacts DEF Active
<1>10. p \notin v[2]
  BY <1>4, <1>9 DEF UpOf
<1> QED
  BY <1>4, <1>5, <1>7, <1>10, FlickeredFacts

\* A path whose Pi-hole kept its verdicts, and is not seen drained, is in a tier.
LEMMA KeptFacts ==
    ASSUME ForwardInv, NEW q \in QueryStates, NEW v \in Views(q), NEW m \in SUBSET Piholes,
           NEW p \in Paths, Undisturbed(q, p), Owner[p] \notin m
    PROVE  p \in Preferred(v, m) \cup Secondary(v, m) \cup LastResort(v, m)
<1> DEFINE u == Owner[p]
           S == {r \in PathsOf(u) : up[r]}
<1>1. u \in Piholes \ m /\ p \in PathsOf(u)
  BY PathFacts
<1>2. ASSUME NEW k \in 1..5 PROVE UpOf(v, k, u) = S
  <2>1. ASSUME NEW r \in PathsOf(u) PROVE r \in v[k] <=> up[r]
    <3>1. r \in Paths /\ Owner[r] = u
      BY DEF PathsOf
    <3>2. \A n \in DOMAIN q.turned : q.turned[n] # r
      BY <3>1 DEF Undisturbed
    <3> QED
      BY <3>1, <3>2, StayedFacts
  <2> QED
    BY <2>1 DEF UpOf
<1>3. /\ UpOf(v, 1, u) = S /\ UpOf(v, 2, u) = S /\ UpOf(v, 3, u) = S
      /\ UpOf(v, 4, u) = S /\ UpOf(v, 5, u) = S
  BY <1>2
<1> HIDE DEF u, S
<1>4. CASE u \notin Healthy(v, m)
  BY <1>1, <1>4, LastResortFacts DEF Down
<1>5. CASE u \in Healthy(v, m) /\ p \notin S
  BY <1>1, <1>3, <1>5, LastResortFacts
<1>6. CASE u \in Healthy(v, m) /\ p \in S
  <2>1. Active(v, 2, u) = Active(v, 3, u)
    BY <1>3 DEF Active
  <2>2. p \in Active(v, 2, u) \/ p \in UpOf(v, 4, u) \ Active(v, 3, u)
    BY <1>3, <1>6, <2>1
  <2> QED
    BY <1>6, <2>2 DEF Preferred, Secondary
<1> QED
  BY <1>4, <1>5, <1>6

\* Plan and the attempts it allows.
LEMMA MakePlanStep ==
    ASSUME ForwardInv, NEW c \in Clients, MakePlan(c)
    PROVE  ForwardInv'
<1> DEFINE q == query[c]
<1>1. PICK v \in Views(q), m \in Marks(q) : \E p \in Plans(v, m) :
         Step(c, [q EXCEPT !.at = "budget", !.plan = p,
                           !.attempts = Least(MaxAttempts, Len(p))])
  BY DEF MakePlan
<1>2. PICK p \in Plans(v, m) :
         Step(c, [q EXCEPT !.at = "budget", !.plan = p,
                           !.attempts = Least(MaxAttempts, Len(p))])
  BY <1>1
<1>3. m \in SUBSET Piholes /\ \A u \in Piholes \ q.marked : u \in m <=> u \in drained
  BY DEF Marks
<1> DEFINE tiers == Preferred(v, m) \cup Secondary(v, m) \cup LastResort(v, m) \cup Aside(v, m)
<1>4. /\ p \in Seq(Paths) /\ Len(p) \in Nat /\ ToSet(p) = tiers
      /\ (p = <<>> => tiers = {}) /\ (Len(p) = 0 => p = <<>>)
  BY <1>3, PlanFacts
<1> DEFINE a == Least(MaxAttempts, Len(p))
           r == [q EXCEPT !.at = "budget", !.plan = p, !.attempts = a]
<1>5. a \in Nat /\ a <= MaxAttempts /\ a <= Len(p) /\ (a = 0 => p = <<>>)
  BY <1>4, LimitAssumption DEF Least
<1>6. q \in QueryStates /\ QueryOK(q) /\ q.at = "plan"
  BY QueryFacts DEF MakePlan, At
<1>7. p = <<>> => \A u \in Piholes : Flickered(q, u)
  BY <1>3, <1>4, <1>6, EmptyFacts
<1>8. ASSUME NEW s \in Paths, Undisturbed(q, s), s \in q.steady, Owner[s] \notin drained
      PROVE  s \in ToSet(p)
  <2>1. Owner[s] \notin q.marked /\ Owner[s] \in Piholes
    BY <1>6, <1>8, PathFacts DEF QueryOK, Complete
  <2>2. Owner[s] \notin m
    BY <1>3, <1>8, <2>1
  <2> QED
    BY <1>3, <1>4, <1>6, <1>8, <2>2, KeptFacts
<1> HIDE DEF q, a, tiers
<1>9. /\ r \in QueryStates /\ r.at = "budget" /\ r.plan = p /\ r.attempts = a
      /\ r.i = q.i /\ r.list = q.list /\ r.k = q.k /\ r.held = q.held
      /\ r.steady = q.steady /\ r.fixed = q.fixed /\ r.turned = q.turned
  BY <1>4, <1>5, <1>6 DEF QueryStates, Places
<1>r. Step(c, r)
  BY <1>2 DEF q, a
<1> HIDE DEF r
<1>10. q.i = 0 /\ q.k = 0 /\ q.held
  BY <1>6 DEF QueryOK, Placed
<1>11. Bounded(r) /\ Placed(r) /\ Replied(r)
  BY <1>5, <1>6, <1>9, <1>10 DEF QueryOK, Bounded, Placed, Planned, Replied
<1>12. Spent(r) /\ Answering(r)
  BY <1>6, <1>9, <1>10 DEF QueryOK, Spent, Dry, Answering
<1>13. Settled(r)
  BY <1>9 DEF Settled, a
<1>14. Complete(r)
  <2>1. \A u \in Piholes : Flickered(q, u) => Flickered(r, u)
    BY <1>9 DEF Flickered
  <2>2. \A s \in Paths : Undisturbed(r, s) => Undisturbed(q, s)
    BY <1>9 DEF Undisturbed
  <2> QED
    BY <1>5, <1>7, <1>8, <1>9, <2>1, <2>2 DEF Complete, q
<1> QED
  BY <1>r, <1>9, <1>11, <1>12, <1>13, <1>14, OneQuery DEF QueryOK, q

\* HealthyUpstreams goes on, or is done, and the budget is cut at most to one.
LEMMA CensusMoves ==
    ASSUME ForwardInv, NEW c \in Clients, query[c].at \in {"budget", "census", "mark"},
           NEW place \in {"census", "mark", "attempt"}, NEW todo \in SUBSET Paths,
           NEW a \in {query[c].attempts, Least(query[c].attempts, OutageProbeAttempts)},
           query[c].at = "budget" => servers # <<>>,
           Step(c, [query[c] EXCEPT !.at = place, !.todo = todo, !.attempts = a])
    PROVE  ForwardInv'
<1> DEFINE q == query[c]
           r == [q EXCEPT !.at = place, !.todo = todo, !.attempts = a]
<1>1. /\ q \in QueryStates /\ QueryOK(q) /\ q.i \in Nat /\ q.attempts \in Nat /\ q.k \in Nat
      /\ q.plan \in Seq(Paths)
  BY QueryFacts
<1>2. Step(c, r)
  OBVIOUS
<1>3. /\ q.i = 0 /\ q.k = 0 /\ q.held
      /\ q.attempts <= MaxAttempts /\ q.attempts <= Len(q.plan)
  BY <1>1 DEF QueryOK, Placed, Planned, Bounded
<1>4. a \in Nat /\ a <= q.attempts /\ (a = 0 => q.attempts = 0)
  BY <1>1 DEF Least, OutageProbeAttempts
<1>s. q.at \in {"budget", "census", "mark"} /\ (q.at = "budget" => servers # <<>>)
  OBVIOUS
<1> HIDE DEF q
<1>5. /\ r \in QueryStates /\ r.at = place /\ r.plan = q.plan /\ r.attempts = a /\ r.i = q.i
      /\ r.list = q.list /\ r.k = q.k /\ r.held = q.held
      /\ r.steady = q.steady /\ r.fixed = q.fixed /\ r.turned = q.turned
  BY <1>1, <1>4 DEF QueryStates, Places
<1> HIDE DEF r
<1>6. Len(q.plan) \in Nat /\ MaxAttempts \in Nat
  BY <1>1, LimitAssumption
<1>7. Bounded(r)
  BY <1>1, <1>3, <1>4, <1>5, <1>6 DEF QueryOK, Bounded
<1>8. Placed(r) /\ Replied(r)
  BY <1>3, <1>4, <1>5 DEF Placed, Planned, Replied
<1>9. Spent(r) /\ Answering(r)
  BY <1>1, <1>5 DEF QueryOK, Spent, Answering
<1>10. Settled(r)
  BY <1>1, <1>5, <1>s DEF QueryOK, Settled, Planned
<1>11. Complete(r)
  BY <1>1, <1>4, <1>5, <1>s, CompleteKept DEF QueryOK, Planned
<1> QED
  BY <1>2, <1>5, <1>7, <1>8, <1>9, <1>10, <1>11, OneQuery DEF QueryOK, q

\* The tests of the outage shortcut and of the two loops, and the fallback's own
\* test: the query moves to another place.
LEMMA TestStep ==
    ASSUME ForwardInv, NEW c \in Clients,
           Budget(c) \/ Attempt(c) \/ Fallback(c) \/ PublicAttempt(c)
    PROVE  ForwardInv'
<1> DEFINE q == query[c]
<1>q. /\ q \in QueryStates /\ QueryOK(q) /\ q.i \in Nat /\ q.attempts \in Nat /\ q.k \in Nat
      /\ q.list \in Seq(ToSet(PublicServers))
  BY QueryFacts
<1>p. ASSUME NEW place \in Places, Step(c, [q EXCEPT !.at = place]),
             q.at \in {"budget", "attempt", "fallback", "public"},
             place \in {"attempt", "exchange", "fallback", "servers", "ask", "failed"},
             place = "attempt" => q.at = "budget",
             place \in {"exchange", "fallback"} => q.at = "attempt",
             place = "exchange" => q.i < q.attempts,
             place = "fallback" => canceled \/ q.i >= q.attempts,
             place = "servers" => q.at = "fallback",
             place = "ask" => q.at = "public" /\ q.k < Len(q.list) /\ ~canceled,
             place = "failed" => \/ q.at = "fallback" /\ servers = <<>>
                                 \/ q.at = "public" /\ (canceled \/ q.k >= Len(q.list))
      PROVE  ForwardInv'
  <2> DEFINE r == [q EXCEPT !.at = place]
  <2>1. /\ r \in QueryStates /\ r.at = place
        /\ r.req = q.req /\ r.plan = q.plan /\ r.attempts = q.attempts /\ r.i = q.i
        /\ r.list = q.list /\ r.k = q.k /\ r.reply = q.reply /\ r.held = q.held
        /\ r.steady = q.steady /\ r.fixed = q.fixed /\ r.turned = q.turned
    BY <1>q, Moved
  <2>2. Step(c, r)
    BY <1>p
  <2> HIDE DEF q, r
  <2>3. Bounded(r) /\ Answering(r) /\ Replied(r)
    BY <1>p, <1>q, <2>1 DEF QueryOK, Bounded, Answering, Replied
  <2>c. Complete(r)
    BY <1>p, <1>q, <2>1, CompleteKept DEF QueryOK, Planned
  <2>4. Placed(r)
    BY <1>p, <1>q, <2>1 DEF QueryOK, Placed, Planned
  <2>5. Spent(r)
    BY <1>p, <1>q, <2>1 DEF QueryOK, Bounded, Spent
  <2>6. Settled(r)
    <3>1. CASE ~(place = "failed" /\ q.at = "public")
      BY <1>p, <1>q, <2>1, <3>1 DEF QueryOK, Settled, Planned
    <3>2. CASE place = "failed" /\ q.at = "public"
      <4> SUFFICES ASSUME r.fixed PROVE canceled \/ \A s \in ToSet(servers) : s \notin r.steady
        BY <1>q, <2>1, <3>2 DEF QueryOK, Settled, Planned
      <4>1. ToSet(q.list) = ToSet(servers)
        BY <1>q, <2>1, <3>2 DEF QueryOK, Settled
      <4>2. canceled \/ q.k = Len(q.list)
        BY <1>p, <1>q, <3>2 DEF QueryOK, Bounded
      <4>3. canceled \/ \A n \in 1..Len(q.list) : q.list[n] \notin q.steady
        BY <1>q, <4>2 DEF QueryOK, Spent, Dry
      <4>4. \A s \in ToSet(q.list) : \E n \in 1..Len(q.list) : s = q.list[n]
        BY <1>q DEF ToSet
      <4> QED
        BY <2>1, <4>1, <4>3, <4>4
    <3> QED
      BY <3>1, <3>2
  <2> QED
    BY <2>1, <2>2, <2>3, <2>c, <2>4, <2>5, <2>6, OneQuery DEF QueryOK, q
<1>1. CASE Budget(c) /\ servers = <<>>
  BY <1>1, <1>p DEF Budget, At, Places
<1>5. CASE Budget(c) /\ servers # <<>>
  <2>1. q.at = "budget" /\ Step(c, [q EXCEPT !.at = "census", !.todo = Paths])
    BY <1>5 DEF Budget, At
  <2>2. [q EXCEPT !.at = "census", !.todo = Paths]
           = [q EXCEPT !.at = "census", !.todo = Paths, !.attempts = q.attempts]
    BY <1>q DEF QueryStates
  <2> QED
    BY <1>5, <2>1, <2>2, CensusMoves
<1>2. CASE Attempt(c)
  BY <1>2, <1>p, <1>q DEF Attempt, Continues, At, Places
<1>3. CASE Fallback(c)
  BY <1>3, <1>p DEF Fallback, At, Places
<1>4. CASE PublicAttempt(c)
  BY <1>4, <1>p, <1>q DEF PublicAttempt, Goes, At, Places
<1> QED
  BY <1>1, <1>2, <1>3, <1>4, <1>5

\* The index a rotation reads, without the remainder.
LEMMA Remainder ==
    ASSUME NEW n \in Nat \ {0}, NEW m \in 0..(n - 1)
    PROVE  m % n = m /\ (m + n) % n = m
  OBVIOUS

\* A rotation of a list has the list's members.
LEMMA RotationFacts ==
    ASSUME NEW S, NEW s \in Seq(S), NEW l \in Rotations(s)
    PROVE  l \in Seq(S) /\ Len(l) = Len(s) /\ ToSet(l) = ToSet(s)
<1>1. PICK start \in 0..(Len(s) - 1) :
         l = [n \in 1..Len(s) |-> s[((start + n - 1) % Len(s)) + 1]]
  BY DEF Rotations
<1> DEFINE N == Len(s)
           at(n) == ((start + n - 1) % N) + 1
<1>2. N \in Nat \ {0} /\ start \in Nat /\ start < N
  BY <1>1
<1>3. ASSUME NEW n \in 1..N
      PROVE  at(n) = IF start + n <= N THEN start + n ELSE start + n - N
  <2>1. CASE start + n <= N
    <3>1. start + n - 1 \in 0..(N - 1)
      BY <1>2, <2>1
    <3>2. (start + n - 1) % N = start + n - 1
      BY <1>2, <3>1, Remainder
    <3> QED
      BY <3>2, <2>1, <1>2
  <2>2. CASE start + n > N
    <3>1. start + n - 1 - N \in 0..(N - 1)
      BY <1>2, <2>2
    <3>2. (start + n - 1 - N) + N = start + n - 1
      BY <1>2
    <3>3. (start + n - 1) % N = start + n - 1 - N
      BY <1>2, <3>1, <3>2, Remainder
    <3> QED
      BY <3>3, <2>2, <1>2
  <2> QED
    BY <2>1, <2>2, <1>2
<1>4. l = [n \in 1..N |-> s[at(n)]]
  BY <1>1
<1> HIDE DEF at, N
<1>5. \A n \in 1..N : at(n) \in 1..N
  BY <1>2, <1>3
<1>6. ASSUME NEW m \in 1..N PROVE \E n \in 1..N : at(n) = m
  <2>1. CASE m > start
    <3>1. m - start \in 1..N /\ start + (m - start) = m /\ m <= N
      BY <1>2, <2>1
    <3>2. at(m - start) = m
      BY <3>1, <1>3
    <3> QED
      BY <3>1, <3>2
  <2>2. CASE m <= start
    <3>1. m - start + N \in 1..N /\ start + (m - start + N) = m + N /\ m + N > N /\ m + N - N = m
      BY <1>2, <2>2
    <3>2. at(m - start + N) = m
      BY <3>1, <1>2, <1>3
    <3> QED
      BY <3>1, <3>2
  <2> QED
    BY <2>1, <2>2, <1>2
<1>7. N = Len(s) /\ \A m \in 1..N : s[m] \in S
  BY DEF N
<1>8. l \in [1..N -> S]
  BY <1>4, <1>5, <1>7
<1>9. l \in Seq(S) /\ Len(l) = N /\ DOMAIN l = 1..N /\ DOMAIN s = 1..N
  BY <1>2, <1>7, <1>8
<1>10. ToSet(l) \subseteq ToSet(s)
  BY <1>4, <1>5, <1>9 DEF ToSet
<1>11. ToSet(s) \subseteq ToSet(l)
  BY <1>4, <1>6, <1>9 DEF ToSet
<1> QED
  BY <1>7, <1>9, <1>10, <1>11

\* The outage shortcut: HealthyUpstreams looks at the next path or mark, or ends.
LEMMA CensusStep ==
    ASSUME ForwardInv, NEW c \in Clients, Census(c) \/ CensusMark(c)
    PROVE  ForwardInv'
<1> DEFINE q == query[c]
           Moving(place, todo, a) == [q EXCEPT !.at = place, !.todo = todo, !.attempts = a]
           one == Least(q.attempts, OutageProbeAttempts)
<1>1. q \in QueryStates /\ q.todo \subseteq Paths /\ q.at \in {"census", "mark"}
  BY QueryFacts DEF Census, CensusMark, At
<1>2. ASSUME NEW place \in {"census", "mark", "attempt"}, NEW todo \in SUBSET Paths,
             NEW a \in {q.attempts, one}, Step(c, Moving(place, todo, a))
      PROVE  ForwardInv'
  BY <1>1, <1>2, CensusMoves
<1>3. /\ [q EXCEPT !.at = "attempt", !.attempts = Least(@, OutageProbeAttempts)]
            = Moving("attempt", q.todo, one)
      /\ [q EXCEPT !.at = "mark"] = Moving("mark", q.todo, q.attempts)
      /\ \A t : [q EXCEPT !.todo = @ \ t] = Moving(q.at, q.todo \ t, q.attempts)
      /\ \A t : [q EXCEPT !.at = "census", !.todo = @ \ t]
                   = Moving("census", q.todo \ t, q.attempts)
      /\ [q EXCEPT !.at = "attempt", !.todo = {}] = Moving("attempt", {}, q.attempts)
  BY <1>1 DEF QueryStates
<1>4. \A t : q.todo \ t \in SUBSET Paths
  BY <1>1
<1> HIDE DEF Moving, one
<1>5. CASE Census(c)
  <2>1. CASE Step(c, Moving("attempt", q.todo, one))
    BY <1>1, <1>2, <2>1
  <2>2. CASE \E p \in First(q.todo) :
                Step(c, IF up[p] THEN Moving("mark", q.todo, q.attempts)
                        ELSE Moving(q.at, q.todo \ {p}, q.attempts))
    <3>1. PICK p \in First(q.todo) :
             Step(c, IF up[p] THEN Moving("mark", q.todo, q.attempts)
                     ELSE Moving(q.at, q.todo \ {p}, q.attempts))
      BY <2>2
    <3>2. CASE up[p]
      BY <1>1, <1>2, <3>1, <3>2
    <3>3. CASE ~up[p]
      BY <1>1, <1>2, <1>4, <3>1, <3>3
    <3> QED
      BY <3>2, <3>3
  <2>3. \/ Step(c, [q EXCEPT !.at = "attempt", !.attempts = Least(@, OutageProbeAttempts)])
        \/ \E p \in First(q.todo) : Step(c, IF up[p] THEN [q EXCEPT !.at = "mark"]
                                            ELSE [q EXCEPT !.todo = @ \ {p}])
    BY <1>5 DEF Census
  <2>4. \/ Step(c, Moving("attempt", q.todo, one))
        \/ \E p \in First(q.todo) :
              Step(c, IF up[p] THEN Moving("mark", q.todo, q.attempts)
                      ELSE Moving(q.at, q.todo \ {p}, q.attempts))
    BY <1>3, <2>3
  <2> QED
    BY <2>1, <2>2, <2>4
<1>6. CASE CensusMark(c)
  <2>1. PICK p \in First(q.todo) :
           Step(c, IF Owner[p] \in drained
                   THEN [q EXCEPT !.at = "census", !.todo = @ \ PathsOf(Owner[p])]
                   ELSE [q EXCEPT !.at = "attempt", !.todo = {}])
    BY <1>6 DEF CensusMark
  <2>2. CASE Owner[p] \in drained
    <3>1. Step(c, Moving("census", q.todo \ PathsOf(Owner[p]), q.attempts))
      BY <1>3, <2>1, <2>2
    <3> QED
      BY <1>2, <1>4, <3>1
  <2>3. CASE Owner[p] \notin drained
    <3>1. Step(c, Moving("attempt", {}, q.attempts))
      BY <1>3, <2>1, <2>3
    <3> QED
      BY <1>2, <3>1
  <2> QED
    BY <2>2, <2>3
<1> QED
  BY <1>5, <1>6

\* An exchange yields what its server would answer, or an error once the context
\* is done.
LEMMA ExchangedFacts ==
    ASSUME NEW s, NEW o \in Exchanged(s), o # "answer", reach[s] = "answer"
    PROVE  canceled
  BY DEF Exchanged

\* One more place of a list was tried in vain.
LEMMA DryNext ==
    ASSUME NEW s, NEW n \in Nat, NEW steady, Dry(s, n, steady), s[n + 1] \notin steady
    PROVE  Dry(s, n + 1, steady)
<1> SUFFICES ASSUME NEW m \in 1..(n + 1) PROVE s[m] \notin steady
  BY DEF Dry
<1>1. m \in 1..n \/ m = n + 1
  OBVIOUS
<1> QED
  BY <1>1 DEF Dry

\* One attempt on a Pi-hole: answered, or counted against the budget.
LEMMA ExchangeStep ==
    ASSUME ForwardInv, NEW c \in Clients, Exchange(c)
    PROVE  ForwardInv'
<1> DEFINE q == query[c]
<1>1. /\ q \in QueryStates /\ QueryOK(q) /\ q.i \in Nat /\ q.attempts \in Nat /\ q.k \in Nat
      /\ q.plan \in Seq(Paths) /\ q.last \in BOOLEAN /\ q.at = "exchange"
  BY QueryFacts DEF Exchange, At
<1>2. PICK o \in Exchanged(q.plan[q.i + 1]) :
         \/ /\ o = "answer"
            /\ Step(c, Returned(q, "pihole"))
         \/ /\ o # "answer"
            /\ Step(c, [q EXCEPT !.at = "attempt", !.i = q.i + 1, !.last = @ \/ o = "rcode"])
  BY DEF Exchange, Tried
<1>3. q.i < q.attempts /\ q.k = 0 /\ q.held
  BY <1>1 DEF QueryOK, Placed, Planned
<1>4. CASE o = "answer"
  <2>1. Step(c, Returned(q, "pihole"))
    BY <1>2, <1>4
  <2>2. q.req \in Requests /\ q.held = TRUE
    BY <1>1, <1>3 DEF QueryStates
  <2> QED
    BY <2>1, <2>2, ReturnedOK, OneQuery DEF Replies
<1>5. CASE o # "answer"
  <2> DEFINE last == q.last \/ o = "rcode"
             r == [q EXCEPT !.at = "attempt", !.i = q.i + 1, !.last = last]
  <2>1. Step(c, r)
    BY <1>2, <1>5
  <2>2. last \in BOOLEAN /\ q.i + 1 \in Nat
    BY <1>1
  <2> HIDE DEF q, last
  <2>3. /\ r \in QueryStates /\ r.at = "attempt" /\ r.i = q.i + 1
        /\ r.plan = q.plan /\ r.attempts = q.attempts
        /\ r.list = q.list /\ r.k = q.k /\ r.held = q.held
        /\ r.steady = q.steady /\ r.fixed = q.fixed /\ r.turned = q.turned
    BY <1>1, <2>2 DEF QueryStates, Places
  <2> HIDE DEF r
  <2>4. Bounded(r)
    BY <1>1, <1>3, <2>3 DEF QueryOK, Bounded
  <2>5. Placed(r) /\ Replied(r)
    BY <1>3, <2>3 DEF Placed, Planned, Replied
  <2>6. canceled \/ q.plan[q.i + 1] \notin q.steady
    BY <1>1, <1>2, <1>5, ExchangedFacts DEF QueryOK, Answering
  <2>7. canceled \/ Dry(r.plan, r.i, r.steady)
    BY <1>1, <2>3, <2>6, DryNext DEF QueryOK, Spent
  <2>8. Spent(r) /\ Answering(r) /\ Settled(r)
    BY <1>1, <2>3, <2>7 DEF QueryOK, Spent, Answering, Settled, Planned
  <2>9. Complete(r)
    BY <1>1, <2>3, CompleteKept DEF QueryOK, Planned
  <2> QED
    BY <2>1, <2>3, <2>4, <2>5, <2>8, <2>9, OneQuery DEF QueryOK, q
<1> QED
  BY <1>4, <1>5

\* Resolve takes a rotation of the whole list, or finds none.
LEMMA TakeServersStep ==
    ASSUME ForwardInv, NEW c \in Clients, TakeServers(c)
    PROVE  ForwardInv'
<1> DEFINE q == query[c]
<1>1. /\ q \in QueryStates /\ QueryOK(q) /\ q.i \in Nat /\ q.attempts \in Nat /\ q.k \in Nat
      /\ q.at = "servers" /\ q.k = 0
  BY QueryFacts DEF TakeServers, At, QueryOK, Placed
<1>2. CASE servers = <<>>
  <2> DEFINE r == [q EXCEPT !.at = "failed"]
  <2>1. Step(c, r)
    BY <1>2 DEF TakeServers
  <2> HIDE DEF q
  <2>2. /\ r \in QueryStates /\ r.at = "failed"
        /\ r.plan = q.plan /\ r.attempts = q.attempts /\ r.i = q.i
        /\ r.list = q.list /\ r.k = q.k /\ r.held = q.held
        /\ r.steady = q.steady /\ r.fixed = q.fixed /\ r.turned = q.turned
    BY <1>1, Moved DEF Places
  <2> HIDE DEF r
  <2>3. Bounded(r) /\ Placed(r) /\ Replied(r)
    BY <1>1, <2>2 DEF QueryOK, Bounded, Placed, Planned, Replied
  <2>4. Spent(r) /\ Answering(r) /\ Settled(r)
    BY <1>1, <1>2, <2>2 DEF QueryOK, Spent, Answering, Settled, Planned
  <2>5. Complete(r)
    BY <1>1, <2>2, CompleteKept DEF QueryOK, Planned
  <2> QED
    BY <2>1, <2>2, <2>3, <2>4, <2>5, OneQuery DEF QueryOK, q
<1>3. CASE servers # <<>>
  <2>1. PICK l \in Rotations(servers) : Step(c, [q EXCEPT !.at = "public", !.list = l])
    BY <1>3 DEF TakeServers
  <2>2. servers = PublicServers
    BY <1>3 DEF ForwardInv, Shared
  <2>3. l \in Seq(ToSet(PublicServers)) /\ ToSet(l) = ToSet(servers) /\ Len(l) \in Nat
    BY <2>2, RotationFacts, ServerAssumption
  <2> DEFINE r == [q EXCEPT !.at = "public", !.list = l]
  <2> HIDE DEF q
  <2>4. /\ r \in QueryStates /\ r.at = "public" /\ r.list = l
        /\ r.plan = q.plan /\ r.attempts = q.attempts /\ r.i = q.i
        /\ r.k = q.k /\ r.held = q.held
        /\ r.steady = q.steady /\ r.fixed = q.fixed /\ r.turned = q.turned
    BY <1>1, <2>3 DEF QueryStates, Places
  <2>5. Step(c, r)
    BY <2>1 DEF q
  <2> HIDE DEF r
  <2>6. Bounded(r) /\ Placed(r) /\ Replied(r)
    BY <1>1, <2>3, <2>4 DEF QueryOK, Bounded, Placed, Planned, Replied
  <2>7. Spent(r) /\ Answering(r)
    BY <1>1, <2>4 DEF QueryOK, Spent, Answering, Dry
  <2>8. Settled(r)
    BY <1>3, <2>3, <2>4 DEF Settled
  <2>9. Complete(r)
    BY <1>1, <2>4, CompleteKept DEF QueryOK, Planned
  <2> QED
    BY <2>4, <2>5, <2>6, <2>7, <2>8, <2>9, OneQuery DEF QueryOK, q
<1> QED
  BY <1>2, <1>3

\* A public resolver is asked: the next one follows, or its reply is taken.
LEMMA AskPublicStep ==
    ASSUME ForwardInv, NEW c \in Clients, AskPublic(c)
    PROVE  ForwardInv'
<1> DEFINE q == query[c]
<1>1. /\ q \in QueryStates /\ QueryOK(q) /\ q.i \in Nat /\ q.attempts \in Nat /\ q.k \in Nat
      /\ q.list \in Seq(ToSet(PublicServers)) /\ q.at = "ask"
  BY QueryFacts DEF AskPublic, At
<1>2. PICK o \in Exchanged(q.list[q.k + 1]) :
         \/ /\ Moves(q, o)
            /\ Step(c, [q EXCEPT !.at = "public", !.k = @ + 1])
         \/ /\ ~Moves(q, o)
            /\ Step(c, Returned(q, "public"))
  BY DEF AskPublic
<1>3. q.k < Len(q.list) /\ Len(q.list) \in Nat
  BY <1>1 DEF QueryOK, Placed
<1>4. CASE Moves(q, o)
  <2> DEFINE r == [q EXCEPT !.at = "public", !.k = @ + 1]
  <2>1. Step(c, r)
    BY <1>2, <1>4
  <2>2. q.k + 1 \in Nat /\ o # "answer"
    BY <1>1, <1>4 DEF Moves
  <2> HIDE DEF q
  <2>3. /\ r \in QueryStates /\ r.at = "public" /\ r.k = q.k + 1
        /\ r.plan = q.plan /\ r.attempts = q.attempts /\ r.i = q.i
        /\ r.list = q.list /\ r.held = q.held
        /\ r.steady = q.steady /\ r.fixed = q.fixed /\ r.turned = q.turned
    BY <1>1, <2>2 DEF QueryStates, Places
  <2> HIDE DEF r
  <2>4. Bounded(r) /\ Placed(r) /\ Replied(r)
    BY <1>1, <1>3, <2>3 DEF QueryOK, Bounded, Placed, Planned, Replied
  <2>5. canceled \/ q.list[q.k + 1] \notin q.steady
    BY <1>1, <1>2, <2>2, ExchangedFacts DEF QueryOK, Answering
  <2>6. canceled \/ Dry(r.list, r.k, r.steady)
    BY <1>1, <2>3, <2>5, DryNext DEF QueryOK, Spent
  <2>7. Spent(r)
    <3>1. q.i = q.attempts /\ Dry(q.plan, q.i, q.steady)
      BY <1>1 DEF QueryOK, Spent
    <3>2. r.i = r.attempts /\ Dry(r.plan, r.i, r.steady)
      BY <3>1, <2>3
    <3>3. canceled \/ (Dry(r.plan, r.i, r.steady) /\ Dry(r.list, r.k, r.steady))
      BY <3>2, <2>6, Zenon
    <3> QED
      BY <3>2, <3>3, <2>3 DEF Spent
  <2>8. Answering(r) /\ Settled(r)
    BY <1>1, <2>3 DEF QueryOK, Answering, Settled, Planned
  <2>9. Complete(r)
    BY <1>1, <2>3, CompleteKept DEF QueryOK, Planned
  <2> QED
    BY <2>1, <2>3, <2>4, <2>7, <2>8, <2>9, OneQuery DEF QueryOK, q
<1>5. CASE ~Moves(q, o)
  <2>1. Step(c, Returned(q, "public"))
    BY <1>2, <1>5
  <2>2. q.req \in Requests /\ q.held = TRUE
    BY <1>1 DEF QueryStates, QueryOK, Placed, Planned
  <2> QED
    BY <2>1, <2>2, ReturnedOK, OneQuery DEF Replies
<1> QED
  BY <1>4, <1>5

\* Nothing answered: a request with a readable question still gets a reply.
LEMMA FailStep ==
    ASSUME ForwardInv, NEW c \in Clients, Fail(c)
    PROVE  ForwardInv'
<1> DEFINE q == query[c]
           f == Failure(q)
<1>1. q \in QueryStates /\ QueryOK(q) /\ q.at = "failed"
  BY QueryFacts DEF Fail, At
<1>2. Step(c, Returned(q, f))
  BY DEF Fail
<1>3. f \in Replies /\ (q.req = "plain" => f # "none")
  BY DEF Failure, ErrorResponse, Replies
<1>4. q.req \in Requests /\ q.held = TRUE
  BY <1>1 DEF QueryStates, QueryOK, Placed, Planned
<1> HIDE DEF f
<1> QED
  BY <1>2, <1>3, <1>4, ReturnedOK, OneQuery

\* The reply is written: a query that still has its slot is about to release it.
LEMMA WriteStep ==
    ASSUME ForwardInv, NEW c \in Clients, Write(c)
    PROVE  ForwardInv'
<1> DEFINE q == query[c]
           r == [q EXCEPT !.at = "release"]
<1>1. q \in QueryStates /\ QueryOK(q) /\ q.at = "reply" /\ q.held \in BOOLEAN
  BY QueryFacts DEF Write, At
<1>2. CASE q.held
  <2>1. Step(c, r)
    BY <1>2 DEF Write, Written
  <2> HIDE DEF q
  <2>2. /\ r \in QueryStates /\ r.at = "release"
        /\ r.plan = q.plan /\ r.attempts = q.attempts /\ r.i = q.i
        /\ r.list = q.list /\ r.k = q.k /\ r.held = q.held
        /\ r.steady = q.steady /\ r.fixed = q.fixed /\ r.turned = q.turned
    BY <1>1, Moved DEF Places
  <2> HIDE DEF r
  <2>3. Bounded(r) /\ Placed(r) /\ Replied(r)
    BY <1>1, <1>2, <2>2 DEF QueryOK, Bounded, Placed, Planned, Replied
  <2>4. Spent(r) /\ Answering(r) /\ Settled(r) /\ Complete(r)
    BY <1>1, <2>2 DEF QueryOK, Spent, Answering, Settled, Planned, Complete
  <2> QED
    BY <2>1, <2>2, <2>3, <2>4, OneQuery DEF QueryOK, q
<1>3. CASE ~q.held
  <2>1. Step(c, NoQuery)
    BY <1>3 DEF Write, Written
  <2>2. NoQuery.held = q.held
    BY <1>1, <1>3 DEF NoQuery
  <2> QED
    BY <2>1, <2>2, NoQueryOK, OneQuery
<1> QED
  BY <1>2, <1>3

\* A query is shed: it has a reply and no slot.
LEMMA ShedStep ==
    ASSUME ForwardInv, NEW c \in Clients, NEW req \in Requests, Shed(c, req)
    PROVE  ForwardInv'
<1> DEFINE f == ErrorResponse(req)
           r == [NoQuery EXCEPT !.req = req, !.at = "reply", !.reply = f]
<1>1. /\ query[c].at = "idle" /\ Step(c, r)
      /\ query[c].held \in BOOLEAN /\ ~query[c].held
  BY QueryFacts DEF Shed, At, QueryOK, Placed
<1>2. f \in Replies /\ (req = "plain" => f # "none")
  BY DEF ErrorResponse, Replies
<1> HIDE DEF f
<1>3. /\ r \in QueryStates /\ r.at = "reply" /\ r.reply = f /\ r.req = req
      /\ r.plan = <<>> /\ r.attempts = 0 /\ r.i = 0 /\ r.list = <<>> /\ r.k = 0
      /\ r.held = FALSE /\ r.steady = {} /\ r.fixed = TRUE
  BY <1>2, NoQueryOK DEF QueryStates, Places
<1> HIDE DEF r
<1>4. Bounded(r) /\ Placed(r) /\ Replied(r)
  BY <1>2, <1>3, LimitAssumption DEF Bounded, Placed, Planned, Replied
<1>5. Spent(r) /\ Answering(r) /\ Settled(r) /\ Complete(r)
  BY <1>3 DEF Spent, Dry, Answering, Settled, Planned, Complete
<1> QED
  BY <1>1, <1>3, <1>4, <1>5, OneQuery DEF QueryOK

\* A query takes a slot that is free.
LEMMA AcceptStep ==
    ASSUME ForwardInv, NEW c \in Clients, NEW req \in Requests, Accept(c, req)
    PROVE  ForwardInv'
<1> DEFINE place == IF req = "malformed" THEN "reply" ELSE "plan"
           steady == {s \in Reachable : reach[s] = "answer"}
           r == [NoQuery EXCEPT !.req = req, !.held = TRUE, !.at = place, !.steady = steady]
<1>1. /\ query[c].at = "idle" /\ sem < MaxConcurrent /\ sem' = sem + 1
      /\ query' = [query EXCEPT ![c] = r] /\ UNCHANGED env
      /\ query[c].held \in BOOLEAN /\ ~query[c].held
  BY QueryFacts DEF Accept, At, QueryOK, Placed
<1>2. place \in {"reply", "plan"} /\ (req = "plain" => place = "plan")
  OBVIOUS
<1>3. steady \in SUBSET Reachable /\ \A s \in steady : reach[s] = "answer"
  OBVIOUS
<1> HIDE DEF place, steady
<1>4. /\ r \in QueryStates /\ r.at = place /\ r.reply = "none" /\ r.req = req
      /\ r.plan = <<>> /\ r.attempts = 0 /\ r.i = 0 /\ r.list = <<>> /\ r.k = 0
      /\ r.held = TRUE /\ r.steady = steady /\ r.fixed = TRUE /\ r.marked = {}
  BY <1>2, <1>3, NoQueryOK DEF QueryStates, Places
<1> HIDE DEF r
<1>5. Bounded(r) /\ Placed(r) /\ Replied(r)
  BY <1>2, <1>4, LimitAssumption DEF Bounded, Placed, Planned, Replied
<1>6. Spent(r) /\ Answering(r) /\ Settled(r) /\ Complete(r)
  BY <1>2, <1>3, <1>4 DEF Spent, Dry, Answering, Settled, Planned, Complete
<1>7. /\ query' \in [Clients -> QueryStates]
      /\ \A d \in Clients : query'[d] = IF d = c THEN r ELSE query[d]
  BY <1>1, <1>4 DEF ForwardInv
<1>8. Held' = Held \cup {c} /\ c \notin Held
  BY <1>1, <1>4, <1>7 DEF Held
<1>9. Slots'
  BY <1>1, <1>8, FS_AddElement, FS_CardinalityType, LimitAssumption DEF ForwardInv, Slots
<1>10. /\ reach' = reach /\ up' = up /\ drained' = drained /\ servers' = servers /\ canceled' = canceled
       /\ changes' = changes
  BY <1>1 DEF env
<1>11. Shared'
  BY <1>10 DEF ForwardInv, Shared
<1>12. \A d \in Clients : QueryOK(query'[d])
  BY <1>5, <1>6, <1>7 DEF ForwardInv, QueryOK
<1> QED
  BY <1>7, <1>9, <1>10, <1>11, <1>12
     DEF ForwardInv, QueryOK, Bounded, Placed, Spent, Answering, Settled, Replied, Complete

\* A slot is given back by the query that has it: serveUDP's deferred release and
\* serveTCPConn's.
LEMMA ReleaseStep ==
    ASSUME ForwardInv, NEW c \in Clients, ReleaseUDP(c) \/ ReleaseTCP(c)
    PROVE  ForwardInv'
<1> DEFINE q == query[c]
           r == IF ReleaseUDP(c) THEN NoQuery ELSE [q EXCEPT !.held = FALSE]
<1>1. /\ q \in QueryStates /\ QueryOK(q) /\ q.held
      /\ sem' = sem - 1 /\ query' = [query EXCEPT ![c] = r] /\ UNCHANGED env
  BY QueryFacts DEF ReleaseUDP, ReleaseTCP, At, QueryOK, Placed, ForwardInv
<1>2. r \in QueryStates /\ r.held = FALSE /\ QueryOK(r)
  <2>1. CASE ReleaseUDP(c)
    BY <2>1, NoQueryOK
  <2>2. CASE ~ReleaseUDP(c)
    <3>1. q.at = "reply" /\ r = [q EXCEPT !.held = FALSE]
      BY <2>2 DEF ReleaseTCP, At
    <3> HIDE DEF q, r
    <3>2. /\ r \in QueryStates /\ r.at = "reply" /\ r.reply = q.reply /\ r.req = q.req
          /\ r.plan = q.plan /\ r.attempts = q.attempts /\ r.i = q.i
          /\ r.list = q.list /\ r.k = q.k /\ r.held = FALSE
          /\ r.steady = q.steady /\ r.fixed = q.fixed /\ r.turned = q.turned
      BY <1>1, <3>1 DEF QueryStates
    <3>3. Bounded(r) /\ Placed(r) /\ Replied(r)
      BY <1>1, <3>1, <3>2 DEF QueryOK, Bounded, Placed, Planned, Replied
    <3>4. Spent(r) /\ Answering(r) /\ Settled(r) /\ Complete(r)
      BY <1>1, <3>2 DEF QueryOK, Spent, Answering, Settled, Planned, Complete
    <3> QED
      BY <3>2, <3>3, <3>4 DEF QueryOK
  <2> QED
    BY <2>1, <2>2
<1> HIDE DEF r
<1>3. /\ query' \in [Clients -> QueryStates]
      /\ \A d \in Clients : query'[d] = IF d = c THEN r ELSE query[d]
  BY <1>1, <1>2 DEF ForwardInv
<1>4. Held' = Held \ {c} /\ c \in Held
  BY <1>1, <1>2, <1>3 DEF Held
<1>5. Cardinality(Held) # 0
  BY <1>4, FS_EmptySet DEF ForwardInv, Slots
<1>6. Slots'
  <2>1. /\ IsFiniteSet(Held) /\ sem = Cardinality(Held) /\ sem \in 0..MaxConcurrent
    BY DEF ForwardInv, Slots
  <2>2. IsFiniteSet(Held \ {c}) /\ Cardinality(Held \ {c}) = Cardinality(Held) - 1
    BY <1>4, <2>1, FS_RemoveElement
  <2>3. sem - 1 \in 0..MaxConcurrent
    BY <2>1, <1>5, LimitAssumption
  <2> QED
    BY <1>1, <1>4, <2>1, <2>2, <2>3 DEF Slots
<1>7. /\ reach' = reach /\ up' = up /\ drained' = drained /\ servers' = servers /\ canceled' = canceled
      /\ changes' = changes
  BY <1>1 DEF env
<1>8. Shared'
  BY <1>7 DEF ForwardInv, Shared
<1>9. \A d \in Clients : QueryOK(query'[d])
  BY <1>2, <1>3 DEF ForwardInv
<1> QED
  BY <1>3, <1>6, <1>7, <1>8, <1>9
     DEF ForwardInv, QueryOK, Bounded, Placed, Spent, Answering, Settled, Replied, Complete

\* A step of the environment leaves each query where it is, and may only add to its
\* history: turned verdicts and marks while Plan is not done, a list that changed,
\* servers that are no longer steady.
Recorded(T, M, S, F) ==
    /\ Shared'
    /\ sem' = sem
    /\ canceled => canceled'
    /\ query' = [c \in Clients |-> [query[c] EXCEPT !.turned = T[c], !.marked = M[c],
                                                    !.steady = S[c], !.fixed = F[c]]]
    /\ \A c \in Clients :
          /\ T[c] \in Seq(Paths) /\ M[c] \in SUBSET Piholes
          /\ S[c] \in SUBSET query[c].steady /\ F[c] \in BOOLEAN
          /\ query[c].at \in Planned => T[c] = query[c].turned
          /\ \A s \in S[c] : reach'[s] = "answer"
          /\ F[c] => query[c].fixed /\ servers' = servers
          /\ \A p \in Paths : p \in S[c] =>
                /\ Owner[p] \in drained' <=> Owner[p] \in drained
                /\ Owner[p] \in M[c] => Owner[p] \in query[c].marked

\* Such a step keeps the invariant.
LEMMA EnvironmentMoves ==
    ASSUME ForwardInv, NEW T, NEW M, NEW S, NEW F, Recorded(T, M, S, F)
    PROVE  ForwardInv'
<1>1. ASSUME NEW c \in Clients
      PROVE  /\ query'[c] \in QueryStates /\ query'[c].held = query[c].held
             /\ QueryOK(query[c])'
  <2> DEFINE q == query[c]
             r == [q EXCEPT !.turned = T[c], !.marked = M[c], !.steady = S[c], !.fixed = F[c]]
  <2>1. q \in QueryStates /\ QueryOK(q) /\ q.steady \subseteq Reachable
    BY QueryFacts
  <2>2. query'[c] = r
    BY DEF Recorded
  <2>3. /\ T[c] \in Seq(Paths) /\ M[c] \in SUBSET Piholes /\ S[c] \in SUBSET q.steady
        /\ F[c] \in BOOLEAN /\ (q.at \in Planned => T[c] = q.turned)
        /\ (\A s \in S[c] : reach'[s] = "answer") /\ (F[c] => q.fixed /\ servers' = servers)
        /\ \A p \in Paths : p \in S[c] => /\ Owner[p] \in drained' <=> Owner[p] \in drained
                                          /\ Owner[p] \in M[c] => Owner[p] \in q.marked
    BY DEF Recorded
  <2> HIDE DEF q
  <2>4. /\ r \in QueryStates /\ r.at = q.at /\ r.reply = q.reply /\ r.req = q.req
        /\ r.plan = q.plan /\ r.attempts = q.attempts /\ r.i = q.i
        /\ r.list = q.list /\ r.k = q.k /\ r.held = q.held
        /\ r.turned = T[c] /\ r.marked = M[c] /\ r.steady = S[c] /\ r.fixed = F[c]
    BY <2>1, <2>3 DEF QueryStates
  <2> HIDE DEF r
  <2>5. (Bounded(query[c]) /\ Placed(query[c]) /\ Replied(query[c]))'
    BY <2>1, <2>2, <2>4 DEF QueryOK, Bounded, Placed, Replied
  <2>6. \A t, n : Dry(t, n, q.steady) => Dry(t, n, r.steady)
    BY <2>3, <2>4 DEF Dry
  <2>7. Spent(query[c])'
    BY <2>1, <2>2, <2>4, <2>6 DEF QueryOK, Spent, Recorded
  <2>8. (Answering(query[c]))'
    BY <2>2, <2>3, <2>4 DEF Answering
  <2>9. (Settled(query[c]))'
    <3>1. r.fixed => Settled(q) /\ q.fixed /\ servers' = servers /\ r.steady \subseteq q.steady
      BY <2>1, <2>3, <2>4 DEF QueryOK
    <3>2. canceled => canceled'
      BY DEF Recorded
    <3> QED
      BY <2>2, <2>4, <3>1, <3>2 DEF Settled
  <2>10. (Complete(query[c]))'
    <3>1. CASE q.at \in Planned
      <4>0. r.turned = q.turned
        BY <2>3, <2>4, <3>1
      <4>1. \A u : Flickered(q, u) => Flickered(r, u)
        BY <4>0 DEF Flickered
      <4>2. \A p : Undisturbed(r, p) => Undisturbed(q, p)
        BY <4>0 DEF Undisturbed
      <4>3. q.at # "plan"
        BY <3>1 DEF Planned
      <4>4. Complete(q)
        BY <2>1 DEF QueryOK
      <4> QED
        BY <2>2, <2>3, <2>4, <3>1, <4>1, <4>2, <4>3, <4>4 DEF Complete
    <3>2. CASE q.at \notin Planned
      <4>1. q.at = "plan" => \A p \in Paths : p \in q.steady => Owner[p] \notin q.marked
        BY <2>1 DEF QueryOK, Complete
      <4> QED
        BY <2>2, <2>3, <2>4, <3>2, <4>1 DEF Complete
    <3> QED
      BY <3>1, <3>2
  <2> QED
    BY <2>2, <2>4, <2>5, <2>7, <2>8, <2>9, <2>10 DEF QueryOK, q
<1>2. Held' = Held
  BY <1>1 DEF Held
<1>3. Slots'
  BY <1>2 DEF ForwardInv, Slots, Recorded
<1>4. query' \in [Clients -> QueryStates]
  BY <1>1 DEF Recorded
<1> QED
  BY <1>1, <1>3, <1>4 DEF ForwardInv, Recorded

\* The environment changes under the queries: a verdict or a mark that turns is
\* noted by the queries whose Plan is not done, a server that changes leaves every
\* history, a switched fallback list marks every query, a shutdown cuts all short.
LEMMA EnvironmentStep ==
    ASSUME ForwardInv,
           \/ \E s \in Reachable : ReachChanges(s)
           \/ \E p \in Paths : Turn(p)
           \/ \E u \in Piholes : SetDrained(u)
           \/ SetServers \/ Shutdown
    PROVE  ForwardInv'
<1> DEFINE Ts == [c \in Clients |-> query[c].turned]
           Ms == [c \in Clients |-> query[c].marked]
           Ss == [c \in Clients |-> query[c].steady]
           Fs == [c \in Clients |-> query[c].fixed]
<1>c. ASSUME Changing PROVE changes' \in 0..MaxChanges
  BY <1>c, LimitAssumption DEF ForwardInv, Shared, Changing
<1>q. \A c \in Clients :
         /\ query[c] \in QueryStates
         /\ query[c].turned \in Seq(Paths) /\ query[c].marked \in SUBSET Piholes
         /\ query[c].steady \in SUBSET Reachable /\ query[c].fixed \in BOOLEAN
  BY DEF ForwardInv, QueryStates
<1>a. \A c \in Clients : \A s \in query[c].steady : reach[s] = "answer"
  BY DEF ForwardInv, QueryOK, Answering
<1>1. ASSUME NEW s \in Reachable, ReachChanges(s) PROVE ForwardInv'
  <2> DEFINE S == [c \in Clients |-> query[c].steady \ {s}]
  <2>1. PICK o \in Outcomes : reach' = [reach EXCEPT ![s] = o]
    BY <1>1 DEF ReachChanges
  <2>2. reach' \in [Reachable -> Outcomes] /\ \A t \in Reachable : t # s => reach'[t] = reach[t]
    BY <2>1 DEF ForwardInv, Shared
  <2>3. /\ up' = up /\ drained' = drained /\ servers' = servers /\ canceled' = canceled
        /\ sem' = sem /\ Changing
        /\ query' = [c \in Clients |-> [query[c] EXCEPT !.steady = @ \ {s}]]
    BY <1>1 DEF ReachChanges
  <2>4. Shared'
    BY <2>2, <2>3, <1>c DEF ForwardInv, Shared
  <2>5. \A c \in Clients : [query[c] EXCEPT !.steady = @ \ {s}]
           = [query[c] EXCEPT !.turned = Ts[c], !.marked = Ms[c], !.steady = S[c], !.fixed = Fs[c]]
    BY <1>q DEF QueryStates
  <2>6. query' = [c \in Clients |-> [query[c] EXCEPT !.turned = Ts[c], !.marked = Ms[c],
                                                     !.steady = S[c], !.fixed = Fs[c]]]
    BY <2>3, <2>5
  <2>7. \A c \in Clients : \A t \in S[c] : reach'[t] = "answer"
    BY <2>2, <1>a, <1>q
  <2>8. \A c \in Clients : Ts[c] = query[c].turned /\ Ms[c] = query[c].marked
                           /\ Fs[c] = query[c].fixed /\ S[c] \in SUBSET query[c].steady
    OBVIOUS
  <2> HIDE DEF S, Ts, Ms, Fs
  <2>r. Recorded(Ts, Ms, S, Fs)
    BY <1>q, <2>3, <2>4, <2>6, <2>7, <2>8 DEF Recorded
  <2> QED
    BY <2>r, EnvironmentMoves
<1>2. ASSUME NEW p \in Paths, Turn(p) PROVE ForwardInv'
  <2> DEFINE T == [c \in Clients |->
                      IF query[c].at = "plan" THEN Append(query[c].turned, p) ELSE query[c].turned]
  <2>1. /\ reach' = reach /\ drained' = drained /\ servers' = servers /\ canceled' = canceled
        /\ sem' = sem /\ up' = [up EXCEPT ![p] = ~@] /\ Changing
        /\ query' = [c \in Clients |->
              [query[c] EXCEPT !.turned = IF query[c].at = "plan" THEN Append(@, p) ELSE @]]
    BY <1>2 DEF Turn, At
  <2>2. Shared'
    BY <2>1, <1>c DEF ForwardInv, Shared
  <2>3. \A c \in Clients :
           [query[c] EXCEPT !.turned = IF query[c].at = "plan" THEN Append(@, p) ELSE @]
           = [query[c] EXCEPT !.turned = T[c], !.marked = Ms[c], !.steady = Ss[c], !.fixed = Fs[c]]
    BY <1>q DEF QueryStates
  <2>4. query' = [c \in Clients |-> [query[c] EXCEPT !.turned = T[c], !.marked = Ms[c],
                                                     !.steady = Ss[c], !.fixed = Fs[c]]]
    BY <2>1, <2>3
  <2>5. \A c \in Clients : /\ T[c] \in Seq(Paths) /\ (query[c].at \in Planned => T[c] = query[c].turned)
                           /\ Ms[c] = query[c].marked /\ Fs[c] = query[c].fixed
                           /\ Ss[c] = query[c].steady
    BY <1>q DEF Planned
  <2> HIDE DEF T, Ms, Ss, Fs
  <2>r. Recorded(T, Ms, Ss, Fs)
    BY <1>a, <1>q, <2>1, <2>2, <2>4, <2>5 DEF Recorded
  <2> QED
    BY <2>r, EnvironmentMoves
<1>3. ASSUME NEW u \in Piholes, SetDrained(u) PROVE ForwardInv'
  <2> DEFINE M == [c \in Clients |->
                      IF query[c].at = "plan" THEN query[c].marked \cup {u} ELSE query[c].marked]
             S == [c \in Clients |-> query[c].steady \ PathsOf(u)]
  <2>1. /\ reach' = reach /\ up' = up /\ servers' = servers /\ canceled' = canceled
        /\ sem' = sem /\ Changing
        /\ drained' = (IF u \in drained THEN drained \ {u} ELSE drained \cup {u})
        /\ query' = [c \in Clients |->
              [query[c] EXCEPT !.marked = IF query[c].at = "plan" THEN @ \cup {u} ELSE @,
                               !.steady = @ \ PathsOf(u)]]
    BY <1>3 DEF SetDrained, At
  <2>2. Shared'
    BY <2>1, <1>c DEF ForwardInv, Shared
  <2>3. \A c \in Clients :
           [query[c] EXCEPT !.marked = IF query[c].at = "plan" THEN @ \cup {u} ELSE @,
                            !.steady = @ \ PathsOf(u)]
           = [query[c] EXCEPT !.turned = Ts[c], !.marked = M[c], !.steady = S[c], !.fixed = Fs[c]]
    BY <1>q DEF QueryStates
  <2>4. query' = [c \in Clients |-> [query[c] EXCEPT !.turned = Ts[c], !.marked = M[c],
                                                     !.steady = S[c], !.fixed = Fs[c]]]
    BY <2>1, <2>3
  <2>5. \A c \in Clients : /\ Ts[c] = query[c].turned /\ M[c] \in SUBSET Piholes
                           /\ Fs[c] = query[c].fixed /\ S[c] \in SUBSET query[c].steady
    BY <1>q
  <2>6. \A c \in Clients, p \in Paths :
           p \in S[c] => /\ Owner[p] \in drained' <=> Owner[p] \in drained
                         /\ Owner[p] \in M[c] => Owner[p] \in query[c].marked
    <3> SUFFICES ASSUME NEW c \in Clients, NEW p \in Paths, p \in S[c]
                 PROVE  /\ Owner[p] \in drained' <=> Owner[p] \in drained
                        /\ Owner[p] \in M[c] => Owner[p] \in query[c].marked
      OBVIOUS
    <3>1. Owner[p] # u
      BY DEF PathsOf
    <3> QED
      BY <2>1, <3>1
  <2> HIDE DEF Ts, M, S, Fs
  <2>r. Recorded(Ts, M, S, Fs)
    BY <1>a, <1>q, <2>1, <2>2, <2>4, <2>5, <2>6 DEF Recorded
  <2> QED
    BY <2>r, EnvironmentMoves
<1>4. CASE SetServers
  <2> DEFINE F == [c \in Clients |-> FALSE]
  <2>1. /\ reach' = reach /\ up' = up /\ drained' = drained /\ canceled' = canceled /\ sem' = sem
        /\ servers' \in {<<>>, PublicServers} /\ Changing
        /\ query' = [c \in Clients |-> [query[c] EXCEPT !.fixed = FALSE]]
    BY <1>4 DEF SetServers
  <2>2. Shared'
    BY <2>1, <1>c DEF ForwardInv, Shared
  <2>3. \A c \in Clients : [query[c] EXCEPT !.fixed = FALSE]
           = [query[c] EXCEPT !.turned = Ts[c], !.marked = Ms[c], !.steady = Ss[c], !.fixed = F[c]]
    BY <1>q DEF QueryStates
  <2>4. query' = [c \in Clients |-> [query[c] EXCEPT !.turned = Ts[c], !.marked = Ms[c],
                                                     !.steady = Ss[c], !.fixed = F[c]]]
    BY <2>1, <2>3
  <2>5. \A c \in Clients : /\ Ts[c] = query[c].turned /\ Ms[c] = query[c].marked
                           /\ F[c] = FALSE /\ Ss[c] = query[c].steady
    OBVIOUS
  <2> HIDE DEF Ts, Ms, Ss, F
  <2>r. Recorded(Ts, Ms, Ss, F)
    BY <1>a, <1>q, <2>1, <2>2, <2>4, <2>5 DEF Recorded
  <2> QED
    BY <2>r, EnvironmentMoves
<1>5. CASE Shutdown
  <2>1. /\ reach' = reach /\ up' = up /\ drained' = drained /\ servers' = servers /\ sem' = sem
        /\ query' = query /\ canceled' = TRUE /\ Changing
    BY <1>5 DEF Shutdown
  <2>2. Shared'
    BY <2>1, <1>c DEF ForwardInv, Shared
  <2> QED
    BY <2>1, <2>2 DEF ForwardInv, Slots, Held, QueryOK, Bounded, Placed, Spent, Answering,
                      Settled, Replied, Complete
<1> QED
  BY <1>1, <1>2, <1>3, <1>4, <1>5

\* Every behaviour keeps the invariant.
LEMMA ForwardSafe == Spec => []ForwardInv
<1>1. Init => ForwardInv
  BY ForwardInit
<1>2. ForwardInv /\ [Next]_vars => ForwardInv'
  <2> SUFFICES ASSUME ForwardInv, [Next]_vars PROVE ForwardInv'
    OBVIOUS
  <2>1. CASE UNCHANGED vars
    BY <2>1 DEF vars, env, ForwardInv, Shared, Slots, Held, QueryOK, Bounded, Placed, Spent,
                Answering, Settled, Replied, Complete
  <2>2. ASSUME NEW c \in Clients, Serve(c) PROVE ForwardInv'
    BY <2>2, MakePlanStep, TestStep, CensusStep, ExchangeStep, TakeServersStep, AskPublicStep,
       FailStep, WriteStep, ReleaseStep DEF Serve
  <2> QED
    BY <2>1, <2>2, AcceptStep, ShedStep, EnvironmentStep DEF Next
<1> QED
  BY <1>1, <1>2, PTL DEF Spec

\* Type correctness; in particular plans and lists are never indexed outside.
THEOREM ForwardingTypeOK == Spec => []TypeOK
  BY ForwardSafe, ForwardTypes, PTL

\* For any limit and any number of clients, the slots taken are exactly those of
\* the queries in flight (listen.go, acquire and the two releases).
THEOREM SlotsAccountedAlways == Spec => []SlotsAccounted
<1>1. ForwardInv => SlotsAccounted
  BY DEF ForwardInv, Slots, Held, SlotsAccounted
<1> QED
  BY <1>1, ForwardSafe, PTL

\* Resolve and the shed path make a reply for every request with a readable
\* question (proxy.go, forward and overloaded).
THEOREM ReplyComposedAlways == Spec => []ReplyComposed
<1>1. ForwardInv => ReplyComposed
  BY DEF ForwardInv, QueryOK, Replied, ReplyComposed, At
<1> QED
  BY <1>1, ForwardSafe, PTL

\* Public DNS is asked only once the whole budget was spent on paths that were not
\* answering all along, however verdicts, marks, servers and the list change
\* meanwhile, and never by a query cut short; without any attempt only if a verdict of
\* every Pi-hole turned and turned back while Plan ran (proxy.go, forward; pool.go,
\* Plan).
THEOREM PublicOnlyAfterAttemptsAlways == Spec => []PublicOnlyAfterAttempts
<1>1. ForwardInv => PublicOnlyAfterAttempts
  <2> SUFFICES ASSUME ForwardInv, NEW c \in Clients, query[c].at = "ask"
               PROVE  /\ query[c].i = query[c].attempts
                      /\ \A n \in 1..query[c].i : query[c].plan[n] \notin query[c].steady
                      /\ query[c].i = 0 => \A u \in Piholes : Flickered(query[c], u)
    BY DEF PublicOnlyAfterAttempts, At
  <2>1. Spent(query[c]) /\ Complete(query[c])
    BY DEF ForwardInv, QueryOK
  <2>2. query[c].i = query[c].attempts /\ Dry(query[c].plan, query[c].i, query[c].steady)
    BY <2>1 DEF Spent
  <2>3. query[c].attempts = 0 => \A u \in Piholes : Flickered(query[c], u)
    BY <2>1 DEF Complete, Planned
  <2> QED
    BY <2>2, <2>3 DEF Dry
<1> QED
  BY <1>1, ForwardSafe, PTL

\* A query fails only for want of servers: with the fallback list as it was and no
\* shutdown, nobody it was allowed to ask answered all along, and without fallback it
\* used up its attempts or no path answers of a Pi-hole in service that Plan could see
\* steadily (proxy.go, forward and resolveViaFallback; fallback.go, Resolve).
THEOREM NoNeedlessFailureAlways == Spec => []NoNeedlessFailure
<1>1. ForwardInv => NoNeedlessFailure
  <2> SUFFICES ASSUME ForwardInv, NEW c \in Clients, query[c].at = "failed", ~canceled,
                      query[c].fixed
               PROVE  LET q == query[c]
                      IN  /\ \A n \in 1..q.attempts : q.plan[n] \notin q.steady
                          /\ IF servers = <<>>
                             THEN \/ q.i = MaxAttempts
                                  \/ \A p \in Paths :
                                        Undisturbed(q, p) /\ Owner[p] \notin drained =>
                                           p \notin q.steady
                             ELSE ToSet(servers) \cap q.steady = {}
    BY DEF NoNeedlessFailure, At
  <2> DEFINE q == query[c]
  <2>1. Spent(q) /\ Settled(q) /\ Complete(q) /\ q.plan \in Seq(Paths) /\ Len(q.plan) \in Nat
    BY QueryFacts DEF QueryOK
  <2>2. q.at = "failed" /\ q.fixed /\ ~canceled
    OBVIOUS
  <2> HIDE DEF q
  <2>3. q.i = q.attempts /\ Dry(q.plan, q.i, q.steady)
    BY <2>1, <2>2 DEF Spent
  <2>4. servers = <<>> => q.attempts = Least(MaxAttempts, Len(q.plan))
    BY <2>1, <2>2 DEF Settled, Planned
  <2>5. servers # <<>> => \A s \in ToSet(servers) : s \notin q.steady
    BY <2>1, <2>2 DEF Settled
  <2>6. ASSUME servers = <<>>, q.i # MaxAttempts, NEW p \in Paths, Undisturbed(q, p),
               Owner[p] \notin drained, p \in q.steady
        PROVE  FALSE
    <3>1. p \in ToSet(q.plan)
      BY <2>1, <2>2, <2>6 DEF Complete, Planned
    <3>2. q.i = Len(q.plan)
      BY <2>1, <2>3, <2>4, <2>6, LimitAssumption DEF Least
    <3>3. PICK n \in 1..Len(q.plan) : p = q.plan[n]
      BY <3>1, <2>1 DEF ToSet
    <3> QED
      BY <2>3, <2>6, <3>2, <3>3 DEF Dry
  <2> QED
    BY <2>3, <2>5, <2>6 DEF Dry, q
<1> QED
  BY <1>1, ForwardSafe, PTL
=============================================================================
