------------------------------ MODULE Planning ------------------------------
(***************************************************************************)
(* Pool.Plan (internal/pool): the endpoints to try for one query, best     *)
(* first.  Plan holds the pool's read lock, which fixes the membership and *)
(* the strategy, but the health verdicts (Endpoint.up) and the drain marks *)
(* (Upstream.drained) are atomics that other goroutines set meanwhile, and *)
(* Plan loads them again in each of its loops.  One step here is one load. *)
(*                                                                         *)
(* Weights decide only how likely each random order is: configuration      *)
(* makes them positive, so every order is possible.                        *)
(***************************************************************************)
EXTENDS Naturals, SequencesExt

CONSTANTS
    Upstreams,      \* sequence of Pi-holes in configuration order
    Paths,          \* the sequence of endpoints of each
    Strategies,     \* strategies the pool may be set to
    MaxLatency,     \* the largest latency average of an endpoint
    TicketPeriod,   \* the round-robin ticket is kept modulo this
    MaxChanges,     \* verdicts, marks and averages that change during one Plan
    None            \* Go's nil endpoint

Names == ToSet(Upstreams)
PathsOf(u) == ToSet(Paths[u])
Endpoints == UNION {PathsOf(u) : u \in Names}

\* Values of an endpoint's latency average; 0: not measured.
Latencies == 0..MaxLatency

ASSUME BoundAssumption == MaxLatency \in Nat /\ MaxChanges \in Nat

\* The period keeps what % n sees of the 64-bit counter for every n that occurs.
ASSUME PeriodAssumption ==
    /\ TicketPeriod \in Nat \ {0}
    /\ \A n \in 1..Len(Upstreams) : TicketPeriod % n = 0

\* There is an upstream, none has another's name, and each has a path
\* (Validate, Add).
ASSUME UpstreamAssumption ==
    /\ Upstreams \in Seq(Names)
    /\ Upstreams # <<>>
    /\ IsInjective(Upstreams)

\* An address belongs to one upstream and is listed once (Validate, Add).
ASSUME PathAssumption ==
    /\ \A u \in Names : /\ Paths[u] \in Seq(PathsOf(u))
                        /\ Paths[u] # <<>>
                        /\ IsInjective(Paths[u])
    /\ \A u, v \in Names : u # v => PathsOf(u) \cap PathsOf(v) = {}
    /\ None \notin Endpoints

VARIABLES
    up, drained, latency,           \* the shared atomics
    strategy, rr,                   \* Pool.strategy, Pool.rr
    at,                             \* Plan's place
    i, j,                           \* the upstream and the path it looks at
    healthy, down, aside,           \* Plan's upstream lists; aside is drained
    active,                         \* the second loop's active
    plan, secondary, lastResort,
    moved,                          \* what changed during this Plan
    sorting                         \* something changed during the sort

shared == <<up, drained, latency, strategy>>
lists == <<healthy, down, aside>>
tiers == <<plan, secondary, lastResort>>
vars == <<shared, rr, at, i, j, lists, active, tiers, moved, sorting>>

TypeOK ==
    /\ up \in [Endpoints -> BOOLEAN]
    /\ drained \in [Names -> BOOLEAN]
    /\ latency \in [Endpoints -> Latencies]
    /\ strategy \in Strategies
    /\ rr \in 0..(TicketPeriod - 1)
    /\ at \in {"idle", "mark", "scan", "sort", "first", "active", "second", "third",
               "finish", "done"}
    /\ i \in 1..Len(Upstreams)
    /\ j \in Nat \ {0}
    /\ \A s \in {healthy, down, aside} : s \in Seq(Names)
    /\ active \in Endpoints \cup {None}
    /\ plan \in Seq(Endpoints)
    /\ secondary \cup lastResort \subseteq Endpoints
    /\ sorting \in BOOLEAN

Init ==
    /\ up \in [Endpoints -> BOOLEAN]
    /\ drained \in [Names -> BOOLEAN]
    /\ strategy \in Strategies
    /\ IF strategy = "least-latency"
       THEN latency \in [Endpoints -> Latencies]
       ELSE latency = [e \in Endpoints |-> 0]
    /\ rr = 0
    /\ at = "idle" /\ i = 1 /\ j = 1
    /\ healthy = <<>> /\ down = <<>> /\ aside = <<>>
    /\ active = None
    /\ plan = <<>> /\ secondary = {} /\ lastResort = {}
    /\ moved = {} /\ sorting = FALSE
-----------------------------------------------------------------------------
(***************************************************************************)
(* Other goroutines, while Plan runs.                                      *)
(***************************************************************************)
Changes(what) ==
    /\ at \notin {"idle", "done"}
    /\ Cardinality(moved) < MaxChanges
    /\ moved' = moved \cup {what}
    /\ sorting' = (sorting \/ at = "sort")
    /\ UNCHANGED <<strategy, rr, at, i, j, lists, active, tiers>>

\* record or SetInitial stores a verdict; an endpoint may turn twice.
Turn(e) ==
    /\ \E n \in 1..MaxChanges :
          /\ <<"path", e, n>> \notin moved
          /\ \A m \in 1..(n - 1) : <<"path", e, m>> \in moved
          /\ Changes(<<"path", e, n>>)
    /\ up' = [up EXCEPT ![e] = ~@]
    /\ UNCHANGED <<drained, latency>>

\* Upstream.SetDrained.
SetDrained(u) ==
    /\ <<"mark", u, 1>> \notin moved
    /\ Changes(<<"mark", u, 1>>)
    /\ drained' = [drained EXCEPT ![u] = ~@]
    /\ UNCHANGED <<up, latency>>

\* record moves the latency average of an endpoint that answered.
Measure(e) ==
    /\ strategy = "least-latency"
    /\ <<"latency", e, 1>> \notin moved
    /\ Changes(<<"latency", e, 1>>)
    /\ \E l \in Latencies \ {0, latency[e]} : latency' = [latency EXCEPT ![e] = l]
    /\ UNCHANGED <<up, drained>>
-----------------------------------------------------------------------------
(***************************************************************************)
(* orderLocked.                                                            *)
(***************************************************************************)
Rotation(s, start) == [k \in 1..Len(s) |-> s[((start + k - 1) % Len(s)) + 1]]

\* Upstream.Active, read at one instant.
Active(u) == LET k == SelectInSeq(Paths[u], LAMBDA e : up[e])
             IN  IF k = 0 THEN None ELSE Paths[u][k]

\* effectiveLatency: no path or no measurement sorts last, as an hour.
Hour == MaxLatency + 1
EffectiveLatency(u) ==
    IF Active(u) = None \/ latency[Active(u)] = 0 THEN Hour ELSE latency[Active(u)]

Position(s, x) == CHOOSE k \in 1..Len(s) : s[k] = x

\* t is s as sort.SliceStable leaves it: ordered by effective latency, and equals
\* as they were.
Sorted(s, t) ==
    \A k, l \in DOMAIN t : k < l =>
        \/ EffectiveLatency(t[k]) < EffectiveLatency(t[l])
        \/ /\ EffectiveLatency(t[k]) = EffectiveLatency(t[l])
           /\ Position(s, t[k]) < Position(s, t[l])

\* Mutant of Orders: the configured priority is ignored.
OrdersAnyhow(s) == SetToSeqs(ToSet(s))

\* The orders orderLocked may return for these healthy upstreams.  A sort whose
\* keys changed while it ran may return any order.
Orders(s) ==
    IF Len(s) < 2 THEN {s} ELSE
    CASE strategy = "failover"      -> {s}
      [] strategy = "round-robin"   -> {Rotation(s, rr % Len(s))}
      [] strategy = "least-latency" -> {t \in SetToSeqs(ToSet(s)) : sorting \/ Sorted(s, t)}
      [] OTHER                      -> SetToSeqs(ToSet(s))
-----------------------------------------------------------------------------
(***************************************************************************)
(* Plan, load by load.  Its loops over upstreams are "mark" and "scan"     *)
(* (the switch: Drained, then Healthy), "first" (Active), "active" and     *)
(* "second" (Active again, then the other paths) and "third".              *)
(***************************************************************************)
Again == [mark |-> "mark", scan |-> "mark", first |-> "first", second |-> "active",
          third |-> "third"]
After == [mark |-> "sort", scan |-> "sort", first |-> "active", second |-> "third",
          third |-> "finish"]

Listed == IF at \in {"mark", "scan"} THEN Upstreams ELSE healthy
This == Listed[i]

\* On to the loop's next upstream, or to what follows the loop.
Proceed ==
    /\ IF i < Len(Listed) THEN i' = i + 1 /\ at' = Again[at] ELSE i' = 1 /\ at' = After[at]
    /\ j' = 1

Start ==
    /\ at = "idle"
    /\ at' = "mark"
    /\ UNCHANGED <<shared, rr, i, j, lists, active, tiers, moved, sorting>>

\* The switch's first case: u.Drained().
Mark ==
    /\ at = "mark"
    /\ IF drained[This]
       THEN aside' = Append(aside, This) /\ Proceed
       ELSE at' = "scan" /\ UNCHANGED <<aside, i, j>>
    /\ UNCHANGED <<shared, rr, healthy, down, active, tiers, moved, sorting>>

\* Mutant of Found: Active's nil is not tested for.
FoundAlways(e) == TRUE

\* Active found a healthy path, Healthy says there is one.
Found(e) == e # None

\* What each loop does with the first healthy path its scan found, if any.
Scanned(e) ==
    \/ /\ at = "scan"
       /\ healthy' = IF Found(e) THEN Append(healthy, This) ELSE healthy
       /\ down' = IF Found(e) THEN down ELSE Append(down, This)
       /\ Proceed
       /\ UNCHANGED <<active, plan>>
    \/ /\ at = "first"
       /\ plan' = IF Found(e) THEN Append(plan, e) ELSE plan
       /\ Proceed
       /\ UNCHANGED <<healthy, down, active>>
    \/ /\ at = "active"
       /\ active' = e
       /\ at' = "second" /\ j' = 1
       /\ UNCHANGED <<i, healthy, down, plan>>

\* One load of u.Healthy() or u.Active().
Scan ==
    LET e == Paths[This][j]
    IN  /\ at \in {"scan", "first", "active"}
        /\ \/ up[e] /\ Scanned(e)
           \/ ~up[e] /\ j = Len(Paths[This]) /\ Scanned(None)
           \/ ~up[e] /\ j < Len(Paths[This]) /\ j' = j + 1
              /\ UNCHANGED <<at, i, healthy, down, active, plan>>
        /\ UNCHANGED <<shared, rr, aside, secondary, lastResort, moved, sorting>>

\* orderLocked; the round-robin strategy takes a ticket.
Order ==
    /\ at = "sort"
    /\ healthy' \in Orders(healthy)
    /\ rr' = IF strategy = "round-robin" /\ Len(healthy) > 1
             THEN (rr + 1) % TicketPeriod ELSE rr
    /\ at' = IF healthy = <<>> THEN "finish" ELSE "first"
    /\ sorting' = FALSE
    /\ UNCHANGED <<shared, i, j, down, aside, active, tiers, moved>>

\* Mutant of Secondary: the active path is not left out.
SecondaryWithActive(e) == up[e]

\* Second loop: the test on one endpoint, e != active && e.Healthy().
Secondary(e) == e # active /\ up[e]

\* Mutant of LastResort: only wholly down upstreams are kept for failing open.
LastResortNever(e) == FALSE

\* Third loop: the test on one endpoint, !e.Healthy().
LastResort(e) == ~up[e]

\* The second and the third loop look at one endpoint.
Collect ==
    LET e == Paths[This][j]
    IN  /\ at \in {"second", "third"}
        /\ secondary' = IF at = "second" /\ Secondary(e) THEN secondary \cup {e}
                        ELSE secondary
        /\ lastResort' = IF at = "third" /\ LastResort(e) THEN lastResort \cup {e}
                         ELSE lastResort
        /\ IF j < Len(Paths[This]) THEN j' = j + 1 /\ UNCHANGED <<i, at>> ELSE Proceed
        /\ UNCHANGED <<shared, rr, lists, active, plan, moved, sorting>>

AllPaths(s) == UNION {PathsOf(u) : u \in ToSet(s)}

\* Mutant of Aside: drained upstreams are always the last of the plan.
AsideAlways(p) == AllPaths(aside)

\* The drained paths, used only when there is nothing else.
Aside(p) == IF p = <<>> THEN AllPaths(aside) ELSE {}

\* The shuffles, the last resort's down upstreams, and the drained upstreams
\* when nothing else is left.
Finish ==
    /\ at = "finish"
    /\ \E s \in SetToSeqs(secondary), t \in SetToSeqs(lastResort \cup AllPaths(down)) :
          \E d \in SetToSeqs(Aside(plan \o s \o t)) :
             plan' = plan \o s \o t \o d
    /\ at' = "done"
    /\ UNCHANGED <<shared, rr, i, j, lists, active, secondary, lastResort, moved, sorting>>

\* The caller has used the plan; the next query starts afresh.
Return ==
    /\ at = "done"
    /\ at' = "idle" /\ i' = 1 /\ j' = 1
    /\ healthy' = <<>> /\ down' = <<>> /\ aside' = <<>> /\ active' = None
    /\ plan' = <<>> /\ secondary' = {} /\ lastResort' = {}
    /\ moved' = {}
    /\ UNCHANGED <<shared, rr, sorting>>

Next ==
    \/ Start
    \/ Mark
    \/ Scan
    \/ Order
    \/ Collect
    \/ Finish
    \/ Return
    \/ \E e \in Endpoints : Turn(e) \/ Measure(e)
    \/ \E u \in Names : SetDrained(u)

Spec == Init /\ [][Next]_vars
-----------------------------------------------------------------------------
(***************************************************************************)
(* Properties of a finished plan.                                          *)
(***************************************************************************)
Done == at = "done"

Owner(e) == CHOOSE u \in Names : e \in PathsOf(u)

\* Unchanged since Plan began.
PathStable(e) == <<"path", e, 1>> \notin moved
MarkStable(u) == <<"mark", u, 1>> \notin moved

InService(e) == ~drained[Owner(e)] /\ MarkStable(Owner(e))

Times(e) == Cardinality({k \in DOMAIN plan : plan[k] = e})

Before(d, e) == \E k, l \in DOMAIN plan : k < l /\ plan[k] = d /\ plan[l] = e

Preferred(e) == e = Paths[Owner(e)][1]

\* The tier the doc comment of Plan puts an endpoint of an upstream in service in.
Tier(e) == IF e = Active(Owner(e)) THEN 1 ELSE IF up[e] THEN 2 ELSE 3

\* The preferred paths of the healthy upstreams in service come as the strategy
\* wants them ordered: by configuration, by configuration but starting from any
\* one of them and round to it again, or by latency.
HeadOrder ==
    LET heads == {k \in DOMAIN plan : Tier(plan[k]) = 1}
        rank(k) == Position(Upstreams, Owner(plan[k]))
        cost(k) == EffectiveLatency(Owner(plan[k]))
    IN  CASE strategy = "failover"      ->
                \A k, l \in heads : k < l => rank(k) < rank(l)
          [] strategy = "round-robin"   ->
                \E last \in heads \cup {0} : \A k, l \in heads :
                   k < l => IF k <= last /\ last < l THEN rank(l) < rank(k)
                                                    ELSE rank(k) < rank(l)
          [] strategy = "least-latency" ->
                \A k, l \in heads : k < l => cost(k) <= cost(l)
          [] OTHER                      -> TRUE

\* A plan made while nothing changes is what the doc comment promises: every
\* path of the upstreams in service exactly once, preferred paths first in the
\* strategy's order, then the other healthy paths, then the paths believed
\* down; drained upstreams only when every upstream is drained.
QuietPlanTiered ==
    Done /\ moved = {} =>
        LET serving == {e \in Endpoints : ~drained[Owner(e)]}
        IN  /\ IsInjective(plan)
            /\ ToSet(plan) = IF serving = {} THEN Endpoints ELSE serving
            /\ serving # {} =>
                  /\ \A k, l \in DOMAIN plan : k < l => Tier(plan[k]) <= Tier(plan[l])
                  /\ HeadOrder

\* Whatever else changes meanwhile, an upstream's first path that stays healthy
\* is planned exactly once, ahead of every path that stays down and of every
\* other path of the same upstream that does not turn.
PreferredPathFirst ==
    Done => \A e \in Endpoints :
        Preferred(e) /\ InService(e) /\ PathStable(e) /\ up[e] =>
            /\ Times(e) = 1
            /\ \A d \in ToSet(plan) :
                  PathStable(d) /\ (~up[d] \/ Owner(d) = Owner(e)) => ~Before(d, e)

\* The fail-open tier loses nothing: a path that stays down is still planned,
\* exactly once, whatever else changes meanwhile.
DownPathsKept ==
    Done => \A e \in Endpoints :
        InService(e) /\ PathStable(e) /\ ~up[e] => Times(e) = 1

\* A Pi-hole drained for maintenance gets no query while some path of another
\* one was either down or preferred and healthy all along.
DrainedSkipped ==
    Done => \A d \in Endpoints :
        /\ drained[Owner(d)] /\ MarkStable(Owner(d))
        /\ \E e \in Endpoints :
              InService(e) /\ PathStable(e) /\ (up[e] => Preferred(e))
        => Times(d) = 0
=============================================================================
