--------------------------- MODULE ServiceCount ---------------------------
(***************************************************************************)
(* Pool.HealthyUpstreams as main.go's goroutines use it to learn whether   *)
(* every Pi-hole is out of service: a count's state, where its loops over  *)
(* the Pi-holes and their paths go on, and what may be concluded from it.  *)
(* Module Outages has the steps.                                           *)
(***************************************************************************)
EXTENDS Naturals, Sequences

CONSTANTS
    Owner,          \* sequence: the Pi-hole of each path the operator has, in the pool or not
    Checker,        \* the goroutine of Run's sweeps, which calls OnSweep
    Reporters       \* other goroutines that observe: probes, query handlers, ProbeNow

Paths == DOMAIN Owner
Piholes == {Owner[p] : p \in Paths}
PathsOf(u) == {p \in Paths : Owner[p] = u}
Observers == {Checker} \cup Reporters

\* Validate wants an upstream, and a path for each.
ASSUME PathAssumption == Owner \in Seq(Piholes) /\ Owner # <<>>
ASSUME ActorAssumption == Checker \notin Reporters

VARIABLES
    members,    \* Pool.upstreams
    up,         \* Endpoint.up
    drained,    \* Upstream.drained
    observer    \* each goroutine's count

pool == <<members, up, drained>>

\* At "called" the callback, or OnSweep, has been entered; at "healthy" the
\* goroutine is about to load the verdict of the first path in todo, at "drained"
\* the mark of that path's Pi-hole; at "verdict" it has counted and is about to
\* call Observe.  steady is history: the paths in service ever since the count
\* began.
Idle == [at |-> "idle", todo |-> {}, found |-> FALSE, steady |-> {}]

At(o, place) == observer[o].at = place

InService(p) == Owner[p] \in members /\ up[p] /\ ~drained[Owner[p]]

MemberPaths == {p \in Paths : Owner[p] \in members}

First(todo) == CHOOSE p \in todo : \A q \in todo : p <= q

\* Where HealthyUpstreams stands with the paths in todo still to look at.
Looking(todo, found, steady) ==
    [at |-> IF todo = {} THEN "verdict" ELSE "healthy",
     todo |-> todo, found |-> found, steady |-> steady]

\* The tracker is told that every Pi-hole is down only if no path was in service
\* from the beginning of the count to that moment: counts racing turns, drains
\* and removals miss a path only if it was out for a while (main.go, the callback
\* and OnSweep; pool.go, HealthyUpstreams).  A Pi-hole that is kept in service by
\* one path after another can be missed: Upstream.Healthy loads them one by one.
OutageJustified ==
    \A o \in Observers : At(o, "verdict") /\ ~observer[o].found => observer[o].steady = {}
=============================================================================
