------------------------------ MODULE Outages ------------------------------
(***************************************************************************)
(* How the pool's state reaches the fallback tracker (main.go): the        *)
(* callback of every verdict that turns, and OnSweep after every sweep,    *)
(* count the Pi-holes in service and then call Observe.  The count loads   *)
(* the flags one by one, path by path, under p.mu, which keeps the         *)
(* membership still and nothing else; between the count and Observe        *)
(* nothing is held at all.                                                 *)
(*                                                                         *)
(* Verdicts turn here as they please (module EndpointHealth says when).    *)
(* Of the tracker only inOutage matters (module FallbackTracker has the    *)
(* rest).                                                                  *)
(***************************************************************************)
EXTENDS ServiceCount

VARIABLE inOutage   \* Tracker.inOutage

vars == <<pool, observer, inOutage>>

TypeOK ==
    /\ members \in (SUBSET Piholes) \ {{}}
    /\ up \in [Paths -> BOOLEAN]
    /\ drained \in [Piholes -> BOOLEAN]
    /\ observer \in [Observers -> [at : {"idle", "called", "healthy", "drained", "verdict"},
                                   todo : SUBSET Paths, found : BOOLEAN, steady : SUBSET Paths]]
    /\ inOutage \in BOOLEAN

\* pool.New: every endpoint starts down.
Init ==
    /\ members \in (SUBSET Piholes) \ {{}}
    /\ up = [p \in Paths |-> FALSE]
    /\ drained = [u \in Piholes |-> FALSE]
    /\ observer = [o \in Observers |-> Idle]
    /\ inOutage = FALSE
-----------------------------------------------------------------------------
\* History: the paths in gone went out of service, for every count in progress.
Left(gone, obs) == [o \in Observers |-> [obs[o] EXCEPT !.steady = @ \ gone]]

\* record or SetInitial stores a verdict and enters the callback.  The endpoint
\* may have been removed since the probe or the query began.
Turn(r, p) ==
    /\ At(r, "idle")
    /\ up' = [up EXCEPT ![p] = ~@]
    /\ observer' = Left({p}, [observer EXCEPT ![r].at = "called"])
    /\ UNCHANGED <<members, drained, inOutage>>

\* A sweep started by ProbeNow, or Bootstrap, has ended: OnSweep is entered.
ProbeNowEnds(r) ==
    /\ At(r, "idle")
    /\ observer' = [observer EXCEPT ![r].at = "called"]
    /\ UNCHANGED <<pool, inOutage>>

\* HealthyUpstreams takes p.mu for reading: in the callback, or in OnSweep, which
\* the checker comes to at the end of every sweep.
BeginCount(o) ==
    /\ At(o, IF o = Checker THEN "idle" ELSE "called")
    /\ observer' = [observer EXCEPT ![o] =
          Looking(MemberPaths, FALSE, {p \in Paths : InService(p)})]
    /\ UNCHANGED <<pool, inOutage>>

\* u.Healthy() loads one path's verdict: the loop ends at the first that is up.
LoadHealthy(o) ==
    LET c == observer[o]
        p == First(c.todo)
    IN  /\ At(o, "healthy")
        /\ observer' = [observer EXCEPT ![o] =
              IF up[p] THEN [c EXCEPT !.at = "drained"]
                       ELSE Looking(c.todo \ {p}, c.found, c.steady)]
        /\ UNCHANGED <<pool, inOutage>>

\* Mutant of Counts: a drained Pi-hole is the one that counts.
CountsDrained(u) == drained[u]

\* Mutant of Counts: drained ones count as well.
CountsAlways(u) == TRUE

\* !u.Drained().
Counts(u) == ~drained[u]

\* The Pi-hole of the path that was up counts or does not; on to the next Pi-hole.
LoadDrained(o) ==
    LET c == observer[o]
        u == Owner[First(c.todo)]
    IN  /\ At(o, "drained")
        /\ observer' = [observer EXCEPT ![o] =
              Looking(c.todo \ PathsOf(u), c.found \/ Counts(u), c.steady)]
        /\ UNCHANGED <<pool, inOutage>>

\* Mutant of Observed: an outage is never ended.
ObservedDown(allDown) == inOutage \/ allDown

\* Tracker.Observe, as far as inOutage goes.
Observed(allDown) == allDown

Observe(o) ==
    /\ At(o, "verdict")
    /\ inOutage' = Observed(~observer[o].found)
    /\ observer' = [observer EXCEPT ![o] = Idle]
    /\ UNCHANGED pool

\* SetDrained runs no callback.
SetDrained(u) ==
    /\ u \in members
    /\ drained' = [drained EXCEPT ![u] = ~@]
    /\ observer' = Left(PathsOf(u), observer)
    /\ UNCHANGED <<members, up, inOutage>>

\* A count holds p.mu for reading until it has seen every member.
Unlocked == \A o \in Observers : observer[o].at \in {"idle", "called", "verdict"}

\* Pool.Remove, never of the last one, and no callback either.
Remove(u) ==
    /\ Unlocked
    /\ u \in members
    /\ members # {u}
    /\ members' = members \ {u}
    /\ observer' = Left(PathsOf(u), observer)
    /\ UNCHANGED <<up, drained, inOutage>>

\* Pool.Add: fresh endpoints, down.
Add(u) ==
    /\ Unlocked
    /\ u \notin members
    /\ members' = members \cup {u}
    /\ up' = [p \in Paths |-> up[p] /\ Owner[p] # u]
    /\ drained' = [drained EXCEPT ![u] = FALSE]
    /\ UNCHANGED <<observer, inOutage>>

Next ==
    \/ \E r \in Reporters : ProbeNowEnds(r) \/ \E p \in Paths : Turn(r, p)
    \/ \E o \in Observers : BeginCount(o) \/ LoadHealthy(o) \/ LoadDrained(o) \/ Observe(o)
    \/ \E u \in Piholes : SetDrained(u) \/ Remove(u) \/ Add(u)

Spec == Init /\ [][Next]_vars

\* Sweeps go on at their interval and a goroutine that counts comes to its end;
\* nothing is assumed of verdicts and operators.
FairSpec ==
    /\ Spec
    /\ \A o \in Observers :
          WF_vars(BeginCount(o) \/ LoadHealthy(o) \/ LoadDrained(o) \/ Observe(o))
-----------------------------------------------------------------------------
(***************************************************************************)
(* Properties.                                                             *)
(***************************************************************************)

\* Verdicts applied out of order are put right by later sweeps: with some path
\* in service from some point on the tracker ends up out of an outage for good.
OutageEndsAtLast ==
    \A p \in Paths : <>[]InService(p) => <>[]~inOutage

\* With each Pi-hole out of service for good, its paths down, or drained, or
\* removed, the tracker ends up in an outage for good, though SetDrained and
\* Remove run no callback.  The three causes are told apart because
\* HealthyUpstreams loads them apart: a Pi-hole that for ever swaps one for
\* another may be counted without being in service.
OutageBeginsAtLast ==
    (\A u \in Piholes : \/ \A p \in PathsOf(u) : <>[]~up[p]
                         \/ <>[]drained[u]
                         \/ <>[](u \notin members))
        => <>[]inOutage
=============================================================================
