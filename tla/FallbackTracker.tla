-------------------------- MODULE FallbackTracker --------------------------
(***************************************************************************)
(* fallback.Tracker (internal/fallback): usage of public DNS and outages   *)
(* of the pool, accumulated over a window and reported once per interval   *)
(* and at shutdown.  Every method runs under t.mu and is one step; the     *)
(* callers (module Forwarding's AskPublic, the onChange callback and the   *)
(* sweeps) interleave freely, and so does the clock.                       *)
(***************************************************************************)
EXTENDS Naturals, FiniteSets, Functions

CONSTANTS
    Servers,        \* public resolvers
    MaxTime,        \* the clock stops here
    MaxQueries,     \* queries recorded in one window
    MaxEpisodes     \* outages begun in one window

ASSUME BoundAssumption ==
    MaxTime \in Nat /\ MaxQueries \in Nat /\ MaxEpisodes \in Nat \ {0}

ASSUME ServersAssumption == IsFiniteSet(Servers)

VARIABLES
    now,                            \* t.now()
    windowStart, queries, failures, perServer,
    episodes, total, longest, inOutage, outageStart,
    running,                        \* Run has not returned
    logged,                         \* the last line Report wrote, if any
    allDownTime,                    \* history: time spent with inOutage set
    reportedOutage                  \* history: outage time of the windows taken

window == <<windowStart, queries, failures, perServer, episodes, total, longest>>
outage == <<inOutage, outageStart>>
vars == <<now, window, outage, running, logged, allDownTime, reportedOutage>>

\* An outage in progress, so far.
Ongoing == IF inOutage THEN now - outageStart ELSE 0

Larger(m, n) == IF m > n THEN m ELSE n

Summaries == [queries : Nat, failures : Nat, episodes : Nat, total : Nat,
              longest : Nat, ongoing : BOOLEAN]

TypeOK ==
    /\ now \in 0..MaxTime
    /\ windowStart \in 0..now
    /\ queries \in 0..MaxQueries
    /\ failures \in 0..queries
    /\ perServer \in [Servers -> Nat]
    /\ episodes \in 0..MaxEpisodes
    /\ total \in Nat
    /\ longest \in Nat
    /\ inOutage \in BOOLEAN
    /\ outageStart \in 0..now
    /\ running \in BOOLEAN
    /\ logged \subseteq Summaries
    /\ allDownTime \in Nat
    /\ reportedOutage \in Nat

\* NewTracker.
Init ==
    /\ now = 0
    /\ windowStart = 0
    /\ queries = 0 /\ failures = 0
    /\ perServer = [s \in Servers |-> 0]
    /\ episodes = 0 /\ total = 0 /\ longest = 0
    /\ inOutage = FALSE /\ outageStart = 0
    /\ running = TRUE
    /\ logged = {}
    /\ allDownTime = 0
    /\ reportedOutage = 0
-----------------------------------------------------------------------------
Tick ==
    /\ now < MaxTime
    /\ now' = now + 1
    /\ allDownTime' = IF inOutage THEN allDownTime + 1 ELSE allDownTime
    /\ UNCHANGED <<window, outage, running, logged, reportedOutage>>

\* Observe(true) outside an outage; inside one it does nothing.
OutageBegins ==
    /\ ~inOutage
    /\ episodes < MaxEpisodes
    /\ inOutage' = TRUE
    /\ outageStart' = now
    /\ episodes' = episodes + 1
    /\ UNCHANGED <<now, windowStart, queries, failures, perServer, total, longest,
                   running, logged, allDownTime, reportedOutage>>

\* Mutant of Added: only the longest outage is kept.
AddedToNothing(d) ==
    /\ total' = d
    /\ longest' = Larger(longest, d)

\* addOutageLocked.
Added(d) ==
    /\ total' = total + d
    /\ longest' = Larger(longest, d)

\* Observe(false) during an outage; outside one it does nothing.
OutageEnds ==
    /\ inOutage
    /\ inOutage' = FALSE
    /\ Added(now - outageStart)
    /\ UNCHANGED <<now, windowStart, queries, failures, perServer, episodes,
                   outageStart, running, logged, allDownTime, reportedOutage>>

\* Mutant of Counted: a failed exchange is charged to its resolver as well.
CountedAlways(s, ok) ==
    /\ perServer' = [perServer EXCEPT ![s] = @ + 1]
    /\ failures' = IF ok THEN failures ELSE failures + 1

\* An answer counts for its resolver, anything else as a failure.
Counted(s, ok) ==
    IF ok
    THEN perServer' = [perServer EXCEPT ![s] = @ + 1] /\ UNCHANGED failures
    ELSE failures' = failures + 1 /\ UNCHANGED perServer

\* RecordQuery.
RecordQuery(s, ok) ==
    /\ queries < MaxQueries
    /\ queries' = queries + 1
    /\ Counted(s, ok)
    /\ UNCHANGED <<now, windowStart, episodes, total, longest, outage, running,
                   logged, allDownTime, reportedOutage>>

\* snapshotLocked: an outage in progress counts so far.
Snapshot ==
    [queries |-> queries, failures |-> failures, episodes |-> episodes,
     total |-> total + Ongoing, longest |-> Larger(longest, Ongoing),
     ongoing |-> inOutage]

\* Summary.Empty.
Empty(s) == s.queries = 0 /\ s.episodes = 0 /\ ~s.ongoing

\* Mutant of Restarted: the outage keeps its start over the window's end.
RestartedKeepingStart == episodes' = 1 /\ UNCHANGED outageStart

\* Mutant of Restarted: the new window does not count the outage it begins in.
RestartedUncounted == episodes' = 0 /\ outageStart' = now

\* take: an outage in progress goes on in the new window.
Restarted == episodes' = 1 /\ outageStart' = now

\* Mutant of Cleared: only the number of queries starts over.
ClearedQueries == queries' = 0 /\ UNCHANGED <<failures, perServer>>

Cleared == queries' = 0 /\ failures' = 0 /\ perServer' = [s \in Servers |-> 0]

\* Report: take the window, start a new one, log it unless it was quiet.
Take ==
    /\ logged' = IF Empty(Snapshot) THEN logged ELSE {Snapshot}
    /\ reportedOutage' = reportedOutage + total + Ongoing
    /\ windowStart' = now
    /\ Cleared
    /\ total' = 0 /\ longest' = 0
    /\ \/ inOutage /\ Restarted
       \/ ~inOutage /\ episodes' = 0 /\ UNCHANGED outageStart
    /\ UNCHANGED <<now, inOutage, allDownTime>>

\* Run's ticker fires.
Report == running /\ Take /\ UNCHANGED running

\* Run sees the shutdown: a final report.
FinalReport == running /\ Take /\ running' = FALSE

Next ==
    \/ Tick
    \/ OutageBegins
    \/ OutageEnds
    \/ \E s \in Servers, ok \in BOOLEAN : RecordQuery(s, ok)
    \/ Report
    \/ FinalReport

Spec == Init /\ [][Next]_vars
-----------------------------------------------------------------------------
(***************************************************************************)
(* Properties.                                                             *)
(***************************************************************************)

\* No moment of an outage is lost or counted twice, however it straddles the
\* windows: what was reported, what the window holds and what is in progress
\* add up to the time spent in outage (take, snapshotLocked, Observe).
OutageConserved == allDownTime = reportedOutage + Snapshot.total

\* A summary makes sense on its own: the outages fit into the window, the
\* longest is one of them and is all of them when there was one, and no outage
\* time is reported without an outage.
SummaryCoherent ==
    LET s == Snapshot
    IN  /\ s.total <= now - windowStart
        /\ s.longest <= s.total
        /\ s.episodes = 1 => s.longest = s.total
        /\ s.episodes = 0 => s.total = 0 /\ ~s.ongoing

\* Every query recorded in the window is either a failure or an answer of one
\* resolver, never both and never neither (RecordQuery), and a line that reports
\* no query reports an outage, with its episode (take, Summary.Empty).
QueriesAccounted ==
    /\ queries = failures + SumFunction(perServer)
    /\ \A s \in logged : s.queries = 0 => s.episodes > 0
=============================================================================
