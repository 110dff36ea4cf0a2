----------------------------- MODULE Statistics -----------------------------
(***************************************************************************)
(* stats.Collector (internal/stats): the tally behind the dashboard and    *)
(* its history rings, fed by query handlers and pruned when a Pi-hole is   *)
(* removed (internal/control).  Every method runs under c.mu and is one    *)
(* step; a query's life from Plan to Record, and a removal's from the pool *)
(* to ForgetUpstream, or an addition's to the end of its save, are         *)
(* several.                                                                *)
(*                                                                         *)
(* One ring stands for both: a period of Period clock units is an hour, or *)
(* a minute, and Slots is the number of periods in the cycle the local     *)
(* clock shows, a day of hours or an hour of minutes.  A slot is chosen by *)
(* the local clock, its period is stamped in absolute time.  Of the        *)
(* tallies, the ones by protocol, type and response code, the retries and  *)
(* the latencies are left out: they are counted like total.                *)
(***************************************************************************)
EXTENDS Integers, FiniteSets, Functions

CONSTANTS
    Names,          \* names of Pi-holes
    Queries,        \* slots for queries in flight
    Period,         \* clock units in a period
    Slots,          \* minuteBuckets or hourBuckets
    Zones,          \* local clocks: [from, to, at], offsets before and after a change
    MaxTime,        \* the clock stops here
    MaxRecords      \* queries recorded since the last Reset

ASSUME NamesAssumption == IsFiniteSet(Names) /\ Names # {}

ASSUME QueriesAssumption == IsFiniteSet(Queries)

ASSUME RingAssumption ==
    /\ Period \in Nat \ {0} /\ Slots \in Nat \ {0}
    /\ MaxTime \in Nat /\ MaxRecords \in Nat
    /\ Zones \subseteq [from : Nat, to : Nat, at : Nat]

VARIABLES
    now,            \* wall clock, absolute
    zone,           \* the local time zone
    stepped,        \* the wall clock has been set back
    members,        \* the pool's names
    removing,       \* the name RemoveUpstream is busy with, if any
    adding,         \* the name AddUpstream is busy with, if any
    query,          \* queries in flight: the names they may record
    total, fallback, failed, byUpstream,
    ring,           \* minutes or hours
    log,            \* history: queries recorded in each period since Reset
    forgotten,      \* history: queries ForgetUpstream has dropped since Reset
    owed            \* history: what may come to be counted for a name that has left

tally == <<total, fallback, failed, byUpstream, ring, log, forgotten>>
clock == <<now, zone, stepped>>
change == <<members, removing, adding, owed>>
vars == <<clock, change, query, tally>>

Start(t) == t - (t % Period)

Starts == {Start(t) : t \in 0..MaxTime}

\* An unused bucket has the zero time.
Unused == [at |-> -1, queries |-> 0]

\* A query slot that is free; one in flight holds the names in its plan.
NoQuery == [flying |-> FALSE, plan |-> {}]

TypeOK ==
    /\ now \in 0..MaxTime
    /\ zone \in Zones
    /\ stepped \in BOOLEAN
    /\ members \in (SUBSET Names) \ {{}}
    /\ removing \subseteq Names \ members
    /\ adding \subseteq members /\ adding # members
    /\ Cardinality(removing \cup adding) <= 1
    /\ query \in [Queries -> [flying : BOOLEAN, plan : SUBSET Names]]
    /\ {total, fallback, failed, forgotten} \subseteq 0..MaxRecords
    /\ byUpstream \in [Names -> 0..MaxRecords]
    /\ ring \in [0..(Slots - 1) -> [at : Starts \cup {-1}, queries : 0..MaxRecords]]
    /\ log \in [Starts -> 0..MaxRecords]
    /\ owed \in [Names -> Nat]

Init ==
    /\ now = 0
    /\ zone \in Zones
    /\ stepped = FALSE
    /\ members = Names
    /\ removing = {} /\ adding = {}
    /\ query = [q \in Queries |-> NoQuery]
    /\ total = 0 /\ fallback = 0 /\ failed = 0
    /\ byUpstream = [n \in Names |-> 0]
    /\ ring = [i \in 0..(Slots - 1) |-> Unused]
    /\ log = [s \in Starts |-> 0]
    /\ forgotten = 0
    /\ owed = [n \in Names |-> 0]
-----------------------------------------------------------------------------
(***************************************************************************)
(* External: the wall clock, which may be set back, and the local clock.   *)
(***************************************************************************)
Tick ==
    /\ now < MaxTime
    /\ now' = now + 1
    /\ UNCHANGED <<zone, stepped, change, query, tally>>

SetBack ==
    /\ now > 0
    /\ ~stepped
    /\ stepped' = TRUE
    /\ now' \in 0..(now - 1)
    /\ UNCHANGED <<zone, change, query, tally>>

Offset(t) == IF t < zone.at THEN zone.from ELSE zone.to
-----------------------------------------------------------------------------
(***************************************************************************)
(* The ring.                                                               *)
(***************************************************************************)
\* minuteIndex, hourIndex: t.Minute() and t.Hour() are the local clock's.
Index(t) == ((t + Offset(t)) \div Period) % Slots

\* Mutant of Added: a slot is added to whatever period it belongs to.
AddedToStale(b, start) == [at |-> start, queries |-> b.queries + 1]

\* addToBucket: a slot of an older period is reset.
Added(b, start) == [at |-> start, queries |-> IF b.at = start THEN b.queries + 1 ELSE 1]

\* Mutant of Shown: a slot is shown for its place in the ring alone.
ShownUnchecked(at) == ring[Index(at)].queries

\* series: what is shown for the period that starts at at.
Shown(at) == IF ring[Index(at)].at = at THEN ring[Index(at)].queries ELSE 0

\* Mutant of Displayed: one period too many.
DisplayedOneMore == {at \in Starts : at <= now /\ at >= Start(now) - Slots * Period}

\* The periods series unrolls, the newest being the current one.
Displayed == {at \in Starts : at <= now /\ at > Start(now) - Slots * Period}
-----------------------------------------------------------------------------
(***************************************************************************)
(* Query handlers.                                                         *)
(***************************************************************************)
\* forward makes its plan from the pool as it is.
Begin(q) ==
    /\ ~query[q].flying
    /\ query' = [query EXCEPT ![q] = [flying |-> TRUE, plan |-> members]]
    /\ UNCHANGED <<clock, change, tally>>

\* The total and the history, which every record adds to.
Counted ==
    /\ total < MaxRecords
    /\ total' = total + 1
    /\ ring' = [ring EXCEPT ![Index(now)] = Added(@, Start(now))]
    /\ log' = [log EXCEPT ![Start(now)] = @ + 1]

Done(q) == query[q].flying /\ query' = [query EXCEPT ![q] = NoQuery]

\* Record of a query a Pi-hole answered.
RecordAnswer(q, n) ==
    /\ Done(q)
    /\ n \in query[q].plan
    /\ Counted
    /\ byUpstream' = [byUpstream EXCEPT ![n] = @ + 1]
    /\ UNCHANGED <<clock, change, fallback, failed, forgotten>>

\* Record of a query public DNS answered: it names no Pi-hole.
RecordFallback(q) ==
    /\ Done(q)
    /\ Counted
    /\ fallback' = fallback + 1
    /\ UNCHANGED <<clock, change, failed, byUpstream, forgotten>>

\* Record of a query nothing answered.
RecordFailure(q) ==
    /\ Done(q)
    /\ Counted
    /\ failed' = failed + 1
    /\ UNCHANGED <<clock, change, fallback, byUpstream, forgotten>>
-----------------------------------------------------------------------------
(***************************************************************************)
(* The management interface.                                               *)
(***************************************************************************)
\* The manager's mutex is held from the first step of a change to its last.
Unlocked == removing = {} /\ adding = {}

\* RemoveUpstream takes the Pi-hole out of the pool, never the last one; the
\* configuration is saved next.
RemoveUpstream(n) ==
    /\ Unlocked
    /\ n \in members
    /\ members # {n}
    /\ members' = members \ {n}
    /\ removing' = {n}
    /\ UNCHANGED <<clock, adding, owed, query, tally>>

\* The save fails: the Pi-hole is put back, its counters untouched.
RollBack(n) ==
    /\ n \in removing
    /\ members' = members \cup {n}
    /\ removing' = {}
    /\ UNCHANGED <<clock, adding, owed, query, tally>>

\* Mutant of Dropped: the counters stay.
DroppedNothing(n) == UNCHANGED byUpstream

Dropped(n) == byUpstream' = [byUpstream EXCEPT ![n] = 0]

\* The queries in flight that may record n.
Holding(n) == {q \in Queries : n \in query[q].plan}

\* The save succeeds, and ForgetUpstream follows.
ForgetUpstream(n) ==
    /\ n \in removing
    /\ removing' = {}
    /\ Dropped(n)
    /\ forgotten' = forgotten + byUpstream[n]
    /\ owed' = [owed EXCEPT ![n] = Cardinality(Holding(n))]
    /\ UNCHANGED <<clock, members, adding, query, total, fallback, failed, ring, log>>

\* A Pi-hole of that name is added; whatever is counted for it goes on.
AddUpstream(n) ==
    /\ Unlocked
    /\ n \notin members
    /\ members' = members \cup {n}
    /\ adding' = {n}
    /\ UNCHANGED <<clock, removing, owed, query, tally>>

\* The addition is saved.
AddSaved(n) ==
    /\ n \in adding
    /\ adding' = {}
    /\ UNCHANGED <<clock, members, removing, owed, query, tally>>

\* The save fails: the Pi-hole is taken out again, its counters untouched.
AddRollBack(n) ==
    /\ n \in adding
    /\ adding' = {}
    /\ members' = members \ {n}
    /\ owed' = [owed EXCEPT ![n] = byUpstream[n] + Cardinality(Holding(n))]
    /\ UNCHANGED <<clock, removing, query, tally>>

\* Mutant of Emptied: the history keeps its slots.
EmptiedNot == ring

Emptied == [i \in 0..(Slots - 1) |-> Unused]

\* Reset, from the dashboard.
Reset ==
    /\ total' = 0 /\ fallback' = 0 /\ failed' = 0
    /\ byUpstream' = [n \in Names |-> 0]
    /\ ring' = Emptied
    /\ log' = [s \in Starts |-> 0]
    /\ forgotten' = 0
    /\ UNCHANGED <<clock, change, query>>

Next ==
    \/ Tick
    \/ SetBack
    \/ \E q \in Queries :
          \/ Begin(q)
          \/ \E n \in Names : RecordAnswer(q, n)
          \/ RecordFallback(q)
          \/ RecordFailure(q)
    \/ \E n \in Names :
          \/ RemoveUpstream(n)
          \/ RollBack(n)
          \/ ForgetUpstream(n)
          \/ AddUpstream(n)
          \/ AddSaved(n)
          \/ AddRollBack(n)
    \/ Reset

Spec == Init /\ [][Next]_vars
-----------------------------------------------------------------------------
(***************************************************************************)
(* Properties.                                                             *)
(***************************************************************************)

\* The history never shows a query twice, in a period it was not recorded in,
\* or after a Reset, whatever the zone and however its clock is set (stats.go,
\* addToBucket, series).
SeriesSound == \A at \in Displayed : Shown(at) <= log[at]

\* Where the local clock is a whole number of periods off and stays so, the
\* history shows every query of the last Slots periods: the ring holds exactly
\* the periods on display, and no recent one is overwritten.
SeriesExact ==
    ~stepped /\ zone.from = zone.to /\ zone.from % Period = 0 =>
        \A at \in Displayed : Shown(at) = log[at]

\* Every query is in the total once, and under one heading: a Pi-hole on show,
\* one that was forgotten, public DNS, or failed (Record, ForgetUpstream, Reset).
TotalsAccounted ==
    total = fallback + failed + forgotten + SumFunction(byUpstream)

\* A name that has left the pool may still be on show, but for no more queries
\* than were in flight with it when ForgetUpstream dropped its counters; queries
\* begun later never bring it back (control.go, RemoveUpstream: the pool first,
\* then ForgetUpstream).  An addition that is rolled back drops no counters, so
\* there what was counted until then stays on show as well (AddUpstream).  So
\* ForgetUpstream's "a name that is no longer in the pool stops appearing in the
\* dashboard" (stats.go) is more than the code does.
GhostsBounded ==
    \A n \in Names \ (members \cup removing) : byUpstream[n] <= owed[n]
=============================================================================
