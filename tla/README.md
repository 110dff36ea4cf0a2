# hole-balancer: a TLA+ verification project

hole-balancer is a DNS load balancer in front of several Pi-holes. It probes
every network path to every Pi-hole, plans for each client query which paths to
try and in which order, retries, and may fall back to public DNS when no
Pi-hole answers. An operator can add, remove and drain Pi-holes and change the
strategy and the fallback resolvers while it runs.

The modules here model the parts of the program in which goroutines, failures
and order matter. Every definition is translated from the source;
`PROJECT.json` gives the lines each one stands for, the runs, the mutants that
show what each property is sensitive to, the findings, the hazards and the
theorems. TLC checks the configurations (`tlc -config X.cfg M`), TLAPS the
`*Proofs` modules (`tlapm M.tla`).

## The system

| Component | State | Operations | Interacts with |
|---|---|---|---|
| endpoint health (`internal/pool`: `Endpoint`, `record`, `SetInitial`) | `up` (atomic), streaks of successes and failures (under `e.mu`), latency average | `ReportProbe`, `ReportQuery`, `SetInitial` | called by the checker and by `forward`; calls `onChange` |
| query planning (`Pool.Plan`, `orderLocked`) | membership and strategy (under `p.mu`), round-robin ticket, drain marks (atomic) | `Plan`, `HealthyUpstreams`, `Add`, `Remove`, `SetStrategy`, `SetDrained` | reads the verdicts; called by `forward`, by the callback and by control |
| health checker (`internal/health`) | none | `Bootstrap`, `Run`, `Sweep`, `probe` | reports to the pool, then `OnSweep` |
| forwarding (`internal/proxy/proxy.go`) | `sem`, the slots of queries in flight | `Resolve`, `forward`, `resolveViaFallback`, `overloaded` | pool, fallback resolver, DNS client, statistics |
| listeners (`internal/proxy/listen.go`) | sockets, loops, open connections and their watchers | `ListenAndServe`, `serveUDP`, `serveTCP`, `serveTCPConn` | forwarding, the shutdown context |
| fallback resolver (`internal/fallback`) | server list (under `r.mu`), rotation ticket | `Enabled`, `Servers`, `SetServers`, `Resolve` | DNS client, tracker |
| fallback tracker (`internal/fallback`) | the current window's counts, the outage in progress | `Observe`, `RecordQuery`, `Snapshot`, `take`, `Run` | fed by the callback, `OnSweep` and the resolver |
| control manager (`internal/control`) | the authoritative configuration (under `m.mu`) | `AddUpstream`, `RemoveUpstream`, `SetStrategy`, `SetFallback`, `SetDrained` | pool, resolver, configuration file, statistics |
| configuration (`internal/config`) | the file, its backup | `Load`, `Validate`, `Save` | control manager, start-up |
| statistics (`internal/stats`) | totals, per-upstream counts, two rings of buckets | `Record`, `ForgetUpstream`, `Reset`, `Snapshot` | forwarding, control, dashboard |
| process (`cmd/hole-balancer`) | the goroutines and the shutdown context | start-up order, callback, `ProbeNow`, shutdown | all |
| DNS client (`internal/dnsclient`) | a socket per exchange, the shared pool of receive buffers | `Exchange`, `GetBuf`, `PutBuf` | forwarding, public fallback, probes |
| admin interface (`internal/admin`) | its HTTP server | `ListenAndServe`, the handlers | control manager, statistics, `ProbeNow` |
| DNS messages, metrics | none, counters | codec, counters | all |

What is hard here: a verdict is decided under a mutex and stored after it is
released; `Plan` reads verdicts and drain marks without any lock, several times
each; one query reads the plan, the number of healthy Pi-holes and the fallback
list at three different moments; an outage straddles the reporting windows; a
change from the dashboard lives in memory twice and on disk once, and the save
may fail or the power may go at any of its steps; goroutines tell the tracker
what they counted a moment ago, in any order; sockets, ports and buffers are
used again while late replies are still on their way; the history is a ring
indexed by one clock and stamped by another; and shutdown cuts through all of
it, with some goroutines waited for and others not. What makes each part correct
is the list of properties below.

## Modules

| Module | Models | State and actions |
|---|---|---|
| `Hysteresis` | abstract: what rise and fall promise about one endpoint | `verdict`, the `run` of reports against it; one report is one step |
| `EndpointHealth` | `record`, `SetInitial` and the goroutines that report | `up`, `successes`, `failures` are the code's fields; `worker` is each goroutine's place: `Probe`/`Query` end an exchange, `Record` is `record` up to the unlock, `Store` the store after it, `Notify` the callback; `SetInitial` and `Swap` likewise; `upRun`, `downRun` are history |
| `Planning` (`MCPlanning`) | `Plan`, `orderLocked`, load by load | the shared atomics `up`, `drained`, `latency`; `Plan`'s local lists; `Mark` and `Scan` are one load each of `Drained`, `Healthy` or `Active`, `Collect` one test of the second or third loop; `Turn`, `SetDrained`, `Measure` are other goroutines |
| `Forwarding` (`MCForwarding`) | a query from socket to reply | `query[c]` holds `forward`'s and `Resolve`'s locals; `MakePlan` is one step with every outcome `Plan`'s unlocked loads can have (`Views`, `Marks`), each other read of shared state and each exchange is one action, `HealthyUpstreams` path by path (`Census`, `CensusMark`); `Accept`, `Shed`, `ReleaseUDP`, `ReleaseTCP` are the listeners' slot handling |
| `FallbackTracker` | `Tracker` | the fields of `Tracker`; one action per method (each runs under `t.mu`), and the clock |
| `Control` (`MCControl`) | `Manager`, `Save`, and what they write to | `live`, `cfg`, `file`, `bak`, `tmp`; a change is applied in one step and saved in five (`Create`, `Sync`, `Backup`, `BackedUp`, `Rename`), any of which may fail (`SaveFails`, `Rollback`); `Crash` and `Restart` at any point |
| `Exchange` | `dnsclient.Exchange` over UDP and TCP | `call[c]` holds the locals of one caller's exchange; `Write`, `Skip`, `Take`, `Fails` are its I/O, `Watch` its watcher, `Expire` the socket's deadline; `mem` is the memory messages lie in, the pooled buffers among it; `sent` and `answer` are what is still under way in the network |
| `Outages` (`ServiceCount`, `MCOutages`) | how the pool's state reaches the tracker: the callback, `OnSweep`, `HealthyUpstreams`, `Observe` | `members`, `up`, `drained` are the pool's; `observer[o]` is a goroutine's count (`ServiceCount`), one load per action, path by path (`LoadHealthy`, `LoadDrained`), and `Observe` applies it |
| `Statistics` (`MCStatistics`) | `stats.Collector`, its feeding by `forward` and pruning by `RemoveUpstream`, and `AddUpstream` | the totals, `byUpstream` and one `ring`; `Begin` takes a plan, the three `Record...` actions are `Record`; a removal takes two steps, `RemoveUpstream` and then `ForgetUpstream` or `RollBack`, an addition `AddUpstream` and then `AddSaved` or `AddRollBack`; `log`, `forgotten`, `owed` are history |
| `Lifecycle` (`MCLifecycle`) | `run` of `main`, both `ListenAndServe`, the loops of the listeners, `Run` of checker and tracker | one variable per goroutine for its place, the open sockets, the errors on their way to the exit status; handlers and connections are slots |
| `EndpointHealthProofs`, `PlanningProofs`, `ForwardingProofs`, `FallbackTrackerProofs`, `ControlProofs`, `ExchangeProofs`, `StatisticsProofs`, `LifecycleProofs` | theorems about the module each is named after; `FallbackTrackerProofs` also about `Outages`, which says what the tracker is told | the inductive invariant and a lemma per group of actions, see Theorems |

Definitions called "Mutant of ..." are plausible slips of the code that the
properties are tested against; the specifications do not use them.

How the modules fit together: `Exchange` shows what the outcomes are that
`EndpointHealth` and `Forwarding` take as one step, and that an exchange ends,
which their fairness relies on; `EndpointHealth` says when the verdicts turn
that `Planning`, `Forwarding` and `Outages` let turn freely; `Outages` says
which observations `FallbackTracker` is told; `Control` does the changes of the
pool that `Outages` and `Statistics` take as given; `Lifecycle` runs the loops
that all of them assume, and ends them.

Abstractions. Outside `Exchange` an exchange is one step with an outcome; what a
Pi-hole or a path does is the environment's choice. Weights only change how
likely an order is (configuration makes them positive), so the random strategy
may return any order. A sort whose keys change while it runs may return any
order. Streak counters stop at `MaxRun`, which is past both thresholds, where
`record`'s comparison no longer changes. The round-robin ticket is kept modulo a
number every list length divides. In `Forwarding` a turn of a verdict during
`Plan` falls between any two of the five loads of that path, independently of
the other paths: some more views than the code has, none fewer. Its verdicts
turn freely instead of through its own reports. Whether a reply handed to a
socket is sent is the socket's (`Write`): at shutdown it may be closed by then,
and write errors are dropped with the reply. In `Control` a change is applied to
pool and configuration in one step: both happen under `m.mu`, and nobody can see
the configuration in between. Without a configuration path `saveLocked` returns
at once and `Control` has nothing to add. In `Exchange` a message is the number
of the exchange it answers: it is never consumed, so it may be lost, late or
duplicated, until all traces of its exchange vanish. In `Control` the fallback
timeouts are one flag, both positive or not: no change touches them. In
`Outages` lookup and mark of `SetDrained` are one step. In `Statistics` one ring
stands for the minutes and the hours. In `Lifecycle` a handler's query is only
"resolving", and errors that a loop survives (UDP read errors, accept timeouts)
are left out. Logging, metrics and the status pages are left out.

## Runs

| Run | Instance | Result |
|---|---|---|
| `health_concurrent` | one path, the scheduled sweep and two query handlers, rise = fall = 2 | holds: `VerdictBacked`, and under fairness `ReturnsToRotation`, `LeavesRotation` |
| `health_sequential` | two paths, the sweep as the only effective reporter | holds: `VerdictSettled`, and the refinement `ImplementsHysteresis` |
| `planning_tiers` | two Pi-holes, one of them with two paths, all strategies, up to two changes during a plan | holds: `QuietPlanTiered`, `PreferredPathFirst`, `DownPathsKept`, `DrainedSkipped` |
| `forwarding_query` | a query at a time, one Pi-hole with two paths, two attempts, one resolver, three changes of the environment, also while `Plan` runs | holds: `PublicOnlyAfterAttempts`, `NoNeedlessFailure` |
| `forwarding_slots` | a datagram and a connection, one slot, two resolvers, one change | holds: `ReplyComposed`, `SlotsAccounted`, `NoNeedlessFailure`, and under fairness `EveryQueryEnds` |
| `tracker_windows` | two resolvers, six instants, two outages and two queries per window | holds: `OutageConserved`, `SummaryCoherent`, `QueriesAccounted` |
| `control_changes` | five candidate Pi-holes (two share a name, two an address), two strategies, two resolver lists; no bound on the number of changes, failures and power cuts | holds: `LiveAsConfigured`, `SavedOrUndone`, `FileLoads`, `BackupFirst` |
| `exchange_strays` | two callers, two ports, two ids, both transports, two buffers, the messages of two exchanges, current or earlier, at large | holds: `AnswersQuery`, `CancelReported`, and under fairness `ExchangeEnds` |
| `outages_observe` | two Pi-holes, one of them with two paths, the checker and another goroutine; no bound on changes | holds: `OutageJustified`, and under fairness `OutageEndsAtLast`, `OutageBeginsAtLast` |
| `statistics_history` | two names that come and go with saves that may fail, a query in flight, a ring of two periods over three periods, five local clocks, the clock set back once | holds: `SeriesSound`, `SeriesExact`, `TotalsAccounted`, `GhostsBounded` |
| `lifecycle_exit` | every choice of sockets, all four faults, one connection, datagram and sweep at a time | holds: `ErrorsSurface`, `EarlyUseReported`, `ConnectionsServed`, and under fairness `ShutdownCompletes` |
| `lifecycle_stuck` | no clients, only the accept loop can fail | violated: `FailureStops` |

Why the bounds are enough. Two is the least threshold with a streak to
interrupt, and two reporters besides the sweep let a decided verdict wait while
two others decide. A second path and a second Pi-hole give every tier of a plan
an occupant, and the plan properties speak of paths that do not change, so two
changes suffice to disturb everything else. In `forwarding_query` three turns
are the fewest after which a plan over two paths is empty (one path's verdict
turns and turns back, the other's turns once), and a path may be planned twice,
so that the attempts do not reach the plan's end. Two resolvers, in
`forwarding_slots`, are needed for one to fail while the other answers; several
Pi-holes are in `planning_tiers` and `outages_observe`, and in the theorems. One
slot for two clients makes the limit bind. Three windows fit into six instants,
so an outage can begin before one and end after another. Two exchanges at a time
are needed to pass a buffer on while its message may still be held, or for one
to meet what another left. Two paths to one Pi-hole let them change while they
are loaded, and two goroutines let an old count be applied after a newer one. A
ring of two periods is reused within the clock's range, which also holds the
change of clocks. Connections do not interact except through the wait for all of
them, so one is enough. Only `tracker_windows` switches the deadlock check off:
its clock stops at the bound. Each module defines `TypeOK`; the runs of
`FallbackTracker`, `Exchange`, `Outages`, `Statistics` and `Lifecycle` leave it
out of their lists, where every entry is a property of the code that some mutant
breaks. It holds in those five instances when added to them.

## Where the code and its documentation part

`lifecycle_stuck`: an accept error that is not a timeout, such as running out of
file descriptors, ends the TCP loop, but `ListenAndServe` looks at the error
only after `ctx.Done()`. The process runs on without TCP, although `main` says
that one failed component brings the process down. `ErrorsSurface` shows that
the error does reach the exit status once something else stops the process.

The modules show the following too, each next to the weaker statement that does
hold and is checked:

- **A late store** (`pool.go`, `record`): with two effective reporters one may
  decide "up", the other record `fall` failures and find the endpoint still
  down, and the first store "up" after that. The endpoint is in rotation with
  `fall` failures in a row, until the next report, since `record` compares with
  `>=`. So `VerdictSettled` is checked with one effective reporter
  (`health_sequential`), and with several `VerdictBacked`, `ReturnsToRotation`
  and `LeavesRotation`, which depend on exactly that comparison.
- **A healthy path in no tier** (`pool.go`, `Plan`): `Active` is called twice.
  If the LAN path goes down in between, the Tailscale path is skipped as the
  active one in the second loop but was never added in the first. Plans are
  complete when nothing changes (`QuietPlanTiered`), and always for preferred
  paths and paths that stay down (`PreferredPathFirst`, `DownPathsKept`).
- **Public DNS while a Pi-hole answers** (`pool.go`, `Plan`; README.md:196-197 of
  the repository: "It only ever runs after every Pi-hole attempt has failed.
  While any Pi-hole answers, no query reaches a public resolver"): `Plan` loads
  the verdicts anew in each loop. One that is up in the first, down in the
  second and up again in the later ones puts its path in no tier; the plan may
  be empty, and the query goes to public DNS without any attempt, or fails where
  there is no fallback. Also, when every verdict is down one attempt is made
  (`forward`), and another Pi-hole may well be answering.
  `PublicOnlyAfterAttempts` is what holds: the budget is spent on paths that did
  not answer all along, and it is empty only if a verdict of every Pi-hole
  turned and turned back while `Plan` ran. `NoNeedlessFailure` speaks of the
  paths of Pi-holes whose verdicts stayed meanwhile.
- **A file that does not load** (`control.go`, `SetFallback`): the package comment
  (control.go:4-5) says that a change is validated "against exactly the rules
  the config file obeys", but `Validate` looks at the fallback's timeout and
  summary interval only where fallback is enabled (config.go:472-481), and
  `SetFallback` does not look at them. From a file with fallback disabled and a
  zero timeout, enabling it saves a file that the next start refuses with
  "fallback.timeout must be positive". `FileLoads` is what holds: the file is
  whole and sound at every moment, and it loads if the timeouts were positive at
  first, as the defaults are.
- **A removed name on show** (`stats.go`, `ForgetUpstream`): its comment says that
  "a name that is no longer in the pool stops appearing in the dashboard"
  (stats.go:176-177), and control_test.go:144-147 tests it. A query that had the
  Pi-hole in its plan may record itself after `ForgetUpstream` and make the entry
  anew; it stays until a reset or another removal of that name. A rolled-back
  addition leaves what was counted for it too, since its rollback forgets
  nothing. `GhostsBounded` is what holds: no more is ever on show than was in
  flight at the removal, or counted by the rollback.
- **A Pi-hole counted out that was in service** (`pool.go`, `Upstream.Healthy`):
  the paths are loaded one by one. If the first is down when loaded, then comes
  up, and the second goes down before it is loaded, the Pi-hole counts as out
  though one path or the other was up throughout. `OutageJustified` says it of
  paths: none was in service from the beginning of the count to its end.
- **What a failed save leaves** (control.go:5-8): the package comment says that
  "a failed write leaves a running server that disagrees with its file". The
  rollbacks (control.go:122-127 and its likes, control_test.go:295) take the
  change back instead, and `SavedOrUndone` shows that file and configuration
  agree again, up to the order of the upstreams. The comment is out of date.
- **A line without fallback** (`fallback.go`, `Summary.Empty`; README.md:220-221):
  an outage nobody queried in is logged as use of public DNS. `QueriesAccounted`
  says that a line without queries has an outage to report.
- **Priorities after a failed removal** (`control.go`, `RemoveUpstream`): the
  upstream comes back at the end of the list, in memory only; `SavedOrUndone`
  holds up to that order.
- **Hours that go missing** (`stats.go`, `hourIndex`): the slot is the local
  clock's hour, its stamp the absolute one. In a zone that is half an hour off,
  an absolute hour is split over two slots, of which only the first is shown and
  the other soon overwritten: its second half is missing. At a change of clocks
  an hour goes missing too. Nothing is ever counted twice or
  in the wrong period (`SeriesSound`), and nothing is dropped where the local
  clock is whole hours off and steady (`SeriesExact`).
- **What shutdown drops**: use of public DNS recorded by handlers after the
  tracker's last report is in none (`EarlyUseReported` is what holds), though
  the repository's README.md:224-225 promises that a restart never loses a
  pending summary; an admin server's error is lost if its `select` takes the end
  of the context instead (`ErrorsSurface`).
- **A twin's reply** (`dnsmsg.go`, `ValidateResponse`): a late reply to an
  earlier query with the same transaction id over the same port is taken for the
  answer (`AnswersQuery` says that nothing else is); the question is deliberately
  not compared.

## Fairness

`EndpointHealth!Fairness`: a goroutine that has started runs on, and the
scheduled sweep probes every endpoint again and again (`Run`'s ticker never
stops before shutdown, and a sweep waits for its own probes only, each bounded
by `health.timeout`). Nothing is assumed of `ProbeNow`, of client queries or of
the network. `Forwarding!FairSpec`: a query's goroutine runs on, because every
exchange is bounded by its deadline and `Exchange`'s watcher; nothing is
assumed of clients, servers or the shutdown signal. `Exchange!Fairness`: the
caller's goroutine and the watcher run on, dialling ends by its own timeout, I/O
past the deadline fails (the runtime checks the deadline before each read, so
waiting datagrams do not help), and the deadline passes, which is assumed only
while the context is not done: a cancellation must work without it.
`Outages!FairSpec`: sweeps go on at their interval and a count that has begun
ends; nothing is assumed of verdicts and operators. `Lifecycle!Fairness`:
goroutines that can go on do, sweeps, exchanges and the admin server's
`Shutdown` end by their timeouts, and `Run`'s `select` does not prefer its ticker
to the context for ever (strong fairness of `CheckerReturns`; Go's `select`
chooses at random). Nothing is assumed of signals, clients and faults. The other
runs assume no fairness.

## Theorems

TLAPS proves all of them for every value of the constants under the modules'
named assumptions. Those are what the code or its configuration ensures: the
thresholds, limits and ring sizes are positive (`ThresholdAssumption`,
`LimitAssumption`, `RingAssumption`), goroutines of different kinds are
different and `None` is no value (`WorkerAssumption`, `ActorAssumption`,
`ClientAssumption`, `ValueAssumption`), the sets that are counted or summed over
are finite (`ServersAssumption`, `NamesAssumption`, `QueriesAssumption`), there
is a Pi-hole with a path (`ServerAssumption`, `PathAssumption`; `Validate`
refuses none), and the process starts from a configuration that loads
(`InitialAssumption`). For a plan, the upstreams are a list of distinct names,
each with a list of paths of its own (`UpstreamAssumption` and `Planning`'s
`PathAssumption`; `Validate` and `Add` refuse anything else), and the ticket's
period is a multiple of every number of healthy upstreams (`PeriodAssumption`).
TLC evaluates each of them in the runs. The bounds that TLC needs (`MaxTime`,
`MaxChanges`, ...) are arbitrary naturals in the theorems.

Every proof has the same shape: an inductive invariant, one lemma per action or
group of actions that it is preserved, and the property as a consequence. Hardly
any property below is inductive as it stands; what had to be added is the
argument.

- `TypeCorrect`, `AlwaysBacked` (`EndpointHealthProofs`): any number of
  endpoints, probers and queriers. `VerdictBacked` is not inductive: a goroutine
  may hold a verdict decided long ago. `BackedInv` adds that every *held* verdict
  is backed by a full streak as well, and that the history never lags behind the
  live streak; evidence for a verdict is dropped only when the opposite one is
  stored and nobody holds it any more.
- `SequentialSettled`, `SequentialRefinement`: if the scheduled sweep is the only
  reporter that affects health (`Probers = {}`, `Passive = FALSE`), the verdict
  agrees with the streaks whenever nothing is in flight, and `EndpointHealth`
  implements `Hysteresis` for each endpoint, under the mapping that counts a
  decided verdict as given. The invariant fixes, for each place of the ticker's
  goroutine, how streaks, stored and held verdict are related. With a
  second effective reporter both fail, as described above.
- `PlanningTypeOK`, `QuietPlanTieredAlways`, `PreferredPathFirstAlways`,
  `DownPathsKeptAlways`, `DrainedSkippedAlways` (`PlanningProofs`): any list of
  Pi-holes, each with any list of paths, every strategy, and any number of
  verdicts, marks and averages that change between two loads. None of the four
  says anything before the plan is finished, so `PlanInv` is all invariant of
  the loops, and it speaks only of what has not changed since `Plan` began, as
  that is all a load can be relied on for afterwards. `Classified`: every
  upstream that the first loop has passed is on one of the three lists, and its
  mark, if it was not touched, agrees with the list. `NonePassed`: a scan has
  passed no path that was up all along. `FirstTier`, `SecondTier`, `LastTier`:
  what each tier must already hold and what it can never hold; that a path that
  stays down is in the last tier and in no other, and a preferred one that stays
  up in the first and in no other, is why each is planned exactly once.
  `Quiet`: as long as nothing has moved, the tiers are exact and the healthy
  upstreams are in the strategy's order. `Finish` then reads the plan as four
  blocks (`Block`), one for each list it appends. About the operators:
  `RotationFacts` (a rotation is the list begun at `start` and continued from
  the front), `OrdersFacts` (every order is
  a permutation, in the strategy's order if nothing moved during the sort),
  `ActiveFacts` (what `Active` finds is the first path that is up).
- `ForwardingTypeOK`, `SlotsAccountedAlways`, `ReplyComposedAlways`,
  `PublicOnlyAfterAttemptsAlways`, `NoNeedlessFailureAlways`
  (`ForwardingProofs`): any Pi-holes with any paths, any list of resolvers, any
  set of clients and any changes while `Plan` runs. The lemmas about `Plan` say
  what its loads leave certain: a path whose Pi-hole nothing disturbed is in the
  plan if it is in service, and an empty plan means that every Pi-hole flickered.
  `ReplyComposed` is about what `Resolve` returns and the shed path makes; it
  does not say that the socket sends it. `ForwardInv` says for each place of a query what is behind it:
  unless it was cut short, the Pi-holes and resolvers tried so far were not
  answering all along, and the whole budget is spent where the fallback begins
  (`Spent`); the history of who answers is right (`Answering`); counters stay
  within plan, budget and list (`Bounded`, `Placed`); the plan has what it must
  have (`Complete`); while the fallback list
  stays, the copy being walked has every resolver (`Settled`). For the slots it
  says that `sem` is the cardinality of the set of holders (`Slots`), which each
  action changes by one query at most.
- `TrackerTypeCorrect`, `OutageAlwaysConserved`, `SummaryAlwaysCoherent`,
  `QueriesAlwaysAccounted` (`FallbackTrackerProofs`): any number of windows. The
  invariant adds that an outage in progress started within the window and counts
  as an episode, that the finished outages and the one in progress fit into it
  one after the other, and that a lone episode is both the longest and the total.
- `ControlTypeOK`, `LiveAsConfiguredAlways`, `SavedOrUndoneAlways`,
  `FileLoadsAlways`, `BackupFirstAlways` (`ControlProofs`): any finite set of
  candidates, any sequence of changes, failed saves, crashes and restarts.
  `ControlInv` follows a change: while it is being saved the configuration is the
  old one with the change made (`Pending`), the file holds what a rollback comes
  back to, up to order (`Agrees`), and the temporary file and the backup are what
  the step of `Save` has made them (`Saving`); every configuration around, in
  memory or in a file, is sound and has the timeouts of the first (`Startable`,
  `Valid`), so that it loads if those were positive. That a rollback does undo the change is
  the lemmas `AdditionUndone` and `RemovalUndone` about lists of distinct names.
  `BackupFirst` is an action property and follows from `Saving`.
- `ExchangeTypeOK`, `AnswersQueryAlways`, `CancelReportedAlways`
  (`ExchangeProofs`): any callers, ports, ids and buffers. `ExchangeInv` adds that
  the number of an exchange under way is its caller's alone (`OwnNumber`), that
  nothing is under way for unused numbers (`UnusedSilent`), and, for each place of
  a call, where the message that was read lies and who can still overwrite it.
- `OutagesTypeOK`, `OutageJustifiedAlways` (`FallbackTrackerProofs`, through an
  instance of `Outages`): any Pi-holes with any paths, and any goroutines. The
  loop invariant of `HealthyUpstreams` and of `Upstream.Healthy` within it: a path
  in service since the count began is still to be looked at or its Pi-hole has
  been found (`NobodyPassed`), those in service all along are in service now
  (`SteadyInService`), and a count that is loading has a path to load
  (`SomethingToDo`).
- `StatisticsTypeOK`, `TotalsAccountedAlways`, `GhostsBoundedAlways`,
  `SeriesSoundAlways`, `SeriesExactAlways` (`StatisticsProofs`): any finite set of
  names, any ring size, period length and local clocks. `SlotSound` says that a
  slot never counts more than was recorded in the period it is stamped with.
  `InPlace` is for the steady clock: every slot holds a period that belongs
  there, and a period with queries is complete in its slot or has left it to a
  later one. `GhostsBounded` needs that what is on show for a
  name that has left and what is still in flight with it together stay within
  what was owed (`Owed`), and that changes do not overlap (`Lone`), which the
  manager's mutex ensures.
  The ring rests on arithmetic lemmas: `DivMod`, and that two different periods less
  than a ring apart have different slots (`SlotsApart`).
- `LifecycleTypeOK`, `ErrorsSurfaceAlways`, `EarlyUseReportedAlways`,
  `ConnectionsServedAlways` (`LifecycleProofs`): any number of connections and
  handlers. While `main` has no error, nothing broke but the accept loop, whose
  error is still in the loop or in `retErr` (`OnItsWay`), and every error kept has
  a cause (`Caused`); `Waited` is what the two WaitGroups ensure, `MainOrder` and
  `BoundInOrder` the order of start and exit, and `LastWindow` that what the
  tracker's last report left open was recorded after the context was done.

The sums over resolvers and names in `QueriesAccounted` and `TotalsAccounted` are
folds of the community modules. The proofs characterise them from their
definition: the recursion is shown to have a solution layer by layer over the
subsets of the set, with the induction carried out as an argument from a least
counterexample, and `SumChange` then says what changing one entry does.

Only model-checked: the liveness properties (fairness is out of TLAPS's reach
here): `ReturnsToRotation`, `LeavesRotation`, `EveryQueryEnds`, `ExchangeEnds`,
`OutageEndsAtLast`, `OutageBeginsAtLast`, `ShutdownCompletes`. Every invariant
and every other action property that a passing run checks is a theorem.

## What is not modelled

Hazards without a property are in `PROJECT.json` with the reason: the 32-bit
round-robin ticket, which takes 2^31 queries; `SetDrained` marking an upstream
that was removed since it was looked up; failed probes at shutdown; the
overview's panels.

Not modelled: DNS message layout, framing and YAML; configuration defaults and
the syntax of addresses; metrics, which are written and never read; parsing and
rendering of the HTTP handlers and the dashboard, whose state changes go through
the components above; the per-protocol, per-type and latency tallies.
