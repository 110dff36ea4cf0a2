--------------------------- MODULE EndpointHealth ---------------------------
(***************************************************************************)
(* The health verdict of every endpoint (internal/pool: Endpoint, record,  *)
(* SetInitial, ReportProbe, ReportQuery) and the goroutines that report to *)
(* it: the health checker's sweeps (internal/health: Bootstrap, Run,       *)
(* Sweep) and the query handlers (internal/proxy: forward).                *)
(*                                                                         *)
(* A report is decided while e.mu is held and published after the mutex is *)
(* released, so the goroutines' steps interleave between the decision, the *)
(* store of e.up and the onChange callback.                                *)
(*                                                                         *)
(* The latency average is module Planning's; lastErr, lastChange and the   *)
(* query totals feed the status page only and are left out.                *)
(***************************************************************************)
EXTENDS Naturals

CONSTANTS
    Endpoints,      \* network paths to the Pi-holes
    Ticker,         \* the scheduled sweep's goroutine for an endpoint
    Probers,        \* further goroutines that call ReportProbe (ProbeNow)
    Queriers,       \* goroutines that call ReportQuery
    Rise, Fall,     \* health.rise, health.fall
    MaxRun,         \* streak counters stop counting here, past both thresholds
    Bootstraps,     \* health.startup_timeout > 0
    Passive         \* health.passive.enabled

ASSUME ThresholdAssumption ==
    /\ Rise \in Nat \ {0}
    /\ Fall \in Nat \ {0}
    /\ MaxRun \in Nat
    /\ MaxRun >= Rise
    /\ MaxRun >= Fall

ASSUME ModeAssumption == Bootstraps \in BOOLEAN /\ Passive \in BOOLEAN

ASSUME WorkerAssumption == Ticker \notin Probers /\ Ticker \notin Queriers
                           /\ Probers \cap Queriers = {}

Workers == {Ticker} \cup Probers \cup Queriers

VARIABLES
    link,           \* external: whether the Pi-hole answers on this path
    up,             \* Endpoint.up, an atomic
    successes,      \* Endpoint.successes, consecutive
    failures,       \* Endpoint.failures, consecutive
    worker,         \* what each goroutine reporting on an endpoint is about to do
    upRun,          \* history: longest success streak behind the present verdict
    downRun         \* history: longest failure streak behind the present verdict

vars == <<link, up, successes, failures, worker, upRun, downRun>>

(***************************************************************************)
(* A goroutine's place in the code: before the initial probe ("boot"),     *)
(* holding an outcome not yet recorded ("outcome"), holding a decided      *)
(* verdict not yet stored ("store"; "swap" in SetInitial), or about to     *)
(* call onChange ("notify").                                               *)
(***************************************************************************)
Kinds == {"none", "initial", "probe", "query"}
Places == {"idle", "boot", "outcome", "store", "swap", "notify"}

Idle == [at |-> "idle", kind |-> "none", ok |-> FALSE]

Boot == [at |-> "boot", kind |-> "initial", ok |-> FALSE]

\* Bootstrap has returned: main starts everything else after it.
Serving == \A e \in Endpoints : worker[e][Ticker].kind # "initial"

TypeOK ==
    /\ link \in [Endpoints -> {"answers", "silent", "flaky"}]
    /\ up \in [Endpoints -> BOOLEAN]
    /\ successes \in [Endpoints -> 0..MaxRun]
    /\ failures \in [Endpoints -> 0..MaxRun]
    /\ worker \in [Endpoints -> [Workers -> [at : Places, kind : Kinds, ok : BOOLEAN]]]
    /\ upRun \in [Endpoints -> 0..MaxRun]
    /\ downRun \in [Endpoints -> 0..MaxRun]

-----------------------------------------------------------------------------
(***************************************************************************)
(* Helpers of record.                                                      *)
(***************************************************************************)
\* successes++ and failures++, capped.
Count(n) == IF n < MaxRun THEN n + 1 ELSE n

Larger(m, n) == IF m > n THEN m ELSE n

\* Mutant of Turns: the threshold is tested for equality.
TurnsAtThreshold(isUp, ok, n) ==
    /\ ok # isUp
    /\ n = IF ok THEN Rise ELSE Fall

\* Mutant of Turns: recovery needs one success fewer than rise.
TurnsEarly(isUp, ok, n) ==
    /\ ok # isUp
    /\ n >= IF ok THEN Rise - 1 ELSE Fall

\* Whether a report with outcome ok, the n-th of its streak, turns the verdict.
Turns(isUp, ok, n) ==
    /\ ok # isUp
    /\ n >= IF ok THEN Rise ELSE Fall

\* Mutant of Streaks: a success does not end the failure streak.
StreaksKept(e, ok) ==
    IF ok
    THEN /\ successes' = [successes EXCEPT ![e] = Count(@)]
         /\ UNCHANGED failures
    ELSE /\ successes' = [successes EXCEPT ![e] = 0]
         /\ failures' = [failures EXCEPT ![e] = Count(@)]

\* Mutant of Streaks: a failure takes one off the success streak.
StreaksDecay(e, ok) ==
    IF ok
    THEN /\ successes' = [successes EXCEPT ![e] = Count(@)]
         /\ failures' = [failures EXCEPT ![e] = 0]
    ELSE /\ successes' = [successes EXCEPT ![e] = @ - 1]
         /\ failures' = [failures EXCEPT ![e] = Count(@)]

\* Each outcome lengthens its own streak and ends the other.
Streaks(e, ok) ==
    IF ok
    THEN /\ successes' = [successes EXCEPT ![e] = Count(@)]
         /\ failures' = [failures EXCEPT ![e] = 0]
    ELSE /\ successes' = [successes EXCEPT ![e] = 0]
         /\ failures' = [failures EXCEPT ![e] = Count(@)]

\* History: the streaks just recorded may be the longest behind a verdict.
Evidence(e) ==
    /\ upRun' = [upRun EXCEPT ![e] = Larger(@, successes'[e])]
    /\ downRun' = [downRun EXCEPT ![e] = Larger(@, failures'[e])]

\* The goroutine holds a verdict it has decided and not stored yet.
Holds(e, w, v) ==
    /\ worker[e][w].at \in {"store", "swap"}
    /\ worker[e][w].ok = v

\* History: once a verdict is stored and no goroutine still holds the opposite
\* one, evidence for the opposite verdict starts afresh from the live streak.
FreshEvidence(e, w, v) ==
    /\ upRun' = IF ~v /\ ~\E u \in Workers \ {w} : Holds(e, u, TRUE)
                THEN [upRun EXCEPT ![e] = successes[e]] ELSE upRun
    /\ downRun' = IF v /\ ~\E u \in Workers \ {w} : Holds(e, u, FALSE)
                  THEN [downRun EXCEPT ![e] = failures[e]] ELSE downRun

-----------------------------------------------------------------------------
(***************************************************************************)
(* New, buildUpstream: every endpoint starts down with no streak.          *)
(***************************************************************************)
Init ==
    /\ link \in [Endpoints -> {"answers", "silent", "flaky"}]
    /\ up = [e \in Endpoints |-> FALSE]
    /\ successes = [e \in Endpoints |-> 0]
    /\ failures = [e \in Endpoints |-> 0]
    /\ worker = [e \in Endpoints |-> [w \in Workers |->
                    IF w = Ticker /\ Bootstraps THEN Boot ELSE Idle]]
    /\ upRun = [e \in Endpoints |-> 0]
    /\ downRun = [e \in Endpoints |-> Fall]

At(e, w, place) == worker[e][w].at = place

Goto(e, w, r) == worker' = [worker EXCEPT ![e][w] = r]

\* External: a path starts or stops answering, or answers now and then.
LinkChanges(e) ==
    /\ \E l \in {"answers", "silent", "flaky"} \ {link[e]} :
          link' = [link EXCEPT ![e] = l]
    /\ UNCHANGED <<up, successes, failures, worker, upRun, downRun>>

\* The outcomes an exchange on a path can have: for a probe, any well-formed
\* reply but SERVFAIL, REFUSED or NOTIMP; for a query, any reply whose code
\* is not to be retried.
Outcomes(e) ==
    CASE link[e] = "answers" -> {TRUE}
      [] link[e] = "silent"  -> {FALSE}
      [] link[e] = "flaky"   -> BOOLEAN

\* The exchange ends; its outcome is not recorded yet.
Exchange(e, w, kind) ==
    /\ \E ok \in Outcomes(e) :
          Goto(e, w, [at |-> "outcome", kind |-> kind, ok |-> ok])
    /\ UNCHANGED <<link, up, successes, failures, upRun, downRun>>

\* Bootstrap's one probe of an endpoint.
BootProbe(e) ==
    /\ At(e, Ticker, "boot")
    /\ Exchange(e, Ticker, "initial")

\* A probe of a sweep: Run's own, or one started by ProbeNow.
Probe(e, w) ==
    /\ Serving
    /\ w \in {Ticker} \cup Probers
    /\ At(e, w, "idle")
    /\ Exchange(e, w, "probe")

\* An attempt of forward on this endpoint.
Query(e, w) ==
    /\ Serving
    /\ w \in Queriers
    /\ At(e, w, "idle")
    /\ Exchange(e, w, "query")

\* SetInitial up to the unlock: the streaks are set to the thresholds.
SetInitial(e) ==
    LET ok == worker[e][Ticker].ok
    IN  /\ At(e, Ticker, "outcome")
        /\ worker[e][Ticker].kind = "initial"
        /\ successes' = [successes EXCEPT ![e] = IF ok THEN Rise ELSE 0]
        /\ failures' = [failures EXCEPT ![e] = IF ok THEN 0 ELSE Fall]
        /\ Evidence(e)
        /\ Goto(e, Ticker, [worker[e][Ticker] EXCEPT !.at = "swap"])
        /\ UNCHANGED <<link, up>>

\* SetInitial's up.Swap: the callback runs only if the verdict changed.
Swap(e) ==
    LET ok == worker[e][Ticker].ok
    IN  /\ At(e, Ticker, "swap")
        /\ up' = [up EXCEPT ![e] = ok]
        /\ IF up[e] # ok
           THEN Goto(e, Ticker, [worker[e][Ticker] EXCEPT !.at = "notify"])
           ELSE Goto(e, Ticker, Idle)
        /\ FreshEvidence(e, Ticker, ok)
        /\ UNCHANGED <<link, successes, failures>>

\* ReportProbe always passes affectsHealth, ReportQuery passes p.passive.
AffectsHealth(kind) == kind = "probe" \/ Passive

\* record when the outcome does not affect health.
Ignore(e, w) ==
    /\ At(e, w, "outcome")
    /\ worker[e][w].kind = "query"
    /\ ~AffectsHealth("query")
    /\ Goto(e, w, Idle)
    /\ UNCHANGED <<link, up, successes, failures, upRun, downRun>>

\* record up to the unlock: the streaks move and, against the value e.up holds
\* now, the report decides whether to turn the verdict.
Record(e, w) ==
    LET ok == worker[e][w].ok
        n  == Count(IF ok THEN successes[e] ELSE failures[e])
    IN  /\ At(e, w, "outcome")
        /\ worker[e][w].kind \in {"probe", "query"}
        /\ AffectsHealth(worker[e][w].kind)
        /\ Streaks(e, ok)
        /\ Evidence(e)
        /\ IF Turns(up[e], ok, n)
           THEN Goto(e, w, [worker[e][w] EXCEPT !.at = "store"])
           ELSE Goto(e, w, Idle)
        /\ UNCHANGED <<link, up>>

\* record after the unlock: the decided verdict is stored.
Store(e, w) ==
    LET ok == worker[e][w].ok
    IN  /\ At(e, w, "store")
        /\ up' = [up EXCEPT ![e] = ok]
        /\ Goto(e, w, [worker[e][w] EXCEPT !.at = "notify"])
        /\ FreshEvidence(e, w, ok)
        /\ UNCHANGED <<link, successes, failures>>

\* The onChange callback returns.
Notify(e, w) ==
    /\ At(e, w, "notify")
    /\ Goto(e, w, Idle)
    /\ UNCHANGED <<link, up, successes, failures, upRun, downRun>>

Next ==
    \E e \in Endpoints :
        \/ LinkChanges(e)
        \/ BootProbe(e)
        \/ SetInitial(e)
        \/ Swap(e)
        \/ \E w \in Workers :
              \/ Probe(e, w)
              \/ Query(e, w)
              \/ Ignore(e, w)
              \/ Record(e, w)
              \/ Store(e, w)
              \/ Notify(e, w)

\* A goroutine that started runs to its end, and the scheduled sweep probes
\* every endpoint again and again; nothing else is promised to happen.
Fairness ==
    \A e \in Endpoints :
        /\ WF_vars(BootProbe(e) \/ SetInitial(e) \/ Swap(e))
        /\ WF_vars(Probe(e, Ticker))
        /\ \A w \in Workers :
              WF_vars(Ignore(e, w) \/ Record(e, w) \/ Store(e, w) \/ Notify(e, w))

Spec == Init /\ [][Next]_vars

FairSpec == Spec /\ Fairness
-----------------------------------------------------------------------------
(***************************************************************************)
(* Properties.                                                             *)
(***************************************************************************)

\* However reports, stores and callbacks interleave, an endpoint is in
\* rotation only on the strength of rise successes in a row recorded since it
\* was last taken out for good, and out of rotation only on the strength of
\* fall failures in a row since it was last put in (pool.go, record: the
\* verdict is stored after the mutex is released).
VerdictBacked ==
    \A e \in Endpoints :
        /\ up[e] => upRun[e] >= Rise
        /\ ~up[e] => downRun[e] >= Fall

\* A Pi-hole that answers from some point on ends up in rotation for good:
\* late stores of old verdicts are corrected by later reports (pool.go, record
\* tests the streak with >=, so a missed turn is made up for).
ReturnsToRotation ==
    \A e \in Endpoints :
        <>[](link[e] = "answers") => <>[](up[e])

\* A Pi-hole that is silent from some point on ends up out of rotation for good.
LeavesRotation ==
    \A e \in Endpoints :
        <>[](link[e] = "silent") => <>[](~up[e])

\* When nothing is in flight for an endpoint the verdict agrees with the
\* streaks: rise successes in a row have brought it back, fall failures in a
\* row have taken it out.
Quiet(e) == \A w \in Workers : worker[e][w].at \in {"idle", "boot", "outcome"}

VerdictSettled ==
    \A e \in Endpoints :
        Quiet(e) => /\ successes[e] >= Rise => up[e]
                    /\ failures[e] >= Fall => ~up[e]

(***************************************************************************)
(* Refinement: a decided but not yet stored verdict counts as given.       *)
(***************************************************************************)
Deciding(e) == worker[e][Ticker].at \in {"store", "swap"}

Verdict(e) == IF Deciding(e) THEN worker[e][Ticker].ok ELSE up[e]

Contradicting(e) == IF Verdict(e) THEN failures[e] ELSE successes[e]

FirstDue(e) == /\ worker[e][Ticker].kind = "initial"
               /\ worker[e][Ticker].at \in {"boot", "outcome"}

Abstract(e) == INSTANCE Hysteresis WITH
    fresh <- FirstDue(e), verdict <- Verdict(e), run <- Contradicting(e)

\* Where the scheduled sweep is the only reporter that affects health, record
\* and SetInitial implement, endpoint by endpoint, the hysteresis the
\* documentation promises: every step is a report applied at once, or nothing.
ImplementsHysteresis ==
    /\ \A e \in Endpoints : Abstract(e)!Init
    /\ [][\A e \in Endpoints : [Abstract(e)!Next]_(Abstract(e)!vars)]_vars
=============================================================================
