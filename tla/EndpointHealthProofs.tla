------------------------ MODULE EndpointHealthProofs ------------------------
(***************************************************************************)
(* Proofs about EndpointHealth, for any number of endpoints and reporting  *)
(* goroutines and any thresholds.                                          *)
(***************************************************************************)
EXTENDS EndpointHealth, TLAPS

-----------------------------------------------------------------------------
(***************************************************************************)
(* Type correctness.                                                       *)
(***************************************************************************)

\* The capped counter stays in range, is positive after a report, and never
\* falls behind either threshold (record's e.successes++ and e.failures++).
LEMMA CountFacts ==
    ASSUME NEW n \in 0..MaxRun
    PROVE  /\ Count(n) \in 0..MaxRun
           /\ Count(n) >= n
  BY ThresholdAssumption DEF Count

\* The longer of two streaks is one of them and bounds both.
LEMMA LargerFacts ==
    ASSUME NEW m \in 0..MaxRun, NEW n \in 0..MaxRun
    PROVE  /\ Larger(m, n) \in 0..MaxRun
           /\ Larger(m, n) >= m
           /\ Larger(m, n) >= n
  BY ThresholdAssumption DEF Larger

\* What a goroutine may be doing.
States == [at : Places, kind : Kinds, ok : BOOLEAN]

\* A goroutine that moves to a well-typed place leaves all of them well typed.
LEMMA GotoType ==
    ASSUME TypeOK, NEW e \in Endpoints, NEW w \in Workers, NEW r \in States,
           Goto(e, w, r)
    PROVE  worker' \in [Endpoints -> [Workers -> States]]
  BY DEF TypeOK, Goto, States

\* The scheduled sweep's goroutine is one of the reporters.
LEMMA TickerWorks == Ticker \in Workers
  BY DEF Workers

\* Each action of EndpointHealth keeps the type invariant.
LEMMA TypeStep == TypeOK /\ [Next]_vars => TypeOK'
<1> SUFFICES ASSUME TypeOK, [Next]_vars PROVE TypeOK'
  OBVIOUS
<1>t. Ticker \in Workers
  BY TickerWorks
<1>w. worker \in [Endpoints -> [Workers -> States]]
  BY DEF TypeOK, States
<1>m. Rise \in 0..MaxRun /\ Fall \in 0..MaxRun /\ 0 \in 0..MaxRun
  BY ThresholdAssumption
<1>i. Idle \in States
  BY DEF Idle, States, Places, Kinds
<1>1. ASSUME NEW e \in Endpoints, LinkChanges(e) PROVE TypeOK'
  BY <1>1 DEF LinkChanges, TypeOK
<1>2. ASSUME NEW e \in Endpoints, NEW w \in Workers, NEW k \in Kinds,
             Exchange(e, w, k)
      PROVE  TypeOK'
  <2>1. PICK ok \in BOOLEAN :
           Goto(e, w, [at |-> "outcome", kind |-> k, ok |-> ok])
    BY <1>2 DEF Exchange, Outcomes, TypeOK
  <2>2. [at |-> "outcome", kind |-> k, ok |-> ok] \in States
    BY DEF States, Places
  <2>3. worker' \in [Endpoints -> [Workers -> States]]
    BY <2>1, <2>2, GotoType
  <2> QED
    BY <1>2, <2>3 DEF Exchange, TypeOK, States
<1>3. ASSUME NEW e \in Endpoints, SetInitial(e) PROVE TypeOK'
  <2>1. /\ successes' \in [Endpoints -> 0..MaxRun]
        /\ failures' \in [Endpoints -> 0..MaxRun]
    BY <1>3, <1>m DEF SetInitial, TypeOK
  <2>2. /\ upRun' \in [Endpoints -> 0..MaxRun]
        /\ downRun' \in [Endpoints -> 0..MaxRun]
    BY <1>3, <2>1, LargerFacts DEF SetInitial, Evidence, TypeOK
  <2>3. [worker[e][Ticker] EXCEPT !.at = "swap"] \in States
    BY <1>w, <1>t DEF States, Places
  <2>4. worker' \in [Endpoints -> [Workers -> States]]
    BY <1>3, <1>t, <2>3, GotoType DEF SetInitial
  <2> QED
    BY <1>3, <2>1, <2>2, <2>4 DEF SetInitial, TypeOK, States
<1>4. ASSUME NEW e \in Endpoints, NEW w \in Workers, NEW v \in BOOLEAN,
             FreshEvidence(e, w, v)
      PROVE  /\ upRun' \in [Endpoints -> 0..MaxRun]
             /\ downRun' \in [Endpoints -> 0..MaxRun]
  BY <1>4 DEF FreshEvidence, TypeOK
<1>5. ASSUME NEW e \in Endpoints, Swap(e) PROVE TypeOK'
  <2>1. worker[e][Ticker].ok \in BOOLEAN
    BY <1>w, <1>t DEF States
  <2>2. [worker[e][Ticker] EXCEPT !.at = "notify"] \in States
    BY <1>w, <1>t DEF States, Places
  <2>3. worker' \in [Endpoints -> [Workers -> States]]
    BY <1>5, <1>t, <1>i, <2>2, GotoType DEF Swap
  <2>4. up' \in [Endpoints -> BOOLEAN]
    BY <1>5, <2>1 DEF Swap, TypeOK
  <2> QED
    BY <1>5, <1>4, <1>t, <2>1, <2>3, <2>4 DEF Swap, TypeOK, States
<1>6. ASSUME NEW e \in Endpoints, NEW w \in Workers, Ignore(e, w) PROVE TypeOK'
  <2>1. worker' \in [Endpoints -> [Workers -> States]]
    BY <1>6, <1>i, GotoType DEF Ignore
  <2> QED
    BY <1>6, <2>1 DEF Ignore, TypeOK, States
<1>7. ASSUME NEW e \in Endpoints, NEW w \in Workers, Record(e, w) PROVE TypeOK'
  <2>1. /\ successes' \in [Endpoints -> 0..MaxRun]
        /\ failures' \in [Endpoints -> 0..MaxRun]
    <3>1. Count(successes[e]) \in 0..MaxRun /\ Count(failures[e]) \in 0..MaxRun
      BY CountFacts DEF TypeOK
    <3> QED
      BY <1>7, <1>m, <3>1 DEF Record, Streaks, TypeOK
  <2>2. /\ upRun' \in [Endpoints -> 0..MaxRun]
        /\ downRun' \in [Endpoints -> 0..MaxRun]
    BY <1>7, <2>1, LargerFacts DEF Record, Evidence, TypeOK
  <2>3. [worker[e][w] EXCEPT !.at = "store"] \in States
    BY <1>w DEF States, Places
  <2>4. worker' \in [Endpoints -> [Workers -> States]]
    BY <1>7, <1>i, <2>3, GotoType DEF Record
  <2> QED
    BY <1>7, <2>1, <2>2, <2>4 DEF Record, TypeOK, States
<1>8. ASSUME NEW e \in Endpoints, NEW w \in Workers, Store(e, w) PROVE TypeOK'
  <2>1. worker[e][w].ok \in BOOLEAN
    BY <1>w DEF States
  <2>2. [worker[e][w] EXCEPT !.at = "notify"] \in States
    BY <1>w DEF States, Places
  <2>3. worker' \in [Endpoints -> [Workers -> States]]
    BY <1>8, <2>2, GotoType DEF Store
  <2>4. up' \in [Endpoints -> BOOLEAN]
    BY <1>8, <2>1 DEF Store, TypeOK
  <2> QED
    BY <1>8, <1>4, <2>1, <2>3, <2>4 DEF Store, TypeOK, States
<1>9. ASSUME NEW e \in Endpoints, NEW w \in Workers, Notify(e, w) PROVE TypeOK'
  <2>1. worker' \in [Endpoints -> [Workers -> States]]
    BY <1>9, <1>i, GotoType DEF Notify
  <2> QED
    BY <1>9, <2>1 DEF Notify, TypeOK, States
<1>10. CASE UNCHANGED vars
  BY <1>10 DEF vars, TypeOK
<1>k. {"initial", "probe", "query"} \subseteq Kinds
  BY DEF Kinds
<1> QED
  BY <1>1, <1>2, <1>3, <1>5, <1>6, <1>7, <1>8, <1>9, <1>10, <1>k, <1>t
  DEF Next, BootProbe, Probe, Query

\* Every behaviour of the reports keeps the state well typed: in particular no
\* streak counter leaves its range and no goroutine loses its place.
THEOREM TypeCorrect == Spec => []TypeOK
<1>1. Init => TypeOK
  BY ThresholdAssumption, ModeAssumption
  DEF Init, TypeOK, Idle, Boot, Places, Kinds
<1> QED
  BY <1>1, TypeStep, PTL DEF Spec
-----------------------------------------------------------------------------
(***************************************************************************)
(* Every verdict is backed by a streak.  VerdictBacked says nothing of the *)
(* verdicts still held by goroutines, which later steps store: the         *)
(* inductive invariant adds that those are backed too, and that the        *)
(* history never runs behind the live streaks.                             *)
(***************************************************************************)
Backing(e) ==
    /\ upRun[e] >= successes[e]
    /\ downRun[e] >= failures[e]
    /\ up[e] => upRun[e] >= Rise
    /\ ~up[e] => downRun[e] >= Fall
    /\ \A w \in Workers :
          /\ Holds(e, w, TRUE) => upRun[e] >= Rise
          /\ Holds(e, w, FALSE) => downRun[e] >= Fall

BackedInv == TypeOK /\ \A e \in Endpoints : Backing(e)

\* A step that leaves an endpoint's variables alone keeps its backing.
LEMMA BackingFrame ==
    ASSUME NEW e \in Endpoints, Backing(e),
           up'[e] = up[e], successes'[e] = successes[e],
           failures'[e] = failures[e], upRun'[e] = upRun[e],
           downRun'[e] = downRun[e],
           \A w \in Workers, v \in BOOLEAN : Holds(e, w, v)' => Holds(e, w, v)
    PROVE  Backing(e)'
  BY DEF Backing

\* A goroutine that moves to a place that holds no verdict leaves the others'.
LEMMA GotoHolds ==
    ASSUME TypeOK, NEW e \in Endpoints, NEW w \in Workers, NEW r, Goto(e, w, r),
           NEW d \in Endpoints, NEW u \in Workers, NEW v \in BOOLEAN,
           Holds(d, u, v)'
    PROVE  \/ Holds(d, u, v)
           \/ d = e /\ u = w /\ r.at \in {"store", "swap"} /\ r.ok = v
  BY DEF TypeOK, Goto, Holds

\* Each action keeps every endpoint's backing.
LEMMA BackedStep == BackedInv /\ [Next]_vars => BackedInv'
<1> SUFFICES ASSUME BackedInv, [Next]_vars PROVE BackedInv'
  OBVIOUS
<1> USE DEF BackedInv
<1>t. TypeOK'
  BY TypeStep
<1>k. Ticker \in Workers
  BY TickerWorks
<1>1. ASSUME NEW e \in Endpoints, LinkChanges(e) PROVE BackedInv'
  BY <1>1, <1>t DEF LinkChanges, Backing, Holds
<1>2. ASSUME NEW e \in Endpoints, NEW w \in Workers, NEW r,
             Goto(e, w, r), r.at \notin {"store", "swap"},
             UNCHANGED <<up, successes, failures, upRun, downRun>>
      PROVE  BackedInv'
  <2> SUFFICES ASSUME NEW d \in Endpoints PROVE Backing(d)'
    BY <1>t
  <2>1. \A u \in Workers, v \in BOOLEAN : Holds(d, u, v)' => Holds(d, u, v)
    BY <1>2, GotoHolds
  <2> QED
    BY <1>2, <2>1, BackingFrame
<1>3. ASSUME NEW e \in Endpoints, NEW w \in Workers, NEW k, Exchange(e, w, k)
      PROVE  BackedInv'
  <2>1. PICK ok : Goto(e, w, [at |-> "outcome", kind |-> k, ok |-> ok])
    BY <1>3 DEF Exchange
  <2> QED
    BY <1>2, <1>3, <2>1 DEF Exchange
<1>4. ASSUME NEW e \in Endpoints, NEW w \in Workers, NEW r, Goto(e, w, r),
             Evidence(e), UNCHANGED up,
             \A d \in Endpoints \ {e} : /\ successes'[d] = successes[d]
                                       /\ failures'[d] = failures[d],
             r.at \in {"store", "swap"} /\ r.ok = TRUE => successes'[e] >= Rise,
             r.at \in {"store", "swap"} /\ r.ok = FALSE => failures'[e] >= Fall
      PROVE  BackedInv'
  <2> SUFFICES ASSUME NEW d \in Endpoints PROVE Backing(d)'
    BY <1>t
  <2>1. CASE d # e
    <3>1. \A u \in Workers, v \in BOOLEAN : Holds(d, u, v)' => Holds(d, u, v)
      BY <1>4, <2>1, GotoHolds
    <3>2. upRun'[d] = upRun[d] /\ downRun'[d] = downRun[d]
      BY <1>4, <2>1 DEF Evidence, TypeOK
    <3> QED
      BY <1>4, <2>1, <3>1, <3>2, BackingFrame
  <2>2. CASE d = e
    <3>1. /\ upRun'[e] >= upRun[e] /\ upRun'[e] >= successes'[e]
          /\ downRun'[e] >= downRun[e] /\ downRun'[e] >= failures'[e]
      <4>1. /\ upRun'[e] = Larger(upRun[e], successes'[e])
            /\ downRun'[e] = Larger(downRun[e], failures'[e])
        BY <1>4 DEF Evidence, TypeOK
      <4> QED
        BY <4>1, <1>t, LargerFacts DEF TypeOK
    <3>2. /\ upRun[e] \in Nat /\ upRun'[e] \in Nat /\ successes'[e] \in Nat
          /\ downRun[e] \in Nat /\ downRun'[e] \in Nat /\ failures'[e] \in Nat
          /\ Rise \in Nat /\ Fall \in Nat
      BY <1>t, ThresholdAssumption DEF TypeOK
    <3>3. ASSUME NEW u \in Workers, Holds(e, u, TRUE)' PROVE upRun'[e] >= Rise
      <4>1. Holds(e, u, TRUE) \/ (r.at \in {"store", "swap"} /\ r.ok = TRUE)
        BY <1>4, <3>3, GotoHolds
      <4>2. upRun[e] >= Rise \/ successes'[e] >= Rise
        BY <1>4, <4>1 DEF Backing
      <4> QED
        BY <3>1, <3>2, <4>2
    <3>4. ASSUME NEW u \in Workers, Holds(e, u, FALSE)' PROVE downRun'[e] >= Fall
      <4>1. Holds(e, u, FALSE) \/ (r.at \in {"store", "swap"} /\ r.ok = FALSE)
        BY <1>4, <3>4, GotoHolds
      <4>2. downRun[e] >= Fall \/ failures'[e] >= Fall
        BY <1>4, <4>1 DEF Backing
      <4> QED
        BY <3>1, <3>2, <4>2
    <3>5. (up'[e] => upRun'[e] >= Rise) /\ (~up'[e] => downRun'[e] >= Fall)
      <4>1. /\ up'[e] = up[e]
            /\ up[e] => upRun[e] >= Rise
            /\ ~up[e] => downRun[e] >= Fall
        BY <1>4 DEF Backing
      <4> QED
        BY <3>1, <3>2, <4>1
    <3> QED
      BY <2>2, <3>1, <3>3, <3>4, <3>5 DEF Backing
  <2> QED
    BY <2>1, <2>2
<1>5. ASSUME NEW e \in Endpoints, SetInitial(e) PROVE BackedInv'
  <2> DEFINE r == [worker[e][Ticker] EXCEPT !.at = "swap"]
  <2>1. r.ok = worker[e][Ticker].ok
    BY <1>k DEF TypeOK
  <2>2. /\ \A d \in Endpoints \ {e} : /\ successes'[d] = successes[d]
                                      /\ failures'[d] = failures[d]
        /\ r.ok = TRUE => successes'[e] >= Rise
        /\ r.ok = FALSE => failures'[e] >= Fall
    BY <1>5, <2>1, ThresholdAssumption DEF SetInitial, TypeOK
  <2>3. Goto(e, Ticker, r) /\ Evidence(e) /\ UNCHANGED up
    BY <1>5 DEF SetInitial
  <2> QED
    BY <1>4, <1>k, <2>2, <2>3
<1>6. ASSUME NEW e \in Endpoints, NEW w \in Workers, Record(e, w) PROVE BackedInv'
  <2> DEFINE r == [worker[e][w] EXCEPT !.at = "store"]
  <2>1. r.ok = worker[e][w].ok /\ worker[e][w].ok \in BOOLEAN
    BY DEF TypeOK
  <2>2. /\ \A d \in Endpoints \ {e} : /\ successes'[d] = successes[d]
                                      /\ failures'[d] = failures[d]
        /\ r.ok = TRUE => successes'[e] = Count(successes[e])
        /\ r.ok = FALSE => failures'[e] = Count(failures[e])
    BY <1>6, <2>1 DEF Record, Streaks, TypeOK
  <2>3. Evidence(e) /\ UNCHANGED up
    BY <1>6 DEF Record
  <2>4. CASE Goto(e, w, Idle)
    <3>1. Idle.at \notin {"store", "swap"}
      BY DEF Idle
    <3> QED
      BY <1>4, <2>2, <2>3, <2>4, <3>1
  <2>5. CASE /\ Goto(e, w, r)
             /\ Turns(up[e], r.ok, Count(IF r.ok THEN successes[e] ELSE failures[e]))
    <3>1. /\ r.ok = TRUE => successes'[e] >= Rise
          /\ r.ok = FALSE => failures'[e] >= Fall
      BY <2>2, <2>5 DEF Turns
    <3> QED
      BY <1>4, <2>2, <2>3, <2>5, <3>1
  <2> QED
    BY <1>6, <2>1, <2>4, <2>5 DEF Record
<1>7. ASSUME NEW e \in Endpoints, NEW w \in Workers, NEW v \in BOOLEAN, NEW r,
             Holds(e, w, v), Goto(e, w, r), r.at \notin {"store", "swap"},
             up' = [up EXCEPT ![e] = v], FreshEvidence(e, w, v),
             UNCHANGED <<successes, failures>>
      PROVE  BackedInv'
  <2> SUFFICES ASSUME NEW d \in Endpoints PROVE Backing(d)'
    BY <1>t
  <2>1. \A u \in Workers, x \in BOOLEAN : Holds(d, u, x)' => Holds(d, u, x)
    BY <1>7, GotoHolds
  <2>2. CASE d # e
    BY <1>7, <2>1, <2>2, BackingFrame DEF FreshEvidence, TypeOK
  <2>3. CASE d = e
    <3>1. \A x \in BOOLEAN : ~Holds(e, w, x)'
      BY <1>7 DEF TypeOK, Holds, Goto
    <3>2. up'[e] = v
      BY <1>7 DEF TypeOK
    <3>3. CASE v
      <4>1. upRun'[e] = upRun[e] /\ upRun[e] >= Rise
        BY <1>7, <3>3 DEF FreshEvidence, Backing
      <4>2. CASE \E u \in Workers \ {w} : Holds(e, u, FALSE)
        BY <1>7, <2>1, <2>3, <3>2, <3>3, <4>1, <4>2 DEF FreshEvidence, Backing
      <4>3. CASE ~\E u \in Workers \ {w} : Holds(e, u, FALSE)
        <5>1. downRun'[e] = failures[e]
          BY <1>7, <3>3, <4>3 DEF FreshEvidence, TypeOK
        <5>2. \A u \in Workers : ~Holds(e, u, FALSE)'
          BY <2>1, <2>3, <3>1, <4>3
        <5>3. downRun'[e] >= failures'[e]
          BY <1>7, <1>t, <5>1 DEF TypeOK
        <5>4. upRun'[e] >= successes'[e]
          BY <1>7, <4>1 DEF Backing
        <5> QED
          BY <2>3, <3>2, <3>3, <4>1, <5>2, <5>3, <5>4 DEF Backing
      <4> QED
        BY <4>2, <4>3
    <3>4. CASE ~v
      <4>1. downRun'[e] = downRun[e] /\ downRun[e] >= Fall
        BY <1>7, <3>4 DEF FreshEvidence, Backing
      <4>2. CASE \E u \in Workers \ {w} : Holds(e, u, TRUE)
        BY <1>7, <2>1, <2>3, <3>2, <3>4, <4>1, <4>2 DEF FreshEvidence, Backing
      <4>3. CASE ~\E u \in Workers \ {w} : Holds(e, u, TRUE)
        <5>1. upRun'[e] = successes[e]
          BY <1>7, <3>4, <4>3 DEF FreshEvidence, TypeOK
        <5>2. \A u \in Workers : ~Holds(e, u, TRUE)'
          BY <2>1, <2>3, <3>1, <4>3
        <5>3. upRun'[e] >= successes'[e]
          BY <1>7, <1>t, <5>1 DEF TypeOK
        <5>4. downRun'[e] >= failures'[e]
          BY <1>7, <4>1 DEF Backing
        <5> QED
          BY <2>3, <3>2, <3>4, <4>1, <5>2, <5>3, <5>4 DEF Backing
      <4> QED
        BY <4>2, <4>3
    <3> QED
      BY <3>3, <3>4
  <2> QED
    BY <2>2, <2>3
<1>8. ASSUME NEW e \in Endpoints, Swap(e) PROVE BackedInv'
  <2> DEFINE r == IF up[e] # worker[e][Ticker].ok
                  THEN [worker[e][Ticker] EXCEPT !.at = "notify"] ELSE Idle
  <2>1. worker[e][Ticker].ok \in BOOLEAN
    BY <1>k DEF TypeOK
  <2>2. r.at \notin {"store", "swap"}
    BY <1>k DEF TypeOK, Idle
  <2>3. Goto(e, Ticker, r)
    BY <1>8 DEF Swap
  <2>4. Holds(e, Ticker, worker[e][Ticker].ok)
    BY <1>8 DEF Swap, At, Holds
  <2> HIDE DEF r
  <2> QED
    BY <1>7, <1>8, <1>k, <2>1, <2>2, <2>3, <2>4 DEF Swap
<1>9. ASSUME NEW e \in Endpoints, NEW w \in Workers, Store(e, w) PROVE BackedInv'
  <2> DEFINE r == [worker[e][w] EXCEPT !.at = "notify"]
  <2>1. worker[e][w].ok \in BOOLEAN
    BY DEF TypeOK
  <2>2. r.at \notin {"store", "swap"}
    BY DEF TypeOK
  <2>3. Goto(e, w, r)
    BY <1>9 DEF Store
  <2>4. Holds(e, w, worker[e][w].ok)
    BY <1>9 DEF Store, At, Holds
  <2> HIDE DEF r
  <2> QED
    BY <1>7, <1>9, <2>1, <2>2, <2>3, <2>4 DEF Store
<1>10. ASSUME NEW e \in Endpoints, NEW w \in Workers, Ignore(e, w) \/ Notify(e, w)
       PROVE  BackedInv'
  <2>1. Idle.at \notin {"store", "swap"}
    BY DEF Idle
  <2> QED
    BY <1>2, <1>10, <2>1 DEF Ignore, Notify
<1>11. CASE UNCHANGED vars
  BY <1>11, <1>t DEF vars, Backing, Holds
<1> QED
  BY <1>1, <1>3, <1>5, <1>6, <1>8, <1>9, <1>10, <1>11, <1>k
  DEF Next, BootProbe, Probe, Query

\* In every behaviour an endpoint in rotation has rise successes in a row
\* behind it and an endpoint out of rotation fall failures in a row, whatever
\* the interleaving of decisions and stores in record and SetInitial.
THEOREM AlwaysBacked == Spec => []VerdictBacked
<1>1. Init => BackedInv
  <2> SUFFICES ASSUME Init PROVE BackedInv
    OBVIOUS
  <2>1. TypeOK
    BY ThresholdAssumption, ModeAssumption
    DEF Init, TypeOK, Idle, Boot, Places, Kinds
  <2>2. ASSUME NEW e \in Endpoints PROVE Backing(e)
    BY ThresholdAssumption DEF Init, Backing, Holds, Idle, Boot
  <2> QED
    BY <2>1, <2>2 DEF BackedInv
<1>2. BackedInv => VerdictBacked
  BY DEF BackedInv, Backing, VerdictBacked
<1> QED
  BY <1>1, <1>2, BackedStep, PTL DEF Spec
-----------------------------------------------------------------------------
(***************************************************************************)
(* Where the scheduled sweep is the only reporter that affects health      *)
(* (passive checks off, no probe started by hand) the detailed reports     *)
(* implement Hysteresis.  The invariant says where the ticker's goroutine  *)
(* may be, that a query handler never holds a verdict, and that outside a  *)
(* pending store no streak has reached the threshold against the verdict.  *)
(***************************************************************************)
Stage(e) ==
    LET t == worker[e][Ticker]
    IN  /\ t.at = "idle" => t.kind = "none"
        /\ t.at = "boot" => t.kind = "initial"
        /\ t.at = "outcome" => t.kind \in {"initial", "probe"}
        /\ t.at = "swap" => t.kind = "initial"
        /\ t.at = "store" => t.kind = "probe"
        /\ \A q \in Queriers :
              /\ worker[e][q].at \in {"idle", "outcome"}
              /\ worker[e][q].at = "outcome" => worker[e][q].kind = "query"

Settled(e) ==
    /\ FirstDue(e) => ~up[e] /\ successes[e] = 0 /\ failures[e] = 0
    /\ ~Deciding(e) => /\ up[e] => failures[e] < Fall
                       /\ ~up[e] => successes[e] < Rise
    /\ Deciding(e) => /\ worker[e][Ticker].ok => failures[e] = 0
                      /\ ~worker[e][Ticker].ok => successes[e] = 0

SequentialInv == TypeOK /\ \A e \in Endpoints : Stage(e) /\ Settled(e)

\* What the abstract specification sees of an endpoint.
Seen(e) == <<FirstDue(e), Verdict(e), Contradicting(e)>>

\* A step of one endpoint's ticker or of its links is invisible to the others.
LEMMA OtherEndpoints ==
    ASSUME TypeOK, NEW e \in Endpoints, NEW d \in Endpoints, d # e,
           Stage(d), Settled(d),
           worker'[d] = worker[d], up'[d] = up[d],
           successes'[d] = successes[d], failures'[d] = failures[d]
    PROVE  Stage(d)' /\ Settled(d)' /\ Seen(d)' = Seen(d)
  BY DEF Stage, Settled, FirstDue, Deciding, Verdict, Contradicting, Seen

\* A step the abstract specification does not see is a stuttering step of it.
LEMMA Unseen ==
    ASSUME NEW e \in Endpoints, Seen(e)' = Seen(e)
    PROVE  [Abstract(e)!Next]_(Abstract(e)!vars)
  BY DEF Seen, Abstract!vars

\* A step of one endpoint that keeps its own part of the invariant and is a
\* step of its abstraction is a step of the whole.
LEMMA OneEndpoint ==
    ASSUME SequentialInv, TypeOK', NEW e \in Endpoints,
           Stage(e)', Settled(e)',
           [Abstract(e)!Next]_(Abstract(e)!vars),
           \A d \in Endpoints \ {e} :
              /\ worker'[d] = worker[d] /\ up'[d] = up[d]
              /\ successes'[d] = successes[d] /\ failures'[d] = failures[d]
    PROVE  /\ SequentialInv'
           /\ \A d \in Endpoints : [Abstract(d)!Next]_(Abstract(d)!vars)
<1> SUFFICES ASSUME NEW d \in Endpoints
             PROVE  /\ Stage(d)' /\ Settled(d)'
                    /\ [Abstract(d)!Next]_(Abstract(d)!vars)
  BY DEF SequentialInv
<1>1. CASE d = e
  BY <1>1
<1>2. CASE d # e
  <2>1. Stage(d)' /\ Settled(d)' /\ Seen(d)' = Seen(d)
    BY <1>2, OtherEndpoints DEF SequentialInv
  <2> QED
    BY <2>1, Unseen
<1> QED
  BY <1>1, <1>2

\* Each action keeps the invariant and is, for every endpoint, a step of
\* Hysteresis or a stuttering step of it.
LEMMA SequentialStep ==
    ASSUME Probers = {}, Passive = FALSE, SequentialInv, [Next]_vars
    PROVE  /\ SequentialInv'
           /\ \A e \in Endpoints : [Abstract(e)!Next]_(Abstract(e)!vars)
<1> DEFINE Goal == /\ SequentialInv'
                   /\ \A e \in Endpoints : [Abstract(e)!Next]_(Abstract(e)!vars)
<1>t. TypeOK /\ TypeOK'
  BY TypeStep DEF SequentialInv
<1>w. /\ Ticker \in Workers /\ Queriers \subseteq Workers /\ Ticker \notin Queriers
      /\ Workers = {Ticker} \cup Queriers
  BY WorkerAssumption DEF Workers
<1>r. Rise \in Nat \ {0} /\ Fall \in Nat \ {0} /\ MaxRun \in Nat
      /\ MaxRun >= Rise /\ MaxRun >= Fall
  BY ThresholdAssumption
<1>a. ASSUME NEW e \in Endpoints, NEW w \in Workers, NEW r, Goto(e, w, r)
      PROVE  /\ \A d \in Endpoints \ {e} : worker'[d] = worker[d]
             /\ \A u \in Workers : worker'[e][u] = IF u = w THEN r ELSE worker[e][u]
  BY <1>a, <1>t DEF Goto, TypeOK
<1>1. ASSUME NEW e \in Endpoints, LinkChanges(e) PROVE Goal
  <2>1. Stage(e)' /\ Settled(e)' /\ Seen(e)' = Seen(e)
    BY <1>1 DEF LinkChanges, SequentialInv, Stage, Settled, Seen, FirstDue,
       Deciding, Verdict, Contradicting
  <2> QED
    BY <1>1, <1>t, <2>1, Unseen, OneEndpoint DEF LinkChanges
<1>2. ASSUME NEW e \in Endpoints, BootProbe(e) PROVE Goal
  <2>1. PICK ok : Goto(e, Ticker, [at |-> "outcome", kind |-> "initial", ok |-> ok])
    BY <1>2 DEF BootProbe, Exchange
  <2>2. /\ \A d \in Endpoints \ {e} : worker'[d] = worker[d]
        /\ worker'[e][Ticker].at = "outcome"
        /\ worker'[e][Ticker].kind = "initial"
        /\ \A q \in Queriers : worker'[e][q] = worker[e][q]
    BY <2>1, <1>a, <1>w
  <2>3. /\ worker[e][Ticker].at = "boot"
        /\ UNCHANGED <<up, successes, failures>>
    BY <1>2 DEF BootProbe, At, Exchange
  <2>4. Stage(e)' /\ Settled(e)' /\ Seen(e)' = Seen(e)
    BY <2>2, <2>3 DEF SequentialInv, Stage, Settled, Seen, FirstDue,
       Deciding, Verdict, Contradicting
  <2> QED
    BY <1>t, <2>2, <2>3, <2>4, Unseen, OneEndpoint
<1>3. ASSUME NEW e \in Endpoints, SetInitial(e) PROVE Goal
  <2> DEFINE ok == worker[e][Ticker].ok
             r == [worker[e][Ticker] EXCEPT !.at = "swap"]
  <2>1. /\ r.at = "swap" /\ r.kind = "initial" /\ r.ok = ok /\ ok \in BOOLEAN
    BY <1>3, <1>t, <1>w DEF SetInitial, TypeOK
  <2>2. /\ \A d \in Endpoints \ {e} : worker'[d] = worker[d]
        /\ worker'[e][Ticker] = r
        /\ \A q \in Queriers : worker'[e][q] = worker[e][q]
    <3>1. Goto(e, Ticker, r)
      BY <1>3 DEF SetInitial
    <3> HIDE DEF r
    <3> QED
      BY <3>1, <1>a, <1>w
  <2>3. /\ successes'[e] = IF ok THEN Rise ELSE 0
        /\ failures'[e] = IF ok THEN 0 ELSE Fall
        /\ \A d \in Endpoints \ {e} : /\ successes'[d] = successes[d]
                                      /\ failures'[d] = failures[d]
        /\ UNCHANGED up
    BY <1>3, <1>t DEF SetInitial, TypeOK
  <2>4. Stage(e)' /\ Settled(e)'
    BY <2>1, <2>2, <2>3, <1>w DEF SequentialInv, Stage, Settled, FirstDue, Deciding
  <2>5. Abstract(e)!First(ok)
    <3>1. FirstDue(e)
      BY <1>3 DEF SetInitial, At, FirstDue
    <3>2. ~FirstDue(e)' /\ Deciding(e)'
      BY <2>1, <2>2 DEF FirstDue, Deciding
    <3>3. Verdict(e)' = ok
      BY <3>2, <2>1, <2>2 DEF Verdict
    <3>4. Contradicting(e)' = 0
      BY <3>3, <2>3 DEF Contradicting
    <3> QED
      BY <3>1, <3>2, <3>3, <3>4 DEF Abstract!First, FirstDue
  <2>6. [Abstract(e)!Next]_(Abstract(e)!vars)
    BY <2>1, <2>5 DEF Abstract!Next
  <2> QED
    BY <1>t, <2>2, <2>3, <2>4, <2>6, OneEndpoint
<1>4. ASSUME NEW e \in Endpoints, NEW w \in Workers, NEW v \in BOOLEAN, NEW r,
             w = Ticker, Goto(e, w, r), r.at \in {"idle", "notify"},
             r.at = "idle" => r.kind = "none",
             Deciding(e), worker[e][Ticker].ok = v,
             up' = [up EXCEPT ![e] = v], UNCHANGED <<successes, failures>>
      PROVE  Goal
  <2>2. /\ \A d \in Endpoints \ {e} : worker'[d] = worker[d]
        /\ worker'[e][Ticker] = r
        /\ \A q \in Queriers : worker'[e][q] = worker[e][q]
    BY <1>4, <1>a, <1>w
  <2>3. up'[e] = v /\ \A d \in Endpoints \ {e} : up'[d] = up[d]
    BY <1>4, <1>t DEF TypeOK
  <2>4. Stage(e)'
    BY <1>4, <2>2, <1>w DEF SequentialInv, Stage
  <2>5. ~Deciding(e)' /\ ~FirstDue(e)' /\ ~FirstDue(e)
    BY <1>4, <2>2 DEF Deciding, FirstDue
  <2>6. Settled(e)'
    BY <1>4, <1>r, <2>3, <2>5 DEF SequentialInv, Settled
  <2>7. Verdict(e) = v /\ Verdict(e)' = v
    BY <1>4, <2>3, <2>5 DEF Verdict
  <2>8. Seen(e)' = Seen(e)
    BY <1>4, <2>5, <2>7 DEF Seen, Contradicting, FirstDue
  <2> QED
    BY <1>4, <1>t, <2>2, <2>3, <2>4, <2>6, <2>8, Unseen, OneEndpoint
<1>5. ASSUME NEW e \in Endpoints, Swap(e) PROVE Goal
  <2> DEFINE r == IF up[e] # worker[e][Ticker].ok
                  THEN [worker[e][Ticker] EXCEPT !.at = "notify"] ELSE Idle
  <2>1. worker[e][Ticker].ok \in BOOLEAN
    BY <1>t, <1>w DEF TypeOK
  <2>2. r.at \in {"idle", "notify"} /\ (r.at = "idle" => r.kind = "none")
    BY <1>t, <1>w DEF TypeOK, Idle
  <2>3. Goto(e, Ticker, r)
    BY <1>5 DEF Swap
  <2>4. Deciding(e)
    BY <1>5 DEF Swap, At, Deciding
  <2> HIDE DEF r
  <2> QED
    BY <1>4, <1>5, <1>w, <2>1, <2>2, <2>3, <2>4 DEF Swap
<1>6. ASSUME NEW e \in Endpoints, NEW w \in Workers, Store(e, w) PROVE Goal
  <2> DEFINE r == [worker[e][w] EXCEPT !.at = "notify"]
  <2>1. worker[e][w].ok \in BOOLEAN
    BY <1>t DEF TypeOK
  <2>2. r.at = "notify"
    BY <1>t DEF TypeOK
  <2>3. Goto(e, w, r)
    BY <1>6 DEF Store
  <2>4. w = Ticker
    BY <1>6, <1>w DEF Store, At, SequentialInv, Stage
  <2>5. Deciding(e)
    BY <1>6, <2>4 DEF Store, At, Deciding
  <2> HIDE DEF r
  <2> QED
    BY <1>4, <1>6, <2>1, <2>2, <2>3, <2>4, <2>5 DEF Store
<1>7. ASSUME NEW e \in Endpoints, NEW w \in Workers, Probe(e, w) PROVE Goal
  <2>0. w = Ticker
    BY <1>7 DEF Probe
  <2>1. PICK ok : Goto(e, w, [at |-> "outcome", kind |-> "probe", ok |-> ok])
    BY <1>7 DEF Probe, Exchange
  <2>2. /\ \A d \in Endpoints \ {e} : worker'[d] = worker[d]
        /\ worker'[e][Ticker].at = "outcome"
        /\ worker'[e][Ticker].kind = "probe"
        /\ \A q \in Queriers : worker'[e][q] = worker[e][q]
    BY <2>0, <2>1, <1>a, <1>w
  <2>3. /\ worker[e][Ticker].at = "idle"
        /\ UNCHANGED <<up, successes, failures>>
    BY <1>7, <2>0 DEF Probe, At, Exchange
  <2>4. Stage(e)' /\ Settled(e)' /\ Seen(e)' = Seen(e)
    BY <2>2, <2>3 DEF SequentialInv, Stage, Settled, Seen, FirstDue,
       Deciding, Verdict, Contradicting
  <2> QED
    BY <1>t, <2>2, <2>3, <2>4, Unseen, OneEndpoint
<1>8. ASSUME NEW e \in Endpoints, NEW q \in Queriers, NEW r, Goto(e, q, r),
             r.at \in {"idle", "outcome"}, r.at = "outcome" => r.kind = "query",
             UNCHANGED <<up, successes, failures>>
      PROVE  Goal
  <2>1. /\ \A d \in Endpoints \ {e} : worker'[d] = worker[d]
        /\ worker'[e][Ticker] = worker[e][Ticker]
        /\ worker'[e][q] = r
        /\ \A u \in Queriers \ {q} : worker'[e][u] = worker[e][u]
    BY <1>8, <1>a, <1>w
  <2>2. Stage(e)' /\ Settled(e)' /\ Seen(e)' = Seen(e)
    BY <1>8, <2>1 DEF SequentialInv, Stage, Settled, Seen, FirstDue,
       Deciding, Verdict, Contradicting
  <2> QED
    BY <1>8, <1>t, <2>1, <2>2, Unseen, OneEndpoint
<1>9. ASSUME NEW e \in Endpoints, NEW w \in Workers, Query(e, w) PROVE Goal
  <2>1. PICK ok : Goto(e, w, [at |-> "outcome", kind |-> "query", ok |-> ok])
    BY <1>9 DEF Query, Exchange
  <2> QED
    BY <1>8, <1>9, <2>1 DEF Query, Exchange
<1>10. ASSUME NEW e \in Endpoints, NEW w \in Workers, Ignore(e, w) PROVE Goal
  <2>1. w \in Queriers
    BY <1>10, <1>w DEF Ignore, At, SequentialInv, Stage
  <2> QED
    BY <1>8, <1>10, <2>1 DEF Ignore, Idle
<1>11. ASSUME NEW e \in Endpoints, NEW w \in Workers, Notify(e, w) PROVE Goal
  <2>1. w = Ticker
    BY <1>11, <1>w DEF Notify, At, SequentialInv, Stage
  <2>2. /\ \A d \in Endpoints \ {e} : worker'[d] = worker[d]
        /\ worker'[e][Ticker] = Idle
        /\ \A q \in Queriers : worker'[e][q] = worker[e][q]
        /\ worker[e][Ticker].at = "notify"
        /\ UNCHANGED <<up, successes, failures>>
    BY <1>11, <2>1, <1>a, <1>w DEF Notify, At
  <2>3. Stage(e)' /\ Settled(e)' /\ Seen(e)' = Seen(e)
    BY <2>2 DEF SequentialInv, Stage, Settled, Seen, FirstDue,
       Deciding, Verdict, Contradicting, Idle
  <2> QED
    BY <1>t, <2>2, <2>3, Unseen, OneEndpoint
<1>12. ASSUME NEW e \in Endpoints, NEW w \in Workers, Record(e, w) PROVE Goal
  <2> DEFINE ok == worker[e][w].ok
             n == Count(IF ok THEN successes[e] ELSE failures[e])
             r == IF Turns(up[e], ok, n)
                  THEN [worker[e][w] EXCEPT !.at = "store"] ELSE Idle
  <2>0. w = Ticker /\ worker[e][Ticker].kind = "probe"
        /\ worker[e][Ticker].at = "outcome"
    BY <1>12, <1>w DEF Record, At, AffectsHealth, SequentialInv, Stage
  <2>1. /\ ok \in BOOLEAN /\ up[e] \in BOOLEAN
        /\ successes[e] \in 0..MaxRun /\ failures[e] \in 0..MaxRun
    BY <1>t DEF TypeOK
  <2>2. IF Turns(up[e], ok, n)
        THEN r.at = "store" /\ r.kind = "probe" /\ r.ok = ok
        ELSE r.at = "idle" /\ r.kind = "none"
    BY <1>t, <2>0 DEF TypeOK, Idle
  <2>3. /\ \A d \in Endpoints \ {e} : worker'[d] = worker[d]
        /\ worker'[e][Ticker] = r
        /\ \A q \in Queriers : worker'[e][q] = worker[e][q]
    <3>1. Goto(e, Ticker, r)
      BY <1>12, <2>0 DEF Record
    <3> HIDE DEF r
    <3> QED
      BY <3>1, <1>a, <1>w
  <2>4. /\ successes'[e] = IF ok THEN Count(successes[e]) ELSE 0
        /\ failures'[e] = IF ok THEN 0 ELSE Count(failures[e])
        /\ \A d \in Endpoints \ {e} : /\ successes'[d] = successes[d]
                                      /\ failures'[d] = failures[d]
        /\ UNCHANGED up
    BY <1>12, <1>t DEF Record, Streaks, TypeOK
  <2>5. /\ up[e] => failures[e] < Fall
        /\ ~up[e] => successes[e] < Rise
        /\ ~Deciding(e) /\ ~FirstDue(e)
    BY <2>0 DEF SequentialInv, Settled, Deciding, FirstDue
  <2>6. ok # up[e] => n = (IF ok THEN successes[e] ELSE failures[e]) + 1
    BY <1>r, <2>1, <2>5 DEF Count
  <2>7. Turns(up[e], ok, n) <=> ok # up[e] /\ n >= (IF ok THEN Rise ELSE Fall)
    BY DEF Turns
  <2> HIDE DEF ok, n, r
  <2>8. Stage(e)'
    BY <2>2, <2>3, <1>w DEF SequentialInv, Stage
  <2>9. Deciding(e)' <=> Turns(up[e], ok, n)
    BY <2>2, <2>3 DEF Deciding
  <2>10. ~FirstDue(e)'
    BY <2>2, <2>3 DEF FirstDue
  <2>11. Verdict(e) = up[e]
    BY <2>5 DEF Verdict
  <2>12. Verdict(e)' = IF Turns(up[e], ok, n) THEN ok ELSE up[e]
    BY <2>2, <2>3, <2>4, <2>9 DEF Verdict
  <2>13. Settled(e)'
    <3>1. CASE Turns(up[e], ok, n)
      <4>1. Deciding(e)' /\ worker'[e][Ticker].ok = ok
        BY <3>1, <2>2, <2>3, <2>9
      <4> QED
        BY <4>1, <2>4, <2>10 DEF Settled
    <3>2. CASE ~Turns(up[e], ok, n)
      <4>1. ASSUME up[e] PROVE failures'[e] < Fall
        <5>1. CASE ok
          BY <5>1, <1>r, <2>4
        <5>2. CASE ~ok
          <6>1. ok # up[e]
            BY <4>1, <5>2
          <6>2. failures'[e] = n /\ n = failures[e] + 1
            BY <5>2, <6>1, <2>4, <2>6 DEF n
          <6>3. ~(n >= Fall)
            BY <3>2, <5>2, <6>1, <2>7
          <6> QED
            BY <6>2, <6>3, <1>r, <2>1
        <5> QED
          BY <5>1, <5>2
      <4>2. ~up[e] => successes'[e] < Rise
        BY <3>2, <1>r, <2>1, <2>4, <2>5, <2>6, <2>7 DEF n
      <4> QED
        BY <3>2, <4>1, <4>2, <2>4, <2>9, <2>10 DEF Settled
    <3> QED
      BY <3>1, <3>2
  <2>14. [Abstract(e)!Next]_(Abstract(e)!vars)
    <3>0. UNCHANGED FirstDue(e)
      BY <2>5, <2>10 DEF FirstDue
    <3>1. CASE ok = up[e]
      <4>1. ~Turns(up[e], ok, n)
        BY <3>1, <2>7
      <4>2. Verdict(e)' = Verdict(e) /\ Contradicting(e)' = 0
        BY <3>1, <4>1, <2>1, <2>4, <2>11, <2>12 DEF Contradicting
      <4>3. Abstract(e)!Agree(ok)
        BY <3>0, <3>1, <4>2, <2>5, <2>11 DEF Abstract!Agree
      <4> QED
        BY <4>3, <2>1 DEF Abstract!Next
    <3>2. CASE ok # up[e]
      <4>1. Contradicting(e) = IF ok THEN successes[e] ELSE failures[e]
        BY <3>2, <2>1, <2>11 DEF Contradicting
      <4>2. Contradicting(e)' = IF Turns(up[e], ok, n) THEN 0 ELSE n
        BY <3>2, <2>1, <2>4, <2>12 DEF Contradicting, n
      <4>3. n = Contradicting(e) + 1
        BY <3>2, <2>6, <4>1
      <4>4. Turns(up[e], ok, n) <=> ~(Contradicting(e) + 1 < Abstract(e)!Threshold(ok))
        BY <3>2, <2>7, <2>1, <4>1, <4>3, <1>r DEF Abstract!Threshold
      <4>5. Abstract(e)!Contradict(ok)
        BY <3>0, <3>2, <4>2, <4>3, <4>4, <2>5, <2>11, <2>12
        DEF Abstract!Contradict
      <4> QED
        BY <4>5, <2>1 DEF Abstract!Next
    <3> QED
      BY <3>1, <3>2
  <2> QED
    BY <1>t, <2>3, <2>4, <2>8, <2>13, <2>14, OneEndpoint
<1>13. CASE UNCHANGED vars
  <2>1. ASSUME NEW e \in Endpoints
        PROVE  Stage(e)' /\ Settled(e)' /\ Seen(e)' = Seen(e)
    BY <1>13 DEF vars, SequentialInv, Stage, Settled, Seen, FirstDue,
       Deciding, Verdict, Contradicting
  <2> QED
    BY <1>t, <2>1, Unseen DEF SequentialInv
<1> QED
  BY <1>1, <1>2, <1>3, <1>5, <1>6, <1>7, <1>9, <1>10, <1>11, <1>12, <1>13
  DEF Next

\* The sequential invariant holds when the pool is built (New, buildUpstream).
LEMMA SequentialInit == Init => SequentialInv
<1> SUFFICES ASSUME Init PROVE SequentialInv
  OBVIOUS
<1>1. TypeOK
  BY ThresholdAssumption, ModeAssumption
  DEF Init, TypeOK, Idle, Boot, Places, Kinds
<1>2. ASSUME NEW e \in Endpoints PROVE Stage(e) /\ Settled(e)
  <2>1. /\ worker[e][Ticker] = Boot \/ worker[e][Ticker] = Idle
        /\ \A q \in Queriers : worker[e][q] = Idle
    BY WorkerAssumption DEF Init, Workers
  <2>2. ~up[e] /\ successes[e] = 0 /\ failures[e] = 0
    BY DEF Init
  <2> QED
    BY <2>1, <2>2, ThresholdAssumption
    DEF Stage, Settled, FirstDue, Deciding, Idle, Boot
<1> QED
  BY <1>1, <1>2 DEF SequentialInv

\* With a single reporter, when nothing is in flight the verdict agrees with
\* the streaks record keeps.
THEOREM SequentialSettled ==
    ASSUME Probers = {}, Passive = FALSE
    PROVE  Spec => []VerdictSettled
<1>1. SequentialInv /\ [Next]_vars => SequentialInv'
  BY SequentialStep
<1>2. SequentialInv => VerdictSettled
  <2> SUFFICES ASSUME SequentialInv, NEW e \in Endpoints, Quiet(e)
               PROVE  /\ successes[e] >= Rise => up[e]
                      /\ failures[e] >= Fall => ~up[e]
    BY DEF VerdictSettled
  <2>1. ~Deciding(e)
    BY TickerWorks DEF Quiet, Deciding
  <2> QED
    BY <2>1, ThresholdAssumption DEF SequentialInv, Settled, TypeOK
<1> QED
  BY <1>1, <1>2, SequentialInit, PTL DEF Spec

\* With a single reporter, record and SetInitial implement the hysteresis the
\* documentation promises: each report turns the verdict exactly when it is
\* the rise-th success or fall-th failure in a row against it.
THEOREM SequentialRefinement ==
    ASSUME Probers = {}, Passive = FALSE
    PROVE  Spec => ImplementsHysteresis
<1>1. SequentialInv /\ [Next]_vars => SequentialInv'
  BY SequentialStep
<1>2. SequentialInv /\ [Next]_vars =>
         [\A e \in Endpoints : [Abstract(e)!Next]_(Abstract(e)!vars)]_vars
  BY SequentialStep
<1>3. Init => \A e \in Endpoints : Abstract(e)!Init
  <2> SUFFICES ASSUME Init, NEW e \in Endpoints PROVE Abstract(e)!Init
    OBVIOUS
  <2>1. SequentialInv /\ ~up[e] /\ successes[e] = 0 /\ ~Deciding(e)
    BY SequentialInit, TickerWorks DEF Init, Deciding, Idle, Boot
  <2> QED
    BY <2>1 DEF Abstract!Init, FirstDue, Verdict, Contradicting
<1> QED
  BY <1>1, <1>2, <1>3, SequentialInit, PTL DEF Spec, ImplementsHysteresis
=============================================================================
