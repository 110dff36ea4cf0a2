----------------------- MODULE FallbackTrackerProofs -----------------------
(***************************************************************************)
(* Proofs about FallbackTracker for any resolvers and any bounds: type     *)
(* correctness, conservation of outage time over the windows, the          *)
(* coherence of every summary, and that every query is accounted for.  At  *)
(* the end, for any Pi-holes and goroutines, the proofs about Outages,     *)
(* whose goroutines tell the tracker when everything is down.              *)
(***************************************************************************)
EXTENDS FallbackTracker, ServiceCount, FiniteSetTheorems, TLAPS

\* Type correctness says too little about outageStart: the interval arithmetic
\* needs to know that an outage in progress began inside the window.
Started == inOutage => windowStart <= outageStart

\* What the window holds of finished outages fits before the one in progress.
Fits == total <= (IF inOutage THEN outageStart ELSE now) - windowStart

\* Finished outages: the longest is among them; one episode is its own longest,
\* and a lone episode still in progress leaves nothing finished.
Lone ==
    /\ longest <= total
    /\ episodes = 0 => total = 0 /\ ~inOutage
    /\ episodes = 1 => IF inOutage THEN total = 0 ELSE longest = total

Conserved == allDownTime = reportedOutage + total + Ongoing

TrackerInv == TypeOK /\ Started /\ Fits /\ Lone /\ Conserved

\* The parts of the type invariant the arithmetic uses.
LEMMA Numbers ==
    ASSUME TypeOK
    PROVE  /\ now \in Nat /\ windowStart \in Nat /\ outageStart \in Nat
           /\ windowStart <= now /\ outageStart <= now
           /\ total \in Nat /\ longest \in Nat /\ episodes \in Nat
           /\ allDownTime \in Nat /\ reportedOutage \in Nat
           /\ queries \in Nat /\ failures \in Nat /\ failures <= queries
           /\ MaxTime \in Nat /\ now <= MaxTime
           /\ MaxQueries \in Nat /\ queries <= MaxQueries
           /\ MaxEpisodes \in Nat /\ MaxEpisodes >= 1 /\ episodes <= MaxEpisodes
           /\ inOutage \in BOOLEAN
  BY BoundAssumption DEF TypeOK

\* The length of the outage in progress is a natural number.
LEMMA OngoingNat ==
    ASSUME TypeOK
    PROVE  Ongoing \in Nat
  BY Numbers DEF Ongoing

\* The longer of two durations is one of them and bounds both.
LEMMA LargerNat ==
    ASSUME NEW m \in Nat, NEW n \in Nat
    PROVE  /\ Larger(m, n) \in Nat
           /\ Larger(m, n) = m \/ Larger(m, n) = n
           /\ Larger(m, n) >= m /\ Larger(m, n) >= n
  BY DEF Larger

\* A snapshot is a well-typed summary.
LEMMA SnapshotType ==
    ASSUME TypeOK
    PROVE  Snapshot \in Summaries
<1>1. Ongoing \in Nat /\ longest \in Nat /\ total + Ongoing \in Nat
  BY Numbers, OngoingNat
<1>2. Larger(longest, Ongoing) \in Nat
  BY <1>1, LargerNat
<1>3. /\ queries \in Nat /\ failures \in Nat /\ episodes \in Nat
      /\ inOutage \in BOOLEAN
  BY Numbers
<1> QED
  BY <1>1, <1>2, <1>3 DEF Snapshot, Summaries

\* A new tracker satisfies the inductive invariant (NewTracker).
LEMMA TrackerInit == Init => TrackerInv
<1> SUFFICES ASSUME Init PROVE TrackerInv
  OBVIOUS
<1>1. TypeOK
  <2>1. perServer \in [Servers -> Nat] /\ logged \subseteq Summaries
    BY DEF Init
  <2>2. inOutage \in BOOLEAN /\ running \in BOOLEAN
    BY DEF Init
  <2>3. /\ now \in 0..MaxTime /\ windowStart \in 0..now /\ outageStart \in 0..now
        /\ queries \in 0..MaxQueries /\ failures \in 0..queries
        /\ episodes \in 0..MaxEpisodes /\ total \in Nat /\ longest \in Nat
        /\ allDownTime \in Nat /\ reportedOutage \in Nat
    BY BoundAssumption DEF Init
  <2> QED
    BY <2>1, <2>2, <2>3 DEF TypeOK
<1>2. Started /\ Fits /\ Lone /\ Conserved
  BY DEF Init, Started, Fits, Lone, Conserved, Ongoing
<1> QED
  BY <1>1, <1>2 DEF TrackerInv

\* The clock moves: an outage in progress lengthens with it.
LEMMA TickStep == TrackerInv /\ Tick => TrackerInv'
<1> SUFFICES ASSUME TrackerInv, Tick PROVE TrackerInv'
  OBVIOUS
<1>1. TypeOK'
  BY Numbers DEF TrackerInv, Tick, TypeOK, window, outage
<1>2. Started' /\ Lone'
  BY DEF TrackerInv, Tick, window, outage, Started, Lone
<1>3. Fits'
  BY Numbers DEF TrackerInv, Tick, window, outage, Fits
<1>4. Conserved'
  BY Numbers DEF TrackerInv, Tick, window, outage, Conserved, Ongoing
<1> QED
  BY <1>1, <1>2, <1>3, <1>4 DEF TrackerInv

\* Observe opens and closes outages.
LEMMA ObserveStep == TrackerInv /\ (OutageBegins \/ OutageEnds) => TrackerInv'
<1> SUFFICES ASSUME TrackerInv, OutageBegins \/ OutageEnds PROVE TrackerInv'
  OBVIOUS
<1>1. CASE OutageBegins
  <2>1. TypeOK'
    BY <1>1, Numbers DEF TrackerInv, OutageBegins, TypeOK
  <2>2. Started' /\ Fits' /\ Conserved'
    BY <1>1, Numbers DEF TrackerInv, OutageBegins, Started, Fits, Conserved, Ongoing
  <2>3. Lone'
    BY <1>1, Numbers DEF TrackerInv, OutageBegins, Lone
  <2> QED
    BY <2>1, <2>2, <2>3 DEF TrackerInv
<1>2. CASE OutageEnds
  <2> DEFINE d == now - outageStart
  <2>0. d \in Nat /\ inOutage
    BY <1>2, Numbers DEF TrackerInv, OutageEnds
  <2>1. total' = total + d /\ longest' = Larger(longest, d)
    BY <1>2 DEF OutageEnds, Added
  <2> HIDE DEF d
  <2>2. /\ longest' \in Nat /\ (longest' = longest \/ longest' = d)
        /\ longest' >= d
    <3>1. longest \in Nat
      BY Numbers DEF TrackerInv
    <3> QED
      BY <2>0, <2>1, <3>1, LargerNat
  <2> USE DEF d
  <2>3. TypeOK'
    <3>1. inOutage' \in BOOLEAN /\ running' \in BOOLEAN
      BY <1>2 DEF TrackerInv, OutageEnds, TypeOK
    <3>2. total' \in Nat
      BY <2>0, <2>1, Numbers DEF TrackerInv
    <3> QED
      BY <1>2, <2>2, <3>1, <3>2 DEF TrackerInv, OutageEnds, TypeOK
  <2>4. Started' /\ Fits' /\ Conserved'
    BY <1>2, <2>1, Numbers
    DEF TrackerInv, OutageEnds, Started, Fits, Conserved, Ongoing
  <2>5. Lone'
    BY <1>2, <2>0, <2>1, <2>2, Numbers DEF TrackerInv, OutageEnds, Lone
  <2> QED
    BY <2>3, <2>4, <2>5 DEF TrackerInv
<1> QED
  BY <1>1, <1>2

\* Recorded queries leave the outages alone.
LEMMA RecordStep ==
    ASSUME TrackerInv, NEW s \in Servers, NEW ok \in BOOLEAN, RecordQuery(s, ok)
    PROVE  TrackerInv'
<1>1. /\ perServer' \in [Servers -> Nat]
      /\ failures' \in 0..queries'
      /\ queries' \in 0..MaxQueries
  BY Numbers DEF TrackerInv, RecordQuery, Counted, TypeOK
<1>2. TypeOK'
  BY <1>1 DEF TrackerInv, RecordQuery, TypeOK, outage
<1>3. Started' /\ Fits' /\ Lone' /\ Conserved'
  BY DEF TrackerInv, RecordQuery, outage, Started, Fits, Lone, Conserved, Ongoing
<1> QED
  BY <1>2, <1>3 DEF TrackerInv

\* A window is taken: what it held and what is in progress move to the report.
LEMMA TakeStep ==
    ASSUME TrackerInv, Take, running' \in BOOLEAN
    PROVE  TrackerInv'
<1>0. /\ inOutage => episodes' = 1 /\ outageStart' = now
      /\ ~inOutage => episodes' = 0 /\ outageStart' = outageStart
  BY DEF Take, Restarted
<1>1. TypeOK'
  <2>1. logged' \subseteq Summaries
    BY SnapshotType DEF TrackerInv, TypeOK, Take
  <2>2. reportedOutage' \in Nat
    BY OngoingNat, Numbers DEF TrackerInv, Take
  <2>3. outageStart' \in 0..now /\ episodes' \in 0..MaxEpisodes
    BY <1>0, Numbers DEF TrackerInv
  <2>4. /\ queries' \in 0..MaxQueries /\ failures' \in 0..queries'
        /\ perServer' \in [Servers -> Nat]
    BY Numbers DEF TrackerInv, Take, Cleared
  <2> QED
    BY <2>1, <2>2, <2>3, <2>4, Numbers DEF TrackerInv, TypeOK, Take
<1>2. Started' /\ Fits' /\ Lone'
  BY <1>0, Numbers DEF TrackerInv, Take, Started, Fits, Lone
<1>3. Conserved'
  <2>1. Ongoing' = 0
    BY <1>0, Numbers DEF TrackerInv, Take, Ongoing
  <2> QED
    BY <2>1, OngoingNat, Numbers DEF TrackerInv, Take, Conserved
<1> QED
  BY <1>1, <1>2, <1>3 DEF TrackerInv

\* Every method of the tracker keeps the inductive invariant.
LEMMA TrackerStep == TrackerInv /\ [Next]_vars => TrackerInv'
<1> SUFFICES ASSUME TrackerInv, [Next]_vars PROVE TrackerInv'
  OBVIOUS
<1>1. CASE Report \/ FinalReport
  BY <1>1, TakeStep DEF Report, FinalReport, TrackerInv, TypeOK
<1>2. CASE UNCHANGED vars
  BY <1>2 DEF vars, window, outage, TrackerInv, TypeOK, Started, Fits, Lone,
     Conserved, Ongoing
<1> QED
  BY <1>1, <1>2, TickStep, ObserveStep, RecordStep DEF Next

\* The tracker's counters and times stay in range.
THEOREM TrackerTypeCorrect == Spec => []TypeOK
<1>1. TrackerInv => TypeOK
  BY DEF TrackerInv
<1> QED
  BY <1>1, TrackerInit, TrackerStep, PTL DEF Spec

\* No moment of an outage is lost or reported twice, however outages straddle
\* the reporting windows (take, snapshotLocked, Observe).
THEOREM OutageAlwaysConserved == Spec => []OutageConserved
<1>1. TrackerInv => OutageConserved
  <2> SUFFICES ASSUME TrackerInv PROVE OutageConserved
    OBVIOUS
  <2>1. Snapshot.total = total + Ongoing
    BY DEF Snapshot
  <2> QED
    BY <2>1, OngoingNat, Numbers DEF TrackerInv, Conserved, OutageConserved
<1> QED
  BY <1>1, TrackerInit, TrackerStep, PTL DEF Spec

\* Every summary is coherent on its own: the outages fit into the window, the
\* longest is one of them, and outage time comes with an outage.
THEOREM SummaryAlwaysCoherent == Spec => []SummaryCoherent
<1>1. TrackerInv => SummaryCoherent
  <2> SUFFICES ASSUME TrackerInv PROVE SummaryCoherent
    OBVIOUS
  <2>1. /\ Snapshot.total = total + Ongoing
        /\ Snapshot.longest = Larger(longest, Ongoing)
        /\ Snapshot.episodes = episodes /\ Snapshot.ongoing = inOutage
    BY DEF Snapshot
  <2>2. /\ Ongoing \in Nat
        /\ Larger(longest, Ongoing) = longest \/ Larger(longest, Ongoing) = Ongoing
        /\ Larger(longest, Ongoing) >= longest /\ Larger(longest, Ongoing) >= Ongoing
    BY OngoingNat, LargerNat, Numbers DEF TrackerInv
  <2>3. total + Ongoing <= now - windowStart
    BY Numbers DEF TrackerInv, Fits, Started, Ongoing
  <2>4. Larger(longest, Ongoing) <= total + Ongoing
    BY <2>2, Numbers DEF TrackerInv, Lone
  <2>5. episodes = 1 => Larger(longest, Ongoing) = total + Ongoing
    <3>1. CASE inOutage
      BY <2>2, <3>1, Numbers DEF TrackerInv, Lone
    <3>2. CASE ~inOutage
      BY <2>2, <3>2, Numbers DEF TrackerInv, Lone, Ongoing
    <3> QED
      BY <3>1, <3>2
  <2>6. episodes = 0 => total + Ongoing = 0 /\ ~inOutage
    BY Numbers DEF TrackerInv, Lone, Ongoing
  <2> QED
    BY <2>1, <2>3, <2>4, <2>5, <2>6 DEF SummaryCoherent
<1> QED
  BY <1>1, TrackerInit, TrackerStep, PTL DEF Spec
-----------------------------------------------------------------------------
(***************************************************************************)
(* Sums over the resolvers.  SumFunction is a recursive function on the    *)
(* subsets of the domain that takes out one element at a time; it is well  *)
(* defined on a finite domain, and a change to one value changes it by as  *)
(* much.                                                                   *)
(***************************************************************************)
Pick(s) == CHOOSE x \in s : TRUE

\* What the recursion asks of g at s.
SumsAt(g, f, s) == g[s] = IF s = {} THEN 0 ELSE f[Pick(s)] + g[s \ {Pick(s)}]

Sums(g, f) == g = [s \in SUBSET Servers |-> IF s = {} THEN 0 ELSE f[Pick(s)] + g[s \ {Pick(s)}]]

\* A property of the numbers that fails somewhere fails at some number first.
LEMMA LeastElement ==
    ASSUME NEW T \in SUBSET Nat, T # {}
    PROVE  \E m \in T : \A k \in T : m <= k
<1>1. PICK m \in T : \A k \in T : ~(<<k, m>> \in OpToRel(<, Nat))
  BY NatLessThanWellFounded, WFMin, Zenon
<1>2. ASSUME NEW k \in T PROVE ~(k < m)
  BY <1>1, <1>2, Zenon DEF OpToRel
<1>3. \A k \in T : m <= k
  BY <1>2
<1> QED
  BY <1>3

\* Taking out the picked element leaves a smaller set.
LEMMA Smaller ==
    ASSUME NEW s \in SUBSET Servers
    PROVE  /\ Cardinality(s) \in Nat
           /\ Cardinality(s) = 0 <=> s = {}
           /\ s # {} => /\ Pick(s) \in s /\ s \ {Pick(s)} \in SUBSET Servers
                        /\ Cardinality(s \ {Pick(s)}) = Cardinality(s) - 1
<1>1. IsFiniteSet(s)
  BY ServersAssumption, FS_Subset
<1>2. s # {} => Pick(s) \in s
  BY DEF Pick
<1>3. s # {} => Cardinality(s \ {Pick(s)}) = Cardinality(s) - 1
  BY <1>1, <1>2, FS_RemoveElement
<1> QED
  BY <1>1, <1>2, <1>3, FS_CardinalityType, FS_EmptySet

\* A function that sums the sets of at most k elements, for every k.
Summable(f, k) ==
    \E g \in [SUBSET Servers -> Nat] :
        \A s \in SUBSET Servers : Cardinality(s) <= k => SumsAt(g, f, s)

\* The empty set is summed by 0.
LEMMA SummableZero ==
    ASSUME NEW f \in [Servers -> Nat]
    PROVE  Summable(f, 0)
<1> DEFINE g == [s \in SUBSET Servers |-> 0]
<1>1. g \in [SUBSET Servers -> Nat]
  OBVIOUS
<1>2. ASSUME NEW s \in SUBSET Servers, Cardinality(s) <= 0 PROVE SumsAt(g, f, s)
  <2>0. Cardinality(s) \in Nat /\ (Cardinality(s) = 0 <=> s = {})
    BY Smaller
  <2>1. s = {}
    BY <1>2, <2>0
  <2>2. g[s] = 0
    OBVIOUS
  <2> HIDE DEF g
  <2> QED
    BY <2>1, <2>2 DEF SumsAt
<1> QED
  BY <1>1, <1>2 DEF Summable

\* Sets of one element more are summed from those.
LEMMA SummableStep ==
    ASSUME NEW f \in [Servers -> Nat], NEW k \in Nat, Summable(f, k)
    PROVE  Summable(f, k + 1)
<1>1. PICK g \in [SUBSET Servers -> Nat] :
             \A s \in SUBSET Servers : Cardinality(s) <= k => SumsAt(g, f, s)
  BY DEF Summable
<1> DEFINE Rest(s) == s \ {Pick(s)}
           h == [s \in SUBSET Servers |->
                   IF Cardinality(s) <= k \/ s = {} THEN g[s] ELSE f[Pick(s)] + g[Rest(s)]]
<1>2. h \in [SUBSET Servers -> Nat]
  <2>1. ASSUME NEW s \in SUBSET Servers, s # {} PROVE f[Pick(s)] + g[Rest(s)] \in Nat
    <3>1. f[Pick(s)] \in Nat /\ g[Rest(s)] \in Nat
      BY <2>1, Smaller
    <3> QED
      BY <3>1
  <2> QED
    BY <2>1
<1>3. ASSUME NEW s \in SUBSET Servers, Cardinality(s) <= k + 1 PROVE SumsAt(h, f, s)
  <2>1. CASE s = {}
    <3>0. Cardinality(s) = 0
      BY <2>1, Smaller
    <3>1. Cardinality(s) <= k
      BY <3>0
    <3>2. h[s] = g[s]
      BY <2>1
    <3> QED
      BY <1>1, <2>1, <3>1, <3>2 DEF SumsAt
  <2>2. CASE s # {}
    <3>1. /\ Rest(s) \in SUBSET Servers /\ Cardinality(Rest(s)) = Cardinality(s) - 1
          /\ Cardinality(s) \in Nat
      BY <2>2, Smaller
    <3>2. Cardinality(Rest(s)) <= k
      BY <1>3, <3>1
    <3>3. h[Rest(s)] = g[Rest(s)]
      BY <3>1, <3>2
    <3>4. h[s] = f[Pick(s)] + g[Rest(s)]
      <4>1. CASE Cardinality(s) <= k
        BY <1>1, <2>2, <4>1 DEF SumsAt
      <4>2. CASE ~(Cardinality(s) <= k)
        BY <2>2, <4>2
      <4> QED
        BY <4>1, <4>2
    <3> HIDE DEF h
    <3> QED
      BY <2>2, <3>3, <3>4 DEF SumsAt
  <2> QED
    BY <2>1, <2>2
<1> HIDE DEF h
<1> QED
  BY <1>2, <1>3 DEF Summable

\* So there is a function that sums every subset.
LEMMA SumExists ==
    ASSUME NEW f \in [Servers -> Nat]
    PROVE  \E g \in [SUBSET Servers -> Nat] : Sums(g, f)
<1> DEFINE T == {k \in Nat : ~Summable(f, k)}
<1>1. T = {}
  <2> SUFFICES ASSUME T # {} PROVE FALSE
    OBVIOUS
  <2>1. PICK m \in T : \A k \in T : m <= k
    BY LeastElement
  <2>2. m # 0 /\ m \in Nat /\ ~Summable(f, m)
    BY <2>1, SummableZero
  <2>3. m - 1 \in Nat /\ ~(m <= m - 1) /\ (m - 1) + 1 = m
    BY <2>2
  <2>4. Summable(f, m - 1)
    BY <2>1, <2>3
  <2> QED
    BY <2>2, <2>3, <2>4, SummableStep
<1>2. Cardinality(Servers) \in Nat
  BY ServersAssumption, FS_CardinalityType
<1>3. PICK g \in [SUBSET Servers -> Nat] :
             \A s \in SUBSET Servers : Cardinality(s) <= Cardinality(Servers) => SumsAt(g, f, s)
  BY <1>1, <1>2 DEF Summable
<1>4. \A s \in SUBSET Servers : SumsAt(g, f, s)
  BY <1>3, ServersAssumption, FS_Subset
<1> QED
  BY <1>4 DEF Sums, SumsAt

\* SumFunction is one of them.
LEMMA SumIsSums ==
    ASSUME NEW f \in [Servers -> Nat]
    PROVE  \E g : Sums(g, f) /\ SumFunction(f) = g[Servers]
<1> DEFINE iter[s \in SUBSET Servers] == IF s = {} THEN 0 ELSE f[Pick(s)] + iter[s \ {Pick(s)}]
<1>1. DOMAIN f = Servers
  OBVIOUS
<1>2. SumFunction(f) = iter[Servers]
  BY <1>1, Zenon DEF SumFunction, SumFunctionOnSet, FoldFunctionOnSet, MapThenFoldSet, Pick
<1>3. \E g : Sums(g, f)
  BY SumExists
<1>4. Sums(iter, f)
  BY <1>3, Zenon DEF Sums
<1> QED
  BY <1>2, <1>4

\* Induction on sets of resolvers: what holds of the empty set, and of a set when
\* it holds of the set without its picked element, holds of every set.
LEMMA PickInduction ==
    ASSUME NEW P \in SUBSET (SUBSET Servers), {} \in P,
           \A s \in SUBSET Servers : s # {} /\ s \ {Pick(s)} \in P => s \in P
    PROVE  \A s \in SUBSET Servers : s \in P
<1> DEFINE T == {Cardinality(s) : s \in (SUBSET Servers) \ P}
<1> SUFFICES ASSUME T # {} PROVE FALSE
  OBVIOUS
<1>1. T \in SUBSET Nat
  <2>1. \A s \in SUBSET Servers : Cardinality(s) \in Nat
    BY Smaller
  <2> QED
    BY <2>1
<1>2. PICK m \in T : \A k \in T : m <= k
  BY <1>1, LeastElement
<1>3. PICK s \in (SUBSET Servers) \ P : Cardinality(s) = m
  BY <1>2
<1>4. s # {}
  BY <1>3
<1> DEFINE r == s \ {Pick(s)}
<1>5. r \in SUBSET Servers /\ Cardinality(r) = Cardinality(s) - 1 /\ Cardinality(s) \in Nat
  BY <1>3, <1>4, Smaller
<1>6. r \notin P
  BY <1>3, <1>4
<1>7. Cardinality(r) \in T
  BY <1>5, <1>6
<1>8. m <= Cardinality(r)
  BY <1>2, <1>7
<1> QED
  BY <1>3, <1>5, <1>8

\* A sum, one element at a time.
LEMMA SumsFacts ==
    ASSUME NEW f \in [Servers -> Nat], NEW g, Sums(g, f)
    PROVE  /\ g[{}] = 0
           /\ \A s \in SUBSET Servers : s # {} => g[s] = f[Pick(s)] + g[s \ {Pick(s)}]
           /\ \A s \in SUBSET Servers : g[s] \in Nat
<1>1. \A s \in SUBSET Servers : g[s] = IF s = {} THEN 0 ELSE f[Pick(s)] + g[s \ {Pick(s)}]
  BY Zenon DEF Sums
<1>2. g[{}] = 0 /\ \A s \in SUBSET Servers : s # {} => g[s] = f[Pick(s)] + g[s \ {Pick(s)}]
  BY <1>1
<1> DEFINE P == {s \in SUBSET Servers : g[s] \in Nat}
<1>3. {} \in P
  BY <1>2
<1>4. ASSUME NEW s \in SUBSET Servers, s # {}, s \ {Pick(s)} \in P PROVE s \in P
  <2>1. f[Pick(s)] \in Nat
    BY <1>4, Smaller
  <2>2. g[s \ {Pick(s)}] \in Nat
    BY <1>4
  <2>3. g[s] = f[Pick(s)] + g[s \ {Pick(s)}]
    BY <1>2, <1>4
  <2>4. g[s] \in Nat
    BY <2>1, <2>2, <2>3
  <2> QED
    BY <2>4
<1>5. P \in SUBSET (SUBSET Servers)
  OBVIOUS
<1> HIDE DEF P
<1>6. \A s \in SUBSET Servers : s \in P
  BY <1>3, <1>4, <1>5, PickInduction
<1> QED
  BY <1>2, <1>6 DEF P

\* Changing one value changes the sums it is in by as much, and no other.
LEMMA SumsChange ==
    ASSUME NEW f \in [Servers -> Nat], NEW n \in Servers, NEW v \in Nat,
           NEW e \in [Servers -> Nat], e[n] = v, \A x \in Servers : x # n => e[x] = f[x],
           NEW g, Sums(g, f), NEW h, Sums(h, e)
    PROVE  \A s \in SUBSET Servers : h[s] = IF n \in s THEN g[s] - f[n] + v ELSE g[s]
<1> DEFINE Right(s) == h[s] = IF n \in s THEN g[s] - f[n] + v ELSE g[s]
           P == {s \in SUBSET Servers : Right(s)}
<1>0. f[n] \in Nat
  OBVIOUS
<1>1. /\ g[{}] = 0
      /\ \A s \in SUBSET Servers : s # {} => g[s] = f[Pick(s)] + g[s \ {Pick(s)}]
      /\ \A s \in SUBSET Servers : g[s] \in Nat
  BY SumsFacts
<1>2. /\ h[{}] = 0
      /\ \A s \in SUBSET Servers : s # {} => h[s] = e[Pick(s)] + h[s \ {Pick(s)}]
      /\ \A s \in SUBSET Servers : h[s] \in Nat
  BY SumsFacts
<1>3. Right({})
  BY <1>1, <1>2
<1>4. ASSUME NEW s \in SUBSET Servers, s # {}, Right(s \ {Pick(s)}) PROVE Right(s)
  <2> DEFINE r == s \ {Pick(s)}
  <2>1. Pick(s) \in s /\ Pick(s) \in Servers /\ r \in SUBSET Servers
    BY <1>4, Smaller
  <2>2. /\ g[s] = f[Pick(s)] + g[r] /\ h[s] = e[Pick(s)] + h[r]
        /\ g[r] \in Nat /\ h[r] \in Nat /\ f[Pick(s)] \in Nat
    BY <1>1, <1>2, <1>4, <2>1
  <2>3. CASE Pick(s) = n
    <3>1. n \notin r /\ n \in s
      BY <2>1, <2>3
    <3>2. h[r] = g[r]
      BY <1>4, <3>1
    <3> HIDE DEF r
    <3> QED
      BY <1>0, <2>2, <2>3, <3>1, <3>2
  <2>4. CASE Pick(s) # n
    <3>1. n \in r <=> n \in s
      BY <2>1, <2>4
    <3>2. h[r] = IF n \in r THEN g[r] - f[n] + v ELSE g[r]
      BY <1>4
    <3>3. e[Pick(s)] = f[Pick(s)]
      BY <1>0, <2>1, <2>4
    <3> HIDE DEF r
    <3> QED
      BY <1>0, <2>2, <3>1, <3>2, <3>3
  <2> QED
    BY <2>3, <2>4
<1> HIDE DEF Right
<1>5. P \in SUBSET (SUBSET Servers) /\ {} \in P
  BY <1>3
<1>6. ASSUME NEW s \in SUBSET Servers, s # {}, s \ {Pick(s)} \in P PROVE s \in P
  BY <1>4, <1>6
<1>7. \A s \in SUBSET Servers : s \in P
  <2> HIDE DEF P
  <2> QED
    BY <1>5, <1>6, PickInduction
<1>8. \A s \in SUBSET Servers : Right(s)
  BY <1>7
<1> QED
  BY <1>8 DEF Right

\* The same of SumFunction, which is never less than one of its values.
LEMMA SumChange ==
    ASSUME NEW f \in [Servers -> Nat], NEW n \in Servers, NEW v \in Nat
    PROVE  /\ SumFunction(f) \in Nat
           /\ f[n] <= SumFunction(f)
           /\ SumFunction([f EXCEPT ![n] = v]) = SumFunction(f) - f[n] + v
<1> DEFINE e == [f EXCEPT ![n] = v]
           z == [f EXCEPT ![n] = 0]
<1>0. /\ e \in [Servers -> Nat] /\ e[n] = v /\ \A x \in Servers : x # n => e[x] = f[x]
      /\ z \in [Servers -> Nat] /\ z[n] = 0 /\ \A x \in Servers : x # n => z[x] = f[x]
      /\ f[n] \in Nat /\ Servers \in SUBSET Servers
  OBVIOUS
<1> HIDE DEF e, z
<1>1. PICK g : Sums(g, f) /\ SumFunction(f) = g[Servers]
  BY SumIsSums
<1>2. PICK h : Sums(h, e) /\ SumFunction(e) = h[Servers]
  BY <1>0, SumIsSums
<1>3. PICK j : Sums(j, z) /\ SumFunction(z) = j[Servers]
  BY <1>0, SumIsSums
<1>4. g[Servers] \in Nat /\ j[Servers] \in Nat
  BY <1>0, <1>1, <1>3, SumsFacts
<1>5. h[Servers] = g[Servers] - f[n] + v
  <2>1. \A s \in SUBSET Servers : h[s] = IF n \in s THEN g[s] - f[n] + v ELSE g[s]
    BY <1>0, <1>1, <1>2, SumsChange
  <2> QED
    BY <1>0, <2>1
<1>6. j[Servers] = g[Servers] - f[n] + 0
  <2>1. \A s \in SUBSET Servers : j[s] = IF n \in s THEN g[s] - f[n] + 0 ELSE g[s]
    BY <1>0, <1>1, <1>3, SumsChange
  <2> QED
    BY <1>0, <2>1
<1>7. f[n] <= g[Servers]
  BY <1>0, <1>4, <1>6
<1> QED
  BY <1>1, <1>2, <1>4, <1>5, <1>7 DEF e

\* Nothing sums to nothing.
LEMMA SumZero == SumFunction([n \in Servers |-> 0]) = 0
<1> DEFINE f == [n \in Servers |-> 0]
<1>1. f \in [Servers -> Nat] /\ \A n \in Servers : f[n] = 0
  OBVIOUS
<1> HIDE DEF f
<1>2. PICK g : Sums(g, f) /\ SumFunction(f) = g[Servers]
  BY <1>1, SumIsSums
<1>3. /\ g[{}] = 0
      /\ \A s \in SUBSET Servers : s # {} => g[s] = f[Pick(s)] + g[s \ {Pick(s)}]
  BY <1>1, <1>2, SumsFacts
<1> DEFINE P == {s \in SUBSET Servers : g[s] = 0}
<1>4. P \in SUBSET (SUBSET Servers) /\ {} \in P
  BY <1>3
<1>5. ASSUME NEW s \in SUBSET Servers, s # {}, s \ {Pick(s)} \in P PROVE s \in P
  <2>1. f[Pick(s)] = 0
    BY <1>1, <1>5, Smaller
  <2>2. g[s \ {Pick(s)}] = 0
    BY <1>5
  <2>3. g[s] = f[Pick(s)] + g[s \ {Pick(s)}]
    BY <1>3, <1>5
  <2>4. g[s] = 0
    BY <2>1, <2>2, <2>3
  <2> QED
    BY <2>4
<1> HIDE DEF P
<1>6. \A s \in SUBSET Servers : s \in P
  BY <1>4, <1>5, PickInduction
<1> QED
  BY <1>2, <1>6 DEF P, f
-----------------------------------------------------------------------------
\* A new window accounts for its queries, of which there are none.
LEMMA AccountedInit == Init => QueriesAccounted
BY SumZero DEF Init, QueriesAccounted

\* Every method keeps the account.
LEMMA AccountedStep == TrackerInv /\ QueriesAccounted /\ [Next]_vars => QueriesAccounted'
<1> SUFFICES ASSUME TrackerInv, QueriesAccounted, [Next]_vars PROVE QueriesAccounted'
  OBVIOUS
<1>1. CASE UNCHANGED <<queries, failures, perServer, logged>>
  BY <1>1 DEF QueriesAccounted
<1>2. ASSUME NEW s \in Servers, NEW ok \in BOOLEAN, RecordQuery(s, ok)
      PROVE  QueriesAccounted'
  <2> DEFINE sum == SumFunction(perServer)
  <2>1. /\ perServer \in [Servers -> Nat] /\ failures \in Nat /\ queries \in Nat
        /\ queries = failures + sum
    BY Numbers DEF TrackerInv, TypeOK, QueriesAccounted
  <2>2. perServer[s] \in Nat /\ perServer[s] + 1 \in Nat
    BY <2>1
  <2>3. /\ sum \in Nat
        /\ SumFunction([perServer EXCEPT ![s] = perServer[s] + 1])
              = sum - perServer[s] + (perServer[s] + 1)
    BY <2>1, <2>2, SumChange
  <2>4. /\ queries' = queries + 1 /\ logged' = logged
        /\ \/ /\ perServer' = [perServer EXCEPT ![s] = perServer[s] + 1]
              /\ failures' = failures
           \/ failures' = failures + 1 /\ perServer' = perServer
    BY <1>2 DEF RecordQuery, Counted
  <2>5. CASE /\ perServer' = [perServer EXCEPT ![s] = perServer[s] + 1]
             /\ failures' = failures
    <3>1. SumFunction(perServer') = sum + 1
      BY <2>1, <2>2, <2>3, <2>5
    <3> QED
      BY <2>1, <2>3, <2>4, <2>5, <3>1 DEF QueriesAccounted
  <2>6. CASE failures' = failures + 1 /\ perServer' = perServer
    <3>1. SumFunction(perServer') = sum
      BY <2>6
    <3> QED
      BY <2>1, <2>3, <2>4, <2>6, <3>1 DEF QueriesAccounted
  <2> QED
    BY <2>4, <2>5, <2>6
<1>3. CASE Take
  <2>1. queries' = failures' + SumFunction(perServer)'
    BY <1>3, SumZero DEF Take, Cleared
  <2>2. ~Empty(Snapshot) /\ queries = 0 => episodes > 0
    BY Numbers DEF Empty, Snapshot, TrackerInv, Lone
  <2>3. \A s \in logged' : s.queries = 0 => s.episodes > 0
    BY <1>3, <2>2 DEF Take, Snapshot, QueriesAccounted
  <2> QED
    BY <2>1, <2>3 DEF QueriesAccounted
<1> QED
  BY <1>1, <1>2, <1>3 DEF Next, Tick, OutageBegins, OutageEnds, Report, FinalReport, vars, window

\* Every query of the window is a failure or an answer of one resolver, and a
\* line without queries reports an outage (RecordQuery, take, Summary.Empty).
THEOREM QueriesAlwaysAccounted == Spec => []QueriesAccounted
  BY AccountedInit, AccountedStep, TrackerInit, TrackerStep, PTL DEF Spec
-----------------------------------------------------------------------------
(***************************************************************************)
(* What the tracker is told.  Module Outages has the goroutines that count *)
(* the Pi-holes in service (ServiceCount) and then set inOutage by         *)
(* Observe; here for any Pi-holes with any paths and any goroutines.       *)
(***************************************************************************)
O == INSTANCE Outages

\* A count under way has a path to look at.
Counting(o) == observer[o].at \in {"healthy", "drained"}

SomethingToDo == \A o \in O!Observers : Counting(o) => observer[o].todo # {}

\* History is right: a path in service ever since is in service now.
SteadyInService ==
    \A o \in O!Observers : \A p \in observer[o].steady : O!InService(p)

\* A count that has found nobody has passed no path that was in service all along.
NobodyPassed ==
    \A o \in O!Observers :
        ~observer[o].found =>
            /\ Counting(o) => observer[o].steady \subseteq observer[o].todo
            /\ O!At(o, "verdict") => observer[o].steady = {}

CountInv == O!TypeOK /\ SomethingToDo /\ SteadyInService /\ NobodyPassed
-----------------------------------------------------------------------------
\* What an observer can be.
Observations == [at : {"idle", "called", "healthy", "drained", "verdict"},
                 todo : SUBSET O!Paths, found : BOOLEAN, steady : SUBSET O!Paths]

\* The first of the paths still to look at is one of them: the loops go on to a
\* path of the pool.
LEMMA FirstOf ==
    ASSUME NEW todo \in SUBSET O!Paths, todo # {}
    PROVE  O!First(todo) \in todo
<1>1. O!Paths \in SUBSET Nat
  BY PathAssumption DEF O!Paths
<1>2. \E p \in todo : \A q \in todo : p <= q
  BY <1>1, LeastElement
<1> QED
  BY <1>2, Zenon DEF O!First

\* Init establishes the invariant.
LEMMA CountInit == O!Init => CountInv
<1> SUFFICES ASSUME O!Init PROVE CountInv
  OBVIOUS
<1>1. O!Idle \in Observations
  BY DEF O!Idle, Observations
<1>2. O!TypeOK
  BY <1>1 DEF O!Init, O!TypeOK, Observations
<1>3. \A o \in O!Observers : observer[o] = O!Idle
  BY DEF O!Init
<1> QED
  BY <1>2, <1>3 DEF CountInv, SomethingToDo, SteadyInService, NobodyPassed, Counting, O!At, O!Idle

\* A step that rewrites one observer alone keeps the invariant if the new state
\* of that observer is right.
LEMMA OneObserver ==
    ASSUME CountInv, NEW o \in O!Observers, NEW r \in Observations,
           observer' = [observer EXCEPT ![o] = r],
           inOutage' \in BOOLEAN, UNCHANGED O!pool,
           \A p \in r.steady : O!InService(p),
           r.at \in {"healthy", "drained"} =>
              r.todo # {} /\ (~r.found => r.steady \subseteq r.todo),
           ~r.found /\ r.at = "verdict" => r.steady = {}
    PROVE  CountInv'
<1>1. observer \in [O!Observers -> Observations]
  BY DEF CountInv, O!TypeOK, Observations
<1>2. observer' \in [O!Observers -> Observations]
  BY <1>1
<1>3. O!TypeOK'
  BY <1>2 DEF CountInv, O!TypeOK, Observations, O!pool
<1>4. members' = members /\ up' = up /\ drained' = drained
  BY DEF O!pool
<1>5. \A q \in O!Observers : observer'[q] = IF q = o THEN r ELSE observer[q]
  BY <1>1
<1>6. SomethingToDo'
  BY <1>5 DEF CountInv, SomethingToDo, Counting
<1>7. SteadyInService'
  BY <1>4, <1>5 DEF CountInv, SteadyInService, O!InService
<1>8. NobodyPassed'
  BY <1>5 DEF CountInv, NobodyPassed, Counting, O!At
<1> QED
  BY <1>3, <1>6, <1>7, <1>8 DEF CountInv

\* The loop goes on to the paths in todo: the invariant holds if no steady path
\* is left out of them while nobody has been found.
LEMMA GoesOn ==
    ASSUME CountInv, NEW o \in O!Observers,
           NEW todo \in SUBSET O!Paths, NEW found \in BOOLEAN, NEW steady \in SUBSET O!Paths,
           observer' = [observer EXCEPT ![o] = O!Looking(todo, found, steady)],
           inOutage' \in BOOLEAN, UNCHANGED O!pool,
           \A p \in steady : O!InService(p),
           ~found => steady \subseteq todo
    PROVE  CountInv'
<1> DEFINE r == O!Looking(todo, found, steady)
<1>1. /\ r \in Observations
      /\ r.todo = todo /\ r.found = found /\ r.steady = steady
      /\ r.at = IF todo = {} THEN "verdict" ELSE "healthy"
  BY DEF O!Looking, Observations
<1>2. observer' = [observer EXCEPT ![o] = r]
  OBVIOUS
<1> HIDE DEF r
<1>3. /\ r.at \in {"healthy", "drained"} =>
            r.todo # {} /\ (~r.found => r.steady \subseteq r.todo)
      /\ ~r.found /\ r.at = "verdict" => r.steady = {}
      /\ \A p \in r.steady : O!InService(p)
  BY <1>1
<1> QED
  BY <1>1, <1>2, <1>3, OneObserver

\* Paths go out of service: every count takes them off its history, and nothing
\* else of a count is disturbed.
LEMMA SomeLeave ==
    ASSUME CountInv, NEW gone, NEW obs \in [O!Observers -> Observations],
           observer' = O!Left(gone, obs), O!TypeOK',
           \A o \in O!Observers :
              /\ obs[o].steady = observer[o].steady
              /\ \/ obs[o] = observer[o]
                 \/ obs[o].at = "called",
           \A q \in O!Paths \ gone : O!InService(q) => O!InService(q)'
    PROVE  CountInv'
<1>1. \A o \in O!Observers : observer'[o] = [obs[o] EXCEPT !.steady = @ \ gone]
  BY DEF O!Left
<1>2. \A o \in O!Observers :
         /\ observer'[o].at = obs[o].at /\ observer'[o].todo = obs[o].todo
         /\ observer'[o].found = obs[o].found
         /\ observer'[o].steady = observer[o].steady \ gone
  <2> SUFFICES ASSUME NEW o \in O!Observers
               PROVE  /\ observer'[o].at = obs[o].at /\ observer'[o].todo = obs[o].todo
                      /\ observer'[o].found = obs[o].found
                      /\ observer'[o].steady = observer[o].steady \ gone
    OBVIOUS
  <2>1. obs[o] \in Observations /\ obs[o].steady = observer[o].steady
    OBVIOUS
  <2>2. observer'[o] = [obs[o] EXCEPT !.steady = @ \ gone]
    BY <1>1
  <2> QED
    BY <2>1, <2>2 DEF Observations
<1>3. SomethingToDo'
  BY <1>2 DEF CountInv, SomethingToDo, Counting
<1>4. SteadyInService'
  <2> SUFFICES ASSUME NEW o \in O!Observers, NEW q \in observer'[o].steady PROVE O!InService(q)'
    BY DEF SteadyInService
  <2>1. q \in observer[o].steady /\ q \notin gone
    BY <1>2
  <2>2. q \in O!Paths
    BY <2>1 DEF CountInv, O!TypeOK
  <2> QED
    BY <2>1, <2>2 DEF CountInv, SteadyInService
<1>5. NobodyPassed'
  BY <1>2 DEF CountInv, NobodyPassed, Counting, O!At
<1> QED
  BY <1>3, <1>4, <1>5 DEF CountInv

\* Every step keeps the invariant, whatever turns, drains, removals and additions
\* come between two loads of a count.
LEMMA CountStep == CountInv /\ [O!Next]_(O!vars) => CountInv'
<1> SUFFICES ASSUME CountInv, [O!Next]_(O!vars) PROVE CountInv'
  OBVIOUS
<1>t. /\ O!TypeOK
      /\ observer \in [O!Observers -> Observations]
      /\ members \subseteq O!Piholes
  BY DEF CountInv, O!TypeOK, Observations
<1>r. Reporters \subseteq O!Observers
  BY DEF O!Observers
<1>o. \A p \in O!Paths : Owner[p] \in O!Piholes
  BY DEF O!Piholes
<1>s. \A o \in O!Observers : \A p \in observer[o].steady : O!InService(p)
  BY DEF CountInv, SteadyInService
<1>l. ASSUME NEW gone, NEW obs \in [O!Observers -> Observations],
             observer' = O!Left(gone, obs)
      PROVE  observer' \in [O!Observers -> Observations]
  BY <1>l DEF O!Left, Observations
<1>1. ASSUME NEW r \in Reporters, O!ProbeNowEnds(r) PROVE CountInv'
  <2> DEFINE s == [observer[r] EXCEPT !.at = "called"]
  <2>1. s \in Observations /\ s.at = "called" /\ s.steady = observer[r].steady
    BY <1>r, <1>t DEF Observations
  <2>2. observer' = [observer EXCEPT ![r] = s] /\ inOutage' \in BOOLEAN /\ UNCHANGED O!pool
    BY <1>1, <1>t DEF O!ProbeNowEnds, O!TypeOK
  <2>3. \A p \in s.steady : O!InService(p)
    BY <2>1, <1>r, <1>s
  <2> QED
    BY <2>1, <2>2, <2>3, <1>r, OneObserver
<1>2. ASSUME NEW r \in Reporters, NEW p \in O!Paths, O!Turn(r, p) PROVE CountInv'
  <2> DEFINE obs == [observer EXCEPT ![r].at = "called"]
  <2>1. obs \in [O!Observers -> Observations] /\ observer' = O!Left({p}, obs)
    BY <1>2, <1>r, <1>t DEF O!Turn, Observations
  <2>2. \A o \in O!Observers :
           /\ obs[o].steady = observer[o].steady
           /\ obs[o] = observer[o] \/ obs[o].at = "called"
    BY <1>r, <1>t DEF Observations
  <2> HIDE DEF obs
  <2>3. observer' \in [O!Observers -> Observations]
    BY <2>1, <1>l
  <2>4. O!TypeOK'
    BY <1>2, <1>t, <2>3 DEF O!Turn, O!TypeOK, Observations
  <2>5. \A q \in O!Paths \ {p} : O!InService(q) => O!InService(q)'
    BY <1>2, <1>t DEF O!Turn, O!InService, O!TypeOK
  <2> QED
    BY <2>1, <2>2, <2>4, <2>5, SomeLeave
<1>3. ASSUME NEW o \in O!Observers, O!BeginCount(o) PROVE CountInv'
  <2> DEFINE steady == {p \in O!Paths : O!InService(p)}
  <2>1. /\ steady \in SUBSET O!Paths /\ O!MemberPaths \in SUBSET O!Paths
        /\ steady \subseteq O!MemberPaths
    BY DEF O!InService, O!MemberPaths
  <2>2. /\ observer' = [observer EXCEPT ![o] = O!Looking(O!MemberPaths, FALSE, steady)]
        /\ inOutage' \in BOOLEAN /\ UNCHANGED O!pool
    BY <1>3, <1>t DEF O!BeginCount, O!TypeOK
  <2>3. \A p \in steady : O!InService(p)
    OBVIOUS
  <2>4. FALSE \in BOOLEAN
    OBVIOUS
  <2> HIDE DEF steady
  <2> QED
    BY <2>1, <2>2, <2>3, <2>4, GoesOn
<1>4. ASSUME NEW o \in O!Observers, O!LoadHealthy(o) PROVE CountInv'
  <2> DEFINE c == observer[o]
             p == O!First(c.todo)
             d == [c EXCEPT !.at = "drained"]
             rest == c.todo \ {p}
  <2>1. c \in Observations /\ c.todo # {} /\ c.at = "healthy"
    BY <1>4, <1>t DEF O!LoadHealthy, O!At, CountInv, SomethingToDo, Counting
  <2>2. /\ c.todo \in SUBSET O!Paths /\ c.found \in BOOLEAN /\ c.steady \in SUBSET O!Paths
    BY <2>1 DEF Observations
  <2>3. inOutage' \in BOOLEAN /\ UNCHANGED O!pool
    BY <1>4, <1>t DEF O!LoadHealthy, O!TypeOK
  <2>4. \A q \in c.steady : O!InService(q)
    BY <1>s
  <2>5. ~c.found => c.steady \subseteq c.todo
    BY <2>1 DEF CountInv, NobodyPassed, Counting
  <2>6. CASE up[p]
    <3>1. observer' = [observer EXCEPT ![o] = d]
      BY <1>4, <2>6 DEF O!LoadHealthy
    <3>2. /\ d \in Observations /\ d.at = "drained" /\ d.todo = c.todo
          /\ d.found = c.found /\ d.steady = c.steady
      BY <2>1 DEF Observations
    <3> HIDE DEF c, d
    <3> QED
      BY <3>1, <3>2, <2>1, <2>3, <2>4, <2>5, OneObserver
  <2>7. CASE ~up[p]
    <3>1. observer' = [observer EXCEPT ![o] = O!Looking(rest, c.found, c.steady)]
      BY <1>4, <2>7 DEF O!LoadHealthy
    <3>2. p \notin c.steady
      BY <2>4, <2>7 DEF O!InService
    <3>3. rest \in SUBSET O!Paths /\ (~c.found => c.steady \subseteq rest)
      BY <2>2, <2>5, <3>2
    <3> HIDE DEF c, p, rest
    <3> QED
      BY <3>1, <3>3, <2>2, <2>3, <2>4, GoesOn
  <2> QED
    BY <2>6, <2>7
<1>5. ASSUME NEW o \in O!Observers, O!LoadDrained(o) PROVE CountInv'
  <2> DEFINE c == observer[o]
             u == Owner[O!First(c.todo)]
             found == c.found \/ O!Counts(u)
             rest == c.todo \ O!PathsOf(u)
  <2>1. c \in Observations /\ c.todo # {} /\ c.at = "drained"
    BY <1>5, <1>t DEF O!LoadDrained, O!At, CountInv, SomethingToDo, Counting
  <2>2. /\ c.todo \in SUBSET O!Paths /\ c.found \in BOOLEAN /\ c.steady \in SUBSET O!Paths
    BY <2>1 DEF Observations
  <2>3. /\ observer' = [observer EXCEPT ![o] = O!Looking(rest, found, c.steady)]
        /\ inOutage' \in BOOLEAN /\ UNCHANGED O!pool
    BY <1>5, <1>t DEF O!LoadDrained, O!TypeOK
  <2>4. \A q \in c.steady : O!InService(q)
    BY <1>s
  <2>5. u \in O!Piholes
    BY <2>1, <2>2, <1>o, FirstOf
  <2>6. found \in BOOLEAN
    BY <2>2, <2>5, <1>t DEF O!Counts, O!TypeOK
  <2>7. rest \in SUBSET O!Paths
    BY <2>2
  <2>8. ~found => c.steady \subseteq rest
    <3> SUFFICES ASSUME ~found, NEW q \in c.steady PROVE q \in rest
      OBVIOUS
    <3>1. ~c.found /\ drained[u]
      BY DEF O!Counts
    <3>2. q \in c.todo
      BY <3>1, <2>1 DEF CountInv, NobodyPassed, Counting
    <3>3. Owner[q] # u
      BY <3>1, <2>4 DEF O!InService
    <3> QED
      BY <3>2, <3>3 DEF O!PathsOf
  <2> HIDE DEF c, u, found, rest
  <2> QED
    BY <2>2, <2>3, <2>4, <2>6, <2>7, <2>8, GoesOn
<1>6. ASSUME NEW o \in O!Observers, O!Observe(o) PROVE CountInv'
  <2>1. observer' = [observer EXCEPT ![o] = O!Idle] /\ inOutage' \in BOOLEAN /\ UNCHANGED O!pool
    BY <1>6, <1>t DEF O!Observe, O!Observed, Observations
  <2>2. O!Idle \in Observations /\ O!Idle.at = "idle" /\ O!Idle.steady = {}
    BY DEF O!Idle, Observations
  <2> QED
    BY <2>1, <2>2, OneObserver
<1>7. ASSUME NEW u \in O!Piholes, O!SetDrained(u) PROVE CountInv'
  <2>1. observer' = O!Left(O!PathsOf(u), observer)
    BY <1>7 DEF O!SetDrained
  <2>2. observer' \in [O!Observers -> Observations]
    BY <2>1, <1>t, <1>l
  <2>3. O!TypeOK'
    BY <1>7, <1>t, <2>2 DEF O!SetDrained, O!TypeOK, Observations
  <2>4. \A q \in O!Paths \ O!PathsOf(u) : O!InService(q) => O!InService(q)'
    BY <1>7, <1>t, <1>o DEF O!SetDrained, O!InService, O!TypeOK, O!PathsOf
  <2> QED
    BY <2>1, <2>3, <2>4, <1>t, SomeLeave
<1>8. ASSUME NEW u \in O!Piholes, O!Remove(u) PROVE CountInv'
  <2>1. observer' = O!Left(O!PathsOf(u), observer)
    BY <1>8 DEF O!Remove
  <2>2. observer' \in [O!Observers -> Observations]
    BY <2>1, <1>t, <1>l
  <2>3. O!TypeOK'
    BY <1>8, <1>t, <2>2 DEF O!Remove, O!TypeOK, Observations
  <2>4. \A q \in O!Paths \ O!PathsOf(u) : O!InService(q) => O!InService(q)'
    BY <1>8 DEF O!Remove, O!InService, O!PathsOf
  <2> QED
    BY <2>1, <2>3, <2>4, <1>t, SomeLeave
<1>9. ASSUME NEW u \in O!Piholes, O!Add(u) PROVE CountInv'
  <2>1. O!TypeOK'
    BY <1>9, <1>t DEF O!Add, O!TypeOK
  <2>2. \A q \in O!Paths : O!InService(q) => O!InService(q)'
    BY <1>9, <1>t, <1>o DEF O!Add, O!InService, O!TypeOK
  <2>3. observer' = observer
    BY <1>9 DEF O!Add
  <2>4. SteadyInService'
    BY <2>2, <2>3, <1>t DEF CountInv, SteadyInService, Observations
  <2> QED
    BY <2>1, <2>3, <2>4 DEF CountInv, SomethingToDo, NobodyPassed, Counting, O!At
<1>10. CASE UNCHANGED O!vars
  BY <1>10 DEF O!vars, O!pool, CountInv, O!TypeOK, SomethingToDo, SteadyInService, NobodyPassed,
               Counting, O!At, O!InService
<1> QED
  BY <1>1, <1>2, <1>3, <1>4, <1>5, <1>6, <1>7, <1>8, <1>9, <1>10 DEF O!Next

\* Every behaviour keeps the invariant.
LEMMA CountSafe == O!Spec => []CountInv
  BY CountInit, CountStep, PTL DEF O!Spec

\* Type correctness: in particular the pool never loses its last Pi-hole.
THEOREM OutagesTypeOK == O!Spec => []O!TypeOK
<1>1. CountInv => O!TypeOK
  BY DEF CountInv
<1> QED
  BY <1>1, CountSafe, PTL

\* However many Pi-holes, paths and goroutines there are, and however their counts
\* race turns, drains, removals, additions and one another: a count that is about
\* to tell the tracker that everything is down (the callback and OnSweep in
\* main.go, HealthyUpstreams and Upstream.Healthy in pool.go) has missed no path
\* that was in service all along.
THEOREM OutageJustifiedAlways == O!Spec => []OutageJustified
<1>1. CountInv => OutageJustified
  BY DEF CountInv, NobodyPassed, OutageJustified, Observers, O!Observers, At, O!At
<1> QED
  BY <1>1, CountSafe, PTL
=============================================================================
