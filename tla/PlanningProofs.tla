-------------------------- MODULE PlanningProofs --------------------------
(***************************************************************************)
(* Proofs about Planning, for any Pi-holes with any paths and any number   *)
(* of verdicts, drain marks and latencies that change while Plan runs:     *)
(* what a plan has and in which order, for what stays as it is meanwhile,  *)
(* and for all of it when nothing changes.                                 *)
(***************************************************************************)
EXTENDS Planning, SequenceTheorems, FiniteSetTheorems, TLAPS

-----------------------------------------------------------------------------
(***************************************************************************)
(* Upstreams and their paths.                                              *)
(***************************************************************************)

\* The configuration's list of upstreams.
LEMMA UpstreamFacts ==
    /\ Len(Upstreams) \in Nat \ {0}
    /\ DOMAIN Upstreams = 1..Len(Upstreams)
    /\ \A k \in 1..Len(Upstreams) : Upstreams[k] \in Names
    /\ \A u \in Names : \E k \in 1..Len(Upstreams) : u = Upstreams[k]
    /\ \A k, l \in 1..Len(Upstreams) : Upstreams[k] = Upstreams[l] => k = l
<1>1. Upstreams \in Seq(Names) /\ Upstreams # <<>> /\ IsInjective(Upstreams)
  BY UpstreamAssumption
<1>2. Len(Upstreams) \in Nat \ {0} /\ DOMAIN Upstreams = 1..Len(Upstreams)
  BY <1>1, EmptySeq, LenProperties
<1> QED
  BY <1>1, <1>2 DEF Names, ToSet, IsInjective

\* An upstream's list of endpoints.
LEMMA PathFacts ==
    ASSUME NEW u \in Names
    PROVE  /\ Len(Paths[u]) \in Nat \ {0}
           /\ DOMAIN Paths[u] = 1..Len(Paths[u])
           /\ \A k \in 1..Len(Paths[u]) : Paths[u][k] \in PathsOf(u)
           /\ \A e \in PathsOf(u) : \E k \in 1..Len(Paths[u]) : e = Paths[u][k]
           /\ \A k, l \in 1..Len(Paths[u]) : Paths[u][k] = Paths[u][l] => k = l
           /\ PathsOf(u) \subseteq Endpoints
<1>1. Paths[u] \in Seq(PathsOf(u)) /\ Paths[u] # <<>> /\ IsInjective(Paths[u])
  BY PathAssumption
<1>2. Len(Paths[u]) \in Nat \ {0} /\ DOMAIN Paths[u] = 1..Len(Paths[u])
  BY <1>1, EmptySeq, LenProperties
<1>3. PathsOf(u) \subseteq Endpoints
  BY DEF Endpoints
<1> QED
  BY <1>1, <1>2, <1>3 DEF PathsOf, ToSet, IsInjective

\* An endpoint has one owner.
LEMMA OwnerFacts ==
    /\ \A e \in Endpoints : Owner(e) \in Names /\ e \in PathsOf(Owner(e))
    /\ \A u \in Names : \A e \in PathsOf(u) : e \in Endpoints /\ Owner(e) = u
<1>1. ASSUME NEW e \in Endpoints PROVE Owner(e) \in Names /\ e \in PathsOf(Owner(e))
  BY DEF Endpoints, Owner
<1>2. ASSUME NEW u \in Names, NEW e \in PathsOf(u) PROVE e \in Endpoints /\ Owner(e) = u
  <2>1. e \in Endpoints
    BY DEF Endpoints
  <2>2. Owner(e) \in Names /\ e \in PathsOf(Owner(e))
    BY <1>1, <2>1
  <2> QED
    BY <2>1, <2>2, PathAssumption
<1> QED
  BY <1>1, <1>2

\* An endpoint by its place in its owner's list.
LEMMA Placed ==
    ASSUME NEW u \in Names, NEW k \in 1..Len(Paths[u])
    PROVE  /\ Paths[u][k] \in Endpoints /\ Paths[u][k] # None
           /\ Owner(Paths[u][k]) = u
           /\ Preferred(Paths[u][k]) <=> k = 1
<1>1. Paths[u][k] \in Endpoints /\ Owner(Paths[u][k]) = u
  BY PathFacts, OwnerFacts
<1>2. Paths[u][k] = Paths[u][1] <=> k = 1
  BY PathFacts
<1> QED
  BY <1>1, <1>2, PathAssumption DEF Preferred

\* The place of an upstream in the configuration.
LEMMA RankFacts ==
    ASSUME NEW k \in 1..Len(Upstreams)
    PROVE  Position(Upstreams, Upstreams[k]) = k
BY UpstreamFacts DEF Position

-----------------------------------------------------------------------------
(***************************************************************************)
(* Lists.                                                                  *)
(***************************************************************************)

\* A list, its places and what stands on them.
LEMMA ElementFacts ==
    ASSUME NEW S, NEW s \in Seq(S)
    PROVE  /\ Len(s) \in Nat /\ DOMAIN s = 1..Len(s)
           /\ \A k \in 1..Len(s) : s[k] \in S /\ s[k] \in ToSet(s)
           /\ \A x \in ToSet(s) : x \in S /\ \E k \in 1..Len(s) : x = s[k]
           /\ IsInjective(s) <=> \A k, l \in 1..Len(s) : s[k] = s[l] => k = l
           /\ s = <<>> <=> Len(s) = 0
           /\ s = <<>> <=> ToSet(s) = {}
<1>1. Len(s) \in Nat /\ DOMAIN s = 1..Len(s) /\ \A k \in 1..Len(s) : s[k] \in S
  BY LenProperties
<1>2. s = <<>> <=> Len(s) = 0
  BY EmptySeq
<1>3. ToSet(s) = {s[k] : k \in 1..Len(s)}
  BY <1>1 DEF ToSet
<1>4. Len(s) # 0 => 1 \in 1..Len(s)
  BY <1>1
<1>5. Len(s) = 0 => 1..Len(s) = {}
  OBVIOUS
<1>6. s = <<>> <=> ToSet(s) = {}
  BY <1>1, <1>2, <1>3, <1>4, <1>5
<1> QED
  BY <1>1, <1>2, <1>3, <1>6 DEF IsInjective

\* A list with one more element at its end.
LEMMA AppendFacts ==
    ASSUME NEW S, NEW s \in Seq(S), NEW x \in S
    PROVE  /\ Append(s, x) \in Seq(S)
           /\ Len(Append(s, x)) = Len(s) + 1
           /\ DOMAIN Append(s, x) = 1..(Len(s) + 1)
           /\ \A k \in 1..Len(s) : Append(s, x)[k] = s[k]
           /\ Append(s, x)[Len(s) + 1] = x
           /\ ToSet(Append(s, x)) = ToSet(s) \cup {x}
           /\ IsInjective(s) /\ x \notin ToSet(s) => IsInjective(Append(s, x))
<1> DEFINE t == Append(s, x)
<1>1. /\ t \in Seq(S) /\ Len(t) = Len(s) + 1
      /\ \A k \in 1..Len(s) : t[k] = s[k]
      /\ t[Len(s) + 1] = x
  BY AppendProperties
<1>2. Len(s) \in Nat /\ DOMAIN s = 1..Len(s) /\ DOMAIN t = 1..(Len(s) + 1)
  BY <1>1, LenProperties
<1> HIDE DEF t
<1>3. \A k \in DOMAIN t : k \in DOMAIN s \/ k = Len(s) + 1
  BY <1>2
<1>4. \A k \in DOMAIN s : k \in DOMAIN t /\ t[k] = s[k]
  BY <1>1, <1>2
<1>5. Len(s) + 1 \in DOMAIN t
  BY <1>2
<1>6. ToSet(t) = ToSet(s) \cup {x}
  BY <1>1, <1>3, <1>4, <1>5 DEF ToSet
<1>7. ASSUME IsInjective(s), x \notin ToSet(s), NEW k \in DOMAIN t, NEW l \in DOMAIN t,
             t[k] = t[l]
      PROVE  k = l
  <2>1. \A m \in DOMAIN s : s[m] # x
    BY <1>7 DEF ToSet
  <2> QED
    BY <1>1, <1>3, <1>4, <1>7, <2>1 DEF IsInjective
<1>8. IsInjective(s) /\ x \notin ToSet(s) => IsInjective(t)
  BY <1>7 DEF IsInjective
<1> QED
  BY <1>1, <1>2, <1>6, <1>8 DEF t

\* The elements of a list are finitely many, as many as it is long when none is
\* in it twice.
LEMMA ToSetFinite ==
    ASSUME NEW S, NEW s \in Seq(S)
    PROVE  /\ IsFiniteSet(ToSet(s))
           /\ IsInjective(s) => Cardinality(ToSet(s)) = Len(s)
<1>1. Len(s) \in Nat /\ DOMAIN s = 1..Len(s) /\ s \in [1..Len(s) -> S]
  BY LenProperties
<1>2. IsFiniteSet(1..Len(s)) /\ Cardinality(1..Len(s)) = Len(s)
  BY <1>1, FS_Interval
<1>3. s \in [1..Len(s) -> ToSet(s)] /\ \A x \in ToSet(s) : \E k \in 1..Len(s) : s[k] = x
  BY <1>1 DEF ToSet
<1>4. s \in Surjection(1..Len(s), ToSet(s))
  BY <1>3 DEF Surjection
<1>5. IsInjective(s) => s \in Injection(1..Len(s), ToSet(s))
  BY <1>3 DEF Injection
<1> QED
  BY <1>2, <1>4, <1>5, FS_Surjection

\* The permutations of a finite set.
LEMMA PermutationFacts ==
    ASSUME NEW S, IsFiniteSet(S), NEW t \in SetToSeqs(S)
    PROVE  /\ t \in Seq(S) /\ Len(t) = Cardinality(S)
           /\ ToSet(t) = S /\ IsInjective(t)
<1> DEFINE n == Cardinality(S)
<1>1. n \in Nat
  BY FS_CardinalityType
<1>2. t \in [1..n -> S] /\ \A k, l \in 1..n : k # l => t[k] # t[l]
  BY DEF SetToSeqs
<1> HIDE DEF n
<1>3. t \in Seq(S) /\ Len(t) = n /\ DOMAIN t = 1..n
  BY <1>1, <1>2
<1>4. IsInjective(t)
  BY <1>2, <1>3 DEF IsInjective
<1>5. t \in Injection(1..n, S)
  BY <1>2, <1>4 DEF Injection
<1>6. Cardinality(1..n) = n
  BY <1>1, FS_Interval
<1>7. t \in Surjection(1..n, S)
  BY <1>5, <1>6, FS_Injection DEF n
<1>8. \A x \in S : \E k \in 1..n : t[k] = x
  BY <1>7 DEF Surjection
<1>9. ToSet(t) = S
  BY <1>2, <1>3, <1>8 DEF ToSet
<1> QED
  BY <1>3, <1>4, <1>9 DEF n

-----------------------------------------------------------------------------
(***************************************************************************)
(* The inductive invariant.                                                *)
(***************************************************************************)
Classifying == at \in {"idle", "mark", "scan", "sort"}
Scanning == at \in {"scan", "first", "active"}
Walking == at \in {"first", "active", "second", "third"}

\* The upstreams the switch of the first loop has put on a list.
Passed ==
    IF at = "idle" THEN {}
    ELSE IF at \in {"mark", "scan"} THEN {Upstreams[k] : k \in 1..(i - 1)}
    ELSE Names

\* How many of the ordered upstreams have been through the loop over Active, and
\* which of their paths through the two loops after it.
Heads == IF Classifying THEN 0 ELSE IF at = "first" THEN i - 1 ELSE Len(healthy)

Behind(m, k) == m < i \/ (m = i /\ k < j)

Looked(m, k) ==
    \/ at \in {"third", "finish"}
    \/ at = "second" /\ Behind(m, k)
    \/ at = "active" /\ m < i

Checked(m, k) ==
    \/ at = "finish"
    \/ at = "third" /\ Behind(m, k)

\* Up, or down, ever since Plan began.
StaysUp(e) == PathStable(e) /\ up[e]
StaysDown(e) == PathStable(e) /\ ~up[e]

\* Where the loops stand.
Bounds ==
    /\ at \in {"idle", "sort"} => i = 1
    /\ ~Scanning /\ at \notin {"second", "third"} => j = 1
    /\ Walking => i <= Len(healthy)
    /\ Scanning \/ at \in {"second", "third"} => j <= Len(Paths[This])
    /\ Len(healthy) <= Len(Upstreams)
    /\ at \in {"idle", "mark", "scan"} => Len(healthy) < i
    /\ sorting => at = "sort" /\ moved # {}
    /\ at = "idle" => moved = {}

\* Every upstream passed is on one list, put there by what stayed true of it.
Classified ==
    /\ IsInjective(healthy)
    /\ ToSet(healthy) \cap ToSet(down) = {}
    /\ ToSet(healthy) \cap ToSet(aside) = {}
    /\ ToSet(down) \cap ToSet(aside) = {}
    /\ ToSet(healthy) \cup ToSet(down) \cup ToSet(aside) = Passed
    /\ \A u \in ToSet(aside) : MarkStable(u) => drained[u]
    /\ \A u \in ToSet(healthy) \cup ToSet(down) : MarkStable(u) => ~drained[u]
    /\ at = "scan" => (MarkStable(This) => ~drained[This])
    /\ \A u \in ToSet(down) : \A e \in PathsOf(u) : ~StaysUp(e)

\* A scan has passed no path that was up all along.
NonePassed == Scanning => \A k \in 1..(j - 1) : ~StaysUp(Paths[This][k])

\* The first tier: at most one path of each upstream, none that stays down, and
\* each preferred one that stays up.
FirstTier ==
    /\ Classifying => plan = <<>>
    /\ \A k \in DOMAIN plan :
          /\ \E m \in 1..Heads : Owner(plan[k]) = healthy[m]
          /\ ~StaysDown(plan[k])
    /\ \A k, l \in DOMAIN plan : Owner(plan[k]) = Owner(plan[l]) => k = l
    /\ \A m \in 1..Heads :
          StaysUp(Paths[healthy[m]][1]) => Paths[healthy[m]][1] \in ToSet(plan)

\* The second tier: nothing that stays down, no preferred path that stays up.
SecondTier ==
    /\ at = "second" => (StaysUp(Paths[This][1]) => active = Paths[This][1])
    /\ \A e \in secondary :
          /\ Owner(e) \in ToSet(healthy)
          /\ ~StaysDown(e)
          /\ Preferred(e) => ~StaysUp(e)

\* The last tier: nothing that stays up, and everything that stays down.
LastTier ==
    /\ \A e \in lastResort : Owner(e) \in ToSet(healthy) /\ ~StaysUp(e)
    /\ \A m \in DOMAIN healthy : \A k \in DOMAIN Paths[healthy[m]] :
          Checked(m, k) /\ StaysDown(Paths[healthy[m]][k]) =>
              Paths[healthy[m]][k] \in lastResort

Rank(u) == Position(Upstreams, u)

\* The first path that is up.
IsActive(u, e) ==
    \E k \in DOMAIN Paths[u] :
        e = Paths[u][k] /\ up[e] /\ \A m \in 1..(k - 1) : ~up[Paths[u][m]]

\* Upstreams in configuration order, and in the strategy's.
InOrder(s) == \A k, l \in DOMAIN s : k < l => Rank(s[k]) < Rank(s[l])

ByStrategy(s) ==
    /\ strategy = "failover" => InOrder(s)
    /\ strategy = "round-robin" =>
          \E last \in 0..Len(s) : \A k, l \in DOMAIN s :
             k < l => IF k <= last /\ last < l
                      THEN Rank(s[l]) < Rank(s[k])
                      ELSE Rank(s[k]) < Rank(s[l])
    /\ strategy = "least-latency" =>
          \A k, l \in DOMAIN s :
             k < l => EffectiveLatency(s[k]) <= EffectiveLatency(s[l])

\* While nothing has changed since Plan began, the tiers are exact.
Quiet ==
    moved = {} =>
        /\ Classifying => InOrder(healthy)
        /\ ~Classifying => ByStrategy(healthy)
        /\ \A u \in ToSet(healthy) : \E e \in PathsOf(u) : up[e]
        /\ Len(plan) = Heads
        /\ \A m \in 1..Heads : IsActive(healthy[m], plan[m])
        /\ at = "second" => IsActive(This, active)
        /\ \A e \in secondary : ~IsActive(Owner(e), e)
        /\ \A m \in DOMAIN healthy : \A k \in DOMAIN Paths[healthy[m]] :
              LET e == Paths[healthy[m]][k]
              IN  Looked(m, k) /\ up[e] /\ ~IsActive(healthy[m], e) => e \in secondary

\* A finished plan is left alone until its caller is done with it.
PlanInv ==
    /\ TypeOK
    /\ Bounds
    /\ at # "done" =>
          Classified /\ NonePassed /\ FirstTier /\ SecondTier /\ LastTier /\ Quiet

-----------------------------------------------------------------------------
(***************************************************************************)
(* Active, and the orders of orderLocked.                                  *)
(***************************************************************************)

\* A set of numbers has a least one.
LEMMA LeastElement ==
    ASSUME NEW T \in SUBSET Nat, T # {}
    PROVE  Min(T) \in T /\ \A k \in T : Min(T) <= k
<1>1. PICK m \in T : \A k \in T : ~(<<k, m>> \in OpToRel(<, Nat))
  BY NatLessThanWellFounded, WFMin, Zenon
<1>2. ASSUME NEW k \in T PROVE ~(k < m)
  BY <1>1, <1>2, Zenon DEF OpToRel
<1>3. \A k \in T : m <= k
  BY <1>2
<1> QED
  BY <1>3 DEF Min

\* Active finds the first path that is up, and nil when there is none.
LEMMA ActiveFacts ==
    ASSUME NEW u \in Names
    PROVE  /\ (\E e \in PathsOf(u) : up[e]) => IsActive(u, Active(u))
           /\ (\A e \in PathsOf(u) : ~up[e]) => Active(u) = None
           /\ \A e : IsActive(u, e) => e = Active(u)
<1> DEFINE I == {k \in 1..Len(Paths[u]) : up[Paths[u][k]]}
<1>1. Active(u) = LET k == IF I # {} THEN Min(I) ELSE 0
                  IN  IF k = 0 THEN None ELSE Paths[u][k]
  BY DEF Active, SelectInSeq
<1>p. /\ Len(Paths[u]) \in Nat \ {0}
      /\ DOMAIN Paths[u] = 1..Len(Paths[u])
      /\ \A k \in 1..Len(Paths[u]) : Paths[u][k] \in PathsOf(u)
      /\ \A e \in PathsOf(u) : \E k \in 1..Len(Paths[u]) : e = Paths[u][k]
  BY PathFacts
<1>2. I \in SUBSET Nat
  BY <1>p
<1>3. I # {} => Min(I) \in I /\ \A k \in I : Min(I) <= k
  BY <1>2, LeastElement
<1>i. \A k : k \in I <=> k \in 1..Len(Paths[u]) /\ up[Paths[u][k]]
  OBVIOUS
<1> HIDE DEF I
<1>4. I # {} => /\ Active(u) = Paths[u][Min(I)] /\ Min(I) \in 1..Len(Paths[u])
                /\ up[Paths[u][Min(I)]]
                /\ \A m \in 1..(Min(I) - 1) : ~up[Paths[u][m]]
  <2> SUFFICES ASSUME I # {}
               PROVE  /\ Active(u) = Paths[u][Min(I)] /\ Min(I) \in 1..Len(Paths[u])
                      /\ up[Paths[u][Min(I)]]
                      /\ \A m \in 1..(Min(I) - 1) : ~up[Paths[u][m]]
    OBVIOUS
  <2>1. Min(I) \in 1..Len(Paths[u]) /\ up[Paths[u][Min(I)]]
    BY <1>3, <1>i
  <2>2. ASSUME NEW m \in 1..(Min(I) - 1) PROVE m \notin I /\ m \in 1..Len(Paths[u])
    BY <1>3, <1>p, <2>1
  <2>3. Min(I) # 0
    BY <2>1
  <2> QED
    BY <1>1, <1>i, <2>1, <2>2, <2>3
<1>5. I = {} => Active(u) = None
  BY <1>1
<1>6. (\E e \in PathsOf(u) : up[e]) <=> I # {}
  BY <1>i, <1>p
<1>7. I # {} => IsActive(u, Active(u))
  BY <1>4, <1>p DEF IsActive
<1>8. ASSUME NEW e, IsActive(u, e) PROVE e = Active(u)
  <2>1. PICK k \in 1..Len(Paths[u]) :
           e = Paths[u][k] /\ up[e] /\ \A m \in 1..(k - 1) : ~up[Paths[u][m]]
    BY <1>8, <1>p DEF IsActive
  <2>2. k \in I
    BY <1>i, <2>1
  <2>3. ~(Min(I) < k)
    BY <1>3, <1>i, <1>p, <2>1, <2>2
  <2>4. Min(I) = k
    BY <1>3, <1>i, <1>p, <2>2, <2>3
  <2> QED
    BY <1>4, <2>1, <2>2, <2>4
<1> QED
  BY <1>5, <1>6, <1>7, <1>8

\* An upstream has a latency to sort by.
LEMMA LatencyFacts ==
    ASSUME TypeOK, NEW u \in Names
    PROVE  EffectiveLatency(u) \in Nat
<1>1. Active(u) = None \/ Active(u) \in Endpoints
  BY ActiveFacts, Placed, PathFacts DEF IsActive
<1>2. \A e \in Endpoints : latency[e] \in Nat
  BY BoundAssumption DEF TypeOK, Latencies
<1> QED
  BY <1>1, <1>2, BoundAssumption DEF EffectiveLatency, Hour

\* What Active and effectiveLatency say depends on the verdicts and averages only.
LEMMA SameLoads ==
    ASSUME up' = up
    PROVE  /\ \A u : Active(u)' = Active(u)
           /\ \A u, e : IsActive(u, e)' = IsActive(u, e)
           /\ latency' = latency => \A u : EffectiveLatency(u)' = EffectiveLatency(u)
<1>1. \A u : Active(u)' = Active(u)
  BY DEF Active, SelectInSeq
<1>2. \A u, e : IsActive(u, e)' = IsActive(u, e)
  BY DEF IsActive
<1> QED
  BY <1>1, <1>2 DEF EffectiveLatency

\* The remainders a rotation computes.
LEMMA Remainder ==
    ASSUME NEW n \in Nat \ {0}, NEW m \in 0..(n - 1)
    PROVE  m % n = m /\ (m + n) % n = m
  OBVIOUS

\* A rotation starts somewhere in the list and comes round to it again.
LEMMA RotationFacts ==
    ASSUME NEW s \in Seq(Names), IsInjective(s), NEW start \in 0..(Len(s) - 1)
    PROVE  LET t == Rotation(s, start)
           IN  /\ t \in Seq(Names) /\ Len(t) = Len(s)
               /\ ToSet(t) = ToSet(s) /\ IsInjective(t)
               /\ \A k \in 1..Len(s) :
                     t[k] = s[IF start + k <= Len(s) THEN start + k ELSE start + k - Len(s)]
<1> DEFINE n == Len(s)
           t == Rotation(s, start)
           from(k) == IF start + k <= n THEN start + k ELSE start + k - n
<1>1. n \in Nat \ {0} /\ start \in 0..(n - 1)
  BY ElementFacts
<1>2. ASSUME NEW k \in 1..n PROVE ((start + k - 1) % n) + 1 = from(k)
  <2>1. CASE start + k <= n
    <3>1. start + k - 1 \in 0..(n - 1)
      BY <1>1, <2>1
    <3>2. (start + k - 1) % n = start + k - 1
      BY <1>1, <3>1, Remainder
    <3> QED
      BY <3>2, <2>1, <1>1
  <2>2. CASE start + k > n
    <3>1. start + k - 1 - n \in 0..(n - 1)
      BY <1>1, <2>2
    <3>2. (start + k - 1 - n) + n = start + k - 1
      BY <1>1
    <3>3. (start + k - 1) % n = start + k - 1 - n
      BY <1>1, <3>1, <3>2, Remainder
    <3> QED
      BY <3>3, <2>2, <1>1
  <2> QED
    BY <1>1, <2>1, <2>2
<1>3. \A k \in 1..n : from(k) \in 1..n
  BY <1>1
<1>4. \A m \in 1..n : \E k \in 1..n : from(k) = m
  <2> SUFFICES ASSUME NEW m \in 1..n PROVE \E k \in 1..n : from(k) = m
    OBVIOUS
  <2>1. CASE m > start
    <3>1. m - start \in 1..n /\ from(m - start) = m
      BY <1>1, <2>1
    <3> QED
      BY <3>1
  <2>2. CASE ~(m > start)
    <3>1. m - start + n \in 1..n /\ from(m - start + n) = m
      BY <1>1, <2>2
    <3> QED
      BY <3>1
  <2> QED
    BY <2>1, <2>2
<1>5. \A k, l \in 1..n : from(k) = from(l) => k = l
  BY <1>1
<1>6. /\ DOMAIN s = 1..n
      /\ \A k \in 1..n : s[k] \in Names
      /\ \A k, l \in 1..n : s[k] = s[l] => k = l
  BY ElementFacts
<1>7. t = [k \in 1..n |-> s[((start + k - 1) % n) + 1]]
  BY DEF Rotation
<1>8. \A k \in 1..n : t[k] = s[from(k)]
  BY <1>2, <1>7
<1>9. t \in Seq(Names) /\ Len(t) = n /\ DOMAIN t = 1..n
  <2>1. \A k \in 1..n : s[((start + k - 1) % n) + 1] \in Names
    BY <1>2, <1>3, <1>6
  <2> QED
    BY <1>1, <1>7, <2>1
<1> HIDE DEF t, n, from
<1>10. ToSet(t) = ToSet(s)
  <2>1. \A k \in DOMAIN t : \E m \in DOMAIN s : t[k] = s[m]
    <3> SUFFICES ASSUME NEW k \in 1..n PROVE \E m \in 1..n : t[k] = s[m]
      BY <1>6, <1>9
    <3>1. from(k) \in 1..n /\ t[k] = s[from(k)]
      BY <1>3, <1>8
    <3> QED
      BY <3>1
  <2>2. \A m \in DOMAIN s : \E k \in DOMAIN t : s[m] = t[k]
    <3> SUFFICES ASSUME NEW m \in 1..n PROVE \E k \in 1..n : s[m] = t[k]
      BY <1>6, <1>9
    <3>1. PICK k \in 1..n : from(k) = m
      BY <1>4
    <3>2. t[k] = s[from(k)]
      BY <1>8
    <3> QED
      BY <3>1, <3>2
  <2> QED
    BY <2>1, <2>2 DEF ToSet
<1>11. IsInjective(t)
  BY <1>3, <1>5, <1>6, <1>8, <1>9 DEF IsInjective
<1>12. \A k \in 1..n : t[k] = s[IF start + k <= n THEN start + k ELSE start + k - n]
  BY <1>8 DEF from
<1> QED
  BY <1>9, <1>10, <1>11, <1>12 DEF t, n

\* orderLocked returns the upstreams it was given, in the strategy's order when
\* nothing has changed.
LEMMA OrdersFacts ==
    ASSUME TypeOK, IsInjective(healthy), NEW t \in Orders(healthy)
    PROVE  /\ t \in Seq(Names) /\ Len(t) = Len(healthy)
           /\ ToSet(t) = ToSet(healthy) /\ IsInjective(t)
           /\ ~sorting /\ InOrder(healthy) => ByStrategy(t)
<1>s. healthy \in Seq(Names) /\ Len(healthy) \in Nat /\ DOMAIN healthy = 1..Len(healthy)
  BY ElementFacts DEF TypeOK
<1>p. ASSUME t \in SetToSeqs(ToSet(healthy))
      PROVE  /\ t \in Seq(Names) /\ Len(t) = Len(healthy)
             /\ ToSet(t) = ToSet(healthy) /\ IsInjective(t)
  <2>1. IsFiniteSet(ToSet(healthy)) /\ Cardinality(ToSet(healthy)) = Len(healthy)
    BY <1>s, ToSetFinite
  <2>2. /\ t \in Seq(ToSet(healthy)) /\ Len(t) = Len(healthy)
        /\ ToSet(t) = ToSet(healthy) /\ IsInjective(t)
    BY <1>p, <2>1, PermutationFacts
  <2>3. ToSet(healthy) \subseteq Names
    BY <1>s, ElementFacts
  <2> QED
    BY <2>2, <2>3, SeqMonotonic
<1>1. CASE Len(healthy) < 2
  <2>1. t = healthy
    <3>1. Orders(healthy) = {healthy}
      BY <1>1 DEF Orders
    <3> QED
      BY <3>1
  <2>2. \A k, l \in DOMAIN t : ~(k < l)
    BY <1>1, <1>s, <2>1
  <2>3. ByStrategy(t)
    BY <1>s, <2>1, <2>2 DEF ByStrategy, InOrder
  <2> QED
    BY <1>s, <2>1, <2>3
<1>2. CASE ~(Len(healthy) < 2) /\ strategy = "failover"
  <2>1. t = healthy
    BY <1>2 DEF Orders
  <2> QED
    BY <1>2, <1>s, <2>1 DEF ByStrategy
<1>3. CASE ~(Len(healthy) < 2) /\ strategy = "round-robin"
  <2> DEFINE start == rr % Len(healthy)
             n == Len(healthy)
  <2>1. t = Rotation(healthy, start)
    BY <1>3 DEF Orders
  <2>2. rr \in Nat
    BY PeriodAssumption DEF TypeOK
  <2>3. start \in 0..(n - 1)
    BY <1>3, <1>s, <2>2
  <2> HIDE DEF start
  <2>4. /\ t \in Seq(Names) /\ Len(t) = n
        /\ ToSet(t) = ToSet(healthy) /\ IsInjective(t)
        /\ \A k \in 1..n : t[k] = healthy[IF start + k <= n THEN start + k ELSE start + k - n]
    BY <1>s, <2>1, <2>3, RotationFacts
  <2>5. ASSUME InOrder(healthy), NEW k \in 1..n, NEW l \in 1..n, k < l
        PROVE  IF k <= n - start /\ n - start < l
               THEN Rank(t[l]) < Rank(t[k]) ELSE Rank(t[k]) < Rank(t[l])
    <3> DEFINE f(m) == IF start + m <= n THEN start + m ELSE start + m - n
    <3>1. f(k) \in 1..n /\ f(l) \in 1..n
      BY <1>s, <2>3
    <3>2. IF k <= n - start /\ n - start < l THEN f(l) < f(k) ELSE f(k) < f(l)
      BY <1>s, <2>3, <2>5
    <3>3. t[k] = healthy[f(k)] /\ t[l] = healthy[f(l)]
      BY <2>4
    <3> HIDE DEF f
    <3>4. \A a, b \in 1..n : a < b => Rank(healthy[a]) < Rank(healthy[b])
      BY <1>s, <2>5 DEF InOrder
    <3> QED
      BY <3>1, <3>2, <3>3, <3>4
  <2>6. n - start \in 0..n /\ DOMAIN t = 1..n
    BY <1>s, <2>3, <2>4, ElementFacts
  <2>7. ASSUME InOrder(healthy)
        PROVE  \E last \in 0..Len(t) : \A k, l \in DOMAIN t :
                  k < l => IF k <= last /\ last < l
                           THEN Rank(t[l]) < Rank(t[k]) ELSE Rank(t[k]) < Rank(t[l])
    <3>1. \A k, l \in DOMAIN t :
             k < l => IF k <= n - start /\ n - start < l
                      THEN Rank(t[l]) < Rank(t[k]) ELSE Rank(t[k]) < Rank(t[l])
      BY <2>5, <2>6, <2>7
    <3> HIDE DEF n
    <3> QED
      BY <2>4, <2>6, <3>1
  <2> QED
    BY <1>3, <2>4, <2>7 DEF ByStrategy
<1>4. CASE ~(Len(healthy) < 2) /\ strategy = "least-latency"
  <2>1. t \in SetToSeqs(ToSet(healthy)) /\ (sorting \/ Sorted(healthy, t))
    BY <1>4 DEF Orders
  <2>2. /\ t \in Seq(Names) /\ Len(t) = Len(healthy)
        /\ ToSet(t) = ToSet(healthy) /\ IsInjective(t)
    BY <1>p, <2>1
  <2>3. ASSUME ~sorting, NEW k \in DOMAIN t, NEW l \in DOMAIN t, k < l
        PROVE  EffectiveLatency(t[k]) <= EffectiveLatency(t[l])
    <3>1. t[k] \in Names /\ t[l] \in Names
      BY <2>2, ElementFacts
    <3>2. EffectiveLatency(t[k]) \in Nat /\ EffectiveLatency(t[l]) \in Nat
      BY <3>1, LatencyFacts
    <3>3. EffectiveLatency(t[k]) < EffectiveLatency(t[l])
          \/ EffectiveLatency(t[k]) = EffectiveLatency(t[l])
      BY <2>1, <2>3 DEF Sorted
    <3> QED
      BY <3>2, <3>3
  <2> QED
    BY <1>4, <2>2, <2>3 DEF ByStrategy
<1>5. CASE /\ ~(Len(healthy) < 2)
           /\ strategy \notin {"failover", "round-robin", "least-latency"}
  <2>1. t \in SetToSeqs(ToSet(healthy))
    BY <1>5 DEF Orders
  <2> QED
    BY <1>5, <1>p, <2>1 DEF ByStrategy
<1> QED
  BY <1>1, <1>2, <1>3, <1>4, <1>5

-----------------------------------------------------------------------------
(***************************************************************************)
(* The invariant holds to begin with, and other goroutines keep it.        *)
(***************************************************************************)

\* Plan has not begun.
LEMMA PlanInit == Init => PlanInv
<1> SUFFICES ASSUME Init PROVE PlanInv
  OBVIOUS
<1>1. Len(Upstreams) \in Nat \ {0}
  BY UpstreamFacts
<1>2. /\ \A S : <<>> \in Seq(S)
      /\ Len(<<>>) = 0 /\ DOMAIN <<>> = {} /\ ToSet(<<>>) = {} /\ IsInjective(<<>>)
  BY DEF ToSet, IsInjective
<1>3. latency \in [Endpoints -> Latencies]
  BY BoundAssumption DEF Init, Latencies
<1>4. TypeOK
  <2>1. rr \in 0..(TicketPeriod - 1)
    BY PeriodAssumption DEF Init
  <2>2. i \in 1..Len(Upstreams) /\ j \in Nat \ {0}
    BY <1>1 DEF Init
  <2>3. plan \in Seq(Endpoints) /\ \A s \in {healthy, down, aside} : s \in Seq(Names)
    BY <1>2 DEF Init
  <2> QED
    BY <1>3, <2>1, <2>2, <2>3 DEF Init, TypeOK
<1>5. Bounds
  BY <1>1, <1>2 DEF Init, Bounds, Scanning, Walking
<1>6. Classified
  BY <1>2 DEF Init, Classified, Passed
<1>7. NonePassed /\ FirstTier /\ SecondTier /\ LastTier
  BY <1>2 DEF Init, NonePassed, FirstTier, SecondTier, LastTier, Scanning, Classifying, Heads
<1>8. Quiet
  BY <1>2 DEF Init, Quiet, Classifying, InOrder, Heads
<1> QED
  BY <1>4, <1>5, <1>6, <1>7, <1>8 DEF PlanInv

\* The invariant speaks of what has stayed as it was since Plan began, so a change
\* somewhere else does not disturb it.
LEMMA ChangeInv ==
    ASSUME PlanInv, TypeOK', NEW what, Changes(what),
           \A e \in Endpoints : PathStable(e)' => PathStable(e) /\ up'[e] = up[e],
           \A u \in Names : MarkStable(u)' => MarkStable(u) /\ drained'[u] = drained[u]
    PROVE  PlanInv'
<1>1. /\ at' = at /\ i' = i /\ j' = j /\ healthy' = healthy /\ down' = down /\ aside' = aside
      /\ active' = active /\ plan' = plan /\ secondary' = secondary
      /\ lastResort' = lastResort /\ sorting' = (sorting \/ at = "sort")
      /\ moved' # {} /\ at \notin {"idle", "done"}
  BY DEF Changes, lists, tiers
<1>2. TypeOK /\ Bounds /\ Classified /\ NonePassed /\ FirstTier /\ SecondTier /\ LastTier
  BY <1>1 DEF PlanInv
<1>3. \A e \in Endpoints : /\ StaysUp(e)' => StaysUp(e)
                           /\ StaysDown(e)' => StaysDown(e)
  BY DEF StaysUp, StaysDown
<1>4. /\ This' = This /\ Heads' = Heads /\ Passed' = Passed
      /\ Scanning' = Scanning /\ Walking' = Walking /\ Classifying' = Classifying
      /\ \A m, k : Checked(m, k)' = Checked(m, k)
  BY <1>1 DEF This, Listed, Heads, Passed, Scanning, Walking, Classifying, Checked, Behind
<1>l. /\ healthy \in Seq(Names) /\ down \in Seq(Names) /\ aside \in Seq(Names)
      /\ plan \in Seq(Endpoints) /\ secondary \subseteq Endpoints
      /\ lastResort \subseteq Endpoints
  BY <1>2 DEF TypeOK
<1>n. /\ ToSet(healthy) \subseteq Names /\ ToSet(down) \subseteq Names
      /\ ToSet(aside) \subseteq Names
      /\ \A k \in DOMAIN plan : plan[k] \in Endpoints
      /\ DOMAIN healthy = 1..Len(healthy)
      /\ \A m \in DOMAIN healthy : healthy[m] \in Names
  BY <1>l, ElementFacts
<1>t. Scanning \/ at = "second" => This \in Names
  <2>1. at = "scan" => Upstreams[i] \in Names
    BY <1>2, UpstreamFacts DEF TypeOK
  <2>2. at \in {"first", "active", "second"} => healthy[i] \in Names
    BY <1>2, <1>n DEF TypeOK, Bounds, Walking
  <2> QED
    BY <2>1, <2>2 DEF This, Listed, Scanning
<1>5. Bounds'
  BY <1>1, <1>2, <1>4 DEF Bounds
<1>6. Classified'
  <2>1. \A u \in ToSet(down) : \A e \in PathsOf(u) : e \in Endpoints
    BY <1>n, PathFacts
  <2>2. \A u \in ToSet(down) : \A e \in PathsOf(u) : ~StaysUp(e)'
    BY <1>2, <1>3, <2>1 DEF Classified
  <2>3. /\ \A u \in ToSet(aside) : MarkStable(u)' => drained'[u]
        /\ \A u \in ToSet(healthy) \cup ToSet(down) : MarkStable(u)' => ~drained'[u]
    BY <1>2, <1>n DEF Classified
  <2>4. at = "scan" => (MarkStable(This)' => ~drained'[This])
    BY <1>2, <1>4, <1>t DEF Classified, Scanning, MarkStable
  <2> QED
    BY <1>1, <1>2, <1>4, <2>2, <2>3, <2>4 DEF Classified
<1>7. NonePassed'
  <2>1. ASSUME Scanning, NEW k \in 1..(j - 1) PROVE ~StaysUp(Paths[This][k])'
    <3>1. This \in Names /\ k \in 1..Len(Paths[This])
      BY <1>2, <1>t, <2>1, PathFacts DEF Bounds, TypeOK
    <3>2. Paths[This][k] \in Endpoints
      BY <3>1, PathFacts
    <3>3. ~StaysUp(Paths[This][k])
      BY <1>2, <2>1 DEF NonePassed
    <3> QED
      BY <1>3, <1>4, <3>2, <3>3
  <2> QED
    BY <1>1, <1>4, <2>1 DEF NonePassed
<1>8. FirstTier'
  <2>1. ASSUME NEW m \in 1..Heads PROVE Paths[healthy[m]][1] \in Endpoints
    <3>1. m \in 1..Len(healthy)
      BY <1>1, <1>2, <1>l, ElementFacts DEF Heads, Bounds, Walking, TypeOK
    <3> QED
      BY <1>n, <3>1, PathFacts
  <2>2. \A k \in DOMAIN plan : ~StaysDown(plan[k])'
    BY <1>1, <1>2, <1>3, <1>n DEF FirstTier
  <2>3. \A m \in 1..Heads :
          StaysUp(Paths[healthy[m]][1])' => Paths[healthy[m]][1] \in ToSet(plan)
    BY <1>1, <1>2, <1>3, <2>1 DEF FirstTier
  <2> QED
    BY <1>1, <1>2, <1>4, <2>2, <2>3 DEF FirstTier, Owner
<1>9. SecondTier'
  <2>1. ASSUME at = "second", StaysUp(Paths[This][1])' PROVE active = Paths[This][1]
    <3>1. Paths[This][1] \in Endpoints
      BY <1>t, <2>1, PathFacts
    <3> QED
      BY <1>2, <1>3, <1>4, <2>1, <3>1 DEF SecondTier
  <2>2. \A e \in secondary : ~StaysDown(e)' /\ (Preferred(e) => ~StaysUp(e)')
    BY <1>2, <1>3, <1>l DEF SecondTier
  <2> QED
    BY <1>1, <1>2, <1>4, <2>1, <2>2 DEF SecondTier, Preferred, Owner
<1>10. LastTier'
  <2>1. \A e \in lastResort : ~StaysUp(e)'
    BY <1>2, <1>3, <1>l DEF LastTier
  <2>2. ASSUME NEW m \in DOMAIN healthy, NEW k \in DOMAIN Paths[healthy[m]], Checked(m, k),
               StaysDown(Paths[healthy[m]][k])'
        PROVE  Paths[healthy[m]][k] \in lastResort
    <3>1. Paths[healthy[m]][k] \in Endpoints
      BY <1>n, PathFacts
    <3> QED
      BY <1>1, <1>2, <1>3, <2>2, <3>1 DEF LastTier
  <2> QED
    BY <1>1, <1>2, <1>4, <2>1, <2>2 DEF LastTier, Owner
<1>11. Quiet'
  BY <1>1 DEF Quiet
<1> QED
  BY <1>1, <1>5, <1>6, <1>7, <1>8, <1>9, <1>10, <1>11 DEF PlanInv

\* record and SetInitial, while Plan runs.
LEMMA TurnInv ==
    ASSUME PlanInv, NEW e \in Endpoints, Turn(e)
    PROVE  PlanInv'
<1>1. PICK n \in 1..MaxChanges :
         /\ \A m \in 1..(n - 1) : <<"path", e, m>> \in moved
         /\ Changes(<<"path", e, n>>)
  BY DEF Turn
<1>2. up' = [up EXCEPT ![e] = ~@] /\ drained' = drained /\ latency' = latency
  BY DEF Turn
<1>3. /\ moved' = moved \cup {<<"path", e, n>>} /\ sorting' = (sorting \/ at = "sort")
      /\ UNCHANGED <<strategy, rr, at, i, j, lists, active, tiers>>
  BY <1>1 DEF Changes
<1>4. <<"path", e, 1>> \in moved'
  BY <1>1, <1>3, BoundAssumption
<1>5. TypeOK'
  <2>1. TypeOK
    BY DEF PlanInv
  <2>2. up' \in [Endpoints -> BOOLEAN] /\ sorting' \in BOOLEAN
    BY <1>2, <1>3, <2>1 DEF TypeOK
  <2> QED
    BY <1>2, <1>3, <2>1, <2>2 DEF TypeOK, lists, tiers
<1>6. \A d \in Endpoints : PathStable(d)' => PathStable(d) /\ up'[d] = up[d]
  BY <1>2, <1>3, <1>4 DEF PathStable, PlanInv, TypeOK
<1>7. \A u \in Names : MarkStable(u)' => MarkStable(u) /\ drained'[u] = drained[u]
  BY <1>2, <1>3 DEF MarkStable
<1> QED
  BY <1>1, <1>5, <1>6, <1>7, ChangeInv

\* record moves a latency average, while Plan runs.
LEMMA MeasureInv ==
    ASSUME PlanInv, NEW e \in Endpoints, Measure(e)
    PROVE  PlanInv'
<1>1. Changes(<<"latency", e, 1>>)
  BY DEF Measure
<1>2. PICK l \in Latencies : latency' = [latency EXCEPT ![e] = l]
  BY DEF Measure
<1>3. up' = up /\ drained' = drained
  BY DEF Measure
<1>4. /\ moved' = moved \cup {<<"latency", e, 1>>} /\ sorting' = (sorting \/ at = "sort")
      /\ UNCHANGED <<strategy, rr, at, i, j, lists, active, tiers>>
  BY <1>1 DEF Changes
<1>5. TypeOK'
  <2>1. TypeOK
    BY DEF PlanInv
  <2>2. latency' \in [Endpoints -> Latencies] /\ sorting' \in BOOLEAN
    BY <1>2, <1>4, <2>1 DEF TypeOK
  <2> QED
    BY <1>3, <1>4, <2>1, <2>2 DEF TypeOK, lists, tiers
<1>6. /\ \A d \in Endpoints : PathStable(d)' => PathStable(d) /\ up'[d] = up[d]
      /\ \A u \in Names : MarkStable(u)' => MarkStable(u) /\ drained'[u] = drained[u]
  BY <1>3, <1>4 DEF PathStable, MarkStable
<1> QED
  BY <1>1, <1>5, <1>6, ChangeInv

\* An operator drains or undrains an upstream, while Plan runs.
LEMMA SetDrainedInv ==
    ASSUME PlanInv, NEW u \in Names, SetDrained(u)
    PROVE  PlanInv'
<1>1. Changes(<<"mark", u, 1>>)
  BY DEF SetDrained
<1>2. drained' = [drained EXCEPT ![u] = ~@] /\ up' = up /\ latency' = latency
  BY DEF SetDrained
<1>3. /\ moved' = moved \cup {<<"mark", u, 1>>} /\ sorting' = (sorting \/ at = "sort")
      /\ UNCHANGED <<strategy, rr, at, i, j, lists, active, tiers>>
  BY <1>1 DEF Changes
<1>4. TypeOK'
  <2>1. TypeOK
    BY DEF PlanInv
  <2>2. drained' \in [Names -> BOOLEAN] /\ sorting' \in BOOLEAN
    BY <1>2, <1>3, <2>1 DEF TypeOK
  <2> QED
    BY <1>2, <1>3, <2>1, <2>2 DEF TypeOK, lists, tiers
<1>5. \A d \in Endpoints : PathStable(d)' => PathStable(d) /\ up'[d] = up[d]
  BY <1>2, <1>3 DEF PathStable
<1>6. \A v \in Names : MarkStable(v)' => MarkStable(v) /\ drained'[v] = drained[v]
  BY <1>2, <1>3 DEF MarkStable, PlanInv, TypeOK
<1> QED
  BY <1>1, <1>4, <1>5, <1>6, ChangeInv

-----------------------------------------------------------------------------
(***************************************************************************)
(* The first loop of Plan, and the sort.                                   *)
(***************************************************************************)

\* The upstream a loop looks at, and its paths.
LEMMA ThisFacts ==
    ASSUME TypeOK, Bounds, at \in {"mark", "scan", "first", "active", "second", "third"}
    PROVE  /\ at \in {"mark", "scan"} => Listed = Upstreams /\ This = Upstreams[i]
           /\ at \notin {"mark", "scan"} =>
                 Listed = healthy /\ This = healthy[i] /\ i \in 1..Len(healthy)
           /\ This \in Names
           /\ at # "mark" => j \in 1..Len(Paths[This])
<1>1. at \in {"mark", "scan"} => Listed = Upstreams /\ This = Upstreams[i]
  BY DEF This, Listed
<1>2. at \notin {"mark", "scan"} =>
         Listed = healthy /\ This = healthy[i] /\ i \in 1..Len(healthy)
  BY UpstreamFacts DEF This, Listed, TypeOK, Bounds, Walking
<1>3. i \in 1..Len(Upstreams) /\ healthy \in Seq(Names)
  BY DEF TypeOK
<1>4. This \in Names
  BY <1>1, <1>2, <1>3, UpstreamFacts, ElementFacts
<1>5. at # "mark" => j \in 1..Len(Paths[This])
  BY <1>4, PathFacts DEF TypeOK, Bounds, Scanning
<1> QED
  BY <1>1, <1>2, <1>4, <1>5

\* The first loop has passed one more upstream.
LEMMA PassedStep ==
    ASSUME TypeOK, at \in {"mark", "scan"}, Proceed
    PROVE  /\ Passed' = Passed \cup {This} /\ This \notin Passed /\ This = Upstreams[i]
           /\ i' \in 1..Len(Upstreams) /\ j' = 1
           /\ at' \in {"mark", "sort"}
           /\ at' = "mark" => i' = i + 1
           /\ at' = "sort" => i' = 1
<1>1. Listed = Upstreams /\ This = Upstreams[i] /\ i \in 1..Len(Upstreams)
  BY DEF This, Listed, TypeOK
<1>2. /\ i < Len(Upstreams) => i' = i + 1 /\ at' = "mark"
      /\ ~(i < Len(Upstreams)) => i' = 1 /\ at' = "sort"
      /\ j' = 1
  BY <1>1 DEF Proceed, Again, After
<1>u. /\ Len(Upstreams) \in Nat \ {0}
      /\ \A k \in 1..Len(Upstreams) : Upstreams[k] \in Names
      /\ \A u \in Names : \E k \in 1..Len(Upstreams) : u = Upstreams[k]
      /\ \A k, l \in 1..Len(Upstreams) : Upstreams[k] = Upstreams[l] => k = l
  BY UpstreamFacts
<1>3. Passed = {Upstreams[k] : k \in 1..(i - 1)}
  BY DEF Passed
<1>4. This \notin Passed
  BY <1>1, <1>3, <1>u
<1>5. CASE i < Len(Upstreams)
  <2>p. at' = "mark" /\ i' - 1 = i
    BY <1>1, <1>2, <1>5, <1>u
  <2>1. Passed' = {Upstreams[k] : k \in 1..i}
    BY <2>p DEF Passed
  <2>2. \A k \in 1..i : k \in 1..(i - 1) \/ k = i
    BY <1>1, <1>u
  <2>3. i \in 1..i /\ \A k \in 1..(i - 1) : k \in 1..i
    BY <1>1, <1>u
  <2>4. Passed' = Passed \cup {This}
    BY <1>1, <1>3, <2>1, <2>2, <2>3
  <2> QED
    BY <1>1, <1>2, <1>4, <1>5, <1>u, <2>4
<1>6. CASE ~(i < Len(Upstreams))
  <2>1. i = Len(Upstreams)
    BY <1>1, <1>6, <1>u
  <2>2. Passed' = Names
    BY <1>2, <1>6 DEF Passed
  <2>3. \A k \in 1..Len(Upstreams) : k \in 1..(i - 1) \/ k = i
    BY <1>1, <1>u, <2>1
  <2>4. \A k \in 1..(i - 1) : k \in 1..Len(Upstreams)
    BY <1>1, <1>u
  <2>5. Passed' = Passed \cup {This}
    BY <1>1, <1>3, <1>u, <2>2, <2>3, <2>4
  <2> QED
    BY <1>1, <1>2, <1>4, <1>6, <1>u, <2>5
<1> QED
  BY <1>5, <1>6

\* Before the sort the tiers are empty, so only the lists matter.
LEMMA ClassifyStep ==
    ASSUME PlanInv, at \in {"idle", "mark", "scan"}, at' \in {"mark", "scan", "sort"},
           UNCHANGED <<shared, rr, active, tiers, moved, sorting>>,
           TypeOK', Bounds', Classified', NonePassed',
           ToSet(healthy) \subseteq ToSet(healthy'),
           moved = {} => /\ InOrder(healthy')
                         /\ \A u \in ToSet(healthy') : \E e \in PathsOf(u) : up[e]
    PROVE  PlanInv'
<1>1. /\ FirstTier /\ SecondTier /\ LastTier /\ Quiet
      /\ plan = <<>> /\ Len(<<>>) = 0 /\ DOMAIN <<>> = {}
  BY DEF PlanInv, FirstTier, Classifying
<1>2. /\ up' = up /\ moved' = moved /\ plan' = plan /\ secondary' = secondary
      /\ lastResort' = lastResort
  BY DEF shared, tiers
<1>3. \A e : StaysUp(e)' = StaysUp(e) /\ StaysDown(e)' = StaysDown(e)
  BY <1>2 DEF StaysUp, StaysDown, PathStable
<1>4. Classifying' /\ Heads' = 0 /\ (\A m, k : ~Checked(m, k)' /\ ~Looked(m, k)')
  BY DEF Classifying, Heads, Checked, Looked
<1>5. FirstTier'
  BY <1>1, <1>2, <1>4 DEF FirstTier
<1>6. SecondTier'
  BY <1>1, <1>2, <1>3 DEF SecondTier, Preferred, Owner
<1>7. LastTier'
  BY <1>1, <1>2, <1>3, <1>4 DEF LastTier, Owner
<1>8. Quiet'
  <2> SUFFICES ASSUME moved = {} PROVE Quiet'
    BY <1>2 DEF Quiet
  <2>1. \A u, e : IsActive(u, e)' = IsActive(u, e)
    BY <1>2, SameLoads
  <2>2. \A e \in secondary : ~IsActive(Owner(e), e)
    BY <1>1 DEF Quiet
  <2>3. InOrder(healthy)'
    BY DEF InOrder, Rank, Position
  <2>4. \A e \in secondary' : ~IsActive(Owner(e), e)'
    BY <1>2, <2>1, <2>2 DEF Owner
  <2> QED
    BY <1>1, <1>2, <1>4, <2>3, <2>4 DEF Quiet
<1> QED
  BY <1>5, <1>6, <1>7, <1>8 DEF PlanInv


\* Plan begins.
LEMMA StartInv ==
    ASSUME PlanInv, Start
    PROVE  PlanInv'
<1>1. at = "idle" /\ at' = "mark"
      /\ UNCHANGED <<shared, rr, i, j, lists, active, tiers, moved, sorting>>
  BY DEF Start
<1>2. TypeOK /\ Bounds /\ Classified /\ Quiet
  BY <1>1 DEF PlanInv
<1>u. /\ up' = up /\ drained' = drained /\ latency' = latency /\ strategy' = strategy
      /\ healthy' = healthy /\ down' = down /\ aside' = aside /\ plan' = plan
      /\ secondary' = secondary /\ lastResort' = lastResort /\ moved' = moved
      /\ i' = i /\ j' = j /\ active' = active /\ sorting' = sorting /\ rr' = rr
  BY <1>1 DEF shared, lists, tiers
<1>3. TypeOK'
  BY <1>1, <1>2, <1>u DEF TypeOK
<1>4. Bounds'
  BY <1>1, <1>2, <1>u DEF Bounds, Scanning, Walking
<1>5. i = 1 /\ i' - 1 = 0
  BY <1>1, <1>2, <1>u DEF Bounds
<1>6. Passed = {} /\ Passed' = {}
  BY <1>1, <1>5 DEF Passed
<1>7. Classified'
  BY <1>1, <1>2, <1>6, <1>u DEF Classified, MarkStable, StaysUp, PathStable
<1>8. NonePassed'
  BY <1>1 DEF NonePassed, Scanning
<1>9. moved = {} => /\ InOrder(healthy')
                    /\ \A u \in ToSet(healthy') : \E e \in PathsOf(u) : up[e]
  BY <1>1, <1>2, <1>u DEF Quiet, Classifying
<1> QED
  BY <1>1, <1>3, <1>4, <1>7, <1>8, <1>9, <1>u, ClassifyStep

\* The switch's first case.
LEMMA MarkInv ==
    ASSUME PlanInv, Mark
    PROVE  PlanInv'
<1>1. at = "mark" /\ UNCHANGED <<shared, rr, healthy, down, active, tiers, moved, sorting>>
  BY DEF Mark
<1>2. TypeOK /\ Bounds /\ Classified /\ Quiet
  BY <1>1 DEF PlanInv
<1>u. /\ up' = up /\ drained' = drained /\ latency' = latency /\ strategy' = strategy
      /\ healthy' = healthy /\ down' = down /\ plan' = plan
      /\ secondary' = secondary /\ lastResort' = lastResort /\ moved' = moved
      /\ active' = active /\ sorting' = sorting /\ rr' = rr
  BY <1>1 DEF shared, tiers
<1>t. This = Upstreams[i] /\ This \in Names /\ i \in 1..Len(Upstreams)
  BY <1>1, <1>2, ThisFacts DEF TypeOK
<1>b. /\ j = 1 /\ Len(healthy) < i /\ Len(healthy) <= Len(Upstreams) /\ ~sorting
      /\ Len(healthy) \in Nat /\ Len(Upstreams) \in Nat
  BY <1>1, <1>2, ElementFacts, UpstreamFacts DEF Bounds, Scanning, TypeOK
<1>q. moved = {} => /\ InOrder(healthy')
                    /\ \A u \in ToSet(healthy') : \E e \in PathsOf(u) : up[e]
  BY <1>1, <1>2, <1>u DEF Quiet, Classifying
<1>m. /\ \A u : MarkStable(u)' = MarkStable(u)
      /\ \A e : StaysUp(e)' = StaysUp(e)
  BY <1>u DEF MarkStable, StaysUp, PathStable
<1>3. CASE drained[This]
  <2>1. aside' = Append(aside, This) /\ Proceed
    BY <1>3 DEF Mark
  <2>2. /\ Passed' = Passed \cup {This} /\ This \notin Passed
        /\ i' \in 1..Len(Upstreams) /\ j' = 1
        /\ at' \in {"mark", "sort"}
        /\ at' = "mark" => i' = i + 1
        /\ at' = "sort" => i' = 1
    BY <1>1, <1>2, <2>1, PassedStep
  <2>3. aside' \in Seq(Names) /\ ToSet(aside') = ToSet(aside) \cup {This}
    BY <1>2, <1>t, <2>1, AppendFacts DEF TypeOK
  <2>4. TypeOK'
    BY <1>2, <1>u, <2>2, <2>3 DEF TypeOK
  <2>5. Bounds'
    BY <1>1, <1>b, <1>t, <1>u, <2>2 DEF Bounds, Scanning, Walking
  <2>6. Classified'
    BY <1>1, <1>2, <1>3, <1>m, <1>u, <2>2, <2>3 DEF Classified
  <2>7. NonePassed'
    BY <2>2 DEF NonePassed, Scanning
  <2> QED
    BY <1>1, <1>q, <1>u, <2>2, <2>4, <2>5, <2>6, <2>7, ClassifyStep
<1>4. CASE ~drained[This]
  <2>1. at' = "scan" /\ aside' = aside /\ i' = i /\ j' = j
    BY <1>4 DEF Mark
  <2>2. This' = This /\ Passed' = Passed
    BY <1>1, <2>1 DEF This, Listed, Passed
  <2>3. TypeOK'
    BY <1>2, <1>u, <2>1 DEF TypeOK
  <2>4. Len(Paths[This]) \in Nat \ {0}
    BY <1>t, PathFacts
  <2>5. Bounds'
    BY <1>b, <1>u, <2>1, <2>2, <2>4 DEF Bounds, Scanning, Walking
  <2>6. Classified'
    BY <1>1, <1>2, <1>4, <1>m, <1>u, <2>1, <2>2 DEF Classified
  <2>7. NonePassed'
    BY <1>b, <2>1 DEF NonePassed
  <2> QED
    BY <1>1, <1>q, <1>u, <2>1, <2>3, <2>5, <2>6, <2>7, ClassifyStep
<1> QED
  BY <1>3, <1>4

\* What a scan has just learned: the path it found is up; none that it passed was
\* up all along, and none is up when nothing has changed.
LEMMA ScanFacts ==
    ASSUME PlanInv, Scanning
    PROVE  LET e == Paths[This][j]
           IN  /\ This \in Names /\ j \in 1..Len(Paths[This])
               /\ e \in PathsOf(This) /\ e \in Endpoints /\ Owner(e) = This /\ e # None
               /\ StaysUp(Paths[This][1]) /\ up[e] => j = 1
               /\ ~up[e] /\ j = Len(Paths[This]) => \A d \in PathsOf(This) : ~StaysUp(d)
               /\ ~up[e] => \A k \in 1..j : ~StaysUp(Paths[This][k])
               /\ moved = {} /\ up[e] => IsActive(This, e)
<1> DEFINE e == Paths[This][j]
<1>1. at \in {"scan", "first", "active"} /\ TypeOK /\ Bounds /\ NonePassed
  BY DEF PlanInv, Scanning
<1>2. This \in Names /\ j \in 1..Len(Paths[This])
  BY <1>1, ThisFacts
<1>3. e \in PathsOf(This) /\ e \in Endpoints /\ Owner(e) = This /\ e # None
  BY <1>2, PathFacts, Placed
<1>4. \A k \in 1..(j - 1) : ~StaysUp(Paths[This][k])
  BY <1>1 DEF NonePassed
<1>5. /\ Len(Paths[This]) \in Nat \ {0}
      /\ DOMAIN Paths[This] = 1..Len(Paths[This])
      /\ \A d \in PathsOf(This) : \E k \in 1..Len(Paths[This]) : d = Paths[This][k]
  BY <1>2, PathFacts
<1>6. j # 1 => 1 \in 1..(j - 1)
  BY <1>2, <1>5
<1>7. ~up[e] => \A k \in 1..j : ~StaysUp(Paths[This][k])
  <2> SUFFICES ASSUME ~up[e], NEW k \in 1..j PROVE ~StaysUp(Paths[This][k])
    OBVIOUS
  <2>1. k \in 1..(j - 1) \/ k = j
    BY <1>2, <1>5
  <2> QED
    BY <1>4, <2>1 DEF StaysUp
<1>8. moved = {} /\ up[e] => IsActive(This, e)
  <2>1. moved = {} => \A d : PathStable(d)
    BY DEF PathStable
  <2>2. moved = {} => \A k \in 1..(j - 1) : ~up[Paths[This][k]]
    BY <1>4, <2>1 DEF StaysUp
  <2> QED
    BY <1>2, <1>5, <2>2 DEF IsActive
<1> HIDE DEF e
<1>9. ~up[e] /\ j = Len(Paths[This]) => \A d \in PathsOf(This) : ~StaysUp(d)
  BY <1>5, <1>7
<1>10. StaysUp(Paths[This][1]) /\ up[e] => j = 1
  BY <1>4, <1>6
<1> QED
  BY <1>2, <1>3, <1>7, <1>8, <1>9, <1>10 DEF e

\* Upstreams join the list of healthy ones in configuration order.
LEMMA InOrderAppend ==
    ASSUME TypeOK, at \in {"mark", "scan"}, ToSet(healthy) \subseteq Passed, InOrder(healthy)
    PROVE  InOrder(Append(healthy, Upstreams[i]))
<1> DEFINE t == Append(healthy, Upstreams[i])
<1>1. i \in 1..Len(Upstreams) /\ healthy \in Seq(Names) /\ Len(Upstreams) \in Nat
  BY UpstreamFacts DEF TypeOK
<1>2. Upstreams[i] \in Names
  BY <1>1, UpstreamFacts
<1>3. /\ DOMAIN t = 1..(Len(healthy) + 1) /\ Len(healthy) \in Nat
      /\ DOMAIN healthy = 1..Len(healthy)
      /\ \A k \in 1..Len(healthy) : t[k] = healthy[k]
      /\ t[Len(healthy) + 1] = Upstreams[i]
  BY <1>1, <1>2, AppendFacts, ElementFacts
<1> HIDE DEF t
<1>4. Rank(Upstreams[i]) = i
  BY <1>1, RankFacts DEF Rank
<1>5. ASSUME NEW k \in 1..Len(healthy) PROVE Rank(healthy[k]) < i
  <2>1. healthy[k] \in Passed
    BY <1>1, ElementFacts
  <2>2. PICK m \in 1..(i - 1) : healthy[k] = Upstreams[m]
    BY <2>1 DEF Passed
  <2>3. m \in 1..Len(Upstreams) /\ m < i
    BY <1>1
  <2> QED
    BY <2>2, <2>3, RankFacts DEF Rank
<1>6. ASSUME NEW k \in DOMAIN t, NEW l \in DOMAIN t, k < l
      PROVE  Rank(t[k]) < Rank(t[l])
  <2>1. k \in 1..Len(healthy) /\ (l \in 1..Len(healthy) \/ l = Len(healthy) + 1)
    BY <1>3, <1>6
  <2> QED
    BY <1>3, <1>4, <1>5, <1>6, <2>1 DEF InOrder
<1>7. InOrder(t)
  BY <1>6 DEF InOrder
<1> QED
  BY <1>7 DEF t

\* Healthy looks at one path, for the switch of the first loop.
LEMMA SwitchInv ==
    ASSUME PlanInv, at = "scan", Scan
    PROVE  PlanInv'
<1> DEFINE e == Paths[This][j]
<1>1. UNCHANGED <<shared, rr, aside, secondary, lastResort, moved, sorting>>
  BY DEF Scan
<1>2. TypeOK /\ Bounds /\ Classified /\ NonePassed /\ Quiet
  BY DEF PlanInv
<1>t. This = Upstreams[i] /\ This \in Names /\ i \in 1..Len(Upstreams)
  BY <1>2, ThisFacts DEF TypeOK
<1>e. /\ j \in 1..Len(Paths[This])
      /\ e \in PathsOf(This) /\ e # None
      /\ ~up[e] /\ j = Len(Paths[This]) => \A d \in PathsOf(This) : ~StaysUp(d)
      /\ ~up[e] => \A k \in 1..j : ~StaysUp(Paths[This][k])
  BY ScanFacts DEF Scanning
<1>b. /\ Len(healthy) < i /\ Len(healthy) <= Len(Upstreams) /\ ~sorting
      /\ Len(healthy) \in Nat /\ Len(Upstreams) \in Nat
  BY <1>2, ElementFacts, UpstreamFacts DEF Bounds, Scanning, TypeOK
<1>q. moved = {} => /\ InOrder(healthy)
                    /\ \A u \in ToSet(healthy) : \E d \in PathsOf(u) : up[d]
  BY <1>2 DEF Quiet, Classifying
<1>m. /\ \A u : MarkStable(u)' = MarkStable(u)
      /\ \A d : StaysUp(d)' = StaysUp(d)
      /\ up' = up /\ drained' = drained /\ moved' = moved /\ sorting' = sorting
      /\ aside' = aside
  BY <1>1 DEF MarkStable, StaysUp, PathStable, shared
<1>s. ASSUME Proceed
      PROVE  /\ Passed' = Passed \cup {This} /\ This \notin Passed
             /\ i' \in 1..Len(Upstreams) /\ j' = 1
             /\ at' \in {"mark", "sort"}
             /\ at' = "mark" => i' = i + 1
             /\ at' = "sort" => i' = 1
  BY <1>2, <1>s, PassedStep
<1>3. CASE up[e] /\ Scanned(e)
  <2>1. /\ healthy' = Append(healthy, This) /\ down' = down /\ Proceed
        /\ active' = active /\ plan' = plan
    BY <1>3, <1>e DEF Scanned, Found
  <2>2. /\ Passed' = Passed \cup {This} /\ This \notin Passed
        /\ i' \in 1..Len(Upstreams) /\ j' = 1
        /\ at' \in {"mark", "sort"}
        /\ at' = "mark" => i' = i + 1
        /\ at' = "sort" => i' = 1
    BY <2>1, <1>s
  <2>c. ToSet(healthy) \subseteq Passed
    BY <1>2 DEF Classified
  <2>3. /\ healthy' \in Seq(Names) /\ ToSet(healthy') = ToSet(healthy) \cup {This}
        /\ Len(healthy') = Len(healthy) + 1 /\ IsInjective(healthy')
    BY <1>2, <1>t, <2>1, <2>2, <2>c, AppendFacts DEF TypeOK, Classified
  <2>4. TypeOK'
    BY <1>1, <1>2, <2>1, <2>2, <2>3 DEF TypeOK, shared
  <2>5. Bounds'
    BY <1>b, <1>t, <1>m, <2>2, <2>3 DEF Bounds, Scanning, Walking
  <2>6. Classified'
    BY <1>2, <1>m, <2>1, <2>2, <2>3 DEF Classified
  <2>7. NonePassed'
    BY <2>2 DEF NonePassed, Scanning
  <2>8. moved = {} => InOrder(healthy')
    BY <1>2, <1>q, <1>t, <2>1, <2>c, InOrderAppend
  <2>9. moved = {} => \A u \in ToSet(healthy') : \E d \in PathsOf(u) : up[d]
    BY <1>3, <1>e, <1>q, <2>3
  <2> QED
    BY <1>1, <2>1, <2>2, <2>3, <2>4, <2>5, <2>6, <2>7, <2>8, <2>9, ClassifyStep
    DEF tiers
<1>4. CASE ~up[e] /\ j = Len(Paths[This]) /\ Scanned(None)
  <2>1. /\ healthy' = healthy /\ down' = Append(down, This) /\ Proceed
        /\ active' = active /\ plan' = plan
    BY <1>4 DEF Scanned, Found
  <2>2. /\ Passed' = Passed \cup {This} /\ This \notin Passed
        /\ i' \in 1..Len(Upstreams) /\ j' = 1
        /\ at' \in {"mark", "sort"}
        /\ at' = "mark" => i' = i + 1
        /\ at' = "sort" => i' = 1
    BY <2>1, <1>s
  <2>3. down' \in Seq(Names) /\ ToSet(down') = ToSet(down) \cup {This}
    BY <1>2, <1>t, <2>1, AppendFacts DEF TypeOK
  <2>4. TypeOK'
    BY <1>1, <1>2, <2>1, <2>2, <2>3 DEF TypeOK, shared
  <2>5. Bounds'
    BY <1>b, <1>t, <1>m, <2>1, <2>2 DEF Bounds, Scanning, Walking
  <2>6. Classified'
    BY <1>2, <1>4, <1>e, <1>m, <2>1, <2>2, <2>3 DEF Classified
  <2>7. NonePassed'
    BY <2>2 DEF NonePassed, Scanning
  <2> QED
    BY <1>1, <1>q, <2>1, <2>2, <2>4, <2>5, <2>6, <2>7, ClassifyStep
    DEF tiers
<1>5. CASE ~up[e] /\ j < Len(Paths[This]) /\ j' = j + 1
           /\ UNCHANGED <<at, i, healthy, down, active, plan>>
  <2>1. This' = This /\ Passed' = Passed
    BY <1>5 DEF This, Listed, Passed
  <2>2. TypeOK'
    BY <1>1, <1>2, <1>5 DEF TypeOK, shared
  <2>p. Len(Paths[This]) \in Nat
    BY <1>t, PathFacts
  <2>3. Bounds'
    BY <1>b, <1>5, <1>e, <1>m, <2>1, <2>p DEF Bounds, Scanning, Walking
  <2>4. Classified'
    BY <1>2, <1>5, <1>m, <2>1 DEF Classified
  <2>5. j' - 1 = j
    BY <1>5, <1>e, <2>p
  <2>6. NonePassed'
    BY <1>5, <1>e, <1>m, <2>1, <2>5 DEF NonePassed
  <2> QED
    BY <1>1, <1>5, <1>q, <2>2, <2>3, <2>4, <2>6, ClassifyStep DEF tiers
<1> QED
  BY <1>3, <1>4, <1>5 DEF Scan

\* orderLocked.
LEMMA OrderInv ==
    ASSUME PlanInv, Order
    PROVE  PlanInv'
<1>1. /\ at = "sort" /\ healthy' \in Orders(healthy) /\ sorting' = FALSE
      /\ at' = IF healthy = <<>> THEN "finish" ELSE "first"
      /\ UNCHANGED <<shared, i, j, down, aside, active, tiers, moved>>
  BY DEF Order
<1>2. TypeOK /\ Bounds /\ Classified /\ FirstTier /\ SecondTier /\ LastTier /\ Quiet
  BY <1>1 DEF PlanInv
<1>u. /\ up' = up /\ drained' = drained /\ latency' = latency /\ strategy' = strategy
      /\ down' = down /\ aside' = aside /\ plan' = plan
      /\ secondary' = secondary /\ lastResort' = lastResort /\ moved' = moved
      /\ i' = i /\ j' = j /\ active' = active
  BY <1>1 DEF shared, tiers
<1>3. /\ healthy' \in Seq(Names) /\ Len(healthy') = Len(healthy)
      /\ ToSet(healthy') = ToSet(healthy) /\ IsInjective(healthy')
      /\ ~sorting /\ InOrder(healthy) => ByStrategy(healthy')
  BY <1>1, <1>2, OrdersFacts DEF Classified
<1>h. /\ Len(healthy) \in Nat /\ healthy = <<>> <=> Len(healthy) = 0
      /\ DOMAIN healthy' = 1..Len(healthy)
      /\ \A m \in 1..Len(healthy) : healthy'[m] \in Names
  BY <1>2, <1>3, ElementFacts DEF TypeOK
<1>b. i = 1 /\ j = 1 /\ Len(healthy) <= Len(Upstreams) /\ Len(Upstreams) \in Nat
  BY <1>1, <1>2, UpstreamFacts DEF Bounds, Scanning
<1>4. TypeOK'
  <2>1. rr' \in 0..(TicketPeriod - 1)
    BY <1>2, PeriodAssumption DEF Order, TypeOK
  <2> QED
    BY <1>1, <1>2, <1>3, <1>u, <2>1 DEF TypeOK
<1>5. Bounds'
  <2>1. at' = "first" => This' = healthy'[1] /\ 1 \in 1..Len(healthy)
    BY <1>1, <1>b, <1>h, <1>u DEF This, Listed
  <2>2. at' = "first" => Len(Paths[This']) \in Nat \ {0}
    BY <2>1, <1>h, PathFacts
  <2> QED
    BY <1>1, <1>3, <1>b, <1>h, <1>u, <2>1, <2>2 DEF Bounds, Scanning, Walking
<1>m. /\ \A u : MarkStable(u)' = MarkStable(u)
      /\ \A d : StaysUp(d)' = StaysUp(d) /\ StaysDown(d)' = StaysDown(d)
      /\ \A u, d : IsActive(u, d)' = IsActive(u, d)
      /\ \A u : EffectiveLatency(u)' = EffectiveLatency(u)
  BY <1>u, SameLoads DEF MarkStable, StaysUp, StaysDown, PathStable
<1>6. Classified'
  <2>1. Passed' = Names /\ Passed = Names
    BY <1>1 DEF Passed
  <2> QED
    BY <1>1, <1>2, <1>3, <1>m, <1>u, <2>1 DEF Classified
<1>7. NonePassed'
  BY <1>b, <1>u DEF NonePassed
<1>8. plan = <<>> /\ DOMAIN plan = {} /\ Len(plan) = 0
  BY <1>1, <1>2 DEF FirstTier, Classifying
<1>9. Heads' = 0 /\ ~Classifying'
  BY <1>1, <1>3, <1>b, <1>h, <1>u DEF Heads, Classifying
<1>10. FirstTier'
  BY <1>8, <1>9, <1>u DEF FirstTier
<1>11. SecondTier'
  BY <1>1, <1>2, <1>3, <1>m, <1>u DEF SecondTier, Preferred, Owner
<1>n. ASSUME NEW m \in DOMAIN healthy', NEW k PROVE ~Checked(m, k)' /\ ~Looked(m, k)'
  BY <1>1, <1>h, <1>n DEF Checked, Looked
<1>12. LastTier'
  BY <1>2, <1>3, <1>m, <1>n, <1>u DEF LastTier, Owner
<1>13. Quiet'
  <2> SUFFICES ASSUME moved = {} PROVE Quiet'
    BY <1>u DEF Quiet
  <2>1. ~sorting /\ InOrder(healthy)
    BY <1>1, <1>2 DEF Bounds, Quiet, Classifying
  <2>2. ByStrategy(healthy')
    BY <1>3, <2>1
  <2>3. ByStrategy(healthy)'
    BY <1>m, <1>u, <2>2 DEF ByStrategy, InOrder, Rank, Position
  <2>4. \A e \in secondary' : ~IsActive(Owner(e), e)'
    BY <1>2, <1>m, <1>u DEF Quiet, Owner
  <2>5. \A u \in ToSet(healthy') : \E e \in PathsOf(u) : up'[e]
    BY <1>2, <1>3, <1>u DEF Quiet
  <2>6. at' # "second"
    BY <1>1
  <2> QED
    BY <1>8, <1>9, <1>n, <1>u, <2>3, <2>4, <2>5, <2>6 DEF Quiet
<1> QED
  BY <1>4, <1>5, <1>6, <1>7, <1>10, <1>11, <1>12, <1>13 DEF PlanInv

-----------------------------------------------------------------------------
(***************************************************************************)
(* The loops over the healthy upstreams.                                   *)
(***************************************************************************)

\* These loops change no list of upstreams.
LEMMA WalkFrame ==
    ASSUME PlanInv, Walking, Walking' \/ at' = "finish",
           UNCHANGED <<shared, lists, moved, sorting>>
    PROVE  /\ TypeOK /\ Bounds /\ NonePassed /\ FirstTier /\ SecondTier /\ LastTier /\ Quiet
           /\ up' = up /\ healthy' = healthy /\ moved' = moved
           /\ Classified' /\ ~Classifying' /\ ~sorting'
           /\ \A e : /\ StaysUp(e)' = StaysUp(e) /\ StaysDown(e)' = StaysDown(e)
                     /\ Owner(e)' = Owner(e) /\ Preferred(e)' = Preferred(e)
           /\ \A u, e : IsActive(u, e)' = IsActive(u, e)
           /\ moved = {} => /\ ByStrategy(healthy)'
                            /\ \A u \in ToSet(healthy) : \E e \in PathsOf(u) : up[e]
           /\ healthy \in Seq(Names) /\ Len(healthy) \in Nat
           /\ DOMAIN healthy = 1..Len(healthy)
           /\ \A m \in 1..Len(healthy) : healthy[m] \in Names /\ healthy[m] \in ToSet(healthy)
           /\ \A m, n \in 1..Len(healthy) : healthy[m] = healthy[n] => m = n
           /\ plan \in Seq(Endpoints) /\ Len(plan) \in Nat /\ DOMAIN plan = 1..Len(plan)
<1>1. /\ TypeOK /\ Bounds /\ Classified /\ NonePassed /\ FirstTier /\ SecondTier /\ LastTier
      /\ Quiet
  BY DEF PlanInv, Walking
<1>2. /\ up' = up /\ drained' = drained /\ latency' = latency /\ strategy' = strategy
      /\ healthy' = healthy /\ down' = down /\ aside' = aside /\ moved' = moved
      /\ sorting' = sorting
  BY DEF shared, lists
<1>3. \A e : StaysUp(e)' = StaysUp(e) /\ StaysDown(e)' = StaysDown(e)
  BY <1>2 DEF StaysUp, StaysDown, PathStable
<1>4. ~Classifying /\ ~Classifying' /\ ~sorting /\ Passed = Names /\ Passed' = Names
  BY <1>1 DEF Classifying, Walking, Bounds, Passed
<1>5. Classified'
  BY <1>1, <1>2, <1>3, <1>4 DEF Classified, MarkStable, Walking
<1>6. /\ \A u, e : IsActive(u, e)' = IsActive(u, e)
      /\ \A u : EffectiveLatency(u)' = EffectiveLatency(u)
  BY <1>2, SameLoads
<1>7. ByStrategy(healthy) => ByStrategy(healthy)'
  <2> SUFFICES ASSUME ByStrategy(healthy) PROVE ByStrategy(healthy)'
    OBVIOUS
  <2>1. \A u : Rank(u)' = Rank(u)
    BY DEF Rank, Position
  <2>2. strategy = "failover" => InOrder(healthy)'
    BY <1>2, <2>1 DEF ByStrategy, InOrder
  <2>3. strategy = "least-latency" =>
           \A k, l \in DOMAIN healthy :
              k < l => EffectiveLatency(healthy[k])' <= EffectiveLatency(healthy[l])'
    BY <1>2, <1>6 DEF ByStrategy
  <2>4. ASSUME strategy = "round-robin"
        PROVE  \E last \in 0..Len(healthy) : \A k, l \in DOMAIN healthy :
                  k < l => IF k <= last /\ last < l
                           THEN Rank(healthy[l])' < Rank(healthy[k])'
                           ELSE Rank(healthy[k])' < Rank(healthy[l])'
    BY <1>2, <2>1, <2>4 DEF ByStrategy
  <2> QED
    BY <1>2, <2>2, <2>3, <2>4 DEF ByStrategy
<1>8. moved = {} => /\ ByStrategy(healthy)
                    /\ \A u \in ToSet(healthy) : \E e \in PathsOf(u) : up[e]
  BY <1>1, <1>4 DEF Quiet
<1>9. /\ healthy \in Seq(Names) /\ Len(healthy) \in Nat
      /\ DOMAIN healthy = 1..Len(healthy)
      /\ \A m \in 1..Len(healthy) : healthy[m] \in Names /\ healthy[m] \in ToSet(healthy)
      /\ \A m, n \in 1..Len(healthy) : healthy[m] = healthy[n] => m = n
  BY <1>1, ElementFacts DEF TypeOK, Classified
<1>10. plan \in Seq(Endpoints) /\ Len(plan) \in Nat /\ DOMAIN plan = 1..Len(plan)
  BY <1>1, ElementFacts DEF TypeOK
<1>11. \A e : Owner(e)' = Owner(e) /\ Preferred(e)' = Preferred(e)
  BY DEF Owner, Preferred
<1> QED
  BY <1>1, <1>2, <1>3, <1>4, <1>5, <1>6, <1>7, <1>8, <1>9, <1>10, <1>11

\* On to the next of the healthy upstreams, or to the next loop.
LEMMA WalkProceed ==
    ASSUME PlanInv, at \in {"first", "second", "third"}, Proceed,
           UNCHANGED <<shared, lists, moved, sorting>>
    PROVE  /\ Walking' \/ at' = "finish"
           /\ i' \in 1..Len(Upstreams) /\ j' = 1
           /\ \/ i < Len(healthy) /\ i' = i + 1 /\ at' = Again[at]
              \/ i = Len(healthy) /\ i' = 1 /\ at' = After[at]
           /\ Bounds' /\ NonePassed'
<1>1. TypeOK /\ Bounds /\ Walking
  BY DEF PlanInv, Walking
<1>2. Listed = healthy /\ i \in 1..Len(healthy)
  BY <1>1, ThisFacts
<1>3. /\ healthy' = healthy /\ moved' = moved /\ sorting' = sorting /\ ~sorting
  BY <1>1 DEF shared, lists, Bounds
<1>4. Len(healthy) \in Nat /\ Len(Upstreams) \in Nat /\ Len(healthy) <= Len(Upstreams)
  BY <1>1, ElementFacts, UpstreamFacts DEF TypeOK, Bounds
<1>5. /\ \/ i < Len(healthy) /\ i' = i + 1 /\ at' = Again[at]
         \/ i = Len(healthy) /\ i' = 1 /\ at' = After[at]
      /\ j' = 1
  BY <1>2, <1>4 DEF Proceed
<1>6. at' \in {"first", "active", "third", "finish"}
  BY <1>5 DEF Again, After
<1>7. i' \in 1..Len(healthy)
  BY <1>2, <1>4, <1>5
<1>8. at' # "finish" => Len(Paths[This']) \in Nat \ {0}
  <2>1. at' # "finish" => This' = healthy[i']
    BY <1>3, <1>6 DEF This, Listed
  <2>2. healthy[i'] \in Names
    BY <1>1, <1>7, ElementFacts DEF TypeOK
  <2> QED
    BY <2>1, <2>2, PathFacts
<1>9. Bounds'
  BY <1>3, <1>4, <1>5, <1>6, <1>7, <1>8 DEF Bounds, Scanning, Walking
<1>10. NonePassed'
  BY <1>5 DEF NonePassed
<1> QED
  BY <1>4, <1>5, <1>6, <1>7, <1>9, <1>10 DEF Walking

\* On to the next path of the same upstream.
LEMMA NextPath ==
    ASSUME PlanInv, Walking, j < Len(Paths[This]), j' = j + 1, i' = i, at' = at,
           UNCHANGED <<shared, lists, moved, sorting>>
    PROVE  Bounds' /\ This' = This /\ j' - 1 = j /\ j' \in Nat \ {0}
<1>1. TypeOK /\ Bounds
  BY DEF PlanInv
<1>2. /\ healthy' = healthy /\ moved' = moved /\ sorting' = sorting
  BY DEF shared, lists
<1>3. This' = This
  BY <1>2 DEF This, Listed
<1>4. This \in Names /\ j \in 1..Len(Paths[This])
  BY <1>1, ThisFacts DEF Walking
<1>5. Len(Paths[This]) \in Nat
  BY <1>4, PathFacts
<1>6. j' <= Len(Paths[This]) /\ j' - 1 = j /\ j' \in Nat \ {0}
  BY <1>4, <1>5
<1> QED
  BY <1>1, <1>2, <1>3, <1>6 DEF Bounds, Scanning, Walking

\* Active looks at one path, for the first tier.
LEMMA FirstInv ==
    ASSUME PlanInv, at = "first", Scan
    PROVE  PlanInv'
<1> DEFINE e == Paths[This][j]
<1>1. UNCHANGED <<shared, rr, aside, secondary, lastResort, moved, sorting>>
  BY DEF Scan
<1>2. TypeOK /\ Bounds /\ Walking /\ Scanning /\ Heads = i - 1
  BY DEF PlanInv, Walking, Scanning, Heads, Classifying
<1>t. This = healthy[i] /\ This \in Names /\ i \in 1..Len(healthy) /\ j \in 1..Len(Paths[This])
  BY <1>2, ThisFacts
<1>e. /\ e \in PathsOf(This) /\ e \in Endpoints /\ Owner(e) = This /\ e # None
      /\ StaysUp(Paths[This][1]) /\ up[e] => j = 1
      /\ ~up[e] /\ j = Len(Paths[This]) => \A d \in PathsOf(This) : ~StaysUp(d)
      /\ ~up[e] => \A k \in 1..j : ~StaysUp(Paths[This][k])
      /\ moved = {} /\ up[e] => IsActive(This, e)
  BY <1>2, ScanFacts
<1>p. Paths[This][1] \in PathsOf(This)
  BY <1>t, PathFacts
<1>s. ASSUME Proceed, healthy' = healthy, down' = down
      PROVE  /\ Walking' \/ at' = "finish"
             /\ i' \in 1..Len(Upstreams) /\ j' = 1
             /\ at' \in {"first", "active"} /\ (at' = "active" => i' = 1) /\ Heads' = i
             /\ Bounds' /\ NonePassed'
  <2>1. UNCHANGED <<shared, lists, moved, sorting>>
    BY <1>1, <1>s DEF lists
  <2>2. /\ Walking' \/ at' = "finish"
        /\ i' \in 1..Len(Upstreams) /\ j' = 1
        /\ \/ i < Len(healthy) /\ i' = i + 1 /\ at' = Again[at]
           \/ i = Len(healthy) /\ i' = 1 /\ at' = After[at]
        /\ Bounds' /\ NonePassed'
    BY <1>s, <2>1, WalkProceed
  <2>3. \/ i' = i + 1 /\ at' = "first"
        \/ i = Len(healthy) /\ i' = 1 /\ at' = "active"
    BY <2>2 DEF Again, After
  <2>4. i \in Nat
    BY <1>2, UpstreamFacts DEF TypeOK
  <2>5. Heads' = i
    BY <1>s, <2>3, <2>4 DEF Heads, Classifying
  <2> QED
    BY <2>2, <2>3, <2>5
<1>f. ASSUME healthy' = healthy, down' = down, at' \in {"first", "active"},
             at' = "active" => i' = 1
      PROVE  /\ SecondTier' /\ LastTier'
             /\ \A m \in DOMAIN healthy : \A k : ~Looked(m, k)'
             /\ \A d \in secondary' : ~(moved = {} /\ IsActive(Owner(d), d))'
  <2>1. UNCHANGED <<shared, lists, moved, sorting>> /\ Walking'
    BY <1>1, <1>f DEF lists, Walking
  <2>2. /\ SecondTier /\ LastTier /\ Quiet /\ DOMAIN healthy = 1..Len(healthy)
        /\ \A d : /\ StaysUp(d)' = StaysUp(d) /\ StaysDown(d)' = StaysDown(d)
                  /\ Owner(d)' = Owner(d) /\ Preferred(d)' = Preferred(d)
        /\ \A u, d : IsActive(u, d)' = IsActive(u, d)
    BY <1>2, <2>1, WalkFrame
  <2>3. \A m \in DOMAIN healthy : \A k : ~Looked(m, k)'
    BY <1>f, <2>2 DEF Looked
  <2>4. \A m, k : ~Checked(m, k)'
    BY <1>f DEF Checked
  <2>5. SecondTier'
    BY <1>1, <1>f, <2>2 DEF SecondTier
  <2>6. LastTier'
    BY <1>1, <1>f, <2>2, <2>4 DEF LastTier
  <2> QED
    BY <1>1, <2>2, <2>3, <2>5, <2>6 DEF Quiet
<1>3. CASE up[e] /\ Scanned(e)
  <2>1. /\ plan' = Append(plan, e) /\ healthy' = healthy /\ down' = down /\ active' = active
        /\ Proceed
    BY <1>3, <1>e DEF Scanned, Found
  <2>2. /\ i' \in 1..Len(Upstreams) /\ j' = 1
        /\ at' \in {"first", "active"} /\ (at' = "active" => i' = 1) /\ Heads' = i
        /\ Bounds' /\ NonePassed'
    BY <1>s, <2>1
  <2>3. UNCHANGED <<shared, lists, moved, sorting>> /\ Walking'
    BY <1>1, <2>1, <2>2 DEF lists, Walking
  <2>4. /\ FirstTier /\ Quiet
        /\ Classified' /\ ~Classifying' /\ up' = up /\ moved' = moved
        /\ \A d : /\ StaysUp(d)' = StaysUp(d) /\ StaysDown(d)' = StaysDown(d)
                  /\ Owner(d)' = Owner(d)
        /\ \A u, d : IsActive(u, d)' = IsActive(u, d)
        /\ moved = {} => /\ ByStrategy(healthy)'
                         /\ \A u \in ToSet(healthy) : \E d \in PathsOf(u) : up[d]
        /\ Len(healthy) \in Nat
        /\ \A m, n \in 1..Len(healthy) : healthy[m] = healthy[n] => m = n
        /\ plan \in Seq(Endpoints) /\ Len(plan) \in Nat /\ DOMAIN plan = 1..Len(plan)
    BY <1>2, <2>3, WalkFrame
  <2>5. /\ plan' \in Seq(Endpoints) /\ Len(plan') = Len(plan) + 1
        /\ DOMAIN plan' = 1..(Len(plan) + 1)
        /\ \A k \in 1..Len(plan) : plan'[k] = plan[k]
        /\ plan'[Len(plan) + 1] = e /\ ToSet(plan') = ToSet(plan) \cup {e}
    BY <1>e, <2>1, <2>4, AppendFacts
  <2>6. TypeOK'
    BY <1>1, <1>2, <2>1, <2>2, <2>5 DEF TypeOK, shared
  <2>7. \A k \in DOMAIN plan' : k \in 1..Len(plan) \/ k = Len(plan) + 1
    BY <2>4, <2>5
  <2>8. \A m \in 1..i : m \in 1..Heads \/ m = i
    BY <1>2, <1>t, <2>4
  <2>h. i \in 1..i /\ \A m \in 1..Heads : m \in 1..i /\ m \in 1..Len(healthy) /\ m # i
    BY <1>2, <1>t, <2>4
  <2> HIDE DEF e
  <2>9. FirstTier'
    <3>1. ASSUME NEW k \in DOMAIN plan'
          PROVE  (\E m \in 1..i : Owner(plan'[k]) = healthy[m]) /\ ~StaysDown(plan'[k])
      <4>1. CASE k \in 1..Len(plan)
        BY <2>4, <2>5, <2>h, <4>1 DEF FirstTier
      <4>2. CASE k = Len(plan) + 1
        BY <1>3, <1>e, <1>t, <2>5, <2>h, <4>2 DEF StaysDown
      <4> QED
        BY <2>7, <4>1, <4>2
    <3>2. ASSUME NEW k \in 1..Len(plan) PROVE Owner(plan'[k]) # Owner(e)
      <4>1. PICK m \in 1..Heads : Owner(plan[k]) = healthy[m]
        BY <2>4 DEF FirstTier
      <4> QED
        BY <1>e, <1>t, <2>4, <2>5, <2>h, <4>1
    <3>3. ASSUME NEW k \in DOMAIN plan', NEW l \in DOMAIN plan',
                 Owner(plan'[k]) = Owner(plan'[l])
          PROVE  k = l
      BY <2>4, <2>5, <2>7, <3>2, <3>3 DEF FirstTier
    <3>4. ASSUME NEW m \in 1..i, StaysUp(Paths[healthy[m]][1])
          PROVE  Paths[healthy[m]][1] \in ToSet(plan')
      <4>1. CASE m \in 1..Heads
        BY <2>4, <2>5, <3>4, <4>1 DEF FirstTier
      <4>2. CASE m = i
        BY <1>3, <1>e, <1>t, <2>5, <3>4, <4>2 DEF e
      <4> QED
        BY <2>8, <4>1, <4>2
    <3> QED
      BY <2>1, <2>2, <2>4, <3>1, <3>3, <3>4 DEF FirstTier
  <2>10. Quiet'
    <3> SUFFICES ASSUME moved = {} PROVE Quiet'
      BY <2>4 DEF Quiet
    <3>1. Len(plan) = Heads
      BY <2>4 DEF Quiet
    <3>2. Len(plan') = i
      BY <1>2, <1>t, <2>4, <2>5, <3>1
    <3>3. ASSUME NEW m \in 1..i PROVE IsActive(healthy[m], plan'[m])
      <4>1. CASE m \in 1..Heads
        BY <2>4, <2>5, <3>1, <4>1 DEF Quiet
      <4>2. CASE m = i
        <5>1. m = Len(plan) + 1
          BY <1>2, <1>t, <2>4, <3>1, <4>2
        <5> QED
          BY <1>3, <1>e, <1>t, <2>5, <4>2, <5>1
      <4> QED
        BY <2>8, <4>1, <4>2
    <3>4. /\ \A m \in DOMAIN healthy : \A k : ~Looked(m, k)'
          /\ \A d \in secondary' : ~(moved = {} /\ IsActive(Owner(d), d))'
      BY <1>f, <2>1, <2>2
    <3> QED
      BY <2>1, <2>2, <2>4, <3>2, <3>3, <3>4 DEF Quiet
  <2> QED
    BY <1>f, <2>1, <2>2, <2>4, <2>6, <2>9, <2>10 DEF PlanInv
<1>x. ASSUME moved = {}, \A d \in PathsOf(This) : ~StaysUp(d) PROVE FALSE
  <2>1. This \in ToSet(healthy)
    BY <1>2, <1>t, ElementFacts DEF TypeOK
  <2>2. PICK d \in PathsOf(This) : up[d]
    BY <1>x, <2>1 DEF PlanInv, Quiet
  <2> QED
    BY <1>x, <2>2 DEF StaysUp, PathStable
<1>4. CASE ~up[e] /\ j = Len(Paths[This]) /\ Scanned(None)
  <2>1. /\ plan' = plan /\ healthy' = healthy /\ down' = down /\ active' = active /\ Proceed
    BY <1>4 DEF Scanned, Found
  <2>2. /\ i' \in 1..Len(Upstreams) /\ j' = 1
        /\ at' \in {"first", "active"} /\ (at' = "active" => i' = 1) /\ Heads' = i
        /\ Bounds' /\ NonePassed'
    BY <1>s, <2>1
  <2>3. UNCHANGED <<shared, lists, moved, sorting>> /\ Walking'
    BY <1>1, <2>1, <2>2 DEF lists, Walking
  <2>4. /\ FirstTier /\ Classified' /\ ~Classifying' /\ moved' = moved /\ Len(healthy) \in Nat
        /\ \A d : /\ StaysUp(d)' = StaysUp(d) /\ StaysDown(d)' = StaysDown(d)
                  /\ Owner(d)' = Owner(d)
    BY <1>2, <2>3, WalkFrame
  <2>5. TypeOK'
    BY <1>1, <1>2, <2>1, <2>2 DEF TypeOK, shared
  <2>6. /\ \A m \in 1..i : m \in 1..Heads \/ m = i
        /\ \A m \in 1..Heads : m \in 1..i
    BY <1>2, <1>t, <2>4
  <2>7. ~StaysUp(Paths[healthy[i]][1])
    BY <1>4, <1>e, <1>p, <1>t
  <2>8. FirstTier'
    BY <2>1, <2>2, <2>4, <2>6, <2>7 DEF FirstTier
  <2>9. Quiet'
    BY <1>4, <1>e, <1>x, <2>4 DEF Quiet
  <2> QED
    BY <1>f, <2>1, <2>2, <2>4, <2>5, <2>8, <2>9 DEF PlanInv
<1>5. CASE ~up[e] /\ j < Len(Paths[This]) /\ j' = j + 1
           /\ UNCHANGED <<at, i, healthy, down, active, plan>>
  <2>1. UNCHANGED <<shared, lists, moved, sorting>> /\ Walking'
    BY <1>1, <1>2, <1>5 DEF lists, Walking
  <2>2. Bounds' /\ This' = This /\ j' - 1 = j /\ j' \in Nat \ {0}
    BY <1>2, <1>5, <2>1, NextPath
  <2>3. /\ FirstTier /\ Quiet /\ Classified' /\ ~Classifying' /\ moved' = moved /\ up' = up
        /\ \A d : /\ StaysUp(d)' = StaysUp(d) /\ StaysDown(d)' = StaysDown(d)
                  /\ Owner(d)' = Owner(d)
        /\ \A u, d : IsActive(u, d)' = IsActive(u, d)
        /\ moved = {} => /\ ByStrategy(healthy)'
                         /\ \A u \in ToSet(healthy) : \E d \in PathsOf(u) : up[d]
    BY <1>2, <2>1, WalkFrame
  <2>4. TypeOK'
    BY <1>1, <1>2, <1>5, <2>2 DEF TypeOK, shared
  <2>5. NonePassed'
    BY <1>5, <1>e, <2>2, <2>3 DEF NonePassed
  <2>6. Heads' = Heads
    BY <1>5 DEF Heads, Classifying
  <2>7. FirstTier'
    BY <1>5, <2>3, <2>6 DEF FirstTier
  <2>8. /\ \A m \in DOMAIN healthy : \A k : ~Looked(m, k)'
        /\ \A d \in secondary' : ~(moved = {} /\ IsActive(Owner(d), d))'
    BY <1>5, <1>f
  <2>9. Quiet'
    BY <1>5, <2>3, <2>6, <2>8 DEF Quiet
  <2> QED
    BY <1>5, <1>f, <2>2, <2>3, <2>4, <2>5, <2>7, <2>9 DEF PlanInv
<1> QED
  BY <1>3, <1>4, <1>5 DEF Scan

\* Active looks at one path again, for the loop over the other paths.
LEMMA ActiveInv ==
    ASSUME PlanInv, at = "active", Scan
    PROVE  PlanInv'
<1> DEFINE e == Paths[This][j]
<1>1. UNCHANGED <<shared, rr, aside, secondary, lastResort, moved, sorting>>
  BY DEF Scan
<1>2. TypeOK /\ Bounds /\ Walking /\ Scanning
  BY DEF PlanInv, Walking, Scanning
<1>t. This = healthy[i] /\ This \in Names /\ i \in 1..Len(healthy) /\ j \in 1..Len(Paths[This])
  BY <1>2, ThisFacts
<1>e. /\ e \in PathsOf(This) /\ e \in Endpoints /\ e # None
      /\ StaysUp(Paths[This][1]) /\ up[e] => j = 1
      /\ ~up[e] /\ j = Len(Paths[This]) => \A d \in PathsOf(This) : ~StaysUp(d)
      /\ ~up[e] => \A k \in 1..j : ~StaysUp(Paths[This][k])
      /\ moved = {} /\ up[e] => IsActive(This, e)
  BY <1>2, ScanFacts
<1>p. Paths[This][1] \in PathsOf(This) /\ Len(Paths[This]) \in Nat \ {0}
  BY <1>t, PathFacts
<1>x. ASSUME moved = {}, \A d \in PathsOf(This) : ~StaysUp(d) PROVE FALSE
  <2>1. This \in ToSet(healthy)
    BY <1>2, <1>t, ElementFacts DEF TypeOK
  <2>2. PICK d \in PathsOf(This) : up[d]
    BY <1>x, <2>1 DEF PlanInv, Quiet
  <2> QED
    BY <1>x, <2>2 DEF StaysUp, PathStable
<1>3. CASE j' = j + 1 /\ ~up[e] /\ j < Len(Paths[This])
           /\ UNCHANGED <<at, i, healthy, down, active, plan>>
  <2>1. UNCHANGED <<shared, lists, moved, sorting>> /\ Walking'
    BY <1>1, <1>2, <1>3 DEF lists, Walking
  <2>2. Bounds' /\ This' = This /\ j' - 1 = j /\ j' \in Nat \ {0}
    BY <1>2, <1>3, <2>1, NextPath
  <2>3. /\ FirstTier /\ SecondTier /\ LastTier /\ Quiet /\ Classified' /\ ~Classifying'
        /\ moved' = moved /\ up' = up
        /\ \A d : /\ StaysUp(d)' = StaysUp(d) /\ StaysDown(d)' = StaysDown(d)
                  /\ Owner(d)' = Owner(d) /\ Preferred(d)' = Preferred(d)
        /\ \A u, d : IsActive(u, d)' = IsActive(u, d)
        /\ moved = {} => /\ ByStrategy(healthy)'
                         /\ \A u \in ToSet(healthy) : \E d \in PathsOf(u) : up[d]
    BY <1>2, <2>1, WalkFrame
  <2>4. TypeOK'
    BY <1>1, <1>2, <1>3, <2>2 DEF TypeOK, shared
  <2>5. NonePassed'
    BY <1>3, <1>e, <2>2, <2>3 DEF NonePassed
  <2>6. Heads' = Heads /\ \A m, k : Looked(m, k)' = Looked(m, k) /\ ~Checked(m, k)'
    BY <1>3 DEF Heads, Classifying, Looked, Checked
  <2>7. FirstTier'
    BY <1>3, <2>3, <2>6 DEF FirstTier
  <2>8. SecondTier' /\ LastTier'
    BY <1>1, <1>3, <2>3, <2>6 DEF SecondTier, LastTier
  <2>9. Quiet'
    BY <1>1, <1>3, <2>3, <2>6 DEF Quiet
  <2> QED
    BY <1>3, <2>2, <2>3, <2>4, <2>5, <2>7, <2>8, <2>9 DEF PlanInv
<1>4. ASSUME NEW a \in Endpoints \cup {None}, Scanned(a),
             StaysUp(Paths[This][1]) => a = Paths[This][1],
             moved = {} => IsActive(This, a)
      PROVE  PlanInv'
  <2>1. /\ at' = "second" /\ j' = 1 /\ i' = i /\ active' = a
        /\ healthy' = healthy /\ down' = down /\ plan' = plan
    BY <1>4 DEF Scanned
  <2>2. UNCHANGED <<shared, lists, moved, sorting>> /\ Walking'
    BY <1>1, <2>1 DEF lists, Walking
  <2>3. /\ FirstTier /\ SecondTier /\ LastTier /\ Quiet /\ Classified' /\ ~Classifying'
        /\ moved' = moved /\ up' = up /\ ~sorting'
        /\ \A d : /\ StaysUp(d)' = StaysUp(d) /\ StaysDown(d)' = StaysDown(d)
                  /\ Owner(d)' = Owner(d) /\ Preferred(d)' = Preferred(d)
        /\ \A u, d : IsActive(u, d)' = IsActive(u, d)
        /\ moved = {} => /\ ByStrategy(healthy)'
                         /\ \A u \in ToSet(healthy) : \E d \in PathsOf(u) : up[d]
    BY <1>2, <2>2, WalkFrame
  <2>4. TypeOK'
    BY <1>1, <1>2, <2>1 DEF TypeOK, shared
  <2>5. This' = This
    BY <2>1 DEF This, Listed
  <2>6. Bounds'
    BY <1>2, <1>p, <1>t, <2>1, <2>3, <2>5 DEF Bounds, Scanning, Walking
  <2>7. NonePassed'
    BY <2>1 DEF NonePassed
  <2>8. Heads' = Heads /\ \A m, k : ~Checked(m, k)'
    BY <2>1 DEF Heads, Classifying, Checked
  <2>9. ASSUME NEW m, NEW k \in Nat \ {0}, Looked(m, k)' PROVE Looked(m, k)
    BY <2>1, <2>9 DEF Looked, Behind
  <2>10. FirstTier'
    BY <2>1, <2>3, <2>8 DEF FirstTier
  <2>11. SecondTier'
    BY <1>1, <1>4, <2>1, <2>3, <2>5 DEF SecondTier
  <2>12. LastTier'
    BY <1>1, <2>1, <2>3, <2>8 DEF LastTier
  <2>13. ASSUME moved = {}, NEW m \in DOMAIN healthy, NEW k \in DOMAIN Paths[healthy[m]],
                Looked(m, k)', up[Paths[healthy[m]][k]],
                ~IsActive(healthy[m], Paths[healthy[m]][k])
         PROVE  Paths[healthy[m]][k] \in secondary
    <3>1. healthy[m] \in Names
      BY <1>2, ElementFacts DEF TypeOK
    <3>2. k \in Nat \ {0}
      BY <3>1, PathFacts
    <3> QED
      BY <2>3, <2>9, <2>13, <3>2 DEF Quiet
  <2>14. Quiet'
    BY <1>1, <1>4, <2>1, <2>3, <2>5, <2>8, <2>13 DEF Quiet
  <2> QED
    BY <2>3, <2>4, <2>6, <2>7, <2>10, <2>11, <2>12, <2>14 DEF PlanInv
<1>5. CASE up[e] /\ Scanned(e)
  BY <1>4, <1>5, <1>e
<1>6. CASE ~up[e] /\ j = Len(Paths[This]) /\ Scanned(None)
  BY <1>4, <1>6, <1>e, <1>p, <1>x
<1> QED
  BY <1>3, <1>5, <1>6 DEF Scan

\* The loops over single endpoints have looked at one more.
LEMMA CollectStep ==
    ASSUME PlanInv, Collect
    PROVE  /\ Walking /\ (Walking' \/ at' = "finish")
           /\ UNCHANGED <<shared, rr, lists, active, plan, moved, sorting>>
           /\ TypeOK' /\ Bounds' /\ NonePassed' /\ Heads' = Heads
           /\ at' = "second" => at = "second" /\ This' = This
           /\ This = healthy[i] /\ i \in DOMAIN healthy /\ j \in 1..Len(Paths[This])
           /\ Paths[This][j] \in Endpoints
           /\ Owner(Paths[This][j]) = This /\ This \in ToSet(healthy) /\ This \in Names
           /\ \A m \in DOMAIN healthy : \A k \in DOMAIN Paths[healthy[m]] :
                 /\ Looked(m, k)' => Looked(m, k) \/ (at = "second" /\ m = i /\ k = j)
                 /\ Checked(m, k)' => Checked(m, k) \/ (at = "third" /\ m = i /\ k = j)
<1>1. /\ at \in {"second", "third"}
      /\ UNCHANGED <<shared, rr, lists, active, plan, moved, sorting>>
      /\ secondary' \subseteq secondary \cup {Paths[This][j]}
      /\ lastResort' \subseteq lastResort \cup {Paths[This][j]}
  BY DEF Collect
<1>2. TypeOK /\ Bounds /\ Walking
  BY <1>1 DEF PlanInv, Walking
<1>t. This = healthy[i] /\ This \in Names /\ i \in 1..Len(healthy) /\ j \in 1..Len(Paths[This])
  BY <1>1, <1>2, ThisFacts
<1>h. /\ DOMAIN healthy = 1..Len(healthy) /\ Len(healthy) \in Nat /\ This \in ToSet(healthy)
      /\ \A m \in DOMAIN healthy : healthy[m] \in Names
  BY <1>2, <1>t, ElementFacts DEF TypeOK
<1>p. /\ Paths[This][j] \in Endpoints /\ Owner(Paths[This][j]) = This
      /\ Len(Paths[This]) \in Nat
  BY <1>t, Placed, PathFacts
<1>d. \A m \in DOMAIN healthy : DOMAIN Paths[healthy[m]] = 1..Len(Paths[healthy[m]])
  BY <1>h, PathFacts
<1>u. healthy' = healthy /\ UNCHANGED <<shared, lists, moved, sorting>>
  BY <1>1 DEF lists
<1>3. CASE j < Len(Paths[This]) /\ j' = j + 1 /\ UNCHANGED <<i, at>>
  <2>1. Bounds' /\ This' = This /\ j' - 1 = j /\ j' \in Nat \ {0}
    BY <1>2, <1>3, <1>u, NextPath
  <2>2. TypeOK'
    BY <1>1, <1>2, <1>3, <1>p, <2>1 DEF TypeOK, shared, lists
  <2>3. NonePassed' /\ Heads' = Heads /\ Walking'
    BY <1>1, <1>3, <1>u DEF NonePassed, Scanning, Heads, Classifying, Walking
  <2>4. ASSUME NEW m \in DOMAIN healthy, NEW k \in DOMAIN Paths[healthy[m]], Behind(m, k)'
        PROVE  Behind(m, k) \/ (m = i /\ k = j)
    BY <1>3, <1>d, <1>t, <1>h, <1>p, <2>4 DEF Behind
  <2>5. \A m \in DOMAIN healthy : \A k \in DOMAIN Paths[healthy[m]] :
                 /\ Looked(m, k)' => Looked(m, k) \/ (at = "second" /\ m = i /\ k = j)
                 /\ Checked(m, k)' => Checked(m, k) \/ (at = "third" /\ m = i /\ k = j)
    BY <1>1, <1>3, <2>4 DEF Looked, Checked
  <2> QED
    BY <1>1, <1>2, <1>3, <1>h, <1>p, <1>t, <2>1, <2>2, <2>3, <2>5
<1>4. CASE ~(j < Len(Paths[This])) /\ Proceed
  <2>1. /\ Walking' \/ at' = "finish"
        /\ i' \in 1..Len(Upstreams) /\ j' = 1
        /\ \/ i < Len(healthy) /\ i' = i + 1 /\ at' = Again[at]
           \/ i = Len(healthy) /\ i' = 1 /\ at' = After[at]
        /\ Bounds' /\ NonePassed'
    BY <1>1, <1>4, <1>u, WalkProceed
  <2>2. \/ at = "second" /\ i' = i + 1 /\ at' = "active"
        \/ at = "third" /\ i' = i + 1 /\ at' = "third"
        \/ at = "second" /\ i = Len(healthy) /\ i' = 1 /\ at' = "third"
        \/ at = "third" /\ i = Len(healthy) /\ i' = 1 /\ at' = "finish"
    BY <1>1, <2>1 DEF Again, After
  <2>3. TypeOK'
    BY <1>1, <1>2, <1>p, <2>1, <2>2 DEF TypeOK, shared, lists
  <2>4. Heads' = Heads
    BY <1>1, <1>u, <2>2 DEF Heads, Classifying
  <2>5. j = Len(Paths[This])
    BY <1>4, <1>t, <1>p
  <2>6. ASSUME NEW m \in DOMAIN healthy, NEW k \in DOMAIN Paths[healthy[m]],
               m <= i
        PROVE  Behind(m, k) \/ (m = i /\ k = j)
    BY <1>d, <1>h, <1>p, <1>t, <2>5, <2>6 DEF Behind
  <2>7. ASSUME NEW m \in DOMAIN healthy, NEW k \in DOMAIN Paths[healthy[m]]
        PROVE  /\ Looked(m, k)' => Looked(m, k) \/ (at = "second" /\ m = i /\ k = j)
               /\ Checked(m, k)' => Checked(m, k) \/ (at = "third" /\ m = i /\ k = j)
    <3>1. /\ i = Len(healthy) => m <= i
          /\ i' = i + 1 /\ m < i' => m <= i
          /\ i' = 1 => ~(m < i')
          /\ ~(k < j')
      <4>1. m \in Nat \ {0} /\ m <= Len(healthy)
        BY <1>h
      <4>2. k \in Nat \ {0}
        BY <1>h, PathFacts
      <4>3. i \in Nat
        BY <1>h, <1>t
      <4> QED
        BY <2>1, <4>1, <4>2, <4>3
    <3>2. CASE at = "second" /\ i' = i + 1 /\ at' = "active"
      BY <2>6, <3>1, <3>2 DEF Looked, Checked
    <3>3. CASE at = "third" /\ i' = i + 1 /\ at' = "third"
      BY <2>6, <3>1, <3>3 DEF Looked, Checked, Behind
    <3>4. CASE at = "second" /\ i = Len(healthy) /\ i' = 1 /\ at' = "third"
      BY <2>6, <3>1, <3>4 DEF Looked, Checked, Behind
    <3>5. CASE at = "third" /\ i = Len(healthy) /\ i' = 1 /\ at' = "finish"
      BY <2>6, <3>1, <3>5 DEF Looked, Checked
    <3> QED
      BY <2>2, <3>2, <3>3, <3>4, <3>5
  <2>8. at' # "second"
    BY <2>2
  <2> QED
    BY <1>1, <1>2, <1>h, <1>p, <1>t, <2>1, <2>3, <2>4, <2>7, <2>8
<1> QED
  BY <1>3, <1>4 DEF Collect

\* The loops over single endpoints look at one.
LEMMA CollectInv ==
    ASSUME PlanInv, Collect
    PROVE  PlanInv'
<1> DEFINE e == Paths[This][j]
<1>1. /\ Walking /\ (Walking' \/ at' = "finish")
      /\ UNCHANGED <<shared, rr, lists, active, plan, moved, sorting>>
      /\ TypeOK' /\ Bounds' /\ NonePassed' /\ Heads' = Heads
      /\ at' = "second" => at = "second" /\ This' = This
      /\ This = healthy[i] /\ i \in DOMAIN healthy /\ j \in 1..Len(Paths[This])
      /\ e \in Endpoints
      /\ Owner(e) = This /\ This \in ToSet(healthy) /\ This \in Names
      /\ \A m \in DOMAIN healthy : \A k \in DOMAIN Paths[healthy[m]] :
            /\ Looked(m, k)' => Looked(m, k) \/ (at = "second" /\ m = i /\ k = j)
            /\ Checked(m, k)' => Checked(m, k) \/ (at = "third" /\ m = i /\ k = j)
  BY CollectStep
<1>2. /\ FirstTier /\ SecondTier /\ LastTier /\ Quiet /\ Classified' /\ ~Classifying'
      /\ moved' = moved /\ up' = up /\ healthy' = healthy
      /\ \A d : /\ StaysUp(d)' = StaysUp(d) /\ StaysDown(d)' = StaysDown(d)
                /\ Owner(d)' = Owner(d) /\ Preferred(d)' = Preferred(d)
      /\ \A u, d : IsActive(u, d)' = IsActive(u, d)
      /\ moved = {} => /\ ByStrategy(healthy)'
                       /\ \A u \in ToSet(healthy) : \E d \in PathsOf(u) : up[d]
  BY <1>1, WalkFrame
<1>3. /\ at \in {"second", "third"}
      /\ secondary' = IF at = "second" /\ e # active /\ up[e] THEN secondary \cup {e}
                      ELSE secondary
      /\ lastResort' = IF at = "third" /\ ~up[e] THEN lastResort \cup {e} ELSE lastResort
  BY DEF Collect, Secondary, LastResort
<1>4. Preferred(e) => e = Paths[This][1]
  BY <1>1 DEF Preferred
<1> HIDE DEF e
<1>5. FirstTier'
  BY <1>1, <1>2 DEF FirstTier
<1>6. SecondTier'
  <2>1. ASSUME NEW d \in secondary'
        PROVE  Owner(d) \in ToSet(healthy) /\ ~StaysDown(d) /\ (Preferred(d) => ~StaysUp(d))
    <3>1. CASE d \in secondary
      BY <1>2, <3>1 DEF SecondTier
    <3>2. CASE d \notin secondary
      <4>1. d = e /\ at = "second" /\ e # active /\ up[e]
        BY <1>3, <2>1, <3>2
      <4> QED
        BY <1>1, <1>2, <1>4, <4>1 DEF SecondTier, StaysDown
    <3> QED
      BY <3>1, <3>2
  <2> QED
    BY <1>1, <1>2, <2>1 DEF SecondTier
<1>7. LastTier'
  <2>1. ASSUME NEW d \in lastResort' PROVE Owner(d) \in ToSet(healthy) /\ ~StaysUp(d)
    BY <1>1, <1>2, <1>3, <2>1 DEF LastTier, StaysUp
  <2>2. ASSUME NEW m \in DOMAIN healthy, NEW k \in DOMAIN Paths[healthy[m]],
               Checked(m, k)', StaysDown(Paths[healthy[m]][k])
        PROVE  Paths[healthy[m]][k] \in lastResort'
    <3>1. CASE Checked(m, k)
      BY <1>2, <1>3, <2>2, <3>1 DEF LastTier
    <3>2. CASE at = "third" /\ m = i /\ k = j
      <4>1. Paths[healthy[m]][k] = e
        BY <1>1, <3>2 DEF e
      <4> QED
        BY <1>3, <2>2, <3>2, <4>1 DEF StaysDown
    <3> QED
      BY <1>1, <2>2, <3>1, <3>2
  <2> QED
    BY <1>2, <2>1, <2>2 DEF LastTier
<1>8. Quiet'
  <2> SUFFICES ASSUME moved = {} PROVE Quiet'
    BY <1>2 DEF Quiet
  <2>1. at = "second" => IsActive(This, active) /\ (IsActive(This, e) => e = active)
    BY <1>1, <1>2, ActiveFacts DEF Quiet
  <2>2. ASSUME NEW d \in secondary' PROVE ~IsActive(Owner(d), d)
    BY <1>1, <1>2, <1>3, <2>1, <2>2 DEF Quiet
  <2>3. ASSUME NEW m \in DOMAIN healthy, NEW k \in DOMAIN Paths[healthy[m]],
               Looked(m, k)', up[Paths[healthy[m]][k]],
               ~IsActive(healthy[m], Paths[healthy[m]][k])
        PROVE  Paths[healthy[m]][k] \in secondary'
    <3>1. CASE Looked(m, k)
      BY <1>2, <1>3, <2>3, <3>1 DEF Quiet
    <3>2. CASE at = "second" /\ m = i /\ k = j
      <4>1. Paths[healthy[m]][k] = e /\ healthy[m] = This
        BY <1>1, <3>2 DEF e
      <4> QED
        BY <1>3, <2>1, <2>3, <3>2, <4>1
    <3> QED
      BY <1>1, <2>3, <3>1, <3>2
  <2>4. Len(plan) = Heads /\ \A m \in 1..Heads : IsActive(healthy[m], plan[m])
    BY <1>2 DEF Quiet
  <2> QED
    BY <1>1, <1>2, <2>1, <2>2, <2>3, <2>4 DEF Quiet
<1> QED
  BY <1>1, <1>2, <1>5, <1>6, <1>7, <1>8 DEF PlanInv

-----------------------------------------------------------------------------
(***************************************************************************)
(* The finished plan.                                                      *)
(***************************************************************************)

\* Places lo + 1 to hi of p list the elements of S, each once.
Block(p, lo, hi, S) ==
    /\ \A k \in (lo + 1)..hi : p[k] \in S
    /\ \A x \in S : \E k \in (lo + 1)..hi : p[k] = x
    /\ \A k, l \in (lo + 1)..hi : p[k] = p[l] => k = l

\* A list put behind another becomes a block of the whole.
LEMMA BlockConcat ==
    ASSUME NEW E, NEW s \in Seq(E), NEW t \in Seq(E), IsInjective(t)
    PROVE  /\ s \o t \in Seq(E) /\ Len(s \o t) = Len(s) + Len(t)
           /\ \A k \in 1..Len(s) : (s \o t)[k] = s[k]
           /\ Block(s \o t, Len(s), Len(s) + Len(t), ToSet(t))
<1> DEFINE p == s \o t
           n == Len(s)
<1>1. /\ p \in Seq(E) /\ Len(p) = n + Len(t)
      /\ \A k \in 1..(n + Len(t)) : p[k] = IF k <= n THEN s[k] ELSE t[k - n]
  BY ConcatProperties
<1>2. n \in Nat /\ Len(t) \in Nat
  BY ElementFacts
<1>3. /\ \A k \in 1..Len(t) : t[k] \in ToSet(t)
      /\ \A x \in ToSet(t) : \E k \in 1..Len(t) : x = t[k]
      /\ \A k, l \in 1..Len(t) : t[k] = t[l] => k = l
  BY ElementFacts
<1> HIDE DEF p, n
<1>4. \A k \in 1..n : p[k] = s[k]
  BY <1>1, <1>2
<1>5. \A k \in (n + 1)..(n + Len(t)) : k - n \in 1..Len(t) /\ p[k] = t[k - n]
  BY <1>1, <1>2
<1>6. \A k \in (n + 1)..(n + Len(t)) : p[k] \in ToSet(t)
  BY <1>3, <1>5
<1>7. ASSUME NEW x \in ToSet(t) PROVE \E k \in (n + 1)..(n + Len(t)) : p[k] = x
  <2>1. PICK k \in 1..Len(t) : x = t[k]
    BY <1>3
  <2>2. n + k \in (n + 1)..(n + Len(t)) /\ (n + k) - n = k
    BY <1>2
  <2> QED
    BY <1>5, <2>1, <2>2
<1>8. ASSUME NEW k \in (n + 1)..(n + Len(t)), NEW l \in (n + 1)..(n + Len(t)), p[k] = p[l]
      PROVE  k = l
  <2>1. k - n = l - n
    BY <1>3, <1>5, <1>8
  <2> QED
    BY <1>2, <2>1
<1>9. Block(p, n, n + Len(t), ToSet(t))
  BY <1>6, <1>7, <1>8 DEF Block
<1> QED
  BY <1>1, <1>4, <1>9 DEF p, n

\* What is put behind a list leaves its blocks alone.
LEMMA BlockKept ==
    ASSUME NEW p, NEW q, NEW n \in Nat, NEW lo \in Nat, NEW hi \in 0..n, NEW S,
           \A k \in 1..n : q[k] = p[k], Block(p, lo, hi, S)
    PROVE  Block(q, lo, hi, S)
<1>1. \A k \in (lo + 1)..hi : k \in 1..n
  OBVIOUS
<1>2. \A k \in (lo + 1)..hi : q[k] = p[k]
  BY <1>1
<1> QED
  BY <1>2 DEF Block

\* There are finitely many endpoints.
LEMMA EndpointsFinite == IsFiniteSet(Endpoints)
<1> DEFINE Sets == {PathsOf(u) : u \in Names}
           f == [u \in Names |-> PathsOf(u)]
<1>1. IsFiniteSet(Names)
  <2>1. Upstreams \in Seq(Names)
    BY UpstreamAssumption
  <2> QED
    BY <2>1, ToSetFinite DEF Names
<1>2. f \in Surjection(Names, Sets)
  BY DEF Surjection
<1>3. IsFiniteSet(Sets)
  BY <1>1, <1>2, FS_Surjection
<1>4. ASSUME NEW u \in Names PROVE IsFiniteSet(PathsOf(u))
  <2>1. Paths[u] \in Seq(PathsOf(u))
    BY PathAssumption
  <2> QED
    BY <2>1, ToSetFinite DEF PathsOf
<1> QED
  BY <1>3, <1>4, FS_UNION DEF Endpoints

\* The finished plan: the first tier as it was, the secondary paths, the last
\* resort, and the drained paths when all that is nothing.
LEMMA FinishShape ==
    ASSUME PlanInv, Finish
    PROVE  /\ plan' \in Seq(Endpoints)
           /\ \E b, c \in Nat :
                 /\ Len(plan) <= b /\ b <= c /\ c <= Len(plan')
                 /\ \A k \in 1..Len(plan) : plan'[k] = plan[k]
                 /\ Block(plan', Len(plan), b, secondary)
                 /\ Block(plan', b, c, lastResort \cup AllPaths(down))
                 /\ Block(plan', c, Len(plan'), IF c = 0 THEN AllPaths(aside) ELSE {})
<1>1. PICK s \in SetToSeqs(secondary), t \in SetToSeqs(lastResort \cup AllPaths(down)) :
         \E d \in SetToSeqs(Aside(plan \o s \o t)) : plan' = plan \o s \o t \o d
  BY DEF Finish
<1>2. PICK d \in SetToSeqs(Aside(plan \o s \o t)) : plan' = plan \o s \o t \o d
  BY <1>1
<1>3. TypeOK
  BY DEF PlanInv
<1>4. \A q \in Seq(Names) : AllPaths(q) \subseteq Endpoints
  <2> SUFFICES ASSUME NEW q \in Seq(Names) PROVE AllPaths(q) \subseteq Endpoints
    OBVIOUS
  <2>1. ToSet(q) \subseteq Names
    BY ElementFacts
  <2> QED
    BY <2>1 DEF AllPaths, Endpoints
<1>5. ASSUME NEW S \in SUBSET Endpoints, NEW q \in SetToSeqs(S)
      PROVE  q \in Seq(Endpoints) /\ ToSet(q) = S /\ IsInjective(q)
  <2>1. IsFiniteSet(S)
    BY EndpointsFinite, FS_Subset
  <2>2. q \in Seq(S) /\ ToSet(q) = S /\ IsInjective(q)
    BY <2>1, PermutationFacts
  <2> QED
    BY <2>2, SeqMonotonic
<1>6. s \in Seq(Endpoints) /\ ToSet(s) = secondary /\ IsInjective(s)
  BY <1>3, <1>5 DEF TypeOK
<1>7. t \in Seq(Endpoints) /\ ToSet(t) = lastResort \cup AllPaths(down) /\ IsInjective(t)
  BY <1>3, <1>4, <1>5 DEF TypeOK
<1>8. d \in Seq(Endpoints) /\ ToSet(d) = Aside(plan \o s \o t) /\ IsInjective(d)
  <2>1. Aside(plan \o s \o t) \subseteq Endpoints
    BY <1>3, <1>4 DEF TypeOK, Aside
  <2> QED
    BY <1>5, <2>1
<1> DEFINE p1 == plan \o s
           p2 == p1 \o t
           p3 == p2 \o d
           a == Len(plan)
           b == Len(p1)
           c == Len(p2)
<1>9. plan \in Seq(Endpoints) /\ a \in Nat
  BY <1>3, ElementFacts DEF TypeOK
<1>10. /\ p1 \in Seq(Endpoints) /\ b = a + Len(s)
       /\ \A k \in 1..a : p1[k] = plan[k]
       /\ Block(p1, a, b, secondary)
  BY <1>6, <1>9, BlockConcat
<1>11. /\ p2 \in Seq(Endpoints) /\ c = b + Len(t)
       /\ \A k \in 1..b : p2[k] = p1[k]
       /\ Block(p2, b, c, lastResort \cup AllPaths(down))
  <2>1. p1 \in Seq(Endpoints)
    BY <1>10
  <2> HIDE DEF p1
  <2>2. /\ p2 \in Seq(Endpoints) /\ Len(p2) = Len(p1) + Len(t)
        /\ \A k \in 1..Len(p1) : p2[k] = p1[k]
        /\ Block(p2, Len(p1), Len(p1) + Len(t), ToSet(t))
    BY <1>7, <2>1, BlockConcat
  <2> HIDE DEF p2
  <2> QED
    BY <1>7, <2>2
<1>12. /\ p3 \in Seq(Endpoints) /\ Len(p3) = c + Len(d)
       /\ \A k \in 1..c : p3[k] = p2[k]
       /\ Block(p3, c, c + Len(d), Aside(p2))
  <2>1. ToSet(d) = Aside(p2)
    BY <1>8
  <2> HIDE DEF p2
  <2> QED
    BY <1>8, <1>11, <2>1, BlockConcat
<1>13. plan' = p3
  BY <1>2
<1> HIDE DEF p1, p2, p3
<1>14. /\ Len(s) \in Nat /\ Len(t) \in Nat /\ Len(d) \in Nat /\ b \in Nat /\ c \in Nat
       /\ p2 = <<>> <=> c = 0
  BY <1>6, <1>7, <1>8, <1>10, <1>11, ElementFacts
<1> HIDE DEF a, b, c
<1>15. a <= b /\ b <= c /\ c <= Len(p3) /\ a \in 0..b /\ b \in 0..c /\ c \in 0..c /\ b \in 0..b
  BY <1>9, <1>10, <1>11, <1>12, <1>14
<1>16. \A k \in 1..a : p3[k] = plan[k]
  <2>1. \A k \in 1..a : k \in 1..b /\ k \in 1..c
    BY <1>9, <1>14, <1>15
  <2> QED
    BY <1>10, <1>11, <1>12, <2>1
<1>17. Block(p3, a, b, secondary)
  <2>1. Block(p2, a, b, secondary)
    BY <1>9, <1>10, <1>11, <1>14, <1>15, BlockKept
  <2> QED
    BY <1>9, <1>12, <1>14, <1>15, <2>1, BlockKept
<1>18. Block(p3, b, c, lastResort \cup AllPaths(down))
  BY <1>11, <1>12, <1>14, <1>15, BlockKept
<1>19. Aside(p2) = IF c = 0 THEN AllPaths(aside) ELSE {}
  BY <1>14 DEF Aside
<1>20. Block(p3, c, Len(p3), IF c = 0 THEN AllPaths(aside) ELSE {})
  BY <1>12, <1>19
<1> QED
  BY <1>12, <1>13, <1>14, <1>15, <1>16, <1>17, <1>18, <1>20 DEF a

\* What the loops have left for the end: each tier, by what stayed true of it.
LEMMA FinishFacts ==
    ASSUME PlanInv, at = "finish"
    PROVE  /\ \A e \in ToSet(plan) :
                 e \in Endpoints /\ Owner(e) \in ToSet(healthy) /\ ~StaysDown(e)
           /\ \A k, l \in 1..Len(plan) : Owner(plan[k]) = Owner(plan[l]) => k = l
           /\ \A e \in Endpoints :
                 Owner(e) \in ToSet(healthy) /\ Preferred(e) /\ StaysUp(e) => e \in ToSet(plan)
           /\ \A e \in secondary : /\ e \in Endpoints /\ Owner(e) \in ToSet(healthy)
                                   /\ ~StaysDown(e) /\ (Preferred(e) => ~StaysUp(e))
           /\ \A e \in lastResort \cup AllPaths(down) :
                 /\ e \in Endpoints /\ ~StaysUp(e)
                 /\ Owner(e) \in ToSet(healthy) \cup ToSet(down)
           /\ \A e \in Endpoints :
                 /\ Owner(e) \in ToSet(down) => e \in AllPaths(down)
                 /\ Owner(e) \in ToSet(healthy) /\ StaysDown(e) => e \in lastResort
           /\ \A e \in Endpoints :
                 /\ InService(e) => Owner(e) \in ToSet(healthy) \cup ToSet(down)
                 /\ drained[Owner(e)] /\ MarkStable(Owner(e)) =>
                       Owner(e) \notin ToSet(healthy) \cup ToSet(down)
           /\ \A e \in Endpoints : StaysUp(e) => Owner(e) \notin ToSet(down)
<1>1. TypeOK /\ Bounds /\ Classified /\ FirstTier /\ SecondTier /\ LastTier
  BY DEF PlanInv
<1>l. /\ healthy \in Seq(Names) /\ down \in Seq(Names) /\ aside \in Seq(Names)
      /\ plan \in Seq(Endpoints) /\ secondary \subseteq Endpoints
      /\ lastResort \subseteq Endpoints
  BY <1>1 DEF TypeOK
<1>h. /\ DOMAIN healthy = 1..Len(healthy)
      /\ \A m \in 1..Len(healthy) : healthy[m] \in ToSet(healthy) /\ healthy[m] \in Names
      /\ \A u \in ToSet(healthy) : u \in Names /\ \E m \in 1..Len(healthy) : u = healthy[m]
  BY <1>l, ElementFacts
<1>d. ToSet(down) \subseteq Names
  BY <1>l, ElementFacts
<1>p. /\ DOMAIN plan = 1..Len(plan)
      /\ \A e \in ToSet(plan) : e \in Endpoints /\ \E k \in 1..Len(plan) : e = plan[k]
  BY <1>l, ElementFacts
<1>2. /\ Heads = Len(healthy) /\ Passed = Names /\ \A m, k : Checked(m, k)
  BY DEF Heads, Classifying, Passed, Checked
<1>3. /\ \A e \in ToSet(plan) :
            e \in Endpoints /\ Owner(e) \in ToSet(healthy) /\ ~StaysDown(e)
      /\ \A k, l \in 1..Len(plan) : Owner(plan[k]) = Owner(plan[l]) => k = l
  BY <1>1, <1>2, <1>h, <1>p DEF FirstTier
<1>4. ASSUME NEW e \in Endpoints, Owner(e) \in ToSet(healthy), Preferred(e), StaysUp(e)
      PROVE  e \in ToSet(plan)
  <2>1. PICK m \in 1..Len(healthy) : Owner(e) = healthy[m]
    BY <1>4, <1>h
  <2>2. e = Paths[healthy[m]][1]
    BY <1>4, <2>1 DEF Preferred
  <2> QED
    BY <1>1, <1>2, <1>4, <2>1, <2>2 DEF FirstTier
<1>5. \A e \in secondary : /\ e \in Endpoints /\ Owner(e) \in ToSet(healthy)
                           /\ ~StaysDown(e) /\ (Preferred(e) => ~StaysUp(e))
  BY <1>1, <1>l DEF SecondTier
<1>6. ASSUME NEW e \in AllPaths(down)
      PROVE  e \in Endpoints /\ ~StaysUp(e) /\ Owner(e) \in ToSet(down)
  <2>1. PICK u \in ToSet(down) : e \in PathsOf(u)
    BY <1>6 DEF AllPaths
  <2>2. e \in Endpoints /\ Owner(e) = u
    BY <1>d, <2>1, OwnerFacts
  <2> QED
    BY <1>1, <2>1, <2>2 DEF Classified
<1>7. \A e \in lastResort \cup AllPaths(down) :
         /\ e \in Endpoints /\ ~StaysUp(e)
         /\ Owner(e) \in ToSet(healthy) \cup ToSet(down)
  BY <1>1, <1>6, <1>l DEF LastTier
<1>8. ASSUME NEW e \in Endpoints, Owner(e) \in ToSet(down)
      PROVE  e \in AllPaths(down) /\ ~StaysUp(e)
  <2>1. e \in PathsOf(Owner(e))
    BY OwnerFacts
  <2> QED
    BY <1>1, <1>8, <2>1 DEF AllPaths, Classified
<1>9. ASSUME NEW e \in Endpoints, Owner(e) \in ToSet(healthy), StaysDown(e)
      PROVE  e \in lastResort
  <2>1. PICK m \in 1..Len(healthy) : Owner(e) = healthy[m]
    BY <1>9, <1>h
  <2>2. PICK k \in DOMAIN Paths[healthy[m]] : e = Paths[healthy[m]][k]
    BY <1>h, <2>1, OwnerFacts, PathFacts
  <2> QED
    BY <1>1, <1>2, <1>9, <1>h, <2>2 DEF LastTier
<1>10. ASSUME NEW e \in Endpoints
       PROVE  /\ InService(e) => Owner(e) \in ToSet(healthy) \cup ToSet(down)
              /\ drained[Owner(e)] /\ MarkStable(Owner(e)) =>
                       Owner(e) \notin ToSet(healthy) \cup ToSet(down)
  <2>1. Owner(e) \in Names
    BY OwnerFacts
  <2> QED
    BY <1>1, <1>2, <2>1 DEF Classified, InService
<1> QED
  BY <1>3, <1>4, <1>5, <1>7, <1>8, <1>9, <1>10

\* The places of the finished plan, tier by tier.
LEMMA Places ==
    ASSUME PlanInv, Finish
    PROVE  \E b, c \in Nat :
              /\ Len(plan) \in Nat /\ Len(plan') \in Nat /\ DOMAIN plan' = 1..Len(plan')
              /\ plan' \in Seq(Endpoints)
              /\ Len(plan) <= b /\ b <= c /\ c <= Len(plan')
              /\ \A k \in 1..Len(plan) : plan'[k] = plan[k] /\ plan[k] \in ToSet(plan)
              /\ \A e \in ToSet(plan) : \E k \in 1..Len(plan) : plan'[k] = e
              /\ Block(plan', Len(plan), b, secondary)
              /\ Block(plan', b, c, lastResort \cup AllPaths(down))
              /\ c # 0 => Len(plan') = c
              /\ c = 0 => Block(plan', 0, Len(plan'), AllPaths(aside))
              /\ \A k \in DOMAIN plan' :
                    k \in 1..Len(plan) \/ k \in (Len(plan) + 1)..b \/ k \in (b + 1)..c
                    \/ (c = 0 /\ k \in (0 + 1)..Len(plan'))
<1>1. plan' \in Seq(Endpoints)
  BY FinishShape
<1>2. PICK b \in Nat, c \in Nat :
                 /\ Len(plan) <= b /\ b <= c /\ c <= Len(plan')
                 /\ \A k \in 1..Len(plan) : plan'[k] = plan[k]
                 /\ Block(plan', Len(plan), b, secondary)
                 /\ Block(plan', b, c, lastResort \cup AllPaths(down))
                 /\ Block(plan', c, Len(plan'), IF c = 0 THEN AllPaths(aside) ELSE {})
  BY FinishShape
<1>3. plan \in Seq(Endpoints)
  BY DEF PlanInv, TypeOK
<1>4. /\ Len(plan) \in Nat
      /\ \A k \in 1..Len(plan) : plan[k] \in ToSet(plan)
      /\ \A e \in ToSet(plan) : \E k \in 1..Len(plan) : plan[k] = e
  BY <1>3, ElementFacts
<1>5. Len(plan') \in Nat /\ DOMAIN plan' = 1..Len(plan')
  BY <1>1, LenProperties
<1>6. PICK a \in Nat, n \in Nat : a = Len(plan) /\ n = Len(plan')
  BY <1>4, <1>5
<1>n. a <= b /\ b <= c /\ c <= n
  BY <1>2, <1>6
<1>m. c # 0 => n = c
  <2> SUFFICES ASSUME c # 0, n # c PROVE FALSE
    OBVIOUS
  <2>1. n \in (c + 1)..n
    BY <1>n
  <2>2. Block(plan', c, n, {})
    BY <1>2, <1>6
  <2> QED
    BY <2>1, <2>2 DEF Block
<1>7. c = 0 => Block(plan', 0, Len(plan'), AllPaths(aside))
  BY <1>2
<1>8. \A k \in DOMAIN plan' :
         k \in 1..Len(plan) \/ k \in (Len(plan) + 1)..b \/ k \in (b + 1)..c
         \/ (c = 0 /\ k \in (0 + 1)..Len(plan'))
  <2>1. \A k \in 1..n : k \in 1..a \/ k \in (a + 1)..b \/ k \in (b + 1)..c
                         \/ (c = 0 /\ k \in (0 + 1)..n)
    BY <1>m, <1>n
  <2> QED
    BY <1>5, <1>6, <2>1
<1>9. \A e \in ToSet(plan) : \E k \in 1..Len(plan) : plan'[k] = e
  BY <1>2, <1>4
<1> QED
  BY <1>1, <1>2, <1>4, <1>5, <1>6, <1>7, <1>8, <1>9, <1>m

\* How often an endpoint stands in the finished plan.
LEMMA TimesFacts ==
    ASSUME NEW e
    PROVE  /\ (\E k \in DOMAIN plan' :
                   plan'[k] = e /\ \A l \in DOMAIN plan' : plan'[l] = e => l = k)
                  => Times(e)' = 1
           /\ (\A k \in DOMAIN plan' : plan'[k] # e) => Times(e)' = 0
<1> DEFINE T == {k \in DOMAIN plan' : plan'[k] = e}
<1>1. Times(e)' = Cardinality(T)
  BY DEF Times
<1>2. ASSUME NEW k \in DOMAIN plan', plan'[k] = e, \A l \in DOMAIN plan' : plan'[l] = e => l = k
      PROVE  Times(e)' = 1
  <2>1. T = {k}
    BY <1>2
  <2> QED
    BY <1>1, <2>1, FS_Singleton
<1>3. ASSUME \A k \in DOMAIN plan' : plan'[k] # e PROVE Times(e)' = 0
  <2>1. T = {}
    BY <1>3
  <2> QED
    BY <1>1, <2>1, FS_EmptySet
<1> QED
  BY <1>2, <1>3

\* What Finish leaves alone.
LEMMA FinishFrame ==
    ASSUME Finish
    PROVE  /\ up' = up /\ drained' = drained /\ latency' = latency /\ strategy' = strategy
           /\ moved' = moved /\ at = "finish" /\ at' = "done"
           /\ \A e : /\ PathStable(e)' = PathStable(e) /\ InService(e)' = InService(e)
                     /\ Preferred(e)' = Preferred(e) /\ Owner(e)' = Owner(e)
           /\ \A u : MarkStable(u)' = MarkStable(u)
<1>1. /\ up' = up /\ drained' = drained /\ latency' = latency /\ strategy' = strategy
      /\ moved' = moved /\ at = "finish" /\ at' = "done"
  BY DEF Finish, shared
<1> QED
  BY <1>1 DEF PathStable, MarkStable, InService, Owner, Preferred

\* A path that stays down stands once in the finished plan.
LEMMA DownOnce ==
    ASSUME PlanInv, Finish, NEW e \in Endpoints, InService(e), StaysDown(e)
    PROVE  Times(e)' = 1
<1>1. at = "finish"
  BY DEF Finish
<1>2. /\ e \notin ToSet(plan) /\ e \notin secondary
      /\ e \in lastResort \cup AllPaths(down)
  BY <1>1, FinishFacts
<1>3. PICK b \in Nat, c \in Nat :
              /\ Len(plan) \in Nat /\ Len(plan') \in Nat /\ DOMAIN plan' = 1..Len(plan')
              /\ Len(plan) <= b /\ b <= c /\ c <= Len(plan')
              /\ \A k \in 1..Len(plan) : plan'[k] = plan[k] /\ plan[k] \in ToSet(plan)
              /\ Block(plan', Len(plan), b, secondary)
              /\ Block(plan', b, c, lastResort \cup AllPaths(down))
              /\ \A k \in DOMAIN plan' :
                    k \in 1..Len(plan) \/ k \in (Len(plan) + 1)..b \/ k \in (b + 1)..c
                    \/ (c = 0 /\ k \in (0 + 1)..Len(plan'))
  BY Places
<1>4. PICK k \in (b + 1)..c : plan'[k] = e
  BY <1>2, <1>3 DEF Block
<1>5. c # 0 /\ k \in DOMAIN plan'
  BY <1>3
<1>6. ASSUME NEW l \in DOMAIN plan', plan'[l] = e PROVE l = k
  <2>1. l \notin 1..Len(plan)
    BY <1>2, <1>3, <1>6
  <2>2. l \notin (Len(plan) + 1)..b
    BY <1>2, <1>3, <1>6 DEF Block
  <2>3. l \in (b + 1)..c
    BY <1>3, <1>5, <2>1, <2>2
  <2> QED
    BY <1>3, <1>4, <1>6, <2>3 DEF Block
<1> QED
  BY <1>4, <1>5, <1>6, TimesFacts

\* A preferred path that stays up stands once in the finished plan, on a place of
\* the first tier.
LEMMA PreferredOnce ==
    ASSUME PlanInv, Finish, NEW e \in Endpoints, InService(e), StaysUp(e), Preferred(e)
    PROVE  /\ Times(e)' = 1
           /\ \E k \in 1..Len(plan) :
                 plan[k] = e /\ \A l \in DOMAIN plan' : plan'[l] = e => l = k
<1>1. at = "finish"
  BY DEF Finish
<1>2. /\ e \in ToSet(plan) /\ e \notin secondary
      /\ e \notin lastResort \cup AllPaths(down)
      /\ \A k, l \in 1..Len(plan) : Owner(plan[k]) = Owner(plan[l]) => k = l
  BY <1>1, FinishFacts
<1>3. PICK b \in Nat, c \in Nat :
              /\ Len(plan) \in Nat /\ Len(plan') \in Nat /\ DOMAIN plan' = 1..Len(plan')
              /\ Len(plan) <= b /\ b <= c /\ c <= Len(plan')
              /\ \A k \in 1..Len(plan) : plan'[k] = plan[k] /\ plan[k] \in ToSet(plan)
              /\ \A d \in ToSet(plan) : \E k \in 1..Len(plan) : plan'[k] = d
              /\ Block(plan', Len(plan), b, secondary)
              /\ Block(plan', b, c, lastResort \cup AllPaths(down))
              /\ \A k \in DOMAIN plan' :
                    k \in 1..Len(plan) \/ k \in (Len(plan) + 1)..b \/ k \in (b + 1)..c
                    \/ (c = 0 /\ k \in (0 + 1)..Len(plan'))
  BY Places
<1>4. PICK k \in 1..Len(plan) : plan'[k] = e
  BY <1>2, <1>3
<1>5. c # 0 /\ k \in DOMAIN plan' /\ plan[k] = e
  BY <1>3, <1>4
<1>6. ASSUME NEW l \in DOMAIN plan', plan'[l] = e PROVE l = k
  <2>1. l \notin (b + 1)..c
    BY <1>2, <1>3, <1>6 DEF Block
  <2>2. l \notin (Len(plan) + 1)..b
    BY <1>2, <1>3, <1>6 DEF Block
  <2>3. l \in 1..Len(plan)
    BY <1>3, <1>5, <2>1, <2>2
  <2> QED
    BY <1>2, <1>3, <1>4, <1>6, <2>3
<1> QED
  BY <1>4, <1>5, <1>6, TimesFacts

\* The finished plan keeps the fail-open tier.
LEMMA FinishKeeps ==
    ASSUME PlanInv, Finish
    PROVE  DownPathsKept'
BY FinishFrame, DownOnce DEF DownPathsKept, StaysDown

\* The finished plan has the preferred paths first.
LEMMA FinishPrefers ==
    ASSUME PlanInv, Finish
    PROVE  PreferredPathFirst'
<1>1. SUFFICES ASSUME NEW e \in Endpoints, Preferred(e), InService(e), PathStable(e), up[e]
               PROVE  /\ Times(e)' = 1
                      /\ \A d \in ToSet(plan') :
                            PathStable(d) /\ (~up[d] \/ Owner(d) = Owner(e)) => ~Before(d, e)'
  BY FinishFrame DEF PreferredPathFirst
<1>2. PICK k \in 1..Len(plan) :
         plan[k] = e /\ \A l \in DOMAIN plan' : plan'[l] = e => l = k
  BY <1>1, PreferredOnce DEF StaysUp
<1>3. Times(e)' = 1
  BY <1>1, PreferredOnce DEF StaysUp
<1>4. /\ \A d \in ToSet(plan) : ~StaysDown(d)
      /\ \A m, l \in 1..Len(plan) : Owner(plan[m]) = Owner(plan[l]) => m = l
  BY FinishFrame, FinishFacts
<1>5. /\ Len(plan) \in Nat /\ Len(plan') \in Nat /\ DOMAIN plan' = 1..Len(plan')
      /\ \A m \in 1..Len(plan) : plan'[m] = plan[m] /\ plan[m] \in ToSet(plan)
  BY Places
<1>6. ASSUME NEW d \in ToSet(plan'), PathStable(d), ~up[d] \/ Owner(d) = Owner(e), Before(d, e)'
      PROVE  FALSE
  <2>1. PICK m \in DOMAIN plan', l \in DOMAIN plan' : m < l /\ plan'[m] = d /\ plan'[l] = e
    BY <1>6 DEF Before
  <2>2. l = k /\ m \in 1..Len(plan) /\ m # k
    BY <1>2, <1>5, <2>1
  <2>3. plan[m] = d /\ ~StaysDown(d)
    BY <1>4, <1>5, <2>1, <2>2
  <2>4. Owner(d) = Owner(e)
    BY <1>6, <2>3 DEF StaysDown
  <2> QED
    BY <1>2, <1>4, <2>2, <2>3, <2>4
<1> QED
  BY <1>3, <1>6

\* The finished plan leaves a drained upstream out when another path was to be had.
LEMMA FinishSkips ==
    ASSUME PlanInv, Finish
    PROVE  DrainedSkipped'
<1>1. SUFFICES ASSUME NEW d \in Endpoints, drained[Owner(d)], MarkStable(Owner(d)),
                      NEW e \in Endpoints, InService(e), PathStable(e), up[e] => Preferred(e)
               PROVE  Times(d)' = 0
  BY FinishFrame DEF DrainedSkipped
<1>2. at = "finish"
  BY DEF Finish
<1>3. PICK b \in Nat, c \in Nat :
              /\ Len(plan) \in Nat /\ Len(plan') \in Nat /\ DOMAIN plan' = 1..Len(plan')
              /\ Len(plan) <= b /\ b <= c /\ c <= Len(plan')
              /\ \A k \in 1..Len(plan) : plan'[k] = plan[k] /\ plan[k] \in ToSet(plan)
              /\ \A x \in ToSet(plan) : \E k \in 1..Len(plan) : plan'[k] = x
              /\ Block(plan', Len(plan), b, secondary)
              /\ Block(plan', b, c, lastResort \cup AllPaths(down))
              /\ \A k \in DOMAIN plan' :
                    k \in 1..Len(plan) \/ k \in (Len(plan) + 1)..b \/ k \in (b + 1)..c
                    \/ (c = 0 /\ k \in (0 + 1)..Len(plan'))
  BY Places
<1>4. /\ Owner(d) \notin ToSet(healthy) \cup ToSet(down)
      /\ d \notin ToSet(plan) /\ d \notin secondary /\ d \notin lastResort \cup AllPaths(down)
  BY <1>1, <1>2, FinishFacts
<1>5. e \in ToSet(plan) \/ e \in lastResort \cup AllPaths(down)
  BY <1>1, <1>2, FinishFacts DEF StaysUp, StaysDown
<1>6. c # 0
  <2>1. CASE e \in ToSet(plan)
    BY <1>3, <2>1
  <2>2. CASE e \in lastResort \cup AllPaths(down)
    <3>1. PICK k \in (b + 1)..c : plan'[k] = e
      BY <1>3, <2>2 DEF Block
    <3> QED
      BY <1>3
  <2> QED
    BY <1>5, <2>1, <2>2
<1>7. ASSUME NEW k \in DOMAIN plan' PROVE plan'[k] # d
  <2>1. CASE k \in 1..Len(plan)
    BY <1>3, <1>4, <2>1
  <2>2. CASE k \in (Len(plan) + 1)..b
    BY <1>3, <1>4, <2>2 DEF Block
  <2>3. CASE k \in (b + 1)..c
    BY <1>3, <1>4, <2>3 DEF Block
  <2> QED
    BY <1>3, <1>6, <2>1, <2>2, <2>3
<1> QED
  BY <1>7, TimesFacts

\* When nothing has changed since Plan began, each list is exactly a tier.
LEMMA QuietFacts ==
    ASSUME PlanInv, at = "finish", moved = {}
    PROVE  /\ Len(plan) = Len(healthy) /\ ByStrategy(healthy)
           /\ \A m \in 1..Len(plan) : Owner(plan[m]) = healthy[m]
           /\ \A e \in ToSet(plan) : Tier(e) = 1
           /\ \A e \in secondary : Tier(e) = 2
           /\ \A e \in lastResort \cup AllPaths(down) : Tier(e) = 3
           /\ ToSet(plan) \cup secondary \cup lastResort \cup AllPaths(down)
                 = {e \in Endpoints : ~drained[Owner(e)]}
           /\ AllPaths(aside) = {e \in Endpoints : drained[Owner(e)]}
<1>1. TypeOK /\ Classified /\ FirstTier /\ Quiet
  BY DEF PlanInv
<1>2. /\ Heads = Len(healthy) /\ ~Classifying /\ Passed = Names /\ \A m, k : Looked(m, k)
  BY DEF Heads, Classifying, Passed, Looked
<1>3. /\ \A e : PathStable(e) /\ \A u : MarkStable(u)
  BY DEF PathStable, MarkStable
<1>4. /\ healthy \in Seq(Names) /\ down \in Seq(Names) /\ aside \in Seq(Names)
      /\ plan \in Seq(Endpoints)
  BY <1>1 DEF TypeOK
<1>h. /\ Len(healthy) \in Nat /\ DOMAIN healthy = 1..Len(healthy)
      /\ \A m \in 1..Len(healthy) : healthy[m] \in Names
      /\ \A u \in ToSet(healthy) : u \in Names /\ \E m \in 1..Len(healthy) : u = healthy[m]
      /\ \A e \in ToSet(plan) : \E k \in 1..Len(plan) : e = plan[k]
      /\ \A k \in 1..Len(plan) : plan[k] \in ToSet(plan)
  BY <1>4, ElementFacts
<1>5. /\ Len(plan) = Len(healthy) /\ ByStrategy(healthy)
      /\ \A m \in 1..Len(healthy) : IsActive(healthy[m], plan[m])
  BY <1>1, <1>2 DEF Quiet
<1>6. ASSUME NEW m \in 1..Len(plan)
      PROVE  Owner(plan[m]) = healthy[m] /\ plan[m] = Active(healthy[m])
  <2>1. healthy[m] \in Names /\ IsActive(healthy[m], plan[m])
    BY <1>5, <1>6, <1>h
  <2>2. PICK k \in DOMAIN Paths[healthy[m]] : plan[m] = Paths[healthy[m]][k]
    BY <2>1 DEF IsActive
  <2>3. k \in 1..Len(Paths[healthy[m]])
    BY <2>1, PathFacts
  <2> QED
    BY <2>1, <2>2, <2>3, Placed, ActiveFacts
<1>7. \A e \in ToSet(plan) : Tier(e) = 1
  BY <1>6, <1>h DEF Tier
<1>f. /\ \A e \in ToSet(plan) :
            e \in Endpoints /\ Owner(e) \in ToSet(healthy) /\ ~StaysDown(e)
      /\ \A e \in secondary :
            e \in Endpoints /\ Owner(e) \in ToSet(healthy) /\ ~StaysDown(e)
      /\ \A e \in lastResort \cup AllPaths(down) :
            /\ e \in Endpoints /\ ~StaysUp(e)
            /\ Owner(e) \in ToSet(healthy) \cup ToSet(down)
      /\ \A e \in Endpoints :
            /\ Owner(e) \in ToSet(down) => e \in AllPaths(down)
            /\ Owner(e) \in ToSet(healthy) /\ StaysDown(e) => e \in lastResort
  BY FinishFacts
<1>a. \A e \in Endpoints : Owner(e) \in Names /\ e \in PathsOf(Owner(e))
  BY OwnerFacts
<1>8. ASSUME NEW e \in secondary PROVE Tier(e) = 2
  <2>1. up[e] /\ ~IsActive(Owner(e), e) /\ Owner(e) \in Names /\ e \in PathsOf(Owner(e))
    BY <1>1, <1>3, <1>a, <1>f DEF Quiet, StaysDown
  <2>2. IsActive(Owner(e), Active(Owner(e)))
    BY <2>1, ActiveFacts
  <2> QED
    BY <2>1, <2>2 DEF Tier
<1>9. ASSUME NEW e \in lastResort \cup AllPaths(down) PROVE Tier(e) = 3
  <2>1. ~up[e] /\ e \in Endpoints /\ Owner(e) \in Names
    BY <1>3, <1>a, <1>f DEF StaysUp
  <2>2. Active(Owner(e)) = None \/ IsActive(Owner(e), Active(Owner(e)))
    BY <2>1, ActiveFacts
  <2>3. e # Active(Owner(e))
    BY <2>1, <2>2, PathAssumption DEF IsActive
  <2> QED
    BY <2>1, <2>3 DEF Tier
<1>10. /\ \A u \in ToSet(healthy) \cup ToSet(down) : u \in Names /\ ~drained[u]
       /\ \A u \in ToSet(aside) : u \in Names /\ drained[u]
       /\ \A u \in Names : \/ u \in ToSet(healthy) \cup ToSet(down) /\ ~drained[u]
                           \/ u \in ToSet(aside) /\ drained[u]
  BY <1>1, <1>2, <1>3 DEF Classified
<1>11. ASSUME NEW e \in Endpoints, ~drained[Owner(e)]
       PROVE  e \in ToSet(plan) \cup secondary \cup lastResort \cup AllPaths(down)
  <2>1. Owner(e) \in ToSet(healthy) \cup ToSet(down)
    BY <1>10, <1>11, <1>a
  <2>2. CASE Owner(e) \in ToSet(healthy) /\ up[e]
    <3>1. PICK m \in 1..Len(healthy) : Owner(e) = healthy[m]
      BY <1>h, <2>2
    <3>2. PICK k \in DOMAIN Paths[healthy[m]] : e = Paths[healthy[m]][k]
      BY <1>a, <1>h, <3>1, PathFacts
    <3>3. CASE IsActive(healthy[m], e)
      BY <1>5, <1>6, <1>h, <3>1, <3>3, ActiveFacts
    <3>4. CASE ~IsActive(healthy[m], e)
      BY <1>1, <1>2, <1>h, <2>2, <3>2, <3>4 DEF Quiet
    <3> QED
      BY <3>3, <3>4
  <2> QED
    BY <1>3, <1>f, <2>1, <2>2 DEF StaysDown
<1>12. ToSet(plan) \cup secondary \cup lastResort \cup AllPaths(down)
          = {e \in Endpoints : ~drained[Owner(e)]}
  BY <1>10, <1>11, <1>f
<1>13. \A u \in ToSet(aside) : \A e \in PathsOf(u) : e \in Endpoints /\ Owner(e) = u
  BY <1>10, OwnerFacts
<1>14. AllPaths(aside) = {e \in Endpoints : drained[Owner(e)]}
  BY <1>10, <1>13, <1>a DEF AllPaths
<1> QED
  BY <1>5, <1>6, <1>7, <1>8, <1>9, <1>12, <1>14

\* A plan finished while nothing changed is tiered as the doc comment says.
LEMMA FinishTiers ==
    ASSUME PlanInv, Finish
    PROVE  QuietPlanTiered'
<1> DEFINE serving == {e \in Endpoints : ~drained[Owner(e)]}
           L == lastResort \cup AllPaths(down)
<1>1. /\ up' = up /\ drained' = drained /\ latency' = latency /\ strategy' = strategy
      /\ moved' = moved /\ at = "finish" /\ \A e : Owner(e)' = Owner(e)
  BY FinishFrame
<1>s. {e \in Endpoints : ~drained'[Owner(e)']} = serving
  BY <1>1
<1>2. SUFFICES ASSUME moved = {}
               PROVE  /\ IsInjective(plan')
                      /\ ToSet(plan') = IF serving = {} THEN Endpoints ELSE serving
                      /\ serving # {} =>
                            /\ \A k, l \in DOMAIN plan' :
                                  k < l => Tier(plan'[k]) <= Tier(plan'[l])
                            /\ HeadOrder'
  <2>1. \A e : Tier(e)' = Tier(e)
    BY <1>1, SameLoads DEF Tier
  <2> QED
    BY <1>1, <1>s, <2>1 DEF QuietPlanTiered
<1>3. /\ Len(plan) = Len(healthy) /\ ByStrategy(healthy)
      /\ \A m \in 1..Len(plan) : Owner(plan[m]) = healthy[m]
      /\ \A e \in ToSet(plan) : Tier(e) = 1
      /\ \A e \in secondary : Tier(e) = 2
      /\ \A e \in L : Tier(e) = 3
      /\ ToSet(plan) \cup secondary \cup L = serving
      /\ AllPaths(aside) = Endpoints \ serving
  BY <1>1, <1>2, QuietFacts
<1> HIDE DEF serving, L
<1>4. PICK b \in Nat, c \in Nat :
              /\ Len(plan) \in Nat /\ Len(plan') \in Nat /\ DOMAIN plan' = 1..Len(plan')
              /\ Len(plan) <= b /\ b <= c /\ c <= Len(plan')
              /\ \A k \in 1..Len(plan) : plan'[k] = plan[k] /\ plan[k] \in ToSet(plan)
              /\ \A e \in ToSet(plan) : \E k \in 1..Len(plan) : plan'[k] = e
              /\ Block(plan', Len(plan), b, secondary)
              /\ Block(plan', b, c, L)
              /\ c # 0 => Len(plan') = c
              /\ c = 0 => Block(plan', 0, Len(plan'), AllPaths(aside))
              /\ \A k \in DOMAIN plan' :
                    k \in 1..Len(plan) \/ k \in (Len(plan) + 1)..b \/ k \in (b + 1)..c
                    \/ (c = 0 /\ k \in (0 + 1)..Len(plan'))
  BY Places DEF L
<1>5. PICK a \in Nat, n \in Nat : a = Len(plan) /\ n = Len(plan')
  BY <1>4
<1>o. a <= b /\ b <= c /\ c <= n /\ (c # 0 => n = c) /\ DOMAIN plan' = 1..n
  BY <1>4, <1>5
<1>6. ToSet(plan') = {plan'[k] : k \in 1..n}
  BY <1>o DEF ToSet
<1>7. CASE c = 0
  <2>1. a = 0 /\ b = 0
    BY <1>o, <1>7
  <2>2. 1..a = {} /\ (a + 1)..b = {} /\ (b + 1)..c = {}
    BY <2>1, <1>7
  <2>3. secondary = {} /\ L = {} /\ ToSet(plan) = {}
    BY <1>4, <1>5, <2>2 DEF Block
  <2>4. serving = {}
    BY <1>3, <2>3
  <2>5. Block(plan', 0, n, Endpoints)
    BY <1>3, <1>4, <1>5, <1>7, <2>4
  <2>6. (0 + 1)..n = 1..n
    OBVIOUS
  <2>7. IsInjective(plan')
    BY <1>o, <2>5, <2>6 DEF Block, IsInjective
  <2>8. ToSet(plan') = Endpoints
    BY <1>6, <2>5, <2>6 DEF Block
  <2> QED
    BY <2>4, <2>7, <2>8
<1>8. CASE c # 0
  <2>1. \A k \in 1..n : k \in 1..a \/ k \in (a + 1)..b \/ k \in (b + 1)..c
    BY <1>o, <1>8
  <2>2. /\ \A k \in 1..a : k \in 1..n
        /\ \A k \in (a + 1)..b : k \in 1..n
        /\ \A k \in (b + 1)..c : k \in 1..n
    BY <1>o
  <2>3. \A k \in 1..a : plan'[k] = plan[k] /\ plan'[k] \in ToSet(plan) /\ Tier(plan'[k]) = 1
    BY <1>3, <1>4, <1>5
  <2>4. \A k \in (a + 1)..b : plan'[k] \in secondary /\ Tier(plan'[k]) = 2
    BY <1>3, <1>4, <1>5 DEF Block
  <2>5. \A k \in (b + 1)..c : plan'[k] \in L /\ Tier(plan'[k]) = 3
    BY <1>3, <1>4, <1>5 DEF Block
  <2>6. ToSet(plan') = serving
    <3>1. \A k \in 1..n : plan'[k] \in serving
      BY <1>3, <2>1, <2>3, <2>4, <2>5
    <3>2. \A e \in ToSet(plan) : \E k \in 1..n : plan'[k] = e
      BY <1>4, <1>5, <2>2
    <3>3. \A e \in secondary : \E k \in 1..n : plan'[k] = e
      BY <1>4, <1>5, <2>2 DEF Block
    <3>4. \A e \in L : \E k \in 1..n : plan'[k] = e
      BY <1>4, <1>5, <2>2 DEF Block
    <3> QED
      BY <1>3, <1>6, <3>1, <3>2, <3>3, <3>4
  <2>7. serving # {}
    <3>1. 1 \in 1..n
      BY <1>o, <1>8
    <3> QED
      BY <1>6, <2>6, <3>1
  <2>8. IsInjective(plan')
    <3>1. ASSUME NEW k \in 1..n, NEW l \in 1..n, plan'[k] = plan'[l] PROVE k = l
      <4>1. CASE k \in 1..a
        <5>1. l \in 1..a
          BY <2>1, <2>3, <2>4, <2>5, <3>1, <4>1
        <5>2. \A x, y \in 1..Len(plan) : Owner(plan[x]) = Owner(plan[y]) => x = y
          BY <1>1, FinishFacts
        <5> QED
          BY <1>5, <2>3, <3>1, <4>1, <5>1, <5>2
      <4>2. CASE k \in (a + 1)..b
        <5>1. l \in (a + 1)..b
          BY <2>1, <2>3, <2>4, <2>5, <3>1, <4>2
        <5> QED
          BY <1>4, <1>5, <3>1, <4>2, <5>1 DEF Block
      <4>3. CASE k \in (b + 1)..c
        <5>1. l \in (b + 1)..c
          BY <2>1, <2>3, <2>4, <2>5, <3>1, <4>3
        <5> QED
          BY <1>4, <3>1, <4>3, <5>1 DEF Block
      <4> QED
        BY <2>1, <4>1, <4>2, <4>3
    <3> QED
      BY <1>o, <3>1 DEF IsInjective
  <2>9. ASSUME NEW k \in 1..n, NEW l \in 1..n, k < l
        PROVE  Tier(plan'[k]) <= Tier(plan'[l])
    <3>1. /\ l \in 1..a => k \in 1..a
          /\ l \in (a + 1)..b => k \in 1..a \/ k \in (a + 1)..b
      BY <1>o, <2>9
    <3> QED
      BY <2>1, <2>3, <2>4, <2>5, <3>1
  <2>10. HeadOrder'
    <3> DEFINE heads == {k \in DOMAIN plan' : Tier(plan'[k]) = 1}
    <3>1. heads = 1..a
      <4>1. \A k \in 1..n : Tier(plan'[k]) = 1 => k \in 1..a
        BY <2>1, <2>4, <2>5
      <4> QED
        BY <1>o, <2>2, <2>3, <4>1
    <3>2. \A k \in 1..a : Owner(plan'[k]) = healthy[k]
      BY <1>3, <1>5, <2>3
    <3>3. /\ \A e : Tier(e)' = Tier(e)
          /\ \A u : EffectiveLatency(u)' = EffectiveLatency(u)
          /\ \A e : Owner(e)' = Owner(e)
      BY <1>1, SameLoads DEF Tier
    <3>4. {k \in DOMAIN plan' : Tier(plan[k])' = 1} = 1..a
      BY <3>1, <3>3
    <3>5. DOMAIN healthy = 1..a /\ Len(healthy) = a
      <4>1. healthy \in Seq(Names)
        BY DEF PlanInv, TypeOK
      <4> QED
        BY <1>3, <1>5, <4>1, LenProperties
    <3>6. ByStrategy(healthy)
      BY <1>3
    <3>7. CASE strategy = "failover"
      <4>1. \A k, l \in 1..a : k < l => Rank(healthy[k]) < Rank(healthy[l])
        BY <3>5, <3>6, <3>7 DEF ByStrategy, InOrder
      <4>2. \A k, l \in 1..a :
               k < l => Position(Upstreams, Owner(plan[k])') < Position(Upstreams, Owner(plan[l])')
        BY <3>2, <3>3, <4>1 DEF Rank
      <4> QED
        BY <1>1, <3>4, <3>7, <4>2 DEF HeadOrder
    <3>8. CASE strategy = "round-robin"
      <4>1. PICK last \in 0..a : \A k, l \in 1..a :
               k < l => IF k <= last /\ last < l
                        THEN Rank(healthy[l]) < Rank(healthy[k])
                        ELSE Rank(healthy[k]) < Rank(healthy[l])
        BY <3>5, <3>6, <3>8 DEF ByStrategy
      <4>2. \A k, l \in 1..a :
               k < l => IF k <= last /\ last < l
                        THEN Position(Upstreams, Owner(plan[l])')
                                < Position(Upstreams, Owner(plan[k])')
                        ELSE Position(Upstreams, Owner(plan[k])')
                                < Position(Upstreams, Owner(plan[l])')
        BY <3>2, <3>3, <4>1 DEF Rank
      <4>3. last \in 1..a \cup {0}
        BY <4>1
      <4> QED
        BY <1>1, <3>4, <3>8, <4>2, <4>3 DEF HeadOrder
    <3>9. CASE strategy = "least-latency"
      <4>1. \A k, l \in 1..a :
               k < l => EffectiveLatency(healthy[k]) <= EffectiveLatency(healthy[l])
        BY <3>5, <3>6, <3>9 DEF ByStrategy
      <4>2. \A k, l \in 1..a :
               k < l => EffectiveLatency(Owner(plan[k]))' <= EffectiveLatency(Owner(plan[l]))'
        BY <3>2, <3>3, <4>1
      <4> QED
        BY <1>1, <3>4, <3>9, <4>2 DEF HeadOrder
    <3>10. CASE strategy \notin {"failover", "round-robin", "least-latency"}
      BY <1>1, <3>10 DEF HeadOrder
    <3> QED
      BY <3>7, <3>8, <3>9, <3>10
  <2> QED
    BY <1>o, <2>6, <2>7, <2>8, <2>9, <2>10
<1> QED
  BY <1>7, <1>8

-----------------------------------------------------------------------------
(***************************************************************************)
(* The theorems.                                                           *)
(***************************************************************************)

\* The shuffles and the last lists end the plan.
LEMMA FinishInv ==
    ASSUME PlanInv, Finish
    PROVE  PlanInv'
<1>1. TypeOK /\ Bounds
  BY DEF PlanInv
<1>2. /\ at = "finish" /\ at' = "done" /\ plan' \in Seq(Endpoints)
      /\ UNCHANGED <<shared, rr, i, j, lists, active, secondary, lastResort, moved, sorting>>
  BY FinishShape DEF Finish
<1>3. TypeOK'
  BY <1>1, <1>2 DEF TypeOK, shared, lists
<1>4. Bounds'
  BY <1>1, <1>2 DEF Bounds, Scanning, Walking, lists
<1> QED
  BY <1>2, <1>3, <1>4 DEF PlanInv

\* The next query finds Plan as the first one did.
LEMMA ReturnInv ==
    ASSUME PlanInv, Return
    PROVE  PlanInv'
<1>1. /\ at = "done" /\ at' = "idle" /\ i' = 1 /\ j' = 1
      /\ healthy' = <<>> /\ down' = <<>> /\ aside' = <<>> /\ active' = None
      /\ plan' = <<>> /\ secondary' = {} /\ lastResort' = {} /\ moved' = {}
      /\ up' = up /\ drained' = drained /\ latency' = latency /\ strategy' = strategy
      /\ rr' = rr /\ sorting' = sorting
  BY DEF Return, shared
<1>2. TypeOK /\ ~sorting
  BY <1>1 DEF PlanInv, Bounds
<1>3. /\ \A S : <<>> \in Seq(S)
      /\ Len(<<>>) = 0 /\ DOMAIN <<>> = {} /\ ToSet(<<>>) = {} /\ IsInjective(<<>>)
  BY DEF ToSet, IsInjective
<1>4. TypeOK'
  <2>1. i' \in 1..Len(Upstreams) /\ j' \in Nat \ {0}
    BY <1>1, UpstreamFacts
  <2> QED
    BY <1>1, <1>2, <1>3, <2>1 DEF TypeOK
<1>5. Bounds'
  BY <1>1, <1>2, <1>3, UpstreamFacts DEF Bounds, Scanning, Walking
<1>6. Classified'
  BY <1>1, <1>3 DEF Classified, Passed
<1>7. NonePassed' /\ FirstTier' /\ SecondTier' /\ LastTier'
  BY <1>1, <1>3 DEF NonePassed, FirstTier, SecondTier, LastTier, Scanning, Classifying, Heads
<1>8. Quiet'
  BY <1>1, <1>3 DEF Quiet, Classifying, InOrder, Heads
<1> QED
  BY <1>4, <1>5, <1>6, <1>7, <1>8 DEF PlanInv

\* A step that changes nothing.
LEMMA StutterInv ==
    ASSUME PlanInv, UNCHANGED vars
    PROVE  PlanInv'
<1>1. /\ at' = at /\ i' = i /\ j' = j /\ healthy' = healthy /\ down' = down /\ aside' = aside
      /\ active' = active /\ plan' = plan /\ secondary' = secondary /\ up' = up
      /\ lastResort' = lastResort /\ sorting' = sorting /\ moved' = moved
      /\ drained' = drained /\ latency' = latency /\ strategy' = strategy /\ rr' = rr
  BY DEF vars, shared, lists, tiers
<1>2. /\ This' = This /\ Heads' = Heads /\ Passed' = Passed
      /\ Scanning' = Scanning /\ Walking' = Walking /\ Classifying' = Classifying
      /\ \A m, k : Checked(m, k)' = Checked(m, k) /\ Looked(m, k)' = Looked(m, k)
      /\ \A e : StaysUp(e)' = StaysUp(e) /\ StaysDown(e)' = StaysDown(e)
      /\ \A e : Owner(e)' = Owner(e) /\ Preferred(e)' = Preferred(e)
      /\ \A u : MarkStable(u)' = MarkStable(u)
  BY <1>1 DEF This, Listed, Heads, Passed, Scanning, Walking, Classifying, Checked, Looked,
              Behind, StaysUp, StaysDown, PathStable, MarkStable, Owner, Preferred
<1>3. /\ \A u, e : IsActive(u, e)' = IsActive(u, e)
      /\ \A u : EffectiveLatency(u)' = EffectiveLatency(u)
      /\ \A u : Rank(u)' = Rank(u)
  BY <1>1, SameLoads DEF Rank, Position
<1>4. TypeOK' /\ Bounds'
  BY <1>1, <1>2 DEF PlanInv, TypeOK, Bounds
<1>5. Classified => Classified'
  BY <1>1, <1>2 DEF Classified
<1>6. NonePassed => NonePassed'
  BY <1>1, <1>2 DEF NonePassed
<1>7. FirstTier => FirstTier'
  BY <1>1, <1>2 DEF FirstTier
<1>8. SecondTier => SecondTier'
  BY <1>1, <1>2 DEF SecondTier
<1>9. LastTier => LastTier'
  BY <1>1, <1>2 DEF LastTier
<1>10. InOrder(healthy) => InOrder(healthy)'
  BY <1>1, <1>3 DEF InOrder
<1>11. ByStrategy(healthy) => ByStrategy(healthy)'
  BY <1>1, <1>3, <1>10 DEF ByStrategy
<1>12. Quiet => Quiet'
  BY <1>1, <1>2, <1>3, <1>10, <1>11 DEF Quiet
<1> QED
  BY <1>1, <1>4, <1>5, <1>6, <1>7, <1>8, <1>9, <1>12 DEF PlanInv

\* Every step keeps the invariant.
LEMMA PlanStep ==
    ASSUME PlanInv, [Next]_vars
    PROVE  PlanInv'
<1>1. CASE Start
  BY <1>1, StartInv
<1>2. CASE Mark
  BY <1>2, MarkInv
<1>3. CASE Scan
  <2>1. at \in {"scan", "first", "active"}
    BY <1>3 DEF Scan
  <2> QED
    BY <1>3, <2>1, SwitchInv, FirstInv, ActiveInv
<1>4. CASE Order
  BY <1>4, OrderInv
<1>5. CASE Collect
  BY <1>5, CollectInv
<1>6. CASE Finish
  BY <1>6, FinishInv
<1>7. CASE Return
  BY <1>7, ReturnInv
<1>8. CASE \E e \in Endpoints : Turn(e) \/ Measure(e)
  BY <1>8, TurnInv, MeasureInv
<1>9. CASE \E u \in Names : SetDrained(u)
  BY <1>9, SetDrainedInv
<1>10. CASE UNCHANGED vars
  BY <1>10, StutterInv
<1> QED
  BY <1>1, <1>2, <1>3, <1>4, <1>5, <1>6, <1>7, <1>8, <1>9, <1>10 DEF Next

\* A plan is only done by Finish, and then nothing moves until it is returned.
LEMMA DoneStep ==
    ASSUME PlanInv, [Next]_vars, at' = "done"
    PROVE  Finish \/ UNCHANGED vars
<1>1. ~Start /\ ~Return
  BY DEF Start, Return
<1>2. ASSUME Mark PROVE FALSE
  BY <1>2 DEF Mark, Proceed, Again, After
<1>3. ASSUME Scan PROVE FALSE
  BY <1>3 DEF Scan, Scanned, Proceed, Again, After
<1>4. ASSUME Order PROVE FALSE
  BY <1>4 DEF Order
<1>5. ASSUME Collect PROVE FALSE
  BY <1>5 DEF Collect, Proceed, Again, After
<1>6. ASSUME NEW what, Changes(what) PROVE FALSE
  BY <1>6 DEF Changes
<1>7. ~(\E e \in Endpoints : Turn(e) \/ Measure(e)) /\ ~(\E u \in Names : SetDrained(u))
  BY <1>6 DEF Turn, Measure, SetDrained
<1> QED
  BY <1>1, <1>2, <1>3, <1>4, <1>5, <1>7 DEF Next

\* A finished plan that nothing touches keeps what was true of it.
LEMMA DoneStutter ==
    ASSUME UNCHANGED vars
    PROVE  /\ DownPathsKept => DownPathsKept'
           /\ PreferredPathFirst => PreferredPathFirst'
           /\ DrainedSkipped => DrainedSkipped'
           /\ QuietPlanTiered => QuietPlanTiered'
<1>1. /\ at' = at /\ plan' = plan /\ up' = up /\ moved' = moved
      /\ drained' = drained /\ latency' = latency /\ strategy' = strategy
  BY DEF vars, shared, lists, tiers
<1>2. /\ \A e : /\ Owner(e)' = Owner(e) /\ Preferred(e)' = Preferred(e)
                /\ PathStable(e)' = PathStable(e) /\ InService(e)' = InService(e)
                /\ Times(e)' = Times(e)
      /\ \A u : MarkStable(u)' = MarkStable(u)
      /\ \A d, e : Before(d, e)' = Before(d, e)
      /\ Done' = Done
  BY <1>1 DEF Owner, Preferred, PathStable, InService, MarkStable, Times, Before, Done
<1>3. DownPathsKept => DownPathsKept'
  BY <1>1, <1>2 DEF DownPathsKept
<1>4. PreferredPathFirst => PreferredPathFirst'
  BY <1>1, <1>2 DEF PreferredPathFirst
<1>5. DrainedSkipped => DrainedSkipped'
  BY <1>1, <1>2 DEF DrainedSkipped
<1>6. /\ \A u : EffectiveLatency(u)' = EffectiveLatency(u)
      /\ \A e : Tier(e)' = Tier(e)
  BY <1>1, <1>2, SameLoads DEF Tier
<1>7. HeadOrder => HeadOrder'
  <2> SUFFICES ASSUME HeadOrder PROVE HeadOrder'
    OBVIOUS
  <2> DEFINE heads == {k \in DOMAIN plan : Tier(plan[k]) = 1}
             rank(k) == Position(Upstreams, Owner(plan[k]))
             cost(k) == EffectiveLatency(Owner(plan[k]))
  <2>1. heads' = heads
    BY <1>1, <1>6
  <2>2. \A k : rank(k)' = rank(k)
    BY <1>1, <1>2 DEF Position
  <2>3. \A k : cost(k)' = cost(k)
    BY <1>1, <1>2, <1>6
  <2>4. CASE strategy = "failover"
    BY <1>1, <2>1, <2>2, <2>4 DEF HeadOrder
  <2>5. CASE strategy = "round-robin"
    <3>1. PICK last \in heads \cup {0} : \A k, l \in heads :
             k < l => IF k <= last /\ last < l THEN rank(l) < rank(k) ELSE rank(k) < rank(l)
      BY <2>5 DEF HeadOrder
    <3>2. \A k, l \in heads' :
             k < l => IF k <= last /\ last < l THEN rank(l)' < rank(k)' ELSE rank(k)' < rank(l)'
      BY <2>1, <2>2, <3>1
    <3> QED
      BY <1>1, <2>1, <2>5, <3>1, <3>2 DEF HeadOrder
  <2>6. CASE strategy = "least-latency"
    BY <1>1, <2>1, <2>3, <2>6 DEF HeadOrder
  <2>7. CASE strategy \notin {"failover", "round-robin", "least-latency"}
    BY <1>1, <2>7 DEF HeadOrder
  <2> QED
    BY <2>4, <2>5, <2>6, <2>7
<1>8. QuietPlanTiered => QuietPlanTiered'
  BY <1>1, <1>2, <1>6, <1>7 DEF QuietPlanTiered
<1> QED
  BY <1>3, <1>4, <1>5, <1>8

\* The state of Plan and of what it reads keeps its types: no step of Plan appends
\* a nil endpoint to a list or runs past one, whatever other goroutines store
\* between its loads.
THEOREM PlanningTypeOK == Spec => []TypeOK
<1>1. PlanInv => TypeOK
  BY DEF PlanInv
<1> QED
  BY <1>1, PlanInit, PlanStep, PTL DEF Spec

\* The fail-open tier loses nothing: Plan plans a path that stays down exactly
\* once, for any pool and whatever else changes while it runs.
THEOREM DownPathsKeptAlways == Spec => []DownPathsKept
<1>1. Init => DownPathsKept
  BY DEF Init, DownPathsKept, Done
<1>2. PlanInv /\ [Next]_vars /\ DownPathsKept => DownPathsKept'
  <2>1. at' # "done" => DownPathsKept'
    BY DEF DownPathsKept, Done
  <2> QED
    BY <2>1, DoneStep, FinishKeeps, DoneStutter
<1> QED
  BY <1>1, <1>2, PlanInit, PlanStep, PTL DEF Spec

\* An upstream's first path that stays healthy is planned exactly once, ahead of
\* the paths that stay down and of its upstream's other steady paths.
THEOREM PreferredPathFirstAlways == Spec => []PreferredPathFirst
<1>1. Init => PreferredPathFirst
  BY DEF Init, PreferredPathFirst, Done
<1>2. PlanInv /\ [Next]_vars /\ PreferredPathFirst => PreferredPathFirst'
  <2>1. at' # "done" => PreferredPathFirst'
    BY DEF PreferredPathFirst, Done
  <2> QED
    BY <2>1, DoneStep, FinishPrefers, DoneStutter
<1> QED
  BY <1>1, <1>2, PlanInit, PlanStep, PTL DEF Spec

\* Plan leaves a drained Pi-hole out while a path of another one was either down
\* or preferred and healthy all along.
THEOREM DrainedSkippedAlways == Spec => []DrainedSkipped
<1>1. Init => DrainedSkipped
  BY DEF Init, DrainedSkipped, Done
<1>2. PlanInv /\ [Next]_vars /\ DrainedSkipped => DrainedSkipped'
  <2>1. at' # "done" => DrainedSkipped'
    BY DEF DrainedSkipped, Done
  <2> QED
    BY <2>1, DoneStep, FinishSkips, DoneStutter
<1> QED
  BY <1>1, <1>2, PlanInit, PlanStep, PTL DEF Spec

\* A plan made while nothing changes has every path of the upstreams in service
\* once, tier by tier, the preferred ones in the order the strategy asks for;
\* drained upstreams only when every upstream is drained (Plan's doc comment).
THEOREM QuietPlanTieredAlways == Spec => []QuietPlanTiered
<1>1. Init => QuietPlanTiered
  BY DEF Init, QuietPlanTiered, Done
<1>2. PlanInv /\ [Next]_vars /\ QuietPlanTiered => QuietPlanTiered'
  <2>1. at' # "done" => QuietPlanTiered'
    BY DEF QuietPlanTiered, Done
  <2> QED
    BY <2>1, DoneStep, FinishTiers, DoneStutter
<1> QED
  BY <1>1, <1>2, PlanInit, PlanStep, PTL DEF Spec
=============================================================================
