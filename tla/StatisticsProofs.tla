------------------------- MODULE StatisticsProofs -------------------------
(***************************************************************************)
(* Proofs about Statistics, for any Pi-holes, number of queries in flight, *)
(* period, ring size and time zones: every query is under one heading,     *)
(* a removed name is on show for no more queries than were in flight with  *)
(* it, and the history shows no query twice and, where the local clock     *)
(* keeps step, misses none.                                                *)
(***************************************************************************)
EXTENDS Statistics, FiniteSetTheorems, TLAPS

-----------------------------------------------------------------------------
(***************************************************************************)
(* Sums.  SumFunction is a recursive function on the subsets of the domain *)
(* that takes out one element at a time; it is well defined on a finite    *)
(* domain, and a change to one value changes it by as much.                *)
(***************************************************************************)
Pick(s) == CHOOSE x \in s : TRUE

\* What the recursion asks of g at s.
SumsAt(g, f, s) == g[s] = IF s = {} THEN 0 ELSE f[Pick(s)] + g[s \ {Pick(s)}]

Sums(g, f) == g = [s \in SUBSET Names |-> IF s = {} THEN 0 ELSE f[Pick(s)] + g[s \ {Pick(s)}]]

\* A property of the numbers that fails somewhere fails at some number first.
LEMMA LeastElement ==
    ASSUME NEW T \in SUBSET Nat, T # {}
    PROVE  \E m \in T : \A k \in T : m <= k
<1>1. PICK m \in T : \A k \in T : ~(<<k, m>> \in OpToRel(<, Nat))
  BY NatLessThanWellFounded, WFMin, Zenon
<1>2. ASSUME NEW k \in T PROVE ~(k < m)
  BY <1>1, <1>2, Zenon DEF OpToRel
<1>3. \A k \in T : m <= k
  BY <1>2
<1> QED
  BY <1>3

\* Taking out the picked element leaves a smaller set.
LEMMA Smaller ==
    ASSUME NEW s \in SUBSET Names
    PROVE  /\ Cardinality(s) \in Nat
           /\ Cardinality(s) = 0 <=> s = {}
           /\ s # {} => /\ Pick(s) \in s /\ s \ {Pick(s)} \in SUBSET Names
                        /\ Cardinality(s \ {Pick(s)}) = Cardinality(s) - 1
<1>1. IsFiniteSet(s)
  BY NamesAssumption, FS_Subset
<1>2. s # {} => Pick(s) \in s
  BY DEF Pick
<1>3. s # {} => Cardinality(s \ {Pick(s)}) = Cardinality(s) - 1
  BY <1>1, <1>2, FS_RemoveElement
<1> QED
  BY <1>1, <1>2, <1>3, FS_CardinalityType, FS_EmptySet

\* A function that sums the sets of at most k elements, for every k.
Summable(f, k) ==
    \E g \in [SUBSET Names -> Nat] :
        \A s \in SUBSET Names : Cardinality(s) <= k => SumsAt(g, f, s)

\* The empty set is summed by 0.
LEMMA SummableZero ==
    ASSUME NEW f \in [Names -> Nat]
    PROVE  Summable(f, 0)
<1> DEFINE g == [s \in SUBSET Names |-> 0]
<1>1. g \in [SUBSET Names -> Nat]
  OBVIOUS
<1>2. ASSUME NEW s \in SUBSET Names, Cardinality(s) <= 0 PROVE SumsAt(g, f, s)
  <2>0. Cardinality(s) \in Nat /\ (Cardinality(s) = 0 <=> s = {})
    BY Smaller
  <2>1. s = {}
    BY <1>2, <2>0
  <2>2. g[s] = 0
    OBVIOUS
  <2> HIDE DEF g
  <2> QED
    BY <2>1, <2>2 DEF SumsAt
<1> QED
  BY <1>1, <1>2 DEF Summable

\* Sets of one element more are summed from those.
LEMMA SummableStep ==
    ASSUME NEW f \in [Names -> Nat], NEW k \in Nat, Summable(f, k)
    PROVE  Summable(f, k + 1)
<1>1. PICK g \in [SUBSET Names -> Nat] :
             \A s \in SUBSET Names : Cardinality(s) <= k => SumsAt(g, f, s)
  BY DEF Summable
<1> DEFINE Rest(s) == s \ {Pick(s)}
           h == [s \in SUBSET Names |->
                   IF Cardinality(s) <= k \/ s = {} THEN g[s] ELSE f[Pick(s)] + g[Rest(s)]]
<1>2. h \in [SUBSET Names -> Nat]
  <2>1. ASSUME NEW s \in SUBSET Names, s # {} PROVE f[Pick(s)] + g[Rest(s)] \in Nat
    <3>1. f[Pick(s)] \in Nat /\ g[Rest(s)] \in Nat
      BY <2>1, Smaller
    <3> QED
      BY <3>1
  <2> QED
    BY <2>1
<1>3. ASSUME NEW s \in SUBSET Names, Cardinality(s) <= k + 1 PROVE SumsAt(h, f, s)
  <2>1. CASE s = {}
    <3>0. Cardinality(s) = 0
      BY <2>1, Smaller
    <3>1. Cardinality(s) <= k
      BY <3>0
    <3>2. h[s] = g[s]
      BY <2>1
    <3> QED
      BY <1>1, <2>1, <3>1, <3>2 DEF SumsAt
  <2>2. CASE s # {}
    <3>1. /\ Rest(s) \in SUBSET Names /\ Cardinality(Rest(s)) = Cardinality(s) - 1
          /\ Cardinality(s) \in Nat
      BY <2>2, Smaller
    <3>2. Cardinality(Rest(s)) <= k
      BY <1>3, <3>1
    <3>3. h[Rest(s)] = g[Rest(s)]
      BY <3>1, <3>2
    <3>4. h[s] = f[Pick(s)] + g[Rest(s)]
      <4>1. CASE Cardinality(s) <= k
        BY <1>1, <2>2, <4>1 DEF SumsAt
      <4>2. CASE ~(Cardinality(s) <= k)
        BY <2>2, <4>2
      <4> QED
        BY <4>1, <4>2
    <3> HIDE DEF h
    <3> QED
      BY <2>2, <3>3, <3>4 DEF SumsAt
  <2> QED
    BY <2>1, <2>2
<1> HIDE DEF h
<1> QED
  BY <1>2, <1>3 DEF Summable

\* So there is a function that sums every subset.
LEMMA SumExists ==
    ASSUME NEW f \in [Names -> Nat]
    PROVE  \E g \in [SUBSET Names -> Nat] : Sums(g, f)
<1> DEFINE T == {k \in Nat : ~Summable(f, k)}
<1>1. T = {}
  <2> SUFFICES ASSUME T # {} PROVE FALSE
    OBVIOUS
  <2>1. PICK m \in T : \A k \in T : m <= k
    BY LeastElement
  <2>2. m # 0 /\ m \in Nat /\ ~Summable(f, m)
    BY <2>1, SummableZero
  <2>3. m - 1 \in Nat /\ ~(m <= m - 1) /\ (m - 1) + 1 = m
    BY <2>2
  <2>4. Summable(f, m - 1)
    BY <2>1, <2>3
  <2> QED
    BY <2>2, <2>3, <2>4, SummableStep
<1>2. Cardinality(Names) \in Nat
  BY NamesAssumption, FS_CardinalityType
<1>3. PICK g \in [SUBSET Names -> Nat] :
             \A s \in SUBSET Names : Cardinality(s) <= Cardinality(Names) => SumsAt(g, f, s)
  BY <1>1, <1>2 DEF Summable
<1>4. \A s \in SUBSET Names : SumsAt(g, f, s)
  BY <1>3, NamesAssumption, FS_Subset
<1> QED
  BY <1>4 DEF Sums, SumsAt

\* SumFunction is one of them.
LEMMA SumIsSums ==
    ASSUME NEW f \in [Names -> Nat]
    PROVE  \E g : Sums(g, f) /\ SumFunction(f) = g[Names]
<1> DEFINE iter[s \in SUBSET Names] == IF s = {} THEN 0 ELSE f[Pick(s)] + iter[s \ {Pick(s)}]
<1>1. DOMAIN f = Names
  OBVIOUS
<1>2. SumFunction(f) = iter[Names]
  BY <1>1, Zenon DEF SumFunction, SumFunctionOnSet, FoldFunctionOnSet, MapThenFoldSet, Pick
<1>3. \E g : Sums(g, f)
  BY SumExists
<1>4. Sums(iter, f)
  BY <1>3, Zenon DEF Sums
<1> QED
  BY <1>2, <1>4

\* Induction on sets of names: what holds of the empty set, and of a set when
\* it holds of the set without its picked element, holds of every set.
LEMMA PickInduction ==
    ASSUME NEW P \in SUBSET (SUBSET Names), {} \in P,
           \A s \in SUBSET Names : s # {} /\ s \ {Pick(s)} \in P => s \in P
    PROVE  \A s \in SUBSET Names : s \in P
<1> DEFINE T == {Cardinality(s) : s \in (SUBSET Names) \ P}
<1> SUFFICES ASSUME T # {} PROVE FALSE
  OBVIOUS
<1>1. T \in SUBSET Nat
  <2>1. \A s \in SUBSET Names : Cardinality(s) \in Nat
    BY Smaller
  <2> QED
    BY <2>1
<1>2. PICK m \in T : \A k \in T : m <= k
  BY <1>1, LeastElement
<1>3. PICK s \in (SUBSET Names) \ P : Cardinality(s) = m
  BY <1>2
<1>4. s # {}
  BY <1>3
<1> DEFINE r == s \ {Pick(s)}
<1>5. r \in SUBSET Names /\ Cardinality(r) = Cardinality(s) - 1 /\ Cardinality(s) \in Nat
  BY <1>3, <1>4, Smaller
<1>6. r \notin P
  BY <1>3, <1>4
<1>7. Cardinality(r) \in T
  BY <1>5, <1>6
<1>8. m <= Cardinality(r)
  BY <1>2, <1>7
<1> QED
  BY <1>3, <1>5, <1>8

\* A sum, one element at a time.
LEMMA SumsFacts ==
    ASSUME NEW f \in [Names -> Nat], NEW g, Sums(g, f)
    PROVE  /\ g[{}] = 0
           /\ \A s \in SUBSET Names : s # {} => g[s] = f[Pick(s)] + g[s \ {Pick(s)}]
           /\ \A s \in SUBSET Names : g[s] \in Nat
<1>1. \A s \in SUBSET Names : g[s] = IF s = {} THEN 0 ELSE f[Pick(s)] + g[s \ {Pick(s)}]
  BY Zenon DEF Sums
<1>2. g[{}] = 0 /\ \A s \in SUBSET Names : s # {} => g[s] = f[Pick(s)] + g[s \ {Pick(s)}]
  BY <1>1
<1> DEFINE P == {s \in SUBSET Names : g[s] \in Nat}
<1>3. {} \in P
  BY <1>2
<1>4. ASSUME NEW s \in SUBSET Names, s # {}, s \ {Pick(s)} \in P PROVE s \in P
  <2>1. f[Pick(s)] \in Nat
    BY <1>4, Smaller
  <2>2. g[s \ {Pick(s)}] \in Nat
    BY <1>4
  <2>3. g[s] = f[Pick(s)] + g[s \ {Pick(s)}]
    BY <1>2, <1>4
  <2>4. g[s] \in Nat
    BY <2>1, <2>2, <2>3
  <2> QED
    BY <2>4
<1>5. P \in SUBSET (SUBSET Names)
  OBVIOUS
<1> HIDE DEF P
<1>6. \A s \in SUBSET Names : s \in P
  BY <1>3, <1>4, <1>5, PickInduction
<1> QED
  BY <1>2, <1>6 DEF P

\* Changing one value changes the sums it is in by as much, and no other.
LEMMA SumsChange ==
    ASSUME NEW f \in [Names -> Nat], NEW n \in Names, NEW v \in Nat,
           NEW e \in [Names -> Nat], e[n] = v, \A x \in Names : x # n => e[x] = f[x],
           NEW g, Sums(g, f), NEW h, Sums(h, e)
    PROVE  \A s \in SUBSET Names : h[s] = IF n \in s THEN g[s] - f[n] + v ELSE g[s]
<1> DEFINE Right(s) == h[s] = IF n \in s THEN g[s] - f[n] + v ELSE g[s]
           P == {s \in SUBSET Names : Right(s)}
<1>0. f[n] \in Nat
  OBVIOUS
<1>1. /\ g[{}] = 0
      /\ \A s \in SUBSET Names : s # {} => g[s] = f[Pick(s)] + g[s \ {Pick(s)}]
      /\ \A s \in SUBSET Names : g[s] \in Nat
  BY SumsFacts
<1>2. /\ h[{}] = 0
      /\ \A s \in SUBSET Names : s # {} => h[s] = e[Pick(s)] + h[s \ {Pick(s)}]
      /\ \A s \in SUBSET Names : h[s] \in Nat
  BY SumsFacts
<1>3. Right({})
  BY <1>1, <1>2
<1>4. ASSUME NEW s \in SUBSET Names, s # {}, Right(s \ {Pick(s)}) PROVE Right(s)
  <2> DEFINE r == s \ {Pick(s)}
  <2>1. Pick(s) \in s /\ Pick(s) \in Names /\ r \in SUBSET Names
    BY <1>4, Smaller
  <2>2. /\ g[s] = f[Pick(s)] + g[r] /\ h[s] = e[Pick(s)] + h[r]
        /\ g[r] \in Nat /\ h[r] \in Nat /\ f[Pick(s)] \in Nat
    BY <1>1, <1>2, <1>4, <2>1
  <2>3. CASE Pick(s) = n
    <3>1. n \notin r /\ n \in s
      BY <2>1, <2>3
    <3>2. h[r] = g[r]
      BY <1>4, <3>1
    <3> HIDE DEF r
    <3> QED
      BY <1>0, <2>2, <2>3, <3>1, <3>2
  <2>4. CASE Pick(s) # n
    <3>1. n \in r <=> n \in s
      BY <2>1, <2>4
    <3>2. h[r] = IF n \in r THEN g[r] - f[n] + v ELSE g[r]
      BY <1>4
    <3>3. e[Pick(s)] = f[Pick(s)]
      BY <1>0, <2>1, <2>4
    <3> HIDE DEF r
    <3> QED
      BY <1>0, <2>2, <3>1, <3>2, <3>3
  <2> QED
    BY <2>3, <2>4
<1> HIDE DEF Right
<1>5. P \in SUBSET (SUBSET Names) /\ {} \in P
  BY <1>3
<1>6. ASSUME NEW s \in SUBSET Names, s # {}, s \ {Pick(s)} \in P PROVE s \in P
  BY <1>4, <1>6
<1>7. \A s \in SUBSET Names : s \in P
  <2> HIDE DEF P
  <2> QED
    BY <1>5, <1>6, PickInduction
<1>8. \A s \in SUBSET Names : Right(s)
  BY <1>7
<1> QED
  BY <1>8 DEF Right

\* The same of SumFunction, which is never less than one of its values.
LEMMA SumChange ==
    ASSUME NEW f \in [Names -> Nat], NEW n \in Names, NEW v \in Nat
    PROVE  /\ SumFunction(f) \in Nat
           /\ f[n] <= SumFunction(f)
           /\ SumFunction([f EXCEPT ![n] = v]) = SumFunction(f) - f[n] + v
<1> DEFINE e == [f EXCEPT ![n] = v]
           z == [f EXCEPT ![n] = 0]
<1>0. /\ e \in [Names -> Nat] /\ e[n] = v /\ \A x \in Names : x # n => e[x] = f[x]
      /\ z \in [Names -> Nat] /\ z[n] = 0 /\ \A x \in Names : x # n => z[x] = f[x]
      /\ f[n] \in Nat /\ Names \in SUBSET Names
  OBVIOUS
<1> HIDE DEF e, z
<1>1. PICK g : Sums(g, f) /\ SumFunction(f) = g[Names]
  BY SumIsSums
<1>2. PICK h : Sums(h, e) /\ SumFunction(e) = h[Names]
  BY <1>0, SumIsSums
<1>3. PICK j : Sums(j, z) /\ SumFunction(z) = j[Names]
  BY <1>0, SumIsSums
<1>4. g[Names] \in Nat /\ j[Names] \in Nat
  BY <1>0, <1>1, <1>3, SumsFacts
<1>5. h[Names] = g[Names] - f[n] + v
  <2>1. \A s \in SUBSET Names : h[s] = IF n \in s THEN g[s] - f[n] + v ELSE g[s]
    BY <1>0, <1>1, <1>2, SumsChange
  <2> QED
    BY <1>0, <2>1
<1>6. j[Names] = g[Names] - f[n] + 0
  <2>1. \A s \in SUBSET Names : j[s] = IF n \in s THEN g[s] - f[n] + 0 ELSE g[s]
    BY <1>0, <1>1, <1>3, SumsChange
  <2> QED
    BY <1>0, <2>1
<1>7. f[n] <= g[Names]
  BY <1>0, <1>4, <1>6
<1> QED
  BY <1>1, <1>2, <1>4, <1>5, <1>7 DEF e

\* Nothing sums to nothing.
LEMMA SumZero == SumFunction([n \in Names |-> 0]) = 0
<1> DEFINE f == [n \in Names |-> 0]
<1>1. f \in [Names -> Nat] /\ \A n \in Names : f[n] = 0
  OBVIOUS
<1> HIDE DEF f
<1>2. PICK g : Sums(g, f) /\ SumFunction(f) = g[Names]
  BY <1>1, SumIsSums
<1>3. /\ g[{}] = 0
      /\ \A s \in SUBSET Names : s # {} => g[s] = f[Pick(s)] + g[s \ {Pick(s)}]
  BY <1>1, <1>2, SumsFacts
<1> DEFINE P == {s \in SUBSET Names : g[s] = 0}
<1>4. P \in SUBSET (SUBSET Names) /\ {} \in P
  BY <1>3
<1>5. ASSUME NEW s \in SUBSET Names, s # {}, s \ {Pick(s)} \in P PROVE s \in P
  <2>1. f[Pick(s)] = 0
    BY <1>1, <1>5, Smaller
  <2>2. g[s \ {Pick(s)}] = 0
    BY <1>5
  <2>3. g[s] = f[Pick(s)] + g[s \ {Pick(s)}]
    BY <1>3, <1>5
  <2>4. g[s] = 0
    BY <2>1, <2>2, <2>3
  <2> QED
    BY <2>4
<1> HIDE DEF P
<1>6. \A s \in SUBSET Names : s \in P
  BY <1>4, <1>5, PickInduction
<1> QED
  BY <1>2, <1>6 DEF P, f
-----------------------------------------------------------------------------
(***************************************************************************)
(* The ring's arithmetic, for any period and any number of slots.          *)
(***************************************************************************)
\* Quotient and remainder.
LEMMA DivMod ==
    ASSUME NEW x \in Nat, NEW d \in Nat \ {0}
    PROVE  /\ x \div d \in Nat /\ x % d \in 0..(d - 1)
           /\ x = d * (x \div d) + (x % d)
OBVIOUS

\* Different multiples are at least one divisor apart.
LEMMA MultiplesApart ==
    ASSUME NEW d \in Nat \ {0}, NEW a \in Nat, NEW b \in Nat, a < b
    PROVE  d * a + d <= d * b
<1>1. PICK k \in Nat : b = a + 1 + k
  <2>1. b - a - 1 \in Nat /\ b = a + 1 + (b - a - 1)
    OBVIOUS
  <2> QED
    BY <2>1
<1>2. d * k \in Nat
  OBVIOUS
<1>3. d * b = d * a + d + d * k
  BY <1>1
<1> QED
  BY <1>2, <1>3

\* The quotient is the only one.
LEMMA Quotient ==
    ASSUME NEW d \in Nat \ {0}, NEW q \in Nat, NEW e \in 0..(d - 1)
    PROVE  (d * q + e) \div d = q
<1> DEFINE x == d * q + e
           p == x \div d
           f == x % d
<1>1. x \in Nat
  OBVIOUS
<1>2. p \in Nat /\ f \in 0..(d - 1) /\ x = d * p + f
  BY <1>1, DivMod
<1>3. d * p \in Int /\ d * q \in Int
  OBVIOUS
<1>4. p < q => d * p + d <= d * q
  BY <1>2, MultiplesApart
<1>5. q < p => d * q + d <= d * p
  BY <1>2, MultiplesApart
<1>6. ~(p < q) /\ ~(q < p)
  <2> HIDE DEF p, f
  <2> QED
    BY <1>2, <1>3, <1>4, <1>5
<1> QED
  BY <1>2, <1>6

\* Numbers in the same place of the ring are a whole cycle apart.
LEMMA CycleApart ==
    ASSUME NEW d \in Nat \ {0}, NEW x \in Nat, NEW y \in Nat, x < y, x % d = y % d
    PROVE  x + d <= y
<1> DEFINE a == x \div d
           b == y \div d
           e == x % d
<1>1. a \in Nat /\ b \in Nat /\ e \in 0..(d - 1) /\ x = d * a + e /\ y = d * b + e
  BY DivMod
<1>2. d * a \in Int /\ d * b \in Int
  OBVIOUS
<1>3. b < a => d * b + d <= d * a
  BY <1>1, MultiplesApart
<1>4. a < b => d * a + d <= d * b
  BY <1>1, MultiplesApart
<1> HIDE DEF a, b, e
<1>5. a < b
  BY <1>1, <1>2, <1>3
<1> QED
  BY <1>1, <1>2, <1>4, <1>5

\* The start of a period is a multiple of Period, at most a period ago.
LEMMA StartFacts ==
    ASSUME NEW t \in Nat
    PROVE  /\ Start(t) = Period * (t \div Period)
           /\ Start(t) \in Nat /\ Start(t) <= t /\ t < Start(t) + Period
           /\ t \div Period \in Nat
<1>1. /\ t \div Period \in Nat /\ t % Period \in 0..(Period - 1)
      /\ t = Period * (t \div Period) + (t % Period)
  BY RingAssumption, DivMod
<1>2. Period * (t \div Period) \in Nat
  BY <1>1, RingAssumption
<1>3. Period \in Nat
  BY RingAssumption
<1> QED
  BY <1>1, <1>2, <1>3 DEF Start

\* The members of Starts.
LEMMA StartsFacts ==
    /\ Starts \subseteq 0..MaxTime
    /\ \A t \in 0..MaxTime : Start(t) \in Starts
    /\ \A s \in Starts : s = Period * (s \div Period) /\ s \div Period \in Nat
<1>1. ASSUME NEW s \in Starts
      PROVE  s \in 0..MaxTime /\ s = Period * (s \div Period) /\ s \div Period \in Nat
  <2>1. PICK t \in 0..MaxTime : s = Start(t)
    BY DEF Starts
  <2>2. t \in Nat /\ MaxTime \in Nat
    BY RingAssumption
  <2>3. /\ s = Period * (t \div Period) /\ s \in Nat /\ s <= t
        /\ t \div Period \in Nat
    BY <2>1, <2>2, StartFacts
  <2>4. (Period * (t \div Period) + 0) \div Period = t \div Period
    <3>1. 0 \in 0..(Period - 1) /\ Period \in Nat \ {0}
      BY RingAssumption
    <3> QED
      BY <2>3, <3>1, Quotient
  <2>5. Period * (t \div Period) + 0 = Period * (t \div Period)
    BY <2>3, RingAssumption
  <2> QED
    BY <2>2, <2>3, <2>4, <2>5
<1>2. \A t \in 0..MaxTime : Start(t) \in Starts
  BY DEF Starts
<1> QED
  BY <1>1, <1>2

\* No period starts between the start of the current one and now.
LEMMA StartIsLast ==
    ASSUME NEW t \in 0..MaxTime, NEW s \in Starts, s <= t
    PROVE  s <= Start(t)
<1>1. t \in Nat /\ Period \in Nat \ {0}
  BY RingAssumption
<1> DEFINE p == s \div Period
           q == t \div Period
<1>2. s = Period * p /\ p \in Nat
  BY StartsFacts
<1>3. Start(t) = Period * q /\ q \in Nat /\ t < Start(t) + Period /\ Start(t) \in Nat
  BY <1>1, StartFacts
<1>4. q < p => Period * q + Period <= Period * p
  BY <1>1, <1>2, <1>3, MultiplesApart
<1>5. p < q => Period * p + Period <= Period * q
  BY <1>1, <1>2, <1>3, MultiplesApart
<1> HIDE DEF p, q
<1>6. Period * p \in Nat /\ Period * q \in Nat
  BY <1>1, <1>2, <1>3
<1> QED
  BY <1>1, <1>2, <1>3, <1>4, <1>5, <1>6

\* Every time has a slot.
LEMMA IndexType ==
    ASSUME zone \in Zones, NEW t \in Nat
    PROVE  Index(t) \in 0..(Slots - 1)
<1>1. zone.from \in Nat /\ zone.to \in Nat
  BY RingAssumption
<1>2. Offset(t) \in Nat
  BY <1>1 DEF Offset
<1>3. t + Offset(t) \in Nat
  BY <1>2
<1>4. (t + Offset(t)) \div Period \in Nat
  BY <1>3, RingAssumption, DivMod
<1> QED
  BY <1>4, RingAssumption, DivMod DEF Index

\* The local clock stays a whole number of periods off.
Flat == zone.from = zone.to /\ zone.from % Period = 0

\* Its slots count the periods.
LEMMA FlatIndex ==
    ASSUME zone \in Zones, Flat, NEW t \in Nat
    PROVE  Index(t) = ((t \div Period) + (zone.from \div Period)) % Slots
<1>1. zone.from \in Nat /\ Period \in Nat \ {0} /\ Offset(t) = zone.from
  BY RingAssumption DEF Flat, Offset
<1> DEFINE p == t \div Period
           e == t % Period
           r == zone.from \div Period
<1>2. p \in Nat /\ e \in 0..(Period - 1) /\ t = Period * p + e
  BY <1>1, DivMod
<1>3. r \in Nat /\ zone.from = Period * r + (zone.from % Period)
  BY <1>1, DivMod
<1>4. zone.from % Period = 0
  BY DEF Flat
<1> HIDE DEF p, e, r
<1>5. zone.from = Period * r
  BY <1>1, <1>3, <1>4
<1>6. t + zone.from = Period * (p + r) + e
  BY <1>1, <1>2, <1>3, <1>5
<1>7. p + r \in Nat
  BY <1>2, <1>3
<1>8. (Period * (p + r) + e) \div Period = p + r
  BY <1>1, <1>2, <1>7, Quotient
<1>9. (t + Offset(t)) \div Period = p + r
  BY <1>1, <1>6, <1>8
<1> QED
  BY <1>9 DEF Index, p, r

\* A time is in the slot of its period.
LEMMA SlotOfStart ==
    ASSUME zone \in Zones, Flat, NEW t \in 0..MaxTime
    PROVE  Index(Start(t)) = Index(t)
<1>0. t \in Nat
  BY RingAssumption
<1>1. /\ t \in Nat /\ Start(t) \in Nat
      /\ Start(t) = Period * (t \div Period) /\ t \div Period \in Nat
  BY <1>0, StartFacts
<1>2. (Period * (t \div Period) + 0) \div Period = t \div Period
  <2>1. 0 \in 0..(Period - 1) /\ Period \in Nat \ {0}
    BY RingAssumption
  <2> QED
    BY <1>1, <2>1, Quotient
<1>3. Period * (t \div Period) + 0 = Start(t)
  BY <1>1
<1>4. Start(t) \div Period = t \div Period
  BY <1>2, <1>3
<1> QED
  BY <1>1, <1>4, FlatIndex

\* Two periods in the same slot are a cycle of the ring apart.
LEMMA SlotsApart ==
    ASSUME zone \in Zones, Flat, NEW s \in Starts, NEW a \in Starts, s < a, Index(s) = Index(a)
    PROVE  s + Slots * Period <= a
<1>1. /\ Period \in Nat \ {0} /\ Slots \in Nat \ {0} /\ s \in Nat /\ a \in Nat
      /\ zone.from \in Nat
  BY RingAssumption, StartsFacts
<1> DEFINE p == s \div Period
           q == a \div Period
           r == zone.from \div Period
<1>2. p \in Nat /\ q \in Nat /\ s = Period * p /\ a = Period * q
  BY StartsFacts
<1>3. r \in Nat
  BY <1>1, DivMod
<1>4. (p + r) % Slots = (q + r) % Slots
  BY <1>1, FlatIndex
<1> HIDE DEF p, q, r
<1>5. q < p => Period * q + Period <= Period * p
  BY <1>1, <1>2, MultiplesApart
<1>6. Period * p \in Nat /\ Period * q \in Nat
  BY <1>1, <1>2
<1>7. p < q
  BY <1>1, <1>2, <1>5, <1>6
<1>8. p + Slots <= q
  <2>1. (p + r) + Slots <= q + r
    <3>1. p + r \in Nat /\ q + r \in Nat /\ p + r < q + r
      BY <1>2, <1>3, <1>7
    <3> QED
      BY <1>1, <1>4, <3>1, CycleApart
  <2> QED
    BY <1>1, <1>2, <1>3, <2>1
<1>9. PICK k \in Nat : q = p + Slots + k
  <2>1. q - (p + Slots) \in Nat /\ q = p + Slots + (q - (p + Slots))
    BY <1>1, <1>2, <1>8
  <2> QED
    BY <2>1
<1>10. Period * q = Period * p + Slots * Period + Period * k
  BY <1>1, <1>2, <1>9
<1>11. Period * k \in Nat /\ Slots * Period \in Nat
  BY <1>1
<1> QED
  BY <1>1, <1>2, <1>6, <1>10, <1>11
-----------------------------------------------------------------------------
(***************************************************************************)
(* The inductive invariant.                                                *)
(***************************************************************************)
Buckets == [at : Starts \cup {-1}, queries : Nat]

Typed ==
    /\ now \in 0..MaxTime /\ zone \in Zones /\ stepped \in BOOLEAN
    /\ members \in (SUBSET Names) \ {{}}
    /\ removing \subseteq Names \ members
    /\ adding \subseteq members /\ adding # members
    /\ query \in [Queries -> [flying : BOOLEAN, plan : SUBSET Names]]
    /\ total \in 0..MaxRecords
    /\ fallback \in Nat /\ failed \in Nat /\ forgotten \in Nat
    /\ byUpstream \in [Names -> Nat]
    /\ ring \in [0..(Slots - 1) -> Buckets]
    /\ log \in [Starts -> Nat]
    /\ owed \in [Names -> Nat]

\* One change at a time.
Lone ==
    /\ \A n \in removing : removing = {n} /\ adding = {}
    /\ \A n \in adding : adding = {n} /\ removing = {}

\* What is counted for a name that has left, and what may still be: the queries
\* in flight with it only ever become fewer.
Owed ==
    \A n \in Names \ (members \cup removing) :
        byUpstream[n] + Cardinality(Holding(n)) <= owed[n]

\* A slot holds no more queries than its period had, and a period no more than
\* there were.
SlotSound ==
    /\ \A i \in 0..(Slots - 1) :
          IF ring[i].at = -1 THEN ring[i].queries = 0
                             ELSE ring[i].queries <= log[ring[i].at]
    /\ \A s \in Starts : log[s] <= total

\* A period with queries is complete in its slot, or has left it to a later one.
Kept(s) ==
    \/ log[s] = 0
    \/ ring[Index(s)].at = s /\ ring[Index(s)].queries = log[s]
    \/ ring[Index(s)].at > s

\* Where the local clock keeps step, a slot holds a period that belongs there.
InPlace ==
    ~stepped /\ Flat =>
        /\ \A i \in 0..(Slots - 1) :
              ring[i].at # -1 => Index(ring[i].at) = i /\ ring[i].at <= now
        /\ \A s \in Starts : Kept(s)

StatsInv ==
    /\ Typed /\ Lone /\ Owed /\ TotalsAccounted /\ SlotSound /\ InPlace

-----------------------------------------------------------------------------
\* What the records have in common, and how the others differ.
Record(q) == (\E n \in Names : RecordAnswer(q, n)) \/ RecordFallback(q) \/ RecordFailure(q)

Manage(n) ==
    \/ RemoveUpstream(n) \/ RollBack(n) \/ ForgetUpstream(n)
    \/ AddUpstream(n) \/ AddSaved(n) \/ AddRollBack(n)

\* The queries in flight with a name are finitely many.
LEMMA HoldingFacts ==
    ASSUME NEW n
    PROVE  IsFiniteSet(Holding(n)) /\ Cardinality(Holding(n)) \in Nat
<1>1. Holding(n) \in SUBSET Queries
  BY DEF Holding
<1>2. IsFiniteSet(Holding(n))
  BY <1>1, QueriesAssumption, FS_Subset
<1> QED
  BY <1>2, FS_CardinalityType

\* A query that lands, or begins without the name, leaves it with as many or one
\* less.
LEMMA Landed ==
    ASSUME Typed, NEW q \in Queries, NEW r, query' = [query EXCEPT ![q] = r],
           NEW n, n \notin r.plan
    PROVE  /\ Cardinality(Holding(n))' \in Nat
           /\ Cardinality(Holding(n))' <= Cardinality(Holding(n))
           /\ n \in query[q].plan =>
                 Cardinality(Holding(n))' = Cardinality(Holding(n)) - 1
<1>1. \A p \in Queries : query'[p] = IF p = q THEN r ELSE query[p]
  BY DEF Typed
<1>2. Holding(n)' = Holding(n) \ {q}
  BY <1>1 DEF Holding
<1>3. n \in query[q].plan <=> q \in Holding(n)
  BY DEF Holding
<1>4. IsFiniteSet(Holding(n)) /\ Cardinality(Holding(n)) \in Nat
  BY HoldingFacts
<1>5. /\ IsFiniteSet(Holding(n) \ {q})
      /\ Cardinality(Holding(n) \ {q}) =
            IF q \in Holding(n) THEN Cardinality(Holding(n)) - 1 ELSE Cardinality(Holding(n))
  BY <1>4, FS_RemoveElement
<1>6. Cardinality(Holding(n) \ {q}) \in Nat
  BY <1>5, FS_CardinalityType
<1>7. Cardinality(Holding(n))' = Cardinality(Holding(n) \ {q})
  BY <1>2
<1> QED
  BY <1>3, <1>4, <1>5, <1>6, <1>7

\* The bucket a record writes to.
LEMMA CountedFacts ==
    ASSUME StatsInv, Counted
    PROVE  /\ Index(now) \in 0..(Slots - 1) /\ Start(now) \in Starts
           /\ total' = total + 1 /\ total' \in 0..MaxRecords
           /\ ring' = [ring EXCEPT ![Index(now)] = Added(@, Start(now))]
           /\ log' = [log EXCEPT ![Start(now)] = @ + 1]
           /\ Added(ring[Index(now)], Start(now)) \in Buckets
           /\ ring' \in [0..(Slots - 1) -> Buckets] /\ log' \in [Starts -> Nat]
<1>1. now \in 0..MaxTime /\ zone \in Zones /\ now \in Nat
  BY RingAssumption DEF StatsInv, Typed
<1>2. Index(now) \in 0..(Slots - 1) /\ Start(now) \in Starts
  BY <1>1, IndexType, StartsFacts
<1>3. ring[Index(now)] \in Buckets
  BY <1>2 DEF StatsInv, Typed
<1>4. Added(ring[Index(now)], Start(now)) \in Buckets
  BY <1>2, <1>3 DEF Added, Buckets
<1>5. total' = total + 1 /\ total' \in 0..MaxRecords
  BY RingAssumption DEF Counted, StatsInv, Typed
<1>6. /\ ring' = [ring EXCEPT ![Index(now)] = Added(@, Start(now))]
      /\ log' = [log EXCEPT ![Start(now)] = @ + 1]
  BY DEF Counted
<1>7. ring' \in [0..(Slots - 1) -> Buckets]
  BY <1>2, <1>4, <1>6 DEF StatsInv, Typed
<1>8. log' \in [Starts -> Nat]
  BY <1>2, <1>6 DEF StatsInv, Typed
<1> QED
  BY <1>2, <1>4, <1>5, <1>6, <1>7, <1>8

\* A record keeps the history right.
LEMMA CountedHistory ==
    ASSUME StatsInv, Counted, UNCHANGED clock
    PROVE  SlotSound' /\ InPlace'
<1> DEFINE i0 == Index(now)
           s0 == Start(now)
           b == ring[i0]
<1>1. /\ i0 \in 0..(Slots - 1) /\ s0 \in Starts
      /\ total' = total + 1
      /\ ring' = [ring EXCEPT ![i0] = Added(@, s0)]
      /\ log' = [log EXCEPT ![s0] = @ + 1]
  BY CountedFacts
<1>2. /\ ring \in [0..(Slots - 1) -> Buckets] /\ log \in [Starts -> Nat] /\ total \in Nat
      /\ now \in 0..MaxTime /\ zone \in Zones
  BY RingAssumption DEF StatsInv, Typed
<1>3. UNCHANGED <<now, zone, stepped>>
  BY DEF clock
<1>n. \A s \in Starts : s \in Nat /\ s # -1
  BY StartsFacts, RingAssumption
<1>s. s0 \in Nat /\ s0 # -1 /\ now \in Nat
  BY <1>1, <1>2, <1>n, RingAssumption
<1>l. s0 <= now
  BY <1>s, StartFacts
<1>g. \A s \in Starts : s <= now => s <= s0
  BY <1>2, StartIsLast
<1>i. ASSUME NEW CONSTANT t PROVE (Index(t))' = Index(t)
  BY <1>3 DEF Index, Offset
<1> HIDE DEF i0, s0, b
<1>4. /\ ring'[i0].at = s0
      /\ ring'[i0].queries = IF b.at = s0 THEN b.queries + 1 ELSE 1
      /\ \A i \in 0..(Slots - 1) : i # i0 => ring'[i] = ring[i]
  BY <1>1, <1>2 DEF Added, b
<1>5. /\ log'[s0] = log[s0] + 1
      /\ \A s \in Starts : s # s0 => log'[s] = log[s]
      /\ \A s \in Starts : log[s] \in Nat
  BY <1>1, <1>2
<1>6. b \in Buckets /\ b.queries \in Nat /\ b.at \in Starts \cup {-1}
  BY <1>1, <1>2 DEF b, Buckets
<1>7. SlotSound'
  <2>1. ASSUME NEW i \in 0..(Slots - 1)
        PROVE  IF ring'[i].at = -1 THEN ring'[i].queries = 0
                                   ELSE ring'[i].queries <= log'[ring'[i].at]
    <3>1. CASE i = i0
      <4>1. b.at = s0 => b.queries <= log[s0]
        BY <1>1, <1>s DEF StatsInv, SlotSound, b
      <4>2. ring'[i0].queries <= log'[s0]
        BY <1>1, <1>4, <1>5, <1>6, <4>1
      <4> QED
        BY <1>4, <1>s, <3>1, <4>2
    <3>2. CASE i # i0
      <4>1. ring'[i] = ring[i] /\ ring[i] \in Buckets
        BY <1>2, <1>4, <3>2
      <4>2. ring[i].at \in Starts \cup {-1} /\ ring[i].queries \in Nat
        BY <4>1 DEF Buckets
      <4>3. CASE ring[i].at = -1
        BY <4>1, <4>3 DEF StatsInv, SlotSound
      <4>4. CASE ring[i].at # -1
        <5>1. ring[i].queries <= log[ring[i].at] /\ ring[i].at \in Starts
          BY <4>2, <4>4 DEF StatsInv, SlotSound
        <5>2. log[ring[i].at] \in Nat /\ log'[ring[i].at] \in {log[ring[i].at], log[ring[i].at] + 1}
          BY <1>5, <5>1
        <5>3. ring[i].queries <= log'[ring[i].at]
          BY <4>2, <5>1, <5>2
        <5> QED
          BY <4>1, <4>4, <5>3
      <4> QED
        BY <4>3, <4>4
    <3> QED
      BY <3>1, <3>2
  <2>2. ASSUME NEW s \in Starts PROVE log'[s] <= total'
    <3>1. log[s] <= total /\ log[s] \in Nat /\ log'[s] \in {log[s], log[s] + 1}
      BY <1>5 DEF StatsInv, SlotSound
    <3> QED
      BY <1>1, <1>2, <3>1
  <2> QED
    BY <2>1, <2>2 DEF SlotSound
<1>8. InPlace'
  <2> SUFFICES ASSUME ~stepped, Flat
               PROVE  /\ \A i \in 0..(Slots - 1) :
                            ring'[i].at # -1 => Index(ring'[i].at) = i /\ ring'[i].at <= now
                      /\ \A s \in Starts :
                            \/ log'[s] = 0
                            \/ ring'[Index(s)].at = s /\ ring'[Index(s)].queries = log'[s]
                            \/ ring'[Index(s)].at > s
    BY <1>3, <1>i DEF InPlace, Flat, Kept, Index, Offset
  <2>0. /\ \A i \in 0..(Slots - 1) :
              ring[i].at # -1 => Index(ring[i].at) = i /\ ring[i].at <= now
        /\ \A s \in Starts : Kept(s)
    BY DEF StatsInv, InPlace
  <2>1. Index(s0) = i0
    BY <1>2, SlotOfStart DEF s0, i0
  <2>2. ASSUME NEW i \in 0..(Slots - 1), ring'[i].at # -1
        PROVE  Index(ring'[i].at) = i /\ ring'[i].at <= now
    <3>1. CASE i = i0
      BY <1>4, <1>l, <2>1, <3>1
    <3>2. CASE i # i0
      BY <1>4, <2>0, <2>2, <3>2
    <3> QED
      BY <3>1, <3>2
  <2>a. b.at \in Int /\ (b.at = -1 \/ b.at \in Starts)
    BY <1>6, <1>n
  <2>b. b.at # -1 => b.at <= s0
    BY <1>1, <1>6, <1>g, <2>0 DEF b
  <2>3. log'[s0] = ring'[i0].queries
    <3>1. CASE log[s0] = 0
      <4>1. b.at = s0 => b.queries <= 0
        BY <1>1, <1>s, <3>1 DEF StatsInv, SlotSound, b
      <4> QED
        BY <1>4, <1>5, <1>6, <3>1, <4>1
    <3>2. CASE log[s0] # 0
      <4>1. \/ b.at = s0 /\ b.queries = log[s0]
            \/ b.at > s0
        BY <1>1, <2>0, <2>1, <3>2 DEF Kept, b
      <4>2. b.at = s0 /\ b.queries = log[s0]
        BY <1>s, <2>a, <2>b, <4>1
      <4> QED
        BY <1>4, <1>5, <4>2
    <3> QED
      BY <3>1, <3>2
  <2>4. ASSUME NEW s \in Starts
        PROVE  \/ log'[s] = 0
               \/ ring'[Index(s)].at = s /\ ring'[Index(s)].queries = log'[s]
               \/ ring'[Index(s)].at > s
    <3>0. Index(s) \in 0..(Slots - 1)
      BY <1>2, <1>n, IndexType
    <3>1. CASE s = s0
      BY <1>4, <2>1, <2>3, <3>1
    <3>2. CASE s # s0 /\ Index(s) # i0
      BY <1>4, <1>5, <2>0, <3>0, <3>2 DEF Kept
    <3>3. CASE s # s0 /\ Index(s) = i0 /\ log[s] # 0
      <4>1. b.at = s \/ b.at > s
        BY <2>0, <3>3 DEF Kept, b
      <4>2. b.at # -1
        BY <1>n, <4>1
      <4>3. s < s0
        BY <1>n, <1>s, <2>a, <2>b, <3>3, <4>1, <4>2
      <4> QED
        BY <1>4, <3>3, <4>3, <1>s
    <3>4. CASE s # s0 /\ log[s] = 0
      BY <1>5, <3>4
    <3> QED
      BY <3>1, <3>2, <3>3, <3>4
  <2> QED
    BY <2>2, <2>4
<1> QED
  BY <1>7, <1>8

\* A step that leaves ring, log, total and zone alone keeps it right, unless the
\* clock is set back, which ends the claim.
LEMMA QuietHistory ==
    ASSUME StatsInv, UNCHANGED <<ring, log, total, zone>>,
           stepped' = TRUE \/ (stepped' = stepped /\ now' \in Nat /\ now <= now')
    PROVE  SlotSound' /\ InPlace'
<1>1. SlotSound'
  BY DEF StatsInv, SlotSound
<1>2. CASE stepped' = TRUE
  BY <1>1, <1>2 DEF InPlace
<1>3. CASE stepped' = stepped /\ now' \in Nat /\ now <= now'
  <2> SUFFICES ASSUME ~stepped, Flat
               PROVE  /\ \A i \in 0..(Slots - 1) :
                            ring[i].at # -1 => Index(ring[i].at) = i /\ ring[i].at <= now'
                      /\ \A s \in Starts : Kept(s)
    BY <1>1, <1>3 DEF InPlace, Flat, Kept, Index, Offset
  <2>1. /\ \A i \in 0..(Slots - 1) :
              ring[i].at # -1 => Index(ring[i].at) = i /\ ring[i].at <= now
        /\ \A s \in Starts : Kept(s)
    BY DEF StatsInv, InPlace
  <2>2. now \in Nat /\ \A i \in 0..(Slots - 1) : ring[i].at # -1 => ring[i].at \in Nat
    <3>1. \A s \in Starts : s \in Nat
      BY RingAssumption, StartsFacts
    <3>2. \A i \in 0..(Slots - 1) : ring[i].at \in Starts \cup {-1}
      BY DEF StatsInv, Typed, Buckets
    <3>3. now \in Nat
      BY RingAssumption DEF StatsInv, Typed
    <3> QED
      BY <3>1, <3>2, <3>3
  <2>3. ASSUME NEW i \in 0..(Slots - 1), ring[i].at # -1 PROVE ring[i].at <= now'
    BY <1>3, <2>1, <2>2, <2>3
  <2> QED
    BY <2>1, <2>3
<1> QED
  BY <1>2, <1>3

\* An emptied history has nothing wrong with it.
LEMMA EmptyHistory ==
    Typed /\ ring = Emptied /\ log = [s \in Starts |-> 0] => SlotSound /\ InPlace
<1> SUFFICES ASSUME Typed, ring = Emptied, log = [s \in Starts |-> 0]
             PROVE  SlotSound /\ InPlace
  OBVIOUS
<1>1. \A i \in 0..(Slots - 1) : ring[i].at = -1 /\ ring[i].queries = 0
  BY DEF Emptied, Unused
<1>2. \A s \in Starts : log[s] = 0
  OBVIOUS
<1>3. total \in Nat
  BY RingAssumption DEF Typed
<1> QED
  BY <1>1, <1>2, <1>3 DEF SlotSound, InPlace, Kept

\* It holds at first.
LEMMA InitInv ==
    ASSUME Init PROVE StatsInv
<1>1. Unused \in Buckets
  BY DEF Unused, Buckets
<1>2. 0 \in 0..MaxTime /\ 0 \in 0..MaxRecords
  BY RingAssumption
<1>3. NoQuery \in [flying : BOOLEAN, plan : SUBSET Names]
  BY DEF NoQuery
<1>4. Typed
  BY <1>1, <1>2, <1>3, NamesAssumption DEF Init, Typed
<1>5. ring = Emptied
  BY DEF Init, Emptied
<1>6. SlotSound /\ InPlace
  BY <1>4, <1>5, EmptyHistory DEF Init
<1>7. Lone /\ Owed
  BY DEF Init, Lone, Owed
<1>8. TotalsAccounted
  BY SumZero DEF Init, TotalsAccounted
<1> QED
  BY <1>4, <1>6, <1>7, <1>8 DEF StatsInv

\* The clocks and the start of a query change no tally.
LEMMA ClockInv ==
    ASSUME StatsInv, Tick \/ SetBack \/ (\E q \in Queries : Begin(q)) \/ UNCHANGED vars
    PROVE  StatsInv'
<1>0. now \in 0..MaxTime /\ MaxTime \in Nat /\ now \in Nat
  BY RingAssumption DEF StatsInv, Typed
<1>1. UNCHANGED <<zone, change, tally>>
  BY DEF Tick, SetBack, Begin, vars, clock
<1>2. UNCHANGED <<members, removing, adding, owed, total, fallback, failed, byUpstream, ring,
                  log, forgotten, zone>>
  BY <1>1 DEF tally, change
<1>3. query' \in [Queries -> [flying : BOOLEAN, plan : SUBSET Names]]
  <2>1. query' = query \/ \E q \in Queries : Begin(q)
    BY DEF Tick, SetBack, vars
  <2>2. ASSUME NEW q \in Queries, Begin(q) PROVE query' \in [Queries -> [flying : BOOLEAN, plan : SUBSET Names]]
    BY <2>2 DEF Begin, StatsInv, Typed
  <2> QED
    BY <2>1, <2>2 DEF StatsInv, Typed
<1>4. now' \in 0..MaxTime /\ stepped' \in BOOLEAN
      /\ (stepped' = TRUE \/ (stepped' = stepped /\ now' \in Nat /\ now <= now'))
  <2>1. CASE Tick
    BY <1>0, <2>1 DEF Tick, StatsInv, Typed
  <2>2. CASE SetBack
    BY <1>0, <2>2 DEF SetBack
  <2>3. CASE (\E q \in Queries : Begin(q)) \/ UNCHANGED vars
    BY <1>0, <2>3 DEF Begin, vars, clock, StatsInv, Typed
  <2> QED
    BY <2>1, <2>2, <2>3
<1>5. SlotSound' /\ InPlace'
  BY <1>2, <1>4, QuietHistory
<1>6. Typed'
  BY <1>2, <1>3, <1>4 DEF StatsInv, Typed
<1>7. Lone' /\ TotalsAccounted'
  BY <1>2 DEF StatsInv, Lone, TotalsAccounted
<1>8. Owed'
  <2> SUFFICES ASSUME NEW n \in Names \ (members \cup removing)
               PROVE  byUpstream[n] + Cardinality(Holding(n))' <= owed[n]
    BY <1>2 DEF Owed
  <2>1. /\ byUpstream[n] \in Nat /\ owed[n] \in Nat /\ Cardinality(Holding(n)) \in Nat
        /\ byUpstream[n] + Cardinality(Holding(n)) <= owed[n]
    BY HoldingFacts DEF StatsInv, Typed, Owed
  <2>2. CASE query' = query
    <3>1. Holding(n)' = Holding(n)
      BY <2>2 DEF Holding
    <3> QED
      BY <2>1, <3>1
  <2>3. ASSUME NEW q \in Queries, Begin(q)
        PROVE  byUpstream[n] + Cardinality(Holding(n))' <= owed[n]
    <3> DEFINE r == [flying |-> TRUE, plan |-> members]
    <3>1. query' = [query EXCEPT ![q] = r] /\ n \notin r.plan /\ Typed
      BY <2>3 DEF Begin, StatsInv
    <3> HIDE DEF r
    <3>2. /\ Cardinality(Holding(n))' \in Nat
          /\ Cardinality(Holding(n))' <= Cardinality(Holding(n))
      BY <3>1, Landed
    <3> QED
      BY <2>1, <3>2
  <2> QED
    BY <2>2, <2>3 DEF Tick, SetBack, vars
<1> QED
  BY <1>5, <1>6, <1>7, <1>8 DEF StatsInv

\* The numbers, as the arithmetic wants them.
LEMMA Numbers ==
    ASSUME StatsInv
    PROVE  /\ total \in Nat /\ fallback \in Nat /\ failed \in Nat /\ forgotten \in Nat
           /\ byUpstream \in [Names -> Nat] /\ SumFunction(byUpstream) \in Nat
           /\ total = fallback + failed + forgotten + SumFunction(byUpstream)
<1>1. PICK n : n \in Names
  BY NamesAssumption
<1>2. byUpstream \in [Names -> Nat]
  BY DEF StatsInv, Typed
<1>3. SumFunction(byUpstream) \in Nat
  BY <1>1, <1>2, SumChange
<1> QED
  BY <1>2, <1>3, RingAssumption DEF StatsInv, Typed, TotalsAccounted

\* The records.
LEMMA RecordInv ==
    ASSUME StatsInv, NEW q \in Queries, Record(q)
    PROVE  StatsInv'
<1> DEFINE sum == SumFunction(byUpstream)
<1>0. /\ total \in Nat /\ fallback \in Nat /\ failed \in Nat /\ forgotten \in Nat
      /\ byUpstream \in [Names -> Nat] /\ sum \in Nat
      /\ total = fallback + failed + forgotten + sum
  BY Numbers
<1>1. /\ Counted /\ Done(q)
      /\ UNCHANGED <<clock, members, removing, adding, owed, forgotten>>
  BY DEF Record, RecordAnswer, RecordFallback, RecordFailure, change
<1>2. SlotSound' /\ InPlace'
  BY <1>1, CountedHistory
<1>3. /\ total' = total + 1 /\ total' \in 0..MaxRecords
      /\ ring' \in [0..(Slots - 1) -> Buckets] /\ log' \in [Starts -> Nat]
  BY <1>1, CountedFacts
<1>4. query' \in [Queries -> [flying : BOOLEAN, plan : SUBSET Names]]
  BY <1>1 DEF Done, NoQuery, StatsInv, Typed
<1>5. /\ fallback' \in Nat /\ failed' \in Nat /\ byUpstream' \in [Names -> Nat]
      /\ Owed' /\ TotalsAccounted'
  <2>q. /\ query' = [query EXCEPT ![q] = NoQuery] /\ Typed
        /\ \A m : m \notin NoQuery.plan
    BY <1>1 DEF Done, NoQuery, StatsInv
  <2>o. ASSUME NEW m \in Names \ (members \cup removing)
        PROVE  /\ byUpstream[m] \in Nat /\ owed[m] \in Nat
               /\ Cardinality(Holding(m)) \in Nat /\ Cardinality(Holding(m))' \in Nat
               /\ byUpstream[m] + Cardinality(Holding(m)) <= owed[m]
               /\ Cardinality(Holding(m))' <= Cardinality(Holding(m))
               /\ m \in query[q].plan =>
                     Cardinality(Holding(m))' = Cardinality(Holding(m)) - 1
    <3>1. /\ byUpstream[m] \in Nat /\ owed[m] \in Nat
          /\ byUpstream[m] + Cardinality(Holding(m)) <= owed[m]
      BY DEF StatsInv, Typed, Owed
    <3>2. /\ Cardinality(Holding(m))' \in Nat
          /\ Cardinality(Holding(m))' <= Cardinality(Holding(m))
          /\ m \in query[q].plan =>
                Cardinality(Holding(m))' = Cardinality(Holding(m)) - 1
      BY <2>q, Landed
    <3> QED
      BY <3>1, <3>2, HoldingFacts
  <2>n. ASSUME byUpstream' = byUpstream PROVE Owed'
    <3> SUFFICES ASSUME NEW m \in Names \ (members \cup removing)
                 PROVE  byUpstream[m] + Cardinality(Holding(m))' <= owed[m]
      BY <1>1, <2>n DEF Owed
    <3> QED
      BY <2>o
  <2>1. CASE RecordFallback(q)
    <3>1. /\ fallback' = fallback + 1 /\ failed' = failed /\ byUpstream' = byUpstream
          /\ forgotten' = forgotten
      BY <2>1 DEF RecordFallback
    <3>2. SumFunction(byUpstream)' = sum
      BY <3>1
    <3>3. TotalsAccounted'
      BY <1>0, <1>3, <3>1, <3>2 DEF TotalsAccounted
    <3>4. Owed'
      BY <2>n, <3>1
    <3> QED
      BY <1>0, <3>1, <3>3, <3>4 DEF StatsInv, Typed
  <2>2. CASE RecordFailure(q)
    <3>1. /\ failed' = failed + 1 /\ fallback' = fallback /\ byUpstream' = byUpstream
          /\ forgotten' = forgotten
      BY <2>2 DEF RecordFailure
    <3>2. SumFunction(byUpstream)' = sum
      BY <3>1
    <3>3. TotalsAccounted'
      BY <1>0, <1>3, <3>1, <3>2 DEF TotalsAccounted
    <3>4. Owed'
      BY <2>n, <3>1
    <3> QED
      BY <1>0, <3>1, <3>3, <3>4 DEF StatsInv, Typed
  <2>3. CASE \E n \in Names : RecordAnswer(q, n)
    <3>0. PICK n \in Names : RecordAnswer(q, n)
      BY <2>3
    <3>1. /\ byUpstream' = [byUpstream EXCEPT ![n] = byUpstream[n] + 1]
          /\ fallback' = fallback /\ failed' = failed /\ forgotten' = forgotten
          /\ n \in query[q].plan
      BY <3>0 DEF RecordAnswer
    <3>2. byUpstream[n] \in Nat /\ byUpstream[n] + 1 \in Nat
      BY <1>0
    <3>3. SumFunction([byUpstream EXCEPT ![n] = byUpstream[n] + 1])
              = sum - byUpstream[n] + (byUpstream[n] + 1)
      BY <1>0, <3>2, SumChange
    <3>4. SumFunction(byUpstream)' = sum + 1
      BY <1>0, <3>1, <3>2, <3>3
    <3>5. TotalsAccounted'
      BY <1>0, <1>3, <3>1, <3>4 DEF TotalsAccounted
    <3>6. Owed'
      <4> SUFFICES ASSUME NEW m \in Names \ (members \cup removing)
                   PROVE  byUpstream'[m] + Cardinality(Holding(m))' <= owed[m]
        BY <1>1 DEF Owed
      <4>1. CASE m = n
        BY <1>0, <2>o, <3>1, <4>1
      <4>2. CASE m # n
        BY <1>0, <2>o, <3>1, <4>2
      <4> QED
        BY <4>1, <4>2
    <3> QED
      BY <1>0, <3>1, <3>2, <3>5, <3>6 DEF StatsInv, Typed
  <2> QED
    BY <2>1, <2>2, <2>3 DEF Record
<1>6. Typed'
  BY <1>0, <1>1, <1>3, <1>4, <1>5 DEF clock, StatsInv, Typed
<1>7. Lone'
  BY <1>1 DEF StatsInv, Lone
<1> QED
  BY <1>2, <1>5, <1>6, <1>7 DEF StatsInv

\* The management interface.
LEMMA ManageInv ==
    ASSUME StatsInv, NEW n \in Names, Manage(n)
    PROVE  StatsInv'
<1> DEFINE sum == SumFunction(byUpstream)
<1>0. /\ total \in Nat /\ fallback \in Nat /\ failed \in Nat /\ forgotten \in Nat
      /\ byUpstream \in [Names -> Nat] /\ sum \in Nat
      /\ total = fallback + failed + forgotten + sum
  BY Numbers
<1>1. UNCHANGED <<clock, query, total, fallback, failed, ring, log>>
  BY DEF Manage, RemoveUpstream, RollBack, ForgetUpstream, AddUpstream, AddSaved, AddRollBack,
         tally
<1>2. SlotSound' /\ InPlace'
  <2>1. now \in Nat
    BY RingAssumption DEF StatsInv, Typed
  <2> QED
    BY <1>1, <2>1, QuietHistory DEF clock
<1>h. \A m : Holding(m)' = Holding(m)
  BY <1>1 DEF Holding
<1>c. \A m : Cardinality(Holding(m)) \in Nat
  BY HoldingFacts
<1>3. /\ members' \in (SUBSET Names) \ {{}} /\ removing' \subseteq Names \ members'
      /\ adding' \subseteq members' /\ adding' # members'
      /\ Lone' /\ forgotten' \in Nat /\ byUpstream' \in [Names -> Nat]
      /\ owed' \in [Names -> Nat] /\ Owed' /\ TotalsAccounted'
  <2>t. /\ members \in (SUBSET Names) \ {{}} /\ removing \subseteq Names \ members
        /\ adding \subseteq members /\ adding # members
        /\ owed \in [Names -> Nat] /\ Lone
    BY DEF StatsInv, Typed
  <2>w. \A m \in Names \ (members \cup removing) :
           byUpstream[m] + Cardinality(Holding(m)) <= owed[m]
    BY DEF StatsInv, Owed
  <2>0. ASSUME UNCHANGED <<byUpstream, forgotten>>
        PROVE  forgotten' \in Nat /\ byUpstream' \in [Names -> Nat] /\ TotalsAccounted'
    BY <1>0, <1>1, <2>0 DEF TotalsAccounted
  <2>o. ASSUME UNCHANGED <<byUpstream, owed>>, members \cup removing \subseteq members' \cup removing'
        PROVE  owed' \in [Names -> Nat] /\ Owed'
    BY <1>h, <2>o, <2>t, <2>w DEF Owed
  <2>1. CASE RemoveUpstream(n)
    <3>1. /\ n \in members /\ members # {n} /\ members' = members \ {n}
          /\ removing = {} /\ adding = {} /\ removing' = {n} /\ adding' = adding
          /\ UNCHANGED <<byUpstream, forgotten, owed>>
      BY <2>1 DEF RemoveUpstream, Unlocked, tally
    <3>2. members' \in (SUBSET Names) \ {{}} /\ Lone'
      BY <2>t, <3>1 DEF Lone
    <3> QED
      BY <2>0, <2>o, <2>t, <3>1, <3>2
  <2>2. CASE RollBack(n)
    <3>1. /\ n \in removing /\ members' = members \cup {n} /\ removing' = {}
          /\ adding' = adding /\ UNCHANGED <<byUpstream, forgotten, owed>>
      BY <2>2 DEF RollBack, tally
    <3>2. removing = {n} /\ adding = {}
      BY <2>t, <3>1 DEF Lone
    <3>3. Lone'
      BY <3>1, <3>2 DEF Lone
    <3> QED
      BY <2>0, <2>o, <2>t, <3>1, <3>2, <3>3
  <2>3. CASE ForgetUpstream(n)
    <3>1. /\ n \in removing /\ members' = members /\ removing' = {} /\ adding' = adding
          /\ byUpstream' = [byUpstream EXCEPT ![n] = 0]
          /\ forgotten' = forgotten + byUpstream[n]
          /\ owed' = [owed EXCEPT ![n] = Cardinality(Holding(n))]
      BY <2>3 DEF ForgetUpstream, Dropped
    <3>2. removing = {n} /\ adding = {}
      BY <2>t, <3>1 DEF Lone
    <3>3. byUpstream[n] \in Nat /\ byUpstream[n] <= sum
      BY <1>0, SumChange
    <3>4. SumFunction([byUpstream EXCEPT ![n] = 0]) = sum - byUpstream[n] + 0
      BY <1>0, SumChange
    <3>5. SumFunction(byUpstream)' = sum - byUpstream[n]
      BY <1>0, <3>1, <3>3, <3>4
    <3>6. TotalsAccounted'
      BY <1>0, <1>1, <3>1, <3>3, <3>5 DEF TotalsAccounted
    <3>7. Owed'
      <4> SUFFICES ASSUME NEW m \in Names \ members
                   PROVE  byUpstream'[m] + Cardinality(Holding(m)) <= owed'[m]
        BY <1>h, <3>1 DEF Owed
      <4>1. CASE m = n
        BY <1>0, <1>c, <2>t, <3>1, <4>1
      <4>2. CASE m # n
        BY <1>0, <2>t, <2>w, <3>1, <3>2, <4>2
      <4> QED
        BY <4>1, <4>2
    <3>8. byUpstream' \in [Names -> Nat] /\ forgotten' \in Nat /\ owed' \in [Names -> Nat]
      BY <1>0, <1>c, <2>t, <3>1, <3>3
    <3>9. Lone'
      BY <3>1, <3>2 DEF Lone
    <3> QED
      BY <2>t, <3>1, <3>6, <3>7, <3>8, <3>9
  <2>4. CASE AddUpstream(n)
    <3>1. /\ removing = {} /\ members' = members \cup {n} /\ removing' = removing
          /\ n \notin members /\ adding' = {n} /\ UNCHANGED <<byUpstream, forgotten, owed>>
      BY <2>4 DEF AddUpstream, Unlocked, tally
    <3>2. Lone' /\ adding' # members'
      BY <2>t, <3>1 DEF Lone
    <3> QED
      BY <2>0, <2>o, <2>t, <3>1, <3>2
  <2>5. CASE AddSaved(n)
    <3>1. /\ n \in adding /\ adding' = {} /\ members' = members /\ removing' = removing
          /\ UNCHANGED <<byUpstream, forgotten, owed>>
      BY <2>5 DEF AddSaved, tally
    <3>2. Lone'
      BY <2>t, <3>1 DEF Lone
    <3> QED
      BY <2>0, <2>o, <2>t, <3>1, <3>2
  <2>6. CASE AddRollBack(n)
    <3>1. /\ n \in adding /\ adding' = {} /\ members' = members \ {n} /\ removing' = removing
          /\ owed' = [owed EXCEPT ![n] = byUpstream[n] + Cardinality(Holding(n))]
          /\ UNCHANGED <<byUpstream, forgotten>>
      BY <2>6 DEF AddRollBack, tally
    <3>2. adding = {n} /\ removing = {}
      BY <2>t, <3>1 DEF Lone
    <3>3. byUpstream[n] + Cardinality(Holding(n)) \in Nat
      BY <1>0, <1>c
    <3>4. owed' \in [Names -> Nat]
      BY <2>t, <3>1, <3>3
    <3>5. Owed'
      <4> SUFFICES ASSUME NEW m \in Names \ (members \ {n})
                   PROVE  byUpstream[m] + Cardinality(Holding(m)) <= owed'[m]
        BY <1>h, <3>1, <3>2 DEF Owed
      <4>1. CASE m = n
        BY <2>t, <3>1, <3>3, <4>1
      <4>2. CASE m # n
        BY <2>t, <2>w, <3>1, <3>2, <4>2
      <4> QED
        BY <4>1, <4>2
    <3>6. Lone' /\ members' \in (SUBSET Names) \ {{}}
      BY <2>t, <3>1, <3>2 DEF Lone
    <3> QED
      BY <2>0, <2>t, <3>1, <3>2, <3>4, <3>5, <3>6
  <2> QED
    BY <2>1, <2>2, <2>3, <2>4, <2>5, <2>6 DEF Manage
<1>4. Typed'
  BY <1>1, <1>3 DEF clock, StatsInv, Typed
<1> QED
  BY <1>2, <1>3, <1>4 DEF StatsInv

\* Reset.
LEMMA ResetInv ==
    ASSUME StatsInv, Reset
    PROVE  StatsInv'
<1>1. /\ total' = 0 /\ fallback' = 0 /\ failed' = 0 /\ forgotten' = 0
      /\ byUpstream' = [n \in Names |-> 0]
      /\ ring' = Emptied /\ log' = [s \in Starts |-> 0]
      /\ UNCHANGED <<now, zone, stepped, members, removing, adding, owed, query>>
  BY DEF Reset, clock, change
<1>2. Unused \in Buckets
  BY DEF Unused, Buckets
<1>3. Emptied \in [0..(Slots - 1) -> Buckets] /\ Emptied' = Emptied
  BY <1>2 DEF Emptied, Unused
<1>4. Typed'
  BY <1>1, <1>3, RingAssumption DEF StatsInv, Typed
<1>5. SlotSound' /\ InPlace'
  <2>1. Typed' /\ (ring = Emptied)' /\ (log = [s \in Starts |-> 0])'
    BY <1>1, <1>3, <1>4
  <2> QED
    BY <2>1, EmptyHistory, PTL
<1>6. Lone' /\ Owed'
  <2>1. Lone'
    BY <1>1 DEF StatsInv, Lone
  <2>2. \A n : Holding(n)' = Holding(n)
    BY <1>1 DEF Holding
  <2>3. ASSUME NEW n \in Names \ (members \cup removing)
        PROVE  0 + Cardinality(Holding(n)) <= owed[n]
    <3>1. /\ byUpstream[n] \in Nat /\ owed[n] \in Nat
          /\ byUpstream[n] + Cardinality(Holding(n)) <= owed[n]
      BY DEF StatsInv, Typed, Owed
    <3> QED
      BY <3>1, HoldingFacts
  <2> QED
    BY <1>1, <2>1, <2>2, <2>3 DEF Owed
<1>7. TotalsAccounted'
  BY <1>1, SumZero DEF TotalsAccounted
<1> QED
  BY <1>4, <1>5, <1>6, <1>7 DEF StatsInv

\* StatsInv is an invariant.
LEMMA AlwaysInv == Spec => []StatsInv
<1>1. Init => StatsInv
  BY InitInv
<1>2. ASSUME StatsInv, [Next]_vars PROVE StatsInv'
  BY <1>2, ClockInv, RecordInv, ManageInv, ResetInv DEF Next, Record, Manage
<1> QED
  BY <1>1, <1>2, PTL DEF Spec
-----------------------------------------------------------------------------
\* Every query is in the total once, and under one heading (stats.go, Record,
\* ForgetUpstream, Reset).
THEOREM TotalsAccountedAlways == Spec => []TotalsAccounted
<1>1. StatsInv => TotalsAccounted
  BY DEF StatsInv
<1> QED
  BY <1>1, AlwaysInv, PTL

\* A name that has left the pool is on show for no more queries than were in
\* flight with it when its counters were dropped, and after an addition rolled
\* back for those counted until then as well (control.go, RemoveUpstream,
\* AddUpstream; stats.go, ForgetUpstream).
THEOREM GhostsBoundedAlways == Spec => []GhostsBounded
<1>1. ASSUME StatsInv, NEW n \in Names \ (members \cup removing)
      PROVE  byUpstream[n] <= owed[n]
  <2>1. /\ byUpstream[n] \in Nat /\ owed[n] \in Nat
        /\ byUpstream[n] + Cardinality(Holding(n)) <= owed[n]
    BY <1>1 DEF StatsInv, Typed, Owed
  <2> QED
    BY <2>1, HoldingFacts
<1>2. StatsInv => GhostsBounded
  BY <1>1 DEF GhostsBounded
<1> QED
  BY <1>2, AlwaysInv, PTL

\* The history never shows a query twice or in the wrong period, whatever the
\* zone and however the clock is set (stats.go, addToBucket, series).
THEOREM SeriesSoundAlways == Spec => []SeriesSound
<1>1. ASSUME StatsInv, NEW at \in Displayed PROVE Shown(at) <= log[at]
  <2>1. at \in Starts /\ at \in Nat /\ at # -1 /\ log[at] \in Nat
    BY <1>1, StartsFacts, RingAssumption DEF Displayed, StatsInv, Typed
  <2>2. Index(at) \in 0..(Slots - 1)
    BY <1>1, <2>1, IndexType DEF StatsInv, Typed
  <2>3. ring[Index(at)].at = at => ring[Index(at)].queries <= log[at]
    BY <1>1, <2>1, <2>2 DEF StatsInv, SlotSound
  <2> QED
    BY <2>1, <2>3 DEF Shown
<1>2. StatsInv => SeriesSound
  BY <1>1 DEF SeriesSound
<1> QED
  BY <1>2, AlwaysInv, PTL

\* Where the local clock keeps step, the history shows every query of the last
\* Slots periods: no recent period is overwritten (stats.go, minuteIndex,
\* hourIndex, addToBucket, series).
THEOREM SeriesExactAlways == Spec => []SeriesExact
<1>1. ASSUME StatsInv, ~stepped, Flat, NEW at \in Displayed PROVE Shown(at) = log[at]
  <2> DEFINE i == Index(at)
             b == ring[i]
  <2>1. at \in Starts /\ at > Start(now) - Slots * Period
    BY DEF Displayed
  <2>n. \A s \in Starts : s \in Nat /\ s # -1
    BY StartsFacts, RingAssumption
  <2>t. now \in 0..MaxTime /\ zone \in Zones /\ now \in Nat /\ log[at] \in Nat
    BY <1>1, <2>1, RingAssumption DEF StatsInv, Typed
  <2>2. i \in 0..(Slots - 1)
    BY <2>1, <2>n, <2>t, IndexType
  <2>3. b.at \in Starts \cup {-1} /\ b.queries \in Nat
    BY <1>1, <2>2 DEF StatsInv, Typed, Buckets
  <2>4. b.at = at => b.queries <= log[at]
    BY <1>1, <2>1, <2>2, <2>n DEF StatsInv, SlotSound
  <2>5. /\ b.at # -1 => Index(b.at) = i /\ b.at <= now
        /\ Kept(at)
    BY <1>1, <2>1, <2>2 DEF StatsInv, InPlace
  <2>6. ~(b.at > at)
    <3> SUFFICES ASSUME b.at > at PROVE FALSE
      OBVIOUS
    <3>1. b.at \in Starts
      BY <2>1, <2>3, <2>n
    <3>2. b.at <= Start(now)
      BY <2>5, <2>n, <2>t, <3>1, StartIsLast
    <3>3. at + Slots * Period <= b.at
      BY <1>1, <2>1, <2>5, <2>n, <2>t, <3>1, SlotsApart
    <3>4. Start(now) \in Nat /\ b.at \in Nat /\ at \in Nat
      BY <2>1, <2>n, <2>t, <3>1, StartFacts
    <3>5. Slots * Period \in Nat
      BY RingAssumption
    <3> HIDE DEF b
    <3> QED
      BY <2>1, <3>2, <3>3, <3>4, <3>5
  <2>7. log[at] = 0 \/ (b.at = at /\ b.queries = log[at])
    BY <2>5, <2>6 DEF Kept
  <2> QED
    BY <2>3, <2>4, <2>7, <2>t DEF Shown
<1>2. StatsInv => SeriesExact
  BY <1>1 DEF SeriesExact, Flat
<1> QED
  BY <1>2, AlwaysInv, PTL

\* No tally is out of range or malformed, and the pool is never empty.
THEOREM StatisticsTypeOK == Spec => []TypeOK
<1>1. ASSUME StatsInv PROVE TypeOK
  <2>1. /\ total \in Nat /\ fallback \in Nat /\ failed \in Nat /\ forgotten \in Nat
        /\ byUpstream \in [Names -> Nat] /\ SumFunction(byUpstream) \in Nat
        /\ total = fallback + failed + forgotten + SumFunction(byUpstream)
    BY <1>1, Numbers
  <2>2. total \in 0..MaxRecords /\ MaxRecords \in Nat
    BY <1>1, RingAssumption DEF StatsInv, Typed
  <2>3. {total, fallback, failed, forgotten} \subseteq 0..MaxRecords
    BY <2>1, <2>2
  <2>4. ASSUME NEW n \in Names PROVE byUpstream[n] \in 0..MaxRecords
    <3>1. byUpstream[n] \in Nat /\ byUpstream[n] <= SumFunction(byUpstream)
      BY <2>1, SumChange
    <3> QED
      BY <2>1, <2>2, <3>1
  <2>5. byUpstream \in [Names -> 0..MaxRecords]
    BY <2>1, <2>4
  <2>6. ASSUME NEW s \in Starts PROVE log[s] \in 0..MaxRecords
    <3>1. log[s] \in Nat /\ log[s] <= total
      BY <1>1 DEF StatsInv, Typed, SlotSound
    <3> QED
      BY <2>2, <3>1
  <2>7. log \in [Starts -> 0..MaxRecords]
    BY <1>1, <2>6 DEF StatsInv, Typed
  <2>8. ASSUME NEW i \in 0..(Slots - 1)
        PROVE  ring[i] \in [at : Starts \cup {-1}, queries : 0..MaxRecords]
    <3>1. ring[i] \in Buckets
      BY <1>1 DEF StatsInv, Typed
    <3>2. ring[i].at \in Starts \cup {-1} /\ ring[i].queries \in Nat
      BY <3>1 DEF Buckets
    <3>3. ring[i].queries \in 0..MaxRecords
      <4>1. CASE ring[i].at = -1
        BY <1>1, <2>2, <4>1 DEF StatsInv, SlotSound
      <4>2. CASE ring[i].at # -1
        <5>1. ring[i].at \in Starts /\ ring[i].queries <= log[ring[i].at]
          BY <1>1, <3>2, <4>2 DEF StatsInv, SlotSound
        <5>2. log[ring[i].at] \in 0..MaxRecords
          BY <2>6, <5>1
        <5> QED
          BY <2>2, <3>2, <5>1, <5>2
      <4> QED
        BY <4>1, <4>2
    <3> QED
      BY <3>1, <3>3 DEF Buckets
  <2>9. ring \in [0..(Slots - 1) -> [at : Starts \cup {-1}, queries : 0..MaxRecords]]
    BY <1>1, <2>8 DEF StatsInv, Typed
  <2>10. Cardinality(removing \cup adding) <= 1
    <3>1. removing \cup adding = {} \/ \E n : removing \cup adding = {n}
      BY <1>1 DEF StatsInv, Lone
    <3>2. Cardinality(removing \cup adding) = 0 \/ Cardinality(removing \cup adding) = 1
      BY <3>1, FS_EmptySet, FS_Singleton
    <3> QED
      BY <3>2
  <2> QED
    BY <1>1, <2>3, <2>5, <2>7, <2>9, <2>10 DEF StatsInv, Typed, TypeOK
<1> QED
  BY <1>1, AlwaysInv, PTL
=============================================================================
