--------------------------- MODULE ControlProofs ---------------------------
(***************************************************************************)
(* Proofs about Control, for any set of upstreams, strategies and resolver *)
(* lists and any configuration to start from: type correctness; that what  *)
(* runs is what is configured; that a change is saved or undone; that the  *)
(* file can always be started from; and that it is replaced only when its  *)
(* contents are in the backup.                                             *)
(***************************************************************************)
EXTENDS Control, FiniteSetTheorems, SequenceTheorems, TLAPS

-----------------------------------------------------------------------------
(***************************************************************************)
(* Lists of upstreams.                                                     *)
(***************************************************************************)
Ups == Seq(Candidates)

Distinct(s) == \A k, l \in DOMAIN s : k # l => Apart(s[k], s[l])

\* Apart is symmetric.
LEMMA ApartSymmetric ==
    ASSUME NEW u, NEW v, Apart(u, v)
    PROVE  Apart(v, u)
BY DEF Apart

\* Adding an upstream that is apart from all others keeps a list distinct.
LEMMA AppendDistinct ==
    ASSUME NEW s \in Ups, NEW u \in Candidates, Distinct(s),
           \A k \in DOMAIN s : Apart(s[k], u)
    PROVE  /\ Append(s, u) \in Ups /\ Append(s, u) # <<>>
           /\ Len(Append(s, u)) = Len(s) + 1
           /\ DOMAIN Append(s, u) = 1..(Len(s) + 1)
           /\ \A k \in 1..Len(s) : Append(s, u)[k] = s[k]
           /\ Append(s, u)[Len(s) + 1] = u
           /\ Distinct(Append(s, u))
<1> DEFINE t == Append(s, u)
<1>1. /\ t \in Ups /\ t # <<>> /\ Len(t) = Len(s) + 1
      /\ \A k \in 1..Len(s) : t[k] = s[k]
      /\ t[Len(s) + 1] = u
  BY AppendProperties DEF Ups
<1>2. DOMAIN s = 1..Len(s) /\ DOMAIN t = 1..(Len(s) + 1) /\ Len(s) \in Nat
  BY <1>1, LenProperties DEF Ups
<1>3. ASSUME NEW k \in DOMAIN t, NEW l \in DOMAIN t, k # l
      PROVE  Apart(t[k], t[l])
  <2> HIDE DEF t
  <2>1. CASE k \in DOMAIN s /\ l \in DOMAIN s
    BY <1>1, <1>2, <1>3, <2>1 DEF Distinct
  <2>2. CASE k \in DOMAIN s /\ l = Len(s) + 1
    BY <1>1, <1>2, <1>3, <2>2
  <2>3. CASE l \in DOMAIN s /\ k = Len(s) + 1
    <3>1. Apart(t[l], t[k])
      BY <1>1, <1>2, <1>3, <2>3
    <3> QED
      BY <3>1, ApartSymmetric
  <2> QED
    BY <1>2, <1>3, <2>1, <2>2, <2>3
<1> QED
  BY <1>1, <1>2, <1>3 DEF Distinct

\* The slice expressions that take out the upstream at k.
LEMMA RemoveAtFacts ==
    ASSUME NEW s \in Ups, NEW k \in 1..Len(s)
    PROVE  /\ RemoveAt(s, k) \in Ups
           /\ Len(RemoveAt(s, k)) = Len(s) - 1
           /\ DOMAIN RemoveAt(s, k) = 1..(Len(s) - 1)
           /\ \A i \in 1..(Len(s) - 1) :
                 RemoveAt(s, k)[i] = IF i < k THEN s[i] ELSE s[i + 1]
<1> DEFINE a == SubSeq(s, 1, k - 1)
           b == SubSeq(s, k + 1, Len(s))
<1>1. Len(s) \in Nat /\ k \in Int /\ (\A i \in 1..Len(s) : s[i] \in Candidates)
  BY LenProperties DEF Ups
<1>2. /\ a \in Ups /\ Len(a) = k - 1
      /\ \A i \in 1..(k - 1) : a[i] = s[i]
  <2>1. \A i \in 1..(k - 1) : s[i] \in Candidates
    BY <1>1
  <2>2. /\ a \in Seq(Candidates)
        /\ Len(a) = IF 1 <= k - 1 THEN (k - 1) - 1 + 1 ELSE 0
        /\ \A i \in 1..((k - 1) - 1 + 1) : a[i] = s[1 + i - 1]
    BY <1>1, <2>1, SubSeqProperties
  <2> HIDE DEF a
  <2> QED
    BY <1>1, <2>2 DEF Ups
<1>3. /\ b \in Ups /\ Len(b) = Len(s) - k
      /\ \A i \in 1..(Len(s) - k) : b[i] = s[k + i]
  <2>1. \A i \in (k + 1)..Len(s) : s[i] \in Candidates
    BY <1>1
  <2>2. /\ b \in Seq(Candidates)
        /\ Len(b) = IF k + 1 <= Len(s) THEN Len(s) - (k + 1) + 1 ELSE 0
        /\ \A i \in 1..(Len(s) - (k + 1) + 1) : b[i] = s[(k + 1) + i - 1]
    BY <1>1, <2>1, SubSeqProperties
  <2> HIDE DEF b
  <2> QED
    BY <1>1, <2>2 DEF Ups
<1>4. /\ a \o b \in Ups /\ Len(a \o b) = Len(a) + Len(b)
      /\ \A i \in 1..(Len(a) + Len(b)) :
            (a \o b)[i] = IF i <= Len(a) THEN a[i] ELSE b[i - Len(a)]
  <2> HIDE DEF a, b
  <2> QED
    BY <1>2, <1>3, ConcatProperties DEF Ups
<1>5. DOMAIN (a \o b) = 1..Len(a \o b)
  <2> HIDE DEF a, b
  <2> QED
    BY <1>4, LenProperties DEF Ups
<1>6. RemoveAt(s, k) = a \o b
  BY DEF RemoveAt
<1> DEFINE r == a \o b
<1> HIDE DEF a, b, r
<1>7. r \in Ups /\ Len(r) = Len(s) - 1 /\ DOMAIN r = 1..(Len(s) - 1)
  BY <1>1, <1>2, <1>3, <1>4, <1>5 DEF r
<1>8. ASSUME NEW i \in 1..(Len(s) - 1)
      PROVE  r[i] = IF i < k THEN s[i] ELSE s[i + 1]
  <2>1. i \in 1..(Len(a) + Len(b)) /\ i \in Int /\ (i <= Len(a) <=> i < k)
    BY <1>1, <1>2, <1>3
  <2>2. r[i] = IF i <= Len(a) THEN a[i] ELSE b[i - Len(a)]
    BY <1>4, <2>1 DEF r
  <2>3. CASE i < k
    <3>1. i \in 1..(k - 1)
      BY <1>1, <2>3
    <3> QED
      BY <1>2, <2>1, <2>2, <2>3, <3>1
  <2>4. CASE ~(i < k)
    <3>1. /\ i - Len(a) \in 1..(Len(s) - k)
          /\ k + (i - Len(a)) = i + 1
      BY <1>1, <1>2, <2>1, <2>4
    <3>2. b[i - Len(a)] = s[i + 1]
      BY <1>3, <3>1
    <3> QED
      BY <2>1, <2>2, <2>4, <3>2
  <2> QED
    BY <2>3, <2>4
<1> QED
  BY <1>6, <1>7, <1>8 DEF r

\* Taking an upstream out keeps a list distinct, and leaves only upstreams that
\* are apart from the one taken out.
LEMMA RemoveAtDistinct ==
    ASSUME NEW s \in Ups, NEW k \in 1..Len(s), Distinct(s)
    PROVE  /\ Distinct(RemoveAt(s, k))
           /\ \A i \in DOMAIN RemoveAt(s, k) : Apart(RemoveAt(s, k)[i], s[k])
<1> DEFINE r == RemoveAt(s, k)
           From(i) == IF i < k THEN i ELSE i + 1
<1>1. DOMAIN r = 1..(Len(s) - 1) /\ Len(s) \in Nat /\ DOMAIN s = 1..Len(s) /\ k \in Int
  BY RemoveAtFacts, LenProperties DEF Ups
<1>2. ASSUME NEW i \in DOMAIN r
      PROVE  r[i] = s[From(i)] /\ From(i) \in DOMAIN s /\ From(i) # k
  <2>1. \A l \in 1..(Len(s) - 1) : r[l] = IF l < k THEN s[l] ELSE s[l + 1]
    BY RemoveAtFacts
  <2> HIDE DEF r
  <2>2. i \in 1..(Len(s) - 1)
    BY <1>1, <1>2
  <2>3. r[i] = s[From(i)]
    BY <2>1, <2>2
  <2>4. From(i) \in 1..Len(s) /\ From(i) # k
    BY <1>1, <2>2
  <2> QED
    BY <1>1, <2>3, <2>4
<1>3. ASSUME NEW i \in DOMAIN r, NEW j \in DOMAIN r, i # j PROVE From(i) # From(j)
  BY <1>1, <1>3
<1>4. k \in DOMAIN s
  BY <1>1
<1> HIDE DEF r, From
<1>5. ASSUME NEW i \in DOMAIN r, NEW j \in DOMAIN r, i # j PROVE Apart(r[i], r[j])
  BY <1>2, <1>3, <1>5 DEF Distinct
<1>6. ASSUME NEW i \in DOMAIN r PROVE Apart(r[i], s[k])
  BY <1>2, <1>4, <1>6 DEF Distinct
<1> QED
  BY <1>5, <1>6 DEF Distinct, r

\* In a distinct list a name is in one place, which is what the search for the
\* first match finds.
LEMMA FirstOfName ==
    ASSUME NEW s \in Ups, Distinct(s), NEW k \in DOMAIN s
    PROVE  At(s, s[k].name) = {k} /\ Min(At(s, s[k].name)) = k
<1>1. At(s, s[k].name) = {k}
  BY DEF At, Distinct, Apart
<1>2. k \in Nat
  BY LenProperties DEF Ups
<1>3. Min({k}) = k
  BY <1>2 DEF Min
<1> QED
  BY <1>1, <1>3

\* Undoing an addition: the live list, which drops the upstream by name, and the
\* configuration, which drops its last, are back where they were.
LEMMA AdditionUndone ==
    ASSUME NEW s \in Ups, NEW u \in Candidates, Distinct(s),
           \A k \in DOMAIN s : Apart(s[k], u)
    PROVE  Front(Append(s, u)) = s /\ Without(Append(s, u), u.name) = s
<1> DEFINE t == Append(s, u)
           n == Len(s) + 1
<1>1. /\ t \in Ups /\ Len(t) = n /\ DOMAIN t = 1..n
      /\ \A k \in 1..Len(s) : t[k] = s[k]
      /\ t[n] = u /\ Distinct(t)
  BY AppendDistinct
<1>2. Len(s) \in Nat /\ DOMAIN s = 1..Len(s) /\ n \in DOMAIN t
  BY <1>1, LenProperties DEF Ups
<1> HIDE DEF t
<1>3. RemoveAt(t, n) = s
  <2>1. /\ RemoveAt(t, n) \in Ups /\ Len(RemoveAt(t, n)) = n - 1
        /\ \A i \in 1..(n - 1) : RemoveAt(t, n)[i] = IF i < n THEN t[i] ELSE t[i + 1]
    BY <1>1, <1>2, RemoveAtFacts
  <2>2. \A i \in 1..Len(RemoveAt(t, n)) : RemoveAt(t, n)[i] = s[i]
    BY <1>1, <1>2, <2>1
  <2> QED
    BY <1>2, <2>1, <2>2, SeqEqual DEF Ups
<1>4. Min(At(t, u.name)) = n
  BY <1>1, <1>2, FirstOfName
<1>5. SubSeq(t, 1, n - 1) = s
  <2>1. \A i \in 1..(n - 1) : t[i] \in Candidates
    BY <1>1, <1>2, LenProperties DEF Ups
  <2>2. /\ SubSeq(t, 1, n - 1) \in Seq(Candidates)
        /\ Len(SubSeq(t, 1, n - 1)) = IF 1 <= n - 1 THEN (n - 1) - 1 + 1 ELSE 0
        /\ \A i \in 1..((n - 1) - 1 + 1) : SubSeq(t, 1, n - 1)[i] = t[1 + i - 1]
    BY <1>2, <2>1, SubSeqProperties
  <2>3. Len(SubSeq(t, 1, n - 1)) = Len(s)
    BY <1>2, <2>2
  <2>4. \A i \in 1..Len(SubSeq(t, 1, n - 1)) : SubSeq(t, 1, n - 1)[i] = s[i]
    BY <1>1, <1>2, <2>2, <2>3
  <2> QED
    BY <2>2, <2>3, <2>4, SeqEqual DEF Ups
<1> QED
  BY <1>1, <1>3, <1>4, <1>5 DEF Front, Without, t

\* Undoing a removal puts the upstream at the end: the same upstreams, as many
\* of them, and still distinct.
LEMMA RemovalUndone ==
    ASSUME NEW s \in Ups, Distinct(s), NEW k \in 1..Len(s)
    PROVE  LET t == Append(RemoveAt(s, k), s[k])
           IN  /\ t \in Ups /\ t # <<>> /\ Distinct(t)
               /\ Len(t) = Len(s) /\ ToSet(t) = ToSet(s)
<1> DEFINE r == RemoveAt(s, k)
           t == Append(r, s[k])
           n == Len(s) - 1
<1>1. /\ Len(s) \in Nat /\ DOMAIN s = 1..Len(s) /\ k \in Int /\ s[k] \in Candidates
      /\ n \in Nat
  BY LenProperties DEF Ups
<1>2. /\ r \in Ups /\ Len(r) = n /\ DOMAIN r = 1..n
      /\ \A i \in 1..n : r[i] = IF i < k THEN s[i] ELSE s[i + 1]
      /\ Distinct(r) /\ \A i \in DOMAIN r : Apart(r[i], s[k])
  BY RemoveAtFacts, RemoveAtDistinct
<1> HIDE DEF r
<1>3. /\ t \in Ups /\ t # <<>> /\ Len(t) = n + 1 /\ DOMAIN t = 1..(n + 1)
      /\ \A i \in 1..n : t[i] = r[i]
      /\ t[n + 1] = s[k]
      /\ Distinct(t)
  <2>1. /\ t \in Ups /\ t # <<>> /\ Len(t) = Len(r) + 1 /\ DOMAIN t = 1..(Len(r) + 1)
        /\ \A i \in 1..Len(r) : t[i] = r[i]
        /\ t[Len(r) + 1] = s[k]
        /\ Distinct(t)
    <3>1. s[k] \in Candidates /\ r \in Ups /\ Distinct(r) /\ \A i \in DOMAIN r : Apart(r[i], s[k])
      BY <1>1, <1>2
    <3> QED
      BY <3>1, AppendDistinct
  <2> HIDE DEF t, n
  <2> QED
    BY <1>2, <2>1
<1> HIDE DEF t
<1>4. ASSUME NEW i \in DOMAIN t PROVE \E j \in DOMAIN s : t[i] = s[j]
  <2>1. CASE i \in 1..n
    BY <1>1, <1>2, <1>3, <2>1
  <2>2. CASE i = n + 1
    BY <1>1, <1>3, <2>2
  <2> QED
    BY <1>1, <1>3, <1>4, <2>1, <2>2
<1>5. ASSUME NEW j \in DOMAIN s PROVE \E i \in DOMAIN t : t[i] = s[j]
  <2>1. CASE j < k
    <3>1. j \in 1..n /\ j \in DOMAIN t
      BY <1>1, <1>3, <2>1
    <3> QED
      BY <1>2, <1>3, <2>1, <3>1
  <2>2. CASE j = k
    <3>1. n + 1 \in DOMAIN t
      BY <1>1, <1>3
    <3> QED
      BY <1>3, <2>2, <3>1
  <2>3. CASE j > k
    <3>1. j - 1 \in 1..n /\ j - 1 \in DOMAIN t /\ ~(j - 1 < k) /\ (j - 1) + 1 = j
      BY <1>1, <1>3, <2>3
    <3>2. t[j - 1] = s[j]
      BY <1>2, <1>3, <3>1
    <3> QED
      BY <3>1, <3>2
  <2> QED
    BY <1>1, <2>1, <2>2, <2>3
<1>6. ToSet(t) = ToSet(s)
  <2>1. ToSet(t) = {t[i] : i \in DOMAIN t} /\ ToSet(s) = {s[i] : i \in DOMAIN s}
    BY DEF ToSet
  <2> QED
    BY <1>4, <1>5, <2>1
<1>7. Len(t) = Len(s)
  BY <1>1, <1>3
<1> QED
  BY <1>3, <1>6, <1>7 DEF t, r

\* A list whose names are distinct is no longer than there are names.
LEMMA AsManyAsNames ==
    ASSUME NEW s \in Ups, Distinct(s)
    PROVE  Len(s) <= Cardinality(Names)
<1>1. /\ Len(s) \in Nat /\ DOMAIN s = 1..Len(s)
      /\ \A k \in 1..Len(s) : s[k] \in Candidates
  BY LenProperties DEF Ups
<1>2. IsFiniteSet(Names)
  <2>1. [u \in Candidates |-> u.name] \in Surjection(Candidates, Names)
    BY DEF Surjection, Names
  <2> QED
    BY <2>1, FS_Surjection, InitialAssumption
<1>3. [k \in 1..Len(s) |-> s[k].name] \in Injection(1..Len(s), Names)
  BY <1>1 DEF Injection, IsInjective, Names, Distinct, Apart
<1>4. Cardinality(1..Len(s)) <= Cardinality(Names)
  BY <1>2, <1>3, FS_Injection
<1>5. Cardinality(1..Len(s)) = Len(s)
  BY <1>1, FS_Interval
<1> QED
  BY <1>4, <1>5
-----------------------------------------------------------------------------
(***************************************************************************)
(* The inductive invariant.                                                *)
(***************************************************************************)
Typed ==
    /\ running \in BOOLEAN
    /\ cfg \in Configs
    /\ op \in [at : Places, kind : Kinds, up : Candidates \cup {Nobody}, was : Configs]
    /\ tmp \in Files /\ file \in Files /\ bak \in Files

\* What Validate asks of the fields a change can touch, and the timeouts as they
\* were at first.
Startable(c) == Sound(c) /\ c.timeouts = Initial.timeouts

\* Every configuration there is, in memory or in a file, is of that kind.
Valid ==
    /\ Startable(cfg) /\ Startable(op.was)
    /\ Startable(tmp.cfg) /\ Startable(file.cfg) /\ Startable(bak.cfg)

\* Stopped or between two changes there is nothing to roll back.
Idle ==
    /\ op.at = "free" => op = Free
    /\ op.at # "free" => running

\* While a change is being saved, the configuration is op.was with the change.
Pending ==
    op.at # "free" =>
        \/ /\ op.kind = "add" /\ op.up \in Candidates
           /\ \A k \in DOMAIN op.was.ups : Apart(op.was.ups[k], op.up)
           /\ cfg = [op.was EXCEPT !.ups = Append(@, op.up)]
        \/ /\ op.kind = "remove"
           /\ \E k \in 1..Len(op.was.ups) :
                 op.up = op.was.ups[k] /\ cfg = [op.was EXCEPT !.ups = RemoveAt(@, k)]
        \/ /\ op.kind = "strategy"
           /\ cfg = [op.was EXCEPT !.strategy = cfg.strategy]
        \/ /\ op.kind = "fallback"
           /\ cfg = [op.was EXCEPT !.enabled = cfg.enabled, !.servers = cfg.servers]

\* Two configurations that differ in the order of their upstreams at most.
Same(c, d) ==
    /\ ToSet(c.ups) = ToSet(d.ups) /\ Len(c.ups) = Len(d.ups)
    /\ c.strategy = d.strategy /\ c.enabled = d.enabled /\ c.servers = d.servers
    /\ c.timeouts = d.timeouts

\* The file holds what a rollback would come back to.
Settled == IF op.at = "free" THEN cfg ELSE op.was

Agrees == running => Same(Settled, file.cfg)

\* How far Save has come.
Saving ==
    /\ file.whole = TRUE /\ file.synced = TRUE
    /\ op.at = "sync" => tmp.whole = TRUE /\ tmp.cfg = cfg
    /\ op.at \in {"backup", "backing", "rename"} =>
          tmp.whole = TRUE /\ tmp.synced = TRUE /\ tmp.cfg = cfg
    /\ op.at = "rename" => bak.whole = TRUE /\ bak.cfg = file.cfg

ControlInv ==
    /\ Typed /\ Valid /\ live = Built(cfg) /\ Idle /\ Pending /\ Agrees /\ Saving

-----------------------------------------------------------------------------
\* A configuration is Startable when its fields are.
LEMMA StartableFields ==
    ASSUME NEW c \in Configs
    PROVE  Startable(c) <=> /\ c.ups # <<>> /\ Distinct(c.ups)
                            /\ (c.enabled => c.servers # <<>>)
                            /\ c.timeouts = Initial.timeouts
BY DEF Startable, Sound, Configs, Distinct

\* The fields of a configuration.
LEMMA ConfigFields ==
    ASSUME NEW c \in Configs
    PROVE  /\ c.ups \in Ups /\ c.strategy \in Strategies
           /\ c.enabled \in BOOLEAN /\ c.servers \in ServerLists
           /\ c.timeouts \in BOOLEAN
           /\ \A x \in Ups : /\ [c EXCEPT !.ups = x] \in Configs
                            /\ [c EXCEPT !.ups = x].ups = x
                            /\ [c EXCEPT !.ups = x].strategy = c.strategy
                            /\ [c EXCEPT !.ups = x].enabled = c.enabled
                            /\ [c EXCEPT !.ups = x].servers = c.servers
                            /\ [c EXCEPT !.ups = x].timeouts = c.timeouts
BY DEF Configs, Ups

\* Pool and configuration change their upstreams alike.
LEMMA BuiltUps ==
    ASSUME NEW c \in Configs, NEW x
    PROVE  [Built(c) EXCEPT !.ups = x] = Built([c EXCEPT !.ups = x])
BY DEF Built, Configs

\* The file a missing one stands for is a file; the first configuration is Startable.
LEMMA NoFileFacts ==
    NoFile \in Files /\ Startable(NoFile.cfg) /\ Startable(Initial)
BY InitialAssumption DEF NoFile, Files, Startable, Loadable

\* It holds at first.
LEMMA InitInv ==
    ASSUME Init PROVE ControlInv
<1>1. Initial \in Configs /\ Startable(Initial)
  BY InitialAssumption DEF Startable, Loadable
<1>2. file = [cfg |-> Initial, whole |-> TRUE, synced |-> TRUE]
  BY DEF Init, Synced, Written
<1>3. Typed
  BY <1>1, <1>2, NoFileFacts DEF Typed, Init, Free, Places, Kinds, Files
<1>4. Valid
  BY <1>1, <1>2, NoFileFacts DEF Valid, Init, Free
<1>5. live = Built(cfg) /\ Idle /\ Pending
  BY DEF Init, Idle, Pending, Free
<1>6. Agrees /\ Saving
  BY <1>2 DEF Init, Agrees, Settled, Same, Saving, Free
<1> QED
  BY <1>3, <1>4, <1>5, <1>6 DEF ControlInv

\* A change: the new configuration is one that can be loaded and differs from
\* the old one as the kind of change says, in the live components as well.
LEMMA ChangeInv ==
    ASSUME ControlInv, NEW kind \in Kinds, NEW up \in Candidates \cup {Nobody},
           NEW l, NEW c \in Configs, Change(kind, up, l, c),
           Startable(c), l = Built(c),
           \/ /\ kind = "add" /\ up \in Candidates
              /\ \A k \in DOMAIN cfg.ups : Apart(cfg.ups[k], up)
              /\ c = [cfg EXCEPT !.ups = Append(@, up)]
           \/ /\ kind = "remove"
              /\ \E k \in 1..Len(cfg.ups) :
                    up = cfg.ups[k] /\ c = [cfg EXCEPT !.ups = RemoveAt(@, k)]
           \/ kind = "strategy" /\ c = [cfg EXCEPT !.strategy = c.strategy]
           \/ /\ kind = "fallback"
              /\ c = [cfg EXCEPT !.enabled = c.enabled, !.servers = c.servers]
    PROVE  ControlInv'
<1> USE DEF Change
<1>1. op' = [at |-> "create", kind |-> kind, up |-> up, was |-> cfg] /\ cfg' = c /\ live' = l
  OBVIOUS
<1>2. op'.at = "create" /\ op'.kind = kind /\ op'.up = up /\ op'.was = cfg
  BY <1>1
<1>3. Typed'
  BY <1>1 DEF ControlInv, Typed, Places
<1>4. Valid'
  BY <1>2 DEF ControlInv, Valid
<1>5. live' = Built(cfg)' /\ Idle'
  BY <1>1, <1>2 DEF ControlInv, Idle, Built
<1>6. Pending'
  BY <1>2 DEF Pending
<1>7. Agrees' /\ Saving'
  BY <1>2 DEF ControlInv, Agrees, Settled, Same, Saving, Free
<1> QED
  BY <1>3, <1>4, <1>5, <1>6, <1>7 DEF ControlInv

\* AddUpstream.
LEMMA AddInv ==
    ASSUME ControlInv, NEW u \in Candidates, AddUpstream(u)
    PROVE  ControlInv'
<1> DEFINE c == [cfg EXCEPT !.ups = Append(@, u)]
           l == [live EXCEPT !.ups = Append(@, u)]
<1>1. cfg \in Configs /\ Startable(cfg) /\ live = Built(cfg)
  BY DEF ControlInv, Typed, Valid
<1>2. live.ups = cfg.ups
  BY <1>1 DEF Built
<1>3. \A k \in DOMAIN cfg.ups : Apart(cfg.ups[k], u)
  BY <1>2 DEF AddUpstream, Addable
<1>4. cfg.ups \in Ups /\ Distinct(cfg.ups)
  BY <1>1, ConfigFields, StartableFields
<1>5. /\ Append(cfg.ups, u) \in Ups /\ Append(cfg.ups, u) # <<>>
      /\ Distinct(Append(cfg.ups, u))
  BY <1>3, <1>4, AppendDistinct
<1>6. c \in Configs /\ Startable(c)
  <2>1. /\ c \in Configs /\ c.ups = Append(cfg.ups, u)
        /\ c.enabled = cfg.enabled /\ c.servers = cfg.servers /\ c.timeouts = cfg.timeouts
    BY <1>1, <1>5, ConfigFields
  <2> QED
    BY <1>1, <1>5, <2>1, StartableFields
<1>7. l = Built(c)
  BY <1>1, <1>2, BuiltUps
<1>8. Change("add", u, l, c)
  BY DEF AddUpstream
<1>9. "add" \in Kinds
  BY DEF Kinds
<1> QED
  BY <1>3, <1>6, <1>7, <1>8, <1>9, ChangeInv

\* RemoveUpstream: pool and configuration take out the upstream at one place.
LEMMA RemoveInv ==
    ASSUME ControlInv, NEW name \in Names, RemoveUpstream(name)
    PROVE  ControlInv'
<1> DEFINE k == Min(At(cfg.ups, name))
           c == [cfg EXCEPT !.ups = Without(@, name)]
           l == [live EXCEPT !.ups = Without(@, name)]
<1>1. cfg \in Configs /\ Startable(cfg) /\ live = Built(cfg)
  BY DEF ControlInv, Typed, Valid
<1>2. live.ups = cfg.ups
  BY <1>1 DEF Built
<1>3. cfg.ups \in Ups /\ Distinct(cfg.ups)
  BY <1>1, ConfigFields, StartableFields
<1>4. k \in DOMAIN cfg.ups
  <2>1. PICK j \in DOMAIN cfg.ups : cfg.ups[j].name = name
    BY DEF RemoveUpstream, At
  <2> QED
    BY <1>3, <2>1, FirstOfName
<1>5. k \in 1..Len(cfg.ups) /\ Len(cfg.ups) \in Nat /\ Len(cfg.ups) > 1
  BY <1>2, <1>3, <1>4, LenProperties DEF RemoveUpstream, Ups
<1>6. cfg.ups[k] \in Candidates
  BY <1>3, <1>5, LenProperties DEF Ups
<1>c. Change("remove", cfg.ups[k], l, c)
  BY DEF RemoveUpstream
<1>w. Without(cfg.ups, name) = RemoveAt(cfg.ups, k)
  BY DEF Without
<1> HIDE DEF k
<1>7. /\ RemoveAt(cfg.ups, k) \in Ups /\ RemoveAt(cfg.ups, k) # <<>>
      /\ Distinct(RemoveAt(cfg.ups, k))
  <2>1. RemoveAt(cfg.ups, k) \in Ups /\ Len(RemoveAt(cfg.ups, k)) = Len(cfg.ups) - 1
    BY <1>3, <1>5, RemoveAtFacts
  <2>2. RemoveAt(cfg.ups, k) # <<>>
    BY <1>5, <2>1, EmptySeq
  <2> QED
    BY <1>3, <1>5, <2>1, <2>2, RemoveAtDistinct
<1>8. c \in Configs /\ Startable(c)
  <2>1. /\ c \in Configs /\ c.ups = RemoveAt(cfg.ups, k)
        /\ c.enabled = cfg.enabled /\ c.servers = cfg.servers /\ c.timeouts = cfg.timeouts
    BY <1>1, <1>7, <1>w, ConfigFields
  <2> QED
    BY <1>1, <1>7, <2>1, StartableFields
<1>9. l = Built(c)
  BY <1>1, <1>2, BuiltUps
<1>10. c = [cfg EXCEPT !.ups = RemoveAt(@, k)]
  BY <1>w
<1>11. "remove" \in Kinds
  BY DEF Kinds
<1> HIDE DEF c, l
<1> QED
  BY <1>5, <1>6, <1>8, <1>9, <1>10, <1>11, <1>c, ChangeInv

\* SetStrategy.
LEMMA StrategyInv ==
    ASSUME ControlInv, NEW s \in Strategies, SetStrategy(s)
    PROVE  ControlInv'
<1> DEFINE c == [cfg EXCEPT !.strategy = s]
           l == [live EXCEPT !.strategy = s]
<1>1. cfg \in Configs /\ Startable(cfg) /\ live = Built(cfg)
  BY DEF ControlInv, Typed, Valid
<1>2. c \in Configs /\ Startable(c)
  BY <1>1 DEF Configs, Startable, Sound
<1>3. l = Built(c)
  BY <1>1 DEF Built, Configs
<1>4. c = [cfg EXCEPT !.strategy = c.strategy]
  BY <1>1 DEF Configs
<1>5. Change("strategy", Nobody, l, c) /\ "strategy" \in Kinds
  BY DEF SetStrategy, Kinds
<1> HIDE DEF c, l
<1> QED
  BY <1>2, <1>3, <1>4, <1>5, ChangeInv

\* SetFallback.
LEMMA FallbackInv ==
    ASSUME ControlInv, NEW enabled \in BOOLEAN, NEW servers \in ServerLists,
           SetFallback(enabled, servers)
    PROVE  ControlInv'
<1> DEFINE c == [cfg EXCEPT !.enabled = enabled, !.servers = servers]
           l == [live EXCEPT !.servers = IF enabled THEN servers ELSE <<>>]
<1>1. cfg \in Configs /\ Startable(cfg) /\ live = Built(cfg)
  BY DEF ControlInv, Typed, Valid
<1>2. c \in Configs /\ Startable(c)
  BY <1>1 DEF Configs, Startable, Sound, SetFallback
<1>3. l = Built(c)
  BY <1>1 DEF Built, Configs
<1>4. c = [cfg EXCEPT !.enabled = c.enabled, !.servers = c.servers]
  BY <1>1 DEF Configs
<1>5. Change("fallback", Nobody, l, c) /\ "fallback" \in Kinds
  BY DEF SetFallback, Kinds
<1> HIDE DEF c, l
<1> QED
  BY <1>2, <1>3, <1>4, <1>5, ChangeInv

\* The steps of Save, and its failure.
LEMMA SaveInv ==
    ASSUME ControlInv, Create \/ Sync \/ Backup \/ BackedUp \/ Rename \/ SaveFails
    PROVE  ControlInv'
<1> USE DEF ControlInv
<1>t. /\ running \in BOOLEAN /\ cfg \in Configs
      /\ op \in [at : Places, kind : Kinds, up : Candidates \cup {Nobody}, was : Configs]
      /\ tmp \in Files /\ file \in Files /\ bak \in Files
  BY DEF Typed
<1>1. CASE Create
  <2>1. tmp' = [cfg |-> cfg, whole |-> TRUE, synced |-> FALSE] /\ op' = [op EXCEPT !.at = "sync"]
    BY <1>1 DEF Create, Written, Goto
  <2>2. Typed' /\ Valid'
    BY <1>1, <1>t, <2>1 DEF Create, Typed, Valid, Files, Places
  <2>3. live' = Built(cfg)' /\ Idle' /\ Pending'
    BY <1>1, <1>t, <2>1 DEF Create, Idle, Pending, Built
  <2>4. Agrees' /\ Saving'
    BY <1>1, <1>t, <2>1 DEF Create, Agrees, Settled, Same, Saving
  <2> QED
    BY <2>2, <2>3, <2>4
<1>2. CASE Sync
  <2>1. tmp' = [tmp EXCEPT !.synced = TRUE] /\ op' = [op EXCEPT !.at = "backup"]
    BY <1>2 DEF Sync, Flushed, Synced, Goto
  <2>2. Typed' /\ Valid'
    BY <1>2, <1>t, <2>1 DEF Sync, Typed, Valid, Files, Places
  <2>3. live' = Built(cfg)' /\ Idle' /\ Pending'
    BY <1>2, <1>t, <2>1 DEF Sync, Idle, Pending, Built
  <2>4. Agrees' /\ Saving'
    BY <1>2, <1>t, <2>1 DEF Sync, Agrees, Settled, Same, Saving, Files
  <2> QED
    BY <2>2, <2>3, <2>4
<1>3. CASE Backup
  <2>1. bak' = NoFile /\ op' = [op EXCEPT !.at = "backing"]
    BY <1>3 DEF Backup, Goto
  <2>2. Typed' /\ Valid'
    BY <1>3, <1>t, <2>1, NoFileFacts DEF Backup, Typed, Valid, Places
  <2>3. live' = Built(cfg)' /\ Idle' /\ Pending'
    BY <1>3, <1>t, <2>1 DEF Backup, Idle, Pending, Built
  <2>4. Agrees' /\ Saving'
    BY <1>3, <1>t, <2>1 DEF Backup, Agrees, Settled, Same, Saving
  <2> QED
    BY <2>2, <2>3, <2>4
<1>4. CASE BackedUp
  <2>1. bak' = [cfg |-> file.cfg, whole |-> TRUE, synced |-> FALSE] /\ op' = [op EXCEPT !.at = "rename"]
    BY <1>4 DEF BackedUp, Written, Previous, Goto
  <2>2. Typed' /\ Valid'
    BY <1>4, <1>t, <2>1 DEF BackedUp, Typed, Valid, Files, Places
  <2>3. live' = Built(cfg)' /\ Idle' /\ Pending'
    BY <1>4, <1>t, <2>1 DEF BackedUp, Idle, Pending, Built
  <2>4. Agrees' /\ Saving'
    BY <1>4, <1>t, <2>1 DEF BackedUp, Agrees, Settled, Same, Saving
  <2> QED
    BY <2>2, <2>3, <2>4
<1>5. CASE Rename
  <2>1. file' = tmp /\ tmp' = NoFile /\ op' = Free /\ tmp.cfg = cfg
    BY <1>5 DEF Rename, Saving
  <2>f. Free.at = "free" /\ Free.was = Initial /\ Free \in [at : Places, kind : Kinds, up : Candidates \cup {Nobody}, was : Configs]
    BY InitialAssumption DEF Free, Places, Kinds
  <2>2. Typed' /\ Valid'
    BY <1>5, <1>t, <2>1, <2>f, NoFileFacts, InitialAssumption DEF Rename, Typed, Valid
  <2>3. live' = Built(cfg)' /\ Idle' /\ Pending'
    BY <1>5, <1>t, <2>1, <2>f DEF Rename, Idle, Pending, Built
  <2>4. Agrees' /\ Saving'
    BY <1>5, <1>t, <2>1, <2>f DEF Rename, Agrees, Settled, Same, Saving
  <2> QED
    BY <2>2, <2>3, <2>4
<1>6. CASE SaveFails
  <2>1. tmp' = NoFile /\ op' = [op EXCEPT !.at = "rollback"] /\ op.at # "free"
    BY <1>6 DEF SaveFails, Goto
  <2>2. Typed' /\ Valid'
    BY <1>6, <1>t, <2>1, NoFileFacts DEF SaveFails, Typed, Valid, Places
  <2>3. live' = Built(cfg)' /\ Idle' /\ Pending'
    BY <1>6, <1>t, <2>1 DEF SaveFails, Idle, Pending, Built
  <2>4. Agrees' /\ Saving'
    BY <1>6, <1>t, <2>1 DEF SaveFails, Agrees, Settled, Same, Saving
  <2> QED
    BY <2>2, <2>3, <2>4
<1> QED
  BY <1>1, <1>2, <1>3, <1>4, <1>5, <1>6

\* A rollback ends where the change began, but for the order of the upstreams.
LEMMA UndoneFacts ==
    ASSUME ControlInv, op.at # "free"
    PROVE  /\ Undone(cfg) \in Configs /\ Startable(Undone(cfg))
           /\ UndoneLive(live) = Built(Undone(cfg))
           /\ Same(Undone(cfg), op.was)
<1>1. /\ cfg \in Configs /\ live = Built(cfg)
      /\ op.was \in Configs /\ Startable(op.was)
  BY DEF ControlInv, Typed, Valid
<1>2. op.was.ups \in Ups /\ Distinct(op.was.ups) /\ op.was.ups # <<>>
  BY <1>1, ConfigFields, StartableFields
<1>3. live.ups = cfg.ups
  BY <1>1 DEF Built
<1>4. CASE /\ op.kind = "add" /\ op.up \in Candidates
           /\ \A k \in DOMAIN op.was.ups : Apart(op.was.ups[k], op.up)
           /\ cfg = [op.was EXCEPT !.ups = Append(@, op.up)]
  <2>1. cfg.ups = Append(op.was.ups, op.up)
    BY <1>1, <1>4 DEF Configs
  <2>2. Front(cfg.ups) = op.was.ups /\ Without(cfg.ups, op.up.name) = op.was.ups
    BY <1>2, <1>4, <2>1, AdditionUndone
  <2>3. Undone(cfg) = [cfg EXCEPT !.ups = op.was.ups]
    BY <1>4, <2>2 DEF Undone
  <2>4. UndoneLive(live) = [Built(cfg) EXCEPT !.ups = op.was.ups]
    BY <1>1, <1>3, <1>4, <2>2 DEF UndoneLive
  <2>5. /\ cfg.strategy = op.was.strategy /\ cfg.enabled = op.was.enabled
        /\ cfg.servers = op.was.servers /\ cfg.timeouts = op.was.timeouts
    BY <1>1, <1>4 DEF Configs
  <2>6. Undone(cfg) = op.was
    BY <1>1, <2>3, <2>5 DEF Configs
  <2>7. UndoneLive(live) = Built(Undone(cfg))
    BY <1>1, <2>3, <2>4, BuiltUps
  <2>8. Same(op.was, op.was)
    BY DEF Same
  <2> QED
    BY <1>1, <2>6, <2>7, <2>8
<1>5. CASE /\ op.kind = "remove"
           /\ \E k \in 1..Len(op.was.ups) :
                 op.up = op.was.ups[k] /\ cfg = [op.was EXCEPT !.ups = RemoveAt(@, k)]
  <2>1. PICK k \in 1..Len(op.was.ups) :
               op.up = op.was.ups[k] /\ cfg = [op.was EXCEPT !.ups = RemoveAt(@, k)]
    BY <1>5
  <2> DEFINE t == Append(RemoveAt(op.was.ups, k), op.was.ups[k])
  <2>2. /\ t \in Ups /\ t # <<>> /\ Distinct(t)
        /\ Len(t) = Len(op.was.ups) /\ ToSet(t) = ToSet(op.was.ups)
    BY <1>2, RemovalUndone
  <2>3. /\ cfg.ups = RemoveAt(op.was.ups, k)
        /\ cfg.strategy = op.was.strategy /\ cfg.enabled = op.was.enabled
        /\ cfg.servers = op.was.servers /\ cfg.timeouts = op.was.timeouts
    BY <1>1, <2>1 DEF Configs
  <2>4. Append(cfg.ups, op.up) = t
    BY <2>1, <2>3
  <2> HIDE DEF t
  <2>5. Undone(cfg) = [cfg EXCEPT !.ups = t]
    BY <1>5, <2>4 DEF Undone
  <2>6. UndoneLive(live) = [Built(cfg) EXCEPT !.ups = t]
    BY <1>1, <1>3, <1>5, <2>4 DEF UndoneLive
  <2>7. /\ Undone(cfg) \in Configs
        /\ Undone(cfg).ups = t /\ Undone(cfg).strategy = cfg.strategy
        /\ Undone(cfg).enabled = cfg.enabled /\ Undone(cfg).servers = cfg.servers
        /\ Undone(cfg).timeouts = cfg.timeouts
    BY <1>1, <2>2, <2>5, ConfigFields
  <2>8. Startable(Undone(cfg))
    BY <1>1, <2>2, <2>3, <2>7, StartableFields
  <2>9. Same(Undone(cfg), op.was)
    BY <2>2, <2>3, <2>7 DEF Same
  <2> QED
    BY <1>1, <2>5, <2>6, <2>7, <2>8, <2>9, BuiltUps
<1>6. CASE op.kind = "strategy" /\ cfg = [op.was EXCEPT !.strategy = cfg.strategy]
  <2>1. Undone(cfg) = [cfg EXCEPT !.strategy = op.was.strategy]
    BY <1>6 DEF Undone
  <2>2. UndoneLive(live) = [Built(cfg) EXCEPT !.strategy = op.was.strategy]
    BY <1>1, <1>6 DEF UndoneLive
  <2>3. Undone(cfg) = op.was
    BY <1>1, <1>6, <2>1 DEF Configs
  <2>4. UndoneLive(live) = Built(op.was)
    BY <1>1, <1>6, <2>2 DEF Built, Configs
  <2> QED
    BY <1>1, <2>3, <2>4 DEF Same
<1>7. CASE /\ op.kind = "fallback"
           /\ cfg = [op.was EXCEPT !.enabled = cfg.enabled, !.servers = cfg.servers]
  <2>1. Undone(cfg) = [cfg EXCEPT !.enabled = op.was.enabled, !.servers = op.was.servers]
    BY <1>7 DEF Undone
  <2>2. UndoneLive(live) = [Built(cfg) EXCEPT !.servers = IF op.was.enabled
                                                          THEN op.was.servers ELSE <<>>]
    BY <1>1, <1>7 DEF UndoneLive
  <2>3. Undone(cfg) = op.was
    BY <1>1, <1>7, <2>1 DEF Configs
  <2>4. UndoneLive(live) = Built(op.was)
    BY <1>1, <1>7, <2>2 DEF Built, Configs
  <2> QED
    BY <1>1, <2>3, <2>4 DEF Same
<1> QED
  BY <1>4, <1>5, <1>6, <1>7 DEF ControlInv, Pending

\* The rollback.
LEMMA RollbackInv ==
    ASSUME ControlInv, Rollback
    PROVE  ControlInv'
<1>1. /\ Undone(cfg) \in Configs /\ Startable(Undone(cfg))
      /\ UndoneLive(live) = Built(Undone(cfg))
      /\ Same(Undone(cfg), op.was)
  BY UndoneFacts DEF Rollback
<1>2. cfg' = Undone(cfg) /\ live' = UndoneLive(live) /\ op' = Free
  BY DEF Rollback
<1>3. /\ Free.at = "free" /\ Free.was = Initial
      /\ Free \in [at : Places, kind : Kinds, up : Candidates \cup {Nobody}, was : Configs]
  BY InitialAssumption DEF Free, Places, Kinds
<1>4. Typed' /\ Valid'
  BY <1>1, <1>2, <1>3, NoFileFacts, InitialAssumption DEF ControlInv, Rollback, Typed, Valid
<1>5. live' = Built(cfg)' /\ Idle' /\ Pending'
  BY <1>1, <1>2, <1>3 DEF Idle, Pending, Built
<1>6. Agrees'
  <2>1. running /\ op.at # "free" /\ file' = file
    BY DEF Rollback
  <2>2. Same(op.was, file.cfg)
    BY <2>1 DEF ControlInv, Agrees, Settled
  <2>3. Settled' = Undone(cfg)
    BY <1>2, <1>3 DEF Settled
  <2> QED
    BY <1>1, <2>1, <2>2, <2>3 DEF Agrees, Same
<1>7. Saving'
  BY <1>2, <1>3 DEF ControlInv, Rollback, Saving
<1> QED
  BY <1>4, <1>5, <1>6, <1>7 DEF ControlInv

\* A crash and the next start.
LEMMA CrashInv ==
    ASSUME ControlInv, Crash \/ Restart
    PROVE  ControlInv'
<1> USE DEF ControlInv
<1>f. /\ Free.at = "free" /\ Free.was = Initial
      /\ Free \in [at : Places, kind : Kinds, up : Candidates \cup {Nobody}, was : Configs]
  BY InitialAssumption DEF Free, Places, Kinds
<1>1. CASE Crash
  <2>1. /\ running' = FALSE /\ op' = Free /\ cfg' = Initial
        /\ live' = Built(Initial) /\ tmp' = NoFile /\ bak' \in {bak, NoFile}
    BY <1>1 DEF Crash
  <2>2. file' = file
    BY <1>1 DEF Crash, Saving, Typed, Files
  <2>3. Typed' /\ Valid'
    BY <1>f, <2>1, <2>2, NoFileFacts, InitialAssumption DEF Typed, Valid
  <2>4. live' = Built(cfg)' /\ Idle' /\ Pending'
    BY <1>f, <2>1 DEF Idle, Pending, Built
  <2>5. Agrees' /\ Saving'
    BY <1>f, <2>1, <2>2 DEF Agrees, Saving
  <2> QED
    BY <2>3, <2>4, <2>5
<1>2. CASE Restart
  <2>1. /\ running' = TRUE /\ cfg' = file.cfg /\ live' = Built(file.cfg)
        /\ UNCHANGED <<op, tmp, file, bak>> /\ op.at = "free"
    BY <1>2 DEF Restart, Idle
  <2>2. Typed' /\ Valid'
    BY <2>1 DEF Typed, Valid, Files
  <2>3. live' = Built(cfg)' /\ Idle' /\ Pending'
    BY <2>1 DEF Idle, Pending, Built
  <2>4. Agrees' /\ Saving'
    BY <2>1 DEF Agrees, Settled, Same, Saving
  <2> QED
    BY <2>2, <2>3, <2>4
<1> QED
  BY <1>1, <1>2

\* Every step keeps the invariant.
LEMMA StepInv ==
    ASSUME ControlInv, [Next]_vars
    PROVE  ControlInv'
<1>1. CASE UNCHANGED vars
  <2>1. /\ Typed' /\ Valid' /\ live' = Built(cfg)'
        /\ Idle' /\ Pending' /\ Agrees' /\ Saving'
    BY <1>1 DEF vars, ControlInv, Typed, Valid, Built, Idle, Pending, Agrees, Settled, Same,
                Saving
  <2> QED
    BY <2>1 DEF ControlInv
<1> QED
  BY <1>1, AddInv, RemoveInv, StrategyInv, FallbackInv, SaveInv, RollbackInv, CrashInv DEF Next

\* ControlInv is an invariant.
LEMMA AlwaysInv == Spec => []ControlInv
<1>1. Init => ControlInv
  BY InitInv
<1>2. ControlInv /\ [Next]_vars => ControlInv'
  BY StepInv
<1> QED
  BY <1>1, <1>2, PTL DEF Spec
-----------------------------------------------------------------------------
\* No configuration, live, in memory or in a file, is malformed or has more
\* upstreams than there are names (control.go, pool.Add).
THEOREM ControlTypeOK == Spec => []TypeOK
<1>1. ASSUME ControlInv PROVE TypeOK
  <2>1. ASSUME NEW c \in Configs, Startable(c) PROVE Len(c.ups) <= Cardinality(Names)
    BY <2>1, ConfigFields, StartableFields, AsManyAsNames
  <2>2. /\ cfg \in Configs /\ op.was \in Configs
        /\ tmp.cfg \in Configs /\ file.cfg \in Configs /\ bak.cfg \in Configs
    BY <1>1 DEF ControlInv, Typed, Files
  <2>3. live \in [ups : Seq(Candidates), strategy : Strategies, servers : ServerLists \cup {<<>>}]
    BY <1>1, <2>2 DEF ControlInv, Built, Configs
  <2>4. live.ups = cfg.ups
    BY <1>1 DEF ControlInv, Built
  <2>5. \A c \in {live, cfg, op.was, tmp.cfg, file.cfg, bak.cfg} :
           Len(c.ups) <= Cardinality(Names)
    BY <1>1, <2>1, <2>2, <2>4 DEF ControlInv, Valid
  <2> QED
    BY <1>1, <2>3, <2>5 DEF ControlInv, Typed, TypeOK
<1> QED
  BY <1>1, AlwaysInv, PTL

\* What runs is what the manager believes it configured, through any changes,
\* failed saves, rollbacks and restarts (control.go).
THEOREM LiveAsConfiguredAlways == Spec => []LiveAsConfigured
<1>1. ControlInv => LiveAsConfigured
  BY DEF ControlInv, LiveAsConfigured
<1> QED
  BY <1>1, AlwaysInv, PTL

\* Once a change is over, the file agrees with the configuration but for the
\* order of the upstreams (control.go, saveLocked).
THEOREM SavedOrUndoneAlways == Spec => []SavedOrUndone
<1>1. ASSUME ControlInv, running, op = Free
      PROVE  /\ ToSet(cfg.ups) = ToSet(file.cfg.ups)
             /\ Len(cfg.ups) = Len(file.cfg.ups)
             /\ [cfg EXCEPT !.ups = <<>>] = [file.cfg EXCEPT !.ups = <<>>]
  <2>1. op.at = "free"
    BY <1>1 DEF Free
  <2>2. Same(cfg, file.cfg)
    BY <1>1, <2>1 DEF ControlInv, Agrees, Settled
  <2>3. cfg \in Configs /\ file.cfg \in Configs
    BY <1>1 DEF ControlInv, Typed, Files
  <2>4. [cfg EXCEPT !.ups = <<>>] = [file.cfg EXCEPT !.ups = <<>>]
    BY <2>2, <2>3 DEF Same, Configs
  <2> QED
    BY <2>2, <2>4 DEF Same
<1>2. ControlInv => SavedOrUndone
  BY <1>1 DEF SavedOrUndone
<1> QED
  BY <1>2, AlwaysInv, PTL

\* The file is whole, sound in what a change can touch, and passes validation if
\* the fallback's timeouts did at first, wherever the power is cut (config.go,
\* Save, Validate).
THEOREM FileLoadsAlways == Spec => []FileLoads
<1>1. ControlInv => FileLoads
  BY DEF ControlInv, Valid, Startable, Saving, FileLoads, Loadable
<1> QED
  BY <1>1, AlwaysInv, PTL

\* The file is replaced only when its contents are whole in the backup
\* (config.go, Save).
THEOREM BackupFirstAlways == Spec => BackupFirst
<1>1. ASSUME ControlInv, [Next]_vars
      PROVE  [file' # file => \/ bak.whole /\ bak.cfg = file.cfg
                              \/ file'.cfg = file.cfg]_vars
  <2>1. CASE UNCHANGED vars
    BY <2>1
  <2>2. CASE Rename
    BY <1>1, <2>2 DEF Rename, ControlInv, Saving
  <2>3. CASE Crash
    <3>1. file \in Files
      BY <1>1 DEF ControlInv, Typed
    <3>2. file'.cfg = file.cfg
      BY <2>3, <3>1 DEF Crash, Files
    <3> QED
      BY <3>2
  <2>4. CASE Next /\ ~Rename /\ ~Crash
    <3>1. file' = file
      BY <2>4 DEF Next, AddUpstream, RemoveUpstream, SetStrategy, SetFallback, Change, Create,
                  Sync, Backup, BackedUp, SaveFails, Rollback, Restart
    <3> QED
      BY <3>1
  <2> QED
    BY <1>1, <2>1, <2>2, <2>3, <2>4
<1> QED
  BY <1>1, AlwaysInv, PTL DEF Spec, BackupFirst
=============================================================================
