--------------------------- MODULE AdSearchProofs ---------------------------
(***************************************************************************)
(* Whatever the tables, the request, the tolerance and the nodes that      *)
(* fail, a search answers as AdAuction specifies.                          *)
(*                                                                         *)
(* The invariant SearchInv only says that replies and answer are among     *)
(* those the operators allow; the rest is about the operators.  Sorting    *)
(* orders neighbours, so everything (SortsOrdered); removing duplicates    *)
(* keeps entries that beat all others (DedupBeats), a heap rows that beat  *)
(* those it drops (HeapBeats); what beats, beats in turn what is beaten    *)
(* (BeatenTrans), so the answer beats every row reached (MergeBeats), in   *)
(* any sense of no-worse that the comparator and the heaps respect.        *)
(* Three such senses give the three properties.                            *)
(***************************************************************************)
EXTENDS AdSearch, FiniteSetTheorems, WellFoundedInduction, TLAPS

-----------------------------------------------------------------------------
(* Naturals. *)

\* A set of naturals has a least element.
LEMMA Least ==
  ASSUME NEW S, S \subseteq Nat, S # {}
  PROVE  \E x \in S : \A y \in S : x <= y
<1>1. IsWellFoundedOn(OpToRel(<, Nat), Nat)
  BY NatLessThanWellFounded
<1>2. PICK x \in S : \A y \in S : ~ (<<y, x>> \in OpToRel(<, Nat))
  BY <1>1, WFMin
<1>3. \A y \in S : ~ (y < x)
  BY <1>2 DEF OpToRel
<1> QED
  BY <1>3

\* Induction: a set that has 0 and, with any natural, the next one.
LEMMA Induction ==
  ASSUME NEW S, 0 \in S, \A n \in Nat : n \in S => n + 1 \in S
  PROVE  Nat \subseteq S
<1> SUFFICES ASSUME Nat \ S # {} PROVE FALSE
  OBVIOUS
<1>1. PICK x \in Nat \ S : \A y \in Nat \ S : x <= y
  BY Least
<1>2. x - 1 \in Nat /\ (x - 1) + 1 = x
  OBVIOUS
<1> QED
  BY <1>1, <1>2

-----------------------------------------------------------------------------
(* Sorting. *)

\* The recursion of Sorts, for sequences of the first k items.
Steps(entryOf, s) ==
  {x \in DOMAIN entryOf : /\ x \notin Range(s)
                          /\ s # <<>> => ~Outranks(entryOf[x], entryOf[Last(s)])}

Level(entryOf, below, k) ==
  IF k = 0 THEN {<<>>}
  ELSE UNION {{Append(s, x) : x \in Steps(entryOf, s)} : s \in below[k - 1]}

\* What Sorts recurs to.
LEMMA Levels ==
  ASSUME NEW entryOf, NEW n \in Nat
  PROVE  LET sorted == CHOOSE g : g = [k \in 0..n |-> Level(entryOf, g, k)]
         IN  sorted = [k \in 0..n |-> Level(entryOf, sorted, k)]
<1> DEFINE Upto == {m \in Nat : \E g : g = [k \in 0..m |-> Level(entryOf, g, k)]}
<1>1. 0 \in Upto
  <2> DEFINE g == [k \in 0..0 |-> {<<>>}]
  <2>1. g = [k \in 0..0 |-> Level(entryOf, g, k)]
    BY DEF Level
  <2> QED BY <2>1
<1>2. ASSUME NEW m \in Nat, m \in Upto PROVE m + 1 \in Upto
  <2>1. PICK g : g = [k \in 0..m |-> Level(entryOf, g, k)]
    BY <1>2
  <2> DEFINE h == [k \in 0..(m + 1) |-> Level(entryOf, g, k)]
  <2>2. \A k \in 0..m : h[k] = g[k]
    BY <2>1
  <2>3. \A k \in 0..(m + 1) : Level(entryOf, g, k) = Level(entryOf, h, k)
    <3> SUFFICES ASSUME NEW k \in 0..(m + 1) PROVE Level(entryOf, g, k) = Level(entryOf, h, k)
      OBVIOUS
    <3> HIDE DEF h
    <3>1. k # 0 => k - 1 \in 0..m
      OBVIOUS
    <3>2. k # 0 => h[k - 1] = g[k - 1]
      BY <3>1, <2>2
    <3> QED BY <3>2 DEF Level
  <2>4. h = [k \in 0..(m + 1) |-> Level(entryOf, h, k)]
    BY <2>3
  <2>5. \E f : f = [k \in 0..(m + 1) |-> Level(entryOf, f, k)]
    <3> HIDE DEF h
    <3> QED BY <2>4
  <2> QED BY <2>5
<1>3. n \in Upto
  <2> HIDE DEF Upto
  <2> QED BY <1>1, <1>2, Induction
<1> QED
  BY <1>3

\* A sequence of k items: each once, and no two neighbours the wrong way round.
Arranged(entryOf, s, k) ==
  /\ s \in Seq(DOMAIN entryOf)
  /\ Len(s) = k
  /\ \A i, j \in 1..k : s[i] = s[j] => i = j
  /\ \A i \in 1..(k - 1) : ~Outranks(entryOf[s[i + 1]], entryOf[s[i]])

LEMMA ArrangedStep ==
  ASSUME NEW entryOf, NEW k \in Nat, NEW s, Arranged(entryOf, s, k),
         NEW x \in Steps(entryOf, s)
  PROVE  Arranged(entryOf, Append(s, x), k + 1)
<1> DEFINE t == Append(s, x)
<1>1. /\ s \in Seq(DOMAIN entryOf) /\ Len(s) = k
      /\ \A i, j \in 1..k : s[i] = s[j] => i = j
      /\ \A i \in 1..(k - 1) : ~Outranks(entryOf[s[i + 1]], entryOf[s[i]])
  BY DEF Arranged
<1>2. x \in DOMAIN entryOf /\ \A i \in 1..k : s[i] # x
  BY <1>1 DEF Steps, Range
<1>3. t \in Seq(DOMAIN entryOf) /\ Len(t) = k + 1
      /\ t[k + 1] = x /\ \A i \in 1..k : t[i] = s[i]
  BY <1>1, <1>2
<1>4. k # 0 => s # <<>> /\ Last(s) = s[k]
  BY <1>1 DEF Last
<1>5. k # 0 => ~Outranks(entryOf[x], entryOf[s[k]])
  BY <1>4 DEF Steps
<1> HIDE DEF t
<1>6. ASSUME NEW i \in 1..(k + 1), NEW j \in 1..(k + 1), t[i] = t[j] PROVE i = j
  BY <1>1, <1>2, <1>3, <1>6
<1>7. ASSUME NEW i \in 1..k PROVE ~Outranks(entryOf[t[i + 1]], entryOf[t[i]])
  <2>1. CASE i = k
    BY <2>1, <1>3, <1>5
  <2>2. CASE i # k
    <3>1. i \in 1..(k - 1) /\ i + 1 \in 1..k
      BY <2>2
    <3> QED BY <3>1, <1>1, <1>3
  <2> QED BY <2>1, <2>2
<1> QED
  BY <1>3, <1>6, <1>7 DEF Arranged, t

LEMMA SortsArranged ==
  ASSUME NEW entryOf, IsFiniteSet(DOMAIN entryOf), NEW sorted \in Sorts(entryOf)
  PROVE  \E s : /\ Arranged(entryOf, s, Cardinality(DOMAIN entryOf))
                /\ sorted = [i \in DOMAIN s |-> entryOf[s[i]]]
<1> DEFINE n == Cardinality(DOMAIN entryOf)
           level == CHOOSE g : g = [k \in 0..n |-> Level(entryOf, g, k)]
<1>1. n \in Nat
  BY FS_CardinalityType
<1>2. Sorts(entryOf) = {[i \in DOMAIN s |-> entryOf[s[i]]] : s \in level[n]}
  BY DEF Sorts, Level, Steps
<1>3. level = [k \in 0..n |-> Level(entryOf, level, k)]
  <2> HIDE DEF n
  <2> QED BY <1>1, Levels
<1> HIDE DEF n, level
<1> DEFINE Sound == {k \in Nat : k <= n => \A s \in level[k] : Arranged(entryOf, s, k)}
<1>4. 0 \in Sound
  <2>1. level[0] = {<<>>}
    BY <1>1, <1>3 DEF Level
  <2>2. Arranged(entryOf, <<>>, 0)
    BY DEF Arranged
  <2> QED BY <2>1, <2>2
<1>5. ASSUME NEW k \in Nat, k \in Sound PROVE k + 1 \in Sound
  <2> SUFFICES ASSUME k + 1 <= n, NEW t \in level[k + 1] PROVE Arranged(entryOf, t, k + 1)
    OBVIOUS
  <2>1. level[k + 1] = UNION {{Append(s, x) : x \in Steps(entryOf, s)} : s \in level[k]}
    <3>1. k + 1 \in 0..n /\ k + 1 # 0 /\ (k + 1) - 1 = k
      BY <1>1
    <3> QED BY <3>1, <1>3 DEF Level
  <2>2. PICK s \in level[k] : \E x \in Steps(entryOf, s) : t = Append(s, x)
    BY <2>1
  <2>3. Arranged(entryOf, s, k)
    BY <1>1, <1>5
  <2> QED BY <2>2, <2>3, ArrangedStep
<1>6. n \in Sound
  <2> HIDE DEF Sound
  <2> QED BY <1>1, <1>4, <1>5, Induction
<1>7. PICK s \in level[n] : sorted = [i \in DOMAIN s |-> entryOf[s[i]]]
  BY <1>2
<1> QED
  BY <1>1, <1>6, <1>7 DEF n

\* A sequence of all items has each of them.
LEMMA ArrangedAll ==
  ASSUME NEW entryOf, IsFiniteSet(DOMAIN entryOf),
         NEW s, Arranged(entryOf, s, Cardinality(DOMAIN entryOf)),
         NEW x \in DOMAIN entryOf
  PROVE  \E i \in 1..Len(s) : s[i] = x
<1> DEFINE n == Cardinality(DOMAIN entryOf)
<1>1. n \in Nat
  BY FS_CardinalityType
<1>2. s \in Injection(1..n, DOMAIN entryOf)
  BY <1>1 DEF Arranged, Injection, IsInjective
<1>3. Cardinality(1..n) = n
  BY <1>1, FS_Interval
<1>4. s \in Surjection(1..n, DOMAIN entryOf)
  BY <1>2, <1>3, FS_Injection
<1> QED
  BY <1>4, <1>1 DEF Surjection, Arranged

-----------------------------------------------------------------------------
(* Removing duplicates. *)

Below(positions, i) == {j \in positions : j <= i}

Rank(positions, i) == Cardinality(Below(positions, i))

LEMMA RankType ==
  ASSUME NEW n \in Nat, NEW F \in SUBSET (1..n)
  PROVE  /\ IsFiniteSet(F)
         /\ Cardinality(F) \in Nat
         /\ Rank(F, 0) = 0
         /\ Rank(F, n) = Cardinality(F)
         /\ \A i \in 0..n : IsFiniteSet(Below(F, i)) /\ Rank(F, i) \in 0..Cardinality(F)
<1>0. \A j \in F : ~(j <= 0) /\ j <= n
  OBVIOUS
<1>1. IsFiniteSet(F) /\ Cardinality(F) \in Nat
  <2>1. IsFiniteSet(1..n)
    BY FS_Interval
  <2> QED BY <2>1, FS_Subset, FS_CardinalityType
<1>2. ASSUME NEW i \in 0..n
      PROVE IsFiniteSet(Below(F, i)) /\ Rank(F, i) \in 0..Cardinality(F)
  <2>1. Below(F, i) \in SUBSET F
    BY DEF Below
  <2>2. /\ IsFiniteSet(Below(F, i))
        /\ Cardinality(Below(F, i)) <= Cardinality(F)
        /\ Cardinality(Below(F, i)) \in Nat
    BY <2>1, <1>1, FS_Subset, FS_CardinalityType
  <2> QED BY <2>2, <1>1 DEF Rank
<1>3. Below(F, 0) = {} /\ Below(F, n) = F
  BY <1>0 DEF Below
<1>4. Rank(F, 0) = 0 /\ Rank(F, n) = Cardinality(F)
  BY <1>3, FS_EmptySet DEF Rank
<1> QED
  BY <1>1, <1>2, <1>4

\* At a position of the set the rank is one more, elsewhere it stays.
LEMMA RankStep ==
  ASSUME NEW n \in Nat, NEW F \in SUBSET (1..n), NEW i \in 1..n
  PROVE  Rank(F, i) = IF i \in F THEN Rank(F, i - 1) + 1 ELSE Rank(F, i - 1)
<1>1. i - 1 \in 0..n
  OBVIOUS
<1>2. IsFiniteSet(Below(F, i - 1))
  BY <1>1, RankType
<1>3. \A j \in F : j \in Nat /\ (j <= i <=> j <= i - 1 \/ j = i) /\ ~(i <= i - 1)
  OBVIOUS
<1>4. CASE i \in F
  <2>1. Below(F, i) = Below(F, i - 1) \cup {i} /\ i \notin Below(F, i - 1)
    BY <1>3, <1>4 DEF Below
  <2> QED BY <2>1, <1>2, <1>4, FS_AddElement DEF Rank
<1>5. CASE i \notin F
  <2>1. Below(F, i) = Below(F, i - 1)
    BY <1>3, <1>5 DEF Below
  <2> QED BY <2>1, <1>5 DEF Rank
<1> QED
  BY <1>4, <1>5

\* Later positions have higher ranks.
LEMMA RankGrows ==
  ASSUME NEW n \in Nat, NEW F \in SUBSET (1..n), NEW i \in F, NEW j \in F, i < j
  PROVE  Rank(F, i) < Rank(F, j)
<1>1. /\ i \in 0..n /\ j \in 0..n /\ j <= j /\ ~(j <= i)
      /\ \A k \in F : k <= i => k <= j
  OBVIOUS
<1>2. IsFiniteSet(Below(F, i)) /\ IsFiniteSet(Below(F, j))
  BY <1>1, RankType
<1>3. Below(F, i) \in SUBSET Below(F, j) /\ j \in Below(F, j) /\ j \notin Below(F, i)
  BY <1>1 DEF Below
<1>4. /\ Cardinality(Below(F, i)) <= Cardinality(Below(F, j))
      /\ Cardinality(Below(F, i)) # Cardinality(Below(F, j))
  BY <1>2, <1>3, FS_Subset
<1>5. Cardinality(Below(F, i)) \in Nat /\ Cardinality(Below(F, j)) \in Nat
  BY <1>2, FS_CardinalityType
<1> QED
  BY <1>4, <1>5 DEF Rank

\* Each number up to the size of the set is the rank of a position.
LEMMA NthRank ==
  ASSUME NEW n \in Nat, NEW F \in SUBSET (1..n), NEW k \in 1..Cardinality(F)
  PROVE  Nth(F, k) \in F /\ Rank(F, Nth(F, k)) = k
<1>1. /\ Cardinality(F) \in Nat /\ Rank(F, 0) = 0 /\ Rank(F, n) = Cardinality(F)
      /\ \A i \in 0..n : Rank(F, i) \in Nat
  <2>1. Cardinality(F) \in Nat /\ Rank(F, 0) = 0 /\ Rank(F, n) = Cardinality(F)
    BY RankType
  <2>2. \A i \in 0..n : Rank(F, i) \in 0..Cardinality(F)
    BY RankType
  <2> QED BY <2>1, <2>2
<1> DEFINE reached == {i \in 0..n : Rank(F, i) >= k}
<1>2. n \in reached /\ reached \subseteq Nat /\ 0 \notin reached
  BY <1>1
<1>3. PICK i \in reached : \A j \in reached : i <= j
  BY <1>2, Least
<1>4. i \in 1..n /\ i - 1 \in 0..n /\ i - 1 \notin reached
  BY <1>2, <1>3
<1>5. Rank(F, i) = IF i \in F THEN Rank(F, i - 1) + 1 ELSE Rank(F, i - 1)
  BY <1>4, RankStep
<1>6. Rank(F, i) >= k /\ Rank(F, i - 1) < k
  BY <1>1, <1>4
<1>7. i \in F /\ Rank(F, i) = k
  BY <1>1, <1>4, <1>5, <1>6
<1> QED
  BY <1>7 DEF Nth, Rank, Below

\* Dedup takes its entries from ever later positions, and skips a first
\* occurrence only behind all it took, when it has enough.
Picks(s, d, n, at) ==
  /\ at \in [1..Len(d) -> Firsts(s)]
  /\ \A k \in 1..Len(d) : d[k] = s[at[k]]
  /\ \A k, l \in 1..Len(d) : k < l => at[k] < at[l]
  /\ \A i \in Firsts(s) :
       \/ \E k \in 1..Len(d) : at[k] = i
       \/ Len(d) = n /\ \A k \in 1..Len(d) : at[k] < i

LEMMA DedupPicks ==
  ASSUME NEW E, NEW s \in Seq(E), NEW n \in Nat
  PROVE  LET d == Dedup(s, n) IN
         /\ d \in Seq(E) /\ Len(d) <= n
         /\ \E at : Picks(s, d, n, at)
<1> DEFINE F == Firsts(s)
           len == Shorter(n, Cardinality(F))
           d == Dedup(s, n)
           at == [k \in 1..len |-> Nth(F, k)]
<1>1. F \in SUBSET (1..Len(s)) /\ Len(s) \in Nat
  BY DEF Firsts
<1>2. Cardinality(F) \in Nat
  BY <1>1, RankType
<1>3. len \in Nat /\ len <= n /\ len <= Cardinality(F) /\ (len = n \/ len = Cardinality(F))
  BY <1>2 DEF Shorter
<1>4. \A k \in 1..len : Nth(F, k) \in F /\ Rank(F, Nth(F, k)) = k
  <2> SUFFICES ASSUME NEW k \in 1..len PROVE Nth(F, k) \in F /\ Rank(F, Nth(F, k)) = k
    OBVIOUS
  <2>1. k \in 1..Cardinality(F)
    BY <1>2, <1>3
  <2> HIDE DEF F
  <2> QED BY <2>1, <1>1, NthRank
<1>5. d = [k \in 1..len |-> s[Nth(F, k)]]
  BY DEF Dedup
<1> HIDE DEF F, d, len
<1>a. \A k \in 1..len : at[k] \in F /\ Rank(F, at[k]) = k
  BY <1>4
<1>b. \A i \in F : i \in 1..Len(s) /\ i \in Nat
  BY <1>1
<1>c. at \in [1..len -> F] /\ \A k \in 1..len : d[k] = s[at[k]]
  BY <1>4, <1>5
<1> HIDE DEF at
<1>6. \A k \in 1..len : s[at[k]] \in E
  BY <1>a, <1>b
<1>7. d \in Seq(E) /\ Len(d) = len
  <2>1. d = [k \in 1..len |-> s[at[k]]]
    BY <1>5 DEF at
  <2> QED BY <2>1, <1>3, <1>6
<1>8. ASSUME NEW k \in 1..len, NEW l \in 1..len, k < l PROVE at[k] < at[l]
  <2>1. at[k] \in F /\ at[l] \in F /\ Rank(F, at[k]) = k /\ Rank(F, at[l]) = l
    BY <1>a
  <2>2. at[k] \in Nat /\ at[l] \in Nat /\ at[k] # at[l]
    BY <1>8, <1>b, <2>1
  <2>3. CASE at[l] < at[k]
    <3>1. l < k
      BY <1>1, <2>1, <2>3, RankGrows
    <3> QED BY <3>1, <1>8, <1>3
  <2> QED BY <2>2, <2>3
<1>9. ASSUME NEW i \in F, ~ \E k \in 1..len : at[k] = i
      PROVE len = n /\ \A k \in 1..len : at[k] < i
  <2>1. i \in 1..Len(s) /\ i \in 0..Len(s) /\ i - 1 \in 0..Len(s)
    BY <1>b
  <2>2. Rank(F, i) \in 0..Cardinality(F) /\ Rank(F, i - 1) \in 0..Cardinality(F)
    BY <1>1, <2>1, RankType
  <2>3. Rank(F, i) = Rank(F, i - 1) + 1
    BY <1>1, <2>1, RankStep
  <2>4. ASSUME NEW k \in 1..len PROVE at[k] \in F /\ at[k] \in Nat /\ Rank(F, at[k]) = k /\ at[k] # i
    BY <1>a, <1>b, <1>9
  <2>5. ASSUME NEW k \in 1..len PROVE k # Rank(F, i)
    <3>1. CASE at[k] < i
      <4>1. Rank(F, at[k]) < Rank(F, i)
        BY <1>1, <2>4, <3>1, RankGrows
      <4> QED BY <4>1, <2>4, <2>2, <1>2
    <3>2. CASE i < at[k]
      <4>1. Rank(F, i) < Rank(F, at[k])
        BY <1>1, <2>4, <3>2, RankGrows
      <4> QED BY <4>1, <2>4, <2>2, <1>2
    <3> QED BY <2>1, <2>4, <3>1, <3>2
  <2>6. Rank(F, i) > len
    BY <2>2, <2>3, <2>5, <1>2, <1>3
  <2>7. len = n
    BY <2>2, <2>6, <1>2, <1>3
  <2>8. ASSUME NEW k \in 1..len PROVE at[k] < i
    <3>1. CASE i < at[k]
      <4>1. Rank(F, i) < Rank(F, at[k])
        BY <1>1, <2>4, <3>1, RankGrows
      <4> QED BY <4>1, <2>4, <2>6, <2>2, <1>2, <1>3
    <3> QED BY <2>1, <2>4, <3>1
  <2> QED BY <2>7, <2>8
<1>10. Picks(s, d, n, at)
  BY <1>7, <1>8, <1>9, <1>c DEF Picks, F
<1> QED
  BY <1>3, <1>7, <1>10 DEF d

-----------------------------------------------------------------------------
(* What sorting and removing duplicates leave.  R is a set of pairs of      *)
(* entries, the first as good as the second in the sense at hand.           *)

\* R is transitive, and holds of entries the comparator does not misorder.
Respects(R, E) ==
  /\ \A x, y, z \in E : <<x, y>> \in R /\ <<y, z>> \in R => <<x, z>> \in R
  /\ \A x, y \in E : ~Outranks(y, x) => <<x, y>> \in R

Ordered(s, R) == \A i, j \in 1..Len(s) : i < j => <<s[i], s[j]>> \in R

Members(s) == {s[k] : k \in 1..Len(s)}

Distinct(s) == \A i, j \in 1..Len(s) : s[i].adgroup = s[j].adgroup => i = j

\* An entry is beaten by an entry of its own advertisement, or by entries of
\* n different advertisements.
Beaten(e, S, n, R) ==
  \/ \E b \in S : b.adgroup = e.adgroup /\ <<b, e>> \in R
  \/ \E h \in [1..n -> S] : /\ \A i, j \in 1..n : h[i].adgroup = h[j].adgroup => i = j
                            /\ \A i \in 1..n : <<h[i], e>> \in R

\* No entry outranks itself.
LEMMA RespectsItself ==
  ASSUME NEW E, NEW R, Respects(R, E), NEW x \in E,
         x.price \in Nat, x.adgroup \in Nat, Score(x) \in Nat
  PROVE  <<x, x>> \in R
<1>1. ~Outranks(x, x)
  BY ToleranceAssumption DEF Outranks, Near
<1> QED
  BY <1>1 DEF Respects

\* The neighbours of a sorted sequence are in order, so all of it is.
LEMMA SortsOrdered ==
  ASSUME NEW E, NEW R, Respects(R, E),
         NEW items, IsFiniteSet(items), NEW entryOf \in [items -> E],
         NEW sorted \in Sorts(entryOf)
  PROVE  /\ sorted \in Seq(E)
         /\ Ordered(sorted, R)
         /\ \A x \in items : \E i \in 1..Len(sorted) : sorted[i] = entryOf[x]
<1> DEFINE n == Cardinality(items)
<1>1. n \in Nat
  BY FS_CardinalityType
<1>2. PICK s : Arranged(entryOf, s, n) /\ sorted = [i \in DOMAIN s |-> entryOf[s[i]]]
  BY SortsArranged
<1> HIDE DEF n
<1>3. s \in Seq(items) /\ Len(s) = n /\ \A i \in 1..n : s[i] \in items
  BY <1>2 DEF Arranged
<1>4. /\ sorted \in Seq(E) /\ Len(sorted) = n
      /\ \A i \in 1..n : sorted[i] = entryOf[s[i]] /\ sorted[i] \in E
  <2>1. DOMAIN s = 1..n
    BY <1>3
  <2>2. sorted = [i \in 1..n |-> entryOf[s[i]]]
    BY <1>2, <2>1
  <2> QED BY <2>2, <1>1, <1>3
<1>5. \A x \in items : \E i \in 1..n : sorted[i] = entryOf[x]
  <2> SUFFICES ASSUME NEW x \in items PROVE \E i \in 1..n : sorted[i] = entryOf[x]
    OBVIOUS
  <2>1. \E i \in 1..Len(s) : s[i] = x
    BY <1>2, ArrangedAll DEF n
  <2> QED BY <2>1, <1>3, <1>4
<1>6. ASSUME NEW i \in 1..n, i + 1 \in 1..n PROVE <<sorted[i], sorted[i + 1]>> \in R
  <2>1. i \in 1..(n - 1)
    BY <1>1, <1>6
  <2>2. ~Outranks(sorted[i + 1], sorted[i])
    BY <2>1, <1>2, <1>4, <1>6 DEF Arranged
  <2> QED BY <2>2, <1>4, <1>6 DEF Respects
<1> DEFINE Far == {d \in Nat : \A i \in 1..n : i + d + 1 \in 1..n
                                   => <<sorted[i], sorted[i + d + 1]>> \in R}
<1>7. 0 \in Far
  <2>1. \A i \in 1..n : i + 0 + 1 = i + 1
    BY <1>1
  <2> QED BY <2>1, <1>6
<1>8. ASSUME NEW d \in Nat, d \in Far PROVE d + 1 \in Far
  <2> SUFFICES ASSUME NEW i \in 1..n, i + (d + 1) + 1 \in 1..n
               PROVE <<sorted[i], sorted[i + (d + 1) + 1]>> \in R
    OBVIOUS
  <2> DEFINE m == i + d + 1
  <2>1. m \in 1..n /\ m + 1 = i + (d + 1) + 1
    BY <1>1
  <2>2. <<sorted[i], sorted[m]>> \in R
    BY <2>1, <1>8
  <2> HIDE DEF m
  <2>3. <<sorted[m], sorted[m + 1]>> \in R
    BY <2>1, <1>6
  <2>4. sorted[i] \in E /\ sorted[m] \in E /\ sorted[m + 1] \in E
    BY <2>1, <1>4
  <2> QED BY <2>1, <2>2, <2>3, <2>4 DEF Respects
<1>9. Nat \subseteq Far
  <2> HIDE DEF Far
  <2> QED BY <1>7, <1>8, Induction
<1>10. Ordered(sorted, R)
  <2> SUFFICES ASSUME NEW i \in 1..n, NEW j \in 1..n, i < j
               PROVE <<sorted[i], sorted[j]>> \in R
    BY <1>4 DEF Ordered
  <2>1. (j - i - 1) \in Nat /\ i + (j - i - 1) + 1 = j
    BY <1>1
  <2>2. (j - i - 1) \in Far
    BY <2>1, <1>9
  <2> QED BY <2>1, <2>2
<1> QED
  BY <1>4, <1>5, <1>10

\* The first occurrence of an entry's advertisement.
LEMMA FirstOccurrence ==
  ASSUME NEW E, NEW s \in Seq(E), NEW i \in 1..Len(s)
  PROVE  \E f \in Firsts(s) : f <= i /\ s[f].adgroup = s[i].adgroup
<1> DEFINE same == {j \in 1..Len(s) : s[j].adgroup = s[i].adgroup}
<1>1. i \in same /\ same \subseteq Nat
  OBVIOUS
<1>2. PICK f \in same : \A j \in same : f <= j
  BY <1>1, Least
<1>3. ASSUME NEW j \in 1..(f - 1) PROVE s[j].adgroup # s[f].adgroup
  <2>1. j \in 1..Len(s) /\ ~(f <= j)
    OBVIOUS
  <2> QED BY <2>1, <1>2
<1> QED
  BY <1>1, <1>2, <1>3 DEF Firsts

\* Dedup keeps, of an ordered sequence, entries that beat all of it.
LEMMA DedupBeats ==
  ASSUME NEW E, NEW R, NEW s \in Seq(E), Ordered(s, R), NEW n \in Nat,
         \A x \in E : <<x, x>> \in R
  PROVE  LET d == Dedup(s, n) IN
         /\ d \in Seq(E) /\ Len(d) <= n
         /\ Distinct(d) /\ Ordered(d, R)
         /\ \A i \in 1..Len(s) : Beaten(s[i], Members(d), n, R)
<1> DEFINE d == Dedup(s, n)
<1>1. d \in Seq(E) /\ Len(d) <= n /\ \E at : Picks(s, d, n, at)
  BY DedupPicks
<1> HIDE DEF d
<1>2. PICK at : Picks(s, d, n, at)
  BY <1>1
<1>3. /\ \A k \in 1..Len(d) : at[k] \in Firsts(s) /\ d[k] = s[at[k]]
      /\ \A k, l \in 1..Len(d) : k < l => at[k] < at[l]
      /\ \A i \in Firsts(s) :
           \/ \E k \in 1..Len(d) : at[k] = i
           \/ Len(d) = n /\ \A k \in 1..Len(d) : at[k] < i
  BY <1>2 DEF Picks
<1>4. \A f \in Firsts(s) : f \in 1..Len(s) /\ \A j \in 1..(f - 1) : s[j].adgroup # s[f].adgroup
  BY DEF Firsts
<1>5. ASSUME NEW k \in 1..Len(d), NEW l \in 1..Len(d), k < l
      PROVE d[k].adgroup # d[l].adgroup /\ <<d[k], d[l]>> \in R
  <2>1. at[k] \in 1..Len(s) /\ at[l] \in 1..Len(s) /\ at[k] < at[l] /\ at[k] \in 1..(at[l] - 1)
    BY <1>3, <1>4, <1>5
  <2>2. s[at[k]].adgroup # s[at[l]].adgroup
    BY <2>1, <1>3, <1>4
  <2>3. <<s[at[k]], s[at[l]]>> \in R
    BY <2>1 DEF Ordered
  <2> QED BY <2>2, <2>3, <1>3
<1>6. Distinct(d) /\ Ordered(d, R)
  <2>1. \A k, l \in 1..Len(d) : k # l => k < l \/ l < k
    OBVIOUS
  <2>2. \A k, l \in 1..Len(d) : k # l => d[k].adgroup # d[l].adgroup
    BY <2>1, <1>5
  <2> QED BY <2>2, <1>5 DEF Distinct, Ordered
<1>7. ASSUME NEW i \in 1..Len(s) PROVE Beaten(s[i], Members(d), n, R)
  <2>1. PICK f \in Firsts(s) : f <= i /\ s[f].adgroup = s[i].adgroup
    BY FirstOccurrence
  <2>2. f \in 1..Len(s) /\ s[i] \in E
    BY <1>4
  <2>3. ASSUME NEW j \in 1..Len(s), j <= f PROVE <<s[j], s[i]>> \in R
    <3>1. CASE j = i
      BY <3>1, <2>2
    <3>2. CASE j # i
      <4>1. j < i
        <5>1. j \in Nat /\ f \in Nat /\ i \in Nat
          BY <2>2
        <5> QED BY <5>1, <2>1, <2>3, <3>2
      <4> QED BY <4>1 DEF Ordered
    <3> QED BY <3>1, <3>2
  <2>4. CASE \E k \in 1..Len(d) : at[k] = f
    <3>1. PICK k \in 1..Len(d) : at[k] = f
      BY <2>4
    <3>2. d[k] = s[f] /\ <<s[f], s[i]>> \in R
      BY <3>1, <1>3, <2>2, <2>3
    <3> QED BY <3>2, <2>1 DEF Beaten, Members
  <2>5. CASE Len(d) = n /\ \A k \in 1..Len(d) : at[k] < f
    <3>1. \A k \in 1..n : <<d[k], s[i]>> \in R
      <4> SUFFICES ASSUME NEW k \in 1..n PROVE <<d[k], s[i]>> \in R
        OBVIOUS
      <4>1. at[k] \in 1..Len(s) /\ at[k] < f /\ d[k] = s[at[k]]
        BY <2>5, <1>3, <1>4
      <4>2. at[k] <= f
        BY <4>1, <2>2
      <4> QED BY <4>1, <4>2, <2>3
    <3>2. d \in [1..n -> Members(d)]
      BY <2>5, <1>1 DEF Members
    <3>3. \A k, l \in 1..n : d[k].adgroup = d[l].adgroup => k = l
      BY <2>5, <1>6 DEF Distinct
    <3> QED BY <3>1, <3>2, <3>3 DEF Beaten
  <2> QED BY <2>4, <2>5, <1>3
<1> QED
  BY <1>1, <1>6, <1>7 DEF d

\* What beats, beats in turn what is beaten.
LEMMA BeatenTrans ==
  ASSUME NEW T, NEW R, Respects(R, T), NEW S \in SUBSET T, NEW D \in SUBSET T, NEW n \in Nat,
         \A b \in S : Beaten(b, D, n, R),
         NEW e \in T, Beaten(e, S, n, R)
  PROVE  Beaten(e, D, n, R)
<1>1. \A x \in D, y \in S : <<x, y>> \in R /\ <<y, e>> \in R => <<x, e>> \in R
  BY DEF Respects
<1>2. ASSUME NEW b \in S, <<b, e>> \in R,
             NEW h \in [1..n -> D],
             \A i, j \in 1..n : h[i].adgroup = h[j].adgroup => i = j,
             \A i \in 1..n : <<h[i], b>> \in R
      PROVE  Beaten(e, D, n, R)
  <2>1. \A i \in 1..n : <<h[i], e>> \in R
    BY <1>1, <1>2
  <2> QED BY <2>1, <1>2 DEF Beaten
<1>3. CASE \E b \in S : b.adgroup = e.adgroup /\ <<b, e>> \in R
  <2>1. PICK b \in S : b.adgroup = e.adgroup /\ <<b, e>> \in R
    BY <1>3
  <2>2. CASE \E c \in D : c.adgroup = b.adgroup /\ <<c, b>> \in R
    <3>1. PICK c \in D : c.adgroup = b.adgroup /\ <<c, b>> \in R
      BY <2>2
    <3>2. c.adgroup = e.adgroup /\ <<c, e>> \in R
      BY <2>1, <3>1, <1>1
    <3> QED BY <3>2 DEF Beaten
  <2>3. CASE ~ \E c \in D : c.adgroup = b.adgroup /\ <<c, b>> \in R
    BY <2>1, <2>3, <1>2 DEF Beaten
  <2> QED BY <2>2, <2>3
<1>4. CASE \E h \in [1..n -> S] : /\ \A i, j \in 1..n : h[i].adgroup = h[j].adgroup => i = j
                                  /\ \A i \in 1..n : <<h[i], e>> \in R
  <2>1. PICK h \in [1..n -> S] : /\ \A i, j \in 1..n : h[i].adgroup = h[j].adgroup => i = j
                                 /\ \A i \in 1..n : <<h[i], e>> \in R
    BY <1>4
  <2>2. CASE \A i \in 1..n : \E c \in D : c.adgroup = h[i].adgroup /\ <<c, h[i]>> \in R
    <3> DEFINE g == [i \in 1..n |-> CHOOSE c \in D : c.adgroup = h[i].adgroup /\ <<c, h[i]>> \in R]
    <3>1. \A i \in 1..n : g[i] \in D /\ g[i].adgroup = h[i].adgroup /\ <<g[i], h[i]>> \in R
      BY <2>2
    <3>2. g \in [1..n -> D]
      BY <3>1
    <3> HIDE DEF g
    <3>3. \A i \in 1..n : h[i] \in S
      OBVIOUS
    <3>4. \A i, j \in 1..n : g[i].adgroup = g[j].adgroup => i = j
      BY <3>1, <2>1
    <3>5. \A i \in 1..n : <<g[i], e>> \in R
      BY <3>1, <3>3, <2>1, <1>1
    <3> QED BY <3>2, <3>4, <3>5 DEF Beaten
  <2>3. CASE ~ \A i \in 1..n : \E c \in D : c.adgroup = h[i].adgroup /\ <<c, h[i]>> \in R
    <3>1. PICK i \in 1..n : ~ \E c \in D : c.adgroup = h[i].adgroup /\ <<c, h[i]>> \in R
      BY <2>3
    <3>2. h[i] \in S /\ <<h[i], e>> \in R /\ Beaten(h[i], D, n, R)
      BY <2>1
    <3> QED BY <3>1, <3>2, <1>2 DEF Beaten
  <2> QED BY <2>2, <2>3
<1> QED
  BY <1>3, <1>4 DEF Beaten

\* The numbers up to m are m.
LEMMA Counting ==
  ASSUME NEW m \in Nat
  PROVE  IsFiniteSet(1..m) /\ Cardinality(1..m) = m
BY FS_Interval

\* At most n entries of different advertisements beat e: one of its own
\* advertisement does, or all of exactly n do.
LEMMA BeatenByAll ==
  ASSUME NEW R, NEW n \in Nat, NEW d, Len(d) \in Nat, Len(d) <= n, Distinct(d),
         NEW e, Beaten(e, Members(d), n, R)
  PROVE  \/ \E k \in 1..Len(d) : d[k].adgroup = e.adgroup /\ <<d[k], e>> \in R
         \/ Len(d) = n /\ \A k \in 1..Len(d) : <<d[k], e>> \in R
<1> DEFINE D == Members(d)
<1>1. CASE \E b \in D : b.adgroup = e.adgroup /\ <<b, e>> \in R
  BY <1>1 DEF Members
<1>2. CASE \E h \in [1..n -> D] : /\ \A i, j \in 1..n : h[i].adgroup = h[j].adgroup => i = j
                                  /\ \A i \in 1..n : <<h[i], e>> \in R
  <2>1. PICK h \in [1..n -> D] : /\ \A i, j \in 1..n : h[i].adgroup = h[j].adgroup => i = j
                                 /\ \A i \in 1..n : <<h[i], e>> \in R
    BY <1>2
  <2> DEFINE f == [i \in 1..n |-> CHOOSE k \in 1..Len(d) : d[k] = h[i]]
  <2>2. \A i \in 1..n : f[i] \in 1..Len(d) /\ d[f[i]] = h[i]
    <3>1. \A i \in 1..n : \E k \in 1..Len(d) : d[k] = h[i]
      BY DEF Members
    <3> QED BY <3>1
  <2>3. f \in [1..n -> 1..Len(d)]
    BY <2>2
  <2> HIDE DEF f
  <2>4. \A i, j \in 1..n : f[i] = f[j] => i = j
    BY <2>1, <2>2
  <2>5. f \in Injection(1..n, 1..Len(d))
    BY <2>3, <2>4 DEF Injection, IsInjective
  <2>6. IsFiniteSet(1..Len(d)) /\ Cardinality(1..Len(d)) = Len(d) /\ Cardinality(1..n) = n
    BY Counting
  <2>7. n <= Len(d) /\ (n = Len(d) => f \in Surjection(1..n, 1..Len(d)))
    BY <2>5, <2>6, FS_Injection
  <2>8. Len(d) = n
    BY <2>7
  <2>9. \A k \in 1..Len(d) : \E i \in 1..n : f[i] = k
    <3>1. f \in Surjection(1..n, 1..Len(d))
      BY <2>7, <2>8
    <3> QED BY <3>1 DEF Surjection
  <2>10. ASSUME NEW k \in 1..Len(d) PROVE <<d[k], e>> \in R
    <3>1. PICK i \in 1..n : f[i] = k
      BY <2>9
    <3> QED BY <3>1, <2>1, <2>2
  <2> QED BY <2>8, <2>10
<1> QED
  BY <1>1, <1>2 DEF Beaten

LEMMA BeatenMore ==
  ASSUME NEW S, NEW D, S \subseteq D, NEW n \in Nat, NEW R, NEW e, Beaten(e, S, n, R)
  PROVE  Beaten(e, D, n, R)
<1>1. \A h \in [1..n -> S] : h \in [1..n -> D]
  OBVIOUS
<1> QED
  BY <1>1 DEF Beaten

-----------------------------------------------------------------------------
(* The nodes and the merge. *)

Entries(rs) == {Entry(r) : r \in rs}

\* R respects the comparator and, of the rows of one keyword, the scores.
Fits(R, rs) ==
  /\ Respects(R, Entries(rs))
  /\ \A x, y \in rs :
       x.keyword = y.keyword /\ x # y /\ Score(x) >= Score(y) => <<Entry(x), Entry(y)>> \in R

At(n) == {r \in Wanted : NodeOf(r.keyword) = n}

\* A set the size of 1..n has the values of an injection.
LEMMA Enumerated ==
  ASSUME NEW S, IsFiniteSet(S)
  PROVE  \E f \in [1..Cardinality(S) -> S] : \A i, j \in 1..Cardinality(S) : f[i] = f[j] => i = j
<1>1. ExistsBijection(1..Cardinality(S), S)
  BY FS_CardinalityType
<1> QED
  BY <1>1 DEF ExistsBijection, Bijection, Injection, IsInjective

\* A row that a heap drops is beaten by the rows it keeps.
LEMMA HeapBeats ==
  ASSUME NEW R, NEW rs, Fits(R, rs), rs \subseteq Row, IsFiniteSet(rs),
         \A x, y \in rs : x.keyword = y.keyword /\ x.adgroup = y.adgroup => x = y,
         \A x, y \in rs : x.keyword = y.keyword,
         NEW n \in Nat, NEW kept \in TopN(rs, n), NEW r \in rs
  PROVE  Beaten(Entry(r), Entries(kept), n, R)
<1>1. /\ kept \in SUBSET rs
      /\ Cardinality(kept) = Shorter(n, Cardinality(rs))
      /\ \A x \in kept, y \in rs \ kept : Score(x) >= Score(y)
  BY DEF TopN
<1>2. IsFiniteSet(kept) /\ Cardinality(kept) \in Nat /\ Cardinality(rs) \in Nat
  BY <1>1, FS_Subset, FS_CardinalityType
<1>3. CASE r \in kept
  <2>1. Entry(r) \in Entries(rs) /\ Entry(r) \in Entries(kept)
    BY <1>3 DEF Entries
  <2>2. /\ Entry(r).price \in Nat /\ Entry(r).adgroup \in Nat /\ Score(Entry(r)) \in Nat
    BY DEF Entry, Score, Row
  <2>3. <<Entry(r), Entry(r)>> \in R
    BY <2>1, <2>2, RespectsItself DEF Fits
  <2> QED BY <2>1, <2>3 DEF Beaten
<1>4. CASE r \notin kept
  <2>1. Cardinality(kept) = n
    <3>1. Cardinality(kept) # Cardinality(rs)
      BY <1>1, <1>4, FS_Subset
    <3> QED BY <3>1, <1>1, <1>2 DEF Shorter
  <2>2. PICK f \in [1..n -> kept] : \A i, j \in 1..n : f[i] = f[j] => i = j
    BY <2>1, <1>2, Enumerated
  <2> DEFINE h == [i \in 1..n |-> Entry(f[i])]
  <2>3. \A i \in 1..n : f[i] \in kept /\ f[i] \in rs
    BY <1>1
  <2>4. h \in [1..n -> Entries(kept)]
    BY <2>3 DEF Entries
  <2>5. \A i \in 1..n : h[i].adgroup = f[i].adgroup
    BY DEF Entry
  <2>6. \A i, j \in 1..n : h[i].adgroup = h[j].adgroup => i = j
    BY <2>2, <2>3, <2>5
  <2>7. \A i \in 1..n : <<h[i], Entry(r)>> \in R
    <3> SUFFICES ASSUME NEW i \in 1..n PROVE <<Entry(f[i]), Entry(r)>> \in R
      OBVIOUS
    <3>1. f[i] # r /\ Score(f[i]) >= Score(r) /\ f[i].keyword = r.keyword
      BY <2>3, <1>1, <1>4
    <3> QED BY <3>1, <2>3 DEF Fits
  <2> HIDE DEF h
  <2> QED BY <2>4, <2>6, <2>7 DEF Beaten
<1> QED
  BY <1>3, <1>4

LEMMA FitsPart ==
  ASSUME NEW R, NEW rs, Fits(R, rs), NEW part \in SUBSET rs
  PROVE  Fits(R, part)
<1>1. \A e \in Entries(part) : e \in Entries(rs)
  BY DEF Entries
<1> QED
  BY <1>1 DEF Fits, Respects

\* What is known of the rows and the request.
Given == rows \in Tables /\ query \in Queries

LEMMA GivenFacts ==
  ASSUME Given
  PROVE  /\ IsFiniteSet(rows) /\ rows \subseteq Row
         /\ \A x, y \in rows : x.keyword = y.keyword /\ x.adgroup = y.adgroup => x = y
         /\ query.topn \in Nat /\ query.topn + 1 \in Nat
<1>1. query \in Queries /\ rows \in Tables
  BY DEF Given
<1>2. query \in [keywords : SUBSET Nat, topn : 0..(IntMax - 1)]
  BY <1>1, QueriesAssumption
<1>3. IntMax \in Nat
  BY DEF IntMax
<1>4. query.topn \in Nat
  BY <1>2, <1>3
<1> QED BY <1>1, <1>4, TablesAssumption

\* Every row is fit to be compared with itself.
LEMMA FitsItself ==
  ASSUME NEW R, NEW rs, Fits(R, rs), rs \subseteq Row, NEW e \in Entries(rs)
  PROVE  <<e, e>> \in R
<1>1. PICK r \in rs : e = Entry(r)
  BY DEF Entries
<1>2. e.price \in Nat /\ e.adgroup \in Nat /\ Score(e) \in Nat
  BY <1>1 DEF Entry, Score, Row
<1> QED
  BY <1>2, RespectsItself DEF Fits

\* The entries of a node's reply beat all rows the node has for the request.
LEMMA LocalBeats ==
  ASSUME Given, NEW n, NEW R, Fits(R, At(n)), NEW resp \in LocalReplies(n)
  PROVE  /\ resp \in Seq(Entries(At(n)))
         /\ Len(resp) <= query.topn + 1
         /\ \A r \in At(n) :
              Beaten(Entry(r), Members(resp), query.topn + 1, R)
<1> DEFINE keywords == {k \in query.keywords : NodeOf(k) = n /\ Matches(k) # {}}
           h == query.topn + 1
           E == Entries(At(n))
<1>1. PICK kept \in [keywords -> SUBSET rows] :
        /\ \A k \in keywords : kept[k] \in TopN(Matches(k), h)
        /\ \E sorted \in Sorts([row \in UNION {kept[k] : k \in keywords} |-> Entry(row)]) :
             resp = Dedup(sorted, h)
  BY DEF LocalReplies, HeapSize
<1> DEFINE found == UNION {kept[k] : k \in keywords}
           entryOf == [row \in found |-> Entry(row)]
<1>2. PICK sorted \in Sorts(entryOf) : resp = Dedup(sorted, h)
  BY <1>1
<1>3. h \in Nat /\ IsFiniteSet(rows) /\ rows \subseteq Row
      /\ \A x, y \in rows : x.keyword = y.keyword /\ x.adgroup = y.adgroup => x = y
  BY GivenFacts
<1>4. \A k \in keywords : kept[k] \in SUBSET Matches(k)
  BY <1>1 DEF TopN
<1>5. found \in SUBSET At(n) /\ At(n) \in SUBSET rows
  BY <1>4 DEF At, Matches, Wanted
<1>6. IsFiniteSet(found)
  <2>1. found \in SUBSET rows
    BY <1>5
  <2> HIDE DEF found
  <2> QED BY <2>1, <1>3, FS_Subset
<1> HIDE DEF h, found, E
<1>7. entryOf \in [found -> E]
  BY <1>5 DEF Entries, E
<1>8. \A e \in E : <<e, e>> \in R
  BY <1>3, <1>5, FitsItself DEF E
<1>9. Respects(R, E)
  BY DEF Fits, E
<1>10. \A x \in found : entryOf[x] = Entry(x)
  OBVIOUS
<1> HIDE DEF entryOf
<1>11. /\ sorted \in Seq(E) /\ Ordered(sorted, R)
       /\ \A x \in found : \E i \in 1..Len(sorted) : sorted[i] = entryOf[x]
  BY <1>6, <1>7, <1>9, SortsOrdered
<1> DEFINE D == Members(resp)
<1>12. /\ resp \in Seq(E) /\ Len(resp) <= h
       /\ \A i \in 1..Len(sorted) : Beaten(sorted[i], D, h, R)
  BY <1>2, <1>3, <1>8, <1>11, DedupBeats
<1>13. D \in SUBSET E
  BY <1>12 DEF Members
<1> HIDE DEF D
<1>14. ASSUME NEW r \in At(n) PROVE Beaten(Entry(r), D, h, R)
  <2> DEFINE k == r.keyword
             rs == Matches(k)
  <2>1. r \in rs /\ k \in keywords /\ r \in rows
    BY DEF At, Matches, Wanted
  <2>2. rs \in SUBSET At(n)
    BY <2>1 DEF Matches, At, Wanted
  <2>3. Fits(R, rs)
    BY <2>2, FitsPart
  <2>4. kept[k] \in TopN(rs, h)
    BY <2>1, <1>1 DEF h
  <2>5. \A x \in rs : x \in rows /\ x.keyword = k
    BY DEF Matches
  <2> HIDE DEF k, rs
  <2>6. rs \in SUBSET rows
    BY <2>5
  <2>7. IsFiniteSet(rs) /\ rs \subseteq Row
    BY <1>3, <2>6, FS_Subset
  <2>8. \A x, y \in rs : x.keyword = y.keyword
    BY <2>5
  <2>9. \A x, y \in rs : x.keyword = y.keyword /\ x.adgroup = y.adgroup => x = y
    BY <2>6, <1>3
  <2>10. Beaten(Entry(r), Entries(kept[k]), h, R)
    BY <2>1, <2>3, <2>4, <2>7, <2>8, <2>9, <1>3, HeapBeats
  <2>11. \A b \in Entries(kept[k]) : b \in E /\ Beaten(b, D, h, R)
    <3> SUFFICES ASSUME NEW x \in kept[k] PROVE Entry(x) \in E /\ Beaten(Entry(x), D, h, R)
      BY DEF Entries
    <3>1. x \in found
      BY <2>1 DEF found
    <3>2. PICK i \in 1..Len(sorted) : sorted[i] = Entry(x)
      BY <3>1, <1>10, <1>11
    <3>3. Entry(x) \in E
      BY <3>2, <1>11
    <3> QED BY <3>2, <3>3, <1>12
  <2>12. Entries(kept[k]) \in SUBSET E /\ Entry(r) \in E
    BY <2>11 DEF E, Entries
  <2> QED BY <2>10, <2>11, <2>12, <1>3, <1>9, <1>13, BeatenTrans
<1> QED
  BY <1>12, <1>14 DEF h, D, E

-----------------------------------------------------------------------------
(* The inductive invariant. *)

\* Every node that answered gave one of the replies it may give, the others
\* none, and what is billed is the merge of just these.
SearchInv ==
  /\ Given
  /\ answered \subseteq Nodes /\ failed \subseteq answered
  /\ DOMAIN reply = Nodes
  /\ \A n \in Nodes : IF n \in answered \ failed THEN reply[n] \in LocalReplies(n)
                                                 ELSE reply[n] = <<>>
  /\ done \in BOOLEAN
  /\ IF done THEN /\ answered = Nodes
                  /\ result \in MergedReplies
                  /\ response = Billed(result, query.topn)
             ELSE result = <<>> /\ response = <<>>

\* Holds of every reachable state.
THEOREM SearchInvariant == Spec => []SearchInv
<1>1. Init => SearchInv
  BY DEF Init, SearchInv, Given
<1>2. SearchInv /\ [Next]_vars => SearchInv'
  <2> SUFFICES ASSUME SearchInv, [Next]_vars PROVE SearchInv'
    OBVIOUS
  <2>1. ASSUME NEW n \in Nodes, SearchLocal(n) PROVE SearchInv'
    <3>1. \A m : LocalReplies(m)' = LocalReplies(m)
      BY <2>1 DEF SearchLocal, LocalReplies, Matches, HeapSize
    <3>2. /\ ~done /\ done' = done /\ UNCHANGED <<rows, query, failed, result, response>>
          /\ answered' = answered \cup {n} /\ n \notin answered
      BY <2>1 DEF SearchLocal, SearchInv
    <3>3. PICK resp \in LocalReplies(n) : reply' = [reply EXCEPT ![n] = resp]
      BY <2>1 DEF SearchLocal
    <3>4. \A m \in Nodes : IF m \in (answered \ failed)' THEN reply'[m] \in LocalReplies(m)'
                                                         ELSE reply'[m] = <<>>
      BY <3>1, <3>2, <3>3 DEF SearchInv
    <3>5. Given'
      BY <3>2 DEF SearchInv, Given
    <3>6. answered' \subseteq Nodes /\ failed' \subseteq answered' /\ DOMAIN reply' = Nodes
      BY <3>2, <3>3 DEF SearchInv
    <3> QED BY <3>2, <3>4, <3>5, <3>6 DEF SearchInv
  <2>2. ASSUME NEW n \in Nodes, FailLocal(n) PROVE SearchInv'
    <3>1. \A m : LocalReplies(m)' = LocalReplies(m)
      BY <2>2 DEF FailLocal, LocalReplies, Matches, HeapSize
    <3>2. /\ ~done /\ done' = done /\ UNCHANGED <<rows, query, reply, result, response>>
          /\ answered' = answered \cup {n} /\ failed' = failed \cup {n} /\ n \notin answered
      BY <2>2 DEF FailLocal, SearchInv
    <3>3. \A m \in Nodes : IF m \in (answered \ failed)' THEN reply'[m] \in LocalReplies(m)'
                                                         ELSE reply'[m] = <<>>
      BY <3>1, <3>2 DEF SearchInv
    <3>4. Given'
      BY <3>2 DEF SearchInv, Given
    <3>5. answered' \subseteq Nodes /\ failed' \subseteq answered' /\ DOMAIN reply' = Nodes
      BY <3>2 DEF SearchInv
    <3> QED BY <3>2, <3>3, <3>4, <3>5 DEF SearchInv
  <2>3. CASE Merge
    <3>1. \A m : LocalReplies(m)' = LocalReplies(m)
      BY <2>3 DEF Merge, LocalReplies, Matches, HeapSize
    <3>2. MergedReplies' = MergedReplies
      BY <2>3 DEF Merge, MergedReplies
    <3>3. /\ done' = TRUE /\ answered' = Nodes /\ UNCHANGED <<rows, query, reply, answered, failed>>
          /\ result' \in MergedReplies /\ response' = Billed(result', query'.topn)
      BY <2>3 DEF Merge
    <3>4. Given'
      BY <3>3 DEF SearchInv, Given
    <3> QED BY <3>1, <3>2, <3>3, <3>4 DEF SearchInv
  <2>4. CASE UNCHANGED vars
    <3>1. \A m : LocalReplies(m)' = LocalReplies(m)
      BY <2>4 DEF vars, LocalReplies, Matches, HeapSize
    <3>2. MergedReplies' = MergedReplies
      BY <2>4 DEF vars, MergedReplies
    <3>3. UNCHANGED <<rows, query, reply, answered, failed, result, response, done>>
      BY <2>4 DEF vars
    <3>4. Given'
      BY <3>3 DEF SearchInv, Given
    <3> QED BY <3>1, <3>2, <3>3, <3>4 DEF SearchInv
  <2> QED BY <2>1, <2>2, <2>3, <2>4 DEF Next
<1> QED
  BY <1>1, <1>2, PTL DEF Spec

\* The rows reached are those of the nodes that did not fail.
LEMMA ReachedParts ==
  ASSUME Given
  PROVE  /\ IsFiniteSet(Reached) /\ Reached \subseteq Row /\ Reached \in SUBSET rows
         /\ \A n \in Nodes \ failed : At(n) \in SUBSET Reached
         /\ \A r \in Reached : \E n \in Nodes \ failed : r \in At(n)
<1>1. Reached \in SUBSET rows
  BY DEF Reached, Wanted
<1>2. IsFiniteSet(Reached) /\ Reached \subseteq Row
  BY <1>1, GivenFacts, FS_Subset
<1>3. \A n \in Nodes \ failed : At(n) \in SUBSET Reached
  BY DEF At, Reached
<1>4. ASSUME NEW r \in Reached PROVE \E n \in Nodes \ failed : r \in At(n)
  <2>1. r.keyword \in Nat
    BY <1>2 DEF Row
  <2>2. NodeOf(r.keyword) \in Nodes
    BY <2>1, NumNodesAssumption DEF NodeOf, Nodes
  <2> QED BY <2>2 DEF At, Reached
<1> QED
  BY <1>1, <1>2, <1>3, <1>4

\* What is billed are entries of different advertisements, in order, and of
\* each row reached: one of its advertisement no worse, or only entries no
\* worse and as many as are asked for, and one more.
LEMMA MergeBeats ==
  ASSUME SearchInv, done, NEW R, Fits(R, Reached)
  PROVE  /\ result \in Seq(Entries(Reached))
         /\ Len(result) \in Nat /\ Len(result) <= query.topn + 1
         /\ Distinct(result) /\ Ordered(result, R)
         /\ \A e \in Entries(Reached) :
              \/ \E k \in 1..Len(result) : result[k].adgroup = e.adgroup /\ <<result[k], e>> \in R
              \/ /\ Len(result) = query.topn + 1
                 /\ \A k \in 1..Len(result) : <<result[k], e>> \in R
<1> DEFINE h == query.topn + 1
           E == Entries(Reached)
           items == UNION {{<<n, i>> : i \in DOMAIN reply[n]} : n \in Nodes}
           entryOf == [x \in items |-> reply[x[1]][x[2]]]
<1>1. Given /\ h \in Nat
  BY GivenFacts DEF SearchInv
<1>2. /\ \A n \in Nodes : IF n \notin failed THEN reply[n] \in LocalReplies(n)
                                             ELSE reply[n] = <<>>
      /\ result \in MergedReplies
  BY DEF SearchInv
<1>3. PICK sorted \in Sorts(entryOf) : result = Dedup(sorted, h)
  BY <1>2 DEF MergedReplies
<1>4. ASSUME NEW n \in Nodes \ failed
      PROVE /\ reply[n] \in Seq(E) /\ Len(reply[n]) <= h
            /\ \A r \in At(n) : Beaten(Entry(r), Members(reply[n]), h, R)
  <2>1. At(n) \in SUBSET Reached /\ Fits(R, At(n))
    BY <1>1, ReachedParts, FitsPart
  <2>2. /\ reply[n] \in Seq(Entries(At(n))) /\ Len(reply[n]) <= h
        /\ \A r \in At(n) : Beaten(Entry(r), Members(reply[n]), h, R)
    BY <1>1, <1>2, <2>1, LocalBeats
  <2>3. Entries(At(n)) \subseteq E
    BY <2>1 DEF Entries
  <2>4. reply[n] \in Seq(E)
    BY <2>2, <2>3
  <2> QED BY <2>2, <2>4
<1> HIDE DEF h, E
<1>5. \A n \in Nodes : reply[n] \in Seq(E) /\ Len(reply[n]) <= h
  <2>1. ASSUME NEW n \in Nodes, n \in failed PROVE reply[n] \in Seq(E) /\ Len(reply[n]) <= h
    <3>1. reply[n] = <<>>
      BY <2>1, <1>2
    <3>2. <<>> \in Seq(E) /\ Len(<<>>) = 0
      OBVIOUS
    <3> QED BY <3>1, <3>2, <1>1
  <2> QED BY <1>4, <2>1
<1>6. \A n \in Nodes : DOMAIN reply[n] = 1..Len(reply[n])
  BY <1>5
<1>7. \A x \in items : x[1] \in Nodes /\ x[2] \in 1..Len(reply[x[1]]) /\ x = <<x[1], x[2]>>
  BY <1>6
<1>8. entryOf \in [items -> E]
  <2>1. \A x \in items : reply[x[1]][x[2]] \in E
    BY <1>5, <1>7
  <2> HIDE DEF items
  <2> QED BY <2>1
<1>9. IsFiniteSet(items)
  <2>1. items \in SUBSET (Nodes \X (1..h))
    <3>1. \A n \in Nodes : 1..Len(reply[n]) \in SUBSET (1..h)
      BY <1>1, <1>5
    <3> QED BY <1>7, <3>1
  <2>2. IsFiniteSet(Nodes) /\ IsFiniteSet(1..h)
    BY <1>1, NumNodesAssumption, FS_Interval DEF Nodes
  <2>3. IsFiniteSet(Nodes \X (1..h))
    BY <2>2, FS_Product
  <2> HIDE DEF items
  <2> QED BY <2>1, <2>3, FS_Subset
<1>10. \A n \in Nodes : \A i \in 1..Len(reply[n]) : <<n, i>> \in items /\ entryOf[<<n, i>>] = reply[n][i]
  BY <1>6
<1> HIDE DEF items, entryOf
<1>11. Respects(R, E) /\ \A e \in E : <<e, e>> \in R
  BY <1>1, ReachedParts, FitsItself DEF Fits, E
<1>12. /\ sorted \in Seq(E) /\ Ordered(sorted, R)
       /\ \A x \in items : \E i \in 1..Len(sorted) : sorted[i] = entryOf[x]
  BY <1>8, <1>9, <1>11, SortsOrdered
<1>13. /\ result \in Seq(E) /\ Len(result) <= h
       /\ Distinct(result) /\ Ordered(result, R)
       /\ \A i \in 1..Len(sorted) : Beaten(sorted[i], Members(result), h, R)
  BY <1>1, <1>3, <1>11, <1>12, DedupBeats
<1>14. ASSUME NEW e \in E PROVE Beaten(e, Members(result), h, R)
  <2>1. PICK r \in Reached : e = Entry(r)
    BY DEF E, Entries
  <2>2. PICK n \in Nodes \ failed : r \in At(n)
    BY <1>1, ReachedParts
  <2>3. Beaten(e, Members(reply[n]), h, R)
    BY <2>1, <2>2, <1>4
  <2>4. \A b \in Members(reply[n]) : b \in E /\ Beaten(b, Members(result), h, R)
    <3> SUFFICES ASSUME NEW j \in 1..Len(reply[n])
                 PROVE reply[n][j] \in E /\ Beaten(reply[n][j], Members(result), h, R)
      BY DEF Members
    <3>1. <<n, j>> \in items /\ entryOf[<<n, j>>] = reply[n][j]
      BY <1>10
    <3>2. PICK i \in 1..Len(sorted) : sorted[i] = reply[n][j]
      BY <3>1, <1>12
    <3>3. reply[n][j] \in E
      BY <1>5
    <3> QED BY <3>2, <3>3, <1>13
  <2>5. Members(reply[n]) \in SUBSET E /\ Members(result) \in SUBSET E
    <3>1. \A s \in Seq(E) : Members(s) \in SUBSET E
      BY DEF Members
    <3> QED BY <3>1, <1>5, <1>13
  <2> QED BY <2>3, <2>4, <2>5, <1>1, <1>11, BeatenTrans
<1>15. Len(result) \in Nat
  BY <1>13
<1>16. \A e \in E :
         \/ \E k \in 1..Len(result) : result[k].adgroup = e.adgroup /\ <<result[k], e>> \in R
         \/ Len(result) = h /\ \A k \in 1..Len(result) : <<result[k], e>> \in R
  BY <1>1, <1>13, <1>14, <1>15, BeatenByAll
<1> QED
  BY <1>13, <1>15, <1>16 DEF h, E

-----------------------------------------------------------------------------
(* How many are billed. *)

LEMMA EntryFacts ==
  ASSUME Given, NEW e \in Entries(Reached)
  PROVE  /\ e.adgroup \in Nat /\ e.price \in Nat /\ e.ctr \in Nat \ {0}
         /\ Score(e) \in Nat
         /\ e.adgroup \in Adgroups(Reached)
<1>1. PICK r \in Reached : e = Entry(r)
  BY DEF Entries
<1>2. r \in Row
  BY ReachedParts
<1> QED
  BY <1>1, <1>2 DEF Entry, Row, Score, Adgroups

\* Any two entries are as good as each other, to count them.
LEMMA AnyFits ==
  Fits(Entries(Reached) \X Entries(Reached), Reached)
<1>1. \A r \in Reached : Entry(r) \in Entries(Reached)
  BY DEF Entries
<1> QED
  BY <1>1 DEF Fits, Respects

LEMMA AdgroupsFinite ==
  ASSUME Given
  PROVE  IsFiniteSet(Adgroups(Reached)) /\ Cardinality(Adgroups(Reached)) \in Nat
<1> DEFINE f == [r \in Reached |-> r.adgroup]
<1>1. f \in Surjection(Reached, Adgroups(Reached))
  BY DEF Surjection, Adgroups
<1>2. IsFiniteSet(Reached)
  BY ReachedParts
<1> QED
  BY <1>1, <1>2, FS_Surjection, FS_CardinalityType

\* topn advertisements and one more are found, or all there are.
LEMMA FoundLength ==
  ASSUME SearchInv, done
  PROVE  Len(result) = Shorter(query.topn + 1, Cardinality(Adgroups(Reached)))
<1> DEFINE h == query.topn + 1
           A == Adgroups(Reached)
           f == [k \in 1..Len(result) |-> result[k].adgroup]
<1>1. Given /\ h \in Nat
  BY GivenFacts DEF SearchInv
<1>2. IsFiniteSet(A) /\ Cardinality(A) \in Nat
  BY <1>1, AdgroupsFinite
<1>3. /\ result \in Seq(Entries(Reached))
      /\ Len(result) \in Nat /\ Len(result) <= h
      /\ Distinct(result)
      /\ \A e \in Entries(Reached) :
           \/ \E k \in 1..Len(result) : result[k].adgroup = e.adgroup
           \/ Len(result) = h
  BY AnyFits, MergeBeats
<1>4. \A k \in 1..Len(result) : result[k].adgroup \in A
  <2>1. \A k \in 1..Len(result) : result[k] \in Entries(Reached)
    BY <1>3
  <2> QED BY <2>1, <1>1, EntryFacts
<1> HIDE DEF A
<1>5. f \in [1..Len(result) -> A]
  BY <1>4
<1>6. f \in Injection(1..Len(result), A)
  BY <1>3, <1>5 DEF Injection, IsInjective, Distinct
<1>7. Cardinality(1..Len(result)) = Len(result)
  BY <1>3, Counting
<1>8. Len(result) <= Cardinality(A)
  BY <1>2, <1>6, <1>7, FS_Injection
<1>9. CASE Len(result) # h
  <2>1. ASSUME NEW a \in A PROVE \E k \in 1..Len(result) : f[k] = a
    <3>1. PICK r \in Reached : a = r.adgroup
      BY DEF A, Adgroups
    <3>2. Entry(r) \in Entries(Reached) /\ Entry(r).adgroup = a
      BY <3>1 DEF Entries, Entry
    <3> QED BY <3>2, <1>3, <1>9
  <2>2. f \in Surjection(1..Len(result), A)
    BY <2>1, <1>5 DEF Surjection
  <2>3. Len(result) = Cardinality(A)
    BY <2>2, <1>2, <1>6, <1>7, FS_Injection
  <2> QED BY <2>3, <1>1, <1>3, <1>9 DEF Shorter, A
<1>10. CASE Len(result) = h
  BY <1>10, <1>1, <1>2, <1>8 DEF Shorter, A
<1> QED
  BY <1>9, <1>10

LEMMA BilledLength ==
  ASSUME SearchInv, done
  PROVE  /\ Len(response) = Shorter(query.topn, Len(result))
         /\ DOMAIN response = 1..Shorter(query.topn, Len(result))
         /\ Shorter(query.topn, Len(result)) \in Nat
         /\ \A i \in DOMAIN response :
              /\ i \in 1..Len(result) /\ i <= query.topn
              /\ response[i] = [adgroup |-> result[i].adgroup,
                                charge |-> Prices(result, query.topn)[i]]
<1>1. query.topn \in Nat /\ Len(result) \in Nat
  BY GivenFacts, AnyFits, MergeBeats DEF SearchInv
<1> DEFINE m == Shorter(query.topn, Len(result))
<1>2. m \in Nat /\ m <= query.topn /\ m <= Len(result)
  BY <1>1 DEF Shorter
<1>3. response = [i \in 1..m |-> [adgroup |-> result[i].adgroup,
                                  charge |-> Prices(result, query.topn)[i]]]
  BY DEF SearchInv, Billed
<1> HIDE DEF m
<1>4. Len(response) = m /\ DOMAIN response = 1..m
  BY <1>2, <1>3
<1>5. \A i \in 1..m : i \in 1..Len(result) /\ i <= query.topn
  BY <1>1, <1>2
<1> QED
  BY <1>2, <1>3, <1>4, <1>5 DEF m

LEMMA TypesHold ==
  ASSUME SearchInv
  PROVE  TypeOK
<1>1. Given /\ query.topn \in Nat /\ rows \subseteq Row /\ query \in Queries
  BY GivenFacts DEF SearchInv, Given
<1>2. \A n \in Nodes : Len(reply[n]) <= query.topn + 1
  <2> SUFFICES ASSUME NEW n \in Nodes PROVE Len(reply[n]) <= query.topn + 1
    OBVIOUS
  <2>1. CASE n \in answered \ failed
    <3>1. At(n) \in SUBSET Reached
      BY <1>1, <2>1, ReachedParts
    <3>2. Fits(Entries(Reached) \X Entries(Reached), At(n))
      BY <3>1, AnyFits, FitsPart
    <3>3. reply[n] \in LocalReplies(n)
      BY <2>1 DEF SearchInv
    <3> QED BY <1>1, <3>2, <3>3, LocalBeats
  <2>2. CASE n \notin answered \ failed
    <3>1. reply[n] = <<>>
      BY <2>2 DEF SearchInv
    <3>2. Len(<<>>) = 0
      OBVIOUS
    <3> QED BY <1>1, <3>1, <3>2
  <2> QED BY <2>1, <2>2
<1>3. Len(result) <= query.topn + 1 /\ Len(response) <= query.topn
  <2>1. CASE done
    <3>1. Len(result) \in Nat /\ Len(result) <= query.topn + 1
      BY <2>1, AnyFits, MergeBeats
    <3>2. Len(response) = Shorter(query.topn, Len(result))
      BY <2>1, BilledLength
    <3> QED BY <3>1, <3>2, <1>1 DEF Shorter
  <2>2. CASE ~done
    <3>1. result = <<>> /\ response = <<>>
      BY <2>2 DEF SearchInv
    <3>2. Len(<<>>) = 0
      OBVIOUS
    <3> QED BY <1>1, <3>1, <3>2
  <2> QED BY <2>1, <2>2
<1> QED
  BY <1>1, <1>2, <1>3 DEF TypeOK, SearchInv

\* In every reachable state the nodes and the merge give no more entries than
\* the topn asked for and one more (server.cc:203-214, 314-327).
THEOREM SearchTypes == Spec => []TypeOK
<1>1. SearchInv => TypeOK
  BY TypesHold
<1> QED
  BY <1>1, SearchInvariant, PTL

-----------------------------------------------------------------------------
(* Scores within the tolerance. *)

WithinTolerance ==
  {pair \in Entries(Reached) \X Entries(Reached) :
     Score(pair[2]) <= Score(pair[1]) + Tolerance}

LEMMA WithinToleranceFits ==
  ASSUME Given, Comparable
  PROVE  Fits(WithinTolerance, Reached)
<1> DEFINE E == Entries(Reached)
<1>1. \A x, y \in E : <<x, y>> \in WithinTolerance <=> Score(y) <= Score(x) + Tolerance
  BY DEF WithinTolerance
<1>2. \A e \in E : Score(e) \in Nat
  BY EntryFacts
<1>3. \A x, y, z \in E : Near(x, y) /\ Near(y, z) => Near(x, z)
  BY DEF Comparable, Graded, Entries
<1> HIDE DEF E
<1>4. ASSUME NEW x \in E, NEW y \in E, NEW z \in E,
             Score(y) <= Score(x) + Tolerance, Score(z) <= Score(y) + Tolerance
      PROVE  Score(z) <= Score(x) + Tolerance
  <2>1. Score(x) \in Nat /\ Score(y) \in Nat /\ Score(z) \in Nat /\ Tolerance \in Nat
    BY <1>2, ToleranceAssumption
  <2>2. Near(x, y) /\ Near(y, z) => Near(x, z)
    BY <1>3
  <2> QED BY <1>4, <2>1, <2>2 DEF Near
<1>5. ASSUME NEW x \in E, NEW y \in E, ~Outranks(y, x)
      PROVE  Score(y) <= Score(x) + Tolerance
  <2>1. Score(x) \in Nat /\ Score(y) \in Nat /\ Tolerance \in Nat
    BY <1>2, ToleranceAssumption
  <2> QED BY <1>5, <2>1 DEF Outranks, Near
<1>6. ASSUME NEW x \in Reached, NEW y \in Reached, Score(x) >= Score(y)
      PROVE  <<Entry(x), Entry(y)>> \in WithinTolerance
  <2>1. Entry(x) \in E /\ Entry(y) \in E
    BY DEF E, Entries
  <2>2. Score(Entry(x)) = Score(x) /\ Score(Entry(y)) = Score(y)
    BY DEF Entry, Score
  <2>3. Score(Entry(x)) \in Nat /\ Score(Entry(y)) \in Nat /\ Tolerance \in Nat
    BY <2>1, <1>2, ToleranceAssumption
  <2> QED BY <1>1, <1>6, <2>1, <2>2, <2>3
<1>7. Respects(WithinTolerance, E)
  BY <1>1, <1>4, <1>5 DEF Respects
<1> QED
  BY <1>6, <1>7 DEF Fits, E

\* Fewer than i advertisements are more than the tolerance above the i-th.
LEMMA BetterFew ==
  ASSUME SearchInv, done, Comparable, NEW i \in 1..Len(result)
  PROVE  LET better == {r \in Reached : Score(r) > Score(result[i]) + Tolerance}
         IN  Cardinality(Adgroups(better)) < i
<1> DEFINE better == {r \in Reached : Score(r) > Score(result[i]) + Tolerance}
           A == Adgroups(better)
           E == Entries(Reached)
           f == [k \in 1..(i - 1) |-> result[k].adgroup]
<1>1. Given /\ Fits(WithinTolerance, Reached)
  BY WithinToleranceFits DEF SearchInv
<1>2. /\ result \in Seq(E) /\ Len(result) \in Nat
      /\ Ordered(result, WithinTolerance)
      /\ \A e \in E :
           \/ \E k \in 1..Len(result) : result[k].adgroup = e.adgroup /\ <<result[k], e>> \in WithinTolerance
           \/ \A k \in 1..Len(result) : <<result[k], e>> \in WithinTolerance
  BY <1>1, MergeBeats
<1>3. /\ \A k \in 1..Len(result) : result[k] \in E
      /\ \A e \in E : Score(e) \in Nat
  BY <1>1, <1>2, EntryFacts
<1>4. \A x, y \in E : <<x, y>> \in WithinTolerance <=> Score(y) <= Score(x) + Tolerance
  BY DEF WithinTolerance
<1>5. Respects(WithinTolerance, E)
  BY <1>1 DEF Fits
<1> HIDE DEF E
<1>6. ASSUME NEW a \in A PROVE \E k \in 1..(i - 1) : result[k].adgroup = a
  <2>1. PICK r \in better : a = r.adgroup
    BY DEF Adgroups
  <2> DEFINE e == Entry(r)
  <2>2. e \in E /\ e.adgroup = a /\ Score(e) = Score(r)
    BY <2>1 DEF E, Entries, Entry, Score
  <2> HIDE DEF e
  <2>3. <<result[i], e>> \notin WithinTolerance
    <3>1. Score(e) > Score(result[i]) + Tolerance
      BY <2>2
    <3>2. Score(e) \in Nat /\ Score(result[i]) \in Nat /\ Tolerance \in Nat
      BY <2>2, <1>3, ToleranceAssumption
    <3> QED BY <3>1, <3>2, <2>2, <1>3, <1>4
  <2>4. PICK k \in 1..Len(result) : result[k].adgroup = a /\ <<result[k], e>> \in WithinTolerance
    BY <2>2, <2>3, <1>2
  <2>5. ~ (i < k)
    <3> SUFFICES ASSUME i < k PROVE FALSE
      OBVIOUS
    <3>1. <<result[i], result[k]>> \in WithinTolerance
      <4>1. Ordered(result, WithinTolerance)
        BY <1>2
      <4> QED BY <4>1 DEF Ordered
    <3>2. result[i] \in E /\ result[k] \in E
      BY <1>3
    <3> QED BY <3>1, <3>2, <2>2, <2>3, <2>4, <1>5 DEF Respects
  <2>6. k # i
    BY <2>3, <2>4
  <2>7. k \in 1..(i - 1)
    BY <2>5, <2>6, <1>2
  <2> QED BY <2>4, <2>7
<1>7. PICK g \in [A -> 1..(i - 1)] : \A a \in A : result[g[a]].adgroup = a
  <2> DEFINE g == [a \in A |-> CHOOSE k \in 1..(i - 1) : result[k].adgroup = a]
  <2>1. \A a \in A : g[a] \in 1..(i - 1) /\ result[g[a]].adgroup = a
    <3> HIDE DEF A
    <3> QED BY <1>6
  <2> HIDE DEF A
  <2> QED BY <2>1
<1>8. g \in Injection(A, 1..(i - 1))
  <2> HIDE DEF A
  <2> QED BY <1>7 DEF Injection, IsInjective
<1>9. IsFiniteSet(1..(i - 1)) /\ Cardinality(1..(i - 1)) = i - 1
  BY Counting
<1>10. IsFiniteSet(A) /\ Cardinality(A) <= i - 1
  <2> HIDE DEF A
  <2> QED BY <1>8, <1>9, FS_Injection
<1>11. Cardinality(A) \in Nat
  <2> HIDE DEF A
  <2> QED BY <1>10, FS_CardinalityType
<1>12. Cardinality(A) < i
  <2> HIDE DEF A
  <2> QED BY <1>10, <1>11
<1> QED
  BY <1>12

LEMMA PlacesOptimalHolds ==
  ASSUME SearchInv
  PROVE  PlacesOptimal
<1> SUFFICES ASSUME done PROVE /\ Len(response) = Shorter(query.topn, Cardinality(Adgroups(Reached)))
                               /\ Comparable => \A i \in DOMAIN response :
                                    LET better == {r \in Reached : Score(r) > Score(result[i]) + Tolerance}
                                    IN  Cardinality(Adgroups(better)) < i
  BY DEF PlacesOptimal
<1>1. Given /\ query.topn \in Nat /\ Cardinality(Adgroups(Reached)) \in Nat
  BY GivenFacts, AdgroupsFinite DEF SearchInv
<1>2. Len(response) = Shorter(query.topn, Cardinality(Adgroups(Reached)))
  BY <1>1, FoundLength, BilledLength DEF Shorter
<1>3. ASSUME Comparable, NEW i \in DOMAIN response
      PROVE LET better == {r \in Reached : Score(r) > Score(result[i]) + Tolerance}
            IN  Cardinality(Adgroups(better)) < i
  <2>1. i \in 1..Len(result)
    BY BilledLength
  <2> QED BY <2>1, <1>3, BetterFew
<1> QED
  BY <1>2, <1>3

\* In every reachable state, for every table, request, tolerance and failure
\* of nodes: as many advertisements are returned as were asked for and match
\* at the nodes that answered, and, where scores that count as equal to one
\* count as equal to each other (Comparable), none takes a place from
\* advertisements more than the tolerance better (server.cc:166-338).
THEOREM BestPlaces == Spec => []PlacesOptimal
<1>1. SearchInv => PlacesOptimal
  BY PlacesOptimalHolds
<1> QED
  BY <1>1, SearchInvariant, PTL

-----------------------------------------------------------------------------
(* What is charged. *)

LEMMA DivMono ==
  ASSUME NEW x \in Nat, NEW y \in Nat, NEW d \in Nat \ {0}, x <= y
  PROVE  x \div d <= y \div d
OBVIOUS

LEMMA DivBound ==
  ASSUME NEW x \in Nat, NEW p \in Nat, NEW d \in Nat \ {0}, p * d <= x
  PROVE  p <= x \div d
OBVIOUS

LEMMA RoundMono ==
  ASSUME NEW x \in Nat, NEW y \in Nat, NEW b \in Nat \ {0}, x <= y
  PROVE  Round(x, b) <= Round(y, b)
<1>1. 2 * x + b \in Nat /\ 2 * y + b \in Nat /\ 2 * b \in Nat \ {0} /\ 2 * x + b <= 2 * y + b
  OBVIOUS
<1> QED
  BY <1>1, DivMono DEF Round

\* A price is at most what its own score rounds to.
LEMMA RoundOwn ==
  ASSUME NEW p \in Nat, NEW b \in Nat \ {0}, NEW t \in Nat
  PROVE  p <= Round(b * p + t, b)
<1>1. b * p \in Nat /\ p * (2 * b) = 2 * (b * p)
  OBVIOUS
<1> DEFINE q == b * p
<1>2. q \in Nat /\ p * (2 * b) = 2 * q
  BY <1>1
<1> HIDE DEF q
<1>3. 2 * (q + t) + b \in Nat /\ 2 * b \in Nat \ {0} /\ 2 * q <= 2 * (q + t) + b
  BY <1>2
<1>4. p <= (2 * (q + t) + b) \div (2 * b)
  BY <1>2, <1>3, DivBound
<1> QED
  BY <1>4 DEF Round, q

LEMMA DivExact ==
  ASSUME NEW p \in Nat, NEW d \in Nat \ {0}, NEW x \in Nat, p * d <= x, x < p * d + d
  PROVE  x \div d = p
OBVIOUS

\* A price's own score rounds to the price.
LEMMA RoundExact ==
  ASSUME NEW p \in Nat, NEW b \in Nat \ {0}
  PROVE  Round(b * p, b) = p
<1> DEFINE q == b * p
<1>1. q \in Nat /\ p * (2 * b) = 2 * q
  OBVIOUS
<1> HIDE DEF q
<1>2. 2 * q + b \in Nat /\ 2 * b \in Nat \ {0} /\ 2 * q <= 2 * q + b /\ 2 * q + b < 2 * q + 2 * b
  BY <1>1
<1>3. (2 * q + b) \div (2 * b) = p
  BY <1>1, <1>2, DivExact
<1> QED
  BY <1>3 DEF Round, q

LEMMA NeverOverchargedHolds ==
  ASSUME SearchInv
  PROVE  NeverOvercharged
<1> SUFFICES ASSUME Comparable, NEW i \in DOMAIN response
             PROVE  response[i].charge <= Round(Score(result[i]) + Tolerance, result[i].ctr)
  BY DEF NeverOvercharged
<1>1. done
  BY DEF SearchInv
<1>2. Given /\ query.topn \in Nat /\ Fits(WithinTolerance, Reached)
  BY GivenFacts, WithinToleranceFits DEF SearchInv
<1>3. /\ result \in Seq(Entries(Reached)) /\ Len(result) \in Nat
      /\ Ordered(result, WithinTolerance)
  BY <1>1, <1>2, MergeBeats
<1>4. /\ i \in 1..Len(result) /\ i <= query.topn
      /\ response[i].charge = Prices(result, query.topn)[i]
  BY <1>1, BilledLength
<1>5. DOMAIN result = 1..Len(result) /\ \A k \in 1..Len(result) : result[k] \in Entries(Reached)
  BY <1>3
<1>6. /\ result[i].price \in Nat /\ result[i].ctr \in Nat \ {0}
      /\ Score(result[i]) \in Nat /\ Tolerance \in Nat
  BY <1>2, <1>4, <1>5, EntryFacts, ToleranceAssumption
<1>7. CASE i < Len(result)
  <2>1. i + 1 \in 1..Len(result)
    BY <1>3, <1>4, <1>7
  <2>2. response[i].charge = Round(Score(result[i + 1]), result[i].ctr)
    BY <1>4, <1>5, <1>7 DEF Prices
  <2>3. <<result[i], result[i + 1]>> \in WithinTolerance
    <3>1. i < i + 1
      BY <1>4, <1>3
    <3> QED BY <3>1, <2>1, <1>3, <1>4 DEF Ordered
  <2>4. Score(result[i + 1]) <= Score(result[i]) + Tolerance
    BY <2>3 DEF WithinTolerance
  <2>5. Score(result[i + 1]) \in Nat
    BY <2>1, <1>2, <1>5, EntryFacts
  <2>6. Score(result[i]) + Tolerance \in Nat
    BY <1>6
  <2> QED BY <2>2, <2>4, <2>5, <2>6, <1>6, RoundMono
<1>8. CASE ~(i < Len(result))
  <2>1. i = Len(result) /\ Len(result) <= query.topn
    BY <1>3, <1>4, <1>8
  <2>2. response[i].charge = result[i].price
    BY <2>1, <1>4, <1>5, <1>8 DEF Prices
  <2>3. Score(result[i]) = result[i].ctr * result[i].price
    BY DEF Score
  <2> QED BY <2>2, <2>3, <1>6, RoundOwn
<1> QED
  BY <1>7, <1>8

\* In every reachable state, where scores are Comparable, nobody is charged
\* for a score more than the tolerance above their own (server.cc:220-245).
THEOREM ChargesBounded == Spec => []NeverOvercharged
<1>1. SearchInv => NeverOvercharged
  BY NeverOverchargedHolds
<1> QED
  BY <1>1, SearchInvariant, PTL

\* Nobody pays more than they bid.
NeverAboveBid == \A i \in DOMAIN response : response[i].charge <= result[i].price

\* While scores are compared exactly no price is above the bid, however the
\* quotients are rounded (server.cc:220-245).
THEOREM BidsBound ==
  ASSUME Tolerance = 0
  PROVE  Spec => []NeverAboveBid
<1>1. ASSUME SearchInv PROVE NeverAboveBid
  <2> SUFFICES ASSUME NEW i \in DOMAIN response PROVE response[i].charge <= result[i].price
    BY DEF NeverAboveBid
  <2>1. done /\ Given
    BY <1>1 DEF SearchInv
  <2>2. Comparable
    <3>1. \A r \in Reached : Score(Entry(r)) \in Nat
      BY <2>1, EntryFacts DEF Entries
    <3> QED BY <3>1 DEF Comparable, Graded, Near
  <2>3. i \in 1..Len(result)
    BY <1>1, <2>1, BilledLength
  <2>4. result[i] \in Entries(Reached)
    <3>1. result \in Seq(Entries(Reached))
      BY <1>1, <2>1, AnyFits, MergeBeats
    <3> QED BY <3>1, <2>3
  <2>5. result[i].price \in Nat /\ result[i].ctr \in Nat \ {0} /\ Score(result[i]) \in Nat
    BY <2>1, <2>4, EntryFacts
  <2>6. response[i].charge <= Round(Score(result[i]), result[i].ctr)
    <3>1. response[i].charge <= Round(Score(result[i]) + Tolerance, result[i].ctr)
      BY <1>1, <2>2, NeverOverchargedHolds DEF NeverOvercharged
    <3>2. Score(result[i]) + Tolerance = Score(result[i])
      BY <2>5
    <3> QED BY <3>1, <3>2
  <2>7. Round(Score(result[i]), result[i].ctr) = result[i].price
    BY <2>5, RoundExact DEF Score
  <2> QED BY <2>6, <2>7
<1> QED
  BY <1>1, SearchInvariant, PTL

-----------------------------------------------------------------------------
(* The ranking. *)

NotOutranked ==
  {pair \in Entries(Reached) \X Entries(Reached) : ~Outranks(pair[2], pair[1])}

\* Outranks is an order on the entries while they are comparable.
LEMMA OutranksOrder ==
  ASSUME Given, Comparable,
         NEW x \in Entries(Reached), NEW y \in Entries(Reached), NEW z \in Entries(Reached)
  PROVE  /\ ~Outranks(y, x) /\ ~Outranks(z, y) => ~Outranks(z, x)
         /\ Outranks(x, y) => ~Outranks(y, x)
         /\ Outranks(x, y) /\ Outranks(y, z) => Outranks(x, z)
         /\ ~Outranks(x, y) /\ ~Outranks(y, x)
              => Near(x, y) /\ x.price = y.price /\ x.adgroup = y.adgroup
<1>1. \A e \in Entries(Reached) : e.adgroup \in Nat /\ e.price \in Nat /\ Score(e) \in Nat
  BY EntryFacts
<1>2. /\ Near(x, y) /\ Near(y, z) => Near(x, z)
      /\ Near(y, x) /\ Near(x, z) => Near(y, z)
      /\ Near(x, z) /\ Near(z, y) => Near(x, y)
  BY DEF Comparable, Graded, Entries
<1>3. /\ x.adgroup \in Nat /\ x.price \in Nat /\ Score(x) \in Nat
      /\ y.adgroup \in Nat /\ y.price \in Nat /\ Score(y) \in Nat
      /\ z.adgroup \in Nat /\ z.price \in Nat /\ Score(z) \in Nat
      /\ Tolerance \in Nat
  BY <1>1, ToleranceAssumption
<1>4. ~Outranks(y, x) /\ ~Outranks(z, y) => ~Outranks(z, x)
  BY <1>2, <1>3 DEF Outranks, Near
<1>5. Outranks(x, y) => ~Outranks(y, x)
  BY <1>3 DEF Outranks, Near
<1>6. Outranks(x, y) /\ Outranks(y, z) => Outranks(x, z)
  BY <1>2, <1>3 DEF Outranks, Near
<1>7. ~Outranks(x, y) /\ ~Outranks(y, x)
        => Near(x, y) /\ x.price = y.price /\ x.adgroup = y.adgroup
  BY <1>3 DEF Outranks, Near
<1> QED
  BY <1>4, <1>5, <1>6, <1>7

LEMMA NotOutrankedFits ==
  ASSUME Given, Comparable, NoTies
  PROVE  Fits(NotOutranked, Reached)
<1> DEFINE E == Entries(Reached)
<1>1. \A x, y \in E : <<x, y>> \in NotOutranked <=> ~Outranks(y, x)
  BY DEF NotOutranked
<1>2. Respects(NotOutranked, E)
  <2> HIDE DEF E
  <2>1. \A x, y, z \in E : ~Outranks(y, x) /\ ~Outranks(z, y) => ~Outranks(z, x)
    BY OutranksOrder DEF E
  <2> QED BY <1>1, <2>1 DEF Respects
<1>3. ASSUME NEW x \in Reached, NEW y \in Reached,
             x.keyword = y.keyword, x # y, Score(x) >= Score(y)
      PROVE  <<Entry(x), Entry(y)>> \in NotOutranked
  <2>1. Entry(x) \in E /\ Entry(y) \in E
    BY DEF E, Entries
  <2>2. Score(Entry(x)) = Score(x) /\ Score(Entry(y)) = Score(y)
    BY DEF Entry, Score
  <2>3. Score(x) \in Nat /\ Score(y) \in Nat /\ Tolerance \in Nat
    BY <2>1, <2>2, EntryFacts, ToleranceAssumption
  <2>4. ~Near(x, y)
    BY <1>3 DEF NoTies
  <2>5. ~Outranks(Entry(y), Entry(x))
    <3>1. ~Near(Entry(y), Entry(x))
      BY <2>2, <2>4 DEF Near
    <3> QED BY <3>1, <2>2, <2>3, <1>3 DEF Outranks
  <2> QED BY <1>1, <2>1, <2>5
<1> QED
  BY <1>2, <1>3 DEF Fits, E

\* A finite set that is not empty has an entry no other outranks.
LEMMA Top ==
  ASSUME Given, Comparable, NEW S \in SUBSET Entries(Reached), IsFiniteSet(S), S # {}
  PROVE  \E e \in S : \A f \in S : ~Outranks(f, e)
<1> DEFINE Above(e) == {f \in S : Outranks(f, e)}
           sizes == {Cardinality(Above(e)) : e \in S}
<1>1. \A e \in S : IsFiniteSet(Above(e)) /\ Cardinality(Above(e)) \in Nat
  <2> SUFFICES ASSUME NEW e \in S
               PROVE IsFiniteSet(Above(e)) /\ Cardinality(Above(e)) \in Nat
    OBVIOUS
  <2>1. Above(e) \in SUBSET S
    OBVIOUS
  <2> HIDE DEF Above
  <2> QED BY <2>1, FS_Subset, FS_CardinalityType
<1>2. sizes \subseteq Nat /\ sizes # {}
  BY <1>1
<1>3. PICK m \in sizes : \A k \in sizes : m <= k
  BY <1>2, Least
<1>4. PICK e \in S : m = Cardinality(Above(e))
  OBVIOUS
<1>5. ASSUME NEW f \in S, Outranks(f, e) PROVE FALSE
  <2>1. Above(f) \in SUBSET Above(e) /\ f \in Above(e) /\ f \notin Above(f)
    BY <1>5, OutranksOrder
  <2>2. Cardinality(Above(e)) <= Cardinality(Above(f))
    BY <1>3, <1>4
  <2>3. IsFiniteSet(Above(e)) /\ Cardinality(Above(e)) \in Nat /\ Cardinality(Above(f)) \in Nat
    BY <1>1
  <2> HIDE DEF Above
  <2>4. Cardinality(Above(f)) <= Cardinality(Above(e)) /\ Cardinality(Above(f)) # Cardinality(Above(e))
    BY <2>1, <2>3, FS_Subset
  <2> QED BY <2>2, <2>3, <2>4
<1> QED
  BY <1>5

LEMMA EntriesFinite ==
  ASSUME Given
  PROVE  IsFiniteSet(Entries(Reached))
<1> DEFINE f == [r \in Reached |-> Entry(r)]
<1>1. f \in Surjection(Reached, Entries(Reached))
  BY DEF Surjection, Entries
<1>2. IsFiniteSet(Reached)
  BY ReachedParts
<1> QED
  BY <1>1, <1>2, FS_Surjection

\* Every advertisement reached has exactly one best entry.
LEMMA BestOfEach ==
  ASSUME Given, Comparable, NoTies
  PROVE  LET best == BestEntries(Entries(Reached)) IN
         /\ \A e, f \in best : e.adgroup = f.adgroup => e = f
         /\ IsFiniteSet(best)
         /\ Cardinality(best) = Cardinality(Adgroups(Reached))
<1> DEFINE E == Entries(Reached)
           best == BestEntries(E)
           f == [e \in best |-> e.adgroup]
<1>1. best \in SUBSET E
      /\ \A x \in best, y \in E : x.adgroup = y.adgroup => ~Outranks(y, x)
  BY DEF BestEntries
<1>2. ASSUME NEW x \in best, NEW y \in best, x.adgroup = y.adgroup PROVE x = y
  <2>1. x \in E /\ y \in E /\ ~Outranks(x, y) /\ ~Outranks(y, x)
    BY <1>1, <1>2
  <2>2. Near(x, y) /\ x.price = y.price
    BY <2>1, OutranksOrder
  <2>3. PICK r \in Reached, s \in Reached : x = Entry(r) /\ y = Entry(s)
    BY <2>1 DEF E, Entries
  <2>4. r.adgroup = s.adgroup /\ r.price = s.price /\ Near(r, s)
    BY <1>2, <2>2, <2>3 DEF Entry, Near, Score
  <2> QED BY <2>3, <2>4 DEF NoTies
<1>3. ASSUME NEW a \in Adgroups(Reached) PROVE \E e \in best : e.adgroup = a
  <2> DEFINE S == {e \in E : e.adgroup = a}
  <2>1. PICK r \in Reached : r.adgroup = a
    BY DEF Adgroups
  <2>2. Entry(r) \in S
    BY <2>1 DEF Entries, Entry
  <2>3. S \in SUBSET E /\ S # {}
    BY <2>2
  <2>4. IsFiniteSet(S)
    <3> HIDE DEF S, E
    <3> QED BY <2>3, EntriesFinite, FS_Subset DEF E
  <2>5. PICK e \in S : \A g \in S : ~Outranks(g, e)
    <3> HIDE DEF S
    <3> QED BY <2>3, <2>4, Top
  <2>6. e \in best /\ e.adgroup = a
    BY <2>5 DEF BestEntries
  <2> QED BY <2>6
<1>4. IsFiniteSet(best)
  BY <1>1, EntriesFinite, FS_Subset
<1>5. \A e \in best : e.adgroup \in Adgroups(Reached)
  BY <1>1, EntryFacts
<1> HIDE DEF best
<1>6. f \in [best -> Adgroups(Reached)]
  BY <1>5
<1>7. f \in Injection(best, Adgroups(Reached)) /\ f \in Surjection(best, Adgroups(Reached))
  BY <1>2, <1>3, <1>6 DEF Injection, Surjection, IsInjective
<1>8. Cardinality(best) = Cardinality(Adgroups(Reached))
  BY <1>4, <1>7, FS_Surjection
<1> QED
  BY <1>2, <1>4, <1>8 DEF best

Ahead(best, e) == {f \in best : Outranks(f, e)}

\* The entries billed are best entries, each with just those billed before it
\* ahead of it.
LEMMA BilledInPlace ==
  ASSUME SearchInv, done, Comparable, NoTies, NEW j \in 1..Len(result)
  PROVE  LET best == BestEntries(Entries(Reached)) IN
         /\ result[j] \in best
         /\ Cardinality(Ahead(best, result[j])) = j - 1
<1> DEFINE E == Entries(Reached)
           best == BestEntries(E)
<1>1. Given /\ Fits(NotOutranked, Reached)
  BY NotOutrankedFits DEF SearchInv
<1>2. /\ result \in Seq(E) /\ Len(result) \in Nat
      /\ Distinct(result) /\ Ordered(result, NotOutranked)
      /\ \A e \in E :
           \/ \E k \in 1..Len(result) : result[k].adgroup = e.adgroup /\ <<result[k], e>> \in NotOutranked
           \/ \A k \in 1..Len(result) : <<result[k], e>> \in NotOutranked
  BY <1>1, MergeBeats
<1>3. \A x, y : <<x, y>> \in NotOutranked => ~Outranks(y, x)
  BY DEF NotOutranked
<1>4. \A k \in 1..Len(result) : result[k] \in E
  BY <1>2
<1>5. best \in SUBSET E
  BY DEF BestEntries
<1> HIDE DEF E
<1>6. ASSUME NEW k \in 1..Len(result) PROVE result[k] \in best
  <2> SUFFICES ASSUME NEW f \in E, f.adgroup = result[k].adgroup, Outranks(f, result[k]) PROVE FALSE
    BY <1>4 DEF BestEntries
  <2>1. <<result[k], f>> \notin NotOutranked
    BY <1>3
  <2>2. PICK l \in 1..Len(result) : result[l].adgroup = f.adgroup /\ <<result[l], f>> \in NotOutranked
    BY <2>1, <1>2
  <2>3. l = k
    BY <2>2, <1>2 DEF Distinct
  <2> QED BY <2>1, <2>2, <2>3
<1>7. \A e, f \in best : e.adgroup = f.adgroup => e = f
  BY <1>1, BestOfEach DEF E
<1>8. \A x, y \in E : /\ Outranks(x, y) => ~Outranks(y, x)
                      /\ ~Outranks(x, y) /\ ~Outranks(y, x) => x.adgroup = y.adgroup
  BY <1>1, OutranksOrder DEF E
<1> HIDE DEF best
<1> DEFINE g == [k \in 1..(j - 1) |-> result[k]]
           A == Ahead(best, result[j])
<1>9. \A k \in 1..(j - 1) : k \in 1..Len(result) /\ k < j /\ k # j
  BY <1>2
<1>10. ASSUME NEW k \in 1..(j - 1) PROVE result[k] \in A
  <2>1. k \in 1..Len(result) /\ k < j /\ k # j
    BY <1>9
  <2>2. ~Outranks(result[j], result[k])
    BY <2>1, <1>2, <1>3 DEF Ordered
  <2>3. result[k].adgroup # result[j].adgroup
    BY <2>1, <1>2 DEF Distinct
  <2>4. Outranks(result[k], result[j])
    BY <2>1, <2>2, <2>3, <1>4, <1>8
  <2> QED BY <2>1, <2>4, <1>6 DEF Ahead
<1>11. ASSUME NEW f \in A PROVE \E k \in 1..(j - 1) : result[k] = f
  <2>1. f \in best /\ f \in E /\ Outranks(f, result[j])
    BY <1>5 DEF Ahead
  <2>2. PICK k \in 1..Len(result) : result[k].adgroup = f.adgroup
    BY <2>1, <1>2, <1>3
  <2>3. result[k] = f
    BY <2>1, <2>2, <1>6, <1>7
  <2>4. k # j
    BY <2>1, <2>3, <1>8
  <2>5. ~(j < k)
    BY <2>1, <2>3, <1>2, <1>3 DEF Ordered
  <2>6. k \in 1..(j - 1)
    BY <2>4, <2>5, <1>2
  <2> QED BY <2>3, <2>6
<1>12. g \in [1..(j - 1) -> A]
  BY <1>10
<1>13. g \in Injection(1..(j - 1), A)
  <2>1. \A k, l \in 1..(j - 1) : g[k] = g[l] => k = l
    BY <1>2, <1>9 DEF Distinct
  <2> HIDE DEF g, A
  <2> QED BY <2>1, <1>12 DEF Injection, IsInjective
<1>14. g \in Surjection(1..(j - 1), A)
  <2>1. \A f \in A : \E k \in 1..(j - 1) : g[k] = f
    BY <1>11
  <2> HIDE DEF g, A
  <2> QED BY <2>1, <1>12 DEF Surjection
<1>15. IsFiniteSet(1..(j - 1)) /\ Cardinality(1..(j - 1)) = j - 1
  BY Counting
<1>16. Cardinality(A) = j - 1
  <2> HIDE DEF g, A
  <2> QED BY <1>13, <1>14, <1>15, FS_Surjection
<1> QED
  BY <1>6, <1>16 DEF best, E

\* Different best entries have different numbers of entries ahead.
LEMMA PlacesDiffer ==
  ASSUME Given, Comparable, NoTies,
         NEW x \in BestEntries(Entries(Reached)), NEW y \in BestEntries(Entries(Reached)),
         Outranks(x, y)
  PROVE  Cardinality(Ahead(BestEntries(Entries(Reached)), x))
           # Cardinality(Ahead(BestEntries(Entries(Reached)), y))
<1> DEFINE best == BestEntries(Entries(Reached))
           ofX == Ahead(best, x)
           ofY == Ahead(best, y)
<1>1. best \in SUBSET Entries(Reached)
  BY DEF BestEntries
<1>2. IsFiniteSet(best)
  BY BestOfEach
<1> HIDE DEF best
<1>3. ofX \in SUBSET best /\ ofY \in SUBSET best
  BY DEF Ahead
<1>4. x \in best /\ y \in best
  BY DEF best
<1>5. ~Outranks(x, x) /\ \A f \in best : Outranks(f, x) => Outranks(f, y)
  BY <1>1, <1>4, OutranksOrder
<1>6. ofX \in SUBSET ofY /\ x \in ofY /\ x \notin ofX
  BY <1>4, <1>5 DEF Ahead
<1>7. IsFiniteSet(ofY)
  <2> HIDE DEF ofY
  <2> QED BY <1>2, <1>3, FS_Subset
<1>8. Cardinality(ofX) # Cardinality(ofY)
  <2> HIDE DEF ofX, ofY
  <2> QED BY <1>6, <1>7, FS_Subset
<1> QED
  BY <1>8 DEF best

\* So the ranking has them in the order in which they are billed.
LEMMA RankingIsResult ==
  ASSUME SearchInv, done, Comparable, NoTies
  PROVE  LET best == BestEntries(Entries(Reached)) IN
         /\ DOMAIN Ranking(Entries(Reached)) = 1..Cardinality(best)
         /\ \A i \in 1..Len(result) :
              i \in 1..Cardinality(best) /\ Ranking(Entries(Reached))[i] = result[i]
<1> DEFINE E == Entries(Reached)
           best == BestEntries(E)
           ranking == [i \in 1..Cardinality(best) |->
                         CHOOSE e \in best : 1 + Cardinality(Ahead(best, e)) = i]
<1>1. Ranking(E) = ranking
  BY DEF Ranking, Ahead
<1>2. Given /\ IsFiniteSet(best) /\ Cardinality(best) = Cardinality(Adgroups(Reached))
  BY BestOfEach DEF SearchInv
<1>3. Len(result) <= Cardinality(best) /\ Cardinality(best) \in Nat /\ Len(result) \in Nat
  <2>1. query.topn + 1 \in Nat /\ Cardinality(best) \in Nat
    BY <1>2, GivenFacts, FS_CardinalityType
  <2>2. Len(result) = Shorter(query.topn + 1, Cardinality(best))
    BY <1>2, FoundLength
  <2> QED BY <2>1, <2>2 DEF Shorter
<1>4. ASSUME NEW i \in 1..Len(result)
      PROVE i \in 1..Cardinality(best) /\ ranking[i] = result[i]
  <2>1. i \in 1..Cardinality(best)
    BY <1>3
  <2>2. result[i] \in best /\ 1 + Cardinality(Ahead(best, result[i])) = i
    BY BilledInPlace
  <2>3. ASSUME NEW e \in best, 1 + Cardinality(Ahead(best, e)) = i PROVE e = result[i]
    <3>1. Cardinality(Ahead(best, e)) = Cardinality(Ahead(best, result[i]))
      <4>1. IsFiniteSet(Ahead(best, e)) /\ IsFiniteSet(Ahead(best, result[i]))
        <5>1. Ahead(best, e) \in SUBSET best /\ Ahead(best, result[i]) \in SUBSET best
          BY DEF Ahead
        <5> HIDE DEF best
        <5> QED BY <5>1, <1>2, FS_Subset
      <4> HIDE DEF best
      <4>2. Cardinality(Ahead(best, e)) \in Nat /\ Cardinality(Ahead(best, result[i])) \in Nat
        BY <4>1, FS_CardinalityType
      <4> QED BY <4>2, <2>2, <2>3
    <3>2. ~Outranks(e, result[i]) /\ ~Outranks(result[i], e)
      BY <3>1, <2>2, <1>2, PlacesDiffer
    <3>3. e \in E /\ result[i] \in E
      BY <2>2 DEF BestEntries
    <3>4. e.adgroup = result[i].adgroup
      BY <3>2, <3>3, <1>2, OutranksOrder
    <3> QED BY <3>4, <2>2, <1>2, BestOfEach
  <2> HIDE DEF best
  <2>4. (CHOOSE e \in best : 1 + Cardinality(Ahead(best, e)) = i) = result[i]
    BY <2>2, <2>3
  <2> QED BY <2>1, <2>4
<1>5. DOMAIN ranking = 1..Cardinality(best)
  OBVIOUS
<1> QED
  BY <1>1, <1>4, <1>5

LEMMA AnswerAsSpecifiedHolds ==
  ASSUME SearchInv
  PROVE  AnswerAsSpecified
<1> SUFFICES ASSUME done, Comparable, NoTies
             PROVE  response = Answer(Entries(Reached), query.topn)
  BY DEF AnswerAsSpecified, Entries
<1> DEFINE E == Entries(Reached)
           ranking == Ranking(E)
           n == Cardinality(BestEntries(E))
           m == Shorter(query.topn, Len(result))
<1>1. Given /\ query.topn \in Nat
  BY GivenFacts DEF SearchInv
<1>2. /\ DOMAIN ranking = 1..n
      /\ \A i \in 1..Len(result) : i \in 1..n /\ ranking[i] = result[i]
  BY RankingIsResult
<1>3. n \in Nat /\ n = Cardinality(Adgroups(Reached))
  BY <1>1, BestOfEach, AdgroupsFinite
<1>4. Len(result) = Shorter(query.topn + 1, n)
  BY <1>3, FoundLength
<1>5. /\ Cardinality(DOMAIN ranking) = n
      /\ Answer(E, query.topn) =
           [i \in 1..Shorter(query.topn, n) |->
              [adgroup |-> ranking[i].adgroup, charge |-> Charge(ranking, i)]]
  <2>1. Cardinality(DOMAIN ranking) = n
    BY <1>2, <1>3, Counting
  <2> QED BY <2>1 DEF Answer
<1>6. result \in Seq(E) /\ DOMAIN result = 1..Len(result) /\ Len(result) \in Nat
  BY AnyFits, MergeBeats
<1> HIDE DEF ranking, n, E
<1>7. Shorter(query.topn, n) = m
  BY <1>1, <1>3, <1>4 DEF Shorter
<1>8. response = [i \in 1..m |-> [adgroup |-> result[i].adgroup,
                                  charge |-> Prices(result, query.topn)[i]]]
  BY DEF SearchInv, Billed
<1>9. \A i \in 1..m : i \in Nat /\ 1 <= i /\ i <= query.topn /\ i <= Len(result) /\ i \in 1..Len(result)
  BY <1>1, <1>6 DEF Shorter
<1> HIDE DEF m
<1>10. ASSUME NEW i \in 1..m
       PROVE ranking[i].adgroup = result[i].adgroup /\ Charge(ranking, i) = Prices(result, query.topn)[i]
  <2>1. i \in 1..Len(result) /\ i <= query.topn /\ ranking[i] = result[i]
    BY <1>2, <1>9
  <2>2. CASE i + 1 \in 1..n
    <3>1. i < Len(result) /\ i + 1 \in 1..Len(result)
      BY <2>1, <2>2, <1>1, <1>3, <1>4, <1>9 DEF Shorter
    <3>2. ranking[i + 1] = result[i + 1]
      BY <3>1, <1>2
    <3>3. Charge(ranking, i) = Round(Score(result[i + 1]), result[i].ctr)
      BY <2>1, <2>2, <3>2, <1>2 DEF Charge
    <3>4. Prices(result, query.topn)[i] = Round(Score(result[i + 1]), result[i].ctr)
      BY <2>1, <3>1, <1>6 DEF Prices
    <3> QED BY <2>1, <3>3, <3>4
  <2>3. CASE i + 1 \notin 1..n
    <3>1. ~(i < Len(result)) /\ Len(result) <= query.topn
      BY <2>1, <2>3, <1>1, <1>3, <1>4, <1>9 DEF Shorter
    <3>2. Charge(ranking, i) = result[i].price
      BY <2>1, <2>3, <1>2 DEF Charge
    <3>3. Prices(result, query.topn)[i] = result[i].price
      BY <2>1, <3>1, <1>6 DEF Prices
    <3> QED BY <2>1, <3>2, <3>3
  <2> QED BY <2>2, <2>3
<1>11. response = Answer(E, query.topn)
  BY <1>5, <1>7, <1>8, <1>10
<1> QED
  BY <1>11 DEF E

\* In every reachable state, for every table, request, tolerance and failure
\* of nodes, what the nodes, their heaps, the two rounds of sorting and
\* removing duplicates and the pass over the prices return is what one ranking
\* of all rows reached returns, ties and chains of near ties apart
\* (server.cc:166-338).
THEOREM SearchAnswers == Spec => []AnswerAsSpecified
<1>1. SearchInv => AnswerAsSpecified
  BY AnswerAsSpecifiedHolds
<1> QED
  BY <1>1, SearchInvariant, PTL
=============================================================================
