-------------------------- MODULE QueryPanelsProofs --------------------------
(***************************************************************************)
(* Proofs about QueryPanels, for any number of tabs, any queries and any   *)
(* length of the history.                                                  *)
(***************************************************************************)
EXTENDS QueryPanels, FiniteSetTheorems, SequenceTheorems, TLAPS

(* Pick: the places that are picked, counted from the first one.           *)

\* How many places of I there are up to i.
Rank(I, i) == Cardinality({j \in I : j <= i})

\* pos lists places in their order.
Increasing(pos, n) == \A k, l \in 1..n : k < l => pos[k] < pos[l]

\* pos lists every place of I.
AllOf(I, pos, n) == \A i \in I : \E k \in 1..n : pos[k] = i

\* pos lists the first places of I: all of them, or max.
FirstOf(I, pos, n, max) ==
  \A i \in I :
    \/ \E k \in 1..n : pos[k] = i
    \/ n = max /\ \A k \in 1..n : pos[k] < i

\* pos has the places of the elements that h has at I.
Places(h, I, pos) ==
  /\ Increasing(pos, Cardinality(I))
  /\ AllOf(I, pos, Cardinality(I))
  /\ \A k \in 1..Cardinality(I) : Pick(h, I)[k] = h[pos[k]]

\* Ranks are between 1 and the number of places, and grow with the place.
LEMMA RankGrows ==
  ASSUME NEW I \in SUBSET Nat, IsFiniteSet(I)
  PROVE  /\ \A i \in I : Rank(I, i) \in 1..Cardinality(I)
         /\ \A i, j \in I : i < j => Rank(I, i) < Rank(I, j)
<1> DEFINE Upto(i) == {j \in I : j <= i}
<1>1. ASSUME NEW i \in I
      PROVE  /\ IsFiniteSet(Upto(i)) /\ Cardinality(Upto(i)) \in Nat
             /\ Cardinality(Upto(i)) <= Cardinality(I)
             /\ Cardinality(Upto(i)) # 0
  <2>1. Upto(i) \in SUBSET I
    OBVIOUS
  <2>2. IsFiniteSet(Upto(i)) /\ Cardinality(Upto(i)) <= Cardinality(I)
    BY <2>1, FS_Subset
  <2>3. i \in Upto(i)
    OBVIOUS
  <2>4. Upto(i) # {}
    BY <2>3
  <2> HIDE DEF Upto
  <2> QED
    BY <2>2, <2>4, FS_EmptySet, FS_CardinalityType
<1>2. Cardinality(I) \in Nat
  BY FS_CardinalityType
<1>3. ASSUME NEW i \in I, NEW j \in I, i < j
      PROVE  Cardinality(Upto(i)) < Cardinality(Upto(j))
  <2>1. Upto(i) \in SUBSET Upto(j)
    <3>1. i \in Nat /\ j \in Nat
      OBVIOUS
    <3>2. ASSUME NEW x \in I, x <= i PROVE x <= j
      <4>1. x \in Nat
        OBVIOUS
      <4> QED
        BY <1>3, <3>1, <3>2, <4>1
    <3> QED
      BY <3>2
  <2>2. Upto(i) # Upto(j)
    <3>1. i \in Nat /\ j \in Nat
      OBVIOUS
    <3>2. j \in Upto(j) /\ j \notin Upto(i)
      BY <1>3, <3>1
    <3> HIDE DEF Upto
    <3> QED
      BY <3>2
  <2> HIDE DEF Upto
  <2>3. /\ Cardinality(Upto(i)) <= Cardinality(Upto(j))
        /\ Cardinality(Upto(j)) = Cardinality(Upto(i)) => Upto(j) = Upto(i)
    BY <1>1, <2>1, FS_Subset
  <2> QED
    BY <1>1, <2>2, <2>3
<1> QED
  BY <1>1, <1>2, <1>3 DEF Rank

\* Every rank up to the number of places is the rank of one of them.
LEMMA RankOnto ==
  ASSUME NEW I \in SUBSET Nat, IsFiniteSet(I), NEW k \in 1..Cardinality(I)
  PROVE  \E i \in I : Rank(I, i) = k
<1> DEFINE n == Cardinality(I)
           f == [i \in I |-> Rank(I, i)]
<1>1. n \in Nat
  BY FS_CardinalityType
<1>2. f \in [I -> 1..n]
  BY RankGrows
<1>3. ASSUME NEW i \in I, NEW j \in I, f[i] = f[j] PROVE i = j
  <2>1. ~(i < j) /\ ~(j < i)
    BY <1>1, <1>3, RankGrows
  <2> QED
    BY <2>1
<1>4. f \in Injection(I, 1..n)
  BY <1>2, <1>3 DEF Injection, IsInjective
<1>5. IsFiniteSet(1..n) /\ Cardinality(1..n) = n
  BY <1>1, FS_Interval
<1>6. f \in Surjection(I, 1..n)
  BY <1>4, <1>5, FS_Injection
<1> QED
  BY <1>6 DEF Surjection

\* The k-th of the first places, listed in their order, has rank k.
LEMMA RankOfNth ==
  ASSUME NEW I \in SUBSET Nat, NEW n \in Nat, NEW pos \in [1..n -> I],
         Increasing(pos, n),
         \A k \in 1..n, i \in I : i < pos[k] => \E m \in 1..n : pos[m] = i,
         NEW k \in 1..n
  PROVE  Rank(I, pos[k]) = k
<1> DEFINE T == {j \in I : j <= pos[k]}
           b == [m \in 1..k |-> pos[m]]
<1> \A m \in 1..n : pos[m] \in I /\ pos[m] \in Nat
  <2>1. \A m \in 1..n : pos[m] \in I
    OBVIOUS
  <2> QED
    BY <2>1
<1>1. ASSUME NEW m \in 1..n PROVE pos[m] <= pos[k] <=> m <= k
  <2>1. pos[m] \in Nat /\ pos[k] \in Nat /\ m \in Nat /\ k \in Nat
    OBVIOUS
  <2>2. m < k => pos[m] < pos[k]
    BY DEF Increasing
  <2>3. k < m => pos[k] < pos[m]
    BY DEF Increasing
  <2> QED
    BY <2>1, <2>2, <2>3
<1>2. b \in [1..k -> T]
  BY <1>1
<1>3. ASSUME NEW m \in 1..k, NEW l \in 1..k, b[m] = b[l] PROVE m = l
  <2>1. pos[m] = pos[l] /\ m \in 1..n /\ l \in 1..n
    BY <1>3
  <2>2. pos[m] \in Nat /\ m \in Nat /\ l \in Nat
    BY <2>1
  <2>3. ~(m < l) /\ ~(l < m)
    BY <2>1, <2>2 DEF Increasing
  <2> QED
    BY <2>2, <2>3
<1>4. ASSUME NEW j \in T PROVE \E m \in 1..k : b[m] = j
  <2>1. j \in I /\ j \in Nat /\ pos[k] \in Nat /\ j <= pos[k]
    BY <1>4
  <2>2. PICK m \in 1..n : pos[m] = j
    BY <2>1
  <2>3. m <= k
    BY <1>1, <2>1, <2>2
  <2>4. m \in 1..k
    BY <2>3
  <2> QED
    BY <2>2, <2>4
<1>5. b \in Bijection(1..k, T)
  BY <1>2, <1>3, <1>4 DEF Bijection, Injection, Surjection, IsInjective
<1>6. ExistsBijection(1..k, T)
  BY <1>5 DEF ExistsBijection
<1> QED
  BY <1>6, FS_CountingElements DEF Rank

\* What Pick picks: the elements at the places in I, each once, in order.
LEMMA PickPlaces ==
  ASSUME NEW S, NEW h \in Seq(S), NEW I \in SUBSET DOMAIN h
  PROVE  /\ IsFiniteSet(I) /\ Cardinality(I) \in Nat
         /\ Pick(h, I) \in Seq(S) /\ Len(Pick(h, I)) = Cardinality(I)
         /\ \E pos \in [1..Cardinality(I) -> I] : Places(h, I, pos)
<1> DEFINE n == Cardinality(I)
           pos == [k \in 1..n |-> CHOOSE i \in I : Rank(I, i) = k]
<1>1. DOMAIN h = 1..Len(h) /\ Len(h) \in Nat
  OBVIOUS
<1>2. IsFiniteSet(I)
  <2>1. IsFiniteSet(1..Len(h))
    BY <1>1, FS_Interval
  <2>2. I \in SUBSET (1..Len(h))
    BY <1>1
  <2> QED
    BY <2>1, <2>2, FS_Subset
<1>3. n \in Nat
  BY <1>2, FS_CardinalityType
<1>4. I \in SUBSET Nat
  BY <1>1
<1>5. ASSUME NEW k \in 1..n PROVE pos[k] \in I /\ Rank(I, pos[k]) = k
  BY <1>2, <1>4, RankOnto
<1>6. ASSUME NEW k \in 1..n, NEW l \in 1..n, k < l PROVE pos[k] < pos[l]
  <2> HIDE DEF n, pos
  <2>1. pos[k] \in Nat /\ pos[l] \in Nat
    BY <1>4, <1>5
  <2>2. pos[l] = pos[k] \/ pos[l] < pos[k] => Rank(I, pos[l]) <= Rank(I, pos[k])
    BY <1>2, <1>3, <1>4, <1>5, RankGrows
  <2> QED
    BY <1>3, <1>5, <1>6, <2>1, <2>2
<1>7. ASSUME NEW i \in I PROVE \E k \in 1..n : pos[k] = i
  <2>1. Rank(I, i) \in 1..n
    BY <1>2, <1>4, RankGrows
  <2>2. pos[Rank(I, i)] \in I /\ Rank(I, pos[Rank(I, i)]) = Rank(I, i)
    BY <1>5, <2>1
  <2>3. pos[Rank(I, i)] = i
    <3> DEFINE j == pos[Rank(I, i)]
    <3>1. j \in Nat /\ i \in Nat /\ Rank(I, i) \in Nat
      BY <1>4, <2>1, <2>2
    <3>2. ~(i < j) /\ ~(j < i)
      <4> HIDE DEF pos
      <4> QED
        BY <1>2, <1>4, <2>2, <3>1, RankGrows
    <3> QED
      BY <3>1, <3>2
  <2> QED
    BY <2>1, <2>3
<1>8. Pick(h, I) = [k \in 1..n |-> h[pos[k]]]
  BY DEF Pick, Rank
<1>9. \A k \in 1..n : h[pos[k]] \in S
  BY <1>1, <1>5
<1>10. pos \in [1..n -> I]
  BY <1>5
<1> HIDE DEF n, pos
<1>11. Pick(h, I) \in Seq(S) /\ Len(Pick(h, I)) = n
  BY <1>3, <1>8, <1>9
<1>12. Increasing(pos, n)
  BY <1>6 DEF Increasing
<1>13. \A i \in I : \E k \in 1..n : pos[k] = i
  BY <1>7
<1>14. \A k \in 1..n : Pick(h, I)[k] = h[pos[k]]
  BY <1>8
<1>15. Places(h, I, pos)
  BY <1>12, <1>13, <1>14 DEF Places, AllOf, n
<1> QED
  BY <1>2, <1>3, <1>10, <1>11, <1>15 DEF n

\* A list of the first places of I, in their order, picks the first elements
\* that Pick does: all of them, or as many as asked for.
LEMMA PickFirst ==
  ASSUME NEW S, NEW h \in Seq(S), NEW I \in SUBSET DOMAIN h,
         NEW max \in Nat, NEW n \in Nat, n <= max, NEW pos \in [1..n -> I],
         Increasing(pos, n), FirstOf(I, pos, n, max)
  PROVE  Truncate(Pick(h, I), max) = [k \in 1..n |-> h[pos[k]]]
<1> DEFINE c == Cardinality(I)
<1>1. DOMAIN h = 1..Len(h) /\ Len(h) \in Nat
  OBVIOUS
<1>2. I \in SUBSET Nat
  BY <1>1
<1>3. IsFiniteSet(I) /\ c \in Nat /\ Pick(h, I) \in Seq(S) /\ Len(Pick(h, I)) = c
  BY PickPlaces
<1>4. ASSUME NEW k \in 1..n PROVE Rank(I, pos[k]) = k
  <2> n \in Nat
    OBVIOUS
  <2>1. \A m \in 1..n, i \in I : i < pos[m] => \E l \in 1..n : pos[l] = i
    <3> SUFFICES ASSUME NEW m \in 1..n, NEW i \in I, i < pos[m]
                 PROVE  \E l \in 1..n : pos[l] = i
      OBVIOUS
    <3>1. i \in Nat /\ pos[m] \in Nat
      BY <1>2
    <3> QED
      BY <3>1 DEF FirstOf
  <2> QED
    BY <1>2, <2>1, RankOfNth
<1>5. n <= c
  <2>1. CASE n = 0
    BY <1>3, <2>1
  <2>2. CASE n # 0
    <3>1. n \in 1..n
      BY <2>2
    <3>2. Rank(I, pos[n]) \in 1..c
      BY <1>2, <1>3, <3>1, RankGrows
    <3> QED
      BY <1>3, <1>4, <3>1, <3>2
  <2> QED
    BY <2>1, <2>2
<1>6. c <= n \/ n = max
  <2> SUFFICES ASSUME n < c, n # max PROVE FALSE
    BY <1>3
  <2>1. n + 1 \in 1..c
    BY <1>3
  <2>2. PICK i \in I : Rank(I, i) = n + 1
    BY <1>2, <1>3, <2>1, RankOnto
  <2>3. PICK k \in 1..n : pos[k] = i
    BY DEF FirstOf
  <2> QED
    BY <1>4, <2>2, <2>3
<1>7. (IF c < max THEN c ELSE max) = n
  BY <1>3, <1>5, <1>6
<1>8. ASSUME NEW k \in 1..n PROVE Pick(h, I)[k] = h[pos[k]]
  <2>1. \A i \in I : Rank(I, i) = k => i = pos[k]
    <3> SUFFICES ASSUME NEW i \in I, Rank(I, i) = k, i # pos[k] PROVE FALSE
      OBVIOUS
    <3>1. i < pos[k] \/ pos[k] < i
      BY <1>2
    <3>2. Rank(I, i) < Rank(I, pos[k]) \/ Rank(I, pos[k]) < Rank(I, i)
      BY <1>2, <1>3, <3>1, RankGrows
    <3> QED
      BY <1>4, <3>2
  <2>2. (CHOOSE i \in I : Rank(I, i) = k) = pos[k]
    BY <1>4, <2>1
  <2>3. k \in 1..c
    BY <1>3, <1>5
  <2> QED
    BY <2>2, <2>3 DEF Pick, Rank
<1>9. Truncate(Pick(h, I), max) = SubSeq(Pick(h, I), 1, n)
  BY <1>3, <1>7 DEF Truncate
<1>10. SubSeq(Pick(h, I), 1, n) = [k \in 1..n |-> Pick(h, I)[k]]
  <2> HIDE DEF c
  <2> QED
    BY <1>3, <1>5
<1> QED
  BY <1>8, <1>9, <1>10

\* A list with these elements is what PickFirst says.
LEMMA FirstPicked ==
  ASSUME NEW h \in Seq(Entries), NEW I \in SUBSET DOMAIN h,
         NEW max \in Nat, NEW n \in Nat, n <= max, NEW pos \in [1..n -> I],
         Increasing(pos, n), FirstOf(I, pos, n, max),
         NEW list \in Seq(Entries), Len(list) = n, \A k \in 1..n : list[k] = h[pos[k]]
  PROVE  Truncate(Pick(h, I), max) = list
<1>1. Truncate(Pick(h, I), max) = [k \in 1..n |-> h[pos[k]]]
  BY PickFirst
<1>2. list = [k \in 1..n |-> h[pos[k]]]
  OBVIOUS
<1> QED
  BY <1>1, <1>2

\* A list of all places of I, in their order, picks what Pick does.
LEMMA PickAll ==
  ASSUME NEW S, NEW h \in Seq(S), NEW I \in SUBSET DOMAIN h,
         NEW n \in Nat, NEW pos \in [1..n -> I],
         Increasing(pos, n), AllOf(I, pos, n)
  PROVE  Pick(h, I) = [k \in 1..n |-> h[pos[k]]]
<1>1. DOMAIN h = 1..Len(h) /\ Len(h) \in Nat
  OBVIOUS
<1>2. \A k \in 1..n : pos[k] \in I /\ pos[k] \in Nat
  <2>1. \A k \in 1..n : pos[k] \in I
    OBVIOUS
  <2> QED
    BY <1>1, <2>1
<1>3. ASSUME NEW k \in 1..n, NEW l \in 1..n, pos[k] = pos[l] PROVE k = l
  <2>1. ~(k < l) /\ ~(l < k)
    BY <1>2, <1>3 DEF Increasing
  <2> QED
    BY <2>1
<1>4. pos \in Bijection(1..n, I)
  BY <1>3 DEF Bijection, Injection, Surjection, IsInjective, AllOf
<1>5. ExistsBijection(1..n, I)
  BY <1>4 DEF ExistsBijection
<1>6. Cardinality(I) = n
  BY <1>5, FS_CountingElements
<1>7. Pick(h, I) \in Seq(S) /\ Len(Pick(h, I)) = n
  BY <1>6, PickPlaces
<1>8. Truncate(Pick(h, I), n) = Pick(h, I)
  BY <1>7, SubSeqFull DEF Truncate
<1>9. Truncate(Pick(h, I), n) = [k \in 1..n |-> h[pos[k]]]
  <2>1. n <= n
    OBVIOUS
  <2>2. FirstOf(I, pos, n, n)
    BY DEF AllOf, FirstOf
  <2> QED
    BY <2>1, <2>2, PickFirst
<1> QED
  BY <1>8, <1>9

\* The beginning of a list.
LEMMA Begins ==
  ASSUME NEW S, NEW s \in Seq(S), NEW m \in 0..Len(s)
  PROVE  /\ SubSeq(s, 1, m) \in Seq(S) /\ Len(SubSeq(s, 1, m)) = m
         /\ \A k \in 1..m : SubSeq(s, 1, m)[k] = s[k]
<1>1. \A k \in 1..m : s[k] \in S
  OBVIOUS
<1> QED
  BY <1>1
-----------------------------------------------------------------------------
(* The inductive invariant.                                                *)

\* h has, newest first, the newest runs of g: all of them, or as many as the
\* history holds.  pos is where they are in g.
RecentBy(h, g, pos) ==
  /\ Increasing(pos, Len(h))
  /\ \A k \in 1..Len(h) : h[k] = g[pos[k]]
  /\ FirstOf(Newest(g), pos, Len(h), MaxEntries)

Recent(h, g) == \E pos \in [1..Len(h) -> Newest(g)] : RecentBy(h, g, pos)

\* What is saved: in the order it was saved, all but what was deleted.
SavedInv ==
  /\ Taken \subseteq 1..made
  /\ Increasing(saved, Len(saved))
  /\ \A k \in 1..Len(saved) : saved[k] \in (1..made) \ Taken
  /\ \A n \in (1..made) \ Taken : \E k \in 1..Len(saved) : saved[k] = n

IInv == TypeOK /\ Recent(past, runs) /\ SavedInv
-----------------------------------------------------------------------------
(* The history.                                                            *)

\* The newest runs after one more: the new one, and those of other queries.
LEMMA NewestGrows ==
  ASSUME NEW g \in Seq(Entries), NEW e \in Entries
  PROVE  /\ 1 \in Newest(<<e>> \o g)
         /\ \A i \in DOMAIN g :
              i + 1 \in Newest(<<e>> \o g) <=> i \in Newest(g) /\ g[i].query # e.query
         /\ \A i \in Newest(<<e>> \o g) : i = 1 \/ i - 1 \in DOMAIN g
<1> DEFINE f == <<e>> \o g
<1>1. DOMAIN g = 1..Len(g) /\ Len(g) \in Nat
  OBVIOUS
<1>2. DOMAIN f = 1..Len(g) + 1 /\ f[1] = e /\ \A i \in 1..Len(g) : f[i + 1] = g[i]
  BY <1>1
<1> HIDE DEF f
<1>3. 1 \in Newest(f)
  BY <1>1, <1>2 DEF Newest
<1>4. ASSUME NEW i \in 1..Len(g)
      PROVE  i + 1 \in Newest(f) <=> i \in Newest(g) /\ g[i].query # e.query
  <2>1. ASSUME i + 1 \in Newest(f)
        PROVE  i \in Newest(g) /\ g[i].query # e.query
    <3>1. g[i].query # e.query
      BY <1>1, <1>2, <2>1 DEF Newest
    <3>2. ASSUME NEW j \in 1..Len(g), j < i PROVE g[j].query # g[i].query
      <4>1. j + 1 \in DOMAIN f /\ j + 1 < i + 1
        BY <1>1, <1>2, <3>2
      <4> QED
        BY <1>2, <2>1, <4>1 DEF Newest
    <3> QED
      BY <1>1, <3>1, <3>2 DEF Newest
  <2>2. ASSUME i \in Newest(g), g[i].query # e.query
        PROVE  i + 1 \in Newest(f)
    <3>1. ASSUME NEW j \in DOMAIN f, j < i + 1 PROVE f[j].query # f[i + 1].query
      <4>1. CASE j = 1
        BY <1>2, <2>2, <4>1
      <4>2. CASE j # 1
        <5>1. j - 1 \in DOMAIN g /\ j - 1 < i /\ f[(j - 1) + 1] = g[j - 1] /\ (j - 1) + 1 = j
          BY <1>1, <1>2, <3>1, <4>2
        <5> QED
          BY <1>2, <2>2, <5>1 DEF Newest
      <4> QED
        BY <4>1, <4>2
    <3>2. i + 1 \in DOMAIN f
      BY <1>1, <1>2
    <3> QED
      BY <3>1, <3>2 DEF Newest
  <2> QED
    BY <2>1, <2>2
<1>5. ASSUME NEW i \in Newest(f) PROVE i = 1 \/ i - 1 \in DOMAIN g
  BY <1>1, <1>2 DEF Newest
<1> QED
  BY <1>1, <1>3, <1>4, <1>5 DEF f

\* The queries of a history differ: at most one entry is taken out of it.
LEMMA OneTakenOut ==
  ASSUME NEW g \in Seq(Entries), NEW h \in Seq(Entries), Recent(h, g), NEW q
  PROVE  Len(h) <= Cardinality({i \in DOMAIN h : h[i].query # q}) + 1
<1> DEFINE I == {i \in DOMAIN h : h[i].query # q}
           D == 1..Len(h)
<1>1. DOMAIN h = D /\ Len(h) \in Nat /\ DOMAIN g = 1..Len(g) /\ Len(g) \in Nat
  OBVIOUS
<1>2. IsFiniteSet(D) /\ Cardinality(D) = Len(h)
  <2>1. 1 \in Int /\ Len(h) \in Int
    BY <1>1
  <2>2. /\ IsFiniteSet(D)
        /\ Cardinality(D) = IF 1 > Len(h) THEN 0 ELSE Len(h) - 1 + 1
    BY <2>1, FS_Interval
  <2> QED
    BY <1>1, <2>2
<1>3. ASSUME NEW k \in D, NEW l \in D, k < l PROVE h[k].query # h[l].query
  <2>1. PICK pos \in [D -> Newest(g)] : RecentBy(h, g, pos)
    BY DEF Recent
  <2>2. pos[k] < pos[l] /\ h[k] = g[pos[k]] /\ h[l] = g[pos[l]]
    BY <1>3, <2>1 DEF RecentBy, Increasing
  <2>3. pos[k] \in DOMAIN g /\ pos[l] \in Newest(g)
    BY <2>1 DEF Newest
  <2> QED
    BY <2>2, <2>3 DEF Newest
<1>4. PICK x : \A i \in D : i # x => i \in I
  <2>1. CASE \E x \in D : h[x].query = q
    <3>1. PICK x \in D : h[x].query = q
      BY <2>1
    <3>2. ASSUME NEW i \in D, i # x PROVE h[i].query # q
      <4>1. i < x \/ x < i
        BY <1>1, <3>2
      <4> QED
        BY <1>3, <3>1, <4>1
    <3> QED
      BY <1>1, <3>2
  <2>2. CASE ~\E x \in D : h[x].query = q
    BY <1>1, <2>2
  <2> QED
    BY <2>1, <2>2
<1> HIDE DEF D
<1>5. I \in SUBSET D
  BY <1>1
<1>6. IsFiniteSet(I) /\ Cardinality(I) \in Nat
  BY <1>2, <1>5, FS_Subset, FS_CardinalityType
<1>7. D \ {x} \in SUBSET I
  BY <1>4
<1> HIDE DEF I
<1>8. Cardinality(D \ {x}) <= Cardinality(I)
  BY <1>6, <1>7, FS_Subset
<1>9. Cardinality(D \ {x}) = IF x \in D THEN Cardinality(D) - 1 ELSE Cardinality(D)
  BY <1>2, FS_RemoveElement
<1> QED
  BY <1>1, <1>2, <1>6, <1>8, <1>9 DEF I

\* A history that is cleared is recent.
LEMMA NoneRecent == Recent(<<>>, <<>>)
<1>1. Newest(<<>>) = {}
  BY DEF Newest
<1>2. RecentBy(<<>>, <<>>, <<>>)
  BY <1>1 DEF RecentBy, Increasing, FirstOf
<1>3. <<>> \in [1..Len(<<>>) -> Newest(<<>>)]
  OBVIOUS
<1> QED
  BY <1>2, <1>3 DEF Recent

\* recordHistory keeps a history recent.
LEMMA RecordStep ==
  ASSUME NEW g \in Seq(Entries), NEW h \in Seq(Entries), Len(h) <= MaxEntries,
         Recent(h, g), NEW e \in Entries
  PROVE  /\ Recorded(h, e) \in Seq(Entries)
         /\ Len(Recorded(h, e)) <= MaxEntries
         /\ Recent(Recorded(h, e), <<e>> \o g)
<1> USE EntriesAssumption
<1> DEFINE I == {i \in DOMAIN h : h[i].query # e.query}
           c == Cardinality(I)
           W == Pick(h, I)
           m == IF c + 1 < MaxEntries THEN c + 1 ELSE MaxEntries
           f == <<e>> \o g
           h2 == Recorded(h, e)
<1>1. /\ DOMAIN h = 1..Len(h) /\ Len(h) \in Nat
      /\ DOMAIN g = 1..Len(g) /\ Len(g) \in Nat
  OBVIOUS
<1>2. I \in SUBSET DOMAIN h
  OBVIOUS
<1>3. c \in Nat /\ W \in Seq(Entries) /\ Len(W) = c
  BY <1>2, PickPlaces
<1>4. PICK at \in [1..c -> I] : Places(h, I, at)
  <2> HIDE DEF I
  <2> QED
    BY <1>2, PickPlaces
<1>5. Len(h) <= c + 1
  BY OneTakenOut
<1>6. PICK pos \in [1..Len(h) -> Newest(g)] : RecentBy(h, g, pos)
  BY DEF Recent
<1>7. \A k \in 1..c : /\ at[k] \in 1..Len(h) /\ h[at[k]].query # e.query
                       /\ pos[at[k]] \in Newest(g) /\ pos[at[k]] \in Nat \ {0}
                       /\ h[at[k]] = g[pos[at[k]]]
  <2> SUFFICES ASSUME NEW k \in 1..c
               PROVE  /\ at[k] \in 1..Len(h) /\ h[at[k]].query # e.query
                      /\ pos[at[k]] \in Newest(g) /\ pos[at[k]] \in Nat \ {0}
                      /\ h[at[k]] = g[pos[at[k]]]
    OBVIOUS
  <2>1. at[k] \in I
    OBVIOUS
  <2>2. at[k] \in 1..Len(h) /\ h[at[k]].query # e.query
    BY <1>1, <2>1
  <2>3. pos[at[k]] \in Newest(g)
    BY <2>2
  <2>4. pos[at[k]] \in 1..Len(g)
    BY <1>1, <2>3 DEF Newest
  <2> QED
    BY <1>6, <2>2, <2>3, <2>4 DEF RecentBy
<1> HIDE DEF I, c, W
<1>8. /\ <<e>> \o W \in Seq(Entries) /\ Len(<<e>> \o W) = c + 1
      /\ (<<e>> \o W)[1] = e
      /\ \A k \in 1..c : (<<e>> \o W)[k + 1] = W[k]
  BY <1>3
<1>9. m \in Nat \ {0} /\ m <= MaxEntries /\ m <= c + 1
  BY <1>3
<1>10. h2 = SubSeq(<<e>> \o W, 1, m)
  BY <1>8 DEF Recorded, Truncate, Without, W, I
<1> HIDE DEF m
<1>11. /\ h2 \in Seq(Entries) /\ Len(h2) = m
       /\ \A k \in 1..m : h2[k] = (<<e>> \o W)[k]
  <2>1. m \in 0..Len(<<e>> \o W)
    BY <1>3, <1>8, <1>9
  <2> QED
    BY <1>8, <1>10, <2>1, Begins
<1>12. h2[1] = e /\ \A k \in 1..m : k # 1 => k - 1 \in 1..c /\ h2[k] = W[k - 1]
  <2>1. 1 \in 1..m
    BY <1>9
  <2>2. ASSUME NEW k \in 1..m, k # 1 PROVE k - 1 \in 1..c /\ h2[k] = W[k - 1]
    <3>1. k - 1 \in 1..c /\ (k - 1) + 1 = k
      BY <1>3, <1>9, <2>2
    <3> QED
      BY <1>8, <1>11, <3>1
  <2> QED
    BY <1>8, <1>11, <2>1, <2>2
<1> HIDE DEF h2
<1>13. f[1] = e /\ \A i \in 1..Len(g) : f[i + 1] = g[i]
  BY <1>1
<1> HIDE DEF f
<1> DEFINE pos2 == [k \in 1..m |-> IF k = 1 THEN 1 ELSE pos[at[k - 1]] + 1]
<1>14. pos2 \in [1..m -> Newest(f)]
  <2> SUFFICES ASSUME NEW k \in 1..m, k # 1 PROVE pos[at[k - 1]] + 1 \in Newest(f)
    BY NewestGrows DEF f
  <2>1. k - 1 \in 1..c
    BY <1>12
  <2>2. /\ pos[at[k - 1]] \in Newest(g) /\ pos[at[k - 1]] \in DOMAIN g
        /\ g[pos[at[k - 1]]].query # e.query
    BY <1>7, <2>1 DEF Newest
  <2> QED
    BY <2>2, NewestGrows DEF f
<1>15. ASSUME NEW k \in 1..m, NEW l \in 1..m, k < l PROVE pos2[k] < pos2[l]
  <2>1. l # 1 /\ l - 1 \in 1..c /\ pos[at[l - 1]] \in Nat \ {0}
    BY <1>7, <1>12, <1>15
  <2>2. CASE k = 1
    BY <2>1, <2>2
  <2>3. CASE k # 1
    <3>1. k - 1 \in 1..c /\ k - 1 < l - 1
      BY <1>12, <1>15, <2>3
    <3>2. at[k - 1] < at[l - 1]
      BY <1>4, <2>1, <3>1 DEF Places, Increasing, c
    <3>3. pos[at[k - 1]] < pos[at[l - 1]]
      BY <1>6, <1>7, <2>1, <3>1, <3>2 DEF RecentBy, Increasing
    <3>4. pos[at[k - 1]] \in Nat
      BY <1>7, <3>1
    <3>5. pos2[k] = pos[at[k - 1]] + 1 /\ pos2[l] = pos[at[l - 1]] + 1
      BY <2>1, <2>3
    <3> HIDE DEF pos2
    <3> QED
      BY <2>1, <3>3, <3>4, <3>5
  <2> QED
    BY <2>2, <2>3
<1>16. ASSUME NEW k \in 1..m PROVE h2[k] = f[pos2[k]]
  <2>1. CASE k = 1
    BY <1>12, <1>13, <2>1
  <2>2. CASE k # 1
    <3>1. k - 1 \in 1..c /\ h2[k] = W[k - 1]
      BY <1>12, <2>2
    <3>2. W[k - 1] = g[pos[at[k - 1]]] /\ pos[at[k - 1]] \in 1..Len(g)
      BY <1>1, <1>4, <1>7, <3>1 DEF Newest, Places, c, W
    <3> QED
      BY <1>13, <2>2, <3>1, <3>2
  <2> QED
    BY <2>1, <2>2
<1>17. ASSUME NEW i \in Newest(f)
       PROVE  \/ \E k \in 1..m : pos2[k] = i
              \/ m = MaxEntries /\ \A k \in 1..m : pos2[k] < i
  <2>1. CASE i = 1
    <3>1. 1 \in 1..m /\ pos2[1] = 1
      BY <1>9
    <3> QED
      BY <2>1, <3>1
  <2>2. CASE i # 1
    <3> DEFINE j == i - 1
    <3>1. j \in DOMAIN g
      BY <2>2, NewestGrows DEF f
    <3>2. j \in 1..Len(g) /\ i = j + 1
      BY <1>1, <2>2, <3>1, NewestGrows DEF Newest, f
    <3> HIDE DEF j
    <3>3. j \in Newest(g) /\ g[j].query # e.query
      BY <1>17, <3>1, <3>2, NewestGrows DEF f
    <3>4. CASE \E l \in 1..Len(h) : pos[l] = j
      <4>1. PICK l \in 1..Len(h) : pos[l] = j
        BY <3>4
      <4>2. l \in I
        BY <1>1, <1>6, <3>3, <4>1 DEF I, RecentBy
      <4>3. PICK k \in 1..c : at[k] = l
        BY <1>4, <4>2 DEF Places, AllOf, c
      <4>4. CASE k + 1 <= m
        <5>1. k + 1 \in 1..m /\ k + 1 # 1 /\ (k + 1) - 1 = k
          BY <1>3, <1>9, <4>4
        <5>2. pos2[k + 1] = pos[at[k]] + 1
          BY <5>1
        <5> QED
          BY <3>2, <4>1, <4>3, <5>1, <5>2
      <4>5. CASE ~(k + 1 <= m)
        <5>1. m = MaxEntries
          BY <1>3, <4>5 DEF m
        <5>2. ASSUME NEW n \in 1..m PROVE pos2[n] < i
          <6>1. CASE n = 1
            BY <3>2, <6>1
          <6>2. CASE n # 1
            <7>1. n - 1 \in 1..c /\ n - 1 < k
              BY <1>3, <1>9, <1>12, <4>5, <6>2
            <7>2. at[n - 1] < at[k]
              BY <1>4, <7>1 DEF Places, Increasing, c
            <7>3. pos[at[n - 1]] < pos[at[k]]
              BY <1>6, <1>7, <7>1, <7>2 DEF RecentBy, Increasing
            <7>4. pos[at[n - 1]] \in Nat
              BY <1>7, <7>1
            <7> QED
              BY <3>2, <4>1, <4>3, <6>2, <7>3, <7>4
          <6> QED
            BY <6>1, <6>2
        <5> QED
          BY <5>1, <5>2
      <4> QED
        BY <4>4, <4>5
    <3>5. CASE Len(h) = MaxEntries /\ \A l \in 1..Len(h) : pos[l] < j
      <4>1. m = MaxEntries
        BY <1>3, <1>5, <3>5 DEF m
      <4>2. ASSUME NEW n \in 1..m PROVE pos2[n] < i
        <5>1. CASE n = 1
          BY <3>2, <5>1
        <5>2. CASE n # 1
          <6>1. at[n - 1] \in 1..Len(h) /\ pos[at[n - 1]] \in Nat
            BY <1>7, <1>12, <5>2
          <6> QED
            BY <3>2, <3>5, <5>2, <6>1
        <5> QED
          BY <5>1, <5>2
      <4> QED
        BY <4>1, <4>2
    <3> QED
      BY <1>6, <3>3, <3>4, <3>5 DEF RecentBy, FirstOf
  <2> QED
    BY <2>1, <2>2
<1> HIDE DEF pos2
<1>18. RecentBy(h2, f, pos2)
  <2>1. Increasing(pos2, m)
    BY <1>15 DEF Increasing
  <2>2. FirstOf(Newest(f), pos2, m, MaxEntries)
    BY <1>17 DEF FirstOf
  <2> QED
    BY <1>11, <1>16, <2>1, <2>2 DEF RecentBy
<1>19. Recent(h2, f)
  BY <1>11, <1>14, <1>18 DEF Recent
<1> QED
  BY <1>9, <1>11, <1>19 DEF h2, f
-----------------------------------------------------------------------------
(* The saved queries.                                                      *)

\* What is left of a list when the entry at i is taken out of it.
LEMMA Removed ==
  ASSUME NEW S, NEW s \in Seq(S), NEW i \in 1..Len(s)
  PROVE  /\ RemoveAt(s, i) \in Seq(S) /\ Len(RemoveAt(s, i)) = Len(s) - 1
         /\ \A k \in 1..Len(s) - 1 :
              RemoveAt(s, i)[k] = IF k < i THEN s[k] ELSE s[k + 1]
<1> DEFINE a == SubSeq(s, 1, i - 1)
           b == SubSeq(s, i + 1, Len(s))
<1>1. Len(s) \in Nat /\ \A k \in 1..Len(s) : s[k] \in S
  OBVIOUS
<1>2. /\ a \in Seq(S) /\ Len(a) = i - 1
      /\ \A k \in 1..i - 1 : a[k] = s[k]
  BY <1>1
<1>3. /\ b \in Seq(S) /\ Len(b) = Len(s) - i
      /\ \A k \in 1..Len(s) - i : b[k] = s[i + k]
  BY <1>1
<1> HIDE DEF a, b
<1>4. /\ a \o b \in Seq(S) /\ Len(a \o b) = Len(a) + Len(b)
      /\ \A k \in 1..Len(a) + Len(b) :
           (a \o b)[k] = IF k <= Len(a) THEN a[k] ELSE b[k - Len(a)]
  BY <1>2, <1>3, ConcatProperties
<1>5. ASSUME NEW k \in 1..Len(s) - 1
      PROVE  (a \o b)[k] = IF k < i THEN s[k] ELSE s[k + 1]
  <2>1. CASE k < i
    BY <1>1, <1>2, <1>3, <1>4, <2>1
  <2>2. CASE ~(k < i)
    <3>1. k - (i - 1) \in 1..Len(s) - i /\ i + (k - (i - 1)) = k + 1
      BY <1>1, <2>2
    <3>2. (a \o b)[k] = b[k - (i - 1)]
      BY <1>1, <1>2, <1>3, <1>4, <2>2
    <3> QED
      BY <1>3, <2>2, <3>1, <3>2
  <2> QED
    BY <2>1, <2>2
<1>6. RemoveAt(s, i) = a \o b
  BY DEF RemoveAt, a, b
<1> QED
  BY <1>1, <1>2, <1>3, <1>4, <1>5, <1>6

\* The save button adds the newest query at the end.
LEMMA SaveStep ==
  ASSUME TypeOK, SavedInv, NEW t \in Tabs, Save(t)
  PROVE  SavedInv'
<1>1. /\ made' = made + 1 /\ made \in Nat /\ gone' = gone
      /\ saved' = Append(saved, made + 1) /\ saved \in Seq(Nat) /\ Len(saved) \in Nat
  BY BoundsAssumption DEF Save, TypeOK, Kept
<1>2. /\ Len(saved') = Len(saved) + 1 /\ saved'[Len(saved) + 1] = made + 1
      /\ \A k \in 1..Len(saved) : saved'[k] = saved[k]
  BY <1>1
<1>3. Taken' = Taken /\ Taken \subseteq 1..made
  BY <1>1 DEF Taken, SavedInv
<1>4. ASSUME NEW k \in 1..Len(saved') PROVE saved'[k] \in (1..made') \ Taken
  BY <1>1, <1>2, <1>3 DEF SavedInv
<1>5. ASSUME NEW k \in 1..Len(saved'), NEW l \in 1..Len(saved'), k < l
      PROVE  saved'[k] < saved'[l]
  <2>1. k \in 1..Len(saved) /\ saved'[k] = saved[k] /\ saved[k] \in 1..made
    BY <1>1, <1>2, <1>5 DEF SavedInv
  <2>2. CASE l \in 1..Len(saved)
    BY <1>2, <1>5, <2>1, <2>2 DEF SavedInv, Increasing
  <2>3. CASE l \notin 1..Len(saved)
    <3>1. l = Len(saved) + 1
      BY <1>1, <1>2, <2>3
    <3> QED
      BY <1>1, <1>2, <2>1, <3>1
  <2> QED
    BY <2>2, <2>3
<1>6. ASSUME NEW n \in (1..made') \ Taken PROVE \E k \in 1..Len(saved') : saved'[k] = n
  <2>1. CASE n = made + 1
    BY <1>1, <1>2, <2>1
  <2>2. CASE n # made + 1
    <3>1. n \in (1..made) \ Taken
      BY <1>1, <2>2
    <3> QED
      BY <1>1, <1>2, <3>1 DEF SavedInv
  <2> QED
    BY <2>1, <2>2
<1> QED
  BY <1>1, <1>3, <1>4, <1>5, <1>6 DEF SavedInv, Increasing

\* A delete takes one query out of the list as it is stored, or none.
LEMMA DeleteStep ==
  ASSUME TypeOK, SavedInv, NEW t \in Tabs, NEW i \in Kept, Delete(t, i)
  PROVE  SavedInv'
<1>1. /\ made' = made /\ made \in Nat /\ saved \in Seq(Nat) /\ Len(saved) \in Nat
      /\ DOMAIN saved = 1..Len(saved)
  BY BoundsAssumption DEF Delete, TypeOK, Kept
<1>2. CASE i \notin DOMAIN saved
  <2>1. saved' = saved /\ gone' = gone
    BY <1>2 DEF Delete
  <2>2. Taken' = Taken
    BY <2>1 DEF Taken
  <2> HIDE DEF Taken
  <2> QED
    BY <1>1, <2>1, <2>2 DEF SavedInv, Increasing
<1>3. CASE i \in DOMAIN saved
  <2>1. saved' = RemoveAt(saved, i) /\ gone' = Append(gone, <<saved[i], shown[t][i]>>)
    BY <1>3 DEF Delete
  <2>2. /\ Len(saved') = Len(saved) - 1
        /\ \A k \in 1..Len(saved) - 1 : saved'[k] = IF k < i THEN saved[k] ELSE saved[k + 1]
    <3>1. saved \in Seq(Nat) /\ i \in 1..Len(saved)
      BY <1>1, <1>3
    <3>2. /\ Len(RemoveAt(saved, i)) = Len(saved) - 1
          /\ \A k \in 1..Len(saved) - 1 :
               RemoveAt(saved, i)[k] = IF k < i THEN saved[k] ELSE saved[k + 1]
      BY <3>1, Removed
    <3> QED
      BY <2>1, <3>2
  <2>3. Taken' = Taken \cup {saved[i]}
    <3>1. /\ gone \in Seq(Kept \X Kept) /\ Len(gone) \in Nat
          /\ DOMAIN gone = 1..Len(gone)
      BY DEF TypeOK
    <3>2. /\ DOMAIN gone' = 1..Len(gone) + 1
          /\ \A k \in 1..Len(gone) : gone'[k] = gone[k]
          /\ gone'[Len(gone) + 1][1] = saved[i]
      BY <2>1, <3>1
    <3> QED
      BY <3>1, <3>2 DEF Taken
  <2>4. \A k, l \in 1..Len(saved) : k < l => saved[k] < saved[l]
    BY DEF SavedInv, Increasing
  <2>5. saved[i] \in 1..made
    BY <1>1, <1>3 DEF SavedInv
  <2>6. ASSUME NEW k \in 1..Len(saved')
        PROVE  \E l \in 1..Len(saved) : /\ l # i /\ saved'[k] = saved[l]
                                        /\ l = IF k < i THEN k ELSE k + 1
    BY <1>1, <1>3, <2>2
  <2>7. ASSUME NEW k \in 1..Len(saved') PROVE saved'[k] \in (1..made') \ Taken'
    <3>1. PICK l \in 1..Len(saved) : l # i /\ saved'[k] = saved[l]
      BY <2>6
    <3>2. saved[l] # saved[i] /\ saved[l] \in (1..made) \ Taken
      <4>1. (l < i \/ i < l) /\ saved[l] \in Nat /\ saved[i] \in Nat
        BY <1>1, <1>3, <3>1
      <4> QED
        BY <1>1, <1>3, <2>4, <4>1 DEF SavedInv
    <3> QED
      BY <1>1, <2>3, <3>1, <3>2
  <2>8. ASSUME NEW k \in 1..Len(saved'), NEW l \in 1..Len(saved'), k < l
        PROVE  saved'[k] < saved'[l]
    <3>1. PICK m \in 1..Len(saved) : /\ saved'[k] = saved[m]
                                     /\ m = IF k < i THEN k ELSE k + 1
      BY <2>6
    <3>2. PICK n \in 1..Len(saved) : /\ saved'[l] = saved[n]
                                     /\ n = IF l < i THEN l ELSE l + 1
      BY <2>6
    <3>3. m < n
      BY <1>1, <1>3, <2>2, <2>8, <3>1, <3>2
    <3> QED
      BY <2>4, <3>1, <3>2, <3>3
  <2>9. ASSUME NEW n \in (1..made') \ Taken' PROVE \E k \in 1..Len(saved') : saved'[k] = n
    <3>1. PICK l \in 1..Len(saved) : saved[l] = n
      BY <1>1, <2>3 DEF SavedInv
    <3>2. l # i
      BY <2>3, <3>1
    <3>3. CASE l < i
      <4>1. l \in 1..Len(saved')
        BY <1>1, <1>3, <2>2, <3>3
      <4> QED
        BY <2>2, <3>1, <3>3, <4>1
    <3>4. CASE i < l
      <4>1. l - 1 \in 1..Len(saved') /\ ~(l - 1 < i) /\ (l - 1) + 1 = l
        BY <1>1, <1>3, <2>2, <3>4
      <4> QED
        BY <2>2, <3>1, <4>1
    <3> QED
      BY <1>1, <1>3, <3>2, <3>3, <3>4
  <2> QED
    BY <1>1, <2>3, <2>5, <2>7, <2>8, <2>9 DEF SavedInv, Increasing
<1> QED
  BY <1>2, <1>3
-----------------------------------------------------------------------------
(* The theorems.                                                           *)

\* Every step keeps the types: a list stays one of entries, or of numbers.
LEMMA TypeStep ==
  IInv /\ [Next]_vars => TypeOK'
<1> SUFFICES ASSUME IInv, [Next]_vars
    PROVE  TypeOK'
  OBVIOUS
<1> USE EntriesAssumption, BoundsAssumption DEF IInv, TypeOK
<1>1. ASSUME NEW t \in Tabs, LoadResult(t) PROVE TypeOK'
  <2>1. PICK e \in Entries : past' = Recorded(past, e) /\ runs' = <<e>> \o runs
    BY <1>1 DEF LoadResult
  <2>2. past' \in Seq(Entries) /\ Len(past') <= MaxEntries
    BY <2>1, RecordStep
  <2>3. runs' \in Seq(Entries)
    BY <2>1
  <2> QED
    BY <1>1, <2>2, <2>3 DEF LoadResult, Render
<1>2. ASSUME NEW t \in Tabs, LoadOther(t) PROVE TypeOK'
  BY <1>2 DEF LoadOther, Render
<1>3. ASSUME NEW t \in Tabs, Clear(t) PROVE TypeOK'
  BY <1>3 DEF Clear
<1>4. ASSUME NEW t \in Tabs, Save(t) PROVE TypeOK'
  <2>1. made' \in 0..MaxSaves /\ made' \in Kept
    BY <1>4 DEF Save, Kept
  <2>2. saved' \in Seq(Kept)
    BY <1>4, <2>1 DEF Save
  <2> QED
    BY <1>4, <2>1, <2>2 DEF Save, Render
<1>5. ASSUME NEW t \in Tabs, NEW i \in Kept, Delete(t, i) PROVE TypeOK'
  <2>1. DOMAIN saved = 1..Len(saved) /\ DOMAIN shown[t] = 1..Len(shown[t])
    OBVIOUS
  <2>2. saved' \in Seq(Kept)
    BY <1>5, <2>1, Removed DEF Delete
  <2>3. gone' \in Seq(Kept \X Kept)
    <3>1. shown[t][i] \in Kept
      BY <1>5, <2>1 DEF Delete
    <3>2. i \in DOMAIN saved => saved[i] \in Kept
      BY <2>1
    <3> QED
      BY <1>5, <3>1, <3>2 DEF Delete
  <2> QED
    BY <1>5, <2>2, <2>3 DEF Delete, Render
<1>6. CASE UNCHANGED vars
  BY <1>6 DEF vars
<1> QED
  BY <1>1, <1>2, <1>3, <1>4, <1>5, <1>6 DEF Next

\* Every step keeps the history recent: only a result and Clear change it.
LEMMA HistoryStep ==
  IInv /\ [Next]_vars => Recent(past, runs)'
<1> SUFFICES ASSUME IInv, [Next]_vars
    PROVE  Recent(past', runs')
  BY DEF Recent, RecentBy, Increasing, FirstOf, Newest
<1>1. ASSUME NEW t \in Tabs, LoadResult(t) PROVE Recent(past', runs')
  BY <1>1, RecordStep DEF LoadResult, IInv, TypeOK
<1>2. ASSUME NEW t \in Tabs, Clear(t) PROVE Recent(past', runs')
  BY <1>2, NoneRecent DEF Clear
<1>3. CASE UNCHANGED <<past, runs>>
  BY <1>3 DEF IInv
<1> QED
  BY <1>1, <1>2, <1>3 DEF Next, LoadOther, Save, Delete, vars

\* Every step keeps the saved queries: only Save and Delete change them.
LEMMA SavedStep ==
  IInv /\ [Next]_vars => SavedInv'
<1> SUFFICES ASSUME IInv, [Next]_vars
    PROVE  SavedInv'
  OBVIOUS
<1>1. ASSUME NEW t \in Tabs, Save(t) PROVE SavedInv'
  BY <1>1, SaveStep DEF IInv
<1>2. ASSUME NEW t \in Tabs, NEW i \in Kept, Delete(t, i) PROVE SavedInv'
  BY <1>2, DeleteStep DEF IInv
<1>3. CASE UNCHANGED <<saved, made, gone>>
  BY <1>3 DEF IInv, SavedInv, Taken, Increasing
<1> QED
  BY <1>1, <1>2, <1>3 DEF Next, LoadResult, LoadOther, Clear, vars

\* The inductive invariant holds of every run.
LEMMA Invariance == Spec => []IInv
<1>1. Init => IInv
  <2> SUFFICES ASSUME Init
      PROVE  IInv
    OBVIOUS
  <2>1. TypeOK
    BY EntriesAssumption, BoundsAssumption DEF Init, TypeOK
  <2>2. Recent(past, runs)
    BY NoneRecent DEF Init
  <2>3. SavedInv
    BY DEF Init, SavedInv, Taken, Increasing
  <2> QED
    BY <2>1, <2>2, <2>3 DEF IInv
<1>2. IInv /\ [Next]_vars => IInv'
  BY TypeStep, HistoryStep, SavedStep DEF IInv
<1> QED
  BY <1>1, <1>2, PTL DEF Spec

\* Type correctness of the lists: the history is never longer than
\* MAX_HISTORY_ENTRIES (recordHistory, script.js:215-224).
THEOREM TypeCorrect == Spec => []TypeOK
<1>1. IInv => TypeOK
  BY DEF IInv
<1> QED
  BY Invariance, <1>1, PTL

\* Whatever the tabs run, the history has the newest run of each query, in the
\* order of the runs (recordHistory, script.js:215-224).
THEOREM HistoryAlwaysRecent == Spec => []HistoryIsRecent
<1>1. IInv => HistoryIsRecent
  <2> SUFFICES ASSUME IInv
      PROVE  HistoryIsRecent
    OBVIOUS
  <2>1. /\ past \in Seq(Entries) /\ Len(past) \in Nat /\ Len(past) <= MaxEntries
        /\ runs \in Seq(Entries)
    BY DEF IInv, TypeOK
  <2>2. PICK pos \in [1..Len(past) -> Newest(runs)] : RecentBy(past, runs, pos)
    BY DEF IInv, Recent
  <2>3. Newest(runs) \in SUBSET DOMAIN runs
    BY DEF Newest
  <2> DEFINE n == Len(past)
             I == Newest(runs)
  <2>4. MaxEntries \in Nat /\ n \in Nat /\ n <= MaxEntries
    BY <2>1, EntriesAssumption
  <2>5. /\ I \in SUBSET DOMAIN runs /\ pos \in [1..n -> I]
        /\ Increasing(pos, n) /\ FirstOf(I, pos, n, MaxEntries)
        /\ Len(past) = n /\ \A k \in 1..n : past[k] = runs[pos[k]]
    BY <2>2, <2>3 DEF RecentBy
  <2> HIDE DEF n, I
  <2>6. Truncate(Pick(runs, I), MaxEntries) = past
    BY <2>1, <2>4, <2>5, FirstPicked, SMTT(30)
  <2> QED
    BY <2>6 DEF HistoryIsRecent, I
<1> QED
  BY Invariance, <1>1, PTL

\* Whatever tabs save and delete at a time, nothing is lost or comes back but
\* by a delete (script.js:189-195, 226-236).
THEOREM SavesAlwaysKept == Spec => []SavesKept
<1>1. IInv => SavesKept
  <2> SUFFICES ASSUME IInv
      PROVE  SavesKept
    OBVIOUS
  <2> DEFINE h == [n \in 1..made |-> n]
             I == (1..made) \ Taken
  <2>1. made \in Nat /\ saved \in Seq(Kept) /\ Len(saved) \in Nat
    BY BoundsAssumption DEF IInv, TypeOK
  <2>2. h \in Seq(Nat) /\ DOMAIN h = 1..made
    BY <2>1
  <2>3. I \in SUBSET DOMAIN h
    BY <2>2
  <2>4. saved \in [1..Len(saved) -> I]
    BY <2>1 DEF IInv, SavedInv
  <2>5. Increasing(saved, Len(saved)) /\ AllOf(I, saved, Len(saved))
    BY DEF IInv, SavedInv, AllOf
  <2>6. saved = [k \in 1..Len(saved) |-> h[saved[k]]]
    BY <2>1, <2>4
  <2> HIDE DEF h, I
  <2>7. Pick(h, I) = [k \in 1..Len(saved) |-> h[saved[k]]]
    BY <2>1, <2>2, <2>3, <2>4, <2>5, PickAll
  <2> QED
    BY <2>6, <2>7 DEF SavesKept, h, I
<1> QED
  BY Invariance, <1>1, PTL
=============================================================================
