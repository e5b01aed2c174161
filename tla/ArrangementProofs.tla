-------------------------- MODULE ArrangementProofs -------------------------
(***************************************************************************)
(* Lists: what Arrangements, FlattenSeq and the operators of Sequences     *)
(* make of them, whatever they hold.  Where that takes induction, it is on *)
(* the numbers and over a set instead of a predicate (CountingUp).         *)
(***************************************************************************)
EXTENDS Arrangements, FiniteSetTheorems, SequenceTheorems, TLAPS

----------------------------------------------------------------------------
(* Numbers                                                                 *)

\* A set of naturals that is not empty has a least element.
LEMMA LeastNatural ==
    ASSUME NEW S \in SUBSET Nat, S # {}
    PROVE  \E n \in S : \A m \in S : n <= m
<1>1. PICK k \in S : TRUE
  OBVIOUS
<1> DEFINE U == 0 .. k
           T == {0 .. n : n \in S \cap U}
           R == StrictSubsetOrdering(U)
<1>2. k \in Nat /\ IsFiniteSet(U)
  BY <1>1, FS_Interval
<1>3. IsWellFoundedOn(R, SUBSET U)
  BY <1>2, FS_FiniteSubsetsOfFinite, FS_StrictSubsetOrderingWellFounded
<1>4. T \subseteq SUBSET U /\ T # {}
  BY <1>1, <1>2
<1>5. PICK A \in T : \A B \in T : ~(<<B, A>> \in R)
  BY <1>3, <1>4, WFMin
<1>6. PICK n \in S \cap U : A = 0 .. n
  BY <1>5
<1>7. ASSUME NEW m \in S, m < n
      PROVE  FALSE
  <2>1. m \in U /\ 0 .. m \in T
    BY <1>2, <1>6, <1>7
  <2>2. 0 .. m \subseteq 0 .. n /\ 0 .. m # 0 .. n
    <3>1. n \in 0 .. n /\ n \notin 0 .. m
      BY <1>6, <1>7
    <3>2. QED
      BY <1>6, <1>7, <3>1
  <2>3. <<0 .. m, 0 .. n>> \in R
    BY <1>4, <1>6, <2>1, <2>2 DEF StrictSubsetOrdering
  <2>4. QED
    BY <1>5, <1>6, <2>1, <2>3
<1>8. QED
  BY <1>6, <1>7

\* Induction for one set of numbers, where a predicate cannot be given.
LEMMA CountingUp ==
    ASSUME NEW n \in Nat, NEW T, 1 \in T, \A k \in 1 .. n - 1 : k \in T => k + 1 \in T
    PROVE  \A k \in 1 .. n : k \in T
<1> DEFINE S == {k \in 1 .. n : k \notin T}
<1>1. SUFFICES ASSUME S # {} PROVE FALSE
  OBVIOUS
<1>2. S \in SUBSET Nat
  OBVIOUS
<1>3. PICK k \in S : \A m \in S : k <= m
  BY <1>1, <1>2, LeastNatural
<1>4. k # 1 /\ k - 1 \in 1 .. n - 1 /\ k - 1 \notin S
  BY <1>3
<1>5. QED
  BY <1>3, <1>4

\* t has, in some order, every element that s has at P, once for each position.
Chosen(t, s, P) ==
    \E order \in [1 .. Len(t) -> P] :
        /\ \A k \in 1 .. Len(t) : t[k] = s[order[k]]
        /\ \A i \in P : \E k \in 1 .. Len(t) : order[k] = i
        /\ \A k, l \in 1 .. Len(t) : order[k] = order[l] => k = l

\* How many keys are not above that of i.
RankIn(key, i) == Cardinality({j \in DOMAIN key : key[j] <= key[i]})

\* t has what s has at the positions of the key, each where its rank says.
Ranked(t, s, key) ==
    \E order \in [1 .. Len(t) -> DOMAIN key] :
        /\ \A k \in 1 .. Len(t) : t[k] = s[order[k]] /\ RankIn(key, order[k]) = k
        /\ \A i \in DOMAIN key : RankIn(key, i) \in 1 .. Len(t) /\ order[RankIn(key, i)] = i

\* Arranged visits every position of the key once.
LEMMA ArrangedFacts ==
    ASSUME NEW S, NEW s \in Seq(S), NEW P \in SUBSET (DOMAIN s), NEW key \in [P -> Nat],
           \A i, j \in P : key[i] = key[j] => i = j
    PROVE  /\ Arranged(s, key) \in Seq(S)
           /\ Len(Arranged(s, key)) = Cardinality(P)
           /\ Chosen(Arranged(s, key), s, P)
           /\ Ranked(Arranged(s, key), s, key)
<1> DEFINE n       == Cardinality(P)
           Upto(i) == {j \in P : key[j] <= key[i]}
           rank    == [i \in P |-> Cardinality(Upto(i))]
<1>0. IsFiniteSet(P) /\ \A i \in P : s[i] \in S
  <2>1. Len(s) \in Nat /\ DOMAIN s = 1 .. Len(s) /\ \A i \in P : s[i] \in S
    BY LenProperties
  <2>2. IsFiniteSet(1 .. Len(s))
    BY <2>1, FS_Interval
  <2>3. QED
    BY <2>1, <2>2, FS_Subset
<1>1. n \in Nat
  BY <1>0, FS_CardinalityType
<1>2. \A i \in P : /\ IsFiniteSet(Upto(i)) /\ Upto(i) \subseteq P
                   /\ Cardinality(Upto(i)) \in 1 .. n
  <2>1. TAKE i \in P
  <2>2. Upto(i) \in SUBSET P /\ i \in Upto(i)
    OBVIOUS
  <2>3. IsFiniteSet(Upto(i)) /\ Cardinality(Upto(i)) <= n
    BY <1>0, <2>2, FS_Subset
  <2>4. Cardinality(Upto(i)) \in Nat /\ Cardinality(Upto(i)) # 0
    BY <2>2, <2>3, FS_CardinalityType, FS_EmptySet
  <2> HIDE DEF n, Upto
  <2>5. QED
    BY <1>1, <2>2, <2>3, <2>4
<1>3. rank \in [P -> 1 .. n] /\ \A i \in P : rank[i] = Cardinality(Upto(i))
  BY <1>2
<1> HIDE DEF rank
<1>4. ASSUME NEW i \in P, NEW j \in P, key[i] < key[j] PROVE rank[i] < rank[j]
  <2>1. Upto(i) \in SUBSET Upto(j) /\ Upto(i) # Upto(j)
    <3>1. j \in Upto(j) /\ j \notin Upto(i)
      BY <1>4
    <3>2. QED
      BY <1>4, <3>1
  <2>2. Cardinality(Upto(i)) <= Cardinality(Upto(j)) /\ Cardinality(Upto(i)) # Cardinality(Upto(j))
    BY <1>2, <2>1, FS_Subset
  <2> HIDE DEF Upto, n
  <2>3. QED
    BY <1>1, <1>3, <2>2
<1> HIDE DEF Upto, n
<1>5. \A i, j \in P : rank[i] = rank[j] => i = j
  <2>1. SUFFICES ASSUME NEW i \in P, NEW j \in P, rank[i] = rank[j] PROVE i = j
    OBVIOUS
  <2>2. ~(key[i] < key[j]) /\ ~(key[j] < key[i])
    BY <1>1, <1>3, <1>4, <2>1
  <2>3. key[i] \in Nat /\ key[j] \in Nat
    OBVIOUS
  <2>4. QED
    BY <2>2, <2>3
<1>6. rank \in Surjection(P, 1 .. n)
  <2>1. rank \in Injection(P, 1 .. n)
    BY <1>3, <1>5 DEF Injection, IsInjective
  <2>2. IsFiniteSet(1 .. n) /\ Cardinality(1 .. n) = n
    BY <1>1, FS_Interval
  <2>3. QED
    BY <2>1, <2>2, FS_Injection DEF n
<1> DEFINE order == [k \in 1 .. n |-> CHOOSE i \in P : rank[i] = k]
<1>7. \A k \in 1 .. n : order[k] \in P /\ rank[order[k]] = k
  BY <1>6 DEF Surjection
<1>8. Arranged(s, key) = [k \in 1 .. n |-> s[order[k]]]
  <2>1. DOMAIN key = P
    OBVIOUS
  <2>2. Arranged(s, key) = [k \in 1 .. n |-> s[CHOOSE i \in P : Cardinality(Upto(i)) = k]]
    BY <2>1 DEF Arranged, n, Upto
  <2>3. \A k \in 1 .. n : (CHOOSE i \in P : Cardinality(Upto(i)) = k) = order[k]
    BY <1>3
  <2> DEFINE pick(k) == CHOOSE i \in P : Cardinality(Upto(i)) = k
  <2>4. \A k \in 1 .. n : pick(k) = order[k]
    BY <2>3
  <2>5. Arranged(s, key) = [k \in 1 .. n |-> s[pick(k)]]
    BY <2>2
  <2> HIDE DEF order, pick
  <2>6. QED
    BY <2>4, <2>5
<1> HIDE DEF order
<1>9. \A i \in P : rank[i] \in 1 .. n /\ order[rank[i]] = i
  BY <1>3, <1>5, <1>7
<1>10. order \in [1 .. n -> P]
  BY <1>7 DEF order
<1>11. \A k, l \in 1 .. n : order[k] = order[l] => k = l
  BY <1>7
<1> DEFINE t == Arranged(s, key)
<1>12. t = [k \in 1 .. n |-> s[order[k]]]
  BY <1>8
<1> HIDE DEF t
<1>13. t \in Seq(S) /\ Len(t) = n
  <2>1. \A k \in 1 .. n : s[order[k]] \in S
    BY <1>0, <1>10
  <2>2. QED
    BY <1>1, <1>12, <2>1
<1>14. Chosen(t, s, P)
  <2>1. /\ order \in [1 .. Len(t) -> P]
        /\ \A k \in 1 .. Len(t) : t[k] = s[order[k]]
        /\ \A i \in P : \E k \in 1 .. Len(t) : order[k] = i
        /\ \A k, l \in 1 .. Len(t) : order[k] = order[l] => k = l
    BY <1>9, <1>10, <1>11, <1>12, <1>13
  <2>2. QED
    BY <2>1, Zenon DEF Chosen
<1>15. Ranked(t, s, key)
  <2>1. DOMAIN key = P /\ \A i \in P : RankIn(key, i) = rank[i]
    BY <1>3 DEF RankIn, Upto
  <2>2. order \in [1 .. Len(t) -> P] /\ \A k \in 1 .. Len(t) : t[k] = s[order[k]]
    BY <1>10, <1>12, <1>13
  <2>3. \A k \in 1 .. Len(t) : order[k] \in P /\ rank[order[k]] = k
    BY <1>7, <1>13
  <2>4. \A i \in P : rank[i] \in 1 .. Len(t) /\ order[rank[i]] = i
    BY <1>9, <1>13
  <2>5. /\ order \in [1 .. Len(t) -> DOMAIN key]
        /\ \A k \in 1 .. Len(t) : t[k] = s[order[k]] /\ RankIn(key, order[k]) = k
        /\ \A i \in DOMAIN key : RankIn(key, i) \in 1 .. Len(t) /\ order[RankIn(key, i)] = i
    <3>1. order \in [1 .. Len(t) -> DOMAIN key]
      BY <2>1, <2>2
    <3>2. \A k \in 1 .. Len(t) : t[k] = s[order[k]] /\ RankIn(key, order[k]) = k
      <4>1. TAKE k \in 1 .. Len(t)
      <4>2. order[k] \in P /\ rank[order[k]] = k
        BY <2>3
      <4>3. QED
        BY <2>1, <2>2, <4>2
    <3>3. \A i \in P : RankIn(key, i) \in 1 .. Len(t) /\ order[RankIn(key, i)] = i
      BY <2>1, <2>4
    <3>4. QED
      BY <2>1, <3>1, <3>2, <3>3
  <2>6. QED
    BY <2>5, Zenon DEF Ranked
<1>16. QED
  BY <1>13, <1>14, <1>15 DEF n, t

\* The ids of the examples are all different.
Unique(rows) == \A i, j \in DOMAIN rows : rows[i].id = rows[j].id => i = j

\* FlattenSeq, as far as the i-th sequence, is one concatenation more than before.
LEMMA FlattenSteps ==
    ASSUME NEW S, NEW ss \in Seq(Seq(S)), ss # <<>>
    PROVE  \E f : /\ DOMAIN f = 1 .. Len(ss)
                  /\ f[1] = ss[1]
                  /\ \A i \in 2 .. Len(ss) : f[i] = f[i - 1] \o ss[i]
                  /\ FlattenSeq(ss) = f[Len(ss)]
<1> DEFINE n == Len(ss)
           step(f, m) == [i \in 1 .. m |-> IF i = 1 THEN ss[i] ELSE f[i - 1] \o ss[i]]
           T == {k \in 1 .. n : \E f : f = step(f, k)}
           flatten == CHOOSE f : f = step(f, n)
<1>1. n \in Nat /\ n > 0
  BY EmptySeq, LenProperties
<1>2. 1 \in T
  <2> DEFINE f == [i \in 1 .. 1 |-> ss[1]]
  <2>1. f = step(f, 1)
    OBVIOUS
  <2> HIDE DEF f, step
  <2>2. QED
    BY <1>1, <2>1
<1>3. ASSUME NEW k \in 1 .. n - 1, k \in T PROVE k + 1 \in T
  <2>1. PICK f : f = step(f, k)
    BY <1>3
  <2> DEFINE g == [i \in 1 .. k + 1 |-> IF i = k + 1 THEN f[k] \o ss[k + 1] ELSE f[i]]
  <2>2. \A i \in 1 .. k : f[i] = IF i = 1 THEN ss[i] ELSE f[i - 1] \o ss[i]
    BY <2>1
  <2>3. \A i \in 1 .. k + 1 : g[i] = IF i = 1 THEN ss[i] ELSE g[i - 1] \o ss[i]
    <3>1. k \in Nat /\ k >= 1
      BY <1>1
    <3>2. ASSUME NEW i \in 1 .. k PROVE g[i] = IF i = 1 THEN ss[i] ELSE g[i - 1] \o ss[i]
      <4>1. g[i] = f[i] /\ (i # 1 => g[i - 1] = f[i - 1])
        BY <3>1
      <4>2. QED
        BY <2>2, <4>1
    <3>3. g[k + 1] = g[(k + 1) - 1] \o ss[k + 1] /\ k + 1 # 1
      <4>1. (k + 1) - 1 = k /\ k \in 1 .. k + 1 /\ k + 1 \in 1 .. k + 1 /\ k # k + 1
        BY <3>1
      <4>2. g[k + 1] = f[k] \o ss[k + 1] /\ g[k] = f[k]
        BY <4>1
      <4> HIDE DEF g
      <4>3. g[(k + 1) - 1] = g[k] /\ k + 1 # 1
        BY <3>1, <4>1
      <4>4. QED
        BY <4>2, <4>3
    <3> HIDE DEF g
    <3>4. \A i \in 1 .. k + 1 : i \in 1 .. k \/ i = k + 1
      BY <3>1
    <3>5. QED
      BY <3>2, <3>3, <3>4
  <2>4. g = [i \in 1 .. k + 1 |-> g[i]]
    OBVIOUS
  <2> HIDE DEF g
  <2>5. g = step(g, k + 1)
    BY <2>3, <2>4
  <2> HIDE DEF step
  <2>6. QED
    BY <1>1, <2>5
<1>4. n \in T
  <2>0. n \in 1 .. n
    BY <1>1
  <2> HIDE DEF T, n
  <2>1. QED
    BY <1>1, <1>2, <1>3, <2>0, CountingUp
<1>5. flatten = step(flatten, n)
  BY <1>4
<1>6. FlattenSeq(ss) = flatten[n]
  BY <1>1 DEF FlattenSeq
<1> HIDE DEF flatten
<1>7. /\ DOMAIN flatten = 1 .. n
      /\ \A i \in 1 .. n : flatten[i] = IF i = 1 THEN ss[i] ELSE flatten[i - 1] \o ss[i]
  BY <1>5
<1>8. flatten[1] = ss[1] /\ \A i \in 2 .. n : flatten[i] = flatten[i - 1] \o ss[i]
  <2> HIDE DEF n
  <2>1. 1 \in 1 .. n /\ \A i \in 2 .. n : i \in 1 .. n /\ i # 1
    BY <1>1
  <2>2. QED
    BY <1>7, <2>1
<1>9. QED
  BY <1>6, <1>7, <1>8

\* What FlattenSeq makes: a sequence of what the sequences hold, of different ids if those
\* are different within and between them.
LEMMA FlattenFacts ==
    ASSUME NEW S, NEW ss \in Seq(Seq(S))
    PROVE  /\ FlattenSeq(ss) \in Seq(S)
           /\ \A m \in DOMAIN FlattenSeq(ss) : \E i \in DOMAIN ss : \E p \in DOMAIN ss[i] :
                 FlattenSeq(ss)[m] = ss[i][p]
           /\ (\A i, j \in DOMAIN ss : \A p \in DOMAIN ss[i], q \in DOMAIN ss[j] :
                  ss[i][p].id = ss[j][q].id => i = j /\ p = q)
              => Unique(FlattenSeq(ss))
<1>1. CASE ss = <<>>
  <2>1. FlattenSeq(ss) = <<>>
    BY <1>1 DEF FlattenSeq
  <2>2. QED
    BY <2>1 DEF Unique
<1>2. CASE ss # <<>>
  <2> DEFINE Apart == \A i, j \in DOMAIN ss : \A p \in DOMAIN ss[i], q \in DOMAIN ss[j] :
                          ss[i][p].id = ss[j][q].id => i = j /\ p = q
             n     == Len(ss)
  <2>1. PICK f : /\ DOMAIN f = 1 .. n
                 /\ f[1] = ss[1]
                 /\ \A i \in 2 .. n : f[i] = f[i - 1] \o ss[i]
                 /\ FlattenSeq(ss) = f[n]
    BY <1>2, FlattenSteps
  <2>2. n \in Nat /\ n > 0 /\ DOMAIN ss = 1 .. n /\ \A i \in 1 .. n : ss[i] \in Seq(S)
    BY <1>2, EmptySeq, LenProperties
  <2> DEFINE Within(k) == \A m \in DOMAIN f[k] : \E i \in 1 .. k : \E p \in DOMAIN ss[i] :
                             f[k][m] = ss[i][p]
             T == {k \in 1 .. n : f[k] \in Seq(S) /\ Within(k) /\ (Apart => Unique(f[k]))}
  <2>3. 1 \in T
    <3>1. Apart => Unique(f[1])
      <4>1. 1 \in DOMAIN ss /\ f[1] = ss[1]
        BY <2>1, <2>2
      <4>2. QED
        BY <4>1 DEF Unique
    <3>2. Within(1)
      BY <2>1, <2>2
    <3>3. 1 \in 1 .. n /\ f[1] \in Seq(S)
      BY <2>1, <2>2
    <3> HIDE DEF Within, Apart, n
    <3>4. QED
      BY <3>1, <3>2, <3>3
  <2>4. ASSUME NEW k \in 1 .. n - 1, k \in T PROVE k + 1 \in T
    <3>1. k + 1 \in 2 .. n /\ k \in 1 .. n /\ (k + 1) - 1 = k /\ k \in 1 .. k + 1 /\ 1 .. k \subseteq 1 .. k + 1
          /\ k + 1 \in 1 .. k + 1 /\ k + 1 \notin 1 .. k
      BY <2>2
    <3>2. f[k + 1] = f[k] \o ss[k + 1]
      BY <2>1, <3>1
    <3>3. f[k] \in Seq(S) /\ ss[k + 1] \in Seq(S)
      BY <2>2, <2>4, <3>1
    <3> DEFINE a == f[k]
               b == ss[k + 1]
    <3> HIDE DEF a, b
    <3>4. /\ a \o b \in Seq(S) /\ Len(a) \in Nat /\ Len(b) \in Nat
          /\ DOMAIN a = 1 .. Len(a) /\ DOMAIN b = 1 .. Len(b)
          /\ DOMAIN (a \o b) = 1 .. Len(a) + Len(b)
          /\ \A m \in 1 .. Len(a) + Len(b) : (a \o b)[m] = IF m <= Len(a) THEN a[m] ELSE b[m - Len(a)]
      <4>1. a \in Seq(S) /\ b \in Seq(S)
        BY <3>3 DEF a, b
      <4>2. a \o b \in Seq(S) /\ Len(a \o b) = Len(a) + Len(b)
        BY <4>1, ConcatProperties
      <4>3. /\ Len(a) \in Nat /\ Len(b) \in Nat
            /\ DOMAIN a = 1 .. Len(a) /\ DOMAIN b = 1 .. Len(b)
            /\ DOMAIN (a \o b) = 1 .. Len(a \o b)
        BY <4>1, <4>2, LenProperties
      <4>4. \A m \in 1 .. Len(a) + Len(b) : (a \o b)[m] = IF m <= Len(a) THEN a[m] ELSE b[m - Len(a)]
        BY <4>1, ConcatProperties
      <4>5. QED
        BY <4>2, <4>3, <4>4
    <3>5. \A m \in DOMAIN (a \o b) :
             \/ m \in DOMAIN a /\ (a \o b)[m] = a[m]
             \/ m - Len(a) \in DOMAIN b /\ (a \o b)[m] = b[m - Len(a)]
      BY <3>4
    <3>6. \A m \in DOMAIN a : \E i \in 1 .. k : \E p \in DOMAIN ss[i] : a[m] = ss[i][p]
      <4>1. Within(k)
        BY <2>4
      <4>2. QED
        BY <4>1 DEF a
    <3>7. \A m \in DOMAIN (a \o b) : \E i \in 1 .. k + 1 : \E p \in DOMAIN ss[i] : (a \o b)[m] = ss[i][p]
      <4>1. TAKE m \in DOMAIN (a \o b)
      <4>2. CASE m \in DOMAIN a /\ (a \o b)[m] = a[m]
        BY <3>1, <3>6, <4>2, ZenonT(40)
      <4>3. CASE m - Len(a) \in DOMAIN b /\ (a \o b)[m] = b[m - Len(a)]
        BY <3>1, <4>3 DEF b
      <4>4. QED
        BY <3>5, <4>2, <4>3
    <3>8. ASSUME Apart PROVE Unique(a \o b)
      <4>1. \A p, q \in DOMAIN b : b[p].id = b[q].id => p = q
        <5>1. k + 1 \in DOMAIN ss
          BY <2>2, <3>1
        <5>2. QED
          BY <3>8, <5>1 DEF b
      <4>2. \A p, q \in DOMAIN a : a[p].id = a[q].id => p = q
        BY <2>4, <3>8 DEF a, Unique
      <4>3. \A p \in DOMAIN a, q \in DOMAIN b : a[p].id # b[q].id
        <5>1. SUFFICES ASSUME NEW p \in DOMAIN a, NEW q \in DOMAIN b, a[p].id = b[q].id PROVE FALSE
          OBVIOUS
        <5>2. PICK i \in 1 .. k : \E r \in DOMAIN ss[i] : a[p] = ss[i][r]
          BY <3>6
        <5>3. i \in DOMAIN ss /\ k + 1 \in DOMAIN ss /\ i # k + 1
          BY <2>2, <3>1
        <5>4. QED
          BY <3>8, <5>1, <5>2, <5>3 DEF b
      <4>4. ASSUME NEW x \in DOMAIN (a \o b), NEW y \in DOMAIN (a \o b), (a \o b)[x].id = (a \o b)[y].id
            PROVE  x = y
        <5>1. x \in Nat /\ y \in Nat
          BY <3>4
        <5>2. CASE x \in DOMAIN a /\ (a \o b)[x] = a[x]
          BY <3>5, <4>2, <4>3, <4>4, <5>2
        <5>3. CASE x - Len(a) \in DOMAIN b /\ (a \o b)[x] = b[x - Len(a)]
          <6>1. y - Len(a) \in DOMAIN b /\ (a \o b)[y] = b[y - Len(a)]
            BY <3>5, <4>3, <4>4, <5>3
          <6>2. x - Len(a) = y - Len(a)
            BY <4>1, <4>4, <5>3, <6>1
          <6>3. QED
            BY <3>4, <5>1, <6>2
        <5>4. QED
          BY <3>5, <5>2, <5>3
      <4>5. QED
        BY <4>4 DEF Unique
    <3>9. f[k + 1] = a \o b
      BY <3>2 DEF a, b
    <3>10. f[k + 1] \in Seq(S)
      BY <3>4, <3>9
    <3>11. Within(k + 1)
      BY <3>7, <3>9
    <3>12. Apart => Unique(f[k + 1])
      BY <3>8, <3>9
    <3>13. k + 1 \in 1 .. n
      BY <2>2, <3>1
    <3> HIDE DEF Within, Apart, n
    <3>14. QED
      BY <3>10, <3>11, <3>12, <3>13
  <2>5. n \in T
    <3>1. n \in 1 .. n
      BY <2>2
    <3> HIDE DEF T, n
    <3>2. QED
      BY <2>2, <2>3, <2>4, <3>1, CountingUp
  <2>6. f[n] \in Seq(S) /\ Within(n) /\ (Apart => Unique(f[n]))
    <3> HIDE DEF Within, Apart
    <3>1. QED
      BY <2>5
  <2>7. DOMAIN ss = 1 .. n /\ FlattenSeq(ss) = f[n]
    BY <2>1, <2>2
  <2>8. Apart => Unique(FlattenSeq(ss))
    BY <2>6, <2>7
  <2> HIDE DEF n, Apart
  <2>9. /\ FlattenSeq(ss) \in Seq(S)
        /\ \A m \in DOMAIN FlattenSeq(ss) : \E i \in 1 .. n : \E p \in DOMAIN ss[i] :
              FlattenSeq(ss)[m] = ss[i][p]
    BY <2>6, <2>7
  <2>10. QED
    BY <2>7, <2>8, <2>9 DEF Apart
<1>3. QED
  BY <1>1, <1>2

\* What At takes from a list.
LEMMA AtFacts ==
    ASSUME NEW S, NEW s \in Seq(S), NEW P \in SUBSET (DOMAIN s)
    PROVE  /\ At(s, P) \in Seq(S)
           /\ Len(At(s, P)) = Cardinality(P)
           /\ Chosen(At(s, P), s, P)
<1> DEFINE key == [i \in P |-> i]
<1>1. P \subseteq Nat
  BY LenProperties
<1>2. key \in [P -> Nat] /\ \A i, j \in P : key[i] = key[j] => i = j
  BY <1>1
<1> HIDE DEF key
<1>3. QED
  BY <1>2, ArrangedFacts DEF At, key

\* What follows of a choice of examples or steps.
LEMMA ChosenFacts ==
    ASSUME NEW S, NEW t \in Seq(S), NEW s, NEW P, Chosen(t, s, P)
    PROVE  /\ \A k \in DOMAIN t : \E i \in P : t[k] = s[i]
           /\ \A i \in P : \E k \in DOMAIN t : t[k] = s[i]
           /\ (\A i, j \in P : s[i].id = s[j].id => i = j) => Unique(t)
           /\ (\A i, j \in P : s[i].call = s[j].call => i = j) =>
                 \A k, l \in DOMAIN t : t[k].call = t[l].call => k = l
<1>1. DOMAIN t = 1 .. Len(t)
  BY LenProperties
<1>2. PICK order \in [1 .. Len(t) -> P] :
        /\ \A k \in 1 .. Len(t) : t[k] = s[order[k]]
        /\ \A i \in P : \E k \in 1 .. Len(t) : order[k] = i
        /\ \A k, l \in 1 .. Len(t) : order[k] = order[l] => k = l
  BY DEF Chosen
<1>3. QED
  BY <1>1, <1>2 DEF Unique

\* SetToSeq lists every element once.
LEMMA SetToSeqFacts ==
    ASSUME NEW S, IsFiniteSet(S)
    PROVE  /\ SetToSeq(S) \in Seq(S)
           /\ Len(SetToSeq(S)) = Cardinality(S)
           /\ \A i, j \in DOMAIN SetToSeq(S) : SetToSeq(S)[i] = SetToSeq(S)[j] => i = j
<1> DEFINE n == Cardinality(S)
<1>1. n \in Nat /\ ExistsBijection(1 .. n, S)
  BY FS_CardinalityType
<1>2. \E f \in [1 .. n -> S] : IsInjective(f)
  BY <1>1 DEF ExistsBijection, Bijection, Injection
<1> DEFINE q == SetToSeq(S)
<1>3. q \in [1 .. n -> S] /\ IsInjective(q)
  BY <1>2 DEF SetToSeq
<1> HIDE DEF q, n
<1>4. q \in Seq(S) /\ Len(q) = n
  BY <1>1, <1>3
<1>5. \A i, j \in DOMAIN q : q[i] = q[j] => i = j
  BY <1>3 DEF IsInjective
<1>6. QED
  BY <1>4, <1>5 DEF q, n

\* A sequence over any set is a list of its own elements.
LEMMA SequenceOf ==
    ASSUME NEW S, NEW s \in Seq(S)
    PROVE  /\ Sequence(s)
           /\ Range(s) \subseteq S
           /\ Len(s) \in Nat
           /\ DOMAIN s = 1 .. Len(s)
<1>1. Len(s) \in Nat /\ DOMAIN s = 1 .. Len(s) /\ s \in [1 .. Len(s) -> S]
  BY LenProperties
<1>2. \A i \in 1 .. Len(s) : s[i] \in Range(s)
  BY <1>1 DEF Range
<1>3. s \in Seq(Range(s))
  BY <1>1, <1>2
<1>4. QED
  BY <1>1, <1>3 DEF Sequence, Range

\* t holds nothing that the lists ss do not hold.
PiecesOf(t, ss) == \A m \in DOMAIN t : \E i \in DOMAIN ss : \E p \in DOMAIN ss[i] : t[m] = ss[i][p]

\* The ids are different within the lists and between them.
Apart(ss) ==
    \A i, j \in DOMAIN ss : \A p \in DOMAIN ss[i], q \in DOMAIN ss[j] :
        ss[i][p].id = ss[j][q].id => i = j /\ p = q

\* FlattenSeq of lists, whatever they hold.
LEMMA FlattenLists ==
    ASSUME NEW n \in Nat, NEW ss, ss = [i \in 1 .. n |-> ss[i]], \A i \in 1 .. n : Sequence(ss[i])
    PROVE  /\ Sequence(FlattenSeq(ss))
           /\ PiecesOf(FlattenSeq(ss), ss)
           /\ Apart(ss) => Unique(FlattenSeq(ss))
<1> DEFINE S == UNION {Range(ss[i]) : i \in 1 .. n}
<1>1. \A i \in 1 .. n : ss[i] \in Seq(S)
  <2>1. ASSUME NEW i \in 1 .. n PROVE ss[i] \in Seq(S)
    <3>1. ss[i] \in Seq(Range(ss[i])) /\ Range(ss[i]) \subseteq S
      BY DEF Sequence
    <3> HIDE DEF S
    <3>2. QED
      BY <3>1, SeqMonotonic
  <2> HIDE DEF S
  <2>2. QED
    BY <2>1
<1> HIDE DEF S
<1>2. ss \in Seq(Seq(S)) /\ DOMAIN ss = 1 .. n
  BY <1>1
<1>3. FlattenSeq(ss) \in Seq(S)
  BY <1>2, FlattenFacts
<1>4. \A m \in DOMAIN FlattenSeq(ss) : \E i \in DOMAIN ss : \E p \in DOMAIN ss[i] :
         FlattenSeq(ss)[m] = ss[i][p]
  BY <1>2, FlattenFacts
<1>5. (\A i, j \in DOMAIN ss : \A p \in DOMAIN ss[i], q \in DOMAIN ss[j] :
         ss[i][p].id = ss[j][q].id => i = j /\ p = q) => Unique(FlattenSeq(ss))
  BY <1>2, FlattenFacts
<1>6. Sequence(FlattenSeq(ss))
  BY <1>3, SequenceOf
<1>7. QED
  BY <1>4, <1>5, <1>6 DEF PiecesOf, Apart

\* The elements of a list at some of its positions.
LEMMA AtList ==
    ASSUME NEW s, Sequence(s), NEW P \in SUBSET (DOMAIN s)
    PROVE  /\ Sequence(At(s, P)) /\ Len(At(s, P)) = Cardinality(P)
           /\ \A k \in DOMAIN At(s, P) : \E i \in P : At(s, P)[k] = s[i]
           /\ \A i \in P : \E k \in DOMAIN At(s, P) : At(s, P)[k] = s[i]
           /\ (\A i, j \in P : s[i].id = s[j].id => i = j) => Unique(At(s, P))
           /\ (\A i, j \in P : s[i].call = s[j].call => i = j) =>
                 \A k, l \in DOMAIN At(s, P) : At(s, P)[k].call = At(s, P)[l].call => k = l
<1>1. At(s, P) \in Seq(Range(s)) /\ Len(At(s, P)) = Cardinality(P) /\ Chosen(At(s, P), s, P)
  BY AtFacts DEF Sequence
<1>2. Sequence(At(s, P))
  BY <1>1, SequenceOf
<1> DEFINE t == At(s, P)
<1>3. t \in Seq(Range(s)) /\ Chosen(t, s, P)
  BY <1>1
<1> HIDE DEF t
<1>4. \A k \in DOMAIN t : \E i \in P : t[k] = s[i]
  BY <1>3, ChosenFacts
<1>5. \A i \in P : \E k \in DOMAIN t : t[k] = s[i]
  BY <1>3, ChosenFacts
<1>6. (\A i, j \in P : s[i].id = s[j].id => i = j) => Unique(t)
  BY <1>3, ChosenFacts
<1>7. (\A i, j \in P : s[i].call = s[j].call => i = j) =>
         \A k, l \in DOMAIN t : t[k].call = t[l].call => k = l
  BY <1>3, ChosenFacts
<1>8. QED
  BY <1>1, <1>2, <1>4, <1>5, <1>6, <1>7 DEF t

\* A function of finitely many things has finitely many values.
LEMMA FiniteRange ==
    ASSUME NEW f, IsFiniteSet(DOMAIN f), f = [i \in DOMAIN f |-> f[i]]
    PROVE  IsFiniteSet(Range(f)) /\ Cardinality(Range(f)) <= Cardinality(DOMAIN f)
<1>1. f \in Surjection(DOMAIN f, Range(f))
  BY DEF Surjection, Range
<1>2. QED
  BY <1>1, FS_Surjection

\* t holds nothing that s does not hold.
Drawn(t, s) == \A k \in DOMAIN t : \E i \in DOMAIN s : t[k] = s[i]

\* Positions, first and last element of a list.
LEMMA ListFacts ==
    ASSUME NEW s, Sequence(s)
    PROVE  /\ Len(s) \in Nat /\ DOMAIN s = 1 .. Len(s)
           /\ s # <<>> => Len(s) > 0 /\ Last(s) = s[Len(s)] /\ Head(s) = s[1]
<1>1. s \in Seq(Range(s))
  BY DEF Sequence
<1>2. Len(s) \in Nat /\ DOMAIN s = 1 .. Len(s)
  BY <1>1, LenProperties
<1>3. s # <<>> => Len(s) \in Nat \ {0}
  BY <1>1, EmptySeq
<1>4. s # <<>> => Head(s) = s[1]
  BY <1>1
<1>5. QED
  BY <1>2, <1>3, <1>4 DEF Last

\* Two lists one after the other: where each element comes from.
LEMMA ConcatList ==
    ASSUME NEW s, Sequence(s), NEW t, Sequence(t)
    PROVE  /\ Sequence(s \o t) /\ Len(s \o t) = Len(s) + Len(t)
           /\ \A m \in DOMAIN (s \o t) :
                 \/ m \in DOMAIN s /\ (s \o t)[m] = s[m]
                 \/ m - Len(s) \in DOMAIN t /\ (s \o t)[m] = t[m - Len(s)]
<1> DEFINE S == Range(s) \cup Range(t)
           u == s \o t
<1>0. Range(s) \subseteq S /\ Range(t) \subseteq S
  OBVIOUS
<1> HIDE DEF S
<1>1. s \in Seq(S) /\ t \in Seq(S)
  BY <1>0, SeqMonotonic DEF Sequence
<1>2. /\ u \in Seq(S) /\ Len(u) = Len(s) + Len(t)
      /\ \A i \in 1 .. Len(s) + Len(t) : u[i] = IF i <= Len(s) THEN s[i] ELSE t[i - Len(s)]
  BY <1>1, ConcatProperties
<1>3. /\ Len(s) \in Nat /\ Len(t) \in Nat /\ DOMAIN s = 1 .. Len(s) /\ DOMAIN t = 1 .. Len(t)
  BY <1>1, LenProperties
<1> HIDE DEF u
<1>4. Sequence(u) /\ DOMAIN u = 1 .. Len(s) + Len(t)
  BY <1>2, SequenceOf
<1>5. \A m \in DOMAIN u : \/ m \in DOMAIN s /\ u[m] = s[m]
                          \/ m - Len(s) \in DOMAIN t /\ u[m] = t[m - Len(s)]
  BY <1>2, <1>3, <1>4
<1>6. QED
  BY <1>2, <1>4, <1>5 DEF u

\* A function on 1 .. n is a list.
LEMMA FunctionList ==
    ASSUME NEW n \in Nat, NEW f, f = [i \in 1 .. n |-> f[i]]
    PROVE  Sequence(f) /\ Len(f) = n /\ DOMAIN f = 1 .. n
<1> DEFINE S == {f[i] : i \in 1 .. n}
<1>1. \A i \in 1 .. n : f[i] \in S
  OBVIOUS
<1> HIDE DEF S
<1>2. f \in Seq(S) /\ Len(f) = n
  BY <1>1
<1>3. QED
  BY <1>2, SequenceOf

\* The beginning of a list.
LEMMA PrefixList ==
    ASSUME NEW s, Sequence(s), NEW n \in Nat, n <= Len(s)
    PROVE  /\ Sequence(SubSeq(s, 1, n)) /\ Len(SubSeq(s, 1, n)) = n
           /\ \A i \in 1 .. n : SubSeq(s, 1, n)[i] = s[i]
<1>1. s \in Seq(Range(s)) /\ Len(s) \in Nat /\ DOMAIN s = 1 .. Len(s)
  BY ListFacts DEF Sequence
<1> DEFINE t == SubSeq(s, 1, n)
<1>2. t \in Seq(Range(s)) /\ Len(t) = n /\ \A i \in 1 .. n : t[i] = s[i]
  BY <1>1, SubSeqProperties
<1> HIDE DEF t
<1>3. Sequence(t)
  BY <1>2, SequenceOf
<1>4. QED
  BY <1>2, <1>3 DEF t

\* A list backwards.
LEMMA ReverseList ==
    ASSUME NEW s, Sequence(s)
    PROVE  /\ Sequence(Reverse(s)) /\ Len(Reverse(s)) = Len(s)
           /\ \A i \in DOMAIN s : (Len(s) - i) + 1 \in DOMAIN s /\ Reverse(s)[i] = s[(Len(s) - i) + 1]
<1>1. Len(s) \in Nat /\ DOMAIN s = 1 .. Len(s)
  BY ListFacts
<1> DEFINE t == Reverse(s)
<1>2. t = [i \in 1 .. Len(s) |-> s[(Len(s) - i) + 1]]
  BY DEF Reverse
<1>3. t = [i \in 1 .. Len(s) |-> t[i]]
  BY <1>2
<1>4. \A i \in 1 .. Len(s) : t[i] = s[(Len(s) - i) + 1] /\ (Len(s) - i) + 1 \in 1 .. Len(s)
  BY <1>1, <1>2
<1> HIDE DEF t
<1>5. Sequence(t) /\ Len(t) = Len(s)
  BY <1>1, <1>3, FunctionList
<1>6. QED
  BY <1>1, <1>4, <1>5 DEF t

\* One more element.
LEMMA AppendList ==
    ASSUME NEW s, Sequence(s), NEW x
    PROVE  Sequence(Append(s, x)) /\ Len(Append(s, x)) = Len(s) + 1
<1> DEFINE S == Range(s) \cup {x}
<1>1. Range(s) \subseteq S /\ x \in S
  OBVIOUS
<1> HIDE DEF S
<1>2. s \in Seq(S)
  BY <1>1, SeqMonotonic DEF Sequence
<1>3. Append(s, x) \in Seq(S) /\ Len(Append(s, x)) = Len(s) + 1
  BY <1>1, <1>2
<1>4. QED
  BY <1>3, SequenceOf

\* Lists of no or one element.
LEMMA SmallLists ==
    /\ Sequence(<<>>) /\ DOMAIN <<>> = {}
    /\ \A x : Sequence(<<x>>) /\ DOMAIN <<x>> = {1} /\ <<x>>[1] = x
<1>1. Sequence(<<>>) /\ DOMAIN <<>> = {}
  BY EmptySeq DEF Sequence
<1>2. ASSUME NEW x PROVE Sequence(<<x>>) /\ DOMAIN <<x>> = {1} /\ <<x>>[1] = x
  <2>1. <<x>> \in Seq({x})
    OBVIOUS
  <2>2. Sequence(<<x>>)
    BY <2>1, SequenceOf
  <2>3. DOMAIN <<x>> = {1} /\ <<x>>[1] = x
    OBVIOUS
  <2>4. QED
    BY <2>2, <2>3
<1>3. QED
  BY <1>1, <1>2

\* How many positions a list has.
LEMMA DomainFacts ==
    ASSUME NEW s, Sequence(s)
    PROVE  IsFiniteSet(DOMAIN s) /\ Cardinality(DOMAIN s) = Len(s)
<1> DEFINE n == Len(s)
<1>1. n \in Nat /\ DOMAIN s = 1 .. n
  BY ListFacts
<1> HIDE DEF n
<1>2. IsFiniteSet(1 .. n) /\ Cardinality(1 .. n) = n
  BY <1>1, FS_Interval
<1>3. QED
  BY <1>1, <1>2 DEF n

----------------------------------------------------------------------------
(* What lists hold                                                         *)

\* Contains and ToSet say the same.
LEMMA ContainsIsIn ==
    ASSUME NEW s, Sequence(s), NEW x
    PROVE  Contains(s, x) <=> x \in ToSet(s)
BY ListFacts DEF Contains, ToSet

\* Only the empty list holds nothing.
LEMMA EmptyHoldsNothing ==
    ASSUME NEW s, Sequence(s)
    PROVE  s = <<>> <=> ToSet(s) = {}
<1>1. Len(s) \in Nat /\ DOMAIN s = 1 .. Len(s) /\ (s # <<>> => Len(s) > 0)
  BY ListFacts
<1>2. s # <<>> => s[1] \in ToSet(s)
  BY <1>1 DEF ToSet
<1>3. s = <<>> => ToSet(s) = {}
  BY DEF ToSet
<1>4. QED
  BY <1>2, <1>3

\* The first and the last element are elements.
LEMMA EndsAreIn ==
    ASSUME NEW s, Sequence(s), s # <<>>
    PROVE  Head(s) \in ToSet(s) /\ Last(s) \in ToSet(s)
BY ListFacts DEF ToSet

\* Two lists one after the other.
LEMMA ConcatHolds ==
    ASSUME NEW s, Sequence(s), NEW t, Sequence(t)
    PROVE  /\ Sequence(s \o t)
           /\ ToSet(s \o t) = ToSet(s) \cup ToSet(t)
           /\ s # <<>> => Head(s \o t) = Head(s)
<1> DEFINE S == Range(s) \cup Range(t)
           u == s \o t
<1>0. Range(s) \subseteq S /\ Range(t) \subseteq S
  OBVIOUS
<1> HIDE DEF S
<1>1. s \in Seq(S) /\ t \in Seq(S)
  BY <1>0, SeqMonotonic DEF Sequence
<1>2. /\ u \in Seq(S) /\ Len(u) = Len(s) + Len(t)
      /\ \A i \in 1 .. Len(s) + Len(t) : u[i] = IF i <= Len(s) THEN s[i] ELSE t[i - Len(s)]
  BY <1>1, ConcatProperties
<1>3. /\ Len(s) \in Nat /\ Len(t) \in Nat /\ DOMAIN s = 1 .. Len(s) /\ DOMAIN t = 1 .. Len(t)
  BY <1>1, LenProperties
<1> HIDE DEF u
<1>4. Sequence(u) /\ DOMAIN u = 1 .. Len(s) + Len(t)
  BY <1>2, SequenceOf
<1>5. ASSUME NEW x \in ToSet(s) PROVE x \in ToSet(u)
  <2>1. PICK i \in 1 .. Len(s) : x = s[i]
    BY <1>3 DEF ToSet
  <2>2. i \in DOMAIN u /\ u[i] = x
    BY <1>2, <1>3, <1>4, <2>1
  <2>3. QED
    BY <2>2 DEF ToSet
<1>6. ASSUME NEW x \in ToSet(t) PROVE x \in ToSet(u)
  <2>1. PICK i \in 1 .. Len(t) : x = t[i]
    BY <1>3 DEF ToSet
  <2>2. Len(s) + i \in DOMAIN u /\ u[Len(s) + i] = x
    BY <1>2, <1>3, <1>4, <2>1
  <2>3. QED
    BY <2>2 DEF ToSet
<1>7. ASSUME NEW x \in ToSet(u) PROVE x \in ToSet(s) \cup ToSet(t)
  <2>1. PICK i \in 1 .. Len(s) + Len(t) : x = u[i]
    BY <1>4 DEF ToSet
  <2>2. CASE i <= Len(s)
    BY <1>2, <1>3, <2>1, <2>2 DEF ToSet
  <2>3. CASE i > Len(s)
    BY <1>2, <1>3, <2>1, <2>3 DEF ToSet
  <2>4. QED
    BY <1>3, <2>1, <2>2, <2>3
<1>8. ASSUME s # <<>> PROVE Head(u) = Head(s)
  <2>1. Len(s) > 0 /\ Head(s) = s[1]
    BY <1>8, ListFacts
  <2>2. u # <<>> /\ u[1] = s[1]
    BY <1>2, <1>3, <2>1, EmptySeq
  <2>3. QED
    BY <1>4, <2>1, <2>2, ListFacts
<1>9. QED
  BY <1>4, <1>5, <1>6, <1>7, <1>8 DEF u

\* What At leaves.
LEMMA AtHolds ==
    ASSUME NEW s, Sequence(s), NEW P \in SUBSET (DOMAIN s)
    PROVE  Sequence(At(s, P)) /\ ToSet(At(s, P)) = {s[i] : i \in P}
BY AtList DEF ToSet

\* Leaving repetitions out leaves nothing out.
LEMMA DistinctHolds ==
    ASSUME NEW s, Sequence(s)
    PROVE  Sequence(Distinct(s)) /\ ToSet(Distinct(s)) = ToSet(s)
<1> DEFINE P == {i \in DOMAIN s : \A j \in 1 .. i - 1 : s[j] # s[i]}
<1>1. DOMAIN s = 1 .. Len(s) /\ Len(s) \in Nat
  BY ListFacts
<1>2. Sequence(Distinct(s)) /\ ToSet(Distinct(s)) = {s[i] : i \in P}
  BY AtHolds DEF Distinct
<1>3. ASSUME NEW x \in ToSet(s) PROVE x \in {s[i] : i \in P}
  <2> DEFINE S == {i \in DOMAIN s : s[i] = x}
  <2>1. S # {} /\ S \in SUBSET Nat
    BY <1>1, <1>3 DEF ToSet
  <2>2. PICK n \in S : \A m \in S : n <= m
    BY <2>1, LeastNatural
  <2>3. n \in P
    BY <1>1, <2>2
  <2>4. QED
    BY <2>2, <2>3
<1>4. {s[i] : i \in P} \subseteq ToSet(s)
  BY DEF ToSet
<1>5. QED
  BY <1>2, <1>3, <1>4

\* The first elements: all of them, or as many as are wanted.
LEMMA FirstOfHolds ==
    ASSUME NEW s, Sequence(s), NEW n \in Nat
    PROVE  /\ Sequence(FirstOf(s, n)) /\ Len(FirstOf(s, n)) <= n
           /\ ToSet(FirstOf(s, n)) \subseteq ToSet(s)
           /\ FirstOf(s, n) = s \/ Len(FirstOf(s, n)) = n
           /\ n > 0 /\ s # <<>> => FirstOf(s, n) # <<>> /\ Head(FirstOf(s, n)) = Head(s)
<1>1. Len(s) \in Nat /\ DOMAIN s = 1 .. Len(s)
  BY ListFacts
<1> DEFINE m == IF n < Len(s) THEN n ELSE Len(s)
           t == SubSeq(s, 1, m)
<1>2. m \in Nat /\ m <= Len(s) /\ m <= n /\ (m = n \/ m = Len(s))
  BY <1>1
<1>3. n > 0 /\ Len(s) > 0 => m > 0
  BY <1>1
<1>4. FirstOf(s, n) = t
  BY DEF FirstOf
<1> HIDE DEF m
<1>5. Sequence(t) /\ Len(t) = m /\ \A i \in 1 .. m : t[i] = s[i]
  BY <1>2, PrefixList
<1> HIDE DEF t
<1>6. DOMAIN t = 1 .. m
  BY <1>5, ListFacts
<1>7. ToSet(t) \subseteq ToSet(s)
  <2>1. ASSUME NEW i \in 1 .. m PROVE i \in DOMAIN s
    <3>1. i \in Nat /\ 1 <= i /\ i <= m /\ m \in Nat /\ m <= Len(s)
      BY <1>2
    <3>2. i \in 1 .. Len(s)
      BY <1>1, <3>1
    <3>3. QED
      BY <1>1, <3>2
  <2>2. QED
    BY <1>5, <1>6, <2>1 DEF ToSet
<1>8. ASSUME m = Len(s) PROVE t = s
  <2>1. t \in Seq(Range(t) \cup Range(s)) /\ s \in Seq(Range(t) \cup Range(s))
    <3> DEFINE S == Range(t) \cup Range(s)
    <3>1. Range(t) \subseteq S /\ Range(s) \subseteq S
      OBVIOUS
    <3> HIDE DEF S
    <3>2. t \in Seq(S) /\ s \in Seq(S)
      BY <1>5, <3>1, SeqMonotonic DEF Sequence
    <3>3. QED
      BY <3>2 DEF S
  <2>2. QED
    BY <1>5, <1>8, <2>1, SeqEqual
<1>9. ASSUME n > 0, s # <<>> PROVE t # <<>> /\ Head(t) = Head(s)
  <2>1. Len(s) > 0 /\ Head(s) = s[1]
    BY <1>9, ListFacts
  <2>2. m > 0
    BY <1>3, <1>9, <2>1
  <2>3. t # <<>>
    BY <1>5, <2>2, EmptySeq
  <2>4. Head(t) = t[1] /\ t[1] = s[1]
    BY <1>2, <1>5, <2>2, <2>3, ListFacts
  <2>5. QED
    BY <2>1, <2>3, <2>4
<1>10. QED
  BY <1>2, <1>4, <1>5, <1>7, <1>8, <1>9

\* FlattenSeq keeps everything.
LEMMA FlattenHolds ==
    ASSUME NEW n \in Nat, NEW ss, ss = [i \in 1 .. n |-> ss[i]], \A i \in 1 .. n : Sequence(ss[i])
    PROVE  /\ Sequence(FlattenSeq(ss))
           /\ ToSet(FlattenSeq(ss)) = UNION {ToSet(ss[i]) : i \in 1 .. n}
<1> DEFINE S == UNION {Range(ss[i]) : i \in 1 .. n}
           whole == FlattenSeq(ss)
<1>1. Sequence(whole) /\ PiecesOf(whole, ss)
  BY FlattenLists
<1>2. ToSet(whole) \subseteq UNION {ToSet(ss[i]) : i \in 1 .. n}
  BY <1>1 DEF ToSet, PiecesOf
<1>3. ASSUME NEW j \in 1 .. n PROVE ToSet(ss[j]) \subseteq ToSet(whole)
  <2>1. \A i \in 1 .. n : ss[i] \in Seq(S)
    <3>1. ASSUME NEW i \in 1 .. n PROVE ss[i] \in Seq(S)
      <4>1. ss[i] \in Seq(Range(ss[i])) /\ Range(ss[i]) \subseteq S
        BY DEF Sequence
      <4> HIDE DEF S
      <4>2. QED
        BY <4>1, SeqMonotonic
    <3> HIDE DEF S
    <3>2. QED
      BY <3>1
  <2> HIDE DEF S, whole
  <2>2. ss \in Seq(Seq(S)) /\ Len(ss) = n /\ ss # <<>>
    <3> DEFINE T == Seq(S)
    <3>1. \A i \in 1 .. n : ss[i] \in T
      BY <2>1
    <3> HIDE DEF T
    <3>2. ss \in [1 .. n -> T]
      BY <3>1
    <3>3. ss \in Seq(T) /\ Len(ss) = n
      BY <3>2
    <3>4. n > 0
      OBVIOUS
    <3>5. ss # <<>>
      BY <3>3, <3>4, EmptySeq
    <3>6. QED
      BY <3>3, <3>5 DEF T
  <2>a. PICK f : /\ DOMAIN f = 1 .. Len(ss)
                 /\ f[1] = ss[1]
                 /\ \A i \in 2 .. Len(ss) : f[i] = f[i - 1] \o ss[i]
                 /\ FlattenSeq(ss) = f[Len(ss)]
    BY <2>2, FlattenSteps
  <2>3. /\ DOMAIN f = 1 .. n /\ f[1] = ss[1] /\ f[n] = whole
        /\ \A i \in 2 .. n : f[i] = f[i - 1] \o ss[i]
    BY <2>2, <2>a DEF whole
  <2> DEFINE T == {k \in 1 .. n : /\ Sequence(f[k])
                                 /\ \A i \in 1 .. k : ToSet(ss[i]) \subseteq ToSet(f[k])}
  <2>4. 1 \in T
    BY <2>3
  <2>5. ASSUME NEW k \in 1 .. n - 1, k \in T PROVE k + 1 \in T
    <3>1. k + 1 \in 2 .. n /\ k \in 1 .. n /\ (k + 1) - 1 = k
      OBVIOUS
    <3>a. k + 1 \in 1 .. n
      OBVIOUS
    <3>b. Sequence(ss[k + 1])
      BY <3>a
    <3>c. Sequence(f[k])
      BY <2>5
    <3>d. f[k + 1] = f[(k + 1) - 1] \o ss[k + 1]
      BY <2>3, <3>1
    <3>2. f[k + 1] = f[k] \o ss[k + 1] /\ Sequence(f[k]) /\ Sequence(ss[k + 1])
      BY <3>1, <3>b, <3>c, <3>d
    <3>3. /\ Sequence(f[k + 1]) /\ ToSet(f[k]) \subseteq ToSet(f[k + 1])
          /\ ToSet(ss[k + 1]) \subseteq ToSet(f[k + 1])
      BY <3>2, ConcatHolds
    <3>4. \A i \in 1 .. k + 1 : i \in 1 .. k \/ i = k + 1
      OBVIOUS
    <3>5. \A i \in 1 .. k + 1 : ToSet(ss[i]) \subseteq ToSet(f[k + 1])
      BY <2>5, <3>3, <3>4
    <3>6. k + 1 \in 1 .. n
      BY <3>1
    <3>7. QED
      BY <3>3, <3>5, <3>6
  <2>6. n \in 1 .. n /\ j \in 1 .. n
    OBVIOUS
  <2>7. n \in T
    <3> HIDE DEF T
    <3>1. QED
      BY <2>4, <2>5, <2>6, CountingUp
  <2>8. QED
    BY <2>3, <2>6, <2>7
<1>4. UNION {ToSet(ss[i]) : i \in 1 .. n} \subseteq ToSet(whole)
  <2> HIDE DEF whole
  <2>1. QED
    BY <1>3
<1>5. QED
  BY <1>1, <1>2, <1>4

\* A bounded set of naturals that is not empty has a greatest element.
LEMMA GreatestNatural ==
    ASSUME NEW n \in Nat, NEW S \in SUBSET (0 .. n), S # {}
    PROVE  \E k \in S : \A m \in S : m <= k
<1> DEFINE T == {n - k : k \in S}
<1>1. T \in SUBSET Nat /\ T # {}
  <2>1. \A k \in S : n - k \in Nat
    OBVIOUS
  <2>2. QED
    BY <2>1
<1>2. PICK l \in T : \A m \in T : l <= m
  BY <1>1, LeastNatural
<1>3. PICK k \in S : l = n - k
  BY <1>2
<1>4. \A m \in S : n - k <= n - m
  BY <1>2, <1>3
<1>5. \A m \in S : m <= k
  BY <1>4
<1>6. QED
  BY <1>5

----------------------------------------------------------------------------
(* Positions and slices                                                    *)

\* How many numbers after x, as far as y, are in P.
Tally(P, x, y) == Cardinality({i \in x + 1 .. y : i \in P})

\* A tally of none, of one and of any number.
LEMMA TallyFacts ==
    ASSUME NEW P, NEW x \in Nat, NEW y \in Nat, x <= y
    PROVE  /\ IsFiniteSet({i \in x + 1 .. y : i \in P})
           /\ Tally(P, x, y) \in Nat /\ Tally(P, x, y) <= y - x
           /\ x = y => Tally(P, x, y) = 0
           /\ x + 1 = y => Tally(P, x, y) = IF y \in P THEN 1 ELSE 0
<1> DEFINE T == {i \in x + 1 .. y : i \in P}
<1>1. IsFiniteSet(x + 1 .. y) /\ Cardinality(x + 1 .. y) = y - x /\ T \in SUBSET (x + 1 .. y)
  <2>1. x + 1 \in Int /\ y \in Int /\ (IF x + 1 > y THEN 0 ELSE (y - (x + 1)) + 1) = y - x
    OBVIOUS
  <2>2. QED
    BY <2>1, FS_Interval
<1>2. x = y => T = {}
  OBVIOUS
<1>3. x + 1 = y => T = IF y \in P THEN {y} ELSE {}
  OBVIOUS
<1> HIDE DEF T
<1>4. IsFiniteSet(T) /\ Cardinality(T) \in Nat /\ Cardinality(T) <= y - x
  BY <1>1, FS_Subset, FS_CardinalityType
<1>5. x = y => Cardinality(T) = 0
  BY <1>2, FS_EmptySet
<1>6. x + 1 = y => Cardinality(T) = IF y \in P THEN 1 ELSE 0
  BY <1>3, FS_EmptySet, FS_Singleton
<1>7. QED
  BY <1>4, <1>5, <1>6 DEF T, Tally

\* A tally is made of tallies.
LEMMA TallySplit ==
    ASSUME NEW P, NEW x \in Nat, NEW y \in Nat, NEW z \in Nat, x <= y, y <= z
    PROVE  /\ Tally(P, x, z) = Tally(P, x, y) + Tally(P, y, z)
           /\ Tally(P, x, y) \in Nat /\ Tally(P, y, z) \in Nat
<1> DEFINE A == {i \in x + 1 .. y : i \in P}
           B == {i \in y + 1 .. z : i \in P}
<1>1. {i \in x + 1 .. z : i \in P} = A \cup B /\ A \cap B = {}
  OBVIOUS
<1>2. IsFiniteSet(A) /\ IsFiniteSet(B)
  BY TallyFacts
<1> HIDE DEF A, B
<1>3. Cardinality(A \cup B) = Cardinality(A) + Cardinality(B) - Cardinality(A \cap B)
  BY <1>2, FS_Union
<1>4. Cardinality(A) \in Nat /\ Cardinality(B) \in Nat /\ Cardinality(A \cap B) = 0
  BY <1>1, <1>2, FS_CardinalityType, FS_EmptySet
<1>5. Cardinality(A \cup B) = Cardinality(A) + Cardinality(B)
  BY <1>3, <1>4
<1>6. QED
  BY <1>1, <1>4, <1>5 DEF Tally, A, B

\* The number after x, when it is in P.
LEMMA TallyNext ==
    ASSUME NEW P, NEW x \in Nat, x + 1 \in P
    PROVE  /\ Tally(P, x, x + 1) = 1
           /\ Tally(P, 0, x) \in Nat /\ Tally(P, 0, x + 1) = Tally(P, 0, x) + 1
<1>1. PICK y : y = x + 1
  OBVIOUS
<1>2. 0 \in Nat /\ y \in Nat /\ 0 <= x /\ x <= y /\ x + 1 = y /\ y \in P
  BY <1>1
<1>3. Tally(P, x, y) = 1
  BY <1>2, TallyFacts
<1>4. Tally(P, 0, y) = Tally(P, 0, x) + Tally(P, x, y) /\ Tally(P, 0, x) \in Nat
  BY <1>2, TallySplit
<1>5. QED
  BY <1>1, <1>3, <1>4

\* From x to x2, P is what Q is from y to y2.
Alike(P, x, x2, Q, y, y2) ==
    /\ x \in Nat /\ x2 \in Nat /\ y \in Nat /\ y2 \in Nat /\ x <= x2 /\ x2 - x = y2 - y
    /\ \A i \in 1 .. x2 - x : x + i \in P <=> y + i \in Q

\* What looks the same counts the same.
LEMMA TallySame ==
    ASSUME NEW P, NEW x, NEW x2, NEW Q, NEW y, NEW y2, Alike(P, x, x2, Q, y, y2)
    PROVE  Tally(P, x, x2) = Tally(Q, y, y2)
<1> DEFINE A == {i \in x + 1 .. x2 : i \in P}
           B == {i \in y + 1 .. y2 : i \in Q}
           f == [i \in A |-> y + (i - x)]
<1>0. /\ x \in Nat /\ x2 \in Nat /\ y \in Nat /\ y2 \in Nat
      /\ x <= x2 /\ y <= y2 /\ x2 - x = y2 - y
      /\ \A i \in 1 .. x2 - x : x + i \in P <=> y + i \in Q
  BY DEF Alike
<1>1. \A i \in A : y + (i - x) \in B
  <2>1. TAKE i \in A
  <2>2. i - x \in 1 .. x2 - x /\ x + (i - x) = i /\ y + (i - x) \in y + 1 .. y2
    BY <1>0
  <2>3. x + (i - x) \in P
    BY <2>2
  <2>4. y + (i - x) \in Q
    BY <1>0, <2>2, <2>3
  <2>5. QED
    BY <2>2, <2>4
<1>2. \A k \in B : x + (k - y) \in A /\ y + ((x + (k - y)) - x) = k
  <2>1. TAKE k \in B
  <2>2. k - y \in 1 .. x2 - x /\ y + (k - y) = k /\ x + (k - y) \in x + 1 .. x2
        /\ y + ((x + (k - y)) - x) = k
    BY <1>0
  <2>3. y + (k - y) \in Q
    BY <2>2
  <2>4. x + (k - y) \in P
    BY <1>0, <2>2, <2>3
  <2>5. QED
    BY <2>2, <2>4
<1>3. \A i, j \in A : y + (i - x) = y + (j - x) => i = j
  BY <1>0
<1>4. IsFiniteSet(A)
  BY <1>0, TallyFacts
<1> HIDE DEF A, B
<1>5. f \in Bijection(A, B)
  <2>1. f \in [A -> B] /\ \A i, j \in A : f[i] = f[j] => i = j
    BY <1>1, <1>3
  <2>2. \A k \in B : \E i \in A : f[i] = k
    BY <1>2
  <2>3. QED
    BY <2>1, <2>2 DEF Bijection, Injection, Surjection, IsInjective
<1>6. ExistsBijection(A, B)
  BY <1>5 DEF ExistsBijection
<1>7. QED
  BY <1>4, <1>6, FS_Bijection DEF Tally, A, B

\* The positions of P in their order.
InPlace(order, P, m) ==
    /\ order \in [1 .. m -> P]
    /\ \A k \in 1 .. m : Tally(P, 0, order[k]) = k
    /\ \A i \in P : Tally(P, 0, i) \in 1 .. m /\ order[Tally(P, 0, i)] = i
    /\ \A j, k \in 1 .. m : j < k => order[j] < order[k]

LEMMA AtPlaces ==
    ASSUME NEW n \in Nat, NEW s, Sequence(s), DOMAIN s = 1 .. n, NEW P \in SUBSET (1 .. n)
    PROVE  /\ Sequence(At(s, P)) /\ Len(At(s, P)) \in Nat
           /\ Len(At(s, P)) = Tally(P, 0, n)
           /\ \E order : /\ InPlace(order, P, Len(At(s, P)))
                         /\ \A k \in 1 .. Len(At(s, P)) : At(s, P)[k] = s[order[k]]
<1> DEFINE t   == At(s, P)
           m   == Len(t)
           key == [i \in P |-> i]
<1>1. P \in SUBSET (DOMAIN s) /\ P \subseteq Nat /\ \A j \in P : j \in Nat /\ 1 <= j /\ j <= n
  OBVIOUS
<1>2. Sequence(t) /\ m = Cardinality(P) /\ m \in Nat
  BY <1>1, AtList, ListFacts
<1>3. Ranked(t, s, key)
  <2>1. s \in Seq(Range(s))
    BY DEF Sequence
  <2>2. key \in [P -> Nat] /\ \A i, j \in P : key[i] = key[j] => i = j
    BY <1>1
  <2> HIDE DEF key
  <2>3. QED
    BY <1>1, <2>1, <2>2, ArrangedFacts DEF At, key
<1>4. \A i \in P : RankIn(key, i) = Tally(P, 0, i)
  <2>1. TAKE i \in P
  <2>2. \A j \in P : j <= i <=> j \in 0 + 1 .. i
    BY <1>1
  <2>3. {j \in DOMAIN key : key[j] <= key[i]} = {j \in P : j <= i}
    OBVIOUS
  <2>4. {j \in P : j <= i} = {j \in 0 + 1 .. i : j \in P}
    BY <2>2
  <2>5. QED
    BY <2>3, <2>4 DEF RankIn, Tally
<1>5. m = Tally(P, 0, n)
  <2>1. \A j \in P : j \in 0 + 1 .. n
    BY <1>1
  <2>2. P = {j \in 0 + 1 .. n : j \in P}
    BY <2>1
  <2>3. QED
    BY <1>2, <2>2 DEF Tally
<1>6. PICK order \in [1 .. m -> DOMAIN key] :
        /\ \A k \in 1 .. m : t[k] = s[order[k]] /\ RankIn(key, order[k]) = k
        /\ \A i \in DOMAIN key : RankIn(key, i) \in 1 .. m /\ order[RankIn(key, i)] = i
  BY <1>3 DEF Ranked
<1>7. DOMAIN key = P
  OBVIOUS
<1> HIDE DEF key, t, m
<1>8. /\ order \in [1 .. m -> P]
      /\ \A k \in 1 .. m : t[k] = s[order[k]] /\ order[k] \in P /\ Tally(P, 0, order[k]) = k
      /\ \A i \in P : Tally(P, 0, i) \in 1 .. m /\ order[Tally(P, 0, i)] = i
  BY <1>4, <1>6, <1>7
<1>9. ASSUME NEW j \in 1 .. m, NEW k \in 1 .. m, j < k, ~(order[j] < order[k])
      PROVE  FALSE
  <2>1. /\ order[j] \in Nat /\ order[k] \in Nat
        /\ Tally(P, 0, order[j]) = j /\ Tally(P, 0, order[k]) = k
    BY <1>1, <1>8
  <2>2. order[k] <= order[j] /\ 0 <= order[k] /\ 0 \in Nat
    BY <1>9, <2>1
  <2>3. /\ Tally(P, 0, order[j]) = Tally(P, 0, order[k]) + Tally(P, order[k], order[j])
        /\ Tally(P, order[k], order[j]) \in Nat
    BY <2>1, <2>2, TallySplit
  <2>4. QED
    BY <1>2, <1>9, <2>1, <2>3
<1>10. InPlace(order, P, m)
  BY <1>8, <1>9 DEF InPlace
<1>11. QED
  BY <1>2, <1>5, <1>8, <1>10, Zenon DEF t, m

\* What stands in s after x, as far as y.
Slice(s, x, y) == SubSeq(s, x + 1, y)

LEMMA SliceList ==
    ASSUME NEW s, Sequence(s), NEW x \in Nat, NEW y \in Nat, x <= y, y <= Len(s)
    PROVE  /\ Sequence(Slice(s, x, y)) /\ Len(Slice(s, x, y)) = y - x
           /\ \A i \in 1 .. y - x : Slice(s, x, y)[i] = s[x + i]
<1> DEFINE S == Range(s)
           t == SubSeq(s, x + 1, y)
<1>1. s \in Seq(S) /\ DOMAIN s = 1 .. Len(s) /\ Len(s) \in Nat
  BY ListFacts DEF Sequence
<1>2. \A i \in x + 1 .. y : s[i] \in S
  BY <1>1
<1> HIDE DEF S
<1>3. x + 1 \in Int /\ y \in Int
  OBVIOUS
<1>4. /\ t \in Seq(S) /\ Len(t) = IF x + 1 <= y THEN y - (x + 1) + 1 ELSE 0
      /\ \A i \in 1 .. y - (x + 1) + 1 : t[i] = s[(x + 1) + i - 1]
  BY <1>2, <1>3, SubSeqProperties
<1>5. Sequence(t)
  BY <1>4, SequenceOf
<1> HIDE DEF t
<1>6. Len(t) = y - x
  BY <1>4
<1>7. ASSUME NEW i \in 1 .. y - x PROVE t[i] = s[x + i]
  <2>1. i \in 1 .. y - (x + 1) + 1 /\ (x + 1) + i - 1 = x + i
    OBVIOUS
  <2>2. QED
    BY <1>4, <2>1
<1>8. QED
  BY <1>5, <1>6, <1>7 DEF t, Slice

\* Lists that hold the same in the same places are the same.
LEMMA SameList ==
    ASSUME NEW s, Sequence(s), NEW t, Sequence(t), Len(s) = Len(t),
           \A i \in 1 .. Len(s) : s[i] = t[i]
    PROVE  s = t
<1> DEFINE S == Range(s) \cup Range(t)
<1>1. s \in Seq(Range(s)) /\ t \in Seq(Range(t)) /\ Range(s) \subseteq S /\ Range(t) \subseteq S
  BY DEF Sequence
<1> HIDE DEF S
<1>2. s \in Seq(S) /\ t \in Seq(S)
  BY <1>1, SeqMonotonic
<1>3. QED
  BY <1>2, SeqEqual

\* Where a list put after another has its entries.
LEMMA ConcatAt ==
    ASSUME NEW s, Sequence(s), NEW t, Sequence(t)
    PROVE  /\ Sequence(s \o t) /\ Len(s \o t) = Len(s) + Len(t)
           /\ \A i \in 1 .. Len(s) : (s \o t)[i] = s[i]
           /\ \A i \in 1 .. Len(t) : (s \o t)[Len(s) + i] = t[i]
<1> DEFINE S == Range(s) \cup Range(t)
           u == s \o t
<1>1. s \in Seq(Range(s)) /\ t \in Seq(Range(t)) /\ Range(s) \subseteq S /\ Range(t) \subseteq S
  BY DEF Sequence
<1> HIDE DEF S
<1>2. s \in Seq(S) /\ t \in Seq(S) /\ Len(s) \in Nat /\ Len(t) \in Nat
  BY <1>1, SeqMonotonic, ListFacts
<1>3. /\ u \in Seq(S) /\ Len(u) = Len(s) + Len(t)
      /\ \A i \in 1 .. Len(s) + Len(t) : u[i] = IF i <= Len(s) THEN s[i] ELSE t[i - Len(s)]
  BY <1>2, ConcatProperties
<1>4. Sequence(u)
  BY <1>3, SequenceOf
<1> HIDE DEF u
<1>5. \A i \in 1 .. Len(s) : u[i] = s[i]
  BY <1>2, <1>3
<1>6. ASSUME NEW i \in 1 .. Len(t) PROVE u[Len(s) + i] = t[i]
  <2>1. Len(s) + i \in 1 .. Len(s) + Len(t) /\ ~(Len(s) + i <= Len(s)) /\ (Len(s) + i) - Len(s) = i
    BY <1>2
  <2>2. QED
    BY <1>3, <2>1
<1>7. QED
  BY <1>3, <1>4, <1>5, <1>6 DEF u

\* A slice of a list put after another.
LEMMA SliceOfConcat ==
    ASSUME NEW s, Sequence(s), NEW t, Sequence(t), NEW x \in Nat, NEW y \in Nat, x <= y
    PROVE  /\ y <= Len(s) => Slice(s \o t, x, y) = Slice(s, x, y)
           /\ y <= Len(t) => Slice(s \o t, Len(s) + x, Len(s) + y) = Slice(t, x, y)
<1> DEFINE u == s \o t
<1>1. Len(s) \in Nat /\ Len(t) \in Nat
  BY ListFacts
<1>2. /\ Sequence(u) /\ Len(u) = Len(s) + Len(t)
      /\ \A i \in 1 .. Len(s) : u[i] = s[i]
      /\ \A i \in 1 .. Len(t) : u[Len(s) + i] = t[i]
  BY ConcatAt
<1> HIDE DEF u
<1>3. ASSUME y <= Len(s) PROVE Slice(u, x, y) = Slice(s, x, y)
  <2>1. y <= Len(u)
    BY <1>1, <1>2, <1>3
  <2>2. /\ Sequence(Slice(u, x, y)) /\ Len(Slice(u, x, y)) = y - x
        /\ \A i \in 1 .. y - x : Slice(u, x, y)[i] = u[x + i]
    BY <1>2, <2>1, SliceList
  <2>3. /\ Sequence(Slice(s, x, y)) /\ Len(Slice(s, x, y)) = y - x
        /\ \A i \in 1 .. y - x : Slice(s, x, y)[i] = s[x + i]
    BY <1>3, SliceList
  <2>4. \A i \in 1 .. y - x : x + i \in 1 .. Len(s)
    BY <1>1, <1>3
  <2>5. QED
    BY <1>2, <2>2, <2>3, <2>4, SameList
<1>4. ASSUME y <= Len(t) PROVE Slice(u, Len(s) + x, Len(s) + y) = Slice(t, x, y)
  <2>1. PICK a : a = Len(s) + x
    OBVIOUS
  <2>2. PICK b : b = Len(s) + y
    OBVIOUS
  <2>3. a \in Nat /\ b \in Nat /\ a <= b /\ b <= Len(u)
    BY <1>1, <1>2, <1>4, <2>1, <2>2
  <2>8. Sequence(u) /\ b - a = y - x
    BY <1>1, <1>2, <2>1, <2>2
  <2>4. /\ Sequence(Slice(u, a, b)) /\ Len(Slice(u, a, b)) = b - a
        /\ \A i \in 1 .. b - a : Slice(u, a, b)[i] = u[a + i]
    BY <2>3, <2>8, SliceList
  <2>5. /\ Sequence(Slice(t, x, y)) /\ Len(Slice(t, x, y)) = y - x
        /\ \A i \in 1 .. y - x : Slice(t, x, y)[i] = t[x + i]
    BY <1>4, SliceList
  <2>6. ASSUME NEW i \in 1 .. y - x PROVE Slice(u, a, b)[i] = Slice(t, x, y)[i]
    <3>1. x + i \in 1 .. Len(t) /\ a + i = Len(s) + (x + i) /\ i \in 1 .. b - a
      BY <1>1, <1>4, <2>1, <2>3, <2>8
    <3>2. QED
      BY <1>2, <2>4, <2>5, <3>1
  <2>7. Slice(u, a, b) = Slice(t, x, y)
    BY <2>4, <2>5, <2>6, <2>8, SameList
  <2>9. QED
    BY <2>1, <2>2, <2>7
<1>5. QED
  BY <1>3, <1>4 DEF u

\* A list is its slices, one after the other.
LEMMA SlicesMeet ==
    ASSUME NEW s, Sequence(s), NEW x \in Nat, NEW y \in Nat, NEW z \in Nat,
           x <= y, y <= z, z <= Len(s)
    PROVE  /\ Slice(s, x, y) \o Slice(s, y, z) = Slice(s, x, z)
           /\ Slice(s, 0, Len(s)) = s
<1> DEFINE t == Slice(s, x, y)
           u == Slice(s, y, z)
           v == Slice(s, x, z)
           w == Slice(s, 0, Len(s))
<1>0. Len(s) \in Nat /\ y <= Len(s) /\ x <= z
  BY ListFacts
<1>1. Sequence(t) /\ Len(t) = y - x /\ \A i \in 1 .. y - x : t[i] = s[x + i]
  BY <1>0, SliceList
<1>2. Sequence(u) /\ Len(u) = z - y /\ \A i \in 1 .. z - y : u[i] = s[y + i]
  BY <1>0, SliceList
<1>3. Sequence(v) /\ Len(v) = z - x /\ \A i \in 1 .. z - x : v[i] = s[x + i]
  BY <1>0, SliceList
<1>4. Sequence(w) /\ Len(w) = Len(s) /\ \A i \in 1 .. Len(s) : w[i] = s[i]
  <2>1. 0 \in Nat /\ 0 <= Len(s) /\ Len(s) <= Len(s) /\ Len(s) - 0 = Len(s)
        /\ \A i \in 1 .. Len(s) : 0 + i = i
    BY <1>0
  <2>2. /\ Sequence(w) /\ Len(w) = Len(s) - 0
        /\ \A i \in 1 .. Len(s) - 0 : w[i] = s[0 + i]
    <3>1. 0 \in Nat /\ 0 <= Len(s) /\ Len(s) <= Len(s)
      BY <1>0
    <3>2. QED
      BY <1>0, <3>1, SliceList
  <2> HIDE DEF w
  <2>3. QED
    BY <2>1, <2>2
<1> HIDE DEF t, u, v, w
<1>5. /\ Sequence(t \o u) /\ Len(t \o u) = (y - x) + (z - y)
      /\ \A i \in 1 .. y - x : (t \o u)[i] = t[i]
      /\ \A i \in 1 .. z - y : (t \o u)[(y - x) + i] = u[i]
  <2>1. Sequence(t) /\ Sequence(u)
    BY <1>1, <1>2
  <2>2. /\ Sequence(t \o u) /\ Len(t \o u) = Len(t) + Len(u)
        /\ \A i \in 1 .. Len(t) : (t \o u)[i] = t[i]
        /\ \A i \in 1 .. Len(u) : (t \o u)[Len(t) + i] = u[i]
    BY <2>1, ConcatAt
  <2>3. QED
    BY <1>1, <1>2, <2>2
<1>6. ASSUME NEW i \in 1 .. z - x PROVE (t \o u)[i] = v[i]
  <2>1. CASE i <= y - x
    <3>1. i \in 1 .. y - x
      BY <2>1
    <3>2. QED
      BY <1>1, <1>3, <1>5, <3>1
  <2>2. CASE i > y - x
    <3>1. i - (y - x) \in 1 .. z - y /\ (y - x) + (i - (y - x)) = i
          /\ y + (i - (y - x)) = x + i
      BY <2>2
    <3>2. (t \o u)[i] = u[i - (y - x)]
      <4>1. PICK j \in 1 .. z - y : j = i - (y - x)
        BY <3>1
      <4>2. QED
        BY <1>5, <3>1, <4>1
    <3>3. QED
      BY <1>2, <1>3, <3>1, <3>2
  <2>3. i <= y - x \/ i > y - x
    OBVIOUS
  <2>4. QED
    BY <2>1, <2>2, <2>3, Zenon
<1>7. t \o u = v
  <2>1. Len(t \o u) = z - x
    BY <1>5
  <2>2. QED
    BY <1>3, <1>5, <1>6, <2>1, SameList
<1>8. w = s
  BY <1>4, SameList
<1>9. QED
  BY <1>7, <1>8 DEF t, u, v, w

\* The two parts of a list.
LEMMA ConcatParts ==
    ASSUME NEW s, Sequence(s), NEW t, Sequence(t)
    PROVE  /\ Slice(s \o t, 0, Len(s)) = s
           /\ Slice(s \o t, Len(s), Len(s \o t)) = t
           /\ s \o <<>> = s /\ <<>> \o t = t
<1>1. Len(s) \in Nat /\ Len(t) \in Nat /\ 0 \in Nat
  BY ListFacts
<1>2. Len(s \o t) = Len(s) + Len(t)
  BY ConcatAt
<1>3. Slice(s \o t, 0, Len(s)) = s
  <2>1. 0 <= Len(s) /\ Len(s) <= Len(s)
    BY <1>1
  <2>2. Slice(s \o t, 0, Len(s)) = Slice(s, 0, Len(s))
    BY <1>1, <2>1, SliceOfConcat
  <2>3. Slice(s, 0, Len(s)) = s
    BY <1>1, <2>1, SlicesMeet
  <2>4. QED
    BY <2>2, <2>3
<1>4. Slice(s \o t, Len(s), Len(s \o t)) = t
  <2>1. 0 <= Len(t) /\ Len(t) <= Len(t) /\ Len(s) + 0 = Len(s)
    BY <1>1
  <2>2. Slice(s \o t, Len(s) + 0, Len(s) + Len(t)) = Slice(t, 0, Len(t))
    BY <1>1, <2>1, SliceOfConcat
  <2>3. Slice(t, 0, Len(t)) = t
    BY <1>1, <2>1, SlicesMeet
  <2>4. QED
    BY <1>2, <2>1, <2>2, <2>3
<1>5. s \o <<>> = s /\ <<>> \o t = t
  <2>1. s \in Seq(Range(s)) /\ t \in Seq(Range(t))
    BY DEF Sequence
  <2>2. QED
    BY <2>1, ConcatEmptySeq
<1>6. QED
  BY <1>3, <1>4, <1>5

\* What ends a list ends what it is put after.
LEMMA LastOfConcat ==
    ASSUME NEW s, Sequence(s), NEW t, Sequence(t), t # <<>>
    PROVE  s \o t # <<>> /\ Last(s \o t) = Last(t)
<1>1. Len(s) \in Nat /\ Len(t) \in Nat /\ Len(t) > 0 /\ Last(t) = t[Len(t)]
  BY ListFacts
<1>2. /\ Sequence(s \o t) /\ Len(s \o t) = Len(s) + Len(t)
      /\ \A i \in 1 .. Len(t) : (s \o t)[Len(s) + i] = t[i]
  BY ConcatAt
<1>3. (s \o t)[Len(s) + Len(t)] = t[Len(t)]
  BY <1>1, <1>2
<1>4. s \o t # <<>>
  <2>1. Len(s \o t) > 0
    BY <1>1, <1>2
  <2>2. QED
    BY <2>1
<1>5. QED
  BY <1>1, <1>2, <1>3, <1>4, ListFacts
=============================================================================
