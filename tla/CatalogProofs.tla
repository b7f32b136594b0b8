----------------------------- MODULE CatalogProofs -----------------------------
(***************************************************************************)
(* Proofs about module Catalog, for any servers, lists, texts and needles: *)
(* sorting and the limit of the table, and what selectors mean.            *)
(***************************************************************************)
EXTENDS Catalog, FiniteSetTheorems, SequenceTheorems, WellFoundedInduction, TLAPS

LEMMA IsSequence ==
  ASSUME NEW S, NEW m \in Nat, NEW f \in [1 .. m -> S]
  PROVE  f \in Seq(S)
  OBVIOUS

-----------------------------------------------------------------------------
(* Finite sets in a strict order, which is a set of pairs.                 *)

StrictOrder(S, L) ==
  /\ \A x \in S : <<x, x>> \notin L
  /\ \A x, y, z \in S : <<x, y>> \in L /\ <<y, z>> \in L => <<x, z>> \in L
  /\ \A x, y \in S : x # y => <<x, y>> \in L \/ <<y, x>> \in L

\* Who comes later has a higher rank.
LEMMA RankGrows ==
  ASSUME NEW S, IsFiniteSet(S), NEW L, StrictOrder(S, L),
         NEW x \in S, NEW y \in S, <<x, y>> \in L
  PROVE  Rank(S, L, x) < Rank(S, L, y)
  <1> DEFINE X == {z \in S : <<z, x>> \in L}
             Y == {z \in S : <<z, y>> \in L}
  <1>1. IsFiniteSet(X) /\ IsFiniteSet(Y)
    BY FS_Subset
  <1>2. X \subseteq Y
    BY DEF StrictOrder
  <1>3. x \in Y /\ x \notin X
    BY DEF StrictOrder
  <1>4. /\ Cardinality(X) \in Nat /\ Cardinality(Y) \in Nat
        /\ Cardinality(X) <= Cardinality(Y)
        /\ Cardinality(Y) = Cardinality(X) => Y = X
    BY <1>1, <1>2, FS_Subset, FS_CardinalityType
  <1> QED
    BY <1>3, <1>4 DEF Rank

LEMMA RankType ==
  ASSUME NEW S, IsFiniteSet(S), NEW L, StrictOrder(S, L), NEW x \in S
  PROVE  Rank(S, L, x) \in 0 .. Cardinality(S) - 1
  <1> DEFINE X == {z \in S : <<z, x>> \in L}
  <1>1. X \subseteq S /\ X # S
    BY DEF StrictOrder
  <1>2. /\ Cardinality(X) \in Nat /\ Cardinality(S) \in Nat
        /\ Cardinality(X) <= Cardinality(S)
        /\ Cardinality(S) = Cardinality(X) => S = X
    BY <1>1, FS_Subset, FS_CardinalityType
  <1> QED
    BY <1>1, <1>2 DEF Rank

\* The order is that of the ranks.
LEMMA RankOrders ==
  ASSUME NEW S, IsFiniteSet(S), NEW L, StrictOrder(S, L), NEW x \in S, NEW y \in S
  PROVE  /\ <<x, y>> \in L <=> Rank(S, L, x) < Rank(S, L, y)
         /\ Rank(S, L, x) = Rank(S, L, y) => x = y
  <1>1. Rank(S, L, x) \in Int /\ Rank(S, L, y) \in Int
    BY RankType, FS_CardinalityType
  <1>2. <<x, y>> \in L => Rank(S, L, x) < Rank(S, L, y)
    BY RankGrows
  <1>3. <<y, x>> \in L => Rank(S, L, y) < Rank(S, L, x)
    BY RankGrows
  <1>4. x # y => <<x, y>> \in L \/ <<y, x>> \in L
    BY DEF StrictOrder
  <1> QED
    BY <1>1, <1>2, <1>3, <1>4

\* Every rank below the size of the set is that of an element.
LEMMA RankTaken ==
  ASSUME NEW S, IsFiniteSet(S), NEW L, StrictOrder(S, L),
         NEW i \in 1 .. Cardinality(S)
  PROVE  \E x \in S : Rank(S, L, x) = i - 1
  <1> DEFINE n == Cardinality(S)
             f == [x \in S |-> Rank(S, L, x) + 1]
  <1>1. n \in Nat
    BY FS_CardinalityType
  <1>2. \A x \in S : Rank(S, L, x) \in 0 .. n - 1
    BY RankType
  <1>3. f \in [S -> 1 .. n]
    BY <1>1, <1>2
  <1>4. ASSUME NEW x \in S, NEW y \in S, f[x] = f[y]
        PROVE  x = y
    <2>1. Rank(S, L, x) \in Int /\ Rank(S, L, y) \in Int
      BY <1>1, <1>2
    <2>2. \A p, q \in Int : p + 1 = q + 1 => p = q
      OBVIOUS
    <2>3. Rank(S, L, x) = Rank(S, L, y)
      BY <1>4, <2>1, <2>2
    <2> QED
      BY <2>3, RankOrders
  <1>5. f \in Injection(S, 1 .. n)
    <2> HIDE DEF f
    <2> QED
      BY <1>3, <1>4 DEF Injection, IsInjective
  <1>6. IsFiniteSet(1 .. n) /\ Cardinality(1 .. n) = n
    BY <1>1, FS_Interval
  <1>7. f \in Surjection(S, 1 .. n)
    <2> HIDE DEF f
    <2> QED
      BY <1>5, <1>6, FS_Injection
  <1>8. PICK x \in S : f[x] = i
    <2> HIDE DEF f
    <2> QED
      BY <1>7 DEF Surjection
  <1>9. Rank(S, L, x) + 1 = i /\ Rank(S, L, x) \in Int
    BY <1>1, <1>2, <1>8
  <1>10. Rank(S, L, x) = i - 1
    BY <1>9
  <1> QED
    BY <1>10

\* InOrder lists the members of S, each of them, in their order.
LEMMA InOrderIsInOrder ==
  ASSUME NEW S, IsFiniteSet(S), NEW L, StrictOrder(S, L)
  PROVE  /\ InOrder(S, L) \in Seq(S)
         /\ \A x \in S : \E i \in DOMAIN InOrder(S, L) : InOrder(S, L)[i] = x
         /\ \A i, j \in DOMAIN InOrder(S, L) :
              i < j <=> <<InOrder(S, L)[i], InOrder(S, L)[j]>> \in L
  <1> DEFINE n == Cardinality(S)
             e == InOrder(S, L)
  <1>1. n \in Nat
    BY FS_CardinalityType
  <1>2. DOMAIN e = 1 .. n
    BY DEF InOrder
  <1>3. ASSUME NEW i \in 1 .. n
        PROVE  e[i] \in S /\ Rank(S, L, e[i]) = i - 1
    <2>1. \E x \in S : Rank(S, L, x) = i - 1
      BY RankTaken
    <2>2. e[i] = CHOOSE x \in S : Rank(S, L, x) = i - 1
      BY DEF InOrder
    <2> HIDE DEF e
    <2> QED
      BY <2>1, <2>2
  <1>4. e \in [1 .. n -> S]
    BY <1>3 DEF InOrder
  <1>5. e \in Seq(S)
    <2> HIDE DEF e, n
    <2> QED
      BY <1>1, <1>4, IsSequence
  <1>6. ASSUME NEW x \in S
        PROVE  \E i \in DOMAIN e : e[i] = x
    <2> DEFINE i == Rank(S, L, x) + 1
    <2>1. Rank(S, L, x) \in 0 .. n - 1
      BY RankType
    <2>2. i \in 1 .. n /\ i - 1 = Rank(S, L, x)
      BY <1>1, <2>1
    <2>3. e[i] \in S /\ Rank(S, L, e[i]) = Rank(S, L, x)
      BY <1>3, <2>2
    <2> HIDE DEF e, i
    <2>4. e[i] = x
      BY <2>3, RankOrders
    <2> QED
      BY <1>2, <2>2, <2>4
  <1>7. ASSUME NEW i \in DOMAIN e, NEW j \in DOMAIN e
        PROVE  i < j <=> <<e[i], e[j]>> \in L
    <2>1. i \in 1 .. n /\ j \in 1 .. n
      BY <1>2
    <2>2. /\ e[i] \in S /\ Rank(S, L, e[i]) = i - 1
          /\ e[j] \in S /\ Rank(S, L, e[j]) = j - 1
      BY <1>3, <2>1
    <2>3. <<e[i], e[j]>> \in L <=> Rank(S, L, e[i]) < Rank(S, L, e[j])
      <3> HIDE DEF e
      <3> QED
        BY <2>2, RankOrders
    <2>4. i < j <=> i - 1 < j - 1
      BY <1>1, <2>1
    <2> HIDE DEF e
    <2> QED
      BY <2>2, <2>3, <2>4
  <1> QED
    BY <1>5, <1>6, <1>7

-----------------------------------------------------------------------------
(* Ascending.                                                              *)

LEMMA AscendingInOrder ==
  ASSUME NEW I \in SUBSET Nat, IsFiniteSet(I)
  PROVE  /\ Ascending(I) \in Seq(I)
         /\ \A i \in I : \E j \in DOMAIN Ascending(I) : Ascending(I)[j] = i
         /\ \A i, j \in DOMAIN Ascending(I) : i < j => Ascending(I)[i] < Ascending(I)[j]
  <1> DEFINE L == {p \in I \X I : p[1] < p[2]}
  <1>1. \A a, b \in I : <<a, b>> \in L <=> a < b
    OBVIOUS
  <1>2. Ascending(I) = InOrder(I, L)
    BY DEF Ascending
  <1> HIDE DEF L
  <1>3. StrictOrder(I, L)
    BY <1>1 DEF StrictOrder
  <1>4. /\ InOrder(I, L) \in Seq(I)
        /\ \A x \in I : \E i \in DOMAIN InOrder(I, L) : InOrder(I, L)[i] = x
        /\ \A i, j \in DOMAIN InOrder(I, L) :
             i < j <=> <<InOrder(I, L)[i], InOrder(I, L)[j]>> \in L
    BY <1>3, InOrderIsInOrder
  <1>5. \A i \in DOMAIN InOrder(I, L) : InOrder(I, L)[i] \in I
    BY <1>4
  <1> QED
    BY <1>1, <1>2, <1>4, <1>5

-----------------------------------------------------------------------------
(* The order of the rows.                                                  *)

\* No server has two rows.
Rows == {R \in SUBSET Row : IsFiniteSet(R) /\ \A q, r \in R : q.id = r.id => q = r}

RowOrder(R, k) == {p \in R \X R : Before(p[1], p[2], k)}

LEMMA KeyType ==
  ASSUME NEW k \in SortKeys, NEW r \in Row
  PROVE  /\ SortKey(r, k)[1] \in Nat /\ SortKey(r, k)[2] \in Nat
         /\ SortKey(r, k)[3] \in Nat /\ SortKey(r, k)[4] \in Nat
         /\ SortKey(r, k)[4] = Name[r.id]
  <1>1. r.id \in Server /\ r.load \in Nat /\ r.score \in Nat
    BY DEF Row
  <1>2. Country[r.id] \in Nat /\ City[r.id] \in Nat /\ Name[r.id] \in Nat
    BY CatalogAssumption, <1>1
  <1>3. CASE k = "country"
    BY <1>1, <1>2, <1>3 DEF SortKey
  <1>4. CASE k = "load"
    BY <1>1, <1>2, <1>4 DEF SortKey
  <1>5. CASE k = "score"
    BY <1>1, <1>2, <1>5 DEF SortKey
  <1> QED
    BY <1>3, <1>4, <1>5 DEF SortKeys

\* What Before says, key by key.
LEMMA BeforeUnfolds ==
  ASSUME NEW k \in SortKeys, NEW a \in Row, NEW b \in Row
  PROVE  LET x == SortKey(a, k)
             y == SortKey(b, k)
         IN  Before(a, b, k) <=>
               \/ x[1] < y[1]
               \/ x[1] = y[1] /\ x[2] < y[2]
               \/ x[1] = y[1] /\ x[2] = y[2] /\ x[3] < y[3]
               \/ x[1] = y[1] /\ x[2] = y[2] /\ x[3] = y[3] /\ x[4] < y[4]
  <1> DEFINE x == SortKey(a, k)
             y == SortKey(b, k)
             B(i) == x[i] < y[i] /\ \A j \in 1 .. i - 1 : x[j] = y[j]
  <1>1. Before(a, b, k) <=> \E i \in 1 .. 4 : B(i)
    BY DEF Before
  <1> HIDE DEF x, y
  <1>2. B(1) <=> x[1] < y[1]
    OBVIOUS
  <1>3. B(2) <=> x[1] = y[1] /\ x[2] < y[2]
    OBVIOUS
  <1>4. B(3) <=> x[1] = y[1] /\ x[2] = y[2] /\ x[3] < y[3]
    OBVIOUS
  <1>5. B(4) <=> x[1] = y[1] /\ x[2] = y[2] /\ x[3] = y[3] /\ x[4] < y[4]
    OBVIOUS
  <1>6. (\E i \in 1 .. 4 : B(i)) <=> B(1) \/ B(2) \/ B(3) \/ B(4)
    <2> HIDE DEF B
    <2>1. \A i \in 1 .. 4 : i = 1 \/ i = 2 \/ i = 3 \/ i = 4
      OBVIOUS
    <2>2. 1 \in 1 .. 4 /\ 2 \in 1 .. 4 /\ 3 \in 1 .. 4 /\ 4 \in 1 .. 4
      OBVIOUS
    <2> QED
      BY <2>1, <2>2
  <1> QED
    BY <1>1, <1>2, <1>3, <1>4, <1>5, <1>6 DEF x, y

\* Names are unique, so that no two rows have the same place.
LEMMA RowsInStrictOrder ==
  ASSUME NEW k \in SortKeys, NEW R \in Rows
  PROVE  StrictOrder(R, RowOrder(R, k))
  <1> DEFINE L == RowOrder(R, k)
  <1>1. R \subseteq Row
    BY DEF Rows
  <1>2. \A a, b \in R : <<a, b>> \in L <=> Before(a, b, k)
    BY DEF RowOrder
  <1> HIDE DEF L
  <1>3. ASSUME NEW a \in R
        PROVE  ~Before(a, a, k)
    <2> DEFINE x == SortKey(a, k)
    <2>1. a \in Row
      BY <1>1
    <2>2. x[1] \in Nat /\ x[2] \in Nat /\ x[3] \in Nat /\ x[4] \in Nat
      BY <2>1, KeyType
    <2>3. Before(a, a, k) <=>
            \/ x[1] < x[1]
            \/ x[1] = x[1] /\ x[2] < x[2]
            \/ x[1] = x[1] /\ x[2] = x[2] /\ x[3] < x[3]
            \/ x[1] = x[1] /\ x[2] = x[2] /\ x[3] = x[3] /\ x[4] < x[4]
      BY <2>1, BeforeUnfolds
    <2> HIDE DEF x
    <2> QED
      BY <2>2, <2>3
  <1>4. ASSUME NEW a \in R, NEW b \in R, NEW c \in R, Before(a, b, k), Before(b, c, k)
        PROVE  Before(a, c, k)
    <2> DEFINE x == SortKey(a, k)
               y == SortKey(b, k)
               z == SortKey(c, k)
    <2>1. a \in Row /\ b \in Row /\ c \in Row
      BY <1>1
    <2>2. /\ x[1] \in Nat /\ x[2] \in Nat /\ x[3] \in Nat /\ x[4] \in Nat
          /\ y[1] \in Nat /\ y[2] \in Nat /\ y[3] \in Nat /\ y[4] \in Nat
          /\ z[1] \in Nat /\ z[2] \in Nat /\ z[3] \in Nat /\ z[4] \in Nat
      BY <2>1, KeyType
    <2>3. \/ x[1] < y[1]
          \/ x[1] = y[1] /\ x[2] < y[2]
          \/ x[1] = y[1] /\ x[2] = y[2] /\ x[3] < y[3]
          \/ x[1] = y[1] /\ x[2] = y[2] /\ x[3] = y[3] /\ x[4] < y[4]
      BY <1>4, <2>1, BeforeUnfolds
    <2>4. \/ y[1] < z[1]
          \/ y[1] = z[1] /\ y[2] < z[2]
          \/ y[1] = z[1] /\ y[2] = z[2] /\ y[3] < z[3]
          \/ y[1] = z[1] /\ y[2] = z[2] /\ y[3] = z[3] /\ y[4] < z[4]
      BY <1>4, <2>1, BeforeUnfolds
    <2>5. Before(a, c, k) <=>
            \/ x[1] < z[1]
            \/ x[1] = z[1] /\ x[2] < z[2]
            \/ x[1] = z[1] /\ x[2] = z[2] /\ x[3] < z[3]
            \/ x[1] = z[1] /\ x[2] = z[2] /\ x[3] = z[3] /\ x[4] < z[4]
      BY <2>1, BeforeUnfolds
    <2> HIDE DEF x, y, z
    <2> QED
      BY <2>2, <2>3, <2>4, <2>5
  <1>5. ASSUME NEW a \in R, NEW b \in R, a # b
        PROVE  Before(a, b, k) \/ Before(b, a, k)
    <2> DEFINE x == SortKey(a, k)
               y == SortKey(b, k)
    <2>1. a \in Row /\ b \in Row
      BY <1>1
    <2>2. /\ x[1] \in Nat /\ x[2] \in Nat /\ x[3] \in Nat /\ x[4] \in Nat
          /\ y[1] \in Nat /\ y[2] \in Nat /\ y[3] \in Nat /\ y[4] \in Nat
      BY <2>1, KeyType
    <2>3. x[4] # y[4]
      <3>1. a.id # b.id
        BY <1>5 DEF Rows
      <3>2. a.id \in Server /\ b.id \in Server
        BY <2>1 DEF Row
      <3> QED
        BY CatalogAssumption, <2>1, <3>1, <3>2, KeyType
    <2>4. Before(a, b, k) <=>
            \/ x[1] < y[1]
            \/ x[1] = y[1] /\ x[2] < y[2]
            \/ x[1] = y[1] /\ x[2] = y[2] /\ x[3] < y[3]
            \/ x[1] = y[1] /\ x[2] = y[2] /\ x[3] = y[3] /\ x[4] < y[4]
      BY <2>1, BeforeUnfolds
    <2>5. Before(b, a, k) <=>
            \/ y[1] < x[1]
            \/ y[1] = x[1] /\ y[2] < x[2]
            \/ y[1] = x[1] /\ y[2] = x[2] /\ y[3] < x[3]
            \/ y[1] = x[1] /\ y[2] = x[2] /\ y[3] = x[3] /\ y[4] < x[4]
      BY <2>1, BeforeUnfolds
    <2>6. \A p, q \in Nat : p < q \/ q < p \/ p = q
      OBVIOUS
    <2> HIDE DEF x, y
    <2> QED
      BY <2>2, <2>3, <2>4, <2>5, <2>6
  <1> QED
    BY <1>2, <1>3, <1>4, <1>5 DEF StrictOrder, L

\* Sorting keeps every row, and puts them in order.
LEMMA SortedIsInOrder ==
  ASSUME NEW k \in SortKeys, NEW R \in Rows
  PROVE  /\ Sorted(R, k) \in Seq(R)
         /\ \A r \in R : \E i \in DOMAIN Sorted(R, k) : Sorted(R, k)[i] = r
         /\ \A i, j \in DOMAIN Sorted(R, k) :
              i < j <=> Before(Sorted(R, k)[i], Sorted(R, k)[j], k)
  <1> DEFINE L == RowOrder(R, k)
             s == Sorted(R, k)
  <1>1. \A a, b \in R : <<a, b>> \in L <=> Before(a, b, k)
    BY DEF RowOrder
  <1>2. s = InOrder(R, L)
    BY DEF Sorted, RowOrder
  <1>3. StrictOrder(R, L)
    BY RowsInStrictOrder
  <1>4. IsFiniteSet(R)
    BY DEF Rows
  <1> HIDE DEF L, s
  <1>5. /\ s \in Seq(R)
        /\ \A r \in R : \E i \in DOMAIN s : s[i] = r
        /\ \A i, j \in DOMAIN s : i < j <=> <<s[i], s[j]>> \in L
    BY <1>2, <1>3, <1>4, InOrderIsInOrder
  <1>6. \A i \in DOMAIN s : s[i] \in R
    BY <1>5
  <1> QED
    BY <1>1, <1>5, <1>6 DEF s

-----------------------------------------------------------------------------
(* The filter and its limit.                                               *)

\* What is shown of sorted rows are the best matches, best first.
THEOREM VisibleIsBest ==
  ASSUME NEW k \in SortKeys, NEW R \in Rows, NEW n \in Needle
  PROVE  /\ VisibleRows(Sorted(R, k), n) \in Seq(R)
         /\ BestRows(VisibleRows(Sorted(R, k), n), R, n, k)
  <1> DEFINE rs == Sorted(R, k)
             M == {i \in DOMAIN rs : Matches(rs[i], n)}
             T == {i \in M : Cardinality({h \in M : h < i}) < DISPLAY_LIMIT}
             s == Ascending(T)
             v == VisibleRows(rs, n)
             MR == {r \in R : Matches(r, n)}
             Best == {r \in MR : Cardinality({q \in MR : Before(q, r, k)}) < DISPLAY_LIMIT}
  <1>1. /\ rs \in Seq(R)
        /\ \A r \in R : \E j \in DOMAIN rs : rs[j] = r
        /\ \A g, h \in DOMAIN rs : g < h <=> Before(rs[g], rs[h], k)
    BY SortedIsInOrder
  <1>2. v = [j \in DOMAIN s |-> rs[s[j]]]
    BY DEF VisibleRows
  <1> HIDE DEF rs, v
  <1>3. DOMAIN rs = 1 .. Len(rs) /\ Len(rs) \in Nat
    BY <1>1
  <1>4. ASSUME NEW i \in DOMAIN rs
        PROVE  Cardinality({h \in M : h < i}) = Cardinality({q \in MR : Before(q, rs[i], k)})
    <2> DEFINE A == {h \in M : h < i}
               B == {q \in MR : Before(q, rs[i], k)}
               f == [h \in A |-> rs[h]]
    <2>1. A \subseteq DOMAIN rs /\ IsFiniteSet(A)
      <3>1. A \subseteq DOMAIN rs
        OBVIOUS
      <3>2. IsFiniteSet(DOMAIN rs)
        BY <1>3, FS_Interval
      <3> HIDE DEF A
      <3> QED
        BY <3>1, <3>2, FS_Subset
    <2>2. \A h \in DOMAIN rs : rs[h] \in R
      BY <1>1
    <2>3. \A h \in A : rs[h] \in B
      BY <1>1, <2>2
    <2>4. f \in [A -> B]
      BY <2>3
    <2>5. ASSUME NEW g \in A, NEW h \in A, f[g] = f[h]
          PROVE  g = h
      <3>1. g \in DOMAIN rs /\ h \in DOMAIN rs /\ rs[g] = rs[h]
        BY <2>1, <2>5
      <3>2. (g < h <=> Before(rs[g], rs[h], k)) /\ (h < h <=> Before(rs[h], rs[h], k))
        BY <1>1, <3>1
      <3>3. (h < g <=> Before(rs[h], rs[g], k))
        BY <1>1, <3>1
      <3>4. g \in Int /\ h \in Int
        BY <1>3, <3>1
      <3>5. ~Before(rs[h], rs[h], k)
        BY <3>2, <3>4
      <3>6. ~(g < h) /\ ~(h < g)
        BY <3>1, <3>2, <3>3, <3>5
      <3>7. \A a, b \in Int : a < b \/ b < a \/ a = b
        OBVIOUS
      <3> QED
        BY <3>4, <3>6, <3>7
    <2>6. ASSUME NEW q \in B
          PROVE  \E h \in A : f[h] = q
      <3>1. q \in R /\ Matches(q, n) /\ Before(q, rs[i], k)
        OBVIOUS
      <3>2. PICK h \in DOMAIN rs : rs[h] = q
        BY <1>1, <3>1
      <3>3. h \in A
        BY <1>1, <3>1, <3>2
      <3> QED
        BY <3>2, <3>3
    <2>7. f \in Bijection(A, B)
      <3> HIDE DEF f, A, B
      <3> QED
        BY <2>4, <2>5, <2>6 DEF Bijection, Injection, Surjection, IsInjective
    <2>8. Cardinality(B) = Cardinality(A)
      <3> HIDE DEF f, A, B
      <3>1. ExistsBijection(A, B)
        BY <2>7 DEF ExistsBijection
      <3> QED
        BY <2>1, <3>1, FS_Bijection
    <2> QED
      BY <2>8
  <1>5. T \in SUBSET Nat /\ IsFiniteSet(T) /\ T \subseteq DOMAIN rs
    <2>1. T \subseteq DOMAIN rs
      OBVIOUS
    <2>2. DOMAIN rs \subseteq Nat /\ IsFiniteSet(DOMAIN rs)
      BY <1>3, FS_Interval
    <2> HIDE DEF T
    <2> QED
      BY <2>1, <2>2, FS_Subset
  <1>6. /\ s \in Seq(T)
        /\ \A i \in T : \E j \in DOMAIN s : s[j] = i
        /\ \A i, j \in DOMAIN s : i < j => s[i] < s[j]
    <2> HIDE DEF T
    <2> QED
      BY <1>5, AscendingInOrder
  <1>7. \A i \in DOMAIN rs : rs[i] \in R
    BY <1>1
  <1>8. \A i \in DOMAIN rs : i \in T <=> rs[i] \in Best
    BY <1>4, <1>7
  <1> HIDE DEF T, s, Best
  <1>9. DOMAIN s = 1 .. Len(s) /\ Len(s) \in Nat /\ \A j \in DOMAIN s : s[j] \in T
    BY <1>6
  <1>10. DOMAIN v = DOMAIN s /\ \A j \in DOMAIN s : v[j] = rs[s[j]] /\ v[j] \in R
    BY <1>2, <1>5, <1>7, <1>9
  <1>11. v \in Seq(R)
    <2>1. v \in [1 .. Len(s) -> R]
      BY <1>2, <1>9, <1>10
    <2> QED
      BY <1>9, <2>1, IsSequence
  <1>12. \A j \in DOMAIN v : v[j] \in Best
    BY <1>5, <1>8, <1>9, <1>10
  <1>13. ASSUME NEW r \in Best
         PROVE  \E j \in DOMAIN v : v[j] = r
    <2>1. r \in R
      BY DEF Best
    <2>2. PICK i \in DOMAIN rs : rs[i] = r
      BY <1>1, <2>1
    <2>3. PICK j \in DOMAIN s : s[j] = i
      BY <1>6, <1>8, <2>2
    <2> QED
      BY <1>10, <2>2, <2>3
  <1>14. ToSet(v) = Best
    BY <1>12, <1>13 DEF ToSet
  <1>15. ASSUME NEW i \in DOMAIN v, NEW j \in DOMAIN v, i < j
         PROVE  Before(v[i], v[j], k)
    <2>1. s[i] \in DOMAIN rs /\ s[j] \in DOMAIN rs /\ s[i] < s[j]
      BY <1>5, <1>6, <1>9, <1>10, <1>15
    <2> QED
      BY <1>1, <1>10, <2>1
  <1>16. BestRows(v, R, n, k)
    BY <1>14, <1>15 DEF BestRows, Best
  <1> QED
    BY <1>11, <1>16 DEF v, rs

-----------------------------------------------------------------------------
(* Rows of a server list.                                                  *)

LEMMA BuildRowsAreRows ==
  ASSUME NEW l \in Listing
  PROVE  BuildRows(l) \in Rows
  <1> DEFINE U == {x \in Ids(l) : Usable(l, x)}
             R == BuildRows(l)
             f == [s \in U |-> [id |-> s, load |-> l.logicals[s].load,
                                score |-> l.logicals[s].score]]
  <1>1. U \subseteq Server
    BY CatalogAssumption DEF Ids
  <1>2. IsFiniteSet(U)
    BY CatalogAssumption, <1>1, FS_Subset
  <1>3. R = {f[s] : s \in U}
    BY DEF BuildRows
  <1>4. ASSUME NEW s \in U
        PROVE  f[s] \in Row /\ f[s].id = s
    <2>1. l.logicals[s].load \in Nat /\ l.logicals[s].score \in Nat
      BY CatalogAssumption DEF Ids
    <2> QED
      BY <1>1, <2>1 DEF Row
  <1> HIDE DEF f, U, R
  <1>5. R \subseteq Row
    BY <1>3, <1>4
  <1>6. \A q, r \in R : q.id = r.id => q = r
    BY <1>3, <1>4
  <1>7. f \in Surjection(U, R)
    BY <1>3 DEF Surjection, f
  <1>8. IsFiniteSet(R)
    BY <1>2, <1>7, FS_Surjection
  <1> QED
    BY <1>5, <1>6, <1>8 DEF Rows, R

LEMMA NoRows ==
  /\ {} \in Rows
  /\ \A k \in SortKeys : Sorted({}, k) = <<>>
  /\ \A n \in Needle : VisibleRows(<<>>, n) = <<>>
  <1>1. {} \in Rows
    BY FS_EmptySet DEF Rows
  <1>2. \A s \in Seq({}) : s = <<>>
    OBVIOUS
  <1>3. \A k \in SortKeys : Sorted({}, k) = <<>>
    BY <1>1, <1>2, SortedIsInOrder
  <1>4. ASSUME NEW n \in Needle
        PROVE  VisibleRows(<<>>, n) = <<>>
    <2>1. "load" \in SortKeys
      BY DEF SortKeys
    <2>2. VisibleRows(Sorted({}, "load"), n) \in Seq({})
      BY <1>1, <2>1, VisibleIsBest
    <2> QED
      BY <1>2, <1>3, <2>1, <2>2
  <1> QED
    BY <1>1, <1>3, <1>4

-----------------------------------------------------------------------------
(* Selectors.                                                              *)

\* A set of natural numbers that is not empty has a least element.
LEMMA LeastNat ==
  ASSUME NEW S \in SUBSET Nat, S # {}
  PROVE  \E m \in S : \A n \in S : m <= n
  <1> DEFINE R == OpToRel(<, Nat)
  <1>1. \E m \in S : \A n \in S : ~(<<n, m>> \in R)
    <2> HIDE DEF R
    <2>1. IsWellFoundedOn(R, Nat)
      BY NatLessThanWellFounded DEF R
    <2> QED
      BY <2>1, WFMin
  <1>2. PICK m \in S : \A n \in S : ~(<<n, m>> \in R)
    BY <1>1
  <1>3. \A n \in S : ~(n < m)
    BY <1>2 DEF OpToRel
  <1> QED
    BY <1>3

\* The best usable server of a set, or none if the set has no usable one.
LEMMA FastestIsBest ==
  ASSUME NEW l \in Listing, NEW S \in SUBSET Server
  PROVE  IF \E s \in S : Usable(l, s)
         THEN /\ Fastest(l, S) \in S
              /\ Usable(l, Fastest(l, S))
              /\ \A u \in S : Usable(l, u) =>
                   l.logicals[Fastest(l, S)].score <= l.logicals[u].score
         ELSE Fastest(l, S) = NoServer
  <1> DEFINE U == {s \in S : Usable(l, s)}
  <1>1. CASE U = {}
    BY <1>1 DEF Fastest
  <1>2. CASE U # {}
    <2> DEFINE scores == {l.logicals[s].score : s \in U}
    <2>1. \A s \in U : l.logicals[s].score \in Nat
      BY CatalogAssumption DEF Usable, Ids
    <2>2. scores \in SUBSET Nat /\ scores # {}
      BY <1>2, <2>1
    <2>3. PICK m \in scores : \A n \in scores : m <= n
      BY <2>2, LeastNat
    <2>4. \E s \in U : \A u \in U : l.logicals[s].score <= l.logicals[u].score
      BY <2>3
    <2>5. /\ Fastest(l, S) \in U
          /\ \A u \in U : l.logicals[Fastest(l, S)].score <= l.logicals[u].score
      BY <1>2, <2>4 DEF Fastest
    <2> QED
      BY <1>2, <2>5
  <1> QED
    BY <1>1, <1>2
================================================================================
