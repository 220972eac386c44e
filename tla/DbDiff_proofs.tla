--------------------------- MODULE DbDiff_proofs ---------------------------
(***************************************************************************)
(* The report of db_diff about a snapshot that one writer at a time fills   *)
(* is right, for all rows of both snapshots and every place the writer may  *)
(* have reached: qsort can order rows of different keys, the loops of the   *)
(* comparison end with one line for each key that is gone, has appeared or  *)
(* has changed, and the rows it has read have different keys.               *)
(***************************************************************************)
EXTENDS SnapshotMap_proofs

-----------------------------------------------------------------------------
(* Layer 1.  Induction over the naturals, by the pigeonhole principle.       *)

LEMMA Induct ==
  ASSUME NEW S \in SUBSET Nat, 0 \in S, \A n \in S : n + 1 \in S PROVE S = Nat
<1> SUFFICES ASSUME NEW n \in Nat, n \notin S PROVE FALSE
  OBVIOUS
<1> DEFINE A == {k \in 0..n : k \in S}
           B == A \ {0}
           f == [k \in A |-> k + 1]
<1>1. IsFiniteSet(A) /\ Cardinality(A) \in Nat
  <2>1. IsFiniteSet(0..n)
    BY FS_Interval
  <2> QED
    BY <2>1, FS_Subset, FS_CardinalityType
<1>2. 0 \in A
  OBVIOUS
<1>3. IsFiniteSet(B) /\ Cardinality(B) = Cardinality(A) - 1
  BY <1>1, <1>2, FS_RemoveElement
<1>4. f \in [A -> B]
  OBVIOUS
<1> HIDE DEF A, B
<1>5. \E x, y \in A : x # y /\ f[x] = f[y]
  <2> HIDE DEF f
  <2>1. Cardinality(B) < Cardinality(A)
    BY <1>1, <1>3
  <2> QED
    BY <1>1, <1>3, <1>4, <2>1, FS_PigeonHole
<1> QED
  BY <1>5 DEF A

-----------------------------------------------------------------------------
(* Layer 2.  The sort.                                                       *)

AnyRow == [key : Nat, value : Nat]
RowsOf == Seq(AnyRow)
Distinct(s)  == \A i, j \in 1..Len(s) : s[i].key = s[j].key => i = j
Ascending(s) == \A i, j \in 1..Len(s) : i < j => s[i].key < s[j].key

LEMMA RowFacts ==
  ASSUME NEW s \in RowsOf
  PROVE  /\ Len(s) \in Nat /\ s = [i \in 1..Len(s) |-> s[i]]
         /\ \A i \in 1..Len(s) : /\ s[i] \in AnyRow
                                 /\ s[i].key \in Nat /\ s[i].value \in Nat
<1>1. Len(s) \in Nat /\ s = [i \in 1..Len(s) |-> s[i]]
      /\ \A i \in 1..Len(s) : s[i] \in AnyRow
  BY DEF RowsOf
<1>2. \A r \in AnyRow : r.key \in Nat /\ r.value \in Nat
  BY DEF AnyRow
<1> QED
  BY <1>1, <1>2

\* The rows up to the key of row i.
UpTo(s, i) == {x \in 1..Len(s) : s[x].key <= s[i].key}

\* Rows of different keys differ in how many rows are up to their keys.
LEMMA UpToGrows ==
  ASSUME NEW s \in RowsOf, Distinct(s), NEW i \in 1..Len(s)
  PROVE  /\ Cardinality(UpTo(s, i)) \in 1..Len(s)
         /\ \A j \in 1..Len(s) : s[i].key < s[j].key =>
              Cardinality(UpTo(s, i)) < Cardinality(UpTo(s, j))
<1>1. \A j \in 1..Len(s) : s[j].key \in Nat
  BY RowFacts
<1>2. ASSUME NEW j \in 1..Len(s)
      PROVE  /\ IsFiniteSet(UpTo(s, j)) /\ Cardinality(UpTo(s, j)) \in 1..Len(s)
  <2>1. IsFiniteSet(1..Len(s)) /\ Cardinality(1..Len(s)) = Len(s)
    <3>1. PICK n \in Nat : n = Len(s)
      BY RowFacts
    <3>2. IsFiniteSet(1..n) /\ Cardinality(1..n) = n
      BY FS_Interval
    <3> QED
      BY <3>1, <3>2
  <2>2. UpTo(s, j) \in SUBSET (1..Len(s)) /\ j \in UpTo(s, j)
    BY <1>1 DEF UpTo
  <2>3. IsFiniteSet(UpTo(s, j)) /\ Cardinality(UpTo(s, j)) <= Len(s)
        /\ Cardinality(UpTo(s, j)) \in Nat
    BY <2>1, <2>2, FS_Subset, FS_CardinalityType
  <2>4. Cardinality(UpTo(s, j)) # 0
    BY <2>2, <2>3, FS_EmptySet
  <2> QED
    BY <2>3, <2>4, RowFacts
<1>3. ASSUME NEW j \in 1..Len(s), s[i].key < s[j].key
      PROVE  Cardinality(UpTo(s, i)) < Cardinality(UpTo(s, j))
  <2>1. UpTo(s, i) \in SUBSET UpTo(s, j)
    BY <1>1, <1>3 DEF UpTo
  <2>2. j \in UpTo(s, j) /\ j \notin UpTo(s, i)
    BY <1>1, <1>3 DEF UpTo
  <2>3. Cardinality(UpTo(s, i)) <= Cardinality(UpTo(s, j))
        /\ Cardinality(UpTo(s, j)) # Cardinality(UpTo(s, i))
    BY <1>2, <2>1, <2>2, FS_Subset
  <2> QED
    BY <1>2, <2>3
<1> QED
  BY <1>2, <1>3

\* An injection of the places of a sequence into themselves reaches each.
LEMMA Onto ==
  ASSUME NEW n \in Nat, NEW f \in [1..n -> 1..n],
         \A i, j \in 1..n : f[i] = f[j] => i = j
  PROVE  \A m \in 1..n : \E i \in 1..n : f[i] = m
<1>1. IsFiniteSet(1..n)
  BY FS_Interval
<1>2. f \in Injection(1..n, 1..n)
  BY DEF Injection, IsInjective
<1>3. f \in Surjection(1..n, 1..n)
  BY <1>1, <1>2, FS_Injection
<1> QED
  BY <1>3 DEF Surjection

\* Rows of different keys can be put in order.
LEMMA OrderExists ==
  ASSUME NEW s \in RowsOf, Distinct(s) PROVE Orders(s) # {}
<1> DEFINE n == Len(s)
           R == [i \in 1..n |-> Cardinality(UpTo(s, i))]
<1>0. n \in Nat /\ \A i \in 1..n : s[i].key \in Nat
  BY RowFacts
<1>1. R \in [1..n -> 1..n] /\ \A i, j \in 1..n : s[i].key < s[j].key => R[i] < R[j]
  BY UpToGrows
<1> HIDE DEF R, n
<1>2. \A i, j \in 1..n : R[i] = R[j] => i = j
  <2> SUFFICES ASSUME NEW i \in 1..n, NEW j \in 1..n, R[i] = R[j] PROVE i = j
    OBVIOUS
  <2>0. R[i] \in Nat /\ ~(R[i] < R[j]) /\ ~(R[j] < R[i])
    BY <1>1
  <2>1. ~(s[i].key < s[j].key) /\ ~(s[j].key < s[i].key)
    BY <1>1, <2>0
  <2>2. s[i].key = s[j].key
    BY <1>0, <2>1
  <2> QED
    BY <2>2 DEF Distinct, n
<1>3. \A m \in 1..n : \E i \in 1..n : R[i] = m
  BY <1>0, <1>1, <1>2, Onto
<1> DEFINE p == [m \in 1..n |-> CHOOSE i \in 1..n : R[i] = m]
<1>4. p \in [1..n -> 1..n] /\ \A m \in 1..n : R[p[m]] = m
  BY <1>3
<1> HIDE DEF p
<1>5. ASSUME NEW i \in 1..n, NEW j \in 1..n, i < j
      PROVE  p[i] # p[j] /\ s[p[i]].key <= s[p[j]].key
  <2>1. R[p[i]] < R[p[j]] /\ p[i] \in 1..n /\ p[j] \in 1..n
    BY <1>0, <1>4, <1>5
  <2>2. ~(s[p[j]].key < s[p[i]].key)
    <3>1. s[p[j]].key < s[p[i]].key => R[p[j]] < R[p[i]]
      BY <1>1, <2>1
    <3>2. R[p[i]] \in Nat /\ R[p[j]] \in Nat
      BY <1>1, <2>1
    <3> QED
      BY <2>1, <3>1, <3>2
  <2>3. s[p[i]].key \in Nat /\ s[p[j]].key \in Nat
    BY <1>0, <2>1
  <2>4. p[i] # p[j]
    BY <1>4, <1>5
  <2> QED
    BY <2>2, <2>3, <2>4
<1>6. p \in Orders(s)
  BY <1>4, <1>5 DEF Orders, n
<1> QED
  BY <1>6

\* The sorted rows are the rows, in the order of their keys.
LEMMA SortedRows ==
  ASSUME NEW s \in RowsOf, Distinct(s)
  PROVE  /\ Sorted(s) \in RowsOf /\ Ascending(Sorted(s))
         /\ {Sorted(s)[i] : i \in 1..Len(Sorted(s))} = {s[i] : i \in 1..Len(s)}
<1> DEFINE n == Len(s)
<1>0. n \in Nat /\ \A i \in 1..n : s[i] \in AnyRow /\ s[i].key \in Nat
  BY RowFacts
<1>1. PICK p \in Orders(s) : Sorted(s) = [i \in 1..n |-> s[p[i]]]
  BY OrderExists DEF Sorted
<1>2. /\ p \in [1..n -> 1..n]
      /\ \A i, j \in 1..n : i < j => p[i] # p[j] /\ s[p[i]].key <= s[p[j]].key
  BY DEF Orders
<1>3. Sorted(s) \in RowsOf /\ Len(Sorted(s)) = n /\ \A i \in 1..n : Sorted(s)[i] = s[p[i]]
  BY <1>0, <1>1, <1>2 DEF RowsOf
<1>4. Ascending(Sorted(s))
  <2> SUFFICES ASSUME NEW i \in 1..n, NEW j \in 1..n, i < j
               PROVE  s[p[i]].key < s[p[j]].key
    BY <1>3 DEF Ascending
  <2>1. p[i] \in 1..n /\ p[j] \in 1..n /\ p[i] # p[j] /\ s[p[i]].key <= s[p[j]].key
    BY <1>2
  <2>2. s[p[i]].key # s[p[j]].key
    BY <2>1 DEF Distinct
  <2> QED
    BY <1>0, <2>1, <2>2
<1>5. \A m \in 1..n : \E i \in 1..n : p[i] = m
  <2>1. \A i, j \in 1..n : p[i] = p[j] => i = j
    BY <1>0, <1>2
  <2> QED
    BY <1>0, <1>2, <2>1, Onto
<1>6. {Sorted(s)[i] : i \in 1..n} = {s[i] : i \in 1..n}
  <2>1. \A i \in 1..n : Sorted(s)[i] \in {s[x] : x \in 1..n}
    BY <1>2, <1>3
  <2>2. \A m \in 1..n : \E i \in 1..n : s[m] = Sorted(s)[i]
    BY <1>2, <1>3, <1>5
  <2> QED
    BY <2>1, <2>2
<1> QED
  BY <1>3, <1>4, <1>6

-----------------------------------------------------------------------------
(* Layer 3.  The loops of the comparison end: the recursion has a solution.  *)

Pairs(a, b) == (1..(Len(a) + 1)) \X (1..(Len(b) + 1))
Left(a, b, i, j) == (Len(a) + 1 - i) + (Len(b) + 1 - j)

\* Where the loops go from a pair of rows.
LEMMA PairsLater ==
  ASSUME NEW a \in RowsOf, NEW b \in RowsOf,
         NEW i \in 1..(Len(a) + 1), NEW j \in 1..(Len(b) + 1)
  PROVE  /\ i <= Len(a) => i + 1 \in 1..(Len(a) + 1)
         /\ j <= Len(b) => j + 1 \in 1..(Len(b) + 1)
         /\ <<i, j>> \in Pairs(a, b) /\ Left(a, b, i, j) \in Nat
         /\ i <= Len(a) => Left(a, b, i + 1, j) = Left(a, b, i, j) - 1
         /\ j <= Len(b) => Left(a, b, i, j + 1) = Left(a, b, i, j) - 1
         /\ i <= Len(a) /\ j <= Len(b) =>
              Left(a, b, i + 1, j + 1) = Left(a, b, i, j) - 2
<1>1. PICK m \in Nat, n \in Nat : m = Len(a) /\ n = Len(b)
  BY RowFacts
<1>2. i \in 1..(m + 1) /\ j \in 1..(n + 1)
  BY <1>1
<1> QED
  BY <1>1, <1>2 DEF Pairs, Left

\* What is written from a pair on depends only on what is written later.
LEMMA WrittenLater ==
  ASSUME NEW kd, NEW a \in RowsOf, NEW b \in RowsOf, NEW f, NEW g,
         NEW i \in 1..(Len(a) + 1), NEW j \in 1..(Len(b) + 1),
         \A x \in 1..(Len(a) + 1), y \in 1..(Len(b) + 1) :
           Left(a, b, x, y) < Left(a, b, i, j) => f[<<x, y>>] = g[<<x, y>>]
  PROVE  Written(kd, a, b, f, i, j) = Written(kd, a, b, g, i, j)
<1>0. /\ Left(a, b, i, j) \in Nat
      /\ i <= Len(a) => Left(a, b, i + 1, j) = Left(a, b, i, j) - 1
      /\ j <= Len(b) => Left(a, b, i, j + 1) = Left(a, b, i, j) - 1
      /\ i <= Len(a) /\ j <= Len(b) =>
           Left(a, b, i + 1, j + 1) = Left(a, b, i, j) - 2
      /\ i <= Len(a) => i + 1 \in 1..(Len(a) + 1)
      /\ j <= Len(b) => j + 1 \in 1..(Len(b) + 1)
  BY PairsLater
<1>1. ASSUME i <= Len(a) PROVE f[<<i + 1, j>>] = g[<<i + 1, j>>]
  <2>1. Left(a, b, i + 1, j) < Left(a, b, i, j) /\ i + 1 \in 1..(Len(a) + 1)
    BY <1>0, <1>1
  <2> QED
    BY <2>1
<1>2. ASSUME j <= Len(b) PROVE f[<<i, j + 1>>] = g[<<i, j + 1>>]
  <2>1. Left(a, b, i, j + 1) < Left(a, b, i, j) /\ j + 1 \in 1..(Len(b) + 1)
    BY <1>0, <1>2
  <2> QED
    BY <2>1
<1>3. ASSUME i <= Len(a), j <= Len(b) PROVE f[<<i + 1, j + 1>>] = g[<<i + 1, j + 1>>]
  <2>1. /\ Left(a, b, i + 1, j + 1) < Left(a, b, i, j)
        /\ i + 1 \in 1..(Len(a) + 1) /\ j + 1 \in 1..(Len(b) + 1)
    BY <1>0, <1>3
  <2> QED
    BY <2>1
<1> QED
  BY <1>1, <1>2, <1>3 DEF Written

\* The lines from each pair on are a function.
LEMMA LinesExist ==
  ASSUME NEW kd, NEW a \in RowsOf, NEW b \in RowsOf
  PROVE  \E f : f = [at \in Pairs(a, b) |-> Written(kd, a, b, f, at[1], at[2])]
<1> DEFINE X == 1..(Len(a) + 1)
           Y == 1..(Len(b) + 1)
           Upto(f, m) == \A x \in X, y \in Y : Left(a, b, x, y) < m =>
                           f[<<x, y>>] = Written(kd, a, b, f, x, y)
           S == {m \in Nat : \E f : Upto(f, m)}
<1>0. ASSUME NEW x \in X, NEW y \in Y PROVE Left(a, b, x, y) \in Nat
  BY PairsLater
<1>1. 0 \in S
  <2>1. \A x \in X, y \in Y : ~(Left(a, b, x, y) < 0)
    BY <1>0
  <2>2. Upto(<< >>, 0)
    BY <2>1
  <2> QED
    BY <2>2
<1>2. ASSUME NEW m \in S PROVE m + 1 \in S
  <2>1. PICK f : Upto(f, m)
    BY <1>2
  <2> DEFINE g == [at \in Pairs(a, b) |-> Written(kd, a, b, f, at[1], at[2])]
  <2>2. \A x \in X, y \in Y : g[<<x, y>>] = Written(kd, a, b, f, x, y)
    BY DEF Pairs
  <2> HIDE DEF g
  <2>3. ASSUME NEW x \in X, NEW y \in Y, Left(a, b, x, y) < m + 1
        PROVE  g[<<x, y>>] = Written(kd, a, b, g, x, y)
    <3>1. ASSUME NEW u \in X, NEW v \in Y, Left(a, b, u, v) < Left(a, b, x, y)
          PROVE  f[<<u, v>>] = g[<<u, v>>]
      <4>1. Left(a, b, u, v) < m
        BY <1>0, <2>3, <3>1
      <4> QED
        BY <2>1, <2>2, <4>1
    <3>2. Written(kd, a, b, f, x, y) = Written(kd, a, b, g, x, y)
      BY <3>1, WrittenLater
    <3> QED
      BY <2>2, <3>2
  <2> QED
    BY SMTT(30), <2>3
<1>3. S = Nat
  <2> HIDE DEF S
  <2>1. S \in SUBSET Nat
    BY DEF S
  <2> QED
    BY <1>1, <1>2, <2>1, Induct
<1>4. PICK m \in Nat : \A x \in X, y \in Y : Left(a, b, x, y) < m
  <2>1. Len(a) + Len(b) + 1 \in Nat
    BY RowFacts
  <2>2. \A x \in X, y \in Y : Left(a, b, x, y) < Len(a) + Len(b) + 1
    <3>1. Len(a) \in Nat /\ Len(b) \in Nat
      BY RowFacts
    <3> QED
      BY <3>1 DEF Left
  <2> QED
    BY <2>1, <2>2
<1>5. PICK f : Upto(f, m)
  BY <1>3
<1> DEFINE g == [at \in Pairs(a, b) |-> Written(kd, a, b, f, at[1], at[2])]
<1>6. \A x \in X, y \in Y : g[<<x, y>>] = f[<<x, y>>]
  BY <1>4, <1>5 DEF Pairs
<1>7. \A at \in Pairs(a, b) :
        Written(kd, a, b, f, at[1], at[2]) = Written(kd, a, b, g, at[1], at[2])
  <2> HIDE DEF g
  <2> SUFFICES ASSUME NEW at \in Pairs(a, b)
               PROVE  Written(kd, a, b, f, at[1], at[2]) = Written(kd, a, b, g, at[1], at[2])
    OBVIOUS
  <2>1. PICK x \in X, y \in Y : at = <<x, y>>
    BY DEF Pairs
  <2>2. Written(kd, a, b, f, x, y) = Written(kd, a, b, g, x, y)
    BY <1>6, WrittenLater
  <2> QED
    BY <2>1, <2>2
<1>8. g = [at \in Pairs(a, b) |-> Written(kd, a, b, g, at[1], at[2])]
  <2> DEFINE W(at) == Written(kd, a, b, f, at[1], at[2])
             V(at) == Written(kd, a, b, g, at[1], at[2])
  <2>1. \A at \in Pairs(a, b) : W(at) = V(at)
    BY <1>7
  <2>2. g = [at \in Pairs(a, b) |-> W(at)]
    OBVIOUS
  <2> HIDE DEF W, V, g
  <2>3. [at \in Pairs(a, b) |-> W(at)] = [at \in Pairs(a, b) |-> V(at)]
    BY <2>1
  <2>4. g = [at \in Pairs(a, b) |-> V(at)]
    BY <2>2, <2>3
  <2> QED
    BY <2>4 DEF V
<1> QED
  BY <1>8

-----------------------------------------------------------------------------
(* Layer 4.  What the lines say.                                             *)

\* The keys from a row on, and those of the rows of both that differ.
From(s, i) == {s[x].key : x \in i..Len(s)}
Differing(kd, a, b, i, j) ==
  {a[x].key : x \in {z \in i..Len(a) :
     \E y \in j..Len(b) : a[z].key = b[y].key /\ Differ(kd, a[z], b[y])}}

\* The keys for which a line is due.
Due(kd, a, b, i, j) == (From(a, i) \ From(b, j)) \cup (From(b, j) \ From(a, i))
                       \cup Differing(kd, a, b, i, j)

LineSet == [what : {"CHANGED", "DISAPPEARED", "APPEARED"}, key : Int]

\* The lines r are those due from a pair of rows on.
Right(kd, a, b, r, i, j) ==
  /\ r \in Seq(LineSet)
  /\ Named("DISAPPEARED", r) = From(a, i) \ From(b, j)
  /\ Named("CHANGED", r) = Differing(kd, a, b, i, j)
  /\ kd = "PROC" => Named("APPEARED", r) = From(b, j) \ From(a, i)
  /\ IsFiniteSet(Due(kd, a, b, i, j)) /\ Len(r) = Cardinality(Due(kd, a, b, i, j))

\* A line before others.
LEMMA Cons ==
  ASSUME NEW r \in Seq(LineSet), NEW l \in LineSet
  PROVE  /\ <<l>> \o r \in Seq(LineSet) /\ Len(<<l>> \o r) = Len(r) + 1
         /\ \A what : Named(what, <<l>> \o r) =
              Named(what, r) \cup (IF l.what = what THEN {l.key} ELSE {})
<1> DEFINE s == <<l>> \o r
<1>1. /\ s \in Seq(LineSet) /\ Len(s) = Len(r) + 1 /\ Len(r) \in Nat
      /\ s[1] = l /\ \A x \in 1..Len(r) : s[x + 1] = r[x]
  OBVIOUS
<1> HIDE DEF s
<1>2. ASSUME NEW what
      PROVE  Named(what, s) = Named(what, r) \cup (IF l.what = what THEN {l.key} ELSE {})
  <2>1. ASSUME NEW k \in Named(what, s)
        PROVE  k \in Named(what, r) \/ (l.what = what /\ k = l.key)
    <3>1. PICK x \in 1..Len(s) : s[x].what = what /\ k = s[x].key
      BY DEF Named
    <3>2. CASE x = 1
      BY <1>1, <3>1, <3>2
    <3>3. CASE x # 1
      <4>1. x - 1 \in 1..Len(r) /\ s[x] = r[x - 1]
        BY <1>1, <3>1, <3>3
      <4> QED
        BY <3>1, <4>1 DEF Named
    <3> QED
      BY <3>2, <3>3
  <2>2. ASSUME NEW k \in Named(what, r) PROVE k \in Named(what, s)
    <3>1. PICK x \in 1..Len(r) : r[x].what = what /\ k = r[x].key
      BY DEF Named
    <3>2. x + 1 \in 1..Len(s) /\ s[x + 1] = r[x]
      BY <1>1
    <3> QED
      BY <3>1, <3>2 DEF Named
  <2>3. l.what = what => l.key \in Named(what, s)
    <3>1. 1 \in 1..Len(s)
      BY <1>1
    <3> QED
      BY <1>1, <3>1 DEF Named
  <2> QED
    BY <2>1, <2>2, <2>3
<1> QED
  BY <1>1, <1>2 DEF s

\* The keys from a row on are its key and those of the rows after it.
LEMMA FromSplit ==
  ASSUME NEW s \in RowsOf, Ascending(s), NEW i \in 1..Len(s)
  PROVE  /\ From(s, i) = From(s, i + 1) \cup {s[i].key} /\ s[i].key \notin From(s, i + 1)
         /\ \A k \in From(s, i + 1) : k \in Nat /\ s[i].key < k
<1>1. Len(s) \in Nat /\ \A x \in 1..Len(s) : s[x].key \in Nat
  BY RowFacts
<1>2. \A x \in i..Len(s) : x = i \/ x \in (i + 1)..Len(s)
  BY <1>1
<1>3. \A x \in (i + 1)..Len(s) : s[x].key \in Nat /\ s[i].key < s[x].key
  BY <1>1 DEF Ascending
<1>4. i \in i..Len(s) /\ \A x \in (i + 1)..Len(s) : x \in i..Len(s)
  BY <1>1
<1>5. From(s, i) = From(s, i + 1) \cup {s[i].key}
  BY <1>2, <1>4 DEF From
<1>6. \A k \in From(s, i + 1) : k \in Nat /\ s[i].key < k
  BY <1>3 DEF From
<1>7. s[i].key \in Nat
  BY <1>1
<1> QED
  BY <1>5, <1>6, <1>7

\* Only keys of both differ.
LEMMA DifferingShared ==
  ASSUME NEW kd, NEW a, NEW b, NEW i, NEW j
  PROVE  Differing(kd, a, b, i, j) \subseteq From(a, i) \cap From(b, j)
  BY DEF Differing, From

\* A row whose key the other snapshot does not have differs from none of it.
LEMMA DifferingSkipsOld ==
  ASSUME NEW kd, NEW a \in RowsOf, NEW b \in RowsOf, NEW i \in 1..Len(a), NEW j,
         a[i].key \notin From(b, j)
  PROVE  Differing(kd, a, b, i, j) = Differing(kd, a, b, i + 1, j)
<1>0. Len(a) \in Nat
  BY RowFacts
<1>1. \A y \in j..Len(b) : a[i].key # b[y].key
  BY DEF From
<1>2. \A x \in i..Len(a) : x = i \/ x \in (i + 1)..Len(a)
  BY <1>0
<1>3. \A x \in (i + 1)..Len(a) : x \in i..Len(a)
  BY <1>0
<1> QED
  BY <1>1, <1>2, <1>3 DEF Differing

LEMMA DifferingSkipsNew ==
  ASSUME NEW kd, NEW a \in RowsOf, NEW b \in RowsOf, NEW i, NEW j \in 1..Len(b),
         b[j].key \notin From(a, i)
  PROVE  Differing(kd, a, b, i, j) = Differing(kd, a, b, i, j + 1)
<1>0. Len(b) \in Nat
  BY RowFacts
<1>1. \A x \in i..Len(a) : a[x].key # b[j].key
  BY DEF From
<1>2. \A y \in j..Len(b) : y = j \/ y \in (j + 1)..Len(b)
  BY <1>0
<1>3. \A y \in (j + 1)..Len(b) : y \in j..Len(b)
  BY <1>0
<1> QED
  BY <1>1, <1>2, <1>3 DEF Differing

\* Rows of one key differ from each other or from none.
LEMMA DifferingBoth ==
  ASSUME NEW kd, NEW a \in RowsOf, NEW b \in RowsOf, Ascending(a), Ascending(b),
         NEW i \in 1..Len(a), NEW j \in 1..Len(b), a[i].key = b[j].key
  PROVE  Differing(kd, a, b, i, j) = Differing(kd, a, b, i + 1, j + 1)
           \cup (IF Differ(kd, a[i], b[j]) THEN {a[i].key} ELSE {})
<1>0. /\ Len(a) \in Nat /\ Len(b) \in Nat
      /\ a[i].key \notin From(a, i + 1) /\ a[i].key \notin From(b, j + 1)
  BY RowFacts, FromSplit
<1>1. /\ \A x \in i..Len(a) : x = i \/ x \in (i + 1)..Len(a)
      /\ \A y \in j..Len(b) : y = j \/ y \in (j + 1)..Len(b)
      /\ i \in i..Len(a) /\ j \in j..Len(b)
      /\ \A x \in (i + 1)..Len(a) : x \in i..Len(a)
      /\ \A y \in (j + 1)..Len(b) : y \in j..Len(b)
  BY <1>0
<1>2. /\ \A x \in (i + 1)..Len(a) : a[x].key # b[j].key
      /\ \A y \in (j + 1)..Len(b) : a[i].key # b[y].key
  BY <1>0 DEF From
<1>3. ASSUME NEW k \in Differing(kd, a, b, i, j)
      PROVE  k \in Differing(kd, a, b, i + 1, j + 1) \/ (Differ(kd, a[i], b[j]) /\ k = a[i].key)
  <2>1. PICK x \in i..Len(a), y \in j..Len(b) :
          k = a[x].key /\ a[x].key = b[y].key /\ Differ(kd, a[x], b[y])
    BY DEF Differing
  <2> QED
    BY <1>1, <1>2, <2>1 DEF Differing
<1>4. Differing(kd, a, b, i + 1, j + 1) \subseteq Differing(kd, a, b, i, j)
  BY <1>1 DEF Differing
<1>5. Differ(kd, a[i], b[j]) => a[i].key \in Differing(kd, a, b, i, j)
  BY <1>1 DEF Differing
<1> QED
  BY <1>3, <1>4, <1>5

\* One key is due more than from a later pair on, and one line is written.
LEMMA DueMore ==
  ASSUME NEW D, IsFiniteSet(D), NEW k, k \notin D, NEW E, E = D \cup {k}
  PROVE  IsFiniteSet(E) /\ Cardinality(E) = Cardinality(D) + 1
  BY FS_AddElement

\* A row of the old snapshot that the new one does not have.
LEMMA GoneLine ==
  ASSUME NEW kd, NEW a \in RowsOf, NEW b \in RowsOf, Ascending(a),
         NEW i \in 1..Len(a), NEW j \in Nat, a[i].key \notin From(b, j),
         NEW r, Right(kd, a, b, r, i + 1, j)
  PROVE  Right(kd, a, b, <<Line("DISAPPEARED", a[i].key)>> \o r, i, j)
<1> DEFINE k == a[i].key
           l == Line("DISAPPEARED", k)
           s == <<l>> \o r
<1>1. From(a, i) = From(a, i + 1) \cup {k} /\ k \notin From(a, i + 1) /\ k \in Nat
  BY FromSplit, RowFacts
<1>2. Differing(kd, a, b, i, j) = Differing(kd, a, b, i + 1, j)
      /\ Differing(kd, a, b, i, j) \subseteq From(a, i) \cap From(b, j)
  BY DifferingSkipsOld, DifferingShared
<1>3. l \in LineSet /\ l.what = "DISAPPEARED" /\ l.key = k /\ r \in Seq(LineSet)
  BY <1>1 DEF Line, LineSet, Right
<1>4. /\ s \in Seq(LineSet) /\ Len(s) = Len(r) + 1
      /\ Named("DISAPPEARED", s) = Named("DISAPPEARED", r) \cup {k}
      /\ Named("CHANGED", s) = Named("CHANGED", r)
      /\ Named("APPEARED", s) = Named("APPEARED", r)
  <2> HIDE DEF l
  <2>1. /\ s \in Seq(LineSet) /\ Len(s) = Len(r) + 1
        /\ \A what : Named(what, s) =
             Named(what, r) \cup (IF l.what = what THEN {l.key} ELSE {})
    BY <1>3, Cons
  <2> HIDE DEF s
  <2> QED
    BY <1>3, <2>1
<1>5. /\ Due(kd, a, b, i, j) = Due(kd, a, b, i + 1, j) \cup {k}
      /\ k \notin Due(kd, a, b, i + 1, j)
  BY <1>1, <1>2 DEF Due
<1>6. /\ IsFiniteSet(Due(kd, a, b, i, j))
      /\ Cardinality(Due(kd, a, b, i, j)) = Cardinality(Due(kd, a, b, i + 1, j)) + 1
  BY <1>5, DueMore DEF Right
<1> HIDE DEF s, k, l
<1>7. From(a, i) \ From(b, j) = (From(a, i + 1) \ From(b, j)) \cup {k}
      /\ From(b, j) \ From(a, i) = From(b, j) \ From(a, i + 1)
  BY <1>1 DEF k
<1> QED
  BY <1>2, <1>4, <1>6, <1>7 DEF Right, s, l, k

\* A row of the new snapshot that the old one does not have.
LEMMA NewLine ==
  ASSUME NEW kd, NEW a \in RowsOf, NEW b \in RowsOf, Ascending(b),
         NEW i \in Nat, NEW j \in 1..Len(b), b[j].key \notin From(a, i),
         NEW c \in Int, kd = "PROC" => c = b[j].key,
         NEW r, Right(kd, a, b, r, i, j + 1)
  PROVE  Right(kd, a, b, <<Line("APPEARED", c)>> \o r, i, j)
<1> DEFINE k == b[j].key
           l == Line("APPEARED", c)
           s == <<l>> \o r
<1>1. From(b, j) = From(b, j + 1) \cup {k} /\ k \notin From(b, j + 1) /\ k \in Nat
  BY FromSplit, RowFacts
<1>2. Differing(kd, a, b, i, j) = Differing(kd, a, b, i, j + 1)
      /\ Differing(kd, a, b, i, j) \subseteq From(a, i) \cap From(b, j)
  BY DifferingSkipsNew, DifferingShared
<1>3. l \in LineSet /\ l.what = "APPEARED" /\ l.key = c /\ r \in Seq(LineSet)
  BY DEF Line, LineSet, Right
<1>4. /\ s \in Seq(LineSet) /\ Len(s) = Len(r) + 1
      /\ Named("DISAPPEARED", s) = Named("DISAPPEARED", r)
      /\ Named("CHANGED", s) = Named("CHANGED", r)
      /\ Named("APPEARED", s) = Named("APPEARED", r) \cup {c}
  <2> HIDE DEF l
  <2>1. /\ s \in Seq(LineSet) /\ Len(s) = Len(r) + 1
        /\ \A what : Named(what, s) =
             Named(what, r) \cup (IF l.what = what THEN {l.key} ELSE {})
    BY <1>3, Cons
  <2> HIDE DEF s
  <2> QED
    BY <1>3, <2>1
<1>5. /\ Due(kd, a, b, i, j) = Due(kd, a, b, i, j + 1) \cup {k}
      /\ k \notin Due(kd, a, b, i, j + 1)
  BY <1>1, <1>2 DEF Due
<1>6. /\ IsFiniteSet(Due(kd, a, b, i, j))
      /\ Cardinality(Due(kd, a, b, i, j)) = Cardinality(Due(kd, a, b, i, j + 1)) + 1
  BY <1>5, DueMore DEF Right
<1> HIDE DEF s, k, l
<1>7. From(b, j) \ From(a, i) = (From(b, j + 1) \ From(a, i)) \cup {k}
      /\ From(a, i) \ From(b, j) = From(a, i) \ From(b, j + 1)
  BY <1>1 DEF k
<1> QED
  BY <1>2, <1>4, <1>6, <1>7 DEF Right, s, l, k

\* A key that both have, changed or not.
LEMMA SameLine ==
  ASSUME NEW kd, NEW a \in RowsOf, NEW b \in RowsOf, Ascending(a), Ascending(b),
         NEW i \in 1..Len(a), NEW j \in 1..Len(b), a[i].key = b[j].key,
         NEW r, Right(kd, a, b, r, i + 1, j + 1)
  PROVE  Right(kd, a, b, (IF Differ(kd, a[i], b[j]) THEN <<Line("CHANGED", a[i].key)>>
                                                    ELSE << >>) \o r, i, j)
<1> DEFINE k == a[i].key
           l == Line("CHANGED", k)
           s == <<l>> \o r
<1>1. /\ From(a, i) = From(a, i + 1) \cup {k} /\ k \notin From(a, i + 1) /\ k \in Nat
      /\ From(b, j) = From(b, j + 1) \cup {k} /\ k \notin From(b, j + 1)
  BY FromSplit, RowFacts
<1>2. /\ Differing(kd, a, b, i, j) = Differing(kd, a, b, i + 1, j + 1)
           \cup (IF Differ(kd, a[i], b[j]) THEN {k} ELSE {})
      /\ Differing(kd, a, b, i + 1, j + 1) \subseteq From(a, i + 1) \cap From(b, j + 1)
  BY DifferingBoth, DifferingShared
<1>3. l \in LineSet /\ l.what = "CHANGED" /\ l.key = k /\ r \in Seq(LineSet)
  BY <1>1 DEF Line, LineSet, Right
<1>7. From(b, j) \ From(a, i) = From(b, j + 1) \ From(a, i + 1)
      /\ From(a, i) \ From(b, j) = From(a, i + 1) \ From(b, j + 1)
  BY <1>1
<1>8. CASE Differ(kd, a[i], b[j])
  <2>1. /\ s \in Seq(LineSet) /\ Len(s) = Len(r) + 1
        /\ Named("DISAPPEARED", s) = Named("DISAPPEARED", r)
        /\ Named("CHANGED", s) = Named("CHANGED", r) \cup {k}
        /\ Named("APPEARED", s) = Named("APPEARED", r)
    <3> HIDE DEF l
    <3>1. /\ s \in Seq(LineSet) /\ Len(s) = Len(r) + 1
          /\ \A what : Named(what, s) =
               Named(what, r) \cup (IF l.what = what THEN {l.key} ELSE {})
      BY <1>3, Cons
    <3> HIDE DEF s
    <3> QED
      BY <1>3, <3>1
  <2>2. /\ Due(kd, a, b, i, j) = Due(kd, a, b, i + 1, j + 1) \cup {k}
        /\ k \notin Due(kd, a, b, i + 1, j + 1)
    BY <1>1, <1>2, <1>7, <1>8 DEF Due
  <2>3. /\ IsFiniteSet(Due(kd, a, b, i, j))
        /\ Cardinality(Due(kd, a, b, i, j)) = Cardinality(Due(kd, a, b, i + 1, j + 1)) + 1
    BY <2>2, DueMore DEF Right
  <2> HIDE DEF s, k
  <2>4. Differing(kd, a, b, i, j) = Differing(kd, a, b, i + 1, j + 1) \cup {k}
    BY <1>2, <1>8
  <2>5. Right(kd, a, b, s, i, j)
    BY <1>7, <2>1, <2>3, <2>4 DEF Right
  <2> QED
    BY <1>8, <2>5 DEF s, k
<1>9. CASE ~Differ(kd, a[i], b[j])
  <2>1. Due(kd, a, b, i, j) = Due(kd, a, b, i + 1, j + 1)
    BY <1>2, <1>7, <1>9 DEF Due
  <2>2. Differing(kd, a, b, i, j) = Differing(kd, a, b, i + 1, j + 1)
    BY <1>2, <1>9
  <2>3. Right(kd, a, b, r, i, j)
    BY <1>7, <2>1, <2>2 DEF Right
  <2>4. << >> \o r = r
    BY <1>3
  <2> QED
    BY <1>9, <2>3, <2>4
<1> QED
  BY <1>8, <1>9

-----------------------------------------------------------------------------
(* Layer 5.  The whole report.                                               *)

\* Behind the last row there is nothing, and no line is due.
LEMMA NothingLeft ==
  ASSUME NEW kd, NEW a \in RowsOf, NEW b \in RowsOf
  PROVE  /\ From(a, Len(a) + 1) = {} /\ From(b, Len(b) + 1) = {}
         /\ Right(kd, a, b, << >>, Len(a) + 1, Len(b) + 1)
<1>1. Len(a) \in Nat /\ Len(b) \in Nat
  BY RowFacts
<1>2. (Len(a) + 1)..Len(a) = {} /\ (Len(b) + 1)..Len(b) = {}
  BY <1>1
<1>3. From(a, Len(a) + 1) = {} /\ From(b, Len(b) + 1) = {}
  BY <1>2 DEF From
<1>4. Differing(kd, a, b, Len(a) + 1, Len(b) + 1) = {}
  BY <1>2 DEF Differing
<1>5. Due(kd, a, b, Len(a) + 1, Len(b) + 1) = {}
  BY <1>3, <1>4 DEF Due
<1>6. << >> \in Seq(LineSet) /\ Len(<< >>) = 0 /\ \A what : Named(what, << >>) = {}
  BY DEF Named
<1> QED
  BY <1>3, <1>4, <1>5, <1>6, FS_EmptySet DEF Right

\* A key before the one of a row is not among those from there on.
LEMMA KeyLess ==
  ASSUME NEW s \in RowsOf, Ascending(s), NEW i \in 1..Len(s), NEW k \in Nat,
         k < s[i].key
  PROVE  k \notin From(s, i)
<1>1. s[i].key \in Nat
  BY RowFacts
<1>2. /\ From(s, i) = From(s, i + 1) \cup {s[i].key}
      /\ \A x \in From(s, i + 1) : x \in Nat /\ s[i].key < x
  BY FromSplit
<1>3. k # s[i].key /\ ~(s[i].key < k)
  BY <1>1
<1> QED
  BY <1>2, <1>3

\* What is written from a pair of rows on is right, if what is written later is.
LEMMA WrittenRight ==
  ASSUME NEW kd, NEW a \in RowsOf, NEW b \in RowsOf, Ascending(a), Ascending(b),
         NEW f, NEW i \in 1..(Len(a) + 1), NEW j \in 1..(Len(b) + 1),
         \A x \in 1..(Len(a) + 1), y \in 1..(Len(b) + 1) :
           Left(a, b, x, y) < Left(a, b, i, j) => Right(kd, a, b, f[<<x, y>>], x, y)
  PROVE  Right(kd, a, b, Written(kd, a, b, f, i, j), i, j)
<1>n. Len(a) \in Nat /\ Len(b) \in Nat /\ i \in Nat /\ j \in Nat
  BY RowFacts
<1>m. /\ i <= Len(a) => i \in 1..Len(a) /\ a[i].key \in Nat
      /\ j <= Len(b) => j \in 1..Len(b) /\ b[j].key \in Nat
  <2>1. i <= Len(a) => i \in 1..Len(a)
    BY <1>n
  <2>2. j <= Len(b) => j \in 1..Len(b)
    BY <1>n
  <2> QED
    BY <2>1, <2>2, RowFacts
<1>l. /\ Left(a, b, i, j) \in Nat
      /\ i <= Len(a) => Left(a, b, i + 1, j) = Left(a, b, i, j) - 1
      /\ j <= Len(b) => Left(a, b, i, j + 1) = Left(a, b, i, j) - 1
      /\ i <= Len(a) /\ j <= Len(b) =>
           Left(a, b, i + 1, j + 1) = Left(a, b, i, j) - 2
      /\ i <= Len(a) => i + 1 \in 1..(Len(a) + 1)
      /\ j <= Len(b) => j + 1 \in 1..(Len(b) + 1)
  BY PairsLater
<1>1. ASSUME i <= Len(a) PROVE Right(kd, a, b, f[<<i + 1, j>>], i + 1, j)
  <2>1. Left(a, b, i + 1, j) < Left(a, b, i, j) /\ i + 1 \in 1..(Len(a) + 1)
    BY <1>l, <1>1
  <2> QED
    BY <2>1
<1>2. ASSUME j <= Len(b) PROVE Right(kd, a, b, f[<<i, j + 1>>], i, j + 1)
  <2>1. Left(a, b, i, j + 1) < Left(a, b, i, j) /\ j + 1 \in 1..(Len(b) + 1)
    BY <1>l, <1>2
  <2> QED
    BY <2>1
<1>3. ASSUME i <= Len(a), j <= Len(b) PROVE Right(kd, a, b, f[<<i + 1, j + 1>>], i + 1, j + 1)
  <2>1. /\ Left(a, b, i + 1, j + 1) < Left(a, b, i, j)
        /\ i + 1 \in 1..(Len(a) + 1) /\ j + 1 \in 1..(Len(b) + 1)
    BY <1>l, <1>3
  <2> QED
    BY <2>1
<1>4. CASE i <= Len(a) /\ j <= Len(b) /\ a[i].key = b[j].key
  <2>1. i \in 1..Len(a) /\ j \in 1..Len(b)
        /\ Right(kd, a, b, f[<<i + 1, j + 1>>], i + 1, j + 1)
    BY <1>n, <1>m, <1>3, <1>4
  <2>2. Right(kd, a, b, (IF Differ(kd, a[i], b[j]) THEN <<Line("CHANGED", a[i].key)>>
                           ELSE << >>) \o f[<<i + 1, j + 1>>], i, j)
    BY <1>4, <2>1, SameLine
  <2> QED
    BY <1>4, <2>2 DEF Written
<1>5. CASE i <= Len(a) /\ (j <= Len(b) => a[i].key < b[j].key)
  <2>1. i \in 1..Len(a) /\ Right(kd, a, b, f[<<i + 1, j>>], i + 1, j)
    BY <1>n, <1>m, <1>1, <1>5
  <2>2. a[i].key \notin From(b, j)
    <3>1. CASE j <= Len(b)
      BY <1>m, <1>5, <3>1, KeyLess
    <3>2. CASE ~(j <= Len(b))
      <4>1. j = Len(b) + 1
        BY <1>n, <1>m, <3>2
      <4> QED
        BY <4>1, NothingLeft
    <3> QED
      BY <3>1, <3>2
  <2>3. Right(kd, a, b, <<Line("DISAPPEARED", a[i].key)>> \o f[<<i + 1, j>>], i, j)
    BY <1>n, <1>m, <2>1, <2>2, GoneLine
  <2>4. j <= Len(b) => a[i].key # b[j].key
    BY <1>n, <1>m, <1>5
  <2> QED
    BY <1>5, <2>3, <2>4 DEF Written
<1>6. CASE j <= Len(b) /\ (i <= Len(a) => b[j].key < a[i].key)
  <2>1. j \in 1..Len(b) /\ Right(kd, a, b, f[<<i, j + 1>>], i, j + 1)
    BY <1>n, <1>m, <1>2, <1>6
  <2>2. b[j].key \notin From(a, i)
    <3>1. CASE i <= Len(a)
      BY <1>m, <1>6, <3>1, KeyLess
    <3>2. CASE ~(i <= Len(a))
      <4>1. i = Len(a) + 1
        BY <1>n, <1>m, <3>2
      <4> QED
        BY <4>1, NothingLeft
    <3> QED
      BY <3>1, <3>2
  <2>3. ASSUME NEW c \in Int, kd = "PROC" => c = b[j].key
        PROVE  Right(kd, a, b, <<Line("APPEARED", c)>> \o f[<<i, j + 1>>], i, j)
    BY <1>n, <1>m, <2>1, <2>2, <2>3, NewLine
  <2>4. CASE i <= Len(a)
    <3>1. a[i].key # b[j].key /\ ~(a[i].key < b[j].key)
      BY <1>n, <1>m, <1>6, <2>4
    <3>2. Right(kd, a, b, <<Line("APPEARED", b[j].key)>> \o f[<<i, j + 1>>], i, j)
      BY <1>n, <1>m, <2>1, <2>3
    <3> QED
      BY <1>6, <2>4, <3>1, <3>2 DEF Written
  <2>5. CASE ~(i <= Len(a))
    <3> DEFINE c == KeyAt(b, TailIndex(kd, i, j))
    <3>1. c \in Int
      BY RowFacts DEF KeyAt, WildKey
    <3>2. kd = "PROC" => c = b[j].key
      BY <2>1 DEF KeyAt, TailIndex
    <3> HIDE DEF c
    <3>3. Right(kd, a, b, <<Line("APPEARED", c)>> \o f[<<i, j + 1>>], i, j)
      BY <2>3, <3>1, <3>2
    <3> QED
      BY <1>6, <2>5, <3>3 DEF Written, c
  <2> QED
    BY <2>4, <2>5
<1>7. CASE ~(i <= Len(a)) /\ ~(j <= Len(b))
  <2>1. i = Len(a) + 1 /\ j = Len(b) + 1
    BY <1>n, <1>m, <1>7
  <2>2. Written(kd, a, b, f, i, j) = << >>
    BY <1>7 DEF Written
  <2> QED
    BY <2>1, <2>2, NothingLeft
<1>8. i <= Len(a) /\ j <= Len(b) =>
        a[i].key = b[j].key \/ a[i].key < b[j].key \/ b[j].key < a[i].key
  BY <1>n, <1>m
<1> QED
  BY <1>4, <1>5, <1>6, <1>7, <1>8

\* The lines from the first pair of rows on.
LEMMA MergeRight ==
  ASSUME NEW kd, NEW a \in RowsOf, NEW b \in RowsOf, Ascending(a), Ascending(b)
  PROVE  Right(kd, a, b, Merge(kd, a, b), 1, 1)
<1> DEFINE X == 1..(Len(a) + 1)
           Y == 1..(Len(b) + 1)
<1>0. Len(a) \in Nat /\ Len(b) \in Nat
  BY RowFacts
<1>1. PICK f : /\ f = [at \in Pairs(a, b) |-> Written(kd, a, b, f, at[1], at[2])]
               /\ Merge(kd, a, b) = f[<<1, 1>>]
  BY ZenonT(30), LinesExist DEF Merge, Pairs
<1>2. \A x \in X, y \in Y : f[<<x, y>>] = Written(kd, a, b, f, x, y)
  <2> SUFFICES ASSUME NEW x \in X, NEW y \in Y
               PROVE  f[<<x, y>>] = Written(kd, a, b, f, x, y)
    OBVIOUS
  <2>1. <<x, y>> \in Pairs(a, b)
    BY DEF Pairs
  <2>2. \A at \in Pairs(a, b) : f[at] = Written(kd, a, b, f, at[1], at[2])
    BY <1>1, Zenon
  <2>3. f[<<x, y>>] = Written(kd, a, b, f, <<x, y>>[1], <<x, y>>[2])
    BY <2>1, <2>2
  <2> QED
    BY <2>3
<1>3. \A x \in X, y \in Y : Left(a, b, x, y) \in Nat
  <2> SUFFICES ASSUME NEW x \in X, NEW y \in Y PROVE Left(a, b, x, y) \in Nat
    OBVIOUS
  <2> QED
    BY PairsLater
<1> DEFINE S == {m \in Nat : \A x \in X, y \in Y :
                   Left(a, b, x, y) < m => Right(kd, a, b, f[<<x, y>>], x, y)}
<1>4. 0 \in S
  BY <1>3
<1>5. ASSUME NEW m \in S PROVE m + 1 \in S
  <2> SUFFICES ASSUME NEW x \in X, NEW y \in Y, Left(a, b, x, y) < m + 1
               PROVE  Right(kd, a, b, f[<<x, y>>], x, y)
    OBVIOUS
  <2>1. \A u \in X, v \in Y : Left(a, b, u, v) < Left(a, b, x, y)
                                => Right(kd, a, b, f[<<u, v>>], u, v)
    BY <1>3
  <2>2. Right(kd, a, b, Written(kd, a, b, f, x, y), x, y)
    BY <2>1, WrittenRight
  <2> QED
    BY <1>2, <2>2
<1>6. S = Nat
  <2> HIDE DEF S
  <2>1. S \in SUBSET Nat
    BY DEF S
  <2> QED
    BY <1>4, <1>5, <2>1, Induct
<1>7. 1 \in X /\ 1 \in Y
  BY <1>0
<1>8. Left(a, b, 1, 1) \in Nat /\ Left(a, b, 1, 1) + 1 \in Nat
  BY <1>3, <1>7
<1>9. PICK m \in S : Left(a, b, 1, 1) < m
  BY <1>6, <1>8
<1>10. Right(kd, a, b, f[<<1, 1>>], 1, 1)
  BY <1>7, <1>9
<1> QED
  BY <1>1, <1>10

\* Among rows of different keys a key has one row.
LEMMA KeyedRow ==
  ASSUME NEW s \in RowsOf, Distinct(s), NEW x \in 1..Len(s)
  PROVE  Keyed(s, s[x].key) = s[x]
<1>1. s[x] \in {s[i] : i \in 1..Len(s)}
  OBVIOUS
<1>2. \A r \in {s[i] : i \in 1..Len(s)} : r.key = s[x].key => r = s[x]
  BY DEF Distinct
<1> QED
  BY <1>1, <1>2 DEF Keyed

\* The comparison of two rows, and of two values.
LEMMA DifferApart ==
  ASSUME kind \in {"IDX", "PROC"}, NEW r \in AnyRow, NEW t \in AnyRow
  PROVE  Differ(kind, r, t) <=> Apart(r.value, t.value)
<1>1. r.value \in Nat /\ t.value \in Nat /\ RssThreshold \in Nat
  BY ThresholdAssumption DEF AnyRow, ThresholdAssumption
<1>2. CASE kind = "IDX"
  BY <1>2 DEF Differ, Apart
<1>3. CASE kind = "PROC"
  BY <1>1, <1>3 DEF Differ, Apart, Distance
<1> QED
  BY <1>2, <1>3

\* The sorted rows have the keys of the rows, and the rows of the keys.
LEMMA SortedKeys ==
  ASSUME NEW s \in RowsOf, Distinct(s)
  PROVE  /\ From(Sorted(s), 1) = KeysOf(s)
         /\ \A k \in KeysOf(s) : \E x \in 1..Len(Sorted(s)) :
              Sorted(s)[x].key = k /\ Sorted(s)[x] = Keyed(s, k)
         /\ \A x \in 1..Len(Sorted(s)) :
              Sorted(s)[x] = Keyed(s, Sorted(s)[x].key) /\ Sorted(s)[x] \in AnyRow
<1> DEFINE a == Sorted(s)
<1>1. a \in RowsOf /\ {a[i] : i \in 1..Len(a)} = {s[i] : i \in 1..Len(s)}
  BY SortedRows
<1> HIDE DEF a
<1>2. \A x \in 1..Len(a) : \E i \in 1..Len(s) : a[x] = s[i]
  BY <1>1
<1>3. \A i \in 1..Len(s) : \E x \in 1..Len(a) : a[x] = s[i]
  BY <1>1
<1>4. From(a, 1) = KeysOf(s)
  <2>1. ASSUME NEW k \in From(a, 1) PROVE k \in KeysOf(s)
    <3>1. PICK x \in 1..Len(a) : k = a[x].key
      BY <2>1 DEF From
    <3>2. PICK i \in 1..Len(s) : a[x] = s[i]
      BY <1>2, <3>1
    <3> QED
      BY <3>1, <3>2 DEF KeysOf
  <2>2. ASSUME NEW k \in KeysOf(s) PROVE k \in From(a, 1)
    <3>1. PICK i \in 1..Len(s) : k = s[i].key
      BY <2>2 DEF KeysOf
    <3>2. PICK x \in 1..Len(a) : a[x] = s[i]
      BY <1>3, <3>1
    <3> QED
      BY <3>1, <3>2 DEF From
  <2> QED
    BY <2>1, <2>2
<1>5. ASSUME NEW k \in KeysOf(s)
      PROVE  \E x \in 1..Len(a) : a[x].key = k /\ a[x] = Keyed(s, k)
  <2>1. PICK i \in 1..Len(s) : k = s[i].key
    BY DEF KeysOf
  <2>2. PICK x \in 1..Len(a) : a[x] = s[i]
    BY <1>3
  <2> QED
    BY <2>1, <2>2, KeyedRow
<1>6. ASSUME NEW x \in 1..Len(a) PROVE a[x] = Keyed(s, a[x].key) /\ a[x] \in AnyRow
  <2>1. PICK i \in 1..Len(s) : a[x] = s[i]
    BY <1>2
  <2> QED
    BY <2>1, KeyedRow, RowFacts
<1> QED
  BY <1>4, <1>5, <1>6 DEF a

\* The report on two snapshots with a row for each key.
LEMMA ReportLines ==
  ASSUME kind \in {"IDX", "PROC"},
         NEW s \in RowsOf, NEW t \in RowsOf, Distinct(s), Distinct(t)
  PROVE  LET r == Report(kind, s, t) IN
           /\ Named("DISAPPEARED", r) = Gone(s, t)
           /\ Named("CHANGED", r) = Changed(s, t)
           /\ Len(r) = Cardinality(Gone(s, t) \cup Gone(t, s) \cup Changed(s, t))
           /\ kind = "PROC" => Named("APPEARED", r) = Gone(t, s)
<1> DEFINE a == Sorted(s)
           b == Sorted(t)
           r == Report(kind, s, t)
<1>1. a \in RowsOf /\ b \in RowsOf /\ Ascending(a) /\ Ascending(b)
  BY SortedRows
<1>2. From(a, 1) = KeysOf(s) /\ From(b, 1) = KeysOf(t)
  BY SortedKeys
<1>3. \A x \in 1..Len(a) : a[x] = Keyed(s, a[x].key) /\ a[x] \in AnyRow
  BY SortedKeys
<1>4. \A y \in 1..Len(b) : b[y] = Keyed(t, b[y].key) /\ b[y] \in AnyRow
  BY SortedKeys
<1>5. \A k \in KeysOf(s) : \E x \in 1..Len(a) : a[x].key = k /\ a[x] = Keyed(s, k)
  BY SortedKeys
<1>6. \A k \in KeysOf(t) : \E y \in 1..Len(b) : b[y].key = k /\ b[y] = Keyed(t, k)
  BY SortedKeys
<1> HIDE DEF a, b
<1>7. Differing(kind, a, b, 1, 1) = Changed(s, t)
  <2>1. ASSUME NEW k \in Differing(kind, a, b, 1, 1) PROVE k \in Changed(s, t)
    <3>1. PICK x \in 1..Len(a), y \in 1..Len(b) :
            k = a[x].key /\ a[x].key = b[y].key /\ Differ(kind, a[x], b[y])
      BY DEF Differing
    <3>2. Apart(a[x].value, b[y].value) /\ a[x] = Keyed(s, k) /\ b[y] = Keyed(t, k)
      BY <1>3, <1>4, <3>1, DifferApart
    <3>3. k \in KeysOf(s) \cap KeysOf(t)
      BY <1>2, <3>1 DEF From
    <3> QED
      BY <3>2, <3>3 DEF Changed
  <2>2. ASSUME NEW k \in Changed(s, t) PROVE k \in Differing(kind, a, b, 1, 1)
    <3>1. k \in KeysOf(s) /\ k \in KeysOf(t) /\ Apart(Keyed(s, k).value, Keyed(t, k).value)
      BY DEF Changed
    <3>2. PICK x \in 1..Len(a) : a[x].key = k /\ a[x] = Keyed(s, k)
      BY <1>5, <3>1
    <3>3. PICK y \in 1..Len(b) : b[y].key = k /\ b[y] = Keyed(t, k)
      BY <1>6, <3>1
    <3>4. Differ(kind, a[x], b[y])
      BY <1>3, <1>4, <3>1, <3>2, <3>3, DifferApart
    <3> QED
      BY <3>2, <3>3, <3>4 DEF Differing
  <2> QED
    BY <2>1, <2>2
<1>8. Right(kind, a, b, Merge(kind, a, b), 1, 1)
  BY <1>1, MergeRight
<1>9. r = Merge(kind, a, b)
  BY DEF Report, a, b
<1>10. Due(kind, a, b, 1, 1) = Gone(s, t) \cup Gone(t, s) \cup Changed(s, t)
  BY <1>2, <1>7 DEF Due, Gone
<1> HIDE DEF r
<1>11. /\ Named("DISAPPEARED", r) = Gone(s, t) /\ Named("CHANGED", r) = Changed(s, t)
       /\ Len(r) = Cardinality(Gone(s, t) \cup Gone(t, s) \cup Changed(s, t))
       /\ kind = "PROC" => Named("APPEARED", r) = Gone(t, s)
  BY <1>2, <1>7, <1>8, <1>9, <1>10 DEF Right, Gone
<1> QED
  BY <1>11 DEF r

-----------------------------------------------------------------------------
(* Layer 6.  The rows db_diff reads.                                         *)

\* The count db_diff has read is one the writer has reached.
Awaited == ~shared /\ ~torn /\ rpc = "rows" => rn <= hdr[COUNT]

\* One writer at a time never takes a row back.
LEMMA CountGrows ==
  ASSUME NEW p \in Writers, Turn(p)
  PROVE  hdr[COUNT] <= hdr'[COUNT] /\ UNCHANGED <<rpc, rn>>
<1>0. hdr[COUNT] \in Nat
  BY TurnFacts
<1>1. hdr'[COUNT] = hdr[COUNT] \/ hdr'[COUNT] = hdr[COUNT] + 1
  <2>1. CASE ~Writing(p)
    <3>1. UNCHANGED Seen
      BY <2>1, SeenKept
    <3> QED
      BY <3>1 DEF Seen
  <2>2. CASE WriteHeader(p)
    BY <2>2, MineHeader
  <2>3. CASE ReplaceRow(p) \/ InsertRow(p)
    <3>1. UNCHANGED hdr
      BY <2>3, MineReplace, MineInsert
    <3> QED
      BY <3>1
  <2>4. CASE AddWrite(p)
    BY <2>4, MineAdd
  <2>5. CASE Seal(p)
    BY <2>5, MineSeal
  <2> QED
    BY <2>1, <2>2, <2>3, <2>4, <2>5 DEF Writing
<1>2. hdr[COUNT] <= hdr'[COUNT]
  BY <1>0, <1>1
<1>3. UNCHANGED <<rpc, rn>>
  BY DEF reader, Turn, Step, Connect, Create, WriteHeader, CheckSealed,
     Access, JoinRead, JoinWrite, Traverse, SkipEntry, HashForever, BeginUpsert, Listed,
     Upsert, LockRow, CompareRow, LockFound, ReplaceRow, LockFree, SkipLocked, InsertRow,
     AddRead, AddWrite, Close, LeaveRead, LeaveUncounted, LeaveLast, LeaveOthers, Seal,
     Kill
<1> QED
  BY <1>2, <1>3

LEMMA AwaitedNext == Owned /\ Awaited /\ [Next]_vars => Awaited'
<1> SUFFICES ASSUME Owned, Awaited, [Next]_vars, ~shared', ~torn', rpc' = "rows"
             PROVE  rn' <= hdr'[COUNT]
  BY DEF Awaited
<1>0. Types /\ Types' /\ Invariants'
  BY InvariantsNext DEF Owned, Invariants
<1>1. ASSUME NEW p \in Writers, Step(p) \/ Kill(p) PROVE rn' <= hdr'[COUNT]
  <2>1. Turn(p)
    BY <1>0, <1>1 DEF Turn
  <2>2. ~shared /\ ~torn /\ hdr[COUNT] \in Nat
    BY <2>1, TurnFacts
  <2>3. rn <= hdr[COUNT] /\ rn' = rn /\ hdr[COUNT] <= hdr'[COUNT]
    BY <2>1, <2>2, CountGrows DEF Awaited
  <2>4. rn \in Nat /\ hdr'[COUNT] \in Nat
    <3>1. (Types => hdr[COUNT] \in Nat)'
      BY Numbers, PTL
    <3> QED
      BY <1>0, <3>1 DEF Types, PastTypes
  <2> QED
    BY <2>2, <2>3, <2>4
<1>2. CASE DiffCount
  BY <1>0, <1>2, Numbers DEF DiffCount, file
<1>3. CASE DiffRead
  BY <1>3 DEF DiffRead
<1>4. CASE UNCHANGED vars
  BY <1>4 DEF vars, file, past, reader, Awaited
<1> QED
  BY <1>1, <1>2, <1>3, <1>4 DEF Next, Terminated, Diff

THEOREM AwaitedInvariant == Spec => []Awaited
<1>1. Init => Awaited
  BY DEF Init, Awaited
<1> QED
  BY <1>1, AwaitedNext, OwnedInvariant, PTL DEF Spec

\* What db_diff compares has one row for each key.
LEMMA DiffRowsDistinct ==
  ASSUME Owned, Awaited, rpc = "rows", ~shared, ~torn
  PROVE  DiffRows \in RowsOf /\ Distinct(DiffRows)
<1>0. /\ rn \in Nat /\ hdr[COUNT] \in Nat /\ Len(rows) \in Nat /\ rows \in Seq(RowType)
      /\ rn <= hdr[COUNT] /\ Filled
  BY Numbers DEF Owned, Mine, Awaited, Invariants, Types, FileTypes, PastTypes
<1>1. hdr[COUNT] <= Len(rows)
  BY <1>0 DEF Filled
<1>2. RowType \subseteq AnyRow
  <2>1. Keys \cup {0} \subseteq Nat
    BY KeysAssumption DEF KeysAssumption
  <2> QED
    BY <2>1 DEF RowType, AnyRow
<1>3. \A i \in 1..rn : i \in 1..hdr[COUNT] /\ i <= Len(rows) /\ i \in 1..Len(rows)
  BY <1>0, <1>1
<1>4. \A i \in 1..rn : rows[i] \in AnyRow
  BY <1>0, <1>2, <1>3
<1>5. DiffRows = [i \in 1..rn |-> rows[i]]
  BY <1>3 DEF DiffRows
<1>6. DiffRows \in RowsOf /\ Len(DiffRows) = rn /\ \A i \in 1..rn : DiffRows[i] = rows[i]
  BY <1>0, <1>4, <1>5 DEF RowsOf
<1>7. Distinct(DiffRows)
  BY <1>0, <1>3, <1>6 DEF Distinct, Filled
<1> QED
  BY <1>6, <1>7

\* Whenever db_diff reads a snapshot that one writer at a time fills, its report
\* has the line it should for each key, once, for every older snapshot.
THEOREM ReportInvariant == Spec => []ReportRight
<1>1. Owned /\ Awaited => ReportRight
  <2> SUFFICES ASSUME Owned, Awaited, rpc = "rows", ~shared, ~torn,
                      NEW old \in OldSnapshots
               PROVE  LET r == Report(kind, old, DiffRows) IN
                 /\ Named("DISAPPEARED", r) = Gone(old, DiffRows)
                 /\ Named("CHANGED", r) = Changed(old, DiffRows)
                 /\ Len(r) = Cardinality(Gone(old, DiffRows) \cup Gone(DiffRows, old)
                                         \cup Changed(old, DiffRows))
                 /\ kind = "PROC" => Named("APPEARED", r) = Gone(DiffRows, old)
    BY DEF ReportRight
  <2>1. kind \in {"IDX", "PROC"}
    BY KindsAssumption DEF KindsAssumption, Owned, Invariants, Types, FileTypes
  <2>2. old \in RowsOf /\ Distinct(old)
    BY OldAssumption DEF OldAssumption, RowsOf, AnyRow, Distinct
  <2>3. DiffRows \in RowsOf /\ Distinct(DiffRows)
    BY DiffRowsDistinct
  <2> HIDE DEF DiffRows
  <2> QED
    BY <2>1, <2>2, <2>3, ReportLines
<1> QED
  BY <1>1, OwnedInvariant, AwaitedInvariant, PTL
=============================================================================
