-------------------------- MODULE InspectionProofs --------------------------
(***************************************************************************)
(* Proofs about the readers of Inspection and ProjectionReads: for any     *)
(* stores to start from, any keys, queries, page sizes and streams, and    *)
(* any number of commits between the pages.                                *)
(***************************************************************************)
EXTENDS Inspection, FiniteSetTheorems, SequenceTheorems, TLAPS

----------------------------------------------------------------------------
(* Pages: the first rows of a finite set in a linear order                 *)

(* The pairs of R order the elements of S, one after the other *)
Orders(R, S) ==
  /\ \A r \in S : <<r, r>> \notin R
  /\ \A r, s, t \in S : <<r, s>> \in R /\ <<s, t>> \in R => <<r, t>> \in R
  /\ \A r, s \in S : r = s \/ <<r, s>> \in R \/ <<s, r>> \in R

(* The elements of S before r in the order R, and how many there are *)
Below(R, S, r) == {s \in S : <<s, r>> \in R}
Rank(R, S, r) == Cardinality(Below(R, S, r))

(* The ranks of a finite set grow with its order. *)
LEMMA RanksGrow ==
  ASSUME NEW S, IsFiniteSet(S), NEW R, Orders(R, S)
  PROVE  /\ \A r \in S : Rank(R, S, r) \in 0..(Cardinality(S) - 1)
         /\ \A r, s \in S : <<r, s>> \in R => Rank(R, S, r) < Rank(R, S, s)
<1>1. Cardinality(S) \in Nat
  BY FS_CardinalityType
<1>2. ASSUME NEW r \in S
      PROVE  Rank(R, S, r) \in 0..(Cardinality(S) - 1)
  <2>1. Below(R, S, r) \in SUBSET S /\ Below(R, S, r) # S
    BY DEF Below, Orders
  <2>2. IsFiniteSet(Below(R, S, r)) /\ Rank(R, S, r) <= Cardinality(S)
        /\ Rank(R, S, r) # Cardinality(S)
    BY <2>1, FS_Subset DEF Rank
  <2>3. Rank(R, S, r) \in Nat
    BY <2>2, FS_CardinalityType DEF Rank
  <2> QED
    BY <1>1, <2>2, <2>3
<1>3. ASSUME NEW r \in S, NEW s \in S, <<r, s>> \in R
      PROVE  Rank(R, S, r) < Rank(R, S, s)
  <2>1. /\ Below(R, S, s) \in SUBSET S
        /\ Below(R, S, r) \in SUBSET Below(R, S, s)
        /\ r \in Below(R, S, s) /\ r \notin Below(R, S, r)
    BY <1>3 DEF Below, Orders
  <2>2. IsFiniteSet(Below(R, S, s))
    BY <2>1, FS_Subset
  <2>3. Rank(R, S, r) <= Rank(R, S, s) /\ Rank(R, S, r) # Rank(R, S, s)
    BY <2>1, <2>2, FS_Subset DEF Rank
  <2> QED
    BY <1>2, <2>3
<1> QED
  BY <1>2, <1>3

(* Every rank below the size of the set is taken, by one element. *)
LEMMA RanksTaken ==
  ASSUME NEW S, IsFiniteSet(S), NEW R, Orders(R, S)
  PROVE  /\ \A i \in 0..(Cardinality(S) - 1) : \E r \in S : Rank(R, S, r) = i
         /\ \A r, s \in S : Rank(R, S, r) = Rank(R, S, s) => r = s
         /\ \A r, s \in S : Rank(R, S, r) < Rank(R, S, s) => <<r, s>> \in R
<1> DEFINE n == Cardinality(S)
           f == [r \in S |-> Rank(R, S, r)]
<1>1. n \in Nat
  BY FS_CardinalityType
<1>2. /\ \A r \in S : Rank(R, S, r) \in 0..(n - 1)
      /\ \A r, s \in S : <<r, s>> \in R => Rank(R, S, r) < Rank(R, S, s)
  BY RanksGrow
<1>3. ASSUME NEW r \in S, NEW s \in S
      PROVE  /\ Rank(R, S, r) = Rank(R, S, s) => r = s
             /\ Rank(R, S, r) < Rank(R, S, s) => <<r, s>> \in R
  <2>1. /\ Rank(R, S, r) \in Int /\ Rank(R, S, s) \in Int
        /\ <<r, s>> \in R => Rank(R, S, r) < Rank(R, S, s)
        /\ <<s, r>> \in R => Rank(R, S, s) < Rank(R, S, r)
    BY <1>2
  <2>2. r = s \/ <<r, s>> \in R \/ <<s, r>> \in R
    BY DEF Orders
  <2> QED
    BY <2>1, <2>2
<1>5. f \in Injection(S, 0..(n - 1))
  BY <1>2, <1>3 DEF Injection, IsInjective
<1>6. IsFiniteSet(0..(n - 1)) /\ Cardinality(0..(n - 1)) = n
  BY <1>1, FS_Interval
<1>7. f \in Surjection(S, 0..(n - 1))
  <2> HIDE DEF f
  <2> QED
    BY <1>5, <1>6, FS_Injection
<1>8. \A i \in 0..(n - 1) : \E r \in S : f[r] = i
  <2> HIDE DEF f, n
  <2> QED
    BY <1>7 DEF Surjection
<1> QED
  BY <1>3, <1>8

(* f lists the first n elements of S in the order R *)
IsPage(f, n, S, R) ==
  /\ f \in Seq(S)
  /\ Len(f) <= n
  /\ \A i, j \in 1..Len(f) : i < j => <<f[i], f[j]>> \in R
  /\ \A r \in S : \/ \E i \in 1..Len(f) : f[i] = r
                  \/ /\ Len(f) = n /\ n < Cardinality(S)
                     /\ \A i \in 1..Len(f) : <<f[i], r>> \in R

(* The smaller of two numbers. *)
LEMMA MinOfTwo ==
  ASSUME NEW m \in Nat, NEW n \in Nat
  PROVE  Min({m, n}) = IF m <= n THEN m ELSE n
<1>1. \E x \in {m, n} : \A y \in {m, n} : x <= y
  OBVIOUS
<1>2. Min({m, n}) \in {m, n} /\ \A y \in {m, n} : Min({m, n}) <= y
  BY <1>1 DEF Min
<1> QED
  BY <1>2

(* A sequence of elements in the order of their ranks is a page. *)
LEMMA RankedIsPage ==
  ASSUME NEW S, IsFiniteSet(S), NEW R, Orders(R, S), NEW n \in Nat,
         NEW m \in Nat, m = (IF n <= Cardinality(S) THEN n ELSE Cardinality(S)),
         NEW f \in [1..m -> S],
         \A i \in 1..m : Rank(R, S, f[i]) = i - 1
  PROVE  IsPage(f, n, S, R) /\ Len(f) = m
<1> DEFINE c == Cardinality(S)
<1>1. c \in Nat
  BY FS_CardinalityType
<1>2. m <= n /\ m <= c /\ (m = n \/ m = c)
  BY <1>1
<1>3. f \in Seq(S) /\ Len(f) = m
  OBVIOUS
<1>4. /\ \A r \in S : Rank(R, S, r) \in 0..(c - 1)
      /\ \A r, s \in S : Rank(R, S, r) = Rank(R, S, s) => r = s
      /\ \A r, s \in S : Rank(R, S, r) < Rank(R, S, s) => <<r, s>> \in R
  BY RanksGrow, RanksTaken
<1> HIDE DEF c
<1>5. ASSUME NEW i \in 1..m, NEW j \in 1..m, i < j
      PROVE  <<f[i], f[j]>> \in R
  <2>1. Rank(R, S, f[i]) = i - 1 /\ Rank(R, S, f[j]) = j - 1
    OBVIOUS
  <2>2. Rank(R, S, f[i]) < Rank(R, S, f[j])
    BY <1>5, <2>1
  <2> QED
    BY <1>4, <2>2
<1>6. ASSUME NEW r \in S, \A i \in 1..m : f[i] # r
      PROVE  m = n /\ n < c /\ \A i \in 1..m : <<f[i], r>> \in R
  <2>1. Rank(R, S, r) \in 0..(c - 1)
    BY <1>4
  <2>2. ASSUME NEW k \in 1..m, k - 1 = Rank(R, S, r)
        PROVE  FALSE
    <3>1. f[k] \in S /\ Rank(R, S, f[k]) = Rank(R, S, r)
      BY <2>2
    <3>2. f[k] = r
      BY <1>4, <3>1
    <3> QED
      BY <1>6, <3>2
  <2>3. m <= Rank(R, S, r)
    <3>1. CASE Rank(R, S, r) < m
      <4>1. Rank(R, S, r) + 1 \in 1..m /\ (Rank(R, S, r) + 1) - 1 = Rank(R, S, r)
        BY <1>1, <2>1, <3>1
      <4> QED
        BY <2>2, <4>1
    <3> QED
      BY <1>1, <2>1, <3>1
  <2>4. ASSUME NEW i \in 1..m PROVE <<f[i], r>> \in R
    <3>1. f[i] \in S /\ Rank(R, S, f[i]) = i - 1
      OBVIOUS
    <3>2. Rank(R, S, f[i]) < Rank(R, S, r)
      BY <1>1, <2>1, <2>3, <3>1
    <3> QED
      BY <1>4, <3>1, <3>2
  <2>5. m = n /\ n < c
    BY <1>1, <1>2, <2>1, <2>3
  <2> QED
    BY <2>4, <2>5
<1> QED
  BY <1>2, <1>3, <1>5, <1>6 DEF IsPage, c

----------------------------------------------------------------------------
(* Numbers                                                                 *)

(* A set of naturals has a least element. *)
LEMMA LeastNat ==
  ASSUME NEW T \in SUBSET Nat, T # {}
  PROVE  \E n \in T : \A m \in T : n <= m
<1> DEFINE R == OpToRel(<, Nat)
<1>1. IsWellFoundedOn(R, Nat)
  BY NatLessThanWellFounded
<1>2. \A x, y \in Nat : y < x => <<y, x>> \in R
  BY DEF OpToRel
<1> HIDE DEF R
<1>3. PICK n \in T : \A m \in T : ~ (<<m, n>> \in R)
  BY <1>1, WFMin
<1>4. \A m \in T : n <= m
  <2> TAKE m \in T
  <2>1. n \in Nat /\ m \in Nat /\ ~ (m < n)
    BY <1>2, <1>3
  <2> QED
    BY <2>1
<1> QED
  BY <1>3, <1>4

(* A finite set of naturals has a largest element, Max. *)
LEMMA MaxOfFinite ==
  ASSUME NEW T \in SUBSET Nat, T # {}, IsFiniteSet(T)
  PROVE  Max(T) \in T /\ \A m \in T : m <= Max(T)
<1> DEFINE R == {x \in T \X T : x[1] < x[2]}
<1>1. \A m, n \in T : <<m, n>> \in R <=> m < n
  OBVIOUS
<1>2. Orders(R, T)
  <2> HIDE DEF R
  <2>1. \A r \in T : <<r, r>> \notin R
    BY <1>1
  <2>2. \A r, s, t \in T : <<r, s>> \in R /\ <<s, t>> \in R => <<r, t>> \in R
    BY <1>1
  <2>3. ASSUME NEW r \in T, NEW s \in T PROVE r = s \/ <<r, s>> \in R \/ <<s, r>> \in R
    <3>1. r \in Nat /\ s \in Nat
      OBVIOUS
    <3>2. r = s \/ r < s \/ s < r
      BY <3>1
    <3> QED
      BY <1>1, <3>2
  <2> QED
    BY <2>1, <2>2, <2>3 DEF Orders
<1> HIDE DEF R
<1>3. Cardinality(T) \in Nat /\ Cardinality(T) # 0
  BY FS_CardinalityType, FS_EmptySet
<1>4. Cardinality(T) - 1 \in 0..(Cardinality(T) - 1)
  BY <1>3
<1>5. PICK n \in T : Rank(R, T, n) = Cardinality(T) - 1
  <2>1. /\ \A i \in 0..(Cardinality(T) - 1) : \E r \in T : Rank(R, T, r) = i
        /\ \A r, s \in T : Rank(R, T, r) = Rank(R, T, s) => r = s
        /\ \A r, s \in T : Rank(R, T, r) < Rank(R, T, s) => <<r, s>> \in R
    BY <1>2, RanksTaken
  <2> QED
    BY <1>4, <2>1
<1>6. ASSUME NEW m \in T PROVE n >= m
  <2>1. Rank(R, T, m) \in 0..(Cardinality(T) - 1) /\ (<<n, m>> \in R => Rank(R, T, n) < Rank(R, T, m))
    BY <1>2, RanksGrow
  <2>2. <<n, m>> \notin R
    BY <1>3, <1>5, <2>1
  <2> QED
    BY <1>1, <2>2
<1>7. Max(T) \in T /\ \A m \in T : Max(T) >= m
  BY <1>6 DEF Max
<1> QED
  BY <1>7

----------------------------------------------------------------------------
(* Byte strings                                                            *)

(* a is at an end, or lower than b, at i, and the two agree before *)
LowerAt(a, b, i) ==
  /\ i \in 1..Len(b) /\ i <= Len(a) + 1
  /\ \A j \in 1..(i - 1) : a[j] = b[j]
  /\ i <= Len(a) => a[i] < b[i]

(* A prefix of a byte string agrees with it. *)
LEMMA PrefixMeans ==
  ASSUME NEW a \in Seq(Bytes), NEW b \in Seq(Bytes)
  PROVE  IsPrefix(a, b) <=> Len(a) <= Len(b) /\ \A j \in 1..Len(a) : a[j] = b[j]
<1>1. SubSeq(a, 1, Len(a)) = a
  BY SubSeqFull
<1>2. ASSUME Len(a) <= Len(b)
      PROVE  SubSeq(b, 1, Len(a)) = a <=> \A j \in 1..Len(a) : a[j] = b[j]
  <2>1. Len(a) \in Nat /\ Len(b) \in Nat
    BY LenProperties
  <2>2. \A i \in 1..Len(a) : b[i] \in Bytes
    BY <1>2, <2>1, ElementOfSeq
  <2>3. /\ SubSeq(b, 1, Len(a)) \in Seq(Bytes)
        /\ Len(SubSeq(b, 1, Len(a))) = Len(a)
        /\ \A i \in 1..Len(a) : SubSeq(b, 1, Len(a))[i] = b[i]
    <3>1. /\ SubSeq(b, 1, Len(a)) \in Seq(Bytes)
          /\ Len(SubSeq(b, 1, Len(a))) = IF 1 <= Len(a) THEN Len(a) - 1 + 1 ELSE 0
          /\ \A i \in 1..(Len(a) - 1 + 1) : SubSeq(b, 1, Len(a))[i] = b[1 + i - 1]
      BY <2>1, <2>2, SubSeqProperties
    <3> QED
      BY <2>1, <3>1
  <2>4. (\A j \in 1..Len(a) : a[j] = b[j]) => SubSeq(b, 1, Len(a)) = a
    <3> HAVE \A j \in 1..Len(a) : a[j] = b[j]
    <3>1. \A j \in 1..Len(a) : SubSeq(b, 1, Len(a))[j] = a[j]
      BY <2>3
    <3> QED
      BY <2>3, <3>1, SeqEqual
  <2> QED
    BY <2>3, <2>4
<1> QED
  BY <1>1, <1>2 DEF IsPrefix

(* The order of BLOBs is decided at the first byte that differs. *)
LEMMA LessMeans ==
  ASSUME NEW a \in Seq(Bytes), NEW b \in Seq(Bytes)
  PROVE  Less(a, b) <=> \E i \in 1..Len(b) : LowerAt(a, b, i)
<1>1. /\ Len(a) \in Nat /\ Len(b) \in Nat
      /\ DOMAIN a = 1..Len(a) /\ DOMAIN b = 1..Len(b)
  BY LenProperties
<1>2. IsStrictPrefix(a, b) <=> LowerAt(a, b, Len(a) + 1)
  <2>1. ASSUME IsPrefix(a, b), a # b PROVE LowerAt(a, b, Len(a) + 1)
    <3>1. Len(a) <= Len(b) /\ \A j \in 1..Len(a) : a[j] = b[j]
      BY <2>1, PrefixMeans
    <3>2. Len(a) # Len(b)
      BY <2>1, <3>1, SeqEqual
    <3>3. ASSUME NEW m \in Nat, NEW n \in Nat, m <= n, m # n
          PROVE  m + 1 \in 1..n /\ ~ (m + 1 <= m) /\ (m + 1) - 1 = m
      BY <3>3
    <3>4. Len(a) + 1 \in 1..Len(b) /\ ~ (Len(a) + 1 <= Len(a)) /\ (Len(a) + 1) - 1 = Len(a)
      BY <1>1, <3>1, <3>2, <3>3
    <3> QED
      BY <3>1, <3>4 DEF LowerAt
  <2>2. ASSUME LowerAt(a, b, Len(a) + 1) PROVE IsPrefix(a, b) /\ a # b
    <3>1. Len(a) + 1 <= Len(b) /\ \A j \in 1..Len(a) : a[j] = b[j]
      BY <1>1, <2>2 DEF LowerAt
    <3> QED
      BY <1>1, <3>1, PrefixMeans
  <2> QED
    BY <2>1, <2>2 DEF IsStrictPrefix
<1>3. ASSUME NEW i \in DOMAIN a \cap DOMAIN b
      PROVE  (\A j \in 1..(i - 1) : a[j] = b[j]) /\ a[i] < b[i] <=> LowerAt(a, b, i)
  BY <1>1 DEF LowerAt
<1>4. ASSUME NEW i \in 1..Len(b), LowerAt(a, b, i)
      PROVE  i \in DOMAIN a \cap DOMAIN b \/ i = Len(a) + 1
  BY <1>1, <1>4 DEF LowerAt
<1>5. LowerAt(a, b, Len(a) + 1) => Len(a) + 1 \in 1..Len(b)
  BY DEF LowerAt
<1> QED
  BY <1>1, <1>2, <1>3, <1>4, <1>5 DEF Less

(* The order of BLOBs is linear. *)
LEMMA LessIrreflexive ==
  ASSUME NEW a \in Seq(Bytes)
  PROVE  ~Less(a, a)
<1>1. \A i \in 1..Len(a) : a[i] \in Int /\ i <= Len(a)
  BY ProjectionReadsAssumption, LenProperties, ElementOfSeq DEF Bytes
<1> QED
  BY <1>1, LessMeans DEF LowerAt

(* The order of keys is one. *)
LEMMA LessTransitive ==
  ASSUME NEW a \in Seq(Bytes), NEW b \in Seq(Bytes), NEW c \in Seq(Bytes),
         Less(a, b), Less(b, c)
  PROVE  Less(a, c)
<1>1. PICK i \in 1..Len(b) : LowerAt(a, b, i)
  BY LessMeans
<1>2. PICK k \in 1..Len(c) : LowerAt(b, c, k)
  BY LessMeans
<1>3. /\ Len(a) \in Nat /\ Len(b) \in Nat /\ Len(c) \in Nat
      /\ \A j \in 1..Len(a) : a[j] \in Int
      /\ \A j \in 1..Len(b) : b[j] \in Int
      /\ \A j \in 1..Len(c) : c[j] \in Int
  BY ProjectionReadsAssumption, LenProperties, ElementOfSeq DEF Bytes
<1>4. CASE i < k
  <2>1. i \in 1..Len(c) /\ i <= Len(a) + 1 /\ b[i] = c[i]
    BY <1>1, <1>2, <1>3, <1>4 DEF LowerAt
  <2>2. \A j \in 1..(i - 1) : a[j] = c[j]
    BY <1>1, <1>2, <1>3, <1>4 DEF LowerAt
  <2>3. i <= Len(a) => a[i] < c[i]
    BY <1>1, <2>1 DEF LowerAt
  <2> QED
    BY <2>1, <2>2, <2>3, LessMeans DEF LowerAt
<1>5. CASE i >= k
  <2>1. k \in 1..Len(b) /\ k <= Len(a) + 1 /\ b[k] < c[k]
    BY <1>1, <1>2, <1>3, <1>5 DEF LowerAt
  <2>2. \A j \in 1..(k - 1) : a[j] = c[j]
    BY <1>1, <1>2, <1>3, <1>5 DEF LowerAt
  <2>3. k <= Len(a) => a[k] < c[k]
    <3>1. CASE k < i
      BY <1>1, <1>3, <2>1, <3>1 DEF LowerAt
    <3>2. CASE k = i
      <4>1. k <= Len(a) => a[k] < b[k] /\ a[k] \in Int
        BY <1>1, <1>3, <3>2 DEF LowerAt
      <4> QED
        BY <1>3, <2>1, <4>1
    <3> QED
      BY <1>5, <3>1, <3>2
  <2> QED
    BY <2>1, <2>2, <2>3, LessMeans DEF LowerAt
<1> QED
  BY <1>4, <1>5

(* in which any two different keys are comparable, and no key precedes itself. *)
LEMMA LessTotal ==
  ASSUME NEW a \in Seq(Bytes), NEW b \in Seq(Bytes)
  PROVE  a = b \/ Less(a, b) \/ Less(b, a)
<1>1. /\ Len(a) \in Nat /\ Len(b) \in Nat
      /\ \A j \in 1..Len(a) : a[j] \in Int
      /\ \A j \in 1..Len(b) : b[j] \in Int
  BY ProjectionReadsAssumption, LenProperties, ElementOfSeq DEF Bytes
<1> DEFINE T == {i \in Nat \ {0} : i > Len(a) \/ i > Len(b) \/ a[i] # b[i]}
<1>2. T \in SUBSET Nat /\ Len(a) + 1 \in T
  BY <1>1
<1>3. PICK i \in T : \A m \in T : i <= m
  BY <1>2, LeastNat
<1>4. i \in Nat \ {0} /\ i <= Len(a) + 1
  BY <1>2, <1>3
<1>5. \A j \in 1..(i - 1) : j <= Len(a) /\ j <= Len(b) /\ a[j] = b[j]
  <2> TAKE j \in 1..(i - 1)
  <2>1. j \in Nat \ {0} /\ j < i /\ j \notin T
    BY <1>3, <1>4
  <2> QED
    BY <1>1, <2>1
<1>6. i <= Len(b) + 1
  BY <1>1, <1>4, <1>5
<1>7. i > Len(a) \/ i > Len(b) \/ a[i] # b[i]
  BY <1>3
<1> HIDE DEF T
<1>8. CASE i > Len(a) /\ i > Len(b)
  <2>1. Len(a) = Len(b) /\ \A j \in 1..Len(a) : a[j] = b[j]
    BY <1>1, <1>4, <1>5, <1>6, <1>8
  <2> QED
    BY <2>1, SeqEqual
<1>9. CASE i > Len(a) /\ i <= Len(b)
  <2>1. i \in 1..Len(b) /\ LowerAt(a, b, i)
    BY <1>1, <1>4, <1>5, <1>9 DEF LowerAt
  <2> QED
    BY <2>1, LessMeans
<1>10. CASE i <= Len(a) /\ i > Len(b)
  <2>1. i \in 1..Len(a) /\ LowerAt(b, a, i)
    BY <1>1, <1>4, <1>5, <1>6, <1>10 DEF LowerAt
  <2> QED
    BY <2>1, LessMeans
<1>11. CASE i <= Len(a) /\ i <= Len(b)
  <2>1. i \in 1..Len(a) /\ i \in 1..Len(b)
    BY <1>1, <1>4, <1>11
  <2>2. a[i] < b[i] \/ b[i] < a[i]
    BY <1>1, <1>7, <1>11, <2>1
  <2>3. LowerAt(a, b, i) \/ LowerAt(b, a, i)
    BY <1>1, <1>4, <1>5, <2>1, <2>2 DEF LowerAt
  <2> QED
    BY <2>1, <2>3, LessMeans
<1> QED
  BY <1>1, <1>4, <1>8, <1>9, <1>10, <1>11

(* What prefix_upper_bound computes: nothing if all bytes are 0xFF, and     *)
(* otherwise the prefix up to its last byte that is not, incremented.       *)
LEMMA UpperBoundMeans ==
  ASSUME NEW p \in Seq(Bytes)
  PROVE  \/ PrefixUpperBound(p) = NULL /\ \A i \in 1..Len(p) : p[i] = MaxByte
         \/ \E n \in 1..Len(p) :
              /\ PrefixUpperBound(p) \in Seq(Bytes) /\ Len(PrefixUpperBound(p)) = n
              /\ \A i \in 1..(n - 1) : PrefixUpperBound(p)[i] = p[i]
              /\ PrefixUpperBound(p)[n] = p[n] + 1
              /\ \A i \in (n + 1)..Len(p) : p[i] = MaxByte
<1> DEFINE Low == {i \in DOMAIN p : p[i] # MaxByte}
           n == Max(Low)
           u == [i \in 1..n |-> IF i = n THEN p[n] + 1 ELSE p[i]]
<1>1. DOMAIN p = 1..Len(p) /\ Len(p) \in Nat /\ MaxByte \in Nat
      /\ \A i \in 1..Len(p) : p[i] \in 0..MaxByte
  BY ProjectionReadsAssumption, LenProperties, ElementOfSeq DEF Bytes
<1>2. PrefixUpperBound(p) = IF Low = {} THEN NULL ELSE u
  BY DEF PrefixUpperBound
<1>3. CASE Low = {}
  BY <1>1, <1>2, <1>3
<1>4. CASE Low # {}
  <2>1. Low \in SUBSET (1..Len(p)) /\ Low \in SUBSET Nat
    BY <1>1
  <2>2. IsFiniteSet(Low)
    <3>1. IsFiniteSet(1..Len(p))
      BY <1>1, FS_Interval
    <3> QED
      BY <2>1, <3>1, FS_Subset
  <2>3. n \in Low /\ \A i \in Low : i <= n
    <3> HIDE DEF Low
    <3> QED
      BY <1>4, <2>1, <2>2, MaxOfFinite
  <2> HIDE DEF n
  <2>4. n \in 1..Len(p) /\ p[n] + 1 \in 0..MaxByte /\ \A i \in (n + 1)..Len(p) : p[i] = MaxByte
    BY <1>1, <2>1, <2>3
  <2>5. u \in [1..n -> Bytes]
    BY <1>1, <2>4 DEF Bytes
  <2>6. u \in Seq(Bytes) /\ Len(u) = n
    <3> HIDE DEF u
    <3> QED
      BY <2>4, <2>5
  <2>7. (\A i \in 1..(n - 1) : u[i] = p[i]) /\ u[n] = p[n] + 1
    BY <1>1, <2>4
  <2> HIDE DEF u
  <2> QED
    BY <1>2, <1>4, <2>4, <2>6, <2>7
<1> QED
  BY <1>3, <1>4

(* The range from a prefix to its upper bound holds exactly the keys with   *)
(* the prefix, also when the prefix ends in 0xFF bytes, or is empty         *)
(* (prefix_upper_bound; scan).                                              *)
THEOREM PrefixBoundIsExact ==
  ASSUME NEW p \in Seq(Bytes), NEW k \in Seq(Bytes)
  PROVE  IsPrefix(p, k) <=>
           /\ ~Less(k, p)
           /\ PrefixUpperBound(p) # NULL => Less(k, PrefixUpperBound(p))
<1> DEFINE u == PrefixUpperBound(p)
<1>1. /\ Len(p) \in Nat /\ Len(k) \in Nat /\ MaxByte \in Nat
      /\ \A i \in 1..Len(p) : p[i] \in 0..MaxByte
      /\ \A i \in 1..Len(k) : k[i] \in 0..MaxByte
  BY ProjectionReadsAssumption, LenProperties, ElementOfSeq DEF Bytes
<1>2. IsPrefix(p, k) => ~Less(k, p)
  <2> SUFFICES ASSUME IsPrefix(p, k), Less(k, p) PROVE FALSE
    OBVIOUS
  <2>1. Len(p) <= Len(k) /\ \A j \in 1..Len(p) : p[j] = k[j]
    BY PrefixMeans
  <2>2. PICK i \in 1..Len(p) : LowerAt(k, p, i)
    BY LessMeans
  <2>3. i <= Len(k) /\ k[i] = p[i] /\ k[i] \in Int
    BY <1>1, <2>1, <2>2
  <2> QED
    BY <2>2, <2>3 DEF LowerAt
<1>3. ASSUME ~IsPrefix(p, k), ~Less(k, p)
      PROVE  \E i \in 1..Len(p) : i \in 1..Len(k) /\ p[i] < k[i] /\ LowerAt(p, k, i)
  <2>1. IsPrefix(p, p)
    BY <1>1, PrefixMeans
  <2>2. Less(p, k)
    BY <1>3, <2>1, LessTotal
  <2>3. PICK i \in 1..Len(k) : LowerAt(p, k, i)
    BY <2>2, LessMeans
  <2>4. i <= Len(p)
    <3> SUFFICES ASSUME i = Len(p) + 1 PROVE FALSE
      BY <1>1, <2>3 DEF LowerAt
    <3>1. Len(p) <= Len(k) /\ \A j \in 1..Len(p) : p[j] = k[j]
      BY <1>1, <2>3 DEF LowerAt
    <3> QED
      BY <1>3, <3>1, PrefixMeans
  <2> QED
    BY <1>1, <2>3, <2>4 DEF LowerAt
<1>4. ASSUME u = NULL, \A i \in 1..Len(p) : p[i] = MaxByte
      PROVE  IsPrefix(p, k) <=> ~Less(k, p) /\ (u # NULL => Less(k, u))
  <2>1. ~IsPrefix(p, k) => Less(k, p)
    BY <1>1, <1>3, <1>4
  <2> QED
    BY <1>2, <1>4, <2>1
<1>5. ASSUME NEW n \in 1..Len(p), u \in Seq(Bytes), Len(u) = n,
             \A i \in 1..(n - 1) : u[i] = p[i], u[n] = p[n] + 1,
             \A i \in (n + 1)..Len(p) : p[i] = MaxByte
      PROVE  IsPrefix(p, k) <=> ~Less(k, p) /\ (u # NULL => Less(k, u))
  <2> HIDE DEF u
  <2>1. u # NULL
    BY <1>5, ProjectionReadsAssumption
  <2>2. \A i \in 1..n : u[i] \in Int
    BY <1>1, <1>5
  <2>3. ASSUME IsPrefix(p, k) PROVE Less(k, u)
    <3>1. Len(p) <= Len(k) /\ \A j \in 1..Len(p) : p[j] = k[j]
      BY <2>3, PrefixMeans
    <3>2. n \in 1..Len(u) /\ n <= Len(k) + 1 /\ k[n] < u[n]
      BY <1>1, <1>5, <3>1
    <3>3. \A j \in 1..(n - 1) : k[j] = u[j]
      BY <1>1, <1>5, <3>1
    <3>4. LowerAt(k, u, n)
      BY <3>2, <3>3 DEF LowerAt
    <3> QED
      BY <1>5, <3>2, <3>4, LessMeans
  <2>4. ASSUME ~Less(k, p), Less(k, u), ~IsPrefix(p, k) PROVE FALSE
    <3>1. PICK i \in 1..Len(p) : i \in 1..Len(k) /\ p[i] < k[i] /\ LowerAt(p, k, i)
      BY <1>3, <2>4
    <3>2. PICK l \in 1..Len(u) : LowerAt(k, u, l)
      BY <1>5, <2>4, LessMeans
    <3>3. i <= n
      BY <1>1, <1>5, <3>1
    <3>4. \A j \in 1..(i - 1) : k[j] = p[j] /\ k[j] = u[j]
      BY <1>1, <1>5, <3>1, <3>3 DEF LowerAt
    <3>5. k[i] >= u[i] /\ u[i] \in Int /\ k[i] \in Int
      BY <1>1, <1>5, <3>1, <3>3
    <3>6. l >= i
      <4> SUFFICES ASSUME l < i PROVE FALSE
        BY <1>1, <1>5
      <4>1. l \in 1..(i - 1) /\ l <= Len(k) /\ k[l] \in Int
        BY <1>1, <1>5, <3>1
      <4>2. k[l] = u[l] /\ k[l] < u[l]
        BY <3>2, <3>4, <4>1 DEF LowerAt
      <4> QED
        BY <4>1, <4>2
    <3>7. l > i
      <4> SUFFICES ASSUME l = i PROVE FALSE
        BY <1>1, <1>5, <3>6
      <4>1. l <= Len(k)
        BY <1>1, <3>1
      <4>2. k[i] < u[i]
        BY <3>2, <4>1 DEF LowerAt
      <4> QED
        BY <3>5, <4>2
    <3>8. i < n /\ k[i] = u[i] /\ u[i] = p[i]
      BY <1>1, <1>5, <3>1, <3>2, <3>7 DEF LowerAt
    <3> QED
      BY <1>1, <3>1, <3>8
  <2> QED
    BY <1>2, <2>1, <2>3, <2>4
<1> QED
  <2> HIDE DEF u
  <2>1. \/ u = NULL /\ \A i \in 1..Len(p) : p[i] = MaxByte
        \/ \E n \in 1..Len(p) :
             /\ u \in Seq(Bytes) /\ Len(u) = n
             /\ \A i \in 1..(n - 1) : u[i] = p[i]
             /\ u[n] = p[n] + 1
             /\ \A i \in (n + 1)..Len(p) : p[i] = MaxByte
    BY UpperBoundMeans DEF u
  <2>2. IsPrefix(p, k) <=> ~Less(k, p) /\ (u # NULL => Less(k, u))
    BY <1>4, <1>5, <2>1
  <2> QED
    BY <2>2 DEF u

----------------------------------------------------------------------------
(* The orders of the pages                                                 *)

(* Rows by position, rows by key, numbers *)
PosOrder(S) == {x \in S \X S : x[1].pos < x[2].pos}
KeyOrder(S) == {x \in S \X S : Less(x[1].key, x[2].key)}
NumberOrder(S) == {x \in S \X S : x[1] < x[2]}

(* A page of the export: the first rows by position. *)
LEMMA PageByPosition ==
  ASSUME NEW S, IsFiniteSet(S), NEW n \in Nat,
         \A r \in S : r.pos \in Nat,
         \A r, s \in S : r.pos = s.pos => r = s
  PROVE  IsPage(FirstOf(n, S, ExportOrder), n, S, PosOrder(S))
<1> DEFINE R == PosOrder(S)
           m == IF n <= Cardinality(S) THEN n ELSE Cardinality(S)
           f == FirstOf(n, S, ExportOrder)
<1>1. \A r, s \in S : <<r, s>> \in R <=> r.pos < s.pos
  BY DEF PosOrder
<1>2. Orders(R, S)
  <2> HIDE DEF R
  <2>1. \A r \in S : <<r, r>> \notin R
    BY <1>1
  <2>2. \A r, s, t \in S : <<r, s>> \in R /\ <<s, t>> \in R => <<r, t>> \in R
    BY <1>1
  <2>3. ASSUME NEW r \in S, NEW s \in S PROVE r = s \/ <<r, s>> \in R \/ <<s, r>> \in R
    <3>1. r.pos \in Nat /\ s.pos \in Nat
      OBVIOUS
    <3>2. r.pos = s.pos \/ r.pos < s.pos \/ s.pos < r.pos
      BY <3>1
    <3> QED
      BY <1>1, <3>2
  <2> QED
    BY <2>1, <2>2, <2>3 DEF Orders
<1>3. Cardinality(S) \in Nat
  BY FS_CardinalityType
<1>4. m \in Nat /\ Min({n, Cardinality(S)}) = m
  BY <1>3, MinOfTwo
<1> HIDE DEF R
<1>5. f = [i \in 1..m |-> CHOOSE r \in S : Cardinality({s \in S : ExportOrder(s, r)}) = i - 1]
  BY <1>4 DEF FirstOf
<1>6. \A r \in S : {s \in S : ExportOrder(s, r)} = Below(R, S, r)
  BY <1>1 DEF ExportOrder, Below
<1>7. ASSUME NEW i \in 1..m
      PROVE  f[i] \in S /\ Rank(R, S, f[i]) = i - 1
  <2>1. i - 1 \in 0..(Cardinality(S) - 1)
    BY <1>3
  <2>2. /\ \A k \in 0..(Cardinality(S) - 1) : \E r \in S : Rank(R, S, r) = k
        /\ \A r, s \in S : Rank(R, S, r) = Rank(R, S, s) => r = s
        /\ \A r, s \in S : Rank(R, S, r) < Rank(R, S, s) => <<r, s>> \in R
    BY <1>2, RanksTaken
  <2>3. PICK r \in S : Rank(R, S, r) = i - 1
    BY <2>1, <2>2
  <2>4. Cardinality({s \in S : ExportOrder(s, r)}) = i - 1
    BY <1>6, <2>3 DEF Rank
  <2>5. f[i] = CHOOSE q \in S : Cardinality({s \in S : ExportOrder(s, q)}) = i - 1
    BY <1>5
  <2>6. f[i] \in S /\ Cardinality({s \in S : ExportOrder(s, f[i])}) = i - 1
    <3> HIDE DEF f, m
    <3> QED
      BY <2>4, <2>5
  <2> QED
    BY <1>6, <2>6 DEF Rank
<1>8. f \in [1..m -> S]
  <2>1. DOMAIN f = 1..m /\ f = [i \in 1..m |-> f[i]]
    BY <1>5
  <2> HIDE DEF f, m
  <2> QED
    BY <1>7, <2>1
<1>9. IsPage(f, n, S, R)
  <2> HIDE DEF f
  <2> QED
    BY <1>2, <1>4, <1>7, <1>8, RankedIsPage
<1> QED
  BY <1>9 DEF R

(* A page of a scan: the first rows by key. *)
LEMMA PageByKey ==
  ASSUME NEW S, IsFiniteSet(S), NEW n \in Nat,
         \A r \in S : r.key \in Seq(Bytes),
         \A r, s \in S : r.key = s.key => r = s
  PROVE  IsPage(FirstOf(n, S, ByKey), n, S, KeyOrder(S))
<1> DEFINE R == KeyOrder(S)
           m == IF n <= Cardinality(S) THEN n ELSE Cardinality(S)
           f == FirstOf(n, S, ByKey)
<1>1. \A r, s \in S : <<r, s>> \in R <=> Less(r.key, s.key)
  BY DEF KeyOrder
<1>2. Orders(R, S)
  <2> HIDE DEF R
  <2>1. \A r \in S : <<r, r>> \notin R
    BY <1>1, LessIrreflexive
  <2>2. ASSUME NEW r \in S, NEW s \in S, NEW t \in S, <<r, s>> \in R, <<s, t>> \in R
        PROVE  <<r, t>> \in R
    <3>1. Less(r.key, s.key) /\ Less(s.key, t.key)
      BY <1>1, <2>2
    <3>2. Less(r.key, t.key)
      BY <3>1, LessTransitive
    <3> QED
      BY <1>1, <3>2
  <2>3. ASSUME NEW r \in S, NEW s \in S PROVE r = s \/ <<r, s>> \in R \/ <<s, r>> \in R
    <3>1. r.key = s.key \/ Less(r.key, s.key) \/ Less(s.key, r.key)
      BY LessTotal
    <3> QED
      BY <1>1, <3>1
  <2> QED
    BY <2>1, <2>2, <2>3 DEF Orders
<1>3. Cardinality(S) \in Nat
  BY FS_CardinalityType
<1>4. m \in Nat /\ Min({n, Cardinality(S)}) = m
  BY <1>3, MinOfTwo
<1> HIDE DEF R
<1>5. f = [i \in 1..m |-> CHOOSE r \in S : Cardinality({s \in S : ByKey(s, r)}) = i - 1]
  BY <1>4 DEF FirstOf
<1>6. \A r \in S : {s \in S : ByKey(s, r)} = Below(R, S, r)
  BY <1>1 DEF ByKey, Below
<1>7. ASSUME NEW i \in 1..m
      PROVE  f[i] \in S /\ Rank(R, S, f[i]) = i - 1
  <2>1. i - 1 \in 0..(Cardinality(S) - 1)
    BY <1>3
  <2>2. /\ \A k \in 0..(Cardinality(S) - 1) : \E r \in S : Rank(R, S, r) = k
        /\ \A r, s \in S : Rank(R, S, r) = Rank(R, S, s) => r = s
        /\ \A r, s \in S : Rank(R, S, r) < Rank(R, S, s) => <<r, s>> \in R
    BY <1>2, RanksTaken
  <2>3. PICK r \in S : Rank(R, S, r) = i - 1
    BY <2>1, <2>2
  <2>4. Cardinality({s \in S : ByKey(s, r)}) = i - 1
    BY <1>6, <2>3 DEF Rank
  <2>5. f[i] = CHOOSE q \in S : Cardinality({s \in S : ByKey(s, q)}) = i - 1
    BY <1>5
  <2>6. f[i] \in S /\ Cardinality({s \in S : ByKey(s, f[i])}) = i - 1
    <3> HIDE DEF f, m
    <3> QED
      BY <2>4, <2>5
  <2> QED
    BY <1>6, <2>6 DEF Rank
<1>8. f \in [1..m -> S]
  <2>1. DOMAIN f = 1..m /\ f = [i \in 1..m |-> f[i]]
    BY <1>5
  <2> HIDE DEF f, m
  <2> QED
    BY <1>7, <2>1
<1>9. IsPage(f, n, S, R)
  <2> HIDE DEF f
  <2> QED
    BY <1>2, <1>4, <1>7, <1>8, RankedIsPage
<1> QED
  BY <1>9 DEF R

(* A page of the list: the first jobs by number. *)
LEMMA PageByNumber ==
  ASSUME NEW S, IsFiniteSet(S), NEW n \in Nat,
         \A r \in S : r \in Nat
  PROVE  IsPage(FirstOf(n, S, ByNumber), n, S, NumberOrder(S))
<1> DEFINE R == NumberOrder(S)
           m == IF n <= Cardinality(S) THEN n ELSE Cardinality(S)
           f == FirstOf(n, S, ByNumber)
<1>1. \A r, s \in S : <<r, s>> \in R <=> r < s
  BY DEF NumberOrder
<1>2. Orders(R, S)
  <2> HIDE DEF R
  <2>1. \A r \in S : <<r, r>> \notin R
    BY <1>1
  <2>2. \A r, s, t \in S : <<r, s>> \in R /\ <<s, t>> \in R => <<r, t>> \in R
    BY <1>1
  <2>3. ASSUME NEW r \in S, NEW s \in S PROVE r = s \/ <<r, s>> \in R \/ <<s, r>> \in R
    <3>1. r \in Nat /\ s \in Nat
      OBVIOUS
    <3>2. r = s \/ r < s \/ s < r
      BY <3>1
    <3> QED
      BY <1>1, <3>2
  <2> QED
    BY <2>1, <2>2, <2>3 DEF Orders
<1>3. Cardinality(S) \in Nat
  BY FS_CardinalityType
<1>4. m \in Nat /\ Min({n, Cardinality(S)}) = m
  BY <1>3, MinOfTwo
<1> HIDE DEF R
<1>5. f = [i \in 1..m |-> CHOOSE r \in S : Cardinality({s \in S : ByNumber(s, r)}) = i - 1]
  BY <1>4 DEF FirstOf
<1>6. \A r \in S : {s \in S : ByNumber(s, r)} = Below(R, S, r)
  BY <1>1 DEF ByNumber, Below
<1>7. ASSUME NEW i \in 1..m
      PROVE  f[i] \in S /\ Rank(R, S, f[i]) = i - 1
  <2>1. i - 1 \in 0..(Cardinality(S) - 1)
    BY <1>3
  <2>2. /\ \A k \in 0..(Cardinality(S) - 1) : \E r \in S : Rank(R, S, r) = k
        /\ \A r, s \in S : Rank(R, S, r) = Rank(R, S, s) => r = s
        /\ \A r, s \in S : Rank(R, S, r) < Rank(R, S, s) => <<r, s>> \in R
    BY <1>2, RanksTaken
  <2>3. PICK r \in S : Rank(R, S, r) = i - 1
    BY <2>1, <2>2
  <2>4. Cardinality({s \in S : ByNumber(s, r)}) = i - 1
    BY <1>6, <2>3 DEF Rank
  <2>5. f[i] = CHOOSE q \in S : Cardinality({s \in S : ByNumber(s, q)}) = i - 1
    BY <1>5
  <2>6. f[i] \in S /\ Cardinality({s \in S : ByNumber(s, f[i])}) = i - 1
    <3> HIDE DEF f, m
    <3> QED
      BY <2>4, <2>5
  <2> QED
    BY <1>6, <2>6 DEF Rank
<1>8. f \in [1..m -> S]
  <2>1. DOMAIN f = 1..m /\ f = [i \in 1..m |-> f[i]]
    BY <1>5
  <2> HIDE DEF f, m
  <2> QED
    BY <1>7, <2>1
<1>9. IsPage(f, n, S, R)
  <2> HIDE DEF f
  <2> QED
    BY <1>2, <1>4, <1>7, <1>8, RankedIsPage
<1> QED
  BY <1>9 DEF R

----------------------------------------------------------------------------
(* Tables                                                                  *)

(* The entries of the projections are finitely many rows with unique keys *)
GoodTable(tab) == tab \subseteq RowType /\ IsFiniteSet(tab) /\ Keyed(tab)

(* The image of a finite set is finite, and not larger. *)
LEMMA ImageFinite ==
  ASSUME NEW S, IsFiniteSet(S), NEW f, DOMAIN f = S, NEW T, T = {f[x] : x \in S}
  PROVE  IsFiniteSet(T) /\ Cardinality(T) <= Cardinality(S)
<1>1. \E g \in [S -> T] : \A t \in T : \E x \in S : g[x] = t
  <2> DEFINE g == [x \in S |-> f[x]]
  <2>1. g \in [S -> T] /\ \A t \in T : \E x \in S : g[x] = t
    OBVIOUS
  <2> QED
    BY <2>1
<1>2. PICK g \in Surjection(S, T) : TRUE
  BY <1>1 DEF Surjection
<1> QED
  BY <1>2, FS_Surjection

(* Every rowid of a table is at most the last one. *)
LEMMA LastRowidBounds ==
  ASSUME NEW tab, GoodTable(tab)
  PROVE  LastRowid(tab) \in Nat /\ \A r \in tab : r.rowid \in Nat /\ r.rowid <= LastRowid(tab)
<1> DEFINE T == {r.rowid : r \in tab}
<1>1. \A r \in tab : r.rowid \in Nat
  BY DEF GoodTable, RowType
<1>2. IsFiniteSet(T)
  <2> DEFINE f == [r \in tab |-> r.rowid]
  <2>1. DOMAIN f = tab /\ T = {f[r] : r \in tab} /\ IsFiniteSet(tab)
    BY DEF GoodTable
  <2> HIDE DEF f, T
  <2> QED
    BY <2>1, ImageFinite
<1>3. IsFiniteSet({0} \cup T)
  <2>1. IsFiniteSet({0})
    BY FS_Singleton
  <2> HIDE DEF T
  <2> QED
    BY <1>2, <2>1, FS_Union
<1>4. {0} \cup T \in SUBSET Nat /\ {0} \cup T # {}
  BY <1>1
<1>5. LastRowid(tab) \in {0} \cup T /\ \A m \in {0} \cup T : m <= LastRowid(tab)
  <2>1. LastRowid(tab) = Max({0} \cup T)
    BY DEF LastRowid
  <2> HIDE DEF T
  <2> QED
    BY <1>3, <1>4, <2>1, MaxOfFinite
<1> QED
  BY <1>1, <1>4, <1>5

(* Inserting entries with new keys keeps rowids and keys unique. *)
LEMMA NewRowsGood ==
  ASSUME NEW tab, GoodTable(tab), NEW p \in Projections,
         NEW l \in Seq([key : Keys, value : Values]),
         \A i, j \in DOMAIN l : l[i].key = l[j].key => i = j,
         \A r \in tab, i \in DOMAIN l : ~ (r.projection = p /\ r.key = l[i].key)
  PROVE  GoodTable(tab \cup NewRows(tab, p, l))
<1> DEFINE N == NewRows(tab, p, l)
           m == LastRowid(tab)
           f == [i \in DOMAIN l |-> [rowid |-> m + i, projection |-> p, key |-> l[i].key,
                                     value |-> l[i].value]]
<1>1. DOMAIN l = 1..Len(l) /\ Len(l) \in Nat
      /\ \A i \in DOMAIN l : l[i].key \in Keys /\ l[i].value \in Values
  <2>1. DOMAIN l = 1..Len(l) /\ Len(l) \in Nat
    BY LenProperties
  <2>2. \A i \in 1..Len(l) : l[i] \in [key : Keys, value : Values]
    BY ElementOfSeq
  <2> QED
    BY <2>1, <2>2
<1>2. m \in Nat /\ \A r \in tab : r.rowid \in Nat /\ r.rowid <= m
  BY LastRowidBounds
<1>3. N = {f[i] : i \in DOMAIN l}
  BY DEF NewRows
<1>4. IsFiniteSet(N)
  <2>1. IsFiniteSet(DOMAIN l) /\ DOMAIN f = DOMAIN l
    BY <1>1, FS_Interval
  <2> HIDE DEF f, N
  <2> QED
    BY <1>3, <2>1, ImageFinite
<1>5. N \subseteq RowType
  <2> HIDE DEF m
  <2>1. ASSUME NEW i \in DOMAIN l PROVE f[i] \in RowType
    <3>1. i \in Nat \ {0} /\ m + i \in Nat \ {0}
      BY <1>1, <1>2
    <3> QED
      BY <1>1, <3>1 DEF RowType
  <2> QED
    BY <1>3, <2>1
<1>6. ASSUME NEW i \in DOMAIN l
      PROVE  f[i].rowid = m + i /\ f[i].projection = p /\ f[i].key = l[i].key
  OBVIOUS
<1> HIDE DEF f, N, m
<1>7. \A r, s \in N : r.rowid = s.rowid \/ (r.projection = s.projection /\ r.key = s.key) => r = s
  <2> SUFFICES ASSUME NEW i \in DOMAIN l, NEW j \in DOMAIN l,
                      f[i].rowid = f[j].rowid \/ f[i].key = f[j].key
               PROVE  f[i] = f[j]
    BY <1>3
  <2>1. i = j
    BY <1>1, <1>2, <1>6
  <2> QED
    BY <2>1
<1>8. \A r \in tab, s \in N :
        r.rowid # s.rowid /\ ~ (r.projection = s.projection /\ r.key = s.key)
  <2> SUFFICES ASSUME NEW r \in tab, NEW i \in DOMAIN l
               PROVE  r.rowid # f[i].rowid
                      /\ ~ (r.projection = f[i].projection /\ r.key = f[i].key)
    BY <1>3
  <2>1. i \in Nat \ {0}
    BY <1>1
  <2> QED
    BY <1>2, <1>6, <2>1
<1>9. Keyed(tab \cup N)
  BY <1>7, <1>8 DEF GoodTable, Keyed
<1>10. IsFiniteSet(tab \cup N)
  BY <1>4, FS_Union DEF GoodTable
<1> QED
  BY <1>5, <1>9, <1>10 DEF GoodTable, N

(* A part of a table is a table. *)
LEMMA SubtableGood ==
  ASSUME NEW tab, GoodTable(tab), NEW part, part \subseteq tab
  PROVE  GoodTable(part)
<1>1. IsFiniteSet(part)
  BY FS_Subset DEF GoodTable
<1> QED
  BY <1>1 DEF GoodTable, Keyed

(* Writing an entry keeps rowids and keys unique. *)
LEMMA UpsertGood ==
  ASSUME NEW tab, GoodTable(tab), NEW p \in Projections, NEW k \in Keys, NEW v \in Values
  PROVE  GoodTable(Upsert(tab, p, k, v))
<1>1. CASE RowOf(tab, p, k) = {}
  <2> DEFINE l == <<[key |-> k, value |-> v]>>
  <2>1. l \in Seq([key : Keys, value : Values]) /\ DOMAIN l = {1} /\ l[1].key = k
    OBVIOUS
  <2>2. \A r \in tab : ~ (r.projection = p /\ r.key = k)
    BY <1>1 DEF RowOf
  <2>3. Upsert(tab, p, k, v) = tab \cup NewRows(tab, p, l)
    BY <1>1 DEF Upsert
  <2> HIDE DEF l
  <2>4. \A i, j \in DOMAIN l : l[i].key = l[j].key => i = j
    BY <2>1
  <2>5. \A r \in tab, i \in DOMAIN l : ~ (r.projection = p /\ r.key = l[i].key)
    BY <2>1, <2>2
  <2>6. l \in Seq([key : Keys, value : Values])
    BY <2>1
  <2>7. GoodTable(tab \cup NewRows(tab, p, l))
    BY <2>4, <2>5, <2>6, NewRowsGood
  <2> QED
    BY <2>3, <2>7
<1>2. CASE RowOf(tab, p, k) # {}
  <2> DEFINE f == [r \in tab |-> IF r \in RowOf(tab, p, k) THEN [r EXCEPT !.value = v] ELSE r]
             U == Upsert(tab, p, k, v)
  <2>1. U = {f[r] : r \in tab}
    BY <1>2 DEF Upsert
  <2>2. ASSUME NEW r \in tab
        PROVE  /\ f[r] \in RowType /\ f[r].rowid = r.rowid
               /\ f[r].projection = r.projection /\ f[r].key = r.key
    BY DEF GoodTable, RowType
  <2>3. IsFiniteSet(U)
    <3>1. DOMAIN f = tab
      OBVIOUS
    <3> HIDE DEF f, U
    <3> QED
      BY <2>1, <3>1, ImageFinite DEF GoodTable
  <2> HIDE DEF f, U
  <2>4. U \subseteq RowType
    BY <2>1, <2>2
  <2>5. Keyed(U)
    BY <2>1, <2>2 DEF GoodTable, Keyed
  <2> QED
    BY <2>3, <2>4, <2>5 DEF GoodTable, U
<1> QED
  BY <1>1, <1>2

(* Every patch leaves a table with unique rowids and keys.                  *)
LEMMA PatchGood ==
  ASSUME GoodTable(rows), Patch
  PROVE  /\ GoodTable(rows')
         /\ during' = (IF scan = NULL THEN {} ELSE during \cup {rows'})
         /\ scan' = scan /\ txs' = txs + 1 /\ txs < MaxTxs
<1>1. ASSUME NEW p \in Projections, NEW k \in Keys, NEW v \in Values, Put(p, k, v)
      PROVE  GoodTable(rows')
  BY <1>1, UpsertGood DEF Put, CommitPatch
<1>2. ASSUME NEW p \in Projections, NEW k \in Keys, Delete(p, k)
      PROVE  GoodTable(rows')
  <2>1. rows' \subseteq rows
    BY <1>2 DEF Delete, CommitPatch
  <2> QED
    BY <2>1, SubtableGood
<1>3. ASSUME NEW p \in Projections, Clear(p)
      PROVE  GoodTable(rows')
  <2>1. rows' \subseteq rows
    BY <1>3 DEF Clear, Cleared, CommitPatch
  <2> QED
    BY <2>1, SubtableGood
<1>4. ASSUME NEW p \in Projections, NEW l \in Replacements, Replace(p, l)
      PROVE  GoodTable(rows')
  <2>1. GoodTable(Cleared(rows, p))
    BY SubtableGood DEF Cleared
  <2>2. /\ l \in Seq([key : Keys, value : Values])
        /\ \A i, j \in DOMAIN l : l[i].key = l[j].key => i = j
    BY ProjectionReadsAssumption
  <2>3. \A r \in Cleared(rows, p), i \in DOMAIN l : ~ (r.projection = p /\ r.key = l[i].key)
    BY DEF Cleared
  <2>4. rows' = Cleared(rows, p) \cup NewRows(Cleared(rows, p), p, l)
    BY <1>4 DEF Replace, CommitPatch
  <2> QED
    BY <2>1, <2>2, <2>3, <2>4, NewRowsGood
<1>5. GoodTable(rows')
  BY <1>1, <1>2, <1>3, <1>4 DEF Patch
<1> QED
  BY <1>5 DEF Patch, Put, Delete, Clear, Replace, CommitPatch

----------------------------------------------------------------------------
(* Pages one after the other                                               *)

Ascending(f, R) == \A i, j \in 1..Len(f) : i < j => <<f[i], f[j]>> \in R

(* An order that can be chained on U *)
Transitive(R, U) == \A r, s, t \in U : <<r, s>> \in R /\ <<s, t>> \in R => <<r, t>> \in R

(* A page of at most n elements of S, all of them after what was got so far *)
GoesOn(U, R, got, S, Q, n, page) ==
  /\ Transitive(R, U)
  /\ got \in Seq(U) /\ Ascending(got, R)
  /\ S \subseteq U /\ Q \subseteq R
  /\ n \in Nat /\ IsPage(page, n, S, Q)
  /\ got # <<>> => \A r \in S : <<Last(got), r>> \in R

(* What a sequence of pages amounts to: it goes on in order, it holds what  *)
(* was there and what the page brings, and the page left out only what is   *)
(* still ahead, and nothing if it was not full.                             *)
LEMMA PageTaken ==
  ASSUME NEW U, NEW R, NEW got, NEW S, NEW Q, NEW n, NEW page,
         GoesOn(U, R, got, S, Q, n, page)
  PROVE  /\ got \o page \in Seq(U) /\ Ascending(got \o page, R)
         /\ Range(got \o page) = Range(got) \cup Range(page)
         /\ page \in Seq(S) /\ Len(page) <= n /\ Range(page) \subseteq S
         /\ page = <<>> => got \o page = got
         /\ page # <<>> => got \o page # <<>> /\ Last(got \o page) = Last(page)
         /\ \A r \in S : Len(page) < n => r \in Range(page)
         /\ \A r \in S : (page # <<>> /\ <<Last(page), r>> \notin R) => r \in Range(page)
         /\ \A r \in S : ~ (n < Cardinality(S)) => r \in Range(page)
<1> DEFINE new == got \o page
<1>0. /\ Transitive(R, U)
      /\ got \in Seq(U) /\ Ascending(got, R)
      /\ S \subseteq U /\ Q \subseteq R
      /\ n \in Nat /\ IsPage(page, n, S, Q)
      /\ got # <<>> => \A r \in S : <<Last(got), r>> \in R
  BY DEF GoesOn
<1>1. page \in Seq(S) /\ page \in Seq(U) /\ Len(page) <= n /\ Len(page) \in Nat
      /\ DOMAIN page = 1..Len(page) /\ Len(got) \in Nat /\ DOMAIN got = 1..Len(got)
  <2>1. page \in Seq(S) /\ Len(page) <= n
    BY <1>0 DEF IsPage
  <2>2. page \in Seq(U)
    BY <1>0, <2>1, SeqMonotonic
  <2> QED
    BY <1>0, <2>1, <2>2, LenProperties
<1>2. /\ new \in Seq(U) /\ Len(new) = Len(got) + Len(page) /\ DOMAIN new = 1..Len(new)
      /\ \A i \in 1..Len(new) : new[i] = IF i <= Len(got) THEN got[i] ELSE page[i - Len(got)]
  BY <1>0, <1>1, ConcatProperties, LenProperties
<1>3. /\ \A i \in 1..Len(page) : page[i] \in S /\ page[i] \in U
      /\ \A i \in 1..Len(got) : got[i] \in U
      /\ \A i, j \in 1..Len(page) : i < j => <<page[i], page[j]>> \in R
  BY <1>0, <1>1, ElementOfSeq DEF IsPage
<1>4. \A i \in 1..Len(got) : new[i] = got[i]
  BY <1>0, <1>1, <1>2
<1>5. \A i \in 1..Len(page) : i + Len(got) \in 1..Len(new) /\ new[i + Len(got)] = page[i]
  BY <1>0, <1>1, <1>2
<1>6. \A i \in 1..Len(new) : i \in 1..Len(got) \/ \E k \in 1..Len(page) : i = k + Len(got)
  <2> TAKE i \in 1..Len(new)
  <2>1. CASE i <= Len(got)
    BY <1>0, <1>1, <2>1
  <2>2. CASE i > Len(got)
    <3>1. i - Len(got) \in 1..Len(page) /\ i = (i - Len(got)) + Len(got)
      BY <1>0, <1>1, <1>2, <2>2
    <3> QED
      BY <1>0, <3>1
  <2> QED
    BY <1>0, <1>1, <2>1, <2>2
<1> HIDE DEF new
<1>7. Range(new) = Range(got) \cup Range(page)
  <2>1. Range(new) = {new[i] : i \in 1..Len(new)}
    BY <1>0, <1>2 DEF Range
  <2>2. Range(got) = {got[i] : i \in 1..Len(got)} /\ Range(page) = {page[i] : i \in 1..Len(page)}
    BY <1>0, <1>1 DEF Range
  <2>3. \A i \in 1..Len(got) : i \in 1..Len(new)
    BY <1>0, <1>1, <1>2
  <2>4. Range(new) \subseteq Range(got) \cup Range(page)
    <3> SUFFICES ASSUME NEW i \in 1..Len(new) PROVE new[i] \in Range(got) \cup Range(page)
      BY <1>0, <2>1
    <3>1. CASE i \in 1..Len(got)
      BY <1>0, <1>4, <2>2, <3>1
    <3>2. ASSUME NEW k \in 1..Len(page), i = k + Len(got) PROVE new[i] \in Range(page)
      BY <1>0, <1>5, <2>2, <3>2
    <3> QED
      BY <1>0, <1>6, <3>1, <3>2
  <2>5. Range(got) \subseteq Range(new)
    BY <1>0, <1>4, <2>1, <2>2, <2>3
  <2>6. Range(page) \subseteq Range(new)
    BY <1>0, <1>5, <2>1, <2>2
  <2> QED
    BY <1>0, <2>4, <2>5, <2>6
<1>8. got # <<>> => \A i \in 1..Len(got), r \in S : <<got[i], r>> \in R
  <2> SUFFICES ASSUME got # <<>>, NEW i \in 1..Len(got), NEW r \in S
               PROVE  <<got[i], r>> \in R
    OBVIOUS
  <2>1. Last(got) = got[Len(got)] /\ <<Last(got), r>> \in R /\ Len(got) \in 1..Len(got)
    BY <1>0, <1>1 DEF Last
  <2>2. i = Len(got) \/ <<got[i], got[Len(got)]>> \in R
    <3>0. \A m \in Nat : \A k \in 1..m : k = m \/ k < m
      OBVIOUS
    <3>1. i = Len(got) \/ i < Len(got)
      BY <1>0, <1>1, <3>0
    <3> QED
      BY <1>0, <2>1, <3>1 DEF Ascending
  <2>3. r \in U /\ got[i] \in U /\ got[Len(got)] \in U
    BY <1>0, <1>3, <2>1
  <2> QED
    BY <1>0, <2>1, <2>2, <2>3 DEF Transitive
<1>9. ASSUME NEW i \in 1..Len(new), NEW j \in 1..Len(new), i < j
      PROVE  <<new[i], new[j]>> \in R
  <2>1. CASE j \in 1..Len(got)
    <3>1. i \in 1..Len(got)
      BY <1>0, <1>9, <2>1
    <3> QED
      BY <1>0, <1>4, <1>9, <2>1, <3>1 DEF Ascending
  <2>2. ASSUME NEW k \in 1..Len(page), j = k + Len(got) PROVE <<new[i], new[j]>> \in R
    <3>1. new[j] = page[k] /\ page[k] \in S
      BY <1>0, <1>3, <1>5, <2>2
    <3>2. CASE i \in 1..Len(got)
      <4>1. got # <<>>
        BY <1>0, <3>2
      <4> QED
        BY <1>0, <1>4, <1>8, <3>1, <3>2, <4>1
    <3>3. ASSUME NEW l \in 1..Len(page), i = l + Len(got) PROVE <<new[i], new[j]>> \in R
      <4>1. l < k /\ new[i] = page[l]
        BY <1>0, <1>1, <1>5, <1>9, <2>2, <3>3
      <4> QED
        BY <1>0, <1>3, <3>1, <4>1
    <3> QED
      BY <1>0, <1>6, <3>2, <3>3
  <2> QED
    BY <1>0, <1>6, <2>1, <2>2
<1>10. page = <<>> => new = got
  BY <1>0, ConcatEmptySeq DEF new
<1>11. page # <<>> => new # <<>> /\ Last(new) = Last(page)
  <2> SUFFICES ASSUME page # <<>> PROVE new # <<>> /\ Last(new) = Last(page)
    OBVIOUS
  <2>1. Len(page) \in 1..Len(page)
    BY <1>0, <1>1
  <2>2. Len(new) = Len(page) + Len(got) /\ Len(new) \in 1..Len(new)
    BY <1>0, <1>1, <1>2, <1>5, <2>1
  <2> QED
    BY <1>0, <1>5, <2>1, <2>2 DEF Last
<1>12. ASSUME NEW r \in S, r \notin Range(page)
       PROVE  /\ Len(page) = n /\ n < Cardinality(S)
              /\ page # <<>> => <<Last(page), r>> \in R
  <2>1. \A i \in 1..Len(page) : page[i] # r
    BY <1>0, <1>1, <1>12 DEF Range
  <2>2. Len(page) = n /\ n < Cardinality(S) /\ \A i \in 1..Len(page) : <<page[i], r>> \in Q
    BY <1>0, <2>1 DEF IsPage
  <2>3. page # <<>> => Len(page) \in 1..Len(page)
    BY <1>0, <1>1
  <2> QED
    BY <1>0, <2>2, <2>3 DEF Last
<1>13. Range(page) \subseteq S
  BY <1>0, <1>1, <1>3 DEF Range
<1>14. new \in Seq(U) /\ Ascending(new, R)
  BY <1>0, <1>2, <1>9 DEF Ascending
<1>15. \A r \in S : Len(page) < n => r \in Range(page)
  <2>1. Len(page) < n => Len(page) # n
    <3>1. \A m \in Nat : m < n => m # n
      OBVIOUS
    <3> QED
      BY <1>0, <1>1, <3>1
  <2> QED
    BY <1>0, <1>12, <2>1
<1> HIDE DEF Ascending
<1> QED
  BY <1>0, <1>1, <1>7, <1>10, <1>11, <1>12, <1>13, <1>14, <1>15 DEF new

----------------------------------------------------------------------------
(* The invariant                                                           *)

(* The tables *)
BaseInv ==
  /\ GoodTable(rows)
  /\ txs \in 0..MaxTxs
  /\ events \in Seq(Streams) /\ jobs \in Seq(JobRow) /\ receipts \in Seq(ReceiptRow)
  /\ Receipted(jobs, receipts)

(* A scan in progress *)
ScanType == [query : Queries, limit : PageLimits, got : Seq(RowType), done : BOOLEAN]

(* The key of r has been in the table since the scan began *)
Lasting(r) == \A tab \in during : RowOf(tab, r.projection, r.key) # {}

(* The cursor of the scan is at k or after it, or the scan is at its end *)
ScanPassed(k) == scan.done \/ (scan.got # <<>> /\ ~Less(Last(scan.got).key, k))

(* What a scan has read: in order of key, each row wanted and there at some*)
(* point of the scan, and no lasting key skipped                           *)
ScanInv ==
  scan # NULL =>
    /\ scan \in ScanType
    /\ rows \in during
    /\ Ascending(scan.got, KeyOrder(RowType))
    /\ \A r \in Range(scan.got) : Wanted(scan.query, r) /\ \E tab \in during : r \in tab
    /\ \A r \in rows :
         (Wanted(scan.query, r) /\ Lasting(r) /\ ScanPassed(r.key))
           => \E g \in Range(scan.got) : g.key = r.key

(* A paged list in progress *)
ListType ==
  [state : States \cup {NULL}, limit : PageLimits, after : Nat, got : Seq(Nat \ {0}),
   done : BOOLEAN, steady : SUBSET (Nat \ {0})]

(* What a list has read: in order of sequence, and every job that has been in*)
(* the state all along unless it is still ahead of the cursor              *)
ListInv ==
  list # NULL =>
    /\ list \in ListType
    /\ list.after = IF list.got = <<>> THEN 0 ELSE Last(list.got)
    /\ list.after \in 0..Len(jobs)
    /\ Ascending(list.got, NumberOrder(Nat \ {0}))
    /\ \A j \in list.steady :
         /\ j \in DOMAIN jobs /\ InState(j, list.state)
         /\ (j <= list.after \/ list.done) => j \in Range(list.got)

(* The rows of a section, now or later *)
RowSet(section) ==
  CASE section = "transactions" -> [pos : Nat \ {0}]
    [] section = "events" -> [pos : Nat \ {0}, stream : Streams, version : Nat]
    [] section = "streams" -> [pos : Nat \ {0}, version : Nat]
    [] section = "projections" -> {r \in [pos : Nat \ {0}, row : RowType] : r.pos = r.row.rowid}
    [] section = "jobs" -> [pos : Nat \ {0}, attempt : Nat]
    [] section = "claim_receipts" -> [pos : Nat \ {0}, job : Nat, attempt : Nat]

(* The statement that reads a section *)
Place(section) ==
  CASE section = "transactions" -> 4
    [] section = "events" -> 5
    [] section = "streams" -> 6
    [] section = "projections" -> 7
    [] section = "jobs" -> 8
    [] section = "claim_receipts" -> 9

(* The rows that a bundle has room for *)
AnyRow ==
  RowSet("transactions") \cup RowSet("events") \cup RowSet("streams")
    \cup RowSet("projections") \cup RowSet("jobs") \cup RowSet("claim_receipts")

(* An export in progress *)
ExportType ==
  [at : 1..(Statements + 1), count : [Range(Counts) -> Nat],
   got : [SectionNames -> Seq(AnyRow)], untouched : SUBSET RowType]

(* The export is after the section, or in it and not before pos *)
Passed(s, pos) ==
  \/ export.at > Place(s)
  \/ export.got[s] # <<>> /\ pos <= Last(export.got[s]).pos

(* Sections are read one after the other, each in order *)
ExportShape ==
  /\ export \in ExportType
  /\ export.untouched \subseteq rows
  /\ \A s \in SectionNames :
       /\ export.got[s] \in Seq(RowSet(s))
       /\ Ascending(export.got[s], PosOrder(RowSet(s)))
       /\ export.at < Place(s) => export.got[s] = <<>>

(* The sections whose positions are assigned without a gap *)
NumberedSections == {"transactions", "events", "jobs"}

(* The number of the last row *)
Size(s) == CASE s = "transactions" -> txs [] s = "events" -> Len(events) [] s = "jobs" -> Len(jobs)

(* They are read without a gap, from the first row *)
NumbersSeen ==
  \A s \in NumberedSections :
    /\ Len(export.got[s]) <= Size(s)
    /\ \A i \in 1..Len(export.got[s]) : export.got[s][i].pos = i

(* What the header counts is there, and seen once its section is over *)
CountsSeen ==
  /\ \A c \in {"transactions", "events"} :
       /\ export.count[c] <= Size(c)
       /\ export.at > Place(c) => export.count[c] <= Len(export.got[c])
  /\ \E T \in SUBSET Range(events) :
       /\ export.count["streams"] <= Cardinality(T)
       /\ \A t \in T : Passed("streams", t) =>
            \E r \in Range(export.got["streams"]) : r.pos = t

(* A projection that no patch touched is in the bundle once the page is past it *)
UntouchedSeen ==
  \A row \in export.untouched :
    Passed("projections", row.rowid) => \E r \in Range(export.got["projections"]) : r.row = row

(* An event that was read is of a stream of the tables, at a version it has*)
(* reached, and the stream is read at that version or a later one          *)
StreamsSeen ==
  \A e \in Range(export.got["events"]) :
    /\ e.stream \in Range(events) /\ e.version <= VersionOf(e.stream)
    /\ Passed("streams", e.stream) =>
         \E s \in Range(export.got["streams"]) : s.pos = e.stream /\ s.version >= e.version

(* A job that was read has its receipts, one for each attempt *)
ReceiptsSeen ==
  /\ export.at <= Place("claim_receipts") => export.got["claim_receipts"] = <<>>
  /\ \A j \in Range(export.got["jobs"]) :
       /\ j.pos \in DOMAIN jobs /\ j.attempt <= jobs[j.pos].attempt
       /\ export.at > Place("claim_receipts") =>
            \A n \in 1..j.attempt :
              \E r \in Range(export.got["claim_receipts"]) : r.job = j.pos /\ r.attempt = n

(* What an export has read, while it reads *)
ExportInv ==
  export # NULL =>
    ExportShape /\ NumbersSeen /\ CountsSeen /\ UntouchedSeen /\ StreamsSeen /\ ReceiptsSeen

(* The invariant: the tables, and what each of the three readers has seen *)
INInv == BaseInv /\ ScanInv /\ ListInv /\ ExportInv

----------------------------------------------------------------------------
(* Steps and the tables                                                    *)

Commit ==
  \/ \E s \in Streams : AppendEvent(s)
  \/ EnqueueJob
  \/ \E j \in DOMAIN jobs : ClaimJob(j) \/ \E state \in States : EndLease(j, state)

(* The steps of the export *)
ReadExport == StartExport \/ ExportCount \/ ExportRows \/ EndExport

(* The steps of the paged list *)
ReadList ==
  (\E state \in States \cup {NULL}, limit \in PageLimits : StartList(state, limit))
    \/ ListPage \/ EndList

(* Nothing is taken from the tables of events, jobs and receipts *)
Grown ==
  /\ txs <= txs' /\ txs' \in 0..MaxTxs
  /\ events' \in Seq(Streams) /\ jobs' \in Seq(JobRow) /\ receipts' \in Seq(ReceiptRow)
  /\ Receipted(jobs', receipts')
  /\ Len(events) <= Len(events') /\ Range(events) \subseteq Range(events')
  /\ \A s \in Range(events) : VersionOf(s) <= VersionOf(s)'
  /\ Len(jobs) <= Len(jobs') /\ DOMAIN jobs \subseteq DOMAIN jobs'
  /\ \A j \in DOMAIN jobs : jobs[j].attempt <= jobs'[j].attempt

(* A version is the number of a finite set of events. *)
LEMMA VersionBounds ==
  ASSUME NEW E \in Seq(Streams), NEW s
  PROVE  /\ IsFiniteSet({i \in DOMAIN E : E[i] = s})
         /\ Cardinality({i \in DOMAIN E : E[i] = s}) \in Nat
<1>1. DOMAIN E = 1..Len(E) /\ Len(E) \in Nat
  BY LenProperties
<1>2. IsFiniteSet(DOMAIN E) /\ {i \in DOMAIN E : E[i] = s} \in SUBSET DOMAIN E
  BY <1>1, FS_Interval
<1>3. IsFiniteSet({i \in DOMAIN E : E[i] = s})
  BY <1>2, FS_Subset
<1> QED
  BY <1>3, FS_CardinalityType

(* An append to a sequence leaves what is there. *)
LEMMA Appended ==
  ASSUME NEW T, NEW q \in Seq(T), NEW x \in T
  PROVE  /\ Append(q, x) \in Seq(T) /\ Len(Append(q, x)) = Len(q) + 1
         /\ DOMAIN q = 1..Len(q) /\ DOMAIN Append(q, x) = 1..(Len(q) + 1)
         /\ Len(q) \in Nat /\ Len(q) + 1 \in DOMAIN Append(q, x)
         /\ DOMAIN q \subseteq DOMAIN Append(q, x)
         /\ \A i \in DOMAIN q : Append(q, x)[i] = q[i]
         /\ Append(q, x)[Len(q) + 1] = x
         /\ \A i \in DOMAIN Append(q, x) : i \in DOMAIN q \/ i = Len(q) + 1
<1>1. /\ Append(q, x) \in Seq(T) /\ Len(Append(q, x)) = Len(q) + 1
      /\ \A i \in 1..Len(q) : Append(q, x)[i] = q[i]
      /\ Append(q, x)[Len(q) + 1] = x
      /\ Len(q) \in Nat /\ DOMAIN q = 1..Len(q)
  BY AppendProperties, LenProperties
<1>2. DOMAIN Append(q, x) = 1..(Len(q) + 1)
  BY <1>1, LenProperties
<1>3. \A n \in Nat : /\ n + 1 \in 1..(n + 1) /\ 1..n \subseteq 1..(n + 1)
                     /\ \A i \in 1..(n + 1) : i \in 1..n \/ i = n + 1
  OBVIOUS
<1> QED
  BY <1>1, <1>2, <1>3

(* The rows of the table jobs. *)
LEMMA JobElement ==
  ASSUME NEW J \in Seq(JobRow)
  PROVE  /\ DOMAIN J = 1..Len(J) /\ Len(J) \in Nat
         /\ \A j \in DOMAIN J : /\ J[j] \in JobRow /\ J[j].state \in States /\ J[j].attempt \in Nat
                              /\ J[j].attempt <= J[j].attempt
<1>1. DOMAIN J = 1..Len(J) /\ Len(J) \in Nat
  BY LenProperties
<1>2. \A j \in 1..Len(J) : J[j] \in JobRow
  BY ElementOfSeq
<1>3. \A r \in JobRow : r.state \in States /\ r.attempt \in Nat /\ r.attempt <= r.attempt
  BY DEF JobRow
<1> QED
  BY <1>1, <1>2, <1>3

(* What an appended event does to the versions. *)
LEMMA AppendGrows ==
  ASSUME BaseInv, NEW s \in Streams, AppendEvent(s)
  PROVE  Grown
<1>1. events' = Append(events, s) /\ jobs' = jobs /\ receipts' = receipts /\ txs < MaxTxs /\ txs' = txs + 1
  BY DEF AppendEvent, Transaction
<1>2. /\ events \in Seq(Streams) /\ jobs \in Seq(JobRow) /\ receipts \in Seq(ReceiptRow)
      /\ Receipted(jobs, receipts) /\ txs \in 0..MaxTxs
  BY DEF BaseInv
<1>3. /\ events' \in Seq(Streams) /\ Len(events') = Len(events) + 1
      /\ Len(events) \in Nat /\ DOMAIN events \subseteq DOMAIN events'
      /\ \A i \in DOMAIN events : events'[i] = events[i]
  BY <1>1, <1>2, Appended
<1>4. Range(events) \subseteq Range(events')
  BY <1>3 DEF Range
<1>5. ASSUME NEW t \in Range(events) PROVE VersionOf(t) <= VersionOf(t)'
  <2> DEFINE A == {i \in DOMAIN events : events[i] = t}
             B == {i \in DOMAIN events' : events'[i] = t}
  <2>1. IsFiniteSet(B)
    BY <1>3, VersionBounds
  <2>2. A \in SUBSET B
    BY <1>3
  <2>3. VersionOf(t) = Cardinality(A) /\ VersionOf(t)' = Cardinality(B)
    BY DEF VersionOf
  <2> HIDE DEF A, B
  <2> QED
    BY <2>1, <2>2, <2>3, FS_Subset
<1>6. txs <= txs' /\ txs' \in 0..MaxTxs
  BY <1>1, <1>2, ProjectionReadsAssumption
<1>7. \A j \in DOMAIN jobs : jobs[j].attempt <= jobs[j].attempt
  BY <1>2, JobElement
<1>8. Len(jobs) <= Len(jobs)
  BY <1>2, LenProperties
<1>9. Len(events) <= Len(events')
  BY <1>3
<1> QED
  BY <1>1, <1>2, <1>3, <1>4, <1>5, <1>6, <1>7, <1>8, <1>9 DEF Grown

(* What an enqueued job leaves as it was. *)
LEMMA EnqueueGrows ==
  ASSUME BaseInv, EnqueueJob
  PROVE  Grown
<1> DEFINE new == [state |-> "Pending", attempt |-> 0]
<1>1. /\ events' = events /\ jobs' = Append(jobs, new) /\ receipts' = receipts
      /\ txs < MaxTxs /\ txs' = txs + 1
  BY DEF EnqueueJob, Transaction
<1>2. /\ events \in Seq(Streams) /\ jobs \in Seq(JobRow) /\ receipts \in Seq(ReceiptRow)
      /\ Receipted(jobs, receipts) /\ txs \in 0..MaxTxs
  BY DEF BaseInv
<1>3. new \in JobRow /\ new.attempt = 0
  BY DEF JobRow, States
<1> HIDE DEF new
<1>4. /\ jobs' \in Seq(JobRow) /\ Len(jobs') = Len(jobs) + 1 /\ Len(jobs) \in Nat
      /\ DOMAIN jobs \subseteq DOMAIN jobs'
      /\ \A i \in DOMAIN jobs : jobs'[i] = jobs[i]
      /\ \A i \in DOMAIN jobs' : i \in DOMAIN jobs \/ jobs'[i] = new
  <2>1. /\ Append(jobs, new) \in Seq(JobRow) /\ Len(Append(jobs, new)) = Len(jobs) + 1
        /\ Len(jobs) \in Nat /\ DOMAIN jobs \subseteq DOMAIN Append(jobs, new)
        /\ \A i \in DOMAIN jobs : Append(jobs, new)[i] = jobs[i]
        /\ Append(jobs, new)[Len(jobs) + 1] = new
        /\ \A i \in DOMAIN Append(jobs, new) : i \in DOMAIN jobs \/ i = Len(jobs) + 1
    BY <1>2, <1>3, Appended
  <2> QED
    BY <1>1, <2>1
<1>5. \A j \in DOMAIN jobs : jobs[j].attempt <= jobs'[j].attempt
  BY <1>2, <1>4, JobElement
<1>6. Receipted(jobs', receipts')
  <2>1. ASSUME NEW j \in DOMAIN jobs', NEW n \in 1..jobs'[j].attempt
        PROVE  \E i \in DOMAIN receipts : receipts[i].job = j /\ receipts[i].attempt = n
    <3>1. j \in DOMAIN jobs
      <4> SUFFICES ASSUME jobs'[j] = new PROVE FALSE
        BY <1>4
      <4> QED
        BY <1>3, <2>1
    <3> QED
      BY <1>2, <1>4, <2>1, <3>1 DEF Receipted
  <2>2. ASSUME NEW i \in DOMAIN receipts
        PROVE  receipts[i].job \in DOMAIN jobs'
               /\ receipts[i].attempt <= jobs'[receipts[i].job].attempt
    BY <1>2, <1>4 DEF Receipted
  <2> QED
    BY <1>1, <2>1, <2>2 DEF Receipted
<1>7. \A s \in Range(events) : VersionOf(s) <= VersionOf(s)'
  <2>1. \A s : VersionOf(s)' = VersionOf(s) /\ VersionOf(s) \in Nat
    BY <1>1, <1>2, VersionBounds DEF VersionOf
  <2> QED
    BY <2>1
<1>8. txs <= txs' /\ txs' \in 0..MaxTxs
  BY <1>1, <1>2, ProjectionReadsAssumption
<1>9. Len(events) <= Len(events') /\ Range(events) \subseteq Range(events')
  BY <1>1, <1>2, LenProperties
<1>10. Len(jobs) <= Len(jobs')
  BY <1>4
<1> QED
  BY <1>1, <1>2, <1>4, <1>5, <1>6, <1>7, <1>8, <1>9, <1>10 DEF Grown

(* A job that is rewritten keeps its place, and its attempts do not fall. *)
LEMMA RewriteGrows ==
  ASSUME BaseInv, NEW j \in DOMAIN jobs, NEW new \in JobRow, jobs[j].attempt <= new.attempt,
         NEW R \in Seq(ReceiptRow), Receipted([jobs EXCEPT ![j] = new], R),
         Transaction(events, [jobs EXCEPT ![j] = new], R)
  PROVE  Grown
<1> DEFINE J == [jobs EXCEPT ![j] = new]
<1>1. /\ events' = events /\ jobs' = J /\ receipts' = R
      /\ txs < MaxTxs /\ txs' = txs + 1
  BY DEF Transaction
<1>2. /\ events \in Seq(Streams) /\ jobs \in Seq(JobRow) /\ txs \in 0..MaxTxs
  BY DEF BaseInv
<1>3. /\ J \in Seq(JobRow) /\ Len(J) = Len(jobs) /\ Len(jobs) \in Nat /\ DOMAIN J = DOMAIN jobs
      /\ \A i \in DOMAIN jobs : J[i] = IF i = j THEN new ELSE jobs[i]
  <2>1. DOMAIN jobs = 1..Len(jobs) /\ Len(jobs) \in Nat
    BY <1>2, LenProperties
  <2>2. /\ J \in Seq(JobRow) /\ Len(J) = Len(jobs)
    BY <1>2, <2>1, ExceptSeq
  <2> QED
    BY <2>1, <2>2
<1> HIDE DEF J
<1>4. \A i \in DOMAIN jobs : jobs[i].attempt <= J[i].attempt
  BY <1>2, <1>3, JobElement
<1>5. \A s \in Range(events) : VersionOf(s) <= VersionOf(s)'
  <2>1. \A s : VersionOf(s)' = VersionOf(s) /\ VersionOf(s) \in Nat
    BY <1>1, <1>2, VersionBounds DEF VersionOf
  <2> QED
    BY <2>1
<1>6. txs <= txs' /\ txs' \in 0..MaxTxs
  BY <1>1, <1>2, ProjectionReadsAssumption
<1>7. Len(events) <= Len(events') /\ Range(events) \subseteq Range(events')
  BY <1>1, <1>2, LenProperties
<1>8. Receipted(J, R)
  BY DEF J
<1>9. Len(jobs) <= Len(J)
  BY <1>3
<1> QED
  BY <1>1, <1>2, <1>3, <1>4, <1>5, <1>6, <1>7, <1>8, <1>9 DEF Grown

(* A claim brings the receipt of its attempt. *)
LEMMA ClaimGrows ==
  ASSUME BaseInv, NEW j \in DOMAIN jobs, ClaimJob(j)
  PROVE  Grown
<1> DEFINE new == [state |-> "Leased", attempt |-> jobs[j].attempt + 1]
           J == [jobs EXCEPT ![j] = new]
           r == [job |-> j, attempt |-> jobs[j].attempt + 1]
           R == Append(receipts, r)
<1>1. Transaction(events, J, R)
  BY DEF ClaimJob
<1>2. /\ jobs \in Seq(JobRow) /\ receipts \in Seq(ReceiptRow) /\ Receipted(jobs, receipts)
  BY DEF BaseInv
<1>3. /\ DOMAIN jobs = 1..Len(jobs) /\ Len(jobs) \in Nat
      /\ jobs[j].attempt \in Nat
  BY <1>2, JobElement
<1>4. /\ new \in JobRow /\ r \in ReceiptRow /\ new.attempt = jobs[j].attempt + 1
      /\ r.job = j /\ r.attempt = jobs[j].attempt + 1
      /\ jobs[j].attempt <= jobs[j].attempt + 1
  BY <1>3 DEF JobRow, ReceiptRow, States
<1>5. /\ DOMAIN J = DOMAIN jobs /\ J[j] = new
      /\ \A i \in DOMAIN jobs : i # j => J[i] = jobs[i]
  OBVIOUS
<1> HIDE DEF new, J, r
<1>6. /\ R \in Seq(ReceiptRow)
      /\ DOMAIN receipts \subseteq DOMAIN R
      /\ \A i \in DOMAIN receipts : R[i] = receipts[i]
      /\ \A i \in DOMAIN R : i \in DOMAIN receipts \/ R[i] = r
      /\ \E i \in DOMAIN R : R[i] = r
  <2>1. /\ R \in Seq(ReceiptRow) /\ DOMAIN receipts \subseteq DOMAIN R
        /\ \A i \in DOMAIN receipts : R[i] = receipts[i]
        /\ R[Len(receipts) + 1] = r /\ Len(receipts) + 1 \in DOMAIN R
        /\ \A i \in DOMAIN R : i \in DOMAIN receipts \/ i = Len(receipts) + 1
    BY <1>2, <1>4, Appended
  <2> QED
    BY <2>1
<1> HIDE DEF R
<1>7. ASSUME NEW k \in DOMAIN J, NEW n \in 1..J[k].attempt
      PROVE  \E i \in DOMAIN R : R[i].job = k /\ R[i].attempt = n
  <2>1. CASE k = j /\ n = jobs[j].attempt + 1
    BY <1>4, <1>6, <2>1
  <2>2. CASE ~ (k = j /\ n = jobs[j].attempt + 1)
    <3>1. k \in DOMAIN jobs /\ n \in 1..jobs[k].attempt
      BY <1>3, <1>4, <1>5, <1>7, <2>2
    <3>2. PICK i \in DOMAIN receipts : receipts[i].job = k /\ receipts[i].attempt = n
      BY <1>2, <3>1 DEF Receipted
    <3> QED
      BY <1>6, <3>2
  <2> QED
    BY <2>1, <2>2
<1>8. ASSUME NEW i \in DOMAIN R
      PROVE  R[i].job \in DOMAIN J /\ R[i].attempt <= J[R[i].job].attempt
  <2>1. CASE R[i] = r
    BY <1>3, <1>4, <1>5, <2>1
  <2>2. CASE i \in DOMAIN receipts
    <3>1. /\ R[i] = receipts[i] /\ receipts[i].job \in DOMAIN jobs
          /\ receipts[i].attempt <= jobs[receipts[i].job].attempt
      BY <1>2, <1>6, <2>2 DEF Receipted
    <3>2. receipts[i].attempt \in Nat
      <4>1. DOMAIN receipts = 1..Len(receipts)
        BY <1>2, LenProperties
      <4>2. receipts[i] \in ReceiptRow
        BY <1>2, <2>2, <4>1, ElementOfSeq
      <4> QED
        BY <4>2 DEF ReceiptRow
    <3>3. CASE receipts[i].job = j
      BY <1>3, <1>4, <1>5, <3>1, <3>2, <3>3
    <3>4. CASE receipts[i].job # j
      BY <1>5, <3>1, <3>4
    <3> QED
      BY <3>3, <3>4
  <2> QED
    BY <1>6, <2>1, <2>2
<1>9. Receipted(J, R)
  BY <1>7, <1>8 DEF Receipted
<1> QED
  BY <1>1, <1>4, <1>6, <1>9, RewriteGrows DEF J

(* The end of a lease leaves the attempts as they were. *)
LEMMA LeaseEndGrows ==
  ASSUME BaseInv, NEW j \in DOMAIN jobs, NEW state \in States, EndLease(j, state)
  PROVE  Grown
<1> DEFINE new == [jobs[j] EXCEPT !.state = state]
           J == [jobs EXCEPT ![j] = new]
<1>1. Transaction(events, J, receipts)
  BY DEF EndLease
<1>2. /\ jobs \in Seq(JobRow) /\ receipts \in Seq(ReceiptRow) /\ Receipted(jobs, receipts)
  BY DEF BaseInv
<1>3. jobs[j] \in JobRow /\ jobs[j].attempt <= jobs[j].attempt
  BY <1>2, JobElement
<1>4. new \in JobRow /\ new.attempt = jobs[j].attempt
  BY <1>3 DEF JobRow
<1>5. DOMAIN J = DOMAIN jobs /\ \A i \in DOMAIN jobs : J[i].attempt = jobs[i].attempt
  BY <1>4
<1>6. Receipted(J, receipts)
  <2> HIDE DEF J
  <2>1. \A k \in DOMAIN J : 1..J[k].attempt = 1..jobs[k].attempt
    BY <1>5
  <2>2. /\ \A k \in DOMAIN jobs : \A n \in 1..jobs[k].attempt :
             \E i \in DOMAIN receipts : receipts[i].job = k /\ receipts[i].attempt = n
        /\ \A i \in DOMAIN receipts :
             /\ receipts[i].job \in DOMAIN jobs
             /\ receipts[i].attempt <= jobs[receipts[i].job].attempt
    BY <1>2 DEF Receipted
  <2>3. \A k \in DOMAIN J : \A n \in 1..J[k].attempt :
          \E i \in DOMAIN receipts : receipts[i].job = k /\ receipts[i].attempt = n
    BY <1>5, <2>1, <2>2
  <2>4. \A i \in DOMAIN receipts :
          receipts[i].job \in DOMAIN J /\ receipts[i].attempt <= J[receipts[i].job].attempt
    BY <1>5, <2>2
  <2> QED
    BY <2>3, <2>4 DEF Receipted
<1> HIDE DEF new
<1> QED
  BY <1>1, <1>2, <1>3, <1>4, <1>6, RewriteGrows

(* Steps that leave these tables alone. *)
LEMMA SameGrows ==
  ASSUME BaseInv, UNCHANGED <<events, jobs, receipts>>, txs <= txs', txs' \in 0..MaxTxs
  PROVE  Grown
<1>1. /\ events \in Seq(Streams) /\ jobs \in Seq(JobRow) /\ receipts \in Seq(ReceiptRow)
      /\ Receipted(jobs, receipts)
  BY DEF BaseInv
<1>2. \A s \in Range(events) : VersionOf(s) <= VersionOf(s)'
  <2>1. \A s : VersionOf(s)' = VersionOf(s) /\ VersionOf(s) \in Nat
    BY <1>1, VersionBounds DEF VersionOf
  <2> QED
    BY <2>1
<1>3. Len(events) <= Len(events) /\ Len(jobs) <= Len(jobs)
  BY <1>1, LenProperties
<1>4. \A j \in DOMAIN jobs : jobs[j].attempt <= jobs[j].attempt
  BY <1>1, JobElement
<1> QED
  BY <1>1, <1>2, <1>3, <1>4 DEF Grown

(* The kinds of steps. *)
LEMMA Kinds ==
  INNext => PatchProjection \/ ScanProjection \/ Commit \/ ReadExport \/ ReadList
BY DEF INNext, Commit, ReadExport, ReadList

(* What every step does to the tables (projection and job statements of    *)
(* `transact`; readers change nothing).                                    *)
LEMMA StepGrows ==
  ASSUME BaseInv, [INNext]_inVars
  PROVE  Grown /\ GoodTable(rows')
<1>0. GoodTable(rows) /\ txs \in 0..MaxTxs /\ txs <= txs
  BY ProjectionReadsAssumption DEF BaseInv
<1>1. CASE PatchProjection
  <2>1. Patch /\ UNCHANGED <<events, jobs, receipts>>
    BY <1>1 DEF PatchProjection
  <2>2. GoodTable(rows') /\ txs' = txs + 1 /\ txs < MaxTxs
    BY <1>0, <2>1, PatchGood
  <2>3. txs <= txs' /\ txs' \in 0..MaxTxs
    BY <1>0, <2>2, ProjectionReadsAssumption
  <2> QED
    BY <2>1, <2>2, <2>3, SameGrows
<1>2. CASE ScanProjection
  <2>1. UNCHANGED <<rows, txs, events, jobs, receipts>>
    BY <1>2 DEF ScanProjection, Scan, BeginScan, ReadPage, EndRead
  <2> QED
    BY <1>0, <2>1, SameGrows
<1>3. CASE Commit
  <2>1. rows' = rows
    BY <1>3 DEF Commit, AppendEvent, EnqueueJob, ClaimJob, EndLease, Transaction
  <2>2. Grown
    BY <1>3, AppendGrows, EnqueueGrows, ClaimGrows, LeaseEndGrows DEF Commit
  <2> QED
    BY <1>0, <2>1, <2>2
<1>4. CASE ReadExport
  <2>1. UNCHANGED <<rows, txs, events, jobs, receipts>>
    BY <1>4 DEF ReadExport, StartExport, ExportCount, ExportRows, EndExport, prVars
  <2> QED
    BY <1>0, <2>1, SameGrows
<1>5. CASE ReadList
  <2>1. UNCHANGED <<rows, txs, events, jobs, receipts>>
    BY <1>5 DEF ReadList, StartList, ListPage, EndList, prVars
  <2> QED
    BY <1>0, <2>1, SameGrows
<1>6. CASE UNCHANGED inVars
  <2>1. UNCHANGED <<rows, txs, events, jobs, receipts>>
    BY <1>6 DEF inVars, prVars
  <2> QED
    BY <1>0, <2>1, SameGrows
<1> QED
  BY <1>1, <1>2, <1>3, <1>4, <1>5, <1>6, Kinds

(* The stores to start from are good ones. *)
LEMMA BaseInit == INInit => BaseInv /\ scan = NULL /\ export = NULL /\ list = NULL
<1> SUFFICES ASSUME INInit PROVE BaseInv /\ scan = NULL /\ export = NULL /\ list = NULL
  OBVIOUS
<1>1. PICK s \in Stores :
        /\ rows = s.rows /\ txs = s.txs
        /\ events = s.events /\ jobs = s.jobs /\ receipts = s.receipts
  BY DEF INInit
<1>2. BaseInv
  BY <1>1, InspectionAssumption DEF BaseInv, GoodTable
<1> QED
  BY <1>2 DEF INInit

(* Every step keeps the tables well formed. *)
LEMMA BaseStep == ASSUME BaseInv, [INNext]_inVars PROVE BaseInv'
BY StepGrows DEF Grown, BaseInv, GoodTable, Receipted, Keyed

----------------------------------------------------------------------------
(* Scans                                                                   *)

(* Keys of rows are byte strings, and ordered. *)
LEMMA RowKeys ==
  /\ \A r \in RowType : r.key \in Seq(Bytes)
  /\ Transitive(KeyOrder(RowType), RowType)
  /\ \A r, s \in RowType : <<r, s>> \in KeyOrder(RowType) <=> Less(r.key, s.key)
<1>1. \A r \in RowType : r.key \in Seq(Bytes)
  BY ProjectionReadsAssumption DEF RowType
<1>2. \A r, s \in RowType : <<r, s>> \in KeyOrder(RowType) <=> Less(r.key, s.key)
  BY DEF KeyOrder
<1>3. ASSUME NEW r \in RowType, NEW s \in RowType, NEW t \in RowType,
             <<r, s>> \in KeyOrder(RowType), <<s, t>> \in KeyOrder(RowType)
      PROVE  <<r, t>> \in KeyOrder(RowType)
  <2>1. Less(r.key, s.key) /\ Less(s.key, t.key)
    BY <1>2, <1>3
  <2>2. Less(r.key, t.key)
    BY <1>1, <2>1, LessTransitive
  <2> QED
    BY <1>2, <2>2
<1> QED
  BY <1>1, <1>2, <1>3 DEF Transitive

(* The statement of a scan selects what its caller asked for: the bounds    *)
(* that a prefix is turned into are exact (scan; prefix_upper_bound).       *)
LEMMA SelectedIsWanted ==
  ASSUME rows \subseteq RowType, NEW q \in Queries, NEW after
  PROVE  Selected(q, after) = {r \in rows : Wanted(q, r) /\ (after # NULL => Less(after, r.key))}
<1>1. ASSUME NEW r \in rows
      PROVE  Wanted(q, r) <=> /\ r.projection = q.projection
                              /\ Start(q) # NULL => ~Less(r.key, Start(q))
                              /\ End(q) # NULL => Less(r.key, End(q))
  <2>1. r.key \in Seq(Bytes)
    BY RowKeys
  <2>2. \/ q.kind = "Prefix" /\ q.prefix \in Seq(Bytes)
        \/ q.kind = "Range"
    BY ProjectionReadsAssumption
  <2>3. CASE q.kind = "Prefix" /\ q.prefix \in Seq(Bytes)
    <3>1. q.prefix # NULL
      BY <2>3, ProjectionReadsAssumption
    <3>2. IsPrefix(q.prefix, r.key) <=>
            /\ ~Less(r.key, q.prefix)
            /\ PrefixUpperBound(q.prefix) # NULL => Less(r.key, PrefixUpperBound(q.prefix))
      BY <2>1, <2>3, PrefixBoundIsExact
    <3> QED
      BY <2>3, <3>1, <3>2 DEF Wanted, Start, End
  <2>4. CASE q.kind = "Range"
    BY <2>4 DEF Wanted, Start, End
  <2> QED
    BY <2>2, <2>3, <2>4
<1> QED
  BY <1>1 DEF Selected

(* A page of a scan goes on after the last key that was read. *)
LEMMA NextPageIsPage ==
  ASSUME BaseInv, ScanInv, scan # NULL
  PROVE  LET after == IF scan.got = <<>> THEN NULL ELSE Last(scan.got).key
             S     == Selected(scan.query, after)
         IN  /\ IsPage(NextPage, scan.limit, S, KeyOrder(S))
             /\ S \subseteq rows /\ rows \subseteq RowType
             /\ scan.got # <<>> => /\ Last(scan.got) \in RowType
                                   /\ \A r \in S : <<Last(scan.got), r>> \in KeyOrder(RowType)
             /\ \A r \in rows : r \in S <=>
                  Wanted(scan.query, r) /\ (scan.got # <<>> => Less(Last(scan.got).key, r.key))
<1> DEFINE after == IF scan.got = <<>> THEN NULL ELSE Last(scan.got).key
           S     == Selected(scan.query, after)
<1>1. /\ GoodTable(rows) /\ rows \subseteq RowType /\ IsFiniteSet(rows) /\ Keyed(rows)
      /\ scan.query \in Queries /\ scan.limit \in Nat /\ scan.got \in Seq(RowType)
  BY ProjectionReadsAssumption DEF BaseInv, GoodTable, ScanInv, ScanType
<1>2. scan.got # <<>> => Last(scan.got) \in RowType /\ Last(scan.got).key # NULL
  <2> SUFFICES ASSUME scan.got # <<>> PROVE Last(scan.got) \in RowType /\ Last(scan.got).key # NULL
    OBVIOUS
  <2>1. Len(scan.got) \in 1..Len(scan.got)
    BY <1>1
  <2>2. Last(scan.got) \in RowType
    BY <1>1, <2>1, ElementOfSeq DEF Last
  <2> QED
    BY <2>2, RowKeys, ProjectionReadsAssumption
<1>3. S = {r \in rows : Wanted(scan.query, r) /\ (after # NULL => Less(after, r.key))}
  BY <1>1, SelectedIsWanted
<1>4. after # NULL <=> scan.got # <<>>
  BY <1>2
<1>5. \A r \in rows : r \in S <=>
        Wanted(scan.query, r) /\ (scan.got # <<>> => Less(Last(scan.got).key, r.key))
  <2> HIDE DEF S
  <2> QED
    BY <1>3, <1>4
<1>6. S \subseteq rows
  BY <1>3
<1>7. IsFiniteSet(S)
  BY <1>1, <1>6, FS_Subset
<1>8. \A r \in S : r.key \in Seq(Bytes)
  BY <1>1, <1>6, RowKeys
<1>9. \A r, s \in S : r.key = s.key => r = s
  BY <1>1 DEF Selected, Keyed
<1>10. NextPage = FirstOf(scan.limit, S, ByKey)
  BY DEF NextPage, ScanPage
<1>11. IsPage(NextPage, scan.limit, S, KeyOrder(S))
  <2> HIDE DEF S
  <2> QED
    BY <1>1, <1>7, <1>8, <1>9, <1>10, PageByKey
<1>12. scan.got # <<>> => \A r \in S : <<Last(scan.got), r>> \in KeyOrder(RowType)
  <2> HIDE DEF S
  <2> QED
    BY <1>1, <1>2, <1>5, <1>6, RowKeys
<1> QED
  BY <1>1, <1>2, <1>5, <1>6, <1>11, <1>12

(* Reading a page keeps the invariant of the scan. *)
LEMMA ReadPageKeeps ==
  ASSUME BaseInv, ScanInv, ReadPage
  PROVE  ScanInv'
<1> DEFINE got == scan.got
           new == got \o NextPage
           after == IF scan.got = <<>> THEN NULL ELSE Last(scan.got).key
           S == Selected(scan.query, after)
<1>1. /\ scan # NULL /\ ~scan.done
      /\ scan' = [scan EXCEPT !.got = new, !.done = Len(NextPage) < scan.limit]
      /\ rows' = rows /\ during' = during
  BY DEF ReadPage
<1>2. /\ scan \in ScanType /\ rows \in during /\ got \in Seq(RowType)
      /\ Ascending(got, KeyOrder(RowType))
      /\ scan.limit \in Nat /\ scan.limit > 0
  BY <1>1, ProjectionReadsAssumption DEF ScanInv, ScanType
<1>3. /\ IsPage(NextPage, scan.limit, S, KeyOrder(S)) /\ S \subseteq rows /\ rows \subseteq RowType
      /\ got # <<>> => /\ Last(got) \in RowType
                       /\ \A r \in S : <<Last(got), r>> \in KeyOrder(RowType)
      /\ \A r \in rows : r \in S <=> Wanted(scan.query, r) /\ (got # <<>> => Less(Last(got).key, r.key))
  BY <1>1, NextPageIsPage
<1> HIDE DEF S, got
<1>4. S \subseteq RowType /\ KeyOrder(S) \subseteq KeyOrder(RowType)
  BY <1>3 DEF KeyOrder
<1>5. /\ new \in Seq(RowType) /\ Ascending(new, KeyOrder(RowType))
      /\ Range(new) = Range(got) \cup Range(NextPage)
      /\ NextPage \in Seq(S) /\ Range(NextPage) \subseteq S
      /\ NextPage = <<>> => new = got
      /\ NextPage # <<>> => new # <<>> /\ Last(new) = Last(NextPage)
      /\ \A r \in S : Len(NextPage) < scan.limit => r \in Range(NextPage)
      /\ \A r \in S : (NextPage # <<>> /\ <<Last(NextPage), r>> \notin KeyOrder(RowType))
                         => r \in Range(NextPage)
  <2> DEFINE page == NextPage
             R == KeyOrder(RowType)
             Q == KeyOrder(S)
             n == scan.limit
  <2>1. GoesOn(RowType, R, got, S, Q, n, page)
    BY <1>2, <1>3, <1>4, RowKeys DEF GoesOn
  <2> HIDE DEF page, R, Q, n
  <2>2. /\ got \o page \in Seq(RowType) /\ Ascending(got \o page, R)
        /\ Range(got \o page) = Range(got) \cup Range(page)
        /\ page \in Seq(S) /\ Range(page) \subseteq S
        /\ page = <<>> => got \o page = got
        /\ page # <<>> => got \o page # <<>> /\ Last(got \o page) = Last(page)
        /\ \A r \in S : Len(page) < n => r \in Range(page)
        /\ \A r \in S : (page # <<>> /\ <<Last(page), r>> \notin R) => r \in Range(page)
    BY <2>1, PageTaken
  <2> QED
    BY <2>2 DEF page, R, n
<1> HIDE DEF new
<1>6. /\ scan' \in ScanType
      /\ scan'.got = new /\ scan'.done = (Len(NextPage) < scan.limit)
      /\ scan'.query = scan.query
  <2>1. (Len(NextPage) < scan.limit) \in BOOLEAN
    OBVIOUS
  <2> QED
    BY <1>1, <1>2, <1>5, <2>1 DEF ScanType
<1>7. \A r \in Range(new) : Wanted(scan.query, r) /\ \E tab \in during : r \in tab
  <2>1. \A r \in Range(got) : Wanted(scan.query, r) /\ \E tab \in during : r \in tab
    BY <1>1 DEF ScanInv, got
  <2>2. \A r \in Range(NextPage) : r \in rows /\ Wanted(scan.query, r)
    BY <1>3, <1>5
  <2> QED
    BY <1>2, <1>5, <2>1, <2>2
<1>8. ASSUME NEW r \in rows, Wanted(scan.query, r), Lasting(r),
             Len(NextPage) < scan.limit \/ (new # <<>> /\ ~Less(Last(new).key, r.key))
      PROVE  \E g \in Range(new) : g.key = r.key
  <2>1. CASE r \notin S
    <3>1. got # <<>> /\ ~Less(Last(got).key, r.key)
      BY <1>3, <1>8, <2>1
    <3>2. \E g \in Range(got) : g.key = r.key
      BY <1>1, <1>8, <3>1 DEF ScanInv, ScanPassed, got
    <3> QED
      BY <1>5, <3>2
  <2>2. CASE r \in S /\ Len(NextPage) < scan.limit
    BY <1>5, <2>2
  <2>3. CASE r \in S /\ new # <<>> /\ ~Less(Last(new).key, r.key)
    <3>1. NextPage # <<>>
      <4> SUFFICES ASSUME NextPage = <<>> PROVE FALSE
        OBVIOUS
      <4>1. got # <<>> /\ ~Less(Last(got).key, r.key)
        BY <1>5, <2>3
      <4> QED
        BY <1>3, <2>3, <4>1
    <3>2. Last(NextPage) \in RowType
      <4>1. NextPage \in Seq(RowType) /\ Len(NextPage) \in 1..Len(NextPage)
        BY <1>4, <1>5, <3>1, SeqMonotonic
      <4> QED
        BY <4>1, ElementOfSeq DEF Last
    <3>3. <<Last(NextPage), r>> \notin KeyOrder(RowType)
      BY <1>3, <1>5, <2>3, <3>1, <3>2, RowKeys
    <3> QED
      BY <1>5, <2>3, <3>1, <3>3
  <2> QED
    BY <1>8, <2>1, <2>2, <2>3
<1> QED
  BY <1>1, <1>2, <1>5, <1>6, <1>7, <1>8 DEF ScanInv, Lasting, ScanPassed

(* A patch during a scan leaves every key that lasts where it was. *)
LEMMA PatchKeepsScan ==
  ASSUME BaseInv, ScanInv, Patch
  PROVE  ScanInv'
<1> SUFFICES ASSUME scan # NULL PROVE ScanInv'
  BY PatchGood DEF BaseInv, ScanInv
<1>1. /\ scan' = scan /\ during' = during \cup {rows'}
  BY PatchGood DEF BaseInv
<1>2. /\ rows \in during /\ scan \in ScanType /\ Ascending(scan.got, KeyOrder(RowType))
      /\ \A r \in Range(scan.got) : Wanted(scan.query, r) /\ \E tab \in during : r \in tab
      /\ \A r \in rows : (Wanted(scan.query, r) /\ Lasting(r) /\ ScanPassed(r.key))
             => \E g \in Range(scan.got) : g.key = r.key
  BY DEF ScanInv
<1>3. ASSUME NEW r \in rows', Wanted(scan.query, r),
             \A tab \in during' : RowOf(tab, r.projection, r.key) # {}, ScanPassed(r.key)
      PROVE  \E g \in Range(scan.got) : g.key = r.key
  <2>1. PICK o \in rows : o.projection = r.projection /\ o.key = r.key
    BY <1>1, <1>2, <1>3 DEF RowOf
  <2>2. Wanted(scan.query, o)
    BY <1>3, <2>1 DEF Wanted
  <2>3. Lasting(o)
    BY <1>1, <1>3, <2>1 DEF Lasting
  <2> QED
    BY <1>2, <1>3, <2>1, <2>2, <2>3
<1> QED
  BY <1>1, <1>2, <1>3 DEF ScanInv, Lasting, ScanPassed

(* Every step, of the scan or of a writer, keeps what the scan has seen. *)
LEMMA ScanStep ==
  ASSUME BaseInv, ScanInv, [INNext]_inVars
  PROVE  ScanInv'
<1>1. CASE PatchProjection
  BY <1>1, PatchKeepsScan DEF PatchProjection
<1>2. CASE ScanProjection
  <2>1. ASSUME NEW q \in Queries, NEW limit \in PageLimits, BeginScan(q, limit) PROVE ScanInv'
    <3>1. /\ scan' = [query |-> q, limit |-> limit, got |-> <<>>, done |-> FALSE]
          /\ during' = {rows} /\ rows' = rows
      BY <2>1 DEF BeginScan
    <3>2. scan' \in ScanType /\ scan'.got = <<>> /\ scan'.done = FALSE
      BY <3>1 DEF ScanType
    <3>3. Range(scan'.got) = {} /\ Ascending(scan'.got, KeyOrder(RowType))
      BY <3>2 DEF Range, Ascending
    <3> QED
      BY <3>1, <3>2, <3>3 DEF ScanInv, ScanPassed
  <2>2. CASE EndRead
    BY <2>2 DEF EndRead, ScanInv
  <2> QED
    BY <1>2, <2>1, <2>2, ReadPageKeeps DEF ScanProjection, Scan
<1>3. CASE UNCHANGED <<rows, scan, during>>
  BY <1>3 DEF ScanInv, Lasting, ScanPassed
<1>4. Commit \/ ReadExport \/ ReadList \/ UNCHANGED inVars => UNCHANGED <<rows, scan, during>>
  BY DEF Commit, AppendEvent, EnqueueJob, ClaimJob, EndLease, Transaction, ReadExport, StartExport,
         ExportCount, ExportRows, EndExport, ReadList, StartList, ListPage, EndList, inVars, prVars
<1> QED
  BY <1>1, <1>2, <1>3, <1>4, Kinds

----------------------------------------------------------------------------
(* Lists of jobs                                                           *)

(* Numbers are ordered. *)
LEMMA NumbersOrdered ==
  /\ Transitive(NumberOrder(Nat \ {0}), Nat \ {0})
  /\ \A i, j \in Nat \ {0} : <<i, j>> \in NumberOrder(Nat \ {0}) <=> i < j
<1>1. \A i, j \in Nat \ {0} : <<i, j>> \in NumberOrder(Nat \ {0}) <=> i < j
  BY DEF NumberOrder
<1>2. ASSUME NEW i \in Nat \ {0}, NEW j \in Nat \ {0}, NEW k \in Nat \ {0},
             <<i, j>> \in NumberOrder(Nat \ {0}), <<j, k>> \in NumberOrder(Nat \ {0})
      PROVE  <<i, k>> \in NumberOrder(Nat \ {0})
  <2>1. i < j /\ j < k
    BY <1>1, <1>2
  <2>2. i < k
    BY <2>1
  <2> QED
    BY <1>1, <2>2
<1> QED
  BY <1>1, <1>2 DEF Transitive

(* A page of jobs goes on after the cursor (jobs_page). *)
LEMMA ListPageKeeps ==
  ASSUME BaseInv, ListInv, ListPage
  PROVE  ListInv'
<1> DEFINE got == list.got
           S == {j \in DOMAIN jobs : j > list.after /\ InState(j, list.state)}
           page == JobsPage(list.state, list.after, list.limit)
           new == got \o page
           U == Nat \ {0}
           R == NumberOrder(U)
           Q == NumberOrder(S)
           n == list.limit
<1>1. /\ list # NULL /\ ~list.done
      /\ list' = [list EXCEPT !.got = new, !.after = IF page = <<>> THEN list.after ELSE Last(page),
                              !.done = Len(page) # list.limit]
      /\ jobs' = jobs
  BY DEF ListPage
<1>2. /\ list \in ListType /\ got \in Seq(U) /\ Ascending(got, R)
      /\ n \in Nat /\ n > 0
      /\ list.after = IF got = <<>> THEN 0 ELSE Last(got)
      /\ list.after \in 0..Len(jobs)
      /\ \A j \in list.steady :
           /\ j \in DOMAIN jobs /\ InState(j, list.state)
           /\ (j <= list.after \/ list.done) => j \in Range(got)
  BY <1>1, ProjectionReadsAssumption DEF ListInv, ListType
<1>3. DOMAIN jobs = 1..Len(jobs) /\ Len(jobs) \in Nat
  BY JobElement DEF BaseInv
<1>4. /\ S \subseteq 1..Len(jobs) /\ S \subseteq U
      /\ \A j \in S : j \in Nat \ {0} /\ j \in Nat /\ j \in 0..Len(jobs)
  BY <1>3
<1>5. IsFiniteSet(S)
  <2>1. IsFiniteSet(1..Len(jobs)) /\ S \in SUBSET (1..Len(jobs))
    BY <1>3, <1>4, FS_Interval
  <2> QED
    BY <2>1, FS_Subset
<1>6. IsPage(page, n, S, Q)
  <2>1. page = FirstOf(n, S, ByNumber)
    BY DEF JobsPage
  <2> HIDE DEF page, S
  <2> QED
    BY <1>2, <1>4, <1>5, <2>1, PageByNumber
<1>7. got # <<>> => Last(got) \in U
  <2> SUFFICES ASSUME got # <<>> PROVE Last(got) \in U
    OBVIOUS
  <2>1. Len(got) \in 1..Len(got)
    BY <1>2
  <2> QED
    BY <1>2, <2>1, ElementOfSeq DEF Last
<1>8. GoesOn(U, R, got, S, Q, n, page)
  <2>1. Q \subseteq R
    BY <1>4 DEF NumberOrder
  <2>2. got # <<>> => \A r \in S : <<Last(got), r>> \in R
    <3> SUFFICES ASSUME got # <<>>, NEW r \in S PROVE <<Last(got), r>> \in R
      OBVIOUS
    <3>1. Last(got) < r
      BY <1>2, <1>3, <1>4, <1>7
    <3> QED
      BY <1>4, <1>7, <3>1, NumbersOrdered
  <2> QED
    BY <1>2, <1>4, <1>6, <2>1, <2>2, NumbersOrdered DEF GoesOn
<1> HIDE DEF page, R, Q, n
<1>9. /\ new \in Seq(U) /\ Ascending(new, R)
      /\ Range(new) = Range(got) \cup Range(page)
      /\ page \in Seq(S) /\ Len(page) <= n
      /\ page = <<>> => new = got
      /\ page # <<>> => new # <<>> /\ Last(new) = Last(page)
      /\ \A r \in S : Len(page) < n => r \in Range(page)
      /\ \A r \in S : (page # <<>> /\ <<Last(page), r>> \notin R) => r \in Range(page)
  <2> HIDE DEF S, U, got
  <2> QED
    BY <1>8, PageTaken
<1> HIDE DEF new, S
<1>10. page # <<>> => Last(page) \in S
  <2> SUFFICES ASSUME page # <<>> PROVE Last(page) \in S
    OBVIOUS
  <2>1. Len(page) \in 1..Len(page)
    BY <1>9
  <2> QED
    BY <1>9, <2>1, ElementOfSeq DEF Last
<1>11. /\ list'.got = new /\ list'.after = (IF page = <<>> THEN list.after ELSE Last(page))
       /\ list'.done = (Len(page) # n) /\ list'.state = list.state /\ list'.steady = list.steady
  BY <1>1, <1>2 DEF ListType, n
<1>12. list'.after \in Nat /\ list'.after \in 0..Len(jobs) /\ list.after \in Nat
  <2>1. list.after \in 0..Len(jobs) /\ list.after \in Nat
    BY <1>2, <1>3
  <2> QED
    BY <1>4, <1>10, <1>11, <2>1
<1>13. list' \in ListType
  <2>1. list.after \in Nat /\ (page # <<>> => Last(page) \in Nat) /\ (Len(page) # list.limit) \in BOOLEAN
    BY <1>4, <1>10, <1>12
  <2> QED
    BY <1>1, <1>2, <1>9, <2>1 DEF ListType
<1>14. list'.after = IF new = <<>> THEN 0 ELSE Last(new)
  BY <1>2, <1>9, <1>11
<1>15. ASSUME NEW j \in list.steady, j <= list'.after \/ list'.done
       PROVE  j \in Range(new)
  <2>1. j \in DOMAIN jobs /\ InState(j, list.state) /\ j \in Nat
    BY <1>2, <1>3
  <2>2. CASE j <= list.after
    BY <1>2, <1>9, <2>2
  <2>3. CASE j > list.after
    <3>1. j \in S
      BY <2>1, <2>3 DEF S
    <3>2. CASE list'.done
      <4>0. \A m \in Nat : m <= n /\ m # n => m < n
        BY <1>2
      <4>1. Len(page) < n
        BY <1>2, <1>9, <1>11, <3>2, <4>0, LenProperties
      <4> QED
        BY <1>9, <3>1, <4>1
    <3>3. CASE j <= list'.after
      <4>1. page # <<>> /\ j <= Last(page)
        BY <1>2, <1>3, <1>11, <2>1, <2>3, <3>3
      <4>2. <<Last(page), j>> \notin R
        <5>1. Last(page) \in Nat \ {0} /\ j \in Nat \ {0}
          BY <1>4, <1>10, <3>1, <4>1
        <5>2. ~(Last(page) < j)
          BY <4>1, <5>1
        <5> QED
          BY <5>1, <5>2, NumbersOrdered DEF R
      <4> QED
        BY <1>9, <3>1, <4>1, <4>2
    <3> QED
      BY <1>15, <3>2, <3>3
  <2> QED
    BY <1>2, <1>3, <2>1, <2>2, <2>3
<1>16. \A j \in list'.steady :
         /\ j \in DOMAIN jobs' /\ list'.state \in {NULL, jobs'[j].state}
         /\ (j <= list'.after \/ list'.done) => j \in Range(list'.got)
  BY <1>1, <1>2, <1>11, <1>15 DEF InState
<1>17. Ascending(list'.got, NumberOrder(Nat \ {0}))
  BY <1>9, <1>11 DEF R
<1> QED
  BY <1>1, <1>11, <1>12, <1>13, <1>14, <1>16, <1>17 DEF ListInv, InState

(* A commit during a list keeps the steady jobs that are still in the state. *)
LEMMA CommitKeepsList ==
  ASSUME BaseInv, ListInv, Grown, list # NULL,
         list' = [list EXCEPT !.steady = {j \in @ : list.state \in {NULL, jobs'[j].state}}]
  PROVE  ListInv'
<1>1. /\ list \in ListType
      /\ list.after = IF list.got = <<>> THEN 0 ELSE Last(list.got)
      /\ list.after \in 0..Len(jobs)
      /\ Ascending(list.got, NumberOrder(Nat \ {0}))
      /\ \A j \in list.steady :
           /\ j \in DOMAIN jobs /\ InState(j, list.state)
           /\ (j <= list.after \/ list.done) => j \in Range(list.got)
  BY DEF ListInv
<1>2. /\ list'.got = list.got /\ list'.after = list.after /\ list'.done = list.done
      /\ list'.state = list.state
      /\ list'.steady = {j \in list.steady : list.state \in {NULL, jobs'[j].state}}
      /\ list' \in ListType
  BY <1>1 DEF ListType
<1>3. /\ Len(jobs) <= Len(jobs') /\ DOMAIN jobs \subseteq DOMAIN jobs'
      /\ Len(jobs) \in Nat /\ Len(jobs') \in Nat
  BY JobElement DEF Grown, BaseInv
<1>4. list'.after \in 0..Len(jobs')
  BY <1>1, <1>2, <1>3
<1>5. \A j \in list'.steady :
         /\ j \in DOMAIN jobs' /\ list'.state \in {NULL, jobs'[j].state}
         /\ (j <= list'.after \/ list'.done) => j \in Range(list'.got)
  BY <1>1, <1>2, <1>3 DEF InState
<1> QED
  BY <1>1, <1>2, <1>4, <1>5 DEF ListInv, InState

(* Every step keeps what the paged list has seen. *)
LEMMA ListStep ==
  ASSUME BaseInv, ListInv, [INNext]_inVars
  PROVE  ListInv'
<1>1. CASE UNCHANGED <<jobs, list>>
  BY <1>1 DEF ListInv, InState
<1>2. PatchProjection \/ ScanProjection \/ ReadExport \/ UNCHANGED inVars => UNCHANGED <<jobs, list>>
  BY DEF PatchProjection, ScanProjection, ReadExport, StartExport, ExportCount, ExportRows,
         EndExport, inVars
<1>3. CASE Commit
  <2>1. list' = Throughout(jobs')
    BY <1>3 DEF Commit, AppendEvent, EnqueueJob, ClaimJob, EndLease, Transaction
  <2>2. CASE list = NULL
    BY <2>1, <2>2 DEF Throughout, ListInv
  <2>3. CASE list # NULL
    <3>1. list' = [list EXCEPT !.steady = {j \in @ : list.state \in {NULL, jobs'[j].state}}]
      BY <2>1, <2>3 DEF Throughout
    <3> QED
      BY <2>3, <3>1, StepGrows, CommitKeepsList
  <2> QED
    BY <2>2, <2>3
<1>4. CASE ReadList
  <2>1. ASSUME NEW state \in States \cup {NULL}, NEW limit \in PageLimits, StartList(state, limit)
        PROVE  ListInv'
    <3>1. /\ list' = [state |-> state, limit |-> limit, after |-> 0, got |-> <<>>, done |-> FALSE,
                      steady |-> {j \in DOMAIN jobs : InState(j, state)}]
          /\ jobs' = jobs
      BY <2>1 DEF StartList
    <3>2. DOMAIN jobs = 1..Len(jobs) /\ Len(jobs) \in Nat
      BY JobElement DEF BaseInv
    <3>3. list' \in ListType
      BY <3>1, <3>2 DEF ListType
    <3>4. /\ list'.got = <<>> /\ list'.after = 0 /\ list'.done = FALSE /\ list'.state = state
          /\ list'.steady = {j \in DOMAIN jobs : InState(j, state)}
      BY <3>1
    <3>5. Ascending(list'.got, NumberOrder(Nat \ {0}))
      BY <3>4 DEF Ascending
    <3>6. \A j \in list'.steady : j \in DOMAIN jobs' /\ InState(j, state)' /\ ~(j <= 0)
      BY <3>1, <3>2, <3>4 DEF InState
    <3>7. 0 \in 0..Len(jobs')
      BY <3>1, <3>2
    <3> QED
      BY <3>3, <3>4, <3>5, <3>6, <3>7 DEF ListInv
  <2>2. CASE EndList
    BY <2>2 DEF EndList, ListInv
  <2> QED
    BY <1>4, <2>1, <2>2, ListPageKeeps DEF ReadList
<1> QED
  BY <1>1, <1>2, <1>3, <1>4, Kinds

----------------------------------------------------------------------------
(* Exports                                                                 *)

(* The statements of an export, one by one. *)
LEMMA Names ==
  /\ Statements = 9 /\ Len(Counts) = 3
  /\ Range(Counts) = {"transactions", "events", "streams"}
  /\ SectionNames = {"transactions", "events", "streams", "projections", "jobs", "claim_receipts"}
  /\ Counts[1] = "transactions" /\ Counts[2] = "events" /\ Counts[3] = "streams"
<1>1. /\ Len(Counts) = 3 /\ Len(Sections) = 6
      /\ DOMAIN Counts = 1..3 /\ DOMAIN Sections = 1..6
      /\ Counts[1] = "transactions" /\ Counts[2] = "events" /\ Counts[3] = "streams"
      /\ Sections[1] = "transactions" /\ Sections[2] = "events" /\ Sections[3] = "streams"
      /\ Sections[4] = "projections" /\ Sections[5] = "jobs" /\ Sections[6] = "claim_receipts"
  BY DEF Counts, Sections
<1>2. Statements = 9
  BY <1>1 DEF Statements
<1>3. 1..3 = {1, 2, 3} /\ 1..6 = {1, 2, 3, 4, 5, 6}
  OBVIOUS
<1>4. Range(Counts) = {Counts[1], Counts[2], Counts[3]}
  BY <1>1, <1>3 DEF Range
<1>5. SectionNames = {Sections[1], Sections[2], Sections[3], Sections[4], Sections[5], Sections[6]}
  BY <1>1, <1>3 DEF Range, SectionNames
<1> QED
  BY <1>1, <1>2, <1>4, <1>5

(* Each section has its own statement, after the counts of the header. *)
LEMMA Places ==
  /\ Place("transactions") = 4 /\ Place("events") = 5 /\ Place("streams") = 6
  /\ Place("projections") = 7 /\ Place("jobs") = 8 /\ Place("claim_receipts") = 9
  /\ \A s \in SectionNames : Place(s) \in 4..9
  /\ \A s, t \in SectionNames : Place(s) = Place(t) => s = t
<1>1. /\ Place("transactions") = 4 /\ Place("events") = 5 /\ Place("streams") = 6
      /\ Place("projections") = 7 /\ Place("jobs") = 8 /\ Place("claim_receipts") = 9
  BY DEF Place
<1> QED
  BY <1>1, Names

(* and each statement after the header its own section. *)
LEMMA SectionPlaces ==
  \A at \in 4..9 : SectionAt(at) \in SectionNames /\ Place(SectionAt(at)) = at
<1>1. /\ SectionAt(4) = "transactions" /\ SectionAt(5) = "events" /\ SectionAt(6) = "streams"
      /\ SectionAt(7) = "projections" /\ SectionAt(8) = "jobs" /\ SectionAt(9) = "claim_receipts"
  BY Names DEF SectionAt, Sections
<1>2. \A at \in 4..9 : at = 4 \/ at = 5 \/ at = 6 \/ at = 7 \/ at = 8 \/ at = 9
  OBVIOUS
<1> QED
  BY <1>1, <1>2, Names, Places

(* The rows of each section. *)
LEMMA RowSets ==
  /\ RowSet("transactions") = [pos : Nat \ {0}]
  /\ RowSet("events") = [pos : Nat \ {0}, stream : Streams, version : Nat]
  /\ RowSet("streams") = [pos : Nat \ {0}, version : Nat]
  /\ RowSet("projections") = {r \in [pos : Nat \ {0}, row : RowType] : r.pos = r.row.rowid}
  /\ RowSet("jobs") = [pos : Nat \ {0}, attempt : Nat]
  /\ RowSet("claim_receipts") = [pos : Nat \ {0}, job : Nat, attempt : Nat]
BY DEF RowSet

(* and their columns: every row has a position. *)
LEMMA Columns ==
  /\ \A r \in RowSet("transactions") : r.pos \in Nat \ {0}
  /\ \A r \in RowSet("events") : r.pos \in Nat \ {0} /\ r.stream \in Streams /\ r.version \in Nat
  /\ \A r \in RowSet("streams") : r.pos \in Nat \ {0} /\ r.version \in Nat
  /\ \A r \in RowSet("projections") : r.pos \in Nat \ {0} /\ r.row \in RowType /\ r.pos = r.row.rowid
  /\ \A r \in RowSet("jobs") : r.pos \in Nat \ {0} /\ r.attempt \in Nat
  /\ \A r \in RowSet("claim_receipts") : r.pos \in Nat \ {0} /\ r.job \in Nat /\ r.attempt \in Nat
<1>1. \A r \in RowSet("transactions") : r.pos \in Nat \ {0}
  BY DEF RowSet
<1>2. \A r \in RowSet("events") : r.pos \in Nat \ {0} /\ r.stream \in Streams /\ r.version \in Nat
  BY DEF RowSet
<1>3. \A r \in RowSet("streams") : r.pos \in Nat \ {0} /\ r.version \in Nat
  BY DEF RowSet
<1>4. \A r \in RowSet("projections") : r.pos \in Nat \ {0} /\ r.row \in RowType /\ r.pos = r.row.rowid
  BY DEF RowSet
<1>5. \A r \in RowSet("jobs") : r.pos \in Nat \ {0} /\ r.attempt \in Nat
  BY DEF RowSet
<1>6. \A r \in RowSet("claim_receipts") : r.pos \in Nat \ {0} /\ r.job \in Nat /\ r.attempt \in Nat
  BY DEF RowSet
<1> QED
  BY <1>1, <1>2, <1>3, <1>4, <1>5, <1>6

(* Positions, and their order. *)
LEMMA Positions ==
  ASSUME NEW s \in SectionNames
  PROVE  /\ \A r \in RowSet(s) : r.pos \in Nat \ {0}
         /\ RowSet(s) \subseteq AnyRow
         /\ Transitive(PosOrder(RowSet(s)), RowSet(s))
         /\ \A q, r \in RowSet(s) : <<q, r>> \in PosOrder(RowSet(s)) <=> q.pos < r.pos
<1>1. \A r \in RowSet(s) : r.pos \in Nat \ {0}
  BY Columns, Names
<1>2. \A q, r \in RowSet(s) : <<q, r>> \in PosOrder(RowSet(s)) <=> q.pos < r.pos
  BY DEF PosOrder
<1>3. ASSUME NEW q \in RowSet(s), NEW r \in RowSet(s), NEW t \in RowSet(s),
             <<q, r>> \in PosOrder(RowSet(s)), <<r, t>> \in PosOrder(RowSet(s))
      PROVE  <<q, t>> \in PosOrder(RowSet(s))
  <2>1. q.pos \in Nat /\ r.pos \in Nat /\ t.pos \in Nat /\ q.pos < r.pos /\ r.pos < t.pos
    BY <1>1, <1>2, <1>3
  <2>2. q.pos < t.pos
    BY <2>1
  <2> QED
    BY <1>2, <2>2
<1>4. RowSet(s) \subseteq AnyRow
  BY Names DEF AnyRow
<1> QED
  BY <1>1, <1>2, <1>3, <1>4 DEF Transitive

(* Numbered sections have a size, the number of their last row. *)
LEMMA Sizes ==
  ASSUME BaseInv
  PROVE  /\ Size("transactions") = txs /\ Size("events") = Len(events) /\ Size("jobs") = Len(jobs)
         /\ \A s \in NumberedSections : Size(s) \in Nat /\ s \in SectionNames
<1>1. Size("transactions") = txs /\ Size("events") = Len(events) /\ Size("jobs") = Len(jobs)
  BY DEF Size
<1>2. txs \in Nat /\ Len(events) \in Nat /\ Len(jobs) \in Nat
  BY ProjectionReadsAssumption, LenProperties DEF BaseInv
<1> QED
  BY <1>1, <1>2, Names DEF NumberedSections

(* and writers only add to it. *)
LEMMA SizesGrow ==
  ASSUME BaseInv, Grown
  PROVE  \A s \in NumberedSections : Size(s) <= Size(s)' /\ Size(s)' \in Nat
<1>1. /\ txs <= txs' /\ Len(events) <= Len(events') /\ Len(jobs) <= Len(jobs')
      /\ txs' \in Nat /\ Len(events') \in Nat /\ Len(jobs') \in Nat
  BY ProjectionReadsAssumption, LenProperties DEF Grown
<1> QED
  BY <1>1 DEF Size, NumberedSections

(* What was exported stays true of the tables while commits go on. *)
LEMMA CommitKeepsExport ==
  ASSUME BaseInv, ExportInv, Grown, export # NULL,
         export' \in ExportType, export'.at = export.at, export'.count = export.count,
         export'.got = export.got, export'.untouched \subseteq export.untouched \cap rows'
  PROVE  ExportInv'
<1>1. ExportShape /\ NumbersSeen /\ CountsSeen /\ UntouchedSeen /\ StreamsSeen /\ ReceiptsSeen
  BY DEF ExportInv
<1>2. ASSUME NEW s, NEW pos PROVE Passed(s, pos)' <=> Passed(s, pos)
  BY DEF Passed
<1>3. ExportShape'
  BY <1>1 DEF ExportShape, Place
<1>4. NumbersSeen'
  <2>1. \A s \in NumberedSections : Len(export.got[s]) \in Nat /\ Size(s) \in Nat
    BY <1>1, Sizes, LenProperties DEF ExportShape
  <2>2. \A s \in NumberedSections : Len(export'.got[s]) <= Size(s)'
    BY <1>1, <2>1, SizesGrow DEF NumbersSeen
  <2> QED
    BY <1>1, <2>2 DEF NumbersSeen
<1>5. CountsSeen'
  <2>1. \A c \in {"transactions", "events"} : export.count[c] \in Nat /\ c \in NumberedSections
    BY <1>1, Names DEF ExportShape, ExportType, NumberedSections
  <2>2. \A c \in {"transactions", "events"} :
          /\ export'.count[c] <= Size(c)'
          /\ export'.at > Place(c) => export'.count[c] <= Len(export'.got[c])
    BY <1>1, <2>1, Sizes, SizesGrow DEF CountsSeen
  <2>3. PICK T \in SUBSET Range(events) :
          /\ export.count["streams"] <= Cardinality(T)
          /\ \A t \in T : Passed("streams", t) =>
               \E r \in Range(export.got["streams"]) : r.pos = t
    BY <1>1 DEF CountsSeen
  <2>4. T \in SUBSET Range(events')
    BY DEF Grown
  <2>5. \A t \in T : Passed("streams", t)' => \E r \in Range(export'.got["streams"]) : r.pos = t
    BY <1>2, <2>3
  <2> QED
    BY <2>2, <2>3, <2>4, <2>5 DEF CountsSeen, Place
<1>6. UntouchedSeen'
  BY <1>1, <1>2 DEF UntouchedSeen
<1>7. StreamsSeen'
  <2> SUFFICES ASSUME NEW e \in Range(export.got["events"])
               PROVE  /\ e.stream \in Range(events') /\ e.version <= VersionOf(e.stream)'
                      /\ Passed("streams", e.stream)' =>
                           \E s \in Range(export.got["streams"]) :
                              s.pos = e.stream /\ s.version >= e.version
    BY DEF StreamsSeen
  <2>1. /\ e.stream \in Range(events) /\ e.version <= VersionOf(e.stream)
        /\ Passed("streams", e.stream) =>
             \E s \in Range(export.got["streams"]) : s.pos = e.stream /\ s.version >= e.version
    BY <1>1 DEF StreamsSeen
  <2>2. e.version \in Nat
    <3>1. export.got["events"] \in Seq(RowSet("events"))
      BY <1>1, Names DEF ExportShape
    <3>2. e \in RowSet("events")
      BY <3>1, RangeOfSeq
    <3> QED
      BY <3>2, Columns
  <2>3. VersionOf(e.stream) \in Nat /\ VersionOf(e.stream)' \in Nat
    BY VersionBounds DEF BaseInv, Grown, VersionOf
  <2>4. VersionOf(e.stream) <= VersionOf(e.stream)'
    BY <2>1 DEF Grown
  <2>5. e.version <= VersionOf(e.stream)'
    BY <2>1, <2>2, <2>3, <2>4
  <2> QED
    BY <1>2, <2>1, <2>5 DEF Grown
<1>8. ReceiptsSeen'
  <2> SUFFICES ASSUME NEW j \in Range(export.got["jobs"])
               PROVE  j.pos \in DOMAIN jobs' /\ j.attempt <= jobs'[j.pos].attempt
    BY <1>1 DEF ReceiptsSeen, Place
  <2>1. j.pos \in DOMAIN jobs /\ j.attempt <= jobs[j.pos].attempt
    BY <1>1 DEF ReceiptsSeen
  <2>2. j.attempt \in Nat
    <3>1. export.got["jobs"] \in Seq(RowSet("jobs"))
      BY <1>1, Names DEF ExportShape
    <3>2. j \in RowSet("jobs")
      BY <3>1, RangeOfSeq
    <3> QED
      BY <3>2, Columns
  <2>3. /\ j.pos \in DOMAIN jobs' /\ jobs[j.pos].attempt <= jobs'[j.pos].attempt
    BY <2>1 DEF Grown
  <2>4. jobs[j.pos].attempt \in Nat /\ jobs'[j.pos].attempt \in Nat
    <3>1. jobs \in Seq(JobRow) /\ jobs' \in Seq(JobRow)
      BY DEF BaseInv, Grown
    <3> QED
      BY <2>1, <2>3, <3>1, JobElement
  <2> QED
    BY <2>1, <2>2, <2>3, <2>4
<1> QED
  BY <1>3, <1>4, <1>5, <1>6, <1>7, <1>8 DEF ExportInv

(* The versions of events do not pass those of their streams. *)
LEMMA VersionAtBounds ==
  ASSUME BaseInv, NEW i \in DOMAIN events
  PROVE  /\ VersionAt(i) \in Nat /\ VersionOf(events[i]) \in Nat
         /\ VersionAt(i) <= VersionOf(events[i])
<1> DEFINE A == {k \in 1..i : events[k] = events[i]}
           B == {k \in DOMAIN events : events[k] = events[i]}
<1>1. DOMAIN events = 1..Len(events) /\ Len(events) \in Nat
  BY LenProperties DEF BaseInv
<1>2. IsFiniteSet(B) /\ Cardinality(B) \in Nat
  BY VersionBounds DEF BaseInv
<1>3. A \in SUBSET B
  BY <1>1
<1>4. VersionAt(i) = Cardinality(A) /\ VersionOf(events[i]) = Cardinality(B)
  BY DEF VersionAt, VersionOf
<1> HIDE DEF A, B
<1>5. IsFiniteSet(A) /\ Cardinality(A) <= Cardinality(B)
  BY <1>2, <1>3, FS_Subset
<1> QED
  BY <1>2, <1>4, <1>5, FS_CardinalityType

(* The tables as an export reads them. *)
LEMMA Tables ==
  ASSUME BaseInv
  PROVE  /\ RowsOf("transactions") = {[pos |-> i] : i \in 1..txs}
         /\ RowsOf("events") =
              {[pos |-> i, stream |-> events[i], version |-> VersionAt(i)] : i \in 1..Len(events)}
         /\ RowsOf("streams") = {[pos |-> s, version |-> VersionOf(s)] : s \in Range(events)}
         /\ RowsOf("projections") = {[pos |-> r.rowid, row |-> r] : r \in rows}
         /\ RowsOf("jobs") = {[pos |-> i, attempt |-> jobs[i].attempt] : i \in 1..Len(jobs)}
         /\ RowsOf("claim_receipts") =
              {[pos |-> i, job |-> receipts[i].job, attempt |-> receipts[i].attempt] :
                 i \in 1..Len(receipts)}
         /\ txs \in Nat /\ Len(events) \in Nat /\ Len(jobs) \in Nat /\ Len(receipts) \in Nat
<1>1. /\ DOMAIN events = 1..Len(events) /\ DOMAIN jobs = 1..Len(jobs)
      /\ DOMAIN receipts = 1..Len(receipts)
      /\ txs \in Nat /\ Len(events) \in Nat /\ Len(jobs) \in Nat /\ Len(receipts) \in Nat
  BY ProjectionReadsAssumption, LenProperties DEF BaseInv
<1>2. RowsOf("transactions") = {[pos |-> i] : i \in 1..txs}
  BY DEF RowsOf
<1>3. RowsOf("events") =
        {[pos |-> i, stream |-> events[i], version |-> VersionAt(i)] : i \in 1..Len(events)}
  BY <1>1 DEF RowsOf
<1>4. RowsOf("streams") = {[pos |-> s, version |-> VersionOf(s)] : s \in Range(events)}
  BY DEF RowsOf
<1>5. RowsOf("projections") = {[pos |-> r.rowid, row |-> r] : r \in rows}
  BY DEF RowsOf
<1>6. RowsOf("jobs") = {[pos |-> i, attempt |-> jobs[i].attempt] : i \in 1..Len(jobs)}
  BY <1>1 DEF RowsOf
<1>7. RowsOf("claim_receipts") =
        {[pos |-> i, job |-> receipts[i].job, attempt |-> receipts[i].attempt] :
           i \in 1..Len(receipts)}
  BY <1>1 DEF RowsOf
<1> QED
  BY <1>1, <1>2, <1>3, <1>4, <1>5, <1>6, <1>7

(* What can be found in the tables. *)
LEMMA Found ==
  ASSUME BaseInv
  PROVE  /\ \A s \in NumberedSections :
              /\ \A r \in RowsOf(s) : r.pos \in 1..Size(s)
              /\ \A k \in 1..Size(s) : \E r \in RowsOf(s) : r.pos = k
         /\ \A e \in RowsOf("events") : e.stream \in Range(events) /\ e.version <= VersionOf(e.stream)
         /\ \A t \in Range(events) : \E r \in RowsOf("streams") : r.pos = t /\ r.version = VersionOf(t)
         /\ \A row \in rows : \E r \in RowsOf("projections") : r.pos = row.rowid /\ r.row = row
         /\ \A r \in RowsOf("jobs") : r.pos \in DOMAIN jobs /\ r.attempt = jobs[r.pos].attempt
         /\ \A i \in DOMAIN receipts : \E r \in RowsOf("claim_receipts") :
              r.pos \in Nat \ {0} /\ r.job = receipts[i].job /\ r.attempt = receipts[i].attempt
<1>1. /\ Size("transactions") = txs /\ Size("events") = Len(events) /\ Size("jobs") = Len(jobs)
      /\ DOMAIN events = 1..Len(events) /\ DOMAIN jobs = 1..Len(jobs)
      /\ DOMAIN receipts = 1..Len(receipts)
      /\ txs \in Nat /\ Len(events) \in Nat /\ Len(jobs) \in Nat /\ Len(receipts) \in Nat
  BY Sizes, Tables, LenProperties DEF BaseInv
<1>2. /\ \A r \in RowsOf("transactions") : r.pos \in 1..Size("transactions")
      /\ \A k \in 1..Size("transactions") : \E r \in RowsOf("transactions") : r.pos = k
  <2>1. RowsOf("transactions") = {[pos |-> i] : i \in 1..txs}
    BY Tables
  <2>2. \A i \in 1..txs : [pos |-> i] \in RowsOf("transactions") /\ [pos |-> i].pos = i
    BY <2>1
  <2>3. \A r \in RowsOf("transactions") : r.pos \in 1..txs
    BY <2>1
  <2> QED
    BY <1>1, <2>2, <2>3
<1>3. /\ \A r \in RowsOf("events") :
           r.pos \in 1..Size("events") /\ r.stream \in Range(events) /\ r.version <= VersionOf(r.stream)
      /\ \A k \in 1..Size("events") : \E r \in RowsOf("events") : r.pos = k
  <2>1. RowsOf("events") =
          {[pos |-> i, stream |-> events[i], version |-> VersionAt(i)] : i \in 1..Len(events)}
    BY Tables
  <2>2. \A i \in 1..Len(events) : events[i] \in Range(events) /\ VersionAt(i) <= VersionOf(events[i])
    BY <1>1, VersionAtBounds DEF Range
  <2>3. \A r \in RowsOf("events") : \E i \in 1..Len(events) :
          r.pos = i /\ r.stream = events[i] /\ r.version = VersionAt(i)
    BY <2>1
  <2>4. \A i \in 1..Len(events) :
          LET r == [pos |-> i, stream |-> events[i], version |-> VersionAt(i)]
          IN  r \in RowsOf("events") /\ r.pos = i
    BY <2>1
  <2>5. \A k \in 1..Len(events) : \E r \in RowsOf("events") : r.pos = k
    BY <2>4
  <2> QED
    BY <1>1, <2>2, <2>3, <2>5
<1>4. \A t \in Range(events) : \E r \in RowsOf("streams") : r.pos = t /\ r.version = VersionOf(t)
  <2>1. RowsOf("streams") = {[pos |-> s, version |-> VersionOf(s)] : s \in Range(events)}
    BY Tables
  <2>2. \A t \in Range(events) :
          LET r == [pos |-> t, version |-> VersionOf(t)]
          IN  r \in RowsOf("streams") /\ r.pos = t /\ r.version = VersionOf(t)
    BY <2>1
  <2> QED
    BY <2>2
<1>5. \A row \in rows : \E r \in RowsOf("projections") : r.pos = row.rowid /\ r.row = row
  <2>1. RowsOf("projections") = {[pos |-> r.rowid, row |-> r] : r \in rows}
    BY Tables
  <2>2. \A x \in rows :
          LET r == [pos |-> x.rowid, row |-> x]
          IN  r \in RowsOf("projections") /\ r.pos = x.rowid /\ r.row = x
    BY <2>1
  <2> QED
    BY <2>2
<1>6. /\ \A r \in RowsOf("jobs") :
           r.pos \in 1..Size("jobs") /\ r.pos \in DOMAIN jobs /\ r.attempt = jobs[r.pos].attempt
      /\ \A k \in 1..Size("jobs") : \E r \in RowsOf("jobs") : r.pos = k
  <2>1. RowsOf("jobs") = {[pos |-> i, attempt |-> jobs[i].attempt] : i \in 1..Len(jobs)}
    BY Tables
  <2>2. \A r \in RowsOf("jobs") : \E i \in 1..Len(jobs) : r.pos = i /\ r.attempt = jobs[i].attempt
    BY <2>1
  <2>3. \A i \in 1..Len(jobs) :
          LET r == [pos |-> i, attempt |-> jobs[i].attempt]
          IN  r \in RowsOf("jobs") /\ r.pos = i
    BY <2>1
  <2>4. \A k \in 1..Len(jobs) : \E r \in RowsOf("jobs") : r.pos = k
    BY <2>3
  <2> QED
    BY <1>1, <2>2, <2>4
<1>7. \A i \in DOMAIN receipts : \E r \in RowsOf("claim_receipts") :
        r.pos \in Nat \ {0} /\ r.job = receipts[i].job /\ r.attempt = receipts[i].attempt
  <2>1. RowsOf("claim_receipts") =
          {[pos |-> i, job |-> receipts[i].job, attempt |-> receipts[i].attempt] :
             i \in 1..Len(receipts)}
    BY Tables
  <2>2. \A i \in 1..Len(receipts) :
          LET r == [pos |-> i, job |-> receipts[i].job, attempt |-> receipts[i].attempt]
          IN  /\ r \in RowsOf("claim_receipts") /\ r.pos = i /\ i \in Nat \ {0}
              /\ r.job = receipts[i].job /\ r.attempt = receipts[i].attempt
    BY <1>1, <2>1
  <2> QED
    BY <1>1, <2>2
<1> QED
  BY <1>2, <1>3, <1>4, <1>5, <1>6, <1>7 DEF NumberedSections

(* The rows of a table are of the kind its section has, and their positions *)
(* are unique.                                                              *)
LEMMA TableRows ==
  ASSUME BaseInv, NEW s \in SectionNames
  PROVE  RowsOf(s) \subseteq RowSet(s) /\ \A q, r \in RowsOf(s) : q.pos = r.pos => q = r
<1>1. CASE s = "transactions"
  <2>0. RowsOf(s) = {[pos |-> i] : i \in 1..txs} /\ RowSet(s) = [pos : Nat \ {0}]
    BY <1>1, Tables, RowSets
  <2>1. RowsOf(s) \subseteq RowSet(s)
    BY <2>0
  <2> QED
    BY <1>1, <2>1, Tables
<1>2. CASE s = "events"
  <2>1. \A i \in 1..Len(events) : events[i] \in Streams /\ VersionAt(i) \in Nat /\ i \in Nat \ {0}
    BY VersionAtBounds, ElementOfSeq, LenProperties DEF BaseInv
  <2>0. /\ RowsOf(s) = {[pos |-> i, stream |-> events[i], version |-> VersionAt(i)] : i \in 1..Len(events)}
        /\ RowSet(s) = [pos : Nat \ {0}, stream : Streams, version : Nat]
    BY <1>2, Tables, RowSets
  <2>2. RowsOf(s) \subseteq RowSet(s)
    BY <2>0, <2>1
  <2> QED
    BY <1>2, <2>2, Tables
<1>3. CASE s = "streams"
  <2>0. /\ RowsOf(s) = {[pos |-> t, version |-> VersionOf(t)] : t \in Range(events)}
        /\ RowSet(s) = [pos : Nat \ {0}, version : Nat]
    BY <1>3, Tables, RowSets
  <2>1. \A t \in Range(events) : t \in Nat \ {0} /\ VersionOf(t) \in Nat
    <3>1. Range(events) \subseteq Streams
      BY RangeOfSeq DEF BaseInv
    <3>2. Streams \subseteq Nat \ {0}
      BY InspectionAssumption
    <3>3. \A t : VersionOf(t) \in Nat
      BY VersionBounds DEF BaseInv, VersionOf
    <3> QED
      BY <3>1, <3>2, <3>3
  <2>2. RowsOf(s) \subseteq RowSet(s)
    BY <2>0, <2>1
  <2> QED
    BY <1>3, <2>2, Tables
<1>4. CASE s = "projections"
  <2>1. \A r \in rows : r \in RowType /\ r.rowid \in Nat \ {0}
    BY DEF BaseInv, GoodTable, RowType
  <2>2. RowsOf(s) \subseteq RowSet(s)
    BY <1>4, <2>1, Tables, RowSets
  <2>3. \A q, r \in rows : q.rowid = r.rowid => q = r
    BY DEF BaseInv, GoodTable, Keyed
  <2> QED
    BY <1>4, <2>2, <2>3, Tables
<1>5. CASE s = "jobs"
  <2>1. \A i \in 1..Len(jobs) : i \in Nat \ {0} /\ jobs[i].attempt \in Nat
    BY JobElement DEF BaseInv
  <2>2. RowsOf(s) \subseteq RowSet(s)
    BY <1>5, <2>1, Tables, RowSets
  <2> QED
    BY <1>5, <2>2, Tables
<1>6. CASE s = "claim_receipts"
  <2>1. \A i \in 1..Len(receipts) : receipts[i] \in ReceiptRow
    BY ElementOfSeq DEF BaseInv
  <2>2. \A i \in 1..Len(receipts) :
          i \in Nat \ {0} /\ receipts[i].job \in Nat /\ receipts[i].attempt \in Nat
    BY <2>1, Tables DEF ReceiptRow
  <2>3. RowsOf(s) \subseteq RowSet(s)
    BY <1>6, <2>2, Tables, RowSets
  <2> QED
    BY <1>6, <2>3, Tables
<1> QED
  BY <1>1, <1>2, <1>3, <1>4, <1>5, <1>6, Names

(* Tables are finite, and the counts of the header are their sizes. *)
LEMMA TableSizes ==
  ASSUME BaseInv
  PROVE  /\ \A s \in SectionNames : IsFiniteSet(RowsOf(s)) /\ Cardinality(RowsOf(s)) \in Nat
         /\ Cardinality(RowsOf("transactions")) <= txs
         /\ Cardinality(RowsOf("events")) <= Len(events)
         /\ IsFiniteSet(Range(events))
         /\ Cardinality(RowsOf("streams")) <= Cardinality(Range(events))
<1>1. /\ txs \in Nat /\ Len(events) \in Nat /\ Len(jobs) \in Nat /\ Len(receipts) \in Nat
      /\ IsFiniteSet(rows)
  BY Tables DEF BaseInv, GoodTable
<1>2. ASSUME NEW m \in Nat
      PROVE  IsFiniteSet(1..m) /\ Cardinality(1..m) = m
  BY FS_Interval
<1>3. IsFiniteSet(RowsOf("transactions")) /\ Cardinality(RowsOf("transactions")) <= txs
  <2> DEFINE f == [i \in 1..txs |-> [pos |-> i]]
             T == RowsOf("transactions")
  <2>1. DOMAIN f = 1..txs /\ T = {f[i] : i \in 1..txs}
    BY Tables
  <2> HIDE DEF f, T
  <2>2. IsFiniteSet(T) /\ Cardinality(T) <= Cardinality(1..txs)
    BY <1>1, <1>2, <2>1, ImageFinite
  <2> QED
    BY <1>1, <1>2, <2>1, <2>2 DEF T
<1>4. IsFiniteSet(RowsOf("events")) /\ Cardinality(RowsOf("events")) <= Len(events)
  <2> DEFINE f == [i \in 1..Len(events) |->
                     [pos |-> i, stream |-> events[i], version |-> VersionAt(i)]]
             T == RowsOf("events")
  <2>1. DOMAIN f = 1..Len(events) /\ T = {f[i] : i \in 1..Len(events)}
    BY Tables
  <2> HIDE DEF f, T
  <2>2. IsFiniteSet(T) /\ Cardinality(T) <= Cardinality(1..Len(events))
    BY <1>1, <1>2, <2>1, ImageFinite
  <2> QED
    BY <1>1, <1>2, <2>2 DEF T
<1>5. IsFiniteSet(Range(events))
  <2>1. DOMAIN events = 1..Len(events) /\ Range(events) = {events[i] : i \in 1..Len(events)}
    BY LenProperties DEF BaseInv, Range
  <2> QED
    BY <1>1, <1>2, <2>1, ImageFinite
<1>6. /\ IsFiniteSet(RowsOf("streams"))
      /\ Cardinality(RowsOf("streams")) <= Cardinality(Range(events))
  <2> DEFINE f == [s \in Range(events) |-> [pos |-> s, version |-> VersionOf(s)]]
             T == RowsOf("streams")
  <2>1. DOMAIN f = Range(events) /\ T = {f[s] : s \in Range(events)}
    BY Tables
  <2> HIDE DEF f, T
  <2>2. IsFiniteSet(T) /\ Cardinality(T) <= Cardinality(Range(events))
    BY <1>5, <2>1, ImageFinite
  <2> QED
    BY <2>2 DEF T
<1>7. IsFiniteSet(RowsOf("projections"))
  <2> DEFINE f == [r \in rows |-> [pos |-> r.rowid, row |-> r]]
             T == RowsOf("projections")
  <2>1. DOMAIN f = rows /\ T = {f[r] : r \in rows}
    BY Tables
  <2> HIDE DEF f, T
  <2> QED
    BY <1>1, <2>1, ImageFinite DEF T
<1>8. IsFiniteSet(RowsOf("jobs"))
  <2> DEFINE f == [i \in 1..Len(jobs) |-> [pos |-> i, attempt |-> jobs[i].attempt]]
             T == RowsOf("jobs")
  <2>1. DOMAIN f = 1..Len(jobs) /\ T = {f[i] : i \in 1..Len(jobs)}
    BY Tables
  <2> HIDE DEF f, T
  <2> QED
    BY <1>1, <1>2, <2>1, ImageFinite DEF T
<1>9. IsFiniteSet(RowsOf("claim_receipts"))
  <2> DEFINE f == [i \in 1..Len(receipts) |->
                     [pos |-> i, job |-> receipts[i].job, attempt |-> receipts[i].attempt]]
             T == RowsOf("claim_receipts")
  <2>1. DOMAIN f = 1..Len(receipts) /\ T = {f[i] : i \in 1..Len(receipts)}
    BY Tables
  <2> HIDE DEF f, T
  <2> QED
    BY <1>1, <1>2, <2>1, ImageFinite DEF T
<1> QED
  BY <1>3, <1>4, <1>5, <1>6, <1>7, <1>8, <1>9, Names, FS_CardinalityType

(* The page that ExportRows reads of section s, and the section with it *)
GotPos(s) == IF export.got[s] = <<>> THEN 0 ELSE Last(export.got[s]).pos
NewPage(s) == ExportPage(s, GotPos(s))
NewGot(s) == export.got[s] \o NewPage(s)

(* The page of a section goes on after its last position.  *)
LEMMA SectionPage ==
  ASSUME BaseInv, export # NULL, ExportShape, NEW s \in SectionNames
  PROVE  /\ NewGot(s) \in Seq(RowSet(s)) /\ Ascending(NewGot(s), PosOrder(RowSet(s)))
         /\ Range(NewGot(s)) = Range(export.got[s]) \cup Range(NewPage(s))
         /\ Range(NewPage(s)) \subseteq RowsOf(s) /\ Len(NewPage(s)) \in Nat
         /\ Len(NewPage(s)) <= PageSize(s) /\ PageSize(s) \in Nat /\ GotPos(s) \in Nat
         /\ NewPage(s) = <<>> => NewGot(s) = export.got[s]
         /\ NewPage(s) # <<>> => /\ NewGot(s) # <<>> /\ Last(NewGot(s)) = Last(NewPage(s))
                                 /\ Last(NewPage(s)) \in RowsOf(s)
         /\ \A r \in RowsOf(s) :
              (/\ r.pos > GotPos(s)
               /\ \/ Len(NewPage(s)) < PageSize(s)
                  \/ Cardinality(RowsOf(s)) <= PageSize(s)
                  \/ NewPage(s) # <<>> /\ r.pos <= Last(NewPage(s)).pos)
              => r \in Range(NewPage(s))
<1> DEFINE U == RowSet(s)
           R == PosOrder(U)
           got == export.got[s]
           S == After(RowsOf(s), GotPos(s))
           Q == PosOrder(S)
           n == PageSize(s)
           page == NewPage(s)
<1>1. got \in Seq(U) /\ Ascending(got, R)
  BY DEF ExportShape
<1>2. got # <<>> => Last(got) \in U /\ Last(got).pos \in Nat /\ GotPos(s) = Last(got).pos
  <2> SUFFICES ASSUME got # <<>>
               PROVE  Last(got) \in U /\ Last(got).pos \in Nat /\ GotPos(s) = Last(got).pos
    OBVIOUS
  <2>1. Len(got) \in 1..Len(got)
    BY <1>1
  <2>2. Last(got) \in U
    BY <1>1, <2>1, ElementOfSeq DEF Last
  <2>3. Last(got).pos \in Nat
    BY <2>2, Positions
  <2> QED
    BY <2>2, <2>3 DEF GotPos
<1>3. GotPos(s) \in Nat
  BY <1>2 DEF GotPos
<1>4. RowsOf(s) \subseteq U /\ \A q, r \in RowsOf(s) : q.pos = r.pos => q = r
  BY TableRows
<1>5. IsFiniteSet(RowsOf(s)) /\ Cardinality(RowsOf(s)) \in Nat
  BY TableSizes
<1>6. S \in SUBSET RowsOf(s) /\ S \subseteq U
  BY <1>4 DEF After
<1>7. IsFiniteSet(S) /\ Cardinality(S) <= Cardinality(RowsOf(s)) /\ Cardinality(S) \in Nat
  <2> HIDE DEF S
  <2> QED
    BY <1>5, <1>6, FS_Subset, FS_CardinalityType
<1>8. n \in Nat
  BY <1>5, InspectionAssumption DEF PageSize
<1>9. \A r \in S : r.pos \in Nat /\ r.pos > GotPos(s)
  BY <1>6, Positions DEF After
<1>10. IsPage(page, n, S, Q)
  <2>1. page = FirstOf(n, S, ExportOrder)
    BY DEF NewPage, ExportPage
  <2>2. \A q, r \in S : q.pos = r.pos => q = r
    BY <1>4, <1>6
  <2> HIDE DEF page, n, S
  <2> QED
    BY <1>7, <1>8, <1>9, <2>1, <2>2, PageByPosition
<1>11. GoesOn(U, R, got, S, Q, n, page)
  <2>1. Q \subseteq R
    BY <1>6 DEF PosOrder
  <2>2. ASSUME got # <<>>, NEW r \in S PROVE <<Last(got), r>> \in R
    <3>1. Last(got).pos < r.pos /\ r \in U /\ Last(got) \in U
      BY <1>2, <1>6, <1>9, <2>2
    <3> QED
      BY <3>1, Positions
  <2>3. Transitive(R, U)
    BY Positions
  <2> HIDE DEF Q, R, S, U, got, n, page
  <2> QED
    BY <1>1, <1>6, <1>8, <1>10, <2>1, <2>2, <2>3 DEF GoesOn
<1>12. /\ got \o page \in Seq(U) /\ Ascending(got \o page, R)
       /\ Range(got \o page) = Range(got) \cup Range(page)
       /\ page \in Seq(S) /\ Len(page) <= n /\ Range(page) \subseteq S
       /\ page = <<>> => got \o page = got
       /\ page # <<>> => got \o page # <<>> /\ Last(got \o page) = Last(page)
       /\ \A r \in S : Len(page) < n => r \in Range(page)
       /\ \A r \in S : (page # <<>> /\ <<Last(page), r>> \notin R) => r \in Range(page)
       /\ \A r \in S : ~ (n < Cardinality(S)) => r \in Range(page)
  <2> HIDE DEF Q, R, S, U, got, n, page
  <2> QED
    BY <1>11, PageTaken
<1> HIDE DEF S
<1>13. Len(page) \in Nat
  BY <1>12, LenProperties
<1>14. page # <<>> => Last(page) \in S
  <2> SUFFICES ASSUME page # <<>> PROVE Last(page) \in S
    OBVIOUS
  <2>1. Len(page) \in 1..Len(page)
    BY <1>12
  <2> QED
    BY <1>12, <2>1, ElementOfSeq DEF Last
<1>15. ASSUME NEW r \in RowsOf(s), r.pos > GotPos(s),
              \/ Len(page) < n
              \/ Cardinality(RowsOf(s)) <= n
              \/ page # <<>> /\ r.pos <= Last(page).pos
       PROVE  r \in Range(page)
  <2>1. r \in S
    BY <1>15 DEF S, After
  <2>2. CASE Len(page) < n
    BY <1>12, <2>1, <2>2
  <2>3. CASE Cardinality(RowsOf(s)) <= n
    <3>1. ~ (n < Cardinality(S))
      BY <1>5, <1>7, <1>8, <2>3
    <3> QED
      BY <1>12, <2>1, <3>1
  <2>4. CASE page # <<>> /\ r.pos <= Last(page).pos
    <3>1. Last(page) \in U /\ r \in U /\ Last(page).pos \in Nat /\ r.pos \in Nat
      BY <1>6, <1>9, <1>14, <2>1, <2>4
    <3>2. ~(Last(page).pos < r.pos)
      BY <2>4, <3>1
    <3>3. <<Last(page), r>> \notin R
      BY <3>1, <3>2, Positions
    <3> QED
      BY <1>12, <2>1, <2>4, <3>3
  <2> QED
    BY <1>15, <2>2, <2>3, <2>4
<1> HIDE DEF page, n
<1>16. Range(page) \subseteq RowsOf(s) /\ (page # <<>> => Last(page) \in RowsOf(s))
  BY <1>6, <1>12, <1>14
<1> QED
  BY <1>3, <1>8, <1>12, <1>13, <1>15, <1>16 DEF page, n, NewGot

(* Rows in the order of their positions, with a row at every position up to *)
(* the last, are numbered.                                                  *)
LEMMA NoGaps ==
  ASSUME NEW s \in SectionNames, NEW f \in Seq(RowSet(s)), Ascending(f, PosOrder(RowSet(s))),
         \A i \in 1..Len(f) : \A k \in 1..f[i].pos : \E j \in 1..Len(f) : f[j].pos = k
  PROVE  \A i \in 1..Len(f) : f[i].pos = i
<1> DEFINE T == {i \in 1..Len(f) : f[i].pos # i}
<1>1. Len(f) \in Nat /\ \A i \in 1..Len(f) : f[i] \in RowSet(s) /\ f[i].pos \in Nat \ {0} /\ i \in Nat
  <2>1. \A i \in 1..Len(f) : f[i] \in RowSet(s)
    BY ElementOfSeq
  <2> QED
    BY <2>1, Positions, LenProperties
<1>2. \A i, j \in 1..Len(f) : i < j => f[i].pos < f[j].pos
  BY <1>1, Positions DEF Ascending
<1>3. SUFFICES ASSUME T # {} PROVE FALSE
  OBVIOUS
<1>4. PICK i \in T : \A j \in T : i <= j
  <2>1. T \in SUBSET Nat
    BY <1>1
  <2> HIDE DEF T
  <2> QED
    BY <1>3, <2>1, LeastNat
<1>5. i \in 1..Len(f) /\ f[i].pos # i /\ i \in Nat /\ f[i].pos \in Nat \ {0}
  BY <1>1, <1>4
<1>6. \A j \in 1..Len(f) : j < i => f[j].pos = j
  <2> SUFFICES ASSUME NEW j \in 1..Len(f), j < i, f[j].pos # j PROVE FALSE
    OBVIOUS
  <2>1. j \in T /\ j \in Nat
    BY <1>1
  <2> QED
    BY <1>4, <1>5, <2>1
<1>7. f[i].pos >= i
  <2>1. CASE i = 1
    BY <1>5, <2>1
  <2>2. CASE i > 1
    <3>1. i - 1 \in 1..Len(f) /\ i - 1 < i
      BY <1>1, <1>5, <2>2
    <3>2. f[i - 1].pos = i - 1 /\ f[i - 1].pos < f[i].pos
      BY <1>2, <1>5, <1>6, <3>1
    <3> QED
      BY <1>5, <3>1, <3>2
  <2> QED
    BY <1>1, <1>5, <2>1, <2>2
<1>8. i \in 1..f[i].pos
  BY <1>1, <1>5, <1>7
<1>9. PICK j \in 1..Len(f) : f[j].pos = i
  BY <1>5, <1>8
<1>10. j \in Nat /\ j # i
  BY <1>1, <1>5, <1>9
<1>11. CASE j < i
  BY <1>6, <1>9, <1>11
<1>12. CASE j > i
  <2>1. f[i].pos < f[j].pos
    BY <1>2, <1>5, <1>12
  <2> QED
    BY <1>5, <1>7, <1>9, <2>1
<1> QED
  BY <1>5, <1>10, <1>11, <1>12

(* The step reads section s *)
ReadsSection(s) ==
  /\ export # NULL /\ export.at = Place(s) /\ export.at \in 4..9
  /\ export' \in ExportType
  /\ export'.at = export.at \/ export'.at = export.at + 1
  /\ export'.count = export.count /\ export'.untouched = export.untouched
  /\ export'.got[s] = NewGot(s)
  /\ \A t \in SectionNames \ {s} : export'.got[t] = export.got[t]
  /\ UNCHANGED <<rows, txs, events, jobs, receipts>>
  /\ \A r \in RowsOf(s) : Passed(s, r.pos)' => r \in Range(NewGot(s)) \/ Passed(s, r.pos)
  /\ export'.at = export.at + 1 => \A r \in RowsOf(s) : r.pos > GotPos(s) => r \in Range(NewPage(s))
  /\ s = "claim_receipts" => export'.at = export.at + 1

(* What one statement of the export does (scan_table's page loops in        *)
(* diagnostic_export).                                                      *)
LEMMA RowsStep ==
  ASSUME BaseInv, ExportInv, ExportRows
  PROVE  \E s \in SectionNames : ReadsSection(s)
<1>0. export.at \in 4..9
  BY Names DEF ExportRows
<1>a. PICK s \in SectionNames : s = SectionAt(export.at) /\ Place(s) = export.at
  BY <1>0, SectionPlaces
<1> DEFINE full == s # "claim_receipts" /\ Len(NewPage(s)) = ExportPageSize
<1>1. /\ export # NULL /\ export.at \in 4..9
      /\ export' = [export EXCEPT !.got[s] = NewGot(s), !.at = IF full THEN export.at ELSE export.at + 1]
      /\ UNCHANGED <<rows, txs, events, jobs, receipts>>
  BY <1>0, <1>a DEF ExportRows, NewPage, NewGot, GotPos, prVars
<1>2. s \in SectionNames /\ Place(s) = export.at
  BY <1>a
<1>3. ExportShape /\ export \in ExportType
  BY <1>1 DEF ExportInv, ExportShape
<1>4. /\ NewGot(s) \in Seq(RowSet(s))
      /\ Range(NewGot(s)) = Range(export.got[s]) \cup Range(NewPage(s))
      /\ Range(NewPage(s)) \subseteq RowsOf(s) /\ Len(NewPage(s)) \in Nat
      /\ Len(NewPage(s)) <= PageSize(s) /\ PageSize(s) \in Nat /\ GotPos(s) \in Nat
      /\ NewPage(s) = <<>> => NewGot(s) = export.got[s]
      /\ NewPage(s) # <<>> => /\ NewGot(s) # <<>> /\ Last(NewGot(s)) = Last(NewPage(s))
                              /\ Last(NewPage(s)) \in RowsOf(s)
      /\ \A r \in RowsOf(s) :
           (/\ r.pos > GotPos(s)
            /\ \/ Len(NewPage(s)) < PageSize(s)
               \/ Cardinality(RowsOf(s)) <= PageSize(s)
               \/ NewPage(s) # <<>> /\ r.pos <= Last(NewPage(s)).pos)
           => r \in Range(NewPage(s))
  BY <1>1, <1>2, <1>3, SectionPage
<1>5. NewGot(s) \in Seq(AnyRow)
  <2>1. RowSet(s) \subseteq AnyRow
    BY <1>2, Positions
  <2> QED
    BY <1>4, <2>1, SeqMonotonic
<1>6. /\ export'.at = (IF full THEN export.at ELSE export.at + 1)
      /\ export'.count = export.count /\ export'.untouched = export.untouched
      /\ export'.got = [export.got EXCEPT ![s] = NewGot(s)]
      /\ DOMAIN export.got = SectionNames
  BY <1>1, <1>3 DEF ExportType
<1>7. /\ export'.got[s] = NewGot(s)
      /\ \A t \in SectionNames \ {s} : export'.got[t] = export.got[t]
  BY <1>2, <1>6
<1>8. export' \in ExportType
  <2>1. export.at \in 1..(Statements + 1) /\ export.at + 1 \in 1..(Statements + 1)
    BY <1>1, <1>3, Names DEF ExportType
  <2>2. [export.got EXCEPT ![s] = NewGot(s)] \in [SectionNames -> Seq(AnyRow)]
    BY <1>2, <1>3, <1>5 DEF ExportType
  <2> HIDE DEF full
  <2> QED
    BY <1>1, <1>3, <2>1, <2>2 DEF ExportType
<1>10. ASSUME NEW r \in RowsOf(s), r.pos > GotPos(s), export'.at = export.at + 1
       PROVE  r \in Range(NewPage(s))
  <2>1. ~full
    BY <1>1, <1>6, <1>10
  <2>2. CASE s = "claim_receipts"
    <3>1. PageSize(s) = Cardinality(RowsOf(s)) /\ Cardinality(RowsOf(s)) \in Nat
      BY <1>2, <2>2, TableSizes DEF PageSize
    <3>2. Cardinality(RowsOf(s)) <= PageSize(s)
      BY <3>1
    <3> QED
      BY <1>4, <1>10, <3>2
  <2>3. CASE s # "claim_receipts"
    <3>1. PageSize(s) = ExportPageSize /\ Len(NewPage(s)) # ExportPageSize
      BY <2>1, <2>3 DEF PageSize
    <3>2. Len(NewPage(s)) < PageSize(s)
      BY <1>4, <3>1
    <3> QED
      BY <1>4, <1>10, <3>2
  <2> QED
    BY <2>2, <2>3
<1>11. ASSUME NEW r \in RowsOf(s), Passed(s, r.pos)', r \notin Range(NewPage(s))
       PROVE  Passed(s, r.pos)
  <2>1. r.pos \in Nat \ {0}
    BY <1>2, TableRows, Positions
  <2>2. CASE r.pos <= GotPos(s)
    <3>1. export.got[s] # <<>>
      BY <2>1, <2>2 DEF GotPos
    <3> QED
      BY <2>2, <3>1 DEF GotPos, Passed
  <2>3. CASE r.pos > GotPos(s)
    <3>1. export'.at > Place(s) \/ (NewGot(s) # <<>> /\ r.pos <= Last(NewGot(s)).pos)
      BY <1>7, <1>11 DEF Passed, Place
    <3>2. ~(export'.at > Place(s))
      <4>1. export'.at # export.at + 1
        BY <1>10, <1>11, <2>3
      <4> QED
        BY <1>1, <1>2, <1>6, <4>1
    <3>3. NewPage(s) = <<>>
      BY <1>4, <1>11, <2>3, <3>1, <3>2
    <3>4. export.got[s] # <<>> /\ r.pos <= Last(export.got[s]).pos
      BY <1>4, <3>1, <3>2, <3>3
    <3> QED
      BY <3>4 DEF Passed
  <2> QED
    BY <1>4, <2>1, <2>2, <2>3
<1>12. export'.at = export.at \/ export'.at = export.at + 1
  BY <1>6
<1>13. \A r \in RowsOf(s) : Passed(s, r.pos)' => r \in Range(NewGot(s)) \/ Passed(s, r.pos)
  BY <1>4, <1>11
<1>14. s = "claim_receipts" => export'.at = export.at + 1
  BY <1>6
<1> QED
  BY <1>1, <1>2, <1>6, <1>7, <1>8, <1>10, <1>12, <1>13, <1>14 DEF ReadsSection

(* Reading one section changes the cursor of no other. *)
LEMMA OtherSections ==
  ASSUME BaseInv, NEW s \in SectionNames, ReadsSection(s), ExportShape
  PROVE  /\ ExportShape'
         /\ \A t \in SectionNames \ {s} : \A pos : Passed(t, pos)' <=> Passed(t, pos)
         /\ \A t \in SectionNames \ {s} : export'.at > Place(t) <=> export.at > Place(t)
         /\ export'.at \in Int /\ export.at <= export'.at
<1>1. \A t \in SectionNames : Place(t) \in Int /\ (t # s => Place(t) # export.at)
  BY Places DEF ReadsSection
<1>2. export.at \in Int /\ (export'.at = export.at \/ export'.at = export.at + 1)
  BY DEF ReadsSection
<1>3. /\ \A t \in SectionNames \ {s} : export'.at > Place(t) <=> export.at > Place(t)
      /\ export'.at \in Int /\ export.at <= export'.at
  BY <1>1, <1>2
<1>4. \A t \in SectionNames \ {s} : \A pos : Passed(t, pos)' <=> Passed(t, pos)
  BY <1>3 DEF Passed, Place, ReadsSection
<1>5. NewGot(s) \in Seq(RowSet(s)) /\ Ascending(NewGot(s), PosOrder(RowSet(s)))
  BY SectionPage DEF ReadsSection
<1>6. ASSUME NEW t \in SectionNames
      PROVE  /\ export'.got[t] \in Seq(RowSet(t))
             /\ Ascending(export'.got[t], PosOrder(RowSet(t)))
             /\ export'.at < Place(t) => export'.got[t] = <<>>
  <2>1. CASE t = s
    <3>1. export'.got[t] = NewGot(s) /\ ~(export'.at < Place(t))
      BY <1>1, <1>2, <2>1 DEF ReadsSection
    <3> QED
      BY <1>5, <2>1, <3>1
  <2>2. CASE t # s
    <3>1. export'.got[t] = export.got[t] /\ (export'.at < Place(t) => export.at < Place(t))
      BY <1>1, <1>2, <2>2 DEF ReadsSection
    <3> QED
      BY <3>1 DEF ExportShape
  <2> QED
    BY <2>1, <2>2
<1>7. export' \in ExportType /\ export'.untouched \subseteq rows'
  BY DEF ReadsSection, ExportShape
<1>8. ExportShape'
  BY <1>6, <1>7 DEF ExportShape, Place
<1> QED
  BY <1>3, <1>4, <1>8

(* What a section gives of the numbered tables has no gap. *)
LEMMA NumbersKept ==
  ASSUME BaseInv, ExportShape, NumbersSeen, NEW s \in SectionNames, ReadsSection(s)
  PROVE  NumbersSeen'
<1>1. Size("transactions")' = Size("transactions") /\ Size("events")' = Size("events") /\ Size("jobs")' = Size("jobs")
  BY DEF ReadsSection, Size
<1>2. \A t \in NumberedSections : Size(t)' = Size(t) /\ t \in SectionNames /\ Size(t) \in Nat
  BY <1>1, Sizes DEF NumberedSections
<1>3. ASSUME s \in NumberedSections
      PROVE  /\ Len(NewGot(s)) <= Size(s)
             /\ \A i \in 1..Len(NewGot(s)) : NewGot(s)[i].pos = i
  <2> DEFINE got == export.got[s]
             new == NewGot(s)
  <2>1. /\ new \in Seq(RowSet(s)) /\ Ascending(new, PosOrder(RowSet(s)))
        /\ Range(new) = Range(got) \cup Range(NewPage(s))
        /\ Range(NewPage(s)) \subseteq RowsOf(s)
        /\ NewPage(s) = <<>> => new = got
        /\ NewPage(s) # <<>> => new # <<>> /\ Last(new) = Last(NewPage(s)) /\ Last(NewPage(s)) \in RowsOf(s)
        /\ \A r \in RowsOf(s) :
             (r.pos > GotPos(s) /\ NewPage(s) # <<>> /\ r.pos <= Last(NewPage(s)).pos)
               => r \in Range(NewPage(s))
    BY SectionPage DEF ReadsSection
  <2>2. /\ got \in Seq(RowSet(s)) /\ Len(got) \in Nat /\ Len(got) <= Size(s)
        /\ \A i \in 1..Len(got) : got[i].pos = i
    BY <1>3, LenProperties DEF NumbersSeen, ExportShape
  <2>3. /\ \A r \in RowsOf(s) : r.pos \in 1..Size(s)
        /\ \A k \in 1..Size(s) : \E r \in RowsOf(s) : r.pos = k
    BY <1>3, Found
  <2>4. GotPos(s) = Len(got)
    <3>1. CASE got = <<>>
      BY <3>1 DEF GotPos
    <3>2. CASE got # <<>>
      <4>1. Len(got) \in 1..Len(got)
        BY <2>2, <3>2
      <4> QED
        BY <2>2, <3>2, <4>1 DEF GotPos, Last
    <3> QED
      BY <3>1, <3>2
  <2>5. CASE NewPage(s) = <<>>
    BY <2>1, <2>2, <2>5
  <2>6. CASE NewPage(s) # <<>>
    <3> DEFINE last == Last(NewPage(s)).pos
    <3>1. last \in 1..Size(s) /\ last \in Nat /\ Size(s) \in Nat
      BY <1>2, <1>3, <2>1, <2>3, <2>6
    <3>2. Len(new) \in 1..Len(new) /\ new[Len(new)].pos = last /\ DOMAIN new = 1..Len(new)
      BY <2>1, <2>6, LenProperties DEF Last
    <3> HIDE DEF last
    <3>3. ASSUME NEW i \in 1..Len(new) PROVE new[i].pos <= last /\ new[i].pos \in Nat
      <4>1. new[i] \in RowSet(s) /\ new[Len(new)] \in RowSet(s)
        BY <2>1, <3>2, ElementOfSeq
      <4>2. new[i].pos \in Nat
        BY <4>1, Positions
      <4>3. i = Len(new) \/ new[i].pos < new[Len(new)].pos
        <5>0. \A m \in Nat : \A k \in 1..m : k = m \/ k < m
          OBVIOUS
        <5>1. i = Len(new) \/ i < Len(new)
          BY <2>1, <5>0, LenProperties
        <5>2. i < Len(new) => <<new[i], new[Len(new)]>> \in PosOrder(RowSet(s))
          BY <2>1, <3>2 DEF Ascending
        <5> QED
          BY <4>1, <5>1, <5>2, Positions
      <4> QED
        BY <3>1, <3>2, <4>2, <4>3
    <3>4. ASSUME NEW i \in 1..Len(new), NEW k \in 1..new[i].pos
          PROVE  \E j \in 1..Len(new) : new[j].pos = k
      <4>1. k \in Nat \ {0} /\ k <= last /\ k \in 1..Size(s)
        BY <3>1, <3>3
      <4>2. PICK r \in RowsOf(s) : r.pos = k
        BY <2>3, <4>1
      <4>3. r \in Range(new) \/ k <= Len(got)
        BY <2>1, <2>4, <2>6, <4>1, <4>2, <2>2 DEF last
      <4>4. CASE r \in Range(new)
        BY <3>2, <4>2, <4>4 DEF Range
      <4>5. CASE k <= Len(got)
        <5>1. k \in 1..Len(got) /\ got[k].pos = k /\ DOMAIN got = 1..Len(got)
          BY <2>2, <4>1, <4>5, LenProperties
        <5>2. got[k] \in Range(got)
          BY <5>1 DEF Range
        <5>3. got[k] \in Range(new)
          BY <2>1, <5>2
        <5> QED
          BY <3>2, <5>1, <5>3 DEF Range
      <4> QED
        BY <4>3, <4>4, <4>5
    <3> HIDE DEF new
    <3>5. \A i \in 1..Len(new) : new[i].pos = i
      BY <2>1, <3>4, NoGaps
    <3>6. Len(new) <= Size(s)
      BY <3>1, <3>2, <3>5
    <3> QED
      BY <3>5, <3>6 DEF new
  <2> QED
    BY <2>5, <2>6
<1>4. ASSUME NEW t \in NumberedSections
      PROVE  /\ Len(export'.got[t]) <= Size(t)'
             /\ \A i \in 1..Len(export'.got[t]) : export'.got[t][i].pos = i
  <2>1. CASE t = s
    <3>1. export'.got[t] = NewGot(s)
      BY <2>1 DEF ReadsSection
    <3> QED
      BY <1>2, <1>3, <2>1, <3>1
  <2>2. CASE t # s
    <3>1. export'.got[t] = export.got[t]
      BY <1>2, <2>2 DEF ReadsSection
    <3> QED
      BY <1>2, <3>1 DEF NumbersSeen
  <2> QED
    BY <2>1, <2>2
<1> QED
  BY <1>4 DEF NumbersSeen

(* A section that is over has everything that was counted. *)
LEMMA CountsKept ==
  ASSUME BaseInv, ExportShape, NumbersSeen, NumbersSeen', CountsSeen,
         NEW s \in SectionNames, ReadsSection(s)
  PROVE  CountsSeen'
<1>0. ExportShape'
  BY OtherSections
<1>1. ASSUME NEW c \in {"transactions", "events"}
      PROVE  /\ export'.count[c] <= Size(c)'
             /\ export'.at > Place(c) => export'.count[c] <= Len(export'.got[c])
  <2>1. /\ c \in NumberedSections /\ c \in SectionNames /\ Size(c) \in Nat
        /\ export.count[c] <= Size(c) /\ export'.count = export.count /\ export.count[c] \in Nat
    BY Sizes, Names DEF CountsSeen, ReadsSection, ExportShape, ExportType, NumberedSections
  <2>2. Size(c)' = Size(c)
    BY DEF Size, ReadsSection
  <2>3. ASSUME export'.at > Place(c) PROVE export'.count[c] <= Len(export'.got[c])
    <3>1. CASE export.at > Place(c)
      <4>1. c # s
        BY <2>1, <3>1, Places DEF ReadsSection
      <4>2. export'.got[c] = export.got[c]
        BY <2>1, <4>1 DEF ReadsSection
      <4> QED
        BY <2>1, <3>1, <4>2 DEF CountsSeen
    <3>2. CASE ~(export.at > Place(c))
      <4>1. c = s
        BY <2>1, <2>3, <3>2, OtherSections
      <4>2. export'.at = export.at + 1 /\ export'.got[c] = NewGot(c)
        BY <2>3, <3>2, <4>1 DEF ReadsSection
      <4>3. CASE Size(c) = 0
        <5>1. export'.got[c] \in Seq(RowSet(c))
          BY <1>0, <2>1 DEF ExportShape
        <5>2. Len(export'.got[c]) \in Nat
          BY <5>1, LenProperties
        <5> QED
          BY <2>1, <4>3, <5>2
      <4>4. CASE Size(c) > 0
        <5>1. PICK r \in RowsOf(c) : r.pos = Size(c)
          <6>1. Size(c) \in 1..Size(c)
            BY <2>1, <4>4
          <6> QED
            BY <2>1, <6>1, Found
        <5>2. Range(NewGot(c)) = Range(export.got[c]) \cup Range(NewPage(c))
          BY <4>1, SectionPage DEF ReadsSection
        <5>3. NewGot(c) \in Seq(RowSet(c)) /\ export.got[c] \in Seq(RowSet(c))
          BY <1>0, <2>1, <4>2 DEF ExportShape
        <5>4. \A i \in 1..Len(NewGot(c)) : NewGot(c)[i].pos = i
          BY <2>1, <4>2 DEF NumbersSeen
        <5>5. \E q \in Range(NewGot(c)) : q.pos = Size(c)
          <6>1. CASE r.pos > GotPos(c)
            BY <4>1, <4>2, <5>1, <5>2, <6>1 DEF ReadsSection
          <6>2. CASE r.pos <= GotPos(c)
            <7>1. export.got[c] # <<>> /\ GotPos(c) = Last(export.got[c]).pos
              BY <4>4, <2>1, <5>1, <6>2 DEF GotPos
            <7>2. Len(export.got[c]) \in 1..Len(export.got[c]) /\ Len(export.got[c]) \in Nat
              BY <5>3, <7>1, LenProperties
            <7>3. GotPos(c) = Len(export.got[c]) /\ Len(export.got[c]) <= Size(c)
              BY <2>1, <7>1, <7>2 DEF NumbersSeen, Last
            <7>4. GotPos(c) = Size(c)
              BY <2>1, <5>1, <6>2, <7>2, <7>3
            <7>5. Last(export.got[c]) \in Range(export.got[c])
              BY <5>3, <7>2, LenProperties DEF Last, Range
            <7> QED
              BY <5>2, <7>1, <7>4, <7>5
          <6>3. r.pos \in Nat /\ GotPos(c) \in Nat
            BY <2>1, <4>1, <5>1, SectionPage DEF ReadsSection
          <6> QED
            BY <6>1, <6>2, <6>3
        <5>6. PICK i \in 1..Len(NewGot(c)) : NewGot(c)[i].pos = Size(c)
          BY <5>3, <5>5, LenProperties DEF Range
        <5>7. Size(c) <= Len(NewGot(c)) /\ Len(NewGot(c)) \in Nat
          BY <5>3, <5>4, <5>6, LenProperties
        <5> QED
          BY <2>1, <4>2, <5>7
      <4> QED
        BY <2>1, <4>3, <4>4
    <3> QED
      BY <3>1, <3>2
  <2> QED
    BY <2>1, <2>2, <2>3
<1>2. PICK T \in SUBSET Range(events) :
        /\ export.count["streams"] <= Cardinality(T)
        /\ \A t \in T : Passed("streams", t) => \E r \in Range(export.got["streams"]) : r.pos = t
  BY DEF CountsSeen
<1>3. ASSUME NEW t \in T, Passed("streams", t)'
      PROVE  \E r \in Range(export'.got["streams"]) : r.pos = t
  <2>1. CASE s = "streams"
    <3>1. PICK r \in RowsOf("streams") : r.pos = t
      BY Found
    <3>2. export'.got["streams"] = NewGot("streams")
      BY <2>1 DEF ReadsSection
    <3>3. r \in Range(NewGot("streams")) \/ Passed("streams", t)
      BY <1>3, <2>1, <3>1 DEF ReadsSection
    <3>4. Range(export.got["streams"]) \subseteq Range(NewGot("streams"))
      BY <2>1, SectionPage DEF ReadsSection
    <3> QED
      BY <1>2, <3>1, <3>2, <3>3, <3>4
  <2>2. CASE s # "streams"
    <3>1. export'.got["streams"] = export.got["streams"]
      BY <2>2, Names DEF ReadsSection
    <3>2. Passed("streams", t)
      BY <1>3, <2>2, Names, OtherSections
    <3> QED
      BY <1>2, <3>1, <3>2
  <2> QED
    BY <2>1, <2>2
<1>4. export'.count = export.count /\ events' = events
  BY DEF ReadsSection
<1> QED
  BY <1>1, <1>2, <1>3, <1>4 DEF CountsSeen, Place

(* A row that is left alone stays where the export will find it. *)
LEMMA UntouchedKept ==
  ASSUME BaseInv, ExportShape, UntouchedSeen, NEW s \in SectionNames, ReadsSection(s)
  PROVE  UntouchedSeen'
<1>1. ASSUME NEW row \in export.untouched, Passed("projections", row.rowid)'
      PROVE  \E r \in Range(export'.got["projections"]) : r.row = row
  <2>1. CASE s = "projections"
    <3>1. row \in rows
      BY DEF ExportShape
    <3>2. PICK r \in RowsOf("projections") : r.pos = row.rowid /\ r.row = row
      BY <3>1, Found
    <3>3. export'.got["projections"] = NewGot("projections")
      BY <2>1 DEF ReadsSection
    <3>4. r \in Range(NewGot("projections")) \/ Passed("projections", row.rowid)
      BY <1>1, <2>1, <3>2 DEF ReadsSection
    <3>5. Range(export.got["projections"]) \subseteq Range(NewGot("projections"))
      BY <2>1, SectionPage DEF ReadsSection
    <3>6. Passed("projections", row.rowid) => \E q \in Range(export.got["projections"]) : q.row = row
      BY DEF UntouchedSeen
    <3> QED
      BY <3>2, <3>3, <3>4, <3>5, <3>6
  <2>2. CASE s # "projections"
    <3>1. export'.got["projections"] = export.got["projections"]
      BY <2>2, Names DEF ReadsSection
    <3>2. Passed("projections", row.rowid)
      BY <1>1, <2>2, Names, OtherSections
    <3> QED
      BY <3>1, <3>2 DEF UntouchedSeen
  <2> QED
    BY <2>1, <2>2
<1>2. export'.untouched = export.untouched
  BY DEF ReadsSection
<1> QED
  BY <1>1, <1>2 DEF UntouchedSeen

(* Events are read before their streams, so a stream is not behind them. *)
LEMMA StreamsKept ==
  ASSUME BaseInv, ExportShape, StreamsSeen, NEW s \in SectionNames, ReadsSection(s)
  PROVE  StreamsSeen'
<1>0. events' = events /\ \A x : VersionOf(x)' = VersionOf(x)
  BY DEF ReadsSection, VersionOf
<1>1. ASSUME NEW e \in Range(export'.got["events"])
      PROVE  e.stream \in Range(events) /\ e.version <= VersionOf(e.stream)
  <2>1. CASE s = "events"
    <3>1. export'.got["events"] = NewGot("events")
      BY <2>1 DEF ReadsSection
    <3>2. /\ Range(NewGot("events")) = Range(export.got["events"]) \cup Range(NewPage("events"))
          /\ Range(NewPage("events")) \subseteq RowsOf("events")
      BY <2>1, SectionPage DEF ReadsSection
    <3>3. CASE e \in Range(export.got["events"])
      BY <3>3 DEF StreamsSeen
    <3>4. CASE e \in RowsOf("events")
      BY <3>4, Found
    <3> QED
      BY <1>1, <3>1, <3>2, <3>3, <3>4
  <2>2. CASE s # "events"
    <3>1. export'.got["events"] = export.got["events"]
      BY <2>2, Names DEF ReadsSection
    <3> QED
      BY <1>1, <3>1 DEF StreamsSeen
  <2> QED
    BY <2>1, <2>2
<1>2. ASSUME NEW e \in Range(export'.got["events"]), Passed("streams", e.stream)'
      PROVE  \E r \in Range(export'.got["streams"]) : r.pos = e.stream /\ r.version >= e.version
  <2>1. CASE s = "streams"
    <3>1. export'.got["events"] = export.got["events"] /\ export'.got["streams"] = NewGot("streams")
      BY <2>1, Names DEF ReadsSection
    <3>2. PICK r \in RowsOf("streams") : r.pos = e.stream /\ r.version = VersionOf(e.stream)
      BY <1>1, Found
    <3>3. r.version >= e.version
      <4>1. e.version \in Nat
        <5>1. export.got["events"] \in Seq(RowSet("events"))
          BY Names DEF ExportShape
        <5>2. e \in RowSet("events")
          BY <1>2, <3>1, <5>1, RangeOfSeq
        <5> QED
          BY <5>2, Columns
      <4>2. VersionOf(e.stream) \in Nat
        BY VersionBounds DEF BaseInv, VersionOf
      <4> QED
        BY <1>1, <3>2, <4>1, <4>2
    <3>4. r \in Range(NewGot("streams")) \/ Passed("streams", e.stream)
      BY <1>2, <2>1, <3>2 DEF ReadsSection
    <3>5. Range(export.got["streams"]) \subseteq Range(NewGot("streams"))
      BY <2>1, SectionPage DEF ReadsSection
    <3>6. Passed("streams", e.stream) =>
            \E q \in Range(export.got["streams"]) : q.pos = e.stream /\ q.version >= e.version
      BY <1>2, <3>1 DEF StreamsSeen
    <3> QED
      BY <3>1, <3>2, <3>3, <3>4, <3>5, <3>6
  <2>2. CASE s = "events"
    <3>1. export.at = 5 /\ (export'.at = 5 \/ export'.at = 6)
      BY <2>2, Places DEF ReadsSection
    <3>2. export'.got["streams"] = export.got["streams"] /\ export.got["streams"] = <<>>
      BY <2>2, <3>1, Names, Places DEF ReadsSection, ExportShape
    <3>3. ~ Passed("streams", e.stream)'
      BY <3>1, <3>2 DEF Passed, Place
    <3> QED
      BY <1>2, <3>3
  <2>3. CASE s # "streams" /\ s # "events"
    <3>1. export'.got["events"] = export.got["events"] /\ export'.got["streams"] = export.got["streams"]
      BY <2>3, Names DEF ReadsSection
    <3>2. Passed("streams", e.stream)
      BY <1>2, <2>3, Names, OtherSections
    <3> QED
      BY <1>2, <3>1, <3>2 DEF StreamsSeen
  <2> QED
    BY <2>1, <2>2, <2>3
<1> QED
  BY <1>0, <1>1, <1>2 DEF StreamsSeen

(* Jobs are read before the receipts, so no attempt is without its receipt. *)
LEMMA ReceiptsKept ==
  ASSUME BaseInv, ExportShape, ReceiptsSeen, NEW s \in SectionNames, ReadsSection(s)
  PROVE  ReceiptsSeen'
<1>0. jobs' = jobs /\ receipts' = receipts
  BY DEF ReadsSection
<1>1. export'.at <= Place("claim_receipts") => export'.got["claim_receipts"] = <<>>
  <2> SUFFICES ASSUME export'.at <= 9 PROVE export'.got["claim_receipts"] = <<>>
    BY Places
  <2>1. export.at <= 9 /\ export.at \in Int
    BY OtherSections DEF ReadsSection
  <2>2. export.got["claim_receipts"] = <<>>
    BY <2>1, Places DEF ReceiptsSeen
  <2>3. CASE s = "claim_receipts"
    <3>1. export'.at = 10
      BY <2>3, Places DEF ReadsSection
    <3> QED
      BY <3>1
  <2>4. CASE s # "claim_receipts"
    BY <2>2, <2>4, Names DEF ReadsSection
  <2> QED
    BY <2>3, <2>4
<1>2. ASSUME NEW j \in Range(export'.got["jobs"])
      PROVE  j.pos \in DOMAIN jobs /\ j.attempt <= jobs[j.pos].attempt /\ j.attempt \in Nat
  <2>0. j.attempt \in Nat
    <3>1. export'.got["jobs"] \in Seq(RowSet("jobs"))
      BY OtherSections, Names DEF ExportShape
    <3>2. j \in RowSet("jobs")
      BY <1>2, <3>1, RangeOfSeq
    <3> QED
      BY <3>2, Columns
  <2>1. CASE s = "jobs"
    <3>1. export'.got["jobs"] = NewGot("jobs")
      BY <2>1 DEF ReadsSection
    <3>2. /\ Range(NewGot("jobs")) = Range(export.got["jobs"]) \cup Range(NewPage("jobs"))
          /\ Range(NewPage("jobs")) \subseteq RowsOf("jobs")
      BY <2>1, SectionPage DEF ReadsSection
    <3>3. CASE j \in Range(export.got["jobs"])
      BY <2>0, <3>3 DEF ReceiptsSeen
    <3>4. CASE j \in RowsOf("jobs")
      <4>1. j.pos \in DOMAIN jobs /\ j.attempt = jobs[j.pos].attempt
        BY <3>4, Found
      <4> QED
        BY <2>0, <4>1
    <3> QED
      BY <1>2, <3>1, <3>2, <3>3, <3>4
  <2>2. CASE s # "jobs"
    <3>1. export'.got["jobs"] = export.got["jobs"]
      BY <2>2, Names DEF ReadsSection
    <3> QED
      BY <1>2, <2>0, <3>1 DEF ReceiptsSeen
  <2> QED
    BY <2>1, <2>2
<1>3. ASSUME export'.at > Place("claim_receipts"),
             NEW j \in Range(export'.got["jobs"]), NEW n \in 1..j.attempt
      PROVE  \E r \in Range(export'.got["claim_receipts"]) : r.job = j.pos /\ r.attempt = n
  <2>1. CASE s = "claim_receipts"
    <3>1. /\ export.at = 9 /\ export'.at = 10
          /\ export'.got["claim_receipts"] = NewGot("claim_receipts")
      BY <2>1, Places DEF ReadsSection
    <3>2. n \in 1..jobs[j.pos].attempt /\ j.pos \in DOMAIN jobs
      <4>1. j.pos \in DOMAIN jobs /\ j.attempt <= jobs[j.pos].attempt /\ j.attempt \in Nat
        BY <1>2
      <4>2. jobs[j.pos].attempt \in Nat
        BY <4>1, JobElement DEF BaseInv
      <4> QED
        BY <4>1, <4>2
    <3>3. PICK i \in DOMAIN receipts : receipts[i].job = j.pos /\ receipts[i].attempt = n
      BY <3>2 DEF BaseInv, Receipted
    <3>4. PICK r \in RowsOf("claim_receipts") :
            r.pos \in Nat \ {0} /\ r.job = j.pos /\ r.attempt = n
      BY <3>3, Found
    <3>5. GotPos("claim_receipts") = 0
      BY <3>1, Places DEF ReceiptsSeen, GotPos
    <3>6. r \in Range(NewPage("claim_receipts"))
      BY <2>1, <3>1, <3>4, <3>5 DEF ReadsSection
    <3>7. Range(NewPage("claim_receipts")) \subseteq Range(NewGot("claim_receipts"))
      BY <2>1, SectionPage DEF ReadsSection
    <3> QED
      BY <3>1, <3>4, <3>6, <3>7
  <2>2. CASE s # "claim_receipts"
    <3>1. export.at > Place("claim_receipts")
      BY <1>3, <2>2, Names, OtherSections
    <3>2. s # "jobs"
      BY <3>1, Places DEF ReadsSection
    <3>3. /\ export'.got["jobs"] = export.got["jobs"]
          /\ export'.got["claim_receipts"] = export.got["claim_receipts"]
      BY <2>2, <3>2, Names DEF ReadsSection
    <3> QED
      BY <1>3, <3>1, <3>3 DEF ReceiptsSeen
  <2> QED
    BY <2>1, <2>2
<1> QED
  BY <1>0, <1>1, <1>2, <1>3 DEF ReceiptsSeen, Place

(* A page of a section keeps what the export has seen. *)
LEMMA ExportRowsKeeps ==
  ASSUME BaseInv, ExportInv, ExportRows
  PROVE  ExportInv'
<1>1. PICK s \in SectionNames : ReadsSection(s)
  BY RowsStep
<1>2. export # NULL
  BY <1>1 DEF ReadsSection
<1>3. ExportShape /\ NumbersSeen /\ CountsSeen /\ UntouchedSeen /\ StreamsSeen /\ ReceiptsSeen
  BY <1>2 DEF ExportInv
<1>4. ExportShape'
  BY <1>1, <1>3, OtherSections
<1>5. NumbersSeen'
  BY <1>1, <1>3, NumbersKept
<1>6. CountsSeen'
  BY <1>1, <1>3, <1>5, CountsKept
<1>7. UntouchedSeen' /\ StreamsSeen' /\ ReceiptsSeen'
  BY <1>1, <1>3, UntouchedKept, StreamsKept, ReceiptsKept
<1> QED
  BY <1>4, <1>5, <1>6, <1>7 DEF ExportInv

(* An export that has read nothing has missed nothing. *)
LEMMA NothingRead ==
  ASSUME BaseInv, export' # NULL, export' \in ExportType,
         export'.untouched \subseteq rows', export'.at \in 1..4,
         \A s \in SectionNames : export'.got[s] = <<>>,
         UNCHANGED <<rows, txs, events, jobs, receipts>>,
         export'.count["transactions"] <= txs, export'.count["events"] <= Len(events),
         export'.count["streams"] <= Cardinality(Range(events))
  PROVE  ExportInv'
<1>1. \A s \in SectionNames : export'.got[s] = <<>> /\ Range(export'.got[s]) = {} /\ Len(export'.got[s]) = 0
  BY DEF Range
<1>2. ASSUME NEW s \in SectionNames, NEW pos PROVE ~ Passed(s, pos)'
  <2>1. Place(s) \in 4..9 /\ Place(s)' = Place(s)
    BY Places DEF Place
  <2>2. ~ (export'.at > Place(s))
    BY <2>1
  <2> QED
    BY <1>1, <2>1, <2>2 DEF Passed
<1>3. ExportShape'
  <2>1. \A s \in SectionNames : <<>> \in Seq(RowSet(s)) /\ Ascending(<<>>, PosOrder(RowSet(s)))
    BY DEF Ascending
  <2> QED
    BY <1>1, <2>1 DEF ExportShape
<1>4. NumbersSeen'
  <2>1. \A s \in NumberedSections : Size(s)' = Size(s) /\ Size(s) \in Nat /\ s \in SectionNames
    BY Sizes DEF Size
  <2> QED
    BY <1>1, <2>1 DEF NumbersSeen
<1>5. CountsSeen'
  <2>1. \A c \in {"transactions", "events"} : export'.count[c] <= Size(c)' /\ ~(export'.at > Place(c))
    BY Sizes, Places DEF Size
  <2>2. Range(events') \in SUBSET Range(events') /\ export'.count["streams"] <= Cardinality(Range(events'))
    OBVIOUS
  <2> QED
    BY <1>2, <2>1, <2>2, Names DEF CountsSeen, Place
<1>6. UntouchedSeen'
  BY <1>2, Names DEF UntouchedSeen
<1>7. StreamsSeen'
  BY <1>1, Names DEF StreamsSeen
<1>8. ReceiptsSeen'
  BY <1>1, Names DEF ReceiptsSeen
<1> QED
  BY <1>3, <1>4, <1>5, <1>6, <1>7, <1>8 DEF ExportInv

(* An export that begins has seen nothing. *)
LEMMA StartExportKeeps ==
  ASSUME BaseInv, StartExport
  PROVE  ExportInv'
<1>1. /\ export' = [at |-> 1, count |-> [c \in Range(Counts) |-> 0],
                    got |-> [s \in SectionNames |-> <<>>], untouched |-> rows]
      /\ UNCHANGED <<rows, txs, events, jobs, receipts>>
  BY DEF StartExport, prVars
<1>2. export' \in ExportType
  <2>1. 1 \in 1..(Statements + 1) /\ rows \in SUBSET RowType
    BY Names DEF BaseInv, GoodTable
  <2>2. /\ [c \in Range(Counts) |-> 0] \in [Range(Counts) -> Nat]
        /\ [s \in SectionNames |-> <<>>] \in [SectionNames -> Seq(AnyRow)]
    OBVIOUS
  <2> QED
    BY <1>1, <2>1, <2>2 DEF ExportType
<1>3. /\ export'.count["transactions"] = 0 /\ export'.count["events"] = 0 /\ export'.count["streams"] = 0
      /\ export'.untouched = rows /\ export'.at = 1
      /\ \A s \in SectionNames : export'.got[s] = <<>>
  BY <1>1, Names
<1>4. 0 <= txs /\ 0 <= Len(events) /\ 0 <= Cardinality(Range(events))
  BY Tables, TableSizes, FS_CardinalityType
<1> QED
  BY <1>1, <1>2, <1>3, <1>4, NothingRead DEF ExportInv

(* A count of the header is of rows that are there. *)
LEMMA ExportCountKeeps ==
  ASSUME BaseInv, ExportInv, ExportCount
  PROVE  ExportInv'
<1>1. /\ export # NULL /\ export.at \in 1..3
      /\ ExportShape /\ NumbersSeen /\ CountsSeen /\ export \in ExportType
      /\ UNCHANGED <<rows, txs, events, jobs, receipts>>
  BY Names DEF ExportCount, ExportInv, ExportShape, ExportType, prVars
<1>2. PICK c \in Range(Counts) :
        export' = [export EXCEPT !.count[c] = Cardinality(RowsOf(c)), !.at = export.at + 1]
  <2>1. Counts[export.at] \in Range(Counts)
    <3>1. export.at = 1 \/ export.at = 2 \/ export.at = 3
      BY <1>1
    <3> QED
      BY <3>1, Names
  <2> QED
    BY <2>1 DEF ExportCount
<1>3. Cardinality(RowsOf(c)) \in Nat
  BY Names, TableSizes
<1>4. /\ export'.count = [export.count EXCEPT ![c] = Cardinality(RowsOf(c))]
      /\ export'.got = export.got /\ export'.untouched = export.untouched
      /\ export'.at = export.at + 1
      /\ export' \in ExportType
  <2>1. export.at + 1 \in 1..(Statements + 1)
    BY <1>1, Names
  <2>2. [export.count EXCEPT ![c] = Cardinality(RowsOf(c))] \in [Range(Counts) -> Nat]
    BY <1>1, <1>3 DEF ExportType
  <2> QED
    BY <1>1, <1>2, <2>1, <2>2 DEF ExportType
<1>5. /\ export.count["transactions"] <= txs /\ export.count["events"] <= Len(events)
      /\ export.count["streams"] <= Cardinality(Range(events))
  <2>1. PICK T \in SUBSET Range(events) : export.count["streams"] <= Cardinality(T)
    BY <1>1 DEF CountsSeen
  <2>2. IsFiniteSet(Range(events))
    BY TableSizes
  <2>3. Cardinality(T) <= Cardinality(Range(events)) /\ Cardinality(T) \in Nat /\ Cardinality(Range(events)) \in Nat
    BY <2>2, FS_Subset, FS_CardinalityType
  <2>4. export.count["streams"] \in Nat
    BY <1>1, Names DEF ExportType
  <2> QED
    BY <1>1, <2>1, <2>3, <2>4, Sizes DEF CountsSeen
<1>6. /\ export'.count["transactions"] <= txs /\ export'.count["events"] <= Len(events)
      /\ export'.count["streams"] <= Cardinality(Range(events))
  <2>1. \A d \in Range(Counts) :
          export'.count[d] = IF d = c THEN Cardinality(RowsOf(c)) ELSE export.count[d]
    BY <1>1, <1>4 DEF ExportType
  <2> QED
    BY <1>5, <2>1, Names, TableSizes
<1>7. \A s \in SectionNames : export'.got[s] = <<>>
  BY <1>1, <1>4, Places DEF ExportShape
<1>8. export'.at \in 1..4 /\ export'.untouched \subseteq rows'
  BY <1>1, <1>4 DEF ExportShape
<1> QED
  BY <1>1, <1>4, <1>6, <1>7, <1>8, NothingRead DEF ExportInv

(* Every step keeps what the export has seen, whoever takes it. *)
LEMMA ExportStep ==
  ASSUME BaseInv, ExportInv, [INNext]_inVars
  PROVE  ExportInv'
<1>1. Grown /\ GoodTable(rows')
  BY StepGrows
<1>2. CASE export' = export /\ rows' = rows
  <2>1. CASE export = NULL
    BY <1>2, <2>1 DEF ExportInv
  <2>2. CASE export # NULL
    <3>1. export' \in ExportType /\ export'.untouched \subseteq export.untouched \cap rows'
      BY <1>2, <2>2 DEF ExportInv, ExportShape
    <3> QED
      BY <1>1, <1>2, <2>2, <3>1, CommitKeepsExport
  <2> QED
    BY <2>1, <2>2
<1>3. ScanProjection \/ Commit \/ ReadList \/ UNCHANGED inVars => export' = export /\ rows' = rows
  BY DEF ScanProjection, Scan, BeginScan, ReadPage, EndRead, Commit, AppendEvent, EnqueueJob, ClaimJob,
         EndLease, Transaction, ReadList, StartList, ListPage, EndList, inVars, prVars
<1>4. CASE PatchProjection
  <2>1. CASE export = NULL
    BY <1>4, <2>1 DEF PatchProjection, ExportInv
  <2>2. CASE export # NULL
    <3>1. export' = [export EXCEPT !.untouched = export.untouched \cap rows'] /\ export \in ExportType
      BY <1>4, <2>2 DEF PatchProjection, ExportInv, ExportShape
    <3>2. /\ export' \in ExportType /\ export'.at = export.at /\ export'.count = export.count
          /\ export'.got = export.got /\ export'.untouched = export.untouched \cap rows'
      <4>1. export.untouched \cap rows' \in SUBSET RowType
        BY <3>1 DEF ExportType
      <4> QED
        BY <3>1, <4>1 DEF ExportType
    <3> QED
      BY <1>1, <2>2, <3>2, CommitKeepsExport
  <2> QED
    BY <2>1, <2>2
<1>5. CASE ReadExport
  <2>1. EndExport => ExportInv'
    BY DEF EndExport, ExportInv
  <2> QED
    BY <1>5, <2>1, StartExportKeeps, ExportCountKeeps, ExportRowsKeeps DEF ReadExport
<1> QED
  BY <1>2, <1>3, <1>4, <1>5, Kinds

----------------------------------------------------------------------------
(* Theorems                                                                *)

(* With nothing read the invariant holds, *)
LEMMA InvariantInit == INInit => INInv
BY BaseInit DEF INInv, ScanInv, ListInv, ExportInv

(* and every step keeps it. *)
LEMMA InvariantStep == INInv /\ [INNext]_inVars => INInv'
BY BaseStep, ScanStep, ListStep, ExportStep DEF INInv

(* What the readers have seen fits what is in the tables, at every step.    *)
THEOREM ReadersInvariant == INSpec => []INInv
BY InvariantInit, InvariantStep, PTL DEF INSpec

(* The rows that are read have their types.                                 *)
LEMMA InvariantTypes == INInv => INTypeOK
<1> SUFFICES ASSUME INInv PROVE INTypeOK
  OBVIOUS
<1>1. PRTypeOK
  <2>1. scan # NULL => Range(scan.got) \subseteq RowType /\ rows \in during
    <3> SUFFICES ASSUME scan # NULL PROVE Range(scan.got) \subseteq RowType /\ rows \in during
      OBVIOUS
    <3>1. scan.got \in Seq(RowType) /\ rows \in during
      BY DEF INInv, ScanInv, ScanType
    <3> QED
      BY <3>1, RangeOfSeq
  <2> QED
    BY <2>1 DEF INInv, BaseInv, GoodTable, PRTypeOK
<1>2. export # NULL => /\ export.at \in 1..(Statements + 1)
                       /\ export.count \in [Range(Counts) -> Nat]
                       /\ export.untouched \subseteq rows
  BY DEF INInv, ExportInv, ExportShape, ExportType
<1>3. list # NULL => list.after \in 0..Len(jobs)
  BY DEF INInv, ListInv
<1> QED
  BY <1>1, <1>2, <1>3 DEF INInv, BaseInv, INTypeOK

(* A scan returns keys in order and once each, only keys that were asked    *)
(* for, and with values that they had while it went on (scan; the bounds of *)
(* prefix_upper_bound), whatever is committed between its pages.            *)
THEOREM ScansAreSound == INSpec => []ScanSound
<1>1. INInv => ScanSound
  <2> SUFFICES ASSUME INInv, scan # NULL
               PROVE  /\ \A i, j \in DOMAIN scan.got :
                           i < j => Less(scan.got[i].key, scan.got[j].key)
                      /\ \A r \in Range(scan.got) : Wanted(scan.query, r) /\ \E tab \in during : r \in tab
    BY DEF ScanSound
  <2>1. /\ scan.got \in Seq(RowType) /\ Ascending(scan.got, KeyOrder(RowType))
        /\ \A r \in Range(scan.got) : Wanted(scan.query, r) /\ \E tab \in during : r \in tab
    BY DEF INInv, ScanInv, ScanType
  <2>2. DOMAIN scan.got = 1..Len(scan.got) /\ \A i \in 1..Len(scan.got) : scan.got[i] \in RowType
    BY <2>1, LenProperties, ElementOfSeq
  <2> QED
    BY <2>1, <2>2, RowKeys DEF Ascending
<1> QED
  BY <1>1, ReadersInvariant, PTL

(* A scan that is at its end has returned every key asked for that was      *)
(* there all the time: rewriting it, or Replace giving it another row, does *)
(* not hide it, nor do commits around the cursor.                           *)
THEOREM ScansAreComplete == INSpec => []ScanComplete
<1>1. INInv => ScanComplete
  BY DEF INInv, ScanInv, ScanComplete, ScanPassed, Lasting
<1> QED
  BY <1>1, ReadersInvariant, PTL

(* A paged list shows no job twice and every job that kept its state        *)
(* (jobs_page with the cursor that `jobs list` prints).                     *)
THEOREM ListsAreFaithful == INSpec => []ListFaithful
<1>1. INInv => ListFaithful
  <2> SUFFICES ASSUME INInv, list # NULL
               PROVE  /\ \A i, k \in DOMAIN list.got : i < k => list.got[i] < list.got[k]
                      /\ list.done => list.steady \subseteq Range(list.got)
    BY DEF ListFaithful
  <2>1. /\ list.got \in Seq(Nat \ {0}) /\ Ascending(list.got, NumberOrder(Nat \ {0}))
        /\ \A j \in list.steady : (j <= list.after \/ list.done) => j \in Range(list.got)
    BY DEF INInv, ListInv, ListType
  <2>2. DOMAIN list.got = 1..Len(list.got) /\ \A i \in 1..Len(list.got) : list.got[i] \in Nat \ {0}
    BY <2>1, LenProperties, ElementOfSeq
  <2> QED
    BY <2>1, <2>2, NumbersOrdered DEF Ascending
<1> QED
  BY <1>1, ReadersInvariant, PTL

(* Everything that the counts of an export's header include is exported,    *)
(* transactions, events and jobs without a gap, and every projection entry  *)
(* that was left alone exactly once (diagnostic_export).                    *)
THEOREM ExportsAreComplete == INSpec => []ExportComplete
<1>1. INInv => ExportComplete
  <2> SUFFICES ASSUME INInv, export # NULL
               PROVE  /\ \A s \in {"transactions", "events", "jobs"} :
                           \A i \in DOMAIN export.got[s] : export.got[s][i].pos = i
                      /\ Exported => \A c \in Range(Counts) : export.count[c] <= Len(export.got[c])
                      /\ Exported => \A row \in export.untouched :
                           Cardinality({i \in DOMAIN export.got["projections"] :
                                          export.got["projections"][i].row = row}) = 1
    BY InvariantTypes DEF ExportComplete
  <2>1. BaseInv /\ ExportShape /\ NumbersSeen /\ CountsSeen /\ UntouchedSeen
    BY DEF INInv, ExportInv
  <2>2. \A s \in SectionNames :
          export.got[s] \in Seq(RowSet(s)) /\ DOMAIN export.got[s] = 1..Len(export.got[s])
          /\ Len(export.got[s]) \in Nat
    BY <2>1, LenProperties DEF ExportShape
  <2>3. \A s \in {"transactions", "events", "jobs"} :
          \A i \in DOMAIN export.got[s] : export.got[s][i].pos = i
    BY <2>1, <2>2, Names DEF NumbersSeen, NumberedSections
  <2>4. ASSUME Exported PROVE \A c \in Range(Counts) : export.count[c] <= Len(export.got[c])
    <3>1. export.at = 10
      BY <2>4, Names DEF Exported
    <3>2. /\ export.count["transactions"] <= Len(export.got["transactions"])
          /\ export.count["events"] <= Len(export.got["events"])
      BY <2>1, <3>1, Places DEF CountsSeen
    <3>3. PICK T \in SUBSET Range(events) :
            /\ export.count["streams"] <= Cardinality(T)
            /\ \A t \in T : Passed("streams", t) => \E r \in Range(export.got["streams"]) : r.pos = t
      BY <2>1 DEF CountsSeen
    <3>4. \A t \in T : \E r \in Range(export.got["streams"]) : r.pos = t
      BY <3>1, <3>3, Places DEF Passed
    <3> DEFINE got == export.got["streams"]
               n == Len(got)
               P == {got[i].pos : i \in 1..n}
    <3>5. DOMAIN got = 1..n /\ n \in Nat
      BY <2>2, Names
    <3>6. IsFiniteSet(P) /\ Cardinality(P) <= n
      <4> DEFINE f == [i \in 1..n |-> got[i].pos]
      <4>1. DOMAIN f = 1..n /\ P = {f[i] : i \in 1..n}
        OBVIOUS
      <4>2. IsFiniteSet(1..n) /\ Cardinality(1..n) = n
        BY <3>5, FS_Interval
      <4> HIDE DEF f, P, n, got
      <4>3. IsFiniteSet(P) /\ Cardinality(P) <= Cardinality(1..n)
        BY <4>1, <4>2, ImageFinite
      <4> QED
        BY <4>2, <4>3
    <3>7. T \in SUBSET P
      BY <3>4, <3>5 DEF Range
    <3>8. Cardinality(T) <= Cardinality(P) /\ Cardinality(T) \in Nat /\ Cardinality(P) \in Nat
      <4> HIDE DEF P
      <4> QED
        BY <3>6, <3>7, FS_Subset, FS_CardinalityType
    <3>9. export.count["streams"] \in Nat
      BY <2>1, Names DEF ExportShape, ExportType
    <3>10. export.count["streams"] <= Len(export.got["streams"])
      <4> HIDE DEF P
      <4> QED
        BY <3>3, <3>5, <3>6, <3>8, <3>9
    <3> QED
      BY <3>2, <3>10, Names
  <2>5. ASSUME Exported, NEW row \in export.untouched
        PROVE  Cardinality({i \in DOMAIN export.got["projections"] :
                              export.got["projections"][i].row = row}) = 1
    <3> DEFINE got == export.got["projections"]
    <3>1. Passed("projections", row.rowid)
      BY <2>5, Names, Places DEF Exported, Passed
    <3>2. PICK i \in DOMAIN got : got[i].row = row
      BY <2>1, <3>1 DEF UntouchedSeen, Range
    <3>3. ASSUME NEW j \in DOMAIN got, got[j].row = row PROVE j = i
      <4>1. /\ i \in 1..Len(got) /\ j \in 1..Len(got)
            /\ got[i] \in RowSet("projections") /\ got[j] \in RowSet("projections")
        BY <2>2, Names, ElementOfSeq
      <4>2. got[i].pos = got[j].pos /\ got[i].pos \in Nat
        BY <3>2, <3>3, <4>1, Columns
      <4>3. Ascending(got, PosOrder(RowSet("projections")))
        BY <2>1, Names DEF ExportShape
      <4>4. \A k, l \in 1..Len(got) :
              k < l /\ got[k] \in RowSet("projections") /\ got[l] \in RowSet("projections")
                => got[k].pos < got[l].pos
        BY <4>3, Names, Positions DEF Ascending
      <4>5. ~(i < j) /\ ~(j < i)
        BY <4>1, <4>2, <4>4
      <4>6. i \in Nat /\ j \in Nat
        BY <4>1
      <4> QED
        BY <4>5, <4>6
    <3>4. {k \in DOMAIN got : got[k].row = row} = {i}
      BY <3>2, <3>3
    <3> QED
      BY <3>4, FS_Singleton
  <2> QED
    BY <2>3, <2>4, <2>5
<1> QED
  BY <1>1, ReadersInvariant, PTL

(* Every exported event finds its stream, at its version or a later one,    *)
(* and every attempt of an exported job its claim receipt, although commits *)
(* went on between the sections (the order of diagnostic_export).           *)
THEOREM ExportsCanBeRead == INSpec => []ExportCloses
<1>1. INInv => ExportCloses
  <2> SUFFICES ASSUME INInv, export # NULL, export.at = 10
               PROVE  /\ \A e \in Range(export.got["events"]) :
                           \E s \in Range(export.got["streams"]) :
                              s.pos = e.stream /\ s.version >= e.version
                      /\ \A j \in Range(export.got["jobs"]) : \A n \in 1..j.attempt :
                           \E r \in Range(export.got["claim_receipts"]) : r.job = j.pos /\ r.attempt = n
    BY Names DEF ExportCloses, Exported
  <2>1. StreamsSeen /\ ReceiptsSeen
    BY DEF INInv, ExportInv
  <2>2. \A pos : Passed("streams", pos)
    BY Places DEF Passed
  <2> QED
    BY <2>1, <2>2, Places DEF StreamsSeen, ReceiptsSeen
<1> QED
  BY <1>1, ReadersInvariant, PTL

=============================================================================
