--------------------------- MODULE AccountsProofs ---------------------------
(***************************************************************************)
(* Theorems about study statistics and the weekly boards, for every number *)
(* of users, records and weeks: first about StudyStats as MCAccounts       *)
(* instantiates it (its constants are StudyStats', and take any value),    *)
(* then about the behaviours of MCAccounts, with LoginProofs for the parts *)
(* that are Login.                                                         *)
(***************************************************************************)
EXTENDS MCAccounts, LoginProofs, FunctionTheorems, SequenceTheorems

(* StudyStats has its finite sets from an instance.                        *)
LEMMA SameFinite ==
  /\ \A S : Boards!Cardinality(S) = Cardinality(S)
  /\ \A S : Boards!IsFiniteSet(S) <=> IsFiniteSet(S)
<1>1. ASSUME NEW S PROVE Boards!Cardinality(S) = Cardinality(S)
  BY DEF Boards!Cardinality, Cardinality
<1>2. ASSUME NEW S PROVE Boards!IsFiniteSet(S) <=> IsFiniteSet(S)
  BY DEF Boards!IsFiniteSet, IsFiniteSet
<1> QED BY <1>1, <1>2

(* Every set of natural numbers that is not empty has a least element.     *)
LEMMA LeastExists ==
  ASSUME NEW T \in SUBSET Nat, T # {}
  PROVE  \E x \in T : \A y \in T : x <= y
<1>1. PICK x \in T : \A y \in T : <<y, x>> \notin OpToRel(<, Nat)
  BY NatLessThanWellFounded, WFMin
<1>2. \A y \in T : ~ (y < x)
  BY <1>1 DEF OpToRel
<1> QED BY <1>2

(* What a finite set is mapped onto is finite.                             *)
LEMMA FiniteImage ==
  ASSUME NEW S, IsFiniteSet(S), NEW T, NEW f \in [S -> T],
         \A t \in T : \E x \in S : f[x] = t
  PROVE  IsFiniteSet(T)
<1>1. f \in Surjection(S, T)
  BY DEF Surjection
<1> QED BY <1>1, FS_Surjection

-----------------------------------------------------------------------------
(* Sorting *)

(* s has the elements of S in the order R.                                 *)
InOrderOf(s, S, R) ==
  /\ s \in [1..Cardinality(S) -> S]
  /\ \A i, j \in 1..Cardinality(S) : i < j => <<s[i], s[j]>> \in R

(* R puts the elements of S in a strict order.                             *)
Orders(R, S) ==
  /\ \A x, y \in S : x # y => <<x, y>> \in R \/ <<y, x>> \in R
  /\ \A x, y, z \in S : <<x, y>> \in R /\ <<y, z>> \in R => <<x, z>> \in R
  /\ \A x \in S : <<x, x>> \notin R

(* What can be sorted on either side of x can be sorted with x.            *)
LEMMA SortedAround ==
  ASSUME NEW S, IsFiniteSet(S), NEW R, Orders(R, S), NEW x \in S,
         NEW s, InOrderOf(s, {y \in S : <<y, x>> \in R}, R),
         NEW t, InOrderOf(t, {y \in S : <<x, y>> \in R}, R)
  PROVE  \E u : InOrderOf(u, S, R)
<1> DEFINE A == {y \in S : <<y, x>> \in R}
           B == {y \in S : <<x, y>> \in R}
           m == Cardinality(A)
           n == Cardinality(B)
           u == [i \in 1..Cardinality(S) |->
                   IF i <= m THEN s[i] ELSE IF i = m + 1 THEN x ELSE t[i - m - 1]]
<1>1. /\ IsFiniteSet(A) /\ IsFiniteSet(B) /\ m \in Nat /\ n \in Nat
  BY FS_Subset, FS_CardinalityType
<1>2. Cardinality(S) = m + n + 1
  <2>1. A \cap B = {} /\ S = (A \cup B) \cup {x} /\ x \notin A \cup B
    BY DEF Orders
  <2>2. IsFiniteSet(A \cup B) /\ Cardinality(A \cup B) = m + n - Cardinality(A \cap B)
    BY <1>1, FS_Union
  <2>3. Cardinality(A \cap B) = 0
    BY <2>1, FS_EmptySet
  <2>4. Cardinality((A \cup B) \cup {x}) = m + n + 1
    <3> DEFINE C == A \cup B
    <3>1. IsFiniteSet(C) /\ x \notin C /\ Cardinality(C) = m + n
      BY <1>1, <2>1, <2>2, <2>3
    <3> HIDE DEF C
    <3>2. Cardinality(C \cup {x}) = Cardinality(C) + 1
      BY <3>1, FS_AddElement
    <3> QED BY <3>1, <3>2 DEF C
  <2> QED BY <2>1, <2>4
<1>3. /\ s \in [1..m -> A] /\ \A i, j \in 1..m : i < j => <<s[i], s[j]>> \in R
      /\ t \in [1..n -> B] /\ \A i, j \in 1..n : i < j => <<t[i], t[j]>> \in R
  BY DEF InOrderOf
<1> HIDE DEF m, n
<1>4. u \in [1..(m + n + 1) -> S]
  <2> SUFFICES ASSUME NEW i \in 1..(m + n + 1)
               PROVE  (IF i <= m THEN s[i] ELSE IF i = m + 1 THEN x ELSE t[i - m - 1]) \in S
    BY <1>2
  <2>1. CASE i <= m
    <3>1. i \in 1..m
      BY <1>1, <2>1
    <3>2. s[i] \in A
      BY <1>3, <3>1
    <3> QED BY <2>1, <3>2
  <2>2. CASE i > m
    <3>1. i = m + 1 \/ i - m - 1 \in 1..n
      BY <1>1, <2>2
    <3>2. i - m - 1 \in 1..n => t[i - m - 1] \in B
      BY <1>3
    <3> QED BY <1>1, <2>2, <3>1, <3>2
  <2> QED BY <1>1, <2>1, <2>2
<1>5. ASSUME NEW i \in 1..(m + n + 1), NEW j \in 1..(m + n + 1), i < j
      PROVE  <<u[i], u[j]>> \in R
  <2>1. CASE j <= m
    <3>1. i \in 1..m /\ j \in 1..m /\ u[i] = s[i] /\ u[j] = s[j]
      BY <1>1, <1>2, <1>5, <2>1
    <3> QED BY <1>3, <1>5, <3>1
  <2>2. CASE j = m + 1
    <3>1. i \in 1..m /\ u[i] = s[i] /\ u[j] = x
      BY <1>1, <1>2, <1>5, <2>2
    <3> QED BY <1>3, <3>1
  <2>3. CASE j > m + 1 /\ i <= m
    <3>1. i \in 1..m /\ j - m - 1 \in 1..n /\ u[i] = s[i] /\ u[j] = t[j - m - 1]
      BY <1>1, <1>2, <1>5, <2>3
    <3>2. s[i] \in A /\ t[j - m - 1] \in B
      BY <1>3, <3>1
    <3>3. \A p \in A, q \in B : <<p, q>> \in R
      BY DEF Orders
    <3> QED BY <3>1, <3>2, <3>3
  <2>4. CASE j > m + 1 /\ i = m + 1
    <3>1. j - m - 1 \in 1..n /\ u[i] = x /\ u[j] = t[j - m - 1]
      BY <1>1, <1>2, <1>5, <2>4
    <3> QED BY <1>3, <3>1
  <2>5. CASE i > m + 1
    <3>1. /\ i - m - 1 \in 1..n /\ j - m - 1 \in 1..n /\ i - m - 1 < j - m - 1
          /\ u[i] = t[i - m - 1] /\ u[j] = t[j - m - 1]
      BY <1>1, <1>2, <1>5, <2>5
    <3> QED BY <1>3, <3>1
  <2> QED BY <1>1, <2>1, <2>2, <2>3, <2>4, <2>5
<1> QED BY <1>2, <1>4, <1>5 DEF InOrderOf

(* A finite set can be sorted.                                             *)
LEMMA SortExists ==
  ASSUME NEW S, IsFiniteSet(S), NEW R, Orders(R, S)
  PROVE  \E s : InOrderOf(s, S, R)
<1> DEFINE Unsorted == {A \in SUBSET S : ~ \E s : InOrderOf(s, A, R)}
           sizes == {Cardinality(A) : A \in Unsorted}
<1> SUFFICES Unsorted = {}
  OBVIOUS
<1> SUFFICES ASSUME Unsorted # {} PROVE FALSE
  OBVIOUS
<1>1. \A A \in SUBSET S : IsFiniteSet(A) /\ Cardinality(A) \in Nat /\ Orders(R, A)
  BY FS_Subset, FS_CardinalityType DEF Orders
<1>2. sizes \in SUBSET Nat /\ sizes # {}
  BY <1>1
<1>3. PICK n \in sizes : \A k \in sizes : n <= k
  BY <1>2, LeastExists
<1>4. PICK A \in Unsorted : n = Cardinality(A)
  OBVIOUS
<1>5. A # {}
  <2> SUFFICES ASSUME A = {} PROVE FALSE
    OBVIOUS
  <2>1. 1..Cardinality(A) = {}
    BY FS_EmptySet
  <2>2. InOrderOf([i \in {} |-> i], A, R)
    BY <2>1 DEF InOrderOf
  <2> QED BY <2>2
<1>6. PICK x \in A : TRUE
  BY <1>5
<1>7. ASSUME NEW B \in SUBSET A, x \notin B
      PROVE  \E s : InOrderOf(s, B, R)
  <2>1. Cardinality(B) <= Cardinality(A) /\ Cardinality(A) # Cardinality(B)
    BY <1>1, <1>6, <1>7, FS_Subset
  <2>2. B \in SUBSET S /\ Cardinality(B) \in Nat /\ Cardinality(A) \in Nat
    BY <1>1
  <2>3. Cardinality(B) \notin sizes
    BY <1>3, <1>4, <2>1, <2>2
  <2> QED BY <2>2, <2>3
<1>8. Orders(R, A) /\ IsFiniteSet(A)
  BY <1>1
<1>9. \E s : InOrderOf(s, {y \in A : <<y, x>> \in R}, R)
  BY <1>7, <1>8 DEF Orders
<1>10. \E t : InOrderOf(t, {y \in A : <<x, y>> \in R}, R)
  BY <1>7, <1>8 DEF Orders
<1>11. \E u : InOrderOf(u, A, R)
  BY <1>6, <1>8, <1>9, <1>10, SortedAround
<1> QED BY <1>11

-----------------------------------------------------------------------------
(* Days and weeks *)

(* The days, as instants, on which there are records.                      *)
DaysOf(rs) == {Boards!ToDateKey(r.start) : r \in rs}

(* The units of time, as numbers.                                          *)
LEMMA Constants == Boards!OFFSET = 1 /\ Boards!DAY = 3 /\ Boards!WEEK = 21 /\ Boards!MIN_VALID = 1
BY DEF Boards!OFFSET, Boards!DAY, Boards!WEEK, Boards!MIN_VALID

(* Finitely many records have finitely many days.                          *)
LEMMA DaysAreFinite ==
  ASSUME NEW rs \in SUBSET Boards!Record, IsFiniteSet(rs)
  PROVE  IsFiniteSet(DaysOf(rs)) /\ DaysOf(rs) \subseteq Int
<1> DEFINE f == [r \in rs |-> Boards!ToDateKey(r.start)]
<1>1. f \in [rs -> DaysOf(rs)] /\ \A d \in DaysOf(rs) : \E r \in rs : f[r] = d
  BY DEF DaysOf
<1>2. IsFiniteSet(DaysOf(rs))
  BY <1>1, FiniteImage
<1>3. \A r \in rs : Boards!ToDateKey(r.start) \in Int
  BY Constants DEF Boards!Record, Boards!ToDateKey, Boards!LocalDay
<1> QED BY <1>2, <1>3 DEF DaysOf

(* The days as StreakDays sorts them.                                      *)
LatestFirst(D) == Boards!Sorted(D, LAMBDA a, b : a > b)

(* Sorted has every day, once, and the latest first.                       *)
LEMMA DaysSorted ==
  ASSUME NEW D \in SUBSET Int, IsFiniteSet(D)
  PROVE  /\ Cardinality(D) \in Nat
         /\ LatestFirst(D) \in [1..Cardinality(D) -> D]
         /\ Len(LatestFirst(D)) = Cardinality(D)
         /\ \A i, j \in 1..Cardinality(D) :
              i < j => LatestFirst(D)[i] > LatestFirst(D)[j]
         /\ \A d \in D : \E i \in 1..Cardinality(D) : LatestFirst(D)[i] = d
<1> DEFINE n == Cardinality(D)
           R == {w \in Int \X Int : w[1] > w[2]}
           s == LatestFirst(D)
<1>1. n \in Nat
  BY FS_CardinalityType
<1>2. \A a, b \in D : <<a, b>> \in R <=> a > b
  OBVIOUS
<1>3. Orders(R, D)
  BY <1>2 DEF Orders
<1>4. PICK t : InOrderOf(t, D, R)
  BY <1>3, SortExists
<1>5. t \in [1..n -> D] /\ \A i, j \in 1..n : i < j => t[i] > t[j]
  BY <1>2, <1>4 DEF InOrderOf
<1>6. s \in [1..n -> D] /\ \A i, j \in 1..n : i < j => s[i] > s[j]
  <2>1. Boards!Cardinality(D) = n
    BY SameFinite
  <2> QED BY <1>5, <2>1 DEF LatestFirst, Boards!Sorted
<1>7. s \in Injection(1..n, D)
  <2>1. ASSUME NEW i \in 1..n, NEW j \in 1..n, s[i] = s[j] PROVE i = j
    <3>0. s[i] \in D /\ s[j] \in D /\ D \subseteq Int
      BY <1>6
    <3>1. s[i] \in Int /\ s[j] \in Int
      BY <3>0
    <3>2. ~ (i < j) /\ ~ (j < i)
      BY <1>6, <2>1, <3>1
    <3> QED BY <1>1, <3>2
  <2> QED BY <1>6, <2>1 DEF Injection, IsInjective
<1>8. Cardinality(1..n) = n
  BY <1>1, FS_Interval
<1>9. s \in Surjection(1..n, D)
  BY <1>7, <1>8, FS_Injection
<1>10. \A d \in D : \E i \in 1..n : s[i] = d
  BY <1>9 DEF Surjection
<1>11. Len(s) = n
  BY <1>1, <1>6
<1> QED BY <1>1, <1>6, <1>10, <1>11

-----------------------------------------------------------------------------
(* What records amount to *)

(* What records amount to is a natural number.                             *)
LEMMA ValueType ==
  ASSUME NEW rs \in SUBSET Boards!Record, IsFiniteSet(rs), NEW metric \in Boards!Metrics
  PROVE  Boards!MetricValue(metric, rs) \in Nat
<1>1. Boards!SumDuration(rs) \in Nat
  <2> DEFINE units == {{r} \X (1..r.duration) : r \in rs}
             f == [r \in rs |-> {r} \X (1..r.duration)]
  <2>1. IsFiniteSet(units)
    <3>1. f \in [rs -> units] /\ \A u \in units : \E r \in rs : f[r] = u
      OBVIOUS
    <3> HIDE DEF units, f
    <3> QED BY <3>1, FiniteImage
  <2>2. ASSUME NEW r \in rs PROVE IsFiniteSet({r} \X (1..r.duration))
    <3>1. r.duration \in Nat
      BY DEF Boards!Record
    <3>2. IsFiniteSet({r})
      BY FS_Singleton
    <3>3. IsFiniteSet(1..r.duration)
      BY <3>1, FS_Interval
    <3> QED BY <3>2, <3>3, FS_Product
  <2>3. IsFiniteSet(UNION units)
    BY <2>1, <2>2, FS_UNION
  <2>4. Boards!SumDuration(rs) = Cardinality(UNION units)
    BY SameFinite DEF Boards!SumDuration
  <2> QED BY <2>3, <2>4, FS_CardinalityType
<1>2. Cardinality(rs) \in Nat
  BY FS_CardinalityType
<1>3. Boards!StreakDays(rs) \in Nat
  <2> DEFINE D == DaysOf(rs)
             days == LatestFirst(D)
             unbroken == {k \in 1..Len(days) : \A i \in 1..(k - 1) : days[i] - days[i + 1] = Boards!DAY}
  <2>1. IsFiniteSet(D) /\ D \subseteq Int
    BY DaysAreFinite
  <2>2. Len(days) \in Nat
    BY <2>1, DaysSorted
  <2>3. IsFiniteSet(unbroken)
    <3>1. unbroken \in SUBSET (1..Len(days))
      OBVIOUS
    <3>2. IsFiniteSet(1..Len(days))
      BY <2>2, FS_Interval
    <3> QED BY <3>1, <3>2, FS_Subset
  <2>4. Cardinality(unbroken) \in Nat
    BY <2>3, FS_CardinalityType
  <2>5. Boards!StreakDays(rs) = Cardinality(unbroken)
    BY SameFinite DEF Boards!StreakDays, LatestFirst, DaysOf
  <2> QED BY <2>4, <2>5
<1> QED BY <1>1, <1>2, <1>3, SameFinite DEF Boards!MetricValue, Boards!Metrics

(* A streak is the longest run of days that ends with the last one.        *)
LEMMA StreakIsRun ==
  ASSUME NEW rs \in SUBSET Boards!Record, IsFiniteSet(rs), rs # {}
  PROVE  \E top \in DaysOf(rs) :
           /\ \A x \in DaysOf(rs) : x <= top
           /\ \A k \in 0..(Boards!StreakDays(rs) - 1) : top - k * Boards!DAY \in DaysOf(rs)
           /\ top - Boards!StreakDays(rs) * Boards!DAY \notin DaysOf(rs)
<1> DEFINE D == DaysOf(rs)
           days == LatestFirst(D)
           N == Cardinality(D)
           unbroken == {k \in 1..N : \A i \in 1..(k - 1) : days[i] - days[i + 1] = Boards!DAY}
           n == Boards!StreakDays(rs)
<1>1. IsFiniteSet(D) /\ D \subseteq Int /\ D # {}
  BY DaysAreFinite DEF DaysOf
<1>2. /\ N \in Nat /\ days \in [1..N -> D] /\ Len(days) = N
      /\ \A i, j \in 1..N : i < j => days[i] > days[j]
      /\ \A d \in D : \E i \in 1..N : days[i] = d
  BY <1>1, DaysSorted
<1>3. n = Cardinality(unbroken)
  BY <1>2, SameFinite DEF Boards!StreakDays, LatestFirst, DaysOf
<1>4. \A d \in D : \E m \in Int : d = 3 * m - 1
  BY Constants DEF DaysOf, Boards!ToDateKey, Boards!LocalDay, Boards!Record
<1>5. \A i \in 1..N : days[i] \in Int /\ days[i] \in D
  BY <1>1, <1>2
<1> HIDE DEF D, days, n
<1>6. N >= 1
  <2>1. PICK d \in D : TRUE
    BY <1>1
  <2>2. PICK i \in 1..N : days[i] = d
    BY <1>2
  <2> QED BY <1>2, <2>2
<1> HIDE DEF N
<1>7. n \in 1..N /\ unbroken = 1..n
  <2> DEFINE broken == {k \in 1..(N + 1) : k \notin unbroken}
  <2>1. broken \in SUBSET Nat /\ N + 1 \in broken
    BY <1>2
  <2>2. PICK b \in broken : \A k \in broken : b <= k
    BY <2>1, LeastExists
  <2>3. 1 \in unbroken
    BY <1>2, <1>6
  <2>4. b \in 1..(N + 1) /\ b # 1 /\ b \notin unbroken
    BY <2>2, <2>3
  <2>5. \A k \in 1..(b - 1) : k \in unbroken
    BY <1>2, <2>2, <2>4
  <2>6. ASSUME NEW k \in unbroken PROVE k < b
    <3>1. CASE k >= b
      <4>1. b \in 1..N /\ 1..(b - 1) \subseteq 1..(k - 1)
        BY <1>2, <2>4, <3>1
      <4>2. b \in unbroken
        BY <4>1
      <4> QED BY <2>4, <4>2
    <3> QED BY <1>2, <2>4, <3>1
  <2>7. unbroken = 1..(b - 1)
    BY <1>2, <2>4, <2>5, <2>6
  <2>8. Cardinality(1..(b - 1)) = b - 1
    BY <1>2, <2>4, FS_Interval
  <2>9. n = b - 1
    <3> HIDE DEF unbroken
    <3> QED BY <1>3, <2>7, <2>8
  <2>10. unbroken = 1..n
    <3> HIDE DEF unbroken
    <3> QED BY <2>7, <2>9
  <2>11. n \in 1..N
    BY <1>2, <2>4, <2>9
  <2> QED BY <2>10, <2>11
<1>8. \A i \in 1..(n - 1) : days[i] - days[i + 1] = 3
  <2>1. n \in unbroken
    <3> HIDE DEF unbroken
    <3> QED BY <1>2, <1>7
  <2> QED BY <2>1, Constants
<1>9. days[1] \in D /\ days[1] \in Int
  BY <1>2, <1>5, <1>6
<1>10. \A i \in 1..n : days[i] = days[1] - (i - 1) * 3
  <2> DEFINE wrong == {i \in 1..n : days[i] # days[1] - (i - 1) * 3}
  <2> SUFFICES ASSUME wrong # {} PROVE FALSE
    OBVIOUS
  <2>1. wrong \in SUBSET Nat
    BY <1>2, <1>7
  <2>2. PICK i \in wrong : \A k \in wrong : i <= k
    BY <2>1, LeastExists
  <2>3. i \in 1..n /\ i # 1
    BY <1>2, <1>5, <1>6, <1>7, <2>2
  <2>4. i - 1 \in 1..(n - 1) /\ i - 1 \notin wrong
    BY <1>2, <1>7, <2>2, <2>3
  <2>5. days[i - 1] = days[1] - (i - 2) * 3 /\ days[i - 1] - days[i] = 3
    BY <1>2, <1>7, <1>8, <2>3, <2>4
  <2>6. days[i] = days[1] - (i - 1) * 3
    <3>1. i \in Int /\ days[i] \in Int
      BY <1>2, <1>5, <1>7, <2>3
    <3> QED BY <1>9, <2>5, <3>1
  <2> QED BY <2>2, <2>6
<1>11. \A x \in D : x <= days[1]
  <2> SUFFICES ASSUME NEW i \in 1..N PROVE days[i] <= days[1]
    BY <1>2
  <2>1. CASE i = 1
    BY <1>5, <2>1
  <2>2. CASE i # 1
    BY <1>2, <1>5, <1>6, <2>2
  <2> QED BY <2>1, <2>2
<1>12. ASSUME NEW k \in 0..(n - 1) PROVE days[1] - k * Boards!DAY \in D
  <2>1. k + 1 \in 1..n /\ k + 1 \in 1..N
    BY <1>2, <1>7
  <2>2. days[k + 1] = days[1] - k * 3
    BY <1>10, <1>9, <2>1
  <2> QED BY <1>5, <2>1, <2>2, Constants
<1>13. days[1] - n * Boards!DAY \notin D
  <2> SUFFICES ASSUME days[1] - n * 3 \in D PROVE FALSE
    BY Constants
  <2>1. PICK j \in 1..N : days[j] = days[1] - n * 3
    BY <1>2
  <2>2. n \in Nat /\ j \in Nat /\ days[n] = days[1] - (n - 1) * 3
    BY <1>2, <1>7, <1>10
  <2>3. days[j] = days[n] - 3
    BY <1>9, <2>1, <2>2
  <2>4. j > n
    <3>1. CASE j <= n
      <4>1. days[j] = days[1] - (j - 1) * 3
        BY <1>10, <2>2, <3>1
      <4> QED BY <1>9, <2>1, <2>2, <3>1, <4>1
    <3> QED BY <2>2, <3>1
  <2>5. n \in 1..N /\ n + 1 \in 1..N
    BY <1>2, <1>7, <2>2, <2>4
  <2>6. days[n] > days[n + 1]
    BY <1>2, <2>2, <2>5
  <2>7. days[n + 1] >= days[j]
    <3>1. CASE j = n + 1
      BY <1>5, <3>1
    <3>2. CASE j # n + 1
      BY <1>2, <1>5, <2>2, <2>4, <2>5, <3>2
    <3> QED BY <3>1, <3>2
  <2>8. days[n] - days[n + 1] = 3
    <3>1. PICK p \in Int, q \in Int : days[n] = 3 * p - 1 /\ days[n + 1] = 3 * q - 1
      BY <1>4, <1>5, <2>5
    <3> QED BY <2>3, <2>6, <2>7, <3>1
  <2>9. n + 1 \in unbroken
    BY <1>8, <2>2, <2>5, <2>8, Constants
  <2> QED BY <1>7, <2>2, <2>9
<1> QED BY <1>9, <1>11, <1>12, <1>13 DEF D, n

-----------------------------------------------------------------------------
(* Boards *)

MetricOfUser(metric, rs, u) == Boards!MetricValue(metric, {r \in rs : r.user = u})

UsersOf(rs) == {r.user : r \in rs}

(* A board ranks users of its records by the values of their records.      *)
LEMMA Ranked ==
  ASSUME Boards!NameAssumption, NEW metric \in Boards!Metrics,
         NEW rs \in SUBSET Boards!Record, IsFiniteSet(rs)
  PROVE  \E n \in Nat :
           /\ Boards!RankLeaderboard(metric, rs) \in [1..n -> [user: Users, value: Nat]]
           /\ \A i \in 1..n :
                LET e == Boards!RankLeaderboard(metric, rs)[i] IN
                e.user \in UsersOf(rs) /\ e.value = MetricOfUser(metric, rs, e.user)
<1> DEFINE f == [u \in UsersOf(rs) |-> [user |-> u, value |-> MetricOfUser(metric, rs, u)]]
           valued == {f[u] : u \in UsersOf(rs)}
           E == {e \in valued : e.value > 0}
           R == {w \in E \X E : Boards!Ahead(w[1], w[2])}
           n == Cardinality(E)
<1>1. ASSUME NEW u \in UsersOf(rs)
      PROVE  u \in Users /\ MetricOfUser(metric, rs, u) \in Nat
  <2>1. {r \in rs : r.user = u} \in SUBSET Boards!Record /\ IsFiniteSet({r \in rs : r.user = u})
    BY FS_Subset
  <2> QED BY <2>1, ValueType DEF MetricOfUser, UsersOf, Boards!Record
<1>2. IsFiniteSet(UsersOf(rs))
  <2> DEFINE g == [r \in rs |-> r.user]
  <2>1. g \in [rs -> UsersOf(rs)] /\ \A u \in UsersOf(rs) : \E r \in rs : g[r] = u
    BY DEF UsersOf
  <2> HIDE DEF g
  <2> QED BY <2>1, FiniteImage
<1>3. IsFiniteSet(valued)
  <2>1. f \in [UsersOf(rs) -> valued] /\ \A e \in valued : \E u \in UsersOf(rs) : f[u] = e
    OBVIOUS
  <2> HIDE DEF valued, f
  <2> QED BY <1>2, <2>1, FiniteImage
<1>4. IsFiniteSet(E) /\ n \in Nat
  BY <1>3, FS_Subset, FS_CardinalityType
<1>5. ASSUME NEW e \in E
      PROVE  /\ e \in [user: Users, value: Nat] /\ e.user \in UsersOf(rs)
             /\ e.value = MetricOfUser(metric, rs, e.user)
             /\ e = f[e.user]
  BY <1>1
<1>6. \A e \in E : AnonymousName[e.user] \in Int /\ e.user \in Int /\ e.value \in Int
  <2>1. \A u \in Users : AnonymousName[u] \in Int /\ u \in Int
    BY DEF Boards!NameAssumption
  <2>2. \A e \in E : e.user \in Users /\ e.value \in Int
    <3> SUFFICES ASSUME NEW e \in E PROVE e.user \in Users /\ e.value \in Int
      OBVIOUS
    <3>1. e \in [user: Users, value: Nat]
      BY <1>5
    <3> HIDE DEF E
    <3> QED BY <3>1
  <2> QED BY <2>1, <2>2
<1>7. \A a, b \in E : a # b => a.user # b.user
  BY <1>5
<1> HIDE DEF E
<1>8. \A a, b \in E : <<a, b>> \in R <=> Boards!Ahead(a, b)
  OBVIOUS
<1>9. Orders(R, E)
  <2>1. \A a, b \in E : a # b => Boards!Ahead(a, b) \/ Boards!Ahead(b, a)
    BY <1>6, <1>7 DEF Boards!Ahead
  <2>2. \A a, b, c \in E : Boards!Ahead(a, b) /\ Boards!Ahead(b, c) => Boards!Ahead(a, c)
    BY <1>6 DEF Boards!Ahead
  <2>3. \A a \in E : ~ Boards!Ahead(a, a)
    BY <1>6 DEF Boards!Ahead
  <2> QED BY <1>8, <2>1, <2>2, <2>3 DEF Orders
<1>10. PICK s : InOrderOf(s, E, R)
  BY <1>4, <1>9, SortExists
<1>11. s \in [1..n -> E] /\ \A i, j \in 1..n : i < j => Boards!Ahead(s[i], s[j])
  BY <1>8, <1>10 DEF InOrderOf
<1>12. Boards!RankLeaderboard(metric, rs) = Boards!Sorted(E, Boards!Ahead)
  <2>1. valued = {[user |-> u, value |-> Boards!MetricValue(metric, {r \in rs : r.user = u})] :
                    u \in {r.user : r \in rs}}
    BY DEF MetricOfUser, UsersOf
  <2> QED BY <2>1 DEF Boards!RankLeaderboard, E
<1>13. Boards!Sorted(E, Boards!Ahead) \in [1..n -> E]
  <2>1. Boards!Cardinality(E) = n
    BY SameFinite
  <2> QED BY <1>11, <2>1 DEF Boards!Sorted
<1> QED BY <1>4, <1>5, <1>12, <1>13

(* A board lists users of its records with the values of their records.    *)
LEMMA AnswerLists ==
  ASSUME Boards!NameAssumption, Boards!TimeAssumption, NEW asked,
         asked.metric \in Boards!Metrics,
         NEW rs \in SUBSET Boards!Record, IsFiniteSet(rs), Boards!Answer(asked, rs)
  PROVE  /\ board'.asked = asked
         /\ \A e \in Boards!Listed :
              e.user \in UsersOf(rs) /\ e.value = MetricOfUser(asked.metric, rs, e.user)
<1> DEFINE ranked == Boards!RankLeaderboard(asked.metric, rs)
           k == IF Len(ranked) < Limit THEN Len(ranked) ELSE Limit
           Entry == [user: Users, value: Nat]
<1>1. PICK n \in Nat :
        /\ ranked \in [1..n -> Entry]
        /\ \A i \in 1..n : /\ ranked[i].user \in UsersOf(rs)
                           /\ ranked[i].value = MetricOfUser(asked.metric, rs, ranked[i].user)
  BY Ranked
<1>2. board'.asked = asked /\ board'.entries = SubSeq(ranked, 1, k)
  BY DEF Boards!Answer
<1> HIDE DEF ranked
<1>3. Len(ranked) = n
  BY <1>1
<1>4. k \in Nat /\ k <= n
  BY <1>1, <1>3 DEF Boards!TimeAssumption
<1> HIDE DEF k
<1>5. \A i \in 1..k : ranked[i] \in Entry
  BY <1>1, <1>4
<1>6. /\ SubSeq(ranked, 1, k) \in Seq(Entry) /\ Len(SubSeq(ranked, 1, k)) = k
      /\ \A i \in 1..k : SubSeq(ranked, 1, k)[i] = ranked[i]
  <2> HIDE DEF Entry
  <2>1. \A i \in 1..(k - 1 + 1) : SubSeq(ranked, 1, k)[i] = ranked[1 + i - 1]
    BY <1>4, <1>5, SubSeqProperties
  <2>2. SubSeq(ranked, 1, k) \in Seq(Entry)
    BY <1>4, <1>5, SubSeqProperties
  <2>3. Len(SubSeq(ranked, 1, k)) = IF 1 <= k THEN k - 1 + 1 ELSE 0
    BY <1>4, <1>5, SubSeqProperties
  <2>4. \A i \in 1..k : i \in 1..(k - 1 + 1) /\ 1 + i - 1 = i
    BY <1>4
  <2> QED BY <1>4, <2>1, <2>2, <2>3, <2>4
<1>7. DOMAIN board'.entries = 1..k
  BY <1>2, <1>6
<1>8. \A e \in Boards!Listed : \E i \in 1..n : e = ranked[i]
  BY <1>1, <1>2, <1>4, <1>6, <1>7 DEF Boards!Listed
<1> QED BY <1>1, <1>2, <1>8

-----------------------------------------------------------------------------
(* What holds between the steps *)

(* A board of streaks between its two reads: who is asked for has studied  *)
(* in the week, before the request.                                        *)
Pending(asked, rs, t) ==
  /\ asked.metric = "STREAK_DAYS" /\ asked.now \in Nat /\ asked.now <= t
  /\ \E x \in Nat : asked.week = Boards!StartOfWeek(x)
  /\ \A u \in asked.users : \E r \in Boards!InWeek(rs,
      asked.week) : r.user = u /\ r.start <= asked.now

(* The inductive invariant: with the types, that there are finitely many   *)
(* records, that nobody checked in later than now, and what a board        *)
(* between its two reads relies on.                                        *)
StatsInv ==
  /\ Boards!TypeOK
  /\ IsFiniteSet(records)
  /\ \A u \in Users : checkedInAt[u] # Null => checkedInAt[u] \in Nat /\ checkedInAt[u] <= now
  /\ request # Null => Pending(request, records, now)

(* Later, and with more records, that still holds.                         *)
LEMMA PendingStays ==
  ASSUME NEW asked, NEW rs, NEW rs2, rs \subseteq rs2, NEW t \in Int, NEW t2 \in Int, t <= t2,
         Pending(asked, rs, t)
  PROVE  Pending(asked, rs2, t2)
BY DEF Pending, Boards!InWeek

LEMMA InitStats == ASSUME Boards!TimeAssumption PROVE Boards!Init => StatsInv
<1> SUFFICES ASSUME Boards!Init PROVE StatsInv
  OBVIOUS
<1>1. Boards!TypeOK
  BY DEF Boards!Init, Boards!TypeOK, Boards!TimeAssumption
<1>2. IsFiniteSet(records)
  BY FS_EmptySet DEF Boards!Init
<1> QED BY <1>1, <1>2 DEF Boards!Init, StatsInv

(* The types, as the steps below cite them.                                *)
LEMMA StatsTypes ==
  ASSUME Boards!TimeAssumption, StatsInv
  PROVE  /\ now \in Nat /\ checkedInAt \in [Users -> Nat \cup {Null}]
         /\ records \in SUBSET Boards!Record /\ IsFiniteSet(records)
         /\ \A r \in records : r.start \in Nat /\ r.duration \in Nat /\ r.user \in Users
                              /\ r.start <= now
         /\ enabled \in [Users -> BOOLEAN]
BY DEF StatsInv, Boards!TypeOK, Boards!TimeAssumption, Boards!Record

LEMMA NextStats ==
  ASSUME Boards!TimeAssumption, StatsInv, [Boards!Next]_(Boards!vars)
  PROVE  StatsInv'
<1> USE StatsTypes
<1>1. CASE UNCHANGED Boards!vars
  BY <1>1 DEF Boards!vars, Boards!data, StatsInv, Boards!TypeOK, Pending, Boards!InWeek
<1>2. CASE Boards!Tick
  <2>1. now' \in MinTime..MaxTime /\ now <= now'
    BY <1>2 DEF Boards!Tick, StatsInv, Boards!TypeOK, Boards!TimeAssumption
  <2>2. Boards!TypeOK'
    BY <1>2, <2>1 DEF Boards!Tick, Boards!data, StatsInv, Boards!TypeOK,
        Boards!TimeAssumption, Boards!Record
  <2>3. request' # Null => Pending(request', records', now')
    BY <1>2, <2>1, PendingStays DEF Boards!Tick, Boards!data, StatsInv, Boards!TimeAssumption
  <2> QED BY <1>2, <2>1, <2>2, <2>3 DEF Boards!Tick, Boards!data, StatsInv,
             Boards!TimeAssumption
<1>3. CASE Boards!FindStreakRecords
  BY <1>3 DEF Boards!FindStreakRecords, Boards!data, StatsInv, Boards!TypeOK
<1>4. ASSUME NEW u \in Users, Boards!CheckIn(u) PROVE StatsInv'
  BY <1>4 DEF Boards!CheckIn, StatsInv, Boards!TypeOK, Boards!TimeAssumption
<1>5. ASSUME NEW u \in Users, Boards!UpdateLeaderboardPreference(u) PROVE StatsInv'
  BY <1>5 DEF Boards!UpdateLeaderboardPreference, StatsInv, Boards!TypeOK
<1>6. ASSUME NEW u \in Users, NEW marked \in BOOLEAN, Boards!UpsertFromReservation(u, marked)
      PROVE  StatsInv'
  <2> DEFINE new == [user |-> u, start |-> checkedInAt[u], duration |-> Boards!Duration(u),
                     validFlag |-> ~marked /\ Boards!Duration(u) >= Boards!MIN_VALID]
  <2>1. records' = records \cup {new} /\ UNCHANGED <<now, enabled, request>>
        /\ checkedInAt' = [checkedInAt EXCEPT ![u] = Null]
    BY <1>6 DEF Boards!UpsertFromReservation
  <2>2. checkedInAt[u] \in Nat /\ checkedInAt[u] <= now
    BY <1>6 DEF Boards!UpsertFromReservation, StatsInv
  <2>3. new \in Boards!Record /\ new.start + new.duration <= now
    BY <2>2 DEF Boards!Record, Boards!Duration
  <2> HIDE DEF new
  <2>4. Boards!TypeOK'
    BY <2>1, <2>3 DEF StatsInv, Boards!TypeOK
  <2>5. IsFiniteSet(records')
    BY <2>1, FS_AddElement
  <2>6. request' # Null => Pending(request', records', now')
    BY <2>1, PendingStays DEF StatsInv
  <2> QED BY <2>1, <2>4, <2>5, <2>6 DEF StatsInv, Boards!TypeOK
<1>7. ASSUME NEW u \in Users, NEW metric \in Boards!Metrics, NEW t \in MinTime..now,
             Boards!GetLeaderboard(u, metric, Boards!StartOfWeek(t))
      PROVE  StatsInv'
  <2> DEFINE week == Boards!StartOfWeek(t)
             eligible == Boards!Eligible(Boards!InWeek(records, week))
             asked == [me |-> u, metric |-> metric, week |-> week, now |-> now,
                       users |-> {r.user : r \in eligible}]
  <2>1. UNCHANGED <<now, checkedInAt, records, enabled>> /\ request = Null
        /\ (request' = request \/ (metric = "STREAK_DAYS" /\ request' = asked))
    BY <1>7 DEF Boards!GetLeaderboard, Boards!data
  <2>2. t \in Nat
    BY DEF Boards!TimeAssumption
  <2>3. \A v \in asked.users : \E r \in Boards!InWeek(records,
        week) : r.user = v /\ r.start <= now
    BY DEF Boards!Eligible, Boards!InWeek
  <2>4. metric = "STREAK_DAYS" => Pending(asked, records, now)
    BY <2>2, <2>3 DEF Pending
  <2> HIDE DEF asked
  <2>5. Boards!TypeOK' /\ IsFiniteSet(records')
    BY <2>1 DEF StatsInv, Boards!TypeOK
  <2>6. \A v \in Users : checkedInAt'[v] # Null => checkedInAt'[v] \in Nat /\ checkedInAt'[v] <= now'
    BY <2>1 DEF StatsInv
  <2>7. Pending(request', records, now) \/ request' = Null
    BY <2>1, <2>4
  <2>8. request' # Null => Pending(request', records', now')
    BY <2>1, <2>7
  <2> QED BY <2>5, <2>6, <2>8 DEF StatsInv
<1> QED BY <1>1, <1>2, <1>3, <1>4, <1>5, <1>6, <1>7 DEF Boards!Next

(* A board that is answered at once: of one week's records, and not of     *)
(* streaks unless there are none.                                          *)
OfWeek(asked, rs) ==
  /\ asked.metric \in Boards!Metrics /\ asked.now = now
  /\ rs = Boards!Eligible(Boards!InWeek(records, asked.week))
  /\ asked.metric = "STREAK_DAYS" => rs = {}

(* A board of streaks at its second read.                                  *)
OfStreaks(asked, rs) == Pending(asked, records, now) /\ rs = Boards!StreakEligible(asked)

(* What a step answers, it answers by one of them.                         *)
LEMMA Answers ==
  ASSUME Boards!TimeAssumption, Boards!NameAssumption, StatsInv, Boards!Next, Boards!Answered
  PROVE  \E asked, rs :
           /\ OfWeek(asked, rs) \/ OfStreaks(asked, rs)
           /\ board'.asked = asked
           /\ \A e \in Boards!Listed :
                e.user \in UsersOf(rs) /\ e.value = MetricOfUser(asked.metric, rs, e.user)
<1> USE StatsTypes
<1>1. CASE Boards!FindStreakRecords
  <2> DEFINE rs == Boards!StreakEligible(request)
  <2>1. Boards!Answer(request, rs) /\ Pending(request, records, now)
    BY <1>1 DEF Boards!FindStreakRecords, StatsInv
  <2>2. rs \in SUBSET records /\ IsFiniteSet(rs)
    <3>1. rs \in SUBSET records
      BY DEF Boards!StreakEligible, Boards!Eligible, Boards!StreakRecords
    <3> QED BY <3>1, FS_Subset
  <2>3. request.metric \in Boards!Metrics
    BY <2>1 DEF Pending, Boards!Metrics
  <2> HIDE DEF rs
  <2>4. rs \in SUBSET Boards!Record
    BY <2>2
  <2>5. /\ board'.asked = request
        /\ \A e \in Boards!Listed :
             e.user \in UsersOf(rs) /\ e.value = MetricOfUser(request.metric, rs, e.user)
    BY <2>1, <2>2, <2>3, <2>4, AnswerLists
  <2> QED BY <2>1, <2>5 DEF OfStreaks, rs
<1>2. ASSUME NEW u \in Users, NEW metric \in Boards!Metrics, NEW week,
             Boards!GetLeaderboard(u, metric, week)
      PROVE  \E asked, rs :
           /\ OfWeek(asked, rs)
           /\ board'.asked = asked
           /\ \A e \in Boards!Listed :
                e.user \in UsersOf(rs) /\ e.value = MetricOfUser(asked.metric, rs, e.user)
  <2> DEFINE rs == Boards!Eligible(Boards!InWeek(records, week))
             asked == [me |-> u, metric |-> metric, week |-> week, now |-> now,
                       users |-> {r.user : r \in rs}]
  <2>1. Boards!Answer(asked, rs) /\ (metric = "STREAK_DAYS" => rs = {})
    BY <1>2 DEF Boards!GetLeaderboard, Boards!Answered
  <2>2. rs \in SUBSET records /\ IsFiniteSet(rs)
    <3>1. rs \in SUBSET records
      BY DEF Boards!InWeek, Boards!Eligible
    <3> QED BY <3>1, FS_Subset
  <2>3. asked.metric = metric /\ asked.week = week /\ asked.now = now
    OBVIOUS
  <2> HIDE DEF rs, asked
  <2>4. rs \in SUBSET Boards!Record
    BY <2>2
  <2>5. /\ board'.asked = asked
        /\ \A e \in Boards!Listed :
             e.user \in UsersOf(rs) /\ e.value = MetricOfUser(asked.metric, rs, e.user)
    BY <2>1, <2>2, <2>3, <2>4, AnswerLists
  <2>6. OfWeek(asked, rs)
    BY <2>1, <2>3 DEF OfWeek, rs
  <2> QED BY <2>5, <2>6
<1>3. Boards!FindStreakRecords
      \/ \E u \in Users, metric \in Boards!Metrics : \E week : Boards!GetLeaderboard(u,
          metric, week)
  BY DEF Boards!Next, Boards!Answered, Boards!Tick, Boards!CheckIn,
      Boards!UpsertFromReservation, Boards!UpdateLeaderboardPreference
<1> QED BY <1>1, <1>2, <1>3

-----------------------------------------------------------------------------
(* Weeks *)

(* A week begins at midnight of its first local day and holds its instant. *)
LEMMA WeekHolds ==
  ASSUME NEW t \in Nat
  PROVE  /\ Boards!StartOfWeek(t) \in Int
         /\ Boards!StartOfWeek(t) <= t /\ t < Boards!StartOfWeek(t) + Boards!WEEK
         /\ Boards!StartOfWeek(t) = 3 * Boards!LocalDay(Boards!StartOfWeek(t)) - 1
         /\ Boards!LocalDay(Boards!StartOfWeek(t)) \in Int
BY Constants DEF Boards!StartOfWeek, Boards!LocalDay, Boards!UtcWeekday

-----------------------------------------------------------------------------
(* Properties *)

(* The steps that answer: who is listed takes part,                        *)
LEMMA NextOptOut ==
  ASSUME Boards!TimeAssumption, Boards!NameAssumption, StatsInv, Boards!Next, Boards!Answered
  PROVE  \A e \in Boards!Listed : enabled[e.user]
<1>1. PICK asked, rs :
        /\ OfWeek(asked, rs) \/ OfStreaks(asked, rs)
        /\ \A e \in Boards!Listed : e.user \in UsersOf(rs)
  BY Answers
<1>2. \A r \in rs : enabled[r.user]
  BY <1>1 DEF OfWeek, OfStreaks, Boards!StreakEligible, Boards!Eligible
<1> QED BY <1>1, <1>2 DEF UsersOf

(* has the value of his own statistics,                                    *)
LEMMA NextAgrees ==
  ASSUME Boards!TimeAssumption, Boards!NameAssumption, StatsInv, Boards!Next, Boards!Answered,
         board'.asked.week = Boards!StartOfWeek(board'.asked.now), NEW e \in Boards!Listed
  PROVE  e.value = Boards!MyStats(e.user, board'.asked.now)[board'.asked.metric]
<1> USE StatsTypes
<1>1. PICK asked, rs :
        /\ OfWeek(asked, rs) \/ OfStreaks(asked, rs)
        /\ board'.asked = asked
        /\ e.user \in UsersOf(rs) /\ e.value = MetricOfUser(asked.metric, rs, e.user)
  BY Answers
<1> DEFINE u == e.user
           mine == {r \in records : r.user = u /\ r.validFlag /\ r.start <= asked.now}
           own == {r \in rs : r.user = u}
<1>2. asked.metric \in Boards!Metrics /\ asked.now \in Nat /\ asked.week = Boards!StartOfWeek(asked.now)
  BY <1>1 DEF OfWeek, OfStreaks, Pending, Boards!Metrics
<1>3. Boards!MyStats(u, asked.now)[asked.metric] =
        Boards!MetricValue(asked.metric,
                    IF asked.metric = "STREAK_DAYS" THEN mine ELSE Boards!InWeek(mine,
                        asked.week))
  BY <1>2 DEF Boards!MyStats
<1>4. CASE OfWeek(asked, rs)
  <2>1. asked.metric # "STREAK_DAYS"
    BY <1>1, <1>4 DEF OfWeek, UsersOf
  <2>2. enabled[u] /\ u \in Students /\ asked.now = now
    BY <1>1, <1>4 DEF OfWeek, UsersOf, Boards!Eligible
  <2>3. own = Boards!InWeek(mine, asked.week)
    BY <1>4, <2>2 DEF OfWeek, Boards!Eligible, Boards!InWeek
  <2> QED BY <1>1, <1>3, <2>1, <2>3 DEF MetricOfUser
<1>5. CASE OfStreaks(asked, rs)
  <2>1. asked.metric = "STREAK_DAYS" /\ rs = Boards!StreakEligible(asked)
    BY <1>5 DEF OfStreaks, Pending
  <2>2. enabled[u] /\ u \in Students /\ u \in asked.users
    BY <1>1, <2>1 DEF UsersOf, Boards!StreakEligible, Boards!Eligible, Boards!StreakRecords
  <2>3. asked.now < asked.week + Boards!WEEK /\ asked.week \in Int
    BY <1>2, WeekHolds
  <2>4. \A r \in records : r.start <= asked.now => r.start < asked.week + Boards!WEEK
    BY <1>2, <2>3, Constants
  <2>5. own = mine
    BY <2>1, <2>2, <2>4 DEF Boards!StreakEligible, Boards!Eligible, Boards!StreakRecords
  <2> QED BY <1>1, <1>3, <2>1, <2>5 DEF MetricOfUser
<1> QED BY <1>1, <1>4, <1>5

(* and a streak that is the run of days of the week asked for.             *)
LEMMA NextStreak ==
  ASSUME Boards!TimeAssumption, Boards!NameAssumption, StatsInv, Boards!Next, Boards!Answered,
         board'.asked.metric = "STREAK_DAYS", NEW e \in Boards!Listed
  PROVE  LET asked == board'.asked
             last == Boards!LocalDay(asked.week) + 6
             days == Boards!Studied(e.user,
                 asked.week + Boards!WEEK) \cap Boards!Studied(e.user, asked.now + 1)
         IN  \E d \in (last - 6)..last :
               /\ (d - e.value + 1)..d \subseteq days
               /\ d - e.value \notin days /\ \A x \in days : x <= d
<1> USE StatsTypes
<1>1. PICK asked, rs :
        /\ OfWeek(asked, rs) \/ OfStreaks(asked, rs)
        /\ board'.asked = asked
        /\ e.user \in UsersOf(rs) /\ e.value = MetricOfUser(asked.metric, rs, e.user)
  BY Answers
<1> DEFINE u == e.user
           own == {r \in rs : r.user = u}
           last == Boards!LocalDay(asked.week) + 6
           before == asked.week + Boards!WEEK
           days == Boards!Studied(u, before) \cap Boards!Studied(u, asked.now + 1)
<1>2. OfStreaks(asked, rs) /\ asked.metric = "STREAK_DAYS"
  BY <1>1 DEF OfWeek, UsersOf
<1>3. /\ asked.now \in Nat /\ asked.week \in Int /\ Boards!LocalDay(asked.week) \in Int
      /\ asked.week = 3 * Boards!LocalDay(asked.week) - 1
  BY <1>2, WeekHolds DEF OfStreaks, Pending
<1>4. enabled[u] /\ u \in Students /\ u \in asked.users
  BY <1>1, <1>2 DEF OfStreaks, UsersOf, Boards!StreakEligible, Boards!Eligible,
      Boards!StreakRecords
<1>5. own = {r \in records : r.validFlag /\ r.user = u /\ r.start < before /\ r.start <= asked.now}
  BY <1>2, <1>4 DEF OfStreaks, Boards!StreakEligible, Boards!Eligible, Boards!StreakRecords
<1>6. PICK r0 \in own : asked.week <= r0.start
  <2>1. PICK r \in Boards!InWeek(records, asked.week) : r.user = u /\ r.start <= asked.now
    BY <1>2, <1>4 DEF OfStreaks, Pending
  <2>2. r \in own /\ asked.week <= r.start
    BY <1>5, <2>1 DEF Boards!InWeek
  <2> QED BY <2>2
<1>7. own \in SUBSET Boards!Record /\ IsFiniteSet(own) /\ own # {}
  <2>1. own \in SUBSET records
    BY <1>5
  <2> QED BY <1>6, <2>1, FS_Subset
<1>8. \A r \in own : r.start \in Nat /\ r.start < before /\ r.start <= asked.now
  BY <1>5
<1>9. days = {Boards!LocalDay(r.start) : r \in own}
  <2>1. Boards!Studied(u, before) \subseteq Boards!Studied(u, asked.now + 1)
        \/ Boards!Studied(u, asked.now + 1) \subseteq Boards!Studied(u, before)
    BY <1>3, Constants DEF Boards!Studied
  <2>2. {Boards!LocalDay(r.start) : r \in own} \subseteq days
    BY <1>3, <1>5 DEF Boards!Studied
  <2>3. CASE before <= asked.now + 1
    <3>1. Boards!Studied(u, before) \subseteq {Boards!LocalDay(r.start) : r \in own}
      BY <1>3, <1>5, <2>3, Constants DEF Boards!Studied
    <3> QED BY <2>2, <3>1
  <2>4. CASE asked.now + 1 < before
    <3>1. Boards!Studied(u, asked.now + 1) \subseteq {Boards!LocalDay(r.start) : r \in own}
      BY <1>3, <1>5, <2>4, Constants DEF Boards!Studied
    <3> QED BY <2>2, <3>1
  <2> QED BY <1>3, <2>3, <2>4, Constants
<1> HIDE DEF own, days
<1>10. e.value = Boards!StreakDays(own)
  BY <1>1, <1>2 DEF MetricOfUser, Boards!MetricValue, own
<1>11. e.value \in Nat
  BY <1>7, <1>10, ValueType DEF Boards!MetricValue, Boards!Metrics
<1>12. PICK top \in DaysOf(own) :
         /\ \A x \in DaysOf(own) : x <= top
         /\ \A k \in 0..(e.value - 1) : top - k * Boards!DAY \in DaysOf(own)
         /\ top - e.value * Boards!DAY \notin DaysOf(own)
  BY <1>7, <1>10, StreakIsRun
<1>13. \A x \in Int : x \in days <=> 3 * x - 1 \in DaysOf(own)
  BY <1>8, <1>9, Constants DEF DaysOf, Boards!ToDateKey, Boards!LocalDay
<1>14. PICK d \in Int : top = 3 * d - 1 /\ d \in days
  BY <1>8, <1>9, <1>12, Constants DEF DaysOf, Boards!ToDateKey, Boards!LocalDay
<1>15. days \subseteq Int
  BY <1>8, <1>9, Constants DEF Boards!LocalDay
<1>16. \A x \in days : x <= d
  <2> SUFFICES ASSUME NEW x \in days PROVE x <= d
    OBVIOUS
  <2>1. x \in Int
    BY <1>15
  <2>2. 3 * x - 1 \in DaysOf(own)
    BY <1>13, <2>1
  <2>3. 3 * x - 1 <= top
    BY <1>12, <2>2
  <2> QED BY <1>14, <2>1, <2>3
<1>17. d \in (last - 6)..last
  <2>1. Boards!LocalDay(r0.start) \in days /\ Boards!LocalDay(asked.week) <= Boards!LocalDay(r0.start)
    BY <1>3, <1>6, <1>8, <1>9, Constants DEF Boards!LocalDay
  <2>2. d <= last
    BY <1>3, <1>8, <1>9, <1>14, Constants DEF Boards!LocalDay
  <2> DEFINE w == Boards!LocalDay(asked.week)
             r1 == Boards!LocalDay(r0.start)
  <2>3. w \in Int /\ d \in Int /\ r1 \in Int
    BY <1>3, <1>14, <1>15, <2>1
  <2>4. w <= r1 /\ r1 <= d /\ d <= w + 6
    BY <1>16, <2>1, <2>2
  <2> HIDE DEF w, r1
  <2>5. d \in ((w + 6) - 6)..(w + 6)
    BY <2>3, <2>4
  <2> QED BY <2>5 DEF w
<1>18. (d - e.value + 1)..d \subseteq days
  <2> SUFFICES ASSUME NEW x \in (d - e.value + 1)..d PROVE x \in days
    OBVIOUS
  <2>1. d - x \in 0..(e.value - 1)
    BY <1>11
  <2>2. top - (d - x) * 3 = 3 * x - 1
    BY <1>14
  <2> QED BY <1>12, <1>13, <2>1, <2>2, Constants
<1>19. d - e.value \notin days
  <2>1. top - e.value * 3 = 3 * (d - e.value) - 1
    BY <1>11, <1>14
  <2> QED BY <1>11, <1>12, <1>13, <1>14, <2>1, Constants
<1> QED BY <1>1, <1>16, <1>17, <1>18, <1>19 DEF days

-----------------------------------------------------------------------------
(* The behaviours of MCAccounts                                            *)

(* Whatever the part, its logins are logins.                               *)
LEMMA LoginsAreLogins == AllSpec => Spec
<1>1. AllInit => Init
  BY DEF AllInit
<1>2. [AllNext]_all => [Next]_vars
  BY DEF AllNext, OidcNext, FirstNext, all, accounts
<1> QED BY <1>1, <1>2, PTL DEF AllSpec, Spec

BoardsInv == part = "boards" => StatsInv

(* StudyStats moves in its part and rests in the others.                   *)
LEMMA BoardStep ==
  ASSUME [AllNext]_all
  PROVE  /\ part' = part
         /\ part # "boards" => UNCHANGED Boards!vars
         /\ part = "boards" => [Boards!Next]_(Boards!vars)
BY DEF AllNext, all, studies, Boards!vars, Boards!data

LEMMA BoardsInvariance == AllSpec => []BoardsInv
<1>1. AllInit => BoardsInv
  BY InitStats, BoardAssumption DEF AllInit, BoardsInv
<1>2. BoardsInv /\ [AllNext]_all => BoardsInv'
  <2> SUFFICES ASSUME BoardsInv, [AllNext]_all, part' = "boards" PROVE StatsInv'
    BY DEF BoardsInv
  <2>1. part = "boards" /\ [Boards!Next]_(Boards!vars)
    BY BoardStep
  <2> QED BY <2>1, NextStats, BoardAssumption DEF BoardsInv
<1> QED BY <1>1, <1>2, PTL DEF AllSpec

(* The types of configuration, accounts, states, sessions and records in   *)
(* every state, and that no record ends later than now (auth.service.ts,   *)
(* users.service.ts, study-records.service.ts).                            *)
THEOREM TypesCorrect == AllSpec => []Types
<1>1. BoardsInv => (part = "boards" => Boards!TypeOK)
  BY DEF BoardsInv, StatsInv
<1>2. TypeOK /\ BoardsInv => Types
  BY <1>1 DEF Types
<1> QED BY <1>2, TypesInvariant, LoginsAreLogins, BoardsInvariance, PTL

(* A step that answers with a board is one of StudyStats.                  *)
LEMMA AnsweringStep ==
  ASSUME BoardsInv, [AllNext]_all, ~ UNCHANGED Boards!vars
  PROVE  StatsInv /\ Boards!Next
BY BoardStep DEF BoardsInv

(* Whoever has left the boards is listed on none, even when the preference *)
(* changes between the two reads a board of streaks is made from           *)
(* (getLeaderboard, findStreakRecordsForEligibleUsers).                    *)
THEOREM OptOutCorrect == AllSpec => OptOutRespected
<1>1. ASSUME BoardsInv, [AllNext]_all
      PROVE  [Boards!Answered => \A e \in Boards!Listed : enabled[e.user]]_(Boards!vars)
  BY <1>1, AnsweringStep, NextOptOut, BoardAssumption
<1> QED BY <1>1, BoardsInvariance, PTL DEF AllSpec, OptOutRespected, Boards!OptOutRespected

(* This week's board gives every user the value that the user's own        *)
(* statistics give at that moment, although it is computed from other      *)
(* reads, a board of streaks from two (getLeaderboard, getMyStats).        *)
THEOREM BoardsCorrect == AllSpec => BoardAgreesWithStats
<1>1. ASSUME BoardsInv, [AllNext]_all
      PROVE  [Boards!Answered /\ board'.asked.week = Boards!StartOfWeek(board'.asked.now)
              => \A e \in Boards!Listed :
                   e.value = Boards!MyStats(e.user,
                       board'.asked.now)[board'.asked.metric]]_(Boards!vars)
  BY <1>1, AnsweringStep, NextAgrees, BoardAssumption
<1> QED BY <1>1, BoardsInvariance, PTL
        DEF AllSpec, BoardAgreesWithStats, Boards!BoardAgreesWithStats

(* A listed streak is the run of days, ending in the week the board is of, *)
(* on which the user studied, and it is as long as that run: what was      *)
(* studied after that week does not change it (countStreakDays,            *)
(* findStreakRecordsForEligibleUsers).                                     *)
THEOREM StreaksCorrect == AllSpec => StreakOfItsWeek
<1>1. ASSUME BoardsInv, [AllNext]_all
      PROVE  [Boards!Answered /\ board'.asked.metric = "STREAK_DAYS"
              => \A e \in Boards!Listed :
                   LET asked == board'.asked
                       last == Boards!LocalDay(asked.week) + 6
                       days == Boards!Studied(e.user, asked.week + Boards!WEEK)
                                 \cap Boards!Studied(e.user, asked.now + 1)
                   IN  \E d \in (last - 6)..last :
                         /\ (d - e.value + 1)..d \subseteq days
                         /\ d - e.value \notin days /\ \A x \in days : x <= d]_(Boards!vars)
  <2> SUFFICES ASSUME ~ UNCHANGED Boards!vars, Boards!Answered,
                      board'.asked.metric = "STREAK_DAYS", NEW e \in Boards!Listed
               PROVE  LET asked == board'.asked
                          last == Boards!LocalDay(asked.week) + 6
                          days == Boards!Studied(e.user, asked.week + Boards!WEEK)
                                    \cap Boards!Studied(e.user, asked.now + 1)
                      IN  \E d \in (last - 6)..last :
                            /\ (d - e.value + 1)..d \subseteq days
                            /\ d - e.value \notin days /\ \A x \in days : x <= d
    OBVIOUS
  <2> QED BY <1>1, AnsweringStep, NextStreak, BoardAssumption
<1> QED BY <1>1, BoardsInvariance, PTL DEF AllSpec, StreakOfItsWeek, Boards!StreakOfItsWeek
=============================================================================
