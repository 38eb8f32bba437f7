----------------------------- MODULE ReportProofs -----------------------------
(***************************************************************************)
(* Theorems about HdrHistogram and WrkReport: how values are sorted into   *)
(* the counts of a histogram, what is recorded, merged and read from it,   *)
(* and that wrk's report is that of the latencies of its responses.        *)
(***************************************************************************)
EXTENDS WrkReport, NumberLemmas, FiniteSetTheorems

-----------------------------------------------------------------------------
(* Numbers: induction by sets, and the powers of two.                      *)

(* A set with 0 that has the successors of its numbers has all numbers.    *)
LEMMA AllNumbers ==
  ASSUME NEW T, 0 \in T, \A n \in Nat : n \in T => n + 1 \in T
  PROVE  \A n \in Nat : n \in T
<1> DEFINE Out == {n \in Nat : n \notin T}
<1> SUFFICES ASSUME Out # {} PROVE FALSE
  OBVIOUS
<1>1. PICK m \in Out : \A k \in Out : m <= k
  <2>1. Out \subseteq Nat
    OBVIOUS
  <2> QED BY <2>1, LeastNumber
<1>2. m # 0 /\ m - 1 \in Nat
  OBVIOUS
<1>3. m - 1 \in T
  BY <1>1, <1>2
<1>4. m - 1 + 1 \in T
  BY <1>2, <1>3
<1> QED BY <1>4

LEMMA PowerZero == 2 ^ 0 = 1
OBVIOUS

LEMMA PowerNext ==
  ASSUME NEW n \in Nat
  PROVE  /\ 2 ^ n \in Nat \ {0}
         /\ 2 ^ (n + 1) = 2 * 2 ^ n
<1> DEFINE A == SUBSET (1 .. n)
           B == {s \cup {n + 1} : s \in A}
           C == SUBSET (1 .. n + 1)
<1>1. IsFiniteSet(1 .. n) /\ Cardinality(1 .. n) = n /\ IsFiniteSet(1 .. n + 1) /\ Cardinality(1 .. n + 1) = n + 1
  BY FS_Interval
<1>2. IsFiniteSet(A) /\ Cardinality(A) = 2 ^ n /\ IsFiniteSet(C) /\ Cardinality(C) = 2 ^ (n + 1)
  BY <1>1, FS_SUBSET
<1>3. 2 ^ n \in Nat /\ 2 ^ n # 0
  BY <1>2, FS_CardinalityType, FS_EmptySet
<1>4. IsFiniteSet(B) /\ Cardinality(B) = 2 ^ n
  <2> DEFINE f == [s \in A |-> s \cup {n + 1}]
  <2>1. \A s, u \in A : s \cup {n + 1} = u \cup {n + 1} => s = u
    <3> TAKE s, u \in A
    <3>1. n + 1 \notin s /\ n + 1 \notin u
      OBVIOUS
    <3> QED BY <3>1
  <2>2. f \in [A -> B] /\ \A s \in A : f[s] = s \cup {n + 1}
    OBVIOUS
  <2>4. \A s, u \in A : f[s] = f[u] => s = u
    BY <2>1, <2>2
  <2>5. \A r \in B : \E s \in A : f[s] = r
    BY <2>2
  <2> HIDE DEF f
  <2>6. f \in Bijection(A, B)
    BY <2>2, <2>4, <2>5 DEF Bijection, Injection, Surjection, IsInjective
  <2>3. ExistsBijection(A, B)
    BY <2>6 DEF ExistsBijection
  <2> QED BY <1>2, <2>3, FS_Bijection
<1>5. A \cap B = {}
  OBVIOUS
<1>6. A \cup B = C
  <2>1. ASSUME NEW s \in C PROVE s \in A \cup B
    <3>1. CASE n + 1 \notin s
      BY <3>1
    <3>2. CASE n + 1 \in s
      <4>1. s \ {n + 1} \in A
        OBVIOUS
      <4>2. s = (s \ {n + 1}) \cup {n + 1}
        BY <3>2
      <4> QED BY <4>1, <4>2
    <3> QED BY <3>1, <3>2
  <2>2. ASSUME NEW s \in A \cup B PROVE s \in C
    OBVIOUS
  <2> QED BY <2>1, <2>2
<1> HIDE DEF A, B, C
<1>7. Cardinality(A \cup B) = Cardinality(A) + Cardinality(B) - Cardinality(A \cap B)
  BY <1>2, <1>4, FS_Union
<1>8. Cardinality(A \cap B) = 0
  BY <1>5, FS_EmptySet
<1>9. 2 ^ (n + 1) = 2 ^ n + 2 ^ n - 0
  BY <1>2, <1>4, <1>6, <1>7, <1>8
<1> QED BY <1>3, <1>9

LEMMA PowerAdd ==
  ASSUME NEW m \in Nat, NEW n \in Nat
  PROVE  2 ^ (m + n) = 2 ^ m * 2 ^ n
<1> DEFINE T == {k \in Nat : 2 ^ (m + k) = 2 ^ m * 2 ^ k}
<1>1. 0 \in T
  BY PowerZero, PowerNext
<1>2. ASSUME NEW k \in Nat, k \in T PROVE k + 1 \in T
  <2>1. m + (k + 1) = (m + k) + 1 /\ m + k \in Nat
    OBVIOUS
  <2>2. 2 ^ ((m + k) + 1) = 2 * 2 ^ (m + k) /\ 2 ^ (k + 1) = 2 * 2 ^ k /\ 2 ^ k \in Nat /\ 2 ^ m \in Nat
    BY <2>1, PowerNext
  <2>3. 2 ^ (m + k) = 2 ^ m * 2 ^ k
    BY <1>2
  <2>4. 2 * (2 ^ m * 2 ^ k) = 2 ^ m * (2 * 2 ^ k)
    BY <2>2
  <2> QED BY <2>1, <2>2, <2>3, <2>4
<1> HIDE DEF T
<1>3. n \in T
  BY <1>1, <1>2, AllNumbers
<1> QED BY <1>3 DEF T

LEMMA PowerOrder ==
  ASSUME NEW m \in Nat, NEW n \in Nat
  PROVE  /\ m <= n => 2 ^ m <= 2 ^ n
         /\ 2 ^ m < 2 ^ n => m < n
<1>1. ASSUME NEW a \in Nat, NEW b \in Nat, a <= b PROVE 2 ^ a <= 2 ^ b
  <2>1. b - a \in Nat /\ a + (b - a) = b
    BY <1>1
  <2>2. 2 ^ b = 2 ^ a * 2 ^ (b - a)
    BY <2>1, PowerAdd
  <2>3. 2 ^ a \in Nat \ {0} /\ 2 ^ (b - a) \in Nat \ {0}
    BY <2>1, PowerNext
  <2>4. \A x, y \in Nat \ {0} : x <= x * y
    OBVIOUS
  <2> QED BY <2>2, <2>3, <2>4
<1>2. 2 ^ m \in Nat /\ 2 ^ n \in Nat
  BY PowerNext
<1> QED BY <1>1, <1>2

LEMMA PowerAbove ==
  ASSUME NEW n \in Nat
  PROVE  n < 2 ^ n
<1> DEFINE T == {k \in Nat : k < 2 ^ k}
<1>1. 0 \in T
  BY PowerZero
<1>2. ASSUME NEW k \in Nat, k \in T PROVE k + 1 \in T
  BY <1>2, PowerNext
<1> HIDE DEF T
<1>3. n \in T
  BY <1>1, <1>2, AllNumbers
<1> QED BY <1>3 DEF T

LEMMA Scaled ==
  ASSUME NEW a \in Int, NEW b \in Int, NEW c \in Nat \ {0}
  PROVE  /\ a * c < b * c  => a < b
         /\ a * c <= b * c => a <= b
         /\ a <= b => a * c <= b * c
         /\ a < b  => a * c < b * c
<1>1. ASSUME NEW x \in Int, NEW y \in Int, x <= y PROVE x * c <= y * c
  <2>1. y * c = x * c + (y - x) * c
    OBVIOUS
  <2>2. y - x \in Nat
    BY <1>1
  <2>3. (y - x) * c \in Nat /\ x * c \in Int
    BY <2>2
  <2> QED BY <2>1, <2>3
<1>2. ASSUME NEW x \in Int, NEW y \in Int, x < y PROVE x * c < y * c
  <2>1. (x + 1) * c <= y * c
    BY <1>1, <1>2
  <2>2. (x + 1) * c = x * c + c
    OBVIOUS
  <2>3. x * c \in Int /\ y * c \in Int
    OBVIOUS
  <2> QED BY <2>1, <2>2, <2>3
<1>3. a * c \in Int /\ b * c \in Int
  OBVIOUS
<1> QED BY <1>1, <1>2, <1>3

(* The quotient is the only number of its kind.                            *)
LEMMA Quotient ==
  ASSUME NEW v \in Nat, NEW c \in Nat \ {0}
  PROVE  /\ v \div c \in Nat
         /\ (v \div c) * c <= v /\ v < (v \div c + 1) * c
         /\ \A q \in Int : q * c <= v /\ v < (q + 1) * c => q = v \div c
<1> DEFINE d == v \div c
<1>1. d \in Nat /\ v % c \in 0 .. c - 1
  <2>1. d \in Nat
    BY SMTT(30)
  <2> QED BY <2>1, ModRange
<1>2. v = d * c + (v % c)
  BY DivMod
<1>3. (d + 1) * c = d * c + c
  BY <1>1
<1>4. d * c \in Nat
  BY <1>1
<1> HIDE DEF d
<1>5. d * c <= v /\ v < (d + 1) * c
  BY <1>1, <1>2, <1>3, <1>4
<1>6. ASSUME NEW q \in Int, q * c <= v, v < (q + 1) * c PROVE q = d
  <2>1. q * c \in Int /\ (q + 1) * c \in Int /\ (d + 1) * c \in Int
    BY <1>1
  <2>2. q * c < (d + 1) * c /\ d * c < (q + 1) * c
    BY <1>4, <1>5, <1>6, <2>1
  <2>3. q < d + 1 /\ d < q + 1
    BY <1>1, <2>2, Scaled
  <2> QED BY <1>1, <2>3
<1> QED BY <1>1, <1>5, <1>6 DEF d

-----------------------------------------------------------------------------
(* The buckets of a histogram.                                             *)

(* Bits counts the binary digits of a number.                              *)
LEMMA BitsOf ==
  ASSUME NEW n \in Nat, NEW k \in Nat
  PROVE  Bits(n) \in Nat /\ (n < 2 ^ k <=> Bits(n) <= k)
<1>1. CASE n = 0
  BY <1>1, PowerNext DEF Bits
<1>2. CASE n # 0
  <2> DEFINE Over == {j \in Nat : n < 2 ^ j}
             Fits(j) == 2 ^ (j - 1) <= n /\ n < 2 ^ j
  <2>1. PICK m \in Over : \A j \in Over : m <= j
    <3>1. n \in Over
      BY PowerAbove
    <3>2. Over \subseteq Nat
      OBVIOUS
    <3> QED BY <3>1, <3>2, LeastNumber
  <2>2. m \in 1 .. n
    <3>1. m <= n
      BY <2>1, PowerAbove
    <3>2. m # 0
      <4>1. n < 2 ^ m
        BY <2>1
      <4>2. ~ (n < 1)
        BY <1>2
      <4> QED BY <4>1, <4>2, PowerZero
    <3> QED BY <2>1, <3>1, <3>2
  <2>3. m - 1 \in Nat /\ m - 1 \notin Over
    BY <2>1, <2>2
  <2>4. 2 ^ (m - 1) <= n
    BY <2>3, PowerNext
  <2>5. Bits(n) = CHOOSE j \in 1 .. n : Fits(j)
    BY <1>2 DEF Bits
  <2>6. Bits(n) \in 1 .. n /\ Fits(Bits(n))
    BY <2>1, <2>2, <2>4, <2>5
  <2> DEFINE b == Bits(n)
  <2> HIDE DEF b
  <2>7. b - 1 \in Nat /\ b \in Nat /\ 2 ^ (b - 1) <= n /\ n < 2 ^ b
    BY <2>6 DEF b
  <2>8. 2 ^ (b - 1) \in Nat /\ 2 ^ b \in Nat /\ 2 ^ k \in Nat
    BY <2>7, PowerNext
  <2>9. n < 2 ^ k => b <= k
    <3>1. n < 2 ^ k => 2 ^ (b - 1) < 2 ^ k
      BY <2>7, <2>8
    <3>2. 2 ^ (b - 1) < 2 ^ k => b - 1 < k
      BY <2>7, PowerOrder
    <3> QED BY <2>7, <3>1, <3>2
  <2>10. b <= k => n < 2 ^ k
    <3>1. b <= k => 2 ^ b <= 2 ^ k
      BY <2>7, PowerOrder
    <3> QED BY <2>7, <2>8, <3>1
  <2> QED BY <2>7, <2>9, <2>10 DEF b
<1> QED BY <1>1, <1>2

(* A unit of the bucket b, and the half of the sub-buckets.                *)
Scale(b) == 2 ^ (b + unit_magnitude)
Half == 2 ^ sub_bucket_half_count_magnitude

LEMMA Shape ==
  /\ unit_magnitude \in Nat /\ sub_bucket_half_count_magnitude \in Nat
  /\ Half \in Nat \ {0} /\ sub_bucket_half_count = Half /\ sub_bucket_count = 2 * Half
  /\ sub_bucket_mask = (2 * Half - 1) * 2 ^ unit_magnitude
  /\ Bits(sub_bucket_mask) = unit_magnitude + sub_bucket_half_count_magnitude + 1
<1> DEFINE M == sub_bucket_half_count_magnitude
           U == unit_magnitude
<1>1. U \in Nat
  <2>1. lowest_trackable_value \in Nat /\ ~ (lowest_trackable_value < 2 ^ 0)
    BY HdrAssumption, PowerZero
  <2>2. Bits(lowest_trackable_value) \in Nat /\ ~ (Bits(lowest_trackable_value) <= 0)
    BY <2>1, BitsOf
  <2> QED BY <2>2 DEF unit_magnitude
<1>2. M \in Nat
  <2>1. 10 ^ 1 = 10 /\ 10 ^ 2 = 100 /\ 10 ^ 3 = 1000 /\ 10 ^ 4 = 10000 /\ 10 ^ 5 = 100000
    OBVIOUS
  <2>2. significant_figures \in {1, 2, 3, 4, 5}
    BY HdrAssumption
  <2>3. 10 ^ significant_figures \in {10, 100, 1000, 10000, 100000}
    <3>1. CASE significant_figures = 1 BY <2>1, <3>1
    <3>2. CASE significant_figures = 2 BY <2>1, <3>2
    <3>3. CASE significant_figures = 3 BY <2>1, <3>3
    <3>4. CASE significant_figures = 4 BY <2>1, <3>4
    <3>5. CASE significant_figures = 5 BY <2>1, <3>5
    <3> QED BY <2>2, <3>1, <3>2, <3>3, <3>4, <3>5
  <2>4. largest_value_with_single_unit_resolution - 1 \in Nat
    BY <2>3 DEF largest_value_with_single_unit_resolution
  <2>5. sub_bucket_count_magnitude \in Nat
    BY <2>4, BitsOf DEF sub_bucket_count_magnitude
  <2> QED BY <2>5 DEF sub_bucket_half_count_magnitude, AtLeast
<1> HIDE DEF M, U
<1>3. Half \in Nat \ {0} /\ 2 ^ (M + 1) = 2 * Half
  BY <1>2, PowerNext DEF Half, M
<1>4. sub_bucket_count = 2 * Half
  BY <1>3 DEF sub_bucket_count, M
<1>5. sub_bucket_half_count = Half
  BY <1>3, <1>4 DEF sub_bucket_half_count
<1>6. sub_bucket_mask = (2 * Half - 1) * 2 ^ U
  BY <1>4 DEF sub_bucket_mask, U
<1>7. Bits(sub_bucket_mask) = U + M + 1
  <2> DEFINE P == 2 ^ U
             m == (2 * Half - 1) * P
  <2>1. P \in Nat \ {0}
    BY <1>1, PowerNext
  <2>2. 2 ^ (U + M) = Half * P /\ 2 ^ (U + M + 1) = (2 * Half) * P
    <3>1. 2 ^ (U + M) = P * Half
      BY <1>1, <1>2, PowerAdd DEF Half, M
    <3>2. 2 ^ ((U + M) + 1) = 2 * 2 ^ (U + M)
      <4>1. U + M \in Nat
        BY <1>1, <1>2
      <4> QED BY <4>1, PowerNext
    <3>3. P * Half = Half * P /\ 2 * (P * Half) = (2 * Half) * P
      BY <1>3, <2>1
    <3> QED BY <3>1, <3>2, <3>3
  <2> HIDE DEF P
  <2>3. Half * P <= m /\ m < (2 * Half) * P
    BY <1>3, <2>1, Scaled
  <2>4. m \in Nat
    BY <1>3, <2>1
  <2>5. m < 2 ^ (U + M + 1) /\ ~ (m < 2 ^ (U + M))
    <3>1. Half * P \in Nat
      BY <1>3, <2>1
    <3> QED BY <2>2, <2>3, <2>4, <3>1
  <2> HIDE DEF m
  <2>6. Bits(m) \in Nat /\ Bits(m) <= U + M + 1 /\ ~ (Bits(m) <= U + M)
    <3>1. U + M + 1 \in Nat /\ U + M \in Nat
      BY <1>1, <1>2
    <3> QED BY <2>4, <2>5, <3>1, BitsOf
  <2> QED BY <1>1, <1>2, <1>6, <2>6 DEF m, P
<1> QED BY <1>1, <1>2, <1>3, <1>4, <1>5, <1>6, <1>7 DEF M, U

LEMMA ScaleUp ==
  ASSUME NEW b \in Nat
  PROVE  /\ Scale(b) \in Nat \ {0} /\ Scale(b + 1) = 2 * Scale(b)
         /\ 2 ^ (b + unit_magnitude + sub_bucket_half_count_magnitude) = Half * Scale(b)
<1>1. b + unit_magnitude \in Nat /\ b + 1 + unit_magnitude = b + unit_magnitude + 1
  BY Shape
<1>2. 2 ^ (b + unit_magnitude + sub_bucket_half_count_magnitude) = Scale(b) * Half
  BY <1>1, Shape, PowerAdd DEF Half, Scale
<1>3. Scale(b) \in Nat \ {0} /\ Scale(b + 1) = 2 * Scale(b)
  BY <1>1, PowerNext DEF Scale
<1> QED BY <1>2, <1>3, Shape

(* A value below 2 * Half units of a bucket is in it or in one before.     *)
LEMMA BucketOf ==
  ASSUME NEW v \in Nat, NEW b \in Nat
  PROVE  /\ get_bucket_index(v) \in Nat
         /\ v < (2 * Half) * Scale(b) <=> get_bucket_index(v) <= b
<1> DEFINE D == unit_magnitude + sub_bucket_half_count_magnitude + 1
<1>1. D \in Nat /\ Bits(sub_bucket_mask) = D /\ Bits(v) \in Nat
  BY Shape, BitsOf
<1>2. get_bucket_index(v) = AtLeast(Bits(v), D) - D
  BY <1>1, Shape DEF get_bucket_index, AtLeast
<1>3. (2 * Half) * Scale(b) = 2 ^ (b + D)
  <2>1. b + unit_magnitude + sub_bucket_half_count_magnitude \in Nat
    BY Shape
  <2>2. 2 ^ (b + unit_magnitude + sub_bucket_half_count_magnitude + 1) = 2 * (Half * Scale(b))
    BY <2>1, PowerNext, ScaleUp
  <2>3. b + unit_magnitude + sub_bucket_half_count_magnitude + 1 = b + D
    BY Shape
  <2>4. 2 * (Half * Scale(b)) = (2 * Half) * Scale(b)
    BY Shape, ScaleUp
  <2> QED BY <2>2, <2>3, <2>4
<1> HIDE DEF D
<1>4. b + D \in Nat
  BY <1>1
<1>5. v < 2 ^ (b + D) <=> Bits(v) <= b + D
  BY <1>4, BitsOf
<1>6. get_bucket_index(v) \in Nat /\ (Bits(v) <= b + D <=> get_bucket_index(v) <= b)
  BY <1>1, <1>2 DEF AtLeast
<1> QED BY <1>3, <1>5, <1>6

(* The pairs of indices that are in use, and where a value lies.           *)
Pair(b, s) == b \in Nat /\ s \in 0 .. 2 * Half - 1 /\ (b = 0 \/ s >= Half)
Lies(v, b, s) == Pair(b, s) /\ s * Scale(b) <= v /\ v < (s + 1) * Scale(b)

LEMMA LiesIn ==
  ASSUME NEW v \in Nat
  PROVE  Lies(v, get_bucket_index(v), get_sub_bucket_index(v, get_bucket_index(v)))
<1> DEFINE b == get_bucket_index(v)
           c == Scale(b)
           s == v \div c
<1>1. b \in Nat /\ v < (2 * Half) * c
  <2>1. b \in Nat
    BY BucketOf
  <2> QED BY <2>1, BucketOf
<1>2. c \in Nat \ {0}
  BY <1>1, ScaleUp
<1>3. b # 0 => Half * c <= v
  <2> SUFFICES ASSUME b # 0 PROVE Half * c <= v
    OBVIOUS
  <2>1. b - 1 \in Nat /\ b - 1 + 1 = b
    BY <1>1
  <2>2. ~ (v < (2 * Half) * Scale(b - 1))
    BY <2>1, BucketOf
  <2>3. c = 2 * Scale(b - 1) /\ Scale(b - 1) \in Nat
    BY <2>1, ScaleUp
  <2>4. (2 * Half) * Scale(b - 1) = Half * c /\ Half * c \in Nat
    BY <2>3, Shape
  <2> QED BY <2>2, <2>4
<1>4. get_sub_bucket_index(v, b) = s
  BY DEF get_sub_bucket_index, Scale
<1> HIDE DEF b, c
<1>5. s \in Nat /\ s * c <= v /\ v < (s + 1) * c
  BY <1>2, Quotient
<1> HIDE DEF s
<1>6. s < 2 * Half
  <2>1. s * c < (2 * Half) * c
    <3>1. s * c \in Nat /\ (2 * Half) * c \in Nat
      BY <1>2, <1>5, Shape
    <3> QED BY <1>1, <1>5, <3>1
  <2> QED BY <1>2, <1>5, <2>1, Shape, Scaled
<1>7. b # 0 => s >= Half
  <2>1. b # 0 => Half * c < (s + 1) * c
    <3>1. (s + 1) * c \in Nat /\ Half * c \in Nat
      BY <1>2, <1>5, Shape
    <3> QED BY <1>3, <1>5, <3>1
  <2>2. b # 0 => Half < s + 1
    BY <1>2, <1>5, <2>1, Shape, Scaled
  <2> QED BY <1>5, <2>2, Shape
<1>8. Lies(v, b, s)
  BY <1>1, <1>5, <1>6, <1>7, Shape DEF Lies, Pair, c
<1> QED BY <1>4, <1>8 DEF b

LEMMA OnlyThere ==
  ASSUME NEW v \in Nat, NEW b, NEW s, Lies(v, b, s)
  PROVE  b = get_bucket_index(v) /\ s = get_sub_bucket_index(v, b)
<1> DEFINE c == Scale(b)
<1>1. b \in Nat /\ s \in Nat /\ s + 1 <= 2 * Half /\ (b = 0 \/ s >= Half)
  BY Shape DEF Lies, Pair
<1>2. c \in Nat \ {0} /\ s * c <= v /\ v < (s + 1) * c
  BY <1>1, ScaleUp DEF Lies
<1>3. s = get_sub_bucket_index(v, b)
  <2>1. s = v \div c
    BY <1>1, <1>2, Quotient
  <2> QED BY <2>1 DEF get_sub_bucket_index, Scale
<1>4. get_bucket_index(v) <= b
  <2>1. (s + 1) * c <= (2 * Half) * c
    BY <1>1, <1>2, Shape, Scaled
  <2>2. (s + 1) * c \in Nat /\ (2 * Half) * c \in Nat
    BY <1>1, <1>2, Shape
  <2>3. v < (2 * Half) * c
    BY <1>2, <2>1, <2>2
  <2> QED BY <1>1, <2>3, BucketOf
<1>5. b # 0 => ~ (get_bucket_index(v) <= b - 1)
  <2> SUFFICES ASSUME b # 0 PROVE ~ (get_bucket_index(v) <= b - 1)
    OBVIOUS
  <2>1. b - 1 \in Nat /\ b - 1 + 1 = b
    BY <1>1
  <2>2. c = 2 * Scale(b - 1) /\ Scale(b - 1) \in Nat
    BY <2>1, ScaleUp
  <2>3. (2 * Half) * Scale(b - 1) = Half * c
    BY <2>2, Shape
  <2>4. Half * c <= s * c
    BY <1>1, <1>2, Shape, Scaled
  <2>5. Half * c \in Nat /\ s * c \in Nat
    BY <1>1, <1>2, Shape
  <2>6. ~ (v < (2 * Half) * Scale(b - 1))
    BY <1>2, <2>3, <2>4, <2>5
  <2> QED BY <2>1, <2>6, BucketOf
<1>6. get_bucket_index(v) \in Nat
  BY <1>1, BucketOf
<1> QED BY <1>1, <1>3, <1>4, <1>5, <1>6

(* The index of a pair, and the pair of an index.                          *)
LEMMA IndexOfPair ==
  ASSUME NEW b, NEW s, Pair(b, s)
  PROVE  /\ counts_index(b, s) \in Nat /\ counts_index(b, s) = b * Half + s
         /\ BucketAt(counts_index(b, s)) = b /\ SubBucketAt(counts_index(b, s)) = s
<1> DEFINE i == counts_index(b, s)
<1>1. b \in Nat /\ s \in Nat /\ s < 2 * Half /\ (b = 0 \/ s >= Half) /\ b * Half \in Nat
  BY Shape DEF Pair
<1>2. i = (b + 1) * Half + (s - Half)
  BY Shape DEF counts_index
<1>3. (b + 1) * Half = b * Half + Half
  BY <1>1, Shape
<1> HIDE DEF i
<1>4. i = b * Half + s /\ i \in Nat
  BY <1>1, <1>2, <1>3, Shape
<1>5. CASE b = 0
  <2>1. i = s /\ i < sub_bucket_count
    BY <1>1, <1>4, <1>5, Shape
  <2> QED BY <1>4, <1>5, <2>1 DEF BucketAt, SubBucketAt, i
<1>6. CASE b # 0
  <2>1. 1 * Half <= b * Half
    BY <1>1, <1>6, Shape, Scaled
  <2>2. ~ (i < sub_bucket_count)
    BY <1>1, <1>4, <1>6, <2>1, Shape
  <2>3. ((b + 1) + 1) * Half = (b + 1) * Half + Half /\ (b + 1) * Half \in Nat
    BY <1>1, Shape
  <2>4. (b + 1) * Half <= i /\ i < ((b + 1) + 1) * Half
    BY <1>1, <1>2, <1>6, <2>3, Shape
  <2>5. i \div Half = b + 1
    <3>1. b + 1 \in Int
      BY <1>1
    <3> QED BY <1>4, <2>4, <3>1, Shape, Quotient
  <2>6. i = (b + 1) * Half + (i % Half) /\ i % Half \in Nat
    <3>1. i = (i \div Half) * Half + (i % Half)
      BY <1>4, Shape, DivMod
    <3>2. i % Half \in 0 .. Half - 1
      BY <1>4, Shape, ModRange
    <3> QED BY <2>5, <3>1, <3>2
  <2>7. i % Half = s - Half
    BY <1>1, <1>2, <2>3, <2>6, Shape
  <2> QED BY <1>1, <1>4, <2>2, <2>5, <2>7, Shape DEF BucketAt, SubBucketAt, i
<1> QED BY <1>5, <1>6

LEMMA PairOfIndex ==
  ASSUME NEW i \in Nat
  PROVE  Pair(BucketAt(i), SubBucketAt(i)) /\ counts_index(BucketAt(i), SubBucketAt(i)) = i
<1>1. CASE i < sub_bucket_count
  <2>1. BucketAt(i) = 0 /\ SubBucketAt(i) = i
    BY <1>1 DEF BucketAt, SubBucketAt
  <2>2. Pair(0, i)
    BY <1>1, Shape DEF Pair
  <2>3. counts_index(0, i) = 0 * Half + i
    BY <2>2, IndexOfPair
  <2> QED BY <2>1, <2>2, <2>3, Shape
<1>2. CASE ~ (i < sub_bucket_count)
  <2> DEFINE d == i \div Half
             r == i % Half
  <2>1. i = d * Half + r
    BY Shape, DivMod
  <2>2. r \in Nat /\ r < Half
    BY Shape, ModRange
  <2>3. d \in Nat /\ i < (d + 1) * Half
    BY Shape, Quotient
  <2>4. BucketAt(i) = d - 1 /\ SubBucketAt(i) = Half + r
    BY <1>2, Shape DEF BucketAt, SubBucketAt
  <2> HIDE DEF d, r
  <2>5. d >= 2
    <3>1. 2 * Half < (d + 1) * Half
      <4>1. (d + 1) * Half \in Nat
        BY <2>3, Shape
      <4> QED BY <1>2, <2>3, <4>1, Shape
    <3>2. 2 < d + 1
      BY <2>3, <3>1, Shape, Scaled
    <3> QED BY <2>3, <3>2
  <2>6. Pair(d - 1, Half + r)
    BY <2>2, <2>3, <2>5, Shape DEF Pair
  <2>7. counts_index(d - 1, Half + r) = (d - 1) * Half + (Half + r)
    BY <2>6, IndexOfPair
  <2>8. (d - 1) * Half = d * Half - Half /\ d * Half \in Nat
    BY <2>3, Shape
  <2> QED BY <2>1, <2>2, <2>4, <2>6, <2>7, <2>8, Shape
<1> QED BY <1>1, <1>2

(* What is computed of a value that lies in a pair of indices.             *)
LEMMA OfPair ==
  ASSUME NEW v \in Nat, NEW b, NEW s, Lies(v, b, s)
  PROVE  /\ counts_index_for(v) = counts_index(b, s)
         /\ lowest_equivalent_value(v) = s * Scale(b)
         /\ highest_equivalent_value(v) = (s + 1) * Scale(b) - 1
         /\ Recordable(v) <=> b < bucket_count
<1>1. get_bucket_index(v) = b /\ get_sub_bucket_index(v, b) = s
  BY OnlyThere
<1>2. b \in Nat /\ s \in Nat /\ s < sub_bucket_count /\ (b = 0 \/ s >= sub_bucket_half_count)
  BY Shape DEF Lies, Pair
<1>3. counts_index_for(v) = counts_index(b, s)
  BY <1>1 DEF counts_index_for
<1>4. lowest_equivalent_value(v) = s * Scale(b)
  BY <1>1 DEF lowest_equivalent_value, Scale
<1>5. size_of_equivalent_value_range(v) = Scale(b)
  <2>1. ~ (s >= sub_bucket_count)
    BY <1>2, Shape
  <2>2. size_of_equivalent_value_range(v) = 2 ^ (unit_magnitude + b + 0)
    BY <1>1, <2>1 DEF size_of_equivalent_value_range
  <2>3. unit_magnitude + b + 0 = b + unit_magnitude
    BY <1>2, Shape
  <2> QED BY <2>2, <2>3 DEF Scale
<1>6. (s + 1) * Scale(b) = s * Scale(b) + Scale(b)
  BY <1>2, ScaleUp
<1>7. highest_equivalent_value(v) = (s + 1) * Scale(b) - 1
  BY <1>4, <1>5, <1>6 DEF highest_equivalent_value, next_non_equivalent_value
<1>8. Recordable(v) <=> b < bucket_count
  BY <1>1, <1>2 DEF Recordable, InRange
<1> QED BY <1>3, <1>4, <1>7, <1>8

(* The range of a value, and the value of an index.                        *)
LEMMA RangeOf ==
  ASSUME NEW v \in Nat
  PROVE  /\ counts_index_for(v) \in Nat
         /\ lowest_equivalent_value(v) \in Nat /\ highest_equivalent_value(v) \in Nat
         /\ lowest_equivalent_value(v) <= v /\ v <= highest_equivalent_value(v)
         /\ value_from_index(counts_index_for(v)) = lowest_equivalent_value(v)
<1> DEFINE b == get_bucket_index(v)
           s == get_sub_bucket_index(v, b)
           c == Scale(b)
<1>1. Lies(v, b, s)
  BY LiesIn
<1> HIDE DEF b, s
<1>2. b \in Nat /\ s \in Nat /\ c \in Nat \ {0} /\ s * c <= v /\ v < (s + 1) * c /\ Pair(b, s)
  BY <1>1, Shape, ScaleUp DEF Lies, Pair
<1>3. /\ counts_index_for(v) = counts_index(b, s)
      /\ lowest_equivalent_value(v) = s * c
      /\ highest_equivalent_value(v) = (s + 1) * c - 1
  BY <1>1, OfPair
<1> HIDE DEF c
<1>4. s * c \in Nat /\ (s + 1) * c \in Nat
  BY <1>2
<1>5. counts_index_for(v) \in Nat /\ BucketAt(counts_index_for(v)) = b /\ SubBucketAt(counts_index_for(v)) = s
  BY <1>2, <1>3, IndexOfPair
<1>6. value_from_index(counts_index_for(v)) = s * c
  BY <1>5 DEF value_from_index, c, Scale
<1>7. s * c <= v /\ v <= (s + 1) * c - 1 /\ (s + 1) * c - 1 \in Nat
  BY <1>2, <1>4
<1> QED BY <1>3, <1>4, <1>5, <1>6, <1>7

LEMMA SameRange ==
  ASSUME NEW v \in Nat, NEW w \in Nat,
         lowest_equivalent_value(v) <= w, w <= highest_equivalent_value(v)
  PROVE  /\ counts_index_for(w) = counts_index_for(v)
         /\ lowest_equivalent_value(w) = lowest_equivalent_value(v)
         /\ highest_equivalent_value(w) = highest_equivalent_value(v)
<1> DEFINE b == get_bucket_index(v)
           s == get_sub_bucket_index(v, b)
           c == Scale(b)
<1>1. Lies(v, b, s)
  BY LiesIn
<1> HIDE DEF b, s
<1>2. b \in Nat /\ s \in Nat /\ c \in Nat \ {0}
  BY <1>1, Shape, ScaleUp DEF Lies, Pair
<1>3. /\ counts_index_for(v) = counts_index(b, s)
      /\ lowest_equivalent_value(v) = s * c
      /\ highest_equivalent_value(v) = (s + 1) * c - 1
  BY <1>1, OfPair
<1>4. s * c \in Nat /\ (s + 1) * c \in Nat
  BY <1>2
<1>5. s * c <= w /\ w < (s + 1) * c
  <2> HIDE DEF c
  <2> QED BY <1>3, <1>4
<1>6. Lies(w, b, s)
  BY <1>1, <1>5 DEF Lies
<1>7. /\ counts_index_for(w) = counts_index(b, s)
      /\ lowest_equivalent_value(w) = s * c
      /\ highest_equivalent_value(w) = (s + 1) * c - 1
  BY <1>6, OfPair
<1> QED BY <1>3, <1>7

LEMMA ValueOf ==
  ASSUME NEW i \in Nat
  PROVE  /\ value_from_index(i) \in Nat
         /\ counts_index_for(value_from_index(i)) = i
         /\ lowest_equivalent_value(value_from_index(i)) = value_from_index(i)
<1> DEFINE b == BucketAt(i)
           s == SubBucketAt(i)
           v == value_from_index(i)
<1>1. Pair(b, s) /\ counts_index(b, s) = i
  BY PairOfIndex
<1>2. v = s * Scale(b)
  BY DEF value_from_index, Scale
<1> HIDE DEF b, s
<1>3. b \in Nat /\ s \in Nat /\ Scale(b) \in Nat \ {0}
  BY <1>1, Shape, ScaleUp DEF Pair
<1>4. v \in Nat
  BY <1>2, <1>3
<1>5. Lies(v, b, s)
  <2>1. (s + 1) * Scale(b) = s * Scale(b) + Scale(b) /\ s * Scale(b) \in Nat
    BY <1>3
  <2> QED BY <1>1, <1>2, <1>3, <2>1 DEF Lies
<1> HIDE DEF v
<1>6. counts_index_for(v) = i /\ lowest_equivalent_value(v) = v
  BY <1>1, <1>2, <1>4, <1>5, OfPair
<1> QED BY <1>4, <1>6 DEF v

(* The indices keep the order of the values.                               *)
LEMMA IndexOrder ==
  ASSUME NEW v \in Nat, NEW w \in Nat, v <= w
  PROVE  counts_index_for(v) <= counts_index_for(w)
<1> DEFINE b == get_bucket_index(v)
           s == get_sub_bucket_index(v, b)
           d == get_bucket_index(w)
           r == get_sub_bucket_index(w, d)
<1>1. Lies(v, b, s) /\ Lies(w, d, r)
  BY LiesIn
<1>2. b <= d
  <2>1. b \in Nat /\ d \in Nat /\ w < (2 * Half) * Scale(d)
    <3>1. d \in Nat
      BY BucketOf
    <3> QED BY <3>1, BucketOf
  <2>2. (2 * Half) * Scale(d) \in Nat
    BY <2>1, Shape, ScaleUp
  <2>3. v < (2 * Half) * Scale(d)
    <3> HIDE DEF d
    <3> QED BY <2>1, <2>2
  <2> QED BY <2>1, <2>3, BucketOf
<1> HIDE DEF b, s, d, r
<1>3. /\ b \in Nat /\ s \in Nat /\ s < 2 * Half /\ (b = 0 \/ s >= Half)
      /\ d \in Nat /\ r \in Nat /\ r < 2 * Half /\ (d = 0 \/ r >= Half)
  BY <1>1, Shape DEF Lies, Pair
<1>4. /\ counts_index_for(v) = b * Half + s /\ b * Half \in Nat
      /\ counts_index_for(w) = d * Half + r /\ d * Half \in Nat
  <2>1. counts_index_for(v) = counts_index(b, s) /\ counts_index_for(w) = counts_index(d, r)
    BY <1>1, OfPair
  <2>2. Pair(b, s) /\ Pair(d, r)
    BY <1>1 DEF Lies
  <2>3. counts_index(b, s) = b * Half + s /\ counts_index(d, r) = d * Half + r
    BY <2>2, IndexOfPair
  <2>4. b * Half \in Nat /\ d * Half \in Nat
    BY <1>3, Shape
  <2> QED BY <2>1, <2>3, <2>4
<1>5. CASE b = d
  <2> DEFINE c == Scale(b)
  <2>1. c \in Nat \ {0} /\ s * c <= v /\ w < (r + 1) * c
    BY <1>1, <1>3, <1>5, ScaleUp DEF Lies
  <2> HIDE DEF c
  <2>2. s * c \in Nat /\ (r + 1) * c \in Nat
    BY <1>3, <2>1
  <2>3. s * c < (r + 1) * c
    BY <2>1, <2>2
  <2>4. s < r + 1
    BY <1>3, <2>1, <2>3, Scaled
  <2> QED BY <1>3, <1>4, <1>5, <2>4
<1>6. CASE b < d
  <2>1. (b + 1) * Half <= d * Half
    BY <1>3, <1>6, Shape, Scaled
  <2>2. (b + 1) * Half = b * Half + Half
    BY <1>3, Shape
  <2> QED BY <1>3, <1>4, <1>6, <2>1, <2>2, Shape
<1> QED BY <1>2, <1>3, <1>5, <1>6

(* A value is below the end of another's range when its index is no        *)
(* greater; and two values share their index when they share their range.  *)
LEMMA EndOrder ==
  ASSUME NEW v \in Nat, NEW w \in Nat
  PROVE  /\ v <= highest_equivalent_value(w) <=> counts_index_for(v) <= counts_index_for(w)
         /\ highest_equivalent_value(v) < highest_equivalent_value(w) <=> counts_index_for(v) < counts_index_for(w)
         /\ counts_index_for(v) = counts_index_for(w) <=> lowest_equivalent_value(v) = lowest_equivalent_value(w)
         /\ counts_index_for(v) = counts_index_for(w) => highest_equivalent_value(v) = highest_equivalent_value(w)
         /\ counts_index_for(highest_equivalent_value(v)) = counts_index_for(v)
<1> DEFINE end(x) == highest_equivalent_value(x)
           low(x) == lowest_equivalent_value(x)
           idx(x) == counts_index_for(x)
<1>1. \A x \in Nat : idx(x) \in Nat /\ low(x) \in Nat /\ end(x) \in Nat /\ low(x) <= x /\ x <= end(x)
  BY RangeOf
<1>2. \A x \in Nat : value_from_index(idx(x)) = low(x)
  BY RangeOf
<1>3. \A x, y \in Nat : low(x) <= y /\ y <= end(x) => idx(y) = idx(x) /\ low(y) = low(x) /\ end(y) = end(x)
  BY SameRange
<1>4. \A x, y \in Nat : x <= y => idx(x) <= idx(y)
  BY IndexOrder
<1> HIDE DEF end, low, idx
<1>5. \A x \in Nat : idx(end(x)) = idx(x) /\ idx(low(x)) = idx(x) /\ end(low(x)) = end(x)
  <2> TAKE x \in Nat
  <2>1. low(x) <= end(x) /\ end(x) <= end(x) /\ low(x) <= low(x) /\ end(x) \in Nat /\ low(x) \in Nat
    BY <1>1
  <2> QED BY <1>3, <2>1
<1>6. \A x, y \in Nat : idx(x) = idx(y) => low(x) = low(y)
  BY <1>2
<1>7. \A x, y \in Nat : low(x) = low(y) => idx(x) = idx(y) /\ end(x) = end(y)
  BY <1>5
<1>8. \A x, y \in Nat : x <= end(y) <=> idx(x) <= idx(y)
  <2> TAKE x, y \in Nat
  <2>1. CASE x <= end(y)
    BY <1>1, <1>4, <1>5, <2>1
  <2>2. CASE ~ (x <= end(y))
    <3>1. idx(y) <= idx(x)
      BY <1>1, <1>4, <1>5, <2>2
    <3>2. idx(y) # idx(x)
      BY <1>1, <1>6, <1>7, <2>2
    <3>3. idx(x) \in Nat /\ idx(y) \in Nat
      BY <1>1
    <3> QED BY <2>2, <3>1, <3>2, <3>3
  <2> QED BY <2>1, <2>2
<1>9. end(v) < end(w) <=> idx(v) < idx(w)
  <2>1. end(v) \in Nat /\ end(w) \in Nat /\ idx(v) \in Nat /\ idx(w) \in Nat
    BY <1>1
  <2>2. end(w) <= end(v) <=> idx(w) <= idx(v)
    BY <1>5, <1>8, <2>1
  <2> QED BY <2>1, <2>2
<1> QED BY <1>5, <1>6, <1>7, <1>8, <1>9 DEF end, low, idx

(* The precision of hdr_histogram.h: a range is no wider than the lowest   *)
(* trackable value, or narrower than its values by significant_figures     *)
(* decimal digits (counts_index_for of hdr_record_value, and the ends of   *)
(* ranges that wrk prints for percentiles).                                *)
THEOREM PrecisionKept ==
  ASSUME NEW v \in Nat
  PROVE  \/ highest_equivalent_value(v) - lowest_equivalent_value(v) < lowest_trackable_value
         \/ (highest_equivalent_value(v) - lowest_equivalent_value(v)) * 10 ^ significant_figures < v
<1> DEFINE b == get_bucket_index(v)
           s == get_sub_bucket_index(v, b)
           ten == 10 ^ significant_figures
           e == highest_equivalent_value(v) - lowest_equivalent_value(v)
           U == Scale(b)
<1>1. Lies(v, b, s)
  BY LiesIn
<1>2. b \in Nat /\ s \in Nat /\ (b = 0 \/ s >= Half) /\ s * U <= v
  BY <1>1, Shape DEF Lies, Pair
<1>3. U \in Nat \ {0} /\ Half \in Nat \ {0}
  BY <1>2, ScaleUp, Shape
<1>4. e = U - 1
  <2>1. lowest_equivalent_value(v) = s * U /\ highest_equivalent_value(v) = (s + 1) * U - 1
    BY <1>1, OfPair
  <2>2. (s + 1) * U = s * U + U
    BY <1>2, ScaleUp
  <2> DEFINE x == s * U
  <2>3. x \in Nat
    BY <1>2, <1>3
  <2> HIDE DEF x, b, s, U
  <2>4. lowest_equivalent_value(v) = x /\ highest_equivalent_value(v) = (x + U) - 1
    BY <2>1, <2>2 DEF x
  <2> QED BY <1>3, <2>3, <2>4
<1>5. ten \in Nat \ {0} /\ ten <= Half
  <2>1. 10 ^ 1 = 10 /\ 10 ^ 2 = 100 /\ 10 ^ 3 = 1000 /\ 10 ^ 4 = 10000 /\ 10 ^ 5 = 100000
    OBVIOUS
  <2>2. significant_figures \in {1, 2, 3, 4, 5}
    BY HdrAssumption
  <2>3. ten \in {10, 100, 1000, 10000, 100000}
    <3>1. CASE significant_figures = 1 BY <2>1, <3>1
    <3>2. CASE significant_figures = 2 BY <2>1, <3>2
    <3>3. CASE significant_figures = 3 BY <2>1, <3>3
    <3>4. CASE significant_figures = 4 BY <2>1, <3>4
    <3>5. CASE significant_figures = 5 BY <2>1, <3>5
    <3> QED BY <2>2, <3>1, <3>2, <3>3, <3>4, <3>5
  <2> HIDE DEF ten
  <2> DEFINE n == 2 * ten - 1
             m == sub_bucket_count_magnitude
  <2>4. n \in Nat /\ n >= 1
    BY <2>3
  <2>5. m = Bits(n)
    BY DEF sub_bucket_count_magnitude, largest_value_with_single_unit_resolution, ten
  <2> HIDE DEF n, m
  <2>6. m \in Nat /\ n < 2 ^ m /\ ~(m <= 0)
    <3>1. ~(n < 2 ^ 0)
      BY <2>4, PowerZero
    <3>2. Bits(n) \in Nat /\ ~(Bits(n) <= 0)
      BY <2>4, <3>1, BitsOf
    <3>3. n < 2 ^ Bits(n)
      BY <2>4, <3>2, BitsOf
    <3> QED BY <2>5, <3>2, <3>3
  <2>7. m = sub_bucket_half_count_magnitude + 1
    BY <2>6 DEF sub_bucket_half_count_magnitude, AtLeast, m
  <2>8. 2 ^ m = 2 * Half
    BY <2>7, Shape, PowerNext DEF Half
  <2>9. 2 * ten - 1 < 2 * Half
    BY <2>6, <2>8 DEF n
  <2> QED BY <1>3, <2>3, <2>9
<1>6. CASE b = 0
  <2>1. U = 2 ^ unit_magnitude
    BY <1>6, Shape DEF Scale
  <2>2. 2 ^ unit_magnitude <= lowest_trackable_value
    <3>1. lowest_trackable_value \in Nat /\ unit_magnitude \in Nat /\ unit_magnitude = Bits(lowest_trackable_value) - 1
      BY HdrAssumption, Shape DEF unit_magnitude
    <3>2. Bits(lowest_trackable_value) \in Nat /\ ~(Bits(lowest_trackable_value) <= unit_magnitude)
      BY <3>1, BitsOf
    <3>3. ~(lowest_trackable_value < 2 ^ unit_magnitude)
      BY <3>1, <3>2, BitsOf
    <3> QED BY <3>1, <3>3, PowerNext
  <2>3. e < lowest_trackable_value
    BY <1>3, <1>4, <2>1, <2>2, HdrAssumption
  <2> QED BY <2>3
<1>7. CASE b # 0
  <2> HIDE DEF b, s, U, e, ten
  <2>1. ten <= s
    BY <1>2, <1>3, <1>5, <1>7
  <2>2. ten * U <= s * U
    BY <1>2, <1>3, <1>5, <2>1, Scaled
  <2>3. e * ten < ten * U
    <3>1. e \in Int /\ e < U
      BY <1>3, <1>4
    <3>2. e * ten < U * ten
      BY <1>3, <1>5, <3>1, Scaled
    <3>3. U * ten = ten * U
      BY <1>3, <1>5
    <3> QED BY <3>2, <3>3
  <2> DEFINE x == e * ten
             y == ten * U
             z == s * U
  <2>4. x \in Int /\ y \in Int /\ z \in Int /\ x < y /\ y <= z /\ z <= v
    BY <1>2, <1>3, <1>4, <1>5, <2>2, <2>3
  <2> HIDE DEF x, y, z
  <2>5. x < v
    BY <2>4
  <2> QED BY <2>5 DEF x, e, ten
<1> QED BY <1>6, <1>7

(* hdr_init: the buckets reach to the highest trackable value, and there   *)
(* is a count for every value in them.                                     *)
LEMMA Trackable ==
  /\ bucket_count \in Nat \ {0} /\ counts_len \in Nat \ {0}
  /\ \A v \in Nat : v <= highest_trackable_value => Recordable(v)
  /\ \A v \in Nat : Recordable(v) <=> counts_index_for(v) < counts_len
<1> DEFINE H == highest_trackable_value
           m == sub_bucket_mask
           Fits(n) == /\ m * 2 ^ n >= H
                      /\ n = 0 \/ m * 2 ^ (n - 1) < H
           last == bucket_count - 1
<1>1. H \in Nat /\ m \in Nat \ {0}
  <2>1. 2 * Half - 1 \in Nat \ {0} /\ 2 ^ unit_magnitude \in Nat \ {0}
    BY Shape, PowerNext
  <2>2. \A x, y \in Nat \ {0} : x * y \in Nat \ {0}
    OBVIOUS
  <2> QED BY <2>1, <2>2, HdrAssumption, Shape
<1>2. \E n \in 0 .. H : Fits(n)
  <2> DEFINE Over == {n \in Nat : m * 2 ^ n >= H}
  <2>1. H \in Over
    <3>1. 2 ^ H \in Nat /\ H < 2 ^ H
      BY <1>1, PowerNext, PowerAbove
    <3>2. \A x \in Nat \ {0}, y \in Nat : x * y >= y
      OBVIOUS
    <3> QED BY <1>1, <3>1, <3>2
  <2>2. PICK n \in Over : \A k \in Over : n <= k
    <3>1. Over \subseteq Nat
      OBVIOUS
    <3> QED BY <2>1, <3>1, LeastNumber
  <2>3. n # 0 => m * 2 ^ (n - 1) < H
    <3> SUFFICES ASSUME n # 0 PROVE m * 2 ^ (n - 1) < H
      OBVIOUS
    <3>1. n - 1 \in Nat /\ n - 1 \notin Over
      BY <2>2
    <3>2. m * 2 ^ (n - 1) \in Nat
      BY <1>1, <3>1, PowerNext
    <3> QED BY <1>1, <3>1, <3>2
  <2> QED BY <1>1, <2>1, <2>2, <2>3
<1>3. last \in 0 .. H /\ Fits(last)
  <2> DEFINE n == CHOOSE n \in 0 .. H : Fits(n)
  <2>1. bucket_count = 1 + n
    BY DEF bucket_count
  <2>2. n \in 0 .. H /\ Fits(n)
    <3> HIDE DEF Fits
    <3> QED BY <1>2
  <2>3. last = n
    <3>1. n \in Nat
      BY <1>1, <2>2
    <3> HIDE DEF n
    <3> QED BY <2>1, <3>1
  <2> QED BY <2>2, <2>3
<1>4. bucket_count = last + 1 /\ last \in Nat /\ bucket_count \in Nat \ {0}
  <2>1. bucket_count = 1 + CHOOSE n \in 0 .. H : Fits(n)
    BY DEF bucket_count
  <2>2. (CHOOSE n \in 0 .. H : Fits(n)) \in Nat
    <3> HIDE DEF Fits
    <3> QED BY <1>1, <1>2
  <2> HIDE DEF Fits
  <2> QED BY <2>1, <2>2
<1> HIDE DEF last
<1>5. counts_len = bucket_count * Half + Half /\ bucket_count * Half \in Nat
  BY <1>4, Shape DEF counts_len
<1>6. \A v \in Nat : Recordable(v) <=> get_bucket_index(v) < bucket_count
  BY LiesIn, OfPair
<1>7. ASSUME NEW v \in Nat, v <= H PROVE Recordable(v)
  <2>1. v <= m * 2 ^ last
    <3>1. m * 2 ^ last \in Nat
      BY <1>1, <1>4, PowerNext
    <3> QED BY <1>1, <1>3, <1>7, <3>1
  <2>2. m * 2 ^ last = (2 * Half - 1) * Scale(last)
    <3>1. Scale(last) = 2 ^ last * 2 ^ unit_magnitude
      BY <1>4, Shape, PowerAdd DEF Scale
    <3>2. 2 ^ last \in Nat /\ 2 ^ unit_magnitude \in Nat
      BY <1>4, Shape, PowerNext
    <3>3. m = (2 * Half - 1) * 2 ^ unit_magnitude
      BY Shape
    <3>4. \A x, y, z \in Int : (x * y) * z = x * (z * y)
      OBVIOUS
    <3> QED BY <3>1, <3>2, <3>3, <3>4, Shape
  <2>3. (2 * Half - 1) * Scale(last) < (2 * Half) * Scale(last)
    BY <1>4, Shape, ScaleUp, Scaled
  <2>4. (2 * Half - 1) * Scale(last) \in Nat /\ (2 * Half) * Scale(last) \in Nat
    <3>1. 2 * Half - 1 \in Nat /\ 2 * Half \in Nat /\ Scale(last) \in Nat
      BY <1>4, Shape, ScaleUp
    <3>2. \A x, y \in Nat : x * y \in Nat
      OBVIOUS
    <3> QED BY <3>1, <3>2
  <2>5. v < (2 * Half) * Scale(last)
    BY <2>1, <2>2, <2>3, <2>4
  <2>6. get_bucket_index(v) \in Nat /\ get_bucket_index(v) <= last
    BY <1>4, <2>5, BucketOf
  <2> QED BY <1>4, <1>6, <2>6
<1>8. ASSUME NEW v \in Nat PROVE Recordable(v) <=> counts_index_for(v) < counts_len
  <2> DEFINE b == get_bucket_index(v)
             s == get_sub_bucket_index(v, b)
  <2>1. Pair(b, s) /\ counts_index_for(v) = counts_index(b, s)
    BY LiesIn, OfPair DEF Lies
  <2> HIDE DEF b, s
  <2>2. b \in Nat /\ s \in Nat /\ s < 2 * Half /\ (b = 0 \/ s >= Half) /\ b * Half \in Nat
    BY <2>1, Shape DEF Pair
  <2>3. counts_index_for(v) = b * Half + s
    BY <2>1, IndexOfPair
  <2>4. b < bucket_count => counts_index_for(v) < counts_len
    <3> SUFFICES ASSUME b < bucket_count PROVE counts_index_for(v) < counts_len
      OBVIOUS
    <3>1. (b + 1) * Half <= bucket_count * Half
      BY <1>4, <2>2, Shape, Scaled
    <3>2. (b + 1) * Half = b * Half + Half
      BY <2>2, Shape
    <3> QED BY <1>5, <2>2, <2>3, <3>1, <3>2, Shape
  <2>5. ~ (b < bucket_count) => ~ (counts_index_for(v) < counts_len)
    <3> SUFFICES ASSUME ~ (b < bucket_count) PROVE ~ (counts_index_for(v) < counts_len)
      OBVIOUS
    <3>1. bucket_count * Half <= b * Half
      BY <1>4, <2>2, Shape, Scaled
    <3>2. s >= Half
      BY <1>4, <2>2
    <3> QED BY <1>5, <2>2, <2>3, <3>1, <3>2, Shape
  <2> QED BY <1>6, <2>4, <2>5 DEF b
<1>9. counts_len \in Nat \ {0}
  BY <1>4, <1>5, Shape
<1> QED BY <1>4, <1>7, <1>8, <1>9

-----------------------------------------------------------------------------
(* Folds over finite sets.  They are defined by functions of themselves:   *)
(* that there is such a function is shown for sets of growing size.        *)
Less(s, x) == s \ {x}

FoldTable(D, V, base, pick, step) ==
  CHOOSE g \in [SUBSET D -> V] : \A s \in SUBSET D :
    g[s] = IF s = {} THEN base ELSE step[pick[s]][g[s \ {pick[s]}]]

Foldable(D, V, base, pick, step) ==
  /\ IsFiniteSet(D) /\ base \in V
  /\ \A s \in SUBSET D : s # {} => pick[s] \in s
  /\ step \in [D -> [V -> V]]

LEMMA FoldExists ==
  ASSUME NEW D, NEW V, NEW base, NEW pick, NEW step, Foldable(D, V, base, pick, step)
  PROVE  /\ \A s \in SUBSET D : FoldTable(D, V, base, pick, step)[s] \in V
         /\ FoldTable(D, V, base, pick, step)[{}] = base
         /\ \A s \in SUBSET D : s # {} => FoldTable(D, V, base, pick, step)[s] =
              step[pick[s]][FoldTable(D, V, base, pick, step)[Less(s, pick[s])]]
<1> DEFINE Fold(g, s) == IF s = {} THEN base ELSE step[pick[s]][g[s \ {pick[s]}]]
           T == {n \in Nat : \E g \in [SUBSET D -> V] : \A s \in SUBSET D :
                               Cardinality(s) <= n => g[s] = Fold(g, s)}
<1>0. /\ IsFiniteSet(D) /\ base \in V /\ step \in [D -> [V -> V]]
      /\ \A s \in SUBSET D : s # {} => pick[s] \in s
  BY DEF Foldable
<1> USE <1>0
<1>1. \A s \in SUBSET D : IsFiniteSet(s) /\ Cardinality(s) \in Nat /\ (Cardinality(s) = 0 <=> s = {})
  BY FS_Subset, FS_CardinalityType, FS_EmptySet
<1>2. \A s \in SUBSET D : s # {} => /\ s \ {pick[s]} \in SUBSET D
                                    /\ Cardinality(s \ {pick[s]}) = Cardinality(s) - 1
  BY <1>1, FS_RemoveElement
<1>3. \A g \in [SUBSET D -> V], s \in SUBSET D : Fold(g, s) \in V
  <2> TAKE g \in [SUBSET D -> V], s \in SUBSET D
  <2>1. CASE s = {}
    BY <2>1
  <2>2. CASE s # {}
    <3>1. pick[s] \in D /\ g[s \ {pick[s]}] \in V
      BY <1>2, <2>2
    <3> QED BY <2>2, <3>1
  <2> QED BY <2>1, <2>2
<1> HIDE DEF Fold
<1>4. 0 \in T
  <2>1. [s \in SUBSET D |-> base] \in [SUBSET D -> V]
    OBVIOUS
  <2>2. \A s \in SUBSET D : Cardinality(s) <= 0 => [x \in SUBSET D |-> base][s] = Fold([x \in SUBSET D |-> base], s)
    BY <1>1 DEF Fold
  <2> QED BY <2>1, <2>2
<1>5. ASSUME NEW n \in Nat, n \in T PROVE n + 1 \in T
  <2>1. PICK g \in [SUBSET D -> V] : \A s \in SUBSET D : Cardinality(s) <= n => g[s] = Fold(g, s)
    BY <1>5
  <2> DEFINE h == [s \in SUBSET D |-> Fold(g, s)]
  <2>2. h \in [SUBSET D -> V] /\ \A s \in SUBSET D : h[s] = Fold(g, s)
    BY <1>3
  <2> HIDE DEF h
  <2>3. ASSUME NEW s \in SUBSET D, Cardinality(s) <= n + 1 PROVE h[s] = Fold(h, s)
    <3>1. CASE s = {}
      BY <2>2, <3>1 DEF Fold
    <3>2. CASE s # {}
      <4>1. s \ {pick[s]} \in SUBSET D /\ Cardinality(s \ {pick[s]}) <= n
        BY <1>1, <1>2, <2>3, <3>2
      <4>2. h[s \ {pick[s]}] = g[s \ {pick[s]}]
        BY <2>1, <2>2, <4>1
      <4> QED BY <2>2, <4>2 DEF Fold
    <3> QED BY <3>1, <3>2
  <2> QED BY <2>2, <2>3
<1> HIDE DEF T
<1>6. Cardinality(D) \in Nat /\ \A s \in SUBSET D : Cardinality(s) <= Cardinality(D)
  BY <1>1, FS_Subset
<1>7. Cardinality(D) \in T
  BY <1>4, <1>5, <1>6, AllNumbers
<1>8. PICK g \in [SUBSET D -> V] : \A s \in SUBSET D : Cardinality(s) <= Cardinality(D) => g[s] = Fold(g, s)
  BY <1>7 DEF T
<1> DEFINE h == FoldTable(D, V, base, pick, step)
<1>9. h \in [SUBSET D -> V] /\ \A s \in SUBSET D : h[s] = Fold(h, s)
  BY <1>6, <1>8 DEF Fold, FoldTable
<1> HIDE DEF h
<1>10. h[{}] = base /\ \A s \in SUBSET D : s # {} => h[s] = step[pick[s]][h[Less(s, pick[s])]]
  BY <1>9 DEF Fold, Less
<1> QED BY <1>9, <1>10 DEF h

(* What is true of no elements, and of a set when it is true of the set    *)
(* without any one of its elements, is true of a finite set.               *)
LEMMA OneByOne ==
  ASSUME NEW D, IsFiniteSet(D), NEW P, {} \in P,
         \A s \in SUBSET D : s # {} /\ (\A x \in s : s \ {x} \in P) => s \in P
  PROVE  D \in P
<1> DEFINE T == {n \in Nat : \A s \in SUBSET D : Cardinality(s) = n => s \in P}
<1>1. \A s \in SUBSET D : IsFiniteSet(s) /\ Cardinality(s) \in Nat /\ (Cardinality(s) = 0 <=> s = {})
  BY FS_Subset, FS_CardinalityType, FS_EmptySet
<1>2. 0 \in T
  BY <1>1
<1>3. ASSUME NEW n \in Nat, n \in T PROVE n + 1 \in T
  <2> SUFFICES ASSUME NEW s \in SUBSET D, Cardinality(s) = n + 1 PROVE s \in P
    OBVIOUS
  <2>1. s # {}
    BY <1>1
  <2>2. ASSUME NEW x \in s PROVE s \ {x} \in P
    <3>1. Cardinality(s \ {x}) = Cardinality(s) - 1
      BY <1>1, FS_RemoveElement
    <3>2. s \ {x} \in SUBSET D /\ Cardinality(s \ {x}) = n
      BY <3>1
    <3> QED BY <1>3, <3>2
  <2> QED BY <2>1, <2>2
<1> HIDE DEF T
<1>4. Cardinality(D) \in T
  BY <1>1, <1>2, <1>3, AllNumbers
<1> QED BY <1>4 DEF T

(* Sums.                                                                   *)
Pick(s) == CHOOSE x \in s : TRUE

SumTable(f, D) ==
  CHOOSE g : g = [s \in SUBSET D |-> IF s = {} THEN 0 ELSE f[Pick(s)] + g[s \ {Pick(s)}]]

LEMMA SumIsFold ==
  ASSUME NEW D, NEW f
  PROVE  SumFunctionOnSet(f, D) = SumTable(f, D)[D]
BY DEF SumFunctionOnSet, FoldFunctionOnSet, MapThenFoldSet, Pick, SumTable

LEMMA SumTableOf ==
  ASSUME NEW D, IsFiniteSet(D), NEW f, \A x \in D : f[x] \in Nat
  PROVE  /\ \A s \in SUBSET D : SumTable(f, D)[s] \in Nat
         /\ SumTable(f, D)[{}] = 0
         /\ \A s \in SUBSET D : s # {} => SumTable(f, D)[s] = f[Pick(s)] + SumTable(f, D)[Less(s, Pick(s))]
<1> DEFINE Fold(g, s) == IF s = {} THEN 0 ELSE f[Pick(s)] + g[s \ {Pick(s)}]
           pick == [s \in SUBSET D |-> Pick(s)]
           step == [x \in D |-> [n \in Nat |-> f[x] + n]]
<1>1. \A s \in SUBSET D : s # {} => pick[s] = Pick(s) /\ Pick(s) \in s
  BY DEF Pick
<1>2. step \in [D -> [Nat -> Nat]]
  OBVIOUS
<1>3. \A x \in D, n \in Nat : step[x][n] = f[x] + n
  OBVIOUS
<1> HIDE DEF pick, step
<1> DEFINE k == FoldTable(D, Nat, 0, pick, step)
           h == [s \in SUBSET D |-> k[s]]
<1>4. /\ \A s \in SUBSET D : k[s] \in Nat
      /\ k[{}] = 0
      /\ \A s \in SUBSET D : s # {} => k[s] = step[pick[s]][k[Less(s, pick[s])]]
  <2>1. \A s \in SUBSET D : s # {} => pick[s] \in s
    BY <1>1
  <2>2. 0 \in Nat
    OBVIOUS
  <2>3. Foldable(D, Nat, 0, pick, step)
    BY <1>2, <2>1, <2>2 DEF Foldable
  <2> QED BY <2>3, FoldExists
<1> HIDE DEF k
<1>5. ASSUME NEW s \in SUBSET D PROVE h[s] = Fold(h, s)
  <2>1. CASE s = {}
    BY <1>4, <2>1
  <2>2. CASE s # {}
    <3>1. pick[s] = Pick(s) /\ Pick(s) \in D /\ s \ {Pick(s)} \in SUBSET D
      BY <1>1, <2>2
    <3>2. h[s] = step[Pick(s)][h[s \ {Pick(s)}]] /\ h[s \ {Pick(s)}] \in Nat
      BY <1>4, <2>2, <3>1 DEF Less
    <3> QED BY <1>3, <2>2, <3>1, <3>2
  <2> QED BY <2>1, <2>2
<1> DEFINE g == SumTable(f, D)
<1>6. h = [s \in SUBSET D |-> Fold(h, s)]
  BY <1>5
<1> HIDE DEF h, Fold
<1>7. g = [s \in SUBSET D |-> Fold(g, s)]
  <2>1. g = CHOOSE q : q = [s \in SUBSET D |-> Fold(q, s)]
    BY DEF SumTable, Fold
  <2> HIDE DEF g
  <2> QED BY <1>6, <2>1
<1> HIDE DEF g
<1>8. \A s \in SUBSET D : g[s] = Fold(g, s)
  BY <1>7
<1>9. g[{}] = 0 /\ \A s \in SUBSET D : s # {} => g[s] = f[Pick(s)] + g[Less(s, Pick(s))]
  BY <1>8 DEF Fold, Less
<1>10. ASSUME NEW u \in SUBSET D PROVE g[u] \in Nat
  <2> DEFINE P == {s \in SUBSET D : g[s] \in Nat}
  <2>1. IsFiniteSet(u)
    BY FS_Subset
  <2>2. {} \in P
    BY <1>9
  <2>3. ASSUME NEW s \in SUBSET u, s # {}, \A x \in s : s \ {x} \in P PROVE s \in P
    <3>1. s \in SUBSET D /\ Pick(s) \in s /\ Pick(s) \in D
      BY <1>1, <2>3
    <3>2. g[s \ {Pick(s)}] \in Nat
      BY <2>3, <3>1
    <3>3. g[s] = f[Pick(s)] + g[s \ {Pick(s)}]
      BY <1>9, <2>3, <3>1 DEF Less
    <3> QED BY <3>1, <3>2, <3>3
  <2> HIDE DEF P
  <2>4. u \in P
    BY <2>1, <2>2, <2>3, OneByOne
  <2> QED BY <2>4 DEF P
<1> QED BY <1>9, <1>10 DEF g

LEMMA SumStep ==
  ASSUME NEW D, IsFiniteSet(D), NEW f, \A x \in D : f[x] \in Nat
  PROVE  /\ SumFunctionOnSet(f, D) \in Nat
         /\ D = {} => SumFunctionOnSet(f, D) = 0
         /\ D # {} => SumFunctionOnSet(f, D) = f[Pick(D)] + SumFunctionOnSet(f, Less(D, Pick(D)))
<1> DEFINE g == SumTable(f, D)
<1>1. /\ SumFunctionOnSet(f, D) = g[D] /\ \A s \in SUBSET D : g[s] \in Nat
      /\ g[{}] = 0 /\ \A s \in SUBSET D : s # {} => g[s] = f[Pick(s)] + g[Less(s, Pick(s))]
  BY SumIsFold, SumTableOf
<1> HIDE DEF g
<1>2. ASSUME D # {} PROVE SumFunctionOnSet(f, D) = f[Pick(D)] + SumFunctionOnSet(f, Less(D, Pick(D)))
  <2> DEFINE B == Less(D, Pick(D))
             h == SumTable(f, B)
  <2>1. IsFiniteSet(B) /\ B \in SUBSET D /\ \A x \in B : f[x] \in Nat
    BY FS_Subset DEF Less
  <2> HIDE DEF B
  <2>2. /\ SumFunctionOnSet(f, B) = h[B] /\ \A s \in SUBSET B : h[s] \in Nat
        /\ h[{}] = 0 /\ \A s \in SUBSET B : s # {} => h[s] = f[Pick(s)] + h[Less(s, Pick(s))]
    BY <2>1, SumIsFold, SumTableOf
  <2> HIDE DEF h
  <2> DEFINE P == {s \in SUBSET B : g[s] = h[s]}
  <2>3. {} \in P
    BY <1>1, <2>1, <2>2
  <2>4. ASSUME NEW s \in SUBSET B, s # {}, \A x \in s : s \ {x} \in P PROVE s \in P
    <3>1. Pick(s) \in s /\ s \in SUBSET D
      BY <2>1, <2>4 DEF Pick
    <3>2. g[Less(s, Pick(s))] = h[Less(s, Pick(s))]
      BY <2>4, <3>1 DEF Less
    <3>3. g[s] = f[Pick(s)] + g[Less(s, Pick(s))] /\ h[s] = f[Pick(s)] + h[Less(s, Pick(s))]
      BY <1>1, <2>2, <2>4, <3>1
    <3> QED BY <3>2, <3>3
  <2> HIDE DEF P
  <2>5. B \in P
    BY <2>1, <2>3, <2>4, OneByOne
  <2>6. g[B] = h[B]
    BY <2>5 DEF P
  <2>7. g[D] = f[Pick(D)] + g[B]
    BY <1>1, <1>2 DEF B
  <2> QED BY <1>1, <2>2, <2>6, <2>7 DEF B
<1>3. D = {} => SumFunctionOnSet(f, D) = 0
  BY <1>1
<1>4. SumFunctionOnSet(f, D) \in Nat
  BY <1>1
<1> QED BY <1>2, <1>3, <1>4

Summable(f, D) == IsFiniteSet(D) /\ \A x \in D : f[x] \in Nat

(* Any element can be taken out of a sum.                                  *)
LEMMA SumTakesOut ==
  ASSUME NEW f, NEW D, Summable(f, D), NEW x \in D
  PROVE  /\ SumFunctionOnSet(f, D) = f[x] + SumFunctionOnSet(f, Less(D, x))
         /\ SumFunctionOnSet(f, Less(D, x)) \in Nat /\ Summable(f, Less(D, x))
<1> DEFINE total(s) == SumFunctionOnSet(f, s)
           P == {s \in SUBSET D : \A y \in s : total(s) = f[y] + total(Less(s, y))}
<1>1. IsFiniteSet(D) /\ \A s \in SUBSET D : IsFiniteSet(s) /\ \A y \in s : f[y] \in Nat
  BY FS_Subset DEF Summable
<1>2. ASSUME NEW s \in SUBSET D
      PROVE  /\ total(s) \in Nat
             /\ s # {} => Pick(s) \in s /\ total(s) = f[Pick(s)] + total(Less(s, Pick(s)))
  BY <1>1, SumStep DEF Pick
<1> HIDE DEF total
<1>3. {} \in P
  OBVIOUS
<1>4. ASSUME NEW s \in SUBSET D, s # {}, \A y \in s : s \ {y} \in P PROVE s \in P
  <2> SUFFICES ASSUME NEW y \in s PROVE total(s) = f[y] + total(Less(s, y))
    OBVIOUS
  <2> DEFINE p == Pick(s)
  <2>1. p \in s /\ total(s) = f[p] + total(Less(s, p))
    BY <1>2, <1>4
  <2> HIDE DEF p
  <2>2. CASE y = p
    BY <2>1, <2>2
  <2>3. CASE y # p
    <3>1. y \in s \ {p} /\ p \in s \ {y} /\ s \ {p} \in P /\ s \ {y} \in P
      BY <1>4, <2>1, <2>3
    <3>2. total(Less(s, p)) = f[y] + total(Less(Less(s, p), y))
      BY <3>1 DEF Less
    <3>3. total(Less(s, y)) = f[p] + total(Less(Less(s, y), p))
      BY <3>1 DEF Less
    <3>4. Less(Less(s, p), y) = Less(Less(s, y), p) /\ Less(Less(s, y), p) \in SUBSET D
      BY DEF Less
    <3>5. total(Less(Less(s, y), p)) \in Nat /\ f[y] \in Nat /\ f[p] \in Nat
      BY <1>1, <1>2, <2>1, <3>4
    <3> QED BY <2>1, <3>2, <3>3, <3>4, <3>5
  <2> QED BY <2>2, <2>3
<1> HIDE DEF P
<1>5. D \in P
  BY <1>1, <1>3, <1>4, OneByOne
<1>6. Less(D, x) \in SUBSET D
  BY DEF Less
<1>7. total(D) = f[x] + total(Less(D, x)) /\ total(Less(D, x)) \in Nat
  BY <1>2, <1>5, <1>6 DEF P
<1>8. Summable(f, Less(D, x))
  BY <1>1, <1>6 DEF Summable
<1> QED BY <1>7, <1>8 DEF total

LEMMA SumOfNone ==
  ASSUME NEW f
  PROVE  SumFunctionOnSet(f, {}) = 0
BY SumStep, FS_EmptySet

LEMMA SumType ==
  ASSUME NEW f, NEW D, Summable(f, D)
  PROVE  SumFunctionOnSet(f, D) \in Nat
BY SumStep DEF Summable

(* The sum of a function that is the sum of two is the sum of their sums.  *)
LEMMA SumOfSums ==
  ASSUME NEW f, NEW g, NEW e, NEW D, Summable(f, D), Summable(g, D), \A x \in D : e[x] = f[x] + g[x]
  PROVE  /\ Summable(e, D)
         /\ SumFunctionOnSet(e, D) = SumFunctionOnSet(f, D) + SumFunctionOnSet(g, D)
<1> DEFINE P == {s \in SUBSET D : SumFunctionOnSet(e, s) = SumFunctionOnSet(f, s) + SumFunctionOnSet(g, s)}
<1>1. IsFiniteSet(D) /\ \A s \in SUBSET D : Summable(e, s) /\ Summable(f, s) /\ Summable(g, s)
  BY FS_Subset DEF Summable
<1>2. {} \in P
  BY SumOfNone
<1>3. ASSUME NEW s \in SUBSET D, s # {}, \A x \in s : s \ {x} \in P PROVE s \in P
  <2>1. PICK x \in s : TRUE
    BY <1>3
  <2>2. Less(s, x) \in P
    BY <1>3 DEF Less
  <2>3. SumFunctionOnSet(e, s) = e[x] + SumFunctionOnSet(e, Less(s, x))
    BY <1>1, SumTakesOut
  <2>4. SumFunctionOnSet(f, s) = f[x] + SumFunctionOnSet(f, Less(s, x)) /\ SumFunctionOnSet(f, Less(s, x)) \in Nat
    BY <1>1, SumTakesOut
  <2>5. SumFunctionOnSet(g, s) = g[x] + SumFunctionOnSet(g, Less(s, x)) /\ SumFunctionOnSet(g, Less(s, x)) \in Nat
    BY <1>1, SumTakesOut
  <2>6. f[x] \in Nat /\ g[x] \in Nat /\ e[x] = f[x] + g[x]
    BY <2>1 DEF Summable
  <2> QED BY <2>2, <2>3, <2>4, <2>5, <2>6
<1>4. D \in P
  <2> HIDE DEF P
  <2> QED BY <1>1, <1>2, <1>3, OneByOne
<1> QED BY <1>1, <1>4

LEMMA SumAgrees ==
  ASSUME NEW f, NEW g, NEW D, Summable(f, D), \A x \in D : g[x] = f[x]
  PROVE  Summable(g, D) /\ SumFunctionOnSet(g, D) = SumFunctionOnSet(f, D)
<1> DEFINE P == {s \in SUBSET D : SumFunctionOnSet(g, s) = SumFunctionOnSet(f, s)}
<1>1. IsFiniteSet(D) /\ \A s \in SUBSET D : Summable(f, s) /\ Summable(g, s)
  BY FS_Subset DEF Summable
<1>2. {} \in P
  BY SumOfNone
<1>3. ASSUME NEW s \in SUBSET D, s # {}, \A x \in s : s \ {x} \in P PROVE s \in P
  <2>1. PICK x \in s : TRUE
    BY <1>3
  <2>2. Less(s, x) \in P
    BY <1>3 DEF Less
  <2>3. SumFunctionOnSet(g, s) = g[x] + SumFunctionOnSet(g, Less(s, x))
    BY <1>1, SumTakesOut
  <2>4. SumFunctionOnSet(f, s) = f[x] + SumFunctionOnSet(f, Less(s, x))
    BY <1>1, SumTakesOut
  <2> QED BY <2>2, <2>3, <2>4
<1>4. D \in P
  <2> HIDE DEF P
  <2> QED BY <1>1, <1>2, <1>3, OneByOne
<1> QED BY <1>1, <1>4

-----------------------------------------------------------------------------
(* Counting the elements of J by the index that I gives them.              *)
HasIndex(J, I, i) == {j \in J : I[j] = i}
HasAnyOf(J, I, K) == {j \in J : I[j] \in K}

LEMMA CountUnion ==
  ASSUME NEW A, NEW B, IsFiniteSet(A), IsFiniteSet(B), A \cap B = {}
  PROVE  IsFiniteSet(A \cup B) /\ Cardinality(A \cup B) = Cardinality(A) + Cardinality(B)
<1>1. Cardinality(A) \in Nat /\ Cardinality(B) \in Nat /\ Cardinality(A \cap B) = 0
  BY FS_CardinalityType, FS_EmptySet
<1>2. IsFiniteSet(A \cup B) /\ Cardinality(A \cup B) = Cardinality(A) + Cardinality(B) - Cardinality(A \cap B)
  BY FS_Union
<1> QED BY <1>1, <1>2

(* The numbers of elements at each of some indices add up to that of the   *)
(* elements at any of them.                                                *)
LEMMA SumOfCounts ==
  ASSUME NEW J, IsFiniteSet(J), NEW K, IsFiniteSet(K), NEW I, NEW f,
         \A i \in K : f[i] = Cardinality(HasIndex(J, I, i))
  PROVE  Summable(f, K) /\ SumFunctionOnSet(f, K) = Cardinality(HasAnyOf(J, I, K))
<1> DEFINE P == {s \in SUBSET K : SumFunctionOnSet(f, s) = Cardinality(HasAnyOf(J, I, s))}
<1>1. \A i : IsFiniteSet(HasIndex(J, I, i)) /\ Cardinality(HasIndex(J, I, i)) \in Nat
  BY FS_Subset, FS_CardinalityType DEF HasIndex
<1>2. \A s : IsFiniteSet(HasAnyOf(J, I, s))
  BY FS_Subset DEF HasAnyOf
<1>3. \A s \in SUBSET K : Summable(f, s)
  BY <1>1, FS_Subset DEF Summable
<1>4. {} \in P
  <2>1. HasAnyOf(J, I, {}) = {}
    BY DEF HasAnyOf
  <2> QED BY <2>1, SumOfNone, FS_EmptySet
<1>5. ASSUME NEW s \in SUBSET K, s # {}, \A x \in s : s \ {x} \in P PROVE s \in P
  <2>1. PICK x \in s : TRUE
    BY <1>5
  <2>2. Less(s, x) \in P
    BY <1>5 DEF Less
  <2>3. SumFunctionOnSet(f, s) = f[x] + SumFunctionOnSet(f, Less(s, x))
    BY <1>3, SumTakesOut
  <2>4. /\ HasAnyOf(J, I, s) = HasIndex(J, I, x) \cup HasAnyOf(J, I, Less(s, x))
        /\ HasIndex(J, I, x) \cap HasAnyOf(J, I, Less(s, x)) = {}
    BY DEF HasAnyOf, HasIndex, Less
  <2>5. Cardinality(HasAnyOf(J, I, s)) = Cardinality(HasIndex(J, I, x)) + Cardinality(HasAnyOf(J, I, Less(s, x)))
    BY <1>1, <1>2, <2>4, CountUnion
  <2> QED BY <2>2, <2>3, <2>5
<1>6. K \in P
  <2> HIDE DEF P
  <2> QED BY <1>4, <1>5, OneByOne
<1> QED BY <1>3, <1>6

(* The sum over two sets that have nothing in common, and over a constant. *)
LEMMA SumUnion ==
  ASSUME NEW f, NEW A, NEW B, Summable(f, A), Summable(f, B), A \cap B = {}
  PROVE  /\ Summable(f, A \cup B)
         /\ SumFunctionOnSet(f, A \cup B) = SumFunctionOnSet(f, A) + SumFunctionOnSet(f, B)
<1> DEFINE P == {s \in SUBSET A : SumFunctionOnSet(f, s \cup B) = SumFunctionOnSet(f, s) + SumFunctionOnSet(f, B)}
<1>1. \A s \in SUBSET A : Summable(f, s) /\ Summable(f, s \cup B)
  <2> TAKE s \in SUBSET A
  <2>1. IsFiniteSet(s) /\ IsFiniteSet(s \cup B)
    BY FS_Subset, FS_Union DEF Summable
  <2> QED BY <2>1 DEF Summable
<1>2. {} \in P
  <2>1. {} \cup B = B
    OBVIOUS
  <2> QED BY <2>1, SumOfNone, SumType
<1>3. ASSUME NEW s \in SUBSET A, s # {}, \A x \in s : s \ {x} \in P PROVE s \in P
  <2>1. PICK x \in s : TRUE
    BY <1>3
  <2>2. Less(s, x) \in P
    BY <1>3 DEF Less
  <2>3. SumFunctionOnSet(f, s) = f[x] + SumFunctionOnSet(f, Less(s, x))
    BY <1>1, SumTakesOut
  <2>4. SumFunctionOnSet(f, s \cup B) = f[x] + SumFunctionOnSet(f, Less(s \cup B, x))
    <3> DEFINE E == s \cup B
    <3>1. Summable(f, E) /\ x \in E
      BY <1>1
    <3> HIDE DEF E
    <3>2. SumFunctionOnSet(f, E) = f[x] + SumFunctionOnSet(f, Less(E, x))
      BY <3>1, SumTakesOut
    <3> QED BY <3>2 DEF E
  <2>5. Less(s \cup B, x) = Less(s, x) \cup B
    BY DEF Less
  <2>6. SumFunctionOnSet(f, Less(s, x)) \in Nat /\ SumFunctionOnSet(f, B) \in Nat
    BY <1>1, SumTakesOut, SumType
  <2>7. f[x] \in Nat
    BY <2>1 DEF Summable
  <2>8. SumFunctionOnSet(f, Less(s, x) \cup B) = SumFunctionOnSet(f, Less(s, x)) + SumFunctionOnSet(f, B)
    BY <2>2
  <2> DEFINE b == SumFunctionOnSet(f, B)
             l == SumFunctionOnSet(f, Less(s, x))
  <2>9. SumFunctionOnSet(f, s \cup B) = f[x] + (l + b) /\ SumFunctionOnSet(f, s) = f[x] + l
    BY <2>3, <2>4, <2>5, <2>8
  <2>10. f[x] + (l + b) = (f[x] + l) + b
    BY <2>6, <2>7
  <2> QED BY <2>9, <2>10
<1>4. A \in P
  <2>1. IsFiniteSet(A)
    BY DEF Summable
  <2> HIDE DEF P
  <2> QED BY <1>2, <1>3, <2>1, OneByOne
<1> QED BY <1>1, <1>4

LEMMA SumOfSame ==
  ASSUME NEW A, IsFiniteSet(A), NEW c \in Nat, NEW f, \A x \in A : f[x] = c
  PROVE  Summable(f, A) /\ SumFunctionOnSet(f, A) = Cardinality(A) * c
<1> DEFINE P == {s \in SUBSET A : SumFunctionOnSet(f, s) = Cardinality(s) * c}
<1>1. \A s \in SUBSET A : Summable(f, s) /\ IsFiniteSet(s) /\ Cardinality(s) \in Nat
  BY FS_Subset, FS_CardinalityType DEF Summable
<1>2. {} \in P
  <2>1. 0 * c = 0 /\ Cardinality({}) = 0
    BY FS_EmptySet
  <2> QED BY <2>1, SumOfNone
<1>3. ASSUME NEW s \in SUBSET A, s # {}, \A x \in s : s \ {x} \in P PROVE s \in P
  <2>1. PICK x \in s : TRUE
    BY <1>3
  <2>2. Less(s, x) \in P /\ f[x] = c
    BY <1>3 DEF Less
  <2>3. SumFunctionOnSet(f, s) = f[x] + SumFunctionOnSet(f, Less(s, x))
    BY <1>1, SumTakesOut
  <2>4. Cardinality(Less(s, x)) = Cardinality(s) - 1
    BY <1>1, FS_RemoveElement DEF Less
  <2> DEFINE n == Cardinality(s)
  <2>5. c + (n - 1) * c = n * c
    <3>1. n \in Nat
      BY <1>1
    <3> HIDE DEF n
    <3> QED BY <3>1
  <2> QED BY <2>2, <2>3, <2>4, <2>5
<1>4. A \in P
  <2> HIDE DEF P
  <2> QED BY <1>2, <1>3, OneByOne
<1> QED BY <1>1, <1>4

(* The sum of a weight of its index for every element is that of the       *)
(* weights of the indices as often as they are counted.                    *)
LEMMA SumOfWeights ==
  ASSUME NEW J, IsFiniteSet(J), NEW K, IsFiniteSet(K), NEW I, NEW w, \A i \in K : w[i] \in Nat,
         NEW f, \A i \in K : f[i] = Cardinality(HasIndex(J, I, i)) * w[i],
         NEW g, \A j \in HasAnyOf(J, I, K) : g[j] = w[I[j]]
  PROVE  /\ Summable(f, K) /\ Summable(g, HasAnyOf(J, I, K))
         /\ SumFunctionOnSet(f, K) = SumFunctionOnSet(g, HasAnyOf(J, I, K))
<1> DEFINE P == {s \in SUBSET K : SumFunctionOnSet(f, s) = SumFunctionOnSet(g, HasAnyOf(J, I, s))}
<1>1. \A i : IsFiniteSet(HasIndex(J, I, i)) /\ Cardinality(HasIndex(J, I, i)) \in Nat
  BY FS_Subset, FS_CardinalityType DEF HasIndex
<1>2. \A s \in SUBSET K : Summable(f, s)
  BY <1>1, FS_Subset DEF Summable
<1>3. \A s \in SUBSET K : Summable(g, HasAnyOf(J, I, s))
  <2> TAKE s \in SUBSET K
  <2>1. IsFiniteSet(HasAnyOf(J, I, s))
    BY FS_Subset DEF HasAnyOf
  <2>2. \A j \in HasAnyOf(J, I, s) : j \in HasAnyOf(J, I, K) /\ I[j] \in K
    BY DEF HasAnyOf
  <2> QED BY <2>1, <2>2 DEF Summable
<1>4. {} \in P
  <2>1. HasAnyOf(J, I, {}) = {}
    BY DEF HasAnyOf
  <2> QED BY <2>1, SumOfNone
<1>5. ASSUME NEW s \in SUBSET K, s # {}, \A x \in s : s \ {x} \in P PROVE s \in P
  <2>1. PICK x \in s : TRUE
    BY <1>5
  <2>2. Less(s, x) \in P
    BY <1>5 DEF Less
  <2>3. SumFunctionOnSet(f, s) = f[x] + SumFunctionOnSet(f, Less(s, x))
    BY <1>2, SumTakesOut
  <2>4. /\ HasAnyOf(J, I, s) = HasIndex(J, I, x) \cup HasAnyOf(J, I, Less(s, x))
        /\ HasIndex(J, I, x) \cap HasAnyOf(J, I, Less(s, x)) = {}
    BY DEF HasAnyOf, HasIndex, Less
  <2>5. Summable(g, HasIndex(J, I, x)) /\ SumFunctionOnSet(g, HasIndex(J, I, x)) = f[x]
    <3>1. \A j \in HasIndex(J, I, x) : g[j] = w[x]
      BY DEF HasIndex, HasAnyOf
    <3> QED BY <1>1, <3>1, SumOfSame
  <2>6. Summable(g, HasAnyOf(J, I, Less(s, x)))
    BY <1>3 DEF Less
  <2>7. SumFunctionOnSet(g, HasAnyOf(J, I, s)) = f[x] + SumFunctionOnSet(g, HasAnyOf(J, I, Less(s, x)))
    BY <2>4, <2>5, <2>6, SumUnion
  <2> QED BY <2>2, <2>3, <2>7
<1>6. K \in P
  <2> HIDE DEF P
  <2> QED BY <1>4, <1>5, OneByOne
<1> QED BY <1>2, <1>3, <1>6

-----------------------------------------------------------------------------
(* Ranks: the elements of J whose v is below x, and those up to it.        *)
Under(J, v, x) == {j \in J : v[j] < x}
NotOver(J, v, x) == {j \in J : v[j] <= x}
Numbered(J, v) == IsFiniteSet(J) /\ \A k \in J : v[k] \in Nat

LEMMA UnderFinite ==
  ASSUME NEW J, NEW v, Numbered(J, v), NEW x
  PROVE  /\ Cardinality(J) \in Nat
         /\ IsFiniteSet(Under(J, v, x)) /\ Cardinality(Under(J, v, x)) \in Nat
         /\ Cardinality(Under(J, v, x)) <= Cardinality(J)
         /\ IsFiniteSet(NotOver(J, v, x)) /\ Cardinality(NotOver(J, v, x)) \in Nat
         /\ Cardinality(NotOver(J, v, x)) <= Cardinality(J)
<1>1. Under(J, v, x) \in SUBSET J /\ NotOver(J, v, x) \in SUBSET J /\ IsFiniteSet(J)
  BY DEF Under, NotOver, Numbered
<1> QED BY <1>1, FS_Subset, FS_CardinalityType

(* There are a greatest and a least.                                       *)
LEMMA Extremes ==
  ASSUME NEW J, NEW v, Numbered(J, v), J # {}
  PROVE  (\E k \in J : \A j \in J : v[j] <= v[k]) /\ (\E k \in J : \A j \in J : v[k] <= v[j])
<1> DEFINE P == {s \in SUBSET J : s # {} => \E k \in s : \A j \in s : v[j] <= v[k]}
<1>1. \A k \in J : v[k] \in Nat
  BY DEF Numbered
<1>2. ASSUME NEW s \in SUBSET J, s # {}, \A x \in s : s \ {x} \in P PROVE s \in P
  <2>1. PICK x \in s : TRUE
    BY <1>2
  <2>2. CASE s \ {x} = {}
    <3>1. \A j \in s : v[j] <= v[x]
      BY <1>1, <2>1, <2>2
    <3> QED BY <2>1, <3>1
  <2>3. CASE s \ {x} # {}
    <3>1. s \ {x} \in P
      BY <1>2, <2>1
    <3>2. PICK k \in s \ {x} : \A j \in s \ {x} : v[j] <= v[k]
      BY <2>3, <3>1
    <3>3. v[k] \in Nat /\ v[x] \in Nat
      BY <1>1, <2>1, <3>2
    <3>4. CASE v[x] <= v[k]
      <4>1. \A j \in s : v[j] <= v[k]
        BY <3>2, <3>4
      <4> QED BY <3>2, <4>1
    <3>5. CASE v[k] < v[x]
      <4>1. \A j \in s : v[j] <= v[x]
        BY <1>1, <3>2, <3>3, <3>5
      <4> QED BY <2>1, <4>1
    <3> QED BY <3>3, <3>4, <3>5
  <2> QED BY <2>2, <2>3
<1>3. J \in P
  <2>1. {} \in P /\ IsFiniteSet(J)
    BY DEF Numbered
  <2> HIDE DEF P
  <2> QED BY <1>2, <2>1, OneByOne
<1>4. \E k \in J : \A j \in J : v[k] <= v[j]
  <2> DEFINE V == {v[k] : k \in J}
  <2>1. PICK m \in V : \A n \in V : m <= n
    <3>1. V \subseteq Nat /\ V # {}
      BY <1>1
    <3> QED BY <3>1, LeastNumber
  <2> QED BY <2>1
<1> QED BY <1>3, <1>4

(* Every rank is that of an element.                                       *)
LEMMA RankIsTaken ==
  ASSUME NEW J, NEW v, Numbered(J, v), NEW r \in Nat \ {0}, r <= Cardinality(J)
  PROVE  \E k \in J : Cardinality(Under(J, v, v[k])) < r /\ r <= Cardinality(NotOver(J, v, v[k]))
<1> DEFINE Enough == {k \in J : r <= Cardinality(NotOver(J, v, v[k]))}
<1>1. \A k \in J : v[k] \in Nat
  BY DEF Numbered
<1>2. J # {}
  <2>1. J = {} => Cardinality(J) = 0
    BY FS_EmptySet
  <2> QED BY <2>1
<1>3. Enough # {}
  <2>1. PICK k \in J : \A j \in J : v[j] <= v[k]
    BY <1>2, Extremes
  <2>2. NotOver(J, v, v[k]) = J
    BY <2>1 DEF NotOver
  <2> QED BY <2>2
<1>4. Numbered(Enough, v)
  BY FS_Subset DEF Numbered
<1>5. PICK k \in Enough : \A j \in Enough : v[k] <= v[j]
  BY <1>3, <1>4, Extremes
<1>6. Cardinality(Under(J, v, v[k])) < r
  <2> SUFFICES ASSUME ~(Cardinality(Under(J, v, v[k])) < r) PROVE FALSE
    OBVIOUS
  <2>1. r <= Cardinality(Under(J, v, v[k])) /\ Cardinality(Under(J, v, v[k])) \in Nat
    BY UnderFinite
  <2>2. Under(J, v, v[k]) # {}
    BY <2>1, FS_EmptySet
  <2>3. Numbered(Under(J, v, v[k]), v)
    BY UnderFinite DEF Numbered, Under
  <2>4. PICK j \in Under(J, v, v[k]) : \A i \in Under(J, v, v[k]) : v[i] <= v[j]
    BY <2>2, <2>3, Extremes
  <2>5. j \in J /\ v[j] < v[k] /\ v[j] \in Nat /\ v[k] \in Nat
    BY <1>1, <2>4 DEF Under
  <2>6. NotOver(J, v, v[j]) = Under(J, v, v[k])
    BY <1>1, <2>4, <2>5 DEF Under, NotOver
  <2>7. j \in Enough
    BY <2>1, <2>5, <2>6
  <2> QED BY <1>5, <2>5, <2>7
<1> QED BY <1>5, <1>6

-----------------------------------------------------------------------------
(* Histograms, and what is in them: those elements of J, at the indices    *)
(* that I gives them.                                                      *)
Indices == 0 .. counts_len - 1
Histograms == [counts : UNION {[K -> Nat] : K \in SUBSET Indices}, total : Nat]

Contents(h, J, I) ==
  /\ h \in Histograms
  /\ IsFiniteSet(J) /\ \A j \in J : I[j] \in Indices
  /\ h.total = Cardinality(J)
  /\ \A i : i \in DOMAIN h.counts <=> HasIndex(J, I, i) # {}
  /\ \A i \in DOMAIN h.counts : h.counts[i] = Cardinality(HasIndex(J, I, i))

LEMMA IndicesAreNumbers == Indices \subseteq Nat /\ IsFiniteSet(Indices)
BY FS_Interval, Trackable DEF Indices

LEMMA HistogramParts ==
  ASSUME NEW h \in Histograms
  PROVE  /\ h.total \in Nat /\ DOMAIN h.counts \subseteq Indices /\ IsFiniteSet(DOMAIN h.counts)
         /\ h.counts \in [DOMAIN h.counts -> Nat]
         /\ \A i : get_count_at_index(h, i) \in Nat
<1>1. PICK K \in SUBSET Indices : h.counts \in [K -> Nat]
  BY DEF Histograms
<1>2. IsFiniteSet(Indices)
  BY FS_Interval, Trackable DEF Indices
<1>3. IsFiniteSet(K)
  BY <1>1, <1>2, FS_Subset
<1>4. h.total \in Nat
  BY DEF Histograms
<1> QED BY <1>1, <1>3, <1>4 DEF get_count_at_index

LEMMA HistogramOf ==
  ASSUME NEW K \in SUBSET Indices, NEW c \in [K -> Nat], NEW n \in Nat
  PROVE  [counts |-> c, total |-> n] \in Histograms
BY DEF Histograms

LEMMA EmptyContents ==
  ASSUME NEW I
  PROVE  Contents(hdr_init, {}, I) /\ hdr_init \in Histograms
<1>1. <<>> \in [{} -> Nat] /\ DOMAIN <<>> = {}
  OBVIOUS
<1>2. hdr_init \in Histograms
  BY <1>1, HistogramOf DEF hdr_init
<1>3. \A i : HasIndex({}, I, i) = {}
  BY DEF HasIndex
<1> QED BY <1>1, <1>2, <1>3, FS_EmptySet DEF Contents, hdr_init

(* Only the indices of the elements matter.                                *)
LEMMA ContentsAgree ==
  ASSUME NEW h, NEW J, NEW I, Contents(h, J, I), NEW L, \A j \in J : L[j] = I[j]
  PROVE  Contents(h, J, L)
<1>1. \A i : HasIndex(J, L, i) = HasIndex(J, I, i)
  BY DEF HasIndex
<1> QED BY <1>1 DEF Contents

LEMMA RecordType ==
  ASSUME NEW h \in Histograms, NEW w, NEW n \in Nat, counts_index_for(w) \in Indices
  PROVE  hdr_record_values(h, w, n) \in Histograms
<1> DEFINE i == counts_index_for(w)
           K == DOMAIN h.counts \cup {i}
           c == [j \in K |-> get_count_at_index(h, j) + IF j = i THEN n ELSE 0]
<1>1. K \in SUBSET Indices /\ h.total + n \in Nat
  BY HistogramParts
<1>2. \A j : get_count_at_index(h, j) \in Nat
  BY HistogramParts
<1>3. c \in [K -> Nat]
  BY <1>2
<1>4. hdr_record_values(h, w, n) = [counts |-> c, total |-> h.total + n]
  BY Trackable DEF hdr_record_values, Indices
<1> HIDE DEF c, K
<1> QED BY <1>1, <1>3, <1>4, HistogramOf

(* Recording as many as X has, at their index, puts X in.                  *)
LEMMA RecordContents ==
  ASSUME NEW h, NEW J, NEW I, Contents(h, J, I),
         NEW X, IsFiniteSet(X), X # {}, J \cap X = {},
         NEW w, counts_index_for(w) \in Indices, \A x \in X : I[x] = counts_index_for(w)
  PROVE  Contents(hdr_record_values(h, w, Cardinality(X)), J \cup X, I)
<1> DEFINE i == counts_index_for(w)
           n == Cardinality(X)
           K == DOMAIN h.counts \cup {i}
           c == [j \in K |-> get_count_at_index(h, j) + IF j = i THEN n ELSE 0]
           r == hdr_record_values(h, w, n)
           count(j) == Cardinality(HasIndex(J, I, j))
<1>1. h \in Histograms /\ IsFiniteSet(J) /\ n \in Nat
  BY FS_CardinalityType DEF Contents
<1>2. r = [counts |-> c, total |-> h.total + n] /\ r \in Histograms
  <2>1. r \in Histograms
    BY <1>1, RecordType
  <2>2. 0 <= i /\ i < counts_len
    BY Trackable DEF Indices
  <2> QED BY <2>1, <2>2, Trackable DEF hdr_record_values, Indices
<1>3. \A j : IsFiniteSet(HasIndex(J, I, j)) /\ count(j) \in Nat
  BY <1>1, FS_Subset, FS_CardinalityType DEF HasIndex
<1>4. \A j : get_count_at_index(h, j) = count(j)
  <2> TAKE j
  <2>1. CASE j \in DOMAIN h.counts
    BY <2>1 DEF Contents, get_count_at_index
  <2>2. CASE j \notin DOMAIN h.counts
    BY <2>2, FS_EmptySet DEF Contents, get_count_at_index
  <2> QED BY <2>1, <2>2
<1>5. HasIndex(J \cup X, I, i) = HasIndex(J, I, i) \cup X /\ HasIndex(J, I, i) \cap X = {}
  BY DEF HasIndex
<1>6. \A j : j # i => HasIndex(J \cup X, I, j) = HasIndex(J, I, j)
  BY DEF HasIndex
<1>7. Cardinality(HasIndex(J \cup X, I, i)) = count(i) + n
  BY <1>3, <1>5, CountUnion
<1>8. \A j \in K : c[j] = Cardinality(HasIndex(J \cup X, I, j))
  <2> TAKE j \in K
  <2>1. c[j] = count(j) + IF j = i THEN n ELSE 0
    BY <1>4
  <2> HIDE DEF c, n, count, i
  <2>2. CASE j = i
    BY <1>7, <2>1, <2>2
  <2>3. CASE j # i
    BY <1>3, <1>6, <2>1, <2>3 DEF count
  <2> QED BY <2>2, <2>3
<1>9. \A j : j \in K <=> HasIndex(J \cup X, I, j) # {}
  BY <1>5, <1>6 DEF Contents
<1>10. r.total = Cardinality(J \cup X) /\ IsFiniteSet(J \cup X)
  <2>1. IsFiniteSet(J \cup X) /\ Cardinality(J \cup X) = Cardinality(J) + n
    BY <1>1, CountUnion
  <2>2. h.total = Cardinality(J)
    BY DEF Contents
  <2> QED BY <1>2, <2>1, <2>2
<1>11. \A j \in J \cup X : I[j] \in Indices
  BY DEF Contents
<1>12. DOMAIN r.counts = K /\ r.counts = c
  BY <1>2
<1>13. r \in Histograms
  BY <1>2
<1> HIDE DEF r, c, K
<1>14. Contents(r, J \cup X, I)
  BY <1>8, <1>9, <1>10, <1>11, <1>12, <1>13 DEF Contents
<1> QED BY <1>14 DEF r

(* hdr_add puts what is in one histogram into the other.                   *)
AddTable(h, from) ==
  CHOOSE g : g = [s \in SUBSET DOMAIN from.counts |->
                    IF s = {} THEN h
                    ELSE hdr_record_values(g[s \ {Min(s)}], value_from_index(Min(s)), from.counts[Min(s)])]

LEMMA AddIsFold ==
  ASSUME NEW h, NEW from
  PROVE  hdr_add(h, from) = AddTable(h, from)[DOMAIN from.counts]
BY DEF hdr_add, MapThenFoldSet, AddTable

LEMMA LeastIndex ==
  ASSUME NEW s \in SUBSET Indices, s # {}
  PROVE  Min(s) \in s /\ \A i \in s : Min(s) <= i
<1>1. s \subseteq Nat
  BY Trackable DEF Indices
<1>2. \E m \in s : \A i \in s : m <= i
  BY <1>1, LeastNumber
<1> QED BY <1>2 DEF Min

LEMMA AddTableOf ==
  ASSUME NEW h \in Histograms, NEW from \in Histograms
  PROVE  /\ AddTable(h, from)[{}] = h
         /\ \A s \in SUBSET DOMAIN from.counts : s # {} => AddTable(h, from)[s] =
              hdr_record_values(AddTable(h, from)[Less(s, Min(s))], value_from_index(Min(s)), from.counts[Min(s)])
<1> DEFINE D == DOMAIN from.counts
           op(i, a) == hdr_record_values(a, value_from_index(i), from.counts[i])
           Fold(g, s) == IF s = {} THEN h ELSE op(Min(s), g[s \ {Min(s)}])
           pick == [s \in SUBSET D |-> Min(s)]
           step == [i \in D |-> [a \in Histograms |-> op(i, a)]]
<1>1. IsFiniteSet(D) /\ D \subseteq Indices /\ \A i \in D : from.counts[i] \in Nat
  BY HistogramParts
<1>2. ASSUME NEW i \in D, NEW a \in Histograms PROVE op(i, a) \in Histograms
  <2>1. i \in Nat /\ i \in Indices /\ counts_index_for(value_from_index(i)) = i
    BY <1>1, ValueOf, Trackable DEF Indices
  <2> QED BY <1>1, <2>1, RecordType
<1> HIDE DEF op, D
<1>3. step \in [D -> [Histograms -> Histograms]]
  BY <1>2
<1>4. \A i \in D, a \in Histograms : step[i][a] = op(i, a)
  OBVIOUS
<1>5. \A s \in SUBSET D : s # {} => pick[s] = Min(s) /\ Min(s) \in s
  BY <1>1, LeastIndex
<1> HIDE DEF pick, step
<1> DEFINE k == FoldTable(D, Histograms, h, pick, step)
           g == [s \in SUBSET D |-> k[s]]
<1>6. /\ \A s \in SUBSET D : k[s] \in Histograms
      /\ k[{}] = h
      /\ \A s \in SUBSET D : s # {} => k[s] = step[pick[s]][k[Less(s, pick[s])]]
  <2>1. Foldable(D, Histograms, h, pick, step)
    BY <1>1, <1>3, <1>5 DEF Foldable
  <2> QED BY <2>1, FoldExists
<1> HIDE DEF k
<1>7. ASSUME NEW s \in SUBSET D PROVE g[s] = Fold(g, s)
  <2>1. CASE s = {}
    BY <1>6, <2>1
  <2>2. CASE s # {}
    <3>1. pick[s] = Min(s) /\ Min(s) \in D /\ s \ {Min(s)} \in SUBSET D
      BY <1>5, <2>2
    <3>2. g[s] = step[Min(s)][g[s \ {Min(s)}]] /\ g[s \ {Min(s)}] \in Histograms
      BY <1>6, <2>2, <3>1 DEF Less
    <3> QED BY <1>4, <2>2, <3>1, <3>2
  <2> QED BY <2>1, <2>2
<1> DEFINE t == AddTable(h, from)
<1>8. g = [s \in SUBSET D |-> Fold(g, s)]
  BY <1>7
<1> HIDE DEF g, Fold
<1>9. t = [s \in SUBSET D |-> Fold(t, s)]
  <2>1. t = CHOOSE q : q = [s \in SUBSET D |-> Fold(q, s)]
    BY DEF AddTable, Fold, op, D
  <2> HIDE DEF t
  <2> QED BY <1>8, <2>1
<1> HIDE DEF t
<1>10. t[{}] = h /\ \A s \in SUBSET D : s # {} => t[s] = op(Min(s), t[Less(s, Min(s))])
  BY <1>9 DEF Fold, Less
<1> QED BY <1>10 DEF t, op, D

LEMMA AddType ==
  ASSUME NEW h \in Histograms, NEW from \in Histograms
  PROVE  hdr_add(h, from) \in Histograms
<1> DEFINE D == DOMAIN from.counts
           t == AddTable(h, from)
           P == {s \in SUBSET D : t[s] \in Histograms}
<1>1. t[{}] = h /\ \A s \in SUBSET D : s # {} => t[s] =
        hdr_record_values(t[Less(s, Min(s))], value_from_index(Min(s)), from.counts[Min(s)])
  BY AddTableOf
<1> HIDE DEF t
<1>2. IsFiniteSet(D) /\ D \subseteq Indices /\ \A i \in D : from.counts[i] \in Nat
  BY HistogramParts
<1> HIDE DEF D
<1>3. {} \in P
  BY <1>1
<1>4. ASSUME NEW s \in SUBSET D, s # {}, \A x \in s : s \ {x} \in P PROVE s \in P
  <2> DEFINE m == Min(s)
  <2>1. m \in s /\ m \in D /\ m \in Indices /\ m \in Nat
    <3>1. s \in SUBSET Indices
      BY <1>2
    <3>2. m \in s
      BY <1>4, <3>1, LeastIndex
    <3> HIDE DEF m
    <3> QED BY <3>1, <3>2, IndicesAreNumbers
  <2>2. t[Less(s, m)] \in Histograms
    BY <1>4, <2>1 DEF Less
  <2>3. counts_index_for(value_from_index(m)) \in Indices
    BY <2>1, ValueOf
  <2>4. hdr_record_values(t[Less(s, m)], value_from_index(m), from.counts[m]) \in Histograms
    BY <1>2, <2>1, <2>2, <2>3, RecordType
  <2> QED BY <1>1, <1>4, <2>4
<1>5. D \in P
  <2> HIDE DEF P
  <2> QED BY <1>2, <1>3, <1>4, OneByOne
<1> QED BY <1>5, AddIsFold DEF D, t

LEMMA AddContents ==
  ASSUME NEW h, NEW J, NEW I, Contents(h, J, I), NEW from, NEW K, Contents(from, K, I), J \cap K = {}
  PROVE  Contents(hdr_add(h, from), J \cup K, I)
<1> DEFINE D == DOMAIN from.counts
           t == AddTable(h, from)
           In(s) == J \cup HasAnyOf(K, I, s)
           P == {s \in SUBSET D : Contents(t[s], In(s), I)}
<1>1. h \in Histograms /\ from \in Histograms
  BY DEF Contents
<1>2. t[{}] = h /\ \A s \in SUBSET D : s # {} => t[s] =
        hdr_record_values(t[Less(s, Min(s))], value_from_index(Min(s)), from.counts[Min(s)])
  BY <1>1, AddTableOf
<1> HIDE DEF t
<1>3. IsFiniteSet(D) /\ D \subseteq Indices
  BY <1>1, HistogramParts
<1>4. \A i \in D : from.counts[i] = Cardinality(HasIndex(K, I, i)) /\ HasIndex(K, I, i) # {} /\ IsFiniteSet(HasIndex(K, I, i))
  <2>1. \A i : IsFiniteSet(HasIndex(K, I, i))
    BY FS_Subset DEF HasIndex, Contents
  <2> QED BY <2>1 DEF Contents
<1>5. In(D) = J \cup K
  BY DEF HasAnyOf, HasIndex, Contents
<1> HIDE DEF D
<1>6. {} \in P
  <2>1. In({}) = J
    BY DEF HasAnyOf
  <2> QED BY <1>2, <2>1
<1>7. ASSUME NEW s \in SUBSET D, s # {}, \A x \in s : s \ {x} \in P PROVE s \in P
  <2> DEFINE m == Min(s)
             w == value_from_index(m)
             X == HasIndex(K, I, m)
  <2>1. m \in s /\ m \in D /\ m \in Indices /\ m \in Nat
    <3>1. s \in SUBSET Indices
      BY <1>3
    <3>2. m \in s
      BY <1>7, <3>1, LeastIndex
    <3> HIDE DEF m
    <3> QED BY <3>1, <3>2, IndicesAreNumbers
  <2>2. Contents(t[Less(s, m)], In(Less(s, m)), I)
    BY <1>7, <2>1 DEF Less
  <2>3. counts_index_for(w) = m
    BY <2>1, ValueOf
  <2>4. IsFiniteSet(X) /\ X # {} /\ from.counts[m] = Cardinality(X)
    BY <1>4, <2>1
  <2>5. /\ In(Less(s, m)) \cap X = {} /\ In(Less(s, m)) \cup X = In(s)
        /\ \A x \in X : I[x] = m
    BY <2>1 DEF HasAnyOf, HasIndex, Less
  <2>6. t[s] = hdr_record_values(t[Less(s, m)], w, Cardinality(X))
    BY <1>2, <1>7, <2>4
  <2> HIDE DEF m, w, X, In
  <2>7. Contents(hdr_record_values(t[Less(s, m)], w, Cardinality(X)), In(Less(s, m)) \cup X, I)
    BY <2>1, <2>2, <2>3, <2>4, <2>5, RecordContents
  <2> QED BY <2>5, <2>6, <2>7
<1>8. D \in P
  <2> HIDE DEF P
  <2> QED BY <1>3, <1>6, <1>7, OneByOne
<1> QED BY <1>5, <1>8, AddIsFold DEF D, t

(* The histograms of a sequence, added one after the other to an empty one.*)
Pieces(q, P, n, I) ==
  /\ n \in Nat /\ DOMAIN q = 1 .. n
  /\ \A i \in 1 .. n : Contents(q[i], P[i], I)
  /\ \A i, j \in 1 .. n : i # j => P[i] \cap P[j] = {}

MergeTable(q) ==
  CHOOSE g : g = [s \in SUBSET DOMAIN q |-> IF s = {} THEN hdr_init ELSE hdr_add(g[s \ {Max(s)}], q[Max(s)])]

LEMMA MergeIsFold ==
  ASSUME NEW q
  PROVE  FoldLeft(hdr_add, hdr_init, q) = MergeTable(q)[DOMAIN q]
BY DEF FoldLeft, MapThenFoldSet, MergeTable

LEMMA LastIndex ==
  ASSUME NEW n \in Nat, NEW s \in SUBSET (1 .. n), s # {}
  PROVE  Max(s) \in s /\ \A i \in s : i <= Max(s)
<1>1. s \subseteq Nat /\ \A i \in s : i <= n
  OBVIOUS
<1>2. \E m \in s : \A i \in s : i <= m
  BY <1>1, GreatestNumber
<1>3. \E m \in s : \A i \in s : m >= i
  BY <1>1, <1>2
<1> QED BY <1>1, <1>3 DEF Max

LEMMA MergeTableOf ==
  ASSUME NEW q, NEW P, NEW n, NEW I, Pieces(q, P, n, I)
  PROVE  /\ MergeTable(q)[{}] = hdr_init
         /\ \A s \in SUBSET (1 .. n) : s # {} =>
              MergeTable(q)[s] = hdr_add(MergeTable(q)[Less(s, Max(s))], q[Max(s)])
<1> DEFINE D == 1 .. n
           Fold(g, s) == IF s = {} THEN hdr_init ELSE hdr_add(g[s \ {Max(s)}], q[Max(s)])
           pick == [s \in SUBSET D |-> Max(s)]
           step == [i \in D |-> [a \in Histograms |-> hdr_add(a, q[i])]]
<1>1. IsFiniteSet(D) /\ n \in Nat /\ DOMAIN q = D /\ \A i \in D : q[i] \in Histograms
  BY FS_Interval DEF Pieces, Contents
<1>2. \A i \in D, a \in Histograms : hdr_add(a, q[i]) \in Histograms
  BY <1>1, AddType
<1>3. step \in [D -> [Histograms -> Histograms]]
  BY <1>2
<1>4. \A i \in D, a \in Histograms : step[i][a] = hdr_add(a, q[i])
  OBVIOUS
<1>5. \A s \in SUBSET D : s # {} => pick[s] = Max(s) /\ Max(s) \in s
  BY <1>1, LastIndex
<1> HIDE DEF pick, step, D
<1> DEFINE k == FoldTable(D, Histograms, hdr_init, pick, step)
           g == [s \in SUBSET D |-> k[s]]
<1>6. /\ \A s \in SUBSET D : k[s] \in Histograms
      /\ k[{}] = hdr_init
      /\ \A s \in SUBSET D : s # {} => k[s] = step[pick[s]][k[Less(s, pick[s])]]
  <2>1. hdr_init \in Histograms
    BY EmptyContents
  <2>2. Foldable(D, Histograms, hdr_init, pick, step)
    BY <1>1, <1>3, <1>5, <2>1 DEF Foldable
  <2> QED BY <2>2, FoldExists
<1> HIDE DEF k
<1>7. ASSUME NEW s \in SUBSET D PROVE g[s] = Fold(g, s)
  <2>1. CASE s = {}
    BY <1>6, <2>1
  <2>2. CASE s # {}
    <3>1. pick[s] = Max(s) /\ Max(s) \in D /\ s \ {Max(s)} \in SUBSET D
      BY <1>5, <2>2
    <3>2. g[s] = step[Max(s)][g[s \ {Max(s)}]] /\ g[s \ {Max(s)}] \in Histograms
      BY <1>6, <2>2, <3>1 DEF Less
    <3> QED BY <1>4, <2>2, <3>1, <3>2
  <2> QED BY <2>1, <2>2
<1> DEFINE t == MergeTable(q)
<1>8. g = [s \in SUBSET D |-> Fold(g, s)]
  BY <1>7
<1> HIDE DEF g, Fold
<1>9. t = [s \in SUBSET D |-> Fold(t, s)]
  <2>1. t = CHOOSE e : e = [s \in SUBSET D |-> Fold(e, s)]
    BY <1>1 DEF MergeTable, Fold
  <2> HIDE DEF t
  <2> QED BY <1>8, <2>1
<1> HIDE DEF t
<1>10. t[{}] = hdr_init /\ \A s \in SUBSET D : s # {} => t[s] = hdr_add(t[Less(s, Max(s))], q[Max(s)])
  BY <1>9 DEF Fold, Less
<1> QED BY <1>10 DEF t, D

LEMMA MergeContents ==
  ASSUME NEW q, NEW P, NEW n, NEW I, Pieces(q, P, n, I)
  PROVE  Contents(FoldLeft(hdr_add, hdr_init, q), UNION {P[i] : i \in 1 .. n}, I)
<1> DEFINE D == 1 .. n
           t == MergeTable(q)
           In(s) == UNION {P[i] : i \in s}
           G == {s \in SUBSET D : Contents(t[s], In(s), I)}
<1>1. t[{}] = hdr_init /\ \A s \in SUBSET D : s # {} => t[s] = hdr_add(t[Less(s, Max(s))], q[Max(s)])
  BY MergeTableOf
<1> HIDE DEF t
<1>2. IsFiniteSet(D) /\ DOMAIN q = D
  BY FS_Interval DEF Pieces
<1>3. {} \in G
  <2>1. In({}) = {}
    OBVIOUS
  <2> QED BY <1>1, <2>1, EmptyContents
<1>4. ASSUME NEW s \in SUBSET D, s # {}, \A x \in s : s \ {x} \in G PROVE s \in G
  <2> DEFINE m == Max(s)
  <2>1. m \in s
    BY <1>4, LastIndex DEF Pieces
  <2> HIDE DEF m
  <2>2. Contents(t[Less(s, m)], In(Less(s, m)), I)
    BY <1>4, <2>1 DEF Less
  <2>3. Contents(q[m], P[m], I)
    BY <2>1 DEF Pieces
  <2>4. In(Less(s, m)) \cap P[m] = {}
    BY <2>1 DEF Pieces, Less
  <2>5. In(Less(s, m)) \cup P[m] = In(s)
    BY <2>1 DEF Less
  <2> HIDE DEF In
  <2>6. Contents(hdr_add(t[Less(s, m)], q[m]), In(Less(s, m)) \cup P[m], I)
    BY <2>2, <2>3, <2>4, AddContents
  <2> QED BY <1>1, <1>4, <2>5, <2>6 DEF m
<1>5. D \in G
  <2> HIDE DEF G
  <2> QED BY <1>2, <1>3, <1>4, OneByOne
<1> QED BY <1>2, <1>5, MergeIsFold DEF t

-----------------------------------------------------------------------------
(* What is read from a histogram with something in it.                     *)
Values(J, v, I) == \A j \in J : v[j] \in Nat /\ I[j] = counts_index_for(v[j])
Filled(h, J, v, I) == Contents(h, J, I) /\ Values(J, v, I) /\ J # {}

LEMMA CountToOf ==
  ASSUME NEW h, NEW J, NEW I, Contents(h, J, I), NEW i \in Int
  PROVE  CountTo(h, i) = Cardinality(NotOver(J, I, i))
<1> DEFINE K == {j \in DOMAIN h.counts : j <= i}
<1>1. IsFiniteSet(J) /\ \A j \in K : h.counts[j] = Cardinality(HasIndex(J, I, j))
  BY DEF Contents
<1>2. IsFiniteSet(K)
  BY HistogramParts, FS_Subset DEF Contents
<1>3. HasAnyOf(J, I, K) = NotOver(J, I, i)
  BY DEF Contents, HasAnyOf, NotOver, HasIndex
<1>4. CountTo(h, i) = SumFunctionOnSet(h.counts, K)
  BY DEF CountTo
<1> HIDE DEF K
<1>5. SumFunctionOnSet(h.counts, K) = Cardinality(HasAnyOf(J, I, K))
  BY <1>1, <1>2, SumOfCounts
<1> QED BY <1>3, <1>4, <1>5

LEMMA OccupiedOf ==
  ASSUME NEW h, NEW J, NEW I, Contents(h, J, I)
  PROVE  /\ Occupied(h) \subseteq Indices
         /\ \A i : i \in Occupied(h) <=> \E j \in J : I[j] = i
<1>1. DOMAIN h.counts \subseteq Indices
  BY HistogramParts DEF Contents
<1>2. \A i \in DOMAIN h.counts : h.counts[i] # 0
  <2> TAKE i \in DOMAIN h.counts
  <2>1. HasIndex(J, I, i) # {} /\ IsFiniteSet(HasIndex(J, I, i))
    BY FS_Subset DEF Contents, HasIndex
  <2>2. Cardinality(HasIndex(J, I, i)) # 0
    BY <2>1, FS_EmptySet
  <2> QED BY <2>2 DEF Contents
<1>3. Occupied(h) = DOMAIN h.counts
  BY <1>2 DEF Occupied
<1>4. \A i : i \in DOMAIN h.counts <=> \E j \in J : I[j] = i
  BY DEF Contents, HasIndex
<1> QED BY <1>1, <1>3, <1>4

LEMMA ContentsNumbered ==
  ASSUME NEW h, NEW J, NEW I, Contents(h, J, I)
  PROVE  Numbered(J, I) /\ Occupied(h) \subseteq Nat
<1>1. IsFiniteSet(J) /\ \A j \in J : I[j] \in Indices
  BY DEF Contents
<1>2. \A j \in J : I[j] \in Nat
  BY <1>1, IndicesAreNumbers
<1>3. Occupied(h) \subseteq Indices
  BY OccupiedOf
<1>4. Occupied(h) \subseteq Nat
  BY <1>3, IndicesAreNumbers
<1> QED BY <1>1, <1>2, <1>4 DEF Numbered

(* The greatest and the least index are those of the extreme values.       *)
LEMMA ExtremesOf ==
  ASSUME NEW h, NEW J, NEW v, NEW I, Filled(h, J, v, I)
  PROVE  /\ Occupied(h) # {}
         /\ \E k \in J : (\A j \in J : v[j] <= v[k]) /\ Max(Occupied(h)) = counts_index_for(v[k])
         /\ \E k \in J : (\A j \in J : v[k] <= v[j]) /\ Min(Occupied(h)) = counts_index_for(v[k])
<1>1. Contents(h, J, I) /\ J # {} /\ \A j \in J : v[j] \in Nat /\ I[j] = counts_index_for(v[j])
  BY DEF Filled, Values
<1>2. Numbered(J, v)
  BY <1>1 DEF Contents, Numbered
<1>3. Occupied(h) \subseteq Nat /\ \A i : i \in Occupied(h) <=> \E j \in J : I[j] = i
  <2>1. Occupied(h) \subseteq Indices
    BY <1>1, OccupiedOf
  <2>2. \A i : i \in Occupied(h) <=> \E j \in J : I[j] = i
    BY <1>1, OccupiedOf
  <2>3. Occupied(h) \subseteq Nat
    BY <2>1, IndicesAreNumbers
  <2> QED BY <2>2, <2>3
<1>4. ASSUME NEW k \in J, \A j \in J : v[j] <= v[k] PROVE Max(Occupied(h)) = counts_index_for(v[k])
  <2>1. I[k] \in Occupied(h) /\ \A i \in Occupied(h) : I[k] >= i
    BY <1>1, <1>3, <1>4, IndexOrder
  <2>2. \A m \in Occupied(h) : (\A i \in Occupied(h) : m >= i) => m = I[k]
    BY <1>3, <2>1
  <2> QED BY <1>1, <2>1, <2>2 DEF Max
<1>5. ASSUME NEW k \in J, \A j \in J : v[k] <= v[j] PROVE Min(Occupied(h)) = counts_index_for(v[k])
  <2>1. I[k] \in Occupied(h) /\ \A i \in Occupied(h) : I[k] <= i
    BY <1>1, <1>3, <1>5, IndexOrder
  <2>2. \A m \in Occupied(h) : (\A i \in Occupied(h) : m <= i) => m = I[k]
    BY <1>3, <2>1
  <2> QED BY <1>1, <2>1, <2>2 DEF Min
<1>6. Occupied(h) # {}
  BY <1>1, <1>3
<1> QED BY <1>1, <1>2, <1>4, <1>5, <1>6, Extremes

LEMMA HighestAtIs ==
  ASSUME NEW v \in Nat, counts_index_for(v) \in Indices
  PROVE  HighestAt[counts_index_for(v)] = highest_equivalent_value(v)
<1>1. HighestAt[counts_index_for(v)] = highest_equivalent_value(value_from_index(counts_index_for(v)))
  BY DEF HighestAt, Indices
<1>2. value_from_index(counts_index_for(v)) = lowest_equivalent_value(v)
  BY RangeOf
<1>3. lowest_equivalent_value(v) \in Nat /\ lowest_equivalent_value(v) <= v /\ v <= highest_equivalent_value(v)
  BY RangeOf
<1>4. lowest_equivalent_value(v) <= highest_equivalent_value(v)
  BY <1>3, RangeOf
<1>5. highest_equivalent_value(lowest_equivalent_value(v)) = highest_equivalent_value(v)
  BY <1>3, <1>4, SameRange
<1> QED BY <1>1, <1>2, <1>5

RankOf(p, n) == AtLeast((2 * p * n + 100000) \div 200000, 1)

LEMMA RankIn ==
  ASSUME NEW n \in Nat \ {0}, NEW p \in Nat, p <= 100000
  PROVE  RankOf(p, n) \in Nat \ {0} /\ RankOf(p, n) <= n
<1> DEFINE m == p * n
<1>1. m \in Nat /\ m <= 100000 * n
  <2>1. \A a, b \in Nat : a * b \in Nat
    OBVIOUS
  <2>2. (100000 - p) * n \in Nat
    BY <2>1
  <2>3. (100000 - p) * n = 100000 * n - p * n
    OBVIOUS
  <2> QED BY <2>1, <2>2, <2>3
<1>2. 2 * p * n = 2 * m
  OBVIOUS
<1> HIDE DEF m
<1>3. RankOf(p, n) = AtLeast((2 * m + 100000) \div 200000, 1)
  BY <1>2 DEF RankOf
<1>4. (2 * m + 100000) \div 200000 \in Nat /\ (2 * m + 100000) \div 200000 <= n
  BY <1>1
<1> QED BY <1>3, <1>4 DEF AtLeast

(* A percentile is the end of the range of a value that has its rank.      *)
LEMMA PercentileOf ==
  ASSUME NEW h, NEW J, NEW v, NEW I, Filled(h, J, v, I), NEW p \in Nat, p <= 100000
  PROVE  \E k \in J : /\ Cardinality(Under(J, v, v[k])) < RankOf(p, Cardinality(J))
                      /\ RankOf(p, Cardinality(J)) <= Cardinality(NotOver(J, v, v[k]))
                      /\ hdr_value_at_percentile(h, p) = highest_equivalent_value(v[k])
<1> DEFINE rank == RankOf(p, Cardinality(J))
           hit == {i \in Occupied(h) : CountTo(h, i) >= rank}
<1>1. Contents(h, J, I) /\ J # {} /\ IsFiniteSet(J) /\ \A j \in J : v[j] \in Nat /\ I[j] = counts_index_for(v[j]) /\ I[j] \in Indices
  BY DEF Filled, Values, Contents
<1>2. Numbered(J, v) /\ Numbered(J, I) /\ h.total = Cardinality(J)
  <2>1. Numbered(J, v) /\ h.total = Cardinality(J)
    BY <1>1 DEF Contents, Numbered
  <2> QED BY <1>1, <2>1, ContentsNumbered
<1>3. rank \in Nat \ {0} /\ rank <= Cardinality(J)
  <2>1. Cardinality(J) \in Nat \ {0}
    BY <1>1, FS_EmptySet, FS_CardinalityType
  <2> QED BY <2>1, RankIn
<1> HIDE DEF rank
<1>4. PICK k \in J : Cardinality(Under(J, v, v[k])) < rank /\ rank <= Cardinality(NotOver(J, v, v[k]))
  BY <1>2, <1>3, RankIsTaken
<1>5. /\ Occupied(h) \subseteq Nat /\ \A i : i \in Occupied(h) <=> \E j \in J : I[j] = i
  <2>1. Occupied(h) \subseteq Nat
    BY <1>1, ContentsNumbered
  <2>2. \A i : i \in Occupied(h) <=> \E j \in J : I[j] = i
    BY <1>1, OccupiedOf
  <2> QED BY <2>1, <2>2
<1>6. \A i \in Nat : CountTo(h, i) = Cardinality(NotOver(J, I, i)) /\ CountTo(h, i) \in Nat
  BY <1>1, <1>2, CountToOf, UnderFinite
<1>7. I[k] \in hit
  <2>1. NotOver(J, v, v[k]) \in SUBSET NotOver(J, I, I[k])
    BY <1>1, IndexOrder DEF NotOver
  <2>2. IsFiniteSet(NotOver(J, I, I[k]))
    BY <1>2, UnderFinite
  <2>3. Cardinality(NotOver(J, v, v[k])) <= Cardinality(NotOver(J, I, I[k]))
    BY <2>1, <2>2, FS_Subset
  <2>4. Cardinality(NotOver(J, v, v[k])) \in Nat /\ I[k] \in Nat /\ I[k] \in Occupied(h)
    BY <1>2, <1>5, UnderFinite
  <2> QED BY <1>3, <1>4, <1>6, <2>3, <2>4
<1>8. ASSUME NEW i \in hit PROVE I[k] <= i
  <2> SUFFICES ASSUME i < I[k] PROVE FALSE
    BY <1>5, <1>7
  <2>1. NotOver(J, I, i) \in SUBSET Under(J, v, v[k])
    <3> SUFFICES ASSUME NEW j \in J, I[j] <= i PROVE v[j] < v[k]
      BY DEF NotOver, Under
    <3>1. I[j] < I[k] /\ I[j] \in Nat /\ I[k] \in Nat
      BY <1>1, <1>5, IndicesAreNumbers
    <3>2. v[k] <= v[j] => I[k] <= I[j]
      BY <1>1, IndexOrder
    <3> QED BY <1>1, <3>1, <3>2
  <2>2. Cardinality(NotOver(J, I, i)) <= Cardinality(Under(J, v, v[k]))
    BY <1>2, <2>1, UnderFinite, FS_Subset
  <2>3. Cardinality(Under(J, v, v[k])) \in Nat
    BY <1>2, UnderFinite
  <2> QED BY <1>3, <1>4, <1>5, <1>6, <2>2, <2>3
<1>9. Min(hit) = I[k]
  <2>1. \A m \in hit : (\A i \in hit : m <= i) => m = I[k]
    BY <1>5, <1>7, <1>8
  <2> HIDE DEF hit
  <2> QED BY <1>7, <1>8, <2>1 DEF Min
<1>10. hdr_value_at_percentile(h, p) = IF hit = {} THEN 0 ELSE HighestAt[Min(hit)]
  BY <1>2 DEF hdr_value_at_percentile, rank, RankOf
<1>11. hdr_value_at_percentile(h, p) = HighestAt[I[k]]
  BY <1>7, <1>9, <1>10
<1>12. HighestAt[I[k]] = highest_equivalent_value(v[k])
  BY <1>1, HighestAtIs
<1> QED BY <1>4, <1>11, <1>12 DEF rank

LEMMA ExtremesRead ==
  ASSUME NEW h, NEW J, NEW v, NEW I, Filled(h, J, v, I)
  PROVE  /\ \E k \in J : /\ \A j \in J : v[j] <= v[k]
                         /\ hdr_max(h) <= v[k] /\ v[k] <= highest_equivalent_value(hdr_max(h))
         /\ \E k \in J : /\ \A j \in J : v[k] <= v[j]
                         /\ hdr_min(h) <= v[k] /\ v[k] <= highest_equivalent_value(hdr_min(h))
<1>1. Occupied(h) # {} /\ \A j \in J : v[j] \in Nat /\ counts_index_for(v[j]) \in Indices
  BY ExtremesOf DEF Filled, Values, Contents
<1>2. ASSUME NEW x \in Nat
      PROVE  /\ lowest_equivalent_value(x) <= x /\ x <= highest_equivalent_value(lowest_equivalent_value(x))
             /\ lowest_equivalent_value(highest_equivalent_value(x)) = lowest_equivalent_value(x)
             /\ value_from_index(counts_index_for(x)) = lowest_equivalent_value(x)
  <2>1. /\ lowest_equivalent_value(x) \in Nat /\ highest_equivalent_value(x) \in Nat
        /\ lowest_equivalent_value(x) <= x /\ x <= highest_equivalent_value(x)
        /\ value_from_index(counts_index_for(x)) = lowest_equivalent_value(x)
    BY RangeOf
  <2>2. lowest_equivalent_value(x) <= highest_equivalent_value(x)
    BY <2>1
  <2>3. highest_equivalent_value(lowest_equivalent_value(x)) = highest_equivalent_value(x)
    BY <2>1, <2>2, SameRange
  <2>4. lowest_equivalent_value(highest_equivalent_value(x)) = lowest_equivalent_value(x)
    BY <2>1, <2>2, SameRange
  <2> QED BY <2>1, <2>3, <2>4
<1>3. \E k \in J : /\ \A j \in J : v[j] <= v[k]
                   /\ hdr_max(h) <= v[k] /\ v[k] <= highest_equivalent_value(hdr_max(h))
  <2>1. PICK k \in J : (\A j \in J : v[j] <= v[k]) /\ Max(Occupied(h)) = counts_index_for(v[k])
    BY ExtremesOf
  <2>2. hdr_max(h) = lowest_equivalent_value(highest_equivalent_value(v[k]))
    BY <1>1, <2>1, HighestAtIs DEF hdr_max
  <2> QED BY <1>1, <1>2, <2>1, <2>2
<1>4. \E k \in J : /\ \A j \in J : v[k] <= v[j]
                   /\ hdr_min(h) <= v[k] /\ v[k] <= highest_equivalent_value(hdr_min(h))
  <2>1. PICK k \in J : (\A j \in J : v[k] <= v[j]) /\ Min(Occupied(h)) = counts_index_for(v[k])
    BY ExtremesOf
  <2>2. hdr_min(h) = lowest_equivalent_value(v[k])
    BY <1>1, <1>2, <2>1 DEF hdr_min
  <2> QED BY <1>1, <1>2, <2>1, <2>2
<1> QED BY <1>3, <1>4

-----------------------------------------------------------------------------
(* What parse_args returns.                                                *)
Config == [threads : Nat, connections : Nat, duration : Nat, timeout : Nat, rate : Nat,
           record_all_responses : BOOLEAN, print_all_responses : BOOLEAN, print_realtime_latency : BOOLEAN,
           ok : BOOLEAN]

ProductTable(x, D) ==
  CHOOSE g : g = [s \in SUBSET D |-> IF s = {} THEN 1 ELSE [j \in D |-> x][Pick(s)] * g[s \ {Pick(s)}]]

LEMMA MultipleIsFold ==
  ASSUME NEW m, NEW i
  PROVE  Multiple(m, i) = ProductTable(m.scale, 1 .. i)[1 .. i]
BY DEF Multiple, FoldFunction, FoldFunctionOnSet, MapThenFoldSet, Pick, ProductTable

LEMMA MultipleType ==
  ASSUME NEW m, m.scale \in Nat, NEW i \in Nat
  PROVE  Multiple(m, i) \in Nat
<1> DEFINE D == 1 .. i
           x == m.scale
           e == [j \in D |-> x]
           Fold(g, s) == IF s = {} THEN 1 ELSE e[Pick(s)] * g[s \ {Pick(s)}]
           pick == [s \in SUBSET D |-> Pick(s)]
           step == [j \in D |-> [n \in Nat |-> x * n]]
<1>1. \A s \in SUBSET D : s # {} => pick[s] = Pick(s) /\ Pick(s) \in s
  BY DEF Pick
<1>2. \A a, b \in Nat : a * b \in Nat
  OBVIOUS
<1>3. x \in Nat /\ \A j \in D : e[j] = x
  OBVIOUS
<1>4. IsFiniteSet(D)
  BY FS_Interval
<1> HIDE DEF D, x
<1>5. step \in [D -> [Nat -> Nat]]
  BY <1>2, <1>3
<1>6. \A j \in D, n \in Nat : step[j][n] = x * n
  OBVIOUS
<1> HIDE DEF pick, step, e
<1> DEFINE k == FoldTable(D, Nat, 1, pick, step)
           h == [s \in SUBSET D |-> k[s]]
<1>7. /\ \A s \in SUBSET D : k[s] \in Nat
      /\ k[{}] = 1
      /\ \A s \in SUBSET D : s # {} => k[s] = step[pick[s]][k[Less(s, pick[s])]]
  <2>1. Foldable(D, Nat, 1, pick, step)
    BY <1>1, <1>4, <1>5 DEF Foldable
  <2> QED BY <2>1, FoldExists
<1> HIDE DEF k
<1>8. ASSUME NEW s \in SUBSET D PROVE h[s] = Fold(h, s)
  <2>1. CASE s = {}
    BY <1>7, <2>1
  <2>2. CASE s # {}
    <3>1. pick[s] = Pick(s) /\ Pick(s) \in D /\ s \ {Pick(s)} \in SUBSET D
      BY <1>1, <2>2
    <3>2. h[s] = step[Pick(s)][h[s \ {Pick(s)}]] /\ h[s \ {Pick(s)}] \in Nat
      BY <1>7, <2>2, <3>1 DEF Less
    <3>3. h[s] = x * h[s \ {Pick(s)}]
      BY <1>6, <3>1, <3>2
    <3> HIDE DEF h
    <3> QED BY <1>3, <2>2, <3>1, <3>3
  <2> QED BY <2>1, <2>2
<1> DEFINE t == ProductTable(x, D)
<1>9. h = [s \in SUBSET D |-> Fold(h, s)]
  BY <1>8
<1> HIDE DEF h, Fold
<1>10. t = [s \in SUBSET D |-> Fold(t, s)]
  <2>1. t = CHOOSE q : q = [s \in SUBSET D |-> Fold(q, s)]
    BY DEF ProductTable, Fold, e
  <2> HIDE DEF t
  <2> QED BY <1>9, <2>1
<1> HIDE DEF t
<1>11. t[{}] = 1 /\ \A s \in SUBSET D : s # {} => t[s] = x * t[Less(s, Pick(s))]
  <2>1. \A s \in SUBSET D : t[s] = Fold(t, s)
    BY <1>10
  <2>2. \A s \in SUBSET D : s # {} => e[Pick(s)] = x
    BY <1>1, <1>3
  <2> QED BY <2>1, <2>2 DEF Fold, Less
<1> DEFINE P == {s \in SUBSET D : t[s] \in Nat}
<1>12. {} \in P
  BY <1>11
<1>13. ASSUME NEW s \in SUBSET D, s # {}, \A y \in s : s \ {y} \in P PROVE s \in P
  <2>1. t[Less(s, Pick(s))] \in Nat
    BY <1>1, <1>13 DEF Less
  <2>2. t[s] \in Nat
    BY <1>2, <1>3, <1>11, <1>13, <2>1
  <2> QED BY <2>2
<1>14. D \in P
  <2> HIDE DEF P
  <2> QED BY <1>4, <1>12, <1>13, OneByOne
<1> QED BY <1>14, MultipleIsFold DEF t, D, x

LEMMA UnitsShape ==
  /\ time_units.scale \in Nat /\ metric_units.scale \in Nat
  /\ \A i \in DOMAIN time_units.units : i \in Nat
  /\ \A i \in DOMAIN metric_units.units : i \in Nat
<1>1. time_units.scale \in Nat
  BY DEF time_units
<1>2. metric_units.scale \in Nat
  BY DEF metric_units
<1>3. DOMAIN (time_units.units) \in SUBSET Nat
  BY DEF time_units
<1>4. DOMAIN (metric_units.units) \in SUBSET Nat
  BY DEF metric_units
<1> QED BY <1>1, <1>2, <1>3, <1>4

LEMMA UnitsScanned ==
  ASSUME NEW arg \in [base : Nat, unit : STRING], NEW m \in {time_units, metric_units}
  PROVE  scan_units(arg, m) \subseteq Nat
<1>1. UINT64_MAX + 1 \in Nat \ {0}
  <2>1. UINT64_MAX \in Nat
    BY ReportAssumption
  <2> QED BY <2>1
<1>2. ASSUME NEW i \in DOMAIN m.units PROVE Multiple(m, i) \in Nat
  <2>1. time_units.scale \in Nat /\ metric_units.scale \in Nat
    BY UnitsShape
  <2>2. m.scale \in Nat
    BY <2>1
  <2>3. i \in Nat
    BY UnitsShape
  <2> QED BY <2>2, <2>3, MultipleType
<1>3. arg.base \in Nat
  OBVIOUS
<1>4. \A a, c \in Nat, b \in Nat \ {0} : a % b \in Nat /\ (a * c) % b \in Nat
  <2>1. \A a, c \in Nat : a * c \in Nat
    OBVIOUS
  <2>2. \A a \in Nat, b \in Nat \ {0} : a % b \in Nat
    OBVIOUS
  <2> QED BY <2>1, <2>2
<1> DEFINE u == UINT64_MAX + 1
<1>5. \A i \in DOMAIN m.units : (arg.base * Multiple(m, i)) % u \in Nat
  BY <1>1, <1>2, <1>3, <1>4
<1>6. arg.base % u \in Nat
  BY <1>1, <1>3, <1>4
<1>7. scan_units(arg, m) = IF arg.unit \in {"", m.base} THEN {arg.base % u}
                          ELSE {(arg.base * Multiple(m, i)) % u : i \in {i \in DOMAIN m.units : m.units[i] = arg.unit}}
  BY DEF scan_units
<1> HIDE DEF u
<1>8. CASE arg.unit \in {"", m.base}
  <2>1. scan_units(arg, m) = {arg.base % u}
    BY <1>7, <1>8
  <2> QED BY <1>6, <2>1
<1>9. CASE arg.unit \notin {"", m.base}
  <2>1. scan_units(arg, m) = {(arg.base * Multiple(m, i)) % u : i \in {i \in DOMAIN m.units : m.units[i] = arg.unit}}
    BY <1>7, <1>9
  <2> QED BY <1>5, <2>1
<1> QED BY <1>8, <1>9

LEMMA OptionParsed ==
  ASSUME NEW c \in Config, NEW opt \in Option
  PROVE  parse_option(c, opt) \in Config
<1>1. ASSUME opt.flag \in DOMAIN Numeric PROVE SetNumber(c, opt) \in Config
  <2> DEFINE m == IF opt.flag \in {"d", "T"} THEN time_units ELSE metric_units
             n == scan_units(opt.arg, m)
             x == (CHOOSE v \in n : TRUE) * (IF opt.flag = "T" THEN S ELSE 1)
  <2>1. n \subseteq Nat
    <3>1. opt.arg \in [base : Nat, unit : STRING] /\ m \in {time_units, metric_units}
      BY DEF Option
    <3> QED BY <3>1, UnitsScanned
  <2> HIDE DEF n
  <2>2. n # {} => x \in Nat
    <3>1. n # {} => (CHOOSE v \in n : TRUE) \in Nat
      BY <2>1
    <3>2. S \in Nat /\ \A a, b \in Nat : a * b \in Nat
      BY ReportAssumption
    <3> QED BY <3>1, <3>2
  <2> HIDE DEF x
  <2>3. Numeric[opt.flag] \in {"threads", "connections", "rate", "duration", "timeout"}
    BY <1>1 DEF Numeric
  <2>4. x \in Nat => [c EXCEPT ![Numeric[opt.flag]] = x] \in Config
    BY <2>3 DEF Config
  <2>5. [c EXCEPT !.ok = FALSE] \in Config
    BY DEF Config
  <2>6. SetNumber(c, opt) = IF n = {} THEN [c EXCEPT !.ok = FALSE] ELSE [c EXCEPT ![Numeric[opt.flag]] = x]
    BY DEF SetNumber, n, m, x
  <2> QED BY <2>2, <2>4, <2>5, <2>6
<1>2. /\ [c EXCEPT !.print_all_responses = TRUE] \in Config /\ [c EXCEPT !.print_realtime_latency = TRUE] \in Config
      /\ [c EXCEPT !.record_all_responses = FALSE] \in Config /\ [c EXCEPT !.ok = FALSE] \in Config
  BY DEF Config
<1> QED BY <1>1, <1>2 DEF parse_option

ParseTable(options) ==
  CHOOSE g : g = [s \in SUBSET DOMAIN options |->
                    IF s = {} THEN Defaults ELSE parse_option(g[s \ {Max(s)}], options[Max(s)])]

LEMMA ParseIsFold ==
  ASSUME NEW options
  PROVE  FoldLeft(parse_option, Defaults, options) = ParseTable(options)[DOMAIN options]
BY DEF FoldLeft, MapThenFoldSet, ParseTable

LEMMA OptionsParsed ==
  ASSUME NEW options \in Seq(Option)
  PROVE  FoldLeft(parse_option, Defaults, options) \in Config
<1> DEFINE n == Len(options)
           D == 1 .. n
           Fold(g, s) == IF s = {} THEN Defaults ELSE parse_option(g[s \ {Max(s)}], options[Max(s)])
           pick == [s \in SUBSET D |-> Max(s)]
           step == [i \in D |-> [c \in Config |-> parse_option(c, options[i])]]
<1>1. n \in Nat /\ DOMAIN options = D /\ \A i \in D : options[i] \in Option
  OBVIOUS
<1>2. IsFiniteSet(D)
  BY <1>1, FS_Interval
<1>3. \A s \in SUBSET D : s # {} => pick[s] = Max(s) /\ Max(s) \in s
  BY <1>1, LastIndex
<1> HIDE DEF n, D
<1>4. \A i \in D, c \in Config : parse_option(c, options[i]) \in Config
  BY <1>1, OptionParsed
<1>5. step \in [D -> [Config -> Config]]
  BY <1>4
<1>6. \A i \in D, c \in Config : step[i][c] = parse_option(c, options[i])
  OBVIOUS
<1>7. Defaults \in Config
  BY ReportAssumption DEF Defaults, Config
<1> HIDE DEF pick, step
<1> DEFINE k == FoldTable(D, Config, Defaults, pick, step)
           h == [s \in SUBSET D |-> k[s]]
<1>8. /\ \A s \in SUBSET D : k[s] \in Config
      /\ k[{}] = Defaults
      /\ \A s \in SUBSET D : s # {} => k[s] = step[pick[s]][k[Less(s, pick[s])]]
  <2>1. Foldable(D, Config, Defaults, pick, step)
    BY <1>2, <1>3, <1>5, <1>7 DEF Foldable
  <2> QED BY <2>1, FoldExists
<1> HIDE DEF k
<1>9. ASSUME NEW s \in SUBSET D PROVE h[s] = Fold(h, s)
  <2>1. CASE s = {}
    BY <1>8, <2>1
  <2>2. CASE s # {}
    <3>1. pick[s] = Max(s) /\ Max(s) \in D /\ s \ {Max(s)} \in SUBSET D
      BY <1>3, <2>2
    <3>2. h[s] = step[Max(s)][h[s \ {Max(s)}]] /\ h[s \ {Max(s)}] \in Config
      BY <1>8, <2>2, <3>1 DEF Less
    <3> QED BY <1>6, <2>2, <3>1, <3>2
  <2> QED BY <2>1, <2>2
<1> DEFINE t == ParseTable(options)
<1>10. h = [s \in SUBSET D |-> Fold(h, s)]
  BY <1>9
<1> HIDE DEF h, Fold
<1>11. t = [s \in SUBSET D |-> Fold(t, s)]
  <2>1. t = CHOOSE q : q = [s \in SUBSET D |-> Fold(q, s)]
    BY <1>1 DEF ParseTable, Fold
  <2> HIDE DEF t
  <2> QED BY <1>10, <2>1
<1> HIDE DEF t
<1>12. t[{}] = Defaults /\ \A s \in SUBSET D : s # {} => t[s] = parse_option(t[Less(s, Max(s))], options[Max(s)])
  BY <1>11 DEF Fold, Less
<1> DEFINE P == {s \in SUBSET D : t[s] \in Config}
<1>13. {} \in P
  BY <1>7, <1>12
<1>14. ASSUME NEW s \in SUBSET D, s # {}, \A x \in s : s \ {x} \in P PROVE s \in P
  <2>1. Max(s) \in s /\ t[Less(s, Max(s))] \in Config
    BY <1>3, <1>14 DEF Less
  <2>2. parse_option(t[Less(s, Max(s))], options[Max(s)]) \in Config
    BY <1>1, <2>1, OptionParsed
  <2> QED BY <1>12, <1>14, <2>2
<1>15. D \in P
  <2> HIDE DEF P
  <2> QED BY <1>2, <1>13, <1>14, OneByOne
<1> QED BY <1>1, <1>15, ParseIsFold DEF t

Accepted(c) == /\ c.threads \in Nat \ {0} /\ c.connections >= c.threads
               /\ c.duration # 0 /\ c.rate # 0

LEMMA ArgsParsed ==
  ASSUME NEW options \in Seq(Option)
  PROVE  parse_args(options) \in Config /\ (parse_args(options).ok => Accepted(parse_args(options)))
<1> DEFINE c == FoldLeft(parse_option, Defaults, options)
           ok == c.ok /\ c.threads # 0 /\ c.duration # 0 /\ c.connections # 0 /\ c.connections >= c.threads /\ c.rate # 0
<1>1. c \in Config
  BY OptionsParsed
<1>2. parse_args(options) = [c EXCEPT !.ok = ok]
  BY <1>1 DEF parse_args, Config
<1> HIDE DEF c
<1>3. ok \in BOOLEAN
  BY <1>1 DEF Config
<1>4. [c EXCEPT !.ok = ok] \in Config
  <2> HIDE DEF ok
  <2> QED BY <1>1, <1>3 DEF Config
<1>5. [c EXCEPT !.ok = ok].ok => Accepted([c EXCEPT !.ok = ok])
  BY <1>1 DEF Accepted, Config
<1> QED BY <1>2, <1>4, <1>5

-----------------------------------------------------------------------------
(* The invariant.  c is the configuration, k the position of the clock and *)
(* th the structure of the thread t.                                       *)
Events == {"calibrate", "check_timeouts", "sample_rate"}
Timers == UNION {[E -> Nat] : E \in SUBSET Events}
Conn   == [start : Nat, starts : Seq(Nat), uncounted : Seq(Nat)]
Conns(c)  == 1 .. c.connections \div c.threads
Target(c) == (c.rate \div c.threads) \div 10
StopAt(c) == Instants[1] + c.duration * S * MS

ThreadRecord(c) ==
  [pc : {"created", "running", "stopping", "gone"}, complete : Nat, requests : Nat, start : Nat, interval : Nat,
   latency : Histograms, real : Histograms, monitored : Nat, timeouts : Nat,
   due : Timers, cs : [Conns(c) -> Conn], raw : [0 .. MAXL - 1 -> Nat],
   printed : Seq(Nat), recorded : Seq(Nat), early : Nat, late : Nat, rated : Nat]

(* Every response is in the sample of a rate or in the next one; it was    *)
(* recorded if latencies are, unless it came after the end.                *)
Counted(c, th) ==
  /\ th.complete = th.rated + th.requests
  /\ th.early <= Len(th.recorded)
  /\ c.record_all_responses => th.complete = Len(th.recorded) + th.late
  /\ ~c.record_all_responses => th.recorded = <<>>

(* What rests on the order of the readings holds until the clock is set    *)
(* back: once a response has come after the end, no reading is before it.  *)
Back(k) == \E i \in 1 .. k - 1 : Instants[i + 1] < Instants[i]
Ended(c, k, th) == ~Back(k) /\ th.late > 0 => Instants[k] >= StopAt(c)

(* Requests are bounded.                                                   *)
Awaited(cs) == SumFunction([x \in DOMAIN cs |-> Len(cs[x].starts)])
Shared(c, th) == th.complete + Awaited(th.cs) <= MaxSends \div c.threads

(* No sample of the rate is due before an interval is over.                *)
Paced(k, due, start, interval) ==
  ~Back(k) /\ "sample_rate" \in DOMAIN due => interval >= MinInterval /\ due["sample_rate"] >= start + interval * MS

(* The histogram h of a thread has the latencies r since the calibration,  *)
(* that of the window the last m, those since it was reset.                *)
KeptBy(t, e, r)  == {<<t, j>> : j \in e + 1 .. Len(r)}
KeptAt(t, e, r)  == [p \in KeptBy(t, e, r) |-> counts_index_for(r[p[2]])]
WindowOf(m, r)   == Len(r) - m + 1 .. Len(r)
RecordedAt(r)    == [j \in DOMAIN r |-> counts_index_for(r[j])]
Latencies(t, e, r, h) == Contents(h, KeptBy(t, e, r), KeptAt(t, e, r))
Window(c, m, r, h) ==
  /\ m <= Len(r)
  /\ Target(c) > 0 => m = Len(r) % Target(c)
  /\ Contents(h, WindowOf(m, r), RecordedAt(r))

(* The j-th latency is the j-th entry of the raw latencies.                *)
RawIs(c, k, raw, r) ==
  ~Back(k) /\ c.print_all_responses /\ c.record_all_responses =>
    \A j \in 0 .. MAXL - 1 : raw[j] = IF j \in DOMAIN r THEN r[j] ELSE 0

ThreadInv(c, k, t, th) ==
  /\ th \in ThreadRecord(c)
  /\ Counted(c, th) /\ Ended(c, k, th) /\ Shared(c, th)
  /\ Paced(k, th.due, th.start, th.interval)
  /\ Latencies(t, th.early, th.recorded, th.latency)
  /\ Window(c, th.monitored, th.recorded, th.real)
  /\ RawIs(c, k, th.raw, th.recorded)

TypeOK ==
  /\ cfg \in Config /\ run \in {"usage", "running", "dead", "printed"}
  /\ clock \in 1 .. Len(Instants) /\ stop \in BOOLEAN /\ statistics \in Histograms
  /\ run = "usage" => threads = <<>>
  /\ run # "usage" => Accepted(cfg) /\ threads \in [0 .. cfg.threads - 1 -> ThreadRecord(cfg)]

IInv == TypeOK /\ DeathIsKnown /\ \A t \in DOMAIN threads : ThreadInv(cfg, clock, t, threads[t])

-----------------------------------------------------------------------------
(* Facts about the constants and the parts of a thread.                    *)
LEMMA Readings ==
  ASSUME NEW k \in 1 .. Len(Instants)
  PROVE  Instants[k] \in Nat /\ Instants[1] \in Nat /\ Len(Instants) \in Nat
<1>1. Instants \in Seq(Nat)
  BY ReportAssumption
<1> QED BY <1>1

LEMMA Later ==
  ASSUME NEW k \in 1 .. Len(Instants) - 1
  PROVE  /\ k \in 1 .. Len(Instants) /\ k + 1 \in 1 .. Len(Instants)
         /\ Instants[k + 1] < Instants[k] => Back(k + 1)
         /\ ~Back(k + 1) => ~Back(k) /\ Instants[k] <= Instants[k + 1]
<1>1. Len(Instants) \in Nat
  BY ReportAssumption
<1>2. k \in 1 .. Len(Instants) /\ k + 1 \in 1 .. Len(Instants) /\ k \in 1 .. (k + 1) - 1 /\ k \in Nat
  BY <1>1
<1>3. Instants[k] \in Nat /\ Instants[k + 1] \in Nat
  BY <1>2, Readings
<1>4. Back(k) => Back(k + 1)
  <2>1. 1 .. k - 1 \subseteq 1 .. (k + 1) - 1
    BY <1>2
  <2> QED BY <2>1 DEF Back
<1>5. Instants[k + 1] < Instants[k] => Back(k + 1)
  BY <1>2 DEF Back
<1> QED BY <1>2, <1>3, <1>4, <1>5

LEMMA Milliseconds == MS \in Nat \ {0} /\ S \in Nat \ {0} /\ MinInterval \in Nat \ {0} /\ MAXL \in Nat \ {0}
BY ReportAssumption

LEMMA ConnsOf ==
  ASSUME NEW c \in Config, Accepted(c)
  PROVE  /\ c.connections \div c.threads \in Nat /\ c.rate \div c.threads \in Nat /\ Target(c) \in Nat
         /\ IsFiniteSet(Conns(c)) /\ StopAt(c) \in Int
<1>1. c.connections \in Nat /\ c.rate \in Nat /\ c.threads \in Nat \ {0} /\ c.duration \in Nat
  BY DEF Config, Accepted
<1>2. c.connections \div c.threads \in Nat /\ c.rate \div c.threads \in Nat
  BY <1>1, Quotient
<1>3. Target(c) \in Nat
  BY <1>2, Quotient DEF Target
<1>4. IsFiniteSet(Conns(c))
  BY <1>2, FS_Interval DEF Conns
<1>5. StopAt(c) \in Int
  <2>1. Instants[1] \in Nat
    <3>1. Instants \in Seq(Nat) /\ Instants # <<>>
      BY ReportAssumption
    <3> QED BY <3>1
  <2> QED BY <1>1, <2>1, Milliseconds DEF StopAt
<1> QED BY <1>2, <1>3, <1>4, <1>5

LEMMA TimerSet ==
  ASSUME NEW due \in Timers, NEW event \in Events, NEW time \in Nat
  PROVE  [e \in DOMAIN due \cup {event} |-> IF e = event THEN time ELSE due[e]] \in Timers
<1>1. PICK E \in SUBSET Events : due \in [E -> Nat]
  BY DEF Timers
<1>2. [e \in DOMAIN due \cup {event} |-> IF e = event THEN time ELSE due[e]] \in [E \cup {event} -> Nat]
  BY <1>1
<1>3. E \cup {event} \in SUBSET Events
  BY <1>1
<1> QED BY <1>2, <1>3 DEF Timers

LEMMA TimerTaken ==
  ASSUME NEW due \in Timers, NEW event
  PROVE  Restrict(due, DOMAIN due \ {event}) \in Timers
<1>1. PICK E \in SUBSET Events : due \in [E -> Nat]
  BY DEF Timers
<1>2. Restrict(due, DOMAIN due \ {event}) \in [E \ {event} -> Nat]
  BY <1>1 DEF Restrict
<1> QED BY <1>1, <1>2 DEF Timers

(* What a step keeps that neither sends nor receives.                      *)
LEMMA Untouched ==
  ASSUME NEW c, NEW k, NEW t, NEW th, ThreadInv(c, k, t, th), NEW new \in ThreadRecord(c),
         new.complete = th.complete, new.cs = th.cs, new.late = th.late, new.early = th.early,
         new.recorded = th.recorded, new.latency = th.latency, new.monitored = th.monitored,
         new.real = th.real, new.raw = th.raw, new.rated + new.requests = th.rated + th.requests,
         Paced(k, new.due, new.start, new.interval)
  PROVE  ThreadInv(c, k, t, new)
<1>1. Counted(c, new)
  BY DEF ThreadInv, Counted
<1>2. Ended(c, k, new)
  BY DEF ThreadInv, Ended
<1>3. Shared(c, new)
  BY DEF ThreadInv, Shared
<1>4. Latencies(t, new.early, new.recorded, new.latency)
  BY DEF ThreadInv
<1>5. Window(c, new.monitored, new.recorded, new.real) /\ RawIs(c, k, new.raw, new.recorded)
  BY DEF ThreadInv
<1> QED BY <1>1, <1>2, <1>3, <1>4, <1>5 DEF ThreadInv

LEMMA Started ==
  ASSUME NEW c, NEW k \in 1 .. Len(Instants), NEW t, NEW th, ThreadInv(c, k, t, th),
         NEW due \in Timers, ~("sample_rate" \in DOMAIN due)
  PROVE  ThreadInv(c, k, t, [th EXCEPT !.pc = "running", !.start = Instants[k], !.due = due])
<1> DEFINE new == [th EXCEPT !.pc = "running", !.start = Instants[k], !.due = due]
<1>1. th \in ThreadRecord(c)
  BY DEF ThreadInv
<1>2. new \in ThreadRecord(c)
  BY <1>1, Readings DEF ThreadRecord
<1>3. /\ new.complete = th.complete /\ new.cs = th.cs /\ new.late = th.late /\ new.early = th.early
      /\ new.recorded = th.recorded /\ new.latency = th.latency /\ new.monitored = th.monitored
      /\ new.real = th.real /\ new.raw = th.raw /\ new.rated = th.rated /\ new.requests = th.requests
  BY <1>1 DEF ThreadRecord
<1>4. Paced(k, new.due, new.start, new.interval)
  BY <1>1 DEF ThreadRecord, Paced
<1> HIDE DEF new
<1>5. ThreadInv(c, k, t, new)
  BY <1>2, <1>3, <1>4, Untouched
<1> QED BY <1>5 DEF new

LEMMA TimedOut ==
  ASSUME NEW c, NEW k \in 1 .. Len(Instants), NEW t, NEW th, ThreadInv(c, k, t, th),
         NEW n \in Nat, NEW pc \in {"running", "stopping"}, NEW time \in Nat
  PROVE  ThreadInv(c, k, t, At([th EXCEPT !.timeouts = n, !.pc = pc], "check_timeouts", time))
<1> DEFINE due == [e \in DOMAIN th.due \cup {"check_timeouts"} |-> IF e = "check_timeouts" THEN time ELSE th.due[e]]
           new == [th EXCEPT !.timeouts = n, !.pc = pc, !.due = due]
<1>1. th \in ThreadRecord(c)
  BY DEF ThreadInv
<1>2. due \in Timers
  BY <1>1, TimerSet DEF ThreadRecord, Events
<1>3. At([th EXCEPT !.timeouts = n, !.pc = pc], "check_timeouts", time) = new
  BY <1>1 DEF At, ThreadRecord
<1>4. "sample_rate" \in DOMAIN due => "sample_rate" \in DOMAIN th.due /\ due["sample_rate"] = th.due["sample_rate"]
  OBVIOUS
<1> HIDE DEF due
<1>5. new \in ThreadRecord(c)
  BY <1>1, <1>2 DEF ThreadRecord
<1>6. /\ new.complete = th.complete /\ new.cs = th.cs /\ new.late = th.late /\ new.early = th.early
      /\ new.recorded = th.recorded /\ new.latency = th.latency /\ new.monitored = th.monitored
      /\ new.real = th.real /\ new.raw = th.raw /\ new.rated = th.rated /\ new.requests = th.requests
      /\ new.due = due /\ new.start = th.start /\ new.interval = th.interval
  BY <1>1 DEF ThreadRecord
<1>7. Paced(k, new.due, new.start, new.interval)
  BY <1>4, <1>6 DEF ThreadInv, Paced
<1> HIDE DEF new
<1>8. ThreadInv(c, k, t, new)
  BY <1>5, <1>6, <1>7, Untouched
<1> QED BY <1>3, <1>8

LEMMA Gone ==
  ASSUME NEW c, NEW k, NEW t, NEW th, ThreadInv(c, k, t, th)
  PROVE  ThreadInv(c, k, t, [th EXCEPT !.pc = "gone"])
<1> DEFINE new == [th EXCEPT !.pc = "gone"]
<1>1. th \in ThreadRecord(c)
  BY DEF ThreadInv
<1>2. new \in ThreadRecord(c)
  BY <1>1 DEF ThreadRecord
<1>3. /\ new.complete = th.complete /\ new.cs = th.cs /\ new.late = th.late /\ new.early = th.early
      /\ new.recorded = th.recorded /\ new.latency = th.latency /\ new.monitored = th.monitored
      /\ new.real = th.real /\ new.raw = th.raw /\ new.rated = th.rated /\ new.requests = th.requests
      /\ new.due = th.due /\ new.start = th.start /\ new.interval = th.interval
  BY <1>1 DEF ThreadRecord
<1>4. Paced(k, new.due, new.start, new.interval)
  BY <1>3 DEF ThreadInv
<1> HIDE DEF new
<1>5. ThreadInv(c, k, t, new)
  BY <1>2, <1>3, <1>4, Untouched
<1> QED BY <1>5 DEF new

LEMMA AwaitedType ==
  ASSUME NEW c \in Config, Accepted(c), NEW cs \in [Conns(c) -> Conn]
  PROVE  Awaited(cs) \in Nat
<1> DEFINE f == [x \in DOMAIN cs |-> Len(cs[x].starts)]
<1>1. IsFiniteSet(DOMAIN cs)
  BY ConnsOf
<1>2. \A x \in DOMAIN cs : f[x] \in Nat
  <2> TAKE x \in DOMAIN cs
  <2>1. cs[x].starts \in Seq(Nat)
    BY DEF Conn
  <2> QED BY <2>1
<1>3. Awaited(cs) = SumFunctionOnSet(f, DOMAIN cs)
  BY DEF Awaited, SumFunction
<1> HIDE DEF f
<1>4. Summable(f, DOMAIN cs)
  BY <1>1, <1>2 DEF Summable
<1> QED BY <1>3, <1>4, SumType

LEMMA Rest ==
  ASSUME NEW c \in Nat \ {0}, NEW a \in Int
  PROVE  a % c \in Nat
OBVIOUS

(* The rate is in the range of the histogram when any time has passed, and *)
(* an interval has unless the clock was set back.                          *)
LEMMA RateTaken ==
  ASSUME NEW c \in Config, Accepted(c), NEW k \in 1 .. Len(Instants), NEW t, NEW th, ThreadInv(c, k, t, th),
         "sample_rate" \in DOMAIN th.due, th.due["sample_rate"] <= Instants[k]
  PROVE  LET elapsed == ((Instants[k] - th.start) % (UINT64_MAX + 1)) \div MS
             rate    == (th.requests * S) \div elapsed
         IN  /\ elapsed \in Nat /\ (~Back(k) => elapsed # 0)
             /\ elapsed # 0 => rate \in Nat /\ rate <= highest_trackable_value
<1> DEFINE gap      == Instants[k] - th.start
           readings == UINT64_MAX + 1
           elapsed  == (gap % readings) \div MS
           rate     == (th.requests * S) \div elapsed
<1>1. th \in ThreadRecord(c)
  BY DEF ThreadInv
<1>2. /\ th.start \in Nat /\ th.interval \in Nat /\ th.requests \in Nat /\ th.rated \in Nat /\ th.complete \in Nat
      /\ th.cs \in [Conns(c) -> Conn] /\ th.due \in Timers
  BY <1>1 DEF ThreadRecord
<1>3. th.due["sample_rate"] \in Nat
  BY <1>2 DEF Timers
<1>a. /\ gap \in Int /\ readings \in Nat \ {0} /\ gap % readings \in Nat /\ elapsed \in Nat
      /\ gap \in Nat /\ gap < readings => gap % readings = gap
  <2>1. Instants[k] \in Nat /\ UINT64_MAX \in Nat
    BY Readings, ReportAssumption
  <2>2. gap \in Int /\ readings \in Nat \ {0}
    BY <1>2, <2>1
  <2> HIDE DEF gap, readings
  <2>3. gap % readings \in Nat
    BY <2>2, Rest
  <2>4. gap \in Nat /\ gap < readings => gap % readings = gap
    BY <2>2, ModRange
  <2>5. elapsed \in Nat
    BY <2>3, Quotient, Milliseconds
  <2> QED BY <2>2, <2>3, <2>4, <2>5
<1>b. ASSUME ~Back(k)
      PROVE  elapsed # 0
  <2>4. th.interval >= MinInterval /\ th.due["sample_rate"] >= th.start + th.interval * MS
    BY <1>b DEF ThreadInv, Paced
  <2>5. th.interval * MS >= 1 * MS /\ th.interval * MS \in Nat
    <3> DEFINE i == th.interval
    <3>1. i \in Nat /\ i >= 1 /\ MS \in Nat \ {0}
      BY <1>2, <2>4, Milliseconds
    <3> HIDE DEF i
    <3>2. i * MS >= 1 * MS
      BY <3>1, Scaled
    <3>3. i * MS \in Nat
      BY <3>1
    <3> QED BY <3>2, <3>3 DEF i
  <2>6. Instants[k] - th.start \in Nat /\ Instants[k] - th.start >= 1 * MS
    <3> DEFINE wait == th.interval * MS
               fires == th.due["sample_rate"]
               now == Instants[k]
               start == th.start
    <3>1. wait \in Nat /\ fires \in Nat /\ now \in Nat /\ start \in Nat /\ 1 * MS = MS /\ MS \in Nat
      BY <1>2, <1>3, <2>5, Readings, Milliseconds
    <3>2. wait >= 1 * MS /\ fires >= start + wait /\ fires <= now
      BY <2>4, <2>5
    <3> HIDE DEF wait, fires, now, start
    <3>3. now - start \in Nat /\ now - start >= 1 * MS
      BY <3>1, <3>2
    <3> QED BY <3>3 DEF now, start
  <2>7. gap % readings = gap
    <3>1. Instants[k] <= UINT64_MAX /\ k \in DOMAIN Instants
      BY ReportAssumption
    <3>2. Instants[k] \in Nat /\ UINT64_MAX \in Nat
      BY Readings, ReportAssumption
    <3>3. gap < readings
      BY <1>2, <3>1, <3>2
    <3> QED BY <1>a, <2>6, <3>3
  <2>8. elapsed \in Nat /\ gap < (elapsed + 1) * MS
    <3> HIDE DEF gap
    <3> QED BY <1>a, <2>7, Quotient, Milliseconds
  <2>9. elapsed = 0 => gap < 1 * MS
    BY <2>8
  <2> QED BY <2>6, <2>8, <2>9, Milliseconds
<1>8. th.requests <= MaxSends
  <2>1. th.complete + Awaited(th.cs) <= MaxSends \div c.threads /\ th.complete = th.rated + th.requests
    BY DEF ThreadInv, Shared, Counted
  <2>2. Awaited(th.cs) \in Nat
    BY <1>2, AwaitedType
  <2>3. c.threads \in Nat \ {0} /\ MaxSends \in Nat
    BY ReportAssumption DEF Accepted
  <2>4. MaxSends \div c.threads \in Nat /\ (MaxSends \div c.threads) * c.threads <= MaxSends
    BY <2>3, Quotient
  <2> DEFINE share == MaxSends \div c.threads
             n == c.threads
  <2>5. share \in Nat /\ share * n <= MaxSends /\ n \in Nat \ {0} /\ MaxSends \in Nat
    BY <2>3, <2>4
  <2>6. th.complete + Awaited(th.cs) <= share
    BY <2>1
  <2> HIDE DEF share, n
  <2>7. share <= MaxSends
    <3>1. share <= share * n
      BY <2>5
    <3>2. share * n \in Nat
      BY <2>5
    <3> QED BY <2>5, <3>1, <3>2
  <2> QED BY <1>2, <2>1, <2>2, <2>5, <2>6, <2>7
<1>9. th.requests * S \in Nat /\ th.requests * S <= highest_trackable_value
  <2>1. MaxSends \in Nat /\ MaxSends * S <= highest_trackable_value
    BY ReportAssumption
  <2>2. highest_trackable_value \in Nat
    BY HdrAssumption
  <2>3. th.requests * S <= MaxSends * S
    BY <1>2, <1>8, <2>1, Milliseconds, Scaled
  <2>4. th.requests * S \in Nat /\ MaxSends * S \in Nat
    BY <1>2, <2>1, Milliseconds
  <2> QED BY <2>1, <2>2, <2>3, <2>4
<1>10. ASSUME elapsed # 0
       PROVE  rate \in Nat /\ rate <= th.requests * S
  <2> HIDE DEF elapsed
  <2>1. rate \in Nat /\ rate * elapsed <= th.requests * S
    BY <1>a, <1>9, <1>10, Quotient
  <2>2. rate * 1 <= rate * elapsed
    BY <1>a, <1>10, <2>1
  <2>3. rate * elapsed \in Nat /\ rate * 1 = rate
    BY <1>a, <2>1
  <2> HIDE DEF rate
  <2> QED BY <1>9, <2>1, <2>2, <2>3
<1>11. elapsed # 0 => rate <= highest_trackable_value
  <2> HIDE DEF rate, elapsed
  <2>1. highest_trackable_value \in Nat
    BY HdrAssumption
  <2> QED BY <1>9, <1>10, <2>1
<1> QED BY <1>a, <1>b, <1>10, <1>11

LEMMA SampledKeeps ==
  ASSUME NEW c \in Config, Accepted(c), NEW k \in 1 .. Len(Instants), NEW t, NEW th, ThreadInv(c, k, t, th),
         "sample_rate" \in DOMAIN th.due
  PROVE  ThreadInv(c, k, t, At([th EXCEPT !.requests = 0, !.start = Instants[k], !.rated = @ + th.requests],
                               "sample_rate", Instants[k] + th.interval * MS))
<1> DEFINE time == Instants[k] + th.interval * MS
           due == [e \in DOMAIN th.due \cup {"sample_rate"} |-> IF e = "sample_rate" THEN time ELSE th.due[e]]
           new == [th EXCEPT !.requests = 0, !.start = Instants[k], !.rated = th.rated + th.requests, !.due = due]
<1>1. th \in ThreadRecord(c)
  BY DEF ThreadInv
<1>2. th.interval \in Nat /\ th.due \in Timers /\ th.requests \in Nat /\ th.rated \in Nat
  BY <1>1 DEF ThreadRecord
<1>3. time \in Nat
  <2>1. th.interval * MS \in Nat
    BY <1>2, Milliseconds
  <2> QED BY <2>1, Readings
<1>4. due \in Timers
  <2> HIDE DEF time
  <2> QED BY <1>2, <1>3, TimerSet DEF Events
<1>5. At([th EXCEPT !.requests = 0, !.start = Instants[k], !.rated = @ + th.requests], "sample_rate", time) = new
  BY <1>1 DEF At, ThreadRecord
<1>6. due["sample_rate"] = time /\ "sample_rate" \in DOMAIN due
  OBVIOUS
<1> HIDE DEF due
<1>7. th.rated + th.requests \in Nat
  BY <1>2
<1>8. new \in ThreadRecord(c)
  BY <1>1, <1>4, <1>7, Readings DEF ThreadRecord
<1>9. /\ new.complete = th.complete /\ new.cs = th.cs /\ new.late = th.late /\ new.early = th.early
      /\ new.recorded = th.recorded /\ new.latency = th.latency /\ new.monitored = th.monitored
      /\ new.real = th.real /\ new.raw = th.raw /\ new.rated = th.rated + th.requests /\ new.requests = 0
      /\ new.due = due /\ new.start = Instants[k] /\ new.interval = th.interval
  BY <1>1 DEF ThreadRecord
<1>10. Paced(k, new.due, new.start, new.interval)
  <2>1. ~Back(k) => th.interval >= MinInterval
    BY DEF ThreadInv, Paced
  <2>2. due["sample_rate"] >= Instants[k] + th.interval * MS
    BY <1>3, <1>6
  <2> QED BY <1>9, <2>1, <2>2 DEF Paced
<1>11. new.rated + new.requests = th.rated + th.requests
  BY <1>9, <1>7
<1> HIDE DEF new
<1>12. ThreadInv(c, k, t, new)
  BY <1>8, <1>9, <1>10, <1>11, Untouched
<1> QED BY <1>5, <1>12

LEMMA PercentileType ==
  ASSUME NEW h \in Histograms, NEW p
  PROVE  hdr_value_at_percentile(h, p) \in Nat
<1> DEFINE rank == AtLeast((2 * p * h.total + 100000) \div 200000, 1)
           hit  == {i \in Occupied(h) : CountTo(h, i) >= rank}
<1>1. hit \in SUBSET Indices
  BY HistogramParts DEF Occupied
<1>2. hdr_value_at_percentile(h, p) = IF hit = {} THEN 0 ELSE HighestAt[Min(hit)]
  BY DEF hdr_value_at_percentile
<1> HIDE DEF hit
<1>3. ASSUME hit # {}
      PROVE  HighestAt[Min(hit)] \in Nat
  <2>1. Min(hit) \in Indices
    BY <1>1, <1>3, LeastIndex
  <2>2. Min(hit) \in Nat
    BY <2>1, IndicesAreNumbers
  <2>3. HighestAt[Min(hit)] = highest_equivalent_value(value_from_index(Min(hit)))
    BY <2>1 DEF HighestAt, Indices
  <2> QED BY <2>2, <2>3, ValueOf, RangeOf
<1> QED BY <1>2, <1>3

(* What calibrate sets aside, and the rate it starts to sample.            *)
LEMMA Calibrated ==
  ASSUME NEW c, NEW k \in 1 .. Len(Instants), NEW t, NEW th, ThreadInv(c, k, t, th),
         NEW interval \in Nat, interval >= MinInterval
  PROVE  ThreadInv(c, k, t,
           At(Without([th EXCEPT !.latency = hdr_init, !.start = Instants[k], !.interval = interval,
                                 !.requests = 0, !.rated = @ + th.requests, !.early = Len(th.recorded)],
                      "calibrate"), "sample_rate", Instants[k] + interval * MS))
<1> DEFINE time == Instants[k] + interval * MS
           left == Restrict(th.due, DOMAIN th.due \ {"calibrate"})
           due  == [e \in DOMAIN left \cup {"sample_rate"} |-> IF e = "sample_rate" THEN time ELSE left[e]]
           new  == [th EXCEPT !.latency = hdr_init, !.start = Instants[k], !.interval = interval, !.requests = 0,
                              !.rated = th.rated + th.requests, !.early = Len(th.recorded), !.due = due]
<1>1. th \in ThreadRecord(c)
  BY DEF ThreadInv
<1>2. th.due \in Timers /\ th.requests \in Nat /\ th.rated \in Nat /\ th.recorded \in Seq(Nat)
  BY <1>1 DEF ThreadRecord
<1>3. time \in Nat
  <2>1. interval * MS \in Nat
    BY Milliseconds
  <2> QED BY <2>1, Readings
<1>4. due \in Timers
  <2>1. left \in Timers
    BY <1>2, TimerTaken
  <2> HIDE DEF time, left
  <2> QED BY <1>3, <2>1, TimerSet DEF Events
<1>5. At(Without([th EXCEPT !.latency = hdr_init, !.start = Instants[k], !.interval = interval,
                            !.requests = 0, !.rated = @ + th.requests, !.early = Len(th.recorded)],
                 "calibrate"), "sample_rate", time) = new
  <2> DEFINE base == [th EXCEPT !.latency = hdr_init, !.start = Instants[k], !.interval = interval,
                                !.requests = 0, !.rated = @ + th.requests, !.early = Len(th.recorded)]
             mid  == [th EXCEPT !.latency = hdr_init, !.start = Instants[k], !.interval = interval,
                                !.requests = 0, !.rated = th.rated + th.requests, !.early = Len(th.recorded),
                                !.due = left]
  <2>1. Without(base, "calibrate") = mid
    BY <1>1 DEF Without, ThreadRecord
  <2> HIDE DEF time, left
  <2>2. At(mid, "sample_rate", time) = new
    BY <1>1 DEF At, ThreadRecord
  <2> QED BY <2>1, <2>2
<1>6. due["sample_rate"] = time /\ "sample_rate" \in DOMAIN due
  OBVIOUS
<1> HIDE DEF due
<1>7. th.rated + th.requests \in Nat /\ Len(th.recorded) \in Nat
  BY <1>2
<1>8. hdr_init \in Histograms
  BY EmptyContents
<1>9. new \in ThreadRecord(c)
  BY <1>1, <1>4, <1>7, <1>8, Readings DEF ThreadRecord
<1>10. /\ new.complete = th.complete /\ new.cs = th.cs /\ new.late = th.late /\ new.early = Len(th.recorded)
       /\ new.recorded = th.recorded /\ new.latency = hdr_init /\ new.monitored = th.monitored
       /\ new.real = th.real /\ new.raw = th.raw /\ new.rated = th.rated + th.requests /\ new.requests = 0
       /\ new.due = due /\ new.start = Instants[k] /\ new.interval = interval
  BY <1>1 DEF ThreadRecord
<1> HIDE DEF new
<1>11. Paced(k, new.due, new.start, new.interval)
  <2>1. due["sample_rate"] >= Instants[k] + interval * MS
    BY <1>3, <1>6
  <2> QED BY <1>10, <2>1 DEF Paced
<1>12. Counted(c, new)
  <2>1. Counted(c, th)
    BY DEF ThreadInv
  <2> QED BY <1>7, <1>10, <2>1 DEF Counted
<1>13. Ended(c, k, new) /\ Shared(c, new)
  BY <1>10 DEF ThreadInv, Ended, Shared
<1>14. Latencies(t, new.early, new.recorded, new.latency)
  <2>1. KeptBy(t, Len(th.recorded), th.recorded) = {}
    BY <1>7 DEF KeptBy
  <2>2. Latencies(t, Len(th.recorded), th.recorded, hdr_init)
    BY <2>1, EmptyContents DEF Latencies
  <2> QED BY <1>10, <2>2
<1>15. Window(c, new.monitored, new.recorded, new.real) /\ RawIs(c, k, new.raw, new.recorded)
  BY <1>10 DEF ThreadInv
<1>16. ThreadInv(c, k, t, new)
  BY <1>9, <1>11, <1>12, <1>13, <1>14, <1>15 DEF ThreadInv
<1> QED BY <1>5, <1>16

(* The clock goes on, or it is set back and a thread sees it.              *)
LEMMA Aged ==
  ASSUME NEW c \in Config, Accepted(c), NEW k \in 1 .. Len(Instants) - 1, NEW t, NEW th, ThreadInv(c, k, t, th)
  PROVE  ThreadInv(c, k + 1, t, th)
<1>1. /\ k \in 1 .. Len(Instants) /\ k + 1 \in 1 .. Len(Instants)
      /\ ~Back(k + 1) => ~Back(k) /\ Instants[k] <= Instants[k + 1]
  BY Later
<1>2. Instants[k] \in Nat /\ Instants[k + 1] \in Nat /\ StopAt(c) \in Int
  BY <1>1, Readings, ConnsOf
<1>3. Ended(c, k + 1, th)
  BY <1>1, <1>2 DEF ThreadInv, Ended
<1>4. Paced(k + 1, th.due, th.start, th.interval)
  BY <1>1 DEF ThreadInv, Paced
<1>5. RawIs(c, k + 1, th.raw, th.recorded)
  BY <1>1 DEF ThreadInv, RawIs
<1> QED BY <1>3, <1>4, <1>5 DEF ThreadInv

LEMMA AllDue ==
  ASSUME NEW c, NEW k, Back(k), NEW t, NEW th, ThreadInv(c, k, t, th)
  PROVE  ThreadInv(c, k, t, Noticed(th))
<1> DEFINE due == [event \in DOMAIN th.due |-> 0]
           new == [th EXCEPT !.due = due]
<1>1. th \in ThreadRecord(c)
  BY DEF ThreadInv
<1>2. due \in Timers
  <2>1. PICK E \in SUBSET Events : th.due \in [E -> Nat]
    BY <1>1 DEF ThreadRecord, Timers
  <2>2. due \in [E -> Nat]
    BY <2>1
  <2> HIDE DEF due
  <2> QED BY <2>2 DEF Timers
<1>3. Noticed(th) = new
  BY <1>1 DEF Noticed, ThreadRecord
<1> HIDE DEF due
<1>4. new \in ThreadRecord(c)
  BY <1>1, <1>2 DEF ThreadRecord
<1>5. /\ new.complete = th.complete /\ new.cs = th.cs /\ new.late = th.late /\ new.early = th.early
      /\ new.recorded = th.recorded /\ new.latency = th.latency /\ new.monitored = th.monitored
      /\ new.real = th.real /\ new.raw = th.raw /\ new.rated = th.rated /\ new.requests = th.requests
  BY <1>1 DEF ThreadRecord
<1>6. Paced(k, new.due, new.start, new.interval)
  BY DEF Paced
<1> HIDE DEF new
<1>7. ThreadInv(c, k, t, new)
  BY <1>4, <1>5, <1>6, Untouched
<1> QED BY <1>3, <1>7

(* Sending on one connection.                                              *)
LEMMA OneConnection ==
  ASSUME NEW c \in Config, Accepted(c), NEW cs \in [Conns(c) -> Conn], NEW x \in Conns(c), NEW conn \in Conn
  PROVE  /\ [cs EXCEPT ![x] = conn] \in [Conns(c) -> Conn]
         /\ Awaited([cs EXCEPT ![x] = conn]) - Len(conn.starts) = Awaited(cs) - Len(cs[x].starts)
         /\ Awaited(cs) \in Nat /\ Awaited([cs EXCEPT ![x] = conn]) \in Nat
<1> DEFINE new == [cs EXCEPT ![x] = conn]
           D == Conns(c)
           f == [y \in DOMAIN cs |-> Len(cs[y].starts)]
           g == [y \in DOMAIN new |-> Len(new[y].starts)]
<1>1. new \in [Conns(c) -> Conn]
  OBVIOUS
<1>2. Awaited(cs) \in Nat /\ Awaited(new) \in Nat
  BY <1>1, AwaitedType
<1>3. Awaited(cs) = SumFunctionOnSet(f, D) /\ Awaited(new) = SumFunctionOnSet(g, D)
  BY DEF Awaited, SumFunction
<1>4. f[x] = Len(cs[x].starts) /\ g[x] = Len(conn.starts)
  OBVIOUS
<1>5. \A y \in Less(D, x) : g[y] = f[y]
  BY DEF Less
<1>6. \A y \in D : f[y] \in Nat /\ g[y] \in Nat
  <2> TAKE y \in D
  <2>1. cs[y].starts \in Seq(Nat) /\ new[y].starts \in Seq(Nat)
    BY <1>1 DEF Conn
  <2> QED BY <2>1
<1>7. Summable(f, D) /\ Summable(g, D) /\ x \in D
  BY <1>6, ConnsOf DEF Summable
<1> HIDE DEF f, g, D
<1>8. /\ SumFunctionOnSet(f, D) = f[x] + SumFunctionOnSet(f, Less(D, x)) /\ Summable(f, Less(D, x))
      /\ SumFunctionOnSet(f, Less(D, x)) \in Nat
  BY <1>7, SumTakesOut
<1>9. SumFunctionOnSet(g, D) = g[x] + SumFunctionOnSet(g, Less(D, x))
  BY <1>7, SumTakesOut
<1>10. SumFunctionOnSet(g, Less(D, x)) = SumFunctionOnSet(f, Less(D, x))
  BY <1>5, <1>8, SumAgrees
<1>11. f[x] \in Nat /\ g[x] \in Nat
  BY <1>6, <1>7
<1>12. Awaited(new) - Len(conn.starts) = Awaited(cs) - Len(cs[x].starts)
  BY <1>3, <1>4, <1>8, <1>9, <1>10, <1>11
<1> QED BY <1>1, <1>2, <1>12

LEMMA NextRest ==
  ASSUME NEW n \in Nat, NEW d \in Nat \ {0}
  PROVE  /\ n % d \in Nat /\ n % d < d
         /\ (n % d) + 1 = d => (n + 1) % d = 0
         /\ (n % d) + 1 # d => (n + 1) % d = (n % d) + 1
<1> DEFINE q == n \div d
           r == n % d
           p == (n + 1) \div d
           s == (n + 1) % d
<1>1. r \in 0 .. d - 1 /\ s \in 0 .. d - 1
  BY ModRange
<1>2. q \in Nat /\ p \in Nat
  BY Quotient
<1>3. n = q * d + r /\ n + 1 = p * d + s
  BY DivMod
<1>4. (q + 1) * d = q * d + d /\ (q + 2) * d = q * d + 2 * d /\ q * d \in Nat /\ p * d \in Nat
  BY <1>2
<1>5. ASSUME r + 1 = d PROVE s = 0
  <2>1. n + 1 = (q + 1) * d
    BY <1>1, <1>3, <1>4, <1>5
  <2>2. (q + 1) * d <= n + 1 /\ n + 1 < (q + 1 + 1) * d /\ q + 1 \in Int
    BY <2>1, <1>2
  <2>3. q + 1 = p
    <3> HIDE DEF q
    <3>1. n + 1 \in Nat
      OBVIOUS
    <3> QED BY <2>2, <3>1, Quotient
  <2>4. p * d = n + 1
    BY <2>1, <2>3
  <2> HIDE DEF p, q, r, s
  <2> QED BY <1>1, <1>3, <2>4
<1>6. ASSUME r + 1 # d PROVE s = r + 1
  <2>1. q * d <= n + 1 /\ n + 1 < (q + 1) * d /\ q \in Int
    <3> HIDE DEF q, r, p, s
    <3> QED BY <1>1, <1>2, <1>3, <1>4, <1>6
  <2>2. q = p
    <3> HIDE DEF q
    <3>1. n + 1 \in Nat
      OBVIOUS
    <3> QED BY <2>1, <3>1, Quotient
  <2>3. p * d = q * d
    BY <2>2
  <2> HIDE DEF p, q, r, s
  <2> QED BY <1>1, <1>3, <1>4, <2>3
<1> HIDE DEF p, q, r, s
<1>7. r \in Nat /\ r < d /\ (r + 1 = d => s = 0) /\ (r + 1 # d => s = r + 1)
  BY <1>1, <1>5, <1>6
<1> QED BY <1>7 DEF r, s

(* A request is one more that is awaited.                                  *)
LEMMA Requested ==
  ASSUME NEW c \in Config, Accepted(c), NEW k \in 1 .. Len(Instants), NEW t, NEW th, ThreadInv(c, k, t, th),
         NEW x \in Conns(c), th.complete + Pending(th) < MaxSends \div c.threads
  PROVE  ThreadInv(c, k, t, [th EXCEPT !.cs[x] = [th.cs[x] EXCEPT !.start = Instants[k],
                                                                  !.starts = Append(@, Instants[k])]])
<1> DEFINE rest == Append(th.cs[x].starts, Instants[k])
           conn == [th.cs[x] EXCEPT !.start = Instants[k], !.starts = rest]
           cs   == [th.cs EXCEPT ![x] = conn]
           new  == [th EXCEPT !.cs = cs]
<1>1. th \in ThreadRecord(c)
  BY DEF ThreadInv
<1>2. th.cs \in [Conns(c) -> Conn] /\ th.complete \in Nat
  BY <1>1 DEF ThreadRecord
<1>3. th.cs[x] \in Conn /\ th.cs[x].starts \in Seq(Nat) /\ Instants[k] \in Nat
  BY <1>2, Readings DEF Conn
<1>4. conn \in Conn /\ Len(conn.starts) = Len(th.cs[x].starts) + 1 /\ Len(th.cs[x].starts) \in Nat
  <2>1. rest \in Seq(Nat)
    BY <1>3
  <2>2. conn.starts = rest
    BY <1>3 DEF Conn
  <2>3. conn \in Conn
    <3> HIDE DEF rest
    <3> QED BY <1>3, <2>1 DEF Conn
  <2> QED BY <1>3, <2>2, <2>3
<1>5. [th EXCEPT !.cs[x] = [th.cs[x] EXCEPT !.start = Instants[k], !.starts = Append(@, Instants[k])]] = new
  BY <1>1 DEF ThreadRecord
<1> HIDE DEF conn
<1>7. cs \in [Conns(c) -> Conn] /\ Awaited(cs) = Awaited(th.cs) + 1 /\ Awaited(th.cs) \in Nat
  <2> DEFINE was == th.cs
  <2>1. was \in [Conns(c) -> Conn] /\ conn \in Conn
    BY <1>2, <1>4
  <2> HIDE DEF was
  <2>2. /\ [was EXCEPT ![x] = conn] \in [Conns(c) -> Conn]
        /\ Awaited([was EXCEPT ![x] = conn]) - Len(conn.starts) = Awaited(was) - Len(was[x].starts)
        /\ Awaited(was) \in Nat /\ Awaited([was EXCEPT ![x] = conn]) \in Nat
    BY <2>1, OneConnection
  <2>3. cs = [was EXCEPT ![x] = conn] /\ was[x] = th.cs[x]
    BY DEF was
  <2> DEFINE a == Awaited(was)
             b == Awaited(cs)
             l == Len(conn.starts)
             o == Len(th.cs[x].starts)
  <2>4. a \in Nat /\ b \in Nat /\ b - l = a - o /\ cs \in [Conns(c) -> Conn]
    BY <2>2, <2>3
  <2>5. l \in Nat /\ o \in Nat /\ l = o + 1
    BY <1>4
  <2> HIDE DEF a, b, l, o, was
  <2>6. b = a + 1
    BY <2>4, <2>5
  <2> QED BY <2>4, <2>6 DEF a, b, was
<1>9. Pending(th) = Awaited(th.cs)
  BY DEF Pending, Awaited
<1> HIDE DEF cs
<1>10. new \in ThreadRecord(c)
  BY <1>1, <1>7 DEF ThreadRecord
<1>11. /\ new.complete = th.complete /\ new.cs = cs /\ new.late = th.late /\ new.early = th.early
       /\ new.recorded = th.recorded /\ new.latency = th.latency /\ new.monitored = th.monitored
       /\ new.real = th.real /\ new.raw = th.raw /\ new.rated = th.rated /\ new.requests = th.requests
       /\ new.due = th.due /\ new.start = th.start /\ new.interval = th.interval
  BY <1>1 DEF ThreadRecord
<1> HIDE DEF new
<1>12. MaxSends \div c.threads \in Nat
  <2>1. c.threads \in Nat \ {0} /\ MaxSends \in Nat
    BY ReportAssumption DEF Accepted
  <2> QED BY <2>1, Quotient
<1>13. Shared(c, new)
  BY <1>2, <1>7, <1>9, <1>11, <1>12 DEF Shared
<1>14. Counted(c, new) /\ Ended(c, k, new)
  BY <1>11 DEF ThreadInv, Counted, Ended
<1>15. /\ Paced(k, new.due, new.start, new.interval)
       /\ Latencies(t, new.early, new.recorded, new.latency)
       /\ Window(c, new.monitored, new.recorded, new.real) /\ RawIs(c, k, new.raw, new.recorded)
  BY <1>11 DEF ThreadInv
<1>16. ThreadInv(c, k, t, new)
  BY <1>10, <1>13, <1>14, <1>15 DEF ThreadInv
<1> QED BY <1>5, <1>16

(* A response is one that is awaited no more: the parts of a thread that   *)
(* do not depend on what becomes of its latency.                           *)
Counting(th, x, ended) ==
  [th EXCEPT !.complete = @ + 1, !.requests = @ + 1, !.cs[x] = Answered(th.cs[x], ended)]

LEMMA FirstAndRest ==
  ASSUME NEW s \in Seq(Nat), s # <<>>
  PROVE  Head(s) \in Nat /\ Tail(s) \in Seq(Nat)
<1>1. Len(s) \in Nat /\ Len(s) # 0
  OBVIOUS
<1>2. s[1] \in Nat /\ Head(s) = s[1]
  BY <1>1
<1>3. Tail(s) \in Seq(Nat)
  BY <1>1
<1> QED BY <1>2, <1>3

LEMMA BothParts ==
  ASSUME NEW q \in Seq(Nat), NEW s \in Seq(Nat), s # <<>>
  PROVE  Head(q \o s) \in Nat
<1>1. Len(s) \in Nat /\ Len(s) # 0 /\ Len(q) \in Nat
  OBVIOUS
<1>2. q \o s \in Seq(Nat) /\ Len(q \o s) = Len(q) + Len(s)
  OBVIOUS
<1>3. q \o s # <<>>
  BY <1>1, <1>2
<1> QED BY <1>2, <1>3, FirstAndRest

LEMMA AnsweredKeeps ==
  ASSUME NEW c \in Config, Accepted(c), NEW k \in 1 .. Len(Instants), NEW t, NEW th, ThreadInv(c, k, t, th),
         NEW x \in Conns(c), NEW ended, th.cs[x].starts # <<>>
  PROVE  /\ Counting(th, x, ended) \in ThreadRecord(c)
         /\ Shared(c, Counting(th, x, ended))
         /\ Counting(th, x, ended).complete = th.complete + 1 /\ Counting(th, x, ended).requests = th.requests + 1
<1> DEFINE rest == Tail(th.cs[x].starts)
           noted == Append(th.cs[x].uncounted, Head(th.cs[x].starts))
           left == IF ended THEN noted ELSE Tail(noted)
           conn == [th.cs[x] EXCEPT !.starts = rest, !.uncounted = left]
           cs   == [th.cs EXCEPT ![x] = conn]
           new  == [th EXCEPT !.complete = th.complete + 1, !.requests = th.requests + 1, !.cs = cs]
<1>1. th \in ThreadRecord(c)
  BY DEF ThreadInv
<1>2. th.cs \in [Conns(c) -> Conn] /\ th.complete \in Nat /\ th.requests \in Nat
  BY <1>1 DEF ThreadRecord
<1>3. th.cs[x] \in Conn /\ th.cs[x].starts \in Seq(Nat) /\ th.cs[x].start \in Nat /\ th.cs[x].uncounted \in Seq(Nat)
  BY <1>2 DEF Conn
<1>4. /\ conn \in Conn /\ Len(conn.starts) = Len(th.cs[x].starts) - 1 /\ Len(th.cs[x].starts) \in Nat
      /\ Len(conn.starts) \in Nat
  <2>1. rest \in Seq(Nat) /\ left \in Seq(Nat)
    <3>1. rest \in Seq(Nat) /\ Head(th.cs[x].starts) \in Nat
      BY <1>3, FirstAndRest
    <3>2. noted \in Seq(Nat) /\ noted # <<>>
      <4> DEFINE first == Head(th.cs[x].starts)
                 was   == th.cs[x].uncounted
      <4>1. first \in Nat /\ was \in Seq(Nat)
        BY <1>3, <3>1
      <4> HIDE DEF first, was
      <4>2. Append(was, first) \in Seq(Nat) /\ Append(was, first) # <<>>
        BY <4>1
      <4> QED BY <4>2 DEF first, was
    <3> HIDE DEF noted
    <3>3. Tail(noted) \in Seq(Nat)
      BY <3>2, FirstAndRest
    <3> QED BY <3>1, <3>2, <3>3
  <2> HIDE DEF left
  <2>2. conn.starts = rest
    BY <1>3 DEF Conn
  <2>3. conn \in Conn
    <3> HIDE DEF rest
    <3> QED BY <1>3, <2>1 DEF Conn
  <2> QED BY <1>3, <2>2, <2>3
<1>5. Counting(th, x, ended) = new
  <2>1. Answered(th.cs[x], ended) = conn
    BY <1>3 DEF Answered, Conn
  <2> HIDE DEF conn
  <2> QED BY <1>1, <2>1 DEF ThreadRecord, Counting
<1> HIDE DEF conn
<1>7. cs \in [Conns(c) -> Conn] /\ Awaited(cs) = Awaited(th.cs) - 1 /\ Awaited(th.cs) \in Nat
  <2> DEFINE was == th.cs
  <2>1. was \in [Conns(c) -> Conn] /\ conn \in Conn
    BY <1>2, <1>4
  <2> HIDE DEF was
  <2>2. /\ [was EXCEPT ![x] = conn] \in [Conns(c) -> Conn]
        /\ Awaited([was EXCEPT ![x] = conn]) - Len(conn.starts) = Awaited(was) - Len(was[x].starts)
        /\ Awaited(was) \in Nat /\ Awaited([was EXCEPT ![x] = conn]) \in Nat
    BY <2>1, OneConnection
  <2>3. cs = [was EXCEPT ![x] = conn] /\ was[x] = th.cs[x]
    BY DEF was
  <2> DEFINE a == Awaited(was)
             b == Awaited(cs)
             l == Len(conn.starts)
             o == Len(th.cs[x].starts)
  <2>4. a \in Nat /\ b \in Nat /\ b - l = a - o /\ cs \in [Conns(c) -> Conn]
    BY <2>2, <2>3
  <2>5. l \in Nat /\ o \in Nat /\ l = o - 1
    BY <1>4
  <2> HIDE DEF a, b, l, o, was
  <2>6. b = a - 1
    BY <2>4, <2>5
  <2> QED BY <2>4, <2>6 DEF a, b, was
<1> HIDE DEF cs
<1>9. new \in ThreadRecord(c)
  <2>1. th.complete + 1 \in Nat /\ th.requests + 1 \in Nat
    BY <1>2
  <2> QED BY <1>1, <1>7, <2>1 DEF ThreadRecord
<1>10. new.complete = th.complete + 1 /\ new.cs = cs /\ new.requests = th.requests + 1
  BY <1>1 DEF ThreadRecord
<1> HIDE DEF new
<1>11. Shared(c, new)
  <2>1. new.complete + Awaited(new.cs) = th.complete + Awaited(th.cs)
    BY <1>2, <1>7, <1>10
  <2> QED BY <2>1 DEF ThreadInv, Shared
<1> QED BY <1>5, <1>9, <1>10, <1>11

(* A latency that is recorded.                                             *)
LEMMA OneMoreKept ==
  ASSUME NEW t, NEW e \in Nat, NEW r \in Seq(Nat), NEW h, e <= Len(r), Latencies(t, e, r, h),
         NEW l \in Nat, counts_index_for(l) \in Indices
  PROVE  Latencies(t, e, Append(r, l), hdr_record_value(h, l))
<1> DEFINE new == Append(r, l)
           J == KeptBy(t, e, r)
           X == {<<t, Len(r) + 1>>}
           I == KeptAt(t, e, new)
<1>1. Len(r) \in Nat /\ Len(new) = Len(r) + 1 /\ new[Len(r) + 1] = l
  OBVIOUS
<1>2. \A j \in 1 .. Len(r) : new[j] = r[j]
  OBVIOUS
<1> HIDE DEF new
<1>3. J \cup X = KeptBy(t, e, new)
  BY <1>1 DEF KeptBy
<1>4. J \cap X = {} /\ IsFiniteSet(X) /\ X # {} /\ Cardinality(X) = 1
  <2>1. J \cap X = {}
    BY <1>1 DEF KeptBy
  <2>2. IsFiniteSet(X) /\ X # {} /\ Cardinality(X) = 1
    BY FS_Singleton
  <2> QED BY <2>1, <2>2
<1>5. \A j \in J : I[j] = KeptAt(t, e, r)[j]
  <2> TAKE j \in J
  <2>1. PICK i \in e + 1 .. Len(r) : j = <<t, i>>
    BY DEF KeptBy
  <2>2. j \in KeptBy(t, e, new) /\ new[j[2]] = r[j[2]]
    BY <1>1, <1>2, <1>3, <2>1
  <2> QED BY <2>2 DEF KeptAt
<1>6. \A j \in X : I[j] = counts_index_for(l)
  BY <1>1, <1>3 DEF KeptAt
<1> HIDE DEF J, X, I
<1>7. Contents(h, J, KeptAt(t, e, r))
  BY DEF Latencies, J
<1>8. Contents(h, J, I)
  BY <1>5, <1>7, ContentsAgree
<1>9. Contents(hdr_record_values(h, l, Cardinality(X)), J \cup X, I)
  BY <1>4, <1>6, <1>8, RecordContents
<1>10. Contents(hdr_record_value(h, l), KeptBy(t, e, new), I)
  BY <1>3, <1>4, <1>9 DEF hdr_record_value
<1> QED BY <1>10 DEF Latencies, I, new

LEMMA OneMoreInWindow ==
  ASSUME NEW m \in Nat, NEW r \in Seq(Nat), NEW h, m <= Len(r), Contents(h, WindowOf(m, r), RecordedAt(r)),
         NEW l \in Nat, counts_index_for(l) \in Indices
  PROVE  Contents(hdr_record_value(h, l), WindowOf(m + 1, Append(r, l)), RecordedAt(Append(r, l)))
<1> DEFINE new == Append(r, l)
           J == WindowOf(m, r)
           X == {Len(r) + 1}
           I == RecordedAt(new)
<1>1. Len(r) \in Nat /\ Len(new) = Len(r) + 1 /\ new[Len(r) + 1] = l /\ DOMAIN new = 1 .. Len(r) + 1
  OBVIOUS
<1>2. \A j \in 1 .. Len(r) : new[j] = r[j]
  OBVIOUS
<1> HIDE DEF new
<1>3. J \cup X = WindowOf(m + 1, new)
  BY <1>1 DEF WindowOf
<1>4. J \cap X = {} /\ IsFiniteSet(X) /\ X # {} /\ Cardinality(X) = 1
  <2>1. J \cap X = {}
    BY <1>1 DEF WindowOf
  <2>2. IsFiniteSet(X) /\ X # {} /\ Cardinality(X) = 1
    BY FS_Singleton
  <2> QED BY <2>1, <2>2
<1>5. \A j \in J : I[j] = RecordedAt(r)[j]
  <2> TAKE j \in J
  <2>1. j \in 1 .. Len(r)
    BY <1>1 DEF WindowOf
  <2>2. new[j] = r[j] /\ j \in DOMAIN new /\ j \in DOMAIN r
    BY <1>1, <1>2, <2>1
  <2> QED BY <2>2 DEF RecordedAt
<1>6. \A j \in X : I[j] = counts_index_for(l)
  BY <1>1 DEF RecordedAt
<1> HIDE DEF J, X, I
<1>7. Contents(h, J, RecordedAt(r))
  BY DEF J
<1>8. Contents(h, J, I)
  BY <1>5, <1>7, ContentsAgree
<1>9. Contents(hdr_record_values(h, l, Cardinality(X)), J \cup X, I)
  BY <1>4, <1>6, <1>8, RecordContents
<1>10. Contents(hdr_record_value(h, l), WindowOf(m + 1, new), I)
  BY <1>3, <1>4, <1>9 DEF hdr_record_value
<1> QED BY <1>10 DEF I, new

(* The fields that the recording of a latency changes.                     *)
SameBut(a, b) ==
  /\ b.complete = a.complete /\ b.requests = a.requests /\ b.rated = a.rated /\ b.late = a.late
  /\ b.early = a.early /\ b.start = a.start /\ b.interval = a.interval /\ b.due = a.due /\ b.cs = a.cs

LEMMA WindowedKeeps ==
  ASSUME NEW th \in ThreadRecord(cfg), NEW t
  PROVE  /\ Windowed(t, th) \in ThreadRecord(cfg) /\ SameBut(th, Windowed(t, th))
         /\ Windowed(t, th).recorded = th.recorded /\ Windowed(t, th).latency = th.latency
         /\ Windowed(t, th).raw = th.raw
         /\ th.monitored # target => Windowed(t, th).monitored = th.monitored /\ Windowed(t, th).real = th.real
         /\ th.monitored = target => Windowed(t, th).monitored = 0 /\ Windowed(t, th).real = hdr_init
<1>1. CASE th.monitored # target
  BY <1>1 DEF Windowed, SameBut
<1>2. CASE th.monitored = target
  <2> DEFINE printed == IF cfg.print_realtime_latency /\ t = 0
                        THEN Append(th.printed, hdr_value_at_percentile(th.real, 99000)) ELSE th.printed
             new == [th EXCEPT !.printed = printed, !.monitored = 0, !.real = hdr_init]
  <2>1. th.printed \in Seq(Nat) /\ th.real \in Histograms
    BY DEF ThreadRecord
  <2>2. hdr_value_at_percentile(th.real, 99000) \in Nat
    BY <2>1, PercentileType
  <2>3. printed \in Seq(Nat)
    BY <2>1, <2>2
  <2>4. Windowed(t, th) = new
    BY <1>2 DEF Windowed
  <2>5. hdr_init \in Histograms
    BY EmptyContents
  <2> HIDE DEF printed
  <2>6. new \in ThreadRecord(cfg)
    BY <2>3, <2>5 DEF ThreadRecord
  <2>7. SameBut(th, new)
    BY DEF SameBut, ThreadRecord
  <2>8. /\ new.recorded = th.recorded /\ new.latency = th.latency /\ new.raw = th.raw
        /\ new.monitored = 0 /\ new.real = hdr_init
    BY DEF ThreadRecord
  <2> HIDE DEF new
  <2> QED BY <1>2, <2>4, <2>6, <2>7, <2>8
<1> QED BY <1>1, <1>2

LEMMA RecordedFields ==
  ASSUME NEW th \in ThreadRecord(cfg), NEW t, NEW l \in Nat, counts_index_for(l) \in Indices
  PROVE  /\ Recorded(t, th, l) \in ThreadRecord(cfg) /\ SameBut(th, Recorded(t, th, l))
         /\ Recorded(t, th, l).recorded = Append(th.recorded, l)
         /\ Recorded(t, th, l).latency = hdr_record_value(th.latency, l)
         /\ th.monitored + 1 # target =>
              /\ Recorded(t, th, l).monitored = th.monitored + 1
              /\ Recorded(t, th, l).real = hdr_record_value(th.real, l)
         /\ th.monitored + 1 = target => Recorded(t, th, l).monitored = 0 /\ Recorded(t, th, l).real = hdr_init
         /\ cfg.print_all_responses /\ th.complete < MAXL =>
              Recorded(t, th, l).raw = [th.raw EXCEPT ![th.complete] = l]
         /\ ~(th.complete < MAXL) => Recorded(t, th, l).raw = th.raw
<1> DEFINE h1 == hdr_record_value(th.latency, l)
           h2 == hdr_record_value(th.real, l)
           m  == th.monitored + 1
           r  == Append(th.recorded, l)
           rec == [th EXCEPT !.latency = h1, !.real = h2, !.monitored = m, !.recorded = r]
           filled == Windowed(t, rec)
           new == [filled EXCEPT !.raw[filled.complete] = l]
<1>1. /\ th.latency \in Histograms /\ th.real \in Histograms /\ th.monitored \in Nat
      /\ th.recorded \in Seq(Nat) /\ th.raw \in [0 .. MAXL - 1 -> Nat]
  BY DEF ThreadRecord
<1>2. h1 \in Histograms /\ h2 \in Histograms
  BY <1>1, RecordType DEF hdr_record_value
<1>3. m \in Nat /\ r \in Seq(Nat)
  BY <1>1
<1>4. Recorded(t, th, l) = IF cfg.print_all_responses /\ th.complete < MAXL
                           THEN [filled EXCEPT !.raw[th.complete] = l] ELSE filled
  BY DEF Recorded
<1> HIDE DEF h1, h2, m, r
<1>5. rec \in ThreadRecord(cfg)
  BY <1>2, <1>3 DEF ThreadRecord
<1>6. /\ SameBut(th, rec) /\ rec.raw = th.raw /\ rec.recorded = r /\ rec.latency = h1
      /\ rec.monitored = m /\ rec.real = h2
  BY DEF SameBut, ThreadRecord
<1> HIDE DEF rec
<1>7. /\ filled \in ThreadRecord(cfg) /\ SameBut(rec, filled)
      /\ filled.recorded = rec.recorded /\ filled.latency = rec.latency /\ filled.raw = rec.raw
      /\ rec.monitored # target => filled.monitored = rec.monitored /\ filled.real = rec.real
      /\ rec.monitored = target => filled.monitored = 0 /\ filled.real = hdr_init
  BY <1>5, WindowedKeeps
<1>8. SameBut(th, filled) /\ filled.complete = th.complete
  BY <1>6, <1>7 DEF SameBut
<1> HIDE DEF filled
<1>9. [filled.raw EXCEPT ![th.complete] = l] \in [0 .. MAXL - 1 -> Nat]
  <2>1. filled.raw \in [0 .. MAXL - 1 -> Nat]
    BY <1>1, <1>6, <1>7
  <2> QED BY <2>1
<1>10. new = [filled EXCEPT !.raw = [filled.raw EXCEPT ![th.complete] = l]]
  BY <1>7, <1>8 DEF ThreadRecord
<1>11. new \in ThreadRecord(cfg)
  BY <1>7, <1>9, <1>10 DEF ThreadRecord
<1>12. /\ SameBut(filled, new) /\ new.recorded = filled.recorded /\ new.latency = filled.latency
       /\ new.monitored = filled.monitored /\ new.real = filled.real
       /\ new.raw = [filled.raw EXCEPT ![th.complete] = l]
  BY <1>7, <1>8 DEF ThreadRecord, SameBut
<1>13. SameBut(th, new)
  BY <1>8, <1>12 DEF SameBut
<1>14. [filled EXCEPT !.raw[th.complete] = l] = new
  BY <1>8
<1> HIDE DEF new
<1>15. CASE cfg.print_all_responses /\ th.complete < MAXL
  <2>1. Recorded(t, th, l) = new
    BY <1>4, <1>14, <1>15
  <2> QED BY <1>6, <1>7, <1>11, <1>12, <1>13, <1>15, <2>1 DEF h1, h2, m, r
<1>16. CASE ~(cfg.print_all_responses /\ th.complete < MAXL)
  <2>1. Recorded(t, th, l) = filled
    BY <1>4, <1>16
  <2> QED BY <1>6, <1>7, <1>8, <1>16, <2>1 DEF h1, h2, m, r
<1> QED BY <1>15, <1>16

LEMMA AnsweredSame ==
  ASSUME NEW c, NEW th \in ThreadRecord(c), NEW x, NEW ended
  PROVE  /\ Counting(th, x, ended).rated = th.rated /\ Counting(th, x, ended).late = th.late /\ Counting(th, x, ended).early = th.early
         /\ Counting(th, x, ended).recorded = th.recorded /\ Counting(th, x, ended).latency = th.latency
         /\ Counting(th, x, ended).monitored = th.monitored /\ Counting(th, x, ended).real = th.real
         /\ Counting(th, x, ended).raw = th.raw /\ Counting(th, x, ended).due = th.due
         /\ Counting(th, x, ended).start = th.start /\ Counting(th, x, ended).interval = th.interval
BY DEF Counting, ThreadRecord

(* A response that is not recorded, after the end or with -B.              *)
LEMMA CountedOnly ==
  ASSUME NEW c \in Config, Accepted(c), NEW k \in 1 .. Len(Instants), NEW t, NEW th, ThreadInv(c, k, t, th),
         NEW x \in Conns(c), NEW ended, th.cs[x].starts # <<>>, ~c.record_all_responses
  PROVE  ThreadInv(c, k, t, Counting(th, x, ended))
<1> DEFINE new == Counting(th, x, ended)
<1>1. th \in ThreadRecord(c)
  BY DEF ThreadInv
<1>2. /\ new \in ThreadRecord(c) /\ Shared(c, new)
      /\ new.complete = th.complete + 1 /\ new.requests = th.requests + 1
  BY AnsweredKeeps
<1>3. /\ new.rated = th.rated /\ new.late = th.late /\ new.early = th.early
      /\ new.recorded = th.recorded /\ new.latency = th.latency
      /\ new.monitored = th.monitored /\ new.real = th.real
      /\ new.raw = th.raw /\ new.due = th.due /\ new.start = th.start /\ new.interval = th.interval
  BY <1>1, AnsweredSame
<1> HIDE DEF new
<1>4. Counted(c, new)
  <2>1. th.complete \in Nat /\ th.rated \in Nat /\ th.requests \in Nat
    BY <1>1 DEF ThreadRecord
  <2> QED BY <1>2, <1>3, <2>1 DEF ThreadInv, Counted
<1>5. Ended(c, k, new)
  BY <1>3 DEF ThreadInv, Ended
<1>6. /\ Paced(k, new.due, new.start, new.interval)
      /\ Latencies(t, new.early, new.recorded, new.latency)
      /\ Window(c, new.monitored, new.recorded, new.real) /\ RawIs(c, k, new.raw, new.recorded)
  BY <1>3 DEF ThreadInv
<1>7. ThreadInv(c, k, t, new)
  BY <1>2, <1>4, <1>5, <1>6 DEF ThreadInv
<1> QED BY <1>7 DEF new

LEMMA CountedLate ==
  ASSUME NEW c \in Config, Accepted(c), NEW k \in 1 .. Len(Instants), NEW t, NEW th, ThreadInv(c, k, t, th),
         NEW x \in Conns(c), NEW ended, th.cs[x].starts # <<>>, Instants[k] >= StopAt(c)
  PROVE  ThreadInv(c, k, t, [Counting(th, x, ended) EXCEPT !.pc = "stopping", !.late = @ + 1])
<1> DEFINE mid == Counting(th, x, ended)
           new == [mid EXCEPT !.pc = "stopping", !.late = mid.late + 1]
<1>1. th \in ThreadRecord(c)
  BY DEF ThreadInv
<1>2. /\ mid \in ThreadRecord(c) /\ Shared(c, mid)
      /\ mid.complete = th.complete + 1 /\ mid.requests = th.requests + 1
  BY AnsweredKeeps
<1>3. /\ mid.rated = th.rated /\ mid.late = th.late /\ mid.early = th.early
      /\ mid.recorded = th.recorded /\ mid.latency = th.latency
      /\ mid.monitored = th.monitored /\ mid.real = th.real
      /\ mid.raw = th.raw /\ mid.due = th.due /\ mid.start = th.start /\ mid.interval = th.interval
  BY <1>1, AnsweredSame
<1>4. [Counting(th, x, ended) EXCEPT !.pc = "stopping", !.late = @ + 1] = new
  OBVIOUS
<1> HIDE DEF mid
<1>5. /\ th.complete \in Nat /\ th.rated \in Nat /\ th.requests \in Nat /\ th.late \in Nat
      /\ th.recorded \in Seq(Nat) /\ mid.late + 1 \in Nat
  BY <1>1, <1>3 DEF ThreadRecord
<1>6. new \in ThreadRecord(c)
  BY <1>2, <1>5 DEF ThreadRecord
<1>7. /\ new.complete = th.complete + 1 /\ new.requests = th.requests + 1 /\ new.cs = mid.cs
      /\ new.rated = th.rated /\ new.late = th.late + 1 /\ new.early = th.early
      /\ new.recorded = th.recorded /\ new.latency = th.latency
      /\ new.monitored = th.monitored /\ new.real = th.real
      /\ new.raw = th.raw /\ new.due = th.due /\ new.start = th.start /\ new.interval = th.interval
  BY <1>2, <1>3 DEF ThreadRecord
<1> HIDE DEF new
<1>8. Counted(c, new)
  <2>1. Counted(c, th) /\ Len(th.recorded) \in Nat
    BY <1>5 DEF ThreadInv
  <2>2. new.complete = new.rated + new.requests
    <3>1. th.complete = th.rated + th.requests
      BY <2>1 DEF Counted
    <3>2. new.complete = th.complete + 1 /\ new.requests = th.requests + 1 /\ new.rated = th.rated
      BY <1>7
    <3> QED BY <1>5, <3>1, <3>2
  <2>3. c.record_all_responses => new.complete = Len(new.recorded) + new.late
    <3>1. c.record_all_responses => th.complete = Len(th.recorded) + th.late
      BY <2>1 DEF Counted
    <3>2. new.complete = th.complete + 1 /\ new.late = th.late + 1 /\ new.recorded = th.recorded
      BY <1>7
    <3> QED BY <1>5, <2>1, <3>1, <3>2
  <2> QED BY <1>7, <2>1, <2>2, <2>3 DEF Counted
<1>9. Ended(c, k, new)
  BY DEF Ended
<1>10. Shared(c, new)
  BY <1>2, <1>7 DEF Shared
<1>11. /\ Paced(k, new.due, new.start, new.interval)
       /\ Latencies(t, new.early, new.recorded, new.latency)
       /\ Window(c, new.monitored, new.recorded, new.real) /\ RawIs(c, k, new.raw, new.recorded)
  BY <1>7 DEF ThreadInv
<1>12. ThreadInv(c, k, t, new)
  BY <1>6, <1>8, <1>9, <1>10, <1>11 DEF ThreadInv
<1> QED BY <1>4, <1>12

(* A response that is recorded: in both histograms, in the window, in the  *)
(* raw latencies.                                                          *)
LEMMA CountedAndRecorded ==
  ASSUME cfg \in Config, Accepted(cfg), clock \in 1 .. Len(Instants), NEW t, NEW th, ThreadInv(cfg, clock, t, th),
         NEW x \in Conns(cfg), NEW ended, th.cs[x].starts # <<>>, cfg.record_all_responses,
         Instants[clock] < StopAt(cfg), NEW l \in Nat, counts_index_for(l) \in Indices
  PROVE  ThreadInv(cfg, clock, t, Recorded(t, Counting(th, x, ended), l))
<1> DEFINE mid == Counting(th, x, ended)
           new == Recorded(t, mid, l)
<1>1. th \in ThreadRecord(cfg)
  BY DEF ThreadInv
<1>2. /\ mid \in ThreadRecord(cfg) /\ Shared(cfg, mid)
      /\ mid.complete = th.complete + 1 /\ mid.requests = th.requests + 1
  BY AnsweredKeeps
<1>3. /\ mid.rated = th.rated /\ mid.late = th.late /\ mid.early = th.early
      /\ mid.recorded = th.recorded /\ mid.latency = th.latency
      /\ mid.monitored = th.monitored /\ mid.real = th.real
      /\ mid.raw = th.raw /\ mid.due = th.due /\ mid.start = th.start /\ mid.interval = th.interval
  BY <1>1, AnsweredSame
<1> HIDE DEF mid
<1>4. /\ new \in ThreadRecord(cfg) /\ SameBut(mid, new)
      /\ new.recorded = Append(mid.recorded, l) /\ new.latency = hdr_record_value(mid.latency, l)
      /\ mid.monitored + 1 # target =>
           new.monitored = mid.monitored + 1 /\ new.real = hdr_record_value(mid.real, l)
      /\ mid.monitored + 1 = target => new.monitored = 0 /\ new.real = hdr_init
      /\ cfg.print_all_responses /\ mid.complete < MAXL => new.raw = [mid.raw EXCEPT ![mid.complete] = l]
      /\ ~(mid.complete < MAXL) => new.raw = mid.raw
  BY <1>2, RecordedFields
<1> HIDE DEF new
<1>5. /\ th.complete \in Nat /\ th.rated \in Nat /\ th.requests \in Nat /\ th.late \in Nat /\ th.early \in Nat
      /\ th.recorded \in Seq(Nat) /\ th.monitored \in Nat /\ th.raw \in [0 .. MAXL - 1 -> Nat]
  BY <1>1 DEF ThreadRecord
<1>6. Len(th.recorded) \in Nat /\ Len(new.recorded) = Len(th.recorded) + 1
  BY <1>3, <1>4, <1>5
<1>7. Counted(cfg, new)
  <2>1. Counted(cfg, th)
    BY DEF ThreadInv
  <2>2. /\ new.complete = th.complete + 1 /\ new.requests = th.requests + 1 /\ new.rated = th.rated
        /\ new.early = th.early /\ new.late = th.late
    BY <1>2, <1>3, <1>4 DEF SameBut
  <2>3. new.complete = new.rated + new.requests
    <3>1. th.complete = th.rated + th.requests
      BY <2>1 DEF Counted
    <3> QED BY <1>5, <2>2, <3>1
  <2>4. new.complete = Len(new.recorded) + new.late
    <3>1. th.complete = Len(th.recorded) + th.late
      BY <2>1 DEF Counted
    <3> QED BY <1>5, <1>6, <2>2, <3>1
  <2>5. new.early <= Len(new.recorded)
    <3>1. th.early <= Len(th.recorded)
      BY <2>1 DEF Counted
    <3> QED BY <1>5, <1>6, <2>2, <3>1
  <2> QED BY <2>3, <2>4, <2>5 DEF Counted
<1>8. Ended(cfg, clock, new) /\ Shared(cfg, new) /\ Paced(clock, new.due, new.start, new.interval)
  <2>1. Ended(cfg, clock, new)
    BY <1>3, <1>4 DEF ThreadInv, Ended, SameBut
  <2>3. Shared(cfg, new)
    BY <1>2, <1>4 DEF Shared, SameBut
  <2>4. Paced(clock, new.due, new.start, new.interval)
    BY <1>3, <1>4 DEF ThreadInv, SameBut
  <2> QED BY <2>1, <2>3, <2>4
<1>9. Latencies(t, new.early, new.recorded, new.latency)
  <2>1. th.early <= Len(th.recorded) /\ Latencies(t, th.early, th.recorded, th.latency)
    BY DEF ThreadInv, Counted
  <2>2. Latencies(t, th.early, Append(th.recorded, l), hdr_record_value(th.latency, l))
    BY <1>5, <2>1, OneMoreKept
  <2> QED BY <1>3, <1>4, <2>2 DEF SameBut
<1>10. Window(cfg, new.monitored, new.recorded, new.real)
  <2>1. /\ th.monitored <= Len(th.recorded)
        /\ Target(cfg) > 0 => th.monitored = Len(th.recorded) % Target(cfg)
        /\ Contents(th.real, WindowOf(th.monitored, th.recorded), RecordedAt(th.recorded))
    BY DEF ThreadInv, Window
  <2>2. target = Target(cfg) /\ Target(cfg) \in Nat
    BY ConnsOf DEF target, throughput, Target
  <2>3. CASE th.monitored + 1 = target
    <3>1. new.monitored = 0 /\ new.real = hdr_init
      BY <1>3, <1>4, <2>3
    <3>2. Target(cfg) > 0
      BY <1>5, <2>2, <2>3
    <3>3. Len(new.recorded) % Target(cfg) = 0
      <4>1. (Len(th.recorded) + 1) % Target(cfg) = 0
        BY <1>6, <2>1, <2>2, <2>3, <3>2, NextRest
      <4> QED BY <1>6, <4>1
    <3>4. WindowOf(0, new.recorded) = {}
      BY <1>6 DEF WindowOf
    <3>5. Contents(new.real, WindowOf(new.monitored, new.recorded), RecordedAt(new.recorded))
      BY <3>1, <3>4, EmptyContents
    <3> QED BY <1>6, <3>1, <3>3, <3>5 DEF Window
  <2>4. CASE th.monitored + 1 # target
    <3>1. new.monitored = th.monitored + 1 /\ new.real = hdr_record_value(th.real, l)
      BY <1>3, <1>4, <2>4
    <3>2. Contents(new.real, WindowOf(new.monitored, new.recorded), RecordedAt(new.recorded))
      <4>1. Contents(hdr_record_value(th.real, l), WindowOf(th.monitored + 1, Append(th.recorded, l)),
                     RecordedAt(Append(th.recorded, l)))
        BY <1>5, <2>1, OneMoreInWindow
      <4> QED BY <1>3, <1>4, <3>1, <4>1
    <3>3. Target(cfg) > 0 => new.monitored = Len(new.recorded) % Target(cfg)
      <4> HAVE Target(cfg) > 0
      <4>1. (Len(th.recorded) % Target(cfg)) + 1 # Target(cfg) /\ Target(cfg) \in Nat \ {0}
        BY <2>1, <2>2, <2>4
      <4>2. (Len(th.recorded) + 1) % Target(cfg) = (Len(th.recorded) % Target(cfg)) + 1
        BY <1>6, <4>1, NextRest
      <4> QED BY <1>6, <2>1, <3>1, <4>2
    <3>4. new.monitored <= Len(new.recorded)
      BY <1>5, <1>6, <2>1, <3>1
    <3> QED BY <3>2, <3>3, <3>4 DEF Window
  <2> QED BY <2>3, <2>4
<1>11. RawIs(cfg, clock, new.raw, new.recorded)
  <2> SUFFICES ASSUME ~Back(clock), cfg.print_all_responses, NEW j \in 0 .. MAXL - 1
               PROVE  new.raw[j] = IF j \in DOMAIN new.recorded THEN new.recorded[j] ELSE 0
    BY DEF RawIs
  <2>1. th.late = 0
    <3>1. Instants[clock] \in Nat /\ StopAt(cfg) \in Int
      BY Readings, ConnsOf
    <3>2. th.late > 0 => Instants[clock] >= StopAt(cfg)
      BY DEF ThreadInv, Ended
    <3> QED BY <1>5, <3>1, <3>2
  <2>2. mid.complete = Len(th.recorded) + 1
    BY <1>2, <1>5, <1>6, <2>1 DEF ThreadInv, Counted
  <2>3. th.raw[j] = IF j \in DOMAIN th.recorded THEN th.recorded[j] ELSE 0
    BY DEF ThreadInv, RawIs
  <2> DEFINE r == th.recorded
             q == Append(r, l)
  <2>a. r \in Seq(Nat) /\ new.recorded = q
    BY <1>3, <1>4, <1>5
  <2> HIDE DEF r
  <2>b. DOMAIN r = 1 .. Len(r) /\ DOMAIN q = 1 .. Len(r) + 1
    BY <2>a
  <2>c. q[Len(r) + 1] = l /\ \A i \in 1 .. Len(r) : q[i] = r[i]
    BY <2>a
  <2>4. DOMAIN th.recorded = 1 .. Len(th.recorded) /\ DOMAIN new.recorded = 1 .. Len(th.recorded) + 1
    BY <2>a, <2>b DEF r
  <2>5. new.recorded[Len(th.recorded) + 1] = l /\ \A i \in 1 .. Len(th.recorded) : new.recorded[i] = th.recorded[i]
    BY <2>a, <2>c DEF r
  <2> HIDE DEF q
  <2>6. CASE mid.complete < MAXL
    <3>1. new.raw = [th.raw EXCEPT ![Len(th.recorded) + 1] = l]
      BY <1>3, <1>4, <2>2, <2>6
    <3>2. j = Len(th.recorded) + 1 => new.raw[j] = l
      BY <1>5, <3>1
    <3>3. j # Len(th.recorded) + 1 => new.raw[j] = th.raw[j]
      BY <1>5, <3>1
    <3> QED BY <1>6, <2>3, <2>4, <2>5, <3>2, <3>3
  <2>7. CASE ~(mid.complete < MAXL)
    <3>1. new.raw = mid.raw
      BY <1>4, <2>7
    <3> QED BY <1>3, <1>6, <2>2, <2>3, <2>4, <2>5, <2>7, <3>1, Milliseconds
  <2> QED BY <2>6, <2>7
<1>12. ThreadInv(cfg, clock, t, new)
  BY <1>4, <1>7, <1>8, <1>9, <1>10, <1>11 DEF ThreadInv
<1> QED BY <1>12 DEF new, mid

-----------------------------------------------------------------------------
(* The initial states, and each action.                                    *)
LEMMA NoneAwaited ==
  ASSUME NEW c \in Config, Accepted(c), NEW cs \in [Conns(c) -> Conn], \A x \in Conns(c) : cs[x].starts = <<>>
  PROVE  Awaited(cs) = 0
<1> DEFINE f == [x \in DOMAIN cs |-> Len(cs[x].starts)]
           D == DOMAIN cs
<1>1. \A x \in D : f[x] = 0
  OBVIOUS
<1>2. IsFiniteSet(D)
  BY ConnsOf
<1>3. Awaited(cs) = SumFunctionOnSet(f, D)
  BY DEF Awaited, SumFunction
<1> HIDE DEF f, D
<1>4. Summable(f, D)
  BY <1>1, <1>2 DEF Summable
<1>5. \A x \in D : f[x] = f[x] + f[x]
  BY <1>1
<1>6. SumFunctionOnSet(f, D) = SumFunctionOnSet(f, D) + SumFunctionOnSet(f, D)
  BY <1>4, <1>5, SumOfSums
<1>7. SumFunctionOnSet(f, D) \in Nat
  BY <1>4, SumType
<1> QED BY <1>3, <1>6, <1>7

LEMMA NewThreadInv ==
  ASSUME cfg \in Config, Accepted(cfg), NEW t
  PROVE  ThreadInv(cfg, 1, t, NewThread)
<1> DEFINE cs  == [c \in 1 .. connections |-> NewConnection]
           raw == [j \in 0 .. MAXL - 1 |-> 0]
<1>1. 1 .. connections = Conns(cfg)
  BY DEF connections, Conns
<1>2. cs \in [Conns(cfg) -> Conn] /\ \A x \in Conns(cfg) : cs[x].starts = <<>>
  <2>1. NewConnection \in Conn /\ NewConnection.starts = <<>>
    BY DEF NewConnection, Conn
  <2> QED BY <1>1, <2>1
<1>3. raw \in [0 .. MAXL - 1 -> Nat] /\ \A j \in 0 .. MAXL - 1 : raw[j] = 0
  OBVIOUS
<1>4. <<>> \in Timers /\ DOMAIN <<>> = {}
  <2>1. <<>> \in [{} -> Nat]
    OBVIOUS
  <2> QED BY <2>1 DEF Timers
<1>5. hdr_init \in Histograms
  BY EmptyContents
<1>6. <<>> \in Seq(Nat) /\ Len(<<>>) = 0
  OBVIOUS
<1>7. /\ NewThread.complete = 0 /\ NewThread.requests = 0 /\ NewThread.start = 0 /\ NewThread.interval = 0
      /\ NewThread.latency = hdr_init /\ NewThread.real = hdr_init /\ NewThread.monitored = 0
      /\ NewThread.due = <<>> /\ NewThread.cs = cs /\ NewThread.raw = raw /\ NewThread.recorded = <<>>
      /\ NewThread.early = 0 /\ NewThread.late = 0 /\ NewThread.rated = 0
  BY DEF NewThread
<1> HIDE DEF cs, raw
<1>8. NewThread \in ThreadRecord(cfg)
  <2>1. NewThread = [pc |-> "created", complete |-> 0, requests |-> 0, start |-> 0, interval |-> 0,
              latency |-> hdr_init, real |-> hdr_init, monitored |-> 0, timeouts |-> 0,
              due |-> <<>>, cs |-> cs, raw |-> raw,
              printed |-> <<>>, recorded |-> <<>>, early |-> 0, late |-> 0, rated |-> 0]
    BY DEF NewThread, cs, raw
  <2> QED BY <1>2, <1>3, <1>4, <1>5, <1>6, <2>1 DEF ThreadRecord
<1>9. Counted(cfg, NewThread) /\ Ended(cfg, 1, NewThread)
  BY <1>6, <1>7 DEF Counted, Ended
<1>11. Shared(cfg, NewThread)
  <2>1. Awaited(cs) = 0
    BY <1>2, NoneAwaited
  <2>2. cfg.threads \in Nat \ {0} /\ MaxSends \in Nat
    BY ReportAssumption DEF Accepted
  <2>3. MaxSends \div cfg.threads \in Nat
    BY <2>2, Quotient
  <2> QED BY <1>7, <2>1, <2>3 DEF Shared
<1>12. Paced(1, NewThread.due, NewThread.start, NewThread.interval)
  BY <1>4, <1>7 DEF Paced
<1>13. Latencies(t, NewThread.early, NewThread.recorded, NewThread.latency)
  <2>1. KeptBy(t, 0, <<>>) = {}
    BY <1>6 DEF KeptBy
  <2>2. Latencies(t, 0, <<>>, hdr_init)
    BY <2>1, EmptyContents DEF Latencies
  <2> QED BY <1>7, <2>2
<1>14. Window(cfg, NewThread.monitored, NewThread.recorded, NewThread.real)
  <2>1. WindowOf(0, <<>>) = {}
    BY <1>6 DEF WindowOf
  <2>2. Contents(hdr_init, WindowOf(0, <<>>), RecordedAt(<<>>))
    BY <2>1, EmptyContents
  <2>3. Target(cfg) > 0 => 0 = Len(<<>>) % Target(cfg)
    BY <1>6, ConnsOf, ModRange
  <2>4. Window(cfg, 0, <<>>, hdr_init)
    BY <1>6, <2>2, <2>3 DEF Window
  <2> QED BY <1>7, <2>4
<1>15. RawIs(cfg, 1, NewThread.raw, NewThread.recorded)
  BY <1>3, <1>4, <1>7 DEF RawIs
<1> QED BY <1>8, <1>9, <1>11, <1>12, <1>13, <1>14, <1>15 DEF ThreadInv

Deadly == \/ cfg.rate < cfg.threads
          \/ \E t \in DOMAIN threads : \E c \in DOMAIN threads[t].cs :
               /\ threads[t].cs[c].starts # <<>>
               /\ LET oldest == OldestStart(threads[t].cs[c])
                  IN  time_us <= oldest \/ time_us - oldest > highest_trackable_value
          \/ SetBack /\ \E t \in DOMAIN threads :
               "sample_rate" \in DOMAIN threads[t].due /\ Elapsed(threads[t]) = 0

LEMMA Initial ==
  ASSUME Init
  PROVE  IInv
<1>1. PICK options \in Commands : cfg = parse_args(options)
  BY DEF Init
<1>2. cfg \in Config /\ (cfg.ok => Accepted(cfg))
  BY <1>1, ArgsParsed, ReportAssumption
<1>3. clock \in 1 .. Len(Instants) /\ clock = 1
  <2>1. Instants \in Seq(Nat) /\ Instants # <<>>
    BY ReportAssumption
  <2> QED BY <2>1 DEF Init
<1>4. stop \in BOOLEAN /\ statistics \in Histograms
  BY EmptyContents DEF Init
<1>5. run \in {"running", "usage"} /\ (run = "running" <=> cfg.ok)
  BY <1>2 DEF Init, Config
<1>6. CASE cfg.ok
  <2>1. \A t : ThreadInv(cfg, clock, t, NewThread)
    BY <1>2, <1>3, <1>6, NewThreadInv
  <2>2. NewThread \in ThreadRecord(cfg)
    BY <2>1 DEF ThreadInv
  <2>3. threads = [t \in 0 .. cfg.threads - 1 |-> NewThread]
    BY <1>6 DEF Init
  <2>4. \A t \in DOMAIN threads : ThreadInv(cfg, clock, t, threads[t])
    BY <2>1, <2>3
  <2>5. threads \in [0 .. cfg.threads - 1 -> ThreadRecord(cfg)]
    BY <2>2, <2>3
  <2>6. DeathIsKnown
    BY <1>5 DEF DeathIsKnown
  <2>7. TypeOK
    BY <1>2, <1>3, <1>4, <1>5, <1>6, <2>5 DEF TypeOK
  <2> QED BY <2>4, <2>6, <2>7 DEF IInv
<1>7. CASE ~cfg.ok
  <2>1. threads = <<>> /\ DOMAIN threads = {}
    BY <1>7 DEF Init
  <2>2. DeathIsKnown
    BY <1>5 DEF DeathIsKnown
  <2>3. TypeOK
    BY <1>2, <1>3, <1>4, <1>5, <1>7, <2>1 DEF TypeOK
  <2> QED BY <2>1, <2>2, <2>3 DEF IInv
<1> QED BY <1>6, <1>7

(* What is known while the run goes on.                                    *)
LEMMA Going ==
  ASSUME IInv, run = "running"
  PROVE  /\ cfg \in Config /\ Accepted(cfg) /\ clock \in 1 .. Len(Instants) /\ stop \in BOOLEAN
         /\ statistics \in Histograms /\ threads \in [0 .. cfg.threads - 1 -> ThreadRecord(cfg)]
         /\ DOMAIN threads = 0 .. cfg.threads - 1
         /\ \A t \in DOMAIN threads : ThreadInv(cfg, clock, t, threads[t])
BY DEF IInv, TypeOK

LEMMA OneThread ==
  ASSUME IInv, run = "running", NEW t \in DOMAIN threads, NEW th, ThreadInv(cfg, clock, t, th),
         Becomes(t, th), UNCHANGED <<cfg, clock, run>>, stop' \in BOOLEAN, statistics' \in Histograms
  PROVE  IInv'
<1>1. /\ cfg \in Config /\ Accepted(cfg) /\ clock \in 1 .. Len(Instants)
      /\ threads \in [0 .. cfg.threads - 1 -> ThreadRecord(cfg)]
      /\ \A u \in DOMAIN threads : ThreadInv(cfg, clock, u, threads[u])
  BY Going
<1>2. threads' = [threads EXCEPT ![t] = th] /\ th \in ThreadRecord(cfg)
  BY DEF Becomes, ThreadInv
<1>3. threads' \in [0 .. cfg.threads - 1 -> ThreadRecord(cfg)]
  BY <1>1, <1>2
<1>4. \A u \in DOMAIN threads' : ThreadInv(cfg, clock, u, threads'[u])
  BY <1>1, <1>2
<1>5. TypeOK'
  BY <1>1, <1>3 DEF TypeOK
<1>6. DeathIsKnown'
  BY DEF DeathIsKnown
<1> QED BY <1>4, <1>5, <1>6 DEF IInv

LEMMA Death ==
  ASSUME IInv, run = "running", Dies, Deadly
  PROVE  IInv'
<1>1. TypeOK'
  BY DEF IInv, TypeOK, Dies
<1>2. DeathIsKnown'
  BY DEF DeathIsKnown, Dies, Deadly, time_us, SetBack, Elapsed
<1>3. \A t \in DOMAIN threads' : ThreadInv(cfg', clock', t, threads'[t])
  BY DEF IInv, Dies
<1> QED BY <1>1, <1>2, <1>3 DEF IInv

LEMMA StepThreadMain ==
  ASSUME IInv, NEW t \in DOMAIN threads, thread_main(t)
  PROVE  IInv'
<1>1. run = "running"
  BY DEF thread_main
<1>2. cfg \in Config /\ Accepted(cfg) /\ clock \in 1 .. Len(Instants) /\ ThreadInv(cfg, clock, t, threads[t])
      /\ stop \in BOOLEAN /\ statistics \in Histograms
  BY <1>1, Going
<1>3. CASE throughput = 0
  <2>1. Dies
    BY <1>3 DEF thread_main
  <2>2. cfg.rate < cfg.threads
    <3>1. cfg.rate \in Nat /\ cfg.threads \in Nat \ {0}
      BY <1>2 DEF Config, Accepted
    <3>2. cfg.rate < (cfg.rate \div cfg.threads + 1) * cfg.threads
      BY <3>1, Quotient
    <3> QED BY <1>3, <3>1, <3>2 DEF throughput
  <2> QED BY <1>1, <2>1, <2>2, Death DEF Deadly
<1>4. CASE throughput # 0
  <2> DEFINE at1 == time_us + (CALIBRATE_DELAY_MS + connections) * MS
             at2 == time_us + (TIMEOUT_INTERVAL_MS + connections) * MS
             due == [calibrate |-> at1, check_timeouts |-> at2]
             th  == [threads[t] EXCEPT !.pc = "running", !.start = Instants[clock], !.due = due]
  <2>1. at1 \in Nat /\ at2 \in Nat
    <3>1. connections \in Nat /\ CALIBRATE_DELAY_MS \in Nat /\ TIMEOUT_INTERVAL_MS \in Nat /\ time_us \in Nat
      BY <1>2, ConnsOf, Readings, ReportAssumption DEF connections, time_us
    <3>2. (CALIBRATE_DELAY_MS + connections) * MS \in Nat /\ (TIMEOUT_INTERVAL_MS + connections) * MS \in Nat
      BY <3>1, Milliseconds
    <3> QED BY <3>1, <3>2
  <2> HIDE DEF at1, at2
  <2>2. due \in Timers /\ ~("sample_rate" \in DOMAIN due)
    <3>1. due \in [{"calibrate", "check_timeouts"} -> Nat]
      BY <2>1
    <3>2. {"calibrate", "check_timeouts"} \in SUBSET Events
      BY DEF Events
    <3> QED BY <3>1, <3>2 DEF Timers
  <2>3. Becomes(t, th) /\ UNCHANGED <<cfg, run, clock, stop, statistics>>
    BY <1>4 DEF thread_main, time_us, at1, at2
  <2> HIDE DEF due
  <2>4. ThreadInv(cfg, clock, t, th)
    BY <1>2, <2>2, Started
  <2> HIDE DEF th
  <2> QED BY <1>1, <1>2, <2>3, <2>4, OneThread
<1> QED BY <1>3, <1>4

LEMMA StepLeave ==
  ASSUME IInv, NEW t \in DOMAIN threads, Leave(t)
  PROVE  IInv'
<1>1. run = "running"
  BY DEF Leave
<1>2. ThreadInv(cfg, clock, t, threads[t]) /\ stop \in BOOLEAN /\ statistics \in Histograms
  BY <1>1, Going
<1> DEFINE th == [threads[t] EXCEPT !.pc = "gone"]
<1>3. Becomes(t, th) /\ UNCHANGED <<cfg, run, clock, stop, statistics>>
  BY DEF Leave
<1>4. ThreadInv(cfg, clock, t, th)
  BY <1>2, Gone
<1> HIDE DEF th
<1> QED BY <1>1, <1>2, <1>3, <1>4, OneThread

LEMMA StepCheckTimeouts ==
  ASSUME IInv, NEW t \in DOMAIN threads, check_timeouts(t)
  PROVE  IInv'
<1>1. run = "running" /\ threads[t].pc \in {"running", "stopping"}
  BY DEF check_timeouts, Due, Looping
<1>2. cfg \in Config /\ Accepted(cfg) /\ clock \in 1 .. Len(Instants) /\ ThreadInv(cfg, clock, t, threads[t])
      /\ stop \in BOOLEAN /\ statistics \in Histograms
  BY <1>1, Going
<1> DEFINE maxAge == IF time_us >= cfg.timeout * MS THEN time_us - cfg.timeout * MS ELSE UINT64_MAX
           old == {c \in DOMAIN threads[t].cs : maxAge > threads[t].cs[c].start}
           n   == threads[t].timeouts + Cardinality(old)
           pc  == IF stop \/ time_us >= stop_at THEN "stopping" ELSE threads[t].pc
           time == time_us + TIMEOUT_INTERVAL_MS * MS
           th  == At([threads[t] EXCEPT !.timeouts = n, !.pc = pc], "check_timeouts", time)
<1>3. Becomes(t, th) /\ UNCHANGED <<cfg, run, clock, stop, statistics>>
  BY DEF check_timeouts
<1>4. n \in Nat
  <2>1. threads[t].timeouts \in Nat /\ DOMAIN threads[t].cs = Conns(cfg)
    BY <1>2 DEF ThreadInv, ThreadRecord
  <2>2. IsFiniteSet(old)
    BY <1>2, <2>1, ConnsOf, FS_Subset
  <2>3. Cardinality(old) \in Nat
    BY <2>2, FS_CardinalityType
  <2> QED BY <2>1, <2>3
<1>5. pc \in {"running", "stopping"}
  BY <1>1
<1>6. time \in Nat
  <2>1. TIMEOUT_INTERVAL_MS * MS \in Nat
    BY Milliseconds, ReportAssumption
  <2> QED BY <1>2, <2>1, Readings DEF time_us
<1> HIDE DEF n, pc, time
<1>7. ThreadInv(cfg, clock, t, th)
  BY <1>2, <1>4, <1>5, <1>6, TimedOut
<1> HIDE DEF th
<1> QED BY <1>1, <1>2, <1>3, <1>7, OneThread

LEMMA StepCalibrate ==
  ASSUME IInv, NEW t \in DOMAIN threads, calibrate(t)
  PROVE  IInv'
<1>1. run = "running"
  BY DEF calibrate, Due, Looping
<1>2. cfg \in Config /\ Accepted(cfg) /\ clock \in 1 .. Len(Instants) /\ ThreadInv(cfg, clock, t, threads[t])
      /\ stop \in BOOLEAN /\ statistics \in Histograms
  BY <1>1, Going
<1> DEFINE thread == threads[t]
           interval == AtLeast((2 * hdr_value_at_percentile(thread.latency, 90000)) \div MS, MinInterval)
           th == At(Without([thread EXCEPT !.latency = hdr_init, !.start = Instants[clock], !.interval = interval,
                                           !.requests = 0, !.rated = @ + thread.requests,
                                           !.early = Len(thread.recorded)],
                            "calibrate"), "sample_rate", Instants[clock] + interval * MS)
<1>3. Becomes(t, th) /\ UNCHANGED <<cfg, run, clock, stop, statistics>>
  BY DEF calibrate, time_us
<1>4. interval \in Nat /\ interval >= MinInterval
  <2>1. thread.latency \in Histograms
    BY <1>2 DEF ThreadInv, ThreadRecord
  <2>2. 2 * hdr_value_at_percentile(thread.latency, 90000) \in Nat
    BY <2>1, PercentileType
  <2>3. (2 * hdr_value_at_percentile(thread.latency, 90000)) \div MS \in Nat
    BY <2>2, Quotient, Milliseconds
  <2> QED BY <2>3, Milliseconds DEF AtLeast
<1> HIDE DEF interval
<1>5. ThreadInv(cfg, clock, t, th)
  BY <1>2, <1>4, Calibrated
<1> HIDE DEF th
<1> QED BY <1>1, <1>2, <1>3, <1>5, OneThread

LEMMA StepSampleRate ==
  ASSUME IInv, NEW t \in DOMAIN threads, sample_rate(t)
  PROVE  IInv'
<1>1. run = "running" /\ "sample_rate" \in DOMAIN threads[t].due /\ threads[t].due["sample_rate"] <= Instants[clock]
  BY DEF sample_rate, Due, Looping, time_us
<1>2. cfg \in Config /\ Accepted(cfg) /\ clock \in 1 .. Len(Instants) /\ ThreadInv(cfg, clock, t, threads[t])
      /\ stop \in BOOLEAN /\ statistics \in Histograms
  BY <1>1, Going
<1> DEFINE thread == threads[t]
           elapsed == Elapsed(thread)
           rate == (thread.requests * S) \div elapsed
           th == At([thread EXCEPT !.requests = 0, !.start = Instants[clock], !.rated = @ + thread.requests],
                    "sample_rate", Instants[clock] + thread.interval * MS)
<1>3. /\ elapsed \in Nat /\ (~Back(clock) => elapsed # 0)
      /\ elapsed # 0 => rate \in Nat /\ rate <= highest_trackable_value
  BY <1>1, <1>2, RateTaken DEF Elapsed, time_us
<1>4. ASSUME NEW taken \in Nat, taken <= highest_trackable_value
      PROVE  Recordable(taken) /\ counts_index_for(taken) \in Indices
  <2>1. Recordable(taken) /\ counts_index_for(taken) < counts_len
    BY <1>4, Trackable
  <2>2. counts_index_for(taken) \in Nat /\ counts_len \in Nat
    BY RangeOf, Trackable
  <2> QED BY <2>1, <2>2 DEF Indices
<1>5. ThreadInv(cfg, clock, t, th)
  BY <1>1, <1>2, SampledKeeps
<1>6. ASSUME NEW taken \in Nat, taken <= highest_trackable_value, Sampled(t, taken)
      PROVE  IInv'
  <2>1. /\ statistics' = hdr_record_value(statistics, taken)
        /\ Becomes(t, th) /\ UNCHANGED <<cfg, run, clock, stop>>
    BY <1>6 DEF Sampled, time_us
  <2>2. statistics' \in Histograms
    BY <1>2, <1>4, <1>6, <2>1, RecordType DEF hdr_record_value
  <2> HIDE DEF th
  <2> QED BY <1>1, <1>2, <1>5, <2>1, <2>2, OneThread
<1>7. CASE elapsed = 0 /\ Dies
  <2>1. SetBack
    BY <1>3, <1>7 DEF SetBack, Back
  <2>2. Deadly
    BY <1>1, <1>7, <2>1 DEF Deadly
  <2> QED BY <1>1, <1>7, <2>2, Death
<1>8. CASE elapsed = 0 /\ Sampled(t, 0)
  <2>1. 0 \in Nat /\ 0 <= highest_trackable_value
    BY HdrAssumption
  <2> QED BY <1>6, <1>8, <2>1
<1>9. CASE elapsed # 0
  <2>1. Recordable(rate)
    BY <1>3, <1>4, <1>9
  <2>2. Sampled(t, rate)
    BY <1>9, <2>1 DEF sample_rate
  <2> QED BY <1>3, <1>6, <1>9, <2>2
<1>10. elapsed = 0 => Dies \/ Sampled(t, 0)
  BY DEF sample_rate
<1> QED BY <1>7, <1>8, <1>9, <1>10

LEMMA StepSocketWriteable ==
  ASSUME IInv, NEW t \in DOMAIN threads, NEW x \in DOMAIN threads[t].cs, socket_writeable(t, x)
  PROVE  IInv'
<1>1. run = "running"
  BY DEF socket_writeable, Looping
<1>2. cfg \in Config /\ Accepted(cfg) /\ clock \in 1 .. Len(Instants) /\ ThreadInv(cfg, clock, t, threads[t])
      /\ stop \in BOOLEAN /\ statistics \in Histograms
  BY <1>1, Going
<1>3. x \in Conns(cfg)
  BY <1>2 DEF ThreadInv, ThreadRecord
<1> DEFINE th == [threads[t] EXCEPT !.cs[x] = [threads[t].cs[x] EXCEPT !.start = Instants[clock],
                                                                       !.starts = Append(@, Instants[clock])]]
<1>4. /\ threads[t].complete + Pending(threads[t]) < MaxSends \div cfg.threads
      /\ Becomes(t, th) /\ UNCHANGED <<cfg, run, clock, stop, statistics>>
  BY DEF socket_writeable, time_us
<1>5. ThreadInv(cfg, clock, t, th)
  BY <1>2, <1>3, <1>4, Requested
<1> HIDE DEF th
<1> QED BY <1>1, <1>2, <1>4, <1>5, OneThread

LEMMA StepResponseComplete ==
  ASSUME IInv, NEW t \in DOMAIN threads, NEW x \in DOMAIN threads[t].cs, response_complete(t, x)
  PROVE  IInv'
<1>1. run = "running" /\ threads[t].cs[x].starts # <<>>
  BY DEF response_complete, Looping
<1>2. cfg \in Config /\ Accepted(cfg) /\ clock \in 1 .. Len(Instants) /\ ThreadInv(cfg, clock, t, threads[t])
      /\ stop \in BOOLEAN /\ statistics \in Histograms
  BY <1>1, Going
<1>3. x \in Conns(cfg) /\ threads[t].cs[x] \in Conn
  BY <1>2 DEF ThreadInv, ThreadRecord
<1> DEFINE conn    == threads[t].cs[x]
           oldest  == OldestStart(conn)
           latency == time_us - oldest
           record  == time_us < stop_at /\ cfg.record_all_responses
           ended   == time_us >= stop_at
           th == Counting(threads[t], x, ended)
<1>4. oldest \in Nat /\ time_us \in Nat /\ stop_at = StopAt(cfg)
  <2>1. conn.starts \in Seq(Nat) /\ conn.starts # <<>> /\ conn.uncounted \in Seq(Nat)
    BY <1>1, <1>3 DEF Conn
  <2> HIDE DEF conn
  <2>2. oldest \in Nat
    BY <2>1, BothParts DEF OldestStart
  <2> QED BY <1>2, <2>2, Readings DEF time_us, stop_at, StopAt
<1> HIDE DEF oldest
<1>5. latency \in Int /\ (latency > 0 => latency \in Nat)
  BY <1>4
<1>6. CASE record /\ ~(latency > 0 /\ Recordable(latency))
  <2>1. Dies
    BY <1>6 DEF response_complete, oldest
  <2>2. time_us <= oldest \/ time_us - oldest > highest_trackable_value
    <3>1. latency <= 0 \/ (latency \in Nat /\ ~Recordable(latency))
      BY <1>5, <1>6
    <3>2. latency \in Nat /\ ~Recordable(latency) => ~(latency <= highest_trackable_value)
      BY Trackable
    <3>3. highest_trackable_value \in Nat
      BY HdrAssumption
    <3> QED BY <1>4, <1>5, <3>1, <3>2, <3>3
  <2>3. Deadly
    BY <1>1, <2>2 DEF Deadly, oldest
  <2> QED BY <1>1, <2>1, <2>3, Death
<1>7. CASE ~(record /\ ~(latency > 0 /\ Recordable(latency)))
  <2> DEFINE new == IF time_us >= stop_at THEN [th EXCEPT !.pc = "stopping", !.late = @ + 1]
                    ELSE IF record THEN Recorded(t, th, latency) ELSE th
  <2>1. Becomes(t, new) /\ UNCHANGED <<cfg, run, clock, stop, statistics>>
    BY <1>7 DEF response_complete, Counting, oldest
  <2>2. ThreadInv(cfg, clock, t, new)
    <3>1. CASE time_us >= stop_at
      BY <1>1, <1>2, <1>3, <1>4, <3>1, CountedLate DEF time_us
    <3>2. CASE ~(time_us >= stop_at) /\ record
      <4> HIDE DEF latency
      <4>1. Recordable(latency) /\ latency \in Nat
        BY <1>5, <1>7, <3>2
      <4>2. counts_index_for(latency) \in Indices
        <5>1. counts_index_for(latency) < counts_len
          BY <4>1, Trackable
        <5>2. counts_index_for(latency) \in Nat /\ counts_len \in Nat
          BY <4>1, RangeOf, Trackable
        <5> QED BY <5>1, <5>2 DEF Indices
      <4>3. Instants[clock] < StopAt(cfg) /\ cfg.record_all_responses
        BY <1>4, <3>2 DEF time_us
      <4>4. ThreadInv(cfg, clock, t, Recorded(t, th, latency))
        BY <1>1, <1>2, <1>3, <4>1, <4>2, <4>3, CountedAndRecorded
      <4> QED BY <3>2, <4>4
    <3>3. CASE ~(time_us >= stop_at) /\ ~record
      <4>1. time_us < stop_at
        BY <1>2, <1>4, <3>3, ConnsOf
      <4>2. ~cfg.record_all_responses
        BY <3>3, <4>1
      <4>3. ThreadInv(cfg, clock, t, th)
        BY <1>1, <1>2, <1>3, <4>2, CountedOnly
      <4> QED BY <3>3, <4>3
    <3> QED BY <3>1, <3>2, <3>3
  <2> HIDE DEF new
  <2> QED BY <1>1, <1>2, <2>1, <2>2, OneThread
<1> QED BY <1>6, <1>7

LEMMA StepTick ==
  ASSUME IInv, Tick
  PROVE  IInv'
<1>1. PICK noticing \in SUBSET {t \in DOMAIN threads : Looping(t)} :
        /\ run = "running" /\ clock < Len(Instants) /\ clock' = clock + 1
        /\ noticing # {} => Instants[clock + 1] < Instants[clock]
        /\ threads' = [t \in DOMAIN threads |-> IF t \in noticing THEN Noticed(threads[t]) ELSE threads[t]]
        /\ UNCHANGED <<cfg, run, stop, statistics>>
  BY DEF Tick, time_us
<1>2. /\ cfg \in Config /\ Accepted(cfg) /\ clock \in 1 .. Len(Instants)
      /\ stop \in BOOLEAN /\ statistics \in Histograms /\ DOMAIN threads = 0 .. cfg.threads - 1
      /\ \A t \in DOMAIN threads : ThreadInv(cfg, clock, t, threads[t])
  BY <1>1, Going
<1>3. clock \in 1 .. Len(Instants) - 1 /\ clock + 1 \in 1 .. Len(Instants)
  <2>1. Len(Instants) \in Nat
    BY <1>2, Readings
  <2> QED BY <1>1, <1>2, <2>1
<1>4. \A t \in DOMAIN threads' : ThreadInv(cfg, clock + 1, t, threads'[t])
  <2> TAKE t \in DOMAIN threads'
  <2>1. t \in DOMAIN threads /\ ThreadInv(cfg, clock + 1, t, threads[t])
    BY <1>1, <1>2, <1>3, Aged
  <2>2. CASE t \notin noticing
    BY <1>1, <2>1, <2>2
  <2>3. CASE t \in noticing
    <3>1. Back(clock + 1)
      BY <1>1, <1>3, <2>3, Later
    <3>2. threads'[t] = Noticed(threads[t])
      BY <1>1, <2>1, <2>3
    <3> QED BY <2>1, <3>1, <3>2, AllDue
  <2> QED BY <2>2, <2>3
<1>5. TypeOK'
  <2>1. threads' \in [0 .. cfg.threads - 1 -> ThreadRecord(cfg)]
    <3>1. \A t \in 0 .. cfg.threads - 1 : threads'[t] \in ThreadRecord(cfg)
      BY <1>1, <1>2, <1>4 DEF ThreadInv
    <3> QED BY <1>1, <1>2, <3>1
  <2> QED BY <1>1, <1>2, <1>3, <2>1 DEF TypeOK
<1>6. DeathIsKnown'
  BY <1>1 DEF DeathIsKnown
<1> QED BY <1>1, <1>4, <1>5, <1>6 DEF IInv

LEMMA StepMain ==
  ASSUME IInv, handler \/ print \/ UNCHANGED vars
  PROVE  IInv'
<1>1. UNCHANGED <<cfg, clock, threads, statistics>> /\ stop' \in BOOLEAN
      /\ (run' = run \/ (run = "running" /\ run' \in {"running", "printed"}))
  BY DEF handler, print, vars, IInv, TypeOK
<1>2. TypeOK'
  BY <1>1 DEF IInv, TypeOK
<1>3. DeathIsKnown'
  BY <1>1 DEF IInv, DeathIsKnown, time_us, SetBack, Elapsed
<1> QED BY <1>1, <1>2, <1>3 DEF IInv

(* The inductive invariant of main and its threads, for every command line *)
(* that parse_args takes, number of threads, connections and responses,    *)
(* and every clock, set back or not: what a thread counts                  *)
(* (response_complete, check_timeouts, sample_rate, calibrate) adds up,    *)
(* and its histogram holds exactly the latencies recorded since the        *)
(* calibration.  What rests on the order of the readings (the pace of      *)
(* sample_rate, that nothing is recorded after a late response, the file)  *)
(* is kept until the clock is set back.                                    *)
THEOREM Invariance == Spec => []IInv
<1>1. Init => IInv
  BY Initial
<1>2. IInv /\ [Next]_vars => IInv'
  <2> SUFFICES ASSUME IInv, [Next]_vars PROVE IInv'
    OBVIOUS
  <2>1. CASE Threads
    BY <2>1, StepThreadMain, StepLeave, StepCheckTimeouts, StepCalibrate, StepSampleRate DEF Threads, Thread
  <2>2. CASE Traffic
    BY <2>2, StepSocketWriteable, StepResponseComplete DEF Traffic
  <2>3. CASE Tick
    BY <2>3, StepTick
  <2>4. CASE handler \/ print \/ UNCHANGED vars
    BY <2>4, StepMain
  <2> QED BY <2>1, <2>2, <2>3, <2>4 DEF Next
<1> QED BY <1>1, <1>2, PTL DEF Spec

-----------------------------------------------------------------------------
(* What the invariant says of the report.                                  *)
(* Every reachable state is well typed: the options are those that         *)
(* parse_args accepts, and the records of threads and histograms have      *)
(* their parts, with every index inside counts[].                          *)
THEOREM TypeCorrect == Spec => []TypeOK
<1>1. IInv => TypeOK
  BY DEF IInv
<1> QED BY <1>1, Invariance, PTL

(* A signal ends a run only for a rate below one request a second for each *)
(* thread (thread_main), for an assert of response_complete (the clock is  *)
(* not past the start of the latency, in the same microsecond or set back; *)
(* or a latency that the histogram cannot hold), or for a quotient by zero *)
(* in sample_rate, which needs a clock that was set back.                  *)
THEOREM DeathAlwaysKnown == Spec => []DeathIsKnown
<1>1. IInv => DeathIsKnown
  BY DEF IInv
<1> QED BY <1>1, Invariance, PTL

LEMMA WindowOfInv ==
  ASSUME IInv, NEW t \in DOMAIN threads
  PROVE  LET thread   == threads[t]
             recorded == thread.recorded
             window   == Len(recorded) - thread.monitored + 1 .. Len(recorded)
         IN  /\ target > 0 => thread.monitored = Len(recorded) % target
             /\ thread.real.total = thread.monitored
             /\ \A j \in window :
                  thread.real.counts[counts_index_for(recorded[j])] =
                    Cardinality({i \in window : lowest_equivalent_value(recorded[i]) = lowest_equivalent_value(recorded[j])})
<1> DEFINE th == threads[t]
           r  == th.recorded
           m  == th.monitored
           h  == th.real
           window == WindowOf(m, r)
           I == RecordedAt(r)
<1>1. ThreadInv(cfg, clock, t, th)
  BY DEF IInv
<1>2. r \in Seq(Nat) /\ m \in Nat /\ Len(r) \in Nat
  <2>1. r \in Seq(Nat) /\ m \in Nat
    BY <1>1 DEF ThreadInv, ThreadRecord
  <2> QED BY <2>1
<1>3. /\ m <= Len(r) /\ (Target(cfg) > 0 => m = Len(r) % Target(cfg))
      /\ Contents(h, window, I)
  BY <1>1 DEF ThreadInv, Window
<1>4. target = Target(cfg)
  BY DEF target, throughput, Target
<1> HIDE DEF r, m, h, th
<1>5. Cardinality(window) = m
  <2>1. Len(r) - m + 1 \in Int /\ Len(r) \in Int
    BY <1>2
  <2>2. Cardinality(window) = IF Len(r) - m + 1 > Len(r) THEN 0 ELSE Len(r) - (Len(r) - m + 1) + 1
    BY <2>1, FS_Interval DEF WindowOf
  <2> QED BY <1>2, <1>3, <2>2
<1>6. h.total = m
  BY <1>3, <1>5 DEF Contents
<1>7. \A j \in window : j \in DOMAIN r /\ r[j] \in Nat /\ I[j] = counts_index_for(r[j])
  <2> TAKE j \in window
  <2>1. j \in 1 .. Len(r)
    BY <1>2, <1>3 DEF WindowOf
  <2> QED BY <1>2, <2>1 DEF RecordedAt
<1>8. ASSUME NEW j \in window
      PROVE  h.counts[counts_index_for(r[j])] =
               Cardinality({i \in window : lowest_equivalent_value(r[i]) = lowest_equivalent_value(r[j])})
  <2>1. j \in HasIndex(window, I, I[j])
    BY DEF HasIndex
  <2>2. h.counts[I[j]] = Cardinality(HasIndex(window, I, I[j]))
    BY <1>3, <2>1 DEF Contents
  <2>3. \A i \in window : I[i] = I[j] <=> lowest_equivalent_value(r[i]) = lowest_equivalent_value(r[j])
    BY <1>7, EndOrder
  <2>4. HasIndex(window, I, I[j]) = {i \in window : lowest_equivalent_value(r[i]) = lowest_equivalent_value(r[j])}
    BY <2>3 DEF HasIndex
  <2> QED BY <1>7, <2>2, <2>4
<1> QED BY <1>3, <1>4, <1>6, <1>8 DEF WindowOf, r, m, h, th

(* response_complete: the histogram of the 99th percentiles has the        *)
(* latencies recorded since one was last written, as often as they were,   *)
(* and never as many as the thread's target.                               *)
THEOREM WindowAlwaysOfTheTarget == Spec => []WindowIsOfTheTarget
<1>1. IInv => WindowIsOfTheTarget
  BY WindowOfInv DEF WindowIsOfTheTarget
<1> QED BY <1>1, Invariance, PTL

LEMMA FileOfInv ==
  ASSUME IInv, run = "printed", ~SetBack, cfg.print_all_responses, cfg.record_all_responses, NEW t \in DOMAIN threads
  PROVE  LET file     == RawFile(t)
             recorded == threads[t].recorded
         IN  /\ \A j \in DOMAIN recorded : j < MAXL /\ j < Len(recorded) => j \in DOMAIN file
             /\ \A j \in DOMAIN file : file[j] = IF j \in DOMAIN recorded THEN recorded[j] ELSE 0
             /\ Len(file) <= AtLeast(Len(recorded) + threads[t].late - 1, 0)
<1> DEFINE th == threads[t]
           r  == th.recorded
           n  == (IF th.complete < MAXL THEN th.complete ELSE MAXL) - 1
           raw == th.raw
           file == [j \in 1 .. n |-> raw[j]]
<1>1. ThreadInv(cfg, clock, t, th)
  BY DEF IInv
<1>2. r \in Seq(Nat) /\ th.complete \in Nat /\ th.late \in Nat /\ raw \in [0 .. MAXL - 1 -> Nat]
  BY <1>1 DEF ThreadInv, ThreadRecord
<1>3. th.complete = Len(r) + th.late /\ Len(r) \in Nat
  BY <1>1, <1>2 DEF ThreadInv, Counted
<1>4. \A j \in 0 .. MAXL - 1 : raw[j] = IF j \in DOMAIN r THEN r[j] ELSE 0
  BY <1>1 DEF ThreadInv, RawIs, SetBack, Back
<1>5. RawFile(t) = file
  BY DEF RawFile
<1> DEFINE late == th.late
           done == th.complete
           size == Len(r)
<1>a. late \in Nat /\ done = size + late /\ size \in Nat /\ MAXL \in Nat /\ DOMAIN r = 1 .. size
  BY <1>2, <1>3, Milliseconds
<1>b. n = (IF done < MAXL THEN done ELSE MAXL) - 1
  OBVIOUS
<1>6. n \in Int /\ n <= MAXL - 1 /\ n <= Len(r) + th.late - 1 /\ n >= -1
  <2> HIDE DEF late, done, size, n
  <2>1. n \in Int /\ n <= MAXL - 1 /\ n <= size + late - 1 /\ n >= -1
    BY <1>a, <1>b
  <2> QED BY <2>1 DEF size, late
<1>7. \A j \in DOMAIN r : j < MAXL /\ j < Len(r) => j \in 1 .. n
  <2> HIDE DEF late, done, size, n, r
  <2>1. \A j \in 1 .. size : j < MAXL /\ j < size => j \in 1 .. n
    BY <1>a, <1>b
  <2> QED BY <1>a, <2>1 DEF size
<1> HIDE DEF r, n, raw
<1>8. Len(file) <= AtLeast(Len(r) + th.late - 1, 0)
  <2>1. CASE n \in Nat
    <3>1. Len(file) = n
      BY <2>1
    <3> QED BY <1>2, <1>3, <1>6, <2>1, <3>1 DEF AtLeast
  <2>2. CASE n \notin Nat
    <3>1. n = -1
      BY <1>6, <2>2
    <3>2. file = <<>>
      BY <3>1
    <3> HIDE DEF file
    <3>3. Len(file) = 0
      BY <3>2
    <3>4. 0 <= AtLeast(Len(r) + th.late - 1, 0)
      BY <1>2, <1>3 DEF AtLeast
    <3> QED BY <3>3, <3>4
  <2> QED BY <2>1, <2>2
<1>9. \A j \in DOMAIN file : file[j] = IF j \in DOMAIN r THEN r[j] ELSE 0
  <2> TAKE j \in DOMAIN file
  <2>1. j \in 0 .. MAXL - 1 /\ file[j] = raw[j]
    BY <1>6, Milliseconds
  <2> QED BY <1>4, <2>1
<1>10. DOMAIN file = 1 .. n
  OBVIOUS
<1> HIDE DEF file
<1> QED BY <1>5, <1>7, <1>8, <1>9, <1>10 DEF r

(* While the clock is not set back, the file that main writes for a thread *)
(* (-P) has the latencies in the order of the responses, for every number  *)
(* of them on both sides of MAXL: without the first entry of raw_latency   *)
(* and the last, and with zeros for responses that came after the end.     *)
THEOREM FileAlwaysOfTheLatencies == Spec => []FileIsOfTheLatencies
<1>1. IInv => FileIsOfTheLatencies
  BY FileOfInv DEF FileIsOfTheLatencies
<1> QED BY <1>1, Invariance, PTL

(* What the report is of: the kept latencies of all threads, each at the   *)
(* index of its value.                                                     *)
LatencyAt == [k \in Kept |-> LatencyOf(k)]
IndexAt   == [k \in Kept |-> counts_index_for(LatencyOf(k))]

LEMMA KeptOf ==
  ASSUME IInv, run # "usage"
  PROVE  /\ \A k \in Kept : \E t \in DOMAIN threads : k[1] = t /\ k \in KeptBy(t, threads[t].early, threads[t].recorded)
         /\ \A t \in DOMAIN threads : KeptBy(t, threads[t].early, threads[t].recorded) \subseteq Kept
         /\ \A t, u \in DOMAIN threads : t # u =>
              KeptBy(t, threads[t].early, threads[t].recorded) \cap KeptBy(u, threads[u].early, threads[u].recorded) = {}
BY DEF Kept, KeptBy

LEMMA MergedOf ==
  ASSUME IInv, run # "usage"
  PROVE  Contents(Merged, Kept, IndexAt) /\ Values(Kept, LatencyAt, IndexAt)
<1>1. /\ cfg \in Config /\ Accepted(cfg) /\ DOMAIN threads = 0 .. cfg.threads - 1
      /\ \A t \in DOMAIN threads : ThreadInv(cfg, clock, t, threads[t])
  BY DEF IInv, TypeOK
<1> DEFINE n == cfg.threads
           q == [i \in 1 .. n |-> threads[i - 1].latency]
           P == [i \in 1 .. n |-> KeptBy(i - 1, threads[i - 1].early, threads[i - 1].recorded)]
<1>2. n \in Nat
  BY <1>1 DEF Accepted
<1>3. \A i \in 1 .. n : i - 1 \in DOMAIN threads
  BY <1>1, <1>2
<1>4. ASSUME NEW t \in DOMAIN threads, NEW k \in KeptBy(t, threads[t].early, threads[t].recorded)
      PROVE  /\ k \in Kept /\ LatencyOf(k) \in Nat /\ LatencyOf(k) = threads[t].recorded[k[2]]
  <2>1. PICK j \in threads[t].early + 1 .. Len(threads[t].recorded) : k = <<t, j>>
    BY DEF KeptBy
  <2>2. threads[t].recorded \in Seq(Nat) /\ threads[t].early \in Nat
    BY <1>1 DEF ThreadInv, ThreadRecord
  <2>3. LatencyOf(k) = threads[t].recorded[j] /\ k[2] = j
    BY <2>1 DEF LatencyOf
  <2>4. j \in 1 .. Len(threads[t].recorded)
    BY <2>2
  <2>5. threads[t].recorded[j] \in Nat
    BY <2>2, <2>4
  <2>6. k \in Kept
    BY KeptOf
  <2> QED BY <2>3, <2>5, <2>6
<1>5. ASSUME NEW i \in 1 .. n
      PROVE  Contents(q[i], P[i], IndexAt)
  <2> DEFINE t == i - 1
             th == threads[t]
  <2>1. t \in DOMAIN threads
    BY <1>3
  <2>2. Contents(th.latency, KeptBy(t, th.early, th.recorded), KeptAt(t, th.early, th.recorded))
    BY <1>1, <2>1 DEF ThreadInv, Latencies
  <2>3. \A k \in KeptBy(t, th.early, th.recorded) : IndexAt[k] = KeptAt(t, th.early, th.recorded)[k]
    BY <1>4, <2>1 DEF IndexAt, KeptAt
  <2>4. Contents(th.latency, KeptBy(t, th.early, th.recorded), IndexAt)
    BY <2>2, <2>3, ContentsAgree
  <2> QED BY <2>4
<1>6. ASSUME NEW i \in 1 .. n, NEW j \in 1 .. n, i # j
      PROVE  P[i] \cap P[j] = {}
  <2>1. i - 1 # j - 1
    BY <1>2, <1>6
  <2> QED BY <1>3, <2>1, KeptOf
<1>7. Kept = UNION {P[i] : i \in 1 .. n}
  <2>1. \A k \in Kept : \E i \in 1 .. n : k \in P[i]
    <3> TAKE k \in Kept
    <3>1. PICK t \in DOMAIN threads : k \in KeptBy(t, threads[t].early, threads[t].recorded)
      BY KeptOf
    <3>2. t + 1 \in 1 .. n /\ (t + 1) - 1 = t
      BY <1>1, <1>2
    <3>3. k \in P[t + 1]
      BY <3>1, <3>2
    <3> QED BY <3>2, <3>3
  <2>2. \A i \in 1 .. n : P[i] \subseteq Kept
    BY <1>3, KeptOf
  <2> HIDE DEF P
  <2> QED BY <2>1, <2>2
<1>8. DOMAIN q = 1 .. n /\ Merged = FoldLeft(hdr_add, hdr_init, q)
  BY DEF Merged
<1> HIDE DEF q, P, n
<1>9. Pieces(q, P, n, IndexAt)
  BY <1>2, <1>5, <1>6, <1>8 DEF Pieces
<1>10. Contents(Merged, Kept, IndexAt)
  BY <1>7, <1>8, <1>9, MergeContents
<1>11. Values(Kept, LatencyAt, IndexAt)
  <2>1. \A k \in Kept : LatencyOf(k) \in Nat
    BY <1>4, KeptOf
  <2> QED BY <2>1 DEF Values, LatencyAt, IndexAt
<1> QED BY <1>10, <1>11

LEMMA ReportOfInv ==
  ASSUME IInv, run = "printed", Kept # {}
  PROVE  LET report  == Report
             rank(p) == AtLeast((2 * p * Cardinality(Kept) + 100000) \div 200000, 1)
         IN  /\ \A p \in Percentiles : \E k \in Kept :
                  /\ Below(LatencyOf(k)) < rank(p) /\ rank(p) <= Upto(LatencyOf(k))
                  /\ report.percentiles[p] = EndOf(LatencyOf(k))
             /\ \E k \in Kept : /\ \A j \in Kept : LatencyOf(j) <= LatencyOf(k)
                                /\ report.max <= LatencyOf(k) /\ LatencyOf(k) <= EndOf(report.max)
             /\ \E k \in Kept : /\ \A j \in Kept : LatencyOf(k) <= LatencyOf(j)
                                /\ report.min <= LatencyOf(k) /\ LatencyOf(k) <= EndOf(report.min)
<1> DEFINE h == Merged
           v == LatencyAt
<1>1. Filled(h, Kept, v, IndexAt)
  BY MergedOf DEF Filled
<1>2. \A k \in Kept : v[k] = LatencyOf(k)
  BY DEF LatencyAt
<1>3. /\ \A p \in Percentiles : Report.percentiles[p] = hdr_value_at_percentile(h, p)
      /\ Report.min = hdr_min(h) /\ Report.max = hdr_max(h)
  BY DEF Report
<1> HIDE DEF h, v
<1>4. \A k \in Kept : Below(LatencyOf(k)) = Cardinality(Under(Kept, v, v[k]))
  <2> TAKE k \in Kept
  <2>1. Under(Kept, v, v[k]) = {j \in Kept : LatencyOf(j) < LatencyOf(k)}
    BY <1>2 DEF Under
  <2> QED BY <2>1 DEF Below
<1>5. \A k \in Kept : Upto(LatencyOf(k)) = Cardinality(NotOver(Kept, v, v[k]))
  <2> TAKE k \in Kept
  <2>1. NotOver(Kept, v, v[k]) = {j \in Kept : LatencyOf(j) <= LatencyOf(k)}
    BY <1>2 DEF NotOver
  <2> QED BY <2>1 DEF Upto
<1>6. ASSUME NEW p \in Percentiles
      PROVE  \E k \in Kept : /\ Below(LatencyOf(k)) < RankOf(p, Cardinality(Kept))
                             /\ RankOf(p, Cardinality(Kept)) <= Upto(LatencyOf(k))
                             /\ Report.percentiles[p] = EndOf(LatencyOf(k))
  <2>1. p \in Nat /\ p <= 100000
    BY DEF Percentiles
  <2>2. PICK k \in Kept : /\ Cardinality(Under(Kept, v, v[k])) < RankOf(p, Cardinality(Kept))
                          /\ RankOf(p, Cardinality(Kept)) <= Cardinality(NotOver(Kept, v, v[k]))
                          /\ hdr_value_at_percentile(h, p) = highest_equivalent_value(v[k])
    BY <1>1, <2>1, PercentileOf
  <2>3. Below(LatencyOf(k)) < RankOf(p, Cardinality(Kept)) /\ RankOf(p, Cardinality(Kept)) <= Upto(LatencyOf(k))
    BY <1>4, <1>5, <2>2
  <2>4. Report.percentiles[p] = EndOf(LatencyOf(k))
    BY <1>2, <1>3, <2>2 DEF EndOf
  <2> QED BY <2>3, <2>4
<1>7. /\ \E k \in Kept : /\ \A j \in Kept : v[j] <= v[k]
                         /\ hdr_max(h) <= v[k] /\ v[k] <= highest_equivalent_value(hdr_max(h))
      /\ \E k \in Kept : /\ \A j \in Kept : v[k] <= v[j]
                         /\ hdr_min(h) <= v[k] /\ v[k] <= highest_equivalent_value(hdr_min(h))
  BY <1>1, ExtremesRead
<1>8. \E k \in Kept : /\ \A j \in Kept : LatencyOf(j) <= LatencyOf(k)
                      /\ Report.max <= LatencyOf(k) /\ LatencyOf(k) <= EndOf(Report.max)
  <2>1. PICK k \in Kept : /\ \A j \in Kept : v[j] <= v[k]
                          /\ hdr_max(h) <= v[k] /\ v[k] <= highest_equivalent_value(hdr_max(h))
    BY <1>7
  <2> QED BY <1>2, <1>3, <2>1 DEF EndOf
<1>9. \E k \in Kept : /\ \A j \in Kept : LatencyOf(k) <= LatencyOf(j)
                      /\ Report.min <= LatencyOf(k) /\ LatencyOf(k) <= EndOf(Report.min)
  <2>1. PICK k \in Kept : /\ \A j \in Kept : v[k] <= v[j]
                          /\ hdr_min(h) <= v[k] /\ v[k] <= highest_equivalent_value(hdr_min(h))
    BY <1>7
  <2> QED BY <1>2, <1>3, <2>1 DEF EndOf
<1>10. \A p \in Percentiles : \E k \in Kept :
         /\ Below(LatencyOf(k)) < AtLeast((2 * p * Cardinality(Kept) + 100000) \div 200000, 1)
         /\ AtLeast((2 * p * Cardinality(Kept) + 100000) \div 200000, 1) <= Upto(LatencyOf(k))
         /\ Report.percentiles[p] = EndOf(LatencyOf(k))
  BY <1>6 DEF RankOf
<1> QED BY <1>8, <1>9, <1>10

(* What main prints of the merged histograms is of the latencies of all    *)
(* threads: each percentile (print_hdr_latency) is the end of the range of *)
(* a latency of that rank, and the extremes are those of the latencies.    *)
THEOREM ReportAlwaysOfTheLatencies == Spec => []ReportIsOfTheLatencies
<1>1. IInv => ReportIsOfTheLatencies
  BY ReportOfInv DEF ReportIsOfTheLatencies
<1> QED BY <1>1, Invariance, PTL

LEMMA KeptCount ==
  ASSUME NEW t, NEW e \in Nat, NEW r \in Seq(Nat), e <= Len(r)
  PROVE  IsFiniteSet(KeptBy(t, e, r)) /\ Cardinality(KeptBy(t, e, r)) = Len(r) - e
<1> DEFINE A == e + 1 .. Len(r)
           B == KeptBy(t, e, r)
           f == [j \in A |-> <<t, j>>]
<1>1. Len(r) \in Nat
  OBVIOUS
<1>2. IsFiniteSet(A) /\ Cardinality(A) = Len(r) - e
  <2>1. e + 1 \in Int /\ Len(r) \in Int
    BY <1>1
  <2>2. IsFiniteSet(A) /\ Cardinality(A) = IF e + 1 > Len(r) THEN 0 ELSE Len(r) - (e + 1) + 1
    BY <2>1, FS_Interval
  <2> QED BY <1>1, <2>2
<1>3. f \in Bijection(A, B)
  <2>1. f \in [A -> B]
    BY DEF KeptBy
  <2>2. \A a, b \in A : f[a] = f[b] => a = b
    OBVIOUS
  <2>3. \A b \in B : \E a \in A : f[a] = b
    BY DEF KeptBy
  <2> QED BY <2>1, <2>2, <2>3 DEF Bijection, Injection, Surjection, IsInjective
<1>4. ExistsBijection(A, B)
  BY <1>3 DEF ExistsBijection
<1> HIDE DEF A, B
<1>5. IsFiniteSet(B) /\ Cardinality(B) = Cardinality(A)
  BY <1>2, <1>4, FS_Bijection
<1> QED BY <1>2, <1>5 DEF B

LEMMA CountsOfInv ==
  ASSUME IInv, run = "printed"
  PROVE  LET report == Report IN
         /\ ~cfg.record_all_responses => report.count = 0
         /\ cfg.record_all_responses =>
              report.complete = report.count + SumFunction([t \in DOMAIN threads |-> threads[t].early + threads[t].late])
         /\ \A t \in DOMAIN threads : threads[t].complete = threads[t].rated + threads[t].requests
<1> DEFINE D == DOMAIN threads
           r(t) == threads[t].recorded
           count == [t \in D |-> Cardinality(KeptBy(t, threads[t].early, r(t)))]
           apart == [t \in D |-> threads[t].early + threads[t].late]
           total == [t \in D |-> threads[t].complete]
           of    == [k \in Kept |-> k[1]]
<1>1. /\ cfg \in Config /\ Accepted(cfg) /\ DOMAIN threads = 0 .. cfg.threads - 1
      /\ \A t \in DOMAIN threads : ThreadInv(cfg, clock, t, threads[t])
  BY DEF IInv, TypeOK
<1>2. IsFiniteSet(D)
  BY <1>1, FS_Interval DEF Accepted
<1>3. ASSUME NEW t \in D
      PROVE  /\ threads[t].complete \in Nat /\ threads[t].early \in Nat /\ threads[t].late \in Nat
             /\ r(t) \in Seq(Nat) /\ Len(r(t)) \in Nat
             /\ threads[t].early <= Len(r(t)) /\ threads[t].complete = threads[t].rated + threads[t].requests
             /\ cfg.record_all_responses => threads[t].complete = Len(r(t)) + threads[t].late
             /\ ~cfg.record_all_responses => r(t) = <<>>
  <2>1. threads[t].complete \in Nat /\ threads[t].early \in Nat /\ threads[t].late \in Nat /\ r(t) \in Seq(Nat)
    BY <1>1 DEF ThreadInv, ThreadRecord
  <2>2. Len(r(t)) \in Nat
    BY <2>1
  <2> QED BY <1>1, <2>1, <2>2 DEF ThreadInv, Counted
<1>4. Report.complete = SumFunctionOnSet(total, D) /\ Report.count = Cardinality(Kept) /\ IsFiniteSet(Kept)
  <2>1. Report.complete = SumFunctionOnSet(total, D)
    BY DEF Report, SumFunction
  <2>2. Report.count = Merged.total
    BY DEF Report
  <2>3. Merged.total = Cardinality(Kept) /\ IsFiniteSet(Kept)
    BY MergedOf DEF Contents
  <2> QED BY <2>1, <2>2, <2>3
<1>5. \A t \in D : count[t] \in Nat /\ count[t] = Len(r(t)) - threads[t].early
  BY <1>3, KeptCount
<1>6. SumFunctionOnSet(count, D) = Cardinality(Kept)
  <2>1. \A t \in D : count[t] = Cardinality(HasIndex(Kept, of, t))
    <3> TAKE t \in D
    <3>1. HasIndex(Kept, of, t) = KeptBy(t, threads[t].early, r(t))
      <4>1. \A k \in Kept : k[1] = t => k \in KeptBy(t, threads[t].early, r(t))
        BY KeptOf
      <4>2. \A k \in KeptBy(t, threads[t].early, r(t)) : k \in Kept /\ k[1] = t
        <5> TAKE k \in KeptBy(t, threads[t].early, r(t))
        <5>1. k[1] = t
          BY DEF KeptBy
        <5> QED BY <5>1, KeptOf
      <4> QED BY <4>1, <4>2 DEF HasIndex
    <3> QED BY <3>1
  <2>2. HasAnyOf(Kept, of, D) = Kept
    BY KeptOf DEF HasAnyOf
  <2> HIDE DEF D, count, of
  <2>3. SumFunctionOnSet(count, D) = Cardinality(HasAnyOf(Kept, of, D))
    BY <1>2, <1>4, <2>1, SumOfCounts
  <2> QED BY <2>2, <2>3
<1>7. ASSUME ~cfg.record_all_responses
      PROVE  Report.count = 0
  <2>1. \A t \in D : KeptBy(t, threads[t].early, r(t)) = {}
    BY <1>3, <1>7 DEF KeptBy
  <2>2. Kept = {}
    BY <2>1, KeptOf
  <2> QED BY <1>4, <2>2, FS_EmptySet
<1>8. ASSUME cfg.record_all_responses
      PROVE  Report.complete = Report.count + SumFunction(apart)
  <2>1. \A t \in D : apart[t] \in Nat /\ total[t] = count[t] + apart[t]
    BY <1>3, <1>5, <1>8
  <2>2. SumFunction(apart) = SumFunctionOnSet(apart, D)
    BY DEF SumFunction
  <2> HIDE DEF D, count, total, apart
  <2>3. Summable(count, D) /\ Summable(apart, D)
    BY <1>2, <1>5, <2>1 DEF Summable
  <2>4. SumFunctionOnSet(total, D) = SumFunctionOnSet(count, D) + SumFunctionOnSet(apart, D)
    BY <2>1, <2>3, SumOfSums
  <2> QED BY <1>4, <1>6, <2>2, <2>4
<1> HIDE DEF count, total
<1> QED BY <1>3, <1>7, <1>8

(* main's totals: no response is lost or counted twice between the threads *)
(* of response_complete, the reset at calibrate, the samples of            *)
(* sample_rate and the hdr_adds of main.                                   *)
THEOREM CountsAlwaysReconcile == Spec => []CountsReconcile
<1>1. IInv => CountsReconcile
  BY CountsOfInv DEF CountsReconcile
<1> QED BY <1>1, Invariance, PTL

-----------------------------------------------------------------------------
(* The ticks of the percentile iterator: a recursive function over an      *)
(* interval exists, and this one comes down to 0.                          *)
Recursive(N, V, base, next) ==
  \E t \in [0 .. N -> V] : t[0] = base /\ \A n \in 1 .. N : t[n] = next[t[n - 1]]

LEMMA Recursion ==
  ASSUME NEW N \in Nat, NEW V, NEW base \in V, NEW next \in [V -> V]
  PROVE  Recursive(N, V, base, next)
<1> DEFINE D == 1 .. N
           pick == [s \in SUBSET D |-> Max(s)]
           step == [x \in D |-> next]
           table == FoldTable(D, V, base, pick, step)
           t == [n \in 0 .. N |-> table[1 .. n]]
<1>1. \A s \in SUBSET D : s # {} => pick[s] \in s
  BY LastIndex
<1>2. IsFiniteSet(D) /\ step \in [D -> [V -> V]]
  BY FS_Interval
<1>3. Foldable(D, V, base, pick, step)
  <2> HIDE DEF D, pick, step
  <2> QED BY <1>1, <1>2 DEF Foldable
<1>4. \A n \in 1 .. N : pick[1 .. n] = n /\ Less(1 .. n, n) = 1 .. n - 1 /\ 1 .. n # {} /\ 1 .. n \in SUBSET D
  <2> TAKE n \in 1 .. N
  <2>1. 1 .. n # {} /\ 1 .. n \in SUBSET D /\ n \in 1 .. n
    OBVIOUS
  <2>2. pick[1 .. n] = Max(1 .. n)
    BY <2>1
  <2>3. Max(1 .. n) \in 1 .. n /\ \A i \in 1 .. n : i <= Max(1 .. n)
    BY <2>1, LastIndex
  <2>4. Max(1 .. n) = n
    BY <2>1, <2>3
  <2> QED BY <2>1, <2>2, <2>4 DEF Less
<1>5. \A n \in 0 .. N : 1 .. n \in SUBSET D
  OBVIOUS
<1> HIDE DEF D, pick, step
<1>6. /\ \A s \in SUBSET D : table[s] \in V
      /\ table[{}] = base
      /\ \A s \in SUBSET D : s # {} => table[s] = step[pick[s]][table[Less(s, pick[s])]]
  BY <1>3, FoldExists
<1> HIDE DEF table
<1>7. t \in [0 .. N -> V]
  BY <1>5, <1>6
<1>8. t[0] = base
  <2>1. 1 .. 0 = {}
    OBVIOUS
  <2> QED BY <1>6, <2>1
<1>9. ASSUME NEW n \in 1 .. N
      PROVE  t[n] = next[t[n - 1]]
  <2>1. t[n] = table[1 .. n] /\ t[n - 1] = table[1 .. n - 1]
    OBVIOUS
  <2>2. table[1 .. n] = step[n][table[1 .. n - 1]]
    <3> DEFINE u == 1 .. n
    <3>1. u \in SUBSET D /\ u # {} /\ pick[u] = n /\ Less(u, n) = 1 .. n - 1
      BY <1>4
    <3> HIDE DEF u
    <3>2. table[u] = step[pick[u]][table[Less(u, pick[u])]]
      BY <1>6, <3>1
    <3> QED BY <3>1, <3>2 DEF u
  <2>3. step[n] = next
    BY DEF step, D
  <2> QED BY <2>1, <2>2, <2>3
<1> HIDE DEF t
<1> QED BY <1>7, <1>8, <1>9 DEF Recursive

NextTick(rest) == AtLeast(rest - 2 ^ (Halvings - HalfDistance(rest)), 0)
LastTick == 2 * ticks_per_half_distance * (Halvings + 1)
TickTable == CHOOSE t : t = [n \in 0 .. LastTick |-> IF n = 0 THEN Unit ELSE NextTick(t[n - 1])]

LEMMA UnitOf ==
  /\ Unit \in Nat \ {0} /\ LastTick \in Nat
  /\ \A k \in 0 .. Halvings : Unit = (ticks_per_half_distance * 2 ^ (Halvings - k)) * 2 ^ (k + 1)
<1> DEFINE d == ticks_per_half_distance
           H == Halvings
<1>1. d \in Nat \ {0} /\ H \in Nat
  BY TicksAssumption
<1>2. 2 ^ H \in Nat \ {0}
  BY <1>1, PowerNext
<1>3. Unit \in Nat \ {0}
  <2>1. 2 * d \in Nat \ {0}
    BY <1>1
  <2> DEFINE a == 2 * d
             b == 2 ^ H
  <2> HIDE DEF a, b
  <2>2. a * b \in Nat \ {0}
    BY <1>2, <2>1 DEF a, b
  <2> QED BY <2>2 DEF Unit, a, b
<1>4. LastTick \in Nat
  BY <1>1 DEF LastTick
<1>5. ASSUME NEW k \in 0 .. H
      PROVE  Unit = (d * 2 ^ (H - k)) * 2 ^ (k + 1)
  <2>1. H - k \in Nat /\ k \in Nat
    BY <1>1
  <2>2. 2 ^ (k + 1) = 2 * 2 ^ k /\ 2 ^ k \in Nat
    BY <2>1, PowerNext
  <2>3. 2 ^ H = 2 ^ (H - k) * 2 ^ k
    <3>1. 2 ^ ((H - k) + k) = 2 ^ (H - k) * 2 ^ k
      BY <2>1, PowerAdd
    <3>2. (H - k) + k = H
      BY <1>1
    <3> QED BY <3>1, <3>2
  <2>4. 2 ^ (H - k) \in Nat
    BY <2>1, PowerNext
  <2> DEFINE a == 2 ^ (H - k)
             b == 2 ^ k
  <2>5. Unit = (2 * d) * (a * b) /\ 2 ^ (k + 1) = 2 * b
    BY <2>2, <2>3 DEF Unit
  <2>6. a \in Nat /\ b \in Nat
    BY <2>2, <2>4
  <2> HIDE DEF a, b, d
  <2>7. (2 * d) * (a * b) = (d * a) * (2 * b)
    BY <1>1, <2>6
  <2>8. Unit = (d * a) * 2 ^ (k + 1)
    BY <2>5, <2>7
  <2> QED BY <2>8 DEF a, d
<1> QED BY <1>3, <1>4, <1>5

LEMMA HalfDistanceOf ==
  ASSUME NEW rest \in 0 .. Unit
  PROVE  HalfDistance(rest) \in 0 .. Halvings /\ rest * 2 ^ HalfDistance(rest) <= Unit
<1> DEFINE K == {k \in 0 .. Halvings : rest * 2 ^ k <= Unit}
<1>1. Halvings \in Nat /\ Unit \in Nat
  BY TicksAssumption, UnitOf
<1>2. K \subseteq Nat /\ \A k \in K : k <= Halvings
  OBVIOUS
<1>3. 0 \in K
  <2>1. rest * 2 ^ 0 = rest
    BY PowerZero, UnitOf
  <2> QED BY <1>1, <2>1
<1>4. HalfDistance(rest) = Max(K)
  BY DEF HalfDistance
<1>5. Max(K) \in K
  <2> HIDE DEF K
  <2>1. \E m \in K : \A i \in K : i <= m
    BY <1>1, <1>2, <1>3, GreatestNumber
  <2>2. \E m \in K : \A i \in K : m >= i
    BY <1>2, <2>1
  <2> QED BY <1>2, <2>2 DEF Max
<1> HIDE DEF HalfDistance
<1> QED BY <1>4, <1>5

LEMMA NextTickOf ==
  ASSUME NEW rest \in 0 .. Unit
  PROVE  /\ NextTick(rest) \in 0 .. Unit /\ NextTick(rest) <= rest
         /\ \A k \in 0 .. Halvings : HalfDistance(rest) <= k =>
              2 ^ (Halvings - k) \in Nat /\ NextTick(rest) <= AtLeast(rest - 2 ^ (Halvings - k), 0)
<1>1. Halvings \in Nat /\ Unit \in Nat /\ HalfDistance(rest) \in 0 .. Halvings
  BY TicksAssumption, UnitOf, HalfDistanceOf
<1> DEFINE d == HalfDistance(rest)
           b == 2 ^ (Halvings - d)
<1>2. Halvings - d \in Nat
  BY <1>1
<1>3. b \in Nat /\ NextTick(rest) = AtLeast(rest - b, 0)
  BY <1>2, PowerNext DEF NextTick
<1> HIDE DEF b, d
<1>4. NextTick(rest) \in 0 .. Unit /\ NextTick(rest) <= rest
  BY <1>1, <1>3 DEF AtLeast
<1>5. ASSUME NEW k \in 0 .. Halvings, d <= k
      PROVE  2 ^ (Halvings - k) \in Nat /\ NextTick(rest) <= AtLeast(rest - 2 ^ (Halvings - k), 0)
  <2>1. Halvings - k \in Nat /\ Halvings - k <= Halvings - d
    BY <1>1, <1>5 DEF d
  <2>2. 2 ^ (Halvings - k) \in Nat /\ 2 ^ (Halvings - k) <= b
    BY <1>2, <2>1, PowerNext, PowerOrder DEF b
  <2> QED BY <1>1, <1>3, <2>2 DEF AtLeast
<1> QED BY <1>4, <1>5 DEF d

LEMMA TicksOf ==
  /\ TickTable \in [0 .. LastTick -> 0 .. Unit] /\ TickTable[0] = Unit
  /\ \A n \in 1 .. LastTick : TickTable[n] = NextTick(TickTable[n - 1])
  /\ Ticks = {TickTable[n] : n \in 0 .. LastTick}
<1> DEFINE V == 0 .. Unit
           next == [rest \in V |-> NextTick(rest)]
           line(t) == t = [n \in 0 .. LastTick |-> IF n = 0 THEN Unit ELSE NextTick(t[n - 1])]
<1>1. LastTick \in Nat /\ Unit \in V /\ Unit \in Nat
  BY UnitOf
<1>2. next \in [V -> V]
  BY NextTickOf
<1>3. PICK t \in [0 .. LastTick -> V] : t[0] = Unit /\ \A n \in 1 .. LastTick : t[n] = next[t[n - 1]]
  <2>1. LastTick \in Nat /\ Unit \in V
    BY <1>1
  <2> HIDE DEF V, next
  <2>2. Recursive(LastTick, V, Unit, next)
    BY <1>2, <2>1, Recursion
  <2> QED BY <2>2 DEF Recursive
<1>4. line(t)
  <2>1. \A n \in 1 .. LastTick : t[n] = NextTick(t[n - 1])
    <3> TAKE n \in 1 .. LastTick
    <3>1. t[n - 1] \in V
      BY <1>1, <1>3
    <3> HIDE DEF V
    <3> QED BY <1>3, <3>1
  <2>2. \A n \in 0 .. LastTick : t[n] = IF n = 0 THEN Unit ELSE NextTick(t[n - 1])
    <3> TAKE n \in 0 .. LastTick
    <3>1. n # 0 => n \in 1 .. LastTick
      BY <1>1
    <3> QED BY <1>3, <2>1, <3>1
  <2> QED BY <1>3, <2>2
<1>5. line(TickTable)
  BY <1>4 DEF TickTable
<1>6. /\ DOMAIN TickTable = 0 .. LastTick
      /\ \A n \in 0 .. LastTick : TickTable[n] = IF n = 0 THEN Unit ELSE NextTick(TickTable[n - 1])
  <2> DEFINE table == TickTable
  <2>1. line(table)
    BY <1>5
  <2> HIDE DEF table
  <2>2. /\ DOMAIN table = 0 .. LastTick
        /\ \A n \in 0 .. LastTick : table[n] = IF n = 0 THEN Unit ELSE NextTick(table[n - 1])
    BY <2>1
  <2> QED BY <2>2 DEF table
<1>7. TickTable[0] = Unit /\ \A n \in 1 .. LastTick : TickTable[n] = NextTick(TickTable[n - 1])
  BY <1>1, <1>6
<1>8. \A n \in 0 .. LastTick : TickTable[n] \in V
  <2> DEFINE T == {n \in Nat : n <= LastTick => TickTable[n] \in V}
  <2>1. 0 \in T
    BY <1>1, <1>7
  <2>2. ASSUME NEW n \in Nat, n \in T
        PROVE  n + 1 \in T
    <3>1. CASE n + 1 <= LastTick
      <4>1. n + 1 \in 1 .. LastTick /\ (n + 1) - 1 = n /\ TickTable[n] \in V
        BY <1>1, <2>2, <3>1
      <4>2. TickTable[n + 1] = NextTick(TickTable[n])
        BY <1>7, <4>1
      <4> QED BY <4>1, <4>2, NextTickOf
    <3> QED BY <1>1, <3>1
  <2> HIDE DEF T
  <2>3. \A n \in Nat : n \in T
    BY <2>1, <2>2, AllNumbers
  <2> QED BY <1>1, <2>3 DEF T
<1>9. TickTable \in [0 .. LastTick -> V]
  <2> DEFINE table == TickTable
  <2>1. DOMAIN table = 0 .. LastTick /\ \A n \in 0 .. LastTick : table[n] \in V
    BY <1>6, <1>8
  <2>2. table = [n \in 0 .. LastTick |-> table[n]]
    BY <1>5, <1>6
  <2> HIDE DEF table, V
  <2>3. table \in [0 .. LastTick -> V]
    BY <2>1, <2>2
  <2> QED BY <2>3 DEF table
<1>10. Ticks = {TickTable[n] : n \in 0 .. LastTick}
  <2>1. Ticks = {TickTable[n] : n \in DOMAIN TickTable}
    BY DEF Ticks, TickTable, NextTick, LastTick
  <2> QED BY <1>6, <2>1
<1> QED BY <1>7, <1>9, <1>10

\* what j steps leave at most, once the distance of the ticks is 2^-k of the first
Left(k, j) == (2 * ticks_per_half_distance - j) * 2 ^ (Halvings - k)

(* One step within a distance, and the steps of a distance.                *)
LEMMA OneTick ==
  ASSUME NEW k \in 0 .. Halvings, NEW j \in Nat, j < ticks_per_half_distance \/ k = Halvings,
         j < 2 * ticks_per_half_distance, NEW rest \in 0 .. Unit, rest <= Left(k, j)
  PROVE  NextTick(rest) <= Left(k, j + 1)
<1> DEFINE d == ticks_per_half_distance
           b == 2 ^ (Halvings - k)
           e == HalfDistance(rest)
<1>1. d \in Nat \ {0} /\ Halvings \in Nat /\ k \in Nat /\ Halvings - k \in Nat
  BY TicksAssumption
<1>2. b \in Nat \ {0}
  BY <1>1, PowerNext
<1>3. e \in 0 .. Halvings /\ rest * 2 ^ e <= Unit
  BY HalfDistanceOf
<1>4. NextTick(rest) \in 0 .. Unit /\ NextTick(rest) <= rest /\ (e <= k => NextTick(rest) <= AtLeast(rest - b, 0))
  BY NextTickOf
<1>5. Left(k, j) = (2 * d - j) * b /\ Left(k, j + 1) = (2 * d - (j + 1)) * b
  BY DEF Left
<1>6. Unit \in Nat
  BY UnitOf
<1> DEFINE next == NextTick(rest)
<1>7. CASE e <= k
  <2>1. next <= AtLeast(rest - b, 0) /\ next \in Nat
    BY <1>4, <1>6, <1>7
  <2>2. rest \in Nat
    BY <1>6
  <2> HIDE DEF b, d, e, next
  <2>3. (2 * d - j) * b = (2 * d - (j + 1)) * b + b
    BY <1>1, <1>2
  <2>4. 0 <= (2 * d - (j + 1)) * b
    <3>1. 0 <= 2 * d - (j + 1) /\ 2 * d - (j + 1) \in Int
      BY <1>1 DEF d
    <3>2. 0 * b <= (2 * d - (j + 1)) * b
      BY <1>2, <3>1, Scaled
    <3> QED BY <1>2, <3>2
  <2> DEFINE x == (2 * d - (j + 1)) * b
  <2>5. x \in Int
    BY <1>1, <1>2
  <2>6. rest <= x + b /\ 0 <= x
    BY <1>5, <2>3, <2>4
  <2> HIDE DEF x
  <2>7. next <= x
    BY <1>2, <2>1, <2>2, <2>5, <2>6 DEF AtLeast
  <2> QED BY <1>5, <2>7 DEF x, next
<1>8. CASE e > k
  <2>1. j < d /\ k + 1 \in Nat /\ e \in Nat /\ k + 1 <= e
    BY <1>1, <1>3, <1>8
  <2>2. 2 ^ (k + 1) <= 2 ^ e /\ 2 ^ (k + 1) \in Nat \ {0} /\ 2 ^ e \in Nat \ {0}
    BY <2>1, PowerNext, PowerOrder
  <2>3. Unit = (d * b) * 2 ^ (k + 1)
    BY UnitOf
  <2> DEFINE p == 2 ^ (k + 1)
             q == 2 ^ e
  <2>4. p \in Nat \ {0} /\ q \in Nat \ {0} /\ p <= q /\ rest * q <= Unit /\ Unit = (d * b) * p /\ rest \in Nat
    BY <1>3, <1>6, <2>2, <2>3
  <2> HIDE DEF p, q, b, d, e, next
  <2>5. rest * p <= (d * b) * p
    <3>1. rest * p <= rest * q
      <4>1. CASE rest = 0
        BY <2>4, <4>1
      <4>2. CASE rest # 0
        <5>1. p * rest <= q * rest
          BY <2>4, <4>2, Scaled
        <5> QED BY <2>4, <5>1
      <4> QED BY <4>1, <4>2
    <3> DEFINE x == rest * p
               y == rest * q
    <3>2. x \in Nat /\ y \in Nat /\ y <= Unit
      BY <2>4
    <3>3. x <= y
      BY <3>1
    <3> HIDE DEF x, y
    <3>4. x <= Unit
      BY <1>6, <3>2, <3>3
    <3> QED BY <2>4, <3>4 DEF x
  <2>6. rest <= d * b
    <3>1. d * b \in Int
      BY <1>1, <1>2
    <3> DEFINE x == d * b
    <3> HIDE DEF x
    <3>2. rest <= x
      BY <2>4, <2>5, <3>1, Scaled DEF x
    <3> QED BY <3>2 DEF x
  <2>7. d * b <= (2 * d - (j + 1)) * b
    <3>1. d <= 2 * d - (j + 1) /\ d \in Int /\ 2 * d - (j + 1) \in Int
      BY <1>1, <2>1
    <3> QED BY <1>2, <3>1, Scaled
  <2> DEFINE x == d * b
             y == (2 * d - (j + 1)) * b
  <2>8. x \in Int /\ y \in Int
    BY <1>1, <1>2
  <2>9. rest <= x /\ x <= y
    BY <2>6, <2>7
  <2> HIDE DEF x, y
  <2>10. next <= y
    BY <1>4, <1>6, <2>4, <2>8, <2>9 DEF next
  <2> QED BY <1>5, <2>10 DEF y, next
<1> QED BY <1>1, <1>3, <1>7, <1>8

\* the steps at the distance k: the last distance is not halved
Steps(k) == IF k = Halvings THEN 2 * ticks_per_half_distance ELSE ticks_per_half_distance

LEMMA TickIndex ==
  ASSUME NEW k \in 0 .. Halvings, NEW j \in 0 .. Steps(k)
  PROVE  k * ticks_per_half_distance + j \in 0 .. LastTick
<1> DEFINE d == ticks_per_half_distance
           H == Halvings
<1>1. d \in Nat \ {0} /\ H \in Nat /\ k \in Nat /\ k <= H /\ j \in Nat /\ j <= 2 * d
  BY TicksAssumption DEF Steps
<1>2. LastTick = 2 * d * (H + 1)
  BY DEF LastTick
<1> HIDE DEF d, H
<1>3. k * d <= H * d
  BY <1>1, Scaled
<1> DEFINE x == k * d
           y == H * d
<1>4. x \in Nat /\ y \in Nat /\ x <= y
  BY <1>1, <1>3
<1>5. 2 * d * (H + 1) = 2 * y + 2 * d
  BY <1>1
<1> HIDE DEF x, y
<1>6. x + j \in 0 .. LastTick
  BY <1>1, <1>2, <1>4, <1>5
<1> QED BY <1>6 DEF x, d

LEMMA OneDistance ==
  ASSUME NEW k \in 0 .. Halvings, TickTable[k * ticks_per_half_distance] <= Left(k, 0)
  PROVE  TickTable[k * ticks_per_half_distance + Steps(k)] <= Left(k, Steps(k))
<1> DEFINE d == ticks_per_half_distance
           x == k * d
           T == {j \in Nat : j <= Steps(k) => TickTable[x + j] <= Left(k, j)}
<1>1. d \in Nat \ {0} /\ k \in Nat /\ x \in Nat /\ LastTick \in Nat
  BY TicksAssumption, UnitOf
<1>2. Steps(k) \in Nat /\ (Steps(k) = d \/ k = Halvings) /\ Steps(k) <= 2 * d
  BY TicksAssumption DEF Steps
<1>3. 0 \in T
  <2>1. x + 0 = x
    BY <1>1
  <2> QED BY <2>1
<1>4. ASSUME NEW j \in Nat, j \in T
      PROVE  j + 1 \in T
  <2>1. CASE j + 1 <= Steps(k)
    <3>1. j \in 0 .. Steps(k) /\ j + 1 \in 0 .. Steps(k) /\ j < 2 * d /\ (j < d \/ k = Halvings)
      BY <1>1, <1>2, <2>1
    <3>2. x + j \in 0 .. LastTick /\ x + (j + 1) \in 0 .. LastTick
      BY <3>1, TickIndex
    <3> HIDE DEF x
    <3>3. x + (j + 1) \in 1 .. LastTick /\ (x + (j + 1)) - 1 = x + j
      BY <1>1, <3>2
    <3>4. TickTable[x + (j + 1)] = NextTick(TickTable[x + j]) /\ TickTable[x + j] \in 0 .. Unit
      BY <3>2, <3>3, TicksOf
    <3>5. TickTable[x + j] <= Left(k, j)
      BY <1>4, <3>1
    <3>6. NextTick(TickTable[x + j]) <= Left(k, j + 1)
      BY <3>1, <3>4, <3>5, OneTick
    <3> QED BY <3>4, <3>6
  <2> QED BY <1>2, <2>1
<1> HIDE DEF T, x
<1>5. \A j \in Nat : j \in T
  BY <1>3, <1>4, AllNumbers
<1> QED BY <1>2, <1>5 DEF T, x

LEMMA TicksEnd == 0 \in Ticks /\ Ticks \subseteq 0 .. Unit /\ Unit \in Nat
<1> DEFINE d == ticks_per_half_distance
           T == {k \in Nat : k <= Halvings => TickTable[k * d] <= Left(k, 0)}
<1>1. d \in Nat \ {0} /\ Halvings \in Nat /\ LastTick \in Nat
  BY TicksAssumption, UnitOf
<1>2. 0 \in T
  <2>1. 0 * d = 0 /\ Halvings - 0 = Halvings /\ 2 * d - 0 = 2 * d
    BY <1>1
  <2>2. Left(0, 0) = Unit
    BY <2>1 DEF Left, Unit
  <2>3. TickTable[0] <= Unit
    BY UnitOf, TicksOf
  <2> QED BY <2>1, <2>2, <2>3
<1>3. ASSUME NEW k \in Nat, k \in T
      PROVE  k + 1 \in T
  <2>1. CASE k + 1 <= Halvings
    <3>1. k \in 0 .. Halvings /\ k # Halvings /\ Halvings - (k + 1) \in Nat /\ Halvings - k = (Halvings - (k + 1)) + 1
      BY <1>1, <2>1
    <3>2. TickTable[k * d + Steps(k)] <= Left(k, Steps(k)) /\ Steps(k) = d
      BY <1>3, <2>1, <3>1, OneDistance DEF Steps
    <3>3. (k + 1) * d = k * d + d
      BY <1>1
    <3>4. Left(k, d) = Left(k + 1, 0)
      <4>1. 2 ^ (Halvings - k) = 2 * 2 ^ (Halvings - (k + 1)) /\ 2 ^ (Halvings - (k + 1)) \in Nat
        BY <3>1, PowerNext
      <4> DEFINE b == 2 ^ (Halvings - (k + 1))
      <4>2. Left(k, d) = (2 * d - d) * (2 * b) /\ Left(k + 1, 0) = (2 * d - 0) * b /\ b \in Nat
        BY <4>1 DEF Left
      <4> HIDE DEF b, d
      <4>3. (2 * d - d) * (2 * b) = (2 * d - 0) * b
        BY <1>1, <4>2
      <4> QED BY <4>2, <4>3
    <3> HIDE DEF d
    <3> QED BY <3>2, <3>3, <3>4
  <2> QED BY <1>1, <2>1
<1>4. TickTable[Halvings * d] <= Left(Halvings, 0)
  <2> HIDE DEF T
  <2>1. \A k \in Nat : k \in T
    BY <1>2, <1>3, AllNumbers
  <2> QED BY <1>1, <2>1 DEF T
<1> DEFINE last == Halvings * d + Steps(Halvings)
<1>5. Halvings \in 0 .. Halvings /\ Steps(Halvings) = 2 * d /\ Steps(Halvings) \in 0 .. Steps(Halvings)
  BY <1>1 DEF Steps
<1>6. TickTable[last] <= Left(Halvings, Steps(Halvings)) /\ last \in 0 .. LastTick
  BY <1>4, <1>5, OneDistance, TickIndex
<1>7. Left(Halvings, Steps(Halvings)) = 0
  <2>1. Halvings - Halvings = 0 /\ 2 * d - 2 * d = 0 /\ 0 * 1 = 0
    BY <1>1
  <2>2. 2 ^ (Halvings - Halvings) = 1
    BY <2>1, PowerZero
  <2> QED BY <1>5, <2>1, <2>2 DEF Left
<1> HIDE DEF last
<1>8. TickTable[last] = 0
  BY <1>6, <1>7, TicksOf, UnitOf
<1>9. Ticks \subseteq 0 .. Unit
  BY TicksOf
<1> QED BY <1>6, <1>8, <1>9, TicksOf, UnitOf

-----------------------------------------------------------------------------
(* The lines of the detailed spectrum of a histogram with the values v.    *)
Reached(h, rest) == {i \in Occupied(h) : (Unit - rest) * h.total <= Unit * CountTo(h, i)}
LastOf(h)   == Max(Occupied(h))
AtTick(h, rest) == Min(Reached(h, rest))
EndedAt(h)  == {rest \in Ticks : AtTick(h, rest) = LastOf(h)}

LineOf(J, v, line) ==
  /\ line.count = Cardinality(NotOver(J, v, line.value))
  /\ (Unit - line.rest) * Cardinality(J) <= Unit * line.count
  /\ line.rest # 0 => \A k \in J :
       highest_equivalent_value(v[k]) < line.value =>
         Unit * Cardinality(NotOver(J, v, highest_equivalent_value(v[k]))) < (Unit - line.rest) * Cardinality(J)

(* The count and the end of an index are those of a value at it.           *)
LEMMA IndexCounts ==
  ASSUME NEW h, NEW J, NEW v, NEW I, Filled(h, J, v, I), NEW k \in J
  PROVE  /\ v[k] \in Nat /\ I[k] = counts_index_for(v[k]) /\ I[k] \in Nat /\ I[k] \in Occupied(h)
         /\ HighestAt[I[k]] = highest_equivalent_value(v[k])
         /\ CountTo(h, I[k]) = Cardinality(NotOver(J, v, highest_equivalent_value(v[k])))
         /\ CountTo(h, I[k]) \in 0 .. Cardinality(J) /\ Cardinality(J) \in Nat
         /\ CountTo(h, I[k]) = Cardinality(J) => \A j \in J : I[j] <= I[k]
<1>1. Contents(h, J, I) /\ \A j \in J : v[j] \in Nat /\ I[j] = counts_index_for(v[j])
  BY DEF Filled, Values
<1>2. IsFiniteSet(J) /\ \A j \in J : I[j] \in Indices /\ I[j] \in Nat
  BY <1>1, IndicesAreNumbers DEF Contents
<1>3. I[k] \in Occupied(h)
  BY <1>1, OccupiedOf
<1>4. HighestAt[I[k]] = highest_equivalent_value(v[k])
  BY <1>1, <1>2, HighestAtIs
<1>5. CountTo(h, I[k]) = Cardinality(NotOver(J, I, I[k]))
  BY <1>1, <1>2, CountToOf
<1>6. NotOver(J, I, I[k]) = NotOver(J, v, highest_equivalent_value(v[k]))
  <2>1. \A j \in J : v[j] <= highest_equivalent_value(v[k]) <=> I[j] <= I[k]
    BY <1>1, EndOrder
  <2> QED BY <2>1 DEF NotOver
<1>7. /\ IsFiniteSet(NotOver(J, I, I[k])) /\ Cardinality(NotOver(J, I, I[k])) <= Cardinality(J)
      /\ Cardinality(NotOver(J, I, I[k])) = Cardinality(J) => NotOver(J, I, I[k]) = J
  BY <1>2, FS_Subset DEF NotOver
<1>8. Cardinality(NotOver(J, I, I[k])) \in Nat /\ Cardinality(J) \in Nat
  BY <1>2, <1>7, FS_CardinalityType
<1>9. CountTo(h, I[k]) = Cardinality(J) => \A j \in J : I[j] <= I[k]
  BY <1>5, <1>7 DEF NotOver
<1>10. CountTo(h, I[k]) \in 0 .. Cardinality(J)
  BY <1>5, <1>7, <1>8
<1> QED BY <1>1, <1>2, <1>3, <1>4, <1>5, <1>6, <1>8, <1>9, <1>10

LEMMA LastReached ==
  ASSUME NEW h, NEW J, NEW v, NEW I, Filled(h, J, v, I)
  PROVE  /\ h.total = Cardinality(J)
         /\ \E k \in J : /\ LastOf(h) = I[k] /\ \A j \in J : I[j] <= I[k]
                         /\ CountTo(h, I[k]) = Cardinality(J)
<1>1. h.total = Cardinality(J)
  BY DEF Filled, Contents
<1>2. PICK k \in J : (\A j \in J : v[j] <= v[k]) /\ Max(Occupied(h)) = counts_index_for(v[k])
  BY ExtremesOf
<1>3. \A j \in J : v[j] \in Nat /\ I[j] = counts_index_for(v[j]) /\ I[j] \in Nat
  BY IndexCounts
<1>4. \A j \in J : I[j] <= I[k]
  BY <1>2, <1>3, IndexOrder
<1>5. NotOver(J, v, highest_equivalent_value(v[k])) = J
  <2>1. \A j \in J : v[j] <= highest_equivalent_value(v[k])
    BY <1>3, <1>4, EndOrder
  <2> QED BY <2>1 DEF NotOver
<1>6. CountTo(h, I[k]) = Cardinality(J)
  BY <1>5, IndexCounts
<1> QED BY <1>1, <1>2, <1>3, <1>4, <1>6 DEF LastOf

(* Every tick is reached, at the least index that reaches it.              *)
LEMMA TickReached ==
  ASSUME NEW h, NEW J, NEW v, NEW I, Filled(h, J, v, I), NEW rest \in 0 .. Unit
  PROVE  /\ \E k \in J : AtTick(h, rest) = I[k] /\ (Unit - rest) * Cardinality(J) <= Unit * CountTo(h, I[k])
         /\ \A k \in J : I[k] < AtTick(h, rest) => Unit * CountTo(h, I[k]) < (Unit - rest) * Cardinality(J)
<1> DEFINE n == Cardinality(J)
           K == Reached(h, rest)
<1>1. h.total = n /\ n \in Nat /\ Unit \in Nat
  <2>1. n \in Nat
    BY FS_CardinalityType DEF Filled, Contents
  <2> QED BY <2>1, LastReached, UnitOf
<1>2. \A k \in J : I[k] \in Nat /\ I[k] \in Occupied(h) /\ CountTo(h, I[k]) \in Nat
  BY <1>1, IndexCounts
<1>3. \A i : i \in Occupied(h) => \E k \in J : I[k] = i
  BY OccupiedOf DEF Filled
<1>4. \A k \in J : I[k] \in K <=> (Unit - rest) * n <= Unit * CountTo(h, I[k])
  BY <1>1, <1>2 DEF Reached
<1>5. K # {}
  <2>1. PICK k \in J : CountTo(h, I[k]) = n
    BY LastReached
  <2>2. (Unit - rest) * n <= Unit * n
    <3>1. CASE n = 0
      BY <1>1, <3>1
    <3>2. CASE n # 0
      <4>1. Unit - rest <= Unit /\ Unit - rest \in Int /\ Unit \in Int /\ n \in Nat \ {0}
        BY <1>1, <3>2
      <4> HIDE DEF n
      <4> QED BY <4>1, Scaled
    <3> QED BY <3>1, <3>2
  <2> QED BY <1>4, <2>1, <2>2
<1>6. K \subseteq Nat /\ K \subseteq Occupied(h)
  BY <1>2, <1>3 DEF Reached
<1>7. AtTick(h, rest) \in K /\ \A i \in K : AtTick(h, rest) <= i
  <2> HIDE DEF K
  <2>1. \E m \in K : \A i \in K : m <= i
    BY <1>5, <1>6, LeastNumber
  <2>2. Min(K) \in K /\ \A i \in K : Min(K) <= i
    BY <2>1 DEF Min
  <2> QED BY <2>2 DEF AtTick, K
<1> HIDE DEF K, n
<1>8. \E k \in J : AtTick(h, rest) = I[k] /\ (Unit - rest) * n <= Unit * CountTo(h, I[k])
  BY <1>3, <1>4, <1>6, <1>7
<1>9. ASSUME NEW k \in J, I[k] < AtTick(h, rest)
      PROVE  Unit * CountTo(h, I[k]) < (Unit - rest) * n
  <2>1. I[k] \notin K
    <3>1. I[k] \in Nat /\ AtTick(h, rest) \in Nat
      BY <1>2, <1>6, <1>7
    <3>2. ~(AtTick(h, rest) <= I[k])
      BY <1>9, <3>1
    <3> QED BY <1>7, <3>2
  <2>2. ~((Unit - rest) * n <= Unit * CountTo(h, I[k]))
    BY <1>4, <2>1
  <2> DEFINE x == (Unit - rest) * n
             y == Unit * CountTo(h, I[k])
  <2>3. x \in Int /\ y \in Int
    BY <1>1, <1>2
  <2> HIDE DEF x, y
  <2>4. y < x
    BY <2>2, <2>3 DEF x, y
  <2> QED BY <2>4 DEF x, y
<1> QED BY <1>8, <1>9 DEF n

(* Only the last index reaches 100%.                                       *)
LEMMA LastTickEnded ==
  ASSUME NEW h, NEW J, NEW v, NEW I, Filled(h, J, v, I)
  PROVE  Max(EndedAt(h)) \in EndedAt(h)
<1>1. PICK l \in J : LastOf(h) = I[l] /\ (\A j \in J : I[j] <= I[l]) /\ CountTo(h, I[l]) = Cardinality(J)
  BY LastReached
<1>2. Unit \in Nat \ {0} /\ 0 \in Ticks /\ 0 \in 0 .. Unit
  BY TicksEnd, UnitOf
<1>3. PICK k \in J : AtTick(h, 0) = I[k] /\ (Unit - 0) * Cardinality(J) <= Unit * CountTo(h, I[k])
  BY <1>2, TickReached
<1>4. CountTo(h, I[k]) \in 0 .. Cardinality(J) /\ Cardinality(J) \in Nat /\ I[k] \in Nat /\ I[l] \in Nat
  BY IndexCounts
<1>5. CountTo(h, I[k]) = Cardinality(J)
  <2> DEFINE n == Cardinality(J)
             c == CountTo(h, I[k])
             U == Unit
  <2>1. n \in Nat /\ c \in 0 .. n /\ U \in Nat \ {0} /\ (U - 0) * n <= U * c
    BY <1>2, <1>3, <1>4
  <2> HIDE DEF n, c, U
  <2>2. n * U <= c * U
    BY <2>1
  <2>3. n <= c
    BY <2>1, <2>2, Scaled
  <2>4. c = n
    BY <2>1, <2>3
  <2> QED BY <2>4 DEF n, c
<1>6. I[l] <= I[k] /\ I[k] <= I[l]
  BY <1>1, <1>5, IndexCounts
<1>7. 0 \in EndedAt(h)
  <2>1. I[l] = I[k]
    BY <1>4, <1>6
  <2>2. AtTick(h, 0) = LastOf(h)
    BY <1>1, <1>3, <2>1
  <2> QED BY <1>2, <2>2 DEF EndedAt
<1>8. EndedAt(h) \subseteq Nat /\ \A rest \in EndedAt(h) : rest <= Unit
  <2>1. \A rest \in Ticks : rest \in Nat /\ rest <= Unit
    BY TicksEnd
  <2>2. EndedAt(h) \subseteq Ticks
    BY DEF EndedAt
  <2> QED BY <2>1, <2>2
<1> DEFINE K == EndedAt(h)
<1> HIDE DEF K
<1>9. \E m \in K : \A i \in K : i <= m
  BY <1>2, <1>7, <1>8, GreatestNumber DEF K
<1>10. \E m \in K : \A i \in K : m >= i
  BY <1>8, <1>9 DEF K
<1>11. Max(K) \in K
  BY <1>10 DEF Max
<1> QED BY <1>11 DEF K

LEMMA LinesOf ==
  ASSUME NEW h, NEW J, NEW v, NEW I, Filled(h, J, v, I)
  PROVE  /\ \A line \in hdr_percentiles_print(h) : LineOf(J, v, line)
         /\ \E line \in hdr_percentiles_print(h) : line.rest = 0 /\ line.count = Cardinality(J)
<1> DEFINE n == Cardinality(J)
           U == Unit
<1>1. h.total = n /\ n \in Nat \ {0} /\ U \in Nat
  <2>1. IsFiniteSet(J) /\ J # {}
    BY DEF Filled, Contents
  <2>2. n \in Nat /\ n # 0
    BY <2>1, FS_CardinalityType, FS_EmptySet
  <2> QED BY <2>2, LastReached, UnitOf
<1>2. PICK l \in J : LastOf(h) = I[l] /\ CountTo(h, I[l]) = n
  BY LastReached
<1>3. hdr_percentiles_print(h) =
        {Line(h, AtTick(h, rest), rest) : rest \in (Ticks \ EndedAt(h)) \cup {Max(EndedAt(h))}} \cup {Line(h, LastOf(h), 0)}
  BY <1>1 DEF hdr_percentiles_print, LastOf, AtTick, Reached, EndedAt
<1>4. (Ticks \ EndedAt(h)) \cup {Max(EndedAt(h))} \subseteq Ticks
  BY LastTickEnded DEF EndedAt
<1>5. ASSUME NEW k \in J, NEW rest \in 0 .. Unit,
             (Unit - rest) * n <= Unit * CountTo(h, I[k]),
             rest # 0 => \A j \in J : I[j] < I[k] => Unit * CountTo(h, I[j]) < (Unit - rest) * n
      PROVE  LineOf(J, v, Line(h, I[k], rest))
  <2>1. /\ Line(h, I[k], rest).value = highest_equivalent_value(v[k])
        /\ Line(h, I[k], rest).rest = rest /\ Line(h, I[k], rest).count = CountTo(h, I[k])
        /\ CountTo(h, I[k]) = Cardinality(NotOver(J, v, highest_equivalent_value(v[k])))
    BY IndexCounts DEF Line
  <2>2. ASSUME rest # 0, NEW j \in J, highest_equivalent_value(v[j]) < highest_equivalent_value(v[k])
        PROVE  Unit * Cardinality(NotOver(J, v, highest_equivalent_value(v[j]))) < (Unit - rest) * n
    <3>1. v[j] \in Nat /\ v[k] \in Nat /\ I[j] = counts_index_for(v[j]) /\ I[k] = counts_index_for(v[k])
      BY IndexCounts
    <3>2. I[j] < I[k]
      BY <2>2, <3>1, EndOrder
    <3>3. Unit * CountTo(h, I[j]) < (Unit - rest) * n
      BY <1>5, <2>2, <3>2
    <3> QED BY <3>3, IndexCounts
  <2> QED BY <1>5, <2>1, <2>2 DEF LineOf
<1>6. ASSUME NEW rest \in Ticks
      PROVE  LineOf(J, v, Line(h, AtTick(h, rest), rest))
  <2>1. rest \in 0 .. Unit
    BY TicksEnd
  <2>2. PICK k \in J : AtTick(h, rest) = I[k] /\ (Unit - rest) * n <= Unit * CountTo(h, I[k])
    BY <2>1, TickReached
  <2>3. \A j \in J : I[j] < I[k] => Unit * CountTo(h, I[j]) < (Unit - rest) * n
    BY <2>1, <2>2, TickReached
  <2>4. LineOf(J, v, Line(h, I[k], rest))
    BY <1>5, <2>1, <2>2, <2>3
  <2> QED BY <2>2, <2>4
<1>7. LineOf(J, v, Line(h, LastOf(h), 0))
  <2>1. 0 \in 0 .. Unit /\ (Unit - 0) * n <= Unit * n
    BY <1>1
  <2>2. LineOf(J, v, Line(h, I[l], 0))
    BY <1>2, <1>5, <2>1
  <2> QED BY <1>2, <2>2
<1>8. \A line \in hdr_percentiles_print(h) : LineOf(J, v, line)
  BY <1>3, <1>4, <1>6, <1>7
<1>9. Line(h, LastOf(h), 0).rest = 0 /\ Line(h, LastOf(h), 0).count = n
  BY <1>2 DEF Line
<1>10. \E line \in hdr_percentiles_print(h) : line.rest = 0 /\ line.count = n
  BY <1>3, <1>9
<1> QED BY <1>8, <1>10

LEMMA SpectrumOfInv ==
  ASSUME IInv, run = "printed", Kept # {}
  PROVE  LET report == Report
             n      == Cardinality(Kept)
         IN  /\ \A line \in report.lines :
                  /\ line.count = Upto(line.value)
                  /\ (Unit - line.rest) * n <= Unit * line.count
                  /\ line.rest # 0 => \A k \in Kept :
                       EndOf(LatencyOf(k)) < line.value => Unit * Upto(EndOf(LatencyOf(k))) < (Unit - line.rest) * n
             /\ \E line \in report.lines : line.rest = 0 /\ line.count = n
<1> DEFINE h == Merged
           v == LatencyAt
           n == Cardinality(Kept)
<1>1. Filled(h, Kept, v, IndexAt)
  BY MergedOf DEF Filled
<1>2. \A k \in Kept : v[k] = LatencyOf(k)
  BY DEF LatencyAt
<1>3. Report.lines = hdr_percentiles_print(h)
  BY DEF Report
<1>4. \A x : Cardinality(NotOver(Kept, v, x)) = Upto(x)
  <2> TAKE x
  <2> HIDE DEF v
  <2>1. NotOver(Kept, v, x) = {j \in Kept : LatencyOf(j) <= x}
    BY <1>2 DEF NotOver
  <2> QED BY <2>1 DEF Upto
<1> HIDE DEF h, v
<1>5. /\ \A line \in Report.lines : LineOf(Kept, v, line)
      /\ \E line \in Report.lines : line.rest = 0 /\ line.count = n
  BY <1>1, <1>3, LinesOf
<1>6. ASSUME NEW line \in Report.lines
      PROVE  /\ line.count = Upto(line.value)
             /\ (Unit - line.rest) * n <= Unit * line.count
             /\ line.rest # 0 => \A k \in Kept :
                  EndOf(LatencyOf(k)) < line.value => Unit * Upto(EndOf(LatencyOf(k))) < (Unit - line.rest) * n
  <2>1. LineOf(Kept, v, line)
    BY <1>5
  <2>2. line.count = Upto(line.value) /\ (Unit - line.rest) * n <= Unit * line.count
    BY <1>4, <2>1 DEF LineOf
  <2>3. ASSUME line.rest # 0, NEW k \in Kept, EndOf(LatencyOf(k)) < line.value
        PROVE  Unit * Upto(EndOf(LatencyOf(k))) < (Unit - line.rest) * n
    <3>1. highest_equivalent_value(v[k]) = EndOf(LatencyOf(k))
      BY <1>2 DEF EndOf
    <3>2. Unit * Cardinality(NotOver(Kept, v, highest_equivalent_value(v[k]))) < (Unit - line.rest) * n
      BY <2>1, <2>3, <3>1 DEF LineOf
    <3> QED BY <1>4, <3>1, <3>2
  <2> QED BY <2>2, <2>3
<1> QED BY <1>5, <1>6

(* hdr_percentiles_print (print_hdr_latency with -L): every line of the    *)
(* spectrum counts the latencies up to its value, is the first value that  *)
(* has its percentile, and the last line is 100% and all of them.          *)
THEOREM SpectrumAlwaysOfTheLatencies == Spec => []SpectrumIsOfTheLatencies
<1>1. IInv => SpectrumIsOfTheLatencies
  BY SpectrumOfInv DEF SpectrumIsOfTheLatencies
<1> QED BY <1>1, Invariance, PTL

-----------------------------------------------------------------------------
(* The share within a deviation of the mean.                               *)
LEMMA MedianOf ==
  ASSUME NEW v \in Nat
  PROVE  /\ median_equivalent_value(v) \in Nat
         /\ median_equivalent_value(value_from_index(counts_index_for(v))) = median_equivalent_value(v)
<1>1. ASSUME NEW x \in Nat
      PROVE  /\ size_of_equivalent_value_range(x) \in Nat
             /\ size_of_equivalent_value_range(x) = highest_equivalent_value(x) - lowest_equivalent_value(x) + 1
  <2> DEFINE b == get_bucket_index(x)
             u == unit_magnitude
  <2>1. b \in Nat /\ u \in Nat
    BY LiesIn, Shape DEF Lies, Pair
  <2>2. size_of_equivalent_value_range(x) = 2 ^ (u + b + 0) \/ size_of_equivalent_value_range(x) = 2 ^ (u + b + 1)
    BY DEF size_of_equivalent_value_range
  <2> HIDE DEF b, u
  <2>3. u + b + 0 \in Nat /\ u + b + 1 \in Nat
    BY <2>1
  <2>4. size_of_equivalent_value_range(x) \in Nat
    BY <2>2, <2>3, PowerNext
  <2>5. highest_equivalent_value(x) = (lowest_equivalent_value(x) + size_of_equivalent_value_range(x)) - 1
    BY DEF highest_equivalent_value, next_non_equivalent_value
  <2> QED BY <2>4, <2>5, RangeOf
<1> DEFINE w == lowest_equivalent_value(v)
<1>2. /\ w \in Nat /\ w <= v /\ v <= highest_equivalent_value(v) /\ highest_equivalent_value(v) \in Nat
      /\ value_from_index(counts_index_for(v)) = w
  BY RangeOf
<1>3. lowest_equivalent_value(w) = w /\ highest_equivalent_value(w) = highest_equivalent_value(v)
  BY <1>2, SameRange
<1> HIDE DEF w
<1>4. size_of_equivalent_value_range(w) = size_of_equivalent_value_range(v)
  BY <1>1, <1>2, <1>3 DEF w
<1>5. median_equivalent_value(w) = median_equivalent_value(v)
  BY <1>3, <1>4 DEF median_equivalent_value, w
<1>6. median_equivalent_value(v) \in Nat
  BY <1>1, <1>2 DEF median_equivalent_value, w
<1> QED BY <1>2, <1>5, <1>6

Weight(h, w) == [i \in DOMAIN h.counts |-> h.counts[i] * w[i]]

(* The sum of a weight over a histogram is that over its values.           *)
LEMMA WeightsAdd ==
  ASSUME NEW h, NEW J, NEW v, NEW I, Filled(h, J, v, I), NEW w, \A i \in DOMAIN h.counts : w[i] \in Nat,
         NEW g, \A j \in J : g[j] = w[I[j]]
  PROVE  Summable(g, J) /\ SumFunction(Weight(h, w)) = SumFunctionOnSet(g, J)
<1> DEFINE D == DOMAIN h.counts
           f == Weight(h, w)
<1>1. IsFiniteSet(J) /\ IsFiniteSet(D)
  BY HistogramParts, FS_Subset DEF Filled, Contents
<1>2. \A i \in D : f[i] = Cardinality(HasIndex(J, I, i)) * w[i]
  BY DEF Weight, Filled, Contents
<1>3. HasAnyOf(J, I, D) = J
  <2>1. \A j \in J : I[j] \in D
    BY DEF Filled, Contents, HasIndex
  <2> QED BY <2>1 DEF HasAnyOf
<1>4. DOMAIN f = D /\ SumFunction(f) = SumFunctionOnSet(f, D)
  BY DEF Weight, SumFunction, SumFunctionOnSet
<1> HIDE DEF D, f
<1>5. Summable(g, J) /\ SumFunctionOnSet(f, D) = SumFunctionOnSet(g, J)
  <2>1. \A i \in D : w[i] \in Nat
    BY DEF D
  <2> QED BY <1>1, <1>2, <1>3, <2>1, SumOfWeights
<1> QED BY <1>4, <1>5 DEF f

\* the medians of the values, and their squared distances from the mean, times n
Mids(J, v) == [j \in J |-> median_equivalent_value(v[j])]
Squares(J, v, n, total) == [j \in J |-> (Mids(J, v)[j] * n - total) * (Mids(J, v)[j] * n - total)]

LEMMA TotalsOf ==
  ASSUME NEW h, NEW J, NEW v, NEW I, Filled(h, J, v, I)
  PROVE  /\ MeanTotal(h) \in Nat /\ MeanTotal(h) = SumFunctionOnSet(Mids(J, v), J)
         /\ DevTotal(h) \in Nat
         /\ DevTotal(h) = SumFunctionOnSet(Squares(J, v, Cardinality(J), MeanTotal(h)), J)
<1> DEFINE D == DOMAIN h.counts
           n == Cardinality(J)
           mid == [i \in D |-> median_equivalent_value(value_from_index(i))]
           m == MeanTotal(h)
           sq == [i \in D |-> (mid[i] * n - m) * (mid[i] * n - m)]
<1>1. h.total = n /\ n \in Nat
  <2>1. IsFiniteSet(J)
    BY DEF Filled, Contents
  <2> QED BY <2>1, LastReached, FS_CardinalityType
<1>2. \A j \in J : v[j] \in Nat /\ I[j] = counts_index_for(v[j]) /\ I[j] \in D
  BY DEF Filled, Values, Contents, HasIndex
<1>3. \A i \in D : \E j \in J : I[j] = i
  BY DEF Filled, Contents, HasIndex
<1>4. \A j \in J : mid[I[j]] = Mids(J, v)[j] /\ mid[I[j]] \in Nat
  BY <1>2, MedianOf DEF Mids
<1>5. \A i \in D : mid[i] \in Nat
  <2> HIDE DEF mid, D
  <2> QED BY <1>3, <1>4
<1>6. m = SumFunction(Weight(h, mid))
  BY DEF MeanTotal, SumOver, Weight
<1> HIDE DEF mid
<1>7. m = SumFunctionOnSet(Mids(J, v), J) /\ m \in Nat
  <2>1. Summable(Mids(J, v), J) /\ SumFunction(Weight(h, mid)) = SumFunctionOnSet(Mids(J, v), J)
    BY <1>4, <1>5, WeightsAdd
  <2> QED BY <1>6, <2>1, SumType
<1>8. DevTotal(h) = SumFunction(Weight(h, sq))
  BY <1>1 DEF DevTotal, SumOver, Weight, mid
<1>9. \A i \in D : sq[i] = (mid[i] * n - m) * (mid[i] * n - m) /\ sq[i] \in Nat
  <2> TAKE i \in D
  <2> DEFINE d == mid[i] * n - m
  <2>1. d \in Int
    BY <1>1, <1>5, <1>7
  <2> HIDE DEF d
  <2>2. d * d \in Nat
    BY <2>1
  <2> QED BY <2>2 DEF d
<1>10. \A j \in J : Squares(J, v, n, m)[j] = sq[I[j]]
  BY <1>2, <1>4, <1>9 DEF Squares
<1> HIDE DEF sq
<1>11. /\ Summable(Squares(J, v, n, m), J)
       /\ SumFunction(Weight(h, sq)) = SumFunctionOnSet(Squares(J, v, n, m), J)
  <2> HIDE DEF n, m
  <2>1. \A i \in DOMAIN h.counts : sq[i] \in Nat
    BY <1>9
  <2> QED BY <1>10, <2>1, WeightsAdd
<1>12. DevTotal(h) = SumFunctionOnSet(Squares(J, v, n, m), J) /\ DevTotal(h) \in Nat
  BY <1>8, <1>11, SumType
<1> QED BY <1>7, <1>12

(* The ranges of the indices lie side by side.                             *)
LEMMA SideBySide ==
  /\ value_from_index(0) = 0
  /\ \A i \in Indices : value_from_index(i) \in Nat /\ HighestAt[i] \in Nat /\ value_from_index(i) <= HighestAt[i]
  /\ \A i, j \in Indices : i <= j => value_from_index(i) <= value_from_index(j) /\ HighestAt[i] <= HighestAt[j]
  /\ \A i \in Indices : i + 1 \in Indices => HighestAt[i] + 1 = value_from_index(i + 1)
<1> DEFINE v(i) == value_from_index(i)
           e(i) == highest_equivalent_value(v(i))
<1>1. \A i \in Indices : i \in Nat /\ HighestAt[i] = e(i)
  <2>1. \A i \in Indices : HighestAt[i] = e(i)
    BY DEF HighestAt, Indices
  <2> QED BY <2>1, IndicesAreNumbers
<1>2. ASSUME NEW i \in Nat
      PROVE  /\ v(i) \in Nat /\ counts_index_for(v(i)) = i /\ e(i) \in Nat /\ v(i) <= e(i)
             /\ lowest_equivalent_value(v(i)) = v(i)
  <2>1. v(i) \in Nat /\ counts_index_for(v(i)) = i /\ lowest_equivalent_value(v(i)) = v(i)
    BY ValueOf
  <2> QED BY <2>1, RangeOf
<1>3. v(0) = 0
  <2>1. v(0) \in Nat /\ counts_index_for(v(0)) = 0
    BY <1>2
  <2>2. counts_index_for(0) <= 0 /\ counts_index_for(0) \in Nat
    BY <2>1, IndexOrder, RangeOf
  <2>3. counts_index_for(0) = 0
    BY <2>2
  <2>4. v(counts_index_for(0)) = lowest_equivalent_value(0) /\ lowest_equivalent_value(0) <= 0 /\ lowest_equivalent_value(0) \in Nat
    BY RangeOf
  <2>5. lowest_equivalent_value(0) = 0
    BY <2>4
  <2> QED BY <2>3, <2>4, <2>5
<1> HIDE DEF v
<1>4. ASSUME NEW i \in Nat, NEW j \in Nat
      PROVE  /\ v(i) <= e(j) <=> i <= j
             /\ e(i) < e(j) <=> i < j
  BY <1>2, EndOrder
<1>5. ASSUME NEW i \in Nat, NEW j \in Nat, i <= j
      PROVE  v(i) <= v(j) /\ e(i) <= e(j)
  <2>1. CASE i = j
    BY <1>2, <2>1
  <2>2. CASE i # j
    <3>1. ~(v(j) <= e(i)) /\ e(i) < e(j)
      BY <1>4, <1>5, <2>2
    <3> DEFINE a == v(i)
               b == e(i)
               c == v(j)
               d == e(j)
    <3>2. a \in Nat /\ b \in Nat /\ c \in Nat /\ d \in Nat /\ a <= b /\ ~(c <= b) /\ b < d
      BY <1>2, <3>1
    <3> HIDE DEF a, b, c, d
    <3>3. a <= c /\ b <= d
      BY <3>2
    <3> QED BY <3>3 DEF a, b, c, d
  <2> QED BY <2>1, <2>2
<1>6. ASSUME NEW i \in Nat
      PROVE  e(i) + 1 = v(i + 1)
  <2> DEFINE x == e(i) + 1
             y == v(i + 1)
             z == e(i)
  <2>1. z \in Nat /\ x = z + 1 /\ x \in Nat /\ y \in Nat /\ i + 1 \in Nat
    BY <1>2
  <2>2. ~(y <= z)
    <3>1. ~(i + 1 <= i)
      OBVIOUS
    <3> QED BY <1>4, <2>1, <3>1
  <2>3. x <= y
    <3> HIDE DEF x, y, z
    <3> QED BY <2>1, <2>2
  <2>4. ~(counts_index_for(x) <= i)
    <3>1. counts_index_for(v(i)) = i /\ v(i) \in Nat
      BY <1>2
    <3>2. x <= e(i) <=> counts_index_for(x) <= i
      BY <2>1, <3>1, EndOrder
    <3>3. ~(x <= e(i))
      BY <2>1
    <3> QED BY <3>2, <3>3
  <2>5. counts_index_for(x) <= i + 1 /\ counts_index_for(x) \in Nat
    <3>1. counts_index_for(y) = i + 1
      BY <1>2, <2>1
    <3> HIDE DEF x, y, z
    <3>2. counts_index_for(x) <= counts_index_for(y)
      BY <2>1, <2>3, IndexOrder
    <3> QED BY <2>1, <3>1, <3>2, RangeOf
  <2>6. counts_index_for(x) = i + 1
    BY <2>4, <2>5
  <2>7. v(counts_index_for(x)) = lowest_equivalent_value(x) /\ lowest_equivalent_value(x) <= x
    <3> HIDE DEF x
    <3> QED BY <2>1, RangeOf DEF v
  <2>8. y <= x
    BY <2>6, <2>7
  <2> HIDE DEF x, y, z
  <2>9. x = y
    BY <2>1, <2>3, <2>8
  <2> QED BY <2>9 DEF x, y
<1> HIDE DEF e
<1>7. \A i \in Indices : v(i) \in Nat /\ HighestAt[i] \in Nat /\ v(i) <= HighestAt[i]
  BY <1>1, <1>2
<1>8. \A i, j \in Indices : i <= j => v(i) <= v(j) /\ HighestAt[i] <= HighestAt[j]
  BY <1>1, <1>5
<1>9. \A i \in Indices : i + 1 \in Indices => HighestAt[i] + 1 = v(i + 1)
  BY <1>1, <1>6
<1> QED BY <1>3, <1>7, <1>8, <1>9 DEF v

(* The iteration visits every index up to a recorded one.                  *)
LEMMA VisitedOf ==
  ASSUME NEW h, NEW J, NEW v, NEW I, Filled(h, J, v, I), NEW k \in J, NEW i \in Nat, i <= I[k]
  PROVE  i \in Visited(h) /\ i \in Indices
<1>1. Contents(h, J, I) /\ IsFiniteSet(J) /\ I[k] \in Indices /\ I[k] \in Nat /\ h.total = Cardinality(J)
  BY IndicesAreNumbers DEF Filled, Contents
<1>2. i - 1 \in Int /\ ~(I[k] <= i - 1)
  BY <1>1
<1>3. CountTo(h, i - 1) = Cardinality(NotOver(J, I, i - 1))
  BY <1>1, <1>2, CountToOf
<1>4. NotOver(J, I, i - 1) \subseteq J /\ NotOver(J, I, i - 1) # J
  BY <1>2 DEF NotOver
<1> DEFINE A == NotOver(J, I, i - 1)
<1> HIDE DEF A
<1>5. IsFiniteSet(A) /\ Cardinality(A) <= Cardinality(J) /\ Cardinality(A) # Cardinality(J)
  BY <1>1, <1>4, FS_Subset DEF A
<1>6. Cardinality(A) \in Nat /\ Cardinality(J) \in Nat
  BY <1>1, <1>5, FS_CardinalityType
<1>7. CountTo(h, i - 1) < h.total
  BY <1>1, <1>3, <1>5, <1>6 DEF A
<1>8. i \in Indices
  BY <1>1, Trackable DEF Indices
<1> QED BY <1>7, <1>8 DEF Visited, Indices

\* the distance d, in units of 1 / n, is more than a deviation; or at least one
IsAbove(d, n, dev) == d > 0 /\ d * d * n > dev
IsBelow(d, n, dev) == d >= 0 /\ d * d * n >= dev

LEMMA Farther ==
  ASSUME NEW n \in Nat \ {0}, NEW dev \in Nat, NEW d \in Int, NEW e \in Int, d <= e
  PROVE  /\ IsAbove(d, n, dev) => IsAbove(e, n, dev)
         /\ IsBelow(d, n, dev) => IsBelow(e, n, dev)
<1>1. ASSUME d >= 0
      PROVE  d * d * n <= e * e * n /\ e >= 0
  <2>1. d * d <= e * e
    <3>1. CASE d = 0
      <4>1. 0 <= e * e
        BY <1>1
      <4> QED BY <3>1, <4>1
    <3>2. CASE d # 0
      <4>1. d \in Nat \ {0} /\ e \in Nat \ {0}
        BY <1>1, <3>2
      <4>2. d * d <= e * d
        BY <4>1, Scaled
      <4>3. d * e <= e * e
        BY <4>1, Scaled
      <4>4. d * e = e * d
        OBVIOUS
      <4> QED BY <4>2, <4>3, <4>4
    <3> QED BY <3>1, <3>2
  <2> DEFINE a == d * d
             b == e * e
  <2>2. a \in Int /\ b \in Int /\ a <= b
    BY <2>1
  <2> HIDE DEF a, b
  <2>3. a * n <= b * n
    BY <2>2, Scaled
  <2> QED BY <1>1, <2>3 DEF a, b
<1> DEFINE x == d * d * n
           y == e * e * n
<1>2. x \in Int /\ y \in Int
  OBVIOUS
<1>3. d >= 0 => x <= y
  BY <1>1
<1> HIDE DEF x, y
<1>4. d >= 0 => (x > dev => y > dev) /\ (x >= dev => y >= dev)
  BY <1>2, <1>3
<1> QED BY <1>4 DEF IsAbove, IsBelow, x, y

OverOf(h)  == {i \in Visited(h) : IsAbove(HighestAt[i] * h.total - MeanTotal(h), h.total, DevTotal(h))}
UnderOf(h) == {i \in Visited(h) : /\ IsBelow(MeanTotal(h) - (value_from_index(i) + 1) * h.total, h.total, DevTotal(h))
                                  /\ \A j \in OverOf(h) : i <= j}
UpperOf(h) == IF OverOf(h) = {} THEN h.total ELSE CountTo(h, Min(OverOf(h)))
LowerOf(h) == IF UnderOf(h) = {} THEN 0 ELSE CountTo(h, Max(UnderOf(h)))

\* the values whose ranges begin more than a unit above, and at least a unit below
BeginsAbove(J, v, n, m, dev) == {j \in J : IsAbove((lowest_equivalent_value(v[j]) - 1) * n - m, n, dev)}
BeginsBelow(J, v, n, m, dev) == {j \in J : IsBelow(m - (lowest_equivalent_value(v[j]) + 1) * n, n, dev)}

LEMMA WithinParts ==
  ASSUME NEW h, NEW J, NEW v, NEW I, Filled(h, J, v, I)
  PROVE  /\ stats_within_stdev(h) = UpperOf(h) - LowerOf(h)
         /\ h.total = Cardinality(J) /\ h.total \in Nat \ {0} /\ IsFiniteSet(J)
         /\ MeanTotal(h) \in Nat /\ DevTotal(h) \in Nat
         /\ \A j \in J : /\ I[j] \in Indices /\ I[j] \in Nat
                         /\ value_from_index(I[j]) = lowest_equivalent_value(v[j])
<1>1. stats_within_stdev(h) = UpperOf(h) - LowerOf(h)
  BY DEF stats_within_stdev, UpperOf, LowerOf, OverOf, UnderOf, IsAbove, IsBelow
<1>2. h.total = Cardinality(J) /\ IsFiniteSet(J) /\ J # {}
  BY DEF Filled, Contents
<1>3. Cardinality(J) \in Nat \ {0}
  <2>1. Cardinality(J) \in Nat /\ Cardinality(J) # 0
    BY <1>2, FS_CardinalityType, FS_EmptySet
  <2> QED BY <2>1
<1>4. MeanTotal(h) \in Nat /\ DevTotal(h) \in Nat
  BY TotalsOf
<1>5. ASSUME NEW j \in J
      PROVE  I[j] \in Indices /\ I[j] \in Nat /\ value_from_index(I[j]) = lowest_equivalent_value(v[j])
  <2>1. I[j] \in Indices /\ v[j] \in Nat /\ I[j] = counts_index_for(v[j])
    BY DEF Filled, Contents, Values
  <2> QED BY <2>1, RangeOf, IndicesAreNumbers
<1> QED BY <1>1, <1>2, <1>3, <1>4, <1>5

(* The upper limit counts what does not begin more than a unit above it.   *)
LEMMA UpperCounts ==
  ASSUME NEW h, NEW J, NEW v, NEW I, Filled(h, J, v, I)
  PROVE  UpperOf(h) = Cardinality(J \ BeginsAbove(J, v, h.total, MeanTotal(h), DevTotal(h)))
<1> DEFINE n == h.total
           m == MeanTotal(h)
           dev == DevTotal(h)
           K == OverOf(h)
           at(i) == value_from_index(i)
           A == BeginsAbove(J, v, n, m, dev)
<1>1. n = Cardinality(J) /\ n \in Nat \ {0} /\ m \in Nat /\ dev \in Nat
  BY WithinParts
<1>2. \A j \in J : I[j] \in Indices /\ I[j] \in Nat /\ at(I[j]) = lowest_equivalent_value(v[j])
  BY WithinParts
<1>3. \A j \in J : j \in A <=> IsAbove((at(I[j]) - 1) * n - m, n, dev)
  BY <1>2 DEF BeginsAbove
<1>4. \A i \in K : i \in Indices /\ i \in Nat /\ IsAbove(HighestAt[i] * n - m, n, dev)
  <2>1. \A i \in K : i \in Indices /\ IsAbove(HighestAt[i] * n - m, n, dev)
    BY DEF OverOf, Visited, Indices
  <2> QED BY <2>1, IndicesAreNumbers
<1>5. \A i : i \in Visited(h) /\ IsAbove(HighestAt[i] * n - m, n, dev) => i \in K
  BY DEF OverOf
<1> HIDE DEF n, m, dev, K, A, at
<1>6. ASSUME NEW o \in K, NEW j \in J, o < I[j]
      PROVE  j \in A
  <2>1. I[j] - 1 \in Indices /\ (I[j] - 1) + 1 = I[j] /\ o <= I[j] - 1
    <3>1. o \in Nat /\ I[j] \in Nat /\ I[j] \in Indices
      BY <1>2, <1>4
    <3>2. I[j] - 1 \in Nat /\ I[j] - 1 <= I[j] /\ o <= I[j] - 1 /\ (I[j] - 1) + 1 = I[j]
      BY <1>6, <3>1
    <3> QED BY <3>1, <3>2, VisitedOf
  <2>2. HighestAt[o] <= HighestAt[I[j] - 1] /\ HighestAt[I[j] - 1] + 1 = at(I[j])
    BY <1>2, <1>4, <2>1, SideBySide DEF at
  <2> DEFINE x == HighestAt[o]
             y == at(I[j]) - 1
  <2>3. x \in Nat /\ y \in Nat /\ x <= y
    BY <1>4, <2>1, <2>2, SideBySide
  <2>4. IsAbove(x * n - m, n, dev)
    BY <1>4
  <2> HIDE DEF x, y
  <2>5. x * n <= y * n
    BY <1>1, <2>3, Scaled
  <2>6. x * n - m \in Int /\ y * n - m \in Int /\ x * n - m <= y * n - m
    BY <1>1, <2>3, <2>5
  <2>7. IsAbove(y * n - m, n, dev)
    BY <1>1, <2>4, <2>6, Farther
  <2> QED BY <1>3, <2>7 DEF y
<1>7. ASSUME NEW j \in A, j \in J
      PROVE  \E o \in K : o < I[j]
  <2>1. IsAbove((at(I[j]) - 1) * n - m, n, dev) /\ at(I[j]) \in Nat
    BY <1>2, <1>3, <1>7, SideBySide DEF at
  <2>2. at(I[j]) # 0
    <3>1. CASE at(I[j]) = 0
      <4>1. (0 - 1) * n - m <= 0
        BY <1>1
      <4> QED BY <1>1, <2>1, <3>1, <4>1 DEF IsAbove
    <3> QED BY <3>1
  <2>3. I[j] # 0
    BY <2>2, SideBySide DEF at
  <2> DEFINE i == I[j] - 1
  <2>4. i \in Nat /\ i <= I[j] /\ i < I[j] /\ i + 1 = I[j]
    BY <1>2, <1>7, <2>3
  <2> HIDE DEF i
  <2>5. i \in Visited(h) /\ i \in Indices
    BY <1>7, <2>4, VisitedOf
  <2>6. HighestAt[i] + 1 = at(I[j]) /\ HighestAt[i] \in Nat
    BY <1>2, <1>7, <2>4, <2>5, SideBySide DEF at
  <2>7. HighestAt[i] = at(I[j]) - 1
    BY <2>6
  <2>8. i \in K
    BY <1>5, <2>1, <2>5, <2>7
  <2> QED BY <2>4, <2>8
<1>8. A \subseteq J
  BY DEF A, BeginsAbove
<1>9. CASE K = {}
  <2>1. A = {}
    BY <1>7, <1>8, <1>9
  <2>2. J \ A = J
    BY <2>1
  <2>3. UpperOf(h) = n
    BY <1>9 DEF UpperOf, K, n
  <2> QED BY <1>1, <2>2, <2>3 DEF A, n, m, dev
<1>10. CASE K # {}
  <2>1. PICK o \in K : \A i \in K : o <= i
    BY <1>4, <1>10, LeastNumber
  <2>2. Min(K) \in K /\ \A i \in K : Min(K) <= i
    BY <2>1 DEF Min
  <2> DEFINE least == Min(K)
  <2>3. least \in K /\ least \in Nat /\ \A i \in K : least <= i
    BY <1>4, <2>2
  <2>4. UpperOf(h) = CountTo(h, least)
    BY <1>10 DEF UpperOf, K
  <2> HIDE DEF least
  <2>5. CountTo(h, least) = Cardinality(NotOver(J, I, least))
    BY <2>3, CountToOf DEF Filled
  <2>6. \A j \in J : I[j] <= least <=> j \notin A
    <3> TAKE j \in J
    <3>1. CASE j \in A
      <4>1. PICK i \in K : i < I[j]
        BY <1>7, <3>1
      <4>2. least <= i /\ i \in Nat /\ I[j] \in Nat
        BY <1>2, <1>4, <2>3
      <4> QED BY <2>3, <3>1, <4>1, <4>2
    <3>2. CASE j \notin A
      <4>1. ~(least < I[j])
        BY <1>6, <2>3, <3>2
      <4> QED BY <1>2, <2>3, <3>2, <4>1
    <3> QED BY <3>1, <3>2
  <2>7. NotOver(J, I, least) = J \ A
    BY <2>6 DEF NotOver
  <2> QED BY <2>4, <2>5, <2>7 DEF A, n, m, dev
<1> QED BY <1>9, <1>10

(* The lower limit takes away what begins at least a unit below it.        *)
LEMMA LowerCounts ==
  ASSUME NEW h, NEW J, NEW v, NEW I, Filled(h, J, v, I)
  PROVE  LowerOf(h) = Cardinality(BeginsBelow(J, v, h.total, MeanTotal(h), DevTotal(h)))
<1> DEFINE n == h.total
           m == MeanTotal(h)
           dev == DevTotal(h)
           K == UnderOf(h)
           at(i) == value_from_index(i)
           B == BeginsBelow(J, v, n, m, dev)
<1>1. n \in Nat \ {0} /\ m \in Nat /\ dev \in Nat /\ counts_len \in Nat
  BY WithinParts, Trackable
<1>2. \A j \in J : I[j] \in Indices /\ I[j] \in Nat /\ at(I[j]) = lowest_equivalent_value(v[j])
  BY WithinParts
<1>3. \A j \in J : j \in B <=> IsBelow(m - (at(I[j]) + 1) * n, n, dev)
  BY <1>2 DEF BeginsBelow
<1>4. \A i \in K : i \in Indices /\ i \in Nat /\ i <= counts_len /\ IsBelow(m - (at(i) + 1) * n, n, dev)
  <2>1. \A i \in K : i \in Indices /\ IsBelow(m - (at(i) + 1) * n, n, dev)
    BY DEF UnderOf, Visited, Indices
  <2>2. \A i \in Indices : i <= counts_len
    BY <1>1 DEF Indices
  <2> QED BY <2>1, <2>2, IndicesAreNumbers
<1>5. \A i : i \in Visited(h) /\ IsBelow(m - (at(i) + 1) * n, n, dev) /\ (\A j \in OverOf(h) : i <= j) => i \in K
  BY DEF UnderOf
<1>6. \A i \in OverOf(h) : i \in Indices /\ i \in Nat /\ HighestAt[i] * n - m > 0
  <2>1. \A i \in OverOf(h) : i \in Indices /\ HighestAt[i] * n - m > 0
    BY DEF OverOf, Visited, Indices, IsAbove
  <2> QED BY <2>1, IndicesAreNumbers
<1> HIDE DEF n, m, dev, K, B, at
<1>7. ASSUME NEW u \in K, NEW j \in J, I[j] <= u
      PROVE  j \in B
  <2> DEFINE x == at(I[j])
             y == at(u)
  <2>1. x \in Nat /\ y \in Nat /\ x <= y
    BY <1>2, <1>4, <1>7, SideBySide DEF at
  <2>2. IsBelow(m - (y + 1) * n, n, dev)
    BY <1>4
  <2> HIDE DEF x, y
  <2>3. (x + 1) * n <= (y + 1) * n
    <3>1. x + 1 <= y + 1 /\ x + 1 \in Int /\ y + 1 \in Int
      BY <2>1
    <3> QED BY <1>1, <3>1, Scaled
  <2>4. m - (x + 1) * n \in Int /\ m - (y + 1) * n \in Int /\ m - (y + 1) * n <= m - (x + 1) * n
    BY <1>1, <2>1, <2>3
  <2>5. IsBelow(m - (x + 1) * n, n, dev)
    BY <1>1, <2>2, <2>4, Farther
  <2> QED BY <1>3, <2>5 DEF x
<1>8. ASSUME NEW j \in J, j \in B
      PROVE  I[j] \in K
  <2>1. IsBelow(m - (at(I[j]) + 1) * n, n, dev)
    BY <1>3, <1>8
  <2>2. I[j] \in Visited(h)
    BY <1>2, VisitedOf
  <2>3. ASSUME NEW o \in OverOf(h)
        PROVE  I[j] <= o
    <3>1. CASE o < I[j]
      <4> DEFINE x == HighestAt[o]
                 y == at(I[j])
      <4>1. o \in Indices /\ I[j] \in Indices /\ o + 1 \in Indices /\ o + 1 <= I[j]
        <5>1. o + 1 \in Nat /\ o + 1 <= I[j] /\ o \in Indices
          BY <1>2, <1>6, <3>1
        <5> QED BY <1>2, <5>1, VisitedOf
      <4>2. x + 1 = at(o + 1) /\ at(o + 1) <= y /\ x \in Nat /\ y \in Nat
        BY <4>1, SideBySide DEF at
      <4>3. x * n - m > 0 /\ m - (y + 1) * n >= 0
        BY <1>6, <2>1 DEF IsBelow
      <4> HIDE DEF x, y
      <4>4. x <= y + 1 /\ x \in Int /\ y + 1 \in Int
        BY <4>2
      <4>5. x * n <= (y + 1) * n
        BY <1>1, <4>4, Scaled
      <4> DEFINE a == x * n
                 b == (y + 1) * n
      <4>6. a \in Int /\ b \in Int /\ a <= b /\ a - m > 0 /\ m - b >= 0
        BY <1>1, <4>3, <4>4, <4>5
      <4> HIDE DEF a, b
      <4> QED BY <1>1, <4>6
    <3> QED BY <1>2, <1>6, <3>1
  <2> QED BY <1>5, <2>1, <2>2, <2>3
<1>9. B \subseteq J
  BY DEF B, BeginsBelow
<1>10. CASE K = {}
  <2>1. B = {}
    BY <1>8, <1>9, <1>10
  <2>2. LowerOf(h) = 0
    BY <1>10 DEF LowerOf, K
  <2>3. Cardinality(B) = 0
    BY <2>1, FS_EmptySet
  <2> QED BY <2>2, <2>3 DEF B, n, m, dev
<1>11. CASE K # {}
  <2>1. K \subseteq Nat /\ \A i \in K : i <= counts_len
    BY <1>4
  <2>2. PICK u \in K : \A i \in K : i <= u
    BY <1>1, <1>11, <2>1, GreatestNumber
  <2>3. \E w \in K : \A i \in K : w >= i
    BY <2>1, <2>2
  <2>4. Max(K) \in K /\ \A i \in K : Max(K) >= i
    BY <2>3 DEF Max
  <2> DEFINE most == Max(K)
  <2>5. most \in K /\ most \in Nat /\ \A i \in K : i <= most
    BY <2>1, <2>4
  <2>6. LowerOf(h) = CountTo(h, most)
    BY <1>11 DEF LowerOf, K
  <2> HIDE DEF most
  <2>7. CountTo(h, most) = Cardinality(NotOver(J, I, most))
    BY <2>5, CountToOf DEF Filled
  <2>8. \A j \in J : I[j] <= most <=> j \in B
    BY <1>7, <1>8, <2>5
  <2>9. NotOver(J, I, most) = B
    BY <1>9, <2>8 DEF NotOver
  <2> QED BY <2>6, <2>7, <2>9 DEF B, n, m, dev
<1> QED BY <1>10, <1>11

LEMMA WithinOf ==
  ASSUME NEW h, NEW J, NEW v, NEW I, Filled(h, J, v, I)
  PROVE  stats_within_stdev(h) =
           Cardinality({j \in J : /\ j \notin BeginsAbove(J, v, h.total, MeanTotal(h), DevTotal(h))
                                  /\ j \notin BeginsBelow(J, v, h.total, MeanTotal(h), DevTotal(h))})
<1> DEFINE n == h.total
           m == MeanTotal(h)
           dev == DevTotal(h)
           A == BeginsAbove(J, v, n, m, dev)
           B == BeginsBelow(J, v, n, m, dev)
<1>1. n \in Nat \ {0} /\ m \in Nat /\ dev \in Nat /\ IsFiniteSet(J) /\ \A j \in J : lowest_equivalent_value(v[j]) \in Nat
  <2>1. \A j \in J : I[j] \in Indices /\ value_from_index(I[j]) = lowest_equivalent_value(v[j])
    BY WithinParts
  <2> QED BY <2>1, WithinParts, SideBySide
<1>2. stats_within_stdev(h) = Cardinality(J \ A) - Cardinality(B)
  BY WithinParts, UpperCounts, LowerCounts
<1>3. B \subseteq J /\ A \cap B = {}
  <2>1. ASSUME NEW j \in A, j \in B
        PROVE  FALSE
    <3> DEFINE x == lowest_equivalent_value(v[j])
               a == (x - 1) * n
               b == (x + 1) * n
    <3>1. x \in Nat /\ a - m > 0 /\ m - b >= 0
      BY <1>1, <2>1 DEF BeginsAbove, BeginsBelow, IsAbove, IsBelow
    <3> HIDE DEF n, m, x
    <3>2. x - 1 <= x + 1 /\ x - 1 \in Int /\ x + 1 \in Int
      BY <3>1
    <3>3. a <= b
      BY <1>1, <3>2, Scaled
    <3>4. a \in Int /\ b \in Int
      BY <1>1, <3>2
    <3> HIDE DEF a, b
    <3> QED BY <1>1, <3>1, <3>3, <3>4
  <2>2. B \subseteq J
    BY DEF BeginsBelow
  <2> QED BY <2>1, <2>2
<1> HIDE DEF n, m, dev, A, B
<1>4. IsFiniteSet(B) /\ IsFiniteSet((J \ A) \ B) /\ B \cap ((J \ A) \ B) = {} /\ B \cup ((J \ A) \ B) = J \ A
  <2>1. B \cup ((J \ A) \ B) = J \ A
    BY <1>3
  <2>2. IsFiniteSet(B) /\ IsFiniteSet((J \ A) \ B)
    BY <1>1, <1>3, FS_Subset
  <2> QED BY <2>1, <2>2
<1>5. Cardinality(J \ A) = Cardinality(B) + Cardinality((J \ A) \ B)
  BY <1>4, CountUnion
<1>6. Cardinality(B) \in Nat /\ Cardinality((J \ A) \ B) \in Nat
  BY <1>4, FS_CardinalityType
<1>7. stats_within_stdev(h) = Cardinality((J \ A) \ B)
  BY <1>2, <1>5, <1>6
<1>8. (J \ A) \ B = {j \in J : j \notin A /\ j \notin B}
  OBVIOUS
<1> QED BY <1>7, <1>8 DEF A, B, n, m, dev

LEMMA WithinOfInv ==
  ASSUME IInv, run = "printed", Kept # {}
  PROVE  LET n       == Cardinality(Kept)
             mid     == [k \in Kept |-> median_equivalent_value(LatencyOf(k))]
             total   == SumFunction(mid)
             square  == SumFunction([k \in Kept |-> (mid[k] * n - total) * (mid[k] * n - total)])
             begin(k) == lowest_equivalent_value(LatencyOf(k))
             above(d) == d > 0 /\ d * d * n > square
             below(d) == d >= 0 /\ d * d * n >= square
         IN  Report.within = Cardinality({k \in Kept : ~above((begin(k) - 1) * n - total) /\ ~below(total - (begin(k) + 1) * n)})
<1> DEFINE h == Merged
           v == LatencyAt
           J == Kept
           n == Cardinality(J)
           mid == [k \in J |-> median_equivalent_value(LatencyOf(k))]
           total == SumFunction(mid)
           sq == [k \in J |-> (mid[k] * n - total) * (mid[k] * n - total)]
           square == SumFunction(sq)
<1>1. Filled(h, J, v, IndexAt)
  BY MergedOf DEF Filled
<1>2. \A k \in J : v[k] = LatencyOf(k)
  BY DEF LatencyAt
<1>3. Report.within = stats_within_stdev(h)
  BY DEF Report
<1> HIDE DEF h, v, J
<1>4. h.total = n
  BY <1>1, WithinParts
<1>5. MeanTotal(h) = total
  <2>1. Mids(J, v) = mid
    BY <1>2 DEF Mids
  <2>2. SumFunction(mid) = SumFunctionOnSet(mid, J)
    BY DEF SumFunction, SumFunctionOnSet
  <2>3. MeanTotal(h) = SumFunctionOnSet(Mids(J, v), J)
    BY <1>1, TotalsOf
  <2> HIDE DEF mid
  <2> QED BY <2>1, <2>2, <2>3
<1>6. DevTotal(h) = square
  <2>1. Mids(J, v) = mid
    BY <1>2 DEF Mids
  <2> HIDE DEF mid, total, n
  <2>2. Squares(J, v, n, total) = sq
    BY <2>1 DEF Squares
  <2>3. SumFunction(sq) = SumFunctionOnSet(sq, J)
    BY DEF SumFunction, SumFunctionOnSet
  <2>4. DevTotal(h) = SumFunctionOnSet(Squares(J, v, n, MeanTotal(h)), J)
    BY <1>1, TotalsOf DEF n
  <2> HIDE DEF sq
  <2> QED BY <1>5, <2>2, <2>3, <2>4
<1> HIDE DEF n, total, square
<1>7. stats_within_stdev(h) =
        Cardinality({k \in J : k \notin BeginsAbove(J, v, n, total, square) /\ k \notin BeginsBelow(J, v, n, total, square)})
  BY <1>1, <1>4, <1>5, <1>6, WithinOf
<1>8. \A k \in J :
        /\ k \in BeginsAbove(J, v, n, total, square) <=> IsAbove((lowest_equivalent_value(LatencyOf(k)) - 1) * n - total, n, square)
        /\ k \in BeginsBelow(J, v, n, total, square) <=> IsBelow(total - (lowest_equivalent_value(LatencyOf(k)) + 1) * n, n, square)
  BY <1>2 DEF BeginsAbove, BeginsBelow
<1>9. stats_within_stdev(h) =
        Cardinality({k \in J : /\ ~IsAbove((lowest_equivalent_value(LatencyOf(k)) - 1) * n - total, n, square)
                               /\ ~IsBelow(total - (lowest_equivalent_value(LatencyOf(k)) + 1) * n, n, square)})
  <2>1. {k \in J : k \notin BeginsAbove(J, v, n, total, square) /\ k \notin BeginsBelow(J, v, n, total, square)} =
        {k \in J : /\ ~IsAbove((lowest_equivalent_value(LatencyOf(k)) - 1) * n - total, n, square)
                   /\ ~IsBelow(total - (lowest_equivalent_value(LatencyOf(k)) + 1) * n, n, square)}
    BY <1>8
  <2> QED BY <1>7, <2>1
<1>10. Report.within =
         Cardinality({k \in J : /\ ~(/\ (lowest_equivalent_value(LatencyOf(k)) - 1) * n - total > 0
                                     /\ ((lowest_equivalent_value(LatencyOf(k)) - 1) * n - total)
                                          * ((lowest_equivalent_value(LatencyOf(k)) - 1) * n - total) * n > square)
                                /\ ~(/\ total - (lowest_equivalent_value(LatencyOf(k)) + 1) * n >= 0
                                     /\ (total - (lowest_equivalent_value(LatencyOf(k)) + 1) * n)
                                          * (total - (lowest_equivalent_value(LatencyOf(k)) + 1) * n) * n >= square)})
  BY <1>3, <1>9 DEF IsAbove, IsBelow
<1> QED BY <1>10 DEF n, total, square, J

(* stats_within_stdev (the column +/- Stdev): it counts the latencies of   *)
(* the ranges that begin less than a unit below the interval or at most a  *)
(* unit above.                                                             *)
THEOREM WithinAlwaysAShare == Spec => []WithinIsAShare
<1>1. IInv => WithinIsAShare
  BY WithinOfInv DEF WithinIsAShare
<1> QED BY <1>1, Invariance, PTL
=============================================================================
