----------------------------- MODULE AmountsProofs -----------------------------
(***************************************************************************)
(* How far the floats of launch are from the numbers they stand for, and   *)
(* what of it is left in the stake and the amount, for any precision and   *)
(* any scales.                                                             *)
(***************************************************************************)
EXTENDS Amounts, FiniteSetTheorems, WellFoundedInduction, TLAPS

Pos == Nat \ {0}

--------------------------------------------------------------------------------
(* Powers of two, counted as the subsets of a set. *)
LEMMA PowerPositive == ASSUME NEW n \in Nat PROVE 2 ^ n \in Pos
<1>1. IsFiniteSet(1 .. n) /\ Cardinality(1 .. n) = n  BY FS_Interval
<1>2. Cardinality(SUBSET (1 .. n)) = 2 ^ n /\ IsFiniteSet(SUBSET (1 .. n))
  BY <1>1, FS_SUBSET
<1>3. Cardinality(SUBSET (1 .. n)) # 0
  <2>1. {} \in SUBSET (1 .. n)  OBVIOUS
  <2> QED  BY <1>2, <2>1, FS_EmptySet
<1> QED  BY <1>2, <1>3, FS_CardinalityType DEF Pos

LEMMA PowerSum == ASSUME NEW a \in Nat, NEW b \in Nat PROVE 2 ^ (a + b) = 2 ^ a * 2 ^ b
<1> DEFINE A == 1 .. a
           B == (a + 1) .. (a + b)
           f == [p \in (SUBSET A) \X (SUBSET B) |-> p[1] \cup p[2]]
<1>1. IsFiniteSet(A) /\ Cardinality(A) = a  BY FS_Interval
<1>2. IsFiniteSet(B) /\ Cardinality(B) = b  BY FS_Interval
<1>3. A \cap B = {}  OBVIOUS
<1> HIDE DEF A, B
<1>4. IsFiniteSet(A \cup B) /\ Cardinality(A \cup B) = a + b
  BY <1>1, <1>2, <1>3, FS_Union, FS_EmptySet
<1>5. f \in Bijection((SUBSET A) \X (SUBSET B), SUBSET (A \cup B))
  <2>1. f \in [(SUBSET A) \X (SUBSET B) -> SUBSET (A \cup B)]  OBVIOUS
  <2>2. ASSUME NEW p \in (SUBSET A) \X (SUBSET B), NEW q \in (SUBSET A) \X (SUBSET B),
               f[p] = f[q]
        PROVE  p = q
    <3>1. p[1] \cup p[2] = q[1] \cup q[2]  BY <2>2
    <3>2. p[1] = q[1] /\ p[2] = q[2]  BY <3>1, <1>3
    <3> QED  BY <3>2
  <2>3. ASSUME NEW U \in SUBSET (A \cup B)
        PROVE  \E p \in (SUBSET A) \X (SUBSET B) : f[p] = U
    <3>1. <<U \cap A, U \cap B>> \in (SUBSET A) \X (SUBSET B)  OBVIOUS
    <3>2. f[<<U \cap A, U \cap B>>] = U  BY <3>1
    <3> QED  BY <3>1, <3>2
  <2> QED  BY <2>1, <2>2, <2>3 DEF Bijection, Injection, Surjection, IsInjective
<1>6. ExistsBijection((SUBSET A) \X (SUBSET B), SUBSET (A \cup B))
  BY <1>5 DEF ExistsBijection
<1>7. /\ IsFiniteSet(SUBSET A) /\ IsFiniteSet(SUBSET B)
      /\ Cardinality(SUBSET A) = 2 ^ a /\ Cardinality(SUBSET B) = 2 ^ b
      /\ Cardinality(SUBSET (A \cup B)) = 2 ^ (a + b)
  BY <1>1, <1>2, <1>4, FS_SUBSET
<1>8. /\ IsFiniteSet((SUBSET A) \X (SUBSET B))
      /\ Cardinality((SUBSET A) \X (SUBSET B)) = 2 ^ a * 2 ^ b
  BY <1>7, FS_Product
<1> QED  BY <1>6, <1>7, <1>8, FS_Bijection

LEMMA PowerDoubles == ASSUME NEW n \in Pos PROVE 2 ^ n = 2 * 2 ^ (n - 1)
<1>1. n - 1 \in Nat /\ n = 1 + (n - 1)  BY DEF Pos
<1>2. 2 ^ (1 + (n - 1)) = 2 ^ 1 * 2 ^ (n - 1)  BY <1>1, PowerSum
<1>3. 2 ^ 1 = 2  OBVIOUS
<1> QED  BY <1>1, <1>2, <1>3

(* A set of naturals with an element has a least one: as the initial segments below them. *)
LEMMA Least ==
    ASSUME NEW T \in SUBSET Nat, T # {}
    PROVE  \E m \in T : \A k \in T : m <= k
<1>1. PICK M \in T : TRUE  OBVIOUS
<1> DEFINE S == 0 .. M
           D == {U \in SUBSET S : \E k \in T : k <= M /\ U = 0 .. (k - 1)}
           R == StrictSubsetOrdering(S)
<1>2. IsFiniteSet(S)  BY FS_Interval
<1>3. IsWellFoundedOn(R, SUBSET S)
  BY <1>2, FS_StrictSubsetOrderingWellFounded, FS_FiniteSubsetsOfFinite, Zenon
<1>4. D \subseteq SUBSET S /\ D # {}
  <2>1. 0 .. (M - 1) \in D  OBVIOUS
  <2> QED  BY <2>1
<1>5. \E U \in D : \A V \in D : ~ (<<V, U>> \in R)
  <2> HIDE DEF D, R, S
  <2> QED  BY <1>3, <1>4, WFMin
<1>6. PICK U \in D : \A V \in D : ~ (<<V, U>> \in R)  BY <1>5
<1>7. PICK m \in T : m <= M /\ U = 0 .. (m - 1)  BY <1>6
<1>8. ASSUME NEW k \in T, k < m  PROVE FALSE
  <2>1. 0 .. (k - 1) \in D  BY <1>7, <1>8
  <2>2. 0 .. (k - 1) \subseteq 0 .. (m - 1)  BY <1>8
  <2>3. k \in 0 .. (m - 1) /\ k \notin 0 .. (k - 1)  BY <1>8
  <2>4. <<0 .. (k - 1), U>> \in R
    BY <2>1, <2>2, <2>3, <1>7, <1>4 DEF StrictSubsetOrdering
  <2> QED  BY <2>1, <2>4, <1>6
<1>9. \A k \in T : m <= k  BY <1>8
<1> QED  BY <1>9

--------------------------------------------------------------------------------
(* Products, for the provers: they are monotonic, and a positive factor can be cancelled. *)
LEMMA TimesNat == ASSUME NEW a \in Nat, NEW b \in Nat PROVE a * b \in Nat
OBVIOUS

LEMMA TimesPos == ASSUME NEW a \in Pos, NEW b \in Pos PROVE a * b \in Pos
BY DEF Pos

LEMMA Scale ==
    ASSUME NEW c \in Nat, NEW a \in Int, NEW b \in Int, a <= b
    PROVE  c * a <= c * b
OBVIOUS

LEMMA Cancel ==
    ASSUME NEW c \in Pos, NEW a \in Int, NEW b \in Int, c * a <= c * b
    PROVE  a <= b
BY DEF Pos

LEMMA Quotient ==
    ASSUME NEW n \in Nat, NEW d \in Pos
    PROVE  /\ n \div d \in Nat
           /\ n % d \in 0 .. (d - 1)
           /\ n = (n \div d) * d + (n % d)
<1> d \in Nat \ {0}  BY DEF Pos
<1>1. n \div d \in Nat  OBVIOUS
<1>2. n % d \in Int  OBVIOUS
<1>3. n % d < d  OBVIOUS
<1>4. 0 <= n % d  OBVIOUS
<1>5. n = d * (n \div d) + (n % d)  OBVIOUS
<1> DEFINE q == n \div d
           r == n % d
<1> HIDE DEF q, r
<1>6. q \in Nat /\ r \in 0 .. (d - 1) /\ n = q * d + r
  BY <1>1, <1>2, <1>3, <1>4, <1>5 DEF q, r
<1> QED  BY <1>6 DEF q, r

(* The integer nearest to n / d is at most a half away. *)
LEMMA NearestIsNear ==
    ASSUME NEW n \in Nat, NEW d \in Pos
    PROVE  /\ Nearest(n, d) \in Nat
           /\ 2 * (Nearest(n, d) * d) <= 2 * n + d
           /\ 2 * n <= 2 * (Nearest(n, d) * d) + d
<1> DEFINE q == n \div d
           r == n % d
           up == 2 * r > d \/ (2 * r = d /\ q % 2 = 1)
<1>1. q \in Nat /\ r \in 0 .. (d - 1) /\ n = q * d + r  BY Quotient
<1>2. Nearest(n, d) = IF up THEN q + 1 ELSE q  BY DEF Nearest
<1>3. d \in Nat  BY DEF Pos
<1> HIDE DEF q, r
<1>4. q * d \in Nat /\ (q + 1) * d = q * d + d  BY <1>1, <1>3
<1>5. CASE up
  <2>1. 2 * r >= d  BY <1>1, <1>3, <1>5
  <2>2. Nearest(n, d) = q + 1  BY <1>2, <1>5
  <2> QED  BY <2>1, <2>2, <1>1, <1>3, <1>4
<1>6. CASE ~ up
  <2>1. 2 * r <= d  BY <1>1, <1>3, <1>6
  <2>2. Nearest(n, d) = q  BY <1>2, <1>6
  <2> QED  BY <2>1, <2>2, <1>1, <1>3, <1>4
<1> QED  BY <1>5, <1>6

--------------------------------------------------------------------------------
(***************************************************************************)
(* A float x of n / d: it is off by one part in Limit, and by a half if it *)
(* is one that counts integers; its denominator is not much larger.        *)
(***************************************************************************)
Rounds(x, n, d) ==
    /\ x[1] \in Pos /\ x[2] \in Pos
    /\ Limit * (x[1] * d) <= (Limit + 1) * (n * x[2])
    /\ (Limit - 1) * (n * x[2]) <= Limit * (x[1] * d)
    /\ x[1] < Limit * x[2] => /\ 2 * (x[1] * d) <= 2 * (n * x[2]) + d
                              /\ 2 * (n * x[2]) <= 2 * (x[1] * d) + d
    /\ x[2] <= Limit * d

LEMMA LimitIs ==
    /\ Limit \in Nat /\ Limit >= 256
    /\ MaxExponent \in Nat /\ 2 ^ MaxExponent = (Limit * Limit) * (Limit * Limit)
    /\ \E h \in Nat : Limit = 2 * h
<1>1. Precision \in Nat /\ Precision - 8 \in Nat /\ Precision - 1 \in Nat /\ Precision \in Pos
  BY AmountsAssumption DEF AmountsAssumption, Pos
<1>2. Limit \in Pos  BY <1>1, PowerPositive DEF Limit
<1>3. Limit >= 256
  <2>1. Limit = 2 ^ (8 + (Precision - 8))
    <3>1. 8 + (Precision - 8) = Precision  BY <1>1
    <3> QED  BY <3>1 DEF Limit
  <2>2. 2 ^ (8 + (Precision - 8)) = 2 ^ 8 * 2 ^ (Precision - 8)  BY <1>1, PowerSum
  <2>3. 2 ^ 8 = 256  OBVIOUS
  <2>4. 2 ^ (Precision - 8) \in Pos  BY <1>1, PowerPositive
  <2> DEFINE w == 2 ^ (Precision - 8)
  <2> HIDE DEF w
  <2>5. Limit = 256 * w /\ w \in Pos  BY <2>1, <2>2, <2>3, <2>4 DEF w
  <2> QED  BY <2>5 DEF Pos
<1>4. 2 ^ MaxExponent = (Limit * Limit) * (Limit * Limit)
  <2>1. MaxExponent = (Precision + Precision) + (Precision + Precision)
    BY <1>1 DEF MaxExponent
  <2>2. 2 ^ (Precision + Precision) = Limit * Limit  BY <1>1, PowerSum DEF Limit
  <2>3. Precision + Precision \in Nat  BY <1>1
  <2> QED  BY <2>1, <2>2, <2>3, PowerSum
<1>5. Limit = 2 * 2 ^ (Precision - 1)  BY <1>1, PowerDoubles DEF Limit
<1>6. 2 ^ (Precision - 1) \in Nat  BY <1>1, PowerPositive DEF Pos
<1> QED  BY <1>1, <1>2, <1>3, <1>4, <1>5, <1>6 DEF Pos, MaxExponent

(* The exponents Float chooses are there. *)
LEMMA SmallExponent ==
    ASSUME NEW n \in Pos, NEW d \in Pos, Limit * d <= 2 * n * 2 ^ MaxExponent
    PROVE  \E e \in 0 .. MaxExponent :
               /\ 2 * n * 2 ^ e >= Limit * d
               /\ e = 0 \/ 2 * n * 2 ^ (e - 1) < Limit * d
<1> DEFINE T == {e \in 0 .. MaxExponent : 2 * n * 2 ^ e >= Limit * d}
<1>1. MaxExponent \in Nat /\ Limit \in Nat /\ n \in Nat /\ d \in Nat  BY LimitIs DEF Pos
<1>2. \A e \in Nat : 2 ^ e \in Nat  BY PowerPositive DEF Pos
<1>3. MaxExponent \in T  BY <1>1, <1>2
<1>4. PICK e \in T : \A k \in T : e <= k  
  <2>1. T \in SUBSET Nat /\ T # {}  BY <1>1, <1>3
  <2> HIDE DEF T
  <2> QED  BY <2>1, Least
<1>5. ASSUME e # 0  PROVE 2 * n * 2 ^ (e - 1) < Limit * d
  <2>1. e - 1 \in 0 .. MaxExponent /\ e - 1 \in Nat /\ ~ (e <= e - 1)  BY <1>1, <1>5
  <2>2. e - 1 \notin T
    <3> HIDE DEF T
    <3> QED  BY <1>4, <2>1
  <2>3. ~ (2 * n * 2 ^ (e - 1) >= Limit * d)  BY <2>1, <2>2
  <2>4. 2 * n * 2 ^ (e - 1) \in Nat /\ Limit * d \in Nat  BY <2>1, <1>1, <1>2
  <2> QED  BY <2>3, <2>4
<1> QED  BY <1>4, <1>5

LEMMA LargeExponent ==
    ASSUME NEW n \in Pos, NEW d \in Pos, n < Limit * d * 2 ^ MaxExponent, Limit * d <= n
    PROVE  \E e \in 1 .. MaxExponent :
               /\ n < Limit * d * 2 ^ e
               /\ 2 * n >= Limit * d * 2 ^ e
<1> DEFINE T == {e \in 1 .. MaxExponent : n < Limit * d * 2 ^ e}
<1>1. /\ MaxExponent \in Nat /\ MaxExponent >= 1
      /\ Limit \in Nat /\ n \in Nat /\ d \in Nat /\ Limit * d \in Nat
  BY LimitIs, AmountsAssumption DEF Pos, MaxExponent, AmountsAssumption
<1>2. \A e \in Nat : 2 ^ e \in Nat  BY PowerPositive DEF Pos
<1>3. MaxExponent \in T  BY <1>1
<1>4. PICK e \in T : \A k \in T : e <= k
  <2>1. T \in SUBSET Nat /\ T # {}  BY <1>1, <1>3
  <2> HIDE DEF T
  <2> QED  BY <2>1, Least
<1>5. e \in 1 .. MaxExponent /\ e \in Pos /\ e - 1 \in Nat /\ n < Limit * d * 2 ^ e
  BY <1>1, <1>4 DEF Pos
<1>6. 2 ^ e = 2 * 2 ^ (e - 1)  BY <1>5, PowerDoubles
<1>7. n >= Limit * d * 2 ^ (e - 1)
  <2>1. CASE e = 1
    <3>1. e - 1 = 0 /\ 2 ^ 0 = 1  BY <2>1
    <3>2. 2 ^ (e - 1) = 1  BY <3>1
    <3> QED  BY <3>2, <1>1
  <2>2. CASE e # 1
    <3>1. e - 1 \in 1 .. MaxExponent /\ ~ (e <= e - 1)  BY <1>1, <1>5, <2>2
    <3>2. e - 1 \notin T
      <4> HIDE DEF T
      <4> QED  BY <1>4, <3>1
    <3>3. ~ (n < Limit * d * 2 ^ (e - 1))  BY <3>1, <3>2
    <3>4. Limit * d * 2 ^ (e - 1) \in Nat  BY <1>5, <1>1, <1>2
    <3> QED  BY <3>3, <3>4, <1>1
  <2> QED  BY <2>1, <2>2
<1>8. Limit * d * 2 ^ e = 2 * (Limit * d * 2 ^ (e - 1))
  <2> DEFINE w == 2 ^ (e - 1)
             a == Limit * d
  <2>1. w \in Nat /\ a \in Nat  BY <1>1, <1>2, <1>5
  <2> HIDE DEF w, a
  <2>2. a * (2 * w) = 2 * (a * w)  BY <2>1
  <2> QED  BY <2>2, <1>6 DEF w, a
<1>9. Limit * d * 2 ^ (e - 1) \in Nat  BY <1>1, <1>2, <1>5
<1> QED  BY <1>1, <1>5, <1>7, <1>8, <1>9

(* Half a denominator is one part in Limit of a numerator that is large enough. *)
LEMMA Relative ==
    ASSUME NEW L \in Nat, NEW x \in Nat, NEW y \in Nat, NEW d \in Nat,
           2 * x <= 2 * y + d, 2 * y <= 2 * x + d, L * d <= 2 * y
    PROVE  L * x <= (L + 1) * y /\ (L - 1) * y <= L * x
<1>1. L * (2 * x) <= L * (2 * y + d) /\ L * (2 * y) <= L * (2 * x + d)  BY Scale
<1>2. L * (2 * y + d) = 2 * (L * y) + L * d  OBVIOUS
<1>3. L * (2 * x + d) = 2 * (L * x) + L * d  OBVIOUS
<1>4. L * (2 * x) = 2 * (L * x) /\ L * (2 * y) = 2 * (L * y)  OBVIOUS
<1>5. (L + 1) * y = L * y + y /\ (L - 1) * y = L * y - y  OBVIOUS
<1>6. L * x \in Nat /\ L * y \in Nat /\ L * d \in Nat  OBVIOUS
<1> DEFINE a == L * x
           b == L * y
           c == L * d
<1> HIDE DEF a, b, c
<1>7. /\ a \in Nat /\ b \in Nat /\ c \in Nat /\ c <= 2 * y
      /\ 2 * a <= 2 * b + c /\ 2 * b <= 2 * a + c
  BY <1>1, <1>2, <1>3, <1>4, <1>6 DEF a, b, c
<1>8. a <= b + y /\ b - y <= a  BY <1>7
<1> QED  BY <1>5, <1>8 DEF a, b

LEMMA SmallFloat ==
    ASSUME NEW n \in Pos, NEW d \in Pos, n < Limit * d,
           Limit * d <= 2 * n * 2 ^ MaxExponent
    PROVE  Rounds(Float(n, d), n, d)
<1> DEFINE e == CHOOSE e \in 0 .. MaxExponent :
                    /\ 2 * n * 2 ^ e >= Limit * d
                    /\ e = 0 \/ 2 * n * 2 ^ (e - 1) < Limit * d
           w == 2 ^ e
           q == Nearest(n * w, d)
<1>1. /\ e \in 0 .. MaxExponent
      /\ 2 * n * 2 ^ e >= Limit * d
      /\ e = 0 \/ 2 * n * 2 ^ (e - 1) < Limit * d
  BY SmallExponent
<1>2. Float(n, d) = <<q, w>>  BY DEF Float, Pos
<1>3. MaxExponent \in Nat /\ Limit \in Nat /\ Limit >= 256 /\ n \in Nat /\ d \in Nat
  BY LimitIs DEF Pos
<1> HIDE DEF e
<1>4. e \in Nat  BY <1>1, <1>3
<1>5. w \in Pos  BY <1>4, PowerPositive
<1>6. w <= Limit * d
  <2>1. CASE e = 0
    <3>1. w = 1  BY <2>1
    <3> HIDE DEF w
    <3>2. Limit * d >= 1  BY <1>3, TimesPos DEF Pos
    <3> QED  BY <3>1, <3>2
  <2>2. CASE e # 0
    <3> DEFINE h == 2 ^ (e - 1)
    <3>1. e \in Pos /\ e - 1 \in Nat  BY <1>4, <2>2 DEF Pos
    <3>2. w = 2 * h /\ h \in Nat  BY <3>1, PowerDoubles, PowerPositive DEF Pos
    <3>3. 2 * n * h < Limit * d  BY <1>1, <2>2
    <3> HIDE DEF h, w
    <3>4. 2 * n * h = n * w  BY <3>2, <1>3
    <3>5. w <= n * w
      <4>1. n >= 1 /\ w \in Nat  BY <1>5 DEF Pos
      <4>2. w * 1 <= w * n  BY <4>1, <1>3, Scale
      <4> QED  BY <4>1, <4>2, <1>3
    <3>6. w \in Nat /\ n * w \in Nat /\ Limit * d \in Nat  BY <1>3, <1>5 DEF Pos
    <3> QED  BY <3>3, <3>4, <3>5, <3>6
  <2> QED  BY <2>1, <2>2
<1>7. w \in Nat /\ n * w \in Nat  BY <1>3, <1>5 DEF Pos
<1>8. /\ q \in Nat
      /\ 2 * (q * d) <= 2 * (n * w) + d
      /\ 2 * (n * w) <= 2 * (q * d) + d
  BY <1>7, NearestIsNear
<1>9. Limit * d <= 2 * (n * w)
  <2>1. 2 * n * w >= Limit * d  BY <1>1
  <2> HIDE DEF w
  <2>2. 2 * n * w = 2 * (n * w)  BY <1>3, <1>7
  <2>3. n * w \in Nat /\ Limit * d \in Nat  BY <1>3, <1>7
  <2> QED  BY <2>1, <2>2, <2>3
<1> HIDE DEF q, w
<1>10. q * d \in Nat  BY <1>3, <1>8
<1>11. /\ Limit * (q * d) <= (Limit + 1) * (n * w)
       /\ (Limit - 1) * (n * w) <= Limit * (q * d)
  BY <1>3, <1>7, <1>8, <1>9, <1>10, Relative
<1>12. q # 0
  <2>1. n * w \in Pos  BY <1>5, TimesPos
  <2>2. Limit - 1 \in Pos  BY <1>3 DEF Pos
  <2>3. (Limit - 1) * (n * w) \in Pos  BY <2>1, <2>2, TimesPos
  <2>4. ASSUME q = 0  PROVE FALSE
    <3>1. Limit * (q * d) = 0  BY <1>3, <2>4
    <3> QED  BY <3>1, <2>3, <1>11 DEF Pos
  <2> QED  BY <2>4
<1>13. q \in Pos  BY <1>8, <1>12 DEF Pos
<1> QED  BY <1>2, <1>5, <1>6, <1>8, <1>11, <1>13 DEF Rounds

LEMMA LargeFloat ==
    ASSUME NEW n \in Pos, NEW d \in Pos, Limit * d <= n,
           n < Limit * d * 2 ^ MaxExponent
    PROVE  Rounds(Float(n, d), n, d)
<1> DEFINE e == CHOOSE e \in 1 .. MaxExponent :
                    /\ n < Limit * d * 2 ^ e
                    /\ 2 * n >= Limit * d * 2 ^ e
           w == 2 ^ e
           q == Nearest(n, d * w)
<1>1. /\ e \in 1 .. MaxExponent
      /\ n < Limit * d * 2 ^ e
      /\ 2 * n >= Limit * d * 2 ^ e
  BY LargeExponent
<1>2. Limit \in Nat /\ Limit >= 256 /\ n \in Nat /\ d \in Nat /\ MaxExponent \in Nat
  BY LimitIs DEF Pos
<1>3. ~ (n < Limit * d) /\ n # 0  BY <1>2, TimesNat DEF Pos
<1>4. Float(n, d) = <<q * w, 1>>  BY <1>3 DEF Float
<1> HIDE DEF e
<1>5. e \in Pos /\ e \in Nat /\ e - 1 \in Nat  BY <1>1, <1>2 DEF Pos
<1>6. w \in Pos /\ w \in Nat /\ w >= 2
  <2>1. w = 2 * 2 ^ (e - 1) /\ 2 ^ (e - 1) \in Pos  BY <1>5, PowerDoubles, PowerPositive
  <2> DEFINE h == 2 ^ (e - 1)
  <2> HIDE DEF h, w
  <2>2. w = 2 * h /\ h \in Pos  BY <2>1 DEF h
  <2> QED  BY <2>2 DEF Pos
<1> DEFINE m == d * w
<1>7. m \in Pos  BY <1>6, TimesPos
<1>8. /\ q \in Nat
      /\ 2 * (q * m) <= 2 * n + m
      /\ 2 * n <= 2 * (q * m) + m
  BY <1>2, <1>7, NearestIsNear
<1>9. Limit * m <= 2 * n
  <2>1. Limit * d * w <= 2 * n
    <3>1. 2 * n >= Limit * d * w  BY <1>1
    <3> HIDE DEF w
    <3>2. Limit * d * w \in Nat  BY <1>2, <1>6
    <3> QED  BY <3>1, <3>2, <1>2
  <2> HIDE DEF w
  <2>2. Limit * d * w = Limit * (d * w)  BY <1>2, <1>6
  <2> QED  BY <2>1, <2>2
<1>10. (q * w) * d = q * m
  <2> HIDE DEF q, w
  <2> QED  BY <1>2, <1>6, <1>8
<1> HIDE DEF q, w, m
<1>11. m \in Nat /\ q * m \in Nat  BY <1>7, <1>8 DEF Pos
<1>12. Limit * (q * m) <= (Limit + 1) * n /\ (Limit - 1) * n <= Limit * (q * m)
  BY <1>2, <1>8, <1>9, <1>11, Relative
<1>13. q * w >= Limit
  <2>1. PICK h \in Nat : Limit = 2 * h  BY LimitIs
  <2>2. m * Limit <= m * (2 * q + 1)
    <3>1. m * Limit = Limit * m /\ m * (2 * q + 1) = 2 * (q * m) + m  BY <1>2, <1>8, <1>11
    <3>2. Limit * m \in Nat  BY <1>2, <1>11
    <3> QED  BY <3>1, <3>2, <1>2, <1>8, <1>9, <1>11
  <2>3. Limit <= 2 * q + 1  BY <2>2, <1>2, <1>7, <1>8, Cancel
  <2>4. h <= q  BY <2>1, <2>3, <1>8
  <2>5. q * 2 <= q * w  BY <1>6, <1>8, Scale
  <2>6. q * w \in Nat  BY <1>6, <1>8
  <2> QED  BY <2>1, <2>4, <2>5, <2>6, <1>8
<1>14. q * w \in Pos  BY <1>13, <1>2, <1>6, <1>8 DEF Pos
<1>15. n * 1 = n /\ Limit * 1 = Limit /\ 1 \in Pos  BY <1>2 DEF Pos
<1>16. 1 <= Limit * d
  <2>1. Limit \in Pos  BY <1>2 DEF Pos
  <2> QED  BY <2>1, TimesPos DEF Pos
<1>17. ~ (q * w < Limit)  BY <1>2, <1>13, <1>14 DEF Pos
<1> DEFINE x == <<q * w, 1>>
<1>18. x[1] = q * w /\ x[2] = 1  OBVIOUS
<1> HIDE DEF x
<1>19. Rounds(x, n, d)
  BY <1>10, <1>12, <1>14, <1>15, <1>16, <1>17, <1>18 DEF Rounds
<1> QED  BY <1>4, <1>19 DEF x

(* Every float of a number in the range of exponents is as accurate. *)
LEMMA FloatRounds ==
    ASSUME NEW n \in Pos, NEW d \in Pos,
           Limit * d <= 2 * n * 2 ^ MaxExponent, n < Limit * d * 2 ^ MaxExponent
    PROVE  Rounds(Float(n, d), n, d)
<1>1. Limit * d \in Nat /\ n \in Nat  BY LimitIs DEF Pos
<1> QED  BY <1>1, SmallFloat, LargeFloat

--------------------------------------------------------------------------------
LEMMA RoundsTypes ==
    ASSUME NEW x, NEW n, NEW d, Rounds(x, n, d)
    PROVE  /\ x[1] \in Nat /\ x[2] \in Nat /\ x[1] >= 1 /\ x[2] >= 1
           /\ Limit \in Nat /\ Limit >= 256
BY LimitIs DEF Rounds, Pos

(* A float is never twice what it stands for. *)
LEMMA NotTwice ==
    ASSUME NEW x, NEW n \in Pos, NEW d \in Pos, Rounds(x, n, d)
    PROVE  x[1] * d <= 2 * (n * x[2])
<1> DEFINE a == x[1] * d
           b == n * x[2]
<1>1. n \in Nat /\ d \in Nat /\ Limit \in Nat /\ Limit \in Pos /\ Limit >= 1
  BY RoundsTypes DEF Pos
<1>2. a \in Nat /\ b \in Nat  BY <1>1, RoundsTypes
<1>3. Limit * a <= (Limit + 1) * b  BY DEF Rounds
<1> HIDE DEF a, b
<1>4. (Limit + 1) * b = Limit * b + b /\ Limit * (2 * b) = Limit * b + Limit * b
  BY <1>1, <1>2
<1>5. 1 * b <= Limit * b
  <2>1. b * 1 <= b * Limit  BY <1>1, <1>2, Scale
  <2> QED  BY <2>1, <1>1, <1>2
<1>6. Limit * b \in Nat /\ Limit * a \in Nat  BY <1>1, <1>2
<1>7. Limit * a <= Limit * (2 * b)  BY <1>2, <1>3, <1>4, <1>5, <1>6
<1>8. a <= 2 * b  BY <1>1, <1>2, <1>7, Cancel
<1> QED  BY <1>8 DEF a, b

(* A float of k times a float is off by two parts in Limit and a little. *)
LEMMA RoundsTwice ==
    ASSUME NEW x, NEW y, NEW n \in Pos, NEW d \in Pos, NEW k \in Pos,
           Rounds(x, n, d), Rounds(y, k * x[1], x[2])
    PROVE  /\ (Limit * Limit) * (y[1] * d)
                  <= ((Limit + 1) * (Limit + 1)) * ((k * n) * y[2])
           /\ ((Limit - 1) * (Limit - 1)) * ((k * n) * y[2])
                  <= (Limit * Limit) * (y[1] * d)
<1> DEFINE x1 == x[1]
           x2 == x[2]
           y1 == y[1]
           y2 == y[2]
           L == Limit
           M == Limit - 1
           U == Limit + 1
<1>1. /\ n \in Nat /\ d \in Nat /\ k \in Nat /\ x1 \in Nat /\ x2 \in Nat
      /\ y1 \in Nat /\ y2 \in Nat /\ L \in Nat /\ M \in Nat /\ U \in Nat
  BY RoundsTypes DEF Pos
<1>2. x2 \in Pos  BY DEF Rounds
<1>3. L * (x1 * d) <= U * (n * x2) /\ M * (n * x2) <= L * (x1 * d)
  BY DEF Rounds
<1>4. L * (y1 * x2) <= U * ((k * x1) * y2) /\ M * ((k * x1) * y2) <= L * (y1 * x2)
  BY DEF Rounds
<1> HIDE DEF x1, x2, y1, y2, L, M, U
<1>5. (L * L) * (y1 * d) <= (U * U) * ((k * n) * y2)
  <2>1. (L * d) * (L * (y1 * x2)) <= (L * d) * (U * ((k * x1) * y2))
    BY <1>1, <1>4, TimesNat, Scale
  <2>2. (U * (k * y2)) * (L * (x1 * d)) <= (U * (k * y2)) * (U * (n * x2))
    BY <1>1, <1>3, TimesNat, Scale
  <2>3. (L * d) * (L * (y1 * x2)) = x2 * ((L * L) * (y1 * d))  BY <1>1
  <2>4. (L * d) * (U * ((k * x1) * y2)) = (U * (k * y2)) * (L * (x1 * d))  BY <1>1
  <2>5. (U * (k * y2)) * (U * (n * x2)) = x2 * ((U * U) * ((k * n) * y2))  BY <1>1
  <2> DEFINE v == (L * L) * (y1 * d)
             w == (U * U) * ((k * n) * y2)
             z == (U * (k * y2)) * (L * (x1 * d))
  <2>6. v \in Nat /\ w \in Nat /\ z \in Nat  BY <1>1, TimesNat
  <2>7. x2 * v <= z /\ z <= x2 * w  BY <2>1, <2>2, <2>3, <2>4, <2>5
  <2> HIDE DEF v, w, z
  <2>8. x2 * v <= x2 * w  BY <2>6, <2>7, <1>1
  <2>9. v <= w  BY <2>6, <2>8, <1>2, Cancel
  <2> QED  BY <2>9 DEF v, w
<1>6. (M * M) * ((k * n) * y2) <= (L * L) * (y1 * d)
  <2>1. (L * d) * (M * ((k * x1) * y2)) <= (L * d) * (L * (y1 * x2))
    BY <1>1, <1>4, TimesNat, Scale
  <2>2. (M * (k * y2)) * (M * (n * x2)) <= (M * (k * y2)) * (L * (x1 * d))
    BY <1>1, <1>3, TimesNat, Scale
  <2>3. (L * d) * (L * (y1 * x2)) = x2 * ((L * L) * (y1 * d))  BY <1>1
  <2>4. (L * d) * (M * ((k * x1) * y2)) = (M * (k * y2)) * (L * (x1 * d))  BY <1>1
  <2>5. (M * (k * y2)) * (M * (n * x2)) = x2 * ((M * M) * ((k * n) * y2))  BY <1>1
  <2> DEFINE v == (L * L) * (y1 * d)
             w == (M * M) * ((k * n) * y2)
             z == (M * (k * y2)) * (L * (x1 * d))
  <2>6. v \in Nat /\ w \in Nat /\ z \in Nat  BY <1>1, TimesNat
  <2>7. x2 * w <= z /\ z <= x2 * v  BY <2>1, <2>2, <2>3, <2>4, <2>5
  <2> HIDE DEF v, w, z
  <2>8. x2 * w <= x2 * v  BY <2>6, <2>7, <1>1
  <2>9. w <= v  BY <2>6, <2>8, <1>2, Cancel
  <2> QED  BY <2>9 DEF v, w
<1> QED  BY <1>5, <1>6 DEF L, M, U, x1, x2, y1, y2

(* new BN of a float: the number of whole units. *)
LEMMA BNIs ==
    ASSUME NEW x, NEW n, NEW d, Rounds(x, n, d)
    PROVE  \/ x[1] >= Limit * x[2] /\ BN(x) = Refused
           \/ /\ x[1] < Limit * x[2]
              /\ BN(x) \in Nat
              /\ BN(x) * x[2] <= x[1] /\ x[1] < (BN(x) + 1) * x[2]
<1> DEFINE a == x[1]
           b == x[2]
           q == a \div b
<1>1. a \in Nat /\ b \in Nat /\ b \in Pos /\ Limit * b \in Nat
  <2>1. a \in Nat /\ b \in Nat /\ b >= 1 /\ Limit \in Nat  BY RoundsTypes
  <2> HIDE DEF a, b
  <2> QED  BY <2>1 DEF Pos
<1>2. BN(x) = IF a >= Limit * b THEN Refused ELSE q  BY DEF BN
<1>3. q \in Nat /\ a % b \in 0 .. (b - 1) /\ a = q * b + (a % b)  BY <1>1, Quotient
<1> DEFINE r == a % b
<1> HIDE DEF a, b, q, r
<1>4. q \in Nat /\ r \in 0 .. (b - 1) /\ a = q * b + r  BY <1>3 DEF r
<1>5. q * b <= a /\ a < (q + 1) * b
  <2>1. q * b \in Nat /\ (q + 1) * b = q * b + b  BY <1>1, <1>4
  <2> QED  BY <2>1, <1>1, <1>4
<1>6. a < Limit * b \/ a >= Limit * b  BY <1>1
<1>7. a < Limit * b => ~ (a >= Limit * b)  BY <1>1
<1>8. CASE a >= Limit * b  BY <1>2, <1>8 DEF a, b
<1>9. CASE a < Limit * b
  <2>1. BN(x) = q  BY <1>2, <1>7, <1>9
  <2> QED  BY <2>1, <1>4, <1>5, <1>9 DEF a, b
<1> QED  BY <1>6, <1>8, <1>9

--------------------------------------------------------------------------------
(* Squares of Limit and its neighbours. *)
LEMMA Squares ==
    /\ Limit * Limit \in Nat /\ Limit * Limit >= 256 * Limit
    /\ (Limit + 1) * (Limit + 1) = Limit * Limit + (2 * Limit + 1)
    /\ (Limit - 1) * (Limit - 1) = Limit * Limit - (2 * Limit - 1)
<1>1. Limit \in Nat /\ Limit >= 256  BY LimitIs
<1>2. Limit * 256 <= Limit * Limit  BY <1>1, Scale
<1>3. Limit * Limit \in Nat  BY <1>1
<1>4. (Limit + 1) * (Limit + 1) = Limit * Limit + (2 * Limit + 1)  BY <1>1
<1>5. (Limit - 1) * (Limit - 1) = Limit * Limit - (2 * Limit - 1)  BY <1>1
<1> QED  BY <1>1, <1>2, <1>3, <1>4, <1>5

(* The percentage that a float so near a whole one is cut off to. *)
LEMMA CutStake ==
    ASSUME NEW s \in 1 .. 100, NEW a \in Nat, NEW b \in Pos,
           (Limit * Limit) * (a * 100) <= ((Limit + 1) * (Limit + 1)) * ((100 * s) * b),
           ((Limit - 1) * (Limit - 1)) * ((100 * s) * b) <= (Limit * Limit) * (a * 100)
    PROVE  /\ a < Limit * b
           /\ \A q \in Nat : (q * b <= a /\ a <= (q + 1) * b) => q \in {s - 1, s}
<1> DEFINE L == Limit
           K == Limit * Limit
           H == (Limit + 1) * (Limit + 1)
           G == (Limit - 1) * (Limit - 1)
<1>1. /\ L \in Nat /\ L >= 256 /\ K \in Nat /\ K \in Pos /\ K >= 256 * L
      /\ H = K + (2 * L + 1) /\ G = K - (2 * L - 1)
  BY LimitIs, Squares DEF Pos
<1>2. K * (a * 100) <= H * ((100 * s) * b) /\ G * ((100 * s) * b) <= K * (a * 100)
  OBVIOUS
<1>3. b \in Nat  BY DEF Pos
<1> HIDE DEF L, K, H, G
<1>4. H \in Nat /\ G \in Nat /\ s \in Nat  BY <1>1
<1>5. K * a <= (H * s) * b
  <2>1. K * (a * 100) = 100 * (K * a) /\ H * ((100 * s) * b) = 100 * ((H * s) * b)
    BY <1>1, <1>3, <1>4
  <2>2. K * a \in Nat /\ (H * s) * b \in Nat  BY <1>1, <1>3, <1>4, TimesNat
  <2> QED  BY <2>1, <2>2, <1>2
<1>6. (G * s) * b <= K * a
  <2>1. K * (a * 100) = 100 * (K * a) /\ G * ((100 * s) * b) = 100 * ((G * s) * b)
    BY <1>1, <1>3, <1>4
  <2>2. K * a \in Nat /\ (G * s) * b \in Nat  BY <1>1, <1>3, <1>4, TimesNat
  <2> QED  BY <2>1, <2>2, <1>2
<1>7. (2 * L + 1) * s < K /\ (2 * L + 1) * s \in Nat /\ (2 * L - 1) * s \in Nat
      /\ (2 * L - 1) * s < K
  <2>1. (2 * L + 1) * s <= (2 * L + 1) * 100  BY <1>1, <1>4, Scale
  <2>2. (2 * L - 1) * s <= (2 * L - 1) * 100  BY <1>1, <1>4, Scale
  <2>3. (2 * L + 1) * s \in Nat /\ (2 * L - 1) * s \in Nat  BY <1>1, <1>4
  <2> QED  BY <2>1, <2>2, <2>3, <1>1
<1>8. H * s = K * s + (2 * L + 1) * s /\ G * s = K * s - (2 * L - 1) * s
      /\ K * s \in Nat
  BY <1>1, <1>4
<1>9. a < L * b
  <2> SUFFICES ASSUME L * b <= a  PROVE FALSE  BY <1>1, <1>3
  <2>1. K * (L * b) <= K * a  BY <1>1, <1>3, TimesNat, Scale
  <2>2. b * (K * L) <= b * (H * s)
    <3>1. K * (L * b) = b * (K * L) /\ (H * s) * b = b * (H * s)  BY <1>1, <1>3, <1>4
    <3>2. K * (L * b) \in Nat /\ (H * s) * b \in Nat /\ K * a \in Nat
      BY <1>1, <1>3, <1>4, TimesNat
    <3> QED  BY <3>1, <3>2, <2>1, <1>5
  <2>3. K * L <= H * s  BY <2>2, <1>1, <1>4, TimesNat, Cancel
  <2>4. K * s <= K * 100  BY <1>1, <1>4, Scale
  <2>5. K * 256 <= K * L  BY <1>1, Scale
  <2>6. K * L \in Nat  BY <1>1
  <2> QED  BY <2>3, <2>4, <2>5, <2>6, <1>1, <1>7, <1>8 DEF Pos
<1>10. ASSUME NEW q \in Nat, q * b <= a, a <= (q + 1) * b  PROVE q \in {s - 1, s}
  <2>1. K * q < K * (s + 1)
    <3>1. K * (q * b) <= K * a  BY <1>1, <1>3, <1>10, TimesNat, Scale
    <3>2. b * (K * q) <= b * (H * s)
      <4>1. K * (q * b) = b * (K * q) /\ (H * s) * b = b * (H * s)  BY <1>1, <1>3, <1>4
      <4>2. K * (q * b) \in Nat /\ (H * s) * b \in Nat /\ K * a \in Nat
        BY <1>1, <1>3, <1>4, TimesNat
      <4> QED  BY <4>1, <4>2, <3>1, <1>5
    <3>3. K * q \in Nat /\ H * s \in Nat /\ K * (s + 1) = K * s + K  BY <1>1, <1>4
    <3>4. K * q <= H * s  BY <3>2, <3>3, Cancel
    <3> QED  BY <3>3, <3>4, <1>1, <1>7, <1>8
  <2>2. K * (s - 1) < K * (q + 1)
    <3>1. K * a <= K * ((q + 1) * b)  BY <1>1, <1>3, <1>10, TimesNat, Scale
    <3>2. b * (G * s) <= b * (K * (q + 1))
      <4>1. K * ((q + 1) * b) = b * (K * (q + 1)) /\ (G * s) * b = b * (G * s)
        BY <1>1, <1>3, <1>4
      <4>2. K * ((q + 1) * b) \in Nat /\ (G * s) * b \in Nat /\ K * a \in Nat
        BY <1>1, <1>3, <1>4, TimesNat
      <4> QED  BY <4>1, <4>2, <3>1, <1>6
    <3>3. G * s \in Nat /\ K * (q + 1) \in Nat /\ K * (s - 1) = K * s - K  BY <1>1, <1>4
    <3>4. G * s <= K * (q + 1)  BY <3>2, <3>3, Cancel
    <3> QED  BY <3>3, <3>4, <1>1, <1>7, <1>8
  <2>3. ~ (s + 1 <= q)
    <3>1. ASSUME s + 1 <= q  PROVE FALSE
      <4>1. K * (s + 1) <= K * q  BY <3>1, <1>1, <1>4, Scale
      <4>2. K * (s + 1) \in Nat /\ K * q \in Nat  BY <1>1, <1>4
      <4> QED  BY <4>1, <4>2, <2>1
    <3> QED  BY <3>1
  <2>4. ~ (q + 1 <= s - 1)
    <3>1. ASSUME q + 1 <= s - 1  PROVE FALSE
      <4>1. K * (q + 1) <= K * (s - 1)  BY <3>1, <1>1, <1>4, Scale
      <4>2. K * (q + 1) \in Int /\ K * (s - 1) \in Int  BY <1>1, <1>4
      <4> QED  BY <4>1, <4>2, <2>2
    <3> QED  BY <3>1
  <2> QED  BY <2>3, <2>4, <1>4
<1> QED  BY <1>9, <1>10 DEF L

(* The arithmetic of three roundings, the last one within a half, and the cut. *)
LEMMA CutAmount ==
    ASSUME NEW X \in Pos, NEW T \in Pos, NEW S \in Pos, NEW A \in Nat,
           NEW b1 \in Pos, NEW b2 \in Pos, NEW c1 \in Pos, NEW c2 \in Pos,
           (Limit * Limit) * (b1 * S) <= ((Limit + 1) * (Limit + 1)) * (X * b2),
           ((Limit - 1) * (Limit - 1)) * (X * b2) <= (Limit * Limit) * (b1 * S),
           2 * (c1 * b2) <= 2 * ((b1 * T) * c2) + b2,
           2 * ((b1 * T) * c2) <= 2 * (c1 * b2) + b2,
           c1 < Limit * c2, A * c2 <= c1, c1 <= (A + 1) * c2
    PROVE  A * S - X * T \in (- 4 * S) .. (3 * S)
<1> DEFINE L == Limit
           K == Limit * Limit
           H == (Limit + 1) * (Limit + 1)
           G == (Limit - 1) * (Limit - 1)
           E == X * T
           V == K * S
<1>1. /\ L \in Nat /\ L >= 256 /\ K \in Nat /\ K \in Pos /\ K >= 256 * L
      /\ H = K + (2 * L + 1) /\ G = K - (2 * L - 1)
  BY LimitIs, Squares DEF Pos
<1>2. /\ X \in Nat /\ T \in Nat /\ S \in Nat /\ b1 \in Nat /\ b2 \in Nat
      /\ c1 \in Nat /\ c2 \in Nat /\ S >= 1
  BY DEF Pos
<1>3. K * (b1 * S) <= H * (X * b2) /\ G * (X * b2) <= K * (b1 * S) /\ c1 < L * c2
  OBVIOUS
<1> HIDE DEF L, K, H, G
<1>4. E \in Nat /\ V \in Nat /\ V \in Pos /\ H \in Nat /\ G \in Nat /\ G \in Pos
  <2>1. V \in Pos  BY <1>1, TimesPos
  <2>2. E \in Nat  BY <1>2
  <2> QED  BY <2>1, <2>2, <1>1 DEF Pos
<1>5. A < L
  <2>1. ASSUME L <= A  PROVE FALSE
    <3>1. c2 * L <= c2 * A  BY <2>1, <1>1, <1>2, Scale
    <3>2. c2 * L \in Nat /\ c2 * A \in Nat /\ c2 * L = L * c2 /\ c2 * A = A * c2
      BY <1>1, <1>2
    <3> QED  BY <3>1, <3>2, <1>2, <1>3
  <2> QED  BY <2>1, <1>1
(* The first two roundings, times what the third multiplies by. *)
<1> DEFINE p == (b1 * T) * c2
<1>6. p \in Nat  BY <1>2, TimesNat
<1>7. V * p <= b2 * (H * (E * c2)) /\ b2 * (G * (E * c2)) <= V * p
  <2>1. (T * c2) * (K * (b1 * S)) <= (T * c2) * (H * (X * b2))
    BY <1>1, <1>2, <1>3, <1>4, TimesNat, Scale
  <2>2. (T * c2) * (G * (X * b2)) <= (T * c2) * (K * (b1 * S))
    BY <1>1, <1>2, <1>3, <1>4, TimesNat, Scale
  <2>3. (T * c2) * (K * (b1 * S)) = V * p  BY <1>1, <1>2
  <2>4. (T * c2) * (H * (X * b2)) = b2 * (H * (E * c2))  BY <1>2, <1>4
  <2>5. (T * c2) * (G * (X * b2)) = b2 * (G * (E * c2))  BY <1>2, <1>4
  <2> QED  BY <2>1, <2>2, <2>3, <2>4, <2>5
<1>8. 2 * (c1 * b2) <= 2 * p + b2 /\ 2 * p <= 2 * (c1 * b2) + b2  OBVIOUS
<1> HIDE DEF p, E, V
(* The third one, with the denominator of the second cancelled. *)
<1>9. 2 * (V * c1) <= 2 * (H * (E * c2)) + V
  <2>1. V * (2 * (c1 * b2)) <= V * (2 * p + b2)  BY <1>2, <1>4, <1>6, <1>8, TimesNat, Scale
  <2>2. /\ V * (2 * (c1 * b2)) = b2 * (2 * (V * c1))
        /\ V * (2 * p + b2) = 2 * (V * p) + b2 * V
        /\ b2 * (2 * (H * (E * c2)) + V) = 2 * (b2 * (H * (E * c2))) + b2 * V
    BY <1>2, <1>4, <1>6
  <2>3. /\ V * p \in Nat /\ b2 * (H * (E * c2)) \in Nat /\ b2 * V \in Nat
        /\ V * c1 \in Nat /\ H * (E * c2) \in Nat
    BY <1>2, <1>4, <1>6, TimesNat
  <2>4. b2 * (2 * (V * c1)) <= b2 * (2 * (H * (E * c2)) + V)
    <3> DEFINE u == b2 * (2 * (V * c1))
               v == V * p
               w == b2 * (H * (E * c2))
               z == b2 * V
    <3>1. u \in Int  BY <1>2, <2>3
    <3>2. v \in Int /\ w \in Int /\ z \in Int  BY <2>3
    <3>3. u <= 2 * v + z  BY <2>1, <2>2
    <3>4. v <= w  BY <1>7
    <3> HIDE DEF u, v, w, z
    <3>5. u <= 2 * w + z  BY <3>1, <3>2, <3>3, <3>4
    <3> QED  BY <3>5, <2>2 DEF u, w, z
  <2>5. 2 * (V * c1) \in Int /\ 2 * (H * (E * c2)) + V \in Int  BY <2>3, <1>4
  <2> QED  BY <2>4, <2>5, Cancel
<1>10. 2 * (G * (E * c2)) <= 2 * (V * c1) + V
  <2>1. V * (2 * p) <= V * (2 * (c1 * b2) + b2)  BY <1>2, <1>4, <1>6, <1>8, TimesNat, Scale
  <2>2. /\ V * (2 * (c1 * b2) + b2) = b2 * (2 * (V * c1) + V)
        /\ V * (2 * p) = 2 * (V * p)
        /\ b2 * (2 * (G * (E * c2))) = 2 * (b2 * (G * (E * c2)))
    BY <1>2, <1>4, <1>6
  <2>3. /\ V * p \in Nat /\ b2 * (G * (E * c2)) \in Nat
        /\ V * c1 \in Nat /\ G * (E * c2) \in Nat
    BY <1>2, <1>4, <1>6, TimesNat
  <2>4. b2 * (2 * (G * (E * c2))) <= b2 * (2 * (V * c1) + V)
    <3> DEFINE u == b2 * (2 * (V * c1) + V)
               v == V * p
               w == b2 * (G * (E * c2))
    <3>1. u \in Int  BY <1>2, <1>4, <2>3
    <3>2. v \in Int /\ w \in Int  BY <2>3
    <3>3. 2 * v <= u  BY <2>1, <2>2
    <3>4. w <= v  BY <1>7
    <3> HIDE DEF u, v, w
    <3>5. 2 * w <= u  BY <3>1, <3>2, <3>3, <3>4
    <3> QED  BY <3>5, <2>2 DEF u, w
  <2>5. 2 * (V * c1) + V \in Int /\ 2 * (G * (E * c2)) \in Int  BY <2>3, <1>4
  <2> QED  BY <2>4, <2>5, Cancel
(* The cut, with the denominator of the third cancelled. *)
<1>11. c2 * V >= V
  <2>1. V * 1 <= V * c2  BY <1>2, <1>4, Scale DEF Pos
  <2> QED  BY <2>1, <1>2, <1>4
<1>12. 2 * (V * A) <= 2 * (H * E) + V
  <2>1. V * (A * c2) <= V * c1  BY <1>2, <1>4, TimesNat, Scale
  <2>2. /\ V * (A * c2) = c2 * (V * A) /\ H * (E * c2) = c2 * (H * E)
        /\ c2 * (2 * (V * A)) = 2 * (c2 * (V * A))
        /\ c2 * (2 * (H * E) + V) = 2 * (c2 * (H * E)) + c2 * V
    BY <1>2, <1>4
  <2>3. /\ c2 * (V * A) \in Nat /\ c2 * (H * E) \in Nat /\ c2 * V \in Nat
        /\ V * c1 \in Nat /\ V * A \in Nat /\ H * E \in Nat
    BY <1>2, <1>4, TimesNat
  <2>4. c2 * (2 * (V * A)) <= c2 * (2 * (H * E) + V)
    BY <2>1, <2>2, <2>3, <1>4, <1>9, <1>11
  <2>5. 2 * (V * A) \in Int /\ 2 * (H * E) + V \in Int  BY <2>3, <1>4
  <2> QED  BY <2>4, <2>5, Cancel
<1>13. 2 * (G * E) <= 2 * (V * A) + 3 * V
  <2>1. V * c1 <= V * ((A + 1) * c2)  BY <1>2, <1>4, TimesNat, Scale
  <2>2. /\ V * ((A + 1) * c2) = c2 * (V * A) + c2 * V /\ G * (E * c2) = c2 * (G * E)
        /\ c2 * (2 * (G * E)) = 2 * (c2 * (G * E))
        /\ c2 * (2 * (V * A) + 3 * V) = 2 * (c2 * (V * A)) + 3 * (c2 * V)
    BY <1>2, <1>4
  <2>3. /\ c2 * (V * A) \in Nat /\ c2 * (G * E) \in Nat /\ c2 * V \in Nat
        /\ V * c1 \in Nat /\ V * A \in Nat /\ G * E \in Nat
    BY <1>2, <1>4, TimesNat
  <2>4. c2 * (2 * (G * E)) <= c2 * (2 * (V * A) + 3 * V)
    BY <2>1, <2>2, <2>3, <1>4, <1>10, <1>11
  <2>5. 2 * (G * E) \in Int /\ 2 * (V * A) + 3 * V \in Int  BY <2>3, <1>4
  <2> QED  BY <2>4, <2>5, Cancel
(* What is paid is below Limit, so what is due cannot be much more. *)
<1> DEFINE O == 2 * L + 1
<1>14. 2 * (O * E) <= 5 * V
  <2>1. 2 * (G * E) <= O * V
    <3>1. V * A <= V * (L - 1)  BY <1>1, <1>4, <1>5, Scale
    <3>2. V * (L - 1) = V * L - V /\ O * V = 2 * (V * L) + V  BY <1>1, <1>4
    <3>3. V * A \in Nat /\ V * L \in Nat /\ G * E \in Nat  BY <1>1, <1>4
    <3> QED  BY <3>1, <3>2, <3>3, <1>4, <1>13
  <2>2. O \in Nat  BY <1>1
  <2>3. O * (2 * (G * E)) <= O * (O * V)  BY <2>1, <2>2, <1>4, TimesNat, Scale
  <2>4. O * O <= 5 * G
    <3>1. O * O = 4 * (L * L) + 4 * L + 1  BY <1>1
    <3>2. K = L * L  BY DEF K, L
    <3> QED  BY <3>1, <3>2, <1>1
  <2> HIDE DEF O
  <2>5. V * (O * O) <= V * (5 * G)  BY <2>2, <2>4, <1>4, TimesNat, Scale
  <2>6. G * (2 * (O * E)) <= G * (5 * V)
    <3>1. G * (2 * (O * E)) = O * (2 * (G * E))  BY <2>2, <1>4
    <3>2. V * (O * O) = O * (O * V) /\ V * (5 * G) = G * (5 * V)  BY <2>2, <1>4
    <3>3. O * (2 * (G * E)) \in Nat /\ O * (O * V) \in Nat /\ G * (5 * V) \in Nat
      BY <2>2, <1>4, TimesNat
    <3> QED  BY <3>1, <3>2, <3>3, <2>3, <2>5
  <2>7. 2 * (O * E) \in Int /\ 5 * V \in Int  BY <2>2, <1>4
  <2> QED  BY <2>6, <2>7, <1>4, Cancel
<1>15. /\ H * E = K * E + O * E /\ G * E = K * E - (O * E - 2 * E)
       /\ O * E \in Nat /\ K * E \in Nat /\ O \in Nat
  BY <1>1, <1>4
<1>16. V = K * S /\ V * A = K * (A * S) /\ A * S \in Nat
  BY <1>1, <1>2 DEF V
<1> HIDE DEF O
<1>17. A * S <= E + 3 * S
  <2>1. 2 * (K * (A * S)) <= 2 * (K * E) + 6 * (K * S)
    <3>1. K * (A * S) \in Nat /\ K * S \in Nat /\ H * E \in Nat
      BY <1>1, <1>2, <1>4, <1>16, TimesNat
    <3> QED  BY <3>1, <1>12, <1>14, <1>15, <1>16
  <2>2. K * (E + 3 * S) = K * E + 3 * (K * S)  BY <1>1, <1>2, <1>4
  <2>3. K * (A * S) \in Nat /\ K * S \in Nat  BY <1>1, <1>2, <1>16, TimesNat
  <2>4. K * (A * S) <= K * (E + 3 * S)  BY <2>1, <2>2, <2>3, <1>15
  <2>5. A * S \in Int /\ E + 3 * S \in Int  BY <1>2, <1>4, <1>16
  <2> QED  BY <2>4, <2>5, <1>1, Cancel
<1>18. E <= A * S + 4 * S
  <2>1. 2 * (K * E) <= 2 * (K * (A * S)) + 8 * (K * S)
    <3>1. K * (A * S) \in Nat /\ K * S \in Nat /\ G * E \in Nat
      BY <1>1, <1>2, <1>4, <1>16, TimesNat
    <3> QED  BY <3>1, <1>4, <1>13, <1>14, <1>15, <1>16
  <2>2. K * (A * S + 4 * S) = K * (A * S) + 4 * (K * S)  BY <1>1, <1>2, <1>16
  <2>3. K * (A * S) \in Nat /\ K * S \in Nat  BY <1>1, <1>2, <1>16, TimesNat
  <2>4. K * E <= K * (A * S + 4 * S)  BY <2>1, <2>2, <2>3, <1>15
  <2>5. A * S + 4 * S \in Int  BY <1>2, <1>16
  <2> QED  BY <2>4, <2>5, <1>1, <1>4, Cancel
<1> QED  BY <1>2, <1>4, <1>16, <1>17, <1>18 DEF E

--------------------------------------------------------------------------------
(***************************************************************************)
(* The numbers of launch are in the range of exponents, so its floats are  *)
(* as accurate as said.                                                    *)
(***************************************************************************)

(* A denominator up to Limit cubed, and a number up to four times that. *)
LEMMA InRange ==
    ASSUME NEW n \in Pos, NEW d \in Pos,
           d <= Limit * (Limit * Limit), n <= (4 * (Limit * (Limit * Limit))) * d
    PROVE  Rounds(Float(n, d), n, d)
<1> DEFINE L == Limit
           W == 2 ^ MaxExponent
<1>1. L \in Nat /\ L >= 256 /\ n \in Nat /\ d \in Nat /\ n >= 1 /\ d >= 1
  BY LimitIs DEF Pos
<1>2. W = (L * L) * (L * L)  BY LimitIs
<1> DEFINE c == L * (L * L)
<1>3. d <= c /\ n <= (4 * c) * d  OBVIOUS
<1> HIDE DEF L, W
<1>4. c \in Nat /\ W = L * c /\ W \in Nat  BY <1>1, <1>2, TimesNat
<1>5. c >= 1
  <2>1. L \in Pos  BY <1>1 DEF Pos
  <2>2. c \in Pos  BY <2>1, TimesPos
  <2> HIDE DEF c
  <2> QED  BY <2>2 DEF Pos
<1> HIDE DEF c
<1>6. L * d <= 2 * n * W
  <2>1. L * d <= L * c  BY <1>1, <1>3, <1>4, Scale
  <2>2. W * 1 <= W * n  BY <1>1, <1>4, Scale
  <2>3. 2 * n * W = 2 * (W * n) /\ W * n \in Nat /\ W * 1 = W  BY <1>1, <1>4
  <2> QED  BY <2>1, <2>2, <2>3, <1>1, <1>4
<1>7. n < L * d * W
  <2>1. (c * d) * 256 <= (c * d) * (L * L)
    <3>1. L * 1 <= L * L  BY <1>1, Scale
    <3>2. L * L \in Nat  BY <1>1
    <3>3. 256 <= L * L  BY <3>1, <3>2, <1>1
    <3> QED  BY <3>2, <3>3, <1>1, <1>4, TimesNat, Scale
  <2>2. (c * d) * (L * L) = L * d * W  BY <1>1, <1>4
  <2>3. (4 * c) * d = 4 * (c * d) /\ (c * d) \in Nat  BY <1>1, <1>4
  <2>4. c * d \in Pos
    <3>1. c \in Pos  BY <1>4, <1>5 DEF Pos
    <3> QED  BY <3>1, TimesPos
  <2>5. c * d >= 1  BY <2>3, <2>4 DEF Pos
  <2> DEFINE m == c * d
             u == L * d * W
  <2> HIDE DEF m, u
  <2>6. m \in Nat /\ m >= 1 /\ m * 256 <= u /\ n <= 4 * m
    BY <2>1, <2>2, <2>3, <2>5, <1>3 DEF m, u
  <2>7. u \in Int
    BY <1>1, <1>4 DEF u
  <2> QED  BY <2>6, <2>7, <1>1 DEF u
<1> QED  BY <1>6, <1>7, FloatRounds DEF L, W

LEMMA LimitPowers ==
    /\ Limit \in Nat /\ Limit >= 256 /\ Limit * Limit \in Nat /\ Limit <= Limit * Limit
    /\ Limit * (Limit * Limit) \in Nat /\ Limit * Limit <= Limit * (Limit * Limit)
<1>1. Limit \in Nat /\ Limit >= 256  BY LimitIs
<1>2. Limit * Limit \in Nat /\ Limit * (Limit * Limit) \in Nat  BY <1>1, TimesNat
<1>3. Limit * 1 <= Limit * Limit  BY <1>1, Scale
<1>4. Limit * Limit <= Limit * (Limit * Limit)  BY <1>1, <1>2, <1>3, Scale
<1> QED  BY <1>1, <1>2, <1>3, <1>4

(* What the literal n / d is read as. *)
LEMMA LiteralRounds ==
    ASSUME NEW n \in 1 .. Limit, NEW d \in 1 .. Limit
    PROVE  LET x == Float(n, d)
           IN  /\ Rounds(x, n, d)
               /\ x[2] <= Limit * Limit
               /\ x[1] <= (2 * Limit) * x[2]
<1> DEFINE x == Float(n, d)
           L == Limit
           c == Limit * (Limit * Limit)
<1>1. n \in Pos /\ d \in Pos /\ n \in Nat /\ d \in Nat /\ n >= 1 /\ d >= 1
  BY LimitPowers DEF Pos
<1>2. /\ L \in Nat /\ L >= 256 /\ L * L \in Nat /\ L <= L * L
      /\ c \in Nat /\ L * L <= c /\ n <= L /\ d <= L
  BY LimitPowers
<1> HIDE DEF L, c
<1>3. d <= c /\ n <= (4 * c) * d
  <2>1. c * 1 <= c * d  BY <1>1, <1>2, Scale
  <2>2. (4 * c) * d = 4 * (c * d) /\ c * d \in Nat  BY <1>1, <1>2
  <2> QED  BY <2>1, <2>2, <1>1, <1>2
<1>4. Rounds(x, n, d)  BY <1>1, <1>3, InRange DEF c
<1> HIDE DEF x
<1>5. x[1] \in Nat /\ x[2] \in Nat  BY <1>4, RoundsTypes
<1>6. x[2] <= L * L
  <2>1. x[2] <= L * d  BY <1>4 DEF Rounds, L
  <2>2. L * d <= L * L  BY <1>1, <1>2, Scale
  <2>3. L * d \in Nat  BY <1>1, <1>2
  <2> QED  BY <2>1, <2>2, <2>3, <1>2, <1>5
<1>7. x[1] <= (2 * L) * x[2]
  <2>1. x[1] * d <= 2 * (n * x[2])  BY <1>1, <1>4, NotTwice
  <2>2. x[1] * 1 <= x[1] * d  BY <1>1, <1>5, Scale
  <2>3. x[2] * n <= x[2] * L  BY <1>1, <1>2, <1>5, Scale
  <2>4. (2 * L) * x[2] = 2 * (x[2] * L) /\ n * x[2] = x[2] * n  BY <1>1, <1>2, <1>5
  <2>5. x[1] * d \in Nat /\ x[2] * n \in Nat /\ x[2] * L \in Nat  BY <1>1, <1>2, <1>5
  <2> QED  BY <2>1, <2>2, <2>3, <2>4, <2>5, <1>5
<1> QED  BY <1>4, <1>6, <1>7 DEF x, L

(* A number times such a float. *)
LEMMA ProductRounds ==
    ASSUME NEW x, NEW k \in 1 .. Limit, x[1] \in Pos, x[2] \in Pos,
           x[2] <= Limit * Limit, x[1] <= (2 * Limit) * x[2]
    PROVE  LET y == Float(k * x[1], x[2])
           IN  /\ Rounds(y, k * x[1], x[2])
               /\ y[2] <= Limit * (Limit * Limit)
               /\ y[1] <= (4 * (Limit * Limit)) * y[2]
<1> DEFINE y == Float(k * x[1], x[2])
           L == Limit
           c == Limit * (Limit * Limit)
           a == x[1]
           b == x[2]
<1>1. /\ L \in Nat /\ L >= 256 /\ L * L \in Nat /\ L <= L * L
      /\ c \in Nat /\ L * L <= c /\ c = L * (L * L)
      /\ k \in Nat /\ k \in Pos /\ k <= L
      /\ a \in Pos /\ b \in Pos /\ a \in Nat /\ b \in Nat
      /\ b <= L * L /\ a <= (2 * L) * b
  BY LimitPowers DEF Pos
<1> HIDE DEF L, c, a, b
<1>2. k * a \in Pos /\ k * a \in Nat  BY <1>1, TimesPos, TimesNat
<1>3. k * a <= (2 * (L * L)) * b
  <2>1. k * a <= k * ((2 * L) * b)  BY <1>1, TimesNat, Scale
  <2>2. (2 * (L * b)) * k <= (2 * (L * b)) * L  BY <1>1, TimesNat, Scale
  <2>3. k * ((2 * L) * b) = (2 * (L * b)) * k /\ (2 * (L * L)) * b = (2 * (L * b)) * L
    BY <1>1
  <2>4. (2 * (L * b)) * k \in Nat /\ (2 * (L * b)) * L \in Nat  BY <1>1, TimesNat
  <2> QED  BY <2>1, <2>2, <2>3, <2>4, <1>2
<1>4. b <= c /\ k * a <= (4 * c) * b
  <2>1. b * (L * L) <= b * c  BY <1>1, Scale
  <2>2. (2 * (L * L)) * b = 2 * (b * (L * L)) /\ (4 * c) * b = 4 * (b * c)  BY <1>1
  <2>3. b * (L * L) \in Nat /\ b * c \in Nat  BY <1>1, TimesNat
  <2> QED  BY <2>1, <2>2, <2>3, <1>1, <1>2, <1>3
<1>5. Rounds(y, k * a, b)  BY <1>1, <1>2, <1>4, InRange DEF a, b, c
<1> HIDE DEF y
<1>6. y[1] \in Nat /\ y[2] \in Nat  BY <1>5, RoundsTypes
<1>7. y[2] <= c
  <2>1. y[2] <= L * b  BY <1>5 DEF Rounds, L
  <2>2. L * b <= L * (L * L)  BY <1>1, Scale
  <2>3. L * b \in Nat  BY <1>1
  <2> QED  BY <2>1, <2>2, <2>3, <1>1, <1>6
<1>8. y[1] <= (4 * (L * L)) * y[2]
  <2>1. y[1] * b <= 2 * ((k * a) * y[2])  BY <1>1, <1>2, <1>5, NotTwice
  <2>2. y[2] * (k * a) <= y[2] * ((2 * (L * L)) * b)  BY <1>1, <1>2, <1>3, <1>6, TimesNat, Scale
  <2>3. /\ (k * a) * y[2] = y[2] * (k * a)
        /\ b * ((4 * (L * L)) * y[2]) = 2 * (y[2] * ((2 * (L * L)) * b))
        /\ y[1] * b = b * y[1]
    BY <1>1, <1>2, <1>6
  <2>4. /\ y[2] * (k * a) \in Nat /\ y[2] * ((2 * (L * L)) * b) \in Nat
        /\ b * y[1] \in Nat /\ (4 * (L * L)) * y[2] \in Nat
    BY <1>1, <1>2, <1>6, TimesNat
  <2>5. b * y[1] <= b * ((4 * (L * L)) * y[2])  BY <2>1, <2>2, <2>3, <2>4
  <2> DEFINE m == (4 * (L * L)) * y[2]
  <2> HIDE DEF m
  <2>6. m \in Int /\ y[1] \in Int /\ b * y[1] <= b * m  BY <2>4, <2>5, <1>6 DEF m
  <2>7. y[1] <= m  BY <2>6, <1>1, Cancel
  <2> QED  BY <2>7 DEF m
<1> QED  BY <1>5, <1>7, <1>8 DEF y, L, c, a, b

LEMMA TimesIs ==
    ASSUME NEW x, NEW k, x[1] \in Nat, x[2] \in Nat, k \in Nat
    PROVE  /\ Times(<<k, 1>>, x) = Float(k * x[1], x[2])
           /\ Times(x, <<k, 1>>) = Float(k * x[1], x[2])
<1>1. k * x[1] = x[1] * k /\ 1 * x[2] = x[2] /\ x[2] * 1 = x[2]  OBVIOUS
<1>2. Times(<<k, 1>>, x) = Float(k * x[1], 1 * x[2])  BY DEF Times
<1>3. Times(x, <<k, 1>>) = Float(x[1] * k, x[2] * 1)  BY DEF Times
<1> QED  BY <1>1, <1>2, <1>3

(* Nothing comes of nothing. *)
LEMMA Nothing ==
    /\ \A d : Float(0, d) = <<0, 1>>
    /\ BN(<<0, 1>>) = 0
<1>1. \A d : Float(0, d) = <<0, 1>>  BY DEF Float
<1>2. ~ (0 >= Limit * 1) /\ 0 \div 1 = 0  BY LimitIs
<1>3. <<0, 1>>[1] = 0 /\ <<0, 1>>[2] = 1  OBVIOUS
<1> QED  BY <1>1, <1>2, <1>3 DEF BN

(* Any percentage gives itself or one less, and BN takes it. *)
LEMMA StakeIsClose ==
    ASSUME NEW s \in 0 .. 100
    PROVE  OracleStake(s) \in Nat /\ OracleStake(s) \in {s - 1, s}
<1>1. CASE s = 0
  <2>1. OracleStake(0) = BN(Times(<<0, 1>>, <<100, 1>>))  BY Nothing DEF OracleStake
  <2>2. Times(<<0, 1>>, <<100, 1>>) = Float(100 * 0, 1)  BY TimesIs
  <2>3. Float(100 * 0, 1) = <<0, 1>>  BY Nothing
  <2> QED  BY <1>1, <2>1, <2>2, <2>3, Nothing
<1>2. CASE s # 0
  <2> DEFINE x == Float(s, 100)
             y == Float(100 * x[1], x[2])
  <2>1. s \in 1 .. 100 /\ s \in 1 .. Limit /\ 100 \in 1 .. Limit /\ s \in Pos /\ 100 \in Pos
    BY <1>2, LimitIs DEF Pos
  <2>2. /\ Rounds(x, s, 100)
        /\ x[2] <= Limit * Limit
        /\ x[1] <= (2 * Limit) * x[2]
    BY <2>1, LiteralRounds
  <2>3. x[1] \in Pos /\ x[2] \in Pos /\ x[1] \in Nat /\ x[2] \in Nat
    BY <2>2 DEF Rounds, Pos
  <2>4. OracleStake(s) = BN(y)  BY <2>3, TimesIs DEF OracleStake
  <2> HIDE DEF x
  <2>5. Rounds(y, 100 * x[1], x[2])  BY <2>1, <2>2, <2>3, ProductRounds
  <2> HIDE DEF y
  <2>6. /\ (Limit * Limit) * (y[1] * 100)
               <= ((Limit + 1) * (Limit + 1)) * ((100 * s) * y[2])
        /\ ((Limit - 1) * (Limit - 1)) * ((100 * s) * y[2])
               <= (Limit * Limit) * (y[1] * 100)
    BY <2>1, <2>2, <2>5, RoundsTwice
  <2>7. y[1] \in Nat /\ y[2] \in Pos  BY <2>5 DEF Rounds, Pos
  <2>8. /\ y[1] < Limit * y[2]
        /\ \A q \in Nat : (q * y[2] <= y[1] /\ y[1] <= (q + 1) * y[2]) => q \in {s - 1, s}
    <3> DEFINE a == y[1]
               b == y[2]
    <3>1. a \in Nat /\ b \in Pos /\ s \in 1 .. 100  BY <2>1, <2>7
    <3>2. /\ (Limit * Limit) * (a * 100) <= ((Limit + 1) * (Limit + 1)) * ((100 * s) * b)
          /\ ((Limit - 1) * (Limit - 1)) * ((100 * s) * b) <= (Limit * Limit) * (a * 100)
      BY <2>6
    <3> HIDE DEF a, b
    <3>3. /\ a < Limit * b
          /\ \A q \in Nat : (q * b <= a /\ a <= (q + 1) * b) => q \in {s - 1, s}
      BY <3>1, <3>2, CutStake, Zenon
    <3> QED  BY <3>3 DEF a, b
  <2>9. y[2] \in Nat /\ Limit * y[2] \in Nat  BY <2>7, LimitIs DEF Pos
  <2>10. /\ BN(y) \in Nat
         /\ BN(y) * y[2] <= y[1] /\ y[1] <= (BN(y) + 1) * y[2]
    <3>1. ~ (y[1] >= Limit * y[2])  BY <2>7, <2>8, <2>9
    <3>2. BN(y) \in Nat /\ BN(y) * y[2] <= y[1] /\ y[1] < (BN(y) + 1) * y[2]
      BY <2>5, <3>1, BNIs
    <3>3. (BN(y) + 1) * y[2] \in Nat  BY <2>9, <3>2
    <3> QED  BY <2>7, <3>2, <3>3
  <2> QED  BY <2>4, <2>8, <2>10
<1> QED  BY <1>1, <1>2

(* Nothing is due for no tasks, or for a price of nothing. *)
LEMMA NothingDue ==
    ASSUME NEW t \in 0 .. Limit, NEW p \in 0 .. Limit, t = 0 \/ p = 0
    PROVE  FormattedAmount(t, p) = 0
<1> DEFINE S == PriceScale
           T == 10 ^ Decimals
           x == Float(p, S)
           y == Float(t * x[1], x[2])
           z == Float(T * y[1], y[2])
<1>1. /\ Limit \in Nat /\ t \in Nat /\ p \in Nat
      /\ S \in 1 .. Limit /\ S \in Pos /\ S \in Nat
      /\ T \in 1 .. Limit /\ T \in Pos /\ T \in Nat
  BY LimitIs, AmountsAssumption DEF AmountsAssumption, Pos
<1> HIDE DEF S, T
<1>2. ASSUME x[1] \in Nat, x[2] \in Nat, y[1] \in Nat, y[2] \in Nat
      PROVE  FormattedAmount(t, p) = BN(z)
  <2>1. Times(<<t, 1>>, x) = y  BY <1>1, <1>2, TimesIs
  <2>2. Times(y, <<T, 1>>) = z  BY <1>1, <1>2, TimesIs
  <2> HIDE DEF x, y, z
  <2> QED  BY <2>1, <2>2 DEF FormattedAmount, formatDecimals, x, S, T
<1>3. t = 0 \/ p = 0  OBVIOUS
<1>4. FormattedAmount(t, p) = 0
  <2>1. x[1] \in Nat /\ x[2] \in Nat /\ (p = 0 => x[1] = 0)
    <3>1. CASE p = 0
      <4>1. x = <<0, 1>>  BY <3>1, Nothing
      <4> HIDE DEF x
      <4> QED  BY <4>1
    <3>2. CASE p # 0
      <4>1. p \in 1 .. Limit  BY <1>1, <3>2
      <4>2. Rounds(x, p, S)  BY <4>1, <1>1, LiteralRounds
      <4> QED  BY <3>2, <4>2, RoundsTypes
    <3> QED  BY <3>1, <3>2
  <2> HIDE DEF x
  <2>2. t * x[1] = 0  BY <1>1, <1>3, <2>1
  <2>3. y = <<0, 1>>  BY <2>2, Nothing
  <2>4. y[1] = 0 /\ y[2] = 1  BY <2>3
  <2>5. FormattedAmount(t, p) = BN(z)  BY <1>2, <2>1, <2>4
  <2> HIDE DEF y
  <2>6. T * y[1] = 0  BY <1>1, <2>4
  <2>7. BN(z) = 0  BY <2>6, Nothing
  <2> QED  BY <2>5, <2>7
<1> QED  BY <1>4

(* Otherwise three roundings lead to it: the price's, the product's, and the decimals'. *)
LEMMA ThreeRoundings ==
    ASSUME NEW t \in 1 .. Limit, NEW p \in 1 .. Limit
    PROVE  LET x == Float(p, PriceScale)
               y == Float(t * x[1], x[2])
               z == Float(10 ^ Decimals * y[1], y[2])
           IN  /\ Rounds(x, p, PriceScale)
               /\ Rounds(y, t * x[1], x[2])
               /\ Rounds(z, 10 ^ Decimals * y[1], y[2])
               /\ FormattedAmount(t, p) = BN(z)
<1> DEFINE S == PriceScale
           T == 10 ^ Decimals
           x == Float(p, S)
           y == Float(t * x[1], x[2])
           z == Float(T * y[1], y[2])
<1>1. /\ Limit \in Nat /\ t \in Nat /\ p \in Nat
      /\ S \in 1 .. Limit /\ S \in Pos /\ S \in Nat
      /\ T \in 1 .. Limit /\ T \in Pos /\ T \in Nat
  BY LimitIs, AmountsAssumption DEF AmountsAssumption, Pos
<1> HIDE DEF S, T
<1>2. ASSUME x[1] \in Nat, x[2] \in Nat, y[1] \in Nat, y[2] \in Nat
      PROVE  FormattedAmount(t, p) = BN(z)
  <2>1. Times(<<t, 1>>, x) = y  BY <1>1, <1>2, TimesIs
  <2>2. Times(y, <<T, 1>>) = z  BY <1>1, <1>2, TimesIs
  <2> HIDE DEF x, y, z
  <2> QED  BY <2>1, <2>2 DEF FormattedAmount, formatDecimals, x, S, T
<1>3. Rounds(x, p, S) /\ Rounds(y, t * x[1], x[2]) /\ Rounds(z, T * y[1], y[2])
      /\ FormattedAmount(t, p) = BN(z)
  <2>1. t \in 1 .. Limit /\ p \in 1 .. Limit /\ t \in Pos /\ p \in Pos  BY <1>1 DEF Pos
  <2>2. /\ Rounds(x, p, S)
        /\ x[2] <= Limit * Limit
        /\ x[1] <= (2 * Limit) * x[2]
    BY <1>1, <2>1, LiteralRounds
  <2>3. x[1] \in Pos /\ x[2] \in Pos /\ x[1] \in Nat /\ x[2] \in Nat
    BY <2>2 DEF Rounds, Pos
  <2> HIDE DEF x
  <2>4. /\ Rounds(y, t * x[1], x[2])
        /\ y[2] <= Limit * (Limit * Limit)
        /\ y[1] <= (4 * (Limit * Limit)) * y[2]
    BY <2>1, <2>2, <2>3, ProductRounds
  <2>5. y[1] \in Pos /\ y[2] \in Pos /\ y[1] \in Nat /\ y[2] \in Nat
    BY <2>4 DEF Rounds, Pos
  <2>6. FormattedAmount(t, p) = BN(z)  BY <1>2, <2>3, <2>5
  <2> HIDE DEF y
  <2>7. Rounds(z, T * y[1], y[2])
    <3>1. T * y[1] \in Pos  BY <1>1, <2>5, TimesPos
    <3>2. T * y[1] <= (4 * (Limit * (Limit * Limit))) * y[2]
      <4> DEFINE k == Limit * Limit
                 a == y[1]
                 b == y[2]
      <4>1. k \in Nat /\ a \in Nat /\ b \in Nat /\ a <= (4 * k) * b  BY <2>4, <2>5, LimitPowers
      <4> HIDE DEF k, a, b
      <4>2. T * a <= T * ((4 * k) * b)  BY <1>1, <4>1, TimesNat, Scale
      <4>3. ((4 * k) * b) * T <= ((4 * k) * b) * Limit  BY <1>1, <4>1, TimesNat, Scale
      <4>4. /\ T * ((4 * k) * b) = ((4 * k) * b) * T
            /\ ((4 * k) * b) * Limit = (4 * (Limit * k)) * b
        BY <1>1, <4>1
      <4>5. T * a \in Nat /\ ((4 * k) * b) * T \in Nat /\ ((4 * k) * b) * Limit \in Nat
        BY <1>1, <4>1, TimesNat
      <4>6. T * a <= (4 * (Limit * k)) * b  BY <4>2, <4>3, <4>4, <4>5
      <4> QED  BY <4>6 DEF k, a, b
    <3> QED  BY <2>4, <2>5, <3>1, <3>2, InRange
  <2> QED  BY <2>2, <2>4, <2>6, <2>7 DEF x, y
<1> QED  BY <1>3 DEF S, T, x, y, z

(* What is paid, if BN takes it: four units less than due at most, or three more. *)
LEMMA AmountIsClose ==
    ASSUME NEW t \in 0 .. Limit, NEW p \in 0 .. Limit
    PROVE  \/ FormattedAmount(t, p) = Refused
           \/ /\ FormattedAmount(t, p) \in Nat
              /\ FormattedAmount(t, p) * PriceScale - (t * p) * 10 ^ Decimals
                     \in (- 4 * PriceScale) .. (3 * PriceScale)
<1> DEFINE S == PriceScale
           T == 10 ^ Decimals
           x == Float(p, S)
           y == Float(t * x[1], x[2])
           z == Float(T * y[1], y[2])
<1>1. /\ Limit \in Nat /\ t \in Nat /\ p \in Nat
      /\ S \in 1 .. Limit /\ S \in Pos /\ S \in Nat
      /\ T \in 1 .. Limit /\ T \in Pos /\ T \in Nat
  BY LimitIs, AmountsAssumption DEF AmountsAssumption, Pos
<1> HIDE DEF S, T
<1>2. CASE t = 0 \/ p = 0
  <2>1. FormattedAmount(t, p) = 0  BY <1>2, NothingDue
  <2>2. (t * p) * T = 0 /\ 0 * S = 0  BY <1>1, <1>2
  <2>3. 0 * S - (t * p) * T \in (- 4 * S) .. (3 * S)  BY <2>2, <1>1
  <2> QED  BY <2>1, <2>3 DEF S, T
<1>3. CASE t # 0 /\ p # 0
  <2>1. t \in 1 .. Limit /\ p \in 1 .. Limit /\ t \in Pos /\ p \in Pos  BY <1>1, <1>3 DEF Pos
  <2>2. /\ Rounds(x, p, S) /\ Rounds(y, t * x[1], x[2]) /\ Rounds(z, T * y[1], y[2])
        /\ FormattedAmount(t, p) = BN(z)
    BY <2>1, ThreeRoundings DEF S, T
  <2> HIDE DEF x, y, z
  <2>3. y[1] \in Pos /\ y[2] \in Pos /\ y[1] \in Nat /\ y[2] \in Nat
    BY <2>2 DEF Rounds, Pos
  <2>4. /\ (Limit * Limit) * (y[1] * S)
               <= ((Limit + 1) * (Limit + 1)) * ((t * p) * y[2])
        /\ ((Limit - 1) * (Limit - 1)) * ((t * p) * y[2])
               <= (Limit * Limit) * (y[1] * S)
    BY <1>1, <2>1, <2>2, RoundsTwice
  <2>5. z[1] \in Pos /\ z[2] \in Pos  BY <2>2 DEF Rounds
  <2>6. CASE z[1] >= Limit * z[2]
    <3>1. BN(z) = Refused  BY <2>6 DEF BN
    <3> QED  BY <3>1, <2>2
  <2>7. CASE ~ (z[1] >= Limit * z[2])
    <3> DEFINE A == BN(z)
    <3>1. /\ z[1] < Limit * z[2]
          /\ A \in Nat /\ A * z[2] <= z[1] /\ z[1] <= (A + 1) * z[2]
      <4>1. /\ z[1] < Limit * z[2]
            /\ A \in Nat /\ A * z[2] <= z[1] /\ z[1] < (A + 1) * z[2]
        BY <2>2, <2>7, BNIs
      <4>2. z[1] \in Nat /\ z[2] \in Nat  BY <2>5 DEF Pos
      <4> HIDE DEF A
      <4>3. (A + 1) * z[2] \in Nat  BY <4>1, <4>2
      <4> QED  BY <4>1, <4>2, <4>3
    <3>2. /\ 2 * (z[1] * y[2]) <= 2 * ((T * y[1]) * z[2]) + y[2]
          /\ 2 * ((T * y[1]) * z[2]) <= 2 * (z[1] * y[2]) + y[2]
      BY <2>2, <3>1 DEF Rounds
    <3>3. T * y[1] = y[1] * T  BY <1>1, <2>3
    <3>4. t * p \in Pos  BY <2>1, TimesPos
    <3> HIDE DEF A
    <3>5. A * S - (t * p) * T \in (- 4 * S) .. (3 * S)
      BY <1>1, <2>3, <2>4, <2>5, <3>1, <3>2, <3>3, <3>4, CutAmount
    <3> QED  BY <2>2, <3>1, <3>5 DEF A, S, T
  <2> QED  BY <2>6, <2>7
<1> QED  BY <1>2, <1>3
--------------------------------------------------------------------------------
(* A float of a number beyond those counted exactly is beyond them itself. *)
LEMMA LargeStays ==
    ASSUME NEW x, NEW n \in Nat, NEW d \in Pos, Rounds(x, n, d), Limit * d <= n
    PROVE  x[1] >= Limit * x[2]
<1> DEFINE a == x[1]
           b == x[2]
           L == Limit
           m == L * b
<1>1. /\ a \in Nat /\ b \in Nat /\ b \in Pos /\ L \in Nat /\ d \in Nat /\ L * d <= n
      /\ a < L * b => 2 * (n * b) <= 2 * (a * d) + d
  BY RoundsTypes DEF Rounds, Pos
<1> HIDE DEF a, b, L
<1>2. m \in Nat  BY <1>1, TimesNat
<1>3. ASSUME a < m PROVE FALSE
  <2>1. 2 * (n * b) <= 2 * (a * d) + d  BY <1>1, <1>3
  <2>2. b * (L * d) <= b * n  BY <1>1, TimesNat, Scale
  <2>3. b * (L * d) = d * m /\ b * n = n * b /\ a * d = d * a  BY <1>1
  <2>4. d * m \in Nat /\ d * a \in Nat /\ n * b \in Nat  BY <1>1, <1>2, TimesNat
  <2> HIDE DEF m
  <2>5. 2 * (d * m) <= 2 * (d * a) + d  BY <2>1, <2>2, <2>3, <2>4, <1>1
  <2>6. d * (2 * m) = 2 * (d * m) /\ d * (2 * a + 1) = 2 * (d * a) + d  BY <1>1, <1>2
  <2>7. d * (2 * m) <= d * (2 * a + 1)  BY <2>5, <2>6
  <2>8. 2 * m \in Int /\ 2 * a + 1 \in Int  BY <1>1, <1>2
  <2>9. 2 * m <= 2 * a + 1  BY <2>7, <2>8, Cancel
  <2> QED  BY <2>9, <1>1, <1>2, <1>3
<1>4. a >= m  BY <1>1, <1>2, <1>3
<1> QED  BY <1>4 DEF m, L, a, b

(* A float of a whole number is that number, or beyond those counted exactly. *)
LEMMA WholeStays ==
    ASSUME NEW x, NEW m \in Nat, NEW d \in Pos, Rounds(x, m * d, d)
    PROVE  x[1] = m * x[2] \/ x[1] >= Limit * x[2]
<1> DEFINE a == x[1]
           b == x[2]
           c == m * b
<1>1. /\ a \in Nat /\ b \in Nat /\ d \in Nat /\ Limit * b \in Nat
      /\ a < Limit * b => /\ 2 * (a * d) <= 2 * ((m * d) * b) + d
                          /\ 2 * ((m * d) * b) <= 2 * (a * d) + d
  <2>1. a \in Nat /\ b \in Nat /\ d \in Nat /\ Limit \in Nat  BY RoundsTypes DEF Pos
  <2>2. Limit * b \in Nat  BY <2>1, TimesNat
  <2> QED  BY <2>1, <2>2 DEF Rounds
<1> HIDE DEF a, b
<1>2. c \in Nat  BY <1>1, TimesNat
<1>3. ASSUME a < Limit * b PROVE a = c
  <2>1. /\ 2 * (a * d) <= 2 * ((m * d) * b) + d
        /\ 2 * ((m * d) * b) <= 2 * (a * d) + d
    BY <1>1, <1>3
  <2>2. (m * d) * b = d * c /\ a * d = d * a  BY <1>1
  <2> HIDE DEF c
  <2>3. /\ d * (2 * a) = 2 * (d * a) /\ d * (2 * c + 1) = 2 * (d * c) + d
        /\ d * (2 * c) = 2 * (d * c) /\ d * (2 * a + 1) = 2 * (d * a) + d
    BY <1>1, <1>2
  <2>4. d * (2 * a) <= d * (2 * c + 1) /\ d * (2 * c) <= d * (2 * a + 1)
    BY <2>1, <2>2, <2>3
  <2>5. 2 * a \in Int /\ 2 * a + 1 \in Int /\ 2 * c \in Int /\ 2 * c + 1 \in Int
    BY <1>1, <1>2
  <2>6. 2 * a <= 2 * c + 1 /\ 2 * c <= 2 * a + 1  BY <2>4, <2>5, Cancel
  <2> QED  BY <2>6, <1>1, <1>2
<1>4. a = c \/ a >= Limit * b  BY <1>1, <1>3
<1> QED  BY <1>4 DEF a, b, c

(* So it stays when it is multiplied. *)
LEMMA WholeProduct ==
    ASSUME NEW x, NEW y, NEW m \in Nat, NEW k \in Pos, x[1] \in Pos, x[2] \in Pos,
           x[1] = m * x[2] \/ x[1] >= Limit * x[2],
           Rounds(y, k * x[1], x[2])
    PROVE  y[1] = (k * m) * y[2] \/ y[1] >= Limit * y[2]
<1> DEFINE a == x[1]
           b == x[2]
           L == Limit
<1>1. /\ a \in Nat /\ b \in Nat /\ b \in Pos /\ L \in Nat /\ k \in Nat /\ k >= 1
      /\ a = m * b \/ a >= L * b
      /\ Rounds(y, k * a, b)
  BY LimitIs DEF Pos
<1> HIDE DEF a, b
<1>2. CASE a = m * b
  <2>1. k * a = (k * m) * b /\ k * m \in Nat  BY <1>1, <1>2, TimesNat
  <2>2. Rounds(y, (k * m) * b, b)  BY <1>1, <2>1
  <2> QED  BY <1>1, <2>1, <2>2, WholeStays
<1>3. CASE a >= L * b
  <2>1. k * a \in Nat /\ L * b \in Nat  BY <1>1, TimesNat
  <2>2. a * 1 <= a * k  BY <1>1, Scale
  <2>3. a * k = k * a /\ a * 1 = a  BY <1>1
  <2> HIDE DEF L
  <2>4. L * b <= k * a  BY <1>1, <1>3, <2>1, <2>2, <2>3
  <2> QED  BY <1>1, <2>1, <2>4, LargeStays DEF L
<1> QED  BY <1>1, <1>2, <1>3

(* Of a price in whole units of the currency no unit is lost. *)
LEMMA WholeAmount ==
    ASSUME NEW t \in 0 .. Limit, NEW w \in Nat, w * PriceScale \in 0 .. Limit
    PROVE  \/ FormattedAmount(t, w * PriceScale) = Refused
           \/ FormattedAmount(t, w * PriceScale) = (t * w) * 10 ^ Decimals
<1> DEFINE S == PriceScale
           T == 10 ^ Decimals
           p == w * S
           x == Float(p, S)
           y == Float(t * x[1], x[2])
           z == Float(T * y[1], y[2])
<1>1. /\ Limit \in Nat /\ t \in Nat
      /\ S \in Pos /\ S \in Nat /\ S >= 1
      /\ T \in Pos /\ T \in Nat
      /\ p \in 0 .. Limit
  BY LimitIs, AmountsAssumption DEF AmountsAssumption, Pos
<1> HIDE DEF S, T
<1>2. p = 0 => w = 0  BY <1>1
<1>3. Rounds(x, p, S) => Rounds(x, w * S, S)  OBVIOUS
<1> HIDE DEF p
<1>4. CASE t = 0 \/ p = 0
  <2>1. FormattedAmount(t, p) = 0  BY <1>1, <1>4, NothingDue
  <2>2. (t * w) * T = 0  BY <1>1, <1>2, <1>4
  <2> QED  BY <2>1, <2>2 DEF p, S, T
<1>5. CASE t # 0 /\ p # 0
  <2>1. t \in 1 .. Limit /\ p \in 1 .. Limit /\ t \in Pos  BY <1>1, <1>5 DEF Pos
  <2>2. /\ Rounds(x, p, S) /\ Rounds(y, t * x[1], x[2]) /\ Rounds(z, T * y[1], y[2])
        /\ FormattedAmount(t, p) = BN(z)
    BY <2>1, ThreeRoundings DEF S, T
  <2> HIDE DEF x, y, z
  <2>3. /\ x[1] \in Pos /\ x[2] \in Pos /\ y[1] \in Pos /\ y[2] \in Pos
        /\ z[1] \in Pos /\ z[2] \in Pos
    BY <2>2 DEF Rounds
  <2>4. x[1] = w * x[2] \/ x[1] >= Limit * x[2]  BY <1>1, <1>3, <2>2, WholeStays
  <2>5. y[1] = (t * w) * y[2] \/ y[1] >= Limit * y[2]
    BY <2>1, <2>2, <2>3, <2>4, WholeProduct
  <2>6. t * w \in Nat /\ T * (t * w) \in Nat  BY <1>1, TimesNat
  <2>7. z[1] = (T * (t * w)) * z[2] \/ z[1] >= Limit * z[2]
    BY <1>1, <2>2, <2>3, <2>5, <2>6, WholeProduct
  <2>8. \/ BN(z) = Refused
        \/ BN(z) = T * (t * w)
    <3> DEFINE a == z[1]
               b == z[2]
               A == BN(z)
               e == T * (t * w)
    <3>1. \/ a >= Limit * b /\ A = Refused
          \/ a < Limit * b /\ A \in Nat /\ A * b <= a /\ a < (A + 1) * b
      BY <2>2, BNIs
    <3>2. a \in Nat /\ b \in Nat /\ b \in Pos /\ e \in Nat /\ Limit * b \in Nat
      <4>1. a \in Nat /\ b \in Nat /\ b \in Pos  BY <2>3 DEF Pos
      <4> QED  BY <4>1, <2>6, <1>1, TimesNat
    <3>3. a = e * b \/ a >= Limit * b  BY <2>7
    <3> HIDE DEF a, b, A, e
    <3>4. CASE a < Limit * b
      <4>1. ~ (a >= Limit * b)  BY <3>2, <3>4
      <4>2. a = e * b /\ A \in Nat /\ A * b <= a /\ a < (A + 1) * b
        BY <3>1, <3>3, <4>1
      <4>3. b * A <= b * e  BY <4>2, <3>2
      <4>4. A <= e  BY <4>2, <4>3, <3>2, Cancel
      <4>5. A < e => FALSE
        <5>1. HAVE A < e
        <5>2. b * (A + 1) <= b * e  BY <5>1, <4>2, <3>2, Scale
        <5>3. b * (A + 1) = (A + 1) * b /\ b * e = e * b  BY <4>2, <3>2
        <5>4. (A + 1) * b \in Nat /\ e * b \in Nat  BY <4>2, <3>2, TimesNat
        <5> QED  BY <5>2, <5>3, <5>4, <4>2
      <4>6. A = e  BY <4>2, <4>4, <4>5, <3>2
      <4> QED  BY <4>6 DEF A, e
    <3>5. CASE ~ (a < Limit * b)
      <4> QED  BY <3>1, <3>5 DEF A
    <3> QED  BY <3>4, <3>5
  <2>9. T * (t * w) = (t * w) * T  BY <1>1, <2>6
  <2> QED  BY <2>2, <2>8, <2>9 DEF p, S, T
<1> QED  BY <1>4, <1>5
================================================================================
