------------------------------ MODULE CommonProofs ------------------------------
(***************************************************************************)
(* What other proof modules rest on: powers of two, how near a number that *)
(* FloatingPoint rounds is to what it stands for, for every number of      *)
(* bits, and that every finite list can be put in order.                   *)
(***************************************************************************)
EXTENDS FloatingPoint, FiniteSetTheorems, TLAPS

(* Powers of two.  2 ^ n is the number of subsets of n things, which is all  *)
(* that its arithmetic rests on.                                             *)

\* A finite set has 2 ^ n subsets.
LEMMA PowerIsCount ==
  ASSUME NEW S, IsFiniteSet(S)
  PROVE  /\ IsFiniteSet(SUBSET S) /\ Cardinality(SUBSET S) = 2 ^ Cardinality(S)
         /\ 2 ^ Cardinality(S) \in Nat \ {0}
<1>1. IsFiniteSet(SUBSET S) /\ Cardinality(SUBSET S) = 2 ^ Cardinality(S)
  BY FS_SUBSET
<1>2. Cardinality(SUBSET S) \in Nat
  BY <1>1, FS_CardinalityType
<1>3. Cardinality(SUBSET S) # 0
  BY <1>1, FS_EmptySet
<1> QED
  BY <1>1, <1>2, <1>3

\* n numbers follow m.
LEMMA IntervalSize ==
  ASSUME NEW m \in Nat, NEW n \in Nat
  PROVE  IsFiniteSet(m + 1 .. m + n) /\ Cardinality(m + 1 .. m + n) = n
<1>1. m + 1 \in Int /\ m + n \in Int
  OBVIOUS
<1>2. /\ IsFiniteSet(m + 1 .. m + n)
      /\ Cardinality(m + 1 .. m + n) =
           IF m + 1 > m + n THEN 0 ELSE (m + n) - (m + 1) + 1
  BY <1>1, FS_Interval
<1> QED
  BY <1>2

\* A power is a positive number.
LEMMA PowerType == ASSUME NEW n \in Nat PROVE 2 ^ n \in Nat \ {0}
<1>1. IsFiniteSet(0 + 1 .. 0 + n) /\ Cardinality(0 + 1 .. 0 + n) = n
  BY IntervalSize, 0 \in Nat
<1> QED
  BY <1>1, PowerIsCount

\* A subset of two disjoint sets is a subset of each.
LEMMA PowerAdds ==
  ASSUME NEW m \in Nat, NEW n \in Nat
  PROVE  2 ^ (m + n) = 2 ^ m * 2 ^ n
<1> DEFINE S == 0 + 1 .. 0 + m
           T == m + 1 .. m + n
           f == [X \in SUBSET (S \cup T) |-> <<X \cap S, X \cap T>>]
<1>1. IsFiniteSet(S) /\ Cardinality(S) = m
  BY IntervalSize, 0 \in Nat
<1>2. IsFiniteSet(T) /\ Cardinality(T) = n
  BY IntervalSize
<1>3. S \cap T = {} /\ S \cup T = 0 + 1 .. 0 + (m + n)
  OBVIOUS
<1>4. IsFiniteSet(S \cup T) /\ Cardinality(S \cup T) = m + n
  BY <1>3, IntervalSize, 0 \in Nat, m + n \in Nat
<1> HIDE DEF S, T
<1>5. /\ f \in [SUBSET (S \cup T) -> (SUBSET S) \X (SUBSET T)]
      /\ \A X, Y \in SUBSET (S \cup T) : f[X] = f[Y] => X = Y
      /\ \A pair \in (SUBSET S) \X (SUBSET T) : \E X \in SUBSET (S \cup T) : f[X] = pair
  <2>1. f \in [SUBSET (S \cup T) -> (SUBSET S) \X (SUBSET T)]
    OBVIOUS
  <2>2. ASSUME NEW X \in SUBSET (S \cup T), NEW Y \in SUBSET (S \cup T), f[X] = f[Y]
        PROVE  X = Y
    BY <2>2
  <2>3. ASSUME NEW X \in SUBSET S, NEW Y \in SUBSET T
        PROVE  X \cup Y \in SUBSET (S \cup T) /\ f[X \cup Y] = <<X, Y>>
    <3>1. (X \cup Y) \cap S = X /\ (X \cup Y) \cap T = Y
      BY <1>3
    <3> QED
      BY <3>1
  <2> HIDE DEF f
  <2>4. ASSUME NEW pair \in (SUBSET S) \X (SUBSET T)
        PROVE  \E X \in SUBSET (S \cup T) : f[X] = pair
    <3>1. pair[1] \in SUBSET S /\ pair[2] \in SUBSET T /\ pair = <<pair[1], pair[2]>>
      OBVIOUS
    <3>2. /\ pair[1] \cup pair[2] \in SUBSET (S \cup T)
          /\ f[pair[1] \cup pair[2]] = <<pair[1], pair[2]>>
      BY <2>3, <3>1
    <3> QED
      BY <3>1, <3>2
  <2> QED
    BY <2>1, <2>2, <2>4
<1>6. ExistsBijection(SUBSET (S \cup T), (SUBSET S) \X (SUBSET T))
  <2> DEFINE P == SUBSET (S \cup T)
             Q == (SUBSET S) \X (SUBSET T)
  <2>1. /\ f \in [P -> Q]
        /\ \A X, Y \in P : f[X] = f[Y] => X = Y
        /\ \A pair \in Q : \E X \in P : f[X] = pair
    BY <1>5
  <2> HIDE DEF f, P, Q
  <2>2. f \in Bijection(P, Q)
    BY <2>1 DEF Bijection, Injection, Surjection, IsInjective
  <2>3. ExistsBijection(P, Q)
    BY <2>2 DEF ExistsBijection
  <2> QED
    BY <2>3 DEF P, Q
<1>7. /\ IsFiniteSet(SUBSET S) /\ Cardinality(SUBSET S) = 2 ^ m
      /\ IsFiniteSet(SUBSET T) /\ Cardinality(SUBSET T) = 2 ^ n
      /\ IsFiniteSet(SUBSET (S \cup T)) /\ Cardinality(SUBSET (S \cup T)) = 2 ^ (m + n)
  BY <1>1, <1>2, <1>4, PowerIsCount
<1>8. Cardinality((SUBSET S) \X (SUBSET T)) = 2 ^ m * 2 ^ n
  BY <1>7, FS_Product
<1>9. Cardinality((SUBSET S) \X (SUBSET T)) = Cardinality(SUBSET (S \cup T))
  BY <1>6, <1>7, FS_Bijection
<1> QED
  BY <1>7, <1>8, <1>9

\* The powers that are written as numbers.
LEMMA SmallPowers == 2 ^ 0 = 1 /\ 2 ^ 1 = 2 /\ 2 ^ 3 = 8
<1>1. 2 ^ 0 = 1
  <2>1. IsFiniteSet({}) /\ Cardinality({}) = 0
    BY FS_EmptySet
  <2>2. Cardinality(SUBSET {}) = 2 ^ 0
    BY <2>1, PowerIsCount
  <2>3. SUBSET {} = {{}}
    OBVIOUS
  <2> QED
    BY <2>2, <2>3, FS_Singleton
<1>2. 2 ^ 1 = 2
  <2>1. IsFiniteSet({1}) /\ Cardinality({1}) = 1
    BY FS_Singleton
  <2>2. Cardinality(SUBSET {1}) = 2 ^ 1
    BY <2>1, PowerIsCount
  <2>3. SUBSET {1} = {{}} \cup {{1}}
    OBVIOUS
  <2>4. IsFiniteSet({{}}) /\ Cardinality({{}}) = 1 /\ {1} \notin {{}}
    BY FS_Singleton
  <2>5. Cardinality({{}} \cup {{1}}) =
          IF {1} \in {{}} THEN Cardinality({{}}) ELSE Cardinality({{}}) + 1
    BY <2>4, FS_AddElement
  <2> QED
    BY <2>2, <2>3, <2>4, <2>5
<1>3. 2 ^ (1 + 1) = 2 * 2 /\ 2 ^ ((1 + 1) + 1) = 2 ^ (1 + 1) * 2
  BY <1>2, PowerAdds
<1>4. 1 + 1 = 2 /\ 2 + 1 = 3
  OBVIOUS
<1> QED
  BY <1>1, <1>2, <1>3, <1>4

\* One more doubles.
LEMMA PowerDoubles == ASSUME NEW n \in Nat PROVE 2 ^ (n + 1) = 2 * 2 ^ n
<1>1. 2 ^ (n + 1) = 2 ^ n * 2 ^ 1
  BY PowerAdds, 1 \in Nat
<1>2. 2 ^ n \in Nat
  BY PowerType
<1> QED
  BY <1>1, <1>2, SmallPowers

\* A larger exponent gives a larger power.
LEMMA PowersGrow ==
  ASSUME NEW m \in Nat, NEW n \in Nat, m <= n
  PROVE  2 ^ m <= 2 ^ n
<1>1. n - m \in Nat /\ n = m + (n - m)
  OBVIOUS
<1>2. 2 ^ n = 2 ^ m * 2 ^ (n - m)
  BY <1>1, PowerAdds
<1>3. 2 ^ m \in Nat /\ 2 ^ (n - m) \in Nat \ {0}
  BY <1>1, PowerType
<1>4. \A u \in Nat, v \in Nat \ {0} : u <= u * v
  OBVIOUS
<1> QED
  BY <1>2, <1>3, <1>4

-----------------------------------------------------------------------------
(* PowerOfTwo(e) is Up(e) / Down(e): one of the two is 1.                    *)

Up(e) == IF e >= 0 THEN 2 ^ e ELSE 1
Down(e) == IF e >= 0 THEN 1 ELSE 2 ^ (-e)

\* PowerOfTwo is a fraction of two positive numbers.
LEMMA UpDown ==
  ASSUME NEW e \in Int
  PROVE  /\ Up(e) \in Nat \ {0} /\ Down(e) \in Nat \ {0}
         /\ PowerOfTwo(e) = <<Up(e), Down(e)>>
<1>1. CASE e >= 0
  BY <1>1, PowerType DEF Up, Down, PowerOfTwo
<1>2. CASE ~(e >= 0)
  <2>1. -e \in Nat
    BY <1>2
  <2> QED
    BY <1>2, <2>1, PowerType DEF Up, Down, PowerOfTwo
<1> QED
  BY <1>1, <1>2

\* Exponents add.
LEMMA Shift ==
  ASSUME NEW e \in Int, NEW m \in Nat
  PROVE  Up(e + m) * Down(e) = 2 ^ m * (Up(e) * Down(e + m))
<1>0. 2 ^ m \in Nat
  BY PowerType
<1>1. CASE e >= 0
  <2>1. e \in Nat /\ e + m >= 0
    BY <1>1
  <2>2. 2 ^ (e + m) = 2 ^ e * 2 ^ m /\ 2 ^ e \in Nat /\ 2 ^ (e + m) \in Nat
    BY <2>1, PowerAdds, PowerType
  <2> QED
    BY <1>0, <1>1, <2>1, <2>2 DEF Up, Down
<1>2. CASE e < 0 /\ e + m >= 0
  <2>1. -e \in Nat /\ e + m \in Nat /\ (e + m) + (-e) = m
    BY <1>2
  <2>2. 2 ^ m = 2 ^ (e + m) * 2 ^ (-e)
    BY <2>1, PowerAdds
  <2>3. ~(e >= 0) /\ 2 ^ (e + m) \in Nat /\ 2 ^ (-e) \in Nat
    BY <1>2, <2>1, PowerType
  <2> QED
    BY <1>0, <1>2, <2>2, <2>3 DEF Up, Down
<1>3. CASE e + m < 0
  <2>1. -e \in Nat /\ -(e + m) \in Nat /\ m + (-(e + m)) = -e
    BY <1>3
  <2>2. 2 ^ (-e) = 2 ^ m * 2 ^ (-(e + m))
    BY <2>1, PowerAdds
  <2>3. ~(e >= 0) /\ ~(e + m >= 0) /\ 2 ^ (-(e + m)) \in Nat /\ 2 ^ (-e) \in Nat
    BY <1>3, <2>1, PowerType
  <2> QED
    BY <1>0, <2>2, <2>3 DEF Up, Down
<1> QED
  BY <1>1, <1>2, <1>3

-----------------------------------------------------------------------------
(* The exponent of a rounded number. *)

\* A set of natural numbers that is not empty has a least element: among the
\* intervals below its elements one contains no other.
LEMMA Least ==
  ASSUME NEW T, T \subseteq Nat, T # {}
  PROVE  \E n \in T : \A m \in T : n <= m
<1> DEFINE Below == {0 .. n : n \in T}
           R == StrictSubsetOrdering(Nat)
<1>1. IsWellFoundedOn(R, FiniteSubsetsOf(Nat))
  BY FS_StrictSubsetOrderingWellFounded
<1>2. Below \subseteq FiniteSubsetsOf(Nat)
  <2> SUFFICES ASSUME NEW n \in T PROVE 0 .. n \in FiniteSubsetsOf(Nat)
    OBVIOUS
  <2>1. n \in Int /\ 0 \in Int
    OBVIOUS
  <2>2. IsFiniteSet(0 .. n)
    BY <2>1, FS_Interval
  <2> QED
    BY <2>2 DEF FiniteSubsetsOf
<1>3. PICK s \in Below : \A t \in Below : ~(<<t, s>> \in R)
  <2>1. Below # {}
    OBVIOUS
  <2> HIDE DEF Below, R
  <2> QED
    BY <1>1, <1>2, <2>1, WFMin
<1>4. PICK n \in T : s = 0 .. n
  OBVIOUS
<1>5. ASSUME NEW m \in T, m < n PROVE FALSE
  <2>1. 0 .. m \in SUBSET Nat /\ 0 .. n \in SUBSET Nat
    OBVIOUS
  <2>2. 0 .. m \subseteq 0 .. n /\ 0 .. m # 0 .. n
    BY <1>5
  <2>3. <<0 .. m, 0 .. n>> \in R
    BY <2>1, <2>2 DEF StrictSubsetOrdering
  <2> QED
    BY <2>3, <1>3, <1>4
<1> QED
  BY <1>5

\* The fractions whose exponent Round finds.
InRange(a, b, bits) ==
    /\ a \in Nat \ {0} /\ b \in Nat \ {0}
    /\ b <= a * 2 ^ bits /\ a <= b * 2 ^ (2 * bits)

Fits(a, b, bits, e) ==
    /\ e \in -2 * bits .. 2 * bits
    /\ AtLeast(<<a, b>>, PowerOfTwo(e + bits - 1))
    /\ ~AtLeast(<<a, b>>, PowerOfTwo(e + bits))

\* A positive factor keeps an order.
LEMMA Scaled ==
  ASSUME NEW x \in Int, NEW y \in Int, NEW c \in Nat \ {0}
  PROVE  (x * c <= y * c <=> x <= y) /\ (x * c < y * c <=> x < y)
<1>1. x <= y => x * c <= y * c
  OBVIOUS
<1>2. x < y => x * c < y * c
  OBVIOUS
<1>3. y < x => y * c < x * c
  OBVIOUS
<1>4. y <= x => y * c <= x * c
  OBVIOUS
<1>5. x * c \in Int /\ y * c \in Int
  OBVIOUS
<1> QED
  BY <1>1, <1>2, <1>3, <1>4, <1>5

\* Which power of two a fraction reaches, decided on natural numbers.
LEMMA Reaches ==
  ASSUME NEW a \in Nat, NEW b \in Nat, NEW bits \in Nat \ {0}, NEW m \in Nat
  PROVE  AtLeast(<<a, b>>, PowerOfTwo(m - bits)) <=> b * 2 ^ m <= a * 2 ^ bits
<1> DEFINE U == Up(-bits + m)
           D == Down(-bits + m)
           M == 2 ^ m
           H == 2 ^ bits
<1>1. -bits \in Int /\ -bits + m \in Int /\ -bits + m = m - bits /\ ~(-bits >= 0) /\ -(-bits) = bits
  OBVIOUS
<1>2. U \in Nat \ {0} /\ D \in Nat \ {0} /\ PowerOfTwo(m - bits) = <<U, D>>
  BY <1>1, UpDown
<1>3. M \in Nat /\ H \in Nat \ {0}
  BY PowerType
<1>4. Up(-bits) = 1 /\ Down(-bits) = H
  BY <1>1 DEF Up, Down
<1>5. U * H = M * (1 * D)
  BY <1>1, <1>4, Shift
<1> HIDE DEF U, D, M, H
<1>6. AtLeast(<<a, b>>, PowerOfTwo(m - bits)) <=> U * b <= a * D
  BY <1>2 DEF AtLeast
<1>7. U * b <= a * D <=> (U * b) * H <= (a * D) * H
  BY <1>2, <1>3, Scaled, U * b \in Int, a * D \in Int
<1>8. (U * b) * H = (b * M) * D /\ (a * D) * H = (a * H) * D
  BY <1>2, <1>3, <1>5
<1>9. (b * M) * D <= (a * H) * D <=> b * M <= a * H
  BY <1>2, <1>3, Scaled, b * M \in Int, a * H \in Int
<1> QED
  BY <1>6, <1>7, <1>8, <1>9 DEF M, H

\* Every such fraction has an exponent.
LEMMA ExponentExists ==
  ASSUME NEW bits \in Nat \ {0}, NEW a, NEW b, InRange(a, b, bits)
  PROVE  \E e \in Int : Fits(a, b, bits, e)
<1> DEFINE H == 2 ^ bits
           Q == 2 ^ (2 * bits)
           T == {j \in Nat : a * H < b * 2 ^ j}
<1>1. a \in Nat /\ a > 0 /\ b \in Nat /\ b > 0 /\ b <= a * H /\ a <= b * Q
  BY DEF InRange
<1>2. H \in Nat /\ H > 0 /\ Q \in Nat
  BY PowerType, 2 * bits \in Nat
<1>3. 3 * bits + 1 \in T
  <2>1. 2 * bits \in Nat /\ 3 * bits \in Nat /\ 2 * bits + bits = 3 * bits
    OBVIOUS
  <2>2. 2 ^ (3 * bits + 1) = 2 * (Q * H)
    BY <2>1, PowerAdds, PowerDoubles
  <2> HIDE DEF H, Q
  <2>3. a * H <= (b * Q) * H
    BY <1>1, <1>2, Scaled, a \in Int, b * Q \in Int, H \in Nat \ {0}
  <2>4. b * (2 * (Q * H)) = 2 * ((b * Q) * H) /\ a * H \in Nat /\ a * H > 0 /\ (b * Q) * H \in Nat
    BY <1>1, <1>2
  <2>5. a * H < b * (2 * (Q * H))
    BY <2>3, <2>4
  <2> QED
    BY <2>1, <2>2, <2>5
<1>4. PICK j \in T : \A k \in T : j <= k
  <2>1. T \subseteq Nat /\ T # {}
    BY <1>3
  <2> HIDE DEF T
  <2> QED
    BY <2>1, Least
<1>5. j # 0
  <2>1. a * H < b * 2 ^ j
    OBVIOUS
  <2> HIDE DEF T
  <2>2. ASSUME j = 0 PROVE FALSE
    <3>1. a * H < b * 1
      BY <2>1, <2>2, SmallPowers
    <3> HIDE DEF H
    <3> QED
      BY <1>1, <1>2, <3>1
  <2> QED
    BY <2>2
<1>6. j \in Nat /\ j - 1 \in Nat /\ j <= 3 * bits + 1 /\ j - 1 \notin T
  BY <1>3, <1>4, <1>5
<1>7. ~(b * 2 ^ j <= a * H) /\ b * 2 ^ (j - 1) <= a * H
  <2>1. 2 ^ (j - 1) \in Nat /\ 2 ^ j \in Nat
    BY <1>6, PowerType
  <2>2. b * 2 ^ (j - 1) \in Nat /\ b * 2 ^ j \in Nat /\ a * H \in Nat
    BY <1>1, <1>2, <2>1
  <2> QED
    BY <1>4, <1>6, <2>2
<1>8. /\ AtLeast(<<a, b>>, PowerOfTwo((j - 1) - bits))
      /\ ~AtLeast(<<a, b>>, PowerOfTwo(j - bits))
  BY <1>1, <1>6, <1>7, Reaches
<1> HIDE DEF T, H, Q
<1> DEFINE e == j - 2 * bits
<1>9. /\ e \in -2 * bits .. 2 * bits /\ e \in Int
      /\ e + bits - 1 = (j - 1) - bits /\ e + bits = j - bits
  BY <1>5, <1>6
<1> HIDE DEF e
<1>10. Fits(a, b, bits, e)
  BY <1>8, <1>9 DEF Fits
<1> QED
  BY <1>9, <1>10

-----------------------------------------------------------------------------
(* Rounding. *)

\* The quotient of a division with remainder.
LEMMA Quotient ==
  ASSUME NEW u \in Nat, NEW v \in Nat \ {0}
  PROVE  /\ u \div v \in Nat /\ (u \div v) * v <= u /\ u < (u \div v) * v + v
<1>1. u \div v \in Int /\ u % v \in 0 .. v - 1 /\ u = v * (u \div v) + (u % v)
  OBVIOUS
<1> DEFINE q == u \div v
<1>2. q >= 0
  <2>1. ASSUME q < 0 PROVE FALSE
    <3>1. q \in Int /\ q <= -1
      BY <1>1, <2>1
    <3>2. v * q <= -v
      BY <3>1
    <3> QED
      BY <1>1, <3>1, <3>2
  <2> QED
    BY <1>1, <2>1
<1> QED
  BY <1>1, <1>2

\* Nearest is within half a unit, and does not cross a whole number.
LEMMA Nearest ==
  ASSUME NEW u \in Nat, NEW v \in Nat \ {0},
         NEW n, n = NearestEven(<<u, v>>)
  PROVE  /\ n \in Nat /\ 2 * (n * v) <= 2 * u + v /\ 2 * u <= 2 * (n * v) + v
         /\ \A N \in Nat : N * v <= u => N <= n
         /\ \A N \in Nat : u <= N * v => n <= N
<1> DEFINE q == u \div v
           twice == 2 * (u - q * v)
<1>1. q \in Nat /\ q * v <= u /\ u < q * v + v /\ q * v \in Nat
  BY Quotient
<1>2. n = IF twice > v \/ (twice = v /\ q % 2 = 1) THEN q + 1 ELSE q
  BY DEF NearestEven, Truncated
<1> HIDE DEF q
<1>3. (q + 1) * v = q * v + v
  BY <1>1
<1>4. \/ n = q /\ twice <= v
      \/ n = q + 1 /\ twice >= v
  BY <1>1, <1>2
<1>5. n \in Nat /\ n * v \in Nat /\ (n * v = q * v \/ n * v = q * v + v)
  BY <1>1, <1>3, <1>4
<1>6. 2 * (n * v) <= 2 * u + v /\ 2 * u <= 2 * (n * v) + v
  BY <1>1, <1>3, <1>4
<1>7. ASSUME NEW N \in Nat, N * v <= u PROVE N <= n
  <2>1. ASSUME N >= q + 1 PROVE FALSE
    <3>1. (q + 1) * v <= N * v
      BY <1>1, <2>1, Scaled, N \in Int, q + 1 \in Int
    <3> QED
      BY <1>1, <1>3, <1>7, <3>1
  <2> QED
    BY <1>1, <1>4, <2>1
<1>8. ASSUME NEW N \in Nat, u <= N * v PROVE n <= N
  <2>1. CASE n = q
    <3>1. ASSUME N + 1 <= q PROVE FALSE
      <4>1. (N + 1) * v <= q * v /\ (N + 1) * v = N * v + v
        BY <1>1, <3>1, Scaled, N + 1 \in Int, q \in Int
      <4> QED
        BY <1>1, <1>8, <4>1
    <3> QED
      BY <1>1, <2>1, <3>1
  <2>2. CASE n = q + 1 /\ twice >= v
    <3>1. ASSUME N <= q PROVE FALSE
      <4>1. N * v <= q * v
        BY <1>1, <3>1, Scaled, N \in Int, q \in Int
      <4> QED
        BY <1>1, <1>8, <2>2, <4>1
    <3> QED
      BY <1>1, <2>2, <3>1
  <2> QED
    BY <1>4, <2>1, <2>2
<1> QED
  BY <1>5, <1>6, <1>7, <1>8

\* What Round computes: the multiple of the unit 2 ^ e that is nearest,
\* where the fraction is between 2 ^ (bits - 1) and 2 ^ bits units.
LEMMA Rounding ==
  ASSUME NEW bits \in Nat \ {0}, NEW a, NEW b, InRange(a, b, bits)
  PROVE  \E e \in Int :
           /\ Round(<<a, b>>, bits) =
                <<NearestEven(<<a * Down(e), b * Up(e)>>) * Up(e), Down(e)>>
           /\ 2 ^ (bits - 1) * (b * Up(e)) <= a * Down(e)
           /\ a * Down(e) < 2 ^ bits * (b * Up(e))
<1> DEFINE E == -2 * bits .. 2 * bits
           e == CHOOSE x \in E : /\ AtLeast(<<a, b>>, PowerOfTwo(x + bits - 1))
                                 /\ ~AtLeast(<<a, b>>, PowerOfTwo(x + bits))
           A == Up(e)
           B == Down(e)
           n == NearestEven(<<a * B, b * A>>)
<1>1. /\ a \in Nat /\ a > 0 /\ b \in Nat /\ b > 0
      /\ bits \in Nat /\ bits >= 1
  BY DEF InRange
<1>2. e \in E /\ /\ AtLeast(<<a, b>>, PowerOfTwo(e + bits - 1))
                 /\ ~AtLeast(<<a, b>>, PowerOfTwo(e + bits))
  <2>1. \E x \in E : /\ AtLeast(<<a, b>>, PowerOfTwo(x + bits - 1))
                     /\ ~AtLeast(<<a, b>>, PowerOfTwo(x + bits))
    BY ExponentExists DEF Fits
  <2> QED
    BY <2>1
<1>3. e \in Int
  BY <1>1, <1>2
<1>4. Round(<<a, b>>, bits) =
        Times(Whole(NearestEven(Over(<<a, b>>, PowerOfTwo(e)))), PowerOfTwo(e))
  BY <1>1 DEF Round
<1> HIDE DEF e, E
<1>5. A \in Nat \ {0} /\ B \in Nat \ {0} /\ PowerOfTwo(e) = <<A, B>>
  BY <1>3, UpDown
<1> HIDE DEF A, B
<1>6. Over(<<a, b>>, PowerOfTwo(e)) = <<a * B, b * A>>
  BY <1>5 DEF Over
<1>7. n \in Nat
  <2>1. a * B \in Nat /\ b * A \in Nat \ {0}
    BY <1>1, <1>5
  <2> QED
    BY <2>1, Nearest
<1>8. Round(<<a, b>>, bits) = Times(Whole(n), <<A, B>>)
  BY <1>4, <1>5, <1>6
<1>9. Round(<<a, b>>, bits) = <<n * A, B>>
  <2> HIDE DEF n
  <2>1. Times(Whole(n), <<A, B>>) = <<n * A, 1 * B>>
    BY DEF Times, Whole
  <2> QED
    BY <1>5, <1>8, <2>1
<1>10. 2 ^ (bits - 1) * (b * A) <= a * B
  <2> DEFINE U == Up(e + (bits - 1))
             D == Down(e + (bits - 1))
             h == 2 ^ (bits - 1)
  <2>1. e + (bits - 1) \in Int /\ e + (bits - 1) = e + bits - 1 /\ bits - 1 \in Nat
    BY <1>1, <1>3
  <2>2. U \in Nat /\ D \in Nat \ {0} /\ PowerOfTwo(e + bits - 1) = <<U, D>> /\ h \in Nat
    BY <2>1, UpDown, PowerType
  <2>3. U * B = h * (A * D)
    BY <2>1, <1>3, Shift DEF A, B
  <2> HIDE DEF U, D, h
  <2>4. U * b <= a * D
    BY <1>2, <2>2, <1>1 DEF AtLeast
  <2>5. (U * b) * B <= (a * D) * B
    <3>1. U * b \in Int /\ a * D \in Int
      BY <1>1, <2>2
    <3> QED
      BY <1>5, <2>4, <3>1, Scaled
  <2>6. (U * b) * B = (U * B) * b /\ (h * (A * D)) * b = (h * (b * A)) * D
        /\ (a * D) * B = (a * B) * D
    BY <1>1, <1>5, <2>2
  <2>7. (h * (b * A)) * D <= (a * B) * D
    BY <2>3, <2>5, <2>6
  <2>8. h * (b * A) \in Int /\ a * B \in Int
    BY <1>1, <1>5, <2>2
  <2>9. h * (b * A) <= a * B
    BY <2>2, <2>7, <2>8, Scaled
  <2> QED
    BY <2>9 DEF h
<1>11. a * B < 2 ^ bits * (b * A)
  <2> DEFINE U == Up(e + bits)
             D == Down(e + bits)
             h == 2 ^ bits
  <2>1. e + bits \in Int
    BY <1>1, <1>3
  <2>2. U \in Nat /\ D \in Nat \ {0} /\ PowerOfTwo(e + bits) = <<U, D>> /\ h \in Nat
    BY <1>1, <2>1, UpDown, PowerType
  <2>3. U * B = h * (A * D)
    BY <1>1, <1>3, Shift DEF A, B
  <2> HIDE DEF U, D, h
  <2>4. a * D < U * b
    BY <1>2, <2>2, <1>1 DEF AtLeast
  <2>5. (a * D) * B < (U * b) * B
    <3>1. U * b \in Int /\ a * D \in Int
      BY <1>1, <2>2
    <3> QED
      BY <1>5, <2>4, <3>1, Scaled
  <2>6. (U * b) * B = (U * B) * b /\ (h * (A * D)) * b = (h * (b * A)) * D
        /\ (a * D) * B = (a * B) * D
    BY <1>1, <1>5, <2>2
  <2>7. (a * B) * D < (h * (b * A)) * D
    BY <2>3, <2>5, <2>6
  <2>8. h * (b * A) \in Int /\ a * B \in Int
    BY <1>1, <1>5, <2>2
  <2>9. a * B < h * (b * A)
    BY <2>2, <2>7, <2>8, Scaled
  <2> QED
    BY <2>9 DEF h
<1> QED
  BY <1>3, <1>9, <1>10, <1>11 DEF A, B, n

\* A fraction with denominator 2 ^ k is a multiple of the unit 2 ^ e, or the
\* unit is at least twice as coarse.
LEMMA Grid ==
  ASSUME NEW e \in Int, NEW k \in Nat
  PROVE  \/ Up(e) = 1 /\ \E B \in Nat \ {0} : Down(e) = 2 ^ k * B
         \/ 2 * Down(e) <= Up(e) * 2 ^ k
<1>0. 2 ^ k \in Nat \ {0}
  BY PowerType
<1>1. CASE e + k <= 0
  <2>1. CASE e < 0
    <3>1. -e \in Nat /\ -(e + k) \in Nat /\ k + (-(e + k)) = -e /\ ~(e >= 0)
      BY <1>1, <2>1
    <3>2. 2 ^ (-e) = 2 ^ k * 2 ^ (-(e + k)) /\ 2 ^ (-(e + k)) \in Nat \ {0}
      BY <3>1, PowerAdds, PowerType
    <3>3. Up(e) = 1 /\ Down(e) = 2 ^ k * 2 ^ (-(e + k))
      BY <3>1, <3>2 DEF Up, Down
    <3> QED
      BY <3>2, <3>3
  <2>2. CASE ~(e < 0)
    <3>1. e = 0 /\ k = 0
      BY <1>1, <2>2
    <3>2. Up(0) = 2 ^ 0 /\ Down(0) = 1
      BY DEF Up, Down
    <3>3. Up(e) = 1 /\ Down(e) = 2 ^ k * 1 /\ 1 \in Nat \ {0}
      BY <3>1, <3>2, SmallPowers
    <3> QED
      BY <3>3
  <2> QED
    BY <2>1, <2>2
<1>2. CASE ~(e + k <= 0)
  <2>1. e + k \in Nat /\ 1 <= e + k /\ 1 \in Nat
    BY <1>2
  <2>2. 2 <= 2 ^ (e + k) /\ 2 ^ (e + k) \in Nat
    BY <2>1, PowersGrow, PowerType, SmallPowers
  <2>3. CASE e >= 0
    <3>1. Up(e) = 2 ^ e /\ Down(e) = 1 /\ e \in Nat
      BY <2>3 DEF Up, Down
    <3>2. 2 ^ (e + k) = 2 ^ e * 2 ^ k
      BY <3>1, PowerAdds
    <3> QED
      BY <2>2, <3>1, <3>2
  <2>4. CASE ~(e >= 0)
    <3>1. Up(e) = 1 /\ Down(e) = 2 ^ (-e) /\ -e \in Nat /\ (-e) + (e + k) = k
      BY <2>4 DEF Up, Down
    <3>2. 2 ^ k = 2 ^ (-e) * 2 ^ (e + k) /\ 2 ^ (-e) \in Nat
      BY <2>1, <3>1, PowerAdds, PowerType
    <3>3. \A x, y \in Nat : 2 <= y => 2 * x <= x * y
      OBVIOUS
    <3>4. 2 * 2 ^ (-e) <= 2 ^ (-e) * 2 ^ (e + k)
      BY <2>2, <3>2, <3>3
    <3> QED
      BY <1>0, <3>1, <3>2, <3>4
  <2> QED
    BY <2>3, <2>4
<1> QED
  BY <1>1, <1>2

\* c / d is the number of that many bits nearest to a / b: its relative error is at most
\* 2 ^ -bits; below 2 ^ bits it is off by at most a half; it is on the
\* same side of every whole number, half, quarter and so on that it can
\* represent; and a large one is whole.
Near(a, b, c, d, bits) ==
    /\ 2 ^ bits * (c * b) <= 2 ^ bits * (a * d) + a * d
    /\ 2 ^ bits * (a * d) <= 2 ^ bits * (c * b) + a * d
    /\ a < b * 2 ^ bits =>
         2 * (c * b) <= 2 * (a * d) + b * d /\ 2 * (a * d) <= 2 * (c * b) + b * d
    /\ \A k, N \in Nat : N <= 2 ^ bits /\ N * b <= a * 2 ^ k => N * d <= c * 2 ^ k
    /\ \A k, N \in Nat : N < 2 ^ bits /\ a * 2 ^ k <= N * b => c * 2 ^ k <= N * d
    /\ b * 2 ^ (bits - 1) <= a => d = 1

\* Every fraction in range has such a neighbour, and Round returns it.
THEOREM Rounded ==
  ASSUME NEW bits \in Nat \ {0}, NEW a, NEW b, InRange(a, b, bits)
  PROVE  \E c \in Nat, d \in Nat \ {0} :
           Round(<<a, b>>, bits) = <<c, d>> /\ Near(a, b, c, d, bits)
<1> DEFINE h == 2 ^ (bits - 1)
           H == 2 ^ bits
<1>1. /\ a \in Nat /\ a > 0 /\ b \in Nat /\ b > 0
      /\ bits \in Nat /\ bits - 1 \in Nat /\ (bits - 1) + 1 = bits
  BY DEF InRange
<1>2. h \in Nat /\ h > 0 /\ H = 2 * h
  BY <1>1, PowerType, PowerDoubles
<1>3. PICK e \in Int :
        /\ Round(<<a, b>>, bits) =
             <<NearestEven(<<a * Down(e), b * Up(e)>>) * Up(e), Down(e)>>
        /\ h * (b * Up(e)) <= a * Down(e) /\ a * Down(e) < H * (b * Up(e))
  BY Rounding
<1> HIDE DEF h, H
<1> DEFINE A == Up(e)
           B == Down(e)
           u == a * B
           v == b * A
           n == NearestEven(<<u, v>>)
<1>4. A \in Nat /\ A > 0 /\ B \in Nat /\ B > 0
  BY UpDown
<1> HIDE DEF A, B
<1>5. u \in Nat /\ v \in Nat \ {0} /\ v > 0
  BY <1>1, <1>4
<1>6. Round(<<a, b>>, bits) = <<n * A, B>> /\ h * v <= u /\ u < H * v
  BY <1>3 DEF A, B
<1>7. /\ n \in Nat /\ 2 * (n * v) <= 2 * u + v /\ 2 * u <= 2 * (n * v) + v
      /\ \A N \in Nat : N * v <= u => N <= n
      /\ \A N \in Nat : u <= N * v => n <= N
  <2> HIDE DEF u, v, n
  <2>1. n = NearestEven(<<u, v>>)
    BY DEF n
  <2> QED
    BY <1>5, <2>1, Nearest
<1> HIDE DEF n
<1>8. (n * A) * b = n * v /\ a * B = u
  BY <1>1, <1>4, <1>7
<1>9. h <= n
  BY <1>2, <1>6, <1>7
<1> HIDE DEF u, v
<1>10. h * (n * v) \in Int /\ h * u \in Int /\ h * v \in Int /\ n * v \in Nat
  BY <1>2, <1>5, <1>7
<1>11. H * (n * v) <= H * u + u /\ H * u <= H * (n * v) + u
  <2>1. h * (2 * (n * v)) <= h * (2 * u + v) /\ h * (2 * u) <= h * (2 * (n * v) + v)
    <3>1. \A x, y \in Int : x <= y => h * x <= h * y
      BY <1>2
    <3>2. 2 * (n * v) \in Int /\ 2 * u + v \in Int /\ 2 * u \in Int /\ 2 * (n * v) + v \in Int
      BY <1>5, <1>10
    <3> QED
      BY <1>7, <3>1, <3>2
  <2>2. /\ h * (2 * (n * v)) = H * (n * v) /\ h * (2 * u + v) = H * u + h * v
        /\ h * (2 * u) = H * u /\ h * (2 * (n * v) + v) = H * (n * v) + h * v
    BY <1>2, <1>5, <1>10
  <2>3. H * (n * v) \in Int /\ H * u \in Int
    BY <1>2, <1>5, <1>10
  <2> QED
    BY <1>5, <1>6, <1>10, <2>1, <2>2, <2>3
<1>12. ASSUME a < b * H PROVE v <= b * B
  <2>1. CASE e >= 1
    <3>1. A = 2 ^ e /\ B = 1 /\ e \in Nat /\ 1 \in Nat
      BY <2>1 DEF A, B, Up, Down
    <3>2. 2 <= A
      BY <2>1, <3>1, PowersGrow, SmallPowers
    <3>3. b * 2 <= b * A
      BY <1>1, <1>4, <3>2
    <3>4. h * (b * 2) <= h * v
      <4>1. \A x, y \in Int : x <= y => h * x <= h * y
        BY <1>2
      <4> QED
        BY <1>1, <1>4, <3>3, <4>1 DEF v
    <3>5. h * (b * 2) = b * H /\ u = a
      BY <1>1, <1>2, <3>1 DEF u
    <3> QED
      BY <1>1, <1>2, <1>6, <1>10, <1>12, <3>4, <3>5
  <2>2. CASE ~(e >= 1)
    <3>1. A = 1
      <4>1. Up(0) = 1
        BY SmallPowers DEF Up
      <4>2. CASE e = 0
        BY <4>1, <4>2 DEF A
      <4>3. CASE e # 0
        BY <2>2, <4>3 DEF A, Up
      <4> QED
        BY <4>2, <4>3
    <3> QED
      BY <1>1, <1>4, <3>1 DEF v
  <2> QED
    BY <2>1, <2>2
<1>13. ASSUME NEW k \in Nat, NEW N \in Nat
       PROVE  /\ N <= H /\ N * b <= a * 2 ^ k => N * B <= (n * A) * 2 ^ k
              /\ N < H /\ a * 2 ^ k <= N * b => (n * A) * 2 ^ k <= N * B
  <2> DEFINE K == 2 ^ k
  <2>1. K \in Nat /\ K > 0
    BY PowerType
  <2>2. \/ A = 1 /\ \E F \in Nat \ {0} : B = K * F
        \/ 2 * B <= A * K
    BY Grid DEF A, B
  <2> HIDE DEF K
  <2>3. CASE A = 1 /\ \E F \in Nat \ {0} : B = K * F
    <3>1. PICK F \in Nat \ {0} : B = K * F
      BY <2>3
    <3>2. N * F \in Nat /\ v = b /\ u = (a * K) * F /\ (N * b) * F = (N * F) * v
          /\ N * B = (N * F) * K /\ (n * A) * K = n * K
      BY <1>1, <1>7, <2>1, <2>3, <3>1 DEF u, v
    <3>3. a * K \in Int /\ N * b \in Int
      BY <1>1, <2>1
    <3>4. ASSUME N * b <= a * K PROVE N * B <= (n * A) * K
      <4>1. (N * F) * v <= u
        BY <3>2, <3>3, <3>4, Scaled
      <4>2. N * F <= n
        BY <1>7, <3>2, <4>1
      <4> QED
        BY <1>7, <2>1, <3>2, <4>2, Scaled
    <3>5. ASSUME a * K <= N * b PROVE (n * A) * K <= N * B
      <4>1. u <= (N * F) * v
        BY <3>2, <3>3, <3>5, Scaled
      <4>2. n <= N * F
        BY <1>7, <3>2, <4>1
      <4> QED
        BY <1>7, <2>1, <3>2, <4>2, Scaled
    <3> QED
      BY <3>4, <3>5 DEF K
  <2>4. CASE 2 * B <= A * K
    <3>1. ASSUME N <= H PROVE N * B <= (n * A) * K
      <4>1. N * B <= H * B /\ H * B = h * (2 * B)
        BY <1>2, <1>4, <3>1, Scaled
      <4>2. h * (2 * B) <= h * (A * K) /\ A * K \in Nat
        <5>1. \A x, y \in Int : x <= y => h * x <= h * y
          BY <1>2
        <5> QED
          BY <1>4, <2>1, <2>4, <5>1
      <4>3. h * (A * K) <= n * (A * K)
        BY <1>2, <1>7, <1>9, <4>2
      <4>4. (n * A) * K = n * (A * K)
        BY <1>4, <1>7, <2>1
      <4>5. N * B \in Int /\ h * (2 * B) \in Int /\ h * (A * K) \in Int /\ n * (A * K) \in Int
        BY <1>2, <1>4, <1>7, <4>2
      <4> QED
        BY <4>1, <4>2, <4>3, <4>4, <4>5
    <3>2. ASSUME N < H, a * K <= N * b PROVE FALSE
      <4>1. (h * v) * K <= u * K
        BY <1>5, <1>6, <1>10, <2>1, Scaled
      <4>2. u * K = (a * K) * B /\ (h * v) * K = (h * b) * (A * K)
        BY <1>1, <1>2, <1>4, <2>1 DEF u, v
      <4>3. (a * K) * B <= (N * b) * B
        BY <1>1, <1>4, <2>1, <3>2, Scaled, a * K \in Int, N * b \in Int
      <4>4. (h * b) * (2 * B) <= (h * b) * (A * K)
        <5>1. h * b \in Nat /\ 2 * B \in Int /\ A * K \in Int
          BY <1>1, <1>2, <1>4, <2>1
        <5>2. \A x \in Nat, y, z \in Int : y <= z => x * y <= x * z
          OBVIOUS
        <5> QED
          BY <2>4, <5>1, <5>2
      <4>5. (h * b) * (2 * B) = H * (b * B) /\ (N * b) * B = N * (b * B) /\ b * B \in Nat \ {0}
        BY <1>1, <1>2, <1>4
      <4>6. N * (b * B) < H * (b * B)
        BY <1>2, <3>2, <4>5, Scaled, N \in Int, H \in Int
      <4>7. /\ u * K \in Int /\ (h * v) * K \in Int /\ N * (b * B) \in Int /\ H * (b * B) \in Int
        BY <1>2, <1>5, <1>10, <2>1, <4>5
      <4> QED
        BY <4>1, <4>2, <4>3, <4>4, <4>5, <4>6, <4>7
    <3> QED
      BY <3>1, <3>2 DEF K
  <2> QED
    BY <2>2, <2>3, <2>4
<1>14. ASSUME b * h <= a PROVE B = 1
  <2>1. ASSUME e < 0 PROVE FALSE
    <3>1. -e \in Nat /\ 1 <= -e /\ 1 \in Nat /\ A = 1 /\ B = 2 ^ (-e)
      BY <2>1 DEF A, B, Up, Down
    <3>2. 2 <= B
      BY <3>1, PowersGrow, SmallPowers
    <3>3. a * 2 <= a * B /\ u = a * B /\ H * v = 2 * (b * h)
      BY <1>1, <1>2, <1>4, <3>1, <3>2 DEF u, v
    <3>4. b * h \in Int /\ a * B \in Int
      BY <1>1, <1>2, <1>4
    <3> QED
      BY <1>1, <1>6, <1>14, <3>3, <3>4
  <2> QED
    BY <2>1 DEF B, Down
<1>15. Near(a, b, n * A, B, bits)
  <2>1. /\ H * ((n * A) * b) <= H * (a * B) + a * B
        /\ H * (a * B) <= H * ((n * A) * b) + a * B
    BY <1>8, <1>11
  <2>2. a < b * H => /\ 2 * ((n * A) * b) <= 2 * (a * B) + b * B
                     /\ 2 * (a * B) <= 2 * ((n * A) * b) + b * B
    BY <1>1, <1>4, <1>5, <1>7, <1>8, <1>10, <1>12
  <2> QED
    BY <1>13, <1>14, <2>1, <2>2 DEF Near, h, H
<1> QED
  BY <1>4, <1>6, <1>7, <1>15

\* A rounded number is on the same side of a whole number, a half or an eighth.
LEMMA Sides ==
  ASSUME NEW bits \in Nat \ {0},
         NEW a \in Nat, NEW b \in Nat, NEW c \in Nat, NEW d \in Nat, Near(a, b, c, d, bits),
         NEW N \in Nat
  PROVE  /\ N <= 2 ^ bits /\ N * b <= a => N * d <= c
         /\ N < 2 ^ bits /\ a <= N * b => c <= N * d
         /\ N <= 2 ^ bits /\ N * b <= 2 * a => N * d <= 2 * c
         /\ N < 2 ^ bits /\ 2 * a <= N * b => 2 * c <= N * d
         /\ N <= 2 ^ bits /\ N * b <= 8 * a => N * d <= 8 * c
         /\ N < 2 ^ bits /\ 8 * a <= N * b => 8 * c <= N * d
<1>1. ASSUME NEW k \in Nat, NEW K \in Nat, 2 ^ k = K
      PROVE  /\ N <= 2 ^ bits /\ N * b <= K * a => N * d <= K * c
             /\ N < 2 ^ bits /\ K * a <= N * b => K * c <= N * d
  <2>1. a * 2 ^ k = K * a /\ c * 2 ^ k = K * c
    BY <1>1
  <2> QED
    BY <2>1 DEF Near
<1>2. 2 ^ 0 = 1 /\ 2 ^ 1 = 2 /\ 2 ^ 3 = 8
  BY SmallPowers
<1>3. 1 * a = a /\ 1 * c = c /\ 0 \in Nat /\ 1 \in Nat /\ 2 \in Nat /\ 3 \in Nat /\ 8 \in Nat
  OBVIOUS
<1>4. /\ N <= 2 ^ bits /\ N * b <= a => N * d <= c
      /\ N < 2 ^ bits /\ a <= N * b => c <= N * d
  BY <1>1, <1>2, <1>3
<1>5. /\ N <= 2 ^ bits /\ N * b <= 2 * a => N * d <= 2 * c
      /\ N < 2 ^ bits /\ 2 * a <= N * b => 2 * c <= N * d
  BY <1>1, <1>2, <1>3
<1>6. /\ N <= 2 ^ bits /\ N * b <= 8 * a => N * d <= 8 * c
      /\ N < 2 ^ bits /\ 8 * a <= N * b => 8 * c <= N * d
  BY <1>1, <1>2, <1>3
<1> QED
  BY <1>4, <1>5, <1>6

\* c / d is a / b but for k roundings: each moves a number by at most 1 in
\* 2 ^ bits, up or down.
Within(a, b, c, d, k, bits) ==
    /\ (2 ^ bits - k) * (a * d) <= 2 ^ bits * (c * b)
    /\ (2 ^ bits - k) * (c * b) <= 2 ^ bits * (a * d)

\* The number nearest to a fraction is within one rounding of it.
LEMMA NearIsWithin ==
  ASSUME NEW bits \in Nat, NEW a \in Nat, NEW b \in Nat, NEW c \in Nat, NEW d \in Nat,
         Near(a, b, c, d, bits)
  PROVE  Within(a, b, c, d, 1, bits)
<1> DEFINE H == 2 ^ bits
           x == a * d
           y == c * b
<1>1. H \in Nat /\ H >= 1 /\ x \in Nat /\ y \in Nat
  BY PowerType
<1>2. H * y <= H * x + x /\ H * x <= H * y + x
  BY DEF Near
<1> HIDE DEF H, x, y
<1>3. (H - 1) * x <= H * y
  <2>1. (H - 1) * x = H * x - x /\ H * x \in Int /\ H * y \in Int
    BY <1>1
  <2> QED
    BY <1>1, <1>2, <2>1
<1>4. (H - 1) * y <= H * x
  <2>1. (H - 1) * (H * y) <= (H - 1) * (H * x + x)
    <3>1. H - 1 \in Nat /\ H * y \in Int /\ H * x + x \in Int
      BY <1>1
    <3>2. \A k \in Nat, u, v \in Int : u <= v => k * u <= k * v
      OBVIOUS
    <3> QED
      BY <1>2, <3>1, <3>2
  <2>2. (H - 1) * (H * x + x) = (H * x) * H - x
    BY <1>1
  <2>3. (H - 1) * (H * y) = ((H - 1) * y) * H
    BY <1>1
  <2>4. ((H - 1) * y) * H <= (H * x) * H
    <3>1. (H * x) * H \in Int /\ ((H - 1) * y) * H \in Int
      BY <1>1
    <3> QED
      BY <1>1, <2>1, <2>2, <2>3, <3>1
  <2> QED
    BY <1>1, <2>4, Scaled, (H - 1) * y \in Int, H * x \in Int, H \in Nat \ {0}
<1> QED
  BY <1>3, <1>4 DEF Within, H, x, y

\* What roundings lose adds up; what they gain is the same, of the inverse.
LEMMA LossesAddUp ==
  ASSUME NEW H \in Nat, NEW k \in Nat, k + 1 <= H,
         NEW a \in Nat, NEW b \in Nat, NEW c \in Nat, NEW d \in Nat \ {0},
         NEW e \in Nat, NEW f \in Nat,
         (H - k) * (a * d) <= H * (c * b), (H - 1) * (c * f) <= H * (e * d)
  PROVE  (H - (k + 1)) * (a * f) <= H * (e * b)
<1>1. H - k \in Nat /\ H - 1 \in Nat /\ H - (k + 1) \in Nat
  OBVIOUS
<1>2. ((H - k) * (a * d)) * ((H - 1) * f) <= (H * (c * b)) * ((H - 1) * f)
  <2>1. (H - k) * (a * d) \in Int /\ H * (c * b) \in Int /\ (H - 1) * f \in Nat
    BY <1>1
  <2>2. \A z \in Nat, u, v \in Int : u <= v => u * z <= v * z
    OBVIOUS
  <2> QED
    BY <2>1, <2>2
<1>3. ((H - 1) * (c * f)) * (H * b) <= (H * (e * d)) * (H * b)
  <2>1. (H - 1) * (c * f) \in Int /\ H * (e * d) \in Int /\ H * b \in Nat
    BY <1>1
  <2>2. \A z \in Nat, u, v \in Int : u <= v => u * z <= v * z
    OBVIOUS
  <2> QED
    BY <2>1, <2>2
<1> DEFINE x == a * f
           y == e * b
           K == H - k
           L == H - 1
<1>4. K \in Nat /\ L \in Nat /\ x \in Nat /\ y \in Nat
  BY <1>1
<1>5. /\ ((H - k) * (a * d)) * ((H - 1) * f) = ((K * L) * x) * d
      /\ (H * (c * b)) * ((H - 1) * f) = ((H - 1) * (c * f)) * (H * b)
      /\ (H * (e * d)) * (H * b) = ((H * H) * y) * d
  <2>1. ((H - k) * (a * d)) * ((H - 1) * f) = ((K * L) * x) * d
    <3> HIDE DEF K, L
    <3>1. (K * (a * d)) * (L * f) = ((K * L) * (a * f)) * d
      BY <1>4
    <3> QED
      BY <3>1 DEF K, L
  <2>2. (H * (c * b)) * ((H - 1) * f) = ((H - 1) * (c * f)) * (H * b)
    <3> HIDE DEF L
    <3>1. (H * (c * b)) * (L * f) = (L * (c * f)) * (H * b)
      BY <1>4
    <3> QED
      BY <3>1 DEF L
  <2>3. (H * (e * d)) * (H * b) = ((H * H) * (e * b)) * d
    OBVIOUS
  <2> QED
    BY <2>1, <2>2, <2>3
<1> HIDE DEF x, y
<1>6. ((K * L) * x) * d <= ((H * H) * y) * d
  <2>1. /\ ((H - k) * (a * d)) * ((H - 1) * f) \in Int
        /\ ((H - 1) * (c * f)) * (H * b) \in Int
        /\ (H * (e * d)) * (H * b) \in Int
    BY <1>1
  <2> HIDE DEF K, L
  <2> QED
    BY <1>2, <1>3, <1>5, <2>1
<1>7. (K * L) * x <= (H * H) * y
  <2>1. (K * L) * x \in Int /\ (H * H) * y \in Int
    BY <1>4
  <2> HIDE DEF K, L
  <2> QED
    BY <1>6, <2>1, Scaled
<1>8. K * L = H * (H - (k + 1)) + k
  BY <1>1
<1>9. (H * (H - (k + 1))) * x <= (K * L) * x
  <2>1. H * (H - (k + 1)) \in Int /\ K * L \in Int /\ H * (H - (k + 1)) <= K * L
    BY <1>1, <1>4, <1>8
  <2>2. \A z \in Nat, u, v \in Int : u <= v => u * z <= v * z
    OBVIOUS
  <2> HIDE DEF K, L
  <2> QED
    BY <1>4, <2>1, <2>2
<1> DEFINE M == H - (k + 1)
<1>10. (H * M) * x <= (H * H) * y
  <2>1. (H * M) * x \in Int /\ (K * L) * x \in Int /\ (H * H) * y \in Int
    BY <1>1, <1>4
  <2> HIDE DEF K, L
  <2> QED
    BY <1>7, <1>9, <2>1
<1>11. M \in Nat
  BY <1>1
<1> HIDE DEF M
<1>12. (M * x) * H <= (H * y) * H
  <2>1. (M * x) * H = (H * M) * x /\ (H * y) * H = (H * H) * y
    BY <1>4, <1>11
  <2> QED
    BY <1>10, <2>1
<1>13. M * x <= H * y
  <2>1. M * x \in Int /\ H * y \in Int /\ H \in Nat \ {0}
    BY <1>4, <1>11
  <2> QED
    BY <1>12, <2>1, Scaled
<1> QED
  BY <1>13 DEF M, x, y

\* A number rounded k times and then once more is within k + 1 roundings.
LEMMA RoundingsAddUp ==
  ASSUME NEW bits \in Nat, NEW k \in Nat, k + 1 <= 2 ^ bits,
         NEW a \in Nat, NEW b \in Nat, NEW c \in Nat \ {0}, NEW d \in Nat \ {0},
         NEW e \in Nat, NEW f \in Nat,
         Within(a, b, c, d, k, bits), Within(c, d, e, f, 1, bits)
  PROVE  Within(a, b, e, f, k + 1, bits)
<1> DEFINE H == 2 ^ bits
<1>1. H \in Nat /\ k + 1 <= H
  BY PowerType
<1>2. /\ (H - k) * (a * d) <= H * (c * b) /\ (H - 1) * (c * f) <= H * (e * d)
      /\ (H - k) * (c * b) <= H * (a * d) /\ (H - 1) * (e * d) <= H * (c * f)
  BY DEF Within
<1> HIDE DEF H
<1>3. (H - (k + 1)) * (a * f) <= H * (e * b)
  BY <1>1, <1>2, LossesAddUp
<1>4. (H - (k + 1)) * (e * b) <= H * (a * f)
  <2>1. (H - k) * (b * c) <= H * (d * a) /\ (H - 1) * (d * e) <= H * (f * c)
    BY <1>1, <1>2
  <2>2. (H - (k + 1)) * (b * e) <= H * (f * a)
    BY <1>1, <2>1, LossesAddUp
  <2> QED
    BY <1>1, <2>2
<1> QED
  BY <1>3, <1>4 DEF Within, H

-----------------------------------------------------------------------------
(* Orders.  An order is given as the set of pairs <<x, y>> where x comes     *)
(* before y; elements of which neither comes before the other are alike.     *)

\* No two elements come before each other, and being before or alike passes on.
IsOrder(R, T) ==
    /\ \A x, y \in T : <<x, y>> \in R => <<y, x>> \notin R
    /\ \A x, y, z \in T : <<x, y>> \notin R /\ <<y, z>> \notin R => <<x, z>> \notin R

InOrder(p, list, n, R) == \A i, j \in 1 .. n : i < j => <<list[p[j]], list[p[i]]>> \notin R

\* A list that is not empty has an element that comes before no other.
LEMMA LastOfList ==
  ASSUME NEW T, NEW R, IsOrder(R, T)
  PROVE  \A n \in Nat \ {0} : \A list \in [1 .. n -> T] :
           \E k \in 1 .. n : \A j \in 1 .. n : <<list[k], list[j]>> \notin R
<1> DEFINE P(n) == \A list \in [1 .. n -> T] :
                     \E k \in 1 .. n : \A j \in 1 .. n : <<list[k], list[j]>> \notin R
           Bad == {n \in Nat \ {0} : ~P(n)}
<1> SUFFICES ASSUME Bad # {} PROVE FALSE
  OBVIOUS
<1>1. PICK n \in Bad : \A m \in Bad : n <= m
  <2>1. Bad \subseteq Nat
    OBVIOUS
  <2> HIDE DEF Bad
  <2> QED
    BY <2>1, Least
<1>2. PICK list \in [1 .. n -> T] :
        \A k \in 1 .. n : \E j \in 1 .. n : <<list[k], list[j]>> \in R
  BY <1>1
<1>3. CASE n = 1
  <2>1. <<list[1], list[1]>> \in R /\ list[1] \in T
    BY <1>2, <1>3
  <2> QED
    BY <2>1 DEF IsOrder
<1>4. CASE n # 1
  <2>1. PICK m \in Nat \ {0} : n = m + 1 /\ P(m)
    <3>1. n - 1 \in Nat \ {0} /\ n = (n - 1) + 1 /\ ~(n <= n - 1)
      BY <1>4
    <3>2. n - 1 \notin Bad
      BY <1>1, <3>1
    <3> QED
      BY <3>1, <3>2
  <2> DEFINE front == [i \in 1 .. m |-> list[i]]
  <2>2. front \in [1 .. m -> T]
    BY <2>1
  <2>3. PICK k \in 1 .. m : \A j \in 1 .. m : <<front[k], front[j]>> \notin R
    <3> HIDE DEF front
    <3> QED
      BY <2>1, <2>2
  <2>4. \A j \in 1 .. m : <<list[k], list[j]>> \notin R
    BY <2>3
  <2>5. k \in 1 .. n /\ n \in 1 .. n /\ \A j \in 1 .. n : j \in 1 .. m \/ j = n
    BY <2>1
  <2> HIDE DEF front
  <2>6. <<list[k], list[n]>> \in R
    BY <1>2, <2>4, <2>5
  <2>7. <<list[n], list[k]>> \notin R /\ <<list[n], list[n]>> \notin R
    BY <2>5, <2>6 DEF IsOrder
  <2>8. \A j \in 1 .. n : <<list[n], list[j]>> \notin R
    BY <2>4, <2>5, <2>7 DEF IsOrder
  <2> QED
    BY <1>2, <2>5, <2>8
<1> QED
  BY <1>3, <1>4

\* Every list can be rearranged in order: the last element, behind the others
\* in order.
THEOREM OrderExists ==
  ASSUME NEW T, NEW R, IsOrder(R, T)
  PROVE  \A n \in Nat : \A list \in [1 .. n -> T] :
           \E p \in Bijection(1 .. n, 1 .. n) : InOrder(p, list, n, R)
<1> DEFINE P(n) == \A list \in [1 .. n -> T] :
                     \E p \in Bijection(1 .. n, 1 .. n) : InOrder(p, list, n, R)
           Bad == {n \in Nat : ~P(n)}
<1> SUFFICES ASSUME Bad # {} PROVE FALSE
  OBVIOUS
<1>1. PICK n \in Bad : \A m \in Bad : n <= m
  <2>1. Bad \subseteq Nat
    OBVIOUS
  <2> HIDE DEF Bad
  <2> QED
    BY <2>1, Least
<1>2. PICK list \in [1 .. n -> T] :
        \A p \in Bijection(1 .. n, 1 .. n) : ~InOrder(p, list, n, R)
  BY <1>1
<1>3. CASE n = 0
  <2> DEFINE id == [i \in 1 .. n |-> i]
  <2>1. id \in Bijection(1 .. n, 1 .. n)
    BY DEF Bijection, Injection, Surjection, IsInjective
  <2>2. InOrder(id, list, n, R)
    BY <1>3 DEF InOrder
  <2> QED
    BY <1>2, <2>1, <2>2
<1>4. CASE n # 0
  <2>1. PICK m \in Nat : n = m + 1 /\ m \notin Bad
    <3>1. n - 1 \in Nat /\ n = (n - 1) + 1 /\ n - 1 \notin Bad
      BY <1>1, <1>4
    <3> QED
      BY <3>1
  <2>2. PICK k \in 1 .. n : \A j \in 1 .. n : <<list[k], list[j]>> \notin R
    BY <1>4, LastOfList
  <2> DEFINE Place(i) == IF i = k THEN n ELSE i
             front == [i \in 1 .. m |-> list[Place(i)]]
  <2>3. \A i \in 1 .. m : Place(i) \in (1 .. n) \ {k}
    BY <2>1
  <2>4. \A i, j \in 1 .. m : Place(i) = Place(j) => i = j
    BY <2>1
  <2>5. \A t \in (1 .. n) \ {k} : \E i \in 1 .. m : Place(i) = t
    <3> SUFFICES ASSUME NEW t \in (1 .. n) \ {k}
                 PROVE  \E i \in 1 .. m : Place(i) = t
      OBVIOUS
    <3>1. CASE t = n
      <4>1. k \in 1 .. m /\ Place(k) = t
        BY <2>1, <3>1
      <4> QED
        BY <4>1
    <3>2. CASE t # n
      <4>1. t \in 1 .. m /\ Place(t) = t
        BY <2>1, <3>2
      <4> QED
        BY <4>1
    <3> QED
      BY <3>1, <3>2
  <2> HIDE DEF Place
  <2>6. front \in [1 .. m -> T]
    BY <2>3
  <2>7. PICK p \in Bijection(1 .. m, 1 .. m) : InOrder(p, front, m, R)
    <3> HIDE DEF front
    <3> QED
      BY <2>1, <2>6
  <2>8. /\ p \in [1 .. m -> 1 .. m]
        /\ \A i, j \in 1 .. m : p[i] = p[j] => i = j
        /\ \A t \in 1 .. m : \E i \in 1 .. m : p[i] = t
    BY DEF Bijection, Injection, Surjection, IsInjective
  <2> DEFINE q == [i \in 1 .. n |-> IF i = n THEN k ELSE Place(p[i])]
  <2>9. /\ n \in 1 .. n /\ q[n] = k
        /\ \A i \in 1 .. n : i = n \/ i \in 1 .. m
        /\ \A i \in 1 .. m : i \in 1 .. n /\ i # n /\ i < n /\ q[i] = Place(p[i])
    BY <2>1
  <2>10. q \in [1 .. n -> 1 .. n]
    BY <2>3, <2>8, <2>9
  <2> HIDE DEF q
  <2>11. \A i, j \in 1 .. n : q[i] = q[j] => i = j
    <3>1. ASSUME NEW i \in 1 .. m
          PROVE  p[i] \in 1 .. m /\ q[i] = Place(p[i]) /\ q[i] # k
      <4>1. p[i] \in 1 .. m
        BY <2>8
      <4> QED
        BY <2>3, <2>9, <4>1
    <3>2. ASSUME NEW i \in 1 .. m, NEW j \in 1 .. m, q[i] = q[j] PROVE i = j
      <4>1. Place(p[i]) = Place(p[j])
        BY <3>1, <3>2
      <4>2. p[i] = p[j]
        BY <2>4, <3>1, <4>1
      <4> QED
        BY <2>8, <4>2
    <3> QED
      BY <2>9, <3>1, <3>2
  <2>12. \A t \in 1 .. n : \E i \in 1 .. n : q[i] = t
    <3> SUFFICES ASSUME NEW t \in (1 .. n) \ {k}
                 PROVE  \E i \in 1 .. n : q[i] = t
      BY <2>9
    <3>1. PICK s \in 1 .. m : Place(s) = t
      BY <2>5
    <3>2. PICK i \in 1 .. m : p[i] = s
      BY <2>8
    <3> QED
      BY <2>9, <3>1, <3>2
  <2>13. q \in Bijection(1 .. n, 1 .. n)
    BY <2>10, <2>11, <2>12 DEF Bijection, Injection, Surjection, IsInjective
  <2>14. InOrder(q, list, n, R)
    <3> SUFFICES ASSUME NEW i \in 1 .. n, NEW j \in 1 .. n, i < j
                 PROVE  <<list[q[j]], list[q[i]]>> \notin R
      BY DEF InOrder
    <3>1. i \in 1 .. m
      BY <2>1
    <3>2. CASE j = n
      BY <2>2, <2>9, <2>10, <3>2
    <3>3. CASE j # n
      <4>1. j \in 1 .. m
        BY <2>9, <3>3
      <4>2. <<front[p[j]], front[p[i]]>> \notin R
        BY <2>7, <3>1, <4>1 DEF InOrder
      <4>3. front[p[j]] = list[q[j]] /\ front[p[i]] = list[q[i]]
        BY <2>8, <2>9, <3>1, <4>1
      <4> QED
        BY <4>2, <4>3
    <3> QED
      BY <3>2, <3>3
  <2> QED
    BY <1>2, <2>13, <2>14
<1> QED
  BY <1>3, <1>4
=============================================================================
