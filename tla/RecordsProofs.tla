---------------------------- MODULE RecordsProofs ----------------------------
(***************************************************************************)
(* Facts about numbers, powers of two, functions that are defined by       *)
(* recursion, lists of whatever elements and the lookups of Records, which *)
(* the other proofs rest on.                                               *)
(***************************************************************************)
EXTENDS Records, Casts, SequenceTheorems, FiniteSetTheorems, WellFoundedInduction, TLAPS

-----------------------------------------------------------------------------
(* Least and greatest numbers. *)

\* A set of natural numbers that is not empty has a least one.
LEMMA LeastNat ==
  ASSUME NEW S \in SUBSET Nat, S # {}
  PROVE  \E m \in S : \A k \in S : m <= k
<1>1. PICK m \in S : \A k \in S : ~ (<<k, m>> \in OpToRel(<, Nat))
  BY WFMin, NatLessThanWellFounded
<1>2. ASSUME NEW k \in S  PROVE m <= k
  <2>1. <<k, m>> \in Nat \X Nat
    OBVIOUS
  <2>2. ~ (k < m)
    BY <1>1, <2>1 DEF OpToRel
  <2> QED  BY <2>2
<1> QED  BY <1>2

\* The same for the greatest, in an interval.
LEMMA GreatestNat ==
  ASSUME NEW n \in Nat, NEW S \in SUBSET (0 .. n), S # {}
  PROVE  \E m \in S : \A k \in S : k <= m
<1> DEFINE T == {u \in 0 .. n : \A k \in S : k <= u}
<1>1. n \in T
  OBVIOUS
<1>2. T \in SUBSET Nat
  OBVIOUS
<1>3. PICK m \in T : \A k \in T : m <= k
  BY <1>1, <1>2, LeastNat
<1>4. m \in S
  <2> SUFFICES ASSUME m \notin S  PROVE FALSE
    OBVIOUS
  <2>1. \A k \in S : k <= m - 1
    BY <1>3
  <2>2. PICK k \in S : TRUE
    OBVIOUS
  <2>3. m - 1 \in T
    BY <2>1, <2>2
  <2> QED  BY <1>3, <2>3
<1> QED  BY <1>3, <1>4

\* Min and Max are the least and the greatest of positions in a sequence.
LEMMA MinMax ==
  ASSUME NEW n \in Nat, NEW S \in SUBSET (0 .. n), S # {}
  PROVE  /\ Min(S) \in S /\ \A k \in S : Min(S) <= k
         /\ Max(S) \in S /\ \A k \in S : k <= Max(S)
<1>1. Min(S) \in S /\ \A k \in S : Min(S) <= k
  <2>1. S \in SUBSET Nat
    OBVIOUS
  <2>2. \E m \in S : \A k \in S : m <= k
    BY <2>1, LeastNat
  <2> QED  BY <2>2 DEF Min
<1>2. Max(S) \in S /\ \A k \in S : k <= Max(S)
  <2>1. \E m \in S : \A k \in S : m >= k
    BY GreatestNat
  <2>2. Max(S) \in S /\ \A k \in S : Max(S) >= k
    BY <2>1 DEF Max
  <2> QED  BY <2>2
<1> QED  BY <1>1, <1>2

-----------------------------------------------------------------------------
(* Powers of two.  The provers know of 2 ^ n only that it is there; its    *)
(* laws come from the number of subsets of an interval.                    *)

\* With one element more there are twice as many subsets.
LEMMA PowerStep == \A n \in Nat : 2 ^ n \in Nat /\ 2 ^ (n + 1) = 2 * 2 ^ n
<1> TAKE n \in Nat
<1> DEFINE A == 1 .. n
           x == n + 1
           P == SUBSET A
           Q == {B \cup {x} : B \in P}
<1>1. IsFiniteSet(A) /\ Cardinality(A) = n
  BY FS_Interval
<1>2. x \notin A /\ A \cup {x} = 1 .. n + 1
  OBVIOUS
<1>3. IsFiniteSet(A \cup {x}) /\ Cardinality(A \cup {x}) = n + 1
  BY <1>1, <1>2, FS_AddElement
<1>4. IsFiniteSet(P) /\ Cardinality(P) = 2 ^ n
  BY <1>1, FS_SUBSET
<1>5. Cardinality(SUBSET (A \cup {x})) = 2 ^ (n + 1)
  BY <1>3, FS_SUBSET
<1> HIDE DEF A, x
<1>6. SUBSET (A \cup {x}) = P \cup Q
  <2>1. ASSUME NEW C \in SUBSET (A \cup {x})  PROVE C \in P \cup Q
    <3>1. CASE x \notin C
      BY <3>1
    <3>2. CASE x \in C
      <4>1. C \ {x} \in P /\ C = (C \ {x}) \cup {x}
        BY <3>2
      <4> QED  BY <4>1
    <3> QED  BY <3>1, <3>2
  <2>2. P \cup Q \subseteq SUBSET (A \cup {x})
    OBVIOUS
  <2> QED  BY <2>1, <2>2
<1>7. P \cap Q = {}
  BY <1>2
<1>8. ExistsBijection(P, Q)
  <2> DEFINE f == [B \in P |-> B \cup {x}]
  <2>1. f \in [P -> Q]
    OBVIOUS
  <2>2. ASSUME NEW B \in P, NEW C \in P, f[B] = f[C]  PROVE B = C
    BY <1>2, <2>2
  <2>3. IsInjective(f)
    BY <2>2 DEF IsInjective
  <2>4. f \in Injection(P, Q)
    BY <2>1, <2>3 DEF Injection
  <2>5. \A C \in Q : \E B \in P : f[B] = C
    OBVIOUS
  <2>6. f \in Surjection(P, Q)
    BY <2>1, <2>5 DEF Surjection
  <2> QED  BY <2>4, <2>6 DEF Bijection, ExistsBijection
<1>9. IsFiniteSet(Q) /\ Cardinality(Q) = Cardinality(P)
  BY <1>4, <1>8, FS_Bijection
<1>10. Cardinality(P \cup Q) = Cardinality(P) + Cardinality(Q) - 0
  <2>1. Cardinality(P \cap Q) = 0
    BY <1>7, FS_EmptySet
  <2> QED  BY <1>4, <1>9, <2>1, FS_Union
<1>11. Cardinality(P) \in Nat
  BY <1>4, FS_CardinalityType
<1>12. Cardinality(P \cup Q) = 2 ^ (n + 1)
  BY <1>5, <1>6
<1> HIDE DEF P, Q
<1> QED  BY <1>4, <1>9, <1>10, <1>11, <1>12

\* The empty set has one subset.
LEMMA PowerZero == 2 ^ 0 = 1
<1>1. Cardinality(SUBSET {}) = 2 ^ 0
  BY FS_EmptySet, FS_SUBSET
<1>2. SUBSET {} = {{}}
  OBVIOUS
<1> QED  BY <1>1, <1>2, FS_Singleton

\* Powers are positive and greater than their exponents.
LEMMA PowerIs == \A n \in Nat : 2 ^ n \in Nat \ {0} /\ n < 2 ^ n
<1> DEFINE Fine(n) == 2 ^ n \in Nat \ {0} /\ n < 2 ^ n
           Bad == {n \in Nat : ~ Fine(n)}
<1>1. SUFFICES ASSUME Bad # {} PROVE FALSE
  OBVIOUS
<1>2. PICK n \in Bad : \A k \in Bad : n <= k
  <2>1. Bad \in SUBSET Nat
    OBVIOUS
  <2> HIDE DEF Bad
  <2> QED  BY <1>1, <2>1, LeastNat
<1>3. n \in Nat /\ ~ Fine(n)
  OBVIOUS
<1>4. n # 0
  <2>1. n = 0 => 2 ^ n = 1
    BY PowerZero
  <2> QED  BY <1>3, <2>1
<1> DEFINE k == n - 1
<1>5. k \in Nat /\ n = k + 1 /\ ~ (n <= k)
  BY <1>3, <1>4
<1> HIDE DEF k
<1>6. k \notin Bad
  <2> HIDE DEF Bad
  <2> QED  BY <1>2, <1>5
<1>7. 2 ^ k \in Nat \ {0} /\ k < 2 ^ k
  BY <1>5, <1>6
<1>8. 2 ^ n \in Nat /\ 2 ^ n = 2 * 2 ^ k
  BY <1>3, <1>5, PowerStep
<1>9. 2 ^ n \in Nat \ {0} /\ n < 2 ^ n
  BY <1>5, <1>7, <1>8
<1> QED  BY <1>3, <1>9

\* The power of a sum.
LEMMA PowerSum == \A i, j \in Nat : 2 ^ (i + j) = 2 ^ i * 2 ^ j
<1> SUFFICES ASSUME NEW j \in Nat
             PROVE  \A i \in Nat : 2 ^ (i + j) = 2 ^ i * 2 ^ j
  OBVIOUS
<1> DEFINE Bad == {i \in Nat : 2 ^ (i + j) # 2 ^ i * 2 ^ j}
           b == 2 ^ j
<1>1. SUFFICES ASSUME Bad # {} PROVE FALSE
  OBVIOUS
<1>2. PICK i \in Bad : \A k \in Bad : i <= k
  <2>1. Bad \in SUBSET Nat
    OBVIOUS
  <2> HIDE DEF Bad
  <2> QED  BY <1>1, <2>1, LeastNat
<1>3. i \in Nat /\ 2 ^ (i + j) # 2 ^ i * b /\ b \in Nat
  BY PowerStep
<1>4. i # 0
  <2> SUFFICES ASSUME i = 0 PROVE FALSE
    OBVIOUS
  <2>1. 2 ^ i = 1 /\ i + j = j
    BY PowerZero
  <2>2. 2 ^ (i + j) = b
    BY <2>1
  <2> HIDE DEF b
  <2> QED  BY <1>3, <2>1, <2>2
<1> DEFINE k == i - 1
<1>5. k \in Nat /\ i = k + 1 /\ ~ (i <= k) /\ k + j \in Nat /\ i + j = k + j + 1
  BY <1>3, <1>4
<1> HIDE DEF k
<1>6. k \notin Bad
  <2> HIDE DEF Bad
  <2> QED  BY <1>2, <1>5
<1> DEFINE c == 2 ^ k
           d == 2 ^ (k + j)
<1>7. d = c * b
  BY <1>5, <1>6
<1>8. 2 ^ i = 2 * c /\ 2 ^ (i + j) = 2 * d /\ c \in Nat
  BY <1>5, PowerStep
<1> HIDE DEF b, c, d
<1>9. 2 * d = (2 * c) * b
  BY <1>3, <1>7, <1>8
<1> QED  BY <1>3, <1>8, <1>9

\* Powers increase.
LEMMA PowerOrder == \A i, j \in Nat : i < j <=> 2 ^ i < 2 ^ j
<1>1. ASSUME NEW i \in Nat, NEW j \in Nat, i < j  PROVE 2 ^ i < 2 ^ j
  <2> DEFINE k == j - i - 1
             a == 2 ^ i
             c == 2 ^ k
  <2>1. k \in Nat /\ j = i + (k + 1)
    BY <1>1
  <2> HIDE DEF k
  <2>2. 2 ^ j = a * 2 ^ (k + 1) /\ 2 ^ (k + 1) = 2 * c
    <3>1. k + 1 \in Nat
      BY <2>1
    <3> QED  BY <2>1, <3>1, PowerSum, PowerStep
  <2>3. a \in Nat \ {0} /\ c \in Nat \ {0}
    BY <2>1, PowerIs
  <2> HIDE DEF a, c
  <2>4. a < a * (2 * c)
    BY <2>3
  <2> QED  BY <2>2, <2>4 DEF a
<1>2. ASSUME NEW i \in Nat, NEW j \in Nat, ~ (i < j)  PROVE ~ (2 ^ i < 2 ^ j)
  <2>1. i = j \/ j < i
    BY <1>2
  <2>2. 2 ^ i \in Nat /\ 2 ^ j \in Nat
    BY PowerStep
  <2>3. j < i => 2 ^ j < 2 ^ i
    BY <1>1
  <2> QED  BY <2>1, <2>2, <2>3
<1> QED  BY <1>1, <1>2

-----------------------------------------------------------------------------
(* Division. *)

\* Quotients and remainders.
LEMMA DivisionIs ==
  ASSUME NEW v \in Int, NEW m \in Nat \ {0}
  PROVE  /\ v \div m \in Int /\ v % m \in 0 .. m - 1 /\ v = (v \div m) * m + (v % m)
         /\ v >= 0 => v \div m \in Nat
OBVIOUS

\* There is one quotient and one remainder.
LEMMA DivisionUnique ==
  ASSUME NEW m \in Nat \ {0}, NEW q \in Int, NEW r \in 0 .. m - 1, NEW v \in Int, v = q * m + r
  PROVE  v \div m = q /\ v % m = r
<1> DEFINE d == v \div m
           e == v % m
<1>1. d \in Int /\ e \in 0 .. m - 1 /\ v = d * m + e
  BY DivisionIs
<1> HIDE DEF d, e
<1>2. (d - q) * m = r - e
  BY <1>1
<1>3. d - q \in Int /\ r - e < m /\ - m < r - e
  BY <1>1
<1>4. \A x \in Int : (x >= 1 => x * m >= m) /\ (x <= -1 => x * m <= - m)
  OBVIOUS
<1>5. d - q = 0
  BY <1>2, <1>3, <1>4
<1> QED  BY <1>1, <1>5 DEF d, e

\* The remainder of a number that is less than a divisor away from 0.
LEMMA RemainderNear ==
  ASSUME NEW m \in Nat \ {0}, NEW v \in -m .. m - 1
  PROVE  v % m = IF v < 0 THEN v + m ELSE v
<1> DEFINE q == IF v < 0 THEN -1 ELSE 0
           r == IF v < 0 THEN v + m ELSE v
<1>1. q \in Int /\ r \in 0 .. m - 1 /\ v \in Int /\ v = q * m + r
  OBVIOUS
<1> HIDE DEF q, r
<1>2. v % m = r
  BY <1>1, DivisionUnique
<1> QED  BY <1>2 DEF r

\* Division by a product is division by one factor after the other.
LEMMA DivisionTwice ==
  ASSUME NEW v \in Int, NEW a \in Nat \ {0}, NEW b \in Nat \ {0}
  PROVE  /\ (v \div a) \div b = v \div (a * b)
         /\ v % (a * b) = (v % a) + ((v \div a) % b) * a
<1> DEFINE q == v \div a
           r == v % a
           s == q \div b
           t == q % b
<1>1. q \in Int /\ r \in 0 .. a - 1 /\ v = q * a + r
  BY DivisionIs
<1> HIDE DEF q, r
<1>2. s \in Int /\ t \in 0 .. b - 1 /\ q = s * b + t
  BY <1>1, DivisionIs
<1> HIDE DEF s, t
<1>3. v = s * (a * b) + (t * a + r)
  BY <1>1, <1>2
<1>4. t * a + r \in 0 .. a * b - 1 /\ a * b \in Nat \ {0}
  <2>1. t * a \in Nat /\ t * a <= (b - 1) * a /\ (b - 1) * a = a * b - a /\ a * b \in Nat \ {0}
    BY <1>2
  <2> QED  BY <1>1, <2>1
<1>5. v \div (a * b) = s /\ v % (a * b) = t * a + r
  <2> DEFINE m == a * b
             u == t * a + r
  <2>1. m \in Nat \ {0} /\ u \in 0 .. m - 1 /\ v = s * m + u
    BY <1>3, <1>4
  <2> HIDE DEF m, u
  <2>2. v \div m = s /\ v % m = u
    BY <1>2, <2>1, DivisionUnique
  <2> QED  BY <2>2 DEF m, u
<1>6. s = q \div b /\ t = q % b /\ t * a + r \in Int
  BY <1>1, <1>2 DEF s, t
<1>7. t * a + r = r + t * a
  BY <1>1, <1>2
<1> QED  BY <1>5, <1>6, <1>7 DEF q, r

\* The remainder of a remainder.
LEMMA RemainderTwice ==
  ASSUME NEW v \in Int, NEW a \in Nat \ {0}, NEW b \in Nat \ {0}
  PROVE  (v % (a * b)) % a = v % a
<1> DEFINE r == v % a
           t == (v \div a) % b
           u == v % (a * b)
<1>1. r \in 0 .. a - 1 /\ v \div a \in Int
  BY DivisionIs
<1>2. t \in Int
  BY <1>1, DivisionIs
<1>3. u = r + t * a
  BY DivisionTwice
<1> HIDE DEF r, t, u
<1>4. u = t * a + r /\ u \in Int
  BY <1>1, <1>2, <1>3
<1>5. u % a = r
  BY <1>1, <1>2, <1>4, DivisionUnique
<1> QED  BY <1>5 DEF u, r

\* What is added may be added before or after.
LEMMA RemainderSum ==
  ASSUME NEW v \in Int, NEW c \in Int, NEW m \in Nat \ {0}
  PROVE  ((v % m) + c) % m = (v + c) % m
<1> DEFINE q == v \div m
           r == v % m
           s == (r + c) \div m
           t == (r + c) % m
<1>1. q \in Int /\ r \in 0 .. m - 1 /\ v = q * m + r
  BY DivisionIs
<1> HIDE DEF q, r
<1>2. s \in Int /\ t \in 0 .. m - 1 /\ r + c = s * m + t
  BY <1>1, DivisionIs
<1> HIDE DEF s, t
<1>3. v + c = (q + s) * m + t /\ q + s \in Int /\ v + c \in Int
  BY <1>1, <1>2
<1>4. (v + c) % m = t
  BY <1>2, <1>3, DivisionUnique
<1> QED  BY <1>4 DEF t, r

-----------------------------------------------------------------------------
(* Integers of a width. *)

\* A width has two halves.
LEMMA HalfIs ==
  ASSUME NEW w \in Nat \ {0}
  PROVE  2 ^ w \in Nat \ {0} /\ 2 ^ (w - 1) \in Nat \ {0} /\ 2 ^ w = 2 * 2 ^ (w - 1)
<1> DEFINE k == w - 1
<1>1. k \in Nat /\ w = k + 1
  OBVIOUS
<1> HIDE DEF k
<1>2. 2 ^ k \in Nat \ {0} /\ 2 ^ w = 2 * 2 ^ k /\ 2 ^ w \in Nat \ {0}
  BY <1>1, PowerIs, PowerStep
<1> QED  BY <1>2 DEF k

\* Casts give what their names say.
LEMMA CastIs ==
  ASSUME NEW w \in Nat \ {0}, NEW v \in Int
  PROVE  AsUnsigned(v, w) \in UInt(w) /\ AsSigned(v, w) \in SInt(w)
<1> DEFINE m == 2 ^ w
           h == 2 ^ (w - 1)
<1>1. m \in Nat \ {0} /\ h \in Nat \ {0} /\ m = 2 * h
  BY HalfIs
<1>2. /\ AsUnsigned(v, w) = v % m /\ UInt(w) = 0 .. m - 1 /\ SInt(w) = -h .. h - 1
      /\ AsSigned(v, w) = IF v % m < h THEN v % m ELSE (v % m) - m
  BY DEF AsUnsigned, UInt, SInt, AsSigned
<1> HIDE DEF m, h
<1>3. v % m \in 0 .. m - 1
  BY <1>1
<1> QED  BY <1>1, <1>2, <1>3

\* The integers of a width are integers, and zero is an unsigned one.
LEMMA WidthIs ==
  ASSUME NEW w \in Nat \ {0}
  PROVE  UInt(w) \subseteq Nat /\ 0 \in UInt(w) /\ 1 \in UInt(w) /\ SInt(w) \subseteq Int
<1> DEFINE m == 2 ^ w
           h == 2 ^ (w - 1)
<1>1. m \in Nat \ {0} /\ h \in Nat \ {0} /\ m = 2 * h
  BY HalfIs
<1>2. UInt(w) = 0 .. m - 1 /\ SInt(w) = -h .. h - 1
  BY DEF UInt, SInt
<1> HIDE DEF m, h
<1> QED  BY <1>1, <1>2

\* An unsigned integer of a width is one of any greater width.
LEMMA WiderIs ==
  ASSUME NEW w \in Nat \ {0}, NEW k \in Nat \ {0}, w <= k
  PROVE  UInt(w) \subseteq UInt(k)
<1>1. 2 ^ w \in Nat /\ 2 ^ k \in Nat /\ ~ (2 ^ k < 2 ^ w)
  <2>1. ~ (k < w)
    OBVIOUS
  <2> QED  BY <2>1, PowerIs, PowerOrder
<1> QED  BY <1>1 DEF UInt

\* What a cast does to a value that is in range, and after a wider cast.
LEMMA CastUnsigned ==
  ASSUME NEW w \in Nat \ {0}
  PROVE  /\ \A v \in UInt(w) : AsUnsigned(v, w) = v
         /\ \A v \in Int : \A k \in Nat \ {0} : w <= k =>
              AsUnsigned(AsUnsigned(v, k), w) = AsUnsigned(v, w)
<1>1. ASSUME NEW v \in UInt(w)
      PROVE  AsUnsigned(v, w) = v
  <2> DEFINE m == 2 ^ w
  <2>1. m \in Nat \ {0} /\ v \in 0 .. m - 1
    BY HalfIs DEF UInt
  <2> HIDE DEF m
  <2>2. v % m = v
    BY <2>1
  <2> QED  BY <2>2 DEF AsUnsigned, m
<1>2. ASSUME NEW v \in Int, NEW k \in Nat \ {0}, w <= k
      PROVE  AsUnsigned(AsUnsigned(v, k), w) = AsUnsigned(v, w)
  <2> DEFINE d == k - w
             a == 2 ^ w
             b == 2 ^ d
  <2>1. d \in Nat /\ k = w + d
    BY <1>2
  <2> HIDE DEF d
  <2>2. a \in Nat \ {0} /\ b \in Nat \ {0} /\ 2 ^ k = a * b
    BY <2>1, PowerIs, PowerSum
  <2> HIDE DEF a, b
  <2>3. (v % (a * b)) % a = v % a
    BY <2>2, RemainderTwice
  <2> QED  BY <2>2, <2>3 DEF AsUnsigned, a
<1> QED  BY <1>1, <1>2

\* A signed integer that is cast to an unsigned one can be cast back.
LEMMA CastBack ==
  ASSUME NEW w \in Nat \ {0}, NEW v \in SInt(w)
  PROVE  /\ AsSigned(AsUnsigned(v, w), w) = v
         /\ AsSigned(v, w) = v
         /\ v < 0 => AsSigned(v + 2 ^ w, w) = v
<1> DEFINE m == 2 ^ w
           h == 2 ^ (w - 1)
           u == v % m
<1>1. m \in Nat \ {0} /\ h \in Nat \ {0} /\ m = 2 * h /\ v \in -h .. h - 1
  BY HalfIs DEF SInt
<1>2. \A x : AsUnsigned(x, w) = x % m /\ AsSigned(x, w) = IF x % m < h THEN x % m ELSE (x % m) - m
  BY DEF AsUnsigned, AsSigned
<1> HIDE DEF m, h
<1>3. u = IF v < 0 THEN v + m ELSE v
  <2>1. v \in -m .. m - 1
    BY <1>1
  <2> QED  BY <1>1, <2>1, RemainderNear
<1>4. u \in 0 .. m - 1 /\ v = IF u < h THEN u ELSE u - m
  BY <1>1, <1>3
<1>5. u % m = u
  <2> HIDE DEF u
  <2>1. u \in -m .. m - 1 /\ ~ (u < 0)
    BY <1>1, <1>4
  <2> QED  BY <1>1, <2>1, RemainderNear
<1>6. AsUnsigned(v, w) = u /\ AsSigned(v, w) = v
  BY <1>2, <1>4
<1>7. AsSigned(u, w) = v
  BY <1>2, <1>4, <1>5
<1> HIDE DEF u
<1> QED  BY <1>3, <1>6, <1>7 DEF m

-----------------------------------------------------------------------------
(* Functions that are defined by recursion. *)

\* Each value up to n comes from the one before.
Climbs(f, n, first, step) == f[0] = first /\ \A k \in 1 .. n : f[k] = step[<<k, f[k - 1]>>]

\* A function that is defined by recursion from 0 to n exists.
LEMMA Recursion ==
  ASSUME NEW n \in Nat, NEW S, NEW first \in S, NEW step \in [(1 .. n) \X S -> S]
  PROVE  \E f \in [0 .. n -> S] : Climbs(f, n, first, step)
<1> USE DEF Climbs
<1> DEFINE Solves(f, m) == f[0] = first /\ \A k \in 1 .. m : f[k] = step[<<k, f[k - 1]>>]
           Bad == {m \in Nat : m <= n /\ ~ \E f \in [0 .. m -> S] : Solves(f, m)}
<1>1. SUFFICES ASSUME Bad # {} PROVE FALSE
  <2>1. n \notin Bad
    BY <1>1
  <2> QED  BY <2>1
<1>2. PICK m \in Bad : \A k \in Bad : m <= k
  <2>1. Bad \in SUBSET Nat
    OBVIOUS
  <2> HIDE DEF Bad
  <2> QED  BY <1>1, <2>1, LeastNat
<1>3. m \in Nat /\ m <= n /\ ~ \E f \in [0 .. m -> S] : Solves(f, m)
  OBVIOUS
<1>4. CASE m = 0
  <2> DEFINE f == [k \in 0 .. m |-> first]
  <2>1. f \in [0 .. m -> S] /\ Solves(f, m)
    BY <1>4
  <2> HIDE DEF f, Solves
  <2> QED  BY <1>3, <2>1
<1>5. CASE m # 0
  <2>1. m - 1 \in Nat /\ m - 1 < m /\ m - 1 \notin Bad
    <3>1. m - 1 \in Nat /\ m - 1 < m /\ ~ (m <= m - 1)
      BY <1>3, <1>5
    <3> HIDE DEF Bad
    <3> QED  BY <1>2, <3>1
  <2>2. PICK g \in [0 .. m - 1 -> S] : Solves(g, m - 1)
    <3> HIDE DEF Solves
    <3> QED  BY <1>3, <2>1
  <2> DEFINE f == [k \in 0 .. m |-> IF k = m THEN step[<<m, g[m - 1]>>] ELSE g[k]]
  <2>3. \A k \in 0 .. m - 1 : f[k] = g[k]
    BY <1>3
  <2>4. f[m] = step[<<m, g[m - 1]>>] /\ step[<<m, g[m - 1]>>] \in S
    BY <1>3, <1>5
  <2>5. f \in [0 .. m -> S]
    BY <1>3, <2>4
  <2> HIDE DEF f
  <2>6. \A k \in 1 .. m : f[k] = step[<<k, f[k - 1]>>]
    <3> TAKE k \in 1 .. m
    <3>1. k - 1 \in 0 .. m - 1 /\ f[k - 1] = g[k - 1]
      BY <1>3, <2>3
    <3>2. CASE k = m
      BY <2>4, <3>1, <3>2
    <3>3. CASE k # m
      <4>1. k \in 1 .. m - 1 /\ f[k] = g[k]
        BY <1>3, <2>3, <3>3
      <4> QED  BY <2>2, <3>1, <4>1
    <3> QED  BY <3>2, <3>3
  <2>7. f[0] = first
    BY <1>3, <1>5, <2>2, <2>3
  <2> QED  BY <1>3, <2>5, <2>6, <2>7
<1> QED  BY <1>4, <1>5

\* A value comes from the one at a smaller number, unless its number is small.
Descends(f, small, first, step, d) ==
  \A v \in Nat : f[v] = IF v \in small THEN first[v] ELSE step[<<v, f[d[v]]>>]

\* A function that is defined by such a recursion on the natural numbers exists.
LEMMA Descent ==
  ASSUME NEW S, NEW small \in SUBSET Nat, NEW first \in [Nat -> S], NEW step \in [Nat \X S -> S],
         NEW d \in [Nat -> Nat], \A v \in Nat \ small : d[v] < v
  PROVE  \E f \in [Nat -> S] : Descends(f, small, first, step, d)
<1> DEFINE Solves(f, n) ==
             \A v \in 0 .. n : f[v] = IF v \in small THEN first[v] ELSE step[<<v, f[d[v]]>>]
           Bad == {n \in Nat : ~ \E f \in [0 .. n -> S] : Solves(f, n)}
<1>1. \A n \in Nat : \A m \in 0 .. n : \A f, g : Solves(f, n) /\ Solves(g, m) => f[m] = g[m]
  <2> DEFINE Differ(n, f, g) == {m \in 0 .. n : f[m] # g[m]}
  <2> HIDE DEF Solves
  <2> SUFFICES ASSUME NEW n \in Nat, NEW m \in 0 .. n, NEW f, NEW g, Solves(f, n), Solves(g, m), f[m] # g[m]
               PROVE  FALSE
    OBVIOUS
  <2> USE DEF Solves
  <2>1. m \in Nat /\ m <= n
    OBVIOUS
  <2>2. PICK k \in Differ(m, f, g) : \A j \in Differ(m, f, g) : k <= j
    <3>1. Differ(m, f, g) \in SUBSET Nat /\ Differ(m, f, g) # {}
      BY <2>1
    <3> HIDE DEF Differ
    <3> QED  BY <3>1, LeastNat
  <2>3. k \in 0 .. m /\ f[k] # g[k]
    OBVIOUS
  <2>4. k \in Nat /\ k \in 0 .. n /\ k \in 0 .. m
    BY <2>1, <2>3
  <2>5. k \notin small
    BY <2>3, <2>4
  <2>6. d[k] \in Nat /\ d[k] < k
    BY <2>4, <2>5
  <2>7. d[k] \in 0 .. m /\ ~ (k <= d[k])
    BY <2>4, <2>6
  <2>8. f[d[k]] = g[d[k]]
    BY <2>2, <2>7
  <2>9. f[k] = step[<<k, f[d[k]]>>] /\ g[k] = step[<<k, g[d[k]]>>]
    BY <2>4, <2>5
  <2> QED  BY <2>3, <2>8, <2>9
<1>2. \A n \in Nat : \E f \in [0 .. n -> S] : Solves(f, n)
  <2> SUFFICES ASSUME Bad # {} PROVE FALSE
    OBVIOUS
  <2>1. PICK n \in Bad : \A m \in Bad : n <= m
    <3>1. Bad \in SUBSET Nat
      OBVIOUS
    <3> HIDE DEF Bad
    <3> QED  BY <3>1, LeastNat
  <2>2. n \in Nat /\ ~ \E f \in [0 .. n -> S] : Solves(f, n)
    OBVIOUS
  <2>3. \E g : g \in [0 .. n - 1 -> S] /\ Solves(g, n - 1)
    <3>1. CASE n = 0
      <4>1. 0 .. n - 1 = {}
        BY <3>1
      <4>2. Solves([v \in 0 .. n - 1 |-> first[0]], n - 1)
        BY <4>1
      <4>3. [v \in 0 .. n - 1 |-> first[0]] \in [0 .. n - 1 -> S]
        BY <4>1
      <4> QED  BY <4>2, <4>3
    <3>2. CASE n # 0
      <4>1. n - 1 \in Nat /\ ~ (n <= n - 1)
        BY <2>2, <3>2
      <4> HIDE DEF Solves
      <4> QED  BY <2>1, <4>1
    <3> QED  BY <3>1, <3>2
  <2>4. PICK g : g \in [0 .. n - 1 -> S] /\ Solves(g, n - 1)
    BY <2>3
  <2> DEFINE last == IF n \in small THEN first[n] ELSE step[<<n, g[d[n]]>>]
             f == [v \in 0 .. n |-> IF v = n THEN last ELSE g[v]]
  <2>5. n \notin small => d[n] \in 0 .. n - 1
    BY <2>2
  <2>6. last \in S
    BY <2>2, <2>4, <2>5
  <2> HIDE DEF last
  <2>7. \A v \in 0 .. n - 1 : f[v] = g[v]
    BY <2>2
  <2>8. f[n] = last
    BY <2>2
  <2>9. f \in [0 .. n -> S]
    BY <2>2, <2>4, <2>6
  <2> HIDE DEF f
  <2>10. Solves(f, n)
    <3> SUFFICES ASSUME NEW v \in 0 .. n
                 PROVE  f[v] = IF v \in small THEN first[v] ELSE step[<<v, f[d[v]]>>]
      OBVIOUS
    <3>1. CASE v = n
      BY <2>5, <2>7, <2>8, <3>1 DEF last
    <3>2. CASE v # n
      <4>1. v \in Nat /\ v \in 0 .. n - 1
        BY <2>2, <3>2
      <4>2. v \notin small => d[v] \in 0 .. n - 1
        <5>1. v \notin small => d[v] \in Nat /\ d[v] < v
          BY <4>1
        <5> QED  BY <2>2, <4>1, <5>1
      <4> QED  BY <2>4, <2>7, <4>1, <4>2
    <3> QED  BY <3>1, <3>2
  <2> HIDE DEF Solves
  <2> QED  BY <2>2, <2>9, <2>10
<1> DEFINE Part(n) == CHOOSE f \in [0 .. n -> S] : Solves(f, n)
           f == [v \in Nat |-> Part(v)[v]]
<1>3. \A n \in Nat : Part(n) \in [0 .. n -> S] /\ Solves(Part(n), n)
  <2> HIDE DEF Solves
  <2> QED  BY <1>2
<1> HIDE DEF Part
<1>4. f \in [Nat -> S]
  <2> SUFFICES ASSUME NEW v \in Nat PROVE Part(v)[v] \in S
    OBVIOUS
  <2>1. Part(v) \in [0 .. v -> S] /\ v \in 0 .. v
    BY <1>3
  <2> QED  BY <2>1
<1>5. \A v \in Nat : f[v] = IF v \in small THEN first[v] ELSE step[<<v, f[d[v]]>>]
  <2> SUFFICES ASSUME NEW v \in Nat
               PROVE  f[v] = IF v \in small THEN first[v] ELSE step[<<v, f[d[v]]>>]
    OBVIOUS
  <2>1. v \in 0 .. v /\ Solves(Part(v), v)
    <3> HIDE DEF Solves
    <3> QED  BY <1>3
  <2>2. f[v] = Part(v)[v]
    OBVIOUS
  <2>3. f[v] = IF v \in small THEN first[v] ELSE step[<<v, Part(v)[d[v]]>>]
    BY <2>1, <2>2
  <2>4. v \notin small => Part(v)[d[v]] = f[d[v]]
    <3>1. HAVE v \notin small
    <3>2. d[v] \in Nat /\ d[v] \in 0 .. v
      BY <3>1
    <3>3. Solves(Part(d[v]), d[v]) /\ f[d[v]] = Part(d[v])[d[v]]
      BY <1>3, <3>2
    <3> HIDE DEF Solves, f
    <3> QED  BY <1>1, <2>1, <3>2, <3>3
  <2> HIDE DEF f
  <2> QED  BY <2>3, <2>4
<1> HIDE DEF f
<1> QED  BY <1>4, <1>5 DEF Descends

-----------------------------------------------------------------------------
(* Lists. *)

IsList(s) == s \in Seq(ToSet(s))

\* A sequence of any kind is a list.
LEMMA ListOf ==
  ASSUME NEW S, NEW s \in Seq(S)
  PROVE  IsList(s) /\ Len(s) \in Nat /\ DOMAIN s = 1 .. Len(s) /\ \A k \in 1 .. Len(s) : s[k] \in S
<1>1. Len(s) \in Nat /\ DOMAIN s = 1 .. Len(s) /\ s \in [1 .. Len(s) -> S]
  BY LenProperties
<1>2. s \in Seq(Range(s))
  BY SeqOfRange
<1>3. Range(s) = ToSet(s)
  BY DEF Range, ToSet
<1> QED  BY <1>1, <1>2, <1>3 DEF IsList

\* The length of a list.
LEMMA ListLen ==
  ASSUME NEW s, IsList(s)
  PROVE  Len(s) \in Nat /\ DOMAIN s = 1 .. Len(s) /\ (s # <<>> <=> Len(s) > 0)
<1>1. s \in Seq(ToSet(s))
  BY DEF IsList
<1> QED  BY <1>1, LenProperties, EmptySeq

\* The elements of a list.
LEMMA InToSet ==
  ASSUME NEW s, IsList(s)
  PROVE  /\ \A k \in 1 .. Len(s) : s[k] \in ToSet(s)
         /\ \A e \in ToSet(s) : \E k \in 1 .. Len(s) : e = s[k]
BY ListLen DEF ToSet

\* A list with another element after its last one.
LEMMA ListAppend ==
  ASSUME NEW s, IsList(s), NEW e
  PROVE  /\ IsList(Append(s, e)) /\ Len(Append(s, e)) = Len(s) + 1
         /\ \A k \in 1 .. Len(s) : Append(s, e)[k] = s[k]
         /\ Append(s, e)[Len(s) + 1] = e
<1> DEFINE S == ToSet(s) \cup {e}
<1>1. s \in Seq(S)
  BY SeqMonotonic DEF IsList
<1>2. e \in S
  OBVIOUS
<1> HIDE DEF S
<1>3. /\ Append(s, e) \in Seq(S) /\ Len(Append(s, e)) = Len(s) + 1
      /\ \A k \in 1 .. Len(s) : Append(s, e)[k] = s[k]
      /\ Append(s, e)[Len(s) + 1] = e
  BY <1>1, <1>2, AppendProperties
<1> QED  BY <1>3, ListOf

\* One list after another.
LEMMA ListConcat ==
  ASSUME NEW s, IsList(s), NEW t, IsList(t)
  PROVE  /\ IsList(s \o t) /\ Len(s \o t) = Len(s) + Len(t)
         /\ \A k \in 1 .. Len(s) + Len(t) : (s \o t)[k] = IF k <= Len(s) THEN s[k] ELSE t[k - Len(s)]
<1> DEFINE S == ToSet(s) \cup ToSet(t)
<1>1. s \in Seq(S) /\ t \in Seq(S)
  BY SeqMonotonic DEF IsList
<1> HIDE DEF S
<1>2. s \o t \in Seq(S)
  BY <1>1, ConcatProperties
<1> QED  BY <1>1, <1>2, ConcatProperties, ListOf

\* A list without its first element.
LEMMA ListTail ==
  ASSUME NEW s, IsList(s), s # <<>>
  PROVE  /\ IsList(Tail(s)) /\ Len(Tail(s)) = Len(s) - 1
         /\ \A k \in 1 .. Len(s) - 1 : Tail(s)[k] = s[k + 1]
         /\ Head(s) = s[1]
<1>1. s \in Seq(ToSet(s))
  BY DEF IsList
<1>2. /\ Tail(s) \in Seq(ToSet(s)) /\ Len(Tail(s)) = Len(s) - 1
      /\ \A k \in 1 .. Len(Tail(s)) : Tail(s)[k] = s[k + 1]
  BY <1>1, HeadTailProperties
<1>3. Head(s) = s[1]
  BY <1>1
<1> QED  BY <1>2, <1>3, ListOf

\* A list without its last elements.
LEMMA ListFront ==
  ASSUME NEW s, IsList(s), NEW n \in 0 .. Len(s)
  PROVE  /\ IsList(SubSeq(s, 1, n)) /\ Len(SubSeq(s, 1, n)) = n
         /\ \A k \in 1 .. n : SubSeq(s, 1, n)[k] = s[k]
<1>0. Len(s) \in Nat /\ n \in Int
  BY ListLen
<1>1. \A k \in 1 .. n : s[k] \in ToSet(s)
  BY <1>0, InToSet
<1>2. /\ SubSeq(s, 1, n) \in Seq(ToSet(s))
      /\ Len(SubSeq(s, 1, n)) = IF 1 <= n THEN n - 1 + 1 ELSE 0
      /\ \A k \in 1 .. n - 1 + 1 : SubSeq(s, 1, n)[k] = s[1 + k - 1]
  BY <1>0, <1>1, SubSeqProperties
<1>3. IsList(SubSeq(s, 1, n))
  BY <1>2, ListOf
<1>4. Len(SubSeq(s, 1, n)) = n
  BY <1>0, <1>2
<1>5. \A k \in 1 .. n : SubSeq(s, 1, n)[k] = s[k]
  BY <1>0, <1>2
<1> QED  BY <1>3, <1>4, <1>5

\* A list with another last element, which may be new.
LEMMA ListReplace ==
  ASSUME NEW s, IsList(s), NEW n \in 0 .. Len(s), NEW e
  PROVE  LET t == Append(SubSeq(s, 1, n), e) IN
         /\ IsList(t) /\ Len(t) = n + 1
         /\ \A k \in 1 .. n : t[k] = s[k]
         /\ t[n + 1] = e
<1> DEFINE f == SubSeq(s, 1, n)
<1>0. Len(s) \in Nat /\ n \in Nat
  BY ListLen
<1>1. IsList(f) /\ Len(f) = n /\ \A k \in 1 .. n : f[k] = s[k]
  BY ListFront
<1> HIDE DEF f
<1>2. /\ IsList(Append(f, e)) /\ Len(Append(f, e)) = n + 1
      /\ \A k \in 1 .. n : Append(f, e)[k] = f[k]
      /\ Append(f, e)[n + 1] = e
  BY <1>1, ListAppend
<1>3. \A k \in 1 .. n : Append(f, e)[k] = s[k]
  BY <1>1, <1>2
<1> QED  BY <1>2, <1>3 DEF f

Excepts(s, k, e, t) == t = [s EXCEPT ![k] = e]

\* A list with another element in one place.
LEMMA ListExcept ==
  ASSUME NEW s, IsList(s), NEW k \in 1 .. Len(s), NEW e, NEW t, Excepts(s, k, e, t)
  PROVE  /\ IsList(t) /\ Len(t) = Len(s)
         /\ \A j \in 1 .. Len(s) : t[j] = IF j = k THEN e ELSE s[j]
<1> DEFINE S == ToSet(s) \cup {e}
<1>1. s \in Seq(S)
  BY SeqMonotonic DEF IsList
<1>2. e \in S
  OBVIOUS
<1> HIDE DEF S
<1>3. /\ [s EXCEPT ![k] = e] \in Seq(S) /\ Len([s EXCEPT ![k] = e]) = Len(s)
      /\ \A j \in 1 .. Len(s) : [s EXCEPT ![k] = e][j] = IF j = k THEN e ELSE s[j]
  BY <1>1, <1>2, ExceptSeq
<1>4. t \in Seq(S) /\ Len(t) = Len(s) /\ \A j \in 1 .. Len(s) : t[j] = IF j = k THEN e ELSE s[j]
  BY <1>3 DEF Excepts
<1> QED  BY <1>4, ListOf

-----------------------------------------------------------------------------
(* Lookups. *)

\* A linear scan gives the first index with the number.
LEMMA FirstIs ==
  ASSUME NEW fields, Len(fields) \in Nat, NEW num
  PROVE  LET n == FirstDeclared(fields, num) IN
         /\ n \in 0 .. Len(fields)
         /\ n = 0 => \A k \in 1 .. Len(fields) : fields[k].num # num
         /\ n # 0 => fields[n].num = num /\ \A k \in 1 .. n - 1 : fields[k].num # num
<1> DEFINE I == {k \in 1 .. Len(fields) : fields[k].num = num}
<1>1. FirstDeclared(fields, num) = IF I # {} THEN Min(I) ELSE 0
  BY DEF FirstDeclared, SelectInSeq
<1>2. CASE I = {}
  BY <1>1, <1>2
<1>3. CASE I # {}
  <2>1. I \in SUBSET (0 .. Len(fields))
    OBVIOUS
  <2>2. Min(I) \in I /\ \A k \in I : Min(I) <= k
    BY <1>3, <2>1, MinMax
  <2> DEFINE m == Min(I)
  <2>3. m \in 1 .. Len(fields) /\ fields[m].num = num
    BY <2>2
  <2>4. \A k \in 1 .. m - 1 : fields[k].num # num
    BY <2>2, <2>3
  <2>5. FirstDeclared(fields, num) = m
    BY <1>1, <1>3
  <2> HIDE DEF m, I
  <2> QED  BY <2>3, <2>4, <2>5
<1> QED  BY <1>2, <1>3

\* The last value of a field is one of its values, or the initial one.
LEMMA LastIs ==
  ASSUME NEW p, Len(p) \in Nat, NEW num, NEW wire, NEW initial
  PROVE  \/ LastValue(p, num, wire, initial) = initial
         \/ \E k \in 1 .. Len(p) : /\ p[k].num = num /\ p[k].wire = wire
                                   /\ LastValue(p, num, wire, initial) = p[k].val
<1> DEFINE I == {k \in 1 .. Len(p) : p[k].num = num /\ p[k].wire = wire}
           last == SelectLastInSeq(p, LAMBDA r : r.num = num /\ r.wire = wire)
<1>1. last = IF I # {} THEN Max(I) ELSE 0
  BY DEF SelectLastInSeq
<1>2. LastValue(p, num, wire, initial) = IF last = 0 THEN initial ELSE p[last].val
  BY DEF LastValue
<1>3. CASE I = {}
  BY <1>1, <1>2, <1>3
<1>4. CASE I # {}
  <2>1. I \in SUBSET (0 .. Len(p))
    OBVIOUS
  <2>2. Max(I) \in I
    BY <1>4, <2>1, MinMax
  <2>3. last = Max(I) /\ Max(I) \in 1 .. Len(p) /\ last # 0
    BY <1>1, <1>4, <2>2
  <2> HIDE DEF last
  <2>4. last \in 1 .. Len(p) /\ p[last].num = num /\ p[last].wire = wire
    BY <2>2, <2>3
  <2> QED  BY <1>2, <2>3, <2>4
<1> QED  BY <1>3, <1>4
=============================================================================
