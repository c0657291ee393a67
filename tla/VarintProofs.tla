---------------------------- MODULE VarintProofs ----------------------------
(***************************************************************************)
(* Proofs about varints: the loop of write_varint ends, writes bytes, and  *)
(* as many of them as varint_len says.                                     *)
(***************************************************************************)
EXTENDS Wire, RecordsProofs

\* A byte has a payload.
LEMMA BaseIs == Base \in Nat \ {0, 1}
<1>1. G \in Nat \ {0}
  BY WireAssumption
<1>2. 2 ^ G \in Nat \ {0} /\ G < 2 ^ G
  BY <1>1, PowerIs
<1> QED  BY <1>1, <1>2 DEF Base

\* The recursion of write_varint ends, and writes bytes.
LEMMA VarintLoopIs ==
  /\ VarintLoop \in [Nat -> Seq(Byte)]
  /\ \A v \in Nat :
       VarintLoop[v] = IF v < Base THEN <<v>> ELSE <<(v % Base) + Base>> \o VarintLoop[v \div Base]
<1> DEFINE small == {v \in Nat : v < Base}
           first == [v \in Nat |-> <<v % (2 * Base)>>]
           step == [p \in Nat \X Seq(Byte) |-> <<(p[1] % Base) + Base>> \o p[2]]
           d == [v \in Nat |-> v \div Base]
           Body(v, f) == IF v < Base THEN <<v>> ELSE <<(v % Base) + Base>> \o f[v \div Base]
<1>1. Base \in Nat /\ Base > 1 /\ 2 * Base \in Nat /\ Byte = 0 .. 2 * Base - 1
  BY BaseIs DEF Byte
<1>2. \A v \in Nat : v % Base \in 0 .. Base - 1 /\ v % (2 * Base) \in Byte /\ v \div Base \in Nat
  <2> DEFINE b == Base
  <2>1. b \in Nat /\ b > 1 /\ Byte = 0 .. 2 * b - 1
    BY <1>1
  <2> HIDE DEF b
  <2>2. \A v \in Nat : v % b \in 0 .. b - 1 /\ v % (2 * b) \in 0 .. 2 * b - 1 /\ v \div b \in Nat
    BY <2>1
  <2> QED  BY <2>1, <2>2 DEF b
<1>3. first \in [Nat -> Seq(Byte)]
  <2>1. \A b \in Byte : <<b>> \in Seq(Byte)
    OBVIOUS
  <2>2. \A v \in Nat : <<v % (2 * Base)>> \in Seq(Byte)
    BY <1>2, <2>1
  <2> QED  BY <2>2
<1>4. step \in [Nat \X Seq(Byte) -> Seq(Byte)]
  <2>1. \A v \in Nat : (v % Base) + Base \in Byte
    <3> TAKE v \in Nat
    <3> DEFINE c == v % Base
               b == Base
    <3>1. c \in 0 .. b - 1 /\ b \in Nat /\ Byte = 0 .. 2 * b - 1
      BY <1>1, <1>2
    <3> HIDE DEF c, b
    <3>2. c + b \in Byte
      BY <3>1
    <3> QED  BY <3>2 DEF c, b
  <2>2. \A c \in Byte : \A t \in Seq(Byte) : <<c>> \o t \in Seq(Byte)
    OBVIOUS
  <2> QED  BY <2>1, <2>2
<1>5. d \in [Nat -> Nat]
  BY <1>2
<1>6. \A v \in Nat \ small : d[v] < v
  <2> DEFINE b == Base
  <2>1. b \in Nat /\ b > 1
    BY <1>1
  <2> HIDE DEF b
  <2>2. \A v \in Nat : v >= b => v \div b < v
    <3>1. TAKE v \in Nat
    <3>2. HAVE v >= b
    <3>3. v \div b \in Nat /\ b * (v \div b) <= v
      BY <2>1
    <3>4. v \div b = 0 \/ v \div b < b * (v \div b)
      BY <2>1, <3>3
    <3> QED  BY <2>1, <3>2, <3>3, <3>4
  <2> QED  BY <2>1, <2>2 DEF b
<1>7. \E f \in [Nat -> Seq(Byte)] : Descends(f, small, first, step, d)
  <2>1. small \in SUBSET Nat
    OBVIOUS
  <2> DEFINE S == Seq(Byte)
  <2>2. first \in [Nat -> S] /\ step \in [Nat \X S -> S]
    BY <1>3, <1>4
  <2> HIDE DEF small, first, step, d, S
  <2>3. \E f \in [Nat -> S] : Descends(f, small, first, step, d)
    BY <1>5, <1>6, <2>1, <2>2, Descent
  <2> QED  BY <2>3 DEF S
<1>8. PICK f \in [Nat -> Seq(Byte)] :
        \A v \in Nat : f[v] = IF v \in small THEN first[v] ELSE step[<<v, f[d[v]]>>]
  <2> HIDE DEF small, first, step, d
  <2> QED  BY <1>7 DEF Descends
<1>9. \A v \in Nat : f[v] = Body(v, f)
  <2> TAKE v \in Nat
  <2>1. v \in small <=> v < Base
    OBVIOUS
  <2>2. v < Base => v % (2 * Base) = v
    <3> DEFINE b == Base
    <3>1. b \in Nat
      BY <1>1
    <3> HIDE DEF b
    <3>2. v < b => v % (2 * b) = v
      BY <3>1
    <3> QED  BY <3>2 DEF b
  <2>3. first[v] = <<v % (2 * Base)>> /\ d[v] = v \div Base /\ d[v] \in Nat
    BY <1>2
  <2>4. step[<<v, f[d[v]]>>] = <<(v % Base) + Base>> \o f[d[v]]
    BY <2>3
  <2> HIDE DEF small, first, step, d
  <2> QED  BY <1>8, <2>1, <2>2, <2>3, <2>4
<1>10. f = [v \in Nat |-> Body(v, f)]
  BY <1>9
<1>11. VarintLoop = CHOOSE g : g = [v \in Nat |-> Body(v, g)]
  BY DEF VarintLoop
<1>12. VarintLoop = [v \in Nat |-> Body(v, VarintLoop)]
  <2> HIDE DEF Body
  <2> QED  BY <1>10, <1>11
<1>13. \A v \in Nat : VarintLoop[v] = Body(v, VarintLoop)
  BY <1>12
<1> DEFINE Bad == {v \in Nat : VarintLoop[v] # f[v]}
<1>14. Bad = {}
  <2> SUFFICES ASSUME Bad # {} PROVE FALSE
    OBVIOUS
  <2>1. PICK v \in Bad : \A u \in Bad : v <= u
    <3>1. Bad \in SUBSET Nat
      OBVIOUS
    <3> HIDE DEF Bad
    <3> QED  BY <3>1, LeastNat
  <2>2. v \in Nat /\ VarintLoop[v] # f[v]
    OBVIOUS
  <2>3. ~ (v < Base)
    BY <1>9, <1>13, <2>2
  <2>4. v \div Base \in Nat /\ v \div Base < v
    BY <1>2, <1>6, <2>2, <2>3
  <2>5. VarintLoop[v \div Base] = f[v \div Base]
    <3>1. v \div Base \notin Bad
      <4> HIDE DEF Bad
      <4> QED  BY <2>1, <2>2, <2>4
    <3> QED  BY <2>4, <3>1
  <2>6. Body(v, VarintLoop) = Body(v, f)
    BY <2>5
  <2> HIDE DEF Body
  <2>7. VarintLoop[v] = Body(v, VarintLoop) /\ f[v] = Body(v, f)
    BY <1>9, <1>13, <2>2
  <2> QED  BY <2>2, <2>6, <2>7
<1>15. VarintLoop = f
  BY <1>12, <1>14
<1> QED  BY <1>13, <1>15

-----------------------------------------------------------------------------
(* varint_len. *)

\* How many bits a positive number has.
LEMMA BitLenIs ==
  ASSUME NEW v \in Nat \ {0}
  PROVE  /\ BitLen(v) \in 1 .. v /\ v < 2 ^ BitLen(v) /\ 2 ^ (BitLen(v) - 1) <= v
         /\ \A n \in Nat \ {0} : v < 2 ^ n /\ 2 ^ (n - 1) <= v => BitLen(v) = n
<1> DEFINE Fits(n) == v < 2 ^ n /\ 2 ^ (n - 1) <= v
           Some == {n \in Nat : n <= v /\ v < 2 ^ n}
<1>1. \E n \in 1 .. v : Fits(n)
  <2>1. v < 2 ^ v /\ v \in Some
    BY PowerIs
  <2>2. PICK n \in Some : \A k \in Some : n <= k
    <3>1. Some \in SUBSET Nat /\ Some # {}
      BY <2>1
    <3> HIDE DEF Some
    <3> QED  BY <3>1, LeastNat
  <2>3. n \in Nat /\ n <= v /\ v < 2 ^ n
    OBVIOUS
  <2>4. n # 0
    <3>1. n = 0 => 2 ^ n = 1
      BY PowerZero
    <3> QED  BY <2>3, <3>1
  <2> DEFINE k == n - 1
  <2>5. k \in Nat /\ k < n /\ k <= v
    BY <2>3, <2>4
  <2>6. 2 ^ k \in Nat
    BY <2>5, PowerIs
  <2>7. ~ (v < 2 ^ k)
    <3> HIDE DEF k
    <3>1. k \notin Some
      <4> HIDE DEF Some
      <4> QED  BY <2>2, <2>3, <2>5
    <3> QED  BY <2>5, <3>1
  <2>8. n \in 1 .. v /\ Fits(n)
    BY <2>3, <2>4, <2>6, <2>7
  <2> QED  BY <2>8
<1>2. \A i, j \in Nat \ {0} : Fits(i) /\ Fits(j) => i = j
  <2>1. ASSUME NEW i \in Nat \ {0}, NEW j \in Nat \ {0}, Fits(i), Fits(j), i < j  PROVE FALSE
    <3> DEFINE k == j - 1
    <3>1. k \in Nat /\ i \in Nat /\ i <= k
      BY <2>1
    <3>2. v < 2 ^ i /\ 2 ^ k <= v /\ 2 ^ i \in Nat /\ 2 ^ k \in Nat
      BY <2>1, <3>1, PowerIs
    <3> HIDE DEF k, Fits
    <3>3. ~ (k < i)
      BY <3>1
    <3>4. ~ (2 ^ k < 2 ^ i)
      BY <3>1, <3>3, PowerOrder
    <3> QED  BY <3>2, <3>4
  <2> HIDE DEF Fits
  <2>2. \A i, j \in Nat \ {0} : i < j \/ j < i \/ i = j
    OBVIOUS
  <2> QED  BY <2>1, <2>2
<1> DEFINE In(n) == v < 2 ^ n /\ (n > 1 => 2 ^ (n - 1) <= v)
<1>3. \A n \in 1 .. v + 1 : In(n) <=> Fits(n)
  <2> TAKE n \in 1 .. v + 1
  <2>1. n = 1 => 2 ^ (n - 1) = 1
    <3>1. n = 1 => n - 1 = 0
      OBVIOUS
    <3> QED  BY <3>1, PowerZero
  <2> QED  BY <2>1
<1>4. BitLen(v) = CHOOSE n \in 1 .. v + 1 : In(n)
  BY DEF BitLen
<1>5. BitLen(v) \in 1 .. v + 1 /\ Fits(BitLen(v))
  <2> HIDE DEF In, Fits
  <2>1. \E n \in 1 .. v + 1 : In(n)
    <3>1. 1 .. v \subseteq 1 .. v + 1
      OBVIOUS
    <3> QED  BY <1>1, <1>3, <3>1
  <2> QED  BY <1>3, <1>4, <2>1
<1>6. BitLen(v) \in Nat \ {0} /\ \A n \in Nat \ {0} : Fits(n) => BitLen(v) = n
  <2> HIDE DEF Fits
  <2> QED  BY <1>2, <1>5
<1>7. BitLen(v) \in 1 .. v
  <2>1. PICK n \in 1 .. v : Fits(n)
    BY <1>1
  <2> HIDE DEF Fits
  <2> QED  BY <1>6, <2>1
<1> QED  BY <1>5, <1>6, <1>7

\* A number whose quotient by the base has b bits has G more.
LEMMA BitLenStep ==
  ASSUME NEW v \in Nat, v >= Base
  PROVE  /\ v \div Base \in Nat \ {0} /\ v \div Base < v
         /\ BitLen(v) = BitLen(v \div Base) + G
<1> DEFINE q == v \div Base
           b == Base
           n == BitLen(q)
<1>0. G \in Nat \ {0}
  BY WireAssumption
<1>1. b \in Nat /\ b > 1 /\ v \in Nat /\ v >= b /\ q = v \div b
  BY BaseIs
<1>2. q \in Nat /\ q >= 1 /\ q < v /\ q * b <= v /\ v < (q + 1) * b
  <2> HIDE DEF b
  <2>1. q \in Nat /\ q * b <= v /\ v < (q + 1) * b
    BY <1>1
  <2>2. q >= 1
    <3>1. q = 0 => (q + 1) * b = b
      BY <1>1
    <3> QED  BY <1>1, <2>1, <3>1
  <2>3. q < q * b
    BY <1>1, <2>2, <2>1
  <2> QED  BY <1>1, <2>1, <2>2, <2>3
<1> HIDE DEF q
<1>3. q \in Nat \ {0}
  BY <1>2
<1>4. n \in 1 .. q /\ q < 2 ^ n /\ 2 ^ (n - 1) <= q
  BY <1>3, BitLenIs
<1> HIDE DEF n
<1>5. n \in Nat \ {0} /\ n - 1 \in Nat /\ n + G \in Nat \ {0} /\ (n - 1) + G = (n + G) - 1
  BY <1>0, <1>3, <1>4
<1>7. 2 ^ (n + G) = 2 ^ n * b /\ 2 ^ ((n - 1) + G) = 2 ^ (n - 1) * b
  BY <1>0, <1>5, PowerSum DEF Base
<1>8. 2 ^ n \in Nat /\ 2 ^ (n - 1) \in Nat
  BY <1>5, PowerIs
<1>9. (n - 1) + G = (n + G) - 1
  BY <1>5
<1>10. v < 2 ^ (n + G) /\ 2 ^ ((n + G) - 1) <= v
  <2> DEFINE c == 2 ^ n
             d == 2 ^ (n - 1)
  <2>1. c \in Nat /\ d \in Nat /\ d <= q /\ q + 1 <= c
    BY <1>2, <1>4, <1>8
  <2> HIDE DEF b, c, d
  <2>2. d * b <= q * b /\ (q + 1) * b <= c * b
    BY <1>1, <1>2, <2>1
  <2>3. d * b <= v /\ v < c * b
    <3>1. d * b \in Nat /\ c * b \in Nat /\ q * b \in Nat /\ (q + 1) * b \in Nat
      BY <1>1, <1>2, <2>1
    <3> QED  BY <1>1, <1>2, <2>2, <3>1
  <2> QED  BY <1>7, <1>9, <2>3 DEF c, d
<1>11. BitLen(v) = n + G
  <2>1. v \in Nat \ {0}
    BY <1>1
  <2>2. \A k \in Nat \ {0} : v < 2 ^ k /\ 2 ^ (k - 1) <= v => BitLen(v) = k
    BY <2>1, BitLenIs
  <2>3. n + G \in Nat \ {0}
    BY <1>5
  <2> QED  BY <1>10, <2>2, <2>3, Zenon
<1> QED  BY <1>2, <1>3, <1>11 DEF q, n

\* The loop of write_varint writes as many bytes as varint_len says, for every
\* number and every width of bytes.
THEOREM VarintLenIs ==
  ASSUME NEW v \in Nat \ {0}
  PROVE  /\ VarintLoop[v] \in Seq(Byte)
         /\ VarintLen(v) \in Nat \ {0} /\ Len(VarintLoop[v]) = VarintLen(v)
<1>0. G \in Nat \ {0}
  BY WireAssumption
<1>1. Base \in Nat \ {0, 1}
  BY BaseIs
<1>2. /\ VarintLoop \in [Nat -> Seq(Byte)]
      /\ \A u \in Nat : VarintLoop[u] = IF u < Base THEN <<u>>
                                        ELSE <<(u % Base) + Base>> \o VarintLoop[u \div Base]
  BY VarintLoopIs
<1> DEFINE Fine(u) == VarintLen(u) \in Nat \ {0} /\ Len(VarintLoop[u]) = VarintLen(u)
           Bad == {u \in Nat : u # 0 /\ ~ Fine(u)}
<1>3. Bad = {}
  <2> SUFFICES ASSUME Bad # {} PROVE FALSE
    OBVIOUS
  <2>1. PICK u \in Bad : \A k \in Bad : u <= k
    <3>1. Bad \in SUBSET Nat
      OBVIOUS
    <3> HIDE DEF Bad
    <3> QED  BY <3>1, LeastNat
  <2>2. u \in Nat \ {0} /\ ~ Fine(u)
    OBVIOUS
  <2> DEFINE n == BitLen(u)
  <2>3. n \in 1 .. u /\ u < 2 ^ n /\ 2 ^ (n - 1) <= u
    BY <2>2, BitLenIs
  <2>4. VarintLen(u) = (n + G - 1) \div G
    BY DEF VarintLen
  <2> HIDE DEF n
  <2>5. CASE u < Base
    <3>1. n <= G
      <4> SUFFICES ASSUME G < n  PROVE FALSE
        BY <1>0, <2>3
      <4> DEFINE k == n - 1
      <4>1. k \in Nat /\ G \in Nat /\ ~ (k < G)
        BY <1>0, <2>2, <2>3
      <4>2. 2 ^ k <= u /\ u < 2 ^ G
        BY <2>3, <2>5 DEF Base
      <4> HIDE DEF k
      <4>3. 2 ^ k \in Nat /\ 2 ^ G \in Nat /\ ~ (2 ^ k < 2 ^ G)
        BY <4>1, PowerIs, PowerOrder
      <4> QED  BY <2>2, <4>2, <4>3
    <3>2. (n + G - 1) \div G = 1
      BY <1>0, <2>3, <3>1
    <3>3. VarintLoop[u] = <<u>>
      BY <1>2, <2>2, <2>5
    <3>4. Len(<<u>>) = 1
      OBVIOUS
    <3> QED  BY <2>2, <2>4, <3>2, <3>3, <3>4
  <2>6. CASE ~ (u < Base)
    <3> DEFINE q == u \div Base
    <3>1. q \in Nat \ {0} /\ q < u /\ n = BitLen(q) + G
      <4>1. u >= Base
        BY <1>1, <2>2, <2>6
      <4> QED  BY <1>1, <2>2, <4>1, BitLenStep DEF n
    <3>2. VarintLoop[u] = <<(u % Base) + Base>> \o VarintLoop[q]
      BY <1>2, <2>2, <2>6
    <3> HIDE DEF q
    <3>3. q \notin Bad /\ q \in Nat
      <4> HIDE DEF Bad
      <4> QED  BY <2>1, <2>2, <3>1
    <3>4. Fine(q)
      <4> HIDE DEF Fine
      <4> QED  BY <3>1, <3>3
    <3> DEFINE b == BitLen(q)
               x == b + G - 1
    <3>5. VarintLen(q) = x \div G /\ n = b + G
      BY <3>1 DEF VarintLen
    <3> HIDE DEF b
    <3>6. n + G - 1 = x + G /\ x \in Nat
      <4>2. b \in 1 .. q
        BY <3>1, BitLenIs DEF b
      <4>3. b \in Nat \ {0}
        BY <3>1, <4>2
      <4> QED  BY <1>0, <3>5, <4>3
    <3> HIDE DEF x
    <3>7. (x + G) \div G = x \div G + 1
      BY <1>0, <3>6
    <3>8. VarintLen(u) = VarintLen(q) + 1
      BY <2>4, <3>5, <3>6, <3>7
    <3>9. \A c, t : t \in Seq(Byte) => Len(<<c>> \o t) = Len(t) + 1
      <4> SUFFICES ASSUME NEW c, NEW t \in Seq(Byte)  PROVE Len(<<c>> \o t) = Len(t) + 1
        OBVIOUS
      <4>1. <<c>> \in Seq(Byte \cup {c}) /\ t \in Seq(Byte \cup {c}) /\ Len(<<c>>) = 1
        OBVIOUS
      <4> QED  BY <4>1, ConcatProperties
    <3>10. VarintLoop[q] \in Seq(Byte)
      BY <1>2, <3>3
    <3>11. Len(VarintLoop[u]) = Len(VarintLoop[q]) + 1
      BY <3>2, <3>9, <3>10
    <3> QED  BY <2>2, <3>4, <3>8, <3>11
  <2> QED  BY <2>5, <2>6
<1>4. v \in Nat /\ v \notin Bad
  <2> HIDE DEF Bad
  <2> QED  BY <1>3
<1>5. Fine(v)
  <2> HIDE DEF Fine
  <2> QED  BY <1>4
<1> QED  BY <1>2, <1>4, <1>5
-----------------------------------------------------------------------------
(* Numbers and their digits. *)

\* f gives the numbers of the first digits.
Sums(f, digits, g) == f[0] = 0 /\ \A k \in 1 .. Len(digits) : f[k] = f[k - 1] + digits[k] * 2 ^ (g * (k - 1))

\* Powers of the place of a digit.
LEMMA PlaceIs ==
  ASSUME NEW g \in Nat, NEW n \in Nat
  PROVE  /\ g * n \in Nat /\ 2 ^ (g * n) \in Nat \ {0}
         /\ 2 ^ (g * (n + 1)) = 2 ^ (g * n) * 2 ^ g
         /\ g * 0 = 0 /\ 2 ^ (g * 0) = 1
<1>1. g * n \in Nat /\ g * (n + 1) = g * n + g /\ g * 0 = 0
  OBVIOUS
<1>2. 2 ^ (g * n) \in Nat \ {0}
  BY <1>1, PowerIs
<1>3. 2 ^ (g * n + g) = 2 ^ (g * n) * 2 ^ g
  BY <1>1, PowerSum
<1> QED  BY <1>1, <1>2, <1>3, PowerZero

\* The sum of the digits is what such a function ends with.
LEMMA NumberIs ==
  ASSUME NEW digits, Len(digits) \in Nat, NEW g, NEW f \in [0 .. Len(digits) -> Nat], Sums(f, digits, g)
  PROVE  Number(digits, g) = f[Len(digits)]
<1> DEFINE n == Len(digits)
           Body(s) == [k \in 0 .. n |-> IF k = 0 THEN 0 ELSE s[k - 1] + digits[k] * 2 ^ (g * (k - 1))]
           sum == CHOOSE s : s = Body(s)
<1>1. Number(digits, g) = sum[n]
  BY DEF Number
<1>2. f = Body(f)
  <2>1. \A k \in 0 .. n : f[k] = Body(f)[k]
    <3> TAKE k \in 0 .. n
    <3>1. k # 0 => k \in 1 .. n
      OBVIOUS
    <3> QED  BY <3>1 DEF Sums
  <2> HIDE DEF n
  <2> QED  BY <2>1 DEF n
<1>3. sum = Body(sum)
  <2> HIDE DEF Body
  <2> QED  BY <1>2
<1> HIDE DEF sum
<1>4. sum[0] = 0 /\ \A k \in 1 .. n : sum[k] = sum[k - 1] + digits[k] * 2 ^ (g * (k - 1))
  <2>1. \A k \in 0 .. n : sum[k] = Body(sum)[k]
    BY <1>3
  <2>2. \A k \in 1 .. n : k \in 0 .. n /\ k # 0
    OBVIOUS
  <2> QED  BY <2>1, <2>2
<1> HIDE DEF Body
<1> DEFINE Bad == {k \in 0 .. n : sum[k] # f[k]}
<1>5. Bad = {}
  <2> SUFFICES ASSUME Bad # {} PROVE FALSE
    OBVIOUS
  <2>1. PICK k \in Bad : \A j \in Bad : k <= j
    <3>1. Bad \in SUBSET Nat
      OBVIOUS
    <3> HIDE DEF Bad
    <3> QED  BY <3>1, LeastNat
  <2>2. k \in 0 .. n /\ sum[k] # f[k]
    OBVIOUS
  <2>3. k # 0
    BY <1>4, <2>2 DEF Sums
  <2>4. k \in 1 .. n /\ k - 1 \in 0 .. n /\ ~ (k <= k - 1)
    BY <2>2, <2>3
  <2>5. sum[k - 1] = f[k - 1]
    BY <2>1, <2>4
  <2> QED  BY <1>4, <2>2, <2>4, <2>5 DEF Sums
<1> QED  BY <1>1, <1>5

\* There is such a function.
LEMMA SumsExist ==
  ASSUME NEW digits \in Seq(Nat), NEW g \in Nat
  PROVE  \E f \in [0 .. Len(digits) -> Nat] : Sums(f, digits, g)
<1> DEFINE n == Len(digits)
           step == [p \in (1 .. n) \X Nat |-> p[2] + digits[p[1]] * 2 ^ (g * (p[1] - 1))]
<1>1. n \in Nat /\ 0 \in Nat /\ \A k \in 1 .. n : digits[k] \in Nat
  OBVIOUS
<1>2. \A k \in 1 .. n : digits[k] * 2 ^ (g * (k - 1)) \in Nat
  <2> TAKE k \in 1 .. n
  <2>1. k - 1 \in Nat
    BY <1>1
  <2>2. 2 ^ (g * (k - 1)) \in Nat
    BY <2>1, PlaceIs
  <2>3. \A x, y \in Nat : x * y \in Nat
    OBVIOUS
  <2> QED  BY <1>1, <2>2, <2>3
<1> DEFINE c(k) == digits[k] * 2 ^ (g * (k - 1))
<1>3. step \in [(1 .. n) \X Nat -> Nat]
  <2>1. step = [p \in (1 .. n) \X Nat |-> p[2] + c(p[1])] /\ \A k \in 1 .. n : c(k) \in Nat
    BY <1>2
  <2> HIDE DEF c
  <2>2. \A p \in (1 .. n) \X Nat : p[1] \in 1 .. n /\ p[2] \in Nat
    OBVIOUS
  <2>3. \A p \in (1 .. n) \X Nat : p[2] + c(p[1]) \in Nat
    BY <2>1, <2>2
  <2> HIDE DEF step
  <2> QED  BY <2>1, <2>3
<1>4. \E f \in [0 .. n -> Nat] : Climbs(f, n, 0, step)
  <2> HIDE DEF n, step
  <2> QED  BY <1>1, <1>3, Recursion
<1>5. PICK f \in [0 .. n -> Nat] : Climbs(f, n, 0, step)
  BY <1>4
<1>6. \A k \in 1 .. n : f[k - 1] \in Nat
  <2> TAKE k \in 1 .. n
  <2>1. k - 1 \in 0 .. n
    BY <1>1
  <2> QED  BY <2>1
<1>7. \A k \in 1 .. n : step[<<k, f[k - 1]>>] = f[k - 1] + digits[k] * 2 ^ (g * (k - 1))
  BY <1>6
<1> HIDE DEF step
<1>8. Sums(f, digits, g)
  BY <1>5, <1>7 DEF Sums, Climbs
<1> QED  BY <1>8

\* One more digit counts for its place.
LEMMA NumberAppend ==
  ASSUME NEW digits \in Seq(Nat), NEW g \in Nat
  PROVE  /\ Number(digits, g) \in Nat
         /\ digits = <<>> => Number(digits, g) = 0
         /\ \A d \in Nat : Number(Append(digits, d), g) = Number(digits, g) + d * 2 ^ (g * Len(digits))
<1> DEFINE n == Len(digits)
<1>1. PICK f \in [0 .. n -> Nat] : Sums(f, digits, g)
  BY SumsExist
<1>2. n \in Nat
  OBVIOUS
<1>3. Number(digits, g) = f[n] /\ f[n] \in Nat
  BY <1>1, <1>2, NumberIs
<1>4. digits = <<>> => Number(digits, g) = 0
  <2>1. digits = <<>> => n = 0
    OBVIOUS
  <2> QED  BY <1>1, <1>3, <2>1 DEF Sums
<1>5. ASSUME NEW d \in Nat
      PROVE  Number(Append(digits, d), g) = Number(digits, g) + d * 2 ^ (g * n)
  <2> DEFINE more == Append(digits, d)
             last == d * 2 ^ (g * n)
             h == [k \in 0 .. n + 1 |-> IF k = n + 1 THEN f[n] + last ELSE f[k]]
  <2>1. more \in Seq(Nat) /\ Len(more) = n + 1 /\ more[n + 1] = d /\ \A k \in 1 .. n : more[k] = digits[k]
    BY AppendProperties
  <2>2. last \in Nat
    <3>1. 2 ^ (g * n) \in Nat
      BY <1>2, PlaceIs
    <3>2. \A x, y \in Nat : x * y \in Nat
      OBVIOUS
    <3> QED  BY <3>1, <3>2
  <2>3. f[n] + last \in Nat
    BY <1>3, <2>2
  <2>4. h \in [0 .. n + 1 -> Nat]
    <3>1. \A k \in 0 .. n + 1 : k = n + 1 \/ k \in 0 .. n
      BY <1>2
    <3> HIDE DEF last
    <3> QED  BY <1>1, <2>3, <3>1
  <2>5. h[n + 1] = f[n] + last /\ \A k \in 0 .. n : h[k] = f[k]
    BY <1>2
  <2> HIDE DEF h, more
  <2>6. Sums(h, more, g)
    <3>1. h[0] = 0
      BY <1>1, <1>2, <2>5 DEF Sums
    <3>2. ASSUME NEW k \in 1 .. n + 1
          PROVE  h[k] = h[k - 1] + more[k] * 2 ^ (g * (k - 1))
      <4>1. k - 1 \in 0 .. n
        BY <1>2
      <4>2. h[k - 1] = f[k - 1]
        BY <2>5, <4>1
      <4>3. CASE k = n + 1
        <5>1. k - 1 = n
          BY <1>2, <4>3
        <5> QED  BY <2>1, <2>5, <4>2, <4>3, <5>1
      <4>4. CASE k # n + 1
        <5>1. k \in 1 .. n /\ k \in 0 .. n
          BY <1>2, <4>4
        <5> QED  BY <1>1, <2>1, <2>5, <4>2, <5>1 DEF Sums
      <4> QED  BY <4>3, <4>4
    <3> QED  BY <2>1, <3>1, <3>2 DEF Sums
  <2>7. Number(more, g) = h[n + 1]
    <3>1. Len(more) = n + 1 /\ n + 1 \in Nat
      BY <1>2, <2>1
    <3> QED  BY <2>4, <2>6, <3>1, NumberIs
  <2> QED  BY <1>3, <2>5, <2>7 DEF more
<1> QED  BY <1>3, <1>4, <1>5

\* A number is less than the power of its length.
LEMMA NumberBound ==
  ASSUME NEW digits \in Seq(Nat), NEW g \in Nat, \A k \in 1 .. Len(digits) : digits[k] < 2 ^ g
  PROVE  Number(digits, g) < 2 ^ (g * Len(digits))
<1> DEFINE n == Len(digits)
           p(k) == 2 ^ (g * k)
           b == 2 ^ g
<1>1. PICK f \in [0 .. n -> Nat] : Sums(f, digits, g)
  BY SumsExist
<1>2. n \in Nat /\ Number(digits, g) = f[n]
  BY <1>1, NumberIs
<1>3. p(0) = 1 /\ b \in Nat \ {0} /\ \A k \in 1 .. n : p(k - 1) \in Nat \ {0} /\ p(k) = p(k - 1) * b
  <2>1. p(0) = 1 /\ b \in Nat \ {0}
    BY PlaceIs, PowerIs
  <2>2. ASSUME NEW k \in 1 .. n  PROVE p(k - 1) \in Nat \ {0} /\ p(k) = p(k - 1) * b
    <3>1. k - 1 \in Nat /\ (k - 1) + 1 = k
      BY <1>2
    <3> QED  BY <3>1, PlaceIs
  <2> QED  BY <2>1, <2>2
<1>4. f[0] = 0 /\ \A k \in 1 .. n : f[k] = f[k - 1] + digits[k] * p(k - 1)
  BY <1>1 DEF Sums
<1>5. \A k \in 1 .. n : digits[k] \in Nat /\ digits[k] <= b - 1
  <2> TAKE k \in 1 .. n
  <2>1. digits[k] \in Nat /\ digits[k] < b
    OBVIOUS
  <2> HIDE DEF b
  <2> QED  BY <1>3, <2>1
<1> HIDE DEF p, b
<1> DEFINE Bad == {k \in 0 .. n : ~ (f[k] < p(k))}
<1>6. Bad = {}
  <2> SUFFICES ASSUME Bad # {} PROVE FALSE
    OBVIOUS
  <2>1. PICK k \in Bad : \A j \in Bad : k <= j
    <3>1. Bad \in SUBSET Nat
      OBVIOUS
    <3> HIDE DEF Bad
    <3> QED  BY <3>1, LeastNat
  <2>2. k \in 0 .. n /\ ~ (f[k] < p(k))
    OBVIOUS
  <2>3. k # 0
    BY <1>3, <1>4, <2>2
  <2>4. k \in 1 .. n /\ k - 1 \in 0 .. n /\ ~ (k <= k - 1)
    BY <1>2, <2>2, <2>3
  <2>5. f[k - 1] < p(k - 1) /\ f[k - 1] \in Nat
    BY <2>1, <2>4
  <2> DEFINE c == p(k - 1)
             d == digits[k]
  <2>6. c \in Nat \ {0} /\ p(k) = c * b /\ d \in Nat /\ d <= b - 1 /\ f[k] = f[k - 1] + d * c
    BY <1>3, <1>4, <1>5, <2>4
  <2> HIDE DEF c, d
  <2>7. d * c <= (b - 1) * c /\ (b - 1) * c = c * b - c /\ d * c \in Nat /\ c * b \in Nat
    BY <1>3, <2>6
  <2> QED  BY <2>2, <2>5, <2>6, <2>7 DEF c
<1> QED  BY <1>2, <1>6 DEF p

\* The n lowest digits of a number make its remainder.
LEMMA NumberOfDigits ==
  ASSUME NEW v \in Nat, NEW n \in Nat, NEW g \in Nat,
         NEW digits, Len(digits) = n,
         \A k \in 1 .. n : digits[k] = (v \div 2 ^ (g * (k - 1))) % 2 ^ g
  PROVE  Number(digits, g) = v % 2 ^ (g * n)
<1> DEFINE p(k) == 2 ^ (g * k)
           b == 2 ^ g
           f == [k \in 0 .. n |-> v % p(k)]
<1>1. p(0) = 1 /\ b \in Nat \ {0} /\ \A k \in 0 .. n : p(k) \in Nat \ {0}
  BY PlaceIs, PowerIs
<1>2. \A k \in 1 .. n : p(k) = p(k - 1) * b
  <2> TAKE k \in 1 .. n
  <2>1. k - 1 \in Nat /\ (k - 1) + 1 = k
    OBVIOUS
  <2> QED  BY <2>1, PlaceIs
<1>3. \A k \in 1 .. n : digits[k] = (v \div p(k - 1)) % b
  OBVIOUS
<1> HIDE DEF p, b
<1>4. \A k \in 0 .. n : v % p(k) \in Nat
  <2> TAKE k \in 0 .. n
  <2> DEFINE a == p(k)
  <2>1. a \in Nat \ {0}
    BY <1>1
  <2> HIDE DEF a
  <2>2. v % a \in Nat
    BY <2>1
  <2> QED  BY <2>2 DEF a
<1>5. f \in [0 .. n -> Nat]
  BY <1>4
<1>6. \A k \in 1 .. n : f[k] = f[k - 1] + digits[k] * p(k - 1)
  <2> TAKE k \in 1 .. n
  <2>1. k - 1 \in 0 .. n
    OBVIOUS
  <2> DEFINE a == p(k - 1)
  <2>2. a \in Nat \ {0}
    BY <1>1, <2>1
  <2> HIDE DEF a
  <2>3. v % (a * b) = (v % a) + ((v \div a) % b) * a
    <3>1. v \in Int /\ b \in Nat \ {0}
      BY <1>1
    <3> QED  BY <2>2, <3>1, DivisionTwice
  <2>4. f[k] = v % (a * b) /\ f[k - 1] = v % a /\ digits[k] = (v \div a) % b
    BY <1>2, <1>3, <2>1 DEF a
  <2> QED  BY <2>3, <2>4 DEF a
<1>7. f[0] = 0
  <2>1. v % 1 = 0
    OBVIOUS
  <2> QED  BY <1>1, <2>1
<1> HIDE DEF f
<1>8. Sums(f, digits, g)
  BY <1>6, <1>7 DEF Sums, p
<1>9. Number(digits, g) = f[n]
  BY <1>5, <1>8, NumberIs
<1> QED  BY <1>9 DEF f, p

-----------------------------------------------------------------------------
(* Varints in a byte string. *)

\* The payloads of the bytes after position i, up to position j.
Low(s, i, j) == [k \in 1 .. j - i |-> s[i + k] % Base]

\* There is a varint from i to j, with this value.
VarintAt(s, i, j, v) ==
  /\ j - i \in 1 .. MaxVarint
  /\ \A k \in i + 1 .. j : Continues(s[k]) <=> k < j
  /\ v = AsUnsigned(Number(Low(s, i, j), G), W)

\* The bytes of s from i to j are those of u from m.
Same(s, i, j, u, m) == \A k \in 1 .. j - i : s[i + k] = u[m + k]

\* The longest varint has the bits of the integer, and no byte too many.
LEMMA MaxVarintIs ==
  /\ MaxVarint \in Nat \ {0}
  /\ \A k \in Nat : G * k < W <=> k < MaxVarint
  /\ \A v \in UInt(W) \ {0} : VarintLen(v) <= MaxVarint
<1>0. G \in Nat \ {0} /\ W \in Nat \ {0} /\ W - 1 \in Nat
  BY WireAssumption
<1> DEFINE m == 2 ^ W
           h == 2 ^ (W - 1)
           x == W + G - 1
<1>1. m \in Nat \ {0} /\ h \in Nat \ {0} /\ m = 2 * h
  BY <1>0, HalfIs
<1>2. m - 1 \in Nat \ {0}
  BY <1>1
<1>3. BitLen(m - 1) = W
  <2>1. m - 1 < 2 ^ W /\ 2 ^ (W - 1) <= m - 1
    <3>1. m - 1 < m /\ h <= m - 1
      <4> HIDE DEF m, h
      <4> QED  BY <1>1
    <3> QED  BY <3>1
  <2> HIDE DEF m
  <2> QED  BY <1>0, <1>2, <2>1, BitLenIs
<1>4. MaxVarint = x \div G
  BY <1>3 DEF MaxVarint, VarintLen
<1>5. \A y \in Nat : y \div G \in Nat /\ G * (y \div G) <= y /\ y < G * (y \div G) + G
  BY <1>0
<1>6. x \in Nat /\ x >= G
  BY <1>0
<1>7. MaxVarint \in Nat /\ G * MaxVarint <= x /\ x < G * MaxVarint + G
  BY <1>4, <1>5, <1>6
<1> HIDE DEF x
<1>8. \A a, b \in Nat : (a < b => G * a + G <= G * b) /\ (a >= b => G * a >= G * b)
  BY <1>0
<1>9. MaxVarint # 0
  BY <1>0, <1>6, <1>7
<1>10. ASSUME NEW k \in Nat  PROVE G * k < W <=> k < MaxVarint
  <2>1. x = W + G - 1 /\ G * k \in Nat /\ G * MaxVarint \in Nat
    BY <1>0, <1>7 DEF x
  <2>2. k < MaxVarint => G * k + G <= G * MaxVarint
    BY <1>7, <1>8
  <2>3. k >= MaxVarint => G * k >= G * MaxVarint
    BY <1>7, <1>8
  <2> QED  BY <1>0, <1>7, <2>1, <2>2, <2>3
<1>11. ASSUME NEW v \in UInt(W) \ {0}  PROVE VarintLen(v) <= MaxVarint
  <2> DEFINE n == BitLen(v)
             y == n + G - 1
             l == VarintLen(v)
  <2>1. v \in Nat \ {0} /\ v < m
    BY <1>0, <1>1, WidthIs DEF UInt
  <2>2. n \in Nat \ {0} /\ 2 ^ (n - 1) <= v
    <3>1. n \in 1 .. v /\ 2 ^ (n - 1) <= v
      BY <2>1, BitLenIs
    <3> QED  BY <2>1, <3>1
  <2>3. n <= W
    <3> DEFINE k == n - 1
    <3>1. k \in Nat /\ 2 ^ k \in Nat /\ 2 ^ W \in Nat /\ 2 ^ k < 2 ^ W
      <4>1. k \in Nat
        BY <2>2
      <4>2. 2 ^ k \in Nat /\ 2 ^ W \in Nat
        BY <1>0, <4>1, PowerIs
      <4> QED  BY <1>1, <2>1, <2>2, <4>1, <4>2
    <3> HIDE DEF k
    <3>2. k < W
      BY <1>0, <3>1, PowerOrder
    <3> QED  BY <1>0, <2>2, <3>2 DEF k
  <2>4. l = y \div G
    BY DEF VarintLen
  <2>5. y \in Nat /\ y <= x
    BY <1>0, <2>2, <2>3 DEF x
  <2> HIDE DEF n, y, l
  <2>6. l \in Nat /\ G * l <= y
    BY <1>5, <2>4, <2>5
  <2>7. MaxVarint < l => G * MaxVarint + G <= G * l
    BY <1>7, <1>8, <2>6
  <2>8. ~ (MaxVarint < l)
    <3>1. G * MaxVarint \in Nat /\ G * l \in Nat
      BY <1>0, <1>7, <2>6
    <3> QED  BY <1>0, <1>6, <1>7, <2>5, <2>6, <2>7, <3>1
  <2> QED  BY <1>7, <2>6, <2>8 DEF l
<1> QED  BY <1>7, <1>9, <1>10, <1>11

\* The payloads of bytes are digits.
LEMMA LowIs ==
  ASSUME NEW s \in Seq(Byte), NEW i \in Nat, NEW j \in Nat, i <= j, j <= Len(s)
  PROVE  /\ Low(s, i, j) \in Seq(Nat) /\ Len(Low(s, i, j)) = j - i
         /\ \A k \in 1 .. j - i : Low(s, i, j)[k] = s[i + k] % Base /\ s[i + k] % Base < 2 ^ G
         /\ i = j => Low(s, i, j) = <<>>
         /\ j < Len(s) => Low(s, i, j + 1) = Append(Low(s, i, j), s[j + 1] % Base) /\ s[j + 1] % Base \in Nat
<1>1. Base \in Nat \ {0} /\ Base = 2 ^ G /\ Byte = 0 .. 2 * Base - 1
  BY BaseIs DEF Base, Byte
<1>2. ASSUME NEW k \in 1 .. Len(s)  PROVE s[k] % Base \in Nat /\ s[k] % Base < 2 ^ G
  <2> DEFINE b == Base
             c == s[k]
  <2>1. c \in Byte /\ b \in Nat \ {0} /\ Byte = 0 .. 2 * b - 1 /\ b = 2 ^ G
    BY <1>1
  <2> HIDE DEF b, c
  <2>2. c % b \in Nat /\ c % b < b
    BY <2>1
  <2> QED  BY <2>1, <2>2 DEF b, c
<1> DEFINE d(k) == s[k] % Base
<1>3. \A k \in 1 .. Len(s) : d(k) \in Nat /\ d(k) < 2 ^ G
  BY <1>2
<1>4. Low(s, i, j) = [k \in 1 .. j - i |-> d(i + k)] /\ Low(s, i, j + 1) = [k \in 1 .. (j + 1) - i |-> d(i + k)]
  BY DEF Low
<1> HIDE DEF d
<1>5. \A k \in 1 .. j - i : i + k \in 1 .. Len(s)
  OBVIOUS
<1>6. Low(s, i, j) \in Seq(Nat) /\ Len(Low(s, i, j)) = j - i
  BY <1>3, <1>4, <1>5
<1>7. i = j => Low(s, i, j) = <<>>
  BY <1>6
<1>8. ASSUME j < Len(s)
      PROVE  Low(s, i, j + 1) = Append(Low(s, i, j), d(j + 1)) /\ d(j + 1) \in Nat
  <2>1. j + 1 \in 1 .. Len(s)
    BY <1>8
  <2>2. d(j + 1) \in Nat
    BY <1>3, <2>1
  <2> DEFINE x == Low(s, i, j + 1)
             y == Append(Low(s, i, j), d(j + 1))
             n == j - i
  <2>3. n \in Nat /\ (j + 1) - i = n + 1 /\ i + (n + 1) = j + 1
    OBVIOUS
  <2>4. \A k \in 1 .. (j + 1) - i : i + k \in 1 .. Len(s)
    BY <1>8
  <2>5. x \in Seq(Nat) /\ Len(x) = n + 1 /\ \A k \in 1 .. n + 1 : x[k] = d(i + k)
    <3>1. \A k \in 1 .. n + 1 : d(i + k) \in Nat
      BY <1>3, <2>3, <2>4
    <3>2. x = [k \in 1 .. n + 1 |-> d(i + k)]
      BY <1>4, <2>3
    <3> HIDE DEF x, n
    <3> QED  BY <2>3, <3>1, <3>2
  <2>6. y \in Seq(Nat) /\ Len(y) = n + 1 /\ y[n + 1] = d(j + 1) /\ \A k \in 1 .. n : y[k] = Low(s, i, j)[k]
    BY <1>6, <2>2, <2>3, AppendProperties
  <2>7. \A k \in 1 .. n : Low(s, i, j)[k] = d(i + k)
    BY <1>4
  <2> HIDE DEF x, y, n
  <2>8. \A k \in 1 .. n + 1 : x[k] = y[k]
    <3> TAKE k \in 1 .. n + 1
    <3>1. k = n + 1 \/ k \in 1 .. n
      BY <2>3
    <3> QED  BY <2>3, <2>5, <2>6, <2>7, <3>1
  <2>9. x = y
    BY <2>3, <2>5, <2>6, <2>8, SeqEqual
  <2> QED  BY <2>2, <2>9 DEF x, y
<1>9. \A k \in 1 .. j - i : Low(s, i, j)[k] = d(i + k) /\ d(i + k) < 2 ^ G
  BY <1>3, <1>4, <1>5
<1> QED  BY <1>6, <1>7, <1>8, <1>9 DEF d

\* Where a varint ends and what it says follows from where it begins.
LEMMA VarintUnique ==
  ASSUME NEW s, NEW i \in Nat, NEW j \in Nat, NEW k \in Nat, NEW v, NEW w,
         VarintAt(s, i, j, v), VarintAt(s, i, k, w)
  PROVE  j = k /\ v = w
<1>1. ASSUME NEW x \in Nat, NEW y \in Nat, NEW a, NEW b, VarintAt(s, i, x, a), VarintAt(s, i, y, b), x < y
      PROVE  FALSE
  <2>1. x - i \in 1 .. MaxVarint /\ MaxVarint \in Nat
    BY <1>1, MaxVarintIs DEF VarintAt
  <2>2. x \in i + 1 .. x /\ x \in i + 1 .. y
    BY <1>1, <2>1
  <2>3. ~ Continues(s[x]) /\ Continues(s[x])
    BY <1>1, <2>2 DEF VarintAt
  <2> QED  BY <2>3
<1>2. j = k
  <2>1. ~ (j < k) /\ ~ (k < j)
    BY <1>1
  <2> QED  BY <2>1
<1> QED  BY <1>2 DEF VarintAt

\* The same bytes elsewhere are the same varint.
LEMMA VarintMoves ==
  ASSUME NEW s, NEW i \in Nat, NEW j \in Nat, i <= j, NEW u, NEW m \in Nat, Same(s, i, j, u, m),
         NEW v, VarintAt(s, i, j, v)
  PROVE  VarintAt(u, m, m + (j - i), v)
<1> DEFINE n == m + (j - i)
<1>1. n \in Nat /\ n - m = j - i
  OBVIOUS
<1>2. Low(u, m, n) = Low(s, i, j)
  BY <1>1 DEF Low, Same
<1>3. ASSUME NEW k \in m + 1 .. n  PROVE Continues(u[k]) <=> k < n
  <2> DEFINE x == k - m
  <2>1. x \in 1 .. j - i /\ m + x = k /\ i + x \in i + 1 .. j /\ (i + x < j <=> k < n)
    BY <1>1
  <2>2. s[i + x] = u[m + x]
    BY <2>1 DEF Same
  <2>3. Continues(s[i + x]) <=> i + x < j
    BY <2>1 DEF VarintAt
  <2> QED  BY <2>1, <2>2, <2>3
<1> QED  BY <1>1, <1>2, <1>3 DEF VarintAt

\* Part of a byte string, byte by byte.
LEMMA PartIs ==
  ASSUME NEW s \in Seq(Byte), NEW i \in Nat, NEW j \in Nat, i <= j, j <= Len(s)
  PROVE  /\ SubSeq(s, i + 1, j) \in Seq(Byte) /\ Len(SubSeq(s, i + 1, j)) = j - i
         /\ Same(s, i, j, SubSeq(s, i + 1, j), 0) /\ Same(SubSeq(s, i + 1, j), 0, j - i, s, i)
<1> DEFINE b == SubSeq(s, i + 1, j)
<1>1. b \in Seq(Byte) /\ Len(b) = j - i /\ \A k \in 1 .. j - i : b[k] = s[i + k]
  OBVIOUS
<1> HIDE DEF b
<1>2. \A k \in 1 .. j - i : 0 + k = k
  OBVIOUS
<1> QED  BY <1>1, <1>2 DEF Same, b

\* That is what the grammar says of the bytes.
LEMMA VarintGrammar ==
  ASSUME NEW s \in Seq(Byte), NEW i \in Nat, NEW j \in Nat, i <= j, j <= Len(s), NEW v
  PROVE  IsVarint(SubSeq(s, i + 1, j)) /\ VarintOf(SubSeq(s, i + 1, j)) = v <=> VarintAt(s, i, j, v)
<1> DEFINE b == SubSeq(s, i + 1, j)
           n == j - i
<1>1. b \in Seq(Byte) /\ Len(b) = n /\ Same(s, i, j, b, 0) /\ Same(b, 0, n, s, i) /\ n \in Nat
      /\ i + (n - 0) = j /\ 0 + (j - i) = n /\ n - 0 = n
  BY PartIs
<1> HIDE DEF b, n
<1>2. IsVarint(b) /\ VarintOf(b) = v <=> VarintAt(b, 0, n, v)
  <2>1. Low(b, 0, n) = [k \in 1 .. n |-> b[k] % Base]
    <3>1. \A k \in 1 .. n : 0 + k = k
      OBVIOUS
    <3> QED  BY <1>1, <3>1 DEF Low
  <2> QED  BY <1>1, <2>1 DEF IsVarint, VarintOf, VarintAt, AsUnsigned
<1>3. ASSUME VarintAt(b, 0, n, v)  PROVE VarintAt(s, i, i + (n - 0), v)
  <2> DEFINE o == 0
  <2>1. o \in Nat /\ o <= n /\ VarintAt(b, o, n, v) /\ Same(b, o, n, s, i)
    BY <1>1, <1>3
  <2> HIDE DEF o
  <2>2. VarintAt(s, i, i + (n - o), v)
    BY <1>1, <2>1, VarintMoves
  <2> QED  BY <2>2 DEF o
<1>4. VarintAt(s, i, j, v) => VarintAt(b, 0, 0 + (j - i), v)
  BY <1>1, VarintMoves
<1> QED  BY <1>1, <1>2, <1>3, <1>4 DEF b

\* Every byte that the loop of write_varint writes has the next G bits of the
\* number, only the last does not continue, and no bit is left over.
LEMMA LoopDigits ==
  ASSUME NEW v \in Nat
  PROVE  LET b == VarintLoop[v] IN
         /\ b \in Seq(Byte) /\ Len(b) \in Nat \ {0} /\ v < 2 ^ (G * Len(b))
         /\ \A k \in 1 .. Len(b) : /\ Continues(b[k]) <=> k < Len(b)
                                   /\ b[k] % Base = (v \div 2 ^ (G * (k - 1))) % 2 ^ G
<1> DEFINE B == 2 ^ G
           p(k) == 2 ^ (G * k)
           Fine(u, b) == /\ b \in Seq(Byte) /\ Len(b) \in Nat \ {0} /\ u < p(Len(b))
                         /\ \A k \in 1 .. Len(b) : /\ b[k] >= B <=> k < Len(b)
                                                   /\ b[k] % B = (u \div p(k - 1)) % B
           Bad == {u \in Nat : ~ Fine(u, VarintLoop[u])}
<1>0. G \in Nat \ {0} /\ B \in Nat \ {0, 1} /\ Base = B /\ Byte = 0 .. 2 * B - 1
  BY WireAssumption, BaseIs DEF Base, Byte
<1>1. p(0) = 1 /\ \A k \in Nat : p(k) \in Nat \ {0} /\ p(k + 1) = p(k) * B
  BY <1>0, PlaceIs
<1>2. \A u \in Nat : VarintLoop[u] = IF u < B THEN <<u>> ELSE <<(u % B) + B>> \o VarintLoop[u \div B]
  BY <1>0, VarintLoopIs
<1> HIDE DEF B, p
<1>3. Bad = {}
  <2> SUFFICES ASSUME Bad # {} PROVE FALSE
    OBVIOUS
  <2>1. PICK u \in Bad : \A k \in Bad : u <= k
    <3>1. Bad \in SUBSET Nat
      OBVIOUS
    <3> HIDE DEF Bad
    <3> QED  BY <3>1, LeastNat
  <2>2. u \in Nat /\ ~ Fine(u, VarintLoop[u])
    OBVIOUS
  <2>3. CASE u < B
    <3> DEFINE b == <<u>>
    <3>1. u \in Byte
      BY <1>0, <2>2, <2>3
    <3>2. b \in Seq(Byte) /\ Len(b) = 1 /\ b[1] = u
      BY <3>1
    <3>3. p(1) = B /\ p(1 - 1) = 1
      <4>1. p(0 + 1) = 1 * B
        BY <1>1
      <4> QED  BY <1>0, <1>1, <4>1
    <3>4. u % B = u /\ u \div 1 = u
      BY <1>0, <2>2, <2>3
    <3>5. VarintLoop[u] = b
      BY <1>2, <2>2, <2>3
    <3> HIDE DEF b
    <3>6. Fine(u, b)
      <4>1. \A k \in 1 .. Len(b) : k = 1
        BY <3>2
      <4> QED  BY <1>0, <2>2, <2>3, <3>2, <3>3, <3>4, <4>1
    <3> QED  BY <2>2, <3>5, <3>6
  <2>4. CASE ~ (u < B)
    <3> DEFINE q == u \div B
               r == u % B
               t == VarintLoop[q]
               b == <<r + B>> \o t
    <3>1. q \in Nat /\ r \in 0 .. B - 1 /\ u = q * B + r
      <4>1. u \in Int /\ u >= 0 /\ B \in Nat \ {0}
        BY <1>0, <2>2
      <4> QED  BY <4>1, DivisionIs
    <3>2. q < u
      <4>1. q \div 1 = q /\ u >= Base
        BY <1>0, <2>2, <2>4, <3>1
      <4> QED  BY <1>0, <2>2, <4>1, BitLenStep
    <3>3. VarintLoop[u] = b
      BY <1>2, <2>2, <2>4
    <3> HIDE DEF q
    <3>4. q \notin Bad
      <4> HIDE DEF Bad
      <4> QED  BY <2>1, <2>2, <3>1, <3>2
    <3>5. Fine(q, t)
      <4> HIDE DEF Fine
      <4> QED  BY <3>1, <3>4
    <3> DEFINE n == Len(t)
    <3>6. t \in Seq(Byte) /\ n \in Nat \ {0} /\ q < p(n)
      BY <3>5
    <3>7. \A k \in 1 .. n : (t[k] >= B <=> k < n) /\ t[k] % B = (q \div p(k - 1)) % B
      BY <3>5
    <3> HIDE DEF t, Fine
    <3>8. r + B \in Byte /\ r + B >= B /\ (r + B) % B = r /\ r + B \in Nat
      <4>1. r + B = 1 * B + r /\ 1 \in Int /\ r + B \in Int
        BY <1>0, <3>1
      <4> HIDE DEF r
      <4>2. (r + B) % B = r
        BY <1>0, <3>1, <4>1, DivisionUnique
      <4> QED  BY <1>0, <3>1, <4>2
    <3>9. b \in Seq(Byte) /\ Len(b) = n + 1 /\ b[1] = r + B /\ \A k \in 2 .. n + 1 : b[k] = t[k - 1]
      <4> DEFINE c == <<r + B>>
      <4>1. c \in Seq(Byte) /\ Len(c) = 1 /\ c[1] = r + B
        BY <3>8
      <4> HIDE DEF c
      <4>2. /\ c \o t \in Seq(Byte) /\ Len(c \o t) = Len(c) + Len(t)
            /\ \A k \in 1 .. Len(c) + Len(t) : (c \o t)[k] = IF k <= Len(c) THEN c[k] ELSE t[k - Len(c)]
        BY <3>6, <4>1, ConcatProperties
      <4>3. 1 + n = n + 1 /\ 1 \in 1 .. 1 + n /\ \A k \in 2 .. n + 1 : k \in 1 .. 1 + n /\ ~ (k <= 1)
        BY <3>6
      <4> QED  BY <4>1, <4>2, <4>3 DEF c
    <3> HIDE DEF b
    <3>10. u < p(n + 1)
      <4> DEFINE c == p(n)
      <4>1. c \in Nat /\ p(n + 1) = c * B /\ q + 1 <= c
        BY <1>1, <3>1, <3>6
      <4> HIDE DEF c, r
      <4>2. (q + 1) * B <= c * B /\ (q + 1) * B = q * B + B /\ c * B \in Nat /\ q * B \in Nat
        BY <1>0, <3>1, <4>1
      <4> QED  BY <1>0, <2>2, <3>1, <4>1, <4>2
    <3>11. ASSUME NEW k \in 1 .. n + 1
           PROVE  (b[k] >= B <=> k < n + 1) /\ b[k] % B = (u \div p(k - 1)) % B
      <4>1. CASE k = 1
        <5>1. p(k - 1) = 1 /\ u \div 1 = u /\ k < n + 1
          BY <1>1, <2>2, <3>6, <4>1
        <5> QED  BY <3>8, <3>9, <4>1, <5>1
      <4>2. CASE k # 1
        <5> DEFINE j == k - 1
                   a == p(j - 1)
        <5>1. j \in 1 .. n /\ k \in 2 .. n + 1 /\ (j < n <=> k < n + 1) /\ j - 1 \in Nat /\ (j - 1) + 1 = j
          BY <3>6, <4>2
        <5>2. b[k] = t[j]
          BY <3>9, <5>1
        <5>3. a \in Nat \ {0} /\ p(j) = a * B
          BY <1>1, <5>1
        <5>4. t[j] % B = (q \div a) % B /\ (t[j] >= B <=> j < n)
          BY <3>7, <5>1
        <5>5. B * a = a * B
          BY <1>0, <5>3
        <5> HIDE DEF a, j
        <5>6. (u \div B) \div a = u \div (B * a)
          <6>1. u \in Int /\ B \in Nat \ {0} /\ a \in Nat \ {0}
            BY <1>0, <2>2, <5>3
          <6> QED  BY <6>1, DivisionTwice
        <5> QED  BY <5>1, <5>2, <5>3, <5>4, <5>5, <5>6 DEF j, q
      <4> QED  BY <4>1, <4>2
    <3>12. Fine(u, b)
      <4>1. n + 1 \in Nat \ {0}
        BY <3>6
      <4> QED  BY <3>9, <3>10, <3>11, <4>1 DEF Fine
    <3> QED  BY <2>2, <3>3, <3>12
  <2> QED  BY <2>3, <2>4
<1>4. Fine(v, VarintLoop[v])
  <2>1. v \notin Bad
    <3> HIDE DEF Bad
    <3> QED  BY <1>3
  <2> HIDE DEF Fine
  <2> QED  BY <2>1
<1> QED  BY <1>0, <1>4 DEF Continues, p, B

\* read_varint reads what write_varint writes, for every integer of the width
\* and every width of bytes.
THEOREM VarintIsReadBack ==
  ASSUME NEW v \in UInt(W)
  PROVE  /\ WriteVarint(v) \in Seq(Byte)
         /\ VarintAt(WriteVarint(v), 0, Len(WriteVarint(v)), v)
         /\ IsVarint(WriteVarint(v)) /\ VarintOf(WriteVarint(v)) = v
<1> DEFINE b == VarintLoop[v]
           n == Len(b)
<1>0. v \in Nat /\ G \in Nat \ {0} /\ W \in Nat \ {0}
  BY WireAssumption, WidthIs
<1>1. WriteVarint(v) = b
  BY <1>0, VarintLoopIs DEF WriteVarint
<1>2. /\ b \in Seq(Byte) /\ n \in Nat \ {0} /\ v < 2 ^ (G * n)
      /\ \A k \in 1 .. n : /\ Continues(b[k]) <=> k < n
                           /\ b[k] % Base = (v \div 2 ^ (G * (k - 1))) % 2 ^ G
  BY <1>0, LoopDigits
<1>3. n <= MaxVarint
  <2>1. CASE v = 0
    <3>1. b = <<v>>
      <4>1. v < Base
        BY <2>1, BaseIs
      <4>2. VarintLoop[v] = IF v < Base THEN <<v>> ELSE <<(v % Base) + Base>> \o VarintLoop[v \div Base]
        BY <1>0, VarintLoopIs
      <4> QED  BY <4>1, <4>2
    <3>2. Len(<<v>>) = 1
      OBVIOUS
    <3> QED  BY <3>1, <3>2, MaxVarintIs
  <2>2. CASE v # 0
    BY <1>0, <2>2, VarintLenIs, MaxVarintIs
  <2> QED  BY <2>1, <2>2
<1> HIDE DEF b, n
<1>4. Low(b, 0, n) \in Seq(Nat) /\ Len(Low(b, 0, n)) = n /\ \A k \in 1 .. n : Low(b, 0, n)[k] = b[k] % Base
  <2>1. \A k \in 1 .. n : 0 + k = k
    OBVIOUS
  <2>2. n - 0 = n /\ 0 <= n /\ n <= Len(b)
    BY <1>2 DEF n
  <2> DEFINE o == 0
  <2>3. o \in Nat /\ o <= n /\ n - o = n /\ \A k \in 1 .. n : o + k = k
    BY <2>1, <2>2
  <2> HIDE DEF o
  <2>4. Low(b, o, n) \in Seq(Nat) /\ Len(Low(b, o, n)) = n /\ \A k \in 1 .. n : Low(b, o, n)[k] = b[o + k] % Base
    BY <1>2, <2>2, <2>3, LowIs
  <2> QED  BY <2>3, <2>4 DEF o
<1>5. Number(Low(b, 0, n), G) = v % 2 ^ (G * n)
  <2> DEFINE digits == Low(b, 0, n)
  <2>1. \A k \in 1 .. n : digits[k] = (v \div 2 ^ (G * (k - 1))) % 2 ^ G
    BY <1>2, <1>4
  <2>2. Len(digits) = n /\ n \in Nat /\ G \in Nat
    BY <1>0, <1>2, <1>4
  <2> HIDE DEF digits
  <2>3. Number(digits, G) = v % 2 ^ (G * n)
    BY <1>0, <2>1, <2>2, NumberOfDigits
  <2> QED  BY <2>3 DEF digits
<1>6. v % 2 ^ (G * n) = v
  <2> DEFINE m == 2 ^ (G * n)
  <2>1. v < m /\ m \in Nat \ {0}
    BY <1>0, <1>2, PlaceIs
  <2> HIDE DEF m
  <2>2. v % m = v
    BY <1>0, <2>1
  <2> QED  BY <2>2 DEF m
<1>7. AsUnsigned(v, W) = v
  BY <1>0, CastUnsigned
<1>8. VarintAt(b, 0, n, v)
  <2>1. n - 0 \in 1 .. MaxVarint /\ 0 + 1 = 1
    BY <1>2, <1>3, MaxVarintIs
  <2> QED  BY <1>2, <1>5, <1>6, <1>7, <2>1 DEF VarintAt
<1>9. IsVarint(b) /\ VarintOf(b) = v
  <2> DEFINE o == 0
  <2>1. o \in Nat /\ o <= n /\ o + 1 = 1 /\ n <= Len(b)
    BY <1>2 DEF n
  <2>2. VarintAt(b, o, n, v)
    BY <1>8
  <2> HIDE DEF o
  <2>3. IsVarint(SubSeq(b, o + 1, n)) /\ VarintOf(SubSeq(b, o + 1, n)) = v
    BY <1>2, <2>1, <2>2, VarintGrammar
  <2>4. SubSeq(b, 1, n) = b
    BY <1>2 DEF n
  <2> QED  BY <2>1, <2>3, <2>4
<1> QED  BY <1>1, <1>2, <1>8, <1>9 DEF n

-----------------------------------------------------------------------------
(* Zig-zag. *)

\* Zig-zag maps between the signed and the unsigned integers of a width, and
\* decoding undoes encoding.
LEMMA ZigZagIs ==
  ASSUME NEW w \in Nat \ {0}
  PROVE  /\ \A u \in UInt(w) : ZigZagDecode(u, w) \in SInt(w)
         /\ \A v \in SInt(w) : ZigZagEncode(v, w) \in UInt(w)
         /\ \A v \in SInt(w) : ZigZagDecode(ZigZagEncode(v, w), w) = v
<1> DEFINE m == 2 ^ w
           h == 2 ^ (w - 1)
<1>1. m \in Nat \ {0} /\ h \in Nat \ {0} /\ m = 2 * h
  BY HalfIs
<1>2. UInt(w) = 0 .. m - 1 /\ SInt(w) = -h .. h - 1 /\ \A v : AsUnsigned(v, w) = v % m
      /\ \A x, negative : XorSign(x, negative, w) = IF negative THEN (m - 1) - x ELSE x
  BY DEF UInt, SInt, AsUnsigned, XorSign
<1> HIDE DEF m, h
<1>3. ASSUME NEW u \in UInt(w)
      PROVE  ZigZagDecode(u, w) \in SInt(w)
  <2>1. u \in Int /\ u \div 2 \in Int
    BY <1>1, <1>2
  <2>2. XorSign(u \div 2, u % 2 = 1, w) \in Int
    BY <1>1, <1>2, <2>1
  <2> QED  BY <2>2, CastIs DEF ZigZagDecode
<1>4. ASSUME NEW v \in SInt(w)
      PROVE  ZigZagEncode(v, w) = IF v < 0 THEN (-2) * v - 1 ELSE 2 * v
  <2>1. v \in -h .. h - 1
    BY <1>2
  <2>2. CASE v < 0
    <3> DEFINE x == 2 * v
    <3>1. x \in -m .. m - 1 /\ x < 0
      BY <1>1, <2>1, <2>2
    <3> HIDE DEF x
    <3>2. x % m = x + m
      BY <1>1, <3>1, RemainderNear
    <3> USE DEF x
    <3>3. ZigZagEncode(v, w) = (m - 1) - (2 * v + m)
      BY <1>2, <2>2, <3>2 DEF ZigZagEncode
    <3> QED  BY <1>1, <2>1, <2>2, <3>3
  <2>3. CASE ~ (v < 0)
    <3> DEFINE x == 2 * v
    <3>1. x \in -m .. m - 1 /\ ~ (x < 0)
      BY <1>1, <2>1, <2>3
    <3> HIDE DEF x
    <3>2. x % m = x
      BY <1>1, <3>1, RemainderNear
    <3> USE DEF x
    <3> QED  BY <1>2, <2>3, <3>2 DEF ZigZagEncode
  <2> QED  BY <2>2, <2>3
<1>5. ASSUME NEW v \in SInt(w)
      PROVE  ZigZagDecode(ZigZagEncode(v, w), w) = v
  <2> DEFINE u == ZigZagEncode(v, w)
  <2>1. v \in -h .. h - 1 /\ u = IF v < 0 THEN (-2) * v - 1 ELSE 2 * v
    BY <1>2, <1>4
  <2>2. ZigZagDecode(u, w) = AsSigned(XorSign(u \div 2, u % 2 = 1, w), w)
    BY DEF ZigZagDecode
  <2> HIDE DEF u
  <2>3. CASE v < 0
    <3>1. u = (- v - 1) * 2 + 1 /\ - v - 1 \in Int /\ u \in Int
      BY <1>1, <2>1, <2>3
    <3>2. u \div 2 = - v - 1 /\ u % 2 = 1
      BY <3>1
    <3>3. XorSign(u \div 2, u % 2 = 1, w) = (m - 1) - (- v - 1)
      BY <1>2, <3>2
    <3>4. (m - 1) - (- v - 1) = v + m
      BY <1>1, <2>1
    <3>5. AsSigned(v + m, w) = v
      BY <2>3, CastBack DEF m
    <3> QED  BY <2>2, <3>3, <3>4, <3>5 DEF u
  <2>4. CASE ~ (v < 0)
    <3>1. u = v * 2 + 0 /\ v \in Int /\ u \in Int
      BY <1>1, <2>1, <2>4
    <3>2. u \div 2 = v /\ u % 2 = 0
      BY <3>1
    <3>3. XorSign(u \div 2, u % 2 = 1, w) = v
      BY <3>2 DEF XorSign
    <3> QED  BY <2>2, <3>3, CastBack DEF u
  <2> QED  BY <2>3, <2>4 DEF u
<1>6. ASSUME NEW v \in SInt(w)
      PROVE  ZigZagEncode(v, w) \in UInt(w)
  <2>1. v \in -h .. h - 1
    BY <1>2
  <2>2. (IF v < 0 THEN (-2) * v - 1 ELSE 2 * v) \in 0 .. m - 1
    BY <1>1, <2>1
  <2> QED  BY <1>2, <1>4, <2>2
<1> QED  BY <1>3, <1>5, <1>6

\* An integer of a narrow width survives the wide varint.
LEMMA NarrowIs ==
  ASSUME NEW w \in Nat \ {0}, w <= W, NEW v \in SInt(w)
  PROVE  EncodeNarrow(v, w) \in UInt(W) /\ DecodeNarrow(EncodeNarrow(v, w), w) = v
<1>1. W \in Nat \ {0} /\ v \in Int
  BY WireAssumption, WidthIs
<1>2. AsUnsigned(v, W) \in UInt(W)
  BY <1>1, CastIs
<1>3. AsUnsigned(AsUnsigned(v, W), w) = AsUnsigned(v, w)
  BY <1>1, CastUnsigned
<1>4. AsSigned(AsUnsigned(v, w), w) = v
  BY CastBack
<1> QED  BY <1>2, <1>3, <1>4 DEF EncodeNarrow, DecodeNarrow
=============================================================================
