----------------------------- MODULE WireProofs -----------------------------
(***************************************************************************)
(* Proofs about WireReader: whatever bytes come in, the reader stays       *)
(* inside them, every value has its type, unknown fields keep their bytes, *)
(* exactly the byte strings of the grammar are accepted, and what has been *)
(* written is read back.                                                   *)
(***************************************************************************)
EXTENDS WireReader, VarintProofs

-----------------------------------------------------------------------------
(* Widths. *)

\* The widths of the integers, and what a tag consists of.
LEMMA WidthsAre ==
  /\ N \in Nat \ {0} /\ W \in Nat \ {0} /\ N <= W
  /\ FixedLen \in Nat \ {0} /\ G + 1 \in Nat \ {0}
  /\ FixedBits \in Nat \ {0} /\ FixedBits = (G + 1) * FixedLen
  /\ 2 ^ TagBits \in Nat \ {0} /\ DOMAIN Code = {"varint", "fixed", "len"}
  /\ \A type \in DOMAIN Code : Code[type] \in Nat /\ Code[type] < 2 ^ TagBits
<1>1. N \in Nat \ {0} /\ W \in Nat \ {0} /\ N <= W /\ FixedLen \in Nat \ {0} /\ G \in Nat \ {0}
  BY WireAssumption, WireReaderAssumption
<1>2. \A a, b \in Nat \ {0} : a * b \in Nat \ {0} /\ a * b = b * a
  OBVIOUS
<1>3. FixedBits \in Nat \ {0} /\ FixedBits = (G + 1) * FixedLen
  BY <1>1, <1>2 DEF FixedBits
<1>4. 2 ^ TagBits \in Nat \ {0}
  BY WireReaderAssumption, PowerIs
<1>5. \A type \in DOMAIN Code : Code[type] \in Nat /\ Code[type] < 2 ^ TagBits
  BY <1>4, WireReaderAssumption
<1> QED  BY <1>1, <1>3, <1>4, <1>5, WireReaderAssumption

\* The radix of a byte.
LEMMA RadixIs == 2 ^ (G + 1) \in Nat \ {0} /\ Byte = 0 .. 2 ^ (G + 1) - 1 /\ Byte \subseteq Nat
<1>1. 2 ^ (G + 1) = 2 * 2 ^ G /\ 2 ^ (G + 1) \in Nat \ {0}
  BY WireAssumption, PowerStep, PowerIs
<1> QED  BY <1>1 DEF Byte, Base

\* A fixed-width integer is written as that many bytes, which are read back.
LEMMA ToLEIs ==
  ASSUME NEW v \in UInt(FixedBits)
  PROVE  ToLE(v) \in Seq(Byte) /\ Len(ToLE(v)) = FixedLen /\ FromLE(ToLE(v)) = v
<1> DEFINE g == G + 1
           r == 2 ^ g
           p(k) == 2 ^ (g * (k - 1))
           b == ToLE(v)
<1>1. FixedLen \in Nat /\ g \in Nat /\ v \in Nat /\ r \in Nat \ {0} /\ Byte = 0 .. r - 1
  BY WidthsAre, WidthIs, RadixIs
<1>2. b = [k \in 1 .. FixedLen |-> (v \div p(k)) % r]
  BY DEF ToLE
<1>3. \A k \in 1 .. FixedLen : p(k) \in Nat \ {0}
  <2> TAKE k \in 1 .. FixedLen
  <2>1. k - 1 \in Nat
    BY <1>1
  <2> HIDE DEF g
  <2> QED  BY <1>1, <2>1, PlaceIs
<1> HIDE DEF r, p, b
<1>4. \A k \in 1 .. FixedLen : (v \div p(k)) % r \in Byte
  <2> TAKE k \in 1 .. FixedLen
  <2> DEFINE q == p(k)
  <2>1. q \in Nat \ {0}
    BY <1>3
  <2> HIDE DEF q
  <2>2. (v \div q) % r \in Byte
    BY <1>1, <2>1
  <2> QED  BY <2>2 DEF q
<1>5. b \in Seq(Byte) /\ Len(b) = FixedLen /\ \A k \in 1 .. FixedLen : b[k] = (v \div p(k)) % r
  BY <1>1, <1>2, <1>4
<1>6. Number(b, g) = v % 2 ^ (g * FixedLen)
  <2> HIDE DEF g
  <2> QED  BY <1>1, <1>5, NumberOfDigits DEF p, r
<1>7. v % 2 ^ (g * FixedLen) = v
  <2>1. AsUnsigned(v, FixedBits) = v /\ FixedBits = g * FixedLen
    BY WidthsAre, CastUnsigned
  <2> QED  BY <2>1 DEF AsUnsigned
<1> QED  BY <1>5, <1>6, <1>7 DEF FromLE, b

\* The bytes of a fixed-width integer are one of its width.
LEMMA FromLEIs ==
  ASSUME NEW b \in Seq(Byte), Len(b) = FixedLen
  PROVE  FromLE(b) \in UInt(FixedBits)
<1> DEFINE g == G + 1
<1>1. g \in Nat /\ FixedBits = g * FixedLen
  BY WidthsAre
<1>2. b \in Seq(Nat) /\ \A k \in 1 .. Len(b) : b[k] < 2 ^ g
  <2>1. \A k \in 1 .. Len(b) : b[k] \in Byte
    OBVIOUS
  <2>2. \A x \in Byte : x \in Nat /\ x < 2 ^ g
    BY RadixIs
  <2> QED  BY <2>1, <2>2
<1> HIDE DEF g
<1>3. Number(b, g) \in Nat /\ Number(b, g) < 2 ^ (g * Len(b))
  BY <1>1, <1>2, NumberAppend, NumberBound
<1>4. 2 ^ FixedBits \in Nat
  BY WidthsAre, PowerIs
<1> QED  BY <1>1, <1>3, <1>4 DEF FromLE, UInt, g

-----------------------------------------------------------------------------
(* Fields in a byte string. *)

\* There is a payload of this wire type from i to j, with these raw contents.
PayloadAt(s, i, j, type, raw) ==
  \/ type = "varint" /\ VarintAt(s, i, j, raw)
  \/ type = "fixed" /\ j = i + FixedLen /\ raw = SubSeq(s, i + 1, j)
  \/ type = "len" /\ \E l \in i + 1 .. j : VarintAt(s, i, l, j - l) /\ raw = SubSeq(s, l + 1, j)

\* The value of a tag.
TagOf(n, type) == n * 2 ^ TagBits + Code[type]

\* There is a field from i to j.
FieldAt(s, i, j, n, type, raw) ==
  /\ n \in 1 .. MaxField /\ type \in DOMAIN Code
  /\ \E t \in i + 1 .. j : VarintAt(s, i, t, TagOf(n, type)) /\ PayloadAt(s, t, j, type, raw)

\* A tag has one field number and one wire type.
LEMMA TagIs ==
  ASSUME NEW n \in Nat, NEW type \in DOMAIN Code
  PROVE  /\ TagOf(n, type) \in Nat
         /\ TagOf(n, type) \div 2 ^ TagBits = n /\ TagOf(n, type) % 2 ^ TagBits = Code[type]
         /\ n <= MaxField => TagOf(n, type) \in UInt(W)
         /\ \A u \in Nat : u \div 2 ^ TagBits = n /\ u % 2 ^ TagBits = Code[type] => u = TagOf(n, type)
<1> DEFINE m == 2 ^ TagBits
           c == Code[type]
           u == n * m + c
<1>1. m \in Nat \ {0} /\ c \in Nat /\ c < m /\ TagOf(n, type) = u
  BY WidthsAre DEF TagOf
<1> HIDE DEF m, c
<1>2. u \in Nat /\ c \in 0 .. m - 1 /\ n \in Int
  BY <1>1
<1>3. u \div m = n /\ u % m = c
  <2> DEFINE x == u
  <2>1. x \in Int /\ x = n * m + c
    BY <1>2
  <2> HIDE DEF x
  <2>2. x \div m = n /\ x % m = c
    BY <1>1, <1>2, <2>1, DivisionUnique
  <2> QED  BY <2>2 DEF x
<1>4. ASSUME n <= MaxField
      PROVE  u \in UInt(W)
  <2> DEFINE k == MaxField + 1
             w == 2 ^ W
  <2>1. k \in Nat /\ n + 1 <= k /\ k * m <= w /\ w \in Nat
    BY <1>4, WireReaderAssumption, WidthsAre, PowerIs DEF m
  <2> HIDE DEF k, w
  <2>2. (n + 1) * m <= k * m /\ (n + 1) * m = n * m + m /\ k * m \in Nat
    BY <1>1, <2>1
  <2>3. u < w
    BY <1>1, <2>1, <2>2
  <2> QED  BY <1>2, <2>1, <2>3 DEF UInt, w
<1>5. \A x \in Nat : x \div m = n /\ x % m = c => x = u
  <2> TAKE x \in Nat
  <2>1. x = (x \div m) * m + (x % m)
    BY <1>1, DivisionIs
  <2> QED  BY <2>1
<1> QED  BY <1>1, <1>2, <1>3, <1>4, <1>5 DEF m, c

\* Where a payload ends and what it contains follows from where it begins.
LEMMA PayloadUnique ==
  ASSUME NEW s, NEW i \in Nat, NEW j \in Nat, NEW k \in Nat, NEW type, NEW raw, NEW other,
         PayloadAt(s, i, j, type, raw), PayloadAt(s, i, k, type, other)
  PROVE  j = k /\ raw = other
<1>1. CASE type = "varint"
  <2>1. VarintAt(s, i, j, raw) /\ VarintAt(s, i, k, other)
    BY <1>1 DEF PayloadAt
  <2> QED  BY <2>1, VarintUnique
<1>2. CASE type = "fixed"
  BY <1>2 DEF PayloadAt
<1>3. CASE type = "len"
  <2>1. PICK l \in i + 1 .. j : VarintAt(s, i, l, j - l) /\ raw = SubSeq(s, l + 1, j)
    BY <1>3 DEF PayloadAt
  <2>2. PICK m \in i + 1 .. k : VarintAt(s, i, m, k - m) /\ other = SubSeq(s, m + 1, k)
    BY <1>3 DEF PayloadAt
  <2>3. l = m /\ j - l = k - m
    <3>1. l \in Nat /\ m \in Nat
      OBVIOUS
    <3> QED  BY <2>1, <2>2, <3>1, VarintUnique
  <2>4. j = k
    BY <2>3
  <2> QED  BY <2>1, <2>2, <2>3, <2>4
<1> QED  BY <1>1, <1>2, <1>3 DEF PayloadAt

\* The same for a field.
LEMMA FieldUnique ==
  ASSUME NEW s, NEW i \in Nat, NEW j \in Nat, NEW k \in Nat, NEW n, NEW m, NEW type, NEW wired, NEW raw, NEW other,
         FieldAt(s, i, j, n, type, raw), FieldAt(s, i, k, m, wired, other)
  PROVE  j = k /\ n = m /\ type = wired /\ raw = other
<1>1. n \in Nat /\ m \in Nat /\ type \in DOMAIN Code /\ wired \in DOMAIN Code
  BY WireReaderAssumption DEF FieldAt
<1>2. PICK t \in i + 1 .. j : VarintAt(s, i, t, TagOf(n, type)) /\ PayloadAt(s, t, j, type, raw)
  BY DEF FieldAt
<1>3. PICK u \in i + 1 .. k : VarintAt(s, i, u, TagOf(m, wired)) /\ PayloadAt(s, u, k, wired, other)
  BY DEF FieldAt
<1>4. t \in Nat /\ u \in Nat
  OBVIOUS
<1>5. t = u /\ TagOf(n, type) = TagOf(m, wired)
  BY <1>2, <1>3, <1>4, VarintUnique
<1>6. n = m /\ Code[type] = Code[wired]
  BY <1>1, <1>5, TagIs
<1>7. type = wired
  BY <1>1, <1>6, WireReaderAssumption DEF IsInjective
<1>8. PayloadAt(s, t, j, type, raw) /\ PayloadAt(s, t, k, type, other)
  BY <1>2, <1>3, <1>5, <1>7
<1> QED  BY <1>4, <1>6, <1>7, <1>8, PayloadUnique

\* Parts of the same bytes.
LEMMA SameParts ==
  ASSUME NEW s \in Seq(Byte), NEW i \in Nat, NEW j \in Nat, j <= Len(s), NEW l \in i .. j,
         NEW u \in Seq(Byte), NEW m \in Nat, m + (j - i) <= Len(u), Same(s, i, j, u, m)
  PROVE  LET a == m + (l - i) IN
         /\ a \in Nat /\ Same(s, i, l, u, m) /\ Same(s, l, j, u, a)
         /\ SubSeq(s, l + 1, j) = SubSeq(u, a + 1, m + (j - i))
<1> DEFINE a == m + (l - i)
           d == m + (j - i)
<1>1. l \in Nat /\ i <= l /\ l <= j /\ a \in Nat /\ d \in Nat /\ a <= d /\ d - a = j - l /\ d <= Len(u)
  OBVIOUS
<1>2. Same(s, i, l, u, m)
  <2>1. \A k \in 1 .. l - i : k \in 1 .. j - i
    BY <1>1
  <2> QED  BY <2>1 DEF Same
<1>3. Same(s, l, j, u, a)
  <2> SUFFICES ASSUME NEW k \in 1 .. j - l PROVE s[l + k] = u[a + k]
    BY DEF Same
  <2> DEFINE x == (l - i) + k
  <2>1. x \in 1 .. j - i /\ i + x = l + k /\ m + x = a + k
    BY <1>1
  <2>2. s[i + x] = u[m + x]
    BY <2>1 DEF Same
  <2> QED  BY <2>1, <2>2
<1> DEFINE x == SubSeq(s, l + 1, j)
           y == SubSeq(u, a + 1, d)
<1> HIDE DEF a, d
<1>4. x \in Seq(Byte) /\ Len(x) = j - l /\ \A k \in 1 .. j - l : x[k] = s[l + k]
  BY <1>1
<1>5. y \in Seq(Byte) /\ Len(y) = j - l /\ \A k \in 1 .. j - l : y[k] = u[a + k]
  BY <1>1
<1> HIDE DEF x, y
<1>6. x = y
  <2>1. \A k \in 1 .. j - l : x[k] = y[k]
    BY <1>3, <1>4, <1>5 DEF Same
  <2> QED  BY <1>4, <1>5, <2>1, SeqEqual
<1> QED  BY <1>1, <1>2, <1>3, <1>6 DEF x, y, a, d

\* The same bytes elsewhere are the same payload.
LEMMA PayloadMoves ==
  ASSUME NEW s \in Seq(Byte), NEW i \in Nat, NEW j \in Nat, i <= j, j <= Len(s),
         NEW u \in Seq(Byte), NEW m \in Nat, m + (j - i) <= Len(u), Same(s, i, j, u, m),
         NEW type, NEW raw, PayloadAt(s, i, j, type, raw)
  PROVE  PayloadAt(u, m, m + (j - i), type, raw)
<1> DEFINE d == m + (j - i)
<1>1. CASE type = "varint"
  <2>1. VarintAt(s, i, j, raw)
    BY <1>1 DEF PayloadAt
  <2>2. VarintAt(u, m, d, raw)
    BY <2>1, VarintMoves
  <2> QED  BY <1>1, <2>2 DEF PayloadAt
<1>2. CASE type = "fixed"
  <2>1. j = i + FixedLen /\ raw = SubSeq(s, i + 1, j) /\ FixedLen \in Nat
    BY <1>2, WidthsAre DEF PayloadAt
  <2>2. m + (i - i) = m /\ d = m + FixedLen /\ i \in i .. j
    BY <2>1
  <2>3. SubSeq(s, i + 1, j) = SubSeq(u, (m + (i - i)) + 1, d)
    BY <2>2, SameParts
  <2> QED  BY <1>2, <2>1, <2>2, <2>3 DEF PayloadAt
<1>3. CASE type = "len"
  <2>1. PICK l \in i + 1 .. j : VarintAt(s, i, l, j - l) /\ raw = SubSeq(s, l + 1, j)
    BY <1>3 DEF PayloadAt
  <2> DEFINE a == m + (l - i)
  <2>2. l \in Nat /\ l \in i .. j /\ i <= l /\ a \in m + 1 .. d /\ d - a = j - l
    OBVIOUS
  <2>3. Same(s, i, l, u, m) /\ SubSeq(s, l + 1, j) = SubSeq(u, a + 1, d)
    BY <2>2, SameParts
  <2>4. VarintAt(u, m, a, j - l)
    BY <2>1, <2>2, <2>3, VarintMoves
  <2> HIDE DEF a, d
  <2>5. VarintAt(u, m, a, d - a) /\ raw = SubSeq(u, a + 1, d)
    BY <2>1, <2>2, <2>3, <2>4
  <2>6. PayloadAt(u, m, d, type, raw)
    BY <1>3, <2>2, <2>5 DEF PayloadAt
  <2> QED  BY <2>6 DEF d
<1> QED  BY <1>1, <1>2, <1>3 DEF PayloadAt

\* The same for a field.
LEMMA FieldMoves ==
  ASSUME NEW s \in Seq(Byte), NEW i \in Nat, NEW j \in Nat, i <= j, j <= Len(s),
         NEW u \in Seq(Byte), NEW m \in Nat, m + (j - i) <= Len(u), Same(s, i, j, u, m),
         NEW n, NEW type, NEW raw, FieldAt(s, i, j, n, type, raw)
  PROVE  FieldAt(u, m, m + (j - i), n, type, raw)
<1> DEFINE d == m + (j - i)
<1>1. PICK t \in i + 1 .. j : VarintAt(s, i, t, TagOf(n, type)) /\ PayloadAt(s, t, j, type, raw)
  BY DEF FieldAt
<1> DEFINE a == m + (t - i)
<1>2. t \in Nat /\ t \in i .. j /\ i <= t /\ t <= j /\ a \in m + 1 .. d /\ a + (j - t) = d /\ a \in Nat
  OBVIOUS
<1>3. Same(s, i, t, u, m) /\ Same(s, t, j, u, a)
  BY <1>2, SameParts
<1>4. VarintAt(u, m, a, TagOf(n, type))
  BY <1>1, <1>2, <1>3, VarintMoves
<1>5. PayloadAt(u, a, a + (j - t), type, raw)
  <2>1. a + (j - t) <= Len(u)
    BY <1>2
  <2> HIDE DEF a
  <2> QED  BY <1>1, <1>2, <1>3, <2>1, PayloadMoves
<1> HIDE DEF a, d
<1>6. FieldAt(u, m, d, n, type, raw)
  BY <1>2, <1>4, <1>5 DEF FieldAt
<1> QED  BY <1>6 DEF d

\* A part of a part.
LEMMA PartOfPart ==
  ASSUME NEW s \in Seq(Byte), NEW i \in Nat, NEW j \in Nat, i <= j, j <= Len(s), NEW a \in Nat, NEW c \in Nat,
         a <= c, c <= j - i
  PROVE  SubSeq(SubSeq(s, i + 1, j), a + 1, c) = SubSeq(s, (i + a) + 1, i + c)
<1> DEFINE b == SubSeq(s, i + 1, j)
           x == SubSeq(b, a + 1, c)
           y == SubSeq(s, (i + a) + 1, i + c)
<1>1. b \in Seq(Byte) /\ Len(b) = j - i /\ \A k \in 1 .. j - i : b[k] = s[i + k]
  OBVIOUS
<1> HIDE DEF b
<1>2. x \in Seq(Byte) /\ Len(x) = c - a /\ \A k \in 1 .. c - a : x[k] = b[a + k]
  BY <1>1
<1>3. y \in Seq(Byte) /\ Len(y) = c - a /\ \A k \in 1 .. c - a : y[k] = s[(i + a) + k]
  OBVIOUS
<1>4. \A k \in 1 .. c - a : a + k \in 1 .. j - i /\ i + (a + k) = (i + a) + k
  OBVIOUS
<1> HIDE DEF x, y
<1>5. x = y
  <2>1. \A k \in 1 .. c - a : x[k] = y[k]
    BY <1>1, <1>2, <1>3, <1>4
  <2> QED  BY <1>2, <1>3, <2>1, SeqEqual
<1> QED  BY <1>5 DEF x, y, b

\* Payloads are what the grammar says.
LEMMA PayloadGrammar ==
  ASSUME NEW s \in Seq(Byte), NEW i \in Nat, NEW j \in Nat, i <= j, j <= Len(s), NEW type \in DOMAIN Code
  PROVE  IsPayload(SubSeq(s, i + 1, j), type) <=> \E raw : PayloadAt(s, i, j, type, raw)
<1> DEFINE b == SubSeq(s, i + 1, j)
<1>1. b \in Seq(Byte) /\ Len(b) = j - i
  BY PartIs
<1>2. type \in {"varint", "fixed", "len"}
  BY WidthsAre
<1>3. CASE type = "varint"
  <2>1. IsPayload(b, type) <=> IsVarint(b)
    BY <1>3 DEF IsPayload
  <2>2. \A v : IsVarint(b) /\ VarintOf(b) = v <=> VarintAt(s, i, j, v)
    BY VarintGrammar
  <2> QED  BY <1>3, <2>1, <2>2 DEF PayloadAt
<1>4. CASE type = "fixed"
  <2>1. IsPayload(b, type) <=> Len(b) = FixedLen
    BY <1>4 DEF IsPayload
  <2>2. Len(b) = FixedLen <=> j = i + FixedLen
    BY <1>1, WidthsAre
  <2> QED  BY <1>4, <2>1, <2>2 DEF PayloadAt
<1>5. CASE type = "len"
  <2>1. IsPayload(b, type) <=> \E l \in 1 .. Len(b) : IsVarint(SubSeq(b, 1, l)) /\ Len(b) = l + VarintOf(SubSeq(b, 1, l))
    BY <1>5 DEF IsPayload
  <2>2. ASSUME NEW l \in 1 .. Len(b)
        PROVE  \A v : IsVarint(SubSeq(b, 1, l)) /\ VarintOf(SubSeq(b, 1, l)) = v <=> VarintAt(s, i, i + l, v)
    <3> TAKE v
    <3> DEFINE o == 0
               m == i + l
    <3>1. o \in Nat /\ l \in Nat /\ o <= l /\ l <= j - i /\ o + 1 = 1 /\ i + o = i
          /\ m \in Nat /\ i <= m /\ m <= Len(s)
      BY <1>1
    <3> HIDE DEF o, b
    <3>2. SubSeq(SubSeq(s, i + 1, j), o + 1, l) = SubSeq(s, (i + o) + 1, m)
      BY <3>1, PartOfPart
    <3>3. SubSeq(b, 1, l) = SubSeq(s, i + 1, m)
      BY <3>1, <3>2 DEF b
    <3> HIDE DEF m
    <3>4. IsVarint(SubSeq(s, i + 1, m)) /\ VarintOf(SubSeq(s, i + 1, m)) = v <=> VarintAt(s, i, m, v)
      BY <3>1, VarintGrammar
    <3> QED  BY <3>3, <3>4 DEF m
  <2>3. ASSUME IsPayload(b, type)
        PROVE  \E raw : PayloadAt(s, i, j, type, raw)
    <3>1. PICK l \in 1 .. Len(b) : IsVarint(SubSeq(b, 1, l)) /\ Len(b) = l + VarintOf(SubSeq(b, 1, l))
      BY <2>1, <2>3
    <3> DEFINE v == VarintOf(SubSeq(b, 1, l))
               m == i + l
    <3>2. VarintAt(s, i, m, v)
      BY <2>2, <3>1
    <3>3. v \in Int /\ m \in Nat
      <4>1. v \in UInt(W)
        <5>1. m \in Nat /\ i <= m /\ m <= Len(s)
          BY <1>1
        <5>2. Low(s, i, m) \in Seq(Nat)
          BY <5>1, LowIs
        <5>3. Number(Low(s, i, m), G) \in Int
          BY <5>2, WireAssumption, NumberAppend
        <5> QED  BY <3>2, <5>3, CastIs, WidthsAre DEF VarintAt
      <4> QED  BY <4>1, WidthIs, WidthsAre
    <3>4. Len(b) = l + v
      BY <3>1
    <3> HIDE DEF v
    <3>5. v = j - m /\ m \in i + 1 .. j
      BY <1>1, <3>3, <3>4
    <3> HIDE DEF m
    <3>6. PayloadAt(s, i, j, type, SubSeq(s, m + 1, j))
      BY <1>5, <3>2, <3>5 DEF PayloadAt
    <3> QED  BY <3>6
  <2>4. ASSUME NEW raw, PayloadAt(s, i, j, type, raw)
        PROVE  IsPayload(b, type)
    <3>1. PICK m \in i + 1 .. j : VarintAt(s, i, m, j - m)
      BY <1>5, <2>4 DEF PayloadAt
    <3> DEFINE l == m - i
    <3>2. l \in 1 .. Len(b) /\ i + l = m /\ Len(b) = l + (j - m)
      BY <1>1
    <3> HIDE DEF b, l
    <3>3. IsVarint(SubSeq(b, 1, l)) /\ VarintOf(SubSeq(b, 1, l)) = j - m
      BY <2>2, <3>1, <3>2
    <3> QED  BY <2>1, <3>2, <3>3
  <2> QED  BY <2>3, <2>4
<1> QED  BY <1>2, <1>3, <1>4, <1>5

\* The value of a varint has the width of the integer.
LEMMA VarintRange ==
  ASSUME NEW s \in Seq(Byte), NEW i \in Nat, NEW j \in Nat, i <= j, j <= Len(s), NEW v, VarintAt(s, i, j, v)
  PROVE  v \in UInt(W) /\ v \in Nat
<1>1. Low(s, i, j) \in Seq(Nat)
  BY LowIs
<1>2. Number(Low(s, i, j), G) \in Int
  BY <1>1, WireAssumption, NumberAppend
<1>3. v \in UInt(W)
  BY <1>2, CastIs, WidthsAre DEF VarintAt
<1> QED  BY <1>3, WidthIs, WidthsAre

\* Fields are what the grammar says.
LEMMA FieldGrammar ==
  ASSUME NEW s \in Seq(Byte), NEW i \in Nat, NEW j \in Nat, i <= j, j <= Len(s)
  PROVE  IsField(SubSeq(s, i + 1, j)) <=> \E n, type, raw : FieldAt(s, i, j, n, type, raw)
<1> DEFINE b == SubSeq(s, i + 1, j)
           Part(l) == SubSeq(b, 1, l)
           Rest(l) == SubSeq(b, l + 1, Len(b))
           T == 2 ^ TagBits
           Is(l, v, type) == /\ IsVarint(Part(l)) /\ VarintOf(Part(l)) = v
                             /\ v \div T \in 1 .. MaxField /\ v % T = Code[type]
                             /\ IsPayload(Rest(l), type)
<1>1. b \in Seq(Byte) /\ Len(b) = j - i
  BY PartIs
<1>2. IsField(b) <=> \E l \in 1 .. Len(b) : \E v : \E type \in DOMAIN Code : Is(l, v, type)
  BY DEF IsField
<1>3. ASSUME NEW l \in 1 .. Len(b)
      PROVE  /\ i + l \in Nat /\ i + l \in i + 1 .. j /\ i <= i + l /\ i + l <= Len(s)
             /\ Part(l) = SubSeq(s, i + 1, i + l) /\ Rest(l) = SubSeq(s, (i + l) + 1, j)
  <2>1. i + l \in Nat /\ i + l \in i + 1 .. j /\ i <= i + l /\ i + l <= Len(s)
    BY <1>1
  <2> DEFINE o == 0
             c == Len(b)
  <2>2. o \in Nat /\ l \in Nat /\ c \in Nat /\ o <= l /\ l <= c /\ c <= j - i /\ l <= j - i
        /\ o + 1 = 1 /\ i + o = i /\ i + c = j
    BY <1>1
  <2> HIDE DEF o, c
  <2>3. SubSeq(SubSeq(s, i + 1, j), o + 1, l) = SubSeq(s, (i + o) + 1, i + l)
    BY <2>2, PartOfPart
  <2>4. SubSeq(SubSeq(s, i + 1, j), l + 1, c) = SubSeq(s, (i + l) + 1, i + c)
    BY <2>2, PartOfPart
  <2> QED  BY <2>1, <2>2, <2>3, <2>4 DEF c
<1> HIDE DEF b
<1>4. ASSUME NEW l \in 1 .. Len(b)
      PROVE  /\ \A v : IsVarint(Part(l)) /\ VarintOf(Part(l)) = v <=> VarintAt(s, i, i + l, v)
             /\ \A type \in DOMAIN Code : IsPayload(Rest(l), type) <=> \E raw : PayloadAt(s, i + l, j, type, raw)
  <2> DEFINE t == i + l
  <2>1. t \in Nat /\ i <= t /\ t <= Len(s) /\ t <= j /\ Part(l) = SubSeq(s, i + 1, t) /\ Rest(l) = SubSeq(s, t + 1, j)
    BY <1>3
  <2> HIDE DEF t, Part, Rest
  <2>2. \A v : IsVarint(SubSeq(s, i + 1, t)) /\ VarintOf(SubSeq(s, i + 1, t)) = v <=> VarintAt(s, i, t, v)
    BY <2>1, VarintGrammar
  <2>3. \A type \in DOMAIN Code : IsPayload(SubSeq(s, t + 1, j), type) <=> \E raw : PayloadAt(s, t, j, type, raw)
    BY <2>1, PayloadGrammar
  <2> QED  BY <2>1, <2>2, <2>3 DEF t
<1>5. ASSUME NEW l \in 1 .. Len(b), NEW v, NEW type \in DOMAIN Code, Is(l, v, type)
      PROVE  \E n, raw : FieldAt(s, i, j, n, type, raw)
  <2> DEFINE t == i + l
             n == v \div T
  <2>1. VarintAt(s, i, t, v) /\ n \in 1 .. MaxField /\ v % T = Code[type]
    BY <1>4, <1>5
  <2>2. PICK raw : PayloadAt(s, t, j, type, raw)
    BY <1>4, <1>5
  <2>3. t \in i + 1 .. j /\ t \in Nat /\ i <= t /\ t <= Len(s)
    BY <1>3
  <2>4. v \in Nat
    <3> HIDE DEF t, Is
    <3> QED  BY <2>1, <2>3, VarintRange
  <2>5. v = TagOf(n, type)
    <3>1. n \in Nat /\ v \div 2 ^ TagBits = n /\ v % 2 ^ TagBits = Code[type]
      BY <2>1, WireReaderAssumption
    <3> HIDE DEF n, T, Is
    <3> QED  BY <2>4, <3>1, TagIs
  <2> HIDE DEF t, n
  <2>6. FieldAt(s, i, j, n, type, raw)
    BY <2>1, <2>2, <2>3, <2>5 DEF FieldAt
  <2> QED  BY <2>6
<1>6. ASSUME NEW n, NEW type, NEW raw, FieldAt(s, i, j, n, type, raw)
      PROVE  \E l \in 1 .. Len(b) : \E v : Is(l, v, type)
  <2>1. PICK t \in i + 1 .. j : VarintAt(s, i, t, TagOf(n, type)) /\ PayloadAt(s, t, j, type, raw)
    BY <1>6 DEF FieldAt
  <2>2. n \in 1 .. MaxField /\ type \in DOMAIN Code /\ n \in Nat
    BY <1>6 DEF FieldAt
  <2> DEFINE l == t - i
             v == TagOf(n, type)
  <2>3. l \in 1 .. Len(b) /\ i + l = t
    BY <1>1
  <2>4. v \div T = n /\ v % T = Code[type]
    BY <2>2, TagIs
  <2> HIDE DEF l, v, Part, Rest
  <2>5. IsVarint(Part(l)) /\ VarintOf(Part(l)) = v /\ IsPayload(Rest(l), type)
    BY <1>4, <2>1, <2>2, <2>3 DEF v
  <2>6. Is(l, v, type)
    BY <2>2, <2>4, <2>5
  <2> QED  BY <2>3, <2>6
<1>7. \A n, type, raw : FieldAt(s, i, j, n, type, raw) => type \in DOMAIN Code
  BY DEF FieldAt
<1>8. IsField(b) <=> \E n, type, raw : FieldAt(s, i, j, n, type, raw)
  <2> HIDE DEF Is
  <2> QED  BY <1>2, <1>5, <1>6, <1>7
<1> QED  BY <1>8 DEF b

-----------------------------------------------------------------------------
(* What the write functions write is bytes, and is read back. *)

\* Two byte strings, one after the other.
LEMMA Joined ==
  ASSUME NEW x \in Seq(Byte), NEW y \in Seq(Byte)
  PROVE  LET z == x \o y IN
         /\ z \in Seq(Byte) /\ Len(z) = Len(x) + Len(y) /\ Len(x) \in Nat /\ Len(y) \in Nat
         /\ Same(x, 0, Len(x), z, 0) /\ Same(y, 0, Len(y), z, Len(x))
         /\ SubSeq(z, Len(x) + 1, Len(z)) = y
<1> DEFINE z == x \o y
           a == Len(x)
           c == Len(y)
<1>1. a \in Nat /\ c \in Nat
  OBVIOUS
<1>2. z \in Seq(Byte) /\ Len(z) = a + c /\ \A k \in 1 .. a + c : z[k] = IF k <= a THEN x[k] ELSE y[k - a]
  BY ConcatProperties
<1> HIDE DEF z
<1>3. \A k \in 1 .. a : x[k] = z[k]
  BY <1>1, <1>2
<1>4. \A k \in 1 .. c : y[k] = z[a + k]
  <2> TAKE k \in 1 .. c
  <2>1. a + k \in 1 .. a + c /\ ~ (a + k <= a) /\ (a + k) - a = k
    BY <1>1
  <2> QED  BY <1>2, <2>1
<1>5. Same(x, 0, a, z, 0) /\ Same(y, 0, c, z, a)
  <2>1. a - 0 = a /\ c - 0 = c /\ \A k \in Nat : 0 + k = k
    BY <1>1
  <2>2. \A k \in 1 .. a : k \in Nat
    OBVIOUS
  <2>3. \A k \in 1 .. c : k \in Nat
    OBVIOUS
  <2> HIDE DEF a, c
  <2>4. Same(x, 0, a, z, 0)
    BY <1>3, <2>1, <2>2 DEF Same
  <2>5. Same(y, 0, c, z, a)
    BY <1>4, <2>1, <2>3 DEF Same
  <2> QED  BY <2>4, <2>5
<1>6. SubSeq(z, a + 1, Len(z)) = y
  <2> DEFINE t == SubSeq(z, a + 1, a + c)
  <2>1. t \in Seq(Byte) /\ Len(t) = c /\ \A k \in 1 .. c : t[k] = z[a + k]
    BY <1>1, <1>2
  <2> HIDE DEF t
  <2>2. \A k \in 1 .. c : t[k] = y[k]
    BY <1>4, <2>1
  <2>3. t = y
    BY <2>1, <2>2, SeqEqual
  <2> QED  BY <1>2, <2>3 DEF t
<1> QED  BY <1>1, <1>2, <1>5, <1>6 DEF z

\* The same bytes, at the beginning.
LEMMA AtTheFront ==
  ASSUME NEW x \in Seq(Byte), NEW y \in Seq(Byte), NEW v, VarintAt(x, 0, Len(x), v)
  PROVE  VarintAt(x \o y, 0, Len(x), v)
<1> DEFINE o == 0
           a == Len(x)
           z == x \o y
<1>1. o \in Nat /\ a \in Nat /\ o <= a /\ o + (a - o) = a /\ Same(x, o, a, z, o) /\ VarintAt(x, o, a, v)
  BY Joined
<1> HIDE DEF o, a, z
<1>2. VarintAt(z, o, o + (a - o), v)
  BY <1>1, VarintMoves
<1> QED  BY <1>1, <1>2 DEF o, a, z

\* A value of a field of this kind, of which the length can be written.
FitsKind(kind, v) ==
  IF kind = "bytes" THEN v \in Seq(Byte) /\ Len(v) \in UInt(W) ELSE v \in ValueOf(kind)

\* The values that the constructor may give a field have its kind.
LEMMA ValuesFit ==
  ASSUME NEW kind \in Scalar, NEW v \in ValueOf(kind)
  PROVE  FitsKind(kind, v)
<1>1. CASE kind # "bytes"
  BY <1>1 DEF FitsKind
<1>2. CASE kind = "bytes"
  <2>1. Base \in Nat \ {0, 1} /\ 0 \in Byte /\ 2 * Base - 1 \in Byte
    BY BaseIs DEF Byte
  <2> DEFINE long == [k \in 1 .. Base |-> 2 * Base - 1]
             s == <<>>
             t == <<0>>
  <2>2. s \in Seq(Byte) /\ t \in Seq(Byte) /\ long \in Seq(Byte) /\ Len(s) = 0 /\ Len(t) = 1 /\ Len(long) = Base
    BY <2>1
  <2>3. v \in {s, t, long}
    BY <1>2 DEF ValueOf
  <2>4. Base \in UInt(W) /\ 0 \in UInt(W) /\ 1 \in UInt(W)
    <3>1. G \in Nat /\ W \in Nat \ {0} /\ G < W /\ 2 ^ G \in Nat /\ 2 ^ W \in Nat
      BY WireAssumption, WidthsAre, PowerIs
    <3>2. 2 ^ G < 2 ^ W
      BY <3>1, PowerOrder
    <3>3. 0 \in UInt(W) /\ 1 \in UInt(W)
      BY <3>1, WidthIs
    <3> QED  BY <3>1, <3>2, <3>3 DEF UInt, Base
  <2> HIDE DEF long, s, t
  <2>5. v \in Seq(Byte) /\ Len(v) \in UInt(W)
    BY <2>2, <2>3, <2>4
  <2> QED  BY <1>2, <2>5 DEF FitsKind
<1> QED  BY <1>1, <1>2

\* Integers that are written as varints come back.
LEMMA VarintScalars ==
  ASSUME NEW kind \in Scalar, WireOf(kind) = "varint", NEW v \in ValueOf(kind)
  PROVE  \E raw \in UInt(W) : EncodeScalar(kind, v) = WriteVarint(raw) /\ DecodeScalar(kind, raw) = v
<1>0. /\ N \in Nat \ {0} /\ W \in Nat \ {0} /\ N <= W /\ UInt(N) \subseteq UInt(W)
      /\ UInt(W) \subseteq Nat /\ 0 \in UInt(W) /\ 1 \in UInt(W)
  BY WidthsAre, WidthIs, WiderIs
<1>1. kind \in {"uint32", "uint64", "int32", "int64", "sint32", "sint64", "bool"}
  BY DEF WireOf, Scalar
<1>2. CASE kind = "uint32"
  <2>1. v \in UInt(N) /\ AsUnsigned(v, N) = v
    BY <1>0, <1>2, CastUnsigned DEF ValueOf
  <2>2. v \in UInt(W)
    BY <1>0, <2>1
  <2> QED  BY <1>2, <2>1, <2>2 DEF EncodeScalar, DecodeScalar
<1>3. CASE kind = "uint64"
  BY <1>3 DEF ValueOf, EncodeScalar, DecodeScalar
<1>4. CASE kind = "int32"
  <2>1. v \in SInt(N)
    BY <1>4 DEF ValueOf
  <2>2. EncodeNarrow(v, N) \in UInt(W) /\ DecodeNarrow(EncodeNarrow(v, N), N) = v
    BY <1>0, <2>1, NarrowIs
  <2> QED  BY <1>4, <2>2 DEF EncodeScalar, DecodeScalar
<1>5. CASE kind = "int64"
  <2>1. v \in SInt(W) /\ v \in Int
    BY <1>0, <1>5, WidthIs DEF ValueOf
  <2>2. AsUnsigned(v, W) \in UInt(W) /\ AsSigned(AsUnsigned(v, W), W) = v
    BY <1>0, <2>1, CastIs, CastBack
  <2>3. EncodeNarrow(v, N) = AsUnsigned(v, W)
    BY DEF EncodeNarrow
  <2> QED  BY <1>5, <2>2, <2>3 DEF EncodeScalar, DecodeScalar
<1>6. CASE kind = "sint32"
  <2> DEFINE u == ZigZagEncode(v, N)
  <2>1. v \in SInt(N)
    BY <1>6 DEF ValueOf
  <2>2. u \in UInt(N) /\ ZigZagDecode(u, N) = v
    BY <1>0, <2>1, ZigZagIs
  <2>3. u \in UInt(W) /\ AsUnsigned(u, N) = u
    BY <1>0, <2>2, CastUnsigned
  <2>4. EncodeScalar(kind, v) = WriteVarint(u)
    BY <1>6 DEF EncodeScalar
  <2>5. DecodeScalar(kind, u) = ZigZagDecode(AsUnsigned(u, N), N)
    BY <1>6 DEF DecodeScalar
  <2> HIDE DEF u
  <2> QED  BY <2>2, <2>3, <2>4, <2>5
<1>7. CASE kind = "sint64"
  <2>1. v \in SInt(W)
    BY <1>7 DEF ValueOf
  <2>2. ZigZagEncode(v, W) \in UInt(W) /\ ZigZagDecode(ZigZagEncode(v, W), W) = v
    BY <1>0, <2>1, ZigZagIs
  <2> QED  BY <1>7, <2>2 DEF EncodeScalar, DecodeScalar
<1>8. CASE kind = "bool"
  <2> DEFINE u == IF v THEN 1 ELSE 0
  <2>1. v \in BOOLEAN
    BY <1>8 DEF ValueOf
  <2>2. u \in UInt(W) /\ EncodeScalar(kind, v) = WriteVarint(u) /\ DecodeScalar(kind, u) = (u # 0)
    BY <1>0, <1>8 DEF EncodeScalar, DecodeScalar
  <2>3. (u # 0) = v
    BY <2>1
  <2> HIDE DEF u
  <2> QED  BY <2>2, <2>3
<1> QED  BY <1>1, <1>2, <1>3, <1>4, <1>5, <1>6, <1>7, <1>8

\* Every value of every scalar type is written as a payload of its wire type
\* that decodes to it.
LEMMA ScalarIsReadBack ==
  ASSUME NEW kind \in Scalar, NEW v, FitsKind(kind, v)
  PROVE  LET b == EncodeScalar(kind, v) IN
         /\ b \in Seq(Byte)
         /\ \E raw : PayloadAt(b, 0, Len(b), WireOf(kind), raw) /\ DecodeScalar(kind, raw) = v
<1> DEFINE b == EncodeScalar(kind, v)
<1>1. CASE WireOf(kind) = "varint"
  <2>1. v \in ValueOf(kind)
    BY <1>1 DEF FitsKind, WireOf
  <2>2. PICK raw \in UInt(W) : b = WriteVarint(raw) /\ DecodeScalar(kind, raw) = v
    BY <1>1, <2>1, VarintScalars
  <2>3. b \in Seq(Byte) /\ VarintAt(b, 0, Len(b), raw)
    BY <2>2, VarintIsReadBack
  <2> HIDE DEF b
  <2> QED  BY <1>1, <2>2, <2>3 DEF PayloadAt, b
<1>2. CASE kind \in {"fixed32", "sfixed32"}
  <2> DEFINE u == AsUnsigned(v, FixedBits)
  <2>1. b = ToLE(u) /\ WireOf(kind) = "fixed"
    BY <1>2 DEF EncodeScalar, WireOf
  <2>2. u \in UInt(FixedBits) /\ DecodeScalar(kind, ToLE(u)) = v
    <3>1. FixedBits \in Nat \ {0}
      BY WidthsAre
    <3>2. CASE kind = "fixed32"
      <4>1. v \in UInt(FixedBits)
        BY <3>2 DEF FitsKind, ValueOf
      <4>2. u = v
        BY <3>1, <4>1, CastUnsigned
      <4>3. DecodeScalar(kind, ToLE(u)) = FromLE(ToLE(u))
        BY <3>2 DEF DecodeScalar
      <4> HIDE DEF u
      <4> QED  BY <4>1, <4>2, <4>3, ToLEIs
    <3>3. CASE kind = "sfixed32"
      <4>1. v \in SInt(FixedBits) /\ v \in Int
        BY <3>1, <3>3, WidthIs DEF FitsKind, ValueOf
      <4>2. u \in UInt(FixedBits) /\ AsSigned(u, FixedBits) = v
        BY <3>1, <4>1, CastIs, CastBack
      <4>3. DecodeScalar(kind, ToLE(u)) = AsSigned(FromLE(ToLE(u)), FixedBits)
        BY <3>3 DEF DecodeScalar
      <4> HIDE DEF u
      <4> QED  BY <4>2, <4>3, ToLEIs
    <3> QED  BY <1>2, <3>2, <3>3
  <2> HIDE DEF u
  <2>3. ToLE(u) \in Seq(Byte) /\ Len(ToLE(u)) = FixedLen
    BY <2>2, ToLEIs
  <2>4. SubSeq(ToLE(u), 0 + 1, FixedLen) = ToLE(u) /\ FixedLen = 0 + FixedLen
    <3>1. FixedLen \in Nat
      BY WidthsAre
    <3> QED  BY <2>3, <3>1
  <2>5. PayloadAt(b, 0, Len(b), WireOf(kind), ToLE(u))
    BY <2>1, <2>3, <2>4 DEF PayloadAt
  <2> QED  BY <2>1, <2>2, <2>3, <2>5
<1>3. CASE kind = "bytes"
  <2> DEFINE x == WriteVarint(Len(v))
             l == Len(x)
  <2>1. b = x \o v /\ WireOf(kind) = "len" /\ DecodeScalar(kind, v) = v
    BY <1>3 DEF EncodeScalar, WireOf, DecodeScalar
  <2>2. v \in Seq(Byte) /\ Len(v) \in UInt(W) /\ Len(v) \in Nat
    BY <1>3 DEF FitsKind
  <2>3. x \in Seq(Byte) /\ VarintAt(x, 0, l, Len(v))
    BY <2>2, VarintIsReadBack
  <2> HIDE DEF x, b
  <2>4. VarintAt(b, 0, l, Len(v))
    BY <2>1, <2>2, <2>3, AtTheFront
  <2>5. b \in Seq(Byte) /\ Len(b) = l + Len(v) /\ SubSeq(b, l + 1, Len(b)) = v /\ l \in Nat
    BY <2>1, <2>2, <2>3, Joined
  <2>6. l \in 0 + 1 .. Len(b) /\ Len(b) - l = Len(v)
    <3>1. l - 0 \in 1 .. MaxVarint
      BY <2>3 DEF VarintAt
    <3> HIDE DEF l
    <3> QED  BY <2>2, <2>5, <3>1, MaxVarintIs
  <2> HIDE DEF l
  <2>7. PayloadAt(b, 0, Len(b), WireOf(kind), v)
    BY <2>1, <2>4, <2>5, <2>6 DEF PayloadAt
  <2> QED  BY <2>1, <2>5, <2>7 DEF b
<1> QED  BY <1>1, <1>2, <1>3 DEF WireOf, Scalar

\* Such a payload behind a tag is a field.
LEMMA FieldIsReadBack ==
  ASSUME NEW kind \in Scalar, NEW v, FitsKind(kind, v), NEW n \in 1 .. MaxField
  PROVE  LET b == WriteTag(n, WireOf(kind)) \o EncodeScalar(kind, v) IN
         /\ b \in Seq(Byte) /\ Len(b) \in Nat
         /\ \E raw : FieldAt(b, 0, Len(b), n, WireOf(kind), raw) /\ DecodeScalar(kind, raw) = v
<1> DEFINE type == WireOf(kind)
           x == WriteTag(n, type)
           y == EncodeScalar(kind, v)
           b == x \o y
           t == Len(x)
           c == Len(y)
           o == 0
<1>1. type \in DOMAIN Code /\ n \in Nat /\ n <= MaxField
  BY WidthsAre, WireReaderAssumption DEF WireOf
<1>2. TagOf(n, type) \in UInt(W) /\ x = WriteVarint(TagOf(n, type))
  <2> HIDE DEF type
  <2> QED  BY <1>1, TagIs DEF WriteTag, TagOf
<1>3. x \in Seq(Byte) /\ VarintAt(x, 0, t, TagOf(n, type))
  <2> HIDE DEF type, x
  <2> QED  BY <1>2, VarintIsReadBack
<1>4. y \in Seq(Byte)
  BY ScalarIsReadBack
<1>5. PICK raw : PayloadAt(y, 0, c, type, raw) /\ DecodeScalar(kind, raw) = v
  BY ScalarIsReadBack
<1> HIDE DEF x, y, type
<1>6. VarintAt(b, 0, t, TagOf(n, type))
  BY <1>3, <1>4, AtTheFront
<1>7. b \in Seq(Byte) /\ Len(b) = t + c /\ Same(y, 0, c, b, t) /\ t \in Nat /\ c \in Nat
  BY <1>3, <1>4, Joined
<1>8. /\ o \in Nat /\ o <= c /\ c - o = c /\ c <= Len(y) /\ t + (c - o) = t + c /\ t + (c - o) <= Len(b)
      /\ PayloadAt(y, o, c, type, raw) /\ Same(y, o, c, b, t) /\ VarintAt(b, o, t, TagOf(n, type))
  BY <1>5, <1>6, <1>7
<1>9. t \in o + 1 .. Len(b)
  <2>1. t - 0 \in 1 .. MaxVarint
    BY <1>6 DEF VarintAt
  <2> HIDE DEF t, c, b
  <2> QED  BY <1>7, <2>1, MaxVarintIs
<1> HIDE DEF b, t, c, o
<1>10. PayloadAt(b, t, t + (c - o), type, raw)
  BY <1>4, <1>7, <1>8, PayloadMoves DEF c
<1>11. FieldAt(b, o, Len(b), n, type, raw)
  BY <1>1, <1>7, <1>8, <1>9, <1>10 DEF FieldAt
<1> QED  BY <1>5, <1>7, <1>11 DEF b, x, y, type, o

-----------------------------------------------------------------------------
(* encode_message: the fields that are set, one after the other. *)

\* Every field that is set has a value of its kind.
Fits(kinds, values) ==
  /\ values = [n \in 1 .. Len(kinds) |-> values[n]]
  /\ \A n \in 1 .. Len(kinds) : values[n] # Unset => FitsKind(kinds[n], values[n])

\* What is written of a field.
Written(kinds, values, n) ==
  IF values[n] = Unset THEN <<>> ELSE WriteTag(n, WireOf(kinds[n])) \o EncodeScalar(kinds[n], values[n])

\* What is written of a field is nothing, or a field that is read back.
LEMMA WrittenIs ==
  ASSUME NEW kinds \in Seq(Scalar), Len(kinds) <= MaxField, NEW values, Fits(kinds, values),
         NEW n \in 1 .. Len(kinds)
  PROVE  LET b == Written(kinds, values, n) IN
         /\ b \in Seq(Byte) /\ Len(b) \in Nat
         /\ values[n] = Unset => Len(b) = 0
         /\ values[n] # Unset =>
              \E raw : /\ FieldAt(b, 0, Len(b), n, WireOf(kinds[n]), raw)
                       /\ DecodeScalar(kinds[n], raw) = values[n]
<1> DEFINE b == Written(kinds, values, n)
           kind == kinds[n]
           v == values[n]
<1>1. kind \in Scalar /\ n \in 1 .. MaxField
  BY WireReaderAssumption
<1>2. CASE v = Unset
  <2>1. b = <<>>
    BY <1>2 DEF Written
  <2> QED  BY <1>2, <2>1
<1>3. CASE v # Unset
  <2>1. FitsKind(kind, v)
    BY <1>3 DEF Fits
  <2>2. b = WriteTag(n, WireOf(kind)) \o EncodeScalar(kind, v)
    BY <1>3 DEF Written
  <2> HIDE DEF b, kind, v
  <2>3. /\ b \in Seq(Byte) /\ Len(b) \in Nat
        /\ \E raw : FieldAt(b, 0, Len(b), n, WireOf(kind), raw) /\ DecodeScalar(kind, raw) = v
    BY <1>1, <2>1, <2>2, FieldIsReadBack
  <2> QED  BY <1>3, <2>3 DEF b, kind, v
<1> QED  BY <1>2, <1>3

\* f[n] is what is written of the first n fields.
WrittenUpTo(f, kinds, values) ==
  f[0] = <<>> /\ \A n \in 1 .. Len(kinds) : f[n] = f[n - 1] \o Written(kinds, values, n)

\* encode_message writes all of them, and the unknown fields.
LEMMA EncodeIs ==
  ASSUME NEW kinds \in Seq(Scalar), Len(kinds) <= MaxField, NEW values, Fits(kinds, values)
  PROVE  \E f \in [0 .. Len(kinds) -> Seq(Byte)] :
           /\ WrittenUpTo(f, kinds, values)
           /\ \A rest : Encode(kinds, values, rest) = f[Len(kinds)] \o rest
<1> DEFINE S == Seq(Byte)
           field(k) == Written(kinds, values, k)
           count == Len(kinds)
           step == [p \in (1 .. count) \X S |-> p[2] \o field(p[1])]
           Body(g) == [k \in 0 .. count |-> IF k = 0 THEN <<>> ELSE g[k - 1] \o field(k)]
           upTo == CHOOSE g : g = Body(g)
<1>1. \A rest : Encode(kinds, values, rest) = upTo[count] \o rest
  BY DEF Encode, Written
<1>2. count \in Nat /\ \A k \in 1 .. count : field(k) \in S
  BY WrittenIs
<1>3. <<>> \in S /\ \A s, t \in S : s \o t \in S
  OBVIOUS
<1> HIDE DEF field, S, count
<1>4. step \in [(1 .. count) \X S -> S]
  BY <1>2, <1>3
<1>5. \E f \in [0 .. count -> S] : Climbs(f, count, <<>>, step)
  <2> HIDE DEF step
  <2> QED  BY <1>2, <1>3, <1>4, Recursion
<1>6. PICK f \in [0 .. count -> S] : Climbs(f, count, <<>>, step)
  BY <1>5
<1>7. f[0] = <<>> /\ \A k \in 1 .. count : f[k] = f[k - 1] \o field(k)
  <2>1. ASSUME NEW k \in 1 .. count
        PROVE  f[k] = f[k - 1] \o field(k)
    <3>1. k - 1 \in 0 .. count
      BY <1>2
    <3>2. f[k - 1] \in S
      BY <3>1
    <3>3. step[<<k, f[k - 1]>>] = f[k - 1] \o field(k)
      BY <3>2
    <3> QED  BY <1>6, <3>3 DEF Climbs
  <2> QED  BY <1>6, <2>1 DEF Climbs
<1>8. f = Body(f)
  <2>1. \A k \in 0 .. count : f[k] = IF k = 0 THEN <<>> ELSE f[k - 1] \o field(k)
    <3> TAKE k \in 0 .. count
    <3>1. k # 0 => k \in 1 .. count
      BY <1>2
    <3> QED  BY <1>7, <3>1
  <2> QED  BY <2>1
<1>9. upTo = Body(upTo)
  <2> HIDE DEF Body
  <2> QED  BY <1>8
<1> HIDE DEF upTo
<1>10. upTo[0] = <<>> /\ \A k \in 1 .. count : upTo[k] = upTo[k - 1] \o field(k)
  <2>1. \A k \in 0 .. count : upTo[k] = Body(upTo)[k]
    BY <1>9
  <2>2. \A k \in 0 .. count : Body(upTo)[k] = IF k = 0 THEN <<>> ELSE upTo[k - 1] \o field(k)
    OBVIOUS
  <2>3. 0 \in 0 .. count /\ \A k \in 1 .. count : k \in 0 .. count /\ k # 0
    BY <1>2
  <2> HIDE DEF Body
  <2> QED  BY <2>1, <2>2, <2>3
<1> DEFINE Bad == {k \in 0 .. count : upTo[k] # f[k]}
<1>11. Bad = {}
  <2> SUFFICES ASSUME Bad # {} PROVE FALSE
    OBVIOUS
  <2>1. PICK k \in Bad : \A j \in Bad : k <= j
    <3>1. Bad \in SUBSET Nat
      OBVIOUS
    <3> HIDE DEF Bad
    <3> QED  BY <3>1, LeastNat
  <2>2. k \in 0 .. count /\ upTo[k] # f[k]
    OBVIOUS
  <2>3. k # 0
    BY <1>7, <1>10, <2>2
  <2>4. k \in 1 .. count /\ k - 1 \in 0 .. count /\ ~ (k <= k - 1)
    BY <1>2, <2>2, <2>3
  <2>5. upTo[k - 1] = f[k - 1]
    BY <2>1, <2>4
  <2> QED  BY <1>7, <1>10, <2>2, <2>4, <2>5
<1>12. upTo[count] = f[count]
  BY <1>2, <1>11
<1>13. WrittenUpTo(f, kinds, values) /\ \A rest : Encode(kinds, values, rest) = f[count] \o rest
  BY <1>1, <1>7, <1>12 DEF WrittenUpTo, field, count
<1> QED  BY <1>13 DEF S, count

\* s has the fields one after the other, the n-th up to ends[n], and then the
\* unknown ones.
Layout(s, kinds, values, rest, ends) ==
  LET count == Len(kinds) IN
  /\ ends \in [0 .. count -> Nat] /\ ends[0] = 0
  /\ \A n \in 1 .. count :
       /\ ends[n - 1] <= ends[n]
       /\ values[n] = Unset => ends[n - 1] = ends[n]
       /\ values[n] # Unset =>
            \E raw : /\ FieldAt(s, ends[n - 1], ends[n], n, WireOf(kinds[n]), raw)
                     /\ DecodeScalar(kinds[n], raw) = values[n]
  /\ Len(s) = ends[count] + Len(rest)
  /\ Same(rest, 0, Len(rest), s, ends[count])

\* That is what encode_message writes.
LEMMA EncodeLayout ==
  ASSUME NEW kinds \in Seq(Scalar), Len(kinds) <= MaxField, NEW values, Fits(kinds, values), NEW rest \in Seq(Byte)
  PROVE  /\ Encode(kinds, values, rest) \in Seq(Byte)
         /\ \E ends : Layout(Encode(kinds, values, rest), kinds, values, rest, ends)
<1> DEFINE count == Len(kinds)
           s == Encode(kinds, values, rest)
<1>1. PICK f \in [0 .. count -> Seq(Byte)] :
        WrittenUpTo(f, kinds, values) /\ s = f[count] \o rest
  <2>1. PICK f \in [0 .. Len(kinds) -> Seq(Byte)] :
          WrittenUpTo(f, kinds, values) /\ \A r : Encode(kinds, values, r) = f[Len(kinds)] \o r
    BY EncodeIs
  <2> QED  BY <2>1
<1> DEFINE ends == [n \in 0 .. count |-> Len(f[n])]
           b(n) == Written(kinds, values, n)
<1>2. count \in Nat /\ \A n \in 0 .. count : f[n] \in Seq(Byte) /\ Len(f[n]) \in Nat /\ ends[n] = Len(f[n])
  OBVIOUS
<1>3. ASSUME NEW n \in 1 .. count
      PROVE  /\ n - 1 \in 0 .. count /\ n \in 0 .. count
             /\ f[n] = f[n - 1] \o b(n) /\ b(n) \in Seq(Byte) /\ Len(b(n)) \in Nat
             /\ ends[n] = ends[n - 1] + Len(b(n))
             /\ \A x \in 1 .. ends[n - 1] : f[n][x] = f[n - 1][x]
             /\ \A x \in 1 .. Len(b(n)) : f[n][ends[n - 1] + x] = b(n)[x]
  <2>1. n - 1 \in 0 .. count /\ n \in 0 .. count
    BY <1>2
  <2>2. f[n] = f[n - 1] \o b(n) /\ b(n) \in Seq(Byte) /\ Len(b(n)) \in Nat
    BY <1>1, WrittenIs DEF WrittenUpTo
  <2> DEFINE x == f[n - 1]
             y == b(n)
  <2>3. x \in Seq(Byte) /\ y \in Seq(Byte)
    BY <1>2, <2>1, <2>2
  <2> HIDE DEF x, y
  <2>4. Len(x \o y) = Len(x) + Len(y) /\ Same(x, 0, Len(x), x \o y, 0) /\ Same(y, 0, Len(y), x \o y, Len(x))
        /\ Len(x) \in Nat /\ Len(y) \in Nat
    BY <2>3, Joined
  <2>5. (\A k \in 1 .. Len(x) : (x \o y)[k] = x[k]) /\ \A k \in 1 .. Len(y) : (x \o y)[Len(x) + k] = y[k]
    <3>1. Len(x) - 0 = Len(x) /\ Len(y) - 0 = Len(y) /\ \A k \in Nat : 0 + k = k
      BY <2>4
    <3>2. (\A k \in 1 .. Len(x) : k \in Nat) /\ \A k \in 1 .. Len(y) : k \in Nat
      OBVIOUS
    <3> QED  BY <2>4, <3>1, <3>2 DEF Same
  <2>6. ends[n] = Len(x \o y) /\ ends[n - 1] = Len(x) /\ f[n] = x \o y
    BY <2>1, <2>2 DEF x, y
  <2> HIDE DEF ends
  <2> QED  BY <2>1, <2>2, <2>4, <2>5, <2>6 DEF x, y
<1> HIDE DEF ends, b
<1> DEFINE Begins(m, n) == ends[n] <= ends[m] /\ \A x \in 1 .. ends[n] : f[m][x] = f[n][x]
           Bad == {m \in 0 .. count : \E n \in 0 .. m : ~ Begins(m, n)}
<1>4. Bad = {}
  <2> SUFFICES ASSUME Bad # {} PROVE FALSE
    OBVIOUS
  <2>1. PICK m \in Bad : \A j \in Bad : m <= j
    <3>1. Bad \in SUBSET Nat
      OBVIOUS
    <3> HIDE DEF Bad
    <3> QED  BY <3>1, LeastNat
  <2>2. m \in 0 .. count
    OBVIOUS
  <2>3. PICK n \in 0 .. m : ~ Begins(m, n)
    OBVIOUS
  <2>4. n # m /\ m # 0
    <3>1. Begins(m, m)
      BY <1>2, <2>2
    <3> QED  BY <2>3, <3>1
  <2>5. m \in 1 .. count /\ m - 1 \in 0 .. count /\ ~ (m <= m - 1) /\ n \in 0 .. m - 1 /\ n \in 0 .. count
    BY <1>2, <2>2, <2>3, <2>4
  <2>6. Begins(m - 1, n)
    <3>1. m - 1 \notin Bad
      <4> HIDE DEF Bad
      <4> QED  BY <2>1, <2>5
    <3> QED  BY <2>5, <3>1
  <2>7. ends[m - 1] <= ends[m] /\ ends[m - 1] \in Nat /\ ends[m] \in Nat /\ ends[n] \in Nat
        /\ \A x \in 1 .. ends[m - 1] : f[m][x] = f[m - 1][x]
    <3>1. ends[m - 1] \in Nat /\ ends[m] \in Nat /\ ends[n] \in Nat
      BY <1>2, <2>2, <2>5
    <3>2. Len(b(m)) \in Nat /\ ends[m] = ends[m - 1] + Len(b(m))
      BY <1>3, <2>5
    <3>3. \A x \in 1 .. ends[m - 1] : f[m][x] = f[m - 1][x]
      BY <1>3, <2>5
    <3> QED  BY <3>1, <3>2, <3>3
  <2>8. Begins(m, n)
    BY <2>6, <2>7
  <2> QED  BY <2>3, <2>8
<1>5. \A n \in 0 .. count : Begins(count, n)
  <2>1. count \in 0 .. count
    BY <1>2
  <2>2. count \notin Bad
    <3> HIDE DEF Bad
    <3> QED  BY <1>4
  <2> HIDE DEF Begins
  <2> QED  BY <2>1, <2>2
<1> DEFINE z == ends[count]
<1>6. /\ s \in Seq(Byte) /\ Len(s) = z + Len(rest) /\ Same(rest, 0, Len(rest), s, z)
      /\ \A x \in 1 .. z : s[x] = f[count][x]
  <2> DEFINE x == f[count]
  <2>1. x \in Seq(Byte) /\ s = x \o rest /\ z = Len(x)
    BY <1>1, <1>2
  <2> HIDE DEF x, s, z
  <2>2. /\ s \in Seq(Byte) /\ Len(s) = z + Len(rest) /\ Same(rest, 0, Len(rest), s, z)
        /\ Same(x, 0, z, s, 0) /\ z \in Nat
    BY <2>1, Joined
  <2>3. \A k \in 1 .. z : s[k] = x[k]
    <3>1. z - 0 = z /\ \A k \in Nat : 0 + k = k
      BY <2>2
    <3>2. \A k \in 1 .. z : k \in Nat
      OBVIOUS
    <3> QED  BY <2>2, <3>1, <3>2 DEF Same
  <2> QED  BY <2>2, <2>3 DEF x
<1> HIDE DEF s
<1>7. ASSUME NEW n \in 1 .. count
      PROVE  /\ ends[n - 1] <= ends[n]
             /\ values[n] = Unset => ends[n - 1] = ends[n]
             /\ values[n] # Unset =>
                  \E raw : /\ FieldAt(s, ends[n - 1], ends[n], n, WireOf(kinds[n]), raw)
                           /\ DecodeScalar(kinds[n], raw) = values[n]
  <2> DEFINE a == ends[n - 1]
             d == ends[n]
             c == Len(b(n))
             o == 0
  <2>1. a \in Nat /\ d \in Nat /\ c \in Nat /\ d = a + c /\ b(n) \in Seq(Byte) /\ n \in 0 .. count
    BY <1>2, <1>3
  <2>2. z \in Nat /\ d <= z
    BY <1>2, <1>5, <2>1
  <2>3. values[n] = Unset => c = 0
    BY WrittenIs DEF b
  <2>4. ASSUME NEW x \in 1 .. c  PROVE b(n)[x] = s[a + x]
    <3>1. a + x \in 1 .. d /\ a + x \in 1 .. z
      BY <2>1, <2>2
    <3>2. f[n][a + x] = b(n)[x]
      BY <1>3
    <3>3. f[count][a + x] = f[n][a + x]
      BY <1>5, <2>1, <3>1
    <3> QED  BY <1>6, <3>1, <3>2, <3>3
  <2>5. ASSUME values[n] # Unset
        PROVE  \E raw : /\ FieldAt(s, a, d, n, WireOf(kinds[n]), raw)
                        /\ DecodeScalar(kinds[n], raw) = values[n]
    <3>1. PICK raw : FieldAt(b(n), 0, c, n, WireOf(kinds[n]), raw) /\ DecodeScalar(kinds[n], raw) = values[n]
      BY <2>5, WrittenIs DEF b
    <3>2. /\ o \in Nat /\ o <= c /\ c - o = c /\ a + (c - o) = d /\ c <= Len(b(n)) /\ \A x \in Nat : o + x = x
          /\ FieldAt(b(n), o, c, n, WireOf(kinds[n]), raw) /\ d <= Len(s)
      BY <1>6, <2>1, <2>2, <3>1
    <3>3. \A x \in 1 .. c : x \in Nat
      OBVIOUS
    <3> HIDE DEF o, a, d, c, z
    <3>4. Same(b(n), o, c, s, a)
      BY <2>4, <3>2, <3>3 DEF Same
    <3>5. FieldAt(s, a, a + (c - o), n, WireOf(kinds[n]), raw)
      BY <1>6, <2>1, <3>2, <3>4, FieldMoves
    <3> QED  BY <3>1, <3>2, <3>5
  <2> QED  BY <2>1, <2>3, <2>5
<1>8. ends \in [0 .. count -> Nat] /\ ends[0] = 0
  <2>1. 0 \in 0 .. count /\ Len(f[0]) = 0
    BY <1>1, <1>2 DEF WrittenUpTo
  <2> QED  BY <1>2, <2>1 DEF ends
<1>9. Layout(s, kinds, values, rest, ends)
  BY <1>6, <1>7, <1>8 DEF Layout
<1> QED  BY <1>6, <1>9 DEF s

\* Later fields end later.
LEMMA EndsGrow ==
  ASSUME NEW s, NEW kinds \in Seq(Scalar), NEW values, NEW rest, NEW ends, Layout(s, kinds, values, rest, ends)
  PROVE  \A m \in 0 .. Len(kinds) : \A n \in 0 .. m : ends[n] <= ends[m]
<1> DEFINE count == Len(kinds)
           Bad == {m \in 0 .. count : \E n \in 0 .. m : ~ (ends[n] <= ends[m])}
<1>1. count \in Nat /\ ends \in [0 .. count -> Nat] /\ \A n \in 1 .. count : ends[n - 1] <= ends[n]
  BY DEF Layout
<1> SUFFICES ASSUME Bad # {} PROVE FALSE
  BY <1>1
<1>2. PICK m \in Bad : \A j \in Bad : m <= j
  <2>1. Bad \in SUBSET Nat
    OBVIOUS
  <2> HIDE DEF Bad
  <2> QED  BY <2>1, LeastNat
<1>3. PICK n \in 0 .. m : ~ (ends[n] <= ends[m])
  OBVIOUS
<1>4. m \in 0 .. count /\ n # m
  BY <1>1, <1>3
<1>5. m \in 1 .. count /\ m - 1 \in 0 .. count /\ ~ (m <= m - 1) /\ n \in 0 .. m - 1 /\ n \in 0 .. count
  BY <1>1, <1>4
<1>6. ends[n] <= ends[m - 1]
  <2>1. m - 1 \notin Bad
    <3> HIDE DEF Bad
    <3> QED  BY <1>2, <1>5
  <2> QED  BY <1>5, <2>1
<1>7. ends[m - 1] <= ends[m] /\ ends[n] \in Nat /\ ends[m - 1] \in Nat /\ ends[m] \in Nat
  BY <1>1, <1>4, <1>5
<1> QED  BY <1>3, <1>6, <1>7

-----------------------------------------------------------------------------
(* The reader's state. *)

\* decode_scalar gives a value of the kind.
LEMMA DecodeScalarIs ==
  ASSUME NEW kind \in Scalar, NEW raw,
         WireOf(kind) = "varint" => raw \in UInt(W),
         WireOf(kind) # "varint" => raw \in Seq(Byte),
         WireOf(kind) = "fixed" => Len(raw) = FixedLen,
         WireOf(kind) = "len" => Len(raw) \in UInt(W)
  PROVE  FitsKind(kind, DecodeScalar(kind, raw)) /\ DecodeScalar(kind, raw) # Unset
<1>1. CASE kind \in {"uint32", "uint64", "int32", "int64", "sint32", "sint64", "bool"}
  <2>0. N \in Nat \ {0} /\ W \in Nat \ {0}
    BY WidthsAre
  <2>1. raw \in UInt(W) /\ raw \in Nat
    BY <1>1, <2>0, WidthIs DEF WireOf
  <2>2. AsUnsigned(raw, N) \in UInt(N) /\ AsUnsigned(raw, N) \in Int
    <3>1. AsUnsigned(raw, N) \in UInt(N)
      BY <2>0, <2>1, CastIs
    <3> QED  BY <2>0, <3>1, WidthIs
  <2>3. AsSigned(AsUnsigned(raw, N), N) \in SInt(N) /\ AsSigned(raw, W) \in SInt(W)
    BY <2>0, <2>1, <2>2, CastIs
  <2>4. ZigZagDecode(AsUnsigned(raw, N), N) \in SInt(N) /\ ZigZagDecode(raw, W) \in SInt(W)
    BY <2>0, <2>1, <2>2, ZigZagIs
  <2>5. DecodeScalar(kind, raw) \in ValueOf(kind)
    BY <1>1, <2>1, <2>2, <2>3, <2>4 DEF DecodeScalar, ValueOf, DecodeNarrow
  <2>6. ValueOf(kind) \subseteq Int \/ ValueOf(kind) = BOOLEAN
    BY <1>1, <2>0, WidthIs DEF ValueOf
  <2>7. Unset \notin ValueOf(kind)
    BY <2>6, WireReaderAssumption
  <2> QED  BY <1>1, <2>5, <2>7 DEF FitsKind
<1>2. CASE kind \in {"fixed32", "sfixed32"}
  <2>0. FixedBits \in Nat \ {0}
    BY WidthsAre
  <2>1. raw \in Seq(Byte) /\ Len(raw) = FixedLen
    BY <1>2 DEF WireOf
  <2>2. FromLE(raw) \in UInt(FixedBits) /\ FromLE(raw) \in Int
    BY <2>0, <2>1, FromLEIs, WidthIs
  <2>3. AsSigned(FromLE(raw), FixedBits) \in SInt(FixedBits)
    BY <2>0, <2>2, CastIs
  <2>4. DecodeScalar(kind, raw) \in ValueOf(kind)
    BY <1>2, <2>2, <2>3 DEF DecodeScalar, ValueOf
  <2>5. ValueOf(kind) \subseteq Int
    BY <1>2, <2>0, WidthIs DEF ValueOf
  <2>6. Unset \notin ValueOf(kind)
    BY <2>5, WireReaderAssumption
  <2> QED  BY <1>2, <2>4, <2>6 DEF FitsKind
<1>3. CASE kind = "bytes"
  <2>1. raw \in Seq(Byte) /\ DecodeScalar(kind, raw) = raw /\ Len(raw) \in UInt(W)
    BY <1>3 DEF WireOf, DecodeScalar
  <2> QED  BY <1>3, <2>1, WireReaderAssumption DEF FitsKind
<1> QED  BY <1>1, <1>2, <1>3 DEF Scalar

\* The cursor is inside of the input, and the varint being read has its width.
CursorOK ==
  /\ schema \in Seq(Scalar) /\ Len(schema) <= MaxField /\ input \in Seq(Byte)
  /\ pos \in Nat /\ start \in Nat /\ start <= pos /\ pos <= Len(input)
  /\ acc \in UInt(W) /\ shift \in Nat /\ num \in Nat

\* What is being read is what the tag announced.
TagOK ==
  /\ wire \in DOMAIN Code /\ use \in {"tag", "value", "len"}
  /\ use = "value" => wire = "varint"
  /\ use = "len" => wire = "len"
  /\ phase = "fixed" => wire = "fixed"

\* The unknown fields are bytes.
UnknownOK == unknown \in Seq(Byte)

\* The inductive invariant, as far as one field goes.
ReaderInv == CursorOK /\ TagOK /\ Fits(schema, vals) /\ UnknownOK

\* An instance without any value, or with one.
LEMMA BuiltIs ==
  ASSUME NEW kinds \in Schemas
  PROVE  /\ kinds \in Seq(Scalar) /\ Len(kinds) \in Nat /\ Len(kinds) <= MaxField
         /\ Fits(kinds, Blank(kinds))
         /\ \A n \in 1 .. Len(kinds) : \A v \in ValueOf(kinds[n]) :
              Fits(kinds, [Blank(kinds) EXCEPT ![n] = v])
<1>1. kinds \in Seq(Scalar) /\ Len(kinds) \in Nat /\ Len(kinds) <= MaxField
  BY WireReaderAssumption
<1>2. Fits(kinds, Blank(kinds))
  BY DEF Fits, Blank
<1>3. ASSUME NEW n \in 1 .. Len(kinds), NEW v \in ValueOf(kinds[n])
      PROVE  Fits(kinds, [Blank(kinds) EXCEPT ![n] = v])
  <2> DEFINE built == [Blank(kinds) EXCEPT ![n] = v]
  <2>1. built = [k \in 1 .. Len(kinds) |-> IF k = n THEN v ELSE Unset]
    BY DEF Blank
  <2>2. FitsKind(kinds[n], v)
    <3>1. kinds[n] \in Scalar
      BY <1>1
    <3> QED  BY <3>1, ValuesFit
  <2> HIDE DEF built
  <2>3. built = [k \in 1 .. Len(kinds) |-> built[k]]
    BY <2>1
  <2>4. \A k \in 1 .. Len(kinds) : built[k] # Unset => FitsKind(kinds[k], built[k])
    BY <2>1, <2>2
  <2>5. Fits(kinds, built)
    BY <2>3, <2>4 DEF Fits
  <2> QED  BY <2>5 DEF built
<1> QED  BY <1>1, <1>2, <1>3

\* The inputs are bytes, the ones that are written for a value included.
LEMMA InitReader == Init => ReaderInv
<1> SUFFICES ASSUME Init PROVE ReaderInv
  OBVIOUS
<1>1. schema \in Schemas /\ vals = Blank(schema)
  BY DEF Init
<1>2. schema \in Seq(Scalar) /\ Len(schema) <= MaxField /\ Fits(schema, vals)
  BY <1>1, BuiltIs
<1>3. input \in Seq(Byte)
  <2>1. CASE input \in Inputs
    BY <2>1, WireReaderAssumption
  <2>2. ASSUME NEW n \in 1 .. Len(schema), NEW v \in ValueOf(schema[n]),
               input = Encode(schema, [Blank(schema) EXCEPT ![n] = v], <<>>)
        PROVE  input \in Seq(Byte)
    <3> DEFINE built == [Blank(schema) EXCEPT ![n] = v]
    <3>1. Fits(schema, built)
      BY <1>1, BuiltIs
    <3> HIDE DEF built
    <3>2. <<>> \in Seq(Byte)
      OBVIOUS
    <3>3. Encode(schema, built, <<>>) \in Seq(Byte)
      BY <1>2, <3>1, <3>2, EncodeLayout
    <3> QED  BY <2>2, <3>3 DEF built
  <2> QED  BY <2>1, <2>2 DEF Init
<1>4. SubSeq(input, 1, 0) = <<>> /\ <<>> \in Seq(Byte) /\ Len(input) \in Nat
  BY <1>3
<1>5. pos = 0 /\ start = 0 /\ acc = 0 /\ shift = 0 /\ num = 0 /\ phase = "loop"
      /\ unknown = <<>> /\ use = "tag" /\ wire = "varint"
  BY DEF Init
<1>6. CursorOK
  BY <1>2, <1>3, <1>4, <1>5, WidthsAre, WidthIs DEF CursorOK
<1>7. TagOK
  BY <1>5, WidthsAre DEF TagOK
<1>8. UnknownOK
  BY <1>4, <1>5 DEF UnknownOK
<1> QED  BY <1>2, <1>6, <1>7, <1>8 DEF ReaderInv

\* The bytes up to a place follow on those before it.
LEMMA BytesFollow ==
  ASSUME NEW s \in Seq(Byte), NEW i \in Nat, NEW a \in Nat, NEW b \in Nat, i <= a, a <= b, b <= Len(s)
  PROVE  /\ SubSeq(s, i + 1, a) \o SubSeq(s, a + 1, b) = SubSeq(s, i + 1, b)
         /\ SubSeq(s, a + 1, b) \in Seq(Byte) /\ Len(SubSeq(s, a + 1, b)) = b - a
<1> DEFINE x == SubSeq(s, i + 1, a)
           y == SubSeq(s, a + 1, b)
           z == SubSeq(s, i + 1, b)
<1>1. x \in Seq(Byte) /\ Len(x) = a - i /\ \A k \in 1 .. a - i : x[k] = s[i + k]
  OBVIOUS
<1>2. y \in Seq(Byte) /\ Len(y) = b - a /\ \A k \in 1 .. b - a : y[k] = s[a + k]
  OBVIOUS
<1>3. z \in Seq(Byte) /\ Len(z) = b - i /\ \A k \in 1 .. b - i : z[k] = s[i + k]
  OBVIOUS
<1> HIDE DEF x, y, z
<1>4. x \o y \in Seq(Byte) /\ Len(x \o y) = b - i
      /\ \A k \in 1 .. b - i : (x \o y)[k] = IF k <= a - i THEN x[k] ELSE y[k - (a - i)]
  <2>1. /\ x \o y \in Seq(Byte) /\ Len(x \o y) = Len(x) + Len(y)
        /\ \A k \in 1 .. Len(x) + Len(y) : (x \o y)[k] = IF k <= Len(x) THEN x[k] ELSE y[k - Len(x)]
    BY <1>1, <1>2, ConcatProperties
  <2>2. Len(x) = a - i /\ Len(x) + Len(y) = b - i
    BY <1>1, <1>2
  <2> QED  BY <2>1, <2>2
<1>5. \A k \in 1 .. b - i : (x \o y)[k] = z[k]
  <2> TAKE k \in 1 .. b - i
  <2>1. CASE k <= a - i
    BY <1>1, <1>3, <1>4, <2>1
  <2>2. CASE k > a - i
    <3>1. k - (a - i) \in 1 .. b - a /\ a + (k - (a - i)) = i + k
      BY <2>2
    <3>2. y[k - (a - i)] = s[i + k]
      BY <1>2, <3>1
    <3> QED  BY <1>3, <1>4, <2>2, <3>2
  <2>3. k <= a - i \/ k > a - i
    OBVIOUS
  <2> QED  BY ONLY <2>1, <2>2, <2>3
<1>6. x \o y = z
  BY <1>3, <1>4, <1>5, SeqEqual
<1> QED  BY <1>2, <1>6 DEF x, y, z

\* A field that ends inside of the input, with a raw value as its wire type
\* has it, leaves a value or its bytes.
LEMMA ConsumeKeeps ==
  ASSUME ReaderInv, NEW end \in Nat, pos <= end, end <= Len(input), NEW raw, Consume(end, raw),
         wire = "varint" => raw \in UInt(W),
         wire # "varint" => raw \in Seq(Byte),
         wire = "fixed" => Len(raw) = FixedLen,
         wire = "len" => Len(raw) \in UInt(W),
         phase \in {"varint", "have", "fixed"}
  PROVE  ReaderInv'
<1> USE DEF ReaderInv
<1>1. UNCHANGED <<schema, input, start, use, acc, shift, num, wire, saved>> /\ pos' = end /\ phase' = "loop"
  BY DEF Consume
<1>2. CursorOK'
  BY <1>1 DEF CursorOK
<1>3. TagOK'
  BY <1>1 DEF TagOK
<1>4. CASE Known
  <2>1. num \in 1 .. Len(schema) /\ WireOf(schema[num]) = wire /\ schema[num] \in Scalar
    BY <1>4 DEF Known, CursorOK
  <2> DEFINE v == DecodeScalar(schema[num], raw)
  <2>2. FitsKind(schema[num], v) /\ v # Unset
    BY <2>1, DecodeScalarIs
  <2>3. vals' = [vals EXCEPT ![num] = v] /\ unknown' = unknown
    BY <1>4 DEF Consume
  <2> HIDE DEF v
  <2>4. vals' = [n \in 1 .. Len(schema) |-> IF n = num THEN v ELSE vals[n]]
    BY <2>1, <2>3 DEF Fits
  <2>5. Fits(schema, vals)'
    <3>1. vals' = [n \in 1 .. Len(schema) |-> vals'[n]]
      BY <2>4
    <3>2. \A n \in 1 .. Len(schema) : vals'[n] # Unset => FitsKind(schema[n], vals'[n])
      BY <2>2, <2>4 DEF Fits
    <3> QED  BY <1>1, <3>1, <3>2 DEF Fits
  <2>6. UnknownOK'
    BY <2>3 DEF UnknownOK
  <2> QED  BY <1>2, <1>3, <2>5, <2>6
<1>5. CASE ~ Known
  <2>1. vals' = vals /\ unknown' = unknown \o SubSeq(input, start + 1, end)
    BY <1>5 DEF Consume
  <2>2. Fits(schema, vals)'
    BY <1>1, <2>1 DEF Fits
  <2>3. SubSeq(input, start + 1, end) \in Seq(Byte)
    <3>1. input \in Seq(Byte) /\ start \in Nat /\ start <= end
      BY DEF CursorOK
    <3> QED  BY <3>1, PartIs
  <2>4. unknown \in Seq(Byte)
    BY DEF UnknownOK
  <2>5. UnknownOK'
    BY <2>1, <2>3, <2>4 DEF UnknownOK
  <2> QED  BY <1>2, <1>3, <2>2, <2>5
<1> QED  BY <1>4, <1>5

\* Every step keeps the invariant.
LEMMA NextReader == ReaderInv /\ [Next]_vars => ReaderInv'
<1> SUFFICES ASSUME ReaderInv, [Next]_vars PROVE ReaderInv'
  OBVIOUS
<1> USE DEF ReaderInv
<1>0. 0 \in UInt(W) /\ UInt(W) \subseteq Nat
  BY WidthsAre, WidthIs
<1>1. CASE NextField
  BY <1>0, <1>1 DEF NextField, Varint, CursorOK, TagOK, Fits, UnknownOK
<1>2. CASE NoMoreFields
  BY <1>2 DEF NoMoreFields, reader, CursorOK, TagOK, Fits, UnknownOK
<1>3. CASE ReadByte
  <2>1. AsUnsigned(acc + (input[pos + 1] % Base) * 2 ^ shift, W) \in UInt(W)
    <3>1. pos + 1 \in 1 .. Len(input)
      BY <1>3 DEF ReadByte, CursorOK
    <3>2. input[pos + 1] \in Byte /\ Base \in Nat \ {0, 1}
      BY <3>1, BaseIs DEF CursorOK
    <3>3. input[pos + 1] % Base \in Int
      BY <3>2 DEF Byte
    <3>4. 2 ^ shift \in Int
      BY DEF CursorOK
    <3>5. acc \in Int
      BY <1>0 DEF CursorOK
    <3>6. acc + (input[pos + 1] % Base) * 2 ^ shift \in Int
      BY <3>3, <3>4, <3>5
    <3> QED  BY <3>6, WidthsAre, CastIs
  <2>2. shift' = shift + G /\ G \in Nat
    BY <1>3, WireAssumption DEF ReadByte
  <2>3. CursorOK'
    BY <1>3, <2>1, <2>2 DEF ReadByte, CursorOK
  <2>4. TagOK' /\ Fits(schema, vals)' /\ UnknownOK'
    BY <1>3 DEF ReadByte, TagOK, Fits, UnknownOK
  <2> QED  BY <2>3, <2>4
<1>4. ASSUME NEW error \in Errors, Stop(error)
      PROVE  ReaderInv'
  BY <1>4 DEF Stop, Errors, reader, CursorOK, TagOK, Fits, UnknownOK
<1>5. CASE ReadTag
  <2>1. wire' \in DOMAIN Code /\ num' \in Nat
    <3>1. tagField \in Nat
      BY <1>5, WireReaderAssumption DEF ReadTag, FieldInRange
    <3> QED  BY <1>5, <3>1 DEF ReadTag, tagWire
  <2>2. UNCHANGED <<schema, input, pos, start, vals, unknown, saved>>
    BY <1>5 DEF ReadTag
  <2>3. \/ wire' = "varint" /\ phase' = "varint" /\ use' = "value" /\ acc' = 0 /\ shift' = 0
        \/ wire' = "len" /\ phase' = "varint" /\ use' = "len" /\ acc' = 0 /\ shift' = 0
        \/ wire' = "fixed" /\ phase' = "fixed" /\ use' = "tag" /\ UNCHANGED <<acc, shift>>
    <3>1. wire' \in {"varint", "fixed", "len"}
      BY <2>1, WidthsAre
    <3>2. use = "tag"
      BY <1>5 DEF ReadTag
    <3> QED  BY <1>5, <3>1, <3>2 DEF ReadTag, Varint
  <2>4. phase = "have"
    BY <1>5 DEF ReadTag
  <2>5. CursorOK'
    BY <1>0, <2>1, <2>2, <2>3 DEF CursorOK
  <2>6. TagOK'
    BY <2>1, <2>3 DEF TagOK
  <2>7. Fits(schema, vals)' /\ UnknownOK'
    BY <2>2, <2>3, <2>4 DEF Fits, UnknownOK
  <2> QED  BY <2>5, <2>6, <2>7
<1>6. CASE ReadValue
  <2>1. phase = "have" /\ wire = "varint" /\ Consume(pos, acc)
    BY <1>6 DEF ReadValue, TagOK
  <2>2. pos \in Nat /\ pos <= pos /\ pos <= Len(input) /\ acc \in UInt(W)
    BY DEF CursorOK
  <2> QED  BY <2>1, <2>2, ConsumeKeeps
<1>7. CASE ReadLenDelimited
  <2>1. CASE pos + acc > Len(input)
    BY <1>4, <1>7, <2>1 DEF ReadLenDelimited, Errors
  <2>2. CASE ~ (pos + acc > Len(input))
    <3> DEFINE end == pos + acc
    <3>1. phase = "have" /\ wire = "len" /\ Consume(end, SubSeq(input, pos + 1, end))
      BY <1>7, <2>2 DEF ReadLenDelimited, TagOK
    <3>2. input \in Seq(Byte) /\ pos \in Nat /\ end \in Nat /\ pos <= end /\ end <= Len(input)
      BY <1>0, <2>2 DEF CursorOK
    <3> HIDE DEF end
    <3>3. SubSeq(input, pos + 1, end) \in Seq(Byte) /\ Len(SubSeq(input, pos + 1, end)) = end - pos
      BY <3>2, PartIs
    <3>4. end - pos = acc /\ acc \in UInt(W)
      BY <1>0 DEF CursorOK, end
    <3> QED  BY <3>1, <3>2, <3>3, <3>4, ConsumeKeeps
  <2> QED  BY <2>1, <2>2
<1>8. CASE ReadFixed
  <2>1. CASE pos + FixedLen > Len(input)
    BY <1>4, <1>8, <2>1 DEF ReadFixed, Errors
  <2>2. CASE ~ (pos + FixedLen > Len(input))
    <3> DEFINE end == pos + FixedLen
    <3>1. phase = "fixed" /\ wire = "fixed" /\ Consume(end, SubSeq(input, pos + 1, end))
      BY <1>8, <2>2 DEF ReadFixed, TagOK
    <3>2. input \in Seq(Byte) /\ pos \in Nat /\ end \in Nat /\ pos <= end /\ end <= Len(input)
          /\ end - pos = FixedLen
      BY <2>2, WireReaderAssumption DEF CursorOK
    <3> HIDE DEF end
    <3>3. SubSeq(input, pos + 1, end) \in Seq(Byte) /\ Len(SubSeq(input, pos + 1, end)) = FixedLen
      BY <3>2, PartIs
    <3> QED  BY <3>1, <3>2, <3>3, ConsumeKeeps
  <2> QED  BY <2>1, <2>2
<1>9. CASE Rewrite
  <2>1. UNCHANGED <<schema, use, acc, shift, num, wire>> /\ pos' = 0 /\ start' = 0 /\ phase' = "loop"
        /\ unknown' = <<>> /\ vals' = Blank(schema) /\ input' = Encode(schema, vals, unknown)
    BY <1>9 DEF Rewrite
  <2>2. input' \in Seq(Byte)
    BY <2>1, EncodeLayout DEF CursorOK, UnknownOK
  <2>3. Len(input') \in Nat /\ SubSeq(input', 1, 0) = <<>> /\ <<>> \in Seq(Byte)
    BY <2>2
  <2>4. CursorOK'
    BY <2>1, <2>2, <2>3 DEF CursorOK
  <2>5. TagOK'
    BY <2>1 DEF TagOK
  <2>6. Fits(schema, vals)'
    BY <2>1 DEF Fits, Blank, CursorOK
  <2>7. UnknownOK'
    BY <2>1, <2>3 DEF UnknownOK
  <2> QED  BY <2>4, <2>5, <2>6, <2>7
<1>10. CASE ReadByteEof \/ InvalidWire \/ InvalidField
  BY <1>4, <1>10 DEF ReadByteEof, InvalidWire, InvalidField, Errors
<1>11. CASE UNCHANGED vars
  BY <1>11 DEF vars, CursorOK, TagOK, Fits, UnknownOK
<1> QED  BY <1>1, <1>2, <1>3, <1>5, <1>6, <1>7, <1>8, <1>9, <1>10, <1>11 DEF Next

-----------------------------------------------------------------------------
(* What has been read of a field. *)

\* A varint from i has been read up to the cursor, and goes on.
Reading(i) ==
  /\ pos - i < MaxVarint
  /\ \A k \in i + 1 .. pos : Continues(input[k])
  /\ shift = G * (pos - i)
  /\ acc = AsUnsigned(Number(Low(input, i, pos), G), W)

\* The field's tag has been read, up to t.
TagRead(t) == num \in 1 .. MaxField /\ VarintAt(input, start, t, TagOf(num, wire))

\* The varint being read is the tag, or it comes behind the tag.
Before(i) == IF use = "tag" THEN i = start ELSE i > start /\ TagRead(i)

\* There is no field from i, wherever it might end.
NoField(s, i) == \A j \in i + 1 .. Len(s) : \A n, type, raw : ~ FieldAt(s, i, j, n, type, raw)

\* The decoder has stopped with an error only where there is no field.
ReadingInv ==
  /\ phase \in {"varint", "have", "fixed"} \cup Errors => start < Len(input)
  /\ phase = "varint" => \E i \in start .. pos : Before(i) /\ Reading(i)
  /\ phase = "have" => \E i \in start .. pos : Before(i) /\ VarintAt(input, i, pos, acc)
  /\ phase = "fixed" => pos > start /\ TagRead(pos)
  /\ phase \in Errors => NoField(input, start)

\* There is no varint where the bytes go on up to the end, or for too long.
LEMMA NoVarint ==
  ASSUME NEW s \in Seq(Byte), NEW i \in Nat, NEW p \in Nat, i <= p, \A k \in i + 1 .. p : Continues(s[k]),
         p = Len(s) \/ p - i >= MaxVarint
  PROVE  \A j \in i + 1 .. Len(s) : \A v : ~ VarintAt(s, i, j, v)
<1> SUFFICES ASSUME NEW j \in i + 1 .. Len(s), NEW v, VarintAt(s, i, j, v) PROVE FALSE
  OBVIOUS
<1>1. j \in Nat /\ j - i \in 1 .. MaxVarint /\ MaxVarint \in Nat /\ Len(s) \in Nat
  BY MaxVarintIs DEF VarintAt
<1>2. j <= p
  BY <1>1
<1>3. j \in i + 1 .. j /\ j \in i + 1 .. p /\ ~ (j < j)
  BY <1>1, <1>2
<1>4. ~ Continues(s[j])
  BY <1>3 DEF VarintAt
<1> QED  BY <1>3, <1>4

\* What is known of a field begins with its tag.
LEMMA NoTag ==
  ASSUME NEW s \in Seq(Byte), NEW i \in Nat, \A j \in i + 1 .. Len(s) : \A v : ~ VarintAt(s, i, j, v)
  PROVE  NoField(s, i)
<1> SUFFICES ASSUME NEW j \in i + 1 .. Len(s), NEW n, NEW type, NEW raw, FieldAt(s, i, j, n, type, raw)
             PROVE  FALSE
  BY DEF NoField
<1>1. PICK t \in i + 1 .. j : VarintAt(s, i, t, TagOf(n, type))
  BY DEF FieldAt
<1>2. t \in i + 1 .. Len(s)
  OBVIOUS
<1> QED  BY <1>1, <1>2

\* The tag of a field is the varint that it begins with.
LEMMA TagOfField ==
  ASSUME NEW s \in Seq(Byte), NEW i \in Nat, NEW t \in Nat, NEW u, VarintAt(s, i, t, u),
         NEW j \in i + 1 .. Len(s), NEW n, NEW type, NEW raw, FieldAt(s, i, j, n, type, raw)
  PROVE  /\ n \in 1 .. MaxField /\ type \in DOMAIN Code /\ u = TagOf(n, type)
         /\ t \in i + 1 .. j /\ PayloadAt(s, t, j, type, raw)
         /\ u \div 2 ^ TagBits = n /\ u % 2 ^ TagBits = Code[type]
<1>1. n \in 1 .. MaxField /\ type \in DOMAIN Code
  BY DEF FieldAt
<1>2. PICK k \in i + 1 .. j : VarintAt(s, i, k, TagOf(n, type)) /\ PayloadAt(s, k, j, type, raw)
  BY DEF FieldAt
<1>3. k = t /\ u = TagOf(n, type)
  BY <1>2, VarintUnique
<1>4. n \in Nat
  BY <1>1
<1> QED  BY <1>1, <1>2, <1>3, <1>4, TagIs

\* There is no field where nothing of its wire type comes behind the tag.
LEMMA NoPayload ==
  ASSUME NEW s \in Seq(Byte), NEW i \in Nat, NEW t \in Nat, NEW n \in 1 .. MaxField, NEW type \in DOMAIN Code,
         VarintAt(s, i, t, TagOf(n, type)),
         \A j \in t .. Len(s) : \A raw : ~ PayloadAt(s, t, j, type, raw)
  PROVE  NoField(s, i)
<1> SUFFICES ASSUME NEW j \in i + 1 .. Len(s), NEW m, NEW wired, NEW raw, FieldAt(s, i, j, m, wired, raw)
             PROVE  FALSE
  BY DEF NoField
<1>1. /\ m \in 1 .. MaxField /\ wired \in DOMAIN Code /\ TagOf(n, type) = TagOf(m, wired)
      /\ t \in i + 1 .. j /\ PayloadAt(s, t, j, wired, raw)
  BY TagOfField
<1>2. Code[type] = Code[wired]
  <2>1. n \in Nat /\ m \in Nat
    BY <1>1
  <2> QED  BY <1>1, <2>1, TagIs
<1>3. type = wired
  BY <1>1, <1>2, WireReaderAssumption DEF IsInjective
<1>4. j \in t .. Len(s)
  BY <1>1
<1> QED  BY <1>1, <1>3, <1>4

\* The bytes up to the end of a varint that never ends are no field.
LEMMA NeverEnds ==
  ASSUME ReaderInv, NEW i \in start .. pos, Before(i), NEW p \in Nat, i <= p, p <= Len(input),
         \A k \in i + 1 .. p : Continues(input[k]), p = Len(input) \/ p - i >= MaxVarint
  PROVE  NoField(input, start)
<1>1. input \in Seq(Byte) /\ start \in Nat /\ pos \in Nat /\ i \in Nat /\ wire \in DOMAIN Code
  BY DEF ReaderInv, CursorOK, TagOK
<1>2. \A j \in i + 1 .. Len(input) : \A v : ~ VarintAt(input, i, j, v)
  BY <1>1, NoVarint
<1>3. CASE use = "tag"
  BY <1>1, <1>2, <1>3, NoTag DEF Before
<1>4. CASE use # "tag"
  <2>1. num \in 1 .. MaxField /\ VarintAt(input, start, i, TagOf(num, wire)) /\ wire \in {"varint", "len"}
    BY <1>4 DEF Before, TagRead, ReaderInv, TagOK
  <2>2. \A j \in i .. Len(input) : \A raw : ~ PayloadAt(input, i, j, wire, raw)
    <3> SUFFICES ASSUME NEW j \in i .. Len(input), NEW raw, PayloadAt(input, i, j, wire, raw) PROVE FALSE
      OBVIOUS
    <3>1. CASE wire = "varint"
      <4>1. VarintAt(input, i, j, raw)
        BY <3>1 DEF PayloadAt
      <4>2. j \in i + 1 .. Len(input)
        BY <4>1 DEF VarintAt
      <4> QED  BY <1>2, <4>1, <4>2
    <3>2. CASE wire = "len"
      <4>1. PICK l \in i + 1 .. j : VarintAt(input, i, l, j - l)
        BY <3>2 DEF PayloadAt
      <4>2. l \in i + 1 .. Len(input)
        OBVIOUS
      <4> QED  BY <1>2, <4>1, <4>2
    <3> QED  BY <2>1, <3>1, <3>2
  <2> QED  BY <1>1, <2>1, <2>2, NoPayload
<1> QED  BY <1>3, <1>4


-----------------------------------------------------------------------------
(* What a step does to a field. *)

Inside == phase \in {"varint", "have", "fixed"}

\* The decoder goes on with the field.
GoesOn == Inside /\ phase' \in {"varint", "have", "fixed"} /\ UNCHANGED <<schema, input, start, vals, unknown, saved>>

\* It stops, where there is no field.
GivesUp ==
  /\ Inside /\ phase' \in Errors
  /\ NoField(input, start)
  /\ UNCHANGED <<schema, input, start, vals, unknown, saved>>

\* It takes the field, which is there.
Takes(end, raw) ==
  /\ Inside /\ Consume(end, raw)
  /\ end \in start + 1 .. Len(input)
  /\ FieldAt(input, start, end, num, wire, raw)

\* A step that stops the decoder leaves nothing to read.
LEMMA StopsIs ==
  ASSUME ReaderInv, ReadingInv, NEW error \in Errors, Stop(error), Inside, NoField(input, start)
  PROVE  GivesUp /\ ReadingInv'
<1>1. start < Len(input)
  BY DEF ReadingInv, Inside
<1>2. phase' \in Errors /\ UNCHANGED <<schema, input, start, vals, unknown, saved>>
  BY DEF Stop, reader
<1>3. NoField(input, start)'
  BY <1>2
<1>4. phase' \notin {"varint", "have", "fixed"}
  BY <1>2 DEF Errors
<1>5. ReadingInv'
  BY <1>1, <1>2, <1>3, <1>4 DEF ReadingInv
<1> QED  BY <1>2, <1>5 DEF GivesUp

\* One byte of a varint.
LEMMA ReadByteStep ==
  ASSUME ReaderInv, ReadingInv, ReadByte
  PROVE  (GoesOn \/ GivesUp) /\ ReadingInv'
<1>1. PICK i \in start .. pos : Before(i) /\ Reading(i)
  BY DEF ReadByte, ReadingInv
<1> DEFINE next == pos + 1
           byte == input[next]
           digits == Low(input, i, pos)
           v == Number(digits, G)
           place == 2 ^ (G * (pos - i))
<1>2. /\ input \in Seq(Byte) /\ start \in Nat /\ pos \in Nat /\ i \in Nat /\ i <= pos /\ pos < Len(input)
      /\ start <= i /\ Len(input) \in Nat
  BY DEF ReaderInv, CursorOK, ReadByte
<1>3. G \in Nat \ {0} /\ W \in Nat \ {0} /\ MaxVarint \in Nat \ {0}
  BY WireAssumption, WidthsAre, MaxVarintIs
<1>4. /\ UNCHANGED <<schema, input, start, use, num, wire, vals, unknown, saved>>
      /\ pos' = next /\ shift' = G * (next - i)
      /\ phase = "varint"
      /\ phase' = IF ~ Continues(byte) THEN "have" ELSE IF next - i < MaxVarint THEN "varint" ELSE "VarintOverflow"
  <2>1. shift = G * (pos - i)
    BY <1>1 DEF Reading
  <2>2. next - i \in Nat /\ \A k \in Nat : G * k < W <=> k < MaxVarint
    BY <1>2, MaxVarintIs
  <2>3. \A x \in Nat : G * x + G = G * (x + 1)
    BY <1>3
  <2>4. pos - i \in Nat /\ (pos - i) + 1 = next - i
    BY <1>2
  <2>5. shift + G = G * (next - i)
    BY <2>1, <2>3, <2>4
  <2>6. shift + G < W <=> next - i < MaxVarint
    BY <2>2, <2>5
  <2> QED  BY <2>5, <2>6 DEF ReadByte
<1>5. /\ digits \in Seq(Nat) /\ Len(digits) = pos - i /\ byte % Base \in Nat
      /\ Low(input, i, next) = Append(digits, byte % Base)
  BY <1>2, LowIs
<1>6. acc' = AsUnsigned(Number(Low(input, i, next), G), W)
  <2>1. acc = AsUnsigned(v, W) /\ shift = G * (pos - i)
    BY <1>1 DEF Reading
  <2>2. acc' = AsUnsigned(acc + (byte % Base) * place, W)
    BY <2>1 DEF ReadByte
  <2>3. v \in Nat /\ Number(Low(input, i, next), G) = v + (byte % Base) * place
    <3>1. \A d \in Nat : Number(Append(digits, d), G) = Number(digits, G) + d * 2 ^ (G * Len(digits))
      BY <1>3, <1>5, NumberAppend
    <3>2. v \in Nat
      BY <1>3, <1>5, NumberAppend
    <3> QED  BY <1>5, <3>1, <3>2
  <2>4. place \in Nat
    <3>1. pos - i \in Nat
      BY <1>2
    <3> QED  BY ONLY <1>3, <3>1, PlaceIs DEF place
  <2> DEFINE c == (byte % Base) * place
             m == 2 ^ W
  <2>5. c \in Int /\ m \in Nat \ {0}
    <3>1. \A x, y \in Nat : x * y \in Int
      OBVIOUS
    <3> QED  BY <1>3, <1>5, <2>4, <3>1, PowerIs
  <2> HIDE DEF v, c, m, place
  <2>6. v \in Int /\ c \in Int /\ m \in Nat \ {0}
    BY <2>3, <2>5
  <2>7. ((v % m) + c) % m = (v + c) % m
    BY ONLY <2>6, RemainderSum
  <2> QED  BY <2>1, <2>2, <2>3, <2>7 DEF AsUnsigned, c, m
<1> HIDE DEF byte, digits, v, place
<1>7. \A k \in i + 1 .. pos : Continues(input[k])
  BY <1>1 DEF Reading
<1>8. \A k \in i + 1 .. next : k \in i + 1 .. pos \/ k = next
  BY <1>2
<1>9. i \in start .. next /\ start < Len(input) /\ Before(i)'
  <2>1. i \in start .. next /\ start < Len(input)
    BY <1>2
  <2>2. TagRead(i)' <=> TagRead(i)
    BY <1>4 DEF TagRead, VarintAt, Low
  <2> QED  BY <1>1, <1>4, <2>1, <2>2 DEF Before
<1>10. CASE ~ Continues(byte)
  <2>1. phase' = "have"
    BY <1>4, <1>10
  <2>2. VarintAt(input, i, next, acc')
    <3>1. next - i \in 1 .. MaxVarint
      BY <1>1, <1>2, <1>3 DEF Reading
    <3>2. \A k \in i + 1 .. next : Continues(input[k]) <=> k < next
      <4> TAKE k \in i + 1 .. next
      <4>1. CASE k = next
        BY <1>2, <1>10, <4>1 DEF byte
      <4>2. CASE k \in i + 1 .. pos
        BY <1>2, <1>7, <4>2
      <4> QED  BY <1>8, <4>1, <4>2
    <3> QED  BY <1>6, <3>1, <3>2 DEF VarintAt
  <2>3. VarintAt(input, i, pos, acc)'
    BY <1>4, <2>2 DEF VarintAt, Low
  <2>4. ReadingInv'
    BY <1>4, <1>9, <2>1, <2>3 DEF ReadingInv, Errors
  <2> QED  BY <1>4, <2>1, <2>4 DEF GoesOn, Inside
<1>11. CASE Continues(byte)
  <2>1. \A k \in i + 1 .. next : Continues(input[k])
    BY <1>7, <1>8, <1>11 DEF byte
  <2>2. CASE next - i < MaxVarint
    <3>1. phase' = "varint"
      BY <1>4, <1>11, <2>2
    <3>2. Reading(i)'
      BY <1>4, <1>6, <2>1, <2>2 DEF Reading, Low
    <3>3. ReadingInv'
      BY <1>4, <1>9, <3>1, <3>2 DEF ReadingInv, Errors
    <3> QED  BY <1>4, <3>1, <3>3 DEF GoesOn, Inside
  <2>3. CASE ~ (next - i < MaxVarint)
    <3>1. phase' \in Errors /\ phase' \notin {"varint", "have", "fixed"}
      BY <1>4, <1>11, <2>3 DEF Errors
    <3>2. next \in Nat /\ i <= next /\ next <= Len(input) /\ next - i >= MaxVarint /\ i \in start .. pos
      BY <1>2, <1>3, <2>3
    <3>3. NoField(input, start)
      BY <1>1, <2>1, <3>2, NeverEnds
    <3>4. NoField(input, start)'
      BY <1>4, <3>3
    <3>5. ReadingInv'
      BY <1>4, <1>9, <3>1, <3>4 DEF ReadingInv
    <3> QED  BY <1>4, <3>1, <3>3, <3>5 DEF GivesUp, Inside
  <2> QED  BY <2>2, <2>3
<1> QED  BY <1>10, <1>11

\* The input ends in a varint.
LEMMA EofStep ==
  ASSUME ReaderInv, ReadingInv, ReadByteEof
  PROVE  GivesUp /\ ReadingInv'
<1>1. PICK i \in start .. pos : Before(i) /\ Reading(i)
  BY DEF ReadByteEof, ReadingInv
<1>2. pos \in Nat /\ i <= pos /\ pos = Len(input) /\ \A k \in i + 1 .. pos : Continues(input[k])
  BY <1>1 DEF ReaderInv, CursorOK, ReadByteEof, Reading
<1>3. NoField(input, start)
  BY <1>1, <1>2, NeverEnds
<1>4. Stop("UnexpectedEof") /\ "UnexpectedEof" \in Errors /\ Inside
  BY DEF ReadByteEof, Errors, Inside
<1> QED  BY <1>3, <1>4, StopsIs

\* The tag is read, or is none.
LEMMA TagStep ==
  ASSUME ReaderInv, ReadingInv, InvalidWire \/ InvalidField \/ ReadTag
  PROVE  (GoesOn \/ GivesUp) /\ ReadingInv'
<1>1. phase = "have" /\ use = "tag" /\ Inside
  BY DEF InvalidWire, InvalidField, ReadTag, Inside
<1>2. VarintAt(input, start, pos, acc)
  BY <1>1 DEF ReadingInv, Before
<1>3. input \in Seq(Byte) /\ start \in Nat /\ pos \in Nat /\ acc \in Nat /\ pos <= Len(input) /\ start < pos
  <2>1. acc \in UInt(W)
    BY DEF ReaderInv, CursorOK
  <2>2. acc \in Nat
    BY <2>1, WidthsAre, WidthIs
  <2> QED  BY <1>2, <2>2 DEF ReaderInv, CursorOK, VarintAt
<1>4. ASSUME NEW j \in start + 1 .. Len(input), NEW n, NEW type, NEW raw, FieldAt(input, start, j, n, type, raw)
      PROVE  type \in tagWire /\ FieldInRange
  <2>1. n \in 1 .. MaxField /\ type \in DOMAIN Code /\ acc \div 2 ^ TagBits = n /\ acc % 2 ^ TagBits = Code[type]
    BY <1>2, <1>3, <1>4, TagOfField
  <2> QED  BY <2>1 DEF tagWire, tagField, FieldInRange
<1>5. CASE InvalidWire
  <2>1. NoField(input, start)
    BY <1>4, <1>5 DEF NoField, InvalidWire
  <2>2. Stop("InvalidWireType") /\ "InvalidWireType" \in Errors
    BY <1>5 DEF InvalidWire, Errors
  <2> QED  BY <1>1, <2>1, <2>2, StopsIs
<1>6. CASE InvalidField
  <2>1. NoField(input, start)
    BY <1>4, <1>6 DEF NoField, InvalidField
  <2>2. Stop("InvalidFieldNumber") /\ "InvalidFieldNumber" \in Errors
    BY <1>6 DEF InvalidField, Errors
  <2> QED  BY <1>1, <2>1, <2>2, StopsIs
<1>7. CASE ReadTag
  <2>1. /\ UNCHANGED <<schema, input, pos, start, vals, unknown, saved>>
        /\ wire' \in DOMAIN Code /\ num' = acc \div 2 ^ TagBits /\ num' \in 1 .. MaxField
        /\ Code[wire'] = acc % 2 ^ TagBits
    BY <1>7 DEF ReadTag, tagWire, tagField, FieldInRange
  <2>2. acc = TagOf(num', wire')
    <3>1. num' \in Nat
      BY <2>1
    <3> QED  BY <1>3, <2>1, <3>1, TagIs
  <2>3. TagRead(pos)'
    <3>1. VarintAt(input, start, pos, TagOf(num', wire'))
      BY <1>2, <2>2
    <3>2. VarintAt(input, start, pos, TagOf(num, wire))'
      BY <2>1, <3>1 DEF VarintAt, Low, TagOf
    <3> QED  BY <2>1, <3>2 DEF TagRead
  <2>4. start' < pos' /\ start' < Len(input') /\ pos' \in start' .. pos'
    BY <1>3, <2>1
  <2>5. \/ phase' = "varint" /\ use' \in {"value", "len"} /\ acc' = 0 /\ shift' = 0
        \/ phase' = "fixed"
    <3>1. wire' \in {"varint", "fixed", "len"}
      BY <2>1, WidthsAre
    <3> QED  BY <1>7, <3>1 DEF ReadTag, Varint
  <2>6. CASE phase' = "fixed"
    BY <1>1, <2>1, <2>3, <2>4, <2>6 DEF ReadingInv, Errors, GoesOn
  <2>7. CASE phase' = "varint" /\ use' \in {"value", "len"} /\ acc' = 0 /\ shift' = 0
    <3>1. Before(pos)'
      BY <1>3, <2>1, <2>3, <2>4, <2>7 DEF Before
    <3>2. Reading(pos)'
      <4>1. Low(input, pos, pos) = <<>> /\ <<>> \in Seq(Nat)
        BY <1>3, LowIs
      <4>2. Number(Low(input, pos, pos), G) = 0
        BY <4>1, NumberAppend, WireAssumption
      <4>3. AsUnsigned(0, W) = 0
        <5>1. W \in Nat \ {0} /\ 0 \in UInt(W)
          BY WidthsAre, WidthIs
        <5> QED  BY <5>1, CastUnsigned
      <4>4. pos - pos = 0 /\ G * (pos - pos) = 0 /\ 0 < MaxVarint /\ pos + 1 .. pos = {}
        BY <1>3, MaxVarintIs, WireAssumption
      <4> QED  BY <2>1, <2>7, <4>2, <4>3, <4>4 DEF Reading, Low
    <3>3. ReadingInv'
      BY <2>4, <2>7, <3>1, <3>2 DEF ReadingInv, Errors
    <3> QED  BY <1>1, <2>1, <2>7, <3>3 DEF GoesOn
  <2> QED  BY <2>5, <2>6, <2>7
<1> QED  BY <1>5, <1>6, <1>7

\* The field is there, to its end, or the input ends before it.
LEMMA EndStep ==
  ASSUME ReaderInv, ReadingInv, ReadValue \/ ReadLenDelimited \/ ReadFixed
  PROVE  \/ GivesUp /\ ReadingInv'
         \/ \E end, raw : Takes(end, raw)
<1>1. input \in Seq(Byte) /\ start \in Nat /\ pos \in Nat /\ pos <= Len(input) /\ acc \in Nat /\ Len(input) \in Nat
      /\ wire \in DOMAIN Code
  <2>1. acc \in UInt(W)
    BY DEF ReaderInv, CursorOK
  <2>2. acc \in Nat
    BY <2>1, WidthsAre, WidthIs
  <2> QED  BY <2>2 DEF ReaderInv, CursorOK, TagOK
<1>2. Inside
  BY DEF ReadValue, ReadLenDelimited, ReadFixed, Inside
<1>3. ASSUME NEW t \in Nat, t > start, TagRead(t), NEW end \in t .. Len(input), NEW raw,
             PayloadAt(input, t, end, wire, raw), Consume(end, raw)
      PROVE  Takes(end, raw)
  <2>1. t \in start + 1 .. end /\ end \in start + 1 .. Len(input) /\ num \in 1 .. MaxField
    BY <1>1, <1>3 DEF TagRead
  <2>2. FieldAt(input, start, end, num, wire, raw)
    BY <1>1, <1>3, <2>1 DEF TagRead, FieldAt
  <2> QED  BY <1>2, <1>3, <2>1, <2>2 DEF Takes
<1>4. ASSUME NEW t \in Nat, TagRead(t), \A j \in t .. Len(input) : \A raw : ~ PayloadAt(input, t, j, wire, raw),
             NEW error \in Errors, Stop(error)
      PROVE  GivesUp /\ ReadingInv'
  <2>1. NoField(input, start)
    BY <1>1, <1>4, NoPayload DEF TagRead
  <2> QED  BY <1>2, <1>4, <2>1, StopsIs
<1>5. CASE ReadValue
  <2>1. PICK i \in start .. pos : Before(i) /\ VarintAt(input, i, pos, acc)
    BY <1>5 DEF ReadValue, ReadingInv
  <2>2. i \in Nat /\ i > start /\ TagRead(i) /\ pos \in i .. Len(input) /\ Consume(pos, acc) /\ wire = "varint"
    BY <1>1, <1>5, <2>1 DEF ReadValue, Before, ReaderInv, TagOK
  <2>3. PayloadAt(input, i, pos, wire, acc)
    BY <2>1, <2>2 DEF PayloadAt
  <2> QED  BY <1>3, <2>2, <2>3
<1>6. CASE ReadLenDelimited
  <2>1. PICK i \in start .. pos : Before(i) /\ VarintAt(input, i, pos, acc)
    BY <1>6 DEF ReadLenDelimited, ReadingInv
  <2>2. i \in Nat /\ i > start /\ TagRead(i) /\ wire = "len" /\ pos \in i + 1 .. Len(input)
    BY <1>1, <1>6, <2>1 DEF ReadLenDelimited, Before, ReaderInv, TagOK, VarintAt
  <2> DEFINE end == pos + acc
  <2>3. CASE end > Len(input)
    <3>1. \A j \in i .. Len(input) : \A raw : ~ PayloadAt(input, i, j, wire, raw)
      <4> SUFFICES ASSUME NEW j \in i .. Len(input), NEW raw, PayloadAt(input, i, j, wire, raw) PROVE FALSE
        OBVIOUS
      <4>1. PICK l \in i + 1 .. j : VarintAt(input, i, l, j - l)
        BY <2>2 DEF PayloadAt
      <4>2. l = pos /\ j - l = acc
        <5>1. l \in Nat
          BY <2>2
        <5> QED  BY <1>1, <2>1, <2>2, <4>1, <5>1, VarintUnique
      <4> QED  BY <1>1, <2>2, <2>3, <4>2
    <3>2. Stop("InvalidLength") /\ "InvalidLength" \in Errors
      BY <1>6, <2>3 DEF ReadLenDelimited, Errors
    <3> QED  BY <1>4, <2>2, <3>1, <3>2
  <2>4. CASE ~ (end > Len(input))
    <3> DEFINE raw == SubSeq(input, pos + 1, end)
    <3>1. end \in i .. Len(input) /\ pos \in i + 1 .. end /\ end - pos = acc
      BY <1>1, <2>2, <2>4
    <3>2. Consume(end, raw)
      BY <1>6, <2>4 DEF ReadLenDelimited
    <3> HIDE DEF end
    <3>3. PayloadAt(input, i, end, wire, raw)
      BY <2>1, <2>2, <3>1 DEF PayloadAt
    <3> HIDE DEF raw
    <3> QED  BY <1>3, <2>2, <3>1, <3>2, <3>3
  <2> QED  BY <2>3, <2>4
<1>7. CASE ReadFixed
  <2>1. pos > start /\ TagRead(pos) /\ wire = "fixed" /\ FixedLen \in Nat
    BY <1>7, WidthsAre DEF ReadFixed, ReadingInv, ReaderInv, TagOK
  <2> DEFINE end == pos + FixedLen
  <2>2. CASE end > Len(input)
    <3>1. \A j \in pos .. Len(input) : \A raw : ~ PayloadAt(input, pos, j, wire, raw)
      BY <1>1, <2>1, <2>2 DEF PayloadAt
    <3>2. Stop("UnexpectedEof") /\ "UnexpectedEof" \in Errors
      BY <1>7, <2>2 DEF ReadFixed, Errors
    <3> QED  BY <1>1, <1>4, <2>1, <3>1, <3>2
  <2>3. CASE ~ (end > Len(input))
    <3> DEFINE raw == SubSeq(input, pos + 1, end)
    <3>1. end \in pos .. Len(input) /\ Consume(end, raw)
      BY <1>1, <1>7, <2>1, <2>3 DEF ReadFixed
    <3>2. PayloadAt(input, pos, end, wire, raw)
      BY <2>1 DEF PayloadAt
    <3> HIDE DEF raw, end
    <3> QED  BY <1>1, <1>3, <2>1, <3>1, <3>2
  <2> QED  BY <2>2, <2>3
<1> QED  BY <1>5, <1>6, <1>7

\* Every step is one of these.
LEMMA StepIs ==
  ASSUME ReaderInv, ReadingInv, Next
  PROVE  /\ ReadingInv'
         /\ NextField \/ NoMoreFields \/ GoesOn \/ GivesUp \/ Rewrite \/ \E end, raw : Takes(end, raw)
<1>1. CASE NextField
  <2>1. start' = pos /\ pos' = pos /\ input' = input /\ phase' = "varint" /\ use' = "tag" /\ acc' = 0 /\ shift' = 0
        /\ pos < Len(input)
    BY <1>1 DEF NextField, Varint
  <2>2. input \in Seq(Byte) /\ pos \in Nat /\ pos <= Len(input)
    BY DEF ReaderInv, CursorOK
  <2>3. Reading(pos)'
    <3>1. Low(input, pos, pos) = <<>> /\ <<>> \in Seq(Nat)
      BY <2>2, LowIs
    <3>2. Number(Low(input, pos, pos), G) = 0
      BY <3>1, NumberAppend, WireAssumption
    <3>3. AsUnsigned(0, W) = 0
      <4>1. W \in Nat \ {0} /\ 0 \in UInt(W)
        BY WidthsAre, WidthIs
      <4> QED  BY <4>1, CastUnsigned
    <3>4. pos - pos = 0 /\ G * (pos - pos) = 0 /\ 0 < MaxVarint /\ pos + 1 .. pos = {}
      BY <2>2, MaxVarintIs, WireAssumption
    <3> QED  BY <2>1, <3>2, <3>3, <3>4 DEF Reading, Low
  <2>4. Before(pos)' /\ pos' \in start' .. pos'
    BY <2>1, <2>2 DEF Before
  <2>5. ReadingInv'
    BY <2>1, <2>3, <2>4 DEF ReadingInv, Errors
  <2> QED  BY <1>1, <2>5
<1>2. CASE NoMoreFields \/ Rewrite
  <2>1. phase' \in {"loop", "end"}
    BY <1>2 DEF NoMoreFields, Rewrite
  <2>2. phase' \notin {"varint", "have", "fixed"} \cup Errors
    BY <2>1 DEF Errors
  <2>3. ReadingInv'
    BY <2>2 DEF ReadingInv
  <2> QED  BY <1>2, <2>3
<1>3. ASSUME NEW end, NEW raw, Takes(end, raw)
      PROVE  ReadingInv'
  <2>1. phase' = "loop"
    BY <1>3 DEF Takes, Consume
  <2>2. phase' \notin {"varint", "have", "fixed"} \cup Errors
    BY <2>1 DEF Errors
  <2> QED  BY <2>2 DEF ReadingInv
<1>4. CASE ReadByte \/ ReadByteEof \/ InvalidWire \/ InvalidField \/ ReadTag
  BY <1>4, ReadByteStep, EofStep, TagStep
<1>5. CASE ReadValue \/ ReadLenDelimited \/ ReadFixed
  BY <1>3, <1>5, EndStep
<1> QED  BY <1>1, <1>2, <1>4, <1>5 DEF Next


-----------------------------------------------------------------------------
(* Where the fields begin. *)

AField(s, i, j) == \E n, type, raw : FieldAt(s, i, j, n, type, raw)

\* j is the next of the cuts behind i.
Follows(C, i, j) == i \in C /\ i < j /\ \A k \in C : k < j => k <= i

\* C cuts the first p bytes of s into fields.
Cuts(s, C, p) ==
  /\ C \in SUBSET (0 .. p) /\ 0 \in C /\ p \in C
  /\ \A j \in C \ {0} : \E i \in C : Follows(C, i, j) /\ AField(s, i, j)

\* A field begins at every cut but the last.
LEMMA CutsForward ==
  ASSUME NEW s, NEW p \in Nat, NEW C, Cuts(s, C, p), NEW i \in C, i # p
  PROVE  \E j \in C : i < j /\ AField(s, i, j)
<1> DEFINE S == {j \in C : i < j}
<1>1. C \subseteq 0 .. p /\ p \in C
  BY DEF Cuts
<1>2. S \in SUBSET Nat /\ p \in S
  <2>1. i \in 0 .. p
    BY <1>1
  <2>2. i < p /\ \A j \in 0 .. p : j \in Nat
    BY <2>1
  <2> QED  BY <1>1, <2>2
<1>3. PICK j \in S : \A k \in S : j <= k
  <2> HIDE DEF S
  <2> QED  BY <1>2, LeastNat
<1>4. j \in C \ {0} /\ i < j /\ j \in Nat /\ i \in Nat
  BY <1>1
<1>5. PICK k \in C : Follows(C, k, j) /\ AField(s, k, j)
  BY <1>4 DEF Cuts
<1>6. k \in Nat /\ k < j /\ i <= k
  BY <1>1, <1>4, <1>5 DEF Follows
<1>7. k = i
  <2>1. ~ (i < k)
    <3> SUFFICES ASSUME i < k PROVE FALSE
      OBVIOUS
    <3>1. k \in S
      OBVIOUS
    <3> QED  BY <1>3, <1>4, <1>6, <3>1
  <2> QED  BY <1>4, <1>6, <2>1
<1> QED  BY <1>4, <1>5, <1>7

\* One cut more.
With(C, j) == C \cup {j}

\* One more field behind the others.
LEMMA CutsGrow ==
  ASSUME NEW s, NEW C, NEW i \in Nat, Cuts(s, C, i), NEW j \in Nat, i < j, AField(s, i, j)
  PROVE  Cuts(s, With(C, j), j) /\ Follows(With(C, j), i, j)
<1> USE DEF With
<1> DEFINE D == With(C, j)
<1>1. C \subseteq 0 .. i /\ 0 \in C /\ i \in C
  BY DEF Cuts
<1>2. D \in SUBSET (0 .. j) /\ 0 \in D /\ j \in D
  BY <1>1
<1>3. Follows(D, i, j)
  BY <1>1 DEF Follows
<1>4. ASSUME NEW y \in D \ {0}  PROVE \E x \in D : Follows(D, x, y) /\ AField(s, x, y)
  <2>1. CASE y = j
    BY <1>1, <1>3, <2>1
  <2>2. CASE y # j
    <3>1. y \in C \ {0} /\ y <= i /\ y \in Nat
      BY <1>1, <2>2
    <3>2. PICK x \in C : Follows(C, x, y) /\ AField(s, x, y)
      BY <3>1 DEF Cuts
    <3>3. Follows(D, x, y)
      BY <3>1, <3>2 DEF Follows
    <3> QED  BY <3>2, <3>3
  <2> QED  BY <2>1, <2>2
<1> HIDE DEF D
<1>5. Cuts(s, D, j)
  BY <1>2, <1>4 DEF Cuts
<1> QED  BY <1>3, <1>5 DEF D

\* The field that ends at a cut begins at the cut before.
LEMMA EndingIs ==
  ASSUME NEW s, NEW C, \E p \in Nat : C \in SUBSET (0 .. p), NEW i, NEW j \in Nat, Follows(C, i, j)
  PROVE  FieldEnding(s, C, j) = SubSeq(s, i + 1, j)
<1>0. PICK p \in Nat : C \in SUBSET (0 .. p)
  OBVIOUS
<1> DEFINE S == {k \in C : k < j}
<1>1. i \in S /\ S \in SUBSET (0 .. p) /\ \A k \in S : k <= i /\ k \in Int
  <2>1. i \in S /\ \A k \in S : k <= i /\ k \in C
    BY DEF Follows
  <2>2. \A k \in C : k \in 0 .. p /\ k \in Int
    BY <1>0
  <2> HIDE DEF S
  <2> QED  BY <2>1, <2>2
<1> HIDE DEF S
<1>2. Max(S) \in S /\ i <= Max(S)
  BY <1>1, MinMax
<1>3. Max(S) = i
  <2>1. Max(S) <= i /\ Max(S) \in Int /\ i \in Int /\ i <= Max(S)
    BY <1>1, <1>2
  <2> QED  BY ONLY <2>1
<1> QED  BY <1>3 DEF FieldEnding, S

\* Those are the cuts of the grammar.
LEMMA CutsGrammar ==
  ASSUME input \in Seq(Byte), NEW p \in Nat, p <= Len(input), NEW C
  PROVE  C \in FieldCuts(p) <=> Cuts(input, C, p)
<1> DEFINE Whole == /\ C \in SUBSET (0 .. p) /\ 0 \in C /\ p \in C
                    /\ \A j \in C \ {0} : IsField(FieldEnding(input, C, j))
<1>1. C \in FieldCuts(p) <=> Whole
  BY DEF FieldCuts
<1>2. ASSUME C \in SUBSET (0 .. p), NEW i \in C, NEW j \in C, Follows(C, i, j)
      PROVE  IsField(FieldEnding(input, C, j)) <=> AField(input, i, j)
  <2>1. i \in Nat /\ j \in Nat /\ i <= j /\ j <= Len(input)
    BY <1>2 DEF Follows
  <2>2. FieldEnding(input, C, j) = SubSeq(input, i + 1, j)
    BY <1>2, <2>1, EndingIs
  <2>3. IsField(SubSeq(input, i + 1, j)) <=> AField(input, i, j)
    BY <2>1, FieldGrammar DEF AField
  <2> QED  BY <2>2, <2>3
<1>3. ASSUME C \in SUBSET (0 .. p), 0 \in C, NEW j \in C \ {0}
      PROVE  \E i \in C : Follows(C, i, j)
  <2> DEFINE S == {k \in C : k < j}
  <2>1. S \in SUBSET (0 .. p) /\ 0 \in S
    <3>1. j \in 0 .. p /\ j # 0
      BY <1>3
    <3>2. 0 < j
      BY <3>1
    <3> QED  BY <1>3, <3>2
  <2>2. Max(S) \in S /\ \A k \in S : k <= Max(S)
    <3> HIDE DEF S
    <3> QED  BY <2>1, MinMax
  <2> QED  BY <2>2 DEF Follows
<1>4. ASSUME Whole  PROVE Cuts(input, C, p)
  <2>1. ASSUME NEW j \in C \ {0}  PROVE \E i \in C : Follows(C, i, j) /\ AField(input, i, j)
    <3>1. PICK i \in C : Follows(C, i, j)
      BY <1>3, <1>4
    <3> QED  BY <1>2, <1>4, <3>1
  <2> QED  BY <1>4, <2>1 DEF Cuts
<1>5. ASSUME Cuts(input, C, p)  PROVE Whole
  <2>1. C \in SUBSET (0 .. p) /\ 0 \in C /\ p \in C
    BY <1>5 DEF Cuts
  <2>2. ASSUME NEW j \in C \ {0}  PROVE IsField(FieldEnding(input, C, j))
    <3>1. PICK i \in C : Follows(C, i, j) /\ AField(input, i, j)
      BY <1>5 DEF Cuts
    <3> QED  BY <1>2, <2>1, <3>1
  <2> QED  BY <2>1, <2>2
<1> QED  BY <1>1, <1>4, <1>5

\* How far the input has been decoded.
Done == IF phase \in {"loop", "end"} THEN pos ELSE start

\* What has been decoded is cut into fields, in the one way there is to cut it.
BoundaryInv ==
  /\ phase \in {"loop", "end", "varint", "have", "fixed"} \cup Errors
  /\ \E C : Cuts(input, C, Done)
  /\ \A C : Cuts(input, C, Len(input)) => Done \in C
  /\ phase = "end" => pos = Len(input)

\* How far each step takes that.
LEMMA DoneIs ==
  ASSUME ReaderInv
  PROVE  /\ Done \in 0 .. Len(input) /\ Len(input) \in Nat
         /\ Inside => Done = start
         /\ NextField \/ GoesOn \/ GivesUp => UNCHANGED <<schema, input, vals, unknown, saved, Done>>
         /\ NoMoreFields => UNCHANGED <<schema, input, vals, unknown, saved, Done>> /\ Done = Len(input)
         /\ Rewrite => Done' = 0
         /\ \A end, raw : Takes(end, raw) =>
              Done = start /\ Done' = end /\ UNCHANGED <<schema, input, saved>>
<1>1. start \in Nat /\ pos \in Nat /\ start <= pos /\ pos <= Len(input) /\ Len(input) \in Nat
  BY DEF ReaderInv, CursorOK
<1>2. Done \in 0 .. Len(input)
  BY <1>1 DEF Done
<1>3. Inside => Done = start
  BY DEF Done, Inside
<1>4. NextField => UNCHANGED <<schema, input, vals, unknown, saved, Done>>
  BY DEF NextField, Varint, Done
<1>5. GoesOn \/ GivesUp => UNCHANGED <<schema, input, vals, unknown, saved, Done>>
  BY DEF GoesOn, GivesUp, Inside, Errors, Done
<1>6. NoMoreFields => UNCHANGED <<schema, input, vals, unknown, saved, Done>> /\ Done = Len(input)
  BY DEF NoMoreFields, reader, Done
<1>7. Rewrite => Done' = 0
  BY DEF Rewrite, Done
<1>8. ASSUME NEW end, NEW raw, Takes(end, raw)
      PROVE  Done = start /\ Done' = end /\ UNCHANGED <<schema, input, saved>>
  BY <1>3, <1>8 DEF Takes, Consume, Done
<1> QED  BY <1>1, <1>2, <1>3, <1>4, <1>5, <1>6, <1>7, <1>8

\* Nothing has been decoded at first.
LEMMA InitBoundary == Init => ReadingInv /\ BoundaryInv
<1> SUFFICES ASSUME Init PROVE ReadingInv /\ BoundaryInv
  OBVIOUS
<1>1. pos = 0 /\ phase = "loop" /\ Done = 0
  BY DEF Init, Done
<1>2. ReadingInv
  BY <1>1 DEF ReadingInv, Errors
<1>3. Cuts(input, {0}, 0)
  BY DEF Cuts
<1>4. BoundaryInv
  BY <1>1, <1>3 DEF BoundaryInv, Cuts
<1> QED  BY <1>2, <1>4

\* Every step keeps both.
LEMMA NextBoundary ==
  ASSUME ReaderInv, ReadingInv, BoundaryInv, [Next]_vars
  PROVE  ReadingInv' /\ BoundaryInv'
<1>0. CASE UNCHANGED vars
  <2>1. ReadingInv'
    BY <1>0 DEF vars, reader, ReadingInv, Before, TagRead, Reading
  <2>2. BoundaryInv'
    BY <1>0 DEF vars, reader, BoundaryInv, Done
  <2> QED  BY <2>1, <2>2
<1> SUFFICES ASSUME Next PROVE ReadingInv' /\ BoundaryInv'
  BY <1>0
<1>1. ReadingInv'
  BY StepIs
<1>2. CASE NextField \/ GoesOn \/ GivesUp
  <2>1. Done' = Done /\ input' = input
    BY <1>2, DoneIs
  <2>2. phase' \in {"varint", "have", "fixed"} \cup Errors
    BY <1>2 DEF NextField, Varint, GoesOn, GivesUp
  <2>3. BoundaryInv'
    BY <2>1, <2>2 DEF BoundaryInv, Errors
  <2> QED  BY <1>1, <2>3
<1>3. CASE NoMoreFields
  <2>1. Done' = Done /\ input' = input /\ phase' = "end" /\ pos' = Len(input')
    BY <1>3, DoneIs DEF NoMoreFields, reader
  <2>2. BoundaryInv'
    BY <2>1 DEF BoundaryInv
  <2> QED  BY <1>1, <2>2
<1>4. CASE Rewrite
  <2>1. Done' = 0 /\ phase' = "loop"
    BY <1>4, DoneIs DEF Rewrite
  <2>2. Cuts(input', {0}, 0)
    BY DEF Cuts
  <2>3. BoundaryInv'
    BY <2>1, <2>2 DEF BoundaryInv, Cuts
  <2> QED  BY <1>1, <2>3
<1>5. ASSUME NEW end, NEW raw, Takes(end, raw)
      PROVE  BoundaryInv'
  <2>1. Done = start /\ Done' = end /\ input' = input /\ phase' = "loop"
    BY <1>5, DoneIs DEF Takes, Consume
  <2>2. end \in start + 1 .. Len(input) /\ FieldAt(input, start, end, num, wire, raw)
    BY <1>5 DEF Takes
  <2>3. start \in Nat /\ Len(input) \in Nat /\ end \in Nat /\ start < end /\ end <= Len(input)
    BY <2>2 DEF ReaderInv, CursorOK
  <2>4. AField(input, start, end)
    BY <2>2 DEF AField
  <2>5. \E C : Cuts(input, C, end)
    <3>1. PICK C : Cuts(input, C, start)
      BY <2>1 DEF BoundaryInv
    <3> QED  BY <2>3, <2>4, <3>1, CutsGrow
  <2>6. ASSUME NEW C, Cuts(input, C, Len(input))  PROVE end \in C
    <3>1. start \in C
      BY <2>1, <2>6 DEF BoundaryInv
    <3>2. start # Len(input)
      BY <2>3
    <3>3. PICK j \in C : start < j /\ AField(input, start, j)
      BY <2>3, <2>6, <3>1, <3>2, CutsForward
    <3>4. j \in Nat
      BY <2>6 DEF Cuts
    <3>5. j = end
      BY <2>2, <2>3, <3>3, <3>4, FieldUnique DEF AField
    <3> QED  BY <3>5
  <2> QED  BY <2>1, <2>5, <2>6 DEF BoundaryInv
<1>6. NextField \/ NoMoreFields \/ GoesOn \/ GivesUp \/ Rewrite \/ \E end, raw : Takes(end, raw)
  BY StepIs
<1> QED  BY <1>1, <1>2, <1>3, <1>4, <1>5, <1>6

\* What has been decoded is well formed; what has been refused is not.
LEMMA RefusesIs ==
  ASSUME ReaderInv, ReadingInv, BoundaryInv
  PROVE  RefusesMalformed
<1>1. input \in Seq(Byte) /\ start \in Nat /\ Len(input) \in Nat
  BY DEF ReaderInv, CursorOK
<1>2. CASE phase = "end"
  <2>1. Done = Len(input) /\ \E C : Cuts(input, C, Done)
    BY <1>2 DEF BoundaryInv, Done
  <2>2. WellFormed
    BY <1>1, <2>1, CutsGrammar DEF WellFormed
  <2> QED  BY <1>2, <2>2 DEF RefusesMalformed, Errors
<1>3. CASE phase \in Errors
  <2>1. Done = start /\ start < Len(input) /\ NoField(input, start)
    BY <1>3 DEF ReadingInv, Done, Errors
  <2>2. ASSUME NEW C, Cuts(input, C, Len(input))  PROVE FALSE
    <3>1. start \in C \ {Len(input)}
      BY <1>1, <2>1, <2>2 DEF BoundaryInv
    <3>2. PICK j \in C : start < j /\ AField(input, start, j)
      BY <1>1, <2>2, <3>1, CutsForward
    <3>3. j \in start + 1 .. Len(input)
      BY <1>1, <2>2, <3>2 DEF Cuts
    <3> QED  BY <2>1, <3>2, <3>3 DEF AField, NoField
  <2>3. ~ WellFormed
    BY <1>1, <2>2, CutsGrammar DEF WellFormed
  <2> QED  BY <1>3, <2>3 DEF RefusesMalformed, Errors
<1> QED  BY <1>2, <1>3 DEF RefusesMalformed


-----------------------------------------------------------------------------
(* What is kept of unknown fields. *)

\* A varint at the front of a part of s is one in s.
LEMMA PrefixGrammar ==
  ASSUME NEW s \in Seq(Byte), NEW i \in Nat, NEW j \in Nat, i <= j, j <= Len(s), NEW l \in 1 .. j - i, NEW v
  PROVE  LET tag == SubSeq(SubSeq(s, i + 1, j), 1, l) IN
         IsVarint(tag) /\ VarintOf(tag) = v <=> VarintAt(s, i, i + l, v)
<1> DEFINE o == 0
           m == i + l
<1>1. o \in Nat /\ l \in Nat /\ o <= l /\ l <= j - i /\ o + 1 = 1 /\ i + o = i
      /\ m \in Nat /\ i <= m /\ m <= Len(s)
  OBVIOUS
<1> HIDE DEF o
<1>2. SubSeq(SubSeq(s, i + 1, j), o + 1, l) = SubSeq(s, (i + o) + 1, m)
  BY <1>1, PartOfPart
<1>3. SubSeq(SubSeq(s, i + 1, j), 1, l) = SubSeq(s, i + 1, m)
  BY <1>1, <1>2
<1> HIDE DEF m
<1>4. IsVarint(SubSeq(s, i + 1, m)) /\ VarintOf(SubSeq(s, i + 1, m)) = v <=> VarintAt(s, i, m, v)
  BY <1>1, VarintGrammar
<1> QED  BY <1>3, <1>4 DEF m

\* The grammar knows the fields that the decoder knows.
LEMMA KnownIs ==
  ASSUME NEW kinds \in Seq(Scalar), NEW s \in Seq(Byte), NEW i \in Nat, NEW j \in Nat, i <= j, j <= Len(s),
         NEW n, NEW type, NEW raw, FieldAt(s, i, j, n, type, raw)
  PROVE  KnownField(kinds, SubSeq(s, i + 1, j)) <=> n \in 1 .. Len(kinds) /\ WireOf(kinds[n]) = type
<1> DEFINE b == SubSeq(s, i + 1, j)
           Tag(l, m) == /\ IsVarint(SubSeq(b, 1, l))
                        /\ VarintOf(SubSeq(b, 1, l)) = TagOf(m, WireOf(kinds[m]))
<1>1. Len(b) = j - i
  BY PartIs
<1>2. KnownField(kinds, b) <=> \E l \in 1 .. Len(b), m \in 1 .. Len(kinds) : Tag(l, m)
  BY DEF KnownField, TagOf
<1>3. ASSUME NEW l \in 1 .. Len(b), NEW m
      PROVE  Tag(l, m) <=> VarintAt(s, i, i + l, TagOf(m, WireOf(kinds[m])))
  <2> DEFINE v == TagOf(m, WireOf(kinds[m]))
  <2>1. l \in 1 .. j - i
    BY <1>1
  <2> HIDE DEF v
  <2>2. IsVarint(SubSeq(b, 1, l)) /\ VarintOf(SubSeq(b, 1, l)) = v <=> VarintAt(s, i, i + l, v)
    BY <2>1, PrefixGrammar
  <2> QED  BY <2>2 DEF v
<1> HIDE DEF b, Tag
<1>4. n \in Nat /\ type \in DOMAIN Code
  BY WireReaderAssumption DEF FieldAt
<1>5. PICK t \in i + 1 .. j : VarintAt(s, i, t, TagOf(n, type))
  BY DEF FieldAt
<1>6. ASSUME NEW l \in 1 .. Len(b), NEW m \in 1 .. Len(kinds), Tag(l, m)
      PROVE  n = m /\ WireOf(kinds[n]) = type
  <2> DEFINE u == i + l
             other == WireOf(kinds[m])
  <2>1. u \in Nat /\ t \in Nat /\ m \in Nat
    BY <1>1
  <2>2. VarintAt(s, i, u, TagOf(m, other))
    BY <1>3, <1>6
  <2>3. other \in DOMAIN Code
    BY WidthsAre DEF WireOf
  <2> HIDE DEF u, other
  <2>4. TagOf(n, type) = TagOf(m, other)
    BY <1>5, <2>1, <2>2, VarintUnique
  <2>5. n = m /\ Code[type] = Code[other]
    BY <1>4, <2>1, <2>3, <2>4, TagIs
  <2>6. type = other
    BY <1>4, <2>3, <2>5, WireReaderAssumption DEF IsInjective
  <2> QED  BY <2>5, <2>6 DEF other
<1>7. ASSUME n \in 1 .. Len(kinds), WireOf(kinds[n]) = type
      PROVE  \E l \in 1 .. Len(b), m \in 1 .. Len(kinds) : Tag(l, m)
  <2> DEFINE l == t - i
  <2>1. l \in 1 .. Len(b) /\ i + l = t
    BY <1>1
  <2> HIDE DEF l
  <2>2. Tag(l, n)
    BY <1>3, <1>5, <1>7, <2>1
  <2> QED  BY <1>7, <2>1, <2>2
<1>8. KnownField(kinds, b) <=> n \in 1 .. Len(kinds) /\ WireOf(kinds[n]) = type
  BY <1>2, <1>6, <1>7
<1> QED  BY <1>8 DEF b

\* The bytes that are kept of the field that ends at j.
KeptOf(kinds, s, C, j) ==
  LET b == FieldEnding(s, C, j) IN IF j \in C /\ ~ KnownField(kinds, b) THEN b ELSE <<>>

\* f[j] is what is kept of the fields that end at j or before it.
KeptUpTo(f, kinds, s, C, p) ==
  /\ f \in [0 .. p -> Seq(Byte)]
  /\ f[0] = <<>> /\ \A j \in 1 .. p : f[j] = f[j - 1] \o KeptOf(kinds, s, C, j)

\* u is what is kept of the fields of the first p bytes.
Kept(kinds, s, C, p, u) == \E f : KeptUpTo(f, kinds, s, C, p) /\ u = f[p]

\* What has been kept is the bytes of the unknown fields among those that have
\* been decoded.
KeptInv ==
  \E C : Cuts(input, C, Done) /\ Kept(schema, input, C, Done, unknown)

\* That is what the property says.
LEMMA KeptIs ==
  ASSUME NEW p \in Nat, NEW C, NEW u, Kept(schema, input, C, p, u)
  PROVE  UnknownOf(C, p) = u
<1>0. PICK f : KeptUpTo(f, schema, input, C, p) /\ u = f[p]
  BY DEF Kept
<1> DEFINE part(j) == KeptOf(schema, input, C, j)
           Body(g) == [j \in 0 .. p |-> IF j = 0 THEN <<>> ELSE g[j - 1] \o part(j)]
           kept == CHOOSE g : g = Body(g)
<1>1. UnknownOf(C, p) = kept[p]
  BY DEF UnknownOf, KeptOf
<1> HIDE DEF part
<1>2. f = Body(f)
  <2>1. f = [j \in 0 .. p |-> f[j]]
    BY <1>0 DEF KeptUpTo
  <2>2. \A j \in 0 .. p : f[j] = IF j = 0 THEN <<>> ELSE f[j - 1] \o part(j)
    <3> TAKE j \in 0 .. p
    <3>1. j # 0 => j \in 1 .. p
      OBVIOUS
    <3> QED  BY <1>0, <3>1 DEF KeptUpTo, part
  <2> QED  BY <2>1, <2>2
<1>3. kept = Body(kept)
  <2> HIDE DEF Body
  <2> QED  BY <1>2
<1> HIDE DEF kept
<1> DEFINE Bad == {j \in 0 .. p : kept[j] # f[j]}
<1>4. Bad = {}
  <2> SUFFICES ASSUME Bad # {} PROVE FALSE
    OBVIOUS
  <2>1. PICK j \in Bad : \A k \in Bad : j <= k
    <3>1. Bad \in SUBSET Nat
      OBVIOUS
    <3> HIDE DEF Bad
    <3> QED  BY <3>1, LeastNat
  <2>2. j \in 0 .. p /\ kept[j] # f[j]
    OBVIOUS
  <2>3. kept[j] = (IF j = 0 THEN <<>> ELSE kept[j - 1] \o part(j))
    <3>1. kept[j] = Body(kept)[j]
      BY <1>3
    <3> QED  BY <2>2, <3>1
  <2>4. f[j] = (IF j = 0 THEN <<>> ELSE f[j - 1] \o part(j))
    <3>1. f[j] = Body(f)[j]
      BY <1>2
    <3> QED  BY <2>2, <3>1
  <2>5. j # 0
    BY <2>2, <2>3, <2>4
  <2>6. j - 1 \in 0 .. p /\ ~ (j <= j - 1)
    BY <2>2, <2>5
  <2>7. kept[j - 1] = f[j - 1]
    BY <2>1, <2>6
  <2> QED  BY <2>2, <2>3, <2>4, <2>5, <2>7
<1>5. kept[p] = f[p]
  BY <1>4
<1> QED  BY <1>0, <1>1, <1>5

\* A field more is kept, or not.
LEMMA KeptGrows ==
  ASSUME NEW kinds, NEW s, NEW i \in Nat, NEW j \in Nat, i < j, NEW C, C \subseteq 0 .. i,
         KeptOf(kinds, s, With(C, j), j) \in Seq(Byte), NEW u, Kept(kinds, s, C, i, u)
  PROVE  Kept(kinds, s, With(C, j), j, u \o KeptOf(kinds, s, With(C, j), j))
<1>0. PICK f : KeptUpTo(f, kinds, s, C, i) /\ u = f[i]
  BY DEF Kept
<1> DEFINE D == With(C, j)
           part == KeptOf(kinds, s, D, j)
           g == [k \in 0 .. j |-> IF k <= i THEN f[k] ELSE IF k < j THEN f[i] ELSE f[i] \o part]
<1>1. f \in [0 .. i -> Seq(Byte)] /\ f[0] = <<>> /\ \A k \in 1 .. i : f[k] = f[k - 1] \o KeptOf(kinds, s, C, k)
  BY <1>0 DEF KeptUpTo
<1>2. part \in Seq(Byte)
  OBVIOUS
<1>3. \A k \in 1 .. i : KeptOf(kinds, s, D, k) = KeptOf(kinds, s, C, k)
  <2> TAKE k \in 1 .. i
  <2>1. (k \in D <=> k \in C) /\ {x \in D : x < k} = {x \in C : x < k}
    BY DEF With
  <2> HIDE DEF D
  <2>2. FieldEnding(s, D, k) = FieldEnding(s, C, k)
    BY <2>1 DEF FieldEnding
  <2> QED  BY <2>1, <2>2 DEF KeptOf
<1>4. \A k \in 1 .. j : i < k /\ k < j => KeptOf(kinds, s, D, k) = <<>>
  <2> TAKE k \in 1 .. j
  <2> SUFFICES ASSUME i < k, k < j PROVE KeptOf(kinds, s, D, k) = <<>>
    OBVIOUS
  <2>1. k \notin D
    BY DEF With
  <2> HIDE DEF D
  <2> QED  BY <2>1 DEF KeptOf
<1> HIDE DEF D, part
<1>5. g \in [0 .. j -> Seq(Byte)] /\ g[0] = <<>> /\ g[j] = f[i] \o part
  <2>1. \A k \in 0 .. i : f[k] \in Seq(Byte)
    BY <1>1
  <2>2. i \in 0 .. i /\ f[i] \o part \in Seq(Byte)
    BY <1>2, <2>1
  <2>3. \A k \in 0 .. j : (k <= i => k \in 0 .. i) /\ g[k] \in Seq(Byte)
    BY <2>1, <2>2
  <2>4. 0 \in 0 .. j /\ 0 <= i /\ j \in 0 .. j /\ ~ (j <= i) /\ ~ (j < j)
    OBVIOUS
  <2> QED  BY <1>1, <2>3, <2>4
<1>6. ASSUME NEW k \in 1 .. j
      PROVE  g[k] = g[k - 1] \o KeptOf(kinds, s, D, k)
  <2>0. k \in 0 .. j /\ k - 1 \in 0 .. j
    OBVIOUS
  <2>1. CASE k <= i
    <3>1. k \in 1 .. i /\ k - 1 <= i
      BY <2>1
    <3>2. g[k] = f[k] /\ g[k - 1] = f[k - 1]
      BY <2>0, <2>1, <3>1
    <3> HIDE DEF g
    <3> QED  BY <1>1, <1>3, <3>1, <3>2
  <2>2. CASE i < k
    <3>1. g[k - 1] = f[i]
      <4>1. k - 1 <= i => k - 1 = i
        BY <2>2
      <4>2. k - 1 < j
        OBVIOUS
      <4> QED  BY <2>0, <4>1, <4>2
    <3>2. CASE k = j
      <4> HIDE DEF g
      <4> QED  BY <1>5, <3>1, <3>2 DEF part
    <3>3. CASE k < j
      <4>1. g[k] = f[i]
        BY <2>0, <2>2, <3>3
      <4>2. f[i] \in Seq(Byte) /\ KeptOf(kinds, s, D, k) = <<>>
        BY <1>1, <1>4, <2>2, <3>3
      <4> HIDE DEF g
      <4>3. f[i] \o <<>> = f[i]
        BY <4>2
      <4> QED  BY <3>1, <4>1, <4>2, <4>3
    <3> HIDE DEF g
    <3> QED  BY <3>2, <3>3
  <2> HIDE DEF g
  <2> QED  BY <2>1, <2>2
<1> HIDE DEF g
<1>7. KeptUpTo(g, kinds, s, D, j)
  BY <1>5, <1>6 DEF KeptUpTo
<1> QED  BY <1>0, <1>5, <1>7 DEF Kept, D, part

\* Before the first field nothing is kept.
LEMMA KeptStarts ==
  ASSUME NEW s, NEW kinds
  PROVE  \E C : Cuts(s, C, 0) /\ Kept(kinds, s, C, 0, <<>>)
<1> DEFINE f == [j \in 0 .. 0 |-> <<>>]
<1>1. Cuts(s, {0}, 0)
  BY DEF Cuts
<1>2. f \in [0 .. 0 -> Seq(Byte)] /\ f[0] = <<>> /\ 1 .. 0 = {}
  OBVIOUS
<1> HIDE DEF f
<1>3. KeptUpTo(f, kinds, s, {0}, 0)
  BY <1>2 DEF KeptUpTo
<1> QED  BY <1>1, <1>2, <1>3 DEF Kept

LEMMA InitKept == Init => KeptInv
<1> SUFFICES ASSUME Init PROVE KeptInv
  OBVIOUS
<1>1. Done = 0 /\ unknown = <<>>
  BY DEF Init, Done
<1> QED  BY <1>1, KeptStarts DEF KeptInv

\* Every step keeps that.
LEMMA NextKept ==
  ASSUME ReaderInv, ReadingInv, KeptInv, [Next]_vars
  PROVE  KeptInv'
<1>0. CASE UNCHANGED vars
  BY <1>0 DEF vars, reader, KeptInv, Done
<1> SUFFICES ASSUME Next PROVE KeptInv'
  BY <1>0
<1>1. CASE NextField \/ GoesOn \/ GivesUp \/ NoMoreFields
  <2>1. UNCHANGED <<schema, input, unknown, Done>>
    BY <1>1, DoneIs
  <2> QED  BY <2>1 DEF KeptInv
<1>2. CASE Rewrite
  <2>1. Done' = 0 /\ unknown' = <<>>
    BY <1>2, DoneIs DEF Rewrite
  <2>2. \E C : Cuts(input', C, 0) /\ Kept(schema', input', C, 0, <<>>)
    BY KeptStarts
  <2> QED  BY <2>1, <2>2 DEF KeptInv
<1>3. ASSUME NEW end, NEW raw, Takes(end, raw)
      PROVE  KeptInv'
  <2> DEFINE b == SubSeq(input, start + 1, end)
  <2>1. Done = start /\ Done' = end /\ UNCHANGED <<schema, input>>
    BY <1>3, DoneIs
  <2>2. end \in start + 1 .. Len(input) /\ FieldAt(input, start, end, num, wire, raw)
    BY <1>3 DEF Takes
  <2>3. /\ input \in Seq(Byte) /\ schema \in Seq(Scalar) /\ start \in Nat /\ unknown \in Seq(Byte)
        /\ end \in Nat /\ start < end /\ start <= end /\ end <= Len(input)
    BY <2>2 DEF ReaderInv, CursorOK, UnknownOK
  <2>4. PICK C : Cuts(input, C, start) /\ Kept(schema, input, C, start, unknown)
    BY <2>1 DEF KeptInv
  <2> DEFINE D == With(C, end)
             part == KeptOf(schema, input, D, end)
  <2>5. AField(input, start, end)
    BY <2>2 DEF AField
  <2>6. Cuts(input, D, end) /\ Follows(D, start, end)
    BY <2>3, <2>4, <2>5, CutsGrow
  <2>7. part = IF Known THEN <<>> ELSE b
    <3>1. D \in SUBSET (0 .. end) /\ end \in D
      BY <2>6 DEF Cuts
    <3> HIDE DEF D
    <3>2. FieldEnding(input, D, end) = b
      BY <2>3, <2>6, <3>1, EndingIs
    <3>3. KnownField(schema, b) <=> Known
      BY <2>2, <2>3, KnownIs DEF Known
    <3> HIDE DEF b
    <3> QED  BY <3>1, <3>2, <3>3 DEF KeptOf
  <2>8. unknown' = IF Known THEN unknown ELSE unknown \o b
    BY <1>3 DEF Takes, Consume
  <2>9. b \in Seq(Byte)
    BY <2>3, PartIs
  <2> HIDE DEF b
  <2>10. unknown \o <<>> = unknown /\ part \in Seq(Byte)
    BY <2>3, <2>7, <2>9
  <2>11. Kept(schema, input, D, end, unknown \o part)
    <3>1. C \subseteq 0 .. start
      BY <2>4 DEF Cuts
    <3> QED  BY <2>3, <2>4, <2>10, <3>1, KeptGrows
  <2> HIDE DEF D, part
  <2>12. unknown' = unknown \o part
    BY <2>7, <2>8, <2>10
  <2> QED  BY <2>1, <2>6, <2>11, <2>12 DEF KeptInv
<1>4. NextField \/ NoMoreFields \/ GoesOn \/ GivesUp \/ Rewrite \/ \E end, raw : Takes(end, raw)
  BY StepIs
<1> QED  BY <1>1, <1>2, <1>3, <1>4

\* The unknown fields among those that have been decoded are kept as they came.
LEMMA VerbatimIs ==
  ASSUME ReaderInv, KeptInv
  PROVE  UnknownVerbatim
<1> SUFFICES ASSUME phase \in {"loop", "end"}
             PROVE  \E cuts \in FieldCuts(pos) : unknown = UnknownOf(cuts, pos)
  BY DEF UnknownVerbatim
<1>1. Done = pos /\ input \in Seq(Byte) /\ pos \in Nat /\ pos <= Len(input)
  BY DEF Done, ReaderInv, CursorOK
<1>2. PICK C : Cuts(input, C, pos) /\ Kept(schema, input, C, pos, unknown)
  BY <1>1 DEF KeptInv
<1>3. C \in FieldCuts(pos)
  BY <1>1, <1>2, CutsGrammar
<1>4. UnknownOf(C, pos) = unknown
  BY <1>1, <1>2, KeptIs
<1> QED  BY <1>3, <1>4

-----------------------------------------------------------------------------
(* What has been written, and how far it has been read back. *)

\* There is a field from i to j that the schema does not know.
UnknownAt(kinds, s, i, j) ==
  \E n, type, raw : /\ FieldAt(s, i, j, n, type, raw)
                    /\ ~ (n \in 1 .. Len(kinds) /\ WireOf(kinds[n]) = type)

\* C cuts b into such fields.
UnknownCuts(kinds, b, C) ==
  /\ C \in SUBSET (0 .. Len(b)) /\ 0 \in C /\ Len(b) \in C
  /\ \A i \in C \ {Len(b)} : \E j \in C : i < j /\ UnknownAt(kinds, b, i, j)

\* Where the fields of such bytes begin.
Begins(kinds, ends, C) == {ends[n] : n \in 0 .. Len(kinds)} \cup {ends[Len(kinds)] + c : c \in C}

\* s has been written for these values and unknown fields, and up to `done` it
\* has been read back, as v and u.
Back(kinds, s, values, rest, ends, C, done, v, u) ==
  LET last == ends[Len(kinds)] IN
  /\ Fits(kinds, values) /\ rest \in Seq(Byte)
  /\ Layout(s, kinds, values, rest, ends)
  /\ UnknownCuts(kinds, rest, C)
  /\ done \in Begins(kinds, ends, C)
  /\ v = [n \in 1 .. Len(kinds) |-> IF ends[n] <= done THEN values[n] ELSE Unset]
  /\ u = IF done <= last THEN <<>> ELSE SubSeq(s, last + 1, done)

\* What is kept can be cut into fields that the schema does not know, and what
\* has been written comes back as it was.
SavedInv ==
  /\ \E C : UnknownCuts(schema, unknown, C)
  /\ saved # Unset =>
       /\ phase \notin Errors
       /\ \E values, rest, ends, C : /\ saved = <<values, rest>>
                                     /\ Back(schema, input, values, rest, ends, C, Done, vals, unknown)

\* One more unknown field behind the others.
LEMMA UnknownGrows ==
  ASSUME NEW kinds, NEW b \in Seq(Byte), NEW C, UnknownCuts(kinds, b, C),
         NEW s \in Seq(Byte), NEW i \in Nat, NEW j \in Nat, i < j, j <= Len(s), UnknownAt(kinds, s, i, j)
  PROVE  \E D : UnknownCuts(kinds, b \o SubSeq(s, i + 1, j), D)
<1> DEFINE part == SubSeq(s, i + 1, j)
           all == b \o part
           a == Len(b)
           e == Len(all)
           o == 0
           D == C \cup {e}
<1>1. part \in Seq(Byte) /\ Len(part) = j - i /\ Same(s, i, j, part, 0)
  BY PartIs
<1>2. /\ all \in Seq(Byte) /\ e = a + (j - i) /\ a \in Nat /\ e \in Nat /\ a < e
      /\ Same(b, o, a, all, o) /\ Same(part, 0, j - i, all, a)
  <2>1. LET w == b \o part IN
        /\ w \in Seq(Byte) /\ Len(w) = Len(b) + Len(part) /\ Len(b) \in Nat /\ Len(part) \in Nat
        /\ Same(b, 0, Len(b), w, 0) /\ Same(part, 0, Len(part), w, Len(b))
    <3>1. part \in Seq(Byte)
      BY <1>1
    <3> HIDE DEF part
    <3> QED  BY <3>1, Joined
  <2>2. Len(part) = j - i /\ j - i \in Nat /\ 0 < j - i
    BY <1>1
  <2> HIDE DEF part
  <2> QED  BY <2>1, <2>2
<1>3. o \in Nat /\ a <= Len(b) /\ C \subseteq 0 .. a /\ o \in C /\ a \in C
      /\ \A x \in C \ {a} : \E y \in C : x < y /\ UnknownAt(kinds, b, x, y)
  BY <1>2 DEF UnknownCuts
<1>4. D \in SUBSET (0 .. e) /\ 0 \in D /\ e \in D
  <2> HIDE DEF a, e
  <2>1. 0 .. a \subseteq 0 .. e /\ e \in 0 .. e
    BY <1>2
  <2> QED  BY <1>3, <2>1
<1> HIDE DEF o
<1>5. ASSUME NEW x \in D \ {e}  PROVE \E y \in D : x < y /\ UnknownAt(kinds, all, x, y)
  <2>1. CASE x = a
    <3>1. PICK n, type, raw : /\ FieldAt(s, i, j, n, type, raw)
                              /\ ~ (n \in 1 .. Len(kinds) /\ WireOf(kinds[n]) = type)
      BY DEF UnknownAt
    <3>2. Same(s, i, j, all, a)
      <4>1. \A k \in 1 .. j - i : s[i + k] = part[0 + k] /\ part[0 + k] = all[a + k]
        <5>1. (j - i) - 0 = j - i
          OBVIOUS
        <5> HIDE DEF part, all, a
        <5> QED  BY <1>1, <1>2, <5>1 DEF Same
      <4> HIDE DEF part, all, a
      <4> QED  BY <4>1 DEF Same
    <3> HIDE DEF all, a, e
    <3>3. FieldAt(all, a, a + (j - i), n, type, raw)
      <4>1. i <= j /\ a + (j - i) <= e /\ a \in Nat
        BY <1>2
      <4> QED  BY <1>2, <3>1, <3>2, <4>1, FieldMoves DEF e
    <3>4. UnknownAt(kinds, all, a, e)
      BY <1>2, <3>1, <3>3 DEF UnknownAt
    <3> QED  BY <1>2, <2>1, <3>4
  <2>2. CASE x # a
    <3>1. x \in C \ {a}
      BY <2>2
    <3>2. PICK y \in C : x < y /\ UnknownAt(kinds, b, x, y)
      BY <1>3, <3>1
    <3>3. PICK n, type, raw : /\ FieldAt(b, x, y, n, type, raw)
                              /\ ~ (n \in 1 .. Len(kinds) /\ WireOf(kinds[n]) = type)
      BY <3>2 DEF UnknownAt
    <3>4. x \in Nat /\ y \in Nat /\ x <= y /\ y <= a /\ x + (y - x) = y /\ y <= e
      BY <1>2, <1>3, <3>1, <3>2
    <3>5. Same(b, x, y, all, x)
      <4>1. ASSUME NEW k \in 1 .. y - x  PROVE b[x + k] = all[x + k]
        <5>1. x + k \in 1 .. a - o /\ o + (x + k) = x + k
          BY <1>2, <3>4 DEF o
        <5> HIDE DEF all, a
        <5> QED  BY <1>2, <5>1 DEF Same
      <4> HIDE DEF all
      <4> QED  BY <4>1 DEF Same
    <3> HIDE DEF all, a, e
    <3>6. FieldAt(all, x, x + (y - x), n, type, raw)
      <4>1. y <= Len(b) /\ x + (y - x) <= Len(all)
        BY <1>3, <3>4 DEF a, e
      <4> QED  BY <1>2, <3>3, <3>4, <3>5, <4>1, FieldMoves
    <3>7. UnknownAt(kinds, all, x, y)
      BY <3>3, <3>4, <3>6 DEF UnknownAt
    <3> QED  BY <3>2, <3>7
  <2> QED  BY <2>1, <2>2
<1>6. UnknownCuts(kinds, all, D)
  BY <1>4, <1>5 DEF UnknownCuts
<1> HIDE DEF D
<1> QED  BY <1>6

\* A field takes up room.
LEMMA FieldGrows ==
  ASSUME NEW s, NEW i \in Nat, NEW j \in Nat, NEW n, NEW type, NEW raw, FieldAt(s, i, j, n, type, raw)
  PROVE  i < j
BY DEF FieldAt

\* The field that begins in one place of what has been written.
LEMMA NextInLayout ==
  ASSUME NEW s \in Seq(Byte), NEW kinds \in Seq(Scalar), NEW values, NEW rest \in Seq(Byte), NEW ends, NEW C,
         Layout(s, kinds, values, rest, ends), UnknownCuts(kinds, rest, C),
         NEW i \in Begins(kinds, ends, C), i # Len(s)
  PROVE  \/ \E n \in 1 .. Len(kinds) :
              /\ ends[n - 1] = i /\ i < ends[n] /\ values[n] # Unset
              /\ ends[n] <= ends[Len(kinds)]
              /\ \E raw : /\ FieldAt(s, i, ends[n], n, WireOf(kinds[n]), raw)
                          /\ DecodeScalar(kinds[n], raw) = values[n]
         \/ /\ i >= ends[Len(kinds)]
            /\ \E j \in Begins(kinds, ends, C) :
                 j \in Nat /\ i < j /\ j <= Len(s) /\ UnknownAt(kinds, s, i, j)
<1> DEFINE count == Len(kinds)
           last == ends[count]
           z == Len(rest)
<1>1. /\ count \in Nat /\ count \in 0 .. count /\ ends \in [0 .. count -> Nat] /\ ends[0] = 0
      /\ last \in Nat /\ z \in Nat /\ Len(s) = last + z /\ Len(s) \in Nat /\ Same(rest, 0, z, s, last)
  BY DEF Layout
<1>2. \A m \in 0 .. count : \A n \in 0 .. m : ends[n] <= ends[m]
  BY EndsGrow
<1>3. \A n \in 0 .. count : ends[n] \in Nat /\ ends[n] <= last
  BY <1>1, <1>2
<1>4. C \subseteq 0 .. z /\ 0 \in C /\ \A c \in C \ {z} : \E d \in C : c < d /\ UnknownAt(kinds, rest, c, d)
  BY DEF UnknownCuts
<1>5. (\E m \in 0 .. count : i = ends[m]) \/ \E c \in C : i = last + c
  BY DEF Begins
<1>6. i \in Nat
  BY <1>1, <1>3, <1>4, <1>5
<1>7. CASE i < last
  <2>1. PICK m \in 0 .. count : i = ends[m]
    BY <1>1, <1>4, <1>5, <1>7
  <2> DEFINE S == {n \in 0 .. count : i < ends[n]}
  <2>2. PICK n \in S : \A k \in S : n <= k
    <3>1. count \in S /\ S \in SUBSET Nat
      BY <1>1, <1>7
    <3> HIDE DEF S
    <3> QED  BY <3>1, LeastNat
  <2>3. n \in 0 .. count /\ i < ends[n] /\ n # 0
    BY <1>1, <1>6
  <2>4. n \in 1 .. count /\ n - 1 \in 0 .. count /\ ~ (n <= n - 1)
    BY <1>1, <2>3
  <2>5. ~ (i < ends[n - 1])
    BY <2>2, <2>4
  <2>6. m \in 0 .. n - 1
    <3>1. CASE m >= n
      <4>1. ends[n] <= ends[m]
        BY <1>2, <2>3, <3>1
      <4> QED  BY <1>3, <1>6, <2>1, <2>3, <4>1
    <3>2. CASE ~ (m >= n)
      BY <2>4, <3>2
    <3> QED  BY <3>1, <3>2
  <2>7. ends[n - 1] = i
    <3>1. ends[m] <= ends[n - 1] /\ ends[n - 1] \in Nat
      BY <1>2, <1>3, <2>4, <2>6
    <3> QED  BY <1>6, <2>1, <2>5, <3>1
  <2>8. /\ values[n] = Unset => ends[n - 1] = ends[n]
        /\ values[n] # Unset =>
             \E raw : /\ FieldAt(s, ends[n - 1], ends[n], n, WireOf(kinds[n]), raw)
                      /\ DecodeScalar(kinds[n], raw) = values[n]
    BY <2>4 DEF Layout
  <2>9. values[n] # Unset
    BY <1>3, <1>6, <2>3, <2>7, <2>8
  <2>10. ends[n] <= last
    BY <1>3, <2>3
  <2> QED  BY <2>3, <2>4, <2>7, <2>8, <2>9, <2>10
<1>8. CASE ~ (i < last)
  <2> DEFINE c == i - last
  <2>1. c \in C /\ c # z /\ c \in Nat /\ last + c = i
    <3>1. CASE \E m \in 0 .. count : i = ends[m]
      <4>1. i = last
        BY <1>1, <1>3, <1>6, <1>8, <3>1
      <4> QED  BY <1>1, <1>4, <4>1
    <3>2. CASE \E d \in C : i = last + d
      <4>1. PICK d \in C : i = last + d
        BY <3>2
      <4>2. d \in Nat /\ d = c
        BY <1>1, <1>4, <4>1
      <4> QED  BY <1>1, <4>1, <4>2
    <3> QED  BY <1>5, <3>1, <3>2
  <2> HIDE DEF c
  <2>2. PICK d \in C : c < d /\ UnknownAt(kinds, rest, c, d)
    BY <1>4, <2>1
  <2>3. PICK n, type, raw : /\ FieldAt(rest, c, d, n, type, raw)
                            /\ ~ (n \in 1 .. Len(kinds) /\ WireOf(kinds[n]) = type)
    BY <2>2 DEF UnknownAt
  <2> DEFINE j == last + d
  <2>4. d \in Nat /\ c <= d /\ d <= z /\ j \in Nat /\ j = i + (d - c) /\ i < j /\ j <= Len(s)
    BY <1>1, <1>4, <2>1, <2>2
  <2>5. Same(rest, c, d, s, i)
    <3>1. ASSUME NEW k \in 1 .. d - c  PROVE rest[c + k] = s[i + k]
      <4>1. c + k \in 1 .. z - 0 /\ 0 + (c + k) = c + k /\ last + (c + k) = i + k
        BY <1>1, <2>1, <2>4
      <4> HIDE DEF z, last
      <4>2. rest[0 + (c + k)] = s[last + (c + k)]
        BY <1>1, <4>1 DEF Same
      <4> QED  BY <4>1, <4>2
    <3> QED  BY <3>1 DEF Same
  <2>6. FieldAt(s, i, j, n, type, raw)
    <3> HIDE DEF j
    <3>1. i + (d - c) <= Len(s)
      BY <2>4
    <3>2. FieldAt(s, i, i + (d - c), n, type, raw)
      BY <1>6, <2>1, <2>3, <2>4, <2>5, <3>1, FieldMoves
    <3> QED  BY <2>4, <3>2
  <2>7. UnknownAt(kinds, s, i, j) /\ j \in Begins(kinds, ends, C)
    BY <2>3, <2>6 DEF UnknownAt, Begins
  <2>8. i >= last
    BY <1>1, <1>6, <1>8
  <2> QED  BY <2>4, <2>7, <2>8
<1> QED  BY <1>7, <1>8

\* Nothing has been read of what has just been written.
LEMMA BackStarts ==
  ASSUME NEW kinds \in Seq(Scalar), Len(kinds) <= MaxField, NEW values, Fits(kinds, values),
         NEW rest \in Seq(Byte), NEW C, UnknownCuts(kinds, rest, C)
  PROVE  \E ends : Back(kinds, Encode(kinds, values, rest), values, rest, ends, C, 0, Blank(kinds), <<>>)
<1> DEFINE s == Encode(kinds, values, rest)
           count == Len(kinds)
<1>1. PICK ends : Layout(s, kinds, values, rest, ends)
  BY EncodeLayout
<1> HIDE DEF s
<1>2. count \in Nat /\ ends \in [0 .. count -> Nat] /\ ends[0] = 0 /\ ends[count] \in Nat
  BY <1>1 DEF Layout
<1>3. \A m \in 0 .. count : \A n \in 0 .. m : ends[n] <= ends[m]
  BY <1>1, EndsGrow
<1>4. \A n \in 1 .. count : ends[n] <= 0 => values[n] = Unset
  <2> SUFFICES ASSUME NEW n \in 1 .. count, ends[n] <= 0, values[n] # Unset PROVE FALSE
    OBVIOUS
  <2>1. n - 1 \in 0 .. count /\ n \in 0 .. count
    BY <1>2
  <2>2. ends[n - 1] \in Nat /\ ends[n] \in Nat
    BY <1>2, <2>1
  <2>3. \E raw : FieldAt(s, ends[n - 1], ends[n], n, WireOf(kinds[n]), raw)
    BY <1>1 DEF Layout
  <2>4. ends[n - 1] < ends[n]
    BY <2>2, <2>3, FieldGrows
  <2> QED  BY <2>2, <2>4
<1>5. Blank(kinds) = [n \in 1 .. count |-> IF ends[n] <= 0 THEN values[n] ELSE Unset]
  BY <1>4 DEF Blank
<1>6. 0 \in Begins(kinds, ends, C)
  <2>1. 0 \in 0 .. count
    BY <1>2
  <2> QED  BY <1>2, <2>1 DEF Begins
<1>7. Back(kinds, s, values, rest, ends, C, 0, Blank(kinds), <<>>)
  BY <1>1, <1>2, <1>5, <1>6 DEF Back
<1> QED  BY <1>7 DEF s

\* There is a next field, up to the end.
LEMMA BackHasField ==
  ASSUME NEW s \in Seq(Byte), NEW kinds \in Seq(Scalar), NEW values, NEW rest, NEW ends, NEW C,
         NEW i \in Nat, i < Len(s), NEW v, NEW u, Back(kinds, s, values, rest, ends, C, i, v, u)
  PROVE  ~ NoField(s, i)
<1>1. i # Len(s) /\ Len(s) \in Nat
  OBVIOUS
<1>2. rest \in Seq(Byte) /\ Layout(s, kinds, values, rest, ends) /\ UnknownCuts(kinds, rest, C)
      /\ i \in Begins(kinds, ends, C)
  BY DEF Back
<1>3. CASE \E n \in 1 .. Len(kinds) :
              /\ ends[n - 1] = i /\ i < ends[n] /\ values[n] # Unset
              /\ ends[n] <= ends[Len(kinds)]
              /\ \E raw : /\ FieldAt(s, i, ends[n], n, WireOf(kinds[n]), raw)
                          /\ DecodeScalar(kinds[n], raw) = values[n]
  <2>1. PICK n \in 1 .. Len(kinds) :
              /\ i < ends[n] /\ ends[n] <= ends[Len(kinds)]
              /\ \E raw : FieldAt(s, i, ends[n], n, WireOf(kinds[n]), raw)
    BY <1>3
  <2>2. Len(kinds) \in Nat /\ ends \in [0 .. Len(kinds) -> Nat] /\ Len(s) = ends[Len(kinds)] + Len(rest)
        /\ Len(rest) \in Nat
    BY <1>2 DEF Layout
  <2>3. n \in 0 .. Len(kinds) /\ Len(kinds) \in 0 .. Len(kinds)
    BY <2>2
  <2>4. ends[n] \in Nat /\ ends[Len(kinds)] \in Nat
    BY <2>2, <2>3
  <2>5. ends[n] \in i + 1 .. Len(s)
    BY <2>1, <2>2, <2>4
  <2> QED  BY <2>1, <2>5 DEF NoField
<1>4. CASE \E j \in Begins(kinds, ends, C) : j \in Nat /\ i < j /\ j <= Len(s) /\ UnknownAt(kinds, s, i, j)
  <2>1. PICK j \in Nat : i < j /\ j <= Len(s) /\ UnknownAt(kinds, s, i, j)
    BY <1>4
  <2>2. j \in i + 1 .. Len(s)
    BY <1>1, <2>1
  <2> QED  BY <2>1, <2>2 DEF UnknownAt, NoField
<1> QED  BY <1>1, <1>2, <1>3, <1>4, NextInLayout

\* The next field brings back the next value, or the next bytes.
LEMMA BackTakes ==
  ASSUME NEW s \in Seq(Byte), NEW kinds \in Seq(Scalar), NEW values, NEW rest, NEW ends, NEW C,
         NEW i \in Nat, NEW v, NEW u, Back(kinds, s, values, rest, ends, C, i, v, u),
         NEW e \in i + 1 .. Len(s), NEW m, NEW type, NEW raw, FieldAt(s, i, e, m, type, raw)
  PROVE  IF m \in 1 .. Len(kinds) /\ WireOf(kinds[m]) = type
           THEN Back(kinds, s, values, rest, ends, C, e, [v EXCEPT ![m] = DecodeScalar(kinds[m], raw)], u)
           ELSE Back(kinds, s, values, rest, ends, C, e, v, u \o SubSeq(s, i + 1, e))
<1> DEFINE count == Len(kinds)
           last == ends[count]
           Seen(k, d) == IF ends[k] <= d THEN values[k] ELSE Unset
<1>1. rest \in Seq(Byte) /\ Layout(s, kinds, values, rest, ends) /\ UnknownCuts(kinds, rest, C)
      /\ i \in Begins(kinds, ends, C) /\ Fits(kinds, values)
      /\ v = [k \in 1 .. count |-> Seen(k, i)]
      /\ u = IF i <= last THEN <<>> ELSE SubSeq(s, last + 1, i)
  BY DEF Back
<1>2. /\ count \in Nat /\ ends \in [0 .. count -> Nat] /\ Len(s) = last + Len(rest)
      /\ Len(rest) \in Nat /\ Len(s) \in Nat /\ e \in Nat /\ i < e /\ e <= Len(s) /\ i # Len(s)
  BY <1>1 DEF Layout
<1>3. \A j \in 0 .. count : \A k \in 0 .. j : ends[k] <= ends[j]
  BY <1>1, EndsGrow
<1>4. \A k \in 0 .. count : ends[k] \in Nat /\ ends[k] <= last
  <2>1. count \in 0 .. count
    BY <1>2
  <2> QED  BY <1>2, <1>3, <2>1
<1>5. last \in Nat
  <2>1. count \in 0 .. count
    BY <1>2
  <2> QED  BY <1>4, <2>1
<1>6. ASSUME NEW n \in 1 .. count, ends[n - 1] = i, i < ends[n], values[n] # Unset, ends[n] <= last,
             NEW own, FieldAt(s, i, ends[n], n, WireOf(kinds[n]), own), DecodeScalar(kinds[n], own) = values[n]
      PROVE  /\ m = n /\ type = WireOf(kinds[m])
             /\ Back(kinds, s, values, rest, ends, C, e, [v EXCEPT ![m] = DecodeScalar(kinds[m], raw)], u)
  <2>1. n - 1 \in 0 .. count /\ n \in 0 .. count
    BY <1>2
  <2>2. ends[n] \in Nat
    BY <1>4, <2>1
  <2>3. e = ends[n] /\ m = n /\ type = WireOf(kinds[n]) /\ raw = own
    BY <1>2, <1>6, <2>2, FieldUnique
  <2>4. ASSUME NEW k \in 1 .. count, k # n  PROVE Seen(k, e) = Seen(k, i)
    <3>0. k \in 0 .. count /\ k - 1 \in 0 .. count /\ ends[k] \in Nat /\ ends[k - 1] \in Nat
      BY <1>2, <1>4
    <3>1. CASE k < n
      <4>1. k \in 0 .. n - 1
        BY <1>2, <3>1
      <4>2. ends[k] <= ends[n - 1]
        BY <1>3, <2>1, <4>1
      <4> QED  BY <1>2, <1>6, <3>0, <4>2
    <3>2. CASE k > n
      <4>1. n \in 0 .. k - 1 /\ n \in 0 .. k
        BY <1>2, <3>2
      <4>2. ends[n] <= ends[k - 1] /\ ends[n] <= ends[k]
        BY <1>3, <3>0, <4>1
      <4>3. ~ (ends[k] <= i)
        BY <1>6, <2>2, <3>0, <4>2
      <4>4. ends[k] <= e => values[k] = Unset
        <5> SUFFICES ASSUME ends[k] <= e, values[k] # Unset PROVE FALSE
          OBVIOUS
        <5>1. \E w : FieldAt(s, ends[k - 1], ends[k], k, WireOf(kinds[k]), w)
          BY <1>1 DEF Layout
        <5>2. ends[k - 1] < ends[k]
          BY <3>0, <5>1, FieldGrows
        <5> QED  BY <2>2, <2>3, <3>0, <4>2, <5>2
      <4> QED  BY <4>3, <4>4
    <3>3. k < n \/ k > n
      BY <1>2, <2>4
    <3> QED  BY <3>1, <3>2, <3>3
  <2>5. Seen(n, e) = values[n]
    BY <2>2, <2>3
  <2> DEFINE w == [v EXCEPT ![n] = values[n]]
  <2>6. w = [k \in 1 .. count |-> Seen(k, e)]
    <3> HIDE DEF Seen
    <3>1. w = [k \in 1 .. count |-> IF k = n THEN values[n] ELSE Seen(k, i)]
      BY <1>1
    <3> HIDE DEF w
    <3>2. \A k \in 1 .. count : (IF k = n THEN values[n] ELSE Seen(k, i)) = Seen(k, e)
      BY <2>4, <2>5
    <3> QED  BY <3>1, <3>2
  <2>7. e \in Begins(kinds, ends, C)
    BY <2>1, <2>3 DEF Begins
  <2>8. u = <<>> /\ e <= last
    BY <1>1, <1>2, <1>5, <1>6, <2>3
  <2> HIDE DEF w
  <2>9. Back(kinds, s, values, rest, ends, C, e, w, u)
    BY <1>1, <2>6, <2>7, <2>8 DEF Back
  <2> QED  BY <1>6, <2>3, <2>9 DEF w
<1>7. ASSUME i >= last, NEW j \in Begins(kinds, ends, C), j \in Nat, i < j, j <= Len(s), UnknownAt(kinds, s, i, j)
      PROVE  /\ ~ (m \in 1 .. count /\ WireOf(kinds[m]) = type)
             /\ Back(kinds, s, values, rest, ends, C, e, v, u \o SubSeq(s, i + 1, e))
  <2>1. PICK n, wired, own : /\ FieldAt(s, i, j, n, wired, own)
                             /\ ~ (n \in 1 .. Len(kinds) /\ WireOf(kinds[n]) = wired)
    BY <1>7 DEF UnknownAt
  <2>2. e = j /\ m = n /\ type = wired
    BY <1>2, <1>7, <2>1, FieldUnique
  <2>3. \A k \in 1 .. count : Seen(k, i) = Seen(k, e)
    <3> TAKE k \in 1 .. count
    <3>1. ends[k] \in Nat /\ ends[k] <= last
      BY <1>2, <1>4
    <3> QED  BY <1>2, <1>5, <1>7, <3>1
  <2>4. v = [k \in 1 .. count |-> Seen(k, e)]
    <3> HIDE DEF Seen
    <3> QED  BY <1>1, <2>3
  <2>5. u \o SubSeq(s, i + 1, e) = SubSeq(s, last + 1, e) /\ ~ (e <= last)
    <3> HIDE DEF last, Seen, count
    <3>1. CASE i = last
      <4>1. u = <<>> /\ SubSeq(s, i + 1, e) \in Seq(Byte)
        <5>1. i <= last /\ i <= e /\ e <= Len(s) /\ e \in Nat
          BY <1>2, <1>5, <3>1
        <5>2. u = <<>>
          BY <1>1, <5>1
        <5>3. SubSeq(s, i + 1, e) \in Seq(Byte)
          BY <5>1, PartIs
        <5> QED  BY <5>2, <5>3
      <4>2. \A x \in Seq(Byte) : <<>> \o x = x
        OBVIOUS
      <4>3. u \o SubSeq(s, i + 1, e) = SubSeq(s, i + 1, e)
        BY <4>1, <4>2
      <4> QED  BY <1>2, <1>5, <3>1, <4>3
    <3>2. CASE i > last
      <4>1. u = SubSeq(s, last + 1, i)
        <5>1. ~ (i <= last)
          BY <1>5, <3>2
        <5> QED  BY <1>1, <5>1
      <4>2. SubSeq(s, last + 1, i) \o SubSeq(s, i + 1, e) = SubSeq(s, last + 1, e)
        <5>1. last \in Nat /\ i \in Nat /\ e \in Nat /\ last <= i /\ i <= e /\ e <= Len(s) /\ s \in Seq(Byte)
          BY <1>2, <1>5, <3>2
        <5> QED  BY ONLY <5>1, BytesFollow
      <4> QED  BY <1>2, <1>5, <3>2, <4>1, <4>2
    <3>3. i = last \/ i > last
      BY <1>5, <1>7 DEF last
    <3>4. ~ (e <= last)
      BY <1>2, <1>5, <1>7, <3>3
    <3> QED  BY <3>1, <3>2, <3>3, <3>4
  <2>6. Back(kinds, s, values, rest, ends, C, e, v, u \o SubSeq(s, i + 1, e))
    <3> DEFINE t == u \o SubSeq(s, i + 1, e)
    <3>1. t = IF e <= last THEN <<>> ELSE SubSeq(s, last + 1, e)
      BY <2>5
    <3> HIDE DEF t
    <3>2. Back(kinds, s, values, rest, ends, C, e, v, t)
      BY <1>1, <1>7, <2>2, <2>4, <3>1 DEF Back
    <3> QED  BY <3>2 DEF t
  <2> QED  BY <2>1, <2>2, <2>6
<1>8. CASE \E n \in 1 .. count :
             /\ ends[n - 1] = i /\ i < ends[n] /\ values[n] # Unset
             /\ ends[n] <= last
             /\ \E own : /\ FieldAt(s, i, ends[n], n, WireOf(kinds[n]), own)
                         /\ DecodeScalar(kinds[n], own) = values[n]
  <2>1. PICK n \in 1 .. count :
             /\ ends[n - 1] = i /\ i < ends[n] /\ values[n] # Unset
             /\ ends[n] <= last
             /\ \E own : /\ FieldAt(s, i, ends[n], n, WireOf(kinds[n]), own)
                         /\ DecodeScalar(kinds[n], own) = values[n]
    BY <1>8
  <2>2. PICK own : FieldAt(s, i, ends[n], n, WireOf(kinds[n]), own) /\ DecodeScalar(kinds[n], own) = values[n]
    BY <2>1
  <2>3. /\ m = n /\ type = WireOf(kinds[m])
        /\ Back(kinds, s, values, rest, ends, C, e, [v EXCEPT ![m] = DecodeScalar(kinds[m], raw)], u)
    BY <1>6, <2>1, <2>2
  <2> QED  BY <2>3
<1>9. CASE /\ i >= last
           /\ \E j \in Begins(kinds, ends, C) :
                j \in Nat /\ i < j /\ j <= Len(s) /\ UnknownAt(kinds, s, i, j)
  BY <1>7, <1>9
<1> QED  BY <1>1, <1>2, <1>8, <1>9, NextInLayout

\* At the end everything is back.
LEMMA BackEnds ==
  ASSUME NEW s \in Seq(Byte), NEW kinds \in Seq(Scalar), NEW values, NEW rest, NEW ends, NEW C,
         NEW v, NEW u, Back(kinds, s, values, rest, ends, C, Len(s), v, u)
  PROVE  v = values /\ u = rest
<1> DEFINE count == Len(kinds)
           last == ends[count]
           z == Len(rest)
<1>1. /\ rest \in Seq(Byte) /\ Layout(s, kinds, values, rest, ends)
      /\ values = [n \in 1 .. count |-> values[n]]
      /\ v = [n \in 1 .. count |-> IF ends[n] <= Len(s) THEN values[n] ELSE Unset]
      /\ u = IF Len(s) <= last THEN <<>> ELSE SubSeq(s, last + 1, Len(s))
  BY DEF Back, Fits
<1>2. count \in Nat /\ ends \in [0 .. count -> Nat] /\ Len(s) = last + z /\ z \in Nat /\ Same(rest, 0, z, s, last)
  BY <1>1 DEF Layout
<1>3. last \in Nat /\ count \in 0 .. count
  <2>1. count \in 0 .. count
    BY <1>2
  <2> QED  BY <1>2, <2>1
<1>4. \A n \in 1 .. count : ends[n] <= Len(s)
  <2> TAKE n \in 1 .. count
  <2>1. n \in 0 .. count
    BY <1>2
  <2>2. ends[n] <= last /\ ends[n] \in Nat
    BY <1>1, <1>2, <1>3, <2>1, EndsGrow
  <2> QED  BY <1>2, <1>3, <2>2
<1>5. v = values
  BY <1>1, <1>4
<1>6. u = rest
  <2>1. CASE z = 0
    <3>1. rest = <<>>
      BY <1>1, <2>1
    <3> QED  BY <1>1, <1>2, <1>3, <2>1, <3>1
  <2>2. CASE z # 0
    <3> DEFINE part == SubSeq(s, last + 1, Len(s))
    <3>1. u = part
      BY <1>1, <1>2, <1>3, <2>2
    <3>2. last <= Len(s) /\ Len(s) <= Len(s) /\ Len(s) \in Nat /\ Len(s) - last = z
      BY <1>2, <1>3
    <3> HIDE DEF last, z
    <3>3. part \in Seq(Byte) /\ Len(part) = z /\ Same(s, last, Len(s), part, 0)
      BY <1>3, <3>2, PartIs
    <3> HIDE DEF part
    <3>4. \A k \in 1 .. z : part[k] = rest[k]
      <4> TAKE k \in 1 .. z
      <4>1. z - 0 = z /\ 0 + k = k /\ k \in 1 .. Len(s) - last
        BY <1>2, <3>2
      <4> QED  BY <1>2, <3>3, <4>1 DEF Same
    <3>5. Len(rest) = z /\ rest \in Seq(Byte)
      BY <1>1 DEF z
    <3>6. part = rest
      BY <3>3, <3>4, <3>5, SeqEqual
    <3> QED  BY <3>1, <3>6
  <2> QED  BY <2>1, <2>2
<1> QED  BY <1>5, <1>6

\* Nothing is kept at first, and of an instance that has been built here
\* nothing has been read.
LEMMA InitSaved == Init => SavedInv
<1> SUFFICES ASSUME Init PROVE SavedInv
  OBVIOUS
<1>1. unknown = <<>> /\ <<>> \in Seq(Byte) /\ vals = Blank(schema) /\ schema \in Schemas /\ Done = 0
  BY DEF Init, Done
<1>2. UnknownCuts(schema, <<>>, {0})
  BY DEF UnknownCuts
<1>3. phase \notin Errors
  BY DEF Init, Errors
<1>4. ASSUME NEW n \in 1 .. Len(schema), NEW v \in ValueOf(schema[n]), NEW built,
             built = [Blank(schema) EXCEPT ![n] = v],
             saved = <<built, <<>>>>, input = Encode(schema, built, <<>>)
      PROVE  \E values, rest, ends, C : /\ saved = <<values, rest>>
                                        /\ Back(schema, input, values, rest, ends, C, Done, vals, unknown)
  <2>1. schema \in Seq(Scalar) /\ Len(schema) <= MaxField /\ Fits(schema, built)
    BY <1>1, <1>4, BuiltIs
  <2>2. \E ends : Back(schema, input, built, <<>>, ends, {0}, Done, vals, unknown)
    BY <1>1, <1>2, <1>4, <2>1, BackStarts
  <2> QED  BY <1>4, <2>2
<1>5. CASE saved = Unset
  BY <1>1, <1>2, <1>5 DEF SavedInv
<1>6. CASE saved # Unset
  <2>1. PICK n \in 1 .. Len(schema) : \E v \in ValueOf(schema[n]) :
          LET built == [Blank(schema) EXCEPT ![n] = v] IN
          saved = <<built, <<>>>> /\ input = Encode(schema, built, <<>>)
    BY <1>6 DEF Init
  <2>2. PICK v \in ValueOf(schema[n]) :
          LET built == [Blank(schema) EXCEPT ![n] = v] IN
          saved = <<built, <<>>>> /\ input = Encode(schema, built, <<>>)
    BY <2>1
  <2> DEFINE built == [Blank(schema) EXCEPT ![n] = v]
  <2>3. saved = <<built, <<>>>> /\ input = Encode(schema, built, <<>>)
    BY <2>2
  <2>4. \E values, rest, ends, C : /\ saved = <<values, rest>>
                                   /\ Back(schema, input, values, rest, ends, C, Done, vals, unknown)
    BY <1>4, <2>3
  <2> QED  BY <1>1, <1>2, <1>3, <2>4 DEF SavedInv
<1> QED  BY <1>5, <1>6

\* Every step keeps that.
LEMMA NextSaved ==
  ASSUME ReaderInv, ReadingInv, BoundaryInv, SavedInv, [Next]_vars
  PROVE  SavedInv'
<1>0. CASE UNCHANGED vars
  BY <1>0 DEF vars, reader, SavedInv, Done
<1> SUFFICES ASSUME Next PROVE SavedInv'
  BY <1>0
<1>1. /\ input \in Seq(Byte) /\ schema \in Seq(Scalar) /\ Len(schema) <= MaxField /\ unknown \in Seq(Byte)
      /\ Fits(schema, vals) /\ start \in Nat /\ Len(input) \in Nat
  BY DEF ReaderInv, CursorOK, UnknownOK
<1>2. CASE NextField \/ GoesOn \/ NoMoreFields
  <2>1. UNCHANGED <<schema, input, vals, unknown, saved, Done>>
    BY <1>2, DoneIs
  <2>2. phase' \notin Errors
    BY <1>2 DEF NextField, Varint, GoesOn, NoMoreFields, Errors
  <2> QED  BY <2>1, <2>2 DEF SavedInv
<1>3. CASE GivesUp
  <2>1. UNCHANGED <<schema, input, vals, unknown, saved, Done>> /\ Done = start
    BY <1>3, DoneIs DEF GivesUp
  <2>2. saved = Unset
    <3> SUFFICES ASSUME saved # Unset PROVE FALSE
      OBVIOUS
    <3>1. PICK values, rest, ends, C : Back(schema, input, values, rest, ends, C, start, vals, unknown)
      BY <2>1 DEF SavedInv
    <3>2. start < Len(input) /\ NoField(input, start)
      BY <1>3 DEF GivesUp, Inside, ReadingInv
    <3> QED  BY <1>1, <3>1, <3>2, BackHasField
  <2> QED  BY <2>1, <2>2 DEF SavedInv
<1>4. CASE Rewrite
  <2>1. /\ saved' = <<vals, unknown>> /\ input' = Encode(schema, vals, unknown) /\ schema' = schema
        /\ vals' = Blank(schema) /\ unknown' = <<>> /\ phase' = "loop" /\ Done' = 0
    BY <1>4, DoneIs DEF Rewrite
  <2>2. UnknownCuts(schema', unknown', {0})
    BY <2>1 DEF UnknownCuts
  <2>3. PICK C : UnknownCuts(schema, unknown, C)
    BY DEF SavedInv
  <2>4. PICK ends : Back(schema, input', vals, unknown, ends, C, 0, Blank(schema), <<>>)
    BY <1>1, <2>1, <2>3, BackStarts
  <2>5. Back(schema', input', vals, unknown, ends, C, Done', vals', unknown')
    BY <2>1, <2>4
  <2>6. phase' \notin Errors
    BY <2>1 DEF Errors
  <2> QED  BY <2>1, <2>2, <2>5, <2>6 DEF SavedInv
<1>5. ASSUME NEW end, NEW raw, Takes(end, raw)
      PROVE  SavedInv'
  <2>1. Done = start /\ Done' = end /\ UNCHANGED <<schema, input, saved>> /\ phase' = "loop"
    BY <1>5, DoneIs DEF Takes, Consume
  <2>2. end \in start + 1 .. Len(input) /\ FieldAt(input, start, end, num, wire, raw)
    BY <1>5 DEF Takes
  <2>3. end \in Nat /\ start < end /\ end <= Len(input) /\ phase' \notin Errors
    BY <1>1, <2>1, <2>2 DEF Errors
  <2>4. IF Known THEN vals' = [vals EXCEPT ![num] = DecodeScalar(schema[num], raw)] /\ unknown' = unknown
                 ELSE unknown' = unknown \o SubSeq(input, start + 1, end) /\ vals' = vals
    BY <1>5 DEF Takes, Consume
  <2>5. \E C : UnknownCuts(schema, unknown', C)
    <3>1. PICK C : UnknownCuts(schema, unknown, C)
      BY DEF SavedInv
    <3>2. CASE Known
      BY <2>4, <3>1, <3>2
    <3>3. CASE ~ Known
      <4>1. UnknownAt(schema, input, start, end)
        BY <2>2, <3>3 DEF UnknownAt, Known
      <4>2. \E D : UnknownCuts(schema, unknown \o SubSeq(input, start + 1, end), D)
        BY <1>1, <2>3, <3>1, <4>1, UnknownGrows
      <4>3. unknown' = unknown \o SubSeq(input, start + 1, end)
        BY <2>4, <3>3
      <4> QED  BY <4>2, <4>3
    <3> QED  BY <3>2, <3>3
  <2>6. ASSUME saved # Unset
        PROVE  \E values, rest, ends, C : /\ saved = <<values, rest>>
                                          /\ Back(schema, input, values, rest, ends, C, end, vals', unknown')
    <3>1. PICK values, rest, ends, C :
            saved = <<values, rest>> /\ Back(schema, input, values, rest, ends, C, start, vals, unknown)
      BY <2>1, <2>6 DEF SavedInv
    <3>2. IF Known
            THEN Back(schema, input, values, rest, ends, C, end,
                      [vals EXCEPT ![num] = DecodeScalar(schema[num], raw)], unknown)
            ELSE Back(schema, input, values, rest, ends, C, end, vals, unknown \o SubSeq(input, start + 1, end))
      BY <1>1, <2>2, <3>1, BackTakes DEF Known
    <3>3. Back(schema, input, values, rest, ends, C, end, vals', unknown')
      BY <2>4, <3>2
    <3> QED  BY <3>1, <3>3
  <2> QED  BY <2>1, <2>3, <2>5, <2>6 DEF SavedInv
<1>6. NextField \/ NoMoreFields \/ GoesOn \/ GivesUp \/ Rewrite \/ \E end, raw : Takes(end, raw)
  BY StepIs
<1> QED  BY <1>2, <1>3, <1>4, <1>5, <1>6

\* What has been read back at the end is what has been written.
LEMMA SavedIsRead ==
  ASSUME ReaderInv, BoundaryInv, SavedInv
  PROVE  ReadsWhatIsWritten
<1> SUFFICES ASSUME saved # Unset, phase = "end" PROVE saved = <<vals, unknown>>
  BY DEF ReadsWhatIsWritten, SavedInv
<1>1. PICK values, rest, ends, C :
        saved = <<values, rest>> /\ Back(schema, input, values, rest, ends, C, Done, vals, unknown)
  BY DEF SavedInv
<1>2. Done = Len(input) /\ input \in Seq(Byte) /\ schema \in Seq(Scalar)
  BY DEF BoundaryInv, Done, ReaderInv, CursorOK
<1>3. vals = values /\ unknown = rest
  BY <1>1, <1>2, BackEnds
<1> QED  BY <1>1, <1>3

-----------------------------------------------------------------------------
(* Theorems. *)

\* The invariant that all of them rest on.
FullInv == ReaderInv /\ ReadingInv /\ BoundaryInv /\ KeptInv /\ SavedInv

\* The reader's state is consistent throughout: the cursor is where a field or
\* a part of one has been read up to, and what has been decoded so far is what
\* the bytes before it say.
THEOREM ReaderIsConsistent == Spec => []FullInv
<1>1. Init => FullInv
  BY InitReader, InitBoundary, InitKept, InitSaved DEF FullInv
<1>2. FullInv /\ [Next]_vars => FullInv'
  BY NextReader, NextBoundary, NextKept, NextSaved DEF FullInv
<1> QED  BY <1>1, <1>2, PTL DEF Spec

\* Reader never leaves its input, in whatever way that lies about lengths, and
\* every value it gives is in the range of its type.
THEOREM ReaderStaysInBounds == Spec => []InBounds
<1>1. FullInv => InBounds
  BY DEF FullInv, ReaderInv, CursorOK, Fits, FitsKind, InBounds
<1> QED  BY <1>1, ReaderIsConsistent, PTL

\* decode_message keeps the fields that the schema does not know, in the order
\* in which the input has them and to the byte, and nothing else: for every
\* input, whatever fields stand between them.
THEOREM UnknownIsVerbatim == Spec => []UnknownVerbatim
<1>1. FullInv => UnknownVerbatim
  BY VerbatimIs DEF FullInv
<1> QED  BY <1>1, ReaderIsConsistent, PTL

\* The decoder accepts a byte string only if it is well formed, and refuses it
\* only if it is not: for every input, every width of bytes and of integers.
THEOREM MalformedIsRefused == Spec => []RefusesMalformed
<1>1. FullInv => RefusesMalformed
  BY RefusesIs DEF FullInv
<1> QED  BY <1>1, ReaderIsConsistent, PTL

\* What encode_message has written is accepted, and read back as it was, in
\* every field of every scalar type, with the unknown fields behind them.
THEOREM WrittenIsRead == Spec => []ReadsWhatIsWritten
<1>1. FullInv => ReadsWhatIsWritten
  BY SavedIsRead DEF FullInv
<1> QED  BY <1>1, ReaderIsConsistent, PTL
=============================================================================
