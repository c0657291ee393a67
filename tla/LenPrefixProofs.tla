-------------------------- MODULE LenPrefixProofs --------------------------
(***************************************************************************)
(* Proofs about LenPrefix: the positions the encoder holds stay right, and *)
(* what it writes is what encoding into temporaries would write.           *)
(***************************************************************************)
EXTENDS LenPrefix, VarintProofs

-----------------------------------------------------------------------------
(* Parts of buffers. *)

\* The part of a buffer between two of its positions.
LEMMA Part ==
  ASSUME NEW b \in Seq(Byte), NEW u \in Nat \ {0}, NEW v \in Int, v <= Len(b)
  PROVE  /\ SubSeq(b, u, v) \in Seq(Byte)
         /\ Len(SubSeq(b, u, v)) = IF u <= v THEN v - u + 1 ELSE 0
         /\ \A i \in 1 .. v - u + 1 : SubSeq(b, u, v)[i] = b[u + i - 1]
<1>1. \A i \in u .. v : b[i] \in Byte
  BY ElementOfSeq, LenProperties
<1> QED  BY <1>1, SubSeqProperties

\* Buffers that agree up to v have the same parts up to v.
LEMMA PartsAgree ==
  ASSUME NEW b \in Seq(Byte), NEW c \in Seq(Byte), NEW u \in Nat \ {0}, NEW v \in Int,
         v <= Len(b), v <= Len(c), \A i \in 1 .. v : b[i] = c[i]
  PROVE  SubSeq(b, u, v) = SubSeq(c, u, v)
<1> DEFINE s == SubSeq(b, u, v)
           t == SubSeq(c, u, v)
<1>1. /\ s \in Seq(Byte) /\ Len(s) = IF u <= v THEN v - u + 1 ELSE 0
      /\ \A i \in 1 .. v - u + 1 : s[i] = b[u + i - 1]
  BY Part
<1>2. /\ t \in Seq(Byte) /\ Len(t) = IF u <= v THEN v - u + 1 ELSE 0
      /\ \A i \in 1 .. v - u + 1 : t[i] = c[u + i - 1]
  BY Part
<1>3. \A i \in 1 .. Len(s) : s[i] = t[i]
  BY <1>1, <1>2
<1> QED  BY <1>1, <1>2, <1>3, SeqEqual

\* What comes behind a part of a buffer is the rest.
LEMMA PartOfConcat ==
  ASSUME NEW b \in Seq(Byte), NEW d \in Seq(Byte), NEW u \in 1 .. Len(b) + 1
  PROVE  SubSeq(b \o d, u, Len(b) + Len(d)) = SubSeq(b, u, Len(b)) \o d
<1> DEFINE c == b \o d
           s == SubSeq(c, u, Len(b) + Len(d))
           p == SubSeq(b, u, Len(b))
           t == p \o d
<1>0. Len(b) \in Nat /\ Len(d) \in Nat
  BY LenProperties
<1>1. /\ c \in Seq(Byte) /\ Len(c) = Len(b) + Len(d)
      /\ \A i \in 1 .. Len(b) + Len(d) : c[i] = IF i <= Len(b) THEN b[i] ELSE d[i - Len(b)]
  BY ConcatProperties
<1>2. /\ s \in Seq(Byte) /\ Len(s) = Len(b) + Len(d) - u + 1
      /\ \A i \in 1 .. Len(b) + Len(d) - u + 1 : s[i] = c[u + i - 1]
  <2> HIDE DEF c
  <2> QED  BY <1>0, <1>1, Part
<1>3. /\ p \in Seq(Byte) /\ Len(p) = Len(b) - u + 1
      /\ \A i \in 1 .. Len(b) - u + 1 : p[i] = b[u + i - 1]
  BY <1>0, Part
<1>4. /\ t \in Seq(Byte) /\ Len(t) = Len(p) + Len(d)
      /\ \A i \in 1 .. Len(p) + Len(d) : t[i] = IF i <= Len(p) THEN p[i] ELSE d[i - Len(p)]
  <2> HIDE DEF p
  <2> QED  BY <1>3, ConcatProperties
<1> HIDE DEF c, s, p, t
<1>5. Len(s) = Len(t) /\ Len(s) = Len(b) + Len(d) - u + 1
  BY <1>0, <1>2, <1>3, <1>4
<1>6. \A i \in 1 .. Len(s) : s[i] = t[i]
  <2> SUFFICES ASSUME NEW i \in 1 .. Len(b) + Len(d) - u + 1  PROVE s[i] = t[i]
    BY <1>5
  <2>1. s[i] = c[u + i - 1] /\ u + i - 1 \in 1 .. Len(b) + Len(d)
    BY <1>0, <1>2
  <2>2. t[i] = IF i <= Len(p) THEN p[i] ELSE d[i - Len(p)]
    BY <1>0, <1>3, <1>4
  <2>3. c[u + i - 1] = IF u + i - 1 <= Len(b) THEN b[u + i - 1] ELSE d[u + i - 1 - Len(b)]
    BY <1>1, <2>1
  <2>4. CASE i <= Len(b) - u + 1
    <3>1. p[i] = b[u + i - 1]
      BY <1>0, <1>3, <2>4
    <3> QED  BY <1>0, <1>3, <2>1, <2>2, <2>3, <2>4, <3>1
  <2>5. CASE i > Len(b) - u + 1
    <3>1. i - Len(p) = u + i - 1 - Len(b)
      BY <1>0, <1>3
    <3> QED  BY <1>0, <1>3, <2>1, <2>2, <2>3, <2>5, <3>1
  <2> QED  BY <1>0, <2>4, <2>5
<1>7. s = t
  BY <1>2, <1>4, <1>5, <1>6, SeqEqual
<1> QED  BY <1>7 DEF s, t, c, p

-----------------------------------------------------------------------------
(* finish_len_prefix. *)

\* write_varint and finish_len_prefix write the lengths that occur here with
\* as many bytes as varint_len says.
LEMMA LengthsAre ==
  \A n \in Base .. MaxLen : /\ VarintLoop[n] \in Seq(Byte)
                            /\ VarintLen(n) \in Nat \ {0}
                            /\ Len(VarintLoop[n]) = VarintLen(n)
<1>1. \A n \in Base .. MaxLen : n \in Nat \ {0}
  BY LenPrefixAssumption, BaseIs
<1> QED  BY <1>1, VarintLenIs

\* The length of a payload, as finish_len_prefix and write_varint write it.
LEMMA LengthBytes ==
  ASSUME NEW n \in 0 .. MaxLen
  PROVE  /\ WriteVarint(n) \in Seq(Byte)
         /\ n < Base => WriteVarint(n) = <<n>> /\ Len(WriteVarint(n)) = 1 /\ WriteVarint(n)[1] = n
         /\ n >= Base => /\ WriteVarint(n) = VarintLoop[n]
                         /\ VarintLen(n) \in Nat \ {0}
                         /\ Len(VarintLoop[n]) = VarintLen(n)
<1>1. CASE n < Base
  <2>1. n \in Byte
    BY <1>1, LenPrefixAssumption, BaseIs DEF Byte
  <2>2. WriteVarint(n) = <<n>>
    BY <1>1 DEF WriteVarint
  <2> QED  BY <1>1, <2>1, <2>2, LenPrefixAssumption, BaseIs
<1>2. CASE n >= Base
  <2>1. n \in Base .. MaxLen
    BY <1>2, LenPrefixAssumption
  <2>2. WriteVarint(n) = VarintLoop[n]
    BY <1>2, LenPrefixAssumption, BaseIs DEF WriteVarint
  <2> QED  BY <1>2, <2>1, <2>2, LengthsAre, BaseIs, LenPrefixAssumption
<1> QED  BY <1>1, <1>2, LenPrefixAssumption, BaseIs

\* Whether or not the payload has to be moved, what becomes of the buffer is
\* the bytes before the slot, the length and the payload.
LEMMA FinishWritesLength ==
  ASSUME NEW b \in Seq(Byte), Len(b) <= MaxLen, NEW slot \in 1 .. Len(b)
  PROVE  FinishLenPrefix(b, slot) =
           (SubSeq(b, 1, slot - 1) \o WriteVarint(Len(b) - slot)) \o SubSeq(b, slot + 1, Len(b))
<1> DEFINE n == Len(b) - slot
           w == WriteVarint(n)
           p == SubSeq(b, 1, slot - 1)
           d == SubSeq(b, slot + 1, Len(b))
           e == p \o w
           t == e \o d
<1>0. Len(b) \in Nat /\ n \in 0 .. MaxLen /\ slot \in Nat \ {0} /\ n = Len(b) - slot
  BY LenProperties, LenPrefixAssumption
<1>1. /\ w \in Seq(Byte)
      /\ n < Base => w = <<n>> /\ Len(w) = 1 /\ w[1] = n
      /\ n >= Base => w = VarintLoop[n] /\ VarintLen(n) \in Nat \ {0} /\ Len(w) = VarintLen(n)
  <2> HIDE DEF n
  <2>1. n \in 0 .. MaxLen
    BY <1>0
  <2> QED  BY <2>1, LengthBytes
<1>2. /\ p \in Seq(Byte) /\ Len(p) = slot - 1
      /\ \A i \in 1 .. slot - 1 : p[i] = b[i]
  BY <1>0, Part
<1>3. /\ d \in Seq(Byte) /\ Len(d) = n
      /\ \A i \in 1 .. n : d[i] = b[slot + i]
  <2>1. /\ d \in Seq(Byte) /\ Len(d) = n
        /\ \A i \in 1 .. n : d[i] = b[slot + 1 + i - 1]
    BY <1>0, Part
  <2> QED  BY <1>0, <2>1
<1>4. Len(w) \in Nat \ {0}
  BY <1>0, <1>1, LenPrefixAssumption, BaseIs
<1>5. /\ e \in Seq(Byte) /\ Len(e) = slot - 1 + Len(w)
      /\ \A i \in 1 .. Len(e) : e[i] = IF i < slot THEN b[i] ELSE w[i - slot + 1]
  <2> HIDE DEF p, w
  <2>1. /\ e \in Seq(Byte) /\ Len(e) = Len(p) + Len(w)
        /\ \A i \in 1 .. Len(p) + Len(w) : e[i] = IF i <= Len(p) THEN p[i] ELSE w[i - Len(p)]
    BY <1>1, <1>2, ConcatProperties
  <2> QED  BY <1>0, <1>2, <1>4, <2>1
<1>6. /\ t \in Seq(Byte) /\ Len(t) = slot - 1 + Len(w) + n
      /\ \A i \in 1 .. Len(t) :
           t[i] = IF i < slot THEN b[i]
                  ELSE IF i < slot + Len(w) THEN w[i - slot + 1] ELSE b[i - Len(w) + 1]
  <2> HIDE DEF e, d, w, n
  <2>1. /\ t \in Seq(Byte) /\ Len(t) = Len(e) + Len(d)
        /\ \A i \in 1 .. Len(e) + Len(d) : t[i] = IF i <= Len(e) THEN e[i] ELSE d[i - Len(e)]
    BY <1>3, <1>5, ConcatProperties
  <2>2. Len(e) = slot - 1 + Len(w) /\ Len(d) = n /\ Len(t) = slot - 1 + Len(w) + n
    BY <1>0, <1>3, <1>4, <1>5, <2>1
  <2> HIDE DEF t
  <2> SUFFICES ASSUME NEW i \in 1 .. slot - 1 + Len(w) + n
               PROVE  t[i] = IF i < slot THEN b[i]
                             ELSE IF i < slot + Len(w) THEN w[i - slot + 1] ELSE b[i - Len(w) + 1]
    BY <2>1, <2>2
  <2>3. t[i] = IF i <= Len(e) THEN e[i] ELSE d[i - Len(e)]
    BY <2>1, <2>2
  <2>4. CASE i <= slot - 1 + Len(w)
    <3>1. t[i] = e[i]
      BY <2>2, <2>3, <2>4
    <3>2. e[i] = IF i < slot THEN b[i] ELSE w[i - slot + 1]
      BY <1>5, <2>2, <2>4
    <3> QED  BY <1>0, <1>4, <2>4, <3>1, <3>2
  <2>5. CASE i > slot - 1 + Len(w)
    <3> DEFINE j == i - (slot - 1 + Len(w))
    <3>1. t[i] = d[j]
      BY <1>0, <1>4, <2>2, <2>3, <2>5
    <3>2. j \in 1 .. n /\ slot + j = i - Len(w) + 1
      BY <1>0, <1>4, <2>5
    <3>3. d[j] = b[slot + j]
      <4> HIDE DEF j
      <4> QED  BY <1>3, <3>2
    <3>4. ~ (i < slot) /\ ~ (i < slot + Len(w))
      BY <1>0, <1>4, <2>5
    <3> HIDE DEF j
    <3> QED  BY <3>1, <3>2, <3>3, <3>4
  <2> QED  BY <1>0, <1>4, <2>4, <2>5
<1> DEFINE f == FinishLenPrefix(b, slot)
<1>7. CASE n < Base
  <2>1. f = [b EXCEPT ![slot] = n]
    BY <1>7 DEF FinishLenPrefix
  <2>2. n \in Byte
    BY <1>0, <1>7, LenPrefixAssumption, BaseIs DEF Byte
  <2>3. /\ f \in Seq(Byte) /\ Len(f) = Len(b)
        /\ \A i \in 1 .. Len(b) : f[i] = IF i = slot THEN n ELSE b[i]
    <3> HIDE DEF n, f
    <3> QED  BY <2>1, <2>2, ExceptSeq
  <2> HIDE DEF f, t, w, n
  <2>4. Len(t) = Len(f) /\ Len(w) = 1
    <3>1. Len(w) = 1
      BY <1>1, <1>7
    <3>2. Len(t) = slot - 1 + Len(w) + n
      BY <1>6
    <3>3. Len(f) = Len(b)
      BY <2>3
    <3> QED  BY <1>0, <3>1, <3>2, <3>3
  <2>5. \A i \in 1 .. Len(f) : f[i] = t[i]
    <3> SUFFICES ASSUME NEW i \in 1 .. Len(b)  PROVE f[i] = t[i]
      BY <2>3
    <3>1. f[i] = IF i = slot THEN n ELSE b[i]
      BY <2>3
    <3>2. t[i] = IF i < slot THEN b[i] ELSE IF i < slot + Len(w) THEN w[i - slot + 1] ELSE b[i - Len(w) + 1]
      BY <1>6, <2>3, <2>4
    <3>3. CASE i < slot
      BY <1>0, <3>1, <3>2, <3>3
    <3>4. CASE i = slot
      <4>1. i - slot + 1 = 1
        BY <1>0, <3>4
      <4> QED  BY <1>0, <1>1, <1>7, <2>4, <3>1, <3>2, <3>4, <4>1
    <3>5. CASE i > slot
      <4>1. i - Len(w) + 1 = i /\ ~ (i < slot + Len(w)) /\ ~ (i < slot) /\ i # slot
        BY <1>0, <2>4, <3>5
      <4> QED  BY <1>0, <3>1, <3>2, <3>5, <4>1
    <3> QED  BY <1>0, <3>3, <3>4, <3>5
  <2>6. f = t
    BY <1>6, <2>3, <2>4, <2>5, SeqEqual
  <2> QED  BY <2>6 DEF f, t, w, n
<1>8. CASE n >= Base
  <2> DEFINE extra == VarintLen(n) - 1
             m == ShiftRight(b, slot + 1, extra)
  <2>1. f = Overwrite(m, slot, VarintLoop[n])
    BY <1>0, <1>8, LenPrefixAssumption, BaseIs DEF FinishLenPrefix
  <2>2. extra \in Nat /\ Len(w) = extra + 1
    BY <1>1, <1>8
  <2>3. m = [i \in 1 .. Len(b) + extra |->
               IF i >= slot + 1 + extra THEN b[i - extra] ELSE IF i <= Len(b) THEN b[i] ELSE 0]
    BY DEF ShiftRight
  <2>4. Len(m) = Len(b) + extra
    <3> HIDE DEF extra, m
    <3> QED  BY <1>0, <2>2, <2>3
  <2>5. f = [i \in 1 .. Len(b) + extra |->
               IF i \in slot .. slot + extra THEN w[i - slot + 1] ELSE m[i]]
    <3>1. f = [i \in 1 .. Len(m) |->
                 IF i \in slot .. slot + Len(w) - 1 THEN w[i - slot + 1] ELSE m[i]]
      BY <1>1, <1>8, <2>1 DEF Overwrite
    <3>2. slot + Len(w) - 1 = slot + extra
      BY <1>0, <2>2
    <3> HIDE DEF f, m, extra, w
    <3> QED  BY <2>4, <3>1, <3>2
  <2> HIDE DEF extra, m, f, t, w, n
  <2>6. Len(t) = Len(b) + extra
    BY <1>0, <1>6, <2>2
  <2>7. \A i \in 1 .. Len(b) + extra : f[i] = t[i]
    <3> SUFFICES ASSUME NEW i \in 1 .. Len(b) + extra  PROVE f[i] = t[i]
      OBVIOUS
    <3>1. t[i] = IF i < slot THEN b[i]
                 ELSE IF i < slot + Len(w) THEN w[i - slot + 1] ELSE b[i - Len(w) + 1]
      BY <1>6, <2>6
    <3>2. f[i] = IF i \in slot .. slot + extra THEN w[i - slot + 1] ELSE m[i]
      BY <2>5
    <3>3. m[i] = IF i >= slot + 1 + extra THEN b[i - extra] ELSE IF i <= Len(b) THEN b[i] ELSE 0
      BY <2>3
    <3>4. CASE i < slot
      <4>1. i \notin slot .. slot + extra /\ ~ (i >= slot + 1 + extra) /\ i <= Len(b)
        BY <1>0, <2>2, <3>4
      <4> QED  BY <3>1, <3>2, <3>3, <3>4, <4>1
    <3>5. CASE i \in slot .. slot + extra
      <4>1. ~ (i < slot) /\ i < slot + Len(w)
        BY <1>0, <2>2, <3>5
      <4> QED  BY <3>1, <3>2, <3>5, <4>1
    <3>6. CASE i > slot + extra
      <4>1. /\ i \notin slot .. slot + extra /\ i >= slot + 1 + extra
            /\ ~ (i < slot) /\ ~ (i < slot + Len(w)) /\ i - Len(w) + 1 = i - extra
        BY <1>0, <2>2, <3>6
      <4> QED  BY <3>1, <3>2, <3>3, <4>1
    <3> QED  BY <1>0, <2>2, <3>4, <3>5, <3>6
  <2>8. t = [i \in 1 .. Len(b) + extra |-> t[i]]
    BY <1>6, <2>6, LenProperties
  <2>9. f = [i \in 1 .. Len(b) + extra |-> f[i]]
    BY <2>5
  <2>10. f = t
    BY <2>7, <2>8, <2>9
  <2> QED  BY <2>10 DEF f, t, w, n
<1>9. n < Base \/ n >= Base
  BY <1>0, LenPrefixAssumption, BaseIs
<1> QED  BY <1>7, <1>8, <1>9

\* The bytes before the slot stay, and the buffer does not shrink.
LEMMA FinishKeepsFront ==
  ASSUME NEW b \in Seq(Byte), Len(b) <= MaxLen, NEW slot \in 1 .. Len(b)
  PROVE  /\ FinishLenPrefix(b, slot) \in Seq(Byte)
         /\ Len(FinishLenPrefix(b, slot)) >= slot
         /\ \A i \in 1 .. slot - 1 : FinishLenPrefix(b, slot)[i] = b[i]
<1> DEFINE p == SubSeq(b, 1, slot - 1)
           w == WriteVarint(Len(b) - slot)
           d == SubSeq(b, slot + 1, Len(b))
           e == p \o w
           f == FinishLenPrefix(b, slot)
<1>0. Len(b) \in Nat /\ slot \in Nat \ {0} /\ Len(b) - slot \in 0 .. MaxLen
  BY LenProperties, LenPrefixAssumption
<1>1. /\ p \in Seq(Byte) /\ Len(p) = slot - 1
      /\ \A i \in 1 .. slot - 1 : p[i] = b[i]
  BY <1>0, Part
<1>2. d \in Seq(Byte)
  BY <1>0, Part
<1>3. w \in Seq(Byte) /\ Len(w) \in Nat /\ Len(w) # 0
  <2> DEFINE n == Len(b) - slot
  <2>1. n \in 0 .. MaxLen
    BY <1>0
  <2> HIDE DEF n
  <2>2. /\ WriteVarint(n) \in Seq(Byte)
        /\ n < Base => Len(WriteVarint(n)) = 1
        /\ n >= Base => Len(WriteVarint(n)) \in Nat \ {0}
    BY <2>1, LengthBytes
  <2>3. n < Base \/ n >= Base
    BY <2>1, LenPrefixAssumption, BaseIs
  <2>4. WriteVarint(n) \in Seq(Byte) /\ Len(WriteVarint(n)) \in Nat /\ Len(WriteVarint(n)) # 0
    BY <2>1, <2>2, <2>3, LenPrefixAssumption, BaseIs
  <2> QED  BY <2>4 DEF n
<1>4. f = e \o d
  BY FinishWritesLength
<1> HIDE DEF p, w, d
<1>5. /\ e \in Seq(Byte) /\ Len(e) = Len(p) + Len(w)
      /\ \A i \in 1 .. Len(p) + Len(w) : e[i] = IF i <= Len(p) THEN p[i] ELSE w[i - Len(p)]
  BY <1>1, <1>3, ConcatProperties
<1> HIDE DEF e, f
<1>6. /\ f \in Seq(Byte) /\ Len(f) = Len(e) + Len(d)
      /\ \A i \in 1 .. Len(e) + Len(d) : f[i] = IF i <= Len(e) THEN e[i] ELSE d[i - Len(e)]
  <2>1. e \in Seq(Byte)
    BY <1>5
  <2> QED  BY ONLY <1>2, <1>4, <2>1, ConcatProperties
<1>7. Len(d) \in Nat
  BY <1>2, LenProperties
<1>8. Len(f) >= slot
  BY <1>0, <1>1, <1>3, <1>5, <1>6, <1>7
<1>9. ASSUME NEW i \in 1 .. slot - 1  PROVE f[i] = b[i]
  <2>1. i \in 1 .. Len(e) + Len(d) /\ i <= Len(e) /\ i \in 1 .. Len(p) + Len(w) /\ i <= Len(p)
    BY <1>0, <1>1, <1>3, <1>5, <1>7
  <2> QED  BY <1>1, <1>5, <1>6, <2>1
<1> QED  BY <1>6, <1>8, <1>9 DEF f

-----------------------------------------------------------------------------
(* The inductive invariant. *)

\* The open fields are within the buffer.
LEMMA OpenFacts ==
  ASSUME LenPrefixInv
  PROVE  /\ Len(buf) \in Nat /\ Len(open) \in Nat
         /\ \A k \in 1 .. Len(open) :
              /\ open[k] \in Field /\ open[k].start \in Nat \ {0} /\ open[k].slot \in Nat \ {0}
              /\ open[k].packed \in BOOLEAN
              /\ open[k].start <= open[k].slot /\ open[k].slot <= Len(buf)
         /\ open # <<>> => Len(open) \in 1 .. Len(open)
<1>1. open \in Seq(Field) /\ buf \in Seq(Byte)
  BY DEF LenPrefixInv, TypeOK
<1>2. \A k \in 1 .. Len(open) : open[k] \in Field
  BY <1>1, ElementOfSeq
<1>3. open # <<>> => Len(open) \in Nat \ {0}
  BY <1>1, EmptySeq
<1> QED  BY <1>1, <1>2, <1>3, LenProperties DEF LenPrefixInv, SlotsKept, Field

\* The outermost m fields keep their tags and slots if the buffer keeps its
\* first p bytes, which hold them.
LEMMA SlotsSurvive ==
  ASSUME LenPrefixInv, NEW c \in Seq(Byte), NEW p \in Nat, p <= Len(buf), p <= Len(c),
         \A i \in 1 .. p : buf[i] = c[i],
         NEW k \in 1 .. Len(open), open[k].slot <= p
  PROVE  /\ open[k].slot <= Len(c)
         /\ SubSeq(c, open[k].start, open[k].slot - 1) \in Tags
         /\ c[open[k].slot] = 0
<1> DEFINE a == open[k].start
           z == open[k].slot
<1>1. /\ a \in Nat \ {0} /\ z \in Nat \ {0} /\ a <= z /\ z <= Len(buf) /\ z <= p
      /\ Len(buf) \in Nat /\ Len(c) \in Nat
  BY OpenFacts, LenProperties
<1>2. SubSeq(buf, a, z - 1) \in Tags /\ buf[z] = 0
  BY DEF LenPrefixInv, SlotsKept
<1>3. buf \in Seq(Byte)
  BY DEF LenPrefixInv, TypeOK
<1>4. SubSeq(buf, a, z - 1) = SubSeq(c, a, z - 1)
  <2> HIDE DEF a, z
  <2>1. z - 1 \in Int /\ z - 1 <= Len(buf) /\ z - 1 <= Len(c) /\ \A i \in 1 .. z - 1 : buf[i] = c[i]
    BY <1>1
  <2> QED  BY <1>1, <1>3, <2>1, PartsAgree
<1>5. z <= Len(c) /\ c[z] = buf[z]
  BY <1>1
<1> QED  BY <1>2, <1>4, <1>5

\* Closing the innermost field leaves the ones around it.
LEMMA OuterFacts ==
  ASSUME LenPrefixInv, open # <<>>
  PROVE  /\ Outer \in Seq(Field) /\ Len(Outer) = Len(open) - 1
         /\ \A k \in 1 .. Len(open) - 1 : Outer[k] = open[k] /\ open[k].slot < Innermost.start
         /\ \A j, k \in 1 .. Len(Outer) :
              j < k => Outer[j].slot < Outer[k].start /\ ~ Outer[j].packed
<1>1. Len(open) \in Nat \ {0} /\ open \in Seq(Field)
  BY OpenFacts DEF LenPrefixInv, TypeOK
<1>2. \A i \in 1 .. Len(open) - 1 : open[i] \in Field
  BY <1>1, ElementOfSeq
<1>3. /\ Outer \in Seq(Field) /\ Len(Outer) = Len(open) - 1
      /\ \A k \in 1 .. Len(open) - 1 : Outer[k] = open[k]
  <2> DEFINE n == Len(open) - 1
             o == SubSeq(open, 1, n)
  <2>1. n \in Nat /\ n = Len(open) - 1
    BY <1>1
  <2>2. \A i \in 1 .. n : open[i] \in Field
    BY <1>2
  <2> HIDE DEF n
  <2>3. /\ o \in Seq(Field) /\ Len(o) = IF 1 <= n THEN n - 1 + 1 ELSE 0
        /\ \A i \in 1 .. n - 1 + 1 : o[i] = open[1 + i - 1]
    BY <2>1, <2>2, SubSeqProperties
  <2> HIDE DEF o
  <2>4. Len(o) = n /\ \A k \in 1 .. n : o[k] = open[k]
    BY <2>1, <2>3
  <2>5. o = Outer
    BY DEF o, n, Outer
  <2> QED  BY <2>1, <2>3, <2>4, <2>5
<1>4. \A j, k \in 1 .. Len(open) : j < k => open[j].slot < open[k].start /\ ~ open[j].packed
  BY DEF LenPrefixInv, SlotsKept
<1> QED  BY <1>1, <1>3, <1>4 DEF Innermost

\* What write_tag and begin_len_prefix append.
LEMMA BeginAppends ==
  ASSUME NEW b \in Seq(Byte), NEW tag \in Seq(Byte)
  PROVE  /\ b \o tag \o <<0>> \in Seq(Byte)
         /\ Len(b \o tag \o <<0>>) = Len(b) + Len(tag) + 1
         /\ \A i \in 1 .. Len(b) : b[i] = (b \o tag \o <<0>>)[i]
         /\ SubSeq(b \o tag \o <<0>>, Len(b) + 1, Len(b) + Len(tag)) = tag
         /\ (b \o tag \o <<0>>)[Len(b) + Len(tag) + 1] = 0
<1> DEFINE e == b \o tag
           z == <<0>>
           c == e \o z
           s == SubSeq(c, Len(b) + 1, Len(b) + Len(tag))
<1>1. Len(b) \in Nat /\ Len(tag) \in Nat
  BY LenProperties
<1>2. z \in Seq(Byte) /\ Len(z) = 1 /\ z[1] = 0
  <2>1. 0 \in Byte
    BY LenPrefixAssumption, BaseIs DEF Byte
  <2> QED  BY <2>1
<1>3. /\ e \in Seq(Byte) /\ Len(e) = Len(b) + Len(tag)
      /\ \A i \in 1 .. Len(b) + Len(tag) : e[i] = IF i <= Len(b) THEN b[i] ELSE tag[i - Len(b)]
  BY ConcatProperties
<1> HIDE DEF e, z
<1>4. /\ c \in Seq(Byte) /\ Len(c) = Len(e) + Len(z)
      /\ \A i \in 1 .. Len(e) + Len(z) : c[i] = IF i <= Len(e) THEN e[i] ELSE z[i - Len(e)]
  <2>1. e \in Seq(Byte) /\ z \in Seq(Byte)
    BY <1>2, <1>3
  <2> QED  BY ONLY <2>1, ConcatProperties
<1> HIDE DEF c
<1>5. Len(c) = Len(b) + Len(tag) + 1
  BY <1>2, <1>3, <1>4
<1>6. ASSUME NEW i \in 1 .. Len(b) + Len(tag)
      PROVE  c[i] = IF i <= Len(b) THEN b[i] ELSE tag[i - Len(b)]
  <2>1. i \in 1 .. Len(e) + Len(z) /\ i <= Len(e)
    BY <1>1, <1>2, <1>3
  <2> QED  BY <1>3, <1>4, <2>1
<1>7. ASSUME NEW i \in 1 .. Len(b)  PROVE b[i] = c[i]
  <2>1. i \in 1 .. Len(b) + Len(tag) /\ i <= Len(b)
    BY <1>1
  <2> QED  BY <1>6, <2>1
<1>8. c[Len(b) + Len(tag) + 1] = 0
  <2> DEFINE j == Len(b) + Len(tag) + 1
  <2>1. j \in 1 .. Len(e) + Len(z) /\ ~ (j <= Len(e)) /\ j - Len(e) = 1
    BY <1>1, <1>2, <1>3
  <2> HIDE DEF j
  <2>2. c[j] = 0
    BY <1>2, <1>4, <2>1
  <2> QED  BY <2>2 DEF j
<1>9. s = tag
  <2>1. /\ s \in Seq(Byte)
        /\ Len(s) = IF Len(b) + 1 <= Len(b) + Len(tag) THEN Len(b) + Len(tag) - (Len(b) + 1) + 1 ELSE 0
        /\ \A i \in 1 .. Len(b) + Len(tag) - (Len(b) + 1) + 1 : s[i] = c[Len(b) + 1 + i - 1]
    BY <1>1, <1>4, <1>5, Part
  <2> HIDE DEF s
  <2>2. Len(s) = Len(tag)
    BY <1>1, <2>1
  <2>3. ASSUME NEW i \in 1 .. Len(s)  PROVE s[i] = tag[i]
    <3> DEFINE j == Len(b) + i
    <3>1. j \in 1 .. Len(b) + Len(tag) /\ ~ (j <= Len(b)) /\ j - Len(b) = i /\ j = Len(b) + 1 + i - 1
      BY <1>1, <2>2
    <3>2. i \in 1 .. Len(b) + Len(tag) - (Len(b) + 1) + 1
      BY <1>1, <2>2
    <3>3. s[i] = c[j]
      BY <2>1, <3>1, <3>2
    <3> HIDE DEF j
    <3>4. c[j] = tag[i]
      BY <1>6, <3>1
    <3> QED  BY <3>3, <3>4
  <2> QED  BY <2>1, <2>2, <2>3, SeqEqual
<1> QED  BY <1>4, <1>5, <1>7, <1>8, <1>9 DEF c, e, z, s

-----------------------------------------------------------------------------
(* Every step keeps the invariant. *)

\* Writing a byte keeps the open slots where they are.
LEMMA PutInv ==
  ASSUME LenPrefixInv, NEW b \in Payload, Put(b)
  PROVE  LenPrefixInv'
<1>1. /\ buf \in Seq(Byte) /\ b \in Byte /\ buf' = Append(buf, b) /\ open' = open
      /\ result' = result /\ Len(buf) < MaxLen
  BY LenPrefixAssumption DEF LenPrefixInv, TypeOK, Put
<1>2. /\ buf' \in Seq(Byte) /\ Len(buf') = Len(buf) + 1
      /\ \A i \in 1 .. Len(buf) : buf[i] = buf'[i]
  BY <1>1, AppendProperties
<1>3. Len(buf) \in Nat /\ Len(buf) <= Len(buf') /\ Len(buf') <= MaxLen
  BY <1>1, <1>2, LenProperties, LenPrefixAssumption
<1>4. TypeOK'
  BY <1>1, <1>2, <1>3 DEF LenPrefixInv, TypeOK
<1>5. ASSUME NEW k \in 1 .. Len(open)
      PROVE  /\ open[k].start <= open[k].slot /\ open[k].slot <= Len(buf')
             /\ SubSeq(buf', open[k].start, open[k].slot - 1) \in Tags
             /\ buf'[open[k].slot] = 0
  <2>1. open[k].start <= open[k].slot /\ open[k].slot <= Len(buf)
    BY OpenFacts
  <2> QED  BY <1>2, <1>3, <2>1, SlotsSurvive, SMTT(30)
<1>6. SlotsKept'
  BY <1>1, <1>5 DEF LenPrefixInv, SlotsKept
<1> QED  BY <1>4, <1>6 DEF LenPrefixInv

\* The slot that Begin reserves lies behind all others.
LEMMA BeginInv ==
  ASSUME LenPrefixInv, NEW tag \in Tags, NEW packed \in BOOLEAN, Begin(tag, packed)
  PROVE  LenPrefixInv'
<1> DEFINE n == Len(open)
           r == [start |-> Len(buf) + 1, slot |-> Len(buf) + Len(tag) + 1, packed |-> packed]
<1>1. /\ buf \in Seq(Byte) /\ tag \in Seq(Byte) /\ open \in Seq(Field)
      /\ buf' = buf \o tag \o <<0>> /\ open' = Append(open, r)
      /\ result' = result /\ Len(buf) + Len(tag) < MaxLen
      /\ open # <<>> => ~ open[n].packed
  BY LenPrefixAssumption DEF LenPrefixInv, TypeOK, Begin, InPacked, Innermost
<1>2. Len(buf) \in Nat /\ Len(tag) \in Nat /\ n \in Nat
  BY <1>1, LenProperties
<1>3. /\ buf' \in Seq(Byte) /\ Len(buf') = Len(buf) + Len(tag) + 1
      /\ \A i \in 1 .. Len(buf) : buf[i] = buf'[i]
      /\ SubSeq(buf', Len(buf) + 1, Len(buf) + Len(tag)) = tag
      /\ buf'[Len(buf) + Len(tag) + 1] = 0
  BY <1>1, BeginAppends
<1>4. Len(buf) <= Len(buf') /\ Len(buf') <= MaxLen
  BY <1>1, <1>2, <1>3, LenPrefixAssumption
<1>5. r \in Field /\ r.start = Len(buf) + 1 /\ r.slot = Len(buf) + Len(tag) + 1 /\ r.packed = packed
  BY <1>2 DEF Field
<1> HIDE DEF r
<1>6. /\ open' \in Seq(Field) /\ Len(open') = n + 1
      /\ \A i \in 1 .. n : open'[i] = open[i]
      /\ open'[n + 1] = r
  BY <1>1, <1>5, AppendProperties
<1>7. TypeOK'
  BY <1>1, <1>3, <1>4, <1>6 DEF LenPrefixInv, TypeOK
<1>8. ASSUME NEW k \in 1 .. n
      PROVE  /\ open[k].start <= open[k].slot /\ open[k].slot <= Len(buf')
             /\ SubSeq(buf', open[k].start, open[k].slot - 1) \in Tags
             /\ buf'[open[k].slot] = 0
  <2>1. k \in 1 .. Len(open) /\ open[k].start <= open[k].slot /\ open[k].slot <= Len(buf)
    BY OpenFacts
  <2>2. /\ buf' \in Seq(Byte) /\ Len(buf) \in Nat /\ Len(buf) <= Len(buf')
        /\ \A i \in 1 .. Len(buf) : buf[i] = buf'[i]
    BY <1>2, <1>3, <1>4
  <2>3. Len(buf) <= Len(buf)
    BY <1>2
  <2>4. /\ open[k].slot <= Len(buf')
        /\ SubSeq(buf', open[k].start, open[k].slot - 1) \in Tags
        /\ buf'[open[k].slot] = 0
    BY <2>1, <2>2, <2>3, SlotsSurvive
  <2> QED  BY <2>1, <2>4
<1>9. /\ r.start <= r.slot /\ r.slot <= Len(buf')
      /\ SubSeq(buf', r.start, r.slot - 1) \in Tags
      /\ buf'[r.slot] = 0
  <2>1. r.slot - 1 = Len(buf) + Len(tag)
    BY <1>2, <1>5
  <2>2. SubSeq(buf', r.start, r.slot - 1) = tag /\ buf'[r.slot] = 0
    BY <1>3, <1>5, <2>1
  <2>3. r.start <= r.slot /\ r.slot <= Len(buf')
    BY <1>2, <1>3, <1>5
  <2> QED  BY <2>2, <2>3
<1>10. ASSUME NEW j \in 1 .. n + 1, NEW k \in 1 .. n + 1, j < k
       PROVE  open'[j].slot < open'[k].start /\ ~ open'[j].packed
  <2>1. j \in 1 .. n /\ open'[j] = open[j]
    BY <1>2, <1>6, <1>10
  <2>2. CASE k \in 1 .. n
    BY <1>6, <1>10, <2>1, <2>2 DEF LenPrefixInv, SlotsKept
  <2>3. CASE k = n + 1
    <3>1. open[j].slot \in Nat /\ open[j].slot <= Len(buf)
      BY <2>1, OpenFacts
    <3>2. open[j].slot < r.start
      BY <1>2, <1>5, <3>1
    <3>3. ~ open[j].packed
      <4>1. CASE j = n
        BY <1>1, <1>2, <2>1, <4>1, EmptySeq
      <4>2. CASE j < n
        <5>1. n \in 1 .. Len(open) /\ j \in 1 .. Len(open)
          BY <1>2, <2>1
        <5> QED  BY <4>2, <5>1 DEF LenPrefixInv, SlotsKept
      <4> QED  BY <1>2, <2>1, <4>1, <4>2
    <3> QED  BY <1>6, <2>1, <2>3, <3>2, <3>3
  <2> QED  BY <1>2, <2>2, <2>3
<1>11. ASSUME NEW k \in 1 .. n + 1
       PROVE  /\ open'[k].start <= open'[k].slot /\ open'[k].slot <= Len(buf')
              /\ SubSeq(buf', open'[k].start, open'[k].slot - 1) \in Tags
              /\ buf'[open'[k].slot] = 0
  <2>1. CASE k \in 1 .. n
    BY <1>6, <1>8, <2>1
  <2>2. CASE k = n + 1
    BY <1>6, <1>9, <2>2
  <2> QED  BY <1>2, <2>1, <2>2
<1>12. SlotsKept'
  BY <1>6, <1>10, <1>11 DEF SlotsKept
<1> QED  BY <1>7, <1>12 DEF LenPrefixInv

\* Closing a field: the buffer keeps what is before the field's slot, or at
\* least what is before its tag.
LEMMA CloseInv ==
  ASSUME LenPrefixInv, open # <<>>, open' = Outer, result' = result,
         buf' \in Seq(Byte), Len(buf') <= MaxLen, Len(buf') >= Innermost.start - 1,
         \A i \in 1 .. Innermost.start - 1 : buf[i] = buf'[i]
  PROVE  LenPrefixInv'
<1> DEFINE n == Len(open)
           p == Innermost.start - 1
<1>1. /\ n \in Nat \ {0} /\ Len(buf) \in Nat /\ Innermost.start \in Nat \ {0}
      /\ Innermost.start <= Innermost.slot /\ Innermost.slot <= Len(buf)
      /\ Innermost.slot \in Nat
  BY OpenFacts DEF Innermost
<1>2. /\ Outer \in Seq(Field) /\ Len(Outer) = n - 1
      /\ \A k \in 1 .. n - 1 : Outer[k] = open[k] /\ open[k].slot < Innermost.start
      /\ \A j, k \in 1 .. Len(Outer) : j < k => Outer[j].slot < Outer[k].start /\ ~ Outer[j].packed
  BY OuterFacts
<1>3. p \in Nat /\ p <= Len(buf) /\ p <= Len(buf') /\ \A i \in 1 .. p : buf[i] = buf'[i]
  BY <1>1
<1>4. TypeOK'
  BY <1>2 DEF LenPrefixInv, TypeOK
<1>5. ASSUME NEW k \in 1 .. n - 1
      PROVE  /\ Outer[k].start <= Outer[k].slot /\ Outer[k].slot <= Len(buf')
             /\ SubSeq(buf', Outer[k].start, Outer[k].slot - 1) \in Tags
             /\ buf'[Outer[k].slot] = 0
  <2>1. k \in 1 .. Len(open) /\ Outer[k] = open[k] /\ open[k].slot < Innermost.start
    BY <1>1, <1>2, SMTT(30)
  <2>2. open[k].start <= open[k].slot /\ open[k].slot \in Nat
    BY <2>1, OpenFacts
  <2>3. open[k].slot <= p
    BY <1>1, <2>1, <2>2
  <2> HIDE DEF p
  <2> QED  BY <1>3, <2>1, <2>2, <2>3, SlotsSurvive
<1>6. SlotsKept'
  BY <1>2, <1>5 DEF SlotsKept
<1> QED  BY <1>4, <1>6 DEF LenPrefixInv

\* Finish moves only what lies behind the slot that it fills.
LEMMA FinishInv ==
  ASSUME LenPrefixInv, Finish
  PROVE  LenPrefixInv'
<1> DEFINE slot == Innermost.slot
<1>1. /\ open # <<>> /\ buf' = FinishLenPrefix(buf, slot) /\ open' = Outer /\ result' = result
      /\ buf \in Seq(Byte) /\ Len(buf) <= MaxLen /\ Len(buf') <= MaxLen
  BY DEF LenPrefixInv, TypeOK, Finish
<1>2. /\ Len(buf) \in Nat /\ Innermost.start \in Nat \ {0} /\ slot \in Nat \ {0}
      /\ Innermost.start <= slot /\ slot <= Len(buf)
  BY <1>1, OpenFacts DEF Innermost
<1>3. /\ buf' \in Seq(Byte) /\ Len(buf') >= slot
      /\ \A i \in 1 .. slot - 1 : buf'[i] = buf[i]
  <2> HIDE DEF slot
  <2>1. slot \in 1 .. Len(buf)
    BY <1>2
  <2> QED  BY <1>1, <2>1, FinishKeepsFront
<1>4. /\ Len(buf') >= Innermost.start - 1
      /\ \A i \in 1 .. Innermost.start - 1 : buf[i] = buf'[i]
  BY <1>2, <1>3, LenProperties
<1> QED  BY <1>1, <1>3, <1>4, CloseInv

\* RollBack removes only what lies behind the other slots.
LEMMA RollBackInv ==
  ASSUME LenPrefixInv, RollBack
  PROVE  LenPrefixInv'
<1> DEFINE v == Innermost.start - 1
<1>1. /\ open # <<>> /\ buf' = SubSeq(buf, 1, v) /\ open' = Outer /\ result' = result
      /\ buf \in Seq(Byte) /\ Len(buf) <= MaxLen
  BY DEF LenPrefixInv, TypeOK, RollBack
<1>2. /\ Len(buf) \in Nat /\ v \in Nat /\ v <= Len(buf) /\ v = Innermost.start - 1
  BY <1>1, OpenFacts DEF Innermost
<1> HIDE DEF v
<1>3. /\ buf' \in Seq(Byte) /\ Len(buf') = IF 1 <= v THEN v - 1 + 1 ELSE 0
      /\ \A i \in 1 .. v - 1 + 1 : buf'[i] = buf[1 + i - 1]
  BY <1>1, <1>2, Part
<1>4. /\ Len(buf') = v /\ Len(buf') <= MaxLen
      /\ \A i \in 1 .. v : buf[i] = buf'[i]
  BY <1>1, <1>2, <1>3, LenPrefixAssumption
<1>5. /\ Len(buf') >= Innermost.start - 1
      /\ \A i \in 1 .. Innermost.start - 1 : buf[i] = buf'[i]
  BY <1>2, <1>4
<1> QED  BY <1>1, <1>3, <1>4, <1>5, CloseInv

\* LenPrefixInv is inductive.
THEOREM InvariantHolds == Spec => []LenPrefixInv
<1>1. Init => LenPrefixInv
  BY EmptySeq, LenPrefixAssumption DEF Init, LenPrefixInv, TypeOK, SlotsKept
<1>2. ASSUME LenPrefixInv, [Next]_vars  PROVE LenPrefixInv'
  <2>1. CASE \E b \in Payload : Put(b)
    BY <1>2, <2>1, PutInv
  <2>2. CASE \E tag \in Tags, packed \in BOOLEAN : Begin(tag, packed)
    BY <1>2, <2>2, BeginInv
  <2>3. CASE Finish
    BY <1>2, <2>3, FinishInv
  <2>4. CASE RollBack
    BY <1>2, <2>4, RollBackInv
  <2>5. CASE Return
    BY <1>2, <2>5 DEF Return, LenPrefixInv, TypeOK, SlotsKept
  <2>6. CASE Raise
    BY <1>2, <2>6 DEF Raise, LenPrefixInv, TypeOK, SlotsKept
  <2>7. CASE UNCHANGED vars
    BY <1>2, <2>7 DEF vars, LenPrefixInv, TypeOK, SlotsKept
  <2> QED  BY <1>2, <2>1, <2>2, <2>3, <2>4, <2>5, <2>6, <2>7 DEF Next
<1> QED  BY <1>1, <1>2, PTL DEF Spec

-----------------------------------------------------------------------------
(* The refinement. *)

LevelType == [tag : Seq(Byte), packed : BOOLEAN, data : Seq(Byte)]

\* Where the payload of a level begins and ends.
LEMMA LevelBounds ==
  ASSUME LenPrefixInv, NEW k \in 1 .. Len(open) + 1
  PROVE  /\ From(open, k) \in Nat \ {0} /\ Until(buf, open, k) \in Int
         /\ Until(buf, open, k) <= Len(buf)
<1>1. Len(buf) \in Nat /\ Len(open) \in Nat
  BY OpenFacts
<1>2. From(open, k) \in Nat \ {0}
  <2>1. CASE k = 1
    BY <2>1 DEF From
  <2>2. CASE k # 1
    <3>1. k - 1 \in 1 .. Len(open)
      BY <1>1, <2>2
    <3>2. open[k - 1].slot \in Nat
      BY <3>1, OpenFacts
    <3> QED  BY <2>2, <3>2 DEF From
  <2> QED  BY <2>1, <2>2
<1>3. Until(buf, open, k) \in Int /\ Until(buf, open, k) <= Len(buf)
  <2>1. CASE k <= Len(open)
    <3>1. k \in 1 .. Len(open)
      BY <1>1, <2>1
    <3>2. open[k].start \in Nat /\ open[k].slot \in Nat /\ open[k].start <= open[k].slot
          /\ open[k].slot <= Len(buf)
      BY <3>1, OpenFacts
    <3> QED  BY <1>1, <2>1, <3>2 DEF Until
  <2>2. CASE ~ (k <= Len(open))
    BY <1>1, <2>2 DEF Until
  <2> QED  BY <2>1, <2>2
<1> QED  BY <1>2, <1>3

\* The payload of a level is a temporary of NestedBuffers.
LEMMA LevelTyped ==
  ASSUME LenPrefixInv, NEW k \in 1 .. Len(open) + 1
  PROVE  Level(buf, open, k) \in LevelType
<1>1. buf \in Seq(Byte) /\ Len(open) \in Nat
  BY OpenFacts DEF LenPrefixInv, TypeOK
<1>2. SubSeq(buf, From(open, k), Until(buf, open, k)) \in Seq(Byte)
  BY <1>1, LevelBounds, Part
<1>3. CASE k = 1
  <2>1. <<>> \in Seq(Byte)
    BY EmptySeq
  <2> QED  BY <1>2, <1>3, <2>1 DEF Level, LevelType
<1>4. CASE k # 1
  <2>1. k - 1 \in 1 .. Len(open)
    BY <1>1, <1>4
  <2> DEFINE a == open[k - 1].start
             z == open[k - 1].slot - 1
  <2>2. a \in Nat \ {0} /\ z \in Int /\ z <= Len(buf) /\ open[k - 1].packed \in BOOLEAN
    <3>1. /\ open[k - 1].start \in Nat \ {0} /\ open[k - 1].slot \in Nat \ {0}
          /\ open[k - 1].packed \in BOOLEAN /\ open[k - 1].slot <= Len(buf) /\ Len(buf) \in Nat
      BY <2>1, OpenFacts
    <3> QED  BY <3>1
  <2>3. SubSeq(buf, a, z) \in Seq(Byte)
    <3> HIDE DEF a, z
    <3> QED  BY <1>1, <2>2, Part
  <2> QED  BY <1>2, <1>4, <2>2, <2>3 DEF Level, LevelType
<1> QED  BY <1>3, <1>4

\* Temporaries are equal when their parts are.
LEMMA SameLevel ==
  ASSUME NEW x \in LevelType, NEW y \in LevelType,
         x.tag = y.tag, x.packed = y.packed, x.data = y.data
  PROVE  x = y
  BY DEF LevelType

\* The temporaries are a sequence, one longer than the open fields.
TemporariesTyped ==
  /\ Temporaries \in Seq(LevelType) /\ Len(Temporaries) = Len(open) + 1 /\ Len(open) \in Nat
  /\ \A k \in 1 .. Len(open) + 1 : Temporaries[k] = Level(buf, open, k)

\* They are, whenever the invariant holds.
LEMMA TemporariesFacts == LenPrefixInv => TemporariesTyped
<1> SUFFICES ASSUME LenPrefixInv  PROVE TemporariesTyped
  OBVIOUS
<1> DEFINE n == Len(open) + 1
           L(k) == Level(buf, open, k)
<1>1. n \in Nat /\ Len(open) \in Nat
  BY OpenFacts
<1>2. \A k \in 1 .. n : L(k) \in LevelType
  BY LevelTyped
<1>3. Temporaries = [k \in 1 .. n |-> L(k)]
  BY DEF Temporaries
<1> HIDE DEF n, L
<1>4. Temporaries \in Seq(LevelType) /\ Len(Temporaries) = n
  BY <1>1, <1>2, <1>3
<1> QED  BY <1>1, <1>3, <1>4 DEF n, L, TemporariesTyped

\* The same of the next state.
LEMMA TemporariesNext == LenPrefixInv' => TemporariesTyped'
  BY TemporariesFacts, PTL

\* Two buffers that agree up to the end of a level's payload have the same
\* temporary there.
LEMMA LevelAgree ==
  ASSUME NEW b \in Seq(Byte), NEW o, NEW c \in Seq(Byte), NEW q,
         NEW k \in Nat \ {0}, NEW v \in Int,
         Until(b, o, k) = v, Until(c, q, k) = v, v <= Len(b), v <= Len(c),
         \A i \in 1 .. v : b[i] = c[i],
         From(o, k) \in Nat \ {0},
         k # 1 => /\ q[k - 1] = o[k - 1]
                  /\ o[k - 1].start \in Nat \ {0} /\ o[k - 1].slot \in Nat \ {0}
                  /\ o[k - 1].slot - 1 <= v
  PROVE  Level(c, q, k) = Level(b, o, k)
<1> DEFINE u == From(o, k)
<1>1. From(q, k) = u
  BY DEF From
<1>2. SubSeq(b, u, v) = SubSeq(c, u, v)
  <2> HIDE DEF u
  <2>1. u \in Nat \ {0}
    BY DEF u
  <2> QED  BY <2>1, PartsAgree
<1>3. CASE k = 1
  BY <1>1, <1>2, <1>3 DEF Level
<1>4. CASE k # 1
  <2> DEFINE a == o[k - 1].start
             z == o[k - 1].slot - 1
  <2>1. a \in Nat \ {0} /\ z \in Nat /\ z <= v
    BY <1>4
  <2>2. SubSeq(b, a, z) = SubSeq(c, a, z)
    <3> HIDE DEF a, z
    <3>0. Len(b) \in Nat /\ Len(c) \in Nat
      BY LenProperties
    <3>1. z \in Int /\ z <= Len(b) /\ z <= Len(c) /\ \A i \in 1 .. z : b[i] = c[i]
      BY <2>1, <3>0
    <3> QED  BY <2>1, <3>1, PartsAgree
  <2> QED  BY <1>1, <1>2, <1>4, <2>2 DEF Level
<1> QED  BY <1>3, <1>4

\* What encloses the payload of a level.
LEMMA Enclosing ==
  ASSUME LenPrefixInv, NEW k \in 1 .. Len(open) + 1, k # 1
  PROVE  /\ k - 1 \in 1 .. Len(open)
         /\ open[k - 1].start \in Nat \ {0} /\ open[k - 1].slot \in Nat \ {0}
         /\ open[k - 1].slot - 1 <= Until(buf, open, k)
<1>1. Len(open) \in Nat /\ Len(buf) \in Nat
  BY OpenFacts
<1>2. k - 1 \in 1 .. Len(open)
  BY <1>1
<1>3. /\ open[k - 1].start \in Nat \ {0} /\ open[k - 1].slot \in Nat \ {0}
      /\ open[k - 1].slot <= Len(buf)
  BY <1>2, OpenFacts
<1>4. CASE k <= Len(open)
  <2>1. k \in 1 .. Len(open) /\ k - 1 < k
    BY <1>1, <1>4
  <2>2. open[k - 1].slot < open[k].start
    BY <1>2, <2>1 DEF LenPrefixInv, SlotsKept
  <2>3. open[k].start \in Nat
    BY <2>1, OpenFacts
  <2>4. Until(buf, open, k) = open[k].start - 1
    BY <1>4 DEF Until
  <2> QED  BY <1>2, <1>3, <2>2, <2>3, <2>4
<1>5. CASE ~ (k <= Len(open))
  <2>1. Until(buf, open, k) = Len(buf)
    BY <1>5 DEF Until
  <2> QED  BY <1>1, <1>2, <1>3, <2>1
<1> QED  BY <1>4, <1>5

\* A level keeps its temporary if the field that is open in it stays where it
\* is and the buffer keeps its bytes up to there.
LEMMA LevelKept ==
  ASSUME LenPrefixInv, LenPrefixInv', NEW k \in 1 .. Len(open), k <= Len(open'),
         open'[k].start = open[k].start,
         k # 1 => open'[k - 1] = open[k - 1],
         open[k].start - 1 <= Len(buf'),
         \A i \in 1 .. open[k].start - 1 : buf[i] = buf'[i]
  PROVE  Level(buf', open', k) = Level(buf, open, k)
<1> DEFINE v == open[k].start - 1
<1>1. buf \in Seq(Byte) /\ buf' \in Seq(Byte)
  BY DEF LenPrefixInv, TypeOK
<1>2. /\ v \in Nat /\ v <= Len(buf) /\ v <= Len(buf') /\ Len(open) \in Nat
      /\ \A i \in 1 .. v : buf[i] = buf'[i]
  <2>1. /\ open[k].start \in Nat \ {0} /\ open[k].slot \in Nat /\ Len(buf) \in Nat
        /\ open[k].start <= open[k].slot /\ open[k].slot <= Len(buf) /\ Len(open) \in Nat
    BY OpenFacts
  <2> QED  BY <2>1
<1>3. Until(buf, open, k) = v /\ Until(buf', open', k) = v
  BY <1>2 DEF Until
<1>4. k \in 1 .. Len(open) + 1 /\ k \in Nat \ {0}
  BY <1>2
<1>5. From(open, k) \in Nat \ {0}
  BY <1>4, LevelBounds
<1>6. k # 1 => /\ open'[k - 1] = open[k - 1]
               /\ open[k - 1].start \in Nat \ {0} /\ open[k - 1].slot \in Nat \ {0}
               /\ open[k - 1].slot - 1 <= v
  <2> HIDE DEF v
  <2> QED  BY <1>3, <1>4, Enclosing
<1> HIDE DEF v
<1>7. v \in Int
  BY <1>2
<1> QED  BY <1>1, <1>2, <1>3, <1>4, <1>5, <1>6, <1>7, LevelAgree

\* A sequence of one element, written as a function.
LEMMA OneElement ==
  ASSUME NEW x
  PROVE  [k \in 1 .. 1 |-> x] = <<x>>
<1> DEFINE f == [k \in 1 .. 1 |-> x]
<1>1. f \in Seq({x}) /\ Len(f) = 1 /\ f[1] = x
  OBVIOUS
<1>2. <<x>> \in Seq({x}) /\ Len(<<x>>) = 1 /\ <<x>>[1] = x
  OBVIOUS
<1> HIDE DEF f
<1>3. f = <<x>>
  BY <1>1, <1>2, SeqEqual
<1> QED  BY <1>3 DEF f

\* The initial buffer is the initial temporary.
LEMMA InitRefines == Init => Nested!Init
<1> SUFFICES ASSUME Init  PROVE Nested!Init
  OBVIOUS
<1>1. Len(open) + 1 = 1 /\ Len(open) = 0 /\ Len(buf) = 0
  BY DEF Init
<1>2. SubSeq(buf, 1, 0) = <<>>
  BY SubSeqEmpty
<1>3. Level(buf, open, 1) = [tag |-> <<>>, packed |-> FALSE, data |-> <<>>]
  <2>1. From(open, 1) = 1 /\ Until(buf, open, 1) = 0
    BY <1>1 DEF From, Until
  <2> QED  BY <1>2, <2>1 DEF Level
<1>4. Temporaries = [k \in 1 .. 1 |-> Level(buf, open, k)]
  BY <1>1 DEF Temporaries
<1>5. Temporaries = <<Level(buf, open, 1)>>
  <2> DEFINE x == Level(buf, open, 1)
  <2>1. Temporaries = [k \in 1 .. 1 |-> x]
    BY <1>4
  <2> HIDE DEF x
  <2>2. Temporaries = <<x>>
    BY <2>1, OneElement
  <2> QED  BY <2>2 DEF x
<1> QED  BY <1>3, <1>5 DEF Nested!Init, Nested!Root, Init

\* The tag of an open field is where its record says.
LEMMA LevelTag ==
  ASSUME NEW b, NEW o, NEW k, k # 1
  PROVE  Level(b, o, k).tag = SubSeq(b, o[k - 1].start, o[k - 1].slot - 1)
<1> DEFINE t == IF k = 1 THEN <<>> ELSE SubSeq(b, o[k - 1].start, o[k - 1].slot - 1)
           p == IF k = 1 THEN FALSE ELSE o[k - 1].packed
           d == SubSeq(b, From(o, k), Until(b, o, k))
<1>1. Level(b, o, k) = [tag |-> t, packed |-> p, data |-> d]
  BY DEF Level
<1>2. t = SubSeq(b, o[k - 1].start, o[k - 1].slot - 1)
  OBVIOUS
<1> HIDE DEF t, p, d
<1>3. Level(b, o, k).tag = t
  BY <1>1
<1> QED  BY <1>2, <1>3

\* Bytes written behind everything else belong to the innermost temporary.
LEMMA LevelAppends ==
  ASSUME NEW b \in Seq(Byte), NEW d \in Seq(Byte), NEW o \in Seq(Field),
         o # <<>> => o[Len(o)].start <= o[Len(o)].slot /\ o[Len(o)].slot <= Len(b)
  PROVE  /\ Level(b \o d, o, Len(o) + 1).tag = Level(b, o, Len(o) + 1).tag
         /\ Level(b \o d, o, Len(o) + 1).packed = Level(b, o, Len(o) + 1).packed
         /\ Level(b \o d, o, Len(o) + 1).data = Level(b, o, Len(o) + 1).data \o d
<1> DEFINE n == Len(o)
           c == b \o d
           u == From(o, n + 1)
<1>1. n \in Nat /\ Len(b) \in Nat /\ Len(d) \in Nat
  BY LenProperties
<1>2. /\ c \in Seq(Byte) /\ Len(c) = Len(b) + Len(d)
      /\ \A i \in 1 .. Len(b) : b[i] = c[i]
  <2>1. /\ c \in Seq(Byte) /\ Len(c) = Len(b) + Len(d)
        /\ \A i \in 1 .. Len(b) + Len(d) : c[i] = IF i <= Len(b) THEN b[i] ELSE d[i - Len(b)]
    BY ConcatProperties
  <2> HIDE DEF c
  <2> QED  BY <1>1, <2>1
<1>3. n # 0 => /\ o[n].start \in Nat \ {0} /\ o[n].slot \in Nat \ {0}
               /\ o[n].start <= o[n].slot /\ o[n].slot <= Len(b)
  <2> SUFFICES ASSUME n # 0  PROVE /\ o[n].start \in Nat \ {0} /\ o[n].slot \in Nat \ {0}
                                   /\ o[n].start <= o[n].slot /\ o[n].slot <= Len(b)
    OBVIOUS
  <2>1. o # <<>>
    BY EmptySeq
  <2>2. o[n] \in Field
    BY <1>1, ElementOfSeq
  <2> QED  BY <2>1, <2>2 DEF Field
<1>4. u \in 1 .. Len(b) + 1
  <2>1. CASE n = 0
    BY <1>1, <2>1 DEF From
  <2>2. CASE n # 0
    <3>1. u = o[n].slot + 1
      BY <1>1, <2>2 DEF From
    <3> QED  BY <1>1, <1>3, <2>2, <3>1
  <2> QED  BY <2>1, <2>2
<1>5. Until(c, o, n + 1) = Len(c) /\ Until(b, o, n + 1) = Len(b)
  BY <1>1 DEF Until
<1>6. SubSeq(c, u, Len(c)) = SubSeq(b, u, Len(b)) \o d
  <2> HIDE DEF u
  <2>1. SubSeq(b \o d, u, Len(b) + Len(d)) = SubSeq(b, u, Len(b)) \o d
    BY <1>4, PartOfConcat
  <2> QED  BY <1>2, <2>1
<1>7. Level(c, o, n + 1).data = Level(b, o, n + 1).data \o d
  BY <1>5, <1>6 DEF Level
<1>8. Level(c, o, n + 1).packed = Level(b, o, n + 1).packed
  BY DEF Level
<1>9. Level(c, o, n + 1).tag = Level(b, o, n + 1).tag
  <2>1. CASE n = 0
    BY <1>1, <2>1 DEF Level
  <2>2. CASE n # 0
    <3> DEFINE a == o[n].start
               z == o[n].slot - 1
    <3>1. /\ a \in Nat \ {0} /\ z \in Int /\ z <= Len(b) /\ z <= Len(c)
          /\ \A i \in 1 .. z : b[i] = c[i]
      <4>1. /\ o[n].start \in Nat \ {0} /\ o[n].slot \in Nat \ {0} /\ o[n].slot <= Len(b)
        BY <1>3, <2>2
      <4>2. o[n].slot - 1 \in Nat /\ o[n].slot - 1 <= Len(b)
        BY <1>1, <4>1
      <4>3. Len(b) <= Len(c) /\ Len(c) \in Nat
        <5> HIDE DEF c
        <5> QED  BY <1>1, <1>2
      <4> HIDE DEF c, z, n
      <4>4. z \in Nat /\ z <= Len(b)
        BY <4>2 DEF z
      <4>5. z <= Len(c)
        BY <1>1, <4>3, <4>4
      <4>6. \A i \in 1 .. z : b[i] = c[i]
        BY <1>1, <1>2, <4>4
      <4> QED  BY <4>1, <4>4, <4>5, <4>6
    <3>2. SubSeq(b, a, z) = SubSeq(c, a, z)
      <4> HIDE DEF a, z, c
      <4> QED  BY <1>2, <3>1, PartsAgree
    <3> DEFINE k == n + 1
    <3>3. k # 1 /\ k - 1 = n
      BY <1>1, <2>2
    <3>4. o[k - 1].start = a /\ o[k - 1].slot - 1 = z
      BY <3>3
    <3> HIDE DEF n, c, a, z, k
    <3>5. /\ Level(c, o, k).tag = SubSeq(c, o[k - 1].start, o[k - 1].slot - 1)
          /\ Level(b, o, k).tag = SubSeq(b, o[k - 1].start, o[k - 1].slot - 1)
      BY ONLY <3>3, LevelTag
    <3>6. Level(c, o, k).tag = Level(b, o, k).tag
      BY ONLY <3>2, <3>4, <3>5
    <3> QED  BY <3>6 DEF k
  <2> QED  BY <2>1, <2>2
<1> QED  BY <1>7, <1>8, <1>9

\* Temporaries of which only the innermost has got more bytes.
LEMMA InnermostAppended ==
  ASSUME TemporariesTyped', NEW t \in Seq(LevelType), NEW d \in Seq(Byte),
         Len(t) = Len(open') + 1,
         \A k \in 1 .. Len(open') : Temporaries'[k] = t[k],
         Temporaries'[Len(t)].tag = t[Len(t)].tag,
         Temporaries'[Len(t)].packed = t[Len(t)].packed,
         Temporaries'[Len(t)].data = t[Len(t)].data \o d
  PROVE  Temporaries' = Nested!Append1(t, d)
<1> DEFINE m == Len(t)
           x == Temporaries'
           r == [t[m] EXCEPT !.data = t[m].data \o d]
           y == [t EXCEPT ![m] = r]
<1>1. x \in Seq(LevelType) /\ Len(x) = m
  BY DEF TemporariesTyped
<1>2. m \in 1 .. m /\ m \in Nat /\ Len(open') \in Nat
  BY DEF TemporariesTyped
<1>3. t[m] \in LevelType /\ x[m] \in LevelType
  BY <1>1, <1>2, ElementOfSeq
<1>4. t[m].data \o d \in Seq(Byte)
  BY <1>3, ConcatProperties DEF LevelType
<1>5. r \in LevelType /\ r.tag = t[m].tag /\ r.packed = t[m].packed /\ r.data = t[m].data \o d
  BY <1>3, <1>4 DEF LevelType
<1>6. x[m] = r
  <2> HIDE DEF x, r, m
  <2>1. x[m].tag = r.tag /\ x[m].packed = r.packed /\ x[m].data = r.data
    BY <1>5 DEF x, m
  <2> QED  BY <1>3, <1>5, <2>1, SameLevel
<1>7. /\ y \in Seq(LevelType) /\ Len(y) = m
      /\ \A k \in 1 .. m : y[k] = IF k = m THEN r ELSE t[k]
  <2> HIDE DEF r
  <2> QED  BY <1>2, <1>5, ExceptSeq
<1>8. \A k \in 1 .. m : x[k] = y[k]
  <2> SUFFICES ASSUME NEW k \in 1 .. m  PROVE x[k] = y[k]
    OBVIOUS
  <2>1. CASE k = m
    BY <1>6, <1>7, <2>1
  <2>2. CASE k # m
    <3>1. k \in 1 .. Len(open')
      BY <1>2, <2>2
    <3>2. x[k] = t[k]
      BY <3>1
    <3> QED  BY <1>7, <2>2, <3>2
  <2> QED  BY <2>1, <2>2
<1>9. x = y
  <2> HIDE DEF x, y, m
  <2> QED  BY <1>1, <1>7, <1>8, SeqEqual
<1> QED  BY <1>9 DEF Nested!Append1

-----------------------------------------------------------------------------
(* Every step is one of NestedBuffers. *)

\* Put appends to the innermost temporary.
LEMMA PutRefines ==
  ASSUME LenPrefixInv, LenPrefixInv', NEW b \in Payload, Put(b)
  PROVE  Nested!Put(b)
<1> DEFINE d == <<b>>
           n == Len(open)
           T == Temporaries
<1>1. /\ buf \in Seq(Byte) /\ b \in Byte /\ buf' = Append(buf, b) /\ open' = open
      /\ open \in Seq(Field) /\ result = Running /\ result' = result
  BY LenPrefixAssumption DEF LenPrefixInv, TypeOK, Put
<1>2. d \in Seq(Byte) /\ Len(buf) \in Nat /\ n \in Nat
  BY <1>1, LenProperties
<1>3. buf' = buf \o d
  BY <1>1
<1>4. /\ Len(buf') = Len(buf) + 1
      /\ \A i \in 1 .. Len(buf) : buf[i] = buf'[i]
  BY <1>1, AppendProperties
<1>5. TemporariesTyped /\ TemporariesTyped'
  BY TemporariesFacts, TemporariesNext
<1>6. T \in Seq(LevelType) /\ Len(T) = n + 1 /\ \A k \in 1 .. n + 1 : T[k] = Level(buf, open, k)
  BY <1>5 DEF TemporariesTyped
<1>7. \A k \in 1 .. n + 1 : T'[k] = Level(buf', open, k)
  BY <1>1, <1>5 DEF TemporariesTyped
<1>8. ASSUME NEW k \in 1 .. Len(open')  PROVE T'[k] = T[k]
  <2>1. k \in 1 .. Len(open) /\ k \in 1 .. n + 1
    BY <1>1, <1>2
  <2>2. open[k].start \in Nat /\ open[k].start <= open[k].slot /\ open[k].slot <= Len(buf)
        /\ open[k].slot \in Nat
    BY <2>1, OpenFacts
  <2>3. /\ open[k].start - 1 <= Len(buf')
        /\ \A i \in 1 .. open[k].start - 1 : buf[i] = buf'[i]
    BY <1>2, <1>4, <2>2
  <2>4. /\ k <= Len(open') /\ open'[k].start = open[k].start
        /\ k # 1 => open'[k - 1] = open[k - 1]
    BY <1>1, <1>2, <2>1
  <2>5. Level(buf', open', k) = Level(buf, open, k)
    BY ONLY LenPrefixInv, LenPrefixInv', <2>1, <2>3, <2>4, LevelKept
  <2> QED  BY <1>1, <1>6, <1>7, <2>1, <2>5
<1>9. /\ Level(buf', open, n + 1).tag = Level(buf, open, n + 1).tag
      /\ Level(buf', open, n + 1).packed = Level(buf, open, n + 1).packed
      /\ Level(buf', open, n + 1).data = Level(buf, open, n + 1).data \o d
  <2>1. open # <<>> => open[Len(open)].start <= open[Len(open)].slot /\ open[Len(open)].slot <= Len(buf)
    BY OpenFacts
  <2> HIDE DEF d
  <2> QED  BY <1>1, <1>2, <1>3, <2>1, LevelAppends
<1>10. /\ T'[n + 1].tag = T[n + 1].tag /\ T'[n + 1].packed = T[n + 1].packed
       /\ T'[n + 1].data = T[n + 1].data \o d
  <2>1. n + 1 \in 1 .. n + 1
    BY <1>2
  <2>2. T'[n + 1] = Level(buf', open, n + 1) /\ T[n + 1] = Level(buf, open, n + 1)
    BY <1>6, <1>7, <2>1
  <2> QED  BY <1>9, <2>2
<1>11. T' = Nested!Append1(T, d)
  <2>1. Len(T) = Len(open') + 1 /\ Len(T) = n + 1
    BY <1>1, <1>6
  <2> HIDE DEF d, n
  <2>2. /\ Temporaries'[Len(T)].tag = T[Len(T)].tag /\ Temporaries'[Len(T)].packed = T[Len(T)].packed
        /\ Temporaries'[Len(T)].data = T[Len(T)].data \o d
    BY <1>10, <2>1
  <2> HIDE DEF T
  <2>3. \A k \in 1 .. Len(open') : Temporaries'[k] = T[k]
    BY <1>8 DEF T
  <2> QED  BY <1>2, <1>5, <1>6, <2>1, <2>2, <2>3, InnermostAppended DEF T
<1> QED  BY <1>1, <1>11 DEF Nested!Put

\* Begin opens a temporary.
LEMMA BeginRefines ==
  ASSUME LenPrefixInv, LenPrefixInv', NEW tag \in Tags, NEW packed \in BOOLEAN, Begin(tag, packed)
  PROVE  Nested!Open(tag, packed)
<1> DEFINE n == Len(open)
           T == Temporaries
           f == [start |-> Len(buf) + 1, slot |-> Len(buf) + Len(tag) + 1, packed |-> packed]
           r == [tag |-> tag, packed |-> packed, data |-> <<>>]
           A == Append(T, r)
<1>1. /\ buf \in Seq(Byte) /\ tag \in Seq(Byte) /\ open \in Seq(Field)
      /\ buf' = buf \o tag \o <<0>> /\ open' = Append(open, f)
      /\ result = Running /\ result' = result
      /\ open # <<>> => ~ open[n].packed
  BY LenPrefixAssumption DEF LenPrefixInv, TypeOK, Begin, InPacked, Innermost
<1>2. Len(buf) \in Nat /\ Len(tag) \in Nat /\ n \in Nat
  BY <1>1, LenProperties
<1>3. /\ buf' \in Seq(Byte) /\ Len(buf') = Len(buf) + Len(tag) + 1
      /\ \A i \in 1 .. Len(buf) : buf[i] = buf'[i]
      /\ SubSeq(buf', Len(buf) + 1, Len(buf) + Len(tag)) = tag
  BY <1>1, BeginAppends
<1>4. f \in Field /\ f.start = Len(buf) + 1 /\ f.slot = Len(buf) + Len(tag) + 1 /\ f.packed = packed
  BY <1>2 DEF Field
<1>5. r \in LevelType /\ r.tag = tag /\ r.packed = packed /\ r.data = <<>>
  <2>1. <<>> \in Seq(Byte)
    BY EmptySeq
  <2> QED  BY <1>1, <2>1 DEF LevelType
<1> HIDE DEF f, r
<1>6. /\ open' \in Seq(Field) /\ Len(open') = n + 1
      /\ \A i \in 1 .. n : open'[i] = open[i]
      /\ open'[n + 1] = f
  BY <1>1, <1>4, AppendProperties
<1>7. TemporariesTyped /\ TemporariesTyped'
  BY TemporariesFacts, TemporariesNext
<1>8. T \in Seq(LevelType) /\ Len(T) = n + 1 /\ \A k \in 1 .. n + 1 : T[k] = Level(buf, open, k)
  BY <1>7 DEF TemporariesTyped
<1>9. T' \in Seq(LevelType) /\ Len(T') = n + 2 /\ \A k \in 1 .. n + 2 : T'[k] = Level(buf', open', k)
  <2>1. Len(open') + 1 = n + 2
    BY <1>2, <1>6
  <2> QED  BY <1>7, <2>1 DEF TemporariesTyped
<1>10. ASSUME NEW k \in 1 .. n + 1  PROVE Level(buf', open', k) = Level(buf, open, k)
  <2>1. k \in Nat /\ k \in Nat \ {0} /\ k \in 1 .. Len(open) + 1
    BY <1>2
  <2>2. CASE k \in 1 .. n
    <3>1. k \in 1 .. Len(open)
      BY <2>2
    <3>2. /\ open[k].start \in Nat /\ open[k].start <= open[k].slot /\ open[k].slot <= Len(buf)
          /\ open[k].slot \in Nat
      BY <3>1, OpenFacts
    <3>3. /\ open[k].start - 1 <= Len(buf')
          /\ \A i \in 1 .. open[k].start - 1 : buf[i] = buf'[i]
      BY <1>2, <1>3, <3>2, SMTT(30)
    <3>4. k # 1 => k - 1 \in 1 .. n
      BY <1>2, <2>2
    <3>5. /\ k <= Len(open') /\ open'[k].start = open[k].start
          /\ k # 1 => open'[k - 1] = open[k - 1]
      BY <1>2, <1>6, <2>1, <2>2, <3>4
    <3> QED  BY ONLY LenPrefixInv, LenPrefixInv', <3>1, <3>3, <3>5, LevelKept
  <2>3. CASE k = n + 1
    <3>1. Until(buf, open, k) = Len(buf)
      BY <1>2, <2>3 DEF Until
    <3>2. Until(buf', open', k) = Len(buf)
      <4>1. k <= Len(open') /\ open'[k].start - 1 = Len(buf)
        BY <1>2, <1>4, <1>6, <2>3
      <4> QED  BY <4>1 DEF Until
    <3>3. k # 1 => /\ open'[k - 1] = open[k - 1]
                   /\ open[k - 1].start \in Nat \ {0} /\ open[k - 1].slot \in Nat \ {0}
                   /\ open[k - 1].slot - 1 <= Len(buf)
      <4> SUFFICES ASSUME k # 1  PROVE /\ open'[k - 1] = open[k - 1]
                   /\ open[k - 1].start \in Nat \ {0} /\ open[k - 1].slot \in Nat \ {0}
                   /\ open[k - 1].slot - 1 <= Len(buf)
        OBVIOUS
      <4>1. /\ k - 1 \in 1 .. Len(open)
            /\ open[k - 1].start \in Nat \ {0} /\ open[k - 1].slot \in Nat \ {0}
            /\ open[k - 1].slot - 1 <= Len(buf)
        BY <2>1, <3>1, Enclosing
      <4> QED  BY <1>6, <4>1
    <3>4. From(open, k) \in Nat \ {0}
      BY <2>1, LevelBounds
    <3>5. Len(buf) \in Int /\ Len(buf) <= Len(buf) /\ Len(buf) <= Len(buf')
      BY <1>2, <1>3
    <3>6. \A i \in 1 .. Len(buf) : buf[i] = buf'[i]
      BY <1>3
    <3>7. buf \in Seq(Byte) /\ buf' \in Seq(Byte) /\ k \in Nat \ {0}
      BY <1>1, <1>3, <2>1
    <3> QED  BY ONLY <3>1, <3>2, <3>3, <3>4, <3>5, <3>6, <3>7, LevelAgree, SMTT(30)
  <2> QED  BY <1>2, <2>2, <2>3
<1>11. Level(buf', open', n + 2) = r
  <2> DEFINE k == n + 2
             x == Level(buf', open', k)
  <2>1. k # 1 /\ k - 1 = n + 1 /\ k \in 1 .. n + 2 /\ ~ (k <= Len(open'))
    BY <1>2, <1>6
  <2>2. open'[k - 1] = f
    BY <1>6, <2>1
  <2> HIDE DEF k
  <2>3. x.tag = tag
    <3>1. Level(buf', open', k).tag = SubSeq(buf', open'[k - 1].start, open'[k - 1].slot - 1)
      BY <2>1, LevelTag
    <3>2. open'[k - 1].start = Len(buf) + 1 /\ open'[k - 1].slot - 1 = Len(buf) + Len(tag)
      BY <1>2, <1>4, <2>2
    <3> QED  BY <1>3, <3>1, <3>2
  <2>4. x.packed = packed
    BY <1>4, <2>1, <2>2 DEF Level
  <2>5. x.data = <<>>
    <3>1. From(open', k) = Len(buf) + Len(tag) + 2
      BY <1>2, <1>4, <2>1, <2>2 DEF From
    <3>2. Until(buf', open', k) = Len(buf) + Len(tag) + 1
      BY <1>3, <2>1 DEF Until
    <3>3. SubSeq(buf', From(open', k), Until(buf', open', k)) = <<>>
      <4> DEFINE g == From(open', k)
                 h == Until(buf', open', k)
      <4>1. g \in Int /\ h \in Int /\ h < g
        BY <1>2, <3>1, <3>2
      <4> HIDE DEF g, h
      <4> QED  BY <4>1, SubSeqEmpty DEF g, h
    <3> QED  BY <3>3 DEF Level
  <2>6. x \in LevelType
    <3>1. x = T'[k]
      BY <1>9, <2>1
    <3>2. k \in 1 .. Len(T')
      BY <1>9, <2>1
    <3> HIDE DEF x, T
    <3> QED  BY <1>9, <3>1, <3>2, ElementOfSeq
  <2> HIDE DEF x
  <2>7. x = r
    BY <1>5, <2>3, <2>4, <2>5, <2>6, SameLevel
  <2> QED  BY <2>7 DEF x, k
<1>12. /\ A \in Seq(LevelType) /\ Len(A) = n + 2
       /\ \A k \in 1 .. n + 1 : A[k] = T[k]
       /\ A[n + 2] = r
  <2> HIDE DEF T
  <2>1. /\ A \in Seq(LevelType) /\ Len(A) = Len(T) + 1
        /\ \A i \in 1 .. Len(T) : A[i] = T[i]
        /\ A[Len(T) + 1] = r
    BY <1>5, <1>8, AppendProperties
  <2>2. Len(T) + 1 = n + 2
    BY <1>2, <1>8
  <2> QED  BY <1>8, <2>1, <2>2
<1>13. \A k \in 1 .. n + 2 : T'[k] = A[k]
  <2> SUFFICES ASSUME NEW k \in 1 .. n + 2  PROVE T'[k] = A[k]
    OBVIOUS
  <2>1. CASE k \in 1 .. n + 1
    BY <1>8, <1>9, <1>10, <1>12, <2>1
  <2>2. CASE k = n + 2
    BY <1>9, <1>11, <1>12, <2>2
  <2>3. k \in 1 .. n + 1 \/ k = n + 2
    BY <1>2
  <2> HIDE DEF n, T, A
  <2> QED  BY <2>1, <2>2, <2>3
<1>14. T' = A
  <2> HIDE DEF T, A
  <2> QED  BY <1>9, <1>12, <1>13, SeqEqual
<1>15. ~ T[Len(T)].packed
  <2>1. Len(T) = n + 1 /\ n + 1 \in 1 .. n + 1
    BY <1>2, <1>8
  <2>2. T[Len(T)].packed = Level(buf, open, n + 1).packed
    BY <1>8, <2>1
  <2>3. CASE n = 0
    BY <2>2, <2>3 DEF Level
  <2>4. CASE n # 0
    <3>1. open # <<>>
      BY <1>1, <2>4, EmptySeq
    <3>2. n + 1 # 1 /\ n + 1 - 1 = n
      BY <1>2, <2>4
    <3>3. Level(buf, open, n + 1).packed = open[n].packed
      BY <3>2 DEF Level
    <3> QED  BY <1>1, <2>2, <3>1, <3>3
  <2> QED  BY <2>3, <2>4
<1> QED  BY <1>1, <1>14, <1>15 DEF Nested!Open, Nested!Innermost, r

\* Closing a field appends what is left of it to the temporary around it.
LEMMA CloseAppends ==
  ASSUME LenPrefixInv, LenPrefixInv', open # <<>>, open' = Outer, NEW d \in Seq(Byte),
         buf' = SubSeq(buf, 1, Innermost.start - 1) \o d
  PROVE  Temporaries' = Nested!Append1(SubSeq(Temporaries, 1, Len(Temporaries) - 1), d)
<1> DEFINE n == Len(open)
           v == Innermost.start - 1
           b == SubSeq(buf, 1, v)
           T == Temporaries
           t == SubSeq(T, 1, n)
<1>1. buf \in Seq(Byte) /\ buf' \in Seq(Byte) /\ open \in Seq(Field)
  BY DEF LenPrefixInv, TypeOK
<1>2. /\ n \in Nat \ {0} /\ n \in 1 .. Len(open) /\ Len(buf) \in Nat
      /\ Innermost = open[n] /\ Innermost.start \in Nat \ {0} /\ Innermost.slot \in Nat \ {0}
      /\ v \in Nat /\ v <= Len(buf) /\ open[n].start - 1 = v
  <2>1. n \in Nat \ {0} /\ n \in 1 .. Len(open) /\ Len(buf) \in Nat
    BY <1>1, OpenFacts, EmptySeq
  <2>2. /\ open[n].start \in Nat \ {0} /\ open[n].slot \in Nat \ {0}
        /\ open[n].start <= open[n].slot /\ open[n].slot <= Len(buf)
    BY <2>1, OpenFacts
  <2> QED  BY <2>1, <2>2 DEF Innermost
<1>3. /\ Outer \in Seq(Field) /\ Len(Outer) = n - 1
      /\ \A k \in 1 .. n - 1 : Outer[k] = open[k] /\ open[k].slot < Innermost.start
  BY OuterFacts
<1>4. /\ b \in Seq(Byte) /\ Len(b) = v
      /\ \A i \in 1 .. v : b[i] = buf[i]
  <2> HIDE DEF v
  <2>1. /\ b \in Seq(Byte) /\ Len(b) = IF 1 <= v THEN v - 1 + 1 ELSE 0
        /\ \A i \in 1 .. v - 1 + 1 : b[i] = buf[1 + i - 1]
    BY <1>1, <1>2, Part
  <2> QED  BY <1>2, <2>1
<1>5. /\ Len(buf') >= v
      /\ \A i \in 1 .. v : buf[i] = buf'[i]
  <2> HIDE DEF b, v
  <2>1. buf' = b \o d
    BY DEF b, v
  <2> DEFINE c == b \o d
  <2>2. /\ Len(c) = Len(b) + Len(d)
        /\ \A i \in 1 .. Len(b) + Len(d) : c[i] = IF i <= Len(b) THEN b[i] ELSE d[i - Len(b)]
    BY <1>4, ConcatProperties
  <2>3. Len(d) \in Nat
    BY LenProperties
  <2>4. buf' = c
    BY <2>1
  <2> HIDE DEF c
  <2> QED  BY <1>2, <1>4, <2>2, <2>3, <2>4
<1>6. TemporariesTyped /\ TemporariesTyped'
  BY TemporariesFacts, TemporariesNext
<1>7. T \in Seq(LevelType) /\ Len(T) = n + 1 /\ \A k \in 1 .. n + 1 : T[k] = Level(buf, open, k)
  BY <1>6 DEF TemporariesTyped
<1>8. \A k \in 1 .. n : T'[k] = Level(buf', Outer, k)
  <2>1. Len(open') + 1 = n
    BY <1>2, <1>3
  <2> QED  BY <1>6, <2>1 DEF TemporariesTyped
<1>9. t \in Seq(LevelType) /\ Len(t) = n /\ \A k \in 1 .. n : t[k] = T[k]
  <2>1. \A i \in 1 .. n : T[i] \in LevelType
    <3> SUFFICES ASSUME NEW i \in 1 .. n  PROVE T[i] \in LevelType
      OBVIOUS
    <3>1. i \in 1 .. Len(T)
      BY <1>2, <1>7
    <3> HIDE DEF T
    <3> QED  BY <1>7, <3>1, ElementOfSeq
  <2> HIDE DEF T, n, t
  <2>2. /\ SubSeq(T, 1, n) \in Seq(LevelType) /\ Len(SubSeq(T, 1, n)) = IF 1 <= n THEN n - 1 + 1 ELSE 0
        /\ \A i \in 1 .. n - 1 + 1 : SubSeq(T, 1, n)[i] = T[1 + i - 1]
    BY <1>2, <2>1, SubSeqProperties
  <2> QED  BY <1>2, <2>2 DEF t
<1>10. ASSUME NEW k \in 1 .. n - 1  PROVE T'[k] = t[k]
  <2>1. k \in 1 .. Len(open) /\ k \in 1 .. n /\ k \in 1 .. n + 1 /\ n - 1 = Len(open')
        /\ open[k].slot < Innermost.start
    BY <1>2, <1>3
  <2>2. /\ open[k].start \in Nat /\ open[k].start <= open[k].slot /\ open[k].slot \in Nat
    BY <2>1, OpenFacts
  <2>3. open[k].start - 1 <= v
    BY <1>2, <2>1, <2>2, SMTT(30)
  <2>4. /\ open[k].start - 1 <= Len(buf')
        /\ \A i \in 1 .. open[k].start - 1 : buf[i] = buf'[i]
    <3>1. Len(buf') \in Nat
      BY <1>1, LenProperties
    <3> DEFINE s == open[k].start
    <3>2. s \in Nat /\ s - 1 <= v /\ v \in Nat
      BY <1>2, <2>2, <2>3
    <3> HIDE DEF s, v, n
    <3>3. Len(buf') >= v /\ \A i \in 1 .. v : buf[i] = buf'[i]
      BY <1>5
    <3>4. s - 1 <= Len(buf')
      BY ONLY <3>1, <3>2, <3>3
    <3>5. \A i \in 1 .. s - 1 : buf[i] = buf'[i]
      BY ONLY <3>2, <3>3
    <3> QED  BY <3>4, <3>5 DEF s
  <2>5. k # 1 => k - 1 \in 1 .. n - 1
    BY <1>2
  <2>6. /\ k <= Len(open') /\ open'[k].start = open[k].start
        /\ k # 1 => open'[k - 1] = open[k - 1]
    BY <1>2, <1>3, <2>1, <2>5, SMTT(30)
  <2>7. Level(buf', open', k) = Level(buf, open, k)
    BY ONLY LenPrefixInv, LenPrefixInv', <2>1, <2>4, <2>6, LevelKept
  <2> QED  BY <1>7, <1>8, <1>9, <2>1, <2>7
<1>11. Level(b, Outer, n) = Level(buf, open, n)
  <2>1. Until(buf, open, n) = v
    BY <1>2 DEF Until
  <2>2. Until(b, Outer, n) = v
    <3>1. ~ (n <= Len(Outer))
      BY <1>2, <1>3
    <3> QED  BY <1>4, <3>1 DEF Until
  <2>3. n \in 1 .. Len(open) + 1
    BY <1>2
  <2>4. From(open, n) \in Nat \ {0}
    BY <2>3, LevelBounds
  <2>5. n # 1 => /\ Outer[n - 1] = open[n - 1]
                 /\ open[n - 1].start \in Nat \ {0} /\ open[n - 1].slot \in Nat \ {0}
                 /\ open[n - 1].slot - 1 <= v
    <3> SUFFICES ASSUME n # 1  PROVE /\ Outer[n - 1] = open[n - 1]
                 /\ open[n - 1].start \in Nat \ {0} /\ open[n - 1].slot \in Nat \ {0}
                 /\ open[n - 1].slot - 1 <= v
      OBVIOUS
    <3>1. n - 1 \in 1 .. n - 1
      <4>1. n \in Nat \ {0} /\ n # 1
        BY <1>2
      <4> HIDE DEF n
      <4> QED  BY <4>1
    <3>2. /\ open[n - 1].start \in Nat \ {0} /\ open[n - 1].slot \in Nat \ {0}
          /\ open[n - 1].slot - 1 <= Until(buf, open, n)
      BY <2>3, Enclosing
    <3> HIDE DEF v
    <3> QED  BY <1>3, <2>1, <3>1, <3>2
  <2>6. v \in Int /\ v <= Len(buf) /\ v <= Len(b)
    BY <1>2, <1>4
  <2>7. \A i \in 1 .. v : buf[i] = b[i]
    BY <1>4
  <2> HIDE DEF n, v, b
  <2> QED  BY ONLY <1>1, <1>2, <1>4, <2>1, <2>2, <2>4, <2>5, <2>6, <2>7, LevelAgree, SMTT(30)
<1>12. /\ T'[n].tag = t[n].tag /\ T'[n].packed = t[n].packed /\ T'[n].data = t[n].data \o d
  <2>1. n \in 1 .. n /\ n \in 1 .. n + 1 /\ Len(Outer) + 1 = n
    BY <1>2, <1>3
  <2>2. Outer # <<>> => Outer[Len(Outer)].start <= Outer[Len(Outer)].slot /\ Outer[Len(Outer)].slot <= Len(b)
    <3> SUFFICES ASSUME Outer # <<>>
                 PROVE  Outer[Len(Outer)].start <= Outer[Len(Outer)].slot /\ Outer[Len(Outer)].slot <= Len(b)
      OBVIOUS
    <3> DEFINE m == n - 1
    <3>1. m = Len(Outer) /\ m \in Nat \ {0}
      BY <1>3, EmptySeq
    <3>2. m \in 1 .. n - 1 /\ m \in 1 .. Len(open)
      BY <1>2, <3>1
    <3>3. Outer[m] = open[m] /\ open[m].slot < Innermost.start
      BY <1>3, <3>2
    <3>4. open[m].start <= open[m].slot /\ open[m].slot \in Nat
      BY <3>2, OpenFacts
    <3>5. open[m].slot <= v
      BY <1>2, <3>3, <3>4
    <3> HIDE DEF m, v, b
    <3> QED  BY <1>4, <3>1, <3>3, <3>4, <3>5
  <2>3. /\ Level(b \o d, Outer, n).tag = Level(b, Outer, n).tag
        /\ Level(b \o d, Outer, n).packed = Level(b, Outer, n).packed
        /\ Level(b \o d, Outer, n).data = Level(b, Outer, n).data \o d
    <3> HIDE DEF b, n
    <3>1. /\ Level(b \o d, Outer, Len(Outer) + 1).tag = Level(b, Outer, Len(Outer) + 1).tag
          /\ Level(b \o d, Outer, Len(Outer) + 1).packed = Level(b, Outer, Len(Outer) + 1).packed
          /\ Level(b \o d, Outer, Len(Outer) + 1).data = Level(b, Outer, Len(Outer) + 1).data \o d
      BY <1>3, <1>4, <2>2, LevelAppends
    <3> QED  BY <2>1, <3>1
  <2>4. T'[n] = Level(b \o d, Outer, n) /\ t[n] = Level(b, Outer, n)
    BY <1>7, <1>8, <1>9, <1>11, <2>1
  <2> QED  BY <2>3, <2>4
<1>13. T' = Nested!Append1(t, d)
  <2>1. Len(t) = Len(open') + 1 /\ Len(open') = n - 1
    BY <1>2, <1>3, <1>9
  <2>2. \A k \in 1 .. Len(open') : Temporaries'[k] = t[k]
    BY <1>10, <2>1
  <2>3. /\ Temporaries'[Len(t)].tag = t[Len(t)].tag /\ Temporaries'[Len(t)].packed = t[Len(t)].packed
        /\ Temporaries'[Len(t)].data = t[Len(t)].data \o d
    BY <1>9, <1>12
  <2> HIDE DEF t
  <2> QED  BY <1>6, <1>9, <2>1, <2>2, <2>3, InnermostAppended
<1>14. Len(T) - 1 = n
  BY <1>2, <1>7
<1> QED  BY <1>13, <1>14

\* Both specifications write lengths alike.
LEMMA SameVarint ==
  ASSUME NEW v
  PROVE  Nested!WriteVarint(v) = WriteVarint(v)
  BY DEF Nested!WriteVarint, WriteVarint, Nested!VarintLoop, VarintLoop, Nested!Base, Base

\* What the innermost open field has so far.
LEMMA InnermostLevel ==
  ASSUME LenPrefixInv, open # <<>>
  PROVE  /\ Len(Temporaries) > 1
         /\ Nested!Innermost.tag = SubSeq(buf, Innermost.start, Innermost.slot - 1)
         /\ Nested!Innermost.packed = Innermost.packed
         /\ Nested!Innermost.data = SubSeq(buf, Innermost.slot + 1, Len(buf))
<1> DEFINE n == Len(open)
           k == n + 1
           T == Temporaries
<1>1. n \in Nat \ {0} /\ Len(buf) \in Nat
  <2>1. open \in Seq(Field)
    BY DEF LenPrefixInv, TypeOK
  <2> QED  BY <2>1, EmptySeq, OpenFacts
<1>2. TemporariesTyped
  BY TemporariesFacts
<1>3. Len(T) = k /\ T[k] = Level(buf, open, k)
  <2>1. k \in 1 .. Len(open) + 1
    BY <1>1
  <2> QED  BY <1>2, <2>1 DEF TemporariesTyped
<1>4. k # 1 /\ k - 1 = n /\ ~ (k <= n) /\ k > 1
  BY <1>1
<1>5. Nested!Innermost = Level(buf, open, k)
  BY <1>3 DEF Nested!Innermost
<1>6. Innermost = open[n]
  BY DEF Innermost
<1> HIDE DEF k, T
<1>7. Level(buf, open, k).tag = SubSeq(buf, Innermost.start, Innermost.slot - 1)
  <2>1. Level(buf, open, k).tag = SubSeq(buf, open[k - 1].start, open[k - 1].slot - 1)
    BY <1>4, LevelTag
  <2>2. open[k - 1] = Innermost
    BY <1>4, <1>6
  <2> QED  BY <2>1, <2>2
<1>8. Level(buf, open, k).packed = Innermost.packed
  BY <1>4, <1>6 DEF Level
<1>9. Level(buf, open, k).data = SubSeq(buf, Innermost.slot + 1, Len(buf))
  <2>1. From(open, k) = Innermost.slot + 1 /\ Until(buf, open, k) = Len(buf)
    BY <1>4, <1>6 DEF From, Until
  <2> QED  BY <2>1 DEF Level
<1>10. Len(Temporaries) > 1
  BY <1>3, <1>4 DEF T
<1> QED  BY <1>5, <1>7, <1>8, <1>9, <1>10

\* Finish closes the temporary: with the tag and the length, the payload goes
\* to the one around it.
LEMMA FinishRefines ==
  ASSUME LenPrefixInv, LenPrefixInv', Finish
  PROVE  Nested!Close
<1> DEFINE n == Len(open)
           a == Innermost.start
           z == Innermost.slot
           front == SubSeq(buf, 1, a - 1)
           tag == SubSeq(buf, a, z - 1)
           w == WriteVarint(Len(buf) - z)
           data == SubSeq(buf, z + 1, Len(buf))
<1>1. /\ buf \in Seq(Byte) /\ Len(buf) <= MaxLen /\ open # <<>> /\ open' = Outer
      /\ result = Running /\ result' = result
      /\ buf' = FinishLenPrefix(buf, z)
      /\ Innermost.packed => Len(buf) # z
  BY DEF LenPrefixInv, TypeOK, Finish
<1>2. /\ Len(buf) \in Nat /\ a \in Nat \ {0} /\ z \in Nat \ {0} /\ a <= z /\ z <= Len(buf)
  BY <1>1, OpenFacts DEF Innermost
<1> HIDE DEF a, z
<1>3. /\ front \in Seq(Byte) /\ tag \in Seq(Byte) /\ data \in Seq(Byte)
      /\ Len(data) = Len(buf) - z
  <2>1. front \in Seq(Byte)
    BY <1>1, <1>2, Part
  <2>2. tag \in Seq(Byte)
    BY <1>1, <1>2, Part
  <2>3. data \in Seq(Byte) /\ Len(data) = IF z + 1 <= Len(buf) THEN Len(buf) - (z + 1) + 1 ELSE 0
    BY <1>1, <1>2, Part
  <2> QED  BY <1>2, <2>1, <2>2, <2>3
<1>4. w \in Seq(Byte)
  <2> DEFINE m == Len(buf) - z
  <2>1. m \in 0 .. MaxLen
    BY <1>1, <1>2, LenPrefixAssumption
  <2> HIDE DEF m
  <2>2. WriteVarint(m) \in Seq(Byte)
    BY <2>1, LengthBytes
  <2> QED  BY <2>2 DEF m
<1>5. SubSeq(buf, 1, z - 1) = front \o tag
  <2> DEFINE p == a - 1
             q == z - 1
  <2>1. 1 \in 1 .. Len(buf) + 1 /\ p \in 1 - 1 .. Len(buf) /\ q \in p .. Len(buf) /\ p + 1 = a
    BY <1>2
  <2> HIDE DEF p, q
  <2>2. SubSeq(buf, 1, p) \o SubSeq(buf, p + 1, q) = SubSeq(buf, 1, q)
    BY <1>1, <2>1, ConcatAdjacentSubSeq
  <2> QED  BY <2>1, <2>2 DEF p, q
<1>6. buf' = ((front \o tag) \o w) \o data
  <2>1. z \in 1 .. Len(buf)
    BY <1>2
  <2>2. FinishLenPrefix(buf, z) = (SubSeq(buf, 1, z - 1) \o w) \o data
    BY <1>1, <2>1, FinishWritesLength
  <2>3. buf' = FinishLenPrefix(buf, z)
    BY <1>1
  <2> HIDE DEF w, data, front, tag
  <2> QED  BY ONLY <1>5, <2>2, <2>3
<1> DEFINE d == tag \o w \o data
<1>7. buf' = front \o d /\ d \in Seq(Byte)
  <2> HIDE DEF front, tag, w, data
  <2> DEFINE e == tag \o w
  <2>1. e \in Seq(Byte)
    BY <1>3, <1>4, ConcatProperties
  <2>2. (front \o tag) \o w = front \o e
    BY <1>3, <1>4, ConcatAssociative, SMTT(30)
  <2> HIDE DEF e
  <2>3. (front \o e) \o data = front \o (e \o data)
    BY <1>3, <2>1, ConcatAssociative, SMTT(30)
  <2>4. e \o data \in Seq(Byte)
    BY <1>3, <2>1, ConcatProperties
  <2> QED  BY <1>6, <2>2, <2>3, <2>4 DEF e
<1>8. /\ Len(Temporaries) > 1
      /\ Nested!Innermost.tag = tag /\ Nested!Innermost.packed = Innermost.packed
      /\ Nested!Innermost.data = data
  BY <1>1, InnermostLevel DEF a, z
<1>9. Nested!Field(Nested!Innermost) = d
  <2>1. ~ (Innermost.packed /\ data = <<>>)
    <3>1. Innermost.packed => Len(buf) # z
      BY <1>1
    <3> HIDE DEF data
    <3>2. Innermost.packed => Len(data) # 0
      BY <1>2, <1>3, <3>1
    <3> QED  BY <3>2, EmptySeq
  <2>2. Nested!WriteVarint(Len(data)) = w
    BY <1>3, SameVarint
  <2> HIDE DEF data, tag, w
  <2> QED  BY <1>8, <2>1, <2>2 DEF Nested!Field
<1>10. Temporaries' = Nested!Append1(SubSeq(Temporaries, 1, Len(Temporaries) - 1), d)
  <2> HIDE DEF d
  <2> QED  BY <1>1, <1>7, CloseAppends DEF a
<1> QED  BY <1>1, <1>8, <1>9, <1>10 DEF Nested!Close

\* RollBack closes the temporary of an empty packed list.
LEMMA RollBackRefines ==
  ASSUME LenPrefixInv, LenPrefixInv', RollBack
  PROVE  Nested!Close
<1> DEFINE a == Innermost.start
           z == Innermost.slot
           front == SubSeq(buf, 1, a - 1)
           e == <<>>
<1>1. /\ buf \in Seq(Byte) /\ open # <<>> /\ open' = Outer
      /\ result = Running /\ result' = result
      /\ buf' = front /\ Innermost.packed /\ Len(buf) = z
  BY DEF LenPrefixInv, TypeOK, RollBack
<1>2. Len(buf) \in Nat /\ a \in Nat \ {0} /\ z \in Nat \ {0} /\ a <= z
  BY <1>1, OpenFacts DEF Innermost
<1> HIDE DEF a, z
<1>3. front \in Seq(Byte)
  BY <1>1, <1>2, Part
<1>4. e \in Seq(Byte)
  BY EmptySeq
<1>5. buf' = front \o e
  <2> HIDE DEF front
  <2> QED  BY <1>1, <1>3, ConcatEmptySeq
<1>6. /\ Len(Temporaries) > 1
      /\ Nested!Innermost.packed = Innermost.packed
      /\ Nested!Innermost.data = SubSeq(buf, z + 1, Len(buf))
  BY <1>1, InnermostLevel DEF z
<1>7. SubSeq(buf, z + 1, Len(buf)) = <<>>
  <2>1. z + 1 \in Int /\ Len(buf) \in Int /\ Len(buf) < z + 1
    BY <1>1, <1>2
  <2> QED  BY <2>1, SubSeqEmpty
<1>8. Nested!Field(Nested!Innermost) = e
  BY <1>1, <1>6, <1>7 DEF Nested!Field
<1>9. Temporaries' = Nested!Append1(SubSeq(Temporaries, 1, Len(Temporaries) - 1), e)
  <2> HIDE DEF e
  <2> QED  BY <1>1, <1>4, <1>5, CloseAppends DEF a
<1> QED  BY <1>1, <1>6, <1>8, <1>9 DEF Nested!Close

\* Return hands out the only temporary left.
LEMMA ReturnRefines ==
  ASSUME LenPrefixInv, Return
  PROVE  Nested!Return
<1>1. /\ buf \in Seq(Byte) /\ open = <<>> /\ result = Running /\ result' = buf
      /\ buf' = buf /\ open' = open
  BY DEF LenPrefixInv, TypeOK, Return
<1>2. Len(open) = 0
  BY <1>1
<1>3. Len(Temporaries) = 1 /\ Temporaries[1] = Level(buf, open, 1)
  BY <1>2, TemporariesFacts DEF TemporariesTyped
<1>4. From(open, 1) = 1 /\ Until(buf, open, 1) = Len(buf)
  BY <1>2 DEF From, Until
<1>5. Level(buf, open, 1).data = SubSeq(buf, 1, Len(buf))
  BY <1>4 DEF Level
<1>6. SubSeq(buf, 1, Len(buf)) = buf
  BY <1>1, SubSeqFull
<1>7. Temporaries' = Temporaries
  BY <1>1 DEF Temporaries, Level, From, Until
<1> QED  BY <1>1, <1>3, <1>5, <1>6, <1>7 DEF Nested!Return

\* Every step of LenPrefix is a step of NestedBuffers, or leaves the
\* temporaries and the result as they are.
LEMMA StepRefines ==
  ASSUME LenPrefixInv, LenPrefixInv', [Next]_vars
  PROVE  [Nested!Next]_(Nested!vars)
<1>1. CASE \E b \in Payload : Put(b)
  BY <1>1, PutRefines DEF Nested!Next
<1>2. CASE \E tag \in Tags, packed \in BOOLEAN : Begin(tag, packed)
  BY <1>2, BeginRefines DEF Nested!Next
<1>3. CASE Finish
  BY <1>3, FinishRefines DEF Nested!Next
<1>4. CASE RollBack
  BY <1>4, RollBackRefines DEF Nested!Next
<1>5. CASE Return
  BY <1>5, ReturnRefines DEF Nested!Next
<1>6. CASE Raise
  <2>1. Temporaries' = Temporaries
    BY <1>6 DEF Raise, Temporaries, Level, From, Until
  <2> QED  BY <1>6, <2>1 DEF Raise, Nested!Raise, Nested!Next
<1>7. CASE UNCHANGED vars
  <2>1. Temporaries' = Temporaries
    BY <1>7 DEF vars, Temporaries, Level, From, Until
  <2> QED  BY <1>7, <2>1 DEF vars, Nested!vars
<1> QED  BY <1>1, <1>2, <1>3, <1>4, <1>5, <1>6, <1>7 DEF Next

\* Encoding in place implements encoding into temporaries, for every nesting,
\* every payload and every width of a byte.
THEOREM Refinement == Spec => ImplementsNested
<1>1. Spec => []LenPrefixInv
  BY InvariantHolds
<1>2. Init => Nested!Init
  BY InitRefines
<1>3. LenPrefixInv /\ LenPrefixInv' /\ [Next]_vars => [Nested!Next]_(Nested!vars)
  BY StepRefines
<1> QED  BY <1>1, <1>2, <1>3, PTL DEF Spec, ImplementsNested, Nested!Spec
=============================================================================
