---------------------------- MODULE RelayProofs ----------------------------
(***************************************************************************)
(* Proofs about the values that messages carry, for every schema that      *)
(* parse_message makes, every message and every path: what is decoded is   *)
(* typed, the last member of a oneof wins, times are exact, and unknown    *)
(* fields are passed on.                                                   *)
(***************************************************************************)
EXTENDS StackProofs

-----------------------------------------------------------------------------
(* Times. *)

\* The low bits of a number are a signed number.
LEMMA SignedIsInt ==
  ASSUME NEW w \in {SecondsBits, NanosBits}, NEW u \in Nat
  PROVE  AsSigned(u, w) \in Int
<1>1. 2 ^ w \in Nat \ {0} /\ 2 ^ (w - 1) \in Int
  BY WellKnownAssumption
<1>2. u % (2 ^ w) \in Int
  BY <1>1
<1> QED  BY <1>1, <1>2 DEF AsSigned

\* A varint of a payload is a number.
LEMMA VarintsAreNats ==
  ASSUME NEW p, AreRecords(p), NEW num
  PROVE  LastValue(p, num, "varint", 0) \in Nat
<1>1. IsList(p) /\ Len(p) \in Nat
  BY ListLen DEF AreRecords, IsList
<1>2. \A k \in 1 .. Len(p) : p[k].wire = "varint" => p[k].val \in Nat
  BY <1>1, InToSet DEF AreRecords, Readable
<1> QED  BY <1>1, <1>2, LastIs

\* What a payload says of a time are integers.
LEMMA PartsAreInts ==
  ASSUME NEW p, AreRecords(p)
  PROVE  DecodeParts(p).secs \in Int /\ DecodeParts(p).nanos \in Int
<1>1. /\ AsSigned(LastValue(p, 1, "varint", 0), SecondsBits) \in Int
      /\ AsSigned(LastValue(p, 2, "varint", 0), NanosBits) \in Int
  BY SignedIsInt, VarintsAreNats
<1> QED  BY <1>1 DEF DecodeParts, Parts

\* A datetime or timedelta, or an exception.
LEMMA TimedeltaFromIs ==
  ASSUME NEW secs \in Int, NEW nanos \in Int
  PROVE  TimedeltaFrom(secs, nanos) \in Int \cup {OverflowError}
<1>1. MicrosPerSecond \in Int /\ NanosPerMicro \in Nat \ {0}
  BY WellKnownAssumption
<1>2. Quotient(nanos, NanosPerMicro) \in Int
  BY <1>1 DEF Quotient
<1>3. secs * MicrosPerSecond + Quotient(nanos, NanosPerMicro) \in Int
  BY <1>1, <1>2
<1> QED  BY <1>3 DEF TimedeltaFrom

\* The native converters return a number or raise one of two exceptions.
LEMMA TimeIs ==
  ASSUME NEW kind, NEW p
  PROVE  TimeOf(kind, p) \in Int \cup {ValueError, OverflowError}
<1>1. CASE ~ AreRecords(p)
  BY <1>1 DEF TimeOf
<1>2. CASE AreRecords(p)
  <2> DEFINE d == DecodeParts(p)
  <2>1. d.secs \in Int /\ d.nanos \in Int
    BY <1>2, PartsAreInts
  <2> HIDE DEF d
  <2>2. TimedeltaFrom(d.secs, d.nanos) \in Int \cup {OverflowError}
    BY <2>1, TimedeltaFromIs
  <2>3. /\ PartsToDatetime(d) \in Int \cup {ValueError, OverflowError}
        /\ PartsToTimedelta(d) \in Int \cup {ValueError, OverflowError}
    BY <2>2 DEF PartsToDatetime, PartsToTimedelta
  <2> QED  BY <1>2, <2>3 DEF TimeOf, d
<1> QED  BY <1>1, <1>2

\* The product of positive numbers is positive.
LEMMA Product ==
  ASSUME NEW a \in Nat \ {0}, NEW b \in Nat
  PROVE  a * b \in Nat /\ (b # 0 => a * b > 0)
OBVIOUS

\* The empty message is the time 0.
LEMMA EmptyTime ==
  ASSUME NEW kind \in Time
  PROVE  TimeOf(kind, <<>>) \in Int
<1> DEFINE d == DecodeParts(<<>>)
           s == <<>>
<1>1. AreRecords(s) /\ Len(s) = 0
  <2>1. s \in Seq(ToSet(s)) /\ Len(s) = 0
    BY EmptySeq
  <2>2. IsList(s)
    BY <2>1, ListOf
  <2> HIDE DEF s
  <2>3. ToSet(s) = {}
    BY <2>1, <2>2, InToSet
  <2> QED  BY <2>1, <2>3 DEF AreRecords
<1>2. d.secs = 0 /\ d.nanos = 0
  <2> HIDE DEF s
  <2>1. \A num : LastValue(s, num, "varint", 0) = 0
    BY <1>1, LastIs
  <2>2. \A w \in {SecondsBits, NanosBits} : AsSigned(0, w) = 0
    <3> SUFFICES ASSUME NEW w \in {SecondsBits, NanosBits}  PROVE AsSigned(0, w) = 0
      OBVIOUS
    <3>1. 2 ^ w \in Nat \ {0} /\ 2 ^ (w - 1) \in Nat \ {0}
      BY WellKnownAssumption
    <3>2. 0 % (2 ^ w) = 0
      BY <3>1
    <3> QED  BY <3>1, <3>2 DEF AsSigned
  <2>3. DecodeParts(s).secs = 0 /\ DecodeParts(s).nanos = 0
    BY <2>1, <2>2 DEF DecodeParts, Parts
  <2> QED  BY <2>3 DEF s
<1> HIDE DEF d, s
<1>3. TimedeltaFrom(0, 0) = 0
  <2>1. MicrosPerSecond \in Nat \ {0} /\ NanosPerMicro \in Nat \ {0} /\ TimedeltaMax \in Nat
    BY WellKnownAssumption
  <2>2. Quotient(0, NanosPerMicro) = 0
    BY <2>1 DEF Quotient
  <2>3. 0 * MicrosPerSecond + Quotient(0, NanosPerMicro) = 0
    BY <2>1, <2>2
  <2>4. MicrosPerSecond * TimedeltaMax \in Nat
    BY <2>1, Product
  <2>5. TimedeltaMax * MicrosPerSecond \in Nat
    BY <2>1, <2>4
  <2> QED  BY <2>3, <2>5 DEF TimedeltaFrom
<1>4. PartsToDatetime(d) = 0
  <2>1. NanosPerSecond \in Nat \ {0}
    BY Product, WellKnownAssumption DEF NanosPerSecond
  <2> QED  BY <1>2, <1>3, <2>1, WellKnownAssumption DEF PartsToDatetime, MaxNanos
<1>5. PartsToTimedelta(d) = 0
  <2>1. NanosPerSecond \in Nat \ {0}
    BY Product, WellKnownAssumption DEF NanosPerSecond
  <2>2. \A w \in {SecondsBits, NanosBits} : AbsWrapping(0, w) = 0
    BY WellKnownAssumption DEF AbsWrapping
  <2> QED  BY <1>2, <1>3, <2>1, <2>2, WellKnownAssumption DEF PartsToTimedelta, MaxNanos
<1> QED  BY <1>1, <1>4, <1>5 DEF TimeOf, d, s

-----------------------------------------------------------------------------
(* The values of one field. *)

IsPairs(s) == IsList(s) /\ \A k \in 1 .. Len(s) : s[k] = <<s[k][1], s[k][2]>>

\* What a field of a message may hold while the message is decoded.
Partial(y, v) ==
  IF y.kind = "map" THEN IsPairs(v) /\ IsMap(y, v)
  ELSE IF y.label = "repeated" THEN IsList(v) /\ \A k \in 1 .. Len(v) : IsValue(y, v[k])
  ELSE v = None \/ IsValue(y, v)

\* What may be delivered to a field.
IsItem(y, v) ==
  IF y.kind = "map"
    THEN v = <<v[1], v[2]>> /\ \A side \in {1, 2} : IsValue(EntryFields(y)[side], v[side])
    ELSE IsValue(y, v)

\* The position of a key in a dict, if it is there.
LEMMA KeyIs ==
  ASSUME NEW s, Len(s) \in Nat, NEW key
  PROVE  LET k == SelectInSeq(s, LAMBDA p : p[1] = key) IN
         /\ k = 0 => \A j \in 1 .. Len(s) : s[j][1] # key
         /\ k # 0 => k \in 1 .. Len(s) /\ s[k][1] = key
<1> DEFINE I == {j \in 1 .. Len(s) : s[j][1] = key}
           k == SelectInSeq(s, LAMBDA p : p[1] = key)
<1>1. k = IF I # {} THEN Min(I) ELSE 0
  BY DEF SelectInSeq
<1>2. CASE I = {}
  BY <1>1, <1>2
<1>3. CASE I # {}
  <2>1. I \in SUBSET (0 .. Len(s))
    OBVIOUS
  <2>2. Min(I) \in I
    BY <1>3, <2>1, MinMax
  <2>3. k \in I
    BY <1>1, <1>3, <2>2
  <2> HIDE DEF k
  <2>4. k \in 1 .. Len(s) /\ s[k][1] = key /\ k # 0
    BY <2>3
  <2> QED  BY <2>4 DEF k
<1> QED  BY <1>2, <1>3

\* set_item keeps a dict a dict, with every key once.
LEMMA SetItemIs ==
  ASSUME NEW y, NEW s, IsPairs(s), IsMap(y, s), NEW key, NEW val,
         IsValue(EntryFields(y)[1], key), IsValue(EntryFields(y)[2], val)
  PROVE  IsPairs(SetItem(s, key, val)) /\ IsMap(y, SetItem(s, key, val))
<1> DEFINE k == SelectInSeq(s, LAMBDA p : p[1] = key)
           t == SetItem(s, key, val)
<1>0. IsList(s) /\ Len(s) \in Nat /\ \A j \in 1 .. Len(s) : s[j] = <<s[j][1], s[j][2]>>
  BY ListLen DEF IsPairs
<1>1. /\ k = 0 => \A j \in 1 .. Len(s) : s[j][1] # key
      /\ k # 0 => k \in 1 .. Len(s) /\ s[k][1] = key
  BY <1>0, KeyIs
<1>2. t = IF k = 0 THEN Append(s, <<key, val>>) ELSE [s EXCEPT ![k][2] = val]
  BY DEF SetItem
<1> HIDE DEF k, t
<1>3. CASE k = 0
  <2> DEFINE e == <<key, val>>
  <2>1. e = <<e[1], e[2]>> /\ e[1] = key /\ e[2] = val
    OBVIOUS
  <2>2. t = Append(s, e)
    BY <1>2, <1>3
  <2> HIDE DEF e
  <2>3. /\ IsList(t) /\ Len(t) = Len(s) + 1
        /\ \A j \in 1 .. Len(s) : t[j] = s[j]
        /\ t[Len(s) + 1] = e
    BY <1>0, <2>2, ListAppend
  <2>4. IsPairs(t)
    BY <1>0, <2>1, <2>3 DEF IsPairs
  <2>5. \A j \in 1 .. Len(t) : \A side \in {1, 2} : IsValue(EntryFields(y)[side], t[j][side])
    BY <1>0, <2>1, <2>3 DEF IsMap
  <2>6. \A i, j \in 1 .. Len(t) : t[i][1] = t[j][1] => i = j
    BY <1>0, <1>1, <1>3, <2>1, <2>3 DEF IsMap
  <2> QED  BY <2>4, <2>5, <2>6 DEF IsMap, t
<1>4. CASE k # 0
  <2> DEFINE e == [s[k] EXCEPT ![2] = val]
  <2>1. s[k] = <<key, s[k][2]>>
    BY <1>0, <1>1, <1>4
  <2>2. e = <<e[1], e[2]>> /\ e[1] = key /\ e[2] = val
    BY <2>1
  <2>3. Excepts(s, k, e, t)
    BY <1>2, <1>4 DEF Excepts
  <2> HIDE DEF e
  <2>4. /\ IsList(t) /\ Len(t) = Len(s)
        /\ \A j \in 1 .. Len(s) : t[j] = IF j = k THEN e ELSE s[j]
    BY <1>0, <1>1, <1>4, <2>3, ListExcept
  <2>5. IsPairs(t)
    BY <1>0, <2>2, <2>4 DEF IsPairs
  <2>6. \A j \in 1 .. Len(t) : \A side \in {1, 2} : IsValue(EntryFields(y)[side], t[j][side])
    BY <1>0, <2>2, <2>4 DEF IsMap
  <2>7. \A j \in 1 .. Len(t) : t[j][1] = s[j][1]
    BY <1>1, <1>4, <2>2, <2>4
  <2>8. \A i, j \in 1 .. Len(t) : t[i][1] = t[j][1] => i = j
    BY <2>4, <2>7 DEF IsMap
  <2> QED  BY <2>5, <2>6, <2>8 DEF IsMap, t
<1> QED  BY <1>3, <1>4

\* What is delivered to a field leaves it with what it may hold.
LEMMA PutIs ==
  ASSUME NEW y, GoodField(y), NEW old, Partial(y, old), NEW v, IsItem(y, v)
  PROVE  Partial(y, Put(y, old, v))
<1>1. CASE y.kind = "map"
  <2>1. IsValue(EntryFields(y)[1], v[1]) /\ IsValue(EntryFields(y)[2], v[2])
    BY <1>1 DEF IsItem
  <2>2. IsPairs(old) /\ IsMap(y, old)
    BY <1>1 DEF Partial
  <2>3. IsPairs(SetItem(old, v[1], v[2])) /\ IsMap(y, SetItem(old, v[1], v[2]))
    BY <2>1, <2>2, SetItemIs
  <2> QED  BY <1>1, <2>3 DEF Partial, Put
<1>2. CASE y.kind # "map" /\ y.label = "repeated"
  <2> DEFINE t == Append(old, v)
  <2>1. IsList(old) /\ IsValue(y, v) /\ \A k \in 1 .. Len(old) : IsValue(y, old[k])
    BY <1>2 DEF Partial, IsItem
  <2>2. IsList(t) /\ Len(t) = Len(old) + 1 /\ (\A k \in 1 .. Len(old) : t[k] = old[k]) /\ t[Len(old) + 1] = v
    BY <2>1, ListAppend
  <2>3. Len(old) \in Nat
    BY <2>1, ListLen
  <2>4. Put(y, old, v) = t
    BY <1>2 DEF Put
  <2> HIDE DEF t
  <2> QED  BY <1>2, <2>1, <2>2, <2>3, <2>4 DEF Partial
<1>3. CASE y.kind # "map" /\ y.label # "repeated"
  BY <1>3 DEF Partial, IsItem, Put
<1> QED  BY <1>1, <1>2, <1>3

\* No list is on the wire yet: what may have been seen of a field at first.
LEMMA UnseenIs ==
  ASSUME NEW y, GoodField(y)
  PROVE  Partial(y, Unseen(y))
<1> DEFINE s == <<>>
<1>1. IsList(s) /\ Len(s) = 0
  BY EmptySeq, ListOf
<1>2. Unseen(y) = IF y.label = "repeated" \/ y.kind = "map" THEN s ELSE None
  BY DEF Unseen
<1> HIDE DEF s
<1>3. IsPairs(s) /\ IsMap(y, s)
  BY <1>1 DEF IsPairs, IsMap
<1> QED  BY <1>1, <1>2, <1>3 DEF Partial

-----------------------------------------------------------------------------
(* The values of one frame. *)

ValuesOK(f) == \A n \in 1 .. Len(f.fields) : Partial(f.fields[n], f.vals[n])

\* A new frame has lists where it needs them.
LEMMA NewValues ==
  ASSUME NEW f, Shape(f), NEW entry, NEW cls, NEW fields, NEW depth, NEW p, NEW into,
         IsNew(f, entry, cls, fields, depth, p, into)
  PROVE  ValuesOK(f)
<1>1. GoodFields(f.fields) /\ f.vals = [k \in 1 .. Len(f.fields) |-> Unseen(f.fields[k])]
  BY FrameFields DEF Shape, IsNew
<1>2. \A n \in 1 .. Len(f.fields) : GoodField(f.fields[n]) /\ f.vals[n] = Unseen(f.fields[n])
  BY <1>1 DEF GoodFields
<1> QED  BY <1>2, UnseenIs DEF ValuesOK

\* A claim clears no list.
LEMMA ClaimValues ==
  ASSUME NEW f, Shape(f), ValuesOK(f), NEW n \in 1 .. Len(f.fields), NEW p, NEW h, Claims(f, n, p, h)
  PROVE  ValuesOK(h)
<1>1. h.fields = f.fields
  BY DEF Claims, Alike
<1>2. CASE ~ IsMember(f, n)
  BY <1>1, <1>2 DEF Claims, ValuesOK
<1>3. CASE IsMember(f, n)
  <2> DEFINE g == f.fields[n].oneof
  <2>1. /\ g \in Group
        /\ h.vals = [k \in DOMAIN f.vals |-> IF k = f.owner[g] /\ k # n THEN None ELSE f.vals[k]]
    BY <1>3 DEF Claims
  <2> HIDE DEF g
  <2> SUFFICES ASSUME NEW k \in 1 .. Len(f.fields)  PROVE Partial(f.fields[k], h.vals[k])
    BY <1>1 DEF ValuesOK
  <2>2. DOMAIN f.vals = 1 .. Len(f.fields) /\ OwnersAreMembers(f)
    BY DEF Shape
  <2>3. CASE k = f.owner[g] /\ k # n
    <3>1. f.fields[k].label = "optional"
      BY <2>1, <2>2, <2>3 DEF OwnersAreMembers
    <3>2. GoodField(f.fields[k])
      BY FrameFields DEF Shape, GoodFields
    <3>3. f.fields[k].kind # "map"
      BY <3>1, <3>2 DEF GoodField
    <3>4. h.vals[k] = None
      BY <2>1, <2>2, <2>3
    <3> QED  BY <3>1, <3>3, <3>4 DEF Partial
  <2>4. CASE ~ (k = f.owner[g] /\ k # n)
    <3>1. h.vals[k] = f.vals[k]
      BY <2>1, <2>2, <2>4
    <3> QED  BY <3>1 DEF ValuesOK
  <2> QED  BY <2>3, <2>4
<1> QED  BY <1>2, <1>3

\* Another value in one field.
LEMMA PutValues ==
  ASSUME NEW f, Shape(f), ValuesOK(f), NEW n \in 1 .. Len(f.fields), NEW e, Partial(f.fields[n], e),
         NEW h, h.fields = f.fields, h.vals = [f.vals EXCEPT ![n] = e]
  PROVE  ValuesOK(h)
<1> SUFFICES ASSUME NEW k \in 1 .. Len(f.fields)  PROVE Partial(f.fields[k], h.vals[k])
  BY DEF ValuesOK
<1>1. h.vals[k] = IF k = n THEN e ELSE f.vals[k]
  BY DEF Shape
<1> QED  BY <1>1 DEF ValuesOK

\* A delivery to a field.
LEMMA DeliverValues ==
  ASSUME NEW f, Shape(f), ValuesOK(f), NEW n \in 1 .. Len(f.fields), NEW v, IsItem(f.fields[n], v),
         IsMember(f, n) => f.owner[f.fields[n].oneof] = n
  PROVE  ValuesOK(Deliver(f, n, v))
<1> DEFINE h == Deliver(f, n, v)
           e == Put(f.fields[n], f.vals[n], v)
<1>1. h.fields = f.fields /\ h.vals = [f.vals EXCEPT ![n] = e]
  BY DeliverShape DEF Alike
<1>2. GoodField(f.fields[n]) /\ Partial(f.fields[n], f.vals[n])
  BY FrameFields DEF Shape, GoodFields, ValuesOK
<1>3. Partial(f.fields[n], e)
  BY <1>2, PutIs
<1> HIDE DEF h, e
<1>4. ValuesOK(h)
  BY <1>1, <1>3, PutValues
<1> QED  BY <1>4 DEF h

GoodInstance(m) == m.cls \in Class /\ Typed(m)

\* The zero of a scalar is one of its values.
LEMMA ZeroIs ==
  ASSUME NEW y, y.kind \in {"int", "fixed", "enum", "text"}
  PROVE  IsValue(y, Zero(y.kind))
<1>1. AreChars(<<>>)
  BY EmptySeq DEF AreChars
<1>2. CASE y.kind = "text"
  BY <1>1, <1>2 DEF IsValue, Zero, Time
<1>3. CASE y.kind \in {"int", "fixed", "enum"}
  BY <1>3 DEF IsValue, Zero, Time
<1> QED  BY <1>2, <1>3

\* A message whose input has been read is an instance.
LEMMA InstanceIs ==
  ASSUME ~ IsList(None), NEW f, Shape(f), ~ f.entry, ValuesOK(f)
  PROVE  GoodInstance(Instance(f)) /\ Instance(f).cls = f.cls
<1> DEFINE m == Instance(f)
<1>1. f.cls \in Class /\ f.fields = Fields[f.cls] /\ GoodFields(f.fields)
      /\ DOMAIN f.fields = 1 .. Len(f.fields)
  BY ClassFields DEF Shape, Kin, KinOf
<1>2. m.cls = f.cls /\ \A k \in 1 .. Len(f.fields) :
        m.vals[k] = IF f.vals[k] = None THEN Default(f.fields[k]) ELSE f.vals[k]
  BY <1>1 DEF Instance
<1> HIDE DEF m
<1>3. ASSUME NEW k \in 1 .. Len(f.fields)  PROVE IsField(f.fields[k], m.vals[k])
  <2> DEFINE y == f.fields[k]
             v == f.vals[k]
  <2>1. GoodField(y) /\ Partial(y, v)
    BY <1>1 DEF GoodFields, ValuesOK
  <2>2. m.vals[k] = IF v = None THEN Default(y) ELSE v
    BY <1>2
  <2> HIDE DEF y, v
  <2>3. CASE y.kind = "map" \/ y.label = "repeated"
    <3>1. IsList(v)
      BY <2>1, <2>3 DEF Partial, IsPairs
    <3>2. m.vals[k] = v
      BY <2>2, <3>1
    <3>3. IsField(y, v)
      BY <2>1, <2>3 DEF Partial, IsField
    <3> QED  BY <3>2, <3>3 DEF y
  <2>4. CASE y.kind # "map" /\ y.label # "repeated" /\ v # None
    <3>1. IsField(y, v)
      BY <2>1, <2>4 DEF Partial, IsField
    <3> QED  BY <2>2, <2>4, <3>1 DEF y
  <2>5. CASE y.kind # "map" /\ y.label = "optional" /\ v = None
    <3>1. IsField(y, None)
      BY <2>5 DEF IsField
    <3> QED  BY <2>2, <2>5, <3>1 DEF y, Default
  <2>6. CASE y.kind # "map" /\ y.label = "single" /\ v = None
    <3>1. y.kind \in {"int", "fixed", "enum", "text"}
      BY <2>1, <2>6 DEF GoodField, Kind, Time
    <3>2. IsField(y, Zero(y.kind))
      BY <2>6, <3>1, ZeroIs DEF IsField
    <3> QED  BY <2>2, <2>6, <3>2 DEF y, Default
  <2> QED  BY <2>1, <2>3, <2>4, <2>5, <2>6 DEF GoodField, Label
<1> QED  BY <1>1, <1>2, <1>3 DEF GoodInstance, Typed, m

-----------------------------------------------------------------------------
(* The values on the decoder's stack. *)

AllValues(s) == \A k \in 1 .. Len(s) : ValuesOK(s[k])

\* Replacing the last frames of a stack, and pushing to it.
LEMMA ValueMoves ==
  ASSUME NEW s, IsList(s), AllValues(s), NEW n \in 1 .. Len(s), NEW h, ValuesOK(h)
  PROVE  /\ AllValues(Cut(s, n, h))
         /\ \A c : ValuesOK(c) => AllValues(Append(Cut(s, n, h), c))
<1> DEFINE t == Cut(s, n, h)
<1>0. Len(s) \in Nat
  BY ListLen
<1>1. IsList(t) /\ Len(t) = n /\ (\A k \in 1 .. n - 1 : t[k] = s[k]) /\ t[n] = h
  BY CutIs
<1> HIDE DEF t
<1>2. \A k \in 1 .. n : ValuesOK(t[k])
  BY <1>0, <1>1 DEF AllValues
<1>3. ASSUME NEW c, ValuesOK(c)  PROVE AllValues(Append(t, c))
  <2> DEFINE u == Append(t, c)
  <2>1. Len(u) = n + 1 /\ (\A k \in 1 .. n : u[k] = t[k]) /\ u[n + 1] = c
    BY <1>1, ListAppend
  <2> HIDE DEF u
  <2>2. \A k \in 1 .. n + 1 : ValuesOK(u[k])
    BY <1>0, <1>2, <1>3, <2>1
  <2> QED  BY <2>1, <2>2 DEF AllValues, u
<1> QED  BY <1>1, <1>2, <1>3 DEF AllValues, t

\* The innermost frame gets other values.
LEMMA BecomeValues ==
  ASSUME StackOK(dec), AllValues(dec), dec # <<>>, NEW h, Become(h), ValuesOK(h)
  PROVE  AllValues(dec')
<1>1. Len(dec) \in Nat \ {0} /\ IsList(dec)
  BY TopIs
<1>2. AllValues(Cut(dec, Len(dec), h))
  BY <1>1, ValueMoves
<1>3. dec' = Cut(dec, Len(dec), h)
  BY <1>1, StackMoves
<1> QED  BY <1>2, <1>3

\* A frame is pushed.
LEMMA CallValues ==
  ASSUME StackOK(dec), AllValues(dec), dec # <<>>, NEW h, NEW c, Call(h, c), ValuesOK(h), ValuesOK(c)
  PROVE  AllValues(dec')
<1>1. Len(dec) \in Nat \ {0} /\ IsList(dec)
  BY TopIs
<1>2. AllValues(Append(Cut(dec, Len(dec), h), c))
  BY <1>1, ValueMoves
<1>3. dec' = Append(Cut(dec, Len(dec), h), c)
  BY <1>1, StackMoves
<1> QED  BY <1>2, <1>3

\* The frame below gets a value that its field may have.
LEMMA ReturnValues ==
  ASSUME StackOK(dec), AllValues(dec), dec # <<>>, Len(dec) > 1, NEW v, ReturnValue(v),
         \A y : GoodField(y) /\ (IF top.entry THEN y.kind = "map" /\ top.fields = EntryFields(y)
                                              ELSE y.kind = "message" /\ top.cls = y.ref)
                => IsItem(y, v)
  PROVE  AllValues(dec')
<1> DEFINE n == Len(dec) - 1
           h == Deliver(dec[n], top.into, v)
<1>1. Len(dec) \in Nat \ {0} /\ top = dec[Len(dec)] /\ n \in 1 .. Len(dec) /\ n + 1 = Len(dec)
      /\ n \in 1 .. Len(dec) - 1 /\ IsList(dec)
  BY TopIs
<1>2. Shape(dec[n]) /\ Into(dec[n], top) /\ ValuesOK(dec[n])
  BY <1>1 DEF StackOK, AllValues
<1>3. dec' = Cut(dec, n, h)
  BY <1>1, StackMoves
<1> HIDE DEF n
<1>4. top.into \in 1 .. Len(dec[n].fields) /\ GoodField(dec[n].fields[top.into])
  BY <1>2, FrameFields DEF Into, Shape, GoodFields
<1>5. IsItem(dec[n].fields[top.into], v)
  BY <1>2, <1>4 DEF Into
<1>6. ValuesOK(h)
  BY <1>2, <1>4, <1>5, DeliverValues DEF Into
<1> HIDE DEF h
<1>7. AllValues(Cut(dec, n, h))
  BY <1>1, <1>6, ValueMoves
<1> QED  BY <1>3, <1>7

\* The value of a record of a scalar is a number: the wire type of the record
\* is the one of its field's kind.
LEMMA ScalarIs ==
  ASSUME Known, ~ Packed, field.kind \in {"int", "fixed", "enum"}
  PROVE  rec.val \in Nat
<1>1. WireOf(field.kind) # "len" /\ Packable(field.kind)
  BY DEF WireOf, Packable
<1>2. rec.wire # "len"
  BY <1>1 DEF Known, Accepts, Packed
<1> QED  BY <1>2 DEF Known, Readable

\* The values of the innermost frame, before and after its field is claimed.
LEMMA TakenValues ==
  ASSUME StackOK(dec), AllValues(dec), Reading, Known
  PROVE  /\ ValuesOK(Taken) /\ Shape(Taken)
         /\ idx \in 1 .. Len(Taken.fields) /\ Taken.fields[idx] = field /\ GoodField(field)
         /\ IsMember(Taken, idx) => Taken.owner[Taken.fields[idx].oneof] = idx
<1>1. Shape(top) /\ ValuesOK(top) /\ idx \in 1 .. Len(top.fields) /\ GoodField(field)
  BY TopIs, KnownField DEF Reading, AllValues
<1> QED  BY <1>1, TakenIs, ClaimValues

\* A value is delivered to the field of a record.
LEMMA DeliverTaken ==
  ASSUME StackOK(dec), AllValues(dec), Reading, Known, NEW v, Become(Deliver(Taken, idx, v)),
         IsItem(field, v)
  PROVE  AllValues(dec')
<1>1. ValuesOK(Deliver(Taken, idx, v))
  BY TakenValues, DeliverValues
<1> QED  BY <1>1, BecomeValues DEF Reading

\* The frame of a submessage or of a map entry.
LEMMA CalleeValues ==
  ASSUME NEW c, Shape(c), NEW y, NEW p, NEW depth, NEW into,
         c = MessageFrame(y, p, depth, into) \/ c = EntryFrame(y, p, depth, into)
  PROVE  ValuesOK(c)
<1>1. ASSUME NEW entry, NEW cls, NEW fields, c = Frame(entry, cls, fields, depth, p, into)
      PROVE  ValuesOK(c)
  <2>1. IsNew(c, entry, cls, fields, depth, p, into)
    BY <1>1 DEF Frame, IsNew
  <2> QED  BY <2>1, NewValues
<1> QED  BY <1>1 DEF MessageFrame, EntryFrame

\* A packed list is read to the end of what the field already has.
LEMMA PackedValues ==
  ASSUME StackOK(dec), AllValues(dec), DecodePacked, dec' # <<>>
  PROVE  AllValues(dec')
<1> DEFINE list == [k \in 1 .. Len(rec.val) |-> rec.val[k].bits]
           e == Taken.vals[idx] \o list
           h == [Taken EXCEPT !.vals[idx] = e]
<1>1. Reading /\ Known /\ Packed
  BY DEF DecodePacked
<1>2. AreBits(rec.val)
  BY DEF DecodePacked, Fail, Raise
<1>3. Become(h)
  BY <1>2 DEF DecodePacked
<1>4. ValuesOK(Taken) /\ Shape(Taken) /\ idx \in 1 .. Len(Taken.fields) /\ Taken.fields[idx] = field
      /\ GoodField(field)
  BY <1>1, TakenValues
<1>5. IsList(list) /\ Len(list) \in Nat /\ \A k \in 1 .. Len(list) : list[k] \in Nat
  <2>1. rec.val \in Seq([bits : Nat])
    BY <1>2 DEF AreBits
  <2>2. Len(rec.val) \in Nat /\ \A k \in 1 .. Len(rec.val) : rec.val[k] \in [bits : Nat]
    BY <2>1, ListOf
  <2>3. list \in Seq(Nat)
    BY <2>2
  <2> QED  BY <2>3, ListOf
<1> HIDE DEF list
<1>6. field.label = "repeated" /\ field.kind \in {"int", "fixed", "enum"}
  BY <1>1 DEF Packed, Packable
<1>7. IsList(Taken.vals[idx]) /\ \A k \in 1 .. Len(Taken.vals[idx]) : IsValue(field, Taken.vals[idx][k])
  BY <1>4, <1>6 DEF ValuesOK, Partial
<1>8. Partial(field, e)
  <2> DEFINE old == Taken.vals[idx]
  <2>1. IsList(old) /\ Len(old) \in Nat /\ \A k \in 1 .. Len(old) : IsValue(field, old[k])
    BY <1>7, ListLen
  <2>2. e = old \o list
    OBVIOUS
  <2> HIDE DEF old, e
  <2>3. /\ IsList(e) /\ Len(e) = Len(old) + Len(list)
        /\ \A k \in 1 .. Len(old) + Len(list) : e[k] = IF k <= Len(old) THEN old[k] ELSE list[k - Len(old)]
    BY <1>5, <2>1, <2>2, ListConcat
  <2>4. \A k \in 1 .. Len(list) : IsValue(field, list[k])
    BY <1>5, <1>6 DEF IsValue, Time
  <2>5. \A k \in 1 .. Len(e) : IsValue(field, e[k])
    <3> SUFFICES ASSUME NEW k \in 1 .. Len(old) + Len(list)  PROVE IsValue(field, e[k])
      BY <2>3
    <3>1. CASE k <= Len(old)
      BY <2>1, <2>3, <3>1
    <3>2. CASE ~ (k <= Len(old))
      <4>1. k - Len(old) \in 1 .. Len(list)
        BY <1>5, <2>1, <3>2
      <4> QED  BY <2>3, <2>4, <3>2, <4>1
    <3> QED  BY <3>1, <3>2
  <2> QED  BY <1>6, <2>3, <2>5 DEF Partial
<1> HIDE DEF e
<1>9. h.fields = Taken.fields /\ h.vals = [Taken.vals EXCEPT ![idx] = e]
  BY <1>4 DEF Shape, IsFrame
<1> HIDE DEF h
<1>10. ValuesOK(h)
  BY <1>4, <1>8, <1>9, PutValues
<1> QED  BY <1>1, <1>3, <1>10, BecomeValues DEF Reading

\* A map entry whose message value is there, or whose value is none, becomes a
\* pair of a key and a value of the map.
LEMMA EntryIs ==
  ASSUME NEW f, Shape(f), ValuesOK(f), f = top, ~ MissingMessage,
         NEW y, GoodField(y), y.kind = "map", f.fields = EntryFields(y)
  PROVE  \A side \in {1, 2} : IsValue(EntryFields(y)[side], EntryPart(side))
<1> SUFFICES ASSUME NEW side \in {1, 2}  PROVE IsValue(f.fields[side], EntryPart(side))
  OBVIOUS
<1> DEFINE z == f.fields[side]
           v == f.vals[side]
<1>1. /\ z.label = "optional" /\ z.kind # "map" /\ GoodField(z) /\ Partial(z, v)
      /\ side = 1 => z.kind \in {"int", "fixed", "text"}
  BY MapEntryFields DEF GoodFields, ValuesOK, GoodField
<1>2. v = None \/ IsValue(z, v)
  BY <1>1 DEF Partial
<1>3. EntryPart(side) = IF v # None THEN v ELSE IF z.kind \in Time THEN TimeOf(z.kind, <<>>) ELSE Zero(z.kind)
  BY DEF EntryPart
<1>4. v = None => z.kind # "message"
  BY <1>1 DEF MissingMessage
<1> HIDE DEF z, v
<1>5. CASE v # None
  BY <1>2, <1>3, <1>5 DEF z
<1>6. CASE v = None /\ z.kind \in Time
  <2>1. TimeOf(z.kind, <<>>) \in Int
    BY <1>6, EmptyTime
  <2>2. IsValue(z, TimeOf(z.kind, <<>>))
    BY <1>6, <2>1 DEF IsValue, Time
  <2> QED  BY <1>3, <1>6, <2>2 DEF z
<1>7. CASE v = None /\ z.kind \notin Time
  <2>1. z.kind \in {"int", "fixed", "enum", "text"}
    BY <1>1, <1>4, <1>7 DEF GoodField, Kind
  <2>2. IsValue(z, Zero(z.kind))
    BY <2>1, ZeroIs
  <2> QED  BY <1>3, <1>7, <2>2 DEF z
<1> QED  BY <1>5, <1>6, <1>7

\* The end of a map entry.
LEMMA EndEntryValues ==
  ASSUME StackOK(dec), AllValues(dec), EndEntry
  PROVE  AllValues(dec')
<1> DEFINE v == <<EntryPart(1), EntryPart(2)>>
<1>1. dec # <<>> /\ top.entry /\ ~ MissingMessage /\ ReturnValue(v)
  BY DEF EndEntry, AtEnd
<1>2. Shape(top) /\ ValuesOK(top) /\ Len(dec) > 1
  <2>1. Len(dec) \in Nat \ {0} /\ top = dec[Len(dec)] /\ Shape(top) /\ ~ dec[1].entry
    BY <1>1, TopIs DEF StackOK
  <2> QED  BY <1>1, <2>1 DEF AllValues
<1>3. v = <<v[1], v[2]>> /\ v[1] = EntryPart(1) /\ v[2] = EntryPart(2)
  OBVIOUS
<1> HIDE DEF v
<1>4. ASSUME NEW y, GoodField(y), y.kind = "map", top.fields = EntryFields(y)
      PROVE  IsItem(y, v)
  <2>1. \A side \in {1, 2} : IsValue(EntryFields(y)[side], EntryPart(side))
    BY <1>1, <1>2, <1>4, EntryIs
  <2> QED  BY <1>3, <1>4, <2>1 DEF IsItem
<1> QED  BY <1>1, <1>2, <1>4, ReturnValues

\* The end of a submessage.
LEMMA EndNestedValues ==
  ASSUME ~ IsList(None), StackOK(dec), AllValues(dec), EndNested
  PROVE  AllValues(dec')
<1> DEFINE v == Instance(top)
<1>1. dec # <<>> /\ ~ top.entry /\ ReturnValue(v) /\ Len(dec) > 1
  BY DEF EndNested, AtEnd
<1>2. Shape(top) /\ ValuesOK(top)
  BY <1>1, TopIs DEF AllValues
<1>3. v.cls = top.cls
  BY <1>1, <1>2, InstanceIs
<1> HIDE DEF v
<1>4. ASSUME NEW y, GoodField(y), y.kind = "message", top.cls = y.ref
      PROVE  IsItem(y, v)
  BY <1>3, <1>4 DEF IsItem, IsValue, Time
<1> QED  BY <1>1, <1>2, <1>4, ReturnValues

\* Every step of the decoder keeps the values typed, and what it returns is an
\* exception or an instance.
LEMMA DecodeValues ==
  ASSUME ~ IsList(None), StackOK(dec), AllValues(dec), DecodeStep
  PROVE  /\ AllValues(dec')
         /\ decoded' = decoded \/ decoded' \in {ValueError, OverflowError} \/ GoodInstance(decoded')
<1> DEFINE Result == decoded' = decoded \/ decoded' \in {ValueError, OverflowError} \/ GoodInstance(decoded')
<1>1. dec' = <<>> => AllValues(dec')
  <2>1. Len(<<>>) = 0
    BY EmptySeq
  <2> QED  BY <2>1 DEF AllValues
<1>2. (\E error \in {ValueError, OverflowError} : Raise(error)) => dec' = <<>> /\ Result
  BY DEF Raise
<1>3. (\E h : Become(h)) \/ (\E h, c : Call(h, c)) \/ (\E v : ReturnValue(v)) => Result
  BY DEF Become, Call, ReturnValue
<1> SUFFICES AllValues(dec') /\ Result
  OBVIOUS
<1> HIDE DEF Result
<1>4. Fail => AllValues(dec') /\ Result
  BY <1>1, <1>2 DEF Fail
<1>5. CASE Malformed
  BY <1>4, <1>5 DEF Malformed
<1>6. CASE Unknown
  <2> DEFINE h == [top EXCEPT !.in = Tail(@), !.unknown = IF top.entry THEN @ ELSE Append(@, rec)]
  <2>1. Become(h) /\ dec # <<>>
    BY <1>6 DEF Unknown, Reading
  <2>2. Shape(top) /\ ValuesOK(top)
    BY <2>1, TopIs DEF AllValues
  <2>3. h.fields = top.fields /\ h.vals = top.vals
    BY <2>2 DEF Shape, IsFrame
  <2> HIDE DEF h
  <2>4. ValuesOK(h)
    BY <2>2, <2>3 DEF ValuesOK
  <2> QED  BY <1>3, <2>1, <2>4, BecomeValues
<1>7. CASE DecodePacked
  <2>1. Result
    BY <1>3, <1>4, <1>7 DEF DecodePacked
  <2> QED  BY <1>1, <1>7, <2>1, PackedValues
<1>8. ASSUME Reading, Known, NEW v, Become(Deliver(Taken, idx, v)), IsItem(field, v)
      PROVE  AllValues(dec') /\ Result
  BY <1>3, <1>8, DeliverTaken
<1>9. CASE DecodeValue
  <2>1. rec.val \in Nat /\ Reading /\ Known /\ field.kind \in {"int", "fixed", "enum"}
        /\ Become(Deliver(Taken, idx, rec.val))
    BY <1>9, ScalarIs DEF DecodeValue
  <2>2. IsItem(field, rec.val)
    BY <2>1 DEF IsItem, IsValue, Time
  <2> QED  BY <1>8, <2>1, <2>2
<1>10. CASE DecodeText
  <2>1. CASE AreChars(rec.val)
    <3>1. IsItem(field, rec.val)
      BY <1>10, <2>1 DEF DecodeText, IsItem, IsValue, Time
    <3> QED  BY <1>8, <1>10, <2>1, <3>1 DEF DecodeText
  <2>2. CASE ~ AreChars(rec.val)
    BY <1>4, <1>10, <2>2 DEF DecodeText
  <2> QED  BY <2>1, <2>2
<1>11. CASE DecodeTime
  <2> DEFINE time == TimeOf(field.kind, rec.val)
  <2>1. time \in Int \cup {ValueError, OverflowError}
    BY TimeIs
  <2>2. Reading /\ Known /\ field.kind \in Time
        /\ IF time \in {ValueError, OverflowError} THEN Raise(time) ELSE Become(Deliver(Taken, idx, time))
    BY <1>11 DEF DecodeTime
  <2> HIDE DEF time
  <2>3. CASE time \in {ValueError, OverflowError}
    BY <1>1, <1>2, <2>2, <2>3
  <2>4. CASE time \notin {ValueError, OverflowError}
    <3>1. IsItem(field, time)
      BY <2>1, <2>2, <2>4 DEF IsItem, IsValue, Time
    <3> QED  BY <1>8, <2>2, <2>4, <3>1
  <2> QED  BY <2>3, <2>4
<1>12. CASE DecodeNested
  <2> DEFINE c == MessageFrame(field.ref, rec.val, top.depth + 1, idx)
  <2>1. CASE top.depth + 1 > MaxDepth
    BY <1>4, <1>12, <2>1 DEF DecodeNested
  <2>2. CASE ~ (top.depth + 1 > MaxDepth)
    <3>1. Reading /\ Known /\ field.kind = "message" /\ Call(Taken, c)
      BY <1>12, <2>2 DEF DecodeNested
    <3>2. ValuesOK(Taken) /\ Shape(Taken) /\ idx \in 1 .. Len(Taken.fields) /\ Taken.fields[idx] = field
          /\ (IsMember(Taken, idx) => Taken.owner[Taken.fields[idx].oneof] = idx)
      BY <3>1, TakenValues
    <3>3. top.depth + 1 \in 0 .. MaxDepth
      BY <2>2, <3>1, TopIs, MessagesAssumption DEF Shape, Reading
    <3>4. Shape(c)
      BY <3>1, <3>2, <3>3, MessageFrameIs
    <3>5. ValuesOK(c)
      BY <3>4, CalleeValues
    <3> HIDE DEF c
    <3> QED  BY <1>3, <3>1, <3>2, <3>5, CallValues DEF Reading
  <2> QED  BY <2>1, <2>2
<1>13. CASE DecodeMapEntry
  <2> DEFINE c == EntryFrame(field, rec.val, top.depth, idx)
  <2>1. Reading /\ Known /\ field.kind = "map" /\ Call(Taken, c)
    BY <1>13 DEF DecodeMapEntry
  <2>2. ValuesOK(Taken) /\ Shape(Taken) /\ idx \in 1 .. Len(Taken.fields) /\ Taken.fields[idx] = field
    BY <2>1, TakenValues
  <2>3. top.depth \in 0 .. MaxDepth
    BY <2>1, TopIs DEF Shape, Reading
  <2>4. Shape(c)
    BY <2>1, <2>2, <2>3, EntryFrameIs
  <2>5. ValuesOK(c)
    BY <2>4, CalleeValues
  <2> HIDE DEF c
  <2> QED  BY <1>3, <2>1, <2>2, <2>5, CallValues DEF Reading
<1>14. CASE EndRoot
  <2>1. dec # <<>> /\ dec' = <<>> /\ decoded' = Instance(top) /\ Len(dec) = 1
    BY <1>14 DEF EndRoot, AtEnd
  <2>2. Shape(top) /\ ValuesOK(top) /\ ~ top.entry
    BY <2>1, TopIs DEF AllValues, StackOK
  <2>3. GoodInstance(decoded')
    BY <2>1, <2>2, InstanceIs
  <2> QED  BY <1>1, <2>1, <2>3 DEF Result
<1>15. CASE EndNested
  BY <1>3, <1>15, EndNestedValues DEF EndNested
<1>16. CASE EndEntry
  BY <1>3, <1>16, EndEntryValues DEF EndEntry
<1>17. CASE DefaultMessage
  <2> DEFINE c == MessageFrame(top.fields[2].ref, <<>>, top.depth + 1, 2)
  <2>1. CASE top.depth + 1 > MaxDepth
    BY <1>4, <1>17, <2>1 DEF DefaultMessage
  <2>2. CASE ~ (top.depth + 1 > MaxDepth)
    <3>1. dec # <<>> /\ top.entry /\ top.fields[2].kind = "message" /\ Call(top, c)
      BY <1>17, <2>2 DEF DefaultMessage, AtEnd, MissingMessage
    <3>2. Shape(top) /\ ValuesOK(top)
      BY <3>1, TopIs DEF AllValues
    <3>3. top.depth + 1 \in 0 .. MaxDepth
      BY <2>2, <3>2, MessagesAssumption DEF Shape
    <3>4. 2 \in 1 .. Len(top.fields) /\ ~ IsMember(top, 2)
      <4>1. PICK y : GoodField(y) /\ y.kind = "map" /\ top.fields = EntryFields(y)
        BY <3>1, <3>2 DEF Shape, Kin, KinOf
      <4> QED  BY <4>1, MapEntryFields DEF IsMember
    <3>5. Shape(c)
      BY <3>1, <3>2, <3>3, <3>4, MessageFrameIs
    <3>6. ValuesOK(c)
      BY <3>5, CalleeValues
    <3> HIDE DEF c
    <3> QED  BY <1>3, <3>1, <3>2, <3>6, CallValues
  <2> QED  BY <2>1, <2>2
<1> QED
  BY <1>5, <1>6, <1>7, <1>9, <1>10, <1>11, <1>12, <1>13, <1>14, <1>15, <1>16, <1>17 DEF DecodeStep

-----------------------------------------------------------------------------
(* The values on the path. *)

ValuesInv ==
  /\ AllValues(dec)
  /\ decoded \in {None, ValueError, OverflowError} \/ GoodInstance(decoded)
  /\ \A k \in 1 .. Len(insts) : GoodInstance(insts[k])

\* The invariant holds at first.
LEMMA InitValues == Init => ValuesInv
<1> SUFFICES ASSUME Init  PROVE ValuesInv
  OBVIOUS
<1> DEFINE s == <<>>
<1>1. Len(s) = 0 /\ dec = s /\ decoded = None
  BY EmptySeq DEF Init
<1>2. CASE insts = s
  <2> HIDE DEF s
  <2> QED  BY <1>1, <1>2 DEF ValuesInv, AllValues
<1>3. CASE \E m \in Instances : insts = <<m>>
  <2>1. PICK m \in Instances : insts = <<m>>
    BY <1>3
  <2>2. Len(insts) = 1 /\ insts[1] = m
    BY <2>1
  <2>3. GoodInstance(m)
    BY RelayAssumption DEF GoodInstance
  <2> HIDE DEF s
  <2> QED  BY <1>1, <2>2, <2>3 DEF ValuesInv, AllValues
<1> QED  BY <1>2, <1>3 DEF Init

\* Every step keeps it.
LEMMA NextValues ==
  ASSUME ~ IsList(None)
  PROVE  StacksInv /\ ValuesInv /\ [Next]_vars => ValuesInv'
<1> SUFFICES ASSUME StacksInv, ValuesInv, [Next]_vars  PROVE ValuesInv'
  OBVIOUS
<1>0. Len(insts) \in Nat /\ IsList(insts) /\ StackOK(dec)
  BY ListLen DEF StacksInv
<1>1. CASE FromBytes
  <2> DEFINE c == path[Len(insts) + 1]
             p == streams[Len(streams)]
             f == MessageFrame(c, p, 0, 0)
             s == <<f>>
  <2>1. c \in Class
    BY <1>0, <1>1, NextClass DEF FromBytes, StacksInv
  <2>2. StackOK(s) /\ Len(s) = 1 /\ s[1] = f
    BY <2>1, StartShape
  <2>3. dec' = s /\ decoded' = None /\ insts' = insts
    BY <1>1 DEF FromBytes, Start, relayVars
  <2> HIDE DEF s, c, p
  <2>4. Shape(f)
    BY <2>2 DEF StackOK
  <2>5. ValuesOK(f)
    BY <2>4, CalleeValues
  <2> HIDE DEF f
  <2>6. AllValues(s)
    BY <2>2, <2>5 DEF AllValues
  <2> QED  BY <2>3, <2>6 DEF ValuesInv
<1>2. CASE ToBytes
  BY <1>2 DEF ToBytes, ValuesInv, decVars, relayVars
<1>3. CASE Decoded
  <2>1. dec' = dec /\ decoded' = None
    BY <1>3 DEF Decoded
  <2>2. CASE decoded \in {ValueError, OverflowError}
    BY <1>3, <2>1, <2>2 DEF Decoded, ValuesInv
  <2>3. CASE decoded \notin {ValueError, OverflowError}
    <3>1. insts' = Append(insts, decoded) /\ GoodInstance(decoded)
      BY <1>3, <2>3 DEF Decoded, ValuesInv
    <3>2. /\ Len(insts') = Len(insts) + 1 /\ insts'[Len(insts) + 1] = decoded
          /\ \A k \in 1 .. Len(insts) : insts'[k] = insts[k]
      BY <1>0, <3>1, ListAppend
    <3>3. \A k \in 1 .. Len(insts') : GoodInstance(insts'[k])
      BY <1>0, <3>1, <3>2 DEF ValuesInv
    <3> QED  BY <2>1, <3>3 DEF ValuesInv
  <2> QED  BY <2>2, <2>3
<1>4. CASE Encoded
  BY <1>4 DEF Encoded, ValuesInv, decVars
<1>5. CASE DecodeStep /\ UNCHANGED <<encVars, relayVars>>
  BY <1>0, <1>5, DecodeValues DEF ValuesInv, relayVars
<1>6. CASE EncodeStep /\ UNCHANGED <<decVars, relayVars>>
  BY <1>6 DEF ValuesInv, decVars, relayVars
<1>7. CASE UNCHANGED vars
  BY <1>7 DEF ValuesInv, vars, decVars, relayVars
<1> QED  BY <1>1, <1>2, <1>3, <1>4, <1>5, <1>6, <1>7 DEF Next

\* Every value that is being decoded has the kind of its field.
THEOREM ValuesTyped ==
  ASSUME ~ IsList(None)
  PROVE  Spec => [](StacksInv /\ ValuesInv)
<1>1. Init => StacksInv /\ ValuesInv
  BY InitStacks, InitValues
<1>2. StacksInv /\ ValuesInv /\ [Next]_vars => (StacksInv /\ ValuesInv)'
  BY NextStacks, NextValues
<1> QED  BY <1>1, <1>2, PTL DEF Spec

\* Whatever is on the wire, decode() returns only instances that the
\* constructor of their class could have made: the default of every field that
\* is missing, no None in a plain field or inside a map, every key once.
THEOREM DecodedIsTyped ==
  ASSUME ~ IsList(None)
  PROVE  Spec => []InstancesTyped
<1>1. ValuesInv => InstancesTyped
  BY DEF ValuesInv, InstancesTyped, GoodInstance
<1> QED  BY <1>1, ValuesTyped, PTL

\* No claim of a oneof and no default takes the list of a repeated field or the
\* dict of a map away: the decoder may unwrap them without a check.
THEOREM AccumulatorsAreKept ==
  ASSUME ~ IsList(None)
  PROVE  Spec => []AccumulatorsKept
<1>1. StacksInv /\ ValuesInv => AccumulatorsKept
  <2> SUFFICES ASSUME StacksInv, ValuesInv, NEW k \in 1 .. Len(dec),
                      NEW n \in 1 .. Len(dec[k].fields), Unseen(dec[k].fields[n]) # None
               PROVE  dec[k].vals[n] # None
    BY DEF AccumulatorsKept
  <2>1. Partial(dec[k].fields[n], dec[k].vals[n])
    BY DEF ValuesInv, AllValues, ValuesOK
  <2>2. IsList(dec[k].vals[n])
    BY <2>1 DEF Unseen, Partial, IsPairs
  <2> QED  BY <2>2
<1> QED  BY <1>1, ValuesTyped, PTL

-----------------------------------------------------------------------------
(* Oneofs: the last member on the wire wins. *)

\* None is neither a list nor an instance.
NoneIsApart == ~ IsList(None) /\ DOMAIN None # {"cls", "vals", "unknown"}

\* A record that sets a member of group g.
SetsIn(c, g, rc) ==
  LET n == FirstDeclared(Fields[c], rc.num) IN n \in Members(c, g) /\ Accepts(Fields[c][n], rc.wire)

SetBy(s, c, g, i) == {j \in 1 .. i : SetsIn(c, g, s[j])}

\* The member that the first i records leave as the owner of its group.
OwnerAfter(s, c, g, i) ==
  IF SetBy(s, c, g, i) = {} THEN 0 ELSE FirstDeclared(Fields[c], s[Max(SetBy(s, c, g, i))].num)

\* The frame f has read i records of s.
HasRead(f, s, i) ==
  /\ i \in 0 .. Len(s)
  /\ IsList(f.in) /\ Len(f.in) = Len(s) - i
  /\ \A j \in 1 .. Len(f.in) : f.in[j] = s[i + j]
  /\ \A g \in Group : f.owner[g] = OwnerAfter(s, f.cls, g, i)

\* The records of a field of times, and the field that i of them leave.
IsTimeField(fields, n) ==
  fields[n].kind \in Time /\ fields[n].label = "optional" /\ FirstDeclared(fields, fields[n].num) = n

IsTimeOf(x, rc) == rc.num = x.num /\ rc.wire = "len"

TimesBy(s, x, i) == {j \in 1 .. i : IsTimeOf(x, s[j])}

TimeAfter(v, s, x, i) ==
  IF TimesBy(s, x, i) = {} THEN v = None
  ELSE \/ v \in Int /\ v = TimeOf(x.kind, s[Max(TimesBy(s, x, i))].val)
       \/ x.oneof # None /\ v = None

\* The times in f are those of the last records among the first i of s.
HasTimes(f, s, i) ==
  \A n \in 1 .. Len(f.fields) :
    IsTimeField(f.fields, n) => TimeAfter(f.vals[n], s, f.fields[n], i)

\* Every owner of a oneof has its value, but the one that waits for it.
Holds(f, waiting) ==
  \A n \in 1 .. Len(f.fields) :
    (IsMember(f, n) /\ f.owner[f.fields[n].oneof] = n /\ n # waiting) => f.vals[n] # None

\* The owners after one more record.
LEMMA OwnerAfterOne ==
  ASSUME NEW s, NEW c, NEW g, NEW i \in Nat
  PROVE  OwnerAfter(s, c, g, i + 1) =
           IF SetsIn(c, g, s[i + 1]) THEN FirstDeclared(Fields[c], s[i + 1].num)
           ELSE OwnerAfter(s, c, g, i)
<1> DEFINE S == SetBy(s, c, g, i)
           T == SetBy(s, c, g, i + 1)
<1>1. CASE SetsIn(c, g, s[i + 1])
  <2>1. i + 1 \in T /\ T \in SUBSET (0 .. i + 1) /\ i + 1 \in Nat
    BY <1>1 DEF SetBy
  <2>2. Max(T) \in T /\ \A k \in T : k <= Max(T)
    BY <2>1, MinMax
  <2> DEFINE m == Max(T)
  <2>3. m = i + 1
    BY <2>1, <2>2
  <2>4. T # {}
    BY <2>1
  <2>5. OwnerAfter(s, c, g, i + 1) = FirstDeclared(Fields[c], s[m].num)
    BY <2>4 DEF OwnerAfter
  <2> HIDE DEF m
  <2> QED  BY <1>1, <2>3, <2>5
<1>2. CASE ~ SetsIn(c, g, s[i + 1])
  <2>1. T = S
    BY <1>2 DEF SetBy
  <2> QED  BY <1>2, <2>1 DEF OwnerAfter
<1> QED  BY <1>1, <1>2

\* One more record is read.
LEMMA ReadOne ==
  ASSUME NEW f, NEW s, NEW i, Len(s) \in Nat, HasRead(f, s, i), f.in # <<>>, NEW h,
         h.in = Tail(f.in), h.cls = f.cls,
         \A g \in Group : h.owner[g] = IF SetsIn(f.cls, g, Head(f.in))
                                         THEN FirstDeclared(Fields[f.cls], Head(f.in).num)
                                         ELSE f.owner[g]
  PROVE  HasRead(h, s, i + 1)
<1>1. /\ IsList(h.in) /\ Len(h.in) = Len(f.in) - 1 /\ Head(f.in) = f.in[1]
      /\ \A k \in 1 .. Len(f.in) - 1 : h.in[k] = f.in[k + 1]
      /\ Len(f.in) \in Nat \ {0}
  BY ListTail, ListLen DEF HasRead
<1>2. i \in Nat /\ i + 1 \in 0 .. Len(s) /\ Len(h.in) = Len(s) - (i + 1) /\ Head(f.in) = s[i + 1]
  BY <1>1 DEF HasRead
<1>3. \A j \in 1 .. Len(h.in) : h.in[j] = s[i + 1 + j]
  <2> SUFFICES ASSUME NEW j \in 1 .. Len(h.in)  PROVE h.in[j] = s[i + 1 + j]
    OBVIOUS
  <2>1. h.in[j] = f.in[j + 1] /\ j + 1 \in 1 .. Len(f.in)
    BY <1>1
  <2>2. f.in[j + 1] = s[i + (j + 1)] /\ i + (j + 1) = i + 1 + j
    BY <1>2, <2>1 DEF HasRead
  <2> QED  BY <2>1, <2>2
<1>4. ASSUME NEW g \in Group  PROVE h.owner[g] = OwnerAfter(s, h.cls, g, i + 1)
  <2>1. f.owner[g] = OwnerAfter(s, f.cls, g, i)
    BY DEF HasRead
  <2> QED  BY <1>2, <2>1, OwnerAfterOne
<1> QED  BY <1>1, <1>2, <1>3, <1>4 DEF HasRead

\* What one more record does to a field of times.
TimeMoves(f, h, n, rc) ==
  LET x == f.fields[n] IN
  IF IsTimeOf(x, rc)
    THEN h.vals[n] \in Int /\ h.vals[n] = TimeOf(x.kind, rc.val)
    ELSE h.vals[n] = f.vals[n] \/ (x.oneof # None /\ h.vals[n] = None)

\* The records of a field, and one more.
LEMMA TimesByOne ==
  ASSUME NEW s, NEW x, NEW i \in Nat
  PROVE  IF IsTimeOf(x, s[i + 1])
           THEN TimesBy(s, x, i + 1) # {} /\ Max(TimesBy(s, x, i + 1)) = i + 1
           ELSE TimesBy(s, x, i + 1) = TimesBy(s, x, i)
<1> DEFINE T == TimesBy(s, x, i + 1)
<1>1. CASE IsTimeOf(x, s[i + 1])
  <2>1. i + 1 \in T /\ T \in SUBSET (0 .. i + 1) /\ i + 1 \in Nat
    BY <1>1 DEF TimesBy
  <2>2. T # {} /\ Max(T) \in T /\ \A k \in T : k <= Max(T)
    BY <2>1, MinMax
  <2> DEFINE m == Max(T)
  <2>3. m = i + 1
    BY <2>1, <2>2
  <2> QED  BY <1>1, <2>2, <2>3
<1>2. CASE ~ IsTimeOf(x, s[i + 1])
  BY <1>2 DEF TimesBy
<1> QED  BY <1>1, <1>2

\* The times after one more record.
LEMMA TimesOne ==
  ASSUME NEW f, NEW s, NEW i \in Nat, HasTimes(f, s, i), NEW h, h.fields = f.fields,
         \A n \in 1 .. Len(f.fields) : IsTimeField(f.fields, n) => TimeMoves(f, h, n, s[i + 1])
  PROVE  HasTimes(h, s, i + 1)
<1> SUFFICES ASSUME NEW n \in 1 .. Len(f.fields), IsTimeField(f.fields, n)
             PROVE  TimeAfter(h.vals[n], s, f.fields[n], i + 1)
  BY DEF HasTimes
<1> DEFINE x == f.fields[n]
           T == TimesBy(s, x, i + 1)
<1>1. TimeMoves(f, h, n, s[i + 1]) /\ TimeAfter(f.vals[n], s, x, i)
  BY DEF HasTimes
<1>2. CASE IsTimeOf(x, s[i + 1])
  <2>1. T # {} /\ Max(T) = i + 1
    BY <1>2, TimesByOne
  <2>2. h.vals[n] \in Int /\ h.vals[n] = TimeOf(x.kind, s[i + 1].val)
    BY <1>1, <1>2 DEF TimeMoves
  <2> QED  BY <2>1, <2>2 DEF TimeAfter
<1>3. CASE ~ IsTimeOf(x, s[i + 1])
  <2>1. T = TimesBy(s, x, i)
    BY <1>3, TimesByOne
  <2>2. h.vals[n] = f.vals[n] \/ (x.oneof # None /\ h.vals[n] = None)
    BY <1>1, <1>3 DEF TimeMoves
  <2> HIDE DEF x
  <2>3. TimeAfter(h.vals[n], s, x, i)
    BY <1>1, <2>2 DEF TimeAfter
  <2> QED  BY <2>1, <2>3 DEF TimeAfter, x
<1> QED  BY <1>2, <1>3

\* A claim leaves a field alone, or clears a member of a oneof.
LEMMA ClaimTimes ==
  ASSUME NEW f, Shape(f), NEW n \in 1 .. Len(f.fields), NEW p, NEW h, Claims(f, n, p, h),
         NEW k \in 1 .. Len(f.fields)
  PROVE  h.vals[k] = f.vals[k] \/ (f.fields[k].oneof # None /\ h.vals[k] = None)
<1>1. CASE ~ IsMember(f, n)
  BY <1>1 DEF Claims
<1>2. CASE IsMember(f, n)
  <2> DEFINE g == f.fields[n].oneof
  <2>1. /\ g \in Group
        /\ h.vals = [j \in DOMAIN f.vals |-> IF j = f.owner[g] /\ j # n THEN None ELSE f.vals[j]]
    BY <1>2 DEF Claims
  <2> HIDE DEF g
  <2>2. DOMAIN f.vals = 1 .. Len(f.fields) /\ OwnersAreMembers(f) /\ Len(f.fields) \in Nat
    BY FrameFields DEF Shape, GoodFields
  <2>3. CASE k = f.owner[g]
    <3>1. f.fields[k].oneof = g
      BY <2>1, <2>2, <2>3 DEF OwnersAreMembers
    <3>2. g # None
      BY <2>1, MessagesAssumption
    <3> QED  BY <2>1, <2>2, <3>1, <3>2
  <2>4. CASE k # f.owner[g]
    BY <2>1, <2>2, <2>4
  <2> QED  BY <2>3, <2>4
<1> QED  BY <1>1, <1>2

\* What reads on as another does has read as much.
LEMMA SameRead ==
  ASSUME NEW f, NEW s, NEW i, HasRead(f, s, i), NEW h, h.in = f.in, h.cls = f.cls, h.owner = f.owner
  PROVE  HasRead(h, s, i)
BY DEF HasRead

\* The owner of a oneof is no field or one of its members.
LEMMA OwnerIsMember ==
  ASSUME NEW s, NEW c, NEW g, NEW i \in Nat
  PROVE  OwnerAfter(s, c, g, i) = 0 \/ OwnerAfter(s, c, g, i) \in Members(c, g)
<1> DEFINE S == SetBy(s, c, g, i)
<1>1. CASE S = {}
  BY <1>1 DEF OwnerAfter
<1>2. CASE S # {}
  <2>1. S \in SUBSET (0 .. i)
    BY DEF SetBy
  <2>2. Max(S) \in S
    BY <1>2, <2>1, MinMax
  <2>3. SetsIn(c, g, s[Max(S)])
    BY <2>2 DEF SetBy
  <2> QED  BY <1>2, <2>3 DEF OwnerAfter, SetsIn
<1> QED  BY <1>1, <1>2

\* A claim leaves a value to every owner but the field that is claimed.
LEMMA ClaimHolds ==
  ASSUME NEW f, Shape(f), Holds(f, 0), NEW n \in 1 .. Len(f.fields), NEW p, NEW h, Claims(f, n, p, h)
  PROVE  Holds(h, n)
<1>1. h.fields = f.fields
  BY DEF Claims, Alike
<1>2. \A k : IsMember(h, k) <=> IsMember(f, k)
  BY <1>1 DEF IsMember
<1>3. Len(f.fields) \in Nat
  BY FrameFields DEF Shape, GoodFields
<1>4. CASE ~ IsMember(f, n)
  BY <1>1, <1>2, <1>3, <1>4 DEF Claims, Holds
<1>5. CASE IsMember(f, n)
  <2> DEFINE g == f.fields[n].oneof
  <2>1. /\ g \in Group
        /\ h.owner = [f.owner EXCEPT ![g] = n]
        /\ h.vals = [k \in DOMAIN f.vals |-> IF k = f.owner[g] /\ k # n THEN None ELSE f.vals[k]]
    BY <1>5 DEF Claims
  <2> HIDE DEF g
  <2>2. DOMAIN f.vals = 1 .. Len(f.fields) /\ DOMAIN f.owner = Group /\ OwnersAreMembers(f)
    BY DEF Shape
  <2> SUFFICES ASSUME NEW k \in 1 .. Len(f.fields), IsMember(f, k), k # n,
                      h.owner[f.fields[k].oneof] = k
               PROVE  h.vals[k] # None
    BY <1>1, <1>2 DEF Holds
  <2>3. f.fields[k].oneof \in Group
    <3>1. GoodField(f.fields[k])
      BY FrameFields DEF Shape, GoodFields
    <3> QED  BY <3>1 DEF GoodField, IsMember
  <2>4. f.fields[k].oneof # g /\ f.owner[f.fields[k].oneof] = k
    BY <2>1, <2>2, <2>3
  <2>5. k # f.owner[g]
    BY <1>3, <2>1, <2>2, <2>4 DEF OwnersAreMembers
  <2>6. f.vals[k] # None
    BY <1>3, <2>4 DEF Holds
  <2> QED  BY <2>1, <2>2, <2>5, <2>6
<1> QED  BY <1>4, <1>5

\* A value for the field that waits for it.
LEMMA PutHolds ==
  ASSUME NEW f, Shape(f), NEW n \in 1 .. Len(f.fields), Holds(f, n), NEW e, IsMember(f, n) => e # None,
         NEW h, h.fields = f.fields, h.owner = f.owner, h.vals = [f.vals EXCEPT ![n] = e]
  PROVE  Holds(h, 0)
<1> SUFFICES ASSUME NEW k \in 1 .. Len(f.fields), IsMember(f, k), f.owner[f.fields[k].oneof] = k
             PROVE  h.vals[k] # None
  BY DEF Holds, IsMember
<1>1. h.vals[k] = IF k = n THEN e ELSE f.vals[k]
  BY DEF Shape
<1> QED  BY <1>1 DEF Holds

\* What a step of the decoder does to the innermost frame: it ends the call,
\* reads past a record, stores the value of a record, waits for the value of a
\* record or of a map entry, or gives its own value to the frame below.
Passes(h) ==
  /\ Reading /\ Readable(rec) /\ ~ Known
  /\ h.in = Tail(top.in) /\ h.vals = top.vals /\ h.owner = top.owner
  /\ h.unknown = IF top.entry THEN top.unknown ELSE Append(top.unknown, rec)

IsTime(v) == v \in Int /\ v = TimeOf(field.kind, rec.val)

Stores(h) ==
  /\ Reading /\ Known
  /\ h.in = Taken.in /\ h.owner = Taken.owner /\ h.unknown = Taken.unknown
  /\ \E e : /\ h.vals = [Taken.vals EXCEPT ![idx] = e]
            /\ IsMember(Taken, idx) => e # None
            /\ field.kind \in Time /\ field.label = "optional" => IsTime(e)

Waits(h, c) ==
  \/ Reading /\ Known /\ field.kind \notin Time /\ h = Taken /\ c.into = idx
  \/ top.entry

Moves ==
  \/ dec' = <<>> /\ \/ decoded' \in {ValueError, OverflowError}
                    \/ Len(dec) = 1 /\ top.in = <<>> /\ decoded' = Instance(top)
  \/ \E h : Become(h) /\ Alike(top, h) /\ (Passes(h) \/ Stores(h))
  \/ \E h, c : Call(h, c) /\ Alike(top, h) /\ Waits(h, c)
  \/ \E v : ReturnValue(v) /\ Len(dec) > 1 /\ (~ top.entry => v # None)

\* A value that is delivered is stored, and is none but for None.
LEMMA DeliverStores ==
  ASSUME StackOK(dec), Reading, Known, NEW v, v # None, Become(Deliver(Taken, idx, v)),
         field.kind \in Time => IsTime(v)
  PROVE  Moves
<1> DEFINE h == Deliver(Taken, idx, v)
           e == Put(Taken.fields[idx], Taken.vals[idx], v)
<1>1. /\ Shape(Taken) /\ Alike(top, Taken) /\ idx \in 1 .. Len(Taken.fields)
      /\ Taken.fields[idx] = field /\ GoodField(field)
      /\ IsMember(Taken, idx) => Taken.owner[Taken.fields[idx].oneof] = idx
  BY TakenIs, KnownField
<1>2. /\ Alike(Taken, h) /\ h.owner = Taken.owner /\ h.in = Taken.in /\ h.unknown = Taken.unknown
      /\ h.vals = [Taken.vals EXCEPT ![idx] = e]
  BY <1>1, DeliverShape
<1>3. /\ IsMember(Taken, idx) => e = v
      /\ field.kind \in Time /\ field.label = "optional" => e = v
  BY <1>1 DEF IsMember, Put, GoodField, Time
<1> HIDE DEF h, e
<1>4. Stores(h)
  BY <1>2, <1>3 DEF Stores
<1>5. Alike(top, h)
  BY <1>1, <1>2 DEF Alike
<1>6. Become(h)
  BY DEF h
<1> QED  BY <1>4, <1>5, <1>6 DEF Moves

\* Every step is such a move.
LEMMA DecodeMoves ==
  ASSUME NoneIsApart, StackOK(dec), DecodeStep
  PROVE  Moves
<1>1. (\E error \in {ValueError, OverflowError} : Raise(error)) => Moves
  BY DEF Raise, Moves
<1>2. Fail => Moves
  BY <1>1 DEF Fail
<1>3. CASE Malformed
  BY <1>2, <1>3 DEF Malformed
<1>4. CASE Unknown
  <2> DEFINE h == [top EXCEPT !.in = Tail(@), !.unknown = IF top.entry THEN @ ELSE Append(@, rec)]
  <2>1. Become(h) /\ Reading /\ Readable(rec) /\ ~ Known
    BY <1>4 DEF Unknown
  <2>2. Shape(top)
    BY <2>1, TopIs DEF Reading
  <2>3. /\ Alike(top, h) /\ h.in = Tail(top.in) /\ h.vals = top.vals /\ h.owner = top.owner
        /\ h.unknown = IF top.entry THEN top.unknown ELSE Append(top.unknown, rec)
    BY <2>2 DEF Shape, IsFrame, Alike
  <2> HIDE DEF h
  <2> QED  BY <2>1, <2>3 DEF Moves, Passes
<1>5. CASE DecodePacked
  <2> DEFINE e == Taken.vals[idx] \o [k \in 1 .. Len(rec.val) |-> rec.val[k].bits]
             h == [Taken EXCEPT !.vals[idx] = e]
  <2>1. CASE AreBits(rec.val)
    <3>1. Become(h) /\ Reading /\ Known /\ Packed
      BY <1>5, <2>1 DEF DecodePacked
    <3>2. Shape(Taken) /\ Alike(top, Taken) /\ Taken.fields[idx] = field
      BY <3>1, TakenIs
    <3> HIDE DEF e
    <3>3. /\ Alike(Taken, h) /\ h.in = Taken.in /\ h.owner = Taken.owner /\ h.unknown = Taken.unknown
          /\ h.vals = [Taken.vals EXCEPT ![idx] = e]
      BY <3>2 DEF Shape, IsFrame, Alike
    <3>4. ~ IsMember(Taken, idx) /\ field.label # "optional"
      BY <3>1, <3>2 DEF Packed, IsMember
    <3> HIDE DEF h
    <3>5. Stores(h)
      BY <3>1, <3>3, <3>4 DEF Stores
    <3>6. Alike(top, h)
      BY <3>2, <3>3 DEF Alike
    <3> QED  BY <3>1, <3>5, <3>6 DEF Moves
  <2>2. CASE ~ AreBits(rec.val)
    BY <1>2, <1>5, <2>2 DEF DecodePacked
  <2> QED  BY <2>1, <2>2
<1>6. CASE DecodeValue
  <2>1. /\ rec.val \in Nat /\ Reading /\ Known /\ Become(Deliver(Taken, idx, rec.val))
        /\ field.kind \notin Time
    BY <1>6, ScalarIs DEF DecodeValue, Time
  <2>2. rec.val # None
    BY <2>1, MessagesAssumption
  <2> QED  BY <2>1, <2>2, DeliverStores
<1>7. CASE DecodeText
  <2>1. CASE AreChars(rec.val)
    <3>1. rec.val # None
      BY <2>1, ListOf DEF AreChars, NoneIsApart
    <3>2. Reading /\ Known /\ field.kind \notin Time /\ Become(Deliver(Taken, idx, rec.val))
      BY <1>7, <2>1 DEF DecodeText, Time
    <3> QED  BY <3>1, <3>2, DeliverStores
  <2>2. CASE ~ AreChars(rec.val)
    BY <1>2, <1>7, <2>2 DEF DecodeText
  <2> QED  BY <2>1, <2>2
<1>8. CASE DecodeTime
  <2> DEFINE time == TimeOf(field.kind, rec.val)
  <2>1. time \in Int \cup {ValueError, OverflowError}
    BY TimeIs
  <2>2. Reading /\ Known
        /\ IF time \in {ValueError, OverflowError} THEN Raise(time) ELSE Become(Deliver(Taken, idx, time))
    BY <1>8 DEF DecodeTime
  <2>5. IsTime(time) <=> time \in Int
    BY DEF IsTime
  <2> HIDE DEF time
  <2>3. CASE time \in {ValueError, OverflowError}
    BY <1>1, <2>2, <2>3
  <2>4. CASE time \notin {ValueError, OverflowError}
    <3>1. time # None /\ IsTime(time)
      BY <2>1, <2>4, <2>5, MessagesAssumption
    <3> QED  BY <2>2, <2>4, <3>1, DeliverStores
  <2> QED  BY <2>3, <2>4
<1>9. ASSUME Reading, Known, field.kind \notin Time, NEW c, Call(Taken, c), c.into = idx
      PROVE  Moves
  <2>1. Alike(top, Taken)
    BY <1>9, TakenIs
  <2>2. Waits(Taken, c)
    BY <1>9 DEF Waits
  <2> QED  BY <1>9, <2>1, <2>2 DEF Moves
<1>10. CASE DecodeNested
  <2> DEFINE c == MessageFrame(field.ref, rec.val, top.depth + 1, idx)
  <2>1. CASE top.depth + 1 > MaxDepth
    BY <1>2, <1>10, <2>1 DEF DecodeNested
  <2>2. CASE ~ (top.depth + 1 > MaxDepth)
    <3>1. Reading /\ Known /\ Call(Taken, c) /\ field.kind \notin Time
      BY <1>10, <2>2 DEF DecodeNested, Time
    <3>2. c.into = idx
      BY DEF MessageFrame, Frame
    <3> HIDE DEF c
    <3> QED  BY <1>9, <3>1, <3>2
  <2> QED  BY <2>1, <2>2
<1>11. CASE DecodeMapEntry
  <2> DEFINE c == EntryFrame(field, rec.val, top.depth, idx)
  <2>1. Reading /\ Known /\ Call(Taken, c) /\ field.kind \notin Time
    BY <1>11 DEF DecodeMapEntry, Time
  <2>2. c.into = idx
    BY DEF EntryFrame, Frame
  <2> HIDE DEF c
  <2> QED  BY <1>9, <2>1, <2>2
<1>12. CASE EndRoot
  BY <1>12 DEF EndRoot, AtEnd, Moves
<1>13. CASE EndNested
  <2> DEFINE v == Instance(top)
  <2>1. ReturnValue(v) /\ Len(dec) > 1
    BY <1>13 DEF EndNested
  <2>2. v # None
    BY DEF Instance, NoneIsApart
  <2> HIDE DEF v
  <2> QED  BY <2>1, <2>2 DEF Moves
<1>14. CASE EndEntry
  <2> DEFINE v == <<EntryPart(1), EntryPart(2)>>
  <2>1. ReturnValue(v) /\ top.entry /\ dec # <<>>
    BY <1>14 DEF EndEntry, AtEnd
  <2>2. Len(dec) \in Nat \ {0} /\ top = dec[Len(dec)] /\ ~ dec[1].entry
    BY <2>1, TopIs DEF StackOK
  <2>3. Len(dec) > 1
    BY <2>1, <2>2
  <2> HIDE DEF v
  <2> QED  BY <2>1, <2>3 DEF Moves
<1>15. CASE DefaultMessage
  <2> DEFINE c == MessageFrame(top.fields[2].ref, <<>>, top.depth + 1, 2)
  <2>1. CASE top.depth + 1 > MaxDepth
    BY <1>2, <1>15, <2>1 DEF DefaultMessage
  <2>2. CASE ~ (top.depth + 1 > MaxDepth)
    <3>1. top.entry /\ Call(top, c)
      BY <1>15, <2>2 DEF DefaultMessage
    <3>2. Alike(top, top) /\ Waits(top, c)
      BY <3>1 DEF Alike, Waits
    <3> HIDE DEF c
    <3> QED  BY <3>1, <3>2 DEF Moves
  <2> QED  BY <2>1, <2>2
<1> QED
  BY <1>3, <1>4, <1>5, <1>6, <1>7, <1>8, <1>10, <1>11, <1>12, <1>13, <1>14, <1>15 DEF DecodeStep

Waiting(stack) == IF Len(stack) > 1 THEN stack[2].into ELSE 0

\* The outermost frame has read some of s, has the times of what it has read,
\* and its owners have their values.
RootOK(stack, s) ==
  /\ \E i \in 0 .. Len(s) : HasRead(stack[1], s, i) /\ HasTimes(stack[1], s, i)
  /\ Holds(stack[1], Waiting(stack))

\* In the instance that s was decoded to, the last member of every group has a
\* value and no other member has one.
LastHas(m, s) ==
  \A g \in Group : \A n \in Members(m.cls, g) :
    m.vals[n] # None <=> n = OwnerAfter(s, m.cls, g, Len(s))

\* Its times are those of the last records of their fields.
TimesHave(m, s) ==
  \A n \in 1 .. Len(Fields[m.cls]) :
    IsTimeField(Fields[m.cls], n) => TimeAfter(m.vals[n], s, Fields[m.cls][n], Len(s))

Has(m, s) == LastHas(m, s) /\ TimesHave(m, s)

\* A step above the outermost frame leaves it alone.
LEMMA DeepMoves ==
  ASSUME StackOK(dec), NEW s, RootOK(dec, s), NEW m \in 2 .. Len(dec), NEW h, Alike(dec[m], h)
  PROVE  /\ Cut(dec, m, h) # <<>> /\ RootOK(Cut(dec, m, h), s)
         /\ \A c : Append(Cut(dec, m, h), c) # <<>> /\ RootOK(Append(Cut(dec, m, h), c), s)
<1> DEFINE t == Cut(dec, m, h)
<1>0. IsList(dec) /\ Len(dec) \in Nat /\ m \in 1 .. Len(dec) /\ m \in Nat
  BY ListLen DEF StackOK
<1>1. IsList(t) /\ Len(t) = m /\ (\A k \in 1 .. m - 1 : t[k] = dec[k]) /\ t[m] = h
  BY <1>0, CutIs
<1> HIDE DEF t
<1>2. t[1] = dec[1] /\ t[2].into = dec[2].into
  <2>1. CASE m = 2
    BY <1>0, <1>1, <2>1 DEF Alike
  <2>2. CASE m > 2
    BY <1>0, <1>1, <2>2
  <2> QED  BY <1>0, <2>1, <2>2
<1>3. Len(dec) > 1 /\ Len(t) > 1
  BY <1>0, <1>1
<1>4. t # <<>> /\ RootOK(t, s)
  BY <1>1, <1>2, <1>3, ListLen DEF RootOK, Waiting
<1>5. ASSUME NEW c  PROVE Append(t, c) # <<>> /\ RootOK(Append(t, c), s)
  <2> DEFINE u == Append(t, c)
  <2>1. IsList(u) /\ Len(u) = m + 1 /\ \A k \in 1 .. m : u[k] = t[k]
    BY <1>1, ListAppend
  <2> HIDE DEF u
  <2>2. u[1] = t[1] /\ u[2] = t[2] /\ Len(u) > 1
    BY <1>0, <2>1
  <2>3. u # <<>>
    BY <2>1, <2>2, ListLen
  <2> QED  BY <1>2, <1>3, <2>2, <2>3 DEF RootOK, Waiting, u
<1> QED  BY <1>4, <1>5 DEF t

\* The same of a step of the innermost frame.
LEMMA TopMoves ==
  ASSUME StackOK(dec), dec # <<>>, Len(dec) # 1, NEW s, RootOK(dec, s), NEW h, Alike(top, h)
  PROVE  /\ Cut(dec, Len(dec), h) # <<>> /\ RootOK(Cut(dec, Len(dec), h), s)
         /\ \A c : /\ Append(Cut(dec, Len(dec), h), c) # <<>>
                   /\ RootOK(Append(Cut(dec, Len(dec), h), c), s)
<1> DEFINE m == Len(dec)
<1>1. m \in Nat \ {0} /\ m # 1 /\ Alike(dec[m], h)
  BY TopIs
<1>2. m \in 2 .. Len(dec)
  <2>1. \A k \in Nat \ {0} : k # 1 => k \in 2 .. k
    OBVIOUS
  <2> HIDE DEF m
  <2>2. m \in 2 .. m
    BY <1>1, <2>1
  <2> QED  BY <2>2 DEF m
<1> HIDE DEF m
<1>3. /\ Cut(dec, m, h) # <<>> /\ RootOK(Cut(dec, m, h), s)
      /\ \A c : Append(Cut(dec, m, h), c) # <<>> /\ RootOK(Append(Cut(dec, m, h), c), s)
  BY <1>1, <1>2, DeepMoves
<1> QED  BY <1>3 DEF m

\* The outermost frame alone, or below one that was pushed for a field.
LEMMA RootMoves ==
  ASSUME StackOK(dec), dec # <<>>, NEW s, NEW i \in 0 .. Len(s), NEW h,
         HasRead(h, s, i), HasTimes(h, s, i)
  PROVE  /\ Holds(h, 0) => Cut(dec, 1, h) # <<>> /\ RootOK(Cut(dec, 1, h), s)
         /\ \A c : Holds(h, c.into) =>
              Append(Cut(dec, 1, h), c) # <<>> /\ RootOK(Append(Cut(dec, 1, h), c), s)
<1> DEFINE t == Cut(dec, 1, h)
<1>0. IsList(dec) /\ Len(dec) \in Nat \ {0}
  BY ListLen DEF StackOK
<1>1. IsList(t) /\ Len(t) = 1 /\ t[1] = h
  <2> DEFINE one == 1
  <2>1. one \in 1 .. Len(dec)
    BY <1>0
  <2> HIDE DEF one
  <2>2. IsList(Cut(dec, one, h)) /\ Len(Cut(dec, one, h)) = one /\ Cut(dec, one, h)[one] = h
    BY <1>0, <2>1, CutIs
  <2> QED  BY <2>2 DEF one
<1> HIDE DEF t
<1>2. ASSUME Holds(h, 0)  PROVE t # <<>> /\ RootOK(t, s)
  <2>1. Waiting(t) = 0 /\ t # <<>>
    BY <1>1, ListLen DEF Waiting
  <2> QED  BY <1>1, <1>2, <2>1 DEF RootOK
<1>3. ASSUME NEW c, Holds(h, c.into)  PROVE Append(t, c) # <<>> /\ RootOK(Append(t, c), s)
  <2> DEFINE u == Append(t, c)
  <2>1. IsList(u) /\ Len(u) = Len(t) + 1 /\ (\A k \in 1 .. Len(t) : u[k] = t[k]) /\ u[Len(t) + 1] = c
    BY <1>1, ListAppend
  <2> HIDE DEF u
  <2>2. Len(u) = 2 /\ u[1] = h /\ u[2] = c
    BY <1>1, <2>1
  <2>3. u # <<>>
    BY <2>1, <2>2, ListLen
  <2> QED  BY <1>3, <2>2, <2>3 DEF RootOK, Waiting, u
<1> QED  BY <1>2, <1>3 DEF t

\* Which groups the record that is read next sets a member of.
LEMMA RecordSets ==
  ASSUME StackOK(dec), Reading, Len(dec) = 1, Readable(rec), NEW g \in Group
  PROVE  /\ ~ Known => ~ SetsIn(top.cls, g, rec)
         /\ Known => (SetsIn(top.cls, g, rec) <=> IsMember(top, idx) /\ top.fields[idx].oneof = g)
         /\ idx = FirstDeclared(Fields[top.cls], rec.num)
<1>1. Shape(top) /\ ~ top.entry /\ GoodFields(top.fields)
  BY TopIs DEF Reading, StackOK
<1>2. top.fields = Fields[top.cls] /\ idx = FirstDeclared(Fields[top.cls], rec.num)
  BY <1>1 DEF Shape, Kin, KinOf, idx
<1>3. SetsIn(top.cls, g, rec) <=> /\ idx \in 1 .. Len(top.fields)
                                  /\ top.fields[idx].oneof = g /\ top.fields[idx].label = "optional"
                                  /\ Accepts(top.fields[idx], rec.wire)
  BY <1>2 DEF SetsIn, Members
<1>4. g # None
  BY MessagesAssumption
<1>5. Known => idx \in 1 .. Len(top.fields)
  BY KnownField
<1>6. idx \in 1 .. Len(top.fields) => idx # 0
  BY <1>1 DEF GoodFields
<1> QED  BY <1>2, <1>3, <1>4, <1>5, <1>6 DEF Known, field, IsMember

\* The times of the outermost frame after a record that it read.
LEMMA RootTimes ==
  ASSUME StackOK(dec), Reading, Readable(rec), NEW s, NEW i, Len(s) \in Nat,
         HasRead(top, s, i), HasTimes(top, s, i), NEW h, Alike(top, h),
         Passes(h) \/ Stores(h) \/ (Known /\ field.kind \notin Time /\ h = Taken)
  PROVE  HasTimes(h, s, i + 1)
<1>0. /\ i \in Nat /\ Shape(top) /\ GoodFields(top.fields) /\ h.fields = top.fields
      /\ idx = FirstDeclared(top.fields, rec.num)
  BY TopIs DEF Reading, HasRead, Alike, idx
<1>1. s[i + 1] = rec
  <2>1. IsList(top.in) /\ top.in # <<>> /\ top.in[1] = rec
    BY ListTail DEF HasRead, Reading, rec
  <2>2. 1 \in 1 .. Len(top.in)
    BY <2>1, ListLen
  <2> QED  BY <2>1, <2>2 DEF HasRead
<1>2. ASSUME NEW n \in 1 .. Len(top.fields), IsTimeField(top.fields, n)  PROVE TimeMoves(top, h, n, rec)
  <2> DEFINE x == top.fields[n]
  <2>1. x.kind \in Time /\ x.label = "optional" /\ FirstDeclared(top.fields, x.num) = n
    BY <1>2 DEF IsTimeField
  <2>2. n # 0 /\ WireOf(x.kind) = "len"
    BY <1>0, <2>1 DEF GoodFields, WireOf, Time
  <2>3. IsTimeOf(x, rec) => idx = n /\ Known /\ field = x
    BY <1>0, <2>1, <2>2 DEF IsTimeOf, Known, field, Accepts
  <2>4. Known /\ idx = n => IsTimeOf(x, rec) /\ field = x
    BY <2>1, <2>2, KnownField DEF IsTimeOf, Known, field, Accepts
  <2>5. Known => /\ idx \in 1 .. Len(top.fields) /\ Claims(top, idx, Tail(top.in), Taken)
                 /\ Shape(Taken) /\ Taken.fields = top.fields
    BY TakenIs, KnownField DEF Alike
  <2>6. TimeMoves(top, h, n, rec)
           <=> IF IsTimeOf(x, rec)
                 THEN h.vals[n] \in Int /\ h.vals[n] = TimeOf(x.kind, rec.val)
                 ELSE h.vals[n] = top.vals[n] \/ (x.oneof # None /\ h.vals[n] = None)
    BY DEF TimeMoves
  <2> HIDE DEF x
  <2>7. Known => Taken.vals[n] = top.vals[n] \/ (x.oneof # None /\ Taken.vals[n] = None)
    BY <1>0, <2>5, ClaimTimes DEF x
  <2>8. CASE Passes(h)
    <3>1. ~ Known /\ h.vals = top.vals
      BY <2>8 DEF Passes
    <3>2. ~ IsTimeOf(x, rec)
      BY <2>3, <3>1
    <3> QED  BY <2>6, <3>1, <3>2
  <2>9. CASE Stores(h)
    <3>1. PICK e : /\ h.vals = [Taken.vals EXCEPT ![idx] = e]
                   /\ field.kind \in Time /\ field.label = "optional" => IsTime(e)
      BY <2>9 DEF Stores
    <3>2. Known /\ h.vals[n] = IF n = idx THEN e ELSE Taken.vals[n]
      BY <2>5, <2>9, <3>1 DEF Stores, Shape
    <3>3. CASE n = idx
      <4>1. IsTime(e) /\ IsTimeOf(x, rec) /\ field = x
        BY <2>1, <2>4, <3>1, <3>2, <3>3
      <4> QED  BY <2>6, <3>2, <3>3, <4>1 DEF IsTime
    <3>4. CASE n # idx
      <4>1. ~ IsTimeOf(x, rec)
        BY <2>3, <3>4
      <4> QED  BY <2>7, <2>6, <3>2, <3>4, <4>1
    <3> QED  BY <3>3, <3>4
  <2>10. CASE Known /\ field.kind \notin Time /\ h = Taken
    <3>1. ~ IsTimeOf(x, rec)
      BY <2>1, <2>3, <2>10
    <3> QED  BY <2>7, <2>10, <2>6, <3>1
  <2> QED  BY <2>8, <2>9, <2>10
<1> QED  BY <1>0, <1>1, <1>2, TimesOne

\* A move of the outermost frame.
LEMMA RootReads ==
  ASSUME StackOK(dec), Reading, Len(dec) = 1, NEW s, IsList(s), NEW i \in 0 .. Len(s),
         HasRead(top, s, i), HasTimes(top, s, i), Holds(top, 0), NEW h, Alike(top, h),
         Passes(h) \/ Stores(h)
  PROVE  /\ HasRead(h, s, i + 1) /\ HasTimes(h, s, i + 1) /\ i + 1 \in 0 .. Len(s)
         /\ Holds(h, 0)
<1>0. /\ Len(s) \in Nat /\ top.in # <<>> /\ Shape(top) /\ h.cls = top.cls /\ h.fields = top.fields
      /\ rec = Head(top.in)
  BY ListLen, TopIs DEF Reading, Alike, rec
<1>3. HasTimes(h, s, i + 1)
  <2>1. Readable(rec)
    BY DEF Passes, Stores, Known
  <2> QED  BY <1>0, <2>1, RootTimes
<1>1. CASE Passes(h)
  <2>1. Readable(rec) /\ ~ Known /\ h.in = Tail(top.in) /\ h.vals = top.vals /\ h.owner = top.owner
    BY <1>1 DEF Passes
  <2>2. \A g \in Group : h.owner[g] = IF SetsIn(top.cls, g, Head(top.in))
                                         THEN FirstDeclared(Fields[top.cls], Head(top.in).num)
                                         ELSE top.owner[g]
    BY <1>0, <2>1, RecordSets
  <2>3. HasRead(h, s, i + 1)
    BY <1>0, <2>1, <2>2, ReadOne
  <2>4. Holds(h, 0)
    BY <1>0, <2>1 DEF Holds, IsMember
  <2> QED  BY <1>3, <2>3, <2>4 DEF HasRead
<1>2. CASE Stores(h)
  <2>1. Known /\ h.in = Taken.in /\ h.owner = Taken.owner /\ Readable(rec)
    BY <1>2 DEF Stores, Known
  <2>2. PICK e : h.vals = [Taken.vals EXCEPT ![idx] = e] /\ (IsMember(Taken, idx) => e # None)
    BY <1>2 DEF Stores
  <2>3. Claims(top, idx, Tail(top.in), Taken) /\ Shape(Taken) /\ Alike(top, Taken)
        /\ idx \in 1 .. Len(Taken.fields)
    BY <2>1, TakenIs
  <2>4. idx \in 1 .. Len(top.fields) /\ h.fields = Taken.fields
    BY <1>0, <2>3 DEF Alike
  <2>5. Holds(Taken, idx)
    BY <1>0, <2>3, <2>4, ClaimHolds
  <2>6. Holds(h, 0)
    BY <2>1, <2>2, <2>3, <2>4, <2>5, PutHolds
  <2>7. h.in = Tail(top.in)
    BY <2>1, <2>3 DEF Claims
  <2>8. \A g \in Group : h.owner[g] = IF SetsIn(top.cls, g, Head(top.in))
                                         THEN FirstDeclared(Fields[top.cls], Head(top.in).num)
                                         ELSE top.owner[g]
    <3> SUFFICES ASSUME NEW g \in Group
                 PROVE  h.owner[g] = IF SetsIn(top.cls, g, rec) THEN idx ELSE top.owner[g]
      BY <1>0, <2>1, RecordSets
    <3>1. SetsIn(top.cls, g, rec) <=> IsMember(top, idx) /\ top.fields[idx].oneof = g
      BY <2>1, RecordSets
    <3>2. DOMAIN top.owner = Group
      BY <1>0 DEF Shape
    <3> QED  BY <2>1, <2>3, <3>1, <3>2 DEF Claims
  <2>9. HasRead(h, s, i + 1)
    BY <1>0, <2>7, <2>8, ReadOne
  <2> QED  BY <1>3, <2>6, <2>9 DEF HasRead
<1> QED  BY <1>1, <1>2

\* The end of the outermost frame: its owners are the members with a value.
LEMMA RootEnd ==
  ASSUME StackOK(dec), dec # <<>>, Len(dec) = 1, top.in = <<>>, NEW s, IsList(s),
         RootOK(dec, s)
  PROVE  Has(Instance(top), s)
<1> DEFINE m == Instance(top)
<1>1. Shape(top) /\ ~ top.entry /\ top = dec[1]
  BY TopIs DEF StackOK
<1>2. top.cls \in Class /\ top.fields = Fields[top.cls] /\ Len(top.fields) \in Nat
      /\ DOMAIN top.fields = 1 .. Len(top.fields)
  BY <1>1, ClassFields DEF Shape, Kin, KinOf, GoodFields
<1>3. PICK i \in 0 .. Len(s) : HasRead(top, s, i) /\ HasTimes(top, s, i)
  BY <1>1 DEF RootOK
<1>4. i = Len(s)
  <2>1. Len(s) \in Nat /\ Len(<<>>) = 0
    BY ListLen, EmptySeq
  <2> QED  BY <1>3, <2>1 DEF HasRead
<1>5. Holds(top, 0)
  BY <1>1 DEF RootOK, Waiting
<1>6. m.cls = top.cls /\ \A n \in 1 .. Len(top.fields) :
        m.vals[n] = IF top.vals[n] = None THEN Default(top.fields[n]) ELSE top.vals[n]
  BY <1>2 DEF Instance
<1> HIDE DEF m
<1>7. ASSUME NEW g \in Group, NEW n \in Members(m.cls, g)
      PROVE  m.vals[n] # None <=> n = OwnerAfter(s, m.cls, g, Len(s))
  <2>1. n \in 1 .. Len(top.fields) /\ top.fields[n].oneof = g /\ top.fields[n].label = "optional"
    BY <1>2, <1>6, <1>7 DEF Members
  <2>2. IsMember(top, n)
    BY <2>1, MessagesAssumption DEF IsMember
  <2>3. m.vals[n] # None <=> top.vals[n] # None
    BY <1>6, <2>1 DEF Default
  <2>4. top.vals[n] # None => top.owner[g] = n
    BY <1>1, <2>1, <2>2 DEF Shape, OwnersHold
  <2>5. top.owner[g] = n => top.vals[n] # None
    BY <1>2, <1>5, <2>1, <2>2 DEF Holds
  <2>6. top.owner[g] = OwnerAfter(s, m.cls, g, Len(s))
    BY <1>3, <1>4, <1>6 DEF HasRead
  <2> QED  BY <2>3, <2>4, <2>5, <2>6
<1>8. ASSUME NEW n \in 1 .. Len(top.fields), IsTimeField(top.fields, n)
      PROVE  TimeAfter(m.vals[n], s, top.fields[n], Len(s))
  <2>1. m.vals[n] = top.vals[n]
    BY <1>6, <1>8 DEF Default, IsTimeField
  <2> QED  BY <1>3, <1>4, <1>8, <2>1 DEF HasTimes
<1>9. LastHas(m, s)
  BY <1>7 DEF LastHas
<1>10. TimesHave(m, s)
  BY <1>2, <1>6, <1>8 DEF TimesHave
<1> QED  BY <1>9, <1>10 DEF Has, m

\* A step of the decoder on the message s.
LEMMA RootStep ==
  ASSUME StackOK(dec), dec # <<>>, NEW s, IsList(s), RootOK(dec, s), Moves
  PROVE  \/ dec' = <<>> /\ (decoded' \in {ValueError, OverflowError} \/ Has(decoded', s))
         \/ dec' # <<>> /\ RootOK(dec', s) /\ decoded' = decoded
<1>0. Len(dec) \in Nat \ {0} /\ IsList(dec) /\ top = dec[Len(dec)] /\ Shape(top) /\ ~ dec[1].entry
  BY TopIs DEF StackOK
<1>1. CASE dec' = <<>> /\ \/ decoded' \in {ValueError, OverflowError}
                          \/ Len(dec) = 1 /\ top.in = <<>> /\ decoded' = Instance(top)
  BY <1>1, RootEnd
<1>2. CASE \E h : Become(h) /\ Alike(top, h) /\ (Passes(h) \/ Stores(h))
  <2>1. PICK h : Become(h) /\ Alike(top, h) /\ (Passes(h) \/ Stores(h))
    BY <1>2
  <2>2. dec' = Cut(dec, Len(dec), h) /\ decoded' = decoded
    BY <1>0, <2>1, StackMoves
  <2>3. CASE Len(dec) = 1
    <3>1. PICK i \in 0 .. Len(s) : HasRead(top, s, i) /\ HasTimes(top, s, i)
      BY <1>0, <2>3 DEF RootOK
    <3>2. Holds(top, 0) /\ Reading
      BY <1>0, <2>1, <2>3 DEF RootOK, Waiting, Passes, Stores
    <3>3. /\ HasRead(h, s, i + 1) /\ HasTimes(h, s, i + 1) /\ i + 1 \in 0 .. Len(s)
          /\ Holds(h, 0)
      BY <2>1, <2>3, <3>1, <3>2, RootReads
    <3>4. Cut(dec, 1, h) # <<>> /\ RootOK(Cut(dec, 1, h), s)
      BY <3>3, RootMoves
    <3> QED  BY <2>2, <2>3, <3>4
  <2>4. CASE Len(dec) # 1
    <3>1. Cut(dec, Len(dec), h) # <<>> /\ RootOK(Cut(dec, Len(dec), h), s)
      BY <2>1, <2>4, TopMoves
    <3> QED  BY <2>2, <3>1
  <2> QED  BY <2>3, <2>4
<1>3. CASE \E h, c : Call(h, c) /\ Alike(top, h) /\ Waits(h, c)
  <2>1. PICK h, c : Call(h, c) /\ Alike(top, h) /\ Waits(h, c)
    BY <1>3
  <2>2. dec' = Append(Cut(dec, Len(dec), h), c) /\ decoded' = decoded
    BY <1>0, <2>1, StackMoves
  <2>3. CASE Len(dec) = 1
    <3>1. PICK i \in 0 .. Len(s) : HasRead(top, s, i) /\ HasTimes(top, s, i)
      BY <1>0, <2>3 DEF RootOK
    <3>2. Holds(top, 0) /\ Reading /\ Known /\ field.kind \notin Time /\ h = Taken /\ c.into = idx
      BY <1>0, <2>1, <2>3 DEF RootOK, Waiting, Waits
    <3>3. /\ Claims(top, idx, Tail(top.in), h) /\ Shape(h) /\ idx \in 1 .. Len(top.fields)
      BY <3>2, TakenIs, KnownField
    <3>4. Holds(h, c.into)
      BY <1>0, <3>2, <3>3, ClaimHolds
    <3>5. HasRead(h, s, i + 1) /\ HasTimes(h, s, i + 1) /\ i + 1 \in 0 .. Len(s)
      <4>1. Len(s) \in Nat /\ top.in # <<>> /\ h.cls = top.cls /\ h.in = Tail(top.in)
            /\ rec = Head(top.in) /\ Readable(rec) /\ DOMAIN top.owner = Group
        BY <1>0, <2>1, <3>2, <3>3, ListLen DEF Reading, Known, Alike, Claims, rec, Shape
      <4>2. \A g \in Group : h.owner[g] = IF SetsIn(top.cls, g, Head(top.in))
                                             THEN FirstDeclared(Fields[top.cls], Head(top.in).num)
                                             ELSE top.owner[g]
        <5> SUFFICES ASSUME NEW g \in Group
                     PROVE  h.owner[g] = IF SetsIn(top.cls, g, rec) THEN idx ELSE top.owner[g]
          BY <2>3, <3>2, <4>1, RecordSets
        <5>1. SetsIn(top.cls, g, rec) <=> IsMember(top, idx) /\ top.fields[idx].oneof = g
          BY <2>3, <3>2, <4>1, RecordSets
        <5> QED  BY <3>3, <4>1, <5>1 DEF Claims
      <4>3. HasRead(h, s, i + 1)
        BY <3>1, <4>1, <4>2, ReadOne
      <4>4. HasTimes(h, s, i + 1)
        BY <2>1, <3>1, <3>2, <4>1, RootTimes
      <4> QED  BY <4>3, <4>4 DEF HasRead
    <3>6. Append(Cut(dec, 1, h), c) # <<>> /\ RootOK(Append(Cut(dec, 1, h), c), s)
      BY <3>4, <3>5, RootMoves
    <3> QED  BY <2>2, <2>3, <3>6
  <2>4. CASE Len(dec) # 1
    <3>1. Append(Cut(dec, Len(dec), h), c) # <<>> /\ RootOK(Append(Cut(dec, Len(dec), h), c), s)
      BY <2>1, <2>4, TopMoves
    <3> QED  BY <2>2, <3>1
  <2> QED  BY <2>3, <2>4
<1>4. CASE \E v : ReturnValue(v) /\ Len(dec) > 1 /\ (~ top.entry => v # None)
  <2>1. PICK v : ReturnValue(v) /\ Len(dec) > 1 /\ (~ top.entry => v # None)
    BY <1>4
  <2> DEFINE n == Len(dec) - 1
             h == Deliver(dec[n], top.into, v)
             e == Put(dec[n].fields[top.into], dec[n].vals[top.into], v)
  <2>2. dec' = Cut(dec, n, h) /\ decoded' = decoded
    BY <1>0, <2>1, StackMoves
  <2>3. n \in 1 .. Len(dec) - 1 /\ n + 1 = Len(dec) /\ n \in 1 .. Len(dec)
    BY <1>0, <2>1
  <2> HIDE DEF n
  <2>4. Shape(dec[n]) /\ Into(dec[n], top)
    BY <1>0, <2>3 DEF StackOK
  <2>5. top.into \in 1 .. Len(dec[n].fields) /\ GoodField(dec[n].fields[top.into])
    BY <2>4, FrameFields DEF Into, Shape, GoodFields
  <2>6. /\ Alike(dec[n], h) /\ h.owner = dec[n].owner /\ h.in = dec[n].in
        /\ h.vals = [dec[n].vals EXCEPT ![top.into] = e]
    BY <2>4, <2>5, DeliverShape DEF Into
  <2>7. IsMember(dec[n], top.into) => e # None
    BY <2>1, <2>4, <2>5 DEF IsMember, Into, Put, GoodField
  <2> HIDE DEF h, e
  <2>8. CASE n = 1
    <3>1. PICK i \in 0 .. Len(s) : HasRead(dec[1], s, i) /\ HasTimes(dec[1], s, i)
      BY DEF RootOK
    <3>2. HasRead(h, s, i) /\ HasTimes(h, s, i)
      <4>1. HasRead(h, s, i)
        BY <2>6, <2>8, <3>1, SameRead DEF Alike
      <4>2. \A k \in 1 .. Len(h.fields) : k # top.into => h.vals[k] = dec[1].vals[k]
        BY <2>4, <2>6, <2>8 DEF Shape, Alike
      <4>3. dec[1].fields[top.into].kind \notin Time
        BY <2>4, <2>8 DEF Into, Time
      <4>4. h.fields = dec[1].fields
        BY <2>6, <2>8 DEF Alike
      <4>5. HasTimes(h, s, i)
        BY <3>1, <4>2, <4>3, <4>4 DEF HasTimes, IsTimeField
      <4> QED  BY <4>1, <4>5
    <3>3. Holds(dec[1], top.into)
      <4>1. Len(dec) = 2
        BY <2>3, <2>8
      <4>2. top = dec[2]
        BY <1>0, <4>1
      <4> QED  BY <4>1, <4>2 DEF RootOK, Waiting
    <3>4. Holds(h, 0)
      BY <2>4, <2>5, <2>6, <2>7, <2>8, <3>3, PutHolds DEF Alike
    <3>5. Cut(dec, 1, h) # <<>> /\ RootOK(Cut(dec, 1, h), s)
      BY <3>2, <3>4, RootMoves
    <3> QED  BY <2>2, <2>8, <3>5
  <2>9. CASE n # 1
    <3>1. n \in 2 .. Len(dec)
      BY <1>0, <2>3, <2>9
    <3>2. Cut(dec, n, h) # <<>> /\ RootOK(Cut(dec, n, h), s)
      BY <2>6, <3>1, DeepMoves
    <3> QED  BY <2>2, <3>2
  <2> QED  BY <2>8, <2>9
<1> QED  BY <1>1, <1>2, <1>3, <1>4 DEF Moves

-----------------------------------------------------------------------------
(* The first message on the path. *)

FirstInv ==
  /\ IsList(streams) /\ Len(streams) > 0
  /\ streams[1] # None =>
       /\ IsList(streams[1])
       /\ insts = <<>> => /\ Len(streams) = 1 /\ enc = <<>> /\ encoded = None
                          /\ dec # <<>> => RootOK(dec, streams[1])
                          /\ \/ decoded \in {None, ValueError, OverflowError}
                             \/ Has(decoded, streams[1])
       /\ insts # <<>> => Has(insts[1], streams[1])

\* The invariant holds at first.
LEMMA InitFirst == Init => FirstInv
<1> SUFFICES ASSUME Init  PROVE FirstInv
  OBVIOUS
<1>1. dec = <<>> /\ enc = <<>> /\ decoded = None /\ encoded = None /\ path \in Paths
  BY DEF Init
<1>2. CASE insts = <<>> /\ \E s \in Streams[path] : streams = <<s>>
  <2>1. PICK s \in Streams[path] : streams = <<s>>
    BY <1>2
  <2>2. streams \in Seq({s}) /\ Len(streams) = 1 /\ streams[1] = s
    BY <2>1
  <2>3. IsList(streams) /\ IsList(s)
    BY <1>1, <2>2, ListOf, RelayAssumption DEF IsList
  <2> QED  BY <1>1, <1>2, <2>2, <2>3 DEF FirstInv
<1>3. CASE streams = <<None>>
  <2>1. streams \in Seq({None}) /\ Len(streams) = 1 /\ streams[1] = None
    BY <1>3
  <2>2. IsList(streams)
    BY <2>1, ListOf
  <2> QED  BY <2>1, <2>2 DEF FirstInv
<1> QED  BY <1>2, <1>3 DEF Init

\* Nothing has been read of a message when its decoder starts.
LEMMA StartReads ==
  ASSUME NEW c \in Class, NEW s, IsList(s)
  PROVE  RootOK(<<MessageFrame(c, s, 0, 0)>>, s)
<1> DEFINE f == MessageFrame(c, s, 0, 0)
           t == <<f>>
<1>1. /\ f.in = s /\ f.cls = c /\ f.owner = [g \in Group |-> 0] /\ f.fields = Fields[c]
      /\ f.vals = [k \in 1 .. Len(Fields[c]) |-> Unseen(Fields[c][k])]
  BY DEF MessageFrame, Frame
<1>2. t[1] = f /\ Len(t) = 1
  OBVIOUS
<1> HIDE DEF f, t
<1>3. Len(s) \in Nat /\ GoodFields(Fields[c])
  BY ListLen, ClassFields
<1>4. \A g : OwnerAfter(s, c, g, 0) = 0
  BY DEF OwnerAfter, SetBy
<1>5. HasRead(f, s, 0)
  BY <1>1, <1>3, <1>4 DEF HasRead
<1>6. Holds(f, 0)
  <2> SUFFICES ASSUME NEW n \in 1 .. Len(f.fields), IsMember(f, n), f.owner[f.fields[n].oneof] = n
               PROVE  FALSE
    BY DEF Holds
  <2>1. GoodField(f.fields[n])
    BY <1>1, <1>3 DEF GoodFields
  <2>2. f.fields[n].oneof \in Group
    BY <2>1 DEF GoodField, IsMember
  <2> QED  BY <1>1, <1>3, <2>2 DEF GoodFields
<1>7. 0 \in 0 .. Len(s)
  BY <1>3
<1>8. HasTimes(f, s, 0)
  <2> SUFFICES ASSUME NEW n \in 1 .. Len(f.fields), IsTimeField(f.fields, n)
               PROVE  TimeAfter(f.vals[n], s, f.fields[n], 0)
    BY DEF HasTimes
  <2>1. f.vals[n] = None
    BY <1>1 DEF IsTimeField, Unseen, Time
  <2>2. TimesBy(s, f.fields[n], 0) = {}
    BY DEF TimesBy
  <2> QED  BY <2>1, <2>2 DEF TimeAfter
<1>9. RootOK(t, s)
  BY <1>2, <1>5, <1>6, <1>7, <1>8 DEF RootOK, Waiting
<1> QED  BY <1>9 DEF t, f

\* Every step keeps it.
LEMMA NextFirst ==
  ASSUME NoneIsApart
  PROVE  StacksInv /\ FirstInv /\ [Next]_vars => FirstInv'
<1> SUFFICES ASSUME StacksInv, FirstInv, [Next]_vars  PROVE FirstInv'
  OBVIOUS
<1>0. /\ Len(insts) \in Nat /\ IsList(insts) /\ (insts = <<>> => Len(insts) = 0) /\ StackOK(dec)
      /\ IsList(streams) /\ Len(streams) \in Nat \ {0}
  BY ListLen, EmptySeq DEF StacksInv, FirstInv
<1> DEFINE s == streams[1]
<1>1. CASE FromBytes
  <2>1. /\ dec' = <<MessageFrame(path[Len(insts) + 1], streams[Len(streams)], 0, 0)>>
        /\ decoded' = None /\ insts' = insts /\ streams' = streams /\ enc' = enc /\ encoded' = encoded
        /\ Len(streams) = Len(insts) + 1
    BY <1>1 DEF FromBytes, Start, encVars, relayVars
  <2>2. path[Len(insts) + 1] \in Class
    BY <1>0, <1>1, NextClass DEF FromBytes, StacksInv
  <2>3. s # None /\ insts = <<>> => RootOK(dec', s)
    BY <1>0, <2>1, <2>2, StartReads DEF FirstInv
  <2> QED  BY <2>1, <2>3 DEF FirstInv
<1>2. CASE ToBytes
  <2>1. insts # <<>> /\ dec' = dec /\ decoded' = decoded /\ insts' = insts /\ streams' = streams
    BY <1>0, <1>2 DEF ToBytes, decVars, relayVars
  <2> QED  BY <2>1 DEF FirstInv
<1>3. CASE Decoded
  <2>1. dec' = dec /\ enc' = enc /\ encoded' = encoded /\ decoded' = None /\ streams' = streams
    BY <1>3 DEF Decoded, encVars
  <2>2. CASE decoded \in {ValueError, OverflowError}
    <3>1. insts' = insts
      BY <1>3, <2>2 DEF Decoded
    <3> QED  BY <2>1, <3>1 DEF FirstInv
  <2>3. CASE decoded \notin {ValueError, OverflowError}
    <3>1. insts' = Append(insts, decoded) /\ decoded # None
      BY <1>3, <2>3 DEF Decoded
    <3>2. /\ IsList(insts') /\ Len(insts') = Len(insts) + 1 /\ insts'[Len(insts) + 1] = decoded
          /\ \A k \in 1 .. Len(insts) : insts'[k] = insts[k]
      BY <1>0, <3>1, ListAppend
    <3>3. insts' # <<>>
      BY <1>0, <3>2, ListLen
    <3>4. s # None => Has(insts'[1], s)
      <4>1. CASE insts = <<>>
        BY <1>0, <2>3, <3>1, <3>2, <4>1 DEF FirstInv
      <4>2. CASE insts # <<>>
        <5>1. 1 \in 1 .. Len(insts)
          BY <1>0, <4>2, ListLen
        <5> QED  BY <3>2, <4>2, <5>1 DEF FirstInv
      <4> QED  BY <4>1, <4>2
    <3> QED  BY <2>1, <3>3, <3>4 DEF FirstInv
  <2> QED  BY <2>2, <2>3
<1>4. CASE Encoded
  <2>1. encoded # None /\ enc' = enc /\ dec' = dec /\ decoded' = decoded /\ insts' = insts
        /\ (streams' = streams \/ streams' = Append(streams, encoded))
    BY <1>4 DEF Encoded, decVars
  <2>2. IsList(streams') /\ Len(streams') > 0 /\ streams'[1] = streams[1]
    <3> DEFINE t == Append(streams, encoded)
    <3>1. IsList(t) /\ Len(t) = Len(streams) + 1 /\ \A k \in 1 .. Len(streams) : t[k] = streams[k]
      BY <1>0, ListAppend
    <3> HIDE DEF t
    <3>2. IsList(t) /\ Len(t) > 0 /\ t[1] = streams[1]
      BY <1>0, <3>1
    <3>3. streams' = streams \/ streams' = t
      BY <2>1 DEF t
    <3> QED  BY <1>0, <3>2, <3>3
  <2> QED  BY <2>1, <2>2 DEF FirstInv
<1>5. CASE DecodeStep /\ UNCHANGED <<encVars, relayVars>>
  <2>1. enc' = enc /\ encoded' = encoded /\ insts' = insts /\ streams' = streams
    BY <1>5 DEF encVars, relayVars
  <2>2. CASE s # None /\ insts = <<>>
    <3>1. dec # <<>>
      BY <1>5 DEF DecodeStep, Malformed, Unknown, DecodePacked, DecodeValue, DecodeText, DecodeTime,
                  DecodeNested, DecodeMapEntry, EndRoot, EndNested, DefaultMessage, EndEntry,
                  Reading, AtEnd
    <3>2. Moves /\ IsList(s) /\ RootOK(dec, s)
      BY <1>0, <1>5, <2>2, <3>1, DecodeMoves DEF FirstInv
    <3>3. \/ dec' = <<>> /\ (decoded' \in {ValueError, OverflowError} \/ Has(decoded', s))
          \/ dec' # <<>> /\ RootOK(dec', s) /\ decoded' = decoded
      BY <1>0, <3>1, <3>2, RootStep
    <3> QED  BY <2>1, <2>2, <3>3 DEF FirstInv
  <2>3. CASE ~ (s # None /\ insts = <<>>)
    BY <2>1, <2>3 DEF FirstInv
  <2> QED  BY <2>2, <2>3
<1>6. CASE EncodeStep /\ UNCHANGED <<decVars, relayVars>>
  <2>1. dec' = dec /\ decoded' = decoded /\ insts' = insts /\ streams' = streams
    BY <1>6 DEF decVars, relayVars
  <2>2. enc # <<>>
    BY <1>6 DEF EncodeStep, WriteRecord, RefuseValue, EncodeNested, EncodeMapEntry, OneofError,
                EndEncode, EndPayload, Writing, Finished
  <2> QED  BY <2>1, <2>2 DEF FirstInv
<1>7. CASE UNCHANGED vars
  BY <1>7 DEF FirstInv, vars, decVars, encVars, relayVars
<1> QED  BY <1>1, <1>2, <1>3, <1>4, <1>5, <1>6, <1>7 DEF Next

\* If the last member of every group has the value, which_oneof reports it.
LEMMA WhichIsLast ==
  ASSUME NEW m, m.cls \in Class, NEW s, IsList(s), LastHas(m, s), Proper(m.cls), NEW g \in Group
  PROVE  WhichOneof(m, g) = OwnerAfter(s, m.cls, g, Len(s))
<1> DEFINE set == {k \in 1 .. Len(Fields[m.cls]) : Fields[m.cls][k].oneof = g /\ m.vals[k] # None}
           last == OwnerAfter(s, m.cls, g, Len(s))
<1>1. Len(Fields[m.cls]) \in Nat /\ Len(s) \in Nat
  BY ClassFields, ListLen DEF GoodFields
<1>2. last = 0 \/ last \in Members(m.cls, g)
  BY <1>1, OwnerIsMember
<1>3. \A k \in set : k \in Members(m.cls, g)
  BY MessagesAssumption DEF Proper, Members
<1>4. \A n \in Members(m.cls, g) : m.vals[n] # None <=> n = last
  BY DEF LastHas
<1>5. Members(m.cls, g) \subseteq 1 .. Len(Fields[m.cls])
  BY DEF Members
<1>6. set = IF last = 0 THEN {} ELSE {last}
  BY <1>1, <1>2, <1>3, <1>4, <1>5 DEF Members
<1>7. WhichOneof(m, g) = IF set = {} THEN 0 ELSE Min(set)
  BY DEF WhichOneof
<1> HIDE DEF set
<1>8. CASE last = 0
  BY <1>6, <1>7, <1>8
<1>9. CASE last # 0
  <2>1. set \in SUBSET (0 .. Len(Fields[m.cls])) /\ set # {}
    BY <1>1, <1>2, <1>5, <1>6, <1>9
  <2>2. Min(set) \in set
    BY <1>1, <2>1, MinMax
  <2> QED  BY <1>6, <1>7, <1>9, <2>1, <2>2
<1> QED  BY <1>8, <1>9

\* For every message, whatever its records and their order, the member of a
\* oneof that which_oneof reports is the one of the last record of its group.
THEOREM LastMemberWins ==
  ASSUME NoneIsApart
  PROVE  Spec => []LastWins
<1>1. ValuesInv /\ FirstInv /\ StacksInv => LastWins
  <2> SUFFICES ASSUME ValuesInv, FirstInv, StacksInv, streams[1] # None, insts # <<>>,
                      Proper(insts[1].cls), NEW g \in Group
               PROVE  LET c == insts[1].cls
                          Sets(rc) == LET n == FirstDeclared(Fields[c], rc.num)
                                      IN n \in Members(c, g) /\ Accepts(Fields[c][n], rc.wire)
                          k == SelectLastInSeq(streams[1], Sets)
                      IN WhichOneof(insts[1], g) =
                           IF k = 0 THEN 0 ELSE FirstDeclared(Fields[c], streams[1][k].num)
    BY DEF LastWins
  <2> DEFINE m == insts[1]
             c == m.cls
             s == streams[1]
             Sets(rc) == LET n == FirstDeclared(Fields[c], rc.num)
                         IN n \in Members(c, g) /\ Accepts(Fields[c][n], rc.wire)
             k == SelectLastInSeq(s, Sets)
             S == SetBy(s, c, g, Len(s))
  <2>1. 1 \in 1 .. Len(insts)
    BY ListLen DEF StacksInv
  <2>2. c \in Class
    BY <2>1 DEF ValuesInv, GoodInstance
  <2>3. IsList(s) /\ LastHas(m, s) /\ Len(s) \in Nat
    BY ListLen DEF FirstInv, Has
  <2>4. WhichOneof(m, g) = OwnerAfter(s, c, g, Len(s))
    BY <2>2, <2>3, WhichIsLast
  <2>5. k = IF S # {} THEN Max(S) ELSE 0
    BY DEF SelectLastInSeq, SetBy, SetsIn
  <2>6. S # {} => Max(S) # 0
    <3>1. S \in SUBSET (0 .. Len(s)) /\ 0 \notin S
      BY <2>3 DEF SetBy
    <3> QED  BY <2>3, <3>1, MinMax
  <2>7. OwnerAfter(s, c, g, Len(s)) = IF S = {} THEN 0 ELSE FirstDeclared(Fields[c], s[Max(S)].num)
    BY DEF OwnerAfter
  <2> HIDE DEF k, S, s, m
  <2>8. WhichOneof(m, g) = IF k = 0 THEN 0 ELSE FirstDeclared(Fields[c], s[k].num)
    BY <2>4, <2>5, <2>6, <2>7
  <2> QED  BY <2>8 DEF k, s, m
<1>2. ~ IsList(None)
  BY DEF NoneIsApart
<1>3. Spec => [](StacksInv /\ ValuesInv)
  BY <1>2, ValuesTyped
<1>4. StacksInv /\ FirstInv /\ [Next]_vars => FirstInv'
  BY NextFirst
<1> QED  BY <1>1, <1>3, <1>4, InitFirst, PTL DEF Spec

-----------------------------------------------------------------------------
(* Times are exact. *)

\* Products of integers keep their order.
LEMMA ProductOrder ==
  ASSUME NEW a \in Int, NEW b \in Int, a <= b, NEW c \in Nat
  PROVE  a * c <= b * c
<1>1. (b - a) * c \in Nat
  BY Product
<1>2. (b - a) * c = b * c - a * c
  OBVIOUS
<1> QED  BY <1>1, <1>2

\* Rust's division rounds toward zero, and loses less than one.
LEMMA QuotientIs ==
  ASSUME NEW a \in Int, NEW b \in Nat \ {0}
  PROVE  /\ Quotient(a, b) \in Int /\ Magnitude(Quotient(a, b) * b - a) < b
         /\ a >= 0 => 0 <= Quotient(a, b) /\ Quotient(a, b) <= a
         /\ a < 0 => a <= Quotient(a, b) /\ Quotient(a, b) <= 0
<1>1. ASSUME NEW n \in Nat
      PROVE  /\ n \div b \in Nat /\ n \div b <= n
             /\ (n \div b) * b <= n /\ n < (n \div b) * b + b
  <2> DEFINE q == n \div b
  <2> DEFINE r == n % b
  <2>1. q \in Int /\ r \in 0 .. b - 1 /\ n = b * q + r
    <3>1. q \in Int
      OBVIOUS
    <3>2. r \in 0 .. b - 1
      OBVIOUS
    <3>3. n = b * q + r
      OBVIOUS
    <3> QED  BY <3>1, <3>2, <3>3
  <2> HIDE DEF q, r
  <2>2. q * b <= n /\ n < q * b + b
    BY <2>1
  <2>3. q \in Nat
    <3>1. CASE q < 0
      <4>1. (q + 1) * b <= 0 * b
        BY <2>1, <3>1, ProductOrder
      <4>2. (q + 1) * b = q * b + b /\ 0 * b = 0
        BY <2>1
      <4> QED  BY <2>1, <2>2, <4>1, <4>2
    <3> QED  BY <2>1, <3>1
  <2>4. q <= n
    <3>1. 1 * q <= b * q
      BY <2>3, ProductOrder
    <3>2. b * q = q * b /\ 1 * q = q
      BY <2>1
    <3> QED  BY <2>1, <2>2, <3>1, <3>2
  <2> QED  BY <2>2, <2>3, <2>4 DEF q
<1>2. CASE a >= 0
  <2> DEFINE q == a \div b
  <2>1. Quotient(a, b) = q /\ q \in Nat /\ q <= a /\ q * b <= a /\ a < q * b + b
    BY <1>1, <1>2 DEF Quotient
  <2> HIDE DEF q
  <2>2. Magnitude(q * b - a) < b
    BY <1>2, <2>1 DEF Magnitude
  <2> QED  BY <1>2, <2>1, <2>2
<1>3. CASE a < 0
  <2> DEFINE q == (- a) \div b
  <2>1. Quotient(a, b) = - q /\ q \in Nat /\ q <= - a /\ q * b <= - a /\ - a < q * b + b
    BY <1>1, <1>3 DEF Quotient
  <2> HIDE DEF q
  <2>2. (- q) * b = - (q * b)
    BY <2>1
  <2>3. Magnitude((- q) * b - a) < b
    BY <1>3, <2>1, <2>2 DEF Magnitude
  <2> QED  BY <1>3, <2>1, <2>3
<1> QED  BY <1>2, <1>3

\* The low bits of a number are a signed number of that width.
LEMMA SignedRange ==
  ASSUME NEW w \in {SecondsBits, NanosBits}, NEW u \in Nat
  PROVE  AsSigned(u, w) \in Int /\ - (2 ^ (w - 1)) <= AsSigned(u, w) /\ AsSigned(u, w) < 2 ^ (w - 1)
<1> DEFINE h == 2 ^ (w - 1)
<1>1. h \in Int /\ h > 0 /\ 2 ^ w = 2 * h
  BY WellKnownAssumption
<1> HIDE DEF h
<1>2. u % (2 * h) \in 0 .. 2 * h - 1
  BY <1>1
<1>3. AsSigned(u, w) = IF u % (2 * h) < h THEN u % (2 * h) ELSE (u % (2 * h)) - 2 * h
  BY <1>1 DEF AsSigned, h
<1> DEFINE r == u % (2 * h)
<1> HIDE DEF r
<1>4. r \in 0 .. 2 * h - 1 /\ AsSigned(u, w) = IF r < h THEN r ELSE r - 2 * h
  BY <1>2, <1>3 DEF r
<1> QED  BY <1>1, <1>4 DEF h

\* What a payload says of a time fits its width.
LEMMA PartsRange ==
  ASSUME NEW p, AreRecords(p)
  PROVE  /\ DecodeParts(p).secs \in Int /\ DecodeParts(p).nanos \in Int
         /\ - (2 ^ (SecondsBits - 1)) <= DecodeParts(p).secs
         /\ - (2 ^ (NanosBits - 1)) <= DecodeParts(p).nanos
         /\ DecodeParts(p).nanos < 2 ^ (NanosBits - 1)
<1>1. \A num : LastValue(p, num, "varint", 0) \in Nat
  BY VarintsAreNats
<1>2. /\ DecodeParts(p).secs = AsSigned(LastValue(p, 1, "varint", 0), SecondsBits)
      /\ DecodeParts(p).nanos = AsSigned(LastValue(p, 2, "varint", 0), NanosBits)
  BY DEF DecodeParts, Parts
<1> QED  BY <1>1, <1>2, SignedRange

\* A time that the constructor of timedelta takes is the seconds and the
\* microseconds, and less than a microsecond short of the nanoseconds.
LEMMA TakenTime ==
  ASSUME NEW secs \in Int, NEW nanos \in Int, NEW t \in Int, t = TimedeltaFrom(secs, nanos)
  PROVE  /\ t = secs * MicrosPerSecond + Quotient(nanos, NanosPerMicro)
         /\ - (TimedeltaMax * MicrosPerSecond) <= t
         /\ Magnitude(t * NanosPerMicro - (secs * NanosPerSecond + nanos)) < NanosPerMicro
<1> DEFINE q == Quotient(nanos, NanosPerMicro)
           M == MicrosPerSecond
           P == NanosPerMicro
<1>1. q \in Int /\ Magnitude(q * P - nanos) < P /\ M \in Nat /\ P \in Nat
  BY QuotientIs, WellKnownAssumption
<1>2. t = secs * M + q /\ - (TimedeltaMax * M) <= t
  <2>1. TimedeltaMax * M \in Int /\ secs * M + q \in Int
    BY <1>1, WellKnownAssumption
  <2>2. t # OverflowError
    BY WellKnownAssumption
  <2> QED  BY <2>1, <2>2 DEF TimedeltaFrom
<1>3. NanosPerSecond = P * M
  BY DEF NanosPerSecond
<1> HIDE DEF q, M, P
<1>4. (secs * M + q) * P - (secs * (P * M) + nanos) = q * P - nanos
  <2>1. (secs * M + q) * P = secs * (P * M) + q * P
    BY <1>1
  <2>2. secs * (P * M) \in Int /\ q * P \in Int
    BY <1>1
  <2> QED  BY <2>1, <2>2
<1>5. Magnitude(t * P - (secs * NanosPerSecond + nanos)) < P
  BY <1>1, <1>2, <1>3, <1>4
<1> QED  BY <1>2, <1>5 DEF q, M, P

\* Seconds in a range and nanoseconds of less than a second are in the range.
LEMMA WholeRange ==
  ASSUME NEW secs \in Int, NEW nanos \in Int, NEW low \in Int, NEW high \in Int,
         low <= secs, secs <= high, NEW m \in Nat
  PROVE  /\ 0 <= nanos => secs * m + nanos >= low * m
         /\ nanos < m => secs * m + nanos < (high + 1) * m
<1>1. low * m <= secs * m /\ secs * m <= high * m
  BY ProductOrder
<1>2. (high + 1) * m = high * m + m
  OBVIOUS
<1> QED  BY <1>1, <1>2

\* The absolute value that a release build takes of a number of w bits.
LEMMA AbsIs ==
  ASSUME NEW w \in {SecondsBits, NanosBits}, NEW v \in Int, NEW most \in Int, AbsWrapping(v, w) <= most
  PROVE  v = - (2 ^ (w - 1)) \/ (- most <= v /\ v <= most)
BY WellKnownAssumption DEF AbsWrapping

\* A timedelta that the converter accepts.
LEMMA ExactDuration ==
  ASSUME NEW p, AreRecords(p), NEW t \in Int, t = PartsToTimedelta(DecodeParts(p))
  PROVE  ExactTime("duration", p, t)
<1> DEFINE secs == DecodeParts(p).secs
           nanos == DecodeParts(p).nanos
           S == 2 ^ (SecondsBits - 1)
           N == 2 ^ (NanosBits - 1)
           T == TimedeltaMax
           M == MicrosPerSecond
<1>1. /\ secs \in Int /\ nanos \in Int /\ - S <= secs /\ - N <= nanos /\ nanos < N
  BY PartsRange
<1>2. /\ t = TimedeltaFrom(secs, nanos)
      /\ AbsWrapping(secs, SecondsBits) <= DurationMax /\ AbsWrapping(nanos, NanosBits) <= MaxNanos
  <2>1. t # ValueError
    BY WellKnownAssumption
  <2>2. /\ AbsWrapping(secs, SecondsBits) \in Int /\ AbsWrapping(nanos, NanosBits) \in Int
        /\ DurationMax \in Int /\ MaxNanos \in Int
    BY <1>1, WellKnownAssumption DEF AbsWrapping, MaxNanos, NanosPerSecond
  <2>3. /\ ~ (AbsWrapping(secs, SecondsBits) > DurationMax \/ AbsWrapping(nanos, NanosBits) > MaxNanos)
        /\ t = TimedeltaFrom(secs, nanos)
    BY <2>1 DEF PartsToTimedelta
  <2> QED  BY <2>2, <2>3
<1> DEFINE q == Quotient(nanos, NanosPerMicro)
           n == secs * NanosPerSecond + nanos
<1>3. /\ t = secs * M + q /\ - (T * M) <= t
      /\ Magnitude(t * NanosPerMicro - n) < NanosPerMicro
  BY <1>1, <1>2, TakenTime
<1>4. Nanos(p) = n
  BY DEF Nanos
<1>5. /\ NanosPerSecond \in Nat \ {0} /\ DurationMax \in Nat /\ M \in Nat \ {0} /\ T \in Nat
      /\ MaxNanos = NanosPerSecond - 1 /\ S \in Int /\ N \in Int /\ N > 0
      /\ (S - T) * M > N
  BY Product, WellKnownAssumption DEF NanosPerSecond, MaxNanos
<1>6. q \in Int /\ q <= N
  <2>1. NanosPerMicro \in Nat \ {0}
    BY WellKnownAssumption
  <2>2. q \in Int /\ (nanos >= 0 => q <= nanos) /\ (nanos < 0 => q <= 0)
    BY <1>1, <2>1, QuotientIs
  <2> HIDE DEF q, nanos, N
  <2> QED  BY <1>1, <1>5, <2>2
<1>7. secs # - S
  <2> SUFFICES ASSUME secs = - S  PROVE FALSE
    OBVIOUS
  <2> HIDE DEF q, secs, S, N, T, M
  <2>1. t = (- S) * M + q
    BY <1>3
  <2>2. (- S) * M = - (S * M) /\ (S - T) * M = S * M - T * M /\ S * M \in Int /\ T * M \in Int
    BY <1>5
  <2> QED  BY <1>3, <1>5, <1>6, <2>1, <2>2
<1>8. - DurationMax <= secs /\ secs <= DurationMax
  BY <1>1, <1>2, <1>5, <1>7, AbsIs
<1>9. nanos = LeastNanos \/ (- MaxNanos <= nanos /\ nanos <= MaxNanos)
  <2>1. MaxNanos \in Int
    BY <1>5
  <2> QED  BY <1>1, <1>2, <2>1, AbsIs DEF LeastNanos
<1>10. nanos # LeastNanos => Magnitude(n) < (DurationMax + 1) * NanosPerSecond
  <2> SUFFICES ASSUME nanos # LeastNanos  PROVE Magnitude(n) < (DurationMax + 1) * NanosPerSecond
    OBVIOUS
  <2> DEFINE m == NanosPerSecond
             D == DurationMax
  <2>1. - m < nanos /\ nanos < m /\ m \in Nat /\ D \in Nat /\ - D <= secs /\ secs <= D
    BY <1>1, <1>5, <1>8, <1>9
  <2> HIDE DEF secs, nanos, m, D
  <2>2. secs * m + nanos < (D + 1) * m
    BY <1>1, <2>1, WholeRange
  <2>3. (- secs) * m + (- nanos) < (D + 1) * m
    <3>1. - secs \in Int /\ - nanos \in Int /\ - D \in Int /\ - D <= - secs /\ - secs <= D /\ - nanos < m
      BY <1>1, <2>1
    <3> DEFINE ms == - secs
               mn == - nanos
               low == - D
    <3> HIDE DEF ms, mn, low
    <3>2. ms \in Int /\ mn \in Int /\ low \in Int /\ low <= ms /\ ms <= D /\ mn < m
      BY <3>1 DEF ms, mn, low
    <3>3. ms * m + mn < (D + 1) * m
      BY <2>1, <3>2, WholeRange
    <3> QED  BY <3>3 DEF ms, mn
  <2>4. (- secs) * m + (- nanos) = - (secs * m + nanos) /\ secs * m + nanos \in Int
    BY <1>1, <2>1
  <2>5. Magnitude(secs * m + nanos) < (D + 1) * m
    BY <2>2, <2>3, <2>4 DEF Magnitude
  <2> QED  BY <2>5 DEF m, D, secs, nanos
<1> QED  BY <1>3, <1>4, <1>10 DEF ExactTime

\* A datetime that the converter accepts.
LEMMA ExactTimestamp ==
  ASSUME NEW p, AreRecords(p), NEW t \in Int, t = PartsToDatetime(DecodeParts(p))
  PROVE  ExactTime("timestamp", p, t)
<1> DEFINE secs == DecodeParts(p).secs
           nanos == DecodeParts(p).nanos
           n == secs * NanosPerSecond + nanos
<1>1. secs \in Int /\ nanos \in Int
  BY PartsAreInts
<1>2. t = TimedeltaFrom(secs, nanos) /\ secs \in TsMin .. TsMax /\ nanos \in 0 .. MaxNanos
  <2>1. t # ValueError
    BY WellKnownAssumption
  <2> QED  BY <2>1 DEF PartsToDatetime
<1>3. Magnitude(t * NanosPerMicro - n) < NanosPerMicro
  BY <1>1, <1>2, TakenTime
<1>4. NanosPerSecond \in Nat \ {0} /\ MaxNanos = NanosPerSecond - 1 /\ TsMin \in Int /\ TsMax \in Int
  BY Product, WellKnownAssumption DEF NanosPerSecond, MaxNanos
<1>5. TsMin <= secs /\ secs <= TsMax /\ 0 <= nanos /\ nanos < NanosPerSecond
  BY <1>1, <1>2, <1>4
<1>6. n >= TsMin * NanosPerSecond /\ n < (TsMax + 1) * NanosPerSecond
  <2> HIDE DEF secs, nanos
  <2> QED  BY <1>1, <1>4, <1>5, WholeRange
<1>7. Nanos(p) = n
  BY DEF Nanos
<1> HIDE DEF n
<1> QED  BY <1>3, <1>6, <1>7 DEF ExactTime

\* Every time that the decoder accepts.
LEMMA TimesAccepted ==
  ASSUME NEW kind \in Time, NEW p, NEW t \in Int, t = TimeOf(kind, p)
  PROVE  ExactTime(kind, p, t)
<1>1. AreRecords(p)
  BY WellKnownAssumption DEF TimeOf
<1>2. CASE kind = "timestamp"
  BY <1>1, <1>2, ExactTimestamp DEF TimeOf
<1>3. CASE kind = "duration"
  BY <1>1, <1>3, ExactDuration DEF TimeOf
<1> QED  BY <1>2, <1>3 DEF Time

\* For every message: a datetime or timedelta is less than a microsecond away
\* from what the wire says, and that is in the range of its type.
THEOREM TimesAreExact ==
  ASSUME NoneIsApart
  PROVE  Spec => []TimesExact
<1>1. ValuesInv /\ FirstInv /\ StacksInv => TimesExact
  <2> SUFFICES ASSUME ValuesInv, FirstInv, StacksInv, streams[1] # None, insts # <<>>,
                      NEW n \in 1 .. Len(Fields[insts[1].cls])
               PROVE  LET x == Fields[insts[1].cls][n]
                          k == LastPayload(streams[1], x.num)
                          time == insts[1].vals[n]
                      IN (/\ x.kind \in Time /\ x.label = "optional" /\ k # 0
                          /\ FirstDeclared(Fields[insts[1].cls], x.num) = n
                          /\ ~ (x.oneof # None /\ time = None))
                         => ExactTime(x.kind, streams[1][k].val, time)
    BY DEF TimesExact
  <2> DEFINE m == insts[1]
             s == streams[1]
             x == Fields[m.cls][n]
             k == LastPayload(s, x.num)
             time == m.vals[n]
             T == TimesBy(s, x, Len(s))
  <2>1. k = IF T # {} THEN Max(T) ELSE 0
    BY DEF LastPayload, SelectLastInSeq, TimesBy, IsTimeOf
  <2>2. TimesHave(m, s)
    BY DEF FirstInv, Has
  <2> SUFFICES ASSUME x.kind \in Time, x.label = "optional", k # 0,
                      FirstDeclared(Fields[m.cls], x.num) = n, ~ (x.oneof # None /\ time = None)
               PROVE  ExactTime(x.kind, s[k].val, time)
    OBVIOUS
  <2>3. TimeAfter(time, s, x, Len(s))
    BY <2>2 DEF TimesHave, IsTimeField
  <2>4. T # {} /\ k = Max(T)
    BY <2>1
  <2>5. time \in Int /\ time = TimeOf(x.kind, s[k].val)
    BY <2>3, <2>4 DEF TimeAfter
  <2> HIDE DEF m, s, x, k, time
  <2> QED  BY <2>5, TimesAccepted
<1>2. ~ IsList(None)
  BY DEF NoneIsApart
<1>3. Spec => [](StacksInv /\ ValuesInv)
  BY <1>2, ValuesTyped
<1>4. StacksInv /\ FirstInv /\ [Next]_vars => FirstInv'
  BY NextFirst
<1> QED  BY <1>1, <1>3, <1>4, InitFirst, PTL DEF Spec

-----------------------------------------------------------------------------
(* Times that are written are read back. *)

\* A whole number of microseconds has a whole number of microseconds left when
\* its seconds are taken out.
LEMMA MicrosSplit ==
  ASSUME NEW t \in Int, NEW a \in Nat \ {0}, NEW b \in Nat \ {0}
  PROVE  (t * a) \div (a * b) = t \div b /\ (t * a) % (a * b) = (t % b) * a
<1> DEFINE q == t \div b
           r == t % b
           m == a * b
           s == r * a
           v == t * a
<1>1. q \in Int /\ r \in 0 .. b - 1 /\ t = q * b + r
  BY DivisionIs
<1> HIDE DEF q, r
<1>2. m \in Nat \ {0}
  BY Product
<1>3. s \in 0 .. m - 1
  <2>1. r \in Int /\ 0 <= r /\ r <= b - 1 /\ a \in Nat /\ b - 1 \in Int /\ 0 \in Int
    BY <1>1
  <2>2. r * a <= (b - 1) * a /\ 0 * a <= r * a
    BY ONLY <2>1, ProductOrder
  <2>3. (b - 1) * a = a * b - a /\ 0 * a = 0 /\ r * a \in Int
    BY <1>1
  <2> QED  BY <2>2, <2>3
<1>4. v = q * m + s /\ v \in Int
  <2>1. (q * b + r) * a = (q * b) * a + r * a
    BY <1>1
  <2>2. (q * b) * a = q * (a * b)
    BY <1>1
  <2> QED  BY <1>1, <2>1, <2>2
<1> HIDE DEF m, s, v
<1>5. v \div m = q /\ v % m = s
  BY ONLY <1>1, <1>2, <1>3, <1>4, DivisionUnique
<1> QED  BY <1>5 DEF m, s, v, q, r

\* The same of the division that rounds toward zero.
LEMMA QuotientSplit ==
  ASSUME NEW d \in Int, NEW a \in Nat \ {0}, NEW b \in Nat \ {0}
  PROVE  /\ Quotient(d * a, a * b) = Quotient(d, b)
         /\ Remainder(d * a, a * b) = Remainder(d, b) * a
<1> DEFINE q == Quotient(d, b)
           e == - d
<1>1. e \in Int /\ e * a = - (d * a) /\ d * a \in Int /\ (d >= 0 => d * a >= 0) /\ (d < 0 => d * a < 0)
  <2>1. d >= 0 => d * a >= 0
    BY Product
  <2>2. e \in Int /\ e * a = - (d * a) /\ d * a \in Int
    OBVIOUS
  <2>3. d < 0 => e * a > 0
    <3> SUFFICES ASSUME d < 0  PROVE e * a > 0
      OBVIOUS
    <3>1. e \in Nat \ {0}
      OBVIOUS
    <3> HIDE DEF e
    <3> QED  BY <3>1, Product
  <2> QED  BY <2>1, <2>2, <2>3
<1>2. Quotient(d * a, a * b) = q
  <2>1. (d * a) \div (a * b) = d \div b
    BY MicrosSplit
  <2>2. (e * a) \div (a * b) = e \div b
    <3>1. e \in Int
      OBVIOUS
    <3> HIDE DEF e
    <3> QED  BY <3>1, MicrosSplit
  <2> DEFINE x == d * a
             m == a * b
  <2>3. x \in Int /\ (x >= 0 <=> d >= 0) /\ e * a = - x
    BY <1>1
  <2>4. Quotient(x, m) = IF x >= 0 THEN x \div m ELSE - ((- x) \div m)
    BY DEF Quotient
  <2>5. q = IF d >= 0 THEN d \div b ELSE - (e \div b)
    BY DEF Quotient
  <2>6. x \div m = d \div b /\ (- x) \div m = e \div b
    BY <2>1, <2>2, <2>3
  <2> HIDE DEF x, m, e, q
  <2>7. Quotient(x, m) = q
    BY <2>3, <2>4, <2>5, <2>6
  <2> QED  BY <2>7 DEF x, m
<1>3. q \in Int
  BY QuotientIs
<1> HIDE DEF q
<1>4. d * a - (a * b) * q = (d - b * q) * a
  <2>1. (a * b) * q = (b * q) * a
    BY <1>3
  <2>2. (d - b * q) * a = d * a - (b * q) * a
    BY <1>3
  <2> QED  BY <2>1, <2>2
<1> QED  BY <1>2, <1>4 DEF Remainder, q

\* A multiple is divided with nothing left.
LEMMA QuotientExact ==
  ASSUME NEW r \in Int, NEW a \in Nat \ {0}
  PROVE  Quotient(r * a, a) = r
<1>1. \A k \in Int : (k * a) \div a = k
  <2> SUFFICES ASSUME NEW k \in Int  PROVE (k * a) \div a = k
    OBVIOUS
  <2> DEFINE v == k * a
             o == 0
  <2>1. v \in Int /\ v = k * a + o /\ o \in 0 .. a - 1
    OBVIOUS
  <2> HIDE DEF v, o
  <2>2. v \div a = k
    BY ONLY <2>1, DivisionUnique, k \in Int, a \in Nat \ {0}
  <2> QED  BY <2>2 DEF v
<1> DEFINE s == - r
<1>2. (r * a) \div a = r /\ (s * a) \div a = s
  <2>1. s \in Int
    OBVIOUS
  <2> HIDE DEF s
  <2> QED  BY <1>1, <2>1
<1>3. s * a = - (r * a) /\ r * a \in Int
  OBVIOUS
<1> DEFINE x == r * a
<1>4. x \div a = r /\ (- x) \div a = - r /\ x \in Int
  BY <1>2, <1>3
<1> HIDE DEF x
<1>5. Quotient(x, a) = r
  BY <1>4 DEF Quotient
<1> QED  BY <1>5 DEF x

\* The rest of a division that rounds toward zero has the sign of the number.
LEMMA RemainderIs ==
  ASSUME NEW d \in Int, NEW b \in Nat \ {0}
  PROVE  /\ Quotient(d, b) \in Int /\ Remainder(d, b) \in Int
         /\ d = Quotient(d, b) * b + Remainder(d, b)
         /\ Magnitude(Remainder(d, b)) < b
         /\ d >= 0 => Quotient(d, b) >= 0 /\ Remainder(d, b) >= 0
         /\ d < 0 => Quotient(d, b) <= 0 /\ Remainder(d, b) <= 0
<1> DEFINE q == Quotient(d, b)
           r == Remainder(d, b)
<1>1. ASSUME NEW n \in Nat
      PROVE  n \div b \in Nat /\ n - b * (n \div b) >= 0 /\ n - b * (n \div b) < b
  <2> DEFINE k == n \div b
             l == n % b
  <2>1. k \in Int /\ l \in 0 .. b - 1 /\ n = k * b + l /\ (n >= 0 => k \in Nat)
    <3>1. n \in Int
      OBVIOUS
    <3> QED  BY ONLY <3>1, b \in Nat \ {0}, DivisionIs
  <2> HIDE DEF k, l
  <2>2. k \in Nat /\ k * b = b * k
    BY <2>1
  <2>3. n - b * k = l
    BY <2>1, <2>2
  <2> QED  BY <2>1, <2>2, <2>3 DEF k
<1>2. CASE d >= 0
  <2>1. q = d \div b /\ r = d - b * q
    BY <1>2 DEF Quotient, Remainder
  <2>2. q \in Nat /\ r >= 0 /\ r < b
    BY <1>1, <1>2, <2>1
  <2> HIDE DEF q, r
  <2>3. b * q = q * b /\ b * q \in Int
    BY <2>2
  <2>4. r \in Int /\ d = q * b + r /\ Magnitude(r) < b
    BY <2>1, <2>2, <2>3 DEF Magnitude
  <2> QED  BY <1>2, <2>2, <2>4 DEF q, r
<1>3. CASE d < 0
  <2> DEFINE k == (- d) \div b
             j == - k
  <2>1. q = - k /\ r = d - b * q
    BY <1>3 DEF Quotient, Remainder
  <2>2. k \in Nat /\ (- d) - b * k >= 0 /\ (- d) - b * k < b
    BY <1>1, <1>3
  <2> HIDE DEF q, r, k
  <2>3. b * (- k) = - (b * k) /\ b * k \in Int /\ (- k) * b = - (b * k)
    BY <2>2
  <2>4. r = - ((- d) - b * k)
    BY <2>1, <2>2, <2>3
  <2>5. q \in Int /\ r \in Int /\ q <= 0 /\ r <= 0 /\ Magnitude(r) < b /\ d = q * b + r
    BY <2>1, <2>2, <2>3, <2>4 DEF Magnitude
  <2> QED  BY <1>3, <2>5 DEF q, r
<1> QED  BY <1>2, <1>3

\* timedelta(seconds=, microseconds=) puts together what was taken apart.
LEMMA TimedeltaFromParts ==
  ASSUME NEW secs \in Int, NEW r \in Int, NEW t \in Int, t = secs * MicrosPerSecond + r,
         - (TimedeltaMax * MicrosPerSecond) <= t, t <= TimedeltaMax * MicrosPerSecond
  PROVE  TimedeltaFrom(secs, r * NanosPerMicro) = t
<1>1. Quotient(r * NanosPerMicro, NanosPerMicro) = r
  BY QuotientExact, WellKnownAssumption
<1>2. TimedeltaMax * MicrosPerSecond \in Int
  BY WellKnownAssumption
<1> QED  BY <1>1, <1>2 DEF TimedeltaFrom

\* Seconds are within bounds if the microseconds are.
LEMMA SecondsBound ==
  ASSUME NEW q \in Int, NEW r \in Int, NEW b \in Nat \ {0}, NEW most \in Int
  PROVE  /\ r >= 0 /\ q * b + r < (most + 1) * b => q <= most
         /\ r < b /\ q <= most => q * b + r < (most + 1) * b
         /\ r < b /\ q * b + r >= most * b => q >= most
         /\ r >= 0 /\ q >= most => q * b + r >= most * b
<1>1. \A i, j \in Int : i <= j => i * b <= j * b
  BY ProductOrder
<1>2. (most + 1) * b = most * b + b /\ (most - 1) * b = most * b - b /\ most * b \in Int /\ q * b \in Int
  OBVIOUS
<1>3. q <= most \/ (most + 1) * b <= q * b
  BY <1>1
<1>4. q <= most => q * b <= most * b
  BY <1>1
<1>5. q >= most \/ q * b <= (most - 1) * b
  BY <1>1
<1>6. q >= most => q * b >= most * b
  BY <1>1
<1> DEFINE x == q * b
           y == most * b
           above == (most + 1) * b
           below == (most - 1) * b
<1>7. /\ above = y + b /\ below = y - b /\ y \in Int /\ x \in Int
      /\ q <= most \/ above <= x
      /\ q <= most => x <= y
      /\ q >= most \/ x <= below
      /\ q >= most => x >= y
  BY <1>2, <1>3, <1>4, <1>5, <1>6
<1> HIDE DEF x, y, above, below
<1>8. /\ r >= 0 /\ x + r < above => q <= most
      /\ r < b /\ q <= most => x + r < above
      /\ r < b /\ x + r >= y => q >= most
      /\ r >= 0 /\ q >= most => x + r >= y
  <2>1. above \in Int /\ below \in Int /\ b \in Int
    BY <1>7
  <2>2. r >= 0 /\ x + r < above => ~ (above <= x)
    BY <1>7, <2>1
  <2>3. r < b /\ x <= y => x + r < above
    BY <1>7, <2>1
  <2>4. r < b /\ x + r >= y => ~ (x <= below)
    BY <1>7, <2>1
  <2>5. r >= 0 /\ x >= y => x + r >= y
    BY <1>7, <2>1
  <2> QED  BY <1>7, <2>2, <2>3, <2>4, <2>5
<1> QED  BY <1>8 DEF x, y, above

\* The constants that bound times.
LEMMA TimeConstants ==
  /\ NanosPerMicro \in Nat \ {0} /\ MicrosPerSecond \in Nat \ {0}
  /\ NanosPerSecond \in Nat \ {0} /\ MaxNanos = NanosPerSecond - 1
  /\ SecondsBits \in Nat \ {0} /\ NanosBits \in Nat \ {0} /\ NanosBits <= SecondsBits
  /\ TimedeltaMax \in Nat /\ TimedeltaMax < 2 ^ (SecondsBits - 1) /\ 2 ^ (SecondsBits - 1) \in Nat
  /\ NanosPerSecond <= 2 ^ (NanosBits - 1) /\ 2 ^ (NanosBits - 1) \in Nat
<1> DEFINE S == 2 ^ (SecondsBits - 1)
           N == 2 ^ (NanosBits - 1)
           T == TimedeltaMax
           M == MicrosPerSecond
<1>1. /\ S \in Nat /\ N \in Nat /\ N > 0 /\ T \in Nat /\ M \in Nat \ {0} /\ (S - T) * M > N
      /\ SecondsBits \in Nat \ {0} /\ NanosBits \in Nat \ {0} /\ NanosPerMicro \in Nat \ {0}
  BY HalfIs, WellKnownAssumption
<1>2. NanosPerSecond \in Nat \ {0}
  BY Product, WellKnownAssumption DEF NanosPerSecond
<1>3. T < S
  <2> SUFFICES ASSUME S <= T  PROVE FALSE
    BY <1>1
  <2> HIDE DEF S, N, T, M
  <2> DEFINE x == S - T
             o == 0
  <2>1. x \in Int /\ o \in Int /\ x <= o /\ M \in Nat
    BY <1>1
  <2>2. o * M = 0 /\ x * M > N
    BY <1>1
  <2> HIDE DEF x, o
  <2>3. x * M <= o * M
    BY ONLY <2>1, ProductOrder
  <2>4. x * M \in Int
    BY <1>1, <2>1
  <2> QED  BY <1>1, <2>2, <2>3, <2>4
<1> QED  BY <1>1, <1>2, <1>3, NanosFit DEF MaxNanos

\* The last value of a field that has one is not the initial one.
LEMMA LastFound ==
  ASSUME NEW p, Len(p) \in Nat, NEW num, NEW wire, NEW initial,
         \E k \in 1 .. Len(p) : p[k].num = num /\ p[k].wire = wire
  PROVE  \E k \in 1 .. Len(p) : p[k].num = num /\ LastValue(p, num, wire, initial) = p[k].val
<1> DEFINE I == {k \in 1 .. Len(p) : p[k].num = num /\ p[k].wire = wire}
           last == SelectLastInSeq(p, LAMBDA r : r.num = num /\ r.wire = wire)
<1>1. last = IF I # {} THEN Max(I) ELSE 0
  BY DEF SelectLastInSeq
<1>2. LastValue(p, num, wire, initial) = IF last = 0 THEN initial ELSE p[last].val
  BY DEF LastValue
<1>3. I \in SUBSET (0 .. Len(p)) /\ I # {}
  OBVIOUS
<1>4. Max(I) \in I
  BY <1>3, MinMax
<1>5. last \in 1 .. Len(p) /\ last # 0 /\ p[last].num = num
  BY <1>1, <1>3, <1>4
<1> HIDE DEF last, I
<1> QED  BY <1>2, <1>5

\* A list of one element.
LEMMA Singleton ==
  /\ IsList(<<>>) /\ Len(<<>>) = 0
  /\ \A e : IsList(<<e>>) /\ Len(<<e>>) = 1 /\ <<e>>[1] = e
<1>1. IsList(<<>>) /\ Len(<<>>) = 0
  <2> DEFINE s == <<>>
  <2>1. s \in Seq(ToSet(s)) /\ Len(s) = 0
    BY EmptySeq
  <2> QED  BY <2>1 DEF IsList
<1>2. ASSUME NEW e  PROVE IsList(<<e>>) /\ Len(<<e>>) = 1 /\ <<e>>[1] = e
  <2> DEFINE s == <<e>>
             S == {e}
  <2>1. s \in Seq(S) /\ Len(s) = 1 /\ s[1] = e
    OBVIOUS
  <2> HIDE DEF s
  <2>2. IsList(s)
    BY <2>1, ListOf
  <2> QED  BY <2>1, <2>2 DEF s
<1> QED  BY <1>1, <1>2

\* What the two fields of a time are, when they fit, is what is read of them.
LEMMA PartsAreReadBack ==
  ASSUME NEW secs \in SInt(SecondsBits), NEW nanos \in SInt(NanosBits)
  PROVE  /\ AreRecords(EncodeParts(Parts(secs, nanos)))
         /\ DecodeParts(EncodeParts(Parts(secs, nanos))) = Parts(secs, nanos)
<1> DEFINE u == AsUnsigned(secs, SecondsBits)
           v == AsUnsigned(nanos, SecondsBits)
           a == IF secs = 0 THEN <<>> ELSE <<Record(1, "varint", u)>>
           b == IF nanos = 0 THEN <<>> ELSE <<Record(2, "varint", v)>>
           p == a \o b
<1>1. EncodeParts(Parts(secs, nanos)) = p
  BY DEF EncodeParts, Parts
<1>2. /\ secs \in Int /\ nanos \in Int /\ u \in Nat /\ v \in Nat
  <2>1. SInt(SecondsBits) \subseteq Int /\ SInt(NanosBits) \subseteq Int /\ UInt(SecondsBits) \subseteq Nat
    BY TimeConstants, WidthIs
  <2>2. secs \in Int /\ nanos \in Int
    BY <2>1
  <2>3. u \in UInt(SecondsBits) /\ v \in UInt(SecondsBits)
    BY <2>2, TimeConstants, CastIs
  <2> QED  BY <2>1, <2>2, <2>3
<1>3. AsSigned(u, SecondsBits) = secs /\ AsSigned(v, NanosBits) = nanos
  <2>1. AsSigned(u, SecondsBits) = secs
    BY TimeConstants, CastBack
  <2>2. AsUnsigned(v, NanosBits) = AsUnsigned(nanos, NanosBits)
    BY <1>2, TimeConstants, CastUnsigned
  <2>3. AsSigned(v, NanosBits) = AsSigned(nanos, NanosBits)
    BY <2>2 DEF AsUnsigned, AsSigned
  <2> QED  BY <2>1, <2>3, TimeConstants, CastBack
<1>4. \A w \in {SecondsBits, NanosBits} : AsSigned(0, w) = 0
  <2> SUFFICES ASSUME NEW w \in {SecondsBits, NanosBits}  PROVE AsSigned(0, w) = 0
    OBVIOUS
  <2>1. 2 ^ w \in Nat \ {0} /\ 2 ^ (w - 1) \in Nat \ {0}
    BY HalfIs, WellKnownAssumption
  <2>2. 0 % (2 ^ w) = 0
    BY <2>1
  <2> QED  BY <2>1, <2>2 DEF AsSigned
<1> HIDE DEF u, v
<1> DEFINE ra == Record(1, "varint", u)
           rb == Record(2, "varint", v)
<1>5. /\ ra.num = 1 /\ ra.wire = "varint" /\ ra.val = u /\ Readable(ra)
      /\ rb.num = 2 /\ rb.wire = "varint" /\ rb.val = v /\ Readable(rb)
  BY <1>2 DEF Record, IsRecord, Readable
<1> HIDE DEF ra, rb
<1>6. /\ IsList(a) /\ Len(a) = (IF secs = 0 THEN 0 ELSE 1) /\ (secs # 0 => a[1] = ra)
      /\ IsList(b) /\ Len(b) = (IF nanos = 0 THEN 0 ELSE 1) /\ (nanos # 0 => b[1] = rb)
  <2>1. a = (IF secs = 0 THEN <<>> ELSE <<ra>>) /\ b = (IF nanos = 0 THEN <<>> ELSE <<rb>>)
    BY DEF ra, rb
  <2> HIDE DEF a, b
  <2> QED  BY <2>1, Singleton
<1> HIDE DEF a, b
<1> DEFINE la == Len(a)
           lb == Len(b)
<1>7. /\ la \in {0, 1} /\ lb \in {0, 1} /\ (la = 0 <=> secs = 0) /\ (lb = 0 <=> nanos = 0)
  BY <1>6
<1>8. IsList(p) /\ Len(p) = la + lb /\ \A k \in 1 .. la + lb : p[k] = IF k <= la THEN a[k] ELSE b[k - la]
  BY <1>6, ListConcat
<1> HIDE DEF la, lb
<1>9. \A k \in 1 .. la + lb : \/ k = 1 /\ secs # 0 /\ p[k] = ra
                              \/ k = la + 1 /\ nanos # 0 /\ p[k] = rb
  <2> SUFFICES ASSUME NEW k \in 1 .. la + lb
               PROVE  (k = 1 /\ secs # 0 /\ p[k] = ra) \/ (k = la + 1 /\ nanos # 0 /\ p[k] = rb)
    OBVIOUS
  <2>1. CASE k <= la
    BY <1>6, <1>7, <1>8, <2>1
  <2>2. CASE ~ (k <= la)
    <3>1. la = 0 \/ la = 1
      BY <1>7
    <3>2. lb = 1 /\ k = la + 1 /\ k - la = 1
      BY <1>7, <2>2, <3>1
    <3> QED  BY <1>6, <1>7, <1>8, <2>2, <3>2
  <2> QED  BY <2>1, <2>2
<1>10. (secs # 0 => 1 \in 1 .. la + lb /\ p[1] = ra) /\ (nanos # 0 => la + 1 \in 1 .. la + lb /\ p[la + 1] = rb)
  <2>1. secs # 0 => la = 1 /\ 1 \in 1 .. la + lb /\ 1 <= la
    BY <1>7
  <2>2. nanos # 0 => lb = 1 /\ la + 1 \in 1 .. la + lb /\ ~ (la + 1 <= la) /\ la + 1 - la = 1
    BY <1>7
  <2> QED  BY <1>6, <1>8, <2>1, <2>2
<1>11. Len(p) \in Nat /\ Len(p) = la + lb
  BY <1>8, ListLen
<1> HIDE DEF p
<1> DEFINE w == "varint"
           o == 0
           one == 1
           two == 2
<1>12. LastValue(p, one, w, o) = IF secs = 0 THEN o ELSE u
  <2>1. /\ \A k \in 1 .. Len(p) : p[k].num = one => secs # 0 /\ p[k].val = u
        /\ secs # 0 => \E j \in 1 .. Len(p) : p[j].num = one /\ p[j].wire = w
    <3>1. ra.num = one /\ ra.wire = w /\ ra.val = u /\ rb.num # one
      BY <1>5
    <3> HIDE DEF one, w
    <3> QED  BY <1>9, <1>10, <1>11, <3>1
  <2> HIDE DEF one, w, o
  <2>2. CASE secs = 0
    BY <1>11, <2>1, <2>2, LastIs
  <2>3. CASE secs # 0
    <3>1. \E j \in 1 .. Len(p) : p[j].num = one /\ p[j].wire = w
      BY <2>1, <2>3
    <3>2. \E j \in 1 .. Len(p) : p[j].num = one /\ LastValue(p, one, w, o) = p[j].val
      BY <1>11, <3>1, LastFound
    <3> QED  BY <2>1, <2>3, <3>2
  <2> QED  BY <2>2, <2>3
<1>13. LastValue(p, two, w, o) = IF nanos = 0 THEN o ELSE v
  <2>1. /\ \A k \in 1 .. Len(p) : p[k].num = two => nanos # 0 /\ p[k].val = v
        /\ nanos # 0 => \E j \in 1 .. Len(p) : p[j].num = two /\ p[j].wire = w
    <3>1. rb.num = two /\ rb.wire = w /\ rb.val = v /\ ra.num # two
      BY <1>5
    <3> HIDE DEF two, w
    <3> QED  BY <1>9, <1>10, <1>11, <3>1
  <2> HIDE DEF two, w, o
  <2>2. CASE nanos = 0
    BY <1>11, <2>1, <2>2, LastIs
  <2>3. CASE nanos # 0
    <3>1. \E j \in 1 .. Len(p) : p[j].num = two /\ p[j].wire = w
      BY <2>1, <2>3
    <3>2. \E j \in 1 .. Len(p) : p[j].num = two /\ LastValue(p, two, w, o) = p[j].val
      BY <1>11, <3>1, LastFound
    <3> QED  BY <2>1, <2>3, <3>2
  <2> QED  BY <2>2, <2>3
<1>14. AreRecords(p)
  <2>1. \A r \in ToSet(p) : Readable(r)
    <3>1. IsList(p)
      BY <1>8 DEF p
    <3>2. \A k \in 1 .. Len(p) : Readable(p[k])
      BY <1>5, <1>9, <1>11
    <3> QED  BY <3>1, <3>2, InToSet
  <2> QED  BY <1>8, <2>1 DEF AreRecords, IsList, p
<1>15. DecodeParts(p) = Parts(secs, nanos)
  BY <1>3, <1>4, <1>12, <1>13 DEF DecodeParts
<1> QED  BY <1>1, <1>14, <1>15

\* A number of a width is one between its bounds.
LEMMA InWidth ==
  ASSUME NEW w \in {SecondsBits, NanosBits}, NEW v \in Int, - (2 ^ (w - 1)) <= v, v < 2 ^ (w - 1)
  PROVE  v \in SInt(w)
<1>1. 2 ^ (w - 1) \in Int
  BY TimeConstants
<1> QED  BY <1>1 DEF SInt

\* The microseconds that are left fit the nanoseconds, and are in range.
LEMMA RestFits ==
  ASSUME NEW r \in Int, Magnitude(r) < MicrosPerSecond
  PROVE  /\ r * NanosPerMicro \in SInt(NanosBits)
         /\ r * NanosPerMicro \in - MaxNanos .. MaxNanos
         /\ r >= 0 => r * NanosPerMicro >= 0
         /\ AbsWrapping(r * NanosPerMicro, NanosBits) <= MaxNanos
<1> DEFINE a == NanosPerMicro
           b == MicrosPerSecond
           m == NanosPerSecond
           N == 2 ^ (NanosBits - 1)
           x == r * a
<1>1. a \in Nat \ {0} /\ b \in Nat \ {0} /\ m = a * b /\ m <= N /\ N \in Nat /\ MaxNanos = m - 1 /\ m \in Nat \ {0}
  BY TimeConstants DEF NanosPerSecond
<1>2. - b < r /\ r < b
  BY <1>1 DEF Magnitude
<1> HIDE DEF a, b, m, N
<1>3. x \in Int /\ - m < x /\ x < m /\ (r >= 0 => x >= 0)
  <2>1. r <= b - 1 /\ 1 - b <= r /\ b - 1 \in Int /\ 1 - b \in Int /\ a \in Nat
    BY <1>1, <1>2
  <2>2. r * a <= (b - 1) * a /\ (1 - b) * a <= r * a
    <3> DEFINE low == 1 - b
               high == b - 1
    <3>1. low \in Int /\ high \in Int /\ low <= r /\ r <= high /\ a \in Nat
      BY <2>1
    <3> HIDE DEF low, high
    <3>2. r * a <= high * a /\ low * a <= r * a
      BY ONLY <3>1, r \in Int, ProductOrder
    <3> QED  BY <3>2 DEF low, high
  <2>3. (b - 1) * a = a * b - a /\ (1 - b) * a = a - a * b /\ r * a \in Int
    BY <1>1
  <2>4. r >= 0 => r * a >= 0
    BY <1>1, Product
  <2> DEFINE ab == a * b
  <2>5. x <= ab - a /\ a - ab <= x /\ m = ab /\ x \in Int
    BY <1>1, <2>2, <2>3
  <2>6. r >= 0 => x >= 0
    BY <2>4
  <2> HIDE DEF x, ab
  <2> QED  BY <1>1, <2>5, <2>6
<1> HIDE DEF x
<1>4. x \in SInt(NanosBits)
  <2>1. - N <= x /\ x < N
    BY <1>1, <1>3
  <2> QED  BY <1>3, <2>1, InWidth DEF N
<1>5. x \in - MaxNanos .. MaxNanos
  BY <1>1, <1>3
<1>6. AbsWrapping(x, NanosBits) <= MaxNanos
  <2>1. x # - N
    BY <1>1, <1>3
  <2> QED  BY <1>1, <1>3, <2>1 DEF AbsWrapping, N
<1> QED  BY <1>3, <1>4, <1>5, <1>6 DEF x, a

\* The lengths of time that Python's timedelta has.
Lengths == - (TimedeltaMax * MicrosPerSecond) .. TimedeltaMax * MicrosPerSecond

\* Every length's seconds fit the seconds on the wire.
LEMMA LengthIs ==
  ASSUME NEW t \in Lengths
  PROVE  /\ t \in Int /\ TimedeltaMax * MicrosPerSecond \in Nat
         /\ - (TimedeltaMax * MicrosPerSecond) <= t /\ t <= TimedeltaMax * MicrosPerSecond
<1>1. TimedeltaMax * MicrosPerSecond \in Nat
  BY TimeConstants
<1> QED  BY <1>1 DEF Lengths

\* A datetime on the wire and back.
LEMMA DatetimeBack ==
  ASSUME NEW t \in Lengths
  PROVE  TimeOf("timestamp", EncodeParts(PartsOf("timestamp", t))) =
           IF t \in TsMin * MicrosPerSecond .. (TsMax + 1) * MicrosPerSecond - 1 THEN t ELSE ValueError
<1> DEFINE a == NanosPerMicro
           b == MicrosPerSecond
           T == TimedeltaMax
           S == 2 ^ (SecondsBits - 1)
           q == t \div b
           r == t % b
           n == r * a
<1>1. /\ a \in Nat \ {0} /\ b \in Nat \ {0} /\ T \in Nat /\ T < S /\ S \in Nat /\ MaxNanos \in Int
      /\ TsMin \in Int /\ TsMax \in Int
  BY TimeConstants, WellKnownAssumption
<1>2. t \in Int /\ T * b \in Nat /\ - (T * b) <= t /\ t <= T * b
  BY LengthIs
<1>3. q \in Int /\ r \in 0 .. b - 1 /\ t = q * b + r
  BY <1>1, <1>2, DivisionIs
<1>4. PartsOf("timestamp", t) = Parts(q, n)
  BY <1>1, <1>2, MicrosSplit DEF PartsOf, DatetimeToParts, TotalNanos, NanosPerSecond
<1> HIDE DEF q, r, T, S, b
<1>5. n \in SInt(NanosBits) /\ n \in 0 .. MaxNanos
  <2>1. r \in Int /\ r >= 0 /\ Magnitude(r) < b
    BY <1>1, <1>3 DEF Magnitude
  <2>2. n \in SInt(NanosBits) /\ n \in - MaxNanos .. MaxNanos /\ n >= 0
    BY <2>1, RestFits DEF b
  <2> HIDE DEF n
  <2> QED  BY <1>1, <2>2
<1>6. q \in SInt(SecondsBits)
  <2>1. q <= T
    <3>1. t < (T + 1) * b
      <4>1. (T + 1) * b = T * b + b
        BY <1>1
      <4> QED  BY <1>1, <1>2, <4>1
    <3> QED  BY <1>1, <1>3, <3>1, SecondsBound
  <2>2. q >= - T
    <3> DEFINE low == - T
    <3>1. low * b = - (T * b) /\ low \in Int
      BY <1>1
    <3>2. low * b <= t
      BY <1>2, <3>1
    <3> HIDE DEF low
    <3>3. q >= low
      BY <1>1, <1>3, <3>1, <3>2, SecondsBound
    <3> QED  BY <3>3 DEF low
  <2> QED  BY <1>1, <1>3, <2>1, <2>2, InWidth DEF S
<1>7. TimeOf("timestamp", EncodeParts(Parts(q, n))) = PartsToDatetime(Parts(q, n))
  BY <1>5, <1>6, PartsAreReadBack DEF TimeOf
<1>8. q \in TsMin .. TsMax <=> t \in TsMin * b .. (TsMax + 1) * b - 1
  <2>1. /\ q <= TsMax <=> t < (TsMax + 1) * b
        /\ q >= TsMin <=> t >= TsMin * b
    BY <1>1, <1>3, SecondsBound
  <2>2. TsMin * b \in Int /\ (TsMax + 1) * b \in Int
    BY <1>1
  <2> QED  BY <1>1, <1>2, <1>3, <2>1, <2>2
<1>9. TimedeltaFrom(q, n) = t
  BY <1>1, <1>2, <1>3, TimedeltaFromParts DEF b, T
<1> HIDE DEF n
<1>10. PartsToDatetime(Parts(q, n)) = IF q \in TsMin .. TsMax THEN TimedeltaFrom(q, n) ELSE ValueError
  BY <1>5 DEF PartsToDatetime, Parts
<1> QED  BY <1>4, <1>7, <1>8, <1>9, <1>10 DEF b

\* A timedelta on the wire and back.
LEMMA TimedeltaBack ==
  ASSUME NEW d \in Lengths
  PROVE  IF Magnitude(d) < (DurationMax + 1) * MicrosPerSecond
           THEN TimeOf("duration", EncodeParts(PartsOf("duration", d))) = d
           ELSE PartsOf("duration", d) = ValueError
<1> DEFINE a == NanosPerMicro
           b == MicrosPerSecond
           T == TimedeltaMax
           D == DurationMax
           S == 2 ^ (SecondsBits - 1)
           q == Quotient(d, b)
           r == Remainder(d, b)
           n == r * a
           bound == (D + 1) * b
<1>1. /\ a \in Nat \ {0} /\ b \in Nat \ {0} /\ T \in Nat /\ T < S /\ S \in Nat /\ MaxNanos \in Int
      /\ D \in Nat /\ D < T /\ bound \in Int
  BY TimeConstants, WellKnownAssumption
<1>2. d \in Int /\ T * b \in Nat /\ - (T * b) <= d /\ d <= T * b
  BY LengthIs
<1>3. /\ q \in Int /\ r \in Int /\ d = q * b + r /\ Magnitude(r) < b
      /\ d >= 0 => q >= 0 /\ r >= 0
      /\ d < 0 => q <= 0 /\ r <= 0
  BY <1>1, <1>2, RemainderIs
<1>4. PartsOf("duration", d) = IF AbsWrapping(q, SecondsBits) > D THEN ValueError ELSE Parts(q, n)
  <2>1. Quotient(TotalNanos(d), NanosPerSecond) = q /\ Remainder(TotalNanos(d), NanosPerSecond) = n
    BY <1>1, <1>2, QuotientSplit DEF TotalNanos, NanosPerSecond
  <2> HIDE DEF q, n, D
  <2> QED  BY <2>1 DEF PartsOf, TimedeltaToParts, D
<1>5. n \in SInt(NanosBits) /\ AbsWrapping(n, NanosBits) <= MaxNanos /\ n \in Int
  <2>1. n \in Int
    BY <1>1, <1>3
  <2> QED  BY <1>3, <2>1, RestFits
<1> HIDE DEF q, r, T, S, b, D
<1>6. /\ - T <= q /\ q <= T /\ (Magnitude(q) <= D <=> Magnitude(d) < bound)
  <2> DEFINE mq == - q
             mr == - r
             md == - d
             sup == (T + 1) * b
  <2>0. sup = T * b + b /\ sup \in Int /\ mq \in Int /\ mr \in Int /\ md = mq * b + mr
    <3>1. (- q) * b = - (q * b) /\ q * b \in Int /\ (T + 1) * b = T * b + b
      BY <1>1, <1>3
    <3> QED  BY <1>1, <1>2, <1>3, <3>1
  <2>1. CASE d >= 0
    <3>1. q >= 0 /\ r >= 0 /\ r < b
      BY <1>1, <1>3, <2>1 DEF Magnitude
    <3>2. d < sup
      BY <1>1, <1>2, <2>0
    <3>3. q <= T
      BY <1>1, <1>3, <3>1, <3>2, SecondsBound
    <3>4. q <= D <=> d < bound
      BY <1>1, <1>3, <3>1, SecondsBound
    <3> HIDE DEF bound
    <3> QED  BY <1>1, <1>2, <1>3, <2>1, <3>1, <3>3, <3>4 DEF Magnitude
  <2>2. CASE d < 0
    <3>1. mq >= 0 /\ mr >= 0 /\ mr < b
      BY <1>1, <1>3, <2>2 DEF Magnitude
    <3>2. md < sup /\ md \in Int
      BY <1>1, <1>2, <2>0
    <3> HIDE DEF mq, mr, md
    <3>3. mq <= T
      BY <1>1, <2>0, <3>1, <3>2, SecondsBound
    <3>4. mq <= D <=> md < bound
      BY <1>1, <2>0, <3>1, <3>2, SecondsBound
    <3> HIDE DEF bound
    <3>5. Magnitude(d) = md /\ Magnitude(q) = mq /\ q = - mq
      <4>1. q <= 0
        BY <1>3, <2>2
      <4> QED  BY <1>2, <1>3, <2>2, <4>1 DEF Magnitude, md, mq
    <3> QED  BY <1>1, <2>0, <3>1, <3>3, <3>4, <3>5
  <2> QED  BY <1>2, <2>1, <2>2
<1>7. AbsWrapping(q, SecondsBits) = Magnitude(q)
  <2>1. q # - S
    BY <1>1, <1>3, <1>6
  <2> QED  BY <1>3, <2>1 DEF AbsWrapping, Magnitude, S
<1>8. Magnitude(q) \in Int
  BY <1>3 DEF Magnitude
<1> HIDE DEF bound
<1>9. CASE ~ (Magnitude(d) < bound)
  <2>1. Magnitude(q) > D
    BY <1>1, <1>6, <1>8, <1>9
  <2> QED  BY <1>4, <1>7, <1>9, <2>1 DEF bound, D, b
<1>10. CASE Magnitude(d) < bound
  <2>1. ~ (Magnitude(q) > D)
    BY <1>1, <1>6, <1>8, <1>10
  <2>2. PartsOf("duration", d) = Parts(q, n)
    BY <1>4, <1>7, <2>1
  <2>3. q \in SInt(SecondsBits)
    BY <1>1, <1>3, <1>6, InWidth DEF S
  <2>4. TimeOf("duration", EncodeParts(Parts(q, n))) = PartsToTimedelta(Parts(q, n))
    BY <1>5, <2>3, PartsAreReadBack DEF TimeOf
  <2>5. TimedeltaFrom(q, n) = d
    BY <1>1, <1>2, <1>3, TimedeltaFromParts DEF b, T
  <2> HIDE DEF n
  <2>6. ~ (AbsWrapping(n, NanosBits) > MaxNanos)
    <3>1. AbsWrapping(n, NanosBits) \in Int
      BY <1>5, TimeConstants DEF AbsWrapping
    <3> QED  BY <1>1, <1>5, <3>1
  <2>7. PartsToTimedelta(Parts(q, n)) = TimedeltaFrom(q, n)
    BY <1>7, <2>1, <2>6 DEF PartsToTimedelta, Parts, D
  <2> QED  BY <1>10, <2>2, <2>4, <2>5, <2>7 DEF bound, D, b
<1> QED  BY <1>9, <1>10 DEF bound, D, b

\* For every width and range of times: a datetime that protobuf allows comes
\* back from the wire as it was, and no reader takes another one; a timedelta
\* that protobuf allows comes back too, and the writer refuses any other.
THEOREM TimesAreReadBack ==
  \A t \in Lengths :
    /\ TimeOf("timestamp", EncodeParts(PartsOf("timestamp", t))) =
         IF t \in TsMin * MicrosPerSecond .. (TsMax + 1) * MicrosPerSecond - 1 THEN t ELSE ValueError
    /\ IF Magnitude(t) < (DurationMax + 1) * MicrosPerSecond
         THEN TimeOf("duration", EncodeParts(PartsOf("duration", t))) = t
         ELSE PartsOf("duration", t) = ValueError
BY DatetimeBack, TimedeltaBack

-----------------------------------------------------------------------------
(* Unknown fields: what a program does not know it passes on. *)

\* g[k] are the unknown records among the first k of s.
Sifts(g, c, s) ==
  g[0] = <<>> /\ \A k \in 1 .. Len(s) : g[k] = IF Knows(c, s[k]) THEN g[k - 1] ELSE Append(g[k - 1], s[k])

\* The unknown records of a message are what such a function ends with.
LEMMA UnknownToIs ==
  ASSUME NEW c, NEW s, IsList(s)
  PROVE  \E g \in [0 .. Len(s) -> Seq({rc \in ToSet(s) : ~ Knows(c, rc)})] :
           Sifts(g, c, s) /\ UnknownTo(c, s) = g[Len(s)]
<1> DEFINE S == Seq({rc \in ToSet(s) : ~ Knows(c, rc)})
           n == Len(s)
           add(k, u) == IF Knows(c, s[k]) THEN u ELSE Append(u, s[k])
           step == [p \in (1 .. n) \X S |-> add(p[1], p[2])]
           Body(g) == [k \in 0 .. n |-> IF k = 0 THEN <<>> ELSE add(k, g[k - 1])]
           upTo == CHOOSE g : g = Body(g)
<1>1. UnknownTo(c, s) = upTo[n]
  BY DEF UnknownTo
<1>2. n \in Nat /\ <<>> \in S
  BY ListLen
<1>3. \A k \in 1 .. n : \A u \in S : add(k, u) \in S
  <2> TAKE k \in 1 .. n
  <2> TAKE u \in S
  <2>1. CASE Knows(c, s[k])
    BY <2>1
  <2>2. CASE ~ Knows(c, s[k])
    <3>1. s[k] \in {rc \in ToSet(s) : ~ Knows(c, rc)}
      BY <2>2, InToSet
    <3> QED  BY <2>2, <3>1, AppendProperties
  <2> QED  BY <2>1, <2>2
<1> HIDE DEF S, n, add
<1>4. step \in [(1 .. n) \X S -> S]
  BY <1>3
<1>5. PICK f \in [0 .. n -> S] : Climbs(f, n, <<>>, step)
  <2> HIDE DEF step
  <2> QED  BY <1>2, <1>4, Recursion
<1>6. \A k \in 1 .. n : f[k] = add(k, f[k - 1])
  <2> TAKE k \in 1 .. n
  <2>1. k - 1 \in 0 .. n
    BY <1>2
  <2>2. step[<<k, f[k - 1]>>] = add(k, f[k - 1])
    BY <2>1
  <2> QED  BY <1>5, <2>2 DEF Climbs
<1>7. f = Body(f)
  <2>1. \A k \in 0 .. n : f[k] = IF k = 0 THEN <<>> ELSE add(k, f[k - 1])
    <3> TAKE k \in 0 .. n
    <3>1. k # 0 => k \in 1 .. n
      BY <1>2
    <3> QED  BY <1>5, <1>6, <3>1 DEF Climbs
  <2> QED  BY <2>1
<1>8. upTo = Body(upTo)
  <2> HIDE DEF Body
  <2> QED  BY <1>7
<1> HIDE DEF upTo
<1>9. DOMAIN upTo = 0 .. n /\ upTo = [k \in 0 .. n |-> upTo[k]]
  <2>1. upTo = [k \in 0 .. n |-> Body(upTo)[k]]
    BY <1>8
  <2> HIDE DEF Body
  <2> QED  BY <1>8, <2>1
<1>10. upTo[0] = <<>> /\ \A k \in 1 .. n : upTo[k] = add(k, upTo[k - 1])
  <2>1. \A k \in 0 .. n : upTo[k] = Body(upTo)[k]
    BY <1>8
  <2>2. \A k \in 0 .. n : Body(upTo)[k] = IF k = 0 THEN <<>> ELSE add(k, upTo[k - 1])
    OBVIOUS
  <2>3. 0 \in 0 .. n /\ \A k \in 1 .. n : k \in 0 .. n /\ k # 0
    BY <1>2
  <2> HIDE DEF Body
  <2> QED  BY <2>1, <2>2, <2>3
<1> DEFINE Bad == {k \in 0 .. n : upTo[k] \notin S}
<1>11. Bad = {}
  <2> SUFFICES ASSUME Bad # {} PROVE FALSE
    OBVIOUS
  <2>1. PICK k \in Bad : \A j \in Bad : k <= j
    <3>1. Bad \in SUBSET Nat
      OBVIOUS
    <3> HIDE DEF Bad
    <3> QED  BY <3>1, LeastNat
  <2>2. k \in 0 .. n /\ upTo[k] \notin S
    OBVIOUS
  <2>3. k # 0
    BY <1>2, <1>10, <2>2
  <2>4. k \in 1 .. n /\ k - 1 \in 0 .. n /\ ~ (k <= k - 1)
    BY <1>2, <2>2, <2>3
  <2>5. upTo[k - 1] \in S
    BY <2>1, <2>4
  <2> QED  BY <1>3, <1>10, <2>2, <2>4, <2>5
<1>12. \A k \in 0 .. n : upTo[k] \in S
  BY <1>11
<1>13. upTo \in [0 .. n -> S]
  BY <1>9, <1>12
<1>14. Sifts(upTo, c, s)
  BY <1>10 DEF Sifts, add, n
<1> QED  BY <1>1, <1>13, <1>14 DEF n, S

\* A list is a function of its positions.
LEMMA ListIs ==
  ASSUME NEW s, IsList(s)
  PROVE  s = [k \in 1 .. Len(s) |-> s[k]]
<1>1. s \in [1 .. Len(s) -> ToSet(s)]
  BY LenProperties DEF IsList
<1> QED  BY <1>1

\* A list with one more element of another.
LEMMA FrontGrows ==
  ASSUME NEW s, IsList(s), NEW j \in 1 .. Len(s)
  PROVE  SubSeq(s, 1, j) = Append(SubSeq(s, 1, j - 1), s[j])
<1> DEFINE t == SubSeq(s, 1, j)
           f == SubSeq(s, 1, j - 1)
           u == Append(f, s[j])
<1>1. Len(s) \in Nat /\ j \in 0 .. Len(s) /\ j - 1 \in 0 .. Len(s) /\ j \in Nat
  BY ListLen
<1>2. IsList(t) /\ Len(t) = j /\ \A k \in 1 .. j : t[k] = s[k]
  BY <1>1, ListFront
<1>3. IsList(f) /\ Len(f) = j - 1 /\ \A k \in 1 .. j - 1 : f[k] = s[k]
  BY <1>1, ListFront
<1> HIDE DEF t, f
<1>4. /\ IsList(u) /\ Len(u) = j - 1 + 1 /\ u[j - 1 + 1] = s[j]
      /\ \A k \in 1 .. j - 1 : u[k] = f[k]
  BY <1>3, ListAppend
<1> HIDE DEF u
<1>5. Len(u) = j /\ u[j] = s[j]
  BY <1>1, <1>4
<1>6. \A k \in 1 .. j : t[k] = u[k]
  <2> TAKE k \in 1 .. j
  <2>1. CASE k = j
    BY <1>2, <1>5, <2>1
  <2>2. CASE k # j
    BY <1>1, <1>2, <1>3, <1>4, <2>2
  <2> QED  BY <2>1, <2>2
<1>7. t = u
  <2>1. t = [k \in 1 .. j |-> t[k]]
    BY <1>2, ListIs
  <2>2. u = [k \in 1 .. j |-> u[k]]
    BY <1>4, <1>5, ListIs
  <2> QED  BY <1>6, <2>1, <2>2
<1> QED  BY <1>7 DEF t, u, f

\* Behind records that it knows, what a class does not know is all there is.
LEMMA KnownFirst ==
  ASSUME NEW c, NEW out, IsList(out), \A k \in 1 .. Len(out) : Knows(c, out[k]),
         NEW u, IsList(u), \A k \in 1 .. Len(u) : ~ Knows(c, u[k])
  PROVE  IsList(out \o u) /\ UnknownTo(c, out \o u) = u
<1> DEFINE t == out \o u
           n == Len(out)
           m == Len(u)
<1>1. n \in Nat /\ m \in Nat
  BY ListLen
<1>2. /\ IsList(t) /\ Len(t) = n + m
      /\ \A k \in 1 .. n + m : t[k] = IF k <= n THEN out[k] ELSE u[k - n]
  BY ListConcat
<1> HIDE DEF t, n, m
<1>3. PICK g \in [0 .. Len(t) -> Seq({rc \in ToSet(t) : ~ Knows(c, rc)})] :
        Sifts(g, c, t) /\ UnknownTo(c, t) = g[Len(t)]
  BY <1>2, UnknownToIs
<1>4. \A k \in 1 .. n : Knows(c, t[k])
  BY <1>1, <1>2 DEF n
<1>5. \A j \in 1 .. m : n + j \in 1 .. Len(t) /\ t[n + j] = u[j] /\ ~ Knows(c, t[n + j])
  <2> TAKE j \in 1 .. m
  <2>1. n + j \in 1 .. n + m /\ ~ (n + j <= n) /\ n + j - n = j
    BY <1>1
  <2>2. t[n + j] = u[n + j - n]
    BY <1>2, <2>1
  <2>3. ~ Knows(c, u[j])
    BY DEF m
  <2> QED  BY <1>2, <2>1, <2>2, <2>3
<1> DEFINE BadKnown == {k \in 0 .. n : g[k] # <<>>}
<1>6. BadKnown = {}
  <2> SUFFICES ASSUME BadKnown # {} PROVE FALSE
    OBVIOUS
  <2>1. PICK k \in BadKnown : \A j \in BadKnown : k <= j
    <3>1. BadKnown \in SUBSET Nat
      OBVIOUS
    <3> HIDE DEF BadKnown
    <3> QED  BY <3>1, LeastNat
  <2>2. k \in 0 .. n /\ g[k] # <<>>
    OBVIOUS
  <2>3. k # 0
    BY <1>3, <2>2 DEF Sifts
  <2>4. k \in 1 .. n /\ k \in 1 .. Len(t) /\ k - 1 \in 0 .. n /\ ~ (k <= k - 1)
    BY <1>1, <1>2, <2>2, <2>3
  <2>5. g[k - 1] = <<>>
    BY <2>1, <2>4
  <2> QED  BY <1>3, <1>4, <2>2, <2>4, <2>5 DEF Sifts
<1>7. g[n] = <<>>
  BY <1>1, <1>6
<1> DEFINE Bad == {j \in 0 .. m : g[n + j] # SubSeq(u, 1, j)}
<1>8. Bad = {}
  <2> SUFFICES ASSUME Bad # {} PROVE FALSE
    OBVIOUS
  <2>1. PICK j \in Bad : \A i \in Bad : j <= i
    <3>1. Bad \in SUBSET Nat
      OBVIOUS
    <3> HIDE DEF Bad
    <3> QED  BY <3>1, LeastNat
  <2>2. j \in 0 .. m /\ g[n + j] # SubSeq(u, 1, j)
    OBVIOUS
  <2>3. j # 0
    <3>1. 0 \in 0 .. Len(u) /\ n + 0 = n
      BY <1>1 DEF m
    <3>2. SubSeq(u, 1, 0) = <<>>
      BY <3>1, ListFront, ListLen
    <3> QED  BY <1>7, <2>2, <3>1, <3>2
  <2>4. j \in 1 .. m /\ j - 1 \in 0 .. m /\ ~ (j <= j - 1) /\ n + (j - 1) = n + j - 1
    BY <1>1, <2>2, <2>3
  <2> DEFINE k == n + j
  <2>5. k \in 1 .. Len(t) /\ t[k] = u[j] /\ ~ Knows(c, t[k])
    BY <1>5, <2>4
  <2>6. g[k - 1] = SubSeq(u, 1, j - 1)
    <3>1. n + (j - 1) = k - 1
      BY <1>1, <2>4
    <3>2. g[n + (j - 1)] = SubSeq(u, 1, j - 1)
      BY <2>1, <2>4
    <3> QED  BY ONLY <3>1, <3>2
  <2>7. SubSeq(u, 1, j) = Append(SubSeq(u, 1, j - 1), u[j])
    BY <2>4, FrontGrows DEF m
  <2>8. g[k] # SubSeq(u, 1, j)
    BY <2>2
  <2> HIDE DEF k, Bad, BadKnown
  <2>9. g[k] = Append(g[k - 1], u[j])
    BY <1>3, <2>5 DEF Sifts
  <2> QED  BY <2>6, <2>7, <2>8, <2>9
<1>9. g[n + m] = SubSeq(u, 1, m)
  <2>1. m \in 0 .. m
    BY <1>1
  <2>2. m \notin Bad
    BY <1>8
  <2> QED  BY <2>1, <2>2
<1>10. SubSeq(u, 1, m) = u
  <2>1. m \in 0 .. Len(u)
    BY <1>1 DEF m
  <2>2. IsList(SubSeq(u, 1, m)) /\ Len(SubSeq(u, 1, m)) = m /\ \A k \in 1 .. m : SubSeq(u, 1, m)[k] = u[k]
    BY <2>1, ListFront
  <2>3. u = [k \in 1 .. m |-> u[k]]
    BY ListIs DEF m
  <2> DEFINE f == SubSeq(u, 1, m)
  <2> HIDE DEF f
  <2>4. f = [k \in 1 .. m |-> f[k]]
    BY <2>2, ListIs DEF f
  <2> QED  BY <2>2, <2>3, <2>4 DEF f
<1> QED  BY <1>2, <1>3, <1>9, <1>10 DEF t

-----------------------------------------------------------------------------
(* What the decoder keeps of a message. *)

\* The frame f has read i records of s, and what they are unknown is in it.
KeptSoFar(f, s, i) ==
  /\ i \in 0 .. Len(s)
  /\ IsList(f.in) /\ Len(f.in) = Len(s) - i
  /\ \A j \in 1 .. Len(f.in) : f.in[j] = s[i + j]
  /\ \E g : /\ Sifts(g, f.cls, s) /\ UnknownTo(f.cls, s) = g[Len(s)]
            /\ f.unknown = g[i]

\* One record more, unknown or not.
LEMMA KeptOne ==
  ASSUME NEW f, NEW s, IsList(s), NEW i, KeptSoFar(f, s, i), f.in # <<>>,
         NEW h, h.cls = f.cls, h.in = Tail(f.in),
         h.unknown = IF Knows(f.cls, Head(f.in)) THEN f.unknown ELSE Append(f.unknown, Head(f.in))
  PROVE  KeptSoFar(h, s, i + 1)
<1>1. /\ Len(s) \in Nat /\ i \in 0 .. Len(s) /\ IsList(f.in) /\ Len(f.in) = Len(s) - i
      /\ \A j \in 1 .. Len(f.in) : f.in[j] = s[i + j]
  BY ListLen DEF KeptSoFar
<1>2. /\ IsList(h.in) /\ Len(h.in) = Len(f.in) - 1 /\ Head(f.in) = f.in[1]
      /\ \A k \in 1 .. Len(f.in) - 1 : h.in[k] = f.in[k + 1]
  BY <1>1, ListTail
<1>3. Len(f.in) \in Nat \ {0}
  BY <1>1, ListLen
<1>4. i + 1 \in 1 .. Len(s) /\ i + 1 - 1 = i /\ 1 \in 1 .. Len(f.in)
  BY <1>1, <1>3
<1>5. Head(f.in) = s[i + 1]
  BY <1>1, <1>2, <1>4
<1>6. PICK g : Sifts(g, f.cls, s) /\ UnknownTo(f.cls, s) = g[Len(s)] /\ f.unknown = g[i]
  BY DEF KeptSoFar
<1>7. h.unknown = g[i + 1]
  <2>1. \A k \in 1 .. Len(s) : g[k] = IF Knows(f.cls, s[k]) THEN g[k - 1] ELSE Append(g[k - 1], s[k])
    BY <1>6 DEF Sifts
  <2> DEFINE k == i + 1
  <2>2. k \in 1 .. Len(s) /\ k - 1 = i /\ Head(f.in) = s[k]
    <3>1. k \in 1 .. Len(s) /\ k - 1 = i
      <4>1. i \in Int /\ i + 1 \in 1 .. Len(s)
        BY <1>1, <1>4
      <4> QED  BY ONLY <4>1 DEF k
    <3> QED  BY <1>5, <3>1
  <2> HIDE DEF k
  <2>3. h.unknown = g[k]
    BY <1>6, <2>1, <2>2
  <2> QED  BY <2>3 DEF k
<1>8. Len(h.in) = Len(s) - (i + 1) /\ i + 1 \in 0 .. Len(s)
  BY <1>1, <1>2, <1>3, <1>4
<1>9. \A j \in 1 .. Len(h.in) : h.in[j] = s[i + 1 + j]
  <2> TAKE j \in 1 .. Len(h.in)
  <2> DEFINE m == Len(f.in)
  <2>0. j \in 1 .. m - 1 /\ m \in Nat /\ i \in Int
    BY <1>1, <1>2, <1>3
  <2> HIDE DEF m
  <2>1. j + 1 \in 1 .. m /\ i + (j + 1) = i + 1 + j
    BY ONLY <2>0
  <2> USE DEF m
  <2> QED  BY <1>1, <1>2, <2>1
<1> QED  BY <1>2, <1>6, <1>7, <1>8, <1>9 DEF KeptSoFar

\* The outermost frame has kept what is unknown of what it has read.
RootKept(stack, s) == \E i : KeptSoFar(stack[1], s, i)

\* Frames above the outermost one change nothing about that.
LEMMA KeptBelow ==
  ASSUME StackOK(dec), NEW s, RootKept(dec, s), NEW m \in 1 .. Len(dec), NEW h,
         m = 1 => RootKept(<<h>>, s) /\ h.cls = dec[1].cls
  PROVE  /\ LET t == Cut(dec, m, h) IN t # <<>> /\ RootKept(t, s) /\ t[1].cls = dec[1].cls
         /\ \A c : LET t == Append(Cut(dec, m, h), c) IN
                   t # <<>> /\ RootKept(t, s) /\ t[1].cls = dec[1].cls
<1> DEFINE t == Cut(dec, m, h)
<1>0. IsList(dec) /\ Len(dec) \in Nat /\ m \in Nat \ {0}
  BY ListLen DEF StackOK
<1>1. IsList(t) /\ Len(t) = m /\ (\A k \in 1 .. m - 1 : t[k] = dec[k]) /\ t[m] = h
  BY <1>0, CutIs
<1> HIDE DEF t
<1>2. RootKept(t, s) /\ t[1].cls = dec[1].cls
  <2>1. CASE m = 1
    <3>1. t[1] = h
      BY <1>1, <2>1
    <3>2. PICK i : KeptSoFar(h, s, i)
      <4> DEFINE u == <<h>>
      <4>1. u[1] = h /\ RootKept(u, s)
        BY <2>1
      <4> HIDE DEF u
      <4> QED  BY <4>1 DEF RootKept
    <3> QED  BY <2>1, <3>1, <3>2 DEF RootKept
  <2>2. CASE m # 1
    <3>1. 1 \in 1 .. m - 1
      BY <1>0, <2>2
    <3>2. t[1] = dec[1]
      BY <1>1, <3>1
    <3> QED  BY <3>2 DEF RootKept
  <2> QED  BY <2>1, <2>2
<1>3. t # <<>>
  BY <1>0, <1>1, ListLen
<1>4. ASSUME NEW c
      PROVE  Append(t, c) # <<>> /\ RootKept(Append(t, c), s) /\ Append(t, c)[1].cls = dec[1].cls
  <2> DEFINE u == Append(t, c)
  <2>1. IsList(u) /\ Len(u) = m + 1 /\ \A k \in 1 .. m : u[k] = t[k]
    BY <1>1, ListAppend
  <2> HIDE DEF u
  <2>2. u[1] = t[1] /\ u # <<>>
    <3>1. 1 \in 1 .. m /\ m + 1 > 0
      BY <1>0
    <3> QED  BY <2>1, <3>1, ListLen
  <2> QED  BY <1>2, <2>2 DEF RootKept, u
<1> QED  BY <1>2, <1>3, <1>4 DEF t

\* What the outermost frame does not know of a record is what its class does
\* not know.
LEMMA RootKnows ==
  ASSUME StackOK(dec), Len(dec) = 1, Reading, Readable(rec)
  PROVE  Known <=> Knows(top.cls, rec)
<1>1. Shape(top) /\ ~ top.entry
  BY TopIs DEF Reading, StackOK
<1>2. top.fields = Fields[top.cls]
  BY <1>1 DEF Shape, Kin, KinOf
<1> QED  BY <1>2 DEF Known, Knows, idx, field

\* The outermost frame reads one record, or waits for its value.
LEMMA RootKeeps ==
  ASSUME StackOK(dec), Len(dec) = 1, NEW s, IsList(s), RootKept(dec, s), NEW h, Alike(top, h),
         \/ Passes(h) \/ Stores(h)
         \/ Reading /\ Known /\ h = Taken
  PROVE  RootKept(<<h>>, s)
<1>1. Reading /\ Readable(rec) /\ dec # <<>>
  BY DEF Passes, Stores, Known, Reading
<1>2. top = dec[1] /\ ~ top.entry
  BY <1>1, TopIs DEF StackOK
<1>3. PICK i : KeptSoFar(top, s, i)
  BY <1>2 DEF RootKept
<1>4. h.cls = top.cls /\ top.in # <<>> /\ rec = Head(top.in)
  BY <1>1 DEF Alike, Reading, rec
<1>5. h.in = Tail(top.in) /\ h.unknown = IF Knows(top.cls, rec) THEN top.unknown ELSE Append(top.unknown, rec)
  <2>1. CASE Passes(h)
    BY <1>1, <1>2, <2>1, RootKnows DEF Passes
  <2>2. CASE Known /\ h.in = Taken.in /\ h.unknown = Taken.unknown
    <3>1. Claims(top, idx, Tail(top.in), Taken)
      BY <1>1, <2>2, TakenIs
    <3>2. Knows(top.cls, rec)
      BY <1>1, <2>2, RootKnows
    <3> QED  BY <2>2, <3>1, <3>2 DEF Claims
  <2> QED  BY <2>1, <2>2 DEF Stores
<1>6. KeptSoFar(h, s, i + 1)
  BY <1>3, <1>4, <1>5, KeptOne
<1> DEFINE u == <<h>>
<1>7. u[1] = h
  OBVIOUS
<1> HIDE DEF u
<1>8. RootKept(u, s)
  BY <1>6, <1>7 DEF RootKept
<1> QED  BY <1>8 DEF u

\* Every step of the decoder keeps what is unknown to the class of the message.
LEMMA KeptStep ==
  ASSUME StackOK(dec), dec # <<>>, NEW s, IsList(s), RootKept(dec, s), Moves
  PROVE  \/ dec' = <<>> /\ decoded' \in {ValueError, OverflowError}
         \/ /\ dec' = <<>> /\ Len(dec) = 1 /\ decoded' = Instance(top)
            /\ decoded'.cls = dec[1].cls /\ decoded'.unknown = UnknownTo(dec[1].cls, s)
         \/ dec' # <<>> /\ RootKept(dec', s) /\ dec'[1].cls = dec[1].cls /\ decoded' = decoded
<1>0. Len(dec) \in Nat \ {0} /\ IsList(dec) /\ top = dec[Len(dec)] /\ Shape(top) /\ ~ dec[1].entry
  BY TopIs DEF StackOK
<1>1. CASE dec' = <<>> /\ Len(dec) = 1 /\ top.in = <<>> /\ decoded' = Instance(top)
  <2>1. decoded'.cls = top.cls /\ decoded'.unknown = top.unknown /\ top = dec[1]
    BY <1>0, <1>1 DEF Instance
  <2>2. PICK i : KeptSoFar(top, s, i)
    BY <2>1 DEF RootKept
  <2>3. i = Len(s)
    <3>1. Len(top.in) = 0 /\ Len(s) \in Nat /\ i \in Int /\ Len(top.in) = Len(s) - i
      BY <1>1, <2>2, ListLen, EmptySeq DEF KeptSoFar
    <3> QED  BY ONLY <3>1
  <2>4. top.unknown = UnknownTo(top.cls, s)
    BY <2>2, <2>3 DEF KeptSoFar
  <2> QED  BY <1>1, <2>1, <2>4
<1>2. CASE \E h : Become(h) /\ Alike(top, h) /\ (Passes(h) \/ Stores(h))
  <2>1. PICK h : Become(h) /\ Alike(top, h) /\ (Passes(h) \/ Stores(h))
    BY <1>2
  <2>2. dec' = Cut(dec, Len(dec), h) /\ decoded' = decoded
    BY <1>0, <2>1, StackMoves
  <2>3. Len(dec) = 1 => RootKept(<<h>>, s) /\ h.cls = dec[1].cls
    BY <1>0, <2>1, RootKeeps DEF Alike
  <2>4. Len(dec) \in 1 .. Len(dec)
    BY <1>0
  <2> QED  BY <2>2, <2>3, <2>4, KeptBelow
<1>3. CASE \E h, c : Call(h, c) /\ Alike(top, h) /\ Waits(h, c)
  <2>1. PICK h, c : Call(h, c) /\ Alike(top, h) /\ Waits(h, c)
    BY <1>3
  <2>2. dec' = Append(Cut(dec, Len(dec), h), c) /\ decoded' = decoded
    BY <1>0, <2>1, StackMoves
  <2>3. Len(dec) = 1 => Reading /\ Known /\ h = Taken
    BY <1>0, <2>1 DEF Waits
  <2>4. Len(dec) = 1 => RootKept(<<h>>, s) /\ h.cls = dec[1].cls
    BY <1>0, <2>1, <2>3, RootKeeps DEF Alike
  <2>5. Len(dec) \in 1 .. Len(dec)
    BY <1>0
  <2> QED  BY <2>2, <2>4, <2>5, KeptBelow
<1>4. CASE \E v : ReturnValue(v) /\ Len(dec) > 1
  <2>1. PICK v : ReturnValue(v) /\ Len(dec) > 1
    BY <1>4
  <2> DEFINE n == Len(dec) - 1
             h == Deliver(dec[n], top.into, v)
  <2>2. dec' = Cut(dec, n, h) /\ decoded' = decoded
    BY <1>0, <2>1, StackMoves
  <2>3. n \in 1 .. Len(dec) - 1 /\ n + 1 = Len(dec) /\ n \in 1 .. Len(dec)
    BY <1>0, <2>1
  <2> HIDE DEF n
  <2>4. Shape(dec[n]) /\ Into(dec[n], top)
    BY <1>0, <2>3 DEF StackOK
  <2>5. top.into \in 1 .. Len(dec[n].fields) /\ GoodField(dec[n].fields[top.into])
    BY <2>4, FrameFields DEF Into, Shape, GoodFields
  <2> DEFINE e == Put(dec[n].fields[top.into], dec[n].vals[top.into], v)
  <2>7. /\ Alike(dec[n], h) /\ h.owner = dec[n].owner /\ h.in = dec[n].in /\ h.unknown = dec[n].unknown
        /\ h.vals = [dec[n].vals EXCEPT ![top.into] = e]
    BY <2>4, <2>5, DeliverShape DEF Into
  <2> HIDE DEF h
  <2>6. n = 1 => RootKept(<<h>>, s) /\ h.cls = dec[1].cls
    <3> SUFFICES ASSUME n = 1 PROVE RootKept(<<h>>, s) /\ h.cls = dec[1].cls
      OBVIOUS
    <3>1. PICK i : KeptSoFar(dec[1], s, i)
      BY DEF RootKept
    <3>2. h.cls = dec[1].cls /\ KeptSoFar(h, s, i)
      BY <2>7, <3>1 DEF KeptSoFar, Alike
    <3> DEFINE u == <<h>>
    <3>3. u[1] = h
      OBVIOUS
    <3> HIDE DEF u
    <3>4. RootKept(u, s)
      BY <3>2, <3>3 DEF RootKept
    <3> QED  BY <3>2, <3>4 DEF u
  <2> QED  BY <2>2, <2>3, <2>6, KeptBelow
<1> QED  BY <1>1, <1>2, <1>3, <1>4 DEF Moves

\* Nothing is unknown before the first record.
LEMMA StartKeeps ==
  ASSUME NEW c, NEW s, IsList(s)
  PROVE  RootKept(<<MessageFrame(c, s, 0, 0)>>, s)
<1> DEFINE f == MessageFrame(c, s, 0, 0)
           t == <<f>>
           o == 0
<1>1. f.in = s /\ f.cls = c /\ f.unknown = <<>>
  BY DEF MessageFrame, Frame
<1>2. t[1] = f
  OBVIOUS
<1> HIDE DEF f, t
<1>3. PICK g : Sifts(g, c, s) /\ UnknownTo(c, s) = g[Len(s)]
  BY UnknownToIs
<1>4. o \in 0 .. Len(s) /\ Len(s) = Len(s) - o /\ f.unknown = g[o] /\ \A j \in 1 .. Len(s) : o + j = j
  BY <1>1, <1>3, ListLen DEF Sifts
<1> HIDE DEF o
<1>5. KeptSoFar(f, s, o)
  BY <1>1, <1>3, <1>4 DEF KeptSoFar
<1>6. RootKept(t, s)
  BY <1>2, <1>5 DEF RootKept
<1> QED  BY <1>6 DEF t, f

-----------------------------------------------------------------------------
(* What the encoder writes of a message. *)

\* A function of the positions up to n is a list.
LEMMA ListFrom ==
  ASSUME NEW n \in Nat, NEW s, s = [k \in 1 .. n |-> s[k]]
  PROVE  IsList(s) /\ Len(s) = n
<1> DEFINE S == {s[k] : k \in 1 .. n}
<1>1. s \in [1 .. n -> S]
  OBVIOUS
<1> HIDE DEF S
<1>2. s \in Seq(S)
  BY <1>1
<1>3. Len(s) = n
  BY <1>1
<1> QED  BY <1>2, <1>3, ListOf

\* Lists one behind the other are a list.
LEMMA FlattenIs ==
  ASSUME NEW S, NEW seqs \in Seq(Seq(S))
  PROVE  FlattenSeq(seqs) \in Seq(S)
<1> DEFINE n == Len(seqs)
           T == Seq(S)
           add(k, u) == IF k = 1 THEN seqs[k] ELSE u \o seqs[k]
           step == [p \in (1 .. n) \X T |-> add(p[1], p[2])]
           Body(g) == [k \in 1 .. n |-> IF k = 1 THEN seqs[k] ELSE g[k - 1] \o seqs[k]]
           flatten == CHOOSE g : g = Body(g)
<1>1. n \in Nat /\ <<>> \in T /\ \A k \in 1 .. n : seqs[k] \in T
  BY LenProperties
<1>2. CASE n = 0
  <2>1. seqs = <<>>
    BY <1>2, EmptySeq
  <2> QED  BY <1>1, <1>2, <2>1 DEF FlattenSeq
<1>3. CASE n # 0
  <2>1. FlattenSeq(seqs) = flatten[n]
    BY <1>3 DEF FlattenSeq
  <2>2. \A k \in 1 .. n : \A u \in T : add(k, u) \in T
    BY <1>1, ConcatProperties
  <2> HIDE DEF T, n, add
  <2>3. step \in [(1 .. n) \X T -> T]
    BY <2>2
  <2>4. PICK f \in [0 .. n -> T] : Climbs(f, n, <<>>, step)
    <3> HIDE DEF step
    <3> QED  BY <1>1, <2>3, Recursion
  <2>5. \A k \in 1 .. n : f[k] = add(k, f[k - 1])
    <3> TAKE k \in 1 .. n
    <3>1. k - 1 \in 0 .. n
      BY <1>1
    <3>2. step[<<k, f[k - 1]>>] = add(k, f[k - 1])
      BY <3>1
    <3> QED  BY <2>4, <3>2 DEF Climbs
  <2> DEFINE h == [k \in 1 .. n |-> f[k]]
  <2>6. h = Body(h)
    <3>1. \A k \in 1 .. n : h[k] = IF k = 1 THEN seqs[k] ELSE h[k - 1] \o seqs[k]
      <4> TAKE k \in 1 .. n
      <4>1. k # 1 => k - 1 \in 1 .. n
        BY <1>1
      <4> QED  BY <2>5, <4>1 DEF add
    <3> QED  BY <3>1
  <2>7. flatten = Body(flatten)
    <3> HIDE DEF Body, h
    <3> QED  BY <2>6
  <2> HIDE DEF flatten
  <2>8. \A k \in 1 .. n : flatten[k] = add(k, flatten[k - 1])
    <3>1. \A k \in 1 .. n : flatten[k] = Body(flatten)[k]
      BY <2>7
    <3>2. \A k \in 1 .. n : Body(flatten)[k] = add(k, flatten[k - 1])
      BY DEF add
    <3> HIDE DEF Body
    <3> QED  BY <3>1, <3>2
  <2> DEFINE Bad == {k \in 1 .. n : flatten[k] \notin T}
  <2>9. Bad = {}
    <3> SUFFICES ASSUME Bad # {} PROVE FALSE
      OBVIOUS
    <3>1. PICK k \in Bad : \A j \in Bad : k <= j
      <4>1. Bad \in SUBSET Nat
        OBVIOUS
      <4> HIDE DEF Bad
      <4> QED  BY <4>1, LeastNat
    <3>2. k \in 1 .. n /\ flatten[k] \notin T
      OBVIOUS
    <3>3. k = 1 \/ (k - 1 \in 1 .. n /\ ~ (k <= k - 1))
      BY <1>1, <3>2
    <3>4. k = 1 \/ flatten[k - 1] \in T
      BY <3>1, <3>3
    <3>5. flatten[1] \in T \/ k # 1
      BY <1>1, <2>8, <3>2 DEF add
    <3> QED  BY <2>2, <2>8, <3>2, <3>4, <3>5
  <2>10. n \in 1 .. n
    BY <1>1, <1>3
  <2>11. flatten[n] \in T
    BY <2>9, <2>10
  <2> QED  BY <2>1, <2>11 DEF T
<1> QED  BY <1>2, <1>3

\* A field is the first of its number if no number is declared twice.
LEMMA OnlyDeclared ==
  ASSUME NEW c \in Class, Distinct(c), NEW k \in 1 .. Len(Fields[c])
  PROVE  FirstDeclared(Fields[c], Fields[c][k].num) = k
<1> DEFINE n == FirstDeclared(Fields[c], Fields[c][k].num)
<1>1. Len(Fields[c]) \in Nat
  BY ClassFields DEF GoodFields
<1>2. /\ n \in 0 .. Len(Fields[c]) /\ n # 0
      /\ n # 0 => Fields[c][n].num = Fields[c][k].num
  BY <1>1, FirstIs
<1> HIDE DEF n
<1>3. n \in 1 .. Len(Fields[c])
  BY <1>1, <1>2
<1> QED  BY <1>2, <1>3 DEF Distinct, n

\* An item that writes nothing that class c does not know.
KnownItem(c, it) ==
  /\ it.do = "write" => Knows(c, it.rec)
  /\ it.do \in {"nest", "entry"} => \A v : Knows(c, Record(it.num, "len", v))

\* The lists and dicts of an instance are lists.
Listed(m) ==
  \A k \in 1 .. Len(Fields[m.cls]) :
    (Fields[m.cls][k].kind = "map" \/ Fields[m.cls][k].label = "repeated") => IsList(m.vals[k])

\* A field writes only what its class knows.
LEMMA FieldWritesKnown ==
  ASSUME NEW c \in Class, Distinct(c), NEW k \in 1 .. Len(Fields[c]), NEW v,
         Fields[c][k].kind = "map" \/ Fields[c][k].label = "repeated" => IsList(v)
  PROVE  LET s == FieldItems(Fields[c][k], v) IN
         IsList(s) /\ \A j \in 1 .. Len(s) : KnownItem(c, s[j])
<1> DEFINE x == Fields[c][k]
           s == FieldItems(x, v)
<1>1. GoodField(x) /\ FirstDeclared(Fields[c], x.num) = k /\ k # 0
  BY ClassFields, OnlyDeclared DEF GoodFields
<1>2. \A rc : rc.num = x.num /\ Accepts(x, rc.wire) => Knows(c, rc)
  BY <1>1 DEF Knows
<1> HIDE DEF x
<1>3. \A num, wire, val : LET rc == Record(num, wire, val) IN rc.num = num /\ rc.wire = wire
  BY DEF Record
<1>4. Accepts(x, WireOf(x.kind))
  BY DEF Accepts
<1>5. ASSUME x.kind # "map", NEW e  PROVE KnownItem(c, Item(x, e))
  <2>1. CASE x.kind = "message"
    <3>1. WireOf(x.kind) = "len"
      BY <2>1 DEF WireOf
    <3> DEFINE it == Item(x, e)
    <3>2. it.do = "nest" /\ it.num = x.num
      BY <2>1 DEF Item, Nest
    <3> HIDE DEF it
    <3>4. KnownItem(c, it)
      BY <1>2, <1>3, <1>4, <3>1, <3>2 DEF KnownItem
    <3> QED  BY <3>4 DEF it
  <2>2. CASE x.kind \notin {"message"} \cup Time
    <3> DEFINE r == Record(x.num, WireOf(x.kind), e)
    <3>1. Knows(c, r)
      BY <1>2, <1>3, <1>4
    <3> HIDE DEF r
    <3> DEFINE it == Item(x, e)
    <3>2. it.do = "write" /\ it.rec = r
      BY <2>2 DEF Item, Write, r
    <3> HIDE DEF it
    <3>4. KnownItem(c, it)
      BY <3>1, <3>2 DEF KnownItem
    <3> QED  BY <3>4 DEF it
  <2>3. CASE x.kind \in Time
    <3>1. WireOf(x.kind) = "len" /\ x.kind # "message"
      BY <2>3 DEF WireOf, Time
    <3> DEFINE r == Record(x.num, "len", EncodeParts(PartsOf(x.kind, e)))
               it == Item(x, e)
    <3>2. Knows(c, r)
      BY <1>2, <1>3, <1>4, <3>1
    <3>3. it.do = "refuse" \/ (it.do = "write" /\ it.rec = r)
      BY <2>3, <3>1 DEF Item, Write, Refuse
    <3> HIDE DEF it, r
    <3>4. KnownItem(c, it)
      BY <3>2, <3>3 DEF KnownItem
    <3> QED  BY <3>4 DEF it
  <2> QED  BY <2>1, <2>2, <2>3
<1>6. CASE x.kind = "map"
  <2>1. x.label = "single" /\ IsList(v) /\ WireOf(x.kind) = "len"
    BY <1>1, <1>6 DEF GoodField, WireOf, x
  <2>2. s = MapItems(x, v)
    BY <1>6, <2>1 DEF FieldItems
  <2> DEFINE Pair(p) == <<Item(EntryFields(x)[1], p[1]), Item(EntryFields(x)[2], p[2])>>
             n == Len(v)
  <2>3. s = [j \in 1 .. n |-> Entry(x.num, Pair(v[j]))]
    BY <2>2 DEF MapItems
  <2> HIDE DEF s, Pair, n
  <2>4. \A j \in 1 .. n : s[j].do = "entry" /\ s[j].num = x.num
    BY <2>3 DEF Entry
  <2>5. s = [j \in 1 .. n |-> s[j]] /\ n \in Nat
    BY <2>1, <2>3, ListLen DEF n
  <2>6. IsList(s) /\ Len(s) = n
    BY <2>5, ListFrom
  <2>7. \A j \in 1 .. n : KnownItem(c, s[j])
    BY <1>2, <1>3, <1>4, <2>1, <2>4 DEF KnownItem
  <2> QED  BY <2>6, <2>7 DEF x, s
<1>7. \A e : LET t == <<e>> IN IsList(t) /\ Len(t) = 1 /\ t[1] = e
  <2> TAKE e
  <2> DEFINE t == <<e>>
  <2>1. t \in Seq({e}) /\ Len(t) = 1 /\ t[1] = e
    OBVIOUS
  <2> HIDE DEF t
  <2>2. IsList(t)
    BY <2>1, ListOf
  <2> QED  BY <2>1, <2>2 DEF t
<1>8. \A e : KnownItem(c, e) => LET t == <<e>> IN IsList(t) /\ \A j \in 1 .. Len(t) : KnownItem(c, t[j])
  <2> SUFFICES ASSUME NEW e, KnownItem(c, e)
               PROVE  LET t == <<e>> IN IsList(t) /\ \A j \in 1 .. Len(t) : KnownItem(c, t[j])
    OBVIOUS
  <2> DEFINE t == <<e>>
  <2>1. IsList(t) /\ Len(t) = 1 /\ t[1] = e
    BY <1>7
  <2> HIDE DEF t
  <2>2. \A j \in 1 .. Len(t) : j = 1
    BY <2>1
  <2> QED  BY <2>1, <2>2 DEF t
<1>9. LET t == <<>> IN IsList(t) /\ \A j \in 1 .. Len(t) : KnownItem(c, t[j])
  <2> DEFINE t == <<>>
  <2>1. IsList(t) /\ Len(t) = 0
    BY EmptySeq, ListOf
  <2> HIDE DEF t
  <2> QED  BY <2>1 DEF t
<1>10. CASE x.kind # "map" /\ x.label = "repeated" /\ Packable(x.kind)
  <2>1. s = Packing(x, v)
    BY <1>10 DEF FieldItems
  <2> DEFINE r == Record(x.num, "len", [j \in 1 .. Len(v) |-> [bits |-> v[j]]])
             e == Write(r)
  <2>2. Accepts(x, "len")
    BY <1>10 DEF Accepts
  <2>3. Knows(c, r)
    BY <1>2, <1>3, <2>2
  <2> HIDE DEF r
  <2>4. e.do = "write" /\ e.rec = r
    BY DEF Write
  <2>5. s = <<>> \/ s = <<e>>
    BY <2>1 DEF Packing, r
  <2> HIDE DEF e
  <2>6. KnownItem(c, e)
    BY <2>3, <2>4 DEF KnownItem
  <2> QED  BY <1>8, <1>9, <2>5, <2>6 DEF x, s
<1>11. CASE x.kind # "map" /\ x.label = "repeated" /\ ~ Packable(x.kind)
  <2> DEFINE n == Len(v)
  <2>1. s = [j \in 1 .. n |-> Item(x, v[j])]
    BY <1>11 DEF FieldItems
  <2>2. n \in Nat
    BY <1>11, ListLen DEF x
  <2> HIDE DEF s, n
  <2>3. s = [j \in 1 .. n |-> s[j]] /\ \A j \in 1 .. n : s[j] = Item(x, v[j])
    BY <2>1
  <2>4. IsList(s) /\ Len(s) = n
    BY <2>2, <2>3, ListFrom
  <2>5. \A j \in 1 .. n : KnownItem(c, s[j])
    BY <1>5, <1>11, <2>3
  <2> QED  BY <2>4, <2>5 DEF x, s
<1>12. CASE x.kind # "map" /\ x.label \in {"optional", "single"}
  <2> DEFINE e == Item(x, v)
  <2>1. s = <<>> \/ s = <<e>>
    BY <1>12 DEF FieldItems
  <2>2. KnownItem(c, e)
    BY <1>5, <1>12
  <2> HIDE DEF e
  <2> QED  BY <1>8, <1>9, <2>1, <2>2 DEF x, s
<1>13. x.label \in {"single", "optional", "repeated"}
  BY <1>1 DEF GoodField, Label
<1> QED  BY <1>6, <1>10, <1>11, <1>12, <1>13

\* A message writes only what its class knows, as far as it comes from fields.
LEMMA ItemsKnown ==
  ASSUME NEW m, m.cls \in Class, Listed(m), Distinct(m.cls)
  PROVE  IsList(Items(m)) /\ \A j \in 1 .. Len(Items(m)) : KnownItem(m.cls, Items(m)[j])
<1> DEFINE c == m.cls
           n == Len(Fields[c])
           seqs == [k \in 1 .. n |-> FieldItems(Fields[c][k], m.vals[k])]
           S == {it \in UNION {ToSet(seqs[k]) : k \in 1 .. n} : KnownItem(c, it)}
<1>1. n \in Nat
  BY ClassFields DEF GoodFields
<1>2. Items(m) = FlattenSeq(seqs)
  BY DEF Items
<1>3. ASSUME NEW k \in 1 .. n  PROVE seqs[k] \in Seq(S)
  <2> DEFINE t == FieldItems(Fields[c][k], m.vals[k])
  <2>1. IsList(t) /\ \A j \in 1 .. Len(t) : KnownItem(c, t[j])
    BY FieldWritesKnown DEF Listed
  <2>2. seqs[k] = t
    OBVIOUS
  <2> HIDE DEF t, seqs
  <2>3. \A e \in ToSet(t) : e \in S
    BY <2>1, <2>2, InToSet
  <2> HIDE DEF S
  <2>4. t \in Seq(S)
    BY <2>1, <2>3, SeqMonotonic DEF IsList
  <2> QED  BY <2>2, <2>4
<1>4. seqs = [k \in 1 .. n |-> seqs[k]]
  OBVIOUS
<1> HIDE DEF seqs
<1>5. seqs \in Seq(Seq(S))
  <2> DEFINE T == Seq(S)
  <2>1. \A k \in 1 .. n : seqs[k] \in T
    BY <1>3
  <2> HIDE DEF T, n
  <2>2. seqs \in [1 .. n -> T]
    BY <1>4, <2>1
  <2>3. seqs \in Seq(T)
    BY <1>1, <2>2
  <2> QED  BY <2>3 DEF T
<1>6. \A it \in S : KnownItem(c, it)
  OBVIOUS
<1> HIDE DEF S
<1>7. Items(m) \in Seq(S)
  BY <1>2, <1>5, FlattenIs
<1> QED  BY <1>6, <1>7, ListOf

\* The lists of a message that decode() returns are lists.
LEMMA InstanceListed ==
  ASSUME ~ IsList(None), NEW f, Shape(f), ~ f.entry, ValuesOK(f)
  PROVE  Listed(Instance(f)) /\ DOMAIN Instance(f) = {"cls", "vals", "unknown"}
<1> DEFINE m == Instance(f)
<1>1. f.cls \in Class /\ f.fields = Fields[f.cls] /\ GoodFields(f.fields)
      /\ DOMAIN f.fields = 1 .. Len(f.fields)
  BY ClassFields DEF Shape, Kin, KinOf
<1>2. m.cls = f.cls /\ DOMAIN m = {"cls", "vals", "unknown"} /\ \A k \in 1 .. Len(f.fields) :
        m.vals[k] = IF f.vals[k] = None THEN Default(f.fields[k]) ELSE f.vals[k]
  BY <1>1 DEF Instance
<1> HIDE DEF m
<1>3. ASSUME NEW k \in 1 .. Len(f.fields), f.fields[k].kind = "map" \/ f.fields[k].label = "repeated"
      PROVE  IsList(m.vals[k])
  <2>1. IsList(f.vals[k])
    BY <1>3 DEF ValuesOK, Partial, IsPairs
  <2> QED  BY <1>2, <2>1
<1> QED  BY <1>1, <1>2, <1>3 DEF Listed, m

\* A message that comes from known fields, and unknown ones that are that.
Plain(m) ==
  /\ m.cls \in Class /\ Listed(m) /\ Distinct(m.cls)
  /\ \A k \in 1 .. Len(m.unknown) : ~ Knows(m.cls, m.unknown[k])

AllKnown(c, s) == \A k \in 1 .. Len(s) : Knows(c, s[k])
AllItemsKnown(c, s) == IsList(s) /\ \A k \in 1 .. Len(s) : KnownItem(c, s[k])
KnownNumber(c, num) == \A v : Knows(c, Record(num, "len", v))

\* The outermost walk writes the message m: what is written and what is still
\* to be written is known, and so is the field that the next walk writes.
WalkOf(w, m) ==
  /\ w.inst = m /\ IsList(w.out)
  /\ Plain(m) => AllKnown(m.cls, w.out) /\ AllItemsKnown(m.cls, w.todo)

RootWalk(stack, m) ==
  /\ WalkOf(stack[1], m)
  /\ Plain(m) /\ Len(stack) > 1 => KnownNumber(m.cls, stack[2].num)

\* What encode() returns of m.
Emits(m, p) == IsList(p) /\ (Plain(m) => UnknownTo(m.cls, p) = m.unknown)

\* One item less, or one record more.
LEMMA WalkOn ==
  ASSUME NEW w, IsWalk(w), NEW m, WalkOf(w, m)
  PROVE  /\ w.todo # <<>> => WalkOf([w EXCEPT !.todo = Tail(@)], m)
         /\ \A r : (Plain(m) => Knows(m.cls, r)) => WalkOf([w EXCEPT !.out = Append(@, r)], m)
         /\ Plain(m) /\ w.todo # <<>> => KnownItem(m.cls, Head(w.todo))
<1>1. w.todo # <<>> => WalkOf([w EXCEPT !.todo = Tail(@)], m)
  <2> SUFFICES ASSUME w.todo # <<>>  PROVE WalkOf([w EXCEPT !.todo = Tail(@)], m)
    OBVIOUS
  <2> DEFINE t == Tail(w.todo)
             h == [w EXCEPT !.todo = t]
  <2>1. Plain(m) => AllItemsKnown(m.cls, t)
    <3> SUFFICES ASSUME Plain(m)  PROVE AllItemsKnown(m.cls, t)
      OBVIOUS
    <3>1. IsList(w.todo) /\ \A k \in 1 .. Len(w.todo) : KnownItem(m.cls, w.todo[k])
      BY DEF WalkOf, AllItemsKnown
    <3>2. Len(w.todo) \in Nat \ {0}
      BY <3>1, ListLen
    <3>3. IsList(t) /\ Len(t) = Len(w.todo) - 1 /\ \A k \in 1 .. Len(w.todo) - 1 : t[k] = w.todo[k + 1]
      BY <3>1, ListTail
    <3> HIDE DEF t
    <3>4. \A k \in 1 .. Len(t) : KnownItem(m.cls, t[k])
      <4> TAKE k \in 1 .. Len(t)
      <4>1. k + 1 \in 1 .. Len(w.todo) /\ k \in 1 .. Len(w.todo) - 1
        BY <3>2, <3>3
      <4> QED  BY <3>1, <3>3, <4>1
    <3> QED  BY <3>3, <3>4 DEF AllItemsKnown
  <2> HIDE DEF t
  <2>2. h.inst = w.inst /\ h.out = w.out /\ h.todo = t
    BY DEF IsWalk
  <2> HIDE DEF h
  <2>3. WalkOf(h, m)
    BY <2>1, <2>2 DEF WalkOf
  <2> QED  BY <2>3 DEF h, t
<1>2. ASSUME NEW r, Plain(m) => Knows(m.cls, r)  PROVE WalkOf([w EXCEPT !.out = Append(@, r)], m)
  <2> DEFINE t == Append(w.out, r)
             h == [w EXCEPT !.out = t]
  <2>1. /\ IsList(t) /\ Len(t) = Len(w.out) + 1 /\ Len(w.out) \in Nat
        /\ \A k \in 1 .. Len(w.out) : t[k] = w.out[k]
        /\ t[Len(w.out) + 1] = r
    BY ListAppend, ListLen DEF WalkOf
  <2> HIDE DEF t
  <2>2. Plain(m) => AllKnown(m.cls, t)
    <3> SUFFICES ASSUME Plain(m), NEW k \in 1 .. Len(t)  PROVE Knows(m.cls, t[k])
      BY DEF AllKnown
    <3>1. CASE k = Len(w.out) + 1
      BY <1>2, <2>1, <3>1
    <3>2. CASE k # Len(w.out) + 1
      <4>1. k \in 1 .. Len(w.out)
        BY <2>1, <3>2
      <4> QED  BY <2>1, <4>1 DEF WalkOf, AllKnown
    <3> QED  BY <3>1, <3>2
  <2>3. h.inst = w.inst /\ h.todo = w.todo /\ h.out = t
    BY DEF IsWalk
  <2> HIDE DEF h
  <2>4. WalkOf(h, m)
    BY <2>1, <2>2, <2>3 DEF WalkOf
  <2> QED  BY <2>4 DEF h, t
<1>3. Plain(m) /\ w.todo # <<>> => KnownItem(m.cls, Head(w.todo))
  <2> SUFFICES ASSUME Plain(m), w.todo # <<>>  PROVE KnownItem(m.cls, Head(w.todo))
    OBVIOUS
  <2>1. IsList(w.todo) /\ \A k \in 1 .. Len(w.todo) : KnownItem(m.cls, w.todo[k])
    BY DEF WalkOf, AllItemsKnown
  <2>2. Len(w.todo) \in Nat \ {0} /\ Head(w.todo) = w.todo[1]
    BY <2>1, ListLen, ListTail
  <2>3. 1 \in 1 .. Len(w.todo)
    BY <2>2
  <2> QED  BY <2>1, <2>2, <2>3
<1> QED  BY <1>1, <1>2, <1>3

\* Replacing the last walk, and pushing to it.
LEMMA RootWalks ==
  ASSUME WalksOK(enc), NEW m, RootWalk(enc, m), NEW n \in 1 .. Len(enc), NEW w,
         n = 1 => WalkOf(w, m),
         n > 1 => w.num = enc[n].num
  PROVE  /\ LET t == Cut(enc, n, w) IN t # <<>> /\ RootWalk(t, m)
         /\ \A v : (n = 1 /\ Plain(m) => KnownNumber(m.cls, v.num)) =>
              LET t == Append(Cut(enc, n, w), v) IN t # <<>> /\ RootWalk(t, m)
<1> DEFINE t == Cut(enc, n, w)
<1>0. IsList(enc) /\ Len(enc) \in Nat /\ n \in Nat \ {0}
  BY ListLen DEF WalksOK
<1>1. IsList(t) /\ Len(t) = n /\ (\A k \in 1 .. n - 1 : t[k] = enc[k]) /\ t[n] = w
  BY <1>0, CutIs
<1> HIDE DEF t
<1>2. t # <<>>
  BY <1>0, <1>1, ListLen
<1>3. WalkOf(t[1], m)
  <2>1. CASE n = 1
    BY <1>1, <2>1
  <2>2. CASE n # 1
    <3>1. 1 \in 1 .. n - 1
      BY <1>0, <2>2
    <3> QED  BY <1>1, <3>1 DEF RootWalk
  <2> QED  BY <2>1, <2>2
<1>4. n > 1 /\ Plain(m) => KnownNumber(m.cls, t[2].num)
  <2> SUFFICES ASSUME n > 1, Plain(m)  PROVE KnownNumber(m.cls, t[2].num)
    OBVIOUS
  <2>1. KnownNumber(m.cls, enc[2].num)
    BY <1>0 DEF RootWalk
  <2>2. t[2].num = enc[2].num
    <3>1. CASE n = 2
      BY <1>1, <3>1
    <3>2. CASE n # 2
      <4>1. 2 \in 1 .. n - 1
        BY <1>0, <3>2
      <4> QED  BY <1>1, <4>1
    <3> QED  BY <3>1, <3>2
  <2> QED  BY <2>1, <2>2
<1>5. RootWalk(t, m)
  BY <1>1, <1>3, <1>4 DEF RootWalk
<1>6. ASSUME NEW v, n = 1 /\ Plain(m) => KnownNumber(m.cls, v.num)
      PROVE  Append(t, v) # <<>> /\ RootWalk(Append(t, v), m)
  <2> DEFINE u == Append(t, v)
  <2>1. IsList(u) /\ Len(u) = n + 1 /\ (\A k \in 1 .. n : u[k] = t[k]) /\ u[n + 1] = v
    BY <1>1, ListAppend
  <2> HIDE DEF u
  <2>2. u # <<>> /\ 1 \in 1 .. n
    BY <1>0, <2>1, ListLen
  <2>3. u[1] = t[1]
    BY <2>1, <2>2
  <2>4. Plain(m) => KnownNumber(m.cls, u[2].num)
    <3>1. CASE n = 1
      BY <1>6, <2>1, <3>1
    <3>2. CASE n # 1
      <4>1. 2 \in 1 .. n
        BY <1>0, <3>2
      <4>2. u[2] = t[2] /\ n > 1
        BY <1>0, <2>1, <3>2, <4>1
      <4> QED  BY <1>4, <4>2
    <3> QED  BY <3>1, <3>2
  <2>5. RootWalk(u, m)
    BY <1>3, <2>3, <2>4 DEF RootWalk
  <2> QED  BY <2>2, <2>5 DEF u
<1> QED  BY <1>2, <1>5, <1>6 DEF t

\* Every step of the encoder keeps to what is known of the outermost walk, and
\* the last one puts the unknown fields behind the known ones.
LEMMA EncodeKeeps ==
  ASSUME WalksOK(enc), NEW m, RootWalk(enc, m), m = None \/ IsList(m.unknown), EncodeStep
  PROVE  \/ enc' = <<>> /\ encoded' = ValueError
         \/ enc' = <<>> /\ (m # None => Emits(m, encoded')) /\ IsList(encoded')
         \/ enc' # <<>> /\ RootWalk(enc', m) /\ encoded' = encoded
<1>0. enc # <<>>
  BY DEF EncodeStep, WriteRecord, RefuseValue, EncodeNested, EncodeMapEntry, OneofError, EndEncode,
         EndPayload, Writing, Finished
<1>1. /\ Len(enc) \in Nat \ {0} /\ Len(enc) \in 1 .. Len(enc) /\ walk = enc[Len(enc)] /\ IsWalk(walk)
  BY <1>0, ListLen DEF WalksOK, walk
<1>2. \A w : Append(Outer, w) = Cut(enc, Len(enc), w)
  BY DEF Outer, Cut
<1>3. IsWalk(Rest) /\ Rest.num = walk.num
  BY <1>1 DEF IsWalk, Rest
<1>4. Writing /\ Len(enc) = 1 => WalkOf(Rest, m) /\ (Plain(m) => KnownItem(m.cls, item))
  <2> SUFFICES ASSUME Writing, Len(enc) = 1
               PROVE  WalkOf(Rest, m) /\ (Plain(m) => KnownItem(m.cls, item))
    OBVIOUS
  <2>1. WalkOf(walk, m) /\ walk.todo # <<>>
    BY <1>1 DEF RootWalk, Writing
  <2> QED  BY <1>1, <2>1, WalkOn DEF Rest, item
<1>5. CASE WriteRecord
  <2> DEFINE h == [Rest EXCEPT !.out = Append(@, item.rec)]
  <2>1. h.num = walk.num
    BY <1>3 DEF IsWalk
  <2>2. Len(enc) = 1 => WalkOf(h, m)
    <3>1. Len(enc) = 1 => WalkOf(Rest, m) /\ (Plain(m) => Knows(m.cls, item.rec))
      BY <1>4, <1>5 DEF WriteRecord, KnownItem
    <3> QED  BY <1>3, <3>1, WalkOn
  <2>3. enc' = Append(Outer, h) /\ encoded' = encoded
    BY <1>5 DEF WriteRecord
  <2> HIDE DEF h
  <2>4. enc' = Cut(enc, Len(enc), h)
    BY <1>2, <2>3
  <2>5. Cut(enc, Len(enc), h) # <<>> /\ RootWalk(Cut(enc, Len(enc), h), m)
    BY <1>1, <2>1, <2>2, RootWalks
  <2> QED  BY <2>3, <2>4, <2>5
<1>6. ASSUME NEW v, Writing, item.do \in {"nest", "entry"}, v.num = item.num,
             enc' = Append(Append(Outer, Rest), v)
      PROVE  enc' # <<>> /\ RootWalk(enc', m)
  <2>1. enc' = Append(Cut(enc, Len(enc), Rest), v)
    BY <1>2, <1>6
  <2>2. Len(enc) = 1 /\ Plain(m) => KnownNumber(m.cls, v.num)
    BY <1>4, <1>6 DEF KnownItem, KnownNumber
  <2>3. LET t == Append(Cut(enc, Len(enc), Rest), v) IN t # <<>> /\ RootWalk(t, m)
    BY <1>1, <1>3, <1>4, <1>6, <2>2, RootWalks
  <2> QED  BY <2>1, <2>3
<1>7. CASE EncodeNested
  <2>1. CASE walk.depth + 1 > MaxDepth
    BY <1>7, <2>1 DEF EncodeNested, FailEncode
  <2>2. CASE ~ (walk.depth + 1 > MaxDepth)
    <3> DEFINE v == MessageWalk(item.inst, walk.depth + 1, item.num)
    <3>1. v.num = item.num
      BY DEF MessageWalk
    <3>2. /\ Writing /\ item.do = "nest" /\ enc' = Append(Append(Outer, Rest), v)
          /\ encoded' = encoded
      BY <1>7, <2>2 DEF EncodeNested
    <3> HIDE DEF v
    <3> QED  BY <1>6, <3>1, <3>2
  <2> QED  BY <2>1, <2>2
<1>8. CASE EncodeMapEntry
  <2> DEFINE v == EntryWalk(item.items, walk.depth, item.num)
  <2>1. v.num = item.num
    BY DEF EntryWalk
  <2>2. /\ Writing /\ item.do = "entry" /\ enc' = Append(Append(Outer, Rest), v)
        /\ encoded' = encoded
    BY <1>8 DEF EncodeMapEntry
  <2> HIDE DEF v
  <2> QED  BY <1>6, <2>1, <2>2
<1>9. CASE EndPayload
  <2> DEFINE n == Len(enc) - 1
             r == Record(walk.num, "len", Payload)
             h == [enc[n] EXCEPT !.out = Append(@, r)]
  <2>1. n \in 1 .. Len(enc) /\ n - 1 = Len(enc) - 2 /\ (n = 1 => Len(enc) > 1 /\ walk = enc[2])
    BY <1>1, <1>9 DEF EndPayload
  <2>2. enc' = Cut(enc, n, h) /\ encoded' = encoded
    BY <1>9, <2>1 DEF EndPayload, Cut
  <2> HIDE DEF n
  <2>3. IsWalk(enc[n])
    BY <2>1 DEF WalksOK
  <2>4. h.num = enc[n].num
    BY <2>3 DEF IsWalk
  <2>5. n = 1 => WalkOf(h, m)
    <3> SUFFICES ASSUME n = 1  PROVE WalkOf(h, m)
      OBVIOUS
    <3>1. WalkOf(enc[n], m)
      BY DEF RootWalk
    <3>2. Plain(m) => Knows(m.cls, r)
      BY <2>1 DEF RootWalk, KnownNumber
    <3> HIDE DEF r
    <3> QED  BY <2>3, <3>1, <3>2, WalkOn
  <2> HIDE DEF h
  <2>6. Cut(enc, n, h) # <<>> /\ RootWalk(Cut(enc, n, h), m)
    BY <2>1, <2>4, <2>5, RootWalks
  <2> QED  BY <2>2, <2>6
<1>10. CASE EndEncode
  <2>1. /\ enc' = <<>> /\ WalkOf(walk, m) /\ walk.inst = m /\ IsList(walk.out)
        /\ encoded' = IF m = None THEN walk.out ELSE walk.out \o m.unknown
    BY <1>1, <1>10 DEF EndEncode, Payload, RootWalk, WalkOf
  <2>2. CASE m = None
    BY <2>1, <2>2
  <2>3. CASE m # None
    <3>1. IsList(m.unknown) /\ encoded' = walk.out \o m.unknown
      BY <2>1, <2>3
    <3>2. IsList(walk.out \o m.unknown)
      BY <2>1, <3>1, ListConcat
    <3>3. Plain(m) => UnknownTo(m.cls, walk.out \o m.unknown) = m.unknown
      <4> SUFFICES ASSUME Plain(m)  PROVE UnknownTo(m.cls, walk.out \o m.unknown) = m.unknown
        OBVIOUS
      <4>1. /\ \A k \in 1 .. Len(walk.out) : Knows(m.cls, walk.out[k])
            /\ \A k \in 1 .. Len(m.unknown) : ~ Knows(m.cls, m.unknown[k])
        BY <2>1 DEF WalkOf, AllKnown, Plain
      <4> QED  BY <2>1, <3>1, <4>1, KnownFirst
    <3> QED  BY <2>1, <3>1, <3>2, <3>3 DEF Emits
  <2> QED  BY <2>2, <2>3
<1>11. CASE RefuseValue \/ OneofError
  BY <1>11 DEF RefuseValue, OneofError, FailEncode
<1> QED  BY <1>5, <1>7, <1>8, <1>9, <1>10, <1>11 DEF EncodeStep

\* At first nothing is written, and all that is to be written is known.
LEMMA StartWalks ==
  ASSUME NEW m
  PROVE  RootWalk(<<MessageWalk(m, 0, 0)>>, m)
<1> DEFINE w == MessageWalk(m, 0, 0)
           t == <<w>>
           e == <<>>
<1>1. w.inst = m /\ w.todo = Items(m) /\ w.out = e
  BY DEF MessageWalk
<1>2. t[1] = w /\ Len(t) = 1
  OBVIOUS
<1>3. IsList(e) /\ Len(e) = 0
  BY EmptySeq, ListOf
<1> HIDE DEF w, t, e
<1>4. AllKnown(m.cls, e)
  BY <1>3 DEF AllKnown
<1>5. Plain(m) => AllItemsKnown(m.cls, Items(m))
  BY ItemsKnown DEF Plain, AllItemsKnown
<1>6. WalkOf(w, m)
  BY <1>1, <1>3, <1>4, <1>5 DEF WalkOf
<1>7. RootWalk(t, m)
  BY <1>2, <1>6 DEF RootWalk
<1> QED  BY <1>7 DEF t, w

-----------------------------------------------------------------------------
(* The messages on the path. *)

\* The instance m was decoded from the records s.
Bears(m, s) ==
  /\ DOMAIN m = {"cls", "vals", "unknown"} /\ Listed(m)
  /\ m.unknown = UnknownTo(m.cls, s)

\* What is on the path so far, and which call may run.
PathOK ==
  /\ IsList(streams) /\ Len(streams) > 0
  /\ Len(streams) \in {Len(insts), Len(insts) + 1}
  /\ \A k \in 1 .. Len(streams) : IsList(streams[k]) \/ k <= Len(insts)
  /\ dec # <<>> \/ decoded # None => Len(streams) = Len(insts) + 1
  /\ enc # <<>> \/ encoded # None => Len(streams) = Len(insts)
  /\ dec = <<>> \/ decoded = None
  /\ enc = <<>> \/ encoded = None

\* Every instance has what its class does not know, and so has what it becomes.
KeptAll ==
  \A k \in 1 .. Len(insts) :
    /\ insts[k] = None \/ IsList(insts[k].unknown)
    /\ streams[k] # None => IsList(streams[k]) /\ Bears(insts[k], streams[k])
    /\ k < Len(streams) /\ streams[k] # None => Emits(insts[k], streams[k + 1])

\* So will the one that is decoded or encoded.
KeptNow ==
  /\ dec # <<>> => RootKept(dec, streams[Len(streams)])
  /\ \/ decoded \in {None, ValueError, OverflowError}
     \/ Bears(decoded, streams[Len(streams)])
  /\ enc # <<>> => RootWalk(enc, insts[Len(insts)])
  /\ \/ encoded \in {None, ValueError}
     \/ IsList(encoded) /\ (insts[Len(insts)] # None => Emits(insts[Len(insts)], encoded))

KeptInv == PathOK /\ KeptAll /\ KeptNow

\* What has been decoded has a list of records that its class does not know.
LEMMA BornUnknown ==
  ASSUME NEW m, NEW s, IsList(s), Bears(m, s)
  PROVE  IsList(m.unknown) /\ \A k \in 1 .. Len(m.unknown) : ~ Knows(m.cls, m.unknown[k])
<1> DEFINE S == {rc \in ToSet(s) : ~ Knows(m.cls, rc)}
<1>1. PICK g \in [0 .. Len(s) -> Seq(S)] : UnknownTo(m.cls, s) = g[Len(s)]
  BY UnknownToIs
<1>2. Len(s) \in 0 .. Len(s)
  BY ListLen
<1>3. \A rc \in S : ~ Knows(m.cls, rc)
  OBVIOUS
<1> HIDE DEF S
<1>4. m.unknown \in Seq(S)
  BY <1>1, <1>2 DEF Bears
<1> QED  BY <1>3, <1>4, ListOf

\* The invariant holds at first.
LEMMA InitKept == Init => KeptInv
<1> SUFFICES ASSUME Init  PROVE KeptInv
  OBVIOUS
<1>1. dec = <<>> /\ enc = <<>> /\ decoded = None /\ encoded = None /\ path \in Paths
  BY DEF Init
<1>2. KeptNow
  BY <1>1 DEF KeptNow
<1>3. CASE insts = <<>> /\ \E s \in Streams[path] : streams = <<s>>
  <2>1. PICK s \in Streams[path] : streams = <<s>>
    BY <1>3
  <2>2. streams \in Seq({s}) /\ Len(streams) = 1 /\ streams[1] = s
    BY <2>1
  <2>3. IsList(streams) /\ IsList(s)
    BY <1>1, <2>2, ListOf, RelayAssumption DEF IsList
  <2>4. Len(insts) = 0
    BY <1>3, EmptySeq
  <2>5. PathOK
    BY <1>1, <2>2, <2>3, <2>4 DEF PathOK
  <2>6. KeptAll
    BY <2>4 DEF KeptAll
  <2> QED  BY <1>2, <2>5, <2>6 DEF KeptInv
<1>4. CASE streams = <<None>> /\ \E m \in Instances : insts = <<m>>
  <2>1. PICK m \in Instances : insts = <<m>>
    BY <1>4
  <2>2. streams \in Seq({None}) /\ Len(streams) = 1 /\ streams[1] = None
    BY <1>4
  <2>3. Len(insts) = 1 /\ insts[1] = m
    BY <2>1
  <2>4. IsList(streams) /\ IsList(m.unknown)
    BY <2>2, ListOf, RelayAssumption DEF IsList
  <2>5. PathOK
    BY <1>1, <2>2, <2>3, <2>4 DEF PathOK
  <2>6. KeptAll
    BY <2>2, <2>3, <2>4 DEF KeptAll
  <2> QED  BY <1>2, <2>5, <2>6 DEF KeptInv
<1> QED  BY <1>3, <1>4 DEF Init

\* A step of the decoder keeps it.
LEMMA DecodeKept ==
  ASSUME NoneIsApart, StacksInv, ValuesInv, KeptInv, DecodeStep, UNCHANGED <<encVars, relayVars>>
  PROVE  KeptInv'
<1> DEFINE s == streams[Len(streams)]
<1>1. enc' = enc /\ encoded' = encoded /\ insts' = insts /\ streams' = streams
  BY DEF encVars, relayVars
<1>2. dec # <<>>
  BY DEF DecodeStep, Malformed, Unknown, DecodePacked, DecodeValue, DecodeText, DecodeTime,
         DecodeNested, DecodeMapEntry, EndRoot, EndNested, DefaultMessage, EndEntry, Reading, AtEnd
<1>3. /\ Len(streams) = Len(insts) + 1 /\ enc = <<>> /\ encoded = None /\ decoded = None
      /\ Len(insts) \in Nat
  BY <1>2, ListLen DEF KeptInv, PathOK, StacksInv
<1>4. IsList(s) /\ RootKept(dec, s)
  BY <1>2, <1>3 DEF KeptInv, PathOK, KeptNow
<1>5. Moves /\ StackOK(dec)
  BY DecodeMoves DEF StacksInv
<1>6. KeptAll'
  BY <1>1 DEF KeptInv, KeptAll
<1> HIDE DEF s
<1>7. CASE dec' = <<>> /\ decoded' \in {ValueError, OverflowError}
  <2>1. PathOK'
    BY <1>1, <1>3, <1>7 DEF KeptInv, PathOK
  <2>2. KeptNow'
    BY <1>1, <1>3, <1>7 DEF KeptNow
  <2> QED  BY <1>6, <2>1, <2>2 DEF KeptInv
<1>8. CASE /\ dec' = <<>> /\ Len(dec) = 1 /\ decoded' = Instance(top)
           /\ decoded'.cls = dec[1].cls /\ decoded'.unknown = UnknownTo(dec[1].cls, s)
  <2>1. PathOK'
    BY <1>1, <1>3, <1>8 DEF KeptInv, PathOK
  <2>2. Shape(top) /\ ~ top.entry /\ ValuesOK(top)
    <3>1. top = dec[1] /\ 1 \in 1 .. Len(dec)
      BY <1>8 DEF top
    <3> QED  BY <1>2, <1>5, <3>1 DEF StackOK, ValuesInv, AllValues
  <2>3. Listed(decoded') /\ DOMAIN decoded' = {"cls", "vals", "unknown"}
    BY <1>8, <2>2, InstanceListed DEF NoneIsApart
  <2>4. Bears(decoded', s)
    BY <1>8, <2>3 DEF Bears
  <2>5. KeptNow'
    BY <1>1, <1>3, <1>8, <2>4 DEF KeptNow, s
  <2> QED  BY <1>6, <2>1, <2>5 DEF KeptInv
<1>9. CASE dec' # <<>> /\ RootKept(dec', s) /\ decoded' = decoded
  <2>1. PathOK'
    BY <1>1, <1>3, <1>9 DEF KeptInv, PathOK
  <2>2. KeptNow'
    BY <1>1, <1>3, <1>9 DEF KeptNow, s
  <2> QED  BY <1>6, <2>1, <2>2 DEF KeptInv
<1> QED  BY <1>2, <1>4, <1>5, <1>7, <1>8, <1>9, KeptStep

\* A step of the encoder keeps it.
LEMMA EncodeKept ==
  ASSUME NoneIsApart, StacksInv, KeptInv, EncodeStep, UNCHANGED <<decVars, relayVars>>
  PROVE  KeptInv'
<1> DEFINE m == insts[Len(insts)]
<1>1. dec' = dec /\ decoded' = decoded /\ insts' = insts /\ streams' = streams
  BY DEF decVars, relayVars
<1>2. enc # <<>>
  BY DEF EncodeStep, WriteRecord, RefuseValue, EncodeNested, EncodeMapEntry, OneofError,
         EndEncode, EndPayload, Writing, Finished
<1>3. /\ Len(streams) = Len(insts) /\ dec = <<>> /\ decoded = None /\ encoded = None
      /\ Len(insts) \in Nat \ {0}
  BY <1>2, ListLen DEF KeptInv, PathOK, StacksInv
<1>4. Len(insts) \in 1 .. Len(insts)
  BY <1>3
<1>5. RootWalk(enc, m) /\ (m = None \/ IsList(m.unknown)) /\ WalksOK(enc)
  BY <1>2, <1>4 DEF KeptInv, KeptAll, KeptNow, StacksInv
<1>6. KeptAll'
  BY <1>1 DEF KeptInv, KeptAll
<1> HIDE DEF m
<1>7. \/ enc' = <<>> /\ encoded' = ValueError
      \/ enc' = <<>> /\ (m # None => Emits(m, encoded')) /\ IsList(encoded')
      \/ enc' # <<>> /\ RootWalk(enc', m) /\ encoded' = encoded
  BY <1>5, EncodeKeeps
<1>8. PathOK'
  BY <1>1, <1>3, <1>7 DEF KeptInv, PathOK
<1>9. KeptNow'
  BY <1>1, <1>3, <1>7 DEF KeptNow, m
<1> QED  BY <1>6, <1>8, <1>9 DEF KeptInv

\* decode() and encode() start and return on the path.
LEMMA CallsKept ==
  ASSUME NoneIsApart, StacksInv, KeptInv, FromBytes \/ ToBytes \/ Decoded \/ Encoded
  PROVE  KeptInv'
<1>0. /\ IsList(insts) /\ Len(insts) \in Nat /\ IsList(streams) /\ Len(streams) \in Nat \ {0}
      /\ Len(streams) \in {Len(insts), Len(insts) + 1}
      /\ \A k \in 1 .. Len(streams) : IsList(streams[k]) \/ k <= Len(insts)
  BY ListLen DEF StacksInv, KeptInv, PathOK
<1> DEFINE s == streams[Len(streams)]
           m == insts[Len(insts)]
<1>1. CASE FromBytes
  <2>1. /\ dec' = <<MessageFrame(path[Len(insts) + 1], s, 0, 0)>> /\ decoded' = None
        /\ enc = <<>> /\ encoded = None /\ enc' = enc /\ encoded' = encoded
        /\ insts' = insts /\ streams' = streams /\ Len(streams) = Len(insts) + 1
    BY <1>1 DEF FromBytes, Idle, Start, encVars, relayVars
  <2>2. RootKept(dec', s)
    <3>1. IsList(s)
      BY <1>0, <2>1
    <3> HIDE DEF s
    <3> QED  BY <2>1, <3>1, StartKeeps
  <2>3. PathOK'
    BY <1>0, <2>1 DEF KeptInv, PathOK
  <2>4. KeptAll'
    BY <2>1 DEF KeptInv, KeptAll
  <2>5. KeptNow'
    BY <2>1, <2>2 DEF KeptNow
  <2> QED  BY <2>3, <2>4, <2>5 DEF KeptInv
<1>2. CASE ToBytes
  <2>1. /\ enc' = <<MessageWalk(m, 0, 0)>> /\ encoded' = None
        /\ dec = <<>> /\ decoded = None /\ dec' = dec /\ decoded' = decoded
        /\ insts' = insts /\ streams' = streams /\ Len(streams) = Len(insts)
    BY <1>2 DEF ToBytes, Idle, StartEncode, decVars, relayVars
  <2>2. RootWalk(enc', m)
    BY <2>1, StartWalks
  <2>3. PathOK'
    BY <1>0, <2>1 DEF KeptInv, PathOK
  <2>4. KeptAll'
    BY <2>1 DEF KeptInv, KeptAll
  <2>5. KeptNow'
    BY <2>1, <2>2 DEF KeptNow
  <2> QED  BY <2>3, <2>4, <2>5 DEF KeptInv
<1>3. CASE Decoded
  <2>1. /\ decoded # None /\ decoded' = None /\ dec' = dec /\ enc' = enc /\ encoded' = encoded
        /\ streams' = streams
    BY <1>3 DEF Decoded, encVars
  <2>2. /\ dec = <<>> /\ Len(streams) = Len(insts) + 1 /\ enc = <<>> /\ encoded = None
    BY <1>0, <2>1 DEF KeptInv, PathOK
  <2>3. KeptNow'
    BY <2>1, <2>2 DEF KeptNow
  <2>4. CASE decoded \in {ValueError, OverflowError}
    <3>1. insts' = insts
      BY <1>3, <2>4 DEF Decoded
    <3>2. PathOK'
      BY <1>0, <2>1, <2>2, <3>1 DEF PathOK
    <3>3. KeptAll'
      BY <2>1, <3>1 DEF KeptInv, KeptAll
    <3> QED  BY <2>3, <3>2, <3>3 DEF KeptInv
  <2>5. CASE decoded \notin {ValueError, OverflowError}
    <3>1. insts' = Append(insts, decoded)
      BY <1>3, <2>5 DEF Decoded
    <3>2. /\ Len(insts') = Len(insts) + 1 /\ insts'[Len(insts) + 1] = decoded
          /\ \A k \in 1 .. Len(insts) : insts'[k] = insts[k]
      BY <1>0, <3>1, ListAppend
    <3>3. IsList(s) /\ Bears(decoded, s)
      BY <1>0, <2>1, <2>2, <2>5 DEF KeptInv, KeptNow
    <3>4. IsList(decoded.unknown)
      BY <3>3, BornUnknown
    <3>5. PathOK'
      BY <1>0, <2>1, <2>2, <3>2 DEF PathOK
    <3>6. KeptAll'
      <4> SUFFICES ASSUME NEW k \in 1 .. Len(insts) + 1
                   PROVE  /\ insts'[k] = None \/ IsList(insts'[k].unknown)
                          /\ streams[k] # None => IsList(streams[k]) /\ Bears(insts'[k], streams[k])
                          /\ k < Len(streams) /\ streams[k] # None => Emits(insts'[k], streams[k + 1])
        BY <2>1, <3>2 DEF KeptAll
      <4>1. CASE k = Len(insts) + 1
        BY <1>0, <2>2, <3>2, <3>3, <3>4, <4>1
      <4>2. CASE k # Len(insts) + 1
        <5>1. k \in 1 .. Len(insts)
          BY <1>0, <4>2
        <5> QED  BY <3>2, <5>1 DEF KeptInv, KeptAll
      <4> QED  BY <4>1, <4>2
    <3> QED  BY <2>3, <3>5, <3>6 DEF KeptInv
  <2> QED  BY <2>4, <2>5
<1>4. CASE Encoded
  <2>1. /\ encoded # None /\ encoded' = None /\ enc' = enc /\ dec' = dec /\ decoded' = decoded
        /\ insts' = insts
    BY <1>4 DEF Encoded, decVars
  <2>2. enc = <<>> /\ Len(streams) = Len(insts) /\ dec = <<>> /\ decoded = None
    BY <1>0, <2>1 DEF KeptInv, PathOK
  <2>3. KeptNow'
    BY <2>1, <2>2 DEF KeptNow
  <2>4. CASE encoded = ValueError
    <3>1. streams' = streams
      BY <1>4, <2>4 DEF Encoded
    <3>2. PathOK'
      BY <1>0, <2>1, <2>2, <3>1 DEF PathOK
    <3>3. KeptAll'
      BY <2>1, <3>1 DEF KeptInv, KeptAll
    <3> QED  BY <2>3, <3>2, <3>3 DEF KeptInv
  <2>5. CASE encoded # ValueError
    <3>1. streams' = Append(streams, encoded)
      BY <1>4, <2>5 DEF Encoded
    <3>2. /\ IsList(streams') /\ Len(streams') = Len(streams) + 1
          /\ streams'[Len(streams) + 1] = encoded
          /\ \A k \in 1 .. Len(streams) : streams'[k] = streams[k]
      BY <1>0, <3>1, ListAppend
    <3>3. IsList(encoded) /\ (m # None => Emits(m, encoded))
      BY <2>1, <2>5 DEF KeptInv, KeptNow
    <3>4. PathOK'
      <4>1. ASSUME NEW k \in 1 .. Len(streams) + 1  PROVE IsList(streams'[k]) \/ k <= Len(insts)
        BY <1>0, <2>2, <3>2, <3>3
      <4> QED  BY <1>0, <2>1, <2>2, <3>2, <4>1 DEF PathOK
    <3>5. KeptAll'
      <4> SUFFICES ASSUME NEW k \in 1 .. Len(insts)
                   PROVE  /\ insts[k] = None \/ IsList(insts[k].unknown)
                          /\ streams[k] # None => IsList(streams[k]) /\ Bears(insts[k], streams[k])
                          /\ streams[k] # None => Emits(insts[k], streams'[k + 1])
        BY <2>1, <2>2, <3>2 DEF KeptAll
      <4>1. /\ insts[k] = None \/ IsList(insts[k].unknown)
            /\ streams[k] # None => IsList(streams[k]) /\ Bears(insts[k], streams[k])
            /\ k < Len(streams) /\ streams[k] # None => Emits(insts[k], streams[k + 1])
        BY DEF KeptInv, KeptAll
      <4>2. CASE k = Len(insts)
        <5>1. streams[k] # None => insts[k] # None
          BY <4>1 DEF Bears, NoneIsApart
        <5>2. streams'[k + 1] = encoded /\ m = insts[k]
          BY <2>2, <3>2, <4>2
        <5> QED  BY <3>3, <4>1, <5>1, <5>2
      <4>3. CASE k # Len(insts)
        <5>1. k + 1 \in 1 .. Len(streams) /\ k < Len(streams)
          BY <1>0, <2>2, <4>3
        <5> QED  BY <3>2, <4>1, <5>1
      <4> QED  BY <4>2, <4>3
    <3> QED  BY <2>3, <3>4, <3>5 DEF KeptInv
  <2> QED  BY <2>4, <2>5
<1> QED  BY <1>1, <1>2, <1>3, <1>4

\* Every step keeps it.
LEMMA NextKept ==
  ASSUME NoneIsApart
  PROVE  StacksInv /\ ValuesInv /\ KeptInv /\ [Next]_vars => KeptInv'
<1> SUFFICES ASSUME StacksInv, ValuesInv, KeptInv, [Next]_vars  PROVE KeptInv'
  OBVIOUS
<1>1. CASE UNCHANGED vars
  BY <1>1 DEF KeptInv, PathOK, KeptAll, KeptNow, vars, decVars, encVars, relayVars
<1> QED  BY <1>1, CallsKept, DecodeKept, EncodeKept DEF Next

\* Whatever a program's schema does not know, fields that it lacks and fields
\* that came with another wire type, is in what the program sends, verbatim and
\* in the order in which it came: for every pair of schemas and every message.
THEOREM UnknownIsKept ==
  ASSUME NoneIsApart
  PROVE  Spec => []UnknownKept
<1>1. StacksInv /\ ValuesInv /\ KeptInv => UnknownKept
  <2> SUFFICES ASSUME StacksInv, ValuesInv, KeptInv, NEW k \in 1 .. Len(insts),
                      streams[k] # None, Len(streams) > k, Distinct(insts[k].cls)
               PROVE  UnknownTo(insts[k].cls, streams[k + 1]) = UnknownTo(insts[k].cls, streams[k])
    BY DEF UnknownKept
  <2> DEFINE m == insts[k]
  <2>1. IsList(streams[k]) /\ Bears(m, streams[k]) /\ Emits(m, streams[k + 1])
    BY ListLen DEF KeptInv, KeptAll, PathOK
  <2>2. m.cls \in Class
    BY DEF ValuesInv, GoodInstance
  <2>3. \A j \in 1 .. Len(m.unknown) : ~ Knows(m.cls, m.unknown[j])
    BY <2>1, BornUnknown
  <2>4. Plain(m)
    BY <2>1, <2>2, <2>3 DEF Plain, Bears
  <2> QED  BY <2>1, <2>4 DEF Emits, Bears
<1>2. ~ IsList(None)
  BY DEF NoneIsApart
<1>3. Spec => [](StacksInv /\ ValuesInv)
  BY <1>2, ValuesTyped
<1>4. StacksInv /\ ValuesInv /\ KeptInv /\ [Next]_vars => KeptInv'
  BY NextKept
<1> QED  BY <1>1, <1>3, <1>4, InitKept, PTL DEF Spec
=============================================================================
