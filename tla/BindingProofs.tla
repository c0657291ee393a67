--------------------------- MODULE BindingProofs ---------------------------
(***************************************************************************)
(* Proofs about Binding: whatever bytes come in, what parse_message hands  *)
(* to the codec is fit for it.                                             *)
(***************************************************************************)
EXTENDS Binding, RecordsProofs

-----------------------------------------------------------------------------
(* The table of fields. *)

\* Field numbers have a maximum.
LEMMA MaxNumIs ==
  ASSUME NEW n \in Nat, NEW fields, Len(fields) \in Nat,
         \A k \in 1 .. Len(fields) : fields[k].num \in 0 .. n
  PROVE  MaxNum(fields) \in Nat /\ \A k \in 1 .. Len(fields) : fields[k].num <= MaxNum(fields)
<1> DEFINE S == {0} \cup {fields[k].num : k \in 1 .. Len(fields)}
<1>1. S \in SUBSET (0 .. n) /\ S # {}
  OBVIOUS
<1>2. \E m \in S : \A k \in S : k <= m
  <2> HIDE DEF S
  <2> QED  BY <1>1, GreatestNat
<1>3. \E m \in S : \A k \in 1 .. Len(fields) : fields[k].num <= m
  BY <1>2
<1>4. MaxNum(fields) = CHOOSE m \in S : \A k \in 1 .. Len(fields) : fields[k].num <= m
  BY DEF MaxNum
<1>5. MaxNum(fields) \in S /\ \A k \in 1 .. Len(fields) : fields[k].num <= MaxNum(fields)
  <2> HIDE DEF S
  <2> QED  BY <1>3, <1>4
<1> QED  BY <1>1, <1>5

\* The least of the indexes with a number is the one that a scan finds.
LEMMA LeastIsFirst ==
  ASSUME NEW fields, Len(fields) \in Nat, NEW num
  PROVE  FirstDeclared(fields, num)
           = IF IndexesOf(fields, num) = {} THEN 0 ELSE Least(IndexesOf(fields, num))
<1> DEFINE I == IndexesOf(fields, num)
           n == FirstDeclared(fields, num)
<1>1. /\ n \in 0 .. Len(fields)
      /\ n = 0 => \A k \in 1 .. Len(fields) : fields[k].num # num
      /\ n # 0 => fields[n].num = num /\ \A k \in 1 .. n - 1 : fields[k].num # num
  BY FirstIs
<1>2. I \in SUBSET (1 .. Len(fields)) /\ \A k \in 1 .. Len(fields) : k \in I <=> fields[k].num = num
  BY DEF IndexesOf
<1> HIDE DEF n, I
<1>3. CASE n = 0
  BY <1>1, <1>2, <1>3 DEF n, I
<1>4. CASE n # 0
  <2>1. n \in I /\ \A k \in I : n <= k
    BY <1>1, <1>2, <1>4
  <2>2. \A k \in I : (\A j \in I : k <= j) => k = n
    BY <2>1, <1>2
  <2>3. Least(I) = n
    BY <2>1, <2>2 DEF Least
  <2> QED  BY <2>1, <2>3 DEF n, I
<1> QED  BY <1>3, <1>4

\* FieldIndex answers as a scan does, dense or sparse.
LEMMA TableIsScan ==
  ASSUME NEW n \in Nat, NEW fields, Len(fields) \in Nat,
         \A k \in 1 .. Len(fields) : fields[k].num \in 0 .. n,
         NEW num \in Nat
  PROVE  Get(Build(fields), num) = FirstDeclared(fields, num)
<1> DEFINE I == IndexesOf(fields, num)
<1>1. FirstDeclared(fields, num) = IF I = {} THEN 0 ELSE Least(I)
  BY LeastIsFirst
<1>2. I \in SUBSET (1 .. Len(fields)) /\ \A k \in 1 .. Len(fields) : k \in I <=> fields[k].num = num
  BY DEF IndexesOf
<1>3. CASE IsDense(fields)
  <2> DEFINE t == DenseTable(fields)
  <2>1. Get(Build(fields), num) = IF num \in DOMAIN t THEN t[num] ELSE 0
    <3> HIDE DEF t
    <3>1. Build(fields) = [dense |-> TRUE, table |-> t]
      BY <1>3 DEF Build, t
    <3> QED  BY <3>1 DEF Get
  <2>2. DOMAIN t = 0 .. MaxNum(fields) /\ (num \in DOMAIN t => t[num] = IF I = {} THEN 0 ELSE Least(I))
    BY DEF DenseTable
  <2>3. MaxNum(fields) \in Nat /\ \A k \in 1 .. Len(fields) : fields[k].num <= MaxNum(fields)
    BY MaxNumIs
  <2>4. num \notin 0 .. MaxNum(fields) => I = {}
    BY <1>2, <2>3
  <2> HIDE DEF t, I
  <2> QED  BY <1>1, <2>1, <2>2, <2>4
<1>4. CASE ~ IsDense(fields)
  <2> DEFINE pairs == SparsePairs(fields)
  <2>1. Get(Build(fields), num)
          = IF \E p \in pairs : p[1] = num THEN (CHOOSE p \in pairs : p[1] = num)[2] ELSE 0
    <3> HIDE DEF pairs
    <3>1. Build(fields) = [dense |-> FALSE, pairs |-> pairs]
      BY <1>4 DEF Build, pairs
    <3> QED  BY <3>1 DEF Get
  <2>2. I # {} => Least(I) \in I
    <3>1. I # {} => FirstDeclared(fields, num) \in 1 .. Len(fields)
                    /\ fields[FirstDeclared(fields, num)].num = num
      BY <1>2, FirstIs
    <3> QED  BY <1>1, <1>2, <3>1
  <2>3. I # {} => <<num, Least(I)>> \in pairs
    BY <1>2, <2>2 DEF SparsePairs
  <2>4. \A p \in pairs : p[1] = num => I # {} /\ p[2] = Least(I)
    <3>1. TAKE p \in pairs
    <3>2. HAVE p[1] = num
    <3>3. PICK k \in 1 .. Len(fields) : k = Least(IndexesOf(fields, fields[k].num))
                                        /\ p = <<fields[k].num, k>>
      BY DEF SparsePairs
    <3>4. fields[k].num = num /\ p[2] = k
      BY <3>2, <3>3
    <3> QED  BY <1>2, <3>3, <3>4
  <2> HIDE DEF pairs, I
  <2>5. CASE I = {}
    BY <1>1, <2>1, <2>4, <2>5
  <2>6. CASE I # {}
    <3>1. \E p \in pairs : p[1] = num
      BY <2>3, <2>6
    <3>2. \A p \in pairs : p[1] = num => p[2] = Least(I)
      BY <2>4
    <3> QED  BY <1>1, <2>1, <2>6, <3>1, <3>2
  <2> QED  BY <2>5, <2>6
<1> QED  BY <1>3, <1>4
-----------------------------------------------------------------------------
(* What is read from a FieldDescriptorProto and from a map entry. *)

\* A field's number and the index of its oneof are integers of their width.
IsRaw(raw) ==
  /\ raw.num \in UInt(NumberBits)
  /\ raw.oneof # None => raw.oneof \in UInt(NumberBits)

\* A cast to the width of a number has it.
LEMMA Remainder ==
  ASSUME NEW v \in Nat
  PROVE  AsUnsigned(v, NumberBits) \in UInt(NumberBits)
<1> DEFINE m == 2 ^ NumberBits
<1>1. m \in Nat \ {0}
  BY ParseAssumption
<1>2. AsUnsigned(v, NumberBits) = v % m /\ UInt(NumberBits) = 0 .. m - 1
  BY DEF AsUnsigned, UInt
<1> HIDE DEF m
<1> QED  BY <1>1, <1>2

\* Whatever the records of a field are, its number and oneof are cut to size.
LEMMA RawFieldIs ==
  ASSUME NEW p, IsList(p),
         \A r \in ToSet(p) : IsRecord(r) /\ r.wire = "varint" => r.val \in Nat,
         ~ Unreadable(p, {1, 6})
  PROVE  IsRaw(RawField(p))
<1>1. Len(p) \in Nat /\ \A k \in 1 .. Len(p) : p[k].wire = "varint" => p[k].val \in Nat
  BY ListLen, InToSet DEF Unreadable
<1>2. \A num : \A initial : LastValue(p, num, "varint", initial) \in Nat \cup {initial}
  BY <1>1, LastIs
<1>3. RawField(p).num = AsUnsigned(LastValue(p, 3, "varint", 0), NumberBits)
      /\ RawField(p).oneof = IF LastValue(p, 9, "varint", None) = None THEN None
                             ELSE AsUnsigned(LastValue(p, 9, "varint", None), NumberBits)
  BY DEF RawField
<1>4. LastValue(p, 3, "varint", 0) \in Nat
  BY <1>2
<1>5. LastValue(p, 9, "varint", None) # None => LastValue(p, 9, "varint", None) \in Nat
  BY <1>2
<1> QED  BY <1>3, <1>4, <1>5, Remainder DEF IsRaw

\* Both halves of a map entry have a type.
IsEntry(e) == DOMAIN e = {"key", "elem", "typeName"} /\ e.key # None /\ e.elem # None

\* What parse_nested_map_entry returns has both.
LEMMA MapEntryIs ==
  ASSUME NEW p, IsList(p), ~ BadNested(p)
  PROVE  IsEntry(MapEntry(p))
<1> DEFINE I == {k \in 1 .. Len(p) : p[k].num = 2 /\ p[k].wire = "len" /\ RawField(p[k].val).num = 2}
           side == Side(p, 2)
<1>1. side = IF I # {} THEN Max(I) ELSE 0
  BY DEF Side, SelectLastInSeq
<1>2. side # 0 => side \in I
  <2>1. Len(p) \in Nat /\ I \in SUBSET (0 .. Len(p))
    BY ListLen
  <2> HIDE DEF I
  <2> QED  BY <1>1, <2>1, MinMax
<1>3. side # 0 => KindOf(RawField(p[side].val).type, RawField(p[side].val).typeName) # None
  <2>1. HAVE side # 0
  <2>2. p[side] \in ToSet(p) /\ p[side].num = 2 /\ p[side].wire = "len" /\ RawField(p[side].val).num = 2
    BY <1>2, <2>1, InToSet
  <2> HIDE DEF side
  <2> QED  BY <2>2 DEF BadNested
<1>4. MapEntry(p).elem = IF side = 0 THEN "string"
                         ELSE KindOf(RawField(p[side].val).type, RawField(p[side].val).typeName)
  BY DEF MapEntry
<1>5. \E kind : MapEntry(p).key = IF kind = None THEN "string" ELSE kind
  BY DEF MapEntry
<1>6. DOMAIN MapEntry(p) = {"key", "elem", "typeName"}
  BY DEF MapEntry
<1> HIDE DEF side
<1> QED  BY <1>3, <1>4, <1>5, <1>6, ParseAssumption DEF IsEntry

-----------------------------------------------------------------------------
(* interpret_field. *)

\* What the codec relies on in a field of a descriptor with these oneofs.
FitField(y, groups) ==
  /\ y.oneof # None => y.oneof + 1 \in DOMAIN groups
  /\ y.kind = "map" => y.label = "single" /\ y.oneof = None /\ y.key # None /\ y.elem # None
  /\ y.label = "single" => y.oneof = None /\ y.kind \notin {"message", "timestamp", "duration"}

\* The kinds of fields that are no maps.
PlainKind ==
  {"double", "float", "int64", "uint64", "int32", "fixed64", "fixed32", "bool", "string", "bytes",
   "uint32", "sfixed32", "sfixed64", "sint32", "sint64", "enum", "message", "timestamp", "duration"}

\* A type that is known is one of these.
LEMMA KindIs ==
  ASSUME NEW code, NEW typeName, KindOf(code, typeName) # None
  PROVE  KindOf(code, typeName) \in PlainKind
<1>1. CASE code = TypeEnum
  BY <1>1 DEF KindOf, PlainKind
<1>2. CASE code = TypeMessage
  BY <1>2 DEF KindOf, PlainKind, TypeMessage, TypeEnum
<1>3. CASE code # TypeEnum /\ code # TypeMessage
  <2>1. KindOf(code, typeName) = ScalarFromProtoType(code)
    BY <1>3 DEF KindOf
  <2>2. code \in 1 .. 18 \ {10, 11, 14} /\ KindOf(code, typeName) = ScalarName[code]
    BY <2>1 DEF ScalarFromProtoType, TypeGroup, TypeMessage, TypeEnum
  <2>3. code \in {1, 2, 3, 4, 5, 6, 7, 8, 9, 12, 13, 15, 16, 17, 18}
    BY <2>2
  <2>4. ScalarName[code] \in PlainKind
    BY <2>3 DEF ScalarName, PlainKind
  <2> QED  BY <2>2, <2>4
<1> QED  BY <1>1, <1>2, <1>3

\* A field that is interpreted is fit for the codec.
LEMMA InterpretedIs ==
  ASSUME NEW raw, IsRaw(raw), ~ Uninterpretable(raw), IsList(oneofs),
         \A n \in DOMAIN entries : IsEntry(entries[n])
  PROVE  /\ Interpreted(raw).num = raw.num
         /\ Interpreted(raw).kind \in PlainKind \cup {"map"}
         /\ FitField(Interpreted(raw), oneofs)
<1> DEFINE y == Interpreted(raw)
           x == IF IsMap(raw) THEN MapField(raw) ELSE PlainField(raw)
<1>1. DOMAIN x = {"num", "name", "kind", "key", "elem", "label", "typeName", "oneof"}
  BY DEF MapField, PlainField
<1>2. /\ y.num = x.num /\ y.kind = x.kind /\ y.key = x.key /\ y.elem = x.elem /\ y.label = x.label
      /\ y.oneof = IF InRange(x.oneof) THEN x.oneof ELSE None
  <2> HIDE DEF x
  <2>1. y = [x EXCEPT !.oneof = IF InRange(@) THEN @ ELSE None]
    BY DEF Interpreted, x
  <2> QED  BY <1>1, <2>1
<1>3. DOMAIN oneofs = 1 .. Len(oneofs) /\ Len(oneofs) \in Nat
  BY ListLen
<1>4. CASE IsMap(raw)
  <2>1. IsEntry(entries[ShortName(raw.typeName)])
    BY <1>4 DEF IsMap
  <2>2. /\ x.num = raw.num /\ x.kind = "map" /\ x.label = "single" /\ x.oneof = None
        /\ x.key = entries[ShortName(raw.typeName)].key
        /\ x.elem = entries[ShortName(raw.typeName)].elem
    BY <1>4 DEF MapField
  <2> HIDE DEF x, y
  <2>3. y.oneof = None
    BY <1>2, <2>2
  <2> QED  BY <1>2, <2>1, <2>2, <2>3 DEF FitField, IsEntry, y
<1>5. CASE ~ IsMap(raw)
  <2> DEFINE kind == KindOf(raw.type, raw.typeName)
  <2>1. kind \in PlainKind
    BY <1>5, KindIs DEF Uninterpretable
  <2>2. x.num = raw.num /\ x.kind = kind /\ x.label = LabelOf(raw, kind) /\ x.oneof = RealOneof(raw)
    BY <1>5 DEF PlainField
  <2> HIDE DEF kind, x, y
  <2>3. kind # "map"
    BY <2>1 DEF PlainKind
  <2>4. y.oneof # None => y.oneof = raw.oneof /\ raw.oneof \in UInt(NumberBits) /\ raw.oneof < Len(oneofs)
    BY <1>2, <2>2 DEF RealOneof, InRange, IsRaw
  <2>5. y.oneof # None => y.oneof + 1 \in DOMAIN oneofs
    BY <1>3, <2>4, ParseAssumption DEF UInt
  <2>6. y.label = "single" => x.oneof = None /\ kind \notin {"message", "timestamp", "duration"}
    BY <1>2, <2>2 DEF LabelOf
  <2>7. x.oneof = None => y.oneof = None
    BY <1>2
  <2> QED  BY <1>2, <2>1, <2>2, <2>3, <2>5, <2>6, <2>7 DEF FitField, y
<1> QED  BY <1>4, <1>5
-----------------------------------------------------------------------------
(* parse_message, one record after the other. *)

\* A descriptor that is fit for the codec.
FitDescriptor(p) ==
  /\ IsList(p.fields)
  /\ \A k \in 1 .. Len(p.fields) :
       /\ p.fields[k].num \in UInt(NumberBits)
       /\ p.fields[k].kind \in PlainKind \cup {"map"}
       /\ FitField(p.fields[k], p.oneofs)

\* The inductive invariant: what has been collected can be interpreted, in
\* whatever order it came.
ParseInv ==
  /\ IsInput(todo)
  /\ IsList(raws) /\ \A k \in 1 .. Len(raws) : IsRaw(raws[k])
  /\ IsList(oneofs)
  /\ \A n \in DOMAIN entries : IsEntry(entries[n])
  /\ IsDescriptor(parsed) => FitDescriptor(parsed)

\* Parsing starts with an input of protoc or of hand.
LEMMA InitParse == Init => ParseInv
<1> SUFFICES ASSUME Init PROVE ParseInv
  OBVIOUS
<1>1. \E input : IsInput(input) /\ ParseInit(input)
  <2>1. CASE handMade = FALSE
    <3>1. files \in {r \in Requests : Generated(r)} /\ class \in ClassesOf(files)
          /\ ParseInit(InputOf(files, class))
      BY <2>1 DEF Init
    <3>2. IsInput(InputOf(files, class))
      BY <3>1, BindingAssumption
    <3> QED  BY <3>1, <3>2
  <2>2. CASE handMade = TRUE
    <3>1. \E input \in HandMade : ParseInit(input)
      BY <2>2 DEF Init
    <3> QED  BY <3>1, BindingAssumption
  <2> QED  BY <2>1, <2>2 DEF Init
<1>2. PICK input : IsInput(input) /\ ParseInit(input)
  BY <1>1
<1>3. IsList(<<>>) /\ Len(<<>>) = 0
  <2>1. <<>> \in Seq({})
    OBVIOUS
  <2> QED  BY <2>1, ListOf
<1>4. DOMAIN <<>> = {}
  OBVIOUS
<1>5. todo = input /\ raws = <<>> /\ entries = <<>> /\ oneofs = <<>> /\ ~ IsDescriptor(parsed)
  BY <1>2 DEF ParseInit, IsDescriptor
<1> QED  BY <1>2, <1>3, <1>4, <1>5 DEF ParseInv

\* Taking a payload leaves an input.
LEMMA TakeIs ==
  ASSUME IsInput(todo), NEW tag \in Tag, Take(tag)
  PROVE  IsInput(todo') /\ Payload(tag) \in ToSet(todo[tag])
<1> DEFINE q == todo[tag]
<1>1. IsList(q) /\ q # <<>> /\ todo' = [todo EXCEPT ![tag] = Tail(q)]
  BY DEF IsInput, Take, IsList
<1>2. DOMAIN todo' = Tag /\ todo'[tag] = Tail(q) /\ \A g \in Tag \ {tag} : todo'[g] = todo[g]
  BY <1>1 DEF IsInput
<1>3. IsList(Tail(q)) /\ Len(Tail(q)) = Len(q) - 1 /\ Head(q) = q[1]
      /\ \A k \in 1 .. Len(q) - 1 : Tail(q)[k] = q[k + 1]
  BY <1>1, ListTail
<1>4. Len(q) \in Nat /\ Len(q) > 0
  BY <1>1, ListLen
<1> HIDE DEF q
<1>5. ToSet(Tail(q)) \subseteq ToSet(q)
  <2> SUFFICES ASSUME NEW e \in ToSet(Tail(q)) PROVE e \in ToSet(q)
    OBVIOUS
  <2> DEFINE t == Tail(q)
  <2>1. IsList(t) /\ Len(t) = Len(q) - 1 /\ e \in ToSet(t)
    BY <1>3
  <2> HIDE DEF t
  <2>2. \E k \in 1 .. Len(t) : e = t[k]
    BY <2>1, InToSet
  <2>3. PICK k \in 1 .. Len(q) - 1 : e = Tail(q)[k]
    BY <2>1, <2>2 DEF t
  <2>4. k + 1 \in 1 .. Len(q) /\ e = q[k + 1]
    BY <2>3, <1>3, <1>4
  <2> QED  BY <2>4, <1>1, InToSet
<1>6. Head(q) \in ToSet(q)
  <2>1. 1 \in 1 .. Len(q)
    BY <1>4
  <2> QED  BY <1>1, <1>3, <2>1, InToSet
<1>7. \A g \in Tag : IsList(todo'[g]) /\ ToSet(todo'[g]) \subseteq ToSet(todo[g])
  BY <1>2, <1>3, <1>5 DEF IsInput, IsList, q
<1>8. "field" \in Tag /\ "nested" \in Tag
  BY DEF Tag
<1>9. IsInput(todo')
  BY <1>2, <1>7, <1>8 DEF IsInput, IsList
<1> QED  BY <1>6, <1>9 DEF Payload, q

\* Every record that is read, and the interpretation at the end, keep it.
LEMMA StepParse == ParseInv /\ ParseStep => ParseInv'
<1> SUFFICES ASSUME ParseInv, ParseStep PROVE ParseInv'
  OBVIOUS
<1> USE DEF ParseInv
<1>1. \A tag \in Tag : Take(tag) => IsInput(todo')
  BY TakeIs
<1>2. CASE ReadName
  <2>1. IsInput(todo') /\ UNCHANGED <<raws, entries, oneofs>> /\ parsed' \in {parsed, ParseError}
    BY <1>1, <1>2 DEF ReadName, Tag, Fail
  <2> QED  BY <2>1 DEF IsDescriptor
<1>3. CASE ReadField
  <2> DEFINE p == Payload("field")
  <2>1. IsInput(todo') /\ UNCHANGED <<entries, oneofs>> /\ parsed' \in {parsed, ParseError}
    BY <1>1, <1>3 DEF ReadField, Tag, Fail
  <2>2. CASE Unreadable(p, {1, 6})
    BY <1>3, <2>1, <2>2 DEF ReadField, Fail, IsDescriptor
  <2>3. CASE ~ Unreadable(p, {1, 6})
    <3>1. p \in ToSet(todo["field"])
      BY <1>3, TakeIs DEF ReadField, Tag
    <3>2. IsRaw(RawField(p))
      <4>1. IsList(p) /\ \A r \in ToSet(p) : IsRecord(r) /\ r.wire = "varint" => r.val \in Nat
        BY <3>1 DEF IsInput, IsList
      <4> HIDE DEF p
      <4> QED  BY <2>3, <4>1, RawFieldIs
    <3>3. raws' = Append(raws, RawField(p))
      BY <1>3, <2>3 DEF ReadField
    <3>4. IsList(raws') /\ \A k \in 1 .. Len(raws') : IsRaw(raws'[k])
      <4> DEFINE raw == RawField(p)
      <4> HIDE DEF raw
      <4>1. /\ IsList(Append(raws, raw)) /\ Len(Append(raws, raw)) = Len(raws) + 1
            /\ \A k \in 1 .. Len(raws) : Append(raws, raw)[k] = raws[k]
            /\ Append(raws, raw)[Len(raws) + 1] = raw
        BY ListAppend
      <4>2. Len(raws) \in Nat
        BY ListLen
      <4>3. \A k \in 1 .. Len(raws) + 1 : k \in 1 .. Len(raws) \/ k = Len(raws) + 1
        BY <4>2
      <4>4. raws' = Append(raws, raw) /\ IsRaw(raw)
        BY <3>2, <3>3 DEF raw
      <4> QED  BY <4>1, <4>3, <4>4
    <3> QED  BY <2>1, <3>4 DEF IsDescriptor, IsRaw
  <2> QED  BY <2>2, <2>3
<1>4. CASE ReadNested
  <2> DEFINE p == Payload("nested")
  <2>1. IsInput(todo') /\ UNCHANGED <<raws, oneofs>> /\ parsed' \in {parsed, ParseError}
    BY <1>1, <1>4 DEF ReadNested, Tag, Fail
  <2>2. CASE BadNested(p) \/ ~ IsMapEntry(p)
    <3>1. entries' = entries
      BY <1>4, <2>2 DEF ReadNested, Fail
    <3> QED  BY <2>1, <3>1 DEF IsDescriptor
  <2>3. CASE ~ BadNested(p) /\ IsMapEntry(p)
    <3>1. p \in ToSet(todo["nested"])
      BY <1>4, TakeIs DEF ReadNested, Tag
    <3>2. IsEntry(MapEntry(p))
      BY <2>3, <3>1, MapEntryIs DEF IsInput, IsList
    <3> DEFINE n == LastValue(p, 1, "len", "")
               e == MapEntry(p)
    <3>3. entries' = Insert(entries, n, e)
      BY <1>4, <2>3 DEF ReadNested
    <3> HIDE DEF n, e, p
    <3>4. \A m \in DOMAIN entries' :
            (m = n /\ entries'[m] = e) \/ (m \in DOMAIN entries /\ entries'[m] = entries[m])
      BY <3>3 DEF Insert
    <3>5. \A m \in DOMAIN entries' : IsEntry(entries'[m])
      BY <3>2, <3>4 DEF e
    <3> QED  BY <2>1, <3>5 DEF IsDescriptor
  <2> QED  BY <2>2, <2>3
<1>5. CASE ReadOneof
  <2>1. IsInput(todo') /\ UNCHANGED <<raws, entries>> /\ parsed' \in {parsed, ParseError}
    BY <1>1, <1>5 DEF ReadOneof, Tag, Fail
  <2>2. oneofs' = oneofs \/ \E n : oneofs' = Append(oneofs, n)
    BY <1>5 DEF ReadOneof, Fail
  <2>3. IsList(oneofs) /\ \A n : IsList(Append(oneofs, n))
    BY ListAppend
  <2>4. IsList(oneofs')
    BY <2>2, <2>3
  <2> QED  BY <2>1, <2>4 DEF IsDescriptor
<1>6. CASE Skip
  <2>1. IsInput(todo') /\ UNCHANGED <<raws, entries, oneofs>> /\ parsed' \in {parsed, ParseError}
    BY <1>1, <1>6 DEF Skip, Tag, Fail
  <2> QED  BY <2>1 DEF IsDescriptor
<1>7. CASE Interpret
  <2>1. UNCHANGED <<todo, raws, entries, oneofs>>
    BY <1>7 DEF Interpret
  <2>2. IsDescriptor(parsed') => FitDescriptor(parsed')
    <3>1. HAVE IsDescriptor(parsed')
    <3>2. \A k \in 1 .. Len(raws) : ~ Uninterpretable(raws[k])
      BY <1>7, <3>1 DEF Interpret, IsDescriptor
    <3> DEFINE fs == [k \in 1 .. Len(raws) |-> Interpreted(raws[k])]
    <3>3. parsed'.fields = fs /\ parsed'.oneofs = oneofs
      BY <1>7, <3>2 DEF Interpret
    <3>4. Len(raws) \in Nat
      BY ListLen
    <3>5. IsList(fs) /\ Len(fs) = Len(raws) /\ \A k \in 1 .. Len(raws) : fs[k] = Interpreted(raws[k])
      <4> DEFINE S == {Interpreted(raws[k]) : k \in 1 .. Len(raws)}
      <4>1. fs \in Seq(S)
        BY <3>4
      <4>2. DOMAIN fs = 1 .. Len(raws) /\ \A k \in 1 .. Len(raws) : fs[k] = Interpreted(raws[k])
        OBVIOUS
      <4> HIDE DEF fs, S
      <4>3. IsList(fs) /\ Len(fs) \in Nat /\ DOMAIN fs = 1 .. Len(fs)
        BY <4>1, ListOf
      <4>4. Len(fs) = Len(raws)
        BY <3>4, <4>2, <4>3
      <4> QED  BY <4>2, <4>3, <4>4
    <3> HIDE DEF fs
    <3>6. \A k \in 1 .. Len(raws) :
            /\ fs[k].num \in UInt(NumberBits)
            /\ fs[k].kind \in PlainKind \cup {"map"}
            /\ FitField(fs[k], oneofs)
      <4> TAKE k \in 1 .. Len(raws)
      <4>1. IsRaw(raws[k]) /\ ~ Uninterpretable(raws[k])
        BY <3>2
      <4>2. /\ Interpreted(raws[k]).num = raws[k].num
            /\ Interpreted(raws[k]).kind \in PlainKind \cup {"map"}
            /\ FitField(Interpreted(raws[k]), oneofs)
        BY <4>1, InterpretedIs
      <4> QED  BY <3>5, <4>1, <4>2 DEF IsRaw
    <3> QED  BY <3>3, <3>5, <3>6 DEF FitDescriptor
  <2> QED  BY <2>1, <2>2
<1> QED  BY <1>2, <1>3, <1>4, <1>5, <1>6, <1>7 DEF ParseStep

\* Linking and decoding leave the descriptor alone.
LEMMA NextParse == ParseInv /\ [Next]_vars => ParseInv'
<1> SUFFICES ASSUME ParseInv, [Next]_vars PROVE ParseInv'
  OBVIOUS
<1>1. CASE Compile
  BY <1>1, StepParse DEF Compile
<1>2. CASE UNCHANGED parseVars
  BY <1>2 DEF parseVars, ParseInv
<1> QED  BY <1>1, <1>2 DEF Next, Link, Construct, vars

\* What parse_message has collected is fit to be interpreted, always.
THEOREM ParsedIsFit == Spec => []ParseInv
BY InitParse, NextParse, PTL DEF Spec

\* The codec can walk every descriptor that compile() accepts, whatever the
\* bytes and the order of their records: an index into the oneofs is inside
\* the table, a map has types for both halves, a member of a oneof can be None.
THEOREM DescriptorsAreSafe == Spec => []CodecSafe
<1>1. ParseInv => CodecSafe
  <2> SUFFICES ASSUME ParseInv, IsDescriptor(parsed), NEW y \in ToSet(parsed.fields)
               PROVE  FitField(y, parsed.oneofs)
    BY DEF CodecSafe, FitField
  <2>1. FitDescriptor(parsed)
    BY DEF ParseInv
  <2>2. \E k \in 1 .. Len(parsed.fields) : y = parsed.fields[k]
    BY <2>1, InToSet DEF FitDescriptor
  <2> QED  BY <2>1, <2>2 DEF FitDescriptor
<1> QED  BY <1>1, ParsedIsFit, PTL

\* The decoder's table answers for every number what a scan of the fields
\* would, whether it is dense or sparse and numbers repeat, are zero or wrap.
THEOREM TableAnswersAsScan == Spec => []LookupIsScan
<1>1. ParseInv => LookupIsScan
  <2> SUFFICES ASSUME ParseInv, IsDescriptor(parsed), NEW num \in UInt(NumberBits)
               PROVE  Get(Build(parsed.fields), num) = FirstDeclared(parsed.fields, num)
    BY DEF LookupIsScan
  <2> DEFINE fs == parsed.fields
             n == 2 ^ NumberBits - 1
  <2>1. FitDescriptor(parsed)
    BY DEF ParseInv
  <2>2. n \in Nat /\ UInt(NumberBits) = 0 .. n
    BY ParseAssumption DEF UInt
  <2>3. Len(fs) \in Nat
    BY <2>1, ListLen DEF FitDescriptor
  <2>4. \A k \in 1 .. Len(fs) : fs[k].num \in 0 .. n
    BY <2>1, <2>2 DEF FitDescriptor
  <2>5. num \in Nat
    BY <2>2
  <2> HIDE DEF n, fs
  <2>6. Get(Build(fs), num) = FirstDeclared(fs, num)
    BY <2>2, <2>3, <2>4, <2>5, TableIsScan
  <2> QED  BY <2>6 DEF fs
<1> QED  BY <1>1, ParsedIsFit, PTL

\* parse_message keeps its types: field numbers have their width, a map entry
\* has all its parts, and every kind is one that the codec knows.
THEOREM ParserIsTyped == Spec => []TypeOK
<1>1. PlainKind \cup {"map"} \subseteq FieldKind
  <2>1. /\ ScalarName[1] = "double" /\ ScalarName[2] = "float" /\ ScalarName[3] = "int64"
        /\ ScalarName[4] = "uint64" /\ ScalarName[5] = "int32" /\ ScalarName[6] = "fixed64"
        /\ ScalarName[7] = "fixed32" /\ ScalarName[8] = "bool" /\ ScalarName[9] = "string"
        /\ ScalarName[11] = "message" /\ ScalarName[12] = "bytes" /\ ScalarName[13] = "uint32"
        /\ ScalarName[14] = "enum" /\ ScalarName[15] = "sfixed32" /\ ScalarName[16] = "sfixed64"
        /\ ScalarName[17] = "sint32" /\ ScalarName[18] = "sint64"
    BY DEF ScalarName
  <2>2. \A code \in 1 .. 18 : ScalarName[code] # "group" => ScalarName[code] \in FieldKind
    BY DEF FieldKind
  <2>3. {"timestamp", "duration", "map"} \subseteq FieldKind
    BY DEF FieldKind
  <2>4. \A code \in {1, 2, 3, 4, 5, 6, 7, 8, 9, 11, 12, 13, 14, 15, 16, 17, 18} : code \in 1 .. 18
    OBVIOUS
  <2>5. \A code \in {1, 2, 3, 4, 5, 6, 7, 8, 9, 11, 12, 13, 14, 15, 16, 17, 18} :
          ScalarName[code] # "group"
    BY <2>1
  <2>6. {"double", "float", "int64", "uint64", "int32", "fixed64", "fixed32", "bool", "string", "message",
         "bytes", "uint32", "enum", "sfixed32", "sfixed64", "sint32", "sint64"} \subseteq FieldKind
    BY <2>1, <2>2, <2>4, <2>5
  <2> QED  BY <2>3, <2>6 DEF PlainKind
<1>2. ParseInv => TypeOK
  <2> SUFFICES ASSUME ParseInv PROVE TypeOK
    OBVIOUS
  <2>1. DOMAIN todo = Tag
    BY DEF ParseInv, IsInput
  <2>2. IsDescriptor(parsed) => \A y \in ToSet(parsed.fields) : y.kind \in FieldKind
    <3>1. HAVE IsDescriptor(parsed)
    <3>2. FitDescriptor(parsed)
      BY <3>1 DEF ParseInv
    <3> QED  BY <1>1, <3>2, InToSet DEF FitDescriptor
  <2> QED  BY <2>1, <2>2 DEF TypeOK, ParseInv, IsRaw, IsEntry
<1> QED  BY <1>2, ParsedIsFit, PTL
-----------------------------------------------------------------------------
(* Enum members. *)

\* The table, the dict and the call of an enum agree on every number.
LEMMA CoerceIsOpen ==
  ASSUME NEW enum, IsEnum(enum), NEW number \in SInt(EnumBits)
  PROVE  CoerceEnum(enum, number) = OpenEnum(enum, number)
<1> DEFINE members == MemberMap(enum)
           ref == BuildLinkedRef(enum)
           slot == AsUnsigned(number, EnumBits)
           vs == enum.values
<1>1. \A n \in DOMAIN members : members[n] \notin {None, Raised}
  <2>1. SUFFICES ASSUME NEW n \in DOMAIN members PROVE members[n] \in ToSet(vs)
    BY DEF IsEnum
  <2> DEFINE I == {i \in 1 .. Len(vs) : vs[i][2] = n}
  <2>2. IsList(vs)
    BY DEF IsEnum, IsList
  <2>3. Len(vs) \in Nat
    BY <2>2, ListLen
  <2>4. n \in {v[2] : v \in ToSet(vs)} /\ members[n] = vs[SelectInSeq(vs, LAMBDA v : v[2] = n)]
    BY <2>1 DEF MemberMap
  <2>5. SelectInSeq(vs, LAMBDA v : v[2] = n) = IF I # {} THEN Min(I) ELSE 0
    BY DEF SelectInSeq
  <2> HIDE DEF vs
  <2>6. I # {}
    BY <2>2, <2>4, InToSet
  <2>7. Min(I) \in I
    <3>1. I \in SUBSET (0 .. Len(vs))
      BY <2>3
    <3> HIDE DEF I
    <3> QED  BY <2>3, <2>6, <3>1, MinMax
  <2>8. members[n] = vs[Min(I)]
    BY <2>4, <2>5, <2>6
  <2>9. Min(I) \in 1 .. Len(vs)
    BY <2>7
  <2> QED  BY <2>2, <2>8, <2>9, InToSet
<1>2. CASE enum.missing # None
  <2>1. ref.map = None /\ ref.table = None
    BY <1>2 DEF BuildLinkedRef
  <2> QED  BY <2>1 DEF CoerceEnum
<1>3. CASE enum.missing = None
  <2> HIDE DEF members
  <2>1. ref.map = members
        /\ ref.table = [s \in 0 .. TableSize - 1 |-> IF s \in DOMAIN members THEN members[s] ELSE None]
    BY <1>3 DEF BuildLinkedRef, members
  <2>2. OpenEnum(enum, number) = IF number \in DOMAIN members THEN members[number] ELSE <<number>>
    BY <1>1, <1>3 DEF OpenEnum, CallEnum, members
  <2>3. slot \in 0 .. TableSize - 1 => slot = number
    <3> DEFINE m == 2 ^ EnumBits
               h == 2 ^ (EnumBits - 1)
    <3>1. m \in Nat \ {0} /\ h \in Nat \ {0} /\ m = 2 * h /\ TableSize \in 0 .. h
      BY ConstructionAssumption
    <3>2. number \in -h .. h - 1 /\ slot = number % m
      BY DEF SInt, AsUnsigned
    <3> HIDE DEF m, h, slot
    <3>3. number >= 0 => number % m = number
      BY <3>1, <3>2
    <3>4. number < 0 => number % m = number + m
      BY <3>1, <3>2
    <3> QED  BY <3>1, <3>2, <3>3, <3>4
  <2>4. DOMAIN ref.table = 0 .. TableSize - 1
        /\ \A s \in DOMAIN ref.table : ref.table[s] = IF s \in DOMAIN members THEN members[s] ELSE None
    BY <2>1
  <2>5. CoerceEnum(enum, number)
          = IF ref.table # None /\ slot \in DOMAIN ref.table
              THEN IF ref.table[slot] # None THEN ref.table[slot] ELSE <<number>>
            ELSE IF ref.map # None
              THEN IF number \in DOMAIN ref.map THEN ref.map[number] ELSE <<number>>
            ELSE OpenEnum(enum, number)
    BY DEF CoerceEnum
  <2> HIDE DEF ref, slot
  <2>6. CASE ref.table # None /\ slot \in DOMAIN ref.table
    BY <1>1, <2>2, <2>3, <2>4, <2>5, <2>6
  <2>7. CASE ~ (ref.table # None /\ slot \in DOMAIN ref.table)
    BY <2>1, <2>2, <2>5, <2>7
  <2> QED  BY <2>6, <2>7
<1> QED  BY <1>2, <1>3

-----------------------------------------------------------------------------
(* Instances. *)

\* The field that is found by a name that is its own.
LEMMA NameIs ==
  ASSUME NEW fs, Distinct(fs), NEW k \in 1 .. Len(fs), NEW n, fs[k].name = n
  PROVE  IndexOfName(fs, n) = k
<1> DEFINE I == {i \in 1 .. Len(fs) : fs[i].name = n}
<1>1. IndexOfName(fs, n) = IF I # {} THEN Min(I) ELSE 0
  BY DEF IndexOfName, SelectInSeq
<1>2. I = {k}
  BY DEF Distinct
<1>3. k \in Nat
  OBVIOUS
<1>4. Min({k}) = k
  <2> DEFINE S == {k}
  <2>1. S \in SUBSET (0 .. k) /\ S # {}
    BY <1>3
  <2> HIDE DEF S
  <2>2. Min(S) \in S
    BY <1>3, <2>1, MinMax
  <2> QED  BY <2>2 DEF S
<1> QED  BY <1>1, <1>2, <1>4

\* Where _fast_init_defaults gives defaults, filling an instance makes what the
\* call of the class makes, if the class has no __init__ of its own.
LEMMA FastIsCall ==
  ASSUME NEW cls, IsClass(cls), "init" \notin cls.custom,
         NEW fields, IsList(fields),
         FastInitDefaults(cls, fields) # None,
         NEW values, \A k \in Collections(fields) : values[k] # Missing
  PROVE  ConstructFast(fields, FastInitDefaults(cls, fields), values)
           = CallClass(cls, Kwargs(fields, values))
<1> DEFINE HasDefault(f) == f.init /\ f.default # Missing
           defaults == FastInitDefaults(cls, fields)
           kwargs == Kwargs(fields, values)
           cs == cls.fields
           count == Len(fields)
           names == {fields[k].name : k \in 1 .. count}
           Named(n) == cs[IndexOfName(cs, n)]
           Given(n) == IF Named(n).default # Missing THEN Named(n).default ELSE Named(n).factory
<1>1. /\ Supported(cls, fields)
      /\ \A k \in 1 .. Len(cs) : HasDefault(cs[k]) \/ Placeholder(cs[k], k, fields)
      /\ defaults = [k \in 1 .. count |-> IF HasDefault(cs[k]) THEN cs[k].default ELSE None]
  BY DEF FastInitDefaults
<1>2. IsList(cs) /\ Distinct(cs)
  BY DEF IsClass, Distinct, IsList
<1>3. Len(cs) \in Nat /\ count \in Nat
  BY <1>2, ListLen
<1>4. Len(cs) = count /\ \A k \in 1 .. count : cs[k].name = fields[k].name
  <2>1. [k \in 1 .. Len(cs) |-> cs[k].name] = [k \in 1 .. count |-> fields[k].name]
    BY <1>1 DEF Supported
  <2>2. 1 .. Len(cs) = 1 .. count /\ \A k \in 1 .. count : cs[k].name = fields[k].name
    BY <2>1
  <2> HIDE DEF cs, count
  <2>3. Len(cs) = count
    BY <1>3, <2>2
  <2> QED  BY <2>2, <2>3
<1>5. \A j, k \in 1 .. count : fields[j].name = fields[k].name => j = k
  BY <1>2, <1>4 DEF Distinct
<1>6. \A k \in 1 .. count : \A n : fields[k].name = n => Named(n) = cs[k]
  BY <1>2, <1>4, NameIs
<1>7. \A k \in 1 .. count : \A n : fields[k].name = n => IndexOfName(fields, n) = k
  <2>1. Distinct(fields)
    BY <1>5 DEF Distinct, IsList
  <2> QED  BY <2>1, NameIs
<1>8. \A k \in 1 .. count : cs[k].init /\ (values[k] = Missing => HasDefault(cs[k]))
  BY <1>1, <1>4 DEF Placeholder
<1>9. /\ DOMAIN kwargs = {fields[k].name : k \in {j \in 1 .. count : values[j] # Missing}}
      /\ \A k \in 1 .. count : values[k] # Missing => kwargs[fields[k].name] = values[k]
  <2> DEFINE seen == {k \in 1 .. count : values[k] # Missing}
             Latest(n) == CHOOSE k \in seen : fields[k].name = n /\ \A j \in seen : fields[j].name = n => j <= k
  <2>1. kwargs = [n \in {fields[k].name : k \in seen} |-> values[Latest(n)]]
    BY DEF Kwargs
  <2>2. \A k \in seen : Latest(fields[k].name) = k
    <3> TAKE k \in seen
    <3> DEFINE n == fields[k].name
    <3>1. \A j \in seen : fields[j].name = n => j = k
      BY <1>5
    <3>2. k \in seen /\ fields[k].name = n /\ k <= k
      BY <1>3
    <3> HIDE DEF n, seen
    <3>3. Latest(n) = k
      BY <3>1, <3>2
    <3> QED  BY <3>3 DEF n
  <2> HIDE DEF Latest
  <2> QED  BY <2>1, <2>2
<1>10. names = {f.name : f \in ToSet(cs)}
  <2>1. \A f \in ToSet(cs) : \E k \in 1 .. count : f = cs[k]
    BY <1>2, <1>4, InToSet
  <2>2. \A k \in 1 .. count : cs[k] \in ToSet(cs)
    BY <1>2, <1>4, InToSet
  <2> HIDE DEF cs, count
  <2> QED  BY <1>4, <2>1, <2>2
<1>11. \A k \in 1 .. count : fields[k].name \in DOMAIN kwargs <=> values[k] # Missing
  BY <1>5, <1>9
<1> DEFINE attrs == [n \in names |-> IF n \in DOMAIN kwargs THEN kwargs[n] ELSE Given(n)]
<1>12. CallClass(cls, kwargs) = [attrs |-> attrs, ran |-> cls.custom]
  <2>1. ~ (\E n \in DOMAIN kwargs : n \notin names \/ ~ Named(n).init)
    <3> SUFFICES ASSUME NEW n \in DOMAIN kwargs PROVE n \in names /\ Named(n).init
      OBVIOUS
    <3>1. PICK k \in 1 .. count : n = fields[k].name
      BY <1>9
    <3>2. Named(n) = cs[k]
      BY <1>6, <3>1
    <3> HIDE DEF Named
    <3> QED  BY <1>8, <3>1, <3>2
  <2>2. ~ (\E n \in names \ DOMAIN kwargs : Named(n).init /\ Given(n) = Missing)
    <3> SUFFICES ASSUME NEW n \in names, n \notin DOMAIN kwargs PROVE Given(n) # Missing
      OBVIOUS
    <3>1. PICK k \in 1 .. count : n = fields[k].name
      OBVIOUS
    <3>2. Named(n) = cs[k] /\ values[k] = Missing
      BY <1>6, <1>11, <3>1
    <3> HIDE DEF Named
    <3> QED  BY <1>8, <3>2
  <2> HIDE DEF kwargs
  <2>3. CallClass(cls, kwargs)
          = IF \/ \E n \in DOMAIN kwargs : n \notin names \/ ~ Named(n).init
               \/ \E n \in names \ DOMAIN kwargs : Named(n).init /\ Given(n) = Missing
              THEN Raised
              ELSE [attrs |-> attrs, ran |-> cls.custom]
    <3> HIDE DEF names
    <3> QED  BY <1>10 DEF CallClass
  <2> QED  BY <2>1, <2>2, <2>3
<1> DEFINE filled == [n \in names |->
             LET k == IndexOfName(fields, n)
             IN IF values[k] # Missing THEN values[k] ELSE defaults[k]]
<1>13. ConstructFast(fields, defaults, values) = [attrs |-> filled, ran |-> {}]
  <2> HIDE DEF defaults
  <2> QED  BY DEF ConstructFast
<1>14. \A n \in names : filled[n] = attrs[n]
  <2> TAKE n \in names
  <2>1. PICK k \in 1 .. count : n = fields[k].name
    OBVIOUS
  <2>2. filled[n] = IF values[k] # Missing THEN values[k] ELSE defaults[k]
    <3>1. IndexOfName(fields, n) = k
      BY <1>7, <2>1
    <3> HIDE DEF defaults, names
    <3> QED  BY <3>1
  <2>3. CASE values[k] # Missing
    <3>1. n \in DOMAIN kwargs /\ kwargs[n] = values[k]
      BY <1>9, <1>11, <2>1, <2>3
    <3> HIDE DEF kwargs, filled, Given
    <3> QED  BY <2>2, <2>3, <3>1
  <2>4. CASE values[k] = Missing
    <3>1. n \notin DOMAIN kwargs
      BY <1>11, <2>1, <2>4
    <3>2. Given(n) = cs[k].default /\ defaults[k] = cs[k].default
      <4>1. Named(n) = cs[k] /\ HasDefault(cs[k])
        BY <1>6, <1>8, <2>1, <2>4
      <4>2. defaults[k] = cs[k].default
        <5> HIDE DEF defaults
        <5> QED  BY <1>1, <4>1
      <4> HIDE DEF Named, defaults
      <4> QED  BY <4>1, <4>2
    <3> HIDE DEF kwargs, filled, Given, defaults
    <3> QED  BY <2>2, <2>4, <3>1, <3>2
  <2> QED  BY <2>3, <2>4
<1>15. filled = attrs
  <2> DEFINE A(n) == IF n \in DOMAIN kwargs THEN kwargs[n] ELSE Given(n)
             B(n) == LET k == IndexOfName(fields, n)
                     IN IF values[k] # Missing THEN values[k] ELSE defaults[k]
  <2>1. filled = [n \in names |-> B(n)] /\ attrs = [n \in names |-> A(n)]
    OBVIOUS
  <2> HIDE DEF A, B, filled, attrs, names
  <2> QED  BY <1>14, <2>1
<1>16. cls.custom = {}
  BY <1>1 DEF Supported, IsClass
<1> HIDE DEF filled, attrs, kwargs, defaults
<1> QED  BY <1>12, <1>13, <1>15, <1>16 DEF kwargs, defaults

-----------------------------------------------------------------------------
(* What decode makes. *)

\* Handwritten classes are classes of Python.
HandWritten == \A fields : \A c \in HandClasses(fields) : IsClass(c)

\* An instance was made from the descriptor and the class that were linked.
InstanceOK ==
  LET fields == parsed.fields
      present == instance.present
      values == instance.values
  IN /\ refs \notin {None, LookupFailed}
     /\ present \subseteq 1 .. Len(fields) \ Collections(fields)
     /\ \A k \in present : fields[k].kind = "enum" => instance.number \in EnumNumbers
     /\ values = Values(present, instance.number)
     /\ instance.cls \in {pyclass, Subclass(pyclass)}
     /\ instance.made = IF \E k \in present : values[k] = Raised THEN Raised
                        ELSE IF instance.cls = pyclass /\ fast # None
                          THEN ConstructFast(fields, fast, values)
                          ELSE CallClass(instance.cls, Kwargs(fields, values))

\* The inductive invariant of linking and decoding.
BoundInv ==
  /\ files \in Requests \cup {Home[1]}
  /\ ~ handMade => files \in {r \in Requests : Generated(r)} /\ class \in ClassesOf(files)
  /\ refs # None => IsDescriptor(parsed)
  /\ refs \notin {None, LookupFailed} =>
       IsClass(pyclass) /\ fast = FastInitDefaults(pyclass, parsed.fields)
  /\ instance # None => InstanceOK

\* Nothing is linked at first.
LEMMA InitBound == Init => BoundInv
<1> SUFFICES ASSUME Init PROVE BoundInv
  OBVIOUS
<1>1. refs = None /\ instance = None /\ files \in Requests \cup {Home[1]}
      /\ (~ handMade => files \in {r \in Requests : Generated(r)} /\ class \in ClassesOf(files))
  BY DEF Init
<1> QED  BY <1>1 DEF BoundInv

\* The class that is linked is one of Python.
LEMMA LinkedClass ==
  ASSUME HandWritten, BoundInv, Link
  PROVE  IsClass(pyclass')
<1>1. CASE handMade
  BY <1>1 DEF Link, HandWritten
<1>2. CASE ~ handMade
  <2> DEFINE own == Own.fields
             cls == GeneratedClass(files, Own)
  <2>1. pyclass' = cls
    BY <1>2 DEF Link
  <2>2. Distinct(own)
    BY <1>2, BindingAssumption DEF BoundInv, Own
  <2>3. IsList(own)
    BY <2>2 DEF Distinct, IsList
  <2>4. Len(own) \in Nat
    BY <2>3, ListLen
  <2>5. cls.custom = {} /\ cls.fields = [k \in 1 .. Len(own) |-> DataclassField(files, own[k])]
    BY DEF GeneratedClass
  <2>6. \A k \in 1 .. Len(own) : DataclassField(files, own[k]).name = own[k].name
    BY DEF DataclassField
  <2> HIDE DEF own, cls
  <2> DEFINE fs == [k \in 1 .. Len(own) |-> DataclassField(files, own[k])]
             S == {DataclassField(files, own[k]) : k \in 1 .. Len(own)}
  <2>7. fs \in Seq(S) /\ DOMAIN fs = 1 .. Len(own)
        /\ \A k \in 1 .. Len(own) : fs[k].name = own[k].name
    BY <2>4, <2>6
  <2> HIDE DEF fs, S
  <2>8. IsList(fs) /\ DOMAIN fs = 1 .. Len(fs) /\ Len(fs) \in Nat
    BY <2>7, ListOf
  <2>9. Len(fs) = Len(own)
    BY <2>4, <2>7, <2>8
  <2>10. Distinct(fs)
    BY <2>2, <2>7, <2>8, <2>9 DEF Distinct, IsList
  <2> QED  BY <2>1, <2>5, <2>10 DEF IsClass, fs
<1> QED  BY <1>1, <1>2

\* Once parsed the descriptor stays, once linked the class and its references.
LEMMA NextBound == HandWritten /\ BoundInv /\ [Next]_vars => BoundInv'
<1> SUFFICES ASSUME HandWritten, BoundInv, [Next]_vars PROVE BoundInv'
  OBVIOUS
<1>1. CASE Compile
  <2>1. UNCHANGED <<bindVars, refs, pyclass, fast, instance>> /\ parsed = None
    BY <1>1 DEF Compile, ParseStep, ReadName, ReadField, ReadNested, ReadOneof, Skip, Interpret,
                Take, Parsing
  <2>2. refs = None /\ instance = None
    BY <2>1 DEF BoundInv, IsDescriptor, InstanceOK
  <2> QED  BY <2>1, <2>2 DEF BoundInv, bindVars
<1>2. CASE Link
  <2>1. IsDescriptor(parsed) /\ refs = None /\ UNCHANGED <<parseVars, bindVars, instance>>
    BY <1>2 DEF Link
  <2>2. instance = None
    BY <2>1 DEF BoundInv, InstanceOK
  <2>3. refs' \notin {None, LookupFailed} => fast' = FastInitDefaults(pyclass', parsed.fields)
    BY <1>2 DEF Link
  <2>4. IsClass(pyclass')
    BY <1>2, LinkedClass
  <2> QED  BY <2>1, <2>2, <2>3, <2>4 DEF BoundInv, parseVars, bindVars
<1>3. CASE Construct
  <2>1. refs \notin {None, LookupFailed} /\ UNCHANGED <<parseVars, bindVars, refs, pyclass, fast>>
    BY <1>3 DEF Construct
  <2>2. PICK c \in {pyclass, Subclass(pyclass)},
             present \in SUBSET (1 .. Len(parsed.fields) \ Collections(parsed.fields)) :
          \E number \in IF \E k \in present : parsed.fields[k].kind = "enum" THEN EnumNumbers ELSE {None} :
            LET values == Values(present, number) IN
            instance' =
              [cls |-> c, values |-> values, present |-> present, number |-> number,
               made |-> IF \E k \in present : values[k] = Raised THEN Raised
                        ELSE IF c = pyclass /\ fast # None THEN ConstructFast(parsed.fields, fast, values)
                        ELSE CallClass(c, Kwargs(parsed.fields, values))]
    BY <1>3 DEF Construct
  <2>3. PICK number \in IF \E k \in present : parsed.fields[k].kind = "enum" THEN EnumNumbers ELSE {None} :
          LET values == Values(present, number) IN
          instance' =
            [cls |-> c, values |-> values, present |-> present, number |-> number,
             made |-> IF \E k \in present : values[k] = Raised THEN Raised
                      ELSE IF c = pyclass /\ fast # None THEN ConstructFast(parsed.fields, fast, values)
                      ELSE CallClass(c, Kwargs(parsed.fields, values))]
    BY <2>2
  <2> DEFINE values == Values(present, number)
  <2>4. /\ instance'.cls = c /\ instance'.values = values /\ instance'.present = present
        /\ instance'.number = number
        /\ instance'.made = IF \E k \in present : values[k] = Raised THEN Raised
                            ELSE IF c = pyclass /\ fast # None THEN ConstructFast(parsed.fields, fast, values)
                            ELSE CallClass(c, Kwargs(parsed.fields, values))
    <3> HIDE DEF values
    <3> QED  BY <2>3 DEF values
  <2>5. UNCHANGED <<parsed, files, class, handMade, refs, pyclass, fast>>
    BY <2>1 DEF parseVars, bindVars
  <2>6. values = Values(present, number)'
    BY <2>5 DEF Values, EnumValue, LinkedEnum
  <2>7. Subclass(pyclass') = Subclass(pyclass)
    BY <2>5
  <2>8. \A k \in present : parsed.fields[k].kind = "enum" => number \in EnumNumbers
    BY <2>3
  <2>9. values = Values(instance.present, instance.number)'
    BY <2>4, <2>5 DEF Values, EnumValue, LinkedEnum
  <2> HIDE DEF values
  <2>10. InstanceOK'
    BY <2>1, <2>2, <2>4, <2>5, <2>8, <2>9 DEF InstanceOK
  <2>11. IsDescriptor(parsed') <=> IsDescriptor(parsed)
    BY <2>5
  <2> QED  BY <2>5, <2>10, <2>11 DEF BoundInv
<1>4. CASE UNCHANGED vars
  <2>1. UNCHANGED <<parsed, files, class, handMade, refs, pyclass, fast, instance>>
    BY <1>4 DEF vars, parseVars, bindVars
  <2>2. Values(instance.present, instance.number)' = Values(instance.present, instance.number)
    BY <2>1 DEF Values, EnumValue, LinkedEnum
  <2>3. InstanceOK => InstanceOK'
    BY <2>1, <2>2 DEF InstanceOK
  <2> QED  BY <2>1, <2>3 DEF BoundInv
<1> QED  BY <1>1, <1>2, <1>3, <1>4 DEF Next

\* Decoding and linking agree on what was compiled.
THEOREM BindingIsKept == ASSUME HandWritten PROVE Spec => []BoundInv
BY InitBound, NextBound, PTL DEF Spec

\* Enums are open: a known number becomes its member, any other stays a number,
\* whether the table, the dict or the call serves it.
THEOREM EnumsStayOpen == ASSUME HandWritten PROVE Spec => []EnumsOpen
<1>1. BoundInv => EnumsOpen
  <2> SUFFICES ASSUME BoundInv, instance # None, NEW k \in instance.present,
                      parsed.fields[k].kind = "enum", LinkedEnum(parsed.fields[k].num) # None
               PROVE  instance.values[k] = OpenEnum(LinkedEnum(parsed.fields[k].num), instance.number)
    BY DEF EnumsOpen
  <2> DEFINE y == parsed.fields[k]
             enum == LinkedEnum(y.num)
             number == instance.number
             t == refs[y.num]
  <2>1. InstanceOK
    BY DEF BoundInv
  <2>2. k \in 1 .. Len(parsed.fields) /\ k \notin Collections(parsed.fields) /\ number \in EnumNumbers
        /\ instance.values = Values(instance.present, number)
    BY <2>1 DEF InstanceOK
  <2>3. y.kind # "map" /\ y.label # "repeated"
    BY <2>2 DEF Collections
  <2>4. instance.values[k] = EnumValue(y.num, number)
    BY <2>2, <2>3 DEF Values
  <2>5. y.num \in DOMAIN refs /\ t \in TypesOf(files) /\ t[2] \in DOMAIN files[t[1]].enums
        /\ enum = files[t[1]].enums[t[2]]
    BY DEF LinkedEnum
  <2>6. IsEnum(enum)
    BY <2>5, BindingAssumption DEF BoundInv
  <2>7. number \in SInt(EnumBits)
    BY <2>2, BindingAssumption
  <2>8. EnumValue(y.num, number) = CoerceEnum(enum, number)
    BY <2>5 DEF EnumValue
  <2> HIDE DEF enum, number, y
  <2>9. CoerceEnum(enum, number) = OpenEnum(enum, number)
    BY <2>6, <2>7, CoerceIsOpen
  <2> QED  BY <2>4, <2>8, <2>9 DEF enum, number, y
<1> QED  BY <1>1, BindingIsKept, PTL

\* An instance that decode filled without a call is the one that the call makes,
\* unless the class is a dataclass with an __init__ of its own.
THEOREM FastPathIsCall == ASSUME HandWritten PROVE Spec => [](instance # None => MadeAsCalled)
<1>1. ParseInv /\ BoundInv => (instance # None => MadeAsCalled)
  <2> SUFFICES ASSUME ParseInv, BoundInv, instance # None,
                      Raised \notin {instance.values[k] : k \in instance.present},
                      ~ (instance.cls = pyclass /\ "init" \in pyclass.custom)
               PROVE  instance.made = Called
    BY DEF MadeAsCalled
  <2> DEFINE fields == parsed.fields
             values == instance.values
  <2>1. InstanceOK
    BY DEF BoundInv
  <2>2. refs \notin {None, LookupFailed} /\ IsClass(pyclass) /\ fast = FastInitDefaults(pyclass, fields)
    BY <2>1 DEF BoundInv, InstanceOK
  <2>3. instance.made = IF instance.cls = pyclass /\ fast # None
                          THEN ConstructFast(fields, fast, values)
                          ELSE CallClass(instance.cls, Kwargs(fields, values))
    BY <2>1 DEF InstanceOK
  <2>4. IsList(fields)
    BY <2>2 DEF ParseInv, BoundInv, FitDescriptor
  <2>5. \A k \in Collections(fields) : values[k] # Missing
    <3>1. \A k \in Collections(fields) : values[k] \in {"dict", "list"}
      BY <2>1 DEF InstanceOK, Values, Collections
    <3> QED  BY <3>1, ConstructionAssumption
  <2>6. CASE instance.cls = pyclass /\ fast # None
    <3> HIDE DEF fields, values
    <3>1. ConstructFast(fields, fast, values) = CallClass(pyclass, Kwargs(fields, values))
      BY <2>2, <2>4, <2>5, <2>6, FastIsCall
    <3> QED  BY <2>3, <2>6, <3>1 DEF Called, fields, values
  <2>7. CASE ~ (instance.cls = pyclass /\ fast # None)
    BY <2>3, <2>7 DEF Called
  <2> QED  BY <2>6, <2>7
<1> QED  BY <1>1, ParsedIsFit, BindingIsKept, PTL

=============================================================================
