----------------------------- MODULE WireReader -----------------------------
(***************************************************************************)
(* Reader and the write functions, byte by byte: a message of optional     *)
(* scalar fields is read, written again and read again.                    *)
(***************************************************************************)
EXTENDS Wire, Functions, FiniteSetsExt

CONSTANTS
  TagBits,     \* bits of the wire type in a tag
  Code,        \* wire type -> its code in a tag
  FixedLen,    \* bytes of a fixed-width value
  MaxField,    \* MAX_FIELD_NUMBER
  N,           \* bits of a narrow integer: 32
  Schemas,     \* the schemas to choose from: field number -> kind
  Inputs,      \* what may come in
  Unset        \* None

Scalar == {"uint32", "uint64", "int32", "int64", "sint32", "sint64", "bool",
           "fixed32", "sfixed32", "bytes"}

FixedBits == FixedLen * (G + 1)

ASSUME WireReaderAssumption ==
  /\ TagBits \in Nat /\ FixedLen \in Nat \ {0} /\ MaxField \in Nat
  /\ (MaxField + 1) * 2 ^ TagBits <= 2 ^ W
  /\ N \in Nat \ {0} /\ N <= W
  /\ DOMAIN Code = {"varint", "fixed", "len"}
  /\ \A type \in DOMAIN Code : Code[type] \in 0 .. 2 ^ TagBits - 1
  /\ IsInjective(Code)
  /\ \A kinds \in Schemas : kinds \in Seq(Scalar) /\ Len(kinds) <= MaxField
  /\ \A bytes \in Inputs : bytes \in Seq(Byte)
  /\ Unset \notin Int /\ Unset \notin BOOLEAN /\ Unset \notin Seq(Byte)

VARIABLES
  schema,      \* the schema of this message
  input, pos,  \* Reader
  start,       \* where the field starts that is being read
  use,         \* what the varint being read is for
  acc, shift,  \* read_varint's result and shift
  num, wire,   \* the field's tag
  vals,        \* field number -> its value, or Unset
  unknown,     \* the bytes of the unknown fields
  saved,       \* what has been written to `input`: vals and unknown, or Unset
  phase        \* where the decoder is, or the error it stopped with

reader == <<pos, start, use, acc, shift, num, wire>>
vars == <<schema, input, pos, start, use, acc, shift, num, wire, vals, unknown, saved, phase>>

Errors == {"UnexpectedEof", "VarintOverflow", "InvalidWireType", "InvalidLength", "InvalidFieldNumber"}

-----------------------------------------------------------------------------
(* Scalars: their wire type, and the casts between a value and what is on  *)
(* the wire.                                                               *)

WireOf(kind) ==
  CASE kind \in {"fixed32", "sfixed32"} -> "fixed" [] kind = "bytes" -> "len" [] OTHER -> "varint"

\* from_le_bytes, to_le_bytes
FromLE(b) == Number(b, G + 1)
ToLE(v) == [k \in 1 .. FixedLen |-> (v \div 2 ^ ((G + 1) * (k - 1))) % 2 ^ (G + 1)]

\* Mutant of DecodeScalar: sint32 is taken from all the bits of the varint.
DecodeScalar_WideZigZag(kind, raw) ==
  CASE kind = "uint32"   -> AsUnsigned(raw, N)
    [] kind = "int32"    -> DecodeNarrow(raw, N)
    [] kind = "int64"    -> AsSigned(raw, W)
    [] kind = "sint32"   -> ZigZagDecode(raw, W)
    [] kind = "sint64"   -> ZigZagDecode(raw, W)
    [] kind = "bool"     -> raw # 0
    [] kind = "sfixed32" -> AsSigned(FromLE(raw), FixedBits)
    [] kind = "fixed32"  -> FromLE(raw)
    [] kind \in {"uint64", "bytes"} -> raw

DecodeScalar(kind, raw) ==
  CASE kind = "uint32"   -> AsUnsigned(raw, N)
    [] kind = "int32"    -> DecodeNarrow(raw, N)
    [] kind = "int64"    -> AsSigned(raw, W)
    [] kind = "sint32"   -> ZigZagDecode(AsUnsigned(raw, N), N)
    [] kind = "sint64"   -> ZigZagDecode(raw, W)
    [] kind = "bool"     -> raw # 0
    [] kind = "sfixed32" -> AsSigned(FromLE(raw), FixedBits)
    [] kind = "fixed32"  -> FromLE(raw)
    [] kind \in {"uint64", "bytes"} -> raw

EncodeScalar(kind, v) ==
  CASE kind \in {"uint32", "uint64"}   -> WriteVarint(v)
    [] kind \in {"int32", "int64"}     -> WriteVarint(EncodeNarrow(v, N))
    [] kind = "sint32"                 -> WriteVarint(ZigZagEncode(v, N))
    [] kind = "sint64"                 -> WriteVarint(ZigZagEncode(v, W))
    [] kind = "bool"                   -> WriteVarint(IF v THEN 1 ELSE 0)
    [] kind \in {"fixed32", "sfixed32"} -> ToLE(AsUnsigned(v, FixedBits))
    [] kind = "bytes"                  -> WriteVarint(Len(v)) \o v

WriteTag(n, type) == WriteVarint(n * 2 ^ TagBits + Code[type])

\* encode_message: the fields that are set, then the unknown ones.
Encode(kinds, values, rest) ==
  LET field(n) == IF values[n] = Unset THEN <<>>
                  ELSE WriteTag(n, WireOf(kinds[n])) \o EncodeScalar(kinds[n], values[n])
      upTo[n \in 0 .. Len(kinds)] == IF n = 0 THEN <<>> ELSE upTo[n - 1] \o field(n)
  IN upTo[Len(kinds)] \o rest

\* The values that the constructor may give a field.
ValueOf(kind) ==
  CASE kind = "uint32" -> UInt(N)
    [] kind = "uint64" -> UInt(W)
    [] kind \in {"int32", "sint32"} -> SInt(N)
    [] kind \in {"int64", "sint64"} -> SInt(W)
    [] kind = "bool" -> BOOLEAN
    [] kind = "fixed32" -> UInt(FixedBits)
    [] kind = "sfixed32" -> SInt(FixedBits)
    [] kind = "bytes" -> {<<>>, <<0>>, [k \in 1 .. Base |-> 2 * Base - 1]}

-----------------------------------------------------------------------------
Blank(kinds) == [n \in 1 .. Len(kinds) |-> Unset]

\* Bytes that came from elsewhere, or those of an instance built here.
Init ==
  /\ schema \in Schemas
  /\ pos = 0 /\ start = 0 /\ use = "tag" /\ acc = 0 /\ shift = 0 /\ num = 0 /\ wire = "varint"
  /\ vals = Blank(schema) /\ unknown = <<>>
  /\ phase = "loop"
  /\ \/ saved = Unset /\ input \in Inputs
     \/ \E n \in 1 .. Len(schema) : \E v \in ValueOf(schema[n]) :
          LET built == [Blank(schema) EXCEPT ![n] = v] IN
          /\ saved = <<built, <<>>>>
          /\ input = Encode(schema, built, <<>>)

Stop(error) == phase' = error /\ UNCHANGED <<schema, input, reader, vals, unknown, saved>>

\* Begin to read a varint.
Varint(for) == phase' = "varint" /\ use' = for /\ acc' = 0 /\ shift' = 0

\* Mutant of NextField: the start of the field is not taken anew.
NextField_KeepsStart ==
  /\ phase = "loop"
  /\ pos < Len(input)
  /\ Varint("tag")
  /\ UNCHANGED <<schema, input, pos, start, num, wire, vals, unknown, saved>>

NextField ==
  /\ phase = "loop"
  /\ pos < Len(input)
  /\ start' = pos
  /\ Varint("tag")
  /\ UNCHANGED <<schema, input, pos, num, wire, vals, unknown, saved>>

NoMoreFields ==
  /\ phase = "loop"
  /\ pos = Len(input)
  /\ phase' = "end"
  /\ UNCHANGED <<schema, input, reader, vals, unknown, saved>>

\* Mutant of ReadByte: the cursor stays on a byte that continues.
ReadByte_Stays ==
  /\ phase = "varint"
  /\ pos < Len(input)
  /\ pos' = IF Continues(input[pos + 1]) THEN pos ELSE pos + 1
  /\ acc' = AsUnsigned(acc + (input[pos + 1] % Base) * 2 ^ shift, W)
  /\ shift' = IF shift + G < W THEN shift + G ELSE shift
  /\ phase' = IF ~ Continues(input[pos + 1]) THEN "have" ELSE "varint"
  /\ UNCHANGED <<schema, input, start, use, num, wire, vals, unknown, saved>>

\* Bits beyond the width of the integer are shifted out.
ReadByte ==
  /\ phase = "varint"
  /\ pos < Len(input)
  /\ pos' = pos + 1
  /\ acc' = AsUnsigned(acc + (input[pos + 1] % Base) * 2 ^ shift, W)
  /\ shift' = shift + G
  /\ phase' = IF ~ Continues(input[pos + 1]) THEN "have"
              ELSE IF shift + G < W THEN "varint" ELSE "VarintOverflow"
  /\ UNCHANGED <<schema, input, start, use, num, wire, vals, unknown, saved>>

ReadByteEof == phase = "varint" /\ pos = Len(input) /\ Stop("UnexpectedEof")

tagWire == {type \in DOMAIN Code : Code[type] = acc % 2 ^ TagBits}
tagField == acc \div 2 ^ TagBits

InvalidWire == phase = "have" /\ use = "tag" /\ tagWire = {} /\ Stop("InvalidWireType")

\* Mutant of FieldInRange: field 0 passes.
FieldInRange_Zero == tagField <= MaxField

FieldInRange == tagField \in 1 .. MaxField

InvalidField ==
  /\ phase = "have" /\ use = "tag" /\ tagWire # {}
  /\ ~ FieldInRange
  /\ Stop("InvalidFieldNumber")

ReadTag ==
  /\ phase = "have" /\ use = "tag"
  /\ FieldInRange
  /\ wire' \in tagWire
  /\ num' = tagField
  /\ CASE wire' = "varint" -> Varint("value")
       [] wire' = "len"    -> Varint("len")
       [] wire' = "fixed"  -> phase' = "fixed" /\ UNCHANGED <<use, acc, shift>>
  /\ UNCHANGED <<schema, input, pos, start, vals, unknown, saved>>

Known == num \in 1 .. Len(schema) /\ WireOf(schema[num]) = wire

\* The field ends at `end`: decode it, or skip it and keep its bytes.
Consume(end, raw) ==
  /\ pos' = end
  /\ phase' = "loop"
  /\ IF Known
       THEN vals' = [vals EXCEPT ![num] = DecodeScalar(schema[num], raw)] /\ UNCHANGED unknown
       ELSE unknown' = unknown \o SubSeq(input, start + 1, end) /\ UNCHANGED vals
  /\ UNCHANGED <<schema, input, start, use, acc, shift, num, wire, saved>>

ReadValue == phase = "have" /\ use = "value" /\ Consume(pos, acc)

\* The length fits the cursor's type: `as usize`, where that has the W bits of
\* the varint.
ReadLenDelimited ==
  /\ phase = "have" /\ use = "len"
  /\ IF pos + acc > Len(input)
       THEN Stop("InvalidLength")
       ELSE Consume(pos + acc, SubSeq(input, pos + 1, pos + acc))

ReadFixed ==
  /\ phase = "fixed"
  /\ IF pos + FixedLen > Len(input)
       THEN Stop("UnexpectedEof")
       ELSE Consume(pos + FixedLen, SubSeq(input, pos + 1, pos + FixedLen))

\* Write what has been read.
Rewrite ==
  /\ phase = "end"
  /\ saved = Unset
  /\ saved' = <<vals, unknown>>
  /\ input' = Encode(schema, vals, unknown)
  /\ pos' = 0 /\ start' = 0
  /\ vals' = Blank(schema) /\ unknown' = <<>>
  /\ phase' = "loop"
  /\ UNCHANGED <<schema, use, acc, shift, num, wire>>

Next ==
  \/ NextField \/ NoMoreFields \/ ReadByte \/ ReadByteEof \/ InvalidWire \/ InvalidField
  \/ ReadTag \/ ReadValue \/ ReadLenDelimited \/ ReadFixed \/ Rewrite

Spec == Init /\ [][Next]_vars

\* Nothing in the reader waits.
FairSpec == Spec /\ WF_vars(Next)

-----------------------------------------------------------------------------
(* Properties. *)

\* The reader stays inside its input, in whatever way that lies about lengths,
\* and every value it gives is in the range of its Python type.
InBounds ==
  /\ start <= pos /\ pos <= Len(input)
  /\ acc \in UInt(W)
  /\ \A n \in 1 .. Len(schema) :
       vals[n] # Unset => IF schema[n] = "bytes" THEN vals[n] \in Seq(Byte)
                                                 ELSE vals[n] \in ValueOf(schema[n])

\* The grammar of the wire format.
IsPayload(b, type) ==
  CASE type = "varint" -> IsVarint(b)
    [] type = "fixed"  -> Len(b) = FixedLen
    [] type = "len"    -> \E l \in 1 .. Len(b) : LET prefix == SubSeq(b, 1, l) IN
                            IsVarint(prefix) /\ Len(b) = l + VarintOf(prefix)

IsField(b) ==
  \E t \in 1 .. Len(b) : LET tag == SubSeq(b, 1, t) IN
    /\ IsVarint(tag)
    /\ VarintOf(tag) \div 2 ^ TagBits \in 1 .. MaxField
    /\ \E type \in DOMAIN Code : /\ VarintOf(tag) % 2 ^ TagBits = Code[type]
                                 /\ IsPayload(SubSeq(b, t + 1, Len(b)), type)

\* The field that ends at j, where `cuts` are the ends of fields.
FieldEnding(b, cuts, j) == SubSeq(b, Max({i \in cuts : i < j}) + 1, j)

\* The ways to cut the first n bytes of the input into fields.
FieldCuts(n) ==
  {cuts \in SUBSET (0 .. n) : /\ {0, n} \subseteq cuts
                             /\ \A j \in cuts \ {0} : IsField(FieldEnding(input, cuts, j))}

WellFormed == FieldCuts(Len(input)) # {}

\* The decoder refuses exactly the byte strings that are not well formed,
\* wherever they are cut off.
RefusesMalformed ==
  /\ phase = "end" => WellFormed
  /\ phase \in Errors => ~ WellFormed

\* The tag at the front of b is that of a field of the schema.
KnownField(kinds, b) ==
  \E t \in 1 .. Len(b), n \in 1 .. Len(kinds) : LET tag == SubSeq(b, 1, t) IN
    IsVarint(tag) /\ VarintOf(tag) = n * 2 ^ TagBits + Code[WireOf(kinds[n])]

\* The bytes of the fields that are not, of those that `cuts` are the ends of.
UnknownOf(cuts, n) ==
  LET kept[j \in 0 .. n] ==
        IF j = 0 THEN <<>>
        ELSE LET b == FieldEnding(input, cuts, j) IN
             kept[j - 1] \o (IF j \in cuts /\ ~ KnownField(schema, b) THEN b ELSE <<>>)
  IN kept[n]

\* Whatever fields come before, between and behind them, those that the schema
\* does not know are kept to the byte and in their order, even where their
\* varints are longer than they need be, and nothing else is kept.
UnknownVerbatim ==
  phase \in {"loop", "end"} => \E cuts \in FieldCuts(pos) : unknown = UnknownOf(cuts, pos)

\* What has been written is read back as it was: every value of every scalar
\* type, and whatever the unknown fields are.
ReadsWhatIsWritten ==
  saved # Unset => /\ phase \notin Errors
                   /\ phase = "end" => saved = <<vals, unknown>>

\* Reading comes to an end on every input.
Terminates == <> (phase \in Errors \/ (phase = "end" /\ saved # Unset))
=============================================================================
