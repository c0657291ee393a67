------------------------------- MODULE Parse -------------------------------
(***************************************************************************)
(* parse_message: the DescriptorProto that protoc embeds, as a record      *)
(* sequence, becomes a MessageDescriptor.                                  *)
(*                                                                         *)
(* Records of different fields of a message may come in any order, those   *)
(* of one field keep theirs: the input is one queue per field that         *)
(* parse_message reads, and every order of taking from them is an input.   *)
(***************************************************************************)
EXTENDS FieldTable, Casts, ProtoTypes

CONSTANTS
  NumberBits,    \* width of field numbers and oneof indexes
  NotText,       \* bytes that are not UTF-8
  ParseError     \* a ParseError, which compile() turns into a ValueError

ASSUME ParseAssumption ==
  /\ NumberBits \in Nat /\ 2 ^ NumberBits > 0
  /\ None # "string"

VARIABLES
  todo,      \* what is left of the input: for every tag the payloads to come
  name,      \* the message's name
  raws,      \* raw_fields
  entries,   \* map_entries: from the names of nested map entries
  oneofs,    \* the names of the oneofs
  parsed     \* what parse_message returned: a descriptor, ParseError, or None

parseVars == <<todo, name, raws, entries, oneofs, parsed>>

Tag == {"name", "field", "nested", "oneof", "other"}

-----------------------------------------------------------------------------
(* Types. *)

ScalarName ==
  <<"double", "float", "int64", "uint64", "int32", "fixed64", "fixed32", "bool", "string",
    "group", "message", "bytes", "uint32", "enum", "sfixed32", "sfixed64", "sint32", "sint64">>

ScalarFromProtoType(code) ==
  IF code \in 1 .. 18 \ {TypeGroup, TypeMessage, TypeEnum} THEN ScalarName[code] ELSE None

\* Timestamp and Duration are the two messages that are no classes.
KindOf(code, typeName) ==
  CASE code = TypeEnum -> "enum"
    [] code = TypeMessage -> IF typeName = TimestampName THEN "timestamp"
                             ELSE IF typeName = DurationName THEN "duration" ELSE "message"
    [] OTHER -> ScalarFromProtoType(code)

Segment(full, k) == IF k \in 1 .. Len(full) THEN full[k] ELSE None
ShortName(full) == full[Len(full)]
FullName(full) == IF full # None /\ Len(full) > 1 /\ full[1] = "" THEN Tail(full) ELSE full

-----------------------------------------------------------------------------
(* The nested messages of a descriptor. *)

\* A string field that is not text, or a record that cannot be read.
Unreadable(p, texts) ==
  \E k \in 1 .. Len(p) :
    ~ IsRecord(p[k]) \/ (p[k].num \in texts /\ p[k].wire = "len" /\ p[k].val = NotText)

RawField(p) ==
  [name     |-> LastValue(p, 1, "len", ""),
   num      |-> AsUnsigned(LastValue(p, 3, "varint", 0), NumberBits),
   label    |-> LastValue(p, 4, "varint", 0),
   type     |-> LastValue(p, 5, "varint", None),
   typeName |-> LastValue(p, 6, "len", None),
   oneof    |-> IF LastValue(p, 9, "varint", None) = None THEN None
                ELSE AsUnsigned(LastValue(p, 9, "varint", None), NumberBits),
   optional |-> LastValue(p, 17, "varint", 0) # 0]

OneofName(p) == LastValue(p, 1, "len", "")

\* Every field of a nested message is read as if it were a map entry's, before
\* the options tell whether it is one.
BadNested(p) ==
  \/ Unreadable(p, {1})
  \/ \E r \in ToSet(p) :
       /\ r.wire = "len"
       /\ \/ r.num = 7 /\ Unreadable(r.val, {})
          \/ r.num = 2 /\ \/ Unreadable(r.val, {1, 6})
                          \/ RawField(r.val).type = None
                          \/ /\ RawField(r.val).num = 2
                             /\ KindOf(RawField(r.val).type, RawField(r.val).typeName) = None

IsMapEntry(p) == LastValue(FlattenSeq(Payloads(p, 7)), 7, "varint", 0) # 0

\* Where the last field with this number is in an entry, 0 if there is none.
Side(p, num) ==
  SelectLastInSeq(p, LAMBDA r : r.num = 2 /\ r.wire = "len" /\ RawField(r.val).num = num)

MapEntry(p) ==
  LET key == RawField(p[Side(p, 1)].val)
      value == RawField(p[Side(p, 2)].val)
      keyKind == IF Side(p, 1) = 0 THEN None ELSE ScalarFromProtoType(key.type)
      elem == IF Side(p, 2) = 0 THEN "string" ELSE KindOf(value.type, value.typeName)
  IN [key |-> IF keyKind = None THEN "string" ELSE keyKind,
      elem |-> elem,
      typeName |-> IF Side(p, 2) = 0 \/ elem \in {"timestamp", "duration"} THEN None
                   ELSE FullName(value.typeName)]

-----------------------------------------------------------------------------
(* interpret_field, with the tables of the whole message. *)

Repeated(raw) == raw.label = LabelRepeated

\* Mutant of IsMap: the entry is found by its short name alone.
IsMap_ByShortName(raw) ==
  /\ Repeated(raw)
  /\ raw.type = TypeMessage
  /\ raw.typeName # None
  /\ ShortName(raw.typeName) \in DOMAIN entries

\* A repeated message whose type is a map entry nested in this message.
IsMap(raw) ==
  /\ Repeated(raw)
  /\ raw.type = TypeMessage
  /\ raw.typeName # None
  /\ Segment(raw.typeName, Len(raw.typeName) - 1) = name
  /\ ShortName(raw.typeName) \in DOMAIN entries

MapField(raw) ==
  LET entry == entries[ShortName(raw.typeName)] IN
  [num |-> raw.num, name |-> raw.name, kind |-> "map", key |-> entry.key, elem |-> entry.elem,
   label |-> "single", typeName |-> entry.typeName, oneof |-> None]

\* Mutant of RealOneof: the synthetic oneof of an optional field counts.
RealOneof_Synthetic(raw) == raw.oneof

\* A proto3 optional field is no member of its synthetic oneof.
RealOneof(raw) == IF raw.optional THEN None ELSE raw.oneof

LabelOf(raw, kind) ==
  IF Repeated(raw) THEN "repeated"
  ELSE IF raw.optional \/ kind \in {"message", "timestamp", "duration"} \/ RealOneof(raw) # None
    THEN "optional"
    ELSE "single"

PlainField(raw) ==
  LET kind == KindOf(raw.type, raw.typeName) IN
  [num |-> raw.num, name |-> raw.name, kind |-> kind, key |-> None, elem |-> None,
   label |-> LabelOf(raw, kind),
   typeName |-> IF kind \in {"enum", "message"} THEN FullName(raw.typeName) ELSE None,
   oneof |-> RealOneof(raw)]

\* Mutant of Uninterpretable: any type will do.
Uninterpretable_Missing(raw) == raw.type = None

\* A type is missing, or unknown and not a map's.
Uninterpretable(raw) ==
  raw.type = None \/ (~ IsMap(raw) /\ KindOf(raw.type, raw.typeName) = None)

\* Mutant of InRange: one index too many.
InRange_OneMore(index) == index # None /\ index <= Len(oneofs)

\* An index past the declared oneofs is dropped.
InRange(index) == index # None /\ index < Len(oneofs)

Interpreted(raw) ==
  LET y == IF IsMap(raw) THEN MapField(raw) ELSE PlainField(raw)
  IN [y EXCEPT !.oneof = IF InRange(@) THEN @ ELSE None]

-----------------------------------------------------------------------------
Parsing == parsed = None
Payload(tag) == Head(todo[tag])
Take(tag) ==
  /\ Parsing
  /\ todo[tag] # <<>>
  /\ todo' = [todo EXCEPT ![tag] = Tail(@)]

\* map_entries.insert
Insert(map, key, value) ==
  [n \in DOMAIN map \cup {key} |-> IF n = key THEN value ELSE map[n]]

Fail == parsed' = ParseError /\ UNCHANGED <<name, raws, entries, oneofs>>

ReadName ==
  /\ Take("name")
  /\ IF Payload("name") = NotText
       THEN Fail
       ELSE name' = Payload("name") /\ UNCHANGED <<raws, entries, oneofs, parsed>>

ReadField ==
  /\ Take("field")
  /\ IF Unreadable(Payload("field"), {1, 6})
       THEN Fail
       ELSE raws' = Append(raws, RawField(Payload("field"))) /\ UNCHANGED <<name, entries, oneofs, parsed>>

ReadNested ==
  /\ Take("nested")
  /\ LET p == Payload("nested") IN
     IF BadNested(p)
       THEN Fail
       ELSE /\ entries' = IF IsMapEntry(p) THEN Insert(entries, LastValue(p, 1, "len", ""), MapEntry(p))
                                           ELSE entries
            /\ UNCHANGED <<name, raws, oneofs, parsed>>

ReadOneof ==
  /\ Take("oneof")
  /\ IF Unreadable(Payload("oneof"), {1})
       THEN Fail
       ELSE oneofs' = Append(oneofs, OneofName(Payload("oneof"))) /\ UNCHANGED <<name, raws, entries, parsed>>

Skip ==
  /\ Take("other")
  /\ IF IsRecord(Payload("other")) THEN UNCHANGED <<name, raws, entries, oneofs, parsed>> ELSE Fail

\* The fields are interpreted only after the loop, when all entries are known.
Interpret ==
  /\ Parsing
  /\ \A tag \in Tag : todo[tag] = <<>>
  /\ parsed' = IF \E k \in 1 .. Len(raws) : Uninterpretable(raws[k])
                 THEN ParseError
                 ELSE [name |-> name, oneofs |-> oneofs,
                       fields |-> [k \in 1 .. Len(raws) |-> Interpreted(raws[k])]]
  /\ UNCHANGED <<todo, name, raws, entries, oneofs>>

\* Bytes come apart into records, and a varint is a number; whatever else the
\* input of parse_message may be.
IsInput(input) ==
  /\ DOMAIN input = Tag
  /\ \A tag \in Tag : input[tag] \in Seq(ToSet(input[tag]))
  /\ \A p \in ToSet(input["field"]) \cup ToSet(input["nested"]) : p \in Seq(ToSet(p))
  /\ \A p \in ToSet(input["field"]) :
       \A r \in ToSet(p) : IsRecord(r) /\ r.wire = "varint" => r.val \in Nat

ParseInit(input) ==
  /\ todo = input
  /\ name = "" /\ raws = <<>> /\ entries = <<>> /\ oneofs = <<>>
  /\ parsed = None

ParseStep == ReadName \/ ReadField \/ ReadNested \/ ReadOneof \/ Skip \/ Interpret

-----------------------------------------------------------------------------
(* Properties. *)

IsDescriptor(p) == p \notin {None, ParseError}

\* Whatever bytes compile() accepts, the codec can walk the descriptor: an index
\* into the oneofs is inside the table, a map is single, in no oneof and has
\* types for both halves of an entry, a member of a oneof can be None.
CodecSafe ==
  IsDescriptor(parsed) =>
    \A y \in ToSet(parsed.fields) :
      /\ y.oneof # None => y.oneof + 1 \in DOMAIN parsed.oneofs
      /\ y.kind = "map" => y.label = "single" /\ y.oneof = None /\ y.key # None /\ y.elem # None
      /\ y.label = "single" => y.oneof = None /\ y.kind \notin {"message", "timestamp", "duration"}

\* The table that the decoder looks numbers up in answers for every number, in
\* use or not, what a scan of the fields would: field_by_number.
LookupIsScan ==
  IsDescriptor(parsed) =>
    LET index == Build(parsed.fields)
    IN \A num \in UInt(NumberBits) : Get(index, num) = FirstDeclared(parsed.fields, num)
=============================================================================
