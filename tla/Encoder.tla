------------------------------ MODULE Encoder ------------------------------
(***************************************************************************)
(* encode_message: the walk over the fields of an instance, with a frame   *)
(* for every message and map entry being encoded.                          *)
(***************************************************************************)
EXTENDS Messages

VARIABLES
  enc,       \* the messages and map entries being encoded, innermost last
  encoded    \* what encode() returned: records, an exception, or None

encVars == <<enc, encoded>>

-----------------------------------------------------------------------------
(* What a field writes: items that are a record, an instance or map entry   *)
(* whose payload is still to be encoded, or a value that is refused.        *)

Write(rec) == [do |-> "write", rec |-> rec]
Refuse == [do |-> "refuse"]
Nest(num, inst) == [do |-> "nest", num |-> num, inst |-> inst]
Entry(num, items) == [do |-> "entry", num |-> num, items |-> items]

\* encode_single, encode_scalar: one tagged value.
Item(x, v) ==
  IF x.kind = "message" THEN Nest(x.num, v)
  ELSE IF x.kind \notin Time THEN Write(Record(x.num, WireOf(x.kind), v))
  ELSE IF PartsOf(x.kind, v) = ValueError THEN Refuse
  ELSE Write(Record(x.num, "len", EncodeParts(PartsOf(x.kind, v))))

Packing(x, v) ==
  IF v = <<>>
    THEN <<>>
    ELSE <<Write(Record(x.num, "len", [k \in 1 .. Len(v) |-> [bits |-> v[k]]]))>>

MapItems(x, pairs) ==
  LET Pair(p) == <<Item(EntryFields(x)[1], p[1]), Item(EntryFields(x)[2], p[2])>>
  IN [k \in 1 .. Len(pairs) |-> Entry(x.num, Pair(pairs[k]))]

FieldItems(x, v) ==
  CASE x.kind = "map"                                -> MapItems(x, v)
    [] x.label = "repeated" /\ Packable(x.kind)      -> Packing(x, v)
    [] x.label = "repeated" /\ ~ Packable(x.kind)    -> [k \in 1 .. Len(v) |-> Item(x, v[k])]
    [] x.label = "optional"                          -> IF v = None THEN <<>> ELSE <<Item(x, v)>>
    [] x.label = "single" /\ x.kind # "map"          ->
         IF v = Zero(x.kind) THEN <<>> ELSE <<Item(x, v)>>

Items(inst) ==
  FlattenSeq([k \in 1 .. Len(Fields[inst.cls]) |-> FieldItems(Fields[inst.cls][k], inst.vals[k])])

\* The members of a oneof that hold a value.
Members(c, g) == {k \in 1 .. Len(Fields[c]) : Fields[c][k].oneof = g /\ Fields[c][k].label = "optional"}
SetMembers(inst, g) == {k \in Members(inst.cls, g) : inst.vals[k] # None}
OneofsValid(inst) == \A g \in Group : Cardinality(SetMembers(inst, g)) <= 1

-----------------------------------------------------------------------------
(* `num` is the field of the parent frame that the payload goes to. *)

MessageWalk(inst, depth, num) ==
  [inst |-> inst, depth |-> depth, num |-> num, todo |-> Items(inst), out |-> <<>>]

EntryWalk(items, depth, num) ==
  [inst |-> None, depth |-> depth, num |-> num, todo |-> items, out |-> <<>>]

StartEncode(inst) ==
  /\ enc' = <<MessageWalk(inst, 0, 0)>>
  /\ encoded' = None

walk == enc[Len(enc)]
Outer == SubSeq(enc, 1, Len(enc) - 1)
Rest == [walk EXCEPT !.todo = Tail(@)]
item == Head(walk.todo)
Writing == enc # <<>> /\ walk.todo # <<>>
Finished == enc # <<>> /\ walk.todo = <<>>

\* Nothing of the buffer is seen by the caller.
FailEncode == enc' = <<>> /\ encoded' = ValueError

\* "duration out of range"
RefuseValue ==
  /\ Writing
  /\ item.do = "refuse"
  /\ FailEncode

WriteRecord ==
  /\ Writing
  /\ item.do = "write"
  /\ enc' = Append(Outer, [Rest EXCEPT !.out = Append(@, item.rec)])
  /\ UNCHANGED encoded

\* Mutant of EncodeNested: the limit is one level tighter than the decoder's.
EncodeNested_Tighter ==
  /\ Writing
  /\ item.do = "nest"
  /\ IF walk.depth + 1 >= MaxDepth
       THEN FailEncode
       ELSE enc' = Append(Append(Outer, Rest), MessageWalk(item.inst, walk.depth + 1, item.num))
            /\ UNCHANGED encoded

EncodeNested ==
  /\ Writing
  /\ item.do = "nest"
  /\ IF walk.depth + 1 > MaxDepth
       THEN FailEncode
       ELSE enc' = Append(Append(Outer, Rest), MessageWalk(item.inst, walk.depth + 1, item.num))
            /\ UNCHANGED encoded

EncodeMapEntry ==
  /\ Writing
  /\ item.do = "entry"
  /\ enc' = Append(Append(Outer, Rest), EntryWalk(item.items, walk.depth, item.num))
  /\ UNCHANGED encoded

\* Mutant of Payload: only the outermost message keeps its unknown fields.
Payload_RootUnknown ==
  IF walk.inst = None \/ Len(enc) > 1 THEN walk.out ELSE walk.out \o walk.inst.unknown

\* The unknown fields are emitted again after the known ones.
Payload ==
  IF walk.inst = None THEN walk.out ELSE walk.out \o walk.inst.unknown

TooMany == walk.inst # None /\ ~ OneofsValid(walk.inst)

\* "at most one member of oneof may be set"
OneofError ==
  /\ Finished
  /\ TooMany
  /\ FailEncode

EndEncode ==
  /\ Finished
  /\ ~ TooMany
  /\ Len(enc) = 1
  /\ enc' = <<>>
  /\ encoded' = Payload

EndPayload ==
  /\ Finished
  /\ ~ TooMany
  /\ Len(enc) > 1
  /\ LET parent == enc[Len(enc) - 1]
         done == [parent EXCEPT !.out = Append(@, Record(walk.num, "len", Payload))]
     IN enc' = Append(SubSeq(enc, 1, Len(enc) - 2), done)
  /\ UNCHANGED encoded

EncodeStep ==
  \/ WriteRecord \/ RefuseValue \/ EncodeNested \/ EncodeMapEntry
  \/ OneofError \/ EndEncode \/ EndPayload
=============================================================================
