------------------------------ MODULE Decoder ------------------------------
(***************************************************************************)
(* decode_message: the loop over the records of a message, with a frame    *)
(* for every message and map entry being decoded.                          *)
(***************************************************************************)
EXTENDS Messages

VARIABLES
  dec,       \* the messages and map entries being decoded, innermost last
  decoded    \* what decode() returned: an instance, an exception, or None

decVars == <<dec, decoded>>

\* Pre-created accumulators for repeated and map fields, else not seen yet.
Unseen(y) == IF y.label = "repeated" \/ y.kind = "map" THEN <<>> ELSE None

\* `into` is the parent's field that waits for the result.
Frame(entry, cls, fields, depth, payload, into) ==
  [entry |-> entry, cls |-> cls, fields |-> fields, depth |-> depth, in |-> payload,
   vals |-> [k \in 1 .. Len(fields) |-> Unseen(fields[k])],
   owner |-> [g \in Group |-> 0], unknown |-> <<>>, into |-> into]

MessageFrame(c, payload, depth, into) == Frame(FALSE, c, Fields[c], depth, payload, into)
EntryFrame(y, payload, depth, into) == Frame(TRUE, None, EntryFields(y), depth, payload, into)

Start(c, payload) ==
  /\ dec' = <<MessageFrame(c, payload, 0, 0)>>
  /\ decoded' = None

top == dec[Len(dec)]
Below == SubSeq(dec, 1, Len(dec) - 1)
Become(frame) == dec' = Append(Below, frame) /\ UNCHANGED decoded
Call(frame, callee) == dec' = Append(Append(Below, frame), callee) /\ UNCHANGED decoded

\* An error leaves every frame, and no instance exists.
Raise(error) == dec' = <<>> /\ decoded' = error
Fail == Raise(ValueError)

-----------------------------------------------------------------------------
(* The next record of the innermost frame. *)

rec == Head(top.in)
idx == FirstDeclared(top.fields, rec.num)
field == top.fields[idx]
Reading == dec # <<>> /\ top.in # <<>>

\* A singular field wants its own wire type; a repeated packable one comes
\* packed or not.
Accepts(y, wire) ==
  \/ wire = WireOf(y.kind)
  \/ y.label = "repeated" /\ Packable(y.kind) /\ wire = "len"

Known == Readable(rec) /\ idx # 0 /\ Accepts(field, rec.wire)

Malformed ==
  /\ Reading
  /\ ~ Readable(rec)
  /\ Fail

\* Mutant of Unknown: a repeated field drops what it cannot read.
Unknown_RepeatedDropped ==
  /\ Reading
  /\ Readable(rec)
  /\ ~ Known
  /\ Become([top EXCEPT !.in = Tail(@),
                      !.unknown = IF top.entry \/ (idx # 0 /\ field.label = "repeated")
                                    THEN @ ELSE Append(@, rec)])

\* No such field, or not its wire type: kept verbatim, except in map entries.
Unknown ==
  /\ Reading
  /\ Readable(rec)
  /\ ~ Known
  /\ Become([top EXCEPT !.in = Tail(@), !.unknown = IF top.entry THEN @ ELSE Append(@, rec)])

\* Mutant of Claim: the earlier member keeps its value.
Claim_KeepsEarlier(frame, n) ==
  LET g == frame.fields[n].oneof IN
  IF g # None /\ frame.fields[n].label = "optional"
    THEN [frame EXCEPT !.owner[g] = n]
    ELSE frame

\* Mutant of Claim: repeated members are cleared too.
Claim_AnyLabel(frame, n) ==
  LET g == frame.fields[n].oneof IN
  IF g # None
    THEN [frame EXCEPT !.owner[g] = n,
                       !.vals = [k \in DOMAIN @ |-> IF k = frame.owner[g] /\ k # n
                                                      THEN None ELSE @[k]]]
    ELSE frame

\* A oneof member clears the member of its group that came before it.
Claim(frame, n) ==
  LET g == frame.fields[n].oneof IN
  IF g # None /\ frame.fields[n].label = "optional"
    THEN [frame EXCEPT !.owner[g] = n,
                       !.vals = [k \in DOMAIN @ |-> IF k = frame.owner[g] /\ k # n
                                                      THEN None ELSE @[k]]]
    ELSE frame

Taken == [Claim(top, idx) EXCEPT !.in = Tail(@)]

\* map.set_item: a key that is there keeps its place.
SetItem(pairs, key, val) ==
  LET k == SelectInSeq(pairs, LAMBDA p : p[1] = key) IN
  IF k = 0 THEN Append(pairs, <<key, val>>) ELSE [pairs EXCEPT ![k][2] = val]

\* Store a value in field n of a frame.
Deliver(frame, n, v) ==
  [frame EXCEPT !.vals[n] =
     IF frame.fields[n].kind = "map" THEN SetItem(@, v[1], v[2])
     ELSE IF frame.fields[n].label = "repeated" THEN Append(@, v) ELSE v]

Packed == field.label = "repeated" /\ Packable(field.kind) /\ rec.wire = "len"

DecodePacked ==
  /\ Reading
  /\ Known
  /\ Packed
  /\ IF AreBits(rec.val)
       THEN Become([Taken EXCEPT !.vals[idx] = @ \o [k \in 1 .. Len(rec.val) |-> rec.val[k].bits]])
       ELSE Fail

DecodeValue ==
  /\ Reading
  /\ Known
  /\ ~ Packed
  /\ field.kind \in {"int", "fixed", "enum"}
  /\ Become(Deliver(Taken, idx, rec.val))

DecodeText ==
  /\ Reading
  /\ Known
  /\ field.kind = "text"
  /\ IF AreChars(rec.val) THEN Become(Deliver(Taken, idx, rec.val)) ELSE Fail

DecodeTime ==
  /\ Reading
  /\ Known
  /\ field.kind \in Time
  /\ LET time == TimeOf(field.kind, rec.val) IN
     IF time \in {ValueError, OverflowError} THEN Raise(time) ELSE Become(Deliver(Taken, idx, time))

\* Mutant of DecodeNested: the nesting is not bounded.
DecodeNested_AnyDepth ==
  /\ Reading
  /\ Known
  /\ field.kind = "message"
  /\ Call(Taken, MessageFrame(field.ref, rec.val, top.depth + 1, idx))

\* Mutant of DecodeNested: the record is not consumed.
DecodeNested_Rereads ==
  /\ Reading
  /\ Known
  /\ field.kind = "message"
  /\ IF top.depth + 1 > MaxDepth
       THEN Fail
       ELSE Call(top, MessageFrame(field.ref, rec.val, top.depth + 1, idx))

DecodeNested ==
  /\ Reading
  /\ Known
  /\ field.kind = "message"
  /\ IF top.depth + 1 > MaxDepth
       THEN Fail
       ELSE Call(Taken, MessageFrame(field.ref, rec.val, top.depth + 1, idx))

DecodeMapEntry ==
  /\ Reading
  /\ Known
  /\ field.kind = "map"
  /\ Call(Taken, EntryFrame(field, rec.val, top.depth, idx))

-----------------------------------------------------------------------------
(* The end of a message or of a map entry. *)

AtEnd == dec # <<>> /\ top.in = <<>>

\* A field that was not on the wire gets the default of the class: both the
\* fast construction and the generated __init__ give it.
Default(y) == IF y.label = "optional" THEN None ELSE Zero(y.kind)

Instance(frame) ==
  [cls |-> frame.cls,
   vals |-> [k \in DOMAIN frame.fields |->
              IF frame.vals[k] = None THEN Default(frame.fields[k]) ELSE frame.vals[k]],
   unknown |-> frame.unknown]

\* Give the result of the innermost frame to the one below it.
ReturnValue(v) ==
  /\ dec' = Append(SubSeq(dec, 1, Len(dec) - 2), Deliver(dec[Len(dec) - 1], top.into, v))
  /\ UNCHANGED decoded

EndRoot ==
  /\ AtEnd
  /\ Len(dec) = 1
  /\ dec' = <<>>
  /\ decoded' = Instance(top)

EndNested ==
  /\ AtEnd
  /\ Len(dec) > 1
  /\ ~ top.entry
  /\ ReturnValue(Instance(top))

MissingMessage == top.vals[2] = None /\ top.fields[2].kind = "message"

\* The value of a map entry defaults to the message that no bytes encode.
DefaultMessage ==
  /\ AtEnd
  /\ top.entry
  /\ MissingMessage
  /\ IF top.depth + 1 > MaxDepth
       THEN Fail
       ELSE Call(top, MessageFrame(top.fields[2].ref, <<>>, top.depth + 1, 2))

\* Mutant of EntryPart: an absent part stays None.
EntryPart_None(n) == top.vals[n]

EntryPart(n) ==
  IF top.vals[n] # None THEN top.vals[n]
  ELSE IF top.fields[n].kind \in Time THEN TimeOf(top.fields[n].kind, <<>>)
  ELSE Zero(top.fields[n].kind)

EndEntry ==
  /\ AtEnd
  /\ top.entry
  /\ ~ MissingMessage
  /\ ReturnValue(<<EntryPart(1), EntryPart(2)>>)

DecodeStep ==
  \/ Malformed \/ Unknown
  \/ DecodePacked \/ DecodeValue \/ DecodeText \/ DecodeTime \/ DecodeNested \/ DecodeMapEntry
  \/ EndRoot \/ EndNested \/ DefaultMessage \/ EndEntry
=============================================================================
