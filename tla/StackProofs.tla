---------------------------- MODULE StackProofs ----------------------------
(***************************************************************************)
(* Proofs about the stacks of the decoder and of the encoder, for every    *)
(* schema that parse_message makes, every message and every path: the      *)
(* nesting is bounded and oneofs are exclusive.                            *)
(***************************************************************************)
EXTENDS Relay, RecordsProofs, FiniteSetTheorems

-----------------------------------------------------------------------------
(* Schemas. *)

\* What is known of every field of a message or of a map entry.
GoodField(y) ==
  /\ y.label \in Label
  /\ y.kind \in Kind
  /\ y.oneof \in Group \cup {None}
  /\ y.kind = "map" => /\ y.label = "single" /\ y.oneof = None
                       /\ y.key \in {"int", "fixed", "text"} /\ y.elem \in Kind \ {"map"}
  /\ y.label = "single" => y.oneof = None /\ y.kind \notin {"message"} \cup Time
  /\ y.kind = "message" \/ (y.kind = "map" /\ y.elem = "message") => y.ref \in Class

GoodFields(fields) == Len(fields) \in Nat /\ \A k \in 1 .. Len(fields) : GoodField(fields[k])

\* The fields of a class are good.
LEMMA ClassFields ==
  ASSUME NEW c \in Class
  PROVE  GoodFields(Fields[c]) /\ DOMAIN Fields[c] = 1 .. Len(Fields[c])
<1>1. Fields[c] \in Seq(Field) /\ IsSchema(Fields[c])
  BY MessagesAssumption
<1>2. Len(Fields[c]) \in Nat /\ DOMAIN Fields[c] = 1 .. Len(Fields[c])
  BY <1>1
<1>3. ASSUME NEW k \in 1 .. Len(Fields[c])  PROVE GoodField(Fields[c][k])
  <2>1. Fields[c][k] \in Field
    BY <1>1
  <2> QED  BY <1>1, <2>1 DEF GoodField, IsSchema, Field
<1> QED  BY <1>2, <1>3 DEF GoodFields

\* So are those of a map's entries, which are in no oneof and are no maps.
LEMMA MapEntryFields ==
  ASSUME NEW y, GoodField(y), y.kind = "map"
  PROVE  /\ GoodFields(EntryFields(y)) /\ Len(EntryFields(y)) = 2
         /\ DOMAIN EntryFields(y) = 1 .. 2
         /\ \A k \in 1 .. 2 : /\ EntryFields(y)[k].label = "optional"
                              /\ EntryFields(y)[k].kind # "map"
                              /\ EntryFields(y)[k].oneof = None
         /\ EntryFields(y)[1].kind = y.key /\ EntryFields(y)[2].kind = y.elem
         /\ EntryFields(y)[2].ref = y.ref
<1> DEFINE s == EntryFields(y)
<1>1. s = <<[num |-> 1, label |-> "optional", kind |-> y.key, oneof |-> None,
             ref |-> y.ref, key |-> None, elem |-> None],
            [num |-> 2, label |-> "optional", kind |-> y.elem, oneof |-> None,
             ref |-> y.ref, key |-> None, elem |-> None]>>
  BY DEF EntryFields
<1>2. Len(s) = 2 /\ DOMAIN s = 1 .. 2
  BY <1>1
<1>3. /\ s[1].label = "optional" /\ s[1].kind = y.key /\ s[1].oneof = None
      /\ s[1].ref = y.ref /\ s[1].key = None /\ s[1].elem = None
  BY <1>1
<1>4. /\ s[2].label = "optional" /\ s[2].kind = y.elem /\ s[2].oneof = None
      /\ s[2].ref = y.ref /\ s[2].key = None /\ s[2].elem = None
  BY <1>1
<1> HIDE DEF s
<1>5. y.key \in {"int", "fixed", "text"} /\ y.elem \in Kind \ {"map"}
  BY DEF GoodField
<1>6. GoodField(s[1])
  BY <1>3, <1>5 DEF GoodField, Label, Kind
<1>7. GoodField(s[2])
  BY <1>4, <1>5 DEF GoodField, Label, Kind
<1>8. GoodFields(s)
  BY <1>2, <1>6, <1>7 DEF GoodFields
<1> QED  BY <1>2, <1>3, <1>4, <1>5, <1>8 DEF s

-----------------------------------------------------------------------------
(* One frame of the decoder. *)

\* A frame has the fields of a frame.
IsFrame(f) ==
  f \in [entry : {f.entry}, cls : {f.cls}, fields : {f.fields}, depth : {f.depth}, in : {f.in},
         vals : {f.vals}, owner : {f.owner}, unknown : {f.unknown}, into : {f.into}]

\* What does not change while a message is decoded.
Alike(f, h) ==
  /\ h.entry = f.entry /\ h.cls = f.cls /\ h.fields = f.fields
  /\ h.depth = f.depth /\ h.into = f.into

IsMember(f, n) == f.fields[n].oneof # None /\ f.fields[n].label = "optional"

OwnersAreMembers(f) ==
  \A g \in Group :
    \/ f.owner[g] = 0
    \/ /\ f.owner[g] \in 1 .. Len(f.fields)
       /\ f.fields[f.owner[g]].oneof = g /\ f.fields[f.owner[g]].label = "optional"

\* Of a oneof only the member that came last holds a value.
OwnersHold(f) ==
  \A n \in 1 .. Len(f.fields) :
    IsMember(f, n) /\ f.vals[n] # None => f.owner[f.fields[n].oneof] = n

\* The fields of a message are those of its class, the fields of a map entry are
\* those of some map's entries.
KinOf(entry, cls, fields) ==
  IF entry
    THEN \E y : GoodField(y) /\ y.kind = "map" /\ fields = EntryFields(y)
    ELSE cls \in Class /\ fields = Fields[cls]

Kin(f) == KinOf(f.entry, f.cls, f.fields)

Shape(f) ==
  /\ IsFrame(f)
  /\ f.entry \in BOOLEAN
  /\ f.depth \in 0 .. MaxDepth
  /\ Kin(f)
  /\ DOMAIN f.vals = 1 .. Len(f.fields)
  /\ DOMAIN f.owner = Group
  /\ OwnersAreMembers(f)
  /\ OwnersHold(f)

\* The fields of a frame are those of a schema.
LEMMA FrameFields ==
  ASSUME NEW f, Kin(f), f.entry \in BOOLEAN
  PROVE  GoodFields(f.fields)
<1>1. CASE f.entry
  BY <1>1, MapEntryFields DEF Kin, KinOf
<1>2. CASE ~ f.entry
  BY <1>2, ClassFields DEF Kin, KinOf
<1> QED  BY <1>1, <1>2

\* What a new frame has: no value, no owner of a oneof, and its arguments.
IsNew(f, entry, cls, fields, depth, p, into) ==
  /\ f.entry = entry /\ f.cls = cls /\ f.fields = fields /\ f.depth = depth
  /\ f.in = p /\ f.into = into /\ f.unknown = <<>>
  /\ f.vals = [k \in 1 .. Len(fields) |-> Unseen(fields[k])]
  /\ f.owner = [g \in Group |-> 0]

\* A new frame has a frame's shape.
LEMMA NewFrame ==
  ASSUME NEW entry \in BOOLEAN, NEW cls, NEW fields, NEW depth \in 0 .. MaxDepth, NEW p, NEW into,
         GoodFields(fields), KinOf(entry, cls, fields)
  PROVE  /\ Shape(Frame(entry, cls, fields, depth, p, into))
         /\ IsNew(Frame(entry, cls, fields, depth, p, into), entry, cls, fields, depth, p, into)
<1> DEFINE f == Frame(entry, cls, fields, depth, p, into)
<1>1. /\ IsFrame(f)
      /\ f.entry = entry /\ f.cls = cls /\ f.fields = fields /\ f.depth = depth
      /\ f.in = p /\ f.into = into /\ f.unknown = <<>>
      /\ f.vals = [k \in 1 .. Len(fields) |-> Unseen(fields[k])]
      /\ f.owner = [g \in Group |-> 0]
  BY DEF Frame, IsFrame
<1> HIDE DEF f
<1>2. Kin(f)
  BY <1>1 DEF Kin
<1>3. DOMAIN f.vals = 1 .. Len(f.fields) /\ DOMAIN f.owner = Group
  BY <1>1
<1>4. OwnersAreMembers(f)
  BY <1>1 DEF OwnersAreMembers
<1>5. OwnersHold(f)
  <2> SUFFICES ASSUME NEW n \in 1 .. Len(f.fields), IsMember(f, n)  PROVE f.vals[n] = None
    BY DEF OwnersHold
  <2>1. fields[n].label = "optional" /\ fields[n].oneof # None /\ GoodField(fields[n])
    BY <1>1 DEF IsMember, GoodFields
  <2>2. fields[n].kind # "map"
    BY <2>1 DEF GoodField
  <2>3. Unseen(fields[n]) = None
    BY <2>1, <2>2 DEF Unseen
  <2> QED  BY <1>1, <2>3
<1>6. Shape(f)
  BY <1>1, <1>2, <1>3, <1>4, <1>5 DEF Shape
<1> QED  BY <1>1, <1>6 DEF f, IsNew

\* A frame that is like another, apart from its input and unknown fields.
LEMMA ReadOn ==
  ASSUME NEW f, Shape(f), NEW h, IsFrame(h), Alike(f, h), h.vals = f.vals, h.owner = f.owner
  PROVE  Shape(h)
<1>1. Kin(h)
  BY DEF Shape, Alike, Kin
<1>2. OwnersAreMembers(h) /\ OwnersHold(h)
  BY DEF Shape, Alike, OwnersAreMembers, OwnersHold, IsMember
<1> QED  BY <1>1, <1>2 DEF Shape, Alike

\* What Claim and the step to the next record make of a frame: a member of a
\* oneof becomes its owner and clears the one before it, and nothing else
\* changes.
Claims(f, n, p, h) ==
  LET g == f.fields[n].oneof IN
  /\ IsFrame(h) /\ Alike(f, h) /\ h.in = p /\ h.unknown = f.unknown
  /\ ~ IsMember(f, n) => h.vals = f.vals /\ h.owner = f.owner
  /\ IsMember(f, n) =>
       /\ g \in Group
       /\ h.owner = [f.owner EXCEPT ![g] = n]
       /\ h.vals = [k \in DOMAIN f.vals |-> IF k = f.owner[g] /\ k # n THEN None ELSE f.vals[k]]

\* Claim does that.
LEMMA ClaimIs ==
  ASSUME NEW f, Shape(f), NEW n \in 1 .. Len(f.fields), NEW p
  PROVE  Claims(f, n, p, [Claim(f, n) EXCEPT !.in = p])
<1> DEFINE h == [Claim(f, n) EXCEPT !.in = p]
           g == f.fields[n].oneof
<1>0. IsFrame(f)
  BY DEF Shape
<1>1. CASE ~ IsMember(f, n)
  <2>1. h = [f EXCEPT !.in = p]
    BY <1>1 DEF Claim, IsMember
  <2>2. /\ IsFrame(h) /\ Alike(f, h) /\ h.in = p /\ h.unknown = f.unknown
        /\ h.vals = f.vals /\ h.owner = f.owner
    BY <1>0, <2>1 DEF IsFrame, Alike
  <2> QED  BY <1>1, <2>2 DEF Claims
<1>2. CASE IsMember(f, n)
  <2>1. g \in Group
    <3>1. GoodField(f.fields[n])
      BY FrameFields DEF Shape, GoodFields
    <3> QED  BY <1>2, <3>1 DEF GoodField, IsMember
  <2> DEFINE v == [k \in DOMAIN f.vals |-> IF k = f.owner[g] /\ k # n THEN None ELSE f.vals[k]]
             c == Claim(f, n)
  <2>2. c = [f EXCEPT !.owner[g] = n, !.vals = v]
    BY <1>2 DEF Claim, IsMember
  <2> HIDE DEF v, c
  <2>3. /\ IsFrame(c) /\ Alike(f, c) /\ c.unknown = f.unknown /\ c.in = f.in
        /\ c.owner = [f.owner EXCEPT ![g] = n] /\ c.vals = v
    BY <1>0, <2>2 DEF IsFrame, Alike
  <2>4. h = [c EXCEPT !.in = p]
    BY DEF c
  <2>5. /\ IsFrame(h) /\ Alike(f, h) /\ h.in = p /\ h.unknown = f.unknown
        /\ h.owner = [f.owner EXCEPT ![g] = n] /\ h.vals = v
    BY <2>3, <2>4 DEF IsFrame, Alike
  <2> QED  BY <1>2, <2>1, <2>5 DEF Claims, v
<1> QED  BY <1>1, <1>2

\* Claim keeps the shape, and a member of a oneof owns it afterwards.
LEMMA ClaimShape ==
  ASSUME NEW f, Shape(f), NEW n \in 1 .. Len(f.fields), NEW p
  PROVE  LET h == [Claim(f, n) EXCEPT !.in = p] IN
         /\ Shape(h) /\ Alike(f, h)
         /\ IsMember(h, n) => h.owner[h.fields[n].oneof] = n
<1> DEFINE h == [Claim(f, n) EXCEPT !.in = p]
           g == f.fields[n].oneof
<1>0. Claims(f, n, p, h)
  BY ClaimIs
<1> HIDE DEF h
<1>1. /\ IsFrame(h) /\ Alike(f, h) /\ h.in = p
      /\ ~ IsMember(f, n) => h.vals = f.vals /\ h.owner = f.owner
      /\ IsMember(f, n) =>
           /\ g \in Group
           /\ h.owner = [f.owner EXCEPT ![g] = n]
           /\ h.vals = [k \in DOMAIN f.vals |-> IF k = f.owner[g] /\ k # n THEN None ELSE f.vals[k]]
  BY <1>0 DEF Claims
<1>2. \A k : IsMember(h, k) <=> IsMember(f, k)
  BY <1>1 DEF Alike, IsMember
<1>3. CASE ~ IsMember(f, n)
  <2>1. Shape(h)
    BY <1>1, <1>3, ReadOn
  <2> QED  BY <1>1, <1>2, <1>3, <2>1 DEF h
<1>4. CASE IsMember(f, n)
  <2>1. h.fields = f.fields /\ Kin(h)
    BY <1>1 DEF Shape, Alike, Kin
  <2>2. DOMAIN h.vals = 1 .. Len(h.fields) /\ DOMAIN h.owner = Group
    BY <1>1, <1>4, <2>1 DEF Shape
  <2>3. \A o \in Group : h.owner[o] = IF o = g THEN n ELSE f.owner[o]
    BY <1>1, <1>4 DEF Shape
  <2>4. OwnersAreMembers(h)
    BY <1>4, <2>1, <2>3 DEF OwnersAreMembers, Shape, IsMember
  <2>5. OwnersHold(h)
    <3> SUFFICES ASSUME NEW k \in 1 .. Len(f.fields), IsMember(f, k), h.vals[k] # None
                 PROVE  h.owner[f.fields[k].oneof] = k
      BY <1>2, <2>1 DEF OwnersHold
    <3>1. ~ (k = f.owner[g] /\ k # n) /\ f.vals[k] # None
      BY <1>1, <1>4 DEF Shape
    <3>2. f.owner[f.fields[k].oneof] = k
      BY <3>1 DEF Shape, OwnersHold
    <3>3. f.fields[k].oneof \in Group
      <4>1. GoodField(f.fields[k])
        BY FrameFields DEF Shape, GoodFields
      <4> QED  BY <4>1 DEF GoodField, IsMember
    <3> QED  BY <2>3, <3>1, <3>2, <3>3
  <2>6. Shape(h)
    BY <1>1, <2>1, <2>2, <2>4, <2>5 DEF Shape, Alike
  <2> QED  BY <1>1, <1>4, <2>1, <2>3, <2>6 DEF h
<1> QED  BY <1>3, <1>4

\* A value may be put into a field that owns its oneof.
LEMMA PutShape ==
  ASSUME NEW f, Shape(f), NEW n \in 1 .. Len(f.fields), NEW e,
         IsMember(f, n) => f.owner[f.fields[n].oneof] = n,
         NEW h, IsFrame(h), Alike(f, h), h.owner = f.owner, h.vals = [f.vals EXCEPT ![n] = e]
  PROVE  Shape(h)
<1>2. h.fields = f.fields /\ Kin(h)
  BY DEF Shape, Alike, Kin
<1>3. OwnersAreMembers(h)
  BY <1>2 DEF Shape, OwnersAreMembers
<1>4. OwnersHold(h)
  <2> SUFFICES ASSUME NEW k \in 1 .. Len(f.fields), IsMember(f, k), h.vals[k] # None
               PROVE  f.owner[f.fields[k].oneof] = k
    BY <1>2 DEF OwnersHold, IsMember
  <2>1. k # n => f.vals[k] # None
    BY DEF Shape
  <2> QED  BY <2>1 DEF Shape, OwnersHold
<1>5. Shape(h)
  BY <1>2, <1>3, <1>4 DEF Shape, Alike
<1> QED  BY <1>5

\* What Deliver puts into a field.
Put(y, old, v) ==
  IF y.kind = "map" THEN SetItem(old, v[1], v[2])
  ELSE IF y.label = "repeated" THEN Append(old, v) ELSE v

\* Deliver keeps the shape of a frame whose field owns its oneof.
LEMMA DeliverShape ==
  ASSUME NEW f, Shape(f), NEW n \in 1 .. Len(f.fields), NEW v,
         IsMember(f, n) => f.owner[f.fields[n].oneof] = n
  PROVE  LET h == Deliver(f, n, v) IN
         /\ Shape(h) /\ Alike(f, h) /\ h.owner = f.owner /\ h.in = f.in /\ h.unknown = f.unknown
         /\ h.vals = [f.vals EXCEPT ![n] = Put(f.fields[n], f.vals[n], v)]
<1> DEFINE e == Put(f.fields[n], f.vals[n], v)
           h == Deliver(f, n, v)
<1>1. h = [f EXCEPT !.vals[n] = e]
  BY DEF Deliver, Put
<1> HIDE DEF e, h
<1>2. /\ IsFrame(h) /\ Alike(f, h) /\ h.owner = f.owner /\ h.in = f.in /\ h.unknown = f.unknown
      /\ h.vals = [f.vals EXCEPT ![n] = e]
  BY <1>1 DEF Shape, IsFrame, Alike
<1>3. Shape(h)
  BY <1>2, PutShape
<1> QED  BY <1>2, <1>3 DEF e, h

-----------------------------------------------------------------------------
(* The stack of frames. *)

\* The field of f that waits for the result of h.
Into(f, h) ==
  /\ h.into \in 1 .. Len(f.fields)
  /\ IF h.entry
       THEN f.fields[h.into].kind = "map" /\ h.fields = EntryFields(f.fields[h.into])
       ELSE f.fields[h.into].kind = "message" /\ h.cls = f.fields[h.into].ref
  /\ IsMember(f, h.into) => f.owner[f.fields[h.into].oneof] = h.into

StackOK(s) ==
  /\ IsList(s)
  /\ \A k \in 1 .. Len(s) : Shape(s[k])
  /\ \A k \in 1 .. Len(s) - 1 : Into(s[k], s[k + 1])
  /\ s # <<>> => ~ s[1].entry

\* The frames below n with another one in the place of the n-th.
Cut(s, n, h) == Append(SubSeq(s, 1, n - 1), h)

\* The elements of a stack that is cut or pushed to.
LEMMA CutIs ==
  ASSUME NEW s, IsList(s), NEW n \in 1 .. Len(s), NEW h
  PROVE  /\ IsList(Cut(s, n, h)) /\ Len(Cut(s, n, h)) = n
         /\ \A k \in 1 .. n - 1 : Cut(s, n, h)[k] = s[k]
         /\ Cut(s, n, h)[n] = h
<1>1. Len(s) \in Nat
  BY ListLen
<1>2. n - 1 \in 0 .. Len(s) /\ n - 1 + 1 = n
  BY <1>1
<1> QED  BY <1>2, ListReplace DEF Cut

\* A frame that is like the one in its place keeps the stack in order.
LEMMA CutStack ==
  ASSUME NEW s, StackOK(s), NEW n \in 1 .. Len(s), NEW h, Shape(h), Alike(s[n], h)
  PROVE  StackOK(Cut(s, n, h))
<1> DEFINE t == Cut(s, n, h)
<1>0. IsList(s) /\ Len(s) \in Nat /\ s # <<>>
  BY ListLen DEF StackOK
<1>1. IsList(t) /\ Len(t) = n /\ (\A k \in 1 .. n - 1 : t[k] = s[k]) /\ t[n] = h
  BY <1>0, CutIs
<1> HIDE DEF t
<1>2. \A k \in 1 .. n : Shape(t[k])
  <2> SUFFICES ASSUME NEW k \in 1 .. n  PROVE Shape(t[k])
    OBVIOUS
  <2>1. CASE k = n
    BY <1>1, <2>1
  <2>2. CASE k \in 1 .. n - 1
    <3>1. t[k] = s[k] /\ k \in 1 .. Len(s)
      BY <1>0, <1>1, <2>2
    <3> QED  BY <3>1 DEF StackOK
  <2> QED  BY <1>0, <2>1, <2>2
<1>3. \A k \in 1 .. n - 1 : Into(t[k], t[k + 1])
  <2> SUFFICES ASSUME NEW k \in 1 .. n - 1  PROVE Into(t[k], t[k + 1])
    OBVIOUS
  <2>1. t[k] = s[k] /\ Into(s[k], s[k + 1])
    BY <1>0, <1>1 DEF StackOK
  <2>2. CASE k + 1 = n
    BY <1>1, <2>1, <2>2 DEF Alike, Into
  <2>3. CASE k + 1 \in 1 .. n - 1
    BY <1>1, <2>1, <2>3
  <2> QED  BY <1>0, <2>2, <2>3
<1>4. ~ t[1].entry
  <2>1. ~ s[1].entry
    BY <1>0 DEF StackOK
  <2>2. CASE n = 1
    BY <1>1, <2>1, <2>2 DEF Alike
  <2>3. CASE 1 \in 1 .. n - 1
    BY <1>1, <2>1, <2>3
  <2> QED  BY <1>0, <2>2, <2>3
<1> QED  BY <1>1, <1>2, <1>3, <1>4 DEF StackOK, t

\* A frame may be pushed that its field waits for.
LEMMA PushStack ==
  ASSUME NEW s, StackOK(s), s # <<>>, NEW c, Shape(c), Into(s[Len(s)], c)
  PROVE  StackOK(Append(s, c))
<1> DEFINE t == Append(s, c)
<1>0. IsList(s) /\ Len(s) \in Nat /\ Len(s) > 0
  BY ListLen DEF StackOK
<1>1. /\ IsList(t) /\ Len(t) = Len(s) + 1
      /\ \A k \in 1 .. Len(s) : t[k] = s[k]
      /\ t[Len(s) + 1] = c
  BY <1>0, ListAppend
<1> HIDE DEF t
<1>2. \A k \in 1 .. Len(t) : Shape(t[k])
  <2> SUFFICES ASSUME NEW k \in 1 .. Len(t)  PROVE Shape(t[k])
    OBVIOUS
  <2>1. CASE k = Len(s) + 1
    BY <1>1, <2>1
  <2>2. CASE k \in 1 .. Len(s)
    <3>1. t[k] = s[k]
      BY <1>1, <2>2
    <3> QED  BY <2>2, <3>1 DEF StackOK
  <2> QED  BY <1>0, <1>1, <2>1, <2>2
<1>3. \A k \in 1 .. Len(t) - 1 : Into(t[k], t[k + 1])
  <2> SUFFICES ASSUME NEW k \in 1 .. Len(s)  PROVE Into(t[k], t[k + 1])
    BY <1>0, <1>1
  <2>1. CASE k = Len(s)
    BY <1>1, <2>1
  <2>2. CASE k \in 1 .. Len(s) - 1
    <3>1. t[k] = s[k] /\ t[k + 1] = s[k + 1]
      BY <1>0, <1>1, <2>2
    <3> QED  BY <2>2, <3>1 DEF StackOK
  <2> QED  BY <1>0, <2>1, <2>2
<1>4. ~ t[1].entry
  BY <1>0, <1>1 DEF StackOK
<1> QED  BY <1>1, <1>2, <1>3, <1>4 DEF StackOK, t

-----------------------------------------------------------------------------
(* The steps of the decoder, by their effect on the stack. *)

\* The innermost frame.
LEMMA TopIs ==
  ASSUME StackOK(dec), dec # <<>>
  PROVE  /\ Len(dec) \in Nat \ {0} /\ IsList(dec)
         /\ Shape(top) /\ top = dec[Len(dec)] /\ GoodFields(top.fields)
<1>1. IsList(dec) /\ Len(dec) \in Nat \ {0}
  BY ListLen DEF StackOK
<1>2. Shape(top) /\ top = dec[Len(dec)]
  BY <1>1 DEF StackOK, top
<1>3. GoodFields(top.fields)
  BY <1>2, FrameFields DEF Shape
<1> QED  BY <1>1, <1>2, <1>3

\* The field of a record that the decoder knows.
LEMMA KnownField ==
  ASSUME StackOK(dec), Reading, Known
  PROVE  /\ idx \in 1 .. Len(top.fields) /\ field = top.fields[idx] /\ GoodField(field)
         /\ field.num = rec.num
<1>1. GoodFields(top.fields)
  BY TopIs DEF Reading
<1>2. idx \in 0 .. Len(top.fields) /\ (idx # 0 => top.fields[idx].num = rec.num)
  <2>1. Len(top.fields) \in Nat
    BY <1>1 DEF GoodFields
  <2> QED  BY <2>1, FirstIs DEF idx
<1>3. idx # 0
  BY DEF Known
<1> QED  BY <1>1, <1>2, <1>3 DEF field, GoodFields

\* The innermost frame once the decoder has claimed the field of its record.
LEMMA TakenIs ==
  ASSUME StackOK(dec), Reading, Known
  PROVE  /\ Claims(top, idx, Tail(top.in), Taken)
         /\ Shape(Taken) /\ Alike(top, Taken)
         /\ idx \in 1 .. Len(Taken.fields) /\ Taken.fields[idx] = field
         /\ IsMember(Taken, idx) => Taken.owner[Taken.fields[idx].oneof] = idx
<1>1. Shape(top) /\ idx \in 1 .. Len(top.fields) /\ field = top.fields[idx]
  BY TopIs, KnownField DEF Reading
<1>2. Claim(top, idx).in = top.in
  BY <1>1 DEF Claim, Shape, IsFrame
<1>3. Taken = [Claim(top, idx) EXCEPT !.in = Tail(top.in)]
  BY <1>2 DEF Taken
<1>4. Claims(top, idx, Tail(top.in), Taken)
  BY <1>1, <1>3, ClaimIs
<1>5. /\ Shape(Taken) /\ Alike(top, Taken)
      /\ IsMember(Taken, idx) => Taken.owner[Taken.fields[idx].oneof] = idx
  <2> DEFINE h == [Claim(top, idx) EXCEPT !.in = Tail(top.in)]
  <2>1. Shape(h) /\ Alike(top, h) /\ (IsMember(h, idx) => h.owner[h.fields[idx].oneof] = idx)
    BY <1>1, ClaimShape
  <2> QED  BY <1>3, <2>1
<1>6. Taken.fields = top.fields
  BY <1>5 DEF Alike
<1> QED  BY <1>1, <1>4, <1>5, <1>6

\* Become, Call and ReturnValue in terms of Cut.
LEMMA StackMoves ==
  ASSUME Len(dec) \in Nat
  PROVE  /\ \A h : Become(h) => dec' = Cut(dec, Len(dec), h) /\ decoded' = decoded
         /\ \A h, c : Call(h, c) => dec' = Append(Cut(dec, Len(dec), h), c) /\ decoded' = decoded
         /\ \A v : ReturnValue(v) =>
              /\ dec' = Cut(dec, Len(dec) - 1, Deliver(dec[Len(dec) - 1], top.into, v))
              /\ decoded' = decoded
<1>1. Len(dec) - 1 - 1 = Len(dec) - 2
  OBVIOUS
<1> QED  BY <1>1 DEF Become, Call, ReturnValue, Cut, Below

\* A decoder that does not run has a stack.
LEMMA EmptyStack == StackOK(<<>>)
<1>1. <<>> \in Seq(ToSet(<<>>)) /\ Len(<<>>) = 0
  BY EmptySeq
<1> QED  BY <1>1 DEF StackOK, IsList

\* Another value in the field that was claimed.
LEMMA BecomeShape ==
  ASSUME StackOK(dec), Reading, Known, NEW h, Become(h), Shape(h), Alike(Taken, h)
  PROVE  StackOK(dec')
<1>1. Alike(top, h)
  BY TakenIs DEF Alike
<1>2. Len(dec) \in Nat \ {0} /\ top = dec[Len(dec)]
  BY TopIs DEF Reading
<1>3. StackOK(Cut(dec, Len(dec), h))
  BY <1>1, <1>2, CutStack
<1>4. dec' = Cut(dec, Len(dec), h)
  BY <1>2, StackMoves
<1> QED  BY <1>3, <1>4

\* A new frame above the innermost one.
LEMMA CallShape ==
  ASSUME StackOK(dec), dec # <<>>, NEW h, NEW c, Call(h, c),
         Shape(h), Alike(top, h), Shape(c), Into(h, c)
  PROVE  StackOK(dec')
<1> DEFINE s == Cut(dec, Len(dec), h)
<1>1. Len(dec) \in Nat \ {0} /\ top = dec[Len(dec)] /\ IsList(dec)
  BY TopIs
<1>2. StackOK(s)
  BY <1>1, CutStack
<1>3. Len(s) = Len(dec) /\ s[Len(s)] = h
  BY <1>1, CutIs
<1>4. dec' = Append(s, c)
  BY <1>1, StackMoves
<1> HIDE DEF s
<1>5. s # <<>>
  BY <1>1, <1>2, <1>3, ListLen DEF StackOK
<1> QED  BY <1>2, <1>3, <1>4, <1>5, PushStack

\* A value given to the frame below.
LEMMA ReturnShape ==
  ASSUME StackOK(dec), dec # <<>>, Len(dec) > 1, NEW v, ReturnValue(v)
  PROVE  StackOK(dec')
<1> DEFINE n == Len(dec) - 1
           h == Deliver(dec[n], top.into, v)
<1>1. Len(dec) \in Nat \ {0} /\ top = dec[Len(dec)] /\ n \in 1 .. Len(dec) /\ n + 1 = Len(dec)
      /\ n \in 1 .. Len(dec) - 1
  BY TopIs
<1>2. Shape(dec[n]) /\ Into(dec[n], top)
  BY <1>1 DEF StackOK
<1>3. Shape(h) /\ Alike(dec[n], h)
  BY <1>2, DeliverShape DEF Into
<1>4. dec' = Cut(dec, n, h)
  BY <1>1, StackMoves
<1> HIDE DEF n, h
<1>5. StackOK(Cut(dec, n, h))
  BY <1>1, <1>3, CutStack
<1> QED  BY <1>4, <1>5

\* The frame of a submessage, for a field that waits for it.
LEMMA MessageFrameIs ==
  ASSUME NEW f, Shape(f), NEW n \in 1 .. Len(f.fields), f.fields[n].kind = "message",
         NEW depth \in 0 .. MaxDepth, NEW p,
         IsMember(f, n) => f.owner[f.fields[n].oneof] = n
  PROVE  /\ Shape(MessageFrame(f.fields[n].ref, p, depth, n))
         /\ Into(f, MessageFrame(f.fields[n].ref, p, depth, n))
         /\ f.fields[n].ref \in Class
<1> DEFINE c == f.fields[n].ref
           h == MessageFrame(c, p, depth, n)
<1>1. c \in Class /\ GoodFields(Fields[c])
  <2>1. GoodField(f.fields[n])
    BY FrameFields DEF Shape, GoodFields
  <2>2. c \in Class
    BY <2>1 DEF GoodField
  <2> QED  BY <2>2, ClassFields
<1> HIDE DEF c
<1>2. h = Frame(FALSE, c, Fields[c], depth, p, n)
  BY DEF MessageFrame
<1> HIDE DEF h
<1>3. Shape(h) /\ h.entry = FALSE /\ h.cls = c /\ h.into = n
  <2> DEFINE fields == Fields[c]
             entry == FALSE
  <2>1. GoodFields(fields) /\ entry \in BOOLEAN /\ KinOf(entry, c, fields)
    BY <1>1 DEF KinOf
  <2> HIDE DEF fields, entry
  <2>2. LET g == Frame(entry, c, fields, depth, p, n) IN
          Shape(g) /\ IsNew(g, entry, c, fields, depth, p, n)
    BY <2>1, NewFrame
  <2> QED  BY <1>2, <2>2 DEF fields, entry, IsNew
<1>4. Into(f, h)
  BY <1>3 DEF Into, c
<1> QED  BY <1>1, <1>3, <1>4 DEF c, h

\* The frame of a map entry.
LEMMA EntryFrameIs ==
  ASSUME NEW f, Shape(f), NEW n \in 1 .. Len(f.fields), f.fields[n].kind = "map",
         NEW depth \in 0 .. MaxDepth, NEW p
  PROVE  /\ Shape(EntryFrame(f.fields[n], p, depth, n))
         /\ Into(f, EntryFrame(f.fields[n], p, depth, n))
         /\ ~ IsMember(f, n)
<1> DEFINE y == f.fields[n]
           h == EntryFrame(y, p, depth, n)
<1>1. GoodField(y) /\ GoodFields(EntryFields(y))
  <2>1. GoodField(y)
    BY FrameFields DEF Shape, GoodFields
  <2> QED  BY <2>1, MapEntryFields
<1>2. ~ IsMember(f, n)
  BY <1>1 DEF GoodField, IsMember
<1>3. y.kind = "map"
  OBVIOUS
<1> HIDE DEF y
<1>4. h = Frame(TRUE, None, EntryFields(y), depth, p, n)
  BY DEF EntryFrame
<1> HIDE DEF h
<1>5. Shape(h) /\ h.entry = TRUE /\ h.fields = EntryFields(y) /\ h.into = n
  <2> DEFINE fields == EntryFields(y)
             entry == TRUE
  <2>1. GoodFields(fields) /\ entry \in BOOLEAN /\ KinOf(entry, None, fields)
    BY <1>1, <1>3 DEF KinOf
  <2> HIDE DEF fields, entry
  <2>2. LET g == Frame(entry, None, fields, depth, p, n) IN
          Shape(g) /\ IsNew(g, entry, None, fields, depth, p, n)
    BY <2>1, NewFrame
  <2> QED  BY <1>4, <2>2 DEF fields, entry, IsNew
<1>6. Into(f, h)
  BY <1>2, <1>5 DEF Into, y
<1> QED  BY <1>2, <1>5, <1>6 DEF y, h

\* Every step of the decoder leaves the stack in order.
LEMMA DecodeShape ==
  ASSUME StackOK(dec), DecodeStep
  PROVE  StackOK(dec')
<1> USE DEF Reading
<1>1. CASE dec' = <<>>
  BY <1>1, EmptyStack
<1>2. CASE Unknown
  <2> DEFINE h == [top EXCEPT !.in = Tail(@), !.unknown = IF top.entry THEN @ ELSE Append(@, rec)]
  <2>1. Shape(top) /\ top = dec[Len(dec)] /\ Len(dec) \in Nat \ {0}
    BY <1>2, TopIs DEF Unknown
  <2>2. IsFrame(h) /\ Alike(top, h) /\ h.vals = top.vals /\ h.owner = top.owner
    BY <2>1 DEF Shape, IsFrame, Alike
  <2>3. Become(h)
    BY <1>2 DEF Unknown
  <2> HIDE DEF h
  <2>4. Shape(h)
    BY <2>1, <2>2, ReadOn
  <2>5. StackOK(Cut(dec, Len(dec), h)) /\ dec' = Cut(dec, Len(dec), h)
    BY <2>1, <2>2, <2>3, <2>4, CutStack, StackMoves
  <2> QED  BY <2>5
<1>3. CASE DecodePacked /\ dec' # <<>>
  <2> DEFINE list == [k \in 1 .. Len(rec.val) |-> rec.val[k].bits]
             e == Taken.vals[idx] \o list
             h == [Taken EXCEPT !.vals[idx] = e]
  <2>1. Reading /\ Known
    BY <1>3 DEF DecodePacked
  <2>2. [Taken EXCEPT !.vals[idx] = @ \o list] = h
    OBVIOUS
  <2>3. Become(h)
    <3>1. AreBits(rec.val)
      BY <1>3 DEF DecodePacked, Fail, Raise
    <3> QED  BY <1>3, <2>2, <3>1 DEF DecodePacked
  <2>4. /\ Shape(Taken) /\ idx \in 1 .. Len(Taken.fields)
        /\ IsMember(Taken, idx) => Taken.owner[Taken.fields[idx].oneof] = idx
    BY <2>1, TakenIs
  <2> HIDE DEF e
  <2>5. IsFrame(h) /\ Alike(Taken, h) /\ h.owner = Taken.owner /\ h.vals = [Taken.vals EXCEPT ![idx] = e]
    BY <2>4 DEF Shape, IsFrame, Alike
  <2> HIDE DEF h
  <2>6. Shape(h)
    BY <2>4, <2>5, PutShape
  <2> QED  BY <2>1, <2>3, <2>5, <2>6, BecomeShape
<1>4. ASSUME Reading, Known, NEW v, Become(Deliver(Taken, idx, v))  PROVE StackOK(dec')
  <2>1. /\ Shape(Taken) /\ idx \in 1 .. Len(Taken.fields)
        /\ IsMember(Taken, idx) => Taken.owner[Taken.fields[idx].oneof] = idx
    BY <1>4, TakenIs
  <2>2. Shape(Deliver(Taken, idx, v)) /\ Alike(Taken, Deliver(Taken, idx, v))
    BY <2>1, DeliverShape
  <2> QED  BY <1>4, <2>2, BecomeShape
<1>5. CASE DecodeNested /\ dec' # <<>>
  <2> DEFINE c == MessageFrame(field.ref, rec.val, top.depth + 1, idx)
  <2>1. /\ Shape(Taken) /\ Alike(top, Taken) /\ idx \in 1 .. Len(Taken.fields) /\ Taken.fields[idx] = field
        /\ IsMember(Taken, idx) => Taken.owner[Taken.fields[idx].oneof] = idx
    BY <1>5, TakenIs DEF DecodeNested
  <2>2. ~ (top.depth + 1 > MaxDepth) /\ Call(Taken, c) /\ field.kind = "message"
    BY <1>5 DEF DecodeNested, Fail, Raise
  <2>3. top.depth + 1 \in 0 .. MaxDepth
    BY <1>5, <2>2, TopIs, MessagesAssumption DEF DecodeNested, Shape
  <2>4. Shape(c) /\ Into(Taken, c)
    BY <2>1, <2>2, <2>3, MessageFrameIs
  <2> HIDE DEF c
  <2> QED  BY <1>5, <2>1, <2>2, <2>4, CallShape DEF DecodeNested
<1>6. CASE DecodeMapEntry
  <2> DEFINE c == EntryFrame(field, rec.val, top.depth, idx)
  <2>1. /\ Shape(Taken) /\ Alike(top, Taken) /\ idx \in 1 .. Len(Taken.fields) /\ Taken.fields[idx] = field
    BY <1>6, TakenIs DEF DecodeMapEntry
  <2>2. Call(Taken, c) /\ field.kind = "map"
    BY <1>6 DEF DecodeMapEntry
  <2>3. top.depth \in 0 .. MaxDepth
    BY <1>6, TopIs DEF DecodeMapEntry, Shape
  <2>4. Shape(c) /\ Into(Taken, c)
    BY <2>1, <2>2, <2>3, EntryFrameIs
  <2> HIDE DEF c
  <2> QED  BY <1>6, <2>1, <2>2, <2>4, CallShape DEF DecodeMapEntry
<1>7. ASSUME NEW v, AtEnd, Len(dec) > 1, ReturnValue(v)  PROVE StackOK(dec')
  BY <1>7, ReturnShape DEF AtEnd
<1>8. CASE DefaultMessage /\ dec' # <<>>
  <2> DEFINE c == MessageFrame(top.fields[2].ref, <<>>, top.depth + 1, 2)
  <2>1. dec # <<>> /\ top.entry /\ top.fields[2].kind = "message"
    BY <1>8 DEF DefaultMessage, AtEnd, MissingMessage
  <2>2. ~ (top.depth + 1 > MaxDepth) /\ Call(top, c)
    BY <1>8 DEF DefaultMessage, Fail, Raise
  <2>3. Shape(top)
    BY <2>1, TopIs
  <2>4. top.depth + 1 \in 0 .. MaxDepth
    BY <2>2, <2>3, MessagesAssumption DEF Shape
  <2>5. 2 \in 1 .. Len(top.fields) /\ ~ IsMember(top, 2)
    <3>1. PICK y : GoodField(y) /\ y.kind = "map" /\ top.fields = EntryFields(y)
      BY <2>1, <2>3 DEF Shape, Kin, KinOf
    <3> QED  BY <3>1, MapEntryFields DEF IsMember
  <2>6. Shape(c) /\ Into(top, c)
    BY <2>1, <2>3, <2>4, <2>5, MessageFrameIs
  <2> HIDE DEF c
  <2>7. Alike(top, top)
    BY DEF Alike
  <2> QED  BY <2>1, <2>2, <2>3, <2>6, <2>7, CallShape
<1>9. CASE EndEntry
  <2>1. Len(dec) > 1
    <3>1. Len(dec) \in Nat \ {0} /\ top = dec[Len(dec)] /\ ~ dec[1].entry
      BY <1>9, TopIs DEF EndEntry, AtEnd, StackOK
    <3> QED  BY <1>9, <3>1 DEF EndEntry
  <2> QED  BY <1>7, <1>9, <2>1 DEF EndEntry
<1>10. CASE EndNested
  BY <1>7, <1>10 DEF EndNested
<1>11. CASE DecodeTime /\ dec' # <<>>
  <2> DEFINE time == TimeOf(field.kind, rec.val)
  <2>1. Become(Deliver(Taken, idx, time))
    BY <1>11 DEF DecodeTime, Raise
  <2> QED  BY <1>4, <1>11, <2>1 DEF DecodeTime
<1>12. CASE DecodeText /\ dec' # <<>>
  <2>1. Become(Deliver(Taken, idx, rec.val))
    BY <1>12 DEF DecodeText, Fail, Raise
  <2> QED  BY <1>4, <1>12, <2>1 DEF DecodeText
<1>13. CASE DecodeValue
  BY <1>4, <1>13 DEF DecodeValue
<1>14. Malformed \/ EndRoot => dec' = <<>>
  BY DEF Malformed, EndRoot, Fail, Raise
<1> QED
  BY <1>1, <1>2, <1>3, <1>5, <1>6, <1>8, <1>9, <1>10, <1>11, <1>12, <1>13, <1>14 DEF DecodeStep

-----------------------------------------------------------------------------
(* The encoder's stack. *)

IsWalk(w) ==
  w \in [inst : {w.inst}, depth : 0 .. MaxDepth, num : {w.num}, todo : {w.todo}, out : {w.out}]

WalksOK(s) == IsList(s) /\ \A k \in 1 .. Len(s) : IsWalk(s[k])

\* Replacing the last elements of the encoder's stack, and pushing to it.
LEMMA WalkMoves ==
  ASSUME NEW s, WalksOK(s), NEW n \in 1 .. Len(s), NEW w, IsWalk(w)
  PROVE  /\ WalksOK(Cut(s, n, w))
         /\ \A v : IsWalk(v) => WalksOK(Append(Cut(s, n, w), v))
<1> DEFINE t == Cut(s, n, w)
<1>0. Len(s) \in Nat
  BY ListLen DEF WalksOK
<1>1. IsList(t) /\ Len(t) = n /\ (\A k \in 1 .. n - 1 : t[k] = s[k]) /\ t[n] = w
  BY CutIs DEF WalksOK
<1> HIDE DEF t
<1>2. \A k \in 1 .. n : IsWalk(t[k])
  BY <1>0, <1>1 DEF WalksOK
<1>3. ASSUME NEW v, IsWalk(v)  PROVE WalksOK(Append(t, v))
  <2> DEFINE u == Append(t, v)
  <2>1. IsList(u) /\ Len(u) = n + 1 /\ (\A k \in 1 .. n : u[k] = t[k]) /\ u[n + 1] = v
    BY <1>1, ListAppend
  <2> HIDE DEF u
  <2>2. \A k \in 1 .. n + 1 : IsWalk(u[k])
    BY <1>0, <1>2, <1>3, <2>1
  <2> QED  BY <2>1, <2>2 DEF WalksOK, u
<1> QED  BY <1>1, <1>2, <1>3 DEF WalksOK, t

\* No walk, or one.
LEMMA FewWalks ==
  /\ WalksOK(<<>>)
  /\ \A w : IsWalk(w) => WalksOK(<<w>>)
<1>1. IsList(<<>>) /\ Len(<<>>) = 0
  BY EmptySeq, ListOf
<1>2. WalksOK(<<>>)
  BY <1>1 DEF WalksOK
<1>3. ASSUME NEW w, IsWalk(w)  PROVE WalksOK(<<w>>)
  <2> DEFINE s == <<w>>
  <2>1. s \in Seq({w}) /\ Len(s) = 1 /\ s[1] = w
    OBVIOUS
  <2> HIDE DEF s
  <2>2. IsList(s)
    BY <2>1, ListOf
  <2> QED  BY <1>3, <2>1, <2>2 DEF WalksOK, s
<1> QED  BY <1>2, <1>3

\* A new walk is no deeper than its depth.
LEMMA NewWalk ==
  ASSUME NEW depth \in 0 .. MaxDepth, NEW num
  PROVE  /\ \A inst : IsWalk(MessageWalk(inst, depth, num))
         /\ \A items : IsWalk(EntryWalk(items, depth, num))
BY DEF IsWalk, MessageWalk, EntryWalk

\* Every step of the encoder leaves the stack in order.
LEMMA EncodeShape ==
  ASSUME WalksOK(enc), EncodeStep
  PROVE  WalksOK(enc')
<1>0. enc # <<>>
  BY DEF EncodeStep, WriteRecord, RefuseValue, EncodeNested, EncodeMapEntry, OneofError, EndEncode,
         EndPayload, Writing, Finished
<1>1. Len(enc) \in Nat \ {0} /\ IsWalk(walk) /\ Len(enc) \in 1 .. Len(enc)
  BY <1>0, ListLen DEF WalksOK, walk
<1>2. \A w : Append(Outer, w) = Cut(enc, Len(enc), w)
  BY DEF Outer, Cut
<1>3. IsWalk(Rest) /\ Rest.depth = walk.depth /\ walk.depth \in 0 .. MaxDepth
  BY <1>1 DEF IsWalk, Rest
<1>4. CASE enc' = <<>>
  BY <1>4, FewWalks
<1>5. CASE WriteRecord
  <2>1. IsWalk([Rest EXCEPT !.out = Append(@, item.rec)])
    BY <1>3 DEF IsWalk
  <2> QED  BY <1>1, <1>2, <1>5, <2>1, WalkMoves DEF WriteRecord
<1>6. CASE EncodeNested /\ enc' # <<>>
  <2>1. /\ ~ (walk.depth + 1 > MaxDepth)
        /\ enc' = Append(Append(Outer, Rest), MessageWalk(item.inst, walk.depth + 1, item.num))
    BY <1>6 DEF EncodeNested, FailEncode
  <2>2. walk.depth + 1 \in 0 .. MaxDepth
    BY <1>3, <2>1, MessagesAssumption
  <2>3. IsWalk(MessageWalk(item.inst, walk.depth + 1, item.num))
    BY <2>2, NewWalk
  <2> QED  BY <1>1, <1>2, <1>3, <2>1, <2>3, WalkMoves
<1>7. CASE EncodeMapEntry
  <2>1. IsWalk(EntryWalk(item.items, walk.depth, item.num))
    BY <1>3, NewWalk
  <2> QED  BY <1>1, <1>2, <1>3, <1>7, <2>1, WalkMoves DEF EncodeMapEntry
<1>8. CASE EndPayload
  <2> DEFINE n == Len(enc) - 1
             w == [enc[n] EXCEPT !.out = Append(@, Record(walk.num, "len", Payload))]
  <2>1. n \in 1 .. Len(enc) /\ n - 1 = Len(enc) - 2
    BY <1>1, <1>8 DEF EndPayload
  <2>2. IsWalk(enc[n])
    BY <2>1 DEF WalksOK
  <2>3. IsWalk(w)
    BY <2>2 DEF IsWalk
  <2>4. enc' = Cut(enc, n, w)
    BY <1>8, <2>1 DEF EndPayload, Cut
  <2> HIDE DEF n, w
  <2> QED  BY <2>1, <2>3, <2>4, WalkMoves
<1>9. RefuseValue \/ OneofError \/ EndEncode => enc' = <<>>
  BY DEF RefuseValue, OneofError, EndEncode, FailEncode
<1> QED  BY <1>4, <1>5, <1>6, <1>7, <1>8, <1>9 DEF EncodeStep

-----------------------------------------------------------------------------
(* The stacks of a program on the path. *)

StacksInv ==
  /\ path \in Paths
  /\ IsList(insts)
  /\ StackOK(dec)
  /\ WalksOK(enc)

\* The invariant holds at first.
LEMMA InitStacks == Init => StacksInv
<1> SUFFICES ASSUME Init  PROVE StacksInv
  OBVIOUS
<1>1. path \in Paths /\ dec = <<>> /\ enc = <<>>
  BY DEF Init
<1>2. IsList(insts)
  <2>1. CASE insts = <<>>
    BY <2>1, EmptySeq, ListOf
  <2>2. CASE \E m \in Instances : insts = <<m>>
    <3>1. PICK m \in Instances : insts = <<m>>
      BY <2>2
    <3>2. <<m>> \in Seq({m})
      OBVIOUS
    <3> QED  BY <3>1, <3>2, ListOf
  <2> QED  BY <2>1, <2>2 DEF Init
<1> QED  BY <1>1, <1>2, EmptyStack, FewWalks DEF StacksInv

\* The class that the next program decodes into is one of the classes.
LEMMA NextClass ==
  ASSUME path \in Paths, Len(insts) \in Nat, Len(insts) < Len(path)
  PROVE  path[Len(insts) + 1] \in Class
<1>1. path \in Seq(Class)
  BY RelayAssumption
<1> QED  BY <1>1

\* One frame or walk at the start of a call.
LEMMA StartShape ==
  ASSUME NEW c \in Class, NEW p
  PROVE  StackOK(<<MessageFrame(c, p, 0, 0)>>)
<1> DEFINE f == MessageFrame(c, p, 0, 0)
           fields == Fields[c]
           entry == FALSE
           s == <<f>>
<1>1. GoodFields(fields) /\ entry \in BOOLEAN /\ KinOf(entry, c, fields) /\ 0 \in 0 .. MaxDepth
  BY ClassFields, MessagesAssumption DEF KinOf
<1>2. f = Frame(entry, c, fields, 0, p, 0)
  BY DEF MessageFrame
<1> HIDE DEF f, fields, entry
<1>3. Shape(f) /\ IsNew(f, entry, c, fields, 0, p, 0)
  BY <1>1, <1>2, NewFrame
<1>4. ~ f.entry
  BY <1>3 DEF IsNew, entry
<1>5. s \in Seq({f}) /\ Len(s) = 1 /\ s[1] = f
  OBVIOUS
<1> HIDE DEF s
<1>6. IsList(s)
  BY <1>5, ListOf
<1>7. StackOK(s)
  BY <1>3, <1>4, <1>5, <1>6 DEF StackOK
<1> QED  BY <1>7 DEF s, f

\* Every step keeps it.
LEMMA NextStacks == StacksInv /\ [Next]_vars => StacksInv'
<1> SUFFICES ASSUME StacksInv, [Next]_vars  PROVE StacksInv'
  OBVIOUS
<1> USE DEF StacksInv
<1>0. Len(insts) \in Nat
  BY ListLen
<1>1. CASE FromBytes
  <2>1. path[Len(insts) + 1] \in Class
    BY <1>0, <1>1, NextClass DEF FromBytes
  <2>2. StackOK(dec')
    BY <1>1, <2>1, StartShape DEF FromBytes, Start
  <2> QED  BY <1>1, <2>2 DEF FromBytes, encVars, relayVars
<1>2. CASE ToBytes
  <2>1. 0 \in 0 .. MaxDepth
    BY MessagesAssumption
  <2>2. WalksOK(enc')
    BY <1>2, <2>1, NewWalk, FewWalks DEF ToBytes, StartEncode
  <2> QED  BY <1>2, <2>2 DEF ToBytes, decVars, relayVars
<1>3. CASE Decoded
  <2>1. insts' = insts \/ insts' = Append(insts, decoded)
    BY <1>3 DEF Decoded
  <2>2. IsList(insts')
    BY <2>1, ListAppend
  <2> QED  BY <1>3, <2>2 DEF Decoded, encVars
<1>4. CASE Encoded
  BY <1>4 DEF Encoded, decVars
<1>5. CASE DecodeStep /\ UNCHANGED <<encVars, relayVars>>
  BY <1>5, DecodeShape DEF encVars, relayVars
<1>6. CASE EncodeStep /\ UNCHANGED <<decVars, relayVars>>
  BY <1>6, EncodeShape DEF decVars, relayVars
<1>7. CASE UNCHANGED vars
  BY <1>7 DEF vars, decVars, encVars, relayVars
<1> QED  BY <1>1, <1>2, <1>3, <1>4, <1>5, <1>6, <1>7 DEF Next

\* The stacks of both directions are in order, whatever the schemas and the
\* messages: every frame has the fields of its class or map and lies above the
\* field that waits for it, and of a oneof only its owner holds a value.
THEOREM StacksInOrder == Spec => []StacksInv
<1> QED  BY InitStacks, NextStacks, PTL DEF Spec

\* No message nests deeper than MaxDepth in a decoder or an encoder, maps
\* included, for every schema and every message.
THEOREM DepthIsBounded == Spec => []DepthBounded
<1>1. StacksInv => DepthBounded
  <2> SUFFICES ASSUME StacksInv  PROVE DepthBounded
    OBVIOUS
  <2>1. \A k \in 1 .. Len(dec) : dec[k].depth <= MaxDepth
    BY MessagesAssumption DEF StacksInv, StackOK, Shape
  <2>2. \A k \in 1 .. Len(enc) : enc[k].depth \in 0 .. MaxDepth
    BY DEF StacksInv, WalksOK, IsWalk
  <2> QED  BY <2>1, <2>2, MessagesAssumption DEF DepthBounded
<1> QED  BY <1>1, StacksInOrder, PTL

\* At most one member of a oneof holds a value in the decoder, however often
\* and in whatever order the members are on the wire.
THEOREM OneofsAreExclusive == Spec => []OneofExclusive
<1>1. StacksInv => OneofExclusive
  <2> SUFFICES ASSUME StacksInv, NEW k \in 1 .. Len(dec), NEW g \in Group, ~ dec[k].entry
               PROVE  Cardinality({n \in Members(dec[k].cls, g) : dec[k].vals[n] # None}) <= 1
    BY DEF OneofExclusive
  <2> DEFINE f == dec[k]
             S == {n \in Members(f.cls, g) : f.vals[n] # None}
  <2>1. Shape(f)
    BY DEF StacksInv, StackOK
  <2>2. f.fields = Fields[f.cls]
    BY <2>1 DEF Shape, Kin, KinOf
  <2> HIDE DEF f
  <2>3. S \subseteq {f.owner[g]}
    BY <2>1, <2>2, MessagesAssumption DEF Members, Shape, OwnersHold, IsMember
  <2>4. IsFiniteSet({f.owner[g]}) /\ Cardinality({f.owner[g]}) = 1
    BY FS_Singleton
  <2>5. Cardinality(S) <= 1
    BY <2>3, <2>4, FS_Subset
  <2> QED  BY <2>5 DEF f
<1> QED  BY <1>1, StacksInOrder, PTL
=============================================================================
