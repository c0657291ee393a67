------------------------------- MODULE Dicts -------------------------------
(***************************************************************************)
(* to_dict and from_dict.  A dict of fields is a function from the indexes *)
(* of the fields to native values; the annotation of a field, which        *)
(* from_dict goes by, is the field's kind and label.                       *)
(***************************************************************************)
EXTENDS Relay

NewInstance(c, vals) == [cls |-> c, vals |-> vals, unknown |-> <<>>]
DefaultOf(y) == IF y.label = "repeated" \/ y.kind = "map" THEN <<>> ELSE Default(y)

\* Apply convert to the elements of a value of field y: those of a list, the
\* values of a map, or the value itself unless it is None.
Elementwise(y, v, convert(_)) ==
  IF v = None THEN None
  ELSE IF y.kind = "map" THEN [k \in 1 .. Len(v) |-> <<v[k][1], convert(v[k][2])>>]
  ELSE IF y.label = "repeated" THEN [k \in 1 .. Len(v) |-> convert(v[k])]
  ELSE convert(v)

HoldsMessages(y) == y.kind = "message" \/ y.elem = "message"

RECURSIVE ToDict(_), FromDict(_, _), Fresh(_)

ToValue(y, v) == IF HoldsMessages(y) THEN Elementwise(y, v, ToDict) ELSE v

ToDict(inst) ==
  [k \in 1 .. Len(inst.vals) |-> ToValue(Fields[inst.cls][k], inst.vals[k])]

FromValue(y, v) ==
  IF HoldsMessages(y) THEN Elementwise(y, v, LAMBDA d : FromDict(y.ref, d)) ELSE v

\* Mutant of FromDict: a missing key leaves None.
FromDict_NoDefaults(c, dict) ==
  IF DOMAIN dict \subseteq DOMAIN Fields[c]
    THEN NewInstance(c, [k \in DOMAIN Fields[c] |->
                           IF k \in DOMAIN dict THEN FromValue(Fields[c][k], dict[k]) ELSE None])
    ELSE ValueError

\* A missing key falls back to the field's default, an unknown key is refused.
FromDict(c, dict) ==
  IF DOMAIN dict \subseteq DOMAIN Fields[c]
    THEN NewInstance(c, [k \in DOMAIN Fields[c] |->
                         IF k \in DOMAIN dict THEN FromValue(Fields[c][k], dict[k])
                                              ELSE DefaultOf(Fields[c][k])])
    ELSE ValueError

\* The same message without the bytes of unknown fields, which == ignores.
Fresh(inst) ==
  NewInstance(inst.cls,
    [k \in DOMAIN inst.vals |->
       IF HoldsMessages(Fields[inst.cls][k]) THEN Elementwise(Fields[inst.cls][k], inst.vals[k], Fresh)
                                             ELSE inst.vals[k]])

\* "from_dict(x.to_dict()) == x" for every message that a program builds or
\* decodes, and also after the keys are left out whose fields hold defaults.
\* The dicts of nested messages stay with the field that they belong to.
DictRoundTrip ==
  insts # <<>> /\ dec = <<>> /\ enc = <<>> =>
    LET inst == insts[Len(insts)]
        dict == ToDict(inst)
        telling == {n \in DOMAIN dict : inst.vals[n] # DefaultOf(Fields[inst.cls][n])}
    IN /\ FromDict(inst.cls, dict) = Fresh(inst)
       /\ FromDict(inst.cls, [n \in telling |-> dict[n]]) = Fresh(inst)
=============================================================================
