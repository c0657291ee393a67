----------------------------- MODULE MCBinding -----------------------------
(***************************************************************************)
(* Requests for Binding: every small tree of types with one field, in a    *)
(* package whose segments may be names of classes too, and some files that *)
(* have every kind of field or names that clash.                           *)
(***************************************************************************)
EXTENDS Binding

MCWords ==
  "A" :> <<"A">> @@ "B" :> <<"B">> @@ "b" :> <<"B">> @@ "C" :> <<"C">> @@ "A_B" :> <<"A", "B">>
    @@ "B_C" :> <<"B", "C">> @@ "E" :> <<"E">> @@ "M" :> <<"M">> @@ "XEntry" :> <<"XENTRY">>
    @@ "I" :> <<"I">>

Declared(fname, num, card, type, target) ==
  [name |-> fname, num |-> num, card |-> card, group |-> None, type |-> type, target |-> target,
   key |-> None, entry |-> None]
MapOf(y, key, entry) == [y EXCEPT !.card = "map", !.key = key, !.entry = entry]
InGroup(y, g) == [y EXCEPT !.group = g]
Msg(path, fields, groups) == [path |-> path, fields |-> fields, oneofs |-> groups]
File(package, messages, enums) == [package |-> package, messages |-> messages, enums |-> enums]
EnumOf(values) == [values |-> values, missing |-> None]
Zeros == EnumOf(<< <<"ZERO", 0>> >>)
OneFile(file) == [f \in {"f.proto"} |-> file]

-----------------------------------------------------------------------------
(* Every small tree: messages A, B and some nested in A, enums E. *)

Packages == {<<>>, <<"p">>, <<"A">>, <<"E", "p">>}
Trees == {
  << <<"A">>, <<"A", "A">>, <<"A", "b">>, <<"B">> >>, << <<"A">>, <<"A", "b">>, <<"A", "B">> >>,
  << <<"A">>, <<"A", "B_C">>, <<"A", "B">>, <<"A", "B", "C">>, <<"A_B">> >> }
EnumSets == {{}, {<<"E">>}, {<<"A", "E">>}, {<<"E">>, <<"A", "E">>}, {<<"A", "A", "E">>}}

Targets(package, tree, enums) ==
  {<<TypeMessage, <<"">> \o package \o p>> : p \in ToSet(tree)}
    \cup {<<TypeEnum, <<"">> \o package \o p>> : p \in enums}
    \cup {<<TypeMessage, TimestampName>>, <<3, None>>, <<9, None>>}
Fields(t) ==
  {Declared("x", 1, card, t[1], t[2]) : card \in {"plain", "optional", "repeated"}}
    \cup {InGroup(Declared("x", 1, "plain", t[1], t[2]), 0),
          MapOf(Declared("x", 1, "map", t[1], t[2]), 9, "XEntry")}

Small(package, tree, enums, owner, y) ==
  OneFile(File(package,
    [k \in 1 .. Len(tree) |->
       Msg(tree[k], IF tree[k] = owner THEN <<y>> ELSE <<>>,
           IF tree[k] = owner /\ y.group # None THEN <<"g">> ELSE <<>>)],
    [e \in enums |-> Zeros]))
SmallRequests ==
  UNION {UNION {UNION {
    {Small(package, tree, enums, owner, y) :
       owner \in {tree[1], tree[Len(tree)]}, y \in UNION {Fields(t) : t \in Targets(package, tree, enums)}}
    : enums \in {s \in EnumSets : \A e \in s : Len(e) = 1 \/ Front(e) \in ToSet(tree)}}
    : tree \in Trees} : package \in Packages}

-----------------------------------------------------------------------------
(* Whole files. *)

Everything ==
  <<Declared("n", 1, "plain", 3, None), Declared("o", 2, "optional", 5, None),
    InGroup(Declared("s", 3, "plain", 9, None), 0),
    InGroup(Declared("t", 4, "plain", TypeMessage, <<"", "p", "B">>), 0),
    Declared("l", 6, "repeated", TypeEnum, <<"", "p", "E">>),
    MapOf(Declared("x", 60, "map", TypeMessage, <<"", "q", "M", "B">>), 5, "XEntry"),
    Declared("q", 7, "optional", TypeEnum, <<"", "p", "A", "E">>),
    Declared("d", 8, "plain", TypeMessage, DurationName)>>
ToEnum(fname, num) == Declared(fname, num, "plain", TypeEnum, <<"", "p", "E">>)

Whole ==
  "f.proto" :> File(<<"p">>,
                    <<Msg(<<"A">>, Everything, <<"g">>), Msg(<<"A", "B">>, <<>>, <<>>), Msg(<<"B">>, <<>>, <<>>)>>,
                    <<"E">> :> Zeros
                      @@ <<"A", "E">> :> EnumOf(<< <<"ZERO", 0>>, <<"TWO", 2>>, <<"DUE", 2>>,
                                                  <<"ONE", 1>>, <<"LESS", -1>>, <<"LEAST", -8>> >>))
  @@ "q/g.proto" :> File(<<"q">>, <<Msg(<<"M">>, <<>>, <<>>), Msg(<<"M", "B">>, <<>>, <<>>)>>, <<>>)

\* M has the map entry M.XEntry; I.M.XEntry and I.XEntry are messages.
Twins(target) ==
  OneFile(File(<<"p">>,
    <<Msg(<<"M">>, <<MapOf(Declared("x", 1, "map", 9, None), 9, "XEntry"),
                     Declared("y", 2, "repeated", TypeMessage, <<"", "p">> \o target)>>, <<>>),
      Msg(<<"I">>, <<>>, <<>>), Msg(<<"I", "M">>, <<>>, <<>>), Msg(<<"I", "M", "XEntry">>, <<>>, <<>>),
      Msg(<<"I", "XEntry">>, <<>>, <<>>)>>, <<>>))

\* A class that is imported under a name of the module's own.
Colliding ==
  "f.proto" :> File(<<"p">>, <<Msg(<<"A">>, <<Declared("x", 1, "plain", TypeMessage, <<"", "q", "A">>)>>, <<>>)>>,
                    <<>>)
  @@ "q/g.proto" :> File(<<"q">>, <<Msg(<<"A">>, <<>>, <<>>)>>, <<>>)

\* Enums that are read in a class body below a field or a type of their name.
Body(first, enums) ==
  OneFile(File(<<"p">>, <<Msg(<<"A">>, <<first, ToEnum("r", 2)>>, <<>>)>>, [e \in enums |-> Zeros]))
Bodies ==
  {Body(ToEnum("E", 1), {<<"E">>})}
    \cup {Body(Declared("n", 1, "plain", 3, None), enums) : enums \in {{<<"E">>}, {<<"E">>, <<"A", "E">>}}}

MCRequests ==
  SmallRequests \cup Bodies
    \cup {Whole, Colliding, Twins(<<"I", "M", "XEntry">>), Twins(<<"I", "XEntry">>)}

-----------------------------------------------------------------------------
(* Descriptors by hand, for the class A of Whole. *)

\* An enum of it has a _missing_ of its own.
MCHome == <<[Whole EXCEPT !["f.proto"].enums[<<"E">>].missing = <<"ZERO", 0>>], <<"f.proto", <<"A">> >> >>

Hand(fields, nested, groups) ==
  [name |-> <<"A">>, field |-> fields, nested |-> nested, oneof |-> groups, other |-> <<>>]
HandField(num, label, type, target, index) ==
  SelectSeq(FieldProto("x", num, label, type, target, index, FALSE), LAMBDA r : r.val # None)

\* Two fields that a class may list in another order.
Pair(index) == Hand(<<FieldProto("a", 1, 1, TypeEnum, <<"", "p", "E">>, index, FALSE),
                      FieldProto("b", 2, 3, 9, None, None, FALSE)>>, <<>>, << <<>> >>)

\* Numbers that repeat, are zero, sparse, or wrap around.
Numbered ==
  {Hand([k \in 1 .. Len(ns) |-> HandField(ns[k], 1, ts[k][1], ts[k][2], None)], <<>>, <<>>) :
     ns \in [1 .. 3 -> {0, 1, 60, 65}],
     ts \in {<< <<3, None>>, <<TypeEnum, <<"", "p", "E">> >>, <<TypeMessage, <<"", "p", "B">> >> >>,
             << <<TypeMessage, <<"", "p", "B">> >>, <<TypeMessage, None>>, <<TypeEnum, <<"", "p", "N">> >> >>}}

\* Indexes inside and outside of the oneofs, on any field.
Grouped ==
  {Hand(<<HandField(1, label, type, <<"", "p", "A", "B">>, index)>>, <<>>,
        [k \in 1 .. n |-> <<Record(1, "len", "g")>>]) :
     label \in {0, 1, 3}, type \in {0, 3, 10, 11, 14, 19, None}, index \in {None, 0, 1, 2, 64}, n \in 0 .. 2}

Entry(fields, flags) ==
  <<Record(1, "len", "XEntry")>> \o [k \in 1 .. Len(fields) |-> Record(2, "len", fields[k])]
    \o [k \in 1 .. Len(flags) |-> Record(7, "len", <<Record(7, "varint", flags[k])>>)]
EntryField(num, type) == HandField(num, 1, type, <<"p", "B">>, None)

\* Map entries with types missing, given twice or not allowed.
Mapped ==
  {Hand(<<HandField(1, 3, TypeMessage, target, 0)>>, <<Entry(a, <<1>>), Entry(b, flags)>>,
        <<<<Record(1, "len", "g")>>>>) :
     target \in {<<"", "p", "A", "XEntry">>, <<"XEntry">>, <<"">>, None},
     a \in {<<>>, <<EntryField(1, 10), EntryField(2, 11)>>},
     b \in {<<>>, <<EntryField(1, 5), EntryField(2, 14), EntryField(2, 3)>>, <<EntryField(2, 10)>>},
     flags \in {<<>>, <<1>>, <<1, 0>>}}

Garbage == <<[garbage |-> 0]>>
Bad == <<Record(1, "len", NotText)>>
Unread ==
  {[Hand(f, n, g) EXCEPT !.name = m, !.other = o] :
     f \in {<<>>, <<Garbage>>, <<Bad>>}, n \in {<<>>, <<Garbage>>, <<Bad>>, <<Entry(<<Bad>>, <<>>)>>},
     g \in {<<>>, <<Garbage>>, <<Bad>>}, m \in {<<>>, <<"A", "B">>, <<"A", NotText>>},
     o \in {<<>>, <<Record(99, "varint", 0)>>, <<[garbage |-> 0]>>}}

MCHandMade == {Pair(None), Pair(0)} \cup Numbered \cup Grouped \cup Mapped \cup Unread

-----------------------------------------------------------------------------
(* Classes by hand. *)

Plain(fields) == [dataclass |-> TRUE, frozen |-> FALSE, custom |-> {}, fields |-> fields]
DataField(y) ==
  LET factory == IF y.kind = "map" THEN "dict" ELSE IF y.label = "repeated" THEN "list" ELSE Missing IN
  [name |-> y.name, init |-> TRUE, factory |-> factory,
   default |-> IF factory # Missing THEN Missing ELSE IF y.label = "optional" THEN None ELSE "zero"]

\* A class that has the fields of the descriptor, once each.
Mirror(fields) ==
  LET first == {k \in 1 .. Len(fields) : \A j \in 1 .. k - 1 : fields[j].name # fields[k].name}
      indexes == SetToSortSeq(first, <)
  IN Plain([k \in 1 .. Len(indexes) |-> DataField(fields[indexes[k]])])

\* Classes that differ from it in one respect.
MCHandClasses(fields) ==
  LET c == Mirror(fields)
      one(f) == [c EXCEPT !.fields[1] = f]
      y == c.fields[1]
  IN {c} \cup IF Len(fields) \notin {1, 2} THEN {} ELSE
       {[c EXCEPT !.custom = {hook}] : hook \in {"init", "post_init", "new", "call"}}
         \cup {[c EXCEPT !.frozen = TRUE], [c EXCEPT !.dataclass = FALSE], [c EXCEPT !.fields = Reverse(@)],
               one([y EXCEPT !.name = "other"]), one([y EXCEPT !.init = FALSE]),
               one([y EXCEPT !.default = Missing, !.factory = "list"]),
               one([y EXCEPT !.default = Missing, !.factory = "dict"]),
               one([y EXCEPT !.default = Missing, !.factory = "made"]),
               one([y EXCEPT !.default = Missing, !.factory = Missing])}

MCEnumNumbers == {-8, -1, 0, 1, 2, 3, 7}
=============================================================================
