------------------------------ MODULE Binding ------------------------------
(***************************************************************************)
(* From a .proto file to a class that is ready to decode: protoc writes    *)
(* the descriptor, the plugin writes the module, compile() parses the      *)
(* descriptor when the module is imported, linking resolves the names of   *)
(* the referenced classes in the module's namespace and decides how decode *)
(* makes instances, and decode makes one.                                  *)
(*                                                                         *)
(* The class under study belongs to one of the Requests, or it is written  *)
(* by hand as its descriptor is.  How threads interleave in linking is the *)
(* subject of Linking, what is decoded that of Decoder.                    *)
(***************************************************************************)
EXTENDS Parse, Plugin, FiniteSets

CONSTANTS
  Requests,     \* the sets of files that protoc may be run on
  HandMade,     \* inputs of compile() that protoc would not write
  Home,         \* the request and the class that get these
  HandClasses(_), \* the classes that may be given a descriptor with these fields
  EnumNumbers,  \* numbers of enum values on the wire
  LookupFailed  \* a LookupError

VARIABLES
  files,    \* the request
  class,    \* the class that is bound: <<f, path>>
  handMade, \* whether its descriptor is hand-made
  refs,     \* the references by field number once linked, None before
  pyclass,  \* the Python class that was linked
  fast,     \* the defaults of its fast_init, or None
  instance  \* what decode made: the class, the values it had, the outcome

bindVars == <<files, class, handMade>>
vars == <<parseVars, bindVars, refs, pyclass, fast, instance>>

-----------------------------------------------------------------------------
(* The DescriptorProto that protoc writes for a message. *)

Optionals(m, k) == Cardinality({j \in 1 .. k : m.fields[j].card = "optional"})

\* The synthetic oneofs of optional fields come after the real ones.
OneofIndex(m, k) ==
  IF m.fields[k].group # None THEN m.fields[k].group
  ELSE IF m.fields[k].card = "optional" THEN Len(m.oneofs) + Optionals(m, k - 1)
  ELSE None

FieldProto(fname, num, label, type, target, index, optional) ==
  <<Record(1, "len", fname), Record(3, "varint", num), Record(4, "varint", label),
    Record(5, "varint", type)>>
    \o (IF target # None THEN <<Record(6, "len", target)>> ELSE <<>>)
    \o (IF index # None THEN <<Record(9, "varint", index)>> ELSE <<>>)
    \o (IF optional THEN <<Record(17, "varint", 1)>> ELSE <<>>)

FieldOf(file, m, k) ==
  LET y == m.fields[k] IN
  IF y.card = "map"
    THEN FieldProto(y.name, y.num, LabelRepeated, TypeMessage,
                    FullNameOf(file, Append(m.path, y.entry)), None, FALSE)
    ELSE FieldProto(y.name, y.num, IF y.card = "repeated" THEN LabelRepeated ELSE 1, y.type,
                    y.target, OneofIndex(m, k), y.card = "optional")

EntryOf(y) ==
  <<Record(1, "len", y.entry),
    Record(2, "len", FieldProto("key", 1, 1, y.key, None, None, FALSE)),
    Record(2, "len", FieldProto("value", 2, 1, y.type, y.target, None, FALSE)),
    Record(7, "len", <<Record(7, "varint", 1)>>)>>

NestedOf(file, m) ==
  <<Record(1, "len", m.path[Len(m.path)])>>
    \o [k \in 1 .. Len(m.fields) |-> Record(2, "len", FieldOf(file, m, k))]

DescriptorProto(file, path) ==
  LET m == MessageAt(file, path)
      maps == SelectSeq(m.fields, LAMBDA y : y.card = "map")
      inside == SelectSeq(file.messages, LAMBDA n : Front(n.path) = path)
      synthetic == SelectSeq(m.fields, LAMBDA y : y.card = "optional")
  IN [name   |-> <<path[Len(path)]>>,
      field  |-> [k \in 1 .. Len(m.fields) |-> FieldOf(file, m, k)],
      nested |-> [k \in 1 .. Len(maps) |-> EntryOf(maps[k])]
                   \o [k \in 1 .. Len(inside) |-> NestedOf(file, inside[k])],
      oneof  |-> [k \in 1 .. Len(m.oneofs) |-> <<Record(1, "len", m.oneofs[k])>>]
                   \o [k \in 1 .. Len(synthetic) |-> <<Record(1, "len", "_" \o synthetic[k].name)>>],
      other  |-> SetToSeq({Record(4, "len", e) : e \in {p \in DOMAIN file.enums : Front(p) = path}})]

\* The messages that the plugin writes classes for.
ClassesOf(request) == {t \in TypesOf(request) : t[2] \in MessagePaths(request[t[1]])}
InputOf(request, t) == DescriptorProto(request[t[1]], DescriptorOf(request[t[1]], t[2]))

ASSUME BindingAssumption ==
  /\ \A input \in HandMade : IsInput(input)
  /\ \A r \in {q \in Requests : Generated(q)} :
       \A t \in ClassesOf(r) : IsInput(InputOf(r, t)) /\ Distinct(MessageAt(r[t[1]], t[2]).fields)
  /\ \A r \in Requests \cup {Home[1]} :
       \A t \in TypesOf(r) : t[2] \in DOMAIN r[t[1]].enums => IsEnum(r[t[1]].enums[t[2]])
  /\ EnumNumbers \subseteq SInt(EnumBits)

-----------------------------------------------------------------------------
(* Linking. *)

\* Mutant of NeedsRef: a map needs no reference.
NeedsRef_NoMaps(y) == y.kind \in {"enum", "message"}

\* Whether decoding the field takes a class.
NeedsRef(y) == y.kind \in {"enum", "message"} \/ (y.kind = "map" /\ y.elem \in {"enum", "message"})

\* ref_fields: the numbers and the type names, in the order of the fields.
RefFields(fields) == SelectSeq(fields, LAMBDA y : NeedsRef(y) /\ y.typeName # None)

\* oneofs(): every group with its members in the order of the fields.
Oneofs(p) ==
  [g \in 1 .. Len(p.oneofs) |->
     LET members == SelectSeq(p.fields, LAMBDA y : y.oneof = g - 1)
     IN [group |-> p.oneofs[g], members |-> [k \in 1 .. Len(members) |-> members[k].name]]]

\* An attribute of a class: a nested type, or <<>> for any other there is, a
\* field or an enum value.
Attribute(type, attr) ==
  IF type \notin TypesOf(files) THEN None
  ELSE LET file == files[type[1]]
           path == Append(type[2], attr)
       IN IF path \in PathsOf(file) THEN <<type[1], path>>
          ELSE IF type[2] \in DOMAIN file.enums
            THEN IF \E v \in ToSet(file.enums[type[2]].values) : v[1] = attr THEN <<>> ELSE None
          ELSE IF \E y \in ToSet(MessageAt(file, type[2]).fields) : y.name = attr THEN <<>> ELSE None

\* What the segments from start on denote in the module of the class.
Denoted(qualified, start) ==
  LET names == Namespace(files, class[1]) IN
  IF qualified[start] \notin DOMAIN names THEN None
  ELSE FoldLeft(Attribute, <<names[qualified[start]], <<qualified[start]>> >>,
                SubSeq(qualified, start + 1, Len(qualified)))

\* Mutant of Resolve: the last segment decides.
Resolve_ShortFirst(qualified) ==
  LET starts == {s \in 1 .. Len(qualified) : Denoted(qualified, s) # None}
  IN IF starts = {} THEN LookupFailed
     ELSE Denoted(qualified, CHOOSE s \in starts : \A t \in starts : t <= s)

\* The first suffix of the name that denotes something.
Resolve(qualified) ==
  LET starts == {s \in 1 .. Len(qualified) : Denoted(qualified, s) # None}
  IN IF starts = {} THEN LookupFailed ELSE Denoted(qualified, Least(starts))

Own == MessageAt(files[class[1]], class[2])

\* A field number that is declared twice gets what its last field refers to.
Link ==
  /\ IsDescriptor(parsed) /\ refs = None
  /\ handMade \/ Importable(files, class[1], Own)
  /\ pyclass' \in IF handMade THEN HandClasses(parsed.fields) ELSE {GeneratedClass(files, Own)}
  /\ LET needed == RefFields(parsed.fields)
         resolved == [k \in 1 .. Len(needed) |-> Resolve(needed[k].typeName)]
     IN IF LookupFailed \in ToSet(resolved)
          THEN refs' = LookupFailed /\ UNCHANGED fast
          ELSE /\ refs' = [num \in {needed[k].num : k \in 1 .. Len(needed)} |->
                             resolved[SelectLastInSeq(needed, LAMBDA y : y.num = num)]]
               /\ fast' = FastInitDefaults(pyclass', parsed.fields)
  /\ UNCHANGED <<parseVars, bindVars, instance>>

-----------------------------------------------------------------------------
(* The end of decode, for descriptors that declare no number twice.         *)

LinkedEnum(num) ==
  LET t == refs[num] IN
  IF num \in DOMAIN refs /\ t \in TypesOf(files) /\ t[2] \in DOMAIN files[t[1]].enums
    THEN files[t[1]].enums[t[2]]
    ELSE None

\* An enum that is not linked stays a number; what is no enum cannot be called
\* with one, a message class without fields for instance.
EnumValue(num, number) ==
  IF num \notin DOMAIN refs THEN <<number>>
  ELSE IF LinkedEnum(num) # None THEN CoerceEnum(LinkedEnum(num), number)
  ELSE Raised

\* Accumulators are always there, other values if they were on the wire.
Values(present, number) ==
  [k \in 1 .. Len(parsed.fields) |->
     LET y == parsed.fields[k] IN
     IF y.kind = "map" THEN "dict"
     ELSE IF y.label = "repeated" THEN "list"
     ELSE IF k \notin present THEN Missing
     ELSE IF y.kind = "enum" THEN EnumValue(y.num, number) ELSE "seen"]

\* A plain subclass with a constructor of its own, which shares the descriptor.
Subclass(c) == [c EXCEPT !.dataclass = FALSE, !.custom = @ \cup {"init"}]

Construct ==
  /\ refs \notin {None, LookupFailed} /\ instance = None
  /\ \A j, k \in 1 .. Len(parsed.fields) : parsed.fields[j].num = parsed.fields[k].num => j = k
  /\ \E c \in {pyclass, Subclass(pyclass)},
        present \in SUBSET (1 .. Len(parsed.fields) \ Collections(parsed.fields)) :
     \E number \in IF \E k \in present : parsed.fields[k].kind = "enum" THEN EnumNumbers ELSE {None} :
       LET values == Values(present, number) IN
       instance' =
         [cls |-> c, values |-> values, present |-> present, number |-> number,
          made |-> IF \E k \in present : values[k] = Raised THEN Raised
                   ELSE IF c = pyclass /\ fast # None THEN ConstructFast(parsed.fields, fast, values)
                   ELSE CallClass(c, Kwargs(parsed.fields, values))]
  /\ UNCHANGED <<parseVars, bindVars, refs, pyclass, fast>>

-----------------------------------------------------------------------------
Compile == ParseStep /\ UNCHANGED <<bindVars, refs, pyclass, fast, instance>>

Init ==
  /\ refs = None /\ pyclass = None /\ fast = None /\ instance = None
  /\ \/ /\ handMade = FALSE
        /\ files \in {r \in Requests : Generated(r)}
        /\ class \in ClassesOf(files)
        /\ ParseInit(InputOf(files, class))
     \/ /\ handMade = TRUE
        /\ files = Home[1] /\ class = Home[2]
        /\ \E input \in HandMade : ParseInit(input)

Next == Compile \/ Link \/ Construct
Spec == Init /\ [][Next]_vars

-----------------------------------------------------------------------------
(* Properties. *)

FieldKind ==
  ({ScalarName[code] : code \in 1 .. 18} \ {"group"}) \cup {"timestamp", "duration", "map"}

\* The type of the state of parse_message and of what it returns.
TypeOK ==
  /\ DOMAIN todo = Tag
  /\ \A k \in 1 .. Len(raws) : raws[k].num \in UInt(NumberBits)
  /\ \A n \in DOMAIN entries : DOMAIN entries[n] = {"key", "elem", "typeName"}
  /\ IsDescriptor(parsed) => \A y \in ToSet(parsed.fields) : y.kind \in FieldKind

\* The field that the decoder finds for a number has a class once linked, even
\* if the number is declared twice; its own class, if it is not.
RefsComplete ==
  IsDescriptor(parsed) /\ refs \notin {None, LookupFailed} =>
    \A num \in UInt(NumberBits) :
      LET k == Get(Build(parsed.fields), num) IN
      k # 0 /\ {"enum", "message"} \cap {parsed.fields[k].kind, parsed.fields[k].elem} # {}
            /\ parsed.fields[k].typeName # None =>
        /\ num \in DOMAIN refs
        /\ IndexesOf(parsed.fields, num) = {k} => refs[num] = Resolve(parsed.fields[k].typeName)

-----------------------------------------------------------------------------
(* What the generated class says of itself against what was compiled for it. *)

\* Its constant was overwritten: message A { message b {} message B {} }.
ConstantTaken == DescriptorOf(files[class[1]], class[2]) # class[2]

\* A repeated message that has the last two segments of one of its map entries.
Twin(m) ==
  \E y, e \in ToSet(m.fields) :
    /\ y.card = "repeated" /\ y.type = TypeMessage
    /\ e.card = "map"
    /\ y.target[Len(y.target)] = e.entry /\ y.target[Len(y.target) - 1] = m.path[Len(m.path)]

\* A package has a segment that also names a class of the module.
Shadowed(m) ==
  \E full \in {y.target : y \in {z \in ToSet(m.fields) : IsNamedType(z)}} :
    ToSet(files[TypeIndex(files, full)[1]].package) \cap DOMAIN Namespace(files, class[1]) # {}

Faithful == ~ handMade /\ ~ ConstantTaken /\ ~ Twin(Own)

Shape(y) ==
  IF y.kind = "map" THEN "dict"
  ELSE CASE y.label = "repeated" -> "list" [] y.label = "optional" -> "none" [] y.label = "single" -> "zero"

KindOfType(y) ==
  IF y.target = TimestampName THEN "timestamp" ELSE IF y.target = DurationName THEN "duration"
  ELSE IF y.type = TypeEnum THEN "enum" ELSE IF y.type = TypeMessage THEN "message"
  ELSE Scalar[y.type]

\* The fields of the class and of its descriptor are the same, in their order,
\* with the same type, and the codec's label is what the default in the class
\* says: a dict for a map, a list, None for presence, a zero value.  It makes no
\* difference in which order the parts of the descriptor arrive.
ClassMatchesDescriptor ==
  Faithful /\ parsed # None =>
    /\ parsed # ParseError
    /\ Len(parsed.fields) = Len(Own.fields)
    /\ \A k \in 1 .. Len(Own.fields) :
         LET y == parsed.fields[k]
             declared == Own.fields[k]
         IN /\ y.name = declared.name /\ y.num = declared.num
            /\ Shape(y) = DefaultShape(declared)
            /\ KindOfType(declared) = IF y.kind = "map" THEN y.elem ELSE y.kind
            /\ y.kind = "map" => y.key = Scalar[declared.key]

\* oneofs() tells every group that was declared, at its place and with the fields
\* that were declared in it: an optional field is a member of none, and the
\* fields and the groups may come in any order.
OneofsRecovered ==
  Faithful /\ IsDescriptor(parsed) =>
    LET groups == Oneofs(parsed) IN
    /\ Len(Own.oneofs) <= Len(groups)
    /\ \A g \in 1 .. Len(groups) :
         LET members == SelectSeq(Own.fields, LAMBDA y : y.group = g - 1) IN
         /\ groups[g].members = [k \in 1 .. Len(members) |-> members[k].name]
         /\ g <= Len(Own.oneofs) => groups[g].group = Own.oneofs[g]

\* A class of the plugin always links, and its fields to the classes that their
\* annotations name.
RefsAsAnnotated ==
  Faithful /\ refs # None =>
    /\ refs # LookupFailed
    /\ ~ Shadowed(Own) =>
         refs = [num \in {y.num : y \in {z \in ToSet(Own.fields) : IsNamedType(z)}} |->
                   Annotated(files, class[1], Own.fields[FirstDeclared(Own.fields, num)])]

\* A name in a class body stands for something else than at the module's level.
BodyShadowed(m, k) ==
  LET path == TypeIndex(files, m.fields[k].target)[2]
  IN Len(path) = 1 /\ m.path \o path \in PathsOf(files[class[1]])

\* An enum field that is absent from the wire is a member of the same enum as
\* one that is present.
DefaultsOfLinkedEnum ==
  Faithful /\ refs \notin {None, LookupFailed} /\ ~ Shadowed(Own) =>
    \A k \in 1 .. Len(Own.fields) :
      LET y == Own.fields[k] IN
      DefaultShape(y) = "zero" /\ y.type = TypeEnum /\ ~ BodyShadowed(Own, k) =>
        DefaultEnum(files, class[1], Own, k) = refs[y.num]

\* The docstring of _collect_constants: a class body refers to its own constant.
DescribesItsClass ==
  ~ handMade /\ IsDescriptor(parsed) =>
    parsed.name = Own.path[Len(Own.path)]
      /\ [k \in 1 .. Len(parsed.fields) |-> parsed.fields[k].name]
           = [k \in 1 .. Len(Own.fields) |-> Own.fields[k].name]

\* The comment at oneofs() in message/mod.rs: synthetic groups "are already
\* excluded by the parser, so only user-written `oneof` groups appear here".
OnlyUserOneofs ==
  Faithful /\ IsDescriptor(parsed) => Len(Oneofs(parsed)) = Len(Own.oneofs)

-----------------------------------------------------------------------------
(* Instances. *)

\* proto3 enums are open: a number from the wire is what a call of the enum
\* makes of it, or stays a number if the enum has no such member, whichever of
\* the table, the dict and the call serves it.
EnumsOpen ==
  instance # None =>
    \A k \in instance.present :
      LET enum == LinkedEnum(parsed.fields[k].num) IN
      parsed.fields[k].kind = "enum" /\ enum # None =>
        instance.values[k] = OpenEnum(enum, instance.number)

Called == CallClass(instance.cls, Kwargs(parsed.fields, instance.values))

\* An instance that decode made without calling the class is the one that the
\* call would have made, hooks included, unless the class is a dataclass with an
\* __init__ of its own.
MadeAsCalled ==
  \/ instance.made = Called
  \/ Raised \in {instance.values[k] : k \in instance.present}
  \/ instance.cls = pyclass /\ "init" \in pyclass.custom

\* Whatever class a descriptor is bound to, decode makes the instance that a call
\* would, and a class of the plugin can be made from any choice of fields on the
\* wire.
ConstructedAsCalled ==
  instance # None =>
    /\ MadeAsCalled
    /\ Faithful /\ ~ Shadowed(Own) => instance.made # Raised

\* The docstring of _fast_init_defaults: "Anything else returns None and decode
\* calls the class normally", and its constructor is honored then.
ConstructorHonored ==
  instance # None /\ instance.made # Raised => instance.cls.custom \subseteq instance.made.ran
=============================================================================
