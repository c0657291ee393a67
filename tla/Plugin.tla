------------------------------- MODULE Plugin -------------------------------
(***************************************************************************)
(* The protoc plugin: what it reads out of the files of a request, and     *)
(* the parts of the modules it writes that meaning depends on.             *)
(*                                                                         *)
(* A file is its package, its messages in the order of the file, every     *)
(* one before those nested in it, and its enums as Construction has them.   *)
(* A type is <<f, path>>: the file that defines it and its path in there.   *)
(***************************************************************************)
EXTENDS Construction

CONSTANTS
  Words,    \* of a name: its parts between underscores, in upper case
  Broken    \* what a statement that raises an exception leaves

NativeWKT == {TimestampName, DurationName}

\* The names of the scalar types by their code.
Scalar ==
  (1 :> "double" @@ 2 :> "float" @@ 3 :> "int64" @@ 4 :> "uint64" @@ 5 :> "int32" @@
   6 :> "fixed64" @@ 7 :> "fixed32" @@ 8 :> "bool" @@ 9 :> "string" @@ 12 :> "bytes" @@
   13 :> "uint32" @@ 15 :> "sfixed32" @@ 16 :> "sfixed64" @@ 17 :> "sint32" @@ 18 :> "sint64")

MessagePaths(file) == {file.messages[k].path : k \in 1 .. Len(file.messages)}
PathsOf(file) == MessagePaths(file) \cup DOMAIN file.enums
MessageAt(file, path) == file.messages[SelectInSeq(file.messages, LAMBDA m : m.path = path)]
FullNameOf(file, path) == <<"">> \o file.package \o path

-----------------------------------------------------------------------------
(* TypeIndex. *)

TypesOf(files) == UNION {{<<f, path>> : path \in PathsOf(files[f])} : f \in DOMAIN files}
TypeIndex(files, full) ==
  CHOOSE t \in TypesOf(files) : FullNameOf(files[t[1]], t[2]) = full

\* A field, or a map's value, whose type is a generated class.
IsNamedType(y) == y.type \in {TypeMessage, TypeEnum} /\ y.target \notin NativeWKT
HasPresence(y) == y.card = "optional" \/ y.group # None

-----------------------------------------------------------------------------
(* The names of a module: its own classes and those it imports. *)

Referenced(file) ==
  UNION {{y.target : y \in {z \in ToSet(m.fields) : IsNamedType(z)}} : m \in ToSet(file.messages)}

OwnNames(files, f) == {<<f, path[1]>> : path \in PathsOf(files[f])}
Imports(files, f) ==
  LET types == {TypeIndex(files, full) : full \in Referenced(files[f])}
  IN {<<t[1], t[2][1]>> : t \in {u \in types : u[1] # f}}

\* Two types would have one name in the module.
ShortNameCollision(files, f) ==
  \E a, b \in OwnNames(files, f) \cup Imports(files, f) : a # b /\ a[2] = b[2]

Generated(files) == \A f \in DOMAIN files : ~ ShortNameCollision(files, f)

\* The namespace: for every name the file of the class.
Namespace(files, f) ==
  LET names == OwnNames(files, f) \cup Imports(files, f)
  IN [n \in {a[2] : a \in names} |-> (CHOOSE a \in names : a[2] = n)[1]]

-----------------------------------------------------------------------------
(* The constants that hold the descriptors. *)

DescriptorConstName(path) == FlattenSeq([k \in 1 .. Len(path) |-> Words[path[k]]])

\* The constants of a top-level message and of all nested in it are assigned
\* before its classes are made: a class gets what its constant holds by then.
DescriptorOf(file, path) ==
  LET tree == SelectSeq(file.messages, LAMBDA m : m.path[1] = path[1])
  IN tree[SelectLastInSeq(tree, LAMBDA m : DescriptorConstName(m.path) = DescriptorConstName(path))].path

-----------------------------------------------------------------------------
(* The fields of a class. *)

\* What a field holds in a new instance: a dict, a list, None or a zero value.
DefaultShape(y) ==
  IF y.card = "map" THEN "dict"
  ELSE IF y.card = "repeated" THEN "list"
  ELSE IF y.target \in NativeWKT \/ y.type = TypeMessage \/ HasPresence(y) THEN "none"
  ELSE "zero"

\* Mutant of Qualified: the path without the enclosing messages.
Qualified_Short(files, y) == <<TypeIndex(files, y.target)[2][Len(TypeIndex(files, y.target)[2])]>>

Qualified(files, y) == TypeIndex(files, y.target)[2]

\* The class that the qualified name denotes at the module's level.
Annotated(files, f, y) ==
  LET path == Qualified(files, y) IN
  IF path[1] \in DOMAIN Namespace(files, f) THEN <<Namespace(files, f)[path[1]], path>> ELSE Broken

\* The enum whose zero is the default of field k of m.  The name of a top-level
\* enum is read in the class body, after the nested types and the fields above.
DefaultEnum(files, f, m, k) ==
  LET path == Qualified(files, m.fields[k]) IN
  IF Len(path) > 1 THEN Annotated(files, f, m.fields[k])
  ELSE IF \E j \in 1 .. k - 1 : m.fields[j].name = path[1] THEN Broken
  ELSE IF m.path \o path \in PathsOf(files[f]) THEN <<f, m.path \o path>>
  ELSE Annotated(files, f, m.fields[k])

\* A class body that raises an exception leaves no class.
Importable(files, f, m) ==
  \A k \in 1 .. Len(m.fields) :
    m.fields[k].type = TypeEnum /\ DefaultShape(m.fields[k]) = "zero" => DefaultEnum(files, f, m, k) # Broken

\* The zero of a nested enum comes from a factory.
DataclassField(files, y) ==
  LET shape == DefaultShape(y)
      deferred == shape \in {"dict", "list"} \/ (shape = "zero" /\ y.type = TypeEnum /\ Len(Qualified(files, y)) > 1)
  IN [name |-> y.name, init |-> TRUE,
      default |-> IF deferred THEN Missing ELSE IF shape = "none" THEN None ELSE shape,
      factory |-> IF deferred THEN shape ELSE Missing]

GeneratedClass(files, m) ==
  [dataclass |-> TRUE, frozen |-> FALSE, custom |-> {},
   fields |-> [k \in 1 .. Len(m.fields) |-> DataclassField(files, m.fields[k])]]
=============================================================================
