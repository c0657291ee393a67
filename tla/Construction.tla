---------------------------- MODULE Construction ----------------------------
(***************************************************************************)
(* How decode makes Python values: enum members from numbers, through a    *)
(* table and a dict that were taken from the enum when it was linked, and  *)
(* instances of message classes, without a call of the class where it was  *)
(* found to be a plain dataclass.                                          *)
(*                                                                         *)
(* An enum is [values, missing]: its pairs of name and number in order,    *)
(* and what a _missing_ of its own returns, or None; a member is such a    *)
(* pair, and a number that is none stays <<number>>.  A class is           *)
(* [dataclass, frozen, custom, fields]: whether it is a dataclass itself,  *)
(* which of "init", "post_init", "new" and "call" are not the standard     *)
(* ones, and its dataclass fields [name, init, default, factory].          *)
(***************************************************************************)
EXTENDS Casts, ProtoTypes

CONSTANTS
  TableSize,    \* ENUM_TABLE_SIZE
  EnumBits,     \* width of an enum number
  Missing,      \* MISSING of dataclasses; also "not seen on the wire"
  Raised        \* an exception

ASSUME ConstructionAssumption ==
  /\ EnumBits \in Nat \ {0}
  /\ 2 ^ (EnumBits - 1) \in Nat \ {0} /\ 2 ^ EnumBits = 2 * 2 ^ (EnumBits - 1)
  /\ TableSize \in 0 .. 2 ^ (EnumBits - 1)
  /\ Missing \notin {"dict", "list"}

\* Enums and classes as Python has them: a member is not what stands for none,
\* and of two fields of one name a dataclass has the last.
IsEnum(enum) ==
  /\ enum.values \in Seq(ToSet(enum.values))
  /\ \A v \in ToSet(enum.values) : v[2] \in SInt(EnumBits) /\ v \notin {None, Raised}
  /\ enum.missing # Raised

Distinct(fields) ==
  /\ fields \in Seq(ToSet(fields))
  /\ \A j, k \in 1 .. Len(fields) : fields[j].name = fields[k].name => j = k

IsClass(cls) == cls.custom \subseteq {"init", "post_init", "new", "call"} /\ Distinct(cls.fields)

-----------------------------------------------------------------------------
(* Enum members. *)

\* _value2member_map_: of two names for one number the first is the member.
MemberMap(enum) ==
  [number \in {v[2] : v \in ToSet(enum.values)} |->
     enum.values[SelectInSeq(enum.values, LAMBDA v : v[2] = number)]]

\* Calling an enum with a number.
CallEnum(enum, number) ==
  IF number \in DOMAIN MemberMap(enum) THEN MemberMap(enum)[number]
  ELSE IF enum.missing # None THEN enum.missing ELSE Raised

\* The same, except that an open enum keeps what is no member.
OpenEnum(enum, number) ==
  IF CallEnum(enum, number) = Raised THEN <<number>> ELSE CallEnum(enum, number)

BuildLinkedRef(enum) ==
  LET members == MemberMap(enum) IN
  IF enum.missing # None THEN [map |-> None, table |-> None]
  ELSE [map |-> members,
        table |-> [slot \in 0 .. TableSize - 1 |-> IF slot \in DOMAIN members THEN members[slot] ELSE None]]

\* Mutant of CoerceEnum: the cast is to the width of the table.
CoerceEnum_Wraps(enum, number) ==
  LET ref == BuildLinkedRef(enum)
      slot == number % TableSize
  IN IF ref.table # None THEN IF ref.table[slot] # None THEN ref.table[slot] ELSE <<number>>
     ELSE OpenEnum(enum, number)

\* A negative number is past the table when it is cast to usize.
CoerceEnum(enum, number) ==
  LET ref == BuildLinkedRef(enum)
      slot == AsUnsigned(number, EnumBits)
  IN IF ref.table # None /\ slot \in DOMAIN ref.table
       THEN IF ref.table[slot] # None THEN ref.table[slot] ELSE <<number>>
     ELSE IF ref.map # None
       THEN IF number \in DOMAIN ref.map THEN ref.map[number] ELSE <<number>>
     ELSE OpenEnum(enum, number)

-----------------------------------------------------------------------------
(* Instances: their attributes, and which custom hooks made them. *)

IndexOfName(fields, n) == SelectInSeq(fields, LAMBDA f : f.name = n)
Collections(fields) == {k \in 1 .. Len(fields) : fields[k].kind = "map" \/ fields[k].label = "repeated"}

Supported(cls, fields) ==
  /\ cls.dataclass
  /\ ~ cls.frozen
  /\ cls.custom \cap {"call", "new", "post_init"} = {}
  /\ [k \in 1 .. Len(cls.fields) |-> cls.fields[k].name] = [k \in 1 .. Len(fields) |-> fields[k].name]

\* Mutant of Placeholder: what the dataclass says is believed.
Placeholder_AnyField(f, k, fields) == f.init /\ f.factory \in {"list", "dict"}

\* The field's default is never consulted.
Placeholder(f, k, fields) == f.init /\ f.factory \in {"list", "dict"} /\ k \in Collections(fields)

\* The defaults by which decode may fill a new instance, or None.
FastInitDefaults(cls, fields) ==
  LET HasDefault(f) == f.init /\ f.default # Missing
      usable == \A k \in 1 .. Len(cls.fields) :
                  HasDefault(cls.fields[k]) \/ Placeholder(cls.fields[k], k, fields)
  IN IF ~ Supported(cls, fields) \/ ~ usable THEN None
     ELSE [k \in 1 .. Len(fields) |-> IF HasDefault(cls.fields[k]) THEN cls.fields[k].default ELSE None]

\* Calling a class whose constructor, custom or not, takes keyword arguments.
CallClass(cls, kwargs) ==
  LET Named(n) == cls.fields[IndexOfName(cls.fields, n)]
      names == {f.name : f \in ToSet(cls.fields)}
      Given(n) == IF Named(n).default # Missing THEN Named(n).default ELSE Named(n).factory
  IN IF \/ \E n \in DOMAIN kwargs : n \notin names \/ ~ Named(n).init
        \/ \E n \in names \ DOMAIN kwargs : Named(n).init /\ Given(n) = Missing
       THEN Raised
       ELSE [attrs |-> [n \in names |-> IF n \in DOMAIN kwargs THEN kwargs[n] ELSE Given(n)],
             ran |-> cls.custom]

\* The last of several values for one name stays.
Kwargs(fields, values) ==
  LET seen == {k \in 1 .. Len(fields) : values[k] # Missing}
  IN [n \in {fields[k].name : k \in seen} |->
        values[CHOOSE k \in seen : fields[k].name = n /\ \A j \in seen : fields[j].name = n => j <= k]]

\* object.__new__ and a setattr for every field.
ConstructFast(fields, defaults, values) ==
  [attrs |-> [n \in {fields[k].name : k \in 1 .. Len(fields)} |->
                LET k == IndexOfName(fields, n)
                IN IF values[k] # Missing THEN values[k] ELSE defaults[k]],
   ran |-> {}]
=============================================================================
