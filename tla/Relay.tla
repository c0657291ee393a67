------------------------------- MODULE Relay -------------------------------
(***************************************************************************)
(* A message travels through programs that know different versions of its  *)
(* schema: each one decodes what it gets into an instance of its own class *)
(* and encodes that instance again.                                        *)
(***************************************************************************)
EXTENDS Decoder, Encoder

CONSTANTS
  Paths,      \* the classes that the programs on a path decode into
  Streams,    \* path -> what its first program may get
  Instances,  \* what a first program may have built itself
  Invalid,    \* the instances among them that are no messages
  Displaced   \* those with a datetime that UTC puts before year 1 or after 9999

VARIABLES
  path,       \* the class that each program decodes into
  streams,    \* the messages on the wire so far
  insts,      \* the instances so far: insts[k] was decoded from streams[k]
  raised      \* the exception that from_bytes() or to_bytes() raised, or None

relayVars == <<path, streams, insts, raised>>
vars == <<decVars, encVars, relayVars>>

Idle == dec = <<>> /\ enc = <<>> /\ decoded = None /\ encoded = None /\ raised = None

Init ==
  /\ path \in Paths
  /\ dec = <<>> /\ decoded = None
  /\ enc = <<>> /\ encoded = None
  /\ raised = None
  /\ \/ insts = <<>> /\ \E s \in Streams[path] : streams = <<s>>
     \/ streams = <<None>> /\ \E m \in Instances : m.cls = path[1] /\ insts = <<m>>

FromBytes ==
  /\ Idle
  /\ Len(streams) = Len(insts) + 1
  /\ Len(insts) < Len(path)
  /\ Start(path[Len(insts) + 1], streams[Len(streams)])
  /\ UNCHANGED <<encVars, relayVars>>

ToBytes ==
  /\ Idle
  /\ Len(streams) = Len(insts)
  /\ StartEncode(insts[Len(insts)])
  /\ UNCHANGED <<decVars, relayVars>>

Decoded ==
  /\ decoded # None
  /\ decoded' = None
  /\ IF decoded \in {ValueError, OverflowError}
       THEN raised' = decoded /\ UNCHANGED insts
       ELSE insts' = Append(insts, decoded) /\ UNCHANGED raised
  /\ UNCHANGED <<dec, encVars, path, streams>>

Encoded ==
  /\ encoded # None
  /\ encoded' = None
  /\ IF encoded = ValueError
       THEN raised' = encoded /\ UNCHANGED streams
       ELSE streams' = Append(streams, encoded) /\ UNCHANGED raised
  /\ UNCHANGED <<enc, decVars, path, insts>>

Next ==
  \/ FromBytes \/ ToBytes \/ Decoded \/ Encoded
  \/ DecodeStep /\ UNCHANGED <<encVars, relayVars>>
  \/ EncodeStep /\ UNCHANGED <<decVars, relayVars>>

Spec == Init /\ [][Next]_vars

\* A call into the native codec runs to its end: nothing it does waits.
FairSpec == Spec /\ WF_vars(Next)

-----------------------------------------------------------------------------
(* Properties. *)

\* A value that a field of kind x.kind may hold, nested messages not entered.
IsValue(x, v) ==
  CASE x.kind \in {"int", "fixed", "enum"} -> v \in Nat
    [] x.kind = "text"                     -> AreChars(v)
    [] x.kind \in Time                     -> v \in Int
    [] x.kind = "message"                  -> v.cls = x.ref

IsMap(x, pairs) ==
  /\ \A k \in 1 .. Len(pairs) : \A side \in {1, 2} : IsValue(EntryFields(x)[side], pairs[k][side])
  /\ \A j, k \in 1 .. Len(pairs) : pairs[j][1] = pairs[k][1] => j = k

IsField(x, v) ==
  IF x.kind = "map" THEN IsMap(x, v)
  ELSE IF x.label = "repeated" THEN \A k \in 1 .. Len(v) : IsValue(x, v[k])
  ELSE IF x.label = "optional" /\ v = None THEN TRUE
  ELSE IsValue(x, v)

\* An instance that the constructor of its class could have made.
Typed(inst) == \A n \in 1 .. Len(Fields[inst.cls]) : IsField(Fields[inst.cls][n], inst.vals[n])

ASSUME RelayAssumption ==
  /\ Paths \subseteq Seq(Class)
  /\ \A p \in Paths : \A s \in Streams[p] : s \in Seq(ToSet(s))
  /\ \A m \in Instances : m.cls \in Class /\ Typed(m) /\ m.unknown \in Seq(ToSet(m.unknown))

\* What the decoder returns is what the constructor of the class could have
\* made, whatever was missing on the wire: no None in a plain field or inside
\* a map, values of the kind of their field, a map's keys all different.
InstancesTyped ==
  \A k \in 1 .. Len(insts) : Typed(insts[k])

\* The list of a repeated field and the dict of a map are there for as long as
\* their message is decoded, even if the schema puts them in a oneof: the
\* decoder unwraps them without a check.
AccumulatorsKept ==
  \A k \in 1 .. Len(dec) : \A n \in 1 .. Len(dec[k].fields) :
    Unseen(dec[k].fields[n]) # None => dec[k].vals[n] # None

\* No message nests deeper than MaxDepth in a decoder or an encoder, not even
\* through the values of maps.
DepthBounded ==
  /\ \A k \in 1 .. Len(dec) : dec[k].depth <= MaxDepth
  /\ \A k \in 1 .. Len(enc) : enc[k].depth <= MaxDepth

\* Whatever members of a oneof a message sets, in whatever order and however
\* often, at most one of them holds a value in the decoder: the instance can
\* always be encoded again.
OneofExclusive ==
  \A k \in 1 .. Len(dec) : \A g \in Group :
    ~ dec[k].entry => Cardinality({n \in Members(dec[k].cls, g) : dec[k].vals[n] # None}) <= 1

\* oneofs() and which_oneof: the first member that holds a value.
WhichOneof(inst, g) ==
  LET set == {k \in 1 .. Len(Fields[inst.cls]) :
                Fields[inst.cls][k].oneof = g /\ inst.vals[k] # None}
  IN IF set = {} THEN 0 ELSE Min(set)

\* No field of a oneof is repeated: protoc makes no other descriptors.
Proper(c) == \A k \in 1 .. Len(Fields[c]) : Fields[c][k].oneof # None => Fields[c][k].label = "optional"

\* "Last one on the wire wins": the member that which_oneof reports is the one
\* of the last record of its group.
LastWins ==
  (streams[1] # None /\ insts # <<>> /\ Proper(insts[1].cls)) => \A g \in Group :
    LET c == insts[1].cls
        Sets(rc) == LET n == FirstDeclared(Fields[c], rc.num)
                    IN n \in Members(c, g) /\ Accepts(Fields[c][n], rc.wire)
        k == SelectLastInSeq(streams[1], Sets)
    IN WhichOneof(insts[1], g) = IF k = 0 THEN 0 ELSE FirstDeclared(Fields[c], streams[1][k].num)

\* Class c has a field for this record, and takes its wire type.
Knows(c, rc) ==
  LET n == FirstDeclared(Fields[c], rc.num) IN n # 0 /\ Accepts(Fields[c][n], rc.wire)

\* The records of a message that class c does not know, in their order.
UnknownTo(c, s) ==
  LET upTo[k \in 0 .. Len(s)] ==
        IF k = 0 THEN <<>> ELSE IF Knows(c, s[k]) THEN upTo[k - 1] ELSE Append(upTo[k - 1], s[k])
  IN upTo[Len(s)]

\* No number is declared twice: protoc makes no other descriptors, and the
\* encoder would write a second field that the decoder does not look for.
Distinct(c) == \A j, k \in 1 .. Len(Fields[c]) : Fields[c][j].num = Fields[c][k].num => j = k

\* What a program's schema does not know it passes on verbatim and in order:
\* fields that it lacks, and fields that came with another wire type.
UnknownKept ==
  \A k \in 1 .. Len(insts) :
    (streams[k] # None /\ Len(streams) > k /\ Distinct(insts[k].cls)) =>
      UnknownTo(insts[k].cls, streams[k + 1]) = UnknownTo(insts[k].cls, streams[k])

\* Two programs with the same schema see the same message, whatever older
\* schema the one between them has: no field gets lost, reordered or merged on
\* the way, and none comes back changed from its own bytes.
SameForAll ==
  \A j, k \in 1 .. Len(insts) : insts[j].cls = insts[k].cls => insts[j] = insts[k]

\* What the payload of a time says, in nanoseconds.
Nanos(p) == DecodeParts(p).secs * NanosPerSecond + DecodeParts(p).nanos
Magnitude(n) == IF n < 0 THEN - n ELSE n
LeastNanos == - (2 ^ (NanosBits - 1))

\* The last payload of field num, if there is one.
LastPayload(s, num) == SelectLastInSeq(s, LAMBDA rc : rc.num = num /\ rc.wire = "len")

\* A time is less than a microsecond away from what a payload says, and the
\* payload says something that protobuf allows, or has the least nanoseconds.
ExactTime(kind, p, time) ==
  /\ Magnitude(time * NanosPerMicro - Nanos(p)) < NanosPerMicro
  /\ kind = "timestamp" =>
       Nanos(p) >= TsMin * NanosPerSecond /\ Nanos(p) < (TsMax + 1) * NanosPerSecond
  /\ kind = "duration" =>
       \/ Magnitude(Nanos(p)) < (DurationMax + 1) * NanosPerSecond
       \/ DecodeParts(p).nanos = LeastNanos

\* "Only sub-microsecond precision is lost": a datetime or timedelta is less
\* than a microsecond away from what the wire says, and the wire says something
\* that protobuf allows.  The exception is a Duration whose nanoseconds are the
\* least 32-bit integer, which a release build takes for in range.  A field that
\* another member of its oneof has cleared holds no time.
TimesExact ==
  (streams[1] # None /\ insts # <<>>) => \A n \in 1 .. Len(Fields[insts[1].cls]) :
    LET x == Fields[insts[1].cls][n]
        k == LastPayload(streams[1], x.num)
        time == insts[1].vals[n]
    IN (/\ x.kind \in Time /\ x.label = "optional" /\ k # 0
        /\ FirstDeclared(Fields[insts[1].cls], x.num) = n
        /\ ~ (x.oneof # None /\ time = None)) => ExactTime(x.kind, streams[1][k].val, time)

\* The values that a field holds, one by one: those of a map without the keys.
Held(x, v) ==
  IF x.kind = "map" THEN {v[k][2] : k \in 1 .. Len(v)}
  ELSE IF x.label = "repeated" THEN ToSet(v)
  ELSE {v} \ {None}
HeldKind(x) == IF x.kind = "map" THEN x.elem ELSE x.kind

\* What the fields of some kind hold in an instance.
HeldIn(inst, kind) ==
  UNION {Held(Fields[inst.cls][n], inst.vals[n]) :
           n \in {n \in 1 .. Len(Fields[inst.cls]) : HeldKind(Fields[inst.cls][n]) = kind}}

\* A message with a timedelta that timedelta_to_parts refuses, however deep.
TooLong(inst) ==
  LET within[d \in 0 .. MaxDepth] ==
        IF d = 0 THEN {inst} ELSE UNION {HeldIn(m, "message") : m \in within[d - 1]}
  IN \E d \in 0 .. MaxDepth : \E m \in within[d] : \E t \in HeldIn(m, "duration") :
       Magnitude(t) >= (DurationMax + 1) * MicrosPerSecond

\* Once a message has been accepted it is accepted all along the path, and a
\* program can always write what it has read.  The exception is a timedelta that
\* out of range nanoseconds have made too long, although tests/test_fuzz.py says
\* "Whatever the decoder accepts, the encoder must be able to serialize".
AcceptedStaysAccepted ==
  (raised # None /\ streams[1] # None) => insts = <<>> \/ TooLong(insts[1])

\* A program can write the instances it has built, and all the others can read
\* them, unless two members of a oneof are set in it, a timedelta is too long
\* or it nests too deep.  A datetime with an offset that is out of range in UTC
\* can be written, but no program with that field can read it.
InvalidRefused ==
  streams[1] = None =>
    /\ raised # None => \/ insts = <<insts[1]>> /\ insts[1] \in Invalid
                        \/ Len(streams) > 1 /\ insts[1] \in Displaced
    /\ Len(streams) > 1 => insts[1] \notin Invalid
    /\ (Len(insts) > 1 /\ insts[Len(insts)].cls = insts[1].cls) => insts[1] \notin Displaced

\* Every call returns.
Terminates == <> (raised # None \/ Len(streams) = Len(path) + 1)

-----------------------------------------------------------------------------
(* What the documentation says. *)

\* wellknown/mod.rs: "Out-of-range wire values would otherwise overflow the
\* Python datetime/timedelta constructors with an OverflowError", and
\* tests/test_wellknown.py: they "must raise ValueError".
NoOverflowError == raised # OverflowError
=============================================================================
