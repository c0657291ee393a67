------------------------------ MODULE MCRelay ------------------------------
(***************************************************************************)
(* Two versions of one schema.  New has a plain integer, a oneof of a text *)
(* and an integer, a packed list, a submessage of its own class, a map to  *)
(* submessages, an enum, a timestamp, a list of submessages, a duration    *)
(* and a map to durations.  Old knows the oneof's integer only, has a      *)
(* single integer where New has the packed list, and lacks all from the    *)
(* enum on.  Odd is New with the packed list as a third member of the      *)
(* oneof, a descriptor that protoc cannot make.                            *)
(***************************************************************************)
EXTENDS Dicts

CONSTANTS New, Old, Odd, Choice, MaxRecords

F(num, label, kind) ==
  [num |-> num, label |-> label, kind |-> kind, oneof |-> None, ref |-> None,
   key |-> None, elem |-> None]
InOneof(y) == [y EXCEPT !.oneof = Choice]
Ref(y, c) == [y EXCEPT !.ref = c]
MapTo(num, elem, c) == [F(num, "single", "map") EXCEPT !.key = "int", !.elem = elem, !.ref = c]

NewFields(c) ==
  <<F(1, "single", "int"),
    InOneof(F(2, "optional", "text")),
    InOneof(F(3, "optional", "int")),
    F(4, "repeated", "int"),
    Ref(F(5, "optional", "message"), c),
    MapTo(6, "message", c),
    F(7, "single", "enum"),
    F(8, "optional", "timestamp"),
    Ref(F(10, "repeated", "message"), c),
    F(11, "optional", "duration"),
    MapTo(12, "duration", None)>>

OldFields ==
  <<F(1, "single", "int"),
    InOneof(F(3, "optional", "int")),
    F(4, "single", "int"),
    Ref(F(5, "optional", "message"), Old),
    MapTo(6, "message", Old)>>

MCClass == {New, Old, Odd}
MCFields ==
  [c \in MCClass |-> CASE c = New -> NewFields(New)
                       [] c = Odd -> [NewFields(Odd) EXCEPT ![4] = InOneof(@)]
                       [] c = Old -> OldFields]
MCGroup == {Choice}
FirstSecond == -2
MCPaths == {<<New, Old, New>>, <<Odd, Old, Odd>>}

-----------------------------------------------------------------------------
A == <<[chr |-> "a"]>>
Bits(n) == [bits |-> n]
Garbage == <<[garbage |-> 0]>>
V(num, n) == Record(num, "varint", n)
L(num, p) == Record(num, "len", p)

\* Records of New: known, of the wrong wire type, unknown or malformed.
Core == {
  V(1, 2), L(2, A), V(2, 1), V(3, 0), L(4, <<Bits(1), Bits(2)>>), V(4, 1),
  L(5, <<V(3, 1), L(2, A), V(9, 1)>>),
  L(6, <<V(1, 1), L(2, <<L(2, A)>>), V(3, 1)>>), L(6, <<V(1, 1), V(2, 1)>>),
  L(10, <<V(1, 2)>>), V(9, 1) }
MCRecords == Core \cup {
  V(1, 0), L(2, <<>>), V(3, 1), Record(4, "i32", 1),
  L(5, <<>>), L(5, <<L(5, <<>>)>>),
  L(5, <<L(5, <<L(5, <<>>)>>)>>), L(6, <<L(2, <<L(5, <<L(5, <<>>)>>)>>)>>), L(6, <<>>),
  V(7, 2), L(8, <<V(1, 2), V(2, 3)>>), L(8, <<V(1, 5)>>), V(10, 1),
  L(12, <<V(1, 1)>>), L(12, <<V(1, 1), L(2, <<V(1, 1), V(3, 1)>>)>>), L(12, <<L(2, <<V(1, 9)>>)>>),
  L(4, Garbage), L(5, Garbage), L(11, Garbage) }

\* Every Timestamp and Duration there is, nanoseconds wider than NanosBits only
\* at the ends of their range.
Times ==
  {<<L(num, <<V(1, s), V(2, n)>>)>> :
     num \in {8, 11}, s \in UInt(SecondsBits),
     n \in UInt(NanosBits) \cup {2 ^ NanosBits, 2 ^ SecondsBits - 1}}

\* The longest Durations inside a submessage, messages of a list and a map, and
\* as values of a map.
Longest ==
  LET P(s, n) == <<V(1, s), V(2, n)>>
      In(p) == {L(5, <<L(11, p)>>), L(10, <<L(11, p)>>), L(6, <<L(2, <<L(11, p)>>)>>), L(12, <<L(2, p)>>)}
  IN {<<y>> : y \in UNION {In(P(s, n)) : s \in {DurationMax, 2 ^ SecondsBits - DurationMax},
                                           n \in UInt(NanosBits)}}

MCStreams ==
  [p \in MCPaths |->
     (UNION {[1 .. n -> MCRecords] : n \in 0 .. 2})
       \cup (IF p[1] = New THEN [1 .. MaxRecords -> Core] \cup Times \cup Longest ELSE {})]

-----------------------------------------------------------------------------
\* Instances of New that a program may build.
Blank == [k \in 1 .. 11 |-> IF k \in {4, 6, 9, 11} THEN <<>> ELSE IF k \in {1, 7} THEN 0 ELSE None]
Make(vals) == [cls |-> New, vals |-> vals, unknown |-> <<>>]
Inside == {Make(Blank), Make([Blank EXCEPT ![2] = <<>>]), Make([Blank EXCEPT ![2] = A, ![3] = 1])}
Around(set) == {Make([Blank EXCEPT ![5] = m]) : m \in set}
Outside == Around(Inside)

\* datetimes with and without an offset, and timedeltas.
Datetimes ==
  {Instant(local, offset) : local \in TsMin * MicrosPerSecond .. (TsMax + 1) * MicrosPerSecond - 1,
                            offset \in {-1, 0, 2}}
Timedeltas == - (TimedeltaMax * MicrosPerSecond) .. TimedeltaMax * MicrosPerSecond
Timed ==
  {Make([Blank EXCEPT ![8] = t]) : t \in Datetimes}
    \cup {Make([Blank EXCEPT ![10] = d]) : d \in Timedeltas}
    \cup {Make([Blank EXCEPT ![11] = << <<0, d>>, <<1, 1>> >>]) : d \in Timedeltas}

\* Every value of the plain fields, and every nesting of the other two.
MCInstances ==
  {Make([[[[[Blank EXCEPT ![1] = a] EXCEPT ![2] = b] EXCEPT ![3] = c] EXCEPT ![4] = d]
           EXCEPT ![7] = n]) :
     a \in {0, 1}, b \in {None, <<>>, A}, c \in {None, 0}, d \in {<<>>, <<0, 1>>}, n \in {0, 2}}
  \cup
  {Make([[[Blank EXCEPT ![5] = e] EXCEPT ![6] = m] EXCEPT ![9] = l]) :
     e \in {None} \cup Inside \cup Outside \cup Around(Outside),
     m \in {<<>>} \cup {<< <<1, y>> >> : y \in Inside \cup Outside}
           \cup {<< <<2, Make(Blank)>>, <<0, Make(Blank)>> >>},
     l \in {<<>>, <<Make(Blank), Make([Blank EXCEPT ![1] = 1])>>} \cup {<<y>> : y \in Outside}}
  \cup Timed

\* The messages that m holds, one, two and three levels below itself.
Below1(m) == ({m.vals[5]} \ {None}) \cup {m.vals[6][k][2] : k \in 1 .. Len(m.vals[6])}
               \cup {m.vals[9][k] : k \in 1 .. Len(m.vals[9])}
Below2(m) == UNION {Below1(y) : y \in Below1(m)}
Below3(m) == UNION {Below1(y) : y \in Below2(m)}
Wrong(m) ==
  \/ m.vals[2] # None /\ m.vals[3] # None
  \/ \E d \in {m.vals[10]} \cup {m.vals[11][k][2] : k \in 1 .. Len(m.vals[11])} :
       d # None /\ Magnitude(d) >= (DurationMax + 1) * MicrosPerSecond

MCInvalid ==
  {m \in MCInstances : \/ \E y \in {m} \cup Below1(m) \cup Below2(m) \cup Below3(m) : Wrong(y)
                       \/ Below3(m) # {} /\ MaxDepth < 3}
MCDisplaced ==
  {m \in Timed : m.vals[8] # None
                   /\ m.vals[8] \notin TsMin * MicrosPerSecond .. (TsMax + 1) * MicrosPerSecond - 1}
=============================================================================
