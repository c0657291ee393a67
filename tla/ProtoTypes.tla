----------------------------- MODULE ProtoTypes -----------------------------
(***************************************************************************)
(* What descriptor.proto fixes: the codes of types and labels, and the     *)
(* full names of the two messages that become native Python objects.       *)
(***************************************************************************)
EXTENDS SequencesExt

CONSTANT None

TypeGroup == 10
TypeMessage == 11
TypeEnum == 14
LabelRepeated == 3

\* A name is the sequence of its segments; a full name starts with an empty one.
TimestampName == <<"", "google", "protobuf", "Timestamp">>
DurationName == <<"", "google", "protobuf", "Duration">>
=============================================================================
