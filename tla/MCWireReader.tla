---------------------------- MODULE MCWireReader ----------------------------
(***************************************************************************)
(* Bytes of four bits and integers of seven: a varint has up to three      *)
(* bytes, of which the last holds one bit.  One of the four wire type      *)
(* codes is invalid.  The schemas have one field, with a tag of one byte;  *)
(* other field numbers come in as unknown fields.                          *)
(***************************************************************************)
EXTENDS WireReader, SequencesExt

CONSTANT MaxInput

MCCode == [type \in {"varint", "fixed", "len"} |->
             CASE type = "varint" -> 0 [] type = "fixed" -> 1 [] type = "len" -> 2]

MCSchemas == {<<kind>> : kind \in Scalar}

\* Fields of a message, with tags of one byte: for a schema of one field of any
\* kind, one of the first three is known and the others are not.  The first and
\* the last have a varint that is longer than it need be.
MCFields == {<<4, 8, 0>>, <<5, 1, 2>>, <<6, 1, 7>>, <<6, 0>>, <<8, 9, 0>>}

\* All the short inputs, up to three fields in every order, and a few that are
\* longer: varints of three bytes and more, wide tags, several fields.
MCInputs ==
  UNION {[1 .. n -> Byte] : n \in 0 .. MaxInput}
  \cup {FlattenSeq(fields) : fields \in UNION {[1 .. n -> MCFields] : n \in 2 .. 3}}
  \cup {<<4, 15, 15, 1>>, <<4, 15, 15, 15>>, <<4, 8, 8, 0>>, <<12, 8, 0, 5>>, <<6, 2, 9, 15>>,
        <<8, 1, 9, 1, 4, 3>>, <<4, 1, 4, 15, 3>>, <<10, 9, 8, 1, 7, 5, 3, 12>>, <<12, 9, 1, 0>>}
=============================================================================
