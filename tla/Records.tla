------------------------------ MODULE Records ------------------------------
(***************************************************************************)
(* Messages on the wire as sequences of records [num, wire, val], and the  *)
(* lookups that the readers of messages make.                              *)
(***************************************************************************)
EXTENDS SequencesExt

Record(num, wire, val) == [num |-> num, wire |-> wire, val |-> val]
IsRecord(r) == DOMAIN r = {"num", "wire", "val"}

\* What a loop that assigns a variable at every record of field num leaves in
\* it: the last value, or what it was set to before.
LastValue(p, num, wire, initial) ==
  LET k == SelectLastInSeq(p, LAMBDA r : r.num = num /\ r.wire = wire)
  IN IF k = 0 THEN initial ELSE p[k].val

\* The payloads of the records of field num, in their order.
Payloads(p, num) ==
  LET of == SelectSeq(p, LAMBDA r : r.num = num /\ r.wire = "len")
  IN [k \in 1 .. Len(of) |-> of[k].val]

\* A linear scan for a field number, 0 if there is none.
FirstDeclared(fields, num) == SelectInSeq(fields, LAMBDA y : y.num = num)
=============================================================================
