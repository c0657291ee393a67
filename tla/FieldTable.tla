----------------------------- MODULE FieldTable -----------------------------
(***************************************************************************)
(* FieldIndex: the lookup from field numbers to fields that is built once  *)
(* for a message, a direct table for compact numbering and sorted pairs    *)
(* otherwise.                                                              *)
(***************************************************************************)
EXTENDS Integers, Records

CONSTANTS
  DenseFactor,  \* a table has at most this many entries per field
  DenseMin      \* or this many in all: 4 and 64 in fastproto

ASSUME FieldTableAssumption == DenseFactor \in Nat /\ DenseMin \in Nat

Larger(a, b) == IF a >= b THEN a ELSE b
IndexesOf(fields, num) == {k \in 1 .. Len(fields) : fields[k].num = num}
Least(set) == CHOOSE k \in set : \A j \in set : k <= j

MaxNum(fields) ==
  CHOOSE m \in {0} \cup {fields[k].num : k \in 1 .. Len(fields)} :
    \A k \in 1 .. Len(fields) : fields[k].num <= m

\* Mutant of DenseTable: a later declaration takes the slot.
DenseTable_LastWins(fields) ==
  [num \in 0 .. MaxNum(fields) |->
     IF IndexesOf(fields, num) = {} THEN 0
     ELSE CHOOSE k \in IndexesOf(fields, num) : \A j \in IndexesOf(fields, num) : j <= k]

\* A slot is taken by the first declaration that comes to it.
DenseTable(fields) ==
  [num \in 0 .. MaxNum(fields) |->
     IF IndexesOf(fields, num) = {} THEN 0 ELSE Least(IndexesOf(fields, num))]

\* Sorted by number and index, and deduplicated by number.
SparsePairs(fields) ==
  {<<fields[k].num, k>> : k \in {i \in 1 .. Len(fields) : i = Least(IndexesOf(fields, fields[i].num))}}

IsDense(fields) == MaxNum(fields) <= Larger(DenseFactor * Len(fields), DenseMin)

Build(fields) ==
  IF IsDense(fields)
    THEN [dense |-> TRUE, table |-> DenseTable(fields)]
    ELSE [dense |-> FALSE, pairs |-> SparsePairs(fields)]

\* The index of the field with this number, 0 if there is none.
Get(index, num) ==
  IF index.dense
    THEN IF num \in DOMAIN index.table THEN index.table[num] ELSE 0
    ELSE IF \E p \in index.pairs : p[1] = num
      THEN (CHOOSE p \in index.pairs : p[1] = num)[2]
      ELSE 0
=============================================================================
