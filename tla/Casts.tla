------------------------------- MODULE Casts -------------------------------
(***************************************************************************)
(* Integers of a fixed width in two's complement, and the casts between    *)
(* them that the codec makes with `as`.                                    *)
(***************************************************************************)
EXTENDS Integers

UInt(w) == 0 .. 2 ^ w - 1
SInt(w) == - (2 ^ (w - 1)) .. 2 ^ (w - 1) - 1

AsUnsigned(v, w) == v % 2 ^ w
AsSigned(v, w) == IF v % 2 ^ w < 2 ^ (w - 1) THEN v % 2 ^ w ELSE (v % 2 ^ w) - 2 ^ w

\* `v.abs()` in a release build: the least integer has no positive counterpart
\* and stays what it is.
AbsWrapping(v, w) == IF v >= 0 \/ v = - (2 ^ (w - 1)) THEN v ELSE - v
=============================================================================
