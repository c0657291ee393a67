-------------------------------- MODULE Wire --------------------------------
(***************************************************************************)
(* The pure part of the wire format: varints, zig-zag and the casts of the *)
(* codec.  G and W scale the format down: a byte holds G payload bits and  *)
(* a continuation bit, an unsigned integer has W bits.  In fastproto G is  *)
(* 7 and W is 64; as there, G must not divide W for the last byte of the   *)
(* longest varint to be a partial one.                                     *)
(***************************************************************************)
EXTENDS Casts, Sequences

CONSTANTS
  G,   \* payload bits of a byte
  W    \* bits of an unsigned integer

ASSUME WireAssumption == G \in Nat \ {0} /\ W \in Nat /\ W > G

Base == 2 ^ G
Byte == 0 .. 2 * Base - 1

Continues(b) == b >= Base

\* The loop that write_varint runs into a temporary and finish_len_prefix
\* runs in place.
VarintLoop[v \in Nat] ==
  IF v < Base THEN <<v>> ELSE <<(v % Base) + Base>> \o VarintLoop[v \div Base]

\* Mutant of WriteVarint: the fast path takes one value too many.
WriteVarint_WideFastPath(v) == IF v <= Base THEN <<v>> ELSE VarintLoop[v]

WriteVarint(v) == IF v < Base THEN <<v>> ELSE VarintLoop[v]

\* 64 - (v | 1).leading_zeros()
BitLen(v) == CHOOSE n \in 1 .. v + 1 : v < 2 ^ n /\ (n > 1 => 2 ^ (n - 1) <= v)

\* div_ceil(7)
VarintLen(v) == (BitLen(v) + G - 1) \div G

\* The number with these digits of g bits each, the lowest first.
Number(digits, g) ==
  LET sum[k \in 0 .. Len(digits)] == IF k = 0 THEN 0 ELSE sum[k - 1] + digits[k] * 2 ^ (g * (k - 1))
  IN sum[Len(digits)]

\* The grammar of varints: how long one may be, which bytes are one, and what
\* number it stands for.
MaxVarint == VarintLen(2 ^ W - 1)

IsVarint(b) ==
  Len(b) \in 1 .. MaxVarint /\ \A k \in 1 .. Len(b) : Continues(b[k]) <=> k < Len(b)

VarintOf(b) == Number([k \in 1 .. Len(b) |-> b[k] % Base], G) % 2 ^ W

-----------------------------------------------------------------------------
(* Zig-zag, and the casts of narrow integers. *)

\* Exclusive or with 0 or with all ones.
XorSign(v, negative, w) == IF negative THEN 2 ^ w - 1 - v ELSE v

ZigZagEncode(v, w) == XorSign(AsUnsigned(2 * v, w), v < 0, w)
ZigZagDecode(u, w) == AsSigned(XorSign(u \div 2, u % 2 = 1, w), w)

\* `v as i64 as u64`, `raw as u32 as i32`: a w-bit signed integer or enum.
EncodeNarrow(v, w) == AsUnsigned(v, W)
DecodeNarrow(raw, w) == AsSigned(AsUnsigned(raw, w), w)
=============================================================================
