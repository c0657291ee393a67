---------------------------- MODULE MCLenPrefix ----------------------------
(***************************************************************************)
(* A byte with one payload bit: lengths take a second byte from 2 on, a    *)
(* third from 4 on and a fourth from 8 on, so that in short buffers outer  *)
(* fields are moved by the growth of inner ones.                           *)
(***************************************************************************)
EXTENDS LenPrefix

\* Tags of one and of two bytes (field numbers from 16 on).
MCTags == {<<1>>, <<3, 1>>}
=============================================================================
