----------------------------- MODULE MCLinking -----------------------------
(***************************************************************************)
(* Small schemas for Linking.  Graph: A -> B, B -> {E, C}, C -> A, with S  *)
(* a subclass of A: a reference cycle of three classes, an enum, and a     *)
(* descriptor that two classes share.                                      *)
(***************************************************************************)
EXTENDS Linking

CONSTANTS t1, t2, A, B, C, S, E, dA, dB, dC

OneThread == {t1}
TwoThreads == {t1, t2}
Classes == {A, B, C, S}
Enums == {E}
Descriptors == {dA, dB, dC}
Some == {A, B, S, E}
All == Classes \cup Enums

Descs == [c \in Classes |-> CASE c = B -> dB [] c = C -> dC [] OTHER -> dA]
Kinds == [d \in Descriptors |-> IF d = dB THEN <<"enum", "message">> ELSE <<"message">>]

\* One namespace: S is defined in the module of A, B and C.
Targets == [c \in Classes |->
  CASE c \in {A, S} -> <<B>> [] c = B -> <<E, C>> [] c = C -> <<A>>]

\* S is defined in another module, which has a class C of its own under the
\* name that A's module gives to B.
TargetsElsewhere == [Targets EXCEPT ![S] = <<C>>]

PlainClasses == {A, B, C}

\* The schema under which the library promises its closure properties.
ASSUME SameNamespace \/ Target = TargetsElsewhere
=============================================================================
