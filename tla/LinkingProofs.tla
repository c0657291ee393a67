--------------------------- MODULE LinkingProofs ---------------------------
(***************************************************************************)
(* Proofs about Linking, for any set of threads, any reference graph, any  *)
(* interleaving and any moment at which classes come to be defined.        *)
(***************************************************************************)
EXTENDS Linking, SequenceTheorems, TLAPS

-----------------------------------------------------------------------------
(* The call stack of a thread. *)

\* What Push does to a call stack.
LEMMA PushFacts ==
  ASSUME NEW s \in Seq(Frame), NEW c \in Class
  PROVE  /\ Push(s, c) \in Seq(Frame)
         /\ Len(Push(s, c)) = Len(s) + 1
         /\ \A k \in 1 .. Len(s) : Push(s, c)[k] = s[k]
         /\ Push(s, c)[Len(s) + 1] = [cls |-> c, at |-> "check", next |-> 1]
<1>1. [cls |-> c, at |-> "check", next |-> 1] \in Frame
  BY DEF Frame, At
<1>2. QED
  BY <1>1 DEF Push

\* What Pop does to a call stack.
LEMMA PopFacts ==
  ASSUME NEW s \in Seq(Frame), s # <<>>
  PROVE  /\ Len(s) \in Nat \ {0}
         /\ Pop(s) \in Seq(Frame)
         /\ Len(Pop(s)) = Len(s) - 1
         /\ \A k \in 1 .. Len(s) - 1 : Pop(s)[k] = s[k]
<1>1. Len(s) \in Nat \ {0} /\ \A i \in 1 .. Len(s) - 1 : s[i] \in Frame
  OBVIOUS
<1> DEFINE n == Len(s) - 1
<1>2. 1 \in Int /\ n \in Nat /\ n \in Int /\ \A i \in 1 .. n : s[i] \in Frame
  BY <1>1
<1> HIDE DEF n
<1>3. /\ SubSeq(s, 1, n) \in Seq(Frame)
      /\ Len(SubSeq(s, 1, n)) = IF 1 <= n THEN n - 1 + 1 ELSE 0
      /\ \A i \in 1 .. n - 1 + 1 : SubSeq(s, 1, n)[i] = s[1 + i - 1]
  BY <1>2, SubSeqProperties
<1>4. Len(SubSeq(s, 1, n)) = n
  BY <1>2, <1>3
<1>5. \A i \in 1 .. n : SubSeq(s, 1, n)[i] = s[i]
  BY <1>2, <1>3
<1>6. QED
  BY <1>1, <1>3, <1>4, <1>5 DEF Pop, n

\* What Move does to a call stack.
LEMMA MoveFacts ==
  ASSUME NEW s \in Seq(Frame), s # <<>>,
         NEW l \in At
  PROVE  /\ Len(s) \in Nat \ {0}
         /\ Move(s, l) \in Seq(Frame)
         /\ Len(Move(s, l)) = Len(s)
         /\ \A k \in 1 .. Len(s) - 1 : Move(s, l)[k] = s[k]
         /\ Move(s, l)[Len(s)] = [cls |-> s[Len(s)].cls, at |-> l, next |-> s[Len(s)].next]
<1>1. Len(s) \in Nat \ {0} /\ s[Len(s)] \in Frame
  OBVIOUS
<1>2. [s[Len(s)] EXCEPT !.at = l] = [cls |-> s[Len(s)].cls, at |-> l, next |-> s[Len(s)].next]
  BY <1>1 DEF Frame
<1>3. [cls |-> s[Len(s)].cls, at |-> l, next |-> s[Len(s)].next] \in Frame
  BY <1>1 DEF Frame
<1>4. QED
  BY <1>1, <1>2, <1>3 DEF Move

\* What Advance does to a call stack.
LEMMA AdvanceFacts ==
  ASSUME NEW s \in Seq(Frame), s # <<>>
  PROVE  /\ Len(s) \in Nat \ {0}
         /\ Advance(s) \in Seq(Frame)
         /\ Len(Advance(s)) = Len(s)
         /\ \A k \in 1 .. Len(s) - 1 : Advance(s)[k] = s[k]
         /\ Advance(s)[Len(s)] = [cls |-> s[Len(s)].cls, at |-> s[Len(s)].at,
                                  next |-> s[Len(s)].next + 1]
<1>1. Len(s) \in Nat \ {0} /\ s[Len(s)] \in Frame
  OBVIOUS
<1>2. [s[Len(s)] EXCEPT !.next = @ + 1]
        = [cls |-> s[Len(s)].cls, at |-> s[Len(s)].at, next |-> s[Len(s)].next + 1]
  BY <1>1 DEF Frame
<1>3. [cls |-> s[Len(s)].cls, at |-> s[Len(s)].at, next |-> s[Len(s)].next + 1] \in Frame
  BY <1>1 DEF Frame
<1>4. QED
  BY <1>1, <1>2, <1>3 DEF Advance

-----------------------------------------------------------------------------
(* Type correctness.  It needs the other parts of the invariant: the class  *)
(* of a nested message comes out of refs, and is a class only because link  *)
(* stores nothing that _resolve has not found.                              *)

\* The targets of a class whose references were all found are of the kind
\* its descriptor says.
LEMMA ResolvedTarget ==
  ASSUME TypeOK, NEW c \in Class, Resolvable(c), NEW i \in Fields(c)
  PROVE  /\ Target[c][i] \in Type
         /\ Kind[DescOf[c]][i] = "message" => Target[c][i] \in Class
         /\ Target[c][i] \in Class => Kind[DescOf[c]][i] = "message"
<1>1. Target[c][i] \in Type
  BY DEF TypeOK, Resolvable
<1>2. Target[c][i] # None
  BY <1>1, LinkingAssumption
<1>3. i \in 1 .. Len(Kind[DescOf[c]]) /\ Kind[DescOf[c]] \in Seq({"enum", "message"})
  BY LinkingAssumption DEF Fields, Idx
<1>4. Kind[DescOf[c]][i] \in {"enum", "message"}
  BY <1>3
<1>5. QED
  BY <1>1, <1>2, <1>4, LinkingAssumption

\* The activation a thread is running.
LEMMA ActiveFacts ==
  ASSUME LinkInv, NEW t \in Thread, NEW l, Active(t, l)
  PROVE  /\ stack[t] \in Seq(Frame)
         /\ stack[t] # <<>>
         /\ Len(stack[t]) \in Nat \ {0}
         /\ Top(t) \in Frame
         /\ Top(t) = stack[t][Len(stack[t])]
         /\ Top(t).at = l
         /\ Top(t).cls \in Class
         /\ DescOf[Top(t).cls] \in Descriptor
         /\ FrameDone(Top(t))
<1>1. stack[t] \in Seq(Frame) /\ stack[t] # <<>>
  BY DEF LinkInv, TypeOK, Active
<1>2. Len(stack[t]) \in Nat \ {0} /\ stack[t][Len(stack[t])] \in Frame
  BY <1>1
<1>3. FrameDone(stack[t][Len(stack[t])])
  BY <1>2 DEF LinkInv, StackOK
<1>4. QED
  BY <1>1, <1>2, <1>3, LinkingAssumption DEF Top, Frame, Active

\* The initial state satisfies every part of the invariant.
LEMMA InitInv == Init => LinkInv
<1> SUFFICES ASSUME Init PROVE LinkInv
  OBVIOUS
<1>1. TypeOK
  BY LinkingAssumption DEF Init, TypeOK, Type, NoRequest, NoCursor, Request, Cursor, Pc, Outcome
<1>2. \A t \in Thread : stack[t] = <<>> /\ pc[t] = "idle" /\ Len(stack[t]) = 0
  BY DEF Init
<1>3. \A d \in Descriptor : refs[d] = None /\ ~ linked[d]
  BY DEF Init
<1>4. CallOK /\ StackOK /\ NoReentry
  BY <1>2 DEF CallOK, StackOK, NoReentry
<1>5. RefsOK /\ HalfLinked /\ CallLinked
  BY <1>2, <1>3 DEF RefsOK, HalfLinked, CallLinked
<1>6. QED
  BY <1>1, <1>4, <1>5 DEF LinkInv

-----------------------------------------------------------------------------
(* Nothing that was published is taken back. *)

Grows ==
  /\ defined \subseteq defined'
  /\ \A d \in Descriptor : /\ refs[d] # None => refs'[d] = refs[d]
                           /\ fastInit[d] # None => fastInit'[d] = fastInit[d]
                           /\ linked[d] => linked'[d]
  /\ abandoned \subseteq abandoned'

\* OnceLock::set changes an empty cell only.
LEMMA OnceFacts ==
  ASSUME NEW cell \in [Descriptor -> Class \cup {None}], NEW d \in Descriptor, NEW v \in Class
  PROVE  /\ Once(cell, d, v) \in [Descriptor -> Class \cup {None}]
         /\ Once(cell, d, v)[d] # None
         /\ \A e \in Descriptor : cell[e] # None => Once(cell, d, v)[e] = cell[e]
         /\ \A e \in Descriptor : Once(cell, d, v)[e] \in {cell[e], v}
         /\ \A e \in Descriptor \ {d} : Once(cell, d, v)[e] = cell[e]
<1>1. v # None
  BY LinkingAssumption DEF Type
<1>2. QED
  BY <1>1 DEF Once

\* The stores of Descriptor.link are never undone: OnceLock::set has no effect
\* on a set cell, and nothing resets linked.
LEMMA StepGrows == LinkInv /\ [Next]_vars => Grows
<1> SUFFICES ASSUME LinkInv, [Next]_vars PROVE Grows
  OBVIOUS
<1> TypeOK
  BY DEF LinkInv
<1>1. CASE UNCHANGED vars
  BY <1>1 DEF vars, linkVars, Grows
<1>2. ASSUME NEW x \in Type, Define(x) PROVE Grows
  BY <1>2 DEF Define, linkVars, Grows
<1>3. ASSUME NEW t \in Thread, NEW c \in Class, NEW op, Begin(t, c, op) PROVE Grows
  BY <1>3, SMTT(30) DEF Begin, Grows
<1>4. ASSUME NEW t \in Thread, Linked(t) \/ Codec(t) PROVE Grows
  BY <1>4 DEF Linked, Codec, Encode, DecodeRoot, DecodeEnd, DecodeEnum, DecodeNested,
              DecodeTooDeep, DecodeUnlinked, linkVars, Grows
<1>5. ASSUME NEW t \in Thread, EnsureLinked(t) PROVE Grows
  <2>1. CASE CheckLinked(t) \/ Resolve(t) \/ Recurse(t) \/ RecurseDone(t)
    BY <2>1 DEF CheckLinked, Resolve, Recurse, RecurseDone, Grows
  <2>2. CASE ResolveFails(t)
    BY <2>2 DEF ResolveFails, Grows
  <2>3. CASE LinkFastInit(t)
    <3>1. Top(t).cls \in Class /\ DescOf[Top(t).cls] \in Descriptor
      BY <2>3, ActiveFacts DEF LinkFastInit
    <3>2. fastInit \in [Descriptor -> Class \cup {None}]
      BY DEF TypeOK
    <3>3. \A e \in Descriptor : fastInit[e] # None
            => Once(fastInit, DescOf[Top(t).cls], Top(t).cls)[e] = fastInit[e]
      BY <3>1, <3>2, OnceFacts
    <3>4. QED
      BY <2>3, <3>3 DEF LinkFastInit, Grows
  <2>4. CASE LinkRefs(t)
    <3>1. Top(t).cls \in Class /\ DescOf[Top(t).cls] \in Descriptor
      BY <2>4, ActiveFacts DEF LinkRefs
    <3>2. refs \in [Descriptor -> Class \cup {None}]
      BY DEF TypeOK
    <3>3. \A e \in Descriptor : refs[e] # None
            => Once(refs, DescOf[Top(t).cls], Top(t).cls)[e] = refs[e]
      BY <3>1, <3>2, OnceFacts
    <3>4. QED
      BY <2>4, <3>3 DEF LinkRefs, Grows
  <2>5. CASE LinkStore(t)
    BY <2>5, ActiveFacts DEF LinkStore, Grows, TypeOK
  <2>6. QED
    BY <1>5, <2>1, <2>2, <2>3, <2>4, <2>5 DEF EnsureLinked
<1>6. QED
  BY <1>1, <1>2, <1>3, <1>4, <1>5 DEF Next, Step

-----------------------------------------------------------------------------
(* The effect of a step on the call stacks. *)

\* Only the call stack of thread t changes, and it becomes a call stack.
OwnStack(t) ==
  /\ stack' \in [Thread -> Seq(Frame)]
  /\ \A u \in Thread \ {t} : stack'[u] = stack[u]

\* The activations below the top are what they were.
SameBelow(t, n) == \A k \in 1 .. n : stack'[t][k] = stack[t][k]

\* Moving on within an activation touches no other activation.
LEMMA GotoStep ==
  ASSUME LinkInv, NEW t \in Thread, NEW m, Active(t, m),
         NEW l \in At, Goto(t, l)
  PROVE  /\ OwnStack(t)
         /\ Len(stack'[t]) = Len(stack[t])
         /\ SameBelow(t, Len(stack[t]) - 1)
         /\ stack'[t][Len(stack[t])] = [cls |-> Top(t).cls, at |-> l, next |-> Top(t).next]
<1>1. stack[t] \in Seq(Frame) /\ stack[t] # <<>> /\ stack \in [Thread -> Seq(Frame)]
  BY ActiveFacts DEF LinkInv, TypeOK
<1>2. stack'[t] = Move(stack[t], l) /\ \A u \in Thread \ {t} : stack'[u] = stack[u]
  BY <1>1 DEF Goto
<1>3. Move(stack[t], l) \in Seq(Frame)
  BY <1>1, MoveFacts
<1>4. stack' \in [Thread -> Seq(Frame)]
  BY <1>1, <1>3 DEF Goto
<1>5. QED
  BY <1>1, <1>2, <1>4, MoveFacts DEF OwnStack, SameBelow, Top

\* Returning from an activation touches no other activation.
LEMMA PopStep ==
  ASSUME LinkInv, NEW t \in Thread, NEW m, Active(t, m), stack' = [stack EXCEPT ![t] = Pop(@)]
  PROVE  /\ OwnStack(t)
         /\ Len(stack'[t]) = Len(stack[t]) - 1
         /\ SameBelow(t, Len(stack[t]) - 1)
<1>1. stack[t] \in Seq(Frame) /\ stack[t] # <<>> /\ stack \in [Thread -> Seq(Frame)]
  BY ActiveFacts DEF LinkInv, TypeOK
<1>2. stack'[t] = Pop(stack[t]) /\ \A u \in Thread \ {t} : stack'[u] = stack[u]
  BY <1>1
<1>3. Pop(stack[t]) \in Seq(Frame)
  BY <1>1, PopFacts
<1>4. stack' \in [Thread -> Seq(Frame)]
  BY <1>1, <1>3
<1>5. QED
  BY <1>1, <1>2, <1>4, PopFacts DEF OwnStack, SameBelow

\* The first activation of a call.
LEMMA BeginStep ==
  ASSUME LinkInv, NEW t \in Thread, NEW c \in Class, stack[t] = <<>>,
         stack' = [stack EXCEPT ![t] = Push(@, c)]
  PROVE  /\ OwnStack(t)
         /\ Len(stack'[t]) = 1
         /\ stack'[t][1] = [cls |-> c, at |-> "check", next |-> 1]
<1>1. stack[t] \in Seq(Frame) /\ Len(stack[t]) = 0 /\ stack \in [Thread -> Seq(Frame)]
  BY DEF LinkInv, TypeOK
<1>2. /\ Push(stack[t], c) \in Seq(Frame)
      /\ Len(Push(stack[t], c)) = Len(stack[t]) + 1
      /\ Push(stack[t], c)[Len(stack[t]) + 1] = [cls |-> c, at |-> "check", next |-> 1]
  BY <1>1, PushFacts
<1>3. /\ Push(stack[t], c) \in Seq(Frame)
      /\ Len(Push(stack[t], c)) = 1
      /\ Push(stack[t], c)[1] = [cls |-> c, at |-> "check", next |-> 1]
  BY <1>1, <1>2
<1>4. QED
  BY <1>1, <1>3 DEF OwnStack

\* The next target of the innermost activation: an enum is passed over, a
\* message class gets an activation of its own.
LEMMA RecurseStep ==
  ASSUME LinkInv, NEW t \in Thread, Recurse(t)
  PROVE  LET n == Len(stack[t])
             f == Top(t)
             c == Target[f.cls][f.next]
         IN  /\ OwnStack(t)
             /\ Len(stack'[t]) = IF c \in Class THEN n + 1 ELSE n
             /\ SameBelow(t, n - 1)
             /\ stack'[t][n] = [cls |-> f.cls, at |-> "recurse", next |-> f.next + 1]
             /\ c \in Class => stack'[t][n + 1] = [cls |-> c, at |-> "check", next |-> 1]
<1> DEFINE n == Len(stack[t])
           f == Top(t)
           c == Target[f.cls][f.next]
           s == Advance(stack[t])
<1>1. /\ Active(t, "recurse")
      /\ stack' = [stack EXCEPT ![t] = IF c \in Class THEN Push(s, c) ELSE s]
  BY DEF Recurse
<1>2. /\ stack[t] \in Seq(Frame) /\ stack[t] # <<>> /\ f = stack[t][n] /\ f.at = "recurse"
      /\ stack \in [Thread -> Seq(Frame)]
  BY <1>1, ActiveFacts DEF LinkInv, TypeOK
<1>3. /\ n \in Nat \ {0}
      /\ s \in Seq(Frame)
      /\ Len(s) = n
      /\ \A k \in 1 .. n - 1 : s[k] = stack[t][k]
      /\ s[n] = [cls |-> f.cls, at |-> "recurse", next |-> f.next + 1]
  BY <1>2, AdvanceFacts
<1> HIDE DEF s, c, f
<1>4. CASE c \in Class
  <2>1. /\ Push(s, c) \in Seq(Frame)
        /\ Len(Push(s, c)) = n + 1
        /\ \A k \in 1 .. n : Push(s, c)[k] = s[k]
        /\ Push(s, c)[n + 1] = [cls |-> c, at |-> "check", next |-> 1]
    BY <1>3, <1>4, PushFacts
  <2>2. stack'[t] = Push(s, c) /\ \A u \in Thread \ {t} : stack'[u] = stack[u]
    BY <1>1, <1>2, <1>4
  <2>3. stack' \in [Thread -> Seq(Frame)]
    BY <1>1, <1>2, <1>4, <2>1
  <2>4. QED
    BY <1>3, <1>4, <2>1, <2>2, <2>3 DEF OwnStack, SameBelow, c, f
<1>5. CASE c \notin Class
  <2>1. stack'[t] = s /\ \A u \in Thread \ {t} : stack'[u] = stack[u]
    BY <1>1, <1>2, <1>5
  <2>2. stack' \in [Thread -> Seq(Frame)]
    BY <1>1, <1>2, <1>3, <1>5
  <2>3. QED
    BY <1>3, <1>5, <2>1, <2>2 DEF OwnStack, SameBelow, c, f
<1>6. QED
  BY <1>4, <1>5

-----------------------------------------------------------------------------
(* TypeOK and CallOK are preserved. *)

\* The reference a decoder follows is a class, and its descriptor exists.
LEMMA DecoderFacts ==
  ASSUME LinkInv, NEW t \in Thread, pc[t] = "decoding", cur[t].refs # None,
         NEW i \in Fields(req[t].cls), Kind[DescOf[req[t].cls]][i] = "message"
  PROVE  Target[cur[t].refs][i] \in Class
<1>1. /\ TypeOK /\ req[t].cls \in Class /\ cur[t].refs = refs[DescOf[req[t].cls]]
      /\ DescOf[req[t].cls] \in Descriptor
  BY LinkingAssumption DEF LinkInv, CallOK
<1>2. cur[t].refs \in Class
  BY <1>1 DEF TypeOK
<1>3. DescOf[cur[t].refs] = DescOf[req[t].cls] /\ Resolvable(cur[t].refs)
  BY <1>1 DEF LinkInv, RefsOK
<1>4. QED
  BY <1>1, <1>2, <1>3, ResolvedTarget DEF Fields

\* Dropping all activations of a thread.
LEMMA ClearStep ==
  ASSUME LinkInv, NEW t \in Thread, stack' = [stack EXCEPT ![t] = <<>>]
  PROVE  OwnStack(t) /\ stack'[t] = <<>>
<1>1. <<>> \in Seq(Frame) /\ stack \in [Thread -> Seq(Frame)]
  BY DEF LinkInv, TypeOK
<1>2. QED
  BY <1>1 DEF OwnStack

\* Every action of _ensure_linked changes the call stack of its thread only.
LEMMA EnsureLinkedStack ==
  ASSUME LinkInv, NEW t \in Thread, EnsureLinked(t)
  PROVE  OwnStack(t)
<1>1. CASE CheckLinked(t)
  BY <1>1, GotoStep, PopStep DEF CheckLinked, At
<1>2. CASE Resolve(t)
  BY <1>2, GotoStep DEF Resolve, At
<1>3. CASE ResolveFails(t)
  BY <1>3, ClearStep DEF ResolveFails
<1>4. CASE LinkFastInit(t)
  BY <1>4, GotoStep DEF LinkFastInit, At
<1>5. CASE LinkRefs(t)
  BY <1>5, GotoStep DEF LinkRefs, At
<1>6. CASE LinkStore(t)
  BY <1>6, GotoStep DEF LinkStore, At
<1>7. CASE Recurse(t)
  BY <1>7, RecurseStep
<1>8. CASE RecurseDone(t)
  BY <1>8, PopStep DEF RecurseDone
<1>9. QED
  BY <1>1, <1>2, <1>3, <1>4, <1>5, <1>6, <1>7, <1>8 DEF EnsureLinked

\* A call ends.
LEMMA ReturnTypes ==
  ASSUME TypeOK, NEW t \in Thread, NEW r \in Outcome, Return(t, r)
  PROVE  pc' \in [Thread -> Pc] /\ req' \in [Thread -> Request]
         /\ cur' \in [Thread -> Cursor] /\ outcome' \in [Thread -> Outcome]
<1>1. NoRequest \in Request
  BY DEF NoRequest, Request
<1>2. NoCursor \in Cursor
  BY LinkingAssumption DEF NoCursor, Cursor
<1>3. "idle" \in Pc
  BY DEF Pc
<1>4. QED
  BY <1>1, <1>2, <1>3 DEF Return, TypeOK

\* Every step keeps the types.
LEMMA TypeStep == LinkInv /\ [Next]_vars => TypeOK'
<1> SUFFICES ASSUME LinkInv, [Next]_vars PROVE TypeOK'
  OBVIOUS
<1> USE DEF LinkInv
<1>1. CASE UNCHANGED vars
  BY <1>1 DEF TypeOK, vars, linkVars, callVars
<1>2. ASSUME NEW x \in Type, Define(x) PROVE TypeOK'
  BY <1>2 DEF Define, TypeOK, linkVars, callVars
<1>3. ASSUME NEW t \in Thread, NEW c \in Class, NEW op \in {"encode", "decode"}, Begin(t, c, op)
      PROVE  TypeOK'
  <2>1. /\ req' \in [Thread -> Request]
        /\ cur' \in [Thread -> Cursor]
        /\ outcome' \in [Thread -> Outcome]
        /\ pc' \in [Thread -> Pc]
        /\ UNCHANGED <<defined, fastInit, refs, linked, abandoned>>
    <3>1. [op |-> op, cls |-> c] \in Request
      BY DEF Request
    <3>2. "ready" \in Pc /\ "linking" \in Pc /\ "none" \in Outcome
      BY DEF Pc, Outcome
    <3>3. QED
      BY <1>3, <3>1, <3>2 DEF Begin, TypeOK
  <2>2. stack[t] = <<>>
    BY <1>3 DEF Begin, CallOK
  <2>3. stack' \in [Thread -> Seq(Frame)]
    BY <1>3, <2>2, BeginStep DEF Begin, OwnStack, TypeOK
  <2>4. QED
    BY <2>1, <2>3 DEF TypeOK
<1>4. ASSUME NEW t \in Thread, Linked(t) PROVE TypeOK'
  BY <1>4 DEF Linked, TypeOK, linkVars, Pc
<1>5. ASSUME NEW t \in Thread, EnsureLinked(t) PROVE TypeOK'
  <2>1. stack' \in [Thread -> Seq(Frame)]
    BY <1>5, EnsureLinkedStack DEF OwnStack
  <2>2. CASE CheckLinked(t) \/ Resolve(t) \/ Recurse(t) \/ RecurseDone(t)
    BY <2>1, <2>2 DEF CheckLinked, Resolve, Recurse, RecurseDone, callVars, TypeOK
  <2>3. CASE ResolveFails(t)
    <3>1. \A i \in 1 .. Len(stack[t]) : DescOf[stack[t][i].cls] \in Descriptor
      <4>1. \A i \in 1 .. Len(stack[t]) : stack[t][i] \in Frame
        BY DEF TypeOK
      <4>2. QED
        BY <4>1, LinkingAssumption DEF Frame
    <3>2. abandoned' \subseteq Descriptor
      BY <2>3, <3>1 DEF ResolveFails, TypeOK
    <3>3. /\ req' \in [Thread -> Request]
          /\ cur' \in [Thread -> Cursor]
          /\ outcome' \in [Thread -> Outcome]
          /\ pc' \in [Thread -> Pc]
          /\ UNCHANGED <<defined, fastInit, refs, linked>>
      BY <2>3, ReturnTypes DEF ResolveFails, Outcome
    <3>4. QED
      BY <2>1, <3>2, <3>3 DEF TypeOK
  <2>4. CASE LinkFastInit(t)
    <3>1. fastInit' \in [Descriptor -> Class \cup {None}]
      BY <2>4, ActiveFacts, OnceFacts DEF LinkFastInit, TypeOK
    <3>2. QED
      BY <2>1, <2>4, <3>1 DEF LinkFastInit, callVars, TypeOK
  <2>5. CASE LinkRefs(t)
    <3>1. refs' \in [Descriptor -> Class \cup {None}]
      BY <2>5, ActiveFacts, OnceFacts DEF LinkRefs, TypeOK
    <3>2. QED
      BY <2>1, <2>5, <3>1 DEF LinkRefs, callVars, TypeOK
  <2>6. CASE LinkStore(t)
    BY <2>1, <2>6 DEF LinkStore, callVars, TypeOK
  <2>7. QED
    BY <1>5, <2>2, <2>3, <2>4, <2>5, <2>6 DEF EnsureLinked
<1>6. ASSUME NEW t \in Thread, Encode(t) \/ DecodeEnd(t) PROVE TypeOK'
  <2>1. /\ "ok" \in Outcome /\ "raw_enum" \in Outcome
        /\ UNCHANGED <<defined, linkVars>>
        /\ Return(t, "ok") \/ Return(t, "raw_enum")
    BY <1>6 DEF Encode, DecodeEnd, Outcome
  <2>2. QED
    BY <2>1, ReturnTypes DEF linkVars, TypeOK
<1>7. ASSUME NEW t \in Thread, DecodeRoot(t) PROVE TypeOK'
  <2>1. refs[DescOf[req[t].cls]] \in Class \cup {None}
    BY <1>7, LinkingAssumption DEF DecodeRoot, CallOK, TypeOK
  <2>2. PICK n \in 0 .. MaxFields :
          cur' = [cur EXCEPT ![t] = [depth |-> 0, left |-> n, refs |-> refs[DescOf[req[t].cls]]]]
    BY <1>7 DEF DecodeRoot
  <2>3. [depth |-> 0, left |-> n, refs |-> refs[DescOf[req[t].cls]]] \in Cursor
    BY <2>1, LinkingAssumption DEF Cursor
  <2>4. cur' \in [Thread -> Cursor]
    BY <2>2, <2>3 DEF TypeOK
  <2>5. QED
    BY <1>7, <2>4 DEF DecodeRoot, linkVars, TypeOK, Pc
<1>8. ASSUME NEW t \in Thread, pc[t] = "decoding", NEW i \in Fields(req[t].cls),
             DecodeEnum(t, i) \/ DecodeNested(t, i) \/ DecodeTooDeep(t, i) \/ DecodeUnlinked(t, i)
      PROVE  TypeOK'
  <2>1. CASE DecodeEnum(t, i)
    <3>1. cur[t].left - 1 \in Nat
      BY <2>1 DEF DecodeEnum, DecodeField, TypeOK, Cursor
    <3>2. cur' \in [Thread -> Cursor]
      BY <2>1, <3>1 DEF DecodeEnum, TypeOK, Cursor
    <3>3. outcome' \in [Thread -> Outcome]
      BY <2>1 DEF DecodeEnum, TypeOK, Outcome
    <3>4. QED
      BY <2>1, <3>2, <3>3 DEF DecodeEnum, linkVars, TypeOK
  <2>2. CASE DecodeNested(t, i)
    <3> DEFINE c == Target[cur[t].refs][i]
    <3>1. c \in Class /\ refs[DescOf[c]] \in Class \cup {None}
      BY <1>8, <2>2, DecoderFacts, LinkingAssumption DEF DecodeNested, TypeOK
    <3> HIDE DEF c
    <3>2. cur[t].left - 1 \in Nat /\ cur[t].depth + 1 \in 0 .. MaxDepth
      BY <2>2, LinkingAssumption DEF DecodeNested, DecodeField, TypeOK, Cursor
    <3>3. cur' \in [Thread -> Cursor]
      BY <2>2, <3>1, <3>2 DEF DecodeNested, TypeOK, Cursor, c
    <3>4. req' \in [Thread -> Request]
      BY <2>2, <3>1 DEF DecodeNested, TypeOK, Request, c
    <3>5. QED
      BY <2>2, <3>3, <3>4 DEF DecodeNested, linkVars, TypeOK
  <2>3. CASE DecodeTooDeep(t, i) \/ DecodeUnlinked(t, i)
    <3>1. /\ "too_deep" \in Outcome /\ "runtime_error" \in Outcome
          /\ UNCHANGED <<defined, linkVars>>
          /\ Return(t, "too_deep") \/ Return(t, "runtime_error")
      BY <2>3 DEF DecodeTooDeep, DecodeUnlinked, Outcome
    <3>2. QED
      BY <3>1, ReturnTypes DEF linkVars, TypeOK
  <2>4. QED
    BY <1>8, <2>1, <2>2, <2>3
<1>9. QED
  BY <1>1, <1>2, <1>3, <1>4, <1>5, <1>6, <1>7, <1>8 DEF Next, Step, Codec

\* Every step keeps what a call holds while it is inside the library.
LEMMA CallStep == LinkInv /\ [Next]_vars => CallOK'
<1> SUFFICES ASSUME LinkInv, [Next]_vars, NEW u \in Thread
             PROVE  /\ pc'[u] # "idle" => req'[u].cls \in Class
                    /\ pc'[u] # "linking" => stack'[u] = <<>>
                    /\ (pc'[u] = "decoding" /\ cur'[u].refs # None)
                         => cur'[u].refs = refs'[DescOf[req'[u].cls]]
  BY DEF CallOK
<1> DEFINE G == /\ pc'[u] # "idle" => req'[u].cls \in Class
                /\ pc'[u] # "linking" => stack'[u] = <<>>
                /\ (pc'[u] = "decoding" /\ cur'[u].refs # None)
                     => cur'[u].refs = refs'[DescOf[req'[u].cls]]
<1>1. /\ TypeOK
      /\ pc[u] # "idle" => req[u].cls \in Class
      /\ pc[u] # "linking" => stack[u] = <<>>
      /\ (pc[u] = "decoding" /\ cur[u].refs # None) => cur[u].refs = refs[DescOf[req[u].cls]]
  BY DEF LinkInv, CallOK
<1>2. ASSUME UNCHANGED <<pc[u], req[u], cur[u].refs, stack[u]>> PROVE G
  <2>1. ASSUME pc[u] = "decoding", cur[u].refs # None
        PROVE  refs'[DescOf[req[u].cls]] = refs[DescOf[req[u].cls]]
    <3>1. DescOf[req[u].cls] \in Descriptor /\ refs[DescOf[req[u].cls]] # None
      BY <1>1, <2>1, LinkingAssumption
    <3>2. \A d \in Descriptor : refs[d] # None => refs'[d] = refs[d]
      BY StepGrows DEF Grows
    <3>3. QED
      BY <3>1, <3>2
  <2>2. QED
    BY <1>1, <1>2, <2>1
<1>3. CASE UNCHANGED vars
  BY <1>2, <1>3 DEF vars, linkVars, callVars
<1>4. ASSUME NEW x \in Type, Define(x) PROVE G
  BY <1>2, <1>4 DEF Define, linkVars, callVars
<1>5. ASSUME NEW t \in Thread, NEW c \in Class, NEW op \in {"encode", "decode"}, Begin(t, c, op)
      PROVE  G
  <2>1. CASE u = t
    BY <1>1, <1>5, <2>1 DEF Begin, TypeOK
  <2>2. CASE u # t
    BY <1>1, <1>2, <1>5, <2>2 DEF Begin, TypeOK
  <2>3. QED
    BY <2>1, <2>2
<1>6. ASSUME NEW t \in Thread, Linked(t) \/ Encode(t) \/ DecodeEnd(t) PROVE G
  <2>1. CASE u = t
    BY <1>1, <1>6, <2>1 DEF Linked, Encode, DecodeEnd, Return, linkVars, TypeOK
  <2>2. CASE u # t
    BY <1>1, <1>2, <1>6, <2>2 DEF Linked, Encode, DecodeEnd, Return, linkVars, TypeOK
  <2>3. QED
    BY <2>1, <2>2
<1>7. ASSUME NEW t \in Thread, EnsureLinked(t) PROVE G
  <2>1. OwnStack(t)
    BY <1>7, EnsureLinkedStack
  <2>2. CASE u # t
    BY <1>1, <1>2, <1>7, <2>1, <2>2 DEF EnsureLinked, CheckLinked, Resolve, ResolveFails, LinkFastInit,
      LinkRefs, LinkStore, Recurse, RecurseDone, Return, callVars, TypeOK, OwnStack
  <2>3. CASE u = t /\ ResolveFails(t)
    BY <1>1, <2>3 DEF ResolveFails, Return, TypeOK
  <2>4. CASE u = t /\ ~ ResolveFails(t)
    BY <1>1, <1>7, <2>4 DEF EnsureLinked, CheckLinked, Resolve, LinkFastInit,
      LinkRefs, LinkStore, Recurse, RecurseDone, Active, callVars
  <2>5. QED
    BY <2>2, <2>3, <2>4
<1>8. ASSUME NEW t \in Thread, DecodeRoot(t) PROVE G
  <2>1. CASE u = t
    BY <1>1, <1>8, <2>1 DEF DecodeRoot, linkVars, TypeOK
  <2>2. CASE u # t
    BY <1>1, <1>2, <1>8, <2>2 DEF DecodeRoot, linkVars, TypeOK
  <2>3. QED
    BY <2>1, <2>2
<1>9. ASSUME NEW t \in Thread, pc[t] = "decoding", NEW i \in Fields(req[t].cls),
             DecodeEnum(t, i) \/ DecodeNested(t, i) \/ DecodeTooDeep(t, i) \/ DecodeUnlinked(t, i)
      PROVE  G
  <2>1. CASE u # t
    BY <1>1, <1>2, <1>9, <2>1 DEF DecodeEnum, DecodeNested, DecodeTooDeep, DecodeUnlinked, Return,
      linkVars, TypeOK
  <2>2. CASE u = t /\ DecodeEnum(t, i)
    BY <1>1, <1>2, <2>2 DEF DecodeEnum, linkVars, TypeOK
  <2>3. CASE u = t /\ (DecodeTooDeep(t, i) \/ DecodeUnlinked(t, i))
    BY <1>1, <1>9, <2>3 DEF DecodeTooDeep, DecodeUnlinked, Return, linkVars, TypeOK
  <2>4. CASE u = t /\ DecodeNested(t, i)
    <3>1. Target[cur[t].refs][i] \in Class
      BY <1>9, <2>4, DecoderFacts DEF DecodeNested
    <3>2. req'[t].cls = Target[cur[t].refs][i]
      BY <1>1, <2>4 DEF DecodeNested, TypeOK, Request
    <3>3. cur'[t].refs = refs[DescOf[Target[cur[t].refs][i]]]
      BY <1>1, <2>4 DEF DecodeNested, TypeOK, Cursor
    <3>4. UNCHANGED <<refs, stack, pc>>
      BY <2>4 DEF DecodeNested, linkVars
    <3>5. QED
      BY <1>1, <1>9, <2>4, <3>1, <3>2, <3>3, <3>4
  <2>5. QED
    BY <1>9, <2>1, <2>2, <2>3, <2>4
<1>10. QED
  BY <1>3, <1>4, <1>5, <1>6, <1>7, <1>8, <1>9 DEF Next, Step, Codec

-----------------------------------------------------------------------------
(* RefsOK, StackOK and NoReentry are preserved. *)

\* FrameDone of an activation that stays as it is, in the next state.
FrameDoneNext(f) ==
  LET d == DescOf[f.cls] IN
  /\ f.at \notin {"check", "resolve"} => \A i \in Fields(f.cls) : Target[f.cls][i] \in defined'
  /\ (f.at \in {"refs", "store", "recurse"} /\ f.cls \in Plain) => fastInit'[d] # None
  /\ f.at \in {"store", "recurse"} => refs'[d] # None
  /\ f.at = "recurse" => linked'[d]
  /\ f.at # "recurse" => f.next = 1

\* What an activation has achieved stays achieved as the stores accumulate.
LEMMA FrameKept ==
  ASSUME Grows, NEW f \in Frame, FrameDone(f)
  PROVE  FrameDoneNext(f)
<1>1. f.cls \in Class /\ DescOf[f.cls] \in Descriptor
  BY LinkingAssumption DEF Frame
<1>2. refs[DescOf[f.cls]] # None => refs'[DescOf[f.cls]] = refs[DescOf[f.cls]]
  BY <1>1 DEF Grows
<1>3. fastInit[DescOf[f.cls]] # None => fastInit'[DescOf[f.cls]] = fastInit[DescOf[f.cls]]
  BY <1>1 DEF Grows
<1>4. linked[DescOf[f.cls]] => linked'[DescOf[f.cls]]
  BY <1>1 DEF Grows
<1>5. Resolvable(f.cls) => \A i \in Fields(f.cls) : Target[f.cls][i] \in defined'
  BY DEF Grows, Resolvable
<1>6. QED
  BY <1>2, <1>3, <1>4, <1>5 DEF FrameDone, FrameDoneNext

\* StackOK and NoReentry of one call stack, its activations as in the next state.
StackNext(r) ==
  /\ \A k \in 1 .. Len(r) : /\ FrameDoneNext(r[k])
                            /\ k < Len(r) => FrameChain(r, k)
  /\ \A i, j \in 1 .. Len(r) :
       (i < j /\ r[j].at # "check") => DescOf[r[i].cls] # DescOf[r[j].cls]

\* So a stack that a step does not touch keeps its facts.
LEMMA StackKept ==
  ASSUME LinkInv, Grows, NEW t \in Thread
  PROVE  StackNext(stack[t])
<1>1. stack[t] \in Seq(Frame)
  BY DEF LinkInv, TypeOK
<1>2. \A k \in 1 .. Len(stack[t]) : stack[t][k] \in Frame
  BY <1>1
<1>3. \A k \in 1 .. Len(stack[t]) : FrameDoneNext(stack[t][k])
  BY <1>2, FrameKept DEF LinkInv, StackOK
<1>4. QED
  BY <1>3 DEF LinkInv, StackOK, NoReentry, StackNext

\* It is enough to look at the stack of the thread that takes the step.
LEMMA StackNextSuffices ==
  ASSUME LinkInv, Grows, NEW t \in Thread, OwnStack(t), StackNext(stack'[t])
  PROVE  StackOK' /\ NoReentry'
<1>1. \A u \in Thread : StackNext(stack'[u])
  BY StackKept DEF OwnStack
<1>2. StackOK'
  BY <1>1 DEF StackNext, FrameDoneNext, StackOK, FrameDone, Resolvable
<1>3. NoReentry'
  BY <1>1 DEF StackNext, NoReentry
<1>4. QED
  BY <1>2, <1>3

\* The innermost activation moves on.
LEMMA GotoInv ==
  ASSUME LinkInv, Grows, NEW t \in Thread, NEW m, Active(t, m), NEW l \in At, Goto(t, l),
         FrameDoneNext([cls |-> Top(t).cls, at |-> l, next |-> Top(t).next]),
         m = "check" => ~ linked[DescOf[Top(t).cls]]
  PROVE  StackOK' /\ NoReentry'
<1> DEFINE n == Len(stack[t])
           s == stack[t]
           r == stack'[t]
<1>1. /\ OwnStack(t) /\ Len(r) = n /\ n \in Nat \ {0} /\ s[n] = Top(t) /\ s[n].at = m
      /\ r[n] = [cls |-> s[n].cls, at |-> l, next |-> s[n].next]
      /\ \A k \in 1 .. n - 1 : r[k] = s[k]
  BY GotoStep, ActiveFacts DEF SameBelow
<1>2. StackNext(s)
  BY StackKept
<1>3. \A k \in 1 .. n - 1 : FrameChain(s, k) /\ FrameDone(s[k])
  <2>1. \A k \in 1 .. n : FrameDone(s[k]) /\ (k < n => FrameChain(s, k))
    BY DEF LinkInv, StackOK
  <2>2. \A k \in 1 .. n - 1 : k \in 1 .. n /\ k < n
    BY <1>1
  <2>3. QED
    BY <2>1, <2>2
<1>n. n = Len(s) /\ (\A k \in 1 .. n - 1 : k \in 1 .. n)
  BY <1>1
<1> HIDE DEF s, r, n
<1>4. \A k \in 1 .. n : FrameDoneNext(r[k])
  <2>1. \A k \in 1 .. n : FrameDoneNext(s[k])
    BY <1>2, <1>n DEF StackNext
  <2>2. \A k \in 1 .. n : k \in 1 .. n - 1 \/ k = n
    BY <1>1
  <2>3. \A k \in 1 .. n - 1 : FrameDoneNext(r[k])
    BY <1>1, <2>1, <1>n
  <2>4. FrameDoneNext(r[n])
    BY <1>1
  <2>5. QED
    BY <2>2, <2>3, <2>4
<1>5. \A k \in 1 .. n - 1 : FrameChain(r, k)
  <2>1. \A k \in 1 .. n : r[k].cls = s[k].cls
    BY <1>1
  <2>2. QED
    BY <1>1, <1>3, <2>1 DEF FrameChain
<1>6. \A i \in 1 .. n - 1 : DescOf[s[i].cls] # DescOf[s[n].cls]
  <2>1. CASE m = "check"
    <3>1. ~ linked[DescOf[s[n].cls]]
      BY <1>1, <2>1
    <3>2. \A i \in 1 .. n - 1 : linked[DescOf[s[i].cls]]
      BY <1>3 DEF FrameChain, FrameDone
    <3>3. QED
      BY <3>1, <3>2
  <2>2. CASE m # "check"
    BY <1>1, <1>2, <1>n, <2>2 DEF StackNext
  <2>3. QED
    BY <2>1, <2>2
<1>7. \A i, j \in 1 .. n : (i < j /\ r[j].at # "check") => DescOf[r[i].cls] # DescOf[r[j].cls]
  <2>1. SUFFICES ASSUME NEW i \in 1 .. n, NEW j \in 1 .. n, i < j, r[j].at # "check"
                 PROVE  DescOf[r[i].cls] # DescOf[r[j].cls]
    OBVIOUS
  <2>2. i \in 1 .. n - 1 /\ r[i] = s[i]
    BY <1>1, <2>1
  <2>3. CASE j = n
    BY <1>1, <1>6, <2>2, <2>3
  <2>4. CASE j # n
    <3>1. n \in Nat
      BY <1>1
    <3>2. j \in 1 .. n - 1
      BY <2>4, <3>1
    <3>3. r[j] = s[j]
      BY <1>1, <3>2
    <3>4. j \in 1 .. Len(s) /\ i \in 1 .. Len(s)
      BY <1>n
    <3>5. QED
      BY <1>2, <2>1, <2>2, <3>3, <3>4 DEF StackNext
  <2>5. QED
    BY <2>3, <2>4
<1>8. StackNext(r)
  BY <1>1, <1>4, <1>5, <1>7 DEF StackNext
<1>9. QED
  BY <1>1, <1>8, StackNextSuffices DEF r

\* The innermost activation returns.
LEMMA PopInv ==
  ASSUME LinkInv, Grows, NEW t \in Thread, NEW m, Active(t, m),
         stack' = [stack EXCEPT ![t] = Pop(@)]
  PROVE  StackOK' /\ NoReentry'
<1> DEFINE n == Len(stack[t])
           s == stack[t]
           r == stack'[t]
<1>1. /\ OwnStack(t) /\ Len(r) = n - 1 /\ n \in Nat \ {0}
      /\ \A k \in 1 .. n - 1 : r[k] = s[k]
  BY PopStep, ActiveFacts DEF SameBelow
<1>2. StackNext(s)
  BY StackKept
<1>3. \A k \in 1 .. n - 1 : FrameDoneNext(r[k])
  BY <1>1, <1>2 DEF StackNext
<1>4. \A k \in 1 .. n - 1 : k < n - 1 => FrameChain(r, k)
  <2>1. \A k \in 1 .. Len(s) : k < Len(s) => FrameChain(s, k)
    BY DEF LinkInv, StackOK
  <2>2. ASSUME NEW k \in 1 .. n - 1 PROVE k \in 1 .. Len(s) /\ k < Len(s)
    BY <1>1
  <2>3. \A k \in 1 .. n - 1 : FrameChain(s, k)
    BY <2>1, <2>2
  <2>4. \A k \in 1 .. n - 1 : k < n - 1 => k + 1 \in 1 .. n - 1
    BY <1>1
  <2>5. QED
    BY <1>1, <2>3, <2>4 DEF FrameChain
<1>5. \A i, j \in 1 .. n - 1 :
        (i < j /\ r[j].at # "check") => DescOf[r[i].cls] # DescOf[r[j].cls]
  BY <1>1, <1>2 DEF StackNext
<1>6. StackNext(r)
  BY <1>1, <1>3, <1>4, <1>5, SMTT(30) DEF StackNext
<1>7. QED
  BY <1>1, <1>6, StackNextSuffices

\* The innermost activation comes to its next target.
LEMMA RecurseInv ==
  ASSUME LinkInv, Grows, NEW t \in Thread, Recurse(t)
  PROVE  StackOK' /\ NoReentry'
<1> DEFINE n == Len(stack[t])
           s == stack[t]
           r == stack'[t]
           c == Target[s[n].cls][s[n].next]
           m == Len(r)
<1>1. /\ s[n] = Top(t) /\ n \in Nat \ {0} /\ s[n].at = "recurse" /\ s[n] \in Frame
      /\ s[n].next \in Fields(s[n].cls)
  BY ActiveFacts DEF Recurse
<1>2. /\ OwnStack(t)
      /\ m = IF c \in Class THEN n + 1 ELSE n
      /\ \A k \in 1 .. n - 1 : r[k] = s[k]
      /\ r[n] = [cls |-> s[n].cls, at |-> "recurse", next |-> s[n].next + 1]
      /\ c \in Class => r[n + 1] = [cls |-> c, at |-> "check", next |-> 1]
  BY <1>1, RecurseStep DEF SameBelow
<1>3. StackNext(s)
  BY StackKept
<1>4. /\ \A k \in 1 .. n : FrameDoneNext(s[k]) /\ (k < n => FrameChain(s, k))
      /\ \A i, j \in 1 .. n : (i < j /\ s[j].at # "check") => DescOf[s[i].cls] # DescOf[s[j].cls]
  BY <1>3 DEF StackNext
<1> HIDE DEF s, r, n, c, m
<1>5. \A k \in 1 .. n : r[k].cls = s[k].cls /\ r[k].at = s[k].at
  BY <1>1, <1>2
<1>6. ASSUME NEW k \in 1 .. m PROVE FrameDoneNext(r[k])
  <2>1. CASE k = n
    BY <1>1, <1>2, <1>4, <2>1 DEF FrameDoneNext
  <2>2. CASE k < n
    BY <1>1, <1>2, <1>4, <2>2
  <2>3. CASE k > n
    <3>1. k = n + 1 /\ r[k] = [cls |-> c, at |-> "check", next |-> 1]
      BY <1>1, <1>2, <2>3
    <3>2. QED
      BY <3>1 DEF FrameDoneNext
  <2>4. QED
    BY <1>1, <1>2, <2>1, <2>2, <2>3
<1>7. ASSUME NEW k \in 1 .. m, k < m PROVE FrameChain(r, k)
  <2>1. CASE k = n
    <3>1. c \in Class
      BY <1>1, <1>2, <1>7, <2>1
    <3>2. r[n].next - 1 = s[n].next
      BY <1>1, <1>2 DEF Frame
    <3>3. QED
      BY <1>1, <1>2, <2>1, <3>1, <3>2 DEF FrameChain, c
  <2>2. CASE k < n
    <3>1. k \in 1 .. n /\ k + 1 \in 1 .. n /\ k \in 1 .. n - 1
      BY <1>1, <2>2
    <3>2. QED
      BY <1>2, <1>4, <1>5, <2>2, <3>1 DEF FrameChain
  <2>3. QED
    BY <1>1, <1>2, <1>7, <2>1, <2>2
<1>8. ASSUME NEW i \in 1 .. m, NEW j \in 1 .. m, i < j, r[j].at # "check"
      PROVE  DescOf[r[i].cls] # DescOf[r[j].cls]
  <2>1. j \in 1 .. n /\ i \in 1 .. n
    BY <1>1, <1>2, <1>8
  <2>2. QED
    BY <1>4, <1>5, <1>8, <2>1
<1>9. StackNext(r)
  BY <1>6, <1>7, <1>8 DEF StackNext, m
<1>10. QED
  BY <1>2, <1>9, StackNextSuffices DEF r

\* Every step keeps the order of the activations and resolves no descriptor
\* that an outer activation resolves.
LEMMA StackStep == LinkInv /\ [Next]_vars => StackOK' /\ NoReentry'
<1> SUFFICES ASSUME LinkInv, [Next]_vars PROVE StackOK' /\ NoReentry'
  OBVIOUS
<1>1. Grows
  BY StepGrows
<1>2. ASSUME UNCHANGED stack PROVE StackOK' /\ NoReentry'
  <2>1. \A u \in Thread : StackNext(stack[u])
    BY <1>1, StackKept
  <2>2. StackOK'
    BY <1>2, <2>1 DEF StackNext, FrameDoneNext, StackOK, FrameDone, Resolvable
  <2>3. NoReentry'
    BY <1>2 DEF LinkInv, NoReentry
  <2>4. QED
    BY <2>2, <2>3
<1>3. CASE UNCHANGED vars
  BY <1>2, <1>3 DEF vars, linkVars
<1>4. ASSUME NEW x \in Type, Define(x) PROVE StackOK' /\ NoReentry'
  BY <1>2, <1>4 DEF Define, linkVars
<1>5. ASSUME NEW t \in Thread, NEW c \in Class, NEW op, Begin(t, c, op)
      PROVE  StackOK' /\ NoReentry'
  <2>1. CASE UNCHANGED stack
    BY <1>2, <2>1
  <2>2. CASE stack' = [stack EXCEPT ![t] = Push(@, c)]
    <3>1. stack[t] = <<>>
      BY <1>5 DEF Begin, LinkInv, CallOK
    <3>2. OwnStack(t) /\ Len(stack'[t]) = 1 /\ stack'[t][1] = [cls |-> c, at |-> "check", next |-> 1]
      BY <2>2, <3>1, BeginStep
    <3>3. StackNext(stack'[t])
      BY <3>2 DEF StackNext, FrameDoneNext
    <3>4. QED
      BY <1>1, <3>2, <3>3, StackNextSuffices
  <2>3. QED
    BY <1>5, <2>1, <2>2 DEF Begin
<1>6. ASSUME NEW t \in Thread, Linked(t) \/ Codec(t) PROVE StackOK' /\ NoReentry'
  BY <1>2, <1>6 DEF Linked, Codec, Encode, DecodeRoot, DecodeEnd, DecodeEnum, DecodeNested,
                    DecodeTooDeep, DecodeUnlinked, linkVars
<1>7. ASSUME NEW t \in Thread, EnsureLinked(t) PROVE StackOK' /\ NoReentry'
  <2> DEFINE f == Top(t)
             g(l) == [cls |-> f.cls, at |-> l, next |-> f.next]
  <2>1. CASE CheckLinked(t)
    <3>1. f.at = "check" /\ FrameDone(f) /\ "resolve" \in At /\ Active(t, "check")
      BY <2>1, ActiveFacts DEF CheckLinked, At
    <3>2. FrameDoneNext(g("resolve"))
      BY <3>1 DEF FrameDone, FrameDoneNext
    <3>3. QED
      BY <1>1, <2>1, <3>1, <3>2, GotoInv, PopInv DEF CheckLinked
  <2>2. CASE Resolve(t)
    <3>1. f.at = "resolve" /\ FrameDone(f) /\ "fast" \in At /\ Active(t, "resolve")
      BY <2>2, ActiveFacts DEF Resolve, At
    <3>2. FrameDoneNext(g("fast"))
      BY <1>1, <2>2, <3>1 DEF FrameDone, FrameDoneNext, Resolve, Resolvable, Grows
    <3>3. QED
      BY <1>1, <2>2, <3>1, <3>2, GotoInv DEF Resolve
  <2>3. CASE ResolveFails(t)
    <3>1. OwnStack(t) /\ stack'[t] = <<>>
      BY <2>3, ClearStep DEF ResolveFails
    <3>2. StackNext(stack'[t])
      BY <3>1 DEF StackNext
    <3>3. QED
      BY <1>1, <3>1, <3>2, StackNextSuffices
  <2>4. CASE LinkFastInit(t)
    <3>1. /\ f.at = "fast" /\ f \in Frame /\ FrameDone(f) /\ "refs" \in At /\ Active(t, "fast")
          /\ f.cls \in Class /\ DescOf[f.cls] \in Descriptor
      BY <2>4, ActiveFacts DEF LinkFastInit, At
    <3>2. FrameDoneNext(f)
      BY <1>1, <3>1, FrameKept
    <3>3. fastInit \in [Descriptor -> Class \cup {None}]
      BY DEF LinkInv, TypeOK
    <3>4. Once(fastInit, DescOf[f.cls], f.cls)[DescOf[f.cls]] # None
      BY <3>1, <3>3, OnceFacts
    <3>5. f.cls \in Plain => fastInit'[DescOf[f.cls]] # None
      BY <2>4, <3>4 DEF LinkFastInit
    <3>6. FrameDoneNext(g("refs"))
      BY <3>1, <3>2, <3>5 DEF FrameDoneNext
    <3>7. QED
      BY <1>1, <2>4, <3>1, <3>6, GotoInv DEF LinkFastInit
  <2>5. CASE LinkRefs(t)
    <3>1. /\ f.at = "refs" /\ f \in Frame /\ FrameDone(f) /\ "store" \in At /\ Active(t, "refs")
          /\ f.cls \in Class /\ DescOf[f.cls] \in Descriptor
      BY <2>5, ActiveFacts DEF LinkRefs, At
    <3>2. FrameDoneNext(f)
      BY <1>1, <3>1, FrameKept
    <3>3. refs \in [Descriptor -> Class \cup {None}]
      BY DEF LinkInv, TypeOK
    <3>4. Once(refs, DescOf[f.cls], f.cls)[DescOf[f.cls]] # None
      BY <3>1, <3>3, OnceFacts
    <3>5. refs'[DescOf[f.cls]] # None
      BY <2>5, <3>4 DEF LinkRefs
    <3>6. FrameDoneNext(g("store"))
      BY <3>1, <3>2, <3>5 DEF FrameDoneNext
    <3>7. QED
      BY <1>1, <2>5, <3>1, <3>6, GotoInv DEF LinkRefs
  <2>6. CASE LinkStore(t)
    <3>1. /\ f.at = "store" /\ f \in Frame /\ FrameDone(f) /\ "recurse" \in At /\ Active(t, "store")
          /\ f.cls \in Class /\ DescOf[f.cls] \in Descriptor
      BY <2>6, ActiveFacts DEF LinkStore, At
    <3>2. FrameDoneNext(f)
      BY <1>1, <3>1, FrameKept
    <3>3. linked'[DescOf[f.cls]]
      BY <2>6, <3>1 DEF LinkStore, LinkInv, TypeOK
    <3>4. FrameDoneNext(g("recurse"))
      BY <3>1, <3>2, <3>3 DEF FrameDoneNext
    <3>5. QED
      BY <1>1, <2>6, <3>1, <3>4, GotoInv DEF LinkStore
  <2>7. CASE Recurse(t)
    BY <1>1, <2>7, RecurseInv
  <2>8. CASE RecurseDone(t)
    BY <1>1, <2>8, PopInv DEF RecurseDone
  <2>9. QED
    BY <1>7, <2>1, <2>2, <2>3, <2>4, <2>5, <2>6, <2>7, <2>8 DEF EnsureLinked
<1>8. QED
  BY <1>3, <1>4, <1>5, <1>6, <1>7 DEF Next, Step

\* Every step keeps the order of the stores: fast_init, refs, linked.
LEMMA RefsStep == LinkInv /\ [Next]_vars => RefsOK'
<1> SUFFICES ASSUME LinkInv, [Next]_vars, NEW d \in Descriptor
             PROVE  /\ refs'[d] # None => DescOf[refs'[d]] = d /\ Resolvable(refs[d])'
                    /\ linked'[d] => refs'[d] # None
                    /\ (linked'[d] /\ {c \in Class : DescOf[c] = d} \subseteq Plain)
                         => fastInit'[d] # None
  BY DEF RefsOK
<1> DEFINE G == /\ refs'[d] # None => DescOf[refs'[d]] = d /\ Resolvable(refs[d])'
                /\ linked'[d] => refs'[d] # None
                /\ (linked'[d] /\ {c \in Class : DescOf[c] = d} \subseteq Plain)
                     => fastInit'[d] # None
<1>1. /\ refs[d] # None => DescOf[refs[d]] = d /\ Resolvable(refs[d])
      /\ linked[d] => refs[d] # None
      /\ (linked[d] /\ {c \in Class : DescOf[c] = d} \subseteq Plain) => fastInit[d] # None
  BY DEF LinkInv, RefsOK
<1>2. /\ defined \subseteq defined'
      /\ refs[d] # None => refs'[d] = refs[d]
      /\ fastInit[d] # None => fastInit'[d] = fastInit[d]
  BY StepGrows DEF Grows
<1>3. ASSUME refs'[d] = refs[d], linked'[d] = linked[d] PROVE G
  BY <1>1, <1>2, <1>3 DEF Resolvable
<1>4. CASE UNCHANGED vars
  BY <1>3, <1>4 DEF vars, linkVars
<1>5. ASSUME NEW x \in Type, Define(x) PROVE G
  BY <1>3, <1>5 DEF Define, linkVars
<1>6. ASSUME NEW t \in Thread, NEW c \in Class, NEW op, Begin(t, c, op) PROVE G
  BY <1>3, <1>6, SMTT(30) DEF Begin
<1>7. ASSUME NEW t \in Thread, Linked(t) \/ Codec(t) PROVE G
  BY <1>3, <1>7 DEF Linked, Codec, Encode, DecodeRoot, DecodeEnd, DecodeEnum, DecodeNested,
                    DecodeTooDeep, DecodeUnlinked, linkVars
<1>8. ASSUME NEW t \in Thread, LinkRefs(t) PROVE G
  <2> DEFINE c == Top(t).cls
  <2>1. c \in Class /\ DescOf[c] \in Descriptor /\ Top(t).at = "refs" /\ FrameDone(Top(t))
    BY <1>8, ActiveFacts DEF LinkRefs
  <2>2. Resolvable(c) /\ c # None
    BY <2>1, LinkingAssumption DEF FrameDone, Type
  <2>3. refs' = Once(refs, DescOf[c], c) /\ linked' = linked /\ refs \in [Descriptor -> Class \cup {None}]
    BY <1>8 DEF LinkRefs, LinkInv, TypeOK
  <2> HIDE DEF c
  <2>4. refs'[d] = refs[d] \/ (d = DescOf[c] /\ refs'[d] = c)
    BY <2>1, <2>3 DEF Once
  <2>5. CASE d = DescOf[c] /\ refs'[d] = c
    BY <1>1, <1>2, <2>2, <2>3, <2>5 DEF Resolvable
  <2>6. QED
    BY <1>3, <2>3, <2>4, <2>5
<1>9. ASSUME NEW t \in Thread, LinkStore(t) PROVE G
  <2> DEFINE c == Top(t).cls
  <2>1. c \in Class /\ DescOf[c] \in Descriptor /\ Top(t).at = "store" /\ FrameDone(Top(t))
    BY <1>9, ActiveFacts DEF LinkStore
  <2>2. refs[DescOf[c]] # None /\ (c \in Plain => fastInit[DescOf[c]] # None)
    BY <2>1 DEF FrameDone
  <2>3. refs' = refs /\ linked' = [linked EXCEPT ![DescOf[c]] = TRUE] /\ linked \in [Descriptor -> BOOLEAN]
    BY <1>9 DEF LinkStore, LinkInv, TypeOK
  <2> HIDE DEF c
  <2>4. CASE d = DescOf[c]
    BY <1>1, <1>2, <2>1, <2>2, <2>3, <2>4 DEF Resolvable
  <2>5. CASE d # DescOf[c]
    BY <1>3, <2>3, <2>5
  <2>6. QED
    BY <2>4, <2>5
<1>10. ASSUME NEW t \in Thread, EnsureLinked(t), ~ LinkRefs(t), ~ LinkStore(t) PROVE G
  BY <1>3, <1>10 DEF EnsureLinked, CheckLinked, Resolve, ResolveFails, LinkFastInit, Recurse, RecurseDone
<1>11. QED
  BY <1>4, <1>5, <1>6, <1>7, <1>8, <1>9, <1>10 DEF Next, Step

-----------------------------------------------------------------------------
(* Covered is preserved, when the classes that share a descriptor resolve  *)
(* their references alike.                                                 *)

SomeoneWillLink(t, d, i) ==
  \E k \in 1 .. Len(stack[t]) : WillLink(stack[t], k, d, i)

\* It is enough to follow what thread t, which takes the step, was to link.
LEMMA CoveredSuffices ==
  ASSUME LinkInv, Covered, Grows, NEW t \in Thread, OwnStack(t),
         \A d \in Descriptor : linked'[d] /\ ~ linked[d]
           => \A i \in Idx(d) : SomeoneWillLink(t, d, i)',
         \A d \in Descriptor : \A i \in Idx(d) : \A k \in 1 .. Len(stack[t]) :
           linked[d] /\ Kind[d][i] = "message" /\ WillLink(stack[t], k, d, i)
             => \/ linked'[DescOf[Target[refs[d]][i]]]
                \/ d \in abandoned'
                \/ SomeoneWillLink(t, d, i)'
  PROVE  Covered'
<1> SUFFICES ASSUME NEW d \in Descriptor, linked'[d], d \notin abandoned',
                    NEW i \in Idx(d), Kind[d][i] = "message"
             PROVE  \/ linked'[DescOf[Target[refs'[d]][i]]]
                    \/ \E u \in Thread : SomeoneWillLink(u, d, i)'
  BY DEF Covered, SomeoneWillLink
<1>1. CASE ~ linked[d]
  BY <1>1
<1>2. CASE linked[d]
  <2>1. refs[d] # None /\ refs'[d] = refs[d] /\ d \notin abandoned
    BY <1>2 DEF LinkInv, RefsOK, Grows
  <2>2. PICK c : c = refs[d] /\ c \in Class /\ DescOf[c] = d /\ Resolvable(c)
    BY <2>1 DEF LinkInv, RefsOK, TypeOK
  <2>3. i \in Fields(c) /\ TypeOK
    BY <2>2 DEF Fields, LinkInv
  <2>4. Target[c][i] \in Class
    BY <2>2, <2>3, ResolvedTarget
  <2>5. DescOf[Target[refs[d]][i]] \in Descriptor
    BY <2>2, <2>4, LinkingAssumption
  <2>6. CASE linked[DescOf[Target[refs[d]][i]]]
    BY <2>1, <2>5, <2>6 DEF Grows
  <2>7. CASE \E u \in Thread : \E k \in 1 .. Len(stack[u]) : WillLink(stack[u], k, d, i)
    <3>1. PICK u \in Thread : \E k \in 1 .. Len(stack[u]) : WillLink(stack[u], k, d, i)
      BY <2>7
    <3>2. CASE u = t
      BY <1>2, <2>1, <3>1, <3>2
    <3>3. CASE u # t
      BY <3>1, <3>3 DEF OwnStack, SomeoneWillLink
    <3>4. QED
      BY <3>2, <3>3
  <2>8. QED
    BY <1>2, <2>1, <2>6, <2>7 DEF LinkInv, Covered
<1>3. QED
  BY <1>1, <1>2

\* No activation of any thread changes, and nothing is linked.
LEMMA CoveredUnchanged ==
  ASSUME LinkInv, Covered, Grows, UNCHANGED <<stack, linked>>
  PROVE  Covered'
<1>1. \A d \in Descriptor : linked[d] => refs'[d] = refs[d]
  BY DEF LinkInv, RefsOK, Grows
<1>2. QED
  BY <1>1 DEF LinkInv, Covered, Grows

\* The innermost activation, not in its loop, moves on or starts its loop.
LEMMA CoveredGoto ==
  ASSUME LinkInv, Covered, Grows, NEW t \in Thread, NEW m, Active(t, m), m # "recurse",
         NEW l \in At, Goto(t, l),
         \/ linked' = linked
         \/ l = "recurse" /\ m = "store" /\ linked' = [linked EXCEPT ![DescOf[Top(t).cls]] = TRUE]
  PROVE  Covered'
<1> DEFINE n == Len(stack[t])
           s == stack[t]
           r == stack'[t]
<1>1. /\ OwnStack(t) /\ Len(r) = n /\ n \in Nat \ {0} /\ s[n] = Top(t) /\ s[n].at = m
      /\ r[n] = [cls |-> s[n].cls, at |-> l, next |-> s[n].next]
      /\ \A k \in 1 .. n - 1 : r[k] = s[k]
      /\ FrameDone(s[n])
  BY GotoStep, ActiveFacts DEF SameBelow
<1>2. s[n].next = 1
  BY <1>1 DEF FrameDone
<1>3. ASSUME NEW d \in Descriptor, linked'[d], ~ linked[d], NEW i \in Idx(d)
      PROVE  WillLink(r, n, d, i)
  <2>1. d = DescOf[s[n].cls] /\ l = "recurse"
    BY <1>1, <1>3 DEF LinkInv, TypeOK
  <2>2. i >= 1
    BY <1>3 DEF Idx
  <2>3. QED
    BY <1>1, <1>2, <2>1, <2>2 DEF WillLink
<1>4. ASSUME NEW d \in Descriptor, NEW i \in Idx(d), NEW k \in 1 .. n, WillLink(s, k, d, i)
      PROVE  WillLink(r, k, d, i)
  <2>1. k # n
    BY <1>1, <1>4 DEF WillLink
  <2>2. r[k] = s[k] /\ k < Len(r)
    BY <1>1, <2>1
  <2>3. QED
    BY <1>4, <2>2 DEF WillLink
<1>5. n \in 1 .. Len(r)
  BY <1>1
<1>6. QED
  BY <1>1, <1>3, <1>4, <1>5, CoveredSuffices DEF SomeoneWillLink

\* The innermost activation returns, its descriptor being linked.
LEMMA CoveredPop ==
  ASSUME LinkInv, Covered, Grows, SameNamespace, NEW t \in Thread, NEW m, Active(t, m),
         stack' = [stack EXCEPT ![t] = Pop(@)], linked' = linked,
         linked[DescOf[Top(t).cls]],
         m = "recurse" => Top(t).next \notin Fields(Top(t).cls)
  PROVE  Covered'
<1> DEFINE n == Len(stack[t])
           s == stack[t]
           r == stack'[t]
<1>1. /\ OwnStack(t) /\ Len(r) = n - 1 /\ n \in Nat \ {0} /\ s[n] = Top(t) /\ s[n].at = m
      /\ \A k \in 1 .. n - 1 : r[k] = s[k]
      /\ s[n] \in Frame
  <2>1. /\ n \in Nat \ {0} /\ s[n] = Top(t) /\ s[n].at = m /\ s[n] \in Frame
    BY ActiveFacts
  <2>2. OwnStack(t) /\ Len(r) = n - 1 /\ \A k \in 1 .. n - 1 : r[k] = s[k]
    BY PopStep DEF SameBelow
  <2>3. QED
    BY <2>1, <2>2
<1>2. ASSUME NEW d \in Descriptor, NEW i \in Idx(d), NEW k \in 1 .. n, linked[d],
             WillLink(s, k, d, i)
      PROVE  linked'[DescOf[Target[refs[d]][i]]] \/ SomeoneWillLink(t, d, i)'
  <2>1. DescOf[s[k].cls] = d /\ s[k].at = "recurse" /\ s[k] \in Frame
    BY <1>2 DEF WillLink, LinkInv, TypeOK
  <2>2. k # n
    <3>1. SUFFICES ASSUME k = n PROVE FALSE
      OBVIOUS
    <3>2. m = "recurse" /\ i >= s[n].next
      BY <1>1, <1>2, <2>1, <3>1 DEF WillLink
    <3>3. i \in 1 .. Len(Kind[d]) /\ s[n].next \in Nat \ {0} /\ Len(Kind[d]) \in Nat
      BY <1>1, LinkingAssumption DEF Idx, Frame
    <3>4. QED
      BY <1>1, <2>1, <3>1, <3>2, <3>3 DEF Fields, Idx
  <2>3. k \in 1 .. n - 1 /\ r[k] = s[k]
    BY <1>1, <2>2
  <2>4. CASE i >= s[k].next \/ k < n - 1
    <3>1. WillLink(r, k, d, i)
      BY <1>1, <1>2, <2>3, <2>4 DEF WillLink
    <3>2. QED
      BY <1>1, <2>3, <3>1 DEF SomeoneWillLink
  <2>5. CASE i = s[k].next - 1 /\ k = n - 1
    <3>1. FrameChain(s, k) /\ s[k + 1] = s[n]
      BY <1>1, <2>3, <2>5 DEF LinkInv, StackOK
    <3>2. s[n].cls = Target[s[k].cls][i]
      BY <2>5, <3>1 DEF FrameChain
    <3>3. refs[d] \in Class /\ DescOf[refs[d]] = d /\ s[k].cls \in Class
      BY <1>2, <2>1 DEF LinkInv, RefsOK, TypeOK, Frame
    <3>4. Target[refs[d]] = Target[s[k].cls]
      BY <2>1, <3>3 DEF SameNamespace
    <3>5. QED
      BY <1>1, <3>2, <3>4
  <2>6. QED
    BY <1>1, <1>2, <2>3, <2>4, <2>5 DEF WillLink
<1>3. QED
  BY <1>1, <1>2, CoveredSuffices

\* The innermost activation comes to its next target.
LEMMA CoveredRecurse ==
  ASSUME LinkInv, Covered, Grows, SameNamespace, NEW t \in Thread, Recurse(t)
  PROVE  Covered'
<1> DEFINE n == Len(stack[t])
           s == stack[t]
           r == stack'[t]
           c == Target[s[n].cls][s[n].next]
<1>1. /\ s[n] = Top(t) /\ n \in Nat \ {0} /\ s[n].at = "recurse" /\ s[n] \in Frame
      /\ s[n].next \in Fields(s[n].cls) /\ FrameDone(s[n])
  BY ActiveFacts DEF Recurse
<1>2. /\ OwnStack(t)
      /\ Len(r) = IF c \in Class THEN n + 1 ELSE n
      /\ \A k \in 1 .. n - 1 : r[k] = s[k]
      /\ r[n] = [cls |-> s[n].cls, at |-> "recurse", next |-> s[n].next + 1]
  BY <1>1, RecurseStep DEF SameBelow
<1>3. linked' = linked
  BY DEF Recurse
<1>4. ASSUME NEW d \in Descriptor, NEW i \in Idx(d), NEW k \in 1 .. n, Kind[d][i] = "message",
             WillLink(s, k, d, i)
      PROVE  WillLink(r, k, d, i) /\ k \in 1 .. Len(r)
  <2>1. k \in 1 .. Len(r)
    BY <1>1, <1>2
  <2>2. CASE k < n
    BY <1>1, <1>2, <1>4, <2>1, <2>2 DEF WillLink
  <2>3. CASE k = n
    <3>1. /\ DescOf[s[n].cls] = d /\ i >= s[n].next
          /\ i \in Nat /\ s[n].next \in Nat /\ s[n].cls \in Class
      BY <1>1, <1>4, <2>3 DEF WillLink, Frame, Idx
    <3>2. CASE i = s[n].next
      <4>1. TypeOK /\ Resolvable(s[n].cls) /\ i \in Fields(s[n].cls)
        BY <1>1, <3>2 DEF LinkInv, FrameDone
      <4>2. c \in Class
        BY <1>4, <3>1, <3>2, <4>1, ResolvedTarget
      <4>3. QED
        BY <1>1, <1>2, <2>3, <3>1, <3>2, <4>2 DEF WillLink
    <3>3. CASE i # s[n].next
      BY <1>1, <1>2, <2>3, <3>1, <3>3 DEF WillLink
    <3>4. QED
      BY <3>2, <3>3
  <2>4. QED
    BY <1>1, <2>1, <2>2, <2>3
<1>5. QED
  BY <1>2, <1>3, <1>4, CoveredSuffices DEF SomeoneWillLink

\* Every step keeps responsibility for the referenced classes.
LEMMA CoveredStep == LinkInv /\ Covered /\ SameNamespace /\ [Next]_vars => Covered'
<1> SUFFICES ASSUME LinkInv, Covered, SameNamespace, [Next]_vars PROVE Covered'
  OBVIOUS
<1>1. Grows
  BY StepGrows
<1>2. CASE UNCHANGED vars
  BY <1>1, <1>2, CoveredUnchanged DEF vars, linkVars
<1>3. ASSUME NEW x \in Type, Define(x) PROVE Covered'
  BY <1>1, <1>3, CoveredUnchanged DEF Define, linkVars
<1>4. ASSUME NEW t \in Thread, NEW c \in Class, NEW op, Begin(t, c, op) PROVE Covered'
  <2>1. CASE UNCHANGED stack
    BY <1>1, <1>4, <2>1, CoveredUnchanged DEF Begin
  <2>2. CASE stack' = [stack EXCEPT ![t] = Push(@, c)]
    <3>1. stack[t] = <<>> /\ linked' = linked
      BY <1>4 DEF Begin, LinkInv, CallOK
    <3>2. OwnStack(t) /\ Len(stack[t]) = 0
      BY <2>2, <3>1, BeginStep
    <3>3. /\ \A j \in 1 .. Len(stack[t]) : FALSE
          /\ \A d \in Descriptor : ~ (linked'[d] /\ ~ linked[d])
      BY <3>1, <3>2
    <3>4. QED
      BY <1>1, <3>2, <3>3, CoveredSuffices
  <2>3. QED
    BY <1>4, <2>1, <2>2 DEF Begin
<1>5. ASSUME NEW t \in Thread, Linked(t) \/ Codec(t) PROVE Covered'
  BY <1>1, <1>5, CoveredUnchanged DEF Linked, Codec, Encode, DecodeRoot, DecodeEnd, DecodeEnum,
     DecodeNested, DecodeTooDeep, DecodeUnlinked, linkVars
<1>6. ASSUME NEW t \in Thread, EnsureLinked(t) PROVE Covered'
  <2>1. CASE CheckLinked(t)
    <3>1. /\ Active(t, "check") /\ "check" # "recurse" /\ "resolve" \in At /\ linked' = linked
          /\ \/ Goto(t, "resolve")
             \/ linked[DescOf[Top(t).cls]] /\ stack' = [stack EXCEPT ![t] = Pop(@)]
      BY <2>1 DEF CheckLinked, At
    <3>2. CASE Goto(t, "resolve")
      BY <1>1, <3>1, <3>2, CoveredGoto
    <3>3. CASE linked[DescOf[Top(t).cls]] /\ stack' = [stack EXCEPT ![t] = Pop(@)]
      BY <1>1, <3>1, <3>3, CoveredPop
    <3>4. QED
      BY <3>1, <3>2, <3>3
  <2>2. CASE Resolve(t)
    BY <1>1, <2>2, CoveredGoto DEF Resolve, At
  <2>3. CASE ResolveFails(t)
    <3>1. OwnStack(t) /\ linked' = linked
      BY <2>3, ClearStep DEF ResolveFails
    <3>2. \A k \in 1 .. Len(stack[t]) : DescOf[stack[t][k].cls] \in abandoned'
      BY <2>3 DEF ResolveFails
    <3>3. QED
      BY <1>1, <3>1, <3>2, CoveredSuffices DEF WillLink
  <2>4. CASE LinkFastInit(t)
    BY <1>1, <2>4, CoveredGoto DEF LinkFastInit, At
  <2>5. CASE LinkRefs(t)
    BY <1>1, <2>5, CoveredGoto DEF LinkRefs, At
  <2>6. CASE LinkStore(t)
    BY <1>1, <2>6, CoveredGoto DEF LinkStore, At
  <2>7. CASE Recurse(t)
    BY <1>1, <2>7, CoveredRecurse
  <2>8. CASE RecurseDone(t)
    <3>1. /\ Active(t, "recurse") /\ linked' = linked /\ stack' = [stack EXCEPT ![t] = Pop(@)]
          /\ Top(t).next \notin Fields(Top(t).cls)
      BY <2>8 DEF RecurseDone
    <3>2. linked[DescOf[Top(t).cls]]
      BY <3>1, ActiveFacts DEF FrameDone
    <3>3. QED
      BY <1>1, <3>1, <3>2, CoveredPop
  <2>9. QED
    BY <1>6, <2>1, <2>2, <2>3, <2>4, <2>5, <2>6, <2>7, <2>8 DEF EnsureLinked
<1>7. QED
  BY <1>2, <1>3, <1>4, <1>5, <1>6 DEF Next, Step

-----------------------------------------------------------------------------
(* CallLinked and HalfLinked are preserved. *)

\* Nothing of what a call relies on changes.
LEMMA CallLinkedKept ==
  ASSUME LinkInv, Grows, NEW u \in Thread, pc'[u] = pc[u], req'[u] = req[u],
         stack'[u] = stack[u]
  PROVE  /\ pc'[u] = "linking" => IF stack'[u] = <<>> THEN linked'[DescOf[req'[u].cls]]
                                                      ELSE stack'[u][1].cls = req'[u].cls
         /\ pc'[u] = "ready" => linked'[DescOf[req'[u].cls]]
<1>1. pc[u] # "idle" => DescOf[req[u].cls] \in Descriptor
  BY LinkingAssumption DEF LinkInv, CallOK
<1>2. pc[u] # "idle" /\ linked[DescOf[req[u].cls]] => linked'[DescOf[req[u].cls]]
  BY <1>1 DEF Grows
<1>3. QED
  BY <1>2 DEF LinkInv, CallLinked

\* Every step keeps the class of a call linked before the codec is reached.
LEMMA CallLinkedStep == LinkInv /\ [Next]_vars => CallLinked'
<1> SUFFICES ASSUME LinkInv, [Next]_vars, NEW u \in Thread
             PROVE  /\ pc'[u] = "linking" => IF stack'[u] = <<>> THEN linked'[DescOf[req'[u].cls]]
                                                                 ELSE stack'[u][1].cls = req'[u].cls
                    /\ pc'[u] = "ready" => linked'[DescOf[req'[u].cls]]
  BY DEF CallLinked
<1> DEFINE G == /\ pc'[u] = "linking" => IF stack'[u] = <<>> THEN linked'[DescOf[req'[u].cls]]
                                                             ELSE stack'[u][1].cls = req'[u].cls
                /\ pc'[u] = "ready" => linked'[DescOf[req'[u].cls]]
<1>1. Grows /\ TypeOK
  BY StepGrows DEF LinkInv
<1>2. CASE UNCHANGED <<pc, req, stack>>
  BY <1>1, <1>2, CallLinkedKept
<1>3. ASSUME NEW t \in Thread, NEW c \in Class, NEW op, Begin(t, c, op) PROVE G
  <2>1. CASE u # t
    <3>1. pc'[u] = pc[u] /\ req'[u] = req[u] /\ stack'[u] = stack[u]
      BY <1>1, <1>3, <2>1 DEF Begin, TypeOK
    <3>2. QED
      BY <1>1, <3>1, CallLinkedKept
  <2>2. CASE u = t
    <3>1. req'[t].cls = c /\ stack[t] = <<>> /\ linked' = linked
      BY <1>1, <1>3 DEF Begin, TypeOK, LinkInv, CallOK
    <3>2. CASE linked[DescOf[c]]
      BY <1>1, <1>3, <2>2, <3>1, <3>2 DEF Begin, TypeOK
    <3>3. CASE ~ linked[DescOf[c]]
      <4>1. /\ OwnStack(t) /\ Len(stack'[t]) = 1
            /\ stack'[t][1] = [cls |-> c, at |-> "check", next |-> 1]
        BY <1>3, <3>1, <3>3, BeginStep DEF Begin
      <4>2. pc'[t] = "linking"
        BY <1>1, <1>3, <3>3 DEF Begin, TypeOK
      <4>3. stack'[t] # <<>>
        <5>1. stack'[t] \in Seq(Frame)
          BY <4>1 DEF OwnStack
        <5>2. QED
          BY <4>1, <5>1
      <4>4. QED
        BY <2>2, <3>1, <4>1, <4>2, <4>3
    <3>4. QED
      BY <3>2, <3>3
  <2>3. QED
    BY <2>1, <2>2
<1>4. ASSUME NEW t \in Thread, Linked(t) PROVE G
  <2>1. CASE u # t
    <3>1. pc'[u] = pc[u] /\ req'[u] = req[u] /\ stack'[u] = stack[u]
      BY <1>1, <1>4, <2>1 DEF Linked, linkVars, TypeOK
    <3>2. QED
      BY <1>1, <3>1, CallLinkedKept
  <2>2. CASE u = t
    BY <1>1, <1>4, <2>2 DEF Linked, linkVars, TypeOK, LinkInv, CallLinked
  <2>3. QED
    BY <2>1, <2>2
<1>5. ASSUME NEW t \in Thread, EnsureLinked(t) PROVE G
  <2>1. OwnStack(t)
    BY <1>5, EnsureLinkedStack
  <2>2. CASE u # t
    <3>1. pc'[u] = pc[u] /\ req'[u] = req[u] /\ stack'[u] = stack[u]
      BY <1>1, <1>5, <2>1, <2>2 DEF EnsureLinked, CheckLinked, Resolve, ResolveFails, LinkFastInit,
        LinkRefs, LinkStore, Recurse, RecurseDone, Return, callVars, TypeOK, OwnStack
    <3>2. QED
      BY <1>1, <3>1, CallLinkedKept
  <2>3. CASE u = t /\ ResolveFails(t)
    BY <1>1, <2>3 DEF ResolveFails, Return, TypeOK
  <2>4. CASE u = t /\ ~ ResolveFails(t)
    <3> DEFINE n == Len(stack[t])
    <3>1. /\ pc[t] = "linking" /\ pc' = pc /\ req' = req
          /\ stack[t] # <<>> /\ stack[t] \in Seq(Frame)
      BY <1>1, <1>5, <2>4 DEF EnsureLinked, CheckLinked, Resolve, LinkFastInit, LinkRefs, LinkStore,
         Recurse, RecurseDone, Active, callVars, TypeOK
    <3>2. n \in Nat \ {0} /\ stack[t][1].cls = req[t].cls
      BY <3>1 DEF LinkInv, CallLinked
    <3>3. stack'[t] \in Seq(Frame) /\ n = Len(stack[t])
      BY <2>1 DEF OwnStack
    <3> HIDE DEF n
    <3>4. ASSUME Len(stack'[t]) >= n, n > 1 => stack'[t][1] = stack[t][1],
                 n = 1 => stack'[t][1].cls = stack[t][1].cls
          PROVE  G
      <4>1. stack'[t] # <<>>
        BY <3>2, <3>3, <3>4
      <4>2. n > 1 \/ n = 1
        BY <3>2
      <4>3. QED
        BY <2>4, <3>1, <3>2, <3>4, <4>1, <4>2
    <3>5. ASSUME NEW m, Active(t, m), stack' = [stack EXCEPT ![t] = Pop(@)],
                 linked[DescOf[Top(t).cls]]
          PROVE  G
      <4>1. Len(stack'[t]) = n - 1 /\ \A k \in 1 .. n - 1 : stack'[t][k] = stack[t][k]
        BY <3>3, <3>5, PopStep DEF SameBelow
      <4>2. CASE n = 1
        <5>1. stack'[t] = <<>>
          BY <3>3, <4>1, <4>2
        <5>2. Top(t).cls = req[t].cls /\ DescOf[Top(t).cls] \in Descriptor
          BY <3>2, <3>3, <3>5, <4>2, ActiveFacts DEF Top
        <5>3. linked'[DescOf[req[t].cls]]
          BY <1>1, <3>5, <5>2 DEF Grows
        <5>4. QED
          BY <2>4, <3>1, <5>1, <5>3
      <4>3. CASE n # 1
        <5>1. 1 \in 1 .. n - 1 /\ Len(stack'[t]) > 0
          BY <3>2, <4>1, <4>3
        <5>2. stack'[t] # <<>> /\ stack'[t][1] = stack[t][1]
          BY <3>3, <4>1, <5>1
        <5>3. QED
          BY <2>4, <3>1, <3>2, <5>2
      <4>4. QED
        BY <4>2, <4>3
    <3>6. ASSUME NEW m, Active(t, m), NEW l \in At, Goto(t, l) PROVE G
      <4>1. /\ Len(stack'[t]) = n
            /\ \A k \in 1 .. n - 1 : stack'[t][k] = stack[t][k]
            /\ stack'[t][n].cls = stack[t][n].cls
        <5>1. /\ Len(stack'[t]) = Len(stack[t])
              /\ SameBelow(t, Len(stack[t]) - 1)
              /\ stack'[t][Len(stack[t])] = [cls |-> Top(t).cls, at |-> l, next |-> Top(t).next]
          BY <3>6, GotoStep
        <5>2. QED
          BY <3>3, <5>1 DEF SameBelow, Top
      <4>2. n > 1 => 1 \in 1 .. n - 1
        BY <3>2
      <4>3. QED
        BY <3>2, <3>4, <4>1, <4>2
    <3>7. CASE CheckLinked(t)
      <4>1. /\ Active(t, "check") /\ "resolve" \in At
            /\ \/ Goto(t, "resolve")
               \/ linked[DescOf[Top(t).cls]] /\ stack' = [stack EXCEPT ![t] = Pop(@)]
        BY <3>7 DEF CheckLinked, At
      <4>2. QED
        BY <3>5, <3>6, <4>1
    <3>8. CASE Resolve(t) \/ LinkFastInit(t) \/ LinkRefs(t) \/ LinkStore(t)
      BY <3>6, <3>8 DEF Resolve, LinkFastInit, LinkRefs, LinkStore, At
    <3>9. CASE Recurse(t)
      <4> DEFINE c == Target[Top(t).cls][Top(t).next]
      <4>1. /\ Len(stack'[t]) = IF c \in Class THEN n + 1 ELSE n
            /\ \A k \in 1 .. n - 1 : stack'[t][k] = stack[t][k]
            /\ stack'[t][n] = [cls |-> Top(t).cls, at |-> "recurse", next |-> Top(t).next + 1]
        BY <3>3, <3>9, RecurseStep DEF SameBelow
      <4> HIDE DEF c
      <4>2. /\ Len(stack'[t]) >= n /\ (n > 1 => 1 \in 1 .. n - 1)
            /\ stack'[t][n].cls = stack[t][n].cls
        BY <3>2, <3>3, <4>1 DEF Top
      <4>3. QED
        BY <3>2, <3>4, <4>1, <4>2
    <3>10. CASE RecurseDone(t)
      <4>1. Active(t, "recurse") /\ stack' = [stack EXCEPT ![t] = Pop(@)]
        BY <3>10 DEF RecurseDone
      <4>2. linked[DescOf[Top(t).cls]]
        BY <4>1, ActiveFacts DEF FrameDone
      <4>3. QED
        BY <3>5, <4>1, <4>2
    <3>11. QED
      BY <1>5, <2>4, <3>7, <3>8, <3>9, <3>10 DEF EnsureLinked
  <2>5. QED
    BY <2>2, <2>3, <2>4
<1>6. ASSUME NEW t \in Thread, Codec(t) PROVE G
  <2>1. CASE u # t
    <3>1. pc'[u] = pc[u] /\ req'[u] = req[u] /\ stack'[u] = stack[u]
      BY <1>1, <1>6, <2>1, SMTT(30) DEF Codec, Encode, DecodeRoot, DecodeEnd, DecodeEnum, DecodeNested,
         DecodeTooDeep, DecodeUnlinked, Return, linkVars, TypeOK
    <3>2. QED
      BY <1>1, <3>1, CallLinkedKept
  <2>2. CASE u = t
    <3>1. pc'[t] \in {"idle", "decoding"}
      BY <1>1, <1>6 DEF Codec, Encode, DecodeRoot, DecodeEnd, DecodeEnum, DecodeNested,
         DecodeTooDeep, DecodeUnlinked, Return, TypeOK
    <3>2. QED
      BY <2>2, <3>1
  <2>3. QED
    BY <2>1, <2>2
<1>7. QED
  BY <1>2, <1>3, <1>4, <1>5, <1>6 DEF Next, Step, Define, vars, linkVars, callVars

\* Every step keeps a thread at hand that completes a half-done link.
LEMMA HalfLinkedStep == LinkInv /\ [Next]_vars => HalfLinked'
<1> SUFFICES ASSUME LinkInv, [Next]_vars, NEW d \in Descriptor, refs'[d] # None, ~ linked'[d]
             PROVE  \E t \in Thread : pc'[t] = "linking" /\ stack'[t] # <<>>
                      /\ stack'[t][Len(stack'[t])].at = "store"
                      /\ DescOf[stack'[t][Len(stack'[t])].cls] = d
  BY DEF HalfLinked, Active, Top
<1> DEFINE H(t) == /\ pc'[t] = "linking" /\ stack'[t] # <<>>
                   /\ stack'[t][Len(stack'[t])].at = "store"
                   /\ DescOf[stack'[t][Len(stack'[t])].cls] = d
<1>1. ~ linked[d] /\ TypeOK
  BY StepGrows DEF Grows, LinkInv
<1>2. CASE refs[d] = None
  <2>1. PICK t \in Thread : LinkRefs(t)
    BY <1>2 DEF Next, Define, Begin, Step, Linked, Codec, Encode, DecodeRoot, DecodeEnd, DecodeEnum,
       DecodeNested, DecodeTooDeep, DecodeUnlinked, EnsureLinked, CheckLinked, Resolve, ResolveFails,
       LinkFastInit, LinkStore, Recurse, RecurseDone, vars, linkVars
  <2>2. /\ Active(t, "refs") /\ "store" \in At /\ Goto(t, "store") /\ pc' = pc
        /\ DescOf[Top(t).cls] \in Descriptor /\ Len(stack[t]) \in Nat \ {0}
    BY <2>1, ActiveFacts DEF LinkRefs, callVars, At
  <2>3. DescOf[Top(t).cls] = d
    BY <1>1, <1>2, <2>1, <2>2 DEF LinkRefs, Once, TypeOK
  <2>4. /\ stack'[t] \in Seq(Frame) /\ Len(stack'[t]) = Len(stack[t])
        /\ stack'[t][Len(stack[t])] = [cls |-> Top(t).cls, at |-> "store", next |-> Top(t).next]
    BY <2>2, GotoStep DEF OwnStack
  <2>5. stack'[t] # <<>>
    BY <2>2, <2>4
  <2>6. H(t)
    BY <2>2, <2>3, <2>4, <2>5 DEF Active
  <2>7. QED
    BY <2>6, SMTT(30)
<1>3. CASE refs[d] # None
  <2>1. PICK u \in Thread : Active(u, "store") /\ DescOf[Top(u).cls] = d
    BY <1>1, <1>3 DEF LinkInv, HalfLinked
  <2>2. ASSUME pc'[u] = pc[u], stack'[u] = stack[u] PROVE H(u)
    BY <2>1, <2>2 DEF Active, Top
  <2>3. CASE UNCHANGED <<pc, stack>>
    BY <2>2, <2>3
  <2>4. ASSUME NEW t \in Thread, NEW c \in Class, NEW op, Begin(t, c, op) PROVE H(u)
    BY <1>1, <2>1, <2>2, <2>4 DEF Begin, Active, TypeOK
  <2>5. ASSUME NEW t \in Thread, Linked(t) \/ Codec(t) PROVE H(u)
    <3>1. u # t
      BY <2>1, <2>5 DEF Linked, Codec, Encode, DecodeRoot, DecodeEnd, Active
    <3>2. pc'[u] = pc[u] /\ stack'[u] = stack[u]
      BY <1>1, <2>5, <3>1 DEF Linked, Codec, Encode, DecodeRoot, DecodeEnd, DecodeEnum, DecodeNested,
         DecodeTooDeep, DecodeUnlinked, Return, linkVars, TypeOK
    <3>3. QED
      BY <2>2, <3>2
  <2>6. ASSUME NEW t \in Thread, EnsureLinked(t) PROVE H(u)
    <3>1. OwnStack(t)
      BY <2>6, EnsureLinkedStack
    <3>2. u # t
      <4>1. SUFFICES ASSUME u = t PROVE FALSE
        OBVIOUS
      <4>2. LinkStore(t)
        BY <2>1, <2>6, <4>1 DEF EnsureLinked, CheckLinked, Resolve, ResolveFails, LinkFastInit,
           LinkRefs, Recurse, RecurseDone, Active
      <4>3. QED
        BY <1>1, <2>1, <4>1, <4>2 DEF LinkStore, TypeOK
    <3>3. pc'[u] = pc[u] /\ stack'[u] = stack[u]
      BY <1>1, <2>6, <3>1, <3>2 DEF EnsureLinked, CheckLinked, Resolve, ResolveFails, LinkFastInit,
         LinkRefs, LinkStore, Recurse, RecurseDone, Return, callVars, TypeOK, OwnStack
    <3>4. QED
      BY <2>2, <3>3
  <2>7. QED
    BY <2>3, <2>4, <2>5, <2>6 DEF Next, Step, Define, vars, linkVars, callVars
<1>4. QED
  BY <1>2, <1>3

-----------------------------------------------------------------------------
(* Which steps enter a message. *)

\* A call that enters a message does so by one of two actions.
LEMMA EntersMessageFacts ==
  ASSUME LinkInv, Next, NEW t \in Thread, EntersMessage(t)
  PROVE  DecodeRoot(t) \/ (pc[t] = "decoding" /\ \E i \in Fields(req[t].cls) : DecodeNested(t, i))
<1> DEFINE G == DecodeRoot(t) \/ (pc[t] = "decoding"
                                  /\ \E i \in Fields(req[t].cls) : DecodeNested(t, i))
<1>1. /\ TypeOK /\ pc'[t] = "decoding"
      /\ cur[t].depth \in Int
      /\ pc[t] = "ready" \/ cur'[t].depth > cur[t].depth
  BY LinkingAssumption DEF EntersMessage, LinkInv, TypeOK, Cursor
<1>2. ASSUME pc'[t] = pc[t], cur'[t].depth = cur[t].depth PROVE FALSE
  BY <1>1, <1>2
<1>3. ASSUME NEW x \in Type, Define(x) PROVE FALSE
  BY <1>2, <1>3 DEF Define, callVars
<1>4. ASSUME NEW u \in Thread, NEW c \in Class, NEW op, Begin(u, c, op) PROVE FALSE
  <2>1. CASE u = t
    BY <1>1, <1>4, <2>1 DEF Begin, TypeOK
  <2>2. CASE u # t
    BY <1>1, <1>2, <1>4, <2>2 DEF Begin, TypeOK
  <2>3. QED
    BY <2>1, <2>2
<1>5. ASSUME NEW u \in Thread, u # t, Step(u) PROVE FALSE
  <2>1. pc'[t] = pc[t] /\ cur'[t] = cur[t]
    BY <1>1, <1>5 DEF Step, Linked, EnsureLinked, CheckLinked, Resolve, ResolveFails, LinkFastInit,
       LinkRefs, LinkStore, Recurse, RecurseDone, Codec, Encode, DecodeRoot, DecodeEnd, DecodeEnum,
       DecodeNested, DecodeTooDeep, DecodeUnlinked, Return, callVars, TypeOK
  <2>2. QED
    BY <1>2, <2>1, SMTT(30)
<1>6. ASSUME Step(t) PROVE G
  <2>1. CASE Linked(t) \/ EnsureLinked(t) \/ Encode(t) \/ DecodeEnd(t)
    <3>1. pc'[t] # "decoding"
      BY <1>1, <2>1 DEF Linked, EnsureLinked, CheckLinked, Resolve, ResolveFails, LinkFastInit,
         LinkRefs, LinkStore, Recurse, RecurseDone, Active, Encode, DecodeEnd, Return, callVars, TypeOK
    <3>2. QED
      BY <1>1, <3>1
  <2>2. CASE DecodeRoot(t)
    BY <2>2
  <2>3. ASSUME pc[t] = "decoding", NEW i \in Fields(req[t].cls),
               DecodeEnum(t, i) \/ DecodeTooDeep(t, i) \/ DecodeUnlinked(t, i)
        PROVE  FALSE
    <3>1. CASE DecodeEnum(t, i)
      <4>1. pc'[t] = pc[t] /\ cur'[t].depth = cur[t].depth
        BY <1>1, <3>1 DEF DecodeEnum, TypeOK, Cursor
      <4>2. QED
        BY <1>2, <4>1
    <3>2. CASE DecodeTooDeep(t, i) \/ DecodeUnlinked(t, i)
      BY <1>1, <3>2 DEF DecodeTooDeep, DecodeUnlinked, Return, TypeOK
    <3>3. QED
      BY <2>3, <3>1, <3>2
  <2>4. QED
    BY <1>6, <2>1, <2>2, <2>3 DEF Step, Codec
<1>7. QED
  BY <1>3, <1>4, <1>5, <1>6 DEF Next

-----------------------------------------------------------------------------
(* The theorems. *)

\* LinkInv is inductive: what each activation of _ensure_linked has done, what
\* the OnceLocks hold, and what a call may rely on when it reaches the codec.
THEOREM LinkInvariant == Spec => []LinkInv
<1>1. Init => LinkInv
  BY InitInv
<1>2. LinkInv /\ [Next]_vars => LinkInv'
  BY TypeStep, CallStep, StackStep, RefsStep, CallLinkedStep, HalfLinkedStep DEF LinkInv
<1>3. QED
  BY <1>1, <1>2, PTL DEF Spec

\* Every variable keeps its type; in particular a nested message is decoded
\* into a class that has been resolved.
THEOREM TypeCorrect == Spec => []TypeOK
<1>1. LinkInv => TypeOK
  BY DEF LinkInv
<1>2. QED
  BY <1>1, LinkInvariant, PTL

\* Reference cycles do not make _ensure_linked recurse for ever.
THEOREM NoReentryHolds == Spec => []NoReentry
<1>1. LinkInv => NoReentry
  BY DEF LinkInv
<1>2. QED
  BY <1>1, LinkInvariant, PTL

\* A thread that sees is_linked finds what link() published.
THEOREM PublishOrderHolds == Spec => []PublishOrder
<1>1. LinkInv => PublishOrder
  BY DEF LinkInv, RefsOK, PublishOrder
<1>2. QED
  BY <1>1, LinkInvariant, PTL

\* No OnceLock is overwritten and nothing is ever unlinked.
THEOREM WriteOnceHolds == Spec => WriteOnce
<1>1. LinkInv /\ [Next]_vars
        => [\A d \in Descriptor : /\ refs[d] # None => refs'[d] = refs[d]
                                  /\ fastInit[d] # None => fastInit'[d] = fastInit[d]
                                  /\ linked[d] => linked'[d]]_vars
  BY StepGrows DEF Grows
<1>2. QED
  BY <1>1, LinkInvariant, PTL DEF Spec, WriteOnce

\* What a linked descriptor refers to is linked, or is going to be by a thread
\* that is inside _ensure_linked, or an error kept it from being so.
THEOREM CoveredHolds == SameNamespace => (Spec => []Covered)
<1> SUFFICES ASSUME SameNamespace PROVE Spec => []Covered
  OBVIOUS
<1>1. Init => Covered
  BY DEF Init, Covered
<1>2. LinkInv /\ Covered /\ [Next]_vars => Covered'
  BY CoveredStep
<1>3. QED
  BY <1>1, <1>2, LinkInvariant, PTL DEF Spec

\* Once nobody is linking and nothing failed, decoding a linked class meets no
\* unlinked class at any depth.
THEOREM QuietClosedHolds == SameNamespace => (Spec => []QuietClosed)
<1> SUFFICES ASSUME SameNamespace PROVE Spec => []QuietClosed
  OBVIOUS
<1>1. LinkInv /\ Covered => QuietClosed
  <2> SUFFICES ASSUME LinkInv, Covered, abandoned = {}, \A t \in Thread : stack[t] = <<>>,
                      NEW d \in Descriptor, linked[d], NEW e \in Successors(d)
               PROVE  linked[e]
    BY DEF QuietClosed
  <2>1. PICK i \in Idx(d) : Kind[d][i] = "message" /\ e = DescOf[Target[refs[d]][i]]
    BY DEF Successors
  <2>2. \A t \in Thread : \A k \in 1 .. Len(stack[t]) : FALSE
    OBVIOUS
  <2>3. QED
    BY <2>1, <2>2 DEF Covered
<1>2. QED
  BY <1>1, LinkInvariant, CoveredHolds, PTL

\* A decoder meets a class without references only during a race or after a
\* LookupError, and never at the root of the message.
THEOREM UnlinkedNeedsRaceHolds == SameNamespace => (Spec => UnlinkedNeedsRace)
<1> SUFFICES ASSUME SameNamespace PROVE Spec => UnlinkedNeedsRace
  OBVIOUS
<1> DEFINE A == \A t \in Thread :
                  (EntersMessage(t) /\ cur'[t].refs = None)
                    => /\ pc[t] = "decoding"
                       /\ abandoned # {} \/ \E u \in Thread \ {t} : stack[u] # <<>>
<1>1. LinkInv /\ Covered /\ [Next]_vars => [A]_vars
  <2> SUFFICES ASSUME LinkInv, Covered, Next, NEW t \in Thread,
                      EntersMessage(t), cur'[t].refs = None
               PROVE  /\ pc[t] = "decoding"
                      /\ abandoned # {} \/ \E u \in Thread \ {t} : stack[u] # <<>>
    OBVIOUS
  <2>1. DecodeRoot(t) \/ (pc[t] = "decoding" /\ \E i \in Fields(req[t].cls) : DecodeNested(t, i))
    BY EntersMessageFacts
  <2>2. ~ DecodeRoot(t)
    <3>1. SUFFICES ASSUME DecodeRoot(t) PROVE FALSE
      OBVIOUS
    <3>2. DescOf[req[t].cls] \in Descriptor /\ linked[DescOf[req[t].cls]]
      BY <3>1, LinkingAssumption DEF DecodeRoot, LinkInv, CallLinked, CallOK
    <3>3. refs[DescOf[req[t].cls]] # None
      BY <3>2 DEF LinkInv, RefsOK
    <3>4. QED
      BY <3>1, <3>3 DEF DecodeRoot, LinkInv, TypeOK, Cursor
  <2>3. PICK i \in Fields(req[t].cls) : DecodeNested(t, i)
    BY <2>1, <2>2
  <2> DEFINE d == DescOf[req[t].cls]
             c == Target[cur[t].refs][i]
  <2>4. /\ pc[t] = "decoding" /\ stack[t] = <<>> /\ req[t].cls \in Class /\ d \in Descriptor
        /\ cur[t].refs = refs[d] /\ refs[d] # None /\ i \in Idx(d) /\ Kind[d][i] = "message"
    BY <2>3, LinkingAssumption DEF DecodeNested, DecodeField, LinkInv, CallOK, Fields
  <2>5. c \in Class /\ DescOf[c] \in Descriptor
    BY <2>3, <2>4, DecoderFacts, LinkingAssumption DEF Fields
  <2>6. refs[DescOf[c]] = None
    BY <2>3 DEF DecodeNested, LinkInv, TypeOK, Cursor
  <2>7. ~ linked[DescOf[c]]
    BY <2>5, <2>6 DEF LinkInv, RefsOK
  <2>8. CASE linked[d]
    <3>1. d \in abandoned \/ \E u \in Thread : \E k \in 1 .. Len(stack[u]) : WillLink(stack[u], k, d, i)
      BY <2>4, <2>7, <2>8 DEF Covered
    <3>2. \A u \in Thread : (\E k \in 1 .. Len(stack[u]) : WillLink(stack[u], k, d, i)) => stack[u] # <<>>
      OBVIOUS
    <3>3. QED
      BY <2>4, <3>1, <3>2
  <2>9. CASE ~ linked[d]
    BY <2>4, <2>9 DEF LinkInv, HalfLinked, Active
  <2>10. QED
    BY <2>4, <2>8, <2>9
<1>2. QED
  BY <1>1, LinkInvariant, CoveredHolds, PTL DEF Spec, UnlinkedNeedsRace
=============================================================================
