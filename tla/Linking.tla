------------------------------ MODULE Linking ------------------------------
(***************************************************************************)
(* Lazy linking of fastproto descriptors.                                  *)
(*                                                                         *)
(* A message class carries a compiled Descriptor that is shared by its     *)
(* subclasses.  The classes its enum and message fields refer to are       *)
(* looked up on the first to_bytes() or from_bytes(): _ensure_linked        *)
(* resolves the references of one class, publishes them with               *)
(* Descriptor.link and only then recurses into the referenced classes.     *)
(* Any number of threads may do so at once, with no lock.                  *)
(*                                                                         *)
(* Descriptor.link is three stores to shared memory (fast_init, refs,      *)
(* linked); each is a step of its own here, so the model covers            *)
(* free-threaded builds as well as those with the GIL.                     *)
(***************************************************************************)
EXTENDS Naturals, Sequences

CONSTANTS
  Thread,       \* threads calling to_bytes() and from_bytes()
  Class,        \* message classes
  Enum,         \* IntEnum classes
  Descriptor,   \* compiled descriptors
  DescOf,       \* class -> its __fastproto__
  Kind,         \* descriptor -> for each of its ref_fields(), in order,
                \* "enum" or "message"
  Target,       \* class -> for each of those fields, the type that _resolve
                \* finds in the namespace of the class's module
  Plain,        \* classes for which _fast_init_defaults returns a list
  PreDefined,   \* types that exist before the first call
  MaxDepth,     \* MAX_DEPTH of the decoder
  MaxFields,    \* bound: enum and message values in one payload
  None          \* an empty OnceLock; a name that no module defines

Type == Class \cup Enum

Idx(d) == 1 .. Len(Kind[d])
Fields(c) == Idx(DescOf[c])

ASSUME LinkingAssumption ==
  /\ None \notin Type
  /\ Class \cap Enum = {}
  /\ DescOf \in [Class -> Descriptor]
  /\ Kind \in [Descriptor -> Seq({"enum", "message"})]
  /\ \A c \in Class : /\ DOMAIN Target[c] = Fields(c)
                      /\ \A i \in Fields(c) :
                           Target[c][i] \in {None} \cup
                             IF Kind[DescOf[c]][i] = "enum" THEN Enum ELSE Class
  /\ Plain \subseteq Class
  /\ PreDefined \subseteq Type
  /\ MaxDepth \in Nat
  /\ MaxFields \in Nat

VARIABLES
  defined,    \* types that exist in their module's namespace
  fastInit,   \* Descriptor.fast_init: the class it was verified for, or None
  refs,       \* Descriptor.refs: the class whose Target was stored, or None
  linked,     \* Descriptor.linked
  stack,      \* per thread, the activations of _ensure_linked, innermost last
  pc,         \* per thread, where its to_bytes() or from_bytes() is
  req,        \* per thread, the call: operation, and the class it works on
  cur,        \* per thread, the decoder: level, values left, refs read on entry
  outcome,    \* per thread, how its call ended, or a value it read wrongly
  abandoned   \* history: descriptors whose _ensure_linked was left by an error

linkVars == <<fastInit, refs, linked, stack, abandoned>>
callVars == <<pc, req, cur, outcome>>
vars == <<defined, linkVars, callVars>>

At == {"check", "resolve", "fast", "refs", "store", "recurse"}
Frame == [cls : Class, at : At, next : Nat \ {0}]
Pc == {"idle", "linking", "ready", "decoding"}
Request == [op : {"none", "encode", "decode"}, cls : Class \cup {None}]
Cursor == [depth : 0 .. MaxDepth, left : Nat, refs : Class \cup {None}]
Outcome == {"none", "ok", "lookup_error", "runtime_error", "raw_enum", "too_deep"}

Top(t) == stack[t][Len(stack[t])]
Push(s, c) == Append(s, [cls |-> c, at |-> "check", next |-> 1])
Pop(s) == SubSeq(s, 1, Len(s) - 1)
Advance(s) == [s EXCEPT ![Len(s)].next = @ + 1]
Move(s, l) == [s EXCEPT ![Len(s)].at = l]
Goto(t, l) == stack' = [stack EXCEPT ![t] = Move(@, l)]

NoRequest == [op |-> "none", cls |-> None]
NoCursor == [depth |-> 0, left |-> 0, refs |-> None]

Init ==
  /\ defined = PreDefined
  /\ fastInit = [d \in Descriptor |-> None]
  /\ refs = [d \in Descriptor |-> None]
  /\ linked = [d \in Descriptor |-> FALSE]
  /\ stack = [t \in Thread |-> <<>>]
  /\ pc = [t \in Thread |-> "idle"]
  /\ req = [t \in Thread |-> NoRequest]
  /\ cur = [t \in Thread |-> NoCursor]
  /\ outcome = [t \in Thread |-> "none"]
  /\ abandoned = {}

-----------------------------------------------------------------------------
(* The program around the library. *)

\* A module's body reaches the definition of one more class.
Define(x) ==
  /\ x \in Type \ defined
  /\ defined' = defined \cup {x}
  /\ UNCHANGED <<linkVars, callVars>>

-----------------------------------------------------------------------------
(* to_bytes() and from_bytes(). *)

\* The inlined is_linked check: either straight to the native call or
\* through _ensure_linked.
Begin(t, c, op) ==
  /\ pc[t] = "idle"
  /\ c \in defined
  /\ req' = [req EXCEPT ![t] = [op |-> op, cls |-> c]]
  /\ outcome' = [outcome EXCEPT ![t] = "none"]
  /\ \/ /\ linked[DescOf[c]]
        /\ pc' = [pc EXCEPT ![t] = "ready"]
        /\ UNCHANGED stack
     \/ /\ ~ linked[DescOf[c]]
        /\ pc' = [pc EXCEPT ![t] = "linking"]
        /\ stack' = [stack EXCEPT ![t] = Push(@, c)]
  /\ UNCHANGED <<defined, fastInit, refs, linked, abandoned, cur>>

\* The outermost _ensure_linked has returned.
Linked(t) ==
  /\ pc[t] = "linking"
  /\ stack[t] = <<>>
  /\ pc' = [pc EXCEPT ![t] = "ready"]
  /\ UNCHANGED <<defined, linkVars, req, cur, outcome>>

\* The call ends and its arguments and locals are dropped.
Return(t, result) ==
  /\ req' = [req EXCEPT ![t] = NoRequest]
  /\ cur' = [cur EXCEPT ![t] = NoCursor]
  /\ pc' = [pc EXCEPT ![t] = "idle"]
  /\ outcome' = [outcome EXCEPT ![t] = result]

-----------------------------------------------------------------------------
(* _ensure_linked, one action for each access to shared state. *)

Active(t, l) == pc[t] = "linking" /\ stack[t] # <<>> /\ Top(t).at = l

\* Mutant of CheckLinked: the early return is missing.
CheckLinked_NoReturn(t) ==
  /\ Active(t, "check")
  /\ Goto(t, "resolve")
  /\ UNCHANGED <<defined, fastInit, refs, linked, abandoned, callVars>>

\* `if descriptor.is_linked: return`
CheckLinked(t) ==
  /\ Active(t, "check")
  /\ IF linked[DescOf[Top(t).cls]]
       THEN stack' = [stack EXCEPT ![t] = Pop(@)]
       ELSE Goto(t, "resolve")
  /\ UNCHANGED <<defined, fastInit, refs, linked, abandoned, callVars>>

Resolvable(c) == \A i \in Fields(c) : Target[c][i] \in defined

\* _fast_init_defaults, ref_fields and _resolve of every reference.  The
\* lookups are one step: `defined` only grows, so looking the names up one
\* by one gives what looking all of them up at the last moment gives.
Resolve(t) ==
  /\ Active(t, "resolve")
  /\ Resolvable(Top(t).cls)
  /\ Goto(t, "fast")
  /\ UNCHANGED <<defined, fastInit, refs, linked, abandoned, callVars>>

\* LookupError: it leaves every activation of _ensure_linked of this thread,
\* and what the outer ones have published stays published.
ResolveFails(t) ==
  /\ Active(t, "resolve")
  /\ ~ Resolvable(Top(t).cls)
  /\ abandoned' = abandoned \cup {DescOf[stack[t][i].cls] : i \in 1 .. Len(stack[t])}
  /\ stack' = [stack EXCEPT ![t] = <<>>]
  /\ Return(t, "lookup_error")
  /\ UNCHANGED <<defined, fastInit, refs, linked>>

\* Mutant of Once: the last value wins.
Once_LastWins(cell, d, v) == [cell EXCEPT ![d] = v]

\* OnceLock::set keeps the first value.
Once(cell, d, v) == IF cell[d] = None THEN [cell EXCEPT ![d] = v] ELSE cell

\* Mutant of LinkFastInit: `linked` is stored before the references.
LinkFastInit_StoresLinked(t) ==
  LET c == Top(t).cls IN
  /\ Active(t, "fast")
  /\ fastInit' = IF c \in Plain THEN Once(fastInit, DescOf[c], c) ELSE fastInit
  /\ linked' = [linked EXCEPT ![DescOf[c]] = TRUE]
  /\ Goto(t, "refs")
  /\ UNCHANGED <<defined, refs, abandoned, callVars>>

LinkFastInit(t) ==
  LET c == Top(t).cls IN
  /\ Active(t, "fast")
  /\ fastInit' = IF c \in Plain THEN Once(fastInit, DescOf[c], c) ELSE fastInit
  /\ Goto(t, "refs")
  /\ UNCHANGED <<defined, refs, linked, abandoned, callVars>>

LinkRefs(t) ==
  /\ Active(t, "refs")
  /\ refs' = Once(refs, DescOf[Top(t).cls], Top(t).cls)
  /\ Goto(t, "store")
  /\ UNCHANGED <<defined, fastInit, linked, abandoned, callVars>>

LinkStore(t) ==
  /\ Active(t, "store")
  /\ linked' = [linked EXCEPT ![DescOf[Top(t).cls]] = TRUE]
  /\ Goto(t, "recurse")
  /\ UNCHANGED <<defined, fastInit, refs, abandoned, callVars>>

\* Mutant of Recurse: the loop starts at the second target.
Recurse_SkipsFirst(t) ==
  LET c == Target[Top(t).cls][Top(t).next]
      s == Advance(stack[t])
  IN
  /\ Active(t, "recurse")
  /\ Top(t).next \in Fields(Top(t).cls)
  /\ stack' = [stack EXCEPT ![t] = IF c \in Class /\ Top(t).next > 1 THEN Push(s, c) ELSE s]
  /\ UNCHANGED <<defined, fastInit, refs, linked, abandoned, callVars>>

\* Mutant of Recurse: the loop comes back to the same target.
Recurse_SameTarget(t) ==
  LET c == Target[Top(t).cls][Top(t).next] IN
  /\ Active(t, "recurse")
  /\ Top(t).next \in Fields(Top(t).cls)
  /\ stack' = [stack EXCEPT ![t] = IF c \in Class THEN Push(@, c) ELSE Advance(@)]
  /\ UNCHANGED <<defined, fastInit, refs, linked, abandoned, callVars>>

\* `for target in resolved.values()`: enums have no __fastproto__.
Recurse(t) ==
  LET c == Target[Top(t).cls][Top(t).next]
      s == Advance(stack[t])
  IN
  /\ Active(t, "recurse")
  /\ Top(t).next \in Fields(Top(t).cls)
  /\ stack' = [stack EXCEPT ![t] = IF c \in Class THEN Push(s, c) ELSE s]
  /\ UNCHANGED <<defined, fastInit, refs, linked, abandoned, callVars>>

RecurseDone(t) ==
  /\ Active(t, "recurse")
  /\ Top(t).next \notin Fields(Top(t).cls)
  /\ stack' = [stack EXCEPT ![t] = Pop(@)]
  /\ UNCHANGED <<defined, fastInit, refs, linked, abandoned, callVars>>

-----------------------------------------------------------------------------
(* The native codec.  Encoding reads nested messages off the instance and  *)
(* needs no reference.  Decoding reads refs() once, on entry to a message, *)
(* and again on entry to every nested one; nobody checks is_linked there.  *)

Encode(t) ==
  /\ pc[t] = "ready"
  /\ req[t].op = "encode"
  /\ Return(t, "ok")
  /\ UNCHANGED <<defined, linkVars>>

\* What comes is a payload of up to MaxFields values; nothing looked at it before.
DecodeRoot(t) ==
  /\ pc[t] = "ready"
  /\ req[t].op = "decode"
  /\ pc' = [pc EXCEPT ![t] = "decoding"]
  /\ \E n \in 0 .. MaxFields :
       cur' = [cur EXCEPT ![t] = [depth |-> 0, left |-> n, refs |-> refs[DescOf[req[t].cls]]]]
  /\ UNCHANGED <<defined, linkVars, req, outcome>>

\* One more enum or message field: its ordinal i among the ref_fields() of
\* the class being decoded.
DecodeField(t, i) ==
  /\ pc[t] = "decoding"
  /\ cur[t].left > 0

\* coerce_enum: without a reference the value stays a plain int.
DecodeEnum(t, i) ==
  /\ DecodeField(t, i)
  /\ Kind[DescOf[req[t].cls]][i] = "enum"
  /\ cur' = [cur EXCEPT ![t].left = @ - 1]
  /\ outcome' = IF cur[t].refs = None THEN [outcome EXCEPT ![t] = "raw_enum"]
                                      ELSE outcome
  /\ UNCHANGED <<defined, linkVars, pc, req>>

\* Mutant of DecodeNested: nesting is not bounded.
DecodeNested_AnyDepth(t, i) ==
  LET c == Target[cur[t].refs][i] IN
  /\ DecodeField(t, i)
  /\ Kind[DescOf[req[t].cls]][i] = "message"
  /\ cur[t].refs # None
  /\ req' = [req EXCEPT ![t].cls = c]
  /\ cur' = [cur EXCEPT ![t] = [depth |-> @.depth + 1, left |-> @.left - 1,
                                refs |-> refs[DescOf[c]]]]
  /\ UNCHANGED <<defined, linkVars, pc, outcome>>

\* decode_message_value: the class and the descriptor come from the reference.
DecodeNested(t, i) ==
  LET c == Target[cur[t].refs][i] IN
  /\ DecodeField(t, i)
  /\ Kind[DescOf[req[t].cls]][i] = "message"
  /\ cur[t].refs # None
  /\ cur[t].depth < MaxDepth
  /\ req' = [req EXCEPT ![t].cls = c]
  /\ cur' = [cur EXCEPT ![t] = [depth |-> @.depth + 1, left |-> @.left - 1,
                                refs |-> refs[DescOf[c]]]]
  /\ UNCHANGED <<defined, linkVars, pc, outcome>>

DecodeTooDeep(t, i) ==
  /\ DecodeField(t, i)
  /\ Kind[DescOf[req[t].cls]][i] = "message"
  /\ cur[t].refs # None
  /\ cur[t].depth >= MaxDepth
  /\ Return(t, "too_deep")
  /\ UNCHANGED <<defined, linkVars>>

\* "message field was not linked to a class"
DecodeUnlinked(t, i) ==
  /\ DecodeField(t, i)
  /\ cur[t].refs = None
  /\ Kind[DescOf[req[t].cls]][i] = "message"
  /\ Return(t, "runtime_error")
  /\ UNCHANGED <<defined, linkVars>>

DecodeEnd(t) ==
  /\ pc[t] = "decoding"
  /\ cur[t].left = 0
  /\ Return(t, IF outcome[t] = "raw_enum" THEN "raw_enum" ELSE "ok")
  /\ UNCHANGED <<defined, linkVars>>

-----------------------------------------------------------------------------
EnsureLinked(t) ==
  \/ CheckLinked(t) \/ Resolve(t) \/ ResolveFails(t)
  \/ LinkFastInit(t) \/ LinkRefs(t) \/ LinkStore(t)
  \/ Recurse(t) \/ RecurseDone(t)

Codec(t) ==
  \/ Encode(t) \/ DecodeRoot(t) \/ DecodeEnd(t)
  \/ pc[t] = "decoding" /\ \E i \in Fields(req[t].cls) :
       DecodeEnum(t, i) \/ DecodeNested(t, i) \/ DecodeTooDeep(t, i) \/ DecodeUnlinked(t, i)

Step(t) == Linked(t) \/ EnsureLinked(t) \/ Codec(t)

Next ==
  \/ \E x \in Type : Define(x)
  \/ \E t \in Thread, c \in Class, op \in {"encode", "decode"} : Begin(t, c, op)
  \/ \E t \in Thread : Step(t)

Spec == Init /\ [][Next]_vars

\* The scheduler runs every thread that is inside a call: no call waits for
\* another thread, so weak fairness of its steps is all that is assumed.
FairSpec == Spec /\ \A t \in Thread : WF_vars(Step(t))

-----------------------------------------------------------------------------
(* Properties. *)

TypeOK ==
  /\ defined \subseteq Type
  /\ fastInit \in [Descriptor -> Class \cup {None}]
  /\ refs \in [Descriptor -> Class \cup {None}]
  /\ linked \in [Descriptor -> BOOLEAN]
  /\ stack \in [Thread -> Seq(Frame)]
  /\ pc \in [Thread -> Pc]
  /\ req \in [Thread -> Request]
  /\ cur \in [Thread -> Cursor]
  /\ outcome \in [Thread -> Outcome]
  /\ abandoned \subseteq Descriptor

\* A reference cycle (A -> B -> A) is broken by marking a descriptor linked
\* before recursing: the same descriptor is never resolved twice on one call
\* stack, so the recursion of _ensure_linked is bounded by the number of
\* descriptors whatever the shape of the reference graph.
NoReentry ==
  \A t \in Thread : \A i, j \in 1 .. Len(stack[t]) :
    (i < j /\ stack[t][j].at # "check")
      => DescOf[stack[t][i].cls] # DescOf[stack[t][j].cls]

\* The Release store of `linked` comes after both OnceLocks are filled: a
\* thread that sees is_linked finds the references, and the fast-init data
\* when every class sharing the descriptor has some.
PublishOrder ==
  \A d \in Descriptor : linked[d] =>
    /\ refs[d] # None
    /\ {c \in Class : DescOf[c] = d} \subseteq Plain => fastInit[d] # None

\* The descriptors a decoder of d will enter: those of its message fields.
Successors(d) ==
  {DescOf[Target[refs[d]][i]] : i \in {j \in Idx(d) : Kind[d][j] = "message"}}

\* When no _ensure_linked is running and none was left by a LookupError, the
\* linked descriptors are closed under reference: decoding a message of a
\* linked class meets no unlinked class at any depth.
QuietClosed ==
  (abandoned = {} /\ \A t \in Thread : stack[t] = <<>>)
    => \A d \in Descriptor : linked[d] => \A e \in Successors(d) : linked[e]

\* The step is DecodeRoot or DecodeNested of t.
EntersMessage(t) ==
  pc'[t] = "decoding" /\ (pc[t] = "ready" \/ cur'[t].depth > cur[t].depth)

\* OnceLock and `linked` are written once: a racing second link() is dropped,
\* so what a decoder read from a descriptor stays what the descriptor holds.
WriteOnce ==
  [][\A d \in Descriptor : /\ refs[d] # None => refs'[d] = refs[d]
                           /\ fastInit[d] # None => fastInit'[d] = fastInit[d]
                           /\ linked[d] => linked'[d]]_vars

\* A decoder finds no references on entering a message only below the root,
\* and only while another thread is still inside _ensure_linked or after a
\* LookupError left one.
UnlinkedNeedsRace ==
  [][\A t \in Thread :
       (EntersMessage(t) /\ cur'[t].refs = None)
         => /\ pc[t] = "decoding"
            /\ abandoned # {} \/ \E u \in Thread \ {t} : stack[u] # <<>>]_vars

\* Every call of to_bytes() and from_bytes() returns, by a value or by an
\* error, whatever the other threads do and whatever cycles the references form.
CallsReturn == \A t \in Thread : pc[t] # "idle" ~> pc[t] = "idle"

-----------------------------------------------------------------------------
(* The inductive invariant behind NoReentry, PublishOrder and QuietClosed. *)

\* Every class that shares a descriptor resolves its references alike.
SameNamespace ==
  \A c, e \in Class : DescOf[c] = DescOf[e] => Target[c] = Target[e]

\* What a call holds while it is inside the library.
CallOK ==
  \A t \in Thread :
    /\ pc[t] # "idle" => req[t].cls \in Class
    /\ pc[t] # "linking" => stack[t] = <<>>
    /\ (pc[t] = "decoding" /\ cur[t].refs # None)
         => cur[t].refs = refs[DescOf[req[t].cls]]

\* What an activation of _ensure_linked has done when it reaches f.at.
FrameDone(f) ==
  LET d == DescOf[f.cls] IN
  /\ f.at \notin {"check", "resolve"} => Resolvable(f.cls)
  /\ (f.at \in {"refs", "store", "recurse"} /\ f.cls \in Plain) => fastInit[d] # None
  /\ f.at \in {"store", "recurse"} => refs[d] # None
  /\ f.at = "recurse" => linked[d]
  /\ f.at # "recurse" => f.next = 1

\* An outer activation waits in its loop for the one its last target started.
FrameChain(s, k) ==
  /\ s[k].at = "recurse"
  /\ s[k].next - 1 \in Fields(s[k].cls)
  /\ s[k + 1].cls = Target[s[k].cls][s[k].next - 1]

StackOK ==
  \A t \in Thread : \A k \in 1 .. Len(stack[t]) :
    /\ FrameDone(stack[t][k])
    /\ k < Len(stack[t]) => FrameChain(stack[t], k)

RefsOK ==
  \A d \in Descriptor :
    /\ refs[d] # None => DescOf[refs[d]] = d /\ Resolvable(refs[d])
    /\ linked[d] => refs[d] # None
    /\ (linked[d] /\ {c \in Class : DescOf[c] = d} \subseteq Plain) => fastInit[d] # None

\* Activation k of stack s links descriptor d and has still to come to the
\* i-th reference of d, or waits for the activation that is linking it.
WillLink(s, k, d, i) ==
  /\ DescOf[s[k].cls] = d
  /\ s[k].at = "recurse"
  /\ i >= s[k].next \/ (i = s[k].next - 1 /\ k < Len(s))

\* Every message class that a linked descriptor refers to is linked, or the
\* thread that linked the descriptor will link it, or an error kept it from
\* doing so.
Covered ==
  \A d \in Descriptor : linked[d] => d \in abandoned \/
    \A i \in Idx(d) : Kind[d][i] = "message" =>
      \/ linked[DescOf[Target[refs[d]][i]]]
      \/ \E t \in Thread : \E k \in 1 .. Len(stack[t]) : WillLink(stack[t], k, d, i)

\* The outermost activation links the class of the call, and the codec is
\* reached only with that class linked.
CallLinked ==
  \A t \in Thread :
    /\ pc[t] = "linking" => IF stack[t] = <<>> THEN linked[DescOf[req[t].cls]]
                                              ELSE stack[t][1].cls = req[t].cls
    /\ pc[t] = "ready" => linked[DescOf[req[t].cls]]

\* Between the stores of refs and of linked some thread is about to do the latter.
HalfLinked ==
  \A d \in Descriptor : (refs[d] # None /\ ~ linked[d]) =>
    \E t \in Thread : Active(t, "store") /\ DescOf[Top(t).cls] = d

LinkInv ==
  TypeOK /\ CallOK /\ StackOK /\ RefsOK /\ NoReentry /\ CallLinked /\ HalfLinked

-----------------------------------------------------------------------------
(* What the documentation says. *)

\* tests/test_concurrency.py: "a first call racing across threads must
\* neither error nor corrupt the result".
NoErrorNoCorruption ==
  \A t \in Thread : outcome[t] \notin {"runtime_error", "raw_enum"}

\* _ensure_linked: "Resolve enum/message references for cls and the classes it
\* references" - when it has returned and nothing else is linking, they are.
ReadyClosed ==
  (\A t \in Thread : stack[t] = <<>>) =>
    \A d \in Descriptor : linked[d] => \A e \in Successors(d) : linked[e]

\* Descriptor.link: when two threads race the first link, "both compute the
\* same mapping, so the result is identical".
RacersAgree ==
  \A t \in Thread : stack[t] # <<>> =>
    (Top(t).at = "store" => Target[refs[DescOf[Top(t).cls]]] = Target[Top(t).cls])
=============================================================================
