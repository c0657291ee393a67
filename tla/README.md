# A TLA+ model of fastproto

fastproto maps Protocol Buffers messages to Python dataclasses: a `protoc`
plugin renders the classes, a Rust core encodes and decodes them. This directory
models the parts of it that decide what goes over the wire and what several
threads see, checks them with TLC and proves some of it with TLAPS. Paths below
are relative to the repository; `(file:lines)` names the code.

## Inventory

| Part | State | Operations | Speaks with | Hard about it |
|---|---|---|---|---|
| lazy linking (`python/fastproto/__init__.py:173-269`, `src/message/mod.rs:106-228`) | `fast_init`, `refs`, `linked` of every descriptor; the call stack of `_ensure_linked` per thread | `_ensure_linked`, `Descriptor.link`, `is_linked` | namespaces of modules, the codec | threads without a lock, cyclic references, `LookupError` half-way, subclasses that share a descriptor |
| wire format (`src/wire/mod.rs`) | a cursor over bytes; an output buffer | read and write varints, tags, fixed-width and length-delimited values, skip | codec, parser, well-known types | arbitrary input, overflow, truncation, agreement of several varint writers |
| length prefixes (`src/wire/mod.rs:221-252`, `src/encode/mod.rs:135-371`) | one growing buffer, positions held by callers | reserve, patch with a shift, roll back | every nested field | shifts inside shifts, roll-back inside open fields, errors half-way |
| decoder (`src/decode/mod.rs`) | one value per field, oneof owners, unknown bytes, per level | `decode_message` and what it calls | wire, linking, Python constructors | any order and repetition of records, oneofs, depth, defaults |
| encoder (`src/encode/mod.rs`) | the buffer, the counts of oneof members, depth | `encode_message` and what it calls | wire, linking, Python attributes | presence, packing, oneofs, depth, cycles of Python objects |
| messages (`python/fastproto/__init__.py:23-107`) | field values, hidden slot `_fastproto_unknown` | `to_bytes`, `from_bytes`, `which_oneof` | linking, codec | forward compatibility through older programs |
| well-known types (`src/wellknown/mod.rs`) | none | datetime and timedelta to seconds and nanoseconds and back | codec | ranges, signs, truncation |
| descriptor parsing (`src/parse/mod.rs`), field index (`src/descriptor/mod.rs:157-209`) | none after construction | `parse_message`, `FieldIndex::build` and `get` | wire | hand-made descriptors, duplicates |
| name resolution (`python/fastproto/__init__.py:173-195`) | none | `_resolve` | namespaces | ambiguous suffixes |
| dict conversion (`python/fastproto/_dict.py`) | none | `to_dict`, `from_dict` | type hints | round trip |
| plugin (`python/fastproto/plugin/`) | the schema index | validate, render | `protoc` | names that collide |

What makes each part correct is stated as properties below; `PROJECT.json` lists, as
hazards, what a test would hardly reach, with the properties about it.

## Modules

`MC*` modules give the constants of a specification their values for TLC;
`*Proofs` modules hold the theorems about it, and what they share.

| Module | Extends | Models |
|---|---|---|
| `Linking`, `MCLinking`, `LinkingProofs` | | lazy linking by any number of threads |
| `Wire` | | varints, zig-zag and integer casts, scaled down |
| `WireReader`, `MCWireReader` | `Wire` | the reader and the writers byte by byte |
| `NestedBuffers` | `Wire` | abstract: nested fields through temporary buffers |
| `LenPrefix`, `MCLenPrefix`, `LenPrefixProofs` | `Wire` | nested fields in place; refines `NestedBuffers` |
| `Casts` | | integers of a fixed width, casts, the wrapping `abs` |
| `Records` | | record sequences and the lookups in them |
| `WellKnown` | `Casts` | datetime and timedelta to seconds and nanoseconds and back |
| `Messages` | `WellKnown`, `Records` | schemas, records, instances; the data that codec modules share |
| `Decoder` | `Messages` | `decode_message` |
| `Encoder` | `Messages` | `encode_message` |
| `Relay` | `Decoder`, `Encoder` | programs that decode and encode one message in turn |
| `Dicts`, `MCRelay` | `Relay` | `to_dict` and `from_dict` on the messages that travel |
| `FieldTable` | `Records` | `FieldIndex`, dense and sparse |
| `ProtoTypes` | | type codes and names of `descriptor.proto` |
| `Parse` | `FieldTable`, `Casts`, `ProtoTypes` | `parse_message` |
| `Construction` | `Casts`, `ProtoTypes` | enum members and instances as decode makes them |
| `Plugin` | `Construction` | the schema index and what the plugin writes |
| `Binding`, `MCBinding` | `Parse`, `Plugin` | from a `.proto` file to a class that decodes |
| `RecordsProofs` | `Records` | lemmas: sequences, first and last records, recursive functions, powers, division, casts |
| `VarintProofs` | `Wire`, `RecordsProofs` | what `write_varint` writes, how long it is, and that `read_varint` reads it |
| `WireProofs` | `WireReader`, `VarintProofs` | the reader: its cursor, what it accepts and keeps, and the way back |
| `StackProofs` | `Relay`, `RecordsProofs` | the stacks of decoder and encoder: depth, oneofs |
| `RelayProofs` | `StackProofs` | what is decoded: types, last members, times, unknown fields |
| `BindingProofs` | `Binding`, `RecordsProofs` | descriptors, tables of fields, enums, construction |

### Linking

A descriptor's three pieces of shared memory are `fastInit`, `refs` and `linked`;
`refs[d]` holds the class whose resolution was stored, which determines the
mapping. A call is `Begin` (the inlined check in `to_bytes`/`from_bytes`), then
possibly the activations of `_ensure_linked` in `stack[t]`, then `DecodeRoot` and
the walk of the decoder over message and enum values, or the encoder. An
activation goes through `check`, `resolve`, `fast`, `refs`, `store` and `recurse`:
one access to shared memory is one step (`CheckLinked`, `Resolve`,
`LinkFastInit`, `LinkRefs`, `LinkStore`, `Recurse`). `Unresolved` is the
`LookupError` that leaves all activations at once. `Define` is a module body that
defines one more class while calls are under way. Under the GIL the three stores
of `Descriptor.link` cannot be separated; pyo3 also supports free-threaded
builds, so the model separates them, and what holds in it holds under the GIL.
None of the findings uses that separation. The encoder does not depend on links
(`encode_nested` falls back to the type of the value), so it is one step here.
`_resolve` is the constant `Target`, for any namespaces; what it finds in the
modules that the plugin writes is in `Binding`. The lookups of one activation are
one step, which loses nothing since classes are only ever added.

### Wire, WireReader

A byte has `G` payload bits and an integer `W` bits, 7 and 64 in the code. TLC uses
3 and 7: as in the code the longest varint ends in a byte with one significant
bit. `WireReader` reads one message of a single scalar field; one action consumes
one byte of a varint or one block of bytes. Its `phase` is the place in the
decoder's loop or the `WireError` that ended it. What has been read is written
again (`Rewrite`) and read a second time. A length is cast to `usize` before it is compared with the rest of
the input (`src/wire/mod.rs:134`); the model, and the build it stands for, has a `usize` as wide as the varint, 64 bits.
Where it has 32 the cast would cut a length down first. One of the four wire type codes is invalid, and field numbers reach `MaxField`, so every error of the reader occurs.

### NestedBuffers, LenPrefix

`LenPrefix` has the output buffer and, for every field whose payload is being
written, where its tag and its length slot are: the locals `tag_start` and
`len_pos` of the encoder's frames. `Begin` is `write_tag` and `begin_len_prefix`,
`Finish` is `finish_len_prefix` with its shift, `RollBack` the truncation of an
empty packed list, `Raise` any Python exception on the way. `NestedBuffers` is
the encoder as one would specify it: every open field has a buffer of its own.
`Temporaries` computes those buffers from the one there is.

### Casts, WellKnown

A datetime is the instant that it denotes and a timedelta its length, in
microseconds; on the wire both are seconds and nanoseconds. Rust's `/` and `%`
(`Quotient`, `Remainder`) truncate, `div_euclid` and `rem_euclid` are TLA+'s `\div` and
`%`. The ranges, the widths of the two integers and the number of nanoseconds in a
second are constants, so that TLC meets every seconds value and every nanoseconds
value, the ends of the widths included. `AbsWrapping` is `abs` as a release build
compiles it. `EncodeParts` and `DecodeParts` (in `Messages`) write and read the
payload. The calendar plays no part: `datetime` arithmetic is exact in its range.

### Messages, Decoder, Encoder, Relay, Dicts

A message is a sequence of records `[num, wire, val]`, an instance one value per
field plus the records of unknown fields. The bytes inside a record are
`WireReader`'s concern; here a payload is a sequence of records, of packed
values, of characters, or malformed. A frame of `dec` is a call of
`decode_message` or of `decode_map_entry`, a frame of `enc` one of `encode_message`
or of the body of `encode_map`'s loop; each action handles one record, or one
item of a field, entirely. The `oneof` check of the encoder comes after its fields
are written, as in the code, so that an inner error wins over an outer one.
`Claim` and `Deliver` are the two halves of a field's case: clear the earlier
member of the oneof, then store. In between, a nested message may be decoded.
In `Relay`, the programs along `path` decode what they get into the class of
their own schema and encode it again; the first of them starts from bytes or from
an instance that it built. `raised` is the exception of the call that failed.
`Dicts` adds `to_dict` and `from_dict` as functions of the instances in `Relay`.

### Records, FieldTable, ProtoTypes, Parse

The input of `parse_message` is a `DescriptorProto` as a record sequence. Records of
different fields may come in any order, those of one field keep theirs, so `todo` holds a queue per field
and every interleaving of taking from the queues is an input. One action is one turn of the loop (`ReadName`,
`ReadField`, `ReadNested`, `ReadOneof`, `Skip`), `Interpret` is everything behind the loop: labels, kinds, map
detection, the range check of oneof indexes. What the inner loops of `parse_raw_field`
and `parse_nested_map_entry` leave in their variables is `LastValue`. A name is the
sequence of its segments. `NumberBits` is the width to which numbers and
indexes are cut. `FieldTable` has the two tables of `FieldIndex` with the limit between
them as constants.

### Construction, Plugin, Binding

`Construction` has the end of decoding: a number becomes an enum member through a
table, a dict or a call (`CoerceEnum`), and an instance is made by a call of the
class or, if `_fast_init_defaults` allows, by `object.__new__` and a setattr per
field. A class is its dataclass fields and its hooks.

`Plugin` has what the plugin decides: which types a module defines and
imports, collisions of their names, which constant a class reads its descriptor from, what its
annotations name and what its fields default to. Words between underscores
in upper case (`Words`) are what the name of a constant keeps of a name.

`Binding` composes them: `Init` picks a request that the plugin accepts and one class
in it, and `DescriptorProto` writes its descriptor as protoc would (that part is
external, read off from what the parser and the plugin expect); or it picks a
hand-made descriptor and a hand-made class. `Compile` is a step of `Parse`, `Link` is
`_ensure_linked` on one class with `_resolve` in the module's namespace, `Construct` the end
of decode for a choice of fields that were on the wire, for the class itself and for a
subclass with an `__init__`.

## Runs

| Run | Asks | Bounds |
|---|---|---|
| `Linking` | what do two racing first calls keep at every interleaving, also while modules are being imported, so that lookups fail? does every call return? | 2 threads, 4 classes with 3 descriptors in a cycle, an enum, a subclass; class `C`, the one that closes the cycle, may be defined late; payloads of 2 values, 1 level; weak fairness of each thread |
| `LinkRaceDoc`, `LinkStickyDoc`, `LinkSubclassDoc` | three statements of tests and comments that do not hold | the same classes, all of them defined in the first and third; one thread in the second |
| `WireReader` | are exactly the well-formed inputs accepted, are unknown fields among known ones kept, and does what is written come back? | all inputs up to 3 bytes, all sequences of 2 or 3 of 5 fields, some other long inputs, all values of 10 scalar kinds |
| `LenPrefix` | does encoding in place write the same bytes as temporaries? | 3 open fields, buffers of 11 bytes |
| `Relay` | does a message survive programs with older schemas and a trip through a dict? which instances and times can be written and read? does every call return? | all streams of up to 2 of 30 records, of up to 3 of 11; every Timestamp and Duration of 5-bit seconds and 4-bit nanoseconds, the longest also in submessages, lists and maps; every mix of values of the plain fields, nestings one level deeper than is allowed, every datetime and timedelta in and around the range |
| `RelayOverflowDoc` | a comment on out-of-range times that does not hold | as `Relay` |
| `Binding` | do class, descriptor, references and instances agree? does `compile` accept only what the codec can walk? | every message of three type trees in packages whose segments may be class names, with one field of every kind and enums in four places; whole files; about 840 hand-made descriptors, each in every order; 14 kinds of hand-made classes |
| `BindingConstDoc`, `BindingInitDoc`, `BindingOneofsDoc` | three docstrings and comments that do not hold | as `Binding` |

Every property of a passing run has a mutant in `PROJECT.json`: a change of one
definition, as a plausible bug would make it, that violates the property in that
run. The operators with an underscore in their names are these changes; nothing
else uses them.

**Why the bounds are enough.** *Linking*: a race needs two threads and one reference
each way; the graph has a cycle, so the recursion comes back to where it started,
a shared descriptor, and an enum beside a message so that both ways of missing a
reference occur. Linking without a race is the special case of `QuietClosed` and
`UnlinkedNeedsRace` with one thread. If `C` is defined before the first call, no lookup fails. The
safety properties are proved for every number of threads and every length of payload.
*WireReader*: three bytes hold a tag, a length and a payload, or the longest varint; the additional inputs put a varint that overflows, a long one
and truncated ones behind a tag, and known and unknown fields in every order of up to three. *LenPrefix*: with one
payload bit per byte a length takes a second byte at 2, a third at 4, a fourth at
8, so that within 11 bytes outer fields are shifted by 1 to 3 bytes with inner
ones already shifted inside; the theorems cover every other size. *Relay*: three
records give a oneof's member, another one, and the first again; or a known, an
unknown and a mismatched record; nesting goes one level past the limit both through
messages and through map values. A second has two microseconds of two nanoseconds
each: enough for a fraction below a microsecond, one above, and both signs; the
ranges leave room on both sides for seconds and nanoseconds out of range, up to
the ends of the widths, where `abs` wraps. *Binding*: `NumberBits = 6` lets a number wrap around, a
`DenseFactor` of 2 and a `DenseMin` of 8 put descriptors of one to three fields on both
sides of the limit between the tables, a table of 2 enum members leaves numbers for the dict, negative ones
included. Names repeat across levels (`A.A`, `A.b` and `A.B`, `A.B_C` and `A.B.C`, a package `A`), which is
what the resolution of names and constants can trip over. Two fields of one kind differ only in number and
name, so that small requests have one field; whole files have all kinds side by side.

`CHECK_DEADLOCK FALSE` is in the configurations of programs that stop: the
message has been read, written, or has travelled its path; the class has been bound.

**What the properties except.** Where the code promises less than one might expect, or
a case is a limit of the design, the property names the exception in its own definition:

- `SameForAll` needs the new schema first on a path. If the older one begins, unknown
  fields are emitted behind the known ones, so of two members of one oneof, one
  unknown to the older program, the other may come last when it passes. The
  protobuf documentation names this limit of unknown fields.
- `TimesExact` leaves out a time that another member of its oneof has cleared since.
- `TimesExact`, `AcceptedStaysAccepted`: nanoseconds of `i32::MIN` pass the range check
  of durations (`LeastNanos`), and what they become may be too long to encode, in the message or in one inside it (`TooLong`).
  For `TimesExact` this is proved to be the only exception; for `AcceptedStaysAccepted` it contradicts a test, which is in finding 4.
- `UnknownKept`, `Distinct`: of two fields with one number, which only a hand-made descriptor can have, the encoder
  writes both and the decoder looks for the first, so the second may come out as an unknown field.
- `InvalidRefused`: a datetime whose offset moves it out of years 1 to 9999 in UTC is
  written, and no program reads it (`Displaced`).
- `ClassMatchesDescriptor`, `RefsAsAnnotated`: a repeated message with the last two segments of a map entry
  of the same message is taken for the map (`Twin`: `repeated I.M.XEntry` in
  message `M` that has a map `x`). The comment at `src/parse/mod.rs:276` speaks of siblings,
  which the parent segment does tell apart.
- `RefsAsAnnotated`: if a segment of the package is also the name of a class in the module (`Shadowed`), the search
  over suffixes may find a nested class of that name first. `_resolve`'s docstring says that the package cannot be told apart.
- `DefaultsOfLinkedEnum`: an enum nested in a class hides a top-level one of the same name in the class body
  (`BodyShadowed`), so the default is a member of the other enum.
- `RefsComplete`: if a number is declared twice, the table of references has the class of the last
  declaration and the decoder uses the first; it still finds a class there. `Construct` leaves such descriptors out.
- `OneofsRecovered` says that every declared group is listed with its members, and does not say that no other is: synthetic groups
  of `optional` fields are, which is finding 7.

## Fairness

No call in the library waits for another thread: there is no lock, and
`OnceLock::set` and the atomic flag do not block. `FairSpec` of `Linking` therefore assumes
only that a thread that is inside a call gets to run (weak fairness of its own
steps), nothing about new calls or about imports. `WireReader` and `Relay` are
single calls of straight-line Rust, for which weak fairness of the whole step
relation says that the program is not stopped.

## Findings

1. **`LinkRaceDoc`.** `_ensure_linked` marks a descriptor as linked before it links
   the classes that it refers to (`python/fastproto/__init__.py:265`). A second
   thread sees `is_linked`, goes to the decoder, and finds the child unlinked:
   `RuntimeError` for a message, a plain `int` for an enum.
   `tests/test_concurrency.py:4` says a racing first call "must neither error nor
   corrupt the result".
2. **`LinkStickyDoc`.** When a lookup fails below a class that was already marked, the
   class stays linked and nothing comes back for its references, although the
   docstring promises the references of the class are resolved. Decoding
   raises `RuntimeError` from then on, also when the missing class exists by then.
3. **`LinkSubclassDoc`.** A subclass in another module resolves names in its own module,
   and shares the descriptor of its parent. The mappings of two racing links then
   differ, where `src/message/mod.rs:197` says they are the same.

4. **`RelayOverflowDoc`.** `secs.abs()` of `i64::MIN` stays negative in a release build, passes the check
   of `parts_to_timedelta` (`src/wellknown/mod.rs:83`), and Python's `timedelta` raises `OverflowError`.
   `tests/test_fuzz.py:40` says that this must be a `ValueError`. A debug build panics instead.
   The check takes `nanos.abs()` of `i32::MIN` for in range as well. Near the least number of seconds such a Duration becomes
   a timedelta out of range, without an error, and `timedelta_to_parts` refuses it: `from_bytes` has accepted a message that
   `to_bytes` cannot write. `tests/test_fuzz.py:69` says "Whatever the decoder accepts, the encoder must be able to serialize"; the
   class that the test uses has no Duration. Without its exception `TooLong`, `AcceptedStaysAccepted` is violated by this.
5. **`BindingConstDoc`.** The name of a descriptor constant is the qualified name in upper case with underscores
   for dots (`python/fastproto/plugin/_render.py:357`). Nested messages `b` and `B`, or `B_C` and `B.C`, of one
   top-level message share a constant; both classes get the later descriptor, where the docstring says that each refers to its own.
6. **`BindingInitDoc`.** `_fast_init_defaults` checks `__new__`, `__post_init__` and the metaclass but not `__init__`
   (`python/fastproto/__init__.py:215`). A dataclass that keeps an `__init__` of its own is made
   without running it, where the docstring says that anything but default construction machinery goes through the class.
   `tests/test_rich.py:229` tests this for a plain subclass only, which is honored (`ConstructedAsCalled`).
7. **`BindingOneofsDoc`.** The parser keeps the synthetic group of an `optional` field in its table (`src/parse/mod.rs:75`), and `oneofs()` lists
   the table. The comment at `src/message/mod.rs:170` says that these are "already excluded by the parser, so only
   user-written `oneof` groups appear here". The group has no members, so `which_oneof` answers `None` for it.

The first two come from publishing before recursing, which is also what stops the
recursion on cyclic references (`NoReentry`). `Covered` is the exact strength of
what is left: every reference of a linked descriptor is linked, or some thread
is on its way to link it, or an error has stopped one.

## Proofs

Every theorem holds for all values of the constants that meet the named assumptions: any schemas, any
streams, any threads, widths, ranges and limits.

| Module | Theorem | Says |
|---|---|---|
| `LinkingProofs` | `TypeCorrect`, `NoReentryHolds`, `PublishOrderHolds`, `WriteOnceHolds` | what linking keeps under every interleaving |
| | `CoveredHolds`, `QuietClosedHolds`, `UnlinkedNeedsRaceHolds` | when a linked class may have an unlinked reference |
| `VarintProofs` | `VarintLenIs`, `VarintIsReadBack` | `write_varint` writes as many bytes as `varint_len` says, and `read_varint` reads them |
| `LenPrefixProofs` | `InvariantHolds`, `Refinement` | encoding in place implements encoding into temporaries |
| `WireProofs` | `ReaderIsConsistent`, `ReaderStaysInBounds` | the cursor stays inside, values have their type |
| | `MalformedIsRefused` | exactly the byte strings that can be cut into fields are accepted |
| | `UnknownIsVerbatim`, `WrittenIsRead` | of the fields in the input the unknown ones are kept, to the byte and in order, and what is written comes back |
| `StackProofs` | `DepthIsBounded`, `OneofsAreExclusive` | nesting is bounded, one member of a oneof is set |
| `RelayProofs` | `DecodedIsTyped`, `AccumulatorsAreKept` | what `decode` returns is typed, and its `unwrap`s do not fail |
| | `LastMemberWins`, `TimesAreExact` | the last record of a oneof or of a time counts, and times are exact |
| | `TimesAreReadBack` | which times come back from the wire, and which are refused by whom |
| | `UnknownIsKept` | what a program does not know of a message it sends on |
| `BindingProofs` | `ParserIsTyped`, `DescriptorsAreSafe`, `TableAnswersAsScan` | what `compile` accepts can be walked, and looked up |
| | `EnumsStayOpen`, `FastPathIsCall` | numbers become their members, and the fast construction is a call |

### The arguments

**Linking.** `LinkInvariant` is `Spec => []LinkInv`. `TypeOK`, `NoReentry` and `PublishOrder` are not
inductive by themselves: that a descriptor is not linked twice on a stack
needs what each activation has done when it is at some point (`FrameDone`),
that outer activations wait in their loops for the next inner one
(`FrameChain`), and that references belong to a class of their descriptor
(`RefsOK`). `CallLinked` and `HalfLinked` tie the calls to the links. There is one
lemma per conjunct (`TypeStep`, `CallStep`, `StackStep`, `RefsStep`,
`CallLinkedStep`, `HalfLinkedStep`), each with a case per action. `CoveredHolds` and what follows from it have
the hypothesis `SameNamespace`, that classes which share a descriptor resolve
alike. Without it they are false, which is finding 3.

**Length prefixes.** The positions in the callers' locals stay right (`LenPrefixInv`) because each operation
changes the buffer only behind the slot of the innermost open field (`FinishKeepsFront`, `SlotsSurvive`).
For the refinement, `LevelKept` says that outer levels of `Temporaries` do not
change, `LevelAppends` what the innermost gains; `FinishWritesLength` describes
the shifted buffer as a concatenation; then there is one lemma per action (`PutRefines`
to `ReturnRefines`). That the slot is as long as what is patched in is `VarintLenIs`.

**Recursive functions.** `VarintLoop`, `Number`, `Encode` and `UnknownOf` use functions defined by recursion. `Recursion` and
`Descent` of `RecordsProofs` show that such a function exists, so that the `CHOOSE` behind the
definition gives one: if it did not, there would be a least argument up to which there is none
(`LeastNat`), and the function up to the argument before it can be extended. Facts about such
a function for all arguments (`VarintLenIs`, `LoopDigits`, `NumberIs`) are proved from a least counterexample in the same way.

**Numbers.** The provers know of `2 ^ n` only that it is an integer. That it doubles from `n` to `n + 1` (`PowerStep`) is proved
from the number of subsets of a set of `n` elements, which is a theorem of the library; order, sums of exponents, division and
the casts between widths follow (`PowerSum`, `HalfIs`, `CastIs`, `CastBack`). A number is determined by its digits (`NumberOfDigits`), which gives `VarintIsReadBack` and
the same for fixed-width values; `ZigZagIs` and `NarrowIs` undo the casts.

**The reader.** `FullInv` has five parts. `ReaderInv` is about types and places: the field that is being read starts at or before the cursor, what is being read is
what the tag announced (`TagOK`), so that an integer is only stored in a field of integers, and what has been read is of its field's type. `ReadingInv` says what the varint
being read amounts to so far: its bytes begin at the field's start or behind the tag, all of them
continue, and `acc` is their number modulo the width. `BoundaryInv` says that the input up
to the field being read can be cut into fields. Hence what is accepted is well formed. For the converse, a field that begins
at a given byte ends at one place only (`FieldUnique`), so an input that can be cut at all can only be cut where the
decoder has been, and where the decoder gives up no field begins. `KeptInv` says that what is kept is the
concatenation of the unknown fields of such a cut: a field is unknown to the decoder exactly if its first tag is (`KnownIs`), one more field in
the cut adds its bytes or nothing (`KeptGrows`), and `KeptIs` ties the recursive function in `UnknownOf` to the cut. `SavedInv` follows the decoder through what `Encode` wrote (`EncodeLayout`): at the start of
each field, the values so far are those that were written up to there, the rest is still unset, and behind the last
field the unknown bytes are cut as they were when they were kept (`UnknownCuts`). `StepIs` reduces `Next` to six kinds of step, so that
each part is shown once per kind.

**The stacks.** `StacksInv` says what `StackOK` and `Shape` say of every frame: its fields are those of its class or of
some map's entries (`Kin`), its depth is at most `MaxDepth`, a oneof's owner is a member of
it, and of a oneof only the owner has a value; and that the frame above it was
called for a field that fits (`Into`): a map for an entry, a message of that class for a message, with a
member of a oneof owning it already. The last is what makes `OneofExclusive` inductive: `Claim` clears the earlier
member before a nested message is decoded, and its value comes back only when that message ends, with
any number of steps in between.

**The values.** `ValuesInv` says of every frame that its values are values of their field, or
`None` where none was on the wire and the field is neither repeated nor a map (`Partial`); so
`Instance`, which fills in defaults, makes typed instances, and accumulators are there. It needs that
`IsValue` holds of what comes back from the frame above, for entries of maps in both halves (`EntryIs`, `EndEntryValues`).

**The first message.** `FirstInv` follows the outermost frame while it reads the first message on the
path: it has read some first `i` records (`HasRead`), so its owners are the last members among
those `i` (`OwnerAfter`), and its times those of the last payloads among them (`HasTimes`). Owners have values, except the one that waits for
the frame above (`Holds`). `Moves` reduces the twelve actions of the decoder to four moves
of a frame: read past a record, store, wait, return. `TimesAreExact` then is arithmetic about the converters (`TimesAccepted`): division
loses less than one unit (`QuotientIs`), and of the two least integers that
`abs` lets pass, that of the seconds is caught by the range of `timedelta` (`ExactDuration`), that of the nanoseconds is the exception the property names. `TimesAreReadBack` is the
way out and back, for every datetime and timedelta of Python (`Lengths`): a whole number of microseconds leaves a whole number
of them when the seconds are taken out (`MicrosSplit`, `QuotientSplit`), so nothing is lost; both parts fit their widths
(`LengthIs`, `RestFits`), so the casts give them back (`PartsAreReadBack`, also when a zero part is left out); and the
seconds are in range exactly if the time is (`SecondsBound`). It also says who refuses the others: a datetime out of
range in UTC is written and no reader takes it, a timedelta that is too long is not written.

**Unknown fields.** `KeptInv` follows every message on the path through the two calls. The outermost frame of the decoder
has kept what its class does not know of the records it has read (`RootKept`, with the same four moves), so an
instance bears what is unknown of its message (`Bears`). The outermost walk of the encoder (`RootWalk`) has
written only what the class knows and goes on to write only that (`ItemsKnown`: every item of a field has the field's number and a wire type
that the decoder accepts for it; this is where `Distinct` is needed), also when it waits for the payload of an inner walk
(`KnownNumber`). Behind known records, the unknown ones of the result are those of the instance (`KnownFirst`).

**Parsing.** `ParseInv` types what the loop has collected: raw numbers and oneof indexes have
their width, map entries both halves. With it `Interpret` is safe; `TableIsScan` shows that both
tables of `FieldIndex` give the first declaration of a number, and nothing for a number that is not declared.

**Binding.** `BoundInv` remembers where things come from: the class that is linked is a class, `fast` is what
`_fast_init_defaults` gives for it and the parsed descriptor, and an instance is made of values for
fields that are no collections. `FastPathIsCall` compares what `setattr` per field and what the `__init__` of a dataclass leave.

### What is assumed

- `MessagesAssumption`: schemas are what `parse_message` makes and `link` accepts (`IsSchema`). The first is
  what `DescriptorsAreSafe` proves of every descriptor.
- `WellKnownAssumption`: the ranges of Timestamp and Duration lie inside that of `timedelta`, and the seconds
  of the least 64-bit integer far outside; the real constants satisfy both. `NanosFit`: less than a second of
  nanoseconds fits `i32`, which is not wider than `i64`.
- `RelayAssumption`, `WireReaderAssumption`, `ParseAssumption`, `BindingAssumption`, `ConstructionAssumption`, `LenPrefixAssumption`,
  `LinkingAssumption`: types and ranges of constants. `IsInput`, `IsEnum`, `IsClass` and `Typed` say
  that inputs are bytes, enum members numbers of 32 bits, classes what Python admits, and instances what a constructor makes.
- A `usize` of 64 bits, in the definition of `ReadLenDelimited`: lengths are compared uncut.
- Three hypotheses stand in the theorems, because TLC cannot evaluate them on model values or without a bound:
  `~ IsList(None)`, `NoneIsApart` (Python's `None` is neither a list nor an instance) and `HandWritten` (the hand-made classes
  are classes for all lists of fields).

TLC evaluates all the other assumptions with the constants of the runs.

### What is only model-checked

- Liveness (`CallsReturn`, `Terminates`), which needs fairness and `ENABLED`, and the violations.
- `SameForAll`, `AcceptedStaysAccepted`, `InvalidRefused`: they need that the encoder's output
  decodes to what was encoded, an induction over nested instances.
- `DictRoundTrip`: its module has recursive operators.
- `RefsComplete`, `ClassMatchesDescriptor`, `OneofsRecovered`, `RefsAsAnnotated`, `DefaultsOfLinkedEnum`
  and the second half of `ConstructedAsCalled` (a class of the plugin can always be made): they depend on the text of names and on operators
  (`:>`, `@@`, folds) that the provers do not expand.

## Plan

Done: linking, wire, length prefixes, codec, well-known types, parsing, field index, name
resolution, construction, dicts, the plugin's decisions; the proofs above. Next:

1. The parts of `InvalidRefused` about times, from `TimesAreReadBack`: what `Invalid` and `Displaced` say of the first encoder on a path.
2. `SameForAll` for schemas without nested messages, whose walks have one frame.

## Not modelled

- Text: rendering of modules, `__repr__`, error messages, documentation.
- The validator (`python/fastproto/plugin/_validate.py`): lists of names that Python or the generated
  module reserves, checked one by one. The requests of `Binding` have none of them.
- UTF-8 checks beyond well formed or not.
- Values of the wrong Python type in a message: they raise (`Raise` in `LenPrefix`), and no
  instance in `Relay` has any. `from_dict` likewise gets what `to_dict` made.
- protoc: descriptors of requests are what the parser and the plugin expect of it. Names that it refuses, such as a field
  with the name of a nested type beside it, do not occur.
- `last_size`, a hint for the capacity of the buffer.
- The scripts, the build, and `wellknown.py`, which is generated.
