# Verification of go-jsonfast

TLA+ models of go-jsonfast, model-checked with TLC on small instances and, for eight of its
components, proved with TLAPS for every value of their constants. What keeps state is modelled
as state machines, what is a pure function of bytes as operators that are compared with a
second definition over bounded inputs.
Every definition is translated from the Go source; `PROJECT.json` maps each one to the
lines it stands for.

Run from this directory:

    tlc -config MCWalker.cfg MCWalker       # and so on, one per MC module
    tlapm WalkerProofs.tla                  # and so on, one per Proofs module

## 1. The system

go-jsonfast is a library: it validates, walks, decodes, flattens and writes JSON. Nothing is
persisted and no goroutine is started; the only state that calls share is the two pools.
What is hard in it is sequential: bookkeeping that is compact, reused and lazy (one bit per
open container, one bit for all commas, sets that are reused for siblings, buffers that are
given back while slices still point into them), which goes wrong only after a long sequence
of tokens or calls, and far from the step that caused it.

| Component | State | Operations | Used by | Correct when |
|---|---|---|---|---|
| Walker (`validate.go`) | position, depth, grammar state, `kindStack` (bits of the open containers) | `newWalker`, `top`, `token`, `next`, `finish`, `rest` | all checking walks | it accepts exactly the values nested within the bound |
| NameSet (`names.go`) | inline table, slots, spill map | `add`, `reset` | every walk that refuses repeats | it answers as a set, and a probe ends |
| Open objects (`names.go`) | stack of name sets, stack of arena marks | `push`, `pop` | `IterateDocument`, `WalkTokens`, `FlattenObject` | one set per open object, no set reads room that was given back |
| Arena (`decode.go`) | chunk in use | `tokenAt`, `carve`, `keep`, `mark`, `rewind` | every decoder | what was handed out is not written again; allocation follows decoding |
| Document iteration (`iterate.go`) | sets, arenas, whether a name repeated | `IterateObject`, `IterateDocument`, `WalkTokens` | callers, with a callback | the first repeat is found, malformed input wins, the callback sees each item once |
| Flattening (`flatten.go`) | leaf names, pending names, lazy sets, two arenas, a comma bit | `FlattenObject` | callers | each leaf once, repeats found, nothing written on failure |
| Builder, FieldKey (`builder.go`, `fieldkey.go`) | buffer, `needSep` | Field, Element, FieldKey, raw writers, `Reset` | callers, `FlattenObject`, the encoder | legal calls write JSON |
| Pools, BatchWriter (`pool.go`, `ndjson.go`) | two `sync.Pool`s shared by all goroutines | `Acquire`, `Release`, `Build`, and the batch twins | callers | pooling cannot be seen |
| Lenient scan, iteration, Cursor (`scan.go`, `iterate.go`, `cursor.go`) | an offset, a set of names | `skipValueAt`, `IterateFields`, `IterateMembers`, `IterateArray`, `FindMember`, `FindElement`, the `Cursor` methods | callers, with a callback | on a value lookups and iterations follow its tree; on any text no more is accepted than documented |
| ValueEncoder (`encode.go`) | stack of frames, stack of keys, buckets chained through the frames | `appendValue` and its steps | Builder value writers | cycles and values too deep end as `null`, keys sorted, one for each name written, it ends |
| DecodeValue (`value.go`) | stack of unfinished containers, value of the document, arena | `DecodeValue` | callers | the value is the document's, repeats are found, malformed input wins |
| String codec (`decode.go`, `escape.go`, `validate.go`, `scan.go`, `encode.go`) | none | `stringEnd`, `strictEnd`, `tokenAt`, `matchedPrefix`, `appendEscaped`, `compareWritten` | all | the scanners agree, escaping and decoding are inverse, names are ordered as they read |
| SWAR (`swar.go`, `scan.go`, `decode.go`) | none | masks, runs, `hex4` | the scanners | words agree with bytes |
| Numbers, scalars (`number.go`, `scalar.go`, `scan.go`) | none | `skipNumber`, the decoders and writers of integers, `decodeFloat` | all | exact at the ends of a word; strconv is handed what it reads exactly |
| Time (`time.go`) | none | `AppendTimeRFC3339`, its `Offset` twin | callers | what is written names the instant |
| Kinds, text, errors (`kind.go`, `text.go`, `errors.go`, `doc.go`) | none | `KindOf`, conversions | all | - |

How they interact. A checking walk (`IterateDocument`, `WalkTokens`, `FlattenObject`,
`DecodeValue`) drives one walker; at each string it has the arena decode it, adds member names
to the set of the innermost open object, and calls back or writes through a Builder.
`walkObject` puts the same walker before each member's value in turn (`top`), so the walker's
words and the sets outlive a value. After a repeat the walk goes on without sets, only to learn
whether the document is malformed. `Build` and `Acquire` take a Builder from a pool that other
goroutines use between any two of its steps. The lenient readers drive no walker: they look for
quotes and brackets a word at a time and check only what they return. The encoder is a caller
of the Builder, and its keys are ordered by the codec as they will be written.

The hazards are listed in `PROJECT.json`, each at its line with the properties that would catch
it going wrong; some entries stand for several of one kind in the same lines.

## 2. The modules

| Module | What it is | Code |
|---|---|---|
| `JsonText` | the grammar as sets of token sequences (reference definition) | - |
| `Pushdown` | abstract: a pushdown automaton with a stack of kinds | - |
| `Walker`, `MCWalker`, `WalkerProofs` | the walker and its bit stack; implements `Pushdown` | `validate.go` |
| `Membership` | abstract: a set with add and reset | - |
| `NameSet`, `MCNameSet`, `NameSetProofs` | table and spill; implements `Membership` | `names.go` |
| `Arena`, `MCArena`, `ArenaProofs` | chunks, carved strings, marks | `decode.go`, `value.go` (`text`) |
| `UniqueNames` | abstract: what the three walks promise | - |
| `ObjectWalk`, `MCObjectWalk`, `ObjectWalkProofs` | the walks with `openObjects` and its arena; implements `UniqueNames` | `iterate.go`, `names.go`, `validate.go` |
| `Builder`, `MCBuilder`, `BuilderProofs` | comma bookkeeping against `JsonText` | `builder.go`, `fieldkey.go` |
| `PrivateWriters` | abstract: every goroutine has new writers of its own | - |
| `Pool`, `MCPool`, `PoolProofs` | goroutines, both pools, Build, batches; implements `PrivateWriters` | `pool.go`, `ndjson.go`, `builder.go` |
| `FlatLeaves` | abstract: what `FlattenObject` promises | - |
| `Flatten`, `MCFlatten`, `FlattenProofs` | the lazy sets, arenas and writes; implements `FlatLeaves` | `flatten.go`, `names.go` |
| `Scan`, `MCScan` | the lenient readers and the Cursor, against trees and the lenient grammar | `scan.go`, `iterate.go`, `cursor.go` |
| `Encode`, `ValueTree`, `MCEncode`, `EncodeProofs` | the value encoder on graphs of containers; implements `Builder`; the text of a value by recursion over it | `encode.go` |
| `Decode`, `MCDecode` | the value that a document is decoded to | `value.go`, `validate.go` |
| `Swar` | words of bytes with their borrows and carries | `swar.go`, `scan.go`, `decode.go` |
| `StringCodec`, `MCStrings` | strings byte by byte, by words; uses `Swar` | `decode.go`, `escape.go`, `validate.go`, `scan.go`, `iterate.go`, `encode.go` |
| `Numbers` | the grammar of numbers, integers in a word, what strconv is handed | `scalar.go`, `number.go`, `scan.go` |
| `Times`, `MCNumbers` | times with their zones and fractions; uses `Numbers` | `time.go` |

**Walker.** A step is one turn of the loop of `advance`: it reads one token, chosen among all,
so every document is tried. `Takes` and `Past` are the walk table, entry by entry; `Set`, `Get`,
`Spill` and `WithBit` are the bit stack, with `WordBits` levels per word and `InlineWords` words
inside; bits are not cleared when a container closes or a new walk starts (`Top`), as in the
code. At a string the walker stops and `ScanString` is the caller's `strictEnd`. The variables
`read` and `deepest` are history: the tokens of this walk and the most containers ever open.

**NameSet.** `slots`, `inline` and `spill` are the fields. The probe loop is its first stop:
the first slot, from the name's hash on, that is empty or holds the name; `ProbeEnds` states
that there is one. The hash is a constant function, so any collision pattern is a case.
`held` is history: the most names that the present map ever held, which stands for its capacity.
So are `asked`, `added` and `turn`: the name that the last call was given, the answer of the last
add, and a bit that flips with every call. `Membership` has the same three, so that an answer is
compared with the one that a set gives of that name; without the bit an add that answers as the
last one did, or a reset that does nothing, would pass for no call at all.

**Arena.** A chunk is a number, a string a range of its bytes, and `wrote` the range that a step
wrote. A string is decoded in pieces (`Piece`), any of which may outgrow the chunk. `views` are
the strings the caller holds; `Rewind` lets go of those carved since the mark. `keep` is
modelled as `DecodeValue` calls it, at the string's own quote; `FlattenObject` calls it with
the rest past an object's opener, a smaller floor, so `OneChunk` is not claimed of its arena
for object names, for which the documentation does not claim it either.

**ObjectWalk.** One module for the three functions, by `mode`. A set holds *places* of the arena,
and reads whatever is written there now, so room given back too early shows as a wrong answer.
`kinds` and `next` are the walker as proved in `Pushdown`, restricted to tokens that `token`
stops at; `Fault` is anything it refuses, at any point. `fn` may fail at every call.

**Builder.** The caller makes the calls that the comments allow: fields in objects, elements in
arrays, one value after a key or comma left alone. `open` and `owed` are the caller's.
Every writer appends its tokens and changes `needSep` as the code does. `Lengths` are the numbers
of strings or members that one call of the string array writers or `AddRawMembers` may write.

**Pool.** Goroutines interleave at the grain of the calls, and `Get` and the reset that follows
it are two steps. `sync.Pool` is external: it may hand out any pooled writer or none, and the
collector may drop one at any time. A released writer is not used again, which is the rule
that the documentation of `Release` gives its callers.

**Flatten.** Every token of a document, with the name sets that an object takes only when it
must (`pending`, `File`), the name of a nested object that moves between the arenas (`Moved`),
the leaf being written, both comma bits, and the rollback (`Fails`). Names may lie in the
document or in an arena, as they need no decoding or do.

**Scan.** A document is a sequence of tokens and a place an index. `SkipValueAt` counts only the
brackets of the value's own kind, as `skipBraced` does. `Look` is a lookup on the Cursor that
the lookups before it left, and `Begin`, `Visit`, `Close` and the steps that fail are one
iteration, whose callback may fail at any item; the four iterations on raw text and the two on a
Cursor differ in `call`, and in whether an item's value is passed before fn has it or after.

**Encode.** The memory is a function from pointers to maps and arrays, so any graph is a value,
with cycles, shared parts and slices of one array. Writing a value, one look at a frame of a bucket's
chain and going on to the next item are the three states of the loops (`pc`). A key is a number in byte order,
and `Reads` gives the name that it is written as. `Calls` maps every step to a call of `Builder`
or to a stutter: the encoder keeps the contract that `WritesValues` assumes of callers.

**Decode.** `open` holds the unfinished containers, each with the name that waits in it. A repeat
ends the building and leaves the rest to the walker, as in the code.

**Swar, StringCodec.** A word is a sequence of `WordSize` bytes. A subtraction borrows from byte to
byte (`Minus`), so the flags behind the first are as wrong in the model as in the code. The
scanners are operators over bytes and take the words of `Swar` where the code does. `utf8` and
`utf16` are external, written out from their documented ranges.

**Numbers, Times.** Integers are read and written in a word of `Word` values. Of a float only what
the code does before and after `strconv` is modelled: the refusal by digits and exponent, and the
text that strconv is handed when it would not read the number as it stands. What strconv sees of a
text is the first `PointDigits` digits, whether more follow, and the point. The calendar is external:
a clock is its second.

`JsonText` is an instance with one string for the walker and the Builder, which do not tell
strings apart, and with the names for `Scan`.

## 3. What the runs check

Bounds are constants of the MC modules or the configurations, named where they are used.

| Run | Shows | Bounds, and why they are enough |
|---|---|---|
| `walker` | `StackSound`, `SpillFollowsDepth`, `VerdictsExact`, `ImplementsPushdown` | two levels per word, one inline word, four levels: the spill starts at level 3, two levels share each word, and nine tokens open, close and reopen every level with either kind. Bounds -1, 0, 1 and 4. The theorems cover every other size. |
| `nameset` | `TableSound`, `ProbeEnds`, `KeptMapSmall`, `ImplementsMembership` | a table of six slots for three names, seven names of which three share a hash, some run into others' slots and wrap past the last slot; maps on both sides of the limit of five. |
| `arena` | `NeverRewritten`, `MarksNameChunks`, `OneChunk`, `AllocationFollowsDecoding` | room 6, documents of 6 and 12: strings that fill a chunk, outgrow it in mid-decoding and follow a rewind into a later chunk. |
| `objectwalk` | `Stacked`, `ImplementsUniqueNames` | two names and depth three give siblings, repeats at every level and in values of other members; five carved names in `WalkTokens`, which gives no room back. |
| `builder` | `WritesValues` | eleven tokens, four open containers and values nested five deep, no, one or two strings or members a call: empty and non-empty containers as first and later items of each kind, and values still owed to a key or a comma. The theorem covers every other size. |
| `pool` | `Exclusive`, `RetainsLittle`, `ImplementsPrivateWriters` | two goroutines that race for two Builders and two BatchWriters; buffers exactly at the limit and past it, by writes and by `Grow`; two writes, and one record of them, tell a comma or a count left over from one that is due. |
| `flatten` | `SetsOfObjects`, `ImplementsFlatLeaves` | two names, depth three, one pending name: objects with no, one and more leaves before a nested object, objects within leaves, and the Builder with and without a separator due. |
| `encode` | `OpenSound`, `WritesTree`, `Done`, `CallsBuilder` | one frame is scanned (`inlineOpenValues`), buckets are made two a frame and made anew under one a frame, and the hash is a table with collisions, so chains form, cross and are refiled within five levels. Memories: every graph of a map, an array of two cells seen by slices of length 1 and 2, and a second array; every map of keys of which three read alike; chains of five containers with ways back to each. |
| `scan` | `LookupsFollowTree`, `IteratesTree`, `AcceptsLenient` | all values of up to nine tokens, nested three deep, over two names; objects and arrays of three items, with repeats that are not next to each other; every edit of one token of those up to seven tokens; brackets of the two kinds that do not match; chains of two lookups, as only the last place of a chain is kept. |
| `decode` | `DecodesDocument` | bounds -1, 0, 1 and 3, eight tokens, two names: siblings, repeats at each level and behind nested values, faults behind a repeat. |
| `strings` | `WordsExact`, `ScannersAgree`, `EscapesRoundTrip`, `NamesOrdered` | words of three bytes and data of four: a borrow that crosses two lanes, each tail, data shorter than a word. Four pieces out of quotes, escapes, halves of a pair, multi-byte runes, cut ones and control bytes, and the bytes on either side of every comparison. No loop of the code looks further than a word or a pair of escapes at once. |
| `numbers` | `IntegersExact`, `FloatsKept`, `TimesNameInstant` | a word of 2^14 and every integer to past it on both sides: overflow by the product and by the sum, both signs. A limit of two digits and a strconv that keeps two and misreads exponents from 100 on, so that digits run out and go on on either side of the point; `FloatAssumption` is what the real 800, 100000 and -400 satisfy too. A range of sixty seconds with days of fifteen: offsets of more than a day, and clocks that leave the range at either end. |

The runs of the proved modules and `scan` check their type invariant by name; elsewhere it is a conjunct of the
first invariant that needs it (`Stacked`, `SetsOfObjects`, `OpenSound`; `WritesValues` holds
`CommaWhenDue`). `JsonText` defines the values of the grammar without reference to the walker, so
`VerdictsExact` and `WritesValues` compare two independent descriptions; so do `WritesTree`,
`LookupsFollowTree` and `DecodesDocument` with a tree read by recursion, and the runs
`strings` and `numbers` with definitions that read one character, rune or digit at a time.
`VerdictsExact` says that the walker accepts the values of the grammar and refuses nothing else.

Each property has a mutant in `PROJECT.json`: a plausible bug in one definition, named in its
module as *Mutant of ...*, under which TLC finds the property violated. The specifications
never use these operators.

Deadlock is checked where the system goes on for ever (NameSet, Builder, Pool). A walk, an
encoding and a text that grows to its bound end: the other configurations say `CHECK_DEADLOCK FALSE`.

**Fairness.** `FairSpec` of `Encode` assumes weak fairness of its next-state relation, and `Done` is checked
under it: the loops of `appendValue` run on one goroutine, call nothing that blocks, and a step is
always possible until the value is written, so the only way not to end is to go round, in a bucket
whose chain meets itself or in a value that holds itself. No other fairness is assumed: every
other call is a finite walk over its input, each step of which reads on, but for the probe of
`nameSet.add`, whose end is the state property `ProbeEnds`, which is proved. A user of the pools
may stop at any point and owes the others nothing: an `Acquire` never waits.

## 4. What is proved

Eight modules of theorems, each with an inductive invariant `IInv`, that its initial states
satisfy it, one step per action that keeps it, and the properties that follow. Six of them also
prove a refinement of another specification, step by step.

- `WalkerProofs`, for any word size and number of inline words and any set of bounds. `IInv` is
  type correctness, `StackSound` and `SpillFollowsDepth`. The last is what makes an index into
  the spill legal: without the exact length nothing says that a level below the deepest has a
  word. The lemma `KindStack` carries the proof: `set` at a level changes that level's bit and
  no other, across words. `Refinement` then proves that the walker implements `Pushdown`, and
  `VerdictsAreExact` that what it accepts are the values of the grammar within its bound, and
  that where it refuses none goes on: the invariant `TextInv` says that the walker and the
  automaton of `BuilderProofs` have read the same and are in the same place, or that the
  automaton is stuck at the token that the walker refuses. A wrong string is refused one step
  after it is read, hence the case of `scanning`.
- `NameSetProofs`, for any table size, hash and limit. `IInv` adds `MapSound` to `TableSound`.
  That a probe ends is a count: a table at most half full has an empty slot, and the probe
  visits every slot (`ProbeCovers`). `Refinement` proves that the table and the map answer every
  call, of the name it is given, as a set does. A probe that stops at an occupied slot stops at
  that name, which an index no greater than `Len(inline)` puts in the set; the step that matters
  is that one that stops at an empty slot was for a name that the table has not
  (`EmptyStopIsNew`), which is what `Reachable` is kept for.
- `ArenaProofs`, for any document length and room. `MarksSound` orders marks by chunk and
  length, so that capacity names the chunk; `Live` says that held strings lie below the end of
  the chunk in use or in an earlier chunk, also those that each mark remembers, which is what a
  rewind needs; `Budget` bounds chunks by what is left to read and what was decoded; `Short`
  says that the first chunk of a short document has room for the rest.
- `PoolProofs`, for any number of goroutines, Builders and BatchWriters, any sizes and limits.
  `Placed` says that the pools hold writers of their kind and who is idle has none; with
  `Exclusive` it makes every step one of a writer that nobody else sees (`LeavesOthers`).
  `Roomy` and `Little` split `RetainsLittle`: that text fits its buffer holds of every writer,
  the limit only of pooled ones. `Commas` (a comma is due exactly after something, in a Builder
  that was reset) is what makes a reused Builder write what a new one would. `Refinement` proves
  that the pools implement `PrivateWriters`, step by step.

- `ObjectWalkProofs`, for any bound, names and documents. `Control` says where a call can be for
  what the walker holds; `depth` is the number of open objects (`ObjectsOf`), so that the
  innermost set is the innermost object's however many arrays lie between. `Within` says that
  the sets in use hold places that are written, and `Stretches` that in `IterateDocument` the
  marks cut the arena into one stretch per open object, each set being its whole stretch: that
  is what a `pop` gives back, and why nothing that it gives back is in another set (`WalkTokens`
  gives no room back). `Stacked` follows. `Refinement` maps a set of places to the set of names
  that lie there now, and proves that the walks find the repeats that `UniqueNames` finds with
  sets that share nothing.
- `FlattenProofs`, for any depth, names and room of pending names. The sets of the objects
  outside a leaf have marks of `nested` and those within it of `arena` (`ArenaOf`), so each mark
  is ordered with those of its own arena only (`Marked`); `InUse` says that what is kept lies in
  room in use and no leaf name in `nested`. `NameWaits` is needed when a nested object is
  entered: the name that keys it lies past all others of its arena, so that the room given back
  once it has moved (`Moved`) holds none of them. With the count of objects it gives
  `SetsOfObjects`. `Refinement` proves that the flattener implements `FlatLeaves`: lazy sets,
  pending names and names that move answer as a set per object does, and a failure leaves
  nothing written.
- `EncodeProofs`, for any memory, any hash, any bounds and growth of the buckets. `Chained`
  holds while frames are filed, refiled in larger buckets and closed: the head of a bucket and
  each `older` are the newest frame of that bucket below, which `SearchSound` turns into: a
  search that ends at 0 has passed every open frame of its identity. That gives `PathDistinct`.
  `KeysStacked` orders the stretches of the stack of keys, so that `Close` cuts it where
  `KeysOfOpen` says; that a finite set of keys has a sorted sequence, which `Sorted` chooses, is
  proved by taking least elements. `Refinement` proves that each step is a call that the
  Builder's contract allows, with the tokens that the Builder writes for it. `WritesTheTree`
  proves that these tokens are the text of the value, read by recursion in `ValueTree`. Its
  invariant is `Partway`: each frame is of the item begun in the one around it (`Enclosed`), and
  what is written is, container by container, what lay before it, its opener, its items so far
  and a comma where one is due (`Nested`). Writing an item adds one item's text (`ItemDone`),
  and closing a container ends the item of the one around it (`WholeIs`). Two lemmas carry it:
  sorted and compacted, the keys of a map are the greatest of those written alike, in the order
  of names (`NamedAre`), and what the recursive functions of `ValueTree` are is found as a least
  counterexample (`TreesAre`, `JoinsAre`). A value that is its own ancestor needs no bound on
  the graph: what is written in its place is decided by the path, which the frames are.
- `BuilderProofs`, for any calls, depth and length. The grammar is an automaton that reads one
  token at a time (`Takes`), and `Reads` is a run of it over a text; `WellFormed` says that it
  has read the whole buffer and where it is: it has open what the caller opened, and whether it
  expects a first item, a next one or the value owed is told by `needSep` and `owed`. From this
  come `CommaWhenDue` and `OneValue`: once everything is closed, the buffer is one JSON value.
  `owed` must imply `needSep`: a value written bare after a lone key leaves the bit as that key
  set it.
- The automaton against the grammar, in `BuilderProofs` too: `ReadIsValue` (what it reads to its
  end within m open containers is in `Values[m]`), `ValueIsRead` (the converse) and
  `StuckIsNotViable` (where no step takes a token, no value goes on). The first parses a text:
  a value ahead of the automaton is a scalar or an opener, a list of items and its closer, where
  a shorter text is parsed already (`Parsed`, a least counterexample on the length); the second
  goes up the levels of `Values` (`LevelRead`). `JsonText` defines those sets by recursive functions,
  whose values are found the same way (`ListsAre`, `ValuesAre`). `WrittenIsValue` follows: the
  text is completed by the value owed and the closers (`MayComplete`), and a value of n tokens
  nests at most half of n deep (`Shallow`). Both theorems that conclude from this hold for any
  `MaxWritten`, `MaxRead` and `MaxNesting`, which bound the sets compared with and nothing else.
- The two together: `Text` in `EncodeProofs` is `BuilderProofs` at the encoder's calls, and
  `WritesDocument` concludes from both that what the encoder has written when it is done is one
  JSON value of the grammar, for any graph of containers. That it is the *right* value is
  `WritesTheTree`.

Assumptions: `WalkerAssumption`, `NameSetAssumption`, `ArenaAssumption`, `PoolAssumption`,
`ObjectWalkAssumption`, `FlattenAssumption`, `LengthsAssumption`, and `PointersAssumption`,
`HashAssumption` and `BoundsAssumption` of `Encode` give the constants their types and tell
names from other tokens. Of `Encode` three more are used: `KeysAssumption` (keys that are valid
UTF-8 read in the order of their bytes), `NamesAssumption` (a name is no other token) and
`MemoriesAssumption` (what a memory holds is in that memory). `BoundsAssumption` of `MCWalker` and
`MCBuilder` says that the bounds of the grammar are numbers, room for a pair of brackets, and no
smaller than the walker's bounds; `WritesDocument` has it as its hypothesis. All are evaluated by TLC in the
runs, as are those of the other modules, which no proof uses. The names are taken to be a set on
which the spill stays finite, which is proved and not assumed.

Only model-checked:
- `Scan` and `Decode`, whose properties compare a walk with a tree read by recursion: the
  recursion is in operators that the prover cannot unfold. (Where it is in functions, an
  induction can be had as a least counterexample, at a price; that is how the grammar and the
  encoder's tree were reached.)
- What the operators of `Swar`, `StringCodec`, `Numbers` and `Times` compute, for the same
  reason.
- `Done`: liveness under fairness and ENABLED are beyond the prover. `Chained` is the part of it
  that is proved: each `older` is a smaller frame, so a search goes round no chain.

## 5. What is not modelled

- In the modules that read tokens, strings, numbers and literals are one token each, good or bad,
  and whitespace has none. What a string's bytes mean is in `StringCodec`, a number's in `Numbers`.
- `DecodeBool` (a comparison with two literals), the text that `appendFloat64` writes (strconv's
  shortest, less one zero of an exponent) and the calendar's digits in times.
- `KindOf`, a table from a first byte to a constant; text conversions without a copy, error values:
  no state, and nothing that TLC could tell apart. `number`, the callback of `DecodeValue`, returns one value.
- `FlattenObject`'s and the walks' arenas are one chunk in `Flatten` and `ObjectWalk`; their growth
  is in `Arena`. Sets are mathematical there; the table is in `NameSet`. The walker is its
  automaton there; the bits are in `Walker`. The composition is by these refinements.
- Misuse that the documentation forbids: a Builder used after `Release` or by two goroutines,
  raw text that is no JSON, closers that close nothing.

## 6. Plan

Done: every component that keeps state or decides on bytes is modelled, in the order of their weight: the walker, the
sets and the arena carry every checking walk, the walks, the Builder and the pools are what
callers see, then the lenient readers, the encoder, `DecodeValue` and the operators on bytes.

Proved: the invariants and refinements of the walker, the sets, the arena, the pools, the walks,
the flattener, the encoder and the Builder, that the walker takes, and the Builder writes, the
values of one grammar and nothing else, and that what the encoder writes is such a value, by the
Builder's theorem, and is the text of the value given.

Next, prove:
1. the types of `Scan` (a place is always within the text) and that a `Cursor` never leaves its document;
2. the bookkeeping of `Decode`: one set per open object, and after a repeat no more building.
