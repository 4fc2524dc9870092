# Verification of retro-json

TLA+ models of the JSON library in this repository (`src/src/*.c`, header
`src/includes/json.h`), checked with TLC on small instances and, for the
properties that matter most, proved with TLAPS for every value of the
constants.  Paths below are relative to the root of the repository, which is
called `src/` here: `src/src/object.c` is the file `object.c` of the library.

Contents: [inventory](#inventory), [modules](#modules), [runs](#runs),
[fairness and deadlock](#fairness-and-deadlock), [proofs](#proofs),
[where the code does something else](#where-the-code-does-something-else),
[not modelled](#not-modelled), [plan](#plan).

## Inventory

The library is a parser, a tree of values and a printer; it is sequential inside
one call, and threads may call it at the same time as long as they do not share
values.  What is shared by threads is little: the error key, and in the debug
build the list of allocated blocks.  The static variables of `parser.c` and
`pretty.c` and the id counter of `object.c` are `thread_local`.

| component | sources | state | operations |
|---|---|---|---|
| object table | `object.c` | `capacity`, `size`, `unique_size`, `entries`; `uniq`, the next id, per thread | `object_init`, `object_reserve`, `object_add`, `object_next`, `object_free_internal` |
| parser | `parser.c`, `json_parse*` in `json.c` | `offset`, `depth`, the C stack, the values built so far | `json_parse`, `json_parse_mem` |
| string | `string.c` | `data`, `capacity`, `size`, `hash` | init, append, reserve, shrink, free, copy |
| array | `array.c` | `values`, `capacity`, `size` | init, append, reserve, free |
| values and public functions | `json.c` | the tree | constructors, getters, setters, `json_object_add`, lookups |
| deep copy | `json.c` 411-493 | the copy so far | `json_copy` |
| comparison | `json.c` 500-594 | the C stack, `*left_out`, `*right_out` | `json_are_equal` |
| pretty printer | `pretty.c` | buffer, size, position, indentation | `json_pretty_print` |
| UTF conversions | `utf.c` | none | `c16type`, `c16pairtoc32`, `c32toc8`, ... |
| error slot | `error.c`, `alloc.c` | a `tss_t` slot per thread that owns a text | `set_error`, `errorf`, `error_init`, `error_exit`, thread exit |
| debug allocator | `dbg_malloc.c` | a doubly linked list of blocks, a counter | malloc, calloc, realloc, free, detach |
| programs | `prettify/`, `test-*/` | none of their own | input and output; drivers of the library |

**How they interact.**  The parser calls `string_append`, `array_append` and
`object_add`, and frees what it owns when one of them fails.  Every component
allocates through the macros `json_malloc`, ... of `json_internal.h`, which are
the debug allocator or, in the release build, `alloc.c`; the latter reports a
failure by `set_error`, so that any allocation may write to the error slot.
`errorf` itself allocates, and detaches its text from the debug list.
`object_reserve` calls `object_add` again for every old entry: the two are
mutually recursive.  The only callback is the destructor `free_error` of the
slot, which runs at the end of a thread.

**What is hard about it.**

* *Rehashing.*  A growth happens in the middle of `object_add` and re-adds every
  entry.  Probe loops are `for (;;)`: they end because half of the table is
  empty.  Entries are ordered by ids that a rehash renumbers.
* *Failing allocations.*  The parser can fail between any two of its steps, at
  any nesting, owning a key, a value and everything around them.  Some results
  are ignored.
* *Recursion.*  The depth counter of the parser is not decremented on one early
  return.
* *Threads.*  Ids are per thread but stored in objects; errors are per thread
  but the library is left by one of them; the debug list has no lock.
* *Memory in the tree.*  Setters and copies replace and build in several
  allocations, of which each may fail and not all are looked at.
* *Buffers.*  A string's buffer grows, can vanish, and shrinks without its
  capacity; the printer counts past the end of a buffer that is cut off.
* *Surrogates.*  The second half of a pair is looked for and, if it is not one,
  given back.
* *Comparison.*  Two out-parameters are written on the way out of a recursion;
  an inner loop asks for "the next" value without saying after which.

**What makes each component correct.**  An object is a multimap, whatever its
buffer does: nothing added is lost, doubled, unreachable or freed twice, counts
are exact, calls return.  The parser accepts JSON texts and nothing else, says
so when it fails, owns every block exactly once, and is bounded in its
recursion.  A comparison gives the right answer, with nodes that differ, and
ends.  A string holds what was written between its quotes, inside its block.
Every value has one owner and a copy shares nothing with its source.  Printing
stays inside the buffer and gives JSON for the value.  An error belongs to the
thread whose call failed.  The debug list holds
the blocks that exist.  The `hazards` of `PROJECT.json` name each danger at its
line, with the properties that watch it.

## Modules

| module | models | lines of code it stands for |
|---|---|---|
| `Multimap` | nothing: what an object promises, as an abstract specification | |
| `ObjectTable` | the hash table | `object.c`, `json_create_object`, `json_object_add`, lookups |
| `MCObjectTable` | instances for TLC | |
| `ObjectTableProofs` | theorems | |
| `JsonGrammar` | nothing: RFC 8259 over tokens, as a reference | |
| `Parser` | the recursive descent and its memory | `parser.c`, `json_parse` |
| `MCParser`, `ParserProofs` | instances, theorems | |
| `Utf` | the conversions, and UTF-8 and UTF-16 as references | `utf.c` |
| `ParseString` | a string, escape by escape, and its buffer; implements `Scan` of `Parser` | `parse_string`, `append_unicode_code_point` in `parser.c`, `string.c` |
| `MCParseString`, `ParseStringProofs` | instances, theorems about both | |
| `Values` | a user's values and the memory they own; the deep copy | `json.c` 15-246, 335-355, 411-493, `array.c` |
| `MCValues`, `ValuesProofs` | instances, theorems | |
| `PrettyPrint` | the walk of the printer and its buffer | `pretty.c`, `json_pretty_print` |
| `MCPrettyPrint`, `PrettyPrintProofs` | instances, theorems | |
| `Equality` | `json_are_equal`; `Equal` in it is a reference | `json.c` 500-594 |
| `MCEquality`, `EqualityProofs` | instances, theorems | |
| `ErrorSlot` | the error of a thread | `error.c`, `alloc.c`, `json_init`, `json_exit`, `json_strerror` |
| `MCErrorSlot`, `ErrorSlotProofs` | instances, theorems | |
| `DebugBlocks` | the list of blocks | `dbg_malloc.c` |
| `MCDebugBlocks`, `DebugBlocksProofs` | instances, theorems | |

Definitions have the names of the source where TLA+ allows it (`capacity`,
`unique_size`, `old_entries`, `is_duplicate`, `blocks_first`, ...).  A
definition whose name begins with `Bad` is a plausible bug in the definition
that follows it; nothing uses it except the mutation tests listed in
`PROJECT.json`, each of which must break one property.

### ObjectTable

One object, from `json_create_object` to its disposal.  `capacity`, `size`,
`unique_size` and `entries` are the fields of `struct jsonObject`; `uniq[t]` is
the `thread_local` id counter of thread `t`.  The object has no lock, so calls
on it never overlap, but the thread may change from call to call.

A call is split at its loops.  `AddInPlace` and `AddGrow` are the two ways
`object_add` begins (`object_reserve` finds room, or allocates), `AddNoMemory`
the failing allocation.  `RehashSkip`, `RehashMove` and `RehashDone` are an
iteration of the loop over the old table, `ProbeNext` an iteration of the probe
loop, `PlaceMoved` and `PlaceAdded` its end, in the nested and in the outer
call.  `LookupFirst` and `LookupNext` are a user who walks over the values of a
key with `json_object_lookup` and `json_object_lookup_next` while others are
added.  `Free` is `object_free_internal`.

A key is its content; `Hash` is any function from keys to numbers, so that
collisions are a choice of the instance.  The n-th value added is the number n.
The tombstone `key_deleted` is not modelled: no function removes an entry.

The history variables `keyOf` (what was added), `released` and `it` are what the
properties compare the table with.

### Parser

The input is not fixed in advance: each token is chosen when the parser looks at
it, so that a run covers all inputs of up to `MaxTokens` tokens.  `ahead` is the
token the parser has looked at and not consumed, `gap` the white space before
it.  `stack` is the C stack: a frame per call of `parse_value` that is inside
`parse_array` or `parse_object`, with the blocks it owns (`own`: the value, its
buffer and its children; `key`: the key of the member at hand).  `depth` is the
static variable.  There is an action for each way to go on and each way to fail
at each place of the descent; `Fail` is the label `fail:` of both functions.

Each call of `json_parse` chooses whether memory is `scarce`: then every
allocation may fail, and otherwise none does.

A string, a number and a word are one token each: "str" is what `parse_string`
takes for a string and "badstr" what it does not, "num" is a number that fits
into `number_buffer` and "longnum" one of 4095 or more characters, which does not
(`NumberTooLong`).  What happens inside a string
to its buffer is `Scan`, the set of outcomes of `parse_string`: true or false,
what the buffer has, whether a buffer was lost on the way and the error that is
set; module `ParseString` has the characters, and `ImplementsScan` and theorem
`ScanIsEnough` show that its outcomes are these.  `heap` counts allocated
blocks, `lost` those whose only pointer was overwritten.

### Utf and ParseString

`Utf` is arithmetic: a mask of the lowest bits is a remainder, a shift a
division.  `IsUtf8`, `IsHigh` and `IsLow` are the definitions of the RFCs, and
what the theorems compare the code with.

`ParseString` chooses the elements of the text, ordinary bytes and escapes, as
`parse_string` looks at them.  The `code` of an element "u" is what `strtoul` makes
of the four characters behind `\u`: a code unit or, with a minus sign, a number
that is no code point and that `c32toc8` refuses, unless its lowest 16 bits make
it half of a pair (`Unicode`).  `capacity`, `bytes` (with `size` as its length)
and `hash` are the fields of `struct jsonString`; `block` is how large the
memory at `data` is, which the code does not keep: 0 for a null pointer.  The
three come apart when a growth fails, which leaves `capacity` and `size` but no
block, and in `string_shrink`.  A hash is the sequence of bytes that went into
it, so that two are equal only if all bytes are.  `Char` is the one place where
the failure of `string_append` is ignored.  `Pair` and `NoPair` are the two ways
to go on after the first half of a pair; the second gives back what was read.

### Values

`heap` has the structs by address, with what their fields say, and `live` counts
all blocks that are allocated.  The difference, `Lost`, is what nobody can free.
A user holds `roots` and plays by the rules of `json.h`: he uses what is not
freed and gives each value to one container, and to none inside of it.  A call
is one action with a disjunct for each allocation that may fail; `json_copy` has
one action per turn of its loops, with its recursion in `stack`.  `GiveUp` is
the label `fail:` of `duplicate_object`.  An object is its list of entries in
the order of the table, and a new entry gets any place in it: where exactly is
the business of `ObjectTable`.

A key whose text could not be allocated is `NULL` or `Junk`: the first comes from
`json_object_add`, the second from `string_create_str`, which leaves the hash
uninitialised.  Comparing one with another key passes a null pointer to `strcmp`;
`MeetsNull` says when that may happen, and the program then ends or goes on.  A
failed assertion, of `string_init_str` for a struct or a text that is not there,
ends it too (`aborted`).

### PrettyPrint

A text is a sequence of cells, `buffer` a function from the positions written to
cells, so that a write outside of `0 .. out_size - 1` shows.  `Emit` is one
`jprintf`, with what `vsnprintf` does for the room that is left; the other
actions are the code between two of them, and leave in `pending` what it prints.
`text` remembers all that was printed, cut off or not.  The caller prints a
value as often as he likes, also with size 0 first and then with the size that
this returned (`needed`), as `prettify/main.c` does.

### Equality

One step per call of `are_equal`, per element, per answer.  `stack` is the C
stack below `at`, the pair being compared.  Strings and keys are `Text`, of which
a parsed one may have a null character inside: `CString` is a text up to there,
which is all that `strcmp` and the argument of `object_next` have of it, and `Hash`
the hash that is kept with a key, which is of all its bytes.  `Newest(o, s)` is
`object_next(o, s, NULL)`: the entry with the greatest id of those whose key has
the hash of `s` and is `s` up to its null character (`Under`).  A number carries a name and `LowByte` the first byte of its double in
memory, because that is what the code compares.  `Value` is any set that holds what
is in its members.  `TryAgain` is the iteration of
the `while` loop of `objects_are_equal` that asks for the newest value again.  `Equal` is the
reference, a recursive function on pairs, and `Plain` says of a value that no
null character is inside any string or key in it.

### ErrorSlot

Of a call, the steps are kept that allocate and free texts of errors and that
change the error; the calls of different threads interleave at them.  A parse
clears the error when it begins (`ParseBegins`, from `parser_begin`), any other
function does not (`CallBegins`).  `OutOfMemory` is a failing allocation, after
which the function gives up or goes on.  `errorf` is in six steps: it allocates
the message and then the text made of it, either of which may fail, puts the
text into the slot, and frees the message.  `Return` ends a call, whether it was
successful, reported a failure, or fails without a word.  `pointer` is where the
slot of a thread and the two texts that `errorf` has in hand lead to; a block
that one thread has freed may be the next text of another.  The histories
`raised` and `recent` are the errors that calls of a thread have raised since its
last parse, and those of the last call; a block that is allocated again leaves
them.  `ExitLibrary` and `InitLibrary` happen while no call runs; the end of a
thread runs the destructor.

### DebugBlocks

`add_block` and `remove_block` statement by statement, for several threads, with
the pointers as functions.  The assertion of line 41 is a guard of `AddBack`: a
state in which it fails would be a deadlock, which the run excludes.  A client passes only blocks it owns.  `attached` is
what ought to be in the list.

## Runs

| run | shows | instance | distinct states |
|---|---|---|---|
| `object_one_thread` | `NewestFirst`, `WalkIsExact`, `CallsReturn` | 3 keys, 5 values, capacities 3, 7, 11 | 261,960 |
| `object_handover` | the structure (`HalfEmpty`, `NoGapOnPath`, `StoredOnce`, `CountsExact`, `FreedExactlyOnce`, `NestedAddNeverGrows`) and `Refines` | 2 keys, 4 values, 2 threads | 156,618 |
| `parser` | `AcceptsOnlyJson`, `RejectsOnlyBroken`, `ErrorIffNull`, `Ownership`, `RecursionBounded`, `ParseEnds` | 13 tokens, up to 8 of them, depth 3, with and without failing allocations | 453,781 |
| `parse_string` | `InsideBlock`, `DecodesRight`, `HashFindsKey`, `ImplementsScan` | up to 5 elements out of 11, first capacity 2, allocations fail | 375,566 |
| `pretty_print` | `NeverOutside`, `TruncatedRight`, `PrecalculatedFits`, `PrintsTheValue`, `PrintingEnds` | the values of `AllValues`, sizes 0 to 20 and the precalculated one | 152,196 |
| `values` | `OneOwner`, `CopyIsFaithful`, `RoomForCopy`, `SuccessLosesNothing` | 3 values and their copies, 2 texts, 2 scalars, one allocation fails | 987,428 |
| `equality_distinct_keys` | `TrueIsRight`, `FalseIsRight`, `DiffIsInnermost`, `EqualEnds` | all pairs of the 73 values of `DistinctKeys` and the null pointer | 21,220 |
| `error_threads` | `TextsAreOwned`, `ShownIsOwn`, `OnlyExitForgets` | 3 threads, 4 texts | 95,276 |
| `blocks_one_thread` | `ListIsExact`, `NothingDangles` | 1 thread, 4 blocks | 631 |

The runs `object_order`, `values_copy` and `equality_ends` end with a
counterexample each; they are in
[the table below](#where-the-code-does-something-else).

**Why the bounds are enough.**

* *ObjectTable.*  A table grows when it would be more than half full: with
  capacities 3, 7, 11 at the 2nd and at the 4th value, so that five values see
  two growths and entries that were moved twice.  `SmallHash` makes two keys
  collide in the first table and two in the last, and puts the home of `k3` on
  the last slot of the table of 7, so that its probes wrap around; in
  `HandoverHash` both keys have the last slot as home.  `Create` also takes
  every initial capacity.  `FirstId` lets threads have used ids for other
  objects.  The theorems hold for all tables.
* *Parser.*  Eight tokens hold an object with a member that is an array with an
  element, two members, or four elements; depth 3 is reached and exceeded.  A
  frame forgets nothing between tokens but its kind, so that longer inputs
  repeat what these do.
* *ParseString.*  The buffer grows from nothing to 2, 4 and 8 bytes, and may be
  lost at any of these growths and come back at a later one; five elements hold
  a pair of surrogates with something before and after it, two halves in the
  wrong order, and a half followed by each other element; the ordinary byte is
  of a character of two.  Two numbers have a minus sign: one that `c16type` takes
  for a second half and one that it takes for a first.  One loss is enough
  because what follows one does not depend on how many there were; theorem
  `NeverOutsideTheBlock` has no such bound.
* *PrettyPrint.*  Every kind of value in every other, a blank entry before, between
  and after used ones, strings that take the fast path and strings that are
  escaped.  Most texts are shorter than 20 cells, so that they are cut at every
  position and printed whole; the size that is returned for size 0 is tried for
  all.
* *Values.*  Three values are a container in a container with a scalar, or one with
  two members; tables for one and for three entries make the second member grow
  the table.  `Node` has room for the copies.  One failing allocation per
  behaviour is the interesting case: a second one finds either the state of
  before or one that only lost memory, and `MaxLost` ends the calls there.  With
  `MaxFailures = 2` (2,343,325 states) the four invariants hold as well; the run
  is kept to one for its time.
* *Equality.*  Two levels of arrays and objects with up to two entries in either
  order of slots: a difference at every place, inner and outer.  The hashes of the
  keys "a" and "b" are the same; a string and a key with a null character inside
  are compared too, with themselves and with all others.  Numbers that
  begin with the same byte and keys that occur twice are left out: there the
  code goes wrong (see below).
* *ErrorSlot.*  Three threads: one that exits the library, one that is
  forgotten, one that has ended; one text more than threads.  A thread in `errorf`
  holds up to three texts (the old one, the message and the new one), so that
  texts run out, `errorf` fails at either allocation, and blocks are used again.
* *DebugBlocks.*  Four blocks: first, last and two inner ones, next to each
  other.

`SYMMETRY` is used where the names are interchangeable and no liveness property
is checked: blocks, threads and texts.  Keys are not (their hashes differ).

Bounds in guards: `MaxSize` (values added to an object) and `MaxTokens` (after
which the input ends).  `uniq` grows with the values moved and added; a 64-bit
counter of ids does not overflow in the life of a program, and is a natural
number.  `Scan` lets a string lose its buffer at most once, and `MaxLost` of
`ParseString` says the same.  `MaxElements` bounds the text of a string,
`MaxSize` of `PrettyPrint` the buffers, and `MaxValues`, `MaxRoots`,
`MaxFailures` and `MaxLost` of `Values` what the user makes, holds and runs
into.

A type invariant is an invariant of a run and a theorem in `ObjectTable` and
`Parser`, a theorem in `PrettyPrintProofs`, part of an inductive invariant in
`ErrorSlotProofs`, `ParseStringProofs` and `DebugBlocksProofs`; elsewhere `TypeOK` only says what the variables are.

## Fairness and deadlock

`ObjectTable`, `Parser` and `PrettyPrint` have `WF_vars(Step)`, where `Step` is the steps of a
call that has begun: the code has no lock and waits for nothing, so that a
thread that is scheduled runs on.  No fairness is assumed of beginning a call,
of lookups or of `Free`.  A step whose outcome is chosen (an allocation, a
token) is one action to the fairness condition, so that nothing is assumed of
the choice.  `Equality` is one call, sequential, hence `WF_vars(Next)`.
`ErrorSlot` and `DebugBlocks` state no fairness and no liveness.

`CHECK_DEADLOCK FALSE` stands where the system stops: an object that is freed,
a comparison or a `parse_string` that has returned, threads that have all ended, a
user of `Values` whose program was aborted or who has reached a bound.  In the
runs of `Parser`, `PrettyPrint` and `DebugBlocks` deadlock is checked: the
descent and the printer always have a next step, and no statement of the list
waits.

## Proofs

Checked by TLAPS, for all values of the constants that satisfy the assumptions
of the modules (`Hash` maps keys to naturals, capacities are a strictly growing
sequence of positive numbers whose last is enough for `2 * MaxSize` entries,
pointers are different from each other).  None of them bounds anything but
`MaxSize`, and `MaxValues` in `Values`, which may be any natural number: the
largest of the prime capacities in `object.c` is taken to be enough for the
entries there is memory for, and there is an address for every value.

Some theorems have a hypothesis.  `OneThread` in `LastAddedIsFound` and
`WalkReturnsAll` is that an object stays with one thread, since ids of two
threads cannot be compared (`object.c:10`); in `DebugListIsExact` and
`DebugListNeverDangles` it is that one thread uses the library, since the list
has no lock (`dbg_malloc.c:38`).  `MaxLost <= 1` in `ScanIsEnough` is what
`Parser` assumes of a string.  `MaskTells` in `TextIsDecoded` is that the mask in
`c16type` takes the units of the text for what they are, which
`MaskTakesTooMuch` shows it does not for all.  It says nothing of numbers with a
minus sign, nor does `DecodesRight`.  `KeysOnce` and `BytesTell` in
`TrueAnswersAreRight` are that no object has two values under a key and that
doubles which begin with the same byte are the same: without either the code
answers true for different values ([below](#where-the-code-does-something-else)).
That two answers are right, `TrueIsRight` and `FalseIsRight`, is a property of
the comparison of `Plain` values; `DiffIsInnermost` has no such condition.
`FiniteTrees` and `Readable` in `PrintedIsTheValue` are that no value is inside
itself (some number of every value is greater than that of each of its parts),
that the texts taken for numbers and literals are not empty and have no quote or
white space in them, and that no string or used key has a control character that
is printed twice (`pretty.c:95`).  All three hold of the values of `MCPrettyPrint`.

| theorem | says |
|---|---|
| `ObjectTableProofs!TypeCorrect` | `Spec => []TypeOK` |
| `ObjectTableProofs!HalfOfTheTableIsEmpty` | `Spec => []HalfEmpty`: every probe loop meets an empty entry |
| `ObjectTableProofs!SearchesMeetNoGap` | `Spec => []NoGapOnPath`: every search reaches what is stored, also in the middle of a rehash |
| `ObjectTableProofs!RehashNeverNests` | `Spec => []NestedAddNeverGrows`: `assert(object_add(...))` in `object_reserve` cannot fail |
| `ObjectTableProofs!NothingIsLost` | `Spec => []StoredOnce`: each value is in one entry, of its key, at every moment of a rehash |
| `ObjectTableProofs!CountsAreRight` | `Spec => []CountsExact` |
| `ObjectTableProofs!NoLeakNoDoubleFree` | `Spec => []FreedExactlyOnce` |
| `ObjectTableProofs!RehashingIsInvisible` | `Spec => Refines`: the table implements `Multimap` |
| `ObjectTableProofs!LastAddedIsFound` | `OneThread` implies `Spec => []NewestFirst` |
| `ObjectTableProofs!WalkReturnsAll` | `OneThread` implies `Spec => []WalkIsExact` |
| `ParserProofs!ParserTypes` | `Spec => []TypeOK` |
| `ParserProofs!EveryBlockIsOwned` | `Spec => []Ownership`: every `goto fail` frees what it must, once |
| `ParserProofs!RecursionIsBounded` | `Spec => []RecursionBounded`: `max_depth` bounds the C stack |
| `ParserProofs!FailureIsReported` | `Spec => []ErrorIffNull` |
| `ParserProofs!AcceptedIsJson` | `Spec => []AcceptsOnlyJson`: a value is returned for a text of the grammar only, whatever allocations fail |
| `ParserProofs!RejectedIsBroken` | `Spec => []RejectsOnlyBroken`: with enough memory, NULL only where no text of the grammar, with numbers of at most 4094 characters, goes on as the input does |
| `ParseStringProofs!EncodingIsUtf8` | `c32toc8` gives the UTF-8 of RFC 3629, for every code point |
| `ParseStringProofs!DecodingInvertsEncoding` | `c8toc32` gives the code point back |
| `ParseStringProofs!LeadTellsLength` | `c8len` of the first byte is the number of bytes |
| `ParseStringProofs!PairInvertsSplit` | `c16pairtoc32` joins what `c32toc16be` splits |
| `ParseStringProofs!MaskTakesTooMuch` | `c16type` calls units surrogates that are none |
| `ParseStringProofs!NeverOutsideTheBlock` | `Spec => []InsideBlock`, however many reallocations fail |
| `ParseStringProofs!KeysAreFound` | `Spec => []HashFindsKey` |
| `ParseStringProofs!ScanIsEnough` | `MaxLost <= 1` implies `Spec => []ImplementsScan` |
| `ParseStringProofs!TextIsDecoded` | `MaskTells` implies `Spec => []DecodesRight`: escapes and pairs of escapes become UTF-8 |
| `PrettyPrintProofs!PrinterTyped` | `Spec => []TypeOK`, with it that `indent` is the nesting |
| `PrettyPrintProofs!PrintsInside` | `Spec => []NeverOutside`, for every value and size |
| `PrettyPrintProofs!CutsRight` | `Spec => []TruncatedRight` |
| `PrettyPrintProofs!PrecalculatedSizeFits` | `Spec => []PrecalculatedFits`: the size returned for no buffer is that of the whole text |
| `PrettyPrintProofs!PrintedIsTheValue` | `Readable` and `FiniteTrees` imply `Spec => []PrintsTheValue`: what is printed is JSON for the value |
| `ValuesProofs!EveryValueHasOneOwner` | `Spec => []OneOwner`, whatever allocations fail |
| `ValuesProofs!CopyHasRoom` | `Spec => []RoomForCopy`: `object_add` in `duplicate_object` never grows the table |
| `ValuesProofs!SuccessLeavesNothing` | `Spec => SuccessLosesNothing`, an action property: what a call that succeeds has allocated is owned when it returns |
| `ValuesProofs!CopiesSayTheSame` | `Spec => []CopyIsFaithful`: a copy made without a failure says what its source says |
| `EqualityProofs!FalseAnswersAreRight` | `Spec => []FalseIsRight`: of two values with no null character inside, the answer false is right |
| `EqualityProofs!DifferenceIsInnermost` | `Spec => []DiffIsInnermost`, for all values |
| `EqualityProofs!TrueAnswersAreRight` | `KeysOnce` and `BytesTell` imply `Spec => []TrueIsRight`: so is the answer true |
| `DebugBlocksProofs!DebugListIsExact` | `OneThread` implies `Spec => []ListIsExact` |
| `DebugBlocksProofs!DebugListNeverDangles` | `OneThread` implies `Spec => []NothingDangles` |
| `ErrorSlotProofs!NoTextIsShared` | `Spec => []TextsAreOwned` |
| `ErrorSlotProofs!ErrorsAreOfTheThread` | `Spec => []ShownIsOwn`: the error a thread is shown was raised by its own calls since its last parse, by the last call if that raised any |
| `ErrorSlotProofs!OnlyExitLosesTexts` | `Spec => OnlyExitForgets`, an action property |

**The argument for the table.**  `NoGapOnPath` alone is not inductive.  The new
entry is put where the probe loop has arrived, so one has to know that the loop
passed only occupied entries (`Probed`); that it stays inside the table and
finds room needs `HalfEmpty`; that a rehash does not overfill the new table
needs the count of what is still in the old one (`Room`), and with it that the
slots behind `i` were cleared (`Moved`) and what the phases of a call leave set
(`Phases`).  The conjunction of these and `TypeOK` is `IInv`.  One lemma per
action shows that it is kept; `ProbeGeometry` is the arithmetic of probing
modulo the capacity, `StoreKeepsOrder` the heart: filling the entry at the end
of the probe path opens no gap for any other key.  `ObjectNextType`, that a
lookup returns a value, needs that a finite set of ids has a greatest;
`ArgMax` proves that from the well-foundedness of finite sets, by a least
counterexample, because the induction theorems of the library are not usable
here.

What is in the tables needs more, `CInv`.  `StoredOnce` counts; inductive is that
entries are truthful about the key of their value, that no two hold the same
value, in one table or in both, and that every value is in one (`Truthful`,
`Unshared`, `Complete`).  `unique_size` is incremented when the probe loop met no
entry of the key, so that `CountsExact` needs to know what `is_duplicate` means
in the middle of the loop (`DuplicateSeen`), and by `NoGapOnPath` that an equal
key would have been met.  The refinement maps the values of a key to those in
both tables; every step of a rehash leaves their union alone, and is a stutter.

`WInv` is about ids.  With one thread all of the table are different and less
than the thread's next (`Ages`), the value added last has the greatest between
calls (`LastIsNewest`), and a walk under way has seen, of the values its key had
at its beginning, just those from the newest down to where it stands (`Walked`).
A growth renumbers entries, which is why a walk is only claimed when the table
did not grow, and why nothing is said of the order of older values: run
`object_order` is about that.

**The argument for the parser.**  `depth` is not always the number of frames: a
call that finds itself too deep, or cannot allocate its value, returns without
decrementing it.  `Counted` is what is true instead: inside a container the two
are equal, when a value is about to return they are equal if there is one and
`depth` may be larger if there is none, and the frames never exceed `max_depth`
(a frame is opened only after the test).  It is inductive because a failure
unwinds the whole stack and `parser_begin` resets the counter; `Framed` says
that a frame is there where one is used, `Shape` gives the types.  `Reported`
says that NULL comes with an error and a value with none from the moment a call
returns, and that no error is set before, as long as memory suffices.

`Ownership` equates `heap` with a sum over the stack.  Which blocks a frame has is
in the frame, but `Held` is needed too: that a frame has no key outside of a
member, and that no value is on its way back where one is about to be read;
otherwise it would be overwritten and lost.  `Sum` is the fold of the model
unfolded to a recursive function; that a sum over a stack changes by what
changes at its top, and that taking all frames off frees all of it, comes from
a least counterexample.

That the parser and the grammar agree is two invariants.  For `AcceptedIsJson`
the input read is a concatenation along the stack (`Path`): one piece for each
container under way, which is its bracket and the elements before the one at
hand (`Begun`, `Filled`), and what is read of the innermost one (`Within`).
`Sound` says so for each phase.  A container that is closed is then a value of
the level of its frame, and that level is above 0 because the stack is not
higher than `max_depth`.  The grammar builds a list by putting an element in
front of one, the parser by putting one behind: `ListsAppend` says that this
gives the same lists, `Listed` that the list is not longer than `CommaList` has
lists for.  For `RejectedIsBroken` it is the other way round: `Complete` says that
for every text which begins with what was read and looked at, what is left of
it is what the frames still ask for (`Follow`: of each container, what comes
behind its element, its bracket included), and that no failure has occurred.  It
is inductive because one symbol decides: a value, an element and a member begin
with a `Starter`, which is neither a comma nor a closing bracket, so that where
the code finds a token that it does not accept, no text goes on.  Both
families of sets, `CommaList` and `Values`, are recursive functions; that they
are what their definitions say comes by induction on a number as a set
(`Induct`).

**The argument for values.**  `OneOwner` counts owners.  What is inductive is that
the memory is a forest (`Forest`): the tops are what the user, the calls of
`json_copy` under way and the one that returns own; every other value is in one
place of another; nothing is inside of itself.  The last is stated as a
principle, `Acyclic`: every set of values has one with no child in it; from it
follows what the recursive definition of `Below` computes (`BelowIsTree`), which
is what `json_value_free` frees.  Three lemmas say that a forest stays one when
a value is created, when a top is put into another tree (here the rule counts
that a user gives no value to one inside of it), and when a top is freed with
all below it.  That a copy shares nothing with its source is `Source`: there is
a region, closed in both directions, that holds the argument and the objects
being read, and none of the copies.  A copy that fails frees what is outside of
it; a copy that goes on adds only to it.  `Progress` says that a copy has as many
entries as its call has passed, and a table for all those of its object, from
which `RoomForCopy` follows; that tables are large enough rests on `Largest`,
the last prime, which has room for `MaxValues` entries.

`SuccessLeavesNothing` compares sums.  A sum is taken as the cardinality of a set
of cells (`Weight`), so that what adding, removing, changing and renaming an
element does to it follows from the theorems of the library about finite sets;
the folds of the model are then shown to be such sums.  Between calls `Lost` is
what is allocated less all of `heap`, because a forest has nothing outside of
the trees of its tops (`AllInTrees`: a value with an owner that is in none, and
so on, would be on a circle).  During a `json_copy` that goes well, `Ledger` says
that the blocks allocated are those of the values, of the keys that the calls of
`duplicate_object` have at hand, and those lost before.  A step that fails, or a
`duplicate_array` under way, ends in NULL, and nothing is said of it.

`CopiesSayTheSame` needs first that `Meaning` is what its definition asks for: of
all sets of values that are closed downwards and have such a function, a largest
one is all of the memory, because otherwise there is a value outside of it whose
children are all in it (`SaysIsSaid`).  By the same argument a value goes on
saying the same as long as nothing below it changes (`SaysTheSame`): that is so
for what is copied, which is the region of `Source`, and for the copies that are
not at the top of the stack.  `GoesRight`, the invariant while no allocation
failed, follows the calls: each `duplicate_object` copies the value its caller
has come to, holds the key of that entry, and has in its copy the first `i`
entries of the object, reordered by a permutation (`HalfCopy`), as the table may
take an entry at any place.  When all are copied the two are the same bag
(`CopySays`).

**The argument for the list of blocks.**  The state is described by a walk, a
sequence of different blocks in which each leads to the next (`State`).  With it
the half-done links of `add_block` and `remove_block` can be said statement by
statement: which pointer is ahead of the walk and which is behind it.  That
`Listed`, a recursive function, is the range of the walk ends the proof.

**The argument for strings.**  `InsideBlock` needs what holds between the fields
while the loop runs: a block that is there is as large as `capacity` says and
holds `size` bytes, and where it is gone `size` is `capacity`, since a growth was
needed: the next append then asks for a new block before it writes.  The hash
agrees with the bytes as long as the error is "none", because only a growth
that failed can lose some.  For `ScanIsEnough` the answers are split by what
ended the text: one that was refused is not `WellFormed`, and one that was closed
is.  Of a text that goes on, only a first half that waits for its second may be
an element no string can be made of (`Going`): whether a number with a minus sign
is accepted is decided one element later.  `Waits` says that such a half is the
one in `high`, and that what did not join it was looked at.

`TextIsDecoded` compares the bytes with `Meaning`, the text element by element,
where a pair has its bytes at its second half.  `Decoded` says that the string
holds the text of the elements read, with the bytes that are on their way to it,
and `Halves` is `Waits` in terms of what is a surrogate, which `MaskTells` allows.
Nothing is claimed once a number with a minus sign was read.  What `FlattenSeq`, a recursive function of the
community modules, gives for one more element comes from a least counterexample.

**The argument for the printer.**  For the buffer an invariant of the buffer alone is enough:
with room left it holds exactly what was printed and a null character, and
without it the first `out_size - 1` cells and a null character, where
`position` is the length of all that was printed.  What the walk prints does
not matter to it, so that it needs no more than that a piece is a text; that
the walk only ever has texts and values at hand is `PrinterTyped`.

`PrecalculatedSizeFits` compares two walks over one value, the one that measured
it and the one that prints it.  They are the same walk because nothing in it
depends on the buffer: `After` is the function from where a walk stands
(`Where`: the value at hand, the frames, the texts that are pending and what was
printed) to where it stands next.  A place from which the walk of a value
ends with a text (`Walks`) has one such text (`OneEnd`); the printer is always
at a place its own walk passes (`OnItsWay`), at the end it has printed that text
(`AtTheEnd`), and `needed` is its length and one (`Measured`).

`PrintedIsTheValue` follows a reader of JSON along the walk.  `Leads` and `Reads`
say what state the cells of a text, or of several, leave him in; a lemma for each
piece that is printed (`StringReads`, `TabsRead`, `SignReads` and others) says
what he sees of it, and that he is outside of strings again.  `Meaning`, what
he has to see of a value, is a recursive function over the values; that some
function satisfies its definition is shown for the values of each height in
turn (`MeansAgree`), without the induction theorems, by least counterexamples
(`Induct`).
The inductive invariant is `Faithful`: there is a text seen in front of the part
that each frame of the C stack is at (`before`), such that it and the meaning of the
part are what has to be seen of the frame's container up to there (`PartSeen`),
and what was printed, with what is pending, shows what has been reached.  The
frame's `latch` is set exactly when an item was printed (`Going`), because
blank entries print nothing: with `i > 0` in its place the comma would be in front
of the first used entry behind a blank one.  `Faithful` speaks of functions and
texts without a bound, so that TLC checks `PrintsTheValue` and not the
invariant itself.

**The argument for the comparison.**  `Equal` is a recursive function over a set
of values of any depth, and nothing in the model says that the recursion ends.
That there is a function which satisfies its definition, without which nothing
could be said of it, is shown without induction: the conditions of `Equal` read
the relation only positively, so that the union of all relations that satisfy
them in one direction (`Equals`) satisfies them in both.  `Calls` says what each
frame of the C stack asks, `Refuted` that an answer false comes with a pair that
differs, and that a difference inside of two values makes them differ; both
are inductive, and give the first two theorems.  For an object this is
so because a key which the right one lacks leaves an entry without a partner, and
because sizes are compared first.  The latter needs that the key which was looked
up is the key of the entry and not only its beginning, hence `Plain`: again a
recursive function, this time shown to exist as the largest set of values that is
closed under its conditions (`PlainsAre`).  All that is compared inside of two
such values is such a value (`PlainCalls`).  `Agreed` is the converse: all elements before
the one at hand were equal.  An object whose entries each found an equal one
of the same key on the right is equal only if no key occurs twice, because
the entries found are different then and are all there are: this is `KeysOnce`.

**The argument for errors.**  `TextsAreOwned` rests on a new text being a block
that is not allocated, and on every pointer leading to one that is.  It is
inductive only together with what `errorf` has in hand at each of its steps
(`InHand`): a step that overwrites a pointer would otherwise forget a text, and
one that frees the message might free what is in a slot.  `ShownIsOwn` speaks of
threads between two calls; `OwnError` is the same of every step, with the one
exception of a text that was made and is not yet in the slot.  That a call of
another thread takes nothing from the history of this one is again that the
block of a text in a slot is never allocated anew.  The conjunction of the three
and `TypeOK` is `IInv`.  `OnlyExitForgets` follows from it: a slot is used only in
a library that is initialised, by a thread that runs, so that what ends a thread
or the library finds the text where it is.

**Only model-checked.**  All liveness (`CallsReturn`, `ParseEnds`, `PrintingEnds`,
`EqualEnds`): every safety property of a passing run is a theorem.

## Where the code does something else

Each of these runs ends with a counterexample to what a comment or an assertion
says.

| run | what is said | what happens |
|---|---|---|
| `object_order` | `json_object_lookup` finds the last value added (`json.h:224`) | `object_reserve` renumbers entries in the order of slots; a probe path that wrapped around is renumbered from its middle. Real capacities 13 and 29, seven values under two keys: the seventh, under the other key, makes the table grow, and of those of the first key (in slots 12, 0, 1, 2) the oldest gets the greatest id |
| `values_copy` | "\returns A copy of \p value." (`json.h:318`) | `duplicate_array` gives up when the new array could be created (`json.c:452`): a copy of an array, or of an object with one in it, is NULL |
| `equality_ends` | returns "Whether left semantically equal to right" (`json.h:331`) | `{"b": 1}` against `{"b": 0.1}`: does not return |

Some more places where the code and its documentation part are part of the
models, and bound what the passing runs claim:

* Ids are per thread, so that two threads which add to one object, one after the
  other, can give two entries the same id; `object_next` asks for an id that is
  strictly less and returns one of them only, where `json.h:238` promises all
  the values.  `WalkIsExact` is checked for one thread.
* `assert(!!value != !!strcmp(json_strerror(), ""))` (`json.c:285`) fails when
  memory is short: a `string_append` that fails is ignored (`parser.c:199`), a
  value with an error; `errorf` without memory clears the error
  (`error.c:69`), NULL with none.  `ErrorIffNull` is therefore claimed for calls
  that are not `scarce`; without that condition TLC finds both in the same
  instance.
* `peek` returns a plain `char`; where that is signed the byte 0xFF is `EOF`, and
  with `all` what follows it is not looked at, against `json.h:298`.
  `AcceptsOnlyJson` allows this one token.
* `c16type` tests `c16 & 0xD800` for any bit, where a surrogate has the five
  highest bits 11011: U+5B57 counts as the first half of a pair and U+6587 as
  the second, so that the escapes of these two Chinese characters become one
  other character (theorem `MaskTakesTooMuch`).  `DecodesRight` is checked and
  proved for units that the mask gets right.
* `parse_hex4` uses `strtoul`, which also takes white space, a sign and `0x`
  (`parser.c:103`).  `"\u 1F"` is thus accepted, though it is not JSON, and
  `"\u-001"` is refused, not as a bad escape but as an "illegal UTF-8 sequence"
  (`parser.c:81`), unless it is taken for half of a pair and joined.  For `Parser`
  "str" is therefore what `parse_string` makes a string of, and `AcceptsOnlyJson`
  says nothing of the inside of strings.
* A number of 4095 or more characters is refused ("number is too long",
  `parser.c:338`), although it is JSON.  It is the token "longnum", and
  `RejectsOnlyBroken` is about texts without it.
* A key with `\u0000` inside has a hash of all its bytes (`string.c:96`), and a lookup
  one of those before the first null: `HashFindsKey` is about the other keys.
  A comparison looks keys up in this way (`json.c:513`), so that
  `{"a\u0000b": 1}` is not equal to itself, and the comparison of
  `{"a\u0000": 1, "a": 0.1}` with itself does not return.  Strings are equal
  when they are so up to a null character (`json.c:550`).  `TrueIsRight`,
  `FalseIsRight` and `EqualEnds` are about values with none inside (`Plain`);
  without that condition TLC finds all three violated in the same instance.
* A buffer that cannot grow in the middle of a string leaves bytes that were never
  written in it (`Garbage`), and the parse goes on with the error "out of
  memory" set; that is why `DecodesRight` asks for no error.
* `json_pretty_print` returns one more than "would be written if output buffer was
  of infinite size" (`json.h:312`) when the buffer was too small, or of no bytes
  (`pretty.c:29`).  It is what makes the precalculated size right
  (`PrecalculatedFits`).
* A control character without a letter of its own is printed raw, and twice
  (`pretty.c:95`); NaN is printed as `null`, minus infinity as the smallest
  positive double, and numbers with six digits after the point.  The instance
  of `PrettyPrint` has no such strings, and takes the text of numbers as given.
* `json_set_number` refuses 0 and `json_set_boolean` refuses false, as if they were
  null pointers (`json.c:190`, `json.c:224`): `SetScalar`.
* `json_set_string` frees the old text first and then has none when memory is short;
  such a value can be freed, and its copy fails.
* `json_object_add` does not look whether its key got its text: it ends the program
  when there is no struct, and succeeds with a key without text otherwise; when
  the table cannot grow the key is lost (`AddFails`).  `SuccessLosesNothing` is
  about calls that succeed.
* A `json_copy` that fails loses what it has copied so far, and the struct of the
  last key (`GiveUp`, `EndArray`); one that succeeds may have keys without text
  when memory was short, which `CopyIsFaithful` leaves out.  The values of a
  key that occurs twice are copied in the order of slots: objects are compared
  as bags.
* Numbers are compared through the member `boolean` of the union
  (`json.c:553`), so that numbers whose doubles begin with the same byte are
  equal: `SameScalar`.  `TrueIsRight` holds without such numbers.
* `objects_are_equal` compares with the newest value of a key only, so that
  `{a: x, a: x}` equals `{a: y, a: x}`: `Pair`.  `TrueIsRight` holds for objects
  without a key that occurs twice.
* `string_reserve` overwrites its only pointer with the NULL of a failed
  `json_realloc` (`string.c:83`): the blocks counted by `lost` are never freed.
* Only a parse clears the error of a thread (`CallBegins` leaves it alone), while
  `json.h:338` speaks of the last call of any function.  After a call that raised
  no error, be it a success or a failure without a word as that of `json_copy`
  of an array, the error of an earlier call is still shown: `ShownIsOwn` allows
  it then, and only then.
* `json_exit` forgets the texts of other running threads: `OnlyExitForgets`
  says that nothing else does.
* The list of the debug allocator has no lock.  `DebugBlocks` has any number of
  threads; its properties hold for one, and with two `ListIsExact` fails, which
  the configuration shows when `Thread` is given two elements.

## Not modelled

* **Digits.**  `integer`, `fraction` and `exponent` of `parser.c` read a number
  character by character into `number_buffer`; of them the models have the failure
  of a buffer that is full, and which characters make a number is not translated.
  A number is a token in `Parser` and a text in `PrettyPrint`.  The value that
  `strtoul` gives for four characters is the `code` of an element in
  `ParseString`; which characters give it is not modelled.
* **Getters and checks of arguments.**  They read, or set an error and return:
  `ErrorSlot` has the error of such a call, and the other modules calls with the
  right arguments.
* **`ascii_only`.**  Nothing sets it; the branches of the printer for it are dead.
  The conversions they use are in `Utf`.
* **`string_init_mem`, `object_at`, `c16len`.**  Nothing calls them (`c16len` is in `Utf`).
* **Aliasing in setters.**  `json_set_string` with the text that `json_get_string`
  returned would read freed memory; the user of `Values` passes his own.
* **A failing `realloc` in the debug build.**  `dbg_realloc` writes to address
  zero and the program ends.
* **`fnv` hashing.**  `Hash` is any function, and the theorems hold for all.
* **Programs and tests** (`prettify`, which calls what `PrettyPrint` models, and `test-stress`, `test-compliance`,
  `test-unit`, whose tests are empty): input and output.  What they assert of
  the library is quoted where a property states it.

## Plan

Done in this order: object table (the only intricate data structure), parser,
comparison, error slot, debug allocator; then UTF conversions, strings, the
printer, and values with their copies; then the proofs of what the table holds,
of the ownership of blocks in the parser and of values, of the language the
parser accepts, of the debug list, of the printer's two walks, of the comparison,
of the text of strings, of what calls on values leave behind and copies say, and
of what is printed.

What would come next is a module that composes the parser with `Values`: what
`json_parse` returns is a tree whose blocks are those `Parser` counts.

The project keeps to a dozen runs, so that all of it can be repeated in a few
minutes.  A component has one passing run with all of its properties; runs
that only exhibit a counterexample give way to it, and stay as a line in the
section above.
