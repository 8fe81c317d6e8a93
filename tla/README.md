# A verification of pyyjson

pyyjson is a C extension of Python with three functions: `loads`, `dumps` and
`dumps_to_bytes`.  This directory holds TLA+ modules translated from its source
(`src/src/`), TLC configurations that check them on small instances, and proofs
that TLAPS checks for every value of the constants.

## The system

| Part | Files (`src/src/`) | State | Operations | What makes it correct |
|---|---|---|---|---|
| Decoder walk | `decode/decode_bytes_root.inl.h`, `decode/decode_str_root.inl.h`, `decode/decode.c`, `decode/utils.c` | a stack of objects, a stack of counts with one entry for each open container, the label control is at, a buffer for strings | one per token: open, close, key, value, comma, colon | the counts add up to the objects; every reference has one owner; the result is what the text spells; every exit frees what the call holds |
| Key cache | `decode/decode.h`, `decode/decode.c`, `pyyjson.c` | 2048 slots of strings, for the whole process | look up, insert and evict, release with the module; build a dict from its pairs | a key is the text that was read; reference counts are the number of owners |
| String reader | `decode/str/*` | the position, a temporary buffer with a part for each width | look at a vector, copy up to an escape, take the escape, widen, put together | exactly the string is read, up to its quote; nothing is lost at a widening; the result has the least width; no store leaves the buffer |
| UTF-8 reader | `decode/decode_bytes.inl.c` | the position, the same buffer | copy up to a byte that is not ASCII, decode it | exactly the valid sequences are read |
| Number reader | `decode/decode_float.inl.h`, `decode/decode_float_utils.h` | the digits, the exponent | integer, float, infinity, NaN | an int is exact, a float is the nearest double |
| Encoder walk | `encode/_encode_impl.inl.h`, `encode/bytes/_encode_bytes_impl.inl.h`, `encode/encode.c` | the container in hand and the index in it, a stack of the others, the nesting | key, value, end of a container, hand-over to a wider copy | the walk is at the place its stack says; the text is that of the objects; it ends |
| Encoder buffer | `_reserve.inl.h`, `encode/encode_utils.c`, `encode/states.h`, `encode/encode_cvt.h`, `simd/long_cvt/*` | one block that grows by doubling, a writer in it, the sizes written at each width | reserve, move the writer to a wider grid, widen in place from the end | no write is past the end; no character is overwritten before it was read |
| UTF-8 writer | `encode/bytes/encode_utf8.h`, `simd/*/encode/bytes/*` | source, writer | convert a vector of one class, write a single character | the bytes are the UTF-8 of the text; no store is past the reserve |
| String writer | `encode/_encode_unicode_impl.inl.h` | source, writer | copy up to a character that needs an escape | exactly what needs an escape gets one |
| Integer writer | `encode/encode_shared.h` | a number | divisions by multiplication | the digits are those of the number |
| Thread buffers | `tls.h`, `tls.c`, `decode/decode_bytes.inl.c` | three stacks for each thread, one buffer for the process, the blocks of each call | take at first use, allocate, free with the call or the thread | a call in progress keeps what it works on; a block is freed when its owner ends |
| Module life | `pyyjson.c`, `tls.c`, `multilib.c` | exception classes, thread keys, cache, function pointers | import, fail, import again, unload | a loaded module is whole whatever failed before |

`loads` copies a bytes argument, chooses the pretty or the minified copy of the
decoder walk and runs it.  The walk calls the readers, pushes what they return
on the object stack, and makes a list or a dict of its top when a container
ends.  Keys go through the cache.  `dumps` runs the encoder walk in a copy of
the function for ASCII text.  A string with wider characters makes that copy
memorize how much it wrote, move the writer and hand the walk over to a wider
copy, up to three times.  At the end the parts written at lesser widths are
widened in place.

A call holds the interpreter's lock, so two calls never interleave but in one
place: `PyList_New` and `_PyDict_NewPresized` may collect garbage (before
Python 3.12), and a finalizer is Python code that may call the module again on
the same thread, or let other threads run.  The buffers that calls share
(a thread's stacks, the process's copy of short bytes, the keys) meet there.
The rest is hard for other reasons: the number of exits, the state
kept twice (counts and objects, sizes and text, stack and container in hand),
reference counts that are changed without a look, memory that moves or is not
there, vectors that are loaded and stored past what counts, and limits.

## The modules

| Module | Models | Role |
|---|---|---|
| `JsonDoc` | the JSON grammar and the objects of a text, as nested containers | abstract specification |
| `DecodeStack` | the decoder walk | |
| `DecodeRefinement` | the texts and the trees of its references, and the mapping to `JsonDoc` | run `decode_stack`; shows that `DecodeStack` implements `JsonDoc` |
| `KeyCache` | key cache and dict building | |
| `EncodeTraversal` | encoder walk, with widths and failing growth | |
| `EncodeText` | the text that `dumps` should return, by recursion over the objects, and which objects have one | reference for `EncodeTraversal` |
| `EncodeWiden` | the block `dumps` writes to, byte by byte | |
| `EscapeWiden` | one string's parts in the temporary buffer, and the str | |
| `JsonEscape` | escapes: digits, letters, pairs | used by both readers |
| `StrScan` | the vectors of the string reader | |
| `Utf8Reader` | the string reader of bytes | |
| `Utf8Writer` | the string writer of bytes | |
| `Utf8Vectors` | its shuffles and blends, without state | |
| `IntWriter` | `write_u64`, without state | |
| `IntDecimal` | one call of `write_u64` and what it should leave | extends `IntWriter` |
| `FloatRounding` | the three ways from decimal to double, without state | |
| `NumberReader` | `READ_NUMBER` | extends `FloatRounding` |
| `ModuleLife` | import, failed imports, unload, thread keys | |
| `CallBuffers` | threads, calls inside calls, and their memory | composes with `ModuleLife` |
| `MC...` | constants and recursive references for TLC | one for each run that needs them; `MCStrings` puts `MCEscapeWiden` and `MCKeyCache` side by side, and `MCConversions` `Utf8Vectors`, `IntDecimal` and `MCNumberReader` |
| `DecodeStackProofs`, `EncodeTraversalProofs`, `EncodeWidenProofs`, `EscapeWidenProofs`, `StrScanProofs`, `Utf8ReaderProofs`, `WriterProofs` (`IntDecimal` and `Utf8Writer`), `MemoryProofs` (`CallBuffers` and `KeyCache`) | | theorems |

### DecodeStack

`pc` is the label control is at; each label of `READ_ROOT_IMPL` is an action
that reads one token.  White space, which a label skips before it looks again, is
left out.  `stack` is the object stack and `cap` its capacity, `ctn` the container
stack with the kind and the count of each entry, `strbuf` which buffer strings are read
into.  An object is a number, its place in `heap`; the histories `released` and `lost`
say which references were given back and which were dropped, `blocks` which buffers
the call owns, `base` how high the object stack was when each open container was opened.
Every allocation may fail.  A text is any sequence of tokens; `bad` stands for every
text that scans as none.

The bytes reader and the str reader are two files with the same labels.  The map
takes array labels from the first and object labels from the second.  The one
difference the model keeps is that only the str reader takes `nan` after a
failed `null` (`RetryAsNan`).  The pretty copy differs from the minified one
only in which spaces it looks for first.

`JsonDoc` says what a text spells, with nested containers and no stack.  The mapping
in `DecodeRefinement` folds the two stacks of `DecodeStack` into it: the entries between the bases of two
containers are the items of a frame, each unfolded to a tree (`Tree`).

### KeyCache

`cache` has the slots, `heap` every key string with its count, `pairs` the open
object's part of the object stack, `dicts` what the program holds.  The actions
are the steps of `loads()` that touch a key (`ReadKey`, `ReadValue`, `CloseObject`,
`InsertFails`, `Abandon`), the caller's release of a dict (`DropDict`, external)
and `ModuleFree`.  A key has bytes, a size, a kind and the ascii flag: two
different keys may have the same bytes, and all keys may share a slot.

### EncodeTraversal

`cur`, `pos`, `size`, `isTuple`, `depth` and `stack` are the variables of
`pyyjson_dumps_obj`; `level` says which copy of it runs, `sizes` what
`memorize_*` kept.  `out` is the text, one token for each string, number or mark.
The objects are any graph, so lists may contain themselves.  Values are
taken by `ProcessValue` (`ENCODE_PROCESS_VAL`), rejected by `RejectValue`, and
any write may fail.  Indentation and the argument parsing are left out: they
write more characters, or choose the copy, at the same steps.
`_unicode_buffer_reserve` raises by itself past 2^62 bytes; the model has only
the failure of the allocator.

`EncodeText` says what the call should return.  `Text[n]` is the text of an object when
`n` more containers may be entered, `Good[n]` the objects that have one: a container
that is not empty needs a level, its keys must be strs, and `dumps_to_bytes` takes no lone surrogate.

### EncodeWiden

`mem` has, for each byte of the block, the number of the character it belongs to.
`writer` is the writer's offset.  After a hand-over (`Memorize`) it may lie behind the
block, since the text was not moved; the next string reserves before it writes
(`pc = "string"`).  A token is a number of characters: `AppendToken` reserves for them and for
what an escape or a vector could need beyond them (`spare`), writes them, and clobbers
part of the spare room as a vector store does.  `Reserved` doubles the block.  At the end
(`Success`) the parts below the level of the text are widened in place, the last part
first.  `long_back_cvt` does this in pieces: up to `lead` characters until the destination is
aligned, then vectors, then the bits of the rest.  `lead` depends on the address of the
block, so it is chosen freely.  `Return` shrinks the block.  `EncodeTraversal`
calls what is here: its `sizes` are this module's `count`.

### StrScan and EscapeWiden

The string reader of a str document is modelled twice, at two grains.

`StrScan` is the scan: one step is one turn of a loop.  `src` is the cursor, `out` the
temporary buffer in units of one character, `dst` the writer, `reach` how far stores went,
`maxvec` the lane-wise maximum that tells the kind.  In phase `fast` a vector is only looked at;
the first escape copies what was read and goes on in phase `copy`, where each vector is stored
whole.  The last characters of the document are fewer than a vector.  `isa` has the three ways
to load them: `shift` and `blend` read the last vector of the document, which may begin in front
of the string (`before` is what lies there), and `mask` reads no other character.  An escape
is its real digits; `JsonEscape` has the tables.

`EscapeWiden` is the buffer.  `copy` says which of the four copies of `decode_str` runs: the one
for ASCII text (`ascii.h`) or that for text of width 1, 2 or 4 (`_ucs.inl.h`).  `text` is what was
read so far, as the least kind of str that can hold each character.
`temp` has, for each byte of the temporary buffer, the number of the character it belongs to;
a character that is cut to a part too narrow for it is 0.  `CopyRaw` takes a vector: it
stores all of it and goes on behind the characters that come before a quote or an escape.
`FirstEscape` copies what was read to the buffer.  `NextEscape` writes to the part in hand or
closes it and begins a wider one.  `Close` puts the parts together; the kind follows from
`maxEscape`, `maxvec` and `isAscii`, which the copies keep differently.  When the part of width 2
is closed the code computes with the address of the variable `temp_buffer` instead of what it points to.  `Origin` is
that address: it lies `4 * a` bytes before the buffer (after it, for a negative `a`), for some `a` in `Aways`, and
is not in the buffer.  The distance from there to the writer is counted as characters, and the new writer is that
many wide characters behind the address, so the character is not stored in the buffer and the part it closes has
a wrong size (`u16size`).  The model goes on with that writer as the code does; such a store may also end the process
at any time (`Faults`).

### Utf8Reader

`read_bytes` on real bytes: `src` and `dst` are its cursors, `lenUcs1` and `lenUcs2` the lengths of the
parts it has closed, `ucs` the copy that runs, `mem` the temporary buffer byte by byte, `reach`
the end of the farthest store.  `pc` has its labels: the words of ASCII, the
sequences of two, three and four bytes with their masks, the escapes.  A sequence is looked at as one
word of four bytes, which may reach behind the end; what lies there is `junk`.  At the quote the
parts are widened in place, the last character first.

### Utf8Writer and Utf8Vectors

`Utf8Writer` has the loops: `label` and `class` say which loop control is in and for how many bytes a
character, `mask` is what AVX-512 keeps of a vector.  `out` is the buffer from the opening
quote on; a byte of it is a pair of the character's number and the number of the byte in its
encoding, so that a byte at the wrong place, or left over from a vector, is not taken for the right
one.  `isa` chooses among the copies for what is less than a vector: SSE2, SSSE3, AVX2 and AVX-512
differ in what they load and how far they store.  Each has vectors of its own, so `BatchOf` gives the characters of a
vector for a copy and a width.  `Utf8Vectors` has how the bytes of a vector are made:
the shuffles with their tables, the blends, the shifts, on vectors of the real size.

### IntWriter, NumberReader, FloatRounding

`IntWriter` is `write_u64` and the functions under it on digits and offsets, with the tables.  A number of
64 bits comes as its quotients and remainders by powers of 10^4, since TLC's integers have 32 bits.
`IntDecimal` calls it on a number and says what the buffer must hold then.

`NumberReader` is `READ_NUMBER`: the first digits make the significand, the digits behind
them are only counted.  Eighteen unrolled copies of the code are one action with the variable
`taken`.  `FloatRounding` makes the double: fast path 1 (exact product or quotient), fast path
2 (a product of two words, refused when the error could matter), and the slow path (a "do it yourself" float,
then a comparison of big integers with the upper boundary).  The
width of a word and the format of a double are constants: the structure is that of the
code, and the small format lets TLC try every double.

### ModuleLife and CallBuffers

`ModuleLife` has `PyInit_pyyjson` step by step, each of which may fail, and `module_free`.  `static` and
`keyOf` are static variables of C: they outlive a failed import, and the next one finds them as
they are.  `refs` counts the references to each exception class.  `ours` and `others` are the thread
keys that exist; the rest of the process makes keys too.

`CallBuffers` has the calls.  `frame[t][i]` are the local variables of the i-th call in progress on
thread t: which input, container stack, object stack, encoder stack and string buffer it took,
and at which step it is.  `value` are the values of the thread keys, `live` the blocks that malloc gave out,
`written` who wrote to a block last.  A call that waits for a finalizer is `paused`; then its thread may begin
another one, or the other thread may run.  `Grow` moves the objects to memory of the call's
own.  `ExitThread` runs the destructors of the keys, `UnloadModule` deletes the keys.
Where the code would go on with a pointer that was never set, the stage becomes `undefined` and the model
stops.  `FlsAlloc` of Windows is not modelled: it frees the values with the key, which `pthread_key_delete` does not.

## The runs

| Run | Shows | Bounds |
|---|---|---|
| `decode_stack` | limits; counts and objects (`StackAccounting`), label and container, ownership (`NoDoubleOwner`, `NothingForgotten`, `CleanExit`), the result (`ResultSpellsInput`), and that `DecodeStack` implements `JsonDoc` | every text of up to 10 tokens, limit of nesting 3, an object stack of 2 that doubles, any allocation failing |
| `encode_walk` | the stack is the path, the list in hand, the text is the reference's, success exactly for what can be written, an exception exactly when there is no text, parts of the text hold their characters, least kind, every walk ends | every graph of a list, a dict and a tuple with up to two items (one in the tuple) and an empty list; every order of strings of all widths; limit 3 |
| `encode_widen` | no character is overwritten before it was read, no write is behind the block | headers of 2 and 3 bytes, a block of 8 bytes that doubles to 64, vectors of 8 bytes, tokens of up to 4 characters and 2 spare, a text of up to 11 |
| `str_scan` | what is read, how far the cursor goes, which characters count for the kind, how far stores reach | vectors of 4 characters, up to three pieces (runs of every length modulo a vector, wide characters, escapes, halves of pairs, broken escapes), three ways to load the last vector, two characters in front of the string |
| `strings_and_keys` | until a part of width 2 is closed, no part of the temporary buffer is lost and the str is the text (in the ASCII copy: when its characters fit a byte); its kind is always the least; the cache answers with the text that was read; a dict has the last value of each key; counts are owners; only repeated keys leak | every string of up to 5 characters, raw or escaped, of all widths, in the four copies, vectors of 2 characters, a buffer right behind the pointer to it and as far as the text is long on both sides; one slot, five keys, two of them with equal bytes, two pairs, two values, one dict, four strings |
| `always_text` | violated: in ASCII text, a string with an escape above 0xff loses characters | strings as above |
| `escape_outside` | violated: an escape above U+FFFF behind one of two bytes is stored outside the buffer | strings as above |
| `utf8_read` | exactly the valid sequences are read, as the characters they spell; least kind; no store behind the buffer | up to three pieces of boundary bytes, characters and escapes; every sequence of boundary bytes behind each kind of lead; two kinds of bytes behind the end |
| `utf8_write` | the bytes are the UTF-8 of the text; no store is past the reserve, but for the AVX-512 copy for UCS2, where it is at most 24 bytes past it | four instruction sets with the vectors, the loops over four of them and the padding of the code; texts of widths 1, 2 and 4: every one of up to 4 characters, up to 10 characters with another one at every place, one vector and one character more, two vectors, and four vectors with another one at the ends of a vector |
| `conversions` | the sixteen ways to make the bytes of a vector; `write_u64`; an int is read exactly, a float as the nearest double as far as the digits that are kept decide it, everything else is rejected | vectors of the real size with a different character at each end of each lane; numbers of up to 64 bits on both sides of every power of ten; to read, words of 14 bits, significands of 5, 19 digits: every text of up to 5 characters, every half-way point with its neighbours in plain and scientific form, integers around the largest word, texts longer than the digits that are kept |
| `number_cut` | violated: of a number with more digits than are kept, those that are cut are taken for more than zero, and counted with the point among them | the texts of `conversions` |
| `thread_life` | a loaded module is whole, what a call works on is its own, nothing leaks before unload | two threads, two calls deep, seven kinds of call, four thread keys of which the rest of the process may take one, every allocation failing or not; threads are symmetric |

Why the bounds are enough.  A limit of three has a container that is the first, one
between, and the last one that fits; an empty list below the last is the one an encoder
writes without a place on its stack.  An object stack of two has to grow in a text of
three values, and more than once in the longer ones.  One slot makes every two keys collide: that
is the case the real cache has rarely; the proofs are for every size.  The graphs include every cycle through
one, two and three containers and every sharing between them.  Three strings in a list reach every
order of widths, and all three hand-overs in one call.  A vector of 8 bytes holds 8, 4 or 2
characters, so parts of up to 11 have whole vectors, rests of every size and every
alignment; a block of 8 bytes grows at each hand-over and in the middle of a part.
Three pieces of a string are enough for something before, at and behind an
escape, and a run of every length modulo a vector puts the escape at every lane and
on both sides of the last vector.  The writer
has the vectors of the code, since what it stores behind the last character is a matter of their real sizes; four
vectors and two characters are a turn of the unrolled loop and a rest.  A valid UTF-8 sequence differs from an invalid one at
the edges of a byte's range, so bytes at both sides of each edge stand for all.  A double with five bits of
significand and a word of fourteen keeps the proportions the code relies on (a
significand and the bits that decide how it is rounded fit a word; the powers that are exact end before those of a word
do) and has few enough values that each half-way point is tried.  Two
calls inside each other on one thread and one on another have every way to meet at a shared
buffer, and the proofs have no bound on either.

Two runs stand for several questions that share nothing: the steps of `conversions` are calls of three functions
that keep no state, and a behaviour of `strings_and_keys` is one of `EscapeWiden` or one of `KeyCache`
(`part` says which).  No property of one part looks at the variables of another.

Three runs do not check deadlock of states that end: `conversions` and `utf8_write` have states
without a next step by design, one for each input that was done with, and `thread_life` does not since undefined
behaviour ends its model.  `strings_and_keys` does not since the program may stop calling.

Fairness: only `encode_walk` assumes any (`FairSpec`, which is `WF_vars(Step)`).  A call runs in
one thread and waits for nothing, so it goes on as long as it can.  The property `Ends` is that the
walk cannot go on for ever, which a circular object would make it do but for the limit.
All other properties are safety and hold without fairness.

## Where the code departs from what it says

Three runs find one each; PROJECT.json quotes the lines they contradict.

* `always_text`: the ASCII copy of `decode_str` gives `memcpy` a number of characters where it takes bytes
  (`ascii.h:78` and `:103`), so a string with an escape above 0xff loses characters.
* `escape_outside`: `_ucs.inl.h:358` and `:360`, and `ascii.h:559`, take the address of the pointer to the temporary
  buffer for the buffer when a part of width 2 is closed.  The escape above U+FFFF that closes it is stored outside the buffer,
  and the sizes of the parts are wrong.  `PartsHoldText` and `ResultHasText` are stated of the texts in which this does not
  happen (`u16size = 0`).
* `number_cut`: the digits a float drops are counted with a point among them, and the last digit that is kept of them is set to
  1 also when all behind it are zeros (`decode_float.inl.h:61-79`): an exact half-way value is rounded up, a number
  with its point there is read as another one.  `NumberIsNearest` is stated of the other texts (`KeepsEnough`).

The models have these other departures as they are in the code; no property is stated over them, or it
allows for them:

* After a `null` that was read and could not be pushed, the str reader tries `nan` with MemoryError
  set (`RetryAsNan`), and the call may end in success with it.
* An object that is made and then cannot be pushed is neither on the stack nor given back
  (`lost` in `DecodeStack`), and MemoryError becomes JSONDecodeError.
* When the first allocation of a document fails, `failed_cleanup` compares and frees pointers that were
  never set (`decode_bytes_root.inl.h:28` and `:489`, and the str twin); a lone string does not look
  whether its buffer was allocated (`decode_str.inl.c:88`).  In `CallBuffers` such a call becomes
  `undefined`.
* `Py_DecRef_NoCheck` (`decode.c:271`) can take a repeated key to zero without freeing it.
  `LeaksOnlyRepeated` says that nothing else can.
* A buffer of the encoder that cannot grow asserts that an exception is set, and `PyObject_Realloc` sets none
  (`encode_utils.c:18-20`); the end of the call
  raises it (`FailureRaises`).
* `TAIL_PADDING` is 64 (`pyyjson.h:410`), and the block of the AVX-512 copy for UCS2 characters of three bytes
  stores 96 bytes: a text that ends in one is stored past what was reserved for it.  `Utf8Writer` has these sizes,
  and `StaysInReserve` allows this copy, and no other, 24 bytes (`Overrun`).  Two characters `"€€"` reserve
  3 + 12 + 64 = 79 bytes and are stored up to byte 97.  Nothing in the repository says of this store that the padding is enough
  for it, so there is no run that it violates.
* In `StrScan` and in `Utf8Reader` the reserve is counted in units of characters, and one vector behind the temporary buffer may be widened
  as it is stored: these runs say how much room is used, not that 64 bytes are enough of it.
* Before Python 3.12, `PyList_New` and `_PyDict_NewPresized` may run finalizers, which may call `loads` inside
  `loads`: the inner call writes over the stack of the outer one.  `OthersKeepOut` says
  who may do that, and that nobody else can.
* A failed TLS initialization gives back the reference to JSONEncodeError that the module's dict holds
  (`pyyjson.c:122-123`).  An import that fails runs `module_free`, which deletes thread keys that were never
  made: key 0, whosever it is.  The references of the static variables to the exception classes are
  never given back.
* `pthread_key_delete` runs no destructors, so the stacks of living threads stay when the module is
  unloaded (`FlsFree` of Windows frees them).
* `init_pybytes` clears the hash of a bytes object only before Python 3.11 (`encode_shared.h:586`).

## The proofs

Each module of proofs has an inductive invariant, one lemma for each action that keeps it, and
the theorems, which follow by temporal logic.

`DecodeStackProofs` proves for every text, every limit of nesting and every initial
size of the object stack `TypeCorrect` (the count stack never has more entries than
its buffer), `AccountsAddUp` (the counts of the open containers add up
to the object stack, at every label, so that a container that ends takes exactly
its own objects and never reads below the stack) and `LabelsFit`.
`StackAccounting` says, for every open container, that the entries between its base and
the base of the next one are those its count stands for, and one more where a key waits
for its value.  It is not inductive alone: when a container ends, its objects go and one
object comes, which belongs to the entry below, and whether that is an item or the
value of a pair depends on the label that follows.  So the step needs the label to
fit the container (`LabelFitsContainer`), and the types for the arithmetic of the
counts.  `IInv` is the conjunction of the three.
The same module proves who owns the objects: `OneOwner`, `NothingIsForgotten` and
`ExitIsClean`, for every allocation that may fail.  `OwnInv` puts the two sides of ownership together: a
new reference is in no slot yet because the slots, the released, the lost and the result are
exactly the history so far, which is what `NothingForgotten` says.  A container that ends splits the stack
into what stays and what it takes over, and that split is where `StackAccounting` is needed again.
Each action is first shown to be one of four moves (nothing, one reference taken, a container built, an insertion
that failed), and ownership is proved once for each move.  `ExitInv` says which blocks the call has at
every label, which is what `FreeBuffers` finds out from two pointers.  The moves that actions share have lemmas
of their own: what a push, a pop and an increment do to the stacks (`PushedKeeps`, `PoppedProperties`,
`IncrementedProperties`), and what they do to the accounts (`PopContainerAccounts`
and its neighbours).  The assumptions are those of `DecodeStack` on its constants:
sizes are positive numbers, tokens are among those named.

`DecodesJson` is the refinement of `JsonDoc` by the mapping of `DecodeRefinement`.  Its invariant adds
`TreeInv`: the items of a container are older than the container, `nan` is tried for a null only after
memory ran out, and a value has been counted where the text goes on behind it.
`Tree` is a recursive function over the references, and that it unfolds (`MeaningIs`) follows from the first part by the least
counterexample.  An older reference keeps its tree (`MeaningsKept`), so a push adds one item to the last frame
(`FramesPushed`), and a container that ends turns the last frame into a tree, which is an item of the frame before it
(`ContainerCloses`, where the accounts say that the items popped are all above the base).  Then each
action is a step of `JsonDoc` that reads the same token (`StepRefines`), a step it does not see, or, where memory runs
out, its `GiveUp`, after which it sees nothing.

`ResultSpelled` says that an object returned without an exception, written back token by token, is the text.
`SpellInv` is what holds on the way: while no memory failed, the text read so far is what the open containers spell,
each one's opening bracket and items with their separators, and between them the same of the container inside
(`Around` is the text before a container, `Spelled` all of it, with the last separator written or still due).
An object that is pushed adds one item (`ItemSpelled`), and the text of a container that closes is the next item of the one around
it (`CloseSpelled`).  Trees and texts are both given by the items of a container, so the lemmas on what the
stacks hold are said once, of any such `Meaning`.  Once memory has run out an exception is set for good (`ErrorStays`), and
the property says nothing of such a call.

`MemoryProofs` proves of `KeyCache`, for all keys, every hash and every size of the cache, `KeysAreText`,
`DictsAreSpelled`, `CountsAreOwners` and `LeaksOnlyByRepeats`.  `TextInv` joins the types
with what the strings of open pairs and of dicts say.  No step changes the text of a string (`HeapKept`), so the
one place where a wrong text could come in is a hit of the cache (`HitIsText`).  The counts need
more: each step gives back as many references as owners go (`DropCounts`), and for the
dict this is a fact about its pairs: every pair of an object either repeats the key of one before, or is
the first of its text and the only one that the dict takes the key of (`FirstPairs`, `CloseObjectCounts`).
A dict that is dropped takes the place of the ones behind it; that the others count as before is a bijection between
their places (`DictsMoveUp`).  `LeaksOnlyRepeated` follows from exact counts: a string whose last
reference goes in a step that looks is freed by it (`DropFrees`), and the step that does not look gives back nothing
unless a key is repeated (`NothingReleased`).

`EncodeTraversalProofs` proves for every graph of objects, circular ones too, every
assignment of widths and every limit: `PathCorrect` (the stack is the path from the root to the container in hand),
`ListCorrect` (the size and kind kept in variables are those of the list in hand), `PartsFit` and `KindCorrect`
(the sizes memorized at the hand-overs cut the text into parts that
hold their characters, and the kind of the result is the least that holds them all), `FailuresRaise` (an exception is
set exactly when there is no text) and `TypeCorrect`, and of `EncodeText` `TextCorrect` (what is written begins the text of
the root, what is returned is that text) and `ReturnsExactlyGood` (a text is returned exactly for the objects that have one).
Its `IInv` is `PlaceInv /\ TextOK /\ OutcomeOK`.  `PlaceInv` joins the path with
what the variables hold of the container in hand: when a container ends, the walk pops an
entry and reads size and kind again from the container of that entry, so that the
list in hand is right only because the stack is the path.  `TextOK` adds to `CharsFitParts` that
the last token is a mark whenever the walk looks at the next item (the comma that an
end takes back is one character of the text), and `KindIsCanonical` needs that some
character of the text needs the level in use.
`TextSoFar` is not inductive: that a text begins another says nothing of where its containers are.  `SpellInv` says what
is written container by container: in front of the container at depth `d` stands what was in front of the one around it, then
`UntilValue`, the bracket and the items of that one up to the saved position (`Around`, `Reached`).  An item then adds its text and a
comma (`ItemWritten`), a container that ends is the item of the one around it (`EndSpells`), and a text that is
written this way begins that of the root since each container on the path begins what is left of
the one around it (`PathBegins`).  `GoodInv` has what was passed on the path is good (`GoodPath`); a good root has good containers
all along the path (`PathGood`), so that one bad item is enough to fail, also the
container in which a circular object meets the limit.

`EncodeWidenProofs` proves for every size of the headers, of the block, of the vectors and of the
tokens `HeldCorrect` (at each step every character of the text is whole, at the
place where it will be read), `RoomCorrect` and `TypeCorrect`.  Its `IInv` is `TypeOK /\ Layout /\ TextHeld`.
`Layout` says where the writer is, that the parts
are not longer than the text, that the part in hand is below the level of the text
and has at least `left` characters.  The heart is `MovedChars`.  A character ends before a later one of
the same or a wider level begins (`Earlier`), so the places that a piece writes to
lie behind all that is still narrow, and are not those of a character that is wide
already (`OutsideRun`).  The lemma needs no more of the pieces than that they are taken from the end and
are not longer than what is left (`MovePieceStep`): alignment and size of the vectors are
free.

`EscapeWidenProofs` proves for every length of the string and of the vectors, and wherever the pointer to the
buffer lies, in all four copies, `PartsCorrect` (each character read is whole at the place its part gives it, until a part
of width 2 is closed), `ResultCorrect` (with the same condition), `KindCorrect` (without it) and `TypeCorrect`.  Its `IInv` joins with these `Layout` and `Known`.  `Layout` says that the writer is behind the last character, at
the width in hand, and that every byte of a character's place is its own (`Held`).  A wider part begins where
the characters before would end had they been as wide, so a store lies behind all that
is there (`OldHeld`).  `Known` says what the flags know of the text: that of the ASCII copy
whether all is ASCII, those of the others its largest character, and that a part wider
than the text was begun for a character as wide.  The store that closes a part of width 2 ends `Layout`: from there on
`Strayed` holds (the width in hand is 4, and some character needs it), which is all that the kind of the str depends on
(`StrayEscapeKeeps` and its neighbours).

`StrScanProofs` proves for every document, every width of a vector, each instruction set and any text in front of the
string `StringIsRead` (the characters read are those the text spells), `MaxIsRight` (the largest of those kept from
the vectors is that of the text) and `StoresAreInReserve`.  What a string spells is a recursive function from its
end (`From[p]`, what stands from p on), so the invariant looks the same way: the whole reading is that of the rest,
`From[src]`, behind the characters made so far (`SofarInv`).  A vector without a stop moves its
characters from the rest to those so far (`ReadRun`), an escape moves the one it stands for (`ReadOne`), and at the
quote the rest is empty.  That the recursive function can be unfolded, and every induction over a text, is by the least
counterexample (`Least`): a set of numbers that is not empty has a least one, which needs no
theorem with an operator as parameter.

`Utf8ReaderProofs` proves for every document, of any length, and whatever bytes lie behind it `BytesAreRead`,
`KindIsRight` and `BufferHoldsAll`.  It has two halves.  The first has no state: at each place of a document at
most one character begins (`IsChar`), and the masks find exactly it.  `SequenceIs` says that what
`is_valid_seq_2`, `_3` and `_4` take are the encodings of one character each, which has no second one, and that what
all three refuse is the encoding of none; `EscapeIs` says the same of the escapes and the pairs of surrogates.  That a
sequence cut by the end of the document is refused, although the reader looks at the bytes behind it, comes from
the terminator: the first byte that is missing is a zero, which no mask takes.  The second half is the invariant: what the
document spells is what its rest spells behind the characters in the buffer (`Progress`), the width in
hand is what these characters ask for (`KindIn`), and each of them can be read from the buffer at
the width of its part (`TextOf`).  `WriteKeeps` is the one lemma of all steps that store a character.  A store lies
behind all that is there, because a wider part begins at the same index (`PutKeeps`); the copy of a run may
store one byte too many, which the next store covers; and when the parts are widened in place, unit `e` is stored
over bytes of units from `e` on only, which have been read (`TextWidened`).  `BufferHoldsAll` follows because a
character has at least one byte: the writer is never in front of the reader.

`WriterProofs` proves for every text, every length of the vectors and of the unrolled loops that `RoomAssumption` allows,
and all four instruction sets `BytesAreRight` and `StoresFit`.  The invariant says that the call could go on from every
state one character at a time (`Ready`): behind the quote stand the bytes of the characters before `src`, and the
writer has used at most six for each, so that the rest of the reserve is enough for the rest of the text.  A
store of a vector keeps this although it writes over all that follows, since it begins at
the writer, and the writer passes only characters that the comparisons, signed or not, found to be of the class
(`ClassIs`, `StoredReady`).  A block of AVX-512 that goes on uses a mask made for an earlier `src`: `Masked` says that what
is left of it still holds every character that is not of the class.
`RoomAssumption` says of the sizes that the longest store of a trailing function (`Stretch`: one, three or four vectors of
characters) is at most the padding and eight bytes, and `Overrun` more.  The sizes of the code meet it: the one copy
with an overrun is AVX-512 for UCS2, whose 96 bytes are 24 more than 64 + 8.

The same module proves that the three divisions of `write_u64` by multiplication are exact on the whole range they are used
on (`By100Exact`, `By10000OfSixExact`, `By10000Exact`): a quotient is known by its bounds, and once the halves of
the number have names the bounds are linear.  `WritesDecimal` is what `conversions` checks of the numbers it tries,
`NumberIsDecimal`, for all of the 2^64.  A number of up to eight digits is four pairs of digits (`OfPairs`), and the
divisions give the pairs back; a pair that is put down leaves what is before it (`PairStep`), so the digits
of the parts written first stay.  With an odd number of digits the first pair is copied from its second digit on: the
digit too many is where the next pair begins, or behind the writer (`FirstIs`).  `AboveIs` takes a number of up to eight
digits apart again where `write_u64` writes the parts above the last eight digits in one piece.

`MemoryProofs` proves of `CallBuffers`, for every number of threads and every depth of calls, `CallsAreKept`
(what a call works on was last written by itself or by a call its own thread made inside it) and
`ImportIsWhole`.  Its `IInv` is `CallTypes /\ KeysInv /\ FramesOK`: what a frame took is what its thread's keys have,
or memory of its own; `KeysInv` says that the keys of a loaded module are different from each
other and have the stacks of their threads as values.  `LifeInv` has what a failed import leaves behind, since the next
one begins with it, and that no key of the module is one of the rest of the process.
The same module proves `MemoryIsKept` over both: `MemInv` says that a block is live exactly
as long as the key of a thread or a call in progress has it, and that a call has no block before it asked for it.

What stays with TLC: liveness under fairness and ENABLED; what is stated with the operations on bits
(`VectorsEncode`); the reference of the number reader (`NumberIsNearest`, `DroppedDigitsRound`), which is an exact quotient of large numbers.  The
library's theorems of induction have an operator as a parameter, which the installed provers cannot use.
The least counterexample does instead where a recursive function is over numbers, as in
`StrScanProofs`, `Utf8ReaderProofs`, `DecodeStackProofs` and `EncodeTraversalProofs`.
RECURSIVE operators are in modules without theorems only.

## Not modelled

The table `components` of PROJECT.json lists every part.

* The string writer's vector loops (`_encode_unicode_impl.inl.h` and the copies under `simd/`).  They have the shape of the
  loops of `Utf8Writer`: a vector is stored whole, the writer goes on as far as no character needs an escape.  What they
  reserve and where the text lies is `EncodeWiden`.
* The literals and the text behind a lone value of `loads`.
* `decode_float.inl.h:719-943`, which calls `strtod`, is not compiled.
* The choice of the instruction set (`multilib.c`), which reads the processor once, and the wrappers of one
  instruction each: they keep no state.
* Ryu and xxHash, which are third-party code, and the tables of powers of five.
* `FlsAlloc` and the other branches for Windows.
* C tests, benchmarks and the build were read and not modelled.

## The plan

Done, in this order: `JsonDoc` and `DecodeStack`; `KeyCache`; `EncodeTraversal`; `EncodeWiden`; `EscapeWiden`;
`StrScan`; `Utf8Reader`; `Utf8Writer` with `Utf8Vectors`; `IntWriter` with `IntDecimal`; `NumberReader`; `ModuleLife` with `CallBuffers`.

Left, by worth: the string writer's loops; lone literals; the liveness of the walks, which needs a prover for fairness.
