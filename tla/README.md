# Specifications of file_for_humans

TLA+ models of the buffered file classes of this repository, checked with TLC
and proved about with TLAPS. Source paths below are relative to `src/`.

## 1. The system

| component | state it keeps | operations |
|---|---|---|
| `FileHandle<true>` (`FileHandle.hpp`) | `fd`, cached `file_size`, cached times | `open`, `read`, `get_file_size`, times, `close` |
| `FileHandle<false>` | `fd`, cached times | `open` (truncate or append), `write`, `seek`, `set_last_write_time`, `close` |
| `IFile`, bytes (`IFile.hpp`) | `buffer`, `buffer_pos`, `buffer_size`, `buffer_capacity`, `file_pos_of_buffer_start`, `is_eof_reached`, `eof_indicator` | `at_eof`, `peek_byte`, `read_byte`, `read_bytes` (three of them), `read_bytes_at_most`, `read_bytes_to_end`, `seek`, `tell`, `eof_passed`, `open`, `close`, `set_buffer_size`, `get_file_size` |
| `IFile`, text | the same | `read_text`, `read_text_to_end`, `read_until`, `read_line`, `read_line_reae`, `read_char`, `starts_with` |
| `OFile` (`OFile.hpp`) | `buffer`, `buffer_pos`, `buffer_capacity` | `write_byte`, `write`, `flush`, `seek`, `open`, `close`, `set_buffer_size`, `set_last_write_time`, destructor |
| ownership (`UniqueHandle.hpp`, moves, `assign_std_handle`) | who owns which descriptor | move, `move_assign`, standard handles |
| `UnixNanotime` (`UnixNanotime.hpp`) | a word of nanoseconds | `from_time_t`, `from_nanotime_t`, `to_time_t`, `to_uint64`, `to_timespec` |
| `utf` (`utf.hpp`) | none | `decode`, `encode`, `convert`, `is_valid` |

How they interact: `IFile` and `OFile` each own one `FileHandle` and call it
synchronously; a `FileHandle` makes system calls in loops (`read(2)`, `write(2)`
return short counts). There are no threads inside the library. The concurrency
is with the operating system: the kernel keeps the offset of the open file
description, which a buffered class must stay in step with, and *other
processes* extend files and pipes, and end pipes, between any two system calls.

What is hard here, and what makes each component correct:

* **IFile.** The position the caller sees (`tell()`) is the sum of two members;
  the kernel's offset is a third place where the position is kept. Every loop,
  every failure in the middle of one, and every `seek()` must leave the three in
  agreement, or the object serves the wrong bytes. The end of the file is cached
  (`is_eof_reached`) and so is the size (`file_size`); both may be stale.
  Correct means: calls deliver the bytes of the file in order, none twice and
  none left out; the window lies in the buffer and agrees with the file; the
  cached end is backed by a read; every call returns.
* **OFile.** Bytes wait in the buffer; a large write bypasses it; a flush may
  fail half way; the buffer may be full when a call begins. Correct means: bytes
  reach the file in the order and at the place the caller gave, no failure loses
  a byte that an earlier call accepted, `close()` succeeds only with nothing
  left, nothing is stored beyond the buffer.
* **Blocking.** `read(2)` on an empty pipe and `write(2)` on a full one wait for
  the program at the other end. Correct means: the library waits nowhere else.
* **FileHandle.** The loops must not take a short count for the end, and go on
  with what remains.
* **Text.** A delimiter, a `"\r\n"`, a character or a BOM may lie across two
  buffers, and the same text may be read whole, buffer by buffer or line by
  line. Correct means: what is returned does not depend on where the buffers
  end, on short counts, or on whether the file is regular.
* **Ownership.** A descriptor is closed once and owned once; bytes in a buffer
  stay with the file they were given for or read from, wherever the buffer is
  moved.
* **Conversions.** `decode()` takes exactly what is well formed; a conversion
  keeps the text, or the instant; no time is mistaken for "not asked yet".

The full list of hazards with their lines is under `"hazards"` in `PROJECT.json`. Those
without a property are modelled as the code has them and permitted: a size or a
time cached for one file and used for another state of it or another file, a
wait for the program at the other end of a pipe, a destructor whose flush the
system refuses, a descriptor taken for a standard handle, a fraction of a second
before 1970, a signature longer than the buffer. Their notes say so.

## 2. Modules

```
FileHandle  <-EXTENDS-  IFile  <-EXTENDS-  IFileProperties  <-  MCIFile
                          |                  |    ^
                          |                  |    +- IFileProofs <- IFileRefinement
                          |                  +-INSTANCE-> ByteStream   (abstract)
                          |
                          +- IFileText  <-  IFileTextProperties  <-  MCIFileText
                               |                   |      ^
                              Utf            UtfReference +- IFileTextProofs <- IFileTextResults
                                                             (over IFileProofs, UtfProofs)

WriteHandle <-EXTENDS-  OFile  <-EXTENDS-  OFileProperties  <-  MCOFile
                                             |    ^---- OFileProofs
                                             +-INSTANCE-> WriteBehind  (abstract)

Handles  <-  HandlesProperties  <-  MCHandles
                  ^---- HandlesProofs

Utf          <-  UtfConvert  <-+
                UtfReference <-+-  ConversionProperties  <-  MCConversions
UnixNanotime <-  FileTimes   <-+          ^---- ConversionProofs
                                                (over UtfProofs)
```

* `FileHandle`: the POSIX branch of `FileHandle<true>`, with the kernel's open
  file description and the files and streams of the world. A byte is modelled by
  where it lives, `<<file, offset>>`, so that "the right byte" can be stated
  without contents. `SysRead` is one `read(2)`; the loop of `read()` is many.
* `IFile`: the byte calls. A call runs from `pc = "idle"` to `pc = "ret"`, with
  an intermediate place for each `fh.read()` it can wait for:
  `fill` (`has_no_data_left`), `refill` (`seek`), `bulk` (a read larger than
  the buffer, straight to the caller), `whole` (a regular file in one go), and
  `body`/`more` where `has_no_data_left()` has answered. The code between two
  system calls is one step. A failing `assert` ends in `pc = "aborted"`, a
  `read(2)` that returns more than the buffer has room for in `pc = "overrun"`:
  it has written over what lies behind the buffer, and nothing follows.
* `ByteStream`: what a caller sees. A source, a position, and calls that happen
  at once. A failed call may leave the object out of step (`intact = FALSE`);
  then nothing is promised until `seek()` or `close()`.
* `WriteHandle`, `OFile`: the same for writing. A byte is its serial number in
  what the caller has given. A stream may become `full` with whatever is written
  to it; then `write(2)` is not enabled until its reader takes something out
  (`Drain`). Places of a call: `flush`, `fill` (a full buffer
  in the loop of `write`), `large`; `body` after the `flush()` a call starts
  with; `copy` in the loop of `write`. An exception in the destructor ends in
  `pc = "terminated"`, for destructors are `noexcept`. After a destructor that
  succeeds a new object is made in its place.
* `WriteBehind`: a queue on its way to a file. A failing call may drop only its
  own bytes, and may put back what it has just stored.

* `IFileText`: the text calls, as further operations on the state of `IFile`;
  filling the buffer, `at_eof()` and the end of `read_char()` are the steps of
  `IFile` themselves. `content` gives the values of the bytes. A call collects
  in `out` the places of the bytes it takes, and `Result` makes its text of
  them when it returns, so that the copying and erasing in place is not
  repeated. `skip_bom()` has no step of its own: `BomOnly` is its way out,
  `AfterBom` the `buffer_pos` it leaves.
* `Handles`: objects of both classes and the kernel's table of descriptors.
  Here a call is one step, and a byte is modelled by the file it belongs to.
  `obj[o]` has the members that moves copy, reset or leave: `fd`, `buffer`, and
  `count`, which is `buffer_pos` of an `OFile` and what is left of the window
  of an `IFile`. `mine`, `dirty`, `refused`, `dropped` and `astray` are
  histories. An exception in a destructor and a read through a null pointer end
  the program. `assign_std_handle()` is a member of `FileHandle` that neither
  class passes on; a class derived from them, or a `FileHandle` used by itself,
  reaches it.
* `Utf`: `decode()` and `encode()` as operators on sequences of code units;
  `UtfConvert`: the loop of `convert()` and `is_valid_impl()`, a character a
  step; `UtfReference`: the encodings as the standard defines them, by the value
  of the bits, for any string at once.
* `UnixNanotime`: the conversions as operators on a word of `Word` values;
  `FileTimes`: the caches `last_write_time` and `creation_time` of a reading
  handle, which is closed and opened on files with other times, and whose times
  a program hands to `set_last_write_time()` of another file. `ConversionProperties` puts the two machines into one specification; a
  behaviour belongs to one of them.

Names follow the source; where a member function becomes several steps they are
called after it (`ReadBytes`, `ReadBytesBody`, `ReadBytesMore`). Definitions
headed by a comment "Mutant" are plausible errors, used to see that each
property can fail; no behaviour of the specification uses them.

Histories that the code does not have: `lost` names the exception that has
left an `IFile` out of step with the kernel, `zero_at` is where `read(2)` last
returned 0; `fetched` and `born` are the times of the file that the two caches
were filled from.

## 3. What is assumed

* The default buffer of an `IFile` has room for what `seek()` reads
  (`DefaultCapacity >= 2 * SeekChunk` in `IFileAssumption`; `IFile.hpp:12-13`
  have 32 and 4 KiB). The sizes given to `set_buffer_size()` are any, 0 too, as
  in the code. An `OFile` has a capacity of at least 1 (`OFileAssumption`):
  `write_byte()` stores one byte before it looks again.
* Other processes extend files; they do not truncate or overwrite them.
* `lseek(2)` fails on streams, on a closed descriptor and for negative
  positions, and nowhere else. `read(2)`, `write(2)`, `fstat(2)`, `open(2)`
  and `futimens(2)` may fail at any time. Memory does not run out.
* The POSIX branch, 64-bit `size_t`: `FileIsTooLargeToFitInMemory` cannot occur,
  a negative count in `read_bytes_to_end()` ends in the `length_error` of the
  vector. Positions are far below 2^63.
* A chunk of a seek is longer than a BOM (`TextAssumption`; the code has 4 KiB):
  `skip_bom()` takes a window of three bytes for the whole file, also one that
  `seek(0)` has read.
* The word of `UnixNanotime` is a multiple of 8, longer than 8, and its eighth is
  no whole number of seconds (`NanotimeAssumption`), as with 2^64 and 10^9; there
  are file times, and they lie in its range (`FileTimesAssumption`). With a word
  of 8 the conversions do lose the instant, which the proof brought to light. `char` converts to `uint8_t` by its bits.
* A program does not assign a standard handle to an object with bytes in its
  buffer, and after an assignment that was refused it only cleans up (a bound:
  such an object owns a descriptor of another one, see 7).
* Reopening a stream starts it anew. An `OFile` is used for one file.
* `NoAssertionFails`, `EofIsBackedByARead`, `WholeReadsAreComplete` and the
  properties of the text calls are
  checked, and proved, for objects that are used for one file only (`OneFile`):
  `close()` keeps the cached size, and with two files it is stale, which is
  finding 3 below. `TypeOK`, `FillFitsBuffer`, `Coherent`,
  `ShortReadsMeetTheEnd` and the refinement of `ByteStream` are proved for any
  number of files.
* The text calls are modelled and proved about with the default buffer.
* A constructor that opens is `open()` and, when that returns false,
  `FileOpenError` with no object left behind; it has no action of its own.

## 4. Runs

`tlc -config <run>.cfg <module>`; the modules are `MCIFile`, `MCIFileText`,
`MCOFile`, `MCHandles`, `MCConversions`.

| run | question | bounds | distinct states |
|---|---|---|---|
| `ifile` | all byte calls: types, `Coherent`, `EofIsBackedByARead`, `ShortReadsMeetTheEnd`, `WholeReadsAreComplete`, `NoAssertionFails`, `FillFitsBuffer`, implements `ByteStream` | one file, regular or stream, 0 or 5 bytes at first, growing to 5; buffer 4, 3 or 0, seek chunk 2 | 3.9 million |
| `ifile_retry` | calls that fail again and again on an object out of step; two capacities | 3 bytes, buffers 2 and 3, `TornBound` 3 | 115 thousand |
| `ifile_calls_return` | every call returns | 2 to 3 bytes, buffers 2 and 3 | 102 thousand |
| `ofile` | all calls of `OFile`: types, `RoomForTheByte`, implements `WriteBehind`; every call returns, throws or ends the program | 4 bytes given, buffers 2 and 1, writes of 0, 2, 3, seeks to -1 and 1; others and failing calls add to the file below 3 bytes | 870 thousand |
| `text` | all text calls, between `at_eof`, `read_byte`, `seek(0)`, `open`, `close`: the next line, character or text, and every call returns | five contents of 3 to 12 bytes, of which 0, 2, 3, 9, 11 or 12 are there at first and one more may come; buffer 8, seek chunk 4; `read_until` for `'\n'` and `'a'`; signatures of 0, 3 and 5 bytes | 553 thousand |
| `handles` | constructions, moves and destructions in any order | two `IFile`, two `OFile`, three alive at a time; two files; descriptors 0 to 4, of which all of 0 to 2, or all but 0 or 1, are open at first; standard handles assigned from -1 to 4; buffers of 2 | 3.2 million |
| `conversions` | conversions of text, of times | strings of up to 5 bytes, 3 or 2 units, over the units at which the code changes its way; a word of 12 bits, seconds of 10 ns; seven times | 443 thousand |
| `v_at_eof`, `v_eof_passed`, `v_assert` | findings, see 7 | as `ifile`; `v_assert` has two files | stops at the violation |
| `v_overrun` | finding, see 7 | 5 bytes, buffer 4 or, as in `perf_tests/read_line.cpp`, of one chunk: 2 | stops at the violation |
| `v_moved_from` | finding, see 7 | as `handles` | stops at the violation |

What the properties say:

* `Coherent`: unless a failure has lost the place, the buffer holds the bytes of
  the file at `file_pos_of_buffer_start` and the kernel reads on where the
  window ends, also in the middle of every kind of read.
* `EofIsBackedByARead`: the sticky flag is true only when a read has met the
  end, and `at_eof() = false` means that a byte is there.
* `ShortReadsMeetTheEnd`: fewer bytes than asked for means that a `read(2)` has
  returned 0 (`zero_at`), not beyond the position; a short count of the kernel
  is not the end. A buffer of no bytes reads nothing, and is excepted.
* `WholeReadsAreComplete`: `read_bytes()` and `read_bytes_to_end()` return all of
  a regular file up to the size that was asked for once, or of a stream up to
  where it ended; with the same exception for streams.
* `FillFitsBuffer`: `has_no_data_left()` never asks for more than the buffer has
  room for, and `seek()` for two chunks at most, so that nothing but a seek
  through a buffer smaller than that can write beyond its end.
* `NoReadOverrunsTheBuffer`: nothing writes beyond it at all; this is false
  (finding 4).
* `ImplementsByteStream`, `ImplementsWriteBehind`: refinement; a call of `IFile`
  takes effect when it returns, a byte of an `OFile` leaves the queue when
  `write(2)` takes it.
* `LineIsNext`, `TextIsWhole`, `CharsAreExact`, `StartsWithIsExact`: the result is
  that of a reference that looks at the bytes of the file between two positions
  at once, and the position afterwards is right behind it. For lines without
  their newline the reference is `read_line_via_read_byte()` of
  `perf_tests/read_line.cpp`, with the one difference that `read_line()` also
  removes a `'\r'` that ends the last line.
* `LinesFailOnlyAtTheEnd`, `ReaeTellsTheEnd`: `UnexpectedEOF` and the end that
  `read_line_reae()` reports mean the end, so that loops over the lines get
  every line. The exception, a file that is nothing but a BOM, is spelled out.
* `OneOwner`, `HandlesAreTheirOwn`, `NothingLeaks`: a descriptor that `open()` got
  has one owner, still refers to the file it was opened on although numbers are
  used again, and is closed. Two exceptions, which the code has: a number that
  `close()` takes for a standard handle, and one `assign_std_handle()` overwrote.
* `BytesReachTheirFile`, `UnreadBytesAreItsOwn`: bytes follow their handle.
* `EndsForAReason`: destructors throw, and null is read, in no other situations
  than those that section 7 lists.
* `DecodeIsExact`, `ConversionKeepsTheText`, `ValidityIsExact`: conversion of text
  is that of the standard, except that a low surrogate by itself passes for a
  character of UTF-16 and comes out as U+FFFD.
* `SentinelIsNeverATime`, `ConversionsKeepTheInstant`, `CopyKeepsTheTime`: times
  are cached, converted and copied without loss, except a fraction of a second
  before 1970.
* `RoomForTheByte`: `write_byte()` has room, also after a failure that left the
  buffer full.

Why the bounds are enough. What decides the paths of `IFile` is how the file's
end, the buffer's end, the request's end and the chunk of a seek lie to each
other. With 5 bytes, a buffer of 4 and chunks of 2, files are shorter and longer
than a buffer, requests are empty, within, across and larger than it, and the
targets 1, 3, 4, 5 and -1 are in the window, in another chunk, at the boundary
of one, at and beyond the end, and negative. A buffer of 3 has room for a
seek's one chunk and not for its two, a buffer of 0 for none. `NearEnd` takes the value for which
both lengths of a seek's read occur. For `OFile`, buffers of 2 and 1 with
writes of 0, 2 and 3 bytes make writes that fit, fill exactly, go round the loop
of `write()` and bypass the buffer. Four bytes allow a failed flush, a retry and
a write after it. In `text` a file of 12 bytes has one buffer end inside and is
shorter than two; the five contents put `"\r\n"` across it, a lone `'\r'` and a
cut character at the end, a BOM at the beginning with and without bytes behind
it, one at the beginning of the second buffer, and bytes that are not UTF-8;
`seek(0)` makes a window of 4 with a BOM in it. Two objects of a class are what
a move needs, and a third keeps descriptors in use that a wrong close would
free; with `stdin` or `stdout` closed at first, `open()` returns 0 or 1. The
conversions change their way at a few units only, and both sides of each are
there. The guards that bound a run are named in the modules:
`MaxSize` (growth by others; failing writes of an `OFile` only below it),
`TornBound` (an `IFile` out of step whose `tell()` would grow with every failing
retry), `MaxBytes` (bytes given to an `OFile`), `MaxGrowth` (bytes that others add
during a text run), `Recovery` (a text object out of step is only positioned),
`MaxAlive` and `LastFd` (objects and descriptors; at `LastFd` `open()` fails as
with `EMFILE`).

Deadlock is checked for the text calls and in the runs of `IFile` whose buffers
have room for a seek. It is off in `ifile`, where an overrun stops the model, for
`OFile` and `Handles`, where a destructor that throws ends the program and the
model stops, and for conversions, which are done at the end of the string.

Fairness. `FairSpec` of `IFile` and of `OFile`, and `TextFairSpec`, ask for weak
fairness of `Step` without the failure of a system call: a call that runs is
scheduled, since it is straight-line code in one thread, and a system call that
can go on does. A `read(2)` or `write(2)` that waits is not bound to fail, so that
nothing but the program at the other end can end the wait:

* for `IFile` and its text calls, a stream that is open for writing elsewhere is
  ended at last; without it `read(2)` on a pipe may wait for ever
  (`FileHandle.hpp:252-262`), as in the code;
* for `OFile`, the reader of a stream that is full takes something out of it at
  last; without it `write(2)` on a pipe or terminal may wait for ever
  (`FileHandle.hpp:271-277`), as in the code.

Both are assumptions about other programs and not about this one: `CallsReturn`
and `TextCallsReturn` say that the library adds no wait of its own. Nobody has to
call anything, and no file has to grow. Growth is bounded, so that "the file
stops growing" is part of what `ifile_calls_return` and `TextCallsReturn` show.
`open(2)` of a FIFO that nobody has at the other end waits too; the models take
it as a call that returns.

Each property of each passing run has a mutant under `"mutants"`: a changed
definition that TLC finds to violate it.

## 5. Proofs

Checked by `tlapm`, for every value of the constants that meets the named
assumptions. Each property is one that a run of section 4 checks.

| theorem | module | states |
|---|---|---|
| `TypeCorrect`, `NoOverrun` | `IFileProofs` | `Spec => []TypeOK`, `Spec => []FillFitsBuffer` |
| `WindowCoherent` | `IFileProofs` | `Spec => []Coherent` |
| `Refinement` | `IFileRefinement` | `Spec => ImplementsByteStream` |
| `ShortReads` | `IFileRefinement` | `Spec => []ShortReadsMeetTheEnd` |
| `EofIsBacked`, `AssertHolds`, `WholeReads` | `IFileRefinement` | `OneFile /\ Spec => []EofIsBackedByARead`, `[]NoAssertionFails`, `[]WholeReadsAreComplete` |
| `TInvariance` | `IFileTextProofs` | `OneFile /\ TextSpec => []TInv`, the inductive invariant of the text calls |
| `TextTypesHold`, `TextAssertions` | `IFileTextProofs` | `OneFile /\ TextSpec => []TextTypeOK`, `[]TextAssertionsHold` |
| `LinesFail`, `ReaeTells`, `StartsWithExact` | `IFileTextProofs` | `OneFile /\ TextSpec => []LinesFailOnlyAtTheEnd`, `[]ReaeTellsTheEnd`, `[]StartsWithIsExact` |
| `TextsAreWhole`, `LinesAreNext`, `CharsExact` | `IFileTextResults` | `OneFile /\ TextSpec => []TextIsWhole`, `[]LineIsNext`, `[]CharsAreExact` |
| `TypeCorrect`, `NoOverrun` | `OFileProofs` | `Spec => []TypeOK`, `Spec => []RoomForTheByte` |
| `Refinement` | `OFileProofs` | `Spec => ImplementsWriteBehind` |
| `TypeCorrect`, `EachHasItsOwn`, `OnItsOwnFile`, `ClosedInTheEnd` | `HandlesProofs` | `Spec => []HandlesTypeOK`, `[]OneOwner`, `[]HandlesAreTheirOwn`, `[]NothingLeaks` |
| `NothingGoesAstray`, `WindowGoesWithTheHandle`, `NeverEndsForNothing` | `HandlesProofs` | `Spec => []BytesReachTheirFile`, `[]UnreadBytesAreItsOwn`, `[]EndsForAReason` |
| `DecodingIsExact`, `ConversionsKeepTheText`, `ValidityIsExactAlways` | `ConversionProofs` | `Spec => []DecodeIsExact`, `[]ConversionKeepsTheText`, `[]ValidityIsExact` |
| `NeverTheSentinel`, `ConversionsAreExact`, `CopiesKeepTheTime`, `TypesAre` | `ConversionProofs` | `Spec => []SentinelIsNeverATime`, `[]ConversionsKeepTheInstant`, `Spec => CopyKeepsTheTime`, `Spec => []TypeOK` |

*IFile, types.* `TypeOK` is not inductive: whether `seek()` puts `buffer_pos` into the
window depends on where the call is. `IInv == TypeOK /\ Control` adds what holds
at each place: what is in the buffer and what is still asked for fit into it
(`fill`), a refill starts at the chunk of its target and is at most two chunks,
an overrun comes of a buffer smaller than these and of a seek, an emulated seek never starts beyond its target, and `buffer_pos`
passes `buffer_size` only after a `seek()` that trusted a cached size and read
less than that (which the code does, finding 3). `SeekBaseBounds` is the one
fact about the arithmetic of a chunk. There is one lemma for each operation;
those that reach `has_no_data_left()` share its lemma.

`Coherent` needs `Transfers` besides: a bulk read has `got + want = left`, a
whole read started at the beginning. Its induction uses `IInv` in the state
before and after the step.

*IFile, refinement.* `ByteStream` delivers a call's bytes at once, `IFile` in
pieces, so the invariant has to say in the middle of a call what has been taken:
`Shape` (which calls reach which place, and that what is delivered and what is
left make up what was asked for) and `Delivered` (the bytes delivered are the run
of the file that begins where the call began, and the position, the start of
the window or the kernel's offset is right behind it, depending on the place).
With them every step is either a stutter or, when the call returns, the one
`Called` step of `ByteStream`; `NextMaps` goes through the operations.

*IFile, the end.* `Ends`, `Dry` and `Sized` hold for any files: the sticky flag
and the answers of the calls go back to a read that returned nothing, a stream
that has ended stays where it is, and `read_bytes_to_end()` asks for the size it
has seen less its start. `Fed` says that `read_bytes_at_most()` gets as far as its loop only
with a buffer that holds a byte: with none, `has_no_data_left()` says at once that
there is nothing, and no read has met the end. Together they give
`ShortReadsMeetTheEnd`. What concerns the
cached size needs `OneFile`, for `close()` keeps the size of the file before:
`Cached` (the cached size is at most the size of the file, and says
regular or stream as it is) and `Inside` (neither the position nor the kernel's
offset passes the end). `OneFile` says how an object is used and constrains no
call: the object still opens, closes, fails and starts again. Run `v_assert` is
the counterexample without it.

*IFile, text.* The second part of `IFileProofs` states what the window, the flags and the cached size
are in a form that does not ask which call is running (`WInv`, `PInv`), so that
the byte calls and the text calls rest on the same lemmas. One thing it cannot
say is that `eof_indicator` implies `is_eof_reached`: `read_line_reae()` before a
lone BOM sets the one without the other. `TInv` adds the calls themselves:
`Shape`, `Framed`, `Entered` and `Looped` say which call may be at which place,
with which argument, and what it has taken; `EndSeen` and `Full` say that a file that has not grown ends where a read
has met its end, and that a window is as large as was asked for or else goes up to the end.
`Roomy` says that the object still has its default buffer, so that a step that reads
into it never overruns it (`Fits`). `Full` is what makes `skip_bom()` sound, which takes a window of three bytes
for the whole file, and what `StartsWithIsExact` needs.

*IFile, what the text calls return.* Three theorems say what a caller gets, and
they share the invariant `Texted == TInv /\ Begun /\ Known /\ OpenWhenRead`.
`Begun` follows a call from one buffer to the next: what `out` has collected is
the run of the file that begins where the text begins (behind a BOM or not) and
ends at the position; of a line, no byte of it is the delimiter; of a character,
what is left is what the first byte called for. A call's last step then adds
what the window holds of the line, text or character, and `RunsJoin` puts the
runs together. `Known` covers the texts that are read in one go, and says that the
size of a file that has not grown is the cached one, so that "regular file" and
"stream" cannot be taken for each other. `CharsAreExact` needs one more part,
`CharSeen`, for a character that the end of the file cuts short.

What is left is what the model's loops compute. `handle_newlines` goes from byte
to byte with an index of its own; its reference `Normalized` is the sequence of
the bytes that stay, the k-th of them at the place with k staying bytes up to it.
`NewlinesAreHandled` proves them equal by induction on the place (`LeastNumber`, by
way of `SameFunctions`). `LineIsAsExpected` says, for each of the three calls and
whether the newline is kept, that the line made of the collected bytes is the
one expected, that of `LineViaReadByte` where the call promises what a loop over
`read_byte()` would give. `CharsSeen` rests on `UtfProofs`: the length that the table
gives for the first byte, and `isLegalUTF8()`, are those of the standard.

*OFile.* `OInv == TypeOK /\ Control`; `Control` says that a buffer with bytes
exists, and that a `write_byte()` on its way has a byte to store and room for
it. The delicate step is `Copy`: when the loop finds the buffer full at once
(`n = 0`, after an earlier failure) everything given to `fh.write()` is still a
byte of a caller.

The refinement adds `Accounted`: while a flush is on its way, what `write(2)` has
yet to take is the tail of the buffer, and what the running call has yet to store
is no more than that call was given. So the queue of `WriteBehind`
is the buffer, with what is under way removed from its front, followed by the rest
of the call; a short count takes a byte or more from the front, a failure puts
back the whole buffer, which `WriteBehind` allows.

*Handles.* `HandlesOK`: as long as no assignment of a standard handle has been
refused, each live object's handle is closed or a descriptor that is open in
the kernel's table for the file the object was opened on, and no two have the
same. `AllBytesOK` adds whose bytes a buffer holds, `AllExcused` what a
destructor may find. The three are preserved by each of the steps a call is
made of (`Uses`, `Closes`, `Moves`, `Rests` name what a step may do to the
table and the objects), and the calls are compositions of these. A move assignment is a
close, a move and, for the source, a reset; the self-assignment is the case where
nothing happens.

*Text conversions.* Four parts:

1. `Agree`: for one to four bytes, the table of trailing bytes, the ranges of
   `isLegalUTF8()` and the subtracted offset accept and yield what the standard's
   definition by bits does: the right marks, a scalar value, and no shorter form
   for it (`WellFormed`). One lemma for each length (`TwoAgree`, `ThreeAgree`,
   `FourAgree`). A string begins with at most one well-formed sequence
   (`OneSize`), so that `DecodeIs` follows.
2. `Encode8Is`, `Encode16Is`, `Encode32Is`: what `encode()` writes for a value is,
   by the standard, one character, that value or U+FFFD.
3. `TextsJoin`: the text of two strings, the first of them a text, is the two
   texts joined. This is what lets `convert()` go on character by character.
4. `Sources` and `Kept`, the invariant of the loop: what has been read so far is a
   text, and what has been written is the same text with U+FFFD in its place; an
   invalid verdict means that the whole source is none.

The reference is a recursive function over the length of the string, and the
library's induction theorems take an operator as a parameter, which the
provers here cannot instantiate. The inductions are done with sets instead:
`WFMin` on the set of counterexamples, a set of numbers, gives `LeastNumber`, and
from it `SetInduction` and `StringInduction`. `TailsExist` then says that the
function exists, `CharsAre`, `CharsOfNone` and `CharsOfSome` what it is.

*Times.* `Known`: a cached word, of either cache, is the conversion of a time the
kernel gave. The
theorems need only how the signed and the unsigned reading of a word divide by
a second, before and after 1970. Nothing in them depends on 64 bits or on 10^9.

*What the theorems of the text calls cover.* `TextSpec` has the text calls and, of
the byte calls, `at_eof()`, `read_byte()`, `seek()`, `open()` and `close()`; an object
that a failure has left out of step is only positioned again (`Recovery`). Text
calls mixed with `read_bytes()`, `peek_byte()` or `set_buffer_size()`, and a text
call that is tried again after an `IOError` without a `seek()`, are not covered;
what memory and position are after those is the matter of the theorems of
`IFileProofs` and `IFileRefinement`.

What stays with TLC, and why. `CallsReturn` and `TextCallsReturn` are liveness
under fairness, and `ENABLED` is out of the provers' reach. Every other
property of the passing runs has a theorem. Those with the hypothesis `OneFile` say
nothing of an object that opens a second file of another size; run `v_assert`
shows that `NoAssertionFails` is then false.

## 6. Not modelled

* The Windows branch of `FileHandle.hpp`: the same interface over other system
  calls. It reads and writes in one call, so that a short count is not repeated
  there, asks for times with their own call, and converts them with
  `to_uint64`, which is in `UnixNanotime`.
* The `char8_t` overloads of `utf.hpp` repeat the code of the `char` ones word for
  word; `as_str8` and `as_u8` between the two reinterpret bytes.
* What is inside a call of `Handles`: short counts and partial flushes are the
  matter of `OFile` and `IFile`.
* `file_size` and the cached times move with a handle and stay in the object
  moved from; `FileHandle` and `FileTimes` keep them through `close()` and
  `open()`, which has the same consequences.
* The performance tests, but for `read_line_via_read_byte()`, and the script
  `.py`, which checks the repository's own white space.

## 7. Findings

Five runs end in a violation, which is what they are for.

1. `v_at_eof`. `IFile.hpp:205` says of `at_eof()` that it "returns true if the
   file is at the end". A `read_bytes(p, count)` larger than the buffer that
   meets the end throws at line 506 with the kernel's offset moved and nothing
   else: the buffered bytes are then read, and `at_eof()` is true before the
   last byte.
2. `v_eof_passed`. `IFile.hpp:217` says of `eof_passed()` that it "returns true
   if a read operation has attempted to read past the end of the file".
   `read_bytes_at_most()` called at the end returns 0 at line 464 and does not
   set the indicator.
3. `v_assert`. The assertion at `IFile.hpp:52` fails: `close()` does not reset
   `FileHandle::file_size`, so that on the next, shorter file `seek()` measures
   with the old size and leaves `buffer_pos` beyond `buffer_size`.
4. `v_overrun`. `perf_tests/read_line.cpp:47` calls `set_buffer_size(4 * 1024)`, a
   "4KiB buffer" (line 54), and `IFile.hpp:136-141` refuses no size. `seek()` reads
   4 KiB or, near the end of a chunk, 8 KiB into the buffer without a look at
   `buffer_capacity` (192-197). In the run a buffer has one chunk, and a seek to the
   last position of a chunk reads two into it. The test itself does not seek;
   `FillFitsBuffer` and its theorem say that nothing else overruns.
5. `v_moved_from`. `OFile.hpp:29-30` writes the move constructor out for a
   compiler that "doesn't support defaulted move constructors" and resets
   `f.buffer_pos`; the defaulted one of line 28 does not. An `OFile` moved from
   with bytes in its buffer flushes them again when it is destroyed, to a handle
   it no longer has; the exception leaves a destructor and ends the program.

Further behaviour the models show and no document speaks of: a repeated
`IOError` in `has_no_data_left()` advances `tell()` by `buffer_size` each time;
`seek()` on a closed `IFile` with a cached size throws but moves
`file_pos_of_buffer_start`; `is_eof_reached` stays true when a whole or a bulk
read goes on in a file that has grown; `OFile::seek(-1)` neither moves nor
throws, because `lseek` answers -1, the value it is compared with; bytes written
to a closed `OFile` go to the file opened next; `set_last_write_time()` does not
flush, so that bytes still in the buffer set the time anew; a failed flush
stores again what it had stored.

Of text: a file that is nothing but a BOM is never consumed by `read_line()`,
`read_until()`, `read_line_reae()`, `read_char()` or `read_text_to_end()`, so that
`at_eof()` stays false; `starts_with()` denies a signature longer than the window,
which is 4 KiB after a `seek(0)`; `read_char()` of one byte at the end of the window
reads on, and on a pipe waits; after `IFileUnicodeDecodeError` the bytes that the
first one announced are gone, those of a following character included.

Of handles: `assign_std_handle()` sets `fd` before it refuses, so that the object
then closes a descriptor of another, and forgets without closing what it held; a
file for which `open()` got 0 (1 or 2 when writing) is never closed; an `IFile` moved
from with bytes in its window reads through a null pointer; a moved-from `OFile` that is
opened again stores bytes that were never written.

Of times: `to_timespec()` takes the remainder's sign off, so that half a second
before 1970 becomes half a second after it; cached times outlive `close()` and
`open()`.

## 8. Plan

Done: (1) `FileHandle`, `IFile`, `ByteStream`; (2) `WriteHandle`, `OFile`,
`WriteBehind`; (3) `IFileText`; (4) `Handles`; (5) `Utf`, `UnixNanotime`,
`FileTimes`; their runs. Theorems for every safety property of the runs `ifile`,
`ofile`, `handles` and `conversions`, the two refinements included.

Of the text calls: every safety property of the run `text`.

Left: what holds of the text calls on an object that opens a second file, where
`OneFile` is now a hypothesis.

## 9. Checking it

```
tlc -workers 2 -config ifile.cfg MCIFile
tlc -workers 2 -config ofile.cfg MCOFile
tlc -workers 2 -config text.cfg MCIFileText
tlc -workers 2 -config handles.cfg MCHandles
tlc -workers 2 -config conversions.cfg MCConversions
tlapm IFileProofs.tla     ; tlapm IFileRefinement.tla
tlapm IFileTextProofs.tla ; tlapm IFileTextResults.tla
tlapm UtfProofs.tla       ; tlapm ConversionProofs.tla
tlapm OFileProofs.tla     ; tlapm HandlesProofs.tla
```
