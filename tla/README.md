# A TLA+ model of stringsext

stringsext reads files or standard input, decodes them in one or several
encodings at once and prints the strings it finds, each with its position. The
modules in this directory model the program from its source (`src/src/*.rs`,
paths below are relative to the repository's parent directory, as in
`PROJECT.json`), TLC checks them on small instances, and TLAPS proves what
matters most for every instance. `PROJECT.json` lists the runs, the source lines
of every definition, the mutants each property is tested with, the findings and
the hazards.

## 1. The system

```
 files / stdin                 one job per mission            merger thread
 ┌────────┐ slice  ┌────────┐  ┌──────────────────────┐ chan ┌──────────────┐
 │ Slicer │ ─────► │ main   │─►│ FindingCollection::  │─────►│ recv × n,    │─► output
 │        │        │ thread │  │ from (ScannerState)  │(of n)│ kmerge, print│
 └────────┘        └────────┘  │   └─ SplitStr        │      └──────────────┘
                    scope of   └──────────────────────┘
                    the pool
```

| Component | State | Operations | Talks to |
|---|---|---|---|
| **Slicer** `input.rs` | reader, index of the input, "is the last input", the input buffer | `new`, `next` | the main thread, by an alias of its buffer with a forged lifetime |
| **run** `main.rs` | the pool's scope, the channel, the merger's batch | read, spawn, join; scan, send; receive, merge, print | threads: shared buffer, bounded channel, scope as barrier |
| **FindingCollection::from**, **ScannerState** `finding_collection.rs`, `scanner.rs` | decoder, leftover of the last slice, "the last string was printed and maybe cut", consumed bytes | `from` once per slice | decoder, SplitStr; its result goes to the merger |
| **SplitStr** `helper.rs` | buffer, two pointers, cut flag; per call: start, count, grep flag, block of the last character | `next` | called in a loop by `from` |
| **Finding** `finding.rs` | – | order, `print` | kmerge, the output; its labels are explained by `help` |
| **Missions, filters** `mission.rs` | the settings of each scanner | parsing and defaulting, `pass_af_filter`, `pass_ubf_filter` | read by all others |
| **Command line, help** `options.rs`, `help.rs` | – | argument declarations, the legend of `--debug-option` | – |
| *encoding_rs, scoped_threadpool, mpsc, kmerge* | external | | |

What is hard here, and what correctness means:

* **Slicer** – short reads, empty and missing files, deciding that an input is
  the last one before it is opened. Correct: the slices are the gapless
  concatenation of the inputs, rightly labelled, and `None` comes at the end only.
* **run** – every slice is an alias of a buffer that the next read overwrites;
  the merger counts to `n_threads` without looking at what it gets; the output,
  a read, a job may each fail while all other threads go on, with a full channel
  in between. Correct: every scanner reads the stream once; the output is sorted;
  a success is complete; a failure is reported; the process ends.
* **from** – one string may be cut by the window, by the slice, by an invalid
  byte, by the decoder's inner state and by the length of the output line; what
  survives a cut is a length, a flag and a position in a buffer. Correct:
  findings are pieces of the stream, in its order, not lost, not doubled, with
  the position they deserve; and a collection is sorted and inside its slice,
  which is what the merger takes for granted.
* **Slicer and from together** – the end of a file is an empty slice that nothing
  reacts to; leftover, decoder and cut flag go on into the next file, with new
  labels. Correct: label and position of a finding are of one file, a string is
  completed over every border, all input is worked off.
* **print and help** – two modules letter the inputs, from counts that start at
  one and at zero, in `u8` arithmetic. Correct: the letter in front of a line
  leads in the legend to the slice that the string was returned with.
* **SplitStr** – MIN, GREP, blocks, maximum length and both ends of the buffer
  meet in one loop that may look at a character twice.
* **Missions** – each value of `--encoding` is completed with global options and
  with defaults that depend on the encoding, in a loop; texts are numbers or
  prefixes of names. Correct: what the scanners take for granted holds, a value
  does not get from one encoding to the next, a name stands for its filter.

## 2. The modules

| Module | Models | Form |
|---|---|---|
| `Slicer` | `Slicer::new`, `Slicer::next` | one action per outcome of `read()` |
| `Listing` | the labels `Finding::print` writes, the legend of `help` | extends `Slicer` |
| `Report` | abstract: one sorted stream of the findings of all scanners, with watermarks | – |
| `Pipeline` | `run()`: composes `Slicer` (INSTANCE) with jobs, channel and merger; implements `Report` | threads as actions |
| `SplitStr` | the iterator | one action per character and per way out of the loop |
| `Splitting` | the iterator's caller, for SplitStr on its own | extends `SplitStr` |
| `ScanContract` | abstract: what `run()` relies on when it merges collections | – |
| `Scanner` | `FindingCollection::from` with `ScannerState`; composes `SplitStr` (INSTANCE) with a nondeterministic decoder; implements `ScanContract` | one action per part of the loops |
| `Session` | the input loop of `run()` with one scanner: composes `Slicer` (INSTANCE) and `Scanner` | – |
| `Mission` | `Missions::new`: the loop that turns options into missions | one action per turn or error |
| `MC*` | constants for TLC | – |
| `PipelineProofs`, `SlicerProofs`, `ListingProofs`, `SplittingProofs`, `ScannerProofs`, `MissionProofs` | theorems about the module of that name | – |
| `FindingsProofs` | theorems about `Scanner`'s findings and the stream they are from | extends `ScannerProofs` |
| `SessionProofs` | theorems about `Session` | extends `ScannerProofs`, uses `SlicerProofs` by INSTANCE |

Names are the source's wherever TLA+ allows.

**Slicer.** A byte is the pair of its file and its offset. `ReadSome` is a
`read()` that returns n > 0 bytes, any n up to the buffer's length; bytes behind
the n-th keep their old values. `SwitchInput` is a `read()` of 0 bytes with
another input left, which returns an empty slice under the new file's label (kept
modulo 256, as in the `u8` of the source). `EndInput` returns `None`. `ReadError`
is the panic. A file that cannot be opened is a reader without bytes.

**Listing.** Adds what is printed of the Slicer's labels: `FileLabel` and
`ScannerLabel` are the `u8` sums of `print()`, written as one byte; `InputLegend`
and `EncodingLegend` are what `help()` prints, a `char` in UTF-8. A finding is
printed for any of the scanners `Finders` while the slice it was returned with is
the latest one. It may begin up to `Kept` bytes before that slice, also in an
earlier input: `from()` gives a string that was kept the label of the call that
returns it (`finding_collection.rs:258`; the run `session_label` shows it).
`SliceInput` and `Origin` tell the two inputs apart. `overflow_checks` tells debug
builds from release builds, `no_metadata` is the option. The notation of positions
and of the marks `<`, `>` and `+` is not modelled; what these marks say is a
matter of `Scanner`.

**Pipeline.** The main thread reads a slice and opens a scope with one job per
mission (`NextSlice`), waits for them (`EndScope`), drops the sender and joins the
merger (`InputEnds`, `JoinMerger`), or panics (`InputFails`, `Die`). A job scans
(`Scan`: reads the buffer *as it is at that moment*) and sends (`Send`,
`SendFails`), or panics in `from()` (`ScanPanics`, as after an overflow at
`finding_collection.rs:216`), while the jobs beside it have sent or still send;
the scope then panics in the main thread and the merger is left with a part of a
batch. The merger creates its output, receives `n_threads` collections, merges,
prints, and finishes; each output operation may fail (`OutputFails`), which drops
the receiver. Exit statuses: 0, 1 (`run` returned an error), 101 (a panic). What a
job finds is any sequence of at most `MaxFindings` findings inside the slice with
positions that never decrease (`Collections`). This is the step `Return` of
`ScanContract`, which `Scanner` implements, so that the two halves of the
development meet in one specification.

**SplitStr.** A character is its leading byte: the code looks at nothing else
(`pass_af_filter`, `pass_ubf_filter`, the block rule and GREP all test the leading
byte). `Accept`, `Restart` and `Break` are the three things a turn of the loop
does, `Return` and `Exhaust` the two results of a call. Pointers are character
indices. The parameters of `new()` are variables, so `Splitting` chooses them
with the buffer, in its initial state.

**Scanner.** The decoder reads a stream in which any character of `Chars` (leading
byte in UTF-8, width in the mission's encoding) or an invalid byte comes next; it
keeps the first bytes of a character over calls and slices. The steps of one call
are separate, so a call ends at any place that `InputEmpty`, `Malformed` or
`OutputFull` allow. A call's text is kept as its characters with the bytes they
came from; the code's arithmetic on `split_str_start` and the leftover's *length*
is `SplitStartUnderflows`, and `TakeChunk` takes the leftover as the end of the
text by its length. Whether decoding again with a new decoder gives another text
is a free choice (`Precision(differs)`), since that depends on the encoding.
`output_buf_len` is a compile-time constant and `filter_grep_char` an option; both
are chosen once, in `Init`. `consumed_bytes` counts from 0; the program's
`counter_offset` is in `Pipeline`. `incomplete` remembers that a collection was
marked after an overflow.

**ScanContract.** Four variables and two steps: a call is given a slice; it
returns a collection that is sorted and inside the slice, and counts the slice as
consumed. `Scanner` maps `busy` to "from() is running" and `reported` to the
findings of the collections returned. All windows, decoder calls and iterator
steps are stutters; `EndSlice` is `Return`. A call that panics never returns.

**Session.** `Feed` is the head of the `for` loop: the Slicer's `ReadSome` or
`SwitchInput`, and the call of `from()` with that slice's length, label and flag;
`Scan` is a step inside the call, `EndOfInput` the end of the loop or the panic in
`next()`, of which the scanner is not told. The decoder's stream and the Slicer's
bytes are the same byte numbers, so `OriginOf` says from which file a finding's
bytes are.

**Mission.** A text on the command line is absent, a number or a word
(`ParseInteger` and `ParseFilter` are the two macros, errors included). Words are
cut into pieces where two alias names first differ, so the match by prefix
is `IsPrefix` and the order of the tables is the source's. `ParseFlags` parses the
global options, `NextMission` is a turn of the loop, `BadMission` any of its early
returns. A filter is the name of its constant; its bits are not modelled. `U64` and
`U128` are bounds that stand for the largest numbers of these types.

## 3. What is checked

| Run | Question | Bounds |
|---|---|---|
| `slicer` | TypeOK, GaplessDelivery, CompleteAtEnd, LabelTellsSource, LegendNamesTheSlice | 202 inputs: of 5, 0, 3 (missing) and 4 (faulty) bytes, of one byte where labels leave ASCII, overflow and wrap, else empty; buffer of 3; a string begins up to 2 bytes before its slice; 160 scanners, of which the first two and those at the same places print; both builds |
| `pipeline` | TypeOK, ScannersReadTheStream, PositionsInStep, BatchIsOneSlice, OutputSorted, SuccessIsComplete, ImplementsReport, Termination, OutputErrorIsReported | 2 files of 2 and 1 bytes, the second faulty, buffer of 2, 2 missions, up to 2 findings per collection, output may fail and a scan may panic anywhere |
| `splitting` | TypeOK, ResultsAreStrings, MinAndGrepObserved, ContinuationsAreAdjacent, KeptStringIsLast, NoStringLost, IteratorEnds | every buffer of up to 5 characters of 4 kinds, MIN 0, 1, 2 and 4, line of 3, with and without blocks and GREP |
| `scanner` | TypeOK, FindingsAreStreamText, FindingsInStreamOrder, ExactIsNear, AfterIsNear, FindingsSatisfyMinAndGrep, ContinuationFollows, FirstLineNotLost, LastSliceFlushes, ImplementsScan | every UTF-8 stream of up to 7 bytes: characters of one, two and three bytes, rejected and invalid bytes, in all divisions into slices; MIN 2, line of 3, window of 6, an output buffer of 8 that may get full, with and without GREP |
| `session` | PositionAndLabelAgree, CutStringIsCompleted, KeptStringIsABeginning, BufferNeverOverflows, Termination | files of 4 bytes, missing, and of 3 bytes (faulty), buffer of 4; Thai text in windows-874, one byte per letter and three in UTF-8, rejected and invalid bytes; MIN and line of 2, window of 4; output buffers of 8 bytes, which gets full, and of 18, the smallest that `RoomEnough` admits |
| `mission` | TypeOK, MissionsAreUsable, MissionsAreIndependent, AsciiNameIsThatFilter | up to three encodings, so that equal ones may have another between them; every option absent, at, below or above its limit, a name, a prefix of names or no name at all, one deviation at a time |

Why these bounds. The Slicer's cases are: more than one slice per file, a short
read, no bytes, no file, an error, first and last file; each occurs. Labels change
their nature at 128 (input 64, scanner 31 counted from zero) and at 256 (input
192, scanner 159), and the byte of input 202 is that of a line feed; inputs with a
finding lie on both sides. In the pipeline two missions make every order of two
jobs in one scope and over two scopes; the channel has two places, so that it is
full and empty, and the merger lags by a batch; a third slice is the empty one at
the switch. Two findings per collection and two bytes per slice give equal and
different positions, inside one collection and between two. In SplitStr five
characters are more than a line plus MIN, so a string can be cut for length,
continued, and still touch the end; MIN is zero, one, inside the line and above
it. In the scanner, 7 bytes are one window and one byte (or several slices), and a
line and a half of text on both sides of a border. In the session, the first file
is as long as the Slicer's buffer and as a window, and one line is a half of it: a
string can go through a line, a window, a slice and two files; the empty slice of
the switch to the missing file comes in the middle of it. The repository's own
tests shrink `INPUT_BUF_LEN` and `OUTPUT_BUF_LEN` in the same spirit. Line lengths
below the program's minimum of 6 characters are used in the passing runs because
the code treats the limit as a number only; every run that refutes a sentence of
the documentation uses the program's own minimum of 6 and MIN of at most 4.

The buffer bound behind `BufferNeverOverflows` (`RoomEnough`): the leftover, what a
slice can decode to and one more character have to fit, 4·leftover + 3·slice + 2
bytes, where the longest leftover is a line, less one character if there is no
GREP. The proof of `BufferSuffices` needs the 2: the last byte of a character of
four can be the first byte of the slice. With the program's slices of 4096 and
`OUTPUT_BUF_LEN` of 0x9192 bytes that holds for lines of up to 6244 characters
(6245 without GREP); `--output-line-len` has no upper limit.

### Where the documentation says something else

Runs that expect a violation each check one sentence of the repository.

| Run | The sentence | What happens |
|---|---|---|
| `splitting_dismiss` | "All other cases we dismiss the substring" (`helper.rs:408`) | a substring that fails GREP at maximum length ends the loop, and the rest of the buffer with it |
| `scanner_tail` | "will be printed, whatever length it has" (`scanner.rs:61`) | a decoder call without text clears the flag |
| `scanner_overflow` | "we clear the FindingCollection … and forget" (`finding_collection.rs:307`) | with a leftover, the next subtraction underflows |
| `session_end` | "`last` must be set to correctly flush" (`finding_collection.rs:81`) | with the Slicer, the flag is never set: when all is read, a string of MIN characters may be left in the scanner, and is not printed |
| `session_label` | "A label identifying the origin of the input data" (`finding.rs:52`), "the input originates from the first input file" (`stringsext--manpage.md:313`) | a string kept at the end of a file is printed with the label of the next one |
| `mission_names` | "all valid multibyte UTF-8", of the alias `All` (`mission.rs:177`) | `All-Asian` comes first in the table and starts with `All`, so `-u All` selects that, and `All` cannot be selected |

Seen while reading, without a run of their own. The leftover: `scanner.rs:50` says
that strings "`< chars_min_nb`" are kept, and `:78-80` that "`mission.chars_min_nb`
is enough space, we never need more". The code (`helper.rs:389-392`) keeps what
touches the end of the buffer up to the length of a line, and so does the model; a
test of the repository keeps `ijk` with MIN 3 (`scanner.rs:445`). The capacity at
`:84` is a line, in bytes where characters are meant; the `String` grows. What is
proved is the bound of the code (`LeftoverIsBounded`). The output buffer:
`finding.rs:16-17` says it "should be at least twice as big as `INPUT_BUF_LEN`",
which is not enough: in the run `session` a buffer of 8 bytes gets full with
slices of 4, and the bound that suffices is `RoomEnough`, above.

Also: a position that is said to be exact (`finding.rs:39`) is that of the
decoder's call, which the string need not start (`ExactIsNear` is what can be
said); with `-r`, a leftover that is ended by a character of another block is a
finding of its own, the one behind it is marked `>` (`finding.rs:42`) and may
start with a character whose first bytes came before the position (so
`AfterIsNear` promises less there); a string of maximum length is held to be cut
(`helper.rs:353`), so a `+` (`finding.rs:70`) may mark a string that has nothing
to do with the one before, and that string is then printed even below MIN (which
is why `ContinuationFollows` exempts full lines); with `-n 0` the first rejected
character with nothing in front of it ends the loop over the buffer
(`helper.rs:317`, so `NoStringLost` starts at MIN 1); with MIN above the line
length nothing is ever printed (`-n 100` with the default line of 64); the block
alias `Default` is all valid UTF-8 while the default is `UBF_COMMON`; `-e ASCII`
in upper case is not the emulated `ascii`; a filter of blanks selects the first
alias of the table; `--output-line-len` is not limited to `OUTPUT_BUF_LEN/2` as
the manual says (`stringsext--manpage.md:205`); the labels of the 64th file and of
the 32nd mission are bytes above 127, which are not UTF-8, from the 192nd file and
the 160th mission on they overflow (`finding.rs:118`, `:143`;
`LegendNamesTheSlice` has these limits), and the 202nd file's is a line feed; the
file label itself wraps at 256 files (`input.rs:164`); `<` (Before) is also given
when the leftover was too short and the finding starts behind the position
(`finding.rs:35`), and a leftover carried over several short slices can lie
farther back than the two lines promised there; a grep character that the filter
rejects is counted for the string in front of it (`helper.rs:252`; the runs use
one that passes, so the properties about GREP do not show this); an option's text
whose first two bytes end inside a character panics where both macros look for
`0x` (`mission.rs:453`, `:478`); `LastSliceFlushes` needs a slice that is not
empty, since an empty one never enters the window loop.

### Fairness

`Pipeline`: weak fairness of the main thread, of each job and of the merger. They
are operating-system threads (or workers of a pool with one thread per job), which
run whenever they are not blocked; a blocked `send`, `recv`, scope or `join` is a
disabled action. Nothing is assumed of an individual action: a read may always
fail, the output may always fail. `Splitting`, `Session`: weak fairness of the
whole next-state relation, since both are sequential code that runs on. The
disjuncts compete, so nothing makes the decoder read or the Slicer reach the end
but what the code does: `Termination` says that every call of `from` returns or
panics and that the files, which are finite, are worked off. `Scanner` on its own
is checked for safety only.

## 4. What is proved

Every theorem is about the specification the runs check, for all values of the
constants that its `ASSUME` admits. All safety properties of the passing runs are
proved.

**`PipelineProofs`**: every number and length of inputs, every buffer, any number
of missions and findings, every interleaving, errors of the output and panics of
jobs anywhere.

* `ReadingIsExact`, `PositionsAgree`: no scanner sees a byte of a later slice, or
  misses one, although slices are aliases the borrow checker knows nothing of
  (`as_mut_slice_no_borrow_check!`), and the positions of different scanners can
  be compared. That a scan appends what was delivered needs the front of the
  buffer to be the end of what was delivered (`SliceInv`), and that a read does no
  harm needs no job to be running outside a scope (`ScopeInv`).
* `BatchesAreSlices`: the merger, which only counts, never mixes two slices. The
  collections in flight (received or in the channel) are in order of slice, and
  how many belong to earlier slices is a multiple of the number of missions
  (`FlightInv`).
* `OutputIsSorted`: that the output is sorted cannot be read off the output.
  `PrintInv` says where each finding is — printed, in flight, or in the hands of a
  job — and that what is printed precedes all else.
* `SuccessMeansComplete`, `RunImplementsReport`: exit code 0 means that all was
  read and all found was printed, and every step of any thread is a step of
  `Report` or invisible. A job that panics in `from()` may leave the collections of
  the jobs beside it in a batch that never gets complete. Then the merger prints
  nothing any more, drops what it has when `recv` fails, and no success is possible
  (`Alive`, which is not regained once lost, and `InScope`).

**`SlicerProofs`, `ListingProofs`**: any inputs, short reads, files missing, empty
or failing.

* `DeliveryIsGapless`, `DeliveryIsComplete`: the delivered bytes end where the
  reader stands, or at the end of a file that only empty ones follow (`EndInv`);
  every byte read has been delivered (`PrefixInv`); the iterator ends only at the
  end of the last file (`StopInv`).
* `LabelsTellTheSource`, `LegendLeadsToTheSlice`: under the assumption of fewer than
  256 inputs, where the `u8` does not wrap. The letter is that of the slice a string
  was returned with; a string that was kept may begin in an input before that one,
  never in one behind it. `SlicesUnderListing` lifts the Slicer's
  theorems to `Listing`.

**`SplittingProofs`**: any buffer, filter, MIN, line and GREP character.

* `ResultsAreSubstrings`, `ContinuationsContinue`, `KeptStringEndsBuffer`,
  `MinAndGrepAreObserved`, `NoRunIsLost`. `IteratorInv` relates the pointers, the
  counted characters and the last result; `RunsInv` says of every run of good
  characters in front of the pointer that it is returned, too short, or being
  collected. With GREP the character has to pass the filter (`GrepPasses`).
  `LinesInv` and `EndsInv` are what `FindingsProofs` needs of a buffer: the first
  line of each string is inside one result; a string that may go on in the next
  buffer is held to be cut, and is kept, completes the one before it, or fills its
  line; and what is kept is never the second half of a string.

**`ScannerProofs`, `FindingsProofs`**: any behaviour of the modelled decoder
(section 5 says which it leaves out), any division of the stream into slices, any
window, line and output buffer. The iterator's invariant is taken over from
`SplittingProofs` by INSTANCE, with the caller of `Splitting` replaced by
`from()`.

* `BufferSuffices`: in a buffer of `RoomEnough` there is no overflow and no panic.
  It takes the UTF-8 length of texts (a function on prefixes; sums and bounds by
  least-number induction over a set) and how much is written per byte read
  (`OverflowInv`).
* `LeftoverIsBounded`: what is kept fits a line, with less than a line unless GREP
  is set, and is never a string that the cut flag says was printed.
* `LastSliceIsFlushed`, `MinAndGrepAreKept` (under
  `GrepPasses`).
* `FindingsAreText`, `FindingsAreInOrder`: the text that is in no finding yet is
  one piece in order that ends where the decoder stands (`PendingInv`), and all
  findings lie in front of it (`BehindFindingsInv`).
* `ExactPositionsAreNear`, `AfterPositionsAreNear`: what the iterator's text starts
  with is a leftover, all else was read in this call (`NearInv`).
* `ContinuationsFollow`: as long as the cut flag is set, whatever comes next
  follows the last finding (`ContInv`); a collection cleared after an overflow is
  excepted, as in the property.
* `FirstLineIsNotLost`: an account of every string over any number of windows,
  slices and calls of the decoder, in the cases where a scan may be complete (no
  GREP, no collection cleared). All but the pending end of the stream has passed
  (`SuffixInv`), and an invalid byte leaves a gap (`GapInv`). The first line of a
  string that starts in front of that end is found (`SettledInv`); a character
  decoded next would break this, were it not that a string which may go on over
  the border has a full line already (`BoundaryInv`). `TakenInv` carries both
  through the iterator: each result taken is a finding or is kept. The theorem
  assumes that same-block filtering is off, which drops the beginnings of strings
  on purpose, and that MIN is at least 1.
* `CutStringsAreCompleted`: the same for all of a string, not only its first line,
  in encodings with one byte per character (`OneBytePerChar`: ASCII and the
  single-byte code pages). What has passed is found, up to a last string that may
  go on, however short (`FoundInv`). Such a string must not be forgotten: it is
  either what the leftover starts with, or has set the cut flag, whichever of the
  call, the slice or the iterator holds the flag at the time (`JoinInv`,
  `CutFlagInv`), so that the next text continues it. A call of the decoder that
  writes nothing clears the flag; it does no harm where it comes behind an invalid
  byte or the end of the stream (`EmptyCallInv`). This last invariant is the one
  that fails with wider characters, when a window holds nothing but the first
  bytes of one: the run `scanner_tail` shows the string that is lost then. The
  theorem assumes no same-block filtering and MIN between 1 and a line.
* `KeptStringsAreBeginnings`, under the same assumptions: what is kept is not the
  tail of a string, since the flag is set for a tail (`JoinInv`) and never together
  with a leftover (`KeptOrCutInv`).
* `ScannerImplementsScan`: `Scanner` implements `ScanContract`. `Pipeline` and
  `Scanner` are joined at that contract.

**`SessionProofs`**: any inputs, any behaviour of the modelled decoder.

* `SessionRunsItsParts`: a behaviour of the loop is one of the Slicer and one of
  the scanner, so all theorems about them hold for the two together.
* `LabelsFitPositions`: fewer than 256 inputs. Neither part knows that the
  scanner's count of bytes runs in step with the Slicer's (`InStepInv`) and that
  the bytes of a slice are of the file in its label (`SliceInv`).

**`MissionProofs`**: any options, any number of encodings.

* `MissionTypes`, `MissionsCanBeUsed`, `EncodingsDoNotMix`: mission number i is
  what value number i becomes with the global options alone, and that value has
  passed all checks (`MadeInv`).
* `AsciiNamesMeanTheirFilter`: no name of that table is the beginning of one before
  it.

Assumptions. Each module's `ASSUME` says of the constants what the program's
types and checks ensure: sizes are numbers, buffers and lines are not empty, the
filters are sets of leading bytes, and a character is at most three times as long
in UTF-8 as in its encoding (true of every encoding of encoding_rs: one byte
becomes at most three, four come from at least two). TLC evaluates them in the
runs. Besides, the theorems about labels assume fewer than 256 inputs, beyond which
the labels do wrap. Distinct mission ids are built into the numbering of missions; in the
program the id is a `u8`, so this is up to 256 missions.

Only model-checked: liveness — `Termination`, `IteratorEnds`,
`OutputErrorIsReported` — which is out of the prover's reach under fairness.
`CutStringIsCompleted` and `KeptStringIsABeginning` are proved for one byte per
character, as in the `session` run; with wider characters they are false (run
`scanner_tail`).

## 5. What is not modelled

* The bits of the filter constants, and the `Ord` of filters, which only decides
  between missions with the same id.
* The notation of positions and marks in `Finding::print`; the other texts of
  `help.rs`; the argument declarations of `options.rs`.
* The debug-only `FindingCollection::print`.
* In `Pipeline`, the panic of `print()` from the 192nd file on in builds with
  overflow checks (it is in `Listing`); `OutputFails` ends the merger at the same
  place with another exit status.
* Encodings with shift states, and text that a decoder still owes after its last
  byte or after an invalid one (UTF-16, gb18030): `Malformed` and `InputEmpty` end
  the call. The theorems about the scanner are about the decoder so modelled.
* The panic of both parsing macros on an option's text whose first two bytes end
  inside a character (`mission.rs:453`, `:478`), before anything is read.
* That threads share memory at a finer grain than a `Scan`: `ScopeInv` shows that
  no write to the buffer can happen while a job runs, so a scan may be one step.
* Panics of `File::create` or allocation in the main thread before `run` starts
  its threads.

## 6. Plan

1. Done: all modules and their runs.
2. Done: the theorems of section 4.
3. Left: for wider characters, `CutStringIsCompleted` of strings that no window
   consisting of the first bytes of a character follows.
