# phosg: TLA+ models, checks and proofs

phosg is a C++ library of wrappers and small data structures. This directory models the parts of it
whose behaviour is hard to test: worker threads, child processes, containers whose state is a web of
pointers, small services with state (cached pids, descriptors, buffers, readers, writers), and the
algorithms that turn one form of data into another. Paths are relative to the repository; `Tools.hh:137`
means line 137 of `src/src/Tools.hh`.

- [1. The system](#1-the-system)
- [2. Modules](#2-modules)
- [3. Runs](#3-runs)
- [4. Proofs](#4-proofs)
- [5. What the checks found](#5-what-the-checks-found)
- [6. Not modelled](#6-not-modelled)
- [7. Plan](#7-plan)

To check: `tlc -config X.cfg M` for a run (the table in section 3 gives `X` and `M`), `tlapm M.tla`
for each module whose name ends in `Proof`.

## 1. The system

The library has no process or server of its own. Its parts are called by a program, and few of them
call each other; what follows lists the state that each keeps, how it interacts, and what makes it
correct.

| Part | State | Operations | Interaction and hard behaviour | Correct when |
|---|---|---|---|---|
| Parallel iteration (`Tools.hh`) | atomic counter `current_value`, atomic `result_value`, per-thread results | `parallel`, `parallel_blocks`, `parallel_blocks_multi` | worker threads race on the counter; a match stops the others; the caller polls for progress and joins | each value reaches the callback once, the answer is a match or means that there is none, the call returns |
| Parallel range (`Tools.hh`) | shared iterator and result under a mutex | `parallel_range` | the same, with two critical sections per worker | the same, and the mutex is always released |
| LRUSet, LRUMap | hash table, `head`, `tail`, `prev`, `next`, `total_size` | insert, emplace, erase, touch, at, change_size, evict_object, peek, clear, swap | every operation rewires an intrusive list; sums wrap | list = table in order of last use; total = sum of sizes; the oldest entry is evicted |
| KDTree | tree of nodes, `node_count`, iterators with a queue of nodes | insert, at, exists, within, erase, begin, ++, erase_advance, destructor | erasing moves entries along a chain of nodes under an iterator | searches find exactly what is there, iteration meets every entry once |
| Subprocess, run_process (`Process.cc`) | three pipes, pid, cached exit status, buffers, poll set, timeout | run_process, communicate, wait, kill, destructor | the child writes, reads, closes and exits between any two system calls of the parent; signals; partial reads and writes | all output is returned, all input delivered, no stale pid is used, the call ends |
| Process identification (`Process.cc`) | cached pid and start time, atfork flag | getpid_cached, this_process_start_time, pid_for_name, list_processes | fork invalidates the caches by a handler | never the parent's pid in a child |
| Descriptors (`Filesystem-Unix.cc`) | scoped_fd's descriptor, Poll's sorted vector | open, close, move, add, remove, poll, read_all, readx, writex | descriptors are shared by number; short reads | closed once and never used after; one entry per descriptor |
| Files and paths (`Filesystem.cc`) | none | load, save, stat, list, basename, dirname | errors between system calls | nothing leaks on an error path |
| Network (`Network.cc`) | none | listen, connect, parse and render addresses | errors between system calls | as above |
| Random (`Random.cc`) | thread-local buffer | random_data, random_int | requests that straddle refills | no byte is handed out twice; results in range |
| Strings (`Strings.cc`) | parser state; reader and writer offsets | split*, parse_data_string, format_data, BitReader/Writer, StringReader/Writer | quotes, escapes, bounds | reading gives back what was written; nothing outside the bounds |
| JSON (`JSON.cc`) | value tree, parser position | parse, serialize, compare | nesting, options | parsing inverts serialising; `<=>` is an order |
| Encoding, Hash | none, or a running hash | base64, swaps, fnv1a, md5, sha1, sha256 | padding, widths | decoding inverts encoding |
| Image (`Image.hh`) | pixel buffer | blits, lines, formats | clamping of rectangles | only pixels of both images are touched |
| Vectors, Math, Containers, Types | none | arithmetic | none | by inspection |
| Arguments, UnitTest, Time | used marks; none; none | getters, `expect_*`, durations | sequences of getters | an unused argument is reported; a failed expectation is reported |
| Tools | none | bindiff, jsonformat, parse-data, phosg-png-conv | I/O | not applicable |

`PROJECT.json` lists the parts with their status, and under `hazards` what can go wrong in them that a
unit test would hardly reach, each at its line with the property that watches it.

## 2. Modules

A component has a module with its state and one action per operation or atomic step; an abstract
module with what it promises where that is worth stating; a module `...Proof` with its theorems; and a
module `MC...` with values for TLC where a cfg cannot spell them. Operators that begin with the comment
"Mutant:" are plausible mistakes: each replaces one definition of its module to show that a property
notices it. They are not used by any specification.

### Parallel iteration

- `ParallelFind` is the promise, without threads: the callback is called at most once for each value,
  and the answer is a value whose call returned true, or the end after a call for every value (or the
  set of all matches).
- `ParallelJob` is `parallel`, `parallel_blocks` and `parallel_blocks_multi`, with its properties and
  inductive invariant. Every atomic operation is an action: `Fetch` is the `fetch_add` and the loop tests
  (`Tools.hh:60, 137-139`), `Publish` and `StopOthers` are the two separate stores after a match
  (`62-63`, `142-143`), `CallReturnsTrue` and `CallReturnsFalse` the return of a callback. `parallel` is
  `parallel_blocks` with blocks of one value. `IntT` is modelled with its width: additions are modulo
  `Modulus`.
- `ParallelRange`: the variant over a range; the mutex is `lock`, every critical section is cut into
  its steps. `ParallelProof` and `ParallelRangeProof` have the proofs.

### LRU containers

- `LRUList`: the intrusive list as its four kinds of pointer, with `Link`, `Unlink` and `MoveToFront` as
  pure operators on them, and `Represents(list, items, newer)`: the list holds exactly `items`, in the
  order that the history `newer` gives.
- `LRUItems`: containers that own a table of items and a list over them; the primitive steps of both
  classes (`Add`, `Renew`, `Resize`, `Free`, `FreeAll`, `Exchange`). An item is a pair of the table that
  owns it and its key, which is its address: `swap` exchanges tables, never items. `LRUItemsProof` proves
  what the primitives preserve.
- `LRUSet` and `LRUMap`: one action per operation. `LRUMap` adds values.
- `LRUOrder`: the promise, entries ordered by last use, no list. Each operation of the classes must
  change the abstract containers and return the values that `LRUOrder` says (`ImplementsOrder`, proved in
  `LRUSetProof` and `LRUMapProof`).

### KDTree

- `KDTree`: nodes with addresses, and the one iterator that is in use. `Insert`, `Erase`, `Begin`,
  `Advance`, `EraseAdvance`, `Destroy`; `At` and `Within` are operators. `DeleteNode` follows the chain
  of replacements of `delete_node` to the leaf that is freed.
- `KDBag`: the promise, a bag of entries and an iteration over it. The proofs are in
  `GeometryProof`, a node's depth in the place of a recursion.

### Child processes

- `ChildProcess`: a program and three pipes of `Capacity` bytes, and what the parent's system calls do
  to them. The child may read, write, close, exit with either status, or block, in any order; it may
  ignore SIGTERM. Bytes have no content.
- `RunProcess`: `run_process` and the destructor of `Subprocess`. Each system call of the parent is an
  action, so that the child and the clock move between any two. `polled` is the poll set and, since the
  code keeps them together, the keys of both buffer maps; `todo` is what is left of a pass over the
  events. `late` is the test `start_time < now() - timeout_usecs`; `Expire` makes it true.
  What poll says about a hung-up descriptor differs between systems; it may be reported or not.
- `ProcessCall`: the promise of a call; the refinement mapping is in `RunProcess`, the proofs are in
  `RunProcessProof`.
- `Communicate`: `Subprocess::communicate` on the same child, with blocking descriptors.

### Services: parts with state that know nothing of each other

- `PidCache`: `getpid_cached` and `this_process_start_time`. Each process has its copy of the globals;
  a thread's call is cut at every read and write of them, and `fork` may come between any two steps of
  other threads. The kernel uses a pid again after its process was reaped.
- `Descriptors`: `scoped_fd`, the entries of `Poll`, `pipe`. The kernel hands out the lowest free number,
  so a number used after its close may mean another file. The model remembers which file each object
  was opened on. A program that breaks a rule of ownership (closes what an object holds, polls what it
  closed) becomes `careless`, and nothing is promised to it. To add a descriptor again breaks no rule: `add`
  does what the code does, a second entry, and the history `again` remembers for which descriptors.
- `Sockets`: `listen` and `connect`, one action per system call, each of which may fail.
- `RandomBuffer`: `random_data`. The device's bytes are numbered, so that one handed out twice shows.
- `Readers`: `StringReader` over `size_t` of a small width, so that `offset + size` wraps as it does in
  the code. A byte from outside the data reads as `Outside`.
- `BitIO`: `BitWriter` and `BitReader` on the same bytes; a byte is the function from its places to their
  bits. It implements `BitSequence`, a sequence of bits and a place in it: a read answers with the number that
  the bits from its offset spell, as many as it asks for, and moves past them if it should.
- `ByteWriters`: `StringWriter` and `BufferWriter`, given the same calls.
- `Logging`: log levels, and loggers made from each other with prefixes and levels.
- `Arguments`: the parser, the used marks, the getters and `assert_none_unused`.
- `MCServices` gives each its constants and names what each promises. Its ASSUMEs say what the
  constants of the parts are. `ServicesProof` has the proofs, part by part; each part has a specification
  of its own (`FdSpec`, `ReaderSpec`, `BitSpec`, `ArgSpec` and so on), so that a theorem is about the part
  and not about the run.

### Library: functions without state

`LibraryInput` has the machinery: a behaviour picks a kind of input and then an input of that kind, and a
property is an invariant over the inputs. Each module below has the functions first and what they promise
last; `MCParts` puts them in one run with `MCServices` and with one job of `parallel_blocks_multi`.

- `Strings`: split and its variants, join, strip, quoting and escaping; `parse_data_string` and
  `format_data_string` with masks, comments, files and byte orders; `format_data` over iovecs with
  differences.
- `JSON`: values, comparison, `parse` with and without the extensions, `serialize` under every set of
  options; and the grammar of JSON, with the ways in which the code is more or less strict named.
- `Encodings`: base64 with both alphabets, rot13, byte order, sign extension, endian types; crc32, fnv1a,
  and how md5, sha1 and sha256 cut the input into padded blocks.
- `Numbers`: sizes, durations, `gcd`, `reduce_fraction`, `log2i`, `random_int`, vectors and matrices.
- `Files`: `read_all`, `fgets`, `fread`, `basename` and `dirname`; network locations; `list_processes`
  and `pid_for_name`; which outcomes the expectations of `UnitTest` accept.
- `Images`: colours, the nine pixel formats, drawing, `copy_from` with its resize modes, views, text
  layout, and the PPM, PAM and BMP files.
  `GeometryProof` proves of images of every size what the run checks on small ones, as far as it does not
  read files, draw text or lines, or interpolate.

Texts are short sequences of one-character strings, bytes and words have few bits where a width matters,
floats are decimal fractions, and pixels are tuples of bytes.

## 3. Runs

| Run (cfg) | Module | What it shows | Bounds |
|---|---|---|---|
| `parallel` | ParallelJob | values taken once, and of the range; a match stops the others after the call they are in; termination; refinement of ParallelFind | 3 workers, 3 values |
| `parallel_wrap` | ParallelJob | violation: the counter wraps | 2 workers, end one block below 2^w = 8 |
| `parallel_report` | ParallelJob | violation: the default progress report divides by zero | 2 workers, 2 blocks of 2, from 2 |
| `parallel_range` | ParallelRange | elements taken once; early stop; the mutex is released; refinement | 3 workers, 3 elements |
| `lru_set` | MCLRUSet | the list and totals; the abstract order | 2 sets, 3 keys, sizes 1 and 5 modulo 8 |
| `lru_map` | MCLRUMap | the same with values | 2 maps, 2 keys, 2 values |
| `kd_tree` | MCKDTree | one tree, weak order, exact searches without ties (`TreeIsSearchable`); iteration as over a bag | 4 nodes, 5 points in 2 dimensions |
| `kd_ties` | MCKDTree | violation: a point is lost when coordinates are shared | the same |
| `process` | MCProcess | nothing lost, whole input, no stale pid (`CallIsSafe`); the call ends; refinement of ProcessCall | pipes of 2 bytes, 3 + 1 bytes of output, input none, 0 or 3 bytes, with and without timeout |
| `communicate_default` | MCCommunicate | violation: without a timeout it times out at once | pipes of 1 byte |
| `parts` | MCParts | the nine parts with state, one property each; the functions without state, one property for each module; `parallel_blocks_multi` | see below |
| `json_standard` | MCParts | violation: `serialize` writes a float that is no JSON number | the functions of `parts` |

Why these bounds are enough to be interesting. Three workers on three values let a worker be
overtaken twice, let two workers match, and let one overshoot the end while another still works. Two
containers are what `swap` needs; three keys give the list a first, a middle and a last item; sizes
modulo 8 make sums wrap. Four nodes allow a chain of two replacements in different dimensions under
an iterator that still has both children queued. Three bytes of output and of input through
pipes of two bytes make both ends block, write in parts and meet EAGAIN; one byte of stderr orders the
two outputs against each other. `Modulus` = 16 is far above what `parallel` can reach, 8 is just below
(that run shows what then happens).

Other bounds: `MaxOut` limits what the child writes (without it the state space is infinite); `late` is
a saturating clock; the iterator of a KDTree is one, and is discarded by an erase that goes past it,
as the code's iterators are invalidated.

### The run `parts`

Three shares, of which a behaviour is in one. None of their components interacts with another, so that the
state space is the sum of theirs (573 000 states), and a run each would add nothing.

`parallel_blocks_multi` with two workers, two blocks of two values from 2 on, and the default progress report:

| Property | Says |
|---|---|
| `JobStaysInRange` | only values of the range reach the callback; the report can divide by zero at most before a worker has taken a block (`ReportsOnceUnderWay`; that it does then is the run `parallel_report`) |
| `JobFindsAll` | refinement of ParallelFind: all matches, after a call for every value |

The parts with state:

| Property | Part | Says | Bounds |
|---|---|---|---|
| `ReadersAreExact` | StringReader | no read outside the data unless an offset and a size wrapped; a call moves past exactly what it returned; `skip_if` never throws unless the offset is past the end | 3 bytes, `size_t` modulo 8 |
| `WritersAreExact` | StringWriter, BufferWriter | no write outside the buffer unless a sum wrapped; both hold the same bytes after the same calls | buffer of 3, `size_t` modulo 8 |
| `BitsAreASequence` | BitWriter, BitReader | refinement of a sequence of bits: what each call does to it, and the number each read inside the bytes answers with | 4 bits in bytes of 2, reads of 1 and 3 |
| `OwnIdentity` | cached pid | own pid, own start time or zero, never the parent's | 2 pids, 2 threads, 3 births |
| `DescriptorsAreOwned` | scoped_fd, Poll | an object means its file; Poll watches what was added, with one entry for each descriptor that was not added again meanwhile; no descriptor is lost | 3 descriptors, 2 objects, 3 opens |
| `SocketsAreSettled` | listen, connect | closed on an error (but for two); ready when returned; what happens to the path | every combination of arguments |
| `EachByteCounts` | random_data | a byte is handed out once, unless a fork or a failure came between; none is dropped | buffers of 3, requests up to 7, 9 bytes |
| `FollowsItsParents` | loggers | the level that counts is the nearest one set, at the moment of the message | 3 loggers, 3 levels |
| `ArgumentsAreUsed` | Arguments | silence of `assert_none_unused` means all was asked for; integers are those spelled | 2 arguments, 6-bit long, 4-bit integers |

A byte of 2 bits and a read of 3 make reads cross two byte boundaries. Requests of 7 with buffers of 3
need two refills. Three births for two pids make a pid mean a second process. The widths of `Arguments`
are such that a text can overflow each of the two integers.

The functions without state:

| Property | Conjuncts, each a promise of its own |
|---|---|
| `TextCorrect` | `SplitLosesNothing`, `TokensAreBalanced` (quotes and brackets), `CommentsKeepLines`, `ArgumentsSurvive` (quoting for a command line), `EscapesAreUndone`, `DataStringsMatchMasks` (parse inverts format, with masks), `DumpShowsEveryByte`, `DiffShowsTheContext`, `BuffersReadThrough` (iovecs) |
| `JSONCorrect` | `StrictIsJSON` (against a grammar: it accepts JSON, but for what section 5 lists, and of the extensions none), `ExtensionsOnlyAdd`, `NumbersAreSpelled`, `ReadsWhatItWrites` under every option, `OrderIsConsistent` |
| `EncodingsCorrect` | `Base64RoundTrips`, `OddWidthsFit`, `ByteOrderIsInvisible`, `HashesInPieces`, `BlocksSpellTheInput` |
| `NumbersCorrect` | `SizesAreReadBack`, `DurationsAddUp`, `FractionsAreReduced`, `EveryNumberOfTheRange`, `ProductsFit`, `InversesInvert` |
| `FilesCorrect` | `FilesAreReadWhole`, `LocationsAreReadBack`, `SearchIsUnambiguous`, `RaisesWhatIsExpected` |
| `ImagesCorrect` | `PixelsReadBack`, `RectanglesAreClipped`, `FilesRoundTrip`, `BitmapsAreReadWhole`, `HeadersAreChecked`, `LinesAreStraight`, `CopiesAgree`, `StretchingKeepsOrder`, `ViewsShowTheirPart`, `TextStaysInItsBox` |

A state of this share is one input, 330 000 in all: texts of up to five or six characters over the
characters that the scanner at hand tells apart, all words of the small widths, all rectangles around an
image of three by three. Where a promise has exceptions, the property names them: they are the
deviations listed in section 5. An exception says only that nothing is promised there; what a comment of
the repository contradicts is not stated as correct anywhere.

Sizes and widths that are smaller than the code's: `Unit` is KB_SIZE, `SecondDigits` and `MinuteDigits` the
precision of a duration, `LineBytes` the bytes of a dump's line, `BlockBytes` and `LengthBytes` a hash's
block and length field, `ReadSize` and `LineBlock` the blocks of reads.

Symmetry is used in the LRU and KDTree runs only, whose properties are invariants and step properties
(no liveness) and whose permuted values occur in no ordering.

Fairness. `ParallelJob` and `ParallelRange` assume weak fairness of the calling thread and of each
worker: the operating system schedules every runnable thread and callbacks return. The mutex need not
be fair: a waiting worker can be overtaken only as often as there are elements left. `RunProcess`
assumes that the parent is scheduled and that time passes; about the child it assumes nothing when
there is a timeout. Without a timeout the code waits for the child, so the child is then assumed to go
on whenever no call blocks it; with `MaxOut` that means it ends unless parent and child wait for each
other, which is what `Returns` excludes. The services promise nothing under fairness: their calls do
not wait for each other.

`CHECK_DEADLOCK FALSE` is said where the system stops: a call of `communicate` ends, a careless program or a
thrown call of a service stops, and an input of the library is checked once.

## 4. Proofs

| Theorem | Says | Assumes |
|---|---|---|
| `ParallelProof!Invariance`, `Typing`, `CalledOnce`, `CalledInRange` | the counter's overshoot is bounded; blocks are disjoint and in range; no value is called twice | `NoWrap`: `End + NumThreads * BlockSize < 2^w` |
| `ParallelProof!Prompt`, `FinishesItsBlock` | after a match was announced a worker finishes at most its call (`parallel`) or its block (`parallel_blocks`) | `NoWrap`, the `Mode` |
| `ParallelProof!Reports` | from any start value, the default progress report divides by zero at most before a worker has taken a block (`ReportsOnceUnderWay`) | `NoWrap` |
| `ParallelProof!Refinement` | the three functions implement ParallelFind | `NoWrap`, at least one worker |
| `ParallelRangeProof!Invariance`, `RangeTyping`, `ItemOnce`, `Stops`, `Refinement` | mutual exclusion; each element once; no element after a match was announced; ParallelFind | for the refinement at least one worker |
| `LRUItemsProof!UnlinkRepresents` and its siblings | linking, unlinking and moving an item keep a list a list | none |
| `LRUSetProof!Invariance`, `LRUMapProof!Invariance`, `Typing` | list = table, in order of last use, no stale pointers | sizes below 2^w |
| `LRUSetProof!EvictsOldest`, `LRUMapProof!EvictsOldest` | evict_object takes the least recently used entry and nothing else | the same |
| `LRUSetProof!Totals`, `LRUMapProof!Totals` | `total_size` is the sum of the sizes, modulo 2^w | the same |
| `LRUSetProof!Refinement`, `Implements`, `LRUMapProof!Refinement` | every call does and returns what LRUOrder says | the same |
| `GeometryProof!Invariance` | one tree in weak order, the right count, an iterator whose queue holds disjoint subtrees | finitely many nodes, coordinates that are integers, at least one dimension |
| `GeometryProof!Searchable` | the same of the model's own words (`TreeIsSearchable`): `at`, `exists`, `within` are exact as long as no coordinate was shared | the same |
| `GeometryProof!Refinement` | every call does to the bag of entries, and to an iteration over it, what KDBag says | the same |
| `RunProcessProof!Invariance`, `Safety` | all output returned, input whole, no stale pid (`CallIsSafe`) | pipes hold at least one byte |
| `RunProcessProof!Refinement` | run_process implements ProcessCall | the same |
| `ServicesProof!CacheInvariance`, `Identity` | what is cached is the process's own; `OwnIdentity` | there is a pid, and no pid is 0 |
| `ServicesProof!SocketInvariance`, `Settled` | what each point of listen and connect has behind it; `SocketsAreSettled` | none |
| `ServicesProof!Descriptors` | an object means its file; Poll watches what was added, once unless it was added again; nothing is lost (`DescriptorsAreOwned`) | descriptors are natural numbers |
| `ServicesProof!LogLevels` | the nearest level that was set counts (`FollowsItsParents`) | levels are those of the enumeration |
| `ServicesProof!Readers` | `ReadersAreExact` | the data lies in memory, so that the place after it has an address; arguments are `size_t` |
| `ServicesProof!Writers` | `WritersAreExact` | a buffer and a word put after it lie in memory |
| `ServicesProof!RandomBytes` | `EachByteCounts` | the buffer holds at least one byte |
| `ServicesProof!BitsRefinement` | every call of BitWriter and BitReader does to a sequence of bits what it says, and a read answers with the number that the bits from its offset spell (`BitsAreASequence`) | a byte has at least one bit |
| `ServicesProof!UsedArguments` | an unused argument is reported and no other; integers are those spelled (`ArgumentsAreUsed`) | a command line is a sequence of texts; `IntLimit` is even and divides `LongLimit` |
| `GeometryProof!PixelsKept` | what a format stores it stores again unchanged, opaque if it has no alpha | a colour is four bytes |
| `GeometryProof!PackedG1`, `PackedGA11` | a write to a packed row changes one pixel and none that shares its byte | the pixel is in the row |
| `GeometryProof!FillsAreClipped` | a fill or blend through a view changes what lies in view, rectangle and image, and never misses | a view that the code makes; a colour that is not fully transparent |
| `GeometryProof!FramesAreDrawn` | `draw_rect` draws the frame's points that the image has, and no others | none |
| `GeometryProof!CopiesStayInside` | a copy writes the pixels of its rectangle for which the source has one, and never misses | not the linear mode, which a copy of equal sizes ignores |
| `GeometryProof!StretchedInOrder`, `StretchedWhole` | nearest-pixel stretching keeps the order, takes corners to corners and fills its rectangle | a destination at least two wide and high; a source rectangle that has a pixel and lies in the source |
| `GeometryProof!ViewsAreCopiedAlike`, `CopiesOfViews` | copying from a view is copying its rectangle; `copy` of a view shows it, and reads past the end exactly when it starts right of the edge and reaches the bottom | for `CopiesOfViews` a view, of no negative size, of an image that owns its pixels |
| `GeometryProof!ReversedTwice` | turning over twice changes nothing, of a view too | none |
| `GeometryProof!ResizeKeeps`, `GrownAndShrunk`, `ConvertedOnce` | what resizing and converting keep; growing and shrinking back, and converting again, change nothing | sizes are not negative |

All hold for every value of the constants that meets the assumption: any number of threads, keys,
containers, nodes, dimensions, bytes, pids, descriptors, loggers, arguments, and images of any size and in any
of the nine formats. Each assumption is an ASSUME of a module that a run extends, so that TLC evaluates it, or
a hypothesis of the theorem. The code justifies them: no process has
pid 0, the kernel numbers descriptors from 0, `LogLevel` has six members (`Strings.hh:207`), the random
buffer is filled with 4096 bytes (`Random.cc:41`), an object in memory ends below 2^64 and memory has
room for finitely many, and the limits of the integers are powers of two of which strtoull's is the
greatest. Coordinates are integers in the model: of a floating-point type only the order is used, as long as
no coordinate is a NaN.

Why the invariants are what they are.

- *ParallelJob.* That no value is called twice does not follow from itself: one needs that every block
  in work lies below the counter (`BlockInv`), that the counter is at a block boundary until it passes
  the end and passes it by at most one block per finished worker (`CounterInv`, which is where `NoWrap`
  is used), and that a value below the counter is called or in some block as long as nothing matched
  (`CoverInv`, for the answer "none"). `HitInv` ties `result_value` to the matches between the two stores.
- *ParallelRange.* `LockInv` (the holder is the one worker in a critical section) makes the comparison,
  the dereference and the increment of the iterator one step as far as others can see.
- *LRU.* `Represents` says that the list order is the recency order, that `prev` and `next` are
  inverses and that the ends are `head` and `tail`. It is a statement about neighbours rather than
  about a walk from the head, so that each primitive step needs a case distinction over at most
  three items and no induction. `TableInv` and `FreeInv` make the lists of different containers disjoint.
  A total is a sum over a set of items; the model counts the pairs of an item and a number below its size, so
  that an item more or less is a set more or less, disjoint from the rest. For the refinement each
  primitive step is matched with a change of the abstract container once (`BindMatches` and its siblings),
  and each call cites the steps it is made of.
- *StopsPromptly, StopsEarly.* `StopInv` adds to the inductive invariant which workers can still call: after
  the counter, or the iterator, is at the end, a worker that fetches again finds nothing.
- *ReportsOnceUnderWay.* The counter is at the start value only while no worker has fetched; `Fetch` moves it
  by a block, and by `NoWrap` it never comes back (`ReportStep`).
- *KDTree.* The model walks the tree with recursive functions, about which nothing can be proved by induction
  on the tree. The invariant therefore speaks of a relation: what is `Under` a node is the least set that has
  the node and the children of its members, and each node has a depth, its parent's and one (`Tree`). A
  walk of the model is compared with that step by step, and the least step at which they differ is a
  contradiction (`Recursion`, `HasLeast`). `Ordered` says that nothing before a node is greater and nothing after
  it less. `delete_node` is the hard case: the entries of a chain of nodes move up by one, each being the
  greatest or the least of its side, so that the order stays weak; `Apart`, that no coordinate is shared, is
  what makes it strict, and a search that compares with `<` exact. An iterator's queue has roots of disjoint
  subtrees (`Spread`); `erase_advance` keeps that because a deletion frees a leaf under the node that it erases.
  Bags are compared by counting the nodes that have an entry.
- *RunProcess.* Bytes are conserved (`Conserved`); a descriptor leaves the poll set, or the drain's list,
  only when its pipe is empty and the child can write no more (`Emptied`); the drain comes after the
  child was waited for (`Attended`). Together these give `AllOutput` at the moment of the verdict.
  The refinement maps the pipes away: only the child's own acts, the verdict and the end of the
  destructor are visible.
- *PidCache.* That a child never answers with its parent's pid rests on an order: the handler is there
  before anything is cached (`OwnCache`: without it both globals are zero), and every thread that is about
  to write relies on it (`Midway`). So whenever fork copies a value, the handler clears the copy. A
  thread that returns the cached pid reads it in a later step than its test; nothing clears it in
  between because only fork does, and only in the child. `Ended` covers a pid's second use. A step of
  one thread is proved once (`ThreadStep`) and so is the start or end of a process (`ProcessStep`).
- *Sockets.* `DescriptorInv` says from where on the descriptor is open, `ModesInv` what the calls before
  each point have set; the three promises follow at the points where they apply.
- *Descriptors.* Numbers are used again, so that an object means its file is a statement about three places:
  `Owned` (an object's number is open on its file, is no other object's and not the program's) and `Watched`
  (Poll's entries are sorted and mean their files) hold until the program becomes careless; that no
  descriptor is lost holds always. `Joined`, `Inserted` and `Removed` say what Poll's searches do to a
  sorted sequence of any length.
- *Logging.* The level of a logger is defined by the path to its nearest ancestor that has one. `LogInv` says
  that the copy made at construction is that of the path's end; a new logger's path is its parent's with
  itself in front (`MadeStep`), which takes the place of an induction over the tree.
- *Readers.* Until a sum wraps, the reader is a part of the data (`ReaderInv`): a sub-reader, made by checked
  sums, is one again. Each call then either stays, moves past what it returned, or throws where it was.
- *ByteWriters.* Both writers have the same bytes below the smaller of their ends; a put at an offset changes
  the same places of both. `NoWrap` says which sums are the true ones.
- *RandomBuffer.* Each byte of the device is in one place: with a caller, or once in one user's buffer
  (`Apart`), until a fork copies a buffer or a failed refill keeps one. `Filled` and `RefillsFit` follow a
  request over any number of refills by arithmetic on its length.
- *BitIO.* The bits of the last byte that are not used are zero (`Stored`): a write sets a bit and never clears
  one, and a reader sees whole bytes. A bit's number is that of its byte and its place in it in one way only
  (`OneWay`), which is what lets an append or a cut be followed bit by bit. A read answers with a
  recursion over its bits; the two modules' recursions have the same solution (`Recursion`).
- *Arguments.* `Found` counts the places of what was parsed, argument by argument, against what the command line
  says (`Said`); a group of flags has as many as characters. From then on places stay, and one is marked
  exactly if the program was given it (`ArgInv`). What `parse_int` does to the bits from the sign on is
  proved as division: the quotient by half the limit is 0 or the greatest there is.

- *Images.* An image is a `Window` into a memory of colours: it is no wider than its stride, each of its pixels
  is in the memory, and a colour there is one that its format stores unchanged. Pixels then have places of their
  own (`OwnPlace`), so that painting a set of points one by one comes to the same as painting each once
  (`Painted`, `Repainted`), and the image is a `Window` again. `PixelsKept`, by cases over the formats, is what
  makes a second write of the same colour, a second conversion and a copy into the same format change nothing.
  Everything else follows from which points a call paints: `clamp_rect`, frames, copies and views are questions of
  rectangles of integers, of either sign. About the result of converting a NaN to an integer nothing is assumed.

Only model-checked:

- Termination (`Returns` in three runs). It rests on fairness, which is out of the prover's reach.
- The library's six properties as they stand (`TextCorrect`, `JSONCorrect`, `EncodingsCorrect`, `NumbersCorrect`,
  `FilesCorrect`, `ImagesCorrect`). The functions there are recursive over texts and values, or work on the bits of
  words, and what such a function computes for every input would be proved by induction over data, for which the
  provers have no rule they can use. (Where a model that is proved about has a recursion, in KDTree, BitIO and
  Arguments, the recursion is over numbers, and least counterexamples serve.) The run has every input up to a
  length instead. Of `ImagesCorrect` the parts about formats, fills, frames, copies, views, turning, resizing and
  converting are proved as the theorems above, for every size; lines, text, linear interpolation,
  copies through a mask image and the image files stay with the run.
- `Communicate`, which is explored only for the violation of section 5: what it does otherwise promises
  nothing that a property here states.

## 5. What the checks found

Shown by a run (`findings` in `PROJECT.json`):

1. `parallel_wrap`: every worker increments the counter once more after the end. When
   `end_value + num_threads * block_size` exceeds the type's maximum, the counter wraps and values
   below `start_value` reach the callback.
2. `kd_ties`: `delete_node` replaces a node by the greatest entry of its `before` side, but leaves
   other entries with the same coordinate there, where `at`, `exists`, `within` and `erase` do not look.
3. `communicate_default`: without a timeout, which is the default, `communicate` kills the child and
   throws "timed out" at once.
4. `parallel_report`: the default progress function divides by zero if it runs before a worker has taken a
   block and `start_value` is not 0 (`Tools.hh:44-45`), which the comment at `150-153` allows.
5. `json_standard`: `serialize` puts `.0` behind the exponent of a float that is printed without a point, as in
   `1e+17.0` (`JSON.cc:331-334`); `JSON.hh:57-58` promises standard JSON.

Met while modelling, not the subject of a run of their own. The models have these behaviours, and the
properties name them as exceptions where they would otherwise fail.

Threads, containers and processes

- A match inside a block does not stop other workers before the ends of their blocks (`Tools.hh:139`). `parallel` with `hardware_concurrency() = 0` never returns (`86`).
- Destroying an empty `KDTree` dereferences null (`KDTree-inl.hh:27`); erasing through the tree may free
  nodes that an outstanding iterator has queued (`89`). Copying an LRU container copies its pointers
  into the other's items (`LRUSet.hh:11`). An insert over an existing key takes the difference of the sizes in
  `ssize_t`, which is undefined if they are more than SSIZE_MAX apart (`LRUSet-inl.hh:46`): the model makes
  no such call.
- `LRUMap::insert(const KeyT&, const ValueT&)` and the const `at` do not compile once instantiated.
  `LRUMap::emplace` of an existing key consumes its arguments.
- `communicate` loses output that is still in the pipe when the child ends, signals a pid that it has
  already waited for (`Process.cc:449`), and can block past its timeout in a write (`427`).
- `run_process` leaves descriptors open (`618`); spins on a hung-up pipe on Linux (`536`); its timeout
  parameter is in seconds in the header and in microseconds in the definition (`Process.hh:91`,
  `Process.cc:503`). Move-assigning a `Subprocess` forgets a running child (`344`). A child that ends
  without reading its input makes `run_process` return or throw, by who is faster.
- `pid_for_name` with `exclude_self` (`Process.hh:22`) compares the match found so far, not the candidate, with
  the own pid (`Process.cc:108`), so that it may find the caller itself.

Descriptors, files, network, random

- `Poll::add` never finds an existing entry (`Filesystem-Unix.cc:308`), so a descriptor added twice is
  there twice, and `remove` drops one of the two; the code has a branch for that call (`309-311`). A `scoped_fd` moved to itself is closed (`110`). `read_all` takes a short read as the end
  (`196`). `fdopen` leaks its descriptor on failure.
- `fgets` cuts a line at 255 characters and loses what follows a NUL: its test for a block that ends inside a
  line, which the comment describes, is always true (`Filesystem.cc:187-189`). `save_file` truncates before it writes.
- `listen` and `connect` leave the descriptor open when `make_fd_nonblocking` or `remove` throws
  (`Network.cc:175, 198, 214`); `listen` removes the path before a bind that may fail. `parse_netloc`
  cuts at the first colon and does not check the port's range (`257-261`).
- A failed refill lets `random_data` hand out its buffer again, and so does a fork (`Random.cc:26, 41`);
  `random_int` over the full range of its type wraps (`57`).

Text, readers and writers

- `strip_comments` skips two characters after a one-character introducer; `join` drops delimiters after
  leading empty items (`Strings.hh:321`); `str_replace_all` with an empty target never ends; `split_args`
  loses empty quoted arguments; `format_data_string` does not escape a backslash; `escape_url` formats a byte as a
  `char`, so that with a library that prints `char` as signed a byte of 128 or more has a minus sign (`Strings.cc:123`); a reader over iovecs
  reads an empty first one.
- `StringReader`: `get_line` leaves the offset one past the end, so that `remaining` underflows and
  `skip_if` throws (`Strings.cc:1397-1417`); `skip` moves to the end before it throws; `offset + size` may
  wrap (`1320`, `Strings.hh:712, 820`); `readx(0)` at the end differs between its two forms.
  `BitReader::pread` checks nothing (`1105`). `pput` past the end moves `StringWriter`'s end but not
  `BufferWriter`'s offset.
- An argument given twice reads as missing (`Arguments.hh:46`), and `strtoull` saturates to a number
  that becomes -1 (`185, 222`). A logger of level DISABLED throws from `log_f`.
- `expect_raises` of `logic_error` or `exception` passes when nothing was raised: the handler catches the
  message that says so (`UnitTest.cc:31`).

JSON, encodings, numbers

- The strict parser rejects `[]` and `{}` and \u escapes beyond 0xFF, and accepts more than JSON in the form of
  numbers (`-`, `01`, `1.`, `-.`, `1e-`) and in strings (\x escapes, control characters as they are): `JSON.cc:94-230`.
  An exponent on an integer drops digits, so that `1e-1` reads as 0. `[0x]` is accepted.
- INT64_MIN with HEX_INTEGERS and floats such as `1e+17.0` do not read back. EXPAND_LEAF_CONTAINERS changes the text
  without FORMAT too, against `JSON.hh:150-151`; what it writes does read back. Escapes of bytes of 128 and more have
  the minus sign of `escape_url` (`JSON.cc:280-289`).
- Assigning a value to itself empties it; `get` with a default catches only `out_of_range`.
- `base64_decode` never checks the third character of `xx=` (`Encoding.cc:99`); `ext48` tests bit 39
  (`Encoding.hh:43`); prefix `++` and `--` of an endian type return the stored form (`297-304`).
- `log2i` is right for 4-byte types only, and its result has the type of its argument (`Math.hh:29`). `format_size` rounds up to 1024 of a unit, and a
  duration's seconds to 60; precision 0 with one-digit seconds throws (`Time.cc:93`). `norm1` adds without
  absolute values; `Matrix4::invert` does not pivot, so that it refuses invertible matrices with a zero on the
  diagonal, and leaves the matrix partly changed (`Vector-inl.hh:781-784`).

Images

- Linear interpolation weighs wrongly unless the source starts at 0, 0 (`Image.hh:1234, 1242`), does not
  clip the destination (`1267`), and divides by zero for a destination one pixel wide (`1214-1217`).
- `copy` of a view reads past it (`784-792`); a view accepts negative sizes. P5 files are recognised (`Image.hh:546-547, 616`)
  but always throw. `copy_from_with_alpha` at 255 keeps the source's alpha, which the comment at `1317-1318` says is
  ignored. BITFIELDS with a short header uses masks that were never set (`668-719`). The width that
  `draw_text` reports is its last line's (`1612-1615`). Several functions do not compile when
  instantiated (`from_data_*`, `get_data`, `invert`).

## 6. Not modelled

- Memory is assumed to suffice, and `std::thread`, `fork` and `pipe` to succeed.
- The callbacks of parallel iteration do not throw (an exception would end the process) and do not
  touch the range.
- The memory order of the atomics is sequentially consistent, as the code's plain operators are. The
  plain globals of `PidCache` are read and written whole.
- `Subprocess` with descriptors that are not pipes, moving it, descendants of the child that keep its
  pipes open, interrupted system calls (EINTR), and timeouts longer than the time since 1970.
- Copying containers; `KDTree` iterators that are used after an erase elsewhere.
- Binary floating point: its rounding, the float forms of data strings, dumps and arguments, square
  roots. The models use exact fractions, or decimals in `JSON`, where nothing is claimed of the value of a float
  with a fraction. Stretched copies divide by powers of two in the run, where doubles are exact.
- Copying an image to itself, and assigning to a JSON value one of its own children; access to JSON values by type,
  key and index.
- The compression functions of md5, sha1 and sha256: fixed arithmetic that known answers test better.
- The glyphs of `ImageTextFont.hh`; name resolution and the layout of addresses; dates through strftime;
  directory listing, stat and the other wrappers of one call; `BlockStringWriter`; enum names, `Types.hh`,
  `Containers.hh`, `EnumRange` and `call_on_destroy`: no state and no decision of their own.
- The command-line tools: drivers that read arguments and print what the library computes.

## 7. Plan

What is left, in the order of its worth:

1. A model of move construction and move assignment of `Subprocess`, and a `Communicate` with a promise of
   its own once the code states one.
2. `Arguments`: floats, hex and octal integers, integers by position.
3. Two iterators over one `KDTree`, and copies of an LRU container, once the code says which of them a
   program may use.
