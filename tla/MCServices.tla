------------------------------ MODULE MCServices ------------------------------
(***************************************************************************)
(* The parts of the library that keep state and know nothing of each       *)
(* other: what their constants are, and what each of them promises.        *)
(***************************************************************************)
EXTENDS Integers, Sequences, FiniteSets, PidCache, Sockets

CONSTANTS
  Data, Sizes, Outside, SizeLimit, ByteBits, MaxBits, Widths, Words, BufSize, MaxContents,
  Fds, Objects, Events, MaxFiles, Users, BufferSize, Requests, MaxBytes,
  Levels, MaxLoggers, Lines, Names, LongLimit, IntLimit

\* A descriptor is a number that is not negative.
ASSUME FdsAssumption == Fds \subseteq Nat

\* What lies in memory has a size, and so has what comes right after it; an argument is a size_t.
Byte == 0..255
ASSUME DataAssumption ==
  /\ SizeLimit \in Nat /\ Data \in Seq(Byte) /\ Len(Data) + 1 < SizeLimit
  /\ Sizes \subseteq 0..(SizeLimit - 1) /\ Outside \notin Byte

\* A buffer, and a word that is put next to it, lie in memory; so does the string.
ASSUME WordsAssumption ==
  /\ BufSize \in Nat /\ MaxContents \in Nat /\ MaxContents < SizeLimit
  /\ Words \subseteq Seq(Byte) /\ \A word \in Words : BufSize + Len(word) < SizeLimit

\* A byte has bits.
ASSUME BitsAssumption == ByteBits \in Nat \ {0} /\ MaxBits \in Nat /\ Widths \subseteq Nat

ASSUME RandomAssumption == BufferSize \in Nat \ {0} /\ Requests \subseteq Nat

\* The members of the enumeration, USE_DEFAULT to DISABLED.
ASSUME LevelsAssumption == Levels \subseteq -1..4

\* Command lines are texts; the integer types are those of two's complement, none is longer than strtoull's.
ASSUME ArgumentsAssumption ==
  /\ Lines \subseteq Seq(Seq(STRING))
  /\ {IntLimit, LongLimit} \subseteq Nat
  /\ \E half \in 1..IntLimit, times \in 1..LongLimit : IntLimit = 2 * half /\ LongLimit = times * IntLimit

VARIABLES
  reader, call, wrapped,
  data, last_byte_unset_bits, bit_reader, answer,
  contents, buffer, stray, writers_wrapped, same,
  table, held, raw, poll_fds, again, opened, careless,
  buffers, drawn, handed, repeated, device, upset,
  current_log_level, loggers, logged,
  args, positional, named, result, given

Reading == INSTANCE Readers
Bits == INSTANCE BitIO WITH reader <- bit_reader
Writing == INSTANCE ByteWriters WITH wrapped <- writers_wrapped
Files == INSTANCE Descriptors
Random == INSTANCE RandomBuffer
Log == INSTANCE Logging
Args == INSTANCE Arguments

readerVars == <<reader, call, wrapped>>
bitVars == <<data, last_byte_unset_bits, bit_reader, answer>>
writerVars == <<contents, buffer, stray, writers_wrapped, same>>
fdVars == <<table, held, raw, poll_fds, again, opened, careless>>
randomVars == <<buffers, drawn, handed, repeated, device, upset>>
logVars == <<current_log_level, loggers, logged>>
argVars == <<args, positional, named, result, given>>

-----------------------------------------------------------------------------
(* A reader never reads outside the data, unless an offset and a size have been added past SIZE_MAX;    *)
(* a call that moves it moves it past exactly what it handed out, and what it says is left is what it *)
(* can still hand out.                                                                                *)
ReadersAreExact == []Reading!Bounds /\ Reading!Consumes /\ Reading!Remaining

(* BufferWriter never writes outside its buffer, unless an offset and a size wrap; it and StringWriter *)
(* hold the same bytes when they were given the same calls.                                           *)
WritersAreExact == Writing!NoStrayWrite /\ Writing!WritersAgree

(* A bit writer with its readers is a sequence of bits; a read answers with the next ones.            *)
BitsAreASequence == Bits!ImplementsBits

(* In a careful program each scoped_fd means the file it was opened on, and no two the same; Poll's   *)
(* entries are in order, watch the files that were added, and are one for each descriptor that was    *)
(* not added again meanwhile; every open descriptor is held or known.                                 *)
DescriptorsAreOwned == Files!OwnsItsFile /\ Files!WatchesWhatWasAdded /\ Files!NothingLost

(* A byte of the random device is handed out once, unless a fork or a failure kept it in a buffer,    *)
(* and none is left out.                                                                              *)
EachByteCounts == Random!EachByteOnce /\ Random!NoByteDropped

(* A logger prints at the level that it inherits.                                                     *)
FollowsItsParents == Log!FollowsItsParents

(* When assert_none_unused says nothing, every argument was asked for, and an integer that is         *)
(* returned is the one that the text spells.                                                          *)
ArgumentsAreUsed == Args!NothingUnnoticed /\ Args!IntegersAsSpelled
=============================================================================
