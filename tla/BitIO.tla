-------------------------------- MODULE BitIO --------------------------------
(***************************************************************************)
(* BitWriter and BitReader (Strings.hh, Strings.cc).  A byte is the        *)
(* function from its places, the least significant one being 0, to their   *)
(* bits.  The reader refers to the writer's bytes, so that the program     *)
(* writes again only when it is done with the reader.                      *)
(***************************************************************************)
EXTENDS Integers, Sequences

CONSTANTS
  ByteBits,               \* the bits of a byte, 8 in the code
  MaxBits,                \* bound: the bits written
  Widths                  \* the sizes of the reads

VARIABLES
  data,                   \* the writer's bytes, each [0..(ByteBits - 1) -> 0..1]
  last_byte_unset_bits,
  reader,                 \* [open, length, offset]
  answer                  \* the last read: [val, inside]: its number, and whether it ended inside the data

bitVars == <<data, last_byte_unset_bits, reader, answer>>

BitInit ==
  /\ data = <<>>
  /\ last_byte_unset_bits = 0
  /\ reader = [open |-> FALSE, length |-> 0, offset |-> 0]
  /\ answer = [val |-> 0, inside |-> TRUE]

\* --- BitWriter ------------------------------------------------------------

bit_size == Len(data) * ByteBits - last_byte_unset_bits

Writing == ~reader.open /\ UNCHANGED <<reader, answer>>

write(v) ==
  /\ Writing
  /\ bit_size < MaxBits
  /\ IF last_byte_unset_bits > 0
     THEN /\ data' = [data EXCEPT ![Len(data)] =
                        IF v = 1 THEN [@ EXCEPT ![last_byte_unset_bits - 1] = 1] ELSE @]
          /\ last_byte_unset_bits' = last_byte_unset_bits - 1
     ELSE /\ data' = Append(data, [z \in 0..(ByteBits - 1) |-> IF z = ByteBits - 1 THEN v ELSE 0])
          /\ last_byte_unset_bits' = ByteBits - 1

\* Mutant: the bits that are cut off stay in the last byte.
TruncateKeepsBits(size) ==
  /\ Writing
  /\ size <= bit_size
  /\ last_byte_unset_bits' = (ByteBits - (size % ByteBits)) % ByteBits
  /\ data' = SubSeq(data, 1, (size + ByteBits - 1) \div ByteBits)

\* Clears the bits of the last byte that are not used any more.
truncate(size) ==
  /\ Writing
  /\ size <= bit_size
  /\ LET unset == (ByteBits - (size % ByteBits)) % ByteBits
         kept == SubSeq(data, 1, (size + ByteBits - 1) \div ByteBits)
     IN  /\ last_byte_unset_bits' = unset
         /\ data' = IF unset > 0
                    THEN [kept EXCEPT ![Len(kept)] = [z \in DOMAIN @ |-> IF z < unset THEN 0 ELSE @[z]]]
                    ELSE kept

reset == Writing /\ data' = <<>> /\ last_byte_unset_bits' = 0

\* --- BitReader ------------------------------------------------------------

Reading == reader.open /\ UNCHANGED <<data, last_byte_unset_bits>>

\* The reader's bits are whole bytes: those the writer has not set are among them.
open ==
  /\ ~reader.open
  /\ reader' = [open |-> TRUE, length |-> Len(data) * ByteBits, offset |-> 0]
  /\ UNCHANGED <<data, last_byte_unset_bits, answer>>

close == Reading /\ reader' = [open |-> FALSE, length |-> 0, offset |-> 0] /\ UNCHANGED answer

reader_truncate(size) ==
  Reading /\ size <= reader.length /\ reader' = [reader EXCEPT !.length = size] /\ UNCHANGED answer

go(offset) == Reading /\ reader' = [reader EXCEPT !.offset = offset] /\ UNCHANGED answer

skip(n) ==
  /\ Reading
  /\ reader.offset + n <= MaxBits
  /\ reader' = [reader EXCEPT !.offset = @ + n]
  /\ UNCHANGED answer

\* Bit i of the bytes, the most significant one of the first byte being bit 0.
BitOf(bytes, i) == bytes[i \div ByteBits + 1][ByteBits - 1 - (i % ByteBits)]

\* No length is checked, so that a bit behind the bytes may be anything.
BitAt(i) == IF i \div ByteBits < Len(data) THEN {BitOf(data, i)} ELSE {0, 1}

pread(at, size) ==
  LET vals[n \in 0..size] ==
        IF n = 0 THEN {0} ELSE {2 * v + b : v \in vals[n - 1], b \in BitAt(at + n - 1)}
  IN  vals[size]

read(size, advance) ==
  /\ Reading
  /\ reader.offset + size <= MaxBits + 1
  /\ \E val \in pread(reader.offset, size) :
       answer' = [val |-> val, inside |-> reader.offset + size <= Len(data) * ByteBits]
  /\ reader' = IF advance THEN [reader EXCEPT !.offset = @ + size] ELSE reader
-----------------------------------------------------------------------------
BitNext ==
  \/ \E v \in 0..1 : write(v)
  \/ \E n \in 0..MaxBits : truncate(n) \/ reader_truncate(n) \/ go(n)
  \/ reset \/ open \/ close
  \/ \E n \in Widths : skip(n) \/ (\E advance \in BOOLEAN : read(n, advance))

BitSpec == BitInit /\ [][BitNext]_bitVars

BitsOf(bytes) == [i \in 1..(Len(bytes) * ByteBits) |-> BitOf(bytes, i - 1)]

Abstract == INSTANCE BitSequence WITH bits <- SubSeq(BitsOf(data), 1, bit_size)

(* The writer and the reader implement the sequence of bits, call by call: a read answers with the  *)
(* bits at the reader's place, as many as were asked for, and moves it past them when it should;    *)
(* behind the written bits a reader sees zeroes up to the end of the byte, whatever was written     *)
(* there and cut off before.                                                                        *)
CallsMatch ==
  /\ \A v \in 0..1 : write(v) => Abstract!Write(v)
  /\ \A n \in 0..MaxBits :
       /\ truncate(n) => Abstract!Truncate(n)
       /\ reader_truncate(n) => Abstract!Limit(n)
       /\ go(n) => Abstract!Go(n)
  /\ reset => Abstract!Truncate(0)
  /\ open => Abstract!Open
  /\ close => Abstract!Close
  /\ \A n \in Widths :
       /\ skip(n) => Abstract!Skip(n)
       /\ \A advance \in BOOLEAN : read(n, advance) => Abstract!Read(n, advance)

ImplementsBits == Abstract!Init /\ [][CallsMatch]_bitVars
=============================================================================
