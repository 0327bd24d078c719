----------------------------- MODULE BitSequence -----------------------------
(***************************************************************************)
(* What BitWriter and BitReader promise together: the bits are a sequence  *)
(* that grows at its end and is cut back; a reader is a place in it, and a *)
(* read answers with the number that the next bits from there spell, most  *)
(* significant first, zeroes filling the last byte.                        *)
(***************************************************************************)
EXTENDS Integers, Sequences

CONSTANT ByteBits

VARIABLES
  bits,                   \* the bits written, as 0 and 1
  reader,                 \* [open, length, offset]
  answer                  \* the last read: [val, inside]

Number(b) ==
  LET n[k \in 0..Len(b)] == IF k = 0 THEN 0 ELSE 2 * n[k - 1] + b[k]
  IN  n[Len(b)]

\* So many zeroes fill the last byte; there is one such number.
Fills(zeroes) == (Len(bits) + zeroes) % ByteBits = 0

Shut == [open |-> FALSE, length |-> 0, offset |-> 0]

Init == bits = <<>> /\ reader = Shut /\ answer = [val |-> 0, inside |-> TRUE]

Writing == ~reader.open /\ UNCHANGED <<reader, answer>>

Write(v) == Writing /\ bits' = Append(bits, v)
Truncate(n) == Writing /\ n <= Len(bits) /\ bits' = SubSeq(bits, 1, n)

Reading == reader.open /\ UNCHANGED <<bits, answer>>

Open ==
  /\ ~reader.open /\ UNCHANGED <<bits, answer>>
  /\ \E zeroes \in 0..(ByteBits - 1) :
       Fills(zeroes) /\ reader' = [open |-> TRUE, length |-> Len(bits) + zeroes, offset |-> 0]

Close == Reading /\ reader' = Shut
Limit(n) == Reading /\ n <= reader.length /\ reader' = [reader EXCEPT !.length = n]
Go(n) == Reading /\ reader' = [reader EXCEPT !.offset = n]
Skip(n) == Reading /\ reader' = [reader EXCEPT !.offset = @ + n]

\* Nothing is promised of a read that does not end inside the last byte; the reader's length ends none.
Read(n, advance) ==
  /\ reader.open /\ UNCHANGED bits
  /\ reader' = IF advance THEN [reader EXCEPT !.offset = @ + n] ELSE reader
  /\ \E zeroes \in 0..(ByteBits - 1) :
       LET all == bits \o [i \in 1..zeroes |-> 0]
       IN  /\ Fills(zeroes)
           /\ answer'.inside = (reader.offset + n <= Len(all))
           /\ answer'.inside => answer'.val = Number(SubSeq(all, reader.offset + 1, reader.offset + n))
=============================================================================
