------------------------------- MODULE Readers -------------------------------
(***************************************************************************)
(* StringReader (Strings.hh, Strings.cc): a window of the data and an      *)
(* offset into it.  A size_t is a number modulo SizeLimit.  What a call    *)
(* reads past the data is Outside; wrapped says that an offset and a size  *)
(* have been added past SizeLimit since the reader was made.               *)
(***************************************************************************)
EXTENDS Integers, Sequences, FiniteSetsExt

CONSTANTS
  Data,                   \* the bytes; 10 is \n, 13 is \r
  SizeLimit,              \* one more than the largest size_t
  Sizes,                  \* the arguments of the calls
  Outside

VARIABLES
  reader,                 \* [base, length, offset]: base is where data points
  call,                   \* the last call: [op, at, size, ok, val]
  wrapped

readerVars == <<reader, call, wrapped>>

StringReader(base, length) == [base |-> base % SizeLimit, length |-> length % SizeLimit, offset |-> 0]

ReaderInit ==
  /\ reader = StringReader(0, Len(Data))
  /\ call = [op |-> "none", at |-> 0, size |-> 0, ok |-> TRUE, val |-> <<>>]
  /\ wrapped = FALSE

Plus(a, b) == (a + b) % SizeLimit

remaining == (reader.length - reader.offset) % SizeLimit
eof == reader.offset >= reader.length

\* size bytes of the reader, from offset at.
Window(at, size) ==
  [i \in 1..size |-> LET p == reader.base + at + i IN IF p <= Len(Data) THEN Data[p] ELSE Outside]

\* The end of a call.  Throwing leaves the reader alone, unless the call says otherwise.
Return(op, at, size, val, next) ==
  /\ call' = [op |-> op, at |-> at, size |-> size, ok |-> TRUE, val |-> val]
  /\ reader' = next
  /\ wrapped' = (wrapped \/ at + size >= SizeLimit)

Throw(op, at, size, next) ==
  /\ call' = [op |-> op, at |-> at, size |-> size, ok |-> FALSE, val |-> <<>>]
  /\ reader' = next
  /\ wrapped' = (wrapped \/ at + size >= SizeLimit)

Moved(n) == [reader EXCEPT !.offset = Plus(@, n)]

\* where the loops of get_line and get_cstr stop: at the byte b, or where at + size reaches the end.
StopAt(at, b, end) == Min({i \in at..end : i = end \/ Window(i, 1)[1] = b})
-----------------------------------------------------------------------------
go(offset) == Return("go", offset, 0, <<>>, [reader EXCEPT !.offset = offset])

truncate(n) ==
  \/ reader.length < n /\ Throw("truncate", 0, n, reader)
  \/ reader.length >= n /\ Return("truncate", 0, n, <<>>, [reader EXCEPT !.length = n])

skip(n) ==
  LET next == Moved(n)
  IN  \/ next.offset > reader.length /\ Throw("skip", reader.offset, n, [reader EXCEPT !.offset = reader.length])
      \/ next.offset <= reader.length /\ Return("skip", reader.offset, n, <<>>, next)

\* peek is what throws when remaining() has wrapped.
skip_if(bytes) ==
  LET n == Len(bytes)
      fits == Plus(reader.offset, n) <= reader.length
      same == Window(reader.offset, n) = bytes
  IN  \/ remaining < n /\ Return("skip_if", reader.offset, n, <<>>, reader)
      \/ remaining >= n /\ ~fits /\ Throw("skip_if", reader.offset, n, reader)
      \/ remaining >= n /\ fits /\ Return("skip_if", reader.offset, n, Window(reader.offset, n), IF same THEN Moved(n) ELSE reader)

\* read and pread: as many bytes as there are.
pread(at, n) ==
  IF at >= reader.length THEN <<>>
  ELSE Window(at, IF Plus(at, n) > reader.length THEN reader.length - at ELSE n)

\* Mutant: the reader moves by what was asked for.
ReadMovesAll(n, advance) ==
  Return("read", reader.offset, n, pread(reader.offset, n), IF advance THEN Moved(n) ELSE reader)

read(n, advance) ==
  LET bytes == pread(reader.offset, n)
  IN  Return("read", reader.offset, n, bytes, IF advance THEN Moved(Len(bytes)) ELSE reader)

\* readx into a string, and every get: n bytes or an exception.
readx(n, advance) ==
  LET at == reader.offset
  IN  \/ Plus(at, n) > reader.length /\ Throw("readx", at, n, reader)
      \/ Plus(at, n) <= reader.length /\ Return("readx", at, n, Window(at, n), IF advance THEN Moved(n) ELSE reader)

\* readx into a buffer also refuses an offset at the end.
readx_buffer(n, advance) ==
  LET at == reader.offset
      refused == eof \/ Plus(at, n) > reader.length
  IN  \/ refused /\ Throw("readx_buffer", at, n, reader)
      \/ ~refused /\ Return("readx_buffer", at, n, Window(at, n), IF advance THEN Moved(n) ELSE reader)

\* get_u8 to get_u64, get_u24 and get_u48: pgetv, or the same test by hand.
get(n, advance) ==
  LET at == reader.offset
  IN  \/ Plus(at, n) > reader.length /\ Throw("get", at, n, reader)
      \/ Plus(at, n) <= reader.length /\ Return("get", at, n, Window(at, n), IF advance THEN Moved(n) ELSE reader)

get_line(advance) ==
  LET at == reader.offset
      size == StopAt(at, 10, reader.length) - at
      text == Window(at, size)
      line == IF size > 0 /\ text[size] = 13 THEN SubSeq(text, 1, size - 1) ELSE text
  IN  \/ eof /\ Throw("get_line", at, 0, reader)
      \/ ~eof /\ Return("get_line", at, size, line, IF advance THEN Moved(size + 1) ELSE reader)

\* The byte after the last one throws: pget_s8 checks every offset.
get_cstr(advance) ==
  LET at == reader.offset
      stop == IF eof THEN at ELSE StopAt(at, 0, reader.length)
  IN  \/ stop >= reader.length /\ Throw("get_cstr", at, 0, reader)
      \/ stop < reader.length /\ Return("get_cstr", at, stop - at, Window(at, stop - at),
                                        IF advance THEN Moved(stop - at + 1) ELSE reader)

\* The program goes on with the sub-reader.
Sub(op, at, size) == Return(op, at, size, <<>>, StringReader(reader.base + at, size))
Empty(op, at, size) == Return(op, at, size, <<>>, StringReader(0, 0))

sub(at) ==
  \/ at > reader.length /\ Empty("sub", at, 0)
  \/ at <= reader.length /\ Sub("sub", at, reader.length - at)

sub_sized(at, size) ==
  \/ at >= reader.length /\ Empty("sub", at, 0)
  \/ at < reader.length /\ Plus(at, size) > reader.length /\ Sub("sub", at, reader.length - at)
  \/ at < reader.length /\ Plus(at, size) <= reader.length /\ Sub("sub", at, size)

subx(at) ==
  \/ at > reader.length /\ Throw("subx", at, 0, reader)
  \/ at <= reader.length /\ Sub("subx", at, reader.length - at)

subx_sized(at, size) ==
  \/ Plus(at, size) > reader.length /\ Throw("subx", at, size, reader)
  \/ Plus(at, size) <= reader.length /\ Sub("subx", at, size)

\* A BitReader over the bytes that sub or subx would take; the reader stays.
sub_bits(at) ==
  LET size == IF at > reader.length THEN 0 ELSE reader.length - at
  IN  Return("sub_bits", at, size, Window(at, size), reader)

sub_bits_sized(at, size) ==
  LET n == IF at >= reader.length THEN 0 ELSE IF Plus(at, size) > reader.length THEN reader.length - at ELSE size
  IN  Return("sub_bits", at, size, Window(at, n), reader)

subx_bits(at) ==
  \/ at > reader.length /\ Throw("subx_bits", at, 0, reader)
  \/ at <= reader.length /\ Return("subx_bits", at, reader.length - at, Window(at, reader.length - at), reader)

subx_bits_sized(at, size) ==
  \/ Plus(at, size) > reader.length /\ Throw("subx_bits", at, size, reader)
  \/ Plus(at, size) <= reader.length /\ Return("subx_bits", at, size, Window(at, size), reader)
-----------------------------------------------------------------------------
\* Nothing is promised once a sum has wrapped, so the model stops there.
ReaderNext ==
  /\ ~wrapped
  /\ \/ \E n \in Sizes : go(n) \/ truncate(n) \/ skip(n) \/ sub(n) \/ subx(n) \/ sub_bits(n) \/ subx_bits(n)
     \/ \E n \in Sizes : n > 0 /\ n <= Len(Data) /\ skip_if(SubSeq(Data, 1, n))
     \/ \E n \in Sizes, advance \in BOOLEAN :
          read(n, advance) \/ readx(n, advance) \/ readx_buffer(n, advance) \/ get(n, advance)
     \/ \E advance \in BOOLEAN : get_line(advance) \/ get_cstr(advance)
     \/ \E at, size \in Sizes :
          sub_sized(at, size) \/ subx_sized(at, size) \/ sub_bits_sized(at, size) \/ subx_bits_sized(at, size)

ReaderSpec == ReaderInit /\ [][ReaderNext]_readerVars
-----------------------------------------------------------------------------
(* Until a sum of an offset and a size wraps, no call touches a byte outside the data, whatever the *)
(* sequence of go, truncate, sub and reads was (pgetv, pread, peek, get_line and the sub-readers).  *)
Bounds == ~wrapped => \A i \in DOMAIN call.val : call.val[i] # Outside

(* A call that hands out bytes and moves on leaves the reader right behind them: behind the newline *)
(* or the zero for get_line and get_cstr, so that get_line alone may leave it past the end.         *)
MovesPastThem ==
  LET step == (reader'.offset - reader.offset) % SizeLimit
  IN  call'.ok /\ reader' # reader /\ call'.op \in {"read", "readx", "readx_buffer", "get", "get_line", "get_cstr"} =>
        /\ step = (IF call'.op \in {"get_line", "get_cstr"} THEN call'.size + 1 ELSE Len(call'.val))
        /\ ~wrapped' => reader'.offset <= reader.length + (IF call'.op = "get_line" THEN 1 ELSE 0)
Consumes == [][MovesPastThem]_readerVars

(* remaining() is the number of bytes left, unless go, truncate or a last line without a newline    *)
(* has left the offset past the end; then it is huge, and skip_if throws instead of answering.      *)
ThrowsPastTheEnd == ~wrapped' /\ call'.op = "skip_if" /\ ~call'.ok => reader.offset > reader.length
Remaining == [][ThrowsPastTheEnd]_readerVars
=============================================================================
