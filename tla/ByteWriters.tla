----------------------------- MODULE ByteWriters -----------------------------
(***************************************************************************)
(* StringWriter and BufferWriter (Strings.hh): the growing string, and the *)
(* caller's buffer of BufSize bytes.  Two writers of one kind each are     *)
(* driven by a program that makes the same put and pput calls on both.  A  *)
(* size_t is a number modulo SizeLimit.                                    *)
(***************************************************************************)
EXTENDS Integers, Sequences

CONSTANTS
  Words,                  \* what is put: the bytes of an integer
  BufSize, SizeLimit,
  MaxContents             \* bound: the string's length

VARIABLES
  contents,               \* StringWriter's bytes
  buffer,                 \* BufferWriter: [cells, offset]; a cell no call has written is 0
  stray,                  \* some call has written outside the string or the buffer
  wrapped,                \* some offset and size added up past SizeLimit
  same                    \* only put, and pput that ends inside the string and the buffer, so far

writerVars == <<contents, buffer, stray, wrapped, same>>

WritersInit ==
  /\ contents = <<>>
  /\ buffer = [cells |-> [i \in 1..BufSize |-> 0], offset |-> 0]
  /\ stray = FALSE
  /\ wrapped = FALSE
  /\ same = TRUE

Plus(a, b) == (a + b) % SizeLimit

\* std::string::resize
resize(s, n, v) == [i \in 1..n |-> IF i <= Len(s) THEN s[i] ELSE v]

\* memcpy of word to offset: what of it lands in s
memcpy(s, offset, word) ==
  [i \in DOMAIN s |-> IF i - offset \in DOMAIN word THEN word[i - offset] ELSE s[i]]

Lands(s, offset, word) == offset + Len(word) <= Len(s)
-----------------------------------------------------------------------------
\* --- StringWriter: write and put append, pput fills the gap before it with zeroes ---

Put(word) == contents \o word

Pput(offset, word) ==
  LET end == Plus(offset, Len(word))
      room == IF end > Len(contents) THEN resize(contents, end, 0) ELSE contents
  IN  [bytes |-> memcpy(room, offset, word), stray |-> ~Lands(room, offset, word)]

extend_to(n, v) ==
  /\ contents' = resize(contents, n, v)
  /\ same' = FALSE
  /\ UNCHANGED <<buffer, stray, wrapped>>

extend_by(n, v) ==
  /\ Len(contents) + n <= MaxContents
  /\ contents' = resize(contents, Len(contents) + n, v)
  /\ same' = FALSE
  /\ UNCHANGED <<buffer, stray, wrapped>>

reset == contents' = <<>> /\ same' = FALSE /\ UNCHANGED <<buffer, stray, wrapped>>

\* --- BufferWriter: an exception leaves it alone ------------------------------

\* Mutant: only the start of the write is checked.
RefusedStart(offset, word) == offset > BufSize

Refused(offset, word) == Plus(offset, Len(word)) > BufSize

pwrite(offset, word) ==
  IF Refused(offset, word) THEN buffer ELSE [buffer EXCEPT !.cells = memcpy(@, offset, word)]

Write(word) ==
  IF Refused(buffer.offset, word) THEN buffer
  ELSE [pwrite(buffer.offset, word) EXCEPT !.offset = Plus(@, Len(word))]

StrayWrite(offset, word) == ~Refused(offset, word) /\ ~Lands(buffer.cells, offset, word)

\* --- the same call on both ---------------------------------------------------

put(word) ==
  /\ Len(contents) + Len(word) <= MaxContents
  /\ contents' = Put(word)
  /\ buffer' = Write(word)
  /\ stray' = (stray \/ StrayWrite(buffer.offset, word))
  /\ wrapped' = (wrapped \/ buffer.offset + Len(word) >= SizeLimit)
  /\ same' = (same /\ ~Refused(buffer.offset, word))

pput(offset, word) ==
  /\ Plus(offset, Len(word)) <= MaxContents
  /\ contents' = Pput(offset, word).bytes
  /\ buffer' = pwrite(offset, word)
  /\ stray' = (stray \/ StrayWrite(offset, word) \/ Pput(offset, word).stray)
  /\ wrapped' = (wrapped \/ offset + Len(word) >= SizeLimit)
  /\ same' = (same /\ offset + Len(word) <= Len(contents))
-----------------------------------------------------------------------------
\* Nothing is promised once a sum has wrapped, so the model stops there.
WritersNext ==
  /\ ~wrapped
  /\ \/ \E word \in Words : put(word) \/ (\E offset \in 0..(SizeLimit - 1) : pput(offset, word))
     \/ \E n \in 0..MaxContents, v \in {0, 9} : extend_to(n, v) \/ extend_by(n, v)
     \/ reset

WritersSpec == WritersInit /\ [][WritersNext]_writerVars
-----------------------------------------------------------------------------
(* No put, pput or extension writes outside the string or the buffer, unless an offset and a size   *)
(* add up past the largest size_t: then both bounds checks pass and memcpy runs wild.               *)
NoStrayWrite == stray => wrapped

(* While no pput has reached past the end, the two writers hold the same bytes: the string, and the *)
(* buffer up to its offset.  (A pput past the end moves the string's end, but not the offset.)      *)
WritersAgree == same => contents = SubSeq(buffer.cells, 1, buffer.offset)
=============================================================================
