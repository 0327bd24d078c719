------------------------------- MODULE Strings --------------------------------
(*************************************************************************)
(* The text functions of Strings.cc and Strings.hh: splitting, joining,  *)
(* stripping and escaping; data strings; hex dumps; and what they        *)
(* promise. Offsets are one more than the code's.                        *)
(*************************************************************************)
EXTENDS LibraryInput

\* --- splitting and joining ------------------------------------------------

split(s, delim, max_splits) ==
  LET RECURSIVE From(_, _)
      From(start, n) ==
        LET hits == {i \in start..Len(s) : s[i] = delim}
        IN  IF hits = {} \/ (max_splits # 0 /\ n = max_splits)
            THEN <<SubSeq(s, start, Len(s))>>
            ELSE <<SubSeq(s, start, Min(hits) - 1)>> \o From(Min(hits) + 1, n + 1)
  IN  From(1, 0)

\* join tests the result so far, not the position: an empty item at the front
\* is joined without a delimiter.
join(items, delim) ==
  FoldLeft(LAMBDA ret, item : (IF ret = <<>> THEN ret ELSE ret \o delim) \o item, <<>>, items)

Closer ==
  ("(" :> ")") @@ ("[" :> "]") @@ ("{" :> "}") @@ ("<" :> ">") @@ ("'" :> "'") @@ ("\"" :> "\"")

Quotes == {"'", "\""}

\* Mutant: the delimiter counts inside brackets.
CutsInside(st, ch, delim, max_splits) == ch = delim /\ (max_splits = 0 \/ Len(st.ret) < max_splits)

\* split_context cuts here: no bracket is open, and the limit allows it.
Cuts(st, ch, delim, max_splits) ==
  st.stack = <<>> /\ ch = delim /\ (max_splits = 0 \/ Len(st.ret) < max_splits)

\* One turn of split_context's loop.  A character is escaped only in a quoted
\* string, where neither brackets nor delimiters count.
SplitContextStep(st, z, s, delim, max_splits) ==
  LET top == IF st.stack = <<>> THEN "" ELSE Last(st.stack)
  IN  IF ~st.escaped /\ s[z] = top THEN [st EXCEPT !.stack = Front(@)]
      ELSE IF top \in Quotes THEN [st EXCEPT !.escaped = ~@ /\ s[z] = "\\"]
      ELSE IF s[z] \in DOMAIN Closer THEN [st EXCEPT !.stack = Append(@, Closer[s[z]])]
      ELSE IF Cuts(st, s[z], delim, max_splits)
      THEN [st EXCEPT !.ret = Append(@, SubSeq(s, st.last_start, z - 1)), !.last_start = z + 1]
      ELSE st

split_context(s, delim, max_splits) ==
  LET end == FoldLeftDomain(LAMBDA st, z : SplitContextStep(st, z, s, delim, max_splits),
                            [ret |-> <<>>, stack |-> <<>>, escaped |-> FALSE, last_start |-> 1], s)
  IN  IF end.stack # <<>> THEN Thrown
      ELSE Returns(Append(end.ret, SubSeq(s, end.last_start, Len(s))))

\* split_args writes a character to the current argument, or ends it.
WriteArg(st, ch, can_be_space) ==
  IF can_be_space /\ ch \in {" ", "\t"} THEN [st EXCEPT !.in_space = TRUE]
  ELSE IF st.in_space THEN [st EXCEPT !.in_space = FALSE, !.ret = Append(@, <<ch>>)]
  ELSE [st EXCEPT !.ret[Len(st.ret)] = Append(@, ch)]

SplitArgsStep(st, ch) ==
  IF st.escaped THEN WriteArg([st EXCEPT !.escaped = FALSE], ch, FALSE)
  ELSE IF ch = st.quote THEN [st EXCEPT !.quote = ""]
  ELSE IF ch = "\\" THEN [st EXCEPT !.escaped = TRUE]
  ELSE IF ch \in Quotes /\ st.quote = "" THEN [st EXCEPT !.quote = ch]
  ELSE WriteArg(st, ch, st.quote = "")

\* A backslash or a quote left open is an error.
split_args(s) ==
  LET end == FoldLeft(SplitArgsStep, [ret |-> <<>>, quote |-> "", escaped |-> FALSE, in_space |-> TRUE], s)
  IN  IF end.escaped \/ end.quote # "" THEN Thrown ELSE Returns(end.ret)

str_replace_all(s, target, replacement) ==
  LET RECURSIVE From(_)
      From(at) ==
        LET hits == {i \in at..(Len(s) - Len(target) + 1) : SubSeq(s, i, i + Len(target) - 1) = target}
        IN  IF hits = {} THEN SubSeq(s, at, Len(s))
            ELSE SubSeq(s, at, Min(hits) - 1) \o replacement \o From(Min(hits) + Len(target))
  IN  From(1)

\* --- stripping ------------------------------------------------------------

Whitespace == {" ", "\t", "\r", "\n"}

\* find_first_not_of / find_last_not_of, 0 for npos.
FirstNotOf(s, S) == LET I == {i \in DOMAIN s : s[i] \notin S} IN IF I = {} THEN 0 ELSE Min(I)
LastNotOf(s, S) == LET I == {i \in DOMAIN s : s[i] \notin S} IN IF I = {} THEN 0 ELSE Max(I)

\* When nothing remains the code looks at the first character only.
StripRest(s, S) == IF s # <<>> /\ s[1] \in S THEN <<>> ELSE s

StripTrailing(s, S) == LET last == LastNotOf(s, S) IN IF last # 0 THEN SubSeq(s, 1, last) ELSE StripRest(s, S)

strip_trailing_zeroes(s) == StripTrailing(s, {"NUL"})
strip_trailing_whitespace(s) == StripTrailing(s, Whitespace)
strip_leading_whitespace(s) ==
  LET first == FirstNotOf(s, Whitespace)
  IN  IF first # 0 THEN SubSeq(s, first, Len(s)) ELSE StripRest(s, Whitespace)
strip_whitespace(s) ==
  LET first == FirstNotOf(s, Whitespace)
      last == LastNotOf(s, Whitespace)
  IN  IF first # 0 /\ last # 0 THEN SubSeq(s, first, last) ELSE StripRest(s, Whitespace)

skip_whitespace(s, at) == Min({i \in at..Len(s) : s[i] \notin Whitespace} \cup {Max({at, Len(s) + 1})})
skip_non_whitespace(s, at) == Min({i \in at..Len(s) : s[i] \in Whitespace} \cup {Max({at, Len(s) + 1})})
skip_word(s, at) == skip_whitespace(s, skip_non_whitespace(s, at))

\* The introducers of a comment that ends with its line, by flag.
InlineIntro == [CC |-> <<"/", "/">>, SQL |-> <<"-", "-">>, PY |-> <<"#">>, ASM |-> <<";">>]

StripKeep(st, ch) == [st EXCEPT !.out = Append(@, ch)]

\* Every introducer moves the read offset by two, so that the character after
\* a "#" or a ";" is dropped unseen, even when it ends the line.
CommentStart(st, z, s, flags) ==
  LET At(intro) == IsPrefix(intro, SubSeq(s, z, z + 1))
  IN  IF "C" \in flags /\ At(<<"/", "*">>) THEN [st EXCEPT !.phase = "C", !.skip = TRUE]
      ELSE IF \E f \in flags \cap DOMAIN InlineIntro : At(InlineIntro[f])
      THEN [st EXCEPT !.phase = "INLINE", !.skip = TRUE]
      ELSE IF "QUOTES" \in flags /\ s[z] \in Quotes THEN StripKeep([st EXCEPT !.phase = s[z]], s[z])
      ELSE StripKeep(st, s[z])

StripCommentsStep(st, z, s, flags) ==
  IF st.skip THEN [st EXCEPT !.skip = FALSE]
  ELSE CASE st.phase = "TEXT" -> CommentStart(st, z, s, flags)
         [] st.phase = "C" ->
              IF SubSeq(s, z, z + 1) = <<"*", "/">> THEN [st EXCEPT !.phase = "TEXT", !.skip = TRUE]
              ELSE IF s[z] = "\n" THEN StripKeep(st, s[z]) ELSE st
         [] st.phase = "INLINE" ->
              IF s[z] = "\n" THEN StripKeep([st EXCEPT !.phase = "TEXT"], s[z]) ELSE st
         [] st.phase \in Quotes ->
              StripKeep([st EXCEPT !.escaped = ~@ /\ s[z] = "\\",
                                   !.phase = IF s[z] = @ /\ ~st.escaped THEN "TEXT" ELSE @], s[z])

\* strip_comments_inplace; SubSeq past the end of s is cut off at its end here.
strip_comments_inplace(s, flags) ==
  FoldLeftDomain(LAMBDA st, z : StripCommentsStep(st, z, s \o <<"">>, flags),
                 [out |-> <<>>, phase |-> "TEXT", skip |-> FALSE, escaped |-> FALSE], s).out

\* --- escaping -------------------------------------------------------------

\* Characters are signed: a byte above 0x7F is less than 0x20.
Unprinted(ch) == Ord[ch] < 32 \/ Ord[ch] > 126

escape_quotes(s) ==
  FlattenSeq([i \in DOMAIN s |->
    IF s[i] = "\"" THEN <<"\\", "\"">>
    ELSE IF Unprinted(s[i]) THEN <<"\\", "x">> \o Hex2(Ord[s[i]]) ELSE <<s[i]>>])

ControlEscape ==
  ("\t" :> "t") @@ ("\r" :> "r") @@ ("\n" :> "n") @@ ("\f" :> "f")
    @@ [BSP |-> "b", BEL |-> "a", VT |-> "v"] @@ [c \in Quotes \cup {"\\"} |-> c]

escape_controls(s, escape_non_ascii) ==
  FlattenSeq([i \in DOMAIN s |->
    IF s[i] \in DOMAIN ControlEscape THEN <<"\\", ControlEscape[s[i]]>>
    ELSE IF IF escape_non_ascii THEN Unprinted(s[i]) ELSE Ord[s[i]] < 32 \/ Ord[s[i]] = 127
    THEN <<"\\", "x">> \o Hex2(Ord[s[i]]) ELSE <<s[i]>>])

\* The character is formatted as a char (see LibraryInput).  isalnum is not
\* defined for a negative char; the C locale's table says no.
escape_url(s, escape_slash, signed) ==
  FlattenSeq([i \in DOMAIN s |->
    IF s[i] \in Alnum \cup {"-", "_", ".", "~", "=", "&"} \/ (~escape_slash /\ s[i] = "/")
    THEN <<s[i]>> ELSE <<"%">> \o FormattedChar(s[i], 2, signed)])

-----------------------------------------------------------------------------
(***************************************************************************)
(* parse_data_string and format_data_string (Strings.cc): bytes written as *)
(* text, with a mask that says which of them matter.  Data are byte        *)
(* values, a mask is a sequence of Booleans.                               *)
(***************************************************************************)

CONSTANT FileData         \* load_file: the bytes of a file, by name

\* value in width bytes, least significant first unless big_endian (the host is little-endian).
RECURSIVE LittleEndian(_, _)
LittleEndian(value, width) ==
  IF width = 0 THEN <<>> ELSE <<value % 256>> \o LittleEndian(value \div 256, width - 1)

Bytes(value, width, big_endian) ==
  IF big_endian THEN Reverse(LittleEndian(value, width)) ELSE LittleEndian(value, width)

\* strtoull(in, &in, 0), without its blanks and signs: the value and where it stops.
strtoull(s, at) ==
  LET base == IF Len(s) >= at + 2 /\ s[at] = "0" /\ s[at + 1] = "x" /\ s[at + 2] \in DOMAIN value_for_hex_char
              THEN 16 ELSE IF at <= Len(s) /\ s[at] = "0" THEN 8 ELSE 10
      start == IF base = 16 THEN at + 2 ELSE at
      IsDigit(c) == c \in DOMAIN value_for_hex_char /\ value_for_hex_char[c] < base
      stop == Min({i \in start..Len(s) : ~IsDigit(s[i])} \cup {Len(s) + 1})
  IN  [val |-> FoldLeft(LAMBDA v, c : v * base + value_for_hex_char[c], 0, SubSeq(s, start, stop - 1)), at |-> stop]

\* Appends bytes and their mask bits, and moves the read position by n.
Emit(st, bytes, n) ==
  [st EXCEPT !.data = @ \o bytes, !.mask = @ \o [i \in DOMAIN bytes |-> st.mask_enabled], !.in = @ + n]

Go(st, mode, n) == [st EXCEPT !.mode = mode, !.in = @ + n]

\* The character a backslash stands for.
Unescaped(ch) == IF ch \in {"n", "r", "t"} THEN [n |-> "\n", r |-> "\r", t |-> "\t"][ch] ELSE ch

\* Between quotes: one byte per character, two between single quotes.
StringStep(st, s) ==
  LET ch == s[st.in]
      wide == st.mode = "unicode_string"
      Char(c, n) == Emit(st, IF wide THEN Bytes(IF Ord[c] > 127 THEN Ord[c] + 65280 ELSE Ord[c], 2, st.big_endian)
                             ELSE <<Ord[c]>>, n)
  IN  IF ch = (IF wide THEN "'" ELSE "\"") THEN Go(st, "hex", 1)
      ELSE IF ch # "\\" THEN Char(ch, 1)
      ELSE IF st.in = Len(s) THEN [st EXCEPT !.in = Len(s) + 1]
      ELSE Char(Unescaped(s[st.in + 1]), 2)

\* One to four #: a decimal number in 1, 2, 4 or 8 bytes.
NumberStep(st, s) ==
  LET run == Min({i \in st.in..Len(s) : s[i] # "#"} \cup {Len(s) + 1, st.in + 4}) - st.in
      number == strtoull(s, st.in + run)
      width == 2 ^ (run - 1)
  IN  Emit(st, Bytes(number.val, width, st.big_endian), number.at - st.in)

\* The first digit of a byte is its high one; anything between the digits is skipped.
NybbleStep(st, digit) ==
  IF st.high THEN [st EXCEPT !.chr = digit * 16, !.high = FALSE, !.in = @ + 1]
  ELSE [Emit(st, <<st.chr + digit>>, 1) EXCEPT !.chr = 0, !.high = TRUE]

ParseStep(st, s, allow_files) ==
  LET ch == s[st.in]
      pair == SubSeq(s \o <<"NUL">>, st.in, st.in + 1)
  IN  CASE st.mode = "comment" -> Go(st, IF ch = "\n" THEN "hex" ELSE st.mode, 1)
        [] st.mode = "multiline_comment" ->
             IF pair = <<"*", "/">> THEN Go(st, "hex", 2) ELSE Go(st, st.mode, 1)
        [] st.mode \in {"string", "unicode_string"} -> StringStep(st, s)
        [] st.mode = "filename" ->
             IF ch = ">" THEN Go(Emit(st, FileData[st.filename], 0), "hex", 1)
             ELSE [st EXCEPT !.filename = Append(@, ch), !.in = @ + 1]
        [] st.mode = "hex" ->
             CASE ch = "?" -> [st EXCEPT !.mask_enabled = ~@, !.in = @ + 1]
               [] ch = "$" -> [st EXCEPT !.big_endian = ~@, !.in = @ + 1]
               [] ch = "#" -> NumberStep(st, s)
               [] ch \in DOMAIN value_for_hex_char -> NybbleStep(st, value_for_hex_char[ch])
               [] ch = "\"" -> Go(st, "string", 1)
               [] ch = "'" -> Go(st, "unicode_string", 1)
               [] pair = <<"/", "/">> -> Go(st, "comment", 1)
               [] pair = <<"/", "*">> -> Go(st, "multiline_comment", 1)
               [] ch = "<" /\ allow_files -> [Go(st, "filename", 1) EXCEPT !.filename = <<>>]
               [] OTHER -> Go(st, "hex", 1)

\* The floating-point forms (% and %%) are left out.
parse_data_string(s, allow_files) ==
  LET RECURSIVE From(_)
      From(st) == IF st.in > Len(s) THEN st ELSE From(ParseStep(st, s, allow_files))
      end == From([in |-> 1, data |-> <<>>, mask |-> <<>>, mode |-> "hex", chr |-> 0, high |-> TRUE,
                   big_endian |-> FALSE, mask_enabled |-> TRUE, filename |-> <<>>])
  IN  [data |-> end.data, mask |-> end.mask]

\* A byte in a printed string.  A backslash is not escaped.
Quoted(b) == IF b \in {9, 10, 13} THEN <<"\\", CHOOSE c \in {"n", "r", "t"} : Ord[Unescaped(c)] = b>>
             ELSE IF Chr[b] \in {"\"", "'"} THEN <<"\\", Chr[b]>> ELSE <<Chr[b]>>

IsPrintable(data) == \A i \in DOMAIN data : data[i] \in {9, 10, 13} \cup 32..126

format_data_string(data, mask, skip_strings) ==
  LET as_string == ~skip_strings /\ IsPrintable(data)
      Toggled(x) == mask[x] # (IF x = 1 THEN TRUE ELSE mask[x - 1])
      toggle == IF as_string THEN <<"\"", "?", "\"">> ELSE <<"?">>
      body == FlattenSeq([x \in DOMAIN data |-> (IF Toggled(x) THEN toggle ELSE <<>>)
                                                   \o IF as_string THEN Quoted(data[x]) ELSE Hex2(data[x])])
  IN  IF as_string THEN <<"\"">> \o body \o <<"\"">> ELSE body

-----------------------------------------------------------------------------
(***************************************************************************)
(* format_data_custom (Strings.hh) and print_binary_diff (Strings.cc): the *)
(* lines they print, as cells and marks; colours, widths and the ASCII     *)
(* column follow the cells and are left out.                               *)
(***************************************************************************)

CONSTANT LineBytes        \* bytes per line, 0x10 in the code

ASSUME LineBytesAssumption == LineBytes \in Nat \ {0}

\* --- IOVecByteReader ------------------------------------------------------

\* Past the end of a buffer, the reader moves to the next that is not empty.
RECURSIVE NextIov(_, _)
NextIov(iovs, r) ==
  IF r.current_iov <= Len(iovs) /\ r.offset_within_iov >= Len(iovs[r.current_iov])
  THEN NextIov(iovs, [current_iov |-> r.current_iov + 1, offset_within_iov |-> 0]) ELSE r

IovEof(iovs, r) == r.current_iov > Len(iovs)

\* get_u8, again and again until eof.  The first buffer must not be empty.
RECURSIVE IovBytes(_, _)
IovBytes(iovs, r) ==
  IF IovEof(iovs, r) THEN <<>>
  ELSE <<iovs[r.current_iov][r.offset_within_iov + 1]>>
         \o IovBytes(iovs, NextIov(iovs, [r EXCEPT !.offset_within_iov = @ + 1]))

iov_size(iovs) == FoldLeft(LAMBDA n, iov : n + Len(iov), 0, iovs)

\* --- format_data ----------------------------------------------------------

Blank == [show |-> "blank", byte |-> 0, red |-> FALSE]

\* The cell of the byte at offset i: censored, or shown, in red when it changed.
\* Where prev has ended a byte counts as unchanged, where censor has, as shown.
Cell(i, data, prev, censor) ==
  IF i <= Len(censor) /\ censor[i] # 0 THEN [show |-> "censored", byte |-> 0, red |-> FALSE]
  ELSE [show |-> "byte", byte |-> data[i], red |-> i <= Len(prev) /\ prev[i] # data[i]]

\* A line inside the data that holds, and held, only zeroes is not printed.
Collapsed(line, start, end, Offset(_), data, prev, censor) ==
  /\ line > start /\ line + LineBytes < end
  /\ \A a \in line..(line + LineBytes - 1) :
       /\ data[Offset(a)] = 0
       /\ Offset(a) <= Len(prev) => prev[Offset(a)] = 0
       /\ Offset(a) <= Len(censor) => censor[Offset(a)] = 0

\* The printed lines: the address each begins at, and its cells.
format_data(data, start, prev, censor, collapse_zero_lines) ==
  LET end == start + Len(data)
      Offset(a) == a - start + 1
      first == start - (start % LineBytes)
      lines == [k \in 1..((end - first + LineBytes - 1) \div LineBytes) |-> first + (k - 1) * LineBytes]
      Line(line) == [addr |-> line,
                     cells |-> [x \in 1..LineBytes |->
                       IF line + x - 1 \in start..(end - 1) THEN Cell(Offset(line + x - 1), data, prev, censor)
                       ELSE Blank]]
      printed == SelectSeq(lines, LAMBDA line :
                   ~(collapse_zero_lines /\ Collapsed(line, start, end, Offset, data, prev, censor)))
  IN  IF data = <<>> THEN <<>> ELSE [k \in DOMAIN printed |-> Line(printed[k])]

\* --- print_binary_diff ----------------------------------------------------

\* Byte offset z of data, or a value no byte has.
At(data, z) == IF z < Len(data) THEN data[z + 1] ELSE 65535

Differs(data1, data2, line) ==
  \E z \in (line * LineBytes)..((line + 1) * LineBytes - 1) : At(data1, z) # At(data2, z)

\* print_diff_line_pair: one line when equal, else the line of each that reaches it.
DiffLinePair(data1, data2, line) ==
  IF ~Differs(data1, data2, line) THEN <<[mark |-> " ", line |-> line]>>
  ELSE (IF line * LineBytes < Len(data1) THEN <<[mark |-> "-", line |-> line]>> ELSE <<>>)
         \o (IF line * LineBytes < Len(data2) THEN <<[mark |-> "+", line |-> line]>> ELSE <<>>)

Gap == [mark |-> "...", line |-> -1]

DiffStep(st, line, data1, data2, context_lines) ==
  IF ~Differs(data1, data2, line)
  THEN IF line <= st.last_different + context_lines
       THEN [st EXCEPT !.out = @ \o DiffLinePair(data1, data2, line), !.first_unprinted = line + 1] ELSE st
  ELSE LET gap == st.first_unprinted + context_lines < line
           chunk == IF gap THEN line - context_lines ELSE st.first_unprinted
           before == FlattenSeq([k \in 1..(line - chunk) |-> DiffLinePair(data1, data2, chunk + k - 1)])
       IN  [out |-> st.out \o (IF gap THEN <<Gap>> ELSE <<>>) \o before \o DiffLinePair(data1, data2, line),
            first_unprinted |-> line + 1, last_different |-> line, is_identical |-> FALSE]

\* What is printed, and the result: whether the two are equal.
print_binary_diff(data1, data2, context_lines) ==
  LET num_lines == (Max({Len(data1), Len(data2)}) + LineBytes - 1) \div LineBytes
      end == FoldLeft(LAMBDA st, k : DiffStep(st, k - 1, data1, data2, context_lines),
                      [out |-> <<>>, first_unprinted |-> 0, last_different |-> -(context_lines + 1),
                       is_identical |-> TRUE], [k \in 1..num_lines |-> k])
  IN  [out |-> IF end.first_unprinted < num_lines /\ ~end.is_identical THEN Append(end.out, Gap) ELSE end.out,
       is_identical |-> end.is_identical]

-----------------------------------------------------------------------------
(***************************************************************************)
(* What the text functions promise: splitting, quoting, escaping, data     *)
(* strings and dumps.                                                      *)
(***************************************************************************)

TextKinds == {"split", "comments", "args", "escape", "parse", "format", "dump", "diff", "iov"}

\* What can be a file name between < and >: FileData's, and nothing.
FileNames(s) ==
  \A i \in DOMAIN s : s[i] = "<" => \E j \in {i + 1, i + 2} : j <= Len(s) /\ s[j] = ">" /\ (j = i + 2 => s[i + 1] = "a")

TextInput ==
  \/ /\ Picked("split")
     /\ \E s \in Texts({"a", ",", "'", "(", ")", "\\"}, 5), n \in 0..2 : input' = [kind |-> "split", s |-> s, max |-> n]
  \/ /\ Picked("comments")
     /\ \E s \in Texts({"a", "/", "*", "#", "\n", "'"}, 5), flags \in {{"C", "CC", "PY", "QUOTES"}, {"C", "CC", "QUOTES"}} :
          input' = [kind |-> "comments", s |-> s, flags |-> flags]
  \/ /\ Picked("args")
     /\ \E a \in Texts(Texts({"a", " ", "'"}, 2) \ {<<>>}, 3) : input' = [kind |-> "args", args |-> a]
  \/ /\ Picked("escape")
     /\ \E s \in Texts({"a", "\"", "\\", "x", "\n", "x01", "xFF", "%"}, 4) : input' = [kind |-> "escape", s |-> s]
  \/ /\ Picked("parse")
     /\ \E s \in Texts({"a", "1", "\"", "'", "/", "*", "#", "?", "$", "<", ">", "\\"}, 4) : input' = [kind |-> "parse", s |-> s]
  \/ /\ Picked("format")
     /\ \E n \in 0..3, skip \in BOOLEAN : \E data \in [1..n -> {10, 34, 63, 1, 200}], mask \in [1..n -> BOOLEAN] :
          input' = [kind |-> "format", data |-> data, mask |-> mask, skip |-> skip]
  \/ /\ Picked("dump")
     /\ \E n \in 0..5, start \in 0..2, skip \in BOOLEAN, censored \in {<<>>, <<0, 1>>} :
          \E data, old \in [1..n -> 0..1], k \in {n, n \div 2} :
            input' = [kind |-> "dump", data |-> data, old |-> SubSeq(old, 1, k), censored |-> censored, skip |-> skip, start |-> start]
  \/ /\ Picked("diff")
     /\ \E n, m \in 0..7, context \in 0..2 : \E changed \in SUBSET (1..Max({n, m})) :
          input' = [kind |-> "diff", old |-> [i \in 1..n |-> 0],
                    new |-> [i \in 1..m |-> IF i \in changed THEN 1 ELSE 0], context |-> context]
  \/ /\ Picked("iov")
     /\ \E iovs \in {v \in Texts(Texts({1, 2}, 2), 3) : v # <<>> => v[1] # <<>>} : input' = [kind |-> "iov", iovs |-> iovs]
-----------------------------------------------------------------------------
(* split loses nothing: its tokens with the delimiters between them are the text, as many as the    *)
(* limit allows; join undoes it but for the delimiters behind empty tokens at the front.            *)
SplitLosesNothing ==
  input.kind = "split" =>
    LET tokens == split(input.s, ",", input.max)
        n == Occurrences(input.s, ",")
        first == Min({i \in DOMAIN tokens : tokens[i] # <<>>} \cup {Len(tokens) + 1})
    IN  /\ Glued(tokens, ",") = input.s
        /\ Len(tokens) = 1 + (IF input.max = 0 THEN n ELSE Min({n, input.max}))
        /\ join(tokens, <<",">>) = Glued(SubSeq(tokens, first, Len(tokens)), ",")

(* split_context cuts only where no quote or bracket is open: each token, but for the rest behind   *)
(* the last cut that the limit allows, is balanced and would not be cut again.                      *)
TokensAreBalanced ==
  input.kind = "split" =>
    LET r == split_context(input.s, ",", input.max)
    IN  r.ok => /\ Glued(r.val, ",") = input.s
                /\ input.max # 0 => Len(r.val) <= input.max + 1
                /\ \A i \in DOMAIN r.val : (i <= input.max \/ input.max = 0) =>
                     split_context(r.val[i], ",", 0) = Returns(<<r.val[i]>>)

(* Comments go, lines stay: the text has as many newlines without its comments as with them, so     *)
(* that line numbers stay true, unless a one-character comment is empty (its newline is skipped).    *)
CommentsKeepLines ==
  input.kind = "comments" =>
    LET out == strip_comments_inplace(input.s, input.flags)
        empty == \E i \in 1..(Len(input.s) - 1) : input.s[i] = "#" /\ input.s[i + 1] = "\n"
    IN  ("PY" \in input.flags /\ empty) \/ Occurrences(out, "\n") = Occurrences(input.s, "\n")

(* Arguments that are quoted, or escaped character by character, come back from split_args as they   *)
(* went in, spaces and quotes among them (none of them empty: split_args drops those).              *)
ArgumentsSurvive ==
  input.kind = "args" =>
    LET Escaped(arg) == FlattenSeq([i \in DOMAIN arg |-> <<"\\", arg[i]>>])
        escaped == [i \in DOMAIN input.args |-> Escaped(input.args[i])]
        quoted == [i \in DOMAIN escaped |-> <<"\"">> \o escaped[i] \o <<"\"">>]
    IN  split_args(Glued(quoted, " ")) = Returns(input.args) /\ split_args(Glued(escaped, " ")) = Returns(input.args)

\* Escapes undone: \xHH, %HH and the letters of ControlEscape; "?" where there is none of them.
Undone(s) ==
  LET Value(i) == IF i < Len(s) /\ {s[i], s[i + 1]} \subseteq DOMAIN value_for_hex_char
                  THEN 16 * value_for_hex_char[s[i]] + value_for_hex_char[s[i + 1]] ELSE 63
      Hex(i) == IF Value(i) \in DOMAIN Chr THEN <<Chr[Value(i)]>> ELSE <<"?">>
      RECURSIVE From(_)
      From(i) ==
        IF i > Len(s) THEN <<>>
        ELSE IF s[i] = "%" THEN Hex(i + 1) \o From(i + 3)
        ELSE IF s[i] # "\\" THEN <<s[i]>> \o From(i + 1)
        ELSE IF i = Len(s) THEN <<"?">>
        ELSE IF s[i + 1] = "x" THEN Hex(i + 2) \o From(i + 4)
        ELSE <<CHOOSE c \in DOMAIN ControlEscape : ControlEscape[c] = s[i + 1]>> \o From(i + 2)
  IN  From(1)

(* No two texts are escaped alike: undoing the escapes gives the text back (in a build that formats a *)
(* char as signed, a URL of ASCII characters only).                                                  *)
EscapesAreUndone ==
  input.kind = "escape" =>
    /\ Occurrences(input.s, "%") = 0 => Undone(escape_controls(input.s, TRUE)) = input.s
    /\ \A signed \in BOOLEAN : ~(signed /\ NotAscii(input.s)) => Undone(escape_url(input.s, TRUE, signed)) = input.s

(* However the parts of a data string nest, and wherever it ends inside one, parse_data_string makes *)
(* a mask byte for each data byte; and it reads what format_data_string writes, masks included.      *)
DataStringsMatchMasks ==
  /\ input.kind = "parse" =>
       LET r == parse_data_string(input.s, FileNames(input.s)) IN Len(r.data) = Len(r.mask)
  /\ input.kind = "format" =>
       parse_data_string(format_data_string(input.data, input.mask, input.skip), FALSE) = [data |-> input.data, mask |-> input.mask]

(* Each byte of the data is in the dump, once, at its address, censored or marked red when it differs*)
(* from the byte before; only lines of zeroes that were zeroes are left out, and only when asked for.*)
DumpShowsEveryByte ==
  input.kind = "dump" =>
    LET out == format_data(input.data, input.start, input.old, input.censored, input.skip)
        shown == {<<out[k].addr + x - 1, out[k].cells[x]>> : k \in DOMAIN out, x \in 1..LineBytes}
        Shown(addr) == {c[2] : c \in {d \in shown : d[1] = addr}}
        Old(i) == IF i <= Len(input.old) THEN input.old[i] ELSE input.data[i]
        Censored(i) == i <= Len(input.censored) /\ input.censored[i] # 0
        CellOf(i) == IF Censored(i) THEN [show |-> "censored", byte |-> 0, red |-> FALSE]
                   ELSE [show |-> "byte", byte |-> input.data[i], red |-> input.data[i] # Old(i)]
    IN  /\ \A k \in 1..(Len(out) - 1) : out[k].addr < out[k + 1].addr
        /\ \A c \in shown : c[2].show = "blank" <=> c[1] \notin input.start..(input.start + Len(input.data) - 1)
        /\ \A i \in DOMAIN input.data :
             \/ Shown(input.start + i - 1) = {CellOf(i)}
             \/ /\ Shown(input.start + i - 1) = {} /\ input.skip
                /\ input.data[i] = 0 /\ Old(i) = 0 /\ ~Censored(i)

(* print_binary_diff shows the lines that differ and those within the context of one, each once and  *)
(* in order, and a gap mark exactly where lines are left out; it answers whether the inputs differ.  *)
DiffShowsTheContext ==
  input.kind = "diff" =>
    LET r == print_binary_diff(input.old, input.new, input.context)
        lines == 0..((Max({Len(input.old), Len(input.new)}) + LineBytes - 1) \div LineBytes - 1)
        near == {l \in lines : \E j \in lines : Differs(input.old, input.new, j) /\ Magnitude(l - j) <= input.context}
        Line(k) == IF k \in DOMAIN r.out THEN r.out[k].line ELSE IF k = 0 THEN -1 ELSE Cardinality(lines)
    IN  /\ r.is_identical <=> input.old = input.new
        /\ {Line(k) : k \in DOMAIN r.out} \ {-1} = near
        /\ \A k \in 1..(Len(r.out) - 1) : Line(k) # -1 /\ Line(k + 1) # -1 =>
             \/ Line(k) + 1 = Line(k + 1)
             \/ Line(k) = Line(k + 1) /\ r.out[k].mark = "-" /\ r.out[k + 1].mark = "+"
        /\ \A k \in DOMAIN r.out : Line(k) = -1 =>
             \E l \in lines \ near : (k = 1 \/ Line(k - 1) < l) /\ Line(k + 1) > l /\ Line(k + 1) # -1
        /\ r.out # <<>> => (Line(1) = -1 <=> 0 \notin near) /\ (Line(Len(r.out)) = -1 <=> Max(lines) \notin near)

(* A reader over several buffers gives their bytes one after the other, and passes over the empty    *)
(* ones, as long as the first is not empty.                                                          *)
BuffersReadThrough ==
  input.kind = "iov" =>
    /\ IovBytes(input.iovs, [current_iov |-> 1, offset_within_iov |-> 0]) = FlattenSeq(input.iovs)
    /\ iov_size(input.iovs) = Len(FlattenSeq(input.iovs))

\* What the text functions take apart they lose nothing of, what they escape or
\* quote is read back, and what they dump is the data (Strings.cc, Strings.hh).
TextCorrect ==
  input.kind \in TextKinds =>
    /\ SplitLosesNothing
    /\ TokensAreBalanced
    /\ CommentsKeepLines
    /\ ArgumentsSurvive
    /\ EscapesAreUndone
    /\ DataStringsMatchMasks
    /\ DumpShowsEveryByte
    /\ DiffShowsTheContext
    /\ BuffersReadThrough
=============================================================================
