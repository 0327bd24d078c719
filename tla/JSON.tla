--------------------------------- MODULE JSON ---------------------------------
(*************************************************************************)
(* JSON values (JSON.hh, JSON.cc): the seven types and comparison; parse *)
(* and serialize; and what they promise. Every value is a record with    *)
(* the same fields. A float is the decimal n * 10^e. Doubles hold whole  *)
(* numbers of up to Precision digits exactly and round the others, which *)
(* the model does not: the properties claim no value of a float that has *)
(* a fraction. keys is the storage order of a dictionary, which is       *)
(* arbitrary.                                                            *)
(*************************************************************************)
EXTENDS LibraryInput

Value(t, n, e, s, keys, items) == [t |-> t, n |-> n, e |-> e, s |-> s, keys |-> keys, items |-> items]

Null == Value("null", 0, 0, <<>>, <<>>, <<>>)
Bool(b) == Value("bool", IF b THEN 1 ELSE 0, 0, <<>>, <<>>, <<>>)
Integer(n) == Value("int", n, 0, <<>>, <<>>, <<>>)
RECURSIVE Float(_, _)
Float(n, e) == IF n = 0 THEN Value("float", 0, 0, <<>>, <<>>, <<>>)
               ELSE IF n % 10 = 0 THEN Float(n \div 10, e + 1) ELSE Value("float", n, e, <<>>, <<>>, <<>>)
Str(s) == Value("string", 0, 0, s, <<>>, <<>>)
List(items) == Value("list", 0, 0, <<>>, <<>>, items)
Dict(keys, items) == Value("dict", 0, 0, <<>>, keys, items)

IsNumber(v) == v.t \in {"int", "float"}
IsContainer(v) == v.t \in {"list", "dict"}
HasKey(v, key) == key \in ToSet(v.keys)
IndexOfKey(v, key) == CHOOSE i \in DOMAIN v.keys : v.keys[i] = key
AtKey(v, key) == v.items[IndexOfKey(v, key)]

\* --- comparison -----------------------------------------------------------

Order(x, y) == IF x < y THEN "less" ELSE IF x > y THEN "greater" ELSE "equivalent"

NumberOrder(a, b) ==
  LET unit == Min({a.e, b.e}) IN Order(a.n * 10 ^ (a.e - unit), b.n * 10 ^ (b.e - unit))

StringOrder(s, t) ==
  LET diff == {i \in 1..Min({Len(s), Len(t)}) : s[i] # t[i]}
  IN  IF diff = {} THEN Order(Len(s), Len(t)) ELSE Order(Ord[s[Min(diff)]], Ord[t[Min(diff)]])

\* operator<=>.  An integer and a float compare by value; two dictionaries are
\* equivalent or unordered; two lists are ordered by their first difference.
RECURSIVE Compare(_, _)
Compare(a, b) ==
  IF IsNumber(a) /\ IsNumber(b) THEN NumberOrder(a, b)
  ELSE IF a.t # b.t THEN "unordered"
  ELSE CASE a.t = "null" -> "equivalent"
         [] a.t = "bool" -> Order(a.n, b.n)
         [] a.t = "string" -> StringOrder(a.s, b.s)
         [] a.t = "list" ->
              LET diff == {i \in 1..Min({Len(a.items), Len(b.items)}) :
                             Compare(a.items[i], b.items[i]) # "equivalent"}
              IN  IF diff = {} THEN Order(Len(a.items), Len(b.items))
                  ELSE Compare(a.items[Min(diff)], b.items[Min(diff)])
         [] a.t = "dict" ->
              IF /\ Len(a.keys) = Len(b.keys)
                 /\ \A k \in ToSet(b.keys) :
                      HasKey(a, k) /\ Compare(AtKey(a, k), AtKey(b, k)) = "equivalent"
              THEN "equivalent" ELSE "unordered"

\* --- containers -----------------------------------------------------------

\* emplace and insert keep the value a key already has.
Emplace(v, key, item) ==
  IF HasKey(v, key) THEN v ELSE Dict(Append(v.keys, key), Append(v.items, item))
EmplaceBack(v, item) == List(Append(v.items, item))

-----------------------------------------------------------------------------
(***************************************************************************)
(* JSON::parse and JSON::serialize (JSON.cc).  strict is the parameter     *)
(* disable_extensions; a result is a value and the offset after it.        *)
(***************************************************************************)

CONSTANTS
  IntBits,       \* the width of an integer, 64 in the code
  Precision      \* the significant digits of a float, 17 in the code

ASSUME TextAssumption == IntBits \in Nat \ {0} /\ Precision \in Nat \ {0} /\ 10 ^ Precision < 2 ^ (IntBits - 1)

\* Two's complement in IntBits bits.
Wrap(n) == ((n + 2 ^ (IntBits - 1)) % 2 ^ IntBits) - 2 ^ (IntBits - 1)

Fail == [ok |-> FALSE, val |-> Null, at |-> 0]
Parsed(v, at) == [ok |-> TRUE, val |-> v, at |-> at]

Blanks == {" ", "\t", "\r", "\n"}
StartsAt(s, at, word) == at + Len(word) - 1 <= Len(s) /\ SubSeq(s, at, at + Len(word) - 1) = word

\* The end of the run of characters of S that begins at at.
EndOfRun(s, at, S) == Min({i \in at..Len(s) : s[i] \notin S} \cup {Max({at, Len(s) + 1})})

\* skip_whitespace_and_comments.  A "/" that ends the text throws in the code;
\* here it is left to be read, which fails too.
RECURSIVE SkipBlanks(_, _, _)
SkipBlanks(s, at, strict) ==
  IF at <= Len(s) /\ s[at] \in Blanks THEN SkipBlanks(s, at + 1, strict)
  ELSE IF ~strict /\ StartsAt(s, at, <<"/", "/">>)
  THEN SkipBlanks(s, Min({i \in at..Len(s) : s[i] \in {"\n", "\r"}} \cup {Len(s) + 1}), strict)
  ELSE at

\* --- numbers --------------------------------------------------------------

Decimal(s) == FoldLeft(LAMBDA n, c : Wrap(n * 10 + value_for_hex_char[c]), 0, s)
Hex(s) == FoldLeft(LAMBDA n, c : Wrap(n * 16 + value_for_hex_char[c]), 0, s)
HexDigits == DOMAIN value_for_hex_char

\* An integer times 10^e: a negative exponent drops a digit at each step.
RECURSIVE ScaledInt(_, _)
ScaledInt(n, e) == IF e = 0 THEN n ELSE IF e > 0 THEN ScaledInt(Wrap(n * 10), e - 1) ELSE ScaledInt(n \div 10, e + 1)

\* A hexadecimal integer starts here.
IsHex(s, start, strict) == ~strict /\ StartsAt(s, start, <<"0", "x">>) /\ start + 2 <= Len(s)

\* A number is a float only if it has a point; an exponent is applied to an
\* integer too, and drops what falls behind the point.  No digits are zero.  The
\* code adds up the digits behind the point in doubles, with rounding.
ParseNumber(s, at, strict) ==
  LET sign == IF s[at] = "-" THEN -1 ELSE 1
      start == IF s[at] = "-" THEN at + 1 ELSE at
      point == EndOfRun(s, start, Digits)
      is_int == ~StartsAt(s, point, <<".">>)
      exp == IF is_int THEN point ELSE EndOfRun(s, point + 1, Digits)
      has_exp == StartsAt(s, exp, <<"e">>) \/ StartsAt(s, exp, <<"E">>)
      signed == StartsAt(s, exp + 1, <<"-">>) \/ StartsAt(s, exp + 1, <<"+">>)
      e_start == IF signed THEN exp + 2 ELSE exp + 1
      end == IF has_exp THEN EndOfRun(s, e_start, Digits) ELSE exp
      e == IF ~has_exp THEN 0
           ELSE Decimal(SubSeq(s, e_start, end - 1)) * (IF StartsAt(s, exp + 1, <<"-">>) THEN -1 ELSE 1)
      whole == Decimal(SubSeq(s, start, point - 1))
      places == IF is_int THEN 0 ELSE exp - point - 1
      hex_end == EndOfRun(s, start + 2, HexDigits)
  IN  IF IsHex(s, start, strict)
      THEN Parsed(Integer(Wrap(sign * Hex(SubSeq(s, start + 2, hex_end - 1)))), hex_end)
      ELSE IF has_exp /\ exp = Len(s) THEN Fail
      ELSE IF is_int THEN Parsed(Integer(Wrap(sign * ScaledInt(whole, e))), end)
      ELSE Parsed(Float(sign * (whole * 10 ^ places + Decimal(SubSeq(s, point + 1, exp - 1))), e - places), end)

\* --- strings --------------------------------------------------------------

EscapeOf ==
  ("\"" :> "\"") @@ ("\\" :> "\\") @@ ("/" :> "/") @@ ("n" :> "\n") @@ ("r" :> "\r") @@ ("t" :> "\t")
    @@ ("f" :> "\f") @@ ("b" :> "BSP")

\* A \x escape has two digits; a \u escape four, of which the first two are zeroes.
ParseString(s, at) ==
  LET RECURSIVE From(_, _)
      From(i, data) ==
        LET x == StartsAt(s, i, <<"\\", "x">>)
            first == IF x THEN i + 2 ELSE i + 4
        IN  IF i > Len(s) THEN Fail
            ELSE IF s[i] = "\"" THEN Parsed(Str(data), i + 1)
            ELSE IF s[i] # "\\" THEN From(i + 1, Append(data, s[i]))
            ELSE IF i = Len(s) THEN Fail
            ELSE IF s[i + 1] \in DOMAIN EscapeOf THEN From(i + 2, Append(data, EscapeOf[s[i + 1]]))
            ELSE IF s[i + 1] \notin {"x", "u"} \/ first + 1 > Len(s)
                    \/ ~({s[first], s[first + 1]} \subseteq HexDigits)
                    \/ (~x /\ SubSeq(s, i + 2, i + 3) # <<"0", "0">>) THEN Fail
            ELSE From(first + 2, Append(data, Chr[16 * value_for_hex_char[s[first]] + value_for_hex_char[s[first + 1]]]))
  IN  From(at + 1, <<>>)

\* --- values ---------------------------------------------------------------

Constants ==
  <<[text |-> Txt("null"), val |-> Null], [text |-> <<"n">>, val |-> Null],
    [text |-> Txt("true"), val |-> Bool(TRUE)], [text |-> <<"t">>, val |-> Bool(TRUE)],
    [text |-> Txt("false"), val |-> Bool(FALSE)], [text |-> <<"f">>, val |-> Bool(FALSE)]>>

ParseWord(s, at, strict) ==
  LET fits == {i \in DOMAIN Constants : StartsAt(s, at, Constants[i].text) /\ (strict => Len(Constants[i].text) > 1)}
  IN  IF fits = {} THEN Fail ELSE Parsed(Constants[Min(fits)].val, at + Len(Constants[Min(fits)].text))

RECURSIVE Parse(_, _, _), ParseItems(_, _, _, _, _)

\* The loop of a list or a dictionary, at its next separator: the opening
\* bracket first, a comma later.  The first key that is equal to it is kept.
ParseItems(s, at, strict, acc, expected_separator) ==
  LET close == IF acc.t = "dict" THEN "}" ELSE "]"
      first == SkipBlanks(s, at + 1, strict)
      More(item, more) ==
        IF ~item.ok THEN Fail ELSE ParseItems(s, SkipBlanks(s, item.at, strict), strict, more, ",")
      WithItem(item) == More(item, EmplaceBack(acc, item.val))
      WithMember(key, item) == More(item, Emplace(acc, key.val.s, item.val))
      WithKey(key, colon) ==
        IF key.ok /\ StartsAt(s, colon, <<":">>) /\ key.val.t = "string"
        THEN WithMember(key, Parse(s, SkipBlanks(s, colon + 1, strict), strict)) ELSE Fail
      Keyed(key) == WithKey(key, SkipBlanks(s, key.at, strict))
  IN  IF at > Len(s) THEN Fail
      ELSE IF s[at] = close THEN Parsed(acc, at + 1)
      ELSE IF s[at] # expected_separator THEN Fail
      ELSE IF ~strict /\ StartsAt(s, first, <<close>>) THEN Parsed(acc, first + 1)
      ELSE IF acc.t = "list" THEN WithItem(Parse(s, first, strict)) ELSE Keyed(Parse(s, first, strict))

Parse(s, offset, strict) ==
  LET at == SkipBlanks(s, offset, strict)
  IN  IF at > Len(s) THEN Fail
      ELSE CASE s[at] = "{" -> ParseItems(s, at, strict, Dict(<<>>, <<>>), "{")
             [] s[at] = "[" -> ParseItems(s, at, strict, List(<<>>), "[")
             [] s[at] \in {"-", "+"} \cup Digits -> ParseNumber(s, at, strict)
             [] s[at] = "\"" -> ParseString(s, at)
             [] OTHER -> ParseWord(s, at, strict)

\* Mutant: text behind the value is not looked at.
ParsePrefix(s, strict) == LET r == Parse(s, 1, strict) IN IF r.ok THEN Returns(r.val) ELSE Thrown

\* The whole text must be used.
parse(s, strict) ==
  LET r == Parse(s, 1, strict)
  IN  IF r.ok /\ SkipBlanks(s, r.at, strict) > Len(s) THEN Returns(r.val) ELSE Thrown

\* --- serialize ------------------------------------------------------------

\* The character is formatted as a char, so that signed (see LibraryInput) matters.
escape_char(c, options, signed) ==
  IF c # "/" /\ \E x \in DOMAIN EscapeOf : EscapeOf[x] = c
  THEN <<"\\", CHOOSE x \in DOMAIN EscapeOf : EscapeOf[x] = c>>
  ELSE IF Ord[c] \in 32..126 \/ (Ord[c] > 126 /\ "ESCAPE_CONTROLS_ONLY" \in options) THEN <<c>>
  ELSE IF {"ESCAPE_CONTROLS_ONLY", "HEX_ESCAPE_CODES"} \cap options # {}
  THEN <<"\\", "x">> \o FormattedChar(c, 2, signed)
  ELSE <<"\\", "u">> \o FormattedChar(c, 4, signed)

QuotedText(s, options, signed) ==
  <<"\"">> \o FlattenSeq([i \in DOMAIN s |-> escape_char(s[i], options, signed)]) \o <<"\"">>

\* The digits of n in a base; a negative number has a sign.
RECURSIVE DigitsOf(_, _)
DigitsOf(n, base) ==
  IF n < 0 THEN <<"-">> \o DigitsOf(-n, base)
  ELSE IF n < base THEN <<HexDigit[n + 1]>>
  ELSE Append(DigitsOf(n \div base, base), HexDigit[(n % base) + 1])

\* The most negative integer has no negation: it is printed with two signs.
IntText(n, options) ==
  IF "HEX_INTEGERS" \notin options THEN DigitsOf(n, 10)
  ELSE IF n < 0 THEN Txt("-0x") \o DigitsOf(Wrap(-n), 16) ELSE Txt("0x") \o DigitsOf(n, 16)

\* {:.17g} of a decimal of at most Precision digits, and a point where it printed
\* none: after the exponent if there is one.
FloatText(n, e) ==
  LET digits == DigitsOf(IF n < 0 THEN -n ELSE n, 10)
      x == e + Len(digits) - 1
      head == SubSeq(digits, 1, 1)
      tail == IF Len(digits) > 1 THEN <<".">> \o Tail(digits) ELSE <<>>
      ex == DigitsOf(IF x < 0 THEN -x ELSE x, 10)
      g == IF x < -4 \/ x >= Precision
           THEN head \o tail \o <<"e", IF x < 0 THEN "-" ELSE "+">> \o (IF Len(ex) = 1 THEN Zeroes(1) ELSE <<>>) \o ex
           ELSE IF e >= 0 THEN digits \o Zeroes(e)
           ELSE IF x < 0 THEN <<"0", ".">> \o Zeroes(-x - 1) \o digits
           ELSE SubSeq(digits, 1, x + 1) \o <<".">> \o SubSeq(digits, x + 2, Len(digits))
  IN  (IF n < 0 THEN <<"-">> ELSE <<>>) \o g \o (IF "." \in ToSet(g) THEN <<>> ELSE <<".", "0">>)

NonEmptyContainer(v) == IsContainer(v) /\ v.items # <<>>

RECURSIVE serialize(_, _, _, _)
serialize(v, options, indent_level, signed) ==
  LET format == "FORMAT" \in options
      multiline == \/ "EXPAND_LEAF_CONTAINERS" \in options
                   \/ format /\ \E i \in DOMAIN v.items : NonEmptyContainer(v.items[i])
      brackets == IF v.t = "list" THEN <<"[", "]">> ELSE <<"{", "}">>
      Line(indent) == IF multiline THEN <<"\n">> \o [i \in 1..indent |-> " "] ELSE <<>>
      separator == IF format /\ ~multiline THEN <<",", " ">> ELSE <<",">>
      order == IF v.t = "dict" /\ "SORT_DICT_KEYS" \in options
               THEN SortSeq([i \in DOMAIN v.keys |-> i], LAMBDA i, j : StringOrder(v.keys[i], v.keys[j]) = "less")
               ELSE [i \in DOMAIN v.items |-> i]
      Key(i) == IF v.t = "list" THEN <<>>
                ELSE QuotedText(v.keys[i], options, signed) \o (IF format \/ multiline THEN <<":", " ">> ELSE <<":">>)
      Item(i) == Line(indent_level + 2) \o Key(i)
                   \o serialize(v.items[i], options, IF multiline THEN indent_level + 2 ELSE 0, signed)
      one == "ONE_CHARACTER_TRIVIAL_CONSTANTS" \in options
      word == Constants[(IF v.t = "null" THEN 1 ELSE IF v.n = 1 THEN 3 ELSE 5) + IF one THEN 1 ELSE 0]
  IN  CASE v.t \in {"null", "bool"} -> word.text
        [] v.t = "int" -> IntText(v.n, options)
        [] v.t = "float" -> FloatText(v.n, v.e)
        [] v.t = "string" -> QuotedText(v.s, options, signed)
        [] IsContainer(v) /\ v.items = <<>> -> brackets
        [] NonEmptyContainer(v) ->
             <<brackets[1]>>
               \o FlattenSeq([k \in DOMAIN order |-> (IF k > 1 THEN separator ELSE <<>>) \o Item(order[k])])
               \o Line(indent_level) \o <<brackets[2]>>

-----------------------------------------------------------------------------
(***************************************************************************)
(* What JSON promises: the language that parse accepts, serialize followed *)
(* by parse, and the order of the values.                                  *)
(***************************************************************************)

JSONKinds == {"text", "number", "string", "value", "compare"}
LanguageKinds == {"text", "number", "string"}

Leaves ==
  {Null, Bool(TRUE), Integer(0), Integer(-1), Float(5, 0), Float(15, -1), Str(<<>>), Str(<<"a">>), List(<<>>), Dict(<<>>, <<>>)}
Containers ==
  UNION {{List(<<x>>), List(<<x, Integer(1)>>), Dict(<<<<"b">>>>, <<x>>), Dict(<<<<"b">>, <<"\"">>>>, <<x, Null>>)} : x \in Leaves}
Nested == UNION {{List(<<x>>), Dict(<<<<"b">>, <<>>>>, <<Integer(1), x>>)} : x \in Containers}
Integers16 == {Integer(n) : n \in {0, 7, -10, 255, 32767, -32767, -32768}}
Floats == {Float(n, e) : n \in {0, 1, -5, 25, 1234}, e \in -6..3} \cup {Float(1, 4), Float(-25, 3)}
Strings == {Str(s) : s \in Texts({"a", "\"", "\\", "\n", "x01", "DEL", "xFF", "/"}, 2)}

StandardOptions == {"FORMAT", "EXPAND_LEAF_CONTAINERS", "SORT_DICT_KEYS"}
EscapeOptions == {"HEX_ESCAPE_CODES", "ESCAPE_CONTROLS_ONLY"}
Options == SUBSET (StandardOptions \cup EscapeOptions \cup {"HEX_INTEGERS", "ONE_CHARACTER_TRIVIAL_CONSTANTS"})

Structure == {"[", "]", "{", "}", ",", ":", "\"", "1"}
Tokens ==
  {<<c>> : c \in {"[", "]", ",", " ", "-"}}
    \cup {<<"[", "1">>, Txt("01"), Txt("0x1"), Txt("null"), <<"n">>, Txt("tr"), <<"/", "/", "\n">>}
StringParts ==
  {<<c>> : c \in {"a", "\"", "\\", "u", "\n", "x80", ","}}
    \cup {Txt("\\n"), Txt("\\/"), Txt("\\x41"), Txt("\\u0041"), Txt("\\u0100"), Txt("004")}

JSONInput ==
  \/ Picked("text") /\ \E s \in Texts(Structure, 5) : input' = [kind |-> "text", s |-> s]
  \/ Picked("text") /\ \E parts \in Texts(Tokens, 4) : input' = [kind |-> "text", s |-> FlattenSeq(parts)]
  \/ Picked("number") /\ \E s \in Texts({"0", "1", "x", ".", "e", "-", "+"}, 5) : input' = [kind |-> "number", s |-> s]
  \/ /\ Picked("string")
     /\ \E parts \in Texts(StringParts, 3) : input' = [kind |-> "string", s |-> <<"\"">> \o FlattenSeq(parts) \o <<"\"">>]
  \/ /\ Picked("value")
     /\ \E v \in Integers16 \cup Floats \cup Strings \cup Containers \cup Nested, options \in Options, signed \in BOOLEAN :
          input' = [kind |-> "value", v |-> v, options |-> options, signed |-> signed]
  \/ /\ Picked("compare")
     /\ \E a, b \in Leaves \cup Containers, c \in Leaves : input' = [kind |-> "compare", a |-> a, b |-> b, c |-> c]
-----------------------------------------------------------------------------
\* The grammar of JSON (RFC 8259), with the parts that this code treats in its
\* own way named by a set of words:
\*   "empty"    a list or a dictionary of nothing
\*   "wide"     a \u escape of a character beyond 0xFF
\*   "numbers"  digits may be missing after a sign, a point or an e, and before a
\*              point, and a number may begin with zeroes
\*   "bytes"    a \x escape, or a control character as it is, in a string
Standard == {"empty", "wide"}
Lenient == {"numbers", "bytes"}

Inside(s) == SubSeq(s, 2, Len(s) - 1)
UpTo(s, i) == SubSeq(s, 1, i - 1)
After(s, i) == SubSeq(s, i + 1, Len(s))

Trimmed(s) ==
  LET ink == {i \in DOMAIN s : s[i] \notin Blanks} IN IF ink = {} THEN <<>> ELSE SubSeq(s, Min(ink), Max(ink))

SignIn(s, signs) == IF s # <<>> /\ s[1] \in signs THEN 1 ELSE 0
AreDigits(s, with) == ToSet(s) \subseteq Digits /\ ("numbers" \in with \/ s # <<>>)
IsInteger(s, with) ==
  LET digits == After(s, SignIn(s, {"-"}))
  IN  AreDigits(digits, with) /\ ("numbers" \in with \/ Len(digits) = 1 \/ digits[1] # "0")
IsFraction(s, with) == s = <<>> \/ (s[1] = "." /\ AreDigits(Tail(s), with))
IsExponent(s, with) ==
  s = <<>> \/ (s[1] \in {"e", "E"} /\ AreDigits(After(Tail(s), SignIn(Tail(s), {"-", "+"})), with))
IsNumeral(s, with) ==
  /\ s # <<>> /\ s[1] \in {"-"} \cup Digits
  /\ \E i \in 1..(Len(s) + 1), j \in 1..(Len(s) + 1) :
       /\ i <= j
       /\ IsInteger(UpTo(s, i), with) /\ IsFraction(SubSeq(s, i, j - 1), with) /\ IsExponent(SubSeq(s, j, Len(s)), with)

RECURSIVE AreCharacters(_, _)
AreCharacters(s, with) ==
  \/ s = <<>>
  \/ /\ s[1] \notin {"\"", "\\"} /\ ("bytes" \in with \/ Ord[s[1]] > 31)
     /\ AreCharacters(Tail(s), with)
  \/ /\ Len(s) > 1 /\ s[1] = "\\" /\ s[2] \in DOMAIN EscapeOf
     /\ AreCharacters(After(s, 2), with)
  \/ /\ Len(s) > 5 /\ s[1] = "\\" /\ s[2] = "u" /\ ToSet(SubSeq(s, 3, 6)) \subseteq HexDigits
     /\ "wide" \in with \/ SubSeq(s, 3, 4) = <<"0", "0">>
     /\ AreCharacters(After(s, 6), with)
  \/ /\ "bytes" \in with
     /\ Len(s) > 3 /\ s[1] = "\\" /\ s[2] = "x" /\ ToSet(SubSeq(s, 3, 4)) \subseteq HexDigits
     /\ AreCharacters(After(s, 4), with)
IsString(s, with) == Len(s) > 1 /\ s[1] = "\"" /\ Last(s) = "\"" /\ AreCharacters(Inside(s), with)

Bracketed(s, open, close) == Len(s) > 1 /\ s[1] = open /\ Last(s) = close
IsEmptied(s, with) == "empty" \in with /\ Trimmed(Inside(s)) = <<>>

RECURSIVE IsValue(_, _), AreElements(_, _), AreMembers(_, _)
AreElements(s, with) ==
  IsValue(s, with) \/ \E i \in DOMAIN s : s[i] = "," /\ IsValue(UpTo(s, i), with) /\ AreElements(After(s, i), with)
IsMember(s, with) ==
  \E i \in DOMAIN s : s[i] = ":" /\ IsString(Trimmed(UpTo(s, i)), with) /\ IsValue(After(s, i), with)
AreMembers(s, with) ==
  IsMember(s, with) \/ \E i \in DOMAIN s : s[i] = "," /\ IsMember(UpTo(s, i), with) /\ AreMembers(After(s, i), with)
IsValue(text, with) ==
  LET s == Trimmed(text)
  IN  \/ s \in {Txt("null"), Txt("true"), Txt("false")}
      \/ IsNumeral(s, with)
      \/ IsString(s, with)
      \/ Bracketed(s, "[", "]") /\ (IsEmptied(s, with) \/ AreElements(Inside(s), with))
      \/ Bracketed(s, "{", "}") /\ (IsEmptied(s, with) \/ AreMembers(Inside(s), with))

\* In these, strict and extended are what the two parsers make of the text s.

(* The strict parser accepts every text of JSON but those with an empty list or dictionary, which the  *)
(* other parser takes, and those with a \u escape beyond 0xFF; and it accepts nothing else            *)
(* but what Lenient names: of the extensions that disable_extensions turns off it accepts none.        *)
StrictIsJSON(s, strict, extended) ==
  /\ IsValue(s, {}) => strict.ok
  /\ strict.ok => IsValue(s, Lenient)
  /\ IsValue(s, {"empty"}) => extended.ok

(* The extensions only add texts: what the strict parser accepts means the same without disable_extensions. *)
ExtensionsOnlyAdd(strict, extended) == strict.ok => extended = strict

(* A JSON number without point and exponent is the integer that its digits spell, in 64 bits; one with *)
(* a point is a float.                                                                                 *)
NumbersAreSpelled(s, strict) ==
  IsNumeral(s, {}) =>
    LET n == strict.val
        Spelled(digits) == FoldLeft(LAMBDA sum, d : 10 * sum + Ord[d] - Ord["0"], 0, digits)
    IN  /\ ToSet(s) \subseteq Digits => n = Integer(Wrap(Spelled(s)))
        /\ ToSet(s) \subseteq Digits \cup {"-"} /\ s[1] = "-" => n = Integer(Wrap(-Spelled(Tail(s))))
        /\ "." \in ToSet(s) => n.t = "float"

LanguageIsJSON(s, strict, extended) ==
  StrictIsJSON(s, strict, extended) /\ ExtensionsOnlyAdd(strict, extended) /\ NumbersAreSpelled(s, strict)

\* The same number; if rounding is allowed for, a float with a fraction need only be a float.
SameNumber(a, b, rounded) == (rounded /\ a.t = "float" /\ a.e < 0) \/ (a.n = b.n /\ a.e = b.e)

RECURSIVE SameValue(_, _, _)
SameValue(a, b, rounded) ==
  /\ a.t = b.t /\ a.s = b.s /\ SameNumber(a, b, rounded)
  /\ IF a.t = "dict"
     THEN ToSet(a.keys) = ToSet(b.keys) /\ \A k \in ToSet(a.keys) : SameValue(AtKey(a, k), AtKey(b, k), rounded)
     ELSE Len(a.items) = Len(b.items) /\ \A i \in DOMAIN a.items : SameValue(a.items[i], b.items[i], rounded)

\* A float that is printed with an exponent and no point: serialize puts its .0 behind the exponent.
Misprinted(v) == v.t = "float" /\ Len(DigitsOf(Magnitude(v.n), 10)) = 1 /\ v.e \notin -4..(Precision - 1)

\* Bytes that a build whose library formats a char as signed escapes as negative numbers.
NegativeEscape(v, options, signed) == signed /\ v.t = "string" /\ NotAscii(v.s) /\ "ESCAPE_CONTROLS_ONLY" \notin options

\* r is what parse returns for the text of v.
IsRead(v, r) == r.ok /\ SameValue(v, r.val, TRUE)

(* With every combination of options, parse reads from the text that serialize has written the value  *)
(* that it was written from (a float with a fraction: a float), but for the most negative integer in  *)
(* hexadecimal, some floats, and in some builds bytes beyond ASCII; what holds none of these returns. *)
ReadsWhatItWrites ==
  /\ input.kind = "value"
  /\ ~Misprinted(input.v) /\ ~(input.v = Integer(-32768) /\ "HEX_INTEGERS" \in input.options)
  /\ ~NegativeEscape(input.v, input.options, input.signed)
  => IsRead(input.v, parse(serialize(input.v, input.options, 0, input.signed), FALSE))

(* operator<=> is an order with equivalences: values that differ in type or depth included, turning  *)
(* the operands round turns the answer round, and "less" and "equivalent" carry over.                *)
OrderIsConsistent ==
  input.kind = "compare" =>
    LET a == input.a  b == input.b  c == input.c
        Turned == [less |-> "greater", greater |-> "less", equivalent |-> "equivalent", unordered |-> "unordered"]
    IN  /\ Compare(a, a) = "equivalent"
        /\ Compare(b, a) = Turned[Compare(a, b)]
        /\ Compare(a, b) = "equivalent" => Compare(a, c) = Compare(b, c)
        /\ Compare(a, b) = "less" /\ Compare(b, c) = "less" => Compare(a, c) = "less"
        /\ SameValue(a, b, FALSE) => Compare(a, b) = "equivalent"

\* The parser takes JSON and what is listed as an extension, reads back what the
\* serializer writes, and values are compared consistently (JSON.cc).
JSONCorrect ==
  input.kind \in JSONKinds =>
    /\ input.kind \in LanguageKinds => LanguageIsJSON(input.s, parse(input.s, TRUE), parse(input.s, FALSE))
    /\ ReadsWhatItWrites
    /\ OrderIsConsistent

\* A float whose printed digits the model does not know.
HasFraction(v) == v.t = "float" /\ v.e < 0

(* serialize "always generates standard-compilant JSON unless extensions are specifically requested" (JSON.hh). *)
WritesStandardJSON ==
  input.kind = "value" /\ input.options \subseteq StandardOptions /\ ~input.signed /\ ~HasFraction(input.v) =>
    IsValue(serialize(input.v, input.options, 0, FALSE), Standard)
=============================================================================
