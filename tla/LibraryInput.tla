----------------------------- MODULE LibraryInput -----------------------------
(***************************************************************************)
(* The functions without state are checked input by input: a behaviour     *)
(* picks a kind of input, then an input of that kind, and stops.  What     *)
(* should be true of a function is an invariant over the inputs.           *)
(***************************************************************************)
EXTENDS Integers, Sequences, SequencesExt, FiniteSetsExt

VARIABLE input            \* a record whose kind is "none", "picked" or the input's kind

Start == input = [kind |-> "none"]
Pick(kind) == input.kind = "none" /\ input' = [kind |-> "picked", of |-> kind]
Picked(kind) == input.kind = "picked" /\ input.of = kind

\* The texts over an alphabet, up to a length.
Texts(alphabet, n) == UNION {[1..k -> alphabet] : k \in 0..n}

Occurrences(s, ch) == Cardinality({i \in DOMAIN s : s[i] = ch})
Magnitude(n) == IF n < 0 THEN -n ELSE n

\* Texts put together with a delimiter between them.
Glued(tokens, delim) ==
  FlattenSeq([i \in DOMAIN tokens |-> IF i = 1 THEN tokens[i] ELSE <<delim>> \o tokens[i]])

-----------------------------------------------------------------------------
(***************************************************************************)
(* Characters as phosg's text functions see them.  A text is a sequence of *)
(* one-character strings; a byte that has no TLA+ literal (a control, a    *)
(* non-ASCII byte, the grave accent) is a string that names it.            *)
(***************************************************************************)

\* The printable ASCII characters, 0x20 to 0x7E, in order.
Printable ==
  << " ", "!", "\"", "#", "$", "%", "&", "'", "(", ")", "*", "+", ",", "-", ".", "/",
     "0", "1", "2", "3", "4", "5", "6", "7", "8", "9", ":", ";", "<", "=", ">", "?",
     "@", "A", "B", "C", "D", "E", "F", "G", "H", "I", "J", "K", "L", "M", "N", "O",
     "P", "Q", "R", "S", "T", "U", "V", "W", "X", "Y", "Z", "[", "\\", "]", "^", "_",
     "GRAVE", "a", "b", "c", "d", "e", "f", "g", "h", "i", "j", "k", "l", "m", "n", "o",
     "p", "q", "r", "s", "t", "u", "v", "w", "x", "y", "z", "{", "|", "}", "~" >>

\* The other bytes the runs use, by name.
Unprintable ==
  [NUL |-> 0, x01 |-> 1, BEL |-> 7, BSP |-> 8, VT |-> 11, x1F |-> 31, DEL |-> 127, x80 |-> 128, xFF |-> 255]
    @@ ("\t" :> 9) @@ ("\n" :> 10) @@ ("\f" :> 12) @@ ("\r" :> 13)

Ord == Unprintable @@ [c \in ToSet(Printable) |-> 31 + CHOOSE i \in DOMAIN Printable : Printable[i] = c]

Chr == [b \in {Ord[c] : c \in DOMAIN Ord} |-> CHOOSE c \in DOMAIN Ord : Ord[c] = b]

\* A literal text: the characters of a TLA+ string, which holds no named byte.
Txt(str) == [i \in 1..Len(str) |-> SubSeq(str, i, i)]

HexDigit == Txt("0123456789ABCDEF")

\* {:02X} of a byte.
Hex2(b) == <<HexDigit[(b \div 16) + 1], HexDigit[(b % 16) + 1]>>

Zeroes(k) == [i \in 1..k |-> "0"]

\* {:0wX} of a character as a char.  Where char is signed, a library from before
\* the change that made it format chars as unsigned prints a byte of 128 or more
\* as a negative number; signed says that the build is one of those.
FormattedChar(c, w, signed) ==
  LET below == signed /\ Ord[c] > 127
      hex == Hex2(IF below THEN 256 - Ord[c] ELSE Ord[c])
      text == IF below /\ hex[1] = "0" THEN Tail(hex) ELSE hex
      sign == IF below THEN <<"-">> ELSE <<>>
      missing == w - Len(sign) - Len(text)
  IN  sign \o Zeroes(IF missing > 0 THEN missing ELSE 0) \o text

NotAscii(s) == \E i \in DOMAIN s : Ord[s[i]] > 127

\* value_for_hex_char, for the characters it does not reject.
value_for_hex_char ==
  [c \in ToSet(Txt("0123456789ABCDEFabcdef")) |->
     IF Ord[c] <= 57 THEN Ord[c] - 48 ELSE IF Ord[c] <= 70 THEN Ord[c] - 55 ELSE Ord[c] - 87]

Digits == ToSet(Txt("0123456789"))
Alnum == Digits \cup ToSet(Txt("ABCDEFGHIJKLMNOPQRSTUVWXYZabcdefghijklmnopqrstuvwxyz"))

\* The result of a call: the value it returns, or the exception it throws.
Returns(v) == [ok |-> TRUE, val |-> v]
Thrown == [ok |-> FALSE, val |-> <<>>]
=============================================================================
