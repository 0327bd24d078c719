------------------------------ MODULE Encodings -------------------------------
(*************************************************************************)
(* Encoding.cc and Encoding.hh: base64, rot13, byte order, sign          *)
(* extension; the hashes of Hash.cc; and what they promise. An integer   *)
(* of n bytes is the sequence of its bytes, least significant first,     *)
(* which is also its memory on a little-endian host.                     *)
(*************************************************************************)
EXTENDS LibraryInput, Bitwise

DEFAULT_ALPHABET == Txt("ABCDEFGHIJKLMNOPQRSTUVWXYZabcdefghijklmnopqrstuvwxyz0123456789+/")
URLSAFE_ALPHABET == Txt("ABCDEFGHIJKLMNOPQRSTUVWXYZabcdefghijklmnopqrstuvwxyz0123456789-_")

\* The four 6-bit digits of up to three bytes.
Sextets(bytes) ==
  LET Byte(i) == IF i <= Len(bytes) THEN bytes[i] ELSE 0
      n == Byte(1) * 65536 + Byte(2) * 256 + Byte(3)
  IN  <<n \div 262144, (n \div 4096) % 64, (n \div 64) % 64, n % 64>>

\* The groups of n into which s falls.
Groups(s, n) == [g \in 1..((Len(s) + n - 1) \div n) |-> SubSeq(s, n * (g - 1) + 1, Min({n * g, Len(s)}))]

\* Three bytes are four characters; a shorter last group is padded.
base64_encode(data, alphabet) ==
  LET Block(b) == [i \in 1..4 |-> IF i <= Len(b) + 1 THEN alphabet[Sextets(b)[i] + 1] ELSE "="]
      blocks == Groups(data, 3)
  IN  FlattenSeq([g \in DOMAIN blocks |-> Block(blocks[g])])

\* Mutant: a character outside the alphabet counts as zero.
Inverse64Lenient(alphabet, c) ==
  LET places == {x \in 1..64 : alphabet[x] = c} IN IF c = "=" THEN 128 ELSE Max(places \cup {1}) - 1

\* inverse_alphabet: 0xFF for a character of no use, 0x80 for the padding.
Inverse64(alphabet, c) ==
  LET places == {x \in 1..64 : alphabet[x] = c}
  IN  IF c = "=" THEN 128 ELSE IF places = {} THEN 255 ELSE Max(places) - 1

\* The bytes of four characters, or an exception.  With one pad the third character is not checked.
Block64(c, last) ==
  LET bytes == << (4 * c[1] + (c[2] \div 16)) % 256, (16 * c[2] + ((c[3] \div 4) % 16)) % 256, (64 * c[3] + c[4]) % 256 >>
      Valid(n) == \A i \in 1..n : c[i] < 64
      Take(n, valid) == IF valid THEN Returns(SubSeq(bytes, 1, n)) ELSE Thrown
  IN  IF c[4] # 128 THEN Take(3, Valid(4))
      ELSE IF ~last THEN Thrown
      ELSE Take(IF c[3] = 128 THEN 1 ELSE 2, Valid(2))

base64_decode(text, alphabet) ==
  LET blocks == Groups([i \in DOMAIN text |-> Inverse64(alphabet, text[i])], 4)
      bytes == [g \in DOMAIN blocks |-> Block64(blocks[g], g = Len(blocks))]
  IN  IF Len(text) % 4 # 0 \/ \E g \in DOMAIN blocks : ~bytes[g].ok THEN Thrown
      ELSE Returns(FlattenSeq([g \in DOMAIN bytes |-> bytes[g].val]))

rot13(text) ==
  LET Turned(o) == IF o \in 97..109 \/ o \in 65..77 THEN o + 13 ELSE IF o \in 110..122 \/ o \in 78..90 THEN o - 13 ELSE o
  IN  [i \in DOMAIN text |-> Chr[Turned(Ord[text[i]])]]
-----------------------------------------------------------------------------
Zeros(n) == [i \in 1..n |-> 0]
Ones(n) == [i \in 1..n |-> 255]
Negative(bytes) == bytes[Len(bytes)] >= 128

\* sign_extend<ResultT>(src), width the bytes of ResultT.
sign_extend(src, width) == src \o (IF Negative(src) THEN Ones(width - Len(src)) ELSE Zeros(width - Len(src)))

\* ext24 keeps what is above bit 23 of a value that is not negative.
ext24(a) == IF a[3] >= 128 THEN SubSeq(a, 1, 3) \o Ones(1) ELSE a

\* ext48 tests bit 39 and sets bits 40 to 55.
ext48(a) == IF a[5] >= 128 THEN SubSeq(a, 1, 5) \o Ones(2) \o <<a[8]>> ELSE a

\* bswap16, bswap32 and bswap64 reverse all bytes, bswap24 and bswap48 the low three or six.
bswap(a) == Reverse(a)
bswap24(a) == Reverse(SubSeq(a, 1, 3)) \o Zeros(1)

bswap24s(a) == sign_extend(Reverse(SubSeq(a, 1, 3)), 4)
bswap48(a) == Reverse(SubSeq(a, 1, 6)) \o Zeros(2)
bswap48s(a) == sign_extend(Reverse(SubSeq(a, 1, 6)), 8)
-----------------------------------------------------------------------------
(* converted_endian for an unsigned type of two bytes. *)

Wide(n) == <<n % 256, (n \div 256) % 256>>
Narrow(b) == b[1] + 256 * b[2]

\* OnStoreSt and OnLoadSt: the identity for the host's order, bswap for the other.
OnStore(order, n) == IF order = "same" THEN Wide(n) ELSE bswap(Wide(n))
OnLoad(order, value) == Narrow(IF order = "same" THEN value ELSE bswap(value))

\* The operators of the assignments, as C++ computes them before the store truncates.
Arithmetic(op, a, d) ==
  CASE op = "+=" -> a + d
    [] op = "-=" -> a - d
    [] op = "*=" -> a * d
    [] op = "/=" -> a \div d
    [] op = "%=" -> a % d
    [] op = "&=" -> a & d
    [] op = "|=" -> a | d
    [] op = "^=" -> a ^^ d
    [] op = "<<=" -> a * 2 ^ d
    [] op = ">>=" -> a \div 2 ^ d

\* What an operation leaves in the object and what its expression is worth.
Assigned(order, value, op, d) ==
  LET old == OnLoad(order, value)
      Left(n) == OnStore(order, n % 65536)
  IN  CASE op = "=" -> [value |-> Left(d), returns |-> d]
        [] op = "++x" -> [value |-> Left(old + 1), returns |-> Narrow(Left(old + 1))]
        [] op = "--x" -> [value |-> Left(old - 1), returns |-> Narrow(Left(old - 1))]
        [] op = "x++" -> [value |-> Left(old + 1), returns |-> old]
        [] op = "x--" -> [value |-> Left(old - 1), returns |-> old]
        [] OTHER -> LET n == Arithmetic(op, old, d) % 65536
                    IN  [value |-> OnStore(order, n), returns |-> n]

-----------------------------------------------------------------------------
(***************************************************************************)
(* Hash.cc: the checksums in full, and of MD5, SHA-1 and SHA-256 how a     *)
(* message is cut into blocks, padded and chained; the compression of a    *)
(* block is taken to be free, so that a digest is the chain of blocks that *)
(* were compressed.  A word is its bytes, least significant first.         *)
(***************************************************************************)

CONSTANTS
  BlockBytes,             \* 0x40 in the code
  LengthBytes             \* the bytes of the length at the end of the message: 8 in the code

ASSUME HashAssumption == /\ BlockBytes \in Nat /\ LengthBytes \in 1..3
                         /\ LengthBytes < BlockBytes

XorWord(a, b) == <<a[1] ^^ b[1], a[2] ^^ b[2], a[3] ^^ b[3], a[4] ^^ b[4]>>
Complement(a) == <<255 - a[1], 255 - a[2], 255 - a[3], 255 - a[4]>>

\* A word one bit to the right.
Halved(w) ==
  LET Bit(i) == (w[i] \div 2) + 128 * (w[i + 1] % 2)
  IN  <<Bit(1), Bit(2), Bit(3), w[4] \div 2>>

\* crc32_table: the remainders modulo the reversed polynomial 0xEDB88320.
crc32_table ==
  LET Shift(w) == IF w[1] % 2 = 1 THEN XorWord(Halved(w), <<32, 131, 184, 237>>) ELSE Halved(w)
  IN  [n \in 0..255 |-> FoldLeft(LAMBDA w, i : Shift(w), <<n, 0, 0, 0>>, [i \in 1..8 |-> i])]

crc32(data, cs) ==
  Complement(FoldLeft(LAMBDA w, b : XorWord(<<w[2], w[3], w[4], 0>>, crc32_table[w[1] ^^ b]), Complement(cs), data))

\* a * small + 2^(8 * bytes) * a, modulo the width of a.
TimesPrime(a, small, bytes) ==
  LET Digit(st, i) ==
        LET n == a[i] * small + st.carry + IF i > bytes THEN a[i - bytes] ELSE 0
        IN  [word |-> Append(st.word, n % 256), carry |-> n \div 256]
  IN  FoldLeft(Digit, [word |-> <<>>, carry |-> 0], [i \in DOMAIN a |-> i]).word

\* The primes are 2^24 + 0x193 and 2^40 + 0x1B3.
fnv1a32(data, hash) == FoldLeft(LAMBDA h, b : TimesPrime(<<h[1] ^^ b>> \o Tail(h), 403, 3), hash, data)
fnv1a64(data, hash) == FoldLeft(LAMBDA h, b : TimesPrime(<<h[1] ^^ b>> \o Tail(h), 435, 5), hash, data)
-----------------------------------------------------------------------------

\* put_u8(0x80), extend_to, and pput_u64 of the length in bits.
Trailer(rest, size, big_endian) ==
  LET marked == Append(rest, 128)
      length == [i \in 1..LengthBytes |-> ((8 * size) \div 256 ^ (i - 1)) % 256]
      room == IF Len(marked) > BlockBytes - LengthBytes THEN 2 * BlockBytes ELSE BlockBytes
  IN  marked \o [i \in 1..(room - LengthBytes - Len(marked)) |-> 0]
             \o (IF big_endian THEN Reverse(length) ELSE length)

\* The blocks that process_block is called with, in order.
Processed(data, big_endian) ==
  LET whole == Len(data) \div BlockBytes
      last == Trailer(SubSeq(data, whole * BlockBytes + 1, Len(data)), Len(data), big_endian)
      Block(bytes, k) == SubSeq(bytes, BlockBytes * (k - 1) + 1, BlockBytes * k)
  IN  [k \in 1..(whole + Len(last) \div BlockBytes) |-> IF k <= whole THEN Block(data, k) ELSE Block(last, k - whole)]

\* process_block compresses its block into the state.
Digest(algorithm, start, blocks) == FoldLeft(LAMBDA chain, b : <<algorithm, chain, b>>, start, blocks)

MD5(data) == Digest("MD5", <<>>, Processed(data, FALSE))
SHA1(data) == Digest("SHA1", <<>>, Processed(data, TRUE))
SHA256(data) == Digest("SHA256", <<>>, Processed(data, TRUE))

-----------------------------------------------------------------------------
(***************************************************************************)
(* What the encodings and the hashes promise.                              *)
(***************************************************************************)

CodecKinds == {"encode", "decode", "swap", "endian", "hash"}

Assignments == {"=", "++x", "--x", "x++", "x--", "+=", "-=", "*=", "/=", "%=", "&=", "|=", "^=", "<<=", ">>="}

CodecInput ==
  \/ /\ Picked("encode")
     /\ \E d \in Texts({0, 3, 63, 250, 255}, 4), alphabet \in {DEFAULT_ALPHABET, URLSAFE_ALPHABET} :
          input' = [kind |-> "encode", d |-> d, alphabet |-> alphabet]
  \/ /\ Picked("decode")
     /\ \E t \in Texts({"A", "/", "w", "=", "!"}, 4) \cup [1..8 -> {"A", "w", "="}] : input' = [kind |-> "decode", t |-> t]
  \/ Picked("swap") /\ \E a \in [1..8 -> {127, 128}] \cup [1..8 -> {0, 255}] : input' = [kind |-> "swap", a |-> a]
  \/ /\ Picked("endian")
     /\ \E low, high \in {0, 1, 127, 128, 255}, order \in {"same", "reverse"}, op \in Assignments, d \in {1, 3, 15} :
          input' = [kind |-> "endian", v |-> Narrow(<<low, high>>), order |-> order, op |-> op, d |-> d]
  \/ /\ Picked("hash")
     /\ \E d, e \in Texts({0, 1, 128}, 2) \cup [1..3 -> {0, 128}] \cup {[i \in 1..n |-> i % 3] : n \in 4..9} :
          Len(d) = Len(e) /\ input' = [kind |-> "hash", d |-> d, e |-> e]
-----------------------------------------------------------------------------
InAlphabet(c) == \E i \in DOMAIN DEFAULT_ALPHABET : DEFAULT_ALPHABET[i] = c

\* Base64 text: whole groups of the alphabet, with one or two marks at the end of the last.
IsBase64(t) ==
  /\ Len(t) % 4 = 0
  /\ \A i \in DOMAIN t : IF t[i] = "=" THEN i = Len(t) \/ (i = Len(t) - 1 /\ Last(t) = "=") ELSE InAlphabet(t[i])

\* The third character of a last group that ends in one mark is never looked at.
UncheckedThird(t) ==
  Len(t) > 1 /\ Last(t) = "=" /\ t[Len(t) - 1] # "=" /\ IsBase64([t EXCEPT ![Len(t) - 1] = "A"])

(* What base64_encode writes base64_decode reads, in either alphabet; it accepts base64 texts and no *)
(* others, but for one character that it never looks at; and what it accepts it means: encoding the  *)
(* result again gives a text of that length that reads the same.                                    *)
Base64RoundTrips ==
  /\ input.kind = "encode" => base64_decode(base64_encode(input.d, input.alphabet), input.alphabet) = Returns(input.d)
  /\ input.kind = "decode" =>
       LET r == base64_decode(input.t, DEFAULT_ALPHABET)
           again == base64_encode(r.val, DEFAULT_ALPHABET)
       IN  /\ r.ok <=> IsBase64(input.t) \/ UncheckedThird(input.t)
           /\ IsBase64(input.t) => Len(again) = Len(input.t) /\ base64_decode(again, DEFAULT_ALPHABET) = r

(* The swaps and the extensions of 24 and 48 bits fit together: swapping twice gives the number back *)
(* and extending a swapped number is the signed swap; only ext48 goes wrong, for numbers whose bit   *)
(* 39 or 47 is set (it looks at the one and fills up from the other).                               *)
OddWidthsFit ==
  input.kind = "swap" =>
    LET Low(n) == SubSeq(input.a, 1, n)
    IN  /\ ext24(Low(3) \o Zeros(1)) = sign_extend(Low(3), 4)
        /\ bswap24s(Low(4)) = ext24(bswap24(Low(4)))
        /\ bswap48(bswap48(input.a)) = Low(6) \o Zeros(2)
        /\ bswap48s(input.a) = sign_extend(SubSeq(bswap48(input.a), 1, 6), 8)
        /\ ext48(Low(6) \o Zeros(2)) = sign_extend(Low(6), 8) <=> (input.a[5] < 128 /\ input.a[6] < 128)

(* An integer stored in the other byte order behaves as one stored in the machine's: each assignment *)
(* leaves the same number and returns the same, but for ++x and --x, which return the stored bytes.  *)
ByteOrderIsInvisible ==
  input.kind = "endian" =>
    LET plain == Assigned("same", OnStore("same", input.v), input.op, input.d)
        r == Assigned(input.order, OnStore(input.order, input.v), input.op, input.d)
    IN  /\ OnLoad(input.order, r.value) = OnLoad("same", plain.value)
        /\ r.returns = plain.returns \/ (input.order = "reverse" /\ input.op \in {"++x", "--x"})

Offset32 == <<197, 157, 28, 129>>
Offset64 == <<37, 35, 34, 132, 228, 156, 242, 203>>
Differing(d, e) == {i \in DOMAIN d : d[i] # e[i]}

(* Hashing in pieces is hashing at once (crc32 and fnv1a take the hash so far), and no two of these  *)
(* inputs have the same crc32, nor two that differ in one byte the same fnv1a.                       *)
HashesInPieces ==
  input.kind = "hash" =>
    LET d == input.d
        e == input.e
        From(k) == SubSeq(d, k + 1, Len(d))
        UpTo(k) == SubSeq(d, 1, k)
    IN  /\ \A k \in 0..Len(d) :
             /\ crc32(d, Zeros(4)) = crc32(From(k), crc32(UpTo(k), Zeros(4)))
             /\ fnv1a32(d, Offset32) = fnv1a32(From(k), fnv1a32(UpTo(k), Offset32))
             /\ fnv1a64(d, Offset64) = fnv1a64(From(k), fnv1a64(UpTo(k), Offset64))
        /\ d # e => crc32(d, Zeros(4)) # crc32(e, Zeros(4))
        /\ Cardinality(Differing(d, e)) = 1 =>
             fnv1a32(d, Offset32) # fnv1a32(e, Offset32) /\ fnv1a64(d, Offset64) # fnv1a64(e, Offset64)

(* The blocks that md5, sha1 and sha256 digest are whole, spell the input, the mark behind it and    *)
(* its length, and take no block more than that needs; no two inputs give the same blocks.           *)
BlocksSpellTheInput ==
  input.kind = "hash" =>
    LET blocks == Processed(input.d, TRUE)
        all == FlattenSeq(blocks)
        n == Len(input.d)
    IN  /\ \A i \in DOMAIN blocks : Len(blocks[i]) = BlockBytes
        /\ SubSeq(all, 1, n) = input.d /\ all[n + 1] = 128
        /\ Last(all) = 8 * n
        /\ Len(all) - n \in (1 + LengthBytes)..(LengthBytes + BlockBytes)
        /\ input.d # input.e => SHA1(input.d) # SHA1(input.e)

\* Encodings are undone, byte orders cannot be seen, and a hash does not depend on
\* how its input comes (Encoding.cc, Encoding.hh, Hash.cc).
EncodingsCorrect ==
  input.kind \in CodecKinds =>
    /\ Base64RoundTrips
    /\ OddWidthsFit
    /\ ByteOrderIsInvisible
    /\ HashesInPieces
    /\ BlocksSpellTheInput
=============================================================================
