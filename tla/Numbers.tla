------------------------------- MODULE Numbers --------------------------------
(*************************************************************************)
(* Sizes (Strings.cc), durations (Time.cc), Math.hh, random_int          *)
(* (Random.cc), vectors and matrices (Vector.hh), and what they promise. *)
(* A formatted number is its whole part, the digits of its fraction, and *)
(* what follows.                                                         *)
(*************************************************************************)
EXTENDS LibraryInput

CONSTANTS
  Unit,                   \* KB_SIZE, 1024 in the code
  SecondDigits,           \* the decimals of a second that a microsecond is: 6 in the code
  MinuteDigits            \* the decimals from one minute on: 3 in the code

\* n / d to p decimals as std::format prints it: to the nearest, a half to the even one.
Rounded(n, d, p) ==
  LET q == (n * 10 ^ p) \div d
      twice == 2 * ((n * 10 ^ p) % d)
  IN  IF twice > d \/ (twice = d /\ q % 2 = 1) THEN q + 1 ELSE q

FractionDigits(n, p) == [i \in 1..p |-> (n \div 10 ^ (p - i)) % 10]

Text(whole, fraction, word) == [whole |-> whole, fraction |-> fraction, word |-> word]

\* --- sizes ------------------------------------------------------------------

UnitChars == <<"K", "M", "G", "T", "P", "E">>

\* The largest unit that is not larger than size; what follows the bytes in parentheses is wording.
format_size(size, include_bytes) ==
  IF size < Unit \/ include_bytes THEN Text(size, <<>>, "b")
  ELSE LET u == Max({i \in DOMAIN UnitChars : Unit ^ i <= size})
           hundredths == Rounded(size, Unit ^ u, 2)
       IN  Text(hundredths \div 100, FractionDigits(hundredths, 2), UnitChars[u])

\* The two products are truncated one by one.
parse_size(text) ==
  LET scale == IF Contains(UnitChars, text.word) THEN Unit ^ (CHOOSE i \in DOMAIN UnitChars : UnitChars[i] = text.word) ELSE 1
      tenths == FoldLeft(LAMBDA n, d : 10 * n + d, 0, text.fraction)
  IN  text.whole * scale + (tenths * scale) \div 10 ^ Len(text.fraction)

\* --- durations --------------------------------------------------------------

Second == 10 ^ SecondDigits

SecondsText(usecs, precision) ==
  LET n == Rounded(usecs, Second, precision) IN Text(n \div 10 ^ precision, FractionDigits(n, precision), "")

\* The fields from the largest on, the seconds, and whether a zero is put before them: when the second
\* character of their text is the point.  From one minute to one hour the code does not ask first whether
\* there is a second character, and at(1) throws when there is none.
format_duration(usecs, subsecond_precision) ==
  LET default == IF usecs < 60 * Second THEN SecondDigits ELSE IF usecs < 3600 * Second THEN MinuteDigits ELSE 0
      precision == IF subsecond_precision < 0 THEN default ELSE subsecond_precision
      minutes == usecs \div (60 * Second)
      seconds == SecondsText(IF minutes = 0 THEN usecs ELSE usecs % (60 * Second), precision)
      padded == seconds.whole < 10
  IN  IF minutes = 0 THEN [ok |-> TRUE, fields |-> <<>>, seconds |-> seconds, padded |-> FALSE]
      ELSE IF minutes < 60
      THEN [ok |-> ~(padded /\ precision = 0), fields |-> <<minutes>>, seconds |-> seconds, padded |-> padded]
      ELSE LET hours == minutes \div 60
               fields == IF hours < 24 THEN <<hours, minutes % 60>> ELSE <<hours \div 24, hours % 24, minutes % 60>>
           IN  [ok |-> TRUE, fields |-> fields, seconds |-> seconds, padded |-> padded]

\* --- Math.hh ----------------------------------------------------------------

\* C's remainder has the sign of the dividend.
CRem(a, b) == LET Abs(n) == IF n < 0 THEN -n ELSE n IN IF a < 0 THEN -(Abs(a) % Abs(b)) ELSE Abs(a) % Abs(b)

gcd(a, b) ==
  LET RECURSIVE G(_, _)
      G(x, y) == IF y = 0 THEN x ELSE G(y, CRem(x, y))
  IN  G(a, b)

\* C's division: the quotients are exact here.
reduce_fraction(a, b) ==
  LET denom == gcd(a, b)
      Quotient(n) == IF denom < 0 THEN (-n) \div (-denom) ELSE n \div denom
  IN  <<Quotient(a), Quotient(b)>>

\* __builtin_clz counts in 32 bits, whatever the unsigned type of v; the result is of that type too.
log2i(v, bytes) ==
  LET clz == 31 - Max({i \in 0..30 : 2 ^ i <= v})
      n == 8 * bytes - 1 - clz
  IN  IF n >= 0 THEN n ELSE n + 2 ^ (8 * bytes)

-----------------------------------------------------------------------------
(***************************************************************************)
(* random_int (Random.cc), with integers of WordBits bits for the code's 64:   *)
(* the types of 32, 16 and 8 bits are those of a half, a quarter and an    *)
(* eighth of WordBits.                                                         *)
(***************************************************************************)

CONSTANT WordBits

Signed(n) == ((n + 2 ^ (WordBits - 1)) % 2 ^ WordBits) - 2 ^ (WordBits - 1)
Remainder(a, b) == IF b > 0 THEN a % b ELSE a % (-b)

\* The width that is drawn: the smallest whose largest number is not less than range, as compared in int64_t.
Width(range) ==
  IF range > 2 ^ (WordBits \div 2) - 1 THEN WordBits
  ELSE IF range > 2 ^ (WordBits \div 4) - 1 THEN WordBits \div 2
  ELSE IF range > 2 ^ (WordBits \div 8) - 1 THEN WordBits \div 4 ELSE WordBits \div 8

\* Mutant: high is not in the range.
RandomIntOpen(low, high) ==
  LET range == Signed(high - low)
  IN  IF range = 0 THEN {} ELSE {Signed(low + Remainder(r, range)) : r \in 0..(2 ^ Width(range) - 1)}

\* The numbers it may return; none when it divides by zero.  high - low + 1 wraps when the range is wide.
random_int(low, high) ==
  LET range == Signed(high - low + 1)
  IN  IF range = 0 THEN {} ELSE {Signed(low + Remainder(r, range)) : r \in 0..(2 ^ Width(range) - 1)}

-----------------------------------------------------------------------------
(***************************************************************************)
(* Vector2, Vector3, Vector4 and Matrix4 (Vector.hh, Vector-inl.hh) over   *)
(* the integers.  The entries of a matrix that is inverted are fractions;  *)
(* the rounding of the code's doubles is left out.                         *)
(***************************************************************************)

\* C's operators; the quotient is cut off towards zero.
Op(op, a, b) ==
  LET Abs(n) == IF n < 0 THEN -n ELSE n
      quotient == IF (a < 0) = (b < 0) THEN Abs(a) \div Abs(b) ELSE -(Abs(a) \div Abs(b))
  IN  CASE op = "+" -> a + b
        [] op = "-" -> a - b
        [] op = "*" -> a * b
        [] op = "/" -> quotient
        [] op = "%" -> a - b * quotient

\* Each operator, and its assignment form, works on the components.  A number is a vector of equal ones.
Vector2Op(op, a, b) == <<Op(op, a[1], b[1]), Op(op, a[2], b[2])>>
Vector3Op(op, a, b) == <<Op(op, a[1], b[1]), Op(op, a[2], b[2]), Op(op, a[3], b[3])>>
Vector4Op(op, a, b) == <<Op(op, a[1], b[1]), Op(op, a[2], b[2]), Op(op, a[3], b[3]), Op(op, a[4], b[4])>>

\* operator< compares the components in order.
Vector2Less(a, b) == a[1] < b[1] \/ (a[1] = b[1] /\ a[2] < b[2])
Vector3Less(a, b) == a[1] < b[1] \/ (a[1] = b[1] /\ Vector2Less(Tail(a), Tail(b)))
Vector4Less(a, b) == a[1] < b[1] \/ (a[1] = b[1] /\ Vector3Less(Tail(a), Tail(b)))

Vector2Dot(a, b) == a[1] * b[1] + a[2] * b[2]
Vector3Dot(a, b) == a[1] * b[1] + a[2] * b[2] + a[3] * b[3]
Vector4Dot(a, b) == a[1] * b[1] + a[2] * b[2] + a[3] * b[3] + a[4] * b[4]

\* norm1 adds the components, not their absolute values.
norm1(a) == FoldLeft(LAMBDA sum, n : sum + n, 0, a)

cross(a, b) == <<a[2] * b[3] - a[3] * b[2], a[3] * b[1] - a[1] * b[3], a[1] * b[2] - a[2] * b[1]>>

\* --- Matrix4: m[x][y] is the entry of column x and row y ----------------------

identity == [x \in 1..4 |-> [y \in 1..4 |-> IF x = y THEN 1 ELSE 0]]

MatrixOp(op, m, n) == [x \in 1..4 |-> Vector4Op(op, m[x], n[x])]

TimesVector(m, v) ==
  [y \in 1..4 |-> m[1][y] * v[1] + m[2][y] * v[2] + m[3][y] * v[3] + m[4][y] * v[4]]

Times(m, n) == [x \in 1..4 |-> TimesVector(m, n[x])]

transposition(m) == [x \in 1..4 |-> [y \in 1..4 |-> m[y][x]]]

\* --- fractions [n, d] in lowest terms, d > 0 ------------------------------------

RECURSIVE Gcd(_, _)
Gcd(a, b) == IF b = 0 THEN a ELSE Gcd(b, a % b)

Frac(n, d) ==
  LET Abs(k) == IF k < 0 THEN -k ELSE k
      g == Gcd(Abs(n), Abs(d))
      sign == IF d < 0 THEN -1 ELSE 1
  IN  [n |-> sign * (n \div g), d |-> sign * (d \div g)]

\* a / b and a + b * f
Over(a, b) == Frac(a.n * b.d, a.d * b.n)
PlusTimes(a, b, f) == Frac(a.n * b.d * f.d + b.n * f.n * a.d, a.d * b.d * f.d)

\* Row z of m divided by its entry in column z, whichever matrix divisor is from.
DivideRow(m, z, divisor) == [x \in 1..4 |-> [m[x] EXCEPT ![z] = Over(@, divisor)]]

\* Row z, times minus the entry of left in column z, added to every other row.
AddRows(m, z, left) ==
  [x \in 1..4 |->
     [y \in 1..4 |-> IF y = z THEN m[x][y]
                     ELSE PlusTimes(m[x][y], m[x][z], [n |-> -left[z][y].n, d |-> left[z][y].d])]]

\* One turn of invert's loop; the rows are never exchanged, and once the loop has thrown the matrix keeps
\* what the turns before have made of it.
InvertStep(st, z) ==
  LET divisor == st.left[z][z]
  IN  IF ~st.ok \/ divisor.n = 0 THEN [st EXCEPT !.ok = FALSE]
      ELSE LET left == DivideRow(st.left, z, divisor)
               this == DivideRow(st.this, z, divisor)
           IN  [ok |-> TRUE, left |-> AddRows(left, z, left), this |-> AddRows(this, z, left)]

Fractions(m) == [x \in 1..4 |-> [y \in 1..4 |-> Frac(m[x][y], 1)]]

Matrix4Invert(m) ==
  FoldLeft(InvertStep, [ok |-> TRUE, left |-> Fractions(m), this |-> Fractions(identity)], <<1, 2, 3, 4>>)

-----------------------------------------------------------------------------
(***************************************************************************)
(* What sizes, durations, fractions, random integers, vectors and matrices *)
(* promise.                                                                *)
(***************************************************************************)

NumberKinds == {"size", "duration", "fraction", "log", "range", "vector", "matrix"}

Entries == {-2, 0, 1, 3}
Matrices(e) ==
  {<<<<a, b, 0, 1>>, <<c, d, 1, 0>>, <<0, f, 1, g>>, <<1, 0, 0, 2>>>> : a, b, c, d, f, g \in e}

\* The durations close to one, two and three times n.
Around(n) == {n * k + d : k \in 1..3, d \in {-101, -100, -99, -51, -50, -49, -1, 0, 1, 4, 5, 6, 49, 50, 51, 950, 990, 995, 996}}

NumberInput ==
  \/ Picked("size") /\ \E n \in 0..12300 : input' = [kind |-> "size", size |-> n]
  \/ /\ Picked("duration")
     /\ \E n \in 0..1000 \cup Around(60 * Second) \cup Around(3600 * Second) \cup Around(86400 * Second), p \in -1..2 :
          input' = [kind |-> "duration", usecs |-> n, precision |-> p]
  \/ Picked("fraction") /\ \E a, b \in -12..12 : input' = [kind |-> "fraction", a |-> a, b |-> b]
  \/ Picked("log") /\ \E v \in 1..130, bytes \in {1, 2, 4, 8} : input' = [kind |-> "log", v |-> v, bytes |-> bytes]
  \/ Picked("range") /\ \E low \in {-128, -127, -1, 0, 5, 100}, high \in -128..127 : input' = [kind |-> "range", low |-> low, high |-> high]
  \/ Picked("vector") /\ \E a, b \in [1..3 -> Entries] : input' = [kind |-> "vector", a |-> a, b |-> b]
  \/ Picked("matrix") /\ \E m \in Matrices({-1, 0, 2}) : input' = [kind |-> "matrix", m |-> m, v |-> <<1, -2, 3, 0>>]
-----------------------------------------------------------------------------
(* A size that is printed with its bytes is read back exactly; printed short, to within half a       *)
(* hundredth of its unit and a byte that the products lose, and never as Unit or more of a unit       *)
(* unless it rounds up to that.                                                                       *)
SizesAreReadBack ==
  input.kind = "size" =>
    LET size == input.size
        short == format_size(size, FALSE)
        scale == Max({1} \cup {Unit ^ i : i \in {j \in DOMAIN UnitChars : UnitChars[j] = short.word}})
    IN  /\ parse_size(format_size(size, TRUE)) = size
        /\ 200 * Magnitude(parse_size(short) - size) <= scale + 200
        /\ short.word \notin {"b", "E"} =>
             short.whole < Unit \/ (short.whole = Unit /\ 200 * (scale * Unit - size) <= scale)

(* The fields of a duration are in their ranges (the seconds may round up to 60) and add up to it,   *)
(* to half a tick of the last digit; formatting throws only without decimals between a minute and an *)
(* hour, when the seconds are one digit.                                                             *)
DurationsAddUp ==
  input.kind = "duration" =>
    LET r == format_duration(input.usecs, input.precision)
        n == Len(r.fields)
        places == Len(r.seconds.fraction)
        tick == 10 ^ (SecondDigits - places)
        minutes == IF n = 3 THEN (24 * r.fields[1] + r.fields[2]) * 60 + r.fields[3]
                   ELSE FoldLeft(LAMBDA sum, f : 60 * sum + f, 0, r.fields)
        ticks == (60 * minutes + r.seconds.whole) * 10 ^ places
                   + FoldLeft(LAMBDA sum, d : 10 * sum + d, 0, r.seconds.fraction)
    IN  /\ 2 * Magnitude(ticks * tick - input.usecs) <= tick
        /\ \A i \in 2..n : r.fields[i] < (IF n = 3 /\ i = 2 THEN 24 ELSE 60)
        /\ r.seconds.whole <= 60
        /\ r.ok \/ (input.precision = 0 /\ n = 1 /\ r.seconds.whole < 10)
        /\ r.padded <=> n > 0 /\ r.seconds.whole < 10

(* gcd is the greatest divisor of both but for its sign, zero only for two zeroes, and the reduced   *)
(* fraction has the value of the fraction; log2i is the logarithm for the types of four bytes (no     *)
(* more is claimed of it).                                                                            *)
FractionsAreReduced ==
  /\ input.kind = "fraction" =>
       LET a == input.a  b == input.b  g == gcd(a, b)
           Divides(d, n) == Magnitude(n) % Magnitude(d) = 0
           f == reduce_fraction(a, b)
       IN  IF a = 0 /\ b = 0 THEN g = 0
           ELSE /\ Divides(g, a) /\ Divides(g, b)
                /\ \A d \in 1..12 : Divides(d, a) /\ Divides(d, b) => d <= Magnitude(g)
                /\ f[1] * b = f[2] * a /\ (a > 0 /\ b > 0 => f[2] > 0)
  /\ input.kind = "log" =>
       (input.bytes = 4 => log2i(input.v, input.bytes) = Max({i \in 0..30 : 2 ^ i <= input.v}))

(* random_int can return every number of the range and no other, whichever width the range makes it  *)
(* draw, as long as the range does not wrap: as long as it is less than half the integers.           *)
EveryNumberOfTheRange ==
  input.kind = "range" =>
    (input.low <= input.high /\ input.high - input.low + 1 < 2 ^ (WordBits - 1) => random_int(input.low, input.high) = input.low..input.high)

FirstDifferenceLess(a, b) ==
  LET diff == {i \in DOMAIN a : a[i] # b[i]} IN diff # {} /\ a[Min(diff)] < b[Min(diff)]

(* The products of vectors obey the identities that define them (the cross product is at right       *)
(* angles to both and as long as the area; division and remainder fit), and vectors are ordered by   *)
(* the first component in which they differ.                                                         *)
ProductsFit ==
  input.kind = "vector" =>
    LET a == input.a  b == input.b  c == cross(a, b)
        a2 == SubSeq(a, 1, 2)  b2 == SubSeq(b, 1, 2)
        a4 == Append(a, a[1])  b4 == Append(b, b[2])
    IN  /\ Vector3Dot(a, c) = 0 /\ Vector3Dot(b, c) = 0
        /\ Vector3Dot(c, c) = Vector3Dot(a, a) * Vector3Dot(b, b) - Vector3Dot(a, b) * Vector3Dot(a, b)
        /\ cross(b, a) = [i \in 1..3 |-> -c[i]]
        /\ Vector2Less(a2, b2) <=> FirstDifferenceLess(a2, b2)
        /\ Vector3Less(a, b) <=> FirstDifferenceLess(a, b)
        /\ Vector4Less(a4, b4) <=> FirstDifferenceLess(a4, b4)
        /\ (\A i \in 1..3 : b[i] # 0) => Vector3Op("+", Vector3Op("*", Vector3Op("/", a, b), b), Vector3Op("%", a, b)) = a
        /\ Vector4Dot(Vector4Op("+", a4, b4), a4) = Vector4Dot(a4, a4) + Vector4Dot(b4, a4)
        /\ Vector2Dot(Vector2Op("-", a2, b2), Vector2Op("-", a2, b2)) = Vector2Dot(a2, a2) + Vector2Dot(b2, b2) - 2 * Vector2Dot(a2, b2)

\* The determinant, by its first column
RECURSIVE Det(_)
Det(m) ==
  IF m = <<>> THEN 1
  ELSE LET n == Len(m)
           Minor(x) == [i \in 1..(n - 1) |-> SubSeq(m[IF i < x THEN i ELSE i + 1], 2, n)]
       IN  FoldLeft(LAMBDA sum, x : sum + (IF x % 2 = 1 THEN 1 ELSE -1) * m[x][1] * Det(Minor(x)), 0, [x \in 1..n |-> x])

Leading(m, n) == [x \in 1..n |-> SubSeq(m[x], 1, n)]

(* What invert returns is the inverse, up to rounding; it throws when there is none, and does not when *)
(* no leading minor is zero (it never exchanges rows; of the matrices between the two nothing is       *)
(* claimed).  The products of matrices and vectors associate, and transposing turns a product round.   *)
InversesInvert ==
  input.kind = "matrix" =>
    LET m == input.m
        r == Matrix4Invert(m)
        entries == FlattenSeq(r.this)
        common == FoldLeft(LAMBDA p, x : (p * x.d) \div Gcd(p, x.d), 1, entries)
        scaled == [x \in 1..4 |-> [y \in 1..4 |-> r.this[x][y].n * (common \div r.this[x][y].d)]]
    IN  /\ Det(m) = 0 => ~r.ok
        /\ (\A n \in 1..4 : Det(Leading(m, n)) # 0) => r.ok
        /\ r.ok => Times(m, scaled) = [x \in 1..4 |-> [y \in 1..4 |-> common * identity[x][y]]]
        /\ Times(transposition(m), transposition(Times(m, m))) = transposition(Times(Times(m, m), m))
        /\ TimesVector(Times(m, m), input.v) = TimesVector(m, TimesVector(m, input.v))
        /\ MatrixOp("-", MatrixOp("+", m, identity), identity) = m

\* Sizes, durations, fractions, ranges and vectors: the number that comes out is the
\* number meant (Strings.cc, Time.cc, Math.hh, Random.hh, Vector-inl.hh).
NumbersCorrect ==
  input.kind \in NumberKinds =>
    /\ SizesAreReadBack
    /\ DurationsAddUp
    /\ FractionsAreReduced
    /\ EveryNumberOfTheRange
    /\ ProductsFit
    /\ InversesInvert
=============================================================================
