-------------------------------- MODULE Images --------------------------------
(*************************************************************************)
(* Image.hh: the colours and pixel formats, drawing and copying, the     *)
(* image files, and what they promise. A colour, the code's 0xRRGGBBAA,  *)
(* is the tuple <<r, g, b, a>> of its bytes. The byte orders of a format *)
(* (native, LE, BE) are stored and loaded alike.                         *)
(*************************************************************************)
EXTENDS LibraryInput, Functions, TLC

gray(v, a) == <<v, v, v, a>>
White == gray(255, 255)
Black == gray(0, 255)
Transparent == gray(0, 0)

SameRGB(c, d) == SubSeq(c, 1, 3) = SubSeq(d, 1, 3)
replace_alpha(c, alpha) == <<c[1], c[2], c[3], alpha>>
Brightness(c) == (c[1] + c[2] + c[3]) \div 3

alpha_blend(orig, new) ==
  LET Mix(i) == (new[4] * new[i] + (255 - new[4]) * orig[i]) \div 255
  IN  <<Mix(1), Mix(2), Mix(3), orig[4]>>

invert(c) == <<255 - c[1], 255 - c[2], 255 - c[3], c[4]>>

\* A channel of 5 or 6 bits, widened by its own top bits.
Widen5(v) == (v \div 8) * 8 + v \div 32
Widen6(v) == (v \div 4) * 4 + v \div 64

\* The colour that is read where the colour c was written.
xrgb1555(c) == <<Widen5(c[1]), Widen5(c[2]), Widen5(c[3]), 255>>
argb1555(c) == replace_alpha(xrgb1555(c), IF c[4] >= 128 THEN 255 ELSE 0)
rgb565(c) == <<Widen5(c[1]), Widen6(c[2]), Widen5(c[3]), 255>>
g8(c) == gray(Brightness(c), 255)
ga88(c) == gray(Brightness(c), c[4])
rgb888(c) == replace_alpha(c, 255)
rgba8888(c) == c

Formats == {"G1", "GA11", "G8", "GA88", "XRGB1555", "ARGB1555", "RGB565", "RGB888", "RGBA8888"}
HAS_ALPHA(format) == format \in {"GA11", "GA88", "ARGB1555", "RGBA8888"}

\* --- the packed formats: a row is a sequence of bytes -----------------------

\* Bits at..at + n - 1 of byte, from the top, and the byte with them replaced.
Field(byte, at, n) == (byte \div 2 ^ (8 - at - n)) % 2 ^ n

WithField(byte, at, n, v) == byte + (v - Field(byte, at, n)) * 2 ^ (8 - at - n)

\* Eight pixels to a byte, the leftmost in the top bit; a 1 is black.
read_G1(row, x) == IF Field(row[(x \div 8) + 1], x % 8, 1) = 1 THEN Black ELSE White

write_G1(row, x, c) ==
  [row EXCEPT ![(x \div 8) + 1] = WithField(@, x % 8, 1, IF Brightness(c) >= 128 THEN 0 ELSE 1)]

\* Four pixels to a byte; the top bit is black, the other one alpha.
read_GA11(row, x) ==
  <<Transparent, White, Transparent, Black>>[Field(row[(x \div 4) + 1], 2 * (x % 4), 2) + 1]

write_GA11(row, x, c) ==
  [row EXCEPT ![(x \div 4) + 1] =
     WithField(@, 2 * (x % 4), 2, IF c[4] < 128 THEN 0 ELSE IF Brightness(c) >= 128 THEN 1 ELSE 3)]

Stored(format, c) ==
  CASE format = "G1" -> read_G1(write_G1(<<0>>, 0, c), 0)
    [] format = "GA11" -> read_GA11(write_GA11(<<0>>, 0, c), 0)
    [] format = "G8" -> g8(c)
    [] format = "GA88" -> ga88(c)
    [] format = "XRGB1555" -> xrgb1555(c)
    [] format = "ARGB1555" -> argb1555(c)
    [] format = "RGB565" -> rgb565(c)
    [] format = "RGB888" -> rgb888(c)
    [] format = "RGBA8888" -> rgba8888(c)

-----------------------------------------------------------------------------
(***************************************************************************)
(* Image (Image.hh): a window of w by h pixels into a sequence of colours, *)
(* with the distance from row to row in pixels.  bad becomes TRUE when an  *)
(* access misses the window: the code checks nothing in read, write or at. *)
(***************************************************************************)

CONSTANT Nan              \* what a NaN converted to an integer becomes, as far as the build decides

NewImage(format, w, h, color) ==
  [format |-> format, w |-> w, h |-> h, stride |-> w, off |-> 0,
   mem |-> [i \in 0..(w * h - 1) |-> Stored(format, color)], bad |-> FALSE]

check(img, p) == p[1] \in 0..(img.w - 1) /\ p[2] \in 0..(img.h - 1)
Points(img) == (0..(img.w - 1)) \X (0..(img.h - 1))
Rect(x, y, w, h) == (x..(x + w - 1)) \X (y..(y + h - 1))
Address(img, p) == img.off + p[2] * img.stride + p[1]

read(img, p) == IF check(img, p) THEN img.mem[Address(img, p)] ELSE Transparent

\* The points of the domain of new are written, each with its colour.
Painted(img, new) ==
  LET inside == {p \in DOMAIN new : check(img, p)}
      at == [a \in {Address(img, p) : p \in inside} |-> CHOOSE p \in inside : Address(img, p) = a]
  IN  [img EXCEPT !.mem = [a \in DOMAIN @ |-> IF a \in DOMAIN at THEN Stored(img.format, new[at[a]]) ELSE @[a]],
                  !.bad = @ \/ inside # DOMAIN new]

equal(a, b) == a.w = b.w /\ a.h = b.h /\ \A p \in Points(a) : read(a, p) = read(b, p)

\* --- views and copies -------------------------------------------------------

\* The width and the height are compared only by the right and the lower edge.  There
\* are no views of the formats whose pixels share bytes: a static_assert refuses them.
view(img, x, y, w, h) ==
  IF img.format \in {"G1", "GA11"} \/ x < 0 \/ y < 0 \/ x + w > img.w \/ y + h > img.h THEN [ok |-> FALSE, val |-> img]
  ELSE [ok |-> TRUE, val |-> [img EXCEPT !.w = w, !.h = h, !.off = Address(img, <<x, y>>)]]

\* Whole rows are copied, h times the stride from the first pixel on.
copy(img) ==
  LET n == img.stride * img.h
  IN  [img EXCEPT !.off = 0, !.bad = @ \/ (n > 0 /\ img.off + n > Cardinality(DOMAIN img.mem)),
                  !.mem = [i \in 0..(n - 1) |-> IF img.off + i \in DOMAIN img.mem THEN img.mem[img.off + i] ELSE Transparent]]

change_pixel_format(img, format) ==
  Painted(NewImage(format, img.w, img.h, Transparent), [p \in Points(img) |-> read(img, p)])

\* From G1, and from GA11, where what is transparent stays so.
convert_monochrome_to_color(img, format, zero, one) ==
  Painted(NewImage(format, img.w, img.h, Transparent),
          [p \in Points(img) |-> LET c == read(img, p) IN IF c[4] = 0 THEN Transparent ELSE IF c = White THEN zero ELSE one])

\* --- whole images and rectangles ---------------------------------------------

clear(img, color) == Painted(img, [p \in Points(img) |-> color])

\* Mutant: what is cut off on the left and the top comes back on the right and the bottom.
ClampRectMoves(img, x, y, w, h) ==
  LET left == IF x < 0 THEN 0 ELSE x
      top == IF y < 0 THEN 0 ELSE y
  IN  Rect(left, top, IF left + w > img.w THEN img.w - left ELSE w, IF top + h > img.h THEN img.h - top ELSE h)

clamp_rect(img, x, y, w, h) ==
  LET left == IF x < 0 THEN 0 ELSE x
      top == IF y < 0 THEN 0 ELSE y
      width == IF x < 0 THEN w + x ELSE w
      height == IF y < 0 THEN h + y ELSE h
  IN  Rect(left, top, IF left + width > img.w THEN img.w - left ELSE width,
                      IF top + height > img.h THEN img.h - top ELSE height)

write_rect(img, x, y, w, h, color) ==
  IF color[4] = 0 THEN img ELSE Painted(img, [p \in clamp_rect(img, x, y, w, h) |-> color])

blend_rect(img, x, y, w, h, color) ==
  IF color[4] = 0 THEN img
  ELSE Painted(img, [p \in clamp_rect(img, x, y, w, h) |-> alpha_blend(read(img, p), color)])

set_alpha_from_mask_color(img, color) ==
  Painted(img, [p \in {q \in Points(img) : SameRGB(read(img, q), color)} |-> Transparent])

\* The loops exchange the two halves; a middle column or row stays.
reverse_horizontal(img) == Painted(img, [p \in Points(img) |-> read(img, <<img.w - p[1] - 1, p[2]>>)])
reverse_vertical(img) == Painted(img, [p \in Points(img) |-> read(img, <<p[1], img.h - p[2] - 1>>)])

\* --- copying from another image ------------------------------------------------

\* round(): to the nearest, a half away from zero.
Nearest(n, d) == (2 * n + d) \div (2 * d)

\* The column (or row) of the source, counted from its rectangle, for column i of dst_n.
SourceAt(mode, i, dst_n, src_n) ==
  CASE mode = "NONE" -> i
    [] mode = "TILED" -> i % src_n
    [] mode = "NEAREST" -> IF dst_n = 1 THEN Nan ELSE Nearest((src_n - 1) * i, dst_n - 1)

\* What each of the copy_from functions makes of the two colours.
PerPixel(fn, dest, src) ==
  CASE fn.kind = "copy" -> src
    [] fn.kind = "alpha" -> IF fn.arg = 255 THEN src ELSE alpha_blend(dest, replace_alpha(src, fn.arg))
    [] fn.kind = "blend" -> IF src[4] = 0 THEN dest ELSE IF src[4] = 255 THEN src ELSE alpha_blend(dest, src)
    [] fn.kind = "source_color_mask" -> IF SameRGB(src, fn.arg) THEN dest ELSE src
    [] fn.kind = "dest_color_mask" -> IF SameRGB(dest, fn.arg) THEN dest ELSE src

\* One pixel of the linear interpolation.  The code's doubles hold these fractions exactly when the width and
\* the height of d, less one, are powers of two; the model is of such rectangles only.  The factor of the second pixel is what is left of the progress
\* when the absolute column is taken off, so that the factors are wrong unless the rectangle starts at 0.
Interpolated(source, i, j, d, s) ==
  LET dx == d.w - 1
      dy == d.h - 1
      x1 == s.x + (i * (s.w - 1)) \div dx
      y1 == s.y + (j * (s.h - 1)) \div dy
      fx == <<dx - (i * (s.w - 1) - x1 * dx), i * (s.w - 1) - x1 * dx>>
      fy == <<dy - (j * (s.h - 1) - y1 * dy), j * (s.h - 1) - y1 * dy>>
      Part(k, m, ch) == fx[k] * fy[m] * read(source, <<x1 + k - 1, y1 + m - 1>>)[ch]
  IN  [ch \in 1..4 |-> (Part(1, 1, ch) + Part(1, 2, ch) + Part(2, 1, ch) + Part(2, 2, ch)) \div (dx * dy)]

\* d and s are the rectangles [x, y, w, h].  Only the linear mode does not ask whether the pixel is there.
\* source is another image: one that is copied to itself reads pixels that it has already written.
copy_from_with_custom(img, source, d, s, resize_mode, fn) ==
  LET mode == IF s.w = d.w /\ s.h = d.h THEN "NONE" ELSE resize_mode
      Source(p) == <<s.x + SourceAt(mode, p[1] - d.x, d.w, s.w), s.y + SourceAt(mode, p[2] - d.y, d.h, s.h)>>
      Shown(p) == IF mode = "LINEAR" THEN Interpolated(source, p[1] - d.x, p[2] - d.y, d, s) ELSE read(source, Source(p))
      dest == {p \in Rect(d.x, d.y, d.w, d.h) : mode = "LINEAR" \/ (check(img, p) /\ check(source, Source(p)))}
  IN  Painted(img, [p \in dest |-> PerPixel(fn, read(img, p), Shown(p))])

copy_from(img, source, d, s, mode) == copy_from_with_custom(img, source, d, s, mode, [kind |-> "copy"])

copy_from_with_alpha(img, source, d, s, alpha, mode) ==
  IF alpha = 0 THEN img ELSE copy_from_with_custom(img, source, d, s, mode, [kind |-> "alpha", arg |-> alpha])

copy_from_with_blend(img, source, d, s, mode) == copy_from_with_custom(img, source, d, s, mode, [kind |-> "blend"])

copy_from_with_source_color_mask(img, source, d, s, color, mode) ==
  copy_from_with_custom(img, source, d, s, mode, [kind |-> "source_color_mask", arg |-> color])

copy_from_with_dest_color_mask(img, source, d, s, color, mode) ==
  copy_from_with_custom(img, source, d, s, mode, [kind |-> "dest_color_mask", arg |-> color])

copy_from_with_mask_image(img, source, d, sx, sy, mask) ==
  LET Source(p) == <<sx + p[1] - d.x, sy + p[2] - d.y>>
      taken == {p \in Rect(d.x, d.y, d.w, d.h) :
                  /\ check(img, p) /\ check(source, Source(p)) /\ check(mask, Source(p))
                  /\ ~SameRGB(read(mask, Source(p)), White)}
  IN  Painted(img, [p \in taken |-> read(source, Source(p))])

resize(img, w, h) ==
  LET kept == [x |-> 0, y |-> 0, w |-> Min({img.w, w}), h |-> Min({img.h, h})]
  IN  IF w = img.w /\ h = img.h THEN img ELSE copy_from(NewImage(img.format, w, h, Transparent), img, kept, kept, "NONE")

\* --- drawing ---------------------------------------------------------------------

\* The points of the Bresenham walk, in the order of the walk; error is in units of 1 / dx.
LinePoints(x0, y0, x1, y1) ==
  LET Abs(n) == IF n < 0 THEN -n ELSE n
      Walk(p, q, steep) ==
        LET dx == q[1] - p[1]
            Step(st, x) ==
              LET error == st.error + Abs(q[2] - p[2])
                  next == dx > 0 /\ 2 * error >= dx
              IN  [points |-> Append(st.points, IF steep THEN <<st.y, x>> ELSE <<x, st.y>>),
                   y |-> IF next THEN st.y + (IF p[2] < q[2] THEN 1 ELSE -1) ELSE st.y,
                   error |-> IF next THEN error - dx ELSE error]
        IN  FoldLeft(Step, [points |-> <<>>, y |-> p[2], error |-> 0], [i \in 1..(dx + 1) |-> p[1] + i - 1]).points
      Rightward(a, b, steep) == IF a[1] > b[1] THEN Walk(b, a, steep) ELSE Walk(a, b, steep)
  IN  IF Abs(y1 - y0) > Abs(x1 - x0)
      THEN Rightward(<<y0, x0>>, <<y1, x1>>, TRUE) ELSE Rightward(<<x0, y0>>, <<x1, y1>>, FALSE)

draw_line(img, x0, y0, x1, y1, color) ==
  Painted(img, [p \in {q \in ToSet(LinePoints(x0, y0, x1, y1)) : check(img, q)} |-> color])

\* C's division, of which the lowest bit counts.
Dash(n, length) == length = 0 \/ (IF n < 0 THEN (-n) \div length ELSE n \div length) % 2 = 0

draw_horizontal_line(img, x1, x2, y, dash, color) ==
  Painted(img, [p \in {q \in (x1..x2) \X {y} : check(img, q) /\ Dash(q[1], dash)} |-> color])

draw_vertical_line(img, x, y1, y2, dash, color) ==
  Painted(img, [p \in {q \in {x} \X (y1..y2) : check(img, q) /\ Dash(q[2], dash)} |-> color])

draw_rect(img, x, y, w, h, color) ==
  IF w <= 0 \/ h <= 0 THEN img
  ELSE LET top == draw_horizontal_line(img, x, x + w - 1, y, 0, color)
           bottom == draw_horizontal_line(top, x, x + w - 1, y + h - 1, 0, color)
           left == draw_vertical_line(bottom, x, y + 1, y + h - 1, 0, color)
       IN  draw_vertical_line(left, x + w - 1, y + 1, y + h - 1, 0, color)

\* A newline compares the line's start, not its end, with the widest position.
NewLine(st, x, bg_color) ==
  [st EXCEPT !.img = blend_rect(@, st.x - 1, st.y - 1, 1, 9, bg_color), !.y = @ + 8, !.x = x, !.max_x = Max({@, x})]

\* One character; glyph is the font's set of points for it.
TextStep(st, ch, x, text_color, bg_color, glyph) ==
  CASE ch = "CR" -> st
    [] ch = "LF" -> NewLine(st, x, bg_color)
    [] OTHER ->
         LET back == blend_rect(st.img, st.x - 1, st.y - 1, 6, 9, bg_color)
             shown == {p \in {<<st.x + g[1], st.y + g[2]>> : g \in glyph[ch]} : check(back, p)}
         IN  [st EXCEPT !.img = Painted(back, [p \in shown |-> text_color]), !.x = @ + 6]

draw_text(img, x, y, text_color, bg_color, text, glyph) ==
  LET Ended(end) == [img |-> blend_rect(end.img, end.x - 1, end.y - 1, 1, 9, bg_color),
                     width |-> Max({end.x, end.max_x}) - x, height |-> end.y + 7 - y]
  IN  Ended(FoldLeft(LAMBDA st, ch : TextStep(st, ch, x, text_color, bg_color, glyph),
                     [img |-> img, x |-> x, y |-> y, max_x |-> 0], text))

-----------------------------------------------------------------------------
(***************************************************************************)
(* Image::serialize and Image::from_file_data (Image.hh).  A file is its   *)
(* header, field by field, and its body, byte by byte; what is not pixels  *)
(* or read back (resolution, colour space, checksums) is left out.         *)
(***************************************************************************)

Ok(v) == [ok |-> TRUE, val |-> v]
Err == [ok |-> FALSE, val |-> <<>>]

\* the bytes before the next multiple of four
RowPadding(n) == (4 - (n % 4)) % 4

Row(img, y) == [i \in 1..img.w |-> read(img, <<i - 1, y>>)]
TopDown(img) == [i \in 1..img.h |-> Row(img, i - 1)]

BottomUp(img) == [i \in 1..img.h |-> Row(img, img.h - i)]

\* The bytes of the pixels of a row: the channels named by order.
RowBytes(row, order) == FlattenSeq([i \in DOMAIN row |-> [k \in DOMAIN order |-> row[i][order[k]]]])
RGBA == <<1, 2, 3, 4>>
RGB == <<1, 2, 3>>
BGR == <<3, 2, 1>>

\* --- writing ----------------------------------------------------------------

SerializePPM(img) ==
  LET alpha == HAS_ALPHA(img.format)
      rows == TopDown(img)
  IN  [type |-> IF alpha THEN "P7" ELSE "P6",
       lines |-> IF alpha THEN <<<<"P7">>, <<"WIDTH", ToString(img.w)>>, <<"HEIGHT", ToString(img.h)>>, <<"DEPTH", "4">>,
                                 <<"MAXVAL", "255">>, <<"TUPLTYPE", "RGB_ALPHA">>, <<"ENDHDR">>>>
                 ELSE <<<<"P6", ToString(img.w), ToString(img.h), "255">>>>,
       body |-> FlattenSeq([i \in DOMAIN rows |-> RowBytes(rows[i], IF alpha THEN RGBA ELSE RGB)])]

\* With alpha a V5 header names the bytes of the channels; without, rows are padded.
SerializeBMP(img) ==
  LET alpha == HAS_ALPHA(img.format)
      rows == BottomUp(img)
      padding == [i \in 1..RowPadding(3 * img.w) |-> 0]
  IN  [type |-> "BM", header_size |-> IF alpha THEN 124 ELSE 40, width |-> img.w, height |-> img.h, planes |-> 1,
       depth |-> IF alpha THEN 32 ELSE 24, compression |-> IF alpha THEN 3 ELSE 0,
       masks |-> IF alpha THEN RGBA ELSE <<0, 0, 0, 0>>,
       body |-> FlattenSeq([i \in DOMAIN rows |-> IF alpha THEN RowBytes(rows[i], RGBA) ELSE RowBytes(rows[i], BGR) \o padding])]

\* IDAT before it is compressed: a filter byte in front of each row.
SerializePNG(img) ==
  LET rows == TopDown(img)
      order == IF HAS_ALPHA(img.format) THEN RGBA ELSE RGB
  IN  [type |-> "PNG", width |-> img.w, height |-> img.h, color_type |-> IF HAS_ALPHA(img.format) THEN 6 ELSE 2,
       body |-> FlattenSeq([i \in DOMAIN rows |-> <<0>> \o RowBytes(rows[i], order)])]

\* A data URL is the PNG file in base64.
SerializeImage(img, file_format) ==
  CASE file_format = "GRAYSCALE_PPM" -> Err
    [] file_format = "COLOR_PPM" -> Ok(SerializePPM(img))
    [] file_format = "WINDOWS_BITMAP" -> Ok(SerializeBMP(img))
    [] file_format \in {"PNG", "PNG_DATA_URL"} -> Ok(SerializePNG(img))

\* --- reading ----------------------------------------------------------------

\* stoull, of the numbers that occur
Numbers == [n \in {ToString(k) : k \in 0..300} |-> CHOOSE k \in 0..300 : ToString(k) = n]

\* An image of what a header says: the width, the height and the bytes of each pixel.
Header(w, h, max_value, gray_scale, alpha) ==
  [ok |-> w > 0 /\ h > 0 /\ max_value = 255, w |-> w, h |-> h, gray_scale |-> gray_scale, alpha |-> alpha]

NoHeader == Header(0, 0, 0, FALSE, FALSE)

\* One line of an extended header; DEPTH is read over.
ExtendedStep(st, line) ==
  IF ~st.ok \/ st.done THEN st
  ELSE CASE line[1] \in {"WIDTH", "HEIGHT", "MAXVAL"} ->
              IF line[2] \in DOMAIN Numbers THEN [st EXCEPT ![line[1]] = Numbers[line[2]]] ELSE [st EXCEPT !.ok = FALSE]
         [] line[1] = "DEPTH" -> st
         [] line[1] = "TUPLTYPE" ->
              [st EXCEPT !.ok = line[2] \in {"GRAYSCALE", "GRAYSCALE_ALPHA", "RGB", "RGB_ALPHA"},
                         !.gray_scale = line[2] \in {"GRAYSCALE", "GRAYSCALE_ALPHA"},
                         !.alpha = @ \/ line[2] \in {"GRAYSCALE_ALPHA", "RGB_ALPHA"}]
         [] line[1] = "ENDHDR" -> [st EXCEPT !.done = TRUE]
         [] OTHER -> [st EXCEPT !.ok = FALSE]

ExtendedHeader(lines) ==
  LET st == FoldLeft(ExtendedStep, [ok |-> TRUE, done |-> FALSE, WIDTH |-> 0, HEIGHT |-> 0, MAXVAL |-> 0,
                                    gray_scale |-> FALSE, alpha |-> FALSE], Tail(lines))
  IN  IF st.ok /\ st.done /\ lines[1] = <<"P7">> THEN Header(st.WIDTH, st.HEIGHT, st.MAXVAL, st.gray_scale, st.alpha)
      ELSE NoHeader

\* Lines are taken until there are four tokens; the first must be P6, even in a file that starts with P5.
PlainHeader(lines) ==
  LET enough == {n \in DOMAIN lines : Len(FlattenSeq(SubSeq(lines, 1, n))) >= 4}
      t == IF enough = {} THEN <<>> ELSE FlattenSeq(SubSeq(lines, 1, Min(enough)))
  IN  IF Len(t) = 4 /\ t[1] = "P6" /\ \A i \in 2..4 : t[i] \in DOMAIN Numbers
      THEN Header(Numbers[t[2]], Numbers[t[3]], Numbers[t[4]], FALSE, FALSE) ELSE NoHeader

\* The pixel whose bytes start behind byte at of the body.
PixelBytes(body, at, gray_scale, alpha) ==
  LET v == body[at + 1]
  IN  IF gray_scale THEN gray(v, IF alpha THEN body[at + 2] ELSE 255)
      ELSE <<v, body[at + 2], body[at + 3], IF alpha THEN body[at + 4] ELSE 255>>

ReadBody(file, format, header) ==
  LET size == (IF header.gray_scale THEN 1 ELSE 3) + (IF header.alpha THEN 1 ELSE 0)
      img == NewImage(format, header.w, header.h, Transparent)
      new == [p \in Points(img) |-> PixelBytes(file.body, size * (p[2] * img.w + p[1]), header.gray_scale, header.alpha)]
  IN  IF header.ok /\ Len(file.body) >= size * header.w * header.h THEN Ok(Painted(img, new)) ELSE Err

ReadPPM(file, format) ==
  ReadBody(file, format, IF file.type = "P7" THEN ExtendedHeader(file.lines) ELSE PlainHeader(file.lines))

\* The row of the file that holds row y: the last comes first unless the height is negative.
FileRow(height, y) == IF height < 0 THEN y ELSE height - 1 - y

\* garbage: what the code finds in the four masks when the header is too short to hold them.
ReadBMP(file, format, garbage) ==
  LET h == IF file.height < 0 THEN -file.height ELSE file.height
      img == NewImage(format, file.width, h, Transparent)
      fields == file.compression = 3
      masks == IF fields THEN IF file.header_size < 56 THEN garbage ELSE file.masks ELSE <<3, 2, 1, 4>>
      pitch == file.width * (file.depth \div 8) + IF fields THEN 0 ELSE RowPadding(file.width * (file.depth \div 8))
      At(p) == FileRow(file.height, p[2]) * pitch + p[1] * (file.depth \div 8)
      new == [p \in Points(img) |->
                [k \in 1..4 |-> IF k = 4 /\ file.depth = 24 THEN 255 ELSE file.body[At(p) + masks[k]]]]
  IN  IF /\ file.header_size <= 124 /\ file.depth \in {24, 32} /\ file.planes = 1
         /\ file.compression \in {0, 3} /\ (fields => file.depth = 32 /\ \A k \in 1..4 : masks[k] \in 1..4)
         /\ Len(file.body) >= h * pitch
      THEN Ok(Painted(img, new)) ELSE Err

from_file_data(file, format, garbage) ==
  CASE file.type \in {"P5", "P6", "P7"} -> ReadPPM(file, format)
    [] file.type = "BM" -> ReadBMP(file, format, garbage)
    [] OTHER -> Err

-----------------------------------------------------------------------------
(***************************************************************************)
(* What pixel formats, copies, drawing and image files promise.            *)
(***************************************************************************)

ImageKinds == {"pixel", "packed", "rect", "image", "bitmap", "netpbm", "line", "blit", "stretch", "view", "caption"}

Area(x, y, w, h) == [x |-> x, y |-> y, w |-> w, h |-> h]

\* An image whose pixels differ from one another in every channel.
Painting(format, w, h) ==
  Painted(NewImage(format, w, h, Transparent),
          [p \in (0..(w - 1)) \X (0..(h - 1)) |-> <<60 * p[1], 80 * p[2], 200, 255 - 90 * ((p[1] + p[2]) % 3)>>])
Picture == Painting("RGBA8888", 3, 3)
Opaque == Painting("RGB888", 3, 3)
Canvas == NewImage("RGBA8888", 3, 3, <<9, 9, 9, 255>>)

\* The whole image that a view is a window of.
Whole(v, img) == [v EXCEPT !.w = img.w, !.h = img.h, !.off = 0]
Changed(out, img) == {p \in Points(img) : read(Whole(out, img), p) # read(img, p)}

\* Bitmaps whose body lacks missing bytes; height is negative for rows from the top.
Bitmap(w, height, depth, compression, header_size, missing) ==
  [type |-> "BM", header_size |-> header_size, width |-> w, height |-> height, planes |-> 1, depth |-> depth,
   compression |-> compression, masks |-> <<2, 3, 4, 1>>,
   body |-> [i \in 1..(Magnitude(height) * (w * (depth \div 8) + (IF depth = 24 THEN RowPadding(3 * w) ELSE 0)) - missing) |-> 10 * i]]

\* Headers of the extended format, with a field that is unknown, missing or out of place.
ExtendedLines(w, h, max) ==
  LET Fields == <<<<"WIDTH", w>>, <<"HEIGHT", h>>, <<"MAXVAL", max>>>>
      Tuples == {<<"TUPLTYPE", "RGB">>, <<"TUPLTYPE", "GRAYSCALE">>, <<"TUPLTYPE", "GRAYSCALE_ALPHA">>,
                 <<"TUPLTYPE", "CMYK">>, <<"DEPTH", "3">>, <<"SIZE", "9">>}
  IN  {<<<<"P7">>>> \o Fields} \cup {<<<<"P7">>>> \o Fields \o <<t, e>> : t \in Tuples, e \in {<<"ENDHDR">>, <<"MAXVAL", "255">>}}
PlainLines(type, w) == {<<<<type>>, <<w, "1">>>> \o l : l \in {<<<<"255">>>>, <<<<"#">>, <<"255">>>>, <<>>}}
Netpbm(type, lines, n) == [type |-> type, lines |-> lines, body |-> [i \in 1..n |-> 7 * i]]

ImageInput ==
  \/ /\ Picked("pixel")
     /\ \E f \in Formats, r, g, b \in {0, 100, 127, 131, 255}, a \in {0, 127, 128, 255} :
          input' = [kind |-> "pixel", format |-> f, color |-> <<r, g, b, a>>]
  \/ /\ Picked("packed")
     /\ \E b \in {0, 90, 255}, x \in 0..7, c \in {Black, White, Transparent} :
          input' = [kind |-> "packed", row |-> <<b, 255 - b>>, x |-> x, color |-> c]
  \/ /\ Picked("rect")
     /\ \E x, y, w, h \in -1..4, c \in {<<1, 2, 3, 255>>, <<1, 2, 3, 100>>} :
          input' = [kind |-> "rect", area |-> Area(x, y, w, h), color |-> c]
  \/ /\ Picked("image")
     /\ \E f \in Formats, w, h \in 1..3 : input' = [kind |-> "image", img |-> Painting(f, w, h)]
  \/ /\ Picked("bitmap")
     /\ \E w \in 1..2, height \in {-2, -1, 1, 2}, depth \in {24, 32}, compression \in {0, 3}, header_size \in {40, 124},
           missing \in 0..1, garbage \in {<<0, 1, 2, 3>>, <<4, 3, 2, 1>>} :
          input' = [kind |-> "bitmap", garbage |-> garbage, file |-> Bitmap(w, height, depth, compression, header_size, missing)]
  \/ /\ Picked("netpbm")
     /\ \/ \E w, h \in {"0", "1", "2", "x"}, max \in {"255", "15"}, n \in {0, 3, 8, 12} :
             \E l \in ExtendedLines(w, h, max) : input' = [kind |-> "netpbm", file |-> Netpbm("P7", l, n)]
        \/ \E type \in {"P5", "P6"}, w \in {"1", "2"}, n \in {2, 3, 6} :
             \E l \in PlainLines(type, w) : input' = [kind |-> "netpbm", file |-> Netpbm(type, l, n)]
  \/ /\ Picked("line")
     /\ \E x0, y0 \in {-1, 1}, x1, y1 \in -2..6 : input' = [kind |-> "line", from |-> <<x0, y0>>, to |-> <<x1, y1>>]
  \/ /\ Picked("blit")
     /\ \E x, y, sx \in {-1, 1}, w, h \in {0, 2, 4}, sw, sh \in 1..3, mode \in {"NONE", "TILED"} :
          input' = [kind |-> "blit", d |-> Area(x, y, w, h), s |-> Area(sx, 0, sw, sh), mode |-> mode]
  \/ /\ Picked("stretch")
     /\ \E x, y \in {-1, 0}, w, h \in {2, 3, 5}, sw, sh \in 1..3, mode \in {"NEAREST", "LINEAR"} :
          input' = [kind |-> "stretch", d |-> Area(x, y, w, h), s |-> Area(0, 0, sw, sh), mode |-> mode]
  \/ /\ Picked("view")
     /\ \E x, y, w, h \in -1..4 : input' = [kind |-> "view", area |-> Area(x, y, w, h)]
  \/ /\ Picked("caption")
     /\ \E x \in {-3, 0, 2}, y \in {-2, 1}, t \in Texts({"A", "CR", "LF"}, 3) : input' = [kind |-> "caption", x |-> x, y |-> y, t |-> t]
-----------------------------------------------------------------------------
(* What a format stores it reads back, and storing it again changes nothing, also through another    *)
(* format that stores it whole; formats without alpha read back opaque; a pixel that shares its byte *)
(* with others is written without touching them.                                                     *)
PixelsReadBack ==
  /\ input.kind = "pixel" =>
       LET c == Stored(input.format, input.color)
       IN  /\ Stored(input.format, c) = c
           /\ ~HAS_ALPHA(input.format) => c[4] = 255
           /\ \A g \in Formats : c = Stored(g, c) => Stored(input.format, Stored(g, c)) = c
  /\ input.kind = "packed" =>
       LET g1 == write_G1(input.row, input.x, input.color)
           ga11 == write_GA11(input.row, input.x, input.color)
       IN  \A x \in 0..7 :
             /\ read_G1(g1, x) = IF x = input.x THEN Stored("G1", input.color) ELSE read_G1(input.row, x)
             /\ read_GA11(ga11, x) = IF x = input.x THEN Stored("GA11", input.color) ELSE read_GA11(input.row, x)

(* Filling a rectangle of a view changes the pixels of the image that lie in both, wherever the      *)
(* rectangle is, and no pixel outside.                                                               *)
RectanglesAreClipped ==
  input.kind = "rect" =>
    LET img == Painting("RGBA8888", 4, 4)
        v == view(img, 1, 1, 3, 2).val
        a == input.area
        hit == {<<p[1] + 1, p[2] + 1>> : p \in Points(v) \cap Rect(a.x, a.y, a.w, a.h)}
    IN  \A out \in {write_rect(v, a.x, a.y, a.w, a.h, input.color), blend_rect(v, a.x, a.y, a.w, a.h, input.color)} :
          ~out.bad /\ Changed(out, img) = hit

(* What serialize writes, in either format that can be read, from_file_data reads as the same image. *)
FilesRoundTrip ==
  input.kind = "image" =>
    \A file_format \in {"COLOR_PPM", "WINDOWS_BITMAP"} :
      LET Same(r) == r.ok /\ ~r.val.bad /\ equal(r.val, input.img)
      IN  Same(from_file_data(SerializeImage(input.img, file_format).val, input.img.format, <<0, 0, 0, 0>>))

(* A bitmap is read whole or not at all; the sign of its height turns it over; which garbage the     *)
(* channel masks hold shows only when the header names masks and is too short to have them.          *)
BitmapsAreReadWhole ==
  input.kind = "bitmap" =>
    LET f == input.file
        pitch == f.width * (f.depth \div 8) + RowPadding(f.width * (f.depth \div 8))
        ReadWhole(r, turned, other) ==
          /\ r.ok => ~r.val.bad /\ equal(turned.val, reverse_vertical(r.val))
          /\ r # other => f.compression = 3 /\ f.header_size < 56
          /\ f.compression = 0 => (r.ok <=> Len(f.body) = pitch * Magnitude(f.height))
    IN  ReadWhole(from_file_data(f, "RGBA8888", input.garbage),
              from_file_data([f EXCEPT !.height = -f.height], "RGBA8888", input.garbage),
              from_file_data(f, "RGBA8888", <<1, 2, 3, 4>>))

(* A netpbm file that is accepted has a size, which is the image's, the maximum 255 and a body that   *)
(* fills the image.                                                                                   *)
HeadersAreChecked ==
  input.kind = "netpbm" =>
    LET f == input.file
        Checked(r) ==
          r.ok => /\ r.val.w * r.val.h > 0 /\ ~r.val.bad
                  /\ \A n \in {r.val.w, r.val.h} : \E l \in ToSet(f.lines) : ToString(n) \in ToSet(l)
                  /\ Len(f.body) >= r.val.w * r.val.h
                  /\ \E l \in ToSet(f.lines) : "255" \in ToSet(l)
    IN  Checked(from_file_data(f, "RGBA8888", <<>>))

(* A line is connected, has both ends, no more points than it needs, none further than half a pixel  *)
(* from the straight line, is the same in both directions, and is drawn where it meets the image.    *)
LinesAreStraight ==
  input.kind = "line" =>
    LET p == input.from  q == input.to
        length == Max({Magnitude(q[1] - p[1]), Magnitude(q[2] - p[2])})
        Straight(l, back) ==
          /\ Len(l) = 1 + length /\ {l[1], Last(l)} = {p, q}
          /\ \A i \in 2..Len(l), k \in 1..2 : Magnitude(l[i][k] - l[i - 1][k]) <= 1
          /\ \A i \in DOMAIN l :
               2 * Magnitude((l[i][1] - p[1]) * (q[2] - p[2]) - (l[i][2] - p[2]) * (q[1] - p[1])) <= length
          /\ ToSet(back) = ToSet(l)
        Drawn(l, out) == ~out.bad /\ Changed(out, Canvas) = ToSet(l) \cap Points(Canvas)
        line == LinePoints(p[1], p[2], q[1], q[2])
    IN  /\ Straight(line, LinePoints(q[1], q[2], p[1], p[2]))
        /\ Drawn(line, draw_line(Canvas, p[1], p[2], q[1], q[2], White))

\* Tile k of a rectangle tiled with one of the source's size, cut off at its edges.
Tile(d, s, k) ==
  LET i == k % 5  j == k \div 5
  IN  Area(d.x + i * s.w, d.y + j * s.h, Min({s.w, Max({0, d.w - i * s.w})}), Min({s.h, Max({0, d.h - j * s.h})}))
Tiled(img, source, d, s) ==
  FoldLeft(LAMBDA out, k : copy_from(out, source, Tile(d, s, k), Area(s.x, s.y, Tile(d, s, k).w, Tile(d, s, k).h), "NONE"),
           img, [k \in 1..25 |-> k - 1])

(* Copying never misses an image; tiled copying is copying tile by tile, copying from a view is      *)
(* copying from its rectangle, and the copies with masks agree with the plain copy at their extremes. *)
(* So does the copy with alpha when the source is opaque; below 255 the source's own alpha does not   *)
(* matter (at 255 the code copies it; nothing is claimed of that).                                    *)
CopiesAgree ==
  input.kind = "blit" =>
    LET d == input.d  s == input.s  mode == input.mode
        v == view(Picture, s.x, s.y, s.w, s.h)
        within == IF mode = "TILED" THEN d ELSE [d EXCEPT !.w = Min({@, s.w}), !.h = Min({@, s.h})]
        Masked(color) == copy_from_with_mask_image(Canvas, Picture, d, s.x, s.y, NewImage("G1", 3, 3, color))
        Agree(out, tiled) ==
          /\ ~out.bad
          /\ mode = "TILED" => equal(out, tiled)
          /\ copy_from_with_alpha(Canvas, Opaque, d, s, 255, mode) = copy_from(Canvas, Opaque, d, s, mode)
          /\ \A alpha \in {0, 100} :
               LET faded == copy_from_with_alpha(Canvas, Picture, d, s, alpha, mode)
               IN  /\ Changed(faded, Canvas) \subseteq Changed(out, Canvas)
                   /\ faded = copy_from_with_alpha(Canvas, Opaque, d, s, alpha, mode)
    IN  /\ Agree(copy_from(Canvas, Picture, d, s, mode), Tiled(Canvas, Picture, d, s))
        /\ v.ok => equal(copy_from(Canvas, v.val, d, Area(0, 0, s.w, s.h), mode), copy_from(Canvas, Picture, within, s, mode))
        /\ Masked(Black) = copy_from(Canvas, Picture, d, [s EXCEPT !.w = d.w, !.h = d.h], "NONE")
        /\ Masked(White) = Canvas
        /\ copy_from_with_source_color_mask(Canvas, Canvas, d, s, <<9, 9, 9, 0>>, mode) = Canvas
        /\ copy_from_with_dest_color_mask(Canvas, Picture, d, s, <<9, 9, 9, 0>>, mode) = Canvas

(* Stretching keeps the corners and the order of the shades between them; the image is missed only by *)
(* the linear mode, and only when the rectangle is not inside it.                                     *)
StretchingKeepsOrder ==
  input.kind = "stretch" =>
    LET d == input.d  s == input.s
        wide == NewImage("RGBA8888", 5, 5, Transparent)
        Corner(a, e) == <<a.x + e[1] * (a.w - 1), a.y + e[2] * (a.h - 1)>>
        InOrder(out) ==
          /\ out.bad => /\ input.mode = "LINEAR" /\ (s.w # d.w \/ s.h # d.h)
                        /\ ~(Rect(d.x, d.y, d.w, d.h) \subseteq Points(wide))
          /\ \A e \in (0..1) \X (0..1) : check(wide, Corner(d, e)) => read(out, Corner(d, e)) = read(Picture, Corner(s, e))
          /\ \A p, q \in Points(wide) \cap Rect(d.x, d.y, d.w, d.h), k \in 1..2 : p[k] <= q[k] => read(out, p)[k] <= read(out, q)[k]
    IN  InOrder(copy_from(wide, Picture, d, s, input.mode))

(* A view shows its part of the image; reversing twice, growing and shrinking back, and storing      *)
(* twice in a smaller format change nothing; a copy of a view reads past the end only when the view   *)
(* is to the right of the edge and reaches the bottom.                                               *)
ViewsShowTheirPart ==
  input.kind = "view" =>
    LET a == input.area
        Shows(img, v) ==
          a.w >= 0 /\ a.h >= 0 =>
            /\ \A p \in Points(v) : read(v, p) = read(img, <<p[1] + a.x, p[2] + a.y>>)
            /\ equal(copy(v), v)
            /\ copy(v).bad => a.x > 0 /\ a.h > 0 /\ a.y + a.h = img.h
            /\ equal(reverse_horizontal(reverse_horizontal(v)), v)
            /\ equal(reverse_vertical(reverse_vertical(v)), v)
            /\ equal(resize(resize(v, 3, 4), a.w, a.h), v)
            /\ \A f \in {"XRGB1555", "RGB565"} :
                 LET Again(stored) == change_pixel_format(stored, f) = stored IN Again(change_pixel_format(v, f))
            /\ Cardinality(Changed(set_alpha_from_mask_color(v, read(img, <<1, 1>>)), img)) <= 1
        r == view(Picture, a.x, a.y, a.w, a.h)
    IN  r.ok => Shows(Picture, r.val)

Glyph == [A |-> {<<0, 0>>, <<4, 6>>, <<2, 3>>}]

(* Text shows the glyphs of its characters on a line each and paints its background in the boxes of  *)
(* its lines; the height is that of the lines, and the width that of a single line.                  *)
TextStaysInItsBox ==
  input.kind = "caption" =>
    LET page == NewImage("RGBA8888", 15, 14, Transparent)
        t == input.t
        Line(i) == Occurrences(SubSeq(t, 1, i - 1), "LF")
        Shown(l) == {k \in DOMAIN t : t[k] = "A" /\ Line(k) = l}
        lines == 0..Occurrences(t, "LF")
        Place(l, i) == {<<input.x + 6 * Cardinality({k \in Shown(l) : k < i}) + g[1], input.y + 8 * l + g[2]>> : g \in Glyph["A"]}
        glyphs == UNION {UNION {Place(l, i) : i \in Shown(l)} : l \in lines}
        boxes == UNION {Rect(input.x - 1, input.y + 8 * l - 1, 6 * Cardinality(Shown(l)) + 1, 9) : l \in lines}
        InItsBox(r) ==
          /\ ~r.img.bad
          /\ {p \in Points(page) : read(r.img, p) = White} = glyphs \cap Points(page)
          /\ {p \in Points(page) : read(r.img, p)[4] = 255} \subseteq boxes
          /\ r.height = 8 * Cardinality(lines) - 1
          /\ input.x >= 0 /\ lines = {0} => r.width = 6 * Cardinality(Shown(Max(lines)))
    IN  InItsBox(draw_text(page, input.x, input.y, White, Black, t, Glyph))

\* Every pixel is kept where and as it was put, nothing is drawn outside, and image
\* files give back the image (Image.hh).
ImagesCorrect ==
  input.kind \in ImageKinds =>
    /\ PixelsReadBack
    /\ RectanglesAreClipped
    /\ FilesRoundTrip
    /\ BitmapsAreReadWhole
    /\ HeadersAreChecked
    /\ LinesAreStraight
    /\ CopiesAgree
    /\ StretchingKeepsOrder
    /\ ViewsShowTheirPart
    /\ TextStaysInItsBox
=============================================================================
