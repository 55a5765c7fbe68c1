--------------------------------- MODULE Gfx ---------------------------------
(***************************************************************************)
(* gfx.c: gfx_init builds screen_buffer from the framebuffer tag that     *)
(* multiboot2_parse kept (mb2_framebuffer), and every drawing routine     *)
(* ends in gfx_draw_pixel, which stores the 32-bit colour at              *)
(* y * pitch + x * bpp / 8 after its bounds checks.  The framebuffer is a *)
(* function from byte offsets (from the tag's address) to bytes; a store  *)
(* writes the colour's four little-endian bytes.  A behaviour is the boot *)
(* step gfx_init, optionally gfx_set_font, and one drawing call on        *)
(* screen_buffer, as main.c makes them.  Coordinates and fonts are scaled *)
(* down: the font tables are constants indexed as the code indexes them.  *)
(***************************************************************************)
EXTENDS Integers, Sequences, FiniteSetsExt, Bitwise

CONSTANTS FbTags,      \* framebuffer tags: [addr, width, height, bpp, pitch]
          FbLen,       \* bytes of the modelled framebuffer memory
          Color,       \* the argb value drawn
          Points,      \* pixel positions, line ends and circle centres
          Rects,       \* rectangles [x, y, w, h]
          Radii,       \* circle radii
          CopySizes,   \* gfx_copy sizes [w, h]
          Texts,       \* strings passed to gfx_draw_text (signed chars)
          Fonts,       \* "8x8" and "8x16" |-> [width, height, table]
          GlyphStride  \* rows per glyph in draw_char's cast: unsigned char (*)[8]

\* A NULL screen_buffer (gfx_init never builds one of size 0).
NULL == [width |-> 0, height |-> 0, bpp |-> 0]
NoTag == [addr |-> 0, width |-> 0, height |-> 0, bpp |-> 0, pitch |-> 0]

VARIABLES fbtag,   \* *mb2_framebuffer (NoTag if there is none)
          screen,  \* screen_buffer: NULL or [width, height, bpp]
          font,    \* default_font: a key of Fonts
          fb,      \* the framebuffer's bytes
          gpre,    \* the framebuffer before the drawing call
          gcall,   \* the drawing call made, for the properties
          phase    \* "boot", "ready", "font" (after gfx_set_font), "done"

gvars == <<fbtag, screen, font, fb, gpre, gcall, phase>>

\* gfx_abs
Abs(x) == IF x < 0 THEN -x ELSE x

\* C's / on int truncates toward zero.
TDiv(a, b) == IF (a >= 0) = (b > 0) THEN Abs(a) \div Abs(b) ELSE -(Abs(a) \div Abs(b))

\* Little-endian bytes of the uint32 colour.
ColorBytes == [i \in 0..3 |-> (Color \div 2^(8 * i)) % 256]

\* Mutant: the bounds check forgets the right edge.
InBoundsNoRight(s, p) == p[1] >= 0 /\ p[2] >= 0 /\ p[2] < s.height

InBounds(s, p) == p[1] >= 0 /\ p[1] < s.width /\ p[2] >= 0 /\ p[2] < s.height

\* gfx_draw_pixel: the early returns, the offset through mb2_framebuffer's
\* pitch, the check against fb_end, and the 32-bit store of the colour's
\* bytes cb.
draw_pixel(m, s, tag, p, cb) ==
  IF s = NULL \/ ~InBounds(s, p) THEN m
  ELSE LET off == p[2] * tag.pitch + p[1] * (s.bpp \div 8)
       IN IF off >= s.height * tag.pitch THEN m
          ELSE [a \in DOMAIN m |-> IF off <= a /\ a < off + 4 THEN cb[a - off] ELSE m[a]]

\* Pixels stored one after another, in the order of the sequence ps.
RECURSIVE PaintSeq(_, _, _, _)
PaintSeq(m, s, tag, ps) ==
  IF ps = << >> THEN m ELSE PaintSeq(draw_pixel(m, s, tag, Head(ps), ColorBytes), s, tag, Tail(ps))

\* gfx_draw_line: positions x_scaled / 1000 for i = 0..steps.
RECURSIVE LineLoop(_, _, _, _, _)
LineLoop(xs, ys, xi, yi, i) ==
  IF i < 0 THEN << >>
  ELSE <<<<TDiv(xs, 1000), TDiv(ys, 1000)>>>> \o LineLoop(xs + xi, ys + yi, xi, yi, i - 1)

\* Mutant: the loop runs once more (i <= steps + 1).
LinePixelsOvershoot(a, b) ==
  LET steps == IF Abs(b[1] - a[1]) > Abs(b[2] - a[2]) THEN Abs(b[1] - a[1]) ELSE Abs(b[2] - a[2])
  IN IF steps = 0 THEN <<a>>
     ELSE LineLoop(a[1] * 1000, a[2] * 1000, TDiv((b[1] - a[1]) * 1000, steps),
                   TDiv((b[2] - a[2]) * 1000, steps), steps + 1)

LinePixels(a, b) ==
  LET steps == IF Abs(b[1] - a[1]) > Abs(b[2] - a[2]) THEN Abs(b[1] - a[1]) ELSE Abs(b[2] - a[2])
  IN IF steps = 0 THEN <<a>>
     ELSE LineLoop(a[1] * 1000, a[2] * 1000, TDiv((b[1] - a[1]) * 1000, steps),
                   TDiv((b[2] - a[2]) * 1000, steps), steps)

\* gfx_draw_rect: the top/bottom loop, then the left/right loop.
RectBorder(r) ==
  [i \in 1..2 * r.w |-> IF i % 2 = 1 THEN <<r.x + (i - 1) \div 2, r.y>>
                        ELSE <<r.x + (i - 1) \div 2, r.y + r.h - 1>>]
  \o [i \in 1..2 * r.h |-> IF i % 2 = 1 THEN <<r.x, r.y + (i - 1) \div 2>>
                           ELSE <<r.x + r.w - 1, r.y + (i - 1) \div 2>>]

\* Mutant: the inner loop runs to x <= position.x + width.
RectAreaInclusive(r) ==
  [i \in 1..(r.w + 1) * r.h |-> <<r.x + ((i - 1) % (r.w + 1)), r.y + (i - 1) \div (r.w + 1)>>]

\* gfx_fill_rect: rows, then columns.
RectArea(r) == [i \in 1..r.w * r.h |-> <<r.x + ((i - 1) % r.w), r.y + (i - 1) \div r.w>>]

\* gfx_draw_circle: eight octant points while y >= x, midpoint decision d.
RECURSIVE CircleLoop(_, _, _, _)
CircleLoop(c, x, y, d) ==
  IF y < x THEN << >>
  ELSE << <<c[1] + x, c[2] + y>>, <<c[1] - x, c[2] + y>>, <<c[1] + x, c[2] - y>>,
          <<c[1] - x, c[2] - y>>, <<c[1] + y, c[2] + x>>, <<c[1] - y, c[2] + x>>,
          <<c[1] + y, c[2] - x>>, <<c[1] - y, c[2] - x>> >>
       \o (IF d > 0 THEN CircleLoop(c, x + 1, y - 1, d + 4 * (x - (y - 1)) + 10)
           ELSE CircleLoop(c, x + 1, y, d + 4 * x + 6))

CirclePixels(c, r) == IF r <= 0 THEN << >> ELSE CircleLoop(c, 0, r, 3 - 2 * r)

\* gfx_draw_char: row y of glyph c is font_data[c][y], i.e. byte
\* c * GlyphStride + y of the table; bit x set draws (px + x, py + y).
CharPixels(f, p, c) ==
  IF c < 0 \/ c > 127 THEN << >>
  ELSE LET w == Fonts[f].width  h == Fonts[f].height
           row(y) == Fonts[f].table[c * GlyphStride + y]
           cells == [i \in 1..w * h |-> <<(i - 1) % w, (i - 1) \div w>>]
           set == SelectSeq(cells, LAMBDA q : shiftR(row(q[2]), q[1]) % 2 = 1)
       IN [i \in 1..Len(set) |-> <<p[1] + set[i][1], p[2] + set[i][2]>>]

\* gfx_draw_text: '\n' returns to position.x one font height lower, '\r'
\* returns to position.x, any other char is drawn and advances one width.
RECURSIVE TextLoop(_, _, _, _)
TextLoop(f, origin, cur, t) ==
  IF t = << >> THEN << >>
  ELSE LET c == Head(t) IN
       IF c = 10 THEN TextLoop(f, origin, <<origin[1], cur[2] + Fonts[f].height>>, Tail(t))
       ELSE IF c = 13 THEN TextLoop(f, origin, <<origin[1], cur[2]>>, Tail(t))
       ELSE CharPixels(f, cur, c) \o TextLoop(f, origin, <<cur[1] + Fonts[f].width, cur[2]>>, Tail(t))

\* gfx_copy on one buffer: for y, then x, read the uint32 at
\* (sy * width + sx) * bpp / 8 as memory is at that moment, and draw it.
RECURSIVE CopyLoop(_, _, _, _, _, _)
CopyLoop(m, s, tag, sp, dp, cells) ==
  IF cells = << >> THEN m
  ELSE LET q == Head(cells)
           src == <<sp[1] + q[1], sp[2] + q[2]>>
           dst == <<dp[1] + q[1], dp[2] + q[2]>>
           at == (src[2] * s.width + src[1]) * (s.bpp \div 8)
           val == [i \in 0..3 |-> m[at + i]]
           m2 == IF InBounds(s, src) /\ InBounds(s, dst) THEN draw_pixel(m, s, tag, dst, val) ELSE m
       IN CopyLoop(m2, s, tag, sp, dp, Tail(cells))

-----------------------------------------------------------------------------
(***************************************************************************)
(* gfx_init at boot, an optional gfx_set_font, then one drawing call on   *)
(* screen_buffer.                                                          *)
(***************************************************************************)
NoCall == [op |-> "none", args |-> << >>]

Init ==
  /\ fbtag = NoTag
  /\ screen = NULL
  /\ font = "8x16"
  /\ fb = [a \in 0..FbLen - 1 |-> a % 256]
  /\ gpre = fb
  /\ gcall = NoCall
  /\ phase = "boot"

\* gfx_init: no tag, a NULL address or an empty size, or a failed kmalloc
\* leave screen_buffer NULL; otherwise it describes the framebuffer and
\* the 8x8 font becomes the default.
gfx_init ==
  /\ phase = "boot"
  /\ \E tag \in FbTags \cup {NoTag}, allocated \in BOOLEAN :
       /\ fbtag' = tag
       /\ IF tag = NoTag \/ tag.addr = 0 \/ tag.width = 0 \/ tag.height = 0 \/ ~allocated
          THEN UNCHANGED <<screen, font>>
          ELSE /\ screen' = [width |-> tag.width, height |-> tag.height, bpp |-> tag.bpp]
               /\ font' = "8x8"
  /\ phase' = "ready"
  /\ UNCHANGED <<fb, gpre, gcall>>

\* gfx_set_font ignores NULL.
gfx_set_font ==
  /\ phase = "ready"
  /\ \E f \in {"NULL"} \cup DOMAIN Fonts : font' = IF f = "NULL" THEN font ELSE f
  /\ phase' = "font"
  /\ UNCHANGED <<fbtag, screen, fb, gpre, gcall>>

\* A drawing call that stores the colour at the pixels ps, in order.
Drew(op, args, ps) ==
  /\ phase \in {"ready", "font"}
  /\ fb' = PaintSeq(fb, screen, fbtag, ps)
  /\ gpre' = fb
  /\ gcall' = [op |-> op, args |-> args]
  /\ phase' = "done"
  /\ UNCHANGED <<fbtag, screen, font>>

gfx_draw_pixel == \E p \in Points : Drew("pixel", <<p>>, <<p>>)
gfx_draw_line == \E a, b \in Points : Drew("line", <<a, b>>, LinePixels(a, b))
gfx_draw_rect == \E r \in Rects : Drew("rect", <<r>>, RectBorder(r))
gfx_fill_rect == \E r \in Rects : Drew("fill", <<r>>, RectArea(r))
gfx_clear ==
  Drew("clear", << >>, IF screen = NULL THEN << >>
                       ELSE RectArea([x |-> 0, y |-> 0, w |-> screen.width, h |-> screen.height]))
gfx_draw_circle == \E c \in Points, r \in Radii : Drew("circle", <<c, r>>, CirclePixels(c, r))
gfx_draw_char ==
  \E p \in Points, t \in Texts : \E i \in DOMAIN t : Drew("char", <<p, t[i]>>, CharPixels(font, p, t[i]))
gfx_draw_text == \E p \in Points, t \in Texts : Drew("text", <<p, t>>, TextLoop(font, p, p, t))

\* gfx_copy(screen_buffer, screen_buffer, src_pos, dest_pos, size).
gfx_copy ==
  /\ phase \in {"ready", "font"}
  /\ \E sp, dp \in Points, sz \in CopySizes :
       /\ fb' = IF screen = NULL THEN fb
                ELSE CopyLoop(fb, screen, fbtag, sp, dp,
                              [i \in 1..sz.w * sz.h |-> <<(i - 1) % sz.w, (i - 1) \div sz.w>>])
       /\ gcall' = [op |-> "copy", args |-> <<sp, dp, sz>>]
  /\ gpre' = fb
  /\ phase' = "done"
  /\ UNCHANGED <<fbtag, screen, font>>

Next ==
  \/ gfx_init \/ gfx_set_font
  \/ gfx_draw_pixel \/ gfx_draw_line \/ gfx_draw_rect \/ gfx_fill_rect \/ gfx_clear
  \/ gfx_draw_circle \/ gfx_draw_char \/ gfx_draw_text \/ gfx_copy

Spec == Init /\ [][Next]_gvars

-----------------------------------------------------------------------------
(***************************************************************************)
(* Properties.                                                             *)
(***************************************************************************)
TypeOK ==
  /\ fbtag \in FbTags \cup {NoTag}
  /\ screen \in [width : Nat, height : Nat, bpp : Nat]
  /\ font \in DOMAIN Fonts
  /\ fb \in [0..FbLen - 1 -> 0..255]
  /\ phase \in {"boot", "ready", "font", "done"}
  /\ gcall.op \in {"none", "pixel", "line", "rect", "fill", "clear", "circle", "char", "text", "copy"}

\* The screen's pixels and the bytes of a pixel.
ScreenPixels == IF screen = NULL THEN {} ELSE (0..screen.width - 1) \X (0..screen.height - 1)
PixelAt(q) == q[2] * fbtag.pitch + q[1] * 4
BytesOf(m, q) == [i \in 0..3 |-> m[PixelAt(q) + i]]

\* gpre with the colour stored at the pixels of S on the screen.
Painted(S) ==
  [a \in DOMAIN gpre |->
     IF \E q \in S \cap ScreenPixels : PixelAt(q) <= a /\ a < PixelAt(q) + 4
     THEN ColorBytes[a - PixelAt(CHOOSE q \in S \cap ScreenPixels : PixelAt(q) <= a /\ a < PixelAt(q) + 4)]
     ELSE gpre[a]]

\* The pixels a call coloured.
Drawn == {q \in ScreenPixels : BytesOf(fb, q) = ColorBytes /\ BytesOf(gpre, q) # ColorBytes}

\* No drawing call, gfx_copy included, changes a byte outside the pixels
\* of the screen: not past height * pitch, and not in the padding at the
\* end of a row when the pitch is wider than width * 4, whatever the
\* coordinates (negative, past either edge) and sizes passed.
PaintInsideScreen ==
  \A a \in DOMAIN fb :
    fb[a] # gpre[a] => \E q \in ScreenPixels : PixelAt(q) <= a /\ a < PixelAt(q) + 4

\* The comment of gfx_draw_pixel's fb_end test says it ensures no store
\* writes beyond the framebuffer: no drawing call, at any depth, changes a
\* byte at or past height * pitch from the framebuffer's start.
StoresInsideFramebuffer ==
  fbtag # NoTag => \A a \in DOMAIN fb : a >= fbtag.height * fbtag.pitch => fb[a] = gpre[a]

\* gfx_draw_pixel, gfx_fill_rect, gfx_clear, gfx_draw_rect and, with the
\* 8x8 font gfx_init installs, gfx_draw_text colour exactly the pixels of
\* the point, the rectangle, its border, and the set bits of each glyph at
\* its column and line (a '\n' starts a new line, '\r' the same line
\* again, a char outside 0..127 leaves its cell blank), clipped to the
\* screen, and nothing else.
DrawExact ==
  LET c == gcall IN
  /\ c.op = "pixel" => fb = Painted({c.args[1]})
  /\ c.op \in {"fill", "rect"} =>
       LET r == c.args[1]
           area == (r.x..r.x + r.w - 1) \X (r.y..r.y + r.h - 1)
       IN fb = Painted(IF c.op = "fill" THEN area
                       ELSE {q \in area : q[1] \in {r.x, r.x + r.w - 1} \/ q[2] \in {r.y, r.y + r.h - 1}})
  /\ c.op = "clear" => fb = Painted(ScreenPixels)
  /\ c.op = "text" /\ font = "8x8" =>
       LET p == c.args[1]  t == c.args[2]  f == Fonts["8x8"]
           breaks(i) == {j \in 1..i - 1 : t[j] \in {10, 13}}
           col(i) == i - 1 - (IF breaks(i) = {} THEN 0 ELSE Max(breaks(i)))
           line(i) == Cardinality({j \in 1..i - 1 : t[j] = 10})
           glyph(i) ==
             {<<p[1] + col(i) * f.width + x, p[2] + line(i) * f.height + y>> :
                <<x, y>> \in {xy \in (0..f.width - 1) \X (0..f.height - 1) :
                                shiftR(f.table[t[i] * f.height + xy[2]], xy[1]) % 2 = 1}}
       IN fb = Painted(UNION {glyph(i) : i \in {k \in 1..Len(t) : t[k] \in 0..127 \ {10, 13}}})

\* gfx_draw_line colours its start pixel and nothing outside the box
\* spanned by its two ends, its x_scaled / 1000 steps truncating toward
\* zero on either side of the origin; gfx_draw_circle colours its four
\* axis points at the radius and only pixels within one of the radius.
ShapesOnTarget ==
  LET c == gcall IN
  /\ c.op = "line" =>
       LET a == c.args[1]  b == c.args[2]
           lo(i) == IF a[i] < b[i] THEN a[i] ELSE b[i]
           hi(i) == IF a[i] < b[i] THEN b[i] ELSE a[i]
       IN /\ Drawn \subseteq (lo(1)..hi(1)) \X (lo(2)..hi(2))
          /\ a \in ScreenPixels => a \in Drawn
  /\ c.op = "circle" /\ c.args[2] > 0 =>
       LET o == c.args[1]  r == c.args[2]
           d2(q) == (q[1] - o[1]) * (q[1] - o[1]) + (q[2] - o[2]) * (q[2] - o[2])
       IN /\ \A q \in Drawn : (r - 1) * (r - 1) <= d2(q) /\ d2(q) <= (r + 1) * (r + 1)
          /\ \A q \in {<<o[1] + r, o[2]>>, <<o[1] - r, o[2]>>, <<o[1], o[2] + r>>, <<o[1], o[2] - r>>} :
               q \in ScreenPixels => q \in Drawn

=============================================================================
