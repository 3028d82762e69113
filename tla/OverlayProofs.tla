----------------------------- MODULE OverlayProofs -----------------------------
(***************************************************************************)
(* What is on the panel, in every format of a framebuffer, at every point  *)
(* of it, for texts of every length and painters killed and started in any *)
(* order: a drawing is described by the rectangle it stays in and by the   *)
(* reading it is of (Over), a state by what its first painter holds        *)
(* (Holding, Reading) and by who may paint over a picture (Picture).       *)
(***************************************************************************)
EXTENDS BoardProofs

Bytes == 0 .. 255
Colours == [1 .. 3 -> Bytes]

\* A packed channel fits its field.
Packed(px) ==
    /\ {px.r, px.g, px.b} \subseteq 0 .. Levels(vinfo.rgb) - 1
    /\ px.a \in 0 .. Levels(vinfo.transp) - 1

LEMMA Powers ==
    /\ Levels(0) = 1 /\ Levels(1) = 2 /\ Levels(2) = 4 /\ Levels(3) = 8 /\ Levels(4) = 16
    /\ Levels(5) = 32 /\ Levels(6) = 64 /\ Levels(7) = 128 /\ Levels(8) = 256
BY Z3 DEF Levels

\* A channel of eight bits is cut down to the n that the format has.
Fits(n) == \A v \in Bytes : v \div Levels(8 - n) \in 0 .. Levels(n) - 1
Spreads(n) == \A v \in 0 .. Levels(n) - 1 : (v * 255) \div (Levels(n) - 1) \in Bytes

LEMMA ChannelFits ==
    ASSUME NEW n, n \in 0 .. 8
    PROVE  Fits(n)
<1>0. CASE n = 0
  <2>1. Levels(8 - n) = 256 /\ Levels(n) = 1
    BY <1>0, Powers
  <2>. QED BY <2>1 DEF Fits, Bytes
<1>1. CASE n = 1
  <2>1. Levels(8 - n) = 128 /\ Levels(n) = 2
    BY <1>1, Powers
  <2>. QED BY <2>1 DEF Fits, Bytes
<1>2. CASE n = 2
  <2>1. Levels(8 - n) = 64 /\ Levels(n) = 4
    BY <1>2, Powers
  <2>. QED BY <2>1 DEF Fits, Bytes
<1>3. CASE n = 3
  <2>1. Levels(8 - n) = 32 /\ Levels(n) = 8
    BY <1>3, Powers
  <2>. QED BY <2>1 DEF Fits, Bytes
<1>4. CASE n = 4
  <2>1. Levels(8 - n) = 16 /\ Levels(n) = 16
    BY <1>4, Powers
  <2>. QED BY <2>1 DEF Fits, Bytes
<1>5. CASE n = 5
  <2>1. Levels(8 - n) = 8 /\ Levels(n) = 32
    BY <1>5, Powers
  <2>. QED BY <2>1 DEF Fits, Bytes
<1>6. CASE n = 6
  <2>1. Levels(8 - n) = 4 /\ Levels(n) = 64
    BY <1>6, Powers
  <2>. QED BY <2>1 DEF Fits, Bytes
<1>7. CASE n = 7
  <2>1. Levels(8 - n) = 2 /\ Levels(n) = 128
    BY <1>7, Powers
  <2>. QED BY <2>1 DEF Fits, Bytes
<1>8. CASE n = 8
  <2>1. Levels(8 - n) = 1 /\ Levels(n) = 256
    BY <1>8, Powers
  <2>. QED BY <2>1 DEF Fits, Bytes
<1>. QED BY <1>0, <1>1, <1>2, <1>3, <1>4, <1>5, <1>6, <1>7, <1>8

LEMMA ChannelSpreads ==
    ASSUME NEW n, n \in 1 .. 8
    PROVE  Spreads(n)
<1>1. CASE n = 1
  <2>1. Levels(n) = 2
    BY <1>1, Powers
  <2>. QED BY <2>1 DEF Spreads, Bytes
<1>2. CASE n = 2
  <2>1. Levels(n) = 4
    BY <1>2, Powers
  <2>. QED BY <2>1 DEF Spreads, Bytes
<1>3. CASE n = 3
  <2>1. Levels(n) = 8
    BY <1>3, Powers
  <2>. QED BY <2>1 DEF Spreads, Bytes
<1>4. CASE n = 4
  <2>1. Levels(n) = 16
    BY <1>4, Powers
  <2>. QED BY <2>1 DEF Spreads, Bytes
<1>5. CASE n = 5
  <2>1. Levels(n) = 32
    BY <1>5, Powers
  <2>. QED BY <2>1 DEF Spreads, Bytes
<1>6. CASE n = 6
  <2>1. Levels(n) = 64
    BY <1>6, Powers
  <2>. QED BY <2>1 DEF Spreads, Bytes
<1>7. CASE n = 7
  <2>1. Levels(n) = 128
    BY <1>7, Powers
  <2>. QED BY <2>1 DEF Spreads, Bytes
<1>8. CASE n = 8
  <2>1. Levels(n) = 256
    BY <1>8, Powers
  <2>. QED BY <2>1 DEF Spreads, Bytes
<1>. QED BY <1>1, <1>2, <1>3, <1>4, <1>5, <1>6, <1>7, <1>8

LEMMA Format ==
    ASSUME vinfo \in Formats
    PROVE  /\ vinfo.xres \in Nat /\ vinfo.yres \in Nat /\ vinfo.line \in Nat
           /\ 348 <= vinfo.xres /\ vinfo.xres <= vinfo.line
           /\ vinfo.rgb \in 1 .. 8 /\ vinfo.transp \in 0 .. 8
BY PanelAssumption DEF FONT_W

\* What pack_a makes fits the format.
LEMMA PackedPixel ==
    ASSUME vinfo \in Formats, NEW c \in Colours, NEW a \in Bytes, NEW by
    PROVE  Packed(pack_a(c, a, by)) /\ pack_a(c, a, by).by = by
<1>1. vinfo.rgb \in 0 .. 8 /\ vinfo.transp \in 0 .. 8
  BY Format
<1>2. c[1] \in Bytes /\ c[2] \in Bytes /\ c[3] \in Bytes
  BY DEF Colours
<1>3. Fits(vinfo.rgb) /\ Fits(vinfo.transp)
  BY <1>1, ChannelFits
<1>. QED BY <1>2, <1>3 DEF pack_a, Packed, Fits

\* A colour through pack and unpack is a colour.
LEMMA UnpackedColour ==
    ASSUME vinfo \in Formats, NEW c \in Colours
    PROVE  Unpacked(c) \in Colours
<1>1. vinfo.rgb \in 0 .. 8 /\ vinfo.rgb \in 1 .. 8
  BY Format
<1>2. Fits(vinfo.rgb) /\ Spreads(vinfo.rgb)
  BY <1>1, ChannelFits, ChannelSpreads
<1>3. \A k \in 1 .. 3 : c[k] \in Bytes
  BY DEF Colours
<1>4. \A k \in 1 .. 3 : unpack(c[k] \div Levels(8 - vinfo.rgb)) \in Bytes
  BY <1>2, <1>3 DEF Fits, Spreads, unpack
<1>. QED BY <1>4 DEF Unpacked, Colours

\* What the font gives for a point of a character: coverage of the glyph and
\* of its outline, a nibble each (font.h).
GlyphsAreNibbles ==
    \A by : \A k \in Int, row \in Int, col \in Int :
        Coverage(by, k, row, col) \in (0 .. 15) \X (0 .. 15)

\* The two mixed: again a colour, and the coverage an alpha.
LEMMA BlendedColour ==
    ASSUME NEW fg \in Colours, NEW bg \in Colours, NEW g \in (0 .. 15) \X (0 .. 15), cov(g) # 0
    PROVE  Blend(fg, bg, g) \in Colours /\ (cov(g) * 255) \div 225 \in Bytes
<1>1. PICK m \in 0 .. 15, o \in 0 .. 15 : g[1] = m /\ g[2] = o
  OBVIOUS
<1>2. cov(g) = m * 15 + o * (15 - m)
  BY <1>1 DEF cov
<1>3. o * (15 - m) \in Nat /\ m * 15 \in Nat /\ o * (15 - m) <= 15 * (15 - m)
  BY <1>1
<1>4. PICK c \in Nat : c = cov(g)
  BY <1>2, <1>3
<1>5. c # 0 /\ m * 15 <= c /\ c <= 225
  BY <1>2, <1>3, <1>4
<1>6. (c * 255) \div 225 \in Bytes
  BY <1>5 DEF Bytes
<1>7. ASSUME NEW f \in Bytes PROVE (f * m * 15) \div c \in Bytes
  <2>1. PICK n \in Nat : n = f * m * 15
    BY DEF Bytes
  <2>2. n <= 255 * c
    <3>1. f * (m * 15) <= 255 * (m * 15)
      BY DEF Bytes
    <3>2. 255 * (m * 15) <= 255 * c
      BY <1>5
    <3>. QED BY <2>1, <3>1, <3>2 DEF Bytes
  <2>3. n \div c \in 0 .. 255
    BY <1>5, <2>2
  <2>. QED BY <2>1, <2>3 DEF Bytes
<1>8. ASSUME NEW f \in Bytes, NEW b \in Bytes
      PROVE  (f * m + b * (15 - m)) \div 15 \in Bytes
  <2>1. f * m \in Nat /\ f * m <= 255 * m
    BY DEF Bytes
  <2>2. b * (15 - m) \in Nat /\ b * (15 - m) <= 255 * (15 - m)
    BY DEF Bytes
  <2>3. PICK x \in Nat, y \in Nat : x = f * m /\ y = b * (15 - m) /\ x + y <= 255 * 15
    BY <2>1, <2>2
  <2>4. (x + y) \div 15 \in 0 .. 255
    BY <2>3
  <2>. QED BY <2>3, <2>4 DEF Bytes
<1>9. \A k \in 1 .. 3 : fg[k] \in Bytes /\ bg[k] \in Bytes
  BY DEF Colours
<1>10. \A k \in 1 .. 3 :
          /\ (fg[k] * g[1] * 15) \div cov(g) \in Bytes
          /\ (fg[k] * g[1] + bg[k] * (15 - g[1])) \div 15 \in Bytes
  BY <1>1, <1>4, <1>7, <1>8, <1>9
<1>. QED BY <1>4, <1>6, <1>10 DEF Blend, Colours

----------------------------------------------------------------------------
(* Drawing *)

\* Every sample is on the panel.
LEMMA OnThePanel ==
    ASSUME vinfo \in Formats, NEW p \in Samples
    PROVE  p[1] \in 0 .. vinfo.xres - 1 /\ p[2] \in 0 .. vinfo.yres - 1
<1>1. p \in (0 .. vinfo.xres - 1) \X (0 .. vinfo.yres - 1)
  BY PanelAssumption
<1>. QED BY <1>1

\* A sample on the panel is hit by its own address only (put_pixel).
LEMMA OneTarget ==
    ASSUME vinfo \in Formats, NEW p \in Samples
    PROVE  Targets(p) = {p}
<1>1. p \in (0 .. vinfo.xres - 1) \X (0 .. vinfo.yres - 1)
  BY PanelAssumption
<1>2. PICK x \in 0 .. vinfo.xres - 1, y \in 0 .. vinfo.yres - 1 : p = <<x, y>>
  BY <1>1
<1>3. vinfo.xres \in Nat /\ vinfo.line \in Nat /\ vinfo.xres <= vinfo.line /\ vinfo.yres \in Nat
  BY Format
<1>4. Aliases(p) = {<<x, y>>, <<x + vinfo.line, y - 1>>}
  <2>1. 0 .. 1 = {0, 1}
    OBVIOUS
  <2>2. x + 0 * vinfo.line = x /\ y - 0 = y /\ x + 1 * vinfo.line = x + vinfo.line
    BY <1>2, <1>3
  <2>. QED BY <1>2, <2>1, <2>2 DEF Aliases
<1>5. OnPanel(<<x, y>>) /\ ~OnPanel(<<x + vinfo.line, y - 1>>)
  BY <1>2, <1>3 DEF OnPanel
<1>. QED BY <1>2, <1>4, <1>5 DEF Targets

\* Filling a rectangle.
LEMMA Fill ==
    ASSUME vinfo \in Formats, NEW scr, NEW x, NEW y, NEW w, NEW h, NEW px, NEW p \in Samples
    PROVE  fill_rect(scr, x, y, w, h, px)[p] = IF In(p, x, y, w, h) THEN px ELSE scr[p]
<1>1. Targets(p) = {p}
  BY OneTarget
<1>. QED BY <1>1 DEF fill_rect, Plot

\* A quarter of a scrim's pixels may be left as they were, but none where the
\* format has partial alpha.
LEMMA Scrimmed ==
    ASSUME vinfo \in Formats, NEW scr, NEW x, NEW y, NEW w, NEW h, NEW px, NEW p \in Samples
    PROVE  /\ \/ fill_scrim(scr, x, y, w, h, px)[p] = scr[p]
              \/ In(p, x, y, w, h) /\ fill_scrim(scr, x, y, w, h, px)[p] = px
           /\ soft_alpha /\ In(p, x, y, w, h) => fill_scrim(scr, x, y, w, h, px)[p] = px
<1>1. Targets(p) = {p}
  BY OneTarget
<1>. QED BY <1>1 DEF fill_scrim, Plot

\* What a drawing does to the screen: it leaves a pixel alone or, within R,
\* paints it for the reading `by'.
Over(scr, res, R, by) ==
    \A p \in Samples : \/ res[p] = scr[p]
                       \/ p \in R /\ res[p].by = by /\ Packed(res[p])

Rect(x, y, w, h) == {p \in Samples : In(p, x, y, w, h)}

LEMMA OverTwice ==
    ASSUME NEW a, NEW b, NEW c, NEW R, NEW by, Over(a, b, R, by), Over(b, c, R, by)
    PROVE  Over(a, c, R, by)
BY DEF Over

LEMMA OverMore ==
    ASSUME NEW a, NEW b, NEW R, NEW T, R \subseteq T, NEW by, Over(a, b, R, by)
    PROVE  Over(a, b, T, by)
BY DEF Over

\* A line of text stays in its box, and what it inks is a pixel of its reading.
LEMMA TextOver ==
    ASSUME vinfo \in Formats, GlyphsAreNibbles, NEW scr, NEW x, x \in Int, NEW y, y \in Int,
           NEW by, NEW len, NEW fg \in Colours, NEW bg \in Colours
    PROVE  Over(scr, draw_text(scr, x, y, by, len, fg, bg),
                Rect(x, y, len * FONT_W, FONT_H), by)
<1> DEFINE res == draw_text(scr, x, y, by, len, fg, bg)
           glyph(q) == Coverage(by, (q[1] - x) \div FONT_W, q[2] - y, (q[1] - x) % FONT_W)
           alpha(q) == (cov(glyph(q)) * 255) \div 225
           ink(q) == pack_a(Blend(Unpacked(fg), Unpacked(bg), glyph(q)),
                            IF soft_alpha THEN alpha(q) ELSE 255, by)
<1>1. ASSUME NEW p \in Samples
      PROVE  \/ res[p] = scr[p]
             \/ In(p, x, y, len * FONT_W, FONT_H) /\ cov(glyph(p)) # 0 /\ res[p] = ink(p)
  <2>1. Targets(p) = {p}
    BY OneTarget
  <2>. QED BY <2>1 DEF draw_text, Plot
<1>2. ASSUME NEW p \in Samples, cov(glyph(p)) # 0 PROVE Packed(ink(p)) /\ ink(p).by = by
  <2>1. PICK g \in (0 .. 15) \X (0 .. 15) : g = glyph(p)
    <3>1. p[1] \in Int /\ p[2] \in Int
      BY OnThePanel, Format
    <3>2. (p[1] - x) \div FONT_W \in Int /\ p[2] - y \in Int /\ (p[1] - x) % FONT_W \in Int
      BY <3>1 DEF FONT_W
    <3>. QED BY <3>2 DEF GlyphsAreNibbles
  <2>2. Unpacked(fg) \in Colours /\ Unpacked(bg) \in Colours
    BY UnpackedColour
  <2>3. PICK c \in Colours : c = Blend(Unpacked(fg), Unpacked(bg), glyph(p))
    BY <1>2, <2>1, <2>2, BlendedColour
  <2>4. PICK a \in Bytes : a = IF soft_alpha THEN alpha(p) ELSE 255
    <3>1. alpha(p) \in Bytes
      BY <1>2, <2>1, <2>2, BlendedColour
    <3>2. 255 \in Bytes
      BY DEF Bytes
    <3> HIDE DEF alpha
    <3>. QED BY <3>1, <3>2
  <2>5. ink(p) = pack_a(c, a, by)
    BY <2>3, <2>4
  <2>. QED BY <2>5, PackedPixel
<1>. QED BY <1>1, <1>2 DEF Over, Rect

LEMMA Palette ==
    /\ {White, Green, Amber, Red, Cyan, Panel, <<0, 0, 0>>, Scrim} \subseteq Colours
    /\ \A i \in 1 .. 8 : Bars[i] \in Colours
<1>1. ASSUME NEW r \in Bytes, NEW g \in Bytes, NEW b \in Bytes PROVE <<r, g, b>> \in Colours
  BY DEF Colours
<1>2. {0, 24, 32, 40, 80, 200, 255} \subseteq Bytes
  BY DEF Bytes
<1>3. {White, Green, Amber, Red, Cyan, Panel, <<0, 0, 0>>, Scrim} \subseteq Colours
  BY <1>1, <1>2 DEF White, Green, Amber, Red, Cyan, Panel, Scrim
<1>4. \A i \in 1 .. 8 : i \in {1, 2, 3, 4, 5, 6, 7, 8}
  OBVIOUS
<1>5. /\ Bars[1] \in Colours /\ Bars[2] \in Colours /\ Bars[3] \in Colours
      /\ Bars[4] \in Colours /\ Bars[5] \in Colours /\ Bars[6] \in Colours
      /\ Bars[7] \in Colours /\ Bars[8] \in Colours
  BY <1>1, <1>2 DEF Bars, White, Green, Cyan
<1>. QED BY <1>3, <1>4, <1>5

\* A label of len characters and its margin.
LabelBox(x, y, len) == Rect(x - 6, y - 2, len * FONT_W + 12, FONT_H + 4)

\* A label stays in its box of len characters and a margin, and where the
\* format has partial alpha it leaves nothing of what was there.
LEMMA LabelOver ==
    ASSUME vinfo \in Formats, GlyphsAreNibbles, NEW scr, NEW x \in Int, NEW y \in Int, NEW by,
           NEW len \in Nat, NEW fg \in Colours
    PROVE  /\ Over(scr, draw_label(scr, x, y, by, len, fg), LabelBox(x, y, len), by)
           /\ soft_alpha => \A p \in LabelBox(x, y, len) :
                                draw_label(scr, x, y, by, len, fg)[p].by = by
<1> DEFINE px == pack_a(Scrim, IF soft_alpha THEN 110 ELSE 255, by)
           back == fill_scrim(scr, x - 6, y - 2, len * FONT_W + 12, FONT_H + 4, px)
           bg == IF soft_alpha THEN <<0, 0, 0>> ELSE Scrim
           Box == LabelBox(x, y, len)
           Inner == Rect(x, y, len * FONT_W, FONT_H)
<1>1. Packed(px) /\ px.by = by
  <2>1. 110 \in Bytes /\ 255 \in Bytes
    BY DEF Bytes
  <2>2. Scrim \in Colours
    BY Palette
  <2>3. PICK a \in Bytes : a = IF soft_alpha THEN 110 ELSE 255
    BY <2>1
  <2>4. px = pack_a(Scrim, a, by)
    BY <2>3
  <2>. QED BY <2>2, <2>4, PackedPixel
<1> HIDE DEF px
<1>2. Over(scr, back, Box, by)
  BY <1>1, Scrimmed DEF Over, LabelBox, Rect
<1>3. soft_alpha => \A p \in Box : back[p].by = by
  BY <1>1, Scrimmed DEF LabelBox, Rect
<1>4. bg \in Colours
  BY Palette
<1> HIDE DEF bg, back
<1>5. PICK res : res = draw_text(back, x, y, by, len, fg, bg)
  OBVIOUS
<1>6. Over(back, res, Inner, by)
  BY <1>4, <1>5, TextOver
<1>7. Inner \subseteq Box
  <2>1. \A q : In(q, x, y, len * FONT_W, FONT_H)
                => In(q, x - 6, y - 2, len * FONT_W + 12, FONT_H + 4)
    BY DEF In, FONT_W, FONT_H
  <2>. QED BY <2>1 DEF LabelBox, Rect
<1> HIDE DEF Inner, Box
<1>8. Over(scr, res, Box, by)
  BY <1>2, <1>6, <1>7, OverTwice, OverMore
<1>9. soft_alpha => \A p \in Box : res[p].by = by
  <2>1. Box \subseteq Samples
    BY DEF Box, LabelBox, Rect
  <2>. QED BY <1>3, <1>6, <2>1 DEF Over
<1>10. draw_label(scr, x, y, by, len, fg) = res
  BY <1>5 DEF draw_label, back, bg, px
<1>. QED BY <1>8, <1>9, <1>10 DEF Box

----------------------------------------------------------------------------
(* The modes *)

LEMMA PanelPixel ==
    ASSUME vinfo \in Formats PROVE Packed(pack(Panel, <<>>)) /\ pack(Panel, <<>>).by = <<>>
<1>1. 255 \in Bytes
  BY DEF Bytes
<1>. QED BY <1>1, Palette, PackedPixel DEF pack

LEMMA NothingPixel ==
    ASSUME vinfo \in Formats PROVE Packed(Nothing) /\ Nothing.by = <<>> /\ Nothing.a = 0
<1>1. vinfo.rgb \in 0 .. 8 /\ vinfo.transp \in 0 .. 8
  BY Format
<1>2. \A n \in 0 .. 8 : 0 \in 0 .. Levels(n) - 1
  <2>1. \A n \in 0 .. 8 : n \in {0, 1, 2, 3, 4, 5, 6, 7, 8}
    OBVIOUS
  <2>. QED BY <2>1, Powers
<1>. QED BY <1>1, <1>2 DEF Nothing, Packed

\* The panel filled from edge to edge.
LEMMA FilledShows ==
    ASSUME vinfo \in Formats, NEW scr, NEW p \in Samples
    PROVE  Filled(scr)[p].by = <<>> /\ Packed(Filled(scr)[p])
<1>1. PICK px : px = pack(Panel, <<>>)
  OBVIOUS
<1>2. In(p, 0, 0, vinfo.xres, vinfo.yres)
  BY OnThePanel, Format DEF In
<1>3. Filled(scr)[p] = px
  BY <1>1, <1>2, Fill DEF Filled
<1>. QED BY <1>1, <1>3, PanelPixel

LEMMA BarsOver ==
    ASSUME vinfo \in Formats, NEW scr, NEW y, NEW h
    PROVE  Over(scr, colour_bars(scr, y, h), Samples, <<>>)
<1> DEFINE res == colour_bars(scr, y, h)
           w == vinfo.xres \div 8
<1>1. ASSUME NEW p \in Samples
      PROVE  \/ res[p] = scr[p]
             \/ In(p, 0, y, 8 * w, h) /\ res[p] = pack(Bars[p[1] \div w + 1], <<>>)
  <2>1. Targets(p) = {p}
    BY OneTarget
  <2>. QED BY <2>1 DEF colour_bars, Plot
<1>2. ASSUME NEW p \in Samples, In(p, 0, y, 8 * w, h)
      PROVE  p[1] \div w + 1 \in 1 .. 8
  <2>1. PICK v \in Nat : v = w
    BY Format
  <2> HIDE DEF w
  <2>2. PICK a \in Nat : a = p[1] /\ a < 8 * v
    BY <1>2, <2>1 DEF In
  <2>3. v > 0 /\ a \div v \in 0 .. 7
    BY <2>2
  <2>. QED BY <2>1, <2>2, <2>3
<1> HIDE DEF w, res
<1>3. ASSUME NEW i \in 1 .. 8 PROVE Packed(pack(Bars[i], <<>>)) /\ pack(Bars[i], <<>>).by = <<>>
  <2>1. 255 \in Bytes
    BY DEF Bytes
  <2>. QED BY <2>1, Palette, PackedPixel DEF pack
<1>. QED BY <1>1, <1>2, <1>3 DEF Over, res

\* The splash covers the panel.
LEMMA SplashShows ==
    ASSUME vinfo \in Formats, GlyphsAreNibbles, NEW scr, NEW p \in Samples
    PROVE  Splash(scr)[p].by = <<>> /\ Packed(Splash(scr)[p])
<1> DEFINE h == vinfo.yres \div 4
<1>1. PICK s0 : s0 = colour_bars(Filled(scr), 20, h)
  OBVIOUS
<1>y. PICK y0 \in Int, y1 \in Int, y2 \in Int :
          /\ y0 = 50 + h + 0 * line_h /\ y1 = 50 + h + 1 * line_h
          /\ y2 = 50 + h + 2 * line_h
  BY Format DEF line_h, FONT_H
<1>2. PICK s1 : s1 = draw_text(s0, 30, y0, <<>>, 22, White, Panel)
  OBVIOUS
<1>3. PICK s2 : s2 = draw_text(s1, 30, y1, <<>>, 22, White, Panel)
  OBVIOUS
<1>4. PICK s3 : s3 = draw_text(s2, 30, y2, <<>>, 22, White, Panel)
  OBVIOUS
<1>5. Splash(scr) = s3
  BY <1>1, <1>y, <1>2, <1>3, <1>4 DEF Splash
<1>6. White \in Colours /\ Panel \in Colours
  BY Palette
<1>7. ASSUME NEW a, NEW b, NEW y \in Int, b = draw_text(a, 30, y, <<>>, 22, White, Panel)
      PROVE  Over(a, b, Samples, <<>>)
  <2>1. PICK x \in Int : x = 30
    OBVIOUS
  <2>2. PICK len, by : len = 22 /\ by = <<>>
    OBVIOUS
  <2>3. Over(a, b, Rect(x, y, len * FONT_W, FONT_H), by)
    BY <1>6, <1>7, <2>1, <2>2, TextOver
  <2>4. Rect(x, y, len * FONT_W, FONT_H) \subseteq Samples
    BY DEF Rect
  <2>. QED BY <2>2, <2>3, <2>4, OverMore
<1>8. Over(Filled(scr), s0, Samples, <<>>)
  BY <1>1, BarsOver
<1>9. Over(s0, s1, Samples, <<>>) /\ Over(s1, s2, Samples, <<>>) /\ Over(s2, s3, Samples, <<>>)
  BY <1>2, <1>3, <1>4, <1>7
<1>10. Over(Filled(scr), s3, Samples, <<>>)
  BY <1>8, <1>9, OverTwice
<1>. QED BY <1>5, <1>10, FilledShows DEF Over

\* The strip at the bottom left, the block of the statistics, and the timer's
\* rectangle, widened to the edge of the panel.
Strip == Rect(12, strip_y - 4, vinfo.xres - 20, strip_h + 8)
Block == Rect(0, 0, vinfo.xres, stats_y + line_h * 13)
Corner == Rect(timer_x - 8, timer_y - 4, vinfo.xres, FONT_H + 8)

LEMMA StripClears ==
    ASSUME vinfo \in Formats, NEW scr, NEW p \in Samples
    PROVE  StripCleared(scr)[p] = IF p \in Strip THEN Nothing ELSE scr[p]
BY Fill DEF StripCleared, clear_transparent, Strip, Rect

\* A label of len characters in line k of the strip is inside of the strip.
LEMMA StripLabel ==
    ASSUME vinfo \in Formats, GlyphsAreNibbles, NEW scr, NEW y, y \in {strip_y, strip_y + line_h},
           NEW by, NEW len \in Nat, len * FONT_W + 34 <= vinfo.xres, NEW fg \in Colours
    PROVE  Over(scr, draw_label(scr, 20, y, by, len, fg), Strip, by)
<1>1. vinfo.yres \in Nat /\ vinfo.xres \in Nat
  BY Format
<1>2. strip_y \in Int /\ y \in Int /\ y \in {strip_y, strip_y + 36}
  BY <1>1 DEF strip_y, strip_h, line_h, FONT_H
<1>3. Over(scr, draw_label(scr, 20, y, by, len, fg), LabelBox(20, y, len), by)
  <2>1. PICK x \in Int : x = 20
    OBVIOUS
  <2>2. Over(scr, draw_label(scr, x, y, by, len, fg), LabelBox(x, y, len), by)
    BY <1>2, LabelOver
  <2>. QED BY <2>1, <2>2
<1>4. LabelBox(20, y, len) \subseteq Strip
  <2>1. ASSUME NEW q, In(q, 20 - 6, y - 2, len * FONT_W + 12, FONT_H + 4)
        PROVE  In(q, 12, strip_y - 4, vinfo.xres - 20, strip_h + 8)
    <3>1. strip_h = 73 /\ FONT_H + 4 = 36
      BY DEF strip_h, line_h, FONT_H
    <3>2. PICK n \in Nat : n = len * FONT_W
      BY DEF FONT_W
    <3>3. q[1] \in 14 .. n + 25 /\ n + 34 <= vinfo.xres
      BY <2>1, <3>2 DEF In
    <3>4. q[1] \in 12 .. 12 + (vinfo.xres - 20) - 1
      BY <1>1, <3>3
    <3>5. q[2] \in y - 2 .. y - 2 + 36 - 1
      BY <2>1, <3>1 DEF In
    <3>6. q[2] \in strip_y - 4 .. strip_y - 4 + (73 + 8) - 1
      BY <1>2, <3>5
    <3>. QED BY <3>1, <3>4, <3>6 DEF In
  <2>. QED BY <2>1 DEF Strip, LabelBox, Rect
<1>. QED BY <1>3, <1>4, OverMore

LEMMA LinesOver ==
    ASSUME vinfo \in Formats, GlyphsAreNibbles, NEW scr, NEW s \in Readings
    PROVE  Over(scr, FirstLine(scr, s), Strip, <<s>>) /\ Over(scr, SecondLine(scr, s), Strip, <<s>>)
<1>1. /\ s.len[1] \in Nat /\ s.len[1] * FONT_W + 34 <= vinfo.xres
      /\ s.len[2] \in Nat /\ s.len[2] * FONT_W + 34 <= vinfo.xres
  BY ReadingAssumption
<1>2. 7 \in Nat /\ 7 * FONT_W + 34 <= vinfo.xres
  BY Format DEF FONT_W
<1>3. RssiColour(s.rssi) \in Colours /\ Red \in Colours /\ White \in Colours
  BY Palette DEF RssiColour
<1>4. ASSUME NEW len \in Nat, len * FONT_W + 34 <= vinfo.xres, NEW fg \in Colours
      PROVE  /\ Over(scr, draw_label(scr, 20, strip_y, <<s>>, len, fg), Strip, <<s>>)
             /\ Over(scr, draw_label(scr, 20, strip_y + line_h, <<s>>, len, fg), Strip, <<s>>)
  <2>1. PICK y1, y2 : y1 = strip_y /\ y2 = strip_y + line_h
    OBVIOUS
  <2>. QED BY <1>4, <2>1, StripLabel
<1>5. Over(scr, FirstLine(scr, s), Strip, <<s>>)
  <2>1. CASE NoLink(s)
    BY <1>2, <1>3, <1>4, <2>1 DEF FirstLine
  <2>2. CASE ~NoLink(s)
    BY <1>1, <1>3, <1>4, <2>2 DEF FirstLine
  <2>. QED BY <2>1, <2>2
<1>6. Over(scr, SecondLine(scr, s), Strip, <<s>>)
  <2>1. CASE NoLink(s)
    BY <2>1 DEF SecondLine, Over
  <2>2. CASE ~NoLink(s)
    <3>1. PICK fg \in Colours : fg = IF s.lost > 0 THEN Red ELSE White
      BY <1>3
    <3>2. SecondLine(scr, s) = draw_label(scr, 20, strip_y + line_h, <<s>>, s.len[2], fg)
      BY <2>2, <3>1 DEF SecondLine
    <3>. QED BY <1>1, <1>4, <3>2
  <2>. QED BY <2>1, <2>2
<1>. QED BY <1>5, <1>6

\* The timer's label at time t, and what is cleared for it.
TimerBox(t) == LabelBox(timer_x, timer_y, buf(t))
Cleared == Rect(timer_x - 8, timer_y - 4, 20 * FONT_W + 16, FONT_H + 8)

LEMMA TextGrows ==
    ASSUME vinfo \in Formats, label \in Labels, NEW t \in Times
    PROVE  /\ t \in Nat /\ buf(t) \in Nat
           /\ \A u \in Times : u <= t => buf(u) <= buf(t)
<1>1. Times \subseteq Nat /\ label \in Nat
  BY WorldAssumption
<1>. QED BY <1>1 DEF buf, clk

\* Boxes grow with the text, up to the edge of the panel; with twenty
\* characters they are within what is cleared.
LEMMA TimerBoxes ==
    ASSUME vinfo \in Formats, label \in Labels, NEW t \in Times
    PROVE  /\ TimerBox(t) \subseteq Corner /\ Cleared \subseteq Corner
           /\ buf(t) <= 20 => TimerBox(t) \subseteq Cleared
           /\ \A u \in Times : u <= t => TimerBox(u) \subseteq TimerBox(t)
<1>1. PICK x \in Int, y \in Int : x = timer_x /\ y = timer_y
  BY Format DEF timer_x, timer_y, FONT_W, FONT_H
<1>2. vinfo.xres \in Nat /\ x = vinfo.xres - 340 /\ 348 <= vinfo.xres
  BY <1>1, Format DEF timer_x, FONT_W
<1>3. ASSUME NEW n \in Nat, NEW p \in LabelBox(x, y, n)
      PROVE  /\ p \in Samples /\ p[1] \in 0 .. vinfo.xres - 1
             /\ p[1] \in x - 6 .. x + n * 16 + 5
             /\ p[2] \in y - 2 .. y + 33
  <2>1. p \in Samples /\ p[1] \in x - 6 .. (x - 6) + (n * 16 + 12) - 1
        /\ p[2] \in y - 2 .. (y - 2) + 36 - 1
    BY <1>3 DEF LabelBox, Rect, In, FONT_W, FONT_H
  <2>2. p[1] \in 0 .. vinfo.xres - 1
    BY <2>1, OnThePanel
  <2>. QED BY <2>1, <2>2
<1>4. ASSUME NEW p \in Samples, p[1] \in x - 8 .. x - 8 + vinfo.xres - 1, p[2] \in y - 4 .. y + 35
      PROVE  p \in Corner
  <2>1. p[2] \in y - 4 .. (y - 4) + 40 - 1
    BY <1>4
  <2>. QED BY <1>1, <1>4, <2>1 DEF Corner, Rect, In, FONT_H
<1>5. ASSUME NEW n \in Nat PROVE LabelBox(x, y, n) \subseteq Corner
  <2>1. ASSUME NEW p \in LabelBox(x, y, n) PROVE p \in Corner
    <3>1. /\ p \in Samples /\ p[1] \in 0 .. vinfo.xres - 1
          /\ p[1] \in x - 6 .. x + n * 16 + 5 /\ p[2] \in y - 2 .. y + 33
      BY <1>3
    <3>2. p[1] \in x - 8 .. x - 8 + vinfo.xres - 1
      BY <1>2, <3>1
    <3>3. p[2] \in y - 4 .. y + 35
      BY <3>1
    <3>. QED BY <1>4, <3>1, <3>2, <3>3
  <2>. QED BY <2>1
<1>6. Cleared \subseteq Corner
  <2>1. ASSUME NEW p \in Cleared PROVE p \in Corner
    <3>1. p \in Samples /\ p[1] \in x - 8 .. (x - 8) + 336 - 1 /\ p[2] \in y - 4 .. (y - 4) + 40 - 1
      BY <1>1, <2>1 DEF Cleared, Rect, In, FONT_W, FONT_H
    <3>2. p[1] \in 0 .. vinfo.xres - 1
      BY <3>1, OnThePanel
    <3>3. p[1] \in x - 8 .. x - 8 + vinfo.xres - 1
      BY <1>2, <3>1, <3>2
    <3>4. p[2] \in y - 4 .. y + 35
      BY <3>1
    <3>. QED BY <1>4, <3>1, <3>3, <3>4
  <2>. QED BY <2>1
<1>7. ASSUME NEW n \in Nat, n <= 20 PROVE LabelBox(x, y, n) \subseteq Cleared
  <2>1. ASSUME NEW p \in LabelBox(x, y, n) PROVE p \in Cleared
    <3>1. /\ p \in Samples
          /\ p[1] \in x - 6 .. x + n * 16 + 5 /\ p[2] \in y - 2 .. y + 33
      BY <1>3
    <3>2. p[1] \in x - 8 .. (x - 8) + 336 - 1 /\ p[2] \in y - 4 .. (y - 4) + 40 - 1
      BY <1>7, <3>1
    <3>. QED BY <1>1, <3>1, <3>2 DEF Cleared, Rect, In, FONT_W, FONT_H
  <2>. QED BY <2>1
<1>8. ASSUME NEW m \in Nat, NEW n \in Nat, m <= n PROVE LabelBox(x, y, m) \subseteq LabelBox(x, y, n)
  <2>1. ASSUME NEW p \in LabelBox(x, y, m) PROVE p \in LabelBox(x, y, n)
    <3>1. /\ p \in Samples
          /\ p[1] \in x - 6 .. x + m * 16 + 5 /\ p[2] \in y - 2 .. y + 33
      BY <1>3
    <3>2. p[1] \in x - 6 .. (x - 6) + (n * 16 + 12) - 1 /\ p[2] \in y - 2 .. (y - 2) + 36 - 1
      BY <1>8, <3>1
    <3>. QED BY <3>1, <3>2 DEF LabelBox, Rect, In, FONT_W, FONT_H
  <2>. QED BY <2>1
<1>9. buf(t) \in Nat /\ \A u \in Times : buf(u) \in Nat /\ (u <= t => buf(u) <= buf(t))
  BY TextGrows
<1>. QED BY <1>1, <1>5, <1>6, <1>7, <1>8, <1>9 DEF TimerBox

\* What is on the screen of a reading: nothing outside of R, and within R
\* nothing of another reading.
Shown(scr, R, by) ==
    \A p \in Samples : scr[p].by = <<>> \/ (p \in R /\ scr[p].by = by)

AllPacked(scr) == \A p \in Samples : Packed(scr[p])
\* What lets the picture through everywhere but in R.
Uncovered(scr, R) == \A p \in Samples : p \in R \/ scr[p].a = 0

LEMMA OverKeeps ==
    ASSUME NEW a, NEW b, NEW R, NEW by, Over(a, b, R, by), AllPacked(a)
    PROVE  /\ AllPacked(b)
           /\ Shown(a, R, by) => Shown(b, R, by)
           /\ Uncovered(a, R) => Uncovered(b, R)
BY DEF Over, AllPacked, Shown, Uncovered

\* The timer's turn: the rectangle is cleared and the label drawn.
LEMMA TimerDraws ==
    ASSUME vinfo \in Formats, GlyphsAreNibbles, label \in Labels, NEW scr, NEW t \in Times,
           NEW p \in Samples
    PROVE  /\ \/ Timer(scr, t)[p] = scr[p]
              \/ Timer(scr, t)[p] = Nothing /\ p \in Corner
              \/ /\ p \in TimerBox(t) /\ Packed(Timer(scr, t)[p])
                 /\ Timer(scr, t)[p].by = <<[t |-> t]>>
           /\ p \in TimerBox(t) /\ (soft_alpha \/ buf(t) <= 20)
                => Timer(scr, t)[p].by \in {<<>>, <<[t |-> t]>>}
<1>1. PICK by : by = <<[t |-> t]>>
  OBVIOUS
<1>2. PICK x \in Int, y \in Int : x = timer_x /\ y = timer_y
  BY Format DEF timer_x, timer_y, FONT_W, FONT_H
<1>3. PICK c : c = clear_transparent(scr, timer_x - 8, timer_y - 4, 20 * FONT_W + 16, FONT_H + 8)
  OBVIOUS
<1>4. \A q \in Samples : c[q] = IF q \in Cleared THEN Nothing ELSE scr[q]
  BY <1>3, Fill DEF clear_transparent, Cleared, Rect
<1>5. PICK len \in Nat : len = buf(t)
  BY TextGrows
<1>6. Green \in Colours
  BY Palette
<1>7. PICK res : res = draw_label(c, x, y, by, len, Green)
  OBVIOUS
<1>8. Timer(scr, t) = res
  BY <1>1, <1>2, <1>3, <1>5, <1>7 DEF Timer
<1>9. /\ Over(c, res, LabelBox(x, y, len), by)
      /\ soft_alpha => \A q \in LabelBox(x, y, len) : res[q].by = by
  BY <1>6, <1>7, LabelOver
<1>10. LabelBox(x, y, len) = TimerBox(t)
  BY <1>2, <1>5 DEF TimerBox
<1>11. Cleared \subseteq Corner /\ (buf(t) <= 20 => TimerBox(t) \subseteq Cleared)
  BY TimerBoxes
<1>12. Nothing.by = <<>>
  BY DEF Nothing
<1>13. \/ res[p] = c[p]
       \/ p \in TimerBox(t) /\ Packed(res[p]) /\ res[p].by = by
  BY <1>9, <1>10 DEF Over
<1>14. soft_alpha /\ p \in TimerBox(t) => res[p].by = by
  BY <1>9, <1>10
<1>. QED BY <1>1, <1>4, <1>8, <1>11, <1>12, <1>13, <1>14

\* Where it leaves no specks the label on the screen is that of one time.
LEMMA TimerShows ==
    ASSUME vinfo \in Formats, GlyphsAreNibbles, label \in Labels, NEW scr, NEW t \in Times,
           soft_alpha \/ buf(t) <= 20, NEW u, NEW R, R \subseteq TimerBox(t), Shown(scr, R, u)
    PROVE  Shown(Timer(scr, t), TimerBox(t), <<[t |-> t]>>)
<1>. SUFFICES ASSUME NEW p \in Samples
              PROVE  \/ Timer(scr, t)[p].by = <<>>
                     \/ p \in TimerBox(t) /\ Timer(scr, t)[p].by = <<[t |-> t]>>
  BY DEF Shown
<1>1. PICK res, by : res = Timer(scr, t) /\ by = <<[t |-> t]>>
  OBVIOUS
<1>2. /\ \/ res[p] = scr[p]
         \/ res[p] = Nothing
         \/ p \in TimerBox(t) /\ res[p].by = by
      /\ p \in TimerBox(t) => res[p].by \in {<<>>, by}
  BY <1>1, TimerDraws
<1>3. p \notin TimerBox(t) => scr[p].by = <<>>
  BY DEF Shown
<1>4. Nothing.by = <<>>
  BY DEF Nothing
<1>. QED BY <1>1, <1>2, <1>3, <1>4

\* And it packs its pixels and stays in its corner.
LEMMA TimerStays ==
    ASSUME vinfo \in Formats, GlyphsAreNibbles, label \in Labels, NEW scr, NEW t \in Times,
           AllPacked(scr)
    PROVE  /\ AllPacked(Timer(scr, t))
           /\ Uncovered(scr, Corner) => Uncovered(Timer(scr, t), Corner)
<1>1. PICK res : res = Timer(scr, t)
  OBVIOUS
<1>2. TimerBox(t) \subseteq Corner
  BY TimerBoxes
<1>3. \A p \in Samples : \/ res[p] = scr[p]
                         \/ p \in Corner /\ res[p] = Nothing
                         \/ p \in Corner /\ Packed(res[p])
  BY <1>1, <1>2, TimerDraws
<1>4. Packed(Nothing)
  BY NothingPixel
<1>. QED BY <1>1, <1>3, <1>4 DEF AllPacked, Uncovered

\* A report of the statistics and its lines.
Reports ==
    [up : BOOLEAN, ssid : Nat, freq : BOOLEAN, state : Nat, note : Nat, wired : BOOLEAN,
     pkts : Nat, rate : [some : BOOLEAN, digits : Nat]]

TextLines == [len : Nat, colour : Colours]

LEMMA ReportType ==
    ASSUME NEW w \in Worlds, NEW prev, prev = <<>> \/ (\E s \in Reports : prev = <<s>>)
    PROVE  Report(w, prev) \in Reports
<1>1. w.pkts \in Nat /\ \A key \in DOMAIN w.file : w.file[key] \in Nat
  BY WorldAssumption
<1>2. read_counter(w) \in Nat
  BY <1>1 DEF read_counter
<1>3. \A key : read_kv(w, key) \in Nat
  BY <1>1 DEF read_kv
<1>4. Since(prev, read_counter(w)) \in [some : BOOLEAN, digits : Nat]
  BY DEF Since
<1>5. (read_operstate(w) = "up") \in BOOLEAN /\ (read_kv(w, "freq") > 0) \in BOOLEAN
      /\ (read_ipv4(w) # "NONE") \in BOOLEAN
  OBVIOUS
<1>6. PICK up \in BOOLEAN, freq \in BOOLEAN, wired \in BOOLEAN, ssid \in Nat, state \in Nat,
           note \in Nat, pkts \in Nat, rate \in [some : BOOLEAN, digits : Nat] :
          Report(w, prev) = [up |-> up, ssid |-> ssid, freq |-> freq, state |-> state,
                             note |-> note, wired |-> wired, pkts |-> pkts, rate |-> rate]
  BY <1>2, <1>3, <1>4, <1>5 DEF Report
<1>. QED BY <1>6 DEF Reports

\* One line of it.
LEMMA OneLine ==
    ASSUME NEW len \in Nat, NEW colour \in Colours
    PROVE  /\ <<[len |-> len, colour |-> colour]>> \in Seq(TextLines)
           /\ Len(<<[len |-> len, colour |-> colour]>>) = 1
BY DEF TextLines

\* At least so many lines and at most so many.
LinesIn(lines, lo, hi) == lines \in Seq(TextLines) /\ Len(lines) \in lo .. hi

LEMMA OneMore ==
    \A a, b : LinesIn(b, 0, 1) =>
        /\ LinesIn(a, 1, 1) => LinesIn(a \o b, 1, 2)
        /\ LinesIn(a, 1, 2) => LinesIn(a \o b, 1, 3)
        /\ LinesIn(a, 1, 3) => LinesIn(a \o b, 1, 4)
        /\ LinesIn(a, 1, 4) => LinesIn(a \o b, 1, 5)
        /\ LinesIn(a, 1, 5) => LinesIn(a \o b, 1, 6)
        /\ LinesIn(a, 1, 6) => LinesIn(a \o b, 1, 7)
        /\ LinesIn(a, 1, 7) => LinesIn(a \o b, 1, 8)
        /\ LinesIn(a, 1, 8) => LinesIn(a \o b, 1, 9)
        /\ LinesIn(a, 1, 9) => LinesIn(a \o b, 1, 10)
<1>. SUFFICES ASSUME NEW a, NEW b, LinesIn(b, 0, 1), NEW n \in 1 .. 9, LinesIn(a, 1, n)
              PROVE  LinesIn(a \o b, 1, n + 1)
  BY DEF LinesIn
<1>1. a \o b \in Seq(TextLines) /\ Len(a \o b) = Len(a) + Len(b)
  BY DEF LinesIn
<1>2. Len(a) \in 1 .. n /\ Len(b) \in 0 .. 1
  BY DEF LinesIn
<1>3. Len(a) + Len(b) \in 1 .. n + 1
  <2>1. \A k \in 1 .. n, l \in 0 .. 1 : k + l \in 1 .. n + 1
    OBVIOUS
  <2>. QED BY <1>2, <2>1
<1>. QED BY <1>1, <1>3 DEF LinesIn

LEMMA LinesOfReport ==
    ASSUME NEW s \in Reports
    PROVE  LinesIn(StatsLines(s), 1, 10)
<1> DEFINE Line(len, colour) == <<[len |-> len, colour |-> colour]>>
           Rate == IF s.rate.some THEN Cyan ELSE Red
<1>1. {White, Green, Amber, Red, Cyan} \subseteq Colours
  BY Palette
<1>2. s.ssid \in Nat /\ s.state \in Nat /\ s.note \in Nat /\ s.rate.digits \in Nat
  BY DEF Reports
<1>3. ASSUME NEW len \in Nat, NEW colour \in Colours
      PROVE  LinesIn(Line(len, colour), 0, 1) /\ LinesIn(Line(len, colour), 1, 1)
  BY OneLine DEF LinesIn
<1>4. LinesIn(<<>>, 0, 1)
  BY DEF LinesIn
<1> HIDE DEF Line
<1>5. PICK a1 : a1 = Line(22, Green) /\ LinesIn(a1, 1, 1)
  BY <1>1, <1>3
<1>6. PICK a2 : a2 = Line(13, IF s.up THEN Green ELSE Amber) /\ LinesIn(a2, 0, 1)
  BY <1>1, <1>3
<1>7. PICK a3 : /\ a3 = Line(IF s.ssid > 0 THEN s.ssid + 12 ELSE 15, IF s.freq THEN White ELSE Red)
                /\ LinesIn(a3, 0, 1)
  <2>1. (IF s.ssid > 0 THEN s.ssid + 12 ELSE 15) \in Nat
    BY <1>2
  <2>2. (IF s.freq THEN White ELSE Red) \in Colours
    BY <1>1
  <2>. QED BY <1>3, <2>1, <2>2
<1>8. PICK a4 : /\ a4 = IF s.state > 0
                        THEN Line(s.state + 12, IF s.state = 9 THEN Green ELSE Amber) ELSE <<>>
                /\ LinesIn(a4, 0, 1)
  <2>1. s.state + 12 \in Nat /\ (IF s.state = 9 THEN Green ELSE Amber) \in Colours
    BY <1>1, <1>2
  <2>. QED BY <1>3, <1>4, <2>1
<1>9. PICK a5 : /\ a5 = IF s.note > 0 THEN Line(s.note, Amber) ELSE <<>>
                /\ LinesIn(a5, 0, 1)
  BY <1>1, <1>2, <1>3, <1>4
<1>10. PICK a6 : a6 = Line(16, IF s.wired THEN Green ELSE Red) /\ LinesIn(a6, 0, 1)
  BY <1>1, <1>3
<1>11. PICK a7, a8 : /\ a7 = Line(20, White) /\ LinesIn(a7, 0, 1)
                     /\ a8 = Line(12, White) /\ LinesIn(a8, 0, 1)
  BY <1>1, <1>3
<1>12. PICK a9, a10 : /\ a9 = Line(s.rate.digits + 9, Rate) /\ LinesIn(a9, 0, 1)
                      /\ a10 = Line(s.rate.digits + 5, Rate) /\ LinesIn(a10, 0, 1)
  <2>1. s.rate.digits + 9 \in Nat /\ s.rate.digits + 5 \in Nat /\ Rate \in Colours
    BY <1>1, <1>2
  <2>. QED BY <1>3, <2>1
<1>13. StatsLines(s) = a1 \o a2 \o a3 \o a4 \o a5 \o a6 \o a7 \o a8 \o a9 \o a10
  BY <1>5, <1>6, <1>7, <1>8, <1>9, <1>10, <1>11, <1>12 DEF StatsLines, Line
<1>14. PICK b2 : b2 = a1 \o a2 /\ LinesIn(b2, 1, 2)
  <2>1. LinesIn(a1 \o a2, 1, 2)
    BY <1>5, <1>6, OneMore
  <2>. QED BY <2>1
<1>15. PICK b3 : b3 = b2 \o a3 /\ LinesIn(b3, 1, 3)
  <2>1. LinesIn(b2 \o a3, 1, 3)
    BY <1>14, <1>7, OneMore
  <2>. QED BY <2>1
<1>16. PICK b4 : b4 = b3 \o a4 /\ LinesIn(b4, 1, 4)
  <2>1. LinesIn(b3 \o a4, 1, 4)
    BY <1>15, <1>8, OneMore
  <2>. QED BY <2>1
<1>17. PICK b5 : b5 = b4 \o a5 /\ LinesIn(b5, 1, 5)
  <2>1. LinesIn(b4 \o a5, 1, 5)
    BY <1>16, <1>9, OneMore
  <2>. QED BY <2>1
<1>18. PICK b6 : b6 = b5 \o a6 /\ LinesIn(b6, 1, 6)
  <2>1. LinesIn(b5 \o a6, 1, 6)
    BY <1>17, <1>10, OneMore
  <2>. QED BY <2>1
<1>19. PICK b7 : b7 = b6 \o a7 /\ LinesIn(b7, 1, 7)
  <2>1. LinesIn(b6 \o a7, 1, 7)
    BY <1>18, <1>11, OneMore
  <2>. QED BY <2>1
<1>20. PICK b8 : b8 = b7 \o a8 /\ LinesIn(b8, 1, 8)
  <2>1. LinesIn(b7 \o a8, 1, 8)
    BY <1>19, <1>11, OneMore
  <2>. QED BY <2>1
<1>21. PICK b9 : b9 = b8 \o a9 /\ LinesIn(b9, 1, 9)
  <2>1. LinesIn(b8 \o a9, 1, 9)
    BY <1>20, <1>12, OneMore
  <2>. QED BY <2>1
<1>22. PICK b10 : b10 = b9 \o a10 /\ LinesIn(b10, 1, 10)
  <2>1. LinesIn(b9 \o a10, 1, 10)
    BY <1>21, <1>12, OneMore
  <2>. QED BY <2>1
<1>. QED BY <1>13, <1>14, <1>15, <1>16, <1>17, <1>18, <1>19, <1>20, <1>21, <1>22

LEMMA StatsClears ==
    ASSUME vinfo \in Formats, NEW scr, NEW by
    PROVE  /\ Shown(scr, Block, by) => \A u : Shown(StatsCleared(scr), Block, u)
           /\ AllPacked(scr) => AllPacked(StatsCleared(scr))
<1>1. PICK px : px = pack(Panel, <<>>)
  OBVIOUS
<1>2. \A p \in Samples : StatsCleared(scr)[p] = IF p \in Block THEN px ELSE scr[p]
  BY <1>1, Fill DEF StatsCleared, Block, Rect
<1>3. Packed(px) /\ px.by = <<>>
  BY <1>1, PanelPixel
<1>. QED BY <1>2, <1>3 DEF Shown, AllPacked

LEMMA StatsLineOver ==
    ASSUME vinfo \in Formats, GlyphsAreNibbles, NEW scr, NEW s \in Reports,
           NEW k, k \in 1 .. Len(StatsLines(s))
    PROVE  Over(scr, StatsLine(scr, s, k), Block, <<s>>)
<1>1. LinesIn(StatsLines(s), 1, 10)
  BY LinesOfReport
<1>2. k \in 1 .. 10 /\ StatsLines(s)[k] \in TextLines
  BY <1>1 DEF LinesIn
<1>3. PICK len \in Nat, fg \in Colours : StatsLines(s)[k].len = len /\ StatsLines(s)[k].colour = fg
  BY <1>2 DEF TextLines
<1>4. PICK y \in Int : y = stats_y + (IF k = 1 THEN 0 ELSE 2) + (k - 1) * line_h /\ y \in 30 .. 356
  BY <1>2 DEF stats_y, line_h, FONT_H
<1>5. PICK x \in Int : x = 30
  OBVIOUS
<1>6. Panel \in Colours
  BY Palette
<1>7. PICK by : by = <<s>>
  OBVIOUS
<1>8. StatsLine(scr, s, k) = draw_text(scr, x, y, by, len, fg, Panel)
  BY <1>3, <1>4, <1>5, <1>7 DEF StatsLine
<1>9. Over(scr, draw_text(scr, x, y, by, len, fg, Panel), Rect(x, y, len * FONT_W, FONT_H), by)
  BY <1>6, TextOver
<1>10. Rect(x, y, len * FONT_W, FONT_H) \subseteq Block
  <2>1. ASSUME NEW p \in Rect(x, y, len * FONT_W, FONT_H) PROVE p \in Block
    <3>1. p \in Samples /\ p[2] \in y .. y + 32 - 1
      BY <2>1 DEF Rect, In, FONT_H
    <3>2. p[1] \in 0 .. vinfo.xres - 1 /\ p[2] \in 0 .. vinfo.yres - 1 /\ vinfo.xres \in Nat
      BY <3>1, OnThePanel, Format
    <3>3. p[1] \in 0 .. 0 + vinfo.xres - 1
      BY <3>2
    <3>4. p[2] \in 0 .. 0 + (30 + 36 * 13) - 1
      <4>1. y \in 30 .. 356
        BY <1>4
      <4>. QED BY ONLY <3>1, <4>1
    <3>5. stats_y + line_h * 13 = 30 + 36 * 13
      BY DEF stats_y, line_h, FONT_H
    <3>6. In(p, 0, 0, vinfo.xres, stats_y + line_h * 13)
      BY <3>3, <3>4, <3>5 DEF In
    <3>. QED BY <3>1, <3>6 DEF Block, Rect
  <2>. QED BY <2>1
<1>11. Over(scr, draw_text(scr, x, y, by, len, fg, Panel), Block, by)
  BY <1>9, <1>10, OverMore
<1>. QED BY <1>7, <1>8, <1>11

----------------------------------------------------------------------------
(* What is on the screen, by what the first painter is doing *)

\* The shape of what a painter of each mode holds, step by step.
Holding(m) ==
    /\ m.mode \in {"none", "splash", "wfb", "timer", "stats"}
    /\ m.mode = "wfb" =>
        /\ m.step \in 0 .. 3
        /\ m.step \in 2 .. 3 => m.got = <<m.got[1]>> /\ m.got[1] \in Readings
    /\ m.mode = "timer" =>
        \/ m.got = <<>>
        \/ m.got = <<m.got[1]>> /\ m.got[1] \in Times /\ m.step # 0
    /\ m.mode = "stats" =>
        \/ m.got = <<>> /\ m.step \in 0 .. 1
        \/ /\ m.got = <<m.got[1]>> /\ m.got[1] \in Reports
           /\ m.step \in 1 .. Len(StatsLines(m.got[1])) + 1

NoSpecks == soft_alpha \/ (\A t \in Times : buf(t) <= 20)

\* The reading on the screen and where it may be: the strip's while its two
\* lines are drawn is the one the painter holds.
Reading(m, scr) ==
    /\ m.mode \in {"none", "splash"} => Shown(scr, {}, <<>>)
    /\ m.mode = "wfb" =>
        IF m.step \in 2 .. 3 THEN Shown(scr, Strip, m.got)
        ELSE \E by \in {<<>>} \cup {<<s>> : s \in Readings} : Shown(scr, Strip, by)
    /\ m.mode = "timer" =>
        IF m.got = <<>> THEN Shown(scr, {}, <<>>)
        ELSE NoSpecks => Shown(scr, TimerBox(m.got[1]), <<[t |-> m.got[1]]>>)
    /\ m.mode = "stats" =>
        IF m.got = <<>> THEN Shown(scr, {}, <<>>) ELSE Shown(scr, Block, m.got)

\* Who paints over a picture, and where.
Picture(ps, scr, sh) ==
    /\ sh \in {"none", "live", "replay"}
    /\ sh = "live" =>
        /\ ps[2].mode = "none" /\ ps[1].mode \in {"none", "wfb"}
        /\ Uncovered(scr, IF ps[1].mode = "wfb" THEN Strip ELSE {})
    /\ sh = "replay" =>
        /\ ps[2].mode = "none" /\ ps[1].mode = "timer" /\ Uncovered(scr, Corner)

Good(ps, scr, sh) ==
    /\ ps \in [Slots -> {ps[i] : i \in Slots}]
    /\ Holding(ps[1]) /\ ps[2].mode \in {"none", "splash"}
    /\ Reading(ps[1], scr) /\ AllPacked(scr)
    /\ Picture(ps, scr, sh)

ScreenInv == vinfo \in Formats /\ label \in Labels /\ Good(painters, screen, show)

\* While the board starts there is nothing on the screen and nobody paints.
BootInv ==
    /\ init # "done" => show = "none"
    /\ init \in {"none", "S65display", "poll"} => painters = NoPainters /\ screen = Blank
    /\ stage # "up" => init = "none"

\* Where no pixel is of a reading, that is so for every painter.
LEMMA CleanReads ==
    ASSUME NEW m, NEW scr, Shown(scr, {}, <<>>) PROVE Reading(m, scr)
<1>1. \A R, by : Shown(scr, R, by)
  BY DEF Shown
<1>. QED BY <1>1 DEF Reading

LEMMA BlankShows ==
    ASSUME vinfo \in Formats
    PROVE  Shown(Blank, {}, <<>>) /\ AllPacked(Blank) /\ \A R : Uncovered(Blank, R)
BY NothingPixel DEF Shown, AllPacked, Uncovered, Blank

\* One process replaced by another.
LEMMA OneReplaced ==
    ASSUME NEW ps, ps \in [Slots -> {ps[i] : i \in Slots}], NEW k, k \in Slots, NEW m,
           NEW qs, qs = [ps EXCEPT ![k] = m]
    PROVE  /\ qs \in [Slots -> {qs[i] : i \in Slots}]
           /\ qs[k] = m /\ \A j \in Slots \ {k} : qs[j] = ps[j]
<1>1. DOMAIN qs = Slots /\ qs[k] = m /\ \A j \in Slots \ {k} : qs[j] = ps[j]
  OBVIOUS
<1>2. PICK S : S = {ps[i] : i \in Slots} \cup {m}
  OBVIOUS
<1>3. qs \in [Slots -> S]
  BY <1>2
<1>. QED BY <1>1, <1>3

\* A step of the first painter.
LEMMA Repainted ==
    ASSUME NEW ps, NEW scr, NEW sh, Good(ps, scr, sh), NEW m, NEW res, m.mode = ps[1].mode,
           m.mode # "none", Holding(m), Reading(m, res), AllPacked(res),
           m.mode = "wfb" /\ Uncovered(scr, Strip) => Uncovered(res, Strip),
           m.mode = "timer" /\ Uncovered(scr, Corner) => Uncovered(res, Corner)
    PROVE  Good([ps EXCEPT ![1] = m], res, sh)
<1>1. PICK qs : qs = [ps EXCEPT ![1] = m]
  OBVIOUS
<1>2. ps \in [Slots -> {ps[i] : i \in Slots}] /\ 1 \in Slots /\ 2 \in Slots \ {1}
  BY DEF Good, Slots
<1>3. qs \in [Slots -> {qs[i] : i \in Slots}] /\ qs[1] = m /\ qs[2] = ps[2]
  BY <1>1, <1>2, OneReplaced
<1>4. Picture(qs, res, sh)
  BY <1>3 DEF Good, Picture
<1>. QED BY <1>1, <1>3, <1>4 DEF Good

\* What a process is when it has taken its step.
LEMMA Advanced ==
    ASSUME Good(painters, screen, show), NEW i, i \in Slots, NEW step, NEW held, Advance(i, step, held)
    PROVE  painters' = [painters EXCEPT
                           ![i] = [mode |-> painters[i].mode, step |-> step, got |-> held]]
<1>1. painters \in [Slots -> {painters[j] : j \in Slots}]
  BY DEF Good
<1>. QED BY <1>1 DEF Advance

\* The good states, with the panel and the name of this one.
GoodNext == Good(painters', screen', show')

LEMMA OpensKeeps ==
    ASSUME vinfo \in Formats, GlyphsAreNibbles, Good(painters, screen, show), NEW i, i \in Slots,
           Opens(i)
    PROVE  GoodNext
<1>1. PICK m : m = [mode |-> painters[i].mode, step |-> 1, got |-> <<>>]
  OBVIOUS
<1>2. painters' = [painters EXCEPT ![i] = m] /\ show' = show
  BY <1>1, Advanced DEF Opens
<1>3. PICK res : res = screen'
  OBVIOUS
<1>4. painters[1].mode \in {"none", "splash", "wfb", "timer", "stats"}
      /\ painters[2].mode \in {"none", "splash"}
      /\ painters \in [Slots -> {painters[j] : j \in Slots}]
  BY DEF Good, Holding
<1>5. painters[i].mode \in {"splash", "wfb", "timer", "stats"} /\ painters[i].step = 0
  BY <1>4 DEF Opens, Slots
<1>6. CASE painters[i].mode \in {"splash", "stats"}
  <2>1. /\ painters[i].mode = "splash" => res = Splash(screen)
        /\ painters[i].mode = "stats" => res = Filled(screen)
    BY <1>3 DEF Opens
  <2>2. \A p \in Samples : res[p].by = <<>> /\ Packed(res[p])
    BY <1>6, <2>1, SplashShows, FilledShows
  <2>3. Shown(res, {}, <<>>) /\ AllPacked(res)
    BY <2>2 DEF Shown, AllPacked
  <2>4. CASE i = 1
    <3>1. Holding(m)
      BY <1>1, <1>6 DEF Holding
    <3>2. Good([painters EXCEPT ![1] = m], res, show)
      BY <1>1, <1>6, <2>3, <2>4, <3>1, CleanReads, Repainted
    <3>. QED BY <1>2, <1>3, <2>4, <3>2 DEF GoodNext
  <2>5. CASE i = 2
    <3>1. PICK qs : qs = [painters EXCEPT ![2] = m]
      OBVIOUS
    <3>2. qs \in [Slots -> {qs[j] : j \in Slots}] /\ qs[1] = painters[1] /\ qs[2] = m
      <4>1. 1 \in Slots \ {2} /\ 2 \in Slots
        BY DEF Slots
      <4>. QED BY <1>4, <3>1, <4>1, OneReplaced
    <3>3. show = "none"
      BY <1>5, <2>5 DEF Good, Picture
    <3>4. Picture(qs, res, show)
      BY <3>3 DEF Picture
    <3>5. Holding(qs[1]) /\ qs[2].mode \in {"none", "splash"}
      BY <1>1, <1>4, <2>5, <3>2 DEF Good
    <3>6. Good(qs, res, show)
      BY <2>3, <3>2, <3>4, <3>5, CleanReads DEF Good
    <3>. QED BY <1>2, <1>3, <2>5, <3>1, <3>6 DEF GoodNext
  <2>. QED BY <2>4, <2>5 DEF Slots
<1>7. CASE painters[i].mode \in {"wfb", "timer"}
  <2>1. i = 1
    BY <1>4, <1>7 DEF Slots
  <2>2. res = screen
    BY <1>3, <1>7 DEF Opens
  <2>3. Holding(m)
    BY <1>1, <1>7 DEF Holding
  <2>4. Holding(painters[1]) /\ Reading(painters[1], screen) /\ AllPacked(screen)
    BY DEF Good
  <2>5. Reading(m, screen)
    <3>1. CASE painters[1].mode = "wfb"
      BY <1>1, <1>5, <2>1, <2>4, <3>1 DEF Reading
    <3>2. CASE painters[1].mode = "timer"
      <4>1. painters[1].got = <<>>
        BY <1>5, <2>1, <2>4, <3>2 DEF Holding
      <4>. QED BY <1>1, <2>1, <2>4, <3>2, <4>1 DEF Reading
    <3>. QED BY <1>7, <2>1, <3>1, <3>2
  <2>6. m.mode = painters[1].mode /\ m.mode # "none"
    BY <1>1, <1>7, <2>1
  <2>7. Good([painters EXCEPT ![1] = m], screen, show)
    BY <2>3, <2>4, <2>5, <2>6, Repainted
  <2>. QED BY <1>2, <1>3, <2>1, <2>2, <2>7 DEF GoodNext
<1>. QED BY <1>5, <1>6, <1>7

\* The other steps are those of the first process, since the second is a splash.
LEMMA FirstPaints ==
    ASSUME Good(painters, screen, show), NEW i, i \in Slots, NEW step, NEW held,
           painters[i].mode \in {"wfb", "timer", "stats"}, Advance(i, step, held),
           show' = show, NEW m, m = [mode |-> painters[i].mode, step |-> step, got |-> held],
           Holding(m), Reading(m, screen'), AllPacked(screen'),
           m.mode = "wfb" /\ Uncovered(screen, Strip) => Uncovered(screen', Strip),
           m.mode = "timer" /\ Uncovered(screen, Corner) => Uncovered(screen', Corner)
    PROVE  GoodNext
<1>1. painters[2].mode \in {"none", "splash"}
  BY DEF Good
<1>2. i = 1
  BY <1>1 DEF Slots
<1>3. painters' = [painters EXCEPT ![1] = m]
  BY <1>2, Advanced
<1>4. m.mode = painters[1].mode /\ m.mode # "none"
  BY <1>2
<1>5. PICK res : res = screen'
  OBVIOUS
<1>6. Good([painters EXCEPT ![1] = m], res, show)
  BY <1>4, <1>5, Repainted
<1>. QED BY <1>3, <1>5, <1>6 DEF GoodNext

LEMMA FirstIs ==
    ASSUME Good(painters, screen, show), NEW i, i \in Slots,
           painters[i].mode \in {"wfb", "timer", "stats"}
    PROVE  /\ Holding(painters[i]) /\ Reading(painters[i], screen) /\ AllPacked(screen)
           /\ i = 1
<1>1. painters[2].mode \in {"none", "splash"}
  BY DEF Good
<1>2. i = 1
  BY <1>1 DEF Slots
<1>. QED BY <1>2 DEF Good

LEMMA StripCuts ==
    ASSUME vinfo \in Formats, NEW scr, AllPacked(scr), NEW by, Shown(scr, Strip, by)
    PROVE  /\ AllPacked(StripCleared(scr))
           /\ \A u : Shown(StripCleared(scr), Strip, u)
           /\ Uncovered(scr, Strip) => Uncovered(StripCleared(scr), Strip)
<1>1. PICK res : res = StripCleared(scr)
  OBVIOUS
<1>2. \A p \in Samples : res[p] = IF p \in Strip THEN Nothing ELSE scr[p]
  BY <1>1, StripClears
<1>3. Packed(Nothing) /\ Nothing.by = <<>>
  BY NothingPixel
<1>. QED BY <1>1, <1>2, <1>3 DEF AllPacked, Shown, Uncovered

LEMMA ReadsStatusKeeps ==
    ASSUME vinfo \in Formats, Good(painters, screen, show), NEW i, i \in Slots, ReadsStatus(i)
    PROVE  GoodNext
<1>1. painters[i].mode = "wfb" /\ painters[i].step = 1 /\ show' = show
      /\ screen' = StripCleared(screen)
  BY DEF ReadsStatus
<1>2. PICK s \in Readings : Advance(i, 2, <<s>>)
  BY DEF ReadsStatus
<1>3. PICK m : m = [mode |-> painters[i].mode, step |-> 2, got |-> <<s>>]
  OBVIOUS
<1>4. Reading(painters[i], screen) /\ AllPacked(screen)
  BY <1>1, FirstIs
<1>5. PICK by : Shown(screen, Strip, by)
  BY <1>1, <1>4 DEF Reading
<1>6. /\ AllPacked(screen') /\ \A u : Shown(screen', Strip, u)
      /\ Uncovered(screen, Strip) => Uncovered(screen', Strip)
  BY <1>1, <1>4, <1>5, StripCuts
<1>7. m.mode = "wfb" /\ m.step = 2 /\ m.got = <<s>>
  BY <1>1, <1>3
<1>8. Holding(m)
  BY <1>7 DEF Holding
<1>9. Reading(m, screen')
  BY <1>6, <1>7 DEF Reading
<1>10. painters[i].mode \in {"wfb", "timer", "stats"}
  BY <1>1
<1>. QED BY <1>1, <1>2, <1>3, <1>6, <1>7, <1>8, <1>9, <1>10, FirstPaints

LEMMA DrawsFirstKeeps ==
    ASSUME vinfo \in Formats, GlyphsAreNibbles, Good(painters, screen, show), NEW i, i \in Slots,
           DrawsFirst(i)
    PROVE  GoodNext
<1>1. /\ painters[i].mode = "wfb" /\ painters[i].step = 2 /\ show' = show
      /\ screen' = FirstLine(screen, painters[i].got[1])
      /\ Advance(i, 3, painters[i].got)
  BY DEF DrawsFirst
<1>2. Holding(painters[i]) /\ Reading(painters[i], screen) /\ AllPacked(screen)
  BY <1>1, FirstIs
<1>3. PICK s \in Readings : painters[i].got = <<s>> /\ painters[i].got[1] = s
  BY <1>1, <1>2 DEF Holding
<1>4. Shown(screen, Strip, <<s>>)
  BY <1>1, <1>2, <1>3 DEF Reading
<1>5. Over(screen, screen', Strip, <<s>>)
  BY <1>1, <1>3, LinesOver
<1>6. /\ AllPacked(screen') /\ Shown(screen', Strip, <<s>>)
      /\ Uncovered(screen, Strip) => Uncovered(screen', Strip)
  BY <1>2, <1>4, <1>5, OverKeeps
<1>7. PICK m : m = [mode |-> painters[i].mode, step |-> 3, got |-> <<s>>]
  OBVIOUS
<1>8. m.mode = "wfb" /\ m.step = 3 /\ m.got = <<s>>
  BY <1>1, <1>7
<1>9. Holding(m)
  BY <1>8 DEF Holding
<1>10. Reading(m, screen')
  BY <1>6, <1>8 DEF Reading
<1>11. painters[i].mode \in {"wfb", "timer", "stats"} /\ Advance(i, 3, <<s>>)
  BY <1>1, <1>3
<1>. QED BY <1>1, <1>6, <1>7, <1>8, <1>9, <1>10, <1>11, FirstPaints

LEMMA DrawsSecondKeeps ==
    ASSUME vinfo \in Formats, GlyphsAreNibbles, Good(painters, screen, show), NEW i, i \in Slots,
           DrawsSecond(i)
    PROVE  GoodNext
<1>1. /\ painters[i].mode = "wfb" /\ painters[i].step = 3 /\ show' = show
      /\ screen' = SecondLine(screen, painters[i].got[1])
      /\ Advance(i, 1, <<>>)
  BY DEF DrawsSecond
<1>2. Holding(painters[i]) /\ Reading(painters[i], screen) /\ AllPacked(screen)
  BY <1>1, FirstIs
<1>3. PICK s \in Readings : painters[i].got = <<s>> /\ painters[i].got[1] = s
  BY <1>1, <1>2 DEF Holding
<1>4. Shown(screen, Strip, <<s>>)
  BY <1>1, <1>2, <1>3 DEF Reading
<1>5. Over(screen, screen', Strip, <<s>>)
  BY <1>1, <1>3, LinesOver
<1>6. /\ AllPacked(screen') /\ Shown(screen', Strip, <<s>>)
      /\ Uncovered(screen, Strip) => Uncovered(screen', Strip)
  BY <1>2, <1>4, <1>5, OverKeeps
<1>7. PICK m : m = [mode |-> painters[i].mode, step |-> 1, got |-> <<>>]
  OBVIOUS
<1>8. m.mode = "wfb" /\ m.step = 1
  BY <1>1, <1>7
<1>9. Holding(m)
  BY <1>8 DEF Holding
<1>10. Reading(m, screen')
  BY <1>6, <1>8 DEF Reading
<1>11. painters[i].mode \in {"wfb", "timer", "stats"}
  BY <1>1
<1>. QED BY <1>1, <1>6, <1>7, <1>8, <1>9, <1>10, <1>11, FirstPaints

LEMMA TicksKeeps ==
    ASSUME vinfo \in Formats, label \in Labels, GlyphsAreNibbles, Good(painters, screen, show),
           NEW i, i \in Slots, Ticks(i)
    PROVE  GoodNext
<1>1. painters[i].mode = "timer" /\ painters[i].step = 1 /\ show' = show
  BY DEF Ticks
<1>2. PICK t \in Times : /\ painters[i].got # <<>> => t >= painters[i].got[1]
                         /\ screen' = Timer(screen, t) /\ Advance(i, 1, <<t>>)
  BY DEF Ticks
<1>3. Holding(painters[i]) /\ Reading(painters[i], screen) /\ AllPacked(screen)
  BY <1>1, FirstIs
<1>4. PICK m : m = [mode |-> painters[i].mode, step |-> 1, got |-> <<t>>]
  OBVIOUS
<1>5. m.mode = "timer" /\ m.step = 1 /\ m.got = <<t>> /\ m.got # <<>> /\ m.got[1] = t
  BY <1>1, <1>4
<1>6. Holding(m)
  BY <1>5 DEF Holding
<1>7. /\ AllPacked(screen')
      /\ Uncovered(screen, Corner) => Uncovered(screen', Corner)
  BY <1>2, <1>3, TimerStays
<1>8. NoSpecks => Shown(screen', TimerBox(t), <<[t |-> t]>>)
  <2>1. SUFFICES ASSUME NoSpecks PROVE Shown(screen', TimerBox(t), <<[t |-> t]>>)
    OBVIOUS
  <2>2. soft_alpha \/ buf(t) <= 20
    BY <2>1 DEF NoSpecks
  <2>3. PICK R, u : R \subseteq TimerBox(t) /\ Shown(screen, R, u)
    <3>1. CASE painters[i].got = <<>>
      BY <1>1, <1>3, <3>1 DEF Reading
    <3>2. CASE painters[i].got # <<>>
      <4>1. PICK v \in Times : v = painters[i].got[1]
        BY <1>1, <1>3, <3>2 DEF Holding
      <4>2. v \in Nat /\ t \in Nat /\ v <= t
        BY <1>2, <3>2, <4>1, WorldAssumption
      <4>3. TimerBox(v) \subseteq TimerBox(t)
        BY <4>2, TimerBoxes
      <4>4. Shown(screen, TimerBox(v), <<[t |-> v]>>)
        BY <1>1, <1>3, <2>1, <3>2, <4>1 DEF Reading
      <4>. QED BY <4>3, <4>4
    <3>. QED BY <3>1, <3>2
  <2>. QED BY <1>2, <2>2, <2>3, TimerShows
<1>9. Reading(m, screen')
  BY <1>5, <1>8 DEF Reading
<1>10. painters[i].mode \in {"wfb", "timer", "stats"}
  BY <1>1
<1>. QED BY <1>1, <1>2, <1>4, <1>5, <1>6, <1>7, <1>9, <1>10, FirstPaints

LEMMA ReadsCountersKeeps ==
    ASSUME vinfo \in Formats, Good(painters, screen, show), NEW i, i \in Slots, ReadsCounters(i)
    PROVE  GoodNext
<1>1. painters[i].mode = "stats" /\ painters[i].step = 1 /\ show' = show
      /\ screen' = StatsCleared(screen)
  BY DEF ReadsCounters
<1>2. PICK w \in Worlds : Advance(i, 2, <<Report(w, painters[i].got)>>)
  BY DEF ReadsCounters
<1>3. Holding(painters[i]) /\ Reading(painters[i], screen) /\ AllPacked(screen)
  BY <1>1, FirstIs
<1>4. painters[i].got = <<>> \/ \E s \in Reports : painters[i].got = <<s>>
  BY <1>1, <1>3 DEF Holding
<1>5. PICK s \in Reports : s = Report(w, painters[i].got)
  BY <1>4, ReportType
<1>6. PICK m : m = [mode |-> painters[i].mode, step |-> 2, got |-> <<s>>]
  OBVIOUS
<1>7. m.mode = "stats" /\ m.step = 2 /\ m.got = <<s>> /\ m.got # <<>> /\ m.got[1] = s
  BY <1>1, <1>6
<1>8. 2 \in 1 .. Len(StatsLines(s)) + 1
  <2>1. Len(StatsLines(s)) \in 1 .. 10
    BY LinesOfReport DEF LinesIn
  <2>2. \A n \in 1 .. 10 : 2 \in 1 .. n + 1
    OBVIOUS
  <2>. QED BY <2>1, <2>2
<1>9. Holding(m)
  BY <1>7, <1>8 DEF Holding
<1>10. PICK by : Shown(screen, Block, by)
  <2>1. Shown(screen, {}, <<>>) => Shown(screen, Block, <<>>)
    BY DEF Shown
  <2>. QED BY <1>1, <1>3, <2>1 DEF Reading
<1>11. AllPacked(screen') /\ Shown(screen', Block, <<s>>)
  BY <1>1, <1>3, <1>10, StatsClears
<1>12. Reading(m, screen')
  BY <1>7, <1>11 DEF Reading
<1>13. painters[i].mode \in {"wfb", "timer", "stats"} /\ Advance(i, 2, <<s>>)
  BY <1>1, <1>2, <1>5
<1>. QED BY <1>1, <1>6, <1>7, <1>9, <1>11, <1>12, <1>13, FirstPaints

LEMMA DrawsStatsKeeps ==
    ASSUME vinfo \in Formats, GlyphsAreNibbles, Good(painters, screen, show), NEW i, i \in Slots,
           DrawsStats(i)
    PROVE  GoodNext
<1>1. painters[i].mode = "stats" /\ painters[i].step > 1 /\ show' = show
  BY DEF DrawsStats
<1>2. Holding(painters[i]) /\ Reading(painters[i], screen) /\ AllPacked(screen)
  BY <1>1, FirstIs
<1>3. PICK s \in Reports : /\ painters[i].got = <<s>> /\ painters[i].got[1] = s
                           /\ painters[i].step \in 1 .. Len(StatsLines(s)) + 1
  <2>1. painters[i].step \notin 0 .. 1
    BY <1>1
  <2>. QED BY <1>1, <1>2, <2>1 DEF Holding
<1>4. PICK k : k = painters[i].step - 1
  OBVIOUS
<1>5. Len(StatsLines(s)) \in 1 .. 10
  BY LinesOfReport DEF LinesIn
<1>6. k \in 1 .. Len(StatsLines(s))
  BY <1>1, <1>3, <1>4, <1>5
<1>7. PICK step : step = IF k < Len(StatsLines(s)) THEN k + 2 ELSE 1
  OBVIOUS
<1>8. step \in 1 .. Len(StatsLines(s)) + 1
  BY <1>5, <1>6, <1>7
<1>9. screen' = StatsLine(screen, s, k) /\ Advance(i, step, <<s>>)
  BY <1>3, <1>4, <1>7 DEF DrawsStats
<1>10. Over(screen, screen', Block, <<s>>)
  BY <1>6, <1>9, StatsLineOver
<1>11. painters[i].got # <<>>
  BY <1>3
<1>12. Shown(screen, Block, <<s>>)
  BY <1>1, <1>2, <1>3, <1>11 DEF Reading
<1>13. AllPacked(screen') /\ Shown(screen', Block, <<s>>)
  BY <1>2, <1>10, <1>12, OverKeeps
<1>14. PICK m : m = [mode |-> painters[i].mode, step |-> step, got |-> <<s>>]
  OBVIOUS
<1>15. m.mode = "stats" /\ m.step = step /\ m.got = <<s>> /\ m.got # <<>> /\ m.got[1] = s
  BY <1>1, <1>14
<1>16. Holding(m)
  BY <1>8, <1>15 DEF Holding
<1>17. Reading(m, screen')
  BY <1>13, <1>15 DEF Reading
<1>18. painters[i].mode \in {"wfb", "timer", "stats"}
  BY <1>1
<1>. QED BY <1>1, <1>9, <1>13, <1>14, <1>15, <1>16, <1>17, <1>18, FirstPaints

\* What the painters do to the screen of a good state makes a good one.
LEMMA PaintersKeep ==
    ASSUME vinfo \in Formats, label \in Labels, GlyphsAreNibbles, Good(painters, screen, show),
           PainterSteps
    PROVE  GoodNext /\ UNCHANGED <<vinfo, label, show>>
<1>1. PICK i \in Slots : Opens(i) \/ ReadsStatus(i) \/ DrawsFirst(i) \/ DrawsSecond(i)
                         \/ Ticks(i) \/ ReadsCounters(i) \/ DrawsStats(i)
  BY DEF PainterSteps
<1>2. GoodNext
  BY <1>1, OpensKeeps, ReadsStatusKeeps, DrawsFirstKeeps, DrawsSecondKeeps, TicksKeeps,
     ReadsCountersKeeps, DrawsStatsKeeps
<1>3. UNCHANGED <<vinfo, label, show>>
  BY <1>1 DEF Opens, ReadsStatus, DrawsFirst, DrawsSecond, Ticks, ReadsCounters, DrawsStats
<1>. QED BY <1>2, <1>3

----------------------------------------------------------------------------
(* The scripts and the board *)

LEMMA NobodyPaints ==
    /\ NoPainters \in [Slots -> {NoPainters[i] : i \in Slots}]
    /\ NoPainters[1] = None /\ NoPainters[2] = None
BY DEF NoPainters, Slots

LEMMA ForkedHolds ==
    /\ Holding(None) /\ None.mode = "none"
    /\ \A mode \in {"splash", "wfb", "timer", "stats"} :
        Holding(Forked(mode)) /\ Forked(mode).mode = mode /\ Forked(mode).step = 0
BY DEF Holding, None, Forked

\* killall fb-splash, and a new one.
LEMMA KilledAll ==
    ASSUME vinfo \in Formats, NEW then, Killall(then), Holding(then),
           show' \in {"none", "live", "replay"}, show' = "live" => then.mode = "none",
           show' = "replay" => then.mode = "timer"
    PROVE  GoodNext
<1>1. PICK qs : qs = painters'
  OBVIOUS
<1>2. PICK scr : scr = screen' /\ scr = Blank
  BY DEF Killall
<1>3. PICK sh : sh = show'
  OBVIOUS
<1>4. 1 \in Slots /\ 2 \in Slots \ {1}
  BY DEF Slots
<1>5. qs \in [Slots -> {qs[i] : i \in Slots}] /\ qs[1] = then /\ qs[2] = None
  BY <1>1, <1>4, NobodyPaints, OneReplaced DEF Killall
<1>6. Shown(scr, {}, <<>>) /\ AllPacked(scr) /\ \A R : Uncovered(scr, R)
  BY <1>2, BlankShows
<1>7. Picture(qs, scr, sh)
  BY <1>3, <1>5, <1>6, ForkedHolds DEF Picture
<1>8. Good(qs, scr, sh)
  BY <1>5, <1>6, <1>7, CleanReads, ForkedHolds DEF Good
<1>. QED BY <1>1, <1>2, <1>3, <1>8 DEF GoodNext

\* A new one where there was none.
LEMMA ForkedFirst ==
    ASSUME vinfo \in Formats, Good(painters, screen, show), painters = NoPainters,
           NEW mode, mode \in {"splash", "wfb"}, mode = "splash" => show = "none",
           painters' = [painters EXCEPT ![1] = Forked(mode)], UNCHANGED <<screen, show>>
    PROVE  GoodNext
<1>1. PICK qs : qs = painters'
  OBVIOUS
<1>2. 1 \in Slots /\ 2 \in Slots \ {1}
  BY DEF Slots
<1>3. qs \in [Slots -> {qs[i] : i \in Slots}] /\ qs[1] = Forked(mode) /\ qs[2] = None
  BY <1>1, <1>2, NobodyPaints, OneReplaced
<1>4. painters[1].mode = "none"
  BY NobodyPaints, ForkedHolds
<1>5. Shown(screen, {}, <<>>) /\ AllPacked(screen)
  BY <1>4 DEF Good, Reading
<1>6. Picture(qs, screen, show)
  <2>1. show \in {"none", "live", "replay"} /\ show # "replay"
    BY <1>4 DEF Good, Picture
  <2>2. show = "live" => Uncovered(screen, Strip)
    BY <1>4 DEF Good, Picture, Uncovered
  <2>. QED BY <1>3, <2>1, <2>2, ForkedHolds DEF Picture
<1>7. Good(qs, screen, show)
  BY <1>3, <1>5, <1>6, CleanReads, ForkedHolds DEF Good
<1>. QED BY <1>1, <1>7 DEF GoodNext

\* The splash of fpv-stop, beside whatever there is.
LEMMA LiveStopsKeeps ==
    ASSUME vinfo \in Formats, Good(painters, screen, show), LiveStops
    PROVE  GoodNext
<1>1. PICK qs : qs = painters' /\ qs = [painters EXCEPT ![2] = Forked("splash")]
  BY DEF LiveStops
<1>2. 2 \in Slots /\ 1 \in Slots \ {2}
  BY DEF Slots
<1>3. painters \in [Slots -> {painters[i] : i \in Slots}]
  BY DEF Good
<1>4. qs \in [Slots -> {qs[i] : i \in Slots}] /\ qs[2] = Forked("splash") /\ qs[1] = painters[1]
  BY <1>1, <1>2, <1>3, OneReplaced
<1>5. show' = "none" /\ screen' = screen
  BY DEF LiveStops
<1>6. PICK sh : sh = show'
  OBVIOUS
<1>7. Picture(qs, screen, sh)
  BY <1>5, <1>6 DEF Picture
<1>8. Good(qs, screen, sh)
  BY <1>4, <1>7, ForkedHolds DEF Good
<1>. QED BY <1>1, <1>5, <1>6, <1>8 DEF GoodNext

LEMMA SceneKeeps ==
    ASSUME vinfo \in Formats, Good(painters, screen, show), SceneSteps
    PROVE  GoodNext /\ UNCHANGED <<vinfo, label>>
<1>1. show \in {"none", "live", "replay"}
  BY DEF Good, Picture
<1>2. CASE WaitingSplash \/ ReplayEnds
  <2>1. Killall(Forked("splash")) /\ show' = "none" /\ UNCHANGED <<vinfo, label>>
    BY <1>2 DEF WaitingSplash, ReplayEnds, SplashReplaces
  <2>. QED BY <2>1, ForkedHolds, KilledAll
<1>3. CASE LiveStarts
  <2>1. Killall(None) /\ show' = "live" /\ UNCHANGED <<vinfo, label>>
    BY <1>3 DEF LiveStarts
  <2>. QED BY <2>1, ForkedHolds, KilledAll
<1>4. CASE OverlayStarts
  <2>1. /\ painters = NoPainters /\ painters' = [painters EXCEPT ![1] = Forked("wfb")]
        /\ UNCHANGED <<screen, show, vinfo, label>>
    BY <1>4 DEF OverlayStarts
  <2>. QED BY <2>1, ForkedFirst
<1>5. CASE LiveStops
  BY <1>5, LiveStopsKeeps DEF LiveStops
<1>6. CASE ReplayStarts
  <2>1. Killall(Forked("timer")) /\ show' = "replay" /\ UNCHANGED <<vinfo, label>>
    BY <1>6 DEF ReplayStarts
  <2>. QED BY <2>1, ForkedHolds, KilledAll
<1>7. CASE StatsStart
  <2>1. Killall(Forked("stats")) /\ show' = "none" /\ UNCHANGED <<vinfo, label>>
    BY <1>7 DEF StatsStart
  <2>. QED BY <2>1, ForkedHolds, KilledAll
<1>. QED BY <1>2, <1>3, <1>4, <1>5, <1>6, <1>7 DEF SceneSteps

\* The panel and the name stay, and with them what every definition says.
LEMMA SamePanel ==
    ASSUME vinfo' = vinfo, label' = label
    PROVE  /\ Strip' = Strip /\ Block' = Block /\ Corner' = Corner
           /\ \A t : TimerBox(t)' = TimerBox(t) /\ buf(t)' = buf(t)
           /\ soft_alpha' = soft_alpha
           /\ \A px : Packed(px)' = Packed(px)
<1>1. strip_y' = strip_y /\ timer_x' = timer_x /\ timer_y' = timer_y
  BY DEF strip_y, timer_x, timer_y
<1>2. \A t : buf(t)' = buf(t)
  BY DEF buf
<1>3. Strip' = Strip /\ Block' = Block /\ Corner' = Corner
  BY <1>1 DEF Strip, Block, Corner, Rect
<1>4. \A t : TimerBox(t)' = TimerBox(t)
  BY <1>1, <1>2 DEF TimerBox, LabelBox, Rect
<1>5. soft_alpha' = soft_alpha
  BY DEF soft_alpha
<1>6. \A px : Packed(px)' = Packed(px)
  BY DEF Packed
<1>. QED BY <1>2, <1>3, <1>4, <1>5, <1>6

LEMMA GoodStays ==
    ASSUME vinfo' = vinfo, label' = label, GoodNext
    PROVE  Good(painters, screen, show)'
<1>1. PICK qs, scr, sh : qs = painters' /\ scr = screen' /\ sh = show'
  OBVIOUS
<1>2. Good(qs, scr, sh)
  BY <1>1 DEF GoodNext
<1>3. AllPacked(screen)'
  BY <1>1, <1>2, SamePanel DEF Good, AllPacked
<1>4. Picture(painters, screen, show)'
  BY <1>1, <1>2, SamePanel DEF Good, Picture, Uncovered
<1>5. NoSpecks' = NoSpecks
  BY SamePanel DEF NoSpecks
<1>6. Reading(painters[1], screen)'
  <2>1. Reading(qs[1], scr)
    BY <1>2 DEF Good
  <2>. QED BY <1>1, <1>5, <2>1, SamePanel DEF Reading, Shown
<1>7. Holding(painters[1])'
  BY <1>1, <1>2 DEF Good, Holding
<1>8. (painters \in [Slots -> {painters[i] : i \in Slots}] /\ painters[2].mode \in {"none", "splash"})'
  BY <1>1, <1>2 DEF Good
<1>. QED BY <1>3, <1>4, <1>6, <1>7, <1>8 DEF Good

\* A step that leaves the screen and its painters alone.
LEMMA ScreenStays ==
    ASSUME ScreenInv, UNCHANGED ovars PROVE ScreenInv'
<1>1. vinfo' = vinfo /\ label' = label /\ painters' = painters /\ screen' = screen /\ show' = show
  BY DEF ovars
<1>2. GoodNext
  BY <1>1 DEF ScreenInv, GoodNext
<1>. QED BY <1>1, <1>2, GoodStays DEF ScreenInv

LEMMA ScreenStep ==
    ASSUME GlyphsAreNibbles, ScreenInv, BootInv, [Next]_vars PROVE ScreenInv'
<1>0. vinfo \in Formats /\ label \in Labels /\ Good(painters, screen, show)
  BY DEF ScreenInv
<1>1. CASE MemoryLost
  <2>1. /\ painters' = NoPainters /\ screen' = Blank /\ show' = "none"
        /\ vinfo' = vinfo /\ label' = label
    BY <1>1 DEF MemoryLost
  <2>2. PICK none : none = None /\ painters' = [NoPainters EXCEPT ![1] = none]
    BY <2>1, NobodyPaints
  <2>3. Killall(none)
    BY <2>1, <2>2 DEF Killall
  <2>4. GoodNext
    BY <1>0, <2>1, <2>2, <2>3, ForkedHolds, KilledAll
  <2>. QED BY <1>0, <2>1, <2>4, GoodStays DEF ScreenInv
<1>2. CASE S65splash
  <2>1. /\ painters = NoPainters /\ show = "none"
        /\ painters' = [painters EXCEPT ![1] = Forked("splash")]
        /\ UNCHANGED <<screen, show, vinfo, label>>
    BY <1>2 DEF S65splash, BootInv
  <2>2. GoodNext
    BY <1>0, <2>1, ForkedFirst
  <2>. QED BY <1>0, <2>1, <2>2, GoodStays DEF ScreenInv
<1>3. CASE Painting
  <2>1. PainterSteps
    BY <1>3 DEF Painting
  <2>2. GoodNext /\ UNCHANGED <<vinfo, label>>
    BY <1>0, <2>1, PaintersKeep
  <2>. QED BY <1>0, <2>2, GoodStays DEF ScreenInv
<1>4. CASE Scene
  <2>1. SceneSteps
    BY <1>4 DEF Scene, SceneSteps
  <2>2. GoodNext /\ UNCHANGED <<vinfo, label>>
    BY <1>0, <2>1, SceneKeeps
  <2>. QED BY <1>0, <2>2, GoodStays DEF ScreenInv
<1>5. CASE UNCHANGED ovars
  BY <1>5, ScreenStays
<1>. QED
  BY <1>1, <1>2, <1>3, <1>4, <1>5 DEF Next, BoardPowerOn, BoardRecover, BoardCut, BoardReboot,
     InitScripts, S05cfg, S65display, S65polls, S70link, S70restart, UserEdits, KernelWrites,
     Upgrade, Adapter, DisplayInit, vars

LEMMA BootStep ==
    ASSUME Where, ScreenInv, BootInv, [Next]_vars PROVE BootInv'
<1>1. CASE BoardPowerOn
  BY <1>1 DEF BoardPowerOn, PowerOn, BootInv, bootVars, ovars
<1>2. CASE BoardRecover
  BY <1>2 DEF BoardRecover, Recover, BootInv, bootVars, ovars
<1>3. CASE BoardCut \/ BoardReboot
  <2>1. MemoryLost
    BY <1>3 DEF BoardCut, BoardReboot
  <2>. QED BY <2>1 DEF MemoryLost, BootInv
<1>4. CASE S05cfg
  <2>1. stage = "cfg"
    BY <1>4 DEF S05cfg, BootSteps, Mount, StartFormat, Formatted, Fallback, CopyDefault,
       DefaultCopied, KeepSettings, Where
  <2>2. init = "none" /\ painters = NoPainters /\ screen = Blank /\ show = "none"
    BY <2>1 DEF BootInv
  <2>3. init' = (IF stage' = "up" THEN "S65display" ELSE init) /\ UNCHANGED ovars
    BY <1>4 DEF S05cfg
  <2>. QED BY <2>2, <2>3 DEF BootInv, ovars
<1>5. CASE S65display \/ S65polls \/ S65splash \/ S70link
  BY <1>5 DEF S65display, S65polls, S65splash, S70link, BootInv, fvars, ovars
<1>6. CASE S70restart \/ Adapter \/ DisplayInit
  BY <1>6 DEF S70restart, Adapter, DisplayInit, BootInv, fvars, ovars, bootVars
<1>7. CASE UserEdits \/ KernelWrites \/ Upgrade
  <2>1. UNCHANGED <<stage, init, painters, screen, show>>
    BY <1>7 DEF UserEdits, KernelWrites, Upgrade, Edit, WriteBack, Start, UpgradeSteps, GiveUp,
       Extract, Refuse, Erase, Written, WriteFails, Wipe, Finish, ovars, bootVars
  <2>. QED BY <2>1 DEF BootInv
<1>8. CASE Painting
  <2>1. painters # NoPainters
    <3>1. PICK i \in Slots : painters[i].mode # "none"
      BY <1>8 DEF Painting, PainterSteps, Opens, ReadsStatus, DrawsFirst, DrawsSecond, Ticks,
         ReadsCounters, DrawsStats
    <3>. QED BY <3>1 DEF NoPainters, None
  <2>2. UNCHANGED <<stage, init, show>>
    BY <1>8 DEF Painting, PainterSteps, Opens, ReadsStatus, DrawsFirst, DrawsSecond, Ticks,
       ReadsCounters, DrawsStats, fvars, bootVars
  <2>. QED BY <2>1, <2>2 DEF BootInv
<1>9. CASE Scene
  <2>1. init = "done" /\ UNCHANGED <<stage, init>>
    BY <1>9 DEF Scene, fvars, bootVars
  <2>. QED BY <2>1 DEF BootInv
<1>10. CASE UNCHANGED vars
  BY <1>10 DEF vars, fvars, ovars, bootVars, BootInv
<1>. QED
  BY <1>1, <1>2, <1>3, <1>4, <1>5, <1>6, <1>7, <1>8, <1>9, <1>10 DEF Next, InitScripts

LEMMA ScreenInit == Init => ScreenInv /\ BootInv
<1>. SUFFICES ASSUME Init PROVE ScreenInv /\ BootInv
  OBVIOUS
<1>1. /\ vinfo \in Formats /\ label \in Labels /\ screen = Blank /\ painters = NoPainters
      /\ show = "none" /\ init = "none"
  BY DEF Init, OInit
<1>2. Shown(screen, {}, <<>>) /\ AllPacked(screen)
  BY <1>1, BlankShows
<1>3. Picture(painters, screen, show)
  BY <1>1 DEF Picture
<1>4. Good(painters, screen, show)
  BY <1>1, <1>2, <1>3, CleanReads, NobodyPaints, ForkedHolds DEF Good
<1>. QED BY <1>1, <1>4 DEF ScreenInv, BootInv

\* What is on the screen follows from who paints and what it holds.
LEMMA ScreenShows == ScreenInv => ShowsOneReading /\ PictureUncovered
<1>. SUFFICES ASSUME ScreenInv PROVE ShowsOneReading /\ PictureUncovered
  OBVIOUS
<1>1. /\ Holding(painters[1]) /\ Reading(painters[1], screen)
      /\ Picture(painters, screen, show)
  BY DEF ScreenInv, Good
<1>2. ShowsOneReading
  <2>1. SUFFICES ASSUME NoSpecks
                 PROVE  \A p, q \in Samples : screen[p].by # <<>> /\ screen[q].by # <<>>
                                              => screen[p].by = screen[q].by
    BY DEF ShowsOneReading, NoSpecks
  <2>2. PICK R, by : Shown(screen, R, by)
    BY <1>1, <2>1 DEF Holding, Reading
  <2>. QED BY <2>2 DEF Shown
<1>3. PictureUncovered
  <2>1. SUFFICES ASSUME show # "none", NEW p \in Samples
                 PROVE  \/ screen[p].a = 0
                        \/ Running("wfb") /\ In(p, 12, strip_y - 4, vinfo.xres - 20, strip_h + 8)
                        \/ Running("timer") /\ In(p, timer_x - 8, timer_y - 4, vinfo.xres, FONT_H + 8)
    BY DEF PictureUncovered
  <2>2. 1 \in Slots
    BY DEF Slots
  <2>3. CASE show = "live"
    <3>1. Uncovered(screen, IF painters[1].mode = "wfb" THEN Strip ELSE {})
      BY <1>1, <2>3 DEF Picture
    <3>2. painters[1].mode = "wfb" => Running("wfb")
      BY <2>2 DEF Running
    <3>. QED BY <3>1, <3>2 DEF Uncovered, Strip, Rect
  <2>4. CASE show = "replay"
    <3>1. Uncovered(screen, Corner) /\ painters[1].mode = "timer"
      BY <1>1, <2>4 DEF Picture
    <3>2. Running("timer")
      BY <2>2, <3>1 DEF Running
    <3>. QED BY <3>1, <3>2 DEF Uncovered, Corner, Rect
  <2>. QED BY <1>1, <2>1, <2>3, <2>4 DEF Picture
<1>. QED BY <1>2, <1>3

LEMMA ScreenHolds ==
    ASSUME GlyphsAreNibbles PROVE Spec => [](SettingsInv /\ ScreenInv /\ BootInv)
<1>1. Init => SettingsInv /\ ScreenInv /\ BootInv
  BY SettingsInit, ScreenInit DEF Init
<1>2. SettingsInv /\ ScreenInv /\ BootInv /\ [Next]_vars => (SettingsInv /\ ScreenInv /\ BootInv)'
  BY BoardStepIsFlashStep, SettingsStep, ScreenStep, BootStep DEF SettingsInv
<1>. QED BY <1>1, <1>2, PTL DEF Spec

\* Whatever the panel and its format, the length of the texts and the order in
\* which the scripts kill and start the painters: a strip, a timer or a block
\* of statistics shows one reading.
THEOREM BoardShowsOneReading ==
    ASSUME GlyphsAreNibbles PROVE Spec => []ShowsOneReading
<1>1. SettingsInv /\ ScreenInv /\ BootInv => ShowsOneReading
  BY ScreenShows
<1>. QED BY <1>1, ScreenHolds, PTL

\* And a picture shows through everywhere but in the strip or the timer's
\* rectangle.
THEOREM BoardLeavesThePicture ==
    ASSUME GlyphsAreNibbles PROVE Spec => []PictureUncovered
<1>1. SettingsInv /\ ScreenInv /\ BootInv => PictureUncovered
  BY ScreenShows
<1>. QED BY <1>1, ScreenHolds, PTL

LEMMA ScreenTyped == ScreenInv => OTypeOK
<1>. SUFFICES ASSUME ScreenInv PROVE OTypeOK
  OBVIOUS
<1>1. vinfo \in Formats /\ show \in {"none", "live", "replay"} /\ AllPacked(screen)
  BY DEF ScreenInv, Good, Picture
<1>2. \A i \in Slots : painters[i].mode \in {"none", "splash", "wfb", "timer", "stats"}
  <2>1. /\ painters[1].mode \in {"none", "splash", "wfb", "timer", "stats"}
        /\ painters[2].mode \in {"none", "splash"}
    BY DEF ScreenInv, Good, Holding
  <2>. QED BY <2>1 DEF Slots
<1>. QED BY <1>1, <1>2 DEF OTypeOK, AllPacked, Packed

\* Every variable of the board keeps its type; above all no channel of a pixel
\* spills into its neighbour, in any format and from any colour and coverage.
THEOREM BoardTypeOK ==
    ASSUME GlyphsAreNibbles PROVE Spec => []TypeOK
<1> DEFINE Types == FTypeOK /\ (LinkInv /\ RadioTypeInv) /\ DTypeOK /\ InitTypeOK
<1>1. Init => Types
  BY FTypeInit, RadioInit, RadioTypeInit, DisplayTypeInit, PollAssumption DEF Init, InitTypeOK
<1>2. Types /\ [Next]_vars => Types'
  BY BoardStepIsFlashStep, FTypeStep, LinkStep, RadioTypeStep, DisplayTypeStep, InitTypeStep
<1>3. Types /\ OTypeOK => TypeOK
  BY RTypeParts DEF TypeOK, InitTypeOK
<1> HIDE DEF Types
<1>4. SettingsInv /\ ScreenInv /\ BootInv => OTypeOK
  BY ScreenTyped
<1>. QED BY <1>1, <1>2, <1>3, <1>4, ScreenHolds, PTL DEF Spec
================================================================================
