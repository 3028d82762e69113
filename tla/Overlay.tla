------------------------------- MODULE Overlay --------------------------------
(***************************************************************************)
(* fb-splash.c, which draws on the framebuffer above the video plane, and  *)
(* the scripts that start and kill it.                                     *)
(*                                                                         *)
(* The screen is kept at a few sample points of the real panel; a drawing  *)
(* is evaluated at each of them with the code's own geometry, clipping and *)
(* blending.  A pixel carries its packed channels and, as history, the     *)
(* reading it was drawn for.  What a text says is left out: it is the      *)
(* reading it renders and a number of characters; the coverage of a glyph  *)
(* is a constant (font.h is generated).                                    *)
(***************************************************************************)
EXTENDS Integers, Sequences

CONSTANTS
    Formats,                    \* vinfo: channel lengths, panel, stride
    Samples,                    \* points of the panel
    Coverage(_, _, _, _),       \* of a text's glyph at a row and a column
    Readings,                   \* what /tmp/wfb.status may say
    Worlds,                     \* what the kernel and /tmp/wifi-status may say
    Times,                      \* seconds since the timer started
    Labels                      \* the lengths of the recordings' names

FONT_W == 16
FONT_H == 32
line_h == FONT_H + 4            \* of every mode but the timer

\* A panel of 16 or 32 bits a pixel that the timer's rectangle fits on.
ASSUME PanelAssumption ==
    \A f \in Formats :
        /\ {f.xres, f.yres, f.line} \subseteq Nat
        /\ 20 * FONT_W + 28 <= f.xres /\ f.xres <= f.line
        /\ f.rgb \in 1 .. 8 /\ f.transp \in 0 .. 8
        /\ Samples \subseteq (0 .. f.xres - 1) \X (0 .. f.yres - 1)

\* The two lines of a reading fit into their strip: on the 1280 pixels of this
\* panel that is 77 characters, and its fields make 63 at most.
ASSUME ReadingAssumption ==
    \A s \in Readings :
        /\ s.fields \in Nat /\ s.rssi \in Int /\ s.lost \in Nat
        /\ \A k \in 1 .. 2 : s.len[k] \in Nat
        /\ \A k \in 1 .. 2, f \in Formats : s.len[k] * FONT_W + 34 <= f.xres

ASSUME WorldAssumption ==
    /\ \A w \in Worlds : w.pkts \in Nat /\ \A key \in DOMAIN w.file : w.file[key] \in Nat
    /\ Times \subseteq Nat /\ Labels \subseteq Nat

VARIABLES
    vinfo,
    screen,                     \* the sample points
    painters,                   \* the fb-splash processes
    label,                      \* the length of the name on the timer
    show                        \* video plane: "none", "live", "replay"

ovars == <<vinfo, screen, painters, label, show>>

----------------------------------------------------------------------------
(* Pixels *)

\* The values of a channel of n bits.
Levels(n) == 2^n

\* Channels of eight bits, cut down to what the format holds.
pack_a(c, a, by) ==
    LET cut(v) == v \div Levels(8 - vinfo.rgb)
    IN  [r |-> cut(c[1]), g |-> cut(c[2]), b |-> cut(c[3]),
         a |-> a \div Levels(8 - vinfo.transp), by |-> by]
pack(c, by) == pack_a(c, 255, by)

soft_alpha == vinfo.transp >= 4

\* ... and back to eight bits.
unpack(v) == (v * 255) \div (Levels(vinfo.rgb) - 1)
Unpacked(c) == [k \in 1 .. 3 |-> unpack(c[k] \div Levels(8 - vinfo.rgb))]

Nothing == [r |-> 0, g |-> 0, b |-> 0, a |-> 0, by |-> <<>>]

White == <<255, 255, 255>>
Green == <<0, 255, 0>>
Amber == <<255, 200, 0>>
Red   == <<255, 80, 80>>
Cyan  == <<0, 255, 255>>
Panel == <<0, 0, 40>>                       \* behind the splash and the stats
Scrim == IF soft_alpha THEN <<24, 24, 24>> ELSE <<32, 32, 32>>

\* put_pixel: what is off the panel is not drawn.  One line further on it
\* would be: the memory of <<x + line, y - 1>> is that of <<x, y>>.
Aliases(p) == {<<p[1] + k * vinfo.line, p[2] - k>> : k \in 0 .. 1}
OnPanelMutant(q) == q[1] >= 0 /\ q[2] \in 0 .. vinfo.yres - 1
OnPanel(q) == q[1] \in 0 .. vinfo.xres - 1 /\ q[2] \in 0 .. vinfo.yres - 1
Targets(p) == {q \in Aliases(p) : OnPanel(q)}

Plot(scr, Covers(_), Ink(_)) ==
    [p \in Samples |->
        LET hits == {q \in Targets(p) : Covers(q)}
        IN  IF hits = {} THEN scr[p] ELSE Ink(CHOOSE q \in hits : TRUE)]

In(q, x, y, w, h) == q[1] \in x .. x + w - 1 /\ q[2] \in y .. y + h - 1

fill_rect(scr, x, y, w, h, px) ==
    LET Covers(q) == In(q, x, y, w, h)
        Ink(q) == px
    IN  Plot(scr, Covers, Ink)

clear_transparentMutant(scr, x, y, w, h) == scr
clear_transparent(scr, x, y, w, h) == fill_rect(scr, x, y, w, h, Nothing)

\* One pixel in four is left out where there is no partial alpha.
fill_scrim(scr, x, y, w, h, px) ==
    LET Covers(q) == /\ In(q, x, y, w, h)
                     /\ soft_alpha \/ (q[1] - x) % 2 = 1 \/ (q[2] - y) % 2 = 1
        Ink(q) == px
    IN  Plot(scr, Covers, Ink)

\* A glyph over its black outline: coverage of the two, of 225.
cov(g) == g[1] * 15 + g[2] * (15 - g[1])

\* Its colour: divided by the coverage, or mixed with what is behind.
BlendMutant(fg, bg, g) ==
    [k \in 1 .. 3 |-> IF soft_alpha THEN (fg[k] * 15 * 15) \div cov(g)
                      ELSE (fg[k] * g[1] + bg[k] * 15) \div 15]
Blend(fg, bg, g) ==
    [k \in 1 .. 3 |-> IF soft_alpha THEN (fg[k] * g[1] * 15) \div cov(g)
                      ELSE (fg[k] * g[1] + bg[k] * (15 - g[1])) \div 15]

draw_text(scr, x, y, by, len, fg, bg) ==
    LET glyph(q) == LET i == (q[1] - x) \div FONT_W
                    IN  Coverage(by, i, q[2] - y, (q[1] - x) % FONT_W)
        alpha(q) == (cov(glyph(q)) * 255) \div 225
        Covers(q) == /\ In(q, x, y, len * FONT_W, FONT_H)
                     /\ cov(glyph(q)) # 0
                     /\ soft_alpha \/ alpha(q) >= 128
        Ink(q) == pack_a(Blend(Unpacked(fg), Unpacked(bg), glyph(q)),
                         IF soft_alpha THEN alpha(q) ELSE 255, by)
    IN  Plot(scr, Covers, Ink)

draw_label(scr, x, y, by, len, fg) ==
    LET back == fill_scrim(scr, x - 6, y - 2, len * FONT_W + 12, FONT_H + 4,
                           pack_a(Scrim, IF soft_alpha THEN 110 ELSE 255, by))
    IN  draw_text(back, x, y, by, len, fg, IF soft_alpha THEN <<0, 0, 0>> ELSE Scrim)

Bars == <<White, <<255, 255, 0>>, Cyan, Green, <<255, 0, 255>>, <<255, 0, 0>>,
          <<0, 0, 255>>, <<0, 0, 0>>>>
colour_bars(scr, y, h) ==
    LET w == vinfo.xres \div 8
        Covers(q) == In(q, 0, y, 8 * w, h)
        Ink(q) == pack(Bars[q[1] \div w + 1], <<>>)
    IN  Plot(scr, Covers, Ink)

Blank == [p \in Samples |-> Nothing]

----------------------------------------------------------------------------
(* The modes *)

\* main with -p --hold: bars, and three lines of text.
Filled(scr) == fill_rect(scr, 0, 0, vinfo.xres, vinfo.yres, pack(Panel, <<>>))

Splash(scr) ==
    LET h == vinfo.yres \div 4
        barred == colour_bars(Filled(scr), 20, h)
        Line(s, k) == draw_text(s, 30, 50 + h + k * line_h, <<>>, 22, White, Panel)
    IN  Line(Line(Line(barred, 0), 1), 2)

\* --wfb: a strip of two lines, bottom left.
strip_h == line_h * 2 + 1
strip_y == vinfo.yres - strip_h - 16

StripCleared(scr) ==
    clear_transparent(scr, 12, strip_y - 4, vinfo.xres - 20, strip_h + 8)

\* Fewer fields than eleven, or an rssi of "-": no link.
NoLink(s) == s.fields < 11 \/ s.rssi = 0

RssiColour(rssi) == IF rssi > -70 THEN Green ELSE IF rssi > -80 THEN Amber ELSE Red

FirstLine(scr, s) ==
    IF NoLink(s) THEN draw_label(scr, 20, strip_y, <<s>>, 7, Red)
    ELSE draw_label(scr, 20, strip_y, <<s>>, s.len[1], RssiColour(s.rssi))
SecondLine(scr, s) ==
    IF NoLink(s) THEN scr
    ELSE draw_label(scr, 20, strip_y + line_h, <<s>>, s.len[2],
                    IF s.lost > 0 THEN Red ELSE White)

\* --timer: twenty characters wide, bottom right.
timer_x == vinfo.xres - 20 * FONT_W - 20
timer_y == vinfo.yres - FONT_H - 16

clk(t) == IF t >= 36000 THEN 8 ELSE IF t >= 3600 THEN 7 ELSE 5
buf(t) == IF label = 0 THEN clk(t) ELSE label + 2 + clk(t)

Timer(scr, t) ==
    draw_label(clear_transparent(scr, timer_x - 8, timer_y - 4, 20 * FONT_W + 16, FONT_H + 8),
               timer_x, timer_y, <<[t |-> t]>>, buf(t), Green)

\* --stats: a block of up to ten lines, some of which come and go.
stats_y == 30
StatsCleared(scr) ==
    fill_rect(scr, 0, 0, vinfo.xres, stats_y + line_h * 13, pack(Panel, <<>>))

\* What is read once a turn.  The adapter may be gone; /tmp/wifi-status is a
\* function from the keys it has to the lengths of their values, empty while
\* apfpv rewrites it.
read_counter(w) == IF w.adapter THEN w.pkts ELSE 0
read_operstate(w) == IF w.adapter THEN w.state ELSE "UNKNOWN"
read_ipv4(w) == IF w.wired THEN "address" ELSE "NONE"
read_kv(w, key) == IF key \in DOMAIN w.file THEN w.file[key] ELSE 0

\* The packets since the last turn.  The difference is unsigned: when the
\* adapter has gone it is a number of twenty digits.
Since(prev, pkts) ==
    IF prev = <<>> \/ pkts = prev[1].pkts THEN [some |-> FALSE, digits |-> 1]
    ELSE [some |-> TRUE, digits |-> IF pkts > prev[1].pkts THEN 3 ELSE 20]

Report(w, prev) ==
    [up |-> read_operstate(w) = "up", ssid |-> read_kv(w, "ssid"),
     freq |-> read_kv(w, "freq") > 0, state |-> read_kv(w, "state"),
     note |-> read_kv(w, "note"), wired |-> read_ipv4(w) # "NONE",
     pkts |-> read_counter(w), rate |-> Since(prev, read_counter(w))]

\* COMPLETED is nine characters long, and no other state is.
StatsLines(s) ==
    LET Line(len, colour) == <<[len |-> len, colour |-> colour]>>
        Optional(there, line) == IF there THEN line ELSE <<>>
        Rate == IF s.rate.some THEN Cyan ELSE Red
    IN  Line(22, Green)
        \o Line(13, IF s.up THEN Green ELSE Amber)
        \o Line(IF s.ssid > 0 THEN s.ssid + 12 ELSE 15, IF s.freq THEN White ELSE Red)
        \o Optional(s.state > 0, Line(s.state + 12, IF s.state = 9 THEN Green ELSE Amber))
        \o Optional(s.note > 0, Line(s.note, Amber))
        \o Line(16, IF s.wired THEN Green ELSE Red)
        \o Line(20, White) \o Line(12, White)
        \o Line(s.rate.digits + 9, Rate) \o Line(s.rate.digits + 5, Rate)

StatsLine(scr, s, k) ==
    draw_text(scr, 30, stats_y + (IF k = 1 THEN 0 ELSE 2) + (k - 1) * line_h, <<s>>,
              StatsLines(s)[k].len, StatsLines(s)[k].colour, Panel)

----------------------------------------------------------------------------
(* The processes *)

None == [mode |-> "none", step |-> 0, got |-> <<>>]
Forked(mode) == [mode |-> mode, step |-> 0, got |-> <<>>]
Slots == 1 .. 2
NoPainters == [i \in Slots |-> None]
Running(mode) == \E i \in Slots : painters[i].mode = mode

OInit ==
    /\ vinfo \in Formats /\ label \in Labels
    /\ screen = Blank /\ painters = NoPainters /\ show = "none"

Advance(i, step, got) ==
    painters' = [painters EXCEPT ![i] = [mode |-> @.mode, step |-> step, got |-> got]]

\* It opens the device and, in two modes, paints all of it.
Opens(i) ==
    /\ painters[i].mode # "none" /\ painters[i].step = 0
    /\ screen' = CASE painters[i].mode = "splash" -> Splash(screen)
                   [] painters[i].mode = "stats" -> Filled(screen)
                   [] OTHER -> screen
    /\ Advance(i, 1, <<>>)
    /\ UNCHANGED <<vinfo, label, show>>

\* wfb_loop: one reading a turn; clear, then the two lines.
ReadsStatus(i) ==
    /\ painters[i].mode = "wfb" /\ painters[i].step = 1
    /\ \E s \in Readings : Advance(i, 2, <<s>>)
    /\ screen' = StripCleared(screen)
    /\ UNCHANGED <<vinfo, label, show>>

DrawsFirst(i) ==
    /\ painters[i].mode = "wfb" /\ painters[i].step = 2
    /\ screen' = FirstLine(screen, painters[i].got[1])
    /\ Advance(i, 3, painters[i].got)
    /\ UNCHANGED <<vinfo, label, show>>

DrawsSecond(i) ==
    /\ painters[i].mode = "wfb" /\ painters[i].step = 3
    /\ screen' = SecondLine(screen, painters[i].got[1])
    /\ Advance(i, 1, <<>>)
    /\ UNCHANGED <<vinfo, label, show>>

Ticks(i) ==
    /\ painters[i].mode = "timer" /\ painters[i].step = 1
    /\ \E t \in Times :
        /\ painters[i].got # <<>> => t >= painters[i].got[1]
        /\ screen' = Timer(screen, t)
        /\ Advance(i, 1, <<t>>)
    /\ UNCHANGED <<vinfo, label, show>>

\* stats_loop: everything is read before the block is cleared.
ReadsCounters(i) ==
    /\ painters[i].mode = "stats" /\ painters[i].step = 1
    /\ \E w \in Worlds : Advance(i, 2, <<Report(w, painters[i].got)>>)
    /\ screen' = StatsCleared(screen)
    /\ UNCHANGED <<vinfo, label, show>>

DrawsStats(i) ==
    /\ painters[i].mode = "stats" /\ painters[i].step > 1
    /\ LET s == painters[i].got[1]
           k == painters[i].step - 1
       IN  /\ screen' = StatsLine(screen, s, k)
           /\ Advance(i, IF k < Len(StatsLines(s)) THEN k + 2 ELSE 1, <<s>>)
    /\ UNCHANGED <<vinfo, label, show>>

PainterSteps ==
    \E i \in Slots : Opens(i) \/ ReadsStatus(i) \/ DrawsFirst(i) \/ DrawsSecond(i)
                     \/ Ticks(i) \/ ReadsCounters(i) \/ DrawsStats(i)

----------------------------------------------------------------------------
(* The scripts *)

\* killall fb-splash: the driver drops the contents with the last user.
\* Bound: what another script forked has been exec'ed by now.
Killall(then) ==
    /\ painters' = [NoPainters EXCEPT ![1] = then]
    /\ screen' = Blank

\* wfb-start's splash(), S65display, and the end of dvr-play.
SplashReplaces == Killall(Forked("splash")) /\ UNCHANGED <<vinfo, label>>

\* fpv-start: killall, and zeroes from dd.
LiveStarts ==
    /\ show = "none"
    /\ show' = "live" /\ Killall(None)
    /\ UNCHANGED <<vinfo, label>>

\* wfb-start, when fpv-start has returned.
OverlayStarts ==
    /\ show = "live" /\ painters = NoPainters
    /\ painters' = [painters EXCEPT ![1] = Forked("wfb")]
    /\ UNCHANGED <<vinfo, screen, label, show>>

\* fpv-stop: a splash, beside an overlay that nobody kills.
LiveStops ==
    /\ show = "live"
    /\ show' = "none"
    /\ painters' = [painters EXCEPT ![2] = Forked("splash")]
    /\ UNCHANGED <<vinfo, screen, label>>

\* dvr-play: fpv-stop's splash goes with whatever else there is.
ReplayStarts ==
    /\ show' = "replay" /\ show # "replay"
    /\ Killall(Forked("timer"))
    /\ UNCHANGED <<vinfo, label>>

ReplayEnds ==
    /\ show = "replay" /\ show' = "none"
    /\ SplashReplaces

\* apfpv: the counters, while nothing is played.
StatsStart ==
    /\ show = "none" /\ Killall(Forked("stats"))
    /\ UNCHANGED <<vinfo, label, show>>

WaitingSplash == show = "none" /\ SplashReplaces /\ UNCHANGED show

SceneSteps == WaitingSplash \/ LiveStarts \/ OverlayStarts \/ LiveStops \/ ReplayStarts
              \/ ReplayEnds \/ StatsStart

----------------------------------------------------------------------------
(* Properties *)

\* A packed channel fits its field: none spills into its neighbour's bits.
OTypeOK ==
    /\ vinfo \in Formats /\ show \in {"none", "live", "replay"}
    /\ \A p \in Samples :
        /\ {screen[p].r, screen[p].g, screen[p].b} \subseteq 0 .. Levels(vinfo.rgb) - 1
        /\ screen[p].a \in 0 .. Levels(vinfo.transp) - 1
    /\ \A i \in Slots : painters[i].mode \in {"none", "splash", "wfb", "timer", "stats"}

\* What is on the screen of a link strip, a timer or a statistics block
\* comes from one reading: a shorter text leaves nothing of a longer one,
\* and the two lines of a strip belong together, whatever the order of the
\* two processes that may be drawing.  (Where a pixel is all or nothing, a
\* timer of more than its twenty characters leaves specks beyond them.)
ShowsOneReading ==
    soft_alpha \/ (\A t \in Times : buf(t) <= 20) => \A p, q \in Samples :
        screen[p].by # <<>> /\ screen[q].by # <<>> => screen[p].by = screen[q].by

\* Over a picture only the strip is drawn, and everything else of the panel
\* lets it through (fpv-start clears the splash, the overlays never paint
\* outside their strip).
PictureUncovered ==
    show # "none" =>
        \A p \in Samples :
            \/ screen[p].a = 0
            \/ Running("wfb") /\ In(p, 12, strip_y - 4, vinfo.xres - 20, strip_h + 8)
            \/ Running("timer") /\ In(p, timer_x - 8, timer_y - 4, vinfo.xres, FONT_H + 8)
==============================================================================
