------------------------------- MODULE MCBoard --------------------------------
EXTENDS Board

\* What sysupgrade may be given: one good file, and one of each kind that is
\* wrong in one way.
Img(id, len, dsize) ==
    [id |-> id, magic |-> TRUE, load |-> TRUE, len |-> len, dsize |-> dsize]
Sig(id) == [size |-> crypto_sign_BYTES, of |-> id, ours |-> TRUE]
File(img, sig) == [zip |-> FALSE, img |-> img, sig |-> sig, inner |-> NoSig]
Zip(img, outer, inner) == [zip |-> TRUE, img |-> img, sig |-> outer, inner |-> inner]

MCFactory == Img("factory", 3, 2)
New   == Img("new", 3, 2)
Own   == Img("own", 2, 1)
Large == Img("large", 4, 3)
MCGenuine == {"factory", "new", "large"}
MCSources ==
    {File(New, Sig("new")), File(New, NoSig), File(Own, Sig("new")),
     File(New, [Sig("new") EXCEPT !.size = 65]),
     File(Own, [Sig("own") EXCEPT !.ours = FALSE]),
     File([New EXCEPT !.id = "other", !.magic = FALSE], NoSig),
     File([New EXCEPT !.id = "board", !.load = FALSE], NoSig),
     File(Img("cut", 2, 2), Sig("new")), File(Large, Sig("large")),
     Zip(New, NoSig, Sig("new")), Zip(New, Sig("new"), NoSig)}

\* Frames: whole ones of three streams, one cut off within the header, one
\* of somebody else, one that is not radiotap.
WholeFrame(c) == [n |-> 34, rtap |-> 18, marker |-> TRUE, chan |-> c, air |-> {c}]
MCFrames ==
    {WholeFrame(1), WholeFrame(2), WholeFrame(3)}
    \cup {[WholeFrame(1) EXCEPT !.n = 33, !.chan = 9, !.air = {}],
          [WholeFrame(1) EXCEPT !.marker = FALSE, !.air = {}],
          [WholeFrame(1) EXCEPT !.rtap = 4, !.air = {}]}

\* ARGB4444 as this image configures it, and the driver's default.
MCFormats ==
    {[xres |-> 1280, yres |-> 720, line |-> 1280, rgb |-> 4, transp |-> 4],
     [xres |-> 1280, yres |-> 720, line |-> 1280, rgb |-> 5, transp |-> 1]}

\* In both lines of the strip, early and late; left of it; in the timer and
\* beside it; in the splash's text and bars; in the middle of the picture.
MCSamples ==
    {<<3, 690>>, <<36, 640>>, <<300, 640>>, <<37, 680>>, <<301, 681>>,
     <<1274, 680>>, <<641, 300>>, <<40, 110>>, <<200, 320>>}

MCCoverage(by, i, row, col) ==
    LET n == i + row + col + (IF by # <<>> /\ "t" \in DOMAIN by[1] THEN by[1].t ELSE 0)
    IN  <<<<15, 0>>, <<9, 12>>, <<1, 2>>, <<0, 0>>>>[(n % 4) + 1]

Report11(fields, rssi, lost, a, b) ==
    [fields |-> fields, rssi |-> rssi, lost |-> lost, len |-> <<a, b>>]
MCReadings ==
    {Report11(0, 0, 0, 0, 0), Report11(11, 0, 0, 0, 0), Report11(11, -60, 0, 20, 25),
     Report11(11, -75, 2, 24, 30)}

Associated == [ssid |-> 7, freq |-> 4, state |-> 9, note |-> 0]
MCWorlds ==
    {[adapter |-> TRUE, pkts |-> 100, state |-> "up", wired |-> TRUE, file |-> Associated],
     [adapter |-> TRUE, pkts |-> 200, state |-> "down", wired |-> FALSE,
      file |-> [ssid |-> 7, freq |-> 0, state |-> 12, note |-> 71]],
     [adapter |-> FALSE, pkts |-> 0, state |-> "", wired |-> TRUE, file |-> <<>>]}
==============================================================================
