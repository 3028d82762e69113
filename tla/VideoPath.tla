------------------------------ MODULE VideoPath -------------------------------
(***************************************************************************)
(* From the air to a replay: a player assembles and records units, its     *)
(* recording is closed or cut off, and another player feeds the file to    *)
(* VDEC again through a window, one access unit at a time.                 *)
(*                                                                         *)
(* That the file is the recorded units up to some symbol is what Recorder  *)
(* is proved to promise.  One turn of the replay loop is one step: all it  *)
(* works on is its own.                                                    *)
(***************************************************************************)
EXTENDS RtpAssembly

CONSTANTS
    fcap,           \* symbols the window holds
    MaxTroubles     \* bound: reads that fail and signals, together

ASSUME WindowAssumption == fcap \in Nat \ {0} /\ MaxTroubles \in Nat

VARIABLES
    phase,          \* "live", "replay" or "ended"
    loop,           \* -loop
    running,        \* cleared by a signal
    file,           \* the recording
    fd,             \* how far it has been read
    win, fpos,      \* the first ffill bytes of fbuf, and what was fed of them
    next,           \* history: where in the file the next unit begins
    expected,       \* history: the whole pictures in the file, and where
    troubles        \* history: reads that failed, and signals

replayVars == <<phase, loop, running, file, fd, win, fpos, next, expected,
                troubles>>
vars == <<liveVars, replayVars>>

Init ==
    /\ RtpInit
    /\ phase = "live" /\ loop = FALSE /\ running = TRUE
    /\ file = <<>> /\ fd = 0 /\ win = <<>> /\ fpos = 0
    /\ next = 0 /\ expected = {} /\ troubles = 0

LiveStep == phase = "live" /\ Live /\ UNCHANGED replayVars

\* Where unit j of the recording lies in the file.
StartOf(j) == Len(FlattenSeq(SubSeq(recorded, 1, j - 1)))
EndOf(j)   == StartOf(j) + Len(recorded[j])

\* A picture au_end can tell from its neighbours: one slice, at its end.
Regular(shape) ==
    /\ \A x \in DOMAIN shape : shape[x].t = "slice" <=> x = Len(shape)
    /\ \A x \in DOMAIN shape : shape[x].t = "aud" => x = 1
    /\ shape[1].t # "none" /\ (is_h265 => shape[1].t # "sei")

\* Unit j of the recording is all of such a picture.
IsPicture(j) ==
    \E k \in DOMAIN sent : recorded[j] = Picture(k) /\ Regular(sent[k].shape)

\* Behind it comes another, or the end of a file cut off after so many symbols.
IsFollowed(j, cut, again) ==
    IF EndOf(j) = cut THEN again => IsPicture(1)
    ELSE IsPicture(j + 1) /\ EndOf(j) + 2 <= cut

Expected(cut, again) ==
    {[at |-> StartOf(j), data |-> recorded[j]] :
        j \in {x \in DOMAIN recorded :
                 EndOf(x) <= cut /\ IsPicture(x) /\ IsFollowed(x, cut, again)}}

\* The live player is gone, and all it knew.  The file may be cut off by the
\* stick or by the power, inside its last unit (if further up, the units behind
\* do not count as recorded); one that is empty is refused.
StartReplay ==
    /\ phase = "live" /\ recorded # <<>>
    /\ \E cut \in StartOf(Len(recorded)) + 1 .. EndOf(Len(recorded)),
          again \in BOOLEAN :
         /\ file' = SubSeq(FlattenSeq(recorded), 1, cut)
         /\ loop' = again
         /\ expected' = Expected(cut, again)
    /\ phase' = "replay"
    /\ annexb' = FALSE /\ sent' = <<>> /\ todo' = <<>> /\ at' = 0 /\ net' = {}
    /\ detected' = FALSE /\ raw' = FALSE
    /\ have_seq' = FALSE /\ last_seq' = 0
    /\ frame' = <<>> /\ lost_packets' = 0
    /\ gaps' = 0 /\ arrived' = <<>> /\ latest' = 0
    /\ unit' = NoUnit /\ recorded' = <<>>
    /\ UNCHANGED <<is_h265, running, fd, win, fpos, next, troubles>>

----------------------------------------------------------------------------
(* One turn of the loop over the file *)

KeptMutant == <<>>
Kept == SubSeq(win, fpos + 1, Len(win))
ToEnd == SubSeq(file, fd + 1, Len(file))

\* What the reads of one turn can find: the rest of the file and, with -loop,
\* the file once more.  The second end of file ends the topping up.
SupplyMutant == ToEnd
AlwaysRewoundMutant == ToEnd \o file
Supply == IF loop THEN ToEnd \o file ELSE ToEnd

LesserOf(x, y) == IF x < y THEN x ELSE y

Trouble == troubles < MaxTroubles /\ troubles' = troubles + 1

\* The window is full or the supply is at its end, unless a read fails or is
\* interrupted by the signal that ends the run; the unit is fed all the same.
Read(got) ==
    /\ got \in 0 .. LesserOf(fcap - Len(Kept), Len(Supply))
    /\ \/ got = LesserOf(fcap - Len(Kept), Len(Supply))
          /\ UNCHANGED <<running, troubles>>
       \/ Trouble /\ running' \in BOOLEAN
    /\ win' = Kept \o SubSeq(Supply, 1, got)
    /\ fd' = IF got > Len(ToEnd) THEN got - Len(ToEnd) ELSE fd + got

FeedUnit ==
    /\ phase = "replay" /\ running
    /\ \E got \in 0 .. fcap : Read(got)
    /\ win' # <<>>
    /\ \E junk \in NalTypes :
         LET au == au_end(win', is_h265, junk) IN
         /\ unit' = [data |-> SubSeq(win', 1, au), from |-> <<next>>]
         /\ fpos' = au
         /\ next' = (next + au) % Len(file)
    /\ UNCHANGED <<senderVars, net, playerVars, history, recorded, phase, loop,
                   file, expected>>

\* The second player is gone too.
Ends == phase' = "ended" /\ fpos' = 0 /\ unit' = NoUnit

NothingToFeed ==
    /\ phase = "replay" /\ running
    /\ \E got \in 0 .. fcap : Read(got)
    /\ win' = <<>>
    /\ Ends
    /\ UNCHANGED <<senderVars, net, playerVars, history, recorded, loop, file, next,
                   expected>>

Signal ==
    /\ phase = "replay" /\ running
    /\ running' = FALSE /\ Trouble
    /\ UNCHANGED <<liveVars, phase, loop, file, fd, win, fpos, next, expected>>

LoopEnds ==
    /\ phase = "replay" /\ ~running
    /\ win' = <<>>
    /\ Ends
    /\ UNCHANGED <<senderVars, net, playerVars, history, recorded, loop, running,
                   file, fd, next, expected, troubles>>

Replay == FeedUnit \/ NothingToFeed \/ LoopEnds

Next == LiveStep \/ StartReplay \/ Replay \/ Signal

Spec == Init /\ [][Next]_vars

\* The replaying player's loop goes on by itself; everything else is chance.
FairSpec == Spec /\ WF_vars(Replay)

----------------------------------------------------------------------------
(* Properties *)

TypeOK ==
    /\ LiveTypeOK
    /\ phase \in {"live", "replay", "ended"}
    /\ {loop, running} \subseteq BOOLEAN /\ troubles \in 0 .. MaxTroubles
    /\ fd \in 0 .. Len(file) /\ Len(win) <= fcap /\ fpos \in 0 .. Len(win)
    /\ phase = "live" => file = <<>> /\ next = 0
    /\ phase = "replay" => file # <<>> /\ next \in 0 .. Len(file) - 1

\* Damage ends with the picture it hit: whatever was lost, reordered or cut
\* before, when exactly the packets of one picture have come in their order
\* since the last marker, VDEC is fed that picture (rtp_feed, frame_len = 0).
IntactPictureIsFed == phase = "live" => IntactIsFed

\* Every turn feeds the piece of the file behind the one before, across the
\* end of the file with -loop: nothing twice, nothing left out, whatever the
\* reads returned (memmove, ffill and the rewinding).
ReplayIsContiguous ==
    phase # "live" /\ unit # NoUnit =>
      \A x \in DOMAIN unit.data :
        unit.data[x] = file[((unit.from[1] + x - 1) % Len(file)) + 1]

\* What VDEC was given live it is given again: a turn that begins where a whole
\* picture lies in the file feeds exactly that picture, if the window holds it
\* and the start of the next (fcap, "has to hold one access unit").
PicturesAreReplayed ==
    phase = "replay" /\ unit # NoUnit /\ troubles = 0 =>
      \A p \in expected :
        unit.from = <<p.at>> /\ Len(p.data) + 2 <= fcap => unit.data = p.data

\* A replay that nobody disturbs ends because the whole file has been fed and
\* is not to be repeated.
EndsWhenFed ==
    phase = "ended" /\ troubles = 0 => ~loop /\ next = 0 /\ fd = Len(file)

\* Without -loop, the replay of every file ends, and so does one that has been
\* told to stop.
ReplayEnds == phase = "replay" /\ (~loop \/ ~running) ~> phase = "ended"
==============================================================================
