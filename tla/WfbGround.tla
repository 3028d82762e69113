------------------------------ MODULE WfbGround ------------------------------
(***************************************************************************)
(* The wfb-ng ground station: the link loop that wfb-start leaves running, *)
(* dvr-play, and the fpv scripts, supervisors and players they start.      *)
(*                                                                         *)
(* The loop reads what awk made of wfb_rx's reports; the radio changes     *)
(* that at any time.  dvr-play keeps the loop off with /tmp/fpv.hold.      *)
(***************************************************************************)
EXTENDS FpvScripts

CONSTANTS
    Loops,          \* link loops: one, or two after S70link restart
    Viewers,        \* processes that run dvr-play
    DownLimit       \* turns without a decrypt before the loop gives up: 5

ASSUME GroundAssumption ==
    /\ Loops \cup Viewers \subseteq Scripts
    /\ Loops \cap Viewers = {}
    /\ DownLimit \in Nat \ {0}

VARIABLES
    status,         \* what wfb_state makes of /tmp/wfb.status: "up" or "down"
    hold,           \* /tmp/fpv.hold exists
    down,           \* the loop's count of turns without a decrypt
    last,           \* the loop has shown its splash for this outage
    resume          \* where dvr-play goes on after its cleanup

groundVars == <<status, hold, down, last, resume>>
vars == <<fpvVars, groundVars>>

Init ==
    /\ FpvInit
    /\ pc = [p \in Scripts |-> IF p \in Loops THEN "loop.top" ELSE "idle"]
    /\ status = "down" /\ hold = FALSE
    /\ down = [l \in Loops |-> 0] /\ last = [l \in Loops |-> FALSE]
    /\ resume = [v \in Viewers |-> "idle"]

\* A decrypt more or less: awk rewrites the status every second.
Radio ==
    /\ status' \in {"up", "down"} \ {status}
    /\ UNCHANGED <<fpvVars, hold, down, last, resume>>

----------------------------------------------------------------------------
(* The link loop of wfb-start *)

LoopHeld(l) ==
    /\ pc[l] = "loop.top" /\ hold
    /\ Goto(l, "loop.sleep")
    /\ UNCHANGED <<forked, fileVars, procVars, screenVars, race, groundVars>>

LoopNotHeldMutant(l) ==
    /\ pc[l] = "loop.top"
    /\ Goto(l, "loop.state")
    /\ UNCHANGED <<forked, fileVars, procVars, screenVars, race, groundVars>>

LoopNotHeld(l) ==
    /\ pc[l] = "loop.top" /\ ~hold
    /\ Goto(l, "loop.state")
    /\ UNCHANGED <<forked, fileVars, procVars, screenVars, race, groundVars>>

LoopSeesLinkMutant(l) ==                    \* the test is inverted
    /\ pc[l] = "loop.state" /\ status = "up"
    /\ down' = [down EXCEPT ![l] = 0]
    /\ Goto(l, IF Alive(fpv_pid) THEN "start" ELSE "loop.sleep")
    /\ UNCHANGED <<forked, fileVars, procVars, screenVars, race, status, hold,
                   last, resume>>

LoopSeesLink(l) ==
    /\ pc[l] = "loop.state" /\ status = "up"
    /\ down' = [down EXCEPT ![l] = 0]
    /\ Goto(l, IF Alive(fpv_pid) THEN "loop.sleep" ELSE "start")
    /\ UNCHANGED <<forked, fileVars, procVars, screenVars, race, status, hold,
                   last, resume>>

\* Counts up; what is beyond the limit makes no difference.
Downs(l) == IF down[l] < DownLimit THEN down[l] + 1 ELSE DownLimit

LoopWaitsMutant(l) ==                       \* -gt for -ge
    /\ pc[l] = "loop.state" /\ status = "down"
    /\ down[l] <= DownLimit
    /\ down' = [down EXCEPT ![l] = @ + 1]
    /\ Goto(l, "loop.sleep")
    /\ UNCHANGED <<forked, fileVars, procVars, screenVars, race, status, hold,
                   last, resume>>

LoopWaits(l) ==
    /\ pc[l] = "loop.state" /\ status = "down"
    /\ Downs(l) < DownLimit
    /\ down' = [down EXCEPT ![l] = Downs(l)]
    /\ Goto(l, "loop.sleep")
    /\ UNCHANGED <<forked, fileVars, procVars, screenVars, race, status, hold,
                   last, resume>>

\* Long enough: stop the player ...
LoopStops(l) ==
    /\ pc[l] = "loop.state" /\ status = "down"
    /\ Downs(l) = DownLimit
    /\ fpv_pid # NoPid
    /\ down' = [down EXCEPT ![l] = DownLimit]
    /\ last' = [last EXCEPT ![l] = TRUE]
    /\ Goto(l, "stop")
    /\ UNCHANGED <<forked, fileVars, procVars, screenVars, race, status, hold,
                   resume>>

\* ... or, when there is none, tell the pilot what is being waited for: always
\* the first time, then whenever "down" turns from one of its two kinds (no
\* packets, no key) into the other.
LoopTellsPilot(l) ==
    /\ pc[l] = "loop.state" /\ status = "down"
    /\ Downs(l) = DownLimit
    /\ fpv_pid = NoPid
    /\ down' = [down EXCEPT ![l] = DownLimit]
    /\ last' = [last EXCEPT ![l] = TRUE]
    /\ osd' = "splash" \/ (last[l] /\ UNCHANGED osd)
    /\ Goto(l, "loop.sleep")
    /\ UNCHANGED <<forked, fileVars, procVars, disp, race, status, hold, resume>>

LoopSleeps(l) ==
    /\ pc[l] = "loop.sleep"
    /\ Goto(l, "loop.top")
    /\ UNCHANGED <<forked, fileVars, procVars, screenVars, race, groundVars>>

Loop(l) ==
    \/ LoopHeld(l) \/ LoopNotHeld(l)
    \/ LoopSeesLink(l) \/ LoopWaits(l)
    \/ LoopStops(l) \/ LoopTellsPilot(l)
    \/ FpvStart(l, "loop.sleep") /\ UNCHANGED groundVars
    \/ FpvStop(l, FALSE, "loop.sleep") /\ UNCHANGED groundVars
    \/ LoopSleeps(l)

\* What is not in the middle of something will do nothing to a player, or
\* look at the hold before it does.
Busy(p) == pc[p] \in StartLabels \cup StopLabels \cup {"loop.state"}

----------------------------------------------------------------------------
(* dvr-play *)

\* Bound: after the first unlucky interleaving no further replay begins, so that
\* each one is followed to its end by itself.
ReplayMayBegin == race = "none"

\* : > /tmp/fpv.hold, then fpv-stop without a display.
ReplayHolds(v) ==
    /\ pc[v] = "idle" /\ ReplayMayBegin
    /\ hold' = TRUE
    /\ race' = IF \E p \in Scripts \ {v} : Busy(p) THEN First("overlap") ELSE race
    /\ Goto(v, "stop")
    /\ UNCHANGED <<forked, fileVars, procVars, screenVars, status, down, last,
                   resume>>

ReplaySeesNoPlayerMutant(v) ==              \* does not wait for it
    /\ pc[v] = "play.wait"
    /\ Goto(v, "play.clear")
    /\ UNCHANGED <<forked, fileVars, procVars, screenVars, race, groundVars>>

ReplaySeesNoPlayer(v) ==
    /\ pc[v] = "play.wait" /\ ~PidofPlayer
    /\ Goto(v, "play.clear")
    /\ UNCHANGED <<forked, fileVars, procVars, screenVars, race, groundVars>>

ReplayStopsWaiting(v) ==
    /\ pc[v] = "play.wait" /\ PidofPlayer
    /\ race' = First("stuck")
    /\ Goto(v, "play.clear")
    /\ UNCHANGED <<forked, fileVars, procVars, screenVars, groundVars>>

\* The screen is the player's.
ReplayClearsScreen(v) ==
    /\ pc[v] = "play.clear"
    /\ disp' = FALSE /\ osd' = "clear"
    /\ Goto(v, "play.start")
    /\ UNCHANGED <<forked, fileVars, procVars, race, groundVars>>

ReplayStarts(v) ==
    /\ pc[v] = "play.start"
    /\ player[Replay] = "none"
    /\ player' = [player EXCEPT ![Replay] = "forked"]
    /\ Goto(v, "play.runs")
    /\ UNCHANGED <<forked, fileVars, sup, screenVars, race, groundVars>>

\* The script ends with its player: the EXIT trap.
ReplayEnds(v) ==
    /\ pc[v] = "play.runs" /\ player[Replay] = "none"
    /\ Goto(v, "clean.wait")
    /\ UNCHANGED <<forked, fileVars, procVars, screenVars, race, groundVars>>

\* Ctrl-C goes to the whole foreground: a running player stops, a script called
\* from here is killed, and so is a sleep.  The INT trap runs once the
\* foreground is gone, and does not exit: the script goes on behind it.
Interrupted(v) ==
    IF pc[v] \in StopLabels
    THEN "play.wait"
    ELSE IF pc[v] = "play.runs" THEN "clean.wait" ELSE pc[v]

ReplayInterrupted(v) ==
    /\ pc[v] \in StopLabels \cup {"play.wait", "play.clear", "play.start",
                                  "play.runs"}
    /\ race = "none"
    /\ race' = "interrupt"
    /\ resume' = [resume EXCEPT ![v] = Interrupted(v)]
    /\ player' = IF pc[v] # "play.runs" THEN player
                 ELSE [player EXCEPT ![Replay] =
                          CASE @ = "runs"   -> "ends"
                            [] @ = "forked" -> "none"
                            [] OTHER        -> @]
    /\ Goto(v, IF pc[v] = "play.runs" THEN "play.gone" ELSE "clean.wait")
    /\ UNCHANGED <<forked, fileVars, sup, screenVars, status, hold, down, last>>

ReplayTrapped(v) ==
    /\ pc[v] = "play.gone" /\ player[Replay] = "none"
    /\ Goto(v, "clean.wait")
    /\ UNCHANGED <<forked, fileVars, procVars, screenVars, race, groundVars>>

\* cleanup
CleanupSeesNoPlayer(v) ==
    /\ pc[v] = "clean.wait" /\ ~PidofPlayer
    /\ Goto(v, "clean.display")
    /\ UNCHANGED <<forked, fileVars, procVars, screenVars, race, groundVars>>

CleanupStopsWaiting(v) ==
    /\ pc[v] = "clean.wait" /\ PidofPlayer
    /\ race' = First("stuck")
    /\ Goto(v, "clean.display")
    /\ UNCHANGED <<forked, fileVars, procVars, screenVars, groundVars>>

CleanupRestoresDisplay(v) ==
    /\ pc[v] = "clean.display"
    /\ disp' = TRUE
    /\ Goto(v, "clean.splash")
    /\ UNCHANGED <<forked, osd, fileVars, procVars, race, groundVars>>

CleanupShowsSplash(v) ==
    /\ pc[v] = "clean.splash"
    /\ osd' = "splash"
    /\ Goto(v, "clean.hold")
    /\ UNCHANGED <<forked, disp, fileVars, procVars, race, groundVars>>

Release(v) ==
    /\ pc[v] = "clean.hold"
    /\ Goto(v, resume[v])
    /\ resume' = [resume EXCEPT ![v] = "idle"]
    /\ UNCHANGED <<forked, fileVars, procVars, screenVars, race, status, down,
                   last>>

CleanupReleasesMutant(v) == Release(v) /\ UNCHANGED hold    \* rm is left out
CleanupReleases(v) == Release(v) /\ hold' = FALSE

Viewer(v) ==
    \/ FpvStop(v, TRUE, "play.wait") /\ UNCHANGED groundVars
    \/ ReplaySeesNoPlayer(v) \/ ReplayStopsWaiting(v) \/ ReplayClearsScreen(v)
    \/ ReplayStarts(v) \/ ReplayEnds(v) \/ ReplayTrapped(v)
    \/ CleanupSeesNoPlayer(v) \/ CleanupStopsWaiting(v)
    \/ CleanupRestoresDisplay(v) \/ CleanupShowsSplash(v) \/ CleanupReleases(v)

----------------------------------------------------------------------------
ProcessStep ==
    \/ \E s \in Sups : Supervisor(s)
    \/ \E q \in Players : PlayerExecs(q) \/ PlayerExits(q) \/ PlayerStops(q)

Next ==
    \/ Radio
    \/ \E l \in Loops : Loop(l)
    \/ \E v \in Viewers : ReplayHolds(v) \/ Viewer(v) \/ ReplayInterrupted(v)
    \/ ProcessStep /\ UNCHANGED groundVars

Spec == Init /\ [][Next]_vars

----------------------------------------------------------------------------
(* Safety *)

Labels == StartLabels \cup StopLabels \cup
    {"loop.top", "loop.state", "loop.sleep", "idle", "play.wait", "play.clear",
     "play.start", "play.runs", "play.gone", "clean.wait", "clean.display",
     "clean.splash", "clean.hold"}

GroundTypeOK ==
    /\ status \in {"up", "down"} /\ hold \in BOOLEAN
    /\ down \in [Loops -> 0 .. DownLimit] /\ last \in [Loops -> BOOLEAN]
    /\ resume \in [Viewers -> Labels]

LiveSups == {s \in Sups : sup[s] # "none"}
OnScreen == {q \in Players : player[q] \in {"runs", "ends"}}

\* "Never leave two supervisors running" (fpv-start:51): at most one is alive,
\* whatever the scripts' interleaving.
OneSupervisor == Cardinality(LiveSups) <= 1

\* The same while no script has been caught in the middle by another, and the
\* one that runs is where fpv-stop will look for it.
StopFindsSupervisor ==
    race = "none" =>
        /\ OneSupervisor
        /\ \A s \in LiveSups : fpv_pid = s \/ \E p \in Scripts : forked[p] = s

\* The MI pipeline has one owner: no player starts before the last one is gone.
OnePlayer == race = "none" => Cardinality(OnScreen) <= 1

\* dvr-play "holds off the link supervisor for as long as it runs"
\* (dvr-play:15): nobody else has a player on the screen during a replay,
\* unless a player outlived its 15 seconds or the pilot pressed Ctrl-C.
ReplayHasScreen ==
    (race \in {"none", "overlap"} /\ player[Replay] = "runs")
        => LiveSups = {} /\ OnScreen = {Replay}

\* The same for a replay that began while the loop was at rest.
HoldIsRespected ==
    (race = "none" /\ player[Replay] = "runs")
        => LiveSups = {} /\ OnScreen = {Replay} /\ osd # "splash" /\ ~disp

\* Neither the splash nor a second holder of HDMI is left over a live picture.
LivePictureShows ==
    (race = "none" /\ \E s \in Sups : player[s] = "runs" /\ sup[s] # "none"
        /\ fpv_pid = s) => osd # "splash" /\ ~disp

\* The same after a replay that was stopped with Ctrl-C, the way dvr-play
\* announces (dvr-play:95): "the screen is alive whether or not the live player
\* comes back" (dvr-play:57).
CtrlCLeavesPicture ==
    (race \in {"none", "interrupt"} /\ (\A v \in Viewers : pc[v] = "idle")
        /\ \E s \in Sups : player[s] = "runs" /\ fpv_pid = s)
            => osd # "splash" /\ ~disp

----------------------------------------------------------------------------
(* Liveness *)

\* The hold goes in the end, interrupt or not.
HoldIsReleased == hold ~> ~hold

\* A link that stays up is on the screen again and again, whatever has
\* happened before.
LinkUpPlays ==
    <>[](status = "up" /\ ~hold) => []<>(\E s \in Sups : player[s] = "runs")

\* A link that stays down ends in a live screen with a splash on it.
LinkDownEndsInSplash ==
    <>[](status = "down" /\ ~hold /\ race = "none")
        => <>[](LiveSups = {} /\ OnScreen = {} /\ disp /\ osd = "splash")
==============================================================================
