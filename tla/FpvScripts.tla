----------------------------- MODULE FpvScripts ------------------------------
(***************************************************************************)
(* fpv-start, fpv-stop, display-up and the supervisor that fpv-start       *)
(* leaves behind, as programs any process of the ground station may run.   *)
(*                                                                         *)
(* They share no lock.  What they know of each other is in /tmp/fpv.pid,   *)
(* /tmp/fpv.url and the process table, and every command of a script is a  *)
(* step of its own, so that two scripts interleave between any two.  (Only *)
(* the test of a file and the command that it guards share a step, and so  *)
(* do the commands that clear the screen.)                                 *)
(* A process is where pc says it is; `back' is where its caller goes on.   *)
(***************************************************************************)
EXTENDS Naturals, FiniteSets

CONSTANTS
    Scripts,        \* the processes that run shell scripts
    Sups,           \* pids that supervisors can get
    Replay,         \* names the mi-player that dvr-play starts
    NoPid

ASSUME PidAssumption ==
    /\ IsFiniteSet(Sups)
    /\ Replay \notin Sups /\ NoPid \notin Sups

VARIABLES
    pc,             \* where each script is
    forked,         \* its $!
    fpv_pid,        \* /tmp/fpv.pid: a pid, or NoPid when there is no such file
    fpv_url,        \* /tmp/fpv.url names the URL of this link
    sup,            \* the supervisor with this pid
    player,         \* the mi-player it (or dvr-play) started
    disp,           \* mi-disp-init runs, and holds /dev/mi_hdmi
    osd,            \* what covers the video plane
    race            \* history: the first unlucky interleaving, or "none"

scriptVars == <<pc, forked>>
fileVars   == <<fpv_pid, fpv_url>>
procVars   == <<sup, player>>
screenVars == <<disp, osd>>
fpvVars    == <<scriptVars, fileVars, procVars, screenVars, race>>

Players == Sups \cup {Replay}

\* A supervisor will start the player (now, or after its 3s), or waits for it.
SupStates == {"none", "ready", "wait"}

\* A player is forked but not yet mi-player, runs, or is tearing MI down.
PlayerStates == {"none", "forked", "runs", "ends"}

StartLabels == {"start", "start.rm", "start.killall", "start.wait",
                "start.clear", "start.fork", "start.pid", "start.url"}
StopLabels == {"stop", "stop.rm", "stop.rmurl", "stop.killall", "stop.display",
               "stop.splash"}

Alive(p) == p # NoPid /\ sup[p] # "none"

\* pidof mi-player
PidofPlayer == \E q \in Players : player[q] \in {"runs", "ends"}

FpvInit ==
    /\ forked = [p \in Scripts |-> NoPid]
    /\ fpv_pid = NoPid /\ fpv_url = FALSE
    /\ sup = [s \in Sups |-> "none"]
    /\ player = [q \in Players |-> "none"]
    /\ disp = TRUE /\ osd = "splash"
    /\ race = "none"

Goto(p, label) == pc' = [pc EXCEPT ![p] = label]

\* kill "$(cat /tmp/fpv.pid)"; the player it waits for is not signalled.
KillSupervisor ==
    sup' = IF fpv_pid = NoPid THEN sup ELSE [sup EXCEPT ![fpv_pid] = "none"]

\* killall mi-player: SIGTERM by name, which a child that has not yet called
\* exec does not have.
Terminated == [q \in Players |->
                  IF player[q] = "runs" THEN "ends" ELSE player[q]]

Missed == \E q \in Players : player[q] = "forked"

First(r) == IF race = "none" THEN r ELSE race

----------------------------------------------------------------------------
(* fpv-start *)

\* Already streaming this URL: nothing to do.
StartReturns(p, back) ==
    /\ pc[p] = "start"
    /\ Alive(fpv_pid) /\ fpv_url
    /\ Goto(p, back)
    /\ UNCHANGED <<forked, fileVars, procVars, screenVars, race>>

\* Otherwise the old supervisor goes first ...
StartKillsSupervisor(p) ==
    /\ pc[p] = "start" /\ ~(Alive(fpv_pid) /\ fpv_url)
    /\ KillSupervisor
    /\ Goto(p, "start.rm")
    /\ UNCHANGED <<forked, fileVars, player, screenVars, race>>

StartRemovesPid(p) ==
    /\ pc[p] = "start.rm"
    /\ fpv_pid' = NoPid
    /\ Goto(p, "start.killall")
    /\ UNCHANGED <<forked, fpv_url, procVars, screenVars, race>>

\* ... and its player after it.
StartKillsPlayer(p) ==
    /\ pc[p] = "start.killall"
    /\ player' = Terminated
    /\ race' = IF Missed THEN First("missed") ELSE race
    /\ Goto(p, "start.wait")
    /\ UNCHANGED <<forked, fileVars, sup, screenVars>>

\* Wait for it to go; after 15 turns go on without.
StartSeesNoPlayer(p) ==
    /\ pc[p] = "start.wait" /\ ~PidofPlayer
    /\ Goto(p, "start.clear")
    /\ UNCHANGED <<forked, fileVars, procVars, screenVars, race>>

StartStopsWaiting(p) ==
    /\ pc[p] = "start.wait" /\ PidofPlayer
    /\ race' = First("stuck")
    /\ Goto(p, "start.clear")
    /\ UNCHANGED <<forked, fileVars, procVars, screenVars>>

\* After the sleep: off with the splash and with the holder of /dev/mi_hdmi.
StartClearsScreenMutant(p) ==               \* the OSD is left as it is
    /\ pc[p] = "start.clear"
    /\ disp' = FALSE
    /\ Goto(p, "start.fork")
    /\ UNCHANGED <<forked, osd, fileVars, procVars, race>>

StartClearsScreen(p) ==
    /\ pc[p] = "start.clear"
    /\ disp' = FALSE /\ osd' = "clear"
    /\ Goto(p, "start.fork")
    /\ UNCHANGED <<forked, fileVars, procVars, race>>

\* Pids come back late enough that no file and no child still has them.
FreePids == {s \in Sups : sup[s] = "none" /\ player[s] = "none" /\ s # fpv_pid}

\* ( while :; do ... done ) &
StartForks(p) ==
    /\ pc[p] = "start.fork"
    /\ FreePids # {}
    /\ LET s == CHOOSE s \in FreePids : TRUE
       IN  /\ sup' = [sup EXCEPT ![s] = "ready"]
           /\ forked' = [forked EXCEPT ![p] = s]
    /\ Goto(p, "start.pid")
    /\ UNCHANGED <<fileVars, player, screenVars, race>>

StartWritesPid(p) ==
    /\ pc[p] = "start.pid"
    /\ fpv_pid' = forked[p]
    /\ forked' = [forked EXCEPT ![p] = NoPid]
    /\ Goto(p, "start.url")
    /\ UNCHANGED <<fpv_url, procVars, screenVars, race>>

StartWritesUrl(p, back) ==
    /\ pc[p] = "start.url"
    /\ fpv_url' = TRUE
    /\ Goto(p, back)
    /\ UNCHANGED <<forked, fpv_pid, procVars, screenVars, race>>

FpvStart(p, back) ==
    \/ StartReturns(p, back) \/ StartKillsSupervisor(p) \/ StartRemovesPid(p)
    \/ StartKillsPlayer(p) \/ StartSeesNoPlayer(p) \/ StartStopsWaiting(p)
    \/ StartClearsScreen(p) \/ StartForks(p) \/ StartWritesPid(p)
    \/ StartWritesUrl(p, back)

----------------------------------------------------------------------------
(* fpv-stop *)

StopKillsSupervisorMutant(p) ==             \* the order of the two swapped
    /\ pc[p] = "stop"
    /\ player' = Terminated
    /\ Goto(p, "stop.rm")
    /\ UNCHANGED <<forked, fileVars, sup, screenVars, race>>

StopKillsSupervisor(p) ==
    /\ pc[p] = "stop"
    /\ KillSupervisor
    /\ Goto(p, "stop.rm")
    /\ UNCHANGED <<forked, fileVars, player, screenVars, race>>

StopRemovesPid(p) ==
    /\ pc[p] = "stop.rm"
    /\ fpv_pid' = NoPid
    /\ Goto(p, "stop.rmurl")
    /\ UNCHANGED <<forked, fpv_url, procVars, screenVars, race>>

StopRemovesUrl(p) ==
    /\ pc[p] = "stop.rmurl"
    /\ fpv_url' = FALSE
    /\ Goto(p, "stop.killall")
    /\ UNCHANGED <<forked, fpv_pid, procVars, screenVars, race>>

StopKillsPlayer(p) ==
    /\ pc[p] = "stop.killall"
    /\ player' = Terminated
    /\ race' = IF Missed THEN First("missed") ELSE race
    /\ Goto(p, "stop.display")
    /\ UNCHANGED <<forked, fileVars, sup, screenVars>>

\* display-up, unless the caller is about to start a player itself ...
StopRestoresDisplay(p, keepDown) ==
    /\ pc[p] = "stop.display"
    /\ disp' = (disp \/ ~keepDown)
    /\ Goto(p, "stop.splash")
    /\ UNCHANGED <<forked, osd, fileVars, procVars, race>>

\* ... and the splash.
StopShowsSplash(p, back) ==
    /\ pc[p] = "stop.splash"
    /\ osd' = "splash"
    /\ Goto(p, back)
    /\ UNCHANGED <<forked, disp, fileVars, procVars, race>>

FpvStop(p, keepDown, back) ==
    \/ StopKillsSupervisor(p) \/ StopRemovesPid(p) \/ StopRemovesUrl(p)
    \/ StopKillsPlayer(p) \/ StopRestoresDisplay(p, keepDown)
    \/ StopShowsSplash(p, back)

----------------------------------------------------------------------------
(* The supervisor's loop, and the players *)

SupStartsPlayer(s) ==
    /\ sup[s] = "ready"
    /\ sup' = [sup EXCEPT ![s] = "wait"]
    /\ player' = [player EXCEPT ![s] = "forked"]
    /\ UNCHANGED <<scriptVars, fileVars, screenVars, race>>

SupSeesExit(s) ==
    /\ sup[s] = "wait" /\ player[s] = "none"
    /\ sup' = [sup EXCEPT ![s] = "ready"]
    /\ UNCHANGED <<scriptVars, fileVars, player, screenVars, race>>

Supervisor(s) == SupStartsPlayer(s) \/ SupSeesExit(s)

PlayerExecs(q) ==
    /\ player[q] = "forked"
    /\ player' = [player EXCEPT ![q] = "runs"]
    /\ UNCHANGED <<scriptVars, fileVars, sup, screenVars, race>>

\* The player has torn its pipeline down.
PlayerExits(q) ==
    /\ player[q] = "ends"
    /\ player' = [player EXCEPT ![q] = "none"]
    /\ UNCHANGED <<scriptVars, fileVars, sup, screenVars, race>>

\* It ends of itself: a lost RTSP session, a failed MI call, the end of a file.
PlayerStops(q) ==
    /\ player[q] = "runs"
    /\ player' = [player EXCEPT ![q] = "ends"]
    /\ UNCHANGED <<scriptVars, fileVars, sup, screenVars, race>>

----------------------------------------------------------------------------
FpvTypeOK ==
    /\ forked \in [Scripts -> Sups \cup {NoPid}]
    /\ fpv_pid \in Sups \cup {NoPid}
    /\ fpv_url \in BOOLEAN
    /\ sup \in [Sups -> SupStates]
    /\ player \in [Players -> PlayerStates]
    /\ disp \in BOOLEAN
    /\ osd \in {"splash", "clear"}
    /\ race \in {"none", "missed", "stuck", "overlap", "intruded", "interrupt"}
==============================================================================
