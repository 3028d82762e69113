----------------------------- MODULE StationProofs -----------------------------
(***************************************************************************)
(* What holds of the station's scripts, for any number of pids, clients of *)
(* DHCP and turns, of one link loop and one viewer (OneOfEach).            *)
(*                                                                         *)
(* The scripts share no lock, so the argument is that of a lock nobody     *)
(* holds: while no history says otherwise (race = "none"), one script is   *)
(* between its first command and its last (Single), and what it has done   *)
(* so far is told by its label: no supervisor after the kill (NoSup), no   *)
(* pid file between rm and echo (NoPidFile), no player after the wait      *)
(* (NoPlayer), a free screen before the fork (Cleared).  ViewerInv says    *)
(* why the loop cannot come in: /tmp/fpv.hold.                             *)
(***************************************************************************)
EXTENDS Station, FiniteSetTheorems, TLAPS

AllLabels == Labels \cup {"action.dhcp", "action.wait"}

LEMMA Vocabulary == StartLabels \cup StopLabels \subseteq Labels /\ Labels \subseteq AllLabels
BY DEF AllLabels, Labels

LEMMA StartTypes ==
    ASSUME FpvTypeOK, pc \in [Scripts -> AllLabels],
           NEW p \in Scripts, NEW back \in AllLabels, FpvStart(p, back)
    PROVE  FpvTypeOK' /\ pc' \in [Scripts -> AllLabels]
<1>. USE Vocabulary
     DEF FpvTypeOK, Goto, First, SupStates, PlayerStates, StartLabels, fileVars, procVars, screenVars
<1>1. CASE StartReturns(p, back)
  BY <1>1 DEF StartReturns
<1>2. CASE StartKillsSupervisor(p)
  BY <1>2 DEF StartKillsSupervisor, KillSupervisor
<1>3. CASE StartKillsPlayer(p)
  BY <1>3 DEF StartKillsPlayer, Terminated
<1>4. CASE StartForks(p)
  BY <1>4 DEF StartForks, FreePids
<1>. QED
  BY <1>1, <1>2, <1>3, <1>4 DEF FpvStart, StartRemovesPid, StartSeesNoPlayer,
     StartStopsWaiting, StartClearsScreen, StartWritesPid, StartWritesUrl

LEMMA StopTypes ==
    ASSUME FpvTypeOK, pc \in [Scripts -> AllLabels],
           NEW p \in Scripts, NEW keepDown \in BOOLEAN, NEW back \in AllLabels,
           FpvStop(p, keepDown, back)
    PROVE  FpvTypeOK' /\ pc' \in [Scripts -> AllLabels]
<1>. USE Vocabulary
     DEF FpvTypeOK, Goto, First, SupStates, PlayerStates, StopLabels, fileVars, procVars, screenVars
<1>1. CASE StopKillsSupervisor(p)
  BY <1>1 DEF StopKillsSupervisor, KillSupervisor
<1>2. CASE StopKillsPlayer(p)
  BY <1>2 DEF StopKillsPlayer, Terminated
<1>. QED
  BY <1>1, <1>2 DEF FpvStop, StopRemovesPid, StopRemovesUrl, StopRestoresDisplay, StopShowsSplash

LEMMA ProcessTypes ==
    ASSUME FpvTypeOK, ProcessStep
    PROVE  FpvTypeOK' /\ UNCHANGED pc
BY DEF FpvTypeOK, SupStates, PlayerStates, Players, scriptVars, fileVars, screenVars, ProcessStep,
   Supervisor, SupStartsPlayer, SupSeesExit, PlayerExecs, PlayerExits, PlayerStops

LEMMA LoopTypes ==
    ASSUME StationTypeOK, NEW l \in Loops, Loop(l)
    PROVE  FpvTypeOK' /\ GroundTypeOK' /\ pc' \in [Scripts -> AllLabels]
<1>. USE GroundAssumption, Vocabulary
     DEF StationTypeOK, GroundTypeOK, AllLabels, groundVars
<1>1. CASE FpvStart(l, "loop.sleep") /\ UNCHANGED groundVars
  BY <1>1, StartTypes, "loop.sleep" \in Labels DEF Labels
<1>2. CASE FpvStop(l, FALSE, "loop.sleep") /\ UNCHANGED groundVars
  BY <1>2, StopTypes, "loop.sleep" \in Labels DEF Labels
<1>3. CASE LoopHeld(l) \/ LoopNotHeld(l) \/ LoopSleeps(l)
  BY <1>3 DEF LoopHeld, LoopNotHeld, LoopSleeps, Goto, FpvTypeOK, fileVars, procVars, screenVars, Labels
<1>4. CASE LoopSeesLink(l) \/ LoopWaits(l)
  BY <1>4 DEF LoopSeesLink, LoopWaits, Downs, Goto, FpvTypeOK, fileVars, procVars, screenVars, Labels, StartLabels
<1>5. CASE LoopStops(l)
  BY <1>5 DEF LoopStops, Downs, Goto, FpvTypeOK, fileVars, procVars, screenVars, StopLabels
<1>6. CASE LoopTellsPilot(l)
  <2>1. osd' \in {"splash", "clear"}
    BY <1>6 DEF LoopTellsPilot, FpvTypeOK
  <2>. QED BY <1>6, <2>1 DEF LoopTellsPilot, Downs, Goto, FpvTypeOK, fileVars, procVars, Labels
<1>. QED BY <1>1, <1>2, <1>3, <1>4, <1>5, <1>6 DEF Loop

LEMMA ViewerTypes ==
    ASSUME StationTypeOK, NEW v \in Viewers,
           ReplayHolds(v) \/ Viewer(v) \/ ReplayInterrupted(v)
    PROVE  FpvTypeOK' /\ GroundTypeOK' /\ pc' \in [Scripts -> AllLabels]
<1>. USE GroundAssumption, Vocabulary
     DEF StationTypeOK, GroundTypeOK, AllLabels, groundVars
<1>1. CASE FpvStop(v, TRUE, "play.wait") /\ UNCHANGED groundVars
  BY <1>1, StopTypes, "play.wait" \in Labels DEF Labels
<1>2. CASE ReplayHolds(v)
  BY <1>2 DEF ReplayHolds, First, Goto, FpvTypeOK, fileVars, procVars, screenVars, StopLabels
<1>3. CASE ReplayInterrupted(v)
  <2>1. pc[v] \in Labels /\ Interrupted(v) \in Labels
    BY <1>3 DEF ReplayInterrupted, Interrupted, Labels
  <2>2. player' \in [Players -> PlayerStates]
    BY <1>3 DEF ReplayInterrupted, FpvTypeOK, PlayerStates, Players
  <2>. QED
    BY <1>3, <2>1, <2>2 DEF ReplayInterrupted, Goto, FpvTypeOK, fileVars, screenVars, Labels
<1>4. CASE ReplayStarts(v)
  BY <1>4 DEF ReplayStarts, Goto, FpvTypeOK, PlayerStates, Players, fileVars, screenVars, Labels
<1>5. CASE CleanupReleases(v)
  <2>1. resume[v] \in Labels
    OBVIOUS
  <2>. QED BY <1>5, <2>1, "idle" \in Labels
     DEF CleanupReleases, Release, Goto, FpvTypeOK, fileVars, procVars, screenVars, Labels
<1>6. CASE ReplaySeesNoPlayer(v) \/ ReplayStopsWaiting(v)
  BY <1>6 DEF ReplaySeesNoPlayer, ReplayStopsWaiting, First, Goto, FpvTypeOK, fileVars,
     procVars, screenVars, Labels
<1>8. CASE ReplayClearsScreen(v)
  BY <1>8 DEF ReplayClearsScreen, Goto, FpvTypeOK, fileVars, procVars, Labels
<1>9. CASE ReplayEnds(v) \/ ReplayTrapped(v)
  BY <1>9 DEF ReplayEnds, ReplayTrapped, Goto, FpvTypeOK, fileVars, procVars, screenVars, Labels
<1>7. CASE CleanupSeesNoPlayer(v) \/ CleanupStopsWaiting(v)
  BY <1>7 DEF CleanupSeesNoPlayer, CleanupStopsWaiting, First, Goto, FpvTypeOK, fileVars,
     procVars, screenVars, Labels
<1>10. CASE CleanupRestoresDisplay(v)
  BY <1>10 DEF CleanupRestoresDisplay, Goto, FpvTypeOK, fileVars, procVars, screenVars, Labels
<1>11. CASE CleanupShowsSplash(v)
  BY <1>11 DEF CleanupShowsSplash, Goto, FpvTypeOK, fileVars, procVars, screenVars, Labels
<1>. QED
  BY <1>1, <1>2, <1>3, <1>4, <1>5, <1>6, <1>7, <1>8, <1>9, <1>10, <1>11 DEF Viewer

LEMMA ApfpvTypes ==
    ASSUME StationTypeOK, Apfpv
    PROVE  FpvTypeOK' /\ ApfpvTypeOK' /\ pc' \in [Scripts -> AllLabels]
           /\ pending' \in 0 .. MaxPending
<1>. USE ApfpvAssumption, StationAssumption, Vocabulary
     DEF StationTypeOK, ApfpvTypeOK, AllLabels
<1>1. CASE EventBegins /\ Crosses(Action)
  BY <1>1 DEF EventBegins, Crosses, KillClient, First, Goto, FpvTypeOK, fileVars, procVars,
     screenVars, StopLabels
<1>2. CASE StartsClient /\ Crosses(Action)
  <2>. DEFINE free == {d \in Clients : client[d] = "none"}
              next == CHOOSE d \in free : TRUE
  <2>1. next \in Clients
    BY <1>2 DEF StartsClient
  <2>. HIDE DEF next
  <2>2. /\ client' = [client EXCEPT ![next] = "asks"] /\ udhcpc_pid' = next
        /\ pc' = [pc EXCEPT ![Action] = "action.wait", ![next] = "stop"]
        /\ UNCHANGED <<reported, pending, forked, fileVars, procVars, screenVars>>
    BY <1>2 DEF StartsClient, next
  <2>. QED
    BY <1>2, <2>1, <2>2 DEF Crosses, First, FpvTypeOK, fileVars, procVars, screenVars, StopLabels
<1>3. CASE EventEnds
  BY <1>3 DEF EventEnds, apfpvVars, Goto, FpvTypeOK, fileVars, procVars, screenVars, Labels
<1>4. ASSUME NEW d \in Clients, (Lease(d) \/ LeaseLost(d)) /\ Crosses(d)
      PROVE  FpvTypeOK' /\ ApfpvTypeOK' /\ pc' \in [Scripts -> AllLabels]
             /\ pending' \in 0 .. MaxPending
  BY <1>4 DEF Lease, LeaseLost, Crosses, First, Goto, FpvTypeOK, fileVars, procVars,
     screenVars, StartLabels, StopLabels
<1>5. ASSUME NEW d \in Clients, ClientEnds(d)
      PROVE  FpvTypeOK' /\ ApfpvTypeOK' /\ pc' \in [Scripts -> AllLabels]
             /\ pending' \in 0 .. MaxPending
  BY <1>5 DEF ClientEnds, FpvTypeOK, fpvVars, scriptVars, fileVars, procVars, screenVars
<1>6. ASSUME NEW p \in Clients \cup {Action}, Handler(p), UNCHANGED apfpvVars
      PROVE  FpvTypeOK' /\ ApfpvTypeOK' /\ pc' \in [Scripts -> AllLabels]
             /\ pending' \in 0 .. MaxPending
  BY <1>6, StartTypes, StopTypes, "idle" \in Labels, FALSE \in BOOLEAN
     DEF Handler, apfpvVars, Labels
<1>. QED BY <1>1, <1>2, <1>3, <1>4, <1>5, <1>6 DEF Apfpv

LEMMA TypesStep == StationTypeOK /\ [StationNext]_stationVars => StationTypeOK'
<1>. SUFFICES ASSUME StationTypeOK, [StationNext]_stationVars
              PROVE  StationTypeOK'
  OBVIOUS
<1>1. CASE Association
  BY <1>1, StationAssumption DEF Association, StationTypeOK, FpvTypeOK, GroundTypeOK, ApfpvTypeOK,
     fpvVars, scriptVars, fileVars, procVars, screenVars
<1>2. CASE Wfb /\ UNCHANGED bounds
  <2>1. CASE Radio
    BY <1>2, <2>1 DEF Wfb, Radio, StationTypeOK, FpvTypeOK, GroundTypeOK, ApfpvTypeOK, bounds,
       fpvVars, scriptVars, fileVars, procVars, screenVars, apfpvVars
  <2>2. CASE \E l \in Loops : Loop(l)
    BY <1>2, <2>2, LoopTypes DEF Wfb, StationTypeOK, ApfpvTypeOK, AllLabels, bounds, apfpvVars
  <2>. QED BY <1>2, <2>1, <2>2 DEF Wfb
<1>3. CASE Apfpv /\ UNCHANGED bounds
  BY <1>3, ApfpvTypes DEF Apfpv, StationTypeOK, GroundTypeOK, AllLabels, bounds, groundVars
<1>4. CASE Either /\ UNCHANGED bounds
  <2>1. CASE \E v \in Viewers : ReplayHolds(v) \/ Viewer(v) \/ ReplayInterrupted(v)
    BY <1>4, <2>1, ViewerTypes DEF Either, StationTypeOK, ApfpvTypeOK, AllLabels, bounds, apfpvVars
  <2>2. CASE ProcessStep /\ UNCHANGED groundVars
    BY <1>4, <2>2, ProcessTypes
       DEF Either, StationTypeOK, GroundTypeOK, ApfpvTypeOK, bounds, groundVars, apfpvVars
  <2>. QED BY <1>4, <2>1, <2>2 DEF Either
<1>5. CASE UNCHANGED stationVars
  BY <1>5 DEF stationVars, vars, fpvVars, scriptVars, fileVars, procVars, screenVars, groundVars,
     apfpvVars, StationTypeOK, FpvTypeOK, GroundTypeOK, ApfpvTypeOK
<1>. QED BY <1>1, <1>2, <1>3, <1>4, <1>5 DEF StationNext

----------------------------------------------------------------------------
(* The invariant *)

PlayLabels == {"play.wait", "play.clear", "play.start", "play.runs", "play.gone",
               "clean.wait", "clean.display", "clean.splash", "clean.hold"}
Active(p) == Busy(p) \/ pc[p] \in PlayLabels

NoSup     == {"start.rm", "start.killall", "start.wait", "start.clear", "start.fork"}
             \cup (StopLabels \ {"stop"}) \cup PlayLabels
NoPidFile == {"start.killall", "start.wait", "start.clear", "start.fork", "start.pid"}
Killed    == {"start.wait", "stop.display", "stop.splash", "play.wait"}
NoPlayer  == {"start.clear", "start.fork", "play.clear", "play.start",
              "clean.wait", "clean.display", "clean.splash", "clean.hold"}
Cleared   == {"start.fork", "start.pid", "play.start", "play.runs"}

\* One script at a time; what it has done by its label; one player, that of the
\* live supervisor or of the replay; and the screen is the player's.
Single == \A p, q \in Scripts : Active(p) /\ Active(q) => p = q
SupInv ==
    /\ \A p \in Scripts : pc[p] \in NoSup => \A s \in Sups : sup[s] = "none"
    /\ \A p \in Scripts : pc[p] \in NoPidFile => fpv_pid = NoPid
    /\ \A p \in Scripts : pc[p] = "start.pid" => forked[p] \in Sups
    /\ \A s \in Sups : sup[s] # "none" =>
          fpv_pid = s \/ \E p \in Scripts : pc[p] = "start.pid" /\ forked[p] = s
PlayerInv ==
    /\ \A q, r \in Players : player[q] # "none" /\ player[r] # "none" => q = r
    /\ \A s \in Sups, q \in Players : sup[s] # "none" /\ player[q] # "none" => q = s
    /\ \A p \in Scripts : pc[p] \in Killed => \A q \in Players : player[q] \in {"none", "ends"}
    /\ \A p \in Scripts : pc[p] \in NoPlayer => \A q \in Players : player[q] = "none"
    /\ \A p \in Scripts : pc[p] = "play.runs" => \A s \in Sups : player[s] = "none"
    /\ player[Replay] # "none" => \E p \in Scripts : pc[p] = "play.runs"
ScreenInv ==
    ((\E s \in Sups : sup[s] # "none") \/ \E p \in Scripts : pc[p] \in Cleared)
        => osd = "clear" /\ ~disp
Core == Single /\ SupInv /\ PlayerInv /\ ScreenInv

LEMMA StartKeepsCore ==
    ASSUME FpvTypeOK, pc \in [Scripts -> AllLabels], Core, race' = "none",
           NEW p \in Scripts, NEW back \in {"idle", "loop.sleep"}, FpvStart(p, back)
    PROVE  Core'
<1>. USE PidAssumption DEF Core, FpvTypeOK, Goto, fileVars, procVars, screenVars
<1>1. Single'
  BY DEF Single, Active, Busy, FpvStart, StartReturns, StartKillsSupervisor, StartRemovesPid,
     StartKillsPlayer, StartSeesNoPlayer, StartStopsWaiting, StartClearsScreen, StartForks,
     StartWritesPid, StartWritesUrl, StartLabels, StopLabels, PlayLabels
<1>2. SupInv'
  <2>1. CASE StartKillsSupervisor(p)
    BY <2>1 DEF StartKillsSupervisor, KillSupervisor, Single, SupInv, NoSup, NoPidFile, StopLabels, PlayLabels, Active, Busy, StartLabels
  <2>2. CASE StartForks(p)
    BY <2>2 DEF StartForks, FreePids, Single, SupInv, NoSup, NoPidFile, StopLabels, PlayLabels, Active, Busy, StartLabels
  <2>3. CASE StartWritesPid(p)
    BY <2>3 DEF StartWritesPid, Single, SupInv, NoSup, NoPidFile, StopLabels, PlayLabels, Active, Busy, StartLabels
  <2>4. CASE StartRemovesPid(p)
    BY <2>4 DEF StartRemovesPid, Single, SupInv, NoSup, NoPidFile, StopLabels, PlayLabels, Active, Busy, StartLabels
  <2>. QED
    BY <2>1, <2>2, <2>3, <2>4 DEF SupInv, FpvStart, StartReturns, 
     StartKillsPlayer, StartSeesNoPlayer, StartStopsWaiting, StartClearsScreen, 
     StartWritesUrl, NoSup, NoPidFile, StopLabels, PlayLabels
<1>3. PlayerInv'
  <2>. USE DEF PlayerInv, Players, Killed, NoPlayer
  <2>1. CASE StartKillsSupervisor(p) \/ StartRemovesPid(p) \/ StartReturns(p, back)
    BY <2>1 DEF StartKillsSupervisor, KillSupervisor, StartRemovesPid, StartReturns
  <2>2. CASE StartKillsPlayer(p)
    BY <2>2 DEF StartKillsPlayer, Terminated, Missed, First, SupInv, NoSup, Single, PlayerStates, Active, Busy, StartLabels, StopLabels, PlayLabels
  <2>3. CASE StartSeesNoPlayer(p)
    BY <2>3 DEF StartSeesNoPlayer, PidofPlayer
  <2>4. CASE StartForks(p)
    BY <2>4 DEF StartForks, FreePids
  <2>5. CASE StartStopsWaiting(p)
    BY <2>5 DEF StartStopsWaiting, First
  <2>6. CASE StartClearsScreen(p) \/ StartWritesPid(p) \/ StartWritesUrl(p, back)
    BY <2>6 DEF StartClearsScreen, StartWritesPid, StartWritesUrl
  <2>. QED BY <2>1, <2>2, <2>3, <2>4, <2>5, <2>6 DEF FpvStart
<1>4. ScreenInv'
  <2>. USE DEF ScreenInv, Cleared
  <2>1. CASE StartKillsSupervisor(p)
    BY <2>1 DEF StartKillsSupervisor, KillSupervisor
  <2>2. CASE StartForks(p)
    BY <2>2 DEF StartForks
  <2>3. CASE StartSeesNoPlayer(p) \/ StartStopsWaiting(p) \/ StartClearsScreen(p)
    BY <2>3 DEF StartSeesNoPlayer, StartStopsWaiting, StartClearsScreen
  <2>4. CASE StartReturns(p, back) \/ StartRemovesPid(p) \/ StartKillsPlayer(p)
             \/ StartWritesPid(p) \/ StartWritesUrl(p, back)
    BY <2>4 DEF StartReturns, StartRemovesPid, StartKillsPlayer, StartWritesPid, StartWritesUrl
  <2>. QED BY <2>1, <2>2, <2>3, <2>4 DEF FpvStart
<1>. QED BY <1>1, <1>2, <1>3, <1>4

LEMMA StopKeepsCore ==
    ASSUME FpvTypeOK, pc \in [Scripts -> AllLabels], Core, race' = "none",
           NEW p \in Scripts, NEW keepDown \in BOOLEAN,
           NEW back \in {"idle", "loop.sleep", "play.wait"}, FpvStop(p, keepDown, back)
    PROVE  Core'
<1>. USE PidAssumption DEF Core, FpvTypeOK, Goto, fileVars, procVars, screenVars
<1>1. Single'
  BY DEF Single, Active, Busy, FpvStop, StopKillsSupervisor, StopRemovesPid, StopRemovesUrl,
     StopKillsPlayer, StopRestoresDisplay, StopShowsSplash, StartLabels, StopLabels, PlayLabels
<1>2. SupInv'
  <2>. USE DEF Single, SupInv, NoSup, NoPidFile, StartLabels, StopLabels, PlayLabels, Active, Busy
  <2>1. CASE StopKillsSupervisor(p)
    BY <2>1 DEF StopKillsSupervisor, KillSupervisor
  <2>2. CASE StopRemovesPid(p)
    BY <2>2 DEF StopRemovesPid
  <2>3. CASE StopRemovesUrl(p) \/ StopKillsPlayer(p) \/ StopRestoresDisplay(p, keepDown)
             \/ StopShowsSplash(p, back)
    BY <2>3 DEF StopRemovesUrl, StopKillsPlayer, StopRestoresDisplay, StopShowsSplash
  <2>. QED BY <2>1, <2>2, <2>3 DEF FpvStop
<1>3. PlayerInv'
  <2>. USE DEF PlayerInv, Players, Killed, NoPlayer
  <2>1. CASE StopKillsSupervisor(p)
    BY <2>1 DEF StopKillsSupervisor, KillSupervisor
  <2>2. CASE StopKillsPlayer(p)
    BY <2>2 DEF StopKillsPlayer, Terminated, Missed, First, PlayerStates
  <2>3. CASE StopRemovesPid(p) \/ StopRemovesUrl(p) \/ StopRestoresDisplay(p, keepDown)
    BY <2>3 DEF StopRemovesPid, StopRemovesUrl, StopRestoresDisplay
  <2>4. CASE StopShowsSplash(p, back)
    BY <2>4 DEF StopShowsSplash
  <2>. QED BY <2>1, <2>2, <2>3, <2>4 DEF FpvStop
<1>4. ScreenInv'
  <2>1. CASE StopRestoresDisplay(p, keepDown) \/ StopShowsSplash(p, back)
    BY <2>1 DEF StopRestoresDisplay, StopShowsSplash, SupInv, NoSup, Single, ScreenInv, Cleared, Active, Busy,
     StartLabels, StopLabels, PlayLabels
  <2>2. CASE StopKillsSupervisor(p)
    BY <2>2 DEF StopKillsSupervisor, KillSupervisor, ScreenInv, Cleared
  <2>3. CASE StopRemovesPid(p) \/ StopRemovesUrl(p) \/ StopKillsPlayer(p)
    BY <2>3 DEF StopRemovesPid, StopRemovesUrl, StopKillsPlayer, ScreenInv, Cleared
  <2>. QED BY <2>1, <2>2, <2>3 DEF FpvStop
<1>. QED BY <1>1, <1>2, <1>3, <1>4

LEMMA OneAlive ==
    ASSUME Core, NEW r \in Sups, NEW s \in Sups, sup[r] # "none", sup[s] # "none"
    PROVE  r = s
<1>1. \A p \in Scripts : pc[p] = "start.pid" => Active(p) /\ fpv_pid = NoPid
  BY DEF Core, SupInv, NoPidFile, Active, Busy, StartLabels
<1>. QED BY <1>1, PidAssumption DEF Core, Single, SupInv

LEMMA ProcessKeepsCore ==
    ASSUME FpvTypeOK, pc \in [Scripts -> AllLabels], Core, ProcessStep
    PROVE  Core'
<1>. UNCHANGED scriptVars /\ UNCHANGED fileVars /\ UNCHANGED screenVars
  BY DEF ProcessStep, Supervisor, SupStartsPlayer, SupSeesExit, PlayerExecs, PlayerExits, PlayerStops
<1>1. Single'
  BY DEF Core, Single, Active, Busy, scriptVars
<1>2. \A s \in Sups : sup'[s] # "none" => sup[s] # "none"
  BY DEF FpvTypeOK, ProcessStep, Supervisor, SupStartsPlayer, SupSeesExit, PlayerExecs, PlayerExits, PlayerStops
<1>3. SupInv'
  BY <1>2 DEF Core, SupInv, scriptVars, fileVars
<1>4. PlayerInv'
  <2>1. ASSUME NEW s \in Sups, SupStartsPlayer(s) PROVE PlayerInv'
    <3>1. sup[s] # "none"
      BY <2>1 DEF SupStartsPlayer
    <3>2. \A p \in Scripts : pc[p] \notin Killed \cup NoPlayer \cup {"play.runs"}
      BY <3>1 DEF Core, SupInv, NoSup, Killed, NoPlayer, StopLabels, PlayLabels
    <3>3. \A q \in Players : player[q] # "none" => q = s
      BY <3>1 DEF Core, PlayerInv
    <3>4. \A r \in Sups : sup[r] # "none" => \A q \in Players : player[q] # "none" => q = r
      BY DEF Core, PlayerInv
    <3>5. player[Replay] = "none"
      BY <3>2 DEF Core, PlayerInv
    <3>6. \A q \in Players : q # s => player'[q] = player[q]
      BY <2>1 DEF SupStartsPlayer, FpvTypeOK
    <3>7. s # Replay /\ s \in Players /\ Replay \in Players
      BY PidAssumption DEF Players
    <3>8. \A r \in Sups : sup'[r] # "none" => r = s
      BY <1>2, <3>1, OneAlive
    <3>. QED
      BY <3>2, <3>3, <3>5, <3>6, <3>7, <3>8 DEF PlayerInv, scriptVars
  <2>2. ASSUME NEW s \in Sups, SupSeesExit(s) PROVE PlayerInv'
    BY <2>2, <1>2 DEF Core, PlayerInv, SupSeesExit, scriptVars
  <2>3. ASSUME NEW q \in Players, PlayerExecs(q) \/ PlayerExits(q) \/ PlayerStops(q) PROVE PlayerInv'
    <3>1. \A r \in Players : player'[r] # "none" => player[r] # "none"
      BY <2>3 DEF PlayerExecs, PlayerExits, PlayerStops, FpvTypeOK
    <3>2. \A r \in Players : player[r] = "ends" => player'[r] \in {"none", "ends"}
      BY <2>3 DEF PlayerExecs, PlayerExits, PlayerStops, FpvTypeOK
    <3>3. Replay \in Players /\ Sups \subseteq Players
      BY DEF Players
    <3>. QED
      BY <3>1, <3>2, <3>3, <1>2 DEF Core, PlayerInv, scriptVars
  <2>. QED BY <2>1, <2>2, <2>3 DEF ProcessStep, Supervisor
<1>5. ScreenInv'
  BY <1>2 DEF Core, ScreenInv, scriptVars, screenVars
<1>. QED BY <1>1, <1>3, <1>4, <1>5 DEF Core

----------------------------------------------------------------------------
\* Who can be where, race or none.
Places ==
    /\ \A p \in Scripts : pc[p] \in PlayLabels => p \in Viewers
    /\ mode = "wfb" => \A p \in Clients \cup {Action} : pc[p] = "idle"
    /\ \A d \in Clients : client[d] = "none" => pc[d] = "idle"

LEMMA StartMoves ==
    ASSUME pc \in [Scripts -> AllLabels], NEW p \in Scripts, NEW back, FpvStart(p, back)
    PROVE  /\ pc[p] \in StartLabels /\ pc'[p] \in StartLabels \cup {back}
           /\ \A q \in Scripts : q # p => pc'[q] = pc[q]
BY DEF FpvStart, StartReturns, StartKillsSupervisor, StartRemovesPid, StartKillsPlayer,
   StartSeesNoPlayer, StartStopsWaiting, StartClearsScreen, StartForks, StartWritesPid,
   StartWritesUrl, StartLabels, Goto

LEMMA StopMoves ==
    ASSUME pc \in [Scripts -> AllLabels], NEW p \in Scripts, NEW keepDown, NEW back,
           FpvStop(p, keepDown, back)
    PROVE  /\ pc[p] \in StopLabels /\ pc'[p] \in StopLabels \cup {back}
           /\ \A q \in Scripts : q # p => pc'[q] = pc[q]
BY DEF FpvStop, StopKillsSupervisor, StopRemovesPid, StopRemovesUrl, StopKillsPlayer,
   StopRestoresDisplay, StopShowsSplash, StopLabels, Goto

LoopLabels == {"loop.top", "loop.state", "loop.sleep"} \cup StartLabels \cup StopLabels

LEMMA LoopMoves ==
    ASSUME pc \in [Scripts -> AllLabels], NEW l \in Loops, Loop(l)
    PROVE  /\ pc'[l] \in LoopLabels
           /\ \A q \in Scripts : q # l => pc'[q] = pc[q]
<1>. l \in Scripts
  BY GroundAssumption
<1>1. CASE FpvStart(l, "loop.sleep")
  BY <1>1, StartMoves DEF LoopLabels
<1>2. CASE FpvStop(l, FALSE, "loop.sleep")
  BY <1>2, StopMoves DEF LoopLabels
<1>. QED
  BY <1>1, <1>2 DEF Loop, LoopHeld, LoopNotHeld, LoopSeesLink, LoopWaits, LoopStops,
     LoopTellsPilot, LoopSleeps, LoopLabels, StartLabels, StopLabels, Goto

LEMMA ViewerMoves ==
    ASSUME pc \in [Scripts -> AllLabels], NEW v \in Viewers,
           ReplayHolds(v) \/ Viewer(v) \/ ReplayInterrupted(v)
    PROVE  \A q \in Scripts : q # v => pc'[q] = pc[q]
<1>. v \in Scripts
  BY GroundAssumption
<1>1. CASE FpvStop(v, TRUE, "play.wait")
  BY <1>1, StopMoves
<1>. QED
  BY <1>1 DEF ReplayHolds, ReplayInterrupted, Viewer, ReplaySeesNoPlayer, ReplayStopsWaiting,
     ReplayClearsScreen, ReplayStarts, ReplayEnds, ReplayTrapped, CleanupSeesNoPlayer,
     CleanupStopsWaiting, CleanupRestoresDisplay, CleanupShowsSplash, CleanupReleases, Release, Goto

LEMMA ApfpvPlaces ==
    ASSUME StationTypeOK, Places, Apfpv
    PROVE  /\ \A p \in Scripts : pc'[p] \in PlayLabels => p \in Viewers
           /\ \A d \in Clients : client'[d] = "none" => pc'[d] = "idle"
<1>. DEFINE Here == /\ \A p \in Scripts : pc'[p] \in PlayLabels => p \in Viewers
                    /\ \A d \in Clients : client'[d] = "none" => pc'[d] = "idle"
<1>. USE ApfpvAssumption DEF StationTypeOK, ApfpvTypeOK, AllLabels
<1>1. CASE EventBegins
  BY <1>1 DEF EventBegins, KillClient, Goto, Places, PlayLabels
<1>2. CASE StartsClient
  <2>. DEFINE free == {d \in Clients : client[d] = "none"}
              next == CHOOSE d \in free : TRUE
  <2>1. next \in Clients
    BY <1>2 DEF StartsClient
  <2>. HIDE DEF next
  <2>2. /\ client' = [client EXCEPT ![next] = "asks"]
        /\ pc' = [pc EXCEPT ![Action] = "action.wait", ![next] = "stop"]
    BY <1>2 DEF StartsClient, next
  <2>. QED BY <2>1, <2>2 DEF Places, PlayLabels
<1>3. CASE EventEnds
  BY <1>3 DEF EventEnds, apfpvVars, Goto, Places, PlayLabels
<1>4. ASSUME NEW d \in Clients, Lease(d) \/ LeaseLost(d) PROVE Here
  BY <1>4 DEF Lease, LeaseLost, Goto, Places, PlayLabels
<1>5. ASSUME NEW d \in Clients, ClientEnds(d) PROVE Here
  BY <1>5 DEF ClientEnds, fpvVars, scriptVars, Places
<1>6. ASSUME NEW p \in Clients \cup {Action}, Handler(p), UNCHANGED apfpvVars PROVE Here
  <2>1. /\ pc[p] \in StartLabels \cup StopLabels
        /\ pc'[p] \in StartLabels \cup StopLabels \cup {"idle"}
        /\ \A q \in Scripts : q # p => pc'[q] = pc[q]
    BY <1>6, StartMoves, StopMoves DEF Handler
  <2>2. pc[p] # "idle" /\ pc'[p] \notin PlayLabels
    BY <2>1 DEF StartLabels, StopLabels, PlayLabels
  <2>. QED BY <1>6, <2>1, <2>2 DEF Places, apfpvVars
<1>. QED BY <1>1, <1>2, <1>3, <1>4, <1>5, <1>6 DEF Apfpv

LEMMA PlacesStep == StationTypeOK /\ Places /\ [StationNext]_stationVars => Places'
<1>. SUFFICES ASSUME StationTypeOK, Places, [StationNext]_stationVars
              PROVE  Places'
  OBVIOUS
<1>. pc \in [Scripts -> AllLabels]
  BY DEF StationTypeOK, AllLabels
<1>. USE StationAssumption
<1>1. CASE Association
  BY <1>1 DEF Association, fpvVars, scriptVars, Places
<1>2. CASE Wfb /\ UNCHANGED bounds
  <2>1. CASE Radio
    BY <1>2, <2>1 DEF Wfb, Radio, Places, fpvVars, scriptVars, apfpvVars, bounds
  <2>2. ASSUME NEW l \in Loops, Loop(l) PROVE Places'
    <3>1. pc'[l] \notin PlayLabels /\ \A q \in Scripts : q # l => pc'[q] = pc[q]
      BY <2>2, LoopMoves DEF LoopLabels, StartLabels, StopLabels, PlayLabels
    <3>2. l \notin Clients \cup {Action} /\ Clients \cup {Action} \subseteq Scripts
      OBVIOUS
    <3>. QED BY <1>2, <3>1, <3>2 DEF Wfb, Places, apfpvVars, bounds
  <2>. QED BY <1>2, <2>1, <2>2 DEF Wfb
<1>3. CASE Apfpv /\ UNCHANGED bounds
  BY <1>3, ApfpvPlaces DEF Apfpv, Places, bounds
<1>4. CASE Either /\ UNCHANGED bounds
  <2>1. ASSUME NEW v \in Viewers, ReplayHolds(v) \/ Viewer(v) \/ ReplayInterrupted(v)
        PROVE  Places'
    <3>1. \A q \in Scripts : q # v => pc'[q] = pc[q]
      BY <2>1, ViewerMoves
    <3>2. v \notin Clients \cup {Action} /\ Clients \cup {Action} \subseteq Scripts
      OBVIOUS
    <3>. QED BY <1>4, <3>1, <3>2 DEF Either, Places, apfpvVars, bounds
  <2>2. CASE ProcessStep
    BY <1>4, <2>2 DEF Either, Places, apfpvVars, bounds, ProcessStep, Supervisor, SupStartsPlayer,
       SupSeesExit, PlayerExecs, PlayerExits, PlayerStops, scriptVars
  <2>. QED BY <1>4, <2>1, <2>2 DEF Either
<1>5. CASE UNCHANGED stationVars
  BY <1>5 DEF stationVars, vars, fpvVars, scriptVars, apfpvVars, Places
<1>. QED BY <1>1, <1>2, <1>3, <1>4, <1>5 DEF StationNext

LEMMA RaceStays == [StationNext]_stationVars /\ race' = "none" => race = "none"
<1>. SUFFICES ASSUME [StationNext]_stationVars, race' = "none" PROVE race = "none"
  OBVIOUS
<1>1. ASSUME NEW p, NEW back, FpvStart(p, back) PROVE race = "none"
  BY <1>1 DEF FpvStart, StartReturns, StartKillsSupervisor, StartRemovesPid, StartKillsPlayer,
     StartSeesNoPlayer, StartStopsWaiting, StartClearsScreen, StartForks, StartWritesPid,
     StartWritesUrl, First
<1>2. ASSUME NEW p, NEW keepDown, NEW back, FpvStop(p, keepDown, back) PROVE race = "none"
  BY <1>2 DEF FpvStop, StopKillsSupervisor, StopRemovesPid, StopRemovesUrl, StopKillsPlayer,
     StopRestoresDisplay, StopShowsSplash, First
<1>3. CASE Association \/ Radio \/ ProcessStep \/ UNCHANGED stationVars
  BY <1>3 DEF Association, Radio, ProcessStep, Supervisor, SupStartsPlayer, SupSeesExit, PlayerExecs,
     PlayerExits, PlayerStops, stationVars, vars, fpvVars
<1>4. ASSUME NEW l \in Loops, Loop(l) PROVE race = "none"
  BY <1>1, <1>2, <1>4 DEF Loop, LoopHeld, LoopNotHeld, LoopSeesLink, LoopWaits, LoopStops,
     LoopTellsPilot, LoopSleeps
<1>5. ASSUME NEW v \in Viewers, ReplayHolds(v) \/ Viewer(v) \/ ReplayInterrupted(v)
      PROVE  race = "none"
  BY <1>2, <1>5 DEF ReplayHolds, ReplayInterrupted, Viewer, ReplaySeesNoPlayer, ReplayStopsWaiting,
     ReplayClearsScreen, ReplayStarts, ReplayEnds, ReplayTrapped, CleanupSeesNoPlayer,
     CleanupStopsWaiting, CleanupRestoresDisplay, CleanupShowsSplash, CleanupReleases, Release, First
<1>6. CASE Apfpv
  BY <1>1, <1>2, <1>6 DEF Apfpv, Crosses, EventEnds, ClientEnds, fpvVars, Handler, First
<1>. QED BY <1>3, <1>4, <1>5, <1>6 DEF StationNext, Wfb, Either

----------------------------------------------------------------------------
\* The hold is there for as long as a viewer does anything.
ViewerInv ==
    /\ \A v \in Viewers : Active(v) => hold
    /\ \A v \in Viewers : resume[v] = "idle" /\ pc[v] # "play.gone"
Undisturbed == Core /\ ViewerInv

Plain == AllLabels \ (NoSup \cup NoPidFile)

\* A label that says nothing of what has been done changes for another.
LEMMA PlainMove ==
    ASSUME Core, pc \in [Scripts -> AllLabels], UNCHANGED <<forked, fileVars, procVars, screenVars>>, Single',
           \A p \in Scripts : pc'[p] = pc[p] \/ (pc[p] \in Plain /\ pc'[p] \in Plain)
    PROVE  Core'
<1>1. \A p \in Scripts :
          pc'[p] = pc[p] \/
          /\ {pc[p], pc'[p]} \cap (NoSup \cup NoPidFile \cup Killed \cup NoPlayer \cup Cleared) = {}
          /\ {pc[p], pc'[p]} \cap {"play.runs", "start.pid"} = {}
  BY DEF Plain, NoSup, NoPidFile, Killed, NoPlayer, Cleared, StopLabels, PlayLabels
<1>2. SupInv'
  BY <1>1 DEF Core, SupInv, fileVars, procVars
<1>3. PlayerInv'
  BY <1>1 DEF Core, PlayerInv, fileVars, procVars
<1>4. ScreenInv'
  BY <1>1 DEF Core, ScreenInv, screenVars, procVars
<1>. QED BY <1>2, <1>3, <1>4 DEF Core

LEMMA OthersRest ==
    ASSUME StationTypeOK, Places, Undisturbed, race = "none", race' = "none",
           NEW p \in Scripts, Crosses(p)
    PROVE  ~hold /\ \A q \in Scripts : q # p => ~Active(q)
BY DEF Crosses, First, Undisturbed, ViewerInv, Places, Active

LEMMA LoopKeeps ==
    ASSUME StationTypeOK, Places, Undisturbed, race' = "none", mode = "wfb",
           NEW l \in Loops, Loop(l)
    PROVE  Undisturbed'
<1>. l \in Scripts /\ l \notin Viewers /\ Viewers \subseteq Scripts
  BY GroundAssumption
<1>. pc \in [Scripts -> AllLabels]
  BY DEF StationTypeOK, AllLabels
<1>1. \A q \in Scripts : q # l => pc'[q] = pc[q]
  BY LoopMoves
<1>2. ViewerInv'
  <2>1. UNCHANGED <<hold, resume>>
    BY DEF Loop, LoopHeld, LoopNotHeld, LoopSeesLink, LoopWaits, LoopStops, LoopTellsPilot,
       LoopSleeps, groundVars
  <2>. QED BY <1>1, <2>1 DEF Undisturbed, ViewerInv, Active, Busy
<1>3. CASE FpvStart(l, "loop.sleep")
  BY <1>2, <1>3, StartKeepsCore DEF StationTypeOK, Undisturbed
<1>4. CASE FpvStop(l, FALSE, "loop.sleep")
  BY <1>2, <1>4, StopKeepsCore DEF StationTypeOK, Undisturbed
<1>5. ASSUME Active(l), pc[l] \in Plain, pc'[l] \in Plain,
             UNCHANGED <<forked, fileVars, procVars, screenVars>>
      PROVE  Core'
  <2>1. Single'
    BY <1>1, <1>5 DEF Undisturbed, Core, Single, Active, Busy
  <2>. QED BY <1>1, <1>5, <2>1, PlainMove DEF Undisturbed
<1>6. CASE LoopHeld(l) \/ LoopSleeps(l)
  <2>1. /\ pc[l] \in Plain /\ pc'[l] \in Plain /\ ~Active(l)'
        /\ UNCHANGED <<forked, fileVars, procVars, screenVars>>
    BY <1>6 DEF LoopHeld, LoopSleeps, Goto, Plain, AllLabels, Labels, NoSup, NoPidFile, StopLabels,
       StartLabels, PlayLabels, Active, Busy
  <2>2. Single'
    BY <1>1, <2>1 DEF Undisturbed, Core, Single, Active, Busy
  <2>. QED BY <1>1, <1>2, <2>1, <2>2, PlainMove DEF Undisturbed
<1>7. CASE LoopNotHeld(l)
  <2>1. /\ pc[l] \in Plain /\ pc'[l] \in Plain /\ ~hold
        /\ UNCHANGED <<forked, fileVars, procVars, screenVars>>
    BY <1>7 DEF LoopNotHeld, Goto, Plain, AllLabels, Labels, NoSup, NoPidFile, StopLabels,
       StartLabels, PlayLabels
  <2>2. \A q \in Scripts : Active(q) => q = l
    <3>1. \A q \in Clients \cup {Action} : q \in Scripts => ~Active(q)
      BY DEF Places, Active, Busy, StartLabels, StopLabels, PlayLabels
    <3>. QED BY <2>1, <3>1, StationAssumption, OneOfEach DEF Undisturbed, ViewerInv
  <2>3. Single'
    BY <1>1, <2>2 DEF Single, Active, Busy
  <2>. QED BY <1>1, <1>2, <2>1, <2>3, PlainMove DEF Undisturbed
<1>8. CASE LoopSeesLink(l) \/ LoopWaits(l) \/ LoopStops(l)
  <2>1. /\ Active(l) /\ pc[l] \in Plain /\ pc'[l] \in Plain
        /\ UNCHANGED <<forked, fileVars, procVars, screenVars>>
    BY <1>8 DEF LoopSeesLink, LoopWaits, LoopStops, Goto, Plain, AllLabels, Labels, NoSup, NoPidFile,
       StopLabels, StartLabels, PlayLabels, Active, Busy
  <2>. QED BY <1>2, <1>5, <2>1 DEF Undisturbed
<1>9. CASE LoopTellsPilot(l)
  <2>1. /\ Active(l) /\ pc[l] \in Plain /\ pc'[l] \in Plain /\ ~Active(l)'
        /\ fpv_pid = NoPid /\ UNCHANGED <<forked, fileVars, procVars, disp>>
    BY <1>9 DEF LoopTellsPilot, Goto, Plain, AllLabels, Labels, NoSup, NoPidFile,
       StopLabels, StartLabels, PlayLabels, Active, Busy
  <2>2. \A q \in Scripts : pc[q] \notin Cleared /\ pc'[q] \notin Cleared
    <3>1. \A q \in Scripts : pc[q] \in Cleared => Active(q) /\ q # l
      BY <2>1 DEF Cleared, Active, Busy, StartLabels, PlayLabels, Plain, NoSup, NoPidFile
    <3>2. pc'[l] \notin Cleared
      BY <2>1 DEF Cleared, Plain, NoSup, NoPidFile, PlayLabels
    <3>. QED BY <1>1, <2>1, <3>1, <3>2 DEF Undisturbed, Core, Single
  <2>3. \A s \in Sups : sup[s] = "none"
    BY <2>1, <2>2, PidAssumption DEF Undisturbed, Core, SupInv, Cleared
  <2>4. ScreenInv'
    BY <2>1, <2>2, <2>3 DEF ScreenInv, procVars
  <2>5. \A q \in Scripts :
          pc'[q] = pc[q] \/
          /\ {pc[q], pc'[q]} \cap (NoSup \cup NoPidFile \cup Killed \cup NoPlayer) = {}
          /\ {pc[q], pc'[q]} \cap {"play.runs", "start.pid"} = {}
    BY <1>1, <2>1 DEF Plain, NoSup, NoPidFile, Killed, NoPlayer, StopLabels, PlayLabels
  <2>6. SupInv'
    BY <2>1, <2>5 DEF Undisturbed, Core, SupInv, fileVars, procVars
  <2>8. PlayerInv'
    BY <2>1, <2>5 DEF Undisturbed, Core, PlayerInv, fileVars, procVars
  <2>7. Single'
    BY <1>1, <2>1 DEF Undisturbed, Core, Single, Active, Busy
  <2>. QED BY <1>2, <2>4, <2>6, <2>7, <2>8 DEF Undisturbed, Core
<1>. QED BY <1>3, <1>4, <1>6, <1>7, <1>8, <1>9 DEF Loop

LEMMA ViewerKeepsCore ==
    ASSUME StationTypeOK, Places, Undisturbed, race' = "none", NEW v \in Viewers,
           pc[v] \in PlayLabels, Viewer(v)
    PROVE  Core'
<1>. v \in Scripts /\ Viewers \subseteq Scripts
  BY GroundAssumption
<1>. pc \in [Scripts -> AllLabels] /\ resume[v] = "idle" /\ pc[v] # "play.gone"
  BY DEF StationTypeOK, AllLabels, Undisturbed, ViewerInv
<1>0. ~FpvStop(v, TRUE, "play.wait")
  BY StopMoves DEF StopLabels, PlayLabels
<1>1. \A q \in Scripts : q # v => pc'[q] = pc[q] /\ ~Active(q)
  BY ViewerMoves DEF Undisturbed, Core, Single, Active
<1>2. \A q \in Scripts : q # v => pc[q] \notin NoSup \cup NoPidFile
  BY <1>1 DEF Active, Busy, NoSup, NoPidFile, StartLabels, StopLabels, PlayLabels
<1>. DEFINE Rest == \A q \in Scripts : q # v =>
                      pc'[q] \notin NoSup \cup NoPidFile \cup Killed \cup NoPlayer \cup Cleared
                                    \cup {"play.runs", "start.pid"}
<1>3. Rest
  BY <1>1, <1>2 DEF NoSup, NoPidFile, Killed, NoPlayer, Cleared, StopLabels, PlayLabels
<1>. HIDE DEF Rest
<1>4. Single'
  BY <1>1 DEF Single, Active, Busy
<1>5. \A s \in Sups : sup[s] = "none"
  BY DEF Undisturbed, Core, SupInv, NoSup
<1>6. /\ UNCHANGED <<forked, fpv_pid, sup>>
      /\ pc'[v] \in PlayLabels \cup {"idle"}
  BY <1>0 DEF Viewer, ReplaySeesNoPlayer, ReplayStopsWaiting, ReplayClearsScreen, ReplayStarts,
     ReplayEnds, ReplayTrapped, CleanupSeesNoPlayer, CleanupStopsWaiting, CleanupRestoresDisplay,
     CleanupShowsSplash, CleanupReleases, Release, Goto, fileVars, procVars, PlayLabels
<1>7. SupInv'
  BY <1>3, <1>5, <1>6 DEF SupInv, Rest, NoPidFile, PlayLabels
<1>8. CASE \/ ReplaySeesNoPlayer(v) \/ ReplayClearsScreen(v) \/ CleanupSeesNoPlayer(v)
           \/ CleanupRestoresDisplay(v) \/ CleanupShowsSplash(v) \/ CleanupReleases(v)
  <2>1. /\ UNCHANGED player /\ pc'[v] \notin Killed \cup {"play.runs"}
        /\ \A q \in Players : player[q] = "none"
    <3>1. CASE ReplaySeesNoPlayer(v)
      BY <3>1 DEF ReplaySeesNoPlayer, PidofPlayer, Goto, procVars, Killed, Undisturbed, Core, PlayerInv
    <3>2. CASE CleanupSeesNoPlayer(v)
      BY <3>2 DEF CleanupSeesNoPlayer, Goto, procVars, Killed, Undisturbed, Core, PlayerInv, NoPlayer
    <3>3. CASE ReplayClearsScreen(v) \/ CleanupRestoresDisplay(v) \/ CleanupShowsSplash(v)
      BY <3>3 DEF ReplayClearsScreen, CleanupRestoresDisplay, CleanupShowsSplash, Goto, procVars, Killed,
         Undisturbed, Core, PlayerInv, NoPlayer
    <3>4. CASE CleanupReleases(v)
      BY <3>4 DEF CleanupReleases, Release, Goto, procVars, Killed, Undisturbed, Core, PlayerInv, NoPlayer
    <3>. QED BY <1>8, <3>1, <3>2, <3>3, <3>4
  <2>2. Replay \in Players /\ Sups \subseteq Players
    BY DEF Players
  <2>3. PlayerInv'
    BY <1>3, <2>1, <2>2 DEF PlayerInv, Rest
  <2>4. ScreenInv'
    <3>1. pc'[v] \in Cleared => osd' = "clear" /\ ~disp'
      <4>1. CASE ReplaySeesNoPlayer(v) \/ CleanupSeesNoPlayer(v) \/ CleanupRestoresDisplay(v)
                 \/ CleanupShowsSplash(v) \/ CleanupReleases(v)
        BY <4>1 DEF ReplaySeesNoPlayer, CleanupSeesNoPlayer, CleanupRestoresDisplay,
           CleanupShowsSplash, CleanupReleases, Release, Goto, Cleared
      <4>2. CASE ReplayClearsScreen(v)
        BY <4>2 DEF ReplayClearsScreen
      <4>. QED BY <1>8, <4>1, <4>2
    <3>. QED BY <1>3, <1>5, <1>6, <3>1 DEF ScreenInv, Rest
  <2>. QED BY <1>4, <1>7, <2>3, <2>4 DEF Core
<1>9. CASE ReplayStarts(v)
  <2>1. /\ player' = [player EXCEPT ![Replay] = "forked"] /\ pc' = [pc EXCEPT ![v] = "play.runs"]
        /\ UNCHANGED <<osd, disp>> /\ pc[v] = "play.start"
    BY <1>9 DEF ReplayStarts, Goto, screenVars
  <2>2. \A q \in Players : player[q] = "none"
    BY <2>1 DEF Undisturbed, Core, PlayerInv, NoPlayer
  <2>3. /\ player'[Replay] = "forked" /\ \A q \in Players : q # Replay => player'[q] = "none"
        /\ Replay \in Players /\ Replay \notin Sups /\ Sups \subseteq Players
    BY <2>1, <2>2, PidAssumption DEF Players, StationTypeOK, FpvTypeOK
  <2>4. PlayerInv'
    BY <1>3, <1>5, <1>6, <2>1, <2>3 DEF PlayerInv, Rest, Killed, NoPlayer
  <2>5. ScreenInv'
    BY <2>1 DEF Undisturbed, Core, ScreenInv, Cleared
  <2>. QED BY <1>4, <1>7, <2>4, <2>5 DEF Core
<1>10. CASE ReplayEnds(v)
  <2>1. /\ pc' = [pc EXCEPT ![v] = "clean.wait"] /\ UNCHANGED <<osd, disp, player>>
        /\ pc[v] = "play.runs" /\ player[Replay] = "none"
    BY <1>10 DEF ReplayEnds, Goto, screenVars, procVars
  <2>2. \A q \in Players : player[q] = "none"
    BY <2>1 DEF Undisturbed, Core, PlayerInv, Players
  <2>3. PlayerInv'
    BY <1>3, <1>5, <1>6, <2>1, <2>2 DEF PlayerInv, Rest, Killed, Players
  <2>4. ScreenInv'
    BY <1>3, <1>5, <1>6, <2>1 DEF ScreenInv, Rest, Cleared
  <2>. QED BY <1>4, <1>7, <2>3, <2>4 DEF Core
<1>11. CASE ReplayStopsWaiting(v) \/ CleanupStopsWaiting(v) \/ ReplayTrapped(v)
  BY <1>11 DEF ReplayStopsWaiting, CleanupStopsWaiting, ReplayTrapped, First
<1>. QED BY <1>0, <1>8, <1>9, <1>10, <1>11 DEF Viewer

LEMMA ViewerKeeps ==
    ASSUME StationTypeOK, Places, Undisturbed, race' = "none", race = "none",
           NEW v \in Viewers, ReplayHolds(v) \/ Viewer(v) \/ ReplayInterrupted(v)
    PROVE  Undisturbed'
<1>. v \in Scripts /\ Viewers \subseteq Scripts /\ \A w \in Viewers : w = v
  BY GroundAssumption, OneOfEach
<1>. pc \in [Scripts -> AllLabels] /\ resume \in [Viewers -> Labels]
  BY DEF StationTypeOK, GroundTypeOK, AllLabels
<1>1. \A q \in Scripts : q # v => pc'[q] = pc[q]
  BY ViewerMoves
<1>2. CASE ReplayHolds(v)
  <2>1. /\ pc' = [pc EXCEPT ![v] = "stop"] /\ pc[v] = "idle" /\ hold' = TRUE
        /\ UNCHANGED <<forked, fileVars, procVars, screenVars, resume>>
        /\ \A q \in Scripts \ {v} : ~Busy(q)
    BY <1>2 DEF ReplayHolds, Goto, First
  <2>2. \A q \in Scripts : q # v => ~Active(q)
    BY <2>1 DEF Places, Active
  <2>3. Single'
    BY <1>1, <2>2 DEF Single, Active, Busy
  <2>4. pc[v] \in Plain /\ pc'[v] \in Plain
    BY <2>1 DEF Plain, AllLabels, Labels, NoSup, NoPidFile, StopLabels, PlayLabels
  <2>5. Core'
    BY <1>1, <2>1, <2>3, <2>4, PlainMove DEF Undisturbed
  <2>6. ViewerInv'
    BY <2>1 DEF Undisturbed, ViewerInv
  <2>. QED BY <2>5, <2>6 DEF Undisturbed
<1>3. CASE FpvStop(v, TRUE, "play.wait") /\ UNCHANGED groundVars
  <2>1. Core'
    BY <1>3, StopKeepsCore DEF StationTypeOK, Undisturbed
  <2>2. Active(v) /\ pc'[v] # "play.gone"
    <3>1. pc[v] \in StopLabels /\ pc'[v] \in StopLabels \cup {"play.wait"}
      BY <1>3, StopMoves
    <3>. QED BY <3>1 DEF Active, Busy, StopLabels
  <2>3. ViewerInv'
    BY <1>3, <2>2 DEF Undisturbed, ViewerInv, groundVars
  <2>. QED BY <2>1, <2>3 DEF Undisturbed
<1>4. CASE pc[v] \in PlayLabels /\ Viewer(v)
  <2>1. Core'
    BY <1>4, ViewerKeepsCore
  <2>2. Active(v) /\ hold /\ resume[v] = "idle"
    BY <1>4 DEF Active, Undisturbed, ViewerInv
  <2>3. \/ hold' = hold /\ resume' = resume /\ pc'[v] # "play.gone"
        \/ resume' = [resume EXCEPT ![v] = "idle"] /\ pc'[v] = "idle"
    <3>1. ~FpvStop(v, TRUE, "play.wait")
      BY <1>4, StopMoves DEF StopLabels, PlayLabels
    <3>. QED
      BY <1>4, <2>2, <3>1 DEF Viewer, ReplaySeesNoPlayer, ReplayStopsWaiting, ReplayClearsScreen,
         ReplayStarts, ReplayEnds, ReplayTrapped, CleanupSeesNoPlayer, CleanupStopsWaiting,
         CleanupRestoresDisplay, CleanupShowsSplash, CleanupReleases, Release, Goto, groundVars
  <2>4. resume'[v] = "idle" /\ pc'[v] # "play.gone"
    BY <2>2, <2>3
  <2>6. Active(v)' => hold'
    <3>1. pc'[v] = "idle" => ~Active(v)'
      BY DEF Active, Busy, StartLabels, StopLabels, PlayLabels
    <3>. QED BY <2>2, <2>3, <3>1
  <2>5. ViewerInv'
    BY <2>4, <2>6 DEF ViewerInv
  <2>. QED BY <2>1, <2>5 DEF Undisturbed
<1>5. ~ReplayInterrupted(v)
  BY DEF ReplayInterrupted
<1>6. Viewer(v) => pc[v] \in PlayLabels \/ (FpvStop(v, TRUE, "play.wait") /\ UNCHANGED groundVars)
  BY DEF Viewer, ReplaySeesNoPlayer, ReplayStopsWaiting, ReplayClearsScreen,
     ReplayStarts, ReplayEnds, ReplayTrapped, CleanupSeesNoPlayer, CleanupStopsWaiting,
     CleanupRestoresDisplay, CleanupShowsSplash, CleanupReleases, Release, PlayLabels
<1>. QED BY <1>2, <1>3, <1>4, <1>5, <1>6

LEMMA ApfpvKeeps ==
    ASSUME StationTypeOK, Places, Undisturbed, race' = "none", race = "none",
           Apfpv
    PROVE  Undisturbed'
<1>. pc \in [Scripts -> AllLabels] /\ Clients \cup {Action} \subseteq Scripts
     /\ Viewers \subseteq Scripts /\ Viewers \cap (Clients \cup {Action}) = {} /\ Action \notin Clients
  BY ApfpvAssumption, StationAssumption DEF StationTypeOK, AllLabels
<1>1. UNCHANGED <<hold, resume>>
  BY DEF Apfpv, groundVars
<1>2. ASSUME NEW p \in Clients \cup {Action},
             \A q \in Scripts : q # p => ~Active(q),
             \A q \in Scripts : pc'[q] = pc[q] \/ (q \notin Viewers /\ pc[q] \in Plain /\ pc'[q] \in Plain),
             \A q \in Scripts : q # p => pc'[q] = pc[q] \/ pc'[q] = "action.wait",
             UNCHANGED <<forked, fileVars, procVars, screenVars>>
      PROVE  Undisturbed'
  <2>1. Single'
    BY <1>2 DEF Single, Active, Busy, StartLabels, StopLabels, PlayLabels
  <2>2. Core'
    BY <1>2, <2>1, PlainMove DEF Undisturbed
  <2>3. ViewerInv'
    BY <1>1, <1>2 DEF Undisturbed, ViewerInv, Active, Busy
  <2>. QED BY <2>2, <2>3 DEF Undisturbed
<1>. DEFINE Tame == {"idle", "action.dhcp", "action.wait", "start", "stop"}
<1>3. Tame \subseteq Plain
  BY DEF Plain, AllLabels, Labels, NoSup, NoPidFile, StopLabels, StartLabels, PlayLabels
<1>. HIDE DEF Tame
<1>4. CASE EventBegins /\ Crosses(Action)
  <2>1. \A q \in Scripts : q # Action => ~Active(q)
    BY <1>4, OthersRest
  <2>2. pc[Action] \in Tame /\ pc'[Action] \in Tame /\ \A q \in Scripts : q # Action => pc'[q] = pc[q]
    BY <1>4 DEF EventBegins, Goto, Tame
  <2>. QED BY <1>2, <1>3, <1>4, <2>1, <2>2 DEF EventBegins
<1>5. CASE StartsClient /\ Crosses(Action)
  <2>. DEFINE free == {d \in Clients : client[d] = "none"}
              next == CHOOSE d \in free : TRUE
  <2>1. next \in Clients /\ client[next] = "none"
    BY <1>5 DEF StartsClient
  <2>. HIDE DEF next
  <2>2. pc[next] = "idle"
    BY <2>1 DEF Places
  <2>3. /\ pc' = [pc EXCEPT ![Action] = "action.wait", ![next] = "stop"]
        /\ pc[Action] = "action.dhcp"
        /\ UNCHANGED <<forked, fileVars, procVars, screenVars>>
    BY <1>5 DEF StartsClient, next
  <2>4. \A q \in Scripts : ~Active(q)
    <3>1. \A q \in Scripts : q # Action => ~Active(q)
      BY <1>5, OthersRest
    <3>. QED BY <2>3, <3>1 DEF Active, Busy, StartLabels, StopLabels, PlayLabels
  <2>5. \A q \in Scripts : pc'[q] = pc[q] \/ (q \notin Viewers /\ pc[q] \in Tame /\ pc'[q] \in Tame)
    BY <2>1, <2>2, <2>3 DEF Tame
  <2>6. \A q \in Scripts : q # next => pc'[q] = pc[q] \/ pc'[q] = "action.wait"
    BY <2>1, <2>3
  <2>. QED BY <1>2, <1>3, <2>1, <2>3, <2>4, <2>5, <2>6
<1>6. CASE EventEnds
  <2>1. /\ pc' = [pc EXCEPT ![Action] = "idle"] /\ pc[Action] = "action.wait"
        /\ UNCHANGED <<forked, fileVars, procVars, screenVars>>
    BY <1>6 DEF EventEnds, Goto
  <2>2. \A q \in Scripts : pc'[q] = pc[q] \/ (q \notin Viewers /\ pc[q] \in Tame /\ pc'[q] \in Tame)
    BY <2>1 DEF Tame
  <2>3. Single'
    BY <2>1 DEF Undisturbed, Core, Single, Active, Busy, StartLabels, StopLabels, PlayLabels
  <2>4. Core'
    BY <1>3, <2>1, <2>2, <2>3, PlainMove DEF Undisturbed
  <2>5. ViewerInv'
    BY <1>1, <2>2 DEF Undisturbed, ViewerInv, Active, Busy
  <2>. QED BY <2>4, <2>5 DEF Undisturbed
<1>7. ASSUME NEW d \in Clients, (Lease(d) \/ LeaseLost(d)) /\ Crosses(d) PROVE Undisturbed'
  <2>1. \A q \in Scripts : q # d => ~Active(q)
    BY <1>7, OthersRest
  <2>2. /\ pc[d] \in Tame /\ pc'[d] \in Tame /\ \A q \in Scripts : q # d => pc'[q] = pc[q]
        /\ UNCHANGED <<forked, fileVars, procVars, screenVars>>
    BY <1>7 DEF Lease, LeaseLost, Serves, Goto, Tame
  <2>. QED BY <1>2, <1>3, <2>1, <2>2
<1>8. ASSUME NEW d \in Clients, ClientEnds(d) PROVE Undisturbed'
  BY <1>1, <1>8, PlainMove DEF ClientEnds, fpvVars, scriptVars, Undisturbed, ViewerInv, Core, Single, Active, Busy
<1>9. ASSUME NEW p \in Clients \cup {Action}, Handler(p) PROVE Undisturbed'
  <2>1. Core'
    BY <1>9, StartKeepsCore, StopKeepsCore, FALSE \in BOOLEAN DEF Handler, StationTypeOK, Undisturbed
  <2>2. \A q \in Scripts : q # p => pc'[q] = pc[q]
    BY <1>9, StartMoves, StopMoves DEF Handler
  <2>3. ViewerInv'
    BY <1>1, <2>2 DEF Undisturbed, ViewerInv, Active, Busy
  <2>. QED BY <2>1, <2>3 DEF Undisturbed
<1>. QED BY <1>4, <1>5, <1>6, <1>7, <1>8, <1>9 DEF Apfpv

----------------------------------------------------------------------------
IInv == StationTypeOK /\ Places /\ (race = "none" => Undisturbed)

LEMMA InitIInv == StationInit => IInv
<1>. SUFFICES ASSUME StationInit PROVE IInv
  OBVIOUS
<1>0. /\ FpvInit /\ ApfpvInit /\ mode \in Modes /\ status = "down" /\ hold = FALSE
      /\ pc = [p \in Scripts |-> IF p \in Loops /\ mode = "wfb" THEN "loop.top" ELSE "idle"]
      /\ down = [l \in Loops |-> 0] /\ last = [l \in Loops |-> FALSE]
      /\ resume = [v \in Viewers |-> "idle"]
  BY Zenon DEF StationInit
<1>1. StationTypeOK
  <2>1. FpvTypeOK
    BY <1>0 DEF FpvInit, FpvTypeOK, SupStates, PlayerStates
  <2>2. GroundTypeOK
    <3>1. last \in [Loops -> BOOLEAN] /\ hold \in BOOLEAN
      BY <1>0, Zenon
    <3>2. down \in [Loops -> 0 .. DownLimit]
      BY <1>0, GroundAssumption
    <3>3. resume \in [Viewers -> Labels] /\ status \in {"up", "down"}
      BY <1>0 DEF Labels
    <3>. QED BY <3>1, <3>2, <3>3 DEF GroundTypeOK
  <2>3. ApfpvTypeOK
    BY <1>0 DEF ApfpvInit, ApfpvTypeOK
  <2>4. pc \in [Scripts -> Labels]
    BY <1>0 DEF Labels
  <2>5. pending \in 0 .. MaxPending /\ mode \in Modes
    BY <1>0, StationAssumption DEF ApfpvInit
  <2>. QED BY <2>1, <2>2, <2>3, <2>4, <2>5 DEF StationTypeOK
<1>2. \A p \in Scripts : pc[p] \in {"idle", "loop.top"}
  BY <1>0
<1>3. \A p \in Scripts :
          /\ ~Active(p) /\ pc[p] # "play.gone"
          /\ pc[p] \notin NoSup \cup NoPidFile \cup Killed \cup NoPlayer \cup Cleared
                          \cup PlayLabels \cup {"start.pid", "play.runs"}
  BY <1>2 DEF Active, Busy, StartLabels, StopLabels, PlayLabels, NoSup, NoPidFile, Killed,
     NoPlayer, Cleared
<1>4. Places
  <2>1. \A p \in Clients \cup {Action} : pc[p] = "idle"
    BY <1>0, StationAssumption
  <2>. QED BY <1>3, <2>1 DEF Places
<1>5. Core
  <2>1. /\ \A s \in Sups : sup[s] = "none"
        /\ \A q \in Players : player[q] = "none"
        /\ Replay \in Players /\ Sups \subseteq Players
    BY <1>0 DEF FpvInit, Players
  <2>2. Single
    BY <1>3 DEF Single
  <2>3. SupInv
    BY <1>3, <2>1 DEF SupInv
  <2>4. PlayerInv
    BY <1>3, <2>1 DEF PlayerInv
  <2>5. ScreenInv
    BY <1>3, <2>1 DEF ScreenInv
  <2>. QED BY <2>2, <2>3, <2>4, <2>5 DEF Core
<1>6. ViewerInv
  <2>1. Viewers \subseteq Scripts /\ \A v \in Viewers : resume[v] = "idle"
    BY <1>0, GroundAssumption
  <2>. QED BY <1>3, <2>1 DEF ViewerInv
<1>. QED BY <1>1, <1>4, <1>5, <1>6 DEF IInv, Undisturbed

LEMMA StepIInv == IInv /\ [StationNext]_stationVars => IInv'
<1>. SUFFICES ASSUME IInv, [StationNext]_stationVars PROVE IInv'
  OBVIOUS
<1>1. StationTypeOK' /\ Places'
  BY TypesStep, PlacesStep DEF IInv
<1>2. ASSUME race' = "none" PROVE Undisturbed'
  <2>. StationTypeOK /\ Places /\ race = "none" /\ Undisturbed
    BY <1>2, RaceStays DEF IInv
  <2>1. CASE UNCHANGED <<fpvVars, hold, resume>>
    BY <2>1 DEF Undisturbed, ViewerInv, Core, Single, SupInv, PlayerInv, ScreenInv, Active, Busy,
       fpvVars, scriptVars, fileVars, procVars, screenVars
  <2>2. CASE Association \/ (Wfb /\ Radio) \/ UNCHANGED stationVars
    BY <2>1, <2>2 DEF Association, Radio, stationVars, vars, groundVars
  <2>3. CASE Wfb /\ \E l \in Loops : Loop(l)
    BY <1>2, <2>3, LoopKeeps DEF Wfb
  <2>4. CASE Apfpv
    BY <1>2, <2>4, ApfpvKeeps
  <2>5. CASE Either
    <3>1. CASE \E v \in Viewers : ReplayHolds(v) \/ Viewer(v) \/ ReplayInterrupted(v)
      BY <1>2, <3>1, ViewerKeeps
    <3>2. CASE ProcessStep /\ UNCHANGED groundVars
      <4>1. Core'
        BY <3>2, ProcessKeepsCore DEF StationTypeOK, AllLabels, Undisturbed
      <4>2. UNCHANGED pc
        BY <3>2, ProcessTypes DEF StationTypeOK
      <4>. QED BY <3>2, <4>1, <4>2 DEF Undisturbed, ViewerInv, Active, Busy, groundVars
    <3>. QED BY <2>5, <3>1, <3>2 DEF Either
  <2>. QED BY <2>2, <2>3, <2>4, <2>5 DEF StationNext, Wfb
<1>. QED BY <1>1, <1>2 DEF IInv

\* Every behaviour of the station keeps the invariant.
THEOREM StationInvariant == FairStationSpec => []IInv
BY InitIInv, StepIInv, PTL DEF FairStationSpec, StationSpec

\* No script writes anything but a pid, a state or a label where the others
\* expect one, over whichever link.
THEOREM StationTypes == FairStationSpec => []StationTypeOK
<1>1. IInv => StationTypeOK
  BY DEF IInv
<1>. QED BY <1>1, StationInvariant, PTL

\* "Never leave two supervisors running" (fpv-start:51): while no script has
\* been caught in the middle by another, at most one is alive, and it is where
\* fpv-stop looks for it or on its way there.
THEOREM StopFinds == FairStationSpec => []StopFindsSupervisor
<1>1. ASSUME IInv, race = "none" PROVE OneSupervisor
  <2>1. \A r, s \in LiveSups : r = s
    BY <1>1, OneAlive DEF IInv, Undisturbed, LiveSups
  <2>2. CASE LiveSups = {}
    BY <2>2, FS_EmptySet DEF OneSupervisor
  <2>3. ASSUME NEW s \in LiveSups PROVE OneSupervisor
    <3>1. LiveSups = {s}
      BY <2>1, <2>3
    <3>2. Cardinality({s}) = 1
      BY FS_Singleton
    <3>. QED BY <3>1, <3>2 DEF OneSupervisor
  <2>. QED BY <2>2, <2>3
<1>2. IInv => StopFindsSupervisor
  BY <1>1 DEF IInv, Undisturbed, Core, SupInv, StopFindsSupervisor, LiveSups
<1>. QED BY <1>2, StationInvariant, PTL

\* The MI pipeline has one owner: while no script has been caught in the middle,
\* no player of fpv-start or of dvr-play runs before the last one is gone.
THEOREM PipelineHasOneOwner == FairStationSpec => []OnePlayer
<1>1. ASSUME IInv, race = "none" PROVE Cardinality(OnScreen) <= 1
  <2>1. \A q, r \in OnScreen : q = r
    BY <1>1 DEF IInv, Undisturbed, Core, PlayerInv, OnScreen
  <2>2. CASE OnScreen = {}
    BY <2>2, FS_EmptySet
  <2>3. ASSUME NEW q \in OnScreen PROVE Cardinality(OnScreen) <= 1
    <3>1. OnScreen = {q}
      BY <2>1, <2>3
    <3>2. Cardinality({q}) = 1
      BY FS_Singleton
    <3>. QED BY <3>1, <3>2
  <2>. QED BY <2>2, <2>3
<1>2. IInv => OnePlayer
  BY <1>1 DEF OnePlayer
<1>. QED BY <1>2, StationInvariant, PTL

\* dvr-play "holds off the link supervisor for as long as it runs"
\* (dvr-play:15): a replay that began while the scripts were at rest has the
\* screen to itself, whatever the radio and wpa_supplicant do meanwhile.
THEOREM HoldKeepsOthersOff == FairStationSpec => []HoldIsRespected
<1>1. ASSUME IInv, race = "none", player[Replay] = "runs"
      PROVE  LiveSups = {} /\ OnScreen = {Replay} /\ osd # "splash" /\ ~disp
  <2>1. PICK p \in Scripts : pc[p] = "play.runs"
    BY <1>1 DEF IInv, Undisturbed, Core, PlayerInv
  <2>2. \A s \in Sups : sup[s] = "none"
    BY <1>1, <2>1 DEF IInv, Undisturbed, Core, SupInv, NoSup, PlayLabels
  <2>3. osd = "clear" /\ ~disp
    BY <1>1, <2>1 DEF IInv, Undisturbed, Core, ScreenInv, Cleared
  <2>4. OnScreen = {Replay}
    BY <1>1 DEF IInv, Undisturbed, Core, PlayerInv, OnScreen, Players
  <2>. QED BY <2>2, <2>3, <2>4 DEF LiveSups
<1>2. IInv => HoldIsRespected
  BY <1>1 DEF HoldIsRespected
<1>. QED BY <1>2, StationInvariant, PTL

\* Neither the splash nor the holder of /dev/mi_hdmi is left over a picture
\* that fpv-start put on the screen.
THEOREM NothingOverPicture == FairStationSpec => []LivePictureShows
<1>1. IInv => LivePictureShows
  BY DEF IInv, Undisturbed, Core, ScreenInv, LivePictureShows
<1>. QED BY <1>1, StationInvariant, PTL

=============================================================================
