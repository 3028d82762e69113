-------------------------------- MODULE Board ---------------------------------
(***************************************************************************)
(* The board from power-on: S05cfg, S65display and S70link in their order  *)
(* (S60mi only loads modules), and afterwards the flash, the radio and the *)
(* screen together.  What memory holds goes with the power.                *)
(*                                                                         *)
(* Bound: a behaviour exercises one of the four parts (`focus'): only      *)
(* there do things fail and do users act; the others boot and stand by.    *)
(* And at most one of the partitions and verify-sig is missing.            *)
(***************************************************************************)
EXTENDS Flash, Radio, Display, Overlay

CONSTANT PollLimit                          \* seconds S65display waits: 15

ASSUME PollAssumption == PollLimit \in Nat

VARIABLES
    init,           \* the init script that is running
    polls,          \* n of S65display
    focus

bootVars == <<init, polls, focus>>
vars == <<fvars, rvars, dvars, ovars, bootVars>>

Whole == [system |-> TRUE, cfg |-> TRUE, verifier |-> TRUE]

Init ==
    /\ FInit /\ RInit /\ DInit /\ OInit
    /\ init = "none" /\ polls = 0
    /\ focus \in {"flash", "radio", "display", "screen"}
    /\ IF focus = "flash"
       THEN board = Whole \/ (\E part \in DOMAIN Whole : board = [Whole EXCEPT ![part] = FALSE])
       ELSE board = Whole
    /\ focus # "screen" => /\ vinfo = CHOOSE f \in Formats : TRUE
                           /\ label = CHOOSE n \in Labels : TRUE

\* Everything but the flash, when the power or the kernel goes.
MemoryLost ==
    /\ iface' = Fresh /\ link' = "none" /\ rpc' = "idle" /\ caller' = "none" /\ told' = {}
    /\ left' = 0 /\ wfb_channels' = <<>> /\ wfb_packets' = 0 /\ heard' = {}
    /\ Killed
    /\ screen' = Blank /\ painters' = NoPainters /\ show' = "none"
    /\ init' = "none" /\ polls' = 0
    /\ UNCHANGED <<refusals, vinfo, label, focus>>

Opened == \A i \in Slots : painters[i].mode = "none" \/ painters[i].step > 0
AtRest == init = "done" /\ rpc = "idle" /\ dpc \in {"none", "hold", "exited"} /\ Opened

----------------------------------------------------------------------------
(* Power *)

BoardPowerOn == PowerOn /\ UNCHANGED <<rvars, dvars, ovars, bootVars>>
BoardRecover == Recover /\ UNCHANGED <<rvars, dvars, ovars, bootVars>>
BoardCut ==
    /\ focus # "screen" /\ (focus = "flash" => stage = "cfg" \/ AtRest)
    /\ PowerCut /\ MemoryLost
BoardReboot == AtRest /\ Reboot /\ MemoryLost

----------------------------------------------------------------------------
(* The init scripts *)

S05cfg ==
    /\ BootSteps
    /\ focus = "flash" \/ mishaps' = mishaps
    /\ init' = IF stage' = "up" THEN "S65display" ELSE init
    /\ UNCHANGED <<rvars, dvars, ovars, polls, focus>>

S65display ==
    /\ init = "S65display" /\ Run
    /\ init' = "poll"
    /\ UNCHANGED <<fvars, rvars, ovars, polls, focus>>

\* grep for MI_HDMI_Start in its log, once a second.
S65polls ==
    /\ init = "poll" /\ start = "" /\ polls < PollLimit
    /\ polls' = polls + 1
    /\ UNCHANGED <<fvars, rvars, dvars, ovars, init, focus>>

\* The splash is drawn whatever the log says.
PolledMutant == start # ""                  \* waits for the line for ever
Polled == start # "" \/ polls = PollLimit

S65splash ==
    /\ init = "poll" /\ Polled
    /\ painters' = [painters EXCEPT ![1] = Forked("splash")]
    /\ init' = "S70link"
    /\ UNCHANGED <<fvars, rvars, dvars, vinfo, screen, label, show, polls, focus>>

\* conf_get mode, with apfpv for a file that does not say.
LINK_MODE == IF conf \in Settings THEN conf ELSE "apfpv"

StartLink(stopped) ==
    CASE LINK_MODE = "wfb"   -> WfbStarts
      [] LINK_MODE = "apfpv" -> ApfpvStarts
      [] OTHER -> link' = stopped /\ UNCHANGED <<iface, rpc, caller, told, sniffVars, refusals>>

S70link ==
    /\ init = "S70link" /\ StartLink(link)
    /\ init' = "done"
    /\ UNCHANGED <<fvars, dvars, ovars, polls, focus>>

\* S70link restart after an edit: wfb-stop; nothing stops wpa_supplicant
\* but the wfb-start that needs the adapter.
S70restart ==
    /\ focus # "flash" /\ AtRest /\ show = "none"
    /\ StartLink(IF link = "wfb" THEN "none" ELSE link)
    /\ UNCHANGED <<fvars, dvars, ovars, bootVars>>

----------------------------------------------------------------------------
(* The parts *)

UserEdits ==
    /\ AtRest /\ Edit
    /\ UNCHANGED <<rvars, dvars, ovars, bootVars>>

KernelWrites ==
    /\ stage = "cfg" \/ AtRest
    /\ WriteBack
    /\ UNCHANGED <<rvars, dvars, ovars, bootVars>>

Upgrade ==
    /\ focus = "flash" /\ AtRest
    /\ Start \/ UpgradeSteps
    /\ UNCHANGED <<rvars, dvars, ovars, bootVars>>

Adapter ==
    /\ MonitorSteps \/ (focus = "radio" /\ AtRest /\ SniffByHand)
    /\ focus = "radio" \/ refusals' = refusals
    /\ UNCHANGED <<fvars, dvars, ovars, bootVars>>

\* Bound: with the focus on the flash or the radio, mi-disp-init and
\* fb-splash take their steps when the link is up.
Turn == focus \in {"flash", "radio"} => init = "done" /\ rpc = "idle"

DisplayInit ==
    /\ Turn /\ InitSteps
    /\ focus = "display" \/ failures' = failures
    /\ UNCHANGED <<fvars, rvars, ovars, bootVars>>

Painting == Turn /\ PainterSteps /\ UNCHANGED <<fvars, rvars, dvars, bootVars>>

\* fpv-start and dvr-play kill mi-disp-init, since the player opens HDMI
\* itself; fpv-stop and dvr-play's end run display-up.
Scene ==
    /\ focus = "screen" /\ init = "done" /\ rpc = "idle" /\ dpc \in {"none", "hold"}
    /\ \/ LiveStarts /\ link # "none" /\ Killed
       \/ ReplayStarts /\ Killed
       \/ OverlayStarts /\ link = "wfb" /\ UNCHANGED dvars
       \/ StatsStart /\ link = "apfpv" /\ UNCHANGED dvars
       \/ WaitingSplash /\ link = "wfb" /\ UNCHANGED dvars
       \/ (LiveStops \/ ReplayEnds) /\ Run
    /\ UNCHANGED <<fvars, rvars, bootVars>>

----------------------------------------------------------------------------
InitScripts == S05cfg \/ S65display \/ S65polls \/ S65splash \/ S70link

Next == BoardPowerOn \/ BoardRecover \/ BoardCut \/ BoardReboot \/ InitScripts
        \/ S70restart \/ UserEdits \/ KernelWrites \/ Upgrade \/ Adapter \/ DisplayInit
        \/ Painting \/ Scene

Spec == Init /\ [][Next]_vars

\* init runs its scripts, and a wifi-monitor gets the processor; the calls
\* of mi-disp-init may hang, since MI_HDMI_Start waits for the monitor.
FairSpec ==
    /\ Spec
    /\ WF_vars(InitScripts)
    /\ WF_vars(Adapter /\ (rpc' # rpc \/ left' # left))

----------------------------------------------------------------------------
(* Properties *)

TypeOK ==
    /\ FTypeOK /\ RTypeOK /\ DTypeOK /\ OTypeOK
    /\ init \in {"none", "S65display", "poll", "S70link", "done"}
    /\ polls \in 0 .. PollLimit

\* Once U-Boot has started the kernel the link is started and wifi-monitor
\* has ended, unless the power goes: whatever mi-disp-init does, including
\* nothing, S65display goes on, and so does a wifi-monitor on a silent
\* channel.
BoardComesUp == stage = "cfg" ~> stage = "off" \/ (init = "done" /\ rpc = "idle")
==============================================================================
