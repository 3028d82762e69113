------------------------------ MODULE BoardProofs ------------------------------
(***************************************************************************)
(* The board keeps the promises of its flash: init scripts, radio, display *)
(* and overlays in any interleaving do to the two partitions nothing that  *)
(* Flash does not do alone.                                                *)
(***************************************************************************)
EXTENDS Board, FlashProofs, FiniteSetTheorems, SequenceTheorems

\* A step of the board is, for the partitions, a step of Flash or none.
LEMMA BoardStepIsFlashStep == [Next]_vars => [FNext]_fvars
<1>. SUFFICES ASSUME [Next]_vars PROVE FNext \/ UNCHANGED fvars
  OBVIOUS
<1>1. CASE BoardPowerOn
  BY <1>1 DEF BoardPowerOn, FNext
<1>2. CASE BoardRecover
  BY <1>2 DEF BoardRecover, FNext
<1>3. CASE BoardCut
  BY <1>3 DEF BoardCut, FNext
<1>4. CASE BoardReboot
  BY <1>4 DEF BoardReboot, FNext
<1>5. CASE InitScripts
  BY <1>5 DEF InitScripts, S05cfg, S65display, S65polls, S65splash, S70link, FNext
<1>6. CASE S70restart
  BY <1>6 DEF S70restart
<1>7. CASE UserEdits
  BY <1>7 DEF UserEdits, FNext
<1>8. CASE KernelWrites
  BY <1>8 DEF KernelWrites, FNext
<1>9. CASE Upgrade
  BY <1>9 DEF Upgrade, FNext
<1>10. CASE Adapter
  BY <1>10 DEF Adapter
<1>11. CASE DisplayInit
  BY <1>11 DEF DisplayInit
<1>12. CASE Painting
  BY <1>12 DEF Painting
<1>13. CASE Scene
  BY <1>13 DEF Scene
<1>14. CASE UNCHANGED vars
  BY <1>14 DEF vars
<1>. QED
  BY <1>1, <1>2, <1>3, <1>4, <1>5, <1>6, <1>7, <1>8, <1>9, <1>10, <1>11, <1>12,
     <1>13, <1>14 DEF Next

\* The whole board implements the specification of its flash.
THEOREM BoardImplementsFlash == Spec => FSpec
<1>1. Init => FInit BY DEF Init
<1>. QED BY <1>1, BoardStepIsFlashStep, PTL DEF Spec, FSpec

\* On the running board, too, the system partition holds a checked image.
THEOREM BoardHoldsCheckedImage == Spec => []FlashHoldsCheckedImage
BY BoardImplementsFlash, FlashHolds, PTL

\* And no settings are lost but by a cut of the power, a failed first mount or,
\* as asked, sysupgrade -c.
THEOREM BoardKeepsSettings == Spec => []EditsSurvive
BY BoardImplementsFlash, SettingsSurvive, PTL

----------------------------------------------------------------------------
(* The radio *)

\* What the caller of wifi-monitor may count on, step by step.
Usable == iface.up /\ iface.mode = "monitor" /\ (iface.chan = Channel \/ "channel" \in told)
LinkInv ==
    /\ iface \in [up : BOOLEAN, mode : {"managed", "monitor"}, chan : {Default, Channel}]
    /\ link # "none" => rpc = "idle"
    /\ link = "wfb" => Usable
    /\ link = "apfpv" => /\ iface.up \/ "ifconfig" \in told
                         /\ iface.mode = "managed" \/ "mode" \in told
    /\ rpc = "up" => iface.mode = IF Managed THEN "managed" ELSE "monitor"
    /\ rpc = "channel" => iface.up /\ iface.mode = "monitor" /\ ~Managed
    /\ rpc \in {"socket", "sniff"} => caller = "hand"
    /\ GoesOn => Usable
    /\ (rpc \in {"exit 0", "exit 1"} /\ Managed)
         => iface.mode = "managed" \/ "mode" \in told

\* The table and the air.
Streams == {f.chan : f \in Frames}
listed == {wfb_channels[i] : i \in 1 .. Len(wfb_channels)}
TableInv ==
    /\ wfb_channels \in Seq(Streams) /\ IsFiniteSet(listed)
    /\ Cardinality(listed) = Len(wfb_channels) /\ Len(wfb_channels) <= TableSize
    /\ listed \subseteq heard
    /\ listed = heard \/ Len(wfb_channels) = TableSize

\* What Frames says of the air is what a whole frame with the marker means.
FramesAreTrue == \A f \in Frames : f.air = IF IsWfb(f) THEN {f.chan} ELSE {}

LEMMA RadioInvEnough == LinkInv /\ TableInv => RadioAsAsked
BY DEF LinkInv, TableInv, RadioAsAsked, Usable, listed

\* The board reaches the adapter only through these.
RadioStep == WfbStarts \/ ApfpvStarts \/ SniffByHand \/ MonitorSteps
Reset ==
    /\ iface' = Fresh /\ link' = "none" /\ rpc' = "idle" /\ caller' = "none" /\ told' = {}
    /\ left' = 0 /\ wfb_channels' = <<>> /\ wfb_packets' = 0 /\ heard' = {}
    /\ UNCHANGED refusals
Stopped ==
    /\ rpc = "idle" /\ link' \in {"none", link}
    /\ UNCHANGED <<iface, rpc, caller, told, sniffVars, refusals>>

LEMMA StartLinkSteps ==
    ASSUME NEW stopped \in {"none", link}, rpc = "idle", StartLink(stopped)
    PROVE  RadioStep \/ Stopped
BY DEF StartLink, RadioStep, Stopped

LEMMA BoardStepIsRadioStep ==
    LinkInv /\ [Next]_vars => RadioStep \/ Reset \/ Stopped \/ UNCHANGED rvars
<1>. SUFFICES ASSUME LinkInv, [Next]_vars
              PROVE  RadioStep \/ Reset \/ Stopped \/ UNCHANGED rvars
  OBVIOUS
<1>1. CASE BoardCut \/ BoardReboot
  BY <1>1 DEF BoardCut, BoardReboot, MemoryLost, Reset
<1>2. CASE S70link
  <2>1. link # "none" => rpc = "idle" BY DEF LinkInv
  <2>2. CASE rpc = "idle"
    BY <1>2, <2>2, StartLinkSteps DEF S70link
  <2>3. CASE rpc # "idle"
    BY <1>2, <2>1, <2>3 DEF S70link, StartLink, RadioStep, WfbStarts, ApfpvStarts, rvars
  <2>. QED BY <2>2, <2>3
<1>3. CASE S70restart
  <2>1. rpc = "idle" BY <1>3 DEF S70restart, AtRest
  <2>2. CASE StartLink("none")
    BY <2>1, <2>2, StartLinkSteps
  <2>3. CASE StartLink(link)
    BY <2>1, <2>3, StartLinkSteps
  <2>. QED BY <1>3, <2>2, <2>3 DEF S70restart
<1>4. CASE Adapter
  BY <1>4 DEF Adapter, RadioStep
<1>5. CASE UNCHANGED rvars
  BY <1>5
<1>. QED
  BY <1>1, <1>2, <1>3, <1>4, <1>5 DEF Next, BoardPowerOn, BoardRecover, InitScripts,
     S05cfg, S65display, S65polls, S65splash, UserEdits, KernelWrites, Upgrade,
     DisplayInit, Painting, Scene, vars

LEMMA LinkStep == LinkInv /\ [Next]_vars => LinkInv'
<1>. SUFFICES ASSUME LinkInv, [Next]_vars PROVE LinkInv'
  OBVIOUS
<1>. USE DEF LinkInv, Usable, Managed, GoesOn
<1>1. CASE WfbStarts
  BY <1>1 DEF WfbStarts
<1>2. CASE ApfpvStarts
  BY <1>2 DEF ApfpvStarts
<1>3. CASE SniffByHand
  BY <1>3 DEF SniffByHand
<1>4. CASE SetDown
  BY <1>4 DEF SetDown
<1>5. CASE SetMode
  BY <1>5 DEF SetMode
<1>6. CASE SetUp
  BY <1>6 DEF SetUp, UpFails
<1>7. CASE SetChannel
  BY <1>7 DEF SetChannel
<1>8. CASE OpenSocket
  BY <1>8 DEF OpenSocket
<1>9. CASE Receive \/ Second
  BY <1>9 DEF Receive, Second
<1>10. CASE SniffEnds
  BY <1>10 DEF SniffEnds
<1>11. CASE Exited
  BY <1>11 DEF Exited, ApfpvGoesOn
<1>12. CASE Reset
  BY <1>12 DEF Reset, Fresh
<1>13. CASE Stopped
  BY <1>13 DEF Stopped
<1>14. CASE UNCHANGED rvars
  BY <1>14 DEF rvars
<1>. QED
  BY <1>1, <1>2, <1>3, <1>4, <1>5, <1>6, <1>7, <1>8, <1>9, <1>10, <1>11, <1>12,
     <1>13, <1>14, BoardStepIsRadioStep DEF RadioStep, MonitorSteps

LEMMA EmptyTable ==
    ASSUME wfb_channels = <<>>, heard = {} PROVE TableInv
<1>1. listed = {} BY DEF listed
<1>2. TableSize \in Nat BY RadioAssumption
<1>3. Len(wfb_channels) = 0 /\ wfb_channels \in Seq(Streams) OBVIOUS
<1>. QED BY <1>1, <1>2, <1>3, FS_EmptySet DEF TableInv

\* One more stream in a table with room for it.
LEMMA TableGrows ==
    ASSUME TableInv, NEW c \in Streams, ~Known(c), Len(wfb_channels) < TableSize,
           wfb_channels' = Append(wfb_channels, c), heard' = heard \cup {c}
    PROVE  TableInv'
<1>1. wfb_channels \in Seq(Streams) /\ IsFiniteSet(listed)
      /\ Cardinality(listed) = Len(wfb_channels)
  BY DEF TableInv
<1>2. c \notin listed BY DEF Known, listed
<1>3. /\ wfb_channels' \in Seq(Streams)
      /\ Len(wfb_channels') = Len(wfb_channels) + 1
      /\ \A i \in 1 .. Len(wfb_channels) : wfb_channels'[i] = wfb_channels[i]
      /\ wfb_channels'[Len(wfb_channels) + 1] = c
  BY <1>1
<1>4. Len(wfb_channels) \in Nat BY <1>1
<1>5. listed' = listed \cup {c}
  <2>1. 1 .. Len(wfb_channels') = (1 .. Len(wfb_channels)) \cup {Len(wfb_channels) + 1}
    BY <1>3, <1>4
  <2>. QED BY <1>3, <1>4, <2>1 DEF listed
<1>6. IsFiniteSet(listed') /\ Cardinality(listed') = Cardinality(listed) + 1
  BY <1>1, <1>2, <1>5, FS_AddElement
<1>7. TableSize \in Nat BY RadioAssumption
<1>8. listed = heard BY <1>4, <1>7 DEF TableInv
<1>. QED BY <1>1, <1>3, <1>4, <1>5, <1>6, <1>7, <1>8 DEF TableInv

LEMMA TableStep ==
    ASSUME FramesAreTrue, LinkInv, TableInv, [Next]_vars PROVE TableInv'
<1>1. CASE Receive
  <2>1. PICK f \in Frames :
            /\ wfb_channels' = IF IsWfb(f) THEN Listed(f.chan) ELSE wfb_channels
            /\ heard' = heard \cup f.air
    BY <1>1 DEF Receive
  <2>2. CASE ~IsWfb(f)
    <3>1. UNCHANGED <<wfb_channels, heard>> BY <2>1, <2>2 DEF FramesAreTrue
    <3>. QED BY <3>1 DEF TableInv, listed
  <2>3. CASE IsWfb(f)
    <3>1. heard' = heard \cup {f.chan} BY <2>1, <2>3 DEF FramesAreTrue
    <3>2. CASE ~Known(f.chan) /\ Len(wfb_channels) < TableSize
      <4>1. wfb_channels' = Append(wfb_channels, f.chan) BY <2>1, <2>3, <3>2 DEF Listed
      <4>2. f.chan \in Streams BY DEF Streams
      <4>. QED BY <3>1, <3>2, <4>1, <4>2, TableGrows
    <3>3. CASE ~(~Known(f.chan) /\ Len(wfb_channels) < TableSize)
      <4>1. wfb_channels' = wfb_channels /\ listed' = listed
        BY <2>1, <2>3, <3>3 DEF Listed, listed
      <4>2. CASE Known(f.chan)
        <5>1. f.chan \in listed BY <4>2 DEF Known, listed
        <5>2. heard' = heard BY <3>1, <5>1 DEF TableInv
        <5>. QED BY <4>1, <5>2 DEF TableInv
      <4>3. CASE Len(wfb_channels) = TableSize
        BY <3>1, <4>1, <4>3 DEF TableInv
      <4>4. Len(wfb_channels) \in Nat /\ TableSize \in Nat
        BY RadioAssumption DEF TableInv
      <4>. QED BY <3>3, <4>2, <4>3, <4>4 DEF TableInv
    <3>. QED BY <3>2, <3>3
  <2>. QED BY <2>2, <2>3
<1>2. CASE wfb_channels' = <<>> /\ heard' = {}
  <2>1. listed' = {} BY <1>2 DEF listed
  <2>2. TableSize \in Nat BY RadioAssumption
  <2>3. Len(wfb_channels') = 0 /\ wfb_channels' \in Seq(Streams) BY <1>2
  <2>. QED BY <1>2, <2>1, <2>2, <2>3, FS_EmptySet DEF TableInv
<1>3. CASE UNCHANGED <<wfb_channels, heard>>
  BY <1>3 DEF TableInv, listed
<1>. QED
  BY <1>1, <1>2, <1>3, BoardStepIsRadioStep DEF RadioStep, MonitorSteps, WfbStarts,
     ApfpvStarts, SniffByHand, SetDown, SetMode, SetUp, SetChannel, OpenSocket, Second,
     SniffEnds, Exited, ApfpvGoesOn, Reset, Stopped, rvars, sniffVars

LEMMA RadioInit == Init => LinkInv /\ TableInv
<1>. SUFFICES ASSUME Init PROVE LinkInv /\ TableInv
  OBVIOUS
<1>1. LinkInv
  BY DEF Init, RInit, Fresh, LinkInv, Usable, GoesOn, Managed
<1>2. TableInv
  BY EmptyTable DEF Init, RInit
<1>. QED BY <1>1, <1>2

\* On the running board wfb_rx and wpa_supplicant get the adapter they asked
\* for or were told otherwise, whatever ioctls the driver refuses; and the list
\* of streams is exact for any length of the table.
THEOREM BoardRadioAsAsked ==
    ASSUME FramesAreTrue PROVE Spec => []RadioAsAsked
<1>1. LinkInv /\ TableInv /\ [Next]_vars => (LinkInv /\ TableInv)'
  BY LinkStep, TableStep
<1>. QED BY RadioInit, <1>1, RadioInvEnough, PTL DEF Spec

----------------------------------------------------------------------------
(* Types *)

\* RTypeOK, in parts; the interface's is in LinkInv.
RadioType ==
    /\ link \in {"none", "wfb", "apfpv"}
    /\ caller \in {"none", "wfb-start", "apfpv", "hand"}
    /\ told \subseteq {"ifdown", "mode", "ifup", "channel", "ifconfig"}
ProcessType ==
    rpc \in {"idle", "down", "mode", "up", "channel", "socket", "sniff", "exit 0", "exit 1"}
TallyType ==
    /\ left \in 0 .. SniffSecs /\ wfb_packets \in 0 .. MaxFrames
    /\ refusals \in 0 .. MaxRefusals
RadioTypeInv == RadioType /\ ProcessType /\ TallyType

LEMMA RTypeParts == LinkInv /\ RadioTypeInv => RTypeOK
BY DEF LinkInv, RadioType, ProcessType, TallyType, RTypeOK, RadioTypeInv

LEMMA RadioTypeStep == LinkInv /\ RadioTypeInv /\ [Next]_vars => RadioTypeInv'
<1>. SUFFICES ASSUME LinkInv, RadioTypeInv, [Next]_vars PROVE RadioTypeInv'
  OBVIOUS
<1>1. RadioStep \/ Reset \/ Stopped \/ UNCHANGED rvars
  BY BoardStepIsRadioStep
<1>2. ProcessType'
  BY <1>1 DEF RadioTypeInv, ProcessType, RadioStep, MonitorSteps, WfbStarts, ApfpvStarts,
     SniffByHand, SetDown, SetMode, SetUp, UpFails, SetChannel, OpenSocket, Receive, Second,
     SniffEnds, Exited, ApfpvGoesOn, Reset, Stopped, rvars
<1>3. RadioType'
  <2>1. link' \in {link, "none", "wfb", "apfpv"}
    BY <1>1 DEF RadioStep, MonitorSteps, WfbStarts, ApfpvStarts,
       SniffByHand, SetDown, SetMode, SetUp, SetChannel, OpenSocket, Receive, Second,
       SniffEnds, Exited, ApfpvGoesOn, Reset, Stopped, rvars
  <2>2. caller' \in {caller, "none", "wfb-start", "apfpv", "hand"}
    BY <1>1 DEF RadioStep, MonitorSteps, WfbStarts, ApfpvStarts,
       SniffByHand, SetDown, SetMode, SetUp, SetChannel, OpenSocket, Receive, Second,
       SniffEnds, Exited, ApfpvGoesOn, Reset, Stopped, rvars
  <2>3. told' \subseteq told \cup {"ifdown", "mode", "ifup", "channel", "ifconfig"}
    BY <1>1 DEF RadioStep, MonitorSteps, WfbStarts, ApfpvStarts,
       SniffByHand, SetDown, SetMode, SetUp, SetChannel, OpenSocket, Receive, Second,
       SniffEnds, Exited, ApfpvGoesOn, Reset, Stopped, rvars
  <2>. QED BY <2>1, <2>2, <2>3 DEF RadioTypeInv, RadioType
<1>4. TallyType'
  <2>1. refusals' = refusals \/ (refusals < MaxRefusals /\ refusals' = refusals + 1)
    BY <1>1 DEF RadioStep, MonitorSteps, WfbStarts, ApfpvStarts,
       SniffByHand, SetDown, SetMode, SetUp, SetChannel, OpenSocket, Receive, Second,
       SniffEnds, Exited, ApfpvGoesOn, Reset, Stopped, rvars, Refused, Obeyed
  <2>2. left' \in {left, 0, SniffSecs} \/ (left > 0 /\ left' = left - 1)
    BY <1>1 DEF RadioStep, MonitorSteps, WfbStarts, ApfpvStarts,
       SniffByHand, SetDown, SetMode, SetUp, SetChannel, OpenSocket, Receive, Second,
       SniffEnds, Exited, ApfpvGoesOn, Reset, Stopped, rvars, sniffVars
  <2>3. \/ wfb_packets' \in {wfb_packets, 0}
        \/ wfb_packets < MaxFrames /\ wfb_packets' = wfb_packets + 1
    BY <1>1 DEF RadioStep, MonitorSteps, WfbStarts, ApfpvStarts,
       SniffByHand, SetDown, SetMode, SetUp, SetChannel, OpenSocket, Receive, Second,
       SniffEnds, Exited, ApfpvGoesOn, Reset, Stopped, rvars, sniffVars
  <2>. QED BY <2>1, <2>2, <2>3, RadioAssumption DEF RadioTypeInv, TallyType
<1>. QED BY <1>2, <1>3, <1>4 DEF RadioTypeInv

LEMMA RadioTypeInit == RInit => RadioTypeInv
BY RadioAssumption DEF RInit, RadioTypeInv, RadioType, ProcessType, TallyType

\* mi-disp-init, wherever it is started and killed from: DTypeOK in parts.
CallType ==
    /\ dpc \in {"none", "SYS_Init", "Disp", "open", "hold", "exited"} \cup Hdmi
    /\ hdmi_fd \in BOOLEAN /\ ok \subseteq Hdmi
LogType == start \in {"", "ok", "FAILED"}
FailuresType == failures \in 0 .. MaxFailures

LEMMA DTypeParts == DTypeOK <=> CallType /\ LogType /\ FailuresType
BY DEF DTypeOK, CallType, LogType, FailuresType

LEMMA DisplayTypeInit == DInit => DTypeOK
<1>. SUFFICES ASSUME DInit PROVE CallType /\ LogType /\ FailuresType
  BY DTypeParts
<1>1. dpc = "none" /\ hdmi_fd = FALSE /\ ok = {} /\ failures = 0
  BY DEF DInit
<1>2. LogType
  BY DEF DInit, LogType
<1>3. CallType
  BY <1>1 DEF CallType
<1>4. FailuresType
  BY <1>1, DisplayAssumption DEF FailuresType
<1>. QED BY <1>2, <1>3, <1>4

LEMMA DisplayTypeStep == DTypeOK /\ [Next]_vars => DTypeOK'
<1>. SUFFICES ASSUME CallType, LogType, FailuresType, [Next]_vars
              PROVE  CallType' /\ LogType' /\ FailuresType'
  BY DTypeParts, PTL
<1>1. Run \/ InitSteps \/ Killed \/ UNCHANGED dvars
  BY DEF Next, BoardPowerOn, BoardRecover, BoardCut, BoardReboot, MemoryLost, InitScripts,
     S05cfg, S65display, S65polls, S65splash, S70link, S70restart, UserEdits, KernelWrites,
     Upgrade, Adapter, DisplayInit, Painting, Scene, vars
<1>2. failures' = failures \/ (failures < MaxFailures /\ failures' = failures + 1)
  BY <1>1 DEF Run, InitSteps, SysInit, DispSteps, Step, OpenHdmi, Killed, dvars, Failure,
     NoFailure
<1>3. FailuresType'
  BY <1>2, DisplayAssumption DEF FailuresType
<1>4. LogType'
  BY <1>1 DEF Run, InitSteps, SysInit, DispSteps, Step, OpenHdmi, Killed, dvars, LogType
<1>5. CallType'
  <2>1. CASE Step
    <3>1. dpc \in Hdmi /\ dpc' = After[dpc] /\ ok' \in {ok, ok \cup {dpc}} /\ hdmi_fd' = hdmi_fd
      BY <2>1 DEF Step
    <3>. QED BY <3>1 DEF CallType, Hdmi, After
  <2>2. CASE Run \/ SysInit \/ DispSteps \/ OpenHdmi \/ Killed \/ UNCHANGED dvars
    <3>1. /\ dpc' \in {dpc, "SYS_Init", "Disp", "exited", "open", "HDMI_Init", "hold", "none"}
          /\ hdmi_fd' \in {hdmi_fd, TRUE, FALSE} /\ ok' \in {ok, {}}
      BY <2>2 DEF Run, SysInit, DispSteps, OpenHdmi, Killed, dvars
    <3>. QED BY <3>1 DEF CallType, Hdmi
  <2>. QED BY <1>1, <2>1, <2>2 DEF InitSteps
<1>. QED BY <1>3, <1>4, <1>5

\* The init scripts.
InitTypeOK ==
    /\ init \in {"none", "S65display", "poll", "S70link", "done"}
    /\ polls \in 0 .. PollLimit

LEMMA InitTypeStep == InitTypeOK /\ [Next]_vars => InitTypeOK'
<1>. SUFFICES ASSUME InitTypeOK, [Next]_vars PROVE InitTypeOK'
  OBVIOUS
<1>1. init' \in {init, "none", "S65display", "poll", "S70link", "done"}
  BY DEF Next, BoardPowerOn, BoardRecover, BoardCut, BoardReboot, MemoryLost, InitScripts,
     S05cfg, S65display, S65polls, S65splash, S70link, S70restart, UserEdits, KernelWrites,
     Upgrade, Adapter, DisplayInit, Painting, Scene, vars, bootVars
<1>2. polls' \in {polls, 0} \/ (polls < PollLimit /\ polls' = polls + 1)
  BY DEF Next, BoardPowerOn, BoardRecover, BoardCut, BoardReboot, MemoryLost, InitScripts,
     S05cfg, S65display, S65polls, S65splash, S70link, S70restart, UserEdits, KernelWrites,
     Upgrade, Adapter, DisplayInit, Painting, Scene, vars, bootVars
<1>. QED BY <1>1, <1>2, PollAssumption DEF InitTypeOK

================================================================================
