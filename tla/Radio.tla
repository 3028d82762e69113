-------------------------------- MODULE Radio ---------------------------------
(***************************************************************************)
(* The Wi-Fi adapter and wifi-monitor.c, which puts it into monitor mode   *)
(* for wfb-start or by hand, and back into managed mode for apfpv.         *)
(*                                                                         *)
(* An ioctl is a step.  What the driver demands of them is external: an    *)
(* interface that is up does not change its type, one that is down has no  *)
(* channel, and any of them may be refused.                                *)
(***************************************************************************)
EXTENDS Integers, Sequences, FiniteSets

CONSTANTS
    Channel,        \* of wfb.conf
    Frames,         \* what recv may return
    TableSize,      \* the length of wfb_channels
    SniffSecs,      \* of wifi-monitor <iface> <channel> <seconds>
    MaxFrames,      \* bound: frames of one sniff
    MaxRefusals     \* bound: ioctls the driver refuses

ASSUME RadioAssumption ==
    {TableSize, SniffSecs, MaxFrames, MaxRefusals} \subseteq Nat

Default == 36                               \* where a driver starts

VARIABLES
    iface,          \* the interface: up, its type and its channel
    link,           \* who uses it: "none", "wfb" (wfb_rx), "apfpv" (wpa_supplicant)
    rpc, caller,    \* wifi-monitor, and who runs it
    told,           \* what it printed an error of since the adapter was set up
    left,           \* seconds to the deadline of sniff
    wfb_channels, wfb_packets,
    heard,          \* history: the streams that were on the air, whole
    refusals

sniffVars == <<left, wfb_channels, wfb_packets, heard>>
rvars == <<iface, link, rpc, caller, told, sniffVars, refusals>>

Fresh == [up |-> FALSE, mode |-> "managed", chan |-> Default]
RInit ==
    /\ iface = Fresh /\ link = "none" /\ rpc = "idle" /\ caller = "none"
    /\ told = {} /\ left = 0 /\ wfb_channels = <<>> /\ wfb_packets = 0
    /\ heard = {} /\ refusals = 0

Managed == caller = "apfpv"

\* A refusal, or none.
Refused == refusals < MaxRefusals /\ refusals' = refusals + 1
Obeyed == UNCHANGED refusals

----------------------------------------------------------------------------
(* Who runs it *)

\* wfb-start: wpa_supplicant goes first.  apfpv: wfb_rx goes first, and
\* wifi-monitor is needed only where the driver is not in managed mode.
WfbStarts ==
    /\ rpc = "idle"
    /\ link' = "none" /\ caller' = "wfb-start" /\ rpc' = "down" /\ told' = {}
    /\ UNCHANGED <<iface, sniffVars, refusals>>

ApfpvStarts ==
    /\ rpc = "idle"
    /\ link' = "none" /\ caller' = "apfpv" /\ told' = {}
    /\ rpc' = IF iface.mode # "managed" THEN "down" ELSE "exit 0"
    /\ UNCHANGED <<iface, sniffVars, refusals>>

\* By hand, to see whether the drone's packets are there at all.
SniffByHand ==
    /\ rpc = "idle" /\ link = "none"
    /\ caller' = "hand" /\ rpc' = "down" /\ told' = {}
    /\ UNCHANGED <<iface, link, sniffVars, refusals>>

----------------------------------------------------------------------------
(* main *)

\* set_flags(0, IFF_UP): a failure is only reported.
SetDown ==
    /\ rpc = "down"
    /\ \/ iface' = [iface EXCEPT !.up = FALSE] /\ Obeyed /\ UNCHANGED told
       \/ Refused /\ told' = told \cup {"ifdown"} /\ UNCHANGED iface
    /\ rpc' = "mode"
    /\ UNCHANGED <<link, caller, sniffVars>>

SetMode ==
    /\ rpc = "mode"
    /\ \/ /\ ~iface.up /\ Obeyed
          /\ iface' = [iface EXCEPT !.mode = IF Managed THEN "managed" ELSE "monitor"]
          /\ rpc' = "up" /\ UNCHANGED told
       \/ /\ (iface.up /\ Obeyed) \/ Refused
          /\ told' = told \cup {"mode"}
          /\ rpc' = "exit 1" /\ UNCHANGED iface
    /\ UNCHANGED <<link, caller, sniffVars>>

\* set_flags(IFF_UP, 0): fatal in monitor mode, only reported in managed.
UpFailsMutant == "channel"                  \* only reported in either
UpFails == IF Managed THEN "exit 0" ELSE "exit 1"

SetUp ==
    /\ rpc = "up"
    /\ \/ /\ iface' = [iface EXCEPT !.up = TRUE] /\ Obeyed
          /\ rpc' = (IF Managed THEN "exit 0" ELSE "channel") /\ UNCHANGED told
       \/ /\ Refused /\ told' = told \cup {"ifup"}
          /\ rpc' = UpFails /\ UNCHANGED iface
    /\ UNCHANGED <<link, caller, sniffVars>>

\* A channel that is refused is only reported: wfb-start goes on without it.
SetChannel ==
    /\ rpc = "channel"
    /\ \/ iface.up /\ Obeyed /\ iface' = [iface EXCEPT !.chan = Channel] /\ UNCHANGED told
       \/ /\ (~iface.up /\ Obeyed) \/ Refused
          /\ told' = told \cup {"channel"} /\ UNCHANGED iface
    /\ rpc' = IF caller = "hand" THEN "socket" ELSE "exit 0"
    /\ UNCHANGED <<link, caller, sniffVars>>

----------------------------------------------------------------------------
(* sniff *)

OpenSocket ==
    /\ rpc = "socket"
    /\ \/ /\ rpc' = "sniff" /\ Obeyed
          /\ left' = SniffSecs
          /\ wfb_channels' = <<>> /\ wfb_packets' = 0 /\ heard' = {}
       \/ rpc' = "exit 1" /\ Refused /\ UNCHANGED sniffVars
    /\ UNCHANGED <<iface, link, caller, told>>

\* A whole 802.11 header behind a radiotap header, with the W:B marker.
IsWfb(f) == f.rtap >= 8 /\ f.rtap + 16 <= f.n /\ f.marker

Known(c) == \E i \in 1 .. Len(wfb_channels) : wfb_channels[i] = c

Listed(c) ==
    IF ~Known(c) /\ Len(wfb_channels) < TableSize
    THEN Append(wfb_channels, c) ELSE wfb_channels

Receive ==
    /\ rpc = "sniff" /\ left > 0 /\ wfb_packets < MaxFrames
    /\ \E f \in Frames :
        /\ wfb_packets' = IF IsWfb(f) THEN wfb_packets + 1 ELSE wfb_packets
        /\ wfb_channels' = IF IsWfb(f) THEN Listed(f.chan) ELSE wfb_channels
        /\ heard' = heard \cup f.air
    /\ UNCHANGED <<iface, link, rpc, caller, told, left, refusals>>

\* A second passes, in which recv may have timed out.
Second ==
    /\ rpc = "sniff" /\ left > 0
    /\ left' = left - 1
    /\ UNCHANGED <<iface, link, rpc, caller, told, wfb_channels, wfb_packets, heard,
                   refusals>>

\* The deadline, or an error of recv that is not a timeout.
SniffEnds ==
    /\ rpc = "sniff"
    /\ (left = 0 /\ Obeyed) \/ Refused
    /\ rpc' = "exit 0"
    /\ UNCHANGED <<iface, link, caller, told, sniffVars>>

----------------------------------------------------------------------------
(* Its exit status, and what the caller makes of it *)

\* wfb-start starts wfb_rx if it was 0.  apfpv goes on in any case: ifconfig
\* up, and wpa_supplicant, which over an interface that stayed down may end.
GoesOn == caller = "wfb-start" /\ rpc = "exit 0"

ApfpvGoesOn ==
    \/ /\ iface' = [iface EXCEPT !.up = TRUE] /\ Obeyed
       /\ link' = "apfpv" /\ UNCHANGED told
    \/ /\ Refused /\ told' = told \cup {"ifconfig"}
       /\ link' \in {"apfpv", "none"} /\ UNCHANGED iface

Exited ==
    /\ rpc \in {"exit 0", "exit 1"}
    /\ IF Managed
       THEN ApfpvGoesOn
       ELSE link' = (IF GoesOn THEN "wfb" ELSE "none") /\ Obeyed /\ UNCHANGED <<iface, told>>
    /\ rpc' = "idle" /\ caller' = "none"
    /\ UNCHANGED sniffVars

MonitorSteps == SetDown \/ SetMode \/ SetUp \/ SetChannel \/ OpenSocket \/ Receive
                \/ Second \/ SniffEnds \/ Exited

RTypeOK ==
    /\ iface \in [up : BOOLEAN, mode : {"managed", "monitor"}, chan : {Default, Channel}]
    /\ link \in {"none", "wfb", "apfpv"}
    /\ rpc \in {"idle", "down", "mode", "up", "channel", "socket", "sniff", "exit 0", "exit 1"}
    /\ caller \in {"none", "wfb-start", "apfpv", "hand"}
    /\ told \subseteq {"ifdown", "mode", "ifup", "channel", "ifconfig"}
    /\ left \in 0 .. SniffSecs /\ wfb_packets \in 0 .. MaxFrames
    /\ refusals \in 0 .. MaxRefusals

\* wfb_rx never runs on an interface that is down or not in monitor mode,
\* and not on another channel unless wifi-monitor said so; wpa_supplicant
\* has a managed one that is up, unless wifi-monitor or ifconfig said so.
\* And the streams that sniff lists are the distinct streams there are, all
\* of them while the table lasts.
RadioAsAsked ==
    /\ link = "wfb" =>
        /\ iface.up /\ iface.mode = "monitor"
        /\ iface.chan = Channel \/ "channel" \in told
    /\ link = "apfpv" => /\ iface.up \/ "ifconfig" \in told
                         /\ iface.mode = "managed" \/ "mode" \in told
    /\ LET listed == {wfb_channels[i] : i \in 1 .. Len(wfb_channels)}
       IN  /\ listed \subseteq heard
           /\ Cardinality(listed) = Len(wfb_channels)
           /\ listed = heard \/ Len(wfb_channels) = TableSize
==============================================================================
