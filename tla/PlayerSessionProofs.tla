------------------------- MODULE PlayerSessionProofs --------------------------
(***************************************************************************)
(* What holds of one mi-player after another, for every KEEPALIVE and      *)
(* TIMEOUT that SessionAssumption admits, and any number of mishaps.       *)
(*                                                                         *)
(* Footing: first that each call of MI_VDEC reaches the routine it is      *)
(* named for once vdec_shift_init has run (Reached, VdecCalls), then that  *)
(* the unwind meets each module after all that need it (UnwindOrder).      *)
(* Session: how long ago the air unit can last have heard from the player  *)
(* where it waits (Connected).                                             *)
(***************************************************************************)
EXTENDS PlayerSession, TLAPS

(* The MI_VDEC calls of the player, on either module set *)

LEMMA Numbers ==
    /\ LibraryNr("InitDev") = 0 /\ LibraryNr("DeInitDev") = 1
    /\ LibraryNr("CreateChn") = 2 /\ LibraryNr("DestroyChn") = 3
    /\ LibraryNr("StartChn") = 5 /\ LibraryNr("StopChn") = 6
    /\ LibraryNr("SetChnParam") = 8 /\ LibraryNr("SetDisplayMode") = 9
    /\ LibraryNr("SetOutputPortAttr") = 10
<1>1. DOMAIN Library = 1 .. 12
  BY DEF Library
<1>2. \A k \in 1 .. 12 : k \in {1, 2, 3, 4, 5, 6, 7, 8, 9, 10, 11, 12}
  OBVIOUS
<1>3. /\ Library[1] = "InitDev" /\ Library[2] = "DeInitDev" /\ Library[3] = "CreateChn"
      /\ Library[4] = "DestroyChn" /\ Library[5] = "GetChnAttr" /\ Library[6] = "StartChn"
      /\ Library[7] = "StopChn" /\ Library[8] = "GetChnStat" /\ Library[9] = "SetChnParam"
      /\ Library[10] = "SetDisplayMode" /\ Library[11] = "SetOutputPortAttr"
      /\ Library[12] = "SendStream"
  BY DEF Library
<1>4. \A k, m \in 1 .. 12 : Library[k] = Library[m] => k = m
  BY <1>2, <1>3
<1>5. ASSUME NEW k \in 1 .. 12 PROVE LibraryNr(Library[k]) = k - 1
  BY <1>1, <1>4 DEF LibraryNr
<1>. QED BY <1>3, <1>5

\* Every call reaches the routine it is named for; InitDev and DeInitDev are
\* swallowed where the driver has neither.
LEMMA Reached ==
    ASSUME NEW s \in {"xm", "sdk"}
    PROVE  /\ ioctl(s, vdec_shift_init(s), "CreateChn") = "CreateChn"
           /\ ioctl(s, vdec_shift_init(s), "DestroyChn") = "DestroyChn"
           /\ ioctl(s, vdec_shift_init(s), "StartChn") = "StartChn"
           /\ ioctl(s, vdec_shift_init(s), "StopChn") = "StopChn"
           /\ ioctl(s, vdec_shift_init(s), "SetChnParam") = "SetChnParam"
           /\ ioctl(s, vdec_shift_init(s), "SetDisplayMode") = "SetDisplayMode"
           /\ ioctl(s, vdec_shift_init(s), "SetOutputPortAttr") = "SetOutputPortAttr"
           /\ ioctl(s, vdec_shift_init(s), "InitDev") \in {"none", "InitDev"}
           /\ ioctl(s, vdec_shift_init(s), "DeInitDev") \in {"none", "DeInitDev"}
<1>1. CASE s = "sdk"
  BY <1>1, Numbers DEF ioctl, vdec_shift_init, swallowed, sent, Driver, Library
<1>2. CASE s = "xm"
  <2>1. Library \in Seq({Library[k] : k \in 1 .. 12}) /\ Len(Library) = 12
    BY DEF Library
  <2>2. /\ DOMAIN Driver(s) = 1 .. 10
        /\ \A k \in 1 .. 10 : Driver(s)[k] = Library[k + 2]
    BY <1>2, <2>1, Z3 DEF Driver
  <2>3. \A nr \in 2 .. 11 : sent(2, nr) + 1 \in 1 .. 10 /\ ~swallowed(2, nr)
                            /\ Driver(s)[sent(2, nr) + 1] = Library[nr + 1]
    BY <2>2 DEF sent, swallowed
  <2>4. vdec_shift_init(s) = 2 /\ swallowed(2, 0) /\ swallowed(2, 1)
    BY <1>2 DEF vdec_shift_init, swallowed
  <2>5. \A call : LibraryNr(call) \in 2 .. 11 => ioctl(s, 2, call) = Library[LibraryNr(call) + 1]
    BY <2>2, <2>3 DEF ioctl
  <2>6. \A call : LibraryNr(call) \in {0, 1} => ioctl(s, 2, call) = "none"
    BY <2>4 DEF ioctl
  <2>. QED BY <2>4, <2>5, <2>6, Numbers DEF Library
<1>. QED BY <1>1, <1>2

LEMMA VdecCalls ==
    ASSUME NEW s \in {"xm", "sdk"}, NEW u
    PROVE  /\ After(s, vdec_shift_init(s), BuildCalls["vdec"], u) = u \cup {"vdec"}
           /\ After(s, vdec_shift_init(s), BuildCalls["decode"], u) =
                 u \cup (IF "vdec" \in u THEN {"decode"} ELSE {})
           /\ After(s, vdec_shift_init(s), UnwindCalls["vdec"], u) = u \ {"vdec"}
           /\ After(s, vdec_shift_init(s), UnwindCalls["decode"], u) = u \ {"decode"}
<1>. DEFINE R(calls) == {ioctl(s, vdec_shift_init(s), call) : call \in calls}
<1>1. /\ {"CreateChn"} \subseteq R(BuildCalls["vdec"])
      /\ {"StartChn", "StopChn", "DestroyChn"} \cap R(BuildCalls["vdec"]) = {}
  BY Reached DEF BuildCalls
<1>2. R(BuildCalls["decode"]) = {"StartChn"}
  BY Reached DEF BuildCalls
<1>3. /\ {"DestroyChn"} \subseteq R(UnwindCalls["vdec"])
      /\ {"StartChn", "StopChn", "CreateChn"} \cap R(UnwindCalls["vdec"]) = {}
  BY Reached DEF UnwindCalls
<1>4. R(UnwindCalls["decode"]) = {"StopChn"}
  BY Reached DEF UnwindCalls
<1>5. ASSUME NEW calls
      PROVE  After(s, vdec_shift_init(s), calls, u) =
               (u \cup (IF "CreateChn" \in R(calls) THEN {"vdec"} ELSE {})
                  \cup (IF "vdec" \in u THEN (IF "StartChn" \in R(calls) THEN {"decode"} ELSE {})
                        ELSE {}))
               \ ((IF "StopChn" \in R(calls) THEN {"decode"} ELSE {})
                  \cup (IF "DestroyChn" \in R(calls) THEN {"vdec"} ELSE {}))
  BY DEF After
<1>. HIDE DEF R
<1>. QED BY <1>1, <1>2, <1>3, <1>4, <1>5

----------------------------------------------------------------------------
(* The pipeline *)

LEMMA Lists ==
    /\ Len(Build) = 8 /\ Len(Unwind) = 8 /\ DOMAIN Build = 1 .. 8
    /\ Build[1] = "disp" /\ Build[2] = "layer" /\ Build[3] = "port" /\ Build[4] = "vdec"
    /\ Build[5] = "divp" /\ Build[6] = "vdec-divp" /\ Build[7] = "divp-disp" /\ Build[8] = "decode"
    /\ Unwind[1] = "decode" /\ Unwind[2] = "vdec-divp" /\ Unwind[3] = "divp-disp"
    /\ Unwind[4] = "port" /\ Unwind[5] = "layer" /\ Unwind[6] = "disp" /\ Unwind[7] = "divp"
    /\ Unwind[8] = "vdec"
BY DEF Build, Unwind

LEMMA Eight == ASSUME NEW k \in 1 .. 8 PROVE k \in {1, 2, 3, 4, 5, 6, 7, 8}
OBVIOUS

LEMMA ModulesAre == Modules = {"disp", "layer", "port", "vdec", "divp", "vdec-divp", "divp-disp", "decode"}
<1>1. \A k \in 1 .. 8 : Build[k] \in {"disp", "layer", "port", "vdec", "divp", "vdec-divp", "divp-disp", "decode"}
  BY Lists, Eight
<1>. QED BY <1>1, Lists DEF Modules

LEMMA PipelineTypes ==
    ASSUME TypeOK, NEW m \in Modules
    PROVE  Built(m) \subseteq Modules /\ Undone(m) \subseteq Modules
<1>1. ASSUME NEW calls PROVE After(set, vdec_shift, calls, up) \subseteq Modules
  BY ModulesAre DEF After, TypeOK
<1>2. up \subseteq Modules
  BY DEF TypeOK
<1>. QED BY <1>1, <1>2 DEF Built, Undone

LEMMA WhatCallsDo ==
    ASSUME TypeOK, vdec_shift = vdec_shift_init(set), NEW m \in Modules
    PROVE  /\ Needs(m) \subseteq up => Built(m) = up \cup {m}
           /\ Undone(m) = up \ {m}
<1>1. DOMAIN BuildCalls = {"vdec", "decode"} /\ DOMAIN UnwindCalls = {"vdec", "decode"}
  BY DEF BuildCalls, UnwindCalls
<1>2. set \in {"xm", "sdk"}
  BY DEF TypeOK
<1>3. CASE m = "vdec"
  BY <1>1, <1>2, <1>3, VdecCalls DEF Built, Undone
<1>4. CASE m = "decode"
  <2>1. "vdec" \in up => Built(m) = up \cup {m}
    BY <1>1, <1>2, <1>4, VdecCalls DEF Built
  <2>2. Needs(m) = {"vdec"}
    BY <1>4 DEF Needs
  <2>3. Undone(m) = up \ {m}
    BY <1>1, <1>2, <1>4, VdecCalls DEF Undone
  <2>. QED BY <2>1, <2>2, <2>3
<1>5. CASE m \notin {"vdec", "decode"}
  BY <1>1, <1>5 DEF Built, Undone
<1>. QED BY <1>3, <1>4, <1>5

Left(k) == {Unwind[n] : n \in k .. Len(Unwind)}

\* Nothing that is still there when the unwind comes to a module needs it.
LEMMA UnwindOrder ==
    ASSUME NEW k \in 1 .. 8
    PROVE  /\ Left(k) = {Unwind[k]} \cup Left(k + 1)
           /\ Unwind[k] \in Modules
           /\ \A m \in Left(k + 1) : Unwind[k] \notin Needs(m)
<1>1. Left(k) = {Unwind[k]} \cup Left(k + 1)
  <2>1. \A n : n \in k .. 8 <=> n = k \/ n \in (k + 1) .. 8
    OBVIOUS
  <2>. QED BY <2>1, Lists DEF Left
<1>2. Unwind[k] \in Modules
  BY Lists, Eight, ModulesAre
<1>3. ASSUME NEW n \in (k + 1) .. 8 PROVE Unwind[k] \notin Needs(Unwind[n])
  <2>1. n \in 1 .. 8 /\ n > k
    OBVIOUS
  <2>. QED BY <2>1, Lists, Eight DEF Needs
<1>4. \A m \in Left(k + 1) : Unwind[k] \notin Needs(m)
  BY <1>3, Lists DEF Left
<1>. QED BY <1>1, <1>2, <1>4

LEMMA LeftEnds == Left(1) = Modules /\ Left(9) = {}
<1>1. \A k \in 1 .. 8 : Unwind[k] \in Modules
  BY UnwindOrder
<1>2. {Unwind[k] : k \in 1 .. 8} = Modules
  BY <1>1, Lists, ModulesAre
<1>. QED BY <1>2, Lists DEF Left

----------------------------------------------------------------------------
(* Types: the flags, and the rest. *)

Flags ==
    /\ running \in BOOLEAN /\ sup \in BOOLEAN /\ flawed \in BOOLEAN /\ hdmi \in BOOLEAN
    /\ session \in BOOLEAN /\ missed \in BOOLEAN
Rest ==
    /\ input \in Inputs /\ pc \in Labels /\ i \in 1 .. 9
    /\ set \in {"xm", "sdk"} /\ vdec_shift \in {-1, 0, 2} /\ up \in SUBSET Modules
    /\ tcp \in {"none", "open", "stale", "mute", "broken"} /\ peer \in {"up", "gone"}
    /\ idle \in 0 .. TIMEOUT /\ last_ka \in 0 .. KEEPALIVE /\ waited \in 0 .. 1
    /\ ended \in {"none", "return_0", "return_1", "SIGPIPE"} /\ mishaps \in 0 .. MaxMishaps

LEMMA TwoParts == (TypeOK <=> Flags /\ Rest) /\ (TypeOK' <=> Flags' /\ Rest')
BY Lists DEF TypeOK, Flags, Rest

LEMMA FlagsStep == Flags /\ [Next]_vars => Flags'
<1>. USE DEF Flags, Goto, Ends, mainVars, buildVars, peerVars
<1>1. ASSUME Flags, RtspOpen PROVE Flags'
  BY <1>1 DEF RtspOpen, Connect, ConnectFails, Described, SetUp, Played, Refused, Hears
<1>2. ASSUME Flags, Pipeline PROVE Flags'
  BY <1>2 DEF Pipeline, SysInit, SysInitFails, BuildStep, HdmiStart, OpenInput, open_udpFails,
     OpenInputFails, StepFails, GivesUp, vdec_shift_init
<1>3. ASSUME Flags, Loop PROVE Flags'
  BY <1>3 DEF Loop, LoopTurns, LoopEnds, ReadTimesOut, ReadFile, Poked, TornDown,
     ConnectionDies, Hears, Request, Keepalive, Returns
<1>4. ASSUME Flags, ReadPacket \/ ReadEnds \/ UnwindStep \/ Exit PROVE Flags'
  BY <1>4 DEF ReadPacket, ReadEnds, UnwindStep, Exit, Request, Keepalive
<1>5. ASSUME Flags, Signal \/ Restart \/ PeerReboots \/ PeerReturns \/ Tick PROVE Flags'
  BY <1>5 DEF Signal, Restart, PeerReboots, PeerReturns, Tick, Interrupts, Returns, Start, Upto,
     Patience
<1>6. ASSUME Flags, UNCHANGED vars PROVE Flags'
  BY <1>6 DEF vars
<1>. QED BY <1>1, <1>2, <1>3, <1>4, <1>5, <1>6 DEF Next, Main

LEMMA RestStep == TypeOK /\ [Next]_vars => Rest'
<1>. USE SessionAssumption DEF Rest, Goto, Ends, Mishap, Labels, Requests, mainVars, buildVars, peerVars
<1>1. ASSUME Rest, RtspOpen PROVE Rest'
  BY <1>1 DEF RtspOpen, Connect, ConnectFails, Described, SetUp, Played, Refused, Hears
<1>2. ASSUME TypeOK, Rest, Pipeline PROVE Rest'
  <2>1. CASE BuildStep
    <3>1. Build[i] \in Modules
      BY <1>2, <2>1, Lists DEF BuildStep, Modules
    <3>2. up' \in SUBSET Modules
      BY <1>2, <2>1, <3>1, PipelineTypes DEF BuildStep
    <3>. QED BY <1>2, <2>1, <3>2, Lists DEF BuildStep, StepFails
  <2>2. CASE ~BuildStep
    BY <1>2, <2>2 DEF Pipeline, SysInit, SysInitFails, HdmiStart, OpenInput, open_udpFails,
       OpenInputFails, StepFails, GivesUp, vdec_shift_init
  <2>. QED BY <2>1, <2>2
<1>3. ASSUME Rest, Loop PROVE Rest'
  BY <1>3 DEF Loop, LoopTurns, LoopEnds, ReadTimesOut, ReadFile, Poked, TornDown,
     ConnectionDies, Hears, Request, Keepalive, Returns
<1>4. ASSUME TypeOK, Rest, ReadPacket \/ ReadEnds \/ UnwindStep \/ Exit PROVE Rest'
  <2>1. CASE UnwindStep
    <3>1. Undone(Unwind[i]) \in SUBSET Modules
      BY <1>4, <2>1, PipelineTypes, UnwindOrder, Lists DEF UnwindStep
    <3>. QED BY <1>4, <2>1, <3>1, Lists DEF UnwindStep
  <2>2. CASE ReadPacket \/ ReadEnds \/ Exit
    BY <1>4, <2>2 DEF ReadPacket, ReadEnds, Exit, Request, Keepalive
  <2>. QED BY <1>4, <2>1, <2>2
<1>5. ASSUME Rest, Signal \/ Restart \/ PeerReboots \/ PeerReturns \/ Tick PROVE Rest'
  BY <1>5 DEF Signal, Restart, PeerReboots, PeerReturns, Tick, Interrupts, Returns, Start, Upto,
     Patience
<1>6. ASSUME Rest, UNCHANGED vars PROVE Rest'
  BY <1>6 DEF vars
<1>. QED
  <2>. SUFFICES ASSUME TypeOK, [Next]_vars PROVE Rest'
    OBVIOUS
  <2>1. Rest
    BY TwoParts
  <2>. QED BY <1>1, <1>2, <1>3, <1>4, <1>5, <1>6, <2>1 DEF Next, Main

LEMMA TypesStep == TypeOK /\ [Next]_vars => TypeOK'
BY TwoParts, FlagsStep, RestStep

----------------------------------------------------------------------------
(* The invariant *)

\* From vdec_shift_init on, the shift is that of the modules that are loaded.
Shifted ==
    pc \in {"build", "open", "loop", "read", "OPTIONS", "TEARDOWN", "broken_out", "unwind"}
        => vdec_shift = vdec_shift_init(set)

\* What is up rests on what it needs; the unwind has undone what it has passed.
Footing ==
    /\ \A m \in up : Needs(m) \subseteq up
    /\ pc = "TEARDOWN" => i = 1
    /\ pc = "unwind" => up \subseteq Left(i)
    /\ pc # "exit" => ended = "none"
    /\ ended = "return_0" => up = {}

\* A connection that is good is one the peer knows, and has heard from not much
\* longer ago than the last OPTIONS; the reply to that takes a second.
Behind == idle <= KEEPALIVE + waited /\ (last_ka < KEEPALIVE => idle <= last_ka)
Connected ==
    /\ pc = "PLAY" => session /\ idle <= waited
    /\ pc \in {"sys", "build", "open"} => session /\ idle = 0 /\ last_ka = 0
    /\ pc = "loop" => session /\ (running => waited = 0 /\ Behind)
    /\ pc = "read" => session /\ Behind
    /\ pc = "OPTIONS" => session /\ idle <= KEEPALIVE + 1 + waited
Session ==
    /\ tcp = "open" => peer = "up"
    /\ input = "rtsp" /\ tcp = "open" => Connected

IInv == TypeOK /\ Shifted /\ Footing /\ Session

LEMMA ShiftedStep == Shifted /\ [Next]_vars => Shifted'
<1>. USE DEF Shifted, Goto, Ends, mainVars, buildVars, peerVars, Requests
<1>1. ASSUME Shifted, RtspOpen PROVE Shifted'
  BY <1>1 DEF RtspOpen, Connect, ConnectFails, Described, SetUp, Played, Refused, Hears
<1>2. ASSUME Shifted, Pipeline PROVE Shifted'
  BY <1>2 DEF Pipeline, SysInit, SysInitFails, BuildStep, HdmiStart, OpenInput, open_udpFails,
     OpenInputFails, StepFails, GivesUp
<1>3. ASSUME Shifted, Loop PROVE Shifted'
  BY <1>3 DEF Loop, LoopTurns, LoopEnds, ReadTimesOut, ReadFile, Poked, TornDown,
     ConnectionDies, Hears, Request, Keepalive, Returns
<1>4. ASSUME Shifted, ReadPacket \/ ReadEnds \/ UnwindStep \/ Exit PROVE Shifted'
  BY <1>4 DEF ReadPacket, ReadEnds, UnwindStep, Exit, Request, Keepalive
<1>5. ASSUME Shifted, Signal \/ Restart \/ PeerReboots \/ PeerReturns \/ Tick PROVE Shifted'
  BY <1>5 DEF Signal, Restart, PeerReboots, PeerReturns, Tick, Interrupts, Returns, Start, Upto,
     Patience
<1>6. ASSUME Shifted, UNCHANGED vars PROVE Shifted'
  BY <1>6 DEF vars
<1>. QED BY <1>1, <1>2, <1>3, <1>4, <1>5, <1>6 DEF Next, Main

LEMMA FootingStep == TypeOK /\ Shifted /\ Footing /\ [Next]_vars => Footing'
<1>. USE DEF Footing, Goto, Ends, mainVars, buildVars, peerVars, Requests
<1>1. ASSUME Footing, RtspOpen PROVE Footing'
  BY <1>1 DEF RtspOpen, Connect, ConnectFails, Described, SetUp, Played, Refused, Hears
<1>2. ASSUME TypeOK, Shifted, Footing, Pipeline PROVE Footing'
  <2>1. CASE BuildStep
    <3>1. Build[i] \in Modules
      BY <1>2, <2>1, Lists DEF BuildStep, Modules, TypeOK
    <3>2. up' = up \/ (up' = up \cup {Build[i]} /\ Needs(Build[i]) \subseteq up)
      BY <1>2, <2>1, <3>1, WhatCallsDo DEF BuildStep, Shifted
    <3>3. \A m \in up' : Needs(m) \subseteq up'
      BY <1>2, <3>2
    <3>. QED BY <1>2, <2>1, <3>3 DEF BuildStep
  <2>2. CASE ~BuildStep
    BY <1>2, <2>2 DEF Pipeline, SysInit, SysInitFails, HdmiStart, OpenInput, open_udpFails,
       OpenInputFails, StepFails, GivesUp
  <2>. QED BY <2>1, <2>2
<1>3. ASSUME TypeOK, Footing, Loop PROVE Footing'
  <2>1. up \subseteq Left(1)
    BY <1>3, LeftEnds DEF TypeOK
  <2>. QED
    BY <1>3, <2>1 DEF Loop, LoopTurns, LoopEnds, ReadTimesOut, ReadFile, Poked, TornDown,
       ConnectionDies, Hears, Request, Keepalive, Returns
<1>4. ASSUME TypeOK, Shifted, Footing, UnwindStep PROVE Footing'
  <2>1. i \in 1 .. 8 /\ pc = "unwind" /\ i' = i + 1 /\ UNCHANGED <<pc, ended>>
    BY <1>4, Lists DEF UnwindStep, TypeOK
  <2>2. up' = up \ {Unwind[i]}
    BY <1>4, <2>1, WhatCallsDo, UnwindOrder DEF UnwindStep, Shifted
  <2>3. up' \subseteq Left(i + 1)
    BY <1>4, <2>1, <2>2, UnwindOrder
  <2>4. \A m \in up' : Needs(m) \subseteq up'
    BY <1>4, <2>1, <2>2, <2>3, UnwindOrder
  <2>. QED BY <1>4, <2>1, <2>3, <2>4
<1>5. ASSUME TypeOK, Footing, Exit PROVE Footing'
  BY <1>5, LeftEnds, Lists DEF Exit
<1>6. ASSUME TypeOK, Footing, ReadPacket \/ ReadEnds PROVE Footing'
  BY <1>6 DEF ReadPacket, ReadEnds, Request, Keepalive
<1>7. ASSUME TypeOK, Footing, Signal PROVE Footing'
  <2>1. up \subseteq Left(1)
    BY <1>7, LeftEnds DEF TypeOK
  <2>. QED BY <1>7, <2>1 DEF Signal, Interrupts, Returns
<1>8. ASSUME Footing, Restart \/ PeerReboots \/ PeerReturns \/ Tick PROVE Footing'
  BY <1>8 DEF Restart, Start, PeerReboots, PeerReturns, Tick
<1>9. ASSUME Footing, UNCHANGED vars PROVE Footing'
  BY <1>9 DEF vars
<1>. QED BY <1>1, <1>2, <1>3, <1>4, <1>5, <1>6, <1>7, <1>8, <1>9 DEF Next, Main

LEMMA SessionStep == TypeOK /\ Session /\ [Next]_vars => Session'
<1>. USE SessionAssumption
     DEF Session, Connected, Behind, Goto, Ends, mainVars, buildVars, peerVars, Requests
<1>1. ASSUME TypeOK, Session, RtspOpen PROVE Session'
  BY <1>1 DEF TypeOK, RtspOpen, Connect, ConnectFails, Described, SetUp, Played, Refused, Hears
<1>2. ASSUME TypeOK, Session, Pipeline PROVE Session'
  BY <1>2 DEF TypeOK, Pipeline, SysInit, SysInitFails, BuildStep, HdmiStart, OpenInput,
     open_udpFails, OpenInputFails, StepFails, GivesUp
<1>3. ASSUME TypeOK, Session, Loop PROVE Session'
  BY <1>3 DEF TypeOK, Loop, LoopTurns, LoopEnds, ReadTimesOut, ReadFile, Poked, TornDown,
     ConnectionDies, Hears, Request, Keepalive, Returns
<1>4. ASSUME TypeOK, Session, ReadPacket \/ ReadEnds \/ UnwindStep \/ Exit PROVE Session'
  BY <1>4 DEF TypeOK, ReadPacket, ReadEnds, UnwindStep, Exit, Request, Keepalive
<1>5. ASSUME TypeOK, Session, Signal \/ Restart \/ PeerReboots \/ PeerReturns \/ Tick
      PROVE  Session'
  <2>1. CASE Signal
    BY <1>5, <2>1 DEF TypeOK, Signal, Interrupts, Returns
  <2>2. CASE Tick
    <3>1. \/ pc = "read" /\ waited < 1
          \/ pc \in Requests /\ (tcp = "open" /\ peer = "up" => waited < 1)
          \/ pc = "exit"
      BY <1>5, <2>2 DEF Tick, Patience, TimesOut
    <3>2. /\ waited' = Upto(waited, 1) /\ last_ka' = Upto(last_ka, KEEPALIVE)
          /\ UNCHANGED <<input, pc, running, tcp, peer>>
          /\ (session /\ idle + 1 < TIMEOUT) => idle' = idle + 1 /\ session' = session
      BY <2>2 DEF Tick
    <3>3. waited < 1 => waited' = waited + 1
      BY <3>2 DEF Upto
    <3>4. last_ka' < KEEPALIVE => last_ka < KEEPALIVE /\ last_ka' = last_ka + 1
      BY <1>5, <3>2 DEF Upto, TypeOK
    <3>5. idle \in Nat /\ last_ka \in Nat /\ waited \in 0 .. 1
      BY <1>5 DEF TypeOK
    <3>6. ASSUME input = "rtsp", tcp = "open", pc \in {"PLAY", "read", "OPTIONS"}
          PROVE  /\ session /\ session' = session /\ idle' = idle + 1
                 /\ waited' = waited + 1 /\ waited = 0
      BY <1>5, <3>1, <3>2, <3>3, <3>5, <3>6
    <3>7. ASSUME input = "rtsp", tcp = "open" PROVE Connected'
      BY <1>5, <3>1, <3>2, <3>4, <3>5, <3>6, <3>7
    <3>. QED BY <1>5, <3>2, <3>7
  <2>3. CASE Restart \/ PeerReboots \/ PeerReturns
    BY <1>5, <2>3 DEF Restart, Start, PeerReboots, PeerReturns
  <2>. QED BY <1>5, <2>1, <2>2, <2>3
<1>6. ASSUME Session, UNCHANGED vars PROVE Session'
  BY <1>6 DEF vars
<1>. QED BY <1>1, <1>2, <1>3, <1>4, <1>5, <1>6 DEF Next, Main

LEMMA InitIInv == Init => IInv
<1>. SUFFICES ASSUME Init PROVE IInv
  OBVIOUS
<1>. USE SessionAssumption DEF Init, Start
<1>1. Flags
  BY DEF Flags
<1>2. Rest
  BY DEF Rest, Labels, Requests
<1>3. Shifted /\ Session
  BY DEF Shifted, Session, Connected
<1>4. Footing
  BY DEF Footing
<1>. QED BY <1>1, <1>2, <1>3, <1>4, TwoParts DEF IInv

\* Every behaviour of the players keeps the invariant.
THEOREM SessionInvariant == FairSpec => []IInv
<1>1. IInv /\ [Next]_vars => IInv'
  BY TypesStep, ShiftedStep, FootingStep, SessionStep DEF IInv
<1>. QED BY InitIInv, <1>1, PTL DEF FairSpec, Spec

\* main, the air unit and the supervisor keep to their values, whatever the
\* inputs and the periods.
THEOREM SessionTypes == FairSpec => []TypeOK
<1>1. IInv => TypeOK
  BY DEF IInv
<1>. QED BY <1>1, SessionInvariant, PTL

\* "Unwind in the reverse of the order it was built" (mi-player.c:1496): no
\* module of MI is ever up without what it needs, on either module set, after
\* whichever failures of the build; a player that returns 0 leaves none.
THEOREM UnwindIsSafe == FairSpec => []NothingLosesItsFooting
<1>1. IInv => NothingLosesItsFooting
  BY DEF IInv, Footing, NothingLosesItsFooting
<1>. QED BY <1>1, SessionInvariant, PTL

\* "Otherwise the server drops us" (mi-player.c:1289): with any two periods that
\* are three seconds apart, the session is there as long as the loop reads from
\* a connection that is good, whether or not any video comes.
THEOREM KeepaliveKeepsSession == FairSpec => []SessionIsKept
<1>1. IInv => SessionIsKept
  BY DEF IInv, Session, Connected, SessionIsKept
<1>. QED BY <1>1, SessionInvariant, PTL

===============================================================================
