---------------------------- MODULE PlayerSession -----------------------------
(***************************************************************************)
(* One mi-player after another under the supervisor of fpv-start: the RTSP *)
(* session it holds at the air unit, the MI pipeline it builds, its loop,  *)
(* and the ways it ends.                                                   *)
(*                                                                         *)
(* A request is written and its reply awaited in one place, so `pc' names  *)
(* the request.  A read that blocks returns only by an action of another:  *)
(* the peer, the clock, or a signal.  The recorder is in Recorder.tla; what*)
(* the loop does to a datagram, in RtpAssembly.tla.                        *)
(***************************************************************************)
EXTENDS Integers, Sequences, VdecShim

CONSTANTS
    Inputs,         \* of {"rtsp", "udp", "file"}: -r, -u, -f
    KEEPALIVE,      \* seconds between two OPTIONS: 25
    TIMEOUT,        \* seconds after which the air unit drops an idle session: 60
    MaxMishaps      \* bound: reboots, refusals and failed steps, all together

ASSUME SessionAssumption ==
    /\ Inputs \subseteq {"rtsp", "udp", "file"}
    /\ KEEPALIVE \in Nat \ {0} /\ TIMEOUT \in Nat
    /\ KEEPALIVE + 2 < TIMEOUT
    /\ MaxMishaps \in Nat

VARIABLES
    input,          \* where the video comes from
    pc, i,          \* where main is, and in which step of the build or unwind
    running, sup,   \* cleared by on_signal; the supervisor will start another
    set,            \* the MI modules load-mi has loaded: "xm" or "sdk"
    vdec_shift,     \* -1 until vdec_shift_init
    up,             \* what of the MI pipeline is set up
    flawed,         \* history: a step of this build has failed
    hdmi,           \* hdmi_fd >= 0
    tcp,            \* rtsp_fd, as the two kernels see the connection
    peer, session,  \* the air unit, and the session it holds
    idle,           \* seconds since it heard of that session
    last_ka,        \* seconds since rtsp_last_ka
    waited,         \* seconds this read has blocked
    missed,         \* history: SIGTERM fell between a test and the read it guards
    ended,          \* how the last player ended
    mishaps

mainVars == <<input, pc, i, running, sup, set, vdec_shift, up, flawed, hdmi, last_ka,
              waited, missed, ended>>
buildVars == <<set, vdec_shift, flawed>>
peerVars == <<tcp, peer, session, idle>>
vars == <<mainVars, peerVars, mishaps>>

\* The MI modules in the order they are built, and in the order they are undone.
Build  == <<"disp", "layer", "port", "vdec", "divp", "vdec-divp", "divp-disp",
            "decode">>
UnwindMutant == <<"decode", "vdec", "vdec-divp", "divp-disp", "port", "layer",
                  "disp", "divp">>
Unwind == <<"decode", "vdec-divp", "divp-disp", "port", "layer", "disp", "divp",
            "vdec">>
Modules == {Build[k] : k \in DOMAIN Build}

\* What the driver wants to be there for a module, and for as long as it is.
Needs(m) ==
    CASE m = "layer"     -> {"disp"}
      [] m = "port"      -> {"layer"}
      [] m = "vdec-divp" -> {"vdec", "divp"}
      [] m = "divp-disp" -> {"divp", "port"}
      [] m = "decode"    -> {"vdec"}
      [] OTHER           -> {}

\* The calls of MI_VDEC that build and undo its two modules.
BuildCalls == [vdec   |-> {"InitDev", "CreateChn", "SetChnParam", "SetOutputPortAttr",
                           "SetDisplayMode"},
               decode |-> {"StartChn"}]
UnwindCalls == [vdec |-> {"DestroyChn", "DeInitDev"}, decode |-> {"StopChn"}]

Built(m) == IF m \in DOMAIN BuildCalls THEN After(set, vdec_shift, BuildCalls[m], up)
            ELSE up \cup {m}
Undone(m) == IF m \in DOMAIN UnwindCalls THEN After(set, vdec_shift, UnwindCalls[m], up)
             ELSE up \ {m}

Start(in) == IF in = "rtsp" THEN "connect" ELSE "sys"

Init ==
    /\ input \in Inputs
    /\ pc = Start(input) /\ i = 1
    /\ running = TRUE /\ sup = TRUE
    /\ set \in {"xm", "sdk"} /\ vdec_shift = -1
    /\ up = {} /\ flawed = FALSE /\ hdmi = FALSE
    /\ tcp = "none" /\ peer = "up" /\ session = FALSE
    /\ idle = 0 /\ last_ka = 0 /\ waited = 0 /\ missed = FALSE
    /\ ended = "none" /\ mishaps = 0

Mishap == mishaps < MaxMishaps /\ mishaps' = mishaps + 1

\* main goes on at label; a read it blocks in there has only begun.
Goto(label) == pc' = label /\ waited' = 0

\* The process is gone.  Its descriptors are closed; the MI modules are not.
Ends(how) ==
    /\ Goto("exit")
    /\ ended' = how
    /\ hdmi' = FALSE /\ tcp' = "none"

----------------------------------------------------------------------------
(* rtsp_open *)

Requests == {"DESCRIBE", "SETUP", "PLAY", "OPTIONS", "TEARDOWN"}

Connect ==
    /\ pc = "connect" /\ peer = "up"
    /\ tcp' = "open"
    /\ Goto("DESCRIBE")
    /\ UNCHANGED <<input, buildVars, missed, i, running, sup, up, hdmi, last_ka,
                   ended, peer, session, idle, mishaps>>

ConnectFails ==
    /\ pc = "connect" /\ peer = "gone"
    /\ Ends("return_1")
    /\ UNCHANGED <<input, buildVars, missed, i, running, sup, up, last_ka, peer,
                   session, idle, mishaps>>

\* The reply of a peer that still knows this connection.
Hears(r) == pc = r /\ tcp = "open" /\ peer = "up"

Described ==
    /\ Hears("DESCRIBE")
    /\ Goto("SETUP")
    /\ UNCHANGED <<input, buildVars, missed, i, running, sup, up, hdmi, last_ka,
                   ended, tcp, peer, session, idle, mishaps>>

\* A build that still holds an old session may refuse; one that does not may not.
SetUp ==
    /\ Hears("SETUP")
    /\ session' = TRUE /\ idle' = 0
    /\ Goto("PLAY")
    /\ UNCHANGED <<input, buildVars, missed, i, running, sup, up, hdmi, last_ka,
                   ended, tcp, peer, mishaps>>

Played ==
    /\ Hears("PLAY")
    /\ idle' = 0 /\ last_ka' = 0
    /\ Goto("sys")
    /\ UNCHANGED <<input, buildVars, missed, i, running, sup, up, hdmi, ended,
                   tcp, peer, session, mishaps>>

\* Not "RTSP/1.0 200": rtsp_open gives up, and so does main.
Refused ==
    /\ \E r \in {"DESCRIBE", "SETUP", "PLAY"} : Hears(r)
    /\ (pc = "SETUP" /\ session /\ UNCHANGED mishaps) \/ Mishap
    /\ Ends("return_1")
    /\ UNCHANGED <<input, buildVars, missed, i, running, sup, up, last_ka, peer,
                   session, idle>>

----------------------------------------------------------------------------
(* The MI pipeline *)

\* vdec_shift_init, and MI_SYS_Init.
SysInit ==
    /\ pc = "sys"
    /\ vdec_shift' = vdec_shift_init(set)
    /\ Goto("build") /\ i' = 1
    /\ UNCHANGED <<input, missed, running, sup, set, up, flawed, hdmi, last_ka,
                   ended, peerVars, mishaps>>

SysInitFails ==
    /\ pc = "sys"
    /\ Mishap
    /\ Ends("return_1")
    /\ UNCHANGED <<input, buildVars, missed, i, running, sup, up, last_ka, peer,
                   session, idle>>

\* step() reports a failure of the driver, and main goes on all the same.
StepFails == flawed' = TRUE /\ Mishap

BuildStep ==
    /\ pc = "build" /\ i <= Len(Build)
    /\ \/ /\ up' = IF Needs(Build[i]) \subseteq up THEN Built(Build[i]) ELSE up
          /\ UNCHANGED <<flawed, mishaps>>
       \/ UNCHANGED up /\ StepFails
    /\ i' = i + 1
    /\ UNCHANGED <<input, missed, pc, running, sup, set, vdec_shift, hdmi,
                   last_ka, waited, ended, peerVars>>

HdmiStart ==
    /\ pc = "build" /\ i = Len(Build) + 1
    /\ \/ hdmi' = TRUE /\ UNCHANGED <<flawed, mishaps>>
       \/ UNCHANGED hdmi /\ StepFails
    /\ Goto("open")
    /\ UNCHANGED <<input, missed, i, running, sup, set, vdec_shift, up, last_ka,
                   ended, peerVars>>

\* The input, and the buffers.
OpenInput ==
    /\ pc = "open"
    /\ Goto("loop")
    /\ UNCHANGED <<input, buildVars, missed, i, running, sup, up, hdmi, last_ka,
                   ended, peerVars, mishaps>>

\* "return 1", with the pipeline up.
GivesUp ==
    /\ Ends("return_1")
    /\ UNCHANGED <<input, buildVars, missed, i, running, sup, up, last_ka, peer,
                   session, idle>>

\* No socket, or the port belongs to another (SO_REUSEADDR: not to a player).
open_udpFails == pc = "open" /\ input = "udp" /\ Mishap /\ GivesUp

\* No such file, or an empty one; no memory.
OpenInputFails == pc = "open" /\ Mishap /\ GivesUp

----------------------------------------------------------------------------
(* The loop *)

RequestMutant(r) ==                         \* send() with MSG_NOSIGNAL
    \/ tcp # "broken" /\ Goto(r) /\ UNCHANGED <<ended, hdmi, tcp>>
    \/ /\ tcp = "broken" /\ UNCHANGED <<ended, hdmi, tcp>>
       /\ Goto(IF r = "OPTIONS" THEN "loop" ELSE "unwind")

\* write() of a request: into a connection that is known to be dead it raises
\* SIGPIPE, which nobody handles.
Request(r) ==
    \/ tcp # "broken" /\ Goto(r) /\ UNCHANGED <<ended, hdmi, tcp>>
    \/ tcp = "broken" /\ Ends("SIGPIPE")

LoopTurns ==
    /\ pc = "loop" /\ running
    /\ Goto("read")
    /\ UNCHANGED <<input, buildVars, missed, i, running, sup, up, hdmi, last_ka,
                   ended, peerVars, mishaps>>

\* TEARDOWN first, then the unwind.
LoopEnds ==
    /\ (pc = "loop" /\ ~running) \/ pc = "broken_out"
    /\ i' = 1
    /\ IF input = "rtsp" THEN Request("TEARDOWN")
       ELSE Goto("unwind") /\ UNCHANGED <<ended, hdmi, tcp>>
    /\ UNCHANGED <<input, buildVars, missed, running, sup, up, last_ka, peer,
                   session, idle, mishaps>>

\* rtsp_keepalive, after every read of an RTSP stream.
Keepalive ==
    IF input = "rtsp" /\ last_ka >= KEEPALIVE
    THEN last_ka' = 0 /\ Request("OPTIONS")
    ELSE Goto("loop") /\ UNCHANGED <<last_ka, ended, hdmi, tcp>>

\* A datagram: the air unit sends as long as there is a session.
ReadPacket ==
    /\ pc = "read" /\ input # "file"
    /\ input = "rtsp" => peer = "up" /\ session
    /\ Keepalive
    /\ UNCHANGED <<input, buildVars, missed, i, running, sup, up, peer, session,
                   idle, mishaps>>

\* SO_RCVTIMEO, which only the RTSP path sets: one second.
TimesOutMutant == FALSE
TimesOut == input = "rtsp"

ReadTimesOut ==
    /\ pc = "read" /\ TimesOut /\ waited = 1
    /\ Keepalive
    /\ UNCHANGED <<input, buildVars, missed, i, running, sup, up, peer, session,
                   idle, mishaps>>

\* The next access unit of a file, at its pace.
ReadFile ==
    /\ pc = "read" /\ input = "file"
    /\ Goto("loop")
    /\ UNCHANGED <<input, buildVars, missed, i, running, sup, up, hdmi, last_ka,
                   ended, peerVars, mishaps>>

\* The end of the file, or an error on the socket.
ReadEnds ==
    /\ pc = "read"
    /\ IF input = "file" THEN UNCHANGED mishaps ELSE Mishap
    /\ Goto("broken_out")
    /\ UNCHANGED <<input, buildVars, missed, i, running, sup, up, hdmi, last_ka,
                   ended, peerVars>>

\* rtsp_req returns, with a reply, with nothing or with EINTR.  rtsp_open takes
\* the last two for the end; the loop and the TEARDOWN take no notice.
Returns(fd) ==
    CASE pc = "OPTIONS"  -> Goto("loop") /\ tcp' = fd /\ UNCHANGED <<ended, hdmi>>
      [] pc = "TEARDOWN" -> Goto("unwind") /\ tcp' = "none"
                            /\ UNCHANGED <<ended, hdmi>>
      [] OTHER           -> Ends("return_1")

Poked ==
    /\ Hears("OPTIONS")
    /\ idle' = 0
    /\ Returns("open")
    /\ UNCHANGED <<input, buildVars, missed, i, running, sup, up, last_ka, peer,
                   session, mishaps>>

TornDown ==
    /\ Hears("TEARDOWN")
    /\ session' = FALSE /\ idle' = 0
    /\ Returns("open")
    /\ UNCHANGED <<input, buildVars, missed, i, running, sup, up, last_ka, peer,
                   mishaps>>

\* The peer, which does not know this connection, resets it; or it times out.
ConnectionDies ==
    /\ pc \in Requests /\ tcp = "stale"
    /\ Returns("broken")
    /\ UNCHANGED <<input, buildVars, missed, i, running, sup, up, last_ka, peer,
                   session, idle, mishaps>>

\* The driver gives back what has been set up; hdmi_fd is closed at the end.
UnwindStep ==
    /\ pc = "unwind" /\ i <= Len(Unwind)
    /\ up' = Undone(Unwind[i])
    /\ i' = i + 1
    /\ UNCHANGED <<input, buildVars, missed, pc, running, sup, hdmi, last_ka,
                   waited, ended, peerVars, mishaps>>

Exit ==
    /\ pc = "unwind" /\ i = Len(Unwind) + 1
    /\ Ends("return_0")
    /\ UNCHANGED <<input, buildVars, missed, i, running, sup, up, last_ka, peer,
                   session, idle, mishaps>>

----------------------------------------------------------------------------
(* Around it *)

\* sigaction without SA_RESTART: a call that blocks fails with EINTR.
InterruptsMutant == FALSE                   \* signal(), which implies it
Interrupts == pc \in Requests \cup {"connect", "read"}

\* fpv-stop: the supervisor, then SIGTERM.  If main is only about to block the
\* call knows nothing of it.
Signal ==
    /\ running /\ pc # "exit"
    /\ running' = FALSE /\ sup' = FALSE
    /\ \/ ~Interrupts /\ UNCHANGED <<pc, waited, missed, ended, hdmi, tcp>>
       \/ Interrupts /\ missed' = TRUE /\ UNCHANGED <<pc, waited, ended, hdmi, tcp>>
       \/ /\ Interrupts /\ UNCHANGED missed
          /\ \/ pc = "connect" /\ Ends("return_1")
             \/ pc = "read" /\ Goto("loop") /\ UNCHANGED <<ended, hdmi, tcp>>
             \/ pc \in Requests /\ Returns(tcp)
    /\ UNCHANGED <<input, buildVars, i, up, last_ka, peer, session, idle,
                   mishaps>>

\* "player exited, retrying in 3s".  (What a player left of the pipeline the
\* driver has cleared away by then.)
Restart ==
    /\ pc = "exit" /\ sup /\ input # "file"
    /\ input = "rtsp" => waited = 1
    /\ Goto(Start(input)) /\ i' = 1
    /\ up' = {} /\ flawed' = FALSE /\ vdec_shift' = -1 /\ last_ka' = 0
    /\ ended' = "none"
    /\ UNCHANGED <<input, missed, running, sup, set, hdmi, peerVars, mishaps>>

\* The air unit loses power, or restarts its streamer.  A request that it had
\* acknowledged, but not answered, nobody ever sends again.
PeerReboots ==
    /\ input = "rtsp" /\ peer = "up"
    /\ Mishap
    /\ peer' = "gone" /\ session' = FALSE /\ idle' = 0
    /\ \/ tcp' = IF tcp = "open" THEN "stale" ELSE tcp
       \/ tcp = "open" /\ pc \in Requests /\ tcp' = "mute"
    /\ UNCHANGED mainVars

PeerReturns ==
    /\ peer = "gone" /\ peer' = "up"
    /\ UNCHANGED <<mainVars, tcp, session, idle, mishaps>>

\* A second passes.  A peer that is up answers within one, and so does the
\* clock for a read with a timeout; MI calls take no time to speak of.
Patience ==
    \/ pc = "read" /\ (TimesOut => waited < 1)
    \/ pc \in Requests /\ (tcp = "open" /\ peer = "up" => waited < 1)
    \/ pc = "exit"

UptoMutant(n, limit) == n + 1
Upto(n, limit) == IF n < limit THEN n + 1 ELSE limit

Tick ==
    /\ input = "rtsp" /\ Patience
    /\ last_ka' = Upto(last_ka, KEEPALIVE)
    /\ waited' = Upto(waited, 1)
    /\ IF session /\ idle + 1 < TIMEOUT
       THEN idle' = idle + 1 /\ UNCHANGED session
       ELSE idle' = 0 /\ session' = FALSE
    /\ UNCHANGED <<input, buildVars, pc, i, running, sup, missed, up, hdmi,
                   ended, tcp, peer, mishaps>>

RtspOpen == Connect \/ ConnectFails \/ Described \/ SetUp \/ Played \/ Refused
Pipeline == SysInit \/ SysInitFails \/ BuildStep \/ HdmiStart
                \/ OpenInput \/ open_udpFails \/ OpenInputFails
Loop     == LoopTurns \/ LoopEnds \/ ReadTimesOut \/ ReadFile
                \/ Poked \/ TornDown \/ ConnectionDies
Main     == RtspOpen \/ Pipeline \/ Loop \/ UnwindStep \/ Exit

Next ==
    \/ Main \/ ReadPacket \/ ReadEnds
    \/ Signal \/ Restart \/ PeerReboots \/ PeerReturns \/ Tick

Spec == Init /\ [][Next]_vars

\* The kernel runs main and times its reads out, an air unit that is up answers,
\* one that is gone comes back.  Nobody has to send video to a UDP port.
FairSpec ==
    /\ Spec
    /\ WF_vars(Main) /\ WF_vars(Restart) /\ WF_vars(PeerReturns) /\ WF_vars(Tick)

----------------------------------------------------------------------------
Labels == Requests \cup {"connect", "sys", "build", "open", "loop", "read",
                         "broken_out", "unwind", "exit"}

TypeOK ==
    /\ input \in Inputs
    /\ pc \in Labels /\ i \in 1 .. Len(Build) + 1
    /\ running \in BOOLEAN /\ sup \in BOOLEAN
    /\ set \in {"xm", "sdk"} /\ vdec_shift \in {-1, 0, 2}
    /\ up \in SUBSET Modules /\ flawed \in BOOLEAN /\ hdmi \in BOOLEAN
    /\ tcp \in {"none", "open", "stale", "mute", "broken"}
    /\ peer \in {"up", "gone"} /\ session \in BOOLEAN
    /\ idle \in 0 .. TIMEOUT /\ last_ka \in 0 .. KEEPALIVE /\ waited \in 0 .. 1
    /\ missed \in BOOLEAN
    /\ ended \in {"none", "return_0", "return_1", "SIGPIPE"}
    /\ mishaps \in 0 .. MaxMishaps

\* What "Unwind in the reverse of the order it was built" (mi-player.c:1496)
\* protects from: nothing is ever set up without what it needs, whichever steps
\* of the build have failed and wherever the unwind is, and the display is off
\* before the HDMI handle goes.
NothingLosesItsFooting ==
    /\ \A m \in up : Needs(m) \subseteq up
    /\ ended = "return_0" => up = {}

\* "Otherwise the server drops us" (mi-player.c:1289): a player in its loop
\* whose connection is good has its session, video or not.
SessionIsKept ==
    (input = "rtsp" /\ pc \in {"loop", "read"} /\ tcp = "open") => session

\* The process never ends with the pipeline up: the next player would start "on
\* top of a pipeline that was never torn down" (mi-player.c:1061).
NeverLeavesPipeline == ended # "SIGPIPE" \/ up = {}

\* SIGTERM ends the player, "with no video arriving" too (mi-player.c:1060): a
\* read in progress fails.  The signal can be missed only by falling between a
\* test and its read, or be held up by a reply that a rebooted air unit owes.
KillEndsPlayer == (~running /\ ~missed) ~> (pc = "exit" \/ tcp = "mute")

\* "The air unit may still be booting, or may have rebooted mid-flight"
\* (fpv-start:91): once it is there to stay, the stream comes back, and meets
\* a pipeline that is complete unless a driver call has failed: every call of
\* MI_VDEC has reached the routine it is named for, on either module set.
StreamComesBack ==
    <>[](input = "rtsp" /\ peer = "up" /\ sup /\ tcp # "mute")
        => []<>(session /\ pc = "read" /\ (flawed \/ (up = Modules /\ hdmi)))
==============================================================================
