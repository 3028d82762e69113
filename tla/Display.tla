------------------------------- MODULE Display --------------------------------
(***************************************************************************)
(* mi-disp-init.c, which S65display starts in the background: it brings    *)
(* the display and HDMI up and then holds /dev/mi_hdmi open for ever.      *)
(* Every step that fails is reported, and only the first one ends it.      *)
(***************************************************************************)
EXTENDS Integers

CONSTANT MaxFailures                        \* bound: calls that fail

ASSUME DisplayAssumption == MaxFailures \in Nat

VARIABLES
    dpc,            \* the call it is about to make
    hdmi_fd,        \* /dev/mi_hdmi is open
    ok,             \* the calls to the transmitter that succeeded
    start,          \* the MI_HDMI_Start line of its log: "", "ok" or "FAILED"
    failures

dvars == <<dpc, hdmi_fd, ok, start, failures>>

DInit == dpc = "none" /\ hdmi_fd = FALSE /\ ok = {} /\ start = "" /\ failures = 0

\* The calls to the transmitter, and the one behind each.
Hdmi == {"HDMI_Init", "HDMI_Open", "HDMI_SetAttr", "HDMI_Start"}
After == [HDMI_Init |-> "HDMI_Open", HDMI_Open |-> "HDMI_SetAttr",
          HDMI_SetAttr |-> "HDMI_Start", HDMI_Start |-> "hold"]

\* The driver (external): the transmitter starts when it was opened.
Allowed(call) ==
    CASE call = "HDMI_Open"    -> "HDMI_Init" \in ok
      [] call = "HDMI_SetAttr" -> "HDMI_Open" \in ok
      [] call = "HDMI_Start"   -> {"HDMI_Open", "HDMI_SetAttr"} \subseteq ok
      [] OTHER                 -> TRUE

Failure == failures < MaxFailures /\ failures' = failures + 1
NoFailure == UNCHANGED failures

Run == dpc = "none" /\ dpc' = "SYS_Init" /\ UNCHANGED <<hdmi_fd, ok, start, failures>>

SysInit ==
    /\ dpc = "SYS_Init"
    /\ \/ dpc' = "Disp" /\ NoFailure
       \/ dpc' = "exited" /\ Failure
    /\ UNCHANGED <<hdmi_fd, ok, start>>

\* MI_DISP: seven steps, and nobody asks whether one of them failed.
DispSteps ==
    /\ dpc = "Disp" /\ dpc' = "open"
    /\ NoFailure \/ Failure
    /\ UNCHANGED <<hdmi_fd, ok, start>>

\* step: print, and go on.
Step ==
    /\ dpc \in Hdmi
    /\ \/ Allowed(dpc) /\ NoFailure /\ ok' = ok \cup {dpc}
       \/ ~Allowed(dpc) /\ NoFailure /\ UNCHANGED ok
       \/ Allowed(dpc) /\ Failure /\ UNCHANGED ok
    /\ start' = IF dpc # "HDMI_Start" THEN start
                ELSE IF dpc \in ok' THEN "ok" ELSE "FAILED"
    /\ dpc' = After[dpc]
    /\ UNCHANGED hdmi_fd

\* Without the device the log never gets its MI_HDMI_Start line.
OpenHdmi ==
    /\ dpc = "open"
    /\ \/ dpc' = "HDMI_Init" /\ hdmi_fd' = TRUE /\ NoFailure
       \/ dpc' = "hold" /\ UNCHANGED hdmi_fd /\ Failure
    /\ UNCHANGED <<ok, start>>

\* killall mi-disp-init: closing the device stops the transmitter.
Killed ==
    /\ dpc' = "none" /\ hdmi_fd' = FALSE /\ ok' = {} /\ start' = ""
    /\ UNCHANGED failures

InitSteps == SysInit \/ DispSteps \/ Step \/ OpenHdmi

TransmitterOn == hdmi_fd /\ "HDMI_Start" \in ok

DTypeOK ==
    /\ dpc \in {"none", "SYS_Init", "Disp", "open", "hold", "exited"} \cup Hdmi
    /\ hdmi_fd \in BOOLEAN /\ ok \subseteq Hdmi
    /\ start \in {"", "ok", "FAILED"} /\ failures \in 0 .. MaxFailures
==============================================================================
