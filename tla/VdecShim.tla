------------------------------- MODULE VdecShim --------------------------------
(***************************************************************************)
(* mi-player's own ioctl(): the MI libraries number the calls of MI_VDEC as*)
(* the 2020 driver does, and XiongMai's 2023 driver has no InitDev and no  *)
(* DeInitDev, so that every other call is two further down.                *)
(*                                                                         *)
(* The tables stand for the closed library's and the two drivers': the     *)
(* calls the player makes, CreateChn at its own number.  The payload's byte*)
(* 4 (-esflag) and the trace of the first forty calls are left out.        *)
(***************************************************************************)
EXTENDS Integers, Sequences

Library == <<"InitDev", "DeInitDev", "CreateChn", "DestroyChn", "GetChnAttr", "StartChn",
             "StopChn", "GetChnStat", "SetChnParam", "SetDisplayMode",
             "SetOutputPortAttr", "SendStream">>
LibraryNr(call) == (CHOOSE k \in DOMAIN Library : Library[k] = call) - 1

\* What the driver of a module set dispatches on.
Driver(set) == IF set = "xm" THEN SubSeq(Library, 3, Len(Library)) ELSE Library

\* What load-mi has left in /tmp/mi-set.
vdec_shift_init(set) == IF set = "xm" THEN 2 ELSE 0

swallowed(shift, nr) == shift > 0 /\ nr < 2
sent(shift, nr) == IF shift > 0 THEN nr - shift ELSE nr

\* The routine of the driver that a call of the library ends in.
ioctl(set, shift, call) ==
    LET nr == LibraryNr(call)
    IN  IF swallowed(shift, nr) THEN "none"
        ELSE IF sent(shift, nr) + 1 \in DOMAIN Driver(set)
             THEN Driver(set)[sent(shift, nr) + 1] ELSE "none"

\* What a few calls make of the pipeline: the channel, and its decoding.
After(set, shift, calls, up) ==
    LET reached == {ioctl(set, shift, call) : call \in calls}
        Where(routine, m) == IF routine \in reached THEN {m} ELSE {}
    IN  (up \cup Where("CreateChn", "vdec")
            \cup (IF "vdec" \in up THEN Where("StartChn", "decode") ELSE {}))
        \ (Where("StopChn", "decode") \cup Where("DestroyChn", "vdec"))
===============================================================================
