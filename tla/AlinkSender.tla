----------------------------- MODULE AlinkSender ------------------------------
(***************************************************************************)
(* Adaptive link, ground half: alink-gs polls /tmp/wfb.status, which awk   *)
(* (wfb-start) rewrites in place once a second, and asks the air unit for  *)
(* a keyframe with a code it makes up.                                     *)
(*                                                                         *)
(* awk truncates the file when it opens it and fills it when it closes it; *)
(* the sender takes the time of a reading with stat() and the reading      *)
(* itself with fopen().  Nothing orders the four.                          *)
(* Of the message, only its score and its code are kept.                   *)
(***************************************************************************)
EXTENDS Integers

CONSTANTS
    STALE_SEC,
    IDR_MAX_MESSAGES,
    Signals,        \* what wfb_rx may measure: [rssi : dBm, snr : dB]
    MaxRewrites     \* bound: how often awk rewrites the file

ASSUME SenderAssumption ==
    /\ STALE_SEC \in Nat /\ MaxRewrites \in Nat
    /\ IDR_MAX_MESSAGES \in Nat \ {0}
    /\ Signals \subseteq [rssi : Int, snr : Int]

\* What an empty file reads as, and a line that has no signal in it.
Torn == [video |-> FALSE]
Readings == {Torn} \cup [video : {TRUE}, lost : BOOLEAN, signal : Signals]

----------------------------------------------------------------------------
(* The score *)

RSSI_MIN == -85
RSSI_MAX == -40
SNR_MIN == 10
SNR_MAX == 36
SCORE_MIN == 1000
SCORE_MAX == 2000

Least(a, b) == IF a < b THEN a ELSE b
clamp(v, lo, hi) == IF v < lo THEN lo ELSE Least(v, hi)

\* (The code divides and cuts off in doubles, which may give one less.)
normalise(v, lo, hi) ==
    clamp(SCORE_MIN + ((v - lo) * (SCORE_MAX - SCORE_MIN)) \div (hi - lo),
          SCORE_MIN, SCORE_MAX)

\* The two weigh the same.
Score(signal) ==
    clamp((normalise(signal.rssi, RSSI_MIN, RSSI_MAX)
             + normalise(signal.snr, SNR_MIN, SNR_MAX)) \div 2,
          SCORE_MIN, SCORE_MAX)
----------------------------------------------------------------------------

VARIABLES
    alive,          \* wfb_rx and awk run
    rewrites,       \* how often awk has opened the file
    opened,         \* ... and not yet closed it again
    status,         \* what the file reads as
    stamp,          \* its mtime; only whether two are equal matters
    age,            \* whole seconds since then
    spc,            \* the sender: about to "stat" or to "read"
    mtime,          \* its local of this name
    last_mtime, had_link, idr_left,
    score,          \* in the last message, 0 if there has been none
    asked,          \* history: codes made up for the reading in the file
    whole,          \* history: the poll under way began with this reading
    polled,         \* history: a whole poll of this reading is over
    straddled       \* history: a poll was under way when it was written

fileVars   == <<alive, rewrites, opened, status, stamp, age>>
senderVars == <<spc, mtime, last_mtime, had_link, idr_left, score>>
history    == <<asked, whole, polled, straddled>>
vars == <<fileVars, senderVars, history>>

\* There is no file yet, which stat() reports like one that is stale.
Init ==
    /\ alive = TRUE /\ rewrites = 0 /\ opened = FALSE
    /\ status = Torn /\ stamp = 0 /\ age = STALE_SEC + 1
    /\ spc = "stat" /\ mtime = 0 /\ last_mtime = 0
    /\ had_link = FALSE /\ idr_left = 0 /\ score = 0
    /\ asked = 0 /\ whole = FALSE /\ polled = TRUE /\ straddled = FALSE

----------------------------------------------------------------------------
(* awk, once a second *)

\* Timing: the sender polls four times while a reading stands (250ms against
\* 1s), so that one poll at least lies between two rewritings.
SenderKeepsUp == polled

OpenStatus ==
    /\ alive /\ ~opened
    /\ rewrites < MaxRewrites
    /\ SenderKeepsUp
    /\ opened' = TRUE /\ rewrites' = rewrites + 1
    /\ status' = Torn
    /\ stamp' = stamp + 1 /\ age' = 0
    /\ whole' = FALSE
    /\ UNCHANGED <<alive, senderVars, asked, polled, straddled>>

\* A second tick of the kernel's clock may fall between the two, or not.
CloseStatus ==
    /\ alive /\ opened
    /\ opened' = FALSE
    /\ status' \in Readings
    /\ stamp' \in {stamp, stamp + 1} /\ age' = 0
    /\ asked' = 0 /\ whole' = FALSE /\ polled' = FALSE
    /\ straddled' = (spc = "read")
    /\ UNCHANGED <<alive, rewrites, senderVars>>

\* wfb_rx or awk dies, or hangs: the file stays as it is.
ReportsEnd ==
    /\ alive
    /\ alive' = FALSE
    /\ UNCHANGED <<rewrites, opened, status, stamp, age, senderVars, history>>

Second ==
    /\ age <= STALE_SEC
    /\ age' = age + 1
    /\ UNCHANGED <<alive, rewrites, opened, status, stamp, senderVars, history>>

----------------------------------------------------------------------------
(* alink-gs *)

\* The poll is over: sleep, and stat() again.
EndPoll ==
    /\ spc' = "stat"
    /\ polled' = (polled \/ whole)

\* read_status failed: silence.
NoLink ==
    /\ EndPoll
    /\ had_link' = FALSE /\ idr_left' = 0

StatStaleMutant == FALSE                    \* age is not looked at
StatStale == age > STALE_SEC

StatFindsNothing ==
    /\ spc = "stat" /\ StatStale
    /\ NoLink
    /\ UNCHANGED <<fileVars, mtime, last_mtime, score, asked, whole, straddled>>

StatFindsReading ==
    /\ spc = "stat" /\ ~StatStale
    /\ spc' = "read"
    /\ mtime' = stamp
    /\ whole' = ~opened
    /\ UNCHANGED <<fileVars, last_mtime, had_link, idr_left, score, asked,
                   polled, straddled>>

\* Nothing in it, no packets, or packets that did not decrypt.
ReadFindsNoVideo ==
    /\ spc = "read" /\ ~status.video
    /\ NoLink
    /\ UNCHANGED <<fileVars, mtime, last_mtime, score, asked, whole, straddled>>

freshMutant == TRUE                         \* decided per message
fresh == mtime # last_mtime

NeedsKeyframeMutant == fresh /\ ~had_link   \* only when video starts
NeedsKeyframe == fresh /\ (status.lost \/ ~had_link)

\* One message less carries the code.
ChargedMutant(left) == left - 1
Charged(left) == IF left > 0 THEN left - 1 ELSE 0

\* The report, with the code as long as it lasts.
SendReport ==
    /\ spc = "read" /\ status.video
    /\ EndPoll
    /\ last_mtime' = mtime
    /\ had_link' = TRUE
    /\ score' = Score(status.signal)
    /\ idr_left' = Charged(IF NeedsKeyframe THEN IDR_MAX_MESSAGES ELSE idr_left)
    /\ asked' = IF NeedsKeyframe THEN asked + 1 ELSE asked
    /\ UNCHANGED <<fileVars, mtime, whole, straddled>>

\* It crashed, and its supervisor started the next one.
Restart ==
    /\ spc' = "stat" /\ mtime' = 0 /\ last_mtime' = 0
    /\ had_link' = FALSE /\ idr_left' = 0
    /\ asked' = 0 /\ whole' = FALSE /\ polled' = FALSE
    /\ UNCHANGED <<fileVars, score, straddled>>

Poll == StatFindsNothing \/ StatFindsReading \/ ReadFindsNoVideo \/ SendReport

Next ==
    \/ OpenStatus \/ CloseStatus \/ ReportsEnd \/ Second
    \/ Poll \/ Restart

Spec == Init /\ [][Next]_vars

\* The sender polls as long as it lives, and time goes by.
FairSpec == Spec /\ WF_vars(Poll) /\ WF_vars(Second)

----------------------------------------------------------------------------
TypeOK ==
    /\ alive \in BOOLEAN /\ rewrites \in 0 .. MaxRewrites /\ opened \in BOOLEAN
    /\ status \in Readings
    /\ stamp \in Nat /\ age \in 0 .. STALE_SEC + 1
    /\ spc \in {"stat", "read"}
    /\ mtime \in Nat /\ last_mtime \in Nat
    /\ had_link \in BOOLEAN /\ idr_left \in 0 .. IDR_MAX_MESSAGES
    /\ score \in {0} \cup SCORE_MIN .. SCORE_MAX
    /\ asked \in Nat
    /\ whole \in BOOLEAN /\ polled \in BOOLEAN /\ straddled \in BOOLEAN

\* What the air unit steers by is the reading in the file once a poll has lain
\* within it: its score, and "a new code on every loss" (alink-gs.c:225), however
\* earlier polls fell across the rewriting of the file.
ReadingIsReported ==
    (polled /\ ~opened /\ status.video)
        => score = Score(status.signal) /\ (status.lost => asked >= 1)

\* "But only once per reading" (alink-gs.c:226), and once more at most when a
\* poll took the time of one reading and the text of the next.
CodesPerReading == asked <= IF straddled THEN 2 ELSE 1

\* "A stale or signal-free status file makes this send nothing"
\* (alink-gs.c:20): when the reports have stopped the sender falls silent, and
\* stays so.
DeadLinkFallsSilent == []<>alive \/ <>[](spc = "stat" /\ ~had_link)
==============================================================================
