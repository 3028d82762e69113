--------------------------- MODULE AlinkSenderProofs ---------------------------
(***************************************************************************)
(* What the adaptive link promises for every set of signals, every number  *)
(* of rewritings and of messages per code.                                 *)
(***************************************************************************)
EXTENDS AlinkSender, TLAPS

\* A reading has a time of its own: that of the last message is an earlier one,
\* unless the message was about this reading, and then it was the right message.
ReadingsAreApart ==
    /\ last_mtime <= stamp /\ mtime <= stamp
    /\ opened => last_mtime < stamp /\ status = Torn
    /\ status.video => stamp > 0
    /\ (last_mtime = stamp /\ status.video)
         => (status.lost => asked >= 1)

\* A poll that began within the reading holds its time, and once it is over the
\* reading counts as polled.
WholePolls ==
    /\ whole => ~opened /\ (spc = "read" => mtime = stamp)
    /\ whole /\ spc = "stat" => polled

\* Only a poll under way when the file was written holds an older time, and it
\* comes before any that holds the right one.
OldPolls ==
    /\ (~opened /\ spc = "read" /\ mtime # stamp) => straddled /\ asked = 0
    /\ asked >= 1 => straddled \/ (last_mtime = stamp \/ opened)
    /\ asked >= 2 => last_mtime = stamp \/ opened

ReportsInv == ReadingIsReported /\ CodesPerReading
                /\ ReadingsAreApart /\ WholePolls /\ OldPolls

----------------------------------------------------------------------------
(* The score *)

LEMMA ClampInRange ==
    ASSUME NEW v \in Int, NEW lo \in Int, NEW hi \in Int, lo <= hi
    PROVE  clamp(v, lo, hi) \in lo .. hi
BY DEF clamp, Least

LEMMA ScoresInOrder ==
    SCORE_MIN \in Int /\ SCORE_MAX \in Int /\ SCORE_MIN <= SCORE_MAX
BY DEF SCORE_MIN, SCORE_MAX

LEMMA NormaliseInRange ==
    ASSUME NEW v \in Int, NEW lo \in Int, NEW hi \in Int, lo < hi
    PROVE  normalise(v, lo, hi) \in SCORE_MIN .. SCORE_MAX
<1>. DEFINE q == SCORE_MIN + ((v - lo) * (SCORE_MAX - SCORE_MIN)) \div (hi - lo)
<1>1. q \in Int BY DEF SCORE_MIN, SCORE_MAX
<1>. HIDE DEF q
<1>2. clamp(q, SCORE_MIN, SCORE_MAX) \in SCORE_MIN .. SCORE_MAX
  BY <1>1, ScoresInOrder, ClampInRange
<1>. QED BY <1>2 DEF normalise, q

\* Whatever wfb_rx measures, the score is one alink_drone has a profile for.
THEOREM ScoreInRange ==
    ASSUME NEW signal \in Signals PROVE Score(signal) \in SCORE_MIN .. SCORE_MAX
<1>1. signal.rssi \in Int /\ signal.snr \in Int BY SenderAssumption
<1>. DEFINE a == normalise(signal.rssi, RSSI_MIN, RSSI_MAX)
            b == normalise(signal.snr, SNR_MIN, SNR_MAX)
<1>2. a \in SCORE_MIN .. SCORE_MAX
  BY <1>1, NormaliseInRange DEF RSSI_MIN, RSSI_MAX
<1>3. b \in SCORE_MIN .. SCORE_MAX
  BY <1>1, NormaliseInRange DEF SNR_MIN, SNR_MAX
<1>. DEFINE mean == (a + b) \div 2
<1>. HIDE DEF a, b
<1>4. mean \in Int BY <1>2, <1>3 DEF SCORE_MIN, SCORE_MAX
<1>. HIDE DEF mean
<1>5. clamp(mean, SCORE_MIN, SCORE_MAX) \in SCORE_MIN .. SCORE_MAX
  BY <1>4, ScoresInOrder, ClampInRange
<1>. QED BY <1>5 DEF Score, mean, a, b

----------------------------------------------------------------------------
(* The invariant *)

LEMMA TornIsReading == Torn \in Readings /\ ~Torn.video
BY DEF Torn, Readings

LEMMA ReadingFields ==
    ASSUME NEW r \in Readings
    PROVE  /\ r.video \in BOOLEAN
           /\ r.video => r.lost \in BOOLEAN /\ r.signal \in Signals
<1>1. CASE r = Torn
  BY <1>1, TornIsReading DEF Torn
<1>2. CASE r \in [video : {TRUE}, lost : BOOLEAN, signal : Signals]
  BY <1>2
<1>. QED BY <1>1, <1>2 DEF Readings

\* The types, a kind at a time.
Switches ==
    /\ alive \in BOOLEAN /\ opened \in BOOLEAN /\ spc \in {"stat", "read"}
    /\ had_link \in BOOLEAN /\ whole \in BOOLEAN /\ polled \in BOOLEAN
    /\ straddled \in BOOLEAN
Times == stamp \in Nat /\ mtime \in Nat /\ last_mtime \in Nat /\ asked \in Nat
Counters ==
    /\ rewrites \in 0 .. MaxRewrites
    /\ age \in 0 .. STALE_SEC + 1
    /\ idr_left \in 0 .. IDR_MAX_MESSAGES
Values == status \in Readings /\ score \in {0} \cup SCORE_MIN .. SCORE_MAX

LEMMA Types == TypeOK <=> Switches /\ Times /\ Counters /\ Values
BY DEF TypeOK, Switches, Times, Counters, Values

LEMMA Bounds ==
    STALE_SEC \in Nat /\ MaxRewrites \in Nat /\ IDR_MAX_MESSAGES \in Nat
BY SenderAssumption

LEMMA TypesInit == Init => TypeOK
<1>. SUFFICES ASSUME Init PROVE Switches /\ Times /\ Counters /\ Values
  BY Types
<1>1. Switches
  BY DEF Init, Switches
<1>2. Times
  BY DEF Init, Times
<1>3. Counters
  <2>1. rewrites \in 0 .. MaxRewrites
    BY Bounds DEF Init
  <2>2. age \in 0 .. STALE_SEC + 1
    BY Bounds DEF Init
  <2>3. idr_left \in 0 .. IDR_MAX_MESSAGES
    BY Bounds DEF Init
  <2>. QED BY <2>1, <2>2, <2>3 DEF Counters
<1>4. Values
  BY TornIsReading DEF Init, Values
<1>. QED BY <1>1, <1>2, <1>3, <1>4

LEMMA SwitchesStep == TypeOK /\ [Next]_vars => Switches'
<1>. SUFFICES ASSUME Switches, [Next]_vars PROVE Switches'
  BY Types
<1>. USE DEF Switches
<1>1. CASE OpenStatus
  BY <1>1 DEF OpenStatus, senderVars
<1>2. CASE CloseStatus
  <2>1. status'.video \in BOOLEAN
    BY <1>2, ReadingFields DEF CloseStatus
  <2>. QED BY <1>2, <2>1 DEF CloseStatus, senderVars
<1>3. CASE ReportsEnd
  BY <1>3 DEF ReportsEnd, senderVars, history
<1>4. CASE Second
  BY <1>4 DEF Second, senderVars, history
<1>5. CASE StatFindsNothing \/ ReadFindsNoVideo
  BY <1>5 DEF StatFindsNothing, ReadFindsNoVideo, NoLink, EndPoll, fileVars
<1>6. CASE StatFindsReading
  BY <1>6 DEF StatFindsReading, fileVars
<1>7. CASE SendReport
  BY <1>7 DEF SendReport, EndPoll, fileVars
<1>8. CASE Restart
  BY <1>8 DEF Restart, fileVars
<1>9. CASE UNCHANGED vars
  BY <1>9 DEF vars, fileVars, senderVars, history
<1>. QED
  BY <1>1, <1>2, <1>3, <1>4, <1>5, <1>6, <1>7, <1>8, <1>9 DEF Next, Poll

LEMMA TimesStep == TypeOK /\ [Next]_vars => Times'
<1>. SUFFICES ASSUME Times, [Next]_vars PROVE Times'
  BY Types
<1>. USE DEF Times
<1>1. CASE OpenStatus
  BY <1>1 DEF OpenStatus, senderVars
<1>2. CASE CloseStatus
  BY <1>2 DEF CloseStatus, senderVars
<1>3. CASE StatFindsReading
  BY <1>3 DEF StatFindsReading, fileVars
<1>4. CASE SendReport
  BY <1>4 DEF SendReport, fileVars
<1>5. CASE Restart
  BY <1>5 DEF Restart, fileVars
<1>6. CASE UNCHANGED <<stamp, mtime, last_mtime, asked>>
  BY <1>6
<1>. QED
  BY <1>1, <1>2, <1>3, <1>4, <1>5, <1>6 DEF Next, Poll, ReportsEnd, Second,
     StatFindsNothing, ReadFindsNoVideo, vars, fileVars, senderVars, history

LEMMA CountersStep == TypeOK /\ [Next]_vars => Counters'
<1>. SUFFICES ASSUME Counters, [Next]_vars PROVE Counters'
  BY Types
<1>1. rewrites' \in 0 .. MaxRewrites
  <2>1. CASE OpenStatus
    BY <2>1, Bounds DEF OpenStatus, Counters
  <2>2. CASE UNCHANGED rewrites
    BY <2>2 DEF Counters
  <2>. QED
    BY <2>1, <2>2 DEF Next, Poll, CloseStatus, ReportsEnd, Second, StatFindsNothing,
       StatFindsReading, ReadFindsNoVideo, SendReport, Restart, vars, fileVars
<1>2. age' \in 0 .. STALE_SEC + 1
  <2>1. CASE OpenStatus \/ CloseStatus
    BY <2>1, Bounds DEF OpenStatus, CloseStatus
  <2>2. CASE Second
    BY <2>2, Bounds DEF Second, Counters
  <2>3. CASE UNCHANGED age
    BY <2>3 DEF Counters
  <2>. QED
    BY <2>1, <2>2, <2>3 DEF Next, Poll, ReportsEnd, StatFindsNothing,
       StatFindsReading, ReadFindsNoVideo, SendReport, Restart, vars, fileVars
<1>3. idr_left' \in 0 .. IDR_MAX_MESSAGES
  <2>1. CASE idr_left' = 0
    BY <2>1, Bounds
  <2>2. CASE SendReport
    BY <2>2, Bounds DEF SendReport, Charged, Counters
  <2>3. CASE UNCHANGED idr_left
    BY <2>3 DEF Counters
  <2>. QED
    BY <2>1, <2>2, <2>3 DEF Next, Poll, OpenStatus, CloseStatus, ReportsEnd, Second,
       StatFindsNothing, StatFindsReading, ReadFindsNoVideo, NoLink, Restart, vars,
       senderVars
<1>. QED BY <1>1, <1>2, <1>3 DEF Counters

LEMMA ValuesStep == TypeOK /\ [Next]_vars => Values'
<1>. SUFFICES ASSUME Values, [Next]_vars PROVE Values'
  BY Types
<1>1. status' \in Readings
  <2>1. CASE OpenStatus
    BY <2>1, TornIsReading DEF OpenStatus
  <2>2. CASE CloseStatus
    BY <2>2 DEF CloseStatus
  <2>3. CASE UNCHANGED status
    BY <2>3 DEF Values
  <2>. QED
    BY <2>1, <2>2, <2>3 DEF Next, Poll, ReportsEnd, Second, StatFindsNothing,
       StatFindsReading, ReadFindsNoVideo, SendReport, Restart, vars, fileVars
<1>2. score' \in {0} \cup SCORE_MIN .. SCORE_MAX
  <2>1. CASE SendReport
    <3>1. status.signal \in Signals
      BY <2>1, ReadingFields DEF SendReport, Values
    <3>2. Score(status.signal) \in SCORE_MIN .. SCORE_MAX
      BY <3>1, ScoreInRange
    <3>. QED BY <2>1, <3>2 DEF SendReport
  <2>2. CASE UNCHANGED score
    BY <2>2 DEF Values
  <2>. QED
    BY <2>1, <2>2 DEF Next, Poll, OpenStatus, CloseStatus, ReportsEnd, Second,
       StatFindsNothing, StatFindsReading, ReadFindsNoVideo, Restart, vars,
       senderVars
<1>. QED BY <1>1, <1>2 DEF Values

LEMMA TypesStep == TypeOK /\ [Next]_vars => TypeOK'
<1>. SUFFICES ASSUME TypeOK, [Next]_vars
              PROVE  Switches' /\ Times' /\ Counters' /\ Values'
  BY DEF TypeOK, Switches, Times, Counters, Values
<1>. QED BY SwitchesStep, TimesStep, CountersStep, ValuesStep

LEMMA ReportsInit == Init => ReportsInv
<1>. SUFFICES ASSUME Init PROVE ReportsInv
  OBVIOUS
<1>1. ~status.video
  BY TornIsReading DEF Init
<1>. QED
  BY <1>1 DEF Init, ReportsInv, ReadingIsReported, CodesPerReading,
     ReadingsAreApart, WholePolls, OldPolls

LEMMA ReportsStep == TypeOK /\ ReportsInv /\ [Next]_vars => ReportsInv'
<1>. SUFFICES ASSUME TypeOK, ReportsInv, [Next]_vars PROVE ReportsInv'
  OBVIOUS
<1>0. stamp \in Nat /\ mtime \in Nat /\ last_mtime \in Nat /\ asked \in Nat
  BY DEF TypeOK
<1>. USE DEF ReportsInv, ReadingIsReported, CodesPerReading, ReadingsAreApart,
         WholePolls, OldPolls
<1>1. CASE OpenStatus
  <2>1. /\ opened' /\ status' = Torn /\ stamp' = stamp + 1 /\ ~whole'
        /\ UNCHANGED <<spc, mtime, last_mtime, asked, polled, straddled>>
    BY <1>1 DEF OpenStatus, senderVars
  <2>2. ~status'.video
    BY <2>1, TornIsReading
  <2>3. ReadingIsReported' /\ ReadingsAreApart' /\ WholePolls'
    BY <1>0, <2>1, <2>2
  <2>4. CodesPerReading' /\ OldPolls'
    BY <1>0, <2>1
  <2>. QED BY <2>3, <2>4
<1>2. CASE CloseStatus
  <2>1. /\ opened /\ ~opened' /\ stamp' \in {stamp, stamp + 1}
        /\ asked' = 0 /\ ~whole' /\ ~polled' /\ (straddled' <=> spc = "read")
        /\ UNCHANGED <<spc, mtime, last_mtime>>
    BY <1>2 DEF CloseStatus, senderVars
  <2>2. last_mtime < stamp' /\ mtime <= stamp' /\ stamp' > 0
    BY <1>0, <2>1
  <2>3. ReadingIsReported' /\ ReadingsAreApart' /\ WholePolls'
    BY <1>0, <2>1, <2>2
  <2>4. CodesPerReading'
    BY <2>1
  <2>5. OldPolls'
    BY <2>1
  <2>. QED BY <2>3, <2>4, <2>5
<1>3. CASE ReportsEnd
  BY <1>3 DEF ReportsEnd, senderVars, history
<1>4. CASE Second
  BY <1>4 DEF Second, senderVars, history
<1>5. CASE StatFindsNothing
  BY <1>0, <1>5 DEF StatFindsNothing, NoLink, EndPoll, fileVars
<1>6. CASE StatFindsReading
  <2>1. /\ spc' = "read" /\ mtime' = stamp /\ (whole' <=> ~opened)
        /\ UNCHANGED <<opened, status, stamp, last_mtime, score, asked, polled,
                       straddled>>
    BY <1>6 DEF StatFindsReading, fileVars
  <2>. QED BY <1>0, <2>1
<1>7. CASE ReadFindsNoVideo
  BY <1>0, <1>7 DEF ReadFindsNoVideo, NoLink, EndPoll, fileVars
<1>8. CASE SendReport
  <2>1. ~opened /\ status.video
    BY <1>8, TornIsReading DEF SendReport
  <2>2. /\ UNCHANGED <<opened, status, stamp, mtime, whole, straddled>>
        /\ spc = "read" /\ spc' = "stat" /\ (polled' <=> polled \/ whole)
        /\ last_mtime' = mtime
        /\ score' = Score(status.signal)
    BY <1>8 DEF SendReport, EndPoll, fileVars
  <2>3. /\ (status.lost /\ mtime # last_mtime) => asked' = asked + 1
        /\ mtime = last_mtime => asked' = asked
        /\ asked' \in {asked, asked + 1}
    BY <1>8 DEF SendReport, NeedsKeyframe, fresh
  <2>. HIDE DEF ReportsInv, ReadingIsReported, CodesPerReading, ReadingsAreApart,
         WholePolls, OldPolls
  <2>4. ReadingIsReported'
    <3>1. status.lost \in BOOLEAN
      BY <2>1, ReadingFields DEF TypeOK
    <3>2. score' = Score(status'.signal)
      BY <2>2
    <3>3. polled /\ status.lost => asked >= 1
      BY <2>1 DEF ReportsInv, ReadingIsReported
    <3>4. whole => mtime = stamp
      BY <2>2 DEF ReportsInv, WholePolls
    <3>5. polled' /\ status.lost => asked' >= 1
      BY <1>0, <2>1, <2>2, <2>3, <3>1, <3>3, <3>4 DEF ReportsInv, ReadingsAreApart
    <3>. QED BY <2>2, <3>2, <3>5 DEF ReadingIsReported
  <2>5. ReadingsAreApart'
    BY <1>0, <2>1, <2>2, <2>3 DEF ReportsInv,
       ReadingsAreApart
  <2>6. WholePolls'
    BY <2>2 DEF ReportsInv, WholePolls
  <2>7. CodesPerReading' /\ OldPolls'
    BY <1>0, <2>1, <2>2, <2>3 DEF ReportsInv,
       CodesPerReading, ReadingsAreApart, OldPolls
  <2>. QED BY <2>4, <2>5, <2>6, <2>7 DEF ReportsInv
<1>9. CASE Restart
  BY <1>0, <1>9 DEF Restart, fileVars
<1>10. CASE UNCHANGED vars
  BY <1>10 DEF vars, fileVars, senderVars, history
<1>. QED
  BY <1>1, <1>2, <1>3, <1>4, <1>5, <1>6, <1>7, <1>8, <1>9, <1>10 DEF Next, Poll

\* The two invariants together are inductive.
THEOREM SenderInvariant == Spec => [](TypeOK /\ ReportsInv)
BY TypesInit, TypesStep, ReportsInit, ReportsStep, PTL DEF Spec

----------------------------------------------------------------------------
\* Type correctness: the score stays in the range of alink_drone's profiles, and
\* a code is never carried by more than IDR_MAX_MESSAGES messages.
THEOREM SenderTypeOK == Spec => []TypeOK
BY TypesInit, TypesStep, PTL DEF Spec

\* No order of truncation, writing, stat() and fopen() hides a loss from the air
\* unit or leaves it with the score of another reading.
THEOREM SenderReports == Spec => []ReadingIsReported
<1>1. ReportsInv => ReadingIsReported BY DEF ReportsInv
<1>. QED BY SenderInvariant, <1>1, PTL

\* Nor does one make the air unit produce a keyframe per message.
THEOREM SenderAsksOnce == Spec => []CodesPerReading
<1>1. ReportsInv => CodesPerReading BY DEF ReportsInv
<1>. QED BY SenderInvariant, <1>1, PTL
================================================================================
