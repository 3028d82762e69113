------------------------------ MODULE Recorder -------------------------------
(***************************************************************************)
(* The DVR recorder of mi-player.c: the decode loop copies each access     *)
(* unit into a ring under rec_lock, a writer thread drains the ring with   *)
(* write() OUTSIDE the lock, and rec_stop joins the writer.                *)
(*                                                                         *)
(* A critical section is one action; the write() call is one action per    *)
(* byte the kernel takes, so that a push may fall between any two of them. *)
(* A byte is the pair <<frame, offset>> it comes from.                     *)
(*                                                                         *)
(* An operator named ...Mutant is a plausible slip in the C code; no       *)
(* definition of the model uses it.  It stands before the definition it    *)
(* would replace, and the properties must notice the difference.           *)
(***************************************************************************)
EXTENDS Integers, Sequences, FiniteSets

CONSTANTS
    RingSize,       \* REC_RING
    MaxFrameSize,   \* the longest access unit the loop hands over
    DumpLimits,     \* initial dump_left: a byte count (-d) or NoLimit (-rec)
    MaxFrames,      \* bound: access units one run of the loop sees
    Junk            \* what malloc'ed memory holds before it is written

NoLimit == -1       \* (size_t)-1

ASSUME RingAssumption  == RingSize \in Nat \ {0}
ASSUME FrameAssumption == MaxFrameSize \in Nat \ {0} /\ MaxFrames \in Nat
ASSUME LimitAssumption == DumpLimits \subseteq Nat \cup {NoLimit}

VARIABLES
    mpc,            \* where the main thread is
    running,        \* cleared by on_signal
    leaving,        \* the decode loop is over: the rec_stop at the end of main
    fed,            \* number of the current access unit
    size,           \* its out_len
    dump_left,
    rec_ring,       \* rec_ring # NULL
    mem,            \* what the ring's memory holds
    rec_head, rec_tail,
    rec_fd,         \* rec_fd >= 0
    rec_on, rec_quit, rec_dropped,
    wpc,            \* where the writer thread is
    off, n,         \* the writer's locals: the chunk write() was given
    done,           \* bytes of that chunk the kernel has taken
    log,            \* history: the stream rec_push accepted
    stored          \* the file

mainVars   == <<mpc, running, leaving, fed, size, dump_left>>
ringVars   == <<rec_ring, mem, rec_head, rec_tail, rec_fd, rec_on, rec_quit,
                rec_dropped>>
writerVars == <<wpc, off, n, done>>
vars == <<mainVars, ringVars, writerVars, log, stored>>

Slots == 0 .. RingSize - 1
Bytes == (1 .. MaxFrames) \X (1 .. MaxFrameSize)

Payload(f, len) == [k \in 1 .. len |-> <<f, k>>]

Lesser(a, b) == IF a < b THEN a ELSE b

rec_used == rec_head - rec_tail

----------------------------------------------------------------------------
Init ==
    /\ mpc = "start" /\ running = TRUE /\ leaving = FALSE
    /\ fed = 0 /\ size = 0 /\ dump_left \in DumpLimits
    /\ rec_ring = FALSE /\ mem = [s \in Slots |-> Junk]
    /\ rec_head = 0 /\ rec_tail = 0
    /\ rec_fd = FALSE /\ rec_on = FALSE /\ rec_quit = FALSE /\ rec_dropped = 0
    /\ wpc = "none" /\ off = 0 /\ n = 0 /\ done = 0
    /\ log = <<>> /\ stored = <<>>

----------------------------------------------------------------------------
(* The main thread *)

\* rec_start: file, ring and thread are there.
RecStart ==
    /\ mpc = "start"
    /\ mpc' = "read"
    /\ rec_fd' = TRUE /\ rec_ring' = TRUE /\ rec_on' = TRUE
    /\ wpc' = "lock"
    /\ UNCHANGED <<running, leaving, fed, size, dump_left, mem, rec_head,
                   rec_tail, rec_quit, rec_dropped, off, n, done, log, stored>>

\* rec_start: open, malloc or pthread_create failed and what the earlier
\* ones acquired has been released again.  The loop runs all the same.
RecStartFails ==
    /\ mpc = "start"
    /\ mpc' = "read"
    /\ UNCHANGED <<running, leaving, fed, size, dump_left, ringVars,
                   writerVars, log, stored>>

\* on_signal, at any point of the main thread.
Signal ==
    /\ running
    /\ running' = FALSE
    /\ UNCHANGED <<mpc, leaving, fed, size, dump_left, ringVars, writerVars,
                   log, stored>>

\* One turn of the loop has an access unit to hand over.
ReadFrame ==
    /\ mpc = "read" /\ running
    /\ fed < MaxFrames
    /\ fed' = fed + 1
    /\ size' \in 1 .. MaxFrameSize
    /\ mpc' = "dump"
    /\ UNCHANGED <<running, leaving, dump_left, ringVars, writerVars, log,
                   stored>>

\* The three ways out of `if (rec_is_on())'.
DumpOff ==
    /\ mpc = "dump" /\ ~rec_on
    /\ mpc' = "read"
    /\ UNCHANGED <<running, leaving, fed, size, dump_left, ringVars,
                   writerVars, log, stored>>

DumpFrame ==
    /\ mpc = "dump" /\ rec_on /\ dump_left # 0
    /\ mpc' = "push"
    /\ UNCHANGED <<running, leaving, fed, size, dump_left, ringVars, writerVars,
                   log, stored>>

DumpLimitReached ==
    /\ mpc = "dump" /\ rec_on /\ dump_left = 0
    /\ mpc' = "stop"
    /\ UNCHANGED <<running, leaving, fed, size, dump_left, ringVars,
                   writerVars, log, stored>>

\* pthread_cond_signal(&rec_wake): a writer that is waiting wakes up, and
\* looks at the condition again.
WokenMutant == wpc                          \* the signal is forgotten
Woken == IF wpc = "wait" THEN "lock" ELSE wpc

\* How much of the access unit is recorded.
n_wMutant == size                           \* not cut at the limit
n_w == IF dump_left = NoLimit THEN size ELSE Lesser(size, dump_left)

\* The limit is charged whether rec_push kept the frame or not.
ChargeLimit ==
    dump_left' = IF dump_left = NoLimit THEN NoLimit ELSE dump_left - n_w

FitsMutant(len) == len <= RingSize - rec_used + 1       \* one too many
Fits(len) == len <= RingSize - rec_used

\* rec_push's early return: no room, or the writer has given up since the
\* rec_is_on above.  Only the former is counted.
MayDropMutant == ~rec_on                    \* waits for room instead
MayDrop == ~rec_on \/ ~Fits(n_w)

CountDropMutant == rec_dropped
CountDrop == IF rec_on THEN rec_dropped + 1 ELSE rec_dropped

\* The ring after the memcpy's of a push of `len' bytes.
Copied(len) ==
    [s \in Slots |->
        LET k == (s - rec_head) % RingSize
        IN  IF k < len THEN <<fed, k + 1>> ELSE mem[s]]

\* rec_push, when there is room for the whole of the frame.
RecPush ==
    /\ mpc = "push" /\ rec_on
    /\ Fits(n_w)
    /\ mem' = Copied(n_w)
    /\ rec_head' = rec_head + n_w
    /\ log' = log \o Payload(fed, n_w)
    /\ wpc' = Woken
    /\ ChargeLimit
    /\ mpc' = "read"
    /\ UNCHANGED <<running, leaving, fed, size, rec_ring, rec_tail, rec_fd,
                   rec_on, rec_quit, rec_dropped, off, n, done, stored>>

RecPushDrops ==
    /\ mpc = "push"
    /\ MayDrop
    /\ rec_dropped' = CountDrop
    /\ ChargeLimit
    /\ mpc' = "read"
    /\ UNCHANGED <<running, leaving, fed, size, rec_ring, mem, rec_head,
                   rec_tail, rec_fd, rec_on, rec_quit, writerVars, log, stored>>

\* `while (running)' fails, or the loop breaks on a read error.
LeaveLoop ==
    /\ mpc = "read"
    /\ mpc' = "stop" /\ leaving' = TRUE
    /\ UNCHANGED <<running, fed, size, dump_left, ringVars, writerVars, log,
                   stored>>

Resume == mpc' = IF leaving THEN "exit" ELSE "read"

\* rec_stop with nothing to stop.
RecStopNothing ==
    /\ mpc = "stop" /\ ~rec_ring
    /\ Resume
    /\ UNCHANGED <<running, leaving, fed, size, dump_left, ringVars,
                   writerVars, log, stored>>

\* rec_stop: tell the writer, and wait for it.
RecStop ==
    /\ mpc = "stop" /\ rec_ring
    /\ rec_quit' = TRUE
    /\ wpc' = Woken
    /\ mpc' = "join"
    /\ UNCHANGED <<running, leaving, fed, size, dump_left, rec_ring, mem,
                   rec_head, rec_tail, rec_fd, rec_on, rec_dropped, off, n,
                   done, log, stored>>

WriterGoneMutant == rec_quit                \* pthread_join is left out
WriterGone == wpc \in {"exited", "errored"}

\* rec_stop: pthread_join returned; close the file, free the ring.
RecClose ==
    /\ mpc = "join" /\ WriterGone
    /\ rec_fd' = FALSE /\ rec_on' = FALSE /\ rec_ring' = FALSE
    /\ Resume
    /\ UNCHANGED <<running, leaving, fed, size, dump_left, mem, rec_head,
                   rec_tail, rec_quit, rec_dropped, writerVars, log, stored>>

----------------------------------------------------------------------------
(* The writer thread *)

WriterWaits ==
    /\ wpc = "lock" /\ rec_used = 0 /\ ~rec_quit
    /\ wpc' = "wait"
    /\ UNCHANGED <<mainVars, ringVars, off, n, done, log, stored>>

\* POSIX lets pthread_cond_wait return without a signal.
SpuriousWakeup ==
    /\ wpc = "wait"
    /\ wpc' = "lock"
    /\ UNCHANGED <<mainVars, ringVars, off, n, done, log, stored>>

NothingLeftMutant == rec_quit               \* leaves without draining
NothingLeft == rec_used = 0 /\ rec_quit

WriterQuits ==
    /\ wpc = "lock" /\ NothingLeft
    /\ wpc' = "exited"
    /\ UNCHANGED <<mainVars, ringVars, off, n, done, log, stored>>

\* The chunk runs to the head or to the end of the ring's memory.
WriterTakes ==
    /\ wpc = "lock" /\ rec_used # 0
    /\ off' = rec_tail % RingSize
    /\ n' = Lesser(rec_used, RingSize - off')
    /\ done' = 0
    /\ wpc' = "write"
    /\ UNCHANGED <<mainVars, ringVars, log, stored>>

\* write(), which may take part of the chunk, or fail before taking any.
WriteByte ==
    /\ wpc = "write" /\ done < n
    /\ stored' = Append(stored, mem[off + done])
    /\ done' = done + 1
    /\ UNCHANGED <<mainVars, ringVars, wpc, off, n, log>>

WriteReturns ==
    /\ wpc = "write" /\ done > 0
    /\ wpc' = "advance"
    /\ UNCHANGED <<mainVars, ringVars, off, n, done, log, stored>>

WriteFails ==
    /\ wpc = "write" /\ done = 0
    /\ wpc' = "fail"
    /\ UNCHANGED <<mainVars, ringVars, off, n, done, log, stored>>

\* write() never returns: the stick is wedged.
WriteHangs ==
    /\ wpc = "write"
    /\ wpc' = "hung"
    /\ UNCHANGED <<mainVars, ringVars, off, n, done, log, stored>>

\* What write() returned.
WrittenMutant == n                          \* a short write is ignored
Written == done

WriterAdvances ==
    /\ wpc = "advance"
    /\ rec_tail' = rec_tail + Written
    /\ wpc' = "lock"
    /\ UNCHANGED <<mainVars, rec_ring, mem, rec_head, rec_fd, rec_on, rec_quit,
                   rec_dropped, off, n, done, log, stored>>

WriterGivesUp ==
    /\ wpc = "fail"
    /\ rec_on' = FALSE
    /\ wpc' = "errored"
    /\ UNCHANGED <<mainVars, rec_ring, mem, rec_head, rec_tail, rec_fd,
                   rec_quit, rec_dropped, off, n, done, log, stored>>

----------------------------------------------------------------------------
\* What the main thread does without waiting for the video source.
Main ==
    \/ RecStart \/ RecStartFails
    \/ DumpOff \/ DumpFrame \/ DumpLimitReached
    \/ RecPush \/ RecPushDrops
    \/ RecStopNothing \/ RecStop \/ RecClose

Writer == WriterWaits \/ WriterQuits \/ WriterTakes \/ WriterAdvances
              \/ WriterGivesUp

Stick == WriteByte \/ WriteReturns \/ WriteFails

\* Nothing more need happen once main is over or the stick is wedged.
Idle == (mpc = "exit" \/ wpc = "hung") /\ UNCHANGED vars

Next ==
    \/ Main \/ ReadFrame \/ LeaveLoop \/ Signal
    \/ Writer \/ SpuriousWakeup \/ Stick \/ WriteHangs
    \/ Idle

Spec == Init /\ [][Next]_vars

\* The scheduler runs both threads, and a stick that is not wedged answers
\* in the end.  A frame, a signal or a wedged stick may come or not.
FairSpec == Spec /\ WF_vars(Main) /\ WF_vars(Writer) /\ WF_vars(Stick)

----------------------------------------------------------------------------
(* Safety *)

TypeOK ==
    /\ mpc \in {"start", "read", "dump", "push", "stop", "join", "exit"}
    /\ running \in BOOLEAN /\ leaving \in BOOLEAN
    /\ fed \in 0 .. MaxFrames
    /\ size \in 0 .. MaxFrameSize
    /\ dump_left \in Nat \cup {NoLimit}
    /\ rec_ring \in BOOLEAN
    /\ mem \in [Slots -> Bytes \cup {Junk}]
    /\ rec_head \in Nat /\ rec_tail \in Nat
    /\ rec_fd \in BOOLEAN /\ rec_on \in BOOLEAN /\ rec_quit \in BOOLEAN
    /\ rec_dropped \in Nat
    /\ wpc \in {"none", "lock", "wait", "write", "advance", "hung", "fail", "exited",
                "errored"}
    /\ off \in Slots
    /\ n \in 0 .. RingSize
    /\ done \in 0 .. RingSize
    /\ log \in Seq(Bytes)
    /\ stored \in Seq(Bytes \cup {Junk})

\* The region the comment over rec_writer divides the ring by: everything in
\* [tail, head) is still in memory exactly as it was pushed, at every moment
\* of the unlocked write() too.
RingHoldsWindow ==
    /\ rec_tail <= rec_head
    /\ rec_head <= rec_tail + RingSize
    /\ Len(log) = rec_head
    /\ \A i \in rec_tail .. rec_head - 1 : mem[i % RingSize] = log[i + 1]

\* The file is a prefix of the accepted stream: short writes, wrap-around and
\* pushes during a write() neither lose, repeat nor reorder a byte.
FileIsPrefix ==
    /\ Len(stored) <= Len(log)
    /\ \A k \in 1 .. Len(stored) : stored[k] = log[k]

\* While the writer may touch the ring and the descriptor, both exist.
NoUseAfterFree ==
    wpc \in {"lock", "wait", "write", "hung", "advance", "fail"} => rec_ring /\ rec_fd

FramesIn(s) == {s[k][1] : k \in 1 .. Len(s)}

\* As long as the recording runs, every access unit the loop has handed over
\* is in the stream or in rec_dropped.
DropsAreCounted ==
    (rec_on /\ mpc = "read") => fed = rec_dropped + Cardinality(FramesIn(log))

----------------------------------------------------------------------------
(* Liveness *)

\* "If it ever does fill, the frame is dropped and counted: recording must
\* never take the video down" (mi-player.c:60): whatever the stick does, the
\* decode loop gets past the recorder.
DecodeNeverWaits ==
    (mpc \in {"dump", "push", "stop"} /\ ~leaving) ~> (mpc = "read")

\* The same of a recording without a limit, the -rec of fpv-start: only there
\* is the loop never made to join the writer.
RecordingNeverStallsDecode ==
    (dump_left = NoLimit /\ mpc \in {"dump", "push", "stop"} /\ ~leaving)
        ~> (mpc = "read")

\* rec_stop returns, and main can go on to the next frame or end, unless the
\* stick is wedged: no wakeup is lost and the writer does not outlive its ring.
StopReturns == (mpc = "stop") ~> (mpc \in {"read", "exit"} \/ wpc = "hung")

\* What rec_push accepted reaches the stick, a quit or not, unless the stick
\* refuses it or is wedged.
AcceptedIsStored ==
    \A p \in 1 .. MaxFrames * MaxFrameSize :
        (Len(log) >= p) ~> (Len(stored) >= p \/ wpc \in {"errored", "hung"})

----------------------------------------------------------------------------
(* Refinement *)

Phase ==
    IF mpc = "start" THEN "idle"
    ELSE IF ~rec_ring THEN "closed"
    ELSE IF rec_on THEN "open"
    ELSE "failed"

Log == INSTANCE StreamLog WITH
           Frames <- {Payload(f, len) : f \in 1 .. MaxFrames,
                                        len \in 1 .. MaxFrameSize},
           phase <- Phase

\* The recorder implements the lossy log.
ImplementsLog == Log!Spec
==============================================================================
