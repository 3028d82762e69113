--------------------------- MODULE RecorderProofs ----------------------------
(***************************************************************************)
(* Proofs about the recorder, for every ring size, frame size and limit.   *)
(*                                                                         *)
(* The inductive invariant adds to the checked invariants what ties the    *)
(* writer's locals to the cursors while it is outside the lock, and what   *)
(* ties the life of the ring to where the two threads are.                 *)
(***************************************************************************)
EXTENDS Recorder, FiniteSetTheorems, SequenceTheorems, TLAPS

----------------------------------------------------------------------------
(* Remainders *)

\* The remainder of a division is the only one in range.
LEMMA ModUnique ==
    ASSUME NEW a \in Int, NEW q \in Int, NEW r \in Slots,
           a = RingSize * q + r
    PROVE  a % RingSize = r
<1> DEFINE p == a \div RingSize
           m == a % RingSize
<1>1. RingSize \in Nat /\ RingSize > 0
  BY RingAssumption
<1>2. p \in Int /\ m \in Int /\ 0 <= m /\ m < RingSize /\ a = RingSize * p + m
  <2>1. a \div RingSize \in Int /\ a % RingSize \in Int
    BY <1>1
  <2>2. 0 <= a % RingSize /\ a % RingSize < RingSize
    BY <1>1
  <2>3. a = RingSize * (a \div RingSize) + (a % RingSize)
    BY <1>1
  <2>4. QED BY <2>1, <2>2, <2>3
<1>3. r \in Int /\ 0 <= r /\ r < RingSize
  BY <1>1 DEF Slots
<1> HIDE DEF p, m
<1>4. RingSize * (q - p) = m - r
  <2>1. RingSize * (q - p) = RingSize * q - RingSize * p
    BY <1>1, <1>2
  <2>2. QED BY <2>1, <1>1, <1>2, <1>3
<1>5. CASE q - p >= 1
  <2>1. RingSize * (q - p) >= RingSize
    BY <1>1, <1>2, <1>5
  <2>2. QED BY <2>1, <1>1, <1>2, <1>3, <1>4
<1>6. CASE q - p <= -1
  <2>1. RingSize * (q - p) <= -RingSize
    BY <1>1, <1>2, <1>6
  <2>2. QED BY <2>1, <1>1, <1>2, <1>3, <1>4
<1>7. CASE q = p
  <2>1. RingSize * (q - p) = 0
    BY <1>1, <1>2, <1>7
  <2>2. m = r BY <2>1, <1>2, <1>3, <1>4
  <2>3. QED BY <2>2 DEF m
<1>8. QED BY <1>2, <1>5, <1>6, <1>7

\* Every position of the stream has a slot of the ring.
LEMMA SlotInRange ==
    ASSUME NEW a \in Int
    PROVE  a % RingSize \in Slots
BY RingAssumption DEF Slots

\* The slots after a's are those of the numbers after a, up to the end of the
\* ring's memory.
LEMMA SlotAfter ==
    ASSUME NEW a \in Nat, NEW k \in Nat, (a % RingSize) + k \in Slots
    PROVE  (a + k) % RingSize = (a % RingSize) + k
<1>1. a = RingSize * (a \div RingSize) + (a % RingSize)
  BY RingAssumption
<1>2. a \div RingSize \in Int /\ a % RingSize \in Int
  BY RingAssumption
<1>3. RingSize * (a \div RingSize) \in Int
  BY <1>2, RingAssumption
<1>4. a + k = RingSize * (a \div RingSize) + ((a % RingSize) + k)
  BY <1>1, <1>2, <1>3
<1>5. QED BY <1>2, <1>4, ModUnique

\* How far the slot of i is behind the slot of h.
LEMMA SlotDistance ==
    ASSUME NEW i \in Int, NEW h \in Int,
           -RingSize <= i - h, i - h < RingSize
    PROVE  ((i % RingSize) - h) % RingSize
               = IF i >= h THEN i - h ELSE i - h + RingSize
<1> DEFINE p == i \div RingSize
           m == i % RingSize
<1>1. RingSize \in Nat /\ RingSize > 0
  BY RingAssumption
<1>2. p \in Int /\ m \in Int /\ i = RingSize * p + m
  <2>1. i \div RingSize \in Int /\ i % RingSize \in Int
    BY <1>1
  <2>2. i = RingSize * (i \div RingSize) + (i % RingSize)
    BY <1>1
  <2>3. QED BY <2>1, <2>2
<1> HIDE DEF p, m
<1>3. RingSize * p \in Int /\ RingSize * (-p) = -(RingSize * p)
         /\ RingSize * (-p - 1) = -(RingSize * p) - RingSize
  BY <1>1, <1>2
<1>4. CASE i >= h
  <2>1. m - h = RingSize * (-p) + (i - h)
    BY <1>1, <1>2, <1>3
  <2>2. i - h \in Slots
    BY <1>1, <1>4 DEF Slots
  <2>3. (m - h) % RingSize = i - h
    BY <2>1, <2>2, <1>2, ModUnique
  <2>4. QED BY <2>3, <1>4 DEF m
<1>5. CASE i < h
  <2>1. m - h = RingSize * (-p - 1) + (i - h + RingSize)
    BY <1>1, <1>2, <1>3
  <2>2. i - h + RingSize \in Slots
    BY <1>1, <1>5 DEF Slots
  <2>3. (m - h) % RingSize = i - h + RingSize
    BY <2>1, <2>2, <1>2, ModUnique
  <2>4. QED BY <2>3, <1>5 DEF m
<1>6. QED BY <1>4, <1>5

----------------------------------------------------------------------------
(* The inductive invariant *)

\* The writer is between taking a chunk and moving the tail past it.
Writing == wpc \in {"write", "hung", "advance"}

\* The chunk it holds is the front of the window, in one piece of memory.
ChunkShape ==
    Writing => /\ off = rec_tail % RingSize
               /\ 0 < n /\ n <= rec_used
               /\ off + n <= RingSize
               /\ done <= n

StoredLength == Len(stored) = rec_tail + (IF Writing THEN done ELSE 0)

FrameShape ==
    /\ mpc \in {"dump", "push"} => fed >= 1 /\ size >= 1
    /\ mpc = "push" => dump_left # 0

LifeCycle ==
    /\ mpc = "start" => wpc = "none" /\ ~rec_quit
    /\ wpc = "none" => ~rec_ring /\ ~rec_on
    /\ rec_on => rec_ring
    /\ rec_ring => (rec_on <=> wpc # "errored")
    /\ wpc = "exited" => rec_head = rec_tail /\ rec_quit
    /\ rec_quit => mpc = "join" \/ (~rec_on /\ ~rec_ring)
    /\ mpc = "join" => rec_ring /\ rec_quit

IInv ==
    /\ TypeOK /\ RingHoldsWindow /\ FileIsPrefix /\ NoUseAfterFree
    /\ ChunkShape /\ StoredLength /\ FrameShape /\ LifeCycle

\* Before the recorder is opened the inductive invariant holds.
LEMMA InitIInv == Init => IInv
<1> SUFFICES ASSUME Init PROVE IInv
  OBVIOUS
<1>1. TypeOK
  <2>1. 0 \in Slots /\ 0 \in 0 .. RingSize
    BY RingAssumption DEF Slots
  <2>2. mem \in [Slots -> Bytes \cup {Junk}]
    BY DEF Init
  <2>3. log \in Seq(Bytes) /\ stored \in Seq(Bytes \cup {Junk})
    BY DEF Init
  <2>4. dump_left \in Nat \cup {NoLimit}
    BY LimitAssumption DEF Init
  <2>5. fed \in 0 .. MaxFrames /\ size \in 0 .. MaxFrameSize
    BY FrameAssumption DEF Init
  <2>6. QED
    BY <2>1, <2>2, <2>3, <2>4, <2>5 DEF Init, TypeOK
<1>2. RingHoldsWindow /\ FileIsPrefix
  BY RingAssumption DEF Init, RingHoldsWindow, FileIsPrefix
<1>3. NoUseAfterFree /\ ChunkShape /\ StoredLength /\ FrameShape /\ LifeCycle
  BY DEF Init, NoUseAfterFree, ChunkShape, StoredLength, FrameShape,
         LifeCycle, Writing
<1>4. QED BY <1>1, <1>2, <1>3 DEF IInv

----------------------------------------------------------------------------
(* Every step preserves it *)

\* A push leaves what the writer may be reading alone, and appends.
LEMMA PushKeepsWindow ==
    ASSUME IInv, RecPush
    PROVE  /\ RingHoldsWindow' /\ FileIsPrefix'
           /\ mem' \in [Slots -> Bytes \cup {Junk}]
           /\ log' \in Seq(Bytes)
<1> DEFINE w == n_w
<1>1. /\ w \in 1 .. MaxFrameSize
      /\ rec_head \in Nat /\ rec_tail \in Nat /\ rec_tail <= rec_head
      /\ rec_head - rec_tail <= RingSize - w
      /\ fed \in 1 .. MaxFrames
  <2>1. /\ size \in 1 .. MaxFrameSize /\ fed \in 1 .. MaxFrames
        /\ dump_left \in (Nat \ {0}) \cup {NoLimit}
    BY FrameAssumption DEF IInv, TypeOK, RecPush, FrameShape
  <2>2. w \in 1 .. MaxFrameSize
    BY <2>1, FrameAssumption DEF n_w, Lesser, NoLimit
  <2>3. rec_head \in Nat /\ rec_tail \in Nat /\ rec_tail <= rec_head
    BY DEF IInv, TypeOK, RingHoldsWindow
  <2>4. rec_head - rec_tail <= RingSize - w
    BY <2>2, <2>3, RingAssumption DEF RecPush, Fits, rec_used
  <2>5. QED BY <2>1, <2>2, <2>3, <2>4
<1>2. RingSize \in Nat /\ RingSize > 0
  BY RingAssumption
<1>3. /\ rec_head' = rec_head + w /\ rec_tail' = rec_tail
      /\ log' = log \o Payload(fed, w) /\ mem' = Copied(w)
      /\ stored' = stored
  BY DEF RecPush
<1> HIDE DEF w
<1>4. /\ Payload(fed, w) \in Seq(Bytes)
      /\ Len(Payload(fed, w)) = w
      /\ \A k \in 1 .. w : Payload(fed, w)[k] = <<fed, k>>
  BY <1>1, FrameAssumption DEF Payload, Bytes
<1>5. /\ log \in Seq(Bytes) /\ Len(log) = rec_head
      /\ mem \in [Slots -> Bytes \cup {Junk}]
  BY DEF IInv, TypeOK, RingHoldsWindow
<1>6. /\ log' \in Seq(Bytes)
      /\ Len(log') = rec_head + w
      /\ \A k \in 1 .. rec_head : log'[k] = log[k]
      /\ \A k \in 1 .. w : log'[rec_head + k] = <<fed, k>>
  <2> DEFINE pay == Payload(fed, w)
  <2>1. pay \in Seq(Bytes) /\ Len(pay) = w /\ log' = log \o pay
    BY <1>3, <1>4
  <2>2. \A k \in 1 .. w : pay[k] = <<fed, k>>
    BY <1>4
  <2> HIDE DEF pay
  <2>3. log' \in Seq(Bytes) /\ Len(log') = rec_head + w
    BY <2>1, <1>1, <1>5, ConcatProperties
  <2>4. \A k \in 1 .. rec_head : log'[k] = log[k]
    BY <2>1, <1>1, <1>5
  <2>5. ASSUME NEW k \in 1 .. w PROVE log'[rec_head + k] = <<fed, k>>
    <3>1. log'[rec_head + k] = pay[k]
      BY <2>1, <1>1, <1>5
    <3>2. QED BY <3>1, <2>2
  <2>6. QED BY <2>3, <2>4, <2>5
<1>7. mem' \in [Slots -> Bytes \cup {Junk}]
  <2> SUFFICES ASSUME NEW s \in Slots
               PROVE  Copied(w)[s] \in Bytes \cup {Junk}
    BY <1>3 DEF Copied
  <2> DEFINE k == (s - rec_head) % RingSize
  <2>1. k \in Nat
    BY <1>1, <1>2 DEF Slots
  <2>2. k < w => <<fed, k + 1>> \in Bytes
    BY <2>1, <1>1, FrameAssumption DEF Bytes
  <2>3. Copied(w)[s] = IF k < w THEN <<fed, k + 1>> ELSE mem[s]
    BY DEF Copied
  <2> QED BY <2>2, <2>3, <1>5
<1>8. ASSUME NEW i \in rec_tail .. rec_head + w - 1
      PROVE  mem'[i % RingSize] = log'[i + 1]
  <2> DEFINE d == ((i % RingSize) - rec_head) % RingSize
  <2>1. i \in Nat /\ rec_tail <= i /\ i < rec_head + w
    BY <1>1, <1>8
  <2>2. d = IF i >= rec_head THEN i - rec_head ELSE i - rec_head + RingSize
    BY <1>1, <1>2, <2>1, SlotDistance
  <2>3. mem'[i % RingSize] = IF d < w THEN <<fed, d + 1>> ELSE mem[i % RingSize]
    BY <1>3, <2>1, SlotInRange DEF Copied
  <2> HIDE DEF d
  <2>4. CASE i >= rec_head
    <3>1. d = i - rec_head /\ d < w /\ d + 1 \in 1 .. w
      BY <2>1, <2>2, <2>4, <1>1
    <3>2. i + 1 = rec_head + (d + 1)
      BY <3>1, <2>1, <1>1
    <3>3. QED BY <3>1, <3>2, <2>3, <1>6
  <2>5. CASE i < rec_head
    <3>1. d >= w
      BY <2>1, <2>2, <2>5, <1>1, <1>2
    <3>2. mem[i % RingSize] = log[i + 1]
      BY <2>1, <2>5, <1>1 DEF IInv, RingHoldsWindow
    <3>3. i + 1 \in 1 .. rec_head
      BY <2>1, <2>5, <1>1
    <3>4. ~(d < w)
      BY <3>1, <2>1, <2>2, <1>1, <1>2
    <3>5. QED BY <3>2, <3>3, <3>4, <2>3, <1>6
  <2>6. QED BY <2>1, <2>4, <2>5, <1>1
<1>9. RingHoldsWindow'
  <2>1. rec_tail' <= rec_head' /\ rec_head' <= rec_tail' + RingSize
    BY <1>1, <1>2, <1>3
  <2>2. Len(log') = rec_head'
    BY <1>3, <1>6
  <2>3. ASSUME NEW i \in rec_tail' .. rec_head' - 1
        PROVE  mem'[i % RingSize] = log'[i + 1]
    <3>1. i \in rec_tail .. rec_head + w - 1
      BY <1>1, <1>3
    <3>2. QED BY <3>1, <1>8
  <2>4. QED BY <2>1, <2>2, <2>3 DEF RingHoldsWindow
<1>10. FileIsPrefix'
  <2>1. Len(stored) <= rec_head /\ Len(stored) \in Nat
    BY <1>5 DEF IInv, FileIsPrefix, TypeOK
  <2>2. Len(stored') <= Len(log')
    BY <2>1, <1>1, <1>3, <1>6
  <2>3. ASSUME NEW k \in 1 .. Len(stored') PROVE stored'[k] = log'[k]
    <3>1. k \in 1 .. rec_head /\ k \in 1 .. Len(stored)
      BY <2>1, <1>1, <1>3
    <3>2. stored[k] = log[k]
      BY <3>1 DEF IInv, FileIsPrefix
    <3>3. QED BY <3>1, <3>2, <1>3, <1>6
  <2>4. QED BY <2>2, <2>3 DEF FileIsPrefix
<1>11. QED BY <1>6, <1>7, <1>9, <1>10

\* The byte the kernel takes is the next one of the stream.
LEMMA WriteTakesNext ==
    ASSUME IInv, WriteByte
    PROVE  /\ Len(stored) < Len(log)
           /\ off + done \in Slots
           /\ mem[off + done] = log[Len(stored) + 1]
           /\ Len(stored) = rec_tail + done
<1>1. /\ off = rec_tail % RingSize /\ n <= rec_head - rec_tail
      /\ off + n <= RingSize /\ done < n
      /\ Len(stored) = rec_tail + done
  BY DEF IInv, ChunkShape, StoredLength, Writing, WriteByte, rec_used
<1>2. /\ rec_tail \in Nat /\ rec_head \in Nat /\ done \in Nat /\ n \in Nat
      /\ off \in Nat /\ RingSize \in Nat /\ Len(log) = rec_head
  BY RingAssumption DEF IInv, TypeOK, Slots, RingHoldsWindow
<1>3. off + done \in Slots
  BY <1>1, <1>2 DEF Slots
<1>4. (rec_tail + done) % RingSize = off + done
  BY <1>1, <1>2, <1>3, SlotAfter
<1>5. rec_tail + done \in rec_tail .. rec_head - 1
  BY <1>1, <1>2
<1>6. mem[off + done] = log[rec_tail + done + 1]
  BY <1>4, <1>5 DEF IInv, RingHoldsWindow
<1>7. QED BY <1>1, <1>2, <1>3, <1>5, <1>6

\* The actions that only move the control of one thread.
Control ==
    \/ RecStart \/ RecStartFails \/ Signal \/ ReadFrame \/ LeaveLoop
    \/ DumpOff \/ DumpFrame \/ DumpLimitReached \/ RecPushDrops
    \/ RecStopNothing \/ RecStop \/ RecClose
    \/ WriterWaits \/ SpuriousWakeup \/ WriterQuits \/ WriterTakes
    \/ WriteReturns \/ WriteFails \/ WriteHangs \/ WriterGivesUp
    \/ UNCHANGED vars

\* The chunk the writer takes is the front of the window, in one piece.
LEMMA TakenChunk ==
    ASSUME IInv, WriterTakes
    PROVE  /\ off' = rec_tail % RingSize /\ off' \in Slots
           /\ n' \in 1 .. RingSize /\ n' <= rec_used
           /\ off' + n' <= RingSize
<1>1. off' = rec_tail % RingSize /\ n' = Lesser(rec_used, RingSize - off')
  BY DEF WriterTakes
<1>2. rec_used \in Nat /\ rec_used > 0 /\ rec_tail \in Nat
  BY DEF WriterTakes, rec_used, IInv, TypeOK, RingHoldsWindow
<1>3. off' \in Slots
  BY <1>1, <1>2, SlotInRange
<1>4. off' \in Nat /\ off' < RingSize /\ RingSize \in Nat
  BY <1>3, RingAssumption DEF Slots
<1>5. n' \in 1 .. RingSize /\ n' <= rec_used /\ off' + n' <= RingSize
  BY <1>1, <1>2, <1>4 DEF Lesser
<1>6. QED BY <1>1, <1>3, <1>5

\* They leave the data alone, and with it what is said of the data.
LEMMA ControlKeepsData ==
    ASSUME IInv, Control
    PROVE  /\ UNCHANGED <<mem, rec_head, rec_tail, log, stored>>
           /\ RingHoldsWindow' /\ FileIsPrefix'
<1>1. UNCHANGED <<mem, rec_head, rec_tail, log, stored>>
  BY DEF Control, RecStart, RecStartFails, Signal, ReadFrame, LeaveLoop, DumpOff,
         DumpFrame, DumpLimitReached, RecPushDrops, RecStopNothing, RecStop,
         RecClose, WriterWaits, SpuriousWakeup, WriterQuits, WriterTakes,
         WriteReturns, WriteFails, WriteHangs, WriterGivesUp, vars, ringVars
<1>2. RingHoldsWindow' /\ FileIsPrefix'
  BY <1>1 DEF IInv, RingHoldsWindow, FileIsPrefix
<1>3. QED BY <1>1, <1>2

\* A step that leaves the data alone keeps every variable in its type.
LEMMA ControlKeepsType ==
    ASSUME IInv, Control
    PROVE  TypeOK'
<1> USE FrameAssumption DEF IInv
<1>1. CASE UNCHANGED vars
  BY <1>1 DEF TypeOK, vars, mainVars, ringVars, writerVars
<1>2. CASE RecStart
  BY <1>2 DEF RecStart, TypeOK
<1>2a. CASE RecStartFails
  BY <1>2a DEF RecStartFails, TypeOK, ringVars, writerVars
<1>2c. CASE LeaveLoop
  BY <1>2c DEF LeaveLoop, TypeOK, ringVars, writerVars
<1>2b. CASE Signal
  <2>1. running' \in BOOLEAN
    BY <1>2b DEF Signal
  <2>2. UNCHANGED <<mpc, leaving, fed, size, dump_left, ringVars, writerVars,
                    log, stored>>
    BY <1>2b DEF Signal
  <2>3. QED BY <2>1, <2>2 DEF TypeOK, ringVars, writerVars
<1>3. CASE ReadFrame
  BY <1>3 DEF ReadFrame, TypeOK, ringVars, writerVars
<1>4. CASE DumpOff \/ DumpFrame \/ DumpLimitReached
  <2>1. CASE DumpOff
    BY <2>1 DEF DumpOff, TypeOK, ringVars, writerVars
  <2>2. CASE DumpFrame
    BY <2>2 DEF DumpFrame, TypeOK, ringVars, writerVars
  <2>3. CASE DumpLimitReached
    BY <2>3 DEF DumpLimitReached, TypeOK, ringVars, writerVars
  <2>4. QED BY <1>4, <2>1, <2>2, <2>3
<1>5. CASE RecPushDrops
  <2>1. dump_left' \in Nat \cup {NoLimit}
    BY <1>5 DEF RecPushDrops, ChargeLimit, n_w, Lesser, TypeOK, NoLimit
  <2>2. rec_dropped' \in Nat
    BY <1>5 DEF RecPushDrops, CountDrop, TypeOK
  <2>3. QED
    BY <1>5, <2>1, <2>2 DEF RecPushDrops, TypeOK, writerVars
<1>6. CASE RecStopNothing \/ RecStop \/ RecClose
  <2>1. CASE RecStopNothing
    BY <2>1 DEF RecStopNothing, Resume, TypeOK, ringVars, writerVars
  <2>2. CASE RecStop
    BY <2>2 DEF RecStop, Woken, TypeOK, ringVars, writerVars
  <2>3. CASE RecClose
    BY <2>3 DEF RecClose, Resume, TypeOK, ringVars, writerVars
  <2>4. QED BY <1>6, <2>1, <2>2, <2>3
<1>7. CASE WriterWaits \/ SpuriousWakeup \/ WriterQuits
  <2>1. CASE WriterWaits
    BY <2>1 DEF WriterWaits, TypeOK, mainVars, ringVars
  <2>2. CASE SpuriousWakeup
    BY <2>2 DEF SpuriousWakeup, TypeOK, mainVars, ringVars
  <2>3. CASE WriterQuits
    BY <2>3 DEF WriterQuits, TypeOK, mainVars, ringVars
  <2>4. QED BY <1>7, <2>1, <2>2, <2>3
<1>8. CASE WriterTakes
  <2>1. off' \in Slots /\ n' \in 0 .. RingSize
    BY <1>8, TakenChunk DEF WriterTakes, Slots
  <2>2. done' \in 0 .. RingSize
    BY <1>8, RingAssumption DEF WriterTakes
  <2>3. QED
    BY <1>8, <2>1, <2>2 DEF WriterTakes, TypeOK, mainVars, ringVars
<1>9. CASE WriteReturns \/ WriteFails \/ WriteHangs
  <2>1. CASE WriteReturns
    BY <2>1 DEF WriteReturns, TypeOK, mainVars, ringVars
  <2>2. CASE WriteFails
    BY <2>2 DEF WriteFails, TypeOK, mainVars, ringVars
  <2>3. CASE WriteHangs
    BY <2>3 DEF WriteHangs, TypeOK, mainVars, ringVars
  <2>4. QED BY <1>9, <2>1, <2>2, <2>3
<1>9a. CASE WriterGivesUp
  BY <1>9a DEF WriterGivesUp, TypeOK, mainVars
<1>10. QED
  BY <1>9a, <1>2a, <1>2b, <1>2c, <1>1, <1>2, <1>3, <1>4, <1>5, <1>6, <1>7, <1>8, <1>9 DEF Control

\* What is said of the control, step by step.
LEMMA ControlKeepsControl ==
    ASSUME IInv, Control
    PROVE  NoUseAfterFree' /\ ChunkShape' /\ StoredLength' /\ FrameShape'
               /\ LifeCycle'
<1> DEFINE P == NoUseAfterFree /\ ChunkShape /\ StoredLength /\ FrameShape
                    /\ LifeCycle
<1>0. P /\ rec_head \in Nat /\ rec_tail \in Nat /\ rec_tail <= rec_head
  BY DEF IInv, TypeOK, RingHoldsWindow
<1> USE DEF NoUseAfterFree, ChunkShape, StoredLength, FrameShape, LifeCycle,
            Writing, rec_used
<1>1. CASE UNCHANGED vars
  BY <1>0, <1>1 DEF vars, mainVars, ringVars, writerVars
<1>2. CASE RecStart
  BY <1>0, <1>2 DEF RecStart
<1>2a. CASE RecStartFails \/ Signal \/ LeaveLoop
  BY <1>0, <1>2a DEF RecStartFails, Signal, LeaveLoop, ringVars, writerVars
<1>3. CASE ReadFrame
  <2>1. fed' >= 1 /\ size' >= 1
    BY <1>3, FrameAssumption DEF ReadFrame, IInv, TypeOK
  <2>2. QED
    BY <1>0, <1>3, <2>1 DEF ReadFrame, ringVars, writerVars
<1>4. CASE DumpOff \/ DumpFrame \/ DumpLimitReached
  BY <1>0, <1>4 DEF DumpOff, DumpFrame, DumpLimitReached, ringVars, writerVars
<1>5. CASE RecPushDrops
  BY <1>0, <1>5 DEF RecPushDrops, writerVars
<1>6. CASE RecStopNothing \/ RecStop \/ RecClose
  BY <1>0, <1>6 DEF RecStopNothing, RecStop, RecClose, Resume, Woken, WriterGone,
                    ringVars, writerVars
<1>7. CASE WriterWaits \/ SpuriousWakeup \/ WriterQuits
  BY <1>0, <1>7 DEF WriterWaits, SpuriousWakeup, WriterQuits, NothingLeft,
                    mainVars, ringVars
<1>8. CASE WriterTakes
  <2>1. /\ off' = rec_tail % RingSize
        /\ 0 < n' /\ n' <= rec_head - rec_tail /\ n' \in Nat
        /\ off' + n' <= RingSize
        /\ done' = 0
    BY <1>8, TakenChunk, RingAssumption DEF WriterTakes
  <2>2. ChunkShape' /\ StoredLength'
    BY <1>0, <1>8, <2>1 DEF WriterTakes, mainVars, ringVars
  <2>3. NoUseAfterFree' /\ FrameShape' /\ LifeCycle'
    BY <1>0, <1>8 DEF WriterTakes, mainVars, ringVars
  <2>4. QED BY <2>2, <2>3
<1>9. CASE WriteReturns \/ WriteHangs
  BY <1>0, <1>9 DEF WriteReturns, WriteHangs, mainVars, ringVars
<1>10. CASE WriteFails \/ WriterGivesUp
  BY <1>0, <1>10 DEF WriteFails, WriterGivesUp, mainVars, ringVars
<1>11. QED
  BY <1>2a, <1>1, <1>2, <1>3, <1>4, <1>5, <1>6, <1>7, <1>8, <1>9, <1>10 DEF Control

\* The three actions that touch the data.
LEMMA PushKeepsIInv ==
    ASSUME IInv, RecPush
    PROVE  IInv'
<1>1. /\ RingHoldsWindow' /\ FileIsPrefix'
      /\ mem' \in [Slots -> Bytes \cup {Junk}] /\ log' \in Seq(Bytes)
  BY PushKeepsWindow
<1>2. n_w \in Nat /\ dump_left' \in Nat \cup {NoLimit}
  BY FrameAssumption
     DEF RecPush, ChargeLimit, n_w, Lesser, NoLimit, IInv, TypeOK
<1>3. TypeOK'
  <2>1. wpc' \in {"none", "lock", "wait", "write", "advance", "hung", "fail",
                  "exited", "errored"}
    BY DEF RecPush, Woken, IInv, TypeOK
  <2>2. rec_head' \in Nat
    BY <1>2 DEF RecPush, IInv, TypeOK
  <2>3. QED
    BY <1>1, <1>2, <2>1, <2>2 DEF RecPush, IInv, TypeOK
<1>4. rec_head \in Nat /\ rec_tail \in Nat /\ n \in Nat /\ rec_head <= rec_head'
        /\ rec_head' \in Nat
  BY <1>2 DEF RecPush, IInv, TypeOK
<1>5. ChunkShape' /\ StoredLength'
  BY <1>4 DEF RecPush, Woken, ChunkShape, StoredLength, Writing, rec_used, IInv
<1>6. NoUseAfterFree' /\ FrameShape'
  BY DEF RecPush, Woken, NoUseAfterFree, FrameShape, IInv
<1>7. LifeCycle'
  BY DEF RecPush, Woken, LifeCycle, IInv
<1>8. QED BY <1>1, <1>3, <1>5, <1>6, <1>7 DEF IInv

\* A byte the kernel takes from the ring keeps the invariant, part by part.
LEMMA WriteByteKeepsIInv ==
    ASSUME IInv, WriteByte
    PROVE  IInv'
<1>1. /\ Len(stored) < Len(log) /\ off + done \in Slots
      /\ mem[off + done] = log[Len(stored) + 1]
  BY WriteTakesNext
<1>2. /\ stored \in Seq(Bytes \cup {Junk}) /\ log \in Seq(Bytes)
      /\ mem \in [Slots -> Bytes \cup {Junk}]
      /\ done \in Nat /\ n \in Nat /\ n <= RingSize /\ done < n
      /\ RingSize \in Nat
  BY RingAssumption DEF WriteByte, IInv, TypeOK
<1>3. stored' = Append(stored, mem[off + done]) /\ done' = done + 1
  BY DEF WriteByte
<1>4. /\ stored' \in Seq(Bytes \cup {Junk})
      /\ Len(stored') = Len(stored) + 1
      /\ \A k \in 1 .. Len(stored) : stored'[k] = stored[k]
      /\ stored'[Len(stored) + 1] = mem[off + done]
  <2>1. mem[off + done] \in Bytes \cup {Junk}
    BY <1>1, <1>2
  <2>2. QED
    BY <2>1, <1>2, <1>3, AppendProperties
<1>5. FileIsPrefix'
  <2>1. Len(stored') <= Len(log') /\ log' = log
    BY <1>1, <1>2, <1>4 DEF WriteByte
  <2>2. ASSUME NEW k \in 1 .. Len(stored') PROVE stored'[k] = log'[k]
    <3>1. CASE k \in 1 .. Len(stored)
      BY <3>1, <1>4, <2>1 DEF IInv, FileIsPrefix
    <3>2. CASE k = Len(stored) + 1
      BY <3>2, <1>1, <1>4, <2>1
    <3>3. k \in 1 .. Len(stored) \/ k = Len(stored) + 1
      BY <1>2, <1>4
    <3>4. QED BY <3>1, <3>2, <3>3
  <2>3. QED BY <2>1, <2>2 DEF FileIsPrefix
<1>6. RingHoldsWindow'
  BY DEF WriteByte, RingHoldsWindow, IInv, ringVars
<1>7. TypeOK'
  <2>1. done' \in 0 .. RingSize
    BY <1>2, <1>3
  <2>2. QED
    BY <1>4, <2>1 DEF WriteByte, IInv, TypeOK, mainVars, ringVars
<1>8. ChunkShape'
  BY <1>2 DEF WriteByte, ChunkShape, Writing, rec_used, IInv, ringVars
<1>9. StoredLength'
  <2>1. rec_tail \in Nat /\ Len(stored) = rec_tail + done
    BY WriteTakesNext DEF IInv, TypeOK
  <2>2. Len(stored') = rec_tail + done'
    BY <2>1, <1>2, <1>3, <1>4
  <2>3. QED
    BY <2>2 DEF WriteByte, StoredLength, Writing, ringVars
<1>10. NoUseAfterFree' /\ FrameShape' /\ LifeCycle'
  BY DEF WriteByte, NoUseAfterFree, FrameShape, LifeCycle, IInv, mainVars, ringVars
<1>11. QED BY <1>5, <1>6, <1>7, <1>8, <1>9, <1>10 DEF IInv

\* The end of a write, which frees the bytes it took, keeps the invariant.
LEMMA AdvanceKeepsIInv ==
    ASSUME IInv, WriterAdvances
    PROVE  IInv'
<1>1. /\ rec_tail \in Nat /\ rec_head \in Nat /\ done \in Nat
      /\ done <= rec_head - rec_tail /\ n \in Nat
      /\ rec_tail' = rec_tail + done
      /\ RingSize \in Nat
  BY RingAssumption
     DEF WriterAdvances, Written, IInv, TypeOK, ChunkShape, Writing, rec_used
<1>2. RingHoldsWindow'
  <2>1. rec_tail' <= rec_head /\ rec_head <= rec_tail' + RingSize
    BY <1>1 DEF IInv, RingHoldsWindow
  <2>2. ASSUME NEW i \in rec_tail' .. rec_head - 1
        PROVE  mem[i % RingSize] = log[i + 1]
    <3>1. i \in rec_tail .. rec_head - 1
      BY <1>1
    <3>2. QED BY <3>1 DEF IInv, RingHoldsWindow
  <2>3. QED
    BY <2>1, <2>2 DEF WriterAdvances, RingHoldsWindow, IInv
<1>3. FileIsPrefix'
  BY DEF WriterAdvances, FileIsPrefix, IInv
<1>4. TypeOK'
  BY <1>1 DEF WriterAdvances, IInv, TypeOK, mainVars
<1>5. ChunkShape' /\ StoredLength'
  BY <1>1 DEF WriterAdvances, ChunkShape, StoredLength, Writing, IInv
<1>6. NoUseAfterFree' /\ FrameShape' /\ LifeCycle'
  BY DEF WriterAdvances, NoUseAfterFree, FrameShape, LifeCycle, IInv, mainVars
<1>7. QED BY <1>2, <1>3, <1>4, <1>5, <1>6 DEF IInv

\* Every step of the two threads and of the stick keeps the invariant.
LEMMA StepKeepsIInv ==
    ASSUME IInv, [Next]_vars
    PROVE  IInv'
<1>1. CASE Control
  BY <1>1, ControlKeepsData, ControlKeepsType, ControlKeepsControl DEF IInv
<1>2. CASE RecPush
  BY <1>2, PushKeepsIInv
<1>3. CASE WriteByte
  BY <1>3, WriteByteKeepsIInv
<1>4. CASE WriterAdvances
  BY <1>4, AdvanceKeepsIInv
<1>5. QED
  BY <1>1, <1>2, <1>3, <1>4 DEF Next, Main, Writer, Stick, Idle, Control

----------------------------------------------------------------------------
(* What follows for every behaviour *)

\* The cursors, the ring's contents, the file and the life of the ring are as
\* the inductive invariant says, whatever the two threads and the stick do.
THEOREM RecorderInvariant == Spec => []IInv
<1>1. Init => IInv
  BY InitIInv
<1>2. IInv /\ [Next]_vars => IInv'
  BY StepKeepsIInv
<1>3. QED BY <1>1, <1>2, PTL DEF Spec

\* Every variable keeps to its range; dump_left in particular never goes below
\* zero, where the C code's size_t would turn it into "no limit".
THEOREM RecorderTypeOK == Spec => []TypeOK
<1>1. IInv => TypeOK
  BY DEF IInv
<1>2. QED BY <1>1, RecorderInvariant, PTL

\* rec_writer's comment: between tail and head the ring holds what was pushed,
\* also while write() reads it without the lock.
THEOREM WindowIsIntact == Spec => []RingHoldsWindow
<1>1. IInv => RingHoldsWindow
  BY DEF IInv
<1>2. QED BY <1>1, RecorderInvariant, PTL

\* The recording is a prefix of the accepted stream at every moment.
THEOREM RecordingIsPrefix == Spec => []FileIsPrefix
<1>1. IInv => FileIsPrefix
  BY DEF IInv
<1>2. QED BY <1>1, RecorderInvariant, PTL

\* The writer never outlives the ring or the descriptor it works on.
THEOREM RingOutlivesWriter == Spec => []NoUseAfterFree
<1>1. IInv => NoUseAfterFree
  BY DEF IInv
<1>2. QED BY <1>1, RecorderInvariant, PTL

----------------------------------------------------------------------------
(* The count of what is dropped *)

\* The access unit the loop holds is not in the stream yet.
Pending == mpc \in {"dump", "push"}

\* The stream is made of the access units before the pending one, and while
\* the recording runs each of them is in it or was counted.
Counting ==
    /\ mpc = "start" => fed = 0 /\ log = <<>> /\ rec_dropped = 0
    /\ FramesIn(log) \subseteq 1 .. (IF Pending THEN fed - 1 ELSE fed)
    /\ (rec_on /\ (Pending \/ mpc = "read")) =>
           fed = rec_dropped + Cardinality(FramesIn(log))
                     + (IF Pending THEN 1 ELSE 0)

\* A payload appended to the stream adds its access unit, and nothing else.
LEMMA PushAddsFrame ==
    ASSUME NEW s \in Seq(Bytes), NEW f, NEW w \in Nat \ {0},
           Payload(f, w) \in Seq(Bytes)
    PROVE  FramesIn(s \o Payload(f, w)) = FramesIn(s) \cup {f}
<1> DEFINE p == Payload(f, w)
           t == s \o p
<1>1. p \in Seq(Bytes) /\ Len(p) = w /\ \A k \in 1 .. w : p[k] = <<f, k>>
  BY DEF Payload
<1> HIDE DEF p
<1>2. Len(s) \in Nat /\ Len(t) = Len(s) + w
  <2>1. Len(s) \in Nat
    BY LenProperties
  <2>2. Len(t) = Len(s) + Len(p)
    BY <1>1, ConcatProperties
  <2>3. QED BY <1>1, <2>1, <2>2
<1>3. \A k \in 1 .. Len(s) : t[k] = s[k]
  BY <1>1
<1>4. \A k \in 1 .. w : t[Len(s) + k] = <<f, k>>
  <2> SUFFICES ASSUME NEW k \in 1 .. w PROVE t[Len(s) + k] = <<f, k>>
    OBVIOUS
  <2>1. t[Len(s) + k] = p[k]
    BY <1>1
  <2>2. QED BY <1>1, <2>1
<1> HIDE DEF t
<1>5. FramesIn(t) \subseteq FramesIn(s) \cup {f}
  <2> SUFFICES ASSUME NEW k \in 1 .. Len(t)
               PROVE  t[k][1] \in FramesIn(s) \cup {f}
    BY DEF FramesIn
  <2>1. CASE k <= Len(s)
    BY <2>1, <1>2, <1>3 DEF FramesIn
  <2>2. CASE k > Len(s)
    <3>1. k - Len(s) \in 1 .. w /\ k = Len(s) + (k - Len(s))
      BY <2>2, <1>2
    <3>2. t[k] = <<f, k - Len(s)>>
      BY <3>1, <1>4
    <3>3. QED BY <3>2
  <2>3. QED BY <2>1, <2>2, <1>2
<1>6. FramesIn(s) \subseteq FramesIn(t)
  <2> SUFFICES ASSUME NEW k \in 1 .. Len(s) PROVE s[k][1] \in FramesIn(t)
    BY DEF FramesIn
  <2>1. k \in 1 .. Len(t) /\ t[k] = s[k]
    BY <1>2, <1>3
  <2>2. QED BY <2>1 DEF FramesIn
<1>7. f \in FramesIn(t)
  <2>1. Len(s) + 1 \in 1 .. Len(t) /\ t[Len(s) + 1] = <<f, 1>>
    BY <1>2, <1>4
  <2>2. QED BY <2>1 DEF FramesIn
<1>8. QED BY <1>5, <1>6, <1>7 DEF t, p

\* Access units are numbered, so the ones in the stream can be counted.
LEMMA FramesAreFinite ==
    ASSUME NEW k \in Int, NEW S, S \subseteq 1 .. k
    PROVE  IsFiniteSet(S) /\ Cardinality(S) \in Nat
<1>1. IsFiniteSet(1 .. k)
  BY FS_Interval
<1>2. IsFiniteSet(S)
  BY <1>1, FS_Subset
<1>3. QED BY <1>2, FS_CardinalityType

\* Nothing is counted and nothing fed before the recorder is opened.
LEMMA InitCounting == Init => Counting
<1> SUFFICES ASSUME Init PROVE Counting
  OBVIOUS
<1>1. FramesIn(log) = {}
  BY DEF Init, FramesIn
<1>2. QED BY <1>1 DEF Init, Counting, Pending

\* A push moves the pending access unit into the stream.
LEMMA PushKeepsCounting ==
    ASSUME IInv, Counting, RecPush
    PROVE  Counting'
<1>1. /\ n_w \in 1 .. MaxFrameSize /\ fed \in 1 .. MaxFrames
      /\ log \in Seq(Bytes) /\ rec_dropped \in Nat
  <2>1. /\ size \in 1 .. MaxFrameSize /\ fed \in 1 .. MaxFrames
        /\ dump_left \in (Nat \ {0}) \cup {NoLimit}
    BY FrameAssumption DEF IInv, TypeOK, RecPush, FrameShape
  <2>2. QED BY <2>1, FrameAssumption DEF n_w, Lesser, NoLimit, IInv, TypeOK
<1>2. Payload(fed, n_w) \in Seq(Bytes)
  BY <1>1, FrameAssumption DEF Payload, Bytes
<1>3. FramesIn(log') = FramesIn(log) \cup {fed}
  BY <1>1, <1>2, FrameAssumption, PushAddsFrame DEF RecPush
<1>4. /\ FramesIn(log) \subseteq 1 .. fed - 1
      /\ fed = rec_dropped + Cardinality(FramesIn(log)) + 1
  BY DEF Counting, Pending, RecPush
<1>5. Cardinality(FramesIn(log')) = Cardinality(FramesIn(log)) + 1
  <2>1. fed \notin FramesIn(log)
    BY <1>1, <1>4
  <2>2. IsFiniteSet(FramesIn(log))
    BY <1>1, <1>4, FramesAreFinite
  <2>3. QED BY <1>3, <2>1, <2>2, FS_AddElement
<1>6. Cardinality(FramesIn(log)) \in Nat
  <2>1. fed - 1 \in Int
    BY <1>1
  <2>2. QED BY <1>4, <2>1, FramesAreFinite
<1>7. FramesIn(log') \subseteq 1 .. fed
  BY <1>1, <1>3, <1>4
<1>8. mpc' = "read" /\ fed' = fed /\ rec_dropped' = rec_dropped
  BY DEF RecPush
<1>9. fed = rec_dropped + Cardinality(FramesIn(log'))
  BY <1>1, <1>4, <1>5, <1>6
<1>10. FramesIn(log)' = FramesIn(log')
  BY DEF FramesIn
<1>11. QED BY <1>1, <1>7, <1>8, <1>9, <1>10 DEF Counting, Pending

\* So does every other step: what leaves the loop's turn without a push
\* counts, or the recording is over.
LEMMA ControlKeepsCounting ==
    ASSUME IInv, Counting, Control \/ WriteByte \/ WriterAdvances
    PROVE  Counting'
<1> DEFINE F == FramesIn(log)
<1>1. FramesIn(log)' = F
  BY ControlKeepsData DEF FramesIn, WriteByte, WriterAdvances
<1>2. /\ mpc = "start" => fed = 0 /\ log = <<>> /\ rec_dropped = 0
      /\ F \subseteq 1 .. (IF Pending THEN fed - 1 ELSE fed)
      /\ (rec_on /\ (Pending \/ mpc = "read")) =>
             fed = rec_dropped + Cardinality(F) + (IF Pending THEN 1 ELSE 0)
  BY DEF Counting
<1>3. fed \in Nat /\ rec_dropped \in Nat
  BY FrameAssumption DEF IInv, TypeOK
<1>4. F \subseteq 1 .. fed /\ fed \in Int
  BY <1>2, <1>3
<1>5. Cardinality(F) \in Nat
  BY <1>3, <1>4, FramesAreFinite
<1>6. mpc = "start" => F = {} /\ Cardinality(F) = 0
  BY <1>2, FS_EmptySet DEF FramesIn
<1>7. log' = log
  BY ControlKeepsData DEF WriteByte, WriterAdvances
<1>8. LifeCycle
  BY DEF IInv
<1>9. SUFFICES
        /\ mpc' = "start" => fed' = 0 /\ log = <<>> /\ rec_dropped' = 0
        /\ F \subseteq 1 .. (IF Pending' THEN fed' - 1 ELSE fed')
        /\ (rec_on' /\ (Pending' \/ mpc' = "read")) =>
               fed' = rec_dropped' + Cardinality(F) + (IF Pending' THEN 1 ELSE 0)
  BY <1>1, <1>7 DEF Counting
<1> HIDE DEF F
<1> USE DEF Pending
<1>11. CASE RecStart \/ RecStartFails
  BY <1>11, <1>2, <1>3, <1>5, <1>6 DEF RecStart, RecStartFails, ringVars
<1>12. CASE Signal
  BY <1>12, <1>2 DEF Signal, ringVars
<1>13. CASE ReadFrame
  BY <1>13, <1>2, <1>3, <1>5 DEF ReadFrame, ringVars
<1>14. CASE DumpOff
  BY <1>14, <1>4 DEF DumpOff, ringVars
<1>15. CASE DumpFrame
  BY <1>15, <1>2 DEF DumpFrame, ringVars
<1>16. CASE DumpLimitReached \/ LeaveLoop
  BY <1>16, <1>4 DEF DumpLimitReached, LeaveLoop, ringVars
<1>17. CASE RecPushDrops
  BY <1>17, <1>2, <1>3, <1>5, <1>4 DEF RecPushDrops, CountDrop
<1>18. CASE RecStopNothing \/ RecStop \/ RecClose
  BY <1>18, <1>4, <1>8 DEF RecStopNothing, RecStop, RecClose, Resume, ringVars,
                           LifeCycle
<1>19. CASE \/ WriterWaits \/ SpuriousWakeup \/ WriterQuits \/ WriterTakes
            \/ WriteReturns \/ WriteFails \/ WriteHangs \/ WriteByte
            \/ WriterAdvances \/ WriterGivesUp
  <2>1. /\ UNCHANGED <<mpc, fed, rec_dropped>>
        /\ rec_on' => rec_on
    BY <1>19 DEF WriterWaits, SpuriousWakeup, WriterQuits, WriterTakes,
                 WriteReturns, WriteFails, WriteHangs, WriteByte,
                 WriterAdvances, WriterGivesUp, mainVars, ringVars
  <2>2. QED BY <2>1, <1>2
<1>20. CASE UNCHANGED vars
  BY <1>20, <1>2 DEF vars, mainVars, ringVars
<1>21. QED
  BY <1>11, <1>12, <1>13, <1>14, <1>15, <1>16, <1>17, <1>18, <1>19, <1>20
     DEF Control

\* As long as the recording runs, no access unit disappears between the loop
\* and the stream without being counted.
THEOREM EveryDropIsCounted == Spec => []DropsAreCounted
<1>1. Init => Counting
  BY InitCounting
<1>2. IInv /\ Counting /\ [Next]_vars => Counting'
  <2> SUFFICES ASSUME IInv, Counting, [Next]_vars PROVE Counting'
    OBVIOUS
  <2>1. CASE RecPush
    BY <2>1, PushKeepsCounting
  <2>2. CASE Control \/ WriteByte \/ WriterAdvances
    BY <2>2, ControlKeepsCounting
  <2>3. QED BY <2>1, <2>2 DEF Next, Main, Writer, Stick, Idle, Control
<1>3. IInv /\ Counting => DropsAreCounted
  <2> SUFFICES ASSUME IInv, Counting, rec_on, mpc = "read"
               PROVE  fed = rec_dropped + Cardinality(FramesIn(log))
    BY DEF DropsAreCounted
  <2>1. /\ FramesIn(log) \subseteq 1 .. fed /\ fed \in Nat /\ rec_dropped \in Nat
        /\ fed = rec_dropped + Cardinality(FramesIn(log)) + 0
    BY FrameAssumption DEF Counting, Pending, IInv, TypeOK
  <2>2. Cardinality(FramesIn(log)) \in Nat
    BY <2>1, FramesAreFinite
  <2>3. QED BY <2>1, <2>2
<1>4. QED BY <1>1, <1>2, <1>3, RecorderInvariant, PTL DEF Spec

----------------------------------------------------------------------------
(* The recorder implements the lossy log *)

\* Where the phase of the log stands, from the life of the ring.
LEMMA WriterAliveIsOpen ==
    ASSUME IInv, wpc \in {"lock", "wait", "write", "advance", "hung", "fail",
                          "exited"}, rec_ring
    PROVE  Phase = "open" /\ mpc # "start"
BY DEF IInv, LifeCycle, Phase

\* The steps that leave the data alone are steps of the log, or stutter.
LEMMA ControlRefines ==
    ASSUME IInv, Control
    PROVE  [Log!Next]_(Log!vars)
<1>0. log' = log /\ stored' = stored
  BY ControlKeepsData
<1> USE DEF Phase, Log!vars
<1>1. CASE RecStart
  <2>1. Phase = "idle" /\ Phase' = "open"
    BY <1>1 DEF RecStart
  <2>2. QED BY <1>0, <2>1 DEF Log!Next, Log!Open
<1>2. CASE RecStartFails
  <2>1. Phase = "idle" /\ Phase' = "closed"
    BY <1>2 DEF RecStartFails, IInv, LifeCycle, ringVars
  <2>2. QED BY <1>0, <2>1 DEF Log!Next, Log!NeverOpen
<1>3. CASE WriterGivesUp
  <2>1. rec_ring /\ Phase = "open" /\ mpc # "start"
    BY <1>3, WriterAliveIsOpen DEF WriterGivesUp, IInv, NoUseAfterFree
  <2>2. Phase' = "failed"
    BY <1>3, <2>1 DEF WriterGivesUp, mainVars
  <2>3. QED BY <1>0, <2>1, <2>2 DEF Log!Next, Log!Fail
<1>4. CASE RecClose
  <2>1. rec_ring /\ mpc # "start" /\ mpc' # "start" /\ ~rec_ring'
    BY <1>4 DEF RecClose, Resume, IInv, LifeCycle
  <2>2. Phase' = "closed"
    BY <2>1
  <2>3. CASE wpc = "exited"
    <3>1. Phase = "open"
      BY <2>1, <2>3, WriterAliveIsOpen
    <3>2. Len(stored) = Len(log)
      <4>1. Len(log) = rec_head /\ rec_head = rec_tail /\ rec_tail \in Nat
        BY <2>3 DEF IInv, RingHoldsWindow, LifeCycle, TypeOK
      <4>2. Len(stored) = rec_tail
        BY <2>3, <4>1 DEF IInv, StoredLength, Writing
      <4>3. QED BY <4>1, <4>2
    <3>3. QED BY <1>0, <2>2, <3>1, <3>2 DEF Log!Next, Log!Close
  <2>4. CASE wpc = "errored"
    <3>1. Phase = "failed"
      BY <2>1, <2>4 DEF IInv, LifeCycle
    <3>2. QED BY <1>0, <2>2, <3>1 DEF Log!Next, Log!Close
  <2>5. QED BY <1>4, <2>3, <2>4 DEF RecClose, WriterGone
<1>5. CASE Signal \/ ReadFrame \/ LeaveLoop \/ DumpOff \/ DumpFrame
              \/ DumpLimitReached
  <2>1. Phase' = Phase
    BY <1>5 DEF Signal, ReadFrame, LeaveLoop, DumpOff, DumpFrame,
                DumpLimitReached, ringVars
  <2>2. QED BY <1>0, <2>1
<1>6. CASE RecPushDrops \/ RecStopNothing \/ RecStop
  <2>1. Phase' = Phase
    BY <1>6 DEF RecPushDrops, RecStopNothing, RecStop, Resume, ringVars
  <2>2. QED BY <1>0, <2>1
<1>7. CASE WriterWaits \/ SpuriousWakeup \/ WriterQuits \/ WriterTakes
              \/ WriteReturns \/ WriteFails \/ WriteHangs
  <2>1. Phase' = Phase
    BY <1>7 DEF WriterWaits, SpuriousWakeup, WriterQuits, WriterTakes,
                WriteReturns, WriteFails, WriteHangs, ringVars, mainVars
  <2>2. QED BY <1>0, <2>1
<1>8. CASE UNCHANGED vars
  BY <1>8 DEF vars, mainVars, ringVars
<1>9. QED
  BY <1>1, <1>2, <1>3, <1>4, <1>5, <1>6, <1>7, <1>8 DEF Control

\* A push is the log accepting the bytes the ring took in, as one frame.
LEMMA PushRefines ==
    ASSUME IInv, RecPush
    PROVE  Log!Next
<1>1. n_w \in 1 .. MaxFrameSize /\ fed \in 1 .. MaxFrames
  <2>1. /\ size \in 1 .. MaxFrameSize /\ fed \in 1 .. MaxFrames
        /\ dump_left \in (Nat \ {0}) \cup {NoLimit}
    BY FrameAssumption DEF IInv, TypeOK, RecPush, FrameShape
  <2>2. QED BY <2>1, FrameAssumption DEF n_w, Lesser, NoLimit
<1>2. Phase = "open" /\ Phase' = "open"
  BY DEF RecPush, Phase, IInv, LifeCycle
<1>3. log' = log \o Payload(fed, n_w) /\ stored' = stored
  BY DEF RecPush
<1>4. Payload(fed, n_w) \in {Payload(f, len) : f \in 1 .. MaxFrames,
                                             len \in 1 .. MaxFrameSize}
  BY <1>1
<1>5. Log!Accept(Payload(fed, n_w))
  BY <1>2, <1>3 DEF Log!Accept
<1>6. QED BY <1>4, <1>5 DEF Log!Next

\* A byte written is the log's file growing by its next byte.
LEMMA WriteByteRefines ==
    ASSUME IInv, WriteByte
    PROVE  Log!Next
<1>1. /\ Len(stored) < Len(log) /\ mem[off + done] = log[Len(stored) + 1]
  BY WriteTakesNext
<1>2. rec_ring /\ Phase = "open" /\ mpc # "start"
  BY WriterAliveIsOpen DEF WriteByte, IInv, NoUseAfterFree
<1>3. Phase' = Phase /\ log' = log
  BY DEF WriteByte, Phase, mainVars, ringVars
<1>4. stored' = Append(stored, log[Len(stored) + 1])
  BY <1>1 DEF WriteByte
<1>5. QED BY <1>1, <1>2, <1>3, <1>4 DEF Log!Next, Log!Store

\* The end of a write changes nothing the log can see.
LEMMA AdvanceRefines ==
    ASSUME IInv, WriterAdvances
    PROVE  UNCHANGED Log!vars
BY DEF WriterAdvances, Phase, Log!vars, mainVars

\* For every ring, frame size and limit the recorder is a lossy log: whole
\* frames in order, the file a growing prefix, and a clean close complete.
THEOREM RecorderImplementsLog == Spec => ImplementsLog
<1>1. Init => Log!Init
  BY DEF Init, Log!Init, Phase
<1>2. IInv /\ [Next]_vars => [Log!Next]_(Log!vars)
  <2> SUFFICES ASSUME IInv, [Next]_vars PROVE [Log!Next]_(Log!vars)
    OBVIOUS
  <2>1. CASE Control
    BY <2>1, ControlRefines
  <2>2. CASE RecPush
    BY <2>2, PushRefines
  <2>3. CASE WriteByte
    BY <2>3, WriteByteRefines
  <2>4. CASE WriterAdvances
    BY <2>4, AdvanceRefines
  <2>5. QED
    BY <2>1, <2>2, <2>3, <2>4 DEF Next, Main, Writer, Stick, Idle, Control
<1>3. QED
  BY <1>1, <1>2, RecorderInvariant, PTL DEF Spec, Log!Spec, ImplementsLog
==============================================================================
