----------------------------- MODULE RtpAssembly ------------------------------
(***************************************************************************)
(* The live half of mi-player's loop: datagrams that arrive late, in       *)
(* another order or never, put together again into the units VDEC is fed   *)
(* and the recorder is given.                                              *)
(*                                                                         *)
(* The sender and the network are external.  Packets have a number n; what *)
(* travels of it is the 16-bit sequence number n % SeqSpace.  Datagrams    *)
(* that are neither RTP nor Annex-B are left out: rtp_feed turns them away *)
(* unchanged (one that came before all others would make the player take   *)
(* the rest for RTP).                                                      *)
(***************************************************************************)
EXTENDS AccessUnits, SequencesExt

CONSTANTS
    Shapes,         \* the pictures a camera sends, as sequences of NAL units
    SeqSpace,       \* 65536
    frame_cap,      \* room for one unit, in symbols
    FirstNumber,    \* of the first packet; RTP starts anywhere
    MaxPictures,    \* bound: pictures sent
    MaxFragment,    \* bound: NAL units or payload bytes in one packet
    MaxInFlight     \* bound: packets that may overtake one another

ASSUME RtpAssumption ==
    /\ {SeqSpace, frame_cap, MaxPictures, MaxFragment, MaxInFlight} \subseteq Nat \ {0}
    /\ FirstNumber \in Nat
    /\ \A shape \in Shapes : shape # <<>> /\ shape \in Seq([t : NalTypes, n : Nat])

VARIABLES
    is_h265,        \* what the SDP or -h265 said
    annexb,         \* the sender sends Annex-B, one picture a datagram
    sent,           \* history: the pictures begun, and the packets they fill
    todo,           \* NAL units of the last of them not yet sent
    at,             \* payload bytes sent of the first of these
    net,            \* packets in flight
    detected, raw,
    have_seq, last_seq,
    frame,          \* its first frame_len bytes
    lost_packets,
    gaps,           \* history: packets that did not follow the one before
    arrived,        \* history: numbers of the packets the frame is made of
    latest,         \* history: number of the packet before
    unit,           \* the unit fed last, and where it came from
    recorded        \* the units the recorder has accepted

senderVars == <<is_h265, annexb, sent, todo, at>>
playerVars == <<detected, raw, have_seq, last_seq, frame, lost_packets>>
history    == <<gaps, arrived, latest>>
liveVars   == <<senderVars, net, playerVars, history, unit, recorded>>

NoUnit == [data |-> <<>>, from |-> <<>>]

RtpInit ==
    /\ is_h265 \in BOOLEAN /\ annexb \in BOOLEAN
    /\ sent = <<>> /\ todo = <<>> /\ at = 0 /\ net = {}
    /\ detected = FALSE /\ raw = FALSE
    /\ have_seq = FALSE /\ last_seq = 0
    /\ frame = <<>> /\ lost_packets = 0
    /\ gaps = 0 /\ arrived = <<>> /\ latest = 0
    /\ unit = NoUnit /\ recorded = <<>>

----------------------------------------------------------------------------
(* The sender and the network *)

Picture(k) ==
    FlattenSeq([j \in DOMAIN sent[k].shape |->
                  <<start_code>> \o NalUnit(k, j, sent[k].shape[j])])

k_now == Len(sent)
j_now == Len(sent[k_now].shape) - Len(todo) + 1

\* The next packet: what is left to send after it, and what it carries.
Sends(kind, start, nals, left, done) ==
    LET n == sent[k_now].last + 1 IN
    /\ Cardinality(net) < MaxInFlight
    /\ todo' = left /\ at' = done
    /\ sent' = [sent EXCEPT ![k_now].last = n]
    /\ net' = net \cup {[n |-> n, marker |-> left = <<>>, kind |-> kind,
                         start |-> start, nals |-> nals]}
    /\ UNCHANGED <<is_h265, annexb, playerVars, history, unit, recorded>>

BeginPicture ==
    /\ todo = <<>> /\ Len(sent) < MaxPictures
    /\ \E shape \in Shapes :
         LET last == IF sent = <<>> THEN FirstNumber - 1 ELSE sent[k_now].last IN
         /\ sent' = Append(sent, [shape |-> shape, first |-> last + 1, last |-> last])
         /\ todo' = shape
    /\ at' = 0
    /\ UNCHANGED <<is_h265, annexb, net, playerVars, history, unit, recorded>>

SendAnnexB ==
    /\ todo # <<>> /\ annexb
    /\ Sends("annexb", FALSE, <<Picture(k_now)>>, <<>>, 0)

\* One NAL unit, or several in one packet (STAP-A, AP).
SendNals ==
    /\ todo # <<>> /\ ~annexb /\ at = 0
    /\ \E m \in 1 .. MaxFragment :
         /\ m <= Len(todo)
         /\ Sends(IF m = 1 THEN "single" ELSE "aggregate", FALSE,
                  [x \in 1 .. m |-> NalUnit(k_now, j_now + x - 1, todo[x])],
                  SubSeq(todo, m + 1, Len(todo)), 0)

\* A part of a NAL unit (FU-A, FU), which is never the whole of it.
SendFragment ==
    /\ todo # <<>> /\ ~annexb
    /\ \E m \in 1 .. MaxFragment :
         LET nal == Head(todo) IN
         /\ at + m <= nal.n /\ m < nal.n
         /\ Sends("fragment", at = 0,
                  <<SubSeq(NalUnit(k_now, j_now, nal), at + 2, at + m + 1),
                    <<<<nal.t, k_now, j_now, 0>>>>>>,
                  IF at + m = nal.n THEN Tail(todo) ELSE todo,
                  IF at + m = nal.n THEN 0 ELSE at + m)

Lose ==
    /\ \E p \in net : net' = net \ {p}
    /\ UNCHANGED <<senderVars, playerVars, history, unit, recorded>>

----------------------------------------------------------------------------
(* rtp_feed and what it calls *)

\* frame_append: a piece that does not fit is left out, a later one may fit.
frame_appendMutant(buf, piece) ==
    IF Len(buf) > frame_cap THEN buf ELSE buf \o piece
frame_append(buf, piece) ==
    IF Len(buf) + Len(piece) > frame_cap THEN buf ELSE buf \o piece

\* The pieces a packet is appended in.  Only the first fragment brings back the
\* header, which the fragments carry apart from the payload.
RejoinedMutant(p) == <<p.nals[1]>>
Rejoined(p) ==
    IF p.start THEN <<<<start_code>>, p.nals[2], p.nals[1]>> ELSE <<p.nals[1]>>

Pieces(p) ==
    CASE p.kind = "fragment"                -> Rejoined(p)
      [] p.kind \in {"single", "aggregate"} ->
             FlattenSeq([x \in DOMAIN p.nals |-> <<<<start_code>>, p.nals[x]>>])
      [] OTHER                              -> <<>>

Depacketized(p) == FoldLeft(frame_append, frame, Pieces(p))

seq(p) == p.n % SeqSpace

IsGapMutant(p) == have_seq /\ seq(p) # last_seq + 1
IsGap(p) == have_seq /\ seq(p) # (last_seq + 1) % SeqSpace

\* Either all of a unit goes into the ring or, when it is full, nothing does.
Hands(data, from) ==
    /\ unit' = [data |-> data, from |-> from]
    /\ recorded' \in {recorded, Append(recorded, data)}

\* The first datagram decides what all of them are.
IsRaw(p) == IF detected THEN raw ELSE p.kind = "annexb"

FeedRaw ==
    \E p \in net :
      /\ net' = net \ {p}
      /\ IsRaw(p)
      /\ detected' = TRUE /\ raw' = TRUE
      /\ Hands(p.nals[1], <<p.n>>)
      /\ UNCHANGED <<senderVars, have_seq, last_seq, frame, lost_packets, history>>

FrameLeftMutant(p) == Depacketized(p)
FrameLeft(p) == IF p.marker THEN <<>> ELSE Depacketized(p)

FeedRtp ==
    \E p \in net :
      /\ net' = net \ {p}
      /\ ~IsRaw(p)
      /\ detected' = TRUE /\ raw' = FALSE
      /\ lost_packets' = lost_packets + (IF IsGap(p) THEN 1 ELSE 0)
      /\ have_seq' = TRUE /\ last_seq' = seq(p)
      /\ frame' = FrameLeft(p)
      /\ IF p.marker /\ Depacketized(p) # <<>>
         THEN Hands(Depacketized(p), Append(arrived, p.n))
         ELSE UNCHANGED <<unit, recorded>>
      /\ gaps' = gaps + (IF have_seq /\ p.n # latest + 1 THEN 1 ELSE 0)
      /\ latest' = p.n
      /\ arrived' = IF p.marker THEN <<>> ELSE Append(arrived, p.n)
      /\ UNCHANGED senderVars

Live ==
    \/ BeginPicture \/ SendAnnexB \/ SendNals \/ SendFragment
    \/ Lose \/ FeedRaw \/ FeedRtp

----------------------------------------------------------------------------
(* Properties of the live half *)

LiveTypeOK ==
    /\ is_h265 \in BOOLEAN /\ annexb \in BOOLEAN
    /\ detected \in BOOLEAN /\ raw \in BOOLEAN /\ have_seq \in BOOLEAN
    /\ last_seq \in 0 .. SeqSpace - 1
    /\ Len(frame) <= frame_cap
    /\ raw => annexb /\ frame = <<>>
    /\ lost_packets \in Nat /\ gaps \in Nat
    /\ Cardinality(net) <= MaxInFlight

\* A unit made of exactly the packets of one picture, in their order, is that
\* picture.
IntactIsFed ==
    \A k \in DOMAIN sent :
      /\ unit.from = [x \in 1 .. sent[k].last - sent[k].first + 1
                        |-> sent[k].first + x - 1]
      /\ ~(k = k_now /\ todo # <<>>)
      /\ Len(Picture(k)) <= frame_cap
      => unit.data = Picture(k)

\* "lost pkts" counts every packet that did not follow the one before it and,
\* across the wrap of the sequence number too, no other.  It would miss the
\* loss of SeqSpace packets in a row, which the bounds exclude.
LossesAreCounted == lost_packets = gaps
==============================================================================
