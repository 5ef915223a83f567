------------------------- MODULE BaseStationProofs -------------------------
(***************************************************************************)
(* Theorems about BaseStation, for any number of frames and of packets in  *)
(* a frame, any wrap of the ids and any network it may meet.               *)
(***************************************************************************)
EXTENDS BaseStation, SequenceTheorems, TLAPS

USE BaseStationAssumption DEF BaseStationAssumption, sender, window

LEMMA EmptyIsImage == Empty \in Images /\ Blank \in Images /\ Disconnected \in Images
<1>1. <<>> \in Raws
  BY EmptySeq DEF Raws
<1>2. Disconnected = [kind |-> "empty", id |-> 0, raw |-> <<>>]
      \/ Disconnected = [kind |-> "disconnected", id |-> 0, raw |-> <<>>]
  BY DEF Disconnected, Empty
<1>3. QED
  BY <1>1, <1>2 DEF Empty, Blank, Images

\* What the copy of a packet makes of raw.
LEMMA PutType ==
  ASSUME NEW raw \in Raws, NEW p \in Packets
  PROVE  /\ Put(raw, p) \in Raws
         /\ Len(Put(raw, p)) = IF p.offset < Len(raw) THEN Len(raw) ELSE p.offset + 1
         /\ Put(raw, p) # <<>>
<1> DEFINE n == IF p.offset < Len(raw) THEN Len(raw) ELSE p.offset + 1
<1>1. p.offset \in Nat /\ p.frame \in 0 .. Frames
  BY DEF Packets
<1>2. Len(raw) \in Nat /\ \A o \in 1 .. Len(raw) : raw[o] \in 0 .. Frames
  BY ElementOfSeq, LenProperties DEF Raws
<1>3. n \in Nat \ {0}
  BY <1>1, <1>2
<1>4. Put(raw, p) \in [1 .. n -> 0 .. Frames]
  BY <1>1, <1>2 DEF Put
<1>5. Put(raw, p) \in Raws /\ Len(Put(raw, p)) = n
  BY <1>3, <1>4, IsASeq, LenProperties DEF Raws
<1>6. QED
  BY <1>3, <1>5, EmptySeq

LEMMA PushedType ==
  ASSUME pkts \in [id : 0 .. MaxId, raw : Raws], NEW p \in Packets
  PROVE  Pushed(p) \in [id : 0 .. MaxId, raw : Raws]
<1>1. Put(pkts.raw, p) \in Raws
  BY PutType
<1>2. p.id \in 0 .. MaxId
  BY DEF Packets
<1>3. QED
  BY <1>1, <1>2 DEF Pushed

LEMMA PictureType ==
  ASSUME pkts \in [id : 0 .. MaxId, raw : Raws]
  PROVE  Picture \in Images
<1>1. Len(pkts.raw) \in Nat /\ \A o \in 1 .. Len(pkts.raw) : pkts.raw[o] \in 0 .. Frames
  BY ElementOfSeq, LenProperties DEF Raws
<1>2. [o \in 1 .. Chunks |-> IF o <= Len(pkts.raw) THEN pkts.raw[o] ELSE 0] \in [1 .. Chunks -> 0 .. Frames]
  BY <1>1
<1>3. [o \in 1 .. Chunks |-> IF o <= Len(pkts.raw) THEN pkts.raw[o] ELSE 0] \in Raws
  BY <1>2, IsASeq DEF Raws
<1>4. QED
  BY <1>3 DEF Picture, Images

LEMMA WithoutType ==
  ASSUME channel \in Seq(Packets), NEW k \in 1 .. Len(channel)
  PROVE  WithoutPacket(k) \in Seq(Packets)
<1>1. Len(channel) \in Nat /\ \A i \in 1 .. Len(channel) : channel[i] \in Packets
  BY ElementOfSeq, LenProperties
<1>2. SubSeq(channel, 1, k - 1) \in Seq(Packets)
  BY <1>1, SubSeqProperties
<1>3. SubSeq(channel, k + 1, Len(channel)) \in Seq(Packets)
  BY <1>1, SubSeqProperties
<1>4. QED
  BY <1>2, <1>3, ConcatProperties DEF WithoutPacket

LEMMA ReceivedType ==
  ASSUME TypeOK, Receive
  PROVE  pkt' \in Packets /\ channel' \in Seq(Packets)
<1>1. PICK k \in 1 .. Len(channel) : channel' = WithoutPacket(k) /\ pkt' = channel[k]
  BY DEF Receive
<1>2. channel \in Seq(Packets)
  BY DEF TypeOK
<1>3. QED
  BY <1>1, <1>2, ElementOfSeq, WithoutType

\* The types are those of TypeOK in every reachable state.
THEOREM BaseStationTypes == Spec => []TypeOK
<1>1. Init => TypeOK
  <2> SUFFICES ASSUME Init PROVE TypeOK
    OBVIOUS
  <2>1. <<>> \in Seq(Packets) /\ <<>> \in Raws /\ <<>> \in Seq(Raws)
    BY EmptySeq DEF Raws
  <2>2. pkt \in Packets /\ pkts \in [id : 0 .. MaxId, raw : Raws]
    BY <2>1 DEF Init, Packets
  <2>3. tmp \in Images /\ im \in Images /\ screen \in Images
    BY EmptyIsImage DEF Init
  <2>4. running \in BOOLEAN
    BY DEF Init
  <2>5. QED
    BY <2>1, <2>2, <2>3, <2>4 DEF Init, TypeOK
<1>2. ASSUME TypeOK, [Next]_vars PROVE TypeOK'
  <2>1. CASE NextFrame
    <3>1. frame + 1 \in 0 .. Frames
      <4>1. env.frames \in 0 .. Frames
        BY <1>2, Zenon DEF TypeOK, Conditions
      <4>2. frame < env.frames
        BY <2>1, Zenon DEF NextFrame
      <4>3. QED
        BY <1>2, <4>1, <4>2 DEF TypeOK
    <3>2. QED
      BY <1>2, <2>1, <3>1 DEF TypeOK, NextFrame, NextId
  <2>2. CASE SendChunk
    <3>1. [id |-> id, frame |-> frame, offset |-> chunk] \in Packets
      BY <1>2, <2>2 DEF TypeOK, SendChunk, Packets
    <3>2. channel' \in Seq(Packets)
      <4> DEFINE p == [id |-> id, frame |-> frame, offset |-> chunk]
      <4>1. <<p, p>> \in Seq(Packets) /\ p \in Packets
        BY <3>1
      <4>2. channel \o <<p, p>> \in Seq(Packets) /\ Append(channel, p) \in Seq(Packets)
        BY <1>2, <4>1, ConcatProperties, AppendProperties DEF TypeOK
      <4>3. channel' \in {Append(channel, p), channel \o <<p, p>>, channel}
        BY <2>2 DEF SendChunk
      <4>4. QED
        BY <1>2, <4>2, <4>3 DEF TypeOK
    <3>3. QED
      BY <1>2, <2>2, <3>2 DEF TypeOK, SendChunk
  <2>3. CASE Reboot
    BY <1>2, <2>3 DEF TypeOK, Reboot
  <2>4. CASE Bind
    BY <1>2, <2>4 DEF TypeOK, Bind
  <2>5. CASE Stop
    BY <1>2, <2>5 DEF TypeOK, Stop
  <2>6. CASE PollReady
    BY <1>2, <2>6 DEF TypeOK, PollReady
  <2>7. CASE PollTimeout
    BY <1>2, <2>7, EmptyIsImage DEF TypeOK, PollTimeout
  <2>8. CASE Receive
    <3>1. pkt' \in Packets /\ channel' \in Seq(Packets)
      BY <1>2, <2>8, ReceivedType
    <3>2. pkts' \in [id : 0 .. MaxId, raw : Raws]
      BY <1>2, <2>8, <3>1, PushedType DEF TypeOK, Receive
    <3>3. pc' \in {"assemble", "poll"}
      BY <2>8 DEF Receive
    <3>4. QED
      BY <1>2, <2>8, <3>1, <3>2, <3>3 DEF TypeOK, Receive
  <2>9. CASE ReceiveFails
    BY <1>2, <2>9 DEF TypeOK, ReceiveFails
  <2>10. CASE Assemble
    <3>1. tmp' \in Images
      BY <1>2, <2>10, EmptyIsImage, PictureType DEF TypeOK, Assemble
    <3>2. <<>> \in Raws /\ pkts.raw \in Raws
      BY <1>2, EmptySeq DEF TypeOK, Raws
    <3>3. saved' \in {Append(saved, pkts.raw), Append(saved, <<>>)}
      BY <2>10 DEF Assemble
    <3>4. saved' \in Seq(Raws)
      <4>1. saved \in Seq(Raws)
        BY <1>2 DEF TypeOK
      <4>2. Append(saved, pkts.raw) \in Seq(Raws) /\ Append(saved, <<>>) \in Seq(Raws)
        BY <3>2, <4>1, AppendProperties
      <4>3. QED
        BY <3>3, <4>2
    <3>5. pc' \in {"display", "push"}
      BY <2>10 DEF Assemble
    <3>6. QED
      BY <1>2, <2>10, <3>1, <3>4, <3>5 DEF TypeOK, Assemble
  <2>11. CASE Display
    BY <1>2, <2>11, EmptyIsImage DEF TypeOK, Display
  <2>12. CASE Emit
    BY <1>2, <2>12 DEF TypeOK, Emit, Signal
  <2>13. CASE Label
    BY <1>2, <2>13 DEF TypeOK, Label
  <2>14. CASE ClearAndPush
    <3>1. <<>> \in Raws
      BY EmptySeq DEF Raws
    <3>2. Put(<<>>, pkt) \in Raws /\ pkt.id \in 0 .. MaxId
      BY <1>2, <3>1, PutType DEF TypeOK, Packets
    <3>3. pkts' \in [id : 0 .. MaxId, raw : Raws]
      BY <2>14, <3>2 DEF ClearAndPush
    <3>4. QED
      BY <1>2, <2>14, <3>3 DEF TypeOK, ClearAndPush
  <2>15. CASE DrawBegin
    BY <1>2, <2>15 DEF TypeOK, DrawBegin
  <2>16. CASE DrawBlank
    BY <1>2, <2>16, EmptyIsImage DEF TypeOK, DrawBlank
  <2>17. CASE Draw
    BY <1>2, <2>17 DEF TypeOK, Draw
  <2>18. CASE ListenerFinished
    BY <1>2, <2>18 DEF TypeOK, ListenerFinished
  <2>19. CASE Quit
    BY <1>2, <2>19 DEF TypeOK, Quit
  <2>20. CASE UNCHANGED vars
    BY <1>2, <2>20 DEF TypeOK, vars
  <2>21. QED
    BY <1>2, <2>1, <2>2, <2>3, <2>4, <2>5, <2>6, <2>7, <2>8, <2>9, <2>10, <2>11, <2>12,
       <2>13, <2>14, <2>15, <2>16, <2>17, <2>18, <2>19, <2>20
       DEF Next, Board, Listener, Window
<1>3. QED
  BY <1>1, <1>2, PTL DEF Spec

-----------------------------------------------------------------------------
\* What a calm network delivers: packets of which each is the one before it once
\* more, or the next one of the same frame, or the first one of the next frame.
Follows(p, q) ==
  \/ p.frame > 0 /\ q = p
  \/ q = [p EXCEPT !.offset = @ + 1]
  \/ p.offset = Chunks - 1 /\ q = [id |-> NextId(p.id), frame |-> p.frame + 1, offset |-> 0]

\* The packet received last; before the first one, the last one of a frame 0.
Received == IF pkts.raw = <<>> THEN [id |-> 0, frame |-> 0, offset |-> Chunks - 1] ELSE pkt

\* p is the packet the board sent last.
SentLast(p) ==
  \/ chunk > 0 /\ p = [id |-> id, frame |-> frame, offset |-> chunk - 1]
  \/ chunk = 0 /\ p.frame + 1 = frame /\ p.offset = Chunks - 1 /\ id = NextId(p.id)

ChannelFollows ==
  /\ chunk < Chunks => frame > 0
  /\ channel = <<>> => SentLast(Received)
  /\ channel # <<>> => Follows(Received, channel[1]) /\ SentLast(channel[Len(channel)])
  /\ \A i \in 1 .. Len(channel) - 1 : Follows(channel[i], channel[i + 1])

\* The packets of pkts are those of one frame, without a gap. While the first packet
\* of the next frame waits to be pushed, they are all of them.
OneFrame ==
  /\ pkts.raw # <<>> /\ pkt.id = pkts.id =>
       pkt.frame > 0 /\ pkts.raw = [o \in 1 .. pkt.offset + 1 |-> pkt.frame]
  /\ pkts.raw # <<>> /\ pkt.id # pkts.id =>
       pkt.frame > 1 /\ pkt.offset = 0 /\ pkts.raw = Whole(pkt.frame - 1)
  /\ pc \in {"bind", "poll", "recv"} => pkts.raw = <<>> \/ pkt.id = pkts.id
  /\ pc \in {"assemble", "label", "push"} => pkts.raw # <<>> /\ pkt.id # pkts.id

WholeImage(image) == image.kind = "frame" => \E f \in 1 .. Frames : image.raw = Whole(f)

ImagesWhole ==
  /\ WholeImage(tmp) /\ WholeImage(im) /\ WholeImage(screen)
  /\ ~env.mjpeg => \A k \in 1 .. Len(saved) : \E f \in 1 .. Frames : saved[k] = Whole(f)

CalmInv == ChannelFollows /\ OneFrame /\ ImagesWhole

LEMMA NextIdDiffers ==
  ASSUME NEW i \in 0 .. MaxId
  PROVE  NextId(i) \in 1 .. MaxId /\ NextId(i) # i
BY DEF NextId

\* The network and the board are what they are.
LEMMA EnvStays == [Next]_vars => UNCHANGED env
BY DEF vars, Next, Board, Listener, Window, NextFrame, SendChunk, Reboot, Bind, Stop,
   PollReady, PollTimeout, Receive, ReceiveFails, Assemble, Display, Emit, Label,
   ClearAndPush, DrawBegin, DrawBlank, Draw, Quit, ListenerFinished

LEMMA ChannelKept ==
  ASSUME ChannelFollows, UNCHANGED <<pkt, pkts, channel, sender>>
  PROVE  ChannelFollows'
BY DEF ChannelFollows, Received, SentLast, Follows

\* What is sent follows what was sent last.
LEMMA SentFollows ==
  ASSUME TypeOK, NEW q, SentLast(q), chunk < Chunks
  PROVE  Follows(q, [id |-> id, frame |-> frame, offset |-> chunk])
<1>1. chunk \in Nat /\ frame \in Nat
  BY DEF TypeOK
<1>2. CASE chunk > 0 /\ q = [id |-> id, frame |-> frame, offset |-> chunk - 1]
  <2>1. [q EXCEPT !.offset = @ + 1] = [id |-> id, frame |-> frame, offset |-> chunk]
    BY <1>1, <1>2
  <2>2. QED
    BY <2>1 DEF Follows
<1>3. CASE chunk = 0 /\ q.frame + 1 = frame /\ q.offset = Chunks - 1 /\ id = NextId(q.id)
  BY <1>3 DEF Follows
<1>4. QED
  BY <1>2, <1>3 DEF SentLast

\* A packet goes into the channel once, or twice, or is lost in a lossy network.
LEMMA SentGoesOut ==
  ASSUME TypeOK, SendChunk,
         NEW p, p = [id |-> id, frame |-> frame, offset |-> chunk]
  PROVE  \E n \in {0, 1, 2} :
           /\ n = 0 => env.lossy
           /\ Len(channel') = Len(channel) + n
           /\ \A i \in 1 .. Len(channel) : channel'[i] = channel[i]
           /\ \A i \in Len(channel) + 1 .. Len(channel) + n : channel'[i] = p
<1>1. channel' = Append(channel, p) \/ channel' = channel \o <<p, p>> \/ (env.lossy /\ channel' = channel)
  BY Zenon DEF SendChunk
<1>2. channel \in Seq(Packets) /\ p \in Packets
  BY DEF TypeOK, SendChunk, Packets
<1>3. Len(channel) \in Nat
  BY <1>2, LenProperties
<1>4. CASE channel' = Append(channel, p)
  <2>1. /\ Len(channel') = Len(channel) + 1
        /\ \A i \in 1 .. Len(channel) : channel'[i] = channel[i]
        /\ channel'[Len(channel) + 1] = p
    BY <1>2, <1>4, AppendProperties
  <2>2. QED
    BY <1>3, <2>1
<1>5. CASE channel' = channel \o <<p, p>>
  <2>1. <<p, p>> \in Seq(Packets) /\ Len(<<p, p>>) = 2 /\ <<p, p>>[1] = p /\ <<p, p>>[2] = p
    BY <1>2
  <2>2. /\ Len(channel') = Len(channel) + 2
        /\ \A i \in 1 .. Len(channel) + 2 :
             channel'[i] = IF i <= Len(channel) THEN channel[i] ELSE <<p, p>>[i - Len(channel)]
    BY <1>2, <1>5, <2>1, ConcatProperties
  <2>3. \A i \in Len(channel) + 1 .. Len(channel) + 2 : channel'[i] = p
    <3> SUFFICES ASSUME NEW i \in Len(channel) + 1 .. Len(channel) + 2
                 PROVE  channel'[i] = p
      OBVIOUS
    <3>1. i - Len(channel) \in {1, 2} /\ i \in 1 .. Len(channel) + 2 /\ ~(i <= Len(channel))
      BY <1>3
    <3>2. QED
      BY <2>1, <2>2, <3>1
  <2>4. QED
    BY <1>3, <2>2, <2>3
<1>6. CASE env.lossy /\ channel' = channel
  BY <1>3, <1>6
<1>7. QED
  BY <1>1, <1>4, <1>5, <1>6

LEMMA SendFollows ==
  ASSUME TypeOK, Calm, ChannelFollows, SendChunk
  PROVE  ChannelFollows'
<1> DEFINE p == [id |-> id, frame |-> frame, offset |-> chunk]
<1>1. /\ chunk \in Nat /\ chunk < Chunks /\ frame > 0
      /\ Len(channel) \in Nat /\ (channel = <<>> <=> Len(channel) = 0)
  BY LenProperties, EmptySeq DEF TypeOK, SendChunk, ChannelFollows
<1>2. PICK n \in {1, 2} :
        /\ Len(channel') = Len(channel) + n
        /\ \A i \in 1 .. Len(channel) : channel'[i] = channel[i]
        /\ \A i \in Len(channel) + 1 .. Len(channel) + n : channel'[i] = p
  <2>1. ~env.lossy
    BY Zenon DEF Calm
  <2> HIDE DEF p
  <2>2. QED
    BY <2>1, SentGoesOut DEF p
<1>3. UNCHANGED <<pkt, pkts, frame, id>> /\ chunk' = chunk + 1
  BY DEF SendChunk
<1>4. channel' \in Seq(Packets) /\ channel' # <<>>
  <2>1. channel' \in Seq(Packets)
    <3>1. p \in Packets /\ channel \in Seq(Packets)
      BY DEF TypeOK, SendChunk, Packets
    <3>2. <<p, p>> \in Seq(Packets)
      BY <3>1
    <3>3. channel \o <<p, p>> \in Seq(Packets) /\ Append(channel, p) \in Seq(Packets)
      BY <3>1, <3>2, ConcatProperties, AppendProperties
    <3>4. channel' \in {Append(channel, p), channel \o <<p, p>>, channel}
      BY DEF SendChunk
    <3>5. QED
      BY <3>1, <3>3, <3>4
  <2>2. QED
    BY <1>1, <1>2, <2>1, EmptySeq
<1>5. Received' = Received
  BY <1>3 DEF Received
<1>6. Follows(Received, channel'[1])
  <2>1. CASE channel = <<>>
    <3>1. SentLast(Received)
      BY <2>1 DEF ChannelFollows
    <3>2. Follows(Received, p)
      BY <1>1, <3>1, SentFollows
    <3>3. channel'[1] = p
      BY <1>1, <1>2, <2>1
    <3>4. QED
      BY <3>2, <3>3
  <2>2. CASE channel # <<>>
    <3>1. channel'[1] = channel[1]
      BY <1>1, <1>2, <2>2
    <3>2. QED
      BY <2>2, <3>1 DEF ChannelFollows
  <2>3. QED
    BY <2>1, <2>2
<1>7. \A q : q = channel'[Len(channel')] => SentLast(q)'
  <2>1. channel'[Len(channel')] = p
    BY <1>1, <1>2
  <2>2. p = [id |-> id', frame |-> frame', offset |-> chunk' - 1] /\ chunk' > 0
    BY <1>1, <1>3
  <2>3. QED
    BY <2>1, <2>2 DEF SentLast
<1>8. \A i \in 1 .. Len(channel') - 1 : Follows(channel'[i], channel'[i + 1])
  <2> SUFFICES ASSUME NEW i \in 1 .. Len(channel') - 1
               PROVE  Follows(channel'[i], channel'[i + 1])
    OBVIOUS
  <2>1. CASE i < Len(channel)
    <3>1. channel'[i] = channel[i] /\ channel'[i + 1] = channel[i + 1]
      BY <1>1, <1>2, <2>1
    <3>2. Follows(channel[i], channel[i + 1])
      BY <1>1, <2>1 DEF ChannelFollows
    <3>3. QED
      BY <3>1, <3>2
  <2>2. CASE i = Len(channel)
    <3>1. channel'[i] = channel[i] /\ channel'[i + 1] = p
      BY <1>1, <1>2, <2>2
    <3>2. SentLast(channel[i])
      BY <1>1, <2>2 DEF ChannelFollows
    <3>3. QED
      BY <1>1, <3>1, <3>2, SentFollows
  <2>3. CASE i > Len(channel)
    <3>1. channel'[i] = p /\ channel'[i + 1] = p
      BY <1>1, <1>2, <2>3
    <3>2. QED
      BY <1>1, <3>1 DEF Follows
  <2>4. QED
    BY <1>1, <1>2, <2>1, <2>2, <2>3
<1>9. QED
  BY <1>1, <1>3, <1>4, <1>5, <1>6, <1>7, <1>8 DEF ChannelFollows, SentLast

LEMMA NextFrameFollows ==
  ASSUME TypeOK, Calm, ChannelFollows, NextFrame
  PROVE  ChannelFollows'
<1>1. id' = NextId(id)
  <2>1. ~env.tails
    BY Zenon DEF Calm
  <2>2. QED
    BY <2>1, Zenon DEF NextFrame
<1>2. /\ chunk = Chunks /\ chunk' = 0 /\ frame' = frame + 1
      /\ UNCHANGED <<pkt, pkts, channel>> /\ frame \in Nat /\ chunk \in Nat
  BY DEF NextFrame, TypeOK
<1>3. ASSUME NEW p, SentLast(p) PROVE SentLast(p)'
  BY <1>1, <1>2, <1>3 DEF SentLast
<1>4. Received' = Received
  BY <1>2 DEF Received
<1>5. QED
  BY <1>2, <1>3, <1>4 DEF ChannelFollows, Follows

\* A calm network keeps the order of the datagrams.
LEMMA CalmKeepsOrder == Calm => ~env.reorders
BY Zenon DEF Calm

\* recvfrom() returns the first datagram, and the others stay in their order.
LEMMA ReceiveTakesFirst ==
  ASSUME TypeOK, ~env.reorders, Receive
  PROVE  /\ channel # <<>> /\ pkt' = channel[1] /\ pkt' \in Packets
         /\ channel' \in Seq(Packets) /\ Len(channel') = Len(channel) - 1
         /\ \A i \in 1 .. Len(channel) - 1 : channel'[i] = channel[i + 1]
<1>1. PICK k \in 1 .. Len(channel) :
        (k = 1 \/ env.reorders) /\ channel' = WithoutPacket(k) /\ pkt' = channel[k]
  BY DEF Receive
<1>2. k = 1
  BY <1>1, Zenon
<1>3. channel \in Seq(Packets) /\ Len(channel) \in Nat
      /\ \A i \in 1 .. Len(channel) : channel[i] \in Packets
  BY LenProperties, ElementOfSeq DEF TypeOK
<1>4. SubSeq(channel, 1, 0) = <<>>
  BY <1>3, SubSeqEmpty
<1>5. /\ SubSeq(channel, 2, Len(channel)) \in Seq(Packets)
      /\ Len(SubSeq(channel, 2, Len(channel))) = Len(channel) - 1
      /\ \A i \in 1 .. Len(channel) - 1 : SubSeq(channel, 2, Len(channel))[i] = channel[i + 1]
  <2>1. \A i \in 2 .. Len(channel) : channel[i] \in Packets
    BY <1>3
  <2>2. /\ SubSeq(channel, 2, Len(channel)) \in Seq(Packets)
        /\ Len(SubSeq(channel, 2, Len(channel))) = IF 2 <= Len(channel) THEN Len(channel) - 2 + 1 ELSE 0
        /\ \A i \in 1 .. Len(channel) - 2 + 1 : SubSeq(channel, 2, Len(channel))[i] = channel[2 + i - 1]
    BY <1>3, <2>1, SubSeqProperties
  <2>3. (IF 2 <= Len(channel) THEN Len(channel) - 2 + 1 ELSE 0) = Len(channel) - 1
    <3>1. PICK n \in Nat : n = Len(channel)
      BY <1>3
    <3>2. n >= 1
      BY <1>1, <3>1
    <3>3. QED
      BY <3>1, <3>2
  <2>4. Len(channel) - 2 + 1 = Len(channel) - 1 /\ \A i \in 1 .. Len(channel) - 1 : 2 + i - 1 = i + 1
    BY <1>3
  <2>5. \A i \in 1 .. Len(channel) - 1 : SubSeq(channel, 2, Len(channel))[i] = channel[i + 1]
    BY <2>2, <2>4
  <2>6. QED
    BY <2>2, <2>3, <2>5
<1>6. WithoutPacket(1) = SubSeq(channel, 2, Len(channel))
  <2>1. WithoutPacket(1) = SubSeq(channel, 1, 0) \o SubSeq(channel, 2, Len(channel))
    BY DEF WithoutPacket
  <2>2. QED
    BY <1>4, <1>5, <2>1, ConcatEmptySeq
<1>7. pkt' = channel[1] /\ 1 \in 1 .. Len(channel) /\ channel' = SubSeq(channel, 2, Len(channel))
  BY <1>1, <1>2, <1>6
<1>8. channel # <<>>
  BY <1>7, EmptySeq
<1>9. pkt' \in Packets
  BY <1>3, <1>7
<1>10. QED
  BY <1>5, <1>7, <1>8, <1>9

\* The first packet of a frame, and one more of the same frame.
LEMMA PutFirst ==
  ASSUME NEW p \in Packets, p.offset = 0
  PROVE  Put(<<>>, p) = [o \in 1 .. p.offset + 1 |-> p.frame]
BY EmptySeq DEF Put

LEMMA PutSameFrame ==
  ASSUME NEW n \in Nat, NEW p \in Packets, p.offset \in {n, n + 1},
         NEW raw, raw = [o \in 1 .. n + 1 |-> p.frame]
  PROVE  Put(raw, p) = [o \in 1 .. p.offset + 1 |-> p.frame]
<1>1. p.frame \in 0 .. Frames
  BY DEF Packets
<1>2. raw \in Seq(0 .. Frames) /\ Len(raw) = n + 1
  BY <1>1, IsASeq, LenProperties
<1>3. QED
  BY <1>1, <1>2 DEF Put

LEMMA FirstReceived ==
  ASSUME TypeOK, Calm, ChannelFollows, OneFrame, Receive, pkts.raw = <<>>
  PROVE  OneFrame' /\ pkts'.raw # <<>>
<1>1. /\ channel # <<>> /\ pkt' = channel[1] /\ pkt' \in Packets
  BY CalmKeepsOrder, ReceiveTakesFirst
<1>2. Follows([id |-> 0, frame |-> 0, offset |-> Chunks - 1], pkt')
  BY <1>1 DEF ChannelFollows, Received
<1>3. pkt'.offset = 0 /\ pkt'.frame = 1
  BY <1>1, <1>2 DEF Follows, Packets
<1>4. pc' = "poll" /\ pkts' = [id |-> pkt'.id, raw |-> Put(<<>>, pkt')]
  BY DEF Receive, IdChanged, Pushed
<1>5. pkts'.raw = [o \in 1 .. pkt'.offset + 1 |-> pkt'.frame]
  BY <1>1, <1>3, <1>4, PutFirst
<1>6. pkts'.raw # <<>>
  BY <1>1, <1>4, PutType, EmptySeq DEF Raws
<1>7. QED
  BY <1>3, <1>4, <1>5, <1>6 DEF OneFrame

LEMMA NextReceived ==
  ASSUME TypeOK, Calm, ChannelFollows, OneFrame, Receive, pkts.raw # <<>>
  PROVE  OneFrame' /\ pkts'.raw # <<>>
<1>1. /\ channel # <<>> /\ pkt' = channel[1] /\ pkt' \in Packets /\ pkt \in Packets
      /\ pkts \in [id : 0 .. MaxId, raw : Raws]
  BY CalmKeepsOrder, ReceiveTakesFirst DEF TypeOK
<1>2. Follows(pkt, pkt')
  BY <1>1 DEF ChannelFollows, Received
<1>3. /\ pkt.id = pkts.id /\ pkt.frame > 0
      /\ pkts.raw = [o \in 1 .. pkt.offset + 1 |-> pkt.frame]
  BY DEF OneFrame, Receive
<1>4. pkt.offset \in 0 .. Chunks - 1 /\ pkt.frame \in Nat /\ pkt.id \in 0 .. MaxId
  BY <1>1 DEF Packets
<1>5. CASE pkt'.frame = pkt.frame /\ pkt'.id = pkt.id /\ pkt'.offset \in {pkt.offset, pkt.offset + 1}
  <2>1. pc' = "poll" /\ pkts' = [id |-> pkts.id, raw |-> Put(pkts.raw, pkt')]
    BY <1>3, <1>5 DEF Receive, IdChanged, Pushed
  <2>2. Put(pkts.raw, pkt') = [o \in 1 .. pkt'.offset + 1 |-> pkt'.frame]
    <3>1. pkts.raw = [o \in 1 .. pkt.offset + 1 |-> pkt'.frame] /\ pkt.offset \in Nat
      BY <1>3, <1>4, <1>5
    <3>2. pkt' \in Packets /\ pkt'.offset \in {pkt.offset, pkt.offset + 1}
      BY <1>1, <1>3, <1>5, <3>1
    <3>3. QED
      BY <3>1, <3>2, PutSameFrame, ZenonT(30)
  <2>3. Put(pkts.raw, pkt') # <<>>
    BY <1>1, PutType
  <2>4. QED
    BY <1>3, <1>5, <2>1, <2>2, <2>3 DEF OneFrame
<1>6. CASE pkt.offset = Chunks - 1
           /\ pkt' = [id |-> NextId(pkt.id), frame |-> pkt.frame + 1, offset |-> 0]
  <2>1. pkt'.id # pkts.id
    BY <1>3, <1>4, <1>6, NextIdDiffers
  <2>2. pc' = "assemble" /\ pkts' = pkts
    BY <2>1 DEF Receive, IdChanged
  <2>3. pkts.raw = Whole(pkt'.frame - 1)
    BY <1>3, <1>4, <1>6 DEF Whole
  <2>4. QED
    BY <1>3, <1>4, <1>6, <2>1, <2>2, <2>3 DEF OneFrame
<1>7. QED
  BY <1>1, <1>2, <1>5, <1>6 DEF Follows, Packets

LEMMA ReceiveFollows ==
  ASSUME TypeOK, Calm, ChannelFollows, Receive, pkts'.raw # <<>>
  PROVE  ChannelFollows'
<1>1. /\ channel # <<>> /\ pkt' = channel[1]
      /\ channel' \in Seq(Packets) /\ Len(channel') = Len(channel) - 1
      /\ \A i \in 1 .. Len(channel) - 1 : channel'[i] = channel[i + 1]
  BY CalmKeepsOrder, ReceiveTakesFirst
<1>2. Len(channel) \in Nat \ {0} /\ UNCHANGED <<frame, chunk, id>>
  BY <1>1, EmptySeq DEF TypeOK, Receive
<1>3. Received' = channel[1]
  BY <1>1 DEF Received
<1>4. channel' = <<>> <=> Len(channel) = 1
  BY <1>1, <1>2, EmptySeq
<1>5. SentLast(channel[Len(channel)]) /\ \A q : SentLast(q) => SentLast(q)'
  BY <1>1, <1>2 DEF ChannelFollows, SentLast
<1>6. channel' # <<>> =>
        /\ channel'[Len(channel')] = channel[Len(channel)]
        /\ Follows(channel[1], channel'[1])
  BY <1>1, <1>2, <1>4 DEF ChannelFollows
<1>7. \A i \in 1 .. Len(channel') - 1 : Follows(channel'[i], channel'[i + 1])
  <2> SUFFICES ASSUME NEW i \in 1 .. Len(channel') - 1
               PROVE  Follows(channel'[i], channel'[i + 1])
    OBVIOUS
  <2>1. channel'[i] = channel[i + 1] /\ channel'[i + 1] = channel[i + 2]
    BY <1>1, <1>2
  <2>2. i + 1 \in 1 .. Len(channel) - 1 /\ (i + 1) + 1 = i + 2
    BY <1>1, <1>2
  <2>3. QED
    BY <2>1, <2>2 DEF ChannelFollows
<1>8. chunk' < Chunks => frame' > 0
  BY <1>2 DEF ChannelFollows
<1>9. QED
  BY <1>1, <1>2, <1>3, <1>4, <1>5, <1>6, <1>7, <1>8 DEF ChannelFollows, SentLast

-----------------------------------------------------------------------------
\* The steps that neither receive nor send nor push.
LEMMA OneFrameKept ==
  ASSUME OneFrame, UNCHANGED <<pkt, pkts>>,
         pc' \in {"bind", "poll", "recv"} => pkts.raw = <<>> \/ pkt.id = pkts.id,
         pc' \in {"assemble", "label", "push"} => pkts.raw # <<>> /\ pkt.id # pkts.id
  PROVE  OneFrame'
BY DEF OneFrame

LEMMA PushFollows ==
  ASSUME TypeOK, Calm, ChannelFollows, OneFrame, ClearAndPush
  PROVE  ChannelFollows' /\ OneFrame'
<1>1. /\ pkts.raw # <<>> /\ pkt.frame > 1 /\ pkt.offset = 0 /\ pkt \in Packets
  BY DEF OneFrame, ClearAndPush, TypeOK
<1>2. /\ pkts' = [id |-> pkt.id, raw |-> Put(<<>>, pkt)] /\ pc' = "poll"
      /\ UNCHANGED <<pkt, channel, frame, chunk, id>>
  BY DEF ClearAndPush
<1>3. pkts'.raw # <<>>
  BY <1>1, <1>2, PutType, EmptySeq DEF Raws
<1>4. pkts'.raw = [o \in 1 .. pkt.offset + 1 |-> pkt.frame]
  BY <1>1, <1>2, PutFirst
<1>5. OneFrame'
  <2>1. pkts'.id = pkt'.id /\ pkt' = pkt /\ pc' = "poll"
    BY <1>2
  <2>2. pkt'.frame > 0
    BY <1>1, <2>1 DEF Packets
  <2>3. QED
    BY <1>3, <1>4, <2>1, <2>2 DEF OneFrame
<1>6. Received' = Received
  BY <1>1, <1>2, <1>3 DEF Received
<1>7. ChannelFollows'
  BY <1>2, <1>6 DEF ChannelFollows, SentLast
<1>8. QED
  BY <1>5, <1>7

LEMMA ImagesKept ==
  ASSUME ImagesWhole, UNCHANGED <<env, saved>>,
         tmp' \in {tmp, Empty, Disconnected},
         im' \in {im, tmp, Blank}, screen' \in {screen, im}
  PROVE  ImagesWhole'
<1>1. Disconnected.kind # "frame" /\ Empty.kind # "frame" /\ Blank.kind # "frame"
  BY DEF Disconnected, Empty, Blank
<1>2. WholeImage(tmp') /\ WholeImage(im') /\ WholeImage(screen')
  BY <1>1 DEF ImagesWhole, WholeImage
<1>3. (~env'.mjpeg) => ~env.mjpeg
  BY Zenon
<1>4. (~env'.mjpeg) => \A k \in 1 .. Len(saved') : \E f \in 1 .. Frames : saved'[k] = Whole(f)
  BY <1>3, Zenon DEF ImagesWhole
<1>5. QED
  BY <1>2, <1>4, Zenon DEF ImagesWhole, WholeImage

\* The picture of a whole frame is whole, and so is what goes to the file.
LEMMA AssembleWhole ==
  ASSUME TypeOK, OneFrame, ImagesWhole, Assemble
  PROVE  ImagesWhole'
<1>1. pkts.raw # <<>> /\ pkt.id # pkts.id /\ pkt.frame > 1 /\ pkts.raw = Whole(pkt.frame - 1)
      /\ pkt.frame \in 0 .. Frames
  BY DEF OneFrame, Assemble, TypeOK, Packets
<1>2. PICK f \in 1 .. Frames : pkts.raw = Whole(f)
  BY <1>1
<1>3. Len(pkts.raw) = Chunks
  BY <1>2, LenProperties DEF TypeOK, Whole, Raws
<1>4. Picture.raw = Whole(f)
  BY <1>2, <1>3 DEF Picture, Whole
<1>5. WholeImage(Picture) /\ WholeImage(Empty)
  BY <1>4 DEF WholeImage, Empty
<1>6. UNCHANGED <<env, im, screen>>
  BY DEF Assemble
<1>7. WholeImage(tmp')
  BY <1>5, Zenon DEF Assemble
<1>8. ASSUME ~env.mjpeg, NEW k \in 1 .. Len(saved')
      PROVE  \E g \in 1 .. Frames : saved'[k] = Whole(g)
  <2>1. saved' = Append(saved, pkts.raw)
    BY <1>8, Zenon DEF Assemble
  <2>2. saved \in Seq(Raws) /\ pkts.raw \in Raws
    BY DEF TypeOK
  <2>3. /\ Len(saved') = Len(saved) + 1 /\ Len(saved) \in Nat
        /\ \A i \in 1 .. Len(saved) : saved'[i] = saved[i]
        /\ saved'[Len(saved) + 1] = pkts.raw
    BY <2>1, <2>2, AppendProperties, LenProperties
  <2>4. CASE k \in 1 .. Len(saved)
    <3>1. \E g \in 1 .. Frames : saved[k] = Whole(g)
      BY <1>8, <2>4, Zenon DEF ImagesWhole
    <3>2. QED
      BY <2>3, <2>4, <3>1
  <2>5. CASE k = Len(saved) + 1
    BY <1>2, <2>3, <2>5
  <2>6. QED
    BY <2>3, <2>4, <2>5
<1>9. WholeImage(im') /\ WholeImage(screen')
  BY <1>6 DEF ImagesWhole, WholeImage
<1>10. (~env'.mjpeg) => ~env.mjpeg
  BY <1>6, Zenon
<1>11. QED
  BY <1>7, <1>8, <1>9, <1>10, Zenon DEF ImagesWhole, WholeImage

LEMMA CalmStep ==
  ASSUME TypeOK, Calm, CalmInv, [Next]_vars
  PROVE  CalmInv'
<1>0. ChannelFollows /\ OneFrame /\ ImagesWhole
  BY DEF CalmInv
<1>1. CASE NextFrame
  <2>1. ChannelFollows'
    BY <1>0, <1>1, NextFrameFollows
  <2>2. OneFrame' /\ ImagesWhole'
    BY <1>0, <1>1, OneFrameKept, ImagesKept DEF NextFrame, OneFrame
  <2>3. QED
    BY <2>1, <2>2 DEF CalmInv
<1>2. CASE SendChunk
  <2>1. ChannelFollows'
    BY <1>0, <1>2, SendFollows
  <2>2. OneFrame' /\ ImagesWhole'
    BY <1>0, <1>2, OneFrameKept, ImagesKept DEF SendChunk, OneFrame
  <2>3. QED
    BY <2>1, <2>2 DEF CalmInv
<1>3. CASE Reboot
  <2>1. ~env.reboots
    BY Zenon DEF Calm
  <2>2. QED
    BY <1>3, <2>1, Zenon DEF Reboot
<1>4. CASE Receive
  <2>1. OneFrame' /\ pkts'.raw # <<>>
    BY <1>0, <1>4, FirstReceived, NextReceived
  <2>2. ChannelFollows'
    BY <1>0, <1>4, <2>1, ReceiveFollows
  <2>3. ImagesWhole'
    BY <1>0, <1>4, ImagesKept DEF Receive
  <2>4. QED
    BY <2>1, <2>2, <2>3 DEF CalmInv
<1>5. CASE ClearAndPush
  <2>1. ChannelFollows' /\ OneFrame'
    BY <1>0, <1>5, PushFollows
  <2>2. ImagesWhole'
    BY <1>0, <1>5, ImagesKept DEF ClearAndPush
  <2>3. QED
    BY <2>1, <2>2 DEF CalmInv
<1>6. CASE Assemble
  <2>1. ChannelFollows'
    BY <1>0, <1>6, ChannelKept DEF Assemble
  <2>2. OneFrame'
    BY <1>0, <1>6, OneFrameKept DEF Assemble, OneFrame
  <2>3. ImagesWhole'
    BY <1>0, <1>6, AssembleWhole
  <2>4. QED
    BY <2>1, <2>2, <2>3 DEF CalmInv
<1>7. CASE Bind \/ Stop \/ PollReady \/ PollTimeout \/ ReceiveFails \/ Display \/ Emit \/ Label
  <2>1. UNCHANGED <<env, pkt, pkts, channel, sender, saved, screen>>
    BY <1>7 DEF Bind, Stop, PollReady, PollTimeout, ReceiveFails, Display, Emit, Label
  <2>2. ChannelFollows'
    BY <1>0, <2>1, ChannelKept
  <2>3. tmp' \in {tmp, Empty, Disconnected} /\ im' \in {im, tmp}
    BY <1>7 DEF Bind, Stop, PollReady, PollTimeout, ReceiveFails, Display, Emit, Label
  <2>4. ImagesWhole'
    BY <1>0, <2>1, <2>3, ImagesKept
  <2>5. pc' \in {"bind", "poll", "recv"} => pkts.raw = <<>> \/ pkt.id = pkts.id
    BY <1>0, <1>7
       DEF Bind, Stop, PollReady, PollTimeout, ReceiveFails, Display, Emit, Label, OneFrame, IdChanged
  <2>6. pc' \in {"assemble", "label", "push"} => pkts.raw # <<>> /\ pkt.id # pkts.id
    BY <1>0, <1>7
       DEF Bind, Stop, PollReady, PollTimeout, ReceiveFails, Display, Emit, Label, OneFrame, IdChanged
  <2>7. OneFrame'
    BY <1>0, <2>1, <2>5, <2>6, OneFrameKept
  <2>8. QED
    BY <2>2, <2>4, <2>7 DEF CalmInv
<1>8. CASE DrawBegin \/ DrawBlank \/ Draw \/ ListenerFinished \/ Quit \/ UNCHANGED vars
  <2>1. UNCHANGED <<env, pkt, pkts, channel, sender, saved, tmp>> /\ pc' \in {pc, "ended"}
    BY <1>8 DEF DrawBegin, DrawBlank, Draw, ListenerFinished, Quit, vars
  <2>2. im' \in {im, Blank} /\ screen' \in {screen, im}
    BY <1>8 DEF DrawBegin, DrawBlank, Draw, ListenerFinished, Quit, vars
  <2>3. ChannelFollows'
    BY <1>0, <2>1, ChannelKept
  <2>4. OneFrame'
    BY <1>0, <2>1, OneFrameKept DEF OneFrame
  <2>5. ImagesWhole'
    BY <1>0, <2>1, <2>2, ImagesKept
  <2>6. QED
    BY <2>3, <2>4, <2>5 DEF CalmInv
<1>9. QED
  BY <1>1, <1>2, <1>3, <1>4, <1>5, <1>6, <1>7, <1>8 DEF Next, Board, Listener, Window

\* However datagrams are doubled, ids wrap and the threads interleave: in a calm
\* network every image on the screen, and every uncompressed frame in data.raw, is all
\* of one frame. Nothing is asked of the channel but its order.
THEOREM ShowsWhole == Spec => []ShownIsWhole
<1>1. Init => (Calm => CalmInv)
  <2> SUFFICES ASSUME Init PROVE CalmInv
    OBVIOUS
  <2>1. ChannelFollows
    BY EmptySeq DEF Init, ChannelFollows, Received, SentLast
  <2>2. OneFrame
    BY DEF Init, OneFrame
  <2>3. saved = <<>> /\ tmp = Empty /\ im = Empty /\ screen = Empty
    BY DEF Init
  <2>4. ImagesWhole
    BY <2>3, EmptySeq DEF ImagesWhole, WholeImage, Empty
  <2>5. QED
    BY <2>1, <2>2, <2>4 DEF CalmInv
<1>2. TypeOK /\ (Calm => CalmInv) /\ [Next]_vars => (Calm => CalmInv)'
  <2> SUFFICES ASSUME TypeOK, Calm => CalmInv, [Next]_vars, Calm'
               PROVE  CalmInv'
    OBVIOUS
  <2>1. UNCHANGED env
    BY EnvStays
  <2>2. Calm
    BY <2>1, Zenon DEF Calm
  <2>3. QED
    BY <2>2, CalmStep
<1>3. (Calm => CalmInv) => ShownIsWhole
  BY DEF CalmInv, ImagesWhole, WholeImage, ShownIsWhole
<1>4. QED
  BY <1>1, <1>2, <1>3, BaseStationTypes, PTL DEF Spec

-----------------------------------------------------------------------------
\* The window. An image is stored before its signal, and the label follows before
\* the listener rests; im never goes back to be empty.
WindowInv == ~env.noPicture =>
  /\ im = Empty => signals = 0 /\ pc # "emit" /\ gui # "drawing"
  /\ gui \notin {"blanking", "crashed"}
  /\ tmp.kind # "blank" /\ im.kind # "blank" /\ screen.kind # "blank"
  /\ gui = "idle" /\ signals = 0 /\ pc # "emit" => screen = im
  /\ pc = "assemble" => IdChanged(pkt)
  /\ pc = "display" => tmp # Empty /\ (tmp.kind = "frame" => IdChanged(pkt) /\ tmp.id = pkts.id)
  /\ im.kind = "frame" =>
       /\ pc = "emit" => IdChanged(pkt) /\ im.id = pkts.id
       /\ pc = "label" => im.id = pkts.id
       /\ pc \notin {"emit", "label"} => label = im.id

LEMMA WindowStep ==
  ASSUME TypeOK, WindowInv, [Next]_vars
  PROVE  WindowInv'
<1> SUFFICES ASSUME ~env'.noPicture PROVE WindowInv'
  BY DEF WindowInv
<1>1. env' = env /\ ~env.noPicture
  BY EnvStays
<1> USE DEF WindowInv, IdChanged
<1>2. CASE Board
  BY <1>1, <1>2 DEF Board, NextFrame, SendChunk, Reboot
<1>3. CASE Bind \/ Stop \/ PollReady \/ ReceiveFails
  BY <1>1, <1>3 DEF Bind, Stop, PollReady, ReceiveFails
<1>4. CASE PollTimeout
  <2>1. Disconnected.kind = "disconnected" /\ Disconnected # Empty
    BY <1>1 DEF Disconnected, Empty
  <2> QED
    BY <1>1, <1>4, <2>1 DEF PollTimeout
<1>5. CASE Receive
  BY <1>1, <1>5 DEF Receive
<1>6. CASE Assemble
  <2>1. Picture.kind = "frame" /\ Picture.id = pkts.id /\ Empty.kind = "empty"
    BY DEF Picture, Empty
  <2>2. tmp' \in {Picture, Empty} /\ (pc' = "display" => tmp' # Empty)
        /\ pc = "assemble" /\ pc' \in {"display", "push"} /\ UNCHANGED <<env, pkt, pkts, im, signals, gui, screen, label>>
    BY <1>6 DEF Assemble, Displays
  <2> QED
    BY <1>1, <2>1, <2>2
<1>7. CASE Display
  BY <1>1, <1>7 DEF Display, Empty
<1>8. CASE Emit
  <2>1. signals' # 0
    BY <1>8 DEF Emit, Signal, TypeOK
  <2> QED
    BY <1>1, <1>8, <2>1 DEF Emit
<1>9. CASE Label
  BY <1>1, <1>9 DEF Label
<1>10. CASE ClearAndPush
  BY <1>1, <1>10 DEF ClearAndPush
<1>11. CASE DrawBegin
  BY <1>1, <1>11 DEF DrawBegin, TypeOK
<1>12. CASE DrawBlank
  BY <1>1, <1>12 DEF DrawBlank
<1>13. CASE Draw
  BY <1>1, <1>13 DEF Draw
<1>14. CASE ListenerFinished \/ Quit
  BY <1>1, <1>14 DEF ListenerFinished, Quit
<1>15. CASE UNCHANGED vars
  BY <1>1, <1>15 DEF vars
<1> QED
  BY <1>2, <1>3, <1>4, <1>5, <1>6, <1>7, <1>8, <1>9, <1>10, <1>11, <1>12, <1>13, <1>14, <1>15
     DEF Next, Listener, Window

THEOREM WindowInvariant == Spec => [](TypeOK /\ WindowInv)
<1>1. Init => WindowInv
  BY DEF Init, WindowInv, Empty
<1>2. TypeOK /\ WindowInv /\ [Next]_vars => WindowInv'
  BY WindowStep
<1> QED
  BY <1>1, <1>2, BaseStationTypes, PTL DEF Spec

\* No image is missed: whenever both threads rest, the window shows the one stored
\* last and, under a frame, its id.
THEOREM LatestShown == Spec => []ScreenIsLatest
<1>1. WindowInv => ScreenIsLatest
  BY DEF WindowInv, ScreenIsLatest
<1> QED
  BY <1>1, WindowInvariant, PTL

\* With the image for "disconnected" draw() always has one, and cvtColor() does not throw.
THEOREM AlwaysAnImage == Spec => []DrawsImages
<1>1. WindowInv => DrawsImages
  BY DEF WindowInv, DrawsImages
<1> QED
  BY <1>1, WindowInvariant, PTL

-----------------------------------------------------------------------------
\* The order of data.raw. Along the way of a packet, from pkts back through pkt and
\* the channel to the board, nothing is newer than what comes after it, and what is
\* of the same frame has the same id.
Ordered == ~env.reorders /\ ~env.tails /\ ~env.reboots

NotAfter(f, i, g, j) == f < g \/ (f = g /\ i = j)

WayInOrder == Ordered =>
  /\ NotAfter(pkt.frame, pkt.id, frame, id)
  /\ \A i \in 1 .. Len(channel) :
       /\ NotAfter(pkt.frame, pkt.id, channel[i].frame, channel[i].id)
       /\ NotAfter(channel[i].frame, channel[i].id, frame, id)
       /\ \A j \in i .. Len(channel) :
            NotAfter(channel[i].frame, channel[i].id, channel[j].frame, channel[j].id)
  /\ \A o \in 1 .. Len(pkts.raw) :
       pkts.raw[o] # 0 => NotAfter(pkts.raw[o], pkts.id, pkt.frame, pkt.id)

\* What is written is newer than all that was written before.
SavedNewer == Ordered =>
  \A k, l \in 1 .. Len(saved) : k < l =>
    \A o \in 1 .. Len(saved[k]), q \in 1 .. Len(saved[l]) :
      saved[k][o] # 0 /\ saved[l][q] # 0 => saved[k][o] < saved[l][q]

\* What is saved is older than the packet received last, and than all of pkts until
\* that itself is saved.
SavedOlder == Ordered =>
  /\ pc \in {"bind", "poll", "recv"} => ~IdChanged(pkt)
  /\ pc \in {"assemble", "label", "push"} => IdChanged(pkt)
  /\ SavedNewer
  /\ \A k \in 1 .. Len(saved) : \A o \in 1 .. Len(saved[k]) : saved[k][o] # 0 =>
       /\ saved[k][o] < pkt.frame
       /\ pc = "assemble" \/ ~IdChanged(pkt) =>
            \A q \in 1 .. Len(pkts.raw) : pkts.raw[q] # 0 => saved[k][o] < pkts.raw[q]

\* What a place of raw holds after a packet was put: its data, 0 or what was there.
LEMMA PutEntries ==
  ASSUME NEW raw \in Raws, NEW p \in Packets, NEW o \in 1 .. Len(Put(raw, p))
  PROVE  \/ Put(raw, p)[o] \in {0, p.frame}
         \/ o \in 1 .. Len(raw) /\ Put(raw, p)[o] = raw[o]
<1> DEFINE n == IF p.offset < Len(raw) THEN Len(raw) ELSE p.offset + 1
<1>1. Len(Put(raw, p)) = n /\ Len(raw) \in Nat
  BY PutType, LenProperties DEF Raws
<1>2. Put(raw, p)[o] = IF o = p.offset + 1 THEN p.frame ELSE IF o <= Len(raw) THEN raw[o] ELSE 0
  BY <1>1 DEF Put
<1> HIDE DEF n
<1>3. o \in Nat /\ o >= 1
  <2>1. Len(Put(raw, p)) \in Nat
    BY PutType, LenProperties DEF Raws
  <2> QED
    BY <2>1
<1> QED
  BY <1>1, <1>2, <1>3

\* The types the comparisons need.
LEMMA Comparable ==
  ASSUME TypeOK
  PROVE  /\ frame \in Nat /\ pkt \in Packets /\ pkt.frame \in Nat /\ Len(channel) \in Nat
         /\ \A i \in 1 .. Len(channel) : channel[i] \in Packets /\ channel[i].frame \in Nat
         /\ pkts.raw \in Raws /\ Len(pkts.raw) \in Nat
         /\ \A o \in 1 .. Len(pkts.raw) : pkts.raw[o] \in Nat
         /\ Len(saved) \in Nat
         /\ \A k \in 1 .. Len(saved) : saved[k] \in Raws /\ Len(saved[k]) \in Nat
         /\ \A k \in 1 .. Len(saved) : \A o \in 1 .. Len(saved[k]) : saved[k][o] \in Nat
<1>1. frame \in Nat /\ pkt \in Packets /\ channel \in Seq(Packets) /\ pkts.raw \in Raws /\ saved \in Seq(Raws)
  BY DEF TypeOK
<1>2. \A p \in Packets : p.frame \in Nat
  BY DEF Packets
<1>3. Len(channel) \in Nat /\ \A i \in 1 .. Len(channel) : channel[i] \in Packets
  BY <1>1, LenProperties, ElementOfSeq
<1>4. \A raw \in Raws : Len(raw) \in Nat /\ \A o \in 1 .. Len(raw) : raw[o] \in Nat
  <2> SUFFICES ASSUME NEW raw \in Raws PROVE Len(raw) \in Nat /\ \A o \in 1 .. Len(raw) : raw[o] \in Nat
    OBVIOUS
  <2>1. raw \in Seq(0 .. Frames)
    BY DEF Raws
  <2>2. Len(raw) \in Nat /\ \A o \in 1 .. Len(raw) : raw[o] \in 0 .. Frames
    BY <2>1, LenProperties, ElementOfSeq
  <2> QED
    BY <2>2
<1>5. Len(saved) \in Nat /\ \A k \in 1 .. Len(saved) : saved[k] \in Raws
  BY <1>1, LenProperties, ElementOfSeq
<1> QED
  BY <1>1, <1>2, <1>3, <1>4, <1>5

\* The way stays in order.
LEMMA WayStep ==
  ASSUME TypeOK, WayInOrder, [Next]_vars
  PROVE  WayInOrder'
<1> SUFFICES ASSUME Ordered' PROVE WayInOrder'
  BY DEF WayInOrder
<1>1. Ordered /\ env' = env
  BY EnvStays DEF Ordered
<1>2. /\ NotAfter(pkt.frame, pkt.id, frame, id)
      /\ \A i \in 1 .. Len(channel) :
           /\ NotAfter(pkt.frame, pkt.id, channel[i].frame, channel[i].id)
           /\ NotAfter(channel[i].frame, channel[i].id, frame, id)
           /\ \A j \in i .. Len(channel) :
                NotAfter(channel[i].frame, channel[i].id, channel[j].frame, channel[j].id)
      /\ \A o \in 1 .. Len(pkts.raw) :
           pkts.raw[o] # 0 => NotAfter(pkts.raw[o], pkts.id, pkt.frame, pkt.id)
  BY <1>1 DEF WayInOrder
<1>3. CASE NextFrame
  <2>1. frame' = frame + 1 /\ UNCHANGED <<pkt, channel, pkts>>
    BY <1>3 DEF NextFrame
  <2>2. \A f \in Nat : \A i : NotAfter(f, i, frame, id) => NotAfter(f, i, frame', id')
    BY <2>1, Comparable DEF NotAfter
  <2>3. NotAfter(pkt.frame, pkt.id, frame', id')
        /\ \A i \in 1 .. Len(channel) : NotAfter(channel[i].frame, channel[i].id, frame', id')
    BY <1>2, <2>2, Comparable
  <2> QED
    BY <1>2, <2>1, <2>3 DEF WayInOrder
<1>4. CASE SendChunk
  <2> DEFINE p == [id |-> id, frame |-> frame, offset |-> chunk]
  <2>1. PICK n \in {0, 1, 2} :
           /\ Len(channel') = Len(channel) + n
           /\ \A i \in 1 .. Len(channel) : channel'[i] = channel[i]
           /\ \A i \in Len(channel) + 1 .. Len(channel) + n : channel'[i] = p
    <3> HIDE DEF p
    <3> QED
      BY <1>4, SentGoesOut DEF p
  <2>2. UNCHANGED <<frame, id, pkt, pkts>> /\ p.frame = frame /\ p.id = id
    BY <1>4 DEF SendChunk
  <2> HIDE DEF p
  <2>3. \A i \in 1 .. Len(channel') : i \in 1 .. Len(channel) \/ (channel'[i] = p /\ i \in Nat /\ i > Len(channel))
    BY <2>1, Comparable
  <2>4. \A i \in 1 .. Len(channel') :
           /\ NotAfter(pkt.frame, pkt.id, channel'[i].frame, channel'[i].id)
           /\ NotAfter(channel'[i].frame, channel'[i].id, frame, id)
    BY <1>2, <2>1, <2>2, <2>3 DEF NotAfter
  <2>5. \A i \in 1 .. Len(channel') : \A j \in i .. Len(channel') :
           NotAfter(channel'[i].frame, channel'[i].id, channel'[j].frame, channel'[j].id)
    <3> SUFFICES ASSUME NEW i \in 1 .. Len(channel'), NEW j \in i .. Len(channel')
                 PROVE  NotAfter(channel'[i].frame, channel'[i].id, channel'[j].frame, channel'[j].id)
      OBVIOUS
    <3>1. i \in Nat /\ j \in Nat /\ i <= j /\ j \in 1 .. Len(channel')
      BY <2>1, Comparable
    <3>2. CASE j \in 1 .. Len(channel)
      <4>1. i \in 1 .. Len(channel) /\ j \in i .. Len(channel)
        BY <3>1, <3>2
      <4> QED
        BY <1>2, <2>1, <3>2, <4>1
    <3>3. CASE channel'[j] = p
      BY <2>2, <2>4, <3>3
    <3> QED
      BY <2>3, <3>1, <3>2, <3>3
  <2> QED
    BY <1>2, <2>2, <2>4, <2>5 DEF WayInOrder
<1>5. CASE Receive
  <2>1. ~env.reorders
    BY <1>1, Zenon DEF Ordered
  <2>2. /\ channel # <<>> /\ pkt' = channel[1] /\ pkt' \in Packets
        /\ Len(channel') = Len(channel) - 1
        /\ \A i \in 1 .. Len(channel) - 1 : channel'[i] = channel[i + 1]
        /\ UNCHANGED <<frame, id>>
    BY <1>5, <2>1, ReceiveTakesFirst DEF Receive
  <2>3. Len(channel) \in Nat /\ 1 \in 1 .. Len(channel)
    BY <2>2, EmptySeq, LenProperties DEF TypeOK
  <2>4. \A i \in 1 .. Len(channel') : /\ i + 1 \in 1 .. Len(channel) /\ channel'[i] = channel[i + 1]
                                      /\ \A j \in i .. Len(channel') : j \in 1 .. Len(channel') /\ j + 1 \in i + 1 .. Len(channel)
    BY <2>2, <2>3
  <2>5. /\ NotAfter(pkt'.frame, pkt'.id, frame, id)
        /\ \A i \in 1 .. Len(channel') :
             /\ NotAfter(pkt'.frame, pkt'.id, channel'[i].frame, channel'[i].id)
             /\ NotAfter(channel'[i].frame, channel'[i].id, frame, id)
             /\ \A j \in i .. Len(channel') :
                  NotAfter(channel'[i].frame, channel'[i].id, channel'[j].frame, channel'[j].id)
    BY <1>2, <2>2, <2>3, <2>4
  <2>6. NotAfter(pkt.frame, pkt.id, pkt'.frame, pkt'.id)
    BY <1>2, <2>2, <2>3
  <2>7. \A o \in 1 .. Len(pkts.raw) :
           pkts.raw[o] # 0 => NotAfter(pkts.raw[o], pkts.id, pkt'.frame, pkt'.id)
    BY <1>2, <2>2, <2>3, <2>6, Comparable DEF NotAfter
  <2>8. \A o \in 1 .. Len(pkts'.raw) :
           pkts'.raw[o] # 0 => NotAfter(pkts'.raw[o], pkts'.id, pkt'.frame, pkt'.id)
    <3>1. CASE IdChanged(pkt')
      BY <1>5, <2>7, <3>1 DEF Receive
    <3>2. CASE ~IdChanged(pkt')
      <4>1. pkts' = Pushed(pkt')
        BY <1>5, <3>2 DEF Receive
      <4>2. pkts'.raw = Put(pkts.raw, pkt') /\ pkts'.id = pkt'.id /\ (Len(pkts.raw) # 0 => pkts'.id = pkts.id)
        BY <3>2, <4>1, EmptySeq DEF Pushed, IdChanged
      <4> SUFFICES ASSUME NEW o \in 1 .. Len(pkts'.raw), pkts'.raw[o] # 0
                   PROVE  NotAfter(pkts'.raw[o], pkts'.id, pkt'.frame, pkt'.id)
        OBVIOUS
      <4>3. \/ pkts'.raw[o] = pkt'.frame
            \/ o \in 1 .. Len(pkts.raw) /\ pkts'.raw[o] = pkts.raw[o]
        BY <2>2, <4>2, PutEntries, Comparable
      <4> QED
        BY <2>7, <4>2, <4>3, Comparable DEF NotAfter
    <3> QED
      BY <3>1, <3>2
  <2> QED
    BY <2>2, <2>5, <2>8 DEF WayInOrder
<1>6. CASE ClearAndPush
  <2>1. pkts' = [id |-> pkt.id, raw |-> Put(<<>>, pkt)] /\ UNCHANGED <<pkt, channel, frame, id>>
    BY <1>6 DEF ClearAndPush
  <2>2. \A o \in 1 .. Len(Put(<<>>, pkt)) : Put(<<>>, pkt)[o] \in {0, pkt.frame}
    <3>1. <<>> \in Raws /\ Len(<<>>) = 0
      BY EmptySeq DEF Raws
    <3> QED
      BY <3>1, PutEntries, Comparable
  <2> QED
    BY <1>2, <2>1, <2>2 DEF WayInOrder, NotAfter
<1>7. CASE UNCHANGED <<pkt, pkts, channel, frame, id>>
  BY <1>2, <1>7 DEF WayInOrder
<1>8. ~Reboot
  BY <1>1, Zenon DEF Reboot, Ordered
<1> QED
  BY <1>3, <1>4, <1>5, <1>6, <1>7, <1>8
     DEF Next, vars, Board, Listener, Window, Bind, Stop, PollReady, PollTimeout, ReceiveFails,
         Assemble, Display, Emit, Label, DrawBegin, DrawBlank, Draw, Quit, ListenerFinished

\* Assembling: what is appended is newer than what is saved, and older than the packet
\* that made the listener assemble.
LEMMA AssembleInOrder ==
  ASSUME TypeOK, WayInOrder, SavedOlder, Ordered, Assemble
  PROVE  /\ SavedNewer'
         /\ \A k \in 1 .. Len(saved') : \A o \in 1 .. Len(saved'[k]) :
              saved'[k][o] # 0 => saved'[k][o] < pkt.frame
<1>1. pc = "assemble" /\ IdChanged(pkt) /\ SavedNewer
  BY DEF Assemble, SavedOlder
<1>2. PICK raw \in {pkts.raw, <<>>} : saved' = Append(saved, raw)
  BY DEF Assemble
<1>3. raw \in Raws /\ Len(raw) \in Nat /\ (raw = <<>> => Len(raw) = 0)
  BY <1>2, Comparable, EmptySeq DEF Raws
<1>4. /\ Len(saved') = Len(saved) + 1 /\ saved'[Len(saved) + 1] = raw
      /\ \A k \in 1 .. Len(saved) : saved'[k] = saved[k]
  BY <1>2, <1>3, AppendProperties DEF TypeOK
<1>5. \A k \in 1 .. Len(saved) : \A o \in 1 .. Len(saved[k]) : saved[k][o] # 0 =>
         saved[k][o] < pkt.frame /\ \A q \in 1 .. Len(pkts.raw) : pkts.raw[q] # 0 => saved[k][o] < pkts.raw[q]
  BY <1>1 DEF SavedOlder
<1>6. \A q \in 1 .. Len(raw) : raw[q] # 0 =>
         /\ raw[q] < pkt.frame
         /\ \A k \in 1 .. Len(saved) : \A o \in 1 .. Len(saved[k]) :
              saved[k][o] # 0 => saved[k][o] < raw[q]
  <2> SUFFICES ASSUME NEW q \in 1 .. Len(raw), raw[q] # 0
               PROVE  /\ raw[q] < pkt.frame
                      /\ \A k \in 1 .. Len(saved) : \A o \in 1 .. Len(saved[k]) :
                           saved[k][o] # 0 => saved[k][o] < raw[q]
    OBVIOUS
  <2>1. raw = pkts.raw
    BY <1>2, <1>3
  <2>2. raw[q] < pkt.frame
    BY <1>1, <2>1 DEF WayInOrder, NotAfter, IdChanged
  <2> QED
    BY <1>5, <2>1, <2>2
<1>7. \A k \in 1 .. Len(saved') : k \in 1 .. Len(saved) \/ k = Len(saved) + 1
  BY <1>4, Comparable
<1>8. SavedNewer'
  <2> SUFFICES ASSUME NEW k \in 1 .. Len(saved'), NEW l \in 1 .. Len(saved'), k < l,
                      NEW o \in 1 .. Len(saved'[k]), NEW q \in 1 .. Len(saved'[l]),
                      saved'[k][o] # 0, saved'[l][q] # 0
               PROVE  saved'[k][o] < saved'[l][q]
    BY DEF SavedNewer
  <2>1. k \in 1 .. Len(saved) /\ saved'[k] = saved[k]
    BY <1>4, <1>7, Comparable
  <2>2. CASE l \in 1 .. Len(saved)
    BY <1>1, <1>4, <2>1, <2>2 DEF SavedNewer, Ordered
  <2>3. CASE l = Len(saved) + 1
    BY <1>4, <1>6, <2>1, <2>3
  <2> QED
    BY <1>7, <2>2, <2>3
<1>9. \A k \in 1 .. Len(saved') : \A o \in 1 .. Len(saved'[k]) :
         saved'[k][o] # 0 => saved'[k][o] < pkt.frame
  BY <1>4, <1>5, <1>6, <1>7
<1> QED
  BY <1>8, <1>9

LEMMA SavedStep ==
  ASSUME TypeOK, WayInOrder, SavedOlder, [Next]_vars
  PROVE  SavedOlder'
<1> SUFFICES ASSUME Ordered' PROVE SavedOlder'
  BY DEF SavedOlder
<1>1. Ordered /\ env' = env
  BY EnvStays DEF Ordered
<1>2. /\ pc \in {"bind", "poll", "recv"} => ~IdChanged(pkt)
      /\ pc \in {"assemble", "label", "push"} => IdChanged(pkt)
      /\ SavedNewer
      /\ \A k \in 1 .. Len(saved) : \A o \in 1 .. Len(saved[k]) : saved[k][o] # 0 =>
           /\ saved[k][o] < pkt.frame
           /\ pc = "assemble" \/ ~IdChanged(pkt) =>
                \A q \in 1 .. Len(pkts.raw) : pkts.raw[q] # 0 => saved[k][o] < pkts.raw[q]
  BY <1>1 DEF SavedOlder
<1>3. CASE Receive
  <2>1. ~env.reorders
    BY <1>1, Zenon DEF Ordered
  <2>2. /\ channel # <<>> /\ pkt' = channel[1] /\ pkt' \in Packets /\ pkt'.frame \in Nat
        /\ saved' = saved /\ pc = "recv"
    BY <1>3, <2>1, ReceiveTakesFirst DEF Receive, Packets
  <2>3. pkt.frame <= pkt'.frame
    <3>1. 1 \in 1 .. Len(channel)
      BY <2>2, EmptySeq, LenProperties DEF TypeOK
    <3> QED
      BY <1>1, <2>2, <3>1, Comparable DEF WayInOrder, NotAfter
  <2>4. SavedNewer'
    BY <1>1, <1>2, <2>2 DEF SavedNewer
  <2>5. \A k \in 1 .. Len(saved) : \A o \in 1 .. Len(saved[k]) : saved[k][o] # 0 =>
           /\ saved[k][o] < pkt'.frame
           /\ \A q \in 1 .. Len(pkts.raw) : pkts.raw[q] # 0 => saved[k][o] < pkts.raw[q]
    BY <1>2, <2>2, <2>3, Comparable
  <2>6. CASE IdChanged(pkt')
    <3>1. pc' = "assemble" /\ pkts' = pkts
      BY <1>3, <2>6 DEF Receive
    <3>2. IdChanged(pkt)'
      BY <2>6, <3>1 DEF IdChanged
    <3> QED
      BY <2>2, <2>4, <2>5, <3>1, <3>2 DEF SavedOlder
  <2>7. CASE ~IdChanged(pkt')
    <3>1. pc' = "poll" /\ pkts' = Pushed(pkt')
      BY <1>3, <2>7 DEF Receive
    <3>2. pkts'.raw = Put(pkts.raw, pkt') /\ pkts'.id = pkt'.id
      BY <2>7, <3>1 DEF Pushed, IdChanged
    <3>3. ~IdChanged(pkt)'
      BY <3>2 DEF IdChanged
    <3>4. ASSUME NEW k \in 1 .. Len(saved), NEW o \in 1 .. Len(saved[k]), saved[k][o] # 0,
                 NEW q \in 1 .. Len(pkts'.raw), pkts'.raw[q] # 0
          PROVE  saved[k][o] < pkts'.raw[q]
      <4>1. pkts'.raw[q] = pkt'.frame \/ (q \in 1 .. Len(pkts.raw) /\ pkts'.raw[q] = pkts.raw[q])
        <5>1. pkts.raw \in Raws
          BY Comparable
        <5>2. pkts'.raw[q] \in {0, pkt'.frame} \/ (q \in 1 .. Len(pkts.raw) /\ pkts'.raw[q] = pkts.raw[q])
          BY <2>2, <3>2, <5>1, PutEntries
        <5> QED
          BY <3>4, <5>2
      <4> QED
        BY <2>5, <3>4, <4>1
    <3> QED
      BY <2>2, <2>4, <2>5, <3>1, <3>3, <3>4 DEF SavedOlder
  <2> QED
    BY <2>6, <2>7
<1>4. CASE Assemble
  <2>1. /\ SavedNewer'
        /\ \A k \in 1 .. Len(saved') : \A o \in 1 .. Len(saved'[k]) :
              saved'[k][o] # 0 => saved'[k][o] < pkt.frame
    BY <1>1, <1>4, AssembleInOrder
  <2>2. pc' \in {"display", "push"} /\ pkt' = pkt /\ pkts' = pkts /\ pc = "assemble"
    BY <1>4 DEF Assemble
  <2>3. IdChanged(pkt) /\ IdChanged(pkt)'
    BY <1>2, <2>2 DEF IdChanged
  <2> QED
    BY <2>1, <2>2, <2>3 DEF SavedOlder
<1>5. CASE ClearAndPush
  <2>1. /\ pkts' = [id |-> pkt.id, raw |-> Put(<<>>, pkt)] /\ UNCHANGED <<env, pkt, saved>> /\ pc' = "poll"
    BY <1>5 DEF ClearAndPush
  <2>2. \A q \in 1 .. Len(Put(<<>>, pkt)) : Put(<<>>, pkt)[q] \in {0, pkt.frame}
    <3>1. <<>> \in Raws /\ Len(<<>>) = 0
      BY EmptySeq DEF Raws
    <3> QED
      BY <3>1, PutEntries, Comparable
  <2>3. ~IdChanged(pkt)'
    BY <2>1 DEF IdChanged
  <2>4. SavedNewer'
    BY <1>1, <1>2, <2>1 DEF SavedNewer
  <2> QED
    BY <1>2, <2>1, <2>2, <2>3, <2>4 DEF SavedOlder
<1>6. CASE UNCHANGED <<pkt, pkts, saved>>
           /\ (pc' \in {"bind", "poll", "recv"} => ~IdChanged(pkt))
           /\ (pc' \in {"assemble", "label", "push"} => IdChanged(pkt))
           /\ (pc' = "assemble" => pc = "assemble")
  <2>1. SavedNewer' /\ IdChanged(pkt)' = IdChanged(pkt)
    BY <1>1, <1>2, <1>6 DEF SavedNewer, IdChanged
  <2> QED
    BY <1>2, <1>6, <2>1 DEF SavedOlder
<1>7. CASE Board
  BY <1>2, <1>6, <1>7 DEF Board, NextFrame, SendChunk, Reboot
<1>8. CASE Bind \/ Stop \/ PollReady \/ PollTimeout \/ ReceiveFails
  BY <1>2, <1>6, <1>8 DEF Bind, Stop, PollReady, PollTimeout, ReceiveFails
<1>9. CASE Display \/ Emit \/ Label
  BY <1>2, <1>6, <1>9 DEF Display, Emit, Label
<1>10. CASE Window \/ Quit
  BY <1>2, <1>6, <1>10 DEF Window, DrawBegin, DrawBlank, Draw, ListenerFinished, Quit
<1>11. CASE UNCHANGED vars
  BY <1>2, <1>6, <1>11 DEF vars
<1> QED
  BY <1>3, <1>4, <1>5, <1>7, <1>8, <1>9, <1>10, <1>11 DEF Next, Listener

-----------------------------------------------------------------------------
\* What frames of one id have in common.
Key(n) == n % MaxId

\* Every packet, from the board to pkts, has the id of its frame; and so has all of pkts,
\* hence what is written of it.
IdsOfFrames == Ordered =>
  /\ Key(id) = Key(frame)
  /\ \A i \in 1 .. Len(channel) : Key(channel[i].id) = Key(channel[i].frame)
  /\ Key(pkt.id) = Key(pkt.frame)
  /\ \A o \in 1 .. Len(pkts.raw) : pkts.raw[o] # 0 => Key(pkts.raw[o]) = Key(pkts.id)
  /\ \A k \in 1 .. Len(saved) : \A o, q \in 1 .. Len(saved[k]) :
       saved[k][o] # 0 /\ saved[k][q] # 0 => Key(saved[k][o]) = Key(saved[k][q])

\* The id counts the frames, up to its wrap.
LEMMA NextKey ==
  ASSUME NEW i \in 0 .. MaxId, NEW f \in Nat, Key(i) = Key(f)
  PROVE  Key(NextId(i)) = Key(f + 1)
<1>1. MaxId \in Nat /\ MaxId > 1
  BY BaseStationAssumption DEF BaseStationAssumption
<1>2. f % MaxId \in 0 .. MaxId - 1 /\ f = MaxId * (f \div MaxId) + (f % MaxId) /\ f \div MaxId \in Nat
  BY <1>1
<1>3. \A q \in Nat : \A r \in 0 .. MaxId - 1 : (MaxId * q + r) % MaxId = r
  BY <1>1
<1>4. \A r \in 0 .. MaxId - 1 : r % MaxId = r
  BY <1>1
<1>5. CASE i = MaxId
  <2>1. i % MaxId = 0
    BY <1>1, <1>5
  <2>2. f % MaxId = 0
    BY <2>1 DEF Key
  <2>3. f + 1 = MaxId * (f \div MaxId) + 1
    BY <1>2, <2>2
  <2>4. (f + 1) % MaxId = 1
    BY <1>1, <1>2, <1>3, <2>3
  <2>5. NextId(i) = 1 /\ 1 % MaxId = 1
    BY <1>1, <1>4, <1>5 DEF NextId
  <2>6. QED
    BY <2>4, <2>5 DEF Key
<1>6. CASE i # MaxId
  <2>1. i \in 0 .. MaxId - 1 /\ NextId(i) = i + 1
    BY <1>1, <1>6 DEF NextId
  <2>2. f % MaxId = i
    BY <1>4, <2>1 DEF Key
  <2>3. CASE i + 1 < MaxId
    <3>1. f + 1 = MaxId * (f \div MaxId) + (i + 1) /\ i + 1 \in 0 .. MaxId - 1
      BY <1>1, <1>2, <2>1, <2>2, <2>3
    <3>2. (f + 1) % MaxId = i + 1 /\ (i + 1) % MaxId = i + 1
      BY <1>2, <1>3, <1>4, <3>1
    <3>3. QED
      BY <2>1, <3>2 DEF Key
  <2>4. CASE i + 1 = MaxId
    <3>1. f + 1 = MaxId * ((f \div MaxId) + 1) + 0 /\ (f \div MaxId) + 1 \in Nat /\ 0 \in 0 .. MaxId - 1
      BY <1>1, <1>2, <2>2, <2>4
    <3>2. (MaxId * ((f \div MaxId) + 1) + 0) % MaxId = 0
      BY <1>3, <3>1
    <3>3. (f + 1) % MaxId = 0
      BY <3>1, <3>2
    <3>4. (i + 1) % MaxId = 0
      BY <1>1, <2>4
    <3>5. QED
      BY <2>1, <3>3, <3>4 DEF Key
  <2>5. QED
    BY <1>1, <2>1, <2>3, <2>4
<1>7. QED
  BY <1>5, <1>6

LEMMA IdsStep ==
  ASSUME TypeOK, IdsOfFrames, [Next]_vars
  PROVE  IdsOfFrames'
<1> SUFFICES ASSUME Ordered' PROVE IdsOfFrames'
  BY DEF IdsOfFrames
<1>1. Ordered /\ env' = env
  BY EnvStays DEF Ordered
<1>2. /\ Key(id) = Key(frame)
      /\ \A i \in 1 .. Len(channel) : Key(channel[i].id) = Key(channel[i].frame)
      /\ Key(pkt.id) = Key(pkt.frame)
      /\ \A o \in 1 .. Len(pkts.raw) : pkts.raw[o] # 0 => Key(pkts.raw[o]) = Key(pkts.id)
      /\ \A k \in 1 .. Len(saved) : \A o, q \in 1 .. Len(saved[k]) :
           saved[k][o] # 0 /\ saved[k][q] # 0 => Key(saved[k][o]) = Key(saved[k][q])
  BY <1>1 DEF IdsOfFrames
<1>3. CASE NextFrame
  <2>1. frame' = frame + 1 /\ id' = NextId(id) /\ UNCHANGED <<channel, pkt, pkts, saved>>
    BY <1>1, <1>3, Zenon DEF NextFrame, Ordered
  <2>2. id \in 0 .. MaxId /\ frame \in Nat
    BY DEF TypeOK
  <2>3. Key(id') = Key(frame')
    BY <1>2, <2>1, <2>2, NextKey
  <2>4. QED
    BY <1>2, <2>1, <2>3 DEF IdsOfFrames
<1>4. CASE SendChunk
  <2> DEFINE p == [id |-> id, frame |-> frame, offset |-> chunk]
  <2>1. PICK n \in {0, 1, 2} :
           /\ Len(channel') = Len(channel) + n
           /\ \A i \in 1 .. Len(channel) : channel'[i] = channel[i]
           /\ \A i \in Len(channel) + 1 .. Len(channel) + n : channel'[i] = p
    <3> HIDE DEF p
    <3> QED
      BY <1>4, SentGoesOut DEF p
  <2>2. UNCHANGED <<frame, id, pkt, pkts, saved>> /\ p.frame = frame /\ p.id = id
    BY <1>4 DEF SendChunk
  <2> HIDE DEF p
  <2>3. \A i \in 1 .. Len(channel') :
          i \in 1 .. Len(channel) \/ i \in Len(channel) + 1 .. Len(channel) + n
    BY <2>1, Comparable
  <2>4. \A i \in 1 .. Len(channel') : Key(channel'[i].id) = Key(channel'[i].frame)
    BY <1>2, <2>1, <2>2, <2>3, Zenon
  <2>5. QED
    BY <1>2, <2>2, <2>4 DEF IdsOfFrames
<1>5. CASE Receive
  <2>1. ~env.reorders
    BY <1>1, Zenon DEF Ordered
  <2>2. /\ channel # <<>> /\ pkt' = channel[1] /\ pkt' \in Packets
        /\ Len(channel') = Len(channel) - 1
        /\ \A i \in 1 .. Len(channel) - 1 : channel'[i] = channel[i + 1]
        /\ UNCHANGED <<frame, id, saved>>
    BY <1>5, <2>1, ReceiveTakesFirst DEF Receive
  <2>3. Len(channel) \in Nat /\ 1 \in 1 .. Len(channel)
    BY <2>2, EmptySeq, LenProperties DEF TypeOK
  <2>4. \A i \in 1 .. Len(channel') : i + 1 \in 1 .. Len(channel) /\ channel'[i] = channel[i + 1]
    BY <2>2, <2>3
  <2>5. /\ \A i \in 1 .. Len(channel') : Key(channel'[i].id) = Key(channel'[i].frame)
        /\ Key(pkt'.id) = Key(pkt'.frame)
    BY <1>2, <2>2, <2>3, <2>4, Zenon
  <2>6. \A o \in 1 .. Len(pkts'.raw) : pkts'.raw[o] # 0 => Key(pkts'.raw[o]) = Key(pkts'.id)
    <3>1. CASE IdChanged(pkt')
      <4>1. pkts' = pkts
        BY <1>5, <3>1 DEF Receive
      <4>2. QED
        BY <1>2, <4>1
    <3>2. CASE ~IdChanged(pkt')
      <4>1. pkts' = Pushed(pkt')
        BY <1>5, <3>2 DEF Receive
      <4>2. pkts'.raw = Put(pkts.raw, pkt') /\ pkts'.id = pkt'.id /\ (Len(pkts.raw) # 0 => pkts'.id = pkts.id)
        BY <3>2, <4>1, EmptySeq DEF Pushed, IdChanged
      <4> SUFFICES ASSUME NEW o \in 1 .. Len(pkts'.raw), pkts'.raw[o] # 0
                   PROVE  Key(pkts'.raw[o]) = Key(pkts'.id)
        OBVIOUS
      <4>3. \/ pkts'.raw[o] = pkt'.frame
            \/ o \in 1 .. Len(pkts.raw) /\ pkts'.raw[o] = pkts.raw[o] /\ Len(pkts.raw) # 0
        BY <2>2, <4>2, PutEntries, Comparable
      <4>4. QED
        BY <1>2, <2>5, <4>2, <4>3, Zenon
    <3>3. QED
      BY <3>1, <3>2
  <2>7. QED
    BY <1>2, <2>2, <2>5, <2>6 DEF IdsOfFrames
<1>6. CASE Assemble
  <2>1. UNCHANGED <<channel, pkt, pkts, frame, id>>
    BY <1>6 DEF Assemble
  <2>2. PICK raw \in {pkts.raw, <<>>} : saved' = Append(saved, raw)
    BY <1>6 DEF Assemble
  <2>3. raw \in Raws /\ Len(raw) \in Nat /\ (raw = <<>> => Len(raw) = 0)
    BY <2>2, Comparable, EmptySeq DEF Raws
  <2>4. /\ Len(saved') = Len(saved) + 1 /\ saved'[Len(saved) + 1] = raw
        /\ \A k \in 1 .. Len(saved) : saved'[k] = saved[k]
    BY <2>2, <2>3, AppendProperties DEF TypeOK
  <2>5. \A k \in 1 .. Len(saved') : k \in 1 .. Len(saved) \/ k = Len(saved) + 1
    BY <2>4, Comparable
  <2>6. \A o, q \in 1 .. Len(raw) : raw[o] # 0 /\ raw[q] # 0 => Key(raw[o]) = Key(raw[q])
    <3>1. CASE raw = pkts.raw
      BY <1>2, <3>1, Zenon
    <3>2. CASE raw = <<>>
      BY <2>3, <3>2
    <3>3. QED
      BY <2>2, <3>1, <3>2
  <2>7. \A k \in 1 .. Len(saved') : \A o, q \in 1 .. Len(saved'[k]) :
          saved'[k][o] # 0 /\ saved'[k][q] # 0 => Key(saved'[k][o]) = Key(saved'[k][q])
    <3> SUFFICES ASSUME NEW k \in 1 .. Len(saved')
                 PROVE  \A o, q \in 1 .. Len(saved'[k]) :
                          saved'[k][o] # 0 /\ saved'[k][q] # 0 => Key(saved'[k][o]) = Key(saved'[k][q])
      OBVIOUS
    <3>1. CASE k \in 1 .. Len(saved)
      <4>1. saved'[k] = saved[k]
        BY <2>4, <3>1
      <4>2. QED
        BY <1>2, <3>1, <4>1
    <3>2. CASE k = Len(saved) + 1
      <4>1. saved'[k] = raw
        BY <2>4, <3>2
      <4>2. QED
        BY <2>6, <4>1
    <3>3. QED
      BY <2>5, <3>1, <3>2
  <2>8. QED
    BY <1>2, <2>1, <2>7 DEF IdsOfFrames
<1>7. CASE ClearAndPush
  <2>1. pkts' = [id |-> pkt.id, raw |-> Put(<<>>, pkt)] /\ UNCHANGED <<pkt, channel, frame, id, saved>>
    BY <1>7 DEF ClearAndPush
  <2>2. \A o \in 1 .. Len(Put(<<>>, pkt)) : Put(<<>>, pkt)[o] \in {0, pkt.frame}
    <3>1. <<>> \in Raws /\ Len(<<>>) = 0
      BY EmptySeq DEF Raws
    <3> QED
      BY <3>1, PutEntries, Comparable
  <2>3. pkts'.raw = Put(<<>>, pkt) /\ pkts'.id = pkt.id
    BY <2>1
  <2>4. \A o \in 1 .. Len(pkts'.raw) : pkts'.raw[o] # 0 => Key(pkts'.raw[o]) = Key(pkts'.id)
    BY <1>2, <2>2, <2>3
  <2>5. QED
    BY <1>2, <2>1, <2>4 DEF IdsOfFrames
<1>8. CASE UNCHANGED <<pkt, pkts, channel, frame, id, saved>>
  BY <1>2, <1>8 DEF IdsOfFrames
<1>9. ~Reboot
  BY <1>1, Zenon DEF Reboot, Ordered
<1> QED
  BY <1>3, <1>4, <1>5, <1>6, <1>7, <1>8, <1>9
     DEF Next, vars, Board, Listener, Window, Bind, Stop, PollReady, PollTimeout, ReceiveFails,
         Display, Emit, Label, DrawBegin, DrawBlank, Draw, Quit, ListenerFinished

\* As long as datagrams keep their order, whatever is lost or comes twice, and
\* however often the ids wrap: each record of data.raw is newer than those before it,
\* and holds data of several frames only if they share an id.
THEOREM SavesInOrder == Spec => []SavedInOrder
<1>1. Init => WayInOrder /\ SavedOlder /\ IdsOfFrames
  <2> SUFFICES ASSUME Init PROVE WayInOrder /\ SavedOlder /\ IdsOfFrames
    OBVIOUS
  <2>1. Len(channel) = 0 /\ Len(pkts.raw) = 0 /\ Len(saved) = 0
    BY EmptySeq DEF Init
  <2>2. pc = "bind" /\ ~IdChanged(pkt)
    BY DEF Init, IdChanged
  <2>3. id = frame /\ pkt.id = pkt.frame
    BY DEF Init
  <2>4. WayInOrder /\ SavedOlder
    BY <2>1, <2>2 DEF Init, WayInOrder, SavedOlder, SavedNewer, NotAfter
  <2>5. IdsOfFrames
    BY <2>1, <2>3 DEF IdsOfFrames
  <2>6. QED
    BY <2>4, <2>5
<1>2. TypeOK /\ WayInOrder /\ SavedOlder /\ IdsOfFrames /\ [Next]_vars
      => (WayInOrder /\ SavedOlder /\ IdsOfFrames)'
  BY WayStep, SavedStep, IdsStep
<1>3. SavedOlder /\ IdsOfFrames => SavedInOrder
  BY Zenon DEF SavedOlder, SavedNewer, IdsOfFrames, Key, SavedInOrder, Ordered
<1> QED
  BY <1>1, <1>2, <1>3, BaseStationTypes, PTL DEF Spec
=============================================================================
