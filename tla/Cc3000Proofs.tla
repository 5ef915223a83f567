---------------------------- MODULE Cc3000Proofs ----------------------------
(***************************************************************************)
(* Theorems about Cc3000, for any number of calls, events and buffers: the *)
(* packets that reach the chip are those of the calls, whole and in order, *)
(* the driver is a sequence of calls in the sense of HciCall, and no       *)
(* transmit buffer of the chip is lost between the two processors.         *)
(***************************************************************************)
EXTENDS Cc3000, LoopLemmas, SequenceTheorems, TLAPS

USE Cc3000Assumption DEF Cc3000Assumption, app, credits, errors, hci, spi, lines, chip

\* Calls begun.
Count == Len(issued)

\* Types, and what they need: the decrement is of a positive count, a chip that
\* offers an event has one, and the packet in the buffer is that of the last call.
TypeInv ==
  /\ TypeOK
  /\ txbuf = Count
  /\ pc \notin Before => Count > 0
  /\ pc = "store" => reg > 0
  /\ phase = "offer" => out # <<>>

Sending == Len(got) < Count
WriteStates == {"WRITE_IRQ", "WRITE_FIRST_PORTION", "WRITE_EOT"}
ReadStates == {"READ_IRQ", "READ_EOT"}
Flowing == {"WRITE_FIRST_PORTION", "WRITE_EOT"}

\* main() in its call: its packet is in the buffer until the chip has it, and
\* it says which reply it awaits only after it wrote the packet.
CallInv ==
  /\ pc = "power" => Count = 0
  /\ pc \in Before => Len(got) = Count
  /\ pc \in {"write"} \cup Window => Len(got) = Count - 1
  /\ pc \in After => Len(got) \in {Count - 1, Count}
  /\ pc \notin Before => issued[Count] = call
  /\ pc \notin {"handle", "release"} => usRxEventOpcode = None
  /\ pc = "handle" => usRxEventOpcode # None

\* The SPI driver in step with main(): it is writing from the claim to the
\* end of the packet, and reads only outside of that.
DriverInv ==
  /\ ui32SpiState \in WriteStates <=> pc \in {"point", "assert"} \/ (pc \in After /\ Sending)
  /\ pc \in {"point", "assert"} => ui32SpiState = "WRITE_IRQ"
  /\ pc = "claim" => ui32SpiState = "IDLE"
  /\ pc = "power" => ui32SpiState \in {"POWERUP", "INITIALIZED"}
  /\ ui32SpiState = "POWERUP" => pc = "power" /\ intOn /\ (phase = "up" => edge)
  /\ ui32SpiState = "INITIALIZED" => phase = "up" /\ Len(got) = 0
  /\ pc = "assert" \/ (pc \in After /\ Sending) => ui16TxPacketLength = call.len
  /\ dma = "header" <=> ui32SpiState = "READ_IRQ"
  /\ dma = "rest" <=> ui32SpiState = "READ_EOT"
  /\ dma = "write" <=> ui32SpiState \in Flowing
  /\ dma # "stray"

\* The driver in step with the chip.
ChipInv ==
  /\ phase \in {"off", "up"} <=> ui32SpiState \in {"POWERUP", "INITIALIZED"}
  /\ phase = "ack" => ui32SpiState \in WriteStates
  /\ cs <=> ui32SpiState \in ReadStates \/ (ui32SpiState \in WriteStates /\ pc \in After)
  /\ edge => phase \in {"up", "offer", "ack"}
  /\ edge => ui32SpiState \notin ReadStates \cup Flowing \cup {"INITIALIZED"}
  /\ pc \in Window => ~(edge /\ intOn)
  /\ ui32SpiState \in ReadStates => phase = "offer"
  /\ ui32SpiState \in Flowing => phase \in {"offer", "ack"}
  /\ ui32SpiState = "READ_EOT" => rx = Head(out)
  /\ ui32SpiState = "WRITE_FIRST_PORTION" => call.len = 2
  /\ in = IF ui32SpiState = "WRITE_EOT" /\ call.len = 2 THEN <<Count>> ELSE <<>>

IsReply(event) == event.kind \in {"reply", "inactive"}
NoneComing == due = <<>> /\ \A i \in DOMAIN out : ~IsReply(out[i])
Waiting == usEventOrDataReceived /\ rx.kind = "reply"

\* There is at most one reply, it is to the call main() is in, and none before
\* the chip has the packet. An event that waits for main() keeps the interrupts off.
ReplyInv ==
  /\ Len(due) <= 1
  /\ \A i, j \in DOMAIN out : IsReply(out[i]) /\ IsReply(out[j]) => i = j
  /\ due # <<>> => \A i \in DOMAIN out : ~IsReply(out[i])
  /\ Waiting => NoneComing
  /\ pc \notin After \/ Sending => NoneComing /\ ~Waiting
  /\ pc = "release" /\ usRxEventOpcode = None => NoneComing /\ ~Sending
  /\ usEventOrDataReceived => ~intOn /\ rx.kind \in {"reply", "other"}

SteadyInv == CallInv /\ DriverInv /\ ChipInv /\ ReplyInv /\ SentWhole
IInv == TypeInv /\ (env.steady => SteadyInv)

-----------------------------------------------------------------------------
USE DEF Count, Before, Window, After

\* Sequences as the radio uses them: what appending and taking the head do.
LEMMA OutTypes ==
  ASSUME NEW s \in Seq(EventSet), NEW e \in EventSet
  PROVE  /\ Append(s, e) \in Seq(EventSet) /\ Append(s, e) # <<>>
         /\ s # <<>> => Head(s) \in EventSet /\ Tail(s) \in Seq(EventSet)
BY AppendProperties, HeadTailProperties

\* The constructors of events and calls.
LEMMA EventTypes ==
  /\ NoEvent \in EventSet /\ NoCall \in Call
  /\ \A o \in Ops \cup {None}, n \in Nat :
       \A k \in {"reply", "inactive", "free", "unsol", "other", "garbage"} :
         Event(k, o, n) \in EventSet
BY DEF NoEvent, NoCall, Call, Ops, Event, EventSet

\* The calls begun are a sequence of calls.
LEMMA IssuedTypes ==
  ASSUME TypeInv
  PROVE  /\ Count \in Nat /\ DOMAIN issued = 1..Count
         /\ \A i \in 1..Count : issued[i] \in Call
<1>1. issued \in Seq(Call)
  BY DEF TypeInv, TypeOK
<1>2. QED
  BY <1>1, LenProperties, ElementOfSeq

\* The packet of a call is one portion of it, or two.
LEMMA WholePackets ==
  ASSUME TypeInv, NEW i \in 1..Count
  PROVE  /\ Whole(i) = IF issued[i].len = 1 THEN <<i>> ELSE <<i, i>>
         /\ Whole(i) \in Seq(Nat) /\ Whole(i) # <<>>
<1>1. issued[i].len \in {1, 2} /\ i \in Nat
  BY IssuedTypes DEF Call
<1>2. CASE issued[i].len = 1
  <2>1. Whole(i) = [j \in 1..1 |-> i]
    BY <1>2 DEF Whole
  <2>2. <<i>> \in Seq(Nat) /\ Len(<<i>>) = 1 /\ <<i>>[1] = i
    BY <1>1
  <2>3. <<i>> = [j \in 1..1 |-> i]
    BY <2>2
  <2>4. QED
    BY <1>2, <2>1, <2>2, <2>3
<1>3. CASE issued[i].len = 2
  <2>1. Whole(i) = [j \in 1..2 |-> i]
    BY <1>3 DEF Whole
  <2>2. <<i, i>> \in Seq(Nat) /\ Len(<<i, i>>) = 2 /\ <<i, i>>[1] = i /\ <<i, i>>[2] = i
    BY <1>1
  <2>3. <<i, i>> = [j \in 1..2 |-> i]
    BY <2>2
  <2>4. QED
    BY <1>3, <2>1, <2>2, <2>3
<1>4. QED
  BY <1>1, <1>2, <1>3

-----------------------------------------------------------------------------
\* Type correctness, first of what the actions have in common: an event is
\* received, or the chip takes a packet.
LEMMA ReceiveTypes ==
  ASSUME TypeInv, NEW e \in EventSet, Receive(e)
  PROVE  /\ usEventOrDataReceived' \in BOOLEAN /\ intOn' \in BOOLEAN
         /\ usNumberOfFreeBuffers' \in Nat /\ NumberOfReleasedPackets' \in Nat
         /\ NumberOfSentPackets' \in Nat
         /\ slTransmitDataError' \in BOOLEAN /\ socketActive' \in BOOLEAN
<1>1. e.n \in Nat
  BY DEF EventSet
<1>2. usNumberOfFreeBuffers' \in Nat /\ NumberOfReleasedPackets' \in Nat
      /\ NumberOfSentPackets' \in Nat
  <2>1. FlowControlEvent(e)
    BY DEF Receive
  <2>2. /\ usNumberOfFreeBuffers \in Nat /\ NumberOfReleasedPackets \in Nat
        /\ NumberOfSentPackets \in Nat
    BY DEF TypeInv, TypeOK
  <2>3. QED
    BY <1>1, <2>1, <2>2 DEF FlowControlEvent
<1>3. /\ usEventOrDataReceived' \in BOOLEAN /\ intOn' \in BOOLEAN
  BY Zenon DEF Receive, Consumed
<1>4. slTransmitDataError' \in BOOLEAN /\ socketActive' \in BOOLEAN
  BY Zenon DEF Receive, TransmitError
<1>5. QED
  BY <1>2, <1>3, <1>4

\* The chip takes a packet.
LEMMA TakePacketTypes ==
  ASSUME TypeInv, NEW packet \in Seq(Nat), packet # <<>>, TakePacket(packet)
  PROVE  /\ got' = Append(got, packet) /\ got' \in Seq(Seq(Nat))
         /\ phase' = "idle" /\ in' = <<>> /\ in' \in Seq(Nat)
         /\ due' \in Seq(Ops) /\ held' \in Nat
         /\ UNCHANGED <<out, events>>
<1>1. got' \in Seq(Seq(Nat))
  BY AppendProperties DEF TakePacket, TypeInv, TypeOK
<1>2. in' \in Seq(Nat)
  BY EmptySeq DEF TakePacket
<1>3. packet[1] \in DOMAIN issued => issued[packet[1]].op \in Ops
  BY IssuedTypes DEF Call
<1>4. due' \in Seq(Ops)
  BY <1>3, AppendProperties DEF TakePacket, TypeInv, TypeOK
<1>5. held' \in Nat
  BY DEF TakePacket, TypeInv, TypeOK
<1>6. QED
  BY <1>1, <1>2, <1>4, <1>5 DEF TakePacket

\* What the chip has once a portion is out, or an event is read.
LEMMA ReceivedTypes ==
  ASSUME TypeInv
  PROVE  Received \in Seq(Nat) /\ (cs => Received # <<>>)
<1>1. in \in Seq(Nat) /\ txbuf \in Nat
  BY DEF TypeInv, TypeOK
<1>2. CASE ~cs
  BY <1>1, <1>2 DEF Received
<1>3. CASE cs
  <2>1. Received = Append(in, IF dma = "stray" THEN 0 ELSE txbuf)
    BY <1>3 DEF Received
  <2>2. (IF dma = "stray" THEN 0 ELSE txbuf) \in Nat
    BY <1>1
  <2>3. QED
    BY <1>1, <2>1, <2>2, AppendProperties
<1>4. QED
  BY <1>2, <1>3

\* An event has been read.
LEMMA TriggerTypes ==
  ASSUME TypeInv, NEW e \in EventSet, TriggerRxProcessing(e)
  PROVE  /\ usEventOrDataReceived' \in BOOLEAN /\ intOn' \in BOOLEAN
         /\ usNumberOfFreeBuffers' \in Nat /\ NumberOfReleasedPackets' \in Nat
         /\ NumberOfSentPackets' \in Nat
         /\ slTransmitDataError' \in BOOLEAN /\ socketActive' \in BOOLEAN
         /\ cs' = FALSE /\ ui32SpiState' = "IDLE" /\ dma' = None
         /\ phase' = "idle" /\ in' = <<>> /\ in' \in Seq(Nat) /\ out' \in Seq(EventSet)
         /\ UNCHANGED <<got, due, held, events>>
<1>1. out' \in Seq(EventSet)
  <2>1. out \in Seq(EventSet) /\ (phase = "offer" => out # <<>>)
    BY DEF TypeInv, TypeOK
  <2>2. out' = IF phase = "offer" THEN Tail(out) ELSE out
    BY DEF TriggerRxProcessing, EndRead
  <2>3. QED
    BY <2>1, <2>2, HeadTailProperties
<1>2. in' \in Seq(Nat)
  BY EmptySeq DEF TriggerRxProcessing, EndRead
<1>3. /\ usEventOrDataReceived' \in BOOLEAN /\ intOn' \in BOOLEAN
      /\ usNumberOfFreeBuffers' \in Nat /\ NumberOfReleasedPackets' \in Nat
      /\ NumberOfSentPackets' \in Nat
      /\ slTransmitDataError' \in BOOLEAN /\ socketActive' \in BOOLEAN
  <2>1. CASE e.kind = "garbage"
    BY <2>1 DEF TriggerRxProcessing, TypeInv, TypeOK
  <2>2. CASE e.kind # "garbage"
    BY <2>2, ReceiveTypes DEF TriggerRxProcessing
  <2>3. QED
    BY <2>1, <2>2
<1>4. QED
  BY <1>1, <1>2, <1>3 DEF TriggerRxProcessing, EndRead

\* Then of the three groups of actions.
LEMMA ChipTypes == TypeInv /\ Chip => TypeInv'
<1> SUFFICES ASSUME TypeInv, Chip PROVE TypeInv'
  OBVIOUS
<1>1. CASE PowerUp
  BY <1>1 DEF PowerUp, TypeInv, TypeOK
<1>2. CASE Offer
  BY <1>2 DEF Offer, TypeInv, TypeOK
<1>3. CASE Accept
  BY <1>3 DEF Accept, TypeInv, TypeOK
<1>4. ASSUME NEW e \in EventSet, Sends(e) PROVE out' \in Seq(EventSet) /\ out' # <<>>
  BY <1>4, OutTypes DEF Sends, TypeInv, TypeOK
<1>5. CASE Answer
  <2>1. due # <<>> /\ due \in Seq(Ops)
    BY <1>5 DEF Answer, TypeInv, TypeOK
  <2>2. Head(due) \in Ops /\ due' \in Seq(Ops)
    BY <1>5, <2>1, HeadTailProperties DEF Answer
  <2>3. /\ Event("reply", Head(due), 0) \in EventSet
        /\ Event("inactive", "send", 0) \in EventSet
    BY <2>2, EventTypes DEF Ops
  <2>4. /\ out' \in Seq(EventSet) /\ out' # <<>>
        /\ UNCHANGED <<env, app, credits, errors, hci, rx, spi, lines, phase, in, got>>
    BY <1>4, <1>5, <2>3 DEF Answer, Sends
  <2>5. QED
    BY <1>5, <2>2, <2>4 DEF Answer, TypeInv, TypeOK
<1>6. CASE GiveBack
  <2>1. PICK n \in 1..held : held' = held - n /\ Sends(Event("free", None, n))
    BY <1>6 DEF GiveBack
  <2>2. n \in Nat /\ held' \in Nat
    BY <2>1 DEF TypeInv, TypeOK
  <2>3. Event("free", None, n) \in EventSet
    BY <2>2, EventTypes
  <2>4. out' \in Seq(EventSet) /\ out' # <<>>
    BY <1>4, <2>1, <2>3
  <2>5. QED
    BY <1>6, <2>1, <2>2, <2>4 DEF GiveBack, Sends, TypeInv, TypeOK
<1>7. CASE Unsolicited
  <2>1. PICK kind \in {"unsol", "other", "garbage"} : Sends(Event(kind, None, 0))
    BY <1>7 DEF Unsolicited
  <2>2. Event(kind, None, 0) \in EventSet
    BY <2>1, EventTypes
  <2>3. out' \in Seq(EventSet) /\ out' # <<>>
    BY <1>4, <2>1, <2>2
  <2>4. QED
    BY <1>7, <2>1, <2>3 DEF Unsolicited, Sends, TypeInv, TypeOK
<1>8. QED
  BY <1>1, <1>2, <1>3, <1>5, <1>6, <1>7 DEF Chip

\* The handlers.
LEMMA InterruptTypes == TypeInv /\ (Interrupts \/ SysTick) => TypeInv'
<1> SUFFICES ASSUME TypeInv, Interrupts \/ SysTick PROVE TypeInv'
  OBVIOUS
<1> USE DEF SpiStates
<1>1. CASE SysTick
  <2>1. rx \in EventSet
    BY DEF TypeInv, TypeOK
  <2>2. QED
    BY <1>1, <2>1, ReceiveTypes DEF SysTick, TypeInv, TypeOK
<1>2. CASE IntSpiGPIOHandler
  <2>1. /\ ui32SpiState' \in SpiStates /\ cs' \in BOOLEAN
        /\ dma' \in {None, "write", "stray", "header", "rest"}
    <3>1. CASE ui32SpiState = "POWERUP" /\ ui32SpiState' = "INITIALIZED" /\ UNCHANGED <<cs, dma>>
      BY <3>1 DEF TypeInv, TypeOK
    <3>2. CASE ui32SpiState = "IDLE" /\ ReadHeader
      BY <3>2 DEF ReadHeader
    <3>3. CASE WriteAsync(ui16TxPacketLength) /\ UNCHANGED cs
      BY <3>3 DEF WriteAsync, TypeInv, TypeOK
    <3>4. CASE UNCHANGED <<ui32SpiState, dma, cs>>
      BY <3>4 DEF TypeInv, TypeOK
    <3>5. QED
      BY <1>2, <3>1, <3>2, <3>3, <3>4 DEF IntSpiGPIOHandler
  <2>2. edge' \in BOOLEAN
    BY <1>2, Zenon DEF IntSpiGPIOHandler
  <2>3. UNCHANGED <<env, app, credits, errors, hci, rx, ui16TxPacketLength, txbuf, intOn, chip>>
    BY <1>2 DEF IntSpiGPIOHandler
  <2>4. QED
    BY <2>1, <2>2, <2>3 DEF TypeInv, TypeOK
<1>3. CASE SpiIntHandler
  <2>1. UNCHANGED <<env, app, usRxEventOpcode, ui16TxPacketLength, txbuf, edge>>
    BY <1>3 DEF SpiIntHandler
  <2>2. CASE HeaderRead
    <3> DEFINE e == IF phase = "offer" THEN Head(out) ELSE Event("garbage", None, 0)
    <3>1. e \in EventSet
      <4>1. out \in Seq(EventSet) /\ (phase = "offer" => out # <<>>)
        BY DEF TypeInv, TypeOK
      <4>2. Event("garbage", None, 0) \in EventSet
        BY EventTypes
      <4>3. QED
        BY <4>1, <4>2, OutTypes
    <3>2. rx' = e
      BY <2>2 DEF HeaderRead
    <3>3. CASE TriggerRxProcessing(e)
      BY <2>1, <3>1, <3>2, <3>3, TriggerTypes DEF TypeInv, TypeOK
    <3>4. CASE /\ ui32SpiState' = "READ_EOT" /\ dma' = "rest"
               /\ UNCHANGED <<credits, errors, usEventOrDataReceived, cs, intOn, chip>>
      BY <2>1, <3>1, <3>2, <3>4 DEF TypeInv, TypeOK
    <3>5. QED
      BY <2>2, <3>3, <3>4 DEF HeaderRead
  <2>3. CASE RestRead
    <3>1. rx \in EventSet /\ rx' = rx
      BY <2>3 DEF RestRead, TypeInv, TypeOK
    <3>2. QED
      BY <2>1, <2>3, <3>1, TriggerTypes DEF RestRead, TypeInv, TypeOK
  <2>4. CASE FirstPortionWritten
    <3>1. in' \in Seq(Nat)
      BY <2>4, ReceivedTypes DEF FirstPortionWritten
    <3>2. QED
      BY <2>1, <2>4, <3>1 DEF FirstPortionWritten, WriteAsync, TypeInv, TypeOK
  <2>5. CASE PacketWritten
    <3>1. CASE ~cs
      <4>1. cs' \in BOOLEAN
        BY <2>5, Zenon DEF PacketWritten
      <4>2. /\ ui32SpiState' = "IDLE" /\ dma' = None
            /\ UNCHANGED <<chip, credits, errors, usEventOrDataReceived, rx, intOn>>
        BY <2>5, <3>1 DEF PacketWritten
      <4>3. QED
        BY <2>1, <4>1, <4>2 DEF TypeInv, TypeOK
    <3>2. CASE cs
      <4>1. TakePacket(Received) /\ Received \in Seq(Nat) /\ Received # <<>>
        BY <2>5, <3>2, ReceivedTypes DEF PacketWritten
      <4>2. cs' \in BOOLEAN
        BY <2>5, Zenon DEF PacketWritten
      <4>3. /\ ui32SpiState' = "IDLE" /\ dma' = None
            /\ UNCHANGED <<credits, errors, usEventOrDataReceived, rx, intOn>>
        BY <2>5 DEF PacketWritten
      <4>4. /\ got' \in Seq(Seq(Nat)) /\ phase' = "idle" /\ in' \in Seq(Nat)
            /\ due' \in Seq(Ops) /\ held' \in Nat /\ UNCHANGED <<out, events>>
        BY <4>1, TakePacketTypes
      <4>5. QED
        BY <2>1, <4>2, <4>3, <4>4 DEF TypeInv, TypeOK
    <3>3. QED
      BY <3>1, <3>2
  <2>6. CASE TransferForgotten
    BY <2>1, <2>6 DEF TransferForgotten, TypeInv, TypeOK
  <2>7. QED
    BY <1>3, <2>2, <2>3, <2>4, <2>5, <2>6 DEF SpiIntHandler
<1>4. QED
  BY <1>1, <1>2, <1>3 DEF Interrupts

\* main().
LEMMA MainTypes == TypeInv /\ Main => TypeInv'
<1> SUFFICES ASSUME TypeInv, Main PROVE TypeInv'
  OBVIOUS
<1> USE DEF At, GoTo
<1>1. CASE WaitForLine
  BY <1>1 DEF WaitForLine, TypeInv, TypeOK
<1>2. CASE NewCall
  BY <1>2 DEF NewCall, TypeInv, TypeOK
<1>3. CASE FlowControlRefuses
  <2>1. slTransmitDataError' \in BOOLEAN
    BY <1>3, Zenon DEF FlowControlRefuses
  <2>2. /\ pc' = "ready"
        /\ UNCHANGED <<env, call, issued, reg, credits, socketActive, hci, rx, spi, lines, chip>>
    BY <1>3 DEF FlowControlRefuses
  <2>3. QED
    BY <2>1, <2>2 DEF TypeInv, TypeOK
<1>4. CASE FlowControlLoads
  <2>1. /\ pc' = "store" /\ reg' = usNumberOfFreeBuffers /\ usNumberOfFreeBuffers # 0
        /\ UNCHANGED <<env, call, issued, credits, errors, hci, rx, spi, lines, chip>>
    BY <1>4 DEF FlowControlLoads
  <2>2. QED
    BY <2>1 DEF TypeInv, TypeOK
<1>5. CASE FlowControlStores
  BY <1>5 DEF FlowControlStores, TypeInv, TypeOK
<1>6. CASE Build
  <2>1. issued' \in Seq(Call)
    BY <1>6, AppendProperties DEF Build, TypeInv, TypeOK
  <2>2. Len(issued) \in Nat
    BY IssuedTypes
  <2>3. QED
    BY <1>6, <2>1, <2>2 DEF Build, TypeInv, TypeOK
<1>7. CASE FirstWrite
  <2>1. txbuf \in 1..Count
    BY <1>7, IssuedTypes DEF FirstWrite, TypeInv
  <2>2. TakePacket(Whole(txbuf)) /\ Whole(txbuf) \in Seq(Nat) /\ Whole(txbuf) # <<>>
    BY <1>7, <2>1, WholePackets DEF FirstWrite
  <2>3. /\ got' \in Seq(Seq(Nat)) /\ phase' = "idle" /\ in' \in Seq(Nat)
        /\ due' \in Seq(Ops) /\ held' \in Nat /\ UNCHANGED <<out, events>>
    BY <2>2, TakePacketTypes
  <2>4. /\ pc = "write" /\ pc' = "expect" /\ ui32SpiState' = "IDLE"
        /\ UNCHANGED <<env, call, issued, reg, credits, errors, hci, rx,
                       ui16TxPacketLength, txbuf, lines>>
    BY <1>7 DEF FirstWrite
  <2>5. QED
    BY <2>3, <2>4 DEF TypeInv, TypeOK, SpiStates
<1>8. CASE TestIdle
  BY <1>8 DEF TestIdle, TypeInv, TypeOK
<1>9. CASE Claim
  <2>1. /\ pc = "claim" /\ pc' = "point" /\ ui32SpiState' = "WRITE_IRQ"
        /\ UNCHANGED <<env, call, issued, reg, credits, errors, hci, rx,
                       ui16TxPacketLength, txbuf, lines, chip>>
    BY <1>9 DEF Claim
  <2>2. QED
    BY <2>1 DEF TypeInv, TypeOK, SpiStates
<1>10. CASE Point
  <2>1. call.len \in 0..2
    BY DEF TypeInv, TypeOK, Call
  <2>2. QED
    BY <1>10, <2>1 DEF Point, TypeInv, TypeOK
<1>11. CASE AssertCS
  <2>1. cs' \in BOOLEAN
    BY <1>11, Zenon DEF AssertCS
  <2>2. /\ pc = "assert" /\ pc' = "expect"
        /\ UNCHANGED <<env, call, issued, reg, credits, errors, hci, rx, spi, edge, intOn, dma, chip>>
    BY <1>11 DEF AssertCS
  <2>3. QED
    BY <2>1, <2>2 DEF TypeInv, TypeOK
<1>12. CASE Expect
  BY <1>12 DEF Expect, TypeInv, TypeOK, Call
<1>13. CASE Handle
  BY <1>13 DEF Handle, TypeInv, TypeOK
<1>14. CASE Release
  <2>1. socketActive' \in BOOLEAN /\ pc' \in {"ready", "handle"}
    <3>1. CASE usRxEventOpcode = None
      <4>1. socketActive' \in {TRUE, FALSE, socketActive}
        BY <1>14, <3>1 DEF Release
      <4>2. QED
        BY <1>14, <3>1, <4>1 DEF Release, TypeInv, TypeOK
    <3>2. CASE usRxEventOpcode # None
      BY <1>14, <3>2 DEF Release, TypeInv, TypeOK
    <3>3. QED
      BY <3>1, <3>2
  <2>2. usEventOrDataReceived' \in BOOLEAN /\ intOn' \in BOOLEAN
    BY <1>14, Zenon DEF Release
  <2>3. /\ pc = "release"
        /\ UNCHANGED <<env, call, issued, reg, credits, slTransmitDataError,
                       usRxEventOpcode, rx, spi, cs, edge, dma, chip>>
    BY <1>14 DEF Release
  <2>4. QED
    BY <2>1, <2>2, <2>3 DEF TypeInv, TypeOK
<1>15. QED
  BY <1>1, <1>2, <1>3, <1>6, <1>7, <1>8, <1>12, <1>13, <1>14,
     <1>4, <1>5, <1>11, <1>10, <1>9 DEF Main

-----------------------------------------------------------------------------
\* The driver, main() and the chip in step, one action after the other.
USE DEF None, Flowing, WriteStates, ReadStates, Sending, IsReply, NoneComing, Waiting

\* A step that sends no packet and begins no call keeps SentWhole.
LEMMA SentStays == ASSUME SentWhole, UNCHANGED <<env, got, issued>> PROVE SentWhole'
BY DEF SentWhole, Whole

\* An event more to offer: no second reply, and the head stays.
LEMMA SendsSteady ==
  ASSUME TypeInv, SteadyInv, NEW e \in EventSet, Sends(e),
         \/ due' = due /\ ~IsReply(e)
         \/ due # <<>> /\ due' = Tail(due) /\ IsReply(e)
  PROVE  SteadyInv'
<1>1. UNCHANGED <<env, app, credits, errors, hci, rx, spi, lines, phase, in, got>>
  BY DEF Sends
<1>2. /\ out' = Append(out, e) /\ out \in Seq(EventSet) /\ due \in Seq(Ops)
      /\ phase = "offer" => out # <<>>
  BY DEF Sends, TypeInv, TypeOK
<1>3. /\ DOMAIN out = 1..Len(out) /\ DOMAIN out' = 1..(Len(out) + 1) /\ Len(out) \in Nat
      /\ \A i \in DOMAIN out : out'[i] = out[i]
      /\ out'[Len(out) + 1] = e
      /\ out # <<>> => Head(out') = Head(out)
  BY <1>2, AppendProperties, LenProperties
<1>4. CallInv' /\ DriverInv'
  BY <1>1 DEF SteadyInv, CallInv, DriverInv
<1>5. ChipInv'
  <2>1. ui32SpiState = "READ_EOT" => rx = Head(out')
    BY <1>2, <1>3 DEF SteadyInv, ChipInv
  <2>2. QED
    BY <1>1, <2>1 DEF SteadyInv, ChipInv
<1>6. ReplyInv'
  <2>1. CASE due' = due /\ ~IsReply(e)
    <3>1. (\A i \in DOMAIN out : ~IsReply(out[i])) => \A i \in DOMAIN out' : ~IsReply(out'[i])
      BY <1>3, <2>1
    <3>2. \A i, j \in DOMAIN out' : IsReply(out'[i]) /\ IsReply(out'[j]) => i = j
      BY <1>3, <2>1 DEF SteadyInv, ReplyInv
    <3>3. QED
      BY <1>1, <2>1, <3>1, <3>2 DEF SteadyInv, ReplyInv
  <2>2. CASE due # <<>> /\ due' = Tail(due) /\ IsReply(e)
    <3>1. due' = <<>> /\ Len(due') <= 1
      BY <1>2, <2>2, HeadTailProperties, EmptySeq DEF SteadyInv, ReplyInv
    <3>2. \A i \in DOMAIN out : ~IsReply(out[i])
      BY <2>2 DEF SteadyInv, ReplyInv
    <3>3. \A i, j \in DOMAIN out' : IsReply(out'[i]) /\ IsReply(out'[j]) => i = j
      BY <1>3, <3>2
    <3>4. /\ ~Waiting
          /\ ~(pc \notin After \/ Sending)
          /\ ~(pc = "release" /\ usRxEventOpcode = None)
      BY <2>2 DEF SteadyInv, ReplyInv
    <3>5. QED
      BY <1>1, <3>1, <3>3, <3>4 DEF SteadyInv, ReplyInv
  <2>3. QED
    BY <2>1, <2>2
<1>7. SentWhole'
  BY <1>1, SentStays DEF SteadyInv
<1>8. QED
  BY <1>4, <1>5, <1>6, <1>7 DEF SteadyInv

\* The chip's steps.
LEMMA ChipSteady == ASSUME TypeInv, SteadyInv, env.steady, Chip PROVE SteadyInv'
<1>1. CASE PowerUp
  <2>1. CallInv'
    BY <1>1 DEF PowerUp, SteadyInv, CallInv
  <2>2. DriverInv'
    BY <1>1 DEF PowerUp, SteadyInv, DriverInv
  <2>3. ChipInv'
    BY <1>1 DEF PowerUp, SteadyInv, ChipInv, DriverInv
  <2>4. ReplyInv'
    BY <1>1 DEF PowerUp, SteadyInv, ReplyInv
  <2>5. SentWhole'
    BY <1>1, SentStays DEF PowerUp, SteadyInv
  <2>6. QED
    BY <2>1, <2>2, <2>3, <2>4, <2>5 DEF SteadyInv
<1>2. CASE Offer
  <2>1. CallInv'
    BY <1>2 DEF Offer, SteadyInv, CallInv
  <2>2. DriverInv'
    BY <1>2 DEF Offer, SteadyInv, DriverInv
  <2>3. ChipInv'
    BY <1>2 DEF Offer, SteadyInv, ChipInv
  <2>4. ReplyInv'
    BY <1>2 DEF Offer, SteadyInv, ReplyInv
  <2>5. SentWhole'
    BY <1>2, SentStays DEF Offer, SteadyInv
  <2>6. QED
    BY <2>1, <2>2, <2>3, <2>4, <2>5 DEF SteadyInv
<1>3. CASE Accept
  <2>1. CallInv'
    BY <1>3 DEF Accept, SteadyInv, CallInv
  <2>2. DriverInv'
    BY <1>3 DEF Accept, SteadyInv, DriverInv
  <2>3. ChipInv'
    BY <1>3 DEF Accept, SteadyInv, ChipInv
  <2>4. ReplyInv'
    BY <1>3 DEF Accept, SteadyInv, ReplyInv
  <2>5. SentWhole'
    BY <1>3, SentStays DEF Accept, SteadyInv
  <2>6. QED
    BY <2>1, <2>2, <2>3, <2>4, <2>5 DEF SteadyInv
<1>4. CASE Answer
  <2>1. due # <<>> /\ due' = Tail(due) /\ Head(due) \in Ops
    BY <1>4, HeadTailProperties DEF Answer, TypeInv, TypeOK
  <2>2. \/ Sends(Event("reply", Head(due), 0))
        \/ Sends(Event("inactive", "send", 0))
    BY <1>4 DEF Answer
  <2>3. /\ Event("reply", Head(due), 0) \in EventSet
        /\ Event("inactive", "send", 0) \in EventSet
    BY <2>1, EventTypes DEF Ops
  <2>4. IsReply(Event("reply", Head(due), 0)) /\ IsReply(Event("inactive", "send", 0))
    BY DEF Event
  <2>5. QED
    BY <2>1, <2>2, <2>3, <2>4, SendsSteady
<1>5. CASE GiveBack
  <2>1. PICK n \in 1..held : Sends(Event("free", None, n))
    BY <1>5 DEF GiveBack
  <2>2. Event("free", None, n) \in EventSet /\ ~IsReply(Event("free", None, n))
    <3>1. n \in Nat
      BY <2>1 DEF TypeInv, TypeOK
    <3>2. QED
      BY <3>1, EventTypes DEF Event
  <2>3. due' = due
    BY <1>5 DEF GiveBack
  <2>4. QED
    BY <2>1, <2>2, <2>3, SendsSteady
<1>6. CASE Unsolicited
  <2>1. PICK kind \in {"unsol", "other", "garbage"} : Sends(Event(kind, None, 0))
    BY <1>6 DEF Unsolicited
  <2>2. Event(kind, None, 0) \in EventSet /\ ~IsReply(Event(kind, None, 0))
    BY <2>1, EventTypes DEF Event
  <2>3. due' = due
    BY <1>6 DEF Unsolicited
  <2>4. QED
    BY <2>1, <2>2, <2>3, SendsSteady
<1>7. QED
  BY <1>1, <1>2, <1>3, <1>4, <1>5, <1>6 DEF Chip


\* The chip takes the packet of the call main() is in: all packets are whole,
\* and nothing but the answer to it will come.
TakenWhole ==
  /\ Len(got') = Count /\ got' = Append(got, Whole(Count))
  /\ SentWhole'
  /\ phase' = "idle" /\ in' = <<>> /\ Len(due') <= 1
  /\ UNCHANGED <<out, events>>

LEMMA TakeSteady ==
  ASSUME TypeInv, SteadyInv, env.steady, Count > 0, due = <<>>, Len(got) = Count - 1,
         TakePacket(Whole(Count)), UNCHANGED <<env, issued>>
  PROVE  TakenWhole
<1>1. /\ Count \in 1..Count /\ Count \in DOMAIN issued /\ got \in Seq(Seq(Nat))
      /\ issued[Count].op \in Ops
  <2>1. Count \in 1..Count /\ Count \in DOMAIN issued /\ issued[Count] \in Call
    BY IssuedTypes
  <2>2. issued[Count].op \in Ops
    BY <2>1 DEF Call
  <2>3. got \in Seq(Seq(Nat))
    BY DEF TypeInv, TypeOK
  <2>4. QED
    BY <2>1, <2>2, <2>3
<1>2. Whole(Count)[1] = Count /\ Whole(Count) \in Seq(Nat)
  BY <1>1, WholePackets
<1>3. /\ got' = Append(got, Whole(Count)) /\ phase' = "idle" /\ in' = <<>>
      /\ due' = Append(due, issued[Count].op)
      /\ UNCHANGED <<out, events>>
  BY <1>1, <1>2 DEF TakePacket
<1>4. Len(due') = 1
  BY <1>3
<1>5. /\ Len(got') = Count /\ DOMAIN got' = 1..Count /\ DOMAIN got = 1..(Count - 1)
      /\ \A i \in 1..(Count - 1) : got'[i] = got[i]
      /\ got'[Count] = Whole(Count)
  BY <1>1, <1>2, <1>3, AppendProperties, LenProperties
<1>6. \A i \in DOMAIN got' : got'[i] = Whole(i)
  BY <1>1, <1>5 DEF SteadyInv, SentWhole
<1>7. SentWhole'
  <2>1. \A i : Whole(i)' = Whole(i)
    BY DEF Whole
  <2>2. QED
    BY <1>1, <1>5, <1>6, <2>1 DEF SentWhole
<1>8. QED
  BY <1>3, <1>4, <1>5, <1>7 DEF TakenWhole


\* An event that waits is served after all: it is a reply nobody awaits yet.
LEMMA SysTickSteady == ASSUME TypeInv, SteadyInv, env.steady, SysTick PROVE SteadyInv'
<1>1. usEventOrDataReceived /\ Consumed(rx)
  BY DEF SysTick
<1>2. rx.kind = "reply" /\ rx.op # usRxEventOpcode
  BY <1>1 DEF Consumed, SteadyInv, ReplyInv
<1>3. /\ Waiting /\ rx.op # usRxEventOpcode
      /\ pc \in After /\ ~Sending
      /\ NoneComing
  BY <1>1, <1>2 DEF SteadyInv, ReplyInv
<1>4. /\ ~usEventOrDataReceived'
      /\ UNCHANGED <<env, app, usRxEventOpcode, rx, spi, cs, edge, dma, chip>>
  BY <1>3, Zenon DEF SysTick, Receive
<1>5. intOn'
  BY <1>3, Zenon DEF SysTick, Receive
<1>6. CallInv' /\ ReplyInv' /\ SentWhole'
  BY <1>3, <1>4, SentStays DEF SteadyInv, CallInv, ReplyInv
<1>7. DriverInv' /\ ChipInv'
  BY <1>3, <1>4, <1>5 DEF SteadyInv, DriverInv, ChipInv
<1>8. QED
  BY <1>6, <1>7 DEF SteadyInv

\* The line falls: the driver is powered up, or begins to read, or to write.
LEMMA LineFallsSteady ==
  ASSUME TypeInv, SteadyInv, env.steady, IntSpiGPIOHandler PROVE SteadyInv'
<1>1. ~edge'
  BY Zenon DEF IntSpiGPIOHandler
<1>2. /\ edge /\ intOn /\ pc \notin Window
      /\ UNCHANGED <<env, app, credits, errors, hci, rx, ui16TxPacketLength, txbuf, intOn, chip>>
  BY DEF IntSpiGPIOHandler, SteadyInv, ChipInv
<1>3. CallInv' /\ SentWhole'
  BY <1>2, SentStays DEF SteadyInv, CallInv
<1>4. ReplyInv'
  BY <1>2 DEF SteadyInv, ReplyInv
<1>5. ui32SpiState \in {"POWERUP", "IDLE", "WRITE_IRQ"}
  BY <1>2 DEF SteadyInv, ChipInv, TypeInv, TypeOK, SpiStates
<1>6. CASE ui32SpiState = "POWERUP"
  <2>1. ui32SpiState' = "INITIALIZED" /\ UNCHANGED <<cs, dma>>
    BY <1>6 DEF IntSpiGPIOHandler
  <2>2. pc = "power" /\ Count = 0 /\ Len(got) = 0 /\ phase = "up"
    BY <1>2, <1>6 DEF SteadyInv, CallInv, DriverInv, ChipInv
  <2>3. DriverInv' /\ ChipInv'
    BY <1>1, <1>2, <1>6, <2>1, <2>2 DEF SteadyInv, DriverInv, ChipInv
  <2>4. QED
    BY <1>3, <1>4, <2>3 DEF SteadyInv
<1>7. CASE ui32SpiState = "IDLE"
  <2>1. ui32SpiState' = "READ_IRQ" /\ dma' = "header"
    BY <1>7 DEF IntSpiGPIOHandler, ReadHeader
  <2>2. cs'
    BY <1>7, Zenon DEF IntSpiGPIOHandler, ReadHeader
  <2>3. pc # "power" /\ phase = "offer"
    BY <1>2, <1>7 DEF SteadyInv, DriverInv, ChipInv
  <2>4. DriverInv' /\ ChipInv'
    BY <1>1, <1>2, <1>7, <2>1, <2>2, <2>3 DEF SteadyInv, DriverInv, ChipInv
  <2>5. QED
    BY <1>3, <1>4, <2>4 DEF SteadyInv
<1>8. CASE ui32SpiState = "WRITE_IRQ"
  <2>1. pc \in After /\ Sending /\ ui16TxPacketLength = call.len /\ call.len \in {1, 2}
    BY <1>2, <1>8 DEF SteadyInv, DriverInv, TypeInv, TypeOK, Call
  <2>2. UNCHANGED cs
    BY <1>8 DEF IntSpiGPIOHandler
  <2>3. /\ dma' = "write"
        /\ ui32SpiState' = IF call.len = 1 THEN "WRITE_EOT" ELSE "WRITE_FIRST_PORTION"
    BY <1>8, <2>1 DEF IntSpiGPIOHandler, WriteAsync
  <2>4. DriverInv' /\ ChipInv'
    BY <1>1, <1>2, <1>8, <2>1, <2>2, <2>3 DEF SteadyInv, DriverInv, ChipInv
  <2>5. QED
    BY <1>3, <1>4, <2>4 DEF SteadyInv
<1>9. QED
  BY <1>5, <1>6, <1>7, <1>8

\* An event has been read: it is served at once or waits for main().
LEMMA TriggerSteady ==
  ASSUME TypeInv, SteadyInv, NEW e \in EventSet, phase = "offer", e = Head(out),
         ui32SpiState \in ReadStates, intOn, rx' = e, TriggerRxProcessing(e),
         UNCHANGED <<env, app, usRxEventOpcode, ui16TxPacketLength, txbuf, edge>>
  PROVE  SteadyInv'
<1>1. ~cs'
  BY Zenon DEF TriggerRxProcessing
<1>2. /\ ui32SpiState' = "IDLE" /\ dma' = None /\ phase' = "idle" /\ in' = <<>>
      /\ out' = Tail(out) /\ UNCHANGED <<got, due, held, events>>
  BY DEF TriggerRxProcessing, EndRead
<1>3. /\ out \in Seq(EventSet) /\ out # <<>>
  BY DEF TypeInv, TypeOK
<1>4. /\ DOMAIN out = 1..Len(out) /\ DOMAIN out' = 1..(Len(out) - 1) /\ Len(out) \in Nat \ {0}
      /\ out[1] = e
      /\ \A i \in DOMAIN out' : i + 1 \in DOMAIN out /\ out'[i] = out[i + 1]
  BY <1>2, <1>3, LenProperties, HeadTailProperties
<1>5. CallInv' /\ SentWhole'
  BY <1>2, SentStays DEF SteadyInv, CallInv
<1>6. ~edge /\ ~usEventOrDataReceived /\ pc \notin {"power", "point", "assert"}
      /\ ~(pc \in After /\ Sending)
  BY DEF SteadyInv, DriverInv, ChipInv, ReplyInv
<1>7. DriverInv'
  BY <1>2, <1>6 DEF SteadyInv, DriverInv
<1>8. ChipInv'
  BY <1>1, <1>2, <1>6 DEF SteadyInv, ChipInv
<1>9. ReplyInv'
  <2>1. CASE e.kind = "garbage"
    <3>1. ~usEventOrDataReceived'
      BY <1>6, <2>1 DEF TriggerRxProcessing
    <3>2. QED
      BY <1>2, <1>4, <3>1 DEF SteadyInv, ReplyInv
  <2>2. CASE e.kind # "garbage"
    <3>1. usEventOrDataReceived' <=> ~Consumed(e)
      BY <2>2, Zenon DEF TriggerRxProcessing, Receive
    <3>2. intOn' <=> Consumed(e)
      BY <2>2, Zenon DEF TriggerRxProcessing, Receive
    <3>3. ~Consumed(e) => e.kind \in {"reply", "other"}
      BY <2>2 DEF Consumed, EventSet
    <3>4. IsReply(e) => due = <<>> /\ \A i \in DOMAIN out' : ~IsReply(out'[i])
      BY <1>4 DEF SteadyInv, ReplyInv
    <3>5. Waiting' => IsReply(e)
      BY <3>1
    <3>6. NoneComing => NoneComing' /\ ~IsReply(e)
      BY <1>2, <1>4
    <3>7. \A i, j \in DOMAIN out' : IsReply(out'[i]) /\ IsReply(out'[j]) => i = j
      BY <1>4 DEF SteadyInv, ReplyInv
    <3>8. due' # <<>> => \A i \in DOMAIN out' : ~IsReply(out'[i])
      BY <1>2, <1>4 DEF SteadyInv, ReplyInv
    <3>9. QED
      BY <1>2, <3>1, <3>2, <3>3, <3>4, <3>5, <3>6, <3>7, <3>8 DEF SteadyInv, ReplyInv
  <2>3. QED
    BY <2>1, <2>2
<1>10. QED
  BY <1>5, <1>7, <1>8, <1>9 DEF SteadyInv

\* The end of a transfer, by the state of the driver.
LEMMA TransferSteady ==
  ASSUME TypeInv, SteadyInv, env.steady, SpiIntHandler PROVE SteadyInv'
<1>1. /\ dma # None /\ intOn
      /\ UNCHANGED <<env, app, usRxEventOpcode, ui16TxPacketLength, txbuf, edge>>
  BY DEF SpiIntHandler, TransferEnds
<1>2. ui32SpiState \in ReadStates \cup Flowing
  BY <1>1 DEF SteadyInv, DriverInv, TypeInv, TypeOK
<1>3. CASE HeaderRead
  <2>1. phase = "offer" /\ out # <<>> /\ out \in Seq(EventSet) /\ ui32SpiState = "READ_IRQ"
    BY <1>3 DEF HeaderRead, SteadyInv, ChipInv, TypeInv, TypeOK
  <2>2. Head(out) \in EventSet /\ rx' = Head(out)
    BY <1>3, <2>1, OutTypes DEF HeaderRead
  <2>3. CASE TriggerRxProcessing(Head(out))
    BY <1>1, <2>1, <2>2, <2>3, TriggerSteady
  <2>4. CASE /\ ui32SpiState' = "READ_EOT" /\ dma' = "rest"
             /\ UNCHANGED <<credits, errors, usEventOrDataReceived, cs, intOn, chip>>
    <3>1. ~usEventOrDataReceived
      BY <1>1 DEF SteadyInv, ReplyInv
    <3>2. CallInv' /\ SentWhole'
      BY <1>1, <2>4, SentStays DEF SteadyInv, CallInv
    <3>3. DriverInv'
      BY <1>1, <2>1, <2>4 DEF SteadyInv, DriverInv
    <3>4. ChipInv'
      BY <1>1, <2>1, <2>2, <2>4 DEF SteadyInv, ChipInv
    <3>5. ReplyInv'
      BY <1>1, <2>4, <3>1 DEF SteadyInv, ReplyInv
    <3>6. QED
      BY <3>2, <3>3, <3>4, <3>5 DEF SteadyInv
  <2>5. QED
    BY <1>3, <2>1, <2>3, <2>4 DEF HeaderRead
<1>4. CASE RestRead
  <2>1. /\ ui32SpiState = "READ_EOT" /\ phase = "offer" /\ out # <<>> /\ rx = Head(out)
        /\ rx' = rx /\ TriggerRxProcessing(rx) /\ rx \in EventSet
    BY <1>4 DEF RestRead, SteadyInv, ChipInv, TypeInv, TypeOK
  <2>2. QED
    BY <1>1, <2>1, TriggerSteady
<1>5. CASE FirstPortionWritten
  <2>1. /\ ui32SpiState = "WRITE_FIRST_PORTION" /\ call.len = 2 /\ in = <<>>
        /\ pc \in After /\ Sending /\ ui16TxPacketLength = 2
        /\ dma = "write" /\ txbuf = Count
    BY <1>5 DEF FirstPortionWritten, SteadyInv, DriverInv, ChipInv, TypeInv
  <2>2. cs
    BY <2>1 DEF SteadyInv, ChipInv
  <2>3. Received = <<Count>>
    BY <2>1, <2>2, AppendProperties DEF Received
  <2>4. /\ ui32SpiState' = "WRITE_EOT" /\ dma' = "write" /\ in' = <<Count>>
        /\ UNCHANGED <<credits, errors, usEventOrDataReceived, rx, cs, intOn,
                       phase, got, due, held, out, events>>
    BY <1>5, <2>1, <2>3 DEF FirstPortionWritten, WriteAsync, Rest
  <2>5. CallInv' /\ SentWhole'
    BY <1>1, <2>4, SentStays DEF SteadyInv, CallInv
  <2>6. DriverInv'
    BY <1>1, <2>1, <2>4 DEF SteadyInv, DriverInv
  <2>7. ChipInv'
    BY <1>1, <2>1, <2>4 DEF SteadyInv, ChipInv
  <2>8. ReplyInv'
    BY <1>1, <2>4 DEF SteadyInv, ReplyInv
  <2>9. QED
    BY <2>5, <2>6, <2>7, <2>8 DEF SteadyInv
<1>6. CASE PacketWritten
  <2>1. /\ ui32SpiState = "WRITE_EOT" /\ pc \in After /\ Sending
        /\ ui16TxPacketLength = call.len /\ call.len \in {1, 2} /\ dma = "write"
        /\ txbuf = Count /\ Count > 0 /\ issued[Count] = call
    BY <1>6 DEF PacketWritten, SteadyInv, CallInv, DriverInv, ChipInv, TypeInv, TypeOK, Call
  <2>2. cs /\ in = IF call.len = 2 THEN <<Count>> ELSE <<>>
    BY <2>1 DEF SteadyInv, ChipInv
  <2>3. Received = Whole(Count)
    <3>1. Count \in 1..Count
      BY <2>1, IssuedTypes
    <3>2. Whole(Count) = IF call.len = 1 THEN <<Count>> ELSE <<Count, Count>>
      BY <2>1, <3>1, WholePackets
    <3>3. Received = Append(in, Count)
      BY <2>1, <2>2 DEF Received
    <3>4. QED
      BY <2>1, <2>2, <3>1, <3>2, <3>3
  <2>4. TakePacket(Whole(Count))
    BY <1>6, <2>2, <2>3 DEF PacketWritten
  <2>5. ~cs'
    BY <1>6, Zenon DEF PacketWritten
  <2>6. /\ ui32SpiState' = "IDLE" /\ dma' = None
        /\ UNCHANGED <<credits, errors, usEventOrDataReceived, rx, intOn>>
    BY <1>6 DEF PacketWritten
  <2>7. TakenWhole
    <3>1. due = <<>> /\ Len(got) = Count - 1
      BY <2>1 DEF SteadyInv, CallInv, ReplyInv
    <3>2. QED
      BY <1>1, <2>1, <2>4, <3>1, TakeSteady
  <2>8. CallInv' /\ SentWhole'
    BY <1>1, <2>1, <2>7 DEF SteadyInv, CallInv, TakenWhole
  <2>9. DriverInv'
    BY <1>1, <2>1, <2>6, <2>7 DEF SteadyInv, DriverInv, TakenWhole
  <2>10. ChipInv'
    BY <1>1, <2>1, <2>5, <2>6, <2>7 DEF SteadyInv, ChipInv, TakenWhole
  <2>11. ReplyInv'
    BY <1>1, <2>1, <2>6, <2>7 DEF SteadyInv, ReplyInv, TakenWhole
  <2>12. QED
    BY <2>8, <2>9, <2>10, <2>11 DEF SteadyInv
<1>7. ~TransferForgotten
  BY <1>2 DEF TransferForgotten
<1>8. QED
  BY <1>3, <1>4, <1>5, <1>6, <1>7 DEF SpiIntHandler


\* main()'s steps.
LEMMA MainSteady == ASSUME TypeInv, SteadyInv, env.steady, Main PROVE SteadyInv'
<1>1. CASE WaitForLine
  <2>1. CallInv'
    BY <1>1 DEF WaitForLine, At, GoTo, SteadyInv, CallInv
  <2>2. DriverInv'
    BY <1>1 DEF WaitForLine, At, GoTo, SteadyInv, DriverInv
  <2>3. ChipInv'
    BY <1>1 DEF WaitForLine, At, GoTo, SteadyInv, ChipInv
  <2>4. ReplyInv'
    BY <1>1 DEF WaitForLine, At, GoTo, SteadyInv, ReplyInv
  <2>5. SentWhole'
    BY <1>1, SentStays DEF WaitForLine, At, GoTo, SteadyInv
  <2>6. QED
    BY <2>1, <2>2, <2>3, <2>4, <2>5 DEF SteadyInv
<1>2. CASE NewCall
  <2>1. CallInv'
    BY <1>2 DEF NewCall, At, GoTo, SteadyInv, CallInv
  <2>2. DriverInv'
    BY <1>2 DEF NewCall, At, GoTo, SteadyInv, DriverInv
  <2>3. ChipInv'
    BY <1>2 DEF NewCall, At, GoTo, SteadyInv, ChipInv, DriverInv
  <2>4. ReplyInv'
    BY <1>2 DEF NewCall, At, GoTo, SteadyInv, ReplyInv
  <2>5. SentWhole'
    BY <1>2, SentStays DEF NewCall, At, GoTo, SteadyInv
  <2>6. QED
    BY <2>1, <2>2, <2>3, <2>4, <2>5 DEF SteadyInv
<1>3. CASE FlowControlRefuses
  <2>1. CallInv'
    BY <1>3 DEF FlowControlRefuses, At, GoTo, SteadyInv, CallInv
  <2>2. DriverInv'
    BY <1>3 DEF FlowControlRefuses, At, GoTo, SteadyInv, DriverInv
  <2>3. ChipInv'
    BY <1>3 DEF FlowControlRefuses, At, GoTo, SteadyInv, ChipInv
  <2>4. ReplyInv'
    BY <1>3 DEF FlowControlRefuses, At, GoTo, SteadyInv, ReplyInv
  <2>5. SentWhole'
    BY <1>3, SentStays DEF FlowControlRefuses, At, GoTo, SteadyInv
  <2>6. QED
    BY <2>1, <2>2, <2>3, <2>4, <2>5 DEF SteadyInv
<1>4. CASE FlowControlLoads
  <2>1. CallInv'
    BY <1>4 DEF FlowControlLoads, At, GoTo, SteadyInv, CallInv
  <2>2. DriverInv'
    BY <1>4 DEF FlowControlLoads, At, GoTo, SteadyInv, DriverInv
  <2>3. ChipInv'
    BY <1>4 DEF FlowControlLoads, At, GoTo, SteadyInv, ChipInv
  <2>4. ReplyInv'
    BY <1>4 DEF FlowControlLoads, At, GoTo, SteadyInv, ReplyInv
  <2>5. SentWhole'
    BY <1>4, SentStays DEF FlowControlLoads, At, GoTo, SteadyInv
  <2>6. QED
    BY <2>1, <2>2, <2>3, <2>4, <2>5 DEF SteadyInv
<1>5. CASE FlowControlStores
  <2>1. CallInv'
    BY <1>5 DEF FlowControlStores, At, GoTo, SteadyInv, CallInv
  <2>2. DriverInv'
    BY <1>5 DEF FlowControlStores, At, GoTo, SteadyInv, DriverInv
  <2>3. ChipInv'
    BY <1>5 DEF FlowControlStores, At, GoTo, SteadyInv, ChipInv
  <2>4. ReplyInv'
    BY <1>5 DEF FlowControlStores, At, GoTo, SteadyInv, ReplyInv
  <2>5. SentWhole'
    BY <1>5, SentStays DEF FlowControlStores, At, GoTo, SteadyInv
  <2>6. QED
    BY <2>1, <2>2, <2>3, <2>4, <2>5 DEF SteadyInv
<1>6. CASE Build
  <2>1. CallInv'
    BY <1>6 DEF Build, At, GoTo, SteadyInv, CallInv
  <2>2. DriverInv'
    BY <1>6 DEF Build, At, GoTo, SteadyInv, DriverInv
  <2>3. ChipInv'
    BY <1>6 DEF Build, At, GoTo, SteadyInv, ChipInv, DriverInv
  <2>4. ReplyInv'
    BY <1>6 DEF Build, At, GoTo, SteadyInv, ReplyInv
  <2>5. SentWhole'
    <3>1. /\ issued' = Append(issued, call) /\ UNCHANGED <<env, got>>
          /\ issued \in Seq(Call) /\ call \in Call /\ got \in Seq(Seq(Nat))
      BY <1>6 DEF Build, TypeInv, TypeOK
    <3>2. /\ Len(issued') = Len(issued) + 1
          /\ \A i \in DOMAIN got : issued'[i] = issued[i]
      BY <3>1, AppendProperties, LenProperties DEF SteadyInv, SentWhole
    <3>3. \A i \in DOMAIN got : Whole(i)' = Whole(i)
      BY <3>2 DEF Whole
    <3>4. QED
      BY <3>1, <3>2, <3>3 DEF SteadyInv, SentWhole
  <2>6. QED
    BY <2>1, <2>2, <2>3, <2>4, <2>5 DEF SteadyInv
<1>7. CASE FirstWrite
  <2>1. /\ ui32SpiState = "INITIALIZED" /\ pc = "write" /\ phase = "up" /\ Len(got) = 0
        /\ Count = 1 /\ txbuf = Count /\ issued[Count] = call
    BY <1>7 DEF FirstWrite, At, SteadyInv, CallInv, DriverInv, TypeInv
  <2>2. due = <<>> /\ NoneComing /\ ~Waiting
    BY <2>1 DEF SteadyInv, ReplyInv
  <2>3. /\ pc' = "expect" /\ ui32SpiState' = "IDLE" /\ TakePacket(Whole(Count))
        /\ UNCHANGED <<env, call, issued, reg, credits, errors, hci, rx,
                       ui16TxPacketLength, txbuf, lines>>
    BY <1>7, <2>1 DEF FirstWrite, GoTo
  <2>4. TakenWhole
    BY <2>1, <2>2, <2>3, TakeSteady
  <2>5. CallInv' /\ SentWhole'
    BY <2>1, <2>3, <2>4 DEF SteadyInv, CallInv, TakenWhole
  <2>6. ~Sending' /\ phase' = "idle" /\ in' = <<>> /\ Len(due') <= 1 /\ out' = out
    <3>1. Len(got') = Count /\ issued' = issued
      BY <2>3, <2>4 DEF TakenWhole
    <3>2. ~Sending'
      BY <2>1, <3>1
    <3>3. QED
      BY <2>4, <3>2 DEF TakenWhole
  <2>7. ~cs /\ ~edge /\ dma = None
    BY <2>1 DEF SteadyInv, DriverInv, ChipInv, TypeInv, TypeOK
  <2>8. DriverInv'
    BY <2>1, <2>3, <2>6, <2>7 DEF SteadyInv, DriverInv
  <2>9. ChipInv'
    BY <2>1, <2>3, <2>6, <2>7 DEF SteadyInv, ChipInv
  <2>10. ReplyInv'
    BY <2>1, <2>2, <2>3, <2>6 DEF SteadyInv, ReplyInv
  <2>11. QED
    BY <2>5, <2>8, <2>9, <2>10 DEF SteadyInv
<1>8. CASE TestIdle
  <2>1. CallInv'
    BY <1>8 DEF TestIdle, At, GoTo, SteadyInv, CallInv
  <2>2. DriverInv'
    BY <1>8 DEF TestIdle, At, GoTo, SteadyInv, DriverInv
  <2>3. ChipInv'
    BY <1>8 DEF TestIdle, At, GoTo, SteadyInv, ChipInv
  <2>4. ReplyInv'
    BY <1>8 DEF TestIdle, At, GoTo, SteadyInv, ReplyInv
  <2>5. SentWhole'
    BY <1>8, SentStays DEF TestIdle, At, GoTo, SteadyInv
  <2>6. QED
    BY <2>1, <2>2, <2>3, <2>4, <2>5 DEF SteadyInv
<1>9. CASE Claim
  <2>1. CallInv'
    BY <1>9 DEF Claim, At, GoTo, SteadyInv, CallInv
  <2>2. DriverInv'
    BY <1>9 DEF Claim, At, GoTo, SteadyInv, DriverInv
  <2>3. ChipInv'
    BY <1>9 DEF Claim, At, GoTo, SteadyInv, ChipInv, DriverInv
  <2>4. ReplyInv'
    BY <1>9 DEF Claim, At, GoTo, SteadyInv, ReplyInv
  <2>5. SentWhole'
    BY <1>9, SentStays DEF Claim, At, GoTo, SteadyInv
  <2>6. QED
    BY <2>1, <2>2, <2>3, <2>4, <2>5 DEF SteadyInv
<1>10. CASE Point
  <2>1. CallInv'
    BY <1>10 DEF Point, At, GoTo, SteadyInv, CallInv
  <2>2. DriverInv'
    BY <1>10 DEF Point, At, GoTo, SteadyInv, DriverInv
  <2>3. ChipInv'
    BY <1>10 DEF Point, At, GoTo, SteadyInv, ChipInv
  <2>4. ReplyInv'
    BY <1>10 DEF Point, At, GoTo, SteadyInv, ReplyInv
  <2>5. SentWhole'
    BY <1>10, SentStays DEF Point, At, GoTo, SteadyInv
  <2>6. QED
    BY <2>1, <2>2, <2>3, <2>4, <2>5 DEF SteadyInv
<1>11. CASE AssertCS
  <2>1. CallInv'
    BY <1>11 DEF AssertCS, At, GoTo, SteadyInv, CallInv
  <2>2. DriverInv'
    BY <1>11 DEF AssertCS, At, GoTo, SteadyInv, DriverInv, CallInv
  <2>3. ChipInv'
    BY <1>11 DEF AssertCS, At, GoTo, SteadyInv, ChipInv, DriverInv
  <2>4. ReplyInv'
    BY <1>11 DEF AssertCS, At, GoTo, SteadyInv, ReplyInv
  <2>5. SentWhole'
    BY <1>11, SentStays DEF AssertCS, At, GoTo, SteadyInv
  <2>6. QED
    BY <2>1, <2>2, <2>3, <2>4, <2>5 DEF SteadyInv
<1>12. CASE Expect
  <2>1. CallInv'
    <3>1. call.op # None /\ pc' = "handle" /\ usRxEventOpcode' = call.op
          /\ UNCHANGED <<call, issued, got>> /\ pc = "expect"
      BY <1>12 DEF Expect, At, GoTo, TypeInv, TypeOK, Call, Ops
    <3>2. QED
      BY <3>1 DEF SteadyInv, CallInv
  <2>2. DriverInv'
    BY <1>12 DEF Expect, At, GoTo, SteadyInv, DriverInv
  <2>3. ChipInv'
    BY <1>12 DEF Expect, At, GoTo, SteadyInv, ChipInv
  <2>4. ReplyInv'
    BY <1>12 DEF Expect, At, GoTo, SteadyInv, ReplyInv
  <2>5. SentWhole'
    BY <1>12, SentStays DEF Expect, At, GoTo, SteadyInv
  <2>6. QED
    BY <2>1, <2>2, <2>3, <2>4, <2>5 DEF SteadyInv
<1>13. CASE Handle
  <2>1. CallInv'
    BY <1>13 DEF Handle, At, GoTo, SteadyInv, CallInv
  <2>2. DriverInv'
    BY <1>13 DEF Handle, At, GoTo, SteadyInv, DriverInv
  <2>3. ChipInv'
    BY <1>13 DEF Handle, At, GoTo, SteadyInv, ChipInv
  <2>4. ReplyInv'
    BY <1>13 DEF Handle, At, GoTo, SteadyInv, ReplyInv, CallInv
  <2>5. SentWhole'
    BY <1>13, SentStays DEF Handle, At, GoTo, SteadyInv
  <2>6. QED
    BY <2>1, <2>2, <2>3, <2>4, <2>5 DEF SteadyInv
<1>14. CASE Release
  <2>1. /\ pc = "release" /\ ~usEventOrDataReceived' /\ intOn'
    BY <1>14, Zenon DEF Release, At
  <2>2. /\ pc' = IF usRxEventOpcode = None THEN "ready" ELSE "handle"
        /\ UNCHANGED <<env, call, issued, reg, credits, slTransmitDataError,
                       usRxEventOpcode, rx, spi, cs, edge, dma, chip>>
    BY <1>14 DEF Release, GoTo
  <2>3. usRxEventOpcode = None => NoneComing /\ ~Sending
    BY <2>1 DEF SteadyInv, ReplyInv
  <2>4. SentWhole'
    BY <2>2, SentStays DEF SteadyInv
  <2>5. CallInv'
    <3>1. Count \in Nat /\ Count > 0 /\ Len(got) \in {Count - 1, Count} /\ issued[Count] = call
      BY <2>1, IssuedTypes DEF SteadyInv, CallInv, TypeInv
    <3>2. CASE usRxEventOpcode = None
      <4>1. Len(got) = Count /\ pc' = "ready"
        BY <2>2, <2>3, <3>1, <3>2
      <4>2. QED
        BY <2>2, <3>1, <3>2, <4>1 DEF CallInv
    <3>3. CASE usRxEventOpcode # None
      BY <2>2, <3>1, <3>3 DEF CallInv
    <3>4. QED
      BY <3>2, <3>3
  <2>6. DriverInv'
    BY <2>1, <2>2, <2>3 DEF SteadyInv, DriverInv
  <2>7. ChipInv'
    BY <2>1, <2>2, <2>3 DEF SteadyInv, DriverInv, ChipInv
  <2>8. ReplyInv'
    BY <2>1, <2>2, <2>3 DEF SteadyInv, ReplyInv
  <2>9. QED
    BY <2>4, <2>5, <2>6, <2>7, <2>8 DEF SteadyInv
<1>15. QED
  BY <1>1, <1>2, <1>3, <1>4, <1>5, <1>6, <1>7, <1>8, <1>9, <1>10, <1>11,
     <1>12, <1>13, <1>14 DEF Main


-----------------------------------------------------------------------------
\* The theorems.

\* Every step keeps the environment.
LEMMA NextKeepsEnv == [Next]_vars => env' = env
<1>1. CASE Main
  BY <1>1 DEF Main, WaitForLine, NewCall, FlowControlRefuses, FlowControlLoads,
     FlowControlStores, Build, FirstWrite, TestIdle, Claim, Point, AssertCS,
     Expect, Handle, Release
<1>2. CASE Interrupts \/ SysTick
  BY <1>2 DEF Interrupts, IntSpiGPIOHandler, SpiIntHandler, SysTick
<1>3. CASE Chip
  BY <1>3 DEF Chip, PowerUp, Offer, Accept, Answer, GiveBack, Unsolicited, Sends
<1>4. CASE UNCHANGED vars
  BY <1>4 DEF vars
<1>5. QED
  BY <1>1, <1>2, <1>3, <1>4 DEF Next

\* The invariant holds at first, and every step keeps it.
LEMMA InitIInv == Init => IInv
<1> SUFFICES ASSUME Init PROVE IInv
  OBVIOUS
<1>1. /\ Count = 0 /\ Len(got) = 0 /\ Len(due) = 0 /\ in = <<>>
      /\ DOMAIN got = {} /\ DOMAIN out = {}
  BY EmptySeq DEF Init
<1>2. /\ issued \in Seq(Call) /\ in \in Seq(Nat) /\ got \in Seq(Seq(Nat))
      /\ due \in Seq(Ops) /\ out \in Seq(EventSet)
  BY EmptySeq DEF Init
<1>3. NoEvent \in EventSet /\ NoCall \in Call
  BY EventTypes
<1>4. ~slTransmitDataError /\ ~socketActive /\ ~usEventOrDataReceived /\ ~cs /\ ~edge /\ intOn
      /\ slTransmitDataError \in BOOLEAN /\ socketActive \in BOOLEAN
      /\ usEventOrDataReceived \in BOOLEAN /\ cs \in BOOLEAN /\ edge \in BOOLEAN
      /\ intOn \in BOOLEAN
  BY Zenon DEF Init
<1>5. /\ env \in Environments
      /\ pc = "power" /\ call = NoCall /\ reg = 0
      /\ usRxEventOpcode = None
      /\ usNumberOfFreeBuffers = 0
      /\ NumberOfSentPackets = 0 /\ NumberOfReleasedPackets = 0
      /\ rx = NoEvent
      /\ ui32SpiState = "POWERUP" /\ ui16TxPacketLength = 0 /\ txbuf = 0
      /\ dma = None
      /\ phase = "off" /\ due = <<>>
      /\ held = 0 /\ events = 0
  BY DEF Init
<1>6. TypeInv
  BY <1>1, <1>2, <1>3, <1>4, <1>5 DEF TypeInv, TypeOK, SpiStates
<1>7. CallInv /\ DriverInv /\ ChipInv /\ ReplyInv
  BY <1>1, <1>4, <1>5 DEF CallInv, DriverInv, ChipInv, ReplyInv
<1>8. SentWhole
  BY <1>1 DEF SentWhole
<1>9. QED
  BY <1>6, <1>7, <1>8 DEF IInv, SteadyInv

\* Its steps.
LEMMA NextIInv == IInv /\ [Next]_vars => IInv'
<1> SUFFICES ASSUME IInv, [Next]_vars PROVE IInv'
  OBVIOUS
<1>1. CASE UNCHANGED vars
  <2>1. TypeInv'
    BY <1>1 DEF vars, IInv, TypeInv, TypeOK
  <2>2. env.steady => SteadyInv'
    BY <1>1, SentStays DEF vars, IInv, SteadyInv, CallInv, DriverInv, ChipInv, ReplyInv
  <2>3. QED
    BY <2>1, <2>2, NextKeepsEnv DEF IInv
<1>2. CASE Next
  <2>1. TypeInv'
    BY <1>2, ChipTypes, InterruptTypes, MainTypes DEF IInv, Next
  <2>2. env.steady => SteadyInv'
    BY <1>2, ChipSteady, SysTickSteady, LineFallsSteady, TransferSteady, MainSteady
    DEF IInv, Next, Interrupts
  <2>3. QED
    BY <2>1, <2>2, NextKeepsEnv DEF IInv
<1>3. QED
  BY <1>1, <1>2

\* IInv is an invariant of the specification.
LEMMA Invariance == Spec => []IInv
<1>1. Init => IInv
  BY InitIInv
<1>2. IInv /\ [Next]_vars => IInv'
  BY NextIInv
<1>3. QED
  BY <1>1, <1>2, PTL DEF Spec

\* The radio driver's state is of its type, in every environment.
THEOREM RadioTypes == Spec => []TypeOK
<1>1. IInv => TypeOK
  BY DEF IInv, TypeInv
<1>2. QED
  BY <1>1, Invariance, PTL

\* Where the chip offers nothing in SpiWrite()'s window, the packets it
\* receives are those of the calls, each whole and in order: neither the one
\* buffer nor the return of SpiWrite() before the packet is sent spoils one.
THEOREM DeliversWhole == Spec => []SentWhole
<1>1. IInv => SentWhole
  BY DEF IInv, SteadyInv, SentWhole
<1>2. QED
  BY <1>1, Invariance, PTL

\* A step begins a call, or hands a packet to the chip, or ends a call that
\* has been executed, or does none of these.
LEMMA CallSteps ==
  ASSUME IInv, env.steady, [Next]_vars
  PROVE  \/ /\ pc \in Before /\ pc' \notin Before
            /\ Count' = Count + 1 /\ Len(got') = Len(got)
         \/ /\ pc \notin Before /\ pc' \notin Before
            /\ Count' = Count /\ Len(got) = Count - 1 /\ Len(got') = Count
         \/ /\ pc \notin Before /\ pc' \in Before
            /\ Count' = Count /\ Len(got) = Count /\ Len(got') = Count
         \/ /\ pc \in Before <=> pc' \in Before
            /\ Count' = Count /\ Len(got') = Len(got)
<1>1. TypeInv /\ SteadyInv /\ Count \in Nat
  BY IssuedTypes DEF IInv
<1>2. CASE Main
  <2>1. CASE Build
    <3>1. /\ pc = "build" /\ pc' = "write" /\ got' = got /\ issued' = Append(issued, call)
      BY <2>1 DEF Build, At, GoTo
    <3>2. Count' = Count + 1
      BY <1>1, <3>1, AppendProperties DEF TypeInv, TypeOK
    <3>3. QED
      BY <3>1, <3>2
  <2>2. CASE FirstWrite
    <3>1. /\ pc = "write" /\ pc' = "expect" /\ issued' = issued
          /\ txbuf = Count /\ Count > 0 /\ Len(got) = Count - 1
          /\ TakePacket(Whole(txbuf))
      BY <1>1, <2>2 DEF FirstWrite, At, GoTo, SteadyInv, CallInv, TypeInv
    <3>2. due = <<>> /\ env' = env
      BY <1>1, <3>1, NextKeepsEnv DEF SteadyInv, ReplyInv
    <3>3. Len(got') = Count
      BY <1>1, <3>1, <3>2, TakeSteady DEF TakenWhole
    <3>4. QED
      BY <3>1, <3>3
  <2>3. CASE Release
    <3>1. /\ pc = "release" /\ pc' \in {"ready", "handle"}
          /\ pc' = "ready" => usRxEventOpcode = None
          /\ UNCHANGED <<issued, got>>
      BY <2>3 DEF Release, At, GoTo
    <3>2. pc' = "ready" => ~Sending
      BY <1>1, <3>1 DEF SteadyInv, ReplyInv
    <3>3. Len(got) \in {Count - 1, Count}
      BY <1>1, <3>1 DEF SteadyInv, CallInv
    <3>4. CASE pc' = "ready"
      <4>1. Len(got) = Count
        BY <1>1, <3>2, <3>3, <3>4
      <4>2. QED
        BY <3>1, <3>4, <4>1
    <3>5. CASE pc' = "handle"
      BY <3>1, <3>5
    <3>6. QED
      BY <3>1, <3>4, <3>5
  <2>4. CASE WaitForLine \/ NewCall \/ FlowControlRefuses \/ FlowControlLoads
             \/ FlowControlStores \/ TestIdle \/ Claim \/ Point \/ AssertCS
             \/ Expect \/ Handle
    <3>1. UNCHANGED <<issued, got>> /\ (pc \in Before <=> pc' \in Before)
      BY <2>4 DEF WaitForLine, NewCall, FlowControlRefuses, FlowControlLoads,
         FlowControlStores, TestIdle, Claim, Point, AssertCS, Expect, Handle, At, GoTo
    <3>2. QED
      BY <3>1
  <2>5. QED
    BY <1>2, <2>1, <2>2, <2>3, <2>4 DEF Main
<1>3. CASE SpiIntHandler
  <2>1. UNCHANGED <<env, app>>
    BY <1>3 DEF SpiIntHandler
  <2>2. CASE HeaderRead \/ RestRead \/ FirstPortionWritten \/ TransferForgotten
    <3>1. got' = got
      BY <2>2 DEF HeaderRead, RestRead, FirstPortionWritten, TransferForgotten,
         TriggerRxProcessing, EndRead
    <3>2. QED
      BY <2>1, <3>1
  <2>3. CASE PacketWritten
    <3>1. UNCHANGED pc /\ pc \in After /\ Len(got) = Count - 1
      BY <1>1, <2>1, <2>3 DEF PacketWritten, SteadyInv, CallInv, DriverInv
    <3>2. SteadyInv' /\ UNCHANGED issued /\ Len(got') \in {Count - 1, Count}
      BY <1>1, <1>3, <2>1, <3>1, TransferSteady DEF SteadyInv, CallInv
    <3>3. QED
      BY <3>1, <3>2
  <2>4. QED
    BY <1>3, <2>2, <2>3 DEF SpiIntHandler
<1>4. CASE IntSpiGPIOHandler \/ SysTick \/ Chip \/ UNCHANGED vars
  <2>1. UNCHANGED <<pc, issued, got>>
    BY <1>4 DEF IntSpiGPIOHandler, SysTick, Chip, PowerUp, Offer, Accept, Answer,
       GiveBack, Unsolicited, Sends, vars
  <2>2. QED
    BY <2>1
<1>5. QED
  BY <1>2, <1>3, <1>4 DEF Next, Interrupts

\* The driver implements the calls of HciCall, in a calm environment: each is
\* executed exactly once by the chip before it returns.
THEOREM CallsSafe == Spec => Calls!SafeSpec
<1> DEFINE I == IF Calm THEN Len(issued) ELSE 0
           E == IF Calm THEN Len(got) ELSE 0
           R == IF ~Calm THEN 0 ELSE IF pc \in Before THEN Len(issued) ELSE Len(issued) - 1
<1>1. Init => Calls!Init
  BY EmptySeq DEF Init, Calls!Init
<1>2. IInv /\ [Next]_vars => [Calls!Next]_(Calls!vars)
  <2> SUFFICES ASSUME IInv, [Next]_vars PROVE [Calls!Next]_(Calls!vars)
    OBVIOUS
  <2>1. Calm' <=> Calm
    BY NextKeepsEnv DEF Calm
  <2>2. CASE ~Calm
    BY <2>1, <2>2 DEF Calls!vars
  <2>3. CASE Calm
    <3>1. /\ I = Count /\ I' = Count' /\ E = Len(got) /\ E' = Len(got')
          /\ R = IF pc \in Before THEN Count ELSE Count - 1
          /\ R' = IF pc' \in Before THEN Count' ELSE Count' - 1
          /\ Count \in Nat /\ Len(got) \in {Count - 1, Count}
          /\ pc \in Before => Len(got) = Count
      BY <2>1, <2>3, IssuedTypes DEF IInv, SteadyInv, CallInv, Calm, TypeInv, TypeOK
    <3> HIDE DEF I, E, R
    <3>2. \/ I' = I + 1 /\ R = I /\ E' = E /\ R' = R
          \/ E' = E + 1 /\ E < I /\ I' = I /\ R' = R
          \/ R' = R + 1 /\ R < E /\ I' = I /\ E' = E
          \/ I' = I /\ E' = E /\ R' = R
      BY <2>3, <3>1, CallSteps DEF Calm
    <3> USE DEF I, E, R
    <3>3. QED
      BY <3>2 DEF Calls!Next, Calls!Issue, Calls!Execute, Calls!Return, Calls!vars
  <2>4. QED
    BY <2>2, <2>3
<1>3. QED
  BY <1>1, <1>2, Invariance, PTL DEF Spec, Calls!SafeSpec

-----------------------------------------------------------------------------
\* The events of a sequence.
LEMMA EventLists ==
  ASSUME NEW s \in Seq(EventSet)
  PROVE  Len(s) \in Nat /\ \A i \in 1 .. Len(s) : s[i] \in EventSet /\ s[i].n \in Nat
<1>1. Len(s) \in Nat /\ \A i \in 1 .. Len(s) : s[i] \in EventSet
  OBVIOUS
<1>2. \A x \in EventSet : x.n \in Nat
  BY DEF EventSet
<1> QED
  BY <1>1, <1>2

\* The buffers given back along a sequence of events: the sum has its running values,
LEMMA GivenSums ==
  ASSUME NEW s \in Seq(EventSet)
  PROVE  \E g \in [0 .. Len(s) -> Nat] :
           g[0] = 0 /\ (\A i \in 1 .. Len(s) : g[i] = g[i - 1] + s[i].n) /\ Given(s) = g[Len(s)]
<1> DEFINE F == [x \in Nat \X EventSet |-> x[1] + x[2].n]
           e(g) == [i \in 0 .. Len(s) |-> IF i = 0 THEN 0 ELSE g[i - 1] + s[i].n]
           h == CHOOSE h : h = e(h)
<1>1. Len(s) \in Nat /\ \A i \in 1 .. Len(s) : s[i] \in EventSet /\ s[i].n \in Nat
  BY EventLists
<1>2. F \in [Nat \X EventSet -> Nat]
  BY DEF EventSet
<1>3. PICK g \in [0 .. Len(s) -> Nat] : Carries(F, 0, s, g)
  <2> HIDE DEF F
  <2> QED
    BY <1>2, LoopExists
<1>4. \A i \in 0 .. Len(s) : g[i] = IF i = 0 THEN 0 ELSE F[<<g[i - 1], s[i]>>]
  <2> HIDE DEF F
  <2> QED
    BY <1>3 DEF Carries
<1>5. \A i \in 1 .. Len(s) : g[i] = g[i - 1] + s[i].n
  <2> SUFFICES ASSUME NEW i \in 1 .. Len(s) PROVE g[i] = g[i - 1] + s[i].n
    OBVIOUS
  <2>1. g[i - 1] \in Nat /\ s[i] \in EventSet
    <3>1. i - 1 \in 0 .. Len(s)
      BY <1>1
    <3> HIDE DEF F
    <3> QED
      BY <1>1, <1>3, <3>1
  <2>2. F[<<g[i - 1], s[i]>>] = g[i - 1] + s[i].n
    BY <2>1
  <2> HIDE DEF F
  <2> QED
    BY <1>1, <1>4, <2>2
<1>6. g[0] = 0
  <2>1. 0 \in 0 .. Len(s)
    BY <1>1
  <2> HIDE DEF F
  <2> QED
    BY <1>4, <2>1
<1> HIDE DEF F
<1>7. g = e(g)
  <2>1. \A i \in 0 .. Len(s) : g[i] = e(g)[i]
    BY <1>1, <1>5, <1>6
  <2> QED
    BY <1>3, <2>1
<1>8. h = e(h)
  <2> HIDE DEF e
  <2> QED
    BY <1>7, Zenon
<1>9. Given(s) = h[Len(s)]
  BY DEF Given
<1>10. h[0] = 0 /\ \A i \in 1 .. Len(s) : h[i] = h[i - 1] + s[i].n
  <2> HIDE DEF h
  <2>1. \A i \in 0 .. Len(s) : h[i] = IF i = 0 THEN 0 ELSE h[i - 1] + s[i].n
    BY <1>8
  <2> QED
    BY <1>1, <2>1
<1> DEFINE I == {i \in 0 .. Len(s) : h[i] = g[i]}
<1> HIDE DEF h
<1>11. I = 0 .. Len(s)
  <2>1. 0 \in I /\ I \subseteq 0 .. Len(s)
    BY <1>1, <1>6, <1>10
  <2>2. ASSUME NEW i \in 0 .. Len(s) - 1, i \in I PROVE i + 1 \in I
    <3>1. i + 1 \in 1 .. Len(s) /\ (i + 1) - 1 = i
      BY <1>1
    <3> QED
      BY <1>5, <1>10, <2>2, <3>1
  <2> HIDE DEF I
  <2> QED
    BY <1>1, <2>1, <2>2, IndexInduction
<1>12. h[Len(s)] = g[Len(s)]
  BY <1>1, <1>11
<1> QED
  BY <1>5, <1>6, <1>9, <1>12

\* and is what any running sum ends with.
LEMMA GivenIs ==
  ASSUME NEW s \in Seq(EventSet), NEW f, f[0] = 0,
         \A i \in 1 .. Len(s) : f[i] = f[i - 1] + s[i].n
  PROVE  Given(s) = f[Len(s)]
<1>1. PICK g \in [0 .. Len(s) -> Nat] :
        g[0] = 0 /\ (\A i \in 1 .. Len(s) : g[i] = g[i - 1] + s[i].n) /\ Given(s) = g[Len(s)]
  BY GivenSums
<1>2. Len(s) \in Nat
  BY LenProperties
<1> DEFINE I == {i \in 0 .. Len(s) : f[i] = g[i]}
<1>3. 0 \in I /\ I \subseteq 0 .. Len(s)
  BY <1>1, <1>2
<1>4. ASSUME NEW i \in 0 .. Len(s) - 1, i \in I PROVE i + 1 \in I
  <2>1. i + 1 \in 1 .. Len(s) /\ (i + 1) - 1 = i
    BY <1>2
  <2> QED
    BY <1>1, <1>4, <2>1
<1>5. I = 0 .. Len(s)
  <2> HIDE DEF I
  <2> QED
    BY <1>2, <1>3, <1>4, IndexInduction
<1> QED
  BY <1>1, <1>2, <1>5

\* An event more adds its buffers, an event read takes them away.
LEMMA GivenSteps ==
  ASSUME NEW s \in Seq(EventSet), NEW e \in EventSet
  PROVE  /\ Given(<<>>) = 0 /\ Given(s) \in Nat
         /\ Given(Append(s, e)) = Given(s) + e.n
         /\ s # <<>> => Given(Tail(s)) = Given(s) - Head(s).n
<1>1. Len(s) \in Nat /\ e.n \in Nat
  BY LenProperties DEF EventSet
<1>2. Given(<<>>) = 0
  <2>1. <<>> \in Seq(EventSet) /\ Len(<<>>) = 0
    BY EmptySeq
  <2> QED
    BY <2>1, GivenSums
<1>3. PICK g \in [0 .. Len(s) -> Nat] :
        g[0] = 0 /\ (\A i \in 1 .. Len(s) : g[i] = g[i - 1] + s[i].n) /\ Given(s) = g[Len(s)]
  BY GivenSums
<1>4. Given(Append(s, e)) = Given(s) + e.n
  <2> DEFINE t == Append(s, e)
  <2>1. /\ t \in Seq(EventSet) /\ Len(t) = Len(s) + 1 /\ t[Len(s) + 1] = e
        /\ \A i \in 1 .. Len(s) : t[i] = s[i]
    BY <1>1, AppendProperties
  <2> HIDE DEF t
  <2>2. PICK h \in [0 .. Len(t) -> Nat] :
          h[0] = 0 /\ (\A i \in 1 .. Len(t) : h[i] = h[i - 1] + t[i].n) /\ Given(t) = h[Len(t)]
    BY <2>1, GivenSums
  <2>3. \A i \in 1 .. Len(s) : h[i] = h[i - 1] + s[i].n
    BY <1>1, <2>1, <2>2
  <2>4. Given(s) = h[Len(s)]
    BY <2>2, <2>3, GivenIs
  <2>5. h[Len(s) + 1] = h[Len(s)] + e.n
    <3>1. Len(s) + 1 \in 1 .. Len(t) /\ (Len(s) + 1) - 1 = Len(s)
      BY <1>1, <2>1
    <3> QED
      BY <2>1, <2>2, <3>1
  <2> QED
    BY <2>1, <2>2, <2>4, <2>5 DEF t
<1>5. s # <<>> => Given(Tail(s)) = Given(s) - Head(s).n
  <2> SUFFICES ASSUME s # <<>> PROVE Given(Tail(s)) = Given(s) - Head(s).n
    OBVIOUS
  <2> DEFINE t == Tail(s)
             f == [i \in 0 .. Len(t) |-> g[i + 1] - s[1].n]
  <2>1. /\ t \in Seq(EventSet) /\ Len(s) = Len(t) + 1 /\ Len(t) \in Nat /\ Head(s) = s[1]
        /\ \A i \in 1 .. Len(t) : t[i] = s[i + 1]
        /\ \A i \in 1 .. Len(s) : s[i].n \in Nat
    <3>1. t \in Seq(EventSet) /\ Len(s) = Len(t) + 1 /\ Len(t) \in Nat /\ Head(s) = s[1]
          /\ \A i \in 1 .. Len(t) : t[i] = s[i + 1]
      BY HeadTailProperties, LenProperties
    <3> QED
      BY <3>1, EventLists
  <2> HIDE DEF t
  <2>2. f[0] = 0
    <3>1. f[0] = g[1] - s[1].n /\ g[1] = g[0] + s[1].n
      <4>1. 1 \in 1 .. Len(s) /\ 1 - 1 = 0 /\ 0 \in 0 .. Len(t) /\ 0 + 1 = 1
        BY <2>1
      <4> QED
        BY <1>3, <4>1
    <3> QED
      BY <1>3, <2>1, <3>1
  <2>3. ASSUME NEW i \in 1 .. Len(t) PROVE f[i] = f[i - 1] + t[i].n
    <3>1. /\ i \in 0 .. Len(t) /\ i - 1 \in 0 .. Len(t) /\ (i - 1) + 1 = i
          /\ i + 1 \in 1 .. Len(s) /\ (i + 1) - 1 = i /\ 1 \in 1 .. Len(s)
      BY <2>1
    <3>2. f[i] = g[i + 1] - s[1].n /\ f[i - 1] = g[i] - s[1].n
      BY <3>1
    <3>3. g[i + 1] = g[i] + t[i].n /\ g[i + 1] \in Nat /\ g[i] \in Nat /\ t[i].n \in Nat /\ s[1].n \in Nat
      BY <1>3, <2>1, <3>1
    <3> QED
      BY <3>2, <3>3
  <2>4. f[Len(t)] = g[Len(s)] - s[1].n
    BY <2>1
  <2> HIDE DEF f
  <2>5. Given(t) = f[Len(t)]
    BY <2>1, <2>2, <2>3, GivenIs
  <2> QED
    BY <1>3, <2>1, <2>4, <2>5 DEF t
<1> QED
  BY <1>1, <1>2, <1>3, <1>4, <1>5

-----------------------------------------------------------------------------
\* The ledger of the chip's buffers.

\* The i-th call, by its operation: the first two are those of wlan_start().
Fits(i, op) == (i = 1 <=> op = "start") /\ (i = 2 <=> op = "size")

\* Which call may do what: only the second sets the count of free buffers, and a send
\* comes after it. Only one kind of event gives buffers back.
OrderInv ==
  /\ \A i \in 1 .. Count : Fits(i, issued[i].op)
  /\ pc \in {"flow", "store"} => Count >= 2 /\ call.op = "send"
  /\ pc = "build" => Fits(Count + 1, call.op)
  /\ usRxEventOpcode # None => usRxEventOpcode = call.op
  /\ \A i \in DOMAIN out : out[i].kind # "free" => out[i].n = 0

\* 1 while a call has taken a buffer that the chip does not yet hold.
Taken == IF pc = "build" /\ call.op = "send" THEN 1 ELSE OnItsWay

\* The host has been told how many buffers the chip has.
Sized ==
  \/ Count > 2
  \/ Count = 2 /\ (pc \in Before \/ (pc = "release" /\ usRxEventOpcode = None))

\* The two balances, and what the decrement and the first calls need.
LedgerInv ==
  /\ pc = "store" => reg = usNumberOfFreeBuffers
  /\ Count <= 2 => held = 0 /\ Coming = 0
  /\ Sized => usNumberOfFreeBuffers + Taken + held + Coming = Buffers
  /\ NumberOfSentPackets - NumberOfReleasedPackets = OnItsWay + held + Coming

AccountInv == env.steady /\ env.whole => OrderInv /\ LedgerInv

\* The amounts of the ledger.
LEMMA Amounts ==
  ASSUME TypeInv
  PROVE  /\ usNumberOfFreeBuffers \in Nat /\ NumberOfSentPackets \in Nat
         /\ NumberOfReleasedPackets \in Nat /\ held \in Nat /\ Coming \in Nat /\ reg \in Nat
         /\ OnItsWay \in {0, 1} /\ Taken \in {0, 1}
         /\ out \in Seq(EventSet) /\ DOMAIN out = 1 .. Len(out) /\ Len(out) \in Nat
<1>1. out \in Seq(EventSet)
  BY DEF TypeInv, TypeOK
<1>2. Coming \in Nat
  BY <1>1, EventTypes, GivenSteps DEF Coming
<1>3. OnItsWay \in {0, 1} /\ Taken \in {0, 1}
  BY DEF OnItsWay, Taken
<1>4. DOMAIN out = 1 .. Len(out) /\ Len(out) \in Nat
  BY <1>1, LenProperties
<1> QED
  BY <1>1, <1>2, <1>3, <1>4 DEF TypeInv, TypeOK

\* A call that has not written its packet finds none on its way.
LEMMA NothingOnItsWay ==
  ASSUME TypeInv, CallInv, pc \in Before
  PROVE  OnItsWay = 0
<1>1. Len(got) = Count /\ Count \in Nat
  BY IssuedTypes DEF CallInv
<1> QED
  BY <1>1 DEF OnItsWay

\* A step that moves no buffer, counts none and begins no call.
LEMMA LedgerStays ==
  ASSUME LedgerInv, UNCHANGED <<issued, got, reg, credits, held, out>>, Taken' = Taken,
         Sized' => Sized, pc' = "store" => pc = "store"
  PROVE  LedgerInv'
<1>1. Coming' = Coming /\ OnItsWay' = OnItsWay
  BY DEF Coming, Given, OnItsWay
<1> QED
  BY <1>1 DEF LedgerInv

\* An event more to offer: what it carries was held.
LEMMA SendsLedger ==
  ASSUME TypeInv, OrderInv, LedgerInv, NEW e \in EventSet, Sends(e),
         e.n <= held, held' = held - e.n, e.kind # "free" => e.n = 0
  PROVE  OrderInv' /\ LedgerInv'
<1>1. UNCHANGED <<app, credits, hci, got>> /\ out' = Append(out, e)
  BY DEF Sends
<1>2. e.n \in Nat
  BY DEF EventSet
<1>3. Coming' = Coming + e.n
  BY <1>1, Amounts, GivenSteps DEF Coming
<1>4. OnItsWay' = OnItsWay /\ Taken' = Taken /\ (Sized' <=> Sized)
  BY <1>1 DEF OnItsWay, Taken, Sized
<1>5. LedgerInv'
  <2>1. held = 0 /\ Coming = 0 => held' = 0 /\ Coming' = 0
    BY <1>2, <1>3, Amounts
  <2>2. NumberOfSentPackets - NumberOfReleasedPackets = OnItsWay + (held - e.n) + (Coming + e.n)
    <3>1. NumberOfSentPackets - NumberOfReleasedPackets = OnItsWay + held + Coming
      BY DEF LedgerInv
    <3>2. OnItsWay + (held - e.n) + (Coming + e.n) = OnItsWay + held + Coming
      <4>1. OnItsWay \in Nat /\ held \in Nat /\ Coming \in Nat
        BY Amounts
      <4> QED
        BY <1>2, <4>1
    <3> QED
      BY <3>1, <3>2
  <2>3. Sized => usNumberOfFreeBuffers + Taken + (held - e.n) + (Coming + e.n) = Buffers
    <3>1. Sized => usNumberOfFreeBuffers + Taken + held + Coming = Buffers
      BY DEF LedgerInv
    <3>2. usNumberOfFreeBuffers + Taken + (held - e.n) + (Coming + e.n)
            = usNumberOfFreeBuffers + Taken + held + Coming
      <4>1. usNumberOfFreeBuffers \in Nat /\ Taken \in Nat /\ held \in Nat /\ Coming \in Nat
        BY Amounts
      <4> QED
        BY <1>2, <4>1
    <3> QED
      BY <3>1, <3>2
  <2> QED
    BY <1>1, <1>3, <1>4, <2>1, <2>2, <2>3 DEF LedgerInv
<1>6. \A i \in DOMAIN out' : out'[i].kind # "free" => out'[i].n = 0
  BY <1>1, Amounts, AppendProperties DEF OrderInv
<1>7. OrderInv'
  BY <1>1, <1>6 DEF OrderInv, Fits
<1> QED
  BY <1>5, <1>7

\* The chip's steps.
LEMMA ChipLedger ==
  ASSUME TypeInv, OrderInv, LedgerInv, Chip
  PROVE  OrderInv' /\ LedgerInv'
<1>1. CASE PowerUp \/ Offer \/ Accept
  <2>1. UNCHANGED <<app, credits, hci, got, held, out>>
    BY <1>1 DEF PowerUp, Offer, Accept
  <2>2. Taken' = Taken /\ (Sized' <=> Sized)
    BY <2>1 DEF Taken, Sized, OnItsWay
  <2>3. OrderInv'
    BY <2>1 DEF OrderInv, Fits
  <2> QED
    BY <2>1, <2>2, <2>3, LedgerStays
<1>2. CASE Answer
  <2>1. due # <<>> /\ Head(due) \in Ops
    BY <1>2, HeadTailProperties DEF Answer, TypeInv, TypeOK
  <2>2. \/ Sends(Event("reply", Head(due), 0))
        \/ Sends(Event("inactive", "send", 0))
    BY <1>2 DEF Answer
  <2>3. /\ Event("reply", Head(due), 0) \in EventSet
        /\ Event("inactive", "send", 0) \in EventSet
    BY <2>1, EventTypes DEF Ops
  <2>4. Event("reply", Head(due), 0).n = 0 /\ Event("inactive", "send", 0).n = 0
    BY DEF Event
  <2>5. held' = held - 0 /\ 0 <= held
    BY <1>2, Amounts DEF Answer
  <2> QED
    BY <2>2, <2>3, <2>4, <2>5, SendsLedger
<1>3. CASE GiveBack
  <2>1. PICK n \in 1 .. held : held' = held - n /\ Sends(Event("free", None, n))
    BY <1>3 DEF GiveBack
  <2>2. n \in Nat /\ n <= held
    BY <2>1, Amounts
  <2>3. /\ Event("free", None, n) \in EventSet
        /\ Event("free", None, n).n = n /\ Event("free", None, n).kind = "free"
    BY <2>2, EventTypes DEF Event
  <2> QED
    BY <2>1, <2>2, <2>3, SendsLedger
<1>4. CASE Unsolicited
  <2>1. PICK kind \in {"unsol", "other", "garbage"} : Sends(Event(kind, None, 0))
    BY <1>4 DEF Unsolicited
  <2>2. Event(kind, None, 0) \in EventSet /\ Event(kind, None, 0).n = 0
    BY <2>1, EventTypes DEF Event
  <2>3. held' = held - 0 /\ 0 <= held
    BY <1>4, Amounts DEF Unsolicited
  <2> QED
    BY <2>1, <2>2, <2>3, SendsLedger
<1> QED
  BY <1>1, <1>2, <1>3, <1>4 DEF Chip

\* An event has been read: what it carries is counted, and comes no more.
LEMMA ReadLedger ==
  ASSUME TypeInv, OrderInv, LedgerInv, NEW e \in EventSet, phase = "offer", e = Head(out),
         TriggerRxProcessing(e), pc = "store" => e.kind # "free",
         UNCHANGED <<app, usRxEventOpcode>>
  PROVE  OrderInv' /\ LedgerInv'
<1>1. out' = Tail(out) /\ out # <<>> /\ UNCHANGED <<got, held>>
  BY DEF TriggerRxProcessing, EndRead, TypeInv
<1>2. Coming' = Coming - e.n /\ Coming' \in Nat /\ e.n \in Nat
  <2>1. Tail(out) \in Seq(EventSet) /\ e.n \in Nat
    BY <1>1, Amounts, HeadTailProperties DEF EventSet
  <2>2. Given(Tail(out)) = Given(out) - e.n /\ Given(Tail(out)) \in Nat
    BY <1>1, <2>1, Amounts, GivenSteps
  <2> QED
    BY <1>1, <2>1, <2>2 DEF Coming
<1>3. e.kind # "free" => e.n = 0
  <2>1. 1 \in DOMAIN out /\ out[1] = e
    BY <1>1, Amounts, HeadTailProperties
  <2> QED
    BY <2>1 DEF OrderInv
<1>4. /\ usNumberOfFreeBuffers' = usNumberOfFreeBuffers + e.n
      /\ NumberOfReleasedPackets' = NumberOfReleasedPackets + e.n
      /\ NumberOfSentPackets' = NumberOfSentPackets
  <2>1. CASE e.kind = "garbage"
    BY <1>3, <2>1, Amounts DEF TriggerRxProcessing
  <2>2. CASE e.kind # "garbage"
    <3>1. FlowControlEvent(e)
      BY <2>2 DEF TriggerRxProcessing, Receive
    <3> QED
      BY <1>3, <3>1 DEF FlowControlEvent
  <2> QED
    BY <2>1, <2>2
<1>5. OnItsWay' = OnItsWay /\ Taken' = Taken /\ (Sized' <=> Sized)
  BY <1>1 DEF OnItsWay, Taken, Sized
<1>6. LedgerInv'
  <2>1. Coming = 0 => Coming' = 0
    BY <1>2, Amounts
  <2>2. NumberOfSentPackets - (NumberOfReleasedPackets + e.n) = OnItsWay + held + (Coming - e.n)
    <3>1. NumberOfSentPackets - NumberOfReleasedPackets = OnItsWay + held + Coming
      BY DEF LedgerInv
    <3>2. NumberOfSentPackets - (NumberOfReleasedPackets + e.n)
            = (NumberOfSentPackets - NumberOfReleasedPackets) - e.n
      BY <1>2, Amounts
    <3>3. OnItsWay + held + (Coming - e.n) = (OnItsWay + held + Coming) - e.n
      <4>1. OnItsWay \in Nat /\ held \in Nat /\ Coming \in Nat
        BY Amounts
      <4> QED
        BY <1>2, <4>1
    <3> QED
      BY <3>1, <3>2, <3>3
  <2>3. Sized => (usNumberOfFreeBuffers + e.n) + Taken + held + (Coming - e.n) = Buffers
    <3>1. Sized => usNumberOfFreeBuffers + Taken + held + Coming = Buffers
      BY DEF LedgerInv
    <3>2. (usNumberOfFreeBuffers + e.n) + Taken + held + (Coming - e.n)
            = usNumberOfFreeBuffers + Taken + held + Coming
      <4>1. usNumberOfFreeBuffers \in Nat /\ Taken \in Nat /\ held \in Nat /\ Coming \in Nat
        BY Amounts
      <4> QED
        BY <1>2, <4>1
    <3> QED
      BY <3>1, <3>2
  <2>4. pc' = "store" => reg' = usNumberOfFreeBuffers'
    BY <1>2, <1>3, <1>4, Amounts DEF LedgerInv
  <2> QED
    BY <1>1, <1>2, <1>4, <1>5, <2>1, <2>2, <2>3, <2>4 DEF LedgerInv
<1>7. \A i \in DOMAIN out' : out'[i].kind # "free" => out'[i].n = 0
  <2>1. \A i \in DOMAIN out' : i + 1 \in DOMAIN out /\ out'[i] = out[i + 1]
    BY <1>1, Amounts, HeadTailProperties, LenProperties
  <2> QED
    BY <2>1 DEF OrderInv
<1>8. OrderInv'
  BY <1>1, <1>7 DEF OrderInv, Fits
<1> QED
  BY <1>6, <1>8

\* The chip takes the packet of a call: a buffer on its way is held.
LEMMA TakeLedger ==
  ASSUME TypeInv, OrderInv, LedgerInv, Count > 0, Len(got) = Count - 1,
         pc \notin Before, pc' \in After, pc' # "release" \/ pc' = pc,
         TakePacket(Whole(Count)),
         UNCHANGED <<issued, call, reg, credits, usRxEventOpcode>>
  PROVE  OrderInv' /\ LedgerInv'
<1>1. Count \in 1 .. Count /\ Count \in DOMAIN issued /\ Count \in Nat /\ Count' = Count
  BY IssuedTypes
<1>2. Whole(Count)[1] = Count /\ Whole(Count) \in Seq(Nat)
  BY <1>1, WholePackets
<1>3. /\ got' = Append(got, Whole(Count)) /\ UNCHANGED out
      /\ held' = IF issued[Count].op = "send" THEN held + 1 ELSE held
  BY <1>1, <1>2 DEF TakePacket
<1>4. Len(got') = Count
  BY <1>1, <1>2, <1>3, AppendProperties DEF TypeInv, TypeOK
<1>5. /\ OnItsWay = IF issued[Count].op = "send" THEN 1 ELSE 0
      /\ OnItsWay' = 0 /\ Taken = OnItsWay /\ Taken' = 0
  BY <1>1, <1>4 DEF OnItsWay, Taken
<1>6. Coming' = Coming
  BY <1>3 DEF Coming, Given
<1>7. Fits(Count, issued[Count].op)
  BY <1>1 DEF OrderInv
<1>8. Count <= 2 => issued[Count].op # "send"
  BY <1>1, <1>7 DEF Fits
<1>9. Sized' => Sized
  BY <1>1 DEF Sized
<1>10. LedgerInv'
  <2>1. held' = held + OnItsWay
    BY <1>3, <1>5, Amounts
  <2>2. NumberOfSentPackets' - NumberOfReleasedPackets' = OnItsWay' + held' + Coming'
    BY <1>5, <1>6, <2>1, Amounts DEF LedgerInv
  <2>3. Sized' => usNumberOfFreeBuffers' + Taken' + held' + Coming' = Buffers
    BY <1>5, <1>6, <1>9, <2>1, Amounts DEF LedgerInv
  <2>4. Count <= 2 => held' = held
    BY <1>3, <1>8
  <2> QED
    BY <1>1, <1>6, <2>2, <2>3, <2>4 DEF LedgerInv
<1>11. OrderInv'
  BY <1>1, <1>3 DEF OrderInv, Fits
<1> QED
  BY <1>10, <1>11

\* The interrupts.
LEMMA InterruptLedger ==
  ASSUME TypeInv, SteadyInv, OrderInv, LedgerInv, env.steady, env.whole,
         Interrupts \/ SysTick
  PROVE  OrderInv' /\ LedgerInv'
<1>1. ASSUME UNCHANGED <<app, credits, usRxEventOpcode, got, held, out>>
      PROVE  OrderInv' /\ LedgerInv'
  <2>1. Taken' = Taken /\ (Sized' <=> Sized)
    BY <1>1 DEF Taken, Sized, OnItsWay
  <2>2. OrderInv'
    BY <1>1 DEF OrderInv, Fits
  <2> QED
    BY <1>1, <2>1, <2>2, LedgerStays
<1>2. CASE SysTick
  <2>1. usEventOrDataReceived /\ Receive(rx) /\ UNCHANGED <<app, usRxEventOpcode, chip>>
    BY <1>2 DEF SysTick
  <2>2. rx.kind # "free"
    BY <2>1 DEF SteadyInv, ReplyInv
  <2>3. UNCHANGED credits
    BY <2>1, <2>2, Amounts DEF Receive, FlowControlEvent
  <2> QED
    BY <1>1, <2>1, <2>3
<1>3. CASE IntSpiGPIOHandler
  <2>1. UNCHANGED <<app, credits, usRxEventOpcode, got, held, out>>
    BY <1>3 DEF IntSpiGPIOHandler
  <2> QED
    BY <1>1, <2>1
<1>4. CASE SpiIntHandler
  <2>1. /\ UNCHANGED <<app, usRxEventOpcode>> /\ TransferEnds /\ txbuf = Count
        /\ out \in Seq(EventSet) /\ rx \in EventSet
    BY <1>4 DEF SpiIntHandler, TypeInv, TypeOK
  <2>2. CASE HeaderRead
    <3>1. ui32SpiState = "READ_IRQ" /\ phase = "offer" /\ out # <<>>
      BY <2>2 DEF HeaderRead, SteadyInv, ChipInv, TypeInv
    <3>2. Head(out) \in EventSet
      BY <2>1, <3>1, OutTypes
    <3>3. CASE Head(out).kind \in {"unsol", "garbage"}
      <4>1. TriggerRxProcessing(Head(out))
        BY <2>2, <3>1, <3>3 DEF HeaderRead
      <4> QED
        BY <2>1, <3>1, <3>2, <3>3, <4>1, ReadLedger
    <3>4. CASE Head(out).kind \notin {"unsol", "garbage"}
      <4>1. UNCHANGED <<credits, got, held, out>>
        BY <2>2, <3>1, <3>4 DEF HeaderRead
      <4> QED
        BY <1>1, <2>1, <4>1
    <3> QED
      BY <3>3, <3>4
  <2>3. CASE RestRead
    <3>1. /\ ui32SpiState = "READ_EOT" /\ phase = "offer" /\ rx = Head(out)
          /\ TriggerRxProcessing(rx)
      BY <2>3 DEF RestRead, SteadyInv, ChipInv
    <3>2. pc = "store" => rx.kind # "free"
      BY <2>1, Zenon DEF TransferEnds
    <3> QED
      BY <2>1, <3>1, <3>2, ReadLedger
  <2>4. CASE FirstPortionWritten
    <3>1. UNCHANGED <<credits, got, held, out>>
      BY <2>4 DEF FirstPortionWritten
    <3> QED
      BY <1>1, <2>1, <3>1
  <2>5. CASE PacketWritten
    <3>1. ui32SpiState = "WRITE_EOT" /\ UNCHANGED credits
      BY <2>5 DEF PacketWritten
    <3>2. /\ pc \in After /\ Sending /\ Count > 0 /\ Len(got) = Count - 1
          /\ ui16TxPacketLength = call.len /\ call.len \in {1, 2} /\ dma = "write"
          /\ issued[Count] = call
      BY <3>1 DEF SteadyInv, CallInv, DriverInv, TypeInv, TypeOK, Call
    <3>3. cs /\ in = IF call.len = 2 THEN <<Count>> ELSE <<>>
      BY <3>1, <3>2 DEF SteadyInv, ChipInv
    <3>4. Received = Whole(Count)
      <4>1. Count \in 1 .. Count
        BY <3>2, IssuedTypes
      <4>2. Whole(Count) = IF call.len = 1 THEN <<Count>> ELSE <<Count, Count>>
        BY <3>2, <4>1, WholePackets
      <4>3. Received = Append(in, Count)
        BY <2>1, <3>2, <3>3 DEF Received
      <4> QED
        BY <3>2, <3>3, <4>1, <4>2, <4>3
    <3>5. TakePacket(Whole(Count))
      BY <2>5, <3>3, <3>4 DEF PacketWritten
    <3> QED
      BY <2>1, <3>1, <3>2, <3>5, TakeLedger
  <2>6. CASE TransferForgotten
    <3>1. UNCHANGED <<credits, got, held, out>>
      BY <2>6 DEF TransferForgotten
    <3> QED
      BY <1>1, <2>1, <3>1
  <2> QED
    BY <1>4, <2>2, <2>3, <2>4, <2>5, <2>6 DEF SpiIntHandler
<1> QED
  BY <1>2, <1>3, <1>4 DEF Interrupts

\* Which call comes next.
LEMMA CallsInOrder ==
  ASSUME Count \in Nat, NEW op \in NextOps
  PROVE  Fits(Count + 1, op) /\ (op = "send" => Count >= 2)
<1>1. Count = 0 => op = "start"
  BY DEF NextOps
<1>2. Count = 1 => op = "size"
  <2> SUFFICES ASSUME Len(issued) = 1 PROVE op = "size"
    OBVIOUS
  <2>1. Len(issued) # 0
    OBVIOUS
  <2> QED
    BY <2>1, Zenon DEF NextOps
<1>3. Count # 0 /\ Count # 1 => op \in {"socket", "send", "close"}
  BY Zenon DEF NextOps
<1> HIDE DEF Count
<1>4. Count = 0 \/ Count = 1 \/ Count >= 2
  OBVIOUS
<1> QED
  BY <1>1, <1>2, <1>3, <1>4 DEF Fits

\* main()'s steps.
LEMMA MainLedger ==
  ASSUME TypeInv, SteadyInv, OrderInv, LedgerInv, Main
  PROVE  OrderInv' /\ LedgerInv'
<1>0. /\ Count \in Nat /\ issued \in Seq(Call) /\ call \in Call
      /\ pc \in Before => OnItsWay = 0
  BY IssuedTypes, NothingOnItsWay DEF SteadyInv, TypeInv, TypeOK
<1>1. CASE WaitForLine \/ FlowControlRefuses \/ TestIdle \/ Claim \/ Point \/ AssertCS \/ Expect
  <2>1. /\ UNCHANGED <<call, issued, reg, credits, got, held, out>>
        /\ pc # "build" /\ pc' \notin {"flow", "store", "build", "release"}
        /\ pc' \in Before => pc \in Before
        /\ usRxEventOpcode' \in {usRxEventOpcode, call.op}
    BY <1>1 DEF WaitForLine, FlowControlRefuses, TestIdle, Claim, Point, AssertCS, Expect, At, GoTo
  <2>2. OnItsWay' = OnItsWay
    BY <2>1 DEF OnItsWay
  <2>3. Taken' = Taken /\ (Sized' => Sized)
    BY <2>1, <2>2 DEF Taken, Sized
  <2>4. OrderInv'
    BY <2>1 DEF OrderInv, Fits
  <2> QED
    BY <2>1, <2>3, <2>4, LedgerStays
<1>2. CASE NewCall
  <2>1. /\ pc = "ready" /\ pc' = (IF call'.op = "send" THEN "flow" ELSE "build")
        /\ call'.op \in NextOps
        /\ UNCHANGED <<issued, reg, credits, usRxEventOpcode, got, held, out>>
    BY <1>2 DEF NewCall, At, GoTo
  <2>2. call'.op = "send" => Count >= 2
    BY <1>0, <2>1, CallsInOrder
  <2>3. Fits(Count + 1, call'.op)
    BY <1>0, <2>1, CallsInOrder
  <2>4. usRxEventOpcode = None
    BY <2>1 DEF SteadyInv, CallInv
  <2>5. OrderInv'
    BY <2>1, <2>2, <2>3, <2>4 DEF OrderInv, Fits
  <2>6. OnItsWay' = OnItsWay
    BY <2>1 DEF OnItsWay
  <2>7. Taken' = Taken /\ (Sized' => Sized)
    BY <2>1, <2>6 DEF Taken, Sized
  <2> QED
    BY <2>1, <2>5, <2>7, LedgerStays
<1>3. CASE FlowControlLoads
  <2>1. /\ pc = "flow" /\ pc' = "store" /\ reg' = usNumberOfFreeBuffers
        /\ UNCHANGED <<call, issued, credits, usRxEventOpcode, got, held, out>>
    BY <1>3 DEF FlowControlLoads, At, GoTo
  <2>2. OnItsWay' = OnItsWay /\ Coming' = Coming
    BY <2>1 DEF OnItsWay, Coming, Given
  <2>3. Taken' = Taken /\ (Sized' => Sized)
    BY <2>1, <2>2 DEF Taken, Sized
  <2>4. OrderInv'
    BY <2>1 DEF OrderInv, Fits
  <2>5. LedgerInv'
    BY <2>1, <2>2, <2>3 DEF LedgerInv
  <2> QED
    BY <2>4, <2>5
<1>4. CASE FlowControlStores
  <2>1. /\ pc = "store" /\ pc' = "build" /\ usNumberOfFreeBuffers' = reg - 1
        /\ UNCHANGED <<call, issued, reg, NumberOfSentPackets, NumberOfReleasedPackets,
                       usRxEventOpcode, got, held, out>>
    BY <1>4 DEF FlowControlStores, At, GoTo
  <2>2. OnItsWay' = OnItsWay /\ Coming' = Coming
    BY <2>1 DEF OnItsWay, Coming, Given
  <2>3. Count >= 2 /\ call.op = "send" /\ reg = usNumberOfFreeBuffers
    BY <2>1 DEF OrderInv, LedgerInv
  <2>4. Taken = 0 /\ Taken' = 1 /\ Sized
    <3>1. Count = 2 \/ Count > 2
      <4> HIDE DEF Count
      <4> QED
        BY <1>0, <2>3
    <3>2. Sized
      BY <2>1, <3>1, Zenon DEF Sized
    <3>3. Taken = 0 /\ Taken' = 1
      BY <1>0, <2>1, <2>3 DEF Taken
    <3> QED
      BY <3>2, <3>3
  <2>5. usNumberOfFreeBuffers' + Taken' + held' + Coming' = Buffers
    <3>1. usNumberOfFreeBuffers + 0 + held + Coming = Buffers
      BY <2>4 DEF LedgerInv
    <3>2. usNumberOfFreeBuffers \in Nat /\ held \in Nat /\ Coming \in Nat
      BY Amounts
    <3>3. (usNumberOfFreeBuffers - 1) + 1 + held + Coming = Buffers
      BY <3>1, <3>2
    <3> QED
      BY <2>1, <2>2, <2>3, <2>4, <3>3
  <2>6. LedgerInv'
    BY <2>1, <2>2, <2>5 DEF LedgerInv
  <2>7. Fits(Count + 1, "send")
    BY <1>0, <2>3 DEF Fits
  <2>8. OrderInv'
    BY <2>1, <2>3, <2>7 DEF OrderInv, Fits
  <2> QED
    BY <2>6, <2>8
<1>5. CASE Build
  <2>1. /\ pc = "build" /\ pc' = "write" /\ issued' = Append(issued, call)
        /\ NumberOfSentPackets' = NumberOfSentPackets + IF call.op = "send" THEN 1 ELSE 0
        /\ UNCHANGED <<call, reg, usNumberOfFreeBuffers, NumberOfReleasedPackets,
                       usRxEventOpcode, got, held, out>>
    BY <1>5 DEF Build, At, GoTo
  <2>2. /\ Count' = Count + 1 /\ issued'[Count + 1] = call
        /\ \A i \in 1 .. Count : issued'[i] = issued[i]
    BY <1>0, <2>1, AppendProperties
  <2>3. Len(got) = Count /\ Len(got') = Count
    BY <2>1 DEF SteadyInv, CallInv
  <2>4. /\ OnItsWay = 0 /\ OnItsWay' = (IF call.op = "send" THEN 1 ELSE 0)
        /\ Taken' = OnItsWay' /\ Taken = Taken'
    BY <1>0, <2>1, <2>2, <2>3 DEF OnItsWay, Taken
  <2>5. Coming' = Coming
    BY <2>1 DEF Coming, Given
  <2>6. (Sized' => Sized) /\ (Count' <= 2 => Count <= 2)
    <3>1. /\ Count' > 2 => Count > 2 \/ Count = 2
          /\ Count' <= 2 => Count <= 2
      <4> HIDE DEF Count
      <4> QED
        BY <1>0, <2>2
    <3>2. Sized' => Count' > 2
      BY <2>1 DEF Sized
    <3>3. Count > 2 \/ Count = 2 => Sized
      BY <2>1, Zenon DEF Sized
    <3> QED
      BY <3>1, <3>2, <3>3
  <2>7. NumberOfSentPackets' - NumberOfReleasedPackets' = OnItsWay' + held' + Coming'
    <3>1. NumberOfSentPackets - NumberOfReleasedPackets = 0 + held + Coming
      BY <2>4 DEF LedgerInv
    <3>2. /\ NumberOfSentPackets \in Nat /\ NumberOfReleasedPackets \in Nat
          /\ held \in Nat /\ Coming \in Nat
      BY Amounts
    <3>3. \A n \in Nat : (NumberOfSentPackets + n) - NumberOfReleasedPackets = n + held + Coming
      BY <3>1, <3>2
    <3> QED
      BY <2>1, <2>4, <2>5, <3>3
  <2>8. LedgerInv'
    BY <2>1, <2>4, <2>5, <2>6, <2>7 DEF LedgerInv
  <2>9. \A i \in 1 .. Count' : Fits(i, issued'[i].op)
    <3>1. Fits(Count + 1, call.op)
      BY <2>1 DEF OrderInv
    <3>2. \A i \in 1 .. Count' : i \in 1 .. Count \/ i = Count + 1
      BY <1>0, <2>2
    <3> QED
      BY <2>2, <3>1, <3>2 DEF OrderInv
  <2>10. OrderInv'
    BY <2>1, <2>9 DEF OrderInv, Fits
  <2> QED
    BY <2>8, <2>10
<1>6. CASE FirstWrite
  <2>1. /\ pc = "write" /\ pc' = "expect" /\ TakePacket(Whole(Count))
        /\ UNCHANGED <<issued, call, reg, credits, usRxEventOpcode>>
    BY <1>6 DEF FirstWrite, At, GoTo, TypeInv
  <2>2. Count > 0 /\ Len(got) = Count - 1
    BY <2>1 DEF SteadyInv, CallInv, TypeInv
  <2> QED
    BY <2>1, <2>2, TakeLedger
<1>7. CASE Handle
  <2> DEFINE awaited == rx.kind = "reply" /\ rx.op = usRxEventOpcode
  <2>1. /\ pc = "handle" /\ pc' = "release"
        /\ usRxEventOpcode' = IF awaited THEN None ELSE usRxEventOpcode
        /\ usNumberOfFreeBuffers' =
             IF awaited /\ rx.op = "size" THEN Buffers ELSE usNumberOfFreeBuffers
        /\ UNCHANGED <<call, issued, reg, NumberOfSentPackets, NumberOfReleasedPackets,
                       got, held, out>>
    BY <1>7 DEF Handle, At, GoTo
  <2>2. usRxEventOpcode = call.op /\ call = issued[Count] /\ Count > 0 /\ Count \in 1 .. Count
    BY <1>0, <2>1 DEF SteadyInv, CallInv, OrderInv, TypeInv
  <2>3. Fits(Count, call.op)
    BY <2>2 DEF OrderInv
  <2>4. OnItsWay' = OnItsWay /\ Coming' = Coming
    BY <2>1 DEF OnItsWay, Coming, Given
  <2>5. Taken' = OnItsWay /\ Taken = OnItsWay
    BY <2>1, <2>4 DEF Taken
  <2>6. OrderInv'
    BY <2>1, <2>2 DEF OrderInv, Fits
  <2>7. Sized' => usNumberOfFreeBuffers' + Taken' + held' + Coming' = Buffers
    <3>1. CASE awaited /\ rx.op = "size"
      <4>1. call.op = "size" /\ Count = 2
        BY <2>2, <2>3, <3>1 DEF Fits
      <4>2. OnItsWay = 0 /\ held = 0 /\ Coming = 0
        BY <2>2, <4>1 DEF OnItsWay, LedgerInv
      <4>3. usNumberOfFreeBuffers' = Buffers
        BY <2>1, <3>1
      <4> QED
        BY <2>1, <2>4, <2>5, <4>2, <4>3
    <3>2. CASE ~(awaited /\ rx.op = "size")
      <4>1. usNumberOfFreeBuffers' = usNumberOfFreeBuffers
        BY <2>1, <3>2
      <4>2. Sized' => Sized
        <5>1. SUFFICES ASSUME Count = 2, usRxEventOpcode' = None PROVE FALSE
          BY <2>1 DEF Sized
        <5>2. call.op = "size"
          BY <2>3, <5>1 DEF Fits
        <5> QED
          BY <2>1, <2>2, <3>2, <5>1, <5>2
      <4> QED
        BY <2>1, <2>4, <2>5, <4>1, <4>2 DEF LedgerInv
    <3> QED
      BY <3>1, <3>2
  <2>8. LedgerInv'
    BY <2>1, <2>4, <2>7 DEF LedgerInv
  <2> QED
    BY <2>6, <2>8
<1>8. CASE Release
  <2>1. /\ pc = "release"
        /\ pc' = (IF usRxEventOpcode = None THEN "ready" ELSE "handle")
        /\ UNCHANGED <<call, issued, reg, credits, usRxEventOpcode, got, held, out>>
    BY <1>8 DEF Release, At, GoTo
  <2>2. OnItsWay' = OnItsWay
    BY <2>1 DEF OnItsWay
  <2>3. Taken' = Taken /\ (Sized' => Sized)
    BY <2>1, <2>2 DEF Taken, Sized
  <2>4. OrderInv'
    BY <2>1 DEF OrderInv, Fits
  <2> QED
    BY <2>1, <2>3, <2>4, LedgerStays
<1> QED
  BY <1>1, <1>2, <1>3, <1>4, <1>5, <1>6, <1>7, <1>8 DEF Main

\* The ledger is kept from the start on.
LEMMA Accounted == Spec => []AccountInv
<1>1. Init => AccountInv
  <2> SUFFICES ASSUME Init PROVE OrderInv /\ LedgerInv
    BY DEF AccountInv
  <2>1. /\ pc = "power" /\ issued = <<>> /\ got = <<>> /\ out = <<>> /\ held = 0
        /\ usRxEventOpcode = None /\ NumberOfSentPackets = 0 /\ NumberOfReleasedPackets = 0
    BY DEF Init
  <2>2. Count = 0 /\ Len(got) = 0 /\ DOMAIN out = {}
    BY <2>1, EmptySeq
  <2>3. Coming = 0
    BY <2>1, EmptySeq, EventTypes, GivenSteps DEF Coming
  <2>4. OnItsWay = 0 /\ ~Sized
    BY <2>2 DEF OnItsWay, Sized
  <2> QED
    BY <2>1, <2>2, <2>3, <2>4 DEF OrderInv, LedgerInv
<1>2. IInv /\ AccountInv /\ [Next]_vars => AccountInv'
  <2> SUFFICES ASSUME IInv, AccountInv, [Next]_vars, env'.steady, env'.whole
               PROVE  OrderInv' /\ LedgerInv'
    BY DEF AccountInv
  <2>1. env.steady /\ env.whole
    BY NextKeepsEnv
  <2>2. TypeInv /\ SteadyInv /\ OrderInv /\ LedgerInv
    BY <2>1, Zenon DEF IInv, AccountInv
  <2>3. CASE UNCHANGED vars
    <3>1. UNCHANGED <<app, credits, usRxEventOpcode, got, held, out>>
      BY <2>3 DEF vars
    <3>2. OnItsWay' = OnItsWay
      BY <3>1 DEF OnItsWay
    <3>3. Taken' = Taken /\ (Sized' => Sized)
      BY <3>1, <3>2 DEF Taken, Sized
    <3>4. OrderInv'
      BY <2>2, <3>1 DEF OrderInv, Fits
    <3> QED
      BY <2>2, <3>1, <3>3, <3>4, LedgerStays
  <2>4. CASE Next
    BY <2>1, <2>2, <2>4, ChipLedger, InterruptLedger, MainLedger DEF Next
  <2> QED
    BY <2>3, <2>4
<1> QED
  BY <1>1, <1>2, Invariance, PTL DEF Spec

\* No buffer of the chip is lost or invented between the two processors, for any number
\* of buffers, calls and events, if the chip stays off the claim and the decrement.
THEOREM NoBufferLost == Spec => []BuffersAccounted
<1>1. AccountInv => BuffersAccounted
  <2> SUFFICES ASSUME env.steady, env.whole, LedgerInv PROVE BuffersAccounted
    BY DEF AccountInv, BuffersAccounted
  <2>1. Taken = IF pc = "build" /\ call.op = "send" THEN 1 ELSE OnItsWay
    BY DEF Taken
  <2> QED
    BY <2>1 DEF LedgerInv, Sized, BuffersAccounted
<1>2. QED
  BY <1>1, Accounted, PTL
=============================================================================
