------------------------------- MODULE Cc3000 -------------------------------
(***************************************************************************)
(* The host side of the CC3000 radio: socket and command calls, the HCI    *)
(* event handler and the SPI driver below them (socket.c, wlan.c, hci.c,   *)
(* evnt_handler.c, spi-tm4c129.c, board.c).                                *)
(*                                                                         *)
(* main() runs the calls, a statement that shares state at a time. No call *)
(* of IntPrioritySet is made, so the three interrupt handlers (the chip's  *)
(* line, the SSI, SysTick) never nest: each is one step between two of     *)
(* main()'s. The DMA is done with a portion when its interrupt is taken.   *)
(*                                                                         *)
(* The chip is external: it answers what the driver's handshakes ask. It   *)
(* lowers its line to offer an event, or after chip select to accept a     *)
(* packet, and releases it when chip select rises.                         *)
(***************************************************************************)
EXTENDS Integers, Sequences

CONSTANTS
  MaxCalls,      \* bound: calls, of which the first two start the chip
  MaxEvents,     \* bound: events the chip sends on its own account
  Buffers,       \* transmit buffers of the chip
  MaxPortions,   \* bound: portions under one chip select
  Environments   \* what may happen, one record of each kind below

\* steady:  the chip offers nothing between SpiWrite()'s test and its claim
\* patient: a reply comes only once main() has said which one it awaits; that of
\*          a send may come before
\* whole:   no buffer is given back within usNumberOfFreeBuffers--
\* alive:   the socket stays active
\* clean:   every header is well formed and of a known event
Environment == [steady : BOOLEAN, patient : BOOLEAN, whole : BOOLEAN,
                alive : BOOLEAN, clean : BOOLEAN]

ASSUME Cc3000Assumption ==
  /\ MaxCalls \in Nat
  /\ MaxEvents \in Nat
  /\ MaxPortions \in Nat \ {0, 1}
  /\ Buffers \in Nat \ {0}
  /\ Environments \subseteq Environment

VARIABLES
  env,
  \* main(), in one of the calls
  pc, call, issued,
  reg,                   \* the register of usNumberOfFreeBuffers--
  \* tSLInformation
  usRxEventOpcode, usEventOrDataReceived, usNumberOfFreeBuffers,
  NumberOfSentPackets, NumberOfReleasedPackets,
  slTransmitDataError, socketActive,
  rx,                    \* the event in wlan_rx_buffer
  \* sSpiInformation and the peripherals
  ui32SpiState, ui16TxPacketLength,
  txbuf,                 \* the call whose packet is in wlan_tx_buffer
  cs,                    \* chip select is asserted
  edge,                  \* the falling edge of the chip's line, latched
  intOn,                 \* the SPI and line interrupts are enabled
  dma,                   \* the transfer under way
  \* the chip
  phase,
  in,                    \* portions received under this chip select
  got,                   \* packets received
  due,                   \* operations executed and not yet answered
  held,                  \* transmit buffers in use
  out,                   \* events to offer
  events                 \* events sent on its own account

app == <<pc, call, issued, reg>>
credits == <<usNumberOfFreeBuffers, NumberOfSentPackets, NumberOfReleasedPackets>>
errors == <<slTransmitDataError, socketActive>>
hci == <<usRxEventOpcode, usEventOrDataReceived>>
spi == <<ui32SpiState, ui16TxPacketLength, txbuf>>
lines == <<cs, edge, intOn, dma>>
chip == <<phase, in, got, due, held, out, events>>
vars == <<env, app, credits, errors, hci, rx, spi, lines, chip>>

Ops == {"start", "size", "socket", "send", "close"}
Call == [op : Ops, len : {1, 2}]   \* len in portions of SPI_WINDOW_SIZE
NoCall == [op |-> "start", len |-> 1]

Event(kind, op, n) == [kind |-> kind, op |-> op, n |-> n]
None == "none"
NoEvent == Event("unsol", None, 0)
EventSet == [kind : {"reply", "inactive", "free", "unsol", "other", "garbage"},
             op : Ops \cup {None}, n : Nat]

Before == {"power", "ready", "flow", "store", "build"}
Window == {"claim", "point", "assert"}
After == {"expect", "handle", "release"}
SpiStates == {"POWERUP", "INITIALIZED", "IDLE",
              "WRITE_IRQ", "WRITE_FIRST_PORTION", "WRITE_EOT",
              "READ_IRQ", "READ_EOT"}

TypeOK ==
  /\ env \in Environments
  /\ pc \in Before \cup {"write"} \cup Window \cup After
  /\ call \in Call
  /\ issued \in Seq(Call)
  /\ reg \in Nat
  /\ usRxEventOpcode \in Ops \cup {None}
  /\ usEventOrDataReceived \in BOOLEAN
  /\ usNumberOfFreeBuffers \in Nat
  /\ NumberOfSentPackets \in Nat
  /\ NumberOfReleasedPackets \in Nat
  /\ slTransmitDataError \in BOOLEAN
  /\ socketActive \in BOOLEAN
  /\ rx \in EventSet
  /\ ui32SpiState \in SpiStates
  /\ ui16TxPacketLength \in 0..2
  /\ txbuf \in Nat
  /\ cs \in BOOLEAN /\ edge \in BOOLEAN /\ intOn \in BOOLEAN
  /\ dma \in {None, "write", "stray", "header", "rest"}
  /\ phase \in {"off", "up", "idle", "offer", "ack"}
  /\ in \in Seq(Nat)
  /\ got \in Seq(Seq(Nat))
  /\ due \in Seq(Ops)
  /\ held \in Nat
  /\ out \in Seq(EventSet)
  /\ events \in Nat

\* wlan_start() up to the wait for the chip: SpiOpen() has enabled the
\* interrupts and the enable pin is raised.
Init ==
  /\ env \in Environments
  /\ pc = "power" /\ call = NoCall /\ issued = <<>> /\ reg = 0
  /\ usRxEventOpcode = None /\ usEventOrDataReceived = FALSE
  /\ usNumberOfFreeBuffers = 0
  /\ NumberOfSentPackets = 0 /\ NumberOfReleasedPackets = 0
  /\ slTransmitDataError = FALSE /\ socketActive = FALSE
  /\ rx = NoEvent
  /\ ui32SpiState = "POWERUP" /\ ui16TxPacketLength = 0 /\ txbuf = 0
  /\ cs = FALSE /\ edge = FALSE /\ intOn = TRUE /\ dma = None
  /\ phase = "off" /\ in = <<>> /\ got = <<>> /\ due = <<>>
  /\ held = 0 /\ out = <<>> /\ events = 0

-----------------------------------------------------------------------------
\* The chip.

\* The packet of call i, every portion of it.
Whole(i) == [j \in 1..issued[i].len |-> i]

\* Chip select rises after a write: the chip executes a packet that is one,
\* and holds a buffer for what it has to transmit.
TakePacket(packet) ==
  LET id == packet[1]
      valid == id \in DOMAIN issued /\ packet = Whole(id)
  IN /\ got' = Append(got, packet)
     /\ phase' = "idle" /\ in' = <<>>
     /\ due' = IF valid THEN Append(due, issued[id].op) ELSE due
     /\ held' = IF valid /\ issued[id].op = "send" THEN held + 1 ELSE held
     /\ UNCHANGED <<out, events>>

PowerUp ==
  /\ phase = "off"
  /\ phase' = "up" /\ edge' = TRUE
  /\ UNCHANGED <<env, app, credits, errors, hci, rx, spi, cs, intOn, dma,
                 in, got, due, held, out, events>>

Offer ==
  /\ phase = "idle" /\ ~cs /\ out # <<>>
  /\ env.steady => pc \notin Window
  /\ phase' = "offer" /\ edge' = TRUE
  /\ UNCHANGED <<env, app, credits, errors, hci, rx, spi, cs, intOn, dma,
                 in, got, due, held, out, events>>

\* The line falls in answer to chip select.
Accept ==
  /\ phase = "idle" /\ cs
  /\ phase' = "ack" /\ edge' = TRUE
  /\ UNCHANGED <<env, app, credits, errors, hci, rx, spi, cs, intOn, dma,
                 in, got, due, held, out, events>>

Sends(event) ==
  /\ out' = Append(out, event)
  /\ UNCHANGED <<env, app, credits, errors, hci, rx, spi, lines, phase, in, got>>

Answer ==
  /\ due # <<>>
  /\ env.patient => pc # "expect" \/ Head(due) = "send"
  /\ due' = Tail(due)
  /\ \/ Sends(Event("reply", Head(due), 0))
     \/ ~env.alive /\ Head(due) = "send" /\ Sends(Event("inactive", "send", 0))
  /\ UNCHANGED <<held, events>>

\* HCI_EVNT_DATA_UNSOL_FREE_BUFF.
GiveBack ==
  /\ \E n \in 1..held : held' = held - n /\ Sends(Event("free", None, n))
  /\ UNCHANGED <<due, events>>

Unsolicited ==
  /\ phase \notin {"off", "up"} /\ events < MaxEvents
  /\ \E kind \in {"unsol"} \cup (IF env.clean THEN {} ELSE {"other", "garbage"}) :
       Sends(Event(kind, None, 0))
  /\ events' = events + 1
  /\ UNCHANGED <<due, held>>

Chip == PowerUp \/ Offer \/ Accept \/ Answer \/ GiveBack \/ Unsolicited
-----------------------------------------------------------------------------
\* The interrupt handlers.

\* hci_unsol_event_handler() returns 1: the event concerns no caller. A reply
\* that is not awaited is one of these, unless it is that of a send.
Consumed(event) ==
  \/ event.kind \in {"free", "unsol", "inactive"}
  \/ event.kind = "reply" /\ event.op \notin {usRxEventOpcode, "send"}

\* Mutant: the buffers given back reach one counter only.
FlowControlEventHalf(event) ==
  /\ NumberOfReleasedPackets' =
       NumberOfReleasedPackets + IF event.kind = "free" THEN event.n ELSE 0
  /\ UNCHANGED <<usNumberOfFreeBuffers, NumberOfSentPackets>>

FlowControlEvent(event) ==
  LET temp == IF event.kind = "free" THEN event.n ELSE 0
  IN /\ usNumberOfFreeBuffers' = usNumberOfFreeBuffers + temp
     /\ NumberOfReleasedPackets' = NumberOfReleasedPackets + temp
     /\ UNCHANGED NumberOfSentPackets

\* ERROR_SOCKET_INACTIVE in the reply to a send.
TransmitError(event) ==
  /\ slTransmitDataError' = (slTransmitDataError \/ event.kind = "inactive")
  /\ socketActive' = (socketActive /\ event.kind # "inactive")

\* Mutant: the interrupts stay off after an unsolicited event.
ReceiveNoResume(event) ==
  /\ usEventOrDataReceived' = ~Consumed(event)
  /\ intOn' = FALSE
  /\ FlowControlEvent(event) /\ TransmitError(event)

\* SpiReceiveHandler(): an unsolicited event is served here, in the interrupt,
\* and the interrupts go on; any other waits for main() with both disabled.
Receive(event) ==
  /\ usEventOrDataReceived' = ~Consumed(event)
  /\ intOn' = Consumed(event)
  /\ FlowControlEvent(event) /\ TransmitError(event)

\* SysTickHandler() tries the event that waits again.
SysTick ==
  /\ usEventOrDataReceived /\ Consumed(rx)
  /\ Receive(rx)
  /\ UNCHANGED <<env, app, usRxEventOpcode, rx, spi, cs, edge, dma, chip>>

\* Chip select rises after a read: the chip has handed over its event.
EndRead ==
  /\ out' = IF phase = "offer" THEN Tail(out) ELSE out
  /\ phase' = "idle" /\ in' = <<>>
  /\ UNCHANGED <<got, due, held, events>>

\* SpiTriggerRxProcessing(): with a bad packet the interrupts stay disabled
\* and nobody is told.
TriggerRxProcessing(event) ==
  /\ cs' = FALSE /\ ui32SpiState' = "IDLE" /\ dma' = None
  /\ EndRead
  /\ IF event.kind = "garbage"
     THEN intOn' = FALSE /\ UNCHANGED <<usEventOrDataReceived, credits, errors>>
     ELSE Receive(event)

\* SpiWriteAsync(): the next portion. Without a packet (size 0) the transfer
\* reads from wherever the pointer is.
WriteAsync(size) ==
  /\ ui32SpiState' = IF size <= 1 THEN "WRITE_EOT" ELSE "WRITE_FIRST_PORTION"
  /\ dma' = IF size = 0 THEN "stray" ELSE "write"

\* What is left after the first portion; for a packet shorter than a window
\* the 16 bits wrap and a window and more seems to be left.
Rest == IF ui16TxPacketLength = 2 THEN 1 ELSE 2

ReadHeader ==
  /\ ui32SpiState' = "READ_IRQ"
  /\ cs' = TRUE
  /\ dma' = "header"

\* The falling edge of the chip's line.
IntSpiGPIOHandler ==
  /\ edge /\ intOn
  /\ edge' = FALSE
  /\ \/ /\ ui32SpiState = "POWERUP"
        /\ ui32SpiState' = "INITIALIZED"
        /\ UNCHANGED <<cs, dma>>
     \/ /\ ui32SpiState = "IDLE"
        /\ ReadHeader
     \/ /\ ui32SpiState \notin {"POWERUP", "IDLE"}
        /\ IF ui32SpiState = "WRITE_IRQ" THEN WriteAsync(ui16TxPacketLength)
           ELSE UNCHANGED <<ui32SpiState, dma>>
        /\ UNCHANGED cs
  /\ UNCHANGED <<env, app, credits, errors, hci, rx, ui16TxPacketLength, txbuf,
                 intOn, chip>>

\* The end of a transfer interrupts: SpiIntHandler(), by ui32SpiState.
TransferEnds ==
  /\ dma # None /\ intOn
  /\ env.whole => ~(pc = "store" /\ rx.kind = "free")

HeaderRead ==
  LET event == IF phase = "offer" THEN Head(out) ELSE Event("garbage", None, 0)
  IN /\ ui32SpiState = "READ_IRQ"
     /\ rx' = event
     /\ IF event.kind \in {"unsol", "garbage"}   \* no argument left to read
        THEN TriggerRxProcessing(event)
        ELSE /\ ui32SpiState' = "READ_EOT" /\ dma' = "rest"
             /\ UNCHANGED <<credits, errors, usEventOrDataReceived, cs, intOn, chip>>

RestRead ==
  /\ ui32SpiState = "READ_EOT"
  /\ TriggerRxProcessing(rx)
  /\ UNCHANGED rx

\* What the chip has received with the portion that has just gone out, as the
\* DMA found it in wlan_tx_buffer: nothing when it was not selected.
Received ==
  IF ~cs THEN in ELSE Append(in, IF dma = "stray" THEN 0 ELSE txbuf)

FirstPortionWritten ==
  /\ ui32SpiState = "WRITE_FIRST_PORTION"
  /\ Len(in) < MaxPortions
  /\ in' = Received
  /\ WriteAsync(Rest)
  /\ UNCHANGED <<credits, errors, usEventOrDataReceived, rx, cs, intOn,
                 phase, got, due, held, out, events>>

PacketWritten ==
  /\ ui32SpiState = "WRITE_EOT"
  /\ cs' = FALSE /\ ui32SpiState' = "IDLE" /\ dma' = None
  /\ IF cs THEN TakePacket(Received) ELSE UNCHANGED chip
  /\ UNCHANGED <<credits, errors, usEventOrDataReceived, rx, intOn>>

\* The state was overwritten by main() since the transfer began.
TransferForgotten ==
  /\ ui32SpiState \notin {"READ_IRQ", "READ_EOT", "WRITE_FIRST_PORTION", "WRITE_EOT"}
  /\ dma' = None
  /\ UNCHANGED <<credits, errors, usEventOrDataReceived, rx, ui32SpiState, cs,
                 intOn, chip>>

SpiIntHandler ==
  /\ TransferEnds
  /\ HeaderRead \/ RestRead \/ FirstPortionWritten \/ PacketWritten \/ TransferForgotten
  /\ UNCHANGED <<env, app, usRxEventOpcode, ui16TxPacketLength, txbuf, edge>>

Interrupts == IntSpiGPIOHandler \/ SpiIntHandler

-----------------------------------------------------------------------------
\* main(). A pending interrupt that is enabled goes first.

At(step) == pc = step /\ ~(edge /\ intOn)
GoTo(step) == pc' = step

\* wlan_start() waits for the line to go low.
WaitForLine ==
  /\ At("power") /\ phase = "up" /\ GoTo("ready")
  /\ UNCHANGED <<env, call, issued, reg, credits, errors, hci, rx, spi, lines, chip>>

\* The calls of wlan_start(), then those of the application.
NextOps == CASE Len(issued) = 0 -> {"start"}
             [] Len(issued) = 1 -> {"size"}
             [] OTHER -> {"socket", "send", "close"}

NewCall ==
  /\ At("ready") /\ Len(issued) < MaxCalls
  /\ call' \in {c \in Call : c.op \in NextOps /\ (c.op # "send" => c.len = 1)}
  /\ GoTo(IF call'.op = "send" THEN "flow" ELSE "build")
  /\ UNCHANGED <<env, issued, reg, credits, errors, hci, rx, spi, lines, chip>>

\* HostFlowControlConsumeBuff(): the call returns the last failure, -1 or -2 ...
FlowControlRefuses ==
  /\ At("flow")
  /\ slTransmitDataError \/ ~socketActive \/ usNumberOfFreeBuffers = 0
  /\ slTransmitDataError' = FALSE
  /\ GoTo("ready")
  /\ UNCHANGED <<env, call, issued, reg, credits, socketActive, hci, rx, spi, lines, chip>>

\* Mutant: the test for a free buffer dropped.
FlowControlUntested ==
  /\ At("flow") /\ ~slTransmitDataError /\ socketActive
  /\ reg' = usNumberOfFreeBuffers
  /\ GoTo("store")
  /\ UNCHANGED <<env, call, issued, credits, errors, hci, rx, spi, lines, chip>>

\* ... or usNumberOfFreeBuffers--, which loads ...
FlowControlLoads ==
  /\ At("flow")
  /\ ~slTransmitDataError /\ socketActive /\ usNumberOfFreeBuffers # 0
  /\ reg' = usNumberOfFreeBuffers
  /\ GoTo("store")
  /\ UNCHANGED <<env, call, issued, credits, errors, hci, rx, spi, lines, chip>>

\* ... and stores.
FlowControlStores ==
  /\ At("store") /\ GoTo("build")
  /\ usNumberOfFreeBuffers' = reg - 1
  /\ UNCHANGED <<env, call, issued, reg, NumberOfSentPackets, NumberOfReleasedPackets,
                 errors, hci, rx, spi, lines, chip>>

\* The call writes its packet over the one before it in wlan_tx_buffer.
Build ==
  /\ At("build") /\ GoTo("write")
  /\ issued' = Append(issued, call)
  /\ txbuf' = Len(issued) + 1
  /\ NumberOfSentPackets' = NumberOfSentPackets + IF call.op = "send" THEN 1 ELSE 0
  /\ UNCHANGED <<env, call, reg, usNumberOfFreeBuffers, NumberOfReleasedPackets,
                 errors, hci, rx, ui32SpiState, ui16TxPacketLength, lines, chip>>

\* SpiWrite() in the state INITIALIZED: SpiFirstWrite() sends the packet itself.
FirstWrite ==
  /\ At("write") /\ ui32SpiState = "INITIALIZED" /\ GoTo("expect")
  /\ ui32SpiState' = "IDLE"
  /\ TakePacket(Whole(txbuf))
  /\ UNCHANGED <<env, call, issued, reg, credits, errors, hci, rx,
                 ui16TxPacketLength, txbuf, lines>>

TestIdle ==
  /\ At("write") /\ ui32SpiState = "IDLE" /\ GoTo("claim")
  /\ UNCHANGED <<env, call, issued, reg, credits, errors, hci, rx, spi, lines, chip>>

Claim ==
  /\ At("claim") /\ GoTo("point")
  /\ ui32SpiState' = "WRITE_IRQ"
  /\ UNCHANGED <<env, call, issued, reg, credits, errors, hci, rx,
                 ui16TxPacketLength, txbuf, lines, chip>>

\* pTxPacket and ui16TxPacketLength.
Point ==
  /\ At("point") /\ GoTo("assert")
  /\ ui16TxPacketLength' = call.len
  /\ UNCHANGED <<env, call, issued, reg, credits, errors, hci, rx,
                 ui32SpiState, txbuf, lines, chip>>

\* SpiWrite() returns here, whatever its last loop says.
AssertCS ==
  /\ At("assert") /\ GoTo("expect")
  /\ cs' = TRUE
  /\ UNCHANGED <<env, call, issued, reg, credits, errors, hci, rx, spi,
                 edge, intOn, dma, chip>>

\* Mutant: a send does not wait for its event.
ExpectNotForSend ==
  /\ At("expect") /\ GoTo(IF call.op = "send" THEN "ready" ELSE "handle")
  /\ usRxEventOpcode' = IF call.op = "send" THEN usRxEventOpcode ELSE call.op
  /\ UNCHANGED <<env, call, issued, reg, credits, errors, usEventOrDataReceived,
                 rx, spi, lines, chip>>

\* SimpleLinkWaitEvent().
Expect ==
  /\ At("expect") /\ GoTo("handle")
  /\ usRxEventOpcode' = call.op
  /\ UNCHANGED <<env, call, issued, reg, credits, errors, usEventOrDataReceived,
                 rx, spi, lines, chip>>

\* hci_event_handler(), up to the reset of usRxEventOpcode ...
Handle ==
  LET awaited == rx.kind = "reply" /\ rx.op = usRxEventOpcode
  IN /\ At("handle") /\ usEventOrDataReceived /\ GoTo("release")
     /\ usRxEventOpcode' = IF awaited THEN None ELSE usRxEventOpcode
     /\ usNumberOfFreeBuffers' =
          IF awaited /\ rx.op = "size" THEN Buffers ELSE usNumberOfFreeBuffers
     /\ UNCHANGED <<env, call, issued, reg, NumberOfSentPackets, NumberOfReleasedPackets,
                    errors, usEventOrDataReceived, rx, spi, lines, chip>>

\* ... and from the reset of usEventOrDataReceived to the end of its loop; when
\* that ends it, socket() and closesocket() note the state of their socket.
Release ==
  /\ At("release")
  /\ usEventOrDataReceived' = FALSE
  /\ intOn' = TRUE
  /\ IF usRxEventOpcode = None
     THEN /\ GoTo("ready")
          /\ socketActive' \in CASE call.op = "socket" -> {TRUE, socketActive}
                               [] call.op = "close" -> {FALSE}
                               [] OTHER -> {socketActive}
     ELSE GoTo("handle") /\ UNCHANGED socketActive
  /\ UNCHANGED <<env, call, issued, reg, credits, slTransmitDataError,
                 usRxEventOpcode, rx, spi, cs, edge, dma, chip>>

Main ==
  \/ WaitForLine \/ NewCall
  \/ FlowControlRefuses \/ FlowControlLoads \/ FlowControlStores
  \/ Build \/ FirstWrite \/ TestIdle \/ Claim \/ Point \/ AssertCS
  \/ Expect \/ Handle \/ Release

Next == Main \/ Interrupts \/ SysTick \/ Chip

\* main() goes on between interrupts, an interrupt that stays pending is taken,
\* and the chip answers: its handshakes, its replies, its buffers.
Fairness ==
  /\ WF_vars(Main) /\ WF_vars(IntSpiGPIOHandler) /\ WF_vars(SpiIntHandler)
  /\ WF_vars(PowerUp \/ Accept) /\ WF_vars(Offer)
  /\ WF_vars(Answer) /\ WF_vars(GiveBack)

Spec == Init /\ [][Next]_vars
FairSpec == Spec /\ Fairness
-----------------------------------------------------------------------------
\* What the driver guarantees.

\* Every packet reaches the chip whole and in the order of the calls, although
\* SpiWrite() returns before it is sent and all are built in one buffer.
SentWhole ==
  env.steady =>
    /\ Len(got) <= Len(issued)
    /\ \A i \in DOMAIN got : got[i] = Whole(i)

\* Buffers given back by a sequence of events, and by those the host has yet to read.
Given(s) ==
  LET sum[i \in 0 .. Len(s)] == IF i = 0 THEN 0 ELSE sum[i - 1] + s[i].n
  IN  sum[Len(s)]
Coming == Given(out)

\* 1 while the packet of a send call is on its way to the chip.
OnItsWay ==
  IF Len(got) < Len(issued) /\ issued[Len(issued)].op = "send" THEN 1 ELSE 0

\* No buffer of the chip is lost or invented between the two processors: each
\* is free for the next call, or with a packet, or on its way back; and the
\* two counters agree (the chip may then be shut down) only when none is out.
BuffersAccounted ==
  LET taken == IF pc = "build" /\ call.op = "send" THEN 1 ELSE OnItsWay
  IN env.steady /\ env.whole =>
       /\ Len(issued) > 2 => usNumberOfFreeBuffers + taken + held + Coming = Buffers
       /\ NumberOfSentPackets - NumberOfReleasedPackets = OnItsWay + held + Coming

Calm == env.steady /\ env.patient /\ env.alive /\ env.clean

Calls == INSTANCE HciCall WITH
  issued <- IF Calm THEN Len(issued) ELSE 0,
  executed <- IF Calm THEN Len(got) ELSE 0,
  returned <- IF ~Calm THEN 0
              ELSE IF pc \in Before THEN Len(issued) ELSE Len(issued) - 1

\* simple_link_send() and its like, over SPI and its interrupts, are calls: the
\* chip executes each once, before it returns, and each returns. It takes a
\* chip that is calm: see the environments.
CallSpec == Calls!Spec

\* simple_link_send(): "@return Return the number of bytes transmitted, or -1
\* if an error occurred": a send to a socket that has become inactive returns.
SendReturns ==
  (pc = "handle" /\ call.op = "send") ~> pc = "ready"
=============================================================================
