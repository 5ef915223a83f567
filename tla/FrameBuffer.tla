---------------------------- MODULE FrameBuffer ----------------------------
(***************************************************************************)
(* usb_buf of cc3000_basic_wifi_application.c: the three callbacks of the  *)
(* UVC driver fill it in the USB interrupt, and main() sends it over WiFi, *)
(* appends it to the file and releases it. A byte is its position in the   *)
(* stream that the driver's parsers hand to uvc_data_cb(): the parser of   *)
(* uncompressed frames skips a header where a frame begins, and takes all  *)
(* else for data (uvc.c:540-575). The unit of data divides all sizes.      *)
(*                                                                         *)
(* One USB interrupt is one step, it preempts main(). A step of main() is  *)
(* one access of the shared variables, or the copy of one unit.            *)
(***************************************************************************)
EXTENDS Integers, Sequences

CONSTANTS
  Size,         \* USB_BUF_SIZE, in units
  Units,        \* stream_frame_size: units of one uncompressed frame
  MaxPacket,    \* most units one USB packet holds
  Chunk,        \* WIFI_PACKET_SIZE: units of one packet to the base station
  MaxPos,       \* bound: the camera stops after this many units
  MaxId,        \* the highest pkt_id, 255 in the code
  Environments  \* what main() may meet: records of the kind below

\* slow:    main() handles a frame before the driver ends the next
\* bare:    a packet may begin a frame without any of its data
\* mjpeg:   uvc_is_mjpeg()
\* badCard: f_open() and f_write() may fail, or write less
Environment == [slow : BOOLEAN, bare : BOOLEAN, mjpeg : BOOLEAN, badCard : BOOLEAN]

ASSUME FrameBufferAssumption ==
  /\ Size \in Nat \ {0} /\ Units \in Nat \ {0} /\ MaxPacket \in 0 .. Units
  /\ Chunk \in Nat \ {0}
  /\ MaxPos \in Nat /\ MaxId \in Nat \ {0, 1}
  /\ Environments \subseteq Environment

VARIABLES
  env,
  usb_buf, usb_buf_i, usb_buf_len, pkt_id,
  pos,        \* the next unit of the stream
  started,    \* processed # 0: the uncompressed parser is in a frame
  pc,         \* where main() is
  size,       \* argument of WIFI_sendUSBData()
  hdr,        \* pkt[2]: the id that the packets of the current frame carry
  prevHdr,    \* the id that the packets of the frame before carried
  sent,       \* units handed to sendto() for the current frame
  chunk,      \* units f_write() has copied for the current frame
  file        \* what the last f_close() has added to the file

shared == <<usb_buf, usb_buf_i, usb_buf_len, pkt_id>>
stream == <<pos, started>>
vars == <<env, shared, stream, pc, size, hdr, prevHdr, sent, chunk, file>>

MainSteps == {"test", "call", "header", "send", "open", "write", "release", "fault"}
Positions == 0 .. MaxPos

TypeOK ==
  /\ env \in Environments
  /\ usb_buf \in [0 .. Size - 1 -> Positions]
  /\ usb_buf_i \in 0 .. Size - 1 /\ usb_buf_len \in 0 .. Size
  /\ pkt_id \in 0 .. MaxId /\ hdr \in 0 .. MaxId /\ prevHdr \in 0 .. MaxId
  /\ pos \in Positions /\ started \in BOOLEAN
  /\ pc \in MainSteps
  /\ size \in 0 .. Size
  /\ sent \in Seq(Positions) /\ chunk \in Seq(Positions) /\ file \in Seq(Positions)

Init ==
  /\ env \in Environments
  /\ usb_buf = [j \in 0 .. Size - 1 |-> 0]
  /\ usb_buf_i = 0 /\ usb_buf_len = 0 /\ pkt_id = 0
  /\ pos = 0 /\ started = FALSE
  /\ pc = "test" /\ size = 0 /\ hdr = 0 /\ prevHdr = 0
  /\ sent = <<>> /\ chunk = <<>> /\ file = <<>>

\* The first n units of usb_buf.
Captured(n) == [j \in 1 .. n |-> usb_buf[j - 1]]

-----------------------------------------------------------------------------
\* The driver's callbacks, on what main() shares with them.
Usb == [buf |-> usb_buf, len |-> usb_buf_len, i |-> usb_buf_i, id |-> pkt_id]

\* Mutant: at 255 the id stays.
StartStays(b) ==
  IF b.len # 0 \/ b.id = MaxId THEN b ELSE [b EXCEPT !.id = b.id + 1]

\* uvc_start_cb(): no new id while a complete frame is in the buffer.
StartCb(b) ==
  IF b.len # 0 THEN b ELSE [b EXCEPT !.id = IF b.id = MaxId THEN 1 ELSE b.id + 1]

\* Mutant: the index goes first.
EndSwapped(b) == [b EXCEPT !.len = 0, !.i = 0]

\* Mutant: the index stays.
EndKeepsIndex(b) == [b EXCEPT !.len = b.i, !.i = b.i % Size]

\* uvc_end_cb(): it does not look at usb_buf_len.
EndCb(b) == [b EXCEPT !.len = b.i, !.i = 0]

\* Mutant: a complete frame does not keep data out.
RoomAlways(b, k) == IF Size - b.i < k THEN Size - b.i ELSE k

\* How many of k units uvc_data_cb() copies.
Room(b, k) ==
  IF b.len # 0 THEN 0
  ELSE IF Size - b.i < k THEN Size - b.i ELSE k

Copy(b, p, k) ==
  [b EXCEPT !.i = b.i + Room(b, k),
            !.buf = [j \in 0 .. Size - 1 |-> IF b.i <= j /\ j < b.i + Room(b, k)
                                            THEN p + j - b.i ELSE b.buf[j]]]

\* Mutant: nobody looks for a full buffer.
DataNoFull(b, p, k) == Copy(b, p, k)

\* uvc_data_cb() with k units from p on: a buffer that is full ends the frame by
\* itself.
DataCb(b, p, k) ==
  IF b.len = 0 /\ Copy(b, p, k).i = Size THEN EndCb(Copy(b, p, k)) ELSE Copy(b, p, k)

-----------------------------------------------------------------------------
\* uvc_pipe_cb() with one packet.

Parsed(b, k) ==
  /\ pc # "fault"
  /\ pos + k <= MaxPos
  /\ usb_buf' = b.buf /\ usb_buf_len' = b.len /\ usb_buf_i' = b.i /\ pkt_id' = b.id
  /\ pos' = pos + k
  /\ UNCHANGED <<env, pc, size, hdr, prevHdr, sent, chunk, file>>

\* k units bring the frame to the size that the uncompressed parser counts to.
Completes(k) == (pos % Units) + k = Units

\* The callbacks for the next k units of an uncompressed frame.
Uncomp(k) ==
  LET data == DataCb(IF started THEN Usb ELSE StartCb(Usb), pos, k)
  IN IF Completes(k) THEN EndCb(data) ELSE data

\* A packet within a frame. The one that begins it may be a header and no more.
UncompPacket(k) ==
  /\ ~env.mjpeg
  /\ (pos % Units) + k <= Units
  /\ k = 0 => env.bare /\ ~started
  /\ env.slow /\ Completes(k) => usb_buf_len = 0
  /\ Parsed(Uncomp(k), k)
  /\ started' = ~Completes(k)

\* A packet that goes on behind the end of a frame: the next one is begun at once.
\* From there the length of a header is skipped, so that nothing may be left of it.
UncompAcross(k, rest) ==
  /\ ~env.mjpeg
  /\ k > 0 /\ Completes(k)
  /\ rest = 0 => env.bare
  /\ env.slow => usb_buf_len = 0
  /\ Parsed(DataCb(StartCb(Uncomp(k)), pos + k, rest), k + rest)
  /\ started' = TRUE

\* An MJPEG packet. A frame begins with another frame bit. It ends where the packet
\* does on D9 FF, which is not the end-of-image marker but may be there by chance.
MjpegPacket(k, first, ends) ==
  LET data == DataCb(IF first THEN StartCb(Usb) ELSE Usb, pos, k)
  IN /\ env.mjpeg
     /\ env.slow /\ ends => usb_buf_len = 0
     /\ Parsed(IF ends THEN EndCb(data) ELSE data, k)
     /\ UNCHANGED started

Camera == \E k \in 0 .. MaxPacket :
  \/ UncompPacket(k)
  \/ \E rest \in 0 .. MaxPacket - k : UncompAcross(k, rest)
  \/ \E first, ends \in BOOLEAN : MjpegPacket(k, first, ends)

-----------------------------------------------------------------------------
\* main()

\* Mutant: no test.
BufAlways ==
  /\ pc = "test"
  /\ pc' = "call"
  /\ UNCHANGED <<env, shared, stream, size, hdr, prevHdr, sent, chunk, file>>

BufTest ==
  /\ pc = "test"
  /\ pc' = IF usb_buf_len > 0 THEN "call" ELSE "test"
  /\ UNCHANGED <<env, shared, stream, size, hdr, prevHdr, sent, chunk, file>>

\* The argument is a second read of usb_buf_len.
CallSend ==
  /\ pc = "call"
  /\ size' = usb_buf_len
  /\ pc' = "header"
  /\ UNCHANGED <<env, shared, stream, hdr, prevHdr, sent, chunk, file>>

\* After socket(): the header of all packets of this call.
Header ==
  /\ pc = "header"
  /\ hdr' = pkt_id /\ prevHdr' = hdr
  /\ sent' = <<>>
  /\ pc' = "send"
  /\ UNCHANGED <<env, shared, stream, size, chunk, file>>

\* The send loop runs while i < size / WIFI_PACKET_SIZE - 1, that is while two more
\* chunks are there. For a size of less than one chunk the right side is the largest
\* size_t, no bound at all.
SendMore == size < Chunk \/ Len(sent) + 2 * Chunk <= size

\* One pass of the send loop. Past the end of usb_buf it goes on through the rest of
\* the memory into FaultISR.
SendChunk ==
  /\ pc = "send" /\ SendMore
  /\ IF Len(sent) + Chunk <= Size
     THEN sent' = sent \o [j \in 1 .. Chunk |-> usb_buf[Len(sent) + j - 1]] /\ pc' = pc
     ELSE sent' = sent /\ pc' = "fault"
  /\ UNCHANGED <<env, shared, stream, size, hdr, prevHdr, chunk, file>>

SendReturns ==
  /\ pc = "send" /\ ~SendMore
  /\ pc' = "open"
  /\ UNCHANGED <<env, shared, stream, size, hdr, prevHdr, sent, chunk, file>>

\* f_open(), f_lseek() and the third read of usb_buf_len, as f_write()'s argument.
\* Neither the results nor the count are looked at: a card that fails takes nothing,
\* one that is full or fails in the middle a part of the frame (ff.c:2582).
OpenFile ==
  /\ pc = "open"
  /\ chunk' = <<>>
  /\ size' \in IF env.badCard THEN 0 .. usb_buf_len ELSE {usb_buf_len}
  /\ pc' = "write"
  /\ UNCHANGED <<env, shared, stream, hdr, prevHdr, sent, file>>

\* Mutant: f_write() gets the size that was sent.
WriteSent == Len(sent)

WriteSize == size

WriteUnit ==
  /\ pc = "write" /\ Len(chunk) < WriteSize
  /\ chunk' = Append(chunk, usb_buf[Len(chunk)])
  /\ UNCHANGED <<env, shared, stream, pc, size, hdr, prevHdr, sent, file>>

CloseFile ==
  /\ pc = "write" /\ Len(chunk) >= WriteSize
  /\ file' = chunk
  /\ pc' = "release"
  /\ UNCHANGED <<env, shared, stream, size, hdr, prevHdr, sent, chunk>>

\* Mutant: the buffer is not released.
KeepBuffer ==
  /\ pc = "release"
  /\ pc' = "test"
  /\ UNCHANGED <<env, shared, stream, size, hdr, prevHdr, sent, chunk, file>>

ReleaseBuffer ==
  /\ pc = "release"
  /\ usb_buf_len' = 0
  /\ pc' = "test"
  /\ UNCHANGED <<env, usb_buf, usb_buf_i, pkt_id, stream, size, hdr, prevHdr, sent, chunk, file>>

\* FaultISR() never returns.
FaultISR == pc = "fault" /\ UNCHANGED vars

Main ==
  \/ BufTest \/ CallSend \/ Header \/ SendChunk \/ SendReturns
  \/ OpenFile \/ WriteUnit \/ CloseFile \/ ReleaseBuffer \/ FaultISR

Next == Camera \/ Main

Spec == Init /\ [][Next]_vars

\* main() runs whenever no interrupt handler does.
FairSpec == Spec /\ SF_vars(Main)

-----------------------------------------------------------------------------
\* What is in the buffer is one run of the stream, however packets and main()
\* interleave: while a frame is collected it ends at the stream's last unit, and
\* a complete frame is not written to (usb_buf_len keeps uvc_data_cb() out).
BufferIsContiguous ==
  /\ usb_buf_len # 0 => usb_buf_i = 0
  /\ \A j \in 0 .. usb_buf_i - 1 : usb_buf[j] = pos - usb_buf_i + j
  /\ \A j \in 0 .. usb_buf_len - 1 : usb_buf[j] = usb_buf[0] + j

\* With a camera slower than main(), what goes to the file is what the interrupt
\* handed over, all of it on a good card, else a first part of it (a card that is full
\* or fails); what was sent is that but for one chunk and the rest after it (the bound
\* of the loop in WIFI_sendUSBData()).
SavedIsCaptured ==
  env.slow /\ pc = "release" =>
    /\ usb_buf_len > 0
    /\ Len(file) <= usb_buf_len /\ file = Captured(Len(file))
    /\ ~env.badCard => Len(file) = usb_buf_len
    /\ sent = Captured(Len(sent))
    /\ usb_buf_len - Len(sent) \in Chunk .. 2 * Chunk - 1

\* With a camera slower than main() the send loop leaves usb_buf for one reason only,
\* a frame shorter than a chunk. In particular the size is not 0, although it is read
\* after the test.
SendStaysInside == env.slow /\ pc = "fault" => size \in 1 .. Chunk - 1

\* An uncompressed frame that fits into usb_buf with room to spare and is sent from its
\* first unit on has an id other than the packets before it; the base station tells
\* frames apart by that alone. Needs a packet that begins a frame to hold some of it:
\* else uvc_start_cb() may find the buffer full, and uvc_data_cb() find it free again
\* with the first unit, so that the frame goes out under the id of the one before.
\* A frame as long as the buffer is lost, with its id.
FreshId ==
  /\ env.slow /\ ~env.mjpeg /\ ~env.bare /\ Units < Size
  /\ pc = "send" /\ usb_buf[0] % Units = 0
  => hdr # prevHdr

\* The first uncompressed frame reaches the file, if it is shorter than the buffer,
\* the camera is slow and the card works.
FirstFrameSaved ==
  (env.slow /\ ~env.mjpeg /\ ~env.badCard /\ pos >= Units) ~> file # <<>>

\* main() lets go of every frame of a slow camera, if it is a chunk or more.
BufferReleased == (env.slow /\ usb_buf_len >= Chunk) ~> usb_buf_len = 0

\* usb_buf is a mailbox with one place, for a slow camera and a good card.
Calm == env.slow /\ ~env.badCard

Slot == INSTANCE FrameSlot WITH
  slot <- IF ~Calm \/ usb_buf_len = 0 \/ pc = "release" THEN <<>>
          ELSE Captured(usb_buf_len),
  stored <- IF Calm THEN file ELSE <<>>

SlotSpec == Slot!Spec

\* final_report.tex: the implementation takes the frame that is received from the
\* USB and writes it to a file. A complete frame would stay until it is written.
FrameStays == [][usb_buf_len # 0 /\ pc # "release" => usb_buf_len' = usb_buf_len]_vars
=============================================================================
