------------------------- MODULE FrameBufferProofs -------------------------
(***************************************************************************)
(* Theorems about FrameBuffer, for every size of buffer, frame and packet, *)
(* every bound and every environment: the buffer holds one run of the      *)
(* stream, and with a slow camera it is the mailbox of FrameSlot and the   *)
(* ids of frames in a row differ.                                          *)
(***************************************************************************)
EXTENDS FrameBuffer, SequenceTheorems, TLAPS

USE FrameBufferAssumption DEF FrameBufferAssumption, Positions, MainSteps, shared, stream

\* What main() shares with the callbacks, and its state between two of them: one run
\* of the stream, which ends before p as long as it is collected.
Buffers == [buf : [0 .. Size - 1 -> Positions], len : 0 .. Size, i : 0 .. Size - 1,
            id : 0 .. MaxId]

HoldsRun(b, p) ==
  /\ b \in Buffers
  /\ b.len # 0 => b.i = 0
  /\ \A j \in 0 .. b.i - 1 : b.buf[j] = p - b.i + j
  /\ \A j \in 0 .. b.len - 1 : b.buf[j] = b.buf[0] + j

\* What uvc_data_cb() does to each part of the buffer.
Takes(b, p, k, d) ==
  /\ Room(b, k) \in 0 .. k /\ b.i + Room(b, k) \in 0 .. Size
  /\ d \in Buffers
  /\ d.id = b.id
  /\ \A j \in 0 .. Size - 1 :
       d.buf[j] = IF b.i <= j /\ j < b.i + Room(b, k) THEN p + j - b.i ELSE b.buf[j]
  /\ b.len = 0 /\ b.i + Room(b, k) = Size => d.len = Size /\ d.i = 0
  /\ ~(b.len = 0 /\ b.i + Room(b, k) = Size) => d.len = b.len /\ d.i = b.i + Room(b, k)

LEMMA DataEffect ==
  ASSUME NEW b \in Buffers, NEW p \in Nat, NEW k \in Nat, p + k <= MaxPos
  PROVE  Takes(b, p, k, DataCb(b, p, k))
<1>1. /\ b.buf \in [0 .. Size - 1 -> Positions] /\ b.len \in 0 .. Size
      /\ b.i \in 0 .. Size - 1 /\ b.id \in 0 .. MaxId
  BY DEF Buffers
<1>2. Room(b, k) \in 0 .. k /\ b.i + Room(b, k) \in 0 .. Size
  <2>1. \A l \in 0 .. Size : \A i \in 0 .. Size - 1 : \A r :
          r = (IF l # 0 THEN 0 ELSE IF Size - i < k THEN Size - i ELSE k)
          => r \in 0 .. k /\ i + r \in 0 .. Size
    OBVIOUS
  <2>2. QED
    BY <1>1, <2>1, Zenon DEF Room
<1> DEFINE new == [j \in 0 .. Size - 1 |->
                     IF b.i <= j /\ j < b.i + Room(b, k) THEN p + j - b.i ELSE b.buf[j]]
<1>3. new \in [0 .. Size - 1 -> Positions]
  <2>1. \A j \in 0 .. Size - 1 :
          b.i <= j /\ j < b.i + Room(b, k) => p + j - b.i \in Positions
    <3>1. \A j \in 0 .. Size - 1 : \A r \in 0 .. k :
            b.i <= j /\ j < b.i + r => p + j - b.i \in 0 .. MaxPos
      BY <1>1
    <3>2. QED
      BY <1>2, <3>1
  <2>2. \A j \in 0 .. Size - 1 : b.buf[j] \in Positions
    BY <1>1
  <2>3. QED
    BY <2>1, <2>2
<1>4. Copy(b, p, k) = [b EXCEPT !.i = b.i + Room(b, k), !.buf = new]
  BY Zenon DEF Copy
<1> HIDE DEF new
<1>5. /\ Copy(b, p, k).i = b.i + Room(b, k) /\ Copy(b, p, k).buf = new
      /\ Copy(b, p, k).len = b.len /\ Copy(b, p, k).id = b.id
  BY <1>4 DEF Buffers
<1>6. CASE b.len = 0 /\ b.i + Room(b, k) = Size
  <2>1. DataCb(b, p, k) = [b EXCEPT !.buf = new, !.len = Size, !.i = 0]
    BY <1>4, <1>5, <1>6 DEF DataCb, EndCb, Buffers
  <2>2. DataCb(b, p, k) = [buf |-> new, len |-> Size, i |-> 0, id |-> b.id]
    BY <2>1 DEF Buffers
  <2>3. QED
    BY <1>1, <1>2, <1>3, <1>6, <2>2 DEF Buffers, new, Takes
<1>7. CASE ~(b.len = 0 /\ b.i + Room(b, k) = Size)
  <2>1. DataCb(b, p, k) = Copy(b, p, k)
    BY <1>5, <1>7, Zenon DEF DataCb
  <2>2. DataCb(b, p, k) = [buf |-> new, len |-> b.len, i |-> b.i + Room(b, k), id |-> b.id]
    BY <1>4, <2>1 DEF Buffers
  <2>3. b.i + Room(b, k) \in 0 .. Size - 1
    BY <1>1, <1>2, <1>7 DEF Room
  <2>4. QED
    BY <1>1, <1>2, <1>3, <1>7, <2>2, <2>3 DEF Buffers, new, Takes
<1>8. QED
  BY <1>6, <1>7

\* What the callbacks for the start and the end of a frame do.
LEMMA StartEffect ==
  ASSUME NEW b \in Buffers
  PROVE  /\ StartCb(b) \in Buffers
         /\ StartCb(b).buf = b.buf /\ StartCb(b).len = b.len /\ StartCb(b).i = b.i
         /\ b.len = 0 => StartCb(b).id # b.id
<1>1. CASE b.len # 0
  BY <1>1 DEF StartCb
<1>2. CASE b.len = 0
  <2> DEFINE next == IF b.id = MaxId THEN 1 ELSE b.id + 1
  <2>1. next \in 0 .. MaxId /\ next # b.id
    BY DEF Buffers
  <2>2. StartCb(b) = [b EXCEPT !.id = next]
    BY <1>2, Zenon DEF StartCb
  <2> HIDE DEF next
  <2>3. QED
    BY <2>1, <2>2 DEF Buffers
<1>3. QED
  BY <1>1, <1>2

LEMMA EndEffect ==
  ASSUME NEW b \in Buffers
  PROVE  /\ EndCb(b) \in Buffers
         /\ EndCb(b).buf = b.buf /\ EndCb(b).len = b.i /\ EndCb(b).i = 0 /\ EndCb(b).id = b.id
<1> DEFINE c == [b EXCEPT !.len = b.i]
<1>1. c = [buf |-> b.buf, len |-> b.i, i |-> b.i, id |-> b.id]
  BY DEF Buffers
<1>2. EndCb(b) = [c EXCEPT !.i = 0]
  BY Zenon DEF EndCb
<1> HIDE DEF c
<1>3. EndCb(b) = [buf |-> b.buf, len |-> b.i, i |-> 0, id |-> b.id]
  BY <1>1, <1>2
<1>4. QED
  BY <1>3 DEF Buffers

\* A complete frame keeps the callbacks for the start and for data out.
LEMMA FullIgnores ==
  ASSUME NEW b \in Buffers, b.len # 0, NEW p \in Nat, NEW k \in Nat, p + k <= MaxPos
  PROVE  StartCb(b) = b /\ (b.i = 0 => DataCb(b, p, k) = b)
<1>1. StartCb(b) = b
  BY DEF StartCb
<1>2. ASSUME b.i = 0 PROVE DataCb(b, p, k) = b
  <2>1. Room(b, k) = 0
    BY DEF Room
  <2>2. [j \in 0 .. Size - 1 |-> IF b.i <= j /\ j < b.i + Room(b, k)
                                 THEN p + j - b.i ELSE b.buf[j]] = b.buf
    BY <1>2, <2>1 DEF Buffers
  <2>3. Copy(b, p, k) = [b EXCEPT !.i = b.i + Room(b, k), !.buf = b.buf]
    BY <2>2, Zenon DEF Copy
  <2>4. Copy(b, p, k) = b
    <3>1. b.i + Room(b, k) = b.i
      BY <1>2, <2>1
    <3>2. Copy(b, p, k) = [b EXCEPT !.i = b.i, !.buf = b.buf]
      BY <2>3, <3>1, Zenon
    <3>3. QED
      BY <3>2 DEF Buffers
  <2>5. QED
    BY <2>4, Zenon DEF DataCb
<1>3. QED
  BY <1>1, <1>2

\* The callbacks, in any order, keep the buffer one run.
LEMMA StartKeepsRun ==
  ASSUME NEW b, NEW p \in Nat, HoldsRun(b, p)
  PROVE  HoldsRun(StartCb(b), p)
BY StartEffect DEF HoldsRun

LEMMA EndKeepsRun ==
  ASSUME NEW b, NEW p \in Nat, HoldsRun(b, p)
  PROVE  HoldsRun(EndCb(b), p)
<1>1. /\ EndCb(b) \in Buffers
      /\ EndCb(b).buf = b.buf /\ EndCb(b).len = b.i /\ EndCb(b).i = 0
  BY EndEffect DEF HoldsRun
<1>2. b.i \in 0 .. Size - 1 /\ b \in Buffers
  BY DEF HoldsRun, Buffers
<1>3. \A j \in 0 .. b.i - 1 : b.buf[j] = b.buf[0] + j
  <2>1. \A j \in 0 .. b.i - 1 : b.buf[j] = p - b.i + j
    BY DEF HoldsRun
  <2>2. CASE b.i = 0
    BY <2>2
  <2>3. CASE b.i # 0
    <3>1. b.buf[0] = p - b.i
      BY <1>2, <2>1, <2>3
    <3>2. QED
      BY <1>2, <2>1, <3>1
  <2>4. QED
    BY <2>2, <2>3
<1>4. QED
  BY <1>1, <1>2, <1>3 DEF HoldsRun, Buffers

LEMMA DataKeepsRun ==
  ASSUME NEW b, NEW p \in Nat, HoldsRun(b, p), NEW k \in Nat, p + k <= MaxPos
  PROVE  HoldsRun(DataCb(b, p, k), p + k)
<1>0. b \in Buffers /\ b.len \in 0 .. Size /\ b.i \in 0 .. Size - 1
  BY DEF HoldsRun, Buffers
<1>3. Takes(b, p, k, DataCb(b, p, k))
  BY <1>0, DataEffect
<1>1. CASE b.len # 0
  BY <1>0, <1>1, FullIgnores DEF HoldsRun
<1>2. CASE b.len = 0
  <2> DEFINE d == DataCb(b, p, k)
             n == Room(b, k)
  <2>1. /\ n \in 0 .. k /\ b.i + n \in 0 .. Size
        /\ d \in Buffers
        /\ \A j \in 0 .. Size - 1 :
             d.buf[j] = IF b.i <= j /\ j < b.i + n THEN p + j - b.i ELSE b.buf[j]
        /\ b.i + n = Size => d.len = Size /\ d.i = 0
        /\ b.i + n # Size => d.len = 0 /\ d.i = b.i + n
    BY <1>3, <1>2, Zenon DEF Takes
  <2>2. n = IF Size - b.i < k THEN Size - b.i ELSE k
    BY <1>2 DEF Room
  <2> HIDE DEF d, n
  <2>3. \A j \in 0 .. b.i + n - 1 : d.buf[j] = p - b.i + j
    <3>1. SUFFICES ASSUME NEW j \in 0 .. b.i + n - 1 PROVE d.buf[j] = p - b.i + j
      OBVIOUS
    <3>2. j \in 0 .. Size - 1
      BY <1>0, <2>1
    <3>3. j < b.i => b.buf[j] = p - b.i + j
      BY <1>0, <2>1 DEF HoldsRun
    <3>4. QED
      BY <1>0, <2>1, <3>2, <3>3
  <2>4. CASE b.i + n = Size
    <3>1. d.len = Size /\ d.i = 0
      BY <1>2, <2>1, <2>4
    <3>2. d.buf[0] = p - b.i
      <4>1. 0 \in 0 .. b.i + n - 1 /\ p - b.i + 0 = p - b.i
        <5>1. n \in Nat /\ b.i \in Nat /\ Size \in Nat \ {0}
          BY <1>0, <2>1
        <5>2. QED
          BY <2>4, <5>1
      <4>2. QED
        BY <2>3, <4>1, Zenon
    <3>3. QED
      BY <1>0, <2>1, <2>3, <2>4, <3>1, <3>2 DEF HoldsRun, d
  <2>5. CASE b.i + n # Size
    <3>1. n = k /\ d.len = 0 /\ d.i = b.i + k
      BY <1>0, <1>2, <2>1, <2>2, <2>5
    <3>2. \A j \in 0 .. d.i - 1 : d.buf[j] = (p + k) - d.i + j
      BY <1>0, <2>3, <3>1
    <3>3. QED
      BY <2>1, <3>1, <3>2 DEF HoldsRun, d
  <2>6. QED
    BY <2>4, <2>5
<1>4. QED
  BY <1>0, <1>1, <1>2

\* The invariants of the buffer, in terms of what the callbacks work on.
LEMMA UsbIsRun ==
  /\ TypeOK /\ BufferIsContiguous => HoldsRun(Usb, pos)
  /\ TypeOK => Usb \in Buffers /\ pos \in Nat
<1>1. Usb.buf = usb_buf /\ Usb.len = usb_buf_len /\ Usb.i = usb_buf_i /\ Usb.id = pkt_id
  BY DEF Usb
<1>2. TypeOK => Usb \in Buffers /\ pos \in Nat
  BY DEF Usb, TypeOK, Buffers
<1>3. TypeOK /\ BufferIsContiguous => HoldsRun(Usb, pos)
  BY <1>1, <1>2, Zenon DEF HoldsRun, BufferIsContiguous
<1>4. QED
  BY <1>2, <1>3

LEMMA UncompKeepsRun ==
  ASSUME TypeOK, BufferIsContiguous, NEW k \in Nat, pos + k <= MaxPos
  PROVE  HoldsRun(Uncomp(k), pos + k)
<1> DEFINE b == IF started THEN Usb ELSE StartCb(Usb)
<1>1. HoldsRun(b, pos) /\ pos \in Nat /\ pos + k \in Nat
  BY UsbIsRun, StartKeepsRun
<1>2. HoldsRun(DataCb(b, pos, k), pos + k)
  BY <1>1, DataKeepsRun
<1>3. QED
  BY <1>1, <1>2, EndKeepsRun DEF Uncomp

\* A packet leaves main()'s variables alone, and the callbacks a run.
LEMMA CameraKeepsRun ==
  ASSUME TypeOK, BufferIsContiguous, Camera
  PROVE  TypeOK' /\ BufferIsContiguous'
<1>0. MaxPos \in Nat /\ MaxPacket \in Nat /\ pos \in Nat
  BY DEF TypeOK
<1>1. ASSUME NEW b, NEW n \in Nat, pos + n <= MaxPos, HoldsRun(b, pos + n), Parsed(b, n),
             started' \in BOOLEAN
      PROVE  TypeOK' /\ BufferIsContiguous'
  <2>1. /\ usb_buf' = b.buf /\ usb_buf_len' = b.len /\ usb_buf_i' = b.i /\ pkt_id' = b.id
        /\ pos' = pos + n
        /\ UNCHANGED <<env, pc, size, hdr, prevHdr, sent, chunk, file>>
    BY <1>1, Zenon DEF Parsed
  <2>2. pos' \in Positions
    BY <1>0, <1>1, <2>1
  <2>3. TypeOK'
    BY <1>1, <2>1, <2>2 DEF HoldsRun, Buffers, TypeOK
  <2>4. BufferIsContiguous'
    BY <1>1, <2>1 DEF HoldsRun, BufferIsContiguous
  <2>5. QED
    BY <2>3, <2>4
<1>2. ASSUME NEW k \in 0 .. MaxPacket, UncompPacket(k) PROVE TypeOK' /\ BufferIsContiguous'
  <2>0. k \in Nat
    BY <1>0
  <2>1. Parsed(Uncomp(k), k) /\ started' \in BOOLEAN
    BY <1>2, Zenon DEF UncompPacket
  <2>2. pos + k <= MaxPos
    BY <2>1, Zenon DEF Parsed
  <2>3. QED
    BY <1>1, <2>0, <2>1, <2>2, UncompKeepsRun
<1>3. ASSUME NEW k \in 0 .. MaxPacket, NEW rest \in 0 .. MaxPacket - k, UncompAcross(k, rest)
      PROVE  TypeOK' /\ BufferIsContiguous'
  <2> DEFINE b == DataCb(StartCb(Uncomp(k)), pos + k, rest)
  <2>1. k \in Nat /\ rest \in Nat
    BY <1>0
  <2>2. Parsed(b, k + rest) /\ started' \in BOOLEAN
    BY <1>3, Zenon DEF UncompAcross
  <2>3. pos + (k + rest) <= MaxPos
    BY <2>2, Zenon DEF Parsed
  <2>4. /\ pos + k <= MaxPos /\ (pos + k) + rest <= MaxPos
        /\ pos + k \in Nat /\ k + rest \in Nat /\ (pos + k) + rest = pos + (k + rest)
    BY <1>0, <2>1, <2>3
  <2>5. HoldsRun(StartCb(Uncomp(k)), pos + k)
    BY <2>1, <2>4, UncompKeepsRun, StartKeepsRun
  <2>6. HoldsRun(b, (pos + k) + rest)
    BY <2>1, <2>4, <2>5, DataKeepsRun
  <2> HIDE DEF b
  <2>7. QED
    BY <1>1, <2>2, <2>3, <2>4, <2>6
<1>4. ASSUME NEW k \in 0 .. MaxPacket, NEW first \in BOOLEAN, NEW ends \in BOOLEAN,
             MjpegPacket(k, first, ends)
      PROVE  TypeOK' /\ BufferIsContiguous'
  <2> DEFINE b == IF first THEN StartCb(Usb) ELSE Usb
             d == IF ends THEN EndCb(DataCb(b, pos, k)) ELSE DataCb(b, pos, k)
  <2>1. k \in Nat /\ started' \in BOOLEAN
    BY <1>0, <1>4 DEF MjpegPacket, TypeOK
  <2>2. Parsed(d, k)
    BY <1>4, Zenon DEF MjpegPacket
  <2>3. pos + k <= MaxPos /\ pos + k \in Nat
    <3>1. pos + k <= MaxPos
      BY <2>2, Zenon DEF Parsed
    <3>2. QED
      BY <1>0, <2>1, <3>1
  <2>4. HoldsRun(b, pos)
    BY <1>0, UsbIsRun, StartKeepsRun
  <2> HIDE DEF b
  <2>5. HoldsRun(DataCb(b, pos, k), pos + k)
    BY <1>0, <2>1, <2>3, <2>4, DataKeepsRun
  <2>6. HoldsRun(d, pos + k)
    BY <2>3, <2>5, EndKeepsRun
  <2> HIDE DEF d
  <2>7. QED
    BY <1>1, <2>1, <2>2, <2>3, <2>6
<1>5. QED
  BY <1>2, <1>3, <1>4 DEF Camera

\* The memcpy() of one chunk, as long as it stays inside usb_buf.
LEMMA ChunkCopied ==
  ASSUME TypeOK, Len(sent) + Chunk <= Size,
         NEW s, s = sent \o [j \in 1 .. Chunk |-> usb_buf[Len(sent) + j - 1]]
  PROVE  /\ s \in Seq(Positions)
         /\ Len(s) = Len(sent) + Chunk
         /\ \A j \in 1 .. Len(sent) : s[j] = sent[j]
         /\ \A j \in Len(sent) + 1 .. Len(sent) + Chunk : s[j] = usb_buf[j - 1]
<1>1. sent \in Seq(Positions) /\ usb_buf \in [0 .. Size - 1 -> Positions]
  BY DEF TypeOK
<1>2. PICK n \in Nat : n = Len(sent)
  BY <1>1, LenProperties
<1>3. \A j \in 1 .. Chunk : n + j - 1 \in 0 .. Size - 1
  BY <1>2
<1>4. PICK c : c = [j \in 1 .. Chunk |-> usb_buf[n + j - 1]]
  OBVIOUS
<1>5. c \in [1 .. Chunk -> Positions]
  BY <1>1, <1>3, <1>4
<1>6. c \in Seq(Positions) /\ Len(c) = Chunk
  BY <1>5
<1>7. s = sent \o c
  BY <1>2, <1>4
<1>8. /\ s \in Seq(Positions) /\ Len(s) = n + Chunk
      /\ \A j \in 1 .. n + Chunk : s[j] = IF j <= n THEN sent[j] ELSE c[j - n]
  <2> HIDE DEF Positions
  <2>1. /\ sent \o c \in Seq(Positions) /\ Len(sent \o c) = Len(sent) + Len(c)
        /\ \A j \in 1 .. Len(sent) + Len(c) :
              (sent \o c)[j] = IF j <= Len(sent) THEN sent[j] ELSE c[j - Len(sent)]
    BY <1>1, <1>6, ConcatProperties, Zenon
  <2>2. QED
    BY <1>2, <1>6, <1>7, <2>1, Zenon
<1>9. \A j \in n + 1 .. n + Chunk : c[j - n] = usb_buf[j - 1]
  <2>1. SUFFICES ASSUME NEW j \in n + 1 .. n + Chunk PROVE c[j - n] = usb_buf[j - 1]
    OBVIOUS
  <2>2. j - n \in 1 .. Chunk /\ n + (j - n) - 1 = j - 1
    BY <1>2
  <2>3. QED
    BY <1>4, <2>2
<1>10. \A j \in 1 .. n : s[j] = sent[j]
  BY <1>2, <1>8
<1>11. \A j \in n + 1 .. n + Chunk : s[j] = usb_buf[j - 1]
  BY <1>2, <1>8, <1>9
<1>12. QED
  BY <1>2, <1>8, <1>10, <1>11

\* main() keeps the types.
LEMMA MainKeepsTypes ==
  ASSUME TypeOK, Main
  PROVE  TypeOK'
<1>2. CASE BufTest \/ CallSend \/ Header \/ SendReturns
  <2>1. CASE BufTest
    BY <2>1 DEF BufTest, TypeOK
  <2>2. CASE CallSend
    BY <2>2 DEF CallSend, TypeOK
  <2>3. CASE Header
    BY <2>3 DEF Header, TypeOK
  <2>4. CASE SendReturns
    BY <2>4 DEF SendReturns, TypeOK
  <2>5. QED
    BY <1>2, <2>1, <2>2, <2>3, <2>4
<1>3. CASE SendChunk
  <2>1. sent' \in Seq(Positions)
    <3>1. CASE Len(sent) + Chunk <= Size
      <4>1. sent' = sent \o [j \in 1 .. Chunk |-> usb_buf[Len(sent) + j - 1]]
        BY <1>3, <3>1, Zenon DEF SendChunk
      <4>2. QED
        BY <3>1, <4>1, ChunkCopied
    <3>2. CASE ~(Len(sent) + Chunk <= Size)
      BY <1>3, <3>2 DEF SendChunk, TypeOK
    <3>3. QED
      BY <3>1, <3>2
  <2>2. pc' \in MainSteps
    BY <1>3 DEF SendChunk, TypeOK
  <2>3. QED
    BY <1>3, <2>1, <2>2 DEF SendChunk, TypeOK
<1>4. CASE OpenFile
  <2>1. chunk' \in Seq(Positions) /\ size' \in 0 .. Size
    BY <1>4 DEF OpenFile, TypeOK
  <2>2. QED
    BY <1>4, <2>1 DEF OpenFile, TypeOK
<1>5. CASE WriteUnit
  <2>1. Len(chunk) \in 0 .. Size - 1
    BY <1>5 DEF WriteUnit, WriteSize, TypeOK
  <2>2. chunk' \in Seq(Positions)
    BY <1>5, <2>1 DEF WriteUnit, TypeOK
  <2>3. QED
    BY <1>5, <2>2 DEF WriteUnit, TypeOK
<1>6. CASE CloseFile \/ ReleaseBuffer \/ FaultISR
  <2>1. CASE CloseFile
    BY <2>1 DEF CloseFile, TypeOK
  <2>2. CASE ReleaseBuffer
    BY <2>2 DEF ReleaseBuffer, TypeOK
  <2>3. CASE FaultISR
    BY <2>3 DEF FaultISR, vars, TypeOK
  <2>4. QED
    BY <1>6, <2>1, <2>2, <2>3
<1>7. QED
  BY <1>2, <1>3, <1>4, <1>5, <1>6 DEF Main

\* main() leaves the buffer and its index alone, and only empties it.
LEMMA MainKeepsBuffer ==
  ASSUME Main
  PROVE  /\ UNCHANGED <<env, usb_buf, usb_buf_i, stream>>
         /\ usb_buf_len' = usb_buf_len \/ (pc = "release" /\ usb_buf_len' = 0 /\ pc' = "test")
BY DEF Main, BufTest, CallSend, Header, SendChunk, SendReturns, OpenFile,
       WriteUnit, CloseFile, ReleaseBuffer, FaultISR, vars

\* The types need the run: an index is one only as long as a complete frame has it at 0.
LEMMA TypedRun == Spec => [](TypeOK /\ BufferIsContiguous)
<1>1. Init => TypeOK /\ BufferIsContiguous
  <2>1. Init => TypeOK
    <3>1. Init => /\ usb_buf \in [0 .. Size - 1 -> Positions]
                  /\ usb_buf_i \in 0 .. Size - 1 /\ usb_buf_len \in 0 .. Size
                  /\ pkt_id \in 0 .. MaxId /\ hdr \in 0 .. MaxId /\ prevHdr \in 0 .. MaxId
                  /\ pos \in Positions /\ size \in 0 .. Size
      BY DEF Init
    <3>2. Init => /\ env \in Environments /\ started \in BOOLEAN /\ pc \in MainSteps
                  /\ sent \in Seq(Positions) /\ chunk \in Seq(Positions)
                  /\ file \in Seq(Positions)
      BY DEF Init
    <3>3. QED
      BY <3>1, <3>2, Zenon DEF TypeOK
  <2>2. Init => BufferIsContiguous
    BY DEF Init, BufferIsContiguous
  <2>3. QED
    BY <2>1, <2>2
<1>2. TypeOK /\ BufferIsContiguous /\ [Next]_vars => (TypeOK /\ BufferIsContiguous)'
  <2> SUFFICES ASSUME TypeOK, BufferIsContiguous, [Next]_vars
               PROVE  TypeOK' /\ BufferIsContiguous'
    OBVIOUS
  <2>1. CASE Camera
    BY <2>1, CameraKeepsRun
  <2>2. CASE Main
    <3>1. TypeOK'
      BY <2>2, MainKeepsTypes
    <3>2. BufferIsContiguous'
      BY <2>2, MainKeepsBuffer DEF TypeOK, BufferIsContiguous
    <3>3. QED
      BY <3>1, <3>2
  <2>3. CASE UNCHANGED vars
    BY <2>3, Zenon DEF vars, TypeOK, BufferIsContiguous
  <2>4. QED
    BY <2>1, <2>2, <2>3, Zenon DEF Next
<1>3. QED
  BY <1>1, <1>2, PTL DEF Spec

\* Every variable keeps its type; the index never reaches the buffer's size.
THEOREM FrameBufferTypes == Spec => []TypeOK
BY TypedRun, PTL

\* Whatever main() and the camera do, no interrupt writes to a complete frame and
\* what is collected is one run of the stream that ends at the last unit received.
THEOREM Contiguous == Spec => []BufferIsContiguous
BY TypedRun, PTL

-----------------------------------------------------------------------------

\* s is the first units of usb_buf.
Copied(s) == \A j \in 1 .. Len(s) : s[j] = usb_buf[j - 1]

\* With a slow camera a frame is there from the test to the release, the size that
\* was read is still its length, and the copies follow the buffer.
HandlingFrame ==
  env.slow =>
    /\ pc = "fault" => size \in 1 .. Chunk - 1
    /\ pc # "test" => usb_buf_len > 0
    /\ pc \in {"header", "send"} => size = usb_buf_len
    /\ pc = "send" => Copied(sent) /\ (size >= Chunk => Len(sent) + Chunk <= size)
    /\ pc \in {"open", "write", "release"} =>
         Copied(sent) /\ usb_buf_len - Len(sent) \in Chunk .. 2 * Chunk - 1
    /\ pc = "write" =>
         /\ size <= usb_buf_len /\ (~env.badCard => size = usb_buf_len)
         /\ Len(chunk) <= size /\ Copied(chunk)
    /\ pc = "release" =>
         /\ Len(file) <= usb_buf_len /\ (~env.badCard => Len(file) = usb_buf_len)
         /\ Copied(file)

\* A slow camera leaves a complete frame alone.
LEMMA CameraWaits ==
  ASSUME TypeOK, BufferIsContiguous, Camera, env.slow, usb_buf_len # 0
  PROVE  UNCHANGED <<usb_buf, usb_buf_i, usb_buf_len, pkt_id>>
<1>0. /\ Usb \in Buffers /\ Usb.len # 0 /\ Usb.i = 0 /\ pos \in Nat
      /\ MaxPacket \in Nat /\ MaxPos \in Nat
  BY UsbIsRun DEF Usb, BufferIsContiguous
<1>1. ASSUME NEW n \in Nat, Parsed(Usb, n)
      PROVE  UNCHANGED <<usb_buf, usb_buf_i, usb_buf_len, pkt_id>>
  BY <1>1 DEF Parsed, Usb
<1>2. ASSUME NEW k \in Nat, pos + k <= MaxPos
      PROVE  StartCb(Usb) = Usb /\ DataCb(Usb, pos, k) = Usb
  BY <1>0, <1>2, FullIgnores
<1>3. ASSUME NEW k \in 0 .. MaxPacket, UncompPacket(k)
      PROVE  UNCHANGED <<usb_buf, usb_buf_i, usb_buf_len, pkt_id>>
  <2>1. k \in Nat
    BY <1>0
  <2>2. ~Completes(k) /\ Parsed(Uncomp(k), k)
    BY <1>3, Zenon DEF UncompPacket
  <2>3. pos + k <= MaxPos
    BY <2>2, Zenon DEF Parsed
  <2>4. Uncomp(k) = Usb
    BY <1>2, <2>1, <2>2, <2>3, Zenon DEF Uncomp
  <2>5. QED
    BY <1>1, <2>1, <2>2, <2>4
<1>4. ASSUME NEW k \in 0 .. MaxPacket, NEW rest \in 0 .. MaxPacket - k, UncompAcross(k, rest)
      PROVE  FALSE
  BY <1>4, Zenon DEF UncompAcross
<1>5. ASSUME NEW k \in 0 .. MaxPacket, NEW first \in BOOLEAN, NEW ends \in BOOLEAN,
             MjpegPacket(k, first, ends)
      PROVE  UNCHANGED <<usb_buf, usb_buf_i, usb_buf_len, pkt_id>>
  <2> DEFINE b == DataCb(IF first THEN StartCb(Usb) ELSE Usb, pos, k)
  <2>1. k \in Nat
    BY <1>0
  <2>2. ~ends /\ Parsed(IF ends THEN EndCb(b) ELSE b, k)
    BY <1>5, Zenon DEF MjpegPacket
  <2>3. pos + k <= MaxPos
    BY <2>2, Zenon DEF Parsed
  <2>4. b = Usb
    BY <1>2, <2>1, <2>3, Zenon
  <2> HIDE DEF b
  <2>5. Parsed(Usb, k)
    BY <2>2, <2>4, Zenon
  <2>6. QED
    BY <1>1, <2>1, <2>5
<1>6. QED
  BY <1>3, <1>4, <1>5 DEF Camera

\* The camera does not touch what main() works with.
LEMMA CameraKeepsMain ==
  ASSUME Camera
  PROVE  UNCHANGED <<env, pc, size, hdr, prevHdr, sent, chunk, file>>
BY DEF Camera, UncompPacket, UncompAcross, MjpegPacket, Parsed

\* The invariant about a slow camera is inductive.
LEMMA HandlingStep ==
  ASSUME TypeOK, BufferIsContiguous, HandlingFrame, [Next]_vars
  PROVE  HandlingFrame'
<1> SUFFICES ASSUME env.slow, env'.slow PROVE HandlingFrame'
  <2>1. env' = env
    BY MainKeepsBuffer, CameraKeepsMain DEF Next, vars
  <2>2. QED
    BY <2>1 DEF HandlingFrame
<1> USE DEF HandlingFrame, Copied
<1>0. /\ usb_buf_len \in Nat /\ Len(sent) \in Nat /\ Len(chunk) \in Nat /\ size \in Nat
      /\ sent \in Seq(Positions) /\ chunk \in Seq(Positions) /\ usb_buf_len <= Size
  BY DEF TypeOK
<1>1. CASE Camera
  <2>1. UNCHANGED <<env, pc, size, sent, chunk, file>>
    BY <1>1, CameraKeepsMain
  <2>2. CASE usb_buf_len = 0
    BY <1>0, <2>1, <2>2
  <2>3. CASE usb_buf_len # 0
    <3>1. UNCHANGED <<usb_buf, usb_buf_len>>
      BY <1>1, <2>3, CameraWaits
    <3>2. QED
      BY <2>1, <3>1
  <2>4. QED
    BY <2>2, <2>3
<1>2. CASE BufTest
  BY <1>0, <1>2 DEF BufTest
<1>3. CASE CallSend
  BY <1>0, <1>3 DEF CallSend
<1>4. CASE Header
  BY <1>0, <1>4 DEF Header
<1>5. CASE SendChunk
  <2>1. pc = "send" /\ SendMore /\ UNCHANGED <<env, usb_buf, usb_buf_len, size>>
    BY <1>5 DEF SendChunk
  <2>2. CASE Len(sent) + Chunk <= Size
    <3>1. sent' = sent \o [j \in 1 .. Chunk |-> usb_buf[Len(sent) + j - 1]] /\ pc' = pc
      BY <1>5, <2>2, Zenon DEF SendChunk
    <3>2. /\ Len(sent') = Len(sent) + Chunk
          /\ \A j \in 1 .. Len(sent) : sent'[j] = sent[j]
          /\ \A j \in Len(sent) + 1 .. Len(sent) + Chunk : sent'[j] = usb_buf[j - 1]
      BY <2>2, <3>1, ChunkCopied
    <3>3. \A j \in 1 .. Len(sent) : sent[j] = usb_buf[j - 1]
      BY <2>1
    <3>4. \A j \in 1 .. Len(sent') : sent'[j] = usb_buf[j - 1]
      <4>1. \A j \in 1 .. Len(sent') : j \in 1 .. Len(sent) \/ j \in Len(sent) + 1 .. Len(sent) + Chunk
        BY <1>0, <3>2
      <4>2. QED
        BY <3>2, <3>3, <4>1, Zenon
    <3>5. size >= Chunk => Len(sent') + Chunk <= size
      BY <1>0, <2>1, <3>2 DEF SendMore
    <3>6. usb_buf_len > 0 /\ size = usb_buf_len
      BY <2>1
    <3>7. QED
      BY <2>1, <3>1, <3>4, <3>5, <3>6
  <2>3. CASE ~(Len(sent) + Chunk <= Size)
    <3>1. pc' = "fault" /\ size' = size
      BY <1>5, <2>3 DEF SendChunk
    <3>2. usb_buf_len > 0 /\ size = usb_buf_len
      BY <2>1
    <3>3. size < Chunk
      BY <1>0, <2>1, <2>3, <3>2 DEF SendMore
    <3>4. QED
      BY <1>0, <2>1, <3>1, <3>2, <3>3
  <2>4. QED
    BY <2>2, <2>3
<1>6. CASE SendReturns
  BY <1>0, <1>6 DEF SendReturns, SendMore
<1>7. CASE OpenFile
  <2>1. size' \in 0 .. usb_buf_len /\ (~env.badCard => size' = usb_buf_len)
    <3>1. CASE env.badCard
      BY <1>7, <3>1, Zenon DEF OpenFile
    <3>2. CASE ~env.badCard
      <4>1. size' \in {usb_buf_len}
        BY <1>7, <3>2, Zenon DEF OpenFile
      <4>2. QED
        BY <1>0, <3>2, <4>1
    <3>3. QED
      BY <3>1, <3>2
  <2>2. size' <= usb_buf_len /\ 0 <= size'
    BY <1>0, <2>1
  <2>3. /\ pc = "open" /\ pc' = "write" /\ chunk' = <<>>
        /\ UNCHANGED <<env, usb_buf, usb_buf_len, sent>>
    BY <1>7 DEF OpenFile
  <2>4. Len(chunk') <= size' /\ Copied(chunk)'
    BY <2>2, <2>3
  <2>5. /\ usb_buf_len > 0 /\ Copied(sent)
        /\ usb_buf_len - Len(sent) \in Chunk .. 2 * Chunk - 1
    BY <2>3, Zenon
  <2>6. QED
    BY <2>1, <2>2, <2>3, <2>4, <2>5
<1>8. CASE WriteUnit
  <2>1. chunk' = Append(chunk, usb_buf[Len(chunk)])
    BY <1>8, Zenon DEF WriteUnit
  <2>2. /\ pc = "write" /\ Len(chunk) < size
        /\ UNCHANGED <<usb_buf, usb_buf_len, env, pc, size, sent>>
    BY <1>8 DEF WriteUnit, WriteSize
  <2>0. \A j \in 1 .. Len(chunk) : chunk[j] = usb_buf[j - 1]
    BY <2>2
  <2>3. Len(chunk') = Len(chunk) + 1 /\ Copied(chunk')
    <3> HIDE DEF HandlingFrame
    <3>1. Len(chunk') = Len(chunk) + 1
      BY <1>0, <2>1
    <3>2. \A j \in 1 .. Len(chunk) : chunk'[j] = chunk[j]
      BY <1>0, <2>1
    <3>3. chunk'[Len(chunk) + 1] = usb_buf[Len(chunk)]
      BY <1>0, <2>1
    <3>4. \A j \in 1 .. Len(chunk) + 1 : j \in 1 .. Len(chunk) \/ j = Len(chunk) + 1
      BY <1>0
    <3>5. (Len(chunk) + 1) - 1 = Len(chunk)
      BY <1>0
    <3>6. \A j \in 1 .. Len(chunk) + 1 : chunk'[j] = usb_buf[j - 1]
      BY <2>0, <3>2, <3>3, <3>4, <3>5, Zenon
    <3>7. QED
      BY <3>1, <3>6, Zenon
  <2>4. usb_buf_len > 0 /\ Len(chunk') <= size
    BY <1>0, <2>2, <2>3
  <2>5. /\ size' <= usb_buf_len' /\ (~env'.badCard => size' = usb_buf_len')
        /\ usb_buf_len' - Len(sent') \in Chunk .. 2 * Chunk - 1 /\ Copied(sent)'
    BY <2>2, Zenon
  <2>6. QED
    BY <2>2, <2>3, <2>4, <2>5, Zenon
<1>9. CASE CloseFile
  <2>1. /\ pc = "write" /\ pc' = "release" /\ file' = chunk /\ Len(chunk) >= size
        /\ UNCHANGED <<env, usb_buf, usb_buf_len, size, sent>>
    BY <1>9 DEF CloseFile, WriteSize
  <2>2. /\ usb_buf_len > 0 /\ Copied(sent) /\ Copied(chunk) /\ Len(chunk) <= size
        /\ usb_buf_len - Len(sent) \in Chunk .. 2 * Chunk - 1
        /\ size <= usb_buf_len /\ (~env.badCard => size = usb_buf_len)
    BY <2>1, Zenon
  <2>3. Len(chunk) = size
    BY <1>0, <2>1, <2>2
  <2>4. Len(file') <= usb_buf_len /\ (~env.badCard => Len(file') = usb_buf_len)
    BY <2>1, <2>2, <2>3, Zenon
  <2>5. Copied(file)' /\ Copied(sent)' /\ pc' = "release" /\ usb_buf_len' > 0
    BY <2>1, <2>2, Zenon
  <2>6. QED
    BY <2>1, <2>2, <2>4, <2>5
<1>10. CASE ReleaseBuffer
  BY <1>0, <1>10 DEF ReleaseBuffer
<1>11. CASE FaultISR \/ UNCHANGED vars
  <2>1. UNCHANGED <<env, usb_buf, usb_buf_len, pc, size, sent, chunk, file>>
    BY <1>11 DEF FaultISR, vars
  <2>2. QED
    BY <2>1, Zenon
<1>12. QED
  BY <1>1, <1>2, <1>3, <1>4, <1>5, <1>6, <1>7, <1>8, <1>9, <1>10, <1>11 DEF Next, Main

\* It holds initially and so always.
THEOREM Handling == Spec => []HandlingFrame
<1>1. Init => HandlingFrame
  BY DEF Init, HandlingFrame
<1>2. QED
  BY <1>1, HandlingStep, FrameBufferTypes, Contiguous, PTL DEF Spec

\* A sequence that follows the buffer is its head.
LEMMA CopiedIsCaptured ==
  ASSUME NEW s \in Seq(Positions), Copied(s)
  PROVE  s = Captured(Len(s))
BY DEF Copied, Captured

\* With a slow camera the file gets the frame that the interrupt handed over, or its
\* first part if the card is full or fails, and the base station its first chunks,
\* all but one and the rest.
THEOREM SavesCaptured == Spec => []SavedIsCaptured
<1>1. TypeOK /\ HandlingFrame => SavedIsCaptured
  <2> SUFFICES ASSUME TypeOK, HandlingFrame, env.slow, pc = "release"
               PROVE  /\ usb_buf_len > 0
                      /\ Len(file) <= usb_buf_len /\ file = Captured(Len(file))
                      /\ ~env.badCard => Len(file) = usb_buf_len
                      /\ sent = Captured(Len(sent))
                      /\ usb_buf_len - Len(sent) \in Chunk .. 2 * Chunk - 1
    BY DEF SavedIsCaptured
  <2>1. file \in Seq(Positions) /\ sent \in Seq(Positions)
    BY DEF TypeOK
  <2>2. /\ usb_buf_len > 0 /\ Copied(file) /\ Copied(sent)
        /\ usb_buf_len - Len(sent) \in Chunk .. 2 * Chunk - 1
        /\ Len(file) <= usb_buf_len /\ (~env.badCard => Len(file) = usb_buf_len)
    BY Zenon DEF HandlingFrame
  <2>3. file = Captured(Len(file)) /\ sent = Captured(Len(sent))
    BY <2>1, <2>2, CopiedIsCaptured
  <2>4. QED
    BY <2>2, <2>3
<1>2. QED
  BY <1>1, Handling, FrameBufferTypes, PTL

\* With a slow camera the send loop leaves usb_buf only for a frame that is shorter
\* than a chunk.
THEOREM StaysInside == Spec => []SendStaysInside
<1>1. HandlingFrame => SendStaysInside
  BY DEF HandlingFrame, SendStaysInside
<1>2. QED
  BY <1>1, Handling, PTL

-----------------------------------------------------------------------------

SlotOf == IF ~Calm \/ usb_buf_len = 0 \/ pc = "release" THEN <<>>
          ELSE Captured(usb_buf_len)
StoredOf == IF Calm THEN file ELSE <<>>

\* A complete frame is a run of the stream, and not empty.
LEMMA CapturedIsRun ==
  ASSUME TypeOK, BufferIsContiguous, usb_buf_len # 0
  PROVE  /\ Captured(usb_buf_len) # <<>>
         /\ Captured(usb_buf_len) \in {Slot!Run(p, n) : p \in 0 .. MaxPos, n \in 1 .. Size}
<1>1. usb_buf_len \in 1 .. Size /\ usb_buf[0] \in 0 .. MaxPos
  BY DEF TypeOK
<1>2. Captured(usb_buf_len) = Slot!Run(usb_buf[0], usb_buf_len)
  <2>1. \A j \in 1 .. usb_buf_len : usb_buf[j - 1] = usb_buf[0] + j - 1
    <3>1. SUFFICES ASSUME NEW j \in 1 .. usb_buf_len
                   PROVE  usb_buf[j - 1] = usb_buf[0] + j - 1
      OBVIOUS
    <3>2. j - 1 \in 0 .. usb_buf_len - 1
      BY <1>1
    <3>3. usb_buf[j - 1] = usb_buf[0] + (j - 1)
      BY <3>2 DEF BufferIsContiguous
    <3>4. QED
      BY <1>1, <3>3
  <2>2. QED
    BY <2>1 DEF Captured, Slot!Run
<1>3. Captured(usb_buf_len) # <<>>
  BY <1>1 DEF Captured
<1>4. QED
  BY <1>1, <1>2, <1>3

\* Every step of the program is a step of the mailbox, or leaves it alone.
LEMMA StepRefines ==
  ASSUME TypeOK, TypeOK', BufferIsContiguous, BufferIsContiguous', HandlingFrame,
         [Next]_vars
  PROVE  Slot!Next \/ UNCHANGED <<SlotOf, StoredOf>>
<1> USE DEF SlotOf, StoredOf
<1>1. CASE ~Calm
  <2>1. env' = env
    BY MainKeepsBuffer, CameraKeepsMain DEF Next, vars
  <2>2. QED
    BY <1>1, <2>1 DEF Calm
<1>2. CASE Calm /\ Camera
  <2>1. UNCHANGED <<env, pc, file>>
    BY <1>2, CameraKeepsMain
  <2>2. Calm' /\ env.slow
    BY <1>2, <2>1 DEF Calm
  <2>3. CASE usb_buf_len # 0
    <3>1. UNCHANGED <<usb_buf, usb_buf_len>>
      BY <1>2, <2>2, <2>3, CameraWaits
    <3>2. QED
      BY <1>2, <2>1, <2>2, <3>1 DEF Captured
  <2>4. CASE usb_buf_len = 0 /\ usb_buf_len' = 0
    BY <1>2, <2>1, <2>2, <2>4
  <2>5. CASE usb_buf_len = 0 /\ usb_buf_len' # 0
    <3>1. pc = "test"
      BY <2>2, <2>5 DEF HandlingFrame
    <3>2. Captured(usb_buf_len)' \in {Slot!Run(p, n) : p \in 0 .. MaxPos, n \in 1 .. Size}
      <4>1. (TypeOK /\ BufferIsContiguous /\ usb_buf_len # 0 =>
               Captured(usb_buf_len) \in {Slot!Run(p, n) : p \in 0 .. MaxPos, n \in 1 .. Size})'
        BY CapturedIsRun, PTL
      <4>2. QED
        BY <2>5, <4>1
    <3>3. SlotOf = <<>> /\ SlotOf' = Captured(usb_buf_len)' /\ StoredOf' = StoredOf
      BY <1>2, <2>1, <2>2, <2>5, <3>1
    <3>4. QED
      BY <3>2, <3>3 DEF Slot!Next, Slot!Fill, Slot!Runs
  <2>6. QED
    BY <2>3, <2>4, <2>5
<1>3. CASE Calm /\ CloseFile
  <2>1. usb_buf_len > 0 /\ Len(chunk) = usb_buf_len /\ Copied(chunk)
    <3>1. pc = "write" /\ env.slow /\ ~env.badCard /\ Len(chunk) >= size
      BY <1>3 DEF CloseFile, WriteSize, Calm
    <3>2. usb_buf_len > 0 /\ size = usb_buf_len /\ Len(chunk) <= size /\ Copied(chunk)
      BY <3>1, Zenon DEF HandlingFrame
    <3>3. chunk \in Seq(Positions) /\ size \in Nat
      BY DEF TypeOK
    <3>4. Len(chunk) \in Nat
      BY <3>3
    <3>5. QED
      BY <3>1, <3>2, <3>3, <3>4
  <2>2. chunk = Captured(usb_buf_len)
    <3>1. chunk \in Seq(Positions)
      BY DEF TypeOK
    <3>2. QED
      BY <2>1, <3>1, CopiedIsCaptured
  <2>3. pc = "write" /\ pc' = "release" /\ file' = chunk /\ UNCHANGED env
    BY <1>3 DEF CloseFile
  <2>4. SlotOf = chunk /\ SlotOf' = <<>> /\ StoredOf' = chunk
    BY <1>3, <2>1, <2>2, <2>3 DEF Calm
  <2>5. usb_buf_len # 0
    BY <2>1
  <2>6. SlotOf # <<>>
    BY <2>2, <2>4, <2>5, CapturedIsRun
  <2>7. QED
    BY <2>4, <2>6 DEF Slot!Next, Slot!Store
<1>4. CASE Calm /\ ReleaseBuffer
  BY <1>4 DEF ReleaseBuffer, Calm
<1>5. CASE Calm /\ (\/ BufTest \/ CallSend \/ Header \/ SendChunk \/ SendReturns
                     \/ OpenFile \/ WriteUnit \/ FaultISR \/ UNCHANGED vars)
  <2>1. \/ UNCHANGED <<env, usb_buf, usb_buf_len, file>> /\ pc # "release" /\ pc' # "release"
        \/ UNCHANGED <<env, usb_buf, usb_buf_len, file, pc>>
    BY <1>5 DEF BufTest, CallSend, Header, SendChunk, SendReturns, OpenFile, WriteUnit,
                FaultISR, vars
  <2>2. QED
    BY <1>5, <2>1 DEF Calm, Captured
<1>6. QED
  BY <1>1, <1>2, <1>3, <1>4, <1>5 DEF Next, Main

\* With a slow camera and a good card usb_buf is a mailbox with one place: no frame
\* is replaced, torn or saved twice.
THEOREM BufferIsMailbox == Spec => SlotSpec
<1>1. Init => Slot!Init
  BY DEF Init, Slot!Init
<1>2. /\ TypeOK /\ TypeOK' /\ BufferIsContiguous /\ BufferIsContiguous' /\ HandlingFrame
      /\ [Next]_vars
      => Slot!Next \/ UNCHANGED <<SlotOf, StoredOf>>
  BY StepRefines
<1>3. QED
  BY <1>1, <1>2, FrameBufferTypes, Contiguous, Handling, PTL
     DEF Spec, SlotSpec, Slot!Spec, SlotOf, StoredOf

-----------------------------------------------------------------------------
\* If no packet begins a frame without data, the parser is in a frame exactly when the
\* stream is, and what is collected of a frame that fits began no earlier than it. With
\* a slow camera the id grows exactly when a frame begins in an empty buffer, and main()
\* puts it into a header before it can grow again.
IdFollowsFrame ==
  ~env.mjpeg /\ ~env.bare /\ Units < Size =>
    /\ started <=> pos % Units # 0
    /\ usb_buf_i <= pos % Units
    /\ env.slow /\ pc \in {"test", "call", "header"} =>
         /\ usb_buf_len = 0 /\ usb_buf_i = 0 => pkt_id = hdr
         /\ (usb_buf_len # 0 \/ usb_buf_i # 0) /\ usb_buf[0] % Units = 0 => pkt_id # hdr
    /\ env.slow /\ pc \in {"send", "open", "write", "release"} => pkt_id = hdr
    /\ env.slow /\ pc = "send" /\ usb_buf[0] % Units = 0 => hdr # prevHdr

\* A remainder that stays below the divisor grows with the number.
LEMMA RemainderGrows ==
  ASSUME NEW n \in Nat \ {0}, NEW a \in Nat, NEW k \in Nat, (a % n) + k <= n
  PROVE  /\ a % n \in Nat
         /\ (a % n) + k < n => (a + k) % n = (a % n) + k
         /\ (a % n) + k = n => (a + k) % n = 0
<1>1. a % n \in 0 .. n - 1 /\ a = n * (a \div n) + (a % n) /\ a \div n \in Nat
  OBVIOUS
<1>2. \A q \in Nat : \A r \in 0 .. n - 1 : (n * q + r) % n = r
  OBVIOUS
<1>3. (a % n) + k < n => (a + k) % n = (a % n) + k
  <2>1. SUFFICES ASSUME (a % n) + k < n PROVE (a + k) % n = (a % n) + k
    OBVIOUS
  <2>2. a + k = n * (a \div n) + ((a % n) + k)
    BY <1>1
  <2>3. QED
    BY <1>1, <1>2, <2>1, <2>2
<1>4. (a % n) + k = n => (a + k) % n = 0
  <2>1. SUFFICES ASSUME (a % n) + k = n PROVE (a + k) % n = 0
    OBVIOUS
  <2>2. a + k = n * ((a \div n) + 1) + 0
    BY <1>1, <2>1
  <2>3. (a \div n) + 1 \in Nat /\ 0 \in 0 .. n - 1
    BY <1>1
  <2>4. (n * ((a \div n) + 1) + 0) % n = 0
    BY <1>2, <2>3
  <2>5. QED
    BY <2>2, <2>4
<1>5. QED
  BY <1>1, <1>3, <1>4

\* Data of an uncompressed frame that fits: it all goes into a buffer that is not
\* complete, its first unit to the start if the buffer is empty.
LEMMA DataOfFrame ==
  ASSUME TypeOK, BufferIsContiguous, usb_buf_i <= pos % Units, Units < Size,
         NEW k \in Nat \ {0}, (pos % Units) + k <= Units, pos + k <= MaxPos,
         NEW u, u = Uncomp(k)
  PROVE  /\ u \in Buffers
         /\ Completes(k) => u.i = 0
         /\ ~Completes(k) => u.i <= (pos % Units) + k
         /\ usb_buf_len # 0 => u.i = 0
         /\ usb_buf_len = 0 =>
              /\ u.len # 0 \/ u.i # 0
              /\ Completes(k) => u.len # 0
              /\ usb_buf_i = 0 => u.buf[0] = pos
              /\ usb_buf_i # 0 => u.buf[0] = usb_buf[0]
              /\ u.id = IF started THEN pkt_id ELSE StartCb(Usb).id
<1> DEFINE b == IF started THEN Usb ELSE StartCb(Usb)
           d == DataCb(b, pos, k)
<1>1. /\ Usb.buf = usb_buf /\ Usb.len = usb_buf_len /\ Usb.i = usb_buf_i /\ Usb.id = pkt_id
      /\ HoldsRun(Usb, pos) /\ Usb \in Buffers
  BY UsbIsRun DEF Usb
<1>2. /\ usb_buf_i \in Nat /\ pos \in Nat /\ k \in Nat /\ k >= 1 /\ 0 \in 0 .. Size - 1
      /\ Units \in Nat \ {0} /\ Size \in Nat /\ usb_buf_len \in Nat /\ pos % Units \in Nat
  BY DEF TypeOK
<1>3. HoldsRun(b, pos) /\ b.buf = usb_buf /\ b.len = usb_buf_len /\ b.i = usb_buf_i
  <2>1. StartCb(Usb).buf = usb_buf /\ StartCb(Usb).len = usb_buf_len /\ StartCb(Usb).i = usb_buf_i
    BY <1>1, StartEffect
  <2>2. HoldsRun(StartCb(Usb), pos)
    BY <1>1, <1>2, StartKeepsRun
  <2>3. QED
    BY <1>1, <2>1, <2>2, Zenon
<1>4. b.id = IF started THEN pkt_id ELSE StartCb(Usb).id
  BY <1>1, Zenon
<1> HIDE DEF b
<1>5. b \in Buffers /\ Takes(b, pos, k, d)
  <2>1. b \in Buffers
    BY <1>3 DEF HoldsRun
  <2>2. QED
    BY <1>2, <2>1, DataEffect
<1>6. usb_buf_i + k < Size
  BY <1>2
<1>7. Room(b, k) = (IF usb_buf_len # 0 THEN 0 ELSE k)
  BY <1>2, <1>3, <1>6 DEF Room
<1>8. /\ d \in Buffers /\ d.id = b.id /\ d.len = usb_buf_len /\ d.i = usb_buf_i + Room(b, k)
      /\ d.buf[0] = IF usb_buf_i <= 0 /\ 0 < usb_buf_i + Room(b, k)
                    THEN pos + 0 - usb_buf_i ELSE usb_buf[0]
  <2>1. ~(b.len = 0 /\ b.i + Room(b, k) = Size)
    BY <1>2, <1>3, <1>6, <1>7
  <2>2. d \in Buffers /\ d.id = b.id /\ d.len = b.len /\ d.i = b.i + Room(b, k)
    BY <1>5, <2>1, Zenon DEF Takes
  <2>3. d.buf[0] = IF b.i <= 0 /\ 0 < b.i + Room(b, k) THEN pos + 0 - b.i ELSE b.buf[0]
    BY <1>2, <1>5, Zenon DEF Takes
  <2>4. QED
    BY <1>3, <2>2, <2>3, Zenon
<1>9. /\ usb_buf_len # 0 => usb_buf_i = 0 /\ d.i = 0
      /\ usb_buf_len = 0 => /\ d.i = usb_buf_i + k /\ d.i # 0
                            /\ usb_buf_i = 0 => d.buf[0] = pos
                            /\ usb_buf_i # 0 => d.buf[0] = usb_buf[0]
  BY <1>2, <1>7, <1>8 DEF BufferIsContiguous
<1>10. d.i <= (pos % Units) + k
  BY <1>2, <1>7, <1>8
<1>11. u = IF Completes(k) THEN EndCb(d) ELSE d
  BY Zenon DEF Uncomp, b
<1> HIDE DEF d
<1>12. CASE Completes(k)
  <2>1. u = EndCb(d)
    BY <1>11, <1>12
  <2>2. /\ u \in Buffers
        /\ u.i = 0 /\ u.len = d.i /\ u.buf = d.buf /\ u.id = d.id
    BY <1>8, <2>1, EndEffect
  <2>3. QED
    BY <1>4, <1>8, <1>9, <1>12, <2>2, Zenon
<1>13. CASE ~Completes(k)
  <2>1. u = d
    BY <1>11, <1>13
  <2>2. QED
    BY <1>4, <1>8, <1>9, <1>10, <1>13, <2>1, Zenon
<1>14. QED
  BY <1>12, <1>13

\* What a packet leaves of all this: the data of one frame, or the end of one and the
\* beginning of the next, which a complete buffer keeps out.
LEMMA PacketOfFrame ==
  ASSUME TypeOK, BufferIsContiguous, IdFollowsFrame, Camera,
         ~env.mjpeg, ~env.bare, Units < Size
  PROVE  /\ started' <=> pos' % Units # 0
         /\ usb_buf_i' <= pos' % Units
         /\ env.slow /\ usb_buf_len = 0 =>
              /\ usb_buf_len' # 0 \/ usb_buf_i' # 0
              /\ usb_buf_i = 0 => usb_buf'[0] = pos
              /\ usb_buf_i # 0 => usb_buf'[0] = usb_buf[0]
              /\ pkt_id' = IF started THEN pkt_id ELSE StartCb(Usb).id
<1>0. /\ pos \in Nat /\ MaxPacket \in Nat /\ MaxPacket <= Units /\ Units \in Nat \ {0}
      /\ usb_buf_i <= pos % Units /\ MaxPos \in Nat
  <2>1. usb_buf_i <= pos % Units
    BY Zenon DEF IdFollowsFrame
  <2>2. QED
    BY <2>1 DEF TypeOK
<1>1. started <=> pos % Units # 0
  BY Zenon DEF IdFollowsFrame
<1>2. ASSUME NEW k \in 0 .. MaxPacket, UncompPacket(k)
      PROVE  /\ started' <=> pos' % Units # 0
             /\ usb_buf_i' <= pos' % Units
             /\ env.slow /\ usb_buf_len = 0 =>
                  /\ usb_buf_len' # 0 \/ usb_buf_i' # 0
                  /\ usb_buf_i = 0 => usb_buf'[0] = pos
                  /\ usb_buf_i # 0 => usb_buf'[0] = usb_buf[0]
                  /\ pkt_id' = IF started THEN pkt_id ELSE StartCb(Usb).id
  <2> DEFINE u == Uncomp(k)
  <2>1. /\ (pos % Units) + k <= Units /\ k # 0 /\ Parsed(u, k)
        /\ started' = ~Completes(k)
    BY <1>2, Zenon DEF UncompPacket
  <2>2. /\ usb_buf' = u.buf /\ usb_buf_len' = u.len /\ usb_buf_i' = u.i /\ pkt_id' = u.id
        /\ pos' = pos + k /\ pos + k <= MaxPos
    BY <2>1, Zenon DEF Parsed
  <2>3. k \in Nat \ {0} /\ pos % Units \in Nat
    BY <1>0, <2>1
  <2>4. /\ (pos % Units) + k < Units => pos' % Units = (pos % Units) + k
        /\ (pos % Units) + k = Units => pos' % Units = 0
    <3>1. /\ (pos % Units) + k < Units => (pos + k) % Units = (pos % Units) + k
          /\ (pos % Units) + k = Units => (pos + k) % Units = 0
      BY <1>0, <2>1, <2>3, RemainderGrows
    <3>2. QED
      BY <2>2, <3>1
  <2>5. /\ Completes(k) => u.i = 0
        /\ ~Completes(k) => u.i <= (pos % Units) + k
        /\ usb_buf_len = 0 =>
              /\ u.len # 0 \/ u.i # 0
              /\ usb_buf_i = 0 => u.buf[0] = pos
              /\ usb_buf_i # 0 => u.buf[0] = usb_buf[0]
              /\ u.id = IF started THEN pkt_id ELSE StartCb(Usb).id
    BY <1>0, <2>1, <2>2, <2>3, DataOfFrame
  <2> HIDE DEF u
  <2>6. pos' % Units = 0 <=> Completes(k)
    BY <1>0, <2>1, <2>3, <2>4 DEF Completes
  <2>7. usb_buf_i' <= pos' % Units
    <3>1. CASE Completes(k)
      BY <2>2, <2>4, <2>5, <3>1 DEF Completes
    <3>2. CASE ~Completes(k)
      BY <1>0, <2>1, <2>2, <2>3, <2>4, <2>5, <3>2 DEF Completes
    <3>3. QED
      BY <3>1, <3>2
  <2>8. QED
    BY <2>1, <2>2, <2>5, <2>6, <2>7, Zenon
<1>3. ASSUME NEW k \in 0 .. MaxPacket, NEW rest \in 0 .. MaxPacket - k, UncompAcross(k, rest)
      PROVE  /\ started' <=> pos' % Units # 0
             /\ usb_buf_i' <= pos' % Units
             /\ env.slow /\ usb_buf_len = 0 =>
                  /\ usb_buf_len' # 0 \/ usb_buf_i' # 0
                  /\ usb_buf_i = 0 => usb_buf'[0] = pos
                  /\ usb_buf_i # 0 => usb_buf'[0] = usb_buf[0]
                  /\ pkt_id' = IF started THEN pkt_id ELSE StartCb(Usb).id
  <2> DEFINE u == Uncomp(k)
             d == DataCb(StartCb(u), pos + k, rest)
  <2>1. k > 0 /\ rest # 0 /\ Completes(k) /\ Parsed(d, k + rest) /\ started' = TRUE
    BY <1>3, Zenon DEF UncompAcross
  <2>2. /\ usb_buf' = d.buf /\ usb_buf_len' = d.len /\ usb_buf_i' = d.i /\ pkt_id' = d.id
        /\ pos' = pos + (k + rest) /\ pos + (k + rest) <= MaxPos
    BY <2>1, Zenon DEF Parsed
  <2>3. /\ k \in Nat \ {0} /\ rest \in Nat \ {0} /\ k + rest <= MaxPacket
        /\ pos % Units \in Nat /\ pos + k \in Nat /\ pos + k <= MaxPos
        /\ (pos + k) + rest <= MaxPos /\ pos' = (pos + k) + rest /\ rest < Units
    BY <1>0, <2>1, <2>2
  <2>4. (pos % Units) + k = Units
    BY <2>1 DEF Completes
  <2>5. (pos + k) % Units = 0
    <3>1. Units \in Nat \ {0} /\ pos \in Nat /\ k \in Nat /\ (pos % Units) + k <= Units
      BY <1>0, <2>3, <2>4
    <3>2. QED
      BY ONLY <2>4, <3>1, RemainderGrows
  <2>6. pos' % Units = rest
    <3>1. ((pos + k) % Units) + rest < Units
      BY <2>3, <2>5
    <3>2. ((pos + k) + rest) % Units = ((pos + k) % Units) + rest
      <4>1. /\ Units \in Nat \ {0} /\ pos + k \in Nat /\ rest \in Nat
            /\ ((pos + k) % Units) + rest <= Units
        BY <1>0, <2>3, <2>5
      <4>2. QED
        BY ONLY <3>1, <4>1, RemainderGrows
    <3>3. QED
      BY <2>3, <2>5, <3>2
  <2>7. /\ u \in Buffers /\ u.i = 0
        /\ usb_buf_len = 0 =>
              /\ u.len # 0
              /\ usb_buf_i = 0 => u.buf[0] = pos
              /\ usb_buf_i # 0 => u.buf[0] = usb_buf[0]
              /\ u.id = IF started THEN pkt_id ELSE StartCb(Usb).id
    BY <1>0, <2>1, <2>3, <2>4, DataOfFrame
  <2>8. usb_buf_len = 0 => d = u
    <3>1. ASSUME usb_buf_len = 0 PROVE StartCb(u) = u /\ DataCb(u, pos + k, rest) = u
      BY <2>3, <2>7, <3>1, FullIgnores
    <3>2. QED
      BY <3>1, Zenon
  <2>9. d.i <= rest
    <3>1. StartCb(u) \in Buffers /\ StartCb(u).i = 0
      BY <2>7, StartEffect
    <3>2. Takes(StartCb(u), pos + k, rest, d)
      BY <2>3, <3>1, DataEffect
    <3> DEFINE n == Room(StartCb(u), rest)
    <3>3. n \in 0 .. rest /\ (d.i = 0 \/ d.i = StartCb(u).i + n)
      BY <3>2, Zenon DEF Takes
    <3> HIDE DEF d, n
    <3>4. QED
      BY <2>3, <3>1, <3>3
  <2> HIDE DEF u, d
  <2>10. QED
    <3>1. pos' % Units # 0
      BY <2>3, <2>6
    <3>2. usb_buf_i' <= pos' % Units
      BY <2>2, <2>6, <2>9
    <3>3. QED
      BY <2>1, <2>2, <2>7, <2>8, <3>1, <3>2, Zenon
<1>4. ASSUME NEW k \in 0 .. MaxPacket, NEW first \in BOOLEAN, NEW ends \in BOOLEAN,
             MjpegPacket(k, first, ends)
      PROVE  FALSE
  BY <1>4, Zenon DEF MjpegPacket
<1>5. QED
  BY <1>2, <1>3, <1>4 DEF Camera

\* The camera's part.
LEMMA CameraFollows ==
  ASSUME TypeOK, BufferIsContiguous, HandlingFrame, IdFollowsFrame, Camera
  PROVE  IdFollowsFrame'
<1> SUFFICES ASSUME ~env.mjpeg, ~env.bare, Units < Size PROVE IdFollowsFrame'
  <2>1. env' = env
    BY CameraKeepsMain
  <2>2. QED
    BY <2>1, Zenon DEF IdFollowsFrame
<1>1. UNCHANGED <<env, pc, size, hdr, prevHdr>>
  BY CameraKeepsMain
<1>2. started' <=> pos' % Units # 0
  BY PacketOfFrame, Zenon
<1>3. usb_buf_i' <= pos' % Units
  BY PacketOfFrame, Zenon
<1>4. CASE env.slow /\ usb_buf_len # 0
  <2>1. UNCHANGED <<usb_buf, usb_buf_i, usb_buf_len, pkt_id>>
    BY <1>4, CameraWaits
  <2>2. QED
    BY <1>1, <1>2, <1>3, <2>1, Zenon DEF IdFollowsFrame
<1>5. CASE env.slow /\ usb_buf_len = 0
  <2>1. pc = "test"
    BY <1>5 DEF HandlingFrame
  <2>2. /\ usb_buf_len' # 0 \/ usb_buf_i' # 0
        /\ usb_buf_i = 0 => usb_buf'[0] = pos
        /\ usb_buf_i # 0 => usb_buf'[0] = usb_buf[0]
        /\ pkt_id' = IF started THEN pkt_id ELSE StartCb(Usb).id
    BY <1>5, PacketOfFrame, Zenon
  <2>3. usb_buf'[0] % Units = 0 => pkt_id' # hdr
    <3>1. CASE usb_buf_i = 0
      <4>1. pkt_id = hdr
        BY <1>5, <2>1, <3>1, Zenon DEF IdFollowsFrame
      <4>2. pos % Units = 0 => ~started
        BY Zenon DEF IdFollowsFrame
      <4>3. StartCb(Usb).id # pkt_id
        <5>1. Usb \in Buffers /\ Usb.len = 0 /\ Usb.id = pkt_id
          BY <1>5, UsbIsRun DEF Usb
        <5>2. QED
          BY <5>1, StartEffect
      <4>4. QED
        BY <2>2, <3>1, <4>1, <4>2, <4>3, Zenon
    <3>2. CASE usb_buf_i # 0
      <4>1. usb_buf_i <= pos % Units
        BY Zenon DEF IdFollowsFrame
      <4>2. usb_buf_i \in Nat
        BY DEF TypeOK
      <4>3. pos % Units # 0
        BY <3>2, <4>1, <4>2
      <4>4. pkt_id' = pkt_id
        BY <2>2, <4>3, Zenon DEF IdFollowsFrame
      <4>5. usb_buf[0] % Units = 0 => pkt_id # hdr
        BY <1>5, <2>1, <3>2, Zenon DEF IdFollowsFrame
      <4>6. QED
        BY <1>1, <2>2, <3>2, <4>4, <4>5, Zenon
    <3>3. QED
      BY <3>1, <3>2
  <2>4. pc' = "test" /\ env' = env /\ hdr' = hdr
    BY <1>1, <2>1
  <2>5. pc' \notin {"send", "open", "write", "release"}
    BY <2>4
  <2>6. usb_buf_len' = 0 /\ usb_buf_i' = 0 => pkt_id' = hdr'
    BY <2>2, Zenon
  <2>7. QED
    BY <1>2, <1>3, <2>3, <2>4, <2>5, <2>6, Zenon DEF IdFollowsFrame
<1>6. CASE ~env.slow
  BY <1>1, <1>2, <1>3, <1>6, Zenon DEF IdFollowsFrame
<1>7. QED
  BY <1>4, <1>5, <1>6

\* main()'s part.
LEMMA MainFollows ==
  ASSUME TypeOK, BufferIsContiguous, HandlingFrame, IdFollowsFrame, Main
  PROVE  IdFollowsFrame'
<1> SUFFICES ASSUME ~env.mjpeg, ~env.bare, Units < Size PROVE IdFollowsFrame'
  <2>1. env' = env
    BY MainKeepsBuffer
  <2>2. QED
    BY <2>1, Zenon DEF IdFollowsFrame
<1>1. UNCHANGED <<env, usb_buf, usb_buf_i, pos, started>>
  BY MainKeepsBuffer
<1>2. CASE BufTest \/ CallSend
  <2>1. UNCHANGED <<usb_buf_len, pkt_id, hdr, prevHdr>>
        /\ pc \in {"test", "call"} /\ pc' \in {"test", "call", "header"}
    BY <1>2 DEF BufTest, CallSend, shared
  <2>2. QED
    BY <1>1, <2>1 DEF IdFollowsFrame
<1>3. CASE Header
  <2>1. /\ pc = "header" /\ pc' = "send" /\ hdr' = pkt_id /\ prevHdr' = hdr
        /\ UNCHANGED <<usb_buf_len, pkt_id>>
    BY <1>3 DEF Header, shared
  <2>2. env.slow => usb_buf_len # 0
    BY <2>1 DEF HandlingFrame, TypeOK
  <2>3. QED
    BY <1>1, <2>1, <2>2 DEF IdFollowsFrame
<1>4. CASE SendChunk \/ SendReturns \/ OpenFile \/ WriteUnit \/ CloseFile \/ FaultISR
  <2>1. /\ UNCHANGED <<usb_buf_len, pkt_id, hdr, prevHdr>>
        /\ pc \in {"send", "open", "write", "release", "fault"}
        /\ pc' \in {"send", "open", "write", "release", "fault"}
        /\ pc = "fault" => pc' = "fault"
        /\ pc' = "send" => pc = "send"
    BY <1>4 DEF SendChunk, SendReturns, OpenFile, WriteUnit, CloseFile, FaultISR, shared, vars
  <2>2. QED
    BY <1>1, <2>1 DEF IdFollowsFrame
<1>5. CASE ReleaseBuffer
  <2>1. /\ pc = "release" /\ pc' = "test" /\ usb_buf_len' = 0
        /\ UNCHANGED <<pkt_id, hdr, prevHdr>>
    BY <1>5 DEF ReleaseBuffer
  <2>2. env.slow => usb_buf_i = 0
    BY <2>1 DEF HandlingFrame, TypeOK, BufferIsContiguous
  <2>3. QED
    BY <1>1, <2>1, <2>2 DEF IdFollowsFrame
<1>6. QED
  BY <1>2, <1>3, <1>4, <1>5 DEF Main

\* Two frames in a row that are sent from their first unit never share an id, the wrap
\* from 255 to 1 and frames that were dropped in between included, as long as a packet
\* that begins a frame holds some of its data.
THEOREM IdsAreFresh == Spec => []FreshId
<1>1. Init => IdFollowsFrame
  <2> SUFFICES ASSUME Init PROVE IdFollowsFrame
    OBVIOUS
  <2>1. /\ usb_buf_i = 0 /\ usb_buf_len = 0 /\ pkt_id = 0 /\ hdr = 0 /\ pos = 0 /\ pc = "test"
        /\ started = FALSE
    BY DEF Init
  <2>2. pos % Units = 0
    BY <2>1, FrameBufferAssumption
  <2>3. QED
    BY <2>1, <2>2 DEF IdFollowsFrame
<1>2. TypeOK /\ BufferIsContiguous /\ HandlingFrame /\ IdFollowsFrame /\ [Next]_vars
      => IdFollowsFrame'
  <2>1. ASSUME UNCHANGED vars, IdFollowsFrame PROVE IdFollowsFrame'
    BY <2>1 DEF vars, shared, IdFollowsFrame
  <2>2. QED
    BY <2>1, CameraFollows, MainFollows DEF Next
<1>3. IdFollowsFrame => FreshId
  BY DEF IdFollowsFrame, FreshId
<1>4. QED
  BY <1>1, <1>2, <1>3, FrameBufferTypes, Contiguous, Handling, PTL DEF Spec

=============================================================================
