---------------------------- MODULE BaseStation ----------------------------
(***************************************************************************)
(* BaseStation/client.cpp: the listener thread collects the packets of a   *)
(* frame, writes the frame to data.raw and stores it for the thread of the *)
(* window, which draws it when it gets the signal. A datagram is one       *)
(* packet, as WIFI_sendUSBData() sends it; the data of a packet is the     *)
(* number of the camera's frame it was cut from, 0 is what nobody sent.    *)
(*                                                                         *)
(* A step of the listener is one system call, one locked access of im or   *)
(* one call of Qt; draw() is two steps, for it looks at im twice.          *)
(***************************************************************************)
EXTENDS Integers, Sequences

CONSTANTS
  Frames,     \* bound: no sender sends more frames
  Chunks,     \* packets of one frame
  MaxId,      \* the highest pkt_id, 255 in the code
  InFlight,   \* bound: datagrams in the network and in the socket
  Timeout,    \* DISCONNECTED_IMAGE_TIMEOUT
  MaxSignals, \* bound: signals that wait; draw() shows the same for one more
  Networks    \* what the base station may meet: a set of Conditions

Conditions ==
  [frames : 0 .. Frames, \* how many the sender sends
   lossy : BOOLEAN, duplicates : BOOLEAN, reorders : BOOLEAN,
   reboots : BOOLEAN,   \* the camera's board may restart
   tails : BOOLEAN,     \* it may send another buffer under the same id
   mjpeg : BOOLEAN,     \* the frames are JPEG images
   faults : BOOLEAN,    \* the base station's system calls may fail
   noPicture : BOOLEAN] \* the image for "disconnected" was not found

ASSUME BaseStationAssumption ==
  /\ Frames \in Nat /\ Chunks \in Nat \ {0} /\ MaxId \in Nat \ {0, 1}
  /\ InFlight \in Nat /\ Timeout \in Nat /\ MaxSignals \in Nat \ {0}
  /\ Networks \subseteq Conditions

VARIABLES
  env,
  frame, chunk, id,    \* the sender: its frame, the next packet of it, its id
  channel,             \* datagrams on their way
  pc, running, ntimeouts,
  pkt,                 \* the packet that recvfrom() returned
  pkts,                \* what the packets in pkts are assembled to, and their id
  tmp,                 \* the image to be displayed
  saved,               \* what was written to data.raw, frame by frame
  im, signals,         \* shared with the window
  gui, screen, label   \* the window: what it does and shows

sender == <<frame, chunk, id>>
window == <<gui, screen, label>>
vars == <<env, sender, channel, pc, running, ntimeouts, pkt, pkts, tmp, saved,
          im, signals, window>>

Packets == [id : 0 .. MaxId, frame : 0 .. Frames, offset : 0 .. Chunks - 1]
Raws == Seq(0 .. Frames)
Images == [kind : {"empty", "blank", "disconnected", "frame"},
           id : 0 .. MaxId, raw : Raws]
Empty == [kind |-> "empty", id |-> 0, raw |-> <<>>]
Blank == [Empty EXCEPT !.kind = "blank"]

TypeOK ==
  /\ env \in Networks
  /\ frame \in 0 .. Frames /\ chunk \in 0 .. Chunks /\ id \in 0 .. MaxId
  /\ channel \in Seq(Packets)
  /\ pc \in {"bind", "poll", "recv", "assemble", "display", "emit", "label",
             "push", "ended"}
  /\ running \in BOOLEAN
  /\ ntimeouts \in 0 .. Timeout + 1
  /\ pkt \in Packets
  /\ pkts \in [id : 0 .. MaxId, raw : Raws]
  /\ tmp \in Images /\ im \in Images /\ screen \in Images
  /\ saved \in Seq(Raws)
  /\ signals \in 0 .. MaxSignals
  /\ gui \in {"idle", "drawing", "blanking", "waiting", "closed", "crashed"}
  /\ label \in 0 .. MaxId

Init ==
  /\ env \in Networks
  /\ frame = 0 /\ chunk = Chunks /\ id = 0
  /\ channel = <<>>
  /\ pc = "bind" /\ running = TRUE /\ ntimeouts = Timeout
  /\ pkt = [id |-> 0, frame |-> 0, offset |-> 0]
  /\ pkts = [id |-> 0, raw |-> <<>>]
  /\ tmp = Empty /\ saved = <<>>
  /\ im = Empty /\ signals = 0
  /\ gui = "idle" /\ screen = Empty /\ label = 0

-----------------------------------------------------------------------------
\* The board and the network.

\* Mutant: 255 is not the last.
IdGrows(i) == i + 1

\* pkt_id wraps to 1.
NextId(i) == IF i = MaxId THEN 1 ELSE i + 1

NextFrame ==
  /\ chunk = Chunks /\ frame < env.frames
  /\ frame' = frame + 1
  /\ chunk' = 0
  /\ \/ id' = NextId(id)
     \/ env.tails /\ id # 0 /\ id' = id
  /\ UNCHANGED <<env, channel, pc, running, ntimeouts, pkt, pkts, tmp, saved,
                 im, signals, window>>

SendChunk ==
  /\ chunk < Chunks
  /\ chunk' = chunk + 1
  /\ LET p == [id |-> id, frame |-> frame, offset |-> chunk]
     IN  \/ Len(channel) < InFlight /\ channel' = Append(channel, p)
         \/ env.duplicates /\ Len(channel) + 1 < InFlight /\ channel' = channel \o <<p, p>>
         \/ env.lossy /\ channel' = channel
  /\ UNCHANGED <<env, frame, id, pc, running, ntimeouts, pkt, pkts, tmp, saved,
                 im, signals, window>>

Reboot ==
  /\ env.reboots /\ id # 0
  /\ id' = 0 /\ chunk' = Chunks
  /\ UNCHANGED <<env, frame, channel, pc, running, ntimeouts, pkt, pkts, tmp, saved,
                 im, signals, window>>

Board == NextFrame \/ SendChunk \/ Reboot

-----------------------------------------------------------------------------
\* listener()

\* socket() and bind().
Bind ==
  /\ pc = "bind"
  /\ \/ pc' = "poll"
     \/ env.faults /\ pc' = "ended"
  /\ UNCHANGED <<env, sender, channel, running, ntimeouts, pkt, pkts, tmp, saved,
                 im, signals, window>>

\* The condition of the loop.
Stop ==
  /\ pc = "poll" /\ ~running
  /\ pc' = "ended"
  /\ UNCHANGED <<env, sender, channel, running, ntimeouts, pkt, pkts, tmp, saved,
                 im, signals, window>>

\* poll() finds a datagram. Or it fails, which is not told apart from success.
PollReady ==
  /\ pc = "poll" /\ running
  /\ channel # <<>> \/ env.faults
  /\ ntimeouts' = 0
  /\ pc' = "recv"
  /\ UNCHANGED <<env, sender, channel, running, pkt, pkts, tmp, saved, im, signals, window>>

\* The image for "disconnected", as imread() returns it.
Disconnected == [Empty EXCEPT !.kind = IF env.noPicture THEN "empty" ELSE "disconnected"]

\* Mutant: the counter stays.
PollUncounted ==
  /\ pc = "poll" /\ running
  /\ UNCHANGED vars

\* No datagram has come yet. The counter of the code grows on; only its comparison
\* with the bound is looked at.
PollTimeout ==
  /\ pc = "poll" /\ running
  /\ ntimeouts' = IF ntimeouts > Timeout THEN ntimeouts ELSE ntimeouts + 1
  /\ IF ntimeouts' > Timeout THEN pc' = "display" /\ tmp' = Disconnected
     ELSE UNCHANGED <<pc, tmp>>
  /\ UNCHANGED <<env, sender, channel, running, pkt, pkts, saved, im, signals, window>>

\* Mutant: the offset is not looked at.
PutNext(raw, p) == Append(raw, p.frame)

\* The copy of one packet into raw; resize() fills with 0.
Put(raw, p) ==
  [o \in 1 .. IF p.offset < Len(raw) THEN Len(raw) ELSE p.offset + 1 |->
     IF o = p.offset + 1 THEN p.frame ELSE IF o <= Len(raw) THEN raw[o] ELSE 0]

\* Mutant: a new frame is one with a higher id.
IdHigher(p) == pkts.raw # <<>> /\ p.id > pkts.id

\* The first packet of another frame.
IdChanged(p) == pkts.raw # <<>> /\ p.id # pkts.id

\* pkts.push_back(). All packets of pkts have the id of the first.
Pushed(p) ==
  [id |-> IF pkts.raw = <<>> THEN p.id ELSE pkts.id, raw |-> Put(pkts.raw, p)]

WithoutPacket(k) == SubSeq(channel, 1, k - 1) \o SubSeq(channel, k + 1, Len(channel))

\* Mutant: the packet is pushed first.
PushEarly ==
  /\ pc = "recv"
  /\ \E k \in 1 .. Len(channel) :
       /\ k = 1 \/ env.reorders
       /\ channel' = WithoutPacket(k)
       /\ pkt' = channel[k]
       /\ pkts' = Pushed(pkt')
       /\ pc' = IF IdChanged(pkt') THEN "assemble" ELSE "poll"
  /\ UNCHANGED <<env, sender, running, ntimeouts, tmp, saved, im, signals, window>>

\* recvfrom() and parse(). It blocks while nothing is there.
Receive ==
  /\ pc = "recv"
  /\ \E k \in 1 .. Len(channel) :
       /\ k = 1 \/ env.reorders
       /\ channel' = WithoutPacket(k)
       /\ pkt' = channel[k]
  /\ IF IdChanged(pkt') THEN pc' = "assemble" /\ UNCHANGED pkts
     ELSE pc' = "poll" /\ pkts' = Pushed(pkt')
  /\ UNCHANGED <<env, sender, running, ntimeouts, tmp, saved, im, signals, window>>

\* The listener gives up, the window stays.
ReceiveFails ==
  /\ pc = "recv" /\ env.faults
  /\ pc' = "ended"
  /\ UNCHANGED <<env, sender, channel, running, ntimeouts, pkt, pkts, tmp, saved,
                 im, signals, window>>

\* What is shown of pkts: an image over all of a frame, also if raw is shorter.
Picture ==
  [kind |-> "frame", id |-> pkts.id,
   raw |-> [o \in 1 .. Chunks |-> IF o <= Len(pkts.raw) THEN pkts.raw[o] ELSE 0]]

\* Mutant: an image that cannot be decoded is displayed too.
DisplaysAll(image) == TRUE

\* !tmp.empty()
Displays(image) == image # Empty

\* assembleFrame(). Of an MJPEG frame it writes what is between the markers; that may
\* be next to nothing, or no image.
Assemble ==
  /\ pc = "assemble"
  /\ \/ saved' = Append(saved, pkts.raw) /\ tmp' = Picture
     \/ env.mjpeg /\ saved' = Append(saved, pkts.raw) /\ tmp' = Empty
     \/ env.mjpeg /\ saved' = Append(saved, <<>>) /\ tmp' = Empty
  /\ pc' = IF Displays(tmp') THEN "display" ELSE "push"
  /\ UNCHANGED <<env, sender, channel, running, ntimeouts, pkt, pkts, im, signals, window>>

\* displayImage(): im under its lock, then the signal.
Display ==
  /\ pc = "display"
  /\ im' = tmp /\ tmp' = Empty
  /\ pc' = "emit"
  /\ UNCHANGED <<env, sender, channel, running, ntimeouts, pkt, pkts, saved, signals, window>>

Signal == IF signals < MaxSignals THEN signals + 1 ELSE signals

\* A frame is displayed when the first packet of the next is there.
Emit ==
  /\ pc = "emit"
  /\ signals' = Signal
  /\ pc' = IF IdChanged(pkt) THEN "label" ELSE "poll"
  /\ UNCHANGED <<env, sender, channel, running, ntimeouts, pkt, pkts, tmp, saved, im, window>>

\* Mutant: the id of the packet that has just come.
LabelNew ==
  /\ pc = "label"
  /\ label' = pkt.id
  /\ pc' = "push"
  /\ UNCHANGED <<env, sender, channel, running, ntimeouts, pkt, pkts, tmp, saved,
                 im, signals, gui, screen>>

\* setFrameID(), from this thread.
Label ==
  /\ pc = "label"
  /\ label' = pkts.id
  /\ pc' = "push"
  /\ UNCHANGED <<env, sender, channel, running, ntimeouts, pkt, pkts, tmp, saved,
                 im, signals, gui, screen>>

\* pkts.clear() and push_back().
ClearAndPush ==
  /\ pc = "push"
  /\ pkts' = [id |-> pkt.id, raw |-> Put(<<>>, pkt)]
  /\ pc' = "poll"
  /\ UNCHANGED <<env, sender, channel, running, ntimeouts, pkt, tmp, saved,
                 im, signals, window>>

Listener ==
  \/ Bind \/ Stop \/ PollReady \/ PollTimeout \/ Receive \/ ReceiveFails
  \/ Assemble \/ Display \/ Emit \/ Label \/ ClearAndPush

-----------------------------------------------------------------------------
\* The window's thread.

\* draw() looks at im without the lock.
DrawBegin ==
  /\ gui = "idle" /\ signals > 0
  /\ signals' = signals - 1
  /\ gui' = IF im = Empty THEN "blanking" ELSE "drawing"
  /\ UNCHANGED <<env, sender, channel, pc, running, ntimeouts, pkt, pkts, tmp, saved,
                 im, screen, label>>

\* An image without contents takes the place of what im holds by now.
DrawBlank ==
  /\ gui = "blanking"
  /\ im' = Blank
  /\ gui' = "idle"
  /\ UNCHANGED <<env, sender, channel, pc, running, ntimeouts, pkt, pkts, tmp, saved,
                 signals, screen, label>>

\* cvtColor() throws if im is empty by now; nobody catches, and the process ends.
Draw ==
  /\ gui = "drawing"
  /\ IF im = Empty THEN gui' = "crashed" /\ pc' = "ended" /\ UNCHANGED screen
     ELSE gui' = "idle" /\ screen' = im /\ UNCHANGED pc
  /\ UNCHANGED <<env, sender, channel, running, ntimeouts, pkt, pkts, tmp, saved,
                 im, signals, label>>

\* Mutant: the listener is not told.
WaitOnly ==
  /\ gui = "idle"
  /\ gui' = "waiting"
  /\ UNCHANGED <<env, sender, channel, pc, running, ntimeouts, pkt, pkts, tmp, saved,
                 im, signals, screen, label>>

\* quit(): the last window is closed.
Quit ==
  /\ gui = "idle"
  /\ running' = FALSE
  /\ gui' = "waiting"
  /\ UNCHANGED <<env, sender, channel, pc, ntimeouts, pkt, pkts, tmp, saved,
                 im, signals, screen, label>>

\* waitForFinished()
ListenerFinished ==
  /\ gui = "waiting" /\ pc = "ended"
  /\ gui' = "closed"
  /\ UNCHANGED <<env, sender, channel, pc, running, ntimeouts, pkt, pkts, tmp, saved,
                 im, signals, screen, label>>

Window == DrawBegin \/ DrawBlank \/ Draw \/ ListenerFinished

Next == Board \/ Listener \/ Window \/ Quit

Spec == Init /\ [][Next]_vars

\* Both threads run; a datagram that is on its way does not stay there; nothing is
\* asked of the board nor of the user.
FairSpec ==
  /\ Spec
  /\ WF_vars(Listener)
  /\ WF_vars(Window)
  /\ SF_vars(PollReady)

-----------------------------------------------------------------------------
\* A network that neither loses nor reorders, and a board that sends every frame under
\* an id of its own.
Calm == ~env.lossy /\ ~env.reorders /\ ~env.reboots /\ ~env.tails

Leaving == gui \in {"waiting", "closed"}

Whole(f) == [o \in 1 .. Chunks |-> f]

\* In a calm network, with ids that wrap and datagrams that come twice, what is put on
\* the screen is all of one frame, and so is what an uncompressed camera's file gets.
ShownIsWhole ==
  Calm =>
    /\ screen.kind = "frame" => \E f \in 1 .. Frames : screen.raw = Whole(f)
    /\ ~env.mjpeg => \A k \in 1 .. Len(saved) : \E f \in 1 .. Frames : saved[k] = Whole(f)

\* As long as datagrams keep their order, however many are lost or doubled: what is
\* written to data.raw at a time is of later frames than all that was written before,
\* and frames are mixed in it only if they share an id (a new frame is told by nothing
\* else, client.cpp:115: if all those between two frames of one id are lost, the packets
\* of the second join what is left of the first).
SavedInOrder ==
  ~env.reorders /\ ~env.tails /\ ~env.reboots =>
    /\ \A k, l \in 1 .. Len(saved) : k < l =>
         \A o \in 1 .. Len(saved[k]), q \in 1 .. Len(saved[l]) :
           saved[k][o] # 0 /\ saved[l][q] # 0 => saved[k][o] < saved[l][q]
    /\ \A k \in 1 .. Len(saved) : \A o, q \in 1 .. Len(saved[k]) :
         saved[k][o] # 0 /\ saved[k][q] # 0 => saved[k][o] % MaxId = saved[k][q] % MaxId

\* No image is missed by the window: whenever both threads rest, it shows the last one
\* stored and, under a frame, its id.
ScreenIsLatest ==
  gui = "idle" /\ signals = 0 /\ pc = "poll" /\ ~env.noPicture =>
    screen = im /\ (screen.kind = "frame" => label = screen.id)

\* If the image for "disconnected" is there, draw() always has an image, also when
\* frames cannot be decoded: it shows no memory without contents and does not throw.
DrawsImages == ~env.noPicture => gui \notin {"blanking", "crashed"} /\ screen.kind # "blank"

\* Closing the window ends the program, in whatever state the listener is.
QuitEnds == (gui = "waiting" /\ ~env.faults) ~> gui = "closed"

\* When nothing comes any more, the window says so.
SilenceShows ==
  (chunk = Chunks /\ frame = env.frames /\ channel = <<>> /\ ~env.faults /\ ~env.noPicture)
    ~> (screen.kind = "disconnected" \/ Leaving)

\* In a calm network every frame is saved whole once the next one is sent.
FrameSavedAfterNext ==
  \A f \in 1 .. Frames - 1 :
    (Calm /\ ~env.faults /\ ~env.mjpeg /\ ~env.noPicture /\ frame > f /\ chunk > 0)
      ~> (Leaving \/ \E k \in 1 .. Len(saved) : saved[k] = Whole(f))

\* final_report.tex: the base station receives the video packets, combines the chunks,
\* saves to a hard drive and displays. The last frame of a recording is one of them.
EveryFrameSaved ==
  (Calm /\ ~env.faults /\ ~env.mjpeg /\ ~env.noPicture
     /\ frame = env.frames /\ frame > 0 /\ chunk = Chunks)
    ~> (Leaving \/ \E k \in 1 .. Len(saved) : saved[k] = Whole(env.frames))
=============================================================================
