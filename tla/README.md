# Verification of the body camera (473BodyCam)

TLA+ models of the body camera's firmware and of its base station, the TLC
configurations that check them and the theorems that the TLAPS proof system
checks. Every definition is translated from the source; `PROJECT.json` maps each
one to the lines it stands for.

Run a model: `tlc -config FrameBuffer.cfg MCFrameBuffer`.
Check a proof: `tlapm FrameBufferProofs.tla`.

## 1. The system

    switch, microphone, RFID reader                    UVC camera
              | pins                                        | USB packets
      MSP430 trigger controller                        UVC driver (uvc.c)
              | TIVA_WAKE (also the camera's supply)        | start / data / end callbacks
              +----------> Tiva application <---------------+
                           |  usb_buf   | WIFI_sendUSBData()
                        SD card      CC3000 --- UDP ---> base station (client.cpp)
                                                          listener thread | im, signal
                                                          window's thread

| Component | Source | State it keeps | Operations | Module |
|---|---|---|---|---|
| Trigger controller | `trigger/mic_test/main.c` | port registers, `SW_ON`, `MIC_ON`, `RFID_ON`, two tick counts, the wake line | `config`, `Timer_A`, `Port_1`, `update` | `Trigger` |
| Recorder | `cc3000_basic_wifi_application.c`: `main`, `KIntHandler`, `CC3000_UsynchCallback`, `USBHCDEvents` | `msp430Trigger`, `g_ui32CC3000DHCP`, `disconnect_happened`, `CAMERA_STATE` | network wait, sleep loop, awake loop, four event handlers | `Recorder` |
| Frame buffer | same file: `uvc_start_cb`, `uvc_data_cb`, `uvc_end_cb`, the loop's body | `usb_buf`, `usb_buf_i`, `usb_buf_len`, `pkt_id` | fill, end, send, save, release | `FrameBuffer`, promise in `FrameSlot` |
| Packetizer | same file: `WIFI_sendUSBData` | the header on its stack | header, send loop | in `FrameBuffer`; its output is the sender of `BaseStation` |
| Base station | `BaseStation/client.cpp` | `pkts`, `ntimeouts`, `running`, `im`, queued signals, the widgets | `listener`, `assembleFrame`, `displayImage`, `setFrameID`, `draw`, `quit` | `BaseStation` |
| Packet format | `BaseStation/pkt.cpp` | one packet | `parse` | fields only, in `BaseStation` |
| UVC driver | `uvc.c` | `cam_inst`: device, selections, pipe, the parser's count | `uvc_open`, `uvc_close`, selection while parsing, negotiation, packet parsers | `Camera`; packet parsers in `FrameBuffer` |
| USB host stack | `usblib/host/usbhostenum.c` | pending events, the device's state, its descriptors | passes of `USBHCDMain`, disconnection | in `Camera` |
| CC3000 SPI and host driver | `cc3000/src/`, `board.c` | `sSpiInformation`, `tSLInformation`, two packet buffers | `SpiWrite`, line and DMA handlers, commands, events, sends, SysTick | `Cc3000`, promise in `HciCall` |
| GPS receiver, tick counter | application, `ticks.c` | `GPS`, `GPSSize`; `ticks` | one handler each, neither ever entered | not modelled |
| TCP base station, tools | `BaseStation/client-tcp.cpp`, `send.cpp`, ... | as the base station | accept, receive | not modelled |

How they interact, and what is hard about it:

* **Pins and interrupts (trigger).** Edge interrupts are re-armed by toggling
  `P1IES`; a pin may move between toggling, clearing and reading. The line is
  refreshed by `update()` in some branches only. Correct means: the line is the
  disjunction of the flags, no edge is missed, a window is not cut short by a count that
  an earlier one left, and the device goes back to sleep.
* **One line, two uses (recorder).** `TIVA_WAKE` powers the camera and interrupts
  the Tiva, which toggles a flag instead of reading the pin, and which sleeps after
  a test that an interrupt may overtake. Correct means: the flag is the line, the
  loops start and end with it, a camera that enumerates is configured, the network
  wait recovers.
* **One buffer, two contexts (frame buffer).** The USB interrupt fills what `main()`
  reads three times without a lock. Correct means: the buffer is one run of the
  video stream, a frame is saved as captured, ids are fresh, the buffer is released.
* **A camera of unknown make (camera).** What is selected depends on descriptors
  parsed one after the other, some of it outlives the camera, of a negotiation's
  four transfers one is checked, and every surprise ends in a loop for ever. Correct
  means: the selection is the best by the driver's own rules, the camera streams
  what was selected through a pipe that fits, no pipe is lost, and a camera the
  driver knows comes to stream.
* **One transmit buffer, three handlers (radio).** A call builds its packet in the
  one buffer, hands it to a state machine that two interrupts drive and returns
  before it is sent; the answer comes through the same machine. Correct means: every
  call is executed once, whole and in order, and returns; no transmit buffer of
  the chip is lost.
* **Two processors (body camera).** Neither sees the other's flags, only edges of one
  line. Correct means: what one decides is what the other does.
* **A datagram stream without an end mark (base station).** A frame ends when a packet
  with another 8-bit id comes. Packets may be lost, doubled or reordered and the
  camera may restart. Two threads share an image. Correct means: what is saved and
  shown is whole and in order when the network delivers it so, no image is missed by
  the window, silence is shown, closing the window ends the program.

## 2. Modules

`X.tla` is a component, `MCX.tla` names the instances for TLC, `X*.cfg` are the
configurations and `XProofs.tla` the theorems. Operators marked "Mutant:" are
plausible wrong versions of the definition below them; nothing else refers to
them. They are there to try a property: with the mutant in place of the definition
TLC finds the property violated.

**Trigger.** A variable for each C variable and port register. `Timer_A` is one
step; `Port_1` is a step for each access of a register that a pin can change,
since the routines do not nest but pins move at any time. `config()` is `Init`,
with the value of `P1IES` that a reset leaves as a constant. `age` (ticks since an
event) and `quiet` (inputs have stopped) are history and environment.
`Debounced` says that a pin keeps its level until its edge is served.

**Recorder.** `main()` is a step for each access of state a handler shares and
stands still while `KIntHandler` runs. `KIntHandler` is two steps, because an edge
between its toggle and its clear is lost. A frame is only there or not there. The
access point and the line are environment. With the line the camera's supply goes and comes:
both leave an event for the host stack, whose passes (`UsbMain`) take one event or go
one state further; the interrupt of a connection clears a disconnection not yet taken.
The negotiation with a camera that has left since ends in `uvc_parsing_fault()` (`pc = "fault"`).
The camera is one the driver supports; the others are in `Camera`. `SysCtlSleep()` is
two steps, test and sleep, so that the interrupt in between is there.

**FrameBuffer.** A byte is its position in the camera's stream, counted in units
that divide all packet sizes, so "the same bytes, in order, once" is arithmetic.
One USB interrupt (`uvc_pipe_cb` with its up to three callbacks) is one step: it
preempts `main()` and is not preempted by it. `main()` is a step per read of a
shared variable and per copied unit. An uncompressed frame ends when the parser
has counted its bytes; one packet may end a frame and begin the next (`UncompAcross`: end,
start and data callback in one interrupt), and the packet that begins a frame may hold a header and
none of its data. An MJPEG frame may end at any packet, for the parser looks
for `D9 FF` (uvc.c:607). A card that fails or is full takes any part of the frame from its
beginning, nothing and all included, and `main()` goes on as if it had taken all. `env` chooses: a
camera slower than `main()` or not (`slow`), frames begun by a packet without data or not
(`bare`), MJPEG or not, a card that may fail or not.

**FrameSlot** is the abstract specification: a mailbox with one place, filled with
one run of the stream and stored whole. `FrameBuffer!SlotSpec` is the refinement:
the slot is the complete frame until its file is closed.

**BaseStation.** The sender makes the packets of `WIFI_sendUSBData()`: one id for a
frame, offsets in order, the id wrapping from `MaxId` to 1. The channel is a
sequence; loss and doubling happen when a packet is sent, reordering when it is
received. The listener is a step per system call, per locked access of `im` and per
Qt call. `pkts` is represented by what `assembleFrame()` will make of it (`Put` is its
copy loop, applied as packets are pushed) and by the id of its first packet. `draw()` is two
steps, the unlocked test and the locked read. What the screen and `data.raw` hold is,
for each chunk, the frame it was cut from; 0 is what nobody sent. Of an MJPEG frame
only "an image comes out, or not" is kept. `env` chooses how many frames are sent, the network
(loss, doubling, reordering), the board (restarts, a second buffer under the same id), the format,
failing system calls, and whether the "disconnected" image was found.

**Camera.** `main()` is a step for each pass of `USBHCDMain()` over the pending event,
each pass over the device's state and each control transfer: what the bus changes
is read at their beginning. The descriptors are read in three transfers, each of which may come whole,
cut or not at all: the device descriptor, the header of the configuration, and the rest. A
configuration whose last transfer breaks counts as read (usbhostenum.c:3293), and the buffer then holds
what is in `Torn`. A camera whose descriptors cannot be had is
given up (`eHCDDevError`). `uvc_open()` with all of its parsing is one step, for the
descriptors are in memory by then: the loops over the frames (`Select`, with `Consider` as
its body) and over the settings (`Exchange`, with `Endpoint`) are functions of the index, in
the order listed. A camera is external, and is what the selection reads of it: the length of its
descriptor, its version, the number of its streaming interface, its frames, the packet size of each
setting (0 for an endpoint the parser passes over while the setting's number advances) and what follows the video
function. `uvc_parsing_fault()` is a place `main()` never
leaves. `env` chooses: `spaced` (a camera comes back only after its disconnection
was taken), `steady` (none leaves while it is opened), `clean` (no transfer fails or is cut
while the camera is there), `same` (it is the same camera each time), `supported`. A camera is
supported if its version is 1.0, or 1.5 with streaming interface 1 (the one that
`uvc_probe_set_cur_15()` has written out, uvc.c:1476), it has a frame within the target rate, the
parser takes the endpoint of its last setting, no interface follows that would be taken for one of it, and
its descriptor fits the host stack's buffer (1024 bytes). Hubs, power faults, and the faults of
single malformed descriptors are left out.

**Cc3000.** A step of `main()` is a statement of a call that touches shared state: the
three of the flow control's test and decrement, the build of the packet, the five
of `SpiWrite()`, the three of the wait. The handlers of the chip's line, of the SSI and of
SysTick have one priority, so that each is one step between two of `main()`'s. The
bytes of a packet are the number of the call that built it, read when a portion goes
out: a packet overwritten while it is sent would arrive as a mixture. The chip is
external and does what the driver's handshakes ask of it. `env` chooses: `steady` (the chip
offers nothing in the instructions between `SpiWrite()`'s test and the assertion of chip
select), `patient` (no reply to a command before `usRxEventOpcode` is set; that to a send may come at any time), `whole` (no buffer is
given back within `usNumberOfFreeBuffers--`), `alive` (the socket stays active), `clean`
(no malformed header).

**HciCall** is its abstract specification: calls, executed once each, before they return.
`Cc3000!CallSpec` is the refinement, liveness included.

**BodyCam** composes `Trigger` and `Recorder` by INSTANCE over one variable, `TIVA_WAKE`:
a step of the MSP430 that moves the line is the Recorder's `LineMoves`, every other step is of
one processor alone.

Loops are written as recursive functions over an index, never as recursive operators, so that
every module can be proved about. **LoopLemmas** holds what the proofs need of such a function:
that it exists (`LoopExists`), and induction over its index (`IndexInduction`).

## 3. Runs

| Run | Question | Result |
|---|---|---|
| `trigger` | With pins free of bounce and a boot that matches the armed edges: is the wake line the disjunction of the flags, is every input armed, do flags follow pins, does `MIC_ON` last `MIC_timeout` ticks from the noise that set it, does the line fall only without a trigger, does the device settle asleep? | holds |
| `trigger_drawn_window` | Does a drawn gun count for `RFID_timeout` ticks? | violated: `RFID_time` keeps the ticks of an earlier draw |
| `recorder` | With edges one at a time: is the toggled flag the line, does a high line end in a streaming camera (unless it fell and rose before the fall was taken), is an enumerated camera configured, a refused association retried? | holds |
| `framebuffer` | Eleven environments: one run of the stream always; with a slow camera, what is saved is a first part of what was captured, all of it on a good card, sends stay inside the buffer, ids are fresh across the wrap for frames shorter than the buffer that begin with data, the first frame is saved, the buffer released, the mailbox refined | holds |
| `framebuffer_overrun` | Does a complete frame stay until saved, for any camera? | violated: `uvc_end_cb()` has no test of `usb_buf_len` |
| `basestation` | Eight networks, boards and formats: whole, each record newer than those before and of one id, latest image and label, no empty image drawn, `quit()` ends, silence shown, every frame saved after the next | holds |
| `basestation_last_frame` | Is every frame saved? | violated: the last frame of a recording waits for ever |
| `cc3000` | A calm chip, and each of five troubles alone: are packets sent whole and in order, is every transmit buffer accounted for, is the driver a sequence of calls that return? | holds, each property in the environments its premise names |
| `cc3000_inactive_socket` | Does a send to a socket that became inactive return? | violated: the interrupt consumes the reply that `main()` awaits |
| `camera` | 131 cameras, plugged in up to twice, calm and with each of five troubles alone (descriptors cut or missing among them): is the selection the reference's, does the setting fit the pipe, does the camera stream as agreed, is no pipe lost, does a supported camera come to stream? | holds |
| `camera_raw_first` | Does the driver prefer MJPEG over raw? | violated: a raw frame parsed first, nearer to the target, is kept |
| `bodycam` | The two processors together: is the Tiva's flag the MSP430's triggers, is there no video without one? | holds |

The violated ones are disagreements of the code with a sentence of the repository; each
sentence is quoted under "findings" in `PROJECT.json`.

Bounds, and why they are enough:

* `trigger`: timeouts of 3 and 2 ticks. A window can be entered, cut at every
  tick, and re-entered; the counters only meet comparisons with their limits, and the
  two limits differ so that either can expire first.
* `recorder`: no counter at all; the instance is the whole component.
* `framebuffer`: a buffer of 4 units, frames of 2, packets of up to 2, a chunk of 2, a
  stream of 7 units, ids up to 2. Packets end before, at and after the buffer's end and the frame's,
  MJPEG frames fill it, the id wraps, `main()` is interrupted at every step by up to
  four frames. The violations use frames of 3 units and chunks of 1, so that a frame is
  several chunks.
  Eight environments of an uncompressed camera, and three of an MJPEG one, whose packets know nothing of
  `bare`; its card may fail if it is slow.
* `basestation`: three frames of two chunks with ids 1 and 2, so that the id wraps and
  a lost second frame makes the first and third share an id; in one lossy network a fourth, so that the
  record these two leave together is saved; two datagrams on their way
  (three kept back would only be the same reordering again); a timeout of one poll
  instead of 50; two waiting signals (a third one draws the same image again). The
  instances combine the conditions that interact (loss with doubling; restarts with a
  reused id and MJPEG) and try the others alone.
* `cc3000`: six calls, of which two start the chip, so that a socket is opened, two
  packets are sent, and it is closed; two transmit buffers, so that they run out;
  packets of one and two portions; one event of the chip's own, which falls between
  any two steps; three portions under one chip select, one more than any packet has.
* `camera`: frames in three lists (two compressed and a raw one, raw before compressed,
  raw only) with each of four rates around the target of 3; up to three settings, in
  and out of order, with endpoints passed over first, last and everywhere; the versions 1.0, 1.1 and 1.5,
  streaming interface 1 and 2; what follows the video function; descriptors that fit the buffer,
  just, or not. A cut descriptor has no frames, fewer, or another
  interface. Two plugs show what the first camera leaves behind; two pipes show a leak.
* `bodycam`: both timeouts one tick, for the two counters are the subject of `trigger`; the
  theorems of section 4 have no such bound. `quiet` and `apStable`, which only take steps
  away from the environment, are never set. The liveness of the composition is too
  large for TLC and is checked for the components.
* The state spaces are finite without constraints; the bounds are in the guards
  (`MaxPos`, `Frames`, `InFlight`, `MaxSignals`, `MaxCalls`, `MaxEvents`,
  `MaxPortions`, `MaxPlugs`) and named there.

Deadlock is checked except in `BaseStation`, where the program ends when its window
is closed, or when the listener has given up and the board is silent; in `Cc3000`,
where the calls are bounded and a chip in trouble leaves the host waiting; and in `Camera`,
where nothing happens any more in `uvc_parsing_fault()` once the plugs are used up.

Fairness, and why the code justifies it:

* `Trigger`: weak on `Timer_A` and on `Port_1`. The timer's interrupt recurs, a pending
  port interrupt is taken, neither masks the other for long. Nothing is asked of the
  inputs; what is said about settling has `quiet` as its premise.
* `Recorder`: strong on `main()`, which is preempted again and again but gets on
  between interrupts, for the handlers are short; weak on `KIntHandler` and SysTick.
  A camera that is powered boots. The access point, if in reach, at last keeps a station.
* `FrameBuffer`: strong on `main()` for the same reason, nothing on the camera.
* `BaseStation`: weak on each thread, strong on `poll()` finding a datagram (the network
  delivers at last what it did not lose). Nothing is asked of the board or of the
  user. `QuitEnds` and `SilenceShows` have no failing system call as their premise:
  after a failed `poll()` the code calls `recvfrom()`, which blocks, and then neither
  holds.
* `Cc3000`: weak on `main()` and on both handlers (a pending interrupt is taken before
  `main()` goes on: `At`), and on the chip's answers, without which no driver could
  return. Nothing is asked of the chip's own events, or of SysTick.
* `Camera`: weak on `main()`, nothing on the user who plugs and unplugs.

Premises. Several hazards do go wrong in the code once the hardware is unkind, and no
sentence of the repository says they cannot. The properties then name what they
need: without `steady`, `SentWhole` and `CallSpec` are violated (an event between test
and claim, spi-tm4c129.c:662); without `patient`, `CallSpec` is (a reply before it is awaited,
evnt_handler.c:818); without `whole`, `BuffersAccounted` is (socket.c:160); without `clean` the
next call waits for ever (spi-tm4c129.c:1274); without `spaced`, `CameraServed` is (the
interrupt of a connection clears a disconnection, usbhostenum.c:3928), and for the same reason
`LineStartsStream` excepts the line that falls and rises before `main()` takes the fall (`Overtaken`: the
stack holds the address of the camera that left and leaves the new one alone,
usbhostenum.c:5040, or `main()` has met the missing camera first and is in the fault loop); without `steady`,
a camera that leaves while it is opened ends in the fault loop; without `supported`, one of version 1.5 whose
streaming interface is not 1 does (uvc.c:1476, against `stream_iface` in every other
request). Without `clean` a configuration that came cut is parsed, and the
selection, the setting and the pipe are those of a camera that does not exist: `SelectsReference`
and `StreamsAsAgreed` need `clean`, and `SettingFitsPipe` speaks of the camera the driver parsed. It also
needs the last setting to have the largest packets and an endpoint the parser takes, for `stream_iface_alt` is the last setting
parsed (uvc.c:1305) while the pipe is the largest endpoint's (1342-1370). `SavedIsCaptured` says all
of the frame for a good card only: of a full one `f_write()` returns `FR_OK` with a
smaller count (ff.c:2582), which line 1047 of the application ignores.
`FreshId` needs a packet that begins a frame to hold some of its data: if it is a
header and no more (`bare`), `uvc_start_cb()` may find the buffer complete, so that the id
stays (line 863), and `uvc_data_cb()` finds it free with the frame's first byte; with or without the
end of the frame before in the same packet. It needs frames shorter
than the buffer: of a frame whose last packet also fills `usb_buf`, `uvc_data_cb()` makes the end
(line 911) and the driver's own end unmakes it (line 919), so that it is lost with its id, and
after as many of them as there are ids one may be used again. The buffer is 128 KiB and
the frames are 38400 bytes.

Disagreements met that have no run of their own:

* final_report.tex:58 has the gun drawn as a trigger; a device booted with the gun holstered has the
  wrong edge armed (main.c:39), which is why `BootPins` is a premise.
* A second noise within the window does not extend it (`MIC_time` is not reset,
  main.c:109), although the line is to stay high for ten minutes after a
  microphone event (final_report.tex:170).
* A switch that bounces faster than `Port_1` runs puts `P1IES` out of phase with the
  pin (main.c:100), which is why `Debounced` is a premise.
* trigger.h:7 has the handler follow the line; two edges within one run of the handler
  invert `msp430Trigger` for good (application, line 692), which is why `SlowLine` is a premise.
* "When a network is not available, all video data is still saved"
  (final_report.tex:247-248); `main()` waits for DHCP before its loops (line 988).
* A "frame that is received" is written to the file (final_report.tex:219-220); the rest of a
  frame that began while `main()` was busy is collected as well (line 900).
* The same sentence of a card that is full: what fits is written, and nothing is reported
  (line 1047).
* network.h:12 has the buffer packetized and sent; of 38400 bytes the last 456 never are
  (line 645).
* The driver is to be compatible with version 1.1 of the class (final_report.tex:197-198); a camera
  of that version ends in `uvc_parsing_fault()` (uvc.c:1392). So does one of version 1.5 unless its streaming
  interface is number 1 (uvc.c:1476).
* Two frames that share an id, with all those between them lost, are one frame to the base station
  (client.cpp:115): its record holds packets of both, possibly the later before the earlier.
  `SavedInOrder` says so: records are in order, and mixing is within an id.
* A second camera is compared with the selections of the first (uvc.c:446), so that its
  frame need not be as close to the target as it could be, which is why `env.same` is a
  premise of `SelectsReference`.

## 4. Theorems

Everything below holds for every value of the constants, the timeouts, sizes and bounds
included, from the one named assumption on the constants in each module. The assumptions say
of what type a constant is and which sizes are not 0; beyond that, two ids exist
(`MaxId`, 255 in the code), a packet to the radio has up to two portions (`MaxPortions`), a
packet of video holds no more than a frame (`MaxPacket`), a camera's own descriptor is not cut and a cut one may be.
Every invariant and action property of the passing runs is stated by a theorem.

| Theorem | States | Argument |
|---|---|---|
| `TriggerProofs!TypeCorrect`, `WakeFollows` | types and counter limits; the line is the flags whenever the processor sleeps | inductive together with the steps of `Port_1` that are on the way to `update()`; any input, bounce included |
| `TriggerProofs!MicWindow` | `MIC_ON` lasts at least `MIC_timeout` ticks from the noise that set it (a further noise within them extends nothing, main.c:109) | `MicCounts`: the count is the age of that noise and 0 while none counts; without it a count left by an earlier noise would cut a later window |
| `TriggerProofs!AlwaysArmed`, `FlagsTrack`, `FallsSafely` | the debounced inputs | `InPhase`: an input is in phase with its edge exactly if it is not pending or already toggled; `EdgeReady` alone is not inductive, for it says nothing during service |
| `RecorderProofs!RecorderTypes`, `FlagIsLine`, `InitServed` | the flag is the line; a camera is configured | `OneEdgeBehind`: before the toggle the flag is the complement of the line; `InitPending`: a camera the host has configured, and that did not leave since, streams or `CAMERA_INIT` is still to be served |
| `FrameBufferProofs!FrameBufferTypes`, `Contiguous` | the index never reaches the size; the buffer is one run, for any camera | `HoldsRun` is kept by each of the three callbacks, hence by any sequence of them in one interrupt (`Takes`: what `uvc_data_cb()` does to the run); a complete frame is not written |
| `FrameBufferProofs!SavesCaptured`, `StaysInside`, `BufferIsMailbox` | slow camera: the file gets a first part of the frame, whatever the card takes, and all of it on a good one; packets; refinement of `FrameSlot` | `HandlingFrame`: while `main()` is past its test, the length is that of the frame, `sent` and `chunk` are its first units, and what `f_write()` takes is no more than the frame |
| `FrameBufferProofs!IdsAreFresh` | slow camera, frames shorter than the buffer that begin with data, packets across two frames included: a frame sent from its beginning has a new id | `IdFollowsFrame`: the parser is in a frame exactly when the stream is, and the id grows exactly when a frame begins in an empty buffer (`DataOfFrame`, `PacketOfFrame`: the index never runs ahead of the frame's own position), and the header takes it before it can grow again; `MaxId` may not be 1 |
| `Cc3000Proofs!RadioTypes` | types in every environment; the free buffers never fall below 0 | `TypeInv`: what `usNumberOfFreeBuffers--` has loaded is not 0 |
| `Cc3000Proofs!DeliversWhole`, `CallsSafe` | with `env.steady`, packets reach the chip whole and in order; in a calm environment, the safety part of `HciCall` | `SteadyInv`, see below |
| `Cc3000Proofs!NoBufferLost` | no transmit buffer of the chip is lost or invented, for any number of buffers, calls and events | `AccountInv`: `OrderInv` (only the second call sets the count, sends come after it, only one kind of event gives back) and `LedgerInv` (the two balances), see below |
| `BodyCamProofs!FlagIsTrigger`, `CauseForVideo` | both processors together, for every timeout | see below |
| `BaseStationProofs!BaseStationTypes`, `ShowsWhole` | calm network: what is shown and saved is of one frame and whole | `CalmInv`: `ChannelFollows` (each packet, from the one received last to the one sent last, is the one before it again or the next in the stream) and `OneFrame` (`pkts` is one frame without a gap, all of it while the first packet of the next waits). `ShownIsWhole` alone says nothing of packets on their way |
| `BaseStationProofs!LatestShown`, `AlwaysAnImage` | any network, if the image for "disconnected" was found: the window at rest shows the last image stored, under its id, and `draw()` has one | `WindowInv`: an idle window without a waiting signal shows `im` unless the listener is between the store and the signal; an empty `im` has neither a signal nor a drawing under way; `im` of a frame has the label's id, or is that of `pkts` while it is emitted and labelled |
| `BaseStationProofs!SavesInOrder` | datagrams lost and doubled, but in order: each record of `data.raw` is newer than all before it, and frames are mixed within one only if they share an id | `WayInOrder` (from `pkts` through `pkt` and the channel to the board nothing is newer than what follows, and one frame has one id; gaps are allowed, so that `ChannelFollows` does not serve), `SavedOlder` (what is saved is older than all of that) and `IdsOfFrames` (ids and frames agree modulo `MaxId`, from the board to the file: `NextKey`) |
| `CameraProofs!CameraTypes`, `NoPipeLost`, `SelectionIsReference`, `PipeFitsSetting`, `StreamAsAgreed` | every camera, list of frames and of settings, any number of plugs, cut descriptors included: types, pipes, the best frame, the setting's packets for a last setting with the largest, the frame agreed on | `CameraInv`, see below |

`BodyCamProofs` does not repeat the components' proofs: it shows that the composition
implements `Trigger` and implements `Recorder` (`TriggerPart`, `RecorderPart`), instantiates
their proof modules, and takes from each the theorem it needs. The line is driven
by one and toggled by the other, so `FlagMeansTrigger` follows from `WakeFollowsFlags`
and `TriggerFollowsLine` by transitivity, and `StreamsForTrigger` from `WakeFollowsFlags` and
`Powered` (the camera streams only while the line is high).

`SentWhole` says nothing of the packet on its way, which is read from a buffer that the next call
overwrites. `Cc3000Proofs` proves it from four parts that hold together and not alone:
`CallInv` (where `main()` is in its call tells whether the chip has its packet), `DriverInv`
(the driver writes exactly from its claim to the packet's last portion, and its transfer is the
one its state names), `ChipInv` (chip select, the latched edge and the chip's phase agree with
that state) and `ReplyInv` (at most one reply exists, to the call under way, and none before the
chip has the packet: hence no call returns, and nothing is overwritten, before it is sent).
All four need `env.steady`, without which the claim of SpiWrite() overwrites a read.
`CallsSafe` follows: `CallSteps` sorts every step into the three of `HciCall` and stutters.

`BuffersAccounted` sums the buffers given back by the events in the chip's queue. `Given` is the running
sum along the queue; `GivenSteps` says what it becomes when an event joins at the end or leaves
at the front, by `IndexInduction`. With it each step moves one buffer between two of
the places the balance adds up (`ChipLedger`, `ReadLedger`, `TakeLedger`, `InterruptLedger`,
`MainLedger`). The balance starts with the chip's answer to the second call (`Sized`);
and it needs `env.steady`, from which the other parts have that a send under way has exactly
one packet.

`CameraInv` has five parts beside the types. `HostInv`: once no event is pending, what the
host has read is the camera on the port or cut, and if no transfer fails nothing cut is ever opened
(a camera that leaves during a transfer has its disconnection taken first).
`DriverInv`: the driver's setting and pipe are those
`Exchange` leaves, for a list of any length (`Exchanged`): the last setting, and the pipe of the largest endpoint
(`Largest`), or none if every endpoint was passed over (`NoEndpoint`). `OpenInv`: from `uvc_open()` to the
stream, in one pass of `main()`, the camera open is the one configured and there.
`AgreedInv`: how far that camera has followed the negotiation; `StreamsAsAgreed` alone is not
inductive, since it says nothing before the camera streams. `SameInv`: the selection is
none, or the reference's. That the one pass over the frames finds the reference's is
`SelectFinds`, and that a second pass keeps it is `SelectKeeps`: after each frame the selection is the best
of those before it (`ConsiderNext`), by `IndexInduction` over the frames, and the best is one
only (`NearestUnique`).

Induction over the index of a loop is first-order here. The library's induction theorems take an operator as a
parameter; `LoopLemmas` states induction for a set of indexes instead (a set that holds 0 and
with an index the next holds all), from the least number principle, which the library's theorems on
well-founded relations give for sets. A proof defines the set of indexes for which the
statement holds and cites it.

`FrameBufferProofs!BufferIsMailbox` is the refinement that the run checks as `SlotSpec`,
for every size. Each theorem was first checked by TLC as an invariant of a small
instance, the strengthenings as well.

Only model-checked: the liveness properties (proofs under fairness and of `ENABLED` are out
of the prover's reach: `SettlesAsleep`, `LineStartsStream`, `BootRetries`, `FirstFrameSaved`,
`BufferReleased`, `QuitEnds`, `SilenceShows`, `FrameSavedAfterNext`, `CameraServed`, and the liveness
part of `CallSpec`), and the violations.

## 5. Not modelled

* Of the CC3000 driver: `recv()` and data packets (the application receives nothing),
  `wlan_stop()`, patches, the contents of single commands and events. `sendto()` of
  `FrameBuffer` and the events of `Recorder` are modelled from how the application uses
  them.
* Of the camera driver: lengths and checks of single descriptors, terminals and units. (A
  descriptor cut in the middle may be parsed to its end or fault: both are in `Camera`.)
* Of the host stack: hubs, power faults, the state machine inside a control transfer,
  devices that are not cameras.
* The byte layout of packets, the errors of `parse()` (no sender of the repository makes
  such packets), streams with more than one packet in a datagram (the replay tool
  `send.cpp`; what is left over stays in `data`, client.cpp:113), and the scan for JPEG markers.
* GPS and the tick counter: the first is commented out in `main()`, the second is not in the
  vector table. The set-up of pins, clocks and card.
* The TCP client, for which the firmware has no sender.
* Vendored code (`driverlib`, the rest of `usblib`, `fatfs`, `utils`, `inc`), which is over nine
  tenths of the repository's lines, the earlier video program, tools, hardware and
  documents. The share of all lines that is modelled is therefore small, whatever is
  done; of the program's own logic what is missing is listed above.

## 6. Plan

Done, in the order of what matters to a recording: `Trigger` (when to record),
`Recorder` (does it), `FrameBuffer` with `FrameSlot` (what is recorded), `BaseStation` (what
arrives), `Cc3000` with `HciCall` (how it is sent), `Camera` (where it comes from), `BodyCam`
(the parts together).

Proved: all invariants and action properties of the runs, and the safety of the three
refinements (`SlotSpec`, `CallSpec`, `BodyCam` of its two parts).

Left: if a receiver is ever added to the firmware, data packets in `Cc3000`; the end of a frame inside
a datagram with several packets, if `send.cpp` is to be covered; the composition of
`FrameBuffer` and `BaseStation` over one stream, whose interface (the packets of one
frame, in order, under a fresh id) both now state.
