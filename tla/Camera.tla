------------------------------- MODULE Camera -------------------------------
(***************************************************************************)
(* A camera on the recorder's USB port, from the plug to the stream: the   *)
(* host stack's passes (USBHCDMain, usbhostenum.c), the class driver's     *)
(* uvc_open(), uvc_close() and descriptor parsers, the negotiation that    *)
(* main() runs when CAMERA_STATE is CAMERA_INIT (uvc.c), and               *)
(* uvc_parsing_fault(), from which nothing returns.                        *)
(*                                                                         *)
(* main() is awake all the time; its sleep is in Recorder, the packets of  *)
(* the stream are in FrameBuffer. A step of main() lasts until something   *)
(* the bus can change is read: the pending event, or a control transfer.   *)
(*                                                                         *)
(* The camera is external. Its descriptor is what the selection reads of   *)
(* it: its length, the UVC version, the number of the streaming interface, *)
(* the frames in the order listed, the packet size of each alternate       *)
(* setting (0: its endpoint is none the parser takes), and what follows    *)
(* the video function. A descriptor whose transfer broke is cut: what the  *)
(* buffer holds then need not be the camera's.                             *)
(***************************************************************************)
EXTENDS Naturals, Sequences

CONSTANTS
  Cameras,       \* descriptors of the cameras that may be plugged in
  Torn,          \* what the buffer may hold when the transfer broke
  MEM_POOL_SIZE, \* of the host stack, for the descriptor
  Target,        \* target_bit_rate
  Pipes,         \* pipes of the host controller
  MaxPlugs,      \* bound: how often a camera is plugged in
  Environments   \* what may happen, one record of each kind below

Formats == {"UVC_VS_FORMAT_MJPEG", "UVC_VS_FORMAT_UNCOMPRESSED"}
NoFormat == "none"
Frame == [format : Formats, formatIdx : Nat \ {0}, idx : Nat \ {0},
          maxRate : Nat \ {0}]
Descriptor == [length : Nat \ {0}, version : Nat, iface : Nat, frames : Seq(Frame),
               settings : Seq(Nat), others : {"none", "association", "interface", "cut"}]

NoCamera == [length |-> 0, version |-> 0, iface |-> 0, frames |-> <<>>,
             settings |-> <<>>, others |-> "none"]

\* spaced:    main() takes a disconnection before the next camera comes
\* steady:    no camera leaves between uvc_open() and the stream
\* clean:     no transfer fails while the camera is there
\* same:      it is the same camera each time
\* supported: every camera is one the driver can serve (Supported below)
Environment == [spaced : BOOLEAN, steady : BOOLEAN, clean : BOOLEAN,
                same : BOOLEAN, supported : BOOLEAN]

ASSUME CameraAssumption ==
  /\ Cameras \subseteq {c \in Descriptor : c.others # "cut"}
  /\ Torn \subseteq {c \in Descriptor : c.others = "cut"} /\ Torn # {}
  /\ MEM_POOL_SIZE \in Nat
  /\ Target \in Nat
  /\ Pipes \in Nat \ {0}
  /\ MaxPlugs \in Nat
  /\ Environments \subseteq Environment

NoFrame == [formatIdx |-> 0, idx |-> 0]
Unselected == [format |-> NoFormat, formatIdx |-> 0, idx |-> 0, maxRate |-> 0]

VARIABLES
  env,
  pc,            \* where main() is; "fault" in uvc_parsing_fault()
  CAMERA_STATE,
  \* the host stack
  ui32IntEvents, \* the event not yet taken: "none", "connect", "disconnect"
  piDeviceState,
  known,         \* sDeviceDescriptor.bLength # 0
  addressed,     \* ui32Address # 0
  config,        \* the configuration descriptor read, or NoCamera
  active,        \* g_pi32USBHActiveDriver[0] is the UVC driver
  pipes,         \* pipes in use
  \* cam_inst
  device, uvc_version,
  stream,        \* the selection: format, its indexes and stream_max_bandwidth
  stream_pipe,   \* # 0
  stream_endpt_xfer_size, stream_iface_alt,
  stream_frame_size,    \* the frame whose size it is, or NoFrame
  \* the camera on the port
  plugged, plugs,
  last,          \* the last camera plugged in
  probed, committed,    \* frames agreed on
  setting               \* alternate setting; it streams when # 0

enumerated == <<known, addressed, config>>
host == <<ui32IntEvents, piDeviceState, enumerated, active>>
selection == <<uvc_version, stream, stream_endpt_xfer_size, stream_iface_alt>>
driver == <<device, selection, stream_pipe, pipes>>
port == <<plugged, plugs, last>>
agreed == <<probed, committed, setting>>
vars == <<env, pc, CAMERA_STATE, host, driver, stream_frame_size, port, agreed>>

NegotiationSteps == {"getCur", "commit", "setInterface"}
Steps == {"usbEvents", "usbDevice", "configuration", "switch", "fault"} \cup NegotiationSteps

Index == [formatIdx : Nat, idx : Nat]

TypeOK ==
  /\ env \in Environments
  /\ pc \in Steps
  /\ CAMERA_STATE \in {"CAMERA_UNCONNECTED", "CAMERA_INIT", "CAMERA_CONNECTED"}
  /\ ui32IntEvents \in {"none", "connect", "disconnect"}
  /\ piDeviceState \in {"eHCDIdle", "eHCDDevReset", "eHCDDevConnected", "eHCDDevAddressed",
                        "eHCDDevConfigured", "eHCDDevDisconnected", "eHCDDevError"}
  /\ {known, addressed, active, stream_pipe} \subseteq BOOLEAN
  /\ {config, device} \subseteq Cameras \cup Torn \cup {NoCamera}
  /\ {plugged, last} \subseteq Cameras \cup {NoCamera}
  /\ pipes \in 0..Pipes
  /\ uvc_version \in Nat /\ stream_endpt_xfer_size \in Nat /\ stream_iface_alt \in Nat
  /\ stream \in [format : Formats \cup {NoFormat}, formatIdx : Nat, idx : Nat,
                 maxRate : 0..Target]
  /\ {stream_frame_size, probed, committed} \subseteq Index
  /\ plugs \in 0..MaxPlugs /\ setting \in Nat

Init ==
  /\ env \in Environments
  /\ pc = "usbEvents" /\ CAMERA_STATE = "CAMERA_UNCONNECTED"
  /\ ui32IntEvents = "none" /\ piDeviceState = "eHCDIdle"
  /\ known = FALSE /\ addressed = FALSE /\ active = FALSE
  /\ config = NoCamera
  /\ device = NoCamera /\ uvc_version = 0
  /\ stream = Unselected
  /\ stream_pipe = FALSE /\ pipes = 0
  /\ stream_endpt_xfer_size = 0 /\ stream_iface_alt = 0
  /\ stream_frame_size = NoFrame
  /\ plugged = NoCamera /\ plugs = 0 /\ last = NoCamera
  /\ probed = NoFrame /\ committed = NoFrame /\ setting = 0

-----------------------------------------------------------------------------
\* The parsers: what each descriptor of the video function does to cam_inst.

\* uvc_parse_mjpeg_frame_desc(), uvc_parse_uncomp_frame_desc(): a frame is taken
\* when it is nearer to the target than the one selected and within it, a raw
\* one only when none or a raw one is selected.
Replaceable(format) ==
  {NoFormat, "UVC_VS_FORMAT_UNCOMPRESSED"} \cup
     (IF format = "UVC_VS_FORMAT_MJPEG" THEN {format} ELSE {})

\* Mutant: the target is not looked at.
ConsiderAny(s, f) ==
  IF f.maxRate > s.maxRate /\ s.format \in Replaceable(f.format) THEN f ELSE s

Consider(s, f) ==
  IF f.maxRate > s.maxRate /\ f.maxRate <= Target /\ s.format \in Replaceable(f.format)
  THEN f ELSE s

Select(s, c) ==
  LET selected[i \in 0 .. Len(c.frames)] ==
        IF i = 0 THEN s ELSE Consider(selected[i - 1], c.frames[i])
  IN selected[Len(c.frames)]

\* uvc_parse_streaming_endpoint(): the pipe is exchanged for one of larger
\* packets; an endpoint that is not IN or not asynchronous is passed over (size
\* 0). p says whether there is a pipe, its packet size, the pipes in use, and
\* whether the host had one to give.
PassedOver(p, size) == size = 0 \/ (p.open /\ size <= p.size) \/ ~p.given

\* Mutant: the first endpoint's pipe stays.
FirstEndpoint(p, size) ==
  IF size = 0 \/ p.open THEN p
  ELSE [open |-> TRUE, size |-> size, used |-> p.used + 1, given |-> p.used < Pipes]

\* Mutant: the smaller pipe is not freed.
EndpointNotFreed(p, size) ==
  IF PassedOver(p, size) THEN p
  ELSE IF p.used = Pipes THEN [p EXCEPT !.given = FALSE]
  ELSE [open |-> TRUE, size |-> size, used |-> p.used + 1, given |-> TRUE]

Endpoint(p, size) ==
  LET used == IF p.open THEN p.used - 1 ELSE p.used
  IN IF PassedOver(p, size) THEN p
     ELSE IF used = Pipes THEN [p EXCEPT !.given = FALSE]
     ELSE [open |-> TRUE, size |-> size, used |-> used + 1, given |-> TRUE]

Exchange(p, c) ==
  LET exchanged[i \in 0 .. Len(c.settings)] ==
        IF i = 0 THEN p ELSE Endpoint(exchanged[i - 1], c.settings[i])
  IN exchanged[Len(c.settings)]

\* No driver: SendUnknownConnect().
NotOpened ==
  /\ active' = FALSE /\ CAMERA_STATE' = "CAMERA_UNCONNECTED" /\ pc' = "switch"
  /\ UNCHANGED driver

\* uvc_open(), and CONNECTED after it; UNKNOWN_CONNECTED if the driver serves a
\* device already. The parse ends behind the video function; an interface that
\* follows without an association of its own is taken for one of it. What is cut
\* may be parsed to its end or not.
UvcOpen(c) ==
  LET p == Exchange([open |-> stream_pipe, size |-> stream_endpt_xfer_size,
                     used |-> pipes, given |-> TRUE], c)
  IN IF device # NoCamera
     THEN NotOpened
     ELSE /\ device' = c
          /\ uvc_version' = c.version
          /\ stream' = Select(stream, c)
          /\ stream_pipe' = p.open /\ stream_endpt_xfer_size' = p.size /\ pipes' = p.used
          /\ stream_iface_alt' = Len(c.settings)   \* the last one parsed
          /\ \/ /\ p.given /\ c.others # "interface"
                /\ active' = TRUE /\ CAMERA_STATE' = "CAMERA_INIT" /\ pc' = "switch"
             \/ /\ ~p.given \/ c.others \in {"interface", "cut"}
                /\ pc' = "fault" /\ UNCHANGED <<active, CAMERA_STATE>>

\* Mutant: the device is kept.
UvcCloseKeeps ==
  /\ stream_pipe' = FALSE
  /\ pipes' = IF device # NoCamera /\ stream_pipe THEN pipes - 1 ELSE pipes
  /\ UNCHANGED <<device, selection>>

UvcClose ==
  /\ device' = NoCamera /\ stream_pipe' = FALSE
  /\ pipes' = IF device # NoCamera /\ stream_pipe THEN pipes - 1 ELSE pipes
  /\ UNCHANGED selection

-----------------------------------------------------------------------------
\* The port.

\* A camera's own answers: the frames its streaming interface has, and whether a
\* transfer reaches it.
Offers(c, iface, i) ==
  /\ iface = c.iface
  /\ \E k \in DOMAIN c.frames : c.frames[k].formatIdx = i.formatIdx /\ c.frames[k].idx = i.idx

Reached == plugged # NoCamera /\ ui32IntEvents = "none"
Transfers == IF ~Reached THEN {FALSE} ELSE IF env.clean THEN {TRUE} ELSE BOOLEAN

\* How a descriptor comes: whole, cut (0xffffffff, or fewer bytes than asked for),
\* or not at all (0: the camera stalls).
Replies == IF ~Reached THEN {"cut"} ELSE IF env.clean THEN {"whole"} ELSE {"whole", "cut", "none"}

\* ConfigDescAlloc(): it takes what it needs of the pool, all of which is free, for
\* ConfigDescFree() gives it back when the camera's disconnection is taken.
Fits(c) == c.length <= MEM_POOL_SIZE

\* A version whose negotiation the driver knows, on the interface 1 that 1.5's is
\* written for, a frame within the target, no interface the parser takes for a
\* video one, an endpoint it takes in the last setting, a descriptor that fits.
Supported(c) ==
  /\ c.version = 256 \/ (c.version = 336 /\ c.iface = 1)
  /\ c.others # "interface"
  /\ \E k \in DOMAIN c.frames : c.frames[k].maxRate <= Target
  /\ c.settings # <<>> /\ c.settings[Len(c.settings)] # 0
  /\ Fits(c)

Plug(c) ==
  /\ plugged = NoCamera /\ plugs < MaxPlugs
  /\ env.supported => Supported(c)
  /\ env.spaced => ui32IntEvents = "none" /\ piDeviceState = "eHCDIdle"
  /\ env.same => last \in {NoCamera, c}
  /\ plugged' = c /\ last' = c /\ plugs' = plugs + 1
  /\ ui32IntEvents' = "connect"   \* clears a disconnection not yet taken
  /\ probed' = NoFrame /\ committed' = NoFrame /\ setting' = 0
  /\ UNCHANGED <<env, pc, CAMERA_STATE, piDeviceState, enumerated, active, driver,
                 stream_frame_size>>

Opening == piDeviceState = "eHCDDevAddressed" \/ CAMERA_STATE = "CAMERA_INIT"

Unplug ==
  /\ plugged # NoCamera
  /\ env.steady => ~Opening
  /\ plugged' = NoCamera /\ setting' = 0
  /\ ui32IntEvents' = "disconnect"
  /\ UNCHANGED <<env, pc, CAMERA_STATE, piDeviceState, enumerated, active, driver,
                 stream_frame_size, plugs, last, probed, committed>>

\* uvc_pipe_cb() with an event it does not expect: the interrupt never returns.
StreamError ==
  /\ ~env.clean
  /\ setting # 0 /\ pc # "fault"
  /\ pc' = "fault"
  /\ UNCHANGED <<env, CAMERA_STATE, host, driver, stream_frame_size, port, agreed>>

-----------------------------------------------------------------------------
\* main(): a pass of USBHCDMain(), first the event, then the device's state.

UsbEvents ==
  /\ pc = "usbEvents"
  /\ piDeviceState' = CASE ui32IntEvents = "connect" -> "eHCDDevReset"
                        [] ui32IntEvents = "disconnect" -> "eHCDDevDisconnected"
                        [] OTHER -> piDeviceState
  /\ ui32IntEvents' = "none"
  /\ pc' = "usbDevice"
  /\ UNCHANGED <<env, CAMERA_STATE, enumerated, active, driver, stream_frame_size,
                 port, agreed>>

DeviceStep(state) == pc = "usbDevice" /\ piDeviceState = state

DevReset ==
  /\ DeviceStep("eHCDDevReset")
  /\ piDeviceState' = "eHCDDevConnected" /\ config' = NoCamera
  /\ pc' = "switch"
  /\ UNCHANGED <<env, CAMERA_STATE, ui32IntEvents, known, addressed, active, driver,
                 stream_frame_size, port, agreed>>

\* SendUnknownConnect() of a descriptor that cannot be had; the pass after takes
\* the camera for disconnected.
GiveUp == piDeviceState' = "eHCDDevError" /\ CAMERA_STATE' = "CAMERA_UNCONNECTED"

\* Eight bytes of a cut descriptor suffice for bLength # 0.
DevReadDevice ==
  /\ DeviceStep("eHCDDevConnected") /\ ~known
  /\ \E reply \in Replies :
       /\ known' \in CASE reply = "whole" -> {TRUE} [] reply = "cut" -> BOOLEAN [] OTHER -> {FALSE}
       /\ IF reply = "none" THEN GiveUp ELSE UNCHANGED <<piDeviceState, CAMERA_STATE>>
  /\ pc' = "switch"
  /\ UNCHANGED <<env, ui32IntEvents, addressed, config, active, driver,
                 stream_frame_size, port, agreed>>

\* A device whose descriptor and address are there already is left alone.
DevSetAddress ==
  /\ DeviceStep("eHCDDevConnected") /\ known
  /\ addressed' = TRUE
  /\ piDeviceState' = IF addressed THEN piDeviceState ELSE "eHCDDevAddressed"
  /\ pc' = "switch"
  /\ UNCHANGED <<env, CAMERA_STATE, ui32IntEvents, known, config, active, driver,
                 stream_frame_size, port, agreed>>

\* USBHCDGetConfigDescriptor(): the header, asked for again in the next pass when it
\* comes cut, and with its length the buffer.
DevReadHeader ==
  /\ DeviceStep("eHCDDevAddressed") /\ config = NoCamera
  /\ \E reply \in Replies :
       \/ /\ reply = "cut"
          /\ pc' = "switch" /\ UNCHANGED <<piDeviceState, CAMERA_STATE>>
       \/ /\ reply = "whole" /\ Fits(plugged)
          /\ pc' = "configuration" /\ UNCHANGED <<piDeviceState, CAMERA_STATE>>
       \/ /\ reply = "none" \/ (reply = "whole" /\ ~Fits(plugged))
          /\ GiveUp
          /\ pc' = "switch"
  /\ UNCHANGED <<env, ui32IntEvents, known, addressed, config, active, driver,
                 stream_frame_size, port, agreed>>

\* The rest of it: cut as well, the descriptor counts as read.
DevReadConfig ==
  /\ pc = "configuration"
  /\ \E reply \in Replies :
       \/ reply = "whole" /\ config' = plugged /\ UNCHANGED <<piDeviceState, CAMERA_STATE>>
       \/ reply = "cut" /\ config' \in Torn /\ UNCHANGED <<piDeviceState, CAMERA_STATE>>
       \/ reply = "none" /\ GiveUp /\ UNCHANGED config
  /\ pc' = "switch"
  /\ UNCHANGED <<env, ui32IntEvents, known, addressed, active, driver,
                 stream_frame_size, port, agreed>>

\* USBHCDOpenDriver(): what is cut may show no video interface.
DevOpen ==
  /\ DeviceStep("eHCDDevAddressed") /\ config # NoCamera
  /\ piDeviceState' = "eHCDDevConfigured"
  /\ UvcOpen(config) \/ (config.others = "cut" /\ NotOpened)
  /\ UNCHANGED <<env, ui32IntEvents, enumerated, stream_frame_size, port, agreed>>

DevError ==
  /\ DeviceStep("eHCDDevError")
  /\ ui32IntEvents' = IF ui32IntEvents = "connect" THEN "connect" ELSE "disconnect"
  /\ piDeviceState' = "eHCDIdle"
  /\ pc' = "switch"
  /\ UNCHANGED <<env, CAMERA_STATE, enumerated, active, driver, stream_frame_size, port, agreed>>

DevDisconnected ==
  /\ DeviceStep("eHCDDevDisconnected")
  /\ CAMERA_STATE' = "CAMERA_UNCONNECTED"
  /\ known' = FALSE /\ addressed' = FALSE /\ config' = NoCamera
  /\ IF active THEN UvcClose ELSE UNCHANGED driver
  /\ active' = FALSE
  /\ piDeviceState' = "eHCDIdle"
  /\ pc' = "switch"
  /\ UNCHANGED <<env, ui32IntEvents, stream_frame_size, port, agreed>>

DevNothing ==
  /\ pc = "usbDevice" /\ piDeviceState \in {"eHCDIdle", "eHCDDevConfigured"}
  /\ pc' = "switch"
  /\ UNCHANGED <<env, CAMERA_STATE, host, driver, stream_frame_size, port, agreed>>

-----------------------------------------------------------------------------
\* main(): the switch over CAMERA_STATE, and uvc_probe_set_cur(), uvc_set_iface().

SwitchIdle ==
  /\ pc = "switch" /\ CAMERA_STATE # "CAMERA_INIT"
  /\ pc' = "usbEvents"
  /\ UNCHANGED <<env, CAMERA_STATE, host, driver, stream_frame_size, port, agreed>>

Selected == [formatIdx |-> stream.formatIdx, idx |-> stream.idx]

\* The interface the first request is sent to: 1.5 has it written out.
ProbeInterface == IF uvc_version = 336 THEN 1 ELSE device.iface

\* Mutant: the result of the first transfer is not checked.
SetCurUnchecked(ok) ==
  /\ pc = "switch" /\ CAMERA_STATE = "CAMERA_INIT"
  /\ probed' = IF ok /\ Offers(plugged, ProbeInterface, Selected) THEN Selected ELSE probed
  /\ pc' = IF uvc_version \in {256, 336} THEN "getCur" ELSE "fault"
  /\ UNCHANGED <<env, CAMERA_STATE, host, driver, stream_frame_size, port, committed, setting>>

\* VS_PROBE_CONTROL(SET_CUR), checked: a version of neither 1.0 nor 1.5, a camera
\* that refuses or one that is gone end in uvc_parsing_fault().
SetCur(ok) ==
  /\ pc = "switch" /\ CAMERA_STATE = "CAMERA_INIT"
  /\ IF ok /\ uvc_version \in {256, 336} /\ Offers(plugged, ProbeInterface, Selected)
     THEN probed' = Selected /\ pc' = "getCur"
     ELSE pc' = "fault" /\ UNCHANGED probed
  /\ UNCHANGED <<env, CAMERA_STATE, host, driver, stream_frame_size, port, committed, setting>>

\* VS_PROBE_CONTROL(GET_CUR), not checked: without an answer the reply is zero for
\* 1.0 and for 1.5 what the stack held.
GetCur(ok) ==
  /\ pc = "getCur"
  /\ stream_frame_size' \in
       IF ok /\ device.iface = plugged.iface THEN {probed}
       ELSE {NoFrame} \cup (IF uvc_version = 336 THEN {stream_frame_size} ELSE {})
  /\ pc' = "commit"
  /\ UNCHANGED <<env, CAMERA_STATE, host, driver, port, agreed>>

\* VS_COMMIT_CONTROL(SET_CUR) of that reply, not checked.
Commit(ok) ==
  /\ pc = "commit"
  /\ committed' = IF ok /\ Offers(plugged, device.iface, stream_frame_size)
                  THEN stream_frame_size ELSE committed
  /\ pc' = "setInterface"
  /\ UNCHANGED <<env, CAMERA_STATE, host, driver, stream_frame_size, port, probed, setting>>

\* uvc_set_iface(): a camera without that setting refuses.
SetInterface(ok) ==
  /\ pc = "setInterface"
  /\ setting' = IF ok /\ device.iface = plugged.iface /\ stream_iface_alt \in DOMAIN plugged.settings
                THEN stream_iface_alt ELSE setting
  /\ CAMERA_STATE' = "CAMERA_CONNECTED"
  /\ pc' = "usbEvents"
  /\ UNCHANGED <<env, host, driver, stream_frame_size, port, probed, committed>>

Negotiate == \E ok \in Transfers : SetCur(ok) \/ GetCur(ok) \/ Commit(ok) \/ SetInterface(ok)

Main == \/ UsbEvents \/ DevReset \/ DevReadDevice \/ DevSetAddress \/ DevReadHeader
        \/ DevReadConfig \/ DevOpen \/ DevError \/ DevDisconnected \/ DevNothing
        \/ SwitchIdle \/ Negotiate

Next == Main \/ Unplug \/ StreamError \/ \E c \in Cameras : Plug(c)

Spec == Init /\ [][Next]_vars

\* main() runs: nothing but uvc_parsing_fault() keeps it from its next step.
FairSpec == Spec /\ WF_vars(Main)

-----------------------------------------------------------------------------
\* The reference selection, over all frames at once: of the compressed ones
\* within the target the one nearest to it, else of the raw ones; the first
\* listed of equals.
Within(c, format) == {k \in DOMAIN c.frames : c.frames[k].format = format /\ c.frames[k].maxRate <= Target}

Nearest(c, K) == CHOOSE k \in K : \A j \in K :
  \/ c.frames[j].maxRate < c.frames[k].maxRate
  \/ c.frames[j].maxRate = c.frames[k].maxRate /\ k <= j

Reference(c) ==
  LET mjpeg == Within(c, "UVC_VS_FORMAT_MJPEG")
      raw == Within(c, "UVC_VS_FORMAT_UNCOMPRESSED")
  IN c.frames[Nearest(c, IF mjpeg # {} THEN mjpeg ELSE raw)]

CompressedFirst(c) == \A j, k \in DOMAIN c.frames :
  c.frames[j].format = "UVC_VS_FORMAT_MJPEG" /\ c.frames[k].format = "UVC_VS_FORMAT_UNCOMPRESSED" => j < k

\* One frame after the other, in one pass over the descriptors, the driver comes
\* to the frame of the reference: for a camera that has one and lists MJPEG
\* before raw, also when it comes back after uvc_close(), which keeps the
\* selection (uvc.c:446). A descriptor that came cut has other frames (env.clean).
SelectsReference ==
  device # NoCamera /\ env.clean /\ env.same /\ env.supported /\ CompressedFirst(device) =>
     stream = Reference(device)

\* The report's sentence: "the driver prefers MJPEG over raw".
PrefersMJPEG ==
  device # NoCamera /\ env.same /\ Within(device, "UVC_VS_FORMAT_MJPEG") # {} =>
     stream.format = "UVC_VS_FORMAT_MJPEG"

\* A camera that streams sends the packets the pipe was sized for, although the
\* setting asked for is the last one parsed and the pipe that of the largest
\* endpoint taken: for cameras whose last setting has an endpoint the parser
\* takes, with packets as large as any, if the driver parsed them and not
\* a cut descriptor (device = plugged).
SettingFitsPipe ==
  /\ setting # 0 /\ device = plugged /\ plugged.settings[setting] # 0
  /\ \A j \in DOMAIN plugged.settings : plugged.settings[j] <= plugged.settings[setting]
  => stream_pipe /\ plugged.settings[setting] = stream_endpt_xfer_size

\* A camera that streams is the one the driver has open, sends the frame selected
\* from its descriptor, and the driver counts with that frame's size: whatever
\* was unplugged in between, and though only the first of the four transfers of
\* the negotiation is checked.
StreamsAsAgreed ==
  env.clean /\ setting # 0 =>
     /\ device = plugged
     /\ committed = Selected /\ stream_frame_size = committed

\* Every pipe in use is the driver's one: no open, exchange or close loses one,
\* so that the next camera finds one (uvc_parsing_fault(20) otherwise).
PipesAccounted == pipes = IF stream_pipe THEN 1 ELSE 0

\* In a calm environment a supported camera plugged in comes to stream through a
\* pipe, unless it is unplugged first: no pass, parse or transfer ends in
\* uvc_parsing_fault() or leaves the camera aside.
Calm == env.spaced /\ env.steady /\ env.clean /\ env.same /\ env.supported
CameraServed == (Calm /\ plugged # NoCamera) ~> ((setting # 0 /\ stream_pipe) \/ plugged = NoCamera)
=============================================================================
