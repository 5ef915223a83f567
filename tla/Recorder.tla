------------------------------ MODULE Recorder ------------------------------
(***************************************************************************)
(* The control of the Tiva application, cc3000_basic_wifi_application.c:   *)
(* main() with its network wait, its sleep loop and its awake loop, the    *)
(* wake interrupt KIntHandler, the CC3000 event callback and the camera's  *)
(* USB events. A frame is only "in the buffer or not" here; its bytes are  *)
(* in FrameBuffer. The camera is one the driver supports and answers while *)
(* it is there; what others do is in Camera.                               *)
(*                                                                         *)
(* Interrupt handlers preempt main(): a step of main() is one access of    *)
(* state a handler shares, and main() stands still while KIntHandler runs. *)
(***************************************************************************)
EXTENDS Naturals

CONSTANTS
  SlowLine,    \* TRUE: TIVA_WAKE keeps its level until KIntHandler has returned
  BootLine,    \* levels of TIVA_WAKE when initTrigger() runs
  APInReach,   \* TRUE: the access point answers from some time on
  SlowCamera   \* TRUE: main() handles a frame before the camera ends the next

Bit == {0, 1}

ASSUME RecorderAssumption ==
  /\ SlowLine \in BOOLEAN
  /\ BootLine \subseteq Bit
  /\ APInReach \in BOOLEAN /\ SlowCamera \in BOOLEAN

VARIABLES
  TIVA_WAKE,     \* PK4, driven by the MSP430; the same signal powers the camera
  edge,          \* raw interrupt status of PK4 (both edges set it)
  kint,          \* "idle", or "clear": KIntHandler has toggled, not yet cleared
  msp430Trigger,
  net,           \* CC3000: "idle", "joining" or "joined"
  DHCP,          \* g_ui32CC3000DHCP
  disconnect_happened,
  apStable,      \* environment: the access point no longer drops the station
  ui32IntEvents, \* USB host: the event not yet taken, "none", "connect" or "disconnect"
  piDeviceState,
  addressed,     \* the host holds the descriptor and the address of a camera
  CAMERA_STATE,
  streaming,     \* the camera sends frames: uvc_set_iface() was called for it
  frame,         \* usb_buf_len > 0
  pc             \* where main() is; "fault" in uvc_parsing_fault()

wake == <<TIVA_WAKE, edge, kint, msp430Trigger>>
wifi == <<net, DHCP, disconnect_happened, apStable>>
host == <<ui32IntEvents, piDeviceState, addressed>>
camera == <<host, CAMERA_STATE, streaming>>
vars == <<wake, wifi, camera, frame, pc>>

BootSteps == {"connect", "waitDHCP", "testFlag", "reconnect", "clearFlag"}
LoopSteps == {"sleepTest", "wfi", "asleep", "awakeTest", "usbMain", "switch",
              "setIface", "bufTest", "send", "save", "release"}

TypeOK ==
  /\ TIVA_WAKE \in Bit /\ edge \in Bit /\ msp430Trigger \in Bit
  /\ kint \in {"idle", "clear"}
  /\ net \in {"idle", "joining", "joined"}
  /\ DHCP \in Bit /\ disconnect_happened \in Bit
  /\ apStable \in BOOLEAN
  /\ ui32IntEvents \in {"none", "connect", "disconnect"}
  /\ piDeviceState \in {"eHCDIdle", "eHCDDevConnected", "eHCDDevAddressed", "eHCDDevConfigured"}
  /\ addressed \in BOOLEAN
  /\ CAMERA_STATE \in {"CAMERA_UNCONNECTED", "CAMERA_INIT", "CAMERA_CONNECTED"}
  /\ streaming \in BOOLEAN
  /\ frame \in BOOLEAN
  /\ pc \in BootSteps \cup LoopSteps \cup {"fault"}

Init ==
  /\ TIVA_WAKE \in BootLine /\ edge = 0 /\ kint = "idle" /\ msp430Trigger = 0
  /\ net = "idle" /\ DHCP = 0 /\ disconnect_happened = 0 /\ apStable = FALSE
  /\ ui32IntEvents = "none" /\ piDeviceState = "eHCDIdle" /\ addressed = FALSE
  /\ CAMERA_STATE = "CAMERA_UNCONNECTED" /\ streaming = FALSE
  /\ frame = FALSE
  /\ pc = "connect"

-----------------------------------------------------------------------------
\* The wake line and its interrupt.

\* A camera is on the port: connected, and not disconnected since.
Attached ==
  \/ ui32IntEvents = "connect"
  \/ ui32IntEvents = "none" /\ piDeviceState # "eHCDIdle"

\* The MSP430 moves the line. With it the camera's supply goes, and with that the
\* camera: the interrupt notes a disconnection for USBHCDMain() to take.
LineMoves ==
  /\ SlowLine => edge = 0 /\ kint = "idle"
  /\ TIVA_WAKE' = 1 - TIVA_WAKE
  /\ edge' = 1
  /\ ui32IntEvents' = IF TIVA_WAKE = 1 /\ Attached THEN "disconnect" ELSE ui32IntEvents
  /\ streaming' = (streaming /\ TIVA_WAKE = 0)
  /\ UNCHANGED <<kint, msp430Trigger, wifi, piDeviceState, addressed, CAMERA_STATE, frame, pc>>

\* A powered camera has booted. The interrupt of its connection clears a
\* disconnection that USBHCDMain() has not taken.
CameraConnects ==
  /\ TIVA_WAKE = 1 /\ ~Attached
  /\ ui32IntEvents' = "connect"
  /\ UNCHANGED <<wake, wifi, piDeviceState, addressed, CAMERA_STATE, streaming, frame, pc>>

\* Mutant: the handler counts edges.
KIntCounts ==
  /\ kint = "idle" /\ edge = 1
  /\ msp430Trigger' = msp430Trigger + 1
  /\ kint' = "clear"
  /\ UNCHANGED <<TIVA_WAKE, edge, wifi, camera, frame, pc>>

\* Mutant: the handler takes every edge for a rising one.
KIntSets ==
  /\ kint = "idle" /\ edge = 1
  /\ msp430Trigger' = 1
  /\ kint' = "clear"
  /\ UNCHANGED <<TIVA_WAKE, edge, wifi, camera, frame, pc>>

\* KIntHandler up to its read of the status, then the clear: an edge in between
\* sets a bit that is set already and goes with it.
KIntToggle ==
  /\ kint = "idle" /\ edge = 1
  /\ msp430Trigger' = 1 - msp430Trigger
  /\ kint' = "clear"
  /\ UNCHANGED <<TIVA_WAKE, edge, wifi, camera, frame, pc>>

KIntClear ==
  /\ kint = "clear"
  /\ edge' = 0
  /\ kint' = "idle"
  /\ pc' = IF pc = "asleep" THEN "sleepTest" ELSE pc
  /\ UNCHANGED <<TIVA_WAKE, msp430Trigger, wifi, camera, frame>>

\* Mutant: no SysTick interrupt.
SysTickOff == FALSE /\ UNCHANGED vars

\* SysTick, 100 times a second, ends a SysCtlSleep().
SysTick ==
  /\ kint = "idle" /\ pc = "asleep"
  /\ pc' = "sleepTest"
  /\ UNCHANGED <<wake, wifi, camera, frame>>

-----------------------------------------------------------------------------
\* The CC3000 and CC3000_UsynchCallback.

\* HCI_EVNT_WLAN_UNSOL_DHCP: status 0 is an address, any other a failure.
EventDHCP ==
  /\ net = "joining" /\ APInReach
  /\ \/ DHCP' = 1 /\ net' = "joined"
     \/ ~apStable /\ DHCP' = 0 /\ UNCHANGED net
  /\ UNCHANGED <<wake, disconnect_happened, apStable, camera, frame, pc>>

\* HCI_EVNT_WLAN_UNSOL_DISCONNECT: a join given up or a station dropped.
EventDisconnect ==
  /\ net # "idle" /\ ~apStable
  /\ net' = "idle"
  /\ disconnect_happened' = 1 /\ DHCP' = 0
  /\ UNCHANGED <<wake, apStable, camera, frame, pc>>

APSettles ==
  /\ APInReach /\ ~apStable
  /\ apStable' = TRUE
  /\ UNCHANGED <<wake, net, DHCP, disconnect_happened, camera, frame, pc>>

\* The end of a frame: uvc_end_cb() sets usb_buf_len to usb_buf_i, which is 0 while
\* an earlier frame is in the buffer.
FrameDone ==
  /\ streaming
  /\ SlowCamera => ~frame
  /\ frame' = ~frame
  /\ UNCHANGED <<wake, wifi, camera, pc>>

-----------------------------------------------------------------------------
\* main().

MainAt(step, next) == kint = "idle" /\ pc = step /\ pc' = next

\* wlan_connect() starts an association, before and inside the wait loop.
WlanConnect(step, next) ==
  /\ MainAt(step, next)
  /\ net' = "joining"
  /\ UNCHANGED <<wake, DHCP, disconnect_happened, apStable, camera, frame>>

WaitDHCP ==
  /\ MainAt("waitDHCP", IF DHCP = 1 THEN "sleepTest" ELSE "testFlag")
  /\ UNCHANGED <<wake, wifi, camera, frame>>

\* Mutant: the flag is consumed without a new attempt.
TestNoReconnect ==
  /\ MainAt("testFlag", IF disconnect_happened = 1 THEN "clearFlag" ELSE "waitDHCP")
  /\ UNCHANGED <<wake, wifi, camera, frame>>

TestDisconnect ==
  /\ MainAt("testFlag", IF disconnect_happened = 1 THEN "reconnect" ELSE "waitDHCP")
  /\ UNCHANGED <<wake, wifi, camera, frame>>

\* The flag is cleared after the new attempt was started.
ClearDisconnect ==
  /\ MainAt("clearFlag", "waitDHCP")
  /\ disconnect_happened' = 0
  /\ UNCHANGED <<wake, net, DHCP, apStable, camera, frame>>

SleepTest ==
  /\ MainAt("sleepTest", IF msp430Trigger = 1 THEN "awakeTest" ELSE "wfi")
  /\ CAMERA_STATE' = IF msp430Trigger = 1 THEN CAMERA_STATE ELSE "CAMERA_UNCONNECTED"
  /\ UNCHANGED <<wake, wifi, host, streaming, frame>>

\* SysCtlSleep(): an interrupt that came after the test has been handled already
\* and does not keep the processor from sleeping.
Sleep ==
  /\ MainAt("wfi", "asleep") /\ edge = 0
  /\ UNCHANGED <<wake, wifi, camera, frame>>

AwakeTest ==
  /\ MainAt("awakeTest", IF msp430Trigger = 1 THEN "usbMain" ELSE "sleepTest")
  /\ UNCHANGED <<wake, wifi, camera, frame>>

\* USBHCDMain(): an event, or the next state of the enumeration.
TakeConnect ==
  /\ ui32IntEvents = "connect"
  /\ ui32IntEvents' = "none" /\ piDeviceState' = "eHCDDevConnected"
  /\ UNCHANGED <<addressed, CAMERA_STATE>>

TakeDisconnect ==
  /\ ui32IntEvents = "disconnect"
  /\ ui32IntEvents' = "none" /\ piDeviceState' = "eHCDIdle" /\ addressed' = FALSE
  /\ CAMERA_STATE' = "CAMERA_UNCONNECTED"

AddressCamera ==
  /\ ui32IntEvents = "none" /\ piDeviceState = "eHCDDevConnected" /\ ~addressed
  /\ piDeviceState' = "eHCDDevAddressed" /\ addressed' = TRUE
  /\ UNCHANGED <<ui32IntEvents, CAMERA_STATE>>

\* Its descriptors are read and uvc_open() accepts it: USBHCDEvents(CONNECTED).
OpenCamera ==
  /\ ui32IntEvents = "none" /\ piDeviceState = "eHCDDevAddressed"
  /\ piDeviceState' = "eHCDDevConfigured" /\ CAMERA_STATE' = "CAMERA_INIT"
  /\ UNCHANGED <<ui32IntEvents, addressed>>

\* Nothing to do; so is it for a camera that connects while the address of one
\* that left is still held.
HostIdles ==
  /\ ui32IntEvents = "none"
  /\ \/ piDeviceState \in {"eHCDIdle", "eHCDDevConfigured"}
     \/ piDeviceState = "eHCDDevConnected" /\ addressed
  /\ UNCHANGED <<host, CAMERA_STATE>>

UsbMain ==
  /\ MainAt("usbMain", "switch")
  /\ TakeConnect \/ TakeDisconnect \/ AddressCamera \/ OpenCamera \/ HostIdles
  /\ UNCHANGED <<wake, wifi, streaming, frame>>

\* The camera answers: it is the one the host has configured.
Answers == ui32IntEvents = "none" /\ piDeviceState = "eHCDDevConfigured"

\* CAMERA_INIT: uvc_probe_set_cur(), whose first transfer is checked: a camera
\* that is gone ends in uvc_parsing_fault(). The other cases do nothing.
SwitchCamera ==
  /\ MainAt("switch", IF CAMERA_STATE # "CAMERA_INIT" THEN "bufTest"
                      ELSE IF Answers THEN "setIface" ELSE "fault")
  /\ UNCHANGED <<wake, wifi, camera, frame>>

\* Mutant: the state is advanced without uvc_set_iface().
SetIfaceSkipped ==
  /\ MainAt("setIface", "bufTest")
  /\ CAMERA_STATE' = "CAMERA_CONNECTED"
  /\ UNCHANGED <<wake, wifi, host, streaming, frame>>

\* uvc_set_iface(), not checked.
SetIface ==
  /\ MainAt("setIface", "bufTest")
  /\ CAMERA_STATE' = "CAMERA_CONNECTED"
  /\ streaming' = Answers
  /\ UNCHANGED <<wake, wifi, host, frame>>

BufTest ==
  /\ MainAt("bufTest", IF frame THEN "send" ELSE "awakeTest")
  /\ UNCHANGED <<wake, wifi, camera, frame>>

SendFrame == MainAt("send", "save") /\ UNCHANGED <<wake, wifi, camera, frame>>
SaveFrame == MainAt("save", "release") /\ UNCHANGED <<wake, wifi, camera, frame>>

ReleaseBuffer ==
  /\ MainAt("release", "awakeTest")
  /\ frame' = FALSE
  /\ UNCHANGED <<wake, wifi, camera>>

Boot ==
  \/ WlanConnect("connect", "waitDHCP") \/ WlanConnect("reconnect", "clearFlag")
  \/ WaitDHCP \/ TestDisconnect \/ ClearDisconnect

Main ==
  \/ Boot
  \/ SleepTest \/ Sleep \/ AwakeTest
  \/ UsbMain \/ SwitchCamera \/ SetIface
  \/ BufTest \/ SendFrame \/ SaveFrame \/ ReleaseBuffer

KInt == KIntToggle \/ KIntClear

TivaNext ==
  \/ KInt \/ SysTick
  \/ EventDHCP \/ EventDisconnect \/ APSettles
  \/ CameraConnects \/ FrameDone
  \/ Main

Next == LineMoves \/ TivaNext

\* main() gets on between interrupts however many there are (the handlers are
\* short and the line moves at the pace of the MSP430's triggers, hence SF),
\* interrupts are taken, SysTick fires, a powered camera boots, and an access point
\* in reach settles and completes a join it can complete.
Fairness ==
  /\ SF_vars(Main) /\ WF_vars(KInt) /\ WF_vars(SysTick)
  /\ WF_vars(CameraConnects) /\ WF_vars(APSettles) /\ WF_vars(EventDHCP)

Spec == Init /\ [][Next]_vars
FairSpec == Spec /\ Fairness
-----------------------------------------------------------------------------

\* msp430Trigger is toggled, never read from the pin, and still is the level of
\* the line once the interrupt has been handled - if edges come one at a time
\* and the line was low at boot.
TriggerFollowsLine ==
  edge = 0 /\ kint = "idle" => msp430Trigger = TIVA_WAKE

\* CAMERA_INIT does not outlive the loop iteration that saw the connection, so
\* the sleep loop, which overwrites CAMERA_STATE, never drops a set-up: a camera
\* the host has configured, and that did not leave since, streams by the time the
\* loop looks at the buffer.
InitIsServed ==
  /\ CAMERA_STATE = "CAMERA_INIT" => pc \in {"switch", "setIface", "fault"}
  /\ Answers /\ pc \notin {"switch", "setIface"} => streaming

\* The connection overtook the disconnection: the host holds the address of the
\* camera that left, and leaves the new one alone (usbhostenum.c:3928, 5040), or
\* main() has met the missing camera first and is in uvc_parsing_fault() for ever.
Overtaken ==
  addressed /\ (ui32IntEvents = "connect" \/ piDeviceState = "eHCDDevConnected")

\* After boot a line that stays high ends in a streaming camera, unless it fell and
\* rose before main() took the disconnection: whatever else of the enumeration a
\* falling line cuts off is made up for, and an edge between the test of
\* msp430Trigger and SysCtlSleep() only costs a SysTick.
LineStartsStream ==
  TIVA_WAKE = 1 /\ pc \in LoopSteps
     ~> streaming \/ TIVA_WAKE = 0 \/ Overtaken

\* A refused association is tried again, if main() is not between its call of
\* wlan_connect() and the statement that clears disconnect_happened.
BootRetries ==
  /\ pc \in {"waitDHCP", "testFlag"}
  /\ net = "idle" /\ disconnect_happened = 1
  ~> net = "joining"
=============================================================================
