--------------------------- MODULE RecorderProofs ---------------------------
(***************************************************************************)
(* Theorems about Recorder: the wake flag against the wake line, and the   *)
(* camera's set-up against the sleep loop.                                 *)
(***************************************************************************)
EXTENDS Recorder, TLAPS

USE RecorderAssumption DEF RecorderAssumption, Bit, wake, wifi, host, camera

\* Every variable keeps its type; msp430Trigger stays a truth value.
THEOREM RecorderTypes == Spec => []TypeOK
<1> USE DEF TypeOK, BootSteps, LoopSteps
<1>1. Init => TypeOK
  BY DEF Init
<1>2. TypeOK /\ [Next]_vars => TypeOK'
  <2> SUFFICES ASSUME TypeOK, [Next]_vars PROVE TypeOK'
    OBVIOUS
  <2>1. CASE LineMoves
    BY <2>1 DEF LineMoves
  <2>2. CASE KInt
    BY <2>2 DEF KInt, KIntToggle, KIntClear
  <2>3. CASE SysTick \/ CameraConnects \/ FrameDone
    <3>1. CASE SysTick \/ CameraConnects
      BY <3>1 DEF SysTick, CameraConnects
    <3>2. CASE FrameDone
      <4>1. frame' \in BOOLEAN /\ UNCHANGED <<wake, wifi, camera, pc>>
        BY <3>2, Zenon DEF FrameDone
      <4>2. QED
        BY <4>1
    <3>3. QED
      BY <2>3, <3>1, <3>2
  <2>4. CASE EventDHCP \/ EventDisconnect \/ APSettles
    <3>1. CASE EventDHCP
      BY <3>1 DEF EventDHCP
    <3>2. CASE EventDisconnect
      BY <3>2 DEF EventDisconnect
    <3>3. CASE APSettles
      BY <3>3 DEF APSettles
    <3>4. QED
      BY <2>4, <3>1, <3>2, <3>3
  <2>5. CASE Main
    <3> USE DEF MainAt
    <3>1. CASE Boot
      BY <3>1 DEF Boot, WlanConnect, WaitDHCP, TestDisconnect, ClearDisconnect
    <3>2. CASE SleepTest \/ Sleep \/ AwakeTest
      BY <3>2 DEF SleepTest, Sleep, AwakeTest
    <3>3. CASE UsbMain
      <4>1. addressed' \in BOOLEAN
        BY <3>3, Zenon DEF UsbMain, TakeConnect, TakeDisconnect, AddressCamera,
                           OpenCamera, HostIdles
      <4>2. /\ ui32IntEvents' = "none"
            /\ piDeviceState' \in {"eHCDIdle", "eHCDDevConnected", "eHCDDevAddressed",
                                   "eHCDDevConfigured"}
            /\ CAMERA_STATE' \in {"CAMERA_UNCONNECTED", "CAMERA_INIT", "CAMERA_CONNECTED"}
        BY <3>3 DEF UsbMain, TakeConnect, TakeDisconnect, AddressCamera, OpenCamera,
                    HostIdles
      <4>3. QED
        BY <3>3, <4>1, <4>2 DEF UsbMain
    <3>4. CASE SwitchCamera
      BY <3>4 DEF SwitchCamera
    <3>5. CASE SetIface
      <4>1. streaming' \in BOOLEAN
        BY <3>5, Zenon DEF SetIface, Answers
      <4>2. QED
        BY <3>5, <4>1 DEF SetIface
    <3>6. CASE BufTest \/ SendFrame \/ SaveFrame
      BY <3>6 DEF BufTest, SendFrame, SaveFrame
    <3>7. CASE ReleaseBuffer
      <4>1. frame' \in BOOLEAN
        BY <3>7, Zenon DEF ReleaseBuffer
      <4>2. QED
        BY <3>7, <4>1 DEF ReleaseBuffer
    <3>8. QED
      BY <2>5, <3>1, <3>2, <3>3, <3>4, <3>5, <3>6, <3>7 DEF Main
  <2>6. CASE UNCHANGED vars
    BY <2>6 DEF vars
  <2>7. QED
    BY <2>1, <2>2, <2>3, <2>4, <2>5, <2>6 DEF Next, TivaNext
<1>3. QED
  BY <1>1, <1>2, PTL DEF Spec

\* No step of main(), of the network or of the camera touches the wake state.
LEMMA MainKeepsWake ==
  ASSUME Main
  PROVE  UNCHANGED wake
BY DEF Main, Boot, WlanConnect, WaitDHCP, TestDisconnect, ClearDisconnect,
       SleepTest, Sleep, AwakeTest, UsbMain, SwitchCamera, SetIface, BufTest,
       SendFrame, SaveFrame, ReleaseBuffer

LEMMA WakeUntouched ==
  ASSUME Next, ~LineMoves, ~KInt
  PROVE  UNCHANGED wake
<1>1. CASE SysTick \/ CameraConnects \/ FrameDone \/ EventDHCP \/ EventDisconnect \/ APSettles
  BY <1>1 DEF SysTick, CameraConnects, FrameDone, EventDHCP, EventDisconnect, APSettles
<1>2. QED
  BY <1>1, MainKeepsWake DEF Next, TivaNext

-----------------------------------------------------------------------------

\* The flag lags the line by exactly the edge that waits for its handler.
OneEdgeBehind ==
  /\ kint = "clear" => edge = 1
  /\ msp430Trigger = IF edge = 1 /\ kint = "idle" THEN 1 - TIVA_WAKE ELSE TIVA_WAKE

\* Edges that come one at a time and a line that is low at boot keep the toggled
\* flag equal to the line.
THEOREM FlagIsLine ==
  ASSUME SlowLine, BootLine = {0}
  PROVE  Spec => []TriggerFollowsLine
<1>1. Init => OneEdgeBehind
  BY DEF Init, OneEdgeBehind
<1>2. TypeOK /\ OneEdgeBehind /\ [Next]_vars => OneEdgeBehind'
  <2> SUFFICES ASSUME TypeOK, OneEdgeBehind, [Next]_vars PROVE OneEdgeBehind'
    OBVIOUS
  <2> USE SlowLine DEF TypeOK, OneEdgeBehind
  <2>1. CASE LineMoves
    BY <2>1 DEF LineMoves
  <2>2. CASE KInt
    BY <2>2 DEF KInt, KIntToggle, KIntClear
  <2>3. CASE UNCHANGED wake
    BY <2>3
  <2>4. QED
    BY <2>1, <2>2, <2>3, WakeUntouched DEF vars
<1>3. OneEdgeBehind => TriggerFollowsLine
  BY DEF OneEdgeBehind, TriggerFollowsLine
<1>4. QED
  BY <1>1, <1>2, <1>3, RecorderTypes, PTL DEF Spec

\* InitIsServed with the state inside a loop iteration: CAMERA_INIT is that of the
\* camera configured, and only it stands between that camera and its stream.
InitPending ==
  /\ CAMERA_STATE = "CAMERA_INIT" =>
        pc \in {"switch", "setIface", "fault"} /\ piDeviceState = "eHCDDevConfigured"
  /\ pc = "setIface" => CAMERA_STATE = "CAMERA_INIT"
  /\ pc = "fault" => ui32IntEvents # "none"
  /\ Answers => streaming \/ CAMERA_STATE = "CAMERA_INIT"

\* main() leaves the host stack and the camera's set-up alone but in the three
\* steps of the awake loop that are for them.
LEMMA CameraUntouched ==
  ASSUME Main, ~UsbMain, ~SwitchCamera, ~SetIface
  PROVE  /\ UNCHANGED <<host, streaming>>
         /\ CAMERA_STATE' \in {CAMERA_STATE, "CAMERA_UNCONNECTED"}
         /\ CAMERA_STATE' = CAMERA_STATE \/ pc = "sleepTest"
         /\ pc \notin {"switch", "setIface", "fault"} /\ pc' \notin {"switch", "setIface", "fault"}
BY DEF Main, Boot, WlanConnect, WaitDHCP, TestDisconnect, ClearDisconnect, SleepTest,
       Sleep, AwakeTest, BufTest, SendFrame, SaveFrame, ReleaseBuffer, MainAt

\* Whatever the line and the network do, a camera the host has configured is set
\* up before the loop goes on, and no sleep overwrites CAMERA_INIT.
THEOREM InitServed == Spec => []InitIsServed
<1> USE DEF InitPending, Answers
<1>1. Init => InitPending
  BY DEF Init
<1>2. TypeOK /\ InitPending /\ [Next]_vars => InitPending'
  <2> SUFFICES ASSUME TypeOK, InitPending, [Next]_vars PROVE InitPending'
    OBVIOUS
  <2> USE DEF TypeOK, MainAt
  <2>1. CASE LineMoves
    <3>1. CASE TIVA_WAKE = 1 /\ Attached
      BY <2>1, <3>1 DEF LineMoves
    <3>2. CASE TIVA_WAKE = 1 /\ ~Attached
      BY <2>1, <3>2 DEF LineMoves, Attached
    <3>3. CASE TIVA_WAKE # 1
      <4>1. streaming' = streaming
        <5>1. TIVA_WAKE = 0
          BY <3>3
        <5>2. QED
          BY <2>1, <5>1, Zenon DEF LineMoves
      <4>2. QED
        BY <2>1, <3>3, <4>1 DEF LineMoves
    <3>4. QED
      BY <3>1, <3>2, <3>3
  <2>2. CASE KInt
    BY <2>2 DEF KInt, KIntToggle, KIntClear
  <2>3. CASE SysTick \/ CameraConnects \/ FrameDone \/ EventDHCP \/ EventDisconnect \/ APSettles
    BY <2>3 DEF SysTick, CameraConnects, FrameDone, EventDHCP, EventDisconnect, APSettles
  <2>4. CASE UsbMain
    <3>1. CAMERA_STATE # "CAMERA_INIT" /\ pc = "usbMain" /\ pc' = "switch"
      BY <2>4 DEF UsbMain
    <3>2. streaming' = streaming
      BY <2>4 DEF UsbMain
    <3>3. CASE TakeConnect \/ TakeDisconnect \/ AddressCamera \/ OpenCamera
      BY <3>1, <3>2, <3>3 DEF TakeConnect, TakeDisconnect, AddressCamera, OpenCamera
    <3>4. CASE HostIdles
      BY <3>1, <3>2, <3>4 DEF HostIdles
    <3>5. QED
      BY <2>4, <3>3, <3>4 DEF UsbMain
  <2>5. CASE SwitchCamera
    <3>1. UNCHANGED camera /\ pc = "switch"
      BY <2>5 DEF SwitchCamera
    <3>2. CASE CAMERA_STATE # "CAMERA_INIT"
      BY <2>5, <3>1, <3>2 DEF SwitchCamera
    <3>3. CASE CAMERA_STATE = "CAMERA_INIT" /\ Answers
      BY <2>5, <3>1, <3>3 DEF SwitchCamera
    <3>4. CASE CAMERA_STATE = "CAMERA_INIT" /\ ~Answers
      BY <2>5, <3>1, <3>4 DEF SwitchCamera
    <3>5. QED
      BY <3>2, <3>3, <3>4
  <2>6. CASE SetIface
    <3>1. /\ CAMERA_STATE' = "CAMERA_CONNECTED" /\ pc' = "bufTest"
          /\ UNCHANGED host
          /\ Answers => streaming'
      BY <2>6, Zenon DEF SetIface
    <3>2. QED
      BY <3>1
  <2>7. CASE Main /\ ~UsbMain /\ ~SwitchCamera /\ ~SetIface
    <3>1. /\ UNCHANGED <<host, streaming>>
          /\ CAMERA_STATE' \in {CAMERA_STATE, "CAMERA_UNCONNECTED"}
          /\ pc \notin {"switch", "setIface", "fault"} /\ pc' \notin {"switch", "setIface", "fault"}
      BY <2>7, CameraUntouched
    <3>2. QED
      BY <3>1
  <2>8. CASE UNCHANGED vars
    BY <2>8 DEF vars
  <2>9. QED
    BY <2>1, <2>2, <2>3, <2>4, <2>5, <2>6, <2>7, <2>8 DEF Next, TivaNext
<1>3. InitPending => InitIsServed
  BY DEF InitIsServed
<1>4. QED
  BY <1>1, <1>2, <1>3, RecorderTypes, PTL DEF Spec

\* The camera is powered by the line.
Powered == streaming \/ Attached => TIVA_WAKE = 1

LEMMA StreamsWhilePowered == Spec => []Powered
<1> USE DEF Powered, Attached
<1>1. Init => Powered
  BY DEF Init
<1>2. TypeOK /\ Powered /\ [Next]_vars => Powered'
  <2> SUFFICES ASSUME TypeOK, Powered, [Next]_vars PROVE Powered'
    OBVIOUS
  <2> USE DEF MainAt
  <2>1. CASE LineMoves
    <3>1. CASE TIVA_WAKE = 1
      <4>1. ~streaming'
        <5>1. TIVA_WAKE # 0
          BY <3>1
        <5>2. QED
          BY <2>1, <5>1, Zenon DEF LineMoves
      <4>2. ~Attached'
        BY <2>1, <3>1 DEF LineMoves
      <4>3. QED
        BY <4>1, <4>2, Zenon
    <3>2. CASE TIVA_WAKE # 1
      BY <2>1, <3>2 DEF LineMoves, TypeOK
    <3>3. QED
      BY <3>1, <3>2
  <2>2. CASE KInt
    BY <2>2 DEF KInt, KIntToggle, KIntClear
  <2>3. CASE SysTick \/ CameraConnects \/ FrameDone \/ EventDHCP \/ EventDisconnect \/ APSettles
    BY <2>3 DEF SysTick, CameraConnects, FrameDone, EventDHCP, EventDisconnect, APSettles
  <2>4. CASE UsbMain
    BY <2>4 DEF UsbMain, TakeConnect, TakeDisconnect, AddressCamera, OpenCamera, HostIdles
  <2>5. CASE SwitchCamera
    BY <2>5 DEF SwitchCamera
  <2>6. CASE SetIface
    <3>1. UNCHANGED <<host, TIVA_WAKE>>
      BY <2>6 DEF SetIface
    <3>2. streaming' => Attached
      <4>1. streaming' => Answers
        BY <2>6, Zenon DEF SetIface
      <4>2. Answers => Attached
        BY DEF Answers
      <4>3. QED
        BY <4>1, <4>2, Zenon
    <3>3. Attached' => Attached
      BY <3>1
    <3>4. TIVA_WAKE' = TIVA_WAKE
      BY <3>1
    <3>5. QED
      BY <3>2, <3>3, <3>4, Zenon
  <2>7. CASE Main /\ ~UsbMain /\ ~SwitchCamera /\ ~SetIface
    <3>1. UNCHANGED <<host, streaming>>
      BY <2>7, CameraUntouched
    <3>2. UNCHANGED wake
      BY <2>7, MainKeepsWake
    <3>3. QED
      BY <3>1, <3>2
  <2>8. CASE UNCHANGED vars
    BY <2>8 DEF vars
  <2>9. QED
    BY <2>1, <2>2, <2>3, <2>4, <2>5, <2>6, <2>7, <2>8 DEF Next, TivaNext
<1>3. QED
  BY <1>1, <1>2, RecorderTypes, PTL DEF Spec
=============================================================================
