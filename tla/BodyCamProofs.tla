--------------------------- MODULE BodyCamProofs ----------------------------
(***************************************************************************)
(* Theorems about BodyCam, from those about its two parts: a behaviour of  *)
(* the composition is a behaviour of each, so that their theorems hold in  *)
(* it, and meet on the line between them.                                  *)
(***************************************************************************)
EXTENDS BodyCam, TLAPS

TP == INSTANCE TriggerProofs WITH pc <- mspPc, Debounced <- TRUE
RP == INSTANCE RecorderProofs WITH pc <- tivaPc, SlowLine <- TRUE, BootLine <- {0},
                                   APInReach <- TRUE, SlowCamera <- TRUE

\* The constants of the MSP430, as main.c and the pins give them.
USE BodyCamAssumption DEF BodyCamAssumption

LEMMA TriggerPart == Spec => TP!Spec
<1>1. Init => TP!Init
  BY DEF Init, T!Init, TP!Init, TP!Pins, T!Pins, TP!Events, T!Events
<1>2. [Next]_vars => [TP!Next]_(TP!vars)
  <2> SUFFICES ASSUME [Next]_vars PROVE [TP!Next]_(TP!vars)
    OBVIOUS
  <2>1. CASE UNCHANGED vars \/ TivaStep
    BY <2>1 DEF vars, msp, TivaStep, TP!vars, TP!registers, TP!flags
  <2>2. CASE T!Inputs \/ T!Timer_A
    <3>1. TP!Inputs \/ TP!Timer_A
      BY <2>2 DEF T!Inputs, T!PinChange, T!Noise, T!FallQuiet, T!Serving,
        T!Timer_A, T!RfidExpires, T!MicExpires, T!MicTimeAfterTick, T!Older,
        T!AgeLimit, T!WakeLevel, T!registers, T!flags, T!Pins, TP!Inputs,
        TP!PinChange, TP!Noise, TP!FallQuiet, TP!Serving, TP!Timer_A,
        TP!RfidExpires, TP!MicExpires, TP!MicTimeAfterTick, TP!Older,
        TP!AgeLimit, TP!WakeLevel, TP!registers, TP!flags, TP!Pins
    <3>2. QED
      BY <3>1 DEF TP!Next
  <2>3. CASE T!Port_1
    <3>1. TP!Port_1
      BY <2>3 DEF T!Port_1, T!PortEnter, T!PortSwTest, T!PortSwClear,
        T!PortSwRead, T!PortMic, T!PortRfidTest, T!PortRfidClear,
        T!PortRfidRead, T!PortRfidDone, T!PortUpdate, T!TestAndToggle,
        T!ClearFlag, T!GoTo, T!At, T!WakeLevel, T!registers, T!flags,
        TP!Port_1, TP!PortEnter, TP!PortSwTest, TP!PortSwClear, TP!PortSwRead,
        TP!PortMic, TP!PortRfidTest, TP!PortRfidClear, TP!PortRfidRead,
        TP!PortRfidDone, TP!PortUpdate, TP!TestAndToggle, TP!ClearFlag,
        TP!GoTo, TP!At, TP!WakeLevel, TP!registers, TP!flags
    <3>2. QED
      BY <3>1 DEF TP!Next
  <2>4. QED
    BY <2>1, <2>2, <2>3 DEF Next, MspStep, T!Next
<1>3. QED
  BY <1>1, <1>2, PTL DEF Spec, TP!Spec

LEMMA RecorderPart == Spec => RP!Spec
<1>1. Init => RP!Init
  BY DEF Init, R!Init, RP!Init
<1>2. [Next]_vars => [RP!Next]_(RP!vars)
  <2> SUFFICES ASSUME [Next]_vars PROVE [RP!Next]_(RP!vars)
    OBVIOUS
  <2>1. CASE UNCHANGED vars
    BY <2>1 DEF vars, tiva, RP!vars, RP!wake, RP!wifi, RP!host, RP!camera
  <2>2. CASE MspStep /\ TIVA_WAKE' = TIVA_WAKE
    BY <2>2 DEF MspStep, tiva, RP!vars, RP!wake, RP!wifi, RP!host, RP!camera
  <2>3. CASE R!LineMoves
    BY <2>3 DEF R!LineMoves, RP!LineMoves, RP!Next, R!wifi, RP!wifi,
                R!Attached, RP!Attached
  <2>4. CASE R!TivaNext
    <3>1. CASE ~R!Main
      BY <2>4, <3>1 DEF R!TivaNext, RP!Next, RP!TivaNext, R!KInt,
        R!KIntToggle, R!KIntClear, R!SysTick, R!EventDHCP, R!EventDisconnect,
        R!APSettles, R!CameraConnects, R!Attached, R!FrameDone, R!wake, R!wifi,
        R!host, R!camera, RP!KInt,
        RP!KIntToggle, RP!KIntClear, RP!SysTick, RP!EventDHCP,
        RP!EventDisconnect, RP!APSettles, RP!CameraConnects, RP!Attached,
        RP!FrameDone, RP!wake, RP!wifi, RP!host, RP!camera
    <3>2. CASE R!Main
      <4>1. RP!Main
        BY <3>2 DEF R!Main, R!Boot, R!WlanConnect, R!WaitDHCP,
          R!TestDisconnect, R!ClearDisconnect, R!SleepTest, R!Sleep,
          R!AwakeTest, R!UsbMain, R!TakeConnect, R!TakeDisconnect,
          R!AddressCamera, R!OpenCamera, R!HostIdles, R!SwitchCamera,
          R!SetIface, R!Answers, R!BufTest, R!SendFrame, R!SaveFrame,
          R!ReleaseBuffer, R!MainAt, R!wake, R!wifi, R!host, R!camera,
          RP!Main, RP!Boot, RP!WlanConnect, RP!WaitDHCP, RP!TestDisconnect,
          RP!ClearDisconnect, RP!SleepTest, RP!Sleep, RP!AwakeTest,
          RP!UsbMain, RP!TakeConnect, RP!TakeDisconnect, RP!AddressCamera,
          RP!OpenCamera, RP!HostIdles, RP!SwitchCamera, RP!SetIface,
          RP!Answers, RP!BufTest, RP!SendFrame, RP!SaveFrame,
          RP!ReleaseBuffer, RP!MainAt, RP!wake, RP!wifi, RP!host, RP!camera
      <4>2. QED
        BY <4>1 DEF RP!Next, RP!TivaNext
    <3>3. QED
      BY <3>1, <3>2
  <2>5. QED
    BY <2>1, <2>2, <2>3, <2>4 DEF Next, MspStep, TivaStep
<1>3. QED
  BY <1>1, <1>2, PTL DEF Spec, RP!Spec

\* End to end: whenever neither processor has work, the flag main() tests is the
\* or of the MSP430's three triggers.
THEOREM FlagIsTrigger == Spec => []FlagMeansTrigger
<1>1. RP!Spec => []RP!TriggerFollowsLine
  BY RP!FlagIsLine DEF RP!Bit
<1>2. TP!Spec => []TP!WakeFollowsFlags
  BY TP!WakeFollows DEF TP!Bit, TP!Pins
<1>3. TP!WakeFollowsFlags /\ RP!TriggerFollowsLine => FlagMeansTrigger
  BY DEF TP!WakeFollowsFlags, RP!TriggerFollowsLine, FlagMeansTrigger, TP!At, TP!WakeLevel, T!WakeLevel
<1>4. QED
  BY <1>1, <1>2, <1>3, TriggerPart, RecorderPart, PTL

\* The camera streams for a trigger that counts, or that Port_1 is about to drop.
THEOREM CauseForVideo == Spec => []StreamsForTrigger
<1>1. RP!Spec => []RP!Powered
  BY RP!StreamsWhilePowered DEF RP!Bit
<1>2. TP!Spec => []TP!WakeFollowsFlags
  BY TP!WakeFollows DEF TP!Bit, TP!Pins
<1>3. TP!WakeFollowsFlags /\ RP!Powered => StreamsForTrigger
  BY DEF TP!WakeFollowsFlags, RP!Powered, StreamsForTrigger, TP!At, TP!WakeLevel
<1>4. QED
  BY <1>1, <1>2, <1>3, TriggerPart, RecorderPart, PTL
=============================================================================
