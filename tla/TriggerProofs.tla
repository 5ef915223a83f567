--------------------------- MODULE TriggerProofs ----------------------------
(***************************************************************************)
(* Theorems about Trigger, for every length of the two timeouts.           *)
(***************************************************************************)
EXTENDS Trigger, TLAPS

USE TriggerAssumption DEF TriggerAssumption, Pins, Sources, Bit

\* Every variable keeps its type: in particular neither count passes its limit.
THEOREM TypeCorrect == Spec => []TypeOK
<1>1. Init => TypeOK
  <2> SUFFICES ASSUME Init PROVE TypeOK
    OBVIOUS
  <2>1. P1IN \in [Pins -> Bit]
    BY DEF Init
  <2>2. PICK e \in BootIES : P1IES = [p \in Pins |-> IF p = "SW" THEN e ELSE 0]
    BY DEF Init
  <2>3. P1IES \in [Pins -> Bit]
    BY <2>2
  <2>4. age \in [Events -> 0..AgeLimit]
    BY DEF Init, AgeLimit
  <2>5. RFID_time \in 0..RFID_timeout /\ MIC_time \in 0..MIC_timeout
    BY DEF Init
  <2>6. QED
    BY <2>1, <2>3, <2>4, <2>5 DEF Init, TypeOK
<1>2. TypeOK /\ [Next]_vars => TypeOK'
  <2> SUFFICES ASSUME TypeOK, [Next]_vars PROVE TypeOK'
    OBVIOUS
  <2> USE DEF TypeOK, flags, registers, GoTo, At, PortSteps
  <2>1. ASSUME NEW p \in Pins, PinChange(p) PROVE TypeOK'
    BY <2>1 DEF PinChange
  <2>2. CASE Noise
    BY <2>2 DEF Noise, Events, AgeLimit
  <2>3. CASE FallQuiet
    BY <2>3 DEF FallQuiet
  <2>4. CASE Timer_A
    <3>1. RFID_ON' \in Bit /\ RFID_time' \in 0..RFID_timeout
      BY <2>4 DEF Timer_A, RfidExpires
    <3>2. MIC_ON' \in Bit /\ MIC_time' \in 0..MIC_timeout
      BY <2>4 DEF Timer_A, MicExpires, MicTimeAfterTick
    <3>3. TIVA_WAKE' \in Bit
      BY <2>4 DEF Timer_A, WakeLevel
    <3>4. age' \in [Events -> 0..AgeLimit]
      BY <2>4 DEF Timer_A, Events, Older, AgeLimit
    <3>5. QED
      BY <2>4, <3>1, <3>2, <3>3, <3>4 DEF Timer_A
  <2>5. CASE Port_1
    <3>1. CASE PortEnter
      BY <3>1 DEF PortEnter
    <3>2. CASE PortSwTest \/ PortRfidTest
      <4>1. P1IES' \in [Pins -> Bit]
        BY <3>2 DEF PortSwTest, PortRfidTest, TestAndToggle
      <4>2. pc' \in PortSteps \cup {"lpm"}
        BY <3>2 DEF PortSwTest, PortRfidTest, TestAndToggle
      <4>3. QED
        BY <3>2, <4>1, <4>2 DEF PortSwTest, PortRfidTest, TestAndToggle
    <3>3. CASE PortSwClear \/ PortRfidClear \/ PortRfidDone
      BY <3>3 DEF PortSwClear, PortRfidClear, PortRfidDone, ClearFlag
    <3>4. CASE PortSwRead
      BY <3>4 DEF PortSwRead
    <3>5. CASE PortMic
      BY <3>5 DEF PortMic
    <3>6. CASE PortRfidRead
      BY <3>6 DEF PortRfidRead, Events, AgeLimit
    <3>7. CASE PortUpdate
      BY <3>7 DEF PortUpdate, WakeLevel
    <3>8. QED
      BY <2>5, <3>1, <3>2, <3>3, <3>4, <3>5, <3>6, <3>7 DEF Port_1
  <2>6. CASE UNCHANGED vars
    BY <2>6 DEF vars
  <2>7. QED
    BY <2>1, <2>2, <2>3, <2>4, <2>5, <2>6 DEF Next, Inputs
<1>3. QED
  BY <1>1, <1>2, PTL DEF Spec

\* Asleep, the wake line is the disjunction of the three flags: no branch of
\* the two interrupt routines leaves it stale.
THEOREM WakeFollows == Spec => []WakeFollowsFlags
<1> USE DEF WakeFollowsFlags, At
<1>1. Init => WakeFollowsFlags
  BY DEF Init, WakeLevel
<1>2. TypeOK /\ WakeFollowsFlags /\ [Next]_vars => WakeFollowsFlags'
  <2> SUFFICES ASSUME TypeOK, WakeFollowsFlags, [Next]_vars, pc' = "lpm"
               PROVE  TIVA_WAKE' = WakeLevel(SW_ON', MIC_ON', RFID_ON')
    OBVIOUS
  <2> USE DEF flags, GoTo
  <2>1. CASE Inputs
    BY <2>1 DEF Inputs, PinChange, Noise, FallQuiet
  <2>2. CASE Timer_A
    <3>1. CASE RfidExpires \/ MicExpires \/ MIC_ON = 0
      BY <2>2, <3>1 DEF Timer_A
    <3>2. CASE ~(RfidExpires \/ MicExpires \/ MIC_ON = 0)
      BY <2>2, <3>2 DEF Timer_A
    <3>3. QED
      BY <3>1, <3>2
  <2>3. CASE Port_1
    <3>1. PortUpdate
      BY <2>3 DEF Port_1, PortEnter, PortSwTest, PortSwClear, PortSwRead, PortMic,
                  PortRfidTest, PortRfidClear, PortRfidRead, PortRfidDone,
                  TestAndToggle, ClearFlag
    <3>2. QED
      BY <3>1 DEF PortUpdate
  <2>4. CASE UNCHANGED vars
    BY <2>4 DEF vars
  <2>5. QED
    BY <2>1, <2>2, <2>3, <2>4 DEF Next
<1>3. QED
  BY <1>1, <1>2, TypeCorrect, PTL DEF Spec

-----------------------------------------------------------------------------

\* MIC_time is the number of ticks since MIC_ON was set, and is 0 with it clear:
\* no earlier window leaves anything behind.
MicCounts ==
  /\ age["micOn"] = MIC_time
  /\ MIC_ON = 0 => MIC_time = 0

LEMMA MicCountsInvariant == Spec => []MicCounts
<1> USE DEF MicCounts
<1>1. Init => MicCounts
  BY DEF Init, Events
<1>2. TypeOK /\ MicCounts /\ [Next]_vars => MicCounts'
  <2> SUFFICES ASSUME TypeOK, MicCounts, [Next]_vars PROVE MicCounts'
    OBVIOUS
  <2> USE DEF TypeOK, Events, flags, registers
  <2>1. CASE Inputs
    BY <2>1 DEF Inputs, PinChange, Noise, FallQuiet
  <2>2. CASE Timer_A
    BY <2>2 DEF Timer_A, MicExpires, MicTimeAfterTick, Older, AgeLimit
  <2>3. CASE Port_1
    BY <2>3 DEF Port_1, PortEnter, PortSwTest, PortSwClear, PortSwRead, PortMic,
                PortRfidTest, PortRfidClear, PortRfidRead, PortRfidDone,
                PortUpdate, TestAndToggle, ClearFlag
  <2>4. CASE UNCHANGED vars
    BY <2>4 DEF vars
  <2>5. QED
    BY <2>1, <2>2, <2>3, <2>4 DEF Next
<1>3. QED
  BY <1>1, <1>2, TypeCorrect, PTL DEF Spec

\* A noise that sets MIC_ON keeps it for MIC_timeout ticks at least, counted from
\* that setting: one that comes while MIC_ON is set adds nothing.
THEOREM MicWindow == Spec => MicHoldsWindow
<1>1. /\ TypeOK /\ MicCounts /\ [Next]_vars
      => [MIC_ON = 1 /\ MIC_ON' = 0 => age["micOn"] >= MIC_timeout]_vars
  <2> SUFFICES ASSUME TypeOK, MicCounts, Next, MIC_ON = 1, MIC_ON' = 0
               PROVE  age["micOn"] >= MIC_timeout
    OBVIOUS
  <2>1. Timer_A
    BY DEF Next, Inputs, PinChange, Noise, FallQuiet, Port_1, PortEnter,
           PortSwTest, PortSwClear, PortSwRead, PortMic, PortRfidTest,
           PortRfidClear, PortRfidRead, PortRfidDone, PortUpdate,
           TestAndToggle, ClearFlag, flags
  <2>2. QED
    BY <2>1 DEF Timer_A, MicExpires, MicCounts
<1>2. QED
  BY <1>1, TypeCorrect, MicCountsInvariant, PTL DEF Spec, MicHoldsWindow
-----------------------------------------------------------------------------
\* The boot states in which the armed edges agree with the pins, the switch off.
SettledBoot ==
  /\ \A b \in BootPins : b["SW"] = 0 /\ b["RFID"] = 0
  /\ BootIES = {0}

\* Port_1 has toggled the edge of p for the interrupt it is serving.
Toggled(p) ==
  \/ p = "SW" /\ pc \in {"swClear", "swRead"}
  \/ p = "RFID" /\ pc \in {"rfidClear", "rfidRead", "rfidDone"}

\* Flag, edge and level of an input free of bounce move in step.
InPhase ==
  /\ \A p \in Pins : (P1IES[p] = P1IN[p]) <=> (p \notin P1IFG \/ Toggled(p))
  /\ pc = "swRead" => "SW" \notin P1IFG
  /\ pc \in {"rfidRead", "rfidDone"} => "RFID" \notin P1IFG

LEMMA InPhaseInvariant ==
  ASSUME Debounced, SettledBoot
  PROVE  Spec => []InPhase
<1>1. Init => InPhase
  <2> SUFFICES ASSUME Init PROVE InPhase
    OBVIOUS
  <2>1. \A p \in Pins : P1IES[p] = 0 /\ P1IN[p] = 0
    BY SettledBoot DEF Init, SettledBoot
  <2>2. QED
    BY <2>1 DEF Init, InPhase, Toggled
<1>2. TypeOK /\ InPhase /\ [Next]_vars => InPhase'
  <2> SUFFICES ASSUME TypeOK, InPhase, [Next]_vars PROVE InPhase'
    OBVIOUS
  <2> USE Debounced DEF TypeOK, InPhase, Toggled, flags, registers, At, GoTo
  <2>1. ASSUME NEW p \in Pins, PinChange(p) PROVE InPhase'
    BY <2>1 DEF PinChange, Serving
  <2>2. CASE Noise
    BY <2>2 DEF Noise
  <2>3. CASE FallQuiet
    BY <2>3 DEF FallQuiet
  <2>4. CASE Timer_A
    BY <2>4 DEF Timer_A
  <2>5. CASE Port_1
    <3>1. CASE PortEnter
      BY <3>1 DEF PortEnter
    <3>2. CASE PortSwTest
      BY <3>2 DEF PortSwTest, TestAndToggle
    <3>3. CASE PortSwClear
      BY <3>3 DEF PortSwClear, ClearFlag
    <3>4. CASE PortSwRead
      BY <3>4 DEF PortSwRead
    <3>5. CASE PortMic
      BY <3>5 DEF PortMic
    <3>6. CASE PortRfidTest
      BY <3>6 DEF PortRfidTest, TestAndToggle
    <3>7. CASE PortRfidClear
      BY <3>7 DEF PortRfidClear, ClearFlag
    <3>8. CASE PortRfidRead
      BY <3>8 DEF PortRfidRead
    <3>9. CASE PortRfidDone
      BY <3>9 DEF PortRfidDone, ClearFlag
    <3>10. CASE PortUpdate
      BY <3>10 DEF PortUpdate
    <3>11. QED
      BY <2>5, <3>1, <3>2, <3>3, <3>4, <3>5, <3>6, <3>7, <3>8, <3>9, <3>10
      DEF Port_1
  <2>6. CASE UNCHANGED vars
    BY <2>6 DEF vars
  <2>7. QED
    BY <2>1, <2>2, <2>3, <2>4, <2>5, <2>6 DEF Next, Inputs
<1>3. QED
  BY <1>1, <1>2, TypeCorrect, PTL DEF Spec

\* With inputs free of bounce and a settled boot no edge is ever missed: an
\* input that is not being served is armed for the change it can make next.
THEOREM AlwaysArmed ==
  ASSUME Debounced, SettledBoot
  PROVE  Spec => []EdgeReady
<1>1. TypeOK /\ InPhase => EdgeReady
  BY DEF InPhase, EdgeReady, Serving, Toggled
<1>2. QED
  BY <1>1, TypeCorrect, InPhaseInvariant, PTL

-----------------------------------------------------------------------------

\* FlagsTrackInputs, strengthened: RFID_ON is right from the read of P1IN on.
FlagsFresh ==
  /\ ~Serving("SW") => SW_ON = P1IN["SW"]
  /\ /\ "RFID" \notin P1IFG
     /\ pc \notin {"rfidClear", "rfidRead"}
     /\ RFID_ON = 1
     => P1IN["RFID"] = 0

\* Under the same assumptions the flags are the inputs, as last served.
THEOREM FlagsTrack ==
  ASSUME Debounced, SettledBoot
  PROVE  Spec => []FlagsTrackInputs
<1> USE DEF Serving
<1>1. Init => FlagsFresh
  BY SettledBoot DEF Init, FlagsFresh, SettledBoot
<1>2. TypeOK /\ InPhase /\ FlagsFresh /\ [Next]_vars => FlagsFresh'
  <2> SUFFICES ASSUME TypeOK, InPhase, FlagsFresh, [Next]_vars PROVE FlagsFresh'
    OBVIOUS
  <2> USE Debounced DEF TypeOK, FlagsFresh, flags, registers, At, GoTo
  <2>1. ASSUME NEW p \in Pins, PinChange(p) PROVE FlagsFresh'
    BY <2>1 DEF PinChange, InPhase, Toggled
  <2>2. CASE Noise
    BY <2>2 DEF Noise
  <2>3. CASE FallQuiet
    BY <2>3 DEF FallQuiet
  <2>4. CASE Timer_A
    BY <2>4 DEF Timer_A
  <2>5. CASE Port_1
    <3>1. CASE PortSwRead
      BY <3>1 DEF PortSwRead
    <3>2. CASE PortRfidRead
      BY <3>2 DEF PortRfidRead
    <3>3. CASE PortMic
      BY <3>3 DEF PortMic
    <3>4. CASE PortSwTest \/ PortRfidTest
      <4>1. pc' # "lpm" /\ UNCHANGED <<P1IN, P1IFG, flags>>
        BY <3>4 DEF PortSwTest, PortRfidTest, TestAndToggle
      <4>2. /\ pc = "swTest" /\ "SW" \in P1IFG => pc' = "swClear"
            /\ pc = "rfidTest" => pc' # "swRead" /\ pc' # "swClear"
            /\ pc = "swTest" => pc' # "swRead"
            /\ pc \in {"swTest", "rfidTest"}
        BY <3>4 DEF PortSwTest, PortRfidTest, TestAndToggle
      <4>3. QED
        BY <4>1, <4>2
    <3>5. CASE PortSwClear
      BY <3>5 DEF PortSwClear, ClearFlag
    <3>6. CASE PortRfidClear
      BY <3>6 DEF PortRfidClear, ClearFlag
    <3>7. CASE PortRfidDone
      BY <3>7 DEF PortRfidDone, ClearFlag, InPhase
    <3>8. CASE PortEnter \/ PortUpdate
      BY <3>8 DEF PortEnter, PortUpdate
    <3>9. QED
      BY <2>5, <3>1, <3>2, <3>3, <3>4, <3>5, <3>6, <3>7, <3>8 DEF Port_1
  <2>6. CASE UNCHANGED vars
    BY <2>6 DEF vars
  <2>7. QED
    BY <2>1, <2>2, <2>3, <2>4, <2>5, <2>6 DEF Next, Inputs
<1>3. FlagsFresh => FlagsTrackInputs
  BY DEF FlagsFresh, FlagsTrackInputs
<1>4. QED
  BY <1>1, <1>2, <1>3, TypeCorrect, InPhaseInvariant, PTL DEF Spec

\* And the line falls only when the switch is off or about to be served, and no
\* noise and no drawn gun counts.
THEOREM FallsSafely ==
  ASSUME Debounced, SettledBoot
  PROVE  Spec => FallsOnlyWithoutTrigger
<1>1. /\ TypeOK /\ FlagsTrackInputs /\ [Next]_vars
      => [TIVA_WAKE = 1 /\ TIVA_WAKE' = 0 =>
            /\ P1IN["SW"] = 0 \/ Serving("SW")
            /\ MIC_ON' = 0 /\ RFID_ON' = 0]_vars
  <2> SUFFICES ASSUME TypeOK, FlagsTrackInputs, Next, TIVA_WAKE = 1, TIVA_WAKE' = 0
               PROVE  /\ P1IN["SW"] = 0 \/ Serving("SW")
                      /\ MIC_ON' = 0 /\ RFID_ON' = 0
    OBVIOUS
  <2>1. Timer_A \/ PortUpdate
    BY DEF Next, Inputs, PinChange, Noise, FallQuiet, Port_1, PortEnter,
           PortSwTest, PortSwClear, PortSwRead, PortMic, PortRfidTest,
           PortRfidClear, PortRfidRead, PortRfidDone, TestAndToggle, ClearFlag
  <2>2. WakeLevel(SW_ON, MIC_ON', RFID_ON') = 0
    BY <2>1 DEF Timer_A, PortUpdate, flags
  <2>3. SW_ON # 1 /\ MIC_ON' # 1 /\ RFID_ON' # 1
    BY <2>2 DEF WakeLevel
  <2>4. SW_ON = 0 /\ MIC_ON' = 0 /\ RFID_ON' = 0
    BY <2>1, <2>3 DEF TypeOK, Timer_A, PortUpdate, flags
  <2>5. QED
    BY <2>4 DEF FlagsTrackInputs
<1>2. QED
  BY <1>1, TypeCorrect, FlagsTrack, PTL DEF Spec, FallsOnlyWithoutTrigger
=============================================================================
