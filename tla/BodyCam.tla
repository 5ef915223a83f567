------------------------------ MODULE BodyCam -------------------------------
(***************************************************************************)
(* The two processors of the body camera, joined by the line TIVA_WAKE:    *)
(* the MSP430 of module Trigger drives it with P1OUT, the Tiva of module   *)
(* Recorder takes its edges on PK4, and the line switches the camera's     *)
(* supply. Both boot when the battery is connected.                        *)
(***************************************************************************)
EXTENDS Naturals

CONSTANTS RFID_timeout, MIC_timeout, BootPins, BootIES   \* see Trigger

ASSUME BodyCamAssumption ==
  /\ RFID_timeout \in Nat \ {0} /\ MIC_timeout \in Nat \ {0}
  /\ BootPins \subseteq [{"SW", "RFID"} -> {0, 1}] /\ BootIES \subseteq {0, 1}

VARIABLES
  TIVA_WAKE,
  \* the MSP430
  P1IN, P1IES, P1IFG, SW_ON, MIC_ON, RFID_ON, RFID_time, MIC_time, mspPc, age, quiet,
  \* the Tiva, its radio and its camera
  edge, kint, msp430Trigger, net, DHCP, disconnect_happened, apStable,
  ui32IntEvents, piDeviceState, addressed, CAMERA_STATE, streaming, frame, tivaPc

msp == <<P1IN, P1IES, P1IFG, SW_ON, MIC_ON, RFID_ON, RFID_time, MIC_time, mspPc, age, quiet>>
tiva == <<edge, kint, msp430Trigger, net, DHCP, disconnect_happened, apStable,
          ui32IntEvents, piDeviceState, addressed, CAMERA_STATE, streaming, frame, tivaPc>>
vars == <<TIVA_WAKE, msp, tiva>>

\* Inputs free of bounce, an access point in reach, a camera slow enough, and a
\* line that keeps its level while KIntHandler runs: it follows the seconds of
\* the MSP430's timer and the pace of its inputs.
T == INSTANCE Trigger WITH pc <- mspPc, Debounced <- TRUE
R == INSTANCE Recorder WITH pc <- tivaPc, SlowLine <- TRUE, BootLine <- {0},
                            APInReach <- TRUE, SlowCamera <- TRUE

Init == T!Init /\ R!Init

\* A step of the MSP430 that moves the line is an edge for the Tiva, and takes the
\* camera's supply with it. quiet and apStable only take steps away from the
\* environment, for the sake of the parts' liveness: here neither is ever set.
MspStep ==
  /\ T!Next /\ ~quiet'
  /\ IF TIVA_WAKE' = TIVA_WAKE THEN UNCHANGED tiva ELSE R!LineMoves

\* The Tiva's own steps leave the line and the MSP430 alone.
TivaStep == R!TivaNext /\ ~apStable' /\ UNCHANGED <<TIVA_WAKE, msp>>

Next == MspStep \/ TivaStep

Spec == Init /\ [][Next]_vars

-----------------------------------------------------------------------------
\* End to end, what main() tests before it sleeps or records is whether a trigger
\* counts: two interrupt handlers on two processors, one that refreshes the line
\* in some of its branches only and one that toggles a flag without reading the
\* line, keep msp430Trigger equal to the MSP430's three flags whenever neither
\* has work.
FlagMeansTrigger ==
  mspPc = "lpm" /\ edge = 0 /\ kint = "idle" =>
     msp430Trigger = T!WakeLevel(SW_ON, MIC_ON, RFID_ON)

\* No video without a cause: while the camera streams, the switch is on, a noise or
\* a drawn gun counts, or Port_1 is about to say otherwise.
StreamsForTrigger ==
  streaming => \/ mspPc # "lpm"
               \/ SW_ON = 1 \/ MIC_ON = 1 \/ RFID_ON = 1
=============================================================================
