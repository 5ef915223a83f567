------------------------------ MODULE Trigger -------------------------------
(***************************************************************************)
(* The MSP430 trigger controller, src/trigger/mic_test/main.c.             *)
(*                                                                         *)
(* The processor sleeps in LPM3 and does all its work in two interrupt     *)
(* service routines that never nest: Timer_A, once per tick, is one step;  *)
(* Port_1 is a step per access of a register the inputs change under it,   *)
(* since a pin may move between any two of its statements.                 *)
(*                                                                         *)
(* 0 and 1 are the levels of a pin and the values of the C flags.          *)
(***************************************************************************)
EXTENDS Naturals

CONSTANTS
  RFID_timeout,  \* ticks after which a drawn gun stops counting
  MIC_timeout,   \* ticks for which a noise counts
  BootPins,      \* the levels the switch and the RFID line can have at boot
  BootIES,       \* what P1IES can hold for the switch at boot: a reset keeps it
  Debounced      \* TRUE: a pin keeps its level until Port_1 has served its edge

Pins == {"SW", "RFID"}      \* the inputs whose level the code reads
Sources == Pins \cup {"MIC"}
Bit == {0, 1}

ASSUME TriggerAssumption ==
  /\ RFID_timeout \in Nat \ {0}
  /\ MIC_timeout \in Nat \ {0}
  /\ BootPins \subseteq [Pins -> Bit]
  /\ BootIES \subseteq Bit
  /\ Debounced \in BOOLEAN

VARIABLES
  P1IN,      \* pin levels; the RFID line is high while the tag is in reach
  P1IES,     \* edge that interrupts: 0 rising, 1 falling
  P1IFG,     \* pending port interrupts
  SW_ON, MIC_ON, RFID_ON,
  RFID_time, MIC_time,
  TIVA_WAKE, \* the output line to the Tiva
  pc,        \* "lpm" asleep, else the statement of Port_1 to run next
  age,       \* history: ticks counted with the flag set since the event it names
  quiet      \* environment: no input changes any more

registers == <<P1IN, P1IES, P1IFG>>
flags == <<SW_ON, MIC_ON, RFID_ON>>
vars == <<registers, flags, RFID_time, MIC_time, TIVA_WAKE, pc, age, quiet>>

Events == {"micOn", "drawn"}
PortSteps == {"swTest", "swClear", "swRead", "micTest",
              "rfidTest", "rfidClear", "rfidRead", "rfidDone", "update"}

\* The ages saturate above both timeouts, which is all the properties compare.
AgeLimit == MIC_timeout + RFID_timeout

TypeOK ==
  /\ P1IN \in [Pins -> Bit]
  /\ P1IES \in [Pins -> Bit]
  /\ P1IFG \subseteq Sources
  /\ SW_ON \in Bit
  /\ MIC_ON \in Bit
  /\ RFID_ON \in Bit
  /\ RFID_time \in 0..RFID_timeout
  /\ MIC_time \in 0..MIC_timeout
  /\ TIVA_WAKE \in Bit
  /\ pc \in PortSteps \cup {"lpm"}
  /\ age \in [Events -> 0..AgeLimit]
  /\ quiet \in BOOLEAN

-----------------------------------------------------------------------------

\* Mutant: update() forgets the RFID flag.
WakeLevelNoRfid(sw, mic, rfid) == IF sw = 1 \/ mic = 1 THEN 1 ELSE 0

\* update(): the wake line is high while any trigger is.
WakeLevel(sw, mic, rfid) == IF sw = 1 \/ mic = 1 \/ rfid = 1 THEN 1 ELSE 0

\* config() has run. P1IES &= ~(SW+MIC+~RFID) clears the bits of MIC and RFID
\* and leaves the one of the switch, which no reset initialises.
Init ==
  /\ P1IN \in BootPins
  /\ P1IES \in {[p \in Pins |-> IF p = "SW" THEN e ELSE 0] : e \in BootIES}
  /\ P1IFG = {}
  /\ SW_ON = 0 /\ MIC_ON = 0 /\ RFID_ON = 0
  /\ RFID_time = 0 /\ MIC_time = 0
  /\ TIVA_WAKE = 0
  /\ pc = "lpm"
  /\ age = [e \in Events |-> 0]
  /\ quiet = FALSE

-----------------------------------------------------------------------------
\* The inputs.

Serving(p) ==
  \/ p \in P1IFG
  \/ p = "SW" /\ pc \in {"swClear", "swRead"}
  \/ p = "RFID" /\ pc \in {"rfidClear", "rfidRead", "rfidDone"}

\* A level changes; the port latches the edge P1IES selects.
PinChange(p) ==
  /\ ~quiet
  /\ Debounced => ~Serving(p)
  /\ P1IN' = [P1IN EXCEPT ![p] = 1 - @]
  /\ P1IFG' = IF P1IN[p] = P1IES[p] THEN P1IFG \cup {p} ELSE P1IFG
  /\ UNCHANGED <<P1IES, flags, RFID_time, MIC_time, TIVA_WAKE, pc, age, quiet>>

\* The comparator behind the microphone pulses high; P1IES keeps its bit 0.
Noise ==
  /\ ~quiet
  /\ P1IFG' = P1IFG \cup {"MIC"}
  /\ UNCHANGED <<P1IN, P1IES, flags, RFID_time, MIC_time, TIVA_WAKE, pc, age, quiet>>

FallQuiet ==
  /\ ~quiet
  /\ quiet' = TRUE
  /\ UNCHANGED <<registers, flags, RFID_time, MIC_time, TIVA_WAKE, pc, age>>

-----------------------------------------------------------------------------
\* Timer_A.

RfidExpires == RFID_ON = 1 /\ RFID_time = RFID_timeout

\* Mutant: ">" for ">=".
MicExpiresLate == MIC_ON = 1 /\ MIC_time > MIC_timeout
MicExpires == MIC_ON = 1 /\ MIC_time >= MIC_timeout

\* Mutants: the count survives the window; the count never advances.
MicTimeNotReset ==
  IF MIC_ON = 1 THEN IF MicExpires THEN MIC_time ELSE MIC_time + 1 ELSE MIC_time
MicTimeStuck == IF MIC_ON = 1 /\ ~MicExpires THEN MIC_time ELSE 0

\* What the tick leaves in MIC_time: the count of a noise that still counts.
MicTimeAfterTick ==
  IF MIC_ON = 1 /\ ~MicExpires THEN MIC_time + 1 ELSE 0

Older(event) == IF age[event] < AgeLimit THEN age[event] + 1 ELSE AgeLimit

Timer_A ==
  /\ pc = "lpm"
  /\ RFID_ON' = IF RfidExpires THEN 0 ELSE RFID_ON
  /\ RFID_time' = IF RfidExpires THEN 0
                  ELSE IF RFID_ON = 1 THEN RFID_time + 1 ELSE RFID_time
  /\ MIC_ON' = IF MicExpires THEN 0 ELSE MIC_ON
  /\ MIC_time' = MicTimeAfterTick
  /\ TIVA_WAKE' = IF RfidExpires \/ MicExpires \/ MIC_ON = 0
                  THEN WakeLevel(SW_ON, MIC_ON', RFID_ON') ELSE TIVA_WAKE
  /\ age' = [micOn |-> IF MIC_ON = 1 /\ MIC_ON' = 1 THEN Older("micOn") ELSE 0,
             drawn |-> IF RFID_ON = 1 /\ RFID_ON' = 1 THEN Older("drawn") ELSE 0]
  /\ UNCHANGED <<registers, SW_ON, pc, quiet>>

-----------------------------------------------------------------------------
\* Port_1.

GoTo(next) == pc' = next
At(step) == pc = step

PortEnter ==
  /\ At("lpm") /\ P1IFG # {} /\ GoTo("swTest")
  /\ UNCHANGED <<registers, flags, RFID_time, MIC_time, TIVA_WAKE, age, quiet>>

\* "if (P1IFG & p)": toggle the edge, or go on to the next source. (The write
\* of P1IES may itself raise P1IFG; the statement after it clears the flag.)
TestAndToggle(p, here, served, skipped) ==
  /\ At(here)
  /\ IF p \in P1IFG
     THEN P1IES' = [P1IES EXCEPT ![p] = 1 - @] /\ GoTo(served)
     ELSE UNCHANGED P1IES /\ GoTo(skipped)
  /\ UNCHANGED <<P1IN, P1IFG, flags, RFID_time, MIC_time, TIVA_WAKE, age, quiet>>

ClearFlag(p, here, next) ==
  /\ At(here) /\ GoTo(next)
  /\ P1IFG' = P1IFG \ {p}
  /\ UNCHANGED <<P1IN, P1IES, flags, RFID_time, MIC_time, TIVA_WAKE, age, quiet>>

PortSwTest == TestAndToggle("SW", "swTest", "swClear", "micTest")
PortSwClear == ClearFlag("SW", "swClear", "swRead")
PortRfidTest == TestAndToggle("RFID", "rfidTest", "rfidClear", "update")
PortRfidClear == ClearFlag("RFID", "rfidClear", "rfidRead")
\* Mutant: P1IFG = 0 in place of P1IFG &= ~RFID_TRIG.
PortRfidDoneClearsAll ==
  /\ At("rfidDone") /\ GoTo("update")
  /\ P1IFG' = {}
  /\ UNCHANGED <<P1IN, P1IES, flags, RFID_time, MIC_time, TIVA_WAKE, age, quiet>>

PortRfidDone == ClearFlag("RFID", "rfidDone", "update")

PortSwRead ==
  /\ At("swRead") /\ GoTo("micTest")
  /\ SW_ON' = P1IN["SW"]
  /\ UNCHANGED <<registers, MIC_ON, RFID_ON, RFID_time, MIC_time, TIVA_WAKE, age, quiet>>

PortMic ==
  /\ At("micTest") /\ GoTo("rfidTest")
  /\ MIC_ON' = IF "MIC" \in P1IFG THEN 1 ELSE MIC_ON
  /\ P1IFG' = P1IFG \ {"MIC"}
  /\ UNCHANGED <<P1IN, P1IES, SW_ON, RFID_ON, RFID_time, MIC_time, TIVA_WAKE, age, quiet>>

\* Mutant: the polarity of the card-present line swapped.
PortRfidReadSwapped ==
  /\ At("rfidRead") /\ GoTo("rfidDone")
  /\ RFID_ON' = P1IN["RFID"]
  /\ UNCHANGED <<registers, SW_ON, MIC_ON, RFID_time, MIC_time, TIVA_WAKE, age, quiet>>

PortRfidRead ==
  /\ At("rfidRead") /\ GoTo("rfidDone")
  /\ RFID_ON' = 1 - P1IN["RFID"]
  /\ age' = IF RFID_ON = 0 THEN [age EXCEPT !["drawn"] = 0] ELSE age
  /\ UNCHANGED <<registers, SW_ON, MIC_ON, RFID_time, MIC_time, TIVA_WAKE, quiet>>

\* Mutant: Port_1 returns without update().
PortNoUpdate ==
  /\ At("update") /\ GoTo("lpm")
  /\ UNCHANGED <<registers, flags, RFID_time, MIC_time, TIVA_WAKE, age, quiet>>

PortUpdate ==
  /\ At("update") /\ GoTo("lpm")
  /\ TIVA_WAKE' = WakeLevel(SW_ON, MIC_ON, RFID_ON)
  /\ UNCHANGED <<registers, flags, RFID_time, MIC_time, age, quiet>>

Port_1 ==
  \/ PortEnter
  \/ PortSwTest \/ PortSwClear \/ PortSwRead
  \/ PortMic
  \/ PortRfidTest \/ PortRfidClear \/ PortRfidRead \/ PortRfidDone
  \/ PortUpdate

Inputs == (\E p \in Pins : PinChange(p)) \/ Noise \/ FallQuiet

Next == Inputs \/ Timer_A \/ Port_1

\* The timer keeps ticking, a pending interrupt is taken (the port's routine is
\* short, so a tick waits for it and is not lost), and the inputs may stop.
Fairness == WF_vars(Timer_A) /\ WF_vars(Port_1)

Spec == Init /\ [][Next]_vars
FairSpec == Spec /\ Fairness
-----------------------------------------------------------------------------
\* What the controller guarantees.

\* Whenever the processor is asleep the wake line is high exactly when one of
\* the three triggers is on, although Timer_A refreshes it in some branches only.
WakeFollowsFlags ==
  At("lpm") => TIVA_WAKE = WakeLevel(SW_ON, MIC_ON, RFID_ON)

\* Toggling P1IES in place of deriving it from the pin works for inputs free of
\* bounce: once served, an input is armed for the edge away from its level.
EdgeReady ==
  \A p \in Pins : ~Serving(p) => P1IES[p] = P1IN[p]

\* Once served, SW_ON is the position of the switch, and RFID_ON is never set
\* while the tag is in reach.
FlagsTrackInputs ==
  /\ ~Serving("SW") => SW_ON = P1IN["SW"]
  /\ ~Serving("RFID") /\ RFID_ON = 1 => P1IN["RFID"] = 0

\* The line falls only when no trigger is present: the switch is off, or its
\* edge has yet to be served, and neither a noise nor a drawn gun counts.
FallsOnlyWithoutTrigger ==
  [][TIVA_WAKE = 1 /\ TIVA_WAKE' = 0 =>
       /\ P1IN["SW"] = 0 \/ Serving("SW")
       /\ MIC_ON' = 0 /\ RFID_ON' = 0]_vars

\* MIC_ON, once set, is cleared by Timer_A alone and only after it has counted
\* MIC_timeout ticks since the noise that set it, whatever count an earlier window
\* left behind. A further noise within the window does not extend it (main.c:109).
MicHoldsWindow ==
  [][MIC_ON = 1 /\ MIC_ON' = 0 => age["micOn"] >= MIC_timeout]_vars

\* main.c's "#define RFID_timeout 300 // 5 minutes": a gun that stays out is
\* given up only after RFID_timeout ticks of being out.
DrawnHoldsWindow ==
  [][RFID_ON = 1 /\ RFID_ON' = 0 /\ At("lpm") =>
       age["drawn"] >= RFID_timeout]_vars

\* Once the inputs stop changing the device goes back to sleep by its timers,
\* unless the switch was left on; a gun left out does not keep it awake.
SettlesAsleep == quiet ~> [](P1IN["SW"] = 1 \/ TIVA_WAKE = 0)
=============================================================================
