----------------------------- MODULE MCTrigger ------------------------------
(***************************************************************************)
(* Small instances of Trigger: the boot conditions, named.                 *)
(***************************************************************************)
EXTENDS Trigger

\* Gun out of the holster and switch off: P1IES, as config() sets it for the
\* RFID line, then agrees with both pins.
BootDrawn == {[SW |-> 0, RFID |-> 0]}

BootRisingIES == {0}
=============================================================================
