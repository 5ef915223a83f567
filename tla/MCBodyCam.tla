----------------------------- MODULE MCBodyCam ------------------------------
(***************************************************************************)
(* Small instances of BodyCam: the boot conditions, as in MCTrigger.       *)
(***************************************************************************)
EXTENDS BodyCam

BootDrawn == {[SW |-> 0, RFID |-> 0]}
BootRisingIES == {0}
=============================================================================
