----------------------------- MODULE MCRecorder -----------------------------
(***************************************************************************)
(* Instances of Recorder: the levels the wake line can have at boot.       *)
(***************************************************************************)
EXTENDS Recorder

BootLow == {0}
=============================================================================
