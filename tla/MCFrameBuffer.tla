--------------------------- MODULE MCFrameBuffer ---------------------------
(***************************************************************************)
(* Instances of FrameBuffer: the cameras and cards it meets. The packets   *)
(* of MJPEG know nothing of env.bare, and what a card takes of a frame     *)
(* matters for a slow camera.                                              *)
(***************************************************************************)
EXTENDS FrameBuffer

AnyEnvironment ==
  {e \in Environment : e.mjpeg => ~e.bare /\ (e.slow \/ ~e.badCard)}
FastRaw == {[slow |-> FALSE, bare |-> FALSE, mjpeg |-> FALSE, badCard |-> FALSE]}
=============================================================================
