--------------------------- MODULE MCBaseStation ---------------------------
(***************************************************************************)
(* Instances of BaseStation: the networks, boards and cameras it meets.    *)
(* A fourth frame is there so that the file gets what the first and the    *)
(* third, which have one id, may leave together.                           *)
(***************************************************************************)
EXTENDS BaseStation

Good == [frames |-> 3, lossy |-> FALSE, duplicates |-> FALSE, reorders |-> FALSE,
         reboots |-> FALSE, tails |-> FALSE, mjpeg |-> FALSE, faults |-> FALSE,
         noPicture |-> FALSE]

SomeNetworks ==
  {[Good EXCEPT !.duplicates = TRUE],
   [Good EXCEPT !.mjpeg = TRUE],
   [Good EXCEPT !.lossy = TRUE, !.duplicates = TRUE],
   [Good EXCEPT !.lossy = TRUE, !.frames = 4],
   [Good EXCEPT !.reorders = TRUE],
   [Good EXCEPT !.reboots = TRUE, !.tails = TRUE, !.mjpeg = TRUE],
   [Good EXCEPT !.faults = TRUE],
   [Good EXCEPT !.noPicture = TRUE]}

GoodNetwork == {Good}
=============================================================================
