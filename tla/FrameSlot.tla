----------------------------- MODULE FrameSlot -----------------------------
(***************************************************************************)
(* What usb_buf promises: a mailbox with one place between the camera's    *)
(* interrupt and main(). The interrupt puts a run of the video stream into *)
(* the empty place, main() moves it to the card and empties the place; no  *)
(* run is replaced, torn or stored twice.                                  *)
(***************************************************************************)
EXTENDS Naturals, Sequences

CONSTANTS Size, MaxPos

VARIABLES slot, stored

Run(p, n) == [j \in 1 .. n |-> p + j - 1]

Runs == {Run(p, n) : p \in 0 .. MaxPos, n \in 1 .. Size}

Init == slot = <<>> /\ stored = <<>>

Fill ==
  /\ slot = <<>>
  /\ slot' \in Runs
  /\ UNCHANGED stored

Store ==
  /\ slot # <<>>
  /\ stored' = slot
  /\ slot' = <<>>

Next == Fill \/ Store

Spec == Init /\ [][Next]_<<slot, stored>>
=============================================================================
